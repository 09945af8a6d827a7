----------------------------- MODULE PebbleStore -----------------------------
(***************************************************************************)
(* The key spaces of the PebbleDB database and the operations of the store *)
(* on them (pebblestore.go, payload_ops.go, bitmap_ops.go,                 *)
(* bitmap_cache.go).                                                       *)
(*                                                                         *)
(* A view is what a pebble.Reader shows: the database itself, a snapshot   *)
(* of it, or an indexed batch (the database with the batch's writes on     *)
(* top; the store has one writer, so nothing changes underneath a batch).  *)
(* Every key space is a map whose domain is the set of stored keys, so     *)
(* pebble.ErrNotFound is absence from the domain.                          *)
(***************************************************************************)
EXTENDS EntityEvents, FiniteSets

(* cur:  0x03  entity key -> id          pay:  0x02  id -> payload record   *)
(* bm:   0x10 and 0x20  index key -> set of ids                             *)
(* meta: 0x01 "lastBlock", 0x06 "idCounter", 0x07 "entityCount"             *)
EmptyView == [cur |-> EmptyMap, pay |-> EmptyMap, bm |-> EmptyMap,
              meta |-> EmptyMap]

MetaName == {"lastBlock", "idCounter", "entityCount"}

IsView(v) ==
    /\ v = [cur |-> v.cur, pay |-> v.pay, bm |-> v.bm, meta |-> v.meta]
    /\ v.cur \in [DOMAIN v.cur -> Nat] /\ DOMAIN v.cur \subseteq Key
    /\ v.pay \in [DOMAIN v.pay -> Row] /\ DOMAIN v.pay \subseteq Nat
    /\ v.bm \in [DOMAIN v.bm -> SUBSET Nat]
    /\ v.meta \in [DOMAIN v.meta -> Nat] /\ DOMAIN v.meta \subseteq MetaName

-----------------------------------------------------------------------------
(* pebblestore.go: block number, entity count and id counter               *)
MetaOr(v, name, default) ==
    IF name \in DOMAIN v.meta THEN v.meta[name] ELSE default

PutMeta(v, name, n) == [v EXCEPT !.meta = Put(@, name, n)]

GetLastBlock(v) == MetaOr(v, "lastBlock", 0)
(* Slip: the block number is not written.                                  *)
UpsertLastBlockForgotten(v, n) == v
UpsertLastBlock(v, n) == PutMeta(v, "lastBlock", n)

GetNumberOfEntities(v) == MetaOr(v, "entityCount", 0)
CountEntitiesByScan(v) == Cardinality(DOMAIN v.cur)
SetEntityCount(v, n) == PutMeta(v, "entityCount", n)
IncrementEntityCount(v) == SetEntityCount(v, GetNumberOfEntities(v) + 1)
(* Slip: counts one for the pointer and one for the record.                *)
DecrementEntityCountTwice(v) == SetEntityCount(v, GetNumberOfEntities(v) - 2)
DecrementEntityCount(v) == SetEntityCount(v, GetNumberOfEntities(v) - 1)
EntityCountUnderflow(v) == GetNumberOfEntities(v) = 0

PersistedNextID(v) == MetaOr(v, "idCounter", 1)
(* The counter a store opened on v starts to allocate from.                *)
(* Slip: derives it from the number of entities.                           *)
LoadNextIDFromCount(v) == CountEntitiesByScan(v) + 1
LoadNextID(v) == PersistedNextID(v)
(* Slip: records the id handed out instead of its successor.               *)
PersistUsedID(v, next) == PutMeta(v, "idCounter", next)
(* nextID hands out `next` and records its successor in the batch.         *)
PersistNextID(v, next) == PutMeta(v, "idCounter", next + 1)

-----------------------------------------------------------------------------
(* payload_ops.go.  `next` is the in-memory counter nextIDVal.             *)
UpsertID(v, key, next) == IF key \in DOMAIN v.cur THEN v.cur[key] ELSE next

(* Slip: counts an existing entity again.                                  *)
UpsertPayloadCountingAll(v, next, row) ==
    LET id == UpsertID(v, row.key, next)
        w  == IF row.key \in DOMAIN v.cur THEN v ELSE PersistNextID(v, next)
    IN  [IncrementEntityCount(w) EXCEPT !.cur = Put(@, row.key, id),
                                        !.pay = Put(@, id, row)]

UpsertPayload(v, next, row) ==
    LET id == UpsertID(v, row.key, next)
        w  == IF row.key \in DOMAIN v.cur
              THEN v
              ELSE IncrementEntityCount(PersistNextID(v, next))
    IN  [w EXCEPT !.cur = Put(@, row.key, id), !.pay = Put(@, id, row)]

HasCurrentPayload(v, key) ==
    key \in DOMAIN v.cur /\ v.cur[key] \in DOMAIN v.pay
GetCurrentPayloadForEntityKey(v, key) == v.pay[v.cur[key]]

(* Slip: deletes the pointer and leaves the record.                        *)
DeletePointerOnly(v, key) ==
    DecrementEntityCount([v EXCEPT !.cur = Del(@, key)])

DeletePayloadForEntityKey(v, key) ==
    DecrementEntityCount([v EXCEPT !.pay = Del(@, v.cur[key]),
                                   !.cur = Del(@, key)])

-----------------------------------------------------------------------------
(* bitmap_ops.go and bitmap_cache.go.  The string and the numeric half of  *)
(* the cache are one map over index keys.  An entry is loaded from the     *)
(* reader the first time it is touched, and reaches the batch at Flush.    *)
GetBitmap(v, p) == IF p \in DOMAIN v.bm THEN v.bm[p] ELSE {}

Cached(c, v, p) == IF p \in DOMAIN c THEN c[p] ELSE GetBitmap(v, p)

(* Slip: loads the stored bitmap again although it is cached.              *)
AddToStoredBitmaps(c, v, keys, id) ==
    [p \in DOMAIN c \cup keys |->
        IF p \in keys THEN GetBitmap(v, p) \cup {id} ELSE c[p]]

AddToBitmaps(c, v, keys, id) ==
    [p \in DOMAIN c \cup keys |->
        IF p \in keys THEN Cached(c, v, p) \cup {id} ELSE c[p]]

RemoveFromBitmaps(c, v, keys, id) ==
    [p \in DOMAIN c \cup keys |->
        IF p \in keys THEN Cached(c, v, p) \ {id} ELSE c[p]]

(* Flush writes every cached bitmap; an empty one deletes its key.         *)
Flush(v, c) ==
    LET kept == {p \in DOMAIN v.bm \cup DOMAIN c : p \in DOMAIN c => c[p] # {}}
    IN  [v EXCEPT !.bm = [p \in kept |-> Cached(c, v, p)]]

-----------------------------------------------------------------------------
(* What a consistent view looks like.                                      *)

Entities(v) == [k \in DOMAIN v.cur |-> GetCurrentPayloadForEntityKey(v, k)]

(* Entity pointers and payload records are in one-to-one correspondence:   *)
(* no pointer dangles, no record is orphaned, no two keys share an id.     *)
PointersMatchPayloads(v) ==
    /\ \A k \in DOMAIN v.cur :
          v.cur[k] \in DOMAIN v.pay /\ v.pay[v.cur[k]].key = k
    /\ \A id \in DOMAIN v.pay :
          v.pay[id].key \in DOMAIN v.cur /\ v.cur[v.pay[id].key] = id

(* The ids that belong under index key p.                                  *)
Posting(v, p) == {id \in DOMAIN v.pay : p \in IndexKeys(v.pay[id])}

(* Seen through cache c, every entity is filed under its index keys.       *)
CacheComplete(c, v) ==
    \A id \in DOMAIN v.pay : \A p \in IndexKeys(v.pay[id]) : id \in Cached(c, v, p)

(* The bitmaps seen through cache c are the postings of the records.       *)
CacheExact(c, v) ==
    /\ \A p \in DOMAIN v.bm \cup DOMAIN c : Cached(c, v, p) = Posting(v, p)
    /\ CacheComplete(c, v)

(* The stored bitmaps are the postings of the stored records, and no       *)
(* bitmap is stored empty.                                                 *)
IndexExact(v) == CacheExact(EmptyMap, v) /\ \A p \in DOMAIN v.bm : v.bm[p] # {}

(* A stored entity count is the number of entities.                        *)
CountExact(v) ==
    "entityCount" \in DOMAIN v.meta =>
        v.meta["entityCount"] = Cardinality(DOMAIN v.cur)

(* Every id in use was allocated below n.                                  *)
IdsBelow(v, n) == \A id \in DOMAIN v.pay : id < n

(* What holds of the records of a batch v under the in-memory counter next.*)
RecordsExact(v, next) ==
    /\ IsFiniteSet(DOMAIN v.cur)
    /\ PointersMatchPayloads(v)
    /\ CountExact(v) /\ "entityCount" \in DOMAIN v.meta
    /\ IdsBelow(v, PersistedNextID(v))
    /\ PersistedNextID(v) <= next

(* What holds of a batch v with cache c.                                   *)
BatchExact(v, c, next) == RecordsExact(v, next) /\ CacheExact(c, v)

(* View v adds to view base: new entities have ids that base has not       *)
(* counted past, the others keep what they were created with, and the      *)
(* bitmaps are those of base (the changes wait in a cache).                *)
Extends(base, v) ==
    /\ PersistedNextID(base) <= PersistedNextID(v)
    /\ \A id \in DOMAIN v.pay :
          IF id \in DOMAIN base.pay
          THEN SameCreation(v.pay[id], base.pay[id])
          ELSE id >= PersistedNextID(base)
    /\ v.bm = base.bm
=============================================================================
