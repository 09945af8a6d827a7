---------------------------- MODULE EntityEvents ----------------------------
(***************************************************************************)
(* The block events the store follows and the entity records it derives    *)
(* from them (pebblestore/follow_events.go, store/*_attributes.go).        *)
(*                                                                         *)
(* A block is a number and a sequence of operations.  What the user        *)
(* attaches to an entity (content, content type, own attributes) is one    *)
(* opaque Body; Attributes[b] is the set of index keys its own attributes  *)
(* give rise to.  An index key is <<kind, name, value>>: kind "str" for    *)
(* the 0x10 key space, "num" for 0x20.                                     *)
(***************************************************************************)
EXTENDS Naturals, Sequences

CONSTANTS
    Key,         \* entity keys (32-byte hashes)
    Address,     \* owner addresses, in their lower-case hex form
    Body,        \* content + content type + user attributes of an event
    Attributes,  \* Attributes[b]: the index keys of b's user attributes
    BTL,         \* blocks-to-live values that events carry
    Wrap,        \* 2^64: uint64 arithmetic is modulo Wrap
    IndexBase    \* 2^16: room for TxIndex and for OpIndex in $sequence

(* Attribute names the store writes itself.  A user attribute of that name *)
(* is overwritten when the event is applied, so none reaches the index.    *)
SystemNames ==
    {"str"} \X {"$owner", "$creator", "$key"}
    \cup {"num"} \X {"$expiration", "$createdAtBlock", "$lastModifiedAtBlock",
                     "$sequence", "$txIndex", "$opIndex"}

ASSUME NumbersAssumption ==
    /\ Wrap \in Nat \ {0}
    /\ IndexBase \in Nat \ {0}
    /\ BTL \subseteq Nat

ASSUME AttributesAssumption ==
    /\ DOMAIN Attributes = Body
    /\ \A b \in Body : \A a \in Attributes[b] : <<a[1], a[2]>> \notin SystemNames

-----------------------------------------------------------------------------
(* Operations of a block.  tx and idx are TxIndex and OpIndex.             *)
Index == 0 .. IndexBase - 1

CreateOp == [type : {"create"}, key : Key, owner : Address, btl : BTL,
             body : Body, tx : Index, idx : Index]
UpdateOp == [type : {"update"}, key : Key, owner : Address, btl : BTL,
             body : Body, tx : Index, idx : Index]
RemoveOp == [type : {"delete", "expire"}, key : Key]
ExtendOp == [type : {"extendBTL"}, key : Key, btl : BTL]
ChangeOwnerOp == [type : {"changeOwner"}, key : Key, owner : Address]
UnknownOp == [type : {"unknown"}]

Op == CreateOp \cup UpdateOp \cup RemoveOp \cup ExtendOp \cup ChangeOwnerOp
      \cup UnknownOp

IsCreate(op, k) == op.type = "create" /\ op.key = k
IsUpdate(op, k) == op.type = "update" /\ op.key = k
IsRemove(op, k) == op.type \in {"delete", "expire"} /\ op.key = k

-----------------------------------------------------------------------------
(* The payload record of an entity: its system attributes and its body.    *)
Row == [key : Key, owner : Address, creator : Address, expiration : Nat,
        createdAt : Nat, modifiedAt : Nat, sequence : Nat,
        tx : Index, idx : Index, body : Body]

(* block.Number<<32 | TxIndex<<16 | OpIndex: the shifted parts do not      *)
(* overlap because tx and idx are below IndexBase.                         *)
(* Slip: leaves the block number out.                                      *)
SequenceInBlockOnly(n, tx, idx) == tx * IndexBase + idx
Sequence(n, tx, idx) == ((n * IndexBase + tx) * IndexBase + idx) % Wrap

ExpirationAfter(n, btl) == (n + btl) % Wrap

NewRow(op, n) ==
    [key |-> op.key, owner |-> op.owner, creator |-> op.owner,
     expiration |-> ExpirationAfter(n, op.btl),
     createdAt |-> n, modifiedAt |-> n,
     sequence |-> Sequence(n, op.tx, op.idx),
     tx |-> op.tx, idx |-> op.idx, body |-> op.body]

(* Slips: an update renews the sequence, or takes over the creator.        *)
UpdatedRowResequenced(old, op, n) ==
    [NewRow(op, n) EXCEPT !.creator = old.creator, !.createdAt = old.createdAt]
UpdatedRowRecreated(old, op, n) ==
    [NewRow(op, n) EXCEPT !.createdAt = old.createdAt,
        !.sequence = old.sequence, !.tx = old.tx, !.idx = old.idx]

UpdatedRow(old, op, n) ==
    [key |-> op.key, owner |-> op.owner, creator |-> old.creator,
     expiration |-> ExpirationAfter(n, op.btl),
     createdAt |-> old.createdAt, modifiedAt |-> n,
     sequence |-> old.sequence,
     tx |-> old.tx, idx |-> old.idx, body |-> op.body]

ExtendedRow(old, op) ==
    [old EXCEPT !.expiration = ExpirationAfter(old.expiration, op.btl)]

ReownedRow(old, op) == [old EXCEPT !.owner = op.owner]

(* Two records of one entity.                                              *)
SameCreation(r, s) ==
    /\ r.key = s.key /\ r.creator = s.creator /\ r.createdAt = s.createdAt
    /\ r.sequence = s.sequence /\ r.tx = s.tx /\ r.idx = s.idx

OwnerKey(row) == <<"str", "$owner", row.owner>>
ExpirationKey(row) == <<"num", "$expiration", row.expiration>>

(* The index keys under which an entity is filed: every attribute except   *)
(* $txIndex and $opIndex, which are stored but not indexed.                *)
IndexKeys(row) ==
    {OwnerKey(row), ExpirationKey(row),
     <<"str", "$creator", row.creator>>,
     <<"str", "$key", row.key>>,
     <<"num", "$createdAtBlock", row.createdAt>>,
     <<"num", "$lastModifiedAtBlock", row.modifiedAt>>,
     <<"num", "$sequence", row.sequence>>}
    \cup Attributes[row.body]

-----------------------------------------------------------------------------
(* Key-value maps are functions whose domain is the set of stored keys.    *)
EmptyMap == [x \in {} |-> x]
Put(f, x, v) == [y \in DOMAIN f \cup {x} |-> IF y = x THEN v ELSE f[y]]
Del(f, x) == [y \in DOMAIN f \ {x} |-> f[y]]

(* What one operation of block n does to a map from keys to entities when  *)
(* operations are taken one by one, in order.  An operation on an entity   *)
(* that does not exist has no effect.                                      *)
Effect(entities, op, n) ==
    CASE op.type = "create" ->
            Put(entities, op.key, NewRow(op, n))
      [] op.type = "update" /\ op.key \in DOMAIN entities ->
            Put(entities, op.key, UpdatedRow(entities[op.key], op, n))
      [] op.type \in {"delete", "expire"} /\ op.key \in DOMAIN entities ->
            Del(entities, op.key)
      [] op.type = "extendBTL" /\ op.key \in DOMAIN entities ->
            Put(entities, op.key, ExtendedRow(entities[op.key], op))
      [] op.type = "changeOwner" /\ op.key \in DOMAIN entities ->
            Put(entities, op.key, ReownedRow(entities[op.key], op))
      [] OTHER -> entities

(* The chain creates an entity only under a key that is not in use: in the *)
(* operations from position i on, with the keys in live existing, every    *)
(* create is preceded by a removal of that key if the key existed or had   *)
(* been created before.                                                    *)
FreshCreates(ops, i, live) ==
    \A c \in i .. Len(ops) : ops[c].type = "create" =>
        /\ ops[c].key \in live =>
              \E r \in i .. c - 1 : IsRemove(ops[r], ops[c].key)
        /\ \A b \in i .. c - 1 : IsCreate(ops[b], ops[c].key) =>
              \E r \in b + 1 .. c - 1 : IsRemove(ops[r], ops[c].key)

(* The keys of which an update before position i has been skipped because  *)
(* another one, at i or later, replaces it.                                *)
PendingUpdates(ops, i) ==
    {k \in Key : /\ \E j \in 1 .. i - 1 : IsUpdate(ops[j], k)
                 /\ \E j \in i .. Len(ops) : IsUpdate(ops[j], k)}

(* Two maps of entities have the same keys, and the same entities up to    *)
(* what an update overwrites in those with a key in lagging.               *)
AgreeExcept(these, those, lagging) ==
    /\ DOMAIN these = DOMAIN those
    /\ \A k \in DOMAIN those :
          IF k \in lagging THEN SameCreation(these[k], those[k])
                           ELSE these[k] = those[k]
=============================================================================
