------------------------- MODULE FollowEventsProofs -------------------------
(***************************************************************************)
(* The properties of the event follower, for every set of keys, addresses, *)
(* bodies and block contents, for every number of blocks and failures; and *)
(* those it keeps when any creates are sent (FollowAnyEvents).             *)
(***************************************************************************)
EXTENDS FollowAnyEvents, PebbleStoreProofs

(* What holds of the database between commits.                             *)
StoredExact(v) ==
    /\ IsView(v)
    /\ IsFiniteSet(DOMAIN v.cur)
    /\ PointersMatchPayloads(v)
    /\ IndexExact(v)
    /\ CountExact(v)
    /\ IdsBelow(v, PersistedNextID(v))

-----------------------------------------------------------------------------
(* The database                                                            *)

(* A view with the same entities and bitmaps is as consistent.             *)
LEMMA SameContents ==
    ASSUME NEW v, StoredExact(v), NEW w, IsView(w),
           w.cur = v.cur, w.pay = v.pay, w.bm = v.bm,
           PersistedNextID(w) = PersistedNextID(v), CountExact(w)
    PROVE  StoredExact(w) /\ Entities(w) = Entities(v)
<1>1. IsFiniteSet(DOMAIN w.cur) /\ PointersMatchPayloads(w)
    BY DEF StoredExact, PointersMatchPayloads
<1>2. IndexExact(w)
    BY DEF StoredExact, IndexExact, CacheExact, CacheComplete, Cached, GetBitmap, Posting
<1>3. IdsBelow(w, PersistedNextID(w))
    BY DEF StoredExact, IdsBelow
<1>4. Entities(w) = Entities(v)
    BY DEF Entities, GetCurrentPayloadForEntityKey
<1> QED  BY <1>1, <1>2, <1>3, <1>4 DEF StoredExact

(* Opening a store on a database counts the entities if nobody has, and    *)
(* leaves everything else alone.                                           *)
LEMMA OpenFacts ==
    ASSUME NEW v, StoredExact(v), NEW w,
           w = IF "entityCount" \in DOMAIN v.meta THEN v
               ELSE SetEntityCount(v, CountEntitiesByScan(v))
    PROVE  /\ StoredExact(w)
           /\ "entityCount" \in DOMAIN w.meta
           /\ w.pay = v.pay
           /\ Entities(w) = Entities(v)
           /\ PersistedNextID(w) = PersistedNextID(v)
           /\ GetLastBlock(w) = GetLastBlock(v)
<1>1. CASE "entityCount" \in DOMAIN v.meta
    BY <1>1
<1>2. CASE "entityCount" \notin DOMAIN v.meta
    <2> DEFINE n == CountEntitiesByScan(v)
    <2>1. n \in Nat /\ n = Cardinality(DOMAIN v.cur)
        BY FS_CardinalityType DEF CountEntitiesByScan, StoredExact
    <2>2. w = PutMeta(v, "entityCount", n)
        BY <1>2 DEF SetEntityCount
    <2>3. IsView(v) /\ "entityCount" \in MetaName
        BY DEF StoredExact, MetaName
    <2> HIDE DEF n
    <2>4. /\ IsView(w)
          /\ w.cur = v.cur /\ w.pay = v.pay /\ w.bm = v.bm
          /\ DOMAIN w.meta = DOMAIN v.meta \cup {"entityCount"}
          /\ w.meta["entityCount"] = n
          /\ \A other, default : other # "entityCount" =>
                MetaOr(w, other, default) = MetaOr(v, other, default)
        BY <2>1, <2>2, <2>3, MetaFacts
    <2>5. CountExact(w)
        BY <2>1, <2>4 DEF CountExact
    <2>6. /\ PersistedNextID(w) = PersistedNextID(v)
          /\ GetLastBlock(w) = GetLastBlock(v)
        BY <2>4 DEF PersistedNextID, GetLastBlock
    <2> QED  BY <2>4, <2>5, <2>6, SameContents
<1> QED  BY <1>1, <1>2

(* A commit makes of the database what the batch shows: the bitmaps that   *)
(* were only in the cache, the counters and the last block included.       *)
LEMMA CommitFacts ==
    ASSUME NEW base, StoredExact(base), NEW v, IsView(v), NEW c, IsCache(c),
           NEW next, BatchExact(v, c, next), Extends(base, v), NEW n \in Nat,
           NEW w, w = Flush(UpsertLastBlock(v, n), c)
    PROVE  /\ StoredExact(w)
           /\ "entityCount" \in DOMAIN w.meta
           /\ w.pay = v.pay
           /\ Entities(w) = Entities(v)
           /\ PersistedNextID(w) = PersistedNextID(v)
           /\ GetLastBlock(w) = n
<1> DEFINE u == UpsertLastBlock(v, n)
<1>1. /\ IsView(u)
      /\ u.cur = v.cur /\ u.pay = v.pay /\ u.bm = v.bm
      /\ DOMAIN u.meta = DOMAIN v.meta \cup {"lastBlock"}
      /\ u.meta["lastBlock"] = n
      /\ \A other, default : other # "lastBlock" =>
            MetaOr(u, other, default) = MetaOr(v, other, default)
    <2>1. "lastBlock" \in MetaName  BY DEF MetaName
    <2> QED  BY <2>1, MetaFacts DEF UpsertLastBlock
<1> HIDE DEF u
<1>2. \A p \in DOMAIN u.bm : u.bm[p] # {}
    BY <1>1 DEF StoredExact, IndexExact, Extends
<1>3. /\ IsView(w)
      /\ w.cur = u.cur /\ w.pay = u.pay /\ w.meta = u.meta
      /\ \A p \in DOMAIN w.bm : w.bm[p] # {}
      /\ \A p : GetBitmap(w, p) = Cached(c, u, p)
    BY <1>1, <1>2, FlushFacts DEF u
<1>4. w.cur = v.cur /\ w.pay = v.pay
    BY <1>1, <1>3
<1>5. /\ IsFiniteSet(DOMAIN v.cur) /\ PointersMatchPayloads(v) /\ CacheExact(c, v)
      /\ CountExact(v) /\ "entityCount" \in DOMAIN v.meta
      /\ IdsBelow(v, PersistedNextID(v))
    BY DEF BatchExact, RecordsExact
<1>6. PointersMatchPayloads(w)
    BY <1>4, <1>5 DEF PointersMatchPayloads
<1>7. IndexExact(w)
    <2>1. Filed(c, v)  BY <1>5, FiledIsExact
    <2>2. ASSUME NEW p  PROVE Cached(EmptyMap, w, p) = Posting(w, p)
        <3>1. Cached(EmptyMap, w, p) = GetBitmap(w, p)
            BY DEF Cached, EmptyMap
        <3>2. Cached(c, u, p) = Cached(c, v, p)
            BY <1>1 DEF Cached, GetBitmap
        <3>3. Posting(w, p) = Posting(v, p)
            BY <1>4 DEF Posting
        <3> QED  BY <1>3, <2>1, <3>1, <3>2, <3>3 DEF Filed
    <2>3. CacheExact(EmptyMap, w)
        BY <2>2, FiledIsExact DEF Filed
    <2> QED  BY <1>3, <2>3 DEF IndexExact
<1>8. /\ "entityCount" \in DOMAIN w.meta
      /\ w.meta["entityCount"] = v.meta["entityCount"]
      /\ PersistedNextID(w) = PersistedNextID(v)
      /\ GetLastBlock(w) = n
    BY <1>1, <1>3, <1>5 DEF PersistedNextID, GetLastBlock, MetaOr
<1>9. CountExact(w)
    BY <1>4, <1>5, <1>8 DEF CountExact
<1>10. IdsBelow(w, PersistedNextID(w))
    BY <1>4, <1>5, <1>8 DEF IdsBelow
<1>11. Entities(w) = Entities(v)
    BY <1>4 DEF Entities, GetCurrentPayloadForEntityKey
<1> QED  BY <1>3, <1>4, <1>5, <1>6, <1>7, <1>8, <1>9, <1>10, <1>11 DEF StoredExact

(* A new database is consistent.                                           *)
LEMMA EmptyViewExact ==
    /\ StoredExact(EmptyView)
    /\ GetLastBlock(EmptyView) = 0
    /\ IsCache(EmptyMap)
<1> DEFINE v == EmptyView
<1>1. /\ v.cur = EmptyMap /\ v.pay = EmptyMap /\ v.bm = EmptyMap /\ v.meta = EmptyMap
      /\ v = [cur |-> v.cur, pay |-> v.pay, bm |-> v.bm, meta |-> v.meta]
    BY DEF EmptyView
<1>2. DOMAIN EmptyMap = {} /\ \A S : EmptyMap \in [{} -> S]
    BY DEF EmptyMap
<1> HIDE DEF v
<1>3. IsView(v)
    BY <1>1, <1>2 DEF IsView
<1>4. IsFiniteSet(DOMAIN v.cur)
    BY <1>1, <1>2, FS_EmptySet
<1>5. PointersMatchPayloads(v) /\ CountExact(v) /\ IdsBelow(v, PersistedNextID(v))
    BY <1>1, <1>2 DEF PointersMatchPayloads, CountExact, IdsBelow
<1>6. IndexExact(v)
    BY <1>1, <1>2 DEF IndexExact, CacheExact, CacheComplete
<1>7. GetLastBlock(v) = 0
    BY <1>1, <1>2 DEF GetLastBlock, MetaOr
<1>8. IsCache(EmptyMap)
    BY <1>2 DEF IsCache
<1> QED  BY <1>3, <1>4, <1>5, <1>6, <1>7, <1>8 DEF StoredExact, v

(* So is a database with one entity and no entity count.                   *)
LEMMA LegacyViewExact ==
    ASSUME NEW op \in CreateOp
    PROVE  StoredExact(LegacyView(op)) /\ GetLastBlock(LegacyView(op)) = 1
<1> DEFINE v == LegacyView(op)
           row == NewRow(op, 1)
<1>1. op \in Op /\ op.type = "create" /\ op.key \in Key
    BY DEF Op, CreateOp
<1>2. row \in Row /\ row.key = op.key
    BY NewRowType
<1>3. v = [cur |-> Put(EmptyMap, op.key, 1), pay |-> Put(EmptyMap, 1, row),
           bm |-> [p \in IndexKeys(row) |-> {1}],
           meta |-> Put(Put(EmptyMap, "lastBlock", 1), "idCounter", 2)]
    BY DEF LegacyView
<1> HIDE DEF v, row
<1>4. DOMAIN EmptyMap = {}
    BY DEF EmptyMap
<1>5. /\ v.cur = [k \in {op.key} |-> 1]
      /\ v.pay = [i \in {1} |-> row]
      /\ v.bm = [p \in IndexKeys(row) |-> {1}]
      /\ v.meta = [m \in {"lastBlock", "idCounter"} |-> IF m = "lastBlock" THEN 1 ELSE 2]
      /\ v = [cur |-> v.cur, pay |-> v.pay, bm |-> v.bm, meta |-> v.meta]
    BY <1>3, <1>4 DEF Put
<1>6. IsView(v)
    BY <1>1, <1>2, <1>5 DEF IsView, MetaName
<1>7. IsFiniteSet(DOMAIN v.cur)
    <2>1. DOMAIN v.cur = {op.key}  BY <1>5
    <2> QED  BY <2>1, FS_Singleton
<1>8. PointersMatchPayloads(v)
    BY <1>2, <1>5 DEF PointersMatchPayloads
<1>9. CountExact(v)
    BY <1>5 DEF CountExact
<1>10. PersistedNextID(v) = 2 /\ GetLastBlock(v) = 1
    BY <1>5 DEF PersistedNextID, GetLastBlock, MetaOr
<1>11. IdsBelow(v, PersistedNextID(v))
    BY <1>5, <1>10 DEF IdsBelow
<1>12. IndexExact(v)
    <2>1. \A p : Posting(v, p) = IF p \in IndexKeys(row) THEN {1} ELSE {}
        BY <1>5 DEF Posting
    <2>2. \A p : Cached(EmptyMap, v, p) = IF p \in IndexKeys(row) THEN {1} ELSE {}
        BY <1>4, <1>5 DEF Cached, GetBitmap
    <2>3. CacheExact(EmptyMap, v)
        BY <2>1, <2>2, FiledIsExact DEF Filed
    <2> QED  BY <1>5, <2>3 DEF IndexExact
<1> QED  BY <1>6, <1>7, <1>8, <1>9, <1>10, <1>11, <1>12 DEF StoredExact, v

-----------------------------------------------------------------------------
(* The invariant                                                           *)

(* The invariant holds when a store is created or found.                   *)
LEMMA InitConsistent == Init => Consistent
<1> SUFFICES ASSUME Init  PROVE Consistent
    OBVIOUS
<1>1. StoredExact(db) /\ GetLastBlock(db) \in Nat
    <2>1. CASE db = EmptyView
        BY <2>1, EmptyViewExact
    <2>2. ASSUME NEW content \in BlockContents, Len(content) = 1,
                 content[1].type = "create", db = LegacyView(content[1])
          PROVE  StoredExact(db) /\ GetLastBlock(db) \in Nat
        <3>1. content \in Seq(Op)  BY BlockContentsAssumption
        <3>2. content[1] \in Op  BY <2>2, <3>1
        <3>3. content[1] \in CreateOp  BY <2>2, <3>2, OpKinds
        <3> QED  BY <2>2, <3>3, LegacyViewExact
    <2> QED  BY <2>1, <2>2 DEF Init
<1>2. IsView(EmptyView) /\ IsCache(EmptyMap)
    BY EmptyViewExact DEF StoredExact
<1>3. IsEntityMap(Entities(db))
    BY <1>1, EntitiesFacts DEF StoredExact, IsEntityMap
<1>4. /\ nextIDVal = 1 /\ phase = "closed" /\ failures = 0
      /\ pBatch = EmptyView /\ cache = EmptyMap
      /\ lastBlockFromDB = 0 /\ blk = 0 /\ lastBlock = 0
      /\ ops = <<>> /\ pos = 1 /\ replayed = Entities(db)
      /\ peak = GetLastBlock(db)
    BY DEF Init, NoBatch
<1>5. TypeOK
    <2>1. ops \in Seq(Op) /\ pos \in 1 .. Len(ops) + 1  BY <1>4
    <2> QED  BY <1>1, <1>2, <1>3, <1>4, <2>1
             DEF TypeOK, StoredExact, IsCache, IsEntityMap, Phase
<1>6. ~InBatch
    BY <1>4 DEF InBatch
<1> QED  BY <1>1, <1>4, <1>5, <1>6
         DEF Consistent, StoredExact, PayloadsConsistent, SecondaryIndexExact,
             EntityCountExact, IdsNotReallocated, BatchConsistent, Between

(* The invariant in the form in which the steps use it.                    *)
LEMMA ConsistentFacts ==
    ASSUME Consistent
    PROVE  /\ StoredExact(db)
           /\ IsView(pBatch) /\ IsCache(cache) /\ IsEntityMap(replayed)
           /\ phase \in Phase /\ ops \in Seq(Op) /\ pos \in 1 .. Len(ops) + 1
           /\ nextIDVal \in Nat /\ lastBlockFromDB \in Nat /\ blk \in Nat
           /\ lastBlock \in Nat /\ peak \in Nat /\ failures \in Nat
           /\ peak = GetLastBlock(db)
           /\ phase # "closed" => /\ "entityCount" \in DOMAIN db.meta
                                  /\ PersistedNextID(db) <= nextIDVal
           /\ InBatch => /\ BatchExact(pBatch, cache, nextIDVal)
                         /\ Extends(db, pBatch)
                         /\ BatchFollowsReplay
                         /\ FreshCreates(ops, pos, DOMAIN pBatch.cur)
                         /\ BlocksInOrder
           /\ ~InBatch => replayed = Entities(db) /\ ops = <<>> /\ pos = 1
<1>1. /\ StoredExact(db)
      /\ peak = GetLastBlock(db)
      /\ phase # "closed" => /\ "entityCount" \in DOMAIN db.meta
                             /\ PersistedNextID(db) <= nextIDVal
    BY DEF Consistent, TypeOK, StoredExact, PayloadsConsistent,
           SecondaryIndexExact, EntityCountExact, IdsNotReallocated
<1>2. /\ IsView(pBatch) /\ IsCache(cache) /\ IsEntityMap(replayed)
      /\ phase \in Phase /\ ops \in Seq(Op) /\ pos \in 1 .. Len(ops) + 1
      /\ nextIDVal \in Nat /\ lastBlockFromDB \in Nat /\ blk \in Nat
      /\ lastBlock \in Nat /\ peak \in Nat /\ failures \in Nat
    BY DEF Consistent, TypeOK, IsCache, IsEntityMap
<1> QED  BY <1>1, <1>2 DEF Consistent, BatchConsistent, Between

(* And the form in which they establish it.                                *)
LEMMA ConsistentNext ==
    ASSUME StoredExact(db'), IsView(pBatch'), IsCache(cache'), IsEntityMap(replayed'),
           phase' \in Phase, ops' \in Seq(Op), pos' \in 1 .. Len(ops') + 1,
           nextIDVal' \in Nat, lastBlockFromDB' \in Nat, blk' \in Nat,
           lastBlock' \in Nat, peak' \in Nat, failures' \in Nat,
           peak' = GetLastBlock(db'),
           phase' # "closed" => /\ "entityCount" \in DOMAIN db'.meta
                                /\ PersistedNextID(db') <= nextIDVal',
           InBatch' => /\ BatchExact(pBatch', cache', nextIDVal')
                       /\ Extends(db', pBatch')
                       /\ BatchFollowsReplay'
                       /\ FreshCreates(ops', pos', DOMAIN pBatch'.cur)
                       /\ BlocksInOrder',
           ~InBatch' => replayed' = Entities(db') /\ ops' = <<>> /\ pos' = 1
    PROVE  Consistent'
<1>1. TypeOK'
    BY DEF TypeOK, StoredExact, IsCache, IsEntityMap
<1>2. BatchConsistent' /\ Between'
    BY DEF BatchConsistent, Between
<1> QED  BY <1>1, <1>2
         DEF Consistent, StoredExact, PayloadsConsistent, SecondaryIndexExact,
             EntityCountExact, IdsNotReallocated

-----------------------------------------------------------------------------
(* Opening, batches and blocks                                             *)

(* Opening a store keeps the invariant.                                    *)
LEMMA NewPebbleStoreStep == Consistent /\ NewPebbleStore => Consistent'
<1> SUFFICES ASSUME Consistent, NewPebbleStore  PROVE Consistent'
    OBVIOUS
<1>1. /\ StoredExact(db')
      /\ "entityCount" \in DOMAIN db'.meta
      /\ Entities(db') = Entities(db)
      /\ PersistedNextID(db') = PersistedNextID(db)
      /\ GetLastBlock(db') = GetLastBlock(db)
    BY ConsistentFacts, OpenFacts DEF NewPebbleStore
<1>2. nextIDVal' = PersistedNextID(db) /\ nextIDVal' \in Nat
    BY ConsistentFacts, MetaNat
       DEF NewPebbleStore, LoadNextID, PersistedNextID, StoredExact
<1>3. ~InBatch /\ ~InBatch' /\ phase' \in Phase
    BY DEF InBatch, NewPebbleStore, Phase
<1>4. PersistedNextID(db') <= nextIDVal'
    BY <1>1, <1>2
<1> QED  BY <1>1, <1>2, <1>3, <1>4, ConsistentFacts, ConsistentNext
         DEF NewPebbleStore, batchVars

(* No update is pending before the first or after the last operation.      *)
LEMMA NothingPending ==
    ASSUME NEW s \in Seq(Op), NEW i, i = 1 \/ i = Len(s) + 1
    PROVE  PendingUpdates(s, i) = {}
<1>1. CASE i = 1
    <2>1. 1 .. i - 1 = {}  BY <1>1
    <2> QED  BY <2>1 DEF PendingUpdates
<1>2. CASE i = Len(s) + 1
    <2>1. Len(s) \in Nat /\ i .. Len(s) = {}  BY <1>2
    <2> QED  BY <2>1 DEF PendingUpdates
<1> QED  BY <1>1, <1>2

(* Nor is one pending between blocks.                                      *)
LEMMA NothingPendingOutside == PendingUpdates(<<>>, 1) = {}
<1>1. 1 .. 1 - 1 = {}  OBVIOUS
<1> QED  BY <1>1 DEF PendingUpdates

(* Beginning a batch keeps the invariant: it shows the database.           *)
LEMMA NextBatchStep == Consistent /\ NextBatch => Consistent'
<1> SUFFICES ASSUME Consistent, NEW first \in 1 .. MaxBlock, NEW final \in 1 .. MaxBlock,
                    final >= GetLastBlock(db), TakeBatch(first, final)
             PROVE  Consistent'
    BY DEF NextBatch
<1>1. /\ phase = "idle" /\ phase' = "batch"
      /\ first <= final
      /\ pBatch' = db /\ cache' = EmptyMap
      /\ lastBlockFromDB' = GetLastBlock(db) /\ blk' = first /\ lastBlock' = final
      /\ UNCHANGED <<db, nextIDVal, ops, pos, replayed, peak, failures>>
    BY DEF TakeBatch
<1>2. /\ StoredExact(db) /\ PersistedNextID(db) <= nextIDVal
      /\ "entityCount" \in DOMAIN db.meta
      /\ replayed = Entities(db) /\ ops = <<>> /\ pos = 1
    BY <1>1, ConsistentFacts DEF InBatch
<1>3. BatchExact(pBatch', cache', nextIDVal')
    BY <1>1, <1>2 DEF BatchExact, RecordsExact, StoredExact, IndexExact
<1>4. Extends(db', pBatch')
    <2>1. PersistedNextID(db) \in Nat
        BY <1>2, MetaNat DEF PersistedNextID, StoredExact
    <2> QED  BY <1>1, <2>1 DEF Extends, SameCreation
<1>5. BatchFollowsReplay'
    <2>1. PendingUpdates(<<>>, 1) = {}  BY NothingPendingOutside
    <2> QED  BY <1>1, <1>2, <2>1 DEF BatchFollowsReplay, AgreeExcept
<1>6. FreshCreates(ops', pos', DOMAIN pBatch'.cur)
    BY <1>1, <1>2 DEF FreshCreates
<1>7. BlocksInOrder'
    <2>1. GetLastBlock(db) \in Nat  BY <1>2, MetaNat DEF GetLastBlock, StoredExact
    <2> QED  BY <1>1, <1>2, <2>1, BoundsAssumption DEF BlocksInOrder
<1>8. InBatch' /\ phase' \in Phase /\ blk' \in Nat /\ lastBlock' \in Nat
      /\ lastBlockFromDB' \in Nat
    BY <1>1, <1>2, MetaNat, BoundsAssumption
       DEF InBatch, Phase, GetLastBlock, StoredExact
<1>9. IsView(pBatch') /\ IsCache(cache')
    BY <1>1, <1>2, EmptyViewExact DEF StoredExact
<1> QED  BY <1>1, <1>2, <1>3, <1>4, <1>5, <1>6, <1>7, <1>8, <1>9,
            ConsistentFacts, ConsistentNext

(* Passing over a stored block keeps the invariant.                        *)
LEMMA SkipBlockStep == Consistent /\ SkipBlock => Consistent'
<1> SUFFICES ASSUME Consistent, SkipBlock  PROVE Consistent'
    OBVIOUS
<1>1. /\ phase = "batch" /\ blk <= lastBlock /\ blk' = blk + 1
      /\ UNCHANGED <<db, nextIDVal, phase, pBatch, cache, lastBlockFromDB,
                     lastBlock, ops, pos, replayed, peak, failures>>
    BY DEF SkipBlock
<1>2. InBatch /\ InBatch' /\ blk' \in Nat
    BY <1>1, ConsistentFacts DEF InBatch
<1>3. BatchFollowsReplay'
    BY <1>1, <1>2, ConsistentFacts DEF BatchFollowsReplay
<1>4. BlocksInOrder'
    BY <1>1, <1>2, ConsistentFacts DEF BlocksInOrder
<1> QED  BY <1>1, <1>2, <1>3, <1>4, ConsistentFacts, ConsistentNext

(* Entering a block keeps the invariant: nothing of it is done yet.        *)
LEMMA StartBlockStep == Consistent /\ StartBlock => Consistent'
<1> SUFFICES ASSUME Consistent, StartBlock  PROVE Consistent'
    OBVIOUS
<1>1. /\ phase = "batch" /\ blk <= lastBlock /\ ~(blk <= lastBlockFromDB)
      /\ ops' \in BlockContents /\ FreshCreates(ops', 1, DOMAIN replayed)
      /\ pos' = 1 /\ phase' = "block"
      /\ UNCHANGED <<db, nextIDVal, pBatch, cache, lastBlockFromDB, blk,
                     lastBlock, replayed, peak, failures>>
    BY DEF StartBlock, IsProcessed
<1>2. InBatch /\ InBatch' /\ phase' \in Phase
    BY <1>1 DEF InBatch, Phase
<1>3. ops' \in Seq(Op) /\ pos' \in 1 .. Len(ops') + 1
    <2>1. ops' \in Seq(Op)  BY <1>1, BlockContentsAssumption
    <2>2. Len(ops') \in Nat  BY <2>1
    <2> QED  BY <1>1, <2>1, <2>2
<1>4. ops = <<>> /\ pos = 1
    BY <1>1, <1>2, ConsistentFacts DEF BlocksInOrder
<1>5. AgreeExcept(Entities(pBatch), replayed, {})
    <2>1. PendingUpdates(<<>>, 1) = {}  BY NothingPendingOutside
    <2> QED  BY <1>2, <1>4, <2>1, ConsistentFacts DEF BatchFollowsReplay
<1>6. BatchFollowsReplay'
    <2>1. PendingUpdates(ops', pos') = {}  BY <1>1, <1>3, NothingPending
    <2> QED  BY <1>1, <1>5, <2>1 DEF BatchFollowsReplay
<1>7. FreshCreates(ops', pos', DOMAIN pBatch'.cur)
    <2>1. DOMAIN Entities(pBatch) = DOMAIN pBatch.cur  BY DEF Entities
    <2>2. DOMAIN replayed = DOMAIN pBatch.cur  BY <1>5, <2>1 DEF AgreeExcept
    <2> QED  BY <1>1, <2>2
<1>8. BlocksInOrder'
    BY <1>1, <1>2, ConsistentFacts DEF BlocksInOrder
<1> QED  BY <1>1, <1>2, <1>3, <1>6, <1>7, <1>8, ConsistentFacts, ConsistentNext

(* Leaving a block keeps the invariant: no update of it is pending.        *)
LEMMA FinishBlockStep == Consistent /\ FinishBlock => Consistent'
<1> SUFFICES ASSUME Consistent, FinishBlock  PROVE Consistent'
    OBVIOUS
<1>1. /\ phase = "block" /\ pos > Len(ops) /\ phase' = "batch"
      /\ blk' = blk + 1 /\ ops' = <<>> /\ pos' = 1
      /\ UNCHANGED <<db, nextIDVal, pBatch, cache, lastBlockFromDB, lastBlock,
                     replayed, peak, failures>>
    BY DEF FinishBlock
<1>2. InBatch /\ InBatch' /\ phase' \in Phase /\ blk' \in Nat
    BY <1>1, ConsistentFacts DEF InBatch, Phase
<1>3. ops' \in Seq(Op) /\ pos' \in 1 .. Len(ops') + 1
    BY <1>1
<1>4. BatchFollowsReplay'
    <2>1. pos = Len(ops) + 1
        <3>1. ops \in Seq(Op) /\ pos \in 1 .. Len(ops) + 1  BY ConsistentFacts
        <3>2. Len(ops) \in Nat  BY <3>1
        <3> QED  BY <1>1, <3>1, <3>2
    <2>2. PendingUpdates(ops, pos) = {}  BY <2>1, ConsistentFacts, NothingPending
    <2>3. PendingUpdates(<<>>, 1) = {}  BY NothingPendingOutside
    <2> QED  BY <1>1, <1>2, <2>2, <2>3, ConsistentFacts DEF BatchFollowsReplay
<1>5. FreshCreates(ops', pos', DOMAIN pBatch'.cur)
    BY <1>1 DEF FreshCreates
<1>6. BlocksInOrder'
    BY <1>1, <1>2, ConsistentFacts DEF BlocksInOrder
<1> QED  BY <1>1, <1>2, <1>3, <1>4, <1>5, <1>6, ConsistentFacts, ConsistentNext

(* What a commit makes of the database.                                    *)
LEMMA Committed ==
    ASSUME Consistent, CommitBatch
    PROVE  /\ StoredExact(db')
           /\ "entityCount" \in DOMAIN db'.meta
           /\ db'.pay = pBatch.pay
           /\ Entities(db') = Entities(pBatch)
           /\ PersistedNextID(db') = PersistedNextID(pBatch)
           /\ GetLastBlock(db') = lastBlock
<1>1. phase = "batch" /\ db' = Flush(UpsertLastBlock(pBatch, lastBlock), cache)
    BY DEF CommitBatch
<1>2. InBatch  BY <1>1 DEF InBatch
<1> QED  BY <1>1, <1>2, ConsistentFacts, CommitFacts

(* Committing keeps the invariant.                                         *)
LEMMA CommitBatchStep == Consistent /\ CommitBatch => Consistent'
<1> SUFFICES ASSUME Consistent, CommitBatch  PROVE Consistent'
    OBVIOUS
<1>1. /\ phase = "batch" /\ phase' = "idle"
      /\ peak' = IF lastBlock > peak THEN lastBlock ELSE peak
      /\ UNCHANGED <<nextIDVal, failures>>
      /\ pBatch' = EmptyView /\ cache' = EmptyMap
      /\ lastBlockFromDB' = 0 /\ blk' = 0 /\ lastBlock' = 0
      /\ ops' = <<>> /\ pos' = 1 /\ replayed' = Entities(db')
    BY DEF CommitBatch, DropBatch
<1>2. InBatch /\ ~InBatch' /\ phase' \in Phase
    BY <1>1 DEF InBatch, Phase
<1>3. /\ StoredExact(db') /\ "entityCount" \in DOMAIN db'.meta
      /\ PersistedNextID(db') = PersistedNextID(pBatch)
      /\ GetLastBlock(db') = lastBlock
    BY Committed
<1>4. PersistedNextID(db') <= nextIDVal'
    BY <1>1, <1>2, <1>3, ConsistentFacts DEF BatchExact, RecordsExact
<1>5. peak' = GetLastBlock(db') /\ peak' \in Nat
    <2>1. peak <= lastBlock /\ peak \in Nat /\ lastBlock \in Nat
        BY <1>2, ConsistentFacts DEF BlocksInOrder
    <2> QED  BY <1>1, <1>3, <2>1
<1>6. IsEntityMap(replayed')
    BY <1>1, <1>3, EntitiesFacts DEF StoredExact, IsEntityMap
<1>7. IsView(pBatch') /\ IsCache(cache')
    BY <1>1, EmptyViewExact DEF StoredExact
<1>8. ops' \in Seq(Op) /\ pos' \in 1 .. Len(ops') + 1
    BY <1>1
<1> QED  BY <1>1, <1>2, <1>3, <1>4, <1>5, <1>6, <1>7, <1>8,
            ConsistentFacts, ConsistentNext

(* Dropping the batch keeps the invariant, whatever was in it.             *)
LEMMA DropStep ==
    ASSUME Consistent, DropBatch(db), UNCHANGED <<db, peak>>,
           nextIDVal' \in Nat, failures' \in Nat,
           \/ phase' = "closed"
           \/ phase' = "idle" /\ phase # "closed" /\ nextIDVal <= nextIDVal'
    PROVE  Consistent'
<1>1. /\ pBatch' = EmptyView /\ cache' = EmptyMap
      /\ lastBlockFromDB' = 0 /\ blk' = 0 /\ lastBlock' = 0
      /\ ops' = <<>> /\ pos' = 1 /\ replayed' = Entities(db')
    BY DEF DropBatch
<1>2. ~InBatch' /\ phase' \in Phase
    BY DEF InBatch, Phase
<1>3. IsEntityMap(replayed')
    BY <1>1, ConsistentFacts, EntitiesFacts DEF StoredExact, IsEntityMap
<1>4. IsView(pBatch') /\ IsCache(cache')
    BY <1>1, EmptyViewExact DEF StoredExact
<1>5. ops' \in Seq(Op) /\ pos' \in 1 .. Len(ops') + 1
    BY <1>1
<1>6. phase' # "closed" => PersistedNextID(db') <= nextIDVal'
    <2>1. PersistedNextID(db) \in Nat
        BY ConsistentFacts, MetaNat DEF PersistedNextID, StoredExact
    <2> QED  BY <2>1, ConsistentFacts
<1> QED  BY <1>1, <1>2, <1>3, <1>4, <1>5, <1>6, ConsistentFacts, ConsistentNext

(* Errors, crashes and Close keep the invariant.                           *)
LEMMA FailureSteps ==
    Consistent /\ (OperationFails \/ StorageFails \/ Crash \/ Close) => Consistent'
<1> SUFFICES ASSUME Consistent, OperationFails \/ StorageFails \/ Crash \/ Close
             PROVE  Consistent'
    OBVIOUS
<1>0. nextIDVal \in Nat /\ failures \in Nat
    BY ConsistentFacts
<1>1. CASE OperationFails
    BY <1>0, <1>1, DropStep DEF OperationFails, ReturnError
<1>2. CASE StorageFails
    BY <1>0, <1>2, DropStep DEF StorageFails, ReturnError
<1>3. CASE Crash
    BY <1>0, <1>3, DropStep DEF Crash
<1>4. CASE Close
    <2>1. ~InBatch /\ ~InBatch' /\ phase' = "closed" /\ phase' \in Phase /\ nextIDVal' = 1
        BY <1>4 DEF Close, InBatch, Phase
    <2> QED  BY <1>4, <2>1, ConsistentFacts, ConsistentNext DEF Close, batchVars
<1> QED  BY <1>1, <1>2, <1>3, <1>4

-----------------------------------------------------------------------------
(* The operations of a block                                               *)

(* The state in which an operation is applied.                             *)
LEMMA AtOperationFacts ==
    ASSUME Consistent, NEW types, AtOperation(types)
    PROVE  /\ phase = "block" /\ InBatch
           /\ ops \in Seq(Op) /\ pos \in 1 .. Len(ops)
           /\ current \in Op /\ current.type \in types
           /\ blk \in Nat /\ nextIDVal \in Nat
           /\ StoredExact(db)
           /\ IsView(pBatch) /\ IsCache(cache)
           /\ BatchExact(pBatch, cache, nextIDVal)
           /\ PointersMatchPayloads(pBatch)
           /\ Extends(db, pBatch)
           /\ IsEntityMap(Entities(pBatch))
           /\ DOMAIN Entities(pBatch) = DOMAIN pBatch.cur
           /\ \A k \in DOMAIN Entities(pBatch) : Entities(pBatch)[k].key = k
           /\ \A k \in DOMAIN pBatch.cur :
                 /\ pBatch.cur[k] \in Nat
                 /\ HasCurrentPayload(pBatch, k)
                 /\ GetCurrentPayloadForEntityKey(pBatch, k) = pBatch.pay[pBatch.cur[k]]
                 /\ GetCurrentPayloadForEntityKey(pBatch, k) = Entities(pBatch)[k]
                 /\ GetCurrentPayloadForEntityKey(pBatch, k) \in Row
                 /\ GetCurrentPayloadForEntityKey(pBatch, k).key = k
<1>1. phase = "block" /\ InBatch /\ pos <= Len(ops) /\ current.type \in types
    BY DEF AtOperation, InBatch
<1>2. ops \in Seq(Op) /\ pos \in 1 .. Len(ops) /\ current \in Op
    <2>1. ops \in Seq(Op) /\ pos \in 1 .. Len(ops) + 1  BY ConsistentFacts
    <2>2. Len(ops) \in Nat  BY <2>1
    <2>3. pos \in 1 .. Len(ops)  BY <1>1, <2>1, <2>2
    <2> QED  BY <2>1, <2>3 DEF current
<1>3. /\ StoredExact(db) /\ IsView(pBatch) /\ IsCache(cache)
      /\ blk \in Nat /\ nextIDVal \in Nat
      /\ BatchExact(pBatch, cache, nextIDVal) /\ Extends(db, pBatch)
    BY <1>1, ConsistentFacts
<1>4. PointersMatchPayloads(pBatch)
    BY <1>3 DEF BatchExact, RecordsExact
<1>5. /\ Entities(pBatch) \in [DOMAIN pBatch.cur -> Row]
      /\ DOMAIN Entities(pBatch) = DOMAIN pBatch.cur
      /\ DOMAIN Entities(pBatch) \subseteq Key
      /\ \A k \in DOMAIN pBatch.cur : Entities(pBatch)[k] = pBatch.pay[pBatch.cur[k]]
      /\ \A k \in DOMAIN pBatch.cur : Entities(pBatch)[k].key = k
    BY <1>3, <1>4, EntitiesFacts
<1>6. IsEntityMap(Entities(pBatch))
    BY <1>5 DEF IsEntityMap
<1>7. ASSUME NEW k \in DOMAIN pBatch.cur
      PROVE  /\ pBatch.cur[k] \in Nat
             /\ HasCurrentPayload(pBatch, k)
             /\ GetCurrentPayloadForEntityKey(pBatch, k) = pBatch.pay[pBatch.cur[k]]
             /\ GetCurrentPayloadForEntityKey(pBatch, k) = Entities(pBatch)[k]
             /\ GetCurrentPayloadForEntityKey(pBatch, k) \in Row
             /\ GetCurrentPayloadForEntityKey(pBatch, k).key = k
    <2>1. pBatch.cur[k] \in Nat  BY <1>3 DEF IsView
    <2>2. HasCurrentPayload(pBatch, k)
        BY <1>4 DEF HasCurrentPayload, PointersMatchPayloads
    <2>3. GetCurrentPayloadForEntityKey(pBatch, k) = pBatch.pay[pBatch.cur[k]]
        BY DEF GetCurrentPayloadForEntityKey
    <2> QED  BY <1>5, <2>1, <2>2, <2>3
<1> QED  BY <1>1, <1>2, <1>3, <1>4, <1>5, <1>6, <1>7

(* An operation keeps the invariant if the batch stays consistent and its  *)
(* entities change as the operation says, or not at all if it is an update *)
(* that a later one replaces.                                              *)
LEMMA OperationStep ==
    ASSUME Consistent, NEW types, AtOperation(types), NextOperation,
           IsView(pBatch'), IsCache(cache'),
           nextIDVal' \in Nat, nextIDVal <= nextIDVal',
           BatchExact(pBatch', cache', nextIDVal'), Extends(db, pBatch'),
           NEW replaced \in BOOLEAN,
           replaced <=> (current.type = "update" /\ ~IsLastUpdate(pos)),
           Entities(pBatch') = IF replaced THEN Entities(pBatch)
                               ELSE Effect(Entities(pBatch), current, blk)
    PROVE  Consistent'
<1> DEFINE these == Entities(pBatch)
<1>1. /\ pos' = pos + 1 /\ replayed' = Effect(replayed, ops[pos], blk)
      /\ UNCHANGED <<db, phase, lastBlockFromDB, blk, lastBlock, ops, peak, failures>>
    BY DEF NextOperation, current
<1>2. /\ phase = "block" /\ InBatch /\ ops \in Seq(Op) /\ pos \in 1 .. Len(ops)
      /\ ops[pos] \in Op /\ blk \in Nat
      /\ IsEntityMap(these)
      /\ DOMAIN these = DOMAIN pBatch.cur
      /\ \A k \in DOMAIN these : these[k].key = k
    BY AtOperationFacts DEF current
<1>3. /\ IsEntityMap(replayed) /\ BatchFollowsReplay /\ BlocksInOrder
      /\ FreshCreates(ops, pos, DOMAIN these)
    BY <1>2, ConsistentFacts
<1>4. replaced <=> /\ ops[pos].type = "update"
                   /\ \E j \in pos + 1 .. Len(ops) : IsUpdate(ops[j], ops[pos].key)
    BY DEF IsLastUpdate, current
<1>5. DOMAIN Entities(pBatch') = DOMAIN pBatch'.cur
    BY DEF Entities
<1>6. IsEntityMap(replayed')
    BY <1>1, <1>2, <1>3, EffectType
<1>7. Entities(pBatch') = IF replaced THEN these ELSE Effect(these, ops[pos], blk)
    BY DEF current
<1> HIDE DEF these
<1>8. BatchFollowsReplay'
    <2>1. AgreeExcept(these, replayed, PendingUpdates(ops, pos))
        BY <1>3 DEF BatchFollowsReplay, these
    <2>2. AgreeExcept(IF replaced THEN these ELSE Effect(these, ops[pos], blk),
                      Effect(replayed, ops[pos], blk), PendingUpdates(ops, pos + 1))
        BY <1>2, <1>3, <1>4, <2>1, AgreeStep
    <2> QED  BY <1>1, <1>7, <2>2 DEF BatchFollowsReplay
<1>9. FreshCreates(ops', pos', DOMAIN pBatch'.cur)
    <2>1. FreshCreates(ops, pos + 1, DOMAIN Effect(these, ops[pos], blk))
        BY <1>2, <1>3, FreshCreatesStep
    <2>2. DOMAIN Entities(pBatch') = DOMAIN Effect(these, ops[pos], blk)
        <3>1. CASE replaced
            <4>1. DOMAIN Effect(these, ops[pos], blk) = DOMAIN these
                <5> DEFINE op == ops[pos]
                <5>1. op \in Op  BY <1>2
                <5>2. op.type = "update"  BY <1>4, <3>1
                <5> HIDE DEF op
                <5>3. DOMAIN Effect(these, op, blk) = DOMAIN these
                    BY <5>1, <5>2, EffectDomain
                <5> QED  BY <5>3 DEF op
            <4> QED  BY <1>7, <3>1, <4>1
        <3>2. CASE ~replaced  BY <1>7, <3>2
        <3> QED  BY <3>1, <3>2
    <2> QED  BY <1>1, <1>5, <2>1, <2>2
<1>10. BlocksInOrder'
    BY <1>1, <1>2, <1>3 DEF BlocksInOrder
<1>11. pos' \in 1 .. Len(ops') + 1 /\ ops' \in Seq(Op)
    BY <1>1, <1>2
<1>12. InBatch' /\ phase' = "block"
    BY <1>1, <1>2 DEF InBatch
<1>13. PersistedNextID(db') <= nextIDVal' /\ "entityCount" \in DOMAIN db'.meta
    <2>1. /\ PersistedNextID(db) <= nextIDVal /\ nextIDVal \in Nat
          /\ "entityCount" \in DOMAIN db.meta /\ StoredExact(db)
        BY <1>2, ConsistentFacts
    <2>2. PersistedNextID(db) \in Nat
        BY <2>1, MetaNat DEF PersistedNextID, StoredExact
    <2> QED  BY <1>1, <2>1, <2>2
<1> QED  BY <1>1, <1>6, <1>8, <1>9, <1>10, <1>11, <1>12, <1>13,
            ConsistentFacts, ConsistentNext

(* Storing a record and refiling its id keeps the batch consistent.        *)
LEMMA StoreStep ==
    ASSUME Consistent, NEW types, AtOperation(types), NextOperation,
           NEW row \in Row, StorePayload(row),
           row.key \in DOMAIN pBatch.cur =>
               SameCreation(row, GetCurrentPayloadForEntityKey(pBatch, row.key)),
           NEW Out, NEW In, KeysBecome(pBatch, row, Out, In),
           IsCache(cache'),
           Refiled(cache, pBatch, cache', pBatch', Out, In,
                   UpsertID(pBatch, row.key, nextIDVal)),
           ~(current.type = "update" /\ ~IsLastUpdate(pos)),
           Effect(Entities(pBatch), current, blk) = Put(Entities(pBatch), row.key, row)
    PROVE  Consistent'
<1>1. /\ nextIDVal \in Nat /\ StoredExact(db)
      /\ IsView(pBatch) /\ IsCache(cache)
      /\ BatchExact(pBatch, cache, nextIDVal) /\ Extends(db, pBatch)
    BY AtOperationFacts
<1>2. /\ pBatch' = UpsertPayload(pBatch, nextIDVal, row)
      /\ nextIDVal' = IF row.key \in DOMAIN pBatch.cur THEN nextIDVal ELSE nextIDVal + 1
    BY DEF StorePayload
<1>3. IsView(pBatch')
    <2>1. Upserted(pBatch, nextIDVal, row, UpsertPayload(pBatch, nextIDVal, row))
        BY <1>1, UpsertFacts
    <2> QED  BY <1>2, <2>1 DEF Upserted
<1>4. BatchExact(pBatch', cache', nextIDVal')
    <2> DEFINE id == UpsertID(pBatch, row.key, nextIDVal)
    <2>1. BatchExact(pBatch', cache', IF row.key \in DOMAIN pBatch.cur THEN nextIDVal
                                      ELSE nextIDVal + 1)
        BY <1>1, <1>2, UpsertKeepsExact
    <2> QED  BY <1>2, <2>1
<1>5. Extends(db, pBatch')
    <2>1. IsView(db) /\ IdsBelow(db, PersistedNextID(db))  BY <1>1 DEF StoredExact
    <2>2. row.key \in DOMAIN pBatch.cur =>
              SameCreation(row, pBatch.pay[pBatch.cur[row.key]])
        BY DEF GetCurrentPayloadForEntityKey
    <2> QED  BY <1>1, <1>2, <2>1, <2>2, UpsertKeepsExtends
<1>6. Entities(pBatch') = Effect(Entities(pBatch), current, blk)
    BY <1>1, <1>2, UpsertEntities DEF BatchExact
<1>7. nextIDVal' \in Nat /\ nextIDVal <= nextIDVal'
    BY <1>1, <1>2
<1> QED  BY <1>3, <1>4, <1>5, <1>6, <1>7, OperationStep

(* What removing an id under some index keys and then adding it under      *)
(* others shows, through a batch with the same stored bitmaps.             *)
LEMMA RefileFacts ==
    ASSUME NEW c, IsCache(c), NEW v, IsView(v), NEW out, NEW in, NEW id \in Nat,
           NEW w, w.bm = v.bm, NEW d,
           d = AddToBitmaps(RemoveFromBitmaps(c, v, out, id), v, in, id)
    PROVE  IsCache(d) /\ Refiled(c, v, d, w, out, in, id)
<1> DEFINE e == RemoveFromBitmaps(c, v, out, id)
<1>1. /\ IsCache(e)
      /\ \A p : Cached(e, v, p) = IF p \in out THEN Cached(c, v, p) \ {id}
                                    ELSE Cached(c, v, p)
    BY RemoveFacts
<1> HIDE DEF e
<1>2. /\ IsCache(d)
      /\ \A p : Cached(d, w, p) = IF p \in in THEN Cached(e, v, p) \cup {id}
                                    ELSE Cached(e, v, p)
    BY <1>1, AddFacts DEF e
<1>3. ASSUME NEW p  PROVE Cached(d, w, p) = IF p \in in THEN Cached(c, v, p) \cup {id}
                                             ELSE IF p \in out THEN Cached(c, v, p) \ {id}
                                             ELSE Cached(c, v, p)
    BY <1>1, <1>2
<1> QED  BY <1>2, <1>3 DEF Refiled

(* Create keeps the invariant: the key is fresh and so is the id.          *)
LEMMA CreateStep == Consistent /\ Create => Consistent'
<1> SUFFICES ASSUME Consistent, Create  PROVE Consistent'
    OBVIOUS
<1> DEFINE row == NewRow(current, blk)
           id == UpsertID(pBatch, current.key, nextIDVal)
<1>1. /\ AtOperation({"create"}) /\ NextOperation /\ StorePayload(row)
      /\ cache' = AddToBitmaps(cache, pBatch, IndexKeys(row), id)
    BY DEF Create
<1>2. /\ phase = "block" /\ InBatch /\ ops \in Seq(Op) /\ pos \in 1 .. Len(ops)
      /\ current \in Op /\ current.type = "create" /\ blk \in Nat /\ nextIDVal \in Nat
      /\ IsView(pBatch) /\ IsCache(cache)
    BY <1>1, AtOperationFacts
<1>3. row \in Row /\ row.key = current.key
    <2>1. current \in CreateOp  BY <1>2, OpKinds
    <2> QED  BY <1>2, <2>1, NewRowType
<1>4. current.key \notin DOMAIN pBatch.cur
    <2>1. FreshCreates(ops, pos, DOMAIN Entities(pBatch))
        BY <1>2, ConsistentFacts DEF Entities
    <2>2. ops[pos].type = "create" => ops[pos].key \notin DOMAIN Entities(pBatch)
        BY <1>2, <2>1, FreshCreatesStep
    <2> QED  BY <1>2, <2>2 DEF Entities, current
<1>5. Effect(Entities(pBatch), current, blk) = Put(Entities(pBatch), row.key, row)
    BY <1>2, <1>3, EffectCases
<1>6. id = nextIDVal  BY <1>4 DEF UpsertID
<1> HIDE DEF row, id
<1>7. pBatch'.bm = pBatch.bm
    <2>1. pBatch' = UpsertPayload(pBatch, nextIDVal, row)  BY <1>1 DEF StorePayload
    <2>2. Upserted(pBatch, nextIDVal, row, UpsertPayload(pBatch, nextIDVal, row))
        BY <1>2, <1>3, UpsertFacts
    <2> QED  BY <2>1, <2>2 DEF Upserted
<1>8. /\ IsCache(cache')
      /\ Refiled(cache, pBatch, cache', pBatch', {}, IndexKeys(row), id)
    BY <1>1, <1>2, <1>6, <1>7, AddFacts DEF Refiled
<1>9. KeysBecome(pBatch, row, {}, IndexKeys(row))
    BY <1>3, <1>4 DEF KeysBecome
<1>10. row.key \notin DOMAIN pBatch.cur  BY <1>3, <1>4
<1>11. id = UpsertID(pBatch, row.key, nextIDVal)  BY <1>3 DEF id
<1> QED  BY <1>1, <1>2, <1>3, <1>5, <1>8, <1>9, <1>10, <1>11, StoreStep

(* Passing over an update that a later one replaces keeps the invariant.   *)
LEMMA SkipUpdateStep == Consistent /\ SkipUpdate => Consistent'
<1> SUFFICES ASSUME Consistent, SkipUpdate  PROVE Consistent'
    OBVIOUS
<1>1. /\ AtOperation({"update"}) /\ ~IsLastUpdate(pos) /\ NextOperation
      /\ UNCHANGED <<nextIDVal, pBatch, cache>>
    BY DEF SkipUpdate
<1>2. /\ phase = "block" /\ current.type = "update"
      /\ IsView(pBatch) /\ IsCache(cache) /\ nextIDVal \in Nat
      /\ BatchExact(pBatch, cache, nextIDVal) /\ Extends(db, pBatch)
    BY <1>1, AtOperationFacts
<1>3. UNCHANGED db
    BY <1>1 DEF NextOperation
<1> DEFINE replaced == TRUE
<1>4. /\ replaced \in BOOLEAN
      /\ replaced <=> (current.type = "update" /\ ~IsLastUpdate(pos))
      /\ Entities(pBatch') = IF replaced THEN Entities(pBatch)
                             ELSE Effect(Entities(pBatch), current, blk)
    BY <1>1, <1>2
<1>5. nextIDVal <= nextIDVal'  BY <1>1, <1>2
<1> HIDE DEF replaced
<1> QED  BY <1>1, <1>2, <1>3, <1>4, <1>5, OperationStep

(* Storing a changed record of an existing entity, with its id refiled     *)
(* under the index keys that changed, keeps the invariant.                 *)
LEMMA ChangeStep ==
    ASSUME Consistent, NEW types, AtOperation(types), NextOperation,
           current.key \in DOMAIN pBatch.cur,
           NEW row \in Row, StorePayload(row), row.key = current.key,
           SameCreation(row, GetCurrentPayloadForEntityKey(pBatch, current.key)),
           NEW out, NEW in,
           IndexKeys(row) =
             (IndexKeys(GetCurrentPayloadForEntityKey(pBatch, current.key)) \ out) \cup in,
           cache' = AddToBitmaps(
                       RemoveFromBitmaps(cache, pBatch, out,
                                         UpsertID(pBatch, current.key, nextIDVal)),
                       pBatch, in, UpsertID(pBatch, current.key, nextIDVal)),
           ~(current.type = "update" /\ ~IsLastUpdate(pos)),
           Effect(Entities(pBatch), current, blk) = Put(Entities(pBatch), current.key, row)
    PROVE  Consistent'
<1> DEFINE id == UpsertID(pBatch, current.key, nextIDVal)
<1>1. /\ IsView(pBatch) /\ IsCache(cache) /\ nextIDVal \in Nat
      /\ pBatch.cur[current.key] \in Nat
    BY AtOperationFacts
<1>2. id \in Nat
    BY <1>1 DEF UpsertID
<1>3. pBatch'.bm = pBatch.bm
    <2>1. pBatch' = UpsertPayload(pBatch, nextIDVal, row)  BY DEF StorePayload
    <2>2. Upserted(pBatch, nextIDVal, row, UpsertPayload(pBatch, nextIDVal, row))
        BY <1>1, UpsertFacts
    <2> QED  BY <2>1, <2>2 DEF Upserted
<1>4. id = UpsertID(pBatch, row.key, nextIDVal)
    OBVIOUS
<1>5. cache' = AddToBitmaps(RemoveFromBitmaps(cache, pBatch, out, id), pBatch, in, id)
    OBVIOUS
<1> HIDE DEF id
<1>6. IsCache(cache') /\ Refiled(cache, pBatch, cache', pBatch', out, in, id)
    BY <1>1, <1>2, <1>3, <1>5, RefileFacts
<1>7. KeysBecome(pBatch, row, out, in)
    BY DEF KeysBecome, GetCurrentPayloadForEntityKey
<1> QED  BY <1>4, <1>6, <1>7, StoreStep

(* The last update of a key in a block keeps the invariant.                *)
LEMMA UpdateStep == Consistent /\ Update => Consistent'
<1> SUFFICES ASSUME Consistent, Update  PROVE Consistent'
    OBVIOUS
<1> DEFINE old == GetCurrentPayloadForEntityKey(pBatch, current.key)
           row == UpdatedRow(old, current, blk)
           id == UpsertID(pBatch, current.key, nextIDVal)
<1>1. /\ AtOperation({"update"}) /\ IsLastUpdate(pos) /\ NextOperation
      /\ current.key \in DOMAIN pBatch.cur
      /\ StorePayload(row)
      /\ cache' = AddToBitmaps(RemoveFromBitmaps(cache, pBatch, IndexKeys(old), id),
                               pBatch, IndexKeys(row), id)
    BY DEF Update, HasCurrentPayload, Refile
<1>2. /\ current \in Op /\ current.type = "update" /\ blk \in Nat
      /\ old \in Row /\ old.key = current.key
      /\ old = Entities(pBatch)[current.key]
      /\ DOMAIN Entities(pBatch) = DOMAIN pBatch.cur
    BY <1>1, AtOperationFacts
<1>3. row \in Row
    BY <1>2, RowTypes
<1>4. row.key = current.key
    BY DEF UpdatedRow
<1>5. SameCreation(row, old)
    <2>1. SameCreation(old, old)  BY DEF SameCreation
    <2> QED  BY <1>2, <2>1, CreationKept
<1>6. Effect(Entities(pBatch), current, blk) = Put(Entities(pBatch), current.key, row)
    BY <1>1, <1>2, EffectCases
<1>7. IndexKeys(row) = (IndexKeys(old) \ IndexKeys(old)) \cup IndexKeys(row)
    OBVIOUS
<1> DEFINE in == IndexKeys(row)
           out == IndexKeys(old)
<1>8. /\ in = (out \ out) \cup in
      /\ cache' = AddToBitmaps(RemoveFromBitmaps(cache, pBatch, out, id), pBatch, in, id)
      /\ IndexKeys(row) = (IndexKeys(old) \ out) \cup in
    BY <1>1
<1> HIDE DEF row, in, out
<1> QED  BY <1>1, <1>3, <1>4, <1>5, <1>6, <1>8, ChangeStep

(* Extending an entity's life keeps the invariant.                         *)
LEMMA ExtendBTLStep == Consistent /\ ExtendBTL => Consistent'
<1> SUFFICES ASSUME Consistent, ExtendBTL  PROVE Consistent'
    OBVIOUS
<1> DEFINE old == GetCurrentPayloadForEntityKey(pBatch, current.key)
           row == ExtendedRow(old, current)
           id == UpsertID(pBatch, current.key, nextIDVal)
           in == {ExpirationKey(row)}
           out == {ExpirationKey(old)}
<1>1. /\ AtOperation({"extendBTL"}) /\ NextOperation
      /\ current.key \in DOMAIN pBatch.cur
      /\ StorePayload(row)
      /\ cache' = AddToBitmaps(RemoveFromBitmaps(cache, pBatch, out, id), pBatch, in, id)
    BY DEF ExtendBTL, HasCurrentPayload, RefileOne
<1>2. /\ current \in Op /\ current.type = "extendBTL" /\ blk \in Nat
      /\ old \in Row /\ old.key = current.key
      /\ old = Entities(pBatch)[current.key]
      /\ DOMAIN Entities(pBatch) = DOMAIN pBatch.cur
    BY <1>1, AtOperationFacts
<1>3. row \in Row
    BY <1>2, RowTypes
<1>4. row.key = current.key
    <2>1. row.key = old.key  BY <1>2 DEF ExtendedRow, Row
    <2> QED  BY <1>2, <2>1
<1>5. SameCreation(row, old)
    <2>1. SameCreation(old, old)  BY DEF SameCreation
    <2> QED  BY <1>2, <2>1, CreationKept
<1>6. Effect(Entities(pBatch), current, blk) = Put(Entities(pBatch), current.key, row)
    BY <1>1, <1>2, EffectCases
<1>7. IndexKeys(row) = (IndexKeys(old) \ out) \cup in
    BY <1>2, OneKeyChanges
<1> HIDE DEF row, in, out
<1> QED  BY <1>1, <1>2, <1>3, <1>4, <1>5, <1>6, <1>7, ChangeStep

(* Changing an entity's owner keeps the invariant.                         *)
LEMMA ChangeOwnerStep == Consistent /\ ChangeOwner => Consistent'
<1> SUFFICES ASSUME Consistent, ChangeOwner  PROVE Consistent'
    OBVIOUS
<1> DEFINE old == GetCurrentPayloadForEntityKey(pBatch, current.key)
           row == ReownedRow(old, current)
           id == UpsertID(pBatch, current.key, nextIDVal)
           in == {OwnerKey(row)}
           out == {OwnerKey(old)}
<1>1. /\ AtOperation({"changeOwner"}) /\ NextOperation
      /\ current.key \in DOMAIN pBatch.cur
      /\ StorePayload(row)
      /\ cache' = AddToBitmaps(RemoveFromBitmaps(cache, pBatch, out, id), pBatch, in, id)
    BY DEF ChangeOwner, HasCurrentPayload, RefileOne
<1>2. /\ current \in Op /\ current.type = "changeOwner" /\ blk \in Nat
      /\ old \in Row /\ old.key = current.key
      /\ old = Entities(pBatch)[current.key]
      /\ DOMAIN Entities(pBatch) = DOMAIN pBatch.cur
    BY <1>1, AtOperationFacts
<1>3. row \in Row
    BY <1>2, RowTypes
<1>4. row.key = current.key
    <2>1. row.key = old.key  BY <1>2 DEF ReownedRow, Row
    <2> QED  BY <1>2, <2>1
<1>5. SameCreation(row, old)
    <2>1. SameCreation(old, old)  BY DEF SameCreation
    <2> QED  BY <1>2, <2>1, CreationKept
<1>6. Effect(Entities(pBatch), current, blk) = Put(Entities(pBatch), current.key, row)
    BY <1>1, <1>2, EffectCases
<1>7. IndexKeys(row) = (IndexKeys(old) \ out) \cup in
    BY <1>2, OneKeyChanges
<1> HIDE DEF row, in, out
<1> QED  BY <1>1, <1>2, <1>3, <1>4, <1>5, <1>6, <1>7, ChangeStep

(* Removing an entity keeps the invariant.                                 *)
LEMMA RemoveStep == Consistent /\ Remove => Consistent'
<1> SUFFICES ASSUME Consistent, Remove  PROVE Consistent'
    OBVIOUS
<1> DEFINE key == current.key
           out == IndexKeys(GetCurrentPayloadForEntityKey(pBatch, key))
           id == pBatch.cur[key]
<1>1. /\ AtOperation({"delete", "expire"}) /\ NextOperation
      /\ key \in DOMAIN pBatch.cur /\ ~EntityCountUnderflow(pBatch)
      /\ pBatch' = DeletePayloadForEntityKey(pBatch, key)
      /\ cache' = RemoveFromBitmaps(cache, pBatch, out, id)
      /\ UNCHANGED nextIDVal
    BY DEF Remove, HasCurrentPayload
<1>2. /\ current.type \in {"delete", "expire"} /\ nextIDVal \in Nat
      /\ IsView(pBatch) /\ IsCache(cache)
      /\ BatchExact(pBatch, cache, nextIDVal)
      /\ PointersMatchPayloads(pBatch) /\ Extends(db, pBatch)
      /\ DOMAIN Entities(pBatch) = DOMAIN pBatch.cur
      /\ id \in Nat
    BY <1>1, AtOperationFacts
<1>3. Effect(Entities(pBatch), current, blk) = Del(Entities(pBatch), key)
    BY <1>1, <1>2, EffectCases
<1>4. out = IndexKeys(pBatch.pay[id])
    BY DEF GetCurrentPayloadForEntityKey
<1> HIDE DEF key, out, id
<1>5. IsView(pBatch') /\ pBatch'.bm = pBatch.bm
    BY <1>1, <1>2, DeleteFacts
<1>6. IsCache(cache') /\ Refiled(cache, pBatch, cache', pBatch', out, {}, id)
    BY <1>1, <1>2, <1>5, RemoveFacts DEF Refiled
<1>7. BatchExact(pBatch', cache', nextIDVal')
    <2>1. BatchExact(pBatch', cache', nextIDVal)
        BY <1>1, <1>2, <1>4, <1>6, DeleteKeepsExact DEF id
    <2> QED  BY <1>1, <2>1
<1>8. Extends(db, pBatch')
    BY <1>1, <1>2, DeleteKeepsExtends
<1>9. Entities(pBatch') = Effect(Entities(pBatch), current, blk)
    BY <1>1, <1>2, <1>3, DeleteEntities
<1>10. nextIDVal' \in Nat /\ nextIDVal <= nextIDVal'
    BY <1>1, <1>2
<1>11. current.type # "update"
    BY <1>2
<1> QED  BY <1>1, <1>5, <1>6, <1>7, <1>8, <1>9, <1>10, <1>11, OperationStep

-----------------------------------------------------------------------------
(* The theorems                                                            *)

(* Every step keeps the invariant.                                         *)
LEMMA NextConsistent == Consistent /\ [Next]_vars => Consistent'
<1> SUFFICES ASSUME Consistent, [Next]_vars  PROVE Consistent'
    OBVIOUS
<1>1. CASE NewPebbleStore  BY <1>1, NewPebbleStoreStep
<1>2. CASE NextBatch       BY <1>2, NextBatchStep
<1>3. CASE SkipBlock       BY <1>3, SkipBlockStep
<1>4. CASE StartBlock      BY <1>4, StartBlockStep
<1>5. CASE Create          BY <1>5, CreateStep
<1>6. CASE SkipUpdate      BY <1>6, SkipUpdateStep
<1>7. CASE Update          BY <1>7, UpdateStep
<1>8. CASE Remove          BY <1>8, RemoveStep
<1>9. CASE ExtendBTL       BY <1>9, ExtendBTLStep
<1>10. CASE ChangeOwner    BY <1>10, ChangeOwnerStep
<1>11. CASE FinishBlock    BY <1>11, FinishBlockStep
<1>12. CASE CommitBatch    BY <1>12, CommitBatchStep
<1>13. CASE OperationFails \/ StorageFails \/ Crash \/ Close
    BY <1>13, FailureSteps
<1>14. CASE UNCHANGED vars
    BY <1>14, ConsistentFacts, ConsistentNext
       DEF vars, InBatch, BatchFollowsReplay, BlocksInOrder
<1> QED  BY <1>1, <1>2, <1>3, <1>4, <1>5, <1>6, <1>7, <1>8, <1>9, <1>10, <1>11,
            <1>12, <1>13, <1>14 DEF Next, Follow, Operation

(* The database is consistent between batches, and so is what the batch    *)
(* and the bitmap cache will make of it, before every operation and at     *)
(* every error and crash.                                                  *)
THEOREM ConsistentAlways == Spec => []Consistent
<1>1. Init => Consistent  BY InitConsistent
<1>2. Consistent /\ [Next]_vars => Consistent'  BY NextConsistent
<1> QED  BY <1>1, <1>2, PTL DEF Spec

(* Every variable has its type, in every key space of the database and of  *)
(* the batch.                                                              *)
THEOREM TypesAlways == Spec => []TypeOK
<1>1. Consistent => TypeOK  BY DEF Consistent
<1> QED  BY <1>1, ConsistentAlways, PTL

(* No pointer of the database dangles and no payload record is orphaned.   *)
THEOREM PayloadsAlwaysConsistent == Spec => []PayloadsConsistent
<1>1. Consistent => PayloadsConsistent  BY DEF Consistent
<1> QED  BY <1>1, ConsistentAlways, PTL

(* The committed bitmaps are exactly the postings of the payload records.  *)
THEOREM SecondaryIndexAlwaysExact == Spec => []SecondaryIndexExact
<1>1. Consistent => SecondaryIndexExact  BY DEF Consistent
<1> QED  BY <1>1, ConsistentAlways, PTL

(* GetNumberOfEntities of an open store is the number of entities.         *)
THEOREM EntityCountAlwaysExact == Spec => []EntityCountExact
<1>1. Consistent => EntityCountExact  BY DEF Consistent
<1> QED  BY <1>1, ConsistentAlways, PTL

(* No id of the database can be allocated again.                           *)
THEOREM IdsAreNotReallocated == Spec => []IdsNotReallocated
<1>1. Consistent => IdsNotReallocated  BY DEF Consistent
<1> QED  BY <1>1, ConsistentAlways, PTL

(* A block that a commit included is never applied again, as long as the   *)
(* source does not rewind.                                                 *)
THEOREM StoredBlocksAlwaysSkipped == Spec => []ProcessedBlocksSkipped
<1>1. ASSUME Consistent  PROVE ProcessedBlocksSkipped
    BY <1>1, ConsistentFacts DEF ProcessedBlocksSkipped, InBatch, BlocksInOrder
<1> QED  BY <1>1, ConsistentAlways, PTL

-----------------------------------------------------------------------------
(* Commits                                                                 *)

(* Only opening a store and committing a batch write to the database.      *)
LEMMA DatabaseWriters ==
    ASSUME [AnyNext]_vars, db' # db
    PROVE  NewPebbleStore \/ CommitBatch
<1>1. CASE NextBatch  BY <1>1 DEF NextBatch, TakeBatch
<1>2. CASE SkipBlock \/ StartBlock \/ StartAnyBlock \/ FinishBlock
    BY <1>2 DEF SkipBlock, StartBlock, StartAnyBlock, FinishBlock
<1>3. CASE Create \/ SkipUpdate \/ Update \/ Remove \/ ExtendBTL \/ ChangeOwner
    BY <1>3 DEF Create, SkipUpdate, Update, Remove, ExtendBTL, ChangeOwner, NextOperation
<1>4. CASE OperationFails \/ StorageFails \/ Crash \/ Close
    BY <1>4 DEF OperationFails, StorageFails, ReturnError, Crash, Close
<1>5. CASE UNCHANGED vars  BY <1>5 DEF vars
<1> QED  BY <1>1, <1>2, <1>3, <1>4, <1>5 DEF AnyNext, Next, Follow, Operation

(* What a write to the database does to ids and to what entities were      *)
(* created with.                                                           *)
LEMMA WriteFacts ==
    ASSUME Consistent, [Next]_vars, db' # db
    PROVE  NewIdsOnly /\ CreationKeptByCommit
<1>0. StoredExact(db) /\ PersistedNextID(db) \in Nat
    BY ConsistentFacts, MetaNat DEF PersistedNextID, StoredExact
<1>1. CASE NewPebbleStore
    <2>1. db'.pay = db.pay /\ PersistedNextID(db') = PersistedNextID(db)
        BY <1>0, <1>1, OpenFacts DEF NewPebbleStore
    <2> QED  BY <1>0, <2>1 DEF NewIdsOnly, CreationKeptByCommit, SameCreation
<1>2. CASE CommitBatch
    <2>1. Extends(db, pBatch)
        BY <1>2, ConsistentFacts DEF CommitBatch, InBatch
    <2>2. db'.pay = pBatch.pay /\ PersistedNextID(db') = PersistedNextID(pBatch)
        BY <1>2, Committed
    <2>3. /\ PersistedNextID(db) <= PersistedNextID(db')
          /\ \A id \in DOMAIN db'.pay :
                IF id \in DOMAIN db.pay THEN SameCreation(db'.pay[id], db.pay[id])
                ELSE id >= PersistedNextID(db)
        BY <2>1, <2>2 DEF Extends
    <2>4. PersistedNextID(db') \in Nat
        BY <1>2, Committed, MetaNat DEF PersistedNextID, StoredExact
    <2> QED  BY <1>0, <2>3, <2>4 DEF NewIdsOnly, CreationKeptByCommit
<1> QED  BY <1>1, <1>2, DatabaseWriters DEF AnyNext

(* No id is ever given to a second entity, across removals, errors,        *)
(* crashes and restarts.                                                   *)
THEOREM IdsAreNeverReused == Spec => IdsNeverReused
<1>1. Consistent /\ [Next]_vars => [NewIdsOnly]_db
    BY WriteFacts
<1> QED  BY <1>1, ConsistentAlways, PTL DEF Spec, IdsNeverReused

(* No commit changes what an entity was created with.                      *)
THEOREM CreationAttributesStayFixed == Spec => CreationAttributesFixed
<1>1. Consistent /\ [Next]_vars => [CreationKeptByCommit]_db
    BY WriteFacts
<1> QED  BY <1>1, ConsistentAlways, PTL DEF Spec, CreationAttributesFixed

-----------------------------------------------------------------------------
(* Positions and the order of ids                                          *)

(* Multiplication by a natural number is monotone.                         *)
LEMMA ProductGrows ==
    ASSUME NEW a \in Nat, NEW b \in Nat, NEW c \in Nat, a <= b
    PROVE  a * c <= b * c /\ a * c \in Nat
<1>1. (b - a) * c \in Nat
    <2>1. b - a \in Nat  OBVIOUS
    <2> QED  BY <2>1
<1>2. b * c = a * c + (b - a) * c
    OBVIOUS
<1>3. a * c \in Nat /\ b * c \in Nat
    OBVIOUS
<1> QED  BY <1>1, <1>2, <1>3

(* A digit below the base keeps a number below the next multiple.          *)
LEMMA DigitFits ==
    ASSUME NEW a \in Nat, NEW b \in Nat, NEW d \in Index, a < b
    PROVE  a * IndexBase + d < b * IndexBase /\ a * IndexBase + d \in Nat
<1>1. IndexBase \in Nat /\ d \in Nat /\ d < IndexBase
    BY NumbersAssumption DEF Index
<1>2. (a + 1) * IndexBase <= b * IndexBase
    BY <1>1, ProductGrows
<1>3. (a + 1) * IndexBase = a * IndexBase + IndexBase
    BY <1>1
<1>4. a * IndexBase \in Nat /\ b * IndexBase \in Nat
    BY <1>1
<1> QED  BY <1>1, <1>2, <1>3, <1>4

(* A block number that fits leaves the sequence its position, and that     *)
(* lies between the first of its block and the first of the next.          *)
LEMMA SequenceInBlock ==
    ASSUME SequencesFit, NEW n \in Nat, n <= MaxBlock,
           NEW tx \in Index, NEW idx \in Index
    PROVE  /\ Sequence(n, tx, idx) = (n * IndexBase + tx) * IndexBase + idx
           /\ BlockStart(n) <= Sequence(n, tx, idx)
           /\ Sequence(n, tx, idx) < BlockStart(n + 1)
           /\ Sequence(n, tx, idx) \in Nat
<1> DEFINE x == n * IndexBase + tx
           y == x * IndexBase + idx
<1>1. IndexBase \in Nat /\ Wrap \in Nat \ {0} /\ MaxBlock \in Nat /\ tx \in Nat /\ idx \in Nat
    BY NumbersAssumption, BoundsAssumption DEF Index
<1>2. x \in Nat /\ x < (n + 1) * IndexBase /\ n * IndexBase <= x
    <2>1. n * IndexBase \in Nat  BY <1>1
    <2>2. x < (n + 1) * IndexBase /\ x \in Nat  BY DigitFits
    <2> QED  BY <1>1, <2>1, <2>2
<1>3. (n + 1) * IndexBase \in Nat /\ n * IndexBase \in Nat
    BY <1>1
<1> HIDE DEF x
<1>4. y \in Nat /\ y < ((n + 1) * IndexBase) * IndexBase
    BY <1>2, <1>3, DigitFits
<1>5. (n * IndexBase) * IndexBase <= y
    <2>1. (n * IndexBase) * IndexBase <= x * IndexBase /\ x * IndexBase \in Nat
        BY <1>1, <1>2, <1>3, ProductGrows
    <2>2. (n * IndexBase) * IndexBase \in Nat  BY <1>1, <1>3
    <2> QED  BY <1>1, <2>1, <2>2
<1>6. ((n + 1) * IndexBase) * IndexBase <= Wrap
    <2>1. (n + 1) * IndexBase <= (MaxBlock + 1) * IndexBase
        BY <1>1, ProductGrows
    <2>2. (MaxBlock + 1) * IndexBase \in Nat  BY <1>1
    <2>3. ((n + 1) * IndexBase) * IndexBase <= ((MaxBlock + 1) * IndexBase) * IndexBase
        BY <1>1, <1>3, <2>1, <2>2, ProductGrows
    <2>4. ((n + 1) * IndexBase) * IndexBase \in Nat
          /\ ((MaxBlock + 1) * IndexBase) * IndexBase \in Nat
        BY <1>1, <1>3, <2>2
    <2> QED  BY <1>1, <2>3, <2>4 DEF SequencesFit
<1>7. y % Wrap = y
    <2>1. y < Wrap
        <3>1. ((n + 1) * IndexBase) * IndexBase \in Nat  BY <1>1, <1>3
        <3> QED  BY <1>1, <1>4, <1>6, <3>1
    <2> HIDE DEF y
    <2> QED  BY <1>1, <1>4, <2>1
<1>8. Sequence(n, tx, idx) = y
    BY <1>7 DEF Sequence, x
<1> QED  BY <1>4, <1>5, <1>8 DEF BlockStart, x

(* In one block a later position is a greater sequence.                    *)
LEMMA SequenceFollowsPosition ==
    ASSUME SequencesFit, NEW n \in Nat, n <= MaxBlock,
           NEW tx \in Index, NEW idx \in Index, NEW tx2 \in Index, NEW idx2 \in Index,
           tx < tx2 \/ (tx = tx2 /\ idx < idx2)
    PROVE  Sequence(n, tx, idx) < Sequence(n, tx2, idx2)
<1> DEFINE x == n * IndexBase + tx
           x2 == n * IndexBase + tx2
<1>1. IndexBase \in Nat /\ tx \in Nat /\ tx2 \in Nat /\ idx \in Nat /\ idx2 \in Nat
      /\ n * IndexBase \in Nat
    BY NumbersAssumption DEF Index
<1>2. /\ Sequence(n, tx, idx) = x * IndexBase + idx
      /\ Sequence(n, tx2, idx2) = x2 * IndexBase + idx2
    BY SequenceInBlock
<1>3. x \in Nat /\ x2 \in Nat /\ (x < x2 \/ (x = x2 /\ idx < idx2))
    BY <1>1
<1> HIDE DEF x, x2
<1>4. x2 * IndexBase \in Nat /\ x * IndexBase \in Nat
    BY <1>1, <1>3
<1>5. CASE x < x2
    <2>1. x * IndexBase + idx < x2 * IndexBase /\ x * IndexBase + idx \in Nat
        BY <1>3, <1>5, DigitFits
    <2> QED  BY <1>1, <1>2, <1>4, <2>1
<1>6. CASE x = x2 /\ idx < idx2
    <2>1. x * IndexBase = x2 * IndexBase  BY <1>6
    <2> DEFINE z == x * IndexBase
    <2>2. /\ Sequence(n, tx, idx) = z + idx /\ Sequence(n, tx2, idx2) = z + idx2
          /\ z \in Nat
        BY <1>2, <1>4, <2>1
    <2> HIDE DEF z
    <2> QED  BY <1>1, <1>6, <2>2
<1> QED  BY <1>3, <1>5, <1>6

(* The first positions of blocks are natural numbers and grow.             *)
LEMMA BlockStartGrows ==
    ASSUME NEW m \in Nat, NEW n \in Nat, m <= n
    PROVE  BlockStart(m) \in Nat /\ BlockStart(n) \in Nat /\ BlockStart(m) <= BlockStart(n)
<1>1. IndexBase \in Nat /\ m * IndexBase \in Nat /\ n * IndexBase \in Nat
    BY NumbersAssumption
<1>2. m * IndexBase <= n * IndexBase
    BY <1>1, ProductGrows
<1>3. (m * IndexBase) * IndexBase <= (n * IndexBase) * IndexBase
    BY <1>1, <1>2, ProductGrows
<1>4. (m * IndexBase) * IndexBase \in Nat /\ (n * IndexBase) * IndexBase \in Nat
    BY <1>1
<1> QED  BY <1>3, <1>4 DEF BlockStart

(* Ids and sequences of a view are numbers.                                *)
LEMMA SequenceTypes ==
    ASSUME NEW v, IsView(v)
    PROVE  \A id \in DOMAIN v.pay : id \in Nat /\ v.pay[id].sequence \in Nat
<1>1. \A id \in DOMAIN v.pay : id \in Nat /\ v.pay[id] \in Row
    BY DEF IsView
<1> QED  BY <1>1 DEF Row

(* Raising a bound on the sequences.                                       *)
LEMMA SequencesBelowMore ==
    ASSUME NEW v, IsView(v), NEW m \in Nat, NEW n \in Nat, m <= n, SequencesBelow(v, m)
    PROVE  SequencesBelow(v, n)
<1>1. \A id \in DOMAIN v.pay : v.pay[id].sequence \in Nat  BY SequenceTypes
<1> QED  BY <1>1 DEF SequencesBelow

(* View w has no ids that v has not, with the sequences they have in v.    *)
KeepsSequences(v, w) ==
    \A id \in DOMAIN w.pay : id \in DOMAIN v.pay /\ w.pay[id].sequence = v.pay[id].sequence

(* Then what holds of the sequences of v holds of those of w.              *)
LEMMA KeptSequences ==
    ASSUME NEW v, NEW w, KeepsSequences(v, w)
    PROVE  /\ AscendingSequences(v) => AscendingSequences(w)
           /\ \A n : SequencesBelow(v, n) => SequencesBelow(w, n)
    BY DEF KeepsSequences, AscendingSequences, SequencesBelow

(* A record stored for an entity that exists keeps its sequence.           *)
LEMMA ChangedKeepsSequences ==
    ASSUME NEW v, IsView(v), PointersMatchPayloads(v), NEW next \in Nat, NEW row \in Row,
           row.key \in DOMAIN v.cur,
           SameCreation(row, GetCurrentPayloadForEntityKey(v, row.key))
    PROVE  KeepsSequences(v, UpsertPayload(v, next, row))
<1> DEFINE w == UpsertPayload(v, next, row)
           id == v.cur[row.key]
<1>1. Upserted(v, next, row, w)
    BY UpsertFacts
<1>2. UpsertID(v, row.key, next) = id /\ id \in DOMAIN v.pay
    BY DEF UpsertID, PointersMatchPayloads
<1>3. row.sequence = v.pay[id].sequence
    BY DEF SameCreation, GetCurrentPayloadForEntityKey
<1> HIDE DEF w, id
<1>4. w.pay = Put(v.pay, id, row)
    BY <1>1, <1>2 DEF Upserted
<1> QED  BY <1>2, <1>3, <1>4 DEF KeepsSequences, Put, w

(* A record stored for a new entity above all sequences so far.            *)
LEMMA NewestKeepsAscending ==
    ASSUME NEW v, IsView(v), NEW c, NEW next \in Nat, BatchExact(v, c, next),
           NEW row \in Row, row.key \notin DOMAIN v.cur,
           AscendingSequences(v), SequencesBelow(v, row.sequence)
    PROVE  /\ AscendingSequences(UpsertPayload(v, next, row))
           /\ \A n \in Nat : row.sequence < n =>
                 SequencesBelow(UpsertPayload(v, next, row), n)
<1> DEFINE w == UpsertPayload(v, next, row)
<1>1. Upserted(v, next, row, w) /\ UpsertID(v, row.key, next) = next
    BY UpsertFacts DEF UpsertID
<1>2. /\ \A id \in DOMAIN v.pay : id \in Nat /\ v.pay[id].sequence \in Nat
      /\ row.sequence \in Nat
    BY SequenceTypes DEF Row
<1>3. \A id \in DOMAIN v.pay : id < next
    <2>1. PersistedNextID(v) \in Nat  BY MetaNat DEF PersistedNextID
    <2> QED  BY <1>2, <2>1 DEF BatchExact, RecordsExact, IdsBelow
<1> HIDE DEF w
<1>4. w.pay = Put(v.pay, next, row)
    BY <1>1 DEF Upserted
<1>5. /\ DOMAIN w.pay = DOMAIN v.pay \cup {next}
      /\ w.pay[next] = row
      /\ \A id \in DOMAIN v.pay : w.pay[id] = v.pay[id]
    BY <1>2, <1>3, <1>4 DEF Put
<1>6. \A id \in DOMAIN v.pay : v.pay[id].sequence < row.sequence
    BY DEF SequencesBelow
<1>7. AscendingSequences(w)
    <2> SUFFICES ASSUME NEW i \in DOMAIN w.pay, NEW j \in DOMAIN w.pay, i < j
                 PROVE  w.pay[i].sequence < w.pay[j].sequence
        BY DEF AscendingSequences
    <2>1. i # next
        BY <1>2, <1>3, <1>5
    <2>2. CASE j = next  BY <1>5, <1>6, <2>1, <2>2
    <2>3. CASE j # next  BY <1>5, <2>1, <2>3 DEF AscendingSequences
    <2> QED  BY <2>2, <2>3
<1>8. ASSUME NEW n \in Nat, row.sequence < n  PROVE SequencesBelow(w, n)
    <2>1. \A id \in DOMAIN v.pay : v.pay[id].sequence < n  BY <1>2, <1>6, <1>8
    <2> QED  BY <1>5, <1>8, <2>1 DEF SequencesBelow
<1> QED  BY <1>7, <1>8 DEF w

(* The invariant in the form in which the steps establish it.              *)
LEMMA AscendNext ==
    ASSUME AscendingSequences(db'), GetLastBlock(db') <= MaxBlock,
           SequencesBelow(db', BlockStart(GetLastBlock(db') + 1)),
           InBatch' => lastBlock' <= MaxBlock /\ AscendingSequences(pBatch'),
           phase' = "batch" => SequencesBelow(pBatch', BlockStart(BlockAt')),
           phase' = "block" =>
             /\ CreatesAscend(ops', pos')
             /\ SequencesBelow(pBatch', BlockStart(blk' + 1))
             /\ \A c \in pos' .. Len(ops') : ops'[c].type = "create" =>
                   SequencesBelow(pBatch', Sequence(blk', ops'[c].tx, ops'[c].idx))
    PROVE  SequencesAscend'
    BY DEF SequencesAscend

(* It holds of a new store and of one that is found.                       *)
LEMMA InitAscend == SequencesFit /\ Init => SequencesAscend
<1> SUFFICES ASSUME SequencesFit, Init  PROVE SequencesAscend
    OBVIOUS
<1>1. ~InBatch /\ phase = "closed"
    BY DEF Init, InBatch
<1>2. MaxBlock \in Nat \ {0}
    BY BoundsAssumption
<1>3. CASE db = EmptyView
    <2>1. DOMAIN db.pay = {}
        BY <1>3 DEF EmptyView, EmptyMap
    <2>2. GetLastBlock(db) = 0
        BY <1>3, EmptyViewExact
    <2> QED  BY <1>1, <1>2, <2>1, <2>2
             DEF SequencesAscend, AscendingSequences, SequencesBelow
<1>4. ASSUME NEW content \in BlockContents, Len(content) = 1,
             content[1].type = "create", db = LegacyView(content[1])
      PROVE  SequencesAscend
    <2> DEFINE op == content[1]
               row == NewRow(op, 1)
    <2>1. op \in CreateOp
        <3>1. content \in Seq(Op)  BY BlockContentsAssumption
        <3>2. content[1] \in Op  BY <1>4, <3>1
        <3> QED  BY <1>4, <3>2, OpKinds
    <2>2. row.sequence = Sequence(1, op.tx, op.idx) /\ op.tx \in Index /\ op.idx \in Index
        BY <2>1 DEF NewRow, CreateOp
    <2>3. db.pay = Put(EmptyMap, 1, row)
        BY <1>4 DEF LegacyView
    <2>4. GetLastBlock(db) = 1
        BY <1>4, <2>1, LegacyViewExact
    <2>5. row.sequence < BlockStart(1 + 1)
        BY <1>2, <2>2, SequenceInBlock
    <2> HIDE DEF row
    <2>6. DOMAIN db.pay = {1} /\ db.pay[1] = row
        BY <2>3 DEF Put, EmptyMap
    <2>7. AscendingSequences(db)
        BY <2>6 DEF AscendingSequences
    <2>8. SequencesBelow(db, BlockStart(GetLastBlock(db) + 1))
        BY <2>4, <2>5, <2>6 DEF SequencesBelow
    <2> QED  BY <1>1, <1>2, <2>4, <2>7, <2>8 DEF SequencesAscend
<1> QED  BY <1>3, <1>4 DEF Init

(* The state in which an operation is applied, as far as sequences go.     *)
LEMMA AtOperationAscends ==
    ASSUME Consistent, SequencesAscend, NEW types, AtOperation(types)
    PROVE  /\ AscendingSequences(pBatch)
           /\ blk <= MaxBlock
           /\ CreatesAscend(ops, pos)
           /\ SequencesBelow(pBatch, BlockStart(blk + 1))
           /\ \A c \in pos .. Len(ops) : ops[c].type = "create" =>
                 SequencesBelow(pBatch, Sequence(blk, ops[c].tx, ops[c].idx))
<1>1. phase = "block" /\ InBatch /\ blk \in Nat
    BY AtOperationFacts
<1>2. BlocksInOrder /\ lastBlock \in Nat
    BY <1>1, ConsistentFacts
<1>3. lastBlock <= MaxBlock /\ MaxBlock \in Nat
    BY <1>1, BoundsAssumption DEF SequencesAscend
<1>4. blk <= MaxBlock
    BY <1>1, <1>2, <1>3 DEF BlocksInOrder
<1> QED  BY <1>1, <1>4 DEF SequencesAscend

(* An operation keeps the sequences ascending if it only keeps or removes  *)
(* them.                                                                   *)
LEMMA KeepingStep ==
    ASSUME Consistent, SequencesAscend, NEW types, AtOperation(types), NextOperation,
           KeepsSequences(pBatch, pBatch')
    PROVE  SequencesAscend'
<1>1. /\ phase = "block" /\ phase' = "block" /\ InBatch /\ InBatch'
      /\ pos \in 1 .. Len(ops) /\ ops \in Seq(Op)
      /\ pos' = pos + 1
      /\ UNCHANGED <<db, blk, lastBlock, ops>>
    BY AtOperationFacts DEF NextOperation, InBatch
<1>2. pos' .. Len(ops) \subseteq pos .. Len(ops)
    <2>1. Len(ops) \in Nat  BY <1>1
    <2> QED  BY <1>1, <2>1
<1>3. /\ AscendingSequences(pBatch')
      /\ SequencesBelow(pBatch', BlockStart(blk + 1))
      /\ \A c \in pos' .. Len(ops) : ops[c].type = "create" =>
             SequencesBelow(pBatch', Sequence(blk, ops[c].tx, ops[c].idx))
    BY <1>2, AtOperationAscends, KeptSequences
<1>4. CreatesAscend(ops, pos')
    BY <1>2, AtOperationAscends DEF CreatesAscend
<1> QED  BY <1>1, <1>3, <1>4, AscendNext DEF SequencesAscend

(* Create adds the newest.                                                 *)
LEMMA CreateAscends ==
    ASSUME SequencesFit, Consistent, SequencesAscend, Create
    PROVE  SequencesAscend'
<1> DEFINE row == NewRow(current, blk)
<1>1. AtOperation({"create"}) /\ NextOperation /\ StorePayload(row)
    BY DEF Create
<1>2. /\ phase = "block" /\ phase' = "block" /\ InBatch /\ InBatch'
      /\ ops \in Seq(Op) /\ pos \in 1 .. Len(ops) /\ pos' = pos + 1
      /\ current \in Op /\ current.type = "create" /\ blk \in Nat /\ nextIDVal \in Nat
      /\ IsView(pBatch) /\ BatchExact(pBatch, cache, nextIDVal)
      /\ UNCHANGED <<db, blk, lastBlock, ops>>
    BY <1>1, AtOperationFacts DEF NextOperation, InBatch
<1>3. /\ AscendingSequences(pBatch) /\ blk <= MaxBlock
      /\ CreatesAscend(ops, pos)
      /\ SequencesBelow(pBatch, BlockStart(blk + 1))
      /\ \A c \in pos .. Len(ops) : ops[c].type = "create" =>
            SequencesBelow(pBatch, Sequence(blk, ops[c].tx, ops[c].idx))
    BY <1>1, AtOperationAscends
<1>4. current \in CreateOp
    BY <1>2, OpKinds
<1>5. /\ row \in Row /\ row.key = current.key
      /\ row.sequence = Sequence(blk, current.tx, current.idx)
      /\ current.tx \in Index /\ current.idx \in Index
    BY <1>2, <1>4, NewRowType DEF NewRow, CreateOp
<1>6. row.key \notin DOMAIN pBatch.cur
    <2>1. FreshCreates(ops, pos, DOMAIN Entities(pBatch))
        BY <1>2, ConsistentFacts DEF Entities
    <2>2. ops[pos].type = "create" => ops[pos].key \notin DOMAIN Entities(pBatch)
        BY <1>2, <2>1, FreshCreatesStep
    <2> QED  BY <1>2, <1>5, <2>2 DEF Entities, current
<1> HIDE DEF row
<1>7. Len(ops) \in Nat
    BY <1>2
<1>8. SequencesBelow(pBatch, row.sequence)
    <2>1. pos \in pos .. Len(ops)  BY <1>2, <1>7
    <2> QED  BY <1>2, <1>3, <1>5, <2>1 DEF current
<1>9. pBatch' = UpsertPayload(pBatch, nextIDVal, row)
    BY <1>1 DEF StorePayload
<1>10. /\ AscendingSequences(pBatch')
       /\ \A n \in Nat : row.sequence < n => SequencesBelow(pBatch', n)
    BY <1>2, <1>3, <1>5, <1>6, <1>8, <1>9, NewestKeepsAscending
<1>11. SequencesBelow(pBatch', BlockStart(blk + 1))
    <2>1. row.sequence < BlockStart(blk + 1)
        BY <1>2, <1>3, <1>5, SequenceInBlock
    <2>2. BlockStart(blk + 1) \in Nat
        <3>1. blk + 1 \in Nat  BY <1>2
        <3> QED  BY <3>1, BlockStartGrows
    <2> QED  BY <1>10, <2>1, <2>2
<1>12. ASSUME NEW c \in pos + 1 .. Len(ops), ops[c].type = "create"
       PROVE  SequencesBelow(pBatch', Sequence(blk, ops[c].tx, ops[c].idx))
    <2>1. /\ pos \in pos .. Len(ops) /\ c \in pos .. Len(ops) /\ pos < c
          /\ c \in 1 .. Len(ops)
        BY <1>2, <1>7
    <2>2. \/ current.tx < ops[c].tx
          \/ current.tx = ops[c].tx /\ current.idx < ops[c].idx
        BY <1>2, <1>3, <1>12, <2>1 DEF CreatesAscend, current
    <2>3. ops[c].tx \in Index /\ ops[c].idx \in Index
        <3>1. ops[c] \in Op  BY <1>2, <2>1
        <3>2. ops[c] \in CreateOp  BY <1>12, <3>1, OpKinds
        <3> QED  BY <3>2 DEF CreateOp
    <2>4. row.sequence < Sequence(blk, ops[c].tx, ops[c].idx)
        BY <1>2, <1>3, <1>5, <2>2, <2>3, SequenceFollowsPosition
    <2>5. Sequence(blk, ops[c].tx, ops[c].idx) \in Nat
        BY <1>2, <2>3, SequenceNat
    <2> QED  BY <1>10, <2>4, <2>5
<1>13. CreatesAscend(ops, pos + 1)
    <2>1. pos + 1 .. Len(ops) \subseteq pos .. Len(ops)  BY <1>2, <1>7
    <2> QED  BY <1>3, <2>1 DEF CreatesAscend
<1> QED  BY <1>2, <1>10, <1>11, <1>12, <1>13, AscendNext DEF SequencesAscend

(* The operations other than Create, of which none changes a sequence.     *)
LEMMA OtherOperationsAscend ==
    ASSUME Consistent, SequencesAscend,
           SkipUpdate \/ Update \/ Remove \/ ExtendBTL \/ ChangeOwner
    PROVE  SequencesAscend'
<1>0. ASSUME NEW types, AtOperation(types), NextOperation, NEW row \in Row,
             current.key \in DOMAIN pBatch.cur, row.key = current.key,
             SameCreation(row, GetCurrentPayloadForEntityKey(pBatch, current.key)),
             StorePayload(row)
      PROVE  SequencesAscend'
    <2>1. /\ IsView(pBatch) /\ PointersMatchPayloads(pBatch) /\ nextIDVal \in Nat
          /\ pBatch' = UpsertPayload(pBatch, nextIDVal, row)
        BY <1>0, AtOperationFacts DEF StorePayload
    <2>2. KeepsSequences(pBatch, pBatch')
        BY <1>0, <2>1, ChangedKeepsSequences
    <2> QED  BY <1>0, <2>2, KeepingStep
<1>1. CASE SkipUpdate
    <2>1. KeepsSequences(pBatch, pBatch')
        BY <1>1 DEF SkipUpdate, KeepsSequences
    <2> QED  BY <1>1, <2>1, KeepingStep DEF SkipUpdate
<1> DEFINE old == GetCurrentPayloadForEntityKey(pBatch, current.key)
<1>2. ASSUME NEW types, AtOperation(types), HasCurrentPayload(pBatch, current.key)
      PROVE  /\ current \in Op /\ current.type \in types /\ blk \in Nat
             /\ current.key \in DOMAIN pBatch.cur
             /\ old \in Row /\ old.key = current.key
             /\ SameCreation(old, old)
    BY <1>2, AtOperationFacts DEF HasCurrentPayload, SameCreation
<1>3. CASE Update
    <2> DEFINE row == UpdatedRow(old, current, blk)
    <2>1. /\ AtOperation({"update"}) /\ NextOperation /\ StorePayload(row)
          /\ HasCurrentPayload(pBatch, current.key)
        BY <1>3 DEF Update
    <2>2. row \in Row /\ row.key = current.key /\ SameCreation(row, old)
        BY <1>2, <2>1, RowTypes, CreationKept DEF UpdatedRow
    <2> HIDE DEF row
    <2> QED  BY <1>0, <1>2, <2>1, <2>2
<1>4. CASE Remove
    <2>1. /\ AtOperation({"delete", "expire"}) /\ NextOperation
          /\ HasCurrentPayload(pBatch, current.key) /\ ~EntityCountUnderflow(pBatch)
          /\ pBatch' = DeletePayloadForEntityKey(pBatch, current.key)
        BY <1>4 DEF Remove
    <2>2. IsView(pBatch) /\ current.key \in DOMAIN pBatch.cur
        BY <2>1, AtOperationFacts DEF HasCurrentPayload
    <2>3. pBatch'.pay = Del(pBatch.pay, pBatch.cur[current.key])
        BY <2>1, <2>2, DeleteFacts
    <2>4. KeepsSequences(pBatch, pBatch')
        BY <2>3 DEF KeepsSequences, Del
    <2> QED  BY <2>1, <2>4, KeepingStep
<1>5. CASE ExtendBTL
    <2> DEFINE row == ExtendedRow(old, current)
    <2>1. /\ AtOperation({"extendBTL"}) /\ NextOperation /\ StorePayload(row)
          /\ HasCurrentPayload(pBatch, current.key)
        BY <1>5 DEF ExtendBTL
    <2>2. row \in Row /\ row.key = current.key /\ SameCreation(row, old)
        BY <1>2, <2>1, RowTypes, CreationKept DEF SameCreation
    <2> HIDE DEF row
    <2> QED  BY <1>0, <1>2, <2>1, <2>2
<1>6. CASE ChangeOwner
    <2> DEFINE row == ReownedRow(old, current)
    <2>1. /\ AtOperation({"changeOwner"}) /\ NextOperation /\ StorePayload(row)
          /\ HasCurrentPayload(pBatch, current.key)
        BY <1>6 DEF ChangeOwner
    <2>2. row \in Row /\ row.key = current.key /\ SameCreation(row, old)
        BY <1>2, <2>1, RowTypes, CreationKept DEF SameCreation
    <2> HIDE DEF row
    <2> QED  BY <1>0, <1>2, <2>1, <2>2
<1> QED  BY <1>1, <1>3, <1>4, <1>5, <1>6

(* Beginning a batch and passing over stored blocks: the block to be       *)
(* applied next is the one after the last stored.                          *)
LEMMA BatchAscends ==
    ASSUME Consistent, SequencesAscend, NextBatch \/ SkipBlock
    PROVE  SequencesAscend'
<1>0. /\ StoredExact(db) /\ GetLastBlock(db) \in Nat /\ blk \in Nat
      /\ lastBlockFromDB \in Nat
    BY ConsistentFacts, MetaNat DEF GetLastBlock, StoredExact
<1>1. ASSUME NEW first \in 1 .. MaxBlock, NEW final \in 1 .. MaxBlock,
             TakeBatch(first, final)
      PROVE  SequencesAscend'
    <2>1. /\ phase' = "batch" /\ first <= GetLastBlock(db) + 1
          /\ pBatch' = db /\ lastBlock' = final
          /\ lastBlockFromDB' = GetLastBlock(db) /\ blk' = first
          /\ UNCHANGED db
        BY <1>1 DEF TakeBatch
    <2>2. first \in Nat /\ final <= MaxBlock  BY BoundsAssumption
    <2>3. BlockAt' = GetLastBlock(db) + 1
        BY <1>0, <2>1, <2>2 DEF BlockAt
    <2> QED  BY <2>1, <2>2, <2>3, AscendNext DEF SequencesAscend
<1>2. CASE SkipBlock
    <2>1. /\ phase = "batch" /\ blk <= lastBlockFromDB /\ blk' = blk + 1
          /\ UNCHANGED <<db, phase, pBatch, lastBlockFromDB, lastBlock>>
        BY <1>2 DEF SkipBlock, IsProcessed
    <2>2. InBatch /\ InBatch' /\ lastBlockFromDB = GetLastBlock(db)
        <3>1. InBatch /\ InBatch'  BY <2>1 DEF InBatch
        <3> QED  BY <3>1, ConsistentFacts DEF BlocksInOrder
    <2>3. BlockAt = GetLastBlock(db) + 1 /\ BlockAt' = GetLastBlock(db) + 1
        BY <1>0, <2>1, <2>2 DEF BlockAt
    <2> QED  BY <2>1, <2>2, <2>3, AscendNext DEF SequencesAscend
<1> QED  BY <1>1, <1>2 DEF NextBatch

(* Entering and leaving a block: everything stored so far lies below the   *)
(* positions of the block that is entered.                                 *)
LEMMA BlockAscends ==
    ASSUME PositionsAscend, SequencesFit, Consistent, SequencesAscend,
           StartBlock \/ FinishBlock
    PROVE  SequencesAscend'
<1>0. /\ blk \in Nat /\ lastBlock \in Nat /\ lastBlockFromDB \in Nat
      /\ IsView(pBatch) /\ InBatch /\ InBatch' /\ BlocksInOrder
    <2>1. InBatch /\ InBatch'  BY DEF StartBlock, FinishBlock, InBatch
    <2> QED  BY <2>1, ConsistentFacts
<1>1. lastBlock <= MaxBlock /\ AscendingSequences(pBatch)
    BY <1>0 DEF SequencesAscend
<1>2. CASE StartBlock
    <2>1. /\ phase = "batch" /\ phase' = "block" /\ blk <= lastBlock
          /\ blk > lastBlockFromDB /\ pos' = 1 /\ ops' \in BlockContents
          /\ UNCHANGED <<db, pBatch, blk, lastBlock>>
        BY <1>0, <1>2 DEF StartBlock, IsProcessed
    <2>2. BlockAt = blk
        BY <2>1 DEF BlockAt
    <2>3. SequencesBelow(pBatch, BlockStart(blk))
        BY <2>1, <2>2 DEF SequencesAscend
    <2>4. CreatesAscend(ops', pos') /\ ops' \in Seq(Op)
        BY <2>1, BlockContentsAssumption DEF PositionsAscend
    <2>5. blk <= MaxBlock
        BY <1>0, <1>1, <2>1, BoundsAssumption
    <2>6. SequencesBelow(pBatch, BlockStart(blk + 1))
        <3>1. /\ BlockStart(blk) \in Nat /\ BlockStart(blk + 1) \in Nat
              /\ BlockStart(blk) <= BlockStart(blk + 1)
            BY <1>0, BlockStartGrows
        <3> QED  BY <1>0, <2>3, <3>1, SequencesBelowMore
    <2>7. ASSUME NEW c \in 1 .. Len(ops'), ops'[c].type = "create"
          PROVE  SequencesBelow(pBatch, Sequence(blk, ops'[c].tx, ops'[c].idx))
        <3> DEFINE op == ops'[c]
        <3>1. op \in CreateOp
            <4>1. op \in Op  BY <2>4
            <4> QED  BY <2>7, <4>1, OpKinds
        <3>2. op.tx \in Index /\ op.idx \in Index
            BY <3>1 DEF CreateOp
        <3> HIDE DEF op
        <3>3. /\ BlockStart(blk) <= Sequence(blk, op.tx, op.idx)
              /\ Sequence(blk, op.tx, op.idx) \in Nat
            BY <1>0, <2>5, <3>2, SequenceInBlock
        <3>4. BlockStart(blk) \in Nat
            BY <1>0, BlockStartGrows
        <3>5. SequencesBelow(pBatch, Sequence(blk, op.tx, op.idx))
            BY <1>0, <2>3, <3>3, <3>4, SequencesBelowMore
        <3> QED  BY <3>5 DEF op
    <2> QED  BY <1>1, <2>1, <2>4, <2>6, <2>7, AscendNext DEF SequencesAscend
<1>3. CASE FinishBlock
    <2>1. /\ phase = "block" /\ phase' = "batch" /\ blk' = blk + 1
          /\ UNCHANGED <<db, pBatch, lastBlock, lastBlockFromDB>>
        BY <1>3 DEF FinishBlock
    <2>2. lastBlockFromDB < blk
        BY <1>0, <2>1 DEF BlocksInOrder
    <2>3. BlockAt' = blk + 1
        BY <1>0, <2>1, <2>2 DEF BlockAt
    <2> QED  BY <1>1, <2>1, <2>3, AscendNext DEF SequencesAscend
<1> QED  BY <1>2, <1>3

(* Every step keeps the invariant.                                         *)
LEMMA NextAscend ==
    ASSUME PositionsAscend, SequencesFit, Consistent, SequencesAscend, [Next]_vars
    PROVE  SequencesAscend'
<1>1. ASSUME db'.pay = db.pay, GetLastBlock(db') = GetLastBlock(db), ~InBatch'
      PROVE  SequencesAscend'
    <2>1. AscendingSequences(db') /\ SequencesBelow(db', BlockStart(GetLastBlock(db') + 1))
        BY <1>1 DEF SequencesAscend, AscendingSequences, SequencesBelow
    <2> QED  BY <1>1, <2>1, AscendNext DEF SequencesAscend, InBatch
<1>2. CASE NewPebbleStore
    <2>1. db'.pay = db.pay /\ GetLastBlock(db') = GetLastBlock(db)
        BY <1>2, ConsistentFacts, OpenFacts DEF NewPebbleStore
    <2> QED  BY <1>1, <1>2, <2>1 DEF NewPebbleStore, InBatch
<1>3. CASE NextBatch \/ SkipBlock  BY <1>3, BatchAscends
<1>4. CASE StartBlock \/ FinishBlock  BY <1>4, BlockAscends
<1>5. CASE Create  BY <1>5, CreateAscends
<1>6. CASE SkipUpdate \/ Update \/ Remove \/ ExtendBTL \/ ChangeOwner
    BY <1>6, OtherOperationsAscend
<1>7. CASE CommitBatch
    <2>1. phase = "batch" /\ phase' = "idle" /\ blk > lastBlock
        BY <1>7 DEF CommitBatch
    <2>2. InBatch /\ ~InBatch'
        BY <2>1 DEF InBatch
    <2>3. BlocksInOrder /\ blk \in Nat /\ lastBlock \in Nat /\ lastBlockFromDB \in Nat
        BY <2>2, ConsistentFacts
    <2>4. BlockAt = lastBlock + 1
        BY <2>1, <2>3 DEF BlockAt, BlocksInOrder
    <2>5. db'.pay = pBatch.pay /\ GetLastBlock(db') = lastBlock
        BY <1>7, Committed
    <2>6. AscendingSequences(db') /\ SequencesBelow(db', BlockStart(GetLastBlock(db') + 1))
        BY <2>1, <2>2, <2>4, <2>5 DEF SequencesAscend, AscendingSequences, SequencesBelow
    <2>7. GetLastBlock(db') <= MaxBlock
        BY <2>2, <2>5 DEF SequencesAscend
    <2> QED  BY <2>1, <2>2, <2>6, <2>7, AscendNext
<1>8. CASE OperationFails \/ StorageFails \/ Crash \/ Close
    <2>1. UNCHANGED db /\ phase' \in {"idle", "closed"}
        BY <1>8 DEF OperationFails, StorageFails, ReturnError, Crash, Close
    <2> QED  BY <1>1, <2>1 DEF InBatch
<1>9. CASE UNCHANGED vars
    BY <1>9, AscendNext DEF vars, SequencesAscend, InBatch, BlockAt
<1> QED  BY <1>2, <1>3, <1>4, <1>5, <1>6, <1>7, <1>8, <1>9 DEF Next, Follow, Operation

(* Where the chain's creates come in the order of their positions and      *)
(* sequences do not wrap, the order of ids is the order of sequences, in   *)
(* the database and in every batch.                                        *)
THEOREM SequencesAlwaysAscend ==
    PositionsAscend /\ SequencesFit => (Spec => []SequencesAscend)
<1> SUFFICES ASSUME PositionsAscend, SequencesFit  PROVE Spec => []SequencesAscend
    OBVIOUS
<1>1. Init => SequencesAscend  BY InitAscend
<1>2. Consistent /\ SequencesAscend /\ [Next]_vars => SequencesAscend'
    BY NextAscend
<1> QED  BY <1>1, <1>2, ConsistentAlways, PTL DEF Spec

(* Pages are sorted by id, newest first: that is newest first by $sequence.*)
THEOREM IdOrderIsAlwaysSequenceOrder ==
    PositionsAscend /\ SequencesFit => (Spec => []IdOrderIsSequenceOrder)
<1>1. SequencesAscend => IdOrderIsSequenceOrder
    BY DEF SequencesAscend, IdOrderIsSequenceOrder
<1> QED  BY <1>1, SequencesAlwaysAscend, PTL

-----------------------------------------------------------------------------
(* The follower when blocks may create entities that exist: the records    *)
(* stay consistent and the index complete.                                 *)

(* What holds of the database between commits.                             *)
StoredComplete(v) ==
    /\ IsView(v)
    /\ IsFiniteSet(DOMAIN v.cur)
    /\ PointersMatchPayloads(v)
    /\ CacheComplete(EmptyMap, v)
    /\ \A p \in DOMAIN v.bm : v.bm[p] # {}
    /\ CountExact(v)
    /\ IdsBelow(v, PersistedNextID(v))

(* A database with an exact index has a complete one.                      *)
LEMMA ExactIsComplete ==
    ASSUME NEW v, StoredExact(v)
    PROVE  StoredComplete(v)
    BY DEF StoredExact, StoredComplete, IndexExact, CacheExact

(* A view with the same entities and bitmaps is as consistent.             *)
LEMMA SameCompleteContents ==
    ASSUME NEW v, StoredComplete(v), NEW w, IsView(w),
           w.cur = v.cur, w.pay = v.pay, w.bm = v.bm,
           PersistedNextID(w) = PersistedNextID(v), CountExact(w)
    PROVE  StoredComplete(w)
<1>1. IsFiniteSet(DOMAIN w.cur) /\ PointersMatchPayloads(w)
    BY DEF StoredComplete, PointersMatchPayloads
<1>2. CacheComplete(EmptyMap, w)
    BY DEF StoredComplete, CacheComplete, Cached, GetBitmap
<1>3. IdsBelow(w, PersistedNextID(w))
    BY DEF StoredComplete, IdsBelow
<1> QED  BY <1>1, <1>2, <1>3 DEF StoredComplete

(* Opening a store keeps the records and the index of the database.        *)
LEMMA OpenKeepsComplete ==
    ASSUME NEW v, StoredComplete(v), NEW w,
           w = IF "entityCount" \in DOMAIN v.meta THEN v
               ELSE SetEntityCount(v, CountEntitiesByScan(v))
    PROVE  /\ StoredComplete(w)
           /\ "entityCount" \in DOMAIN w.meta
           /\ w.pay = v.pay
           /\ Entities(w) = Entities(v)
           /\ PersistedNextID(w) = PersistedNextID(v)
           /\ GetLastBlock(w) = GetLastBlock(v)
<1>1. CASE "entityCount" \in DOMAIN v.meta
    BY <1>1
<1>2. CASE "entityCount" \notin DOMAIN v.meta
    <2> DEFINE n == CountEntitiesByScan(v)
    <2>1. n \in Nat /\ n = Cardinality(DOMAIN v.cur)
        BY FS_CardinalityType DEF CountEntitiesByScan, StoredComplete
    <2>2. w = PutMeta(v, "entityCount", n)
        BY <1>2 DEF SetEntityCount
    <2>3. IsView(v) /\ "entityCount" \in MetaName
        BY DEF StoredComplete, MetaName
    <2> HIDE DEF n
    <2>4. /\ IsView(w)
          /\ w.cur = v.cur /\ w.pay = v.pay /\ w.bm = v.bm
          /\ DOMAIN w.meta = DOMAIN v.meta \cup {"entityCount"}
          /\ w.meta["entityCount"] = n
          /\ \A other, default : other # "entityCount" =>
                MetaOr(w, other, default) = MetaOr(v, other, default)
        BY <2>1, <2>2, <2>3, MetaFacts
    <2>5. CountExact(w)
        BY <2>1, <2>4 DEF CountExact
    <2>6. /\ PersistedNextID(w) = PersistedNextID(v)
          /\ GetLastBlock(w) = GetLastBlock(v)
        BY <2>4 DEF PersistedNextID, GetLastBlock
    <2>7. Entities(w) = Entities(v)
        BY <2>4 DEF Entities, GetCurrentPayloadForEntityKey
    <2> QED  BY <2>4, <2>5, <2>6, <2>7, SameCompleteContents
<1> QED  BY <1>1, <1>2

(* A commit stores the records of the batch and what its cache shows.      *)
LEMMA CommitKeepsComplete ==
    ASSUME NEW v, IsView(v), NEW c, IsCache(c), NEW next, NEW n \in Nat,
           RecordsExact(v, next), CacheComplete(c, v), \A p \in DOMAIN v.bm : v.bm[p] # {},
           NEW w, w = Flush(UpsertLastBlock(v, n), c)
    PROVE  /\ StoredComplete(w)
           /\ "entityCount" \in DOMAIN w.meta
           /\ w.pay = v.pay
           /\ Entities(w) = Entities(v)
           /\ PersistedNextID(w) = PersistedNextID(v)
           /\ GetLastBlock(w) = n
<1> DEFINE u == UpsertLastBlock(v, n)
<1>1. /\ IsView(u)
      /\ u.cur = v.cur /\ u.pay = v.pay /\ u.bm = v.bm
      /\ DOMAIN u.meta = DOMAIN v.meta \cup {"lastBlock"}
      /\ u.meta["lastBlock"] = n
      /\ \A other, default : other # "lastBlock" =>
            MetaOr(u, other, default) = MetaOr(v, other, default)
    <2>1. "lastBlock" \in MetaName  BY DEF MetaName
    <2> QED  BY <2>1, MetaFacts DEF UpsertLastBlock
<1> HIDE DEF u
<1>2. /\ IsView(w)
      /\ w.cur = u.cur /\ w.pay = u.pay /\ w.meta = u.meta
      /\ \A p \in DOMAIN w.bm : w.bm[p] # {}
      /\ \A p : GetBitmap(w, p) = Cached(c, u, p)
    BY <1>1, FlushFacts DEF u
<1>3. /\ IsFiniteSet(DOMAIN v.cur) /\ PointersMatchPayloads(v)
      /\ CountExact(v) /\ "entityCount" \in DOMAIN v.meta
      /\ IdsBelow(v, PersistedNextID(v))
    BY DEF RecordsExact
<1>4. PointersMatchPayloads(w)
    BY <1>1, <1>2, <1>3 DEF PointersMatchPayloads
<1>5. CacheComplete(EmptyMap, w)
    <2>1. \A p : Cached(EmptyMap, w, p) = Cached(c, v, p)
        BY <1>1, <1>2 DEF Cached, GetBitmap, EmptyMap
    <2> QED  BY <1>1, <1>2, <2>1 DEF CacheComplete
<1>6. /\ "entityCount" \in DOMAIN w.meta
      /\ w.meta["entityCount"] = v.meta["entityCount"]
      /\ PersistedNextID(w) = PersistedNextID(v)
      /\ GetLastBlock(w) = n
    BY <1>1, <1>2, <1>3 DEF PersistedNextID, GetLastBlock, MetaOr
<1>7. CountExact(w)
    BY <1>1, <1>2, <1>3, <1>6 DEF CountExact
<1>8. IdsBelow(w, PersistedNextID(w))
    BY <1>1, <1>2, <1>3, <1>6 DEF IdsBelow
<1>9. w.pay = v.pay /\ Entities(w) = Entities(v)
    BY <1>1, <1>2 DEF Entities, GetCurrentPayloadForEntityKey
<1> QED  BY <1>1, <1>2, <1>3, <1>4, <1>5, <1>6, <1>7, <1>8, <1>9 DEF StoredComplete

-----------------------------------------------------------------------------
(* The invariant                                                           *)

(* The invariant in the form in which the steps use it.                    *)
LEMMA AnyFacts ==
    ASSUME AnyConsistent
    PROVE  /\ StoredComplete(db)
           /\ PersistedNextID(db) \in Nat
           /\ IsView(pBatch) /\ IsCache(cache) /\ IsEntityMap(replayed)
           /\ phase \in Phase /\ ops \in Seq(Op) /\ pos \in 1 .. Len(ops) + 1
           /\ nextIDVal \in Nat /\ lastBlockFromDB \in Nat /\ blk \in Nat
           /\ lastBlock \in Nat /\ peak \in Nat /\ failures \in Nat
           /\ peak = GetLastBlock(db)
           /\ phase # "closed" => /\ "entityCount" \in DOMAIN db.meta
                                  /\ PersistedNextID(db) <= nextIDVal
           /\ InBatch => /\ RecordsExact(pBatch, nextIDVal)
                         /\ CacheComplete(cache, pBatch)
                         /\ Adds(db, pBatch)
                         /\ BatchFollowsReplay
                         /\ BlocksInOrder
           /\ ~InBatch => replayed = Entities(db) /\ ops = <<>> /\ pos = 1
<1>1. /\ IsView(db) /\ IsView(pBatch) /\ IsCache(cache) /\ IsEntityMap(replayed)
      /\ phase \in Phase /\ ops \in Seq(Op) /\ pos \in 1 .. Len(ops) + 1
      /\ nextIDVal \in Nat /\ lastBlockFromDB \in Nat /\ blk \in Nat
      /\ lastBlock \in Nat /\ peak \in Nat /\ failures \in Nat
    BY DEF AnyConsistent, TypeOK, IsCache, IsEntityMap
<1>2. CacheComplete(EmptyMap, db)
    BY DEF AnyConsistent, IndexComplete, CacheComplete, Cached, EmptyMap
<1>3. /\ StoredComplete(db)
      /\ phase # "closed" => /\ "entityCount" \in DOMAIN db.meta
                             /\ PersistedNextID(db) <= nextIDVal
    BY <1>1, <1>2 DEF AnyConsistent, StoredComplete, PayloadsConsistent,
                      EntityCountExact, IdsNotReallocated
<1>4. PersistedNextID(db) \in Nat
    BY <1>1, MetaNat DEF PersistedNextID
<1> QED  BY <1>1, <1>3, <1>4 DEF AnyConsistent, Between

(* And the form in which they establish it.                                *)
LEMMA AnyConsistentNext ==
    ASSUME StoredComplete(db'), IsView(pBatch'), IsCache(cache'), IsEntityMap(replayed'),
           phase' \in Phase, ops' \in Seq(Op), pos' \in 1 .. Len(ops') + 1,
           nextIDVal' \in Nat, lastBlockFromDB' \in Nat, blk' \in Nat,
           lastBlock' \in Nat, peak' \in Nat, failures' \in Nat,
           peak' = GetLastBlock(db'),
           phase' # "closed" => /\ "entityCount" \in DOMAIN db'.meta
                                /\ PersistedNextID(db') <= nextIDVal',
           InBatch' => /\ RecordsExact(pBatch', nextIDVal')
                       /\ CacheComplete(cache', pBatch')
                       /\ Adds(db', pBatch')
                       /\ BatchFollowsReplay'
                       /\ BlocksInOrder',
           ~InBatch' => replayed' = Entities(db') /\ ops' = <<>> /\ pos' = 1
    PROVE  AnyConsistent'
<1>1. TypeOK'
    BY DEF TypeOK, StoredComplete, IsCache, IsEntityMap
<1>2. IndexComplete'
    BY DEF IndexComplete, StoredComplete, CacheComplete, Cached, EmptyMap
<1>3. Between'
    BY DEF Between
<1> QED  BY <1>1, <1>2, <1>3
         DEF AnyConsistent, StoredComplete, PayloadsConsistent, EntityCountExact,
             IdsNotReallocated

(* The invariant holds when a store is created or found.                   *)
LEMMA InitAny == Init => AnyConsistent
<1> SUFFICES ASSUME Init  PROVE AnyConsistent
    OBVIOUS
<1>1. Consistent  BY InitConsistent
<1>2. StoredComplete(db)  BY <1>1, ConsistentFacts, ExactIsComplete
<1>3. ~InBatch  BY DEF Init, InBatch
<1>4. IndexComplete
    BY <1>2 DEF IndexComplete, StoredComplete, CacheComplete, Cached, EmptyMap
<1> QED  BY <1>1, <1>2, <1>3, <1>4 DEF AnyConsistent, Consistent, StoredComplete

-----------------------------------------------------------------------------
(* The steps                                                               *)

(* Opening a store.                                                        *)
LEMMA AnyOpenStep == AnyConsistent /\ NewPebbleStore => AnyConsistent'
<1> SUFFICES ASSUME AnyConsistent, NewPebbleStore  PROVE AnyConsistent'
    OBVIOUS
<1>1. /\ StoredComplete(db')
      /\ "entityCount" \in DOMAIN db'.meta
      /\ Entities(db') = Entities(db)
      /\ PersistedNextID(db') = PersistedNextID(db)
      /\ GetLastBlock(db') = GetLastBlock(db)
    BY AnyFacts, OpenKeepsComplete DEF NewPebbleStore
<1>2. nextIDVal' = PersistedNextID(db)
    BY DEF NewPebbleStore, LoadNextID
<1>3. ~InBatch /\ ~InBatch' /\ phase' \in Phase
    BY DEF InBatch, NewPebbleStore, Phase
<1>4. nextIDVal' \in Nat /\ PersistedNextID(db') <= nextIDVal'
    BY <1>1, <1>2, AnyFacts
<1> QED  BY <1>1, <1>3, <1>4, AnyFacts, AnyConsistentNext DEF NewPebbleStore, batchVars

(* Beginning a batch: it shows the database.                               *)
LEMMA AnyBatchStep == AnyConsistent /\ NextBatch => AnyConsistent'
<1> SUFFICES ASSUME AnyConsistent, NEW first \in 1 .. MaxBlock,
                    NEW final \in 1 .. MaxBlock, final >= GetLastBlock(db),
                    TakeBatch(first, final)
             PROVE  AnyConsistent'
    BY DEF NextBatch
<1>1. /\ phase = "idle" /\ phase' = "batch" /\ first <= final
      /\ pBatch' = db /\ cache' = EmptyMap
      /\ lastBlockFromDB' = GetLastBlock(db) /\ blk' = first /\ lastBlock' = final
      /\ UNCHANGED <<db, nextIDVal, ops, pos, replayed, peak, failures>>
    BY DEF TakeBatch
<1>2. /\ StoredComplete(db) /\ PersistedNextID(db) <= nextIDVal
      /\ "entityCount" \in DOMAIN db.meta
      /\ replayed = Entities(db) /\ ops = <<>> /\ pos = 1
    BY <1>1, AnyFacts DEF InBatch
<1>3. RecordsExact(pBatch', nextIDVal') /\ CacheComplete(cache', pBatch')
    BY <1>1, <1>2 DEF RecordsExact, StoredComplete
<1>4. phase' \in Phase /\ blk' \in Nat /\ lastBlock' \in Nat /\ lastBlockFromDB' \in Nat
    BY <1>1, <1>2, MetaNat, BoundsAssumption DEF Phase, GetLastBlock, StoredComplete
<1>5. IsView(pBatch') /\ IsCache(cache')
    BY <1>1, <1>2, EmptyViewExact DEF StoredComplete
<1>6. Adds(db', pBatch')
    BY <1>1, AnyFacts DEF Adds
<1>7. BatchFollowsReplay'
    <2>1. PendingUpdates(<<>>, 1) = {}  BY NothingPendingOutside
    <2> QED  BY <1>1, <1>2, <2>1 DEF BatchFollowsReplay, AgreeExcept
<1>8. BlocksInOrder'
    <2>1. GetLastBlock(db) \in Nat  BY <1>2, MetaNat DEF GetLastBlock, StoredComplete
    <2> QED  BY <1>1, <1>2, <2>1, BoundsAssumption DEF BlocksInOrder
<1>9. InBatch'
    BY <1>1 DEF InBatch
<1> QED  BY <1>1, <1>2, <1>3, <1>4, <1>5, <1>6, <1>7, <1>8, <1>9,
            AnyFacts, AnyConsistentNext

(* Passing over, entering and leaving blocks, of whatever operations.      *)
LEMMA AnyBlockStep ==
    AnyConsistent /\ (SkipBlock \/ StartBlock \/ StartAnyBlock \/ FinishBlock)
        => AnyConsistent'
<1> SUFFICES ASSUME AnyConsistent,
                    SkipBlock \/ StartBlock \/ StartAnyBlock \/ FinishBlock
             PROVE  AnyConsistent'
    OBVIOUS
<1>1. /\ InBatch /\ InBatch' /\ phase' \in Phase
      /\ UNCHANGED <<db, nextIDVal, pBatch, cache, lastBlockFromDB, lastBlock,
                     replayed, peak, failures>>
    BY DEF SkipBlock, StartBlock, StartAnyBlock, FinishBlock, InBatch, Phase
<1>2. blk' \in Nat
    BY AnyFacts DEF SkipBlock, StartBlock, StartAnyBlock, FinishBlock
<1>3. ops' \in Seq(Op) /\ pos' \in 1 .. Len(ops') + 1
    <2>1. CASE SkipBlock  BY <2>1, AnyFacts DEF SkipBlock
    <2>2. CASE StartBlock \/ StartAnyBlock
        <3>1. ops' \in Seq(Op) /\ pos' = 1
            BY <2>2, BlockContentsAssumption DEF StartBlock, StartAnyBlock
        <3>2. Len(ops') \in Nat  BY <3>1
        <3> QED  BY <3>1, <3>2
    <2>3. CASE FinishBlock
        <3>1. ops' = <<>> /\ pos' = 1  BY <2>3 DEF FinishBlock
        <3> QED  BY <3>1
    <2> QED  BY <2>1, <2>2, <2>3
<1>4. "closed" # phase /\ "closed" # phase'
    BY <1>1 DEF InBatch
<1>5. ASSUME PendingUpdates(ops, pos) = PendingUpdates(ops', pos')
      PROVE  BatchFollowsReplay'
    BY <1>1, <1>5, AnyFacts DEF BatchFollowsReplay
<1>6. BatchFollowsReplay'
    <2>1. CASE SkipBlock  BY <1>5, <2>1 DEF SkipBlock
    <2>2. CASE StartBlock \/ StartAnyBlock
        <3>1. phase = "batch" /\ pos' = 1
            BY <2>2 DEF StartBlock, StartAnyBlock
        <3>2. ops = <<>> /\ pos = 1
            BY <1>1, <3>1, AnyFacts DEF BlocksInOrder
        <3>3. PendingUpdates(ops, pos) = {}  BY <3>2, NothingPendingOutside
        <3>4. PendingUpdates(ops', pos') = {}  BY <1>3, <3>1, NothingPending
        <3> QED  BY <1>5, <3>3, <3>4
    <2>3. CASE FinishBlock
        <3>1. pos > Len(ops) /\ ops' = <<>> /\ pos' = 1  BY <2>3 DEF FinishBlock
        <3>2. ops \in Seq(Op) /\ pos \in 1 .. Len(ops) + 1  BY AnyFacts
        <3>3. Len(ops) \in Nat  BY <3>2
        <3>4. pos = Len(ops) + 1  BY <3>1, <3>2, <3>3
        <3>5. PendingUpdates(ops, pos) = {}  BY <3>2, <3>4, NothingPending
        <3>6. PendingUpdates(ops', pos') = {}  BY <3>1, NothingPendingOutside
        <3> QED  BY <1>5, <3>5, <3>6
    <2> QED  BY <2>1, <2>2, <2>3
<1>7. BlocksInOrder'
    <2>1. /\ BlocksInOrder /\ blk \in Nat /\ lastBlock \in Nat /\ lastBlockFromDB \in Nat
        BY <1>1, AnyFacts
    <2>2. CASE SkipBlock  BY <1>1, <2>1, <2>2 DEF SkipBlock, BlocksInOrder
    <2>3. CASE StartBlock \/ StartAnyBlock
        BY <1>1, <2>1, <2>3 DEF StartBlock, StartAnyBlock, IsProcessed, BlocksInOrder
    <2>4. CASE FinishBlock  BY <1>1, <2>1, <2>4 DEF FinishBlock, BlocksInOrder
    <2> QED  BY <2>2, <2>3, <2>4
<1> QED  BY <1>1, <1>2, <1>3, <1>4, <1>6, <1>7, AnyFacts, AnyConsistentNext

(* When the last block is done the batch has the entities that all the     *)
(* operations, taken one by one, leave: no update is pending any more.     *)
LEMMA WholeBatch ==
    ASSUME AnyConsistent, phase = "batch"
    PROVE  Entities(pBatch) = replayed
<1>1. InBatch  BY DEF InBatch
<1>2. ops = <<>> /\ pos = 1
    BY <1>1, AnyFacts DEF BlocksInOrder
<1>3. PendingUpdates(ops, pos) = {}  BY <1>2, NothingPendingOutside
<1>4. AgreeExcept(Entities(pBatch), replayed, {})
    BY <1>1, <1>3, AnyFacts DEF BatchFollowsReplay
<1>5. Entities(pBatch) = [k \in DOMAIN Entities(pBatch) |-> Entities(pBatch)[k]]
    BY DEF Entities
<1>6. replayed = [k \in DOMAIN replayed |-> replayed[k]]
    BY AnyFacts DEF IsEntityMap
<1> QED  BY <1>4, <1>5, <1>6 DEF AgreeExcept

(* The state in which an operation is applied.                             *)
LEMMA AtAnyOperation ==
    ASSUME AnyConsistent, NEW types, AtOperation(types)
    PROVE  /\ phase = "block" /\ InBatch
           /\ ops \in Seq(Op) /\ pos \in 1 .. Len(ops)
           /\ current \in Op /\ current.type \in types
           /\ blk \in Nat /\ nextIDVal \in Nat
           /\ IsView(pBatch) /\ IsCache(cache)
           /\ RecordsExact(pBatch, nextIDVal) /\ CacheComplete(cache, pBatch)
           /\ Adds(db, pBatch)
           /\ IsEntityMap(replayed)
           /\ IsEntityMap(Entities(pBatch))
           /\ DOMAIN Entities(pBatch) = DOMAIN pBatch.cur
           /\ \A k \in DOMAIN Entities(pBatch) : Entities(pBatch)[k].key = k
<1>1. phase = "block" /\ InBatch /\ pos <= Len(ops) /\ current.type \in types
    BY DEF AtOperation, InBatch
<1>2. ops \in Seq(Op) /\ pos \in 1 .. Len(ops) /\ current \in Op
    <2>1. ops \in Seq(Op) /\ pos \in 1 .. Len(ops) + 1  BY AnyFacts
    <2>2. Len(ops) \in Nat  BY <2>1
    <2>3. pos \in 1 .. Len(ops)  BY <1>1, <2>1, <2>2
    <2> QED  BY <2>1, <2>3 DEF current
<1>3. IsView(pBatch) /\ RecordsExact(pBatch, nextIDVal)
    BY <1>1, AnyFacts
<1>4. /\ IsEntityMap(Entities(pBatch))
      /\ DOMAIN Entities(pBatch) = DOMAIN pBatch.cur
      /\ \A k \in DOMAIN Entities(pBatch) : Entities(pBatch)[k].key = k
    BY <1>3, EntitiesFacts DEF RecordsExact, IsEntityMap
<1> QED  BY <1>1, <1>2, <1>3, <1>4, AnyFacts

(* The record of the entity an operation is about.                         *)
LEMMA AnyCurrentRecord ==
    ASSUME AnyConsistent, NEW types, AtOperation(types),
           HasCurrentPayload(pBatch, current.key)
    PROVE  /\ current.key \in DOMAIN pBatch.cur
           /\ pBatch.cur[current.key] \in Nat
           /\ GetCurrentPayloadForEntityKey(pBatch, current.key) =
                 pBatch.pay[pBatch.cur[current.key]]
           /\ GetCurrentPayloadForEntityKey(pBatch, current.key) =
                 Entities(pBatch)[current.key]
           /\ GetCurrentPayloadForEntityKey(pBatch, current.key) \in Row
           /\ GetCurrentPayloadForEntityKey(pBatch, current.key).key = current.key
<1>1. /\ current.key \in DOMAIN pBatch.cur
      /\ pBatch.cur[current.key] \in DOMAIN pBatch.pay
    BY DEF HasCurrentPayload
<1>2. IsView(pBatch) /\ PointersMatchPayloads(pBatch)
    BY AtAnyOperation DEF RecordsExact
<1>3. GetCurrentPayloadForEntityKey(pBatch, current.key) =
          pBatch.pay[pBatch.cur[current.key]]
    BY DEF GetCurrentPayloadForEntityKey
<1>4. GetCurrentPayloadForEntityKey(pBatch, current.key) = Entities(pBatch)[current.key]
    BY <1>1 DEF Entities
<1> QED  BY <1>1, <1>2, <1>3, <1>4 DEF IsView, PointersMatchPayloads

(* An operation keeps the invariant if the records stay in step and the    *)
(* index complete.                                                         *)
LEMMA AnyOperationStep ==
    ASSUME AnyConsistent, NEW types, AtOperation(types), NextOperation,
           IsView(pBatch'), IsCache(cache'), Adds(db, pBatch'),
           nextIDVal' \in Nat, nextIDVal <= nextIDVal',
           RecordsExact(pBatch', nextIDVal'), CacheComplete(cache', pBatch'),
           NEW replaced \in BOOLEAN,
           replaced <=> (current.type = "update" /\ ~IsLastUpdate(pos)),
           Entities(pBatch') = IF replaced THEN Entities(pBatch)
                               ELSE Effect(Entities(pBatch), current, blk)
    PROVE  AnyConsistent'
<1> DEFINE these == Entities(pBatch)
<1>1. /\ pos' = pos + 1 /\ replayed' = Effect(replayed, ops[pos], blk)
      /\ UNCHANGED <<db, phase, lastBlockFromDB, blk, lastBlock, ops, peak, failures>>
    BY DEF NextOperation, current
<1>2. /\ phase = "block" /\ InBatch /\ ops \in Seq(Op) /\ pos \in 1 .. Len(ops)
      /\ ops[pos] \in Op /\ blk \in Nat /\ IsEntityMap(replayed)
      /\ IsEntityMap(these)
      /\ \A k \in DOMAIN these : these[k].key = k
    BY AtAnyOperation DEF current
<1>3. BatchFollowsReplay /\ BlocksInOrder
    BY <1>2, AnyFacts
<1>4. replaced <=> /\ ops[pos].type = "update"
                   /\ \E j \in pos + 1 .. Len(ops) : IsUpdate(ops[j], ops[pos].key)
    BY DEF IsLastUpdate, current
<1>5. Entities(pBatch') = IF replaced THEN these ELSE Effect(these, ops[pos], blk)
    BY DEF current
<1>6. IsEntityMap(replayed')
    BY <1>1, <1>2, EffectType
<1> HIDE DEF these
<1>7. BatchFollowsReplay'
    <2>1. AgreeExcept(these, replayed, PendingUpdates(ops, pos))
        BY <1>3 DEF BatchFollowsReplay, these
    <2>2. AgreeExcept(IF replaced THEN these ELSE Effect(these, ops[pos], blk),
                      Effect(replayed, ops[pos], blk), PendingUpdates(ops, pos + 1))
        BY <1>2, <1>4, <2>1, AgreeStep
    <2> QED  BY <1>1, <1>5, <2>2 DEF BatchFollowsReplay
<1>8. BlocksInOrder'
    BY <1>1, <1>2, <1>3 DEF BlocksInOrder
<1>9. pos' \in 1 .. Len(ops') + 1 /\ ops' \in Seq(Op) /\ phase' = "block" /\ InBatch'
    BY <1>1, <1>2 DEF InBatch
<1>10. PersistedNextID(db') <= nextIDVal' /\ "entityCount" \in DOMAIN db'.meta
    BY <1>1, <1>2, AnyFacts
<1>11. Adds(db', pBatch')
    BY <1>1
<1> QED  BY <1>1, <1>6, <1>7, <1>8, <1>9, <1>10, <1>11, AnyFacts, AnyConsistentNext

(* A record stored under a new id is stored under one the database has not *)
(* counted past.                                                           *)
LEMMA UpsertKeepsAdds ==
    ASSUME NEW base, IsView(base), NEW v, IsView(v), NEW next \in Nat,
           RecordsExact(v, next), Adds(base, v), NEW row \in Row
    PROVE  Adds(base, UpsertPayload(v, next, row))
<1> DEFINE w == UpsertPayload(v, next, row)
           id == UpsertID(v, row.key, next)
           m == PersistedNextID(base)
<1>1. Upserted(v, next, row, w)  BY UpsertFacts
<1> HIDE DEF w
<1>2. /\ m \in Nat /\ PersistedNextID(v) \in Nat
      /\ m <= PersistedNextID(v) /\ PersistedNextID(v) <= next
    BY MetaNat DEF PersistedNextID, Adds, RecordsExact
<1>3. w.bm = base.bm /\ DOMAIN w.pay = DOMAIN v.pay \cup {id}
    BY <1>1 DEF Upserted, Adds, Put
<1>4. CASE row.key \in DOMAIN v.cur
    <2>1. id \in DOMAIN v.pay
        BY <1>4 DEF UpsertID, RecordsExact, PointersMatchPayloads
    <2>2. PersistedNextID(w) = PersistedNextID(v)
        BY <1>1, <1>4 DEF Upserted, PersistedNextID, MetaOr
    <2> QED  BY <1>3, <2>1, <2>2 DEF Adds, w
<1>5. CASE row.key \notin DOMAIN v.cur
    <2>1. id = next /\ id >= m
        BY <1>2, <1>5 DEF UpsertID
    <2>2. PersistedNextID(w) = next + 1
        BY <1>1, <1>5 DEF Upserted, PersistedNextID, MetaOr
    <2>3. m <= PersistedNextID(w)
        BY <1>2, <2>2
    <2> HIDE DEF id, m
    <2>4. \A i \in DOMAIN w.pay \ DOMAIN base.pay : i >= m
        BY <1>3, <2>1 DEF Adds, m
    <2> QED  BY <1>3, <2>3, <2>4 DEF Adds, m, w
<1> QED  BY <1>4, <1>5

(* A deletion adds nothing.                                                *)
LEMMA DeleteKeepsAdds ==
    ASSUME NEW base, NEW v, IsView(v), Adds(base, v), NEW key \in DOMAIN v.cur,
           ~EntityCountUnderflow(v)
    PROVE  Adds(base, DeletePayloadForEntityKey(v, key))
<1> DEFINE w == DeletePayloadForEntityKey(v, key)
<1>1. /\ w.pay = Del(v.pay, v.cur[key])
      /\ w.bm = v.bm
      /\ \A other, default : other # "entityCount" =>
            MetaOr(w, other, default) = MetaOr(v, other, default)
    BY DeleteFacts
<1> HIDE DEF w
<1>2. DOMAIN w.pay \subseteq DOMAIN v.pay
    BY <1>1 DEF Del
<1>3. PersistedNextID(w) = PersistedNextID(v)
    BY <1>1 DEF PersistedNextID
<1> QED  BY <1>1, <1>2, <1>3 DEF Adds, w

(* Storing a record and filing its id under all its index keys, or under   *)
(* those that changed, keeps the invariant.                                *)
LEMMA AnyStoreStep ==
    ASSUME AnyConsistent, NEW types, AtOperation(types), NextOperation,
           NEW row \in Row, StorePayload(row), row.key = current.key,
           NEW out, NEW in,
           IndexKeys(row) \subseteq in \/ KeysBecome(pBatch, row, out, in),
           ~(current.type = "update" /\ ~IsLastUpdate(pos)),
           Effect(Entities(pBatch), current, blk) = Put(Entities(pBatch), current.key, row),
           cache' = AddToBitmaps(
                       RemoveFromBitmaps(cache, pBatch, out,
                                         UpsertID(pBatch, current.key, nextIDVal)),
                       pBatch, in, UpsertID(pBatch, current.key, nextIDVal))
    PROVE  AnyConsistent'
<1> DEFINE id == UpsertID(pBatch, current.key, nextIDVal)
<1>1. /\ IsView(pBatch) /\ IsCache(cache) /\ nextIDVal \in Nat
      /\ RecordsExact(pBatch, nextIDVal) /\ CacheComplete(cache, pBatch)
      /\ Adds(db, pBatch) /\ IsView(db)
    BY AtAnyOperation, AnyFacts DEF StoredComplete
<1>2. /\ pBatch' = UpsertPayload(pBatch, nextIDVal, row)
      /\ nextIDVal' = IF row.key \in DOMAIN pBatch.cur THEN nextIDVal ELSE nextIDVal + 1
    BY DEF StorePayload
<1>3. id = UpsertID(pBatch, row.key, nextIDVal)
    OBVIOUS
<1>4. cache' = AddToBitmaps(RemoveFromBitmaps(cache, pBatch, out, id), pBatch, in, id)
    OBVIOUS
<1> HIDE DEF id
<1>5. IsView(pBatch') /\ pBatch'.bm = pBatch.bm /\ id \in Nat
    <2>1. Upserted(pBatch, nextIDVal, row, UpsertPayload(pBatch, nextIDVal, row))
        BY <1>1, UpsertFacts
    <2> QED  BY <1>2, <1>3, <2>1 DEF Upserted
<1>6. IsCache(cache') /\ Refiled(cache, pBatch, cache', pBatch', out, in, id)
    BY <1>1, <1>4, <1>5, RefileFacts
<1>7. RecordsExact(pBatch', nextIDVal')
    BY <1>1, <1>2, UpsertKeepsRecords
<1>8. CacheComplete(cache', pBatch')
    BY <1>1, <1>2, <1>3, <1>6, UpsertKeepsComplete
<1>9. nextIDVal' \in Nat /\ nextIDVal <= nextIDVal'
    BY <1>1, <1>2
<1>10. Adds(db, pBatch')
    BY <1>1, <1>2, UpsertKeepsAdds
<1>11. Entities(pBatch') = Effect(Entities(pBatch), current, blk)
    BY <1>1, <1>2, UpsertEntities
<1> QED  BY <1>5, <1>6, <1>7, <1>8, <1>9, <1>10, <1>11, AnyOperationStep

(* Creating an entity, also one that exists.                               *)
LEMMA AnyCreateStep == AnyConsistent /\ Create => AnyConsistent'
<1> SUFFICES ASSUME AnyConsistent, Create  PROVE AnyConsistent'
    OBVIOUS
<1> DEFINE row == NewRow(current, blk)
           id == UpsertID(pBatch, current.key, nextIDVal)
           in == IndexKeys(row)
<1>1. /\ AtOperation({"create"}) /\ NextOperation /\ StorePayload(row)
      /\ cache' = AddToBitmaps(cache, pBatch, in, id)
    BY DEF Create
<1>2. /\ current \in Op /\ current.type = "create" /\ blk \in Nat /\ IsCache(cache)
      /\ IsView(pBatch)
    BY <1>1, AtAnyOperation
<1>3. row \in Row /\ row.key = current.key
    <2>1. current \in CreateOp  BY <1>2, OpKinds
    <2> QED  BY <1>2, <2>1, NewRowType
<1>4. IndexKeys(row) \subseteq in
    OBVIOUS
<1>5. RemoveFromBitmaps(cache, pBatch, {}, id) = cache
    BY <1>2 DEF RemoveFromBitmaps, IsCache
<1>6. cache' = AddToBitmaps(RemoveFromBitmaps(cache, pBatch, {}, id), pBatch, in, id)
    BY <1>1, <1>5
<1>7. Effect(Entities(pBatch), current, blk) = Put(Entities(pBatch), current.key, row)
    BY <1>2, EffectCases
<1>8. current.type # "update"
    BY <1>2
<1> HIDE DEF row, in
<1> QED  BY <1>1, <1>3, <1>4, <1>6, <1>7, <1>8, AnyStoreStep

(* The operations that change an entity that exists.                       *)
LEMMA AnyChangeSteps ==
    AnyConsistent /\ (Update \/ ExtendBTL \/ ChangeOwner) => AnyConsistent'
<1> SUFFICES ASSUME AnyConsistent, Update \/ ExtendBTL \/ ChangeOwner
             PROVE  AnyConsistent'
    OBVIOUS
<1> DEFINE old == GetCurrentPayloadForEntityKey(pBatch, current.key)
           id == UpsertID(pBatch, current.key, nextIDVal)
<1>0. ASSUME NEW types, AtOperation(types), HasCurrentPayload(pBatch, current.key),
             NextOperation, NEW row \in Row, StorePayload(row), row.key = current.key,
             ~(current.type = "update" /\ ~IsLastUpdate(pos)),
             Effect(Entities(pBatch), current, blk) =
                 Put(Entities(pBatch), current.key, row),
             NEW out, NEW in, IndexKeys(row) = (IndexKeys(old) \ out) \cup in,
             cache' = AddToBitmaps(RemoveFromBitmaps(cache, pBatch, out, id),
                                   pBatch, in, id)
      PROVE  AnyConsistent'
    <2>1. KeysBecome(pBatch, row, out, in)
        BY <1>0, AnyCurrentRecord DEF KeysBecome
    <2> QED  BY <1>0, <2>1, AnyStoreStep
<1>1. ASSUME NEW types, AtOperation(types), HasCurrentPayload(pBatch, current.key)
      PROVE  /\ current \in Op /\ current.type \in types /\ blk \in Nat
             /\ old \in Row /\ old.key = current.key
             /\ current.key \in DOMAIN Entities(pBatch)
             /\ old = Entities(pBatch)[current.key]
    BY <1>1, AtAnyOperation, AnyCurrentRecord
<1>2. CASE Update
    <2> DEFINE row == UpdatedRow(old, current, blk)
               out == IndexKeys(old)
               in == IndexKeys(row)
    <2>1. /\ AtOperation({"update"}) /\ IsLastUpdate(pos)
          /\ NextOperation /\ StorePayload(row)
          /\ HasCurrentPayload(pBatch, current.key)
          /\ cache' = AddToBitmaps(RemoveFromBitmaps(cache, pBatch, out, id), pBatch, in, id)
        BY <1>2 DEF Update, Refile
    <2>2. row \in Row /\ row.key = current.key
        BY <1>1, <2>1, RowTypes DEF UpdatedRow
    <2>3. IndexKeys(row) = (IndexKeys(old) \ out) \cup in
        OBVIOUS
    <2>4. Effect(Entities(pBatch), current, blk) = Put(Entities(pBatch), current.key, row)
        BY <1>1, <2>1, EffectCases
    <2> HIDE DEF row, out, in
    <2> QED  BY <1>0, <2>1, <2>2, <2>3, <2>4
<1>3. CASE ExtendBTL
    <2> DEFINE row == ExtendedRow(old, current)
               out == {ExpirationKey(old)}
               in == {ExpirationKey(row)}
    <2>1. /\ AtOperation({"extendBTL"}) /\ NextOperation /\ StorePayload(row)
          /\ HasCurrentPayload(pBatch, current.key)
          /\ cache' = AddToBitmaps(RemoveFromBitmaps(cache, pBatch, out, id), pBatch, in, id)
        BY <1>3 DEF ExtendBTL, RefileOne
    <2>2. row \in Row /\ row.key = current.key
        <3>1. row.key = old.key  BY <1>1, <2>1 DEF ExtendedRow, Row
        <3> QED  BY <1>1, <2>1, <3>1, RowTypes
    <2>3. IndexKeys(row) = (IndexKeys(old) \ out) \cup in
        BY <1>1, <2>1, OneKeyChanges
    <2>4. /\ current.type = "extendBTL"
          /\ Effect(Entities(pBatch), current, blk) =
                 Put(Entities(pBatch), current.key, row)
        BY <1>1, <2>1, EffectCases
    <2> HIDE DEF row, out, in
    <2> QED  BY <1>0, <2>1, <2>2, <2>3, <2>4
<1>4. CASE ChangeOwner
    <2> DEFINE row == ReownedRow(old, current)
               out == {OwnerKey(old)}
               in == {OwnerKey(row)}
    <2>1. /\ AtOperation({"changeOwner"}) /\ NextOperation /\ StorePayload(row)
          /\ HasCurrentPayload(pBatch, current.key)
          /\ cache' = AddToBitmaps(RemoveFromBitmaps(cache, pBatch, out, id), pBatch, in, id)
        BY <1>4 DEF ChangeOwner, RefileOne
    <2>2. row \in Row /\ row.key = current.key
        <3>1. row.key = old.key  BY <1>1, <2>1 DEF ReownedRow, Row
        <3> QED  BY <1>1, <2>1, <3>1, RowTypes
    <2>3. IndexKeys(row) = (IndexKeys(old) \ out) \cup in
        BY <1>1, <2>1, OneKeyChanges
    <2>4. /\ current.type = "changeOwner"
          /\ Effect(Entities(pBatch), current, blk) =
                 Put(Entities(pBatch), current.key, row)
        BY <1>1, <2>1, EffectCases
    <2> HIDE DEF row, out, in
    <2> QED  BY <1>0, <2>1, <2>2, <2>3, <2>4
<1> QED  BY <1>2, <1>3, <1>4

(* Passing over an update, and removing an entity.                         *)
LEMMA AnySkipOrRemoveStep ==
    AnyConsistent /\ (SkipUpdate \/ Remove) => AnyConsistent'
<1> SUFFICES ASSUME AnyConsistent, SkipUpdate \/ Remove  PROVE AnyConsistent'
    OBVIOUS
<1>1. CASE SkipUpdate
    <2>1. /\ AtOperation({"update"}) /\ ~IsLastUpdate(pos) /\ NextOperation
          /\ UNCHANGED <<nextIDVal, pBatch, cache>>
        BY <1>1 DEF SkipUpdate
    <2>2. /\ IsView(pBatch) /\ IsCache(cache) /\ nextIDVal \in Nat
          /\ RecordsExact(pBatch, nextIDVal) /\ CacheComplete(cache, pBatch)
          /\ Adds(db, pBatch) /\ current.type = "update"
        BY <2>1, AtAnyOperation
    <2> DEFINE replaced == TRUE
    <2>3. /\ replaced \in BOOLEAN
          /\ replaced <=> (current.type = "update" /\ ~IsLastUpdate(pos))
          /\ Entities(pBatch') = IF replaced THEN Entities(pBatch)
                                 ELSE Effect(Entities(pBatch), current, blk)
        BY <2>1, <2>2
    <2>4. nextIDVal <= nextIDVal' /\ UNCHANGED db
        BY <2>1, <2>2 DEF NextOperation
    <2> HIDE DEF replaced
    <2> QED  BY <2>1, <2>2, <2>3, <2>4, AnyOperationStep
<1>2. CASE Remove
    <2> DEFINE key == current.key
               out == IndexKeys(GetCurrentPayloadForEntityKey(pBatch, key))
               id == pBatch.cur[key]
    <2>1. /\ AtOperation({"delete", "expire"}) /\ NextOperation
          /\ HasCurrentPayload(pBatch, key) /\ ~EntityCountUnderflow(pBatch)
          /\ pBatch' = DeletePayloadForEntityKey(pBatch, key)
          /\ cache' = RemoveFromBitmaps(cache, pBatch, out, id)
          /\ UNCHANGED nextIDVal
        BY <1>2 DEF Remove
    <2>2. /\ IsView(pBatch) /\ IsCache(cache) /\ nextIDVal \in Nat
          /\ RecordsExact(pBatch, nextIDVal) /\ CacheComplete(cache, pBatch)
          /\ Adds(db, pBatch) /\ PointersMatchPayloads(pBatch)
          /\ key \in DOMAIN pBatch.cur /\ id \in Nat
          /\ key \in DOMAIN Entities(pBatch)
          /\ current.type \in {"delete", "expire"}
        BY <2>1, AtAnyOperation, AnyCurrentRecord DEF RecordsExact
    <2>e. Effect(Entities(pBatch), current, blk) = Del(Entities(pBatch), key)
        BY <2>2, EffectCases
    <2> HIDE DEF key, out, id
    <2>3. IsView(pBatch') /\ pBatch'.bm = pBatch.bm
        BY <2>1, <2>2, DeleteFacts
    <2>4. IsCache(cache') /\ Refiled(cache, pBatch, cache', pBatch', out, {}, id)
        BY <2>1, <2>2, <2>3, RemoveFacts DEF Refiled
    <2>5. RecordsExact(pBatch', nextIDVal')
        BY <2>1, <2>2, DeleteKeepsRecords
    <2>6. CacheComplete(cache', pBatch')
        BY <2>1, <2>2, <2>4, DeleteKeepsComplete DEF id
    <2>7. nextIDVal' \in Nat /\ nextIDVal <= nextIDVal'
        BY <2>1, <2>2
    <2>8. Adds(db, pBatch')
        BY <2>1, <2>2, DeleteKeepsAdds
    <2>9. Entities(pBatch') = Effect(Entities(pBatch), current, blk)
        BY <2>1, <2>2, <2>e, DeleteEntities
    <2>10. current.type # "update"
        BY <2>2
    <2> QED  BY <2>1, <2>3, <2>4, <2>5, <2>6, <2>7, <2>8, <2>9, <2>10, AnyOperationStep
<1> QED  BY <1>1, <1>2

(* What a commit makes of the database.                                    *)
LEMMA AnyCommitted ==
    ASSUME AnyConsistent, CommitBatch
    PROVE  /\ StoredComplete(db')
           /\ "entityCount" \in DOMAIN db'.meta
           /\ db'.pay = pBatch.pay
           /\ Entities(db') = replayed
           /\ PersistedNextID(db') = PersistedNextID(pBatch)
           /\ GetLastBlock(db') = lastBlock
<1>1. phase = "batch" /\ db' = Flush(UpsertLastBlock(pBatch, lastBlock), cache)
    BY DEF CommitBatch
<1>2. InBatch  BY <1>1 DEF InBatch
<1>3. \A p \in DOMAIN pBatch.bm : pBatch.bm[p] # {}
    BY <1>2, AnyFacts DEF StoredComplete, Adds
<1>4. Entities(pBatch) = replayed
    BY <1>1, WholeBatch
<1>5. /\ IsView(pBatch) /\ IsCache(cache) /\ lastBlock \in Nat
      /\ RecordsExact(pBatch, nextIDVal) /\ CacheComplete(cache, pBatch)
    BY <1>2, AnyFacts
<1> QED  BY <1>1, <1>3, <1>4, <1>5, CommitKeepsComplete

(* Committing the batch.                                                   *)
LEMMA AnyCommitStep == AnyConsistent /\ CommitBatch => AnyConsistent'
<1> SUFFICES ASSUME AnyConsistent, CommitBatch  PROVE AnyConsistent'
    OBVIOUS
<1>1. /\ phase = "batch" /\ phase' = "idle"
      /\ peak' = IF lastBlock > peak THEN lastBlock ELSE peak
      /\ UNCHANGED <<nextIDVal, failures>>
      /\ pBatch' = EmptyView /\ cache' = EmptyMap
      /\ lastBlockFromDB' = 0 /\ blk' = 0 /\ lastBlock' = 0
      /\ ops' = <<>> /\ pos' = 1 /\ replayed' = Entities(db')
    BY DEF CommitBatch, DropBatch
<1>2. InBatch /\ ~InBatch' /\ phase' \in Phase
    BY <1>1 DEF InBatch, Phase
<1>3. peak' = GetLastBlock(db') /\ peak' \in Nat
    <2>1. peak <= lastBlock /\ peak \in Nat /\ lastBlock \in Nat
        BY <1>2, AnyFacts DEF BlocksInOrder
    <2> QED  BY <1>1, <2>1, AnyCommitted
<1>4. /\ StoredComplete(db') /\ "entityCount" \in DOMAIN db'.meta
      /\ PersistedNextID(db') = PersistedNextID(pBatch)
    BY AnyCommitted
<1>5. PersistedNextID(db') <= nextIDVal'
    BY <1>1, <1>2, <1>4, AnyFacts DEF RecordsExact
<1>6. IsEntityMap(replayed')
    BY <1>1, <1>4, EntitiesFacts DEF StoredComplete, IsEntityMap
<1>7. IsView(pBatch') /\ IsCache(cache')
    BY <1>1, EmptyViewExact DEF StoredExact
<1>8. ops' \in Seq(Op) /\ pos' \in 1 .. Len(ops') + 1
    BY <1>1
<1> QED  BY <1>1, <1>2, <1>3, <1>4, <1>5, <1>6, <1>7, <1>8, AnyFacts, AnyConsistentNext

(* Errors, crashes and Close, which leave the database as it is.           *)
LEMMA AnyFailureSteps ==
    AnyConsistent /\ (OperationFails \/ StorageFails \/ Crash \/ Close) => AnyConsistent'
<1> SUFFICES ASSUME AnyConsistent, OperationFails \/ StorageFails \/ Crash \/ Close
             PROVE  AnyConsistent'
    OBVIOUS
<1>0. nextIDVal \in Nat /\ failures \in Nat
    BY AnyFacts
<1>1. ASSUME DropBatch(db), UNCHANGED <<db, peak>>,
             nextIDVal' \in Nat, failures' \in Nat,
             \/ phase' = "closed"
             \/ phase' = "idle" /\ phase # "closed" /\ nextIDVal <= nextIDVal'
      PROVE  AnyConsistent'
    <2>1. /\ pBatch' = EmptyView /\ cache' = EmptyMap
          /\ lastBlockFromDB' = 0 /\ blk' = 0 /\ lastBlock' = 0
          /\ ops' = <<>> /\ pos' = 1 /\ replayed' = Entities(db')
        BY <1>1 DEF DropBatch
    <2>2. ~InBatch' /\ phase' \in Phase
        BY <1>1 DEF InBatch, Phase
    <2>3. IsEntityMap(replayed')
        BY <1>1, <2>1, AnyFacts, EntitiesFacts DEF StoredComplete, IsEntityMap
    <2>4. IsView(pBatch') /\ IsCache(cache')
        BY <2>1, EmptyViewExact DEF StoredExact
    <2>5. ops' \in Seq(Op) /\ pos' \in 1 .. Len(ops') + 1
        BY <2>1
    <2>6. phase' # "closed" => PersistedNextID(db') <= nextIDVal'
        BY <1>0, <1>1, AnyFacts
    <2> QED  BY <1>1, <2>1, <2>2, <2>3, <2>4, <2>5, <2>6, AnyFacts, AnyConsistentNext
<1>2. CASE OperationFails
    BY <1>0, <1>1, <1>2 DEF OperationFails, ReturnError
<1>3. CASE StorageFails
    BY <1>0, <1>1, <1>3 DEF StorageFails, ReturnError
<1>4. CASE Crash
    BY <1>0, <1>1, <1>4 DEF Crash
<1>5. CASE Close
    <2>1. ~InBatch /\ ~InBatch' /\ phase' = "closed" /\ phase' \in Phase /\ nextIDVal' = 1
        BY <1>5 DEF Close, InBatch, Phase
    <2> QED  BY <1>5, <2>1, AnyFacts, AnyConsistentNext DEF Close, batchVars
<1> QED  BY <1>2, <1>3, <1>4, <1>5

-----------------------------------------------------------------------------
(* The theorems                                                            *)

(* Every step keeps the invariant.                                         *)
LEMMA AnyNextConsistent == AnyConsistent /\ [AnyNext]_vars => AnyConsistent'
<1> SUFFICES ASSUME AnyConsistent, [AnyNext]_vars  PROVE AnyConsistent'
    OBVIOUS
<1>1. CASE NewPebbleStore  BY <1>1, AnyOpenStep
<1>2. CASE NextBatch  BY <1>2, AnyBatchStep
<1>3. CASE SkipBlock \/ StartBlock \/ StartAnyBlock \/ FinishBlock  BY <1>3, AnyBlockStep
<1>4. CASE Create  BY <1>4, AnyCreateStep
<1>5. CASE Update \/ ExtendBTL \/ ChangeOwner  BY <1>5, AnyChangeSteps
<1>6. CASE SkipUpdate \/ Remove  BY <1>6, AnySkipOrRemoveStep
<1>7. CASE CommitBatch  BY <1>7, AnyCommitStep
<1>8. CASE OperationFails \/ StorageFails \/ Crash \/ Close  BY <1>8, AnyFailureSteps
<1>9. CASE UNCHANGED vars
    <2>1. InBatch' = InBatch /\ BatchFollowsReplay' = BatchFollowsReplay
          /\ BlocksInOrder' = BlocksInOrder
        BY <1>9 DEF vars, InBatch, BatchFollowsReplay, BlocksInOrder
    <2> QED  BY <1>9, <2>1, AnyFacts, AnyConsistentNext DEF vars
<1> QED  BY <1>1, <1>2, <1>3, <1>4, <1>5, <1>6, <1>7, <1>8, <1>9
         DEF AnyNext, Next, Follow, Operation

(* Whatever blocks contain, the records of database and batch stay in step *)
(* and no entity goes missing from the index.                              *)
THEOREM AnyConsistentAlways == AnySpec => []AnyConsistent
<1>1. Init => AnyConsistent  BY InitAny
<1>2. AnyConsistent /\ [AnyNext]_vars => AnyConsistent'  BY AnyNextConsistent
<1> QED  BY <1>1, <1>2, PTL DEF AnySpec

(* A query never misses an entity, whatever was created in its place.      *)
THEOREM IndexAlwaysComplete == AnySpec => []IndexComplete
<1>1. AnyConsistent => IndexComplete  BY DEF AnyConsistent
<1> QED  BY <1>1, AnyConsistentAlways, PTL

(* Re-creating an entity leaves no record of the old one behind.           *)
THEOREM AnyPayloadsAlwaysConsistent == AnySpec => []PayloadsConsistent
<1>1. AnyConsistent => PayloadsConsistent  BY DEF AnyConsistent
<1> QED  BY <1>1, AnyConsistentAlways, PTL

(* And it is not counted twice.                                            *)
THEOREM AnyEntityCountAlwaysExact == AnySpec => []EntityCountExact
<1>1. AnyConsistent => EntityCountExact  BY DEF AnyConsistent
<1> QED  BY <1>1, AnyConsistentAlways, PTL

(* A block that a commit included is never applied again.                  *)
THEOREM AnyStoredBlocksAlwaysSkipped == AnySpec => []ProcessedBlocksSkipped
<1>1. ASSUME AnyConsistent  PROVE ProcessedBlocksSkipped
    BY <1>1, AnyFacts DEF ProcessedBlocksSkipped, InBatch, BlocksInOrder
<1> QED  BY <1>1, AnyConsistentAlways, PTL

(* What a write to the database does to its ids.                           *)
LEMMA AnyWriteFacts ==
    ASSUME AnyConsistent, [AnyNext]_vars
    PROVE  [NewIdsOnly]_db
<1> SUFFICES ASSUME db' # db  PROVE NewIdsOnly
    OBVIOUS
<1>1. PersistedNextID(db) \in Nat
    BY AnyFacts
<1>2. CASE NewPebbleStore
    <2>1. db'.pay = db.pay /\ PersistedNextID(db') = PersistedNextID(db)
        BY <1>2, AnyFacts, OpenKeepsComplete DEF NewPebbleStore
    <2> QED  BY <1>1, <2>1 DEF NewIdsOnly
<1>3. CASE CommitBatch
    <2>1. InBatch  BY <1>3 DEF CommitBatch, InBatch
    <2>2. Adds(db, pBatch)  BY <2>1, AnyFacts
    <2>3. IsView(pBatch)  BY AnyFacts
    <2>4. PersistedNextID(pBatch) \in Nat
        BY <2>3, MetaNat DEF PersistedNextID
    <2>5. db'.pay = pBatch.pay /\ PersistedNextID(db') = PersistedNextID(pBatch)
        BY <1>3, AnyCommitted
    <2> QED  BY <1>1, <2>2, <2>4, <2>5 DEF NewIdsOnly, Adds
<1> QED  BY <1>2, <1>3, DatabaseWriters

(* An id that the database has counted past is never given to an entity    *)
(* that does not have it.                                                  *)
THEOREM AnyIdsAreNeverReused == AnySpec => IdsNeverReused
<1>1. AnyConsistent /\ [AnyNext]_vars => [NewIdsOnly]_db
    BY AnyWriteFacts
<1> QED  BY <1>1, AnyConsistentAlways, PTL DEF AnySpec, IdsNeverReused

-----------------------------------------------------------------------------
(* The ledger: the follower implements it whatever blocks contain          *)

(* The ledger module's own copies of the events mean the same.             *)
LEMMA LedgerEffect ==
    ASSUME NEW f, NEW op, NEW n
    PROVE  Ledger!Effect(f, op, n) = Effect(f, op, n)
    BY DEF Ledger!Effect, Ledger!Put, Ledger!Del, Ledger!NewRow, Ledger!UpdatedRow,
           Ledger!ExtendedRow, Ledger!ReownedRow, Ledger!Sequence,
           Ledger!ExpirationAfter,
           Effect, Put, Del, NewRow, UpdatedRow, ExtendedRow, ReownedRow, Sequence,
           ExpirationAfter

(* So do its types.                                                        *)
LEMMA LedgerTypes == Ledger!Op = Op /\ Ledger!Row = Row
    BY DEF Ledger!Op, Ledger!CreateOp, Ledger!UpdateOp, Ledger!RemoveOp,
           Ledger!ExtendOp, Ledger!ChangeOwnerOp, Ledger!UnknownOp, Ledger!Index,
           Ledger!Row, Op, CreateOp, UpdateOp, RemoveOp, ExtendOp, ChangeOwnerOp,
           UnknownOp, Index, Row

(* Outside a batch the ledger is at rest.                                  *)
LEMMA AtRest ==
    /\ ~InBatch => BlockAt = GetLastBlock(db) + 1 /\ ~BlockOpen
    /\ ~InBatch' => BlockAt' = GetLastBlock(db') + 1 /\ ~BlockOpen'
    BY DEF InBatch, BlockAt, BlockOpen

(* A new store is a ledger at rest.                                        *)
LEMMA LedgerInit == Init => Ledger!Init
<1> SUFFICES ASSUME Init  PROVE Ledger!Init
    OBVIOUS
<1>1. AnyConsistent  BY InitAny
<1>2. phase = "closed" /\ replayed = Entities(db)
    BY DEF Init, NoBatch
<1>3. StoredComplete(db)
    BY <1>1, AnyFacts
<1>4. GetLastBlock(db) \in Nat
    BY <1>3, MetaNat DEF GetLastBlock, StoredComplete
<1>5. /\ Entities(db) \in [DOMAIN Entities(db) -> Row]
      /\ DOMAIN Entities(db) \subseteq Key
    BY <1>3, EntitiesFacts DEF StoredComplete
<1>6. BlockAt = GetLastBlock(db) + 1 /\ ~BlockOpen
    BY <1>2, AtRest DEF InBatch
<1> QED  BY <1>2, <1>4, <1>5, <1>6, LedgerTypes DEF Ledger!Init, Ledger!Rest

(* Applying an operation is executing it.                                  *)
LEMMA OperationExecutes ==
    ASSUME AnyConsistent, NEW types, AtOperation(types), NextOperation
    PROVE  Ledger!Next
<1>1. /\ phase = "block" /\ InBatch /\ pos \in 1 .. Len(ops) /\ current \in Op
    BY AtAnyOperation
<1>2. BlocksInOrder /\ blk \in Nat /\ lastBlockFromDB \in Nat
    BY <1>1, AnyFacts
<1>3. /\ pos' = pos + 1 /\ replayed' = Effect(replayed, current, blk)
      /\ UNCHANGED <<db, phase, lastBlockFromDB, blk>>
    BY DEF NextOperation
<1>4. BlockAt = blk /\ BlockAt' = blk
    BY <1>1, <1>2, <1>3 DEF BlockAt, BlocksInOrder
<1>5. BlockOpen'
    BY <1>1, <1>3 DEF BlockOpen
<1>6. replayed' = Ledger!Effect(replayed, current, BlockAt)
    BY <1>3, <1>4, LedgerEffect
<1>7. UNCHANGED <<Entities(db), GetLastBlock(db)>>
    BY <1>3
<1>8. BlockOpen' = TRUE
    BY <1>5 DEF BlockOpen
<1>9. Ledger!Execute(current)
    BY <1>4, <1>6, <1>7, <1>8 DEF Ledger!Execute
<1>10. current \in Ledger!Op
    BY <1>1, LedgerTypes
<1> QED  BY <1>9, <1>10 DEF Ledger!Next

(* Forgetting the batch is abandoning what was executed.                   *)
LEMMA DropAbandons ==
    ASSUME DropBatch(db), UNCHANGED db, phase' \in {"idle", "closed"}
    PROVE  Ledger!Next
<1>1. ~InBatch'  BY DEF InBatch
<1>2. replayed' = Entities(db) /\ UNCHANGED <<Entities(db), GetLastBlock(db)>>
    BY DEF DropBatch
<1>3. BlockAt' = GetLastBlock(db) + 1 /\ BlockOpen' = FALSE
    <2>1. BlockAt' = GetLastBlock(db') + 1 /\ ~BlockOpen'  BY <1>1, AtRest
    <2> QED  BY <2>1 DEF BlockOpen
<1>4. Ledger!Abandon
    BY <1>2, <1>3 DEF Ledger!Abandon
<1> QED  BY <1>4 DEF Ledger!Next

(* Every step of the follower is a step of the ledger, or leaves it alone. *)
LEMMA LedgerStep ==
    ASSUME AnyConsistent, [AnyNext]_vars
    PROVE  [Ledger!Next]_(Ledger!ledgerVars)
<1>0. /\ StoredComplete(db) /\ GetLastBlock(db) \in Nat
      /\ blk \in Nat /\ lastBlock \in Nat /\ lastBlockFromDB \in Nat
      /\ InBatch => BlocksInOrder
    BY AnyFacts, MetaNat DEF GetLastBlock, StoredComplete
<1>s. ASSUME UNCHANGED <<Entities(db), GetLastBlock(db), replayed, BlockAt, BlockOpen>>
      PROVE  [Ledger!Next]_(Ledger!ledgerVars)
    BY <1>s DEF Ledger!ledgerVars
<1>1. CASE NewPebbleStore
    <2>1. Entities(db') = Entities(db) /\ GetLastBlock(db') = GetLastBlock(db)
        BY <1>0, <1>1, OpenKeepsComplete DEF NewPebbleStore
    <2>2. replayed' = replayed /\ ~InBatch /\ ~InBatch'
        BY <1>1 DEF NewPebbleStore, batchVars, InBatch
    <2>3. UNCHANGED <<BlockAt, BlockOpen>>
        <3>1. BlockOpen = FALSE /\ BlockOpen' = FALSE
            BY <2>2, AtRest DEF BlockOpen
        <3> QED  BY <2>1, <2>2, <3>1, AtRest
    <2> QED  BY <1>s, <2>1, <2>2, <2>3
<1>2. ASSUME NEW first \in 1 .. MaxBlock, NEW final \in 1 .. MaxBlock,
             TakeBatch(first, final)
      PROVE  [Ledger!Next]_(Ledger!ledgerVars)
    <2>1. /\ phase = "idle" /\ phase' = "batch" /\ first <= GetLastBlock(db) + 1
          /\ lastBlockFromDB' = GetLastBlock(db) /\ blk' = first
          /\ UNCHANGED <<db, replayed>>
        BY <1>2 DEF TakeBatch
    <2>2. first \in Nat  BY BoundsAssumption
    <2>3. BlockAt = GetLastBlock(db) + 1 /\ BlockAt' = GetLastBlock(db) + 1
        BY <1>0, <2>1, <2>2 DEF BlockAt
    <2>4. BlockOpen = FALSE /\ BlockOpen' = FALSE
        BY <2>1 DEF BlockOpen
    <2> QED  BY <1>s, <2>1, <2>3, <2>4
<1>3. CASE SkipBlock
    <2>1. /\ phase = "batch" /\ blk <= lastBlockFromDB /\ blk' = blk + 1
          /\ UNCHANGED <<db, phase, lastBlockFromDB, replayed>>
        BY <1>3 DEF SkipBlock, IsProcessed
    <2>2. lastBlockFromDB = GetLastBlock(db)
        BY <1>0, <2>1 DEF InBatch, BlocksInOrder
    <2>3. BlockAt = GetLastBlock(db) + 1 /\ BlockAt' = GetLastBlock(db) + 1
        BY <1>0, <2>1, <2>2 DEF BlockAt
    <2>4. BlockOpen = FALSE /\ BlockOpen' = FALSE
        BY <2>1 DEF BlockOpen
    <2> QED  BY <1>s, <2>1, <2>3, <2>4
<1>4. CASE StartBlock \/ StartAnyBlock
    <2>1. /\ phase = "batch" /\ phase' = "block" /\ pos' = 1
          /\ UNCHANGED <<db, blk, lastBlockFromDB, replayed>>
        BY <1>4 DEF StartBlock, StartAnyBlock
    <2>2. BlockAt' = BlockAt  BY <2>1 DEF BlockAt
    <2>3. BlockOpen = FALSE /\ BlockOpen' = FALSE
        BY <2>1 DEF BlockOpen
    <2> QED  BY <1>s, <2>1, <2>2, <2>3
<1>5. CASE Create \/ SkipUpdate \/ Update \/ Remove \/ ExtendBTL \/ ChangeOwner
    BY <1>5, OperationExecutes
       DEF Create, SkipUpdate, Update, Remove, ExtendBTL, ChangeOwner
<1>6. CASE FinishBlock
    <2>1. /\ phase = "block" /\ phase' = "batch" /\ blk' = blk + 1
          /\ UNCHANGED <<db, lastBlockFromDB, replayed>>
        BY <1>6 DEF FinishBlock
    <2>2. lastBlockFromDB < blk
        BY <1>0, <2>1 DEF InBatch, BlocksInOrder
    <2>3. BlockAt = blk /\ BlockAt' = blk + 1
        BY <1>0, <2>1, <2>2 DEF BlockAt
    <2>4. BlockOpen' = FALSE
        BY <2>1 DEF BlockOpen
    <2>5. Ledger!Seal
        BY <2>1, <2>3, <2>4 DEF Ledger!Seal
    <2> QED  BY <2>5 DEF Ledger!Next
<1>7. CASE CommitBatch
    <2>1. /\ phase = "batch" /\ phase' = "idle" /\ blk > lastBlock
          /\ replayed' = Entities(db')
        BY <1>7 DEF CommitBatch, DropBatch
    <2>2. blk = lastBlock + 1 /\ lastBlockFromDB < blk
        BY <1>0, <2>1 DEF InBatch, BlocksInOrder
    <2>3. BlockAt = lastBlock + 1 /\ ~BlockOpen
        BY <1>0, <2>1, <2>2 DEF BlockAt, BlockOpen
    <2>4. Entities(db') = replayed /\ GetLastBlock(db') = lastBlock
        BY <1>7, AnyCommitted
    <2>5. BlockAt' = lastBlock + 1 /\ ~BlockOpen'
        BY <2>1, <2>4, AtRest DEF InBatch
    <2>6. GetLastBlock(db') = BlockAt - 1
        BY <1>0, <2>3, <2>4
    <2>7. UNCHANGED <<replayed, BlockAt, BlockOpen>>
        <3>1. BlockOpen = FALSE /\ BlockOpen' = FALSE
            BY <2>1 DEF BlockOpen
        <3> QED  BY <2>1, <2>3, <2>4, <2>5, <3>1
    <2>8. Ledger!Publish
        BY <2>3, <2>4, <2>6, <2>7 DEF Ledger!Publish
    <2> QED  BY <2>8 DEF Ledger!Next
<1>8. CASE OperationFails \/ StorageFails \/ Crash
    BY <1>8, DropAbandons DEF OperationFails, StorageFails, ReturnError, Crash
<1>9. CASE Close
    <2>1. /\ phase = "idle" /\ phase' = "closed" /\ UNCHANGED <<db, replayed>>
        BY <1>9 DEF Close, batchVars
    <2>2. UNCHANGED <<BlockAt, BlockOpen>>
        BY <2>1 DEF BlockAt, BlockOpen
    <2> QED  BY <1>s, <2>1, <2>2
<1>10. CASE UNCHANGED vars
    BY <1>10, <1>s DEF vars, BlockAt, BlockOpen
<1> QED  BY <1>1, <1>2, <1>3, <1>4, <1>5, <1>6, <1>7, <1>8, <1>9, <1>10
         DEF AnyNext, Next, NextBatch, Follow, Operation

(* Readers of the database see whole blocks, each once and in order, with  *)
(* the effect of every operation, whatever the batching, the skipped       *)
(* updates, the errors and the crashes; also when creates replace entities *)
(* that exist, before or after updates that are skipped.                   *)
THEOREM AnyFollowerImplementsLedger == AnySpec => ImplementsLedger
<1>1. Init => Ledger!Init  BY LedgerInit
<1>2. AnyConsistent /\ [AnyNext]_vars => [Ledger!Next]_(Ledger!ledgerVars)
    BY LedgerStep
<1> QED  BY <1>1, <1>2, AnyConsistentAlways, PTL
         DEF AnySpec, ImplementsLedger, Ledger!Spec

(* In particular when no create does.                                      *)
THEOREM FollowerImplementsLedger == Spec => ImplementsLedger
<1>1. [Next]_vars => [AnyNext]_vars  BY DEF AnyNext
<1> QED  BY <1>1, AnyFollowerImplementsLedger, PTL DEF Spec, AnySpec
=============================================================================
