------------------------ MODULE FollowAndQueryProofs ------------------------
(***************************************************************************)
(* Queries on the follower's database select the entities of whose records *)
(* they are true; and to a query, the follower is a CommittedStore.        *)
(***************************************************************************)
EXTENDS FollowAndQuery, FollowEventsProofs

(* The committed database is one that queries may read.                    *)
LEMMA ConsistentReadable == Consistent => Readable(db)
    BY ConsistentFacts DEF Readable, Consistent, TypeOK, PayloadsConsistent, SecondaryIndexExact

(* Every answer from the index is the answer over the records, in every    *)
(* state the database is ever in.                                          *)
THEOREM AnswersAlwaysExact == Spec => []AnswersExact
<1>1. ASSUME Consistent  PROVE AnswersExact
    <2>1. Readable(db)  BY <1>1, ConsistentReadable
    <2> QED  BY <2>1, EvaluationIsAnswer, QueriesAssumption DEF AnswersExact
<1> QED  BY <1>1, ConsistentAlways, PTL
-----------------------------------------------------------------------------
(* The committed store                                                     *)

(* As long as only stored blocks were skipped, the batch is the database.  *)
Untouched ==
    phase = "batch" /\ blk <= lastBlockFromDB + 1 => pBatch = db /\ cache = EmptyMap

(* No batch is open at first.                                             *)
LEMMA UntouchedInit == Init => Untouched
    BY DEF Init, Untouched

(* Skipping blocks writes nothing.                                        *)
LEMMA UntouchedNext == Consistent /\ Untouched /\ [Next]_vars => Untouched'
<1> SUFFICES ASSUME Consistent, Untouched, [Next]_vars, phase' = "batch",
                    blk' <= lastBlockFromDB' + 1
             PROVE  pBatch' = db' /\ cache' = EmptyMap
    BY DEF Untouched
<1>1. /\ lastBlockFromDB \in Nat /\ blk \in Nat
      /\ phase = "block" => lastBlockFromDB < blk
    BY ConsistentFacts DEF InBatch, BlocksInOrder
<1>2. CASE NextBatch  BY <1>2 DEF NextBatch, TakeBatch
<1>3. CASE SkipBlock
    <2>1. blk <= lastBlockFromDB + 1  BY <1>1, <1>3 DEF SkipBlock, IsProcessed
    <2> QED  BY <1>3, <2>1 DEF SkipBlock, Untouched
<1>4. CASE FinishBlock  BY <1>1, <1>4 DEF FinishBlock
<1>5. CASE UNCHANGED vars  BY <1>5 DEF vars, Untouched
<1>6. CASE StartBlock \/ CommitBatch \/ NewPebbleStore \/ Crash \/ Close
    BY <1>6 DEF StartBlock, CommitBatch, NewPebbleStore, Crash, Close
<1>7. CASE OperationFails \/ StorageFails
    BY <1>7 DEF OperationFails, StorageFails, ReturnError
<1>8. CASE Create \/ SkipUpdate \/ Update \/ Remove \/ ExtendBTL \/ ChangeOwner
    BY <1>8 DEF Create, SkipUpdate, Update, Remove, ExtendBTL, ChangeOwner,
                AtOperation, NextOperation
<1> QED  BY <1>2, <1>3, <1>4, <1>5, <1>6, <1>7, <1>8 DEF Next, Follow, Operation

(* A write to the database raises the block number, or leaves everything a *)
(* query can see as it is.                                                 *)
LEMMA WriteRaisesHeight ==
    ASSUME Consistent, Untouched, [Next]_vars, db' # db
    PROVE  \/ GetLastBlock(db') > GetLastBlock(db)
           \/ /\ GetLastBlock(db') = GetLastBlock(db)
              /\ PersistedNextID(db') = PersistedNextID(db)
              /\ db'.pay = db.pay
<1>1. CASE NewPebbleStore
    BY <1>1, ConsistentFacts, OpenFacts DEF NewPebbleStore
<1>2. CASE CommitBatch
    <2>1. /\ BlocksInOrder /\ blk > lastBlock /\ phase = "batch"
          /\ lastBlock \in Nat /\ lastBlockFromDB \in Nat /\ blk \in Nat
        BY <1>2, ConsistentFacts DEF CommitBatch, InBatch
    <2>2. /\ db'.pay = pBatch.pay /\ GetLastBlock(db') = lastBlock
          /\ PersistedNextID(db') = PersistedNextID(pBatch)
        BY <1>2, Committed
    <2>3. CASE lastBlock > lastBlockFromDB
        BY <2>1, <2>2, <2>3 DEF BlocksInOrder
    <2>4. CASE lastBlock = lastBlockFromDB
        <3>1. pBatch = db  BY <2>1, <2>4 DEF Untouched, BlocksInOrder
        <3> QED  BY <2>1, <2>2, <2>4, <3>1 DEF BlocksInOrder
    <2> QED  BY <2>1, <2>3, <2>4 DEF BlocksInOrder
<1> QED  BY <1>1, <1>2, DatabaseWriters DEF AnyNext

(* What a query sees: ids below the counter, and exact answers.            *)
AnswersBelowCounter ==
    /\ \A q \in Queries : evaluateAST(db, q) = Answer(db, q)
    /\ \A q \in Queries : Answer(db, q) \subseteq DOMAIN db.pay
    /\ DOMAIN db.pay \subseteq {id \in Nat : id < PersistedNextID(db)}
    /\ GetLastBlock(db) \in Nat /\ PersistedNextID(db) \in Nat

(* The invariant of the follower bounds what a query sees.                 *)
LEMMA AnswerFacts == Consistent => AnswersBelowCounter
<1> SUFFICES ASSUME Consistent  PROVE AnswersBelowCounter
    OBVIOUS
<1>1. Readable(db) /\ IsView(db)  BY ConsistentReadable DEF Readable
<1>2. \A q \in Queries : evaluateAST(db, q) = Answer(db, q)
    BY <1>1, EvaluationIsAnswer, QueriesAssumption
<1>3. GetLastBlock(db) \in Nat /\ PersistedNextID(db) \in Nat
    BY <1>1, MetaNat DEF GetLastBlock, PersistedNextID
<1>4. IdsBelow(db, PersistedNextID(db))
    BY DEF Consistent, IdsNotReallocated
<1>5. DOMAIN db.pay \subseteq Nat  BY <1>1 DEF IsView
<1>6. \A q \in Queries : Answer(db, q) \subseteq DOMAIN db.pay  BY DEF Answer
<1> QED  BY <1>2, <1>3, <1>4, <1>5, <1>6 DEF AnswersBelowCounter, IdsBelow

(* What a query sees is a state a CommittedStore may open in.              *)
LEMMA VisibleOpen ==
    ASSUME Consistent, NEW q \in Queries  PROVE Visible(q)!Open
    BY AnswerFacts DEF Visible!Open, AnswersBelowCounter

(* Every write to the database is a commit of the store a query sees.      *)
LEMMA WriteIsVisibleStep ==
    ASSUME Consistent, AnswersBelowCounter, AnswersBelowCounter', Untouched,
           [Next]_vars, db' # db, NEW q \in Queries
    PROVE  VisibleStep(q)
<1>1. /\ evaluateAST(db, q) = Answer(db, q) /\ evaluateAST(db', q) = Answer(db', q)
      /\ Answer(db', q) \subseteq DOMAIN db'.pay
      /\ DOMAIN db'.pay \subseteq {id \in Nat : id < PersistedNextID(db')}
      /\ GetLastBlock(db') \in Nat /\ PersistedNextID(db') \in Nat
    BY DEF AnswersBelowCounter
<1>2. NewIdsOnly  BY WriteFacts
<1>3. CASE GetLastBlock(db') > GetLastBlock(db)
    <2>1. DOMAIN db'.pay \subseteq
              DOMAIN db.pay \cup {id \in Nat : PersistedNextID(db) <= id
                                               /\ id < PersistedNextID(db')}
        BY <1>1, <1>2 DEF NewIdsOnly
    <2>2. Visible(q)!StoreCommit
        BY <1>1, <1>2, <1>3, <2>1 DEF NewIdsOnly, Visible!StoreCommit, Visible!Allocated
    <2> QED  BY <2>2 DEF VisibleStep
<1>4. CASE /\ GetLastBlock(db') = GetLastBlock(db)
           /\ PersistedNextID(db') = PersistedNextID(db)
           /\ db'.pay = db.pay
    <2>1. Answer(db', q) = Answer(db, q)  BY <1>4 DEF Answer
    <2> QED  BY <1>1, <1>4, <2>1 DEF VisibleStep, Visible!database
<1> QED  BY <1>3, <1>4, WriteRaisesHeight

(* To any query, the follower is a committed store.                        *)
THEOREM FollowerImplementsCommittedStore == Spec => ImplementsCommittedStore
<1>1. Init => Untouched  BY UntouchedInit
<1>2. Init => Consistent  BY InitConsistent
<1>3. Consistent => \A q \in Queries : Visible(q)!Open  BY VisibleOpen
<1>4. Consistent /\ Untouched /\ [Next]_vars => Untouched'  BY UntouchedNext
<1>5. Consistent /\ AnswersBelowCounter /\ AnswersBelowCounter' /\ Untouched
          /\ [Next]_vars => [\A q \in Queries : VisibleStep(q)]_db
    BY WriteIsVisibleStep
<1>6. Consistent => AnswersBelowCounter  BY AnswerFacts
<1> QED  BY <1>1, <1>2, <1>3, <1>4, <1>5, <1>6, ConsistentAlways, PTL
         DEF Spec, ImplementsCommittedStore
=============================================================================
