---------------------------- MODULE FollowEvents ----------------------------
(***************************************************************************)
(* PebbleStore.FollowEvents, NewPebbleStore and Close: the one writer of   *)
(* the database.  The follower takes batches of blocks from an iterator,   *)
(* applies their operations to an indexed batch and a bitmap cache, and    *)
(* commits both with the new last block number in one synced write.  An    *)
(* error drops the batch and ends FollowEvents; the caller may call it     *)
(* again on the same store.  A crash loses everything but the database.    *)
(***************************************************************************)
EXTENDS PebbleStore

CONSTANTS
    BlockContents,  \* the operation sequences a block may carry
    MaxBlock,       \* bound: the last block number the source produces
    MaxBatch,       \* bound: blocks in one batch
    MaxFailures     \* bound: errors and crashes in a behaviour

ASSUME BlockContentsAssumption == BlockContents \subseteq Seq(Op)

ASSUME BoundsAssumption ==
    /\ MaxBlock \in Nat \ {0}
    /\ MaxBatch \in Nat \ {0}
    /\ MaxFailures \in Nat

(* What the order of ids needs of the chain, and no other property: the    *)
(* creates of a block come in the order of their positions ...             *)
CreatesAscend(s, from) ==
    \A i, j \in from .. Len(s) :
        i < j /\ s[i].type = "create" /\ s[j].type = "create" =>
            s[i].tx < s[j].tx \/ (s[i].tx = s[j].tx /\ s[i].idx < s[j].idx)

PositionsAscend == \A s \in BlockContents : CreatesAscend(s, 1)

(* ... and no block number is so large that its $sequence does not fit.    *)
SequencesFit == (MaxBlock + 1) * IndexBase * IndexBase <= Wrap

VARIABLES
    db,               \* the database: committed, and durable (pebble.Sync)
    nextIDVal,        \* PebbleStore.nextIDVal
    phase,            \* where the follower is, see Phase
    pBatch,           \* the indexed batch, as the view it shows
    cache,            \* the bitmap cache of the batch
    lastBlockFromDB,  \* read once per batch
    blk,              \* number of the batch's current block
    lastBlock,        \* number of the batch's last block
    ops,              \* operations of the current block
    pos,              \* the operation of ops to apply next
    replayed,         \* history: Entities after the operations so far, taken
                      \* one by one from Entities(db) when the batch began
    peak,             \* history: the highest block number ever committed
    failures          \* errors and crashes so far (bounded by MaxFailures)

store == <<db, nextIDVal>>
batchVars == <<pBatch, cache, lastBlockFromDB, blk, lastBlock, ops, pos, replayed>>
vars == <<db, nextIDVal, phase, pBatch, cache, lastBlockFromDB, blk, lastBlock,
          ops, pos, replayed, peak, failures>>

(* "closed"  no PebbleStore is open                                        *)
(* "idle"    open, waiting for the iterator's next batch, or not following *)
(* "batch"   in the loop over blocks                                       *)
(* "block"   in the loop over the operations of block blk                  *)
Phase == {"closed", "idle", "batch", "block"}

-----------------------------------------------------------------------------
(* A new database is empty.  A database written before the entity count    *)
(* was kept has no 0x07 key: here one with the entity of one create, in    *)
(* block 1.                                                                *)
LegacyView(op) ==
    LET row == NewRow(op, 1)
    IN  [cur  |-> Put(EmptyMap, op.key, 1),
         pay  |-> Put(EmptyMap, 1, row),
         bm   |-> [p \in IndexKeys(row) |-> {1}],
         meta |-> Put(Put(EmptyMap, "lastBlock", 1), "idCounter", 2)]

NoBatch(view) ==
    /\ pBatch = EmptyView
    /\ cache = EmptyMap
    /\ lastBlockFromDB = 0
    /\ blk = 0
    /\ lastBlock = 0
    /\ ops = <<>>
    /\ pos = 1
    /\ replayed = Entities(view)

Init ==
    /\ \/ db = EmptyView
       \/ \E content \in BlockContents :
             /\ Len(content) = 1
             /\ content[1].type = "create"
             /\ db = LegacyView(content[1])
    /\ nextIDVal = 1
    /\ phase = "closed"
    /\ NoBatch(db)
    /\ peak = GetLastBlock(db)
    /\ failures = 0

-----------------------------------------------------------------------------
(* NewPebbleStore: loads the id counter, and counts the entities of a      *)
(* database that has no count yet.                                         *)
NewPebbleStore ==
    /\ phase = "closed"
    /\ phase' = "idle"
    /\ nextIDVal' = LoadNextID(db)
    /\ db' = IF "entityCount" \in DOMAIN db.meta
             THEN db
             ELSE SetEntityCount(db, CountEntitiesByScan(db))
    /\ UNCHANGED <<batchVars, peak, failures>>

(* FollowEvents takes a batch with the blocks first..final.  The source    *)
(* leaves no block out (a block without events is as good as absent), may  *)
(* repeat blocks that are already stored, and in that case continues at    *)
(* least to the last of them: see RewindBatch for what happens otherwise.  *)
TakeBatch(first, final) ==
    /\ phase = "idle"
    /\ failures <= MaxFailures
    /\ first <= final
    /\ final - first < MaxBatch
    /\ first <= GetLastBlock(db) + 1
    /\ phase' = "batch"
    /\ pBatch' = db
    /\ cache' = EmptyMap
    /\ lastBlockFromDB' = GetLastBlock(db)
    /\ blk' = first
    /\ lastBlock' = final
    /\ UNCHANGED <<db, nextIDVal, ops, pos, replayed, peak, failures>>

NextBatch ==
    \E first, final \in 1 .. MaxBlock :
        final >= GetLastBlock(db) /\ TakeBatch(first, final)

(* The source starts over and repeats a batch that ends before the last    *)
(* stored block, as cmd/load-from-tar does when it is run again.           *)
RewindBatch ==
    \E first, final \in 1 .. MaxBlock :
        final < GetLastBlock(db) /\ TakeBatch(first, final)

(* Slip: takes the last stored block for a new one.                        *)
IsProcessedEarlier(n) == n < lastBlockFromDB
IsProcessed(n) == n <= lastBlockFromDB

SkipBlock ==
    /\ phase = "batch"
    /\ blk <= lastBlock
    /\ IsProcessed(blk)
    /\ blk' = blk + 1
    /\ UNCHANGED <<db, nextIDVal, phase, pBatch, cache, lastBlockFromDB,
                   lastBlock, ops, pos, replayed, peak, failures>>

StartBlock ==
    /\ phase = "batch"
    /\ blk <= lastBlock
    /\ ~IsProcessed(blk)
    /\ ops' \in BlockContents
    /\ FreshCreates(ops', 1, DOMAIN replayed)
    /\ pos' = 1
    /\ phase' = "block"
    /\ UNCHANGED <<db, nextIDVal, pBatch, cache, lastBlockFromDB, blk,
                   lastBlock, replayed, peak, failures>>

-----------------------------------------------------------------------------
(* The operation loop.                                                     *)
current == ops[pos]

(* Slip: the first update of a key in a block is applied, not the last.    *)
IsFirstUpdate(i) == \A j \in 1 .. i - 1 : ~IsUpdate(ops[j], ops[i].key)

(* updatesMap: only the last update of a key in a block is applied.        *)
IsLastUpdate(i) ==
    \A j \in i + 1 .. Len(ops) : ~IsUpdate(ops[j], ops[i].key)

AtOperation(types) ==
    /\ phase = "block"
    /\ pos <= Len(ops)
    /\ current.type \in types

NextOperation ==
    /\ pos' = pos + 1
    /\ replayed' = Effect(replayed, current, blk)
    /\ UNCHANGED <<db, phase, lastBlockFromDB, blk, lastBlock, ops, peak,
                   failures>>

(* UpsertPayload of row, with its effect on the id counter.                *)
StorePayload(row) ==
    /\ pBatch' = UpsertPayload(pBatch, nextIDVal, row)
    /\ nextIDVal' = IF row.key \in DOMAIN pBatch.cur
                    THEN nextIDVal ELSE nextIDVal + 1

Create ==
    /\ AtOperation({"create"})
    /\ LET row == NewRow(current, blk)
           id  == UpsertID(pBatch, current.key, nextIDVal)
       IN  /\ StorePayload(row)
           /\ cache' = AddToBitmaps(cache, pBatch, IndexKeys(row), id)
    /\ NextOperation

SkipUpdate ==
    /\ AtOperation({"update"})
    /\ ~IsLastUpdate(pos)
    /\ NextOperation
    /\ UNCHANGED <<nextIDVal, pBatch, cache>>

(* The bitmaps after record old of id has become row.                      *)
Refile(old, row, id) ==
    AddToBitmaps(RemoveFromBitmaps(cache, pBatch, IndexKeys(old), id),
                 pBatch, IndexKeys(row), id)

Update ==
    /\ AtOperation({"update"})
    /\ IsLastUpdate(pos)
    /\ HasCurrentPayload(pBatch, current.key)
    /\ LET old == GetCurrentPayloadForEntityKey(pBatch, current.key)
           row == UpdatedRow(old, current, blk)
           id  == UpsertID(pBatch, current.key, nextIDVal)
       IN  /\ StorePayload(row)
           /\ cache' = Refile(old, row, id)
    /\ NextOperation

Remove ==
    /\ AtOperation({"delete", "expire"})
    /\ HasCurrentPayload(pBatch, current.key)
    /\ ~EntityCountUnderflow(pBatch)
    /\ LET old == GetCurrentPayloadForEntityKey(pBatch, current.key)
       IN  cache' = RemoveFromBitmaps(cache, pBatch, IndexKeys(old),
                                      pBatch.cur[current.key])
    /\ pBatch' = DeletePayloadForEntityKey(pBatch, current.key)
    /\ NextOperation
    /\ UNCHANGED nextIDVal

(* Slip: adds before it removes, which loses the id if the keys are equal. *)
RefileOneAddFirst(oldKey, newKey, id) ==
    RemoveFromBitmaps(AddToBitmaps(cache, pBatch, {newKey}, id),
                      pBatch, {oldKey}, id)

(* ExtendBTL and ChangeOwner refile the entity under one attribute only.   *)
RefileOne(oldKey, newKey, id) ==
    AddToBitmaps(RemoveFromBitmaps(cache, pBatch, {oldKey}, id),
                 pBatch, {newKey}, id)

ExtendBTL ==
    /\ AtOperation({"extendBTL"})
    /\ HasCurrentPayload(pBatch, current.key)
    /\ LET old == GetCurrentPayloadForEntityKey(pBatch, current.key)
           row == ExtendedRow(old, current)
           id  == UpsertID(pBatch, current.key, nextIDVal)
       IN  /\ StorePayload(row)
           /\ cache' = RefileOne(ExpirationKey(old), ExpirationKey(row), id)
    /\ NextOperation

ChangeOwner ==
    /\ AtOperation({"changeOwner"})
    /\ HasCurrentPayload(pBatch, current.key)
    /\ LET old == GetCurrentPayloadForEntityKey(pBatch, current.key)
           row == ReownedRow(old, current)
           id  == UpsertID(pBatch, current.key, nextIDVal)
       IN  /\ StorePayload(row)
           /\ cache' = RefileOne(OwnerKey(old), OwnerKey(row), id)
    /\ NextOperation

FinishBlock ==
    /\ phase = "block"
    /\ pos > Len(ops)
    /\ phase' = "batch"
    /\ blk' = blk + 1
    /\ ops' = <<>>
    /\ pos' = 1
    /\ UNCHANGED <<db, nextIDVal, pBatch, cache, lastBlockFromDB, lastBlock,
                   replayed, peak, failures>>

-----------------------------------------------------------------------------
(* The batch and its cache are gone (pBatch.Close, or the process died).   *)
DropBatch(view) ==
    /\ pBatch' = EmptyView
    /\ cache' = EmptyMap
    /\ lastBlockFromDB' = 0
    /\ blk' = 0
    /\ lastBlock' = 0
    /\ ops' = <<>>
    /\ pos' = 1
    /\ replayed' = Entities(view)

(* UpsertLastBlock, Flush and Commit(pebble.Sync).                         *)
CommitBatch ==
    /\ phase = "batch"
    /\ blk > lastBlock
    /\ db' = Flush(UpsertLastBlock(pBatch, lastBlock), cache)
    /\ peak' = IF lastBlock > peak THEN lastBlock ELSE peak
    /\ phase' = "idle"
    /\ DropBatch(db')
    /\ UNCHANGED <<nextIDVal, failures>>

(* FollowEvents returns an error; the store stays open and keeps its       *)
(* in-memory id counter.                                                   *)
ReturnError ==
    /\ phase' = "idle"
    /\ failures' = failures + 1
    /\ DropBatch(db)
    /\ UNCHANGED <<db, peak>>

(* The current operation cannot be applied: its type is unknown, its       *)
(* entity does not exist, or the entity count would underflow.             *)
Inapplicable ==
    current.type # "create" /\ (current.type # "unknown" =>
        /\ current.type = "update" => IsLastUpdate(pos)
        /\ HasCurrentPayload(pBatch, current.key) =>
              current.type \in {"delete", "expire"} /\ EntityCountUnderflow(pBatch))

OperationFails ==
    /\ phase = "block"
    /\ pos <= Len(ops)
    /\ Inapplicable
    /\ ReturnError
    /\ UNCHANGED nextIDVal

(* A read, a write or the commit fails in PebbleDB.  A create that fails   *)
(* after nextID has used up an id.                                         *)
StorageFails ==
    /\ phase \in {"batch", "block"}
    /\ failures < MaxFailures
    /\ ReturnError
    /\ \/ UNCHANGED nextIDVal
       \/ /\ AtOperation({"create"})
          /\ current.key \notin DOMAIN pBatch.cur
          /\ nextIDVal' = nextIDVal + 1

(* The process ends without Close, at any point.                           *)
Crash ==
    /\ phase # "closed"
    /\ failures < MaxFailures
    /\ failures' = failures + 1
    /\ phase' = "closed"
    /\ nextIDVal' = 1
    /\ DropBatch(db)
    /\ UNCHANGED <<db, peak>>

Close ==
    /\ phase = "idle"
    /\ phase' = "closed"
    /\ nextIDVal' = 1
    /\ UNCHANGED <<db, batchVars, peak, failures>>

-----------------------------------------------------------------------------
Operation == \/ Create \/ SkipUpdate \/ Update \/ Remove \/ ExtendBTL
             \/ ChangeOwner \/ OperationFails

Follow == \/ SkipBlock \/ StartBlock \/ Operation \/ FinishBlock \/ CommitBatch

Next == NewPebbleStore \/ NextBatch \/ Follow \/ StorageFails \/ Crash \/ Close

Spec == Init /\ [][Next]_vars

(* The source rewinds as well.                                             *)
RewindSpec == Init /\ [][Next \/ RewindBatch]_vars

(* Fairness: the follower's goroutine runs, a store that was closed or     *)
(* died is opened again, and a source that is asked often enough delivers  *)
(* a batch with a block that is not stored yet.  Errors, crashes and Close *)
(* are never required to happen.                                           *)
NewBlockBatch == NextBatch /\ lastBlock' > GetLastBlock(db)

FairSpec == Spec /\ WF_vars(Follow) /\ WF_vars(NewPebbleStore)
                 /\ SF_vars(NewBlockBatch)

-----------------------------------------------------------------------------
(* Properties                                                              *)

TypeOK ==
    /\ IsView(db)
    /\ IsView(pBatch)
    /\ cache \in [DOMAIN cache -> SUBSET Nat]
    /\ phase \in Phase
    /\ ops \in Seq(Op)
    /\ pos \in 1 .. Len(ops) + 1
    /\ {nextIDVal, lastBlockFromDB, blk, lastBlock, peak, failures} \subseteq Nat
    /\ replayed \in [DOMAIN replayed -> Row] /\ DOMAIN replayed \subseteq Key

(* Between batches, after any number of errors and crashes, pointers and   *)
(* payload records of the database correspond one to one: UpsertPayload    *)
(* and DeletePayloadForEntityKey never leave half of an entity behind.     *)
PayloadsConsistent == PointersMatchPayloads(db)

(* Every committed bitmap holds exactly the ids of the entities that have  *)
(* the attribute, and none is stored empty: the bitmap cache never loses,  *)
(* keeps or resurrects an id across updates, removals and re-creations in  *)
(* one batch, and queries may trust point lookups and scans of the index.  *)
SecondaryIndexExact == IndexExact(db)

(* GetNumberOfEntities of an open store is the number of entities, also on *)
(* a database from before the count existed.                               *)
EntityCountExact ==
    /\ CountExact(db)
    /\ phase # "closed" => "entityCount" \in DOMAIN db.meta

(* No id in the database can be handed out again, neither by the running   *)
(* store nor by one opened after a crash.                                  *)
IdsNotReallocated ==
    /\ IdsBelow(db, PersistedNextID(db))
    /\ phase # "closed" => PersistedNextID(db) <= nextIDVal

(* Newest first by id, the order of query pages, is newest first by        *)
(* $sequence: ids grow with the position of the create in the chain.       *)
AscendingSequences(v) ==
    \A i, j \in DOMAIN v.pay : i < j => v.pay[i].sequence < v.pay[j].sequence

IdOrderIsSequenceOrder == AscendingSequences(db)

(* A commit gives new entities ids that the database has never counted     *)
(* past, and never moves the counter back: an id of a removed entity is    *)
(* not used for another one, and a cursor stays valid.                     *)
NewIdsOnly ==
    /\ PersistedNextID(db') >= PersistedNextID(db)
    /\ \A id \in DOMAIN db'.pay \ DOMAIN db.pay : id >= PersistedNextID(db)

IdsNeverReused == [][NewIdsOnly]_db

(* What an entity was created with stays: across any commit an id keeps    *)
(* its key, creator, creation block, sequence and position in the block.   *)
CreationKeptByCommit ==
    \A id \in DOMAIN db.pay \cap DOMAIN db'.pay :
        SameCreation(db'.pay[id], db.pay[id])

CreationAttributesFixed == [][CreationKeptByCommit]_db

(* The block whose operations are applied next, and whether some have been.*)
BlockAt == IF phase \in {"batch", "block"} /\ blk > lastBlockFromDB
           THEN blk ELSE GetLastBlock(db) + 1
BlockOpen == phase = "block" /\ pos > 1

(* The database changes only to include whole blocks, each once and in     *)
(* order, with the effect of all their operations taken one by one, though *)
(* the code skips all but the last update of a key in a block.             *)
Ledger == INSTANCE EntityLedger WITH
    ledger  <- Entities(db),
    height  <- GetLastBlock(db),
    working <- replayed,
    at      <- BlockAt,
    open    <- BlockOpen

ImplementsLedger == Ledger!Spec

(* Already processed blocks are skipped: the operation loop is never       *)
(* entered for a block number that some earlier commit included.           *)
ProcessedBlocksSkipped == phase = "block" => blk > peak

(* Unless it fails more often than MaxFailures, the follower commits every *)
(* block the source has.                                                   *)
CatchesUp == <>(GetLastBlock(db) = MaxBlock \/ failures > MaxFailures)

-----------------------------------------------------------------------------
(* The invariant behind the properties: what holds inside a batch.         *)

(* The batch has the entities of the operations so far taken one by one,   *)
(* except that an entity with a pending update may lag behind in what the  *)
(* update will overwrite.                                                  *)
BatchFollowsReplay ==
    AgreeExcept(Entities(pBatch), replayed, PendingUpdates(ops, pos))

InBatch == phase \in {"batch", "block"}

BlocksInOrder ==
    /\ lastBlockFromDB = GetLastBlock(db)
    /\ lastBlock >= lastBlockFromDB
    /\ blk <= lastBlock + 1
    /\ phase = "batch" => ops = <<>>
    /\ phase = "block" => lastBlockFromDB < blk /\ blk <= lastBlock

(* The batch in memory, before every operation and at the commit: what it  *)
(* will make of the database is as consistent as the database, though half *)
(* of it is in the batch, half in the cache, and updates are pending.      *)
BatchConsistent == InBatch =>
    /\ BatchExact(pBatch, cache, nextIDVal)
    /\ Extends(db, pBatch)
    /\ BatchFollowsReplay
    /\ FreshCreates(ops, pos, DOMAIN pBatch.cur)
    /\ BlocksInOrder

Between == ~InBatch => replayed = Entities(db) /\ ops = <<>> /\ pos = 1

(* The inductive invariant: the properties of the database, what the batch *)
(* will make of it, and where the follower is between batches.             *)
Consistent ==
    /\ TypeOK
    /\ IsFiniteSet(DOMAIN db.cur)
    /\ PayloadsConsistent
    /\ SecondaryIndexExact
    /\ EntityCountExact
    /\ IdsNotReallocated
    /\ peak = GetLastBlock(db)
    /\ BatchConsistent
    /\ Between

(* Why ids follow $sequence, inside a batch too: what is stored lies below *)
(* the position of everything that is still to be created.                 *)
BlockStart(n) == n * IndexBase * IndexBase

SequencesBelow(v, n) == \A id \in DOMAIN v.pay : v.pay[id].sequence < n

SequencesAscend ==
    /\ AscendingSequences(db)
    /\ GetLastBlock(db) <= MaxBlock
    /\ SequencesBelow(db, BlockStart(GetLastBlock(db) + 1))
    /\ InBatch => lastBlock <= MaxBlock /\ AscendingSequences(pBatch)
    /\ phase = "batch" => SequencesBelow(pBatch, BlockStart(BlockAt))
    /\ phase = "block" =>
          /\ CreatesAscend(ops, pos)
          /\ SequencesBelow(pBatch, BlockStart(blk + 1))
          /\ \A c \in pos .. Len(ops) : ops[c].type = "create" =>
                SequencesBelow(pBatch, Sequence(blk, ops[c].tx, ops[c].idx))
=============================================================================
