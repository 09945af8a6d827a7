-------------------------- MODULE FollowAnyEvents --------------------------
(***************************************************************************)
(* The event follower on blocks of any operations: FollowEvents relies on  *)
(* the chain to create an entity only under a key that is not in use; here *)
(* it may create one under any key.  Create does not look for an entity    *)
(* that exists: UpsertPayload reuses its id and overwrites its record, and *)
(* the id stays in the bitmaps of the attributes it had.  The database is  *)
(* still that of EntityLedger; only its index may hold too much.           *)
(***************************************************************************)
EXTENDS FollowEvents

(* StartBlock, with creates of existing keys.                              *)
StartAnyBlock ==
    /\ phase = "batch"
    /\ blk <= lastBlock
    /\ ~IsProcessed(blk)
    /\ ops' \in BlockContents
    /\ pos' = 1
    /\ phase' = "block"
    /\ UNCHANGED <<db, nextIDVal, pBatch, cache, lastBlockFromDB, blk,
                   lastBlock, replayed, peak, failures>>

AnyNext == Next \/ StartAnyBlock

AnySpec == Init /\ [][AnyNext]_vars

-----------------------------------------------------------------------------
(* Every entity is found under each of its attributes, whatever was        *)
(* created in its place before: a bitmap may hold ids that do not belong   *)
(* in it any more, but a query never misses an entity.  Expirations and    *)
(* sequences wrap in this run.                                             *)
IndexComplete == \A id \in DOMAIN db.pay : \A p \in IndexKeys(db.pay[id]) :
                    id \in GetBitmap(db, p)

(* What remains of Extends when creates may replace: the ids that view v   *)
(* has and view base has not are ids that base has not counted past.       *)
Adds(base, v) ==
    /\ PersistedNextID(base) <= PersistedNextID(v)
    /\ \A id \in DOMAIN v.pay \ DOMAIN base.pay : id >= PersistedNextID(base)
    /\ v.bm = base.bm

(* The inductive invariant: the records of the database, and of the batch  *)
(* with its cache, are in step, no entity is missing from the index, and   *)
(* the batch follows the replay of its blocks.                             *)
AnyConsistent ==
    /\ TypeOK
    /\ IsFiniteSet(DOMAIN db.cur)
    /\ PayloadsConsistent
    /\ IndexComplete
    /\ EntityCountExact
    /\ IdsNotReallocated
    /\ \A p \in DOMAIN db.bm : db.bm[p] # {}
    /\ peak = GetLastBlock(db)
    /\ InBatch => /\ RecordsExact(pBatch, nextIDVal)
                  /\ CacheComplete(cache, pBatch)
                  /\ Adds(db, pBatch)
                  /\ BatchFollowsReplay
                  /\ BlocksInOrder
    /\ Between
=============================================================================
