--------------------------- MODULE CommittedStore ---------------------------
(***************************************************************************)
(* What a query sees of the follower, without entities, index or batches:  *)
(* a store that changes by atomic commits only.  A commit adds blocks,     *)
(* may remove entities and change which of them match the query, and gives *)
(* new entities ids that were never used before.                           *)
(***************************************************************************)
EXTENDS Naturals

CONSTANTS
    Height,   \* block numbers
    Counter   \* values of the id counter, and ids

ASSUME CommittedStoreAssumption == Height \subseteq Nat /\ Counter \subseteq Nat

VARIABLES
    height,    \* last block number
    nextID,    \* the persisted id counter
    live,      \* ids with a payload record
    matching   \* ids of the entities that satisfy the query

database == <<height, nextID, live, matching>>

Open ==
    /\ height \in Height
    /\ nextID \in Counter
    /\ live \in SUBSET {id \in Counter : id < nextID}
    /\ matching \in SUBSET live

(* Slip: allocates again the ids of removed entities.                      *)
AllocatedFreely(next) == {id \in Counter : id < next}
(* Slip: the counter that is stored is itself an id in use.                *)
AllocatedThrough(next) == {id \in Counter : nextID <= id /\ id <= next}
(* The ids a commit that leaves the counter at next may give to new        *)
(* entities.  Ids may be left out: by failed batches.                      *)
Allocated(next) == {id \in Counter : nextID <= id /\ id < next}

StoreCommit ==
    /\ height' \in {h \in Height : h > height}
    /\ nextID' \in {n \in Counter : n >= nextID}
    /\ live' \in SUBSET (live \cup Allocated(nextID'))
    /\ matching' \in SUBSET live'

Committed == Open /\ [][StoreCommit]_database
=============================================================================
