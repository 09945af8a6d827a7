---------------------------- MODULE IdAllocation ----------------------------
(***************************************************************************)
(* Several batches open at once on one store (nextID and the entity count  *)
(* in pebblestore/pebblestore.go): nothing keeps FollowEvents from being   *)
(* called twice, and the in-memory id counter has a mutex for it.  Ids are *)
(* taken from the shared counter; its persisted value and the entity count *)
(* are written by each batch for itself.                                   *)
(*                                                                         *)
(* An entity is its id: only creates are modelled, and no removals.        *)
(***************************************************************************)
EXTENDS Naturals, FiniteSets

CONSTANTS
    Batch,         \* batches that may be open at a time
    MaxID,         \* bound: ids handed out
    MaxRestarts    \* bound: restarts of the store

ASSUME AllocationAssumption == MaxID \in Nat /\ MaxRestarts \in Nat

VARIABLES
    nextIDVal,     \* in memory
    idCounter,     \* in the database
    entityCount,   \* in the database
    entities,      \* ids in the database
    open,          \* open batches
    created,       \* created[b]: ids of the entities b creates
    counterSet,    \* counterSet[b]: the id counter b will write
    countSet,      \* countSet[b]: the entity count b will write
    restarts,
    mode           \* history: "single"      one batch open at a time
                   \*          "overlapped"  two have been open at once
                   \*          "reopened"    and the store restarted after that

database == <<idCounter, entityCount, entities>>
batches == <<open, created, counterSet, countSet>>
vars == <<nextIDVal, database, batches, restarts, mode>>

Init ==
    /\ nextIDVal = 1 /\ idCounter = 1 /\ entityCount = 0
    /\ entities = {} /\ open = {}
    /\ created = [b \in Batch |-> {}]
    /\ counterSet = [b \in Batch |-> 0]
    /\ countSet = [b \in Batch |-> 0]
    /\ restarts = 0
    /\ mode = "single"

Open(b) ==
    /\ b \notin open
    /\ open' = open \cup {b}
    /\ mode' = IF mode = "single" /\ open # {} THEN "overlapped" ELSE mode
    /\ UNCHANGED <<nextIDVal, database, created, counterSet, countSet, restarts>>

(* Slip: reads past the batch's own writes.                                *)
CountSeenStored(b) == entityCount
(* The count as the indexed batch shows it: its own write if it has one.   *)
CountSeen(b) == IF created[b] = {} THEN entityCount ELSE countSet[b]

(* Slip: the id is read from the counter's value in the database.          *)
CreateFromDatabase(b) ==
    /\ b \in open
    /\ nextIDVal <= MaxID
    /\ created' = [created EXCEPT ![b] = @ \cup {idCounter}]
    /\ nextIDVal' = nextIDVal + 1
    /\ counterSet' = [counterSet EXCEPT ![b] = idCounter + 1]
    /\ countSet' = [countSet EXCEPT ![b] = CountSeen(b) + 1]
    /\ UNCHANGED <<database, open, restarts, mode>>

(* nextID, under its mutex, and incrementEntityCount.                      *)
Create(b) ==
    /\ b \in open
    /\ nextIDVal <= MaxID
    /\ created' = [created EXCEPT ![b] = @ \cup {nextIDVal}]
    /\ nextIDVal' = nextIDVal + 1
    /\ counterSet' = [counterSet EXCEPT ![b] = nextIDVal + 1]
    /\ countSet' = [countSet EXCEPT ![b] = CountSeen(b) + 1]
    /\ UNCHANGED <<database, open, restarts, mode>>

Discarded(b) ==
    /\ open' = open \ {b}
    /\ created' = [created EXCEPT ![b] = {}]
    /\ counterSet' = [counterSet EXCEPT ![b] = 0]
    /\ countSet' = [countSet EXCEPT ![b] = 0]

Commit(b) ==
    /\ b \in open
    /\ created[b] # {}
    /\ entities' = entities \cup created[b]
    /\ idCounter' = counterSet[b]
    /\ entityCount' = countSet[b]
    /\ Discarded(b)
    /\ UNCHANGED <<nextIDVal, restarts, mode>>

(* The batch ends with an error, or has created nothing.                   *)
Drop(b) ==
    /\ b \in open
    /\ Discarded(b)
    /\ UNCHANGED <<nextIDVal, database, restarts, mode>>

(* The store is closed or crashes, and is opened again.                    *)
Restart ==
    /\ restarts < MaxRestarts
    /\ restarts' = restarts + 1
    /\ nextIDVal' = idCounter
    /\ mode' = IF mode = "overlapped" THEN "reopened" ELSE mode
    /\ open' = {}
    /\ created' = [b \in Batch |-> {}]
    /\ counterSet' = [b \in Batch |-> 0]
    /\ countSet' = [b \in Batch |-> 0]
    /\ UNCHANGED database

Next ==
    \/ \E b \in Batch : Open(b) \/ Create(b) \/ Commit(b) \/ Drop(b)
    \/ Restart

Spec == Init /\ [][Next]_vars

-----------------------------------------------------------------------------
(* An id that is handed out is unique: no other open batch and no entity   *)
(* in the database has it, however many batches are open at once.  After   *)
(* that a restart may lose ids that are in use: the counter in the         *)
(* database is the one of the batch that committed last, which need not    *)
(* have taken the highest.                                                 *)
IdsUnique == mode # "reopened" =>
    \A b \in open :
        /\ created[b] \cap entities = {}
        /\ \A c \in open \ {b} : created[b] \cap created[c] = {}

(* The stored count is the number of entities as long as one batch is open *)
(* at a time, whatever batches are dropped and wherever the store stops.   *)
CountExact == mode = "single" => entityCount = Cardinality(entities)
=============================================================================
