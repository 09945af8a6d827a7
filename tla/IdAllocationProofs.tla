------------------------- MODULE IdAllocationProofs -------------------------
(***************************************************************************)
(* The properties of IdAllocation, for any set of batches and any bounds.  *)
(*                                                                         *)
(* Until a restart follows on batches that overlapped, the counter in      *)
(* memory is above every id there is.  While batches do not overlap, this  *)
(* holds as well of the counter in the database, and of the one the open   *)
(* batch will write, with regard to the entities it will leave there; so   *)
(* it survives a restart.                                                  *)
(***************************************************************************)
EXTENDS IdAllocation, FiniteSetTheorems, TLAPS

Types ==
    /\ nextIDVal \in Nat /\ idCounter \in Nat /\ entityCount \in Nat
    /\ entities \subseteq Nat
    /\ open \subseteq Batch
    /\ created \in [Batch -> SUBSET Nat]
    /\ counterSet \in [Batch -> Nat]
    /\ countSet \in [Batch -> Nat]
    /\ mode \in {"single", "overlapped", "reopened"}

ClosedEmpty == \A b \in Batch \ open : created[b] = {}

BelowCounter == mode # "reopened" =>
    /\ \A id \in entities : id < nextIDVal
    /\ \A b \in open : \A id \in created[b] : id < nextIDVal

(* One batch at a time: the counter and the count, as stored and as the    *)
(* batch will store them.                                                  *)
Counts(b) ==
    /\ \A id \in entities \cup created[b] : id < counterSet[b]
    /\ counterSet[b] <= nextIDVal
    /\ IsFiniteSet(created[b])
    /\ countSet[b] = Cardinality(entities \cup created[b])

Single == mode = "single" =>
    /\ \A b, c \in open : b = c
    /\ \A id \in entities : id < idCounter
    /\ idCounter <= nextIDVal
    /\ IsFiniteSet(entities)
    /\ entityCount = Cardinality(entities)
    /\ \A b \in open : created[b] # {} => Counts(b)

Inv == Types /\ ClosedEmpty /\ BelowCounter /\ IdsUnique /\ Single

-----------------------------------------------------------------------------
(* The empty store.                                                        *)
LEMMA InitInv == Init => Inv
<1> SUFFICES ASSUME Init PROVE Inv
    OBVIOUS
<1>1. Types /\ ClosedEmpty /\ BelowCounter /\ IdsUnique
    BY SMT DEF Init, Types, ClosedEmpty, BelowCounter, IdsUnique
<1>2. IsFiniteSet({}) /\ Cardinality({}) = 0
    BY FS_EmptySet
<1>3. Single
    BY <1>2 DEF Init, Single
<1> QED BY <1>1, <1>3 DEF Inv

(* A batch that is opened has no ids yet.  When another one is open, the   *)
(* two overlap from here on.                                               *)
LEMMA OpenInv ==
    ASSUME Inv, NEW b \in Batch, Open(b) PROVE Inv'
<1> USE DEF Inv, Open, database
<1>1. created[b] = {}
    BY DEF ClosedEmpty
<1>2. Types'
    BY DEF Types
<1>3. ClosedEmpty'
    BY DEF ClosedEmpty
<1>4. mode' # "reopened" <=> mode # "reopened"
    BY DEF Types
<1>5. BelowCounter'
    BY <1>1, <1>4 DEF BelowCounter
<1>6. IdsUnique'
    BY <1>1, <1>4 DEF IdsUnique
<1>7. Single'
    <2> SUFFICES ASSUME mode' = "single" PROVE Single'
        BY DEF Single
    <2>1. mode = "single" /\ open = {}
        BY DEF Types
    <2> QED BY <1>1, <2>1 DEF Single
<1> QED BY <1>2, <1>3, <1>5, <1>6, <1>7

(* The new id is the counter, above all ids there are; the counter and the *)
(* count that the batch will write take it in.                             *)
LEMMA CreateInv ==
    ASSUME Inv, NEW b \in Batch, Create(b) PROVE Inv'
<1> USE DEF Inv, Create, database
<1>1. CountSeen(b) \in Nat
    BY DEF CountSeen, Types
<1>2. Types'
    BY <1>1 DEF Types
<1>3. /\ created'[b] = created[b] \cup {nextIDVal}
      /\ counterSet'[b] = nextIDVal + 1
      /\ countSet'[b] = CountSeen(b) + 1
      /\ \A c \in Batch \ {b} : created'[c] = created[c]
    BY DEF Types
<1>4. ClosedEmpty'
    BY <1>3 DEF ClosedEmpty
<1>5. BelowCounter'
    BY <1>3 DEF BelowCounter, Types
<1>6. IdsUnique'
    <2> SUFFICES ASSUME mode # "reopened" PROVE IdsUnique'
        BY DEF IdsUnique
    <2>1. nextIDVal \notin entities /\ \A c \in open : nextIDVal \notin created[c]
        BY DEF BelowCounter, Types
    <2> QED BY <1>3, <2>1 DEF IdsUnique, Types
<1>7. Single'
    <2> SUFFICES ASSUME mode = "single" PROVE Single'
        BY DEF Single
    <2>1. \A id \in entities \cup created[b] : id < nextIDVal
        BY DEF BelowCounter
    <2>2. IsFiniteSet(created[b]) /\ CountSeen(b) = Cardinality(entities \cup created[b])
        <3>1. CASE created[b] = {}
            <4>1. entities \cup created[b] = entities
                BY <3>1
            <4> QED BY <3>1, <4>1, FS_EmptySet DEF Single, CountSeen
        <3>2. CASE created[b] # {}
            BY <3>2 DEF Single, Counts, CountSeen
        <3> QED BY <3>1, <3>2
    <2>3. IsFiniteSet(created'[b])
        BY <1>3, <2>2, FS_AddElement
    <2>4. countSet'[b] = Cardinality(entities \cup created'[b])
        <3>1. IsFiniteSet(entities \cup created[b])
            BY <2>2, FS_Union DEF Single
        <3>2. nextIDVal \notin entities \cup created[b]
            BY <2>1 DEF Types
        <3>3. entities \cup created'[b] = (entities \cup created[b]) \cup {nextIDVal}
            BY <1>3
        <3> QED BY <1>3, <2>2, <3>1, <3>2, <3>3, FS_AddElement
    <2>5. \A id \in entities \cup created'[b] : id < counterSet'[b]
        BY <1>3, <2>1 DEF Types
    <2>6. Counts(b)'
        BY <1>3, <2>3, <2>4, <2>5 DEF Counts, Types
    <2>7. \A c \in open' : c = b
        BY DEF Single
    <2> QED BY <2>6, <2>7 DEF Single, Types
<1> QED BY <1>2, <1>4, <1>5, <1>6, <1>7

(* The batch's entities become the database's, with the batch's counter    *)
(* and count.                                                              *)
LEMMA CommitInv ==
    ASSUME Inv, NEW b \in Batch, Commit(b) PROVE Inv'
<1> USE DEF Inv, Commit, Discarded
<1>1. Types'
    BY DEF Types
<1>2. /\ created'[b] = {}
      /\ \A c \in Batch \ {b} : created'[c] = created[c]
    BY DEF Types
<1>3. ClosedEmpty'
    BY <1>2 DEF ClosedEmpty
<1>4. BelowCounter'
    BY <1>2 DEF BelowCounter, Types
<1>5. IdsUnique'
    BY <1>2 DEF IdsUnique, Types
<1>6. Single'
    <2> SUFFICES ASSUME mode = "single" PROVE Single'
        BY DEF Single
    <2>1. Counts(b) /\ IsFiniteSet(entities)
        BY DEF Single
    <2>2. IsFiniteSet(entities')
        BY <2>1, FS_Union DEF Counts
    <2>3. open' = {}
        BY DEF Single
    <2> QED BY <2>1, <2>2, <2>3 DEF Single, Counts
<1> QED BY <1>1, <1>3, <1>4, <1>5, <1>6

(* A batch that is dropped leaves the database as it is.                   *)
LEMMA DropInv ==
    ASSUME Inv, NEW b \in Batch, Drop(b) PROVE Inv'
<1> USE DEF Inv, Drop, Discarded, database
<1>1. Types'
    BY DEF Types
<1>2. /\ created'[b] = {}
      /\ \A c \in Batch \ {b} : created'[c] = created[c]
    BY DEF Types
<1>3. ClosedEmpty'
    BY <1>2 DEF ClosedEmpty
<1>4. BelowCounter' /\ IdsUnique'
    BY <1>2 DEF BelowCounter, IdsUnique, Types
<1>5. Single'
    <2> SUFFICES ASSUME mode = "single" PROVE Single'
        BY DEF Single
    <2>1. open' = {}
        BY DEF Single
    <2> QED BY <2>1 DEF Single
<1> QED BY <1>1, <1>3, <1>4, <1>5

(* The counter is the database's again.  While batches did not overlap, it *)
(* is above the ids of all entities.                                       *)
LEMMA RestartInv ==
    ASSUME Inv, Restart PROVE Inv'
<1> USE DEF Inv, Restart, database
<1>1. Types'
    BY DEF Types
<1>2. ClosedEmpty' /\ IdsUnique'
    BY DEF ClosedEmpty, IdsUnique
<1>3. mode' # "reopened" => mode = "single" /\ mode' = "single"
    BY DEF Types
<1>4. BelowCounter'
    BY <1>3 DEF BelowCounter, Single
<1>5. Single'
    <2> SUFFICES ASSUME mode' = "single" PROVE Single'
        BY DEF Single
    <2> QED BY <1>3 DEF Single, Types
<1> QED BY <1>1, <1>2, <1>4, <1>5

(* The invariant holds throughout.                                         *)
THEOREM InvAlways == Spec => []Inv
<1>1. Inv /\ [Next]_vars => Inv'
    <2> SUFFICES ASSUME Inv, [Next]_vars PROVE Inv'
        OBVIOUS
    <2>1. ASSUME NEW b \in Batch, Open(b) PROVE Inv'
        BY <2>1, OpenInv
    <2>2. ASSUME NEW b \in Batch, Create(b) PROVE Inv'
        BY <2>2, CreateInv
    <2>3. ASSUME NEW b \in Batch, Commit(b) PROVE Inv'
        BY <2>3, CommitInv
    <2>4. ASSUME NEW b \in Batch, Drop(b) PROVE Inv'
        BY <2>4, DropInv
    <2>5. CASE Restart
        BY <2>5, RestartInv
    <2>6. CASE UNCHANGED vars
        BY <2>6 DEF vars, database, batches, Inv, Types, ClosedEmpty,
                    BelowCounter, IdsUnique, Single, Counts
    <2> QED BY <2>1, <2>2, <2>3, <2>4, <2>5, <2>6 DEF Next
<1> QED BY InitInv, <1>1, PTL DEF Spec

(* Ids are unique, however many batches are open at once, until the store  *)
(* is reopened after that.                                                 *)
THEOREM IdsAlwaysUnique == Spec => []IdsUnique
<1>1. Inv => IdsUnique
    BY DEF Inv
<1> QED BY InvAlways, <1>1, PTL

(* The count is exact as long as batches do not overlap, through batches   *)
(* that are dropped and restarts.                                          *)
THEOREM CountAlwaysExact == Spec => []CountExact
<1>1. Inv => CountExact
    BY DEF Inv, Single, CountExact
<1> QED BY InvAlways, <1>1, PTL
=============================================================================
