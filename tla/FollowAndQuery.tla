--------------------------- MODULE FollowAndQuery ---------------------------
(***************************************************************************)
(* The follower and the queries on its database.  A query reads a          *)
(* snapshot, which is a state the database has been in; so what holds of   *)
(* the answers on every committed database holds of every answer, whatever *)
(* the follower does in the meantime.                                      *)
(***************************************************************************)
EXTENDS FollowEvents, QueryEval

CONSTANT Queries   \* normalised queries

ASSUME QueriesAssumption == \A q \in Queries : IsAST(q)

(* Every query that is answered from the bitmap index, by point lookups,   *)
(* scans, intersections and unions, selects exactly the entities of whose  *)
(* record it is true: the lookups may trust the index after any history of *)
(* updates, removals, failures and restarts.                               *)
AnswersExact == \A q \in Queries : evaluateAST(db, q) = Answer(db, q)

(* What a query sees of the database.                                      *)
Visible(q) == INSTANCE CommittedStore WITH
    Height   <- Nat,
    Counter  <- Nat,
    height   <- GetLastBlock(db),
    nextID   <- PersistedNextID(db),
    live     <- DOMAIN db.pay,
    matching <- evaluateAST(db, q)

VisibleStep(q) ==
    \/ UNCHANGED db   \* implies the last disjunct, and is cheap to evaluate
    \/ Visible(q)!StoreCommit
    \/ UNCHANGED Visible(q)!database

(* To a query the follower is a CommittedStore, the store against which    *)
(* QueryEntities is checked: blocks only grow, ids are not reused, and     *)
(* what matches is an entity that exists.                                  *)
ImplementsCommittedStore ==
    /\ \A q \in Queries : Visible(q)!Open
    /\ [][\A q \in Queries : VisibleStep(q)]_db
=============================================================================
