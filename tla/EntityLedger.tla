---------------------------- MODULE EntityLedger ----------------------------
(***************************************************************************)
(* What the event follower promises, without identifiers, bitmaps, caches  *)
(* or batches: a ledger of entities at a block height that moves only by   *)
(* executing the operations of the blocks above the height one by one, in  *)
(* block order, and becomes visible only at the end of a whole block.      *)
(***************************************************************************)
EXTENDS EntityEvents

VARIABLES
    ledger,   \* the entities readers see: a map from keys to rows
    height,   \* the last block the ledger includes
    working,  \* the ledger with the operations executed so far
    at,       \* the block whose operations are being executed
    open      \* TRUE while block `at` has been executed only in part

ledgerVars == <<ledger, height, working, at, open>>

Rest == working = ledger /\ at = height + 1 /\ ~open

Init ==
    /\ height \in Nat
    /\ ledger \in [DOMAIN ledger -> Row] /\ DOMAIN ledger \subseteq Key
    /\ Rest

Execute(op) ==
    /\ working' = Effect(working, op, at)
    /\ open' = TRUE
    /\ UNCHANGED <<ledger, height, at>>

Seal ==
    /\ at' = at + 1
    /\ open' = FALSE
    /\ UNCHANGED <<ledger, height, working>>

Publish ==
    /\ ~open
    /\ ledger' = working
    /\ height' = at - 1
    /\ UNCHANGED <<working, at, open>>

(* An error or a crash: everything since the last Publish is forgotten.    *)
Abandon ==
    /\ working' = ledger
    /\ at' = height + 1
    /\ open' = FALSE
    /\ UNCHANGED <<ledger, height>>

Next == (\E op \in Op : Execute(op)) \/ Seal \/ Publish \/ Abandon

Spec == Init /\ [][Next]_ledgerVars
=============================================================================
