----------------------------- MODULE BatchStream -----------------------------
(***************************************************************************)
(* What a push iterator promises, without a channel, waiting producers or  *)
(* a follower that comes and goes: the batches of each producer leave      *)
(* their stream in the order in which they were pushed, one at a time,     *)
(* and each either is delivered or is dropped; the stream ends when none   *)
(* is left.                                                                *)
(***************************************************************************)
EXTENDS Naturals, Sequences

CONSTANTS
    Producer,
    Batches     \* batches of each producer

VARIABLES
    position,   \* position[p]: the last batch of p that has left the stream
    delivered,  \* what was delivered, in order
    dropped,    \* what was not
    ended

streamVars == <<position, delivered, dropped, ended>>

Init ==
    /\ position = [p \in Producer |-> 0]
    /\ delivered = <<>>
    /\ dropped = {}
    /\ ended = FALSE

NextBatch(p) == <<p, position[p] + 1>>

(* The next batch of p leaves the stream.                                  *)
Advance(p) ==
    /\ ~ended
    /\ position[p] < Batches
    /\ position' = [position EXCEPT ![p] = @ + 1]

Deliver(p) ==
    /\ Advance(p)
    /\ delivered' = Append(delivered, NextBatch(p))
    /\ UNCHANGED <<dropped, ended>>

Drop(p) ==
    /\ Advance(p)
    /\ dropped' = dropped \cup {NextBatch(p)}
    /\ UNCHANGED <<delivered, ended>>

End ==
    /\ ~ended
    /\ \A p \in Producer : position[p] = Batches
    /\ ended' = TRUE
    /\ UNCHANGED <<position, delivered, dropped>>

Next == End \/ \E p \in Producer : Deliver(p) \/ Drop(p)

Spec == Init /\ [][Next]_streamVars
=============================================================================
