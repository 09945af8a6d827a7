---------------------------- MODULE PushIterator ----------------------------
(***************************************************************************)
(* The push iterator between the producers of block batches and the event  *)
(* follower (pusher/push_iterator.go, and the loop over the iterator in    *)
(* pebblestore/follow_events.go).                                          *)
(*                                                                         *)
(* The channel is unbuffered: Push returns when the follower takes the     *)
(* batch, before it is applied.  An error in a batch ends the follower,    *)
(* and with it the loop over the channel, with the batch in hand; Push     *)
(* does not look at its context, so the next one waits until the follower  *)
(* is called again with the iterator, if it ever is.                       *)
(*                                                                         *)
(* A batch is <<p, n>>, the n-th of producer p.                            *)
(***************************************************************************)
EXTENDS Naturals, Sequences, FiniteSets

CONSTANTS
    Producer,
    Batches,     \* batches each producer pushes
    MaxFailures  \* bound: batches that fail

ASSUME PushAssumption == Batches \in Nat /\ MaxFailures \in Nat

VARIABLES
    closed,      \* the channel is closed
    pushed,      \* pushed[p]: calls of Push by p that have returned
    pushing,     \* producers inside Push
    follower,    \* see Control
    hand,        \* the batch yielded last
    applied,     \* batches committed, in order
    failed       \* batches whose error ended the follower

vars == <<closed, pushed, pushing, follower, hand, applied, failed>>

(* "ranging"   waiting for the channel   "applying"  inside the loop body  *)
(* "returned"  without an error          "stopped"   with an error         *)
Control == {"ranging", "applying", "returned", "stopped"}

Batch == Producer \X (1 .. Batches)

Init ==
    /\ closed = FALSE
    /\ pushed = [p \in Producer |-> 0]
    /\ pushing = {}
    /\ follower = "ranging"
    /\ hand = <<>>
    /\ applied = <<>>
    /\ failed = {}

(* Push sends on the channel and blocks.                                   *)
Push(p) ==
    /\ p \notin pushing
    /\ pushed[p] < Batches
    /\ pushing' = pushing \cup {p}
    /\ UNCHANGED <<closed, pushed, follower, hand, applied, failed>>

(* Slip: the iterator is closed only if something went wrong.              *)
CloseOnFailure ==
    /\ ~closed
    /\ failed # {}
    /\ \A p \in Producer : pushed[p] = Batches
    /\ closed' = TRUE
    /\ UNCHANGED <<pushed, pushing, follower, hand, applied, failed>>

(* The producers close the iterator once, when all pushes have returned.   *)
Close ==
    /\ ~closed
    /\ \A p \in Producer : pushed[p] = Batches
    /\ closed' = TRUE
    /\ UNCHANGED <<pushed, pushing, follower, hand, applied, failed>>

(* Slip: the channel has room for a batch, so Push need not wait.          *)
TakeBuffered(p) ==
    /\ p \in pushing
    /\ follower \in {"ranging", "applying"}
    /\ follower' = "applying"
    /\ hand' = <<p, pushed[p] + 1>>
    /\ pushed' = [pushed EXCEPT ![p] = @ + 1]
    /\ pushing' = pushing \ {p}
    /\ UNCHANGED <<closed, applied, failed>>

(* Slip: the batch is received and Push does not return.                   *)
TakeUnnoticed(p) ==
    /\ p \in pushing
    /\ pushed[p] < Batches
    /\ follower = "ranging"
    /\ follower' = "applying"
    /\ hand' = <<p, pushed[p] + 1>>
    /\ pushed' = [pushed EXCEPT ![p] = @ + 1]
    /\ UNCHANGED <<closed, pushing, applied, failed>>

(* The loop of Iterator receives a batch and yields it.                    *)
Take(p) ==
    /\ p \in pushing
    /\ follower = "ranging"
    /\ follower' = "applying"
    /\ hand' = <<p, pushed[p] + 1>>
    /\ pushed' = [pushed EXCEPT ![p] = @ + 1]
    /\ pushing' = pushing \ {p}
    /\ UNCHANGED <<closed, applied, failed>>

(* FollowEvents commits the batch and asks for the next one.               *)
Commit ==
    /\ follower = "applying"
    /\ follower' = "ranging"
    /\ applied' = Append(applied, hand)
    /\ UNCHANGED <<closed, pushed, pushing, hand, failed>>

(* Slip: the batch is put back for the next follower.                      *)
FailKeeping ==
    /\ follower = "applying"
    /\ Cardinality(failed) < MaxFailures
    /\ follower' = "stopped"
    /\ failed' = failed \cup {hand}
    /\ pushed' = [pushed EXCEPT ![hand[1]] = @ - 1]
    /\ UNCHANGED <<closed, pushing, hand, applied>>

(* FollowEvents returns the error of the batch: yield reports false and    *)
(* the loop over the channel breaks.                                       *)
Fail ==
    /\ follower = "applying"
    /\ Cardinality(failed) < MaxFailures
    /\ follower' = "stopped"
    /\ failed' = failed \cup {hand}
    /\ UNCHANGED <<closed, pushed, pushing, hand, applied>>

(* FollowEvents is called again, with the same iterator.                   *)
FollowAgain ==
    /\ follower = "stopped"
    /\ follower' = "ranging"
    /\ UNCHANGED <<closed, pushed, pushing, hand, applied, failed>>

(* Slip: the loop ends although a batch is waiting.                        *)
ReturnEarly ==
    /\ follower = "ranging"
    /\ applied # <<>>
    /\ follower' = "returned"
    /\ UNCHANGED <<closed, pushed, pushing, hand, applied, failed>>

(* The channel is closed: the loop and FollowEvents end.                   *)
Return ==
    /\ follower = "ranging"
    /\ closed
    /\ follower' = "returned"
    /\ UNCHANGED <<closed, pushed, pushing, hand, applied, failed>>

Produce == Close \/ \E p \in Producer : Push(p)
Follow == Commit \/ Return \/ \E p \in Producer : Take(p)

Next == Produce \/ Follow \/ Fail \/ FollowAgain

Spec == Init /\ [][Next]_vars

(* The producers' goroutines and the follower's run.  Nobody has to call   *)
(* FollowEvents again after an error.                                      *)
FairSpec == Spec /\ WF_vars(Produce) /\ WF_vars(Follow)

-----------------------------------------------------------------------------
TypeOK ==
    /\ closed \in BOOLEAN
    /\ pushed \in [Producer -> 0 .. Batches]
    /\ pushing \subseteq {p \in Producer : pushed[p] < Batches}
    /\ follower \in Control
    /\ follower = "applying" => hand \in Batch
    /\ applied \in Seq(Batch)
    /\ failed \subseteq Batch

(* What the follower has been given.                                       *)
Taken == {b \in Batch : b[2] <= pushed[b[1]]}
Settled == {applied[i] : i \in DOMAIN applied} \cup failed

(* Every batch that was taken has been applied, or has failed, or is in    *)
(* the follower's hand: a crash or an error costs one batch at the most,   *)
(* however many producers there are, and a Push that returns says no more  *)
(* than that.                                                              *)
AllButOneSettled ==
    Taken \ Settled = IF follower = "applying" THEN {hand} ELSE {}

(* The follower applies the batches of a producer in the order in which    *)
(* they were pushed, and none twice or after it failed, also when it is    *)
(* called again.                                                           *)
InOrderOnce ==
    /\ \A i, j \in DOMAIN applied :
          i < j /\ applied[i][1] = applied[j][1] => applied[i][2] < applied[j][2]
    /\ \A i \in DOMAIN applied : applied[i] \notin failed

(* A FollowEvents that returns without an error has been given everything: *)
(* no producer is left waiting.                                            *)
CompleteOnReturn == follower = "returned" => Taken = Batch /\ pushing = {}

(* A Push returns, and the follower comes to an end, unless an error ends  *)
(* it and nobody calls it again.                                           *)
PushReturns ==
    \A p \in Producer : p \in pushing ~> p \notin pushing \/ follower = "stopped"
FollowerEnds == <>(follower \in {"returned", "stopped"})

-----------------------------------------------------------------------------
(* A batch leaves the stream when the follower is done with it.            *)
Position ==
    [p \in Producer |->
        IF follower = "applying" /\ hand[1] = p THEN pushed[p] - 1 ELSE pushed[p]]

Stream == INSTANCE BatchStream WITH
    position <- Position,
    delivered <- applied,
    dropped <- failed,
    ended <- follower = "returned"

(* The channel, the loop over it and a follower that fails and is called   *)
(* again amount to a BatchStream: every batch is committed or failed in    *)
(* its producer's order, none is passed over, given twice or taken back,   *)
(* and FollowEvents returns without an error only at the end.              *)
ImplementsBatchStream == Stream!Spec
=============================================================================
