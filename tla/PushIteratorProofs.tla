------------------------- MODULE PushIteratorProofs -------------------------
(* Proofs about PushIterator, for any producers, any number of batches and *)
(* any number of failures.                                                 *)
EXTENDS PushIterator, TLAPS

(* What has been applied or has failed had been taken.                     *)
SettledTaken ==
    /\ \A i \in DOMAIN applied : applied[i] \in Taken
    /\ failed \subseteq Taken
    /\ follower = "applying" => hand \in Taken /\ hand \notin Settled

(* The batch in hand is the last one taken from its producer.              *)
HandIsLast == follower = "applying" => hand[2] = pushed[hand[1]]

ClosedWhenDone == closed => \A p \in Producer : pushed[p] = Batches
ReturnedWhenClosed == follower = "returned" => closed

Inv == /\ TypeOK /\ AllButOneSettled /\ InOrderOnce
       /\ SettledTaken /\ HandIsLast /\ ClosedWhenDone /\ ReturnedWhenClosed

(* Nothing has been pushed in the beginning.                               *)
LEMMA InvInit == Init => Inv
  <1> SUFFICES ASSUME Init PROVE Inv
    OBVIOUS
  <1>1. TypeOK
    <2>1. pushed \in [Producer -> 0 .. Batches]
      BY PushAssumption DEF Init
    <2>2. applied \in Seq(Batch)
      BY DEF Init
    <2> QED BY <2>1, <2>2 DEF Init, TypeOK, Control
  <1>2. Taken = {}
    <2>1. \A b \in Batch : b[1] \in Producer /\ b[2] \in 1 .. Batches
      BY DEF Batch
    <2> QED BY <2>1, PushAssumption DEF Init, Taken
  <1>3. DOMAIN applied = {} /\ failed = {} /\ follower = "ranging" /\ ~closed
    BY DEF Init
  <1> QED BY <1>1, <1>2, <1>3
      DEF Inv, AllButOneSettled, InOrderOnce, SettledTaken, HandIsLast,
          ClosedWhenDone, ReturnedWhenClosed

(* Taking a batch adds it, and it alone, to what has been taken.           *)
LEMMA TakenNext ==
    ASSUME TypeOK, NEW p \in Producer, Take(p)
    PROVE  /\ <<p, pushed[p] + 1>> \in Batch
           /\ <<p, pushed[p] + 1>> \notin Taken
           /\ Taken' = Taken \cup {<<p, pushed[p] + 1>>}
  <1>1. pushed[p] \in Nat /\ pushed[p] + 1 <= Batches
    BY PushAssumption DEF TypeOK, Take
  <1>2. <<p, pushed[p] + 1>> \in Batch
    BY <1>1, PushAssumption DEF Batch
  <1>3. <<p, pushed[p] + 1>> \notin Taken
    BY <1>1 DEF Taken
  <1>4. ASSUME NEW b \in Batch
        PROVE  b[2] <= pushed'[b[1]] <=> b[2] <= pushed[b[1]] \/ b = <<p, pushed[p] + 1>>
    <2>1. b = <<b[1], b[2]>> /\ b[1] \in Producer /\ b[2] \in Nat
      BY PushAssumption DEF Batch
    <2>2. pushed'[b[1]] = IF b[1] = p THEN pushed[p] + 1 ELSE pushed[b[1]]
      BY <2>1 DEF Take, TypeOK
    <2>3. pushed[b[1]] \in Nat
      BY <2>1, PushAssumption DEF TypeOK
    <2> QED BY <1>1, <2>1, <2>2, <2>3
  <1> QED BY <1>2, <1>3, <1>4 DEF Taken

(* A batch that was not taken has not been settled.                        *)
LEMMA TakeKeepsInv == ASSUME Inv, NEW p \in Producer, Take(p) PROVE Inv'
  <1> DEFINE b == <<p, pushed[p] + 1>>
  <1>1. b \in Batch /\ b \notin Taken /\ Taken' = Taken \cup {b}
    BY TakenNext DEF Inv
  <1>2. follower = "ranging" /\ follower' = "applying" /\ hand' = b
        /\ pushing' = pushing \ {p} /\ UNCHANGED <<closed, applied, failed>>
        /\ pushed' = [pushed EXCEPT ![p] = @ + 1]
    BY DEF Take
  <1>3. pushed \in [Producer -> 0 .. Batches] /\ pushed[p] \in Nat /\ pushed[p] < Batches
    BY PushAssumption DEF Inv, TypeOK, Take
  <1>4. TypeOK'
    <2>1. pushed' \in [Producer -> 0 .. Batches]
      BY <1>2, <1>3, PushAssumption
    <2>2. pushing' \subseteq {q \in Producer : pushed'[q] < Batches}
      BY <1>2, <1>3 DEF Inv, TypeOK
    <2> QED BY <1>1, <1>2, <2>1, <2>2 DEF Inv, TypeOK, Control
  <1>5. Settled' = Settled
    BY <1>2 DEF Settled
  <1>6. Settled \subseteq Taken
    BY DEF Inv, SettledTaken, Settled
  <1>7. AllButOneSettled'
    BY <1>1, <1>2, <1>5, <1>6 DEF Inv, AllButOneSettled
  <1>8. InOrderOnce'
    BY <1>2 DEF Inv, InOrderOnce
  <1>9. SettledTaken'
    BY <1>1, <1>2, <1>5, <1>6 DEF Inv, SettledTaken
  <1>10. HandIsLast'
    BY <1>2, <1>3 DEF HandIsLast
  <1>11. ClosedWhenDone' /\ ReturnedWhenClosed'
    BY <1>2, <1>3 DEF Inv, ClosedWhenDone, ReturnedWhenClosed
  <1> QED BY <1>4, <1>7, <1>8, <1>9, <1>10, <1>11 DEF Inv

(* The batch in hand is later than what its producer had applied before.   *)
LEMMA CommitKeepsInv == ASSUME Inv, Commit PROVE Inv'
  <1>1. follower = "applying" /\ follower' = "ranging" /\ hand \in Batch
        /\ applied' = Append(applied, hand) /\ applied \in Seq(Batch)
        /\ UNCHANGED <<closed, pushed, pushing, hand, failed>>
    BY DEF Commit, Inv, TypeOK
  <1>2. /\ DOMAIN applied' = DOMAIN applied \cup {Len(applied) + 1}
        /\ \A i \in DOMAIN applied : applied'[i] = applied[i]
        /\ applied'[Len(applied) + 1] = hand
    BY <1>1
  <1>3. TypeOK'
    BY <1>1 DEF Inv, TypeOK, Control
  <1>4. Taken' = Taken
    BY <1>1 DEF Taken
  <1>5. Settled' = Settled \cup {hand}
    BY <1>1, <1>2 DEF Settled
  <1>6. AllButOneSettled'
    BY <1>1, <1>4, <1>5 DEF Inv, AllButOneSettled, SettledTaken
  <1>7. InOrderOnce'
    <2>1. ASSUME NEW i \in DOMAIN applied, applied[i][1] = hand[1]
          PROVE  applied[i][2] < hand[2]
      <3>1. applied[i] \in Batch /\ applied[i] # hand
        BY <1>1, <2>1 DEF Inv, SettledTaken, Settled
      <3>2. applied[i][2] <= pushed[hand[1]]
        BY <2>1 DEF Inv, SettledTaken, Taken
      <3>3. hand[2] = pushed[hand[1]]
        BY <1>1 DEF Inv, HandIsLast
      <3>4. /\ applied[i] = <<applied[i][1], applied[i][2]>> /\ applied[i][2] \in Nat
            /\ hand = <<hand[1], hand[2]>> /\ hand[2] \in Nat
        BY <3>1, <1>1, PushAssumption DEF Batch
      <3> QED BY <2>1, <3>1, <3>2, <3>3, <3>4
    <2>2. \A i, j \in DOMAIN applied' :
             i < j /\ applied'[i][1] = applied'[j][1] => applied'[i][2] < applied'[j][2]
      <3>1. \A i \in DOMAIN applied : i \in Nat /\ i < Len(applied) + 1
        BY <1>1
      <3> QED BY <1>1, <1>2, <2>1, <3>1 DEF Inv, InOrderOnce
    <2>3. \A i \in DOMAIN applied' : applied'[i] \notin failed'
      BY <1>1, <1>2 DEF Inv, InOrderOnce, SettledTaken, Settled
    <2> QED BY <2>2, <2>3 DEF InOrderOnce
  <1>8. SettledTaken' /\ HandIsLast' /\ ClosedWhenDone' /\ ReturnedWhenClosed'
    BY <1>1, <1>2, <1>4 DEF Inv, SettledTaken, HandIsLast, ClosedWhenDone,
                            ReturnedWhenClosed
  <1> QED BY <1>3, <1>6, <1>7, <1>8 DEF Inv

(* A batch that fails leaves the hand for the failed ones.                 *)
LEMMA FailKeepsInv == ASSUME Inv, Fail PROVE Inv'
  <1>1. follower = "applying" /\ follower' = "stopped" /\ hand \in Batch
        /\ failed' = failed \cup {hand}
        /\ UNCHANGED <<closed, pushed, pushing, hand, applied>>
    BY DEF Fail, Inv, TypeOK
  <1>2. TypeOK'
    BY <1>1 DEF Inv, TypeOK, Control
  <1>3. Taken' = Taken /\ Settled' = Settled \cup {hand}
    BY <1>1 DEF Taken, Settled
  <1>4. hand \in Taken /\ hand \notin Settled
    BY <1>1 DEF Inv, SettledTaken
  <1>5. AllButOneSettled'
    BY <1>1, <1>3, <1>4 DEF Inv, AllButOneSettled
  <1>6. InOrderOnce'
    BY <1>1, <1>4 DEF Inv, InOrderOnce, Settled
  <1>7. SettledTaken' /\ HandIsLast' /\ ClosedWhenDone' /\ ReturnedWhenClosed'
    BY <1>1, <1>3, <1>4 DEF Inv, SettledTaken, HandIsLast, ClosedWhenDone,
                            ReturnedWhenClosed
  <1> QED BY <1>2, <1>5, <1>6, <1>7 DEF Inv

(* The other steps neither take nor settle a batch.                        *)
LEMMA OtherKeepsInv ==
    ASSUME Inv,
           Close \/ Return \/ FollowAgain \/ (\E p \in Producer : Push(p))
           \/ UNCHANGED vars
    PROVE  Inv'
  <1>1. UNCHANGED <<pushed, hand, applied, failed>>
        /\ (follower' = "applying" <=> follower = "applying")
    BY DEF Close, Return, FollowAgain, Push, vars
  <1>2. Taken' = Taken /\ Settled' = Settled
    BY <1>1 DEF Taken, Settled
  <1>3. TypeOK'
    BY DEF Inv, TypeOK, Control, Close, Return, FollowAgain, Push, vars
  <1>4. AllButOneSettled' /\ InOrderOnce' /\ SettledTaken' /\ HandIsLast'
    BY <1>1, <1>2 DEF Inv, AllButOneSettled, InOrderOnce, SettledTaken, HandIsLast
  <1>5. ClosedWhenDone' /\ ReturnedWhenClosed'
    BY <1>1 DEF Inv, ClosedWhenDone, ReturnedWhenClosed, Close, Return,
                FollowAgain, Push, vars
  <1> QED BY <1>3, <1>4, <1>5 DEF Inv

(* Inv is an invariant of the iterator.                                    *)
THEOREM InvAlways == Spec => []Inv
  <1>1. Inv /\ [Next]_vars => Inv'
    BY TakeKeepsInv, CommitKeepsInv, FailKeepsInv, OtherKeepsInv
    DEF Next, Produce, Follow
  <1> QED BY InvInit, <1>1, PTL DEF Spec

(* A crash or an error costs one batch at the most, whatever the producers *)
(* do (PushIterator.Push returns before its batch is applied).             *)
THEOREM AllButOneSettledAlways == Spec => []AllButOneSettled
  <1>1. Inv => AllButOneSettled
    BY DEF Inv
  <1> QED BY <1>1, InvAlways, PTL

(* The batches of each producer are applied in order and once, through any *)
(* number of errors and new calls of FollowEvents.                         *)
THEOREM InOrderOnceAlways == Spec => []InOrderOnce
  <1>1. Inv => InOrderOnce
    BY DEF Inv
  <1> QED BY <1>1, InvAlways, PTL

(* When FollowEvents returns without an error no producer is waiting and   *)
(* none has a batch left.                                                  *)
THEOREM CompleteOnReturnAlways == Spec => []CompleteOnReturn
  <1>1. ASSUME Inv, follower = "returned" PROVE Taken = Batch /\ pushing = {}
    <2>1. \A p \in Producer : pushed[p] = Batches
      BY <1>1 DEF Inv, ReturnedWhenClosed, ClosedWhenDone
    <2>2. Taken = Batch
      BY <2>1, PushAssumption DEF Taken, Batch
    <2>3. pushing = {}
      BY <1>1, <2>1, PushAssumption DEF Inv, TypeOK
    <2> QED BY <2>2, <2>3
  <1>2. Inv => CompleteOnReturn
    BY <1>1 DEF CompleteOnReturn
  <1> QED BY <1>2, InvAlways, PTL

(* What the iterator and the follower keep is well-formed: only a producer *)
(* with a batch left is inside Push, and the batch in hand is one.         *)
THEOREM TypesAlways == Spec => []TypeOK
  <1>1. Inv => TypeOK
    BY DEF Inv
  <1> QED BY <1>1, InvAlways, PTL

-----------------------------------------------------------------------------
(* The stream of batches                                                   *)

(* Nothing has left the stream in the beginning.                           *)
LEMMA StreamInit == Init => Stream!Init
  <1> SUFFICES ASSUME Init PROVE Stream!Init
    OBVIOUS
  <1>1. Position = [p \in Producer |-> 0]
    BY DEF Init, Position
  <1> QED BY <1>1 DEF Init, Stream!Init

(* The batch in hand is the one its producer's stream gives next.          *)
LEMMA HandIsNext ==
    ASSUME Inv, follower = "applying"
    PROVE  /\ hand[1] \in Producer
           /\ Position[hand[1]] < Batches
           /\ hand = Stream!NextBatch(hand[1])
           /\ pushed = [Position EXCEPT ![hand[1]] = @ + 1]
  <1>1. hand = <<hand[1], hand[2]>> /\ hand[1] \in Producer /\ hand[2] \in 1 .. Batches
    BY DEF Inv, TypeOK, Batch
  <1>2. hand[2] = pushed[hand[1]]
    BY DEF Inv, HandIsLast
  <1>3. pushed \in [Producer -> 0 .. Batches]
    BY DEF Inv, TypeOK
  <1>4. Position[hand[1]] = pushed[hand[1]] - 1
    BY <1>1 DEF Position
  <1>5. Position[hand[1]] + 1 = pushed[hand[1]] /\ Position[hand[1]] < Batches
    BY <1>1, <1>2, <1>4, PushAssumption
  <1>6. pushed = [Position EXCEPT ![hand[1]] = @ + 1]
    BY <1>1, <1>3, <1>5 DEF Position
  <1> QED BY <1>1, <1>2, <1>5, <1>6 DEF Stream!NextBatch

(* When no batch is in hand, everything pushed has left the stream.        *)
LEMMA PositionAtRest ==
    ASSUME Inv, follower # "applying"
    PROVE  Position = pushed
    BY DEF Inv, TypeOK, Position

(* Batches leave the stream by Commit and Fail, which deliver and drop the *)
(* one in hand, and Return ends the stream; all other steps stutter.       *)
LEMMA StreamStep ==
    ASSUME Inv, Inv', [Next]_vars
    PROVE  [Stream!Next]_(Stream!streamVars)
  <1>1. CASE Commit
    <2>1. follower = "applying" /\ follower' = "ranging"
          /\ applied' = Append(applied, hand) /\ UNCHANGED <<pushed, failed>>
      BY <1>1 DEF Commit
    <2>2. Position' = pushed
      BY <2>1 DEF Inv, TypeOK, Position
    <2>3. Stream!Deliver(hand[1])
      BY <2>1, <2>2, HandIsNext DEF Stream!Deliver, Stream!Advance
    <2> QED BY <2>1, <2>3, HandIsNext DEF Stream!Next
  <1>2. CASE Fail
    <2>1. follower = "applying" /\ follower' = "stopped"
          /\ failed' = failed \cup {hand} /\ UNCHANGED <<pushed, applied>>
      BY <1>2 DEF Fail
    <2>2. Position' = pushed
      BY <2>1 DEF Inv, TypeOK, Position
    <2>3. Stream!Drop(hand[1])
      BY <2>1, <2>2, HandIsNext DEF Stream!Drop, Stream!Advance
    <2> QED BY <2>1, <2>3, HandIsNext DEF Stream!Next
  <1>3. CASE Return
    <2>1. follower = "ranging" /\ follower' = "returned" /\ closed
          /\ UNCHANGED <<pushed, applied, failed>>
      BY <1>3 DEF Return
    <2>2. Position = pushed /\ Position' = pushed
      BY <2>1 DEF Inv, TypeOK, Position
    <2>3. \A p \in Producer : Position[p] = Batches
      BY <2>1, <2>2 DEF Inv, ClosedWhenDone
    <2>4. Stream!End
      BY <2>1, <2>2, <2>3 DEF Stream!End
    <2> QED BY <2>4 DEF Stream!Next
  <1>4. ASSUME NEW p \in Producer, Take(p)
        PROVE  UNCHANGED Stream!streamVars
    <2>1. /\ follower = "ranging" /\ follower' = "applying"
          /\ hand' = <<p, pushed[p] + 1>> /\ pushed' = [pushed EXCEPT ![p] = @ + 1]
          /\ UNCHANGED <<applied, failed>>
      BY <1>4 DEF Take
    <2>2. pushed \in [Producer -> 0 .. Batches] /\ pushed[p] \in Nat
      BY PushAssumption DEF Inv, TypeOK
    <2>3. Position = pushed
      BY <2>1, PositionAtRest
    <2>4. \A q \in Producer : Position'[q] = pushed[q]
      BY <2>1, <2>2 DEF Position
    <2>5. Position' = pushed
      BY <2>2, <2>4 DEF Position
    <2> QED BY <2>1, <2>3, <2>5 DEF Stream!streamVars
  <1>5. CASE \/ Close \/ FollowAgain \/ UNCHANGED vars
             \/ \E p \in Producer : Push(p)
    <2>1. UNCHANGED <<pushed, hand, applied, failed>>
          /\ (follower' = "applying" <=> follower = "applying")
          /\ (follower' = "returned" <=> follower = "returned")
      BY <1>5 DEF Close, FollowAgain, Push, vars
    <2>2. Position' = Position
      BY <2>1 DEF Position
    <2> QED BY <2>1, <2>2 DEF Stream!streamVars
  <1> QED BY <1>1, <1>2, <1>3, <1>4, <1>5 DEF Next, Produce, Follow

(* The channel and a follower that fails and is called again implement the *)
(* stream of batches, whatever the producers and however often it fails    *)
(* (PushIterator.Push, PushIterator.Iterator and the loop of FollowEvents).*)
THEOREM ImplementsBatchStreamHolds == Spec => ImplementsBatchStream
  <1>1. Spec => []Inv
    BY InvAlways
  <1> QED BY <1>1, StreamInit, StreamStep, PTL
      DEF Spec, ImplementsBatchStream, Stream!Spec
=============================================================================
