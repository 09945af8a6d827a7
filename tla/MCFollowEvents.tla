--------------------------- MODULE MCFollowEvents ---------------------------
(* Values for the constants of FollowEvents.                               *)
EXTENDS FollowEvents, TLC

CONSTANTS k1, k2, o1, o2, b1, b2
CONSTANTS MCMaxOps

(* Two bodies that share one attribute and differ in the other.            *)
MCAttributes ==
    [b \in Body |-> {<<"str", "type", "nft">>,
                     <<"num", "version", IF b = b1 THEN 1 ELSE 2>>}]

(* Operations without their position.                                      *)
Shape == {[op EXCEPT !.tx = 0, !.idx = 0] : op \in CreateOp \cup UpdateOp}
         \cup RemoveOp \cup ExtendOp \cup ChangeOwnerOp \cup UnknownOp

AtPosition(op, i) ==
    IF op.type \in {"create", "update"} THEN [op EXCEPT !.idx = i - 1] ELSE op

MCBlockContents ==
    UNION {{[i \in 1 .. n |-> AtPosition(s[i], i)] : s \in [1 .. n -> Shape]}
             : n \in 0 .. MCMaxOps}

Symmetric == Permutations({k1, k2}) \cup Permutations({o1, o2})
=============================================================================
