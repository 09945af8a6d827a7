------------------------- MODULE MCFollowAnyEvents -------------------------
(* FollowAnyEvents with the constants of MCFollowEvents.                   *)
EXTENDS FollowAnyEvents, MCFollowEvents
=============================================================================
