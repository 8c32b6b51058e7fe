------------------------------- MODULE MCPush -------------------------------
(* Two devices for whom the hub has three places, so that one stream may   *)
(* be lost, and a fourth connection, so that broken ones can be in the way *)
(* of a new one.                                                           *)
EXTENDS Push, TLC

CONSTANTS d1, d2, s1, s2, s3, s4

MCDevices == {d1, d2}
MCStreams == {s1, s2, s3, s4}
=============================================================================
