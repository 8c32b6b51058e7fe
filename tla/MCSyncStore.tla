---------------------------- MODULE MCSyncStore ----------------------------
(* Two rows of one app, so that a page of one row leaves the other behind, *)
(* and one row of another app that shares the account's counter.           *)
EXTENDS SyncStore, TLC

CONSTANTS a1, a2, k1, k2, k3

MCApps == {a1, a2}
MCKeys == {k1, k2, k3}
MCAppOf == k1 :> a1 @@ k2 :> a1 @@ k3 :> a2
=============================================================================
