----------------------------- MODULE MCAccounts -----------------------------
(* Two accounts of two devices each that enroll twice between them, and    *)
(* two streams; two account keys are minted, so that an account is rotated *)
(* once, or deleted and registered again, or two are registered at once.   *)
EXTENDS Accounts

CONSTANTS x, y, d1, d2, c1, c2, s1, s2

MCAccountIds == {x, y}
MCCredentialIds == {c1, c2}
MCStreams == {s1, s2}
=============================================================================
