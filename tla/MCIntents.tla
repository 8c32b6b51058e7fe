----------------------------- MODULE MCIntents -----------------------------
(* Three events for a cap of two, pages of one event: the cap rejects, and *)
(* a drain takes several pages.                                            *)
EXTENDS Intents
=============================================================================
