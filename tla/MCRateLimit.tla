---------------------------- MODULE MCRateLimit ----------------------------
(* Two clients, windows of three ticks that admit two requests, seconds of *)
(* two ticks, so that Retry-After has to be rounded; time for three        *)
(* windows in a row.                                                       *)
EXTENDS RateLimit
=============================================================================
