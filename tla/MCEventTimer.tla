---------------------------- MODULE MCEventTimer ----------------------------
(***************************************************************************)
(* EventTimer for TLC: a thread that starts timers beside the callbacks,   *)
(* four nodes and rounds of at most two, so that a round ends both ways    *)
(* with timers left behind it.                                             *)
(***************************************************************************)
EXTENDS EventTimer

CONSTANTS c, n1, n2, n3, n4

MCCallers == {c}
MCNodes == {n1, n2, n3, n4}
=============================================================================
