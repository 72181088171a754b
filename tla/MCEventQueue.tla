---------------------------- MODULE MCEventQueue ----------------------------
(***************************************************************************)
(* EventQueue for TLC: two threads that post beside the handler, a ring of *)
(* three slots (the fewest with a middle one), two events to tell order.   *)
(***************************************************************************)
EXTENDS EventQueue

CONSTANTS p1, p2, e1, e2

MCPosters == {p1, p2}
MCEvents == {e1, e2}
=============================================================================
