---------------------------- MODULE MCEnetClient ----------------------------
(***************************************************************************)
(* EnetClient on a small instance: two threads of the application, two     *)
(* receiving threads and the thread of the event queue.                    *)
(***************************************************************************)
EXTENDS EnetClient

CONSTANTS a1, a2, r1, r2, ev

MCApp     == {a1, a2}
MCRecv    == {r1, r2}
MCThreads == MCApp \cup MCRecv \cup {ev}
=============================================================================
