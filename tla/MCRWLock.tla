------------------------------ MODULE MCRWLock ------------------------------
(***************************************************************************)
(* RWLock for TLC: three threads are the fewest with two readers and a     *)
(* writer, two grants each the fewest with a nested call.                  *)
(***************************************************************************)
EXTENDS RWLock

CONSTANTS t1, t2, t3

MCThreads == {t1, t2, t3}
=============================================================================
