---------------------------- MODULE MCThpHandle ----------------------------
(***************************************************************************)
(* ThpHandle for TLC: three threads (a deleter between two users), three   *)
(* handles (one first, one in the middle, one last).                       *)
(***************************************************************************)
EXTENDS ThpHandle, TLC

CONSTANTS t1, t2, t3, h1, h2, h3

MCThreads == {t1, t2, t3}
MCHandles == {h1, h2, h3}
MCSymmetry == Permutations(MCThreads) \cup Permutations(MCHandles)
=============================================================================
