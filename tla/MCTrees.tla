------------------------------ MODULE MCTrees ------------------------------
(***************************************************************************)
(* Both trees for TLC, each with the calls and failures of its own: they   *)
(* share no state, so one runs while the other stays where it starts.      *)
(***************************************************************************)
EXTENDS RBTree

VARIABLES tree, level, node_count, answer23, failures

MCKeys == 1..9
MCMaxFailures == 1

T23 == INSTANCE Tree23 WITH answer <- answer23, Keys <- MCKeys, MaxFailures <- MCMaxFailures

vars23 == <<tree, level, node_count, answer23, failures>>

MCInit == Init /\ T23!Init
MCNext == \/ Next /\ T23!Init /\ UNCHANGED vars23
          \/ T23!Next /\ Init /\ UNCHANGED vars
MCSpec == MCInit /\ [][MCNext]_<<vars, vars23>>

Tree23Sound == T23!Tree23Sound
Tree23ImplementsDictionary == T23!ImplementsDictionary
=============================================================================
