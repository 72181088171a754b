---------------------------- MODULE MCPacketFlow ----------------------------
(***************************************************************************)
(* PacketFlow for TLC: two workers with two connections, one receiver, two *)
(* units and a queue of one, so that both run out.  And Framing: they      *)
(* share no state, so one runs while the other stays where it starts.      *)
(***************************************************************************)
EXTENDS PacketFlow, Framing, TLC

CONSTANTS w1, w2, c1, c2, r1

MCWorkers == {w1, w2}
MCConns == {c1, c2}
MCReceivers == {r1}

MCInit == Init /\ NoStream
MCNext == \/ Next /\ NoStream /\ UNCHANGED framing
          \/ FramingNext /\ Init /\ UNCHANGED vars
MCSpec == MCInit /\ [][MCNext]_<<vars, framing>> /\ Fairness
=============================================================================
