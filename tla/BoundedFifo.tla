---------------------------- MODULE BoundedFifo ----------------------------
(***************************************************************************)
(* What the event queues of the library promise: a post is answered either *)
(* "ok", and then its event is in the queue, or "full", and then the queue *)
(* held Size events at some moment of the call; events are handed to the   *)
(* dispatcher one at a time, in the order of the accepted posts, each      *)
(* once.  The dispatcher's callback may post itself, and hands its event   *)
(* back only when its own posts have been answered.                        *)
(***************************************************************************)
EXTENDS Naturals, Sequences

CONSTANTS Clients,   \* the threads that post
          Consumer,  \* the one of them that runs the dispatcher
          Events,    \* what they post
          NoEvent,   \* not an event
          Size       \* the events the queue has room for

VARIABLES queue,   \* the accepted events that wait
          asked,   \* what each client is posting, or NoEvent
          answer,  \* the answer a client has not read yet
          handed   \* what the dispatcher works on, or NoEvent

vars == <<queue, asked, answer, handed>>

Init ==
  /\ queue = <<>>
  /\ asked = [c \in Clients |-> NoEvent]
  /\ answer = [c \in Clients |-> "none"]
  /\ handed = NoEvent

Quiet(c) == asked[c] = NoEvent /\ answer[c] = "none"

Ask(c, e) ==
  /\ Quiet(c)
  /\ c = Consumer => handed # NoEvent
  /\ asked' = [asked EXCEPT ![c] = e]
  /\ UNCHANGED <<queue, answer, handed>>

Accept(c) ==
  /\ asked[c] # NoEvent
  /\ Len(queue) < Size
  /\ queue' = Append(queue, asked[c])
  /\ asked' = [asked EXCEPT ![c] = NoEvent]
  /\ answer' = [answer EXCEPT ![c] = "ok"]
  /\ UNCHANGED handed

Refuse(c) ==
  /\ asked[c] # NoEvent
  /\ Len(queue) = Size
  /\ asked' = [asked EXCEPT ![c] = NoEvent]
  /\ answer' = [answer EXCEPT ![c] = "full"]
  /\ UNCHANGED <<queue, handed>>

Hear(c) ==
  /\ answer[c] # "none"
  /\ answer' = [answer EXCEPT ![c] = "none"]
  /\ UNCHANGED <<queue, asked, handed>>

Take ==
  /\ handed = NoEvent
  /\ queue # <<>>
  /\ handed' = Head(queue)
  /\ queue' = Tail(queue)
  /\ UNCHANGED <<asked, answer>>

Finish ==
  /\ handed # NoEvent
  /\ Quiet(Consumer)
  /\ handed' = NoEvent
  /\ UNCHANGED <<queue, asked, answer>>

Next ==
  \/ \E c \in Clients : \/ \E e \in Events : Ask(c, e)
                        \/ Accept(c)
                        \/ Refuse(c)
                        \/ Hear(c)
  \/ Take
  \/ Finish

Spec == Init /\ [][Next]_vars
=============================================================================
