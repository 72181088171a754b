----------------------------- MODULE EventTimer -----------------------------
(***************************************************************************)
(* The timers of event_engine.c: a circular, doubly linked list of nodes   *)
(* behind a lock, and one worker that wakes every 50 ms, reads the clock,  *)
(* takes the lock and walks the list from __event_first_timer.  A node     *)
(* whose time has come has its callback called UNDER the lock; the         *)
(* callback says whether the node is armed again or deleted, and may start *)
(* further timers (the lock is taken again by its owner).  A round ends    *)
(* after MaxRound nodes or back at the first node, and the node it ended   *)
(* on is first in the next round.                                          *)
(*                                                                         *)
(* Time is abstract: a node becomes due at any moment (Elapse), early or   *)
(* late, and stays due until its callback is called: the 32-bit clock, to  *)
(* which `expired' is compared without regard to its wrapping, does not    *)
(* wrap while a due node waits.  A node is one of a finite set of          *)
(* addresses, which the allocator may return again.                        *)
(***************************************************************************)
EXTENDS Integers, FiniteSets

CONSTANTS Callers,   \* the threads that call ee_timer
          Worker,    \* the thread that runs ee_timer_event
          Nodes,     \* the addresses malloc may return
          Null,      \* no node, and no thread
          MaxRound   \* EE_MAX_TIMER_ONE_ROUND

ASSUME WorkerAssumption == Worker # Null
ASSUME NodesAssumption == IsFiniteSet(Nodes) /\ Null \notin Nodes
ASSUME MaxRoundAssumption == MaxRound \in Nat \ {0}

VARIABLES
  first,       \* __event_first_timer
  next, prev,  \* the links of each node
  armed,       \* the nodes in the list and not freed
  due,         \* the armed nodes whose time has come
  timerLock,   \* who holds __event_timer_db_lock
  pending,     \* the node a caller has made and not yet inserted, or Null
  stage,       \* where the worker is
  node,        \* the worker's local node
  ripe,        \* the nodes due at the tick it read
  budget       \* its local max_count

list == <<first, next, prev, armed>>
work == <<stage, node, ripe, budget>>
timerVars == <<list, due, timerLock, pending, work>>

(* "sleep"     in Sleep(50), before it reads the clock
   "enter"     has read it, waits for the lock
   "visit"     looks at `node'
   "callback"  in node->callback
   "next"      steps on to node->next
   "leave"     about to give the lock back                                  *)
Stages == {"sleep", "enter", "visit", "callback", "next", "leave"}

TimerTypeOK ==
  /\ first \in armed \cup {Null}
  /\ next \in [Nodes -> Nodes \cup {Null}] /\ prev \in [Nodes -> Nodes \cup {Null}]
  /\ armed \subseteq Nodes /\ due \subseteq armed /\ ripe \subseteq due
  /\ timerLock \in {Null, Worker}
  /\ pending \in [Callers -> Nodes \cup {Null}]
  /\ stage \in Stages
  /\ node \in Nodes \cup {Null}
  /\ budget \in 1..MaxRound

TimerInit ==
  /\ first = Null /\ armed = {} /\ due = {}
  /\ next = [n \in Nodes |-> Null] /\ prev = [n \in Nodes |-> Null]
  /\ timerLock = Null
  /\ pending = [c \in Callers |-> Null]
  /\ stage = "sleep" /\ node = Null /\ ripe = {} /\ budget = MaxRound

Free == Nodes \ (armed \cup {pending[c] : c \in Callers})

(* Time passes; the period of node n is over. *)
Elapse(n) ==
  /\ n \in armed \ due
  /\ due' = due \cup {n}
  /\ UNCHANGED <<list, timerLock, pending, work>>

----------------------------------------------------------------------------
(* ee_timer *)

(* ee_insert_timer_node_nl: a new node comes second. *)
InsertNode(n) ==
  /\ armed' = armed \cup {n}
  /\ IF first = Null
     THEN /\ first' = n
          /\ next' = [next EXCEPT ![n] = n]
          /\ prev' = [prev EXCEPT ![n] = n]
     ELSE LET second == next[first]
          IN  /\ next' = [next EXCEPT ![first] = n, ![n] = second]
              /\ prev' = [prev EXCEPT ![n] = first, ![second] = n]
              /\ UNCHANGED first

(* The node is made before the lock is taken. *)
CallTimer(c) ==
  /\ pending[c] = Null
  /\ \E n \in Free : pending' = [pending EXCEPT ![c] = n]
  /\ UNCHANGED <<list, due, timerLock, work>>

TimerInsert(c) ==
  /\ pending[c] # Null
  /\ timerLock = Null
  /\ InsertNode(pending[c])
  /\ pending' = [pending EXCEPT ![c] = Null]
  /\ UNCHANGED <<due, timerLock, work>>

----------------------------------------------------------------------------
(* ee_timer_event *)

(* The clock is read before the lock is taken. *)
ReadTick ==
  /\ stage = "sleep" /\ stage' = "enter"
  /\ ripe' = due
  /\ UNCHANGED <<list, due, timerLock, pending, node, budget>>

RoundEnter ==
  /\ stage = "enter"
  /\ timerLock = Null /\ timerLock' = Worker
  /\ node' = first
  /\ stage' = IF first = Null THEN "leave" ELSE "visit"
  /\ UNCHANGED <<list, due, pending, ripe, budget>>

Visit ==
  /\ stage = "visit"
  /\ stage' = IF node \in ripe THEN "callback" ELSE "next"
  /\ UNCHANGED <<list, due, timerLock, pending, node, ripe, budget>>

(* The callback starts a timer. *)
CallbackTimer ==
  /\ stage = "callback"
  /\ \E n \in Free : InsertNode(n)
  /\ UNCHANGED <<due, timerLock, pending, work>>

(* EE_TIMER_RESET *)
CallbackReset ==
  /\ stage = "callback" /\ stage' = "next"
  /\ due' = due \ {node} /\ ripe' = ripe \ {node}
  /\ UNCHANGED <<list, timerLock, pending, node, budget>>

(* Plausible faults: the first pointer stays on the freed node; the walk goes
   on from the freed node. *)
CallbackDoneKeepsFirst ==
  /\ stage = "callback"
  /\ armed' = armed \ {node}
  /\ due' = due \ {node} /\ ripe' = ripe \ {node}
  /\ IF prev[node] = node
     THEN /\ first' = Null /\ node' = Null /\ stage' = "leave"
          /\ UNCHANGED <<next, prev>>
     ELSE /\ next' = [next EXCEPT ![prev[node]] = next[node]]
          /\ prev' = [prev EXCEPT ![next[node]] = prev[node]]
          /\ node' = prev[node] /\ stage' = "next"
          /\ UNCHANGED first
  /\ UNCHANGED <<timerLock, pending, budget>>

CallbackDoneStays ==
  /\ stage = "callback"
  /\ armed' = armed \ {node}
  /\ due' = due \ {node} /\ ripe' = ripe \ {node}
  /\ IF prev[node] = node
     THEN first' = Null /\ node' = Null /\ stage' = "leave" /\ UNCHANGED <<next, prev>>
     ELSE /\ next' = [next EXCEPT ![prev[node]] = next[node]]
          /\ prev' = [prev EXCEPT ![next[node]] = prev[node]]
          /\ first' = IF node = first THEN next[node] ELSE first
          /\ stage' = "next" /\ UNCHANGED node
  /\ UNCHANGED <<timerLock, pending, budget>>

(* EE_TIMER_DONE: ee_delete_timer_node_nl returns the node before, and 0 when
   the list is empty now; then the round ends with max_count as it is. *)
CallbackDone ==
  /\ stage = "callback"
  /\ armed' = armed \ {node}
  /\ due' = due \ {node} /\ ripe' = ripe \ {node}
  /\ IF prev[node] = node
     THEN first' = Null /\ node' = Null /\ stage' = "leave" /\ UNCHANGED <<next, prev>>
     ELSE /\ next' = [next EXCEPT ![prev[node]] = next[node]]
          /\ prev' = [prev EXCEPT ![next[node]] = prev[node]]
          /\ first' = IF node = first THEN next[node] ELSE first
          /\ node' = prev[node] /\ stage' = "next"
  /\ UNCHANGED <<timerLock, pending, budget>>

(* A plausible fault: every round starts at the same node. *)
StepOnKeepsFirst ==
  /\ stage = "next"
  /\ node' = next[node]
  /\ IF budget = 1 \/ node' = first
     THEN budget' = MaxRound /\ stage' = "leave"
     ELSE budget' = budget - 1 /\ stage' = "visit"
  /\ UNCHANGED <<list, due, timerLock, pending, ripe>>

StepOn ==
  /\ stage = "next"
  /\ node' = next[node]
  /\ IF budget = 1 \/ node' = first
     THEN first' = node' /\ budget' = MaxRound /\ stage' = "leave"
     ELSE budget' = budget - 1 /\ stage' = "visit" /\ UNCHANGED first
  /\ UNCHANGED <<next, prev, armed, due, timerLock, pending, ripe>>

RoundLeave ==
  /\ stage = "leave" /\ stage' = "sleep"
  /\ timerLock' = Null
  /\ ripe' = {} /\ node' = Null
  /\ UNCHANGED <<list, due, pending, budget>>
----------------------------------------------------------------------------

CallbackReturn == CallbackReset \/ CallbackDone

TimerNext ==
  \/ \E n \in Nodes : Elapse(n)
  \/ \E c \in Callers : CallTimer(c) \/ TimerInsert(c)
  \/ ReadTick \/ RoundEnter \/ Visit \/ CallbackTimer \/ CallbackReturn
  \/ StepOn \/ RoundLeave

(* The worker goes on; it gets a lock that becomes free again and again; a
   callback returns in the end.  Nothing is assumed of the clock. *)
TimerFairness ==
  /\ WF_timerVars(ReadTick) /\ SF_timerVars(RoundEnter)
  /\ WF_timerVars(Visit \/ StepOn \/ RoundLeave)
  /\ WF_timerVars(CallbackReturn)

TimerSpec == TimerInit /\ [][TimerNext]_timerVars
TimerFairSpec == TimerSpec /\ TimerFairness
----------------------------------------------------------------------------
(* Properties *)

(* The nodes a walk over the whole list meets. *)
Walk[n \in Nat] == IF n = 0 THEN first ELSE next[Walk[n - 1]]
InList == IF first = Null THEN {} ELSE {Walk[n] : n \in 0..Cardinality(Nodes)}

(* The list is one circle through every armed node and no freed one, readable
   in both directions, whatever the callbacks insert and delete in the middle
   of the worker's walk; and everything keeps its type, the countdown of a
   round among it. *)
ListIsACircle ==
  /\ TimerTypeOK
  /\ InList = armed
  /\ \A n \in armed : prev[next[n]] = n /\ next[prev[n]] = n

(* The worker stands on a node that is in the list: the node it goes on from
   after a deletion, which may have been the first or the last, is not freed
   under it, and no other thread changes the list while it walks. *)
WorkerOnArmedNode ==
  /\ stage \in {"visit", "callback", "next"} => node \in armed /\ timerLock = Worker
  /\ stage = "callback" => node \in ripe

(* Every due timer is fired if no more timers are started from some moment on:
   the bound on a round and the rounds cut short by a deletion only delay it. *)
NoMoreStarted == <>[][armed' \subseteq armed]_armed
DueTimerFiresInTheEnd ==
  NoMoreStarted => \A n \in Nodes : n \in due ~> (stage = "callback" /\ node = n)
=============================================================================
