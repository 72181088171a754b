----------------------------- MODULE PacketFlow -----------------------------
(***************************************************************************)
(* The way of a packet unit through easenet.  enet_packet.c keeps the free *)
(* units on a stack; a server's worker (server_worker_thread) or a         *)
(* client's receiver (tcp_client_recv_thread) takes one, receives into it  *)
(* and posts its address; the event handler thread (enet_event.c) pops it, *)
(* calls the application back and puts the unit on the stack again.        *)
(* Nobody counts references: a unit belongs to whoever has its address.    *)
(*                                                                         *)
(* The pool's lock is a mutex (module RWLock): what it protects is one     *)
(* step.  The queue is what module BoundedFifo promises.  The pool is set  *)
(* up before the threads run, by one thread.  A worker has fewer than      *)
(* FD_SETSIZE connections, so it refuses none; a connection that is        *)
(* reported lost does not come back under its number; the server and its   *)
(* clients are not deleted.  MaxPackets bounds what a peer sends.          *)
(***************************************************************************)
EXTENDS Integers, Sequences, FiniteSets

CONSTANTS Workers,    \* threads that run server_worker_thread
          Conns,      \* sockets of the server's clients
          Receivers,  \* threads that run tcp_client_recv_thread
          Nobody,     \* no socket
          PoolSize,   \* ENET_DEFAULT_PACKET_POOL_SIZE
          QueueSize,  \* ENET_DEFAULT_EVENT_DB_SIZE
          MaxPackets  \* bound: packets a peer sends

ASSUME ThreadsAssumption == Workers \cap Receivers = {} /\ Conns \cap Receivers = {}
ASSUME NobodyAssumption == Nobody \notin Conns \cup Receivers
ASSUME SizesAssumption == {PoolSize, QueueSize, MaxPackets} \subseteq Nat \ {0}

VARIABLES
  freeList,   \* __packet_free_list up to __packet_free_list_iterator
  state,      \* __packet_state
  data,       \* what is in each unit: the number of a packet of a peer
  received,   \* how many packets of each peer were received
  queue,      \* the event queue
  event,      \* the handler's event_info, or NoEvent
  tasks,      \* connections the thread pool has still to deliver
  jobs,       \* each worker's jobSet
  ready,      \* what select reported and the worker has not looked at
  fd,         \* readSet.fd_array[i]
  unit,       \* each thread's packet_unit or unit, NoUnit when it has none
  endurance,
  pc

pool == <<freeList, state>>
vars == <<pool, data, received, queue, event, tasks, jobs, ready, fd, unit,
          endurance, pc>>

Units == 0..(PoolSize - 1)
NoUnit == -1
Threads == Workers \cup Receivers
Peers == Conns \cup Receivers  \* a receiver stands for its own socket
Blank == [peer |-> Nobody, n |-> 0]

RecvEvent(p, u) == [id |-> "recv", peer |-> p, unit |-> u]
DisconnectEvent(c) == [id |-> "disconnect", peer |-> c, unit |-> NoUnit]
NoEvent == [id |-> "nope", peer |-> Nobody, unit |-> NoUnit]
EventTypes == {RecvEvent(p, u) : p \in Peers, u \in Units}
                \cup {DisconnectEvent(c) : c \in Conns}

(* Workers: "select" in the loop over the connections; "recv", "post",
   "refused", "report", "clear" on one of them.  Receivers: "off" before
   the client connects, then "alloc", "recv", "post", and "ended". *)
TypeOK ==
  /\ freeList \in Seq(Units) /\ Len(freeList) <= PoolSize
  /\ state \in [Units -> {0, 1}]
  /\ data \in [Units -> [peer : Peers \cup {Nobody}, n : 0..MaxPackets]]
  /\ received \in [Peers -> 0..MaxPackets]
  /\ queue \in Seq(EventTypes) /\ Len(queue) <= QueueSize
  /\ event \in EventTypes \cup {NoEvent}
  /\ tasks \subseteq Conns
  /\ jobs \in [Workers -> SUBSET Conns]
  /\ ready \in [Workers -> SUBSET Conns]
  /\ fd \in [Workers -> Conns \cup {Nobody}]
  /\ unit \in [Threads -> Units \cup {NoUnit}]
  /\ endurance \in [Receivers -> 0..2]
  /\ pc \in [Threads -> {"select", "recv", "post", "refused", "report",
                         "clear", "off", "alloc", "ended"}]

Init ==
  /\ freeList = [i \in 1..PoolSize |-> i - 1]
  /\ state = [u \in Units |-> 0]
  /\ data = [u \in Units |-> Blank]
  /\ received = [p \in Peers |-> 0]
  /\ queue = <<>> /\ event = NoEvent
  /\ tasks = Conns
  /\ jobs = [w \in Workers |-> {}]
  /\ ready = [w \in Workers |-> {}]
  /\ fd = [w \in Workers |-> Nobody]
  /\ unit = [t \in Threads |-> NoUnit]
  /\ endurance = [r \in Receivers |-> 2]
  /\ pc = [t \in Threads |-> IF t \in Workers THEN "select" ELSE "off"]

-----------------------------------------------------------------------------
(* The pool. *)

Top == freeList[Len(freeList)]

(* Mutant: the last unit is taken for the end of the stack. *)
AllocKeepsOne(t) ==
  /\ Len(freeList) > 1
  /\ unit' = [unit EXCEPT ![t] = Top]
  /\ state' = [state EXCEPT ![Top] = 1]
  /\ freeList' = SubSeq(freeList, 1, Len(freeList) - 1)

(* enet_alloc_packet_unit when it does not return 0. *)
Alloc(t) ==
  /\ freeList # <<>>
  /\ unit' = [unit EXCEPT ![t] = Top]
  /\ state' = [state EXCEPT ![Top] = 1]
  /\ freeList' = SubSeq(freeList, 1, Len(freeList) - 1)

(* What a free unit still holds is not read before it is written again. *)
Free(u) ==
  /\ freeList' = Append(freeList, u)
  /\ state' = [state EXCEPT ![u] = 0]
  /\ data' = [data EXCEPT ![u] = Blank]

(* Receiving fills the thread's unit with the peer's next packet. *)
Fill(t, p) ==
  /\ received[p] < MaxPackets
  /\ received' = [received EXCEPT ![p] = @ + 1]
  /\ data' = [data EXCEPT ![unit[t]] = [peer |-> p, n |-> received[p] + 1]]

-----------------------------------------------------------------------------
(* server_worker_thread: what the pool runs again and again. *)

At(t, l) == pc[t] = l
Goto(t, l) == pc' = [pc EXCEPT ![t] = l]

WorkerTask(w) ==
  /\ At(w, "select") /\ ready[w] = {}
  /\ \E c \in tasks : /\ jobs' = [jobs EXCEPT ![w] = @ \cup {c}]
                      /\ tasks' = tasks \ {c}
  /\ UNCHANGED <<pool, data, received, queue, event, ready, fd, unit, endurance, pc>>

WorkerSelect(w) ==
  /\ At(w, "select") /\ ready[w] = {}
  /\ \E S \in SUBSET jobs[w] : S # {} /\ ready' = [ready EXCEPT ![w] = S]
  /\ UNCHANGED <<pool, data, received, queue, event, tasks, jobs, fd, unit, endurance, pc>>

(* The next readable connection; while the pool is empty, the worker sleeps
   and tries again. *)
WorkerAlloc(w) ==
  /\ At(w, "select")
  /\ \E c \in ready[w] : /\ fd' = [fd EXCEPT ![w] = c]
                         /\ ready' = [ready EXCEPT ![w] = @ \ {c}]
  /\ Alloc(w)
  /\ Goto(w, "recv")
  /\ UNCHANGED <<data, received, queue, event, tasks, jobs, endurance>>

WorkerRecv(w) ==
  /\ At(w, "recv")
  /\ Fill(w, fd[w])
  /\ Goto(w, "post")
  /\ UNCHANGED <<pool, queue, event, tasks, jobs, ready, fd, unit, endurance>>

WorkerRecvFails(w) ==
  /\ At(w, "recv") /\ Goto(w, "report")
  /\ UNCHANGED <<pool, data, received, queue, event, tasks, jobs, ready, fd, unit, endurance>>

(* The answer to the report of a lost connection is not looked at. *)
WorkerReport(w) ==
  /\ At(w, "report") /\ Goto(w, "clear")
  /\ queue' = IF Len(queue) < QueueSize THEN Append(queue, DisconnectEvent(fd[w]))
                                        ELSE queue
  /\ UNCHANGED <<pool, data, received, event, tasks, jobs, ready, fd, unit, endurance>>

(* Mutant: the connection stays in the worker's set. *)
WorkerClearForgets(w) ==
  /\ At(w, "clear") /\ Goto(w, "select")
  /\ Free(unit[w])
  /\ unit' = [unit EXCEPT ![w] = NoUnit]
  /\ fd' = [fd EXCEPT ![w] = Nobody]
  /\ UNCHANGED <<received, queue, event, tasks, jobs, ready, endurance>>

WorkerClear(w) ==
  /\ At(w, "clear") /\ Goto(w, "select")
  /\ Free(unit[w])
  /\ unit' = [unit EXCEPT ![w] = NoUnit]
  /\ jobs' = [jobs EXCEPT ![w] = @ \ {fd[w]}]
  /\ fd' = [fd EXCEPT ![w] = Nobody]
  /\ UNCHANGED <<received, queue, event, tasks, ready, endurance>>

WorkerPost(w) ==
  /\ At(w, "post") /\ Len(queue) < QueueSize
  /\ queue' = Append(queue, RecvEvent(fd[w], unit[w]))
  /\ unit' = [unit EXCEPT ![w] = NoUnit]
  /\ fd' = [fd EXCEPT ![w] = Nobody]
  /\ Goto(w, "select")
  /\ UNCHANGED <<pool, data, received, event, tasks, jobs, ready, endurance>>

WorkerPostFull(w) ==
  /\ At(w, "post") /\ Len(queue) = QueueSize
  /\ Goto(w, "refused")
  /\ UNCHANGED <<pool, data, received, queue, event, tasks, jobs, ready, fd, unit, endurance>>

(* Mutant: a refused packet is left behind, as the receivers do. *)
WorkerDrops(w) ==
  /\ At(w, "refused") /\ Goto(w, "select")
  /\ unit' = [unit EXCEPT ![w] = NoUnit]
  /\ fd' = [fd EXCEPT ![w] = Nobody]
  /\ UNCHANGED <<pool, data, received, queue, event, tasks, jobs, ready, endurance>>

WorkerGivesBack(w) ==
  /\ At(w, "refused") /\ Goto(w, "select")
  /\ Free(unit[w])
  /\ unit' = [unit EXCEPT ![w] = NoUnit]
  /\ fd' = [fd EXCEPT ![w] = Nobody]
  /\ UNCHANGED <<received, queue, event, tasks, jobs, ready, endurance>>

-----------------------------------------------------------------------------
(* tcp_client_recv_thread. *)

serverSide == <<tasks, jobs, ready, fd>>

(* enet_tcp_client_connect creates the thread; to connect again makes another. *)
Connect(r) ==
  /\ At(r, "off") /\ Goto(r, "alloc")
  /\ UNCHANGED <<pool, data, received, queue, event, serverSide, unit, endurance>>

ReceiverAlloc(r) ==
  /\ At(r, "alloc")
  /\ Alloc(r)
  /\ Goto(r, "recv")
  /\ UNCHANGED <<data, received, queue, event, serverSide, endurance>>

ReceiverRecv(r) ==
  /\ At(r, "recv")
  /\ Fill(r, r)
  /\ Goto(r, "post")
  /\ UNCHANGED <<pool, queue, event, serverSide, unit, endurance>>

(* The unit is forgotten: the next round takes another. *)
ReceiverRecvFails(r) ==
  /\ At(r, "recv")
  /\ endurance' = [endurance EXCEPT ![r] = @ - 1]
  /\ Goto(r, IF endurance[r] > 1 THEN "alloc" ELSE "ended")
  /\ unit' = [unit EXCEPT ![r] = NoUnit]
  /\ UNCHANGED <<pool, data, received, queue, event, serverSide>>

(* Nor is the answer to this post looked at. *)
ReceiverPost(r) ==
  /\ At(r, "post") /\ Goto(r, "alloc")
  /\ queue' = IF Len(queue) < QueueSize THEN Append(queue, RecvEvent(r, unit[r]))
                                        ELSE queue
  /\ unit' = [unit EXCEPT ![r] = NoUnit]
  /\ UNCHANGED <<pool, data, received, event, serverSide, endurance>>

-----------------------------------------------------------------------------
(* enet_event_handler. *)

others == <<received, serverSide, unit, endurance, pc>>

(* Mutant: the unit is freed before the callback has read it. *)
HandlerPopFrees ==
  /\ event = NoEvent /\ queue # <<>>
  /\ event' = Head(queue) /\ queue' = Tail(queue)
  /\ IF event'.id = "recv" THEN Free(event'.unit) ELSE UNCHANGED <<pool, data>>
  /\ UNCHANGED others

HandlerPop ==
  /\ event = NoEvent /\ queue # <<>>
  /\ event' = Head(queue) /\ queue' = Tail(queue)
  /\ UNCHANGED <<pool, data, others>>

(* enet_tcp_server_process_recv or enet_process_client_receive has returned. *)
HandlerRecv ==
  /\ event.id = "recv"
  /\ Free(event.unit)
  /\ event' = NoEvent
  /\ UNCHANGED <<queue, others>>

(* So has enet_tcp_server_remove_client. *)
HandlerDisconnect ==
  /\ event.id = "disconnect"
  /\ event' = NoEvent
  /\ UNCHANGED <<pool, data, queue, others>>

-----------------------------------------------------------------------------
Worker(w) ==
  \/ WorkerSelect(w) \/ WorkerTask(w) \/ WorkerAlloc(w)
  \/ WorkerRecv(w) \/ WorkerRecvFails(w) \/ WorkerReport(w) \/ WorkerClear(w)
  \/ WorkerPost(w) \/ WorkerPostFull(w) \/ WorkerGivesBack(w)

Receiver(r) ==
  \/ Connect(r) \/ ReceiverAlloc(r) \/ ReceiverRecv(r)
  \/ ReceiverRecvFails(r) \/ ReceiverPost(r)

Handler == HandlerPop \/ HandlerRecv \/ HandlerDisconnect

Next == \/ \E w \in Workers : Worker(w)
        \/ \E r \in Receivers : Receiver(r)
        \/ Handler

(* The handler's callbacks return; a worker with a readable connection goes
   on, and recv on it returns at once.  A receiver may wait in recv for ever,
   and no peer need send anything. *)
WorkerGoesOn(w) ==
  \/ WorkerAlloc(w) \/ WorkerRecv(w) \/ WorkerRecvFails(w) \/ WorkerReport(w)
  \/ WorkerClear(w) \/ WorkerPost(w) \/ WorkerPostFull(w) \/ WorkerGivesBack(w)

Fairness == WF_vars(Handler) /\ \A w \in Workers : WF_vars(WorkerGoesOn(w))

Spec == Init /\ [][Next]_vars /\ Fairness

-----------------------------------------------------------------------------
(* Properties. *)

Waiting == IF event = NoEvent THEN queue ELSE <<event>> \o queue

FreeUnits == {freeList[i] : i \in DOMAIN freeList}
HeldUnits == {unit[t] : t \in Threads} \ {NoUnit}
SentUnits == {Waiting[i].unit : i \in DOMAIN Waiting} \ {NoUnit}
LostUnits == Units \ (FreeUnits \cup HeldUnits \cup SentUnits)

(* A unit is in one place: once on the stack, or with one thread, or in one
   event, however threads, refusals and frees interleave; and __packet_state
   says of each whether it is on the stack (enet_packet.c). *)
OneOwner ==
  /\ \A i, j \in DOMAIN freeList : freeList[i] = freeList[j] => i = j
  /\ \A s, t \in Threads : unit[s] = unit[t] /\ unit[s] # NoUnit => s = t
  /\ \A i, j \in DOMAIN Waiting :
       Waiting[i].unit = Waiting[j].unit /\ Waiting[i].unit # NoUnit => i = j
  /\ FreeUnits \cap HeldUnits = {}
  /\ FreeUnits \cap SentUnits = {}
  /\ HeldUnits \cap SentUnits = {}
  /\ FreeUnits = {u \in Units : state[u] = 0}

(* Up to the moment its callback returns, a packet is what was received: a
   unit that is posted is not written again, packets of a connection stay in
   their order though units are used again in any, and after the report that a
   connection is lost nothing of it comes any more (the client object it
   belongs to is gone then; tcp_server.c:601). *)
PacketsStayInOrder ==
  /\ \A i \in DOMAIN Waiting :
       Waiting[i].id = "recv" => data[Waiting[i].unit].peer = Waiting[i].peer
  /\ \A i, j \in DOMAIN Waiting :
       i < j /\ Waiting[i].peer = Waiting[j].peer =>
         /\ Waiting[i].id = "recv"
         /\ Waiting[j].id = "recv" => data[Waiting[i].unit].n < data[Waiting[j].unit].n

(* Units get lost, for no one gives back what a client's receiver leaves behind
   when its recv fails or its post is refused (tcp_client.c:132, 138); workers
   and the handler never lose one, and what is lost never comes back. *)
OnlyReceiversLoseUnits ==
  [][ /\ LostUnits \subseteq LostUnits'
      /\ LostUnits' \ LostUnits \subseteq {unit[r] : r \in Receivers} ]_vars

(* Every unit is lost or kept by receivers: nobody is served any more. *)
Exhausted == Units \subseteq LostUnits \cup {unit[r] : r \in Receivers}

(* A worker that waits for a unit (the loop at tcp_server.c:590) gets one and
   looks at every connection that select reported, unless receivers have them
   all. *)
ReadableIsRead ==
  \A w \in Workers : \A c \in Conns :
    c \in ready[w] ~> (c \notin ready[w] \/ Exhausted)
=============================================================================
