------------------------------ MODULE TcpServer ------------------------------
(***************************************************************************)
(* The TCP server of easenet (tcp_server.c), from the calls of the         *)
(* application down to the sockets: the listener posts connection requests *)
(* to the event queue, the one handler thread accepts them, enters the     *)
(* clients into the tree and hands their sockets to the workers of a       *)
(* thread pool, which read and post what they find back to the handler.    *)
(* Clients are known by their socket number nearly everywhere, and the     *)
(* system uses numbers again.                                              *)
(*                                                                         *)
(* What is done under the lock of the server's handle is one step; the     *)
(* lock itself matters where stop and delete keep it while they wait for   *)
(* the workers (busy).  The client tree is a map from sockets to clients   *)
(* (RBTree implements Dictionary).  Freed memory keeps its contents.       *)
(***************************************************************************)
EXTENDS Integers, FiniteSets, SequencesExt

CONSTANTS App,         \* threads of the application
          Workers,     \* worker threads of the pool
          Peers,       \* connections that may come in
          Socks,       \* socket numbers
          Null,
          SetSize,     \* FD_SETSIZE
          MaxEvents,   \* ENET_DEFAULT_EVENT_DB_SIZE
          MaxData,     \* bound: pieces of data a peer has under way
          MaxCalls     \* bound: calls the application makes

ASSUME ServerAssumption ==
  /\ Null \notin App \cup Workers \cup Peers \cup Socks
  /\ {SetSize, MaxEvents} \subseteq Nat \ {0} /\ {MaxData, MaxCalls} \subseteq Nat

VARIABLES
  obj,      \* the handle has its object
  busy,     \* who holds the write lock of the handle from step to step
  lis,      \* the listener: suspended, running, deaf or dead
  pool,     \* status of the thread pool: ready, run or term
  tree,     \* clients_tree: from socket to client
  cl,       \* the clients: state and socket, from when they are accepted
  sock,     \* the system: the connection a number stands for
  waiting,  \* the system: connections not yet accepted
  unread,   \* the system: data of a connection that was not read
  gone,     \* the system: connections whose peer has closed
  tasks,    \* task queue of the pool
  job,      \* job[w]: jobSet, the sockets of a worker
  wk,       \* wk[w]: where the worker is, sockets still to read, task refused
  evq,      \* the event queue
  hd,       \* the handler: where it is, and its client and socket
  ap,       \* ap[a]: where a thread of the application is
  calls,    \* calls so far
  stray     \* history: sockets closed by the application, or whose event or
            \* task was lost, until a new client with that number is entered

server  == <<obj, busy, lis, pool>>
system  == <<sock, waiting, unread, gone>>
clients == <<tree, cl>>
crew    == <<tasks, job, wk>>
vars    == <<server, system, clients, crew, evq, hd, ap, calls, stray>>

Idle == [pc |-> "idle", c |-> Null, s |-> Null]
Top  == [pc |-> "top", ready |-> {}, task |-> Null]

(* enet_new_tcp_server has returned: listener and workers are suspended.   *)
Init ==
  /\ obj = TRUE /\ busy = Null /\ lis = "suspended" /\ pool = "ready"
  /\ tree = [s \in Socks |-> Null] /\ cl = [c \in Peers |-> [st |-> "none", fd |-> Null]]
  /\ sock = [s \in Socks |-> Null] /\ waiting = {} /\ gone = {}
  /\ unread = [c \in Peers |-> 0]
  /\ tasks = <<>> /\ job = [w \in Workers |-> {}] /\ wk = [w \in Workers |-> [Top EXCEPT !.pc = "suspended"]]
  /\ evq = <<>> /\ hd = Idle /\ ap = [a \in App |-> "idle"]
  /\ calls = 0 /\ stray = {}

Post(kind, s) == IF Len(evq) < MaxEvents THEN Append(evq, [kind |-> kind, s |-> s]) ELSE evq
Full == Len(evq) = MaxEvents
Free(c) == [cl EXCEPT ![c].st = "freed"]
Fresh(S) == CHOOSE x \in S : TRUE    \* which of them does not matter
Close(s) == sock' = [sock EXCEPT ![s] = Null]

-----------------------------------------------------------------------------
(* The peers.                                                              *)

New   == {c \in Peers : cl[c].st = "none"} \ waiting
Known == waiting \cup {sock[s] : s \in Socks}

(* A connection that nobody is going to accept any more is left out.       *)
Heard ==
  \/ lis = "running"
  \/ lis = "suspended" /\ pool = "ready"
  \/ \E i \in DOMAIN evq : evq[i].kind = "connect"

PeerConnects(c) ==
  /\ Heard /\ New # {} /\ c = Fresh(New)
  /\ waiting' = waiting \cup {c}
  /\ UNCHANGED <<server, clients, sock, unread, gone, crew, evq, hd, ap, calls, stray>>

PeerSends(c) ==
  /\ c \in Known /\ c \notin gone /\ unread[c] < MaxData
  /\ unread' = [unread EXCEPT ![c] = @ + 1]
  /\ UNCHANGED <<server, clients, sock, waiting, gone, crew, evq, hd, ap, calls, stray>>

PeerCloses(c) ==
  /\ c \in Known \ gone
  /\ gone' = gone \cup {c}
  /\ UNCHANGED <<server, clients, sock, waiting, unread, crew, evq, hd, ap, calls, stray>>

-----------------------------------------------------------------------------
(* server_listen_thread: as long as a connection waits, another request is *)
(* posted; whether it fits is not looked at.                               *)
Listen ==
  /\ lis = "running" /\ waiting # {} /\ ~Full
  /\ evq' = Post("connect", Null)
  /\ UNCHANGED <<server, system, clients, crew, hd, ap, calls, stray>>

(* The set it listens on is filled once, and select leaves in it what is   *)
(* ready: after half a second without a connection it is empty for ever.   *)
(* When no peer is left to connect it makes no difference.                 *)
ListenQuiet ==
  /\ lis = "running" /\ waiting = {} /\ New # {}
  /\ lis' = "deaf"
  /\ UNCHANGED <<obj, busy, pool, system, clients, crew, evq, hd, ap, calls, stray>>

-----------------------------------------------------------------------------
(* worker_thread of the pool, and server_worker_thread that it calls.      *)

WorkerEnds(w) ==
  /\ wk[w].pc = "top" /\ pool = "term"
  /\ wk' = [wk EXCEPT ![w].pc = "ended"]
  /\ UNCHANGED <<server, system, clients, tasks, job, evq, hd, ap, calls, stray>>

(* A round without a task.                                                 *)
WorkerRound(w) ==
  /\ wk[w].pc = "top" /\ pool = "run" /\ tasks = <<>>
  /\ wk' = [wk EXCEPT ![w].pc = "attr"]
  /\ UNCHANGED <<server, system, clients, tasks, job, evq, hd, ap, calls, stray>>

WorkerTakes(w) ==
  /\ wk[w].pc = "top" /\ pool = "run" /\ tasks # <<>>
  /\ IF Cardinality(job[w]) < SetSize
     THEN /\ job' = [job EXCEPT ![w] = @ \cup {Head(tasks)}]
          /\ wk' = [wk EXCEPT ![w].pc = "attr"]
     ELSE wk' = [wk EXCEPT ![w].pc = "attr", ![w].task = Head(tasks)] /\ UNCHANGED job
  /\ tasks' = Tail(tasks)
  /\ UNCHANGED <<server, system, clients, evq, hd, ap, calls, stray>>

(* enet_get_tcp_server_attr, and select.  That there is no server, and the *)
(* thread ends, never happens: delete waits for the workers first.  select *)
(* refuses an empty set, and a set with a socket that is closed; a task    *)
(* that was refused in this round is then not given back.                  *)
Asked(w) == wk[w].pc = "attr" /\ busy = Null /\ obj
BadSet(w) == job[w] = {} \/ \E s \in job[w] : sock[s] = Null

WorkerSelectFails(w) ==
  /\ Asked(w) /\ BadSet(w)
  /\ wk' = [wk EXCEPT ![w] = Top]
  /\ stray' = stray \cup ({wk[w].task} \ {Null})
  /\ UNCHANGED <<server, system, clients, tasks, job, evq, hd, ap, calls>>

Readable(s) == unread[sock[s]] > 0 \/ sock[s] \in gone

WorkerSelect(w) ==
  /\ Asked(w) /\ ~BadSet(w)
  /\ wk' = [wk EXCEPT ![w].pc = "recv", ![w].ready = {s \in job[w] : Readable(s)}]
  /\ UNCHANGED <<server, system, clients, tasks, job, evq, hd, ap, calls, stray>>

WorkerRecv(w, s) ==
  /\ wk[w].pc = "recv" /\ s \in wk[w].ready
  /\ sock[s] # Null /\ unread[sock[s]] > 0
  /\ unread' = [unread EXCEPT ![sock[s]] = @ - 1]
  /\ evq' = Post("recv", s)
  /\ wk' = [wk EXCEPT ![w].ready = @ \ {s}]
  /\ UNCHANGED <<server, sock, waiting, gone, clients, tasks, job, hd, ap, calls, stray>>

RecvFails(s) == sock[s] \notin Peers \/ (sock[s] \in gone /\ unread[sock[s]] = 0)

(* Plausible faults: the client is removed by the worker that lost it, and *)
(* with its socket closed; the handler is not told.                        *)
WorkerRemovesClient(w, s) ==
  /\ wk[w].pc = "recv" /\ s \in wk[w].ready /\ RecvFails(s)
  /\ tree' = [tree EXCEPT ![s] = Null]
  /\ cl' = IF tree[s] = Null THEN cl ELSE Free(tree[s])
  /\ Close(s)
  /\ job' = [job EXCEPT ![w] = @ \ {s}]
  /\ wk' = [wk EXCEPT ![w].ready = @ \ {s}]
  /\ UNCHANGED <<server, waiting, unread, gone, tasks, evq, hd, ap, calls, stray>>

WorkerTellsNobody(w, s) ==
  /\ wk[w].pc = "recv" /\ s \in wk[w].ready /\ RecvFails(s)
  /\ job' = [job EXCEPT ![w] = @ \ {s}]
  /\ wk' = [wk EXCEPT ![w].ready = @ \ {s}]
  /\ UNCHANGED <<server, system, clients, tasks, evq, hd, ap, calls, stray>>

(* Whether the event that the client is gone fits is not looked at either. *)
WorkerRecvFails(w, s) ==
  /\ wk[w].pc = "recv" /\ s \in wk[w].ready /\ RecvFails(s)
  /\ evq' = Post("gone", s)
  /\ stray' = IF Full THEN stray \cup {s} ELSE stray
  /\ job' = [job EXCEPT ![w] = @ \ {s}]
  /\ wk' = [wk EXCEPT ![w].ready = @ \ {s}]
  /\ UNCHANGED <<server, system, clients, tasks, hd, ap, calls>>

(* A plausible fault: a refused task is not given back.                    *)
WorkerForgetsTask(w) ==
  /\ wk[w].pc = "recv" /\ wk[w].ready = {}
  /\ wk' = [wk EXCEPT ![w] = Top]
  /\ UNCHANGED <<server, system, clients, tasks, job, evq, hd, ap, calls, stray>>

(* The round is over; a refused task goes back to the queue.               *)
WorkerDone(w) ==
  /\ wk[w].pc = "recv" /\ wk[w].ready = {}
  /\ tasks' = IF wk[w].task = Null THEN tasks ELSE Append(tasks, wk[w].task)
  /\ wk' = [wk EXCEPT ![w] = Top]
  /\ UNCHANGED <<server, system, clients, job, evq, hd, ap, calls, stray>>

WorkerStep(w) ==
  \/ WorkerEnds(w) \/ WorkerRound(w) \/ WorkerTakes(w)
  \/ WorkerSelectFails(w) \/ WorkerSelect(w) \/ WorkerDone(w)
  \/ \E s \in Socks : WorkerRecv(w, s) \/ WorkerRecvFails(w, s)

-----------------------------------------------------------------------------
(* The handler of the event queue.  It alone accepts, enters and removes   *)
(* clients while the server lives.                                         *)

Next1(kind) == hd.pc = "idle" /\ evq # <<>> /\ Head(evq).kind = kind /\ evq' = Tail(evq)

(* enet_new_tcp_server_client_object up to accept; is_accpetable has seen  *)
(* that a connection is still there.                                       *)
HandleConnect ==
  /\ Next1("connect") /\ busy = Null
  /\ \/ (~obj \/ waiting = {}) /\ UNCHANGED <<hd, cl, sock, waiting>>
     \/ /\ obj
        /\ waiting # {} /\ \E s \in Socks : sock[s] = Null
        /\ LET c == Fresh(waiting)  s == Fresh({n \in Socks : sock[n] = Null})
           IN /\ sock' = [sock EXCEPT ![s] = c] /\ waiting' = waiting \ {c}
              /\ cl' = [cl EXCEPT ![c] = [st |-> "live", fd |-> s]]
              /\ hd' = [pc |-> "add", c |-> c, s |-> s]
  /\ UNCHANGED <<server, unread, gone, tree, crew, ap, calls, stray>>

(* enet_add_client_to_server.  A client whose socket is still in the tree  *)
(* replaces the one there, and no worker is told.                          *)
HandleAdd ==
  LET c == hd.c  s == hd.s
  IN /\ hd.pc = "add" /\ busy = Null /\ obj
     /\ tree' = [tree EXCEPT ![s] = c]
     /\ IF tree[s] = Null
        THEN tasks' = Append(tasks, s) /\ stray' = stray \ {s} /\ UNCHANGED cl
        ELSE cl' = Free(tree[s]) /\ UNCHANGED <<tasks, stray>>
     /\ hd' = Idle
     /\ UNCHANGED <<server, system, job, wk, evq, ap, calls>>

(* The server is gone, or the task cannot be delivered: the client is      *)
(* deleted, and the callback gets it all the same.                         *)
HandleAddFails ==
  /\ hd.pc = "add" /\ busy = Null
  /\ ~obj \/ tree[hd.s] = Null
  /\ cl' = Free(hd.c) /\ Close(hd.s)
  /\ hd' = Idle
  /\ UNCHANGED <<server, waiting, unread, gone, tree, crew, evq, ap, calls, stray>>

(* A plausible fault: the client is deleted and stays in the tree.         *)
HandleGoneKeepsEntry ==
  /\ Next1("gone") /\ busy = Null
  /\ LET s == Head(evq).s  c == tree[s]
     IN \/ (~obj \/ c = Null) /\ UNCHANGED <<cl, sock>>
        \/ obj /\ c # Null /\ cl' = Free(c) /\ Close(s)
  /\ UNCHANGED <<server, hd, tree, waiting, unread, gone, crew, ap, calls, stray>>

(* enet_tcp_server_remove_client.                                          *)
HandleGone ==
  /\ Next1("gone") /\ busy = Null
  /\ LET s == Head(evq).s  c == tree[s]
     IN \/ ~obj /\ UNCHANGED <<hd, tree, cl, sock>>
        \/ obj /\ c = Null /\ hd' = [Idle EXCEPT !.pc = "fault"] /\ UNCHANGED <<tree, cl, sock>>
        \/ /\ obj /\ c # Null
           /\ tree' = [tree EXCEPT ![s] = Null] /\ cl' = Free(c) /\ Close(s)
           /\ UNCHANGED hd
  /\ UNCHANGED <<server, waiting, unread, gone, crew, ap, calls, stray>>

(* enet_tcp_server_process_recv: the client is looked up under the lock    *)
(* and used after it; data for nobody closes the socket.                   *)
HandleRecv ==
  /\ Next1("recv") /\ busy = Null
  /\ LET s == Head(evq).s
     IN \/ ~obj /\ UNCHANGED <<hd, sock>>
        \/ obj /\ tree[s] = Null /\ Close(s) /\ UNCHANGED hd
        \/ obj /\ tree[s] # Null /\ hd' = [pc |-> "use", c |-> tree[s], s |-> s] /\ UNCHANGED sock
  /\ UNCHANGED <<server, waiting, unread, gone, clients, crew, ap, calls, stray>>

HandleUse ==
  /\ hd.pc = "use" /\ hd' = Idle
  /\ UNCHANGED <<server, system, clients, crew, evq, ap, calls, stray>>

Handle == HandleConnect \/ HandleAdd \/ HandleAddFails \/ HandleGone \/ HandleRecv \/ HandleUse

-----------------------------------------------------------------------------
(* The calls of the application.                                           *)

Call(a) == ap[a] = "idle" /\ busy = Null /\ obj /\ calls < MaxCalls /\ calls' = calls + 1

(* enet_start_tcp_server, once: a pool cannot be started twice.            *)
Start(a) ==
  /\ Call(a) /\ pool = "ready"
  /\ lis' = "running" /\ pool' = "run" /\ wk' = [w \in Workers |-> Top]
  /\ UNCHANGED <<obj, busy, system, clients, tasks, job, evq, hd, ap, stray>>

(* enet_stop_tcp_server and enet_delete_tcp_server wait for the workers    *)
(* with the handle locked: for ever, if they were never started.           *)
StopBegin(a) ==
  /\ Call(a)
  /\ busy' = a /\ lis' = "suspended" /\ pool' = "term"
  /\ ap' = [ap EXCEPT ![a] = "stop"]
  /\ UNCHANGED <<obj, system, clients, crew, evq, hd, stray>>

DeleteBegin(a) ==
  /\ Call(a)
  /\ busy' = a /\ lis' = "dead" /\ pool' = "term"
  /\ tree' = [s \in Socks |-> Null]
  /\ ap' = [ap EXCEPT ![a] = "delete"]
  /\ UNCHANGED <<obj, system, cl, crew, evq, hd, stray>>

Joined == \A w \in Workers : wk[w].pc = "ended"

StopEnd(a) ==
  /\ ap[a] = "stop" /\ Joined
  /\ busy' = Null /\ ap' = [ap EXCEPT ![a] = "idle"]
  /\ UNCHANGED <<obj, lis, pool, system, clients, crew, evq, hd, calls, stray>>

DeleteEnd(a) ==
  /\ ap[a] = "delete" /\ Joined
  /\ busy' = Null /\ obj' = FALSE /\ ap' = [ap EXCEPT ![a] = "idle"]
  /\ UNCHANGED <<lis, pool, system, clients, crew, evq, hd, calls, stray>>

(* enet_is_valid_tcp_client.                                               *)
Valid(c) == cl[c].st # "none" /\ tree[cl[c].fd] = c

(* enet_disconnect_client_from_tcp_server closes the socket and leaves the *)
(* rest to the worker.                                                     *)
Disconnect(a, c) ==
  /\ Call(a) /\ Valid(c)
  /\ Close(cl[c].fd)
  /\ stray' = stray \cup {cl[c].fd}
  /\ UNCHANGED <<server, waiting, unread, gone, clients, crew, evq, hd, ap>>

(* enet_tcp_server_send_to_client reads the client's socket and sends      *)
(* after the lock was given back; nothing of the server changes.           *)
Send(a, c) ==
  /\ Call(a) /\ Valid(c)
  /\ UNCHANGED <<server, system, clients, crew, evq, hd, ap, stray>>

AppStep(a) ==
  \/ Start(a) \/ StopBegin(a) \/ StopEnd(a) \/ DeleteBegin(a) \/ DeleteEnd(a)
  \/ \E c \in Peers : Disconnect(a, c) \/ Send(a, c)

Next ==
  \/ \E c \in Peers : PeerConnects(c) \/ PeerSends(c) \/ PeerCloses(c)
  \/ Listen \/ ListenQuiet \/ Handle
  \/ \E w \in Workers : WorkerStep(w)
  \/ \E a \in App : AppStep(a)

(* Fairness: the workers and the handler go on; peers and application may  *)
(* stop at any time.                                                       *)
Spec == Init /\ [][Next]_vars /\ WF_vars(Handle) /\ \A w \in Workers : WF_vars(WorkerStep(w))

-----------------------------------------------------------------------------
TypeOK ==
  /\ obj \in BOOLEAN /\ busy \in App \cup {Null} /\ pool \in {"ready", "run", "term"}
  /\ lis \in {"suspended", "running", "deaf", "dead"}
  /\ tree \in [Socks -> Peers \cup {Null}] /\ sock \in [Socks -> Peers \cup {Null}]
  /\ waiting \cup gone \subseteq Peers /\ stray \subseteq Socks
  /\ job \in [Workers -> SUBSET Socks] /\ Len(evq) <= MaxEvents

(* A client in the tree is not freed, it is there under its own socket,    *)
(* and unless the server has lost track of that number the number stands   *)
(* for that client (enet_add_client_to_server and                          *)
(* enet_tcp_server_remove_client, with numbers that are used again); and   *)
(* everything keeps its type, the event ring its size.                     *)
TreeHoldsLiveClients ==
  /\ TypeOK
  /\ \A s \in Socks : LET c == tree[s]
       IN c # Null => cl[c] = [st |-> "live", fd |-> s] /\ (s \notin stray => sock[s] = c)

(* The handler uses a client after it gave the lock back, and takes it for *)
(* granted that the client of a "gone" event is in the tree: as it is the  *)
(* only thread that removes clients, it finds it, and it is not freed      *)
(* (enet_tcp_server_process_recv, enet_tcp_server_remove_client).          *)
HandlerUsesLiveClient ==
  /\ hd.pc # "fault"
  /\ hd.pc = "use" => cl[hd.c].st = "live"

(* Every client in the tree is watched: its socket is with exactly one     *)
(* worker, in the queue of tasks, or in an event that says it is gone.     *)
(* Only closing its socket, a full event queue and a refusal in a round    *)
(* whose select failed make the server lose a client (jobSet, task and     *)
(* tree are three copies of one set, in three threads' hands).             *)
Watchers(s) ==
  Cardinality({w \in Workers : s \in job[w]}) + Cardinality({w \in Workers : wk[w].task = s})
  + Cardinality({i \in DOMAIN tasks : tasks[i] = s})
  + Cardinality({i \in DOMAIN evq : evq[i] = [kind |-> "gone", s |-> s]})

ClientsAreWatched ==
  \A s \in Socks : tree[s] # Null /\ s \notin stray /\ busy = Null => Watchers(s) = 1

(* A client whose peer has closed leaves the tree, if a worker watches it, *)
(* the server goes on and it has lost no socket: the way from select over  *)
(* the event to the handler is never cut (server_worker_thread,            *)
(* enet_event_handler).                                                    *)
GoneClientIsRemoved ==
  \A s \in Socks :
    ((\E w \in Workers : s \in job[w]) /\ sock[s] \in gone /\ tree[s] = sock[s])
      ~> (tree[s] = Null \/ stray # {} \/ pool # "run")
=============================================================================
