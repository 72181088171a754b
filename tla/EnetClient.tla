----------------------------- MODULE EnetClient -----------------------------
(***************************************************************************)
(* The TCP client (tcp_client.c) and the UDP object (udp_cs.c) on top of   *)
(* the handle table: the calls of the application, the receiving threads   *)
(* they create and kill, and the thread that handles received data.        *)
(* Connections, sockets and waiting times are the environment: connecting, *)
(* sending and receiving succeed or fail, a wait of 4 s may run out.       *)
(* Memory that was freed keeps its contents, the outcome in which a use    *)
(* after free goes on; an access fault would end the program.              *)
(***************************************************************************)
EXTENDS EnetHandle

CONSTANTS App,        \* threads of the application
          Recv,       \* the threads that can be created to receive
          Handler,    \* the thread of the event queue
          Socks,      \* socket numbers, which the system uses again
          MaxCalls    \* bound: calls the application makes

ASSUME ClientAssumption ==
  /\ Threads = App \cup Recv \cup {Handler} /\ Handler \notin App \cup Recv
  /\ App \cap Recv = {} /\ Null \notin Socks /\ MaxCalls \in Nat

VARIABLES ob,       \* ob[o]: an ENET_TCP_CLIENT or ENET_UDP_OBJ
          open,     \* the sockets that are open
          events,   \* clients with a receive event in the queue
          calls     \* calls made so far

vars == <<hvars, th, ob, open, events, calls>>
cvars == <<ob, open, events, calls>>

NoObj == [kind |-> "none", fd |-> Null, thread |-> Null, freed |-> FALSE]
Start == [pc |-> "idle", fn |-> "none", h |-> Null, o |-> Null, want |-> "r", live |-> TRUE,
          tail |-> Null, ok |-> TRUE, fd |-> Null, left |-> 0]

Init ==
  /\ HandleInit
  /\ th = [p \in Threads |-> [Start EXCEPT !.pc = IF p \in Recv THEN "none" ELSE "idle"]]
  /\ ob = [o \in Objs |-> NoObj] /\ open = {} /\ events = {} /\ calls = 0

Obj(p) == hs[th[p].h].obj
Idle(p) == th' = [th EXCEPT ![p] = Start]
In(p, fn) == At(p, "in") /\ th[p].fn = fn
Gone(r) == r \notin {x \in Recv : th[x].pc \notin {"none", "ended", "dead"}}

(* A thread that is terminated keeps the locks it holds, that of the table *)
(* too if it was between locking and unlocking it.                         *)
KeptTable(r) == IF th[r].pc \in {"find", "unref"} /\ db = Null THEN {Null, r} ELSE {db}

(* A thread that starts to receive on handle h: tcp_client_recv_thread     *)
(* first asks for the attributes, upd_receive_thread waits for data.       *)
Receiver(h, o) ==
  [Start EXCEPT !.h = h, !.fd = ob[o].fd,
                !.pc = IF ob[o].kind = "tcp" THEN "find" ELSE "wait",
                !.fn = IF ob[o].kind = "tcp" THEN "attr" ELSE "uattr"]

FreeThreads == {r \in Recv : th[r].pc = "none"}
NewObjs == {o \in Objs : ob[o].kind = "none"}

-----------------------------------------------------------------------------
(* Calls.  enet_new_tcp_client and enet_new_udp make the object and its    *)
(* socket before they ask for a handle.                                    *)

Call(p) == p \in App /\ At(p, "idle") /\ calls < MaxCalls /\ calls' = calls + 1

CallNew(p, kind) ==
  /\ Call(p)
  /\ NewObjs # {} /\ Socks \ open # {}
  /\ LET o == Fresh(NewObjs)  fd == Fresh(Socks \ open)
     IN /\ ob' = [ob EXCEPT ![o].kind = kind, ![o].fd = fd]
        /\ open' = open \cup {fd}
        /\ th' = [th EXCEPT ![p] = [Start EXCEPT !.pc = "new", !.fn = kind, !.o = o]]
  /\ UNCHANGED <<hvars, events>>

(* A plausible fault: a UDP object is deleted under a read lock, as a TCP  *)
(* client is.                                                              *)
CallOnReads(p, fn, h) ==
  /\ Call(p)
  /\ h \in used /\ hs[h].obj # Null
  /\ CallLock(p, h, IF fn = "disconnect" THEN "w" ELSE "r", fn)
  /\ UNCHANGED <<hvars, ob, open, events>>

CallOn(p, fn, h) ==
  /\ Call(p)
  /\ h \in used /\ hs[h].obj # Null
  /\ CallLock(p, h, IF fn \in {"disconnect", "udelete"} THEN "w" ELSE "r", fn)
  /\ UNCHANGED <<hvars, ob, open, events>>

(* Every function looks for the magic number of its kind of object.        *)
TcpCalls == {"connect", "reconnect", "disconnect", "tdelete", "send", "attr", "handle"}
Mismatch(p) == ob[Obj(p)].kind # IF th[p].fn \in TcpCalls THEN "tcp" ELSE "udp"

(* enet_tcp_client_send forgets to unlock a handle of another kind.        *)
WrongKind(p) ==
  /\ At(p, "in") /\ Obj(p) # Null /\ Mismatch(p)
  /\ IF th[p].fn = "send" THEN Idle(p) /\ UNCHANGED lk ELSE LeaveRefused(p)
  /\ UNCHANGED <<hs, used, head, reuse, db, cvars>>

(* Another reader has deleted the object since: its pointer is null.  And  *)
(* enet_udp_set_target and enet_udp_send do not look whether the handle is *)
(* one of theirs.                                                          *)
NoObject(p) ==
  /\ At(p, "in")
  /\ Obj(p) # Null => th[p].fn = "usend" /\ Mismatch(p)
  /\ Go(p, "fault")
  /\ UNCHANGED <<hvars, cvars>>

Right(p) == Obj(p) # Null /\ ~Mismatch(p)

-----------------------------------------------------------------------------
(* enet_tcp_client_connect, under the read lock of the handle.             *)

ConnectSocket(p) ==
  /\ th[p].fn \in {"connect", "reconnect"} /\ At(p, "in") /\ Right(p)
  /\ LET o == Obj(p)
         fd == IF ob[o].fd = Null THEN Fresh(Socks \ open) ELSE ob[o].fd
     IN /\ ob[o].fd = Null => Socks \ open # {}
        /\ ob' = [ob EXCEPT ![o].fd = fd]
        /\ open' = IF ob[o].fd = Null THEN open \cup {fd} ELSE open
        /\ th' = [th EXCEPT ![p].pc = "select", ![p].o = o]
  /\ UNCHANGED <<hvars, events, calls>>

Connected(p) ==
  /\ At(p, "select")
  /\ ob[th[p].o].fd \in open
  /\ FreeThreads # {}
  /\ LET r == Fresh(FreeThreads)
     IN /\ ob' = [ob EXCEPT ![th[p].o].thread = r]
        /\ Leave(p, [th EXCEPT ![r] = Receiver(th[p].h, th[p].o)])
  /\ UNCHANGED <<hs, used, head, reuse, db, open, events, calls>>

(* The connection stands, but there is no thread to receive from it.       *)
ReceiverFails(p) ==
  /\ At(p, "select")
  /\ ob[th[p].o].fd \in open
  /\ ob' = [ob EXCEPT ![th[p].o].thread = Null]
  /\ LeaveRefused(p)
  /\ UNCHANGED <<hs, used, head, reuse, db, open, events, calls>>

ConnectFails(p) ==
  /\ At(p, "select")
  /\ open' = open \ {ob[th[p].o].fd}
  /\ ob' = [ob EXCEPT ![th[p].o].fd = Null]
  /\ th' = [th EXCEPT ![p].pc = "cwait", ![p].ok = FALSE]
  /\ UNCHANGED <<hvars, events, calls>>

(* Waiting for the receiving thread ends when it has ended, or after 4 s;  *)
(* connect then terminates it, wherever it is, disconnect lets it be.      *)
WaitEnds(p) ==
  /\ th[p].pc \in {"cwait", "dwait"}
  /\ Gone(ob[th[p].o].thread)
  /\ Leave(p, th)
  /\ UNCHANGED <<hs, used, head, reuse, db, cvars>>

WaitTimesOut(p) ==
  LET r == ob[th[p].o].thread
  IN /\ th[p].pc \in {"cwait", "dwait"} /\ ~Gone(r)
     /\ IF At(p, "cwait")
        THEN /\ db' \in KeptTable(r)
             /\ Leave(p, [th EXCEPT ![r].pc = "dead"])
        ELSE Leave(p, th) /\ UNCHANGED db
     /\ UNCHANGED <<hs, used, head, reuse, cvars>>

-----------------------------------------------------------------------------
Disconnect(p) ==
  /\ In(p, "disconnect") /\ Right(p)
  /\ LET o == Obj(p)
     IN IF ob[o].fd \in open
        THEN /\ open' = open \ {ob[o].fd}
             /\ ob' = [ob EXCEPT ![o].fd = Null]
             /\ th' = [th EXCEPT ![p].pc = "dwait", ![p].o = o]
             /\ UNCHANGED lk
        ELSE LeaveRefused(p) /\ UNCHANGED <<open, ob>>
  /\ UNCHANGED <<hs, used, head, reuse, db, events, calls>>

(* enet_delete_tcp_client takes the object away under a READ lock.         *)
DeleteClient(p) ==
  /\ In(p, "tdelete") /\ Right(p)
  /\ LET o == Obj(p)
     IN /\ hs' = [hs EXCEPT ![th[p].h].obj = Null]
        /\ open' = open \ {ob[o].fd}
        /\ ob' = [ob EXCEPT ![o].freed = TRUE]
  /\ Leave(p, th)
  /\ UNCHANGED <<used, head, reuse, db, events, calls>>

(* enet_tcp_client_send keeps the object and lets go of the handle.        *)
SendBegin(p) ==
  /\ In(p, "send") /\ Right(p)
  /\ Leave(p, [th EXCEPT ![p].o = Obj(p)])
  /\ UNCHANGED <<hs, used, head, reuse, db, cvars>>

SendOk(p) ==
  /\ At(p, "sending") /\ ob[th[p].o].fd \in open
  /\ Idle(p)
  /\ UNCHANGED <<hvars, cvars>>

SendFails(p) ==
  /\ At(p, "sending")
  /\ IF th[p].left > 0 THEN Idle(p) ELSE CallLock(p, th[p].h, "r", "reconnect")
  /\ UNCHANGED <<hvars, cvars>>

(* enet_delete_udp: under the write lock, the receiving thread is          *)
(* terminated wherever it is and the object freed.                         *)
DeleteUdp(p) ==
  /\ In(p, "udelete") /\ Right(p)
  /\ LET o == Obj(p)  r == ob[o].thread
     IN /\ hs' = [hs EXCEPT ![th[p].h].obj = Null]
        /\ open' = open \ {ob[o].fd}
        /\ ob' = [ob EXCEPT ![o].freed = TRUE]
        /\ IF Gone(r)
           THEN Leave(p, th) /\ UNCHANGED db
           ELSE db' \in KeptTable(r) /\ Leave(p, [th EXCEPT ![r].pc = "dead"])
  /\ UNCHANGED <<used, head, reuse, events, calls>>

(* enet_udp_set_target, enet_udp_send and the other senders read the       *)
(* object under the read lock and do the rest after it.                    *)
UseUdp(p) ==
  /\ In(p, "usend") /\ Right(p) /\ Leave(p, th)
  /\ UNCHANGED <<hs, used, head, reuse, db, cvars>>

-----------------------------------------------------------------------------
(* Receiving.                                                              *)

(* enet_get_tcp_client_attr, and the copies upd_receive_thread takes.      *)
Attributes(p) ==
  /\ th[p].fn \in {"attr", "uattr", "handle"} /\ At(p, "in") /\ Right(p)
  /\ Leave(p, [th EXCEPT ![p].o = Obj(p), ![p].fd = IF th[p].fn = "uattr" THEN @ ELSE ob[Obj(p)].fd])
  /\ UNCHANGED <<hs, used, head, reuse, db, cvars>>

RecvData(r) ==
  /\ At(r, "recv") /\ th[r].fd \in open
  /\ events' = events \cup {th[r].h}
  /\ UNCHANGED <<hvars, th, ob, open, calls>>

(* The socket is closed, or the peer is: after two such answers the thread *)
(* ends.                                                                   *)
RecvFails(r) ==
  /\ At(r, "recv")
  /\ th' = [th EXCEPT ![r].left = @ - 1, ![r].pc = IF th[r].left = 1 THEN "ended" ELSE @]
  /\ UNCHANGED <<hvars, cvars>>

(* select leaves a socket in the set only when it has something to read:   *)
(* after a second without a datagram the set is empty for ever.            *)
UdpData(r) ==
  /\ At(r, "wait") /\ th[r].fd \in open
  /\ CallLock(r, th[r].h, "r", "uattr")
  /\ UNCHANGED <<hvars, cvars>>

UdpQuiet(r) ==
  /\ At(r, "wait") /\ th[r].fd \in open
  /\ th' = [th EXCEPT ![r].fd = Null]
  /\ UNCHANGED <<hvars, cvars>>

HandleEvent(p) ==
  /\ p = Handler /\ At(p, "idle")
  /\ \E h \in events : events' = events \ {h} /\ CallLock(p, h, "r", "handle")
  /\ UNCHANGED <<hvars, ob, open, calls>>

(* enet_process_client_receive unpacks into the object's buffer, without a *)
(* lock.                                                                   *)
UseBuffer(p) == At(p, "use") /\ Idle(p) /\ UNCHANGED <<hvars, cvars>>

-----------------------------------------------------------------------------
(* What comes after the handle has been dealt with.                        *)

Follows(fn) == CASE fn \in {"tdelete", "udelete"} -> "del"
                 [] fn \in {"send", "reconnect"} -> "sending"
                 [] fn = "attr" -> "recv"
                 [] fn = "uattr" -> "wait"
                 [] fn = "handle" -> "use"

Done(p) ==
  LET fn == th[p].fn
  IN /\ At(p, "done") /\ fn # "udp"
     /\ IF th[p].ok /\ fn \in {"tdelete", "udelete", "send", "reconnect", "attr", "uattr", "handle"}
        THEN th' = [th EXCEPT ![p].pc = Follows(fn), ![p].fn = "none",
                              ![p].left = CASE fn = "attr" -> 2 [] fn = "reconnect" -> 1 [] OTHER -> 0]
        ELSE IF p \in Recv THEN Go(p, "ended") ELSE Idle(p)
     /\ UNCHANGED <<hvars, cvars>>

(* enet_new_udp creates its receiving thread, or cannot bind its socket    *)
(* and takes back what it made, with the handle still naming the object.   *)
NewUdpStarts(p) ==
  /\ At(p, "done") /\ th[p].fn = "udp" /\ FreeThreads # {}
  /\ LET r == Fresh(FreeThreads)
     IN /\ ob' = [ob EXCEPT ![th[p].o].thread = r]
        /\ th' = [th EXCEPT ![p] = Start, ![r] = Receiver(th[p].h, th[p].o)]
  /\ UNCHANGED <<hvars, open, events, calls>>

(* CreateThread answers 0 when it fails, which the code takes for a thread. *)
NewUdpDeaf(p) == At(p, "done") /\ th[p].fn = "udp" /\ Idle(p) /\ UNCHANGED <<hvars, cvars>>

NewUdpFails(p) ==
  /\ At(p, "done") /\ th[p].fn = "udp"
  /\ open' = open \ {ob[th[p].o].fd}
  /\ ob' = [ob EXCEPT ![th[p].o].freed = TRUE]
  /\ th' = [th EXCEPT ![p].pc = "del", ![p].fn = "none"]
  /\ UNCHANGED <<hvars, events, calls>>

Step(p) ==
  \/ HandleStep(p) /\ UNCHANGED cvars
  \/ WrongKind(p) \/ NoObject(p)
  \/ ConnectSocket(p) \/ Connected(p) \/ ReceiverFails(p) \/ ConnectFails(p)
  \/ WaitEnds(p) \/ WaitTimesOut(p)
  \/ Disconnect(p) \/ DeleteClient(p) \/ SendBegin(p) \/ SendOk(p) \/ SendFails(p)
  \/ DeleteUdp(p) \/ UseUdp(p)
  \/ Attributes(p) \/ RecvData(p) \/ RecvFails(p) \/ UdpData(p) \/ UdpQuiet(p) \/ UseBuffer(p)
  \/ Done(p) \/ NewUdpStarts(p) \/ NewUdpDeaf(p) \/ NewUdpFails(p)

CallAny(p) ==
  \/ \E kind \in {"tcp", "udp"} : CallNew(p, kind)
  \/ \E fn \in {"connect", "disconnect", "tdelete", "send", "udelete", "usend"}, h \in Handles : CallOn(p, fn, h)

Running == \A p \in Threads : ~At(p, "fault")

Next == Running /\ \E p \in Threads : CallAny(p) \/ Step(p) \/ HandleEvent(p)

Spec == Init /\ [][Next]_vars

-----------------------------------------------------------------------------
TypeOK ==
  /\ hs \in [Handles -> [next : Handles \cup {Null}, prev : Handles \cup {Null}, refcnt : Nat,
                        alive : BOOLEAN, obj : Objs \cup {Null}]]
  /\ used \subseteq Handles /\ head \in used \cup {Null} /\ reuse \in Seq(used)
  /\ db \in Threads \cup {Null}
  /\ open \subseteq Socks /\ events \subseteq used /\ calls \in 0..MaxCalls

(* While a disconnect waits for the receiving thread it has the handle to  *)
(* itself: the client has no socket and is neither freed nor connected by  *)
(* anybody else (enet_tcp_client_disconnect, between closesocket and       *)
(* enet_handle_unlock).                                                    *)
Within(p, h) == th[p].h = h /\ th[p].pc \in {"in", "select", "cwait", "dwait"}

WriterOwnsClient ==
  \A p \in App : At(p, "dwait") =>
     LET h == th[p].h  o == th[p].o
     IN /\ hs[h].obj = o /\ ob[o].fd = Null /\ ~ob[o].freed
        /\ \A q \in Threads \ {p} : ~Within(q, h)

(* What is in the reuse table is dead, is there once, and nobody is at     *)
(* work behind its lock (enet_delete_handle, enet_reuse_handle, and every  *)
(* caller that found the handle in the list before it was deleted); and    *)
(* everything keeps its type.                                              *)
ReusedIsUnused ==
  /\ TypeOK
  /\ \A i, j \in DOMAIN reuse : reuse[i] = reuse[j] => i = j
  /\ \A i \in DOMAIN reuse : /\ ~hs[reuse[i]].alive
                             /\ \A p \in Threads : ~Within(p, reuse[i])

(* A receiving thread of a UDP object is terminated wherever it is; as     *)
(* that happens under the write lock of the very handle the thread reads,  *)
(* it never dies with that lock held (enet_delete_udp).  Not so a TCP      *)
(* receiver that still asks for the attributes: connect kills it under a   *)
(* read lock.                                                              *)
KilledReaderHoldsNoHandle ==
  \A r \in Recv : At(r, "dead") /\ th[r].fn # "attr" => \A h \in Handles : lk[h].r[r] = 0

(* Code comments, enet_handle.c: "Try to find a handle value in table" and *)
(* "Append handle value to the tail".  The table is a list with an end,    *)
(* and every handle that is alive is in it.                                *)
LiveHandleIsFound ==
  ~Endless /\ \A h \in used : hs[h].alive => h \in Chain
=============================================================================
