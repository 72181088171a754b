--------------------------- MODULE TcpServerProofs ---------------------------
(***************************************************************************)
(* The clients of the TCP server, for any number of peers, sockets,        *)
(* workers and threads of the application.                                 *)
(*                                                                         *)
(*   Clients  what is in the tree, and what the handler has in its hands;  *)
(*   WatchOf  where the one watcher of a socket is, and that whoever is    *)
(*            watched is in the tree;                                      *)
(*   Turns    who holds the handle, and that suspended workers have        *)
(*            nothing to do.                                               *)
(***************************************************************************)
EXTENDS TcpServer, SequenceTheorems, FiniteSetTheorems, TLAPS

Events == [kind : {"connect", "recv", "gone"}, s : Socks \cup {Null}]
Gone(s) == [kind |-> "gone", s |-> s]
Client == [st : {"none"}, fd : {Null}] \cup [st : {"live", "freed"}, fd : Socks]

Shape ==
  /\ TypeOK
  /\ cl \in [Peers -> Client]
  /\ wk \in [Workers -> [pc : {"suspended", "top", "attr", "recv", "ended"},
                         ready : SUBSET Socks, task : Socks \cup {Null}]]
  /\ hd \in [pc : {"idle", "add", "use"}, c : Peers \cup {Null}, s : Socks \cup {Null}]
  /\ ap \in [App -> {"idle", "stop", "delete"}]
  /\ tasks \in Seq(Socks)
  /\ evq \in Seq(Events) /\ \A i \in DOMAIN evq : evq[i].kind # "connect" => evq[i].s \in Socks

(* The object is there, and nobody is deleting it. *)
Alive == obj /\ \A a \in App : ap[a] # "delete"

Turns ==
  /\ \A a \in App : ap[a] # "idle" => busy = a
  /\ pool = "ready" => \A w \in Workers : wk[w].pc = "suspended"
  /\ \A w \in Workers : /\ wk[w].ready \subseteq job[w]
                        /\ wk[w].task # Null => wk[w].pc \in {"attr", "recv"}

Clients ==
  /\ \A s \in Socks : tree[s] # Null =>
       cl[tree[s]] = [st |-> "live", fd |-> s] /\ (s \notin stray => sock[s] = tree[s])
  /\ \A c \in waiting : cl[c].st = "none"
  /\ ~ Alive => \A s \in Socks : tree[s] = Null
  /\ hd.pc = "use" => hd.c \in Peers /\ cl[hd.c].st = "live"
  /\ hd.pc = "add" =>
       /\ hd.c \in Peers /\ hd.s \in Socks /\ cl[hd.c] = [st |-> "live", fd |-> hd.s]
       /\ \A s \in Socks : tree[s] # hd.c
       /\ Alive /\ tree[hd.s] = Null => sock[hd.s] = hd.c
       /\ Alive /\ tree[hd.s] # Null => hd.s \in stray

(* An element of a sequence: that it occurs, and no more than once. *)
Occurs(q, x) == \E i \in DOMAIN q : q[i] = x
Once(q, x) == \A i, j \in DOMAIN q : q[i] = x /\ q[j] = x => i = j

InJob(s)   == \E w \in Workers : s \in job[w]
Refused(s) == \E w \in Workers : wk[w].task = s
Queued(s)  == Occurs(tasks, s)
Told(s)    == Occurs(evq, Gone(s))
Watched(s) == InJob(s) \/ Refused(s) \/ Queued(s) \/ Told(s)

WatchOf(s) ==
  /\ \A w, v \in Workers : s \in job[w] /\ s \in job[v] => w = v
  /\ \A w, v \in Workers : wk[w].task = s /\ wk[v].task = s => w = v
  /\ Once(tasks, s) /\ Once(evq, Gone(s))
  /\ InJob(s) => ~ Refused(s) /\ ~ Queued(s) /\ ~ Told(s)
  /\ Refused(s) => ~ Queued(s) /\ ~ Told(s)
  /\ Queued(s) => ~ Told(s)
  /\ Alive /\ Watched(s) => tree[s] # Null
  /\ tree[s] # Null /\ s \notin stray => Watched(s)

Watch == \A s \in Socks : WatchOf(s)

IInv == Shape /\ Turns /\ Clients /\ Watch
----------------------------------------------------------------------------
(* Sequences. *)

LEMMA SeqIs ==
  ASSUME NEW S, NEW q \in Seq(S)
  PROVE  DOMAIN q = 1..Len(q) /\ Len(q) \in Nat /\ \A i \in DOMAIN q : q[i] \in S
BY LenProperties

LEMMA OnAppend ==
  ASSUME NEW S, NEW q \in Seq(S), NEW e \in S
  PROVE  /\ Append(q, e) \in Seq(S) /\ Len(Append(q, e)) = Len(q) + 1
         /\ \A i \in DOMAIN Append(q, e) : Append(q, e)[i] = e \/ (i \in DOMAIN q /\ Append(q, e)[i] = q[i])
         /\ \A x : Occurs(Append(q, e), x) <=> Occurs(q, x) \/ x = e
         /\ \A x : Once(q, x) /\ (x = e => ~ Occurs(q, x)) => Once(Append(q, e), x)
<1>1. /\ Append(q, e) \in Seq(S) /\ Len(Append(q, e)) = Len(q) + 1
      /\ Append(q, e)[Len(q) + 1] = e
      /\ \A i \in 1..Len(q) : Append(q, e)[i] = q[i]
  BY AppendProperties
<1>2. /\ DOMAIN q = 1..Len(q) /\ Len(q) \in Nat
      /\ DOMAIN Append(q, e) = 1..(Len(q) + 1)
  BY <1>1, SeqIs
<1>3. \A i : i \in 1..(Len(q) + 1) <=> i \in 1..Len(q) \/ i = Len(q) + 1
  BY <1>2
<1>4. ASSUME NEW x PROVE Occurs(Append(q, e), x) <=> Occurs(q, x) \/ x = e
  BY <1>1, <1>2, <1>3 DEF Occurs
<1>5. ASSUME NEW x, Once(q, x), x = e => ~ Occurs(q, x) PROVE Once(Append(q, e), x)
  BY <1>1, <1>2, <1>3, <1>5 DEF Occurs, Once
<1> QED
  BY <1>1, <1>2, <1>3, <1>4, <1>5

LEMMA OnTail ==
  ASSUME NEW S, NEW q \in Seq(S), q # <<>>
  PROVE  /\ Head(q) \in S /\ Tail(q) \in Seq(S) /\ Len(Tail(q)) < Len(q)
         /\ Occurs(q, Head(q))
         /\ \A i \in DOMAIN Tail(q) : \E j \in DOMAIN q : Tail(q)[i] = q[j]
         /\ \E j \in DOMAIN q : Head(q) = q[j]
         /\ \A x : Occurs(q, x) <=> Occurs(Tail(q), x) \/ x = Head(q)
         /\ \A x : Once(q, x) => Once(Tail(q), x) /\ (x = Head(q) => ~ Occurs(Tail(q), x))
<1>1. /\ Head(q) \in S /\ Head(q) = q[1] /\ Tail(q) \in Seq(S)
      /\ Len(q) \in Nat \ {0} /\ Len(Tail(q)) = Len(q) - 1
      /\ \A i \in 1..Len(Tail(q)) : Tail(q)[i] = q[i + 1]
  BY HeadTailProperties, EmptySeq
<1>2. DOMAIN q = 1..Len(q) /\ DOMAIN Tail(q) = 1..(Len(q) - 1)
  BY <1>1, SeqIs
<1>3. /\ 1 \in 1..Len(q)
      /\ \A i \in 1..(Len(q) - 1) : i + 1 \in 1..Len(q) /\ i + 1 # 1
      /\ \A i \in 1..Len(q) : i # 1 => i - 1 \in 1..(Len(q) - 1) /\ (i - 1) + 1 = i
  BY <1>1
<1>4. \A i \in 1..(Len(q) - 1) : Tail(q)[i] = q[i + 1]
  BY <1>1
<1>5. \A i \in 1..Len(q) : i # 1 => Tail(q)[i - 1] = q[i]
  BY <1>3, <1>4
<1>6. ASSUME NEW x PROVE Occurs(q, x) <=> Occurs(Tail(q), x) \/ x = Head(q)
  <2>1. ASSUME Occurs(q, x), x # Head(q) PROVE Occurs(Tail(q), x)
    <3>1. PICK i \in 1..Len(q) : q[i] = x
      BY <1>2, <2>1 DEF Occurs
    <3>2. i # 1
      BY <1>1, <2>1, <3>1
    <3>3. i - 1 \in DOMAIN Tail(q) /\ Tail(q)[i - 1] = x
      BY <1>2, <1>3, <1>5, <3>1, <3>2
    <3> QED
      BY <3>3 DEF Occurs
  <2>2. Occurs(Tail(q), x) => Occurs(q, x)
    BY <1>2, <1>3, <1>4 DEF Occurs
  <2>3. x = Head(q) => Occurs(q, x)
    BY <1>1, <1>2, <1>3 DEF Occurs
  <2> QED
    BY <2>1, <2>2, <2>3
<1>7. ASSUME NEW x, Once(q, x) PROVE Once(Tail(q), x) /\ (x = Head(q) => ~ Occurs(Tail(q), x))
  <2>1. ASSUME NEW i \in DOMAIN Tail(q), NEW j \in DOMAIN Tail(q), Tail(q)[i] = x, Tail(q)[j] = x
        PROVE  i = j
    <3>1. i + 1 \in DOMAIN q /\ j + 1 \in DOMAIN q /\ q[i + 1] = x /\ q[j + 1] = x
      BY <1>2, <1>3, <1>4, <2>1
    <3>2. i + 1 = j + 1
      BY <1>7, <3>1 DEF Once
    <3> QED
      BY <1>1, <1>2, <2>1, <3>2
  <2>2. ASSUME x = Head(q), NEW i \in DOMAIN Tail(q), Tail(q)[i] = x PROVE FALSE
    <3>1. i + 1 \in DOMAIN q /\ 1 \in DOMAIN q /\ q[i + 1] = x /\ q[1] = x /\ i + 1 # 1
      BY <1>1, <1>2, <1>3, <1>4, <2>2
    <3> QED
      BY <1>7, <3>1 DEF Once
  <2> QED
    BY <2>1, <2>2 DEF Once, Occurs
<1>8. Occurs(q, Head(q)) /\ \E j \in DOMAIN q : Head(q) = q[j]
  BY <1>1, <1>2, <1>3 DEF Occurs
<1>9. \A i \in DOMAIN Tail(q) : \E j \in DOMAIN q : Tail(q)[i] = q[j]
  BY <1>2, <1>3, <1>4
<1> QED
  BY <1>1, <1>6, <1>7, <1>8, <1>9
----------------------------------------------------------------------------
(* The event queue. *)

EventsOK(q) == /\ q \in Seq(Events) /\ Len(q) <= MaxEvents
               /\ \A i \in DOMAIN q : q[i].kind # "connect" => q[i].s \in Socks

LEMMA OnPost ==
  ASSUME Shape, NEW kind \in {"connect", "recv", "gone"}, NEW s \in Socks \cup {Null},
         kind # "connect" => s \in Socks
  PROVE  /\ EventsOK(Post(kind, s))
         /\ Full => Post(kind, s) = evq
         /\ \A x \in Socks : kind # "gone" \/ x # s =>
              /\ Occurs(Post(kind, s), Gone(x)) <=> Occurs(evq, Gone(x))
              /\ Once(evq, Gone(x)) => Once(Post(kind, s), Gone(x))
         /\ ~ Full /\ kind = "gone" => Occurs(Post(kind, s), Gone(s))
         /\ ~ Full /\ ~ Occurs(evq, Gone(s)) /\ Once(evq, Gone(s)) => Once(Post(kind, s), Gone(s))
<1> DEFINE e == [kind |-> kind, s |-> s]
<1>1. e \in Events /\ (e.kind # "connect" => e.s \in Socks)
  BY DEF Events
<1>2. /\ evq \in Seq(Events) /\ Len(evq) \in Nat /\ MaxEvents \in Nat
      /\ Len(evq) <= MaxEvents
      /\ \A i \in DOMAIN evq : evq[i].kind # "connect" => evq[i].s \in Socks
  BY LenProperties, ServerAssumption DEF Shape, TypeOK
<1>3. \A x \in Socks : kind # "gone" \/ x # s => Gone(x) # e
  BY DEF Gone
<1>4. kind = "gone" => Gone(s) = e
  BY DEF Gone
<1>5. CASE Full
  <2>1. Post(kind, s) = evq
    BY <1>2, <1>5 DEF Post, Full
  <2> QED
    BY <1>2, <1>5, <2>1 DEF EventsOK
<1>6. CASE ~ Full
  <2>1. Post(kind, s) = Append(evq, e) /\ Len(evq) + 1 <= MaxEvents
    BY <1>2, <1>6 DEF Post, Full
  <2> HIDE DEF e
  <2>2. /\ Append(evq, e) \in Seq(Events) /\ Len(Append(evq, e)) = Len(evq) + 1
        /\ \A i \in DOMAIN Append(evq, e) :
              Append(evq, e)[i] = e \/ (i \in DOMAIN evq /\ Append(evq, e)[i] = evq[i])
        /\ \A x : Occurs(Append(evq, e), x) <=> Occurs(evq, x) \/ x = e
        /\ \A x : Once(evq, x) /\ (x = e => ~ Occurs(evq, x)) => Once(Append(evq, e), x)
    BY <1>1, <1>2, OnAppend
  <2>3. EventsOK(Append(evq, e))
    BY <1>1, <1>2, <2>1, <2>2 DEF EventsOK
  <2>4. ~ Occurs(evq, Gone(s)) /\ Once(evq, Gone(s)) => Once(Append(evq, e), Gone(s))
    BY <2>2
  <2> QED
    BY <1>3, <1>4, <1>6, <2>1, <2>2, <2>3, <2>4
<1> QED
  BY <1>5, <1>6

LEMMA OnHandled ==
  ASSUME Shape, evq # <<>>
  PROVE  /\ EventsOK(Tail(evq)) /\ Head(evq) \in Events
         /\ Head(evq).kind # "connect" => Head(evq).s \in Socks
         /\ Head(evq).kind = "gone" => Head(evq) = Gone(Head(evq).s)
         /\ Occurs(evq, Head(evq))
         /\ \A x \in Socks : Head(evq) # Gone(x) =>
              /\ Occurs(Tail(evq), Gone(x)) <=> Occurs(evq, Gone(x))
              /\ Once(evq, Gone(x)) => Once(Tail(evq), Gone(x))
         /\ \A x \in Socks : Head(evq) = Gone(x) /\ Once(evq, Gone(x)) =>
              ~ Occurs(Tail(evq), Gone(x)) /\ Once(Tail(evq), Gone(x))
<1>1. /\ evq \in Seq(Events) /\ Len(evq) <= MaxEvents
      /\ \A i \in DOMAIN evq : evq[i].kind # "connect" => evq[i].s \in Socks
  BY DEF Shape, TypeOK
<1>2. /\ Head(evq) \in Events /\ Tail(evq) \in Seq(Events) /\ Len(Tail(evq)) < Len(evq)
      /\ Occurs(evq, Head(evq))
      /\ \A i \in DOMAIN Tail(evq) : \E j \in DOMAIN evq : Tail(evq)[i] = evq[j]
      /\ \E j \in DOMAIN evq : Head(evq) = evq[j]
      /\ \A x : Occurs(evq, x) <=> Occurs(Tail(evq), x) \/ x = Head(evq)
      /\ \A x : Once(evq, x) => Once(Tail(evq), x) /\ (x = Head(evq) => ~ Occurs(Tail(evq), x))
  BY <1>1, OnTail
<1>3. EventsOK(Tail(evq))
  <2>1. Len(Tail(evq)) \in Nat /\ Len(evq) \in Nat /\ MaxEvents \in Nat
    BY <1>1, <1>2, LenProperties, ServerAssumption
  <2> QED
    BY <1>1, <1>2, <2>1 DEF EventsOK
<1>4. Head(evq).kind = "gone" => Head(evq) = Gone(Head(evq).s)
  BY <1>2 DEF Events, Gone
<1>5. Head(evq).kind # "connect" => Head(evq).s \in Socks
  BY <1>1, <1>2
<1> QED
  BY <1>2, <1>3, <1>4, <1>5
----------------------------------------------------------------------------
(* What a step leaves alone. *)

(* The watcher of socket s, and its place in the tree. *)
Unmoved(s) ==
  /\ \A w \in Workers : (s \in job'[w] <=> s \in job[w]) /\ (wk'[w].task = s <=> wk[w].task = s)
  /\ Occurs(tasks', s) <=> Occurs(tasks, s)
  /\ Once(tasks, s) => Once(tasks', s)
  /\ Occurs(evq', Gone(s)) <=> Occurs(evq, Gone(s))
  /\ Once(evq, Gone(s)) => Once(evq', Gone(s))
  /\ Alive' => Alive /\ tree'[s] = tree[s]
  /\ tree'[s] # Null /\ s \notin stray' => tree[s] # Null /\ s \notin stray

LEMMA UnmovedIsWatched ==
  ASSUME NEW s \in Socks, WatchOf(s), Unmoved(s)
  PROVE  WatchOf(s)'
<1>1. /\ InJob(s)' <=> InJob(s)
      /\ Refused(s)' <=> Refused(s)
      /\ Queued(s)' <=> Queued(s)
      /\ Told(s)' <=> Told(s)
  BY DEF Unmoved, InJob, Refused, Queued, Told, Gone
<1>2. Once(tasks', s) /\ Once(evq', Gone(s))
  BY DEF Unmoved, WatchOf
<1>3. /\ \A w, v \in Workers : s \in job'[w] /\ s \in job'[v] => w = v
      /\ \A w, v \in Workers : wk'[w].task = s /\ wk'[v].task = s => w = v
  BY DEF Unmoved, WatchOf
<1>4. /\ Alive' /\ Watched(s)' => tree'[s] # Null
      /\ tree'[s] # Null /\ s \notin stray' => Watched(s)'
  BY <1>1 DEF Unmoved, WatchOf, Watched
<1> QED
  BY <1>1, <1>2, <1>3, <1>4 DEF WatchOf, Gone

(* The clients, under a worker that moves or the queue that grows. *)
LEMMA SameClients ==
  ASSUME Clients, UNCHANGED <<obj, ap, tree, cl, sock, hd>>, stray \subseteq stray',
         \A c \in waiting' : cl[c].st = "none"
  PROVE  Clients'
<1>1. Alive' <=> Alive
  BY DEF Alive
<1> QED
  BY <1>1 DEF Clients
----------------------------------------------------------------------------
(* The workers. *)

Rounds == [pc : {"suspended", "top", "attr", "recv", "ended"},
           ready : SUBSET Socks, task : Socks \cup {Null}]

(* What no step of a worker touches. *)
LEMMA WorkerFrame ==
  ASSUME Shape, NEW w \in Workers, WorkerStep(w)
  PROVE  /\ UNCHANGED <<obj, busy, lis, pool, tree, cl, sock, waiting, gone, hd, ap>>
         /\ stray \subseteq stray' /\ wk[w].pc \in {"top", "attr", "recv"}
BY DEF WorkerStep, WorkerEnds, WorkerRound, WorkerTakes, WorkerSelectFails, Asked, WorkerSelect,
       WorkerRecv, WorkerRecvFails, WorkerDone, server, system, clients

(* A step of a worker: its own round, its own sockets, both queues. *)
LEMMA WorkerKeeps ==
  ASSUME IInv, NEW w \in Workers, WorkerStep(w),
         EventsOK(evq'), tasks' \in Seq(Socks), job' \in [Workers -> SUBSET Socks],
         wk' \in [Workers -> Rounds], stray' \subseteq Socks,
         \A v \in Workers \ {w} : job'[v] = job[v] /\ wk'[v] = wk[v],
         wk'[w].ready \subseteq job'[w], wk'[w].task # Null => wk'[w].pc \in {"attr", "recv"}
  PROVE  Shape' /\ Turns' /\ Clients'
<1>1. /\ UNCHANGED <<obj, busy, lis, pool, tree, cl, sock, waiting, gone, hd, ap>>
      /\ stray \subseteq stray' /\ wk[w].pc \in {"top", "attr", "recv"}
  BY WorkerFrame DEF IInv
<1>2. Shape'
  BY <1>1 DEF IInv, Shape, TypeOK, EventsOK, Rounds
<1>3. pool # "ready"
  BY <1>1 DEF IInv, Turns
<1>4. Turns'
  BY <1>1, <1>3 DEF IInv, Turns
<1>5. Clients'
  BY <1>1, SameClients DEF IInv, Clients
<1> QED
  BY <1>2, <1>4, <1>5

LEMMA RoundIs ==
  ASSUME Shape, NEW w \in Workers
  PROVE  /\ wk \in [Workers -> Rounds] /\ wk[w] \in Rounds /\ job \in [Workers -> SUBSET Socks]
         /\ tasks \in Seq(Socks) /\ EventsOK(evq) /\ stray \subseteq Socks
BY DEF Shape, TypeOK, Rounds, EventsOK

(* A round begins without a task, and the worker ends. *)
LEMMA WorkerIdles ==
  ASSUME IInv, NEW w \in Workers, WorkerEnds(w) \/ WorkerRound(w)
  PROVE  IInv'
<1>1. Shape /\ WorkerStep(w) /\ Turns
  BY DEF IInv, WorkerStep
<1>2. /\ wk[w].pc = "top" /\ UNCHANGED <<obj, tree, ap, job, tasks, evq, stray>>
      /\ \E p \in {"ended", "attr"} : wk' = [wk EXCEPT ![w].pc = p]
  BY DEF WorkerEnds, WorkerRound, server, clients
<1>3. wk[w].task = Null /\ wk[w].ready \subseteq job[w]
  BY <1>1, <1>2 DEF Turns
<1>4. /\ wk' \in [Workers -> Rounds] /\ wk'[w].ready = wk[w].ready /\ wk'[w].task = wk[w].task
      /\ \A v \in Workers \ {w} : wk'[v] = wk[v]
  BY <1>1, <1>2, RoundIs DEF Rounds
<1>5. Shape' /\ Turns' /\ Clients'
  BY <1>1, <1>2, <1>3, <1>4, RoundIs, WorkerKeeps
<1>6. \A s \in Socks : Unmoved(s)
  BY <1>2, <1>4 DEF Unmoved, Alive
<1> QED
  BY <1>5, <1>6, UnmovedIsWatched DEF IInv, Watch

(* A task is taken into the set of the worker, or refused for now. *)
LEMMA WorkerTakesKeeps ==
  ASSUME IInv, NEW w \in Workers, WorkerTakes(w)
  PROVE  IInv'
<1> DEFINE h == Head(tasks)
<1>1. Shape /\ WorkerStep(w) /\ Turns /\ Watch
  BY DEF IInv, WorkerStep
<1>2. /\ wk[w].pc = "top" /\ UNCHANGED <<obj, tree, ap, evq, stray>>
      /\ tasks # <<>> /\ tasks' = Tail(tasks)
  BY DEF WorkerTakes, server, clients
<1>3. wk[w].task = Null /\ wk[w].ready \subseteq job[w] /\ wk[w].ready \in SUBSET Socks
  BY <1>1, <1>2, RoundIs DEF Turns, Rounds
<1>4. /\ h \in Socks /\ Tail(tasks) \in Seq(Socks) /\ Occurs(tasks, h)
      /\ \A x : Occurs(tasks, x) <=> Occurs(Tail(tasks), x) \/ x = h
      /\ \A x : Once(tasks, x) => Once(Tail(tasks), x) /\ (x = h => ~ Occurs(Tail(tasks), x))
  BY <1>1, <1>2, OnTail, RoundIs
<1> HIDE DEF h
<1>5. \/ /\ job' = [job EXCEPT ![w] = @ \cup {h}] /\ wk' = [wk EXCEPT ![w].pc = "attr"]
      \/ job' = job /\ wk' = [wk EXCEPT ![w].pc = "attr", ![w].task = h]
  BY DEF WorkerTakes, h
<1>6. /\ \A v \in Workers \ {w} : job'[v] = job[v] /\ wk'[v] = wk[v]
      /\ wk' \in [Workers -> Rounds] /\ job' \in [Workers -> SUBSET Socks]
      /\ wk'[w].pc = "attr" /\ wk'[w].ready = wk[w].ready
      /\ \/ job'[w] = job[w] \cup {h} /\ wk'[w].task = Null
         \/ job'[w] = job[w] /\ wk'[w].task = h
  <2>1. wk \in [Workers -> Rounds] /\ wk[w] \in Rounds /\ job \in [Workers -> SUBSET Socks]
    BY <1>1, RoundIs
  <2>2. CASE job' = [job EXCEPT ![w] = @ \cup {h}] /\ wk' = [wk EXCEPT ![w].pc = "attr"]
    BY <1>3, <1>4, <2>1, <2>2 DEF Rounds
  <2>3. CASE job' = job /\ wk' = [wk EXCEPT ![w].pc = "attr", ![w].task = h]
    <3> DEFINE first == [wk EXCEPT ![w].pc = "attr"]
    <3>1. wk' = [first EXCEPT ![w].task = h]
      BY <2>3
    <3>2. /\ first \in [Workers -> Rounds] /\ first[w].pc = "attr" /\ first[w].ready = wk[w].ready
          /\ first[w] \in Rounds /\ \A v \in Workers \ {w} : first[v] = wk[v]
      BY <2>1 DEF Rounds
    <3> HIDE DEF first
    <3>3. /\ wk' \in [Workers -> Rounds] /\ wk'[w].pc = "attr" /\ wk'[w].ready = wk[w].ready
          /\ wk'[w].task = h /\ \A v \in Workers \ {w} : wk'[v] = wk[v]
      BY <1>4, <3>1, <3>2 DEF Rounds
    <3> QED
      BY <2>1, <2>3, <3>3
  <2> QED
    BY <1>5, <2>2, <2>3
<1>7. Shape' /\ Turns' /\ Clients'
  BY <1>1, <1>2, <1>3, <1>4, <1>6, RoundIs, WorkerKeeps
<1>8. ASSUME NEW s \in Socks, s # h PROVE WatchOf(s)'
  <2>1. s # Null
    BY ServerAssumption
  <2>2. Unmoved(s)
    BY <1>2, <1>3, <1>4, <1>6, <1>8, <2>1 DEF Unmoved, Alive
  <2> QED
    BY <1>1, <2>2, UnmovedIsWatched DEF Watch
<1>9. ASSUME NEW s \in Socks, s = h PROVE WatchOf(s)'
  <2>1. /\ Queued(s) /\ ~ InJob(s) /\ ~ Refused(s) /\ ~ Told(s)
        /\ WatchOf(s) /\ s # Null
    BY <1>1, <1>4, <1>9, ServerAssumption DEF Watch, WatchOf, Queued
  <2>2. /\ \A v \in Workers \ {w} : s \notin job'[v] /\ wk'[v].task # s
        /\ \/ s \in job'[w] /\ wk'[w].task # s
           \/ s \notin job'[w] /\ wk'[w].task = s
    BY <1>6, <1>9, <2>1 DEF InJob, Refused
  <2>3. /\ ~ Occurs(tasks', s) /\ Once(tasks', s)
        /\ ~ Occurs(evq', Gone(s)) /\ Once(evq', Gone(s))
    BY <1>2, <1>4, <1>9, <2>1 DEF WatchOf, Told
  <2>4. /\ InJob(s)' \/ Refused(s)'
        /\ ~ (InJob(s)' /\ Refused(s)')
        /\ ~ Queued(s)' /\ ~ Told(s)'
    BY <2>2, <2>3 DEF InJob, Refused, Queued, Told, Gone
  <2>5. Alive' => tree'[s] # Null
    BY <1>2, <2>1 DEF WatchOf, Watched, Alive
  <2>6. /\ \A u, v \in Workers : s \in job'[u] /\ s \in job'[v] => u = v
        /\ \A u, v \in Workers : wk'[u].task = s /\ wk'[v].task = s => u = v
    BY <2>2
  <2> QED
    BY <2>3, <2>4, <2>5, <2>6 DEF WatchOf, Watched, Gone
<1> QED
  BY <1>7, <1>8, <1>9 DEF IInv, Watch

(* select fails: a task that was refused in this round is forgotten. *)
LEMMA WorkerSelectFailsKeeps ==
  ASSUME IInv, NEW w \in Workers, WorkerSelectFails(w)
  PROVE  IInv'
<1>1. Shape /\ WorkerStep(w) /\ Turns /\ Watch
  BY DEF IInv, WorkerStep
<1>2. /\ UNCHANGED <<obj, tree, ap, evq, tasks, job>> /\ wk' = [wk EXCEPT ![w] = Top]
      /\ stray' = stray \cup ({wk[w].task} \ {Null})
  BY DEF WorkerSelectFails, server, clients
<1>3. /\ wk \in [Workers -> Rounds] /\ wk[w].task \in Socks \cup {Null} /\ stray \subseteq Socks
  BY <1>1, RoundIs DEF Rounds
<1>4. /\ wk' \in [Workers -> Rounds] /\ wk'[w].ready = {} /\ wk'[w].task = Null
      /\ \A v \in Workers \ {w} : wk'[v] = wk[v]
  BY <1>2, <1>3 DEF Rounds, Top
<1>5. Shape' /\ Turns' /\ Clients'
  <2>1. stray' \subseteq Socks
    BY <1>2, <1>3
  <2> QED
    BY <1>1, <1>2, <1>4, <2>1, RoundIs, WorkerKeeps
<1>6. ASSUME NEW s \in Socks, s # wk[w].task PROVE WatchOf(s)'
  <2>1. s # Null
    BY ServerAssumption
  <2>2. Unmoved(s)
    BY <1>2, <1>4, <1>6, <2>1 DEF Unmoved, Alive
  <2> QED
    BY <1>1, <2>2, UnmovedIsWatched DEF Watch
<1>7. ASSUME NEW s \in Socks, s = wk[w].task PROVE WatchOf(s)'
  <2>1. /\ Refused(s) /\ ~ InJob(s) /\ ~ Queued(s) /\ ~ Told(s)
        /\ WatchOf(s) /\ s # Null
    BY <1>1, <1>7, ServerAssumption DEF Watch, WatchOf, Refused
  <2>2. \A v \in Workers : s \notin job'[v] /\ wk'[v].task # s
    <3>1. \A v \in Workers \ {w} : wk[v].task # s
      BY <1>7, <2>1 DEF WatchOf
    <3> QED
      BY <1>2, <1>4, <2>1, <3>1 DEF InJob
  <2>3. ~ InJob(s)' /\ ~ Refused(s)' /\ ~ Queued(s)' /\ ~ Told(s)'
    BY <1>2, <2>1, <2>2 DEF InJob, Refused, Queued, Told, Gone
  <2>4. s \in stray' /\ Once(tasks', s) /\ Once(evq', Gone(s))
    BY <1>2, <1>7, <2>1 DEF WatchOf
  <2> QED
    BY <2>2, <2>3, <2>4 DEF WatchOf, Watched, Gone
<1> QED
  BY <1>5, <1>6, <1>7 DEF IInv, Watch

(* select answers; data is read and told to the handler. *)
LEMMA WorkerReadsKeeps ==
  ASSUME IInv, NEW w \in Workers,
         WorkerSelect(w) \/ \E s \in Socks : WorkerRecv(w, s)
  PROVE  IInv'
<1>1. Shape /\ WorkerStep(w) /\ Turns /\ Watch
  BY DEF IInv, WorkerStep
<1>2. /\ wk \in [Workers -> Rounds] /\ wk[w] \in Rounds /\ wk[w].pc \in {"attr", "recv"}
      /\ wk[w].ready \subseteq job[w] /\ job[w] \in SUBSET Socks
  BY <1>1, RoundIs DEF Turns, WorkerSelect, Asked, WorkerRecv
<1>3. UNCHANGED <<obj, tree, ap, tasks, job, stray>>
  BY DEF WorkerSelect, WorkerRecv, server, clients
<1>4. /\ wk' \in [Workers -> Rounds] /\ wk'[w].task = wk[w].task /\ wk'[w].ready \subseteq job[w]
      /\ wk'[w].pc = "recv" /\ \A v \in Workers \ {w} : wk'[v] = wk[v]
  <2>1. CASE WorkerSelect(w)
    <3> DEFINE some == {s \in job[w] : Readable(s)}
               first == [wk EXCEPT ![w].pc = "recv"]
    <3>1. wk' = [first EXCEPT ![w].ready = some] /\ some \subseteq job[w]
      BY <2>1 DEF WorkerSelect
    <3>2. /\ first \in [Workers -> Rounds] /\ first[w].pc = "recv" /\ first[w].task = wk[w].task
          /\ first[w] \in Rounds /\ \A v \in Workers \ {w} : first[v] = wk[v]
      BY <1>2 DEF Rounds
    <3> HIDE DEF first, some
    <3> QED
      BY <1>2, <3>1, <3>2 DEF Rounds
  <2>2. CASE \E s \in Socks : WorkerRecv(w, s)
    <3>1. PICK s \in Socks : WorkerRecv(w, s)
      BY <2>2
    <3>2. wk' = [wk EXCEPT ![w].ready = @ \ {s}] /\ wk[w].pc = "recv"
      BY <3>1 DEF WorkerRecv
    <3> QED
      BY <1>2, <3>2 DEF Rounds
  <2> QED
    BY <2>1, <2>2
<1>5. /\ EventsOK(evq')
      /\ \A x \in Socks : /\ Occurs(evq', Gone(x)) <=> Occurs(evq, Gone(x))
                          /\ Once(evq, Gone(x)) => Once(evq', Gone(x))
  <2>1. CASE WorkerSelect(w)
    BY <1>1, <2>1, RoundIs DEF WorkerSelect
  <2>2. CASE \E s \in Socks : WorkerRecv(w, s)
    <3>1. PICK s \in Socks : evq' = Post("recv", s)
      BY <2>2 DEF WorkerRecv
    <3>2. EventsOK(Post("recv", s)) /\ \A x \in Socks :
            /\ Occurs(Post("recv", s), Gone(x)) <=> Occurs(evq, Gone(x))
            /\ Once(evq, Gone(x)) => Once(Post("recv", s), Gone(x))
      BY <1>1, OnPost
    <3> QED
      BY <3>1, <3>2
  <2> QED
    BY <2>1, <2>2
<1>6. Shape' /\ Turns' /\ Clients'
  <2>1. /\ tasks' \in Seq(Socks) /\ job' \in [Workers -> SUBSET Socks] /\ stray' \subseteq Socks
        /\ \A v \in Workers \ {w} : job'[v] = job[v] /\ wk'[v] = wk[v]
        /\ wk'[w].ready \subseteq job'[w]
    BY <1>1, <1>3, <1>4, RoundIs
  <2> QED
    BY <1>1, <1>4, <1>5, <2>1, WorkerKeeps
<1>7. \A s \in Socks : Unmoved(s)
  BY <1>3, <1>4, <1>5 DEF Unmoved, Alive
<1> QED
  BY <1>1, <1>6, <1>7, UnmovedIsWatched DEF IInv, Watch

(* recv fails: the socket leaves the set of the worker, and the handler is told
   unless the event queue is full. *)
LEMMA WorkerRecvFailsKeeps ==
  ASSUME IInv, NEW w \in Workers, NEW x \in Socks, WorkerRecvFails(w, x)
  PROVE  IInv'
<1>1. Shape /\ WorkerStep(w) /\ Turns /\ Watch
  BY DEF IInv, WorkerStep
<1>2. /\ UNCHANGED <<obj, tree, ap, tasks>> /\ evq' = Post("gone", x)
      /\ stray' = IF Full THEN stray \cup {x} ELSE stray
      /\ job' = [job EXCEPT ![w] = @ \ {x}] /\ wk' = [wk EXCEPT ![w].ready = @ \ {x}]
      /\ x \in wk[w].ready /\ wk[w].pc = "recv"
  BY DEF WorkerRecvFails, server, clients
<1>3. /\ wk \in [Workers -> Rounds] /\ wk[w] \in Rounds /\ wk[w].ready \subseteq job[w]
      /\ job \in [Workers -> SUBSET Socks] /\ stray \subseteq Socks /\ tasks \in Seq(Socks)
  BY <1>1, RoundIs DEF Turns
<1>4. /\ wk' \in [Workers -> Rounds] /\ wk'[w].task = wk[w].task /\ wk'[w].pc = "recv"
      /\ wk'[w].ready = wk[w].ready \ {x} /\ job'[w] = job[w] \ {x}
      /\ job' \in [Workers -> SUBSET Socks]
      /\ \A v \in Workers \ {w} : wk'[v] = wk[v] /\ job'[v] = job[v]
  BY <1>2, <1>3 DEF Rounds
<1>5. /\ EventsOK(Post("gone", x)) /\ (Full => Post("gone", x) = evq)
      /\ \A s \in Socks : s # x =>
            /\ Occurs(Post("gone", x), Gone(s)) <=> Occurs(evq, Gone(s))
            /\ Once(evq, Gone(s)) => Once(Post("gone", x), Gone(s))
      /\ ~ Full => Occurs(Post("gone", x), Gone(x))
      /\ ~ Full /\ ~ Occurs(evq, Gone(x)) /\ Once(evq, Gone(x)) => Once(Post("gone", x), Gone(x))
  BY <1>1, OnPost
<1>6. Shape' /\ Turns' /\ Clients'
  <2>1. stray' \subseteq Socks /\ EventsOK(evq') /\ wk'[w].ready \subseteq job'[w]
    BY <1>2, <1>3, <1>4, <1>5
  <2> QED
    BY <1>1, <1>2, <1>3, <1>4, <2>1, WorkerKeeps
<1>7. ASSUME NEW s \in Socks, s # x PROVE WatchOf(s)'
  <2>1. Unmoved(s)
    BY <1>2, <1>4, <1>5, <1>7 DEF Unmoved, Alive
  <2> QED
    BY <1>1, <2>1, UnmovedIsWatched DEF Watch
<1>8. WatchOf(x)'
  <2>1. /\ InJob(x) /\ ~ Refused(x) /\ ~ Queued(x) /\ ~ Told(x) /\ WatchOf(x)
        /\ \A v \in Workers \ {w} : x \notin job[v]
    BY <1>1, <1>2, <1>3 DEF Watch, WatchOf, InJob
  <2>2. \A v \in Workers : x \notin job'[v] /\ wk'[v].task # x
    BY <1>4, <2>1 DEF Refused
  <2>3. ~ InJob(x)' /\ ~ Refused(x)' /\ ~ Queued(x)'
    BY <1>2, <2>1, <2>2 DEF InJob, Refused, Queued
  <2>4. /\ Once(tasks', x) /\ Once(evq', Gone(x))
        /\ Occurs(evq', Gone(x)) \/ x \in stray'
    BY <1>2, <1>5, <2>1 DEF WatchOf, Told
  <2>5. Told(x)' \/ x \in stray'
    BY <2>4 DEF Told, Gone
  <2>6. Alive' => tree'[x] # Null
    BY <1>2, <2>1 DEF WatchOf, Watched, Alive
  <2> QED
    BY <2>2, <2>3, <2>4, <2>5, <2>6 DEF WatchOf, Watched, Gone
<1> QED
  BY <1>6, <1>7, <1>8 DEF IInv, Watch

(* The round is over, a refused task is queued again. *)
LEMMA WorkerDoneKeeps ==
  ASSUME IInv, NEW w \in Workers, WorkerDone(w)
  PROVE  IInv'
<1>1. Shape /\ WorkerStep(w) /\ Turns /\ Watch
  BY DEF IInv, WorkerStep
<1>2. /\ UNCHANGED <<obj, tree, ap, evq, job, stray>> /\ wk' = [wk EXCEPT ![w] = Top]
      /\ tasks' = IF wk[w].task = Null THEN tasks ELSE Append(tasks, wk[w].task)
  BY DEF WorkerDone, server, clients
<1>3. /\ wk \in [Workers -> Rounds] /\ wk[w].task \in Socks \cup {Null}
      /\ job \in [Workers -> SUBSET Socks] /\ stray \subseteq Socks /\ tasks \in Seq(Socks)
      /\ EventsOK(evq)
  BY <1>1, RoundIs DEF Rounds
<1>4. /\ wk' \in [Workers -> Rounds] /\ wk'[w].ready = {} /\ wk'[w].task = Null
      /\ \A v \in Workers \ {w} : wk'[v] = wk[v]
  BY <1>2, <1>3 DEF Rounds, Top
<1>5. /\ tasks' \in Seq(Socks)
      /\ \A s \in Socks : s # wk[w].task =>
            (Occurs(tasks', s) <=> Occurs(tasks, s)) /\ (Once(tasks, s) => Once(tasks', s))
      /\ \A s \in Socks : s = wk[w].task =>
            Occurs(tasks', s) /\ (Once(tasks, s) /\ ~ Occurs(tasks, s) => Once(tasks', s))
  <2>1. CASE wk[w].task = Null
    BY <1>2, <1>3, <2>1, ServerAssumption
  <2>2. CASE wk[w].task # Null
    <3> DEFINE t == wk[w].task
    <3>1. t \in Socks /\ tasks' = Append(tasks, t)
      BY <1>2, <1>3, <2>2
    <3> HIDE DEF t
    <3>2. /\ Append(tasks, t) \in Seq(Socks)
          /\ \A x : Occurs(Append(tasks, t), x) <=> Occurs(tasks, x) \/ x = t
          /\ \A x : Once(tasks, x) /\ (x = t => ~ Occurs(tasks, x)) => Once(Append(tasks, t), x)
      BY <1>3, <3>1, OnAppend
    <3> QED
      BY <3>1, <3>2 DEF t
  <2> QED
    BY <2>1, <2>2
<1>6. Shape' /\ Turns' /\ Clients'
  BY <1>1, <1>2, <1>3, <1>4, <1>5, WorkerKeeps
<1>7. ASSUME NEW s \in Socks, s # wk[w].task PROVE WatchOf(s)'
  <2>1. s # Null
    BY ServerAssumption
  <2>2. Unmoved(s)
    BY <1>2, <1>4, <1>5, <1>7, <2>1 DEF Unmoved, Alive
  <2> QED
    BY <1>1, <2>2, UnmovedIsWatched DEF Watch
<1>8. ASSUME NEW s \in Socks, s = wk[w].task PROVE WatchOf(s)'
  <2>1. /\ Refused(s) /\ ~ InJob(s) /\ ~ Queued(s) /\ ~ Told(s)
        /\ WatchOf(s) /\ s # Null
    BY <1>1, <1>8, ServerAssumption DEF Watch, WatchOf, Refused
  <2>2. \A v \in Workers : s \notin job'[v] /\ wk'[v].task # s
    <3>1. \A v \in Workers \ {w} : wk[v].task # s
      BY <1>8, <2>1 DEF WatchOf
    <3> QED
      BY <1>2, <1>4, <2>1, <3>1 DEF InJob
  <2>3. Occurs(tasks', s) /\ Once(tasks', s) /\ Once(evq', Gone(s)) /\ ~ Occurs(evq', Gone(s))
    BY <1>2, <1>5, <1>8, <2>1 DEF WatchOf, Queued, Told
  <2>4. ~ InJob(s)' /\ ~ Refused(s)' /\ Queued(s)' /\ ~ Told(s)'
    BY <2>2, <2>3 DEF InJob, Refused, Queued, Told, Gone
  <2>5. Alive' => tree'[s] # Null
    BY <1>2, <2>1 DEF WatchOf, Watched, Alive
  <2> QED
    BY <2>2, <2>3, <2>4, <2>5 DEF WatchOf, Watched, Gone
<1> QED
  BY <1>6, <1>7, <1>8 DEF IInv, Watch

LEMMA WorkersKeep ==
  ASSUME IInv, NEW w \in Workers, WorkerStep(w)
  PROVE  IInv'
BY WorkerIdles, WorkerTakesKeeps, WorkerSelectFailsKeeps, WorkerReadsKeeps, WorkerRecvFailsKeeps,
   WorkerDoneKeeps DEF WorkerStep
----------------------------------------------------------------------------
(* The handler. *)

HandlerAt == [pc : {"idle", "add", "use"}, c : Peers \cup {Null}, s : Socks \cup {Null}]

(* The lock of the handle is free and the object is there: nobody deletes. *)
LEMMA FreeIsAlive ==
  ASSUME Turns, busy = Null, obj
  PROVE  Alive
BY ServerAssumption DEF Turns, Alive

LEMMA TypesAre ==
  ASSUME Shape
  PROVE  /\ cl \in [Peers -> Client] /\ hd \in HandlerAt /\ tasks \in Seq(Socks) /\ EventsOK(evq)
         /\ tree \in [Socks -> Peers \cup {Null}] /\ sock \in [Socks -> Peers \cup {Null}]
         /\ waiting \subseteq Peers /\ stray \subseteq Socks
BY DEF Shape, TypeOK, Client, HandlerAt, EventsOK

(* A step of the handler: what it never touches, and what is left to show. *)
LEMMA HandlerKeeps ==
  ASSUME IInv, UNCHANGED <<obj, busy, lis, pool, gone, job, wk, ap>>,
         EventsOK(evq'), tasks' \in Seq(Socks), hd' \in HandlerAt, cl' \in [Peers -> Client],
         tree' \in [Socks -> Peers \cup {Null}], sock' \in [Socks -> Peers \cup {Null}],
         waiting' \subseteq Peers, stray' \subseteq Socks
  PROVE  Shape' /\ Turns'
<1>1. Shape'
  BY DEF IInv, Shape, TypeOK, Client, HandlerAt, EventsOK
<1>2. Turns'
  BY DEF IInv, Turns
<1> QED
  BY <1>1, <1>2

(* An event that says of no client that it is gone. *)
LEMMA OtherEvent ==
  ASSUME IInv, NEW kind \in {"connect", "recv"}, Next1(kind),
         UNCHANGED <<obj, ap, tree, job, wk, tasks, stray>>
  PROVE  /\ EventsOK(evq') /\ Watch' /\ hd.pc = "idle" /\ Head(evq) \in Events
         /\ Head(evq).kind # "connect" => Head(evq).s \in Socks
<1>1. Shape /\ Watch /\ evq # <<>> /\ evq' = Tail(evq) /\ Head(evq).kind = kind /\ hd.pc = "idle"
  BY DEF IInv, Next1
<1>2. \A x \in Socks : Head(evq) # Gone(x)
  BY <1>1 DEF Gone
<1>3. /\ EventsOK(Tail(evq)) /\ Head(evq) \in Events
      /\ Head(evq).kind # "connect" => Head(evq).s \in Socks
      /\ \A x \in Socks : Head(evq) # Gone(x) =>
              /\ Occurs(Tail(evq), Gone(x)) <=> Occurs(evq, Gone(x))
              /\ Once(evq, Gone(x)) => Once(Tail(evq), Gone(x))
  BY <1>1, OnHandled
<1>4. \A s \in Socks : Unmoved(s)
  BY <1>1, <1>2, <1>3 DEF Unmoved, Alive
<1> QED
  BY <1>1, <1>3, <1>4, UnmovedIsWatched DEF Watch

LEMMA ConnectKeeps ==
  ASSUME IInv, HandleConnect
  PROVE  IInv'
<1>1. Shape /\ Turns /\ Clients /\ Watch
  BY DEF IInv
<1>2. /\ UNCHANGED <<obj, busy, lis, pool, gone, job, wk, ap, tree, tasks, stray>>
      /\ Next1("connect") /\ busy = Null
  BY DEF HandleConnect, server, crew
<1>3. EventsOK(evq') /\ Watch' /\ hd.pc = "idle"
  BY <1>2, OtherEvent
<1>4. CASE UNCHANGED <<hd, cl, sock, waiting>>
  <2>1. Clients'
    BY <1>1, <1>2, <1>4, SameClients DEF Clients
  <2>2. Shape' /\ Turns'
    BY <1>1, <1>2, <1>3, <1>4, TypesAre, HandlerKeeps
  <2> QED
    BY <1>3, <2>1, <2>2 DEF IInv
<1>5. CASE obj /\ ~ UNCHANGED <<hd, cl, sock, waiting>>
  <2>1. PICK c \in waiting, s \in Socks :
          /\ sock[s] = Null /\ sock' = [sock EXCEPT ![s] = c] /\ waiting' = waiting \ {c}
          /\ cl' = [cl EXCEPT ![c] = [st |-> "live", fd |-> s]]
          /\ hd' = [pc |-> "add", c |-> c, s |-> s]
    BY <1>5 DEF HandleConnect, Fresh
  <2>2. /\ c \in Peers /\ c # Null /\ s # Null /\ cl[c].st = "none"
        /\ cl \in [Peers -> Client] /\ sock \in [Socks -> Peers \cup {Null}]
        /\ tree \in [Socks -> Peers \cup {Null}]
    BY <1>1, <2>1, TypesAre, ServerAssumption DEF Clients
  <2>3. Alive /\ Alive'
    BY <1>1, <1>2, <1>5, FreeIsAlive DEF Alive
  <2>4. ASSUME NEW x \in Socks, tree[x] = c PROVE FALSE
    <3>1. cl[c] = [st |-> "live", fd |-> x]
      BY <1>1, <2>2, <2>4 DEF Clients
    <3> QED
      BY <2>2, <3>1
  <2>5. tree[s] # Null => s \in stray
    BY <1>1, <2>1 DEF Clients
  <2>6. /\ cl'[c] = [st |-> "live", fd |-> s] /\ \A d \in Peers \ {c} : cl'[d] = cl[d]
        /\ sock'[s] = c /\ \A x \in Socks \ {s} : sock'[x] = sock[x]
        /\ cl' \in [Peers -> Client] /\ sock' \in [Socks -> Peers \cup {Null}]
    BY <2>1, <2>2 DEF Client
  <2>7. Clients'
    <3>1. \A x \in Socks : tree'[x] # Null =>
            cl'[tree'[x]] = [st |-> "live", fd |-> x] /\ (x \notin stray' => sock'[x] = tree'[x])
      BY <1>1, <1>2, <2>2, <2>4, <2>5, <2>6 DEF Clients
    <3>2. \A d \in waiting' : cl'[d].st = "none"
      BY <1>1, <2>1, <2>6, TypesAre DEF Clients
    <3> QED
      BY <1>2, <2>1, <2>2, <2>3, <2>4, <2>5, <2>6, <3>1, <3>2 DEF Clients
  <2>8. Shape' /\ Turns'
    <3>1. hd' \in HandlerAt /\ waiting' \subseteq Peers
      BY <1>1, <2>1, <2>2, TypesAre DEF HandlerAt
    <3> QED
      BY <1>1, <1>2, <1>3, <2>2, <2>6, <3>1, TypesAre, HandlerKeeps
  <2> QED
    BY <1>3, <2>7, <2>8 DEF IInv
<1> QED
  BY <1>4, <1>5 DEF HandleConnect

(* The new client is entered; one under the same number is freed. *)
LEMMA AddKeeps ==
  ASSUME IInv, HandleAdd
  PROVE  IInv'
<1>1. Shape /\ Turns /\ Clients /\ Watch
  BY DEF IInv
<1>2. /\ UNCHANGED <<obj, busy, lis, pool, gone, job, wk, ap, evq, sock, waiting>>
      /\ busy = Null /\ obj /\ hd.pc = "add" /\ hd' = Idle
      /\ tree' = [tree EXCEPT ![hd.s] = hd.c]
      /\ tree[hd.s] = Null => tasks' = Append(tasks, hd.s) /\ stray' = stray \ {hd.s} /\ cl' = cl
      /\ tree[hd.s] # Null => cl' = Free(tree[hd.s]) /\ tasks' = tasks /\ stray' = stray
  BY DEF HandleAdd, server, system
<1>3. PICK c \in Peers, s \in Socks : c = hd.c /\ s = hd.s
  BY <1>1, <1>2 DEF Clients
<1>4. /\ c # Null /\ s # Null /\ cl[c] = [st |-> "live", fd |-> s]
      /\ \A x \in Socks : tree[x] # c
      /\ tree[s] = Null => sock[s] = c
      /\ tree[s] # Null => s \in stray
  BY <1>1, <1>2, <1>3, FreeIsAlive, ServerAssumption DEF Clients
<1>5. /\ cl \in [Peers -> Client] /\ tree \in [Socks -> Peers \cup {Null}] /\ tasks \in Seq(Socks)
      /\ EventsOK(evq) /\ waiting \subseteq Peers /\ stray \subseteq Socks
  BY <1>1, TypesAre
<1>6. Alive /\ Alive'
  BY <1>1, <1>2, FreeIsAlive DEF Alive
<1>7. tree'[s] = c /\ \A x \in Socks \ {s} : tree'[x] = tree[x]
  BY <1>2, <1>3, <1>5
<1>8. CASE tree[s] = Null
  <2>1. tasks' = Append(tasks, s) /\ stray' = stray \ {s} /\ cl' = cl
    BY <1>2, <1>3, <1>8
  <2>2. /\ Append(tasks, s) \in Seq(Socks)
        /\ \A x : Occurs(Append(tasks, s), x) <=> Occurs(tasks, x) \/ x = s
        /\ \A x : Once(tasks, x) /\ (x = s => ~ Occurs(tasks, x)) => Once(Append(tasks, s), x)
    BY <1>5, OnAppend
  <2>3. Clients'
    BY <1>1, <1>2, <1>4, <1>6, <1>7, <2>1 DEF Clients, Idle
  <2>4. ASSUME NEW x \in Socks, x # s PROVE WatchOf(x)'
    <3>1. Unmoved(x)
      BY <1>2, <1>7, <2>1, <2>2, <2>4 DEF Unmoved, Alive
    <3> QED
      BY <1>1, <3>1, UnmovedIsWatched DEF Watch
  <2>5. WatchOf(s)'
    <3>1. WatchOf(s) /\ ~ Watched(s)
      BY <1>1, <1>6, <1>8 DEF Watch, WatchOf
    <3>2. ~ InJob(s)' /\ ~ Refused(s)' /\ Queued(s)' /\ ~ Told(s)'
      BY <1>2, <2>1, <2>2, <3>1 DEF InJob, Refused, Queued, Told, Gone, Watched
    <3>3. Once(tasks', s) /\ Once(evq', Gone(s))
      BY <1>2, <2>1, <2>2, <3>1 DEF WatchOf, Watched, Queued
    <3> QED
      BY <1>2, <1>4, <1>7, <3>1, <3>2, <3>3 DEF WatchOf, Watched, Gone
  <2>6. Shape' /\ Turns'
    <3>1. tree' \in [Socks -> Peers \cup {Null}] /\ hd' \in HandlerAt /\ stray' \subseteq Socks
      BY <1>2, <1>3, <1>5, <2>1 DEF HandlerAt, Idle
    <3> QED
      BY <1>1, <1>2, <1>5, <2>1, <2>2, <3>1, TypesAre, HandlerKeeps
  <2> QED
    BY <2>3, <2>4, <2>5, <2>6 DEF IInv, Watch
<1>9. CASE tree[s] # Null
  <2>1. PICK old \in Peers : old = tree[s]
    BY <1>5, <1>9
  <2>2. /\ tasks' = tasks /\ stray' = stray /\ cl' = [cl EXCEPT ![old].st = "freed"]
        /\ cl[old] = [st |-> "live", fd |-> s] /\ old # c
    BY <1>1, <1>2, <1>3, <1>4, <1>9, <2>1 DEF Clients, Free
  <2>3. /\ \A d \in Peers \ {old} : cl'[d] = cl[d]
        /\ cl' \in [Peers -> Client] /\ cl'[old].st = "freed"
    BY <1>5, <2>2 DEF Client
  <2>4. ASSUME NEW x \in Socks \ {s}, tree[x] = old PROVE FALSE
    <3>1. cl[old] = [st |-> "live", fd |-> x]
      BY <1>1, <1>9, <2>1, <2>4 DEF Clients
    <3> QED
      BY <2>2, <3>1
  <2>5. Clients'
    <3>1. \A x \in Socks : tree'[x] # Null =>
            cl'[tree'[x]] = [st |-> "live", fd |-> x] /\ (x \notin stray' => sock'[x] = tree'[x])
      BY <1>1, <1>2, <1>4, <1>5, <1>7, <1>9, <2>2, <2>3, <2>4 DEF Clients
    <3>2. \A d \in waiting' : cl'[d].st = "none"
      BY <1>1, <1>2, <1>5, <2>2, <2>3 DEF Clients
    <3> QED
      BY <1>2, <1>6, <3>1, <3>2 DEF Clients, Idle
  <2>6. \A x \in Socks \ {s} : Unmoved(x)
    BY <1>2, <1>7, <2>2 DEF Unmoved, Alive
  <2>7. WatchOf(s)'
    <3>1. WatchOf(s) /\ s \in stray'
      BY <1>1, <1>4, <1>9, <2>2 DEF Watch
    <3>2. /\ InJob(s)' <=> InJob(s)
          /\ Refused(s)' <=> Refused(s)
          /\ Queued(s)' <=> Queued(s)
          /\ Told(s)' <=> Told(s)
      BY <1>2, <2>2 DEF InJob, Refused, Queued, Told, Gone
    <3> QED
      BY <1>2, <1>4, <1>7, <2>2, <3>1, <3>2 DEF WatchOf, Watched, Gone
  <2>8. Shape' /\ Turns'
    <3>1. tree' \in [Socks -> Peers \cup {Null}] /\ hd' \in HandlerAt
      BY <1>2, <1>3, <1>5 DEF HandlerAt, Idle
    <3> QED
      BY <1>1, <1>2, <1>5, <2>2, <2>3, <3>1, TypesAre, HandlerKeeps
  <2> QED
    BY <1>1, <2>5, <2>6, <2>7, <2>8, UnmovedIsWatched DEF IInv, Watch
<1> QED
  BY <1>8, <1>9

(* The client cannot be entered: it is freed and its socket closed. *)
LEMMA AddFailsKeeps ==
  ASSUME IInv, HandleAddFails
  PROVE  IInv'
<1>1. Shape /\ Turns /\ Clients /\ Watch
  BY DEF IInv
<1>2. /\ UNCHANGED <<obj, busy, lis, pool, gone, job, wk, ap, evq, waiting, tree, tasks, stray>>
      /\ busy = Null /\ hd.pc = "add" /\ hd' = Idle /\ (~ obj \/ tree[hd.s] = Null)
      /\ cl' = [cl EXCEPT ![hd.c].st = "freed"] /\ sock' = [sock EXCEPT ![hd.s] = Null]
  BY DEF HandleAddFails, Free, Close, server, crew
<1>3. PICK c \in Peers, s \in Socks : c = hd.c /\ s = hd.s
  BY <1>1, <1>2 DEF Clients
<1>4. /\ cl[c] = [st |-> "live", fd |-> s] /\ \A x \in Socks : tree[x] # c
      /\ ~ Alive \/ tree[s] = Null
  BY <1>1, <1>2, <1>3 DEF Clients, Alive
<1>5. /\ cl \in [Peers -> Client] /\ sock \in [Socks -> Peers \cup {Null}]
      /\ waiting \subseteq Peers /\ tree \in [Socks -> Peers \cup {Null}]
  BY <1>1, TypesAre
<1>6. /\ \A d \in Peers \ {c} : cl'[d] = cl[d]
      /\ \A x \in Socks \ {s} : sock'[x] = sock[x]
      /\ cl' \in [Peers -> Client] /\ sock' \in [Socks -> Peers \cup {Null}]
  BY <1>2, <1>3, <1>4, <1>5 DEF Client
<1>7. Clients'
  <2>1. tree[s] = Null
    BY <1>1, <1>4 DEF Clients
  <2>2. \A x \in Socks : tree'[x] # Null =>
          cl'[tree'[x]] = [st |-> "live", fd |-> x] /\ (x \notin stray' => sock'[x] = tree'[x])
    BY <1>1, <1>2, <1>4, <1>5, <1>6, <2>1 DEF Clients
  <2>3. \A d \in waiting' : cl'[d].st = "none"
    BY <1>1, <1>2, <1>4, <1>5, <1>6 DEF Clients
  <2>4. ~ Alive' => \A x \in Socks : tree'[x] = Null
    BY <1>1, <1>2 DEF Clients, Alive
  <2> QED
    BY <1>2, <2>2, <2>3, <2>4 DEF Clients, Idle
<1>8. \A x \in Socks : Unmoved(x)
  BY <1>2 DEF Unmoved, Alive
<1>9. Shape' /\ Turns'
  <2>1. hd' \in HandlerAt
    BY <1>2 DEF HandlerAt, Idle
  <2> QED
    BY <1>1, <1>2, <1>6, <2>1, TypesAre, HandlerKeeps
<1> QED
  BY <1>1, <1>7, <1>8, <1>9, UnmovedIsWatched DEF IInv, Watch

(* The event was the client's watcher, so the client is in the tree, and   *)
(* with it its socket is forgotten.                                        *)
LEMMA GoneKeeps ==
  ASSUME IInv, HandleGone
  PROVE  IInv'
<1>1. Shape /\ Turns /\ Clients /\ Watch
  BY DEF IInv
<1>2. /\ UNCHANGED <<obj, busy, lis, pool, gone, job, wk, ap, waiting, tasks, stray>>
      /\ busy = Null /\ hd.pc = "idle" /\ evq # <<>> /\ evq' = Tail(evq)
      /\ Head(evq).kind = "gone"
  BY DEF HandleGone, Next1, server, crew
<1>3. /\ EventsOK(Tail(evq)) /\ Head(evq).s \in Socks /\ Head(evq) = Gone(Head(evq).s)
      /\ Occurs(evq, Head(evq))
      /\ \A x \in Socks : Head(evq) # Gone(x) =>
            /\ Occurs(Tail(evq), Gone(x)) <=> Occurs(evq, Gone(x))
            /\ Once(evq, Gone(x)) => Once(Tail(evq), Gone(x))
      /\ \A x \in Socks : Head(evq) = Gone(x) /\ Once(evq, Gone(x)) =>
            ~ Occurs(Tail(evq), Gone(x)) /\ Once(Tail(evq), Gone(x))
  BY <1>1, <1>2, OnHandled
<1>4. PICK s \in Socks : s = Head(evq).s
  BY <1>3
<1>5. /\ Told(s) /\ WatchOf(s) /\ ~ InJob(s) /\ ~ Refused(s) /\ ~ Queued(s)
      /\ ~ Occurs(evq', Gone(s)) /\ Once(evq', Gone(s))
  BY <1>1, <1>2, <1>3, <1>4 DEF Watch, WatchOf, Told
<1>6. ASSUME NEW x \in Socks \ {s}, Head(evq) = Gone(x) PROVE FALSE
  <2>1. Gone(x).s = x
    BY DEF Gone
  <2> QED
    BY <1>4, <1>6, <2>1
<1>7. obj => Alive /\ tree[s] # Null
  BY <1>1, <1>2, <1>5, FreeIsAlive DEF WatchOf, Watched
<1>8. ~ InJob(s)' /\ ~ Refused(s)' /\ ~ Queued(s)' /\ ~ Told(s)'
  BY <1>2, <1>5 DEF InJob, Refused, Queued, Told, Gone
<1>9. /\ \A w, v \in Workers : s \in job'[w] /\ s \in job'[v] => w = v
      /\ \A w, v \in Workers : wk'[w].task = s /\ wk'[v].task = s => w = v
      /\ Once(tasks', s)
  BY <1>2, <1>5 DEF WatchOf
<1>10. CASE ~ obj
  <2>1. UNCHANGED <<hd, tree, cl, sock>>
    BY <1>10 DEF HandleGone
  <2>2. Clients'
    BY <1>1, <1>2, <2>1, SameClients DEF Clients
  <2>3. ASSUME NEW x \in Socks \ {s} PROVE Unmoved(x)
    BY <1>2, <1>3, <1>6, <2>1, <2>3 DEF Unmoved, Alive
  <2>4. tree'[s] = Null
    BY <1>1, <1>10, <2>1 DEF Clients, Alive
  <2>5. WatchOf(s)'
    BY <1>2, <1>5, <1>8, <1>9, <2>4 DEF WatchOf, Watched, Gone
  <2>6. Shape' /\ Turns'
    BY <1>1, <1>2, <1>3, <2>1, TypesAre, HandlerKeeps
  <2> QED
    BY <1>1, <2>2, <2>3, <2>5, <2>6, UnmovedIsWatched DEF IInv, Watch
<1>11. CASE obj
  <2>1. PICK c \in Peers : c = tree[s]
    BY <1>1, <1>7, <1>11, TypesAre
  <2>2. /\ tree' = [tree EXCEPT ![s] = Null] /\ cl' = [cl EXCEPT ![c].st = "freed"]
        /\ sock' = [sock EXCEPT ![s] = Null] /\ hd' = hd
    BY <1>4, <1>7, <1>11, <2>1 DEF HandleGone, Free, Close
  <2>3. /\ cl \in [Peers -> Client] /\ sock \in [Socks -> Peers \cup {Null}]
        /\ tree \in [Socks -> Peers \cup {Null}] /\ waiting \subseteq Peers /\ c # Null
        /\ cl[c] = [st |-> "live", fd |-> s]
    BY <1>1, <1>7, <1>11, <2>1, TypesAre DEF Clients
  <2>4. /\ tree'[s] = Null /\ sock'[s] = Null
        /\ \A x \in Socks \ {s} : tree'[x] = tree[x] /\ sock'[x] = sock[x]
        /\ \A d \in Peers \ {c} : cl'[d] = cl[d]
        /\ tree' \in [Socks -> Peers \cup {Null}] /\ sock' \in [Socks -> Peers \cup {Null}]
        /\ cl' \in [Peers -> Client]
    BY <2>2, <2>3 DEF Client
  <2>5. ASSUME NEW x \in Socks \ {s}, tree[x] = c PROVE FALSE
    <3>1. cl[c] = [st |-> "live", fd |-> x]
      BY <1>1, <2>3, <2>5 DEF Clients
    <3> QED
      BY <2>3, <3>1
  <2>6. Clients'
    <3>1. \A x \in Socks : tree'[x] # Null =>
            cl'[tree'[x]] = [st |-> "live", fd |-> x] /\ (x \notin stray' => sock'[x] = tree'[x])
      BY <1>1, <1>2, <2>3, <2>4, <2>5 DEF Clients
    <3>2. \A d \in waiting' : cl'[d].st = "none"
      BY <1>1, <1>2, <2>3, <2>4 DEF Clients
    <3>3. Alive'
      BY <1>2, <1>7, <1>11 DEF Alive
    <3> QED
      BY <1>2, <2>2, <3>1, <3>2, <3>3 DEF Clients
  <2>7. ASSUME NEW x \in Socks \ {s} PROVE Unmoved(x)
    BY <1>2, <1>3, <1>6, <2>4, <2>7 DEF Unmoved, Alive
  <2>8. WatchOf(s)'
    BY <1>2, <1>5, <1>8, <1>9, <2>4 DEF WatchOf, Watched, Gone
  <2>9. Shape' /\ Turns'
    BY <1>1, <1>2, <1>3, <2>2, <2>4, TypesAre, HandlerKeeps
  <2> QED
    BY <1>1, <2>6, <2>7, <2>8, <2>9, UnmovedIsWatched DEF IInv, Watch
<1> QED
  BY <1>10, <1>11

(* Data: the client is looked up, or a socket that is nobody's is closed. *)
LEMMA RecvKeeps ==
  ASSUME IInv, HandleRecv
  PROVE  IInv'
<1>1. Shape /\ Turns /\ Clients /\ Watch
  BY DEF IInv
<1>2. /\ UNCHANGED <<obj, busy, lis, pool, gone, job, wk, ap, waiting, tasks, stray, tree, cl>>
      /\ busy = Null /\ Next1("recv") /\ Head(evq).kind = "recv"
  BY DEF HandleRecv, Next1, server, crew, clients
<1>3. EventsOK(evq') /\ Watch' /\ hd.pc = "idle" /\ Head(evq).s \in Socks
  BY <1>2, OtherEvent
<1>4. /\ cl \in [Peers -> Client] /\ sock \in [Socks -> Peers \cup {Null}]
      /\ tree \in [Socks -> Peers \cup {Null}] /\ hd \in HandlerAt
  BY <1>1, TypesAre
<1>5. (Alive' <=> Alive) /\ \A d \in waiting' : cl'[d].st = "none"
  BY <1>1, <1>2 DEF Alive, Clients
<1>6. PICK s \in Socks : s = Head(evq).s
  BY <1>3
<1>7. CASE ~ obj
  <2>1. hd' = hd /\ sock' = sock
    BY <1>7 DEF HandleRecv
  <2>2. Clients'
    BY <1>1, <1>2, <2>1, <1>5 DEF Clients
  <2>3. Shape' /\ Turns'
    BY <1>1, <1>2, <1>3, <2>1, TypesAre, HandlerKeeps
  <2> QED
    BY <1>3, <2>2, <2>3 DEF IInv
<1>8. CASE obj /\ tree[s] = Null
  <2>1. hd' = hd /\ sock' = [sock EXCEPT ![s] = Null]
    BY <1>6, <1>8 DEF HandleRecv, Close
  <2>2. /\ \A x \in Socks \ {s} : sock'[x] = sock[x]
        /\ sock' \in [Socks -> Peers \cup {Null}]
    BY <1>4, <2>1
  <2>3. Clients'
    <3>1. \A x \in Socks : tree'[x] # Null =>
            cl'[tree'[x]] = [st |-> "live", fd |-> x] /\ (x \notin stray' => sock'[x] = tree'[x])
      BY <1>1, <1>2, <1>8, <2>2 DEF Clients
    <3>2. ~ Alive' => \A x \in Socks : tree'[x] = Null
      BY <1>1, <1>2, <1>5 DEF Clients
    <3> QED
      BY <1>3, <1>5, <2>1, <3>1, <3>2 DEF Clients
  <2>4. Shape' /\ Turns'
    BY <1>1, <1>2, <1>3, <2>1, <2>2, TypesAre, HandlerKeeps
  <2> QED
    BY <1>3, <2>3, <2>4 DEF IInv
<1>9. CASE obj /\ tree[s] # Null
  <2>1. hd' = [pc |-> "use", c |-> tree[s], s |-> s] /\ sock' = sock
    BY <1>6, <1>9 DEF HandleRecv
  <2>2. PICK c \in Peers : c = tree[s]
    BY <1>4, <1>9
  <2>3. cl[c] = [st |-> "live", fd |-> s]
    BY <1>1, <1>9, <2>2 DEF Clients
  <2>4. Clients'
    BY <1>1, <1>2, <1>5, <2>1, <2>2, <2>3 DEF Clients
  <2>5. Shape' /\ Turns'
    <3>1. hd' \in HandlerAt
      BY <2>1, <2>2 DEF HandlerAt
    <3> QED
      BY <1>1, <1>2, <1>3, <2>1, <3>1, TypesAre, HandlerKeeps
  <2> QED
    BY <1>3, <2>4, <2>5 DEF IInv
<1> QED
  BY <1>7, <1>8, <1>9

LEMMA UseKeeps ==
  ASSUME IInv, HandleUse
  PROVE  IInv'
<1>1. Shape /\ Turns /\ Clients /\ Watch
  BY DEF IInv
<1>2. /\ UNCHANGED <<obj, busy, lis, pool, gone, job, wk, ap, waiting, tasks, stray, tree, cl, sock, evq>>
      /\ hd' = Idle
  BY DEF HandleUse, server, crew, clients, system
<1>3. Clients'
  BY <1>1, <1>2 DEF Clients, Alive, Idle
<1>4. \A x \in Socks : Unmoved(x)
  BY <1>2 DEF Unmoved, Alive
<1>5. Shape' /\ Turns'
  <2>1. hd' \in HandlerAt
    BY <1>2 DEF HandlerAt, Idle
  <2> QED
    BY <1>1, <1>2, <2>1, TypesAre, HandlerKeeps
<1> QED
  BY <1>1, <1>3, <1>4, <1>5, UnmovedIsWatched DEF IInv, Watch

LEMMA HandlerStep ==
  ASSUME IInv, Handle
  PROVE  IInv'
BY ConnectKeeps, AddKeeps, AddFailsKeeps, GoneKeeps, RecvKeeps, UseKeeps DEF Handle
----------------------------------------------------------------------------
(* The peers and the listener. *)

(* A step that changes nothing but what the peers and the listener own. *)
LEMMA OutsideKeeps ==
  ASSUME IInv, UNCHANGED <<obj, busy, pool, tree, cl, sock, tasks, job, wk, hd, ap, stray>>,
         lis' \in {"suspended", "running", "deaf", "dead"}, waiting' \cup gone' \subseteq Peers,
         \A c \in waiting' : cl[c].st = "none",
         EventsOK(evq'),
         \A s \in Socks : /\ Occurs(evq', Gone(s)) <=> Occurs(evq, Gone(s))
                          /\ Once(evq, Gone(s)) => Once(evq', Gone(s))
  PROVE  IInv'
<1>1. Shape /\ Turns /\ Clients /\ Watch
  BY DEF IInv
<1>2. Shape' /\ Turns'
  BY <1>1 DEF Shape, TypeOK, EventsOK, Turns
<1>3. Clients'
  BY <1>1, SameClients
<1>4. \A s \in Socks : Unmoved(s)
  BY DEF Unmoved, Alive
<1> QED
  BY <1>1, <1>2, <1>3, <1>4, UnmovedIsWatched DEF IInv, Watch

LEMMA PeersKeep ==
  ASSUME IInv, NEW c \in Peers, PeerConnects(c) \/ PeerSends(c) \/ PeerCloses(c)
  PROVE  IInv'
<1>1. Shape /\ Clients
  BY DEF IInv
<1>2. /\ UNCHANGED <<obj, busy, pool, lis, tree, cl, sock, tasks, job, wk, hd, ap, stray, evq>>
      /\ waiting' = waiting \/ waiting' = waiting \cup {c}
      /\ gone' = gone \/ gone' = gone \cup {c}
  BY DEF PeerConnects, PeerSends, PeerCloses, server, clients, crew
<1>3. PeerConnects(c) => cl[c].st = "none"
  <2>1. ASSUME PeerConnects(c) PROVE c \in New
    BY <2>1 DEF PeerConnects, Fresh
  <2> QED
    BY <2>1 DEF New
<1>4. ~ PeerConnects(c) => waiting' = waiting
  BY DEF PeerSends, PeerCloses
<1>5. /\ lis' \in {"suspended", "running", "deaf", "dead"} /\ waiting' \cup gone' \subseteq Peers
      /\ EventsOK(evq')
  BY <1>1, <1>2 DEF Shape, TypeOK, EventsOK
<1>6. \A d \in waiting' : cl[d].st = "none"
  BY <1>1, <1>2, <1>3, <1>4 DEF Clients
<1> QED
  BY <1>2, <1>5, <1>6, OutsideKeeps

LEMMA ListenerKeeps ==
  ASSUME IInv, Listen \/ ListenQuiet
  PROVE  IInv'
<1>1. Shape /\ Clients
  BY DEF IInv
<1>2. /\ UNCHANGED <<obj, busy, pool, waiting, gone, tree, cl, sock, tasks, job, wk, hd, ap, stray>>
      /\ lis' = lis \/ lis' = "deaf"
      /\ evq' = evq \/ evq' = Post("connect", Null)
  BY DEF Listen, ListenQuiet, server, system, clients, crew
<1>3. /\ lis' \in {"suspended", "running", "deaf", "dead"} /\ waiting' \cup gone' \subseteq Peers
      /\ \A c \in waiting' : cl[c].st = "none"
  BY <1>1, <1>2 DEF Shape, TypeOK, Clients
<1>4. /\ EventsOK(Post("connect", Null)) /\ EventsOK(evq)
      /\ \A s \in Socks :
           /\ Occurs(Post("connect", Null), Gone(s)) <=> Occurs(evq, Gone(s))
           /\ Once(evq, Gone(s)) => Once(Post("connect", Null), Gone(s))
  BY <1>1, OnPost, TypesAre
<1>5. /\ EventsOK(evq')
      /\ \A s \in Socks : /\ Occurs(evq', Gone(s)) <=> Occurs(evq, Gone(s))
                          /\ Once(evq, Gone(s)) => Once(evq', Gone(s))
  BY <1>2, <1>4
<1> QED
  BY <1>2, <1>3, <1>5, OutsideKeeps
----------------------------------------------------------------------------
(* The calls of the application. *)

(* A start finds the workers suspended, with nothing in their hands. *)
LEMMA StartKeeps ==
  ASSUME IInv, NEW a \in App, Start(a)
  PROVE  IInv'
<1>1. Shape /\ Turns /\ Clients /\ Watch
  BY DEF IInv
<1>2. /\ UNCHANGED <<obj, busy, tree, cl, sock, waiting, gone, tasks, job, evq, hd, ap, stray>>
      /\ pool = "ready" /\ pool' = "run" /\ lis' = "running" /\ wk' = [w \in Workers |-> Top]
  BY DEF Start, system, clients
<1>3. \A w \in Workers : wk[w].task = Null /\ wk'[w] = Top
  BY <1>1, <1>2 DEF Turns
<1>4. \A s \in Socks : Unmoved(s)
  <2>1. \A w \in Workers : wk[w].task = Null /\ wk'[w].task = Null
    BY <1>3 DEF Top
  <2> QED
    BY <1>2, <2>1 DEF Unmoved, Alive
<1>5. wk' \in [Workers -> Rounds] /\ Shape'
  <2>1. Top \in Rounds
    BY DEF Top, Rounds
  <2>2. wk' \in [Workers -> Rounds]
    BY <1>2, <2>1
  <2> QED
    BY <1>1, <1>2, <2>2 DEF Shape, TypeOK, Rounds
<1>6. Turns'
  BY <1>1, <1>2, <1>3 DEF Turns, Top
<1>7. Clients'
  BY <1>1, <1>2, SameClients DEF Clients
<1> QED
  BY <1>1, <1>4, <1>5, <1>6, <1>7, UnmovedIsWatched DEF IInv, Watch

(* Stopping takes the handle, and gives it back when all workers ended. *)
LEMMA StopKeeps ==
  ASSUME IInv, NEW a \in App, StopBegin(a) \/ StopEnd(a)
  PROVE  IInv'
<1>1. Shape /\ Turns /\ Clients /\ Watch
  BY DEF IInv
<1>2. /\ UNCHANGED <<obj, tree, cl, sock, waiting, gone, tasks, job, wk, evq, hd, stray>>
      /\ \/ /\ busy = Null /\ busy' = a /\ lis' = "suspended" /\ pool' = "term"
            /\ ap[a] = "idle" /\ ap' = [ap EXCEPT ![a] = "stop"]
         \/ /\ ap[a] = "stop" /\ ap' = [ap EXCEPT ![a] = "idle"] /\ busy' = Null
            /\ lis' = lis /\ pool' = pool
  BY DEF StopBegin, StopEnd, Call, system, clients, crew
<1>3. ap \in [App -> {"idle", "stop", "delete"}] /\ Null \notin App
  BY <1>1, ServerAssumption DEF Shape
<1>4. Alive' <=> Alive
  BY <1>2, <1>3 DEF Alive
<1>5. Shape'
  BY <1>1, <1>2, <1>3 DEF Shape, TypeOK
<1>6. Turns'
  <2>1. \A b \in App : ap'[b] # "idle" => busy' = b
    BY <1>1, <1>2, <1>3 DEF Turns
  <2> QED
    BY <1>1, <1>2, <2>1 DEF Turns
<1>7. Clients'
  BY <1>1, <1>2, <1>4 DEF Clients
<1>8. \A s \in Socks : Unmoved(s)
  BY <1>2, <1>4 DEF Unmoved
<1> QED
  BY <1>1, <1>5, <1>6, <1>7, <1>8, UnmovedIsWatched DEF IInv, Watch

(* Deleting empties the tree first; after that nothing is alive. *)
LEMMA DeleteKeeps ==
  ASSUME IInv, NEW a \in App, DeleteBegin(a) \/ DeleteEnd(a)
  PROVE  IInv'
<1>1. Shape /\ Turns /\ Clients /\ Watch
  BY DEF IInv
<1>2. /\ UNCHANGED <<cl, sock, waiting, gone, tasks, job, wk, evq, hd, stray>>
      /\ \/ /\ busy = Null /\ busy' = a /\ lis' = "dead" /\ pool' = "term" /\ obj' = obj
            /\ ap[a] = "idle" /\ ap' = [ap EXCEPT ![a] = "delete"]
            /\ tree' = [s \in Socks |-> Null]
         \/ /\ ap[a] = "delete" /\ ap' = [ap EXCEPT ![a] = "idle"] /\ busy' = Null
            /\ obj' = FALSE /\ lis' = lis /\ pool' = pool /\ tree' = tree
  BY DEF DeleteBegin, DeleteEnd, Call, system, clients, crew
<1>3. /\ ap \in [App -> {"idle", "stop", "delete"}] /\ Null \notin App
      /\ tree \in [Socks -> Peers \cup {Null}]
  BY <1>1, ServerAssumption, TypesAre DEF Shape
<1>4. ~ Alive' /\ \A s \in Socks : tree'[s] = Null
  BY <1>1, <1>2, <1>3 DEF Alive, Clients
<1>5. Shape'
  BY <1>1, <1>2, <1>3 DEF Shape, TypeOK
<1>6. Turns'
  <2>1. \A b \in App : ap'[b] # "idle" => busy' = b
    BY <1>1, <1>2, <1>3 DEF Turns
  <2> QED
    BY <1>1, <1>2, <2>1 DEF Turns
<1>7. Clients'
  BY <1>1, <1>2, <1>4, ServerAssumption DEF Clients
<1>8. \A s \in Socks : Unmoved(s)
  BY <1>2, <1>4 DEF Unmoved
<1> QED
  BY <1>1, <1>5, <1>6, <1>7, <1>8, UnmovedIsWatched DEF IInv, Watch

(* The application closes a client's socket: the server loses track of it. *)
LEMMA DisconnectKeeps ==
  ASSUME IInv, NEW a \in App, NEW c \in Peers, Disconnect(a, c)
  PROVE  IInv'
<1>1. Shape /\ Turns /\ Clients /\ Watch
  BY DEF IInv
<1>2. /\ UNCHANGED <<obj, busy, lis, pool, tree, cl, waiting, gone, tasks, job, wk, evq, hd, ap>>
      /\ Valid(c) /\ sock' = [sock EXCEPT ![cl[c].fd] = Null]
      /\ stray' = stray \cup {cl[c].fd}
  BY DEF Disconnect, Close, server, clients, crew
<1>3. /\ cl \in [Peers -> Client] /\ sock \in [Socks -> Peers \cup {Null}]
      /\ tree \in [Socks -> Peers \cup {Null}] /\ stray \subseteq Socks /\ c # Null
  BY <1>1, TypesAre, ServerAssumption
<1>4. PICK s \in Socks : s = cl[c].fd /\ tree[s] = c
  BY <1>2, <1>3 DEF Valid, Client
<1>5. /\ \A x \in Socks \ {s} : sock'[x] = sock[x]
      /\ sock' \in [Socks -> Peers \cup {Null}] /\ stray' = stray \cup {s}
  BY <1>2, <1>3, <1>4
<1>6. Alive' <=> Alive
  BY <1>2 DEF Alive
<1>7. Shape' /\ Turns'
  <2>1. Shape'
    BY <1>1, <1>2, <1>3, <1>5 DEF Shape, TypeOK
  <2> QED
    BY <1>1, <1>2, <2>1 DEF Turns
<1>8. Clients'
  <2>1. \A x \in Socks : tree'[x] # Null =>
          cl'[tree'[x]] = [st |-> "live", fd |-> x] /\ (x \notin stray' => sock'[x] = tree'[x])
    BY <1>1, <1>2, <1>5 DEF Clients
  <2>2. hd.pc = "add" /\ Alive /\ tree[hd.s] = Null => sock'[hd.s] = hd.c
    BY <1>1, <1>3, <1>4, <1>5 DEF Clients
  <2> QED
    BY <1>1, <1>2, <1>5, <1>6, <2>1, <2>2 DEF Clients
<1>9. \A x \in Socks : Unmoved(x)
  BY <1>2, <1>5, <1>6 DEF Unmoved
<1> QED
  BY <1>1, <1>7, <1>8, <1>9, UnmovedIsWatched DEF IInv, Watch

LEMMA StutterKeeps ==
  ASSUME IInv, UNCHANGED <<server, tree, cl, sock, waiting, gone, tasks, job, wk, evq, hd, ap, stray>>
  PROVE  IInv'
<1>1. Shape /\ Turns /\ Clients /\ Watch
  BY DEF IInv
<1>2. UNCHANGED <<obj, busy, lis, pool>>
  BY DEF server
<1>3. Shape' /\ Turns' /\ Clients'
  <2>1. Shape'
    BY <1>1, <1>2 DEF Shape, TypeOK
  <2>2. Turns'
    BY <1>1, <1>2 DEF Turns
  <2> QED
    BY <1>1, <1>2, <2>1, <2>2, SameClients DEF Clients
<1>4. \A x \in Socks : Unmoved(x)
  BY <1>2 DEF Unmoved, Alive
<1> QED
  BY <1>1, <1>3, <1>4, UnmovedIsWatched DEF IInv, Watch

LEMMA AppKeeps ==
  ASSUME IInv, NEW a \in App, AppStep(a)
  PROVE  IInv'
<1>1. ASSUME NEW c \in Peers, Send(a, c) PROVE IInv'
  <2>1. UNCHANGED <<server, tree, cl, sock, waiting, gone, tasks, job, wk, evq, hd, ap, stray>>
    BY <1>1 DEF Send, server, system, clients, crew
  <2> QED
    BY <2>1, StutterKeeps
<1>2. ASSUME NEW c \in Peers, Disconnect(a, c) PROVE IInv'
  BY <1>2, DisconnectKeeps
<1> QED
  BY <1>1, <1>2, StartKeeps, StopKeeps, DeleteKeeps DEF AppStep
----------------------------------------------------------------------------
(* The invariant, and what follows. *)

LEMMA InitHolds ==
  ASSUME Init
  PROVE  IInv
<1>1. /\ tasks = <<>> /\ evq = <<>> /\ tasks \in Seq(Socks) /\ evq \in Seq(Events) /\ Len(evq) = 0
      /\ DOMAIN tasks = {} /\ DOMAIN evq = {}
  BY DEF Init
<1>2. wk = [w \in Workers |-> [pc |-> "suspended", ready |-> {}, task |-> Null]]
  <2>1. [Top EXCEPT !.pc = "suspended"] = [pc |-> "suspended", ready |-> {}, task |-> Null]
    BY DEF Top
  <2> QED
    BY <2>1 DEF Init
<1>3. Shape
  <2>1. 0 <= MaxEvents
    BY ServerAssumption
  <2> QED
    BY <1>1, <1>2, <2>1 DEF Init, Shape, TypeOK, Client, Idle
<1>4. Turns
  BY <1>2 DEF Init, Turns
<1>5. Clients
  BY DEF Init, Clients, Alive, Idle
<1>6. ASSUME NEW s \in Socks PROVE WatchOf(s)
  <2>1. s # Null
    BY ServerAssumption
  <2>2. ~ InJob(s) /\ ~ Refused(s) /\ ~ Queued(s) /\ ~ Told(s)
    BY <1>1, <1>2, <2>1 DEF Init, InJob, Refused, Queued, Told, Occurs
  <2>3. Once(tasks, s) /\ Once(evq, Gone(s)) /\ tree[s] = Null
    BY <1>1 DEF Init, Once
  <2>4. \A w, v \in Workers : ~ (s \in job[w]) /\ ~ (wk[w].task = s)
    BY <2>2 DEF InJob, Refused
  <2> QED
    BY <2>2, <2>3, <2>4 DEF WatchOf, Watched
<1> QED
  BY <1>3, <1>4, <1>5, <1>6 DEF IInv, Watch

LEMMA InvStep ==
  ASSUME IInv, [Next]_vars
  PROVE  IInv'
<1>1. CASE UNCHANGED vars
  BY <1>1, StutterKeeps DEF vars, server, system, clients, crew
<1>2. ASSUME NEW c \in Peers, PeerConnects(c) \/ PeerSends(c) \/ PeerCloses(c) PROVE IInv'
  BY <1>2, PeersKeep
<1>3. ASSUME NEW w \in Workers, WorkerStep(w) PROVE IInv'
  BY <1>3, WorkersKeep
<1>4. ASSUME NEW a \in App, AppStep(a) PROVE IInv'
  BY <1>4, AppKeeps
<1> QED
  BY <1>1, <1>2, <1>3, <1>4, ListenerKeeps, HandlerStep DEF Next

(* The books of the server hold in every state: types, who has the handle, *)
(* what tree and handler hold, and where every socket is watched           *)
(* (tcp_server.c as a whole).                                              *)
THEOREM ServerInvariant == Spec => []IInv
<1>1. Init => IInv
  BY InitHolds
<1>2. IInv /\ [Next]_vars => IInv'
  BY InvStep
<1> QED
  BY <1>1, <1>2, PTL DEF Spec

(* Whoever is in the client tree is not freed, is there under its own      *)
(* socket, and that number still stands for it unless the server has lost  *)
(* track of it (enet_add_client_to_server and                              *)
(* enet_tcp_server_remove_client).                                         *)
THEOREM TreeIsSound == Spec => []TreeHoldsLiveClients
<1>1. IInv => TreeHoldsLiveClients
  <2> SUFFICES ASSUME IInv PROVE TreeHoldsLiveClients
    OBVIOUS
  <2>1. Shape /\ Clients
    BY DEF IInv
  <2> QED
    BY <2>1 DEF TreeHoldsLiveClients, Clients, Shape
<1> QED
  BY <1>1, ServerInvariant, PTL

(* The client the handler uses after it gave the lock back is not freed,   *)
(* and the client of a "gone" event is always found                        *)
(* (enet_tcp_server_process_recv, enet_tcp_server_remove_client).          *)
THEOREM HandlerIsSafe == Spec => []HandlerUsesLiveClient
<1>1. IInv => HandlerUsesLiveClient
  BY DEF IInv, Clients, Shape, HandlerUsesLiveClient
<1> QED
  BY <1>1, ServerInvariant, PTL

(* What is in a set at most once counts for one, or for nothing. *)
LEMMA CountsOnce ==
  ASSUME NEW S, \A x, y \in S : x = y
  PROVE  Cardinality(S) = IF S = {} THEN 0 ELSE 1
<1>1. CASE S = {}
  BY <1>1, FS_EmptySet
<1>2. CASE S # {}
  <2>1. PICK x \in S : S = {x}
    BY <1>2
  <2> QED
    BY <1>2, <2>1, FS_Singleton
<1> QED
  BY <1>1, <1>2

(* Every client in the tree has exactly one watcher - a worker's set, a    *)
(* refused task, the queue of tasks or a pending "gone" event - unless its *)
(* socket was closed or its event lost (server_worker_thread, worker_thread *)
(* and enet_add_client_to_server).                                         *)
THEOREM ClientsHaveOneWatcher == Spec => []ClientsAreWatched
<1>1. ASSUME IInv, NEW s \in Socks, tree[s] # Null, s \notin stray PROVE Watchers(s) = 1
  <2> DEFINE A == {w \in Workers : s \in job[w]}
             B == {w \in Workers : wk[w].task = s}
             C == {i \in DOMAIN tasks : tasks[i] = s}
             D == {i \in DOMAIN evq : evq[i] = [kind |-> "gone", s |-> s]}
  <2>1. WatchOf(s) /\ Watched(s)
    BY <1>1 DEF IInv, Watch, WatchOf
  <2>2. /\ \A x, y \in A : x = y
        /\ \A x, y \in B : x = y
        /\ \A x, y \in C : x = y
        /\ \A x, y \in D : x = y
    BY <2>1 DEF WatchOf, Once, Gone
  <2>3. /\ A # {} <=> InJob(s)
        /\ B # {} <=> Refused(s)
        /\ C # {} <=> Queued(s)
        /\ D # {} <=> Told(s)
    BY DEF InJob, Refused, Queued, Told, Occurs, Gone
  <2>4. Watchers(s) = Cardinality(A) + Cardinality(B) + Cardinality(C) + Cardinality(D)
    BY DEF Watchers
  <2> HIDE DEF A, B, C, D
  <2>5. /\ Cardinality(A) = IF A = {} THEN 0 ELSE 1
        /\ Cardinality(B) = IF B = {} THEN 0 ELSE 1
        /\ Cardinality(C) = IF C = {} THEN 0 ELSE 1
        /\ Cardinality(D) = IF D = {} THEN 0 ELSE 1
    BY <2>2, CountsOnce
  <2>6. /\ InJob(s) \/ Refused(s) \/ Queued(s) \/ Told(s)
        /\ InJob(s) => ~ Refused(s) /\ ~ Queued(s) /\ ~ Told(s)
        /\ Refused(s) => ~ Queued(s) /\ ~ Told(s)
        /\ Queued(s) => ~ Told(s)
    BY <2>1 DEF WatchOf, Watched
  <2> QED
    BY <2>3, <2>4, <2>5, <2>6
<1>2. IInv => ClientsAreWatched
  BY <1>1 DEF ClientsAreWatched
<1> QED
  BY <1>2, ServerInvariant, PTL
=============================================================================
