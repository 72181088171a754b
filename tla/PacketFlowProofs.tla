-------------------------- MODULE PacketFlowProofs --------------------------
(***************************************************************************)
(* Proofs about PacketFlow for any threads and connections, any number of  *)
(* units and any size of the queue, and (in the second half) about Framing *)
(* for any sizes of head and tail, any stream and any pieces of it.        *)
(*                                                                         *)
(* A unit moves between three places: the stack of free units, a thread's  *)
(* local variable, an event.  Owned says of their contents that no unit is *)
(* twice among them; one lemma for each way a unit moves says that Owned   *)
(* is kept, and the proof about the steps is only which of them a step is. *)
(* The order of the packets rests on it and on what a thread knows that is *)
(* about to post: it alone has the connection, and the newest packet of it.*)
(***************************************************************************)
EXTENDS PacketFlow, Framing, SequenceTheorems, FiniteSetTheorems, NaturalsInduction,
        WellFoundedInduction, TLAPS

(* OneOwner, element by element: fl is the stack, st the flags, un what the
   threads hold and W the events on their way. *)
Owned(fl, st, un, W) ==
  /\ \A i, j \in 1..Len(fl) : fl[i] = fl[j] => i = j
  /\ \A s, t \in Threads : un[s] = un[t] /\ un[s] # NoUnit => s = t
  /\ \A i, j \in 1..Len(W) : W[i].unit = W[j].unit /\ W[i].unit # NoUnit => i = j
  /\ \A i \in 1..Len(fl), t \in Threads : fl[i] # un[t]
  /\ \A i \in 1..Len(fl), j \in 1..Len(W) : fl[i] # W[j].unit
  /\ \A t \in Threads, j \in 1..Len(W) : un[t] = W[j].unit => un[t] = NoUnit
  /\ \A u \in Units : st[u] = 0 <=> \E i \in 1..Len(fl) : fl[i] = u

Stacks == Seq(Units)
Flags == [Units -> {0, 1}]
Holds == [Threads -> Units \cup {NoUnit}]
Trains == Seq(EventTypes)

LEMMA UnitsAreUnits == \A u \in Units : u # NoUnit
BY DEF Units, NoUnit

LEMMA EventUnits == \A e \in EventTypes : /\ e.unit \in Units \cup {NoUnit}
                                          /\ e.peer \in Peers
                                          /\ e.id \in {"recv", "disconnect"}
                                          /\ (e.id = "recv" <=> e.unit # NoUnit)
                                          /\ (e.id = "disconnect" => e.peer \in Conns)
                                          /\ e # NoEvent
BY UnitsAreUnits DEF EventTypes, RecvEvent, DisconnectEvent, NoEvent, Peers

(* A thread takes the unit on top of the stack. *)
LEMMA TakeTop ==
  ASSUME NEW fl \in Stacks, NEW st \in Flags, NEW un \in Holds, NEW W \in Trains,
         NEW t \in Threads, un[t] = NoUnit, fl # <<>>, Owned(fl, st, un, W)
  PROVE  Owned(SubSeq(fl, 1, Len(fl) - 1), [st EXCEPT ![fl[Len(fl)]] = 1],
               [un EXCEPT ![t] = fl[Len(fl)]], W)
<1> DEFINE fm == SubSeq(fl, 1, Len(fl) - 1)
           top == fl[Len(fl)]
<1>1. /\ Len(fl) \in Nat \ {0} /\ Len(fm) = Len(fl) - 1
      /\ \A i \in 1..Len(fm) : fm[i] = fl[i]
      /\ \A i \in 1..Len(fl) : fl[i] \in Units
      /\ top \in Units
  <2>1. Len(fl) \in Nat \ {0}
    BY EmptySeq DEF Stacks
  <2>2. \A i \in 1..Len(fl) : fl[i] \in Units
    BY ElementOfSeq DEF Stacks
  <2>3. Len(fl) - 1 \in Int /\ 1 \in Int /\ \A i \in 1..(Len(fl) - 1) : fl[i] \in Units
    BY <2>1, <2>2
  <2>4. /\ Len(fm) = IF 1 <= Len(fl) - 1 THEN Len(fl) - 1 - 1 + 1 ELSE 0
        /\ \A i \in 1..(Len(fl) - 1 - 1 + 1) : fm[i] = fl[1 + i - 1]
    BY <2>3, SubSeqProperties
  <2> HIDE DEF fm
  <2>5. Len(fm) = IF 1 <= Len(fl) - 1 THEN Len(fl) - 1 - 1 + 1 ELSE 0
    BY <2>4
  <2>6. \A n \in Nat \ {0} : (IF 1 <= n - 1 THEN n - 1 - 1 + 1 ELSE 0) = n - 1
    OBVIOUS
  <2>7. Len(fm) = Len(fl) - 1
    BY <2>1, <2>5, <2>6, Zenon
  <2>8. \A i \in 1..Len(fm) : i \in 1..(Len(fl) - 1 - 1 + 1) /\ 1 + i - 1 = i
    BY <2>1, <2>7
  <2>9. \A i \in 1..Len(fm) : fm[i] = fl[i]
    BY <2>4, <2>8
  <2>10. top \in Units
    BY <2>1, <2>2
  <2> QED
    BY <2>1, <2>2, <2>7, <2>10, <2>9
<1>2. /\ \A u \in Units : [st EXCEPT ![top] = 1][u] = IF u = top THEN 1 ELSE st[u]
      /\ \A s \in Threads : [un EXCEPT ![t] = top][s] = IF s = t THEN top ELSE un[s]
  BY <1>1 DEF Flags, Holds
<1>3. \A i, j \in 1..Len(fl) : fl[i] = fl[j] => i = j
  BY DEF Owned
<1>4. \A i \in 1..Len(fm) : fm[i] # top /\ i \in 1..Len(fl)
  BY <1>1, <1>3
<1> HIDE DEF fm, top
<1>5. \A s \in Threads : un[s] # top
  BY <1>1 DEF Owned, top
<1>6. \A j \in 1..Len(W) : W[j].unit # top
  BY <1>1 DEF Owned, top
<1>7. \A u \in Units : [st EXCEPT ![top] = 1][u] = 0 <=> \E i \in 1..Len(fm) : fm[i] = u
  <2> SUFFICES ASSUME NEW u \in Units
               PROVE  [st EXCEPT ![top] = 1][u] = 0 <=> \E i \in 1..Len(fm) : fm[i] = u
    OBVIOUS
  <2>1. st[u] = 0 <=> \E i \in 1..Len(fl) : fl[i] = u
    BY DEF Owned
  <2>2. CASE u = top
    BY <2>2, <1>2, <1>4
  <2>3. CASE u # top
    <3>1. \A i \in 1..Len(fl) : fl[i] = u => i \in 1..Len(fm)
      BY <2>3, <1>1 DEF top
    <3> QED
      BY <2>1, <2>3, <3>1, <1>1, <1>2, <1>4
  <2> QED
    BY <2>2, <2>3
<1>8. /\ \A i, j \in 1..Len(fm) : fm[i] = fm[j] => i = j
      /\ \A i \in 1..Len(fm), j \in 1..Len(W) : fm[i] # W[j].unit
  BY <1>1, <1>4 DEF Owned
<1>9. \A i \in 1..Len(fm), s \in Threads : fm[i] # [un EXCEPT ![t] = top][s]
  BY <1>1, <1>2, <1>4 DEF Owned
<1>10. /\ \A s, r \in Threads : [un EXCEPT ![t] = top][s] = [un EXCEPT ![t] = top][r]
                                /\ [un EXCEPT ![t] = top][s] # NoUnit => s = r
       /\ \A s \in Threads, j \in 1..Len(W) :
            [un EXCEPT ![t] = top][s] = W[j].unit => [un EXCEPT ![t] = top][s] = NoUnit
  BY <1>2, <1>5, <1>6 DEF Owned
<1>11. \A i, j \in 1..Len(W) : W[i].unit = W[j].unit /\ W[i].unit # NoUnit => i = j
  BY DEF Owned
<1> QED
  BY <1>7, <1>8, <1>9, <1>10, <1>11 DEF Owned, fm, top

(* A unit that is in none of the three places goes on the stack. *)
LEMMA PutOnTop ==
  ASSUME NEW fl \in Stacks, NEW st \in Flags, NEW un \in Holds, NEW W \in Trains,
         NEW u \in Units, Owned(fl, st, un, W),
         \A i \in 1..Len(fl) : fl[i] # u,
         \A t \in Threads : un[t] # u,
         \A j \in 1..Len(W) : W[j].unit # u
  PROVE  Owned(Append(fl, u), [st EXCEPT ![u] = 0], un, W)
<1> DEFINE fm == Append(fl, u)
<1>1. /\ Len(fl) \in Nat /\ Len(fm) = Len(fl) + 1
      /\ \A i \in 1..Len(fl) : fm[i] = fl[i]
      /\ fm[Len(fl) + 1] = u
  BY DEF Stacks
<1>2. \A v \in Units : [st EXCEPT ![u] = 0][v] = IF v = u THEN 0 ELSE st[v]
  BY DEF Flags
<1>3. \A i \in 1..Len(fm) : IF i = Len(fl) + 1 THEN fm[i] = u
                                               ELSE i \in 1..Len(fl) /\ fm[i] = fl[i]
  BY <1>1
<1> HIDE DEF fm
<1>4. \A v \in Units : [st EXCEPT ![u] = 0][v] = 0 <=> \E i \in 1..Len(fm) : fm[i] = v
  <2>1. \A v \in Units : st[v] = 0 <=> \E i \in 1..Len(fl) : fl[i] = v
    BY DEF Owned
  <2>2. Len(fl) + 1 \in 1..Len(fm) /\ \A i \in 1..Len(fl) : i \in 1..Len(fm)
    BY <1>1
  <2> QED
    BY <2>1, <2>2, <1>1, <1>2, <1>3
<1>5. /\ \A i, j \in 1..Len(fm) : fm[i] = fm[j] => i = j
      /\ \A i \in 1..Len(fm), t \in Threads : fm[i] # un[t]
      /\ \A i \in 1..Len(fm), j \in 1..Len(W) : fm[i] # W[j].unit
  BY <1>3 DEF Owned
<1> QED
  BY <1>4, <1>5 DEF Owned, fm

(* A thread lets go of its unit: it is nowhere then. *)
LEMMA LetGo ==
  ASSUME NEW fl \in Stacks, NEW st \in Flags, NEW un \in Holds, NEW W \in Trains,
         NEW t \in Threads, un[t] # NoUnit, Owned(fl, st, un, W)
  PROVE  /\ Owned(fl, st, [un EXCEPT ![t] = NoUnit], W)
         /\ \A i \in 1..Len(fl) : fl[i] # un[t]
         /\ \A s \in Threads : [un EXCEPT ![t] = NoUnit][s] # un[t]
         /\ \A j \in 1..Len(W) : W[j].unit # un[t]
<1> DEFINE um == [un EXCEPT ![t] = NoUnit]
<1>1. \A s \in Threads : um[s] = IF s = t THEN NoUnit ELSE un[s]
  BY DEF Holds
<1>2. \A i \in 1..Len(fl) : fl[i] # NoUnit
  BY ElementOfSeq, UnitsAreUnits DEF Stacks
<1> HIDE DEF um
<1>3. Owned(fl, st, um, W)
  BY <1>1, <1>2 DEF Owned
<1>4. /\ \A i \in 1..Len(fl) : fl[i] # un[t]
      /\ \A s \in Threads : um[s] # un[t]
      /\ \A j \in 1..Len(W) : W[j].unit # un[t]
  BY <1>1 DEF Owned
<1> QED
  BY <1>3, <1>4 DEF um

(* An event with a unit that is nowhere, or with none, joins the queue. *)
LEMMA JoinQueue ==
  ASSUME NEW fl \in Stacks, NEW st \in Flags, NEW un \in Holds, NEW W \in Trains,
         NEW e \in EventTypes, Owned(fl, st, un, W),
         e.unit # NoUnit =>
           /\ \A i \in 1..Len(fl) : fl[i] # e.unit
           /\ \A t \in Threads : un[t] # e.unit
           /\ \A j \in 1..Len(W) : W[j].unit # e.unit
  PROVE  Owned(fl, st, un, Append(W, e))
<1> DEFINE X == Append(W, e)
<1>1. Len(W) \in Nat
  BY DEF Trains
<1>2. \A j \in 1..Len(X) : IF j = Len(W) + 1 THEN X[j] = e
                                             ELSE j \in 1..Len(W) /\ X[j] = W[j]
  BY <1>1 DEF Trains
<1>3. \A i \in 1..Len(fl) : fl[i] # NoUnit
  BY ElementOfSeq, UnitsAreUnits DEF Stacks
<1> HIDE DEF X
<1> QED
  BY <1>2, <1>3 DEF Owned, X

(* The oldest event leaves; its unit is nowhere then. *)
LEMMA LeaveQueue ==
  ASSUME NEW fl \in Stacks, NEW st \in Flags, NEW un \in Holds, NEW W \in Trains,
         W # <<>>, Owned(fl, st, un, W)
  PROVE  /\ Owned(fl, st, un, Tail(W))
         /\ W[1].unit # NoUnit =>
              /\ \A i \in 1..Len(fl) : fl[i] # W[1].unit
              /\ \A t \in Threads : un[t] # W[1].unit
              /\ \A j \in 1..Len(Tail(W)) : Tail(W)[j].unit # W[1].unit
<1> DEFINE X == Tail(W)
<1>1. /\ Len(W) \in Nat \ {0}
      /\ Len(X) = Len(W) - 1
      /\ \A j \in 1..Len(X) : X[j] = W[j + 1]
  BY EmptySeq, HeadTailProperties DEF Trains
<1>2. 1 \in 1..Len(W) /\ \A j \in 1..Len(X) : j + 1 \in 1..Len(W) /\ j + 1 # 1
  BY <1>1
<1> HIDE DEF X
<1>3. /\ \A i, j \in 1..Len(X) : X[i].unit = X[j].unit /\ X[i].unit # NoUnit => i = j
      /\ \A j \in 1..Len(X) : W[1].unit # NoUnit => X[j].unit # W[1].unit
  <2>1. \A i, j \in 1..Len(W) : W[i].unit = W[j].unit /\ W[i].unit # NoUnit => i = j
    BY DEF Owned
  <2> QED
    BY <1>1, <1>2, <2>1
<1>4. /\ \A i \in 1..Len(fl), j \in 1..Len(X) : fl[i] # X[j].unit
      /\ \A t \in Threads, j \in 1..Len(X) : un[t] = X[j].unit => un[t] = NoUnit
  BY <1>1, <1>2 DEF Owned
<1>5. W[1].unit # NoUnit => /\ \A i \in 1..Len(fl) : fl[i] # W[1].unit
                           /\ \A t \in Threads : un[t] # W[1].unit
  BY <1>2 DEF Owned
<1>6. Owned(fl, st, un, X)
  BY <1>3, <1>4 DEF Owned
<1> QED
  BY <1>3, <1>5, <1>6 DEF X

----------------------------------------------------------------------------
(* The invariant. *)

WorkerPCs == {"select", "recv", "post", "refused", "report", "clear"}
ReceiverPCs == {"off", "alloc", "recv", "post", "ended"}

(* When a thread has a unit: what a step may give away, it has. *)
Roles ==
  /\ \A w \in Workers : /\ pc[w] \in WorkerPCs
                         /\ (pc[w] = "select" <=> unit[w] = NoUnit)
                         /\ (pc[w] = "select" <=> fd[w] = Nobody)
  /\ \A r \in Receivers : /\ pc[r] \in ReceiverPCs
                           /\ (pc[r] \in {"recv", "post"} <=> unit[r] # NoUnit)
                           /\ (pc[r] # "ended" => endurance[r] \in {1, 2})

(* TypeOK but for the length of the stack, which needs OneOwner. *)
Types ==
  /\ freeList \in Stacks /\ state \in Flags /\ unit \in Holds
  /\ data \in [Units -> [peer : Peers \cup {Nobody}, n : 0..MaxPackets]]
  /\ received \in [Peers -> 0..MaxPackets]
  /\ queue \in Trains /\ Len(queue) <= QueueSize
  /\ event \in EventTypes \cup {NoEvent}
  /\ tasks \subseteq Conns
  /\ jobs \in [Workers -> SUBSET Conns]
  /\ ready \in [Workers -> SUBSET Conns]
  /\ fd \in [Workers -> Conns \cup {Nobody}]
  /\ endurance \in [Receivers -> 0..2]
  /\ pc \in [Threads -> WorkerPCs \cup ReceiverPCs]

IInv == Types /\ Roles /\ Owned(freeList, state, unit, Waiting)

(* The events on their way are a sequence of events. *)
LEMMA WaitingSeq == Types => Waiting \in Trains
<1> SUFFICES ASSUME Types PROVE Waiting \in Trains
  OBVIOUS
<1>1. CASE event = NoEvent
  BY <1>1 DEF Types, Waiting
<1>2. CASE event # NoEvent
  <2>1. <<event>> \in Seq(EventTypes) /\ queue \in Seq(EventTypes)
    BY <1>2 DEF Types, Trains
  <2> QED
    BY <2>1, <1>2, ConcatProperties DEF Waiting, Trains
<1> QED
  BY <1>1, <1>2

(* The stack has room for a unit as long as no unit is on it twice. *)
LEMMA StackHasRoom ==
  ASSUME NEW fl \in Stacks, \A i, j \in 1..Len(fl) : fl[i] = fl[j] => i = j
  PROVE  Len(fl) <= PoolSize
<1>1. Len(fl) \in Nat /\ fl \in [1..Len(fl) -> Units]
  BY LenProperties DEF Stacks
<1>2. fl \in Injection(1..Len(fl), Units)
  BY <1>1 DEF Injection, IsInjective
<1>3. PoolSize \in Nat \ {0} /\ 0 \in Int /\ PoolSize - 1 \in Int
  BY SizesAssumption
<1>4. IsFiniteSet(Units) /\ Cardinality(Units) = PoolSize
  BY <1>3, FS_Interval DEF Units
<1>5. Cardinality(1..Len(fl)) = Len(fl)
  BY <1>1, FS_Interval
<1>6. Cardinality(1..Len(fl)) <= Cardinality(Units)
  BY <1>2, <1>4, FS_Injection
<1> QED
  BY <1>4, <1>5, <1>6

(* OneOwner is what Owned says, set by set. *)
LEMMA OwnedIsOneOwner ==
  Types /\ Owned(freeList, state, unit, Waiting) => OneOwner
<1> SUFFICES ASSUME Types, Owned(freeList, state, unit, Waiting) PROVE OneOwner
  OBVIOUS
<1>1. /\ DOMAIN freeList = 1..Len(freeList) /\ DOMAIN Waiting = 1..Len(Waiting)
      /\ \A i \in 1..Len(freeList) : freeList[i] \in Units
  BY WaitingSeq, LenProperties, ElementOfSeq DEF Types, Stacks, Trains
<1>2. /\ \A i, j \in DOMAIN freeList : freeList[i] = freeList[j] => i = j
      /\ \A s, t \in Threads : unit[s] = unit[t] /\ unit[s] # NoUnit => s = t
      /\ \A i, j \in DOMAIN Waiting :
           Waiting[i].unit = Waiting[j].unit /\ Waiting[i].unit # NoUnit => i = j
  BY <1>1 DEF Owned
<1>3. FreeUnits \cap HeldUnits = {} /\ FreeUnits \cap SentUnits = {}
  BY <1>1 DEF Owned, FreeUnits, HeldUnits, SentUnits
<1>4. HeldUnits \cap SentUnits = {}
  BY <1>1 DEF Owned, HeldUnits, SentUnits
<1>5. FreeUnits = {u \in Units : state[u] = 0}
  BY <1>1 DEF Owned, FreeUnits
<1> QED
  BY <1>2, <1>3, <1>4, <1>5 DEF OneOwner

LEMMA IInvTypeOK == IInv => TypeOK
<1> SUFFICES ASSUME IInv PROVE TypeOK
  OBVIOUS
<1>1. Len(freeList) <= PoolSize
  BY StackHasRoom DEF IInv, Types, Owned
<1> QED
  BY <1>1 DEF IInv, Types, TypeOK, Stacks, Flags, Holds, Trains, WorkerPCs, ReceiverPCs

THEOREM InitIInv == Init => IInv
<1> SUFFICES ASSUME Init PROVE IInv
  OBVIOUS
<1> USE ThreadsAssumption, NobodyAssumption, SizesAssumption
<1>1. PoolSize \in Nat \ {0} /\ MaxPackets \in Nat \ {0} /\ QueueSize \in Nat \ {0}
  OBVIOUS
<1>2. /\ freeList \in [1..PoolSize -> Units] /\ Len(freeList) = PoolSize
      /\ freeList \in Seq(Units)
      /\ \A i \in 1..PoolSize : freeList[i] = i - 1
  BY <1>1 DEF Init, Units
<1>3. Waiting = <<>> /\ Len(Waiting) = 0 /\ queue \in Trains /\ Len(queue) = 0
  BY DEF Init, Waiting, Trains
<1>4. Types
  <2>1. data \in [Units -> [peer : Peers \cup {Nobody}, n : 0..MaxPackets]]
    BY <1>1 DEF Init, Blank
  <2>2. unit \in Holds /\ state \in Flags
    BY DEF Init, Holds, Flags
  <2> QED
    BY <1>1, <1>2, <1>3, <2>1, <2>2 DEF Init, Types, Stacks, WorkerPCs, ReceiverPCs, Threads
<1>5. Roles
  BY DEF Init, Roles, WorkerPCs, ReceiverPCs, Threads
<1>6. Owned(freeList, state, unit, Waiting)
  <2>1. \A u \in Units : u + 1 \in 1..PoolSize /\ freeList[u + 1] = u /\ state[u] = 0
    BY <1>1, <1>2 DEF Init, Units
  <2>2. \A i \in 1..PoolSize, t \in Threads : freeList[i] # unit[t]
    BY <1>2, UnitsAreUnits DEF Init
  <2>3. \A t \in Threads : unit[t] = NoUnit
    BY DEF Init
  <2> QED
    BY <1>1, <1>2, <1>3, <2>1, <2>2, <2>3 DEF Owned
<1> QED
  BY <1>4, <1>5, <1>6 DEF IInv

----------------------------------------------------------------------------
(* What a step does to the events on their way. *)

LEMMA WaitingKept ==
  ASSUME UNCHANGED <<event, queue>>
  PROVE  Waiting' = Waiting
BY DEF Waiting

LEMMA WaitingPopped ==
  ASSUME Types, HandlerPop
  PROVE  Waiting' = Waiting
<1>1. queue \in Seq(EventTypes) /\ queue # <<>>
  BY DEF Types, Trains, HandlerPop
<1>2. Head(queue) # NoEvent /\ Head(queue) \in EventTypes
  BY <1>1, HeadTailProperties, EventUnits
<1>3. queue = <<Head(queue)>> \o Tail(queue)
  <2>1. /\ Tail(queue) \in Seq(EventTypes) /\ Len(Tail(queue)) = Len(queue) - 1
        /\ \A i \in 1..Len(Tail(queue)) : Tail(queue)[i] = queue[i + 1]
        /\ Len(queue) \in Nat \ {0}
    BY <1>1, HeadTailProperties, EmptySeq
  <2>2. <<Head(queue)>> \in Seq(EventTypes) /\ Len(<<Head(queue)>>) = 1
    BY <1>2
  <2> DEFINE X == <<Head(queue)>> \o Tail(queue)
  <2>3. /\ X \in Seq(EventTypes) /\ Len(X) = 1 + Len(Tail(queue))
        /\ \A i \in 1..(1 + Len(Tail(queue))) :
             X[i] = IF i <= 1 THEN <<Head(queue)>>[i] ELSE Tail(queue)[i - 1]
    BY <2>1, <2>2, ConcatProperties
  <2>4. Head(queue) = queue[1] /\ <<Head(queue)>>[1] = Head(queue)
    BY <1>1
  <2> HIDE DEF X
  <2>5. Len(X) = Len(queue)
    BY <2>1, <2>3
  <2>6. \A i \in 1..Len(queue) : queue[i] = X[i]
    <3> SUFFICES ASSUME NEW i \in 1..Len(queue) PROVE queue[i] = X[i]
      OBVIOUS
    <3>1. CASE i = 1
      BY <3>1, <2>1, <2>3, <2>4
    <3>2. CASE i # 1
      <4>1. i - 1 \in 1..Len(Tail(queue)) /\ (i - 1) + 1 = i /\ ~(i <= 1)
        BY <3>2, <2>1
      <4> QED
        BY <4>1, <2>1, <2>3
    <3> QED
      BY <3>1, <3>2
  <2> QED
    BY <1>1, <2>3, <2>5, <2>6, SeqEqual DEF X
<1> QED
  BY <1>2, <1>3 DEF HandlerPop, Waiting

LEMMA WaitingJoined ==
  ASSUME Types, NEW e \in EventTypes, event' = event, queue' = Append(queue, e)
  PROVE  Waiting' = Append(Waiting, e)
<1>1. queue \in Seq(EventTypes)
  BY DEF Types, Trains
<1>2. CASE event = NoEvent
  BY <1>2 DEF Waiting
<1>3. CASE event # NoEvent
  <2>1. event \in EventTypes
    BY <1>3 DEF Types
  <2>2. <<event>> \o Append(queue, e) = Append(<<event>> \o queue, e)
    BY <1>1, <2>1
  <2> QED
    BY <1>3, <2>2 DEF Waiting
<1> QED
  BY <1>2, <1>3

LEMMA WaitingLeft ==
  ASSUME Types, event # NoEvent, event' = NoEvent, queue' = queue
  PROVE  /\ event \in EventTypes
         /\ Waiting # <<>> /\ Waiting[1] = event
         /\ Waiting' = Tail(Waiting)
<1>1. queue \in Seq(EventTypes) /\ event \in EventTypes
  BY DEF Types, Trains
<1> DEFINE X == <<event>> \o queue
<1>2. X # <<>> /\ X[1] = event /\ Tail(X) = queue
  BY <1>1
<1> QED
  BY <1>1, <1>2 DEF Waiting

----------------------------------------------------------------------------
(* The steps. *)

(* The effect of the pool's operations on the types. *)
LEMMA AllocTypes ==
  ASSUME Types, NEW t \in Threads, Alloc(t)
  PROVE  /\ freeList' \in Stacks /\ state' \in Flags /\ unit' \in Holds
         /\ Top \in Units /\ Top # NoUnit
<1>1. Len(freeList) \in Nat \ {0} /\ freeList \in Seq(Units)
  BY EmptySeq DEF Types, Stacks, Alloc
<1>2. \A i \in 1..Len(freeList) : freeList[i] \in Units
  BY <1>1, ElementOfSeq
<1>3. Top \in Units
  BY <1>1, <1>2 DEF Top
<1>4. Len(freeList) - 1 \in Int /\ 1 \in Int
      /\ \A i \in 1..(Len(freeList) - 1) : freeList[i] \in Units
  BY <1>1, <1>2
<1>5. freeList' \in Seq(Units)
  BY <1>4, SubSeqProperties DEF Alloc
<1> QED
  BY <1>3, <1>5, UnitsAreUnits DEF Types, Alloc, Stacks, Flags, Holds

LEMMA FreeTypes ==
  ASSUME Types, NEW u \in Units, Free(u)
  PROVE  /\ freeList' \in Stacks /\ state' \in Flags
         /\ data' \in [Units -> [peer : Peers \cup {Nobody}, n : 0..MaxPackets]]
<1>1. Blank \in [peer : Peers \cup {Nobody}, n : 0..MaxPackets]
  BY SizesAssumption DEF Blank
<1> QED
  BY <1>1 DEF Types, Free, Stacks, Flags

LEMMA FillTypes ==
  ASSUME Types, NEW t \in Threads, NEW p \in Peers, Fill(t, p)
  PROVE  /\ received' \in [Peers -> 0..MaxPackets]
         /\ data' \in [Units -> [peer : Peers \cup {Nobody}, n : 0..MaxPackets]]
<1>1. received[p] + 1 \in 0..MaxPackets
  BY SizesAssumption DEF Types, Fill
<1> QED
  BY <1>1 DEF Types, Fill

LEMMA QueueTypes ==
  ASSUME Types, NEW e \in EventTypes, Len(queue) < QueueSize
  PROVE  Append(queue, e) \in Trains /\ Len(Append(queue, e)) <= QueueSize
BY SizesAssumption DEF Types, Trains

LEMMA HasUnit ==
  ASSUME Types, Roles
  PROVE  /\ \A w \in Workers : pc[w] # "select" => unit[w] \in Units /\ fd[w] \in Conns
         /\ \A r \in Receivers : pc[r] \in {"recv", "post"} => unit[r] \in Units
         /\ Workers \subseteq Threads /\ Receivers \subseteq Threads
         /\ Conns \subseteq Peers /\ Receivers \subseteq Peers
<1>1. Workers \subseteq Threads /\ Receivers \subseteq Threads
  BY DEF Threads
<1>2. \A w \in Workers : pc[w] # "select" => unit[w] \in Units /\ fd[w] \in Conns
  BY <1>1 DEF Types, Roles, Holds
<1>3. \A r \in Receivers : pc[r] \in {"recv", "post"} => unit[r] \in Units
  BY <1>1 DEF Types, Roles, Holds
<1> QED
  BY <1>1, <1>2, <1>3 DEF Peers

LEMMA EventsMade ==
  /\ \A p \in Peers, u \in Units : RecvEvent(p, u) \in EventTypes
  /\ \A c \in Conns : DisconnectEvent(c) \in EventTypes
BY DEF EventTypes

LEMMA TypesStep ==
  ASSUME Types, Roles, [Next]_vars
  PROVE  Types'
<1> USE HasUnit DEF pool, serverSide, others, Goto, At
<1>1. ASSUME NEW w \in Workers, WorkerSelect(w) PROVE Types'
  <2>1. pc' \in [Threads -> WorkerPCs \cup ReceiverPCs]
    BY <1>1 DEF WorkerSelect, Types, WorkerPCs, ReceiverPCs
  <2> QED
    BY <1>1, <2>1 DEF WorkerSelect, Types, Holds
<1>2. ASSUME NEW w \in Workers, WorkerTask(w) PROVE Types'
  <2>1. pc' \in [Threads -> WorkerPCs \cup ReceiverPCs]
    BY <1>2 DEF WorkerTask, Types, WorkerPCs, ReceiverPCs
  <2> QED
    BY <1>2, <2>1 DEF WorkerTask, Types, Holds
<1>3. ASSUME NEW w \in Workers, WorkerAlloc(w) PROVE Types'
  <2>1. pc' \in [Threads -> WorkerPCs \cup ReceiverPCs]
    BY <1>3 DEF WorkerAlloc, Types, WorkerPCs, ReceiverPCs
  <2>2. /\ freeList' \in Stacks /\ state' \in Flags /\ unit' \in Holds
    BY <1>3, AllocTypes DEF WorkerAlloc, Roles
  <2> QED
    BY <1>3, <2>1, <2>2 DEF WorkerAlloc, Types, Holds
<1>4. ASSUME NEW w \in Workers, WorkerRecv(w) PROVE Types'
  <2>1. pc' \in [Threads -> WorkerPCs \cup ReceiverPCs]
    BY <1>4 DEF WorkerRecv, Types, WorkerPCs, ReceiverPCs
  <2>2. /\ received' \in [Peers -> 0..MaxPackets]
        /\ data' \in [Units -> [peer : Peers \cup {Nobody}, n : 0..MaxPackets]]
    BY <1>4, FillTypes DEF WorkerRecv, Roles
  <2> QED
    BY <1>4, <2>1, <2>2 DEF WorkerRecv, Types, Holds
<1>5. ASSUME NEW w \in Workers, WorkerRecvFails(w) PROVE Types'
  <2>1. pc' \in [Threads -> WorkerPCs \cup ReceiverPCs]
    BY <1>5 DEF WorkerRecvFails, Types, WorkerPCs, ReceiverPCs
  <2> QED
    BY <1>5, <2>1 DEF WorkerRecvFails, Types, Holds
<1>6. ASSUME NEW w \in Workers, WorkerReport(w) PROVE Types'
  <2>1. pc' \in [Threads -> WorkerPCs \cup ReceiverPCs]
    BY <1>6 DEF WorkerReport, Types, WorkerPCs, ReceiverPCs
  <2>2. /\ queue' \in Trains /\ Len(queue') <= QueueSize
    BY <1>6, QueueTypes, EventsMade DEF WorkerReport, Roles, Types
  <2> QED
    BY <1>6, <2>1, <2>2 DEF WorkerReport, Types, Holds
<1>7. ASSUME NEW w \in Workers, WorkerClear(w) PROVE Types'
  <2>1. pc' \in [Threads -> WorkerPCs \cup ReceiverPCs]
    BY <1>7 DEF WorkerClear, Types, WorkerPCs, ReceiverPCs
  <2>2. /\ freeList' \in Stacks /\ state' \in Flags
        /\ data' \in [Units -> [peer : Peers \cup {Nobody}, n : 0..MaxPackets]]
    BY <1>7, FreeTypes DEF WorkerClear, Roles
  <2> QED
    BY <1>7, <2>1, <2>2 DEF WorkerClear, Types, Holds
<1>8. ASSUME NEW w \in Workers, WorkerPost(w) PROVE Types'
  <2>1. pc' \in [Threads -> WorkerPCs \cup ReceiverPCs]
    BY <1>8 DEF WorkerPost, Types, WorkerPCs, ReceiverPCs
  <2>2. /\ queue' \in Trains /\ Len(queue') <= QueueSize
    BY <1>8, QueueTypes, EventsMade DEF WorkerPost, Roles, Types
  <2> QED
    BY <1>8, <2>1, <2>2 DEF WorkerPost, Types, Holds
<1>9. ASSUME NEW w \in Workers, WorkerPostFull(w) PROVE Types'
  <2>1. pc' \in [Threads -> WorkerPCs \cup ReceiverPCs]
    BY <1>9 DEF WorkerPostFull, Types, WorkerPCs, ReceiverPCs
  <2> QED
    BY <1>9, <2>1 DEF WorkerPostFull, Types, Holds
<1>10. ASSUME NEW w \in Workers, WorkerGivesBack(w) PROVE Types'
  <2>1. pc' \in [Threads -> WorkerPCs \cup ReceiverPCs]
    BY <1>10 DEF WorkerGivesBack, Types, WorkerPCs, ReceiverPCs
  <2>2. /\ freeList' \in Stacks /\ state' \in Flags
        /\ data' \in [Units -> [peer : Peers \cup {Nobody}, n : 0..MaxPackets]]
    BY <1>10, FreeTypes DEF WorkerGivesBack, Roles
  <2> QED
    BY <1>10, <2>1, <2>2 DEF WorkerGivesBack, Types, Holds
<1>11. ASSUME NEW r \in Receivers, Connect(r) PROVE Types'
  <2>1. pc' \in [Threads -> WorkerPCs \cup ReceiverPCs]
    BY <1>11 DEF Connect, Types, WorkerPCs, ReceiverPCs
  <2> QED
    BY <1>11, <2>1 DEF Connect, Types, Holds
<1>12. ASSUME NEW r \in Receivers, ReceiverAlloc(r) PROVE Types'
  <2>1. pc' \in [Threads -> WorkerPCs \cup ReceiverPCs]
    BY <1>12 DEF ReceiverAlloc, Types, WorkerPCs, ReceiverPCs
  <2>2. /\ freeList' \in Stacks /\ state' \in Flags /\ unit' \in Holds
    BY <1>12, AllocTypes DEF ReceiverAlloc, Roles
  <2> QED
    BY <1>12, <2>1, <2>2 DEF ReceiverAlloc, Types, Holds
<1>13. ASSUME NEW r \in Receivers, ReceiverRecv(r) PROVE Types'
  <2>1. pc' \in [Threads -> WorkerPCs \cup ReceiverPCs]
    BY <1>13 DEF ReceiverRecv, Types, WorkerPCs, ReceiverPCs
  <2>2. /\ received' \in [Peers -> 0..MaxPackets]
        /\ data' \in [Units -> [peer : Peers \cup {Nobody}, n : 0..MaxPackets]]
    BY <1>13, FillTypes DEF ReceiverRecv, Roles
  <2> QED
    BY <1>13, <2>1, <2>2 DEF ReceiverRecv, Types, Holds
<1>14. ASSUME NEW r \in Receivers, ReceiverRecvFails(r) PROVE Types'
  <2>1. pc' \in [Threads -> WorkerPCs \cup ReceiverPCs]
    BY <1>14 DEF ReceiverRecvFails, Types, WorkerPCs, ReceiverPCs
  <2>2. endurance' \in [Receivers -> 0..2]
    <3>1. endurance[r] \in {1, 2} /\ endurance \in [Receivers -> 0..2]
      BY <1>14 DEF ReceiverRecvFails, Roles, Types
    <3> QED
      BY <1>14, <3>1 DEF ReceiverRecvFails
  <2> QED
    BY <1>14, <2>1, <2>2 DEF ReceiverRecvFails, Types, Holds
<1>15. ASSUME NEW r \in Receivers, ReceiverPost(r) PROVE Types'
  <2>1. pc' \in [Threads -> WorkerPCs \cup ReceiverPCs]
    BY <1>15 DEF ReceiverPost, Types, WorkerPCs, ReceiverPCs
  <2>2. /\ queue' \in Trains /\ Len(queue') <= QueueSize
    BY <1>15, QueueTypes, EventsMade DEF ReceiverPost, Roles, Types
  <2> QED
    BY <1>15, <2>1, <2>2 DEF ReceiverPost, Types, Holds
<1>16. CASE HandlerPop
  <2>1. queue \in Seq(EventTypes) /\ queue # <<>>
    BY <1>16 DEF HandlerPop, Types, Trains
  <2>2. /\ queue' \in Trains /\ Len(queue') <= QueueSize /\ event' \in EventTypes
    BY <1>16, <2>1, HeadTailProperties, LenProperties, SizesAssumption DEF HandlerPop, Types, Trains
  <2> QED
    BY <1>16, <2>2 DEF HandlerPop, Types
<1>17. CASE HandlerRecv
  <2>1. event \in EventTypes /\ event.unit \in Units
    BY <1>17, EventUnits DEF HandlerRecv, NoEvent, Types
  <2>2. /\ freeList' \in Stacks /\ state' \in Flags
        /\ data' \in [Units -> [peer : Peers \cup {Nobody}, n : 0..MaxPackets]]
    BY <1>17, <2>1, FreeTypes DEF HandlerRecv
  <2> QED
    BY <1>17, <2>2 DEF HandlerRecv, Types
<1>18. CASE HandlerDisconnect
  BY <1>18 DEF HandlerDisconnect, Types
<1>19. CASE UNCHANGED vars
  BY <1>19 DEF vars, Types
<1> QED
  BY <1>1, <1>2, <1>3, <1>4, <1>5, <1>6, <1>7, <1>8, <1>9, <1>10, <1>11, <1>12, <1>13, <1>14, <1>15, <1>16, <1>17, <1>18, <1>19
     DEF Next, Worker, Receiver, Handler

LEMMA RolesStep ==
  ASSUME Types, Roles, [Next]_vars
  PROVE  Roles'
<1> USE ThreadsAssumption, NobodyAssumption, HasUnit
        DEF Roles, Holds, WorkerPCs, ReceiverPCs, pool, serverSide, others, Goto, At
<1>0. /\ pc \in [Threads -> WorkerPCs \cup ReceiverPCs] /\ unit \in Holds
      /\ fd \in [Workers -> Conns \cup {Nobody}] /\ endurance \in [Receivers -> 0..2]
      /\ ready \in [Workers -> SUBSET Conns]
  BY DEF Types
<1>1. ASSUME NEW w \in Workers, WorkerSelect(w) PROVE Roles'
  BY <1>1, <1>0 DEF WorkerSelect
<1>2. ASSUME NEW w \in Workers, WorkerTask(w) PROVE Roles'
  BY <1>2, <1>0 DEF WorkerTask
<1>3. ASSUME NEW w \in Workers, WorkerAlloc(w) PROVE Roles'
  <2>1. Top # NoUnit /\ unit' = [unit EXCEPT ![w] = Top]
    BY <1>3, AllocTypes DEF WorkerAlloc, Alloc
  <2> QED
    BY <1>3, <1>0, <2>1 DEF WorkerAlloc
<1>4. ASSUME NEW w \in Workers, WorkerRecv(w) PROVE Roles'
  BY <1>4, <1>0 DEF WorkerRecv
<1>5. ASSUME NEW w \in Workers, WorkerRecvFails(w) PROVE Roles'
  BY <1>5, <1>0 DEF WorkerRecvFails
<1>6. ASSUME NEW w \in Workers, WorkerReport(w) PROVE Roles'
  BY <1>6, <1>0 DEF WorkerReport
<1>7. ASSUME NEW w \in Workers, WorkerClear(w) PROVE Roles'
  BY <1>7, <1>0 DEF WorkerClear
<1>8. ASSUME NEW w \in Workers, WorkerPost(w) PROVE Roles'
  BY <1>8, <1>0 DEF WorkerPost
<1>9. ASSUME NEW w \in Workers, WorkerPostFull(w) PROVE Roles'
  BY <1>9, <1>0 DEF WorkerPostFull
<1>10. ASSUME NEW w \in Workers, WorkerGivesBack(w) PROVE Roles'
  BY <1>10, <1>0 DEF WorkerGivesBack
<1>11. ASSUME NEW r \in Receivers, Connect(r) PROVE Roles'
  BY <1>11, <1>0 DEF Connect
<1>12. ASSUME NEW r \in Receivers, ReceiverAlloc(r) PROVE Roles'
  <2>1. Top # NoUnit /\ unit' = [unit EXCEPT ![r] = Top]
    BY <1>12, AllocTypes DEF ReceiverAlloc, Alloc
  <2> QED
    BY <1>12, <1>0, <2>1 DEF ReceiverAlloc
<1>13. ASSUME NEW r \in Receivers, ReceiverRecv(r) PROVE Roles'
  BY <1>13, <1>0 DEF ReceiverRecv
<1>14. ASSUME NEW r \in Receivers, ReceiverRecvFails(r) PROVE Roles'
  BY <1>14, <1>0 DEF ReceiverRecvFails
<1>15. ASSUME NEW r \in Receivers, ReceiverPost(r) PROVE Roles'
  BY <1>15, <1>0 DEF ReceiverPost
<1>16. CASE Handler
  BY <1>16, <1>0 DEF Handler, HandlerPop, HandlerRecv, HandlerDisconnect
<1>17. CASE UNCHANGED vars
  BY <1>17, <1>0 DEF vars
<1> QED
  BY <1>1, <1>2, <1>3, <1>4, <1>5, <1>6, <1>7, <1>8, <1>9, <1>10, <1>11, <1>12, <1>13, <1>14, <1>15, <1>16, <1>17 DEF Next, Worker, Receiver

(* Which way a unit moves in each step. *)
LEMMA OwnedStep ==
  ASSUME IInv, [Next]_vars
  PROVE  Owned(freeList, state, unit, Waiting)'
<1> USE HasUnit DEF pool, serverSide, others, At
<1>0. /\ Types /\ Roles /\ Owned(freeList, state, unit, Waiting)
      /\ freeList \in Stacks /\ state \in Flags /\ unit \in Holds /\ Waiting \in Trains
  BY WaitingSeq DEF IInv, Types
<1>1. ASSUME NEW t \in Threads, Alloc(t), unit[t] = NoUnit, UNCHANGED <<event, queue>>
      PROVE  Owned(freeList, state, unit, Waiting)'
  BY <1>0, <1>1, WaitingKept, TakeTop DEF Alloc, Top
<1>2. ASSUME NEW w \in Workers, pc[w] # "select", Free(unit[w]),
             unit' = [unit EXCEPT ![w] = NoUnit], UNCHANGED <<event, queue>>
      PROVE  Owned(freeList, state, unit, Waiting)'
  <2> DEFINE um == [unit EXCEPT ![w] = NoUnit]
  <2>1. w \in Threads /\ unit[w] \in Units /\ unit[w] # NoUnit /\ um \in Holds
    BY <1>0, <1>2, UnitsAreUnits DEF Holds
  <2>2. /\ Owned(freeList, state, um, Waiting)
        /\ \A i \in 1..Len(freeList) : freeList[i] # unit[w]
        /\ \A s \in Threads : um[s] # unit[w]
        /\ \A j \in 1..Len(Waiting) : Waiting[j].unit # unit[w]
    BY <1>0, <2>1, LetGo
  <2> HIDE DEF um
  <2>3. Owned(Append(freeList, unit[w]), [state EXCEPT ![unit[w]] = 0], um, Waiting)
    BY <1>0, <2>1, <2>2, PutOnTop
  <2> QED
    BY <1>2, <2>3, WaitingKept DEF Free, um
<1>3. ASSUME NEW t \in Threads, unit[t] # NoUnit, unit' = [unit EXCEPT ![t] = NoUnit],
             UNCHANGED <<freeList, state, event, queue>>
      PROVE  Owned(freeList, state, unit, Waiting)'
  BY <1>0, <1>3, WaitingKept, LetGo
<1>4. ASSUME NEW t \in Threads, unit[t] # NoUnit, unit' = [unit EXCEPT ![t] = NoUnit],
             NEW p \in Peers, queue' = Append(queue, RecvEvent(p, unit[t])),
             UNCHANGED <<freeList, state, event>>
      PROVE  Owned(freeList, state, unit, Waiting)'
  <2> DEFINE um == [unit EXCEPT ![t] = NoUnit]
             e == RecvEvent(p, unit[t])
  <2>1. unit[t] \in Units /\ um \in Holds /\ e \in EventTypes /\ e.unit = unit[t]
    BY <1>0, <1>4, EventsMade DEF Holds, RecvEvent
  <2>2. /\ Owned(freeList, state, um, Waiting)
        /\ \A i \in 1..Len(freeList) : freeList[i] # unit[t]
        /\ \A s \in Threads : um[s] # unit[t]
        /\ \A j \in 1..Len(Waiting) : Waiting[j].unit # unit[t]
    BY <1>0, <1>4, LetGo
  <2> HIDE DEF um, e
  <2>3. Owned(freeList, state, um, Append(Waiting, e))
    BY <1>0, <2>1, <2>2, JoinQueue
  <2>4. Waiting' = Append(Waiting, e)
    BY <1>0, <1>4, <2>1, WaitingJoined DEF e
  <2> QED
    BY <1>4, <2>3, <2>4 DEF um
<1>5. ASSUME UNCHANGED <<freeList, state, unit>>, Waiting' = Waiting
      PROVE  Owned(freeList, state, unit, Waiting)'
  BY <1>0, <1>5
<1>6. ASSUME NEW w \in Workers, WorkerReport(w) PROVE Owned(freeList, state, unit, Waiting)'
  <2> DEFINE e == DisconnectEvent(fd[w])
  <2>1. e \in EventTypes /\ e.unit = NoUnit
    BY <1>0, <1>6, EventsMade DEF WorkerReport, DisconnectEvent
  <2>2. CASE queue' = queue
    BY <1>6, <2>2, <1>5, WaitingKept DEF WorkerReport
  <2>3. CASE queue' = Append(queue, e)
    <3> HIDE DEF e
    <3>1. Waiting' = Append(Waiting, e)
      BY <1>0, <1>6, <2>1, <2>3, WaitingJoined DEF WorkerReport
    <3>2. Owned(freeList, state, unit, Append(Waiting, e))
      BY <1>0, <2>1, JoinQueue
    <3> QED
      BY <1>6, <3>1, <3>2 DEF WorkerReport
  <2> QED
    BY <1>6, <2>2, <2>3 DEF WorkerReport
<1>7. ASSUME NEW w \in Workers, Worker(w), ~WorkerReport(w)
      PROVE  Owned(freeList, state, unit, Waiting)'
  <2>1. CASE WorkerAlloc(w)
    BY <2>1, <1>0, <1>1 DEF WorkerAlloc, Roles
  <2>2. CASE WorkerClear(w) \/ WorkerGivesBack(w)
    BY <2>2, <1>2 DEF WorkerClear, WorkerGivesBack
  <2>3. CASE WorkerPost(w)
    BY <2>3, <1>0, <1>4, UnitsAreUnits DEF WorkerPost
  <2>4. CASE \/ WorkerSelect(w) \/ WorkerTask(w) \/ WorkerRecv(w)
             \/ WorkerRecvFails(w) \/ WorkerPostFull(w)
    BY <2>4, <1>5, WaitingKept
       DEF WorkerSelect, WorkerTask, WorkerRecv, WorkerRecvFails, WorkerPostFull
  <2> QED
    BY <1>7, <2>1, <2>2, <2>3, <2>4 DEF Worker
<1>8. ASSUME NEW r \in Receivers, Receiver(r)
      PROVE  Owned(freeList, state, unit, Waiting)'
  <2>1. CASE ReceiverAlloc(r)
    BY <2>1, <1>0, <1>1 DEF ReceiverAlloc, Roles
  <2>2. CASE ReceiverRecvFails(r)
    BY <2>2, <1>0, <1>3, UnitsAreUnits DEF ReceiverRecvFails
  <2>3. CASE ReceiverPost(r)
    BY <2>3, <1>0, <1>3, <1>4, UnitsAreUnits DEF ReceiverPost
  <2>4. CASE Connect(r) \/ ReceiverRecv(r)
    BY <2>4, <1>5, WaitingKept DEF Connect, ReceiverRecv
  <2> QED
    BY <1>8, <2>1, <2>2, <2>3, <2>4 DEF Receiver
<1>9. CASE HandlerPop
  BY <1>9, <1>0, <1>5, WaitingPopped DEF HandlerPop
<1>10. CASE HandlerRecv \/ HandlerDisconnect
  <2>1. event # NoEvent /\ event' = NoEvent /\ queue' = queue /\ unit' = unit
    BY <1>10 DEF HandlerRecv, HandlerDisconnect, NoEvent
  <2>2. /\ event \in EventTypes /\ Waiting # <<>> /\ Waiting[1] = event
        /\ Waiting' = Tail(Waiting) /\ Tail(Waiting) \in Trains
    BY <1>0, <2>1, WaitingLeft, HeadTailProperties DEF Trains
  <2>3. /\ Owned(freeList, state, unit, Tail(Waiting))
        /\ event.unit # NoUnit =>
             /\ \A i \in 1..Len(freeList) : freeList[i] # event.unit
             /\ \A t \in Threads : unit[t] # event.unit
             /\ \A j \in 1..Len(Tail(Waiting)) : Tail(Waiting)[j].unit # event.unit
    BY <1>0, <2>2, LeaveQueue
  <2>4. CASE HandlerDisconnect
    BY <2>1, <2>2, <2>3, <2>4 DEF HandlerDisconnect
  <2>5. CASE HandlerRecv
    <3>1. event.unit \in Units /\ event.unit # NoUnit
      BY <2>2, <2>5, EventUnits DEF HandlerRecv
    <3>2. Owned(Append(freeList, event.unit), [state EXCEPT ![event.unit] = 0],
                unit, Tail(Waiting))
      BY <1>0, <2>2, <2>3, <3>1, PutOnTop
    <3> QED
      BY <2>1, <2>2, <2>5, <3>2 DEF HandlerRecv, Free
  <2> QED
    BY <1>10, <2>4, <2>5
<1>11. CASE UNCHANGED vars
  BY <1>11, <1>5, WaitingKept DEF vars
<1> QED
  BY <1>6, <1>7, <1>8, <1>9, <1>10, <1>11 DEF Next, Handler

THEOREM NextIInv == IInv /\ [Next]_vars => IInv'
BY TypesStep, RolesStep, OwnedStep DEF IInv

(* The invariant of the packet flow: types, who has a unit when, and that no
   unit is in two places (enet_packet.c, server_worker_thread,
   tcp_client_recv_thread, enet_event_handler). *)
THEOREM InvariantHolds == Spec => []IInv
BY InitIInv, NextIInv, PTL DEF Spec

(* The iterator of the free list stays inside the array for a pool of any size
   and any number of threads: the debug assertion of enet_free_packet_unit on
   the iterator (enet_packet.c:139) holds. *)
THEOREM TypeCorrect == Spec => []TypeOK
BY InvariantHolds, IInvTypeOK, PTL

(* A packet unit has one owner at a time, for any number of threads,
   connections and units. *)
THEOREM UnitsHaveOneOwner == Spec => []OneOwner
<1>1. IInv => OneOwner
  BY OwnedIsOneOwner DEF IInv
<1> QED
  BY <1>1, InvariantHolds, PTL

----------------------------------------------------------------------------
(* Units that are in none of the three places. *)

Somewhere(u) == \/ state[u] = 0
                \/ \E t \in Threads : unit[t] = u
                \/ \E j \in 1..Len(Waiting) : Waiting[j].unit = u

LEMMA LostIsNowhere == IInv => \A u \in Units : u \in LostUnits <=> ~Somewhere(u)
<1> SUFFICES ASSUME IInv, NEW u \in Units PROVE u \in LostUnits <=> ~Somewhere(u)
  OBVIOUS
<1>1. u \in FreeUnits <=> state[u] = 0
  BY OwnedIsOneOwner DEF IInv, OneOwner
<1>2. u \in HeldUnits <=> \E t \in Threads : unit[t] = u
  BY UnitsAreUnits DEF HeldUnits
<1>3. DOMAIN Waiting = 1..Len(Waiting)
  BY WaitingSeq, LenProperties DEF IInv, Trains
<1>4. u \in SentUnits <=> \E j \in 1..Len(Waiting) : Waiting[j].unit = u
  BY <1>3, UnitsAreUnits DEF SentUnits
<1> QED
  BY <1>1, <1>2, <1>4 DEF LostUnits, Somewhere

LEMMA LostIsNowhereNext ==
  IInv' => (\A u \in Units : u \in LostUnits <=> ~Somewhere(u))'
BY LostIsNowhere, PTL

(* The last place of a sequence of events, and all but the first. *)
LEMMA JoinedUnits ==
  ASSUME NEW W \in Trains, NEW e \in EventTypes, NEW u
  PROVE  (\E j \in 1..Len(Append(W, e)) : Append(W, e)[j].unit = u)
           <=> (e.unit = u \/ \E j \in 1..Len(W) : W[j].unit = u)
<1>1. Len(W) \in Nat
  BY DEF Trains
<1>2. /\ Len(Append(W, e)) = Len(W) + 1 /\ Append(W, e)[Len(W) + 1] = e
      /\ \A j \in 1..Len(W) : Append(W, e)[j] = W[j]
  BY <1>1 DEF Trains
<1>3. /\ Len(W) + 1 \in 1..(Len(W) + 1)
      /\ \A j \in 1..Len(W) : j \in 1..(Len(W) + 1)
      /\ \A j \in 1..(Len(W) + 1) : j = Len(W) + 1 \/ j \in 1..Len(W)
  BY <1>1
<1> QED
  BY <1>2, <1>3

LEMMA LeftUnits ==
  ASSUME NEW W \in Trains, W # <<>>, NEW u
  PROVE  (\E j \in 1..Len(W) : W[j].unit = u)
           <=> (W[1].unit = u \/ \E j \in 1..Len(Tail(W)) : Tail(W)[j].unit = u)
<1>1. /\ Len(W) \in Nat \ {0} /\ Len(Tail(W)) = Len(W) - 1
      /\ \A j \in 1..Len(Tail(W)) : Tail(W)[j] = W[j + 1]
  BY EmptySeq, HeadTailProperties DEF Trains
<1>2. /\ 1 \in 1..Len(W)
      /\ \A j \in 1..Len(Tail(W)) : j + 1 \in 1..Len(W)
      /\ \A j \in 1..Len(W) : j = 1 \/ (j - 1 \in 1..Len(Tail(W)) /\ (j - 1) + 1 = j)
  BY <1>1
<1>3. ASSUME NEW j \in 1..Len(W), W[j].unit = u, j # 1
      PROVE  \E k \in 1..Len(Tail(W)) : Tail(W)[k].unit = u
  <2>1. j - 1 \in 1..Len(Tail(W)) /\ Tail(W)[j - 1] = W[j]
    BY <1>1, <1>2, <1>3
  <2> QED
    BY <1>3, <2>1
<1>4. ASSUME NEW j \in 1..Len(Tail(W)), Tail(W)[j].unit = u
      PROVE  \E k \in 1..Len(W) : W[k].unit = u
  BY <1>1, <1>2, <1>4
<1> QED
  BY <1>2, <1>3, <1>4

(* No step takes a unit out of all three places but a receiver's, and none
   puts one back. *)
LEMMA PlacesStep ==
  ASSUME IInv, [Next]_vars, NEW u \in Units
  PROVE  /\ Somewhere(u)' => Somewhere(u)
         /\ Somewhere(u) => Somewhere(u)' \/ \E r \in Receivers : unit[r] = u
<1> USE HasUnit DEF pool, serverSide, others, At
<1>0. /\ Types /\ Roles /\ u # NoUnit /\ Owned(freeList, state, unit, Waiting)
      /\ state \in Flags /\ unit \in Holds /\ Waiting \in Trains
  BY WaitingSeq, UnitsAreUnits DEF IInv, Types
<1>1. ASSUME NEW t \in Threads, Alloc(t), unit[t] = NoUnit, UNCHANGED <<event, queue>>
      PROVE  Somewhere(u)' <=> Somewhere(u)
  <2>1. state[Top] = 0 /\ Top \in Units
    <3>1. Len(freeList) \in Nat \ {0}
      BY <1>0, <1>1, EmptySeq DEF Alloc, Types, Stacks
    <3> QED
      BY <1>0, <1>1, <3>1, AllocTypes DEF Owned, Top
  <2>2. /\ state' = [state EXCEPT ![Top] = 1] /\ unit' = [unit EXCEPT ![t] = Top]
        /\ Waiting' = Waiting
    BY <1>1, WaitingKept DEF Alloc
  <2>3. /\ \A v \in Units : state'[v] = IF v = Top THEN 1 ELSE state[v]
        /\ \A s \in Threads : unit'[s] = IF s = t THEN Top ELSE unit[s]
    BY <1>0, <2>1, <2>2 DEF Flags, Holds
  <2> QED
    BY <1>0, <1>1, <2>1, <2>2, <2>3 DEF Somewhere
<1>2. ASSUME NEW w \in Workers, pc[w] # "select", Free(unit[w]),
             unit' = [unit EXCEPT ![w] = NoUnit], UNCHANGED <<event, queue>>
      PROVE  Somewhere(u)' <=> Somewhere(u)
  <2>1. unit[w] \in Units /\ Waiting' = Waiting
    BY <1>0, <1>2, WaitingKept
  <2>2. /\ \A v \in Units : state'[v] = IF v = unit[w] THEN 0 ELSE state[v]
        /\ \A s \in Threads : unit'[s] = IF s = w THEN NoUnit ELSE unit[s]
    BY <1>0, <1>2, <2>1 DEF Flags, Holds, Free
  <2> QED
    BY <1>0, <1>2, <2>1, <2>2 DEF Somewhere
<1>3. ASSUME NEW r \in Receivers, unit' = [unit EXCEPT ![r] = NoUnit],
             UNCHANGED <<freeList, state, event, queue>>
      PROVE  /\ Somewhere(u)' => Somewhere(u)
             /\ Somewhere(u) => Somewhere(u)' \/ unit[r] = u
  <2>1. Waiting' = Waiting /\ \A s \in Threads : unit'[s] = IF s = r THEN NoUnit ELSE unit[s]
    BY <1>0, <1>3, WaitingKept DEF Holds
  <2> QED
    BY <1>0, <1>3, <2>1 DEF Somewhere
<1>4. ASSUME NEW t \in Threads, unit[t] \in Units, unit' = [unit EXCEPT ![t] = NoUnit],
             NEW p \in Peers, queue' = Append(queue, RecvEvent(p, unit[t])),
             UNCHANGED <<freeList, state, event>>
      PROVE  Somewhere(u)' <=> Somewhere(u)
  <2> DEFINE e == RecvEvent(p, unit[t])
  <2>1. e \in EventTypes /\ e.unit = unit[t]
    BY <1>4, EventsMade DEF RecvEvent
  <2>2. Waiting' = Append(Waiting, e)
    BY <1>0, <1>4, <2>1, WaitingJoined
  <2> HIDE DEF e
  <2>3. (\E j \in 1..Len(Waiting') : Waiting'[j].unit = u)
           <=> (unit[t] = u \/ \E j \in 1..Len(Waiting) : Waiting[j].unit = u)
    BY <1>0, <2>1, <2>2, JoinedUnits
  <2>4. \A s \in Threads : unit'[s] = IF s = t THEN NoUnit ELSE unit[s]
    BY <1>0, <1>4 DEF Holds
  <2> QED
    BY <1>0, <1>4, <2>3, <2>4 DEF Somewhere
<1>5. ASSUME UNCHANGED <<state, unit>>, Waiting' = Waiting
      PROVE  Somewhere(u)' <=> Somewhere(u)
  BY <1>5 DEF Somewhere
<1>6. ASSUME NEW w \in Workers, WorkerReport(w) PROVE Somewhere(u)' <=> Somewhere(u)
  <2> DEFINE e == DisconnectEvent(fd[w])
  <2>1. e \in EventTypes /\ e.unit = NoUnit
    BY <1>0, <1>6, EventsMade DEF WorkerReport, DisconnectEvent
  <2>2. CASE queue' = queue
    BY <1>6, <2>2, <1>5, WaitingKept DEF WorkerReport
  <2>3. CASE queue' = Append(queue, e)
    <3> HIDE DEF e
    <3>1. Waiting' = Append(Waiting, e)
      BY <1>0, <1>6, <2>1, <2>3, WaitingJoined DEF WorkerReport
    <3>2. (\E j \in 1..Len(Waiting') : Waiting'[j].unit = u)
             <=> (\E j \in 1..Len(Waiting) : Waiting[j].unit = u)
      BY <1>0, <2>1, <3>1, JoinedUnits
    <3> QED
      BY <1>6, <3>2 DEF WorkerReport, Somewhere
  <2> QED
    BY <1>6, <2>2, <2>3 DEF WorkerReport
<1>7. ASSUME NEW w \in Workers, Worker(w), ~WorkerReport(w)
      PROVE  Somewhere(u)' <=> Somewhere(u)
  <2>1. CASE WorkerAlloc(w)
    BY <2>1, <1>0, <1>1 DEF WorkerAlloc, Roles
  <2>2. CASE WorkerClear(w) \/ WorkerGivesBack(w)
    BY <2>2, <1>2 DEF WorkerClear, WorkerGivesBack
  <2>3. CASE WorkerPost(w)
    BY <2>3, <1>0, <1>4 DEF WorkerPost
  <2>4. CASE \/ WorkerSelect(w) \/ WorkerTask(w) \/ WorkerRecv(w)
             \/ WorkerRecvFails(w) \/ WorkerPostFull(w)
    BY <2>4, <1>5, WaitingKept
       DEF WorkerSelect, WorkerTask, WorkerRecv, WorkerRecvFails, WorkerPostFull
  <2> QED
    BY <1>7, <2>1, <2>2, <2>3, <2>4 DEF Worker
<1>8. ASSUME NEW r \in Receivers, Receiver(r)
      PROVE  /\ Somewhere(u)' => Somewhere(u)
             /\ Somewhere(u) => Somewhere(u)' \/ unit[r] = u
  <2>1. CASE ReceiverAlloc(r)
    BY <2>1, <1>0, <1>1 DEF ReceiverAlloc, Roles
  <2>2. CASE ReceiverRecvFails(r)
    BY <2>2, <1>3 DEF ReceiverRecvFails
  <2>3. CASE ReceiverPost(r)
    BY <2>3, <1>0, <1>3, <1>4 DEF ReceiverPost
  <2>4. CASE Connect(r) \/ ReceiverRecv(r)
    BY <2>4, <1>5, WaitingKept DEF Connect, ReceiverRecv
  <2> QED
    BY <1>8, <2>1, <2>2, <2>3, <2>4 DEF Receiver
<1>9. CASE HandlerPop
  BY <1>9, <1>0, <1>5, WaitingPopped DEF HandlerPop
<1>10. ASSUME HandlerRecv \/ HandlerDisconnect PROVE Somewhere(u)' <=> Somewhere(u)
  <2>1. event # NoEvent /\ event' = NoEvent /\ queue' = queue /\ unit' = unit
    BY <1>10 DEF HandlerRecv, HandlerDisconnect, NoEvent
  <2>2. /\ event \in EventTypes /\ Waiting # <<>> /\ Waiting[1] = event
        /\ Waiting' = Tail(Waiting)
    BY <1>0, <2>1, WaitingLeft
  <2>3. (\E j \in 1..Len(Waiting) : Waiting[j].unit = u)
           <=> (event.unit = u \/ \E j \in 1..Len(Waiting') : Waiting'[j].unit = u)
    <3>1. Waiting \in Trains
      BY <1>0
    <3>2. (\E j \in 1..Len(Waiting) : Waiting[j].unit = u)
             <=> (Waiting[1].unit = u
                    \/ \E j \in 1..Len(Tail(Waiting)) : Tail(Waiting)[j].unit = u)
      BY <2>2, <3>1, LeftUnits
    <3> QED
      BY <2>2, <3>2
  <2>4. CASE HandlerDisconnect
    <3>1. event.unit = NoUnit
      BY <2>2, <2>4, EventUnits DEF HandlerDisconnect
    <3> QED
      BY <1>0, <2>1, <2>3, <2>4, <3>1 DEF HandlerDisconnect, Somewhere
  <2>5. CASE HandlerRecv
    <3>1. event.unit \in Units
      BY <2>2, <2>5, EventUnits DEF HandlerRecv
    <3>2. \A v \in Units : state'[v] = IF v = event.unit THEN 0 ELSE state[v]
      BY <1>0, <2>5, <3>1 DEF HandlerRecv, Free, Flags
    <3> QED
      BY <2>1, <2>3, <3>1, <3>2 DEF Somewhere
  <2> QED
    BY <1>10, <2>4, <2>5
<1>11. CASE UNCHANGED vars
  BY <1>11, <1>5, WaitingKept DEF vars
<1> QED
  BY <1>6, <1>7, <1>8, <1>9, <1>10, <1>11 DEF Next, Handler

(* Workers and the handler lose no unit, and a lost unit stays lost, for any
   number of threads, connections and units (tcp_client.c:132, 138). *)
THEOREM LossOnlyByReceivers == Spec => OnlyReceiversLoseUnits
<1>1. ASSUME IInv, IInv', [Next]_vars
      PROVE  /\ LostUnits \subseteq LostUnits'
             /\ LostUnits' \ LostUnits \subseteq {unit[r] : r \in Receivers}
  <2>1. \A u \in Units : (u \in LostUnits <=> ~Somewhere(u))
                        /\ (u \in LostUnits' <=> ~Somewhere(u)')
    BY <1>1, LostIsNowhere, LostIsNowhereNext
  <2>2. LostUnits \subseteq Units /\ LostUnits' \subseteq Units
    BY DEF LostUnits
  <2>3. ASSUME NEW u \in LostUnits PROVE u \in LostUnits'
    <3>1. u \in Units /\ ~Somewhere(u)
      BY <2>1, <2>2
    <3>2. ~Somewhere(u)'
      BY <1>1, <3>1, PlacesStep
    <3> QED
      BY <2>1, <3>1, <3>2 DEF Somewhere
  <2>4. ASSUME NEW u \in LostUnits', u \notin LostUnits
        PROVE  \E r \in Receivers : unit[r] = u
    <3>1. u \in Units /\ Somewhere(u)
      BY <2>1, <2>2, <2>4
    <3>2. ~Somewhere(u)'
      BY <2>1, <2>4, <3>1 DEF Somewhere
    <3> QED
      BY <1>1, <3>1, <3>2, PlacesStep
  <2> QED
    BY <2>3, <2>4
<1> QED
  BY <1>1, InvariantHolds, PTL DEF Spec, OnlyReceiversLoseUnits

----------------------------------------------------------------------------
(* The order of the packets. *)

(* A connection is with one worker, and the one it works on is not among those
   it has still to look at. *)
OneWorker ==
  \A w \in Workers, c \in Conns :
    /\ (c \in jobs[w] => c \notin tasks)
    /\ (c \in ready[w] => c \in jobs[w])
    /\ (fd[w] = c => c \in jobs[w] /\ c \notin ready[w])
    /\ \A v \in Workers : c \in jobs[w] /\ c \in jobs[v] => v = w

(* W[i] is a packet of its peer, received before packet n of p. *)
SentBefore(d, W, p, n) ==
  \A i \in 1..Len(W) : W[i].id = "recv" /\ W[i].peer = p => d[W[i].unit].n < n

(* Unit u holds the newest packet of p, which is not in the queue yet; d is
   what the units hold and rc the number of packets received. *)
Newest(d, rc, W, u, p) ==
  /\ d[u] = [peer |-> p, n |-> rc[p]]
  /\ SentBefore(d, W, p, rc[p])

PeerOf(t) == IF t \in Workers THEN fd[t] ELSE t

Posting == {"post", "refused"}

NewestIsPosted ==
  \A t \in Threads : pc[t] \in Posting =>
                       Newest(data, received, Waiting, unit[t], PeerOf(t))

(* A reported connection is with no worker but the one that reported it. *)
ReportedIsGone ==
  \A i \in 1..Len(Waiting) : Waiting[i].id = "disconnect" =>
    /\ Waiting[i].peer \notin tasks
    /\ \A w \in Workers : Waiting[i].peer \in jobs[w] =>
                            pc[w] = "clear" /\ fd[w] = Waiting[i].peer

(* The events hold packets of their peers, in order. *)
InOrder(d, rc, W) ==
  /\ \A i \in 1..Len(W) : W[i].id = "recv" =>
       d[W[i].unit].peer = W[i].peer /\ d[W[i].unit].n <= rc[W[i].peer]
  /\ \A i, j \in 1..Len(W) : i < j /\ W[i].peer = W[j].peer =>
       /\ W[i].id = "recv"
       /\ (W[j].id = "recv" => d[W[i].unit].n < d[W[j].unit].n)

OrderInv == OneWorker /\ NewestIsPosted /\ ReportedIsGone /\ InOrder(data, received, Waiting)

LEMMA JoinedEvents ==
  ASSUME NEW W \in Trains, NEW e \in EventTypes
  PROVE  /\ Len(W) \in Nat /\ Len(Append(W, e)) = Len(W) + 1
         /\ \A i \in 1..Len(Append(W, e)) :
              \/ i = Len(W) + 1 /\ Append(W, e)[i] = e
              \/ i \in 1..Len(W) /\ Append(W, e)[i] = W[i]
<1>1. Len(W) \in Nat
  BY DEF Trains
<1>2. /\ Len(Append(W, e)) = Len(W) + 1 /\ Append(W, e)[Len(W) + 1] = e
      /\ \A i \in 1..Len(W) : Append(W, e)[i] = W[i]
  BY <1>1 DEF Trains
<1>3. \A i \in 1..(Len(W) + 1) : i = Len(W) + 1 \/ i \in 1..Len(W)
  BY <1>1
<1> QED
  BY <1>1, <1>2, <1>3

LEMMA LeftEvents ==
  ASSUME NEW W \in Trains, W # <<>>
  PROVE  /\ Len(W) \in Nat \ {0} /\ Len(Tail(W)) = Len(W) - 1
         /\ \A i \in 1..Len(Tail(W)) : i + 1 \in 1..Len(W) /\ Tail(W)[i] = W[i + 1]
<1>1. /\ Len(W) \in Nat \ {0} /\ Len(Tail(W)) = Len(W) - 1
      /\ \A i \in 1..Len(Tail(W)) : Tail(W)[i] = W[i + 1]
  BY EmptySeq, HeadTailProperties DEF Trains
<1>2. \A i \in 1..Len(Tail(W)) : i + 1 \in 1..Len(W)
  BY <1>1
<1> QED
  BY <1>1, <1>2

LEMMA OneWorkerStep ==
  ASSUME IInv, OneWorker, [Next]_vars
  PROVE  OneWorker'
<1> USE DEF OneWorker, pool, serverSide, others, At
<1>0. /\ jobs \in [Workers -> SUBSET Conns] /\ ready \in [Workers -> SUBSET Conns]
      /\ fd \in [Workers -> Conns \cup {Nobody}] /\ Roles
  BY DEF IInv, Types
<1>1. ASSUME NEW w \in Workers, Worker(w) PROVE OneWorker'
  <2>1. CASE WorkerSelect(w)
    <3>1. PICK S \in SUBSET jobs[w] : ready' = [ready EXCEPT ![w] = S]
      BY <2>1 DEF WorkerSelect
    <3>2. /\ jobs' = jobs /\ tasks' = tasks /\ fd' = fd /\ fd[w] \notin Conns
          /\ \A v \in Workers, c \in Conns :
               c \in ready'[v] => IF v = w THEN c \in jobs[w] ELSE c \in ready[v]
      BY <2>1, <3>1, <1>0, NobodyAssumption DEF WorkerSelect, Roles
    <3>3. \A v \in Workers : v # w => ready'[v] = ready[v]
      BY <3>1, <1>0
    <3> QED
      BY <3>2, <3>3
  <2>2. CASE WorkerTask(w)
    <3>1. PICK d \in tasks : /\ jobs' = [jobs EXCEPT ![w] = @ \cup {d}]
                            /\ tasks' = tasks \ {d}
      BY <2>2 DEF WorkerTask
    <3>2. ready' = ready /\ fd' = fd
      BY <2>2 DEF WorkerTask
    <3>3. /\ \A v \in Workers, c \in Conns :
               (c \in jobs'[v] <=> (c \in jobs[v] \/ (v = w /\ c = d)))
          /\ \A c \in Conns : (c \in tasks' <=> (c \in tasks /\ c # d))
      BY <1>0, <3>1
    <3> QED
      BY <3>1, <3>2, <3>3
  <2>3. CASE WorkerAlloc(w)
    <3>1. PICK d \in ready[w] : /\ fd' = [fd EXCEPT ![w] = d]
                               /\ ready' = [ready EXCEPT ![w] = @ \ {d}]
      BY <2>3 DEF WorkerAlloc
    <3>2. jobs' = jobs /\ tasks' = tasks
      BY <2>3 DEF WorkerAlloc
    <3>3. \A v \in Workers, c \in Conns :
            /\ fd'[v] = IF v = w THEN d ELSE fd[v]
            /\ (c \in ready'[v] <=> (c \in ready[v] /\ ~(v = w /\ c = d)))
      BY <1>0, <3>1
    <3> QED
      BY <3>1, <3>2, <3>3
  <2>4. CASE WorkerClear(w)
    <3>1. /\ \A v \in Workers, c \in Conns :
               /\ fd'[v] = IF v = w THEN Nobody ELSE fd[v]
               /\ (c \in jobs'[v] <=> (c \in jobs[v] /\ ~(v = w /\ c = fd[w])))
          /\ ready' = ready /\ tasks' = tasks
      BY <2>4, <1>0 DEF WorkerClear
    <3>2. Nobody \notin Conns
      BY NobodyAssumption
    <3> QED
      BY <3>1, <3>2
  <2>5. CASE WorkerPost(w) \/ WorkerGivesBack(w)
    <3>1. /\ \A v \in Workers : fd'[v] = IF v = w THEN Nobody ELSE fd[v]
          /\ ready' = ready /\ tasks' = tasks /\ jobs' = jobs
      BY <2>5, <1>0 DEF WorkerPost, WorkerGivesBack
    <3>2. Nobody \notin Conns
      BY NobodyAssumption
    <3> QED
      BY <3>1, <3>2
  <2>6. CASE \/ WorkerRecv(w) \/ WorkerRecvFails(w)
             \/ WorkerReport(w) \/ WorkerPostFull(w)
    BY <2>6 DEF WorkerRecv, WorkerRecvFails, WorkerReport, WorkerPostFull
  <2> QED
    BY <1>1, <2>1, <2>2, <2>3, <2>4, <2>5, <2>6 DEF Worker
<1>2. CASE \/ \E r \in Receivers : Receiver(r)
           \/ Handler \/ UNCHANGED vars
  BY <1>2 DEF Receiver, Connect, ReceiverAlloc, ReceiverRecv, ReceiverRecvFails, ReceiverPost,
              Handler, HandlerPop, HandlerRecv, HandlerDisconnect, vars
<1> QED
  BY <1>1, <1>2 DEF Next

LEMMA ReportedStep ==
  ASSUME IInv, OneWorker, ReportedIsGone, [Next]_vars
  PROVE  ReportedIsGone'
<1> USE DEF pool, serverSide, others, At, Goto
<1>0. /\ jobs \in [Workers -> SUBSET Conns] /\ pc \in [Threads -> WorkerPCs \cup ReceiverPCs]
      /\ fd \in [Workers -> Conns \cup {Nobody}] /\ Types /\ Roles /\ Waiting \in Trains
      /\ Workers \subseteq Threads /\ Workers \cap Receivers = {}
  BY ThreadsAssumption, WaitingSeq DEF IInv, Types, Threads
<1>1. ASSUME tasks' \subseteq tasks,
             \A i \in 1..Len(Waiting') : Waiting'[i].id = "disconnect" =>
               \E j \in 1..Len(Waiting) : Waiting'[i] = Waiting[j],
             \A w \in Workers, c \in Conns \ tasks : c \in jobs'[w] =>
               /\ c \in jobs[w]
               /\ (pc[w] = "clear" /\ fd[w] = c => pc'[w] = "clear" /\ fd'[w] = c)
      PROVE  ReportedIsGone'
  <2> SUFFICES ASSUME NEW i \in 1..Len(Waiting'), Waiting'[i].id = "disconnect"
               PROVE  /\ Waiting'[i].peer \notin tasks'
                      /\ \A w \in Workers : Waiting'[i].peer \in jobs'[w] =>
                                             pc'[w] = "clear" /\ fd'[w] = Waiting'[i].peer
    BY DEF ReportedIsGone
  <2>1. PICK j \in 1..Len(Waiting) : Waiting'[i] = Waiting[j]
    BY <1>1
  <2>2. Waiting[j] \in EventTypes
    BY <1>0, ElementOfSeq DEF Trains
  <2>3. Waiting'[i].peer \in Conns \ tasks
    BY <2>1, <2>2, EventUnits DEF ReportedIsGone
  <2> QED
    BY <1>1, <2>1, <2>3 DEF ReportedIsGone
<1>2. ASSUME NEW w \in Workers, WorkerReport(w) PROVE ReportedIsGone'
  <2>1. /\ fd[w] \in Conns /\ fd[w] \in jobs[w] /\ fd[w] \notin tasks
        /\ \A v \in Workers : v # w => fd[w] \notin jobs[v]
    <3>1. fd[w] \in Conns
      BY <1>0, <1>2, HasUnit DEF WorkerReport
    <3> QED
      BY <3>1 DEF OneWorker
  <2>2. /\ tasks' = tasks /\ jobs' = jobs /\ fd' = fd /\ event' = event
        /\ \A v \in Workers : pc'[v] = IF v = w THEN "clear" ELSE pc[v]
        /\ pc[w] = "report"
    BY <1>0, <1>2 DEF WorkerReport
  <2>3. \A v \in Workers, c \in Conns \ tasks : c \in jobs'[v] =>
          /\ c \in jobs[v]
          /\ (pc[v] = "clear" /\ fd[v] = c => pc'[v] = "clear" /\ fd'[v] = c)
    BY <2>2
  <2> DEFINE e == DisconnectEvent(fd[w])
  <2>4. e \in EventTypes /\ e.peer = fd[w]
    BY <2>1, EventsMade DEF DisconnectEvent
  <2>5. CASE queue' = queue
    BY <1>1, <2>2, <2>3, <2>5, WaitingKept
  <2>6. CASE queue' = Append(queue, e)
    <3> HIDE DEF e
    <3>1. Waiting' = Append(Waiting, e)
      BY <1>0, <2>2, <2>4, <2>6, WaitingJoined
    <3>2. /\ Len(Append(Waiting, e)) = Len(Waiting) + 1
          /\ \A i \in 1..Len(Append(Waiting, e)) :
               \/ i = Len(Waiting) + 1 /\ Append(Waiting, e)[i] = e
               \/ i \in 1..Len(Waiting) /\ Append(Waiting, e)[i] = Waiting[i]
      BY <1>0, <2>4, JoinedEvents
    <3> SUFFICES ASSUME NEW i \in 1..Len(Waiting'), Waiting'[i].id = "disconnect"
                 PROVE  /\ Waiting'[i].peer \notin tasks'
                        /\ \A v \in Workers : Waiting'[i].peer \in jobs'[v] =>
                                               pc'[v] = "clear" /\ fd'[v] = Waiting'[i].peer
      BY DEF ReportedIsGone
    <3>3. CASE Waiting'[i] = e
      BY <2>1, <2>2, <2>4, <3>3
    <3>4. CASE i \in 1..Len(Waiting) /\ Waiting'[i] = Waiting[i]
      BY <2>2, <3>4 DEF ReportedIsGone
    <3> QED
      BY <3>1, <3>2, <3>3, <3>4
  <2> QED
    BY <1>2, <2>5, <2>6 DEF WorkerReport
<1>3. ASSUME NEW w \in Workers, WorkerPost(w) PROVE ReportedIsGone'
  <2> DEFINE e == RecvEvent(fd[w], unit[w])
  <2>1. e \in EventTypes /\ e.id = "recv"
    BY <1>0, <1>3, HasUnit, EventsMade DEF WorkerPost, RecvEvent
  <2>2. Waiting' = Append(Waiting, e)
    BY <1>0, <1>3, <2>1, WaitingJoined DEF WorkerPost
  <2> HIDE DEF e
  <2>3. \A i \in 1..Len(Waiting') : Waiting'[i].id = "disconnect" =>
          \E j \in 1..Len(Waiting) : Waiting'[i] = Waiting[j]
    BY <1>0, <2>1, <2>2, JoinedEvents
  <2>4. \A v \in Workers, c \in Conns \ tasks : c \in jobs'[v] =>
          /\ c \in jobs[v]
          /\ (pc[v] = "clear" /\ fd[v] = c => pc'[v] = "clear" /\ fd'[v] = c)
    BY <1>0, <1>3 DEF WorkerPost
  <2> QED
    BY <1>1, <1>3, <2>3, <2>4 DEF WorkerPost
<1>4. ASSUME NEW r \in Receivers, ReceiverPost(r) PROVE ReportedIsGone'
  <2> DEFINE e == RecvEvent(r, unit[r])
  <2>1. e \in EventTypes /\ e.id = "recv"
    BY <1>0, <1>4, HasUnit, EventsMade DEF ReceiverPost, RecvEvent
  <2>2. Waiting' = Append(Waiting, e) \/ Waiting' = Waiting
    BY <1>0, <1>4, <2>1, WaitingJoined, WaitingKept DEF ReceiverPost
  <2> HIDE DEF e
  <2>3. \A i \in 1..Len(Waiting') : Waiting'[i].id = "disconnect" =>
          \E j \in 1..Len(Waiting) : Waiting'[i] = Waiting[j]
    BY <1>0, <2>1, <2>2, JoinedEvents
  <2>4. tasks' = tasks /\ jobs' = jobs /\ fd' = fd /\ \A v \in Workers : pc'[v] = pc[v]
    BY <1>0, <1>4 DEF ReceiverPost
  <2> QED
    BY <1>1, <2>3, <2>4
<1>5. CASE HandlerRecv \/ HandlerDisconnect
  <2>1. event # NoEvent /\ event' = NoEvent /\ queue' = queue
    BY <1>5 DEF HandlerRecv, HandlerDisconnect, NoEvent
  <2>2. Waiting # <<>> /\ Waiting' = Tail(Waiting)
    BY <1>0, <2>1, WaitingLeft
  <2>3. \A i \in 1..Len(Waiting') : \E j \in 1..Len(Waiting) : Waiting'[i] = Waiting[j]
    BY <1>0, <2>2, LeftEvents
  <2>4. tasks' = tasks /\ jobs' = jobs /\ fd' = fd /\ pc' = pc
    BY <1>5 DEF HandlerRecv, HandlerDisconnect
  <2> QED
    BY <1>1, <2>3, <2>4
<1>6. ASSUME Waiting' = Waiting, tasks' \subseteq tasks,
             \A w \in Workers, c \in Conns \ tasks : c \in jobs'[w] =>
               /\ c \in jobs[w]
               /\ (pc[w] = "clear" /\ fd[w] = c => pc'[w] = "clear" /\ fd'[w] = c)
      PROVE  ReportedIsGone'
  BY <1>1, <1>6
<1>7. ASSUME NEW w \in Workers, Worker(w), ~WorkerReport(w), ~WorkerPost(w)
      PROVE  ReportedIsGone'
  <2>1. Waiting' = Waiting
    BY <1>7, WaitingKept DEF Worker, WorkerSelect, WorkerTask, WorkerAlloc, WorkerRecv,
       WorkerRecvFails, WorkerClear, WorkerPostFull, WorkerGivesBack
  <2>2. CASE WorkerTask(w)
    <3>1. PICK d \in tasks : /\ jobs' = [jobs EXCEPT ![w] = @ \cup {d}]
                            /\ tasks' = tasks \ {d}
      BY <2>2 DEF WorkerTask
    <3>2. fd' = fd /\ pc' = pc
      BY <2>2 DEF WorkerTask
    <3>3. \A v \in Workers, c \in Conns \ tasks : c \in jobs'[v] => c \in jobs[v]
      BY <1>0, <3>1
    <3> QED
      BY <1>6, <2>1, <3>1, <3>2, <3>3
  <2>3. CASE WorkerClear(w)
    <3>1. \A v \in Workers : /\ jobs'[v] = IF v = w THEN jobs[w] \ {fd[w]} ELSE jobs[v]
                             /\ v # w => pc'[v] = pc[v] /\ fd'[v] = fd[v]
      BY <1>0, <2>3 DEF WorkerClear
    <3>2. tasks' = tasks
      BY <2>3 DEF WorkerClear
    <3> QED
      BY <1>6, <2>1, <3>1, <3>2
  <2>4. CASE \/ WorkerSelect(w) \/ WorkerAlloc(w) \/ WorkerRecv(w)
             \/ WorkerRecvFails(w) \/ WorkerPostFull(w) \/ WorkerGivesBack(w)
    <3>1. /\ jobs' = jobs /\ tasks' = tasks /\ pc[w] # "clear"
          /\ \A v \in Workers : v # w => pc'[v] = pc[v] /\ fd'[v] = fd[v]
      BY <1>0, <2>4 DEF WorkerSelect, WorkerAlloc, WorkerRecv, WorkerRecvFails,
         WorkerPostFull, WorkerGivesBack
    <3> QED
      BY <1>6, <2>1, <3>1
  <2> QED
    BY <1>7, <2>2, <2>3, <2>4 DEF Worker
<1>8. ASSUME NEW r \in Receivers, Receiver(r), ~ReceiverPost(r) PROVE ReportedIsGone'
  <2>1. /\ tasks' = tasks /\ jobs' = jobs /\ fd' = fd /\ Waiting' = Waiting
        /\ \A v \in Workers : pc'[v] = pc[v]
    BY <1>0, <1>8, WaitingKept
       DEF Receiver, Connect, ReceiverAlloc, ReceiverRecv, ReceiverRecvFails
  <2> QED
    BY <1>6, <2>1
<1>9. CASE HandlerPop \/ UNCHANGED vars
  <2>1. tasks' = tasks /\ jobs' = jobs /\ fd' = fd /\ pc' = pc /\ Waiting' = Waiting
    BY <1>0, <1>9, WaitingKept, WaitingPopped DEF HandlerPop, vars
  <2> QED
    BY <1>6, <2>1
<1> QED
  BY <1>2, <1>3, <1>4, <1>5, <1>7, <1>8, <1>9 DEF Next, Handler

(* What a step does to the packets on their way.  Threads that have received a
   packet they have not posted yet: *)
PostersKept ==
  \A t \in Threads : pc'[t] \in Posting =>
    /\ pc[t] \in Posting /\ unit'[t] = unit[t]
    /\ (t \in Workers => fd'[t] = fd[t])

Quiet == PostersKept /\ Waiting' = Waiting /\ UNCHANGED <<data, received>>

Filled(t) ==
  /\ pc[t] = "recv" /\ Fill(t, PeerOf(t)) /\ pc' = [pc EXCEPT ![t] = "post"]
  /\ Waiting' = Waiting /\ UNCHANGED <<unit, fd>>

Freed(u) ==
  /\ PostersKept /\ data' = [data EXCEPT ![u] = Blank] /\ received' = received
  /\ Waiting' = Waiting \/ (Waiting # <<>> /\ Waiting' = Tail(Waiting))
  /\ \A i \in 1..Len(Waiting') : Waiting'[i].unit # u
  /\ \A t \in Threads : pc'[t] \in Posting => unit[t] # u

Left == /\ PostersKept /\ UNCHANGED <<data, received>>
        /\ Waiting # <<>> /\ Waiting' = Tail(Waiting)

Posted(t) ==
  /\ PostersKept /\ UNCHANGED <<data, received>>
  /\ pc[t] = "post" /\ pc'[t] \notin Posting
  /\ Waiting' = Append(Waiting, RecvEvent(PeerOf(t), unit[t]))

Reported(w) ==
  /\ PostersKept /\ UNCHANGED <<data, received>>
  /\ pc[w] = "report" /\ Waiting' = Append(Waiting, DisconnectEvent(fd[w]))

LEMMA FlowStep ==
  ASSUME IInv, [Next]_vars
  PROVE  \/ Quiet \/ Left
         \/ \E t \in Threads : Filled(t) \/ Posted(t)
         \/ \E u \in Units : Freed(u)
         \/ \E w \in Workers : Reported(w)
<1> USE HasUnit DEF pool, serverSide, others, At, Goto
<1>0. /\ Types /\ Roles /\ Owned(freeList, state, unit, Waiting)
      /\ pc \in [Threads -> WorkerPCs \cup ReceiverPCs] /\ unit \in Holds
      /\ fd \in [Workers -> Conns \cup {Nobody}] /\ Waiting \in Trains
      /\ Workers \cap Receivers = {}
  BY WaitingSeq, ThreadsAssumption DEF IInv, Types
<1>1. ASSUME NEW w \in Workers,
             \/ WorkerSelect(w) \/ WorkerTask(w) \/ WorkerAlloc(w)
             \/ WorkerRecvFails(w) \/ WorkerPostFull(w)
             \/ (WorkerReport(w) /\ queue' = queue)
      PROVE  Quiet
  <2>1. Waiting' = Waiting /\ UNCHANGED <<data, received>>
    BY <1>1, WaitingKept DEF WorkerSelect, WorkerTask, WorkerAlloc, WorkerRecvFails,
       WorkerPostFull, WorkerReport
  <2>2. \A t \in Threads : t # w => /\ pc'[t] = pc[t] /\ unit'[t] = unit[t]
                                    /\ (t \in Workers => fd'[t] = fd[t])
    BY <1>0, <1>1 DEF WorkerSelect, WorkerTask, WorkerAlloc, WorkerRecvFails,
       WorkerPostFull, WorkerReport, Alloc, Holds
  <2>3. pc'[w] \in Posting => pc[w] \in Posting /\ unit'[w] = unit[w] /\ fd'[w] = fd[w]
    BY <1>0, <1>1 DEF WorkerSelect, WorkerTask, WorkerAlloc, WorkerRecvFails,
       WorkerPostFull, WorkerReport, Posting
  <2> QED
    BY <2>1, <2>2, <2>3 DEF Quiet, PostersKept
<1>2. ASSUME NEW r \in Receivers,
             \/ Connect(r) \/ ReceiverAlloc(r) \/ ReceiverRecvFails(r)
             \/ (ReceiverPost(r) /\ queue' = queue)
      PROVE  Quiet
  <2>1. Waiting' = Waiting /\ UNCHANGED <<data, received, fd>>
    BY <1>2, WaitingKept DEF Connect, ReceiverAlloc, ReceiverRecvFails, ReceiverPost
  <2>2. \A t \in Threads : t # r => pc'[t] = pc[t] /\ unit'[t] = unit[t]
    BY <1>0, <1>2 DEF Connect, ReceiverAlloc, ReceiverRecvFails, ReceiverPost, Alloc, Holds
  <2>3. pc'[r] \notin Posting
    BY <1>0, <1>2 DEF Connect, ReceiverAlloc, ReceiverRecvFails, ReceiverPost, Posting
  <2> QED
    BY <2>1, <2>2, <2>3 DEF Quiet, PostersKept
<1>3. CASE HandlerPop \/ UNCHANGED vars
  BY <1>0, <1>3, WaitingKept, WaitingPopped DEF HandlerPop, vars, Quiet, PostersKept
<1>4. ASSUME NEW w \in Workers, WorkerRecv(w) PROVE Filled(w)
  BY <1>4, WaitingKept DEF WorkerRecv, Filled, PeerOf
<1>5. ASSUME NEW r \in Receivers, ReceiverRecv(r) PROVE Filled(r)
  BY <1>0, <1>5, WaitingKept DEF ReceiverRecv, Filled, PeerOf
<1>6. ASSUME NEW w \in Workers, WorkerClear(w) \/ WorkerGivesBack(w)
      PROVE  Freed(unit[w])
  <2>1. unit[w] \in Units /\ unit[w] # NoUnit
    BY <1>0, <1>6, UnitsAreUnits DEF WorkerClear, WorkerGivesBack
  <2>2. /\ \A t \in Threads : t # w => unit[t] # unit[w]
        /\ \A i \in 1..Len(Waiting) : Waiting[i].unit # unit[w]
    BY <1>0, <2>1 DEF Owned
  <2>3. /\ Waiting' = Waiting /\ received' = received
        /\ data' = [data EXCEPT ![unit[w]] = Blank]
    BY <1>6, WaitingKept DEF WorkerClear, WorkerGivesBack, Free
  <2>4. /\ \A t \in Threads : t # w => /\ pc'[t] = pc[t] /\ unit'[t] = unit[t]
                                       /\ (t \in Workers => fd'[t] = fd[t])
        /\ pc'[w] \notin Posting
    BY <1>0, <1>6 DEF WorkerClear, WorkerGivesBack, Holds, Posting
  <2> QED
    BY <2>2, <2>3, <2>4 DEF Freed, PostersKept
<1>7. CASE HandlerRecv \/ HandlerDisconnect
  <2>1. /\ event # NoEvent /\ event' = NoEvent /\ queue' = queue /\ received' = received
        /\ unit' = unit /\ fd' = fd /\ pc' = pc
    BY <1>7 DEF HandlerRecv, HandlerDisconnect, NoEvent
  <2>2. /\ event \in EventTypes /\ Waiting # <<>> /\ Waiting[1] = event
        /\ Waiting' = Tail(Waiting)
    BY <1>0, <2>1, WaitingLeft
  <2>3. PostersKept
    BY <2>1 DEF PostersKept
  <2>4. CASE HandlerDisconnect
    BY <2>1, <2>2, <2>3, <2>4 DEF HandlerDisconnect, Left
  <2>5. CASE HandlerRecv
    <3>1. event.unit \in Units /\ event.unit # NoUnit
      BY <2>2, <2>5, EventUnits DEF HandlerRecv
    <3>2. /\ \A t \in Threads : unit[t] # event.unit
          /\ \A i \in 1..Len(Tail(Waiting)) : Tail(Waiting)[i].unit # event.unit
      <4>1. event.unit # NoUnit =>
               /\ \A i \in 1..Len(freeList) : freeList[i] # event.unit
               /\ \A t \in Threads : unit[t] # event.unit
               /\ \A j \in 1..Len(Tail(Waiting)) : Tail(Waiting)[j].unit # event.unit
        BY <1>0, <2>2, LeaveQueue DEF Types
      <4> QED
        BY <3>1, <4>1
    <3> QED
      BY <2>1, <2>2, <2>3, <2>5, <3>1, <3>2 DEF HandlerRecv, Free, Freed
  <2> QED
    BY <1>7, <2>4, <2>5
<1>8. ASSUME NEW w \in Workers, WorkerPost(w) PROVE Posted(w)
  <2>1. Waiting' = Append(Waiting, RecvEvent(fd[w], unit[w]))
    BY <1>0, <1>8, EventsMade, WaitingJoined DEF WorkerPost
  <2>2. /\ \A t \in Threads : t # w => /\ pc'[t] = pc[t] /\ unit'[t] = unit[t]
                                       /\ (t \in Workers => fd'[t] = fd[t])
        /\ pc'[w] \notin Posting /\ pc[w] = "post" /\ UNCHANGED <<data, received>>
    BY <1>0, <1>8 DEF WorkerPost, Holds, Posting
  <2> QED
    BY <2>1, <2>2 DEF Posted, PostersKept, PeerOf
<1>9. ASSUME NEW r \in Receivers, ReceiverPost(r), queue' # queue PROVE Posted(r)
  <2>1. Waiting' = Append(Waiting, RecvEvent(r, unit[r]))
    BY <1>0, <1>9, EventsMade, WaitingJoined DEF ReceiverPost
  <2>2. /\ \A t \in Threads : t # r => pc'[t] = pc[t] /\ unit'[t] = unit[t]
        /\ pc'[r] \notin Posting /\ pc[r] = "post" /\ UNCHANGED <<data, received, fd>>
    BY <1>0, <1>9 DEF ReceiverPost, Holds, Posting
  <2> QED
    BY <1>0, <2>1, <2>2 DEF Posted, PostersKept, PeerOf
<1>10. ASSUME NEW w \in Workers, WorkerReport(w), queue' # queue PROVE Reported(w)
  <2>1. Waiting' = Append(Waiting, DisconnectEvent(fd[w]))
    BY <1>0, <1>10, EventsMade, WaitingJoined DEF WorkerReport
  <2>2. /\ \A t \in Threads : t # w => pc'[t] = pc[t]
        /\ pc'[w] \notin Posting /\ pc[w] = "report" /\ UNCHANGED <<data, received, fd, unit>>
    BY <1>0, <1>10 DEF WorkerReport, Posting
  <2> QED
    BY <2>1, <2>2 DEF Reported, PostersKept
<1>11. ASSUME NEW w \in Workers, Worker(w)
       PROVE  \/ Quiet \/ Filled(w) \/ Posted(w) \/ Reported(w)
              \/ (Freed(unit[w]) /\ unit[w] \in Units)
  <2>1. CASE WorkerClear(w) \/ WorkerGivesBack(w)
    BY <1>0, <1>6, <2>1 DEF WorkerClear, WorkerGivesBack
  <2> QED
    BY <1>11, <1>1, <1>4, <1>8, <1>10, <2>1 DEF Worker
<1>12. ASSUME NEW r \in Receivers, Receiver(r)
       PROVE  Quiet \/ Filled(r) \/ Posted(r)
  BY <1>12, <1>2, <1>5, <1>9 DEF Receiver
<1> QED
  BY <1>0, <1>3, <1>7, <1>11, <1>12 DEF Next, Handler

(* A packet that is not in the queue stays the newest as long as its peer is
   not received from and only older packets of the peer are in the queue. *)
LEMMA StillNewest ==
  ASSUME NEW d, NEW rc, NEW W, NEW d1, NEW rc1, NEW W1, NEW u, NEW p,
         Newest(d, rc, W, u, p), d1[u] = d[u], rc1[p] = rc[p],
         \A i \in 1..Len(W1) : W1[i].id = "recv" /\ W1[i].peer = p =>
           /\ d1[W1[i].unit] = d[W1[i].unit]
           /\ \E j \in 1..Len(W) : W1[i] = W[j]
  PROVE  Newest(d1, rc1, W1, u, p)
BY DEF Newest, SentBefore

(* Two threads at work have different units and different peers. *)
LEMMA Apart ==
  ASSUME IInv, OneWorker, NEW s \in Threads, NEW t \in Threads, s # t,
         pc[s] \in Posting \cup {"recv"}, pc[t] \in Posting \cup {"recv"}
  PROVE  /\ unit[s] \in Units /\ unit[t] \in Units /\ unit[s] # unit[t]
         /\ PeerOf(s) \in Peers /\ PeerOf(t) \in Peers /\ PeerOf(s) # PeerOf(t)
<1>0. /\ Types /\ Roles /\ Owned(freeList, state, unit, Waiting)
      /\ Workers \cap Receivers = {} /\ Conns \cap Receivers = {}
      /\ Threads = Workers \cup Receivers
  BY ThreadsAssumption DEF IInv, Threads
<1>1. ASSUME NEW r \in Threads, pc[r] \in Posting \cup {"recv"}
      PROVE  unit[r] \in Units /\ (r \in Workers => fd[r] \in Conns)
  BY <1>0, <1>1, HasUnit DEF Posting, Roles, ReceiverPCs
<1>2. unit[s] \in Units /\ unit[t] \in Units /\ unit[s] # unit[t]
  BY <1>0, <1>1, UnitsAreUnits DEF Owned
<1>3. CASE s \in Workers /\ t \in Workers
  BY <1>0, <1>1, <1>2, <1>3, HasUnit DEF PeerOf, OneWorker
<1>4. CASE s \notin Workers \/ t \notin Workers
  BY <1>0, <1>1, <1>2, <1>4, HasUnit DEF PeerOf
<1> QED
  BY <1>3, <1>4

(* After the report of a lost connection nothing of it is posted. *)
LEMMA NotReported ==
  ASSUME IInv, OneWorker, ReportedIsGone, NEW t \in Threads,
         pc[t] = "post" \/ (t \in Workers /\ pc[t] = "report"),
         NEW i \in 1..Len(Waiting), Waiting[i].peer = PeerOf(t)
  PROVE  Waiting[i].id = "recv"
<1>0. /\ Types /\ Roles /\ Waiting \in Trains /\ Waiting[i] \in EventTypes
      /\ Workers \cap Receivers = {} /\ Conns \cap Receivers = {}
      /\ Threads = Workers \cup Receivers
  BY WaitingSeq, ElementOfSeq, ThreadsAssumption DEF IInv, Threads, Trains
<1>1. CASE t \in Workers
  <2>1. fd[t] \in Conns /\ fd[t] \in jobs[t]
    BY <1>0, <1>1, HasUnit DEF OneWorker
  <2> QED
    BY <1>0, <1>1, <2>1, EventUnits DEF PeerOf, ReportedIsGone
<1>2. CASE t \in Receivers
  BY <1>0, <1>2, EventUnits DEF PeerOf
<1> QED
  BY <1>0, <1>1, <1>2

LEMMA NewestStep ==
  ASSUME IInv, OneWorker, NewestIsPosted, InOrder(data, received, Waiting), [Next]_vars
  PROVE  NewestIsPosted'
<1>0. /\ Types /\ Roles /\ Owned(freeList, state, unit, Waiting)
      /\ pc \in [Threads -> WorkerPCs \cup ReceiverPCs]
      /\ data \in [Units -> [peer : Peers \cup {Nobody}, n : 0..MaxPackets]]
      /\ received \in [Peers -> 0..MaxPackets] /\ MaxPackets \in Nat
      /\ Waiting \in Trains
      /\ \A i \in 1..Len(Waiting) : Waiting[i] \in EventTypes
  BY WaitingSeq, ElementOfSeq, SizesAssumption DEF IInv, Types, Trains
<1> SUFFICES ASSUME NEW t \in Threads, pc'[t] \in Posting
             PROVE  Newest(data', received', Waiting', unit'[t],
                           IF t \in Workers THEN fd'[t] ELSE t)
  BY DEF NewestIsPosted, PeerOf
<1>1. ASSUME PostersKept, received' = received,
             unit[t] \in Units => data'[unit[t]] = data[unit[t]],
             \A i \in 1..Len(Waiting') :
               Waiting'[i].id = "recv" /\ Waiting'[i].peer = PeerOf(t) =>
                 /\ data'[Waiting'[i].unit] = data[Waiting'[i].unit]
                 /\ \E j \in 1..Len(Waiting) : Waiting'[i] = Waiting[j]
      PROVE  Newest(data', received', Waiting', unit'[t],
                    IF t \in Workers THEN fd'[t] ELSE t)
  <2>1. /\ pc[t] \in Posting /\ unit'[t] = unit[t]
        /\ (IF t \in Workers THEN fd'[t] ELSE t) = PeerOf(t)
    BY <1>1 DEF PostersKept, PeerOf
  <2>2. Newest(data, received, Waiting, unit[t], PeerOf(t))
    BY <2>1 DEF NewestIsPosted
  <2>3. unit[t] \in Units
    BY <1>0, <2>1, HasUnit DEF Posting, Threads, Roles, ReceiverPCs
  <2>4. Newest(data', received', Waiting', unit[t], PeerOf(t))
    BY <1>1, <2>2, <2>3, StillNewest
  <2> QED
    BY <2>1, <2>4
<1>2. CASE Quiet
  BY <1>1, <1>2 DEF Quiet
<1>3. CASE Left
  BY <1>0, <1>1, <1>3, LeftEvents DEF Left
<1>4. ASSUME NEW u \in Units, Freed(u)
      PROVE  Newest(data', received', Waiting', unit'[t],
                    IF t \in Workers THEN fd'[t] ELSE t)
  <2>1. \A x : x # u => data'[x] = data[x]
    BY <1>0, <1>4 DEF Freed
  <2>2. \A i \in 1..Len(Waiting') : \E j \in 1..Len(Waiting) : Waiting'[i] = Waiting[j]
    BY <1>0, <1>4, LeftEvents DEF Freed
  <2> QED
    BY <1>1, <1>4, <2>1, <2>2 DEF Freed
<1>5. ASSUME NEW w \in Workers, Reported(w)
      PROVE  Newest(data', received', Waiting', unit'[t],
                    IF t \in Workers THEN fd'[t] ELSE t)
  <2> DEFINE e == DisconnectEvent(fd[w])
  <2>1. e \in EventTypes /\ e.id # "recv"
    BY <1>0, <1>5, HasUnit, EventsMade DEF Reported, DisconnectEvent
  <2>2. Waiting' = Append(Waiting, e)
    BY <1>5 DEF Reported
  <2> HIDE DEF e
  <2>3. \A i \in 1..Len(Waiting') : Waiting'[i].id = "recv" =>
          \E j \in 1..Len(Waiting) : Waiting'[i] = Waiting[j]
    BY <1>0, <2>1, <2>2, JoinedEvents
  <2> QED
    BY <1>1, <1>5, <2>3 DEF Reported
<1>6. ASSUME NEW s \in Threads, Posted(s)
      PROVE  Newest(data', received', Waiting', unit'[t],
                    IF t \in Workers THEN fd'[t] ELSE t)
  <2> DEFINE e == RecvEvent(PeerOf(s), unit[s])
  <2>1. s # t /\ pc[s] \in Posting /\ pc[t] \in Posting
    BY <1>6 DEF Posted, PostersKept, Posting
  <2>2. e \in EventTypes /\ e.peer # PeerOf(t)
    BY <2>1, Apart, EventsMade DEF RecvEvent
  <2>3. Waiting' = Append(Waiting, e)
    BY <1>6 DEF Posted
  <2> HIDE DEF e
  <2>4. \A i \in 1..Len(Waiting') : Waiting'[i].peer = PeerOf(t) =>
          \E j \in 1..Len(Waiting) : Waiting'[i] = Waiting[j]
    BY <1>0, <2>2, <2>3, JoinedEvents
  <2> QED
    BY <1>1, <1>6, <2>4 DEF Posted
<1>7. ASSUME NEW s \in Threads, Filled(s)
      PROVE  Newest(data', received', Waiting', unit'[t],
                    IF t \in Workers THEN fd'[t] ELSE t)
  <2> DEFINE q == PeerOf(s)
             m == received[q] + 1
  <2>1. /\ unit[s] \in Units /\ q \in Peers /\ received[q] \in Nat
    <3>1. pc[s] = "recv"
      BY <1>7 DEF Filled
    <3>2. unit[s] \in Units /\ q \in Peers
      BY <1>0, <3>1, HasUnit DEF PeerOf, Threads
    <3> QED
      BY <1>0, <3>2
  <2>2. /\ unit' = unit /\ (IF t \in Workers THEN fd'[t] ELSE t) = PeerOf(t)
        /\ Waiting' = Waiting /\ pc' = [pc EXCEPT ![s] = "post"] /\ pc[s] = "recv"
    BY <1>7 DEF Filled, PeerOf
  <2>3. /\ \A x : x # unit[s] => data'[x] = data[x]
        /\ data'[unit[s]] = [peer |-> q, n |-> m]
        /\ \A p \in Peers : received'[p] = IF p = q THEN m ELSE received[p]
    BY <1>0, <1>7, <2>1 DEF Filled, Fill
  <2>4. \A i \in 1..Len(Waiting) : Waiting[i].unit # unit[s]
    BY <1>0, <2>1, UnitsAreUnits DEF Owned
  <2> HIDE DEF q, m
  <2>5. CASE t = s
    <3>1. SentBefore(data', Waiting, q, m)
      <4> SUFFICES ASSUME NEW i \in 1..Len(Waiting), Waiting[i].id = "recv",
                          Waiting[i].peer = q
                   PROVE  data'[Waiting[i].unit].n < m
        BY DEF SentBefore
      <4>1. Waiting[i].unit \in Units
        BY <1>0, EventUnits
      <4>2. data[Waiting[i].unit].n \in 0..MaxPackets
        BY <1>0, <4>1
      <4>3. data[Waiting[i].unit].n <= received[q]
        BY DEF InOrder
      <4> QED
        BY <2>1, <2>3, <2>4, <4>2, <4>3 DEF m
    <3> QED
      BY <2>1, <2>2, <2>3, <2>5, <3>1 DEF Newest, q
  <2>6. CASE t # s
    <3>1. pc[t] \in Posting
      BY <1>0, <2>2, <2>6
    <3>2. /\ unit[t] # unit[s] /\ PeerOf(t) \in Peers /\ PeerOf(t) # q
      BY <2>2, <2>6, <3>1, Apart DEF q
    <3>3. Newest(data, received, Waiting, unit[t], PeerOf(t))
      BY <3>1 DEF NewestIsPosted
    <3>4. Newest(data', received', Waiting, unit[t], PeerOf(t))
      BY <2>3, <2>4, <3>2, <3>3, StillNewest
    <3> QED
      BY <2>2, <3>4
  <2> QED
    BY <2>5, <2>6
<1> QED
  BY <1>2, <1>3, <1>4, <1>5, <1>6, <1>7, FlowStep

(* Events that leave, and units that are not in any, keep the others in order. *)
LEMMA InOrderKept ==
  ASSUME NEW d, NEW rc, NEW W, NEW d1, NEW rc1, NEW W1, NEW k \in Nat,
         InOrder(d, rc, W), Len(W1) \in Nat,
         \A i \in 1..Len(W1) : i + k \in 1..Len(W) /\ W1[i] = W[i + k],
         \A i \in 1..Len(W1) : W1[i].id = "recv" =>
           /\ d1[W1[i].unit] = d[W1[i].unit]
           /\ d[W1[i].unit].n <= rc[W1[i].peer] => d1[W1[i].unit].n <= rc1[W1[i].peer]
  PROVE  InOrder(d1, rc1, W1)
<1>1. ASSUME NEW i \in 1..Len(W1), W1[i].id = "recv"
      PROVE  d1[W1[i].unit].peer = W1[i].peer /\ d1[W1[i].unit].n <= rc1[W1[i].peer]
  BY <1>1 DEF InOrder
<1>2. ASSUME NEW i \in 1..Len(W1), NEW j \in 1..Len(W1), i < j, W1[i].peer = W1[j].peer
      PROVE  /\ W1[i].id = "recv"
             /\ (W1[j].id = "recv" => d1[W1[i].unit].n < d1[W1[j].unit].n)
  <2>1. i + k < j + k
    BY <1>2
  <2>2. /\ i + k \in 1..Len(W) /\ j + k \in 1..Len(W)
        /\ W1[i] = W[i + k] /\ W1[j] = W[j + k]
    OBVIOUS
  <2>3. /\ W[i + k].id = "recv"
        /\ (W[j + k].id = "recv" => d[W[i + k].unit].n < d[W[j + k].unit].n)
    BY <1>2, <2>1, <2>2 DEF InOrder
  <2> QED
    BY <2>2, <2>3
<1> QED
  BY <1>1, <1>2 DEF InOrder

(* What a thread posts is newer than everything its peer has in the queue. *)
LEMMA InOrderJoined ==
  ASSUME NEW d, NEW rc, NEW W \in Trains, NEW e \in EventTypes, InOrder(d, rc, W),
         \A i \in 1..Len(W) : W[i].peer = e.peer => W[i].id = "recv",
         e.id = "recv" => Newest(d, rc, W, e.unit, e.peer) /\ rc[e.peer] \in Nat
  PROVE  InOrder(d, rc, Append(W, e))
<1> DEFINE X == Append(W, e)
<1>1. /\ Len(W) \in Nat /\ Len(X) = Len(W) + 1
      /\ \A i \in 1..Len(X) : \/ (i = Len(W) + 1 /\ X[i] = e)
                              \/ (i \in 1..Len(W) /\ X[i] = W[i])
  BY JoinedEvents
<1> HIDE DEF X
<1>2. ASSUME e.id = "recv"
      PROVE  /\ d[e.unit].peer = e.peer /\ d[e.unit].n = rc[e.peer]
             /\ rc[e.peer] <= rc[e.peer]
  BY <1>2 DEF Newest
<1>3. ASSUME NEW i \in 1..Len(X), X[i].id = "recv"
      PROVE  d[X[i].unit].peer = X[i].peer /\ d[X[i].unit].n <= rc[X[i].peer]
  BY <1>1, <1>2, <1>3 DEF InOrder
<1>4. ASSUME NEW i \in 1..Len(X), NEW j \in 1..Len(X), i < j, X[i].peer = X[j].peer
      PROVE  /\ X[i].id = "recv"
             /\ (X[j].id = "recv" => d[X[i].unit].n < d[X[j].unit].n)
  <2>1. i \in 1..Len(W) /\ X[i] = W[i]
    BY <1>1, <1>4
  <2>2. CASE j \in 1..Len(W) /\ X[j] = W[j]
    BY <1>4, <2>1, <2>2 DEF InOrder
  <2>3. CASE X[j] = e
    BY <1>2, <1>4, <2>1, <2>3 DEF Newest, SentBefore
  <2> QED
    BY <1>1, <2>2, <2>3
<1> QED
  BY <1>3, <1>4 DEF InOrder, X

LEMMA InOrderStep ==
  ASSUME IInv, OrderInv, [Next]_vars
  PROVE  InOrder(data, received, Waiting)'
<1>0. /\ Types /\ Roles /\ Owned(freeList, state, unit, Waiting)
      /\ data \in [Units -> [peer : Peers \cup {Nobody}, n : 0..MaxPackets]]
      /\ received \in [Peers -> 0..MaxPackets] /\ MaxPackets \in Nat
      /\ Waiting \in Trains /\ Len(Waiting) \in Nat
      /\ \A i \in 1..Len(Waiting) : Waiting[i] \in EventTypes
      /\ Threads = Workers \cup Receivers
      /\ OneWorker /\ NewestIsPosted /\ ReportedIsGone /\ InOrder(data, received, Waiting)
  BY WaitingSeq, ElementOfSeq, SizesAssumption, LenProperties
     DEF IInv, OrderInv, Types, Trains, Threads
<1>1. ASSUME Waiting' = Waiting \/ (Waiting # <<>> /\ Waiting' = Tail(Waiting)),
             \A i \in 1..Len(Waiting') : Waiting'[i].id = "recv" =>
               /\ data'[Waiting'[i].unit] = data[Waiting'[i].unit]
               /\ data[Waiting'[i].unit].n <= received[Waiting'[i].peer] =>
                    data'[Waiting'[i].unit].n <= received'[Waiting'[i].peer]
      PROVE  InOrder(data', received', Waiting')
  <2>1. PICK k \in Nat : /\ Len(Waiting') \in Nat
                         /\ \A i \in 1..Len(Waiting') :
                              i + k \in 1..Len(Waiting) /\ Waiting'[i] = Waiting[i + k]
    <3>1. CASE Waiting' = Waiting
      <4>1. 0 \in Nat /\ \A i \in 1..Len(Waiting) : i + 0 = i
        BY <1>0
      <4> QED
        BY <1>0, <3>1, <4>1
    <3>2. CASE Waiting # <<>> /\ Waiting' = Tail(Waiting)
      <4>1. /\ Len(Waiting') \in Nat
            /\ \A i \in 1..Len(Waiting') :
                 i + 1 \in 1..Len(Waiting) /\ Waiting'[i] = Waiting[i + 1]
        BY <1>0, <3>2, LeftEvents
      <4>2. 1 \in Nat
        OBVIOUS
      <4> QED
        BY <4>1, <4>2
    <3> QED
      BY <1>1, <3>1, <3>2
  <2> QED
    BY <1>0, <1>1, <2>1, InOrderKept
<1>2. CASE Quiet \/ Left
  BY <1>1, <1>2 DEF Quiet, Left
<1>3. ASSUME NEW u \in Units, Freed(u) PROVE InOrder(data', received', Waiting')
  <2>1. \A x : x # u => data'[x] = data[x]
    BY <1>0, <1>3 DEF Freed
  <2> QED
    BY <1>1, <1>3, <2>1 DEF Freed
<1>4. ASSUME NEW s \in Threads, Filled(s) PROVE InOrder(data', received', Waiting')
  <2>1. unit[s] \in Units /\ PeerOf(s) \in Peers
    BY <1>0, <1>4, HasUnit DEF Filled, PeerOf
  <2>2. /\ \A x : x # unit[s] => data'[x] = data[x]
        /\ \A p \in Peers : received'[p] \in Int /\ received[p] <= received'[p]
    BY <1>0, <1>4, <2>1 DEF Filled, Fill
  <2>3. /\ Waiting' = Waiting
        /\ \A i \in 1..Len(Waiting) : Waiting[i].unit # unit[s]
    BY <1>0, <1>4, <2>1, UnitsAreUnits DEF Owned, Filled
  <2>4. ASSUME NEW i \in 1..Len(Waiting), Waiting[i].id = "recv"
        PROVE  /\ data'[Waiting[i].unit] = data[Waiting[i].unit]
               /\ data[Waiting[i].unit].n <= received[Waiting[i].peer] =>
                    data'[Waiting[i].unit].n <= received'[Waiting[i].peer]
    <3>1. Waiting[i].peer \in Peers /\ Waiting[i].unit \in Units
      BY <1>0, <2>4, EventUnits
    <3>2. /\ data[Waiting[i].unit].n \in 0..MaxPackets
          /\ received[Waiting[i].peer] \in 0..MaxPackets
      BY <1>0, <3>1
    <3> QED
      BY <1>0, <2>2, <2>3, <3>1, <3>2
  <2> QED
    BY <1>1, <2>3, <2>4
<1>5. ASSUME NEW w \in Workers, Reported(w) PROVE InOrder(data', received', Waiting')
  <2> DEFINE e == DisconnectEvent(fd[w])
  <2>1. e \in EventTypes /\ e.id # "recv" /\ e.peer = PeerOf(w)
    BY <1>0, <1>5, HasUnit, EventsMade DEF Reported, DisconnectEvent, PeerOf
  <2> HIDE DEF e
  <2>2. \A i \in 1..Len(Waiting) : Waiting[i].peer = e.peer => Waiting[i].id = "recv"
    BY <1>0, <1>5, <2>1, NotReported DEF Reported
  <2>3. InOrder(data, received, Append(Waiting, e))
    BY <1>0, <2>1, <2>2, InOrderJoined
  <2> QED
    BY <1>5, <2>3 DEF Reported, e
<1>6. ASSUME NEW s \in Threads, Posted(s) PROVE InOrder(data', received', Waiting')
  <2> DEFINE e == RecvEvent(PeerOf(s), unit[s])
  <2>1. PeerOf(s) \in Peers /\ unit[s] \in Units
    BY <1>0, <1>6, HasUnit DEF Posted, PeerOf
  <2>2. e \in EventTypes /\ e.peer = PeerOf(s) /\ e.unit = unit[s] /\ received[e.peer] \in Nat
    BY <1>0, <2>1, EventsMade DEF RecvEvent
  <2> HIDE DEF e
  <2>3. \A i \in 1..Len(Waiting) : Waiting[i].peer = e.peer => Waiting[i].id = "recv"
    BY <1>0, <1>6, <2>2, NotReported DEF Posted
  <2>4. Newest(data, received, Waiting, e.unit, e.peer)
    BY <1>0, <1>6, <2>2 DEF Posted, NewestIsPosted, Posting
  <2>5. InOrder(data, received, Append(Waiting, e))
    BY <1>0, <2>2, <2>3, <2>4, InOrderJoined
  <2> QED
    BY <1>6, <2>5 DEF Posted, e
<1> QED
  BY <1>2, <1>3, <1>4, <1>5, <1>6, FlowStep

LEMMA InitOrder == Init => OrderInv
<1> SUFFICES ASSUME Init PROVE OrderInv
  OBVIOUS
<1>1. Waiting = <<>> /\ Len(Waiting) = 0
  BY DEF Init, Waiting
<1>2. \A i \in 1..Len(Waiting) : FALSE
  BY <1>1
<1>3. OneWorker
  BY NobodyAssumption DEF Init, OneWorker
<1>4. NewestIsPosted
  BY DEF Init, NewestIsPosted, Posting
<1> QED
  BY <1>2, <1>3, <1>4 DEF OrderInv, ReportedIsGone, InOrder

(* Up to the end of its callback a packet is what was received, and the packets
   of a connection stay in order before the report that it is lost, for any
   number of threads, connections and units and any size of the queue. *)
THEOREM PacketsOrdered == Spec => []PacketsStayInOrder
<1>1. IInv /\ OrderInv /\ [Next]_vars => OrderInv'
  BY OneWorkerStep, ReportedStep, NewestStep, InOrderStep DEF OrderInv
<1>2. IInv /\ OrderInv => PacketsStayInOrder
  <2> SUFFICES ASSUME IInv, OrderInv PROVE PacketsStayInOrder
    OBVIOUS
  <2>1. DOMAIN Waiting = 1..Len(Waiting)
    BY WaitingSeq, LenProperties DEF IInv, Trains
  <2> QED
    BY <2>1 DEF OrderInv, InOrder, PacketsStayInOrder
<1> QED
  BY <1>1, <1>2, InitOrder, InvariantHolds, PTL DEF Spec

-----------------------------------------------------------------------------
(***************************************************************************)
(* Framing, for any sizes.  First the layout of the stream: the recursion  *)
(* of From unfolded, and which byte of which packet each byte is.  Then    *)
(* what one call of enet_unpack_data answers, when the buffer has the      *)
(* beginning of a packet and when it has lost it; the state of the         *)
(* receiver follows from it turn by turn.                                  *)
(***************************************************************************)

(* A nonempty set of natural numbers has a least element. *)
LEMMA LeastNatural ==
  ASSUME NEW T \in SUBSET Nat, T # {}
  PROVE  \E n \in T : \A m \in T : n <= m
<1>1. PICK n \in T : \A m \in T : ~ (<<m, n>> \in OpToRel(<, Nat))
  BY NatLessThanWellFounded, WFMin
<1>2. ASSUME NEW m \in Nat, m < n PROVE <<m, n>> \in OpToRel(<, Nat)
  BY <1>2, Zenon DEF OpToRel
<1>3. \A m \in T : m \in Nat /\ n \in Nat /\ ~ (m < n)
  BY <1>1, <1>2
<1> QED
  BY <1>3

Bytes == Nat \X Nat \X Nat
Packets == 1..Len(bodies)
Bounds == 1..(Len(bodies) + 1)

(* Where the packets up to n begin. *)
BeginningsTo(n, f) ==
  f \in [1..n -> Nat] /\ f[1] = 0 /\ \A p \in 1..n : p # 1 => f[p] = f[p - 1] + Whole(bodies[p - 1])

(* The sizes of the parts of a packet. *)
LEMMA WholeIsPositive ==
  /\ HeadSize \in Nat \ {0} /\ TailSize \in Nat \ {0}
  /\ \A n \in Nat : Whole(n) \in Nat /\ Whole(n) = HeadSize + n + TailSize
BY FramingAssumption DEF Whole

(* So are the lengths of the bodies. *)
LEMMA BodiesAreNumbers ==
  ASSUME bodies \in Seq(Nat)
  PROVE  /\ Len(bodies) \in Nat
         /\ \A p \in Packets : /\ p \in Nat /\ bodies[p] \in Nat
                              /\ Whole(bodies[p]) \in Nat /\ Whole(bodies[p]) > 0
<1>1. \A p \in Packets : p \in Nat /\ bodies[p] \in Nat
  BY DEF Packets
<1>2. ASSUME NEW p \in Packets PROVE Whole(bodies[p]) \in Nat /\ Whole(bodies[p]) > 0
  <2>1. bodies[p] \in Nat
    BY <1>1
  <2>2. Whole(bodies[p]) \in Nat /\ Whole(bodies[p]) = HeadSize + bodies[p] + TailSize
    BY <2>1, WholeIsPositive, Zenon
  <2>3. HeadSize \in Nat /\ HeadSize > 0 /\ TailSize \in Nat
    BY FramingAssumption
  <2> QED
    BY <2>1, <2>2, <2>3
<1> QED
  BY <1>1, <1>2

(* The recursion of From has a solution, one packet at a time. *)
LEMMA BeginningsExist ==
  ASSUME bodies \in Seq(Nat)
  PROVE  \A n \in Bounds : \E f : BeginningsTo(n, f)
<1> DEFINE T == {n \in Bounds : ~ \E f : BeginningsTo(n, f)}
<1>1. SUFFICES ASSUME T # {} PROVE FALSE
  OBVIOUS
<1>2. PICK k \in T : \A m \in T : k <= m
  <2>1. T \in SUBSET Nat
    BY DEF Bounds
  <2> QED
    BY <1>1, <2>1, LeastNatural
<1>3. k \in Nat /\ k \in Bounds /\ ~ \E f : BeginningsTo(k, f)
  BY <1>2 DEF Bounds
<1>4. k # 1
  <2> DEFINE f == [p \in 1..1 |-> 0]
  <2>1. BeginningsTo(1, f)
    BY DEF BeginningsTo
  <2> QED
    BY <1>3, <2>1
<1>5. k - 1 \in Bounds /\ k - 1 \in Packets /\ \E f : BeginningsTo(k - 1, f)
  BY <1>2, <1>3, <1>4 DEF Bounds, Packets
<1>6. PICK g : BeginningsTo(k - 1, g)
  BY <1>5
<1>7. Whole(bodies[k - 1]) \in Nat /\ k - 1 \in 1..(k - 1)
  BY <1>3, <1>5, BodiesAreNumbers DEF Packets
<1> DEFINE f == [p \in 1..k |-> IF p = k THEN g[k - 1] + Whole(bodies[k - 1]) ELSE g[p]]
<1>8. BeginningsTo(k, f)
  <2>1. \A p \in 1..(k - 1) : f[p] = g[p] /\ g[p] \in Nat
    BY <1>3, <1>6 DEF BeginningsTo
  <2>2. f[k] = g[k - 1] + Whole(bodies[k - 1]) /\ f[k] \in Nat
    <3>1. k \in 1..k /\ g[k - 1] \in Nat
      <4>1. k \in 1..k
        BY <1>3, <1>4, <1>5 DEF Packets
      <4>2. f[k - 1] = g[k - 1] /\ g[k - 1] \in Nat
        BY <1>7, <2>1
      <4> QED
        BY <4>1, <4>2
    <3>2. f[k] = g[k - 1] + Whole(bodies[k - 1])
      BY <3>1
    <3> HIDE DEF f
    <3> QED
      BY <1>7, <3>1, <3>2
  <2>3. f \in [1..k -> Nat]
    <3>1. \A p \in 1..k : p = k \/ p \in 1..(k - 1)
      BY <1>3
    <3>2. \A p \in 1..k : f[p] \in Nat
      <4> HIDE DEF f
      <4> QED
        BY <2>1, <2>2, <3>1
    <3>3. f = [p \in 1..k |-> f[p]]
      OBVIOUS
    <3> HIDE DEF f
    <3> QED
      BY <3>2, <3>3
  <2>4. 1 \in 1..(k - 1) /\ f[1] = 0
    BY <1>3, <1>4, <1>5, <1>6 DEF BeginningsTo, Packets
  <2>5. \A p \in 1..(k - 1) : p # 1 => p - 1 \in 1..(k - 1)
    BY <1>3
  <2>6. \A p \in 1..(k - 1) : p # 1 => g[p] = g[p - 1] + Whole(bodies[p - 1])
    BY <1>6 DEF BeginningsTo
  <2>7. ASSUME NEW p \in 1..k, p # 1 PROVE f[p] = f[p - 1] + Whole(bodies[p - 1])
    <3>1. CASE p = k
      BY <1>7, <2>1, <2>2, <3>1
    <3>2. CASE p # k
      <4>1. p \in 1..(k - 1)
        BY <1>3, <3>2
      <4> QED
        BY <2>1, <2>5, <2>6, <2>7, <4>1
    <3> QED
      BY <3>1, <3>2
  <2> QED
    BY <2>3, <2>4, <2>7 DEF BeginningsTo
<1> QED
  BY <1>3, <1>8

(* What the recursive definition of From says. *)
LEMMA FromUnfolds ==
  ASSUME bodies \in Seq(Nat)
  PROVE  /\ From \in [Bounds -> Nat] /\ From[1] = 0
         /\ \A p \in Packets : From[p + 1] = To(p)
<1> DEFINE Unfolded(f) == f = [p \in 1..(Len(bodies) + 1) |-> IF p = 1 THEN 0 ELSE f[p - 1] + Whole(bodies[p - 1])]
<1>1. Len(bodies) \in Nat /\ Len(bodies) + 1 \in Bounds /\ 1 \in Bounds
  BY DEF Bounds
<1>2. PICK g : BeginningsTo(Len(bodies) + 1, g)
  BY <1>1, BeginningsExist
<1>3. Unfolded(g)
  BY <1>1, <1>2 DEF BeginningsTo
<1>4. From = CHOOSE f : Unfolded(f)
  BY DEF From
<1>5. Unfolded(From)
  <2> HIDE DEF Unfolded
  <2> QED
    BY <1>3, <1>4
<1>6. \A p \in Bounds : From[p] = g[p]
  <2> DEFINE T == {p \in Bounds : From[p] # g[p]}
  <2>1. SUFFICES ASSUME T # {} PROVE FALSE
    OBVIOUS
  <2>2. PICK k \in T : \A m \in T : k <= m
    <3>1. T \in SUBSET Nat
      BY DEF Bounds
    <3> QED
      BY <2>1, <3>1, LeastNatural
  <2>3. k # 1 => k - 1 \in Bounds /\ From[k - 1] = g[k - 1]
    BY <1>1, <2>2 DEF Bounds
  <2>4. k \in 1..(Len(bodies) + 1) /\ From[k] # g[k]
    BY <2>2 DEF Bounds
  <2>5. From[k] = IF k = 1 THEN 0 ELSE From[k - 1] + Whole(bodies[k - 1])
    BY <1>5, <2>4
  <2>6. g[k] = IF k = 1 THEN 0 ELSE g[k - 1] + Whole(bodies[k - 1])
    BY <1>2, <2>4 DEF BeginningsTo
  <2> QED
    BY <2>3, <2>4, <2>5, <2>6
<1>7. \A p \in Bounds : From[p] \in Nat
  BY <1>2, <1>6 DEF BeginningsTo, Bounds
<1>8. DOMAIN From = Bounds /\ From = [p \in Bounds |-> From[p]]
  BY <1>5 DEF Bounds
<1>9. From[1] = 0
  BY <1>1, <1>5 DEF Bounds
<1>10. ASSUME NEW p \in Packets PROVE From[p + 1] = To(p)
  <2>1. p + 1 \in 1..(Len(bodies) + 1) /\ p + 1 # 1 /\ (p + 1) - 1 = p
    BY <1>1 DEF Packets
  <2>2. From[p + 1] = From[(p + 1) - 1] + Whole(bodies[(p + 1) - 1])
    BY <1>5, <2>1
  <2> QED
    BY <2>1, <2>2 DEF To
<1> QED
  BY <1>7, <1>8, <1>9, <1>10

(* The packets lie one behind the other. *)
LEMMA PacketsInARow ==
  ASSUME bodies \in Seq(Nat)
  PROVE  \A q \in Bounds : \A p \in Packets : p < q => To(p) <= From[q]
<1> DEFINE T == {q \in Bounds : ~ \A p \in Packets : p < q => To(p) <= From[q]}
<1>1. SUFFICES ASSUME T # {} PROVE FALSE
  OBVIOUS
<1>2. PICK k \in T : \A m \in T : k <= m
  <2>1. T \in SUBSET Nat
    BY DEF Bounds
  <2> QED
    BY <1>1, <2>1, LeastNatural
<1>3. k \in Nat /\ k \in Bounds
  BY DEF Bounds
<1>4. PICK p \in Packets : p < k /\ ~ (To(p) <= From[k])
  BY <1>2
<1>5. k - 1 \in Packets /\ k - 1 \in Bounds /\ k - 1 \notin T
  BY <1>2, <1>3, <1>4 DEF Bounds, Packets
<1>6. From[k] = To(k - 1) /\ From[k - 1] \in Nat
  BY <1>3, <1>5, FromUnfolds
<1>7. To(k - 1) \in Nat /\ From[k - 1] <= To(k - 1)
  BY <1>5, <1>6, BodiesAreNumbers DEF To
<1>8. CASE p = k - 1
  BY <1>4, <1>6, <1>7, <1>8
<1>9. CASE p # k - 1
  <2>1. p < k - 1
    BY <1>3, <1>4, <1>9 DEF Packets
  <2>2. To(p) <= From[k - 1]
    BY <1>5, <2>1
  <2>3. To(p) \in Nat
    <3>1. p \in Bounds
      BY BodiesAreNumbers DEF Packets, Bounds
    <3> QED
      BY <3>1, FromUnfolds, BodiesAreNumbers DEF To
  <2> QED
    BY <1>4, <1>6, <1>7, <2>2, <2>3
<1> QED
  BY <1>8, <1>9

(* The byte at place x of packet p. *)
LEMMA StreamAt ==
  ASSUME bodies \in Seq(Nat)
  PROVE  /\ Stream \in Seq(Bytes) /\ Len(Stream) = From[Len(bodies) + 1]
         /\ \A p \in Packets, x \in Nat \ {0} :
              x <= Whole(bodies[p]) => /\ From[p] + x <= Len(Stream)
                                       /\ Stream[From[p] + x] = <<p, bodies[p], x>>
<1> DEFINE total == From[Len(bodies) + 1]
<1>1. Len(bodies) \in Nat /\ total \in Nat /\ Len(bodies) + 1 \in Bounds
  BY FromUnfolds DEF Bounds
<1>2. \A p \in Packets : /\ bodies[p] \in Nat /\ From[p] \in Nat /\ To(p) \in Nat /\ p \in Nat
                         /\ Whole(bodies[p]) \in Nat /\ To(p) = From[p] + Whole(bodies[p])
  <2>1. \A p \in Packets : p \in Bounds
    BY BodiesAreNumbers DEF Packets, Bounds
  <2> QED
    BY <2>1, FromUnfolds, BodiesAreNumbers DEF To
<1>3. \A p, q \in Packets, x \in Nat : x \in (From[p] + 1)..To(p) /\ x \in (From[q] + 1)..To(q) => p = q
  <2> SUFFICES ASSUME NEW p \in Packets, NEW q \in Packets, NEW x \in Nat,
                      x \in (From[p] + 1)..To(p), x \in (From[q] + 1)..To(q)
               PROVE  p = q
    OBVIOUS
  <2>1. (p < q => To(p) <= From[q]) /\ (q < p => To(q) <= From[p])
    BY PacketsInARow DEF Packets, Bounds
  <2> QED
    BY <1>2, <2>1
<1>4. ASSUME NEW p \in Packets, NEW x \in (From[p] + 1)..To(p) PROVE x \in 1..total /\ PacketOf(x) = p
  <2>1. To(p) <= total
    BY <1>1, PacketsInARow DEF Packets
  <2>2. DOMAIN bodies = Packets
    BY DEF Packets
  <2>3. x \in Nat /\ x >= 1 /\ x <= total
    BY <1>1, <1>2, <2>1
  <2>4. \A q \in DOMAIN bodies : x \in (From[q] + 1)..To(q) => q = p
    BY <1>3, <2>2, <2>3
  <2>5. PacketOf(x) = p
    BY <2>2, <2>4 DEF PacketOf
  <2> QED
    BY <1>1, <2>3, <2>5
<1>5. \A x \in 1..total : \E p \in Packets : x \in (From[p] + 1)..To(p)
  <2> SUFFICES ASSUME NEW x \in 1..total PROVE \E p \in Packets : x \in (From[p] + 1)..To(p)
    OBVIOUS
  <2> DEFINE T == {p \in Bounds : x <= From[p]}
  <2>1. T \in SUBSET Nat /\ T # {}
    BY <1>1 DEF Bounds
  <2>2. PICK k \in T : \A m \in T : k <= m
    BY <2>1, LeastNatural
  <2>3. k # 1
    BY <1>1, <2>2, FromUnfolds
  <2>4. k - 1 \in Packets /\ k - 1 \in Bounds /\ k - 1 \notin T /\ k = (k - 1) + 1
    BY <1>1, <2>2, <2>3 DEF Packets, Bounds
  <2>5. From[k] = To(k - 1)
    BY <2>4, FromUnfolds
  <2> QED
    BY <1>1, <1>2, <2>2, <2>4, <2>5
<1>6. \A x \in 1..total : \A p \in Packets :
        x \in (From[p] + 1)..To(p) => Stream[x] = <<p, bodies[p], x - From[p]>>
  <2> SUFFICES ASSUME NEW x \in 1..total, NEW p \in Packets, x \in (From[p] + 1)..To(p)
               PROVE  Stream[x] = <<p, bodies[p], x - From[p]>>
    OBVIOUS
  <2>1. Stream[x] = Pack(p, bodies[p])[x - From[p]]
    BY <1>4 DEF Stream
  <2>2. x - From[p] \in 1..Whole(bodies[p])
    BY <1>1, <1>2
  <2> QED
    BY <2>1, <2>2 DEF Pack
<1>7. ASSUME NEW x \in 1..total PROVE Stream[x] \in Bytes
  <2>1. PICK p \in Packets : x \in (From[p] + 1)..To(p)
    BY <1>5
  <2>2. Stream[x] = <<p, bodies[p], x - From[p]>>
    BY <1>6, <2>1
  <2>3. x - From[p] \in Nat
    BY <1>1, <1>2, <2>1
  <2> QED
    BY <1>2, <2>2, <2>3 DEF Bytes
<1>8. Stream \in Seq(Bytes) /\ Len(Stream) = total
  <2>1. Stream \in [1..total -> Bytes]
    BY <1>7 DEF Stream
  <2> QED
    BY <1>1, <2>1
<1>9. ASSUME NEW p \in Packets, NEW x \in Nat \ {0}, x <= Whole(bodies[p])
      PROVE  From[p] + x <= Len(Stream) /\ Stream[From[p] + x] = <<p, bodies[p], x>>
  <2>1. From[p] + x \in (From[p] + 1)..To(p) /\ (From[p] + x) - From[p] = x
    BY <1>2, <1>9
  <2>2. From[p] + x \in 1..total
    BY <1>4, <2>1
  <2> QED
    BY <1>1, <1>6, <1>8, <2>1, <2>2
<1> QED
  BY <1>8, <1>9

(* A function on 1..n is a sequence of length n. *)
LEMMA SeqOfFunction ==
  ASSUME NEW S, NEW n \in Nat, NEW f \in [1..n -> S]
  PROVE  f \in Seq(S) /\ Len(f) = n
<1>1. DOMAIN f = 1..n
  OBVIOUS
<1>2. f \in Seq(S)
  OBVIOUS
<1>3. Len(f) \in Nat /\ 1..Len(f) = 1..n
  BY <1>1, <1>2
<1> QED
  BY <1>2, <1>3

(* SubSeq, byte by byte. *)
LEMMA PartOfSequence ==
  ASSUME NEW s \in Seq(Bytes), NEW m \in Nat, NEW n \in Nat, m <= n, n <= Len(s)
  PROVE  SubSeq(s, m + 1, n) = [x \in 1..(n - m) |-> s[m + x]]
<1>1. SubSeq(s, m + 1, n) \in Seq(Bytes) /\ Len(SubSeq(s, m + 1, n)) = n - m
  OBVIOUS
<1>2. \A x \in 1..(n - m) : SubSeq(s, m + 1, n)[x] = s[m + x]
  OBVIOUS
<1> DEFINE u == SubSeq(s, m + 1, n)
<1>3. u = [x \in 1..(n - m) |-> u[x]]
  BY <1>1
<1> HIDE DEF u
<1> QED
  BY <1>2, <1>3 DEF u

(* The bytes of the stream after a, up to b. *)
Cut(a, b) == [x \in 1..(b - a) |-> Stream[a + x]]

(* A cut is what recv answers with, and has the bytes of the stream. *)
LEMMA CutOfStream ==
  ASSUME bodies \in Seq(Nat), NEW a \in Nat, NEW b \in Nat, a <= b, b <= Len(Stream)
  PROVE  /\ Cut(a, b) \in Seq(Bytes) /\ Len(Cut(a, b)) = b - a
         /\ \A x \in 1..(b - a) : Cut(a, b)[x] = Stream[a + x]
         /\ SubSeq(Stream, a + 1, b) = Cut(a, b)
         /\ a = b => Cut(a, b) = <<>>
<1>1. Stream \in Seq(Bytes) /\ Len(Stream) \in Nat
  BY StreamAt
<1>2. \A x \in 1..(b - a) : a + x \in 1..Len(Stream)
  BY <1>1
<1>3. \A x \in 1..(b - a) : Cut(a, b)[x] = Stream[a + x] /\ Stream[a + x] \in Bytes
  BY <1>1, <1>2 DEF Cut
<1>4. Cut(a, b) \in [1..(b - a) -> Bytes]
  BY <1>3 DEF Cut
<1>5. Cut(a, b) \in Seq(Bytes) /\ Len(Cut(a, b)) = b - a
  BY <1>4, b - a \in Nat, SeqOfFunction
<1>6. SubSeq(Stream, a + 1, b) = Cut(a, b)
  BY <1>1, PartOfSequence DEF Cut
<1>7. a = b => Cut(a, b) = <<>>
  BY <1>5
<1> QED
  BY <1>3, <1>5, <1>6, <1>7

(* A sequence with the bytes of a cut is the cut. *)
LEMMA IsCut ==
  ASSUME NEW a \in Nat, NEW b \in Nat,
         NEW s \in Seq(Bytes), Len(s) = b - a, \A x \in 1..(b - a) : s[x] = Stream[a + x]
  PROVE  s = Cut(a, b)
<1>1. s = [x \in 1..(b - a) |-> s[x]]
  OBVIOUS
<1> QED
  BY <1>1 DEF Cut

(* The head of a packet is found valid, and tells the length of the body. *)
LEMMA HeadOfPacket ==
  ASSUME bodies \in Seq(Nat), NEW p \in Packets, NEW s,
         \A x \in 1..HeadSize : s[x] = Stream[From[p] + x]
  PROVE  ValidHead(s) /\ Length(s) = bodies[p]
<1>1. HeadSize \in Nat /\ HeadSize > 0 /\ TailSize \in Nat
  BY FramingAssumption
<1>2. bodies[p] \in Nat /\ Whole(bodies[p]) = HeadSize + bodies[p] + TailSize
  BY BodiesAreNumbers DEF Whole
<1>3. \A x \in 1..HeadSize : x \in Nat \ {0} /\ x <= Whole(bodies[p])
  BY <1>1, <1>2
<1>4. \A x \in 1..HeadSize : s[x] = <<p, bodies[p], x>>
  BY <1>3, StreamAt
<1>5. s[1] = <<p, bodies[p], 1>>
  BY <1>1, <1>4
<1> QED
  BY <1>4, <1>5 DEF ValidHead, Length

(* The body of a packet, byte by byte. *)
LEMMA BodyIs ==
  ASSUME NEW p \in Nat, NEW n \in Nat
  PROVE  Body(p, n) = [x \in 1..n |-> <<p, n, HeadSize + x>>]
<1>1. HeadSize \in Nat /\ TailSize \in Nat
  BY FramingAssumption
<1> DEFINE whole == Pack(p, n)
           m == HeadSize + n
<1>2. Whole(n) \in Nat /\ m \in Nat /\ HeadSize <= m /\ m <= Whole(n) /\ m - HeadSize = n
  BY <1>1 DEF Whole
<1>3. whole \in [1..Whole(n) -> Bytes]
  BY DEF Pack, Bytes
<1>4. whole \in Seq(Bytes) /\ Len(whole) = Whole(n)
  BY <1>2, <1>3, SeqOfFunction
<1>5. ASSUME NEW x \in 1..n PROVE whole[HeadSize + x] = <<p, n, HeadSize + x>>
  <2>1. HeadSize + x \in 1..Whole(n)
    BY <1>1, <1>2
  <2> QED
    BY <2>1 DEF Pack
<1> HIDE DEF whole, m
<1>6. SubSeq(whole, HeadSize + 1, m) = [x \in 1..(m - HeadSize) |-> whole[HeadSize + x]]
  <2>1. whole \in Seq(Bytes) /\ HeadSize \in Nat /\ m \in Nat /\ HeadSize <= m /\ m <= Len(whole)
    BY <1>1, <1>2, <1>4
  <2> QED
    BY <2>1, PartOfSequence
<1>7. SubSeq(whole, HeadSize + 1, m) = [x \in 1..n |-> <<p, n, HeadSize + x>>]
  BY <1>2, <1>5, <1>6
<1> QED
  BY <1>7 DEF Body, whole, m

(* A sequence with the bytes of a body is the body. *)
LEMMA BodyOfPacket ==
  ASSUME bodies \in Seq(Nat), NEW p \in Packets, NEW s \in Seq(Bytes), Len(s) = bodies[p],
         \A x \in 1..bodies[p] : s[x] = Stream[From[p] + HeadSize + x]
  PROVE  s = Body(p, bodies[p])
<1>1. HeadSize \in Nat /\ HeadSize > 0 /\ TailSize \in Nat
  BY FramingAssumption
<1>2. /\ bodies[p] \in Nat /\ Whole(bodies[p]) \in Nat /\ p \in Nat
      /\ Whole(bodies[p]) = HeadSize + bodies[p] + TailSize
  BY BodiesAreNumbers DEF Whole
<1>3. From[p] \in Nat
  BY FromUnfolds, BodiesAreNumbers DEF Packets, Bounds
<1>4. ASSUME NEW x \in 1..bodies[p] PROVE s[x] = <<p, bodies[p], HeadSize + x>>
  <2>1. HeadSize + x \in Nat \ {0} /\ HeadSize + x <= Whole(bodies[p])
    BY <1>1, <1>2
  <2>2. Stream[From[p] + (HeadSize + x)] = <<p, bodies[p], HeadSize + x>>
    BY <2>1, StreamAt
  <2>3. From[p] + (HeadSize + x) = From[p] + HeadSize + x
    BY <1>1, <1>2, <1>3
  <2> QED
    BY <2>2, <2>3
<1>5. Body(p, bodies[p]) = [x \in 1..bodies[p] |-> <<p, bodies[p], HeadSize + x>>]
  BY <1>2, BodyIs
<1>6. s = [x \in 1..bodies[p] |-> s[x]]
  OBVIOUS
<1> QED
  BY <1>4, <1>5, <1>6

(* What a copy has, inside and beyond its source. *)
LEMMA CopyIs ==
  ASSUME NEW s \in Seq(Bytes), NEW offset \in Int, NEW n \in Nat
  PROVE  /\ Copy(s, offset, n) \in Seq(Bytes) /\ Len(Copy(s, offset, n)) = n
         /\ \A x \in 1..n : offset + x \in 1..Len(s) => Copy(s, offset, n)[x] = s[offset + x]
<1> DEFINE f == Copy(s, offset, n)
<1>1. Stray \in Bytes
  BY DEF Stray, Bytes
<1>2. \A x \in 1..n : f[x] = IF offset + x \in DOMAIN s THEN s[offset + x] ELSE Stray
  BY DEF Copy
<1>3. DOMAIN s = 1..Len(s) /\ \A x \in 1..Len(s) : s[x] \in Bytes
  OBVIOUS
<1>4. f = [x \in 1..n |-> f[x]]
  BY DEF Copy
<1> HIDE DEF f
<1>5. \A x \in 1..n : f[x] \in Bytes /\ (offset + x \in 1..Len(s) => f[x] = s[offset + x])
  BY <1>1, <1>2, <1>3
<1>6. f \in [1..n -> Bytes]
  BY <1>4, <1>5
<1>7. f \in Seq(Bytes) /\ Len(f) = n
  BY <1>6, SeqOfFunction
<1> QED
  BY <1>5, <1>7 DEF f

(* One step of the unpacking in the middle of packet p, which begins at f, *)
(* ends at t and has n bytes of body: g bytes of the input have gone to    *)
(* complete its head, which lies in the buffer now.                        *)
Midway(p, f, t, n, a, b, g, buf) ==
  /\ bodies \in Seq(Nat) /\ p \in Packets /\ a \in Nat /\ b \in Nat
  /\ f = From[p] /\ t = To(p) /\ n = bodies[p]
  /\ a <= b /\ b <= Len(Stream)
  /\ g = 0 \/ g = HeadSize
  /\ f < a /\ f + HeadSize <= b /\ HeadSize <= (a - f) + g
  /\ a <= t \/ a = b
  /\ buf \in Seq(Bytes) /\ Len(buf) = (a - f) + g
  /\ \A x \in 1..Len(buf) : f + x <= b => buf[x] = Stream[f + x]

Sizes(f, t, n, a, b, g) ==
  /\ f \in Nat /\ t \in Nat /\ n \in Nat /\ a \in Nat /\ b \in Nat /\ g \in Nat
  /\ HeadSize \in Nat /\ TailSize \in Nat /\ HeadSize > 0
  /\ t = f + HeadSize + n + TailSize
  /\ a <= b /\ f < a /\ f + HeadSize <= b /\ HeadSize <= (a - f) + g
  /\ g = 0 \/ g = HeadSize
  /\ a <= t \/ a = b

(* The sizes of the parts of packet p add up. *)
LEMMA PacketSizes ==
  ASSUME bodies \in Seq(Nat), NEW p \in Packets
  PROVE  /\ From[p] \in Nat /\ To(p) \in Nat /\ bodies[p] \in Nat /\ p \in Nat
         /\ To(p) = From[p] + HeadSize + bodies[p] + TailSize
         /\ HeadSize \in Nat /\ TailSize \in Nat /\ HeadSize > 0 /\ TailSize > 0
<1>1. HeadSize \in Nat /\ TailSize \in Nat /\ HeadSize > 0 /\ TailSize > 0
  BY FramingAssumption
<1>2. /\ bodies[p] \in Nat /\ Whole(bodies[p]) \in Nat /\ p \in Nat
      /\ Whole(bodies[p]) = HeadSize + bodies[p] + TailSize
  BY BodiesAreNumbers DEF Whole
<1>3. From[p] \in Nat
  <2>1. p \in Bounds
    BY BodiesAreNumbers DEF Packets, Bounds
  <2> QED
    BY <2>1, FromUnfolds
<1> DEFINE f == From[p]
           n == bodies[p]
           w == Whole(bodies[p])
<1>4. To(p) = f + w /\ f \in Nat /\ w \in Nat /\ n \in Nat /\ w = HeadSize + n + TailSize
  BY <1>2, <1>3 DEF To
<1>5. To(p) \in Nat /\ To(p) = f + HeadSize + n + TailSize
  <2> HIDE DEF f, n, w
  <2> QED
    BY <1>1, <1>4
<1> QED
  BY <1>1, <1>2, <1>3, <1>5

(* The same midway, where the head in the buffer is a valid one. *)
LEMMA MidwaySizes ==
  ASSUME NEW p, NEW f, NEW t, NEW n, NEW a, NEW b, NEW g, NEW buf, Midway(p, f, t, n, a, b, g, buf)
  PROVE  /\ Sizes(f, t, n, a, b, g)
         /\ ValidHead(buf) /\ Length(buf) = n
<1>1. bodies \in Seq(Nat) /\ p \in Packets /\ f = From[p] /\ t = To(p) /\ n = bodies[p]
  BY DEF Midway
<1>2. /\ f \in Nat /\ t \in Nat /\ n \in Nat /\ t = f + HeadSize + n + TailSize
      /\ HeadSize \in Nat /\ TailSize \in Nat /\ HeadSize > 0
  BY <1>1, PacketSizes
<1>3. /\ a \in Nat /\ b \in Nat /\ a <= b /\ f < a /\ f + HeadSize <= b /\ HeadSize <= (a - f) + g
      /\ g = 0 \/ g = HeadSize
      /\ a <= t \/ a = b
  BY DEF Midway
<1>4. g \in Nat
  BY <1>2, <1>3
<1>5. \A x \in 1..HeadSize : buf[x] = Stream[f + x]
  <2>1. Len(buf) = (a - f) + g /\ \A x \in 1..Len(buf) : f + x <= b => buf[x] = Stream[f + x]
    BY DEF Midway
  <2>2. \A x \in 1..HeadSize : x \in 1..((a - f) + g) /\ f + x <= b
    BY <1>2, <1>3, <1>4
  <2> QED
    BY <2>1, <2>2
<1>6. ValidHead(buf) /\ Length(buf) = n
  BY <1>1, <1>5, HeadOfPacket
<1> QED
  BY <1>2, <1>3, <1>4, <1>6 DEF Sizes

(* The input midway. *)
LEMMA MidwayInput ==
  ASSUME NEW p, NEW f, NEW t, NEW n, NEW a, NEW b, NEW g, NEW buf, Midway(p, f, t, n, a, b, g, buf)
  PROVE  /\ Cut(a, b) \in Seq(Bytes) /\ Len(Cut(a, b)) = b - a
         /\ \A x \in 1..(b - a) : Cut(a, b)[x] = Stream[a + x]
         /\ a = b <=> Cut(a, b) = <<>>
<1>1. bodies \in Seq(Nat) /\ a \in Nat /\ b \in Nat /\ a <= b /\ b <= Len(Stream)
  BY DEF Midway
<1>2. /\ Cut(a, b) \in Seq(Bytes) /\ Len(Cut(a, b)) = b - a
      /\ \A x \in 1..(b - a) : Cut(a, b)[x] = Stream[a + x]
      /\ a = b => Cut(a, b) = <<>>
  BY <1>1, CutOfStream
<1>3. a # b => Cut(a, b) # <<>>
  BY <1>1, <1>2
<1> QED
  BY <1>2, <1>3

(* Too short a piece for the split head, or more than a packet in the
   buffer without input: the copy faults. *)
LEMMA UnpackMoreFaults ==
  ASSUME NEW p, NEW f, NEW t, NEW n, NEW a, NEW b, NEW g, NEW buf, Midway(p, f, t, n, a, b, g, buf),
         (b - a < g /\ b < t) \/ (a = b /\ b > t)
  PROVE  UnpackMore(Cut(a, b), g, buf) = Answer("fault", buf, <<>>)
<1> DEFINE in == Cut(a, b)
           size == Len(in) - g
           i == Len(buf) - HeadSize
           j == Length(buf) - i
           k == size - j - TailSize
<1>1. Len(buf) = (a - f) + g /\ Len(in) = b - a /\ Length(buf) = n
  <2>1. Len(buf) = (a - f) + g
    BY DEF Midway
  <2>2. Len(in) = b - a
    BY MidwayInput
  <2>3. Length(buf) = n
    BY MidwaySizes
  <2> QED
    BY <2>1, <2>2, <2>3
<1>2. Sizes(f, t, n, a, b, g)
  BY MidwaySizes
<1>3. size = (b - a) - g /\ k = b - t
  <2> HIDE DEF in
  <2> QED
    BY <1>1, <1>2 DEF Sizes
<1>4. (size < 0 /\ k < 0) \/ (in = <<>> /\ k > 0)
  <2>1. (b - a < g /\ b < t) => size < 0 /\ k < 0
    BY <1>2, <1>3 DEF Sizes
  <2>2. (a = b /\ b > t) => in = <<>> /\ k > 0
    <3>1. a = b => in = <<>>
      BY MidwayInput
    <3>2. b > t => k > 0
      BY <1>2, <1>3 DEF Sizes
    <3> QED
      BY <3>1, <3>2
  <2> QED
    BY <2>1, <2>2
<1>5. ValidHead(buf)
  BY MidwaySizes
<1> QED
  BY <1>4, <1>5, Zenon DEF UnpackMore

(* A piece that does not complete the packet is added to the buffer. *)
LEMMA UnpackMoreWaits ==
  ASSUME NEW p, NEW f, NEW t, NEW n, NEW a, NEW b, NEW g, NEW buf, Midway(p, f, t, n, a, b, g, buf),
         b - a >= g, b < t
  PROVE  UnpackMore(Cut(a, b), g, buf) = Answer("incomplete", Cut(f, b), <<>>)
<1> DEFINE in == Cut(a, b)
           size == Len(in) - g
           i == Len(buf) - HeadSize
           j == Length(buf) - i
           k == size - j - TailSize
           rest == Copy(in, g, size)
           all == buf \o rest
<1>1. Len(buf) = (a - f) + g /\ Len(in) = b - a /\ Length(buf) = n /\ in \in Seq(Bytes)
  <2>1. Len(buf) = (a - f) + g
    BY DEF Midway
  <2>2. Len(in) = b - a /\ in \in Seq(Bytes)
    BY MidwayInput
  <2>3. Length(buf) = n
    BY MidwaySizes
  <2> QED
    BY <2>1, <2>2, <2>3
<1>2. Sizes(f, t, n, a, b, g)
  BY MidwaySizes
<1>3. size = (b - a) - g /\ k = b - t /\ size \in Nat /\ k < 0
  <2> HIDE DEF in
  <2> QED
    BY <1>1, <1>2 DEF Sizes
<1>4. ~ ((size < 0 /\ k < 0) \/ (in = <<>> /\ k > 0))
  <2>1. ~ (size < 0) /\ ~ (k > 0)
    <3> HIDE DEF size, k
    <3> QED
      BY <1>3, <1>2 DEF Sizes
  <2> QED
    BY <2>1
<1>5. UnpackMore(in, g, buf) = Answer("incomplete", all, <<>>)
  BY <1>3, <1>4, MidwaySizes, Zenon DEF UnpackMore
<1>6. /\ rest \in Seq(Bytes) /\ Len(rest) = size
      /\ \A x \in 1..size : rest[x] = in[g + x]
  <2>1. \A x \in 1..size : g + x \in 1..Len(in)
    <3> HIDE DEF in
    <3> QED
      BY <1>1, <1>2, <1>3 DEF Sizes
  <2>2. g \in Int /\ size \in Int
    BY <1>2, <1>3 DEF Sizes
  <2> HIDE DEF in, size
  <2>3. /\ Copy(in, g, size) \in Seq(Bytes) /\ Len(Copy(in, g, size)) = size
        /\ \A x \in 1..size : g + x \in 1..Len(in) => Copy(in, g, size)[x] = in[g + x]
    BY <1>1, <1>3, <2>2, CopyIs
  <2> QED
    BY <2>1, <2>3
<1> HIDE DEF in, size, rest, i, j, k
<1>7. \A x \in 1..size : rest[x] = Stream[f + Len(buf) + x]
  <2> SUFFICES ASSUME NEW x \in 1..size PROVE rest[x] = Stream[f + Len(buf) + x]
    OBVIOUS
  <2>1. g + x \in 1..(b - a) /\ a + (g + x) = f + Len(buf) + x
    BY <1>1, <1>2, <1>3 DEF Sizes
  <2>2. in[g + x] = Stream[a + (g + x)]
    BY <2>1, MidwayInput DEF in
  <2> QED
    BY <1>6, <2>1, <2>2
<1>8. Len(buf) \in Nat /\ Len(buf) + size = b - f /\ f \in Nat /\ b \in Nat /\ f <= b
  BY <1>1, <1>2, <1>3 DEF Sizes
<1>9. buf \in Seq(Bytes) /\ \A x \in 1..Len(buf) : f + x <= b => buf[x] = Stream[f + x]
  BY DEF Midway
<1>10. /\ all \in Seq(Bytes) /\ Len(all) = Len(buf) + size
       /\ \A x \in 1..Len(buf) : all[x] = buf[x]
       /\ \A x \in 1..size : all[Len(buf) + x] = rest[x]
  BY <1>3, <1>6, <1>8, <1>9, ConcatProperties
<1> HIDE DEF all
<1>11. ASSUME NEW x \in 1..(b - f) PROVE all[x] = Stream[f + x]
  <2>1. CASE x <= Len(buf)
    <3>1. x \in 1..Len(buf) /\ f + x <= b
      BY <1>8, <2>1
    <3> QED
      BY <1>9, <1>10, <3>1
  <2>2. CASE x > Len(buf)
    <3>1. x - Len(buf) \in 1..size /\ x = Len(buf) + (x - Len(buf)) /\ f + Len(buf) + (x - Len(buf)) = f + x
      BY <1>3, <1>8, <2>2
    <3> QED
      BY <1>7, <1>10, <3>1
  <2> QED
    BY <1>8, <2>1, <2>2
<1>12. all \in Seq(Bytes) /\ Len(all) = b - f
  BY <1>8, <1>10
<1>13. all = Cut(f, b)
  BY <1>8, <1>11, <1>12, IsCut
<1> QED
  BY <1>5, <1>13 DEF in

(* A piece that completes the packet brings its body out, and what is
   beyond it is kept. *)
LEMMA UnpackMoreCompletes ==
  ASSUME NEW p, NEW f, NEW t, NEW n, NEW a, NEW b, NEW g, NEW buf, Midway(p, f, t, n, a, b, g, buf),
         a <= t, t <= b
  PROVE  UnpackMore(Cut(a, b), g, buf) = Answer("ok", Cut(t, b), Body(p, n))
<1> DEFINE in == Cut(a, b)
           size == Len(in) - g
           i == Len(buf) - HeadSize
           j == Length(buf) - i
           k == size - j - TailSize
           kept == Copy(in, g + j + TailSize, k)
           first == Copy(buf, HeadSize, i)
           second == Copy(in, g, j)
           all == Copy(buf, HeadSize, Length(buf))
           out == IF j > 0 THEN first \o second ELSE all
<1>1. /\ Len(buf) = (a - f) + g /\ Len(in) = b - a /\ Length(buf) = n
      /\ in \in Seq(Bytes) /\ buf \in Seq(Bytes)
  <2>1. Len(buf) = (a - f) + g /\ buf \in Seq(Bytes)
    BY DEF Midway
  <2>2. Len(in) = b - a /\ in \in Seq(Bytes)
    BY MidwayInput
  <2>3. Length(buf) = n
    BY MidwaySizes
  <2> QED
    BY <2>1, <2>2, <2>3
<1>2. Sizes(f, t, n, a, b, g)
  BY MidwaySizes
<1>3. /\ size = (b - a) - g /\ i = ((a - f) + g) - HeadSize /\ j = n - i /\ k = b - t
      /\ i \in Nat /\ j \in Int /\ k \in Nat /\ g + j + TailSize = t - a /\ t - a \in Nat
      /\ g + j <= b - a
  <2> HIDE DEF in
  <2> QED
    BY <1>1, <1>2 DEF Sizes
<1>4. ~ ((size < 0 /\ k < 0) \/ (in = <<>> /\ k > 0)) /\ ~ (k < 0)
  <2>1. in = <<>> => a = b
    BY MidwayInput
  <2>2. a = b => ~ (k > 0)
    BY <1>2, <1>3 DEF Sizes
  <2>3. ~ (k < 0)
    BY <1>3
  <2> QED
    BY <2>1, <2>2, <2>3
<1>5. UnpackMore(in, g, buf) = Answer("ok", kept, out)
  <2>1. ValidHead(buf)
    BY MidwaySizes
  <2> QED
    BY <1>4, <2>1, Zenon DEF UnpackMore
<1>6. /\ bodies \in Seq(Nat) /\ b <= Len(Stream) /\ p \in Packets /\ f = From[p] /\ n = bodies[p]
      /\ \A x \in 1..Len(buf) : f + x <= b => buf[x] = Stream[f + x]
  BY DEF Midway
<1>7. \A x \in 1..(b - a) : in[x] = Stream[a + x]
  BY MidwayInput
<1> HIDE DEF in, size, i, j, k
<1>8. kept = Cut(t, b)
  <2>1. /\ kept \in Seq(Bytes) /\ Len(kept) = k
        /\ \A x \in 1..k : (t - a) + x \in 1..(b - a) => kept[x] = in[(t - a) + x]
    <3>1. kept = Copy(in, t - a, k) /\ t - a \in Int
      BY <1>3
    <3> HIDE DEF kept
    <3> QED
      BY <1>1, <1>3, <3>1, CopyIs
  <2> HIDE DEF kept
  <2>2. ASSUME NEW x \in 1..(b - t) PROVE kept[x] = Stream[t + x]
    <3>1. (t - a) + x \in 1..(b - a) /\ a + ((t - a) + x) = t + x /\ x \in 1..k
      BY <1>2, <1>3 DEF Sizes
    <3> QED
      BY <1>7, <2>1, <3>1
  <2>3. t \in Nat /\ b \in Nat /\ kept \in Seq(Bytes) /\ Len(kept) = b - t
    BY <1>2, <1>3, <2>1 DEF Sizes
  <2> QED
    BY <2>2, <2>3, IsCut
<1>9. \A x \in 1..n : HeadSize + x \in 1..Len(buf) => buf[HeadSize + x] = Stream[f + HeadSize + x]
  <2> SUFFICES ASSUME NEW x \in 1..n, HeadSize + x \in 1..Len(buf)
               PROVE  buf[HeadSize + x] = Stream[f + HeadSize + x]
    OBVIOUS
  <2>1. f + (HeadSize + x) = f + HeadSize + x /\ f + (HeadSize + x) <= b
    BY <1>2 DEF Sizes
  <2> QED
    BY <1>6, <2>1
<1>10. CASE j > 0
  <2>1. /\ first \in Seq(Bytes) /\ Len(first) = i
        /\ \A x \in 1..i : HeadSize + x \in 1..Len(buf) => first[x] = buf[HeadSize + x]
    <3>1. HeadSize \in Int /\ i \in Int
      BY <1>2, <1>3 DEF Sizes
    <3> QED
      BY <1>1, <1>3, <3>1, CopyIs
  <2>2. /\ second \in Seq(Bytes) /\ Len(second) = j
        /\ \A x \in 1..j : g + x \in 1..Len(in) => second[x] = in[g + x]
    <3>1. g \in Int /\ j \in Int /\ j \in Nat
      BY <1>2, <1>3, <1>10 DEF Sizes
    <3> QED
      BY <1>1, <3>1, CopyIs
  <2> HIDE DEF first, second
  <2>3. /\ first \o second \in Seq(Bytes) /\ Len(first \o second) = i + j
        /\ \A x \in 1..(i + j) : (first \o second)[x] = IF x <= i THEN first[x] ELSE second[x - i]
    BY <2>1, <2>2, ConcatProperties
  <2>4. i + j = n /\ n \in Nat
    BY <1>2, <1>3 DEF Sizes
  <2>5. ASSUME NEW x \in 1..n PROVE out[x] = Stream[f + HeadSize + x]
    <3>1. out[x] = IF x <= i THEN first[x] ELSE second[x - i]
      BY <1>10, <2>3, <2>4
    <3>2. CASE x <= i
      <4>1. x \in 1..i /\ HeadSize + x \in 1..Len(buf)
        BY <1>1, <1>2, <1>3, <3>2 DEF Sizes
      <4> QED
        BY <1>9, <2>1, <3>1, <3>2, <4>1
    <3>3. CASE ~ (x <= i)
      <4>1. /\ x - i \in 1..j /\ g + (x - i) \in 1..(b - a)
            /\ a + (g + (x - i)) = f + HeadSize + x
        BY <1>2, <1>3, <3>3 DEF Sizes
      <4>2. second[x - i] = in[g + (x - i)]
        BY <1>1, <2>2, <4>1
      <4> QED
        BY <1>7, <3>1, <3>3, <4>1, <4>2
    <3> QED
      BY <3>2, <3>3
  <2>6. out \in Seq(Bytes) /\ Len(out) = n
    <3>1. out = first \o second
      BY <1>10
    <3> HIDE DEF out
    <3> QED
      BY <2>3, <2>4, <3>1
  <2> HIDE DEF out
  <2>7. out = Body(p, n)
    BY <1>6, <2>5, <2>6, BodyOfPacket
  <2> QED
    BY <1>5, <1>8, <2>7 DEF in
<1>11. CASE ~ (j > 0)
  <2>1. /\ all \in Seq(Bytes) /\ Len(all) = n
        /\ \A x \in 1..n : HeadSize + x \in 1..Len(buf) => all[x] = buf[HeadSize + x]
    <3>1. HeadSize \in Int /\ n \in Nat
      BY <1>2 DEF Sizes
    <3> QED
      BY <1>1, <3>1, CopyIs
  <2> HIDE DEF all
  <2>2. ASSUME NEW x \in 1..n PROVE all[x] = Stream[f + HeadSize + x]
    <3>1. HeadSize + x \in 1..Len(buf)
      BY <1>1, <1>2, <1>3, <1>11 DEF Sizes
    <3> QED
      BY <1>9, <2>1, <3>1
  <2>3. all = Body(p, n)
    BY <1>6, <2>1, <2>2, BodyOfPacket
  <2> QED
    BY <1>5, <1>8, <1>11, <2>3 DEF in
<1> QED
  BY <1>10, <1>11

(* The receiver is at packet p: its bytes up to a are in the buffer, those *)
(* up to b come in.                                                        *)
InPacket(p, f, t, n, a, b) ==
  /\ bodies \in Seq(Nat) /\ p \in Packets /\ a \in Nat /\ b \in Nat
  /\ f = From[p] /\ t = To(p) /\ n = bodies[p]
  /\ f <= a /\ a <= b /\ b <= Len(Stream)
  /\ a <= t \/ a = b

(* The input that the unpacking does not survive there. *)
Hurts(f, t, a, b) ==
  \/ a = f /\ b > t
  \/ f < a /\ a < f + HeadSize /\ b > f + HeadSize /\ b - a < HeadSize /\ b < t
  \/ a = b /\ b > t

(* What is in the buffer is no beginning of a packet, and never will be.   *)
Lost(buf) == buf \in Seq(Bytes) /\ buf # <<>> /\ buf[1][3] # 1

(* The sizes there. *)
LEMMA InPacketSizes ==
  ASSUME NEW p, NEW f, NEW t, NEW n, NEW a, NEW b, InPacket(p, f, t, n, a, b)
  PROVE  /\ f \in Nat /\ t \in Nat /\ n \in Nat /\ a \in Nat /\ b \in Nat
         /\ HeadSize \in Nat /\ TailSize \in Nat /\ HeadSize > 0 /\ TailSize > 0
         /\ t = f + HeadSize + n + TailSize
         /\ f <= a /\ a <= b /\ (a <= t \/ a = b)
BY PacketSizes DEF InPacket

(* The buffer and the input there. *)
LEMMA InPacketCuts ==
  ASSUME NEW p, NEW f, NEW t, NEW n, NEW a, NEW b, InPacket(p, f, t, n, a, b)
  PROVE  /\ Cut(f, a) \in Seq(Bytes) /\ Len(Cut(f, a)) = a - f
         /\ Cut(a, b) \in Seq(Bytes) /\ Len(Cut(a, b)) = b - a
         /\ \A x \in 1..(a - f) : Cut(f, a)[x] = Stream[f + x]
         /\ \A x \in 1..(b - a) : Cut(a, b)[x] = Stream[a + x]
<1>1. bodies \in Seq(Nat) /\ a \in Nat /\ b \in Nat /\ f \in Nat /\ f <= a /\ a <= b /\ b <= Len(Stream)
  BY InPacketSizes DEF InPacket
<1>2. Stream \in Seq(Bytes)
  BY <1>1, StreamAt
<1>3. a <= Len(Stream)
  BY <1>1, <1>2
<1>4. /\ Cut(f, a) \in Seq(Bytes) /\ Len(Cut(f, a)) = a - f
      /\ \A x \in 1..(a - f) : Cut(f, a)[x] = Stream[f + x]
  BY <1>1, <1>3, CutOfStream
<1>5. /\ Cut(a, b) \in Seq(Bytes) /\ Len(Cut(a, b)) = b - a
      /\ \A x \in 1..(b - a) : Cut(a, b)[x] = Stream[a + x]
  BY <1>1, CutOfStream
<1> QED
  BY <1>4, <1>5

(* With an empty buffer. *)
LEMMA UnpackFirstAligned ==
  ASSUME NEW p, NEW f, NEW t, NEW n, NEW b, InPacket(p, f, t, n, f, b)
  PROVE  /\ b < t => UnpackFirst(Cut(f, b)) = Answer("incomplete", Cut(f, b), <<>>)
         /\ b = t => UnpackFirst(Cut(f, b)) = Answer("ok", <<>>, Body(p, n))
         /\ b > t => \E left, out : UnpackFirst(Cut(f, b)) = Answer("ok", left, out) /\ Lost(left)
<1> DEFINE in == Cut(f, b)
<1>1. /\ f \in Nat /\ t \in Nat /\ n \in Nat /\ b \in Nat
      /\ HeadSize \in Nat /\ TailSize \in Nat /\ HeadSize > 0 /\ TailSize > 0
      /\ t = f + HeadSize + n + TailSize /\ f <= b
  BY InPacketSizes
<1>2. in \in Seq(Bytes) /\ Len(in) = b - f /\ \A x \in 1..(b - f) : in[x] = Stream[f + x]
  BY InPacketCuts
<1>3. bodies \in Seq(Nat) /\ p \in Packets /\ f = From[p] /\ n = bodies[p] /\ t = To(p)
  BY DEF InPacket
<1> HIDE DEF in
<1>4. CASE b - f < HeadSize
  <2>1. b < t
    BY <1>1, <1>4
  <2>2. UnpackFirst(in) = Answer("incomplete", in, <<>>)
    BY <1>2, <1>4 DEF UnpackFirst
  <2> QED
    BY <1>1, <2>1, <2>2 DEF in
<1>5. CASE ~ (b - f < HeadSize)
  <2>1. ValidHead(in) /\ Length(in) = n
    <3>1. \A x \in 1..HeadSize : in[x] = Stream[From[p] + x]
      <4>1. \A x \in 1..HeadSize : x \in 1..(b - f)
        BY <1>1, <1>5
      <4> QED
        BY <1>2, <1>3, <4>1
    <3> QED
      BY <1>3, <3>1, HeadOfPacket
  <2>2. Whole(Length(in)) = t - f
    BY <1>1, <2>1 DEF Whole
  <2>3. ASSUME b < t PROVE UnpackFirst(in) = Answer("incomplete", in, <<>>)
    <3>1. Len(in) < Whole(Length(in))
      BY <1>1, <1>2, <2>2, <2>3
    <3> QED
      BY <1>2, <1>5, <2>1, <3>1 DEF UnpackFirst
  <2> DEFINE out == SubSeq(in, HeadSize + 1, HeadSize + n)
             left == SubSeq(in, HeadSize + n + 1, Len(in))
  <2>4. ASSUME b = t PROVE UnpackFirst(in) = Answer("ok", <<>>, out)
    <3>1. Len(in) = Whole(Length(in)) /\ ~ (Len(in) < Whole(Length(in)))
      BY <1>1, <1>2, <2>2, <2>4
    <3> QED
      BY <1>2, <1>5, <2>1, <3>1 DEF UnpackFirst
  <2>5. ASSUME b > t PROVE UnpackFirst(in) = Answer("ok", left, out)
    <3>1. Len(in) # Whole(Length(in)) /\ ~ (Len(in) < Whole(Length(in)))
      BY <1>1, <1>2, <2>2, <2>5
    <3> QED
      BY <1>2, <1>5, <2>1, <3>1 DEF UnpackFirst
  <2>6. ASSUME b >= t PROVE out = Body(p, n)
    <3> DEFINE m == HeadSize + n
    <3>1. m \in Nat /\ HeadSize <= m /\ m <= Len(in) /\ m - HeadSize = n
      BY <1>1, <1>2, <2>6
    <3> HIDE DEF m
    <3>2. SubSeq(in, HeadSize + 1, m) = [x \in 1..(m - HeadSize) |-> in[HeadSize + x]]
      BY <1>1, <1>2, <3>1, PartOfSequence
    <3>3. out = [x \in 1..n |-> in[HeadSize + x]]
      BY <3>1, <3>2 DEF m
    <3>4. ASSUME NEW x \in 1..n
          PROVE  in[HeadSize + x] = Stream[f + HeadSize + x] /\ in[HeadSize + x] \in Bytes
      <4>1. HeadSize + x \in 1..(b - f) /\ f + (HeadSize + x) = f + HeadSize + x
        BY <1>1, <2>6
      <4> QED
        BY <1>2, <4>1
    <3> HIDE DEF out
    <3>5. out \in [1..n -> Bytes] /\ \A x \in 1..n : out[x] = Stream[f + HeadSize + x]
      BY <3>3, <3>4
    <3>6. out \in Seq(Bytes) /\ Len(out) = n
      BY <1>1, <3>5, SeqOfFunction
    <3> QED
      BY <1>3, <3>5, <3>6, BodyOfPacket
  <2>7. ASSUME b > t PROVE Lost(left)
    <3>1. HeadSize + n + 1 \in 1..Len(in) /\ Len(in) \in Nat
      BY <1>1, <1>2, <2>7
    <3>2. left \in Seq(Bytes) /\ Len(left) = Len(in) - (HeadSize + n) /\ left # <<>>
      BY <1>1, <1>2, <3>1
    <3>3. left[1] = in[HeadSize + n + 1]
      BY <1>1, <1>2, <3>1
    <3>4. /\ HeadSize + n + 1 \in 1..(b - f) /\ HeadSize + n + 1 \in Nat \ {0}
          /\ HeadSize + n + 1 <= Whole(bodies[p]) /\ HeadSize + n + 1 # 1
      <4>1. HeadSize + n + 1 <= Whole(n)
        BY <1>1 DEF Whole
      <4>2. /\ HeadSize + n + 1 \in 1..(b - f) /\ HeadSize + n + 1 \in Nat \ {0}
            /\ HeadSize + n + 1 # 1
        BY <1>1, <1>2, <3>1
      <4> QED
        BY <1>3, <4>1, <4>2
    <3>5. in[HeadSize + n + 1] = Stream[From[p] + (HeadSize + n + 1)]
      BY <1>2, <1>3, <3>4
    <3>6. Stream[From[p] + (HeadSize + n + 1)] = <<p, bodies[p], HeadSize + n + 1>>
      BY <1>3, <3>4, StreamAt
    <3>7. left[1][3] = HeadSize + n + 1
      <4>1. left[1] = <<p, bodies[p], HeadSize + n + 1>>
        BY <3>3, <3>5, <3>6
      <4> HIDE DEF left
      <4> QED
        BY <4>1
    <3> QED
      BY <3>2, <3>4, <3>7 DEF Lost
  <2> HIDE DEF out, left
  <2>8. b = t => b >= t
    BY <1>1
  <2> QED
    BY <2>3, <2>4, <2>5, <2>6, <2>7, <2>8 DEF in
<1> QED
  BY <1>4, <1>5

(* With a head in the buffer, after g bytes of the input went there. *)
LEMMA UnpackMoreAligned ==
  ASSUME NEW p, NEW f, NEW t, NEW n, NEW a, NEW b, NEW g, NEW buf, Midway(p, f, t, n, a, b, g, buf)
  PROVE  LET bad == (b - a < g /\ b < t) \/ (a = b /\ b > t)
         IN /\ bad => UnpackMore(Cut(a, b), g, buf) = Answer("fault", buf, <<>>)
            /\ ~bad /\ b < t => UnpackMore(Cut(a, b), g, buf) = Answer("incomplete", Cut(f, b), <<>>)
            /\ ~bad /\ b >= t => UnpackMore(Cut(a, b), g, buf) = Answer("ok", Cut(t, b), Body(p, n))
<1>1. Sizes(f, t, n, a, b, g)
  BY MidwaySizes
<1> DEFINE bad == (b - a < g /\ b < t) \/ (a = b /\ b > t)
<1>2. bad => UnpackMore(Cut(a, b), g, buf) = Answer("fault", buf, <<>>)
  BY UnpackMoreFaults
<1>3. ASSUME ~bad, b < t PROVE UnpackMore(Cut(a, b), g, buf) = Answer("incomplete", Cut(f, b), <<>>)
  <2>1. b - a >= g
    BY <1>1, <1>3 DEF Sizes
  <2> QED
    BY <1>3, <2>1, UnpackMoreWaits
<1>4. ASSUME ~bad, b >= t PROVE UnpackMore(Cut(a, b), g, buf) = Answer("ok", Cut(t, b), Body(p, n))
  <2>1. a <= t /\ t <= b
    BY <1>1, <1>4 DEF Sizes
  <2> QED
    BY <2>1, UnpackMoreCompletes
<1> QED
  BY <1>2, <1>3, <1>4

(* What comes of a piece that does not hurt, and of one that does. *)
LEMMA UnpackAligned ==
  ASSUME NEW p, NEW f, NEW t, NEW n, NEW a, NEW b, InPacket(p, f, t, n, a, b)
  PROVE  /\ ~ Hurts(f, t, a, b) /\ b < t
              => Unpack(Cut(a, b), Cut(f, a)) = Answer("incomplete", Cut(f, b), <<>>)
         /\ ~ Hurts(f, t, a, b) /\ b >= t
              => Unpack(Cut(a, b), Cut(f, a)) = Answer("ok", Cut(t, b), Body(p, n))
         /\ Hurts(f, t, a, b)
              => \E st, left, out :
                   /\ Unpack(Cut(a, b), Cut(f, a)) = Answer(st, left, out)
                   /\ left \in Seq(Bytes) /\ left # <<>>
                   /\ st = "fault" \/ (st = "ok" /\ Lost(left))
<1> DEFINE in == Cut(a, b)
           buf == Cut(f, a)
<1>1. /\ f \in Nat /\ t \in Nat /\ n \in Nat /\ a \in Nat /\ b \in Nat
      /\ HeadSize \in Nat /\ TailSize \in Nat /\ HeadSize > 0 /\ TailSize > 0
      /\ t = f + HeadSize + n + TailSize
      /\ f <= a /\ a <= b /\ (a <= t \/ a = b)
  BY InPacketSizes
<1>2. /\ buf \in Seq(Bytes) /\ Len(buf) = a - f
      /\ in \in Seq(Bytes) /\ Len(in) = b - a
      /\ \A x \in 1..(a - f) : buf[x] = Stream[f + x]
      /\ \A x \in 1..(b - a) : in[x] = Stream[a + x]
  BY InPacketCuts
<1>3. bodies \in Seq(Nat) /\ p \in Packets /\ f = From[p] /\ n = bodies[p] /\ t = To(p) /\ b <= Len(Stream)
  BY DEF InPacket
<1>4. b = t => Cut(t, b) = <<>>
  BY <1>1, <1>3, CutOfStream
<1> HIDE DEF in, buf
<1>5. CASE a = f
  <2>1. buf = <<>>
    BY <1>1, <1>2, <1>5
  <2>2. Unpack(in, buf) = UnpackFirst(in)
    BY <2>1 DEF Unpack
  <2>3. /\ b < t => UnpackFirst(Cut(f, b)) = Answer("incomplete", Cut(f, b), <<>>)
        /\ b = t => UnpackFirst(Cut(f, b)) = Answer("ok", <<>>, Body(p, n))
        /\ b > t => \E left, out : UnpackFirst(Cut(f, b)) = Answer("ok", left, out) /\ Lost(left)
    BY <1>5, UnpackFirstAligned
  <2>4. Hurts(f, t, a, b) <=> b > t
    BY <1>1, <1>5 DEF Hurts
  <2>5. ASSUME b > t
        PROVE  \E st, left, out :
                 /\ Unpack(in, buf) = Answer(st, left, out)
                 /\ left \in Seq(Bytes) /\ left # <<>>
                 /\ st = "fault" \/ (st = "ok" /\ Lost(left))
    <3>1. PICK left, out : UnpackFirst(Cut(f, b)) = Answer("ok", left, out) /\ Lost(left)
      BY <2>3, <2>5
    <3> QED
      BY <1>5, <2>2, <3>1 DEF Lost, in
  <2>6. b < t => Unpack(in, buf) = Answer("incomplete", Cut(f, b), <<>>)
    BY <1>5, <2>2, <2>3 DEF in
  <2>7. b = t => Unpack(in, buf) = Answer("ok", Cut(t, b), Body(p, n))
    BY <1>4, <1>5, <2>2, <2>3 DEF in
  <2>8. ~ (b > t) /\ b >= t => b = t
    BY <1>1
  <2> QED
    BY <2>4, <2>5, <2>6, <2>7, <2>8 DEF in, buf
<1>6. CASE a # f /\ a - f >= HeadSize
  <2>1. buf # <<>> /\ Len(buf) >= HeadSize
    BY <1>1, <1>2, <1>6
  <2>2. Unpack(in, buf) = UnpackMore(in, 0, buf)
    BY <2>1, Zenon DEF Unpack
  <2>3. Midway(p, f, t, n, a, b, 0, buf)
    <3>1. f < a /\ f + HeadSize <= b /\ HeadSize <= (a - f) + 0 /\ Len(buf) = (a - f) + 0
      BY <1>1, <1>2, <1>6
    <3>2. \A x \in 1..Len(buf) : f + x <= b => buf[x] = Stream[f + x]
      BY <1>2
    <3> QED
      BY <1>1, <1>2, <1>3, <3>1, <3>2 DEF Midway
  <2>4. /\ Hurts(f, t, a, b) <=> (a = b /\ b > t)
        /\ (b - a < 0 /\ b < t) \/ (a = b /\ b > t) <=> (a = b /\ b > t)
    BY <1>1, <1>6 DEF Hurts
  <2>5. /\ (a = b /\ b > t) => Unpack(in, buf) = Answer("fault", buf, <<>>)
        /\ ~ (a = b /\ b > t) /\ b < t => Unpack(in, buf) = Answer("incomplete", Cut(f, b), <<>>)
        /\ ~ (a = b /\ b > t) /\ b >= t => Unpack(in, buf) = Answer("ok", Cut(t, b), Body(p, n))
    BY <2>2, <2>3, <2>4, UnpackMoreAligned DEF in
  <2> QED
    BY <1>2, <2>1, <2>4, <2>5 DEF in, buf
<1>7. CASE a # f /\ ~ (a - f >= HeadSize) /\ b - f <= HeadSize
  <2>1. buf # <<>> /\ ~ (Len(buf) >= HeadSize) /\ Len(in) + Len(buf) <= HeadSize
    BY <1>1, <1>2, <1>7
  <2>2. Unpack(in, buf) = Answer("incomplete", buf \o in, <<>>)
    BY <2>1, Zenon DEF Unpack
  <2>3. ~ Hurts(f, t, a, b) /\ b < t /\ ~ (b >= t)
    BY <1>1, <1>7 DEF Hurts
  <2>4. buf \o in = Cut(f, b)
    <3>1. /\ buf \o in \in Seq(Bytes) /\ Len(buf \o in) = Len(buf) + Len(in)
          /\ \A x \in 1..(Len(buf) + Len(in)) :
               (buf \o in)[x] = IF x <= Len(buf) THEN buf[x] ELSE in[x - Len(buf)]
      BY <1>2, ConcatProperties
    <3>2. Len(buf) + Len(in) = b - f
      BY <1>1, <1>2
    <3>3. ASSUME NEW x \in 1..(b - f) PROVE (buf \o in)[x] = Stream[f + x]
      <4>1. CASE x <= a - f
        <5>1. x \in 1..(a - f)
          BY <1>1, <4>1
        <5> QED
          BY <1>2, <3>1, <3>2, <4>1, <5>1
      <4>2. CASE ~ (x <= a - f)
        <5>1. x - (a - f) \in 1..(b - a) /\ a + (x - (a - f)) = f + x
          BY <1>1, <4>2
        <5> QED
          BY <1>2, <3>1, <3>2, <4>2, <5>1
      <4> QED
        BY <4>1, <4>2
    <3> DEFINE all == buf \o in
    <3>4. all \in Seq(Bytes) /\ Len(all) = b - f
      BY <3>1, <3>2
    <3> HIDE DEF all
    <3> QED
      BY <1>1, <3>3, <3>4, IsCut DEF all
  <2> QED
    BY <2>2, <2>3, <2>4, Zenon DEF in, buf
<1>8. CASE a # f /\ ~ (a - f >= HeadSize) /\ ~ (b - f <= HeadSize)
  <2> DEFINE more == Copy(in, 0, HeadSize)
             full == buf \o more
  <2>1. buf # <<>> /\ ~ (Len(buf) >= HeadSize) /\ ~ (Len(in) + Len(buf) <= HeadSize)
    BY <1>1, <1>2, <1>8
  <2>2. Unpack(in, buf) = UnpackMore(in, HeadSize, full)
    BY <2>1, Zenon DEF Unpack
  <2>3. /\ more \in Seq(Bytes) /\ Len(more) = HeadSize
        /\ \A x \in 1..HeadSize : 0 + x \in 1..Len(in) => more[x] = in[0 + x]
    <3>1. in \in Seq(Bytes) /\ 0 \in Int /\ HeadSize \in Nat
      BY <1>1, <1>2
    <3> QED
      BY <3>1, CopyIs, Zenon
  <2> HIDE DEF more
  <2>4. /\ full \in Seq(Bytes) /\ Len(full) = (a - f) + HeadSize
        /\ \A x \in 1..((a - f) + HeadSize) :
             full[x] = IF x <= a - f THEN buf[x] ELSE more[x - (a - f)]
    <3>1. buf \in Seq(Bytes) /\ more \in Seq(Bytes) /\ Len(buf) = a - f /\ Len(more) = HeadSize
      BY <1>2, <2>3
    <3>2. /\ buf \o more \in Seq(Bytes) /\ Len(buf \o more) = Len(buf) + Len(more)
          /\ \A x \in 1..(Len(buf) + Len(more)) :
               (buf \o more)[x] = IF x <= Len(buf) THEN buf[x] ELSE more[x - Len(buf)]
      BY <3>1, ConcatProperties
    <3> QED
      BY <3>1, <3>2
  <2> HIDE DEF full
  <2>5. ASSUME NEW x \in 1..((a - f) + HeadSize), f + x <= b PROVE full[x] = Stream[f + x]
    <3>1. CASE x <= a - f
      <4>1. x \in 1..(a - f)
        BY <1>1, <3>1
      <4> QED
        BY <1>2, <2>4, <3>1, <4>1
    <3>2. CASE ~ (x <= a - f)
      <4>1. /\ x - (a - f) \in 1..HeadSize /\ x - (a - f) \in 1..(b - a) /\ a + (x - (a - f)) = f + x
            /\ 0 + (x - (a - f)) = x - (a - f)
        BY <1>1, <2>5, <3>2
      <4>2. more[x - (a - f)] = in[x - (a - f)]
        BY <1>2, <2>3, <4>1
      <4> QED
        BY <1>2, <2>4, <3>2, <4>1, <4>2
    <3> QED
      BY <3>1, <3>2
  <2>6. Midway(p, f, t, n, a, b, HeadSize, full)
    <3>1. f < a /\ f + HeadSize <= b /\ HeadSize <= (a - f) + HeadSize
      BY <1>1, <1>8
    <3> QED
      BY <1>1, <1>3, <2>4, <2>5, <3>1 DEF Midway
  <2>7. Hurts(f, t, a, b) <=> (b - a < HeadSize /\ b < t) \/ (a = b /\ b > t)
    BY <1>1, <1>8 DEF Hurts
  <2>8. /\ Hurts(f, t, a, b) => Unpack(in, buf) = Answer("fault", full, <<>>)
        /\ ~ Hurts(f, t, a, b) /\ b < t => Unpack(in, buf) = Answer("incomplete", Cut(f, b), <<>>)
        /\ ~ Hurts(f, t, a, b) /\ b >= t => Unpack(in, buf) = Answer("ok", Cut(t, b), Body(p, n))
    BY <2>2, <2>6, <2>7, UnpackMoreAligned DEF in
  <2>9. full # <<>>
    BY <1>1, <1>8, <2>4
  <2> QED
    BY <2>4, <2>8, <2>9 DEF in, buf
<1> QED
  BY <1>5, <1>6, <1>7, <1>8

(* Bytes that are no head never become one: they are added to, or garbage. *)
LEMMA LostStaysLost ==
  ASSUME NEW in \in Seq(Bytes), NEW buf, Lost(buf)
  PROVE  \E st, left : /\ Unpack(in, buf) = Answer(st, left, <<>>)
                       /\ st \in {"garbage", "incomplete"} /\ Lost(left)
<1>1. buf \in Seq(Bytes) /\ buf # <<>> /\ buf[1][3] # 1 /\ Len(buf) \in Nat /\ Len(buf) >= 1 /\ Len(in) \in Nat
  BY DEF Lost
<1>2. HeadSize \in Nat /\ HeadSize > 0 /\ 1 \in 1..HeadSize
  BY FramingAssumption
<1>3. ASSUME NEW s, s[1] = buf[1] PROVE ~ ValidHead(s)
  <2>1. ValidHead(s) => s[1] = <<s[1][1], s[1][2], 1>>
    BY <1>2 DEF ValidHead
  <2>2. s[1] = <<s[1][1], s[1][2], 1>> => s[1][3] = 1
    OBVIOUS
  <2> QED
    BY <1>1, <1>3, <2>1, <2>2
<1>4. ASSUME NEW s, NEW at, s[1] = buf[1] PROVE UnpackMore(in, at, s) = Answer("garbage", s, <<>>)
  BY <1>3, <1>4, Zenon DEF UnpackMore
<1>5. ASSUME NEW more \in Seq(Bytes) PROVE Lost(buf \o more) /\ (buf \o more)[1] = buf[1]
  <2>1. buf \o more \in Seq(Bytes) /\ Len(buf \o more) = Len(buf) + Len(more) /\ (buf \o more)[1] = buf[1]
    BY <1>1, ConcatProperties
  <2>2. buf \o more # <<>>
    BY <1>1, <2>1
  <2> QED
    BY <1>1, <2>1, <2>2 DEF Lost
<1>6. CASE Len(buf) >= HeadSize
  <2>1. Unpack(in, buf) = UnpackMore(in, 0, buf)
    BY <1>1, <1>6, Zenon DEF Unpack
  <2> QED
    BY <1>4, <2>1
<1>7. CASE ~ (Len(buf) >= HeadSize) /\ Len(in) + Len(buf) <= HeadSize
  <2>1. Unpack(in, buf) = Answer("incomplete", buf \o in, <<>>)
    BY <1>1, <1>7, Zenon DEF Unpack
  <2> QED
    BY <1>5, <2>1
<1>8. CASE ~ (Len(buf) >= HeadSize) /\ ~ (Len(in) + Len(buf) <= HeadSize)
  <2> DEFINE more == Copy(in, 0, HeadSize)
  <2>1. Unpack(in, buf) = UnpackMore(in, HeadSize, buf \o more)
    BY <1>1, <1>8, Zenon DEF Unpack
  <2>2. more \in Seq(Bytes)
    <3>1. 0 \in Int
      OBVIOUS
    <3> QED
      BY <1>2, <3>1, CopyIs
  <2> HIDE DEF more
  <2> QED
    BY <1>4, <1>5, <2>1, <2>2
<1> QED
  BY <1>6, <1>7, <1>8

-----------------------------------------------------------------------------
(* The inductive invariant.  As long as the pieces are kind the receiver   *)
(* is at a packet p: all before it came out, and its bytes are the buffer. *)
(* After an unkind piece the buffer has no head it could go on with, or a  *)
(* packet comes out once more and leaves more than a whole one behind.     *)
AtPacket(p) ==
  /\ From[p] <= arrived /\ rx.buf = Cut(From[p], arrived)
  /\ rx.got = [q \in 1..(p - 1) |-> Body(q, bodies[q])]
  /\ \/ rx.st = "incomplete" /\ (p \in Packets => arrived < To(p))
     \/ rx.st = "ok" /\ (p \in Packets => arrived <= To(p))

Overfull ==
  \E p \in Packets : From[p] <= arrived /\ rx.buf = Cut(From[p], arrived) /\ arrived > To(p)

Broken ==
  \/ rx.st \in {"garbage", "fault"} /\ rx.buf \in Seq(Bytes) /\ rx.buf # <<>>
  \/ rx.st \in {"incomplete", "ok"} /\ Lost(rx.buf)
  \/ rx.st = "ok" /\ Overfull

FramingInv ==
  /\ bodies \in Seq(Nat) /\ arrived \in Nat /\ arrived <= Len(Stream) /\ kind \in BOOLEAN
  /\ bodies = <<>> => rx = Start /\ kind = TRUE
  /\ kind => \E p \in Bounds : AtPacket(p)
  /\ ~kind => Broken

(* The invariant holds until a byte arrives, whatever the peer sends. *)
LEMMA BeforeTheFirstByte ==
  bodies \in Seq(Nat) /\ arrived = 0 /\ rx = Start /\ kind = TRUE => FramingInv
<1> SUFFICES ASSUME bodies \in Seq(Nat), arrived = 0, rx = Start, kind = TRUE PROVE FramingInv
  OBVIOUS
<1>1. From[1] = 0 /\ 1 \in Bounds
  BY FromUnfolds DEF Bounds
<1>2. Len(Stream) \in Nat
  BY StreamAt
<1>3. Cut(From[1], arrived) = <<>>
  BY <1>1, <1>2, CutOfStream
<1>4. 1 \in Packets => arrived < To(1)
  BY <1>1, PacketSizes
<1>5. AtPacket(1)
  <2>1. rx.st = "incomplete" /\ rx.buf = <<>> /\ rx.got = <<>>
    BY DEF Start
  <2>2. [q \in 1..(1 - 1) |-> Body(q, bodies[q])] = <<>>
    OBVIOUS
  <2> QED
    BY <1>1, <1>3, <1>4, <2>1, <2>2 DEF AtPacket
<1> QED
  BY <1>1, <1>2, <1>5 DEF FramingInv

(* The same after a step. *)
LEMMA BeforeTheFirstByteNext ==
  (bodies \in Seq(Nat) /\ arrived = 0 /\ rx = Start /\ kind = TRUE)' => FramingInv'
BY BeforeTheFirstByte, PTL

(* What depends on the bodies alone. *)
LEMMA SameStream ==
  ASSUME bodies' = bodies
  PROVE  /\ From' = From /\ Stream' = Stream /\ Packets' = Packets /\ Bounds' = Bounds
         /\ \A p : To(p)' = To(p)
         /\ \A a, b : Cut(a, b)' = Cut(a, b)
<1>1. From' = From
  BY Zenon DEF From, Whole
<1>2. \A p : To(p)' = To(p)
  BY <1>1 DEF To
<1>3. \A x : PacketOf(x)' = PacketOf(x)
  BY <1>1, <1>2, Zenon DEF PacketOf, To
<1>4. Stream' = Stream
  BY <1>1, <1>3 DEF Stream
<1>5. Packets' = Packets /\ Bounds' = Bounds
  BY DEF Packets, Bounds
<1>6. \A a, b : Cut(a, b)' = Cut(a, b)
  BY <1>4 DEF Cut
<1> QED
  BY <1>1, <1>2, <1>4, <1>5, <1>6

(* Where a packet ends. *)
LEMMA PacketEnds ==
  ASSUME bodies \in Seq(Nat), NEW p \in Packets
  PROVE  /\ p + 1 \in Bounds /\ From[p + 1] = To(p) /\ To(p) <= Len(Stream)
         /\ p + 1 \notin Packets => To(p) = Len(Stream)
         /\ p \in Nat
<1>1. Len(bodies) \in Nat /\ p \in Nat /\ p >= 1 /\ p <= Len(bodies) /\ Len(bodies) + 1 \in Bounds
  BY DEF Packets, Bounds
<1>2. p + 1 \in Bounds /\ (p + 1 \notin Packets => p = Len(bodies))
  BY <1>1 DEF Packets, Bounds
<1>3. From[p + 1] = To(p)
  BY FromUnfolds
<1>4. Len(Stream) = From[Len(bodies) + 1]
  BY StreamAt
<1>5. To(p) <= From[Len(bodies) + 1]
  BY <1>1, PacketsInARow
<1> QED
  BY <1>1, <1>2, <1>3, <1>4, <1>5

(* A piece is kind just if it does not hurt and brings at most the rest of *)
(* the packet and one more.                                                *)
LEMMA KindPieces ==
  ASSUME bodies \in Seq(Nat), NEW p \in Packets, NEW a \in Nat, NEW b \in Nat, a < b, b <= Len(Stream),
         From[p] <= a, a < To(p)
  PROVE  /\ b > To(p) => p + 1 \in Packets
         /\ IsKind(a, b) <=> ~ Hurts(From[p], To(p), a, b) /\ (b > To(p) => b <= To(p + 1))
<1>1. \A q \in Packets : /\ From[q] \in Nat /\ To(q) \in Nat /\ q \in Nat
                         /\ HeadSize \in Nat /\ TailSize \in Nat
  BY PacketSizes
<1>2. b > To(p) => p + 1 \in Packets
  <2>1. p + 1 \notin Packets => To(p) = Len(Stream)
    BY PacketEnds
  <2> QED
    BY <1>1, <2>1
<1>3. ASSUME NEW q \in Packets, a \in From[q]..(To(q) - 1) PROVE q = p
  <2>1. (p < q => To(p) <= From[q]) /\ (q < p => To(q) <= From[p])
    BY PacketsInARow DEF Packets, Bounds
  <2> QED
    BY <1>1, <1>3, <2>1
<1>4. a \in From[p]..(To(p) - 1) /\ DOMAIN bodies = Packets
  BY <1>1 DEF Packets
<1> DEFINE KindAt(q) ==
      /\ a = From[q] => b <= To(q)
      /\ (a > From[q] /\ a < From[q] + HeadSize /\ b > From[q] + HeadSize)
           => (b - a >= HeadSize \/ b >= To(q))
      /\ b > To(q) => b <= To(q + 1)
<1>5. IsKind(a, b) <=> KindAt(p)
  <2>1. IsKind(a, b) <=> \A q \in Packets : a \in From[q]..(To(q) - 1) => KindAt(q)
    BY <1>4 DEF IsKind
  <2> HIDE DEF KindAt
  <2> QED
    BY <1>3, <1>4, <2>1
<1>6. KindAt(p) <=> ~ Hurts(From[p], To(p), a, b) /\ (b > To(p) => b <= To(p + 1))
  BY <1>1 DEF Hurts
<1> QED
  BY <1>2, <1>5, <1>6

(* The packets that came out, and the next one. *)
LEMMA OneMoreOut ==
  ASSUME bodies \in Seq(Nat), NEW p \in Packets
  PROVE  Append([q \in 1..(p - 1) |-> Body(q, bodies[q])], Body(p, bodies[p]))
           = [q \in 1..((p + 1) - 1) |-> Body(q, bodies[q])]
<1> DEFINE F(q) == Body(q, bodies[q])
           out == [q \in 1..(p - 1) |-> F(q)]
<1>1. p \in Nat /\ p >= 1 /\ p - 1 \in Nat
  BY DEF Packets
<1>2. out \in [1..(p - 1) -> {F(q) : q \in Packets}]
  <2>1. \A q \in 1..(p - 1) : q \in Packets
    BY <1>1 DEF Packets
  <2> HIDE DEF F
  <2> QED
    BY <2>1
<1>3. out \in Seq({F(q) : q \in Packets}) /\ Len(out) = p - 1
  <2> HIDE DEF out, F
  <2> QED
    BY <1>1, <1>2, SeqOfFunction
<1>4. Append(out, F(p)) = [q \in 1..p |-> IF q <= p - 1 THEN out[q] ELSE F(p)]
  <2> DEFINE u == Append(out, F(p))
             S == {F(q) : q \in Packets}
  <2>1. F(p) \in S /\ out \in Seq(S) /\ Len(out) = p - 1
    BY <1>3
  <2> HIDE DEF out, F, S
  <2>2. /\ u \in Seq(S) /\ Len(u) = Len(out) + 1 /\ u[Len(out) + 1] = F(p)
        /\ \A q \in 1..Len(out) : u[q] = out[q]
    BY <2>1, AppendProperties
  <2> HIDE DEF u
  <2>3. Len(u) = p /\ u[p] = F(p) /\ \A q \in 1..(p - 1) : u[q] = out[q]
    BY <1>1, <2>1, <2>2
  <2>4. u = [q \in 1..p |-> u[q]]
    BY <2>2, <2>3
  <2>5. \A q \in 1..p : u[q] = IF q <= p - 1 THEN out[q] ELSE F(p)
    <3>1. \A q \in 1..p : q \in 1..(p - 1) \/ (q = p /\ ~ (q <= p - 1))
      BY <1>1
    <3> QED
      BY <2>3, <3>1
  <2> QED
    BY <2>4, <2>5, Zenon DEF u
<1>5. \A q \in 1..p : (IF q <= p - 1 THEN out[q] ELSE F(p)) = F(q)
  <2>1. ASSUME NEW q \in 1..p PROVE (IF q <= p - 1 THEN out[q] ELSE F(p)) = F(q)
    <3>1. CASE q <= p - 1
      <4>1. q \in 1..(p - 1)
        BY <1>1, <3>1
      <4> HIDE DEF F
      <4> QED
        BY <3>1, <4>1
    <3>2. CASE ~ (q <= p - 1)
      <4>1. q = p
        BY <1>1, <3>2
      <4> QED
        BY <3>2, <4>1
    <3> QED
      BY <3>1, <3>2
  <2> QED
    BY <2>1
<1>6. (p + 1) - 1 = p
  BY <1>1
<1> HIDE DEF F, out
<1>7. Append(out, F(p)) = [q \in 1..p |-> F(q)]
  BY <1>4, <1>5, Zenon
<1> QED
  BY <1>6, <1>7 DEF F, out

(* What a turn of the loop makes of the state, by what Unpack answers. *)
LEMMA AgainIs ==
  ASSUME NEW in, NEW st, NEW left, NEW out, Unpack(in, rx.buf) = Answer(st, left, out),
         rx' = Again(rx, in)
  PROVE  /\ rx'.st = st /\ rx'.buf = left
         /\ rx'.got = IF st = "ok" THEN Append(rx.got, out) ELSE rx.got
BY DEF Again, Answer

(* A packet has at least a byte. *)
LEMMA PacketGrows ==
  ASSUME bodies \in Seq(Nat), NEW p \in Packets
  PROVE  From[p] <= To(p) /\ To(p) \in Nat
<1> DEFINE f == From[p]
           t == To(p)
           n == bodies[p]
<1>1. /\ f \in Nat /\ t \in Nat /\ n \in Nat /\ HeadSize \in Nat /\ TailSize \in Nat
      /\ t = f + HeadSize + n + TailSize
  BY PacketSizes
<1>2. f <= t
  <2> HIDE DEF f, t, n
  <2> QED
    BY <1>1
<1> QED
  BY <1>1, <1>2

(* At a packet, with the bytes up to b. *)
LEMMA TurnAtPacket ==
  ASSUME FramingInv, bodies' = bodies, NEW p \in Packets, NEW b, b \in Nat,
         arrived <= b, b <= Len(Stream), arrived' = b,
         From[p] <= arrived, rx.buf = Cut(From[p], arrived),
         rx.got = [q \in 1..(p - 1) |-> Body(q, bodies[q])],
         arrived <= To(p), rx' = Again(rx, Cut(arrived, b)),
         ~ Hurts(From[p], To(p), arrived, b), b > To(p) => b <= To(p + 1)
  PROVE  \E q \in Bounds : AtPacket(q)'
<1> DEFINE f == From[p]
           t == To(p)
           n == bodies[p]
<1>1. bodies \in Seq(Nat) /\ arrived \in Nat
  BY DEF FramingInv
<1>2. InPacket(p, f, t, n, arrived, b)
  BY <1>1 DEF InPacket
<1>3. /\ f \in Nat /\ t \in Nat /\ f <= b /\ t = From[p + 1]
      /\ p + 1 \in Bounds /\ p \in Bounds /\ p \in Nat
  <2>1. p \in Bounds
    BY <1>1, BodiesAreNumbers DEF Packets, Bounds
  <2>2. f \in Nat /\ t \in Nat
    BY <1>1, PacketSizes
  <2>3. f <= b
    BY <1>1, <2>2
  <2> QED
    BY <1>1, <2>1, <2>2, <2>3, PacketEnds
<1>4. /\ From' = From /\ Packets' = Packets /\ Bounds' = Bounds
      /\ \A q : To(q)' = To(q)
      /\ \A x, y : Cut(x, y)' = Cut(x, y)
  BY SameStream
<1>5. CASE b < t
  <2>1. Unpack(Cut(arrived, b), Cut(f, arrived)) = Answer("incomplete", Cut(f, b), <<>>)
    BY <1>2, <1>5, UnpackAligned
  <2>2. rx'.st = "incomplete" /\ rx'.buf = Cut(f, b) /\ rx'.got = rx.got
    <3>1. Unpack(Cut(arrived, b), rx.buf) = Answer("incomplete", Cut(f, b), <<>>)
      BY <2>1
    <3> QED
      BY <3>1 DEF Again, Answer
  <2>3. AtPacket(p)'
    BY <1>3, <1>4, <1>5, <2>2 DEF AtPacket
  <2> QED
    BY <1>3, <1>4, <2>3
<1>6. CASE ~ (b < t)
  <2>1. b >= t
    BY <1>3, <1>6
  <2>2. Unpack(Cut(arrived, b), Cut(f, arrived)) = Answer("ok", Cut(t, b), Body(p, n))
    BY <1>2, <2>1, UnpackAligned
  <2>3. rx'.st = "ok" /\ rx'.buf = Cut(t, b) /\ rx'.got = Append(rx.got, Body(p, n))
    <3>1. Unpack(Cut(arrived, b), rx.buf) = Answer("ok", Cut(t, b), Body(p, n))
      BY <2>2
    <3>2. rx' = Again(rx, Cut(arrived, b))
      OBVIOUS
    <3> HIDE DEF f, t, n
    <3> QED
      BY <3>1, <3>2, AgainIs, Zenon
  <2>4. rx'.got = [q \in 1..((p + 1) - 1) |-> Body(q, bodies[q])]
    BY <1>1, <2>3, OneMoreOut
  <2> DEFINE q == p + 1
  <2>5. q \in Bounds /\ From[q] = t /\ (b > t => b <= To(q))
    BY <1>3
  <2> HIDE DEF q
  <2>6. q \in Packets => b <= To(q)
    <3>1. q \in Packets => From[q] <= To(q) /\ To(q) \in Nat
      BY <1>1, PacketGrows
    <3> QED
      BY <1>3, <2>1, <2>5, <3>1
  <2>7. rx'.got = [r \in 1..(q - 1) |-> Body(r, bodies[r])]
    BY <2>4 DEF q
  <2>8. AtPacket(q)'
    BY <1>4, <2>1, <2>3, <2>5, <2>6, <2>7 DEF AtPacket
  <2> QED
    BY <1>4, <2>5, <2>8
<1> QED
  BY <1>5, <1>6

(* An unkind piece at a packet, or more in the buffer than a packet. *)
LEMMA UnkindTurn ==
  ASSUME FramingInv, bodies' = bodies, NEW p \in Packets, NEW b, b \in Nat,
         arrived <= b, b <= Len(Stream), arrived' = b,
         From[p] <= arrived, rx.buf = Cut(From[p], arrived),
         arrived <= To(p) \/ arrived = b, rx' = Again(rx, Cut(arrived, b)),
         \/ Hurts(From[p], To(p), arrived, b)
         \/ b > To(p) /\ p + 1 \in Packets /\ b > To(p + 1)
  PROVE  Broken'
<1> DEFINE f == From[p]
           t == To(p)
           n == bodies[p]
<1>1. bodies \in Seq(Nat) /\ arrived \in Nat
  BY DEF FramingInv
<1>2. InPacket(p, f, t, n, arrived, b)
  BY <1>1 DEF InPacket
<1>3. f \in Nat /\ t \in Nat /\ t = From[p + 1]
  BY <1>1, PacketSizes, PacketEnds
<1>4. /\ From' = From /\ Packets' = Packets
      /\ \A q : To(q)' = To(q)
      /\ \A x, y : Cut(x, y)' = Cut(x, y)
  BY SameStream
<1>5. CASE Hurts(f, t, arrived, b)
  <2>1. PICK st, left, out :
          /\ Unpack(Cut(arrived, b), Cut(f, arrived)) = Answer(st, left, out)
          /\ left \in Seq(Bytes) /\ left # <<>>
          /\ st = "fault" \/ (st = "ok" /\ Lost(left))
    BY <1>2, <1>5, UnpackAligned
  <2>2. rx'.st = st /\ rx'.buf = left
    BY <2>1, AgainIs
  <2> QED
    BY <2>1, <2>2 DEF Broken, Lost
<1>6. CASE ~ Hurts(f, t, arrived, b)
  <2>1. b >= t /\ t <= b /\ p + 1 \in Packets /\ b > To(p + 1)
    BY <1>3, <1>6
  <2>2. Unpack(Cut(arrived, b), Cut(f, arrived)) = Answer("ok", Cut(t, b), Body(p, n))
    BY <1>2, <1>6, <2>1, UnpackAligned
  <2>3. rx'.st = "ok" /\ rx'.buf = Cut(t, b)
    BY <2>2, AgainIs
  <2> DEFINE q == p + 1
  <2>4. q \in Packets /\ From[q] = t /\ t <= b /\ b > To(q)
    BY <1>3, <2>1
  <2> HIDE DEF q
  <2>5. Overfull'
    BY <1>4, <2>3, <2>4 DEF Overfull
  <2> QED
    BY <2>3, <2>5 DEF Broken
<1> QED
  BY <1>5, <1>6

(* A turn with bytes that are no head in the buffer. *)
LEMMA LostTurn ==
  ASSUME Lost(rx.buf), NEW in \in Seq(Bytes), rx' = Again(rx, in)
  PROVE  Broken'
<1>1. PICK st, left : /\ Unpack(in, rx.buf) = Answer(st, left, <<>>)
                      /\ st \in {"garbage", "incomplete"} /\ Lost(left)
  BY LostStaysLost
<1>2. rx'.st = st /\ rx'.buf = left
  BY <1>1, AgainIs
<1> QED
  BY <1>1, <1>2 DEF Broken, Lost

(* Sending a stream. *)
LEMMA SendStreamKeeps ==
  ASSUME FramingInv, SendStream
  PROVE  FramingInv'
<1>1. bodies = <<>> /\ UNCHANGED <<arrived, rx, kind>>
  BY DEF SendStream
<1>2. PICK n \in 1..MaxStream : bodies' \in [1..n -> 0..MaxBody]
  BY DEF SendStream
<1>3. rx = Start /\ kind = TRUE
  BY <1>1 DEF FramingInv
<1>4. arrived = 0
  <2>1. From[1] = 0 /\ Len(Stream) = From[Len(bodies) + 1] /\ Len(bodies) = 0
    BY <1>1, FromUnfolds, StreamAt DEF FramingInv
  <2> QED
    BY <2>1 DEF FramingInv
<1>5. bodies' \in Seq(Nat)
  <2>1. n \in Nat /\ MaxBody \in Nat
    BY FramingAssumption
  <2>2. bodies' \in [1..n -> Nat]
    BY <1>2, <2>1
  <2> QED
    BY <2>1, <2>2, SeqOfFunction
<1> QED
  BY <1>1, <1>3, <1>4, <1>5, BeforeTheFirstByteNext

(* A turn of the loop without input. *)
LEMMA GoOnKeeps ==
  ASSUME FramingInv, GoOn
  PROVE  FramingInv'
<1>1. rx.st = "ok" /\ rx' = Again(rx, <<>>) /\ bodies' = bodies /\ arrived' = arrived /\ kind' = kind
  BY DEF GoOn
<1>2. bodies \in Seq(Nat) /\ arrived \in Nat /\ arrived <= Len(Stream) /\ kind \in BOOLEAN
  BY DEF FramingInv
<1>3. Cut(arrived, arrived) = <<>>
  BY <1>2, CutOfStream
<1>4. bodies # <<>>
  BY <1>1 DEF FramingInv, Start
<1>5. /\ From' = From /\ Packets' = Packets /\ Bounds' = Bounds /\ Stream' = Stream
      /\ \A q : To(q)' = To(q)
      /\ \A x, y : Cut(x, y)' = Cut(x, y)
  BY <1>1, SameStream
<1>6. ASSUME kind PROVE \E p \in Bounds : AtPacket(p)'
  <2>1. PICK p \in Bounds : AtPacket(p)
    BY <1>6 DEF FramingInv
  <2>2. CASE p \in Packets
    <3>1. /\ From[p] <= arrived /\ rx.buf = Cut(From[p], arrived) /\ arrived <= To(p)
          /\ rx.got = [q \in 1..(p - 1) |-> Body(q, bodies[q])]
      BY <1>1, <2>1, <2>2 DEF AtPacket
    <3>2. From[p] \in Nat /\ To(p) \in Nat /\ HeadSize \in Nat
      BY <1>2, <2>2, PacketSizes
    <3>3. ~ Hurts(From[p], To(p), arrived, arrived)
      BY <1>2, <3>1, <3>2 DEF Hurts
    <3>4. ~ (arrived > To(p))
      BY <1>2, <3>1, <3>2
    <3>5. arrived <= arrived /\ rx' = Again(rx, Cut(arrived, arrived))
      BY <1>1, <1>2, <1>3
    <3> QED
      BY <1>1, <1>2, <1>5, <2>2, <3>1, <3>3, <3>4, <3>5, TurnAtPacket
  <2>3. CASE p \notin Packets
    <3>1. p = Len(bodies) + 1 /\ Len(Stream) = From[p] /\ From[p] <= arrived
      BY <1>2, <2>1, <2>3, StreamAt DEF Packets, Bounds, AtPacket
    <3>2. From[p] = arrived
      BY <1>2, <2>1, <3>1, FromUnfolds
    <3>3. rx.buf = <<>>
      BY <1>3, <2>1, <3>2 DEF AtPacket
    <3>4. Unpack(<<>>, rx.buf) = Answer("incomplete", <<>>, <<>>)
      BY <3>3, FramingAssumption DEF Unpack, UnpackFirst
    <3>5. rx'.st = "incomplete" /\ rx'.buf = <<>> /\ rx'.got = rx.got
      BY <1>1, <3>4, AgainIs
    <3>6. AtPacket(p)'
      BY <1>1, <1>5, <2>1, <2>3, <3>3, <3>5 DEF AtPacket
    <3> QED
      BY <1>5, <3>6
  <2> QED
    BY <2>2, <2>3
<1>7. ASSUME ~kind PROVE Broken'
  <2>1. Lost(rx.buf) \/ Overfull
    BY <1>1, <1>7 DEF FramingInv, Broken
  <2>2. CASE Lost(rx.buf)
    <3>1. <<>> \in Seq(Bytes)
      OBVIOUS
    <3> QED
      BY <1>1, <2>2, <3>1, LostTurn
  <2>3. CASE Overfull
    <3>1. PICK p \in Packets : From[p] <= arrived /\ rx.buf = Cut(From[p], arrived) /\ arrived > To(p)
      BY <2>3 DEF Overfull
    <3>2. Hurts(From[p], To(p), arrived, arrived) /\ arrived <= arrived
      BY <1>2, <3>1 DEF Hurts
    <3>3. rx' = Again(rx, Cut(arrived, arrived))
      BY <1>1, <1>3
    <3> QED
      BY <1>1, <1>2, <3>1, <3>2, <3>3, UnkindTurn
  <2> QED
    BY <2>1, <2>2, <2>3
<1> QED
  BY <1>1, <1>2, <1>4, <1>5, <1>6, <1>7 DEF FramingInv

(* A piece that arrives. *)
LEMMA ArrivePieceKeeps ==
  ASSUME FramingInv, ArrivePiece
  PROVE  FramingInv'
<1>1. rx.st # "ok" /\ bodies' = bodies
  BY DEF ArrivePiece
<1>2. PICK b \in (arrived + 1)..Len(Stream) :
        /\ rx' = IF rx.st \in {"garbage", "fault"} THEN rx
                 ELSE Again(rx, SubSeq(Stream, arrived + 1, b))
        /\ arrived' = b
        /\ kind' = (kind /\ IsKind(arrived, b))
  BY DEF ArrivePiece
<1>3. bodies \in Seq(Nat) /\ arrived \in Nat /\ arrived <= Len(Stream) /\ kind \in BOOLEAN
  BY DEF FramingInv
<1>4. Len(Stream) \in Nat
  BY <1>3, StreamAt
<1>5. b \in Nat /\ arrived < b /\ arrived <= b /\ b <= Len(Stream)
  BY <1>2, <1>3, <1>4
<1>6. SubSeq(Stream, arrived + 1, b) = Cut(arrived, b) /\ Cut(arrived, b) \in Seq(Bytes)
  BY <1>3, <1>5, CutOfStream
<1>7. Stream' = Stream /\ Bounds' = Bounds
  BY <1>1, SameStream
<1>8. bodies # <<>>
  <2>1. bodies = <<>> => Len(Stream) = 0
    BY <1>3, FromUnfolds, StreamAt
  <2> QED
    BY <1>3, <1>5, <2>1
<1>9. kind' \in BOOLEAN
  BY <1>2
<1>10. ASSUME kind
       PROVE  /\ IsKind(arrived, b) => \E p \in Bounds : AtPacket(p)'
              /\ ~ IsKind(arrived, b) => Broken'
  <2>1. PICK p \in Bounds : AtPacket(p)
    BY <1>10 DEF FramingInv
  <2>2. p \in Packets
    <3>1. From[p] <= arrived /\ From[p] \in Nat
      BY <1>3, <2>1, FromUnfolds DEF AtPacket
    <3>2. p \notin Packets => p = Len(bodies) + 1
      BY <1>3, <2>1 DEF Packets, Bounds
    <3>3. p \notin Packets => From[p] = Len(Stream)
      BY <1>3, <3>2, StreamAt
    <3> QED
      BY <1>3, <1>4, <1>5, <3>1, <3>3
  <2>3. /\ rx.st = "incomplete" /\ From[p] <= arrived /\ rx.buf = Cut(From[p], arrived) /\ arrived < To(p)
        /\ rx.got = [q \in 1..(p - 1) |-> Body(q, bodies[q])]
    BY <1>1, <2>1, <2>2 DEF AtPacket
  <2>4. rx' = Again(rx, Cut(arrived, b))
    BY <1>2, <1>6, <2>3
  <2>5. /\ b > To(p) => p + 1 \in Packets
        /\ IsKind(arrived, b) <=> ~ Hurts(From[p], To(p), arrived, b) /\ (b > To(p) => b <= To(p + 1))
    BY <1>3, <1>5, <2>2, <2>3, KindPieces
  <2>6. arrived <= To(p) /\ To(p) \in Nat
    BY <1>3, <2>2, <2>3, PacketGrows
  <2>7. ASSUME IsKind(arrived, b) PROVE \E q \in Bounds : AtPacket(q)'
    <3>1. ~ Hurts(From[p], To(p), arrived, b) /\ (b > To(p) => b <= To(p + 1))
      BY <2>5, <2>7
    <3>2. \E q \in Bounds : AtPacket(q)'
      BY <1>1, <1>2, <1>5, <2>2, <2>3, <2>4, <2>6, <3>1, TurnAtPacket
    <3> QED
      BY <3>2
  <2>8. ASSUME ~ IsKind(arrived, b) PROVE Broken'
    <3>1. CASE Hurts(From[p], To(p), arrived, b)
      BY <1>1, <1>2, <1>5, <2>2, <2>3, <2>4, <2>6, <3>1, UnkindTurn
    <3>2. CASE ~ Hurts(From[p], To(p), arrived, b)
      <4>1. b > To(p) /\ p + 1 \in Packets /\ ~ (b <= To(p + 1))
        BY <2>5, <2>8, <3>2
      <4>2. b > To(p + 1)
        <5> DEFINE q == p + 1
        <5>1. q \in Packets
          BY <4>1
        <5> HIDE DEF q
        <5>2. To(q) \in Nat
          BY <1>3, <5>1, PacketGrows
        <5> QED
          BY <1>5, <4>1, <5>2 DEF q
      <4> QED
        BY <1>1, <1>2, <1>5, <2>2, <2>3, <2>4, <2>6, <4>1, <4>2, UnkindTurn
    <3> QED
      BY <3>1, <3>2
  <2> QED
    BY <2>7, <2>8
<1>11. ASSUME ~ kind PROVE Broken'
  <2>1. Broken
    BY <1>11 DEF FramingInv
  <2>2. CASE rx.st \in {"garbage", "fault"}
    BY <1>2, <2>1, <2>2 DEF Broken
  <2>3. CASE rx.st \notin {"garbage", "fault"}
    <3>1. Lost(rx.buf) /\ rx' = Again(rx, Cut(arrived, b))
      BY <1>1, <1>2, <1>6, <2>1, <2>3 DEF Broken
    <3> QED
      BY <1>6, <3>1, LostTurn
  <2> QED
    BY <2>2, <2>3
<1>12. (kind' => \E p \in Bounds : AtPacket(p)') /\ (~ kind' => Broken')
  BY <1>2, <1>3, <1>10, <1>11
<1> QED
  BY <1>1, <1>2, <1>3, <1>5, <1>7, <1>8, <1>9, <1>12 DEF FramingInv

(* The invariant holds at first. *)
LEMMA FramingInitInv == NoStream => FramingInv
BY BeforeTheFirstByte DEF NoStream

(* Every step keeps it. *)
LEMMA FramingStep ==
  ASSUME FramingInv, [FramingNext]_framing
  PROVE  FramingInv'
<1>1. CASE SendStream
  BY <1>1, SendStreamKeeps
<1>2. CASE ArrivePiece
  BY <1>2, ArrivePieceKeeps
<1>3. CASE GoOn
  BY <1>3, GoOnKeeps
<1>4. CASE UNCHANGED framing
  <2>1. bodies' = bodies /\ arrived' = arrived /\ rx' = rx /\ kind' = kind
    BY <1>4 DEF framing
  <2>2. /\ From' = From /\ Packets' = Packets /\ Bounds' = Bounds /\ Stream' = Stream
        /\ \A q : To(q)' = To(q)
        /\ \A x, y : Cut(x, y)' = Cut(x, y)
    BY <2>1, SameStream
  <2>3. \A p : AtPacket(p)' <=> AtPacket(p)
    BY <2>1, <2>2 DEF AtPacket
  <2>4. Broken' <=> Broken
    <3>1. Overfull' <=> Overfull
      BY <2>1, <2>2 DEF Overfull
    <3> QED
      BY <2>1, <3>1 DEF Broken
  <2> QED
    BY <2>1, <2>2, <2>3, <2>4 DEF FramingInv
<1> QED
  BY <1>1, <1>2, <1>3, <1>4 DEF FramingNext

(* The inductive invariant of the receiver (enet_unpack_data and the loop of
   enet_tcp_server_process_recv) for all sizes of head and tail, all streams
   and all ways to cut them into pieces. *)
THEOREM FramingInvariant == FramingSpec => []FramingInv
<1>1. FramingInv /\ [FramingNext]_framing => FramingInv'
  BY FramingStep
<1> QED
  BY FramingInitInv, <1>1, PTL DEF FramingSpec

(* The invariant says what comes out when the whole stream has arrived. *)
LEMMA InvGivesKindStreams == FramingInv => KindStreamsComeOut
<1> SUFFICES ASSUME FramingInv, arrived = Len(Stream), rx.st # "ok"
             PROVE  kind <=> rx.buf = <<>> /\ rx.got = [p \in DOMAIN bodies |-> Body(p, bodies[p])]
  BY DEF KindStreamsComeOut
<1>1. bodies \in Seq(Nat) /\ arrived \in Nat /\ kind \in BOOLEAN
  BY DEF FramingInv
<1>2. ASSUME kind PROVE rx.buf = <<>> /\ rx.got = [p \in DOMAIN bodies |-> Body(p, bodies[p])]
  <2>1. PICK p \in Bounds : AtPacket(p)
    BY <1>2 DEF FramingInv
  <2>2. p \notin Packets
    <3>1. p \in Packets => To(p) <= Len(Stream) /\ To(p) \in Nat
      BY <1>1, PacketEnds, PacketGrows
    <3> QED
      BY <1>1, <2>1, <3>1 DEF AtPacket
  <2>3. p = Len(bodies) + 1 /\ Len(bodies) \in Nat
    BY <1>1, <2>1, <2>2 DEF Packets, Bounds
  <2>4. From[p] = Len(Stream)
    BY <1>1, <2>3, StreamAt
  <2>5. rx.buf = <<>>
    BY <1>1, <2>1, <2>4, CutOfStream DEF AtPacket
  <2>6. 1..(p - 1) = DOMAIN bodies
    BY <1>1, <2>3
  <2> QED
    BY <2>1, <2>5, <2>6 DEF AtPacket
<1>3. ASSUME ~ kind PROVE rx.buf # <<>>
  BY <1>3 DEF FramingInv, Broken, Lost
<1> QED
  BY <1>1, <1>2, <1>3

(* A stream comes out whole, in order and unchanged, if and only if the pieces
   it arrives in are kind (enet_unpack_data splits and merges). *)
THEOREM KindStreams == FramingSpec => []KindStreamsComeOut
BY FramingInvariant, InvGivesKindStreams, PTL
=============================================================================
