-------------------------- MODULE EventEngineProofs --------------------------
(***************************************************************************)
(* Proofs about both halves of event_engine.c, which share no state: the   *)
(* queue, for any threads, events and size of the ring, and the timers,    *)
(* for any callers, nodes and length of a round.                           *)
(*                                                                         *)
(* The assertion of pop_event and the refinement of BoundedFifo both rest  *)
(* on the shape of the ring, which posts and pops take apart and restore   *)
(* inside the lock: RingInv says what it is at each of their steps, and    *)
(* LockInv that there is one such thread at a time.                        *)
(*                                                                         *)
(* That the list of timers is one circle is said without a walk (Circle),  *)
(* so that an insertion or a deletion can be shown to keep it; what a walk *)
(* meets follows at the end.                                               *)
(***************************************************************************)
EXTENDS EventQueue, EventTimer, SequenceTheorems, FiniteSetTheorems, WellFoundedInduction, TLAPS

(* Which steps the handler takes, and which the application's threads. *)
Roles ==
  /\ pc[Handler] \in {"boot", "dispatch"} \cup PopPCs \cup PostPCs \cup Answers
  /\ \A t \in Posters : pc[t] \in {"new", "idle"} \cup InitPCs \cup PostPCs \cup Answers

InLock(t) == pc[t] \in {"post_test", "post_write", "pop_test", "pop_advance"}

LockInv == \A t \in Threads : lock = t <=> InLock(t)

(* One thread initialises; nothing is posted or popped before it is done, so
   nothing is dispatched before the dispatcher is set. *)
SetupInv ==
  /\ ready => dispatcher
  /\ \A t \in Posters :
       /\ pc[t] \in InitPCs => ~ready
       /\ pc[t] = "init_threads" => pc[Handler] = "boot"
       /\ pc[t] = "init_ready" => dispatcher
       /\ pc[t] \notin {"new"} \cup InitPCs => ready
       /\ \A u \in Posters : pc[t] \in InitPCs /\ pc[u] \in InitPCs => t = u
  /\ count > 0 => ready
  /\ pc[Handler] \in {"pop_advance", "dispatch"} \cup PostPCs \cup Answers => ready
  /\ pc[Handler] # "boot" /\ ~ready =>
       \E t \in Posters : pc[t] \in {"init_dispatcher", "init_ready"}

DataInv ==
  /\ pc[Handler] \notin {"boot", "pop_enter", "pop_test"} => info \in Events
  /\ \A t \in Threads : arg[t] # NoEvent <=> pc[t] \in PostPCs

(* Where the tail is, and what the slots from head to tail hold. *)
RingInv ==
  /\ \A t \in Threads : pc[t] = "post_write" => count < Size
  /\ tail = IF \E t \in Threads : pc[t] = "post_write"
            THEN (IF count = 0 THEN head ELSE At(count + 1))
            ELSE (IF count = 0 THEN head ELSE At(count))
  /\ pc[Handler] = "pop_advance" => count > 0
  /\ \A n \in 1..count :
       (n = 1 /\ pc[Handler] = "pop_advance") \/ slot[At(n)] \in Events

IInv == TypeOK /\ Roles /\ LockInv /\ SetupInv /\ DataInv /\ RingInv
----------------------------------------------------------------------------
THEOREM InitIInv == Init => IInv
<1> SUFFICES ASSUME Init PROVE IInv
  OBVIOUS
<1> USE ThreadsAssumption, EventsAssumption, SizeAssumption
<1>1. TypeOK
  <2>1. 0 \in Index /\ 0 \in 0..Size
    BY DEF Index
  <2>2. pc \in [Threads -> PCs]
    BY DEF Init, PCs
  <2> QED
    BY <2>1, <2>2 DEF Init, TypeOK
<1>2. Roles
  BY DEF Init, Roles, Threads
<1>3. LockInv
  BY DEF Init, LockInv, InLock, Threads
<1>4. SetupInv
  BY DEF Init, SetupInv, Threads, InitPCs, PostPCs, Answers
<1>5. DataInv
  BY DEF Init, DataInv, Threads, PostPCs
<1>6. RingInv
  <2>1. 1..0 = {}
    OBVIOUS
  <2>2. \A t \in Threads : pc[t] \notin {"post_write", "pop_advance"}
    BY DEF Init
  <2> QED
    BY <2>1, <2>2 DEF Init, RingInv, Threads
<1> QED
  BY <1>1, <1>2, <1>3, <1>4, <1>5, <1>6 DEF IInv

(* At most one thread is inside the lock. *)
LEMMA OneInside ==
  ASSUME LockInv, NEW t \in Threads, NEW u \in Threads, InLock(t), InLock(u)
  PROVE  t = u
BY DEF LockInv

----------------------------------------------------------------------------
(* Each part of the invariant is kept by every step. *)
LEMMA TypeStep ==
  ASSUME IInv, [Next]_vars
  PROVE  TypeOK'
<1> USE ThreadsAssumption, SizeAssumption
<1>0. TypeOK /\ RingInv /\ Handler \in Threads
  BY DEF IInv, Threads
<1>0a. \A i \in Index : Wrap(i) \in Index
  BY DEF Index, Wrap
<1>1. ASSUME NEW t \in Posters, InitEvent(t) PROVE TypeOK'
  BY <1>1, <1>0 DEF InitEvent, InitBegin, InitThreads, InitDispatcher, InitReady,
     InitAgain, Goto, TypeOK, PCs, InitPCs, PopPCs, ring, setup, Threads
<1>2. ASSUME NEW t \in Threads, NEW e \in Events, CallPost(t, e) PROVE TypeOK'
  BY <1>2, <1>0 DEF CallPost, TypeOK, PCs, PostPCs, ring, setup
<1>3. ASSUME NEW t \in Threads, PostEnter(t) PROVE TypeOK'
  BY <1>3, <1>0 DEF PostEnter, Acquire, Goto, TypeOK, PCs, PostPCs, ring, setup
<1>4. ASSUME NEW t \in Threads, PostInside(t) PROVE TypeOK'
  <2>1. CASE PostFull(t)
    BY <2>1, <1>0 DEF PostFull, Release, Goto, TypeOK, PCs, Answers, ring, setup
  <2>2. CASE PostMove(t)
    BY <2>2, <1>0, <1>0a DEF PostMove, Goto, TypeOK, PCs, PostPCs, setup
  <2>3. CASE PostWrite(t)
    BY <2>3, <1>0 DEF PostWrite, Release, Goto, TypeOK, PCs, Answers, setup, RingInv
  <2>4. CASE PostReturn(t)
    BY <2>4, <1>0 DEF PostReturn, TypeOK, PCs, ring, setup
  <2> QED
    BY <1>4, <2>1, <2>2, <2>3, <2>4 DEF PostInside
<1>5. CASE PopEnter
  BY <1>5, <1>0 DEF PopEnter, Acquire, Goto, TypeOK, PCs, PopPCs, ring, setup
<1>6. CASE PopInside
  <2>1. CASE PopEmpty
    BY <2>1, <1>0 DEF PopEmpty, Release, Goto, TypeOK, PCs, PopPCs, ring, setup
  <2>2. CASE PopCopy
    BY <2>2, <1>0 DEF PopCopy, Goto, TypeOK, PCs, PopPCs, setup
  <2>3. CASE PopAdvance
    BY <2>3, <1>0, <1>0a DEF PopAdvance, Release, TypeOK, PCs, PopPCs, setup, RingInv
  <2> QED
    BY <1>6, <2>1, <2>2, <2>3 DEF PopInside
<1>7. CASE DispatchDone
  BY <1>7, <1>0 DEF DispatchDone, Goto, TypeOK, PCs, PopPCs, ring, setup
<1>8. CASE UNCHANGED vars
  BY <1>8, <1>0 DEF vars, TypeOK
<1> QED
  BY <1>1, <1>2, <1>3, <1>4, <1>5, <1>6, <1>7, <1>8 DEF Next

LEMMA RolesStep ==
  ASSUME IInv, [Next]_vars
  PROVE  Roles'
<1> USE ThreadsAssumption DEF Roles, Threads, PopPCs, PostPCs, Answers, InitPCs
<1>0. Roles /\ pc \in [Threads -> PCs]
  BY DEF IInv, TypeOK
<1>1. ASSUME NEW t \in Posters, InitEvent(t) PROVE Roles'
  BY <1>1, <1>0 DEF InitEvent, InitBegin, InitThreads, InitDispatcher, InitReady,
     InitAgain, Goto
<1>2. ASSUME NEW t \in Threads, NEW e \in Events, CallPost(t, e) PROVE Roles'
  BY <1>2, <1>0 DEF CallPost
<1>3. ASSUME NEW t \in Threads, PostEnter(t) \/ PostInside(t) PROVE Roles'
  BY <1>3, <1>0 DEF PostEnter, PostInside, PostFull, PostMove, PostWrite, PostReturn, Goto
<1>4. CASE PopEnter \/ PopInside \/ DispatchDone
  BY <1>4, <1>0 DEF PopEnter, PopInside, PopEmpty, PopCopy, PopAdvance, DispatchDone, Goto
<1>5. CASE UNCHANGED vars
  BY <1>5, <1>0 DEF vars
<1> QED
  BY <1>1, <1>2, <1>3, <1>4, <1>5 DEF Next

LEMMA LockStep ==
  ASSUME IInv, [Next]_vars
  PROVE  LockInv'
<1> USE ThreadsAssumption DEF LockInv, InLock, Threads
<1>0. LockInv /\ Roles /\ pc \in [Threads -> PCs]
  BY DEF IInv, TypeOK
<1>1. ASSUME NEW t \in Posters, InitEvent(t) PROVE LockInv'
  <2>1. CASE InitThreads(t)
    BY <2>1, <1>0 DEF InitThreads, IInv, SetupInv
  <2>2. CASE InitBegin(t) \/ InitDispatcher(t) \/ InitReady(t) \/ InitAgain(t)
    BY <2>2, <1>0 DEF InitBegin, InitDispatcher, InitReady, InitAgain, Goto
  <2> QED
    BY <1>1, <2>1, <2>2 DEF InitEvent
<1>2. ASSUME NEW t \in Threads, NEW e \in Events, CallPost(t, e) PROVE LockInv'
  BY <1>2, <1>0 DEF CallPost
<1>3. ASSUME NEW t \in Threads, PostEnter(t) PROVE LockInv'
  BY <1>3, <1>0 DEF PostEnter, Acquire, Goto
<1>4. ASSUME NEW t \in Threads, PostInside(t) PROVE LockInv'
  BY <1>4, <1>0 DEF PostInside, PostFull, PostMove, PostWrite, PostReturn, Release,
     Goto, Answers
<1>5. CASE PopEnter
  BY <1>5, <1>0 DEF PopEnter, Acquire, Goto
<1>6. CASE PopInside
  BY <1>6, <1>0 DEF PopInside, PopEmpty, PopCopy, PopAdvance, Release, Goto
<1>7. CASE DispatchDone
  BY <1>7, <1>0 DEF DispatchDone, Goto
<1>8. CASE UNCHANGED vars
  BY <1>8, <1>0 DEF vars
<1> QED
  BY <1>1, <1>2, <1>3, <1>4, <1>5, <1>6, <1>7, <1>8 DEF Next

LEMMA SetupStep ==
  ASSUME IInv, [Next]_vars
  PROVE  SetupInv'
<1> USE ThreadsAssumption DEF SetupInv, Threads
<1>0. SetupInv /\ Roles /\ pc \in [Threads -> PCs] /\ count \in Nat
  BY SizeAssumption DEF IInv, TypeOK
<1>1. ASSUME NEW t \in Posters, InitEvent(t) PROVE SetupInv'
  <2> USE DEF InitPCs, PostPCs, Answers
  <2>1. CASE InitBegin(t)
    BY <2>1, <1>0 DEF InitBegin, Initialising, Goto, setup, ring
  <2>2. CASE InitThreads(t)
    BY <2>2, <1>0 DEF InitThreads, setup, ring
  <2>3. CASE InitDispatcher(t)
    BY <2>3, <1>0 DEF InitDispatcher, Goto, ring
  <2>4. CASE InitReady(t)
    BY <2>4, <1>0 DEF InitReady, Goto, ring
  <2>5. CASE InitAgain(t)
    BY <2>5, <1>0 DEF InitAgain, Goto, setup, ring
  <2> QED
    BY <1>1, <2>1, <2>2, <2>3, <2>4, <2>5 DEF InitEvent
<1> USE DEF InitPCs, PostPCs, Answers
<1>2. ASSUME NEW t \in Threads, NEW e \in Events, CallPost(t, e) PROVE SetupInv'
  BY <1>2, <1>0 DEF CallPost, setup, ring, Roles
<1>3. ASSUME NEW t \in Threads, PostEnter(t) PROVE SetupInv'
  BY <1>3, <1>0 DEF PostEnter, Goto, setup, ring, Roles
<1>4. ASSUME NEW t \in Threads, PostInside(t) PROVE SetupInv'
  <2>1. CASE PostFull(t) \/ PostMove(t) \/ PostReturn(t)
    BY <2>1, <1>0 DEF PostFull, PostMove, PostReturn, Goto, setup, ring, Roles
  <2>2. CASE PostWrite(t)
    BY <2>2, <1>0 DEF PostWrite, Goto, setup, Roles
  <2> QED
    BY <1>4, <2>1, <2>2 DEF PostInside
<1>5. CASE PopEnter \/ DispatchDone
  BY <1>5, <1>0 DEF PopEnter, DispatchDone, Goto, setup, ring
<1>6. CASE PopInside
  BY <1>6, <1>0 DEF PopInside, PopEmpty, PopCopy, PopAdvance, Goto, setup, ring
<1>7. CASE UNCHANGED vars
  BY <1>7, <1>0 DEF vars
<1> QED
  BY <1>1, <1>2, <1>3, <1>4, <1>5, <1>6, <1>7 DEF Next

LEMMA DataStep ==
  ASSUME IInv, [Next]_vars
  PROVE  DataInv'
<1> USE ThreadsAssumption, EventsAssumption DEF DataInv, Threads, PostPCs
<1>0. DataInv /\ Roles /\ pc \in [Threads -> PCs] /\ arg \in [Threads -> Events \cup {NoEvent}]
  BY DEF IInv, TypeOK
<1>1. ASSUME NEW t \in Posters, InitEvent(t) PROVE DataInv'
  <2>1. CASE InitThreads(t)
    BY <2>1, <1>0 DEF InitThreads, IInv, SetupInv
  <2>2. CASE InitBegin(t) \/ InitDispatcher(t) \/ InitReady(t) \/ InitAgain(t)
    BY <2>2, <1>0 DEF InitBegin, InitDispatcher, InitReady, InitAgain, Goto
  <2> QED
    BY <1>1, <2>1, <2>2 DEF InitEvent
<1>2. ASSUME NEW t \in Threads, NEW e \in Events, CallPost(t, e) PROVE DataInv'
  BY <1>2, <1>0 DEF CallPost
<1>3. ASSUME NEW t \in Threads, PostEnter(t) PROVE DataInv'
  BY <1>3, <1>0 DEF PostEnter, Goto
<1>4. ASSUME NEW t \in Threads, PostInside(t) PROVE DataInv'
  BY <1>4, <1>0 DEF PostInside, PostFull, PostMove, PostWrite, PostReturn, Goto, Answers
<1>5. CASE PopEnter \/ DispatchDone
  BY <1>5, <1>0 DEF PopEnter, DispatchDone, Goto
<1>6. CASE PopInside
  <2>1. PopCopy => slot[head] \in Events
    <3>1. count \in Nat /\ head \in 0..(Size - 1) /\ RingInv
      BY SizeAssumption DEF IInv, TypeOK, Index
    <3>2. At(1) = head
      BY <3>1, SizeAssumption DEF At
    <3> QED
      BY <3>1, <3>2 DEF PopCopy, Goto, RingInv
  <2> QED
    BY <1>6, <2>1, <1>0 DEF PopInside, PopEmpty, PopCopy, PopAdvance, Goto
<1>7. CASE UNCHANGED vars
  BY <1>7, <1>0 DEF vars
<1> QED
  BY <1>1, <1>2, <1>3, <1>4, <1>5, <1>6, <1>7 DEF Next

----------------------------------------------------------------------------
(* The slots of a ring that starts at head: distinct for distinct places, and
   the next place is the next slot. *)
LEMMA RingArithmetic ==
  ASSUME head \in Index
  PROVE  /\ At(1) = head
         /\ \A n \in 1..Size : At(n) \in Index
         /\ \A n \in 1..Size : \A m \in 1..Size : At(n) = At(m) => n = m
         /\ \A n \in 1..(Size - 1) : Wrap(At(n)) = At(n + 1)
BY SizeAssumption DEF Index, At, Wrap

LEMMA RingStep ==
  ASSUME IInv, [Next]_vars
  PROVE  RingInv'
<1> USE ThreadsAssumption, SizeAssumption
<1>0. /\ RingInv /\ LockInv /\ Handler \in Threads /\ Roles
      /\ pc \in [Threads -> PCs] /\ slot \in [Index -> Events \cup {NoEvent}]
      /\ count \in 0..Size /\ head \in Index /\ Posters \subseteq Threads
  BY DEF IInv, TypeOK, Threads
<1>1. /\ At(1) = head
      /\ \A n \in 1..Size : At(n) \in Index
      /\ \A n \in 1..Size : \A m \in 1..Size : At(n) = At(m) => n = m
      /\ \A n \in 1..(Size - 1) : Wrap(At(n)) = At(n + 1)
  BY <1>0, RingArithmetic
<1>2. ASSUME UNCHANGED ring,
             \A t \in Threads : /\ pc'[t] = "post_write" <=> pc[t] = "post_write"
                                /\ pc'[t] = "pop_advance" <=> pc[t] = "pop_advance"
      PROVE  RingInv'
  BY <1>2, <1>0 DEF RingInv, ring, At
<1>3. ASSUME NEW t \in Threads, NEW from, NEW to, Goto(t, from, to), UNCHANGED ring,
             from \notin {"post_write", "pop_advance"},
             to \notin {"post_write", "pop_advance"}
      PROVE  RingInv'
  BY <1>3, <1>2, <1>0 DEF Goto
<1>4. ASSUME NEW t \in Posters, InitEvent(t) PROVE RingInv'
  <2>1. CASE InitThreads(t)
    BY <2>1, <1>0, <1>2 DEF InitThreads, IInv, SetupInv
  <2>2. CASE InitBegin(t) \/ InitDispatcher(t) \/ InitReady(t) \/ InitAgain(t)
    BY <2>2, <1>0, <1>3 DEF InitBegin, InitDispatcher, InitReady, InitAgain, ring
  <2> QED
    BY <1>4, <2>1, <2>2 DEF InitEvent
<1>5. ASSUME NEW t \in Threads, NEW e \in Events, CallPost(t, e) PROVE RingInv'
  BY <1>5, <1>0, <1>2 DEF CallPost
<1>6. ASSUME NEW t \in Threads, PostEnter(t) PROVE RingInv'
  BY <1>6, <1>3 DEF PostEnter
<1>7. ASSUME NEW t \in Threads, PostInside(t) PROVE RingInv'
  <2>1. CASE PostFull(t)
    BY <2>1, <1>3 DEF PostFull
  <2>2. CASE PostReturn(t)
    BY <2>2, <1>0, <1>2 DEF PostReturn, Answers
  <2>3. CASE PostMove(t)
    <3>1. \A u \in Threads : pc[u] # "post_write" /\ pc[u] # "pop_advance"
      BY <2>3, <1>0, OneInside DEF PostMove, Goto, InLock
    <3>2. tail' = IF count = 0 THEN head ELSE At(count + 1)
      BY <3>1, <2>3, <1>0, <1>1 DEF PostMove, RingInv
    <3>3. pc'[t] = "post_write" /\ pc'[Handler] # "pop_advance" /\ count < Size
      BY <3>1, <2>3, <1>0 DEF PostMove, Goto
    <3> QED
      BY <3>1, <3>2, <3>3, <2>3, <1>0 DEF PostMove, Goto, RingInv, At
  <2>4. CASE PostWrite(t)
    <3>1. /\ \A u \in Threads : pc[u] # "pop_advance"
          /\ \A u \in Threads : pc'[u] # "post_write" /\ pc'[u] # "pop_advance"
      BY <2>4, <1>0, OneInside DEF PostWrite, Goto, InLock
    <3>2. count < Size /\ tail = At(count + 1)
      BY <2>4, <1>0, <1>1 DEF PostWrite, Goto, RingInv
    <3>3. arg[t] \in Events
      BY <2>4 DEF PostWrite, Goto, IInv, DataInv, TypeOK, PostPCs
    <3>4. \A n \in 1..(count + 1) : slot'[At(n)] \in Events
      BY <3>1, <3>2, <3>3, <2>4, <1>0, <1>1 DEF PostWrite, RingInv
    <3>5. \A n \in 1..(count + 1) : At(n)' = At(n)
      BY <2>4 DEF PostWrite, At
    <3> QED
      BY <3>1, <3>2, <3>4, <3>5, <2>4, <1>0 DEF PostWrite, RingInv
  <2> QED
    BY <1>7, <2>1, <2>2, <2>3, <2>4 DEF PostInside
<1>8. CASE PopEnter \/ DispatchDone
  BY <1>8, <1>0, <1>3 DEF PopEnter, DispatchDone
<1>9. CASE PopInside
  <2>1. CASE PopEmpty
    BY <2>1, <1>0, <1>3 DEF PopEmpty
  <2>2. CASE PopCopy
    <3>1. \A u \in Threads : pc[u] # "post_write" /\ pc'[u] # "post_write"
      BY <2>2, <1>0, OneInside DEF PopCopy, Goto, InLock
    <3>2. pc[Handler] # "pop_advance" /\ pc'[Handler] = "pop_advance" /\ count > 0
      BY <2>2, <1>0 DEF PopCopy, Goto
    <3>3. \A n \in 1..count : n = 1 \/ slot'[At(n)] \in Events
      BY <3>2, <2>2, <1>0, <1>1 DEF PopCopy, RingInv
    <3>4. \A n \in 1..count : At(n)' = At(n)
      BY <2>2 DEF PopCopy, At
    <3> QED
      BY <3>1, <3>2, <3>3, <3>4, <2>2, <1>0 DEF PopCopy, RingInv
  <2>3. CASE PopAdvance
    <3>1. /\ \A u \in Threads : pc[u] # "post_write" /\ pc'[u] # "post_write"
          /\ pc'[Handler] # "pop_advance"
      BY <2>3, <1>0, OneInside DEF PopAdvance, InLock
    <3>2. count > 0 /\ count' = count - 1 /\ slot' = slot /\ tail' = tail
      BY <2>3, <1>0 DEF PopAdvance, RingInv
    <3>3. CASE count = 1
      BY <3>1, <3>2, <3>3, <2>3, <1>0, <1>1 DEF PopAdvance, RingInv
    <3>4. CASE count # 1
      <4>1. head' = At(2)
        BY <3>2, <3>4, <2>3, <1>0, <1>1 DEF PopAdvance
      <4>2. \A n \in 1..(count - 1) : At(n)' = At(n + 1)
        <5>1. head' = IF head + 1 < Size THEN head + 1 ELSE head + 1 - Size
          BY <4>1, <3>2, <1>0 DEF At, Index
        <5> QED
          BY <5>1, <3>2, <1>0 DEF At, Index
      <4>3. tail' = At(count)'
        BY <4>1, <3>1, <3>2, <3>4, <1>0 DEF RingInv, At, Index
      <4>4. \A n \in 1..(count - 1) : slot'[At(n)'] \in Events
        <5>1. ASSUME NEW n \in 1..(count - 1) PROVE slot[At(n + 1)] \in Events
          BY <5>1, <3>2, <1>0 DEF RingInv
        <5> QED
          BY <5>1, <4>2, <3>2
      <4> QED
        BY <4>3, <4>4, <3>1, <3>2, <3>4, <1>0 DEF RingInv
    <3> QED
      BY <3>3, <3>4
  <2> QED
    BY <1>9, <2>1, <2>2, <2>3 DEF PopInside
<1>10. CASE UNCHANGED vars
  BY <1>10, <1>2 DEF vars, ring
<1> QED
  BY <1>4, <1>5, <1>6, <1>7, <1>8, <1>9, <1>10 DEF Next

THEOREM NextIInv == IInv /\ [Next]_vars => IInv'
BY TypeStep, RolesStep, LockStep, SetupStep, DataStep, RingStep DEF IInv

(* The invariant: where the threads are, who is inside the lock, and what the
   ring looks like at every step of a post and of a pop. *)
THEOREM InvariantHolds == Spec => []IInv
<1>1. Init => IInv
  BY InitIInv
<1>2. IInv /\ [Next]_vars => IInv'
  BY NextIInv
<1> QED
  BY <1>1, <1>2, PTL DEF Spec

(* The indexes stay inside the ring and the count inside 0..Size. *)
THEOREM TypeCorrect == Spec => []TypeOK
<1>1. IInv => TypeOK
  BY DEF IInv
<1> QED
  BY <1>1, InvariantHolds, PTL

(* event_engine_handler never calls through a null __event_dispatcher,
   although ee_init_event starts the thread before it sets the pointer. *)
THEOREM NeverCallsNull == Spec => []DispatcherIsSet
<1>1. IInv => DispatcherIsSet
  BY DEF IInv, SetupInv, DispatcherIsSet
<1> QED
  BY <1>1, InvariantHolds, PTL

(* The assertion of pop_event never fails, for any size of the ring. *)
THEOREM AssertionHolds == Spec => []LastEventAtTail
<1>1. ASSUME IInv, pc[Handler] = "pop_advance", count = 1 PROVE head = tail
  <2>1. \A t \in Threads : pc[t] # "post_write"
    BY <1>1, OneInside DEF IInv, InLock, Threads
  <2>2. At(1) = head
    BY <1>1, RingArithmetic DEF IInv, TypeOK
  <2> QED
    BY <1>1, <2>1, <2>2 DEF IInv, RingInv
<1>2. IInv => LastEventAtTail
  BY <1>1 DEF LastEventAtTail
<1> QED
  BY <1>2, InvariantHolds, PTL
----------------------------------------------------------------------------
(* The refinement. *)

(* The refinement mapping's answer and handed, by name. *)
AnswerOf == [t \in Threads |-> IF pc[t] \in Answers THEN pc[t] ELSE "none"]
Handed == IF Dispatching THEN info ELSE NoEvent

(* The waiting events are a sequence as long as __event_item_count. *)
LEMMA WaitingSeq == IInv => Waiting \in Seq(Events) /\ Len(Waiting) = count
<1> SUFFICES ASSUME IInv PROVE Waiting \in Seq(Events) /\ Len(Waiting) = count
  OBVIOUS
<1>1. count \in Nat
  BY SizeAssumption DEF IInv, TypeOK
<1>2. \A n \in 1..count : Waiting[n] \in Events
  BY DEF IInv, DataInv, RingInv, Waiting, PopPCs
<1>3. Waiting \in [1..count -> Events]
  BY <1>2 DEF Waiting
<1> QED
  BY <1>1, <1>3

LEMMA WaitingSeqNext ==
  IInv' => (Waiting \in Seq(Events) /\ Len(Waiting) = count)'
BY WaitingSeq, PTL

(* What a step outside the ring leaves alone. *)
LEMMA WaitingKept ==
  ASSUME IInv, UNCHANGED <<head, count, slot, info>>,
         pc'[Handler] = "pop_advance" <=> pc[Handler] = "pop_advance"
  PROVE  Waiting' = Waiting
BY DEF Waiting, At

LEMMA RefinementStep ==
  ASSUME IInv, [Next]_vars
  PROVE  [Abstract!Next]_(Abstract!vars)
<1> USE ThreadsAssumption
<1>0. /\ IInv' /\ Handler \in Threads /\ Posters \subseteq Threads /\ Roles
      /\ pc \in [Threads -> PCs] /\ arg \in [Threads -> Events \cup {NoEvent}]
      /\ count \in 0..Size /\ head \in Index /\ slot \in [Index -> Events \cup {NoEvent}]
      /\ LockInv /\ DataInv
  BY NextIInv DEF IInv, TypeOK, Threads
<1>1. SUFFICES ASSUME ~UNCHANGED <<Waiting, arg, AnswerOf, Handed>>
               PROVE  Abstract!Next
  BY DEF Abstract!vars, AnswerOf, Handed
<1>2. ASSUME NEW t \in Posters, InitEvent(t) PROVE FALSE
  <2>1. UNCHANGED <<head, count, slot, info, arg>>
    BY <1>2 DEF InitEvent, InitBegin, InitThreads, InitDispatcher, InitReady, InitAgain, ring
  <2>2. /\ pc'[Handler] = pc[Handler] \/ (pc[Handler] = "boot" /\ pc'[Handler] = "pop_enter")
        /\ \A u \in Threads : (pc[u] \notin Answers /\ pc'[u] \notin Answers) \/ pc'[u] = pc[u]
    <3>1. CASE InitThreads(t)
      BY <3>1, <1>0 DEF InitThreads, Answers, IInv, SetupInv
    <3>2. CASE InitBegin(t) \/ InitDispatcher(t) \/ InitReady(t) \/ InitAgain(t)
      BY <3>2, <1>0 DEF InitBegin, InitDispatcher, InitReady, InitAgain, Goto, Answers
    <3> QED
      BY <1>2, <3>1, <3>2 DEF InitEvent
  <2>3. AnswerOf' = AnswerOf /\ Handed' = Handed
    BY <2>1, <2>2 DEF AnswerOf, Handed, Dispatching, PopPCs
  <2>4. Waiting' = Waiting
    BY <2>1, <2>2, WaitingKept
  <2> QED
    BY <1>1, <2>1, <2>3, <2>4
<1>3. ASSUME NEW t \in Threads, NEW e \in Events, CallPost(t, e) PROVE Abstract!Ask(t, e)
  <2>1. Waiting' = Waiting
    BY <1>3, <1>0, WaitingKept DEF CallPost, ring
  <2>2. AnswerOf' = AnswerOf /\ Handed' = Handed
    BY <1>3, <1>0 DEF CallPost, AnswerOf, Handed, Dispatching, PopPCs, Answers
  <2>3. arg[t] = NoEvent /\ AnswerOf[t] = "none"
    BY <1>3, <1>0 DEF CallPost, AnswerOf, DataInv, Answers, PostPCs
  <2>4. t = Handler => Handed # NoEvent
    BY <1>3, <1>0, EventsAssumption DEF CallPost, Handed, Dispatching, DataInv, PopPCs
  <2> QED
    BY <1>3, <2>1, <2>2, <2>3, <2>4 DEF Abstract!Ask, Abstract!Quiet, CallPost, AnswerOf, Handed
<1>4. ASSUME NEW t \in Threads, PostEnter(t) \/ PostMove(t) PROVE FALSE
  <2>1. UNCHANGED <<head, count, slot, info, arg>> /\ pc'[t] \in PostPCs
    BY <1>4, <1>0 DEF PostEnter, PostMove, Goto, ring, PostPCs
  <2>2. Waiting' = Waiting
    BY <1>4, <1>0, <2>1, WaitingKept DEF PostEnter, PostMove, Goto
  <2>3. AnswerOf' = AnswerOf /\ Handed' = Handed
    BY <1>4, <1>0, <2>1 DEF PostEnter, PostMove, Goto, AnswerOf, Handed, Dispatching,
       PopPCs, Answers
  <2> QED
    BY <1>1, <2>1, <2>2, <2>3
<1>5. ASSUME NEW t \in Threads, PostFull(t) PROVE Abstract!Refuse(t)
  <2>1. Waiting' = Waiting
    BY <1>5, <1>0, WaitingKept DEF PostFull, Goto, ring
  <2>2. Len(Waiting) = Size /\ arg[t] # NoEvent
    BY <1>5, <1>0, WaitingSeq DEF PostFull, Goto, DataInv, PostPCs
  <2>3. Handed' = Handed
    BY <1>5, <1>0 DEF PostFull, Goto, Handed, Dispatching, PopPCs, ring
  <2>4. AnswerOf' = [AnswerOf EXCEPT ![t] = "full"]
    BY <1>5, <1>0 DEF PostFull, Goto, AnswerOf, Answers
  <2> QED
    BY <1>5, <2>1, <2>2, <2>3, <2>4 DEF Abstract!Refuse, PostFull, AnswerOf, Handed
<1>6. ASSUME NEW t \in Threads, PostWrite(t) PROVE Abstract!Accept(t)
  <2>1. count < Size /\ arg[t] \in Events /\ arg[t] # NoEvent /\ count' = count + 1
    BY <1>6, <1>0, EventsAssumption DEF PostWrite, Goto, DataInv, PostPCs, IInv, RingInv
  <2>2. pc[Handler] # "pop_advance" /\ pc'[Handler] # "pop_advance"
    BY <1>6, <1>0, OneInside DEF PostWrite, Goto, InLock
  <2>3. tail = At(count + 1)
    BY <1>6, <1>0, <2>1, RingArithmetic DEF PostWrite, Goto, IInv, RingInv
  <2>4. \A n \in 1..(count + 1) : At(n)' = At(n)
    BY <1>6 DEF PostWrite, At
  <2>5. \A n \in 1..count : Waiting'[n] = Waiting[n]
    <3>1. ASSUME NEW n \in 1..count PROVE slot'[At(n)] = slot[At(n)]
      BY <1>6, <1>0, <2>1, <2>3, RingArithmetic, SizeAssumption DEF PostWrite
    <3> QED
      BY <3>1, <2>1, <2>2, <2>4, <1>0 DEF Waiting
  <2>6. Waiting'[count + 1] = arg[t]
    BY <1>6, <1>0, <2>1, <2>2, <2>3, <2>4, RingArithmetic, SizeAssumption DEF PostWrite, Waiting
  <2>7. Waiting' = Append(Waiting, arg[t])
    <3>1. Waiting \in Seq(Events) /\ Len(Waiting) = count
      BY WaitingSeq
    <3>2. Waiting' \in Seq(Events) /\ Len(Waiting') = count + 1
      BY <1>0, <2>1, WaitingSeqNext
    <3> QED
      BY <3>1, <3>2, <2>1, <2>5, <2>6, AppendProperties, SeqEqual
  <2>8. Handed' = Handed
    BY <1>6, <1>0 DEF PostWrite, Goto, Handed, Dispatching, PopPCs
  <2>9. AnswerOf' = [AnswerOf EXCEPT ![t] = "ok"]
    BY <1>6, <1>0 DEF PostWrite, Goto, AnswerOf, Answers
  <2> QED
    BY <1>6, <2>1, <2>7, <2>8, <2>9, WaitingSeq DEF Abstract!Accept, PostWrite, AnswerOf, Handed
<1>7. ASSUME NEW t \in Threads, PostReturn(t) PROVE Abstract!Hear(t)
  <2>1. Waiting' = Waiting
    BY <1>7, <1>0, WaitingKept DEF PostReturn, Answers, ring
  <2>2. Handed' = Handed
    BY <1>7, <1>0 DEF PostReturn, Handed, Dispatching, PopPCs, Answers, ring
  <2>3. AnswerOf[t] # "none" /\ AnswerOf' = [AnswerOf EXCEPT ![t] = "none"]
    BY <1>7, <1>0 DEF PostReturn, AnswerOf, Answers
  <2> QED
    BY <1>7, <2>1, <2>2, <2>3 DEF Abstract!Hear, PostReturn, AnswerOf, Handed
<1>8. ASSUME PopEnter \/ PopEmpty PROVE FALSE
  <2>1. UNCHANGED <<head, count, slot, info, arg>> /\ pc'[Handler] \in PopPCs
    BY <1>8, <1>0 DEF PopEnter, PopEmpty, Goto, ring, PopPCs
  <2>2. Waiting' = Waiting
    BY <1>8, <1>0, <2>1, WaitingKept DEF PopEnter, PopEmpty, Goto
  <2>3. AnswerOf' = AnswerOf /\ Handed' = Handed
    BY <1>8, <1>0, <2>1 DEF PopEnter, PopEmpty, Goto, AnswerOf, Handed, Dispatching,
       PopPCs, Answers
  <2> QED
    BY <1>1, <2>1, <2>2, <2>3
<1>9. ASSUME PopCopy PROVE FALSE
  <2>1. \A n \in 1..count : At(n)' = At(n)
    BY <1>9 DEF PopCopy, At
  <2>2. \A n \in 1..count : Waiting'[n] = Waiting[n]
    <3>1. ASSUME NEW n \in 1..count, n # 1 PROVE slot'[At(n)] = slot[At(n)]
      BY <1>9, <1>0, <3>1, RingArithmetic, SizeAssumption DEF PopCopy
    <3>2. At(1) = head
      BY <1>0, RingArithmetic
    <3> QED
      BY <1>9, <1>0, <2>1, <3>1, <3>2 DEF PopCopy, Goto, Waiting
  <2>3. Waiting' = Waiting
    BY <1>9, <2>2 DEF PopCopy, Waiting
  <2>4. AnswerOf' = AnswerOf /\ Handed' = Handed /\ arg' = arg
    BY <1>9, <1>0 DEF PopCopy, Goto, AnswerOf, Handed, Dispatching, PopPCs, Answers
  <2> QED
    BY <1>1, <2>3, <2>4
<1>10. ASSUME PopAdvance PROVE Abstract!Take
  <2>1. info \in Events /\ count > 0 /\ pc[Handler] = "pop_advance"
    BY <1>10 DEF PopAdvance, IInv, DataInv, RingInv
  <2>2. pc' = [pc EXCEPT ![Handler] = "dispatch"] /\ info' = info
    BY <1>10, <2>1, EventsAssumption DEF PopAdvance
  <2>3. Waiting # <<>> /\ Head(Waiting) = info
    BY <2>1, <1>0, WaitingSeq DEF Waiting
  <2>4. \A n \in 1..(count - 1) : Waiting'[n] = Waiting[n + 1]
    <3>1. CASE count = 1
      BY <3>1
    <3>2. CASE count # 1
      <4>1. head' = At(2)
        BY <1>10, <1>0, <2>1, <3>2, RingArithmetic, SizeAssumption DEF PopAdvance
      <4>2. head' = IF head + 1 < Size THEN head + 1 ELSE head + 1 - Size
        BY <4>1, <1>0, <2>1, SizeAssumption DEF At, Index
      <4>3. \A n \in 1..(count - 1) : At(n)' = At(n + 1)
        BY <4>2, <1>0, <2>1, SizeAssumption DEF At, Index
      <4> QED
        BY <4>3, <1>10, <1>0, <2>1, <2>2 DEF PopAdvance, Waiting
    <3> QED
      BY <3>1, <3>2
  <2>5. Waiting' = Tail(Waiting)
    <3>1. Waiting \in Seq(Events) /\ Len(Waiting) = count
      BY WaitingSeq
    <3>2. Waiting' \in Seq(Events) /\ Len(Waiting') = count - 1
      BY <1>10, <1>0, WaitingSeqNext DEF PopAdvance
    <3> QED
      BY <3>1, <3>2, <2>3, <2>4, HeadTailProperties, SeqEqual
  <2>6. Handed = NoEvent /\ Handed' = info
    BY <2>1, <2>2, <1>0 DEF Handed, Dispatching, PopPCs
  <2>7. AnswerOf' = AnswerOf /\ arg' = arg
    BY <1>10, <2>1, <2>2, <1>0 DEF PopAdvance, AnswerOf, Answers
  <2> QED
    BY <2>3, <2>5, <2>6, <2>7 DEF Abstract!Take, AnswerOf, Handed
<1>11. ASSUME DispatchDone PROVE Abstract!Finish
  <2>1. Waiting' = Waiting
    BY <1>11, <1>0, WaitingKept DEF DispatchDone, Goto, ring
  <2>2. AnswerOf' = AnswerOf /\ arg' = arg
    BY <1>11, <1>0 DEF DispatchDone, Goto, AnswerOf, Answers
  <2>3. Handed # NoEvent /\ Handed' = NoEvent
    BY <1>11, <1>0, EventsAssumption DEF DispatchDone, Goto, Handed, Dispatching, DataInv, PopPCs
  <2>4. arg[Handler] = NoEvent /\ AnswerOf[Handler] = "none"
    BY <1>11, <1>0 DEF DispatchDone, Goto, DataInv, PostPCs, AnswerOf, Answers
  <2> QED
    BY <2>1, <2>2, <2>3, <2>4 DEF Abstract!Finish, Abstract!Quiet, AnswerOf, Handed
<1>12. CASE UNCHANGED vars
  BY <1>12, <1>1 DEF vars, Waiting, At, AnswerOf, Handed, Dispatching
<1> QED
  BY <1>2, <1>3, <1>4, <1>5, <1>6, <1>7, <1>8, <1>9, <1>10, <1>11, <1>12
  DEF Next, PostInside, PopInside, Abstract!Next

(* The ring is a bounded queue: posts are accepted while it has room and only
   then, and the dispatcher gets the accepted events once each, in order. *)
THEOREM QueueRefinement == Spec => ImplementsBoundedFifo
<1>1. Init => Abstract!Init
  <2> SUFFICES ASSUME Init PROVE Abstract!Init
    OBVIOUS
  <2>1. Waiting = <<>>
    BY DEF Init, Waiting
  <2>2. AnswerOf = [t \in Threads |-> "none"] /\ Handed = NoEvent
    BY ThreadsAssumption DEF Init, AnswerOf, Handed, Answers, Dispatching
  <2> QED
    BY <2>1, <2>2 DEF Init, Abstract!Init, AnswerOf, Handed
<1>2. IInv /\ [Next]_vars => [Abstract!Next]_(Abstract!vars)
  BY RefinementStep
<1> QED
  BY <1>1, <1>2, InvariantHolds, PTL DEF Spec, ImplementsBoundedFifo, Abstract!Spec
----------------------------------------------------------------------------
(* The timers. *)

(* The nodes in the list are one circle that can be read in both directions:
   no part of it is closed under `next' but the whole.  This says what a walk
   meets without a walk. *)
Circle ==
  /\ first = Null => armed = {}
  /\ \A n \in armed : /\ next[n] \in armed /\ prev[next[n]] = n
                      /\ prev[n] \in armed /\ next[prev[n]] = n
  /\ \A S \in SUBSET armed : S # {} /\ (\A n \in S : next[n] \in S) => S = armed

(* A node is inserted by the thread that made it, once. *)
Pending ==
  \A c \in Callers : pending[c] # Null =>
    /\ pending[c] \notin armed
    /\ \A d \in Callers : pending[d] = pending[c] => d = c

(* The worker has the lock from one end of its round to the other. *)
WorkerLock == timerLock = Worker <=> stage \in {"visit", "callback", "next", "leave"}

TimerInv == TimerTypeOK /\ Circle /\ Pending /\ WorkerLock /\ WorkerOnArmedNode

(* ee_insert_timer_node_nl puts a new node into the circle. *)
LEMMA InsertKeepsCircle ==
  ASSUME TimerTypeOK, Circle, NEW n \in Nodes, n \notin armed, InsertNode(n)
  PROVE  /\ Circle' /\ armed' = armed \cup {n}
         /\ first' \in armed' /\ (first # Null => first' = first)
         /\ next' \in [Nodes -> Nodes \cup {Null}] /\ prev' \in [Nodes -> Nodes \cup {Null}]
<1> USE NodesAssumption
<1>1. CASE first = Null
  <2>1. /\ first' = n /\ armed' = {n} /\ armed = {}
        /\ next' = [next EXCEPT ![n] = n] /\ prev' = [prev EXCEPT ![n] = n]
    BY <1>1 DEF InsertNode, Circle
  <2>2. next'[n] = n /\ prev'[n] = n
    BY <2>1 DEF TimerTypeOK
  <2>3. \A S \in SUBSET armed' : S # {} => S = armed'
    BY <2>1
  <2> QED
    BY <1>1, <2>1, <2>2, <2>3 DEF Circle, TimerTypeOK
<1>2. CASE first # Null
  <2> DEFINE second == next[first]
  <2>1. first \in armed /\ second \in armed /\ armed \subseteq Nodes
    BY <1>2 DEF TimerTypeOK, Circle
  <2>2. /\ first' = first /\ armed' = armed \cup {n}
        /\ next' = [next EXCEPT ![first] = n, ![n] = second]
        /\ prev' = [prev EXCEPT ![n] = first, ![second] = n]
    BY <1>2 DEF InsertNode
  <2>3. /\ next' \in [Nodes -> Nodes \cup {Null}] /\ prev' \in [Nodes -> Nodes \cup {Null}]
        /\ \A m \in Nodes : /\ next'[m] = IF m = n THEN second ELSE IF m = first THEN n ELSE next[m]
                            /\ prev'[m] = IF m = second THEN n ELSE IF m = n THEN first ELSE prev[m]
    BY <2>1, <2>2 DEF TimerTypeOK
  <2>4. \A m \in armed' : /\ next'[m] \in armed' /\ prev'[next'[m]] = m
                          /\ prev'[m] \in armed' /\ next'[prev'[m]] = m
    <3>1. \A m \in armed : /\ next[m] \in armed /\ prev[next[m]] = m
                           /\ prev[m] \in armed /\ next[prev[m]] = m
      BY DEF Circle
    <3> HIDE DEF second
    <3>2. prev[second] = first
      BY <3>1, <2>1 DEF second
    <3>3. \A m \in armed : next[m] = second => m = first
      BY <3>1, <3>2
    <3>4. \A m \in armed : prev[m] = first => m = second
      BY <3>1 DEF second
    <3> QED
      BY <2>1, <2>2, <2>3, <3>1, <3>2, <3>3, <3>4
  <2>5. ASSUME NEW S \in SUBSET armed', S # {}, \A m \in S : next'[m] \in S
        PROVE  S = armed'
    <3>1. \A m \in S \ {n} : next[m] \in S \ {n}
      <4> SUFFICES ASSUME NEW m \in S \ {n} PROVE next[m] \in S \ {n}
        OBVIOUS
      <4>1. m \in armed /\ next[m] \in armed
        BY <2>2 DEF Circle
      <4>2. m = first => n \in S /\ second \in S
        BY <2>1, <2>3, <2>5, <4>1
      <4>3. m # first => next[m] = next'[m]
        BY <2>1, <2>3, <4>1
      <4> QED
        BY <2>5, <4>1, <4>2, <4>3
    <3>2. S \ {n} # {}
      <4>1. n \in S => second \in S
        BY <2>3, <2>5
      <4> QED
        BY <2>1, <2>5, <4>1
    <3>3. S \ {n} = armed
      BY <2>2, <3>1, <3>2 DEF Circle
    <3>4. n \in S
      BY <2>1, <2>3, <2>5, <3>3
    <3> QED
      BY <2>2, <3>3, <3>4
  <2> QED
    BY <1>2, <2>1, <2>2, <2>3, <2>4, <2>5 DEF Circle
<1> QED
  BY <1>1, <1>2

(* ee_delete_timer_node_nl takes a node out of the circle; the node before it,
   from which the worker goes on, stays in. *)
LEMMA DeleteKeepsCircle ==
  ASSUME TimerTypeOK, Circle, WorkerOnArmedNode, CallbackDone
  PROVE  /\ Circle' /\ first' \in armed' \cup {Null}
         /\ next' \in [Nodes -> Nodes \cup {Null}] /\ prev' \in [Nodes -> Nodes \cup {Null}]
         /\ IF stage' = "next" THEN node' \in armed' ELSE stage' = "leave" /\ node' = Null
<1> USE NodesAssumption
<1>1. node \in armed /\ armed' = armed \ {node} /\ armed \subseteq Nodes
  BY DEF CallbackDone, WorkerOnArmedNode, TimerTypeOK
<1>2. \A m \in armed : /\ next[m] \in armed /\ prev[next[m]] = m
                       /\ prev[m] \in armed /\ next[prev[m]] = m
  BY DEF Circle
<1>3. CASE prev[node] = node
  <2>1. first' = Null /\ node' = Null /\ stage' = "leave" /\ next' = next /\ prev' = prev
    BY <1>3 DEF CallbackDone
  <2>2. next[node] = node
    BY <1>1, <1>2, <1>3
  <2>3. {node} = armed
    BY <1>1, <2>2 DEF Circle
  <2>4. armed' = {}
    BY <1>1, <2>3
  <2> QED
    BY <2>1, <2>4 DEF Circle, TimerTypeOK
<1>4. CASE prev[node] # node
  <2> DEFINE before == prev[node]
             after == next[node]
  <2>1. /\ before \in armed' /\ after \in armed' /\ next[before] = node /\ prev[after] = node
    BY <1>1, <1>2, <1>4
  <2>2. /\ next' = [next EXCEPT ![before] = after] /\ prev' = [prev EXCEPT ![after] = before]
        /\ first' = IF node = first THEN after ELSE first
        /\ node' = before /\ stage' = "next"
    BY <1>4 DEF CallbackDone
  <2> HIDE DEF before, after
  <2>3. /\ next' \in [Nodes -> Nodes \cup {Null}] /\ prev' \in [Nodes -> Nodes \cup {Null}]
        /\ \A m \in Nodes : /\ next'[m] = IF m = before THEN after ELSE next[m]
                            /\ prev'[m] = IF m = after THEN before ELSE prev[m]
    BY <1>1, <2>1, <2>2 DEF TimerTypeOK
  <2>4. \A m \in armed' : /\ next'[m] \in armed' /\ prev'[next'[m]] = m
                          /\ prev'[m] \in armed' /\ next'[prev'[m]] = m
    <3>1. \A m \in armed' : (next[m] = node => m = before) /\ (prev[m] = node => m = after)
      BY <1>1, <1>2, <2>1 DEF before, after
    <3>2. \A m \in armed' : (next[m] = after => m = node) /\ (prev[m] = before => m = node)
      BY <1>1, <1>2, <2>1 DEF before, after
    <3> QED
      BY <1>1, <1>2, <2>1, <2>3, <3>1, <3>2
  <2>5. ASSUME NEW S \in SUBSET armed', S # {}, \A m \in S : next'[m] \in S
        PROVE  S = armed'
    <3> DEFINE R == IF before \in S THEN S \cup {node} ELSE S
    <3>1. R \in SUBSET armed /\ R # {}
      BY <1>1, <2>5
    <3>2. \A m \in R : next[m] \in R
      <4> SUFFICES ASSUME NEW m \in R PROVE next[m] \in R
        OBVIOUS
      <4>1. CASE m = node
        <5>1. before \in S
          BY <1>1, <4>1
        <5>2. next'[before] = after
          BY <1>1, <2>1, <2>3
        <5> QED
          BY <2>5, <4>1, <5>1, <5>2 DEF after
      <4>2. CASE m = before
        BY <2>1, <4>2, <1>1
      <4>3. CASE m # node /\ m # before
        BY <1>1, <2>3, <2>5, <4>3
      <4> QED
        BY <4>1, <4>2, <4>3
    <3>3. R = armed
      <4> HIDE DEF R
      <4> QED
        BY <3>1, <3>2 DEF Circle
    <3> QED
      BY <1>1, <3>3
  <2>6. first' \in armed' /\ first' # Null
    BY <1>1, <2>1, <2>2 DEF TimerTypeOK, Circle
  <2> QED
    BY <1>1, <2>1, <2>2, <2>3, <2>4, <2>5, <2>6 DEF Circle
<1> QED
  BY <1>3, <1>4

LEMMA TimerInitHolds == TimerInit => TimerInv
BY MaxRoundAssumption, WorkerAssumption, NodesAssumption
DEF TimerInit, TimerInv, TimerTypeOK, Stages, Circle, Pending, WorkerLock, WorkerOnArmedNode

(* Every step keeps the circle, and the worker on a node of it. *)
LEMMA TimerStep ==
  ASSUME TimerInv, [TimerNext]_timerVars
  PROVE  TimerInv'
<1> USE NodesAssumption, WorkerAssumption, MaxRoundAssumption
<1>0. TimerTypeOK /\ Circle /\ Pending /\ WorkerLock /\ WorkerOnArmedNode
  BY DEF TimerInv
<1>1. ASSUME NEW n \in Nodes, Elapse(n) PROVE TimerInv'
  BY <1>0, <1>1 DEF Elapse, list, work, TimerInv, TimerTypeOK, Circle, Pending, WorkerLock, WorkerOnArmedNode
<1>2. ASSUME NEW c \in Callers, CallTimer(c) PROVE TimerInv'
  <2>1. PICK n \in Free : pending' = [pending EXCEPT ![c] = n]
    BY <1>2 DEF CallTimer
  <2>2. n \in Nodes /\ n \notin armed /\ \A d \in Callers : pending[d] # n
    BY DEF Free
  <2>3. /\ pending' \in [Callers -> Nodes \cup {Null}]
        /\ \A d \in Callers : pending'[d] = IF d = c THEN n ELSE pending[d]
    BY <1>0, <2>1, <2>2 DEF TimerTypeOK
  <2>4. Pending'
    BY <1>0, <1>2, <2>2, <2>3 DEF CallTimer, list, Pending
  <2> QED
    BY <1>0, <1>2, <2>3, <2>4 DEF CallTimer, list, work, TimerInv, TimerTypeOK, Circle, WorkerLock, WorkerOnArmedNode
<1>3. ASSUME NEW c \in Callers, TimerInsert(c) PROVE TimerInv'
  <2>1. pending[c] \in Nodes /\ pending[c] \notin armed /\ InsertNode(pending[c])
    BY <1>0, <1>3 DEF TimerInsert, Pending, TimerTypeOK
  <2>2. /\ Circle' /\ armed' = armed \cup {pending[c]} /\ first' \in armed'
        /\ next' \in [Nodes -> Nodes \cup {Null}] /\ prev' \in [Nodes -> Nodes \cup {Null}]
    BY <1>0, <2>1, InsertKeepsCircle
  <2>3. /\ pending' = [pending EXCEPT ![c] = Null]
        /\ UNCHANGED <<due, timerLock, stage, node, ripe, budget>> /\ timerLock = Null
    BY <1>3 DEF TimerInsert, work
  <2>4. TimerTypeOK'
    BY <1>0, <2>1, <2>2, <2>3 DEF TimerTypeOK
  <2>5. Pending'
    BY <1>0, <2>1, <2>2, <2>3 DEF Pending, TimerTypeOK
  <2> QED
    BY <1>0, <2>2, <2>3, <2>4, <2>5 DEF TimerInv, WorkerLock, WorkerOnArmedNode
<1>4. CASE ReadTick
  BY <1>0, <1>4 DEF ReadTick, list, TimerInv, TimerTypeOK, Stages, Circle, Pending, WorkerLock, WorkerOnArmedNode
<1>5. CASE RoundEnter
  BY <1>0, <1>5 DEF RoundEnter, list, TimerInv, TimerTypeOK, Stages, Circle, Pending, WorkerLock, WorkerOnArmedNode
<1>6. CASE Visit
  BY <1>0, <1>6 DEF Visit, list, TimerInv, TimerTypeOK, Stages, Circle, Pending, WorkerLock, WorkerOnArmedNode
<1>7. CASE CallbackTimer
  <2>1. PICK n \in Free : InsertNode(n)
    BY <1>7 DEF CallbackTimer
  <2>2. n \in Nodes /\ n \notin armed /\ \A d \in Callers : pending[d] # n
    BY DEF Free
  <2>3. /\ Circle' /\ armed' = armed \cup {n} /\ first' \in armed'
        /\ next' \in [Nodes -> Nodes \cup {Null}] /\ prev' \in [Nodes -> Nodes \cup {Null}]
    BY <1>0, <2>1, <2>2, InsertKeepsCircle
  <2> QED
    BY <1>0, <1>7, <2>2, <2>3
    DEF CallbackTimer, work, TimerInv, TimerTypeOK, Pending, WorkerLock, WorkerOnArmedNode
<1>8. CASE CallbackReset
  BY <1>0, <1>8 DEF CallbackReset, list, TimerInv, TimerTypeOK, Stages, Circle, Pending, WorkerLock, WorkerOnArmedNode
<1>9. CASE CallbackDone
  <2>1. /\ Circle' /\ first' \in armed' \cup {Null}
        /\ next' \in [Nodes -> Nodes \cup {Null}] /\ prev' \in [Nodes -> Nodes \cup {Null}]
        /\ IF stage' = "next" THEN node' \in armed' ELSE stage' = "leave" /\ node' = Null
    BY <1>0, <1>9, DeleteKeepsCircle
  <2>2. /\ armed' = armed \ {node} /\ due' = due \ {node} /\ ripe' = ripe \ {node}
        /\ stage = "callback" /\ UNCHANGED <<timerLock, pending, budget>>
    BY <1>9 DEF CallbackDone
  <2> QED
    BY <1>0, <2>1, <2>2 DEF TimerInv, TimerTypeOK, Stages, Pending, WorkerLock, WorkerOnArmedNode
<1>10. CASE StepOn
  <2>1. next[node] \in armed /\ stage = "next" /\ node' = next[node]
    BY <1>0, <1>10 DEF StepOn, Circle, WorkerOnArmedNode
  <2>2. /\ UNCHANGED <<next, prev, armed, due, timerLock, pending, ripe>>
        /\ \/ first' = node' /\ budget' = MaxRound /\ stage' = "leave"
           \/ budget # 1 /\ budget' = budget - 1 /\ stage' = "visit" /\ first' = first
    BY <1>10 DEF StepOn
  <2>3. budget' \in 1..MaxRound
    BY <1>0, <2>2 DEF TimerTypeOK
  <2>4. first' \in armed \cup {Null} /\ (first' = Null => armed = {})
    BY <1>0, <2>1, <2>2 DEF TimerTypeOK, Circle
  <2>5. Circle'
    BY <1>0, <2>2, <2>4 DEF Circle
  <2> QED
    BY <1>0, <2>1, <2>2, <2>3, <2>4, <2>5 DEF TimerInv, TimerTypeOK, Stages, Pending, WorkerLock, WorkerOnArmedNode
<1>11. CASE RoundLeave
  BY <1>0, <1>11 DEF RoundLeave, list, TimerInv, TimerTypeOK, Stages, Circle, Pending, WorkerLock, WorkerOnArmedNode
<1>12. CASE UNCHANGED timerVars
  BY <1>0, <1>12 DEF timerVars, list, work, TimerInv, TimerTypeOK, Circle, Pending, WorkerLock, WorkerOnArmedNode
<1> QED
  BY <1>1, <1>2, <1>3, <1>4, <1>5, <1>6, <1>7, <1>8, <1>9, <1>10, <1>11, <1>12 DEF TimerNext, CallbackReturn

(* The timers in the list are one circle whatever is inserted and deleted in
   the middle of the worker's walk, and the worker has the lock while it walks. *)
THEOREM TimerInvariant == TimerSpec => []TimerInv
<1>1. TimerInit => TimerInv
  BY TimerInitHolds
<1>2. TimerInv /\ [TimerNext]_timerVars => TimerInv'
  BY TimerStep
<1> QED
  BY <1>1, <1>2, PTL DEF TimerSpec

(* ee_timer_event never looks at, calls or goes on from a node that was freed,
   and calls only nodes that were due when it read the clock. *)
THEOREM WorkerIsOnTheList == TimerSpec => []WorkerOnArmedNode
<1>1. TimerInv => WorkerOnArmedNode
  BY DEF TimerInv
<1> QED
  BY <1>1, TimerInvariant, PTL

(* A nonempty set of natural numbers has a least element. *)
LEMMA LeastNatural ==
  ASSUME NEW T \in SUBSET Nat, T # {}
  PROVE  \E n \in T : \A m \in T : n <= m
<1>1. PICK n \in T : \A m \in T : ~ (<<m, n>> \in OpToRel(<, Nat))
  BY NatLessThanWellFounded, WFMin
<1>2. ASSUME NEW m \in Nat, m < n PROVE <<m, n>> \in OpToRel(<, Nat)
  BY <1>2, Zenon DEF OpToRel
<1>3. \A m \in T : m \in Nat /\ n \in Nat /\ ~ (m < n)
  BY <1>1, <1>2
<1> QED
  BY <1>3

(* A walk of n steps over the circle. *)
WalkOf(n, w) ==
  /\ w \in [0..n -> armed] /\ w[0] = first
  /\ \A i \in 1..n : w[i] = next[w[i - 1]]

LEMMA WalkExists ==
  ASSUME TimerTypeOK, Circle, first # Null
  PROVE  \A n \in Nat : \E w : WalkOf(n, w)
<1> DEFINE T == {n \in Nat : ~ \E w : WalkOf(n, w)}
<1>1. SUFFICES ASSUME T # {} PROVE FALSE
  OBVIOUS
<1>2. PICK k \in T : \A m \in T : k <= m
  BY <1>1, LeastNatural
<1>3. k \in Nat /\ ~ \E w : WalkOf(k, w)
  BY <1>2
<1>4. k # 0
  <2> DEFINE w == [i \in 0..0 |-> first]
  <2>1. WalkOf(0, w)
    BY DEF WalkOf, TimerTypeOK
  <2> QED
    BY <1>3, <2>1
<1>5. k - 1 \in Nat /\ \E w : WalkOf(k - 1, w)
  BY <1>2, <1>3, <1>4
<1>6. PICK v : WalkOf(k - 1, v)
  BY <1>5
<1> DEFINE w == [i \in 0..k |-> IF i = k THEN next[v[k - 1]] ELSE v[i]]
<1>7. WalkOf(k, w)
  <2>1. next[v[k - 1]] \in armed
    BY <1>3, <1>4, <1>6 DEF WalkOf, Circle
  <2>2. w \in [0..k -> armed] /\ w[0] = first
    BY <1>3, <1>4, <1>6, <2>1 DEF WalkOf
  <2>3. \A i \in 1..k : w[i] = next[w[i - 1]]
    BY <1>3, <1>4, <1>6 DEF WalkOf
  <2> QED
    BY <2>2, <2>3 DEF WalkOf
<1> QED
  BY <1>3, <1>7

LEMMA WalkIsUnique ==
  ASSUME NEW m \in Nat, NEW n \in Nat, m <= n, NEW v, NEW w, WalkOf(m, v), WalkOf(n, w)
  PROVE  \A i \in 0..m : v[i] = w[i]
<1> DEFINE T == {i \in 0..m : v[i] # w[i]}
<1>1. SUFFICES ASSUME T # {} PROVE FALSE
  OBVIOUS
<1>2. PICK k \in T : \A i \in T : k <= i
  <2>1. T \in SUBSET Nat
    OBVIOUS
  <2> QED
    BY <1>1, <2>1, LeastNatural
<1>3. k # 0 => v[k - 1] = w[k - 1]
  BY <1>2
<1> QED
  BY <1>2, <1>3 DEF WalkOf

(* What the recursive definition of Walk says. *)
LEMMA WalkSteps ==
  ASSUME TimerTypeOK, Circle, first # Null
  PROVE  Walk[0] = first /\ \A n \in Nat \ {0} : Walk[n] = next[Walk[n - 1]]
<1> DEFINE Steps(f) == f = [n \in Nat |-> IF n = 0 THEN first ELSE next[f[n - 1]]]
           Chosen(n) == CHOOSE w : WalkOf(n, w)
           g == [n \in Nat |-> Chosen(n)[n]]
<1>1. \A n \in Nat : WalkOf(n, Chosen(n))
  BY WalkExists
<1>2. \A n \in Nat : g[n] = IF n = 0 THEN first ELSE next[g[n - 1]]
  <2> HIDE DEF Chosen
  <2>1. g[0] = first
    BY <1>1 DEF WalkOf
  <2>2. ASSUME NEW n \in Nat \ {0} PROVE g[n] = next[g[n - 1]]
    <3>1. n - 1 \in Nat /\ n \in Nat /\ n - 1 <= n /\ n \in 1..n /\ n - 1 \in 0..(n - 1)
      OBVIOUS
    <3>2. WalkOf(n - 1, Chosen(n - 1)) /\ WalkOf(n, Chosen(n))
      BY <1>1, <3>1
    <3>3. Chosen(n - 1)[n - 1] = Chosen(n)[n - 1]
      BY <3>1, <3>2, WalkIsUnique
    <3>4. Chosen(n)[n] = next[Chosen(n)[n - 1]]
      BY <3>1, <3>2 DEF WalkOf
    <3> QED
      BY <3>1, <3>3, <3>4
  <2> QED
    BY <2>1, <2>2
<1> HIDE DEF Chosen
<1>3. Steps(g)
  BY <1>2
<1>4. Steps(Walk)
  <2>1. Walk = CHOOSE f : Steps(f)
    BY DEF Walk
  <2> HIDE DEF Steps, g
  <2> QED
    BY <1>3, <2>1
<1> QED
  BY <1>4

(* So the walk of ee_timer_event over the whole list meets every node of it: it
   stays on the circle, it is back where it was after as many steps as there are
   nodes, and what it has met by then is closed under `next'. *)
LEMMA WalkMeetsAll ==
  ASSUME TimerTypeOK, Circle
  PROVE  InList = armed
<1> DEFINE K == Cardinality(Nodes)
<1>1. CASE first = Null
  BY <1>1 DEF InList, Circle
<1>2. CASE first # Null
  <2>0. K \in Nat
    BY NodesAssumption, FS_CardinalityType
  <2>1. Walk[0] = first /\ \A n \in Nat \ {0} : Walk[n] = next[Walk[n - 1]]
    BY <1>2, WalkSteps
  <2> HIDE DEF K
  <2>2. \A n \in Nat : Walk[n] \in armed
    <3> DEFINE T == {n \in Nat : Walk[n] \notin armed}
    <3>1. SUFFICES ASSUME T # {} PROVE FALSE
      OBVIOUS
    <3>2. PICK k \in T : \A m \in T : k <= m
      BY <3>1, LeastNatural
    <3>3. k # 0 => Walk[k - 1] \in armed
      BY <3>2
    <3> QED
      BY <1>2, <2>1, <3>2, <3>3 DEF Circle, TimerTypeOK
  <2>3. PICK i \in 0..K, j \in 0..K : i < j /\ Walk[i] = Walk[j]
    <3> DEFINE w == [n \in 0..K |-> Walk[n]]
    <3>1. IsFiniteSet(0..K) /\ Cardinality(0..K) = K + 1
      BY <2>0, FS_Interval
    <3>2. w \in [0..K -> Nodes]
      BY <2>0, <2>2 DEF TimerTypeOK
    <3>3. \E x, y \in 0..K : x # y /\ w[x] = w[y]
      <4> HIDE DEF w
      <4>1. Cardinality(Nodes) < Cardinality(0..K)
        BY <2>0, <3>1 DEF K
      <4> QED
        BY <3>1, <3>2, <4>1, NodesAssumption, FS_PigeonHole
    <3>4. PICK x \in 0..K, y \in 0..K : x # y /\ Walk[x] = Walk[y]
      BY <3>3
    <3>5. x < y \/ y < x
      BY <2>0, <3>4
    <3> QED
      BY <3>4, <3>5
  <2>4. \A d \in Nat : Walk[i + d] = Walk[j + d]
    <3> DEFINE T == {d \in Nat : Walk[i + d] # Walk[j + d]}
    <3>1. SUFFICES ASSUME T # {} PROVE FALSE
      OBVIOUS
    <3>2. PICK k \in T : \A m \in T : k <= m
      BY <3>1, LeastNatural
    <3>3. k \in Nat /\ Walk[i + k] # Walk[j + k] /\ i \in Nat /\ j \in Nat
      BY <2>0, <3>2
    <3>4. k # 0
      BY <2>3, <3>3
    <3>5. Walk[i + (k - 1)] = Walk[j + (k - 1)]
      BY <3>2, <3>3, <3>4
    <3>6. Walk[i + k] = next[Walk[i + k - 1]] /\ Walk[j + k] = next[Walk[j + k - 1]]
      BY <2>1, <3>3, <3>4
    <3>7. i + (k - 1) = i + k - 1 /\ j + (k - 1) = j + k - 1
      BY <3>3
    <3> QED
      BY <3>3, <3>5, <3>6, <3>7
  <2>5. \A n \in Nat : Walk[n] \in InList
    <3> DEFINE T == {n \in Nat : Walk[n] \notin InList}
    <3>1. SUFFICES ASSUME T # {} PROVE FALSE
      OBVIOUS
    <3>2. PICK k \in T : \A m \in T : k <= m
      BY <3>1, LeastNatural
    <3>3. k > K
      BY <1>2, <2>0, <3>2 DEF InList, K
    <3>4. k - j \in Nat /\ k - (j - i) \in Nat /\ k - (j - i) < k
      BY <2>0, <2>3, <3>2, <3>3
    <3>5. Walk[k - (j - i)] = Walk[k]
      <4>1. i + (k - j) = k - (j - i) /\ j + (k - j) = k
        BY <2>0, <2>3, <3>2
      <4> QED
        BY <2>4, <3>4, <4>1
    <3>6. k - (j - i) \in T
      BY <3>2, <3>4, <3>5
    <3> QED
      BY <3>2, <3>4, <3>6
  <2>6. InList = {Walk[n] : n \in 0..K}
    BY <1>2 DEF InList, K
  <2>7. InList \in SUBSET armed /\ InList # {}
    BY <2>0, <2>2, <2>6
  <2>8. \A n \in InList : next[n] \in InList
    <3> SUFFICES ASSUME NEW n \in 0..K PROVE next[Walk[n]] \in InList
      BY <2>6
    <3>1. n + 1 \in Nat \ {0} /\ (n + 1) - 1 = n
      BY <2>0
    <3>2. Walk[n + 1] = next[Walk[n]]
      BY <2>1, <3>1
    <3> QED
      BY <2>5, <3>1, <3>2
  <2> QED
    BY <2>7, <2>8 DEF Circle
<1> QED
  BY <1>1, <1>2

(* The list of timers is one circle through every armed node and no freed one,
   readable in both directions, whatever callbacks and other threads insert and
   delete in the middle of the worker's walk (ee_insert_timer_node_nl,
   ee_delete_timer_node_nl). *)
THEOREM TimersAreACircle == TimerSpec => []ListIsACircle
<1>1. TimerInv => ListIsACircle
  BY WalkMeetsAll DEF TimerInv, Circle, ListIsACircle
<1> QED
  BY <1>1, TimerInvariant, PTL
=============================================================================
