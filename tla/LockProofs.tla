----------------------------- MODULE LockProofs -----------------------------
(***************************************************************************)
(* Proofs about the reader/writer lock, for any finite set of threads and  *)
(* any nesting, and about ecore, whose module lock is one of its users,    *)
(* for any configurations, names, bounds and behaviour of the modules.     *)
(*                                                                         *)
(* WriterExcludesAll is not inductive: that unlock's unprotected read      *)
(* picks the right branch follows from it, and it follows from unlock      *)
(* picking the right branch.  IInv joins the two with the balance of the   *)
(* books and with what a thread inside a call may count on.                *)
(*                                                                         *)
(* EcoreInv has, besides the types,                                        *)
(*   LockCounts  the depth of the lock is the number of sends that run in  *)
(*               the thread that owns it;                                  *)
(*   Begun       a thread of a module is made after ecore_start has passed *)
(*               the module, whichever module the thread will look up.     *)
(***************************************************************************)
EXTENDS RWLock, Ecore, SequenceTheorems, FiniteSetTheorems, WellFoundedInduction, TLAPS

(***************************************************************************)
(* The lock: module RWLock.                                                *)
(***************************************************************************)

(* What a thread inside a call holds. *)
CallInv ==
  \A t \in Threads :
    /\ pc[t] = "w_spin" => writer = 0
    /\ pc[t] = "u_dec" => ReadsOf(t) # {}
    /\ pc[t] \in {"u_rel", "u_leave"} => writes[t] > 0

IInv == TypeOK /\ WriterExcludesAll /\ BooksBalance /\ CallInv

----------------------------------------------------------------------------
(* The grants that are out are finitely many, so that Cardinality counts
   them: adding one adds one, taking one away takes one away. *)
LEMMA GrantsFinite ==
  ASSUME NEW G \in SUBSET (Threads \X Slots)
  PROVE  /\ IsFiniteSet(G)
         /\ Cardinality(G) \in Nat
         /\ Cardinality(G) = 0 <=> G = {}
<1>1. IsFiniteSet(Slots)
  BY FS_Interval, MaxHoldAssumption DEF Slots
<1>2. IsFiniteSet(Threads \X Slots)
  BY <1>1, FS_Product, ThreadsAssumption
<1>3. IsFiniteSet(G)
  BY <1>2, FS_Subset
<1> QED
  BY <1>3, FS_CardinalityType, FS_EmptySet

LEMMA GrantAdded ==
  ASSUME NEW G \in SUBSET (Threads \X Slots), NEW g, g \notin G
  PROVE  Cardinality(G \cup {g}) = Cardinality(G) + 1
BY GrantsFinite, FS_AddElement

LEMMA GrantRemoved ==
  ASSUME NEW G \in SUBSET (Threads \X Slots), NEW g \in G
  PROVE  Cardinality(G \ {g}) = Cardinality(G) - 1
BY GrantsFinite, FS_RemoveElement

(* Only the owner of the critical section writes, and while a thread writes
   the flag tells: the two facts every step leans on. *)
LEMMA OwnerWrites ==
  ASSUME IInv, NEW t \in Threads, writes[t] > 0 \/ Writing(t)
  PROVE  owner = t
BY DEF IInv, TypeOK, BooksBalance, Depth, Writing

----------------------------------------------------------------------------
LEMMA InitIInv == Init => IInv
<1> SUFFICES ASSUME Init PROVE IInv
  OBVIOUS
<1>1. TypeOK
  BY DEF Init, TypeOK, PCs
<1>2. WriterExcludesAll /\ CallInv
  BY DEF Init, WriterExcludesAll, CallInv
<1>3. BooksBalance
  <2>1. Cardinality({}) = 0
    BY FS_EmptySet
  <2> QED
    BY <2>1, ThreadsAssumption DEF Init, BooksBalance, Depth, Writing
<1> QED
  BY <1>1, <1>2, <1>3 DEF IInv

(* Every step keeps the types. *)
LEMMA TypeStep == TypeOK /\ BooksBalance /\ CallInv /\ [Next]_vars => TypeOK'
<1> SUFFICES ASSUME TypeOK, BooksBalance, CallInv, [Next]_vars PROVE TypeOK'
  OBVIOUS
<1> USE DEF TypeOK, PCs, Goto
<1>1. ASSUME NEW t \in Threads, Rlock(t) PROVE TypeOK'
  <2> USE DEF Enter, Leave
  <2>1. CASE CallRlock(t) \/ RlockEnter(t) \/ RlockDenied(t)
    BY <2>1 DEF CallRlock, RlockEnter, RlockDenied, BooksBalance
  <2>2. CASE RlockGranted(t)
    BY <2>2 DEF RlockGranted, BooksBalance
  <2> QED
    BY <1>1, <2>1, <2>2 DEF Rlock
<1>2. ASSUME NEW t \in Threads, Wlock(t) PROVE TypeOK'
  BY <1>2 DEF Wlock, CallWlock, WlockEnter, WlockAgain, WlockWait, WlockGranted, Enter
<1>3. ASSUME NEW t \in Threads, Unlock(t) PROVE TypeOK'
  <2>1. CASE CallUnlock(t) \/ UnlockWriter(t)
    BY <2>1 DEF CallUnlock, UnlockWriter
  <2>2. CASE UnlockReader(t)
    BY <2>2 DEF UnlockReader
  <2>3. CASE UnlockLeave(t)
    BY <2>3 DEF UnlockLeave, Leave, BooksBalance, CallInv
  <2> QED
    BY <1>3, <2>1, <2>2, <2>3 DEF Unlock
<1>4. CASE UNCHANGED vars
  BY <1>4 DEF vars
<1> QED
  BY <1>1, <1>2, <1>3, <1>4 DEF Next

----------------------------------------------------------------------------
(* In a state of IInv, at most one thread is in the critical section. *)
LEMMA OneInside ==
  ASSUME IInv, NEW t \in Threads, owner = t
  PROVE  \A u \in Threads \ {t} : writes[u] = 0 /\ ~Writing(u)
                                   /\ pc[u] \notin {"r_test", "w_test", "w_spin",
                                                    "u_rel", "u_leave"}
BY DEF IInv, TypeOK, PCs, BooksBalance, CallInv, Depth, Writing

LEMMA InsideOwns ==
  ASSUME IInv, NEW t \in Threads,
         pc[t] \in {"r_test", "w_test", "w_spin", "u_rel", "u_leave"}
  PROVE  owner = t
BY DEF IInv, TypeOK, PCs, BooksBalance, CallInv, Depth, Writing

(* The three ways a step changes `grants' or `writes' in the direction that
   could hurt: nobody writes when a reader is let in, ... *)
LEMMA NobodyWrites ==
  ASSUME IInv, NEW t \in Threads, RlockGranted(t)
  PROVE  \A u \in Threads : writes[u] = 0
<1>1. owner = t /\ pc[t] = "r_test" /\ writer = 0
  BY InsideOwns DEF RlockGranted, Goto
<1>2. writes[t] = 0
  BY <1>1 DEF IInv, TypeOK, BooksBalance, Writing
<1> QED
  BY <1>1, <1>2, OneInside

(* ... nobody reads and nobody else writes when a writer is let in, ... *)
LEMMA NobodyHolds ==
  ASSUME IInv, NEW t \in Threads, WlockGranted(t)
  PROVE  grants = {} /\ \A u \in Threads : writes[u] = 0
<1>1. owner = t /\ pc[t] = "w_spin" /\ writer = 0 /\ reader = 0
  BY InsideOwns DEF WlockGranted, Goto, IInv, CallInv
<1>2. grants = {}
  BY <1>1, GrantsFinite DEF IInv, TypeOK, BooksBalance
<1>3. writes[t] = 0
  BY <1>1 DEF IInv, TypeOK, BooksBalance, Writing
<1> QED
  BY <1>1, <1>2, <1>3, OneInside

(* ... and the caller is the writer when a nested request is let in. *)
LEMMA CallerWrites ==
  ASSUME IInv, NEW t \in Threads,
         pc[t] \in {"r_test", "w_test"}, writer # 0
  PROVE  owner = t /\ writes[t] > 0 /\ grants = {}
<1>1. owner = t
  BY InsideOwns
<1>2. PICK u \in Threads : Writing(u)
  BY DEF IInv, TypeOK, BooksBalance
<1>3. writes[u] > 0 /\ owner = u
  BY <1>2, OwnerWrites DEF IInv, TypeOK, Writing
<1> QED
  BY <1>1, <1>3 DEF IInv, WriterExcludesAll

LEMMA ExclusionStep == IInv /\ [Next]_vars => WriterExcludesAll'
<1> SUFFICES ASSUME IInv, [Next]_vars PROVE WriterExcludesAll'
  OBVIOUS
<1>0. TypeOK /\ WriterExcludesAll
  BY DEF IInv
<1> USE <1>0 DEF TypeOK, WriterExcludesAll, Goto
<1>1. ASSUME NEW t \in Threads, Rlock(t) PROVE WriterExcludesAll'
  <2>1. CASE CallRlock(t) \/ RlockEnter(t) \/ RlockDenied(t)
    BY <2>1 DEF CallRlock, RlockEnter, RlockDenied
  <2>2. CASE RlockGranted(t)
    <3>1. \A u \in Threads : writes[u] = 0
      BY <2>2, NobodyWrites
    <3> QED
      BY <2>2, <3>1 DEF RlockGranted
  <2> QED
    BY <1>1, <2>1, <2>2 DEF Rlock
<1>2. ASSUME NEW t \in Threads, Wlock(t) PROVE WriterExcludesAll'
  <2>1. CASE CallWlock(t) \/ WlockEnter(t) \/ WlockWait(t)
    BY <2>1 DEF CallWlock, WlockEnter, WlockWait
  <2>2. CASE WlockAgain(t)
    <3>1. owner = t /\ grants = {}
      BY <2>2, CallerWrites DEF WlockAgain
    <3>2. \A u \in Threads \ {t} : writes[u] = 0
      BY <3>1, OneInside
    <3> QED
      BY <2>2, <3>1, <3>2 DEF WlockAgain
  <2>3. CASE WlockGranted(t)
    <3>1. grants = {} /\ \A u \in Threads : writes[u] = 0
      BY <2>3, NobodyHolds
    <3> QED
      BY <2>3, <3>1 DEF WlockGranted
  <2> QED
    BY <1>2, <2>1, <2>2, <2>3 DEF Wlock
<1>3. ASSUME NEW t \in Threads, Unlock(t) PROVE WriterExcludesAll'
  <2>1. CASE CallUnlock(t) \/ UnlockWriter(t)
    BY <2>1 DEF CallUnlock, UnlockWriter
  <2>2. CASE UnlockReader(t)
    BY <2>2 DEF UnlockReader
  <2>3. CASE UnlockLeave(t)
    <3>1. writes[t] > 0
      BY <2>3 DEF UnlockLeave, IInv, CallInv
    <3> QED
      BY <2>3, <3>1 DEF UnlockLeave
  <2> QED
    BY <1>3, <2>1, <2>2, <2>3 DEF Unlock
<1>4. CASE UNCHANGED vars
  BY <1>4 DEF vars
<1> QED
  BY <1>1, <1>2, <1>3, <1>4 DEF Next

LEMMA CallStep == IInv /\ [Next]_vars => CallInv'
<1> SUFFICES ASSUME IInv, [Next]_vars PROVE CallInv'
  OBVIOUS
<1>0. TypeOK /\ CallInv /\ BooksBalance /\ WriterExcludesAll
  BY DEF IInv
<1> USE <1>0 DEF TypeOK, PCs, CallInv, Goto, ReadsOf
<1>1. ASSUME NEW t \in Threads, Rlock(t) PROVE CallInv'
  BY <1>1 DEF Rlock, CallRlock, RlockEnter, RlockDenied, RlockGranted
<1>2. ASSUME NEW t \in Threads, Wlock(t) PROVE CallInv'
  <2>1. CASE CallWlock(t) \/ WlockEnter(t) \/ WlockWait(t)
    BY <2>1 DEF CallWlock, WlockEnter, WlockWait
  <2>2. CASE WlockAgain(t)
    BY <2>2 DEF WlockAgain
  <2>3. CASE WlockGranted(t)
    <3>1. owner = t
      BY <2>3, InsideOwns DEF WlockGranted
    <3>2. \A u \in Threads \ {t} : pc[u] # "w_spin"
      BY <3>1, OneInside
    <3> QED
      BY <2>3, <3>2 DEF WlockGranted
  <2> QED
    BY <1>2, <2>1, <2>2, <2>3 DEF Wlock
<1>3. ASSUME NEW t \in Threads, Unlock(t) PROVE CallInv'
  <2>1. CASE CallUnlock(t)
    <3>1. writes[t] > 0 => writer = 1
      BY <2>1 DEF CallUnlock, BooksBalance, Writing
    <3>2. grants # {} => writer = 0
      BY GrantsFinite DEF BooksBalance, Writing, WriterExcludesAll
    <3> QED
      BY <2>1, <3>1, <3>2 DEF CallUnlock, Holds
  <2>2. CASE UnlockReader(t)
    BY <2>2 DEF UnlockReader
  <2>3. CASE UnlockWriter(t)
    BY <2>3 DEF UnlockWriter
  <2>4. CASE UnlockLeave(t)
    <3>1. owner = t
      BY <2>4, InsideOwns DEF UnlockLeave
    <3>2. \A u \in Threads \ {t} : pc[u] \notin {"u_rel", "u_leave"}
      BY <3>1, OneInside
    <3> QED
      BY <2>4, <3>2 DEF UnlockLeave
  <2> QED
    BY <1>3, <2>1, <2>2, <2>3, <2>4 DEF Unlock
<1>4. CASE UNCHANGED vars
  BY <1>4 DEF vars
<1> QED
  BY <1>1, <1>2, <1>3, <1>4 DEF Next

----------------------------------------------------------------------------
(* The three books, one lemma each. *)

LEMMA ReaderBook == IInv /\ [Next]_vars => reader' = Cardinality(grants')
<1> SUFFICES ASSUME IInv, [Next]_vars PROVE reader' = Cardinality(grants')
  OBVIOUS
<1>0. reader = Cardinality(grants) /\ grants \in SUBSET (Threads \X Slots)
  BY DEF IInv, BooksBalance, TypeOK
<1>1. ASSUME NEW t \in Threads, RlockGranted(t)
      PROVE reader' = Cardinality(grants')
  <2>1. PICK s \in Slots : <<t, s>> \notin grants /\ grants' = grants \cup {<<t, s>>}
    BY <1>1 DEF RlockGranted
  <2>2. Cardinality(grants') = Cardinality(grants) + 1
    BY <1>0, <2>1, GrantAdded
  <2> QED
    BY <1>0, <1>1, <2>2 DEF RlockGranted
<1>2. ASSUME NEW t \in Threads, UnlockReader(t)
      PROVE reader' = Cardinality(grants')
  <2>1. PICK g \in grants : grants' = grants \ {g}
    BY <1>2 DEF UnlockReader, ReadsOf
  <2>2. Cardinality(grants') = Cardinality(grants) - 1
    BY <1>0, <2>1, GrantRemoved
  <2> QED
    BY <1>0, <1>2, <2>2 DEF UnlockReader
<1>3. ASSUME NEW t \in Threads, Rlock(t) \/ Wlock(t) \/ Unlock(t),
             ~RlockGranted(t), ~UnlockReader(t)
      PROVE reader' = reader /\ grants' = grants
  BY <1>3 DEF Rlock, CallRlock, RlockEnter, RlockDenied, Wlock, CallWlock,
              WlockEnter, WlockAgain, WlockWait, WlockGranted, Unlock,
              CallUnlock, UnlockWriter, UnlockLeave
<1>4. CASE UNCHANGED vars
  BY <1>0, <1>4 DEF vars
<1> QED
  BY <1>0, <1>1, <1>2, <1>3, <1>4 DEF Next

DepthBook ==
  /\ \A t \in Threads :
       IF owner = t THEN count = Depth(t) /\ count > 0 ELSE Depth(t) = 0
  /\ owner = NoThread => count = 0

LEMMA DepthStep == IInv /\ [Next]_vars => DepthBook'
<1> SUFFICES ASSUME IInv, [Next]_vars PROVE DepthBook'
  OBVIOUS
<1>0. TypeOK /\ DepthBook /\ CallInv
  BY DEF IInv, BooksBalance, DepthBook
<1> USE <1>0, ThreadsAssumption DEF TypeOK, PCs, DepthBook, Depth, Goto
<1>1. ASSUME NEW t \in Threads, Rlock(t) PROVE DepthBook'
  <2>1. CASE CallRlock(t)
    BY <2>1 DEF CallRlock
  <2>2. CASE RlockEnter(t)
    BY <2>2 DEF RlockEnter, Enter
  <2>3. CASE RlockDenied(t)
    BY <2>3 DEF RlockDenied, Leave
  <2>4. CASE RlockGranted(t)
    BY <2>4 DEF RlockGranted, Leave
  <2> QED
    BY <1>1, <2>1, <2>2, <2>3, <2>4 DEF Rlock
<1>2. ASSUME NEW t \in Threads, Wlock(t) PROVE DepthBook'
  <2>1. CASE CallWlock(t)
    BY <2>1 DEF CallWlock
  <2>2. CASE WlockEnter(t)
    BY <2>2 DEF WlockEnter, Enter
  <2>3. CASE WlockAgain(t)
    BY <2>3 DEF WlockAgain
  <2>4. CASE WlockWait(t)
    BY <2>4 DEF WlockWait
  <2>5. CASE WlockGranted(t)
    BY <2>5 DEF WlockGranted
  <2> QED
    BY <1>2, <2>1, <2>2, <2>3, <2>4, <2>5 DEF Wlock
<1>3. ASSUME NEW t \in Threads, Unlock(t) PROVE DepthBook'
  <2>1. CASE CallUnlock(t)
    BY <2>1 DEF CallUnlock
  <2>2. CASE UnlockReader(t)
    BY <2>2 DEF UnlockReader
  <2>3. CASE UnlockWriter(t)
    BY <2>3 DEF UnlockWriter
  <2>4. CASE UnlockLeave(t)
    BY <2>4 DEF UnlockLeave, Leave, CallInv
  <2> QED
    BY <1>3, <2>1, <2>2, <2>3, <2>4 DEF Unlock
<1>4. CASE UNCHANGED vars
  BY <1>4 DEF vars
<1> QED
  BY <1>1, <1>2, <1>3, <1>4 DEF Next

FlagBook == writer = 1 <=> \E t \in Threads : Writing(t)

LEMMA FlagStep == IInv /\ [Next]_vars => FlagBook'
<1> SUFFICES ASSUME IInv, [Next]_vars PROVE FlagBook'
  OBVIOUS
<1>0. TypeOK /\ FlagBook /\ CallInv
  BY DEF IInv, BooksBalance, FlagBook
<1> USE <1>0 DEF TypeOK, PCs, FlagBook, Writing, Goto
<1>1. ASSUME NEW t \in Threads, Rlock(t) PROVE FlagBook'
  BY <1>1 DEF Rlock, CallRlock, RlockEnter, RlockDenied, RlockGranted
<1>2. ASSUME NEW t \in Threads, Wlock(t) PROVE FlagBook'
  <2>1. CASE CallWlock(t) \/ WlockEnter(t) \/ WlockWait(t)
    BY <2>1 DEF CallWlock, WlockEnter, WlockWait
  <2>2. CASE WlockAgain(t)
    BY <2>2 DEF WlockAgain
  <2>3. CASE WlockGranted(t)
    BY <2>3 DEF WlockGranted
  <2> QED
    BY <1>2, <2>1, <2>2, <2>3 DEF Wlock
<1>3. ASSUME NEW t \in Threads, Unlock(t) PROVE FlagBook'
  <2>1. CASE CallUnlock(t)
    BY <2>1 DEF CallUnlock
  <2>2. CASE UnlockReader(t)
    BY <2>2 DEF UnlockReader
  <2>3. CASE UnlockWriter(t)
    <3>1. pc[t] = "u_rel" /\ owner = t /\ count = writes[t]
      BY <2>3, InsideOwns DEF UnlockWriter, IInv, BooksBalance, Depth
    <3>2. \A u \in Threads \ {t} : writes[u] = 0
      BY <3>1, OneInside
    <3> QED
      BY <2>3, <3>1, <3>2 DEF UnlockWriter
  <2>4. CASE UnlockLeave(t)
    <3>1. owner = t
      BY <2>4, InsideOwns DEF UnlockLeave
    <3>2. \A u \in Threads \ {t} : writes[u] = 0
      BY <3>1, OneInside
    <3> QED
      BY <2>4, <3>2 DEF UnlockLeave
  <2> QED
    BY <1>3, <2>1, <2>2, <2>3, <2>4 DEF Unlock
<1>4. CASE UNCHANGED vars
  BY <1>4 DEF vars
<1> QED
  BY <1>1, <1>2, <1>3, <1>4 DEF Next

LEMMA IInvStep == IInv /\ [Next]_vars => IInv'
<1> SUFFICES ASSUME IInv, [Next]_vars PROVE IInv'
  OBVIOUS
<1>1. TypeOK'
  BY TypeStep DEF IInv
<1>2. WriterExcludesAll' /\ CallInv'
  BY ExclusionStep, CallStep
<1>3. BooksBalance'
  BY ReaderBook, DepthStep, FlagStep DEF BooksBalance, DepthBook, FlagBook
<1> QED
  BY <1>1, <1>2, <1>3 DEF IInv

----------------------------------------------------------------------------
(* Everything below holds in every reachable state, for any number of
   threads.  First the inductive invariant itself. *)
THEOREM InvariantHolds == Spec => []IInv
BY InitIInv, IInvStep, PTL DEF Spec

(* The variables stay in their types; in particular the writer flag is 0 or 1
   and the recursion count never goes below zero. *)
THEOREM TypeCorrect == Spec => []TypeOK
<1>1. IInv => TypeOK
  BY DEF IInv
<1> QED
  BY <1>1, InvariantHolds, PTL

(* Mutual exclusion: a write grant excludes every other grant. *)
THEOREM MutualExclusion == Spec => []WriterExcludesAll
<1>1. IInv => WriterExcludesAll
  BY DEF IInv
<1> QED
  BY <1>1, InvariantHolds, PTL

(* No unlock is too many or too few: the lock's counters are its grants. *)
THEOREM CountersExact == Spec => []BooksBalance
<1>1. IInv => BooksBalance
  BY DEF IInv
<1> QED
  BY <1>1, InvariantHolds, PTL

(* The branch unlock chose by its unprotected read is still the right one
   when it is taken. *)
THEOREM UnprotectedReadSafe == Spec => []UnlockReadStaysTrue
<1>1. IInv => UnlockReadStaysTrue
  <2> SUFFICES ASSUME IInv, NEW t \in Threads
               PROVE /\ pc[t] = "u_dec" => ReadsOf(t) # {} /\ writer = 0
                     /\ pc[t] = "u_rel" => writes[t] > 0 /\ owner = t /\ writer = 1
    BY DEF UnlockReadStaysTrue
  <2>1. CASE pc[t] = "u_dec"
    <3>1. ReadsOf(t) # {} /\ grants # {}
      BY <2>1 DEF IInv, CallInv, ReadsOf
    <3>2. \A u \in Threads : writes[u] = 0
      BY <3>1 DEF IInv, TypeOK, WriterExcludesAll
    <3>3. writer = 0
      BY <3>2 DEF IInv, TypeOK, BooksBalance, Writing
    <3> QED
      BY <2>1, <3>1, <3>3
  <2>2. CASE pc[t] = "u_rel"
    <3>1. owner = t /\ writes[t] > 0
      BY <2>2, InsideOwns DEF IInv, CallInv
    <3>2. writer = 1
      BY <2>2, <3>1 DEF IInv, TypeOK, BooksBalance, Writing
    <3> QED
      BY <2>2, <3>1, <3>2
  <2> QED
    BY <2>1, <2>2
<1> QED
  BY <1>1, InvariantHolds, PTL

(* Only the thread that writes is ever refused a read lock. *)
THEOREM RefusalOnlyToWriter == Spec => []OnlyTheWriterIsRefused
<1>1. IInv => OnlyTheWriterIsRefused
  BY CallerWrites DEF OnlyTheWriterIsRefused
<1> QED
  BY <1>1, InvariantHolds, PTL

----------------------------------------------------------------------------
(* Refinement: a step of the code that grants or gives back is that step of
   SharedLock, every other step changes nothing its callers can see. *)

LEMMA ReadSteps ==
  ASSUME IInv, NEW t \in Threads, Rlock(t)
  PROVE  [Abstract!Next]_(Abstract!vars)
<1>1. CASE RlockGranted(t)
  <2>1. \A u \in Threads : writes[u] = 0
    BY <1>1, NobodyWrites
  <2>2. Abstract!GrantRead(t)
    BY <1>1, <2>1 DEF RlockGranted, Abstract!GrantRead
  <2> QED
    BY <2>2 DEF Abstract!Next
<1>2. CASE CallRlock(t) \/ RlockEnter(t) \/ RlockDenied(t)
  BY <1>2 DEF CallRlock, RlockEnter, RlockDenied, Abstract!vars
<1> QED
  BY <1>1, <1>2 DEF Rlock

LEMMA WriteSteps ==
  ASSUME IInv, NEW t \in Threads, Wlock(t)
  PROVE  [Abstract!Next]_(Abstract!vars)
<1>1. CASE WlockAgain(t)
  <2>1. owner = t /\ grants = {}
    BY <1>1, CallerWrites DEF WlockAgain, Goto
  <2>2. \A u \in Threads \ {t} : writes[u] = 0
    BY <2>1, OneInside
  <2>3. Abstract!GrantWrite(t)
    BY <1>1, <2>1, <2>2 DEF WlockAgain, Abstract!GrantWrite
  <2> QED
    BY <2>3 DEF Abstract!Next
<1>2. CASE WlockGranted(t)
  <2>1. grants = {} /\ \A u \in Threads : writes[u] = 0
    BY <1>2, NobodyHolds
  <2>2. Abstract!GrantWrite(t)
    BY <1>2, <2>1 DEF WlockGranted, Abstract!GrantWrite
  <2> QED
    BY <2>2 DEF Abstract!Next
<1>3. CASE CallWlock(t) \/ WlockEnter(t) \/ WlockWait(t)
  BY <1>3 DEF CallWlock, WlockEnter, WlockWait, Abstract!vars
<1> QED
  BY <1>1, <1>2, <1>3 DEF Wlock

LEMMA ReleaseSteps ==
  ASSUME IInv, NEW t \in Threads, Unlock(t)
  PROVE  [Abstract!Next]_(Abstract!vars)
<1>1. CASE UnlockReader(t)
  <2>1. Abstract!ReleaseRead(t)
    BY <1>1 DEF UnlockReader, Abstract!ReleaseRead, Abstract!ReadsOf, ReadsOf
  <2> QED
    BY <2>1 DEF Abstract!Next
<1>2. CASE UnlockLeave(t)
  <2>1. writes[t] > 0
    BY <1>2 DEF UnlockLeave, Goto, IInv, CallInv
  <2>2. Abstract!ReleaseWrite(t)
    BY <1>2, <2>1 DEF UnlockLeave, Abstract!ReleaseWrite
  <2> QED
    BY <2>2 DEF Abstract!Next
<1>3. CASE CallUnlock(t) \/ UnlockWriter(t)
  BY <1>3 DEF CallUnlock, UnlockWriter, Abstract!vars
<1> QED
  BY <1>1, <1>2, <1>3 DEF Unlock

(* The lock implements SharedLock, for any number of threads and any nesting:
   callers may reason about it as if granting and releasing were atomic. *)
THEOREM LockRefinement == Spec => ImplementsSharedLock
<1>1. Init => Abstract!Init
  BY DEF Init, Abstract!Init
<1>2. IInv /\ [Next]_vars => [Abstract!Next]_(Abstract!vars)
  <2> SUFFICES ASSUME IInv, [Next]_vars PROVE [Abstract!Next]_(Abstract!vars)
    OBVIOUS
  <2>1. CASE UNCHANGED vars
    BY <2>1 DEF vars, Abstract!vars
  <2>2. ASSUME NEW t \in Threads, Rlock(t) \/ Wlock(t) \/ Unlock(t)
        PROVE [Abstract!Next]_(Abstract!vars)
    BY <2>2, ReadSteps, WriteSteps, ReleaseSteps
  <2> QED
    BY <2>1, <2>2 DEF Next
<1> QED
  BY <1>1, <1>2, InvariantHolds, PTL DEF Spec, ImplementsSharedLock, Abstract!Spec

(***************************************************************************)
(* The modules: module Ecore.                                              *)
(***************************************************************************)

Frames == [how : {"onload", "onstart", "post", "wait", "send"}, k : Int]
Posts  == [id : Nat, to : Int]

Shape ==
  /\ list \in Seq(Entries) /\ tree \in Seq(Entries) /\ master \in Int
  /\ Len(tree) + Len(list) <= MaxMods
  /\ main \in [at : {"load", "failed", "start", "launch", "done"}, k : Nat \ {0}]
  /\ thr \in [ModuleSlots \cup {Master} -> {"none", "failed", "ready", "started"}]
  /\ stack \in [EcoreThreads -> Seq(Frames)]
  /\ lock \in [owner : EcoreThreads \cup {None}, depth : Nat]
  /\ evq \in Seq(Posts) /\ (held # None => held \in Posts)
  /\ calls \in Nat

(* In(t, how), of a thread's entry points. *)
Sel(s, how) == {i \in DOMAIN s : s[i].how = how}

LockCounts ==
  /\ \A t \in EcoreThreads : Cardinality(Sel(stack[t], "send")) = IF lock.owner = t
     THEN lock.depth ELSE 0
  /\ lock.owner = None <=> lock.depth = 0

(* Nothing runs while ecore_load_modules fills the tree; between the onload of
   a module and its thread the index of a master is that module. *)
Loading ==
  main.at = "load" => /\ \A t \in ModuleSlots \cup {Master} : thr[t] = "none"
                      /\ \A t \in EcoreThreads : Sel(stack[t], "onstart") = {}
Launching ==
  main.at = "launch" => main.k \in Keys /\ (tree[main.k].type = "master" => master = main.k)

Begun ==
  OneMaster =>
    /\ \A t \in ModuleSlots : thr[t] # "none" => main.k > t
    /\ thr[Master] # "none" => master \in Keys /\ tree[master].type = "master" /\ main.k > master
    /\ \A t \in EcoreThreads : \A i \in Sel(stack[t], "onstart") : main.k > stack[t][i].k

Order == Loading /\ Launching /\ Begun
EcoreInv == Shape /\ LockCounts /\ Order
----------------------------------------------------------------------------
(* A thread's entry points: calling one, returning from it, and the send that
   gets the lock it waited for. *)

LEMMA FramesIn ==
  ASSUME Shape, NEW t \in EcoreThreads, NEW how
  PROVE  /\ stack[t] \in Seq(Frames) /\ Len(stack[t]) \in Nat /\ DOMAIN stack[t] = 1..Len(stack[t])
         /\ \A i \in 1..Len(stack[t]) : stack[t][i] \in Frames
         /\ Sel(stack[t], how) = {i \in 1..Len(stack[t]) : stack[t][i].how = how}
         /\ IsFiniteSet(Sel(stack[t], how)) /\ Cardinality(Sel(stack[t], how)) \in Nat
         /\ Sel(stack[t], how) = {} <=> Cardinality(Sel(stack[t], how)) = 0
<1>1. /\ stack[t] \in Seq(Frames) /\ Len(stack[t]) \in Nat /\ DOMAIN stack[t] = 1..Len(stack[t])
      /\ stack[t] \in [1..Len(stack[t]) -> Frames]
  BY LenProperties DEF Shape
<1>2. Sel(stack[t], how) \subseteq 1..Len(stack[t])
  BY <1>1 DEF Sel
<1>3. IsFiniteSet(Sel(stack[t], how))
  <2>1. IsFiniteSet(1..Len(stack[t]))
    BY <1>1, FS_Interval
  <2> QED
    BY <1>2, <2>1, FS_Subset
<1> QED
  BY <1>1, <1>3, FS_CardinalityType, FS_EmptySet DEF Sel

LEMMA OnCall ==
  ASSUME Shape, NEW t \in EcoreThreads, NEW f \in Frames,
         stack' = [stack EXCEPT ![t] = Append(@, f)]
  PROVE  /\ stack' \in [EcoreThreads -> Seq(Frames)]
         /\ \A how : \A u \in EcoreThreads : u # t \/ how # f.how
            => Sel(stack'[u], how) = Sel(stack[u], how)
         /\ \A u \in EcoreThreads : \A i \in DOMAIN stack[u] : stack'[u][i] = stack[u][i]
         /\ \A i \in Sel(stack'[t], f.how) : i \in Sel(stack[t], f.how) \/ stack'[t][i] = f
<1>1. /\ stack[t] \in Seq(Frames) /\ Len(stack[t]) \in Nat /\ DOMAIN stack[t] = 1..Len(stack[t])
  BY FramesIn
<1>2. /\ Append(stack[t], f) \in Seq(Frames) /\ Len(Append(stack[t], f)) = Len(stack[t]) + 1
      /\ Append(stack[t], f)[Len(stack[t]) + 1] = f
      /\ \A i \in 1..Len(stack[t]) : Append(stack[t], f)[i] = stack[t][i]
  BY <1>1, AppendProperties
<1>3. DOMAIN Append(stack[t], f) = 1..(Len(stack[t]) + 1)
  BY <1>2, LenProperties
<1>4. /\ stack'[t] = Append(stack[t], f) /\ \A u \in EcoreThreads \ {t} : stack'[u] = stack[u]
      /\ stack' \in [EcoreThreads -> Seq(Frames)]
  BY <1>2 DEF Shape
<1>5. \A how : \A u \in EcoreThreads : u # t => Sel(stack'[u], how) = Sel(stack[u], how)
  BY <1>4 DEF Sel
<1>6. \A i \in 1..(Len(stack[t]) + 1) : i \in 1..Len(stack[t]) \/ i = Len(stack[t]) + 1
  BY <1>1
<1>7. \A i \in 1..Len(stack[t]) : i \in 1..(Len(stack[t]) + 1)
  BY <1>1
<1>8. ASSUME NEW how, how # f.how PROVE Sel(stack'[t], how) = Sel(stack[t], how)
  BY <1>1, <1>2, <1>3, <1>4, <1>6, <1>7, <1>8 DEF Sel
<1>9. \A i \in Sel(stack'[t], f.how) : i \in Sel(stack[t], f.how) \/ stack'[t][i] = f
  BY <1>1, <1>2, <1>3, <1>4, <1>6 DEF Sel
<1>10. \A u \in EcoreThreads : \A i \in DOMAIN stack[u] : stack'[u][i] = stack[u][i]
  BY <1>1, <1>2, <1>4
<1> QED
  BY <1>4, <1>5, <1>8, <1>9, <1>10

LEMMA OnReturn ==
  ASSUME Shape, NEW t \in EcoreThreads, stack[t] # <<>>, stack' = [stack EXCEPT ![t] = Front(@)]
  PROVE  /\ stack' \in [EcoreThreads -> Seq(Frames)]
         /\ Last(stack[t]) \in Frames
         /\ \A how : \A u \in EcoreThreads : u # t \/ how # Last(stack[t]).how
            => Sel(stack'[u], how) = Sel(stack[u], how)
         /\ \A u \in EcoreThreads : \A i \in DOMAIN stack'[u] : i \in DOMAIN stack[u]
            /\ stack'[u][i] = stack[u][i]
         /\ \A how : how = Last(stack[t]).how =>
              Len(stack[t]) \in Sel(stack[t], how)
                   /\ Sel(stack'[t], how) = Sel(stack[t], how) \ {Len(stack[t])}
<1> DEFINE n == Len(stack[t])
<1>1. /\ stack[t] \in Seq(Frames) /\ n \in Nat \ {0} /\ DOMAIN stack[t] = 1..n
      /\ \A i \in 1..n : stack[t][i] \in Frames
  BY FramesIn, EmptySeq
<1>2. /\ Front(stack[t]) \in Seq(Frames) /\ Len(Front(stack[t])) = n - 1
      /\ \A i \in 1..(n - 1) : Front(stack[t])[i] = stack[t][i]
  <2>1. \A i \in 1..(n - 1) : stack[t][i] \in Frames
    BY <1>1
  <2>2. /\ SubSeq(stack[t], 1, n - 1) \in Seq(Frames)
        /\ Len(SubSeq(stack[t], 1, n - 1)) = IF 1 <= n - 1 THEN (n - 1) - 1 + 1 ELSE 0
        /\ \A i \in 1..((n - 1) - 1 + 1) : SubSeq(stack[t], 1, n - 1)[i] = stack[t][1 + i - 1]
    BY <1>1, <2>1, SubSeqProperties
  <2> QED
    BY <1>1, <2>2 DEF Front
<1>3. DOMAIN Front(stack[t]) = 1..(n - 1)
  BY <1>2, LenProperties
<1>4. /\ stack'[t] = Front(stack[t]) /\ \A u \in EcoreThreads \ {t} : stack'[u] = stack[u]
      /\ stack' \in [EcoreThreads -> Seq(Frames)]
  BY <1>2 DEF Shape
<1>5. \A how : \A u \in EcoreThreads : u # t => Sel(stack'[u], how) = Sel(stack[u], how)
  BY <1>4 DEF Sel
<1>6. Last(stack[t]) = stack[t][n] /\ n \in 1..n /\ \A i : i \in 1..(n - 1) <=> i \in 1..n /\ i # n
  BY <1>1 DEF Last
<1>7. \A how, i : i \in Sel(stack'[t], how) <=> i \in 1..(n - 1) /\ stack[t][i].how = how
  BY <1>2, <1>3, <1>4 DEF Sel
<1>8. \A how, i : i \in Sel(stack[t], how) <=> i \in 1..n /\ stack[t][i].how = how
  BY <1>1 DEF Sel
<1> HIDE DEF n
<1>9. ASSUME NEW how, how # Last(stack[t]).how PROVE Sel(stack'[t], how) = Sel(stack[t], how)
  <2>1. \A i : i \in Sel(stack'[t], how) <=> i \in 1..(n - 1) /\ stack[t][i].how = how
    BY <1>7
  <2>2. \A i : i \in Sel(stack[t], how) <=> i \in 1..n /\ stack[t][i].how = how
    BY <1>8
  <2> QED
    BY <1>6, <1>9, <2>1, <2>2
<1>10. ASSUME NEW how, how = Last(stack[t]).how
       PROVE  n \in Sel(stack[t], how) /\ Sel(stack'[t], how) = Sel(stack[t], how) \ {n}
  <2>1. \A i : i \in Sel(stack'[t], how) <=> i \in 1..(n - 1) /\ stack[t][i].how = how
    BY <1>7
  <2>2. \A i : i \in Sel(stack[t], how) <=> i \in 1..n /\ stack[t][i].how = how
    BY <1>8
  <2> QED
    BY <1>6, <1>10, <2>1, <2>2
<1>11. \A u \in EcoreThreads : \A i \in DOMAIN stack'[u] : i \in DOMAIN stack[u]
         /\ stack'[u][i] = stack[u][i]
  BY <1>1, <1>2, <1>3, <1>4, <1>6
<1> QED
  BY <1>1, <1>4, <1>5, <1>6, <1>9, <1>10, <1>11 DEF n

LEMMA OnEnter ==
  ASSUME Shape, NEW t \in EcoreThreads, stack[t] # <<>>, ~ Inside(t),
         stack' = [stack EXCEPT ![t][Len(stack[t])].how = "send"]
  PROVE  /\ stack' \in [EcoreThreads -> Seq(Frames)]
         /\ Last(stack[t]) \in Frames /\ Last(stack[t]).how = "wait"
         /\ \A how : \A u \in EcoreThreads : u # t \/ how \notin {"wait", "send"}
            => Sel(stack'[u], how) = Sel(stack[u], how)
         /\ \A u \in EcoreThreads : \A i \in DOMAIN stack'[u] :
               i \in DOMAIN stack[u] /\ stack'[u][i].k = stack[u][i].k
         /\ Len(stack[t]) \notin Sel(stack[t], "send")
            /\ Sel(stack'[t], "send") = Sel(stack[t], "send") \cup {Len(stack[t])}
<1> DEFINE n == Len(stack[t])
           f == [stack[t][n] EXCEPT !.how = "send"]
<1>1. /\ stack[t] \in Seq(Frames) /\ n \in Nat \ {0} /\ DOMAIN stack[t] = 1..n /\ n \in 1..n
      /\ \A i \in 1..n : stack[t][i] \in Frames
  BY FramesIn, EmptySeq
<1>2. Last(stack[t]) = stack[t][n] /\ stack[t][n].how = "wait"
  BY <1>1 DEF Inside, Last, Frames
<1>3. f \in Frames /\ f.how = "send" /\ f.k = stack[t][n].k
  BY <1>1 DEF Frames
<1>4. stack' = [stack EXCEPT ![t] = [stack[t] EXCEPT ![n] = f]]
  OBVIOUS
<1>5. /\ [stack[t] EXCEPT ![n] = f] \in Seq(Frames) /\ Len([stack[t] EXCEPT ![n] = f]) = n
      /\ \A i \in 1..n : [stack[t] EXCEPT ![n] = f][i] = IF i = n THEN f ELSE stack[t][i]
  BY <1>1, <1>3, ExceptSeq
<1>6. /\ stack'[t] = [stack[t] EXCEPT ![n] = f]
         /\ \A u \in EcoreThreads \ {t} : stack'[u] = stack[u]
      /\ stack' \in [EcoreThreads -> Seq(Frames)] /\ DOMAIN stack'[t] = 1..n
  BY <1>1, <1>4, <1>5, LenProperties DEF Shape
<1>7. \A how : \A u \in EcoreThreads : u # t => Sel(stack'[u], how) = Sel(stack[u], how)
  BY <1>6 DEF Sel
<1>8. \A how, i : /\ i \in Sel(stack'[t], how) <=> i \in 1..n /\ stack'[t][i].how = how
                  /\ i \in Sel(stack[t], how) <=> i \in 1..n /\ stack[t][i].how = how
  BY <1>1, <1>6 DEF Sel
<1>9. \A i \in 1..n : stack'[t][i] = IF i = n THEN f ELSE stack[t][i]
  BY <1>5, <1>6
<1> HIDE DEF n, f
<1>10. ASSUME NEW how, how \notin {"wait", "send"} PROVE Sel(stack'[t], how) = Sel(stack[t], how)
  <2>1. \A i : /\ i \in Sel(stack'[t], how) <=> i \in 1..n /\ stack'[t][i].how = how
               /\ i \in Sel(stack[t], how) <=> i \in 1..n /\ stack[t][i].how = how
    BY <1>8
  <2> QED
    BY <1>2, <1>3, <1>9, <1>10, <2>1
<1>11. n \notin Sel(stack[t], "send") /\ Sel(stack'[t], "send") = Sel(stack[t], "send") \cup {n}
  <2>1. /\ n \notin Sel(stack[t], "send")
        /\ \A i : i \in Sel(stack'[t], "send") <=> i \in Sel(stack[t], "send") \/ i = n
    <3>1. \A i : /\ i \in Sel(stack'[t], "send") <=> i \in 1..n /\ stack'[t][i].how = "send"
                 /\ i \in Sel(stack[t], "send") <=> i \in 1..n /\ stack[t][i].how = "send"
      BY <1>8
    <3> QED
      BY <1>1, <1>2, <1>3, <1>9, <3>1
  <2> QED
    BY <2>1
<1>12. \A u \in EcoreThreads : \A i \in DOMAIN stack'[u] : i \in DOMAIN stack[u]
         /\ stack'[u][i].k = stack[u][i].k
  BY <1>1, <1>3, <1>6, <1>9
<1>13. \A how : \A u \in EcoreThreads : u # t \/ how \notin {"wait", "send"} =>
          Sel(stack'[u], how) = Sel(stack[u], how)
  BY <1>7, <1>10
<1>14. Last(stack[t]) \in Frames /\ Last(stack[t]).how = "wait"
  BY <1>1, <1>2
<1> QED
  BY <1>6, <1>11, <1>12, <1>13, <1>14 DEF n
----------------------------------------------------------------------------
(* What get_module_index returns: a module that is loaded, or -1. *)

LEMMA LeastNatural ==
  ASSUME NEW T \in SUBSET Nat, T # {}
  PROVE  \E n \in T : \A m \in T : n <= m
<1>1. PICK n \in T : \A m \in T : ~ (<<m, n>> \in OpToRel(<, Nat))
  BY NatLessThanWellFounded, WFMin
<1>2. ASSUME NEW m \in Nat, m < n PROVE <<m, n>> \in OpToRel(<, Nat)
  BY <1>2, Zenon DEF OpToRel
<1>3. \A m \in T : m \in Nat /\ n \in Nat /\ ~ (m < n)
  BY <1>1, <1>2
<1> QED
  BY <1>3

LEMMA KeysAre ==
  ASSUME Shape
  PROVE  Keys = 1..Len(tree) /\ Len(tree) \in Nat /\ IsFiniteSet(Keys) /\ Keys \subseteq ModuleSlots
<1>1. Keys = 1..Len(tree) /\ Len(tree) \in Nat /\ Len(list) \in Nat
        /\ Len(tree) + Len(list) <= MaxMods
  BY LenProperties DEF Shape, Keys
<1>2. MaxMods \in Nat
  BY EcoreAssumption
<1>3. IsFiniteSet(1..Len(tree))
  BY <1>1, FS_Interval
<1> QED
  BY <1>1, <1>2, <1>3 DEF ModuleSlots

LEMMA FindIsKey ==
  ASSUME Shape, NEW n
  PROVE  /\ Find(n) \in Int
         /\ Find(n) # -1 => Find(n) \in Keys /\ Alike(tree[Find(n)].name, n)
<1> DEFINE hits == {k \in Keys : Alike(tree[k].name, n)}
<1>1. CASE hits = {}
  BY <1>1 DEF Find
<1>2. CASE hits # {}
  <2>1. hits \subseteq Nat
    BY KeysAre DEF ModuleSlots
  <2>2. \E k \in hits : \A j \in hits : k <= j
    BY <1>2, <2>1, LeastNatural
  <2>3. Find(n) = CHOOSE k \in hits : \A j \in hits : k <= j
    BY <1>2 DEF Find
  <2> HIDE DEF hits
  <2>4. Find(n) \in hits
    BY <2>2, <2>3
  <2> QED
    BY <2>1, <2>4 DEF hits
<1> QED
  BY <1>1, <1>2

(* There are no two masters where there is one at most. *)
LEMMA MasterIsOne ==
  ASSUME Shape, OneMaster, NEW j \in Keys, NEW k \in Keys,
         tree[j].type = "master", tree[k].type = "master"
  PROVE  j = k
<1> DEFINE M == {i \in Keys : tree[i].type = "master"}
<1>1. IsFiniteSet(M) /\ Cardinality(M) \in Nat /\ Cardinality(M) <= 1
  BY KeysAre, FS_Subset, FS_CardinalityType DEF OneMaster
<1>2. M # {}
  OBVIOUS
<1>3. Cardinality(M) = 1
  BY <1>1, <1>2, FS_EmptySet
<1>4. \E x : M = {x}
  BY <1>1, <1>3, FS_Singleton
<1> QED
  BY <1>4
----------------------------------------------------------------------------
(* Types. *)

LEMMA ShapeInit == EcoreInit => Shape
<1> SUFFICES ASSUME EcoreInit PROVE Shape
  OBVIOUS
<1>1. /\ \A S : <<>> \in Seq(S)
      /\ list \in Seq(Entries)
  BY EmptySeq, EcoreAssumption DEF EcoreInit
<1>2. Len(list) <= MaxMods /\ Len(tree) = 0 /\ Len(list) \in Nat
  BY <1>1, EmptySeq, LenProperties, EcoreAssumption DEF EcoreInit
<1> QED
  BY <1>1, <1>2, EcoreAssumption DEF EcoreInit, Shape

LEMMA LoadKeepsShape ==
  ASSUME Shape, Load
  PROVE  Shape'
<1>1. /\ Head(list) \in Entries /\ Tail(list) \in Seq(Entries)
      /\ Len(Tail(list)) = Len(list) - 1
  BY HeadTailProperties DEF Load, Shape
<1>2. Append(tree, Head(list)) \in Seq(Entries) /\ Len(Append(tree, Head(list))) = Len(tree) + 1
  BY <1>1, AppendProperties DEF Shape
<1>3. Len(list) \in Nat /\ Len(tree) \in Nat
  BY LenProperties DEF Shape
<1>4. Len(tree') + Len(list') <= MaxMods
  BY <1>1, <1>2, <1>3, EcoreAssumption DEF Load, Shape
<1> QED
  BY <1>1, <1>2, <1>4 DEF Load, Shape, queue

(* The steps that call no entry point and let none return. *)
LEMMA QuietKeepsShape ==
  ASSUME Shape, LoadFails \/ StartBegins \/ StartEnds \/ Launch
  PROVE  Shape'
<1> USE DEF Shape, loaded, queue
<1>1. CASE LoadFails \/ StartBegins \/ StartEnds
  BY <1>1 DEF LoadFails, StartBegins, StartEnds
<1>2. CASE Launch
  <2>1. thr' \in [ModuleSlots \cup {Master} -> {"none", "failed", "ready", "started"}]
    BY <1>2 DEF Launch
  <2>2. main' \in [at : {"load", "failed", "start", "launch", "done"}, k : Nat \ {0}]
    BY <1>2 DEF Launch
  <2> QED
    BY <1>2, <2>1, <2>2 DEF Launch
<1> QED
  BY <1>1, <1>2

(* A call of an entry point, or of a send that begins to wait. *)
Entered(t, f) == stack' = [stack EXCEPT ![t] = Append(@, f)]

LEMMA OnloadEnters ==
  ASSUME Shape, Onload
  PROVE  Shape' /\ \E f \in Frames : f.how = "onload" /\ Entered(Main, f)
<1> DEFINE f == [how |-> "onload", k |-> main.k]
<1>1. f \in Frames /\ Entered(Main, f) /\ Main \in EcoreThreads
  BY DEF Onload, EnterPoint, Entered, Frames, Shape, EcoreThreads
<1>2. stack' \in [EcoreThreads -> Seq(Frames)]
  BY <1>1, OnCall DEF Entered
<1>3. main' \in [at : {"load", "failed", "start", "launch", "done"}, k : Nat \ {0}]
  BY DEF Onload, Shape
<1>4. master' \in Int
  <2>1. main.k \in Int /\ master \in Int
    BY DEF Shape
  <2> QED
    BY <2>1 DEF Onload
<1>5. Shape'
  BY <1>2, <1>3, <1>4 DEF Onload, Shape, queue
<1> QED
  BY <1>1, <1>5

LEMMA ThreadRunsEnters ==
  ASSUME Shape, NEW t \in ModuleSlots \cup {Master}, ThreadRuns(t)
  PROVE  /\ Shape' /\ t \in EcoreThreads
         /\ \E f \in Frames : /\ f.how = "onstart" /\ f.k = (IF t = Master THEN master ELSE t)
                             /\ Entered(t, f)
<1> DEFINE f == [how |-> "onstart", k |-> IF t = Master THEN master ELSE t]
<1>1. f \in Frames /\ Entered(t, f) /\ t \in EcoreThreads
  BY DEF ThreadRuns, EnterPoint, Entered, Frames, Shape, EcoreThreads, ModuleSlots
<1>2. stack' \in [EcoreThreads -> Seq(Frames)]
  BY <1>1, OnCall DEF Entered
<1>3. thr' \in [ModuleSlots \cup {Master} -> {"none", "failed", "ready", "started"}]
  BY DEF ThreadRuns, Shape
<1>4. Shape'
  BY <1>2, <1>3 DEF ThreadRuns, Shape, queue, loaded
<1> QED
  BY <1>1, <1>4

LEMMA SendMessageEnters ==
  ASSUME Shape, NEW t \in EcoreThreads, NEW n, SendMessage(t, n)
  PROVE  Shape' /\ \E f \in Frames : f.how = "wait" /\ Entered(t, f)
<1> DEFINE f == [how |-> "wait", k |-> Find(n)]
<1>1. f \in Frames /\ Entered(t, f)
  BY FindIsKey DEF SendMessage, EnterPoint, Entered, Frames
<1>2. stack' \in [EcoreThreads -> Seq(Frames)]
  BY <1>1, OnCall DEF Entered
<1>3. Shape'
  BY <1>2 DEF SendMessage, Calls, Shape, queue, loaded
<1> QED
  BY <1>1, <1>3

LEMMA PostKeepsShape ==
  ASSUME Shape, NEW t \in EcoreThreads, NEW n, PostMessage(t, n)
  PROVE  Shape'
<1>1. [id |-> calls, to |-> Find(n)] \in Posts
  BY FindIsKey DEF Posts, Shape
<1>2. Append(evq, [id |-> calls, to |-> Find(n)]) \in Seq(Posts)
  BY <1>1, AppendProperties DEF Shape
<1> QED
  BY <1>2 DEF PostMessage, Calls, Shape, loaded

LEMMA HandleKeepsShape ==
  ASSUME Shape, Handle
  PROVE  /\ Shape'
         /\ UNCHANGED stack \/ \E f \in Frames : f.how = "post" /\ Entered(Handler, f)
<1>1. CASE Take
  <2>1. Head(evq) \in Posts /\ Tail(evq) \in Seq(Posts)
    BY <1>1, HeadTailProperties DEF Take, Shape
  <2> QED
    BY <1>1, <2>1 DEF Take, Shape, loaded
<1>2. CASE Deliver /\ held.to \in Keys
  <2> DEFINE f == [how |-> "post", k |-> held.to]
  <2>1. f \in Frames /\ Entered(Handler, f) /\ Handler \in EcoreThreads
    BY <1>2 DEF Deliver, EnterPoint, Entered, Frames, Shape, EcoreThreads, Posts
  <2>2. stack' \in [EcoreThreads -> Seq(Frames)]
    BY <2>1, OnCall DEF Entered
  <2>3. Shape'
    BY <1>2, <2>2 DEF Deliver, Shape, loaded
  <2> QED
    BY <2>1, <2>3
<1>3. CASE Deliver /\ held.to \notin Keys
  BY <1>3 DEF Deliver, Shape, loaded
<1> QED
  BY <1>1, <1>2, <1>3 DEF Handle

LEMMA SendEntersKeepsShape ==
  ASSUME Shape, NEW t \in EcoreThreads, SendEnters(t)
  PROVE  Shape'
<1>1. CASE Last(stack[t]).k \in Keys
  <2>1. stack' \in [EcoreThreads -> Seq(Frames)]
    BY <1>1, OnEnter DEF SendEnters
  <2>2. lock' \in [owner : EcoreThreads \cup {None}, depth : Nat]
    BY <1>1 DEF SendEnters, Shape
  <2> QED
    BY <1>1, <2>1, <2>2 DEF SendEnters, Shape, loaded, queue
<1>2. CASE Last(stack[t]).k \notin Keys
  <2>1. stack' \in [EcoreThreads -> Seq(Frames)]
    BY <1>2, OnReturn DEF SendEnters
  <2> QED
    BY <1>2, <2>1 DEF SendEnters, Shape, loaded, queue
<1> QED
  BY <1>1, <1>2
----------------------------------------------------------------------------
(* The module lock. *)

LEMMA LockInit == EcoreInit => LockCounts
<1> SUFFICES ASSUME EcoreInit PROVE LockCounts
  OBVIOUS
<1>1. \A t \in EcoreThreads : Sel(stack[t], "send") = {}
  BY DEF EcoreInit, Sel
<1> QED
  BY <1>1, FS_EmptySet, EcoreAssumption DEF EcoreInit, LockCounts

LEMMA SameSends ==
  ASSUME LockCounts, UNCHANGED lock,
         \A t \in EcoreThreads : Sel(stack'[t], "send") = Sel(stack[t], "send")
  PROVE  LockCounts'
BY DEF LockCounts

(* send_message_to: its thread owns the lock once more. *)
LEMMA SendEntersCounts ==
  ASSUME Shape, LockCounts, NEW t \in EcoreThreads, SendEnters(t)
  PROVE  LockCounts'
<1>1. CASE Last(stack[t]).k \in Keys
  <2>1. /\ \A u \in EcoreThreads \ {t} : Sel(stack'[u], "send") = Sel(stack[u], "send")
        /\ Len(stack[t]) \notin Sel(stack[t], "send")
           /\ Sel(stack'[t], "send") = Sel(stack[t], "send") \cup {Len(stack[t])}
    BY <1>1, OnEnter DEF SendEnters
  <2>2. Cardinality(Sel(stack'[t], "send")) = Cardinality(Sel(stack[t], "send")) + 1
    BY <2>1, FramesIn, FS_AddElement
  <2>3. lock.owner \in {None, t} /\ lock' = [owner |-> t, depth |-> lock.depth + 1]
          /\ lock.depth \in Nat
    BY <1>1 DEF SendEnters, Free, Shape
  <2>4. Cardinality(Sel(stack[t], "send")) = lock.depth
    BY <2>3, EcoreAssumption DEF LockCounts
  <2>5. \A u \in EcoreThreads \ {t} : Cardinality(Sel(stack[u], "send")) = 0
    BY <2>3, EcoreAssumption DEF LockCounts
  <2>6. \A u \in EcoreThreads : Cardinality(Sel(stack'[u], "send")) = IF lock'.owner = u
          THEN lock'.depth ELSE 0
    BY <2>1, <2>2, <2>3, <2>4, <2>5
  <2> QED
    BY <2>3, <2>6, EcoreAssumption DEF LockCounts
<1>2. CASE Last(stack[t]).k \notin Keys
  <2>1. stack[t] # <<>> /\ ~ Inside(t) /\ stack' = [stack EXCEPT ![t] = Front(@)] /\ UNCHANGED lock
    BY <1>2 DEF SendEnters
  <2>2. \A u \in EcoreThreads : u # t \/ "send" # Last(stack[t]).how
          => Sel(stack'[u], "send") = Sel(stack[u], "send")
    BY <2>1, OnReturn
  <2>3. Last(stack[t]).how = "wait"
    BY <2>1 DEF Inside
  <2> QED
    BY <2>1, <2>2, <2>3, SameSends
<1> QED
  BY <1>1, <1>2

(* The return of an onmessage gives the lock back once. *)
LEMMA ReturnCounts ==
  ASSUME Shape, LockCounts, NEW t \in EcoreThreads, Return(t)
  PROVE  Shape' /\ LockCounts'
<1>1. stack[t] # <<>> /\ stack' = [stack EXCEPT ![t] = Front(@)]
  BY DEF Return, Inside
<1>2. stack' \in [EcoreThreads -> Seq(Frames)]
  BY <1>1, OnReturn
<1>3. CASE Last(stack[t]).how # "send"
  <2>1. UNCHANGED lock /\ \A u \in EcoreThreads : Sel(stack'[u], "send") = Sel(stack[u], "send")
    BY <1>1, <1>3, OnReturn DEF Return
  <2>2. Shape'
    BY <1>2, <2>1 DEF Return, Shape, loaded, queue
  <2> QED
    BY <2>1, <2>2, SameSends
<1>4. CASE Last(stack[t]).how = "send"
  <2>1. /\ \A u \in EcoreThreads \ {t} : Sel(stack'[u], "send") = Sel(stack[u], "send")
        /\ Len(stack[t]) \in Sel(stack[t], "send")
           /\ Sel(stack'[t], "send") = Sel(stack[t], "send") \ {Len(stack[t])}
    <3>1. \A u \in EcoreThreads : u # t \/ "send" # Last(stack[t]).how
            => Sel(stack'[u], "send") = Sel(stack[u], "send")
      BY <1>1, OnReturn
    <3>2. "send" = Last(stack[t]).how =>
             Len(stack[t]) \in Sel(stack[t], "send")
                  /\ Sel(stack'[t], "send") = Sel(stack[t], "send") \ {Len(stack[t])}
      BY <1>1, OnReturn
    <3> QED
      BY <1>4, <3>1, <3>2
  <2>2. /\ Cardinality(Sel(stack'[t], "send")) = Cardinality(Sel(stack[t], "send")) - 1
        /\ Cardinality(Sel(stack[t], "send")) \in Nat \ {0}
    <3>1. IsFiniteSet(Sel(stack[t], "send")) /\ Cardinality(Sel(stack[t], "send")) \in Nat
          /\ (Sel(stack[t], "send") = {} <=> Cardinality(Sel(stack[t], "send")) = 0)
      BY FramesIn
    <3>2. Cardinality(Sel(stack[t], "send") \ {Len(stack[t])}) = Cardinality(Sel(stack[t],
            "send")) - 1
      BY <2>1, <3>1, FS_RemoveElement
    <3> QED
      BY <2>1, <3>1, <3>2
  <2>3. lock.owner = t /\ lock.depth = Cardinality(Sel(stack[t], "send"))
    BY <2>2 DEF LockCounts
  <2>4. lock' = IF lock.depth = 1 THEN [owner |-> None, depth |-> 0]
                ELSE [lock EXCEPT !.depth = @ - 1]
    BY <1>4 DEF Return
  <2>5. lock \in [owner : EcoreThreads \cup {None}, depth : Nat] /\ lock.depth - 1 \in Nat
    BY <2>2, <2>3 DEF Shape
  <2>6. /\ lock' \in [owner : EcoreThreads \cup {None}, depth : Nat]
        /\ lock.depth = 1 => lock'.owner = None /\ lock'.depth = 0
        /\ lock.depth # 1 => lock'.owner = t /\ lock'.depth = lock.depth - 1
    <3>1. CASE lock.depth = 1
      BY <2>4, <3>1
    <3>2. CASE lock.depth # 1
      BY <2>3, <2>4, <2>5, <3>2
    <3> QED
      BY <3>1, <3>2
  <2>7. \A u \in EcoreThreads \ {t} : Cardinality(Sel(stack[u], "send")) = 0
    BY <2>3 DEF LockCounts
  <2>8. \A u \in EcoreThreads : Cardinality(Sel(stack'[u], "send")) = IF lock'.owner = u
          THEN lock'.depth ELSE 0
    BY <2>1, <2>2, <2>3, <2>6, <2>7, EcoreAssumption
  <2>9. LockCounts'
    BY <2>2, <2>3, <2>6, <2>8, EcoreAssumption DEF LockCounts
  <2>10. Shape'
    BY <1>2, <2>6 DEF Return, Shape, loaded, queue
  <2> QED
    BY <2>9, <2>10
<1> QED
  BY <1>3, <1>4
----------------------------------------------------------------------------
(* onload before onstart. *)

LEMMA OrderInit == EcoreInit => Order
<1> SUFFICES ASSUME EcoreInit PROVE Order
  OBVIOUS
<1>1. \A t \in EcoreThreads : Sel(stack[t], "onstart") = {}
  BY DEF EcoreInit, Sel
<1>2. \A t \in ModuleSlots \cup {Master} : thr[t] = "none"
  BY DEF EcoreInit
<1> QED
  BY <1>1, <1>2 DEF EcoreInit, Order, Loading, Launching, Begun

(* Where ecore_start and the threads stand still, no onstart begins. *)
LEMMA OrderKept ==
  ASSUME Order, UNCHANGED <<tree, master, main, thr>>,
         \A t \in EcoreThreads : \A i \in Sel(stack'[t], "onstart") :
            i \in Sel(stack[t], "onstart") /\ stack'[t][i].k = stack[t][i].k
  PROVE  Order'
<1>1. Loading' /\ Launching'
  BY DEF Order, Loading, Launching, Keys
<1>2. OneMaster' => OneMaster
  BY DEF OneMaster, Keys
<1>3. Begun'
  BY <1>2 DEF Order, Begun, Keys
<1> QED
  BY <1>1, <1>3 DEF Order

LEMMA SameOnstarts ==
  ASSUME Shape, NEW t \in EcoreThreads, NEW f \in Frames, f.how # "onstart", Entered(t, f)
  PROVE  \A u \in EcoreThreads : \A i \in Sel(stack'[u], "onstart") :
            i \in Sel(stack[u], "onstart") /\ stack'[u][i].k = stack[u][i].k
<1>1. \A u \in EcoreThreads : Sel(stack'[u], "onstart") = Sel(stack[u], "onstart")
  <2>1. \A how : \A u \in EcoreThreads : u # t \/ how # f.how
          => Sel(stack'[u], how) = Sel(stack[u], how)
    BY OnCall DEF Entered
  <2> QED
    BY <2>1
<1>2. \A u \in EcoreThreads : \A i \in DOMAIN stack[u] : stack'[u][i] = stack[u][i]
  BY OnCall DEF Entered
<1> QED
  BY <1>1, <1>2 DEF Sel

LEMMA ReturnKeepsOrder ==
  ASSUME Shape, Order, NEW t \in EcoreThreads, Return(t) \/ SendEnters(t)
  PROVE  Order'
<1>1. UNCHANGED <<tree, master, main, thr>> /\ stack[t] # <<>>
  BY DEF Return, SendEnters, loaded, Inside
<1>2. CASE stack' = [stack EXCEPT ![t] = Front(@)]
  <2>1. \A u \in EcoreThreads : \A i \in DOMAIN stack'[u] : i \in DOMAIN stack[u]
          /\ stack'[u][i] = stack[u][i]
    BY <1>1, <1>2, OnReturn
  <2>2. \A u \in EcoreThreads : \A i \in Sel(stack'[u], "onstart") :
           i \in Sel(stack[u], "onstart") /\ stack'[u][i].k = stack[u][i].k
    BY <2>1 DEF Sel
  <2> QED
    BY <1>1, <2>2, OrderKept
<1>3. CASE ~ Inside(t) /\ stack' = [stack EXCEPT ![t][Len(stack[t])].how = "send"]
  <2>1. \A u \in EcoreThreads : u # t \/ "onstart" \notin {"wait", "send"}
          => Sel(stack'[u], "onstart") = Sel(stack[u], "onstart")
    BY <1>1, <1>3, OnEnter
  <2>2. \A u \in EcoreThreads : \A i \in DOMAIN stack'[u] : i \in DOMAIN stack[u]
          /\ stack'[u][i].k = stack[u][i].k
    BY <1>1, <1>3, OnEnter
  <2>3. \A u \in EcoreThreads : Sel(stack'[u], "onstart") = Sel(stack[u], "onstart")
    BY <2>1
  <2>4. \A u \in EcoreThreads : \A i \in Sel(stack'[u], "onstart") : i \in DOMAIN stack'[u]
    BY DEF Sel
  <2> QED
    BY <1>1, <2>2, <2>3, <2>4, OrderKept
<1> QED
  BY <1>2, <1>3 DEF Return, SendEnters

(* An entry point that is no onstart, of a thread that waits for nothing. *)
LEMMA EnterKeepsOrder ==
  ASSUME Shape, Order, NEW t \in EcoreThreads, NEW f \in Frames, f.how # "onstart", Entered(t, f),
         UNCHANGED <<tree, master, main, thr>>
  PROVE  Order'
BY SameOnstarts, OrderKept

LEMMA LoadKeepsOrder ==
  ASSUME Shape, Order, Load \/ LoadFails \/ StartBegins \/ StartEnds
  PROVE  Order'
<1>1. CASE Load
  BY <1>1 DEF Load, Order, Loading, Launching, Begun, Sel, queue
<1>2. CASE LoadFails \/ StartBegins \/ StartEnds
  <2>1. main' \in {[main EXCEPT !.at = a] : a \in {"failed", "start", "done"}}
    BY <1>2 DEF LoadFails, StartBegins, StartEnds
  <2>2. /\ UNCHANGED <<tree, master, thr, stack>> /\ main'.k = main.k
        /\ main'.at \notin {"load", "launch"}
    BY <1>2, <2>1 DEF LoadFails, StartBegins, StartEnds, loaded, Shape
  <2>3. OneMaster' => OneMaster
    BY <2>2 DEF OneMaster, Keys
  <2> QED
    BY <2>2, <2>3 DEF Order, Loading, Launching, Begun, Sel, Keys
<1> QED
  BY <1>1, <1>2

(* start_module_onload sets the index of a master: if a thread of a master
   exists already, it is a second one. *)
LEMMA OnloadKeepsOrder ==
  ASSUME Shape, Order, Onload
  PROVE  Order'
<1>1. /\ main.at = "start" /\ main.k \in Keys /\ main'.at = "launch" /\ main'.k = main.k
      /\ master' = IF tree[main.k].type = "master" THEN main.k ELSE master
      /\ UNCHANGED <<tree, thr>>
  BY DEF Onload, Shape
<1>2. \A u \in EcoreThreads : \A i \in Sel(stack'[u], "onstart") :
         i \in Sel(stack[u], "onstart") /\ stack'[u][i].k = stack[u][i].k
  BY OnloadEnters, SameOnstarts DEF EcoreThreads
<1>3. Loading' /\ Launching'
  BY <1>1 DEF Loading, Launching, Keys
<1>4. ASSUME OneMaster PROVE thr[Master] # "none" => master' = master
  <2>1. ASSUME thr[Master] # "none", tree[main.k].type = "master" PROVE FALSE
    <3>1. master \in Keys /\ tree[master].type = "master" /\ main.k > master
      BY <1>4, <2>1 DEF Order, Begun
    <3>2. main.k = master
      BY <1>1, <1>4, <2>1, <3>1, MasterIsOne
    <3> QED
      BY <3>1, <3>2 DEF Shape
  <2> QED
    BY <1>1, <2>1
<1>5. OneMaster' => OneMaster
  BY <1>1 DEF OneMaster, Keys
<1>6. Begun'
  BY <1>1, <1>2, <1>4, <1>5 DEF Order, Begun, Keys
<1> QED
  BY <1>3, <1>6 DEF Order

(* The thread of a module is made, and ecore_start goes on to the next. *)
LEMMA LaunchKeepsOrder ==
  ASSUME Shape, Order, Launch
  PROVE  Order'
<1>1. /\ main.at = "launch" /\ main'.at = "start" /\ main'.k = main.k + 1 /\ main.k \in Nat
      /\ UNCHANGED <<tree, master, stack>>
  BY DEF Launch, Shape, loaded
<1>2. \A t \in ModuleSlots \cup {Master} : thr'[t] # "none" => thr[t] # "none" \/ t = Thread(main.k)
  BY DEF Launch, Shape
<1>3. main.k \in Keys /\ (tree[main.k].type = "master" => master = main.k)
  BY <1>1 DEF Order, Launching
<1>4. \A t \in ModuleSlots : t # Master /\ t \in Nat
  BY EcoreAssumption DEF ModuleSlots
<1>5. \A t \in ModuleSlots : t = Thread(main.k) => t = main.k
  BY <1>4 DEF Thread
<1>6. Master = Thread(main.k) /\ thr'[Master] # "none" /\ thr[Master] = "none"
         => tree[main.k].type = "master"
  <2>1. main.k \in ModuleSlots
    BY <1>3, KeysAre
  <2> QED
    BY <1>4, <2>1 DEF Thread
<1>7. OneMaster' => OneMaster
  BY <1>1 DEF OneMaster, Keys
<1>8. ASSUME OneMaster
      PROVE  /\ \A t \in ModuleSlots : thr'[t] # "none" => main.k + 1 > t
             /\ thr'[Master] # "none" =>
                  master \in Keys /\ tree[master].type = "master" /\ main.k + 1 > master
             /\ \A t \in EcoreThreads : \A i \in Sel(stack[t],
                "onstart") : main.k + 1 > stack[t][i].k
  <2>1. \A t \in ModuleSlots : thr'[t] # "none" => main.k + 1 > t
    BY <1>1, <1>2, <1>4, <1>5, <1>8 DEF Order, Begun
  <2>2. thr'[Master] # "none" =>
           master \in Keys /\ tree[master].type = "master" /\ main.k + 1 > master
    BY <1>1, <1>2, <1>3, <1>6, <1>8 DEF Order, Begun, Shape
  <2>3. \A t \in EcoreThreads : \A i \in Sel(stack[t], "onstart") : stack[t][i].k \in Int
    <3>1. \A t \in EcoreThreads : \A i \in 1..Len(stack[t]) : stack[t][i] \in Frames
      BY FramesIn
    <3>2. \A t \in EcoreThreads : DOMAIN stack[t] = 1..Len(stack[t])
      BY FramesIn
    <3> QED
      BY <3>1, <3>2 DEF Frames, Sel
  <2>4. \A t \in EcoreThreads : \A i \in Sel(stack[t], "onstart") : main.k + 1 > stack[t][i].k
    BY <1>1, <1>8, <2>3 DEF Order, Begun
  <2> QED
    BY <2>1, <2>2, <2>4
<1>9. Begun'
  BY <1>1, <1>7, <1>8 DEF Begun, Keys, Sel
<1>10. Loading' /\ Launching'
  BY <1>1 DEF Loading, Launching
<1> QED
  BY <1>9, <1>10 DEF Order

(* A thread enters the onstart of its module. *)
LEMMA ThreadRunsKeepsOrder ==
  ASSUME Shape, Order, NEW t \in ModuleSlots \cup {Master}, ThreadRuns(t)
  PROVE  Order'
<1>1. /\ UNCHANGED <<tree, master, main>> /\ thr[t] = "ready"
      /\ \A u \in ModuleSlots \cup {Master} : thr'[u] # "none" => thr[u] # "none"
  BY DEF ThreadRuns, Shape, loaded
<1>2. PICK f \in Frames : /\ f.how = "onstart" /\ f.k = (IF t = Master THEN master ELSE t)
                         /\ Entered(t, f)
  BY ThreadRunsEnters
<1>3. t \in EcoreThreads
  BY ThreadRunsEnters
<1>4. /\ \A u \in EcoreThreads : u # t \/ "onstart" # f.how
         => Sel(stack'[u], "onstart") = Sel(stack[u], "onstart")
      /\ \A u \in EcoreThreads : \A i \in DOMAIN stack[u] : stack'[u][i] = stack[u][i]
      /\ \A i \in Sel(stack'[t], f.how) : i \in Sel(stack[t], f.how) \/ stack'[t][i] = f
  BY <1>2, <1>3, OnCall DEF Entered
<1>5. ASSUME NEW u \in EcoreThreads, NEW i \in Sel(stack'[u], "onstart")
      PROVE  \/ i \in Sel(stack[u], "onstart") /\ stack'[u][i] = stack[u][i]
             \/ u = t /\ stack'[u][i] = f
  BY <1>2, <1>4, <1>5 DEF Sel
<1>6. OneMaster => main.k > f.k
  BY <1>1, <1>2 DEF Order, Begun
<1>7. main.at # "load"
  BY <1>1 DEF Order, Loading
<1>8. OneMaster' => OneMaster
  BY <1>1 DEF OneMaster, Keys
<1>9. Begun'
  BY <1>1, <1>5, <1>6, <1>8 DEF Order, Begun, Keys
<1>10. Loading' /\ Launching'
  BY <1>1, <1>7 DEF Order, Loading, Launching, Keys
<1> QED
  BY <1>9, <1>10 DEF Order
----------------------------------------------------------------------------
(* All steps together. *)

(* The calls of entry points that wait for no lock keep its books. *)
LEMMA EnterKeepsCounts ==
  ASSUME Shape, LockCounts, NEW t \in EcoreThreads, NEW f \in Frames, f.how # "send", Entered(t, f),
         UNCHANGED lock
  PROVE  LockCounts'
<1>1. \A u \in EcoreThreads : Sel(stack'[u], "send") = Sel(stack[u], "send")
  <2>1. \A how : \A u \in EcoreThreads : u # t \/ how # f.how
          => Sel(stack'[u], how) = Sel(stack[u], how)
    BY OnCall DEF Entered
  <2> QED
    BY <2>1
<1> QED
  BY <1>1, SameSends

LEMMA InvStep ==
  ASSUME EcoreInv, [EcoreNext]_ecoreVars
  PROVE  EcoreInv'
<1> USE DEF EcoreInv
<1>1. CASE Load \/ LoadFails \/ StartBegins \/ StartEnds
  <2>1. UNCHANGED <<stack, lock>>
    BY <1>1 DEF Load, LoadFails, StartBegins, StartEnds
  <2>2. Shape'
    BY <1>1, LoadKeepsShape, QuietKeepsShape
  <2>3. LockCounts'
    BY <2>1 DEF LockCounts
  <2> QED
    BY <1>1, <2>2, <2>3, LoadKeepsOrder
<1>2. CASE Onload
  <2>1. Shape' /\ UNCHANGED lock /\ \E f \in Frames : f.how = "onload" /\ Entered(Main, f)
    BY <1>2, OnloadEnters DEF Onload
  <2>2. LockCounts'
    BY <2>1, EnterKeepsCounts DEF EcoreThreads
  <2> QED
    BY <1>2, <2>1, <2>2, OnloadKeepsOrder
<1>3. CASE Launch
  <2>1. Shape' /\ Order'
    BY <1>3, QuietKeepsShape, LaunchKeepsOrder
  <2>2. LockCounts'
    BY <1>3 DEF Launch, LockCounts
  <2> QED
    BY <2>1, <2>2
<1>4. CASE Handle
  <2>1. UNCHANGED <<tree, master, main, thr, lock>>
    BY <1>4 DEF Handle, Take, Deliver, loaded
  <2>2. Shape'
    BY <1>4, HandleKeepsShape
  <2>3. CASE UNCHANGED stack
    <3>1. LockCounts'
      BY <2>1, <2>3 DEF LockCounts
    <3>2. Order'
      BY <2>1, <2>3, OrderKept
    <3> QED
      BY <2>2, <3>1, <3>2
  <2>4. CASE \E f \in Frames : f.how = "post" /\ Entered(Handler, f)
    BY <2>1, <2>2, <2>4, EnterKeepsCounts, EnterKeepsOrder DEF EcoreThreads
  <2> QED
    BY <1>4, <2>3, <2>4, HandleKeepsShape
<1>5. ASSUME NEW t \in ModuleSlots \cup {Master}, ThreadRuns(t) PROVE EcoreInv'
  <2>1. /\ Shape' /\ UNCHANGED lock /\ t \in EcoreThreads
        /\ \E f \in Frames : f.how = "onstart" /\ Entered(t, f)
    BY <1>5, ThreadRunsEnters DEF ThreadRuns
  <2>2. LockCounts'
    BY <2>1, EnterKeepsCounts
  <2> QED
    BY <1>5, <2>1, <2>2, ThreadRunsKeepsOrder
<1>6. ASSUME NEW t \in EcoreThreads, SendEnters(t) PROVE EcoreInv'
  BY <1>6, SendEntersKeepsShape, SendEntersCounts, ReturnKeepsOrder
<1>7. ASSUME NEW t \in EcoreThreads, Return(t) PROVE EcoreInv'
  BY <1>7, ReturnCounts, ReturnKeepsOrder
<1>8. ASSUME NEW t \in EcoreThreads, NEW n \in Names, PostMessage(t, n) PROVE EcoreInv'
  <2>1. UNCHANGED <<tree, master, main, thr, stack, lock>>
    BY <1>8 DEF PostMessage, loaded
  <2>2. LockCounts'
    BY <2>1 DEF LockCounts
  <2>3. Order'
    BY <2>1, OrderKept
  <2> QED
    BY <1>8, <2>2, <2>3, PostKeepsShape
<1>9. ASSUME NEW t \in EcoreThreads, NEW n \in Names, SendMessage(t, n) PROVE EcoreInv'
  <2>1. /\ Shape' /\ UNCHANGED <<tree, master, main, thr, lock>>
        /\ \E f \in Frames : f.how = "wait" /\ Entered(t, f)
    BY <1>9, SendMessageEnters DEF SendMessage, loaded
  <2> QED
    BY <2>1, EnterKeepsCounts, EnterKeepsOrder
<1>10. CASE UNCHANGED ecoreVars
  <2>1. UNCHANGED <<list, tree, master, main, thr, stack, lock, evq, held, calls>>
    BY <1>10 DEF ecoreVars, loaded, queue
  <2>2. Shape' /\ LockCounts'
    BY <2>1 DEF Shape, LockCounts
  <2>3. Order'
    BY <2>1, OrderKept
  <2> QED
    BY <2>2, <2>3
<1> QED
  BY <1>1, <1>2, <1>3, <1>4, <1>5, <1>6, <1>7, <1>8, <1>9, <1>10 DEF EcoreNext, EcoreStart

(* Whatever the modules do in their entry points, the module lock counts the
   sends of its owner, and ecore_start is past every module that has a thread:
   the steps of ecore_start, the threads and the handler all keep that. *)
THEOREM EcoreInvariant == EcoreSpec => []EcoreInv
<1>1. EcoreInit => EcoreInv
  BY ShapeInit, LockInit, OrderInit DEF EcoreInv
<1>2. EcoreInv /\ [EcoreNext]_ecoreVars => EcoreInv'
  BY InvStep
<1> QED
  BY <1>1, <1>2, PTL DEF EcoreSpec

(* send_message_to keeps the module lock until the onmessage it called has
   returned, also when that sends in its turn: the onmessage calls of two
   threads' sends never run side by side. *)
THEOREM SendsExcludeEachOther == EcoreSpec => []SendersExclude
<1>1. EcoreInv => SendersExclude
  <2> SUFFICES ASSUME EcoreInv, NEW t \in EcoreThreads, NEW u \in EcoreThreads,
                      In(t, "send") # {}, In(u, "send") # {}
               PROVE  t = u
    BY DEF SendersExclude
  <2>1. In(t, "send") = Sel(stack[t], "send") /\ In(u, "send") = Sel(stack[u], "send")
    BY DEF In, Sel
  <2>2. Cardinality(Sel(stack[t], "send")) # 0 /\ Cardinality(Sel(stack[u], "send")) # 0
    BY <2>1, FramesIn DEF EcoreInv
  <2>3. lock.owner = t /\ lock.owner = u
    BY <2>2 DEF EcoreInv, LockCounts
  <2> QED
    BY <2>3
<1> QED
  BY <1>1, EcoreInvariant, PTL

(* ecore_start_modules calls onload before it makes or resumes the thread that
   will call onstart, and master_thread finds the module whose onload set the
   index: with one master no onstart begins before that module's onload is
   over. *)
THEOREM OnstartFollowsOnload == EcoreSpec => []StartsAfterOnload
<1>1. EcoreInv => StartsAfterOnload
  BY DEF EcoreInv, Order, Begun, StartsAfterOnload, OnloadIsOver, In, Sel
<1> QED
  BY <1>1, EcoreInvariant, PTL
=============================================================================
