------------------------------- MODULE RWLock -------------------------------
(***************************************************************************)
(* The reader/writer lock of lbs_rwlock.c, thp_rwlock.c and the copies the *)
(* other projects of the repository link: a Windows CRITICAL_SECTION       *)
(* (owner and RecursionCount), a count of readers and a writer flag.       *)
(*                                                                         *)
(*   rlock   enters the critical section, is refused if `writer' is set,   *)
(*           else counts itself as a reader and leaves;                    *)
(*   wlock   enters, returns at once if `writer' is set (the caller must   *)
(*           be the writer), else spins INSIDE the critical section until  *)
(*           the last reader has gone, and keeps the critical section;     *)
(*   unlock  reads `writer' WITHOUT the critical section to learn whether  *)
(*           it gives back a read or a write, and acts on what it read.    *)
(*                                                                         *)
(* A thread calls any of the three in any order, but gives back only what  *)
(* a call granted it, as the header asks.  `grants' and `writes' record    *)
(* what the calls returned: the lock is right when they make sense, not    *)
(* when its own counters do.                                               *)
(***************************************************************************)
EXTENDS Integers, FiniteSets

CONSTANTS Threads,   \* the threads that use one lock object
          NoThread,  \* the critical section has no owner
          MaxHold    \* bound: how many grants a thread collects before it
                     \* stops asking for more

ASSUME ThreadsAssumption == IsFiniteSet(Threads) /\ NoThread \notin Threads
ASSUME MaxHoldAssumption == MaxHold \in Nat \ {0}

VARIABLES
  owner,    \* CRITICAL_SECTION.OwningThread
  count,    \* CRITICAL_SECTION.RecursionCount
  reader,   \* lbs_lock_t.reader
  writer,   \* lbs_lock_t.writer
  pc,       \* where each thread is
  grants,   \* read locks granted and not given back: <<thread, slot>>
  writes    \* write locks granted and not given back, per thread

vars == <<owner, count, reader, writer, pc, grants, writes>>

Slots == 1..MaxHold
ReadsOf(t) == {g \in grants : g[1] = t}
Holds(t) == ReadsOf(t) # {} \/ writes[t] > 0

(* "out"     runs its own code, outside every call
   "r_enter" in rlock, at EnterCriticalSection
   "r_test"  in rlock, inside the critical section, before testing `writer'
   "w_enter" in wlock, at EnterCriticalSection
   "w_test"  in wlock, inside, before testing `writer'
   "w_spin"  in wlock, inside, waiting for `reader' to become 0
   "u_dec"   in unlock, `writer' was read as 0
   "u_rel"   in unlock, `writer' was read as set, before the recursion test
   "u_leave" in unlock, at LeaveCriticalSection                            *)
PCs == {"out", "r_enter", "r_test", "w_enter", "w_test", "w_spin",
        "u_dec", "u_rel", "u_leave"}

TypeOK ==
  /\ owner \in Threads \cup {NoThread}
  /\ count \in Nat
  /\ reader \in Int
  /\ writer \in {0, 1}
  /\ pc \in [Threads -> PCs]
  /\ grants \subseteq Threads \X Slots
  /\ writes \in [Threads -> Nat]

(* calloc and InitializeCriticalSection. *)
Init ==
  /\ owner = NoThread /\ count = 0
  /\ reader = 0 /\ writer = 0
  /\ pc = [t \in Threads |-> "out"]
  /\ grants = {}
  /\ writes = [t \in Threads |-> 0]

Goto(t, from, to) == pc[t] = from /\ pc' = [pc EXCEPT ![t] = to]

(* EnterCriticalSection and LeaveCriticalSection of Windows: the owner may
   enter again, and must leave as often as it entered. *)
Enter(t) ==
  /\ owner \in {NoThread, t}
  /\ owner' = t
  /\ count' = count + 1

Leave(t) ==
  /\ owner = t
  /\ count' = count - 1
  /\ owner' = IF count = 1 THEN NoThread ELSE t

----------------------------------------------------------------------------
(* rlock *)

CallRlock(t) ==
  /\ Goto(t, "out", "r_enter")
  /\ Cardinality(ReadsOf(t)) + writes[t] < MaxHold
  /\ UNCHANGED <<owner, count, reader, writer, grants, writes>>

RlockEnter(t) ==
  /\ Goto(t, "r_enter", "r_test")
  /\ Enter(t)
  /\ UNCHANGED <<reader, writer, grants, writes>>

(* A plausible fault: the reader counts itself in before the test, and a
   refused reader forgets to count itself out. *)
RlockDeniedStaysCounted(t) ==
  /\ Goto(t, "r_test", "out")
  /\ writer # 0
  /\ reader' = reader + 1
  /\ Leave(t)
  /\ UNCHANGED <<writer, grants, writes>>

(* `writer' is set: leave and return 1. *)
RlockDenied(t) ==
  /\ Goto(t, "r_test", "out")
  /\ writer # 0
  /\ Leave(t)
  /\ UNCHANGED <<reader, writer, grants, writes>>

(* A plausible fault: the flag is not tested, the writer reads too. *)
RlockIgnoresWriter(t) ==
  /\ Goto(t, "r_test", "out")
  /\ reader' = reader + 1
  /\ Leave(t)
  /\ \E s \in Slots : /\ <<t, s>> \notin grants
                      /\ \A r \in 1..(s - 1) : <<t, r>> \in grants
                      /\ grants' = grants \cup {<<t, s>>}
  /\ UNCHANGED <<writer, writes>>

RlockGranted(t) ==
  /\ Goto(t, "r_test", "out")
  /\ writer = 0
  /\ reader' = reader + 1
  /\ Leave(t)
  /\ \E s \in Slots : /\ <<t, s>> \notin grants
                      /\ \A r \in 1..(s - 1) : <<t, r>> \in grants
                      /\ grants' = grants \cup {<<t, s>>}
  /\ UNCHANGED <<writer, writes>>

----------------------------------------------------------------------------
(* wlock *)

CallWlock(t) ==
  /\ Goto(t, "out", "w_enter")
  /\ Cardinality(ReadsOf(t)) + writes[t] < MaxHold
  /\ UNCHANGED <<owner, count, reader, writer, grants, writes>>

WlockEnter(t) ==
  /\ Goto(t, "w_enter", "w_test")
  /\ Enter(t)
  /\ UNCHANGED <<reader, writer, grants, writes>>

(* The writer asks again: the critical section is entered once more and the
   call returns 0 without touching the flags. *)
WlockAgain(t) ==
  /\ Goto(t, "w_test", "out")
  /\ writer # 0
  /\ writes' = [writes EXCEPT ![t] = @ + 1]
  /\ UNCHANGED <<owner, count, reader, writer, grants>>

WlockWait(t) ==
  /\ Goto(t, "w_test", "w_spin")
  /\ writer = 0
  /\ UNCHANGED <<owner, count, reader, writer, grants, writes>>

(* A plausible fault: wlock does not wait for the readers. *)
WlockGrantedAtOnce(t) ==
  /\ Goto(t, "w_spin", "out")
  /\ writer' = 1
  /\ writes' = [writes EXCEPT ![t] = @ + 1]
  /\ UNCHANGED <<owner, count, reader, grants>>

WlockGranted(t) ==
  /\ Goto(t, "w_spin", "out")
  /\ reader = 0
  /\ writer' = 1
  /\ writes' = [writes EXCEPT ![t] = @ + 1]
  /\ UNCHANGED <<owner, count, reader, grants>>

----------------------------------------------------------------------------
(* unlock *)

(* A plausible fault: the recursion count is not looked at, so the first of
   two nested unlocks already clears the flag. *)
UnlockClearsAtOnce(t) ==
  /\ Goto(t, "u_rel", "u_leave")
  /\ writer' = 0
  /\ UNCHANGED <<owner, count, reader, grants, writes>>

(* The unprotected read of `writer'. *)
CallUnlock(t) ==
  /\ Holds(t)
  /\ IF writer = 0 THEN Goto(t, "out", "u_dec") ELSE Goto(t, "out", "u_rel")
  /\ UNCHANGED <<owner, count, reader, writer, grants, writes>>

(* InterlockedDecrement; nobody holds the critical section for it. *)
UnlockReader(t) ==
  /\ Goto(t, "u_dec", "out")
  /\ reader' = reader - 1
  /\ \E g \in ReadsOf(t) : /\ \A h \in ReadsOf(t) : h[2] <= g[2]
                           /\ grants' = grants \ {g}
  /\ UNCHANGED <<owner, count, writer, writes>>

UnlockWriter(t) ==
  /\ Goto(t, "u_rel", "u_leave")
  /\ writer' = IF count = 1 THEN 0 ELSE writer
  /\ UNCHANGED <<owner, count, reader, grants, writes>>

UnlockLeave(t) ==
  /\ Goto(t, "u_leave", "out")
  /\ Leave(t)
  /\ writes' = [writes EXCEPT ![t] = @ - 1]
  /\ UNCHANGED <<reader, writer, grants>>
----------------------------------------------------------------------------

Rlock(t) == CallRlock(t) \/ RlockEnter(t) \/ RlockDenied(t) \/ RlockGranted(t)
Wlock(t) == CallWlock(t) \/ WlockEnter(t) \/ WlockAgain(t) \/ WlockWait(t)
              \/ WlockGranted(t)
Unlock(t) == CallUnlock(t) \/ UnlockReader(t) \/ UnlockWriter(t)
               \/ UnlockLeave(t)

Next == \E t \in Threads : Rlock(t) \/ Wlock(t) \/ Unlock(t)

(* A running thread goes on running (weak fairness of the steps inside a
   call), and whoever holds a grant gives one back in the end (weak fairness
   of CallUnlock).  Nothing is assumed of the threads that wait to enter the
   critical section: Windows promises them no order. *)
Fairness ==
  \A t \in Threads :
    /\ WF_vars(RlockDenied(t) \/ RlockGranted(t))
    /\ WF_vars(WlockAgain(t) \/ WlockWait(t) \/ WlockGranted(t))
    /\ WF_vars(CallUnlock(t))
    /\ WF_vars(UnlockReader(t) \/ UnlockWriter(t) \/ UnlockLeave(t))

Spec == Init /\ [][Next]_vars
FairSpec == Spec /\ Fairness

----------------------------------------------------------------------------
(* Properties *)

(* A write grant excludes every other grant, whichever thread has it: what
   rlock and wlock returned to their callers never conflicts, although the
   spinning writer and the departing readers decide on `reader' and `writer'
   at different moments and under different protection. *)
WriterExcludesAll ==
  \A t \in Threads :
    writes[t] > 0 => grants = {} /\ \A u \in Threads \ {t} : writes[u] = 0

(* How deep each thread is in the critical section. *)
Depth(t) == writes[t] + (IF pc[t] \in {"r_test", "w_test", "w_spin"} THEN 1 ELSE 0)

(* A thread whose write access shows in the `writer' flag: from the step that
   sets the flag to the unlock step that clears it. *)
Writing(t) == writes[t] > (IF pc[t] = "u_leave" THEN 1 ELSE 0)

(* The lock's own books agree with what it granted: `reader' counts the read
   grants, the recursion count the write grants and the calls inside, and the
   flag is set just while a thread writes.  So when everything is given back
   the lock is as new: no unlock is too many or too few, although unlock
   chooses its branch from a flag it reads unprotected. *)
BooksBalance ==
  /\ reader = Cardinality(grants)
  /\ \A t \in Threads :
       IF owner = t THEN count = Depth(t) /\ count > 0 ELSE Depth(t) = 0
  /\ owner = NoThread => count = 0
  /\ writer = 1 <=> \E t \in Threads : Writing(t)

(* What unlock read of `writer' still holds when it acts on it: a reader that
   is about to decrement has a read grant and nobody writes, and a thread
   about to clear the flag owns the critical section and the flag is set. *)
UnlockReadStaysTrue ==
  \A t \in Threads :
    /\ pc[t] = "u_dec" => ReadsOf(t) # {} /\ writer = 0
    /\ pc[t] = "u_rel" => writes[t] > 0 /\ owner = t /\ writer = 1

(* rlock turns a caller away only if that caller itself is the writer: any
   other thread waits for the writer and is served, never refused. *)
OnlyTheWriterIsRefused ==
  \A t \in Threads : pc[t] = "r_test" /\ writer # 0 => writes[t] > 0

(* The lock promises what SharedLock says. *)
Abstract == INSTANCE SharedLock
ImplementsSharedLock == Abstract!Spec

(* A thread that holds a read lock and asks the same lock for another one. *)
AsksAgain(t) ==
  ReadsOf(t) # {} /\ pc[t] \in {"r_enter", "w_enter", "w_test", "w_spin"}

(* A writer that spins in wlock gets the lock, unless a reader (perhaps the
   writer itself) asks for the lock again while it holds a read lock: that
   request waits for the writer and the writer for its holder.  This is the
   one way the lock can hang, and it is the caller's doing. *)
SpinningWriterIsServed ==
  \A t \in Threads :
    pc[t] = "w_spin" ~> (pc[t] # "w_spin" \/ \E u \in Threads : AsksAgain(u))
=============================================================================
