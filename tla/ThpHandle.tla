----------------------------- MODULE ThpHandle -----------------------------
(***************************************************************************)
(* The handles of the thread pool, thp_handle.c: every object of the       *)
(* library (pool, task server, watcher) sits behind a handle with a        *)
(* reader/writer lock, a reference count and an `alive' flag, and all the  *)
(* handles are in one doubly linked list behind one lock.                  *)
(*                                                                         *)
(*   thp_handle_rlock, wlock  find the handle in the list and count a      *)
(*      reference (list lock), wait for the handle's own lock, and turn    *)
(*      back if the handle has died meanwhile;                             *)
(*   a deleter (thp_delete_pool, thp_delete_task_server,                   *)
(*      thp_delete_watcher) clears `alive' under the write lock;           *)
(*   thp_handle_unlock  reads `alive', gives the lock back, drops the      *)
(*      reference (list lock) and frees the handle if what it READ was     *)
(*      dead and nobody refers to it any more.                             *)
(*                                                                         *)
(* The list lock is a mutex (module RWLock), so what happens under it is   *)
(* one step; the handle's own lock grants what module SharedLock says.     *)
(* Bounds: a thread locks one handle at a time; the application never      *)
(* deletes the first handle of the list (KeepFirst) and the allocator      *)
(* never returns an address a second time (`used').  The code is wrong     *)
(* without either; see the README.                                         *)
(***************************************************************************)
EXTENDS Integers, FiniteSets

CONSTANTS Threads,    \* the threads of the application and of the pool
          Handles,    \* the addresses calloc may return
          NoHandle,   \* no handle
          Nobody,     \* no thread
          KeepFirst   \* the first handle of the list is never deleted

ASSUME ThreadsAssumption == IsFiniteSet(Threads) /\ Nobody \notin Threads
ASSUME HandlesAssumption == IsFiniteSet(Handles) /\ NoHandle \notin Handles
ASSUME KeepFirstAssumption == KeepFirst \in BOOLEAN

VARIABLES
  pool,        \* g_handle_pool
  next, prev,  \* the links of each handle
  alive,       \* handle->alive
  refcnt,      \* handle->refcnt
  readers,     \* the threads that hold the handle's lock for reading
  writer,      \* the thread that holds it for writing, or Nobody
  allocated,   \* the handles that are not freed
  used,        \* the addresses calloc has returned so far
  known,       \* the handles thp_new_handle has returned to callers
  pc, at,      \* where each thread is, and with which handle
  mode,        \* "r" or "w": which lock it asked for
  saw          \* is_alive, the local variable of thp_handle_unlock

list == <<pool, next, prev>>
handleVars == <<list, alive, refcnt, readers, writer, allocated, used, known,
                pc, at, mode, saw>>

(* "out"    outside the library
   "born"   in thp_new_handle, appended, `alive' not yet set
   "wait"   referenced, waits for the handle's lock
   "held"   rlock or wlock returned LBS_CODE_OK
   "unlock" about to call thp_handle_unlock on a dead handle
   "rel"    in thp_handle_unlock, `alive' was read
   "drop"   in thp_handle_unlock, the handle's lock was given back          *)
PCs == {"out", "born", "wait", "held", "unlock", "rel", "drop"}

HandleTypeOK ==
  /\ pool \in Handles \cup {NoHandle}
  /\ next \in [Handles -> Handles \cup {NoHandle}]
  /\ prev \in [Handles -> Handles \cup {NoHandle}]
  /\ alive \in [Handles -> BOOLEAN]
  /\ refcnt \in [Handles -> Nat]
  /\ readers \in [Handles -> SUBSET Threads]
  /\ writer \in [Handles -> Threads \cup {Nobody}]
  /\ allocated \subseteq used /\ known \subseteq used /\ used \subseteq Handles
  /\ pc \in [Threads -> PCs]
  /\ at \in [Threads -> Handles \cup {NoHandle}]
  /\ mode \in [Threads -> {"r", "w"}]
  /\ saw \in [Threads -> BOOLEAN]

HandleInit ==
  /\ pool = NoHandle
  /\ next = [h \in Handles |-> NoHandle] /\ prev = [h \in Handles |-> NoHandle]
  /\ alive = [h \in Handles |-> FALSE]
  /\ refcnt = [h \in Handles |-> 0]
  /\ readers = [h \in Handles |-> {}]
  /\ writer = [h \in Handles |-> Nobody]
  /\ allocated = {} /\ used = {} /\ known = {}
  /\ pc = [t \in Threads |-> "out"]
  /\ at = [t \in Threads |-> NoHandle]
  /\ mode = [t \in Threads |-> "r"]
  /\ saw = [t \in Threads |-> TRUE]

(* The walk thp_find_handle_in_pool and thp_append_handle make: node number n
   from the head, NoHandle when the list has ended. *)
Walk[n \in Nat] ==
  IF n = 0 THEN pool
  ELSE IF Walk[n - 1] = NoHandle THEN NoHandle ELSE next[Walk[n - 1]]

Listed == {Walk[n] : n \in 0..Cardinality(Handles)} \ {NoHandle}
LastListed == CHOOSE h \in Listed : next[h] = NoHandle

Goto(t, from, to) == pc[t] = from /\ pc' = [pc EXCEPT ![t] = to]
----------------------------------------------------------------------------
(* thp_new_handle: calloc, and thp_append_handle under the list lock. *)

NewAppend(t, h) ==
  /\ Goto(t, "out", "born")
  /\ h \notin used
  /\ at' = [at EXCEPT ![t] = h]
  /\ allocated' = allocated \cup {h} /\ used' = used \cup {h}
  /\ IF pool = NoHandle
     THEN pool' = h /\ UNCHANGED <<next, prev>>
     ELSE /\ next' = [next EXCEPT ![LastListed] = h]
          /\ prev' = [prev EXCEPT ![h] = LastListed]
          /\ UNCHANGED pool
  /\ UNCHANGED <<alive, refcnt, readers, writer, known, mode, saw>>

(* alive = 1 without any lock; the caller gets the handle. *)
NewReturn(t) ==
  /\ Goto(t, "born", "out")
  /\ alive' = [alive EXCEPT ![at[t]] = TRUE]
  /\ known' = known \cup {at[t]}
  /\ at' = [at EXCEPT ![t] = NoHandle]
  /\ UNCHANGED <<list, refcnt, readers, writer, allocated, used, mode, saw>>

----------------------------------------------------------------------------
(* thp_handle_rlock and thp_handle_wlock *)

(* A caller may pass any handle it was ever given: one that is not in the list
   is refused with LBS_CODE_INV_HANDLE, and nothing changes. *)
LockFind(t, h, m) ==
  /\ Goto(t, "out", "wait")
  /\ h \in known /\ h \in Listed
  /\ refcnt' = [refcnt EXCEPT ![h] = @ + 1]
  /\ at' = [at EXCEPT ![t] = h]
  /\ mode' = [mode EXCEPT ![t] = m]
  /\ UNCHANGED <<list, alive, readers, writer, allocated, used, known, saw>>

(* The handle's lock is granted to t. *)
Granted(t) ==
  /\ pc[t] = "wait"
  /\ writer[at[t]] = Nobody
  /\ IF mode[t] = "r"
     THEN /\ readers' = [readers EXCEPT ![at[t]] = @ \cup {t}]
          /\ UNCHANGED writer
     ELSE /\ readers[at[t]] = {}
          /\ writer' = [writer EXCEPT ![at[t]] = t]
          /\ UNCHANGED readers

(* Plausible faults: `alive' is not tested after the wait; the refused caller
   forgets to give its reference back. *)
LockNoTest(t) ==
  /\ Granted(t)
  /\ pc' = [pc EXCEPT ![t] = "held"]
  /\ UNCHANGED <<list, alive, refcnt, allocated, used, known, at, mode, saw>>

LockLeaks(t) ==
  /\ Granted(t)
  /\ pc' = [pc EXCEPT ![t] = IF alive[at[t]] THEN "held" ELSE "out"]
  /\ at' = [at EXCEPT ![t] = IF alive[at[t]] THEN @ ELSE NoHandle]
  /\ UNCHANGED <<list, alive, refcnt, allocated, used, known, mode, saw>>

(* `alive' changes only under the write lock, so the test is part of the step
   that gets the lock. *)
LockGranted(t) ==
  /\ Granted(t)
  /\ pc' = [pc EXCEPT ![t] = IF alive[at[t]] THEN "held" ELSE "unlock"]
  /\ UNCHANGED <<list, alive, refcnt, allocated, used, known, at, mode, saw>>

(* A deleter frees the object and clears `alive', then unlocks. *)
Kill(t) ==
  /\ Goto(t, "held", "unlock")
  /\ mode[t] = "w"
  /\ KeepFirst => at[t] # pool
  /\ alive' = [alive EXCEPT ![at[t]] = FALSE]
  /\ UNCHANGED <<list, refcnt, readers, writer, allocated, used, known, at, mode, saw>>

----------------------------------------------------------------------------
(* thp_handle_unlock *)

UnlockRead(t) ==
  /\ pc[t] \in {"held", "unlock"}
  /\ pc' = [pc EXCEPT ![t] = "rel"]
  /\ saw' = [saw EXCEPT ![t] = alive[at[t]]]
  /\ UNCHANGED <<list, alive, refcnt, readers, writer, allocated, used, known, at, mode>>

UnlockRelease(t) ==
  /\ Goto(t, "rel", "drop")
  /\ IF mode[t] = "r"
     THEN readers' = [readers EXCEPT ![at[t]] = @ \ {t}] /\ UNCHANGED writer
     ELSE writer' = [writer EXCEPT ![at[t]] = Nobody] /\ UNCHANGED readers
  /\ UNCHANGED <<list, alive, refcnt, allocated, used, known, at, mode, saw>>

(* thp_handle_remove_from_pool: the neighbours are joined; g_handle_pool stays
   as it is. *)
Unlink(h) ==
  LET p == prev[h]
      n == next[h]
  IN  /\ next' = IF p = NoHandle THEN next ELSE [next EXCEPT ![p] = n]
      /\ prev' = IF n = NoHandle THEN prev ELSE [prev EXCEPT ![n] = p]
      /\ UNCHANGED pool

(* A plausible fault: whoever saw the handle dead frees it. *)
UnlockDropNoCount(t) ==
  /\ Goto(t, "drop", "out")
  /\ refcnt' = [refcnt EXCEPT ![at[t]] = @ - 1]
  /\ IF ~saw[t]
     THEN Unlink(at[t]) /\ allocated' = allocated \ {at[t]}
     ELSE UNCHANGED <<list, allocated>>
  /\ at' = [at EXCEPT ![t] = NoHandle]
  /\ saw' = [saw EXCEPT ![t] = TRUE]
  /\ UNCHANGED <<alive, readers, writer, used, known, mode>>

(* Under the list lock: drop the reference, and thp_del_handle if what was
   read before was dead and nobody refers to the handle. *)
UnlockDrop(t) ==
  /\ Goto(t, "drop", "out")
  /\ refcnt' = [refcnt EXCEPT ![at[t]] = @ - 1]
  /\ IF ~saw[t] /\ refcnt[at[t]] - 1 <= 0
     THEN Unlink(at[t]) /\ allocated' = allocated \ {at[t]}
     ELSE UNCHANGED <<list, allocated>>
  /\ at' = [at EXCEPT ![t] = NoHandle]
  /\ saw' = [saw EXCEPT ![t] = TRUE]
  /\ UNCHANGED <<alive, readers, writer, used, known, mode>>
----------------------------------------------------------------------------

HandleNext == \E t \in Threads :
  \/ \E h \in Handles : NewAppend(t, h)
  \/ NewReturn(t)
  \/ \E h \in Handles, m \in {"r", "w"} : LockFind(t, h, m)
  \/ LockGranted(t)
  \/ Kill(t)
  \/ UnlockRead(t)
  \/ UnlockRelease(t)
  \/ UnlockDrop(t)

HandleSpec == HandleInit /\ [][HandleNext]_handleVars
----------------------------------------------------------------------------
(* Properties *)

(* The threads between thp_handle_rlock or wlock and the end of the unlock. *)
Users(h) == {t \in Threads : at[t] = h /\ pc[t] # "born"}

(* Nobody is inside a handle that is freed: not the thread that waits for its
   lock, nor the one that has read `alive' and not yet dropped its reference,
   although any other thread may free the handle in between. *)
NoUseAfterFree == \A t \in Threads : pc[t] # "out" => at[t] \in allocated

(* refcnt is the number of threads inside the handle, so that it reaches 0
   when, and only when, the last of them leaves, dead handle or not. *)
RefcountExact == \A h \in allocated : refcnt[h] = Cardinality(Users(h))

(* The list holds the handles that are not freed and no other, and its links
   agree in both directions: no walk under the list lock reaches freed memory
   or misses a handle. *)
ListIsTheAllocated ==
  /\ Listed = allocated
  /\ \A h \in Listed : /\ next[h] # NoHandle => next[h] \in Listed /\ prev[next[h]] = h
                       /\ prev[h] # NoHandle => next[prev[h]] = h

(* The two together, and the types: what thp_new_handle, the locks and
   thp_handle_unlock keep of a handle agrees with who is inside and with what
   is allocated. *)
BooksAgree == HandleTypeOK /\ RefcountExact /\ ListIsTheAllocated

(* A caller that was told LBS_CODE_OK works on an object that exists: a
   deleter waits for it, and it turns back if the deleter was first. *)
HolderSeesLiveObject == \A t \in Threads : pc[t] = "held" => alive[at[t]]
=============================================================================
