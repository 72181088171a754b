----------------------------- MODULE EnetHandle -----------------------------
(***************************************************************************)
(* The handle table of easenet (enet_handle.c): a doubly linked list whose *)
(* head never moves, a stack of handles to use again, and for each handle  *)
(* a reader/writer lock, a count of references and two words that say      *)
(* whether it is in use.  The steps below are those of the functions of    *)
(* that file, taken by a thread p on the handle th[p].h; the modules that  *)
(* EXTEND this one decide what is called and what comes after it.          *)
(* The handle locks are the abstract lock of SharedLock: any number of     *)
(* readers, or one writer.  What is done between locking and unlocking the *)
(* table is one step, unless the thread stays in there; db is the owner    *)
(* of the table's lock from one step to another.                           *)
(***************************************************************************)
EXTENDS Integers, FiniteSets, SequencesExt

CONSTANTS Threads,    \* every thread that may call into the library
          Handles,    \* addresses of handles
          Objs,       \* addresses of the objects behind them
          Null,
          MaxReuse    \* ENET_HANDLE_MAX_REUSE_TABLE

ASSUME HandleAssumption ==
  /\ Null \notin Threads \cup Handles \cup Objs
  /\ IsFiniteSet(Handles) /\ MaxReuse \in Nat \ {0}

VARIABLES hs,      \* hs[h]: the handle's fields next, prev, refcnt, alive, obj
          used,    \* the handles that calloc has returned
          head,    \* g_enet_handle_pool
          reuse,   \* g_reuse_table up to g_reuse_location
          lk,      \* lk[h]: its lock, the writer w and how often each thread reads, r
          db,      \* owner of g_enet_handle_db_lock
          th       \* th[p]: where thread p is, and its local variables

hvars == <<hs, used, head, reuse, lk, db>>

Blank == [next |-> Null, prev |-> Null, refcnt |-> 0, alive |-> FALSE, obj |-> Null]

HandleInit ==
  /\ hs = [h \in Handles |-> Blank] /\ used = {}
  /\ head = Null /\ reuse = <<>>
  /\ lk = [h \in Handles |-> [w |-> Null, r |-> [p \in Threads |-> 0]]]
  /\ db = Null

Fresh(S) == CHOOSE x \in S : TRUE    \* an address or a number that is free
At(p, pc) == th[p].pc = pc
Go(p, pc) == th' = [th EXCEPT ![p].pc = pc]
Refuse(p, pc) == th' = [th EXCEPT ![p].pc = pc, ![p].ok = FALSE]

-----------------------------------------------------------------------------
(* The list, as enet_find_handle_in_pool and enet_append_handle walk it.   *)

Walk[i \in 0..Cardinality(Handles)] ==
  IF i = 0 THEN head ELSE IF Walk[i - 1] = Null THEN Null ELSE hs[Walk[i - 1]].next

Chain   == {Walk[i] : i \in DOMAIN Walk} \ {Null}
Endless == Walk[Cardinality(Handles)] # Null
LastNode == CHOOSE h \in Chain : hs[h].next = Null

-----------------------------------------------------------------------------
(* Handle locks.                                                           *)

(* A plausible fault: the writer does not wait for the readers.            *)
MayWriteOverReaders(p, h) == lk[h].w \in {Null, p}

(* No call reads a handle that it writes already: that would be refused.   *)
MayWrite(p, h) == lk[h].w \in {Null, p} /\ \A q \in Threads : lk[h].r[q] = 0
MayRead(p, h)  == lk[h].w = Null

Released(l, p) == IF l.w = p THEN [l EXCEPT !.w = Null] ELSE [l EXCEPT !.r[p] = @ - 1]

-----------------------------------------------------------------------------
(* enet_handle_rlock and enet_handle_wlock (th[p].want).  A thread that    *)
(* gets in is at "in", one that does not ends at "done" with ok = FALSE.   *)

CallLock(p, h, want, fn) ==
  th' = [th EXCEPT ![p].pc = "find", ![p].h = h, ![p].want = want,
                      ![p].fn = fn, ![p].ok = TRUE]

(* Walking a list that has become a ring, for a handle it does not hold,   *)
(* never ends, and the table stays locked.                                 *)
Find(p) ==
  LET h == th[p].h
  IN /\ At(p, "find") /\ db = Null
     /\ \/ h \in Chain /\ hs' = [hs EXCEPT ![h].refcnt = @ + 1] /\ Go(p, "lock") /\ UNCHANGED db
        \/ h \notin Chain /\ ~Endless /\ Refuse(p, "done") /\ UNCHANGED <<hs, db>>
        \/ h \notin Chain /\ Endless /\ Go(p, "loop") /\ db' = p /\ UNCHANGED hs
     /\ UNCHANGED <<used, head, reuse, lk>>

Lock(p) ==
  LET h == th[p].h
  IN /\ At(p, "lock")
     /\ hs[h].alive /\ hs[h].obj # Null
     /\ IF th[p].want = "w"
        THEN MayWrite(p, h) /\ lk' = [lk EXCEPT ![h].w = p]
        ELSE MayRead(p, h) /\ lk' = [lk EXCEPT ![h].r[p] = @ + 1]
     /\ Go(p, "in")
     /\ UNCHANGED <<hs, used, head, reuse, db>>

(* The first half of enet_handle_unlock, done as the last thing under the  *)
(* lock: alive is read before the lock is given back.  t is th, with what  *)
(* the caller changes in it.                                               *)
Leave(p, t) ==
  /\ lk' = [lk EXCEPT ![t[p].h] = Released(@, p)]
  /\ th' = [t EXCEPT ![p].pc = "unref", ![p].live = hs[t[p].h].alive]

LeaveRefused(p) == Leave(p, [th EXCEPT ![p].ok = FALSE])

(* A handle that is dead, or without object, is locked and unlocked.       *)
LockDead(p) ==
  LET h == th[p].h
  IN /\ At(p, "lock")
     /\ ~hs[h].alive \/ hs[h].obj = Null
     /\ IF th[p].want = "w" THEN MayWrite(p, h) ELSE MayRead(p, h)
     /\ th' = [th EXCEPT ![p].pc = "unref", ![p].live = hs[h].alive, ![p].ok = FALSE]
     /\ UNCHANGED <<hs, used, head, reuse, lk, db>>

(* The second half: the count goes down, under the lock of the table.      *)

Unref(p) ==
  LET h == th[p].h
      left == IF hs[h].refcnt > 0 THEN hs[h].refcnt - 1 ELSE hs[h].refcnt
  IN /\ At(p, "unref") /\ db = Null
     /\ hs' = [hs EXCEPT ![h].refcnt = left]
     /\ IF ~th[p].live /\ left <= 0
        THEN Go(p, "undel") /\ db' = p
        ELSE Go(p, "done") /\ UNCHANGED db
     /\ UNCHANGED <<used, head, reuse, lk>>

-----------------------------------------------------------------------------
(* enet_delete_handle: called by the one who deletes ("del"), and out of   *)
(* enet_handle_unlock with the table locked ("undel").                     *)

LeaveDelete(p) == Go(p, "done") /\ db' = IF At(p, "undel") \/ db = p THEN Null ELSE db

(* A plausible fault: whether the handle is alive is not looked at.        *)
DeleteHandleTwice(p) ==
  LET h == th[p].h
  IN /\ th[p].pc \in {"del", "undel"}
     /\ MayWrite(p, h)
     /\ hs' = [hs EXCEPT ![h].alive = FALSE]
     /\ IF hs[h].refcnt = 0
        THEN Go(p, "recycle") /\ lk' = [lk EXCEPT ![h].w = p] /\ UNCHANGED db
        ELSE LeaveDelete(p) /\ UNCHANGED lk
     /\ UNCHANGED <<used, head, reuse>>

DeleteHandle(p) ==
  LET h == th[p].h
  IN /\ th[p].pc \in {"del", "undel"}
     /\ MayWrite(p, h)
     /\ hs' = [hs EXCEPT ![h].alive = FALSE]
     /\ IF hs[h].alive /\ hs[h].refcnt = 0
        THEN Go(p, "recycle") /\ lk' = [lk EXCEPT ![h].w = p] /\ UNCHANGED db
        ELSE LeaveDelete(p) /\ UNCHANGED lk
     /\ UNCHANGED <<used, head, reuse>>

(* enet_handle_remove_from_pool and enet_reuse_handle.  Neither takes the  *)
(* lock of the table, and the head of the list is never replaced.          *)
Recycle(p) ==
  LET h == th[p].h  n == hs[h].next  b == hs[h].prev
      cut == IF b = Null THEN hs ELSE [hs EXCEPT ![b].next = n]
  IN /\ At(p, "recycle")
     /\ \/ h \notin Chain /\ Endless /\ Go(p, "loop") /\ UNCHANGED <<hs, reuse, lk, db>>
        \/ /\ h \in Chain \/ ~Endless
           /\ hs' = IF h \notin Chain THEN hs
                    ELSE IF n = Null THEN cut ELSE [cut EXCEPT ![n].prev = b]
           /\ reuse' = IF Len(reuse) < MaxReuse THEN Append(reuse, h) ELSE reuse
           /\ lk' = [lk EXCEPT ![h].w = Null]
           /\ LeaveDelete(p)
     /\ UNCHANGED <<used, head>>

-----------------------------------------------------------------------------
(* enet_new_handle: whether there is something to reuse is looked up       *)
(* before the table is locked.                                             *)

NewTest(p) ==
  /\ At(p, "new")
  /\ \/ /\ reuse = <<>>
        /\ Handles # used
        /\ LET h == Fresh(Handles \ used)
           IN used' = used \cup {h} /\ th' = [th EXCEPT ![p].pc = "append", ![p].h = h]
     \/ reuse # <<>> /\ Go(p, "pop") /\ UNCHANGED used
  /\ UNCHANGED <<hs, head, reuse, lk, db>>

(* Slot 0 of the table is never filled: who comes too late reads a null.   *)
NewPop(p) ==
  /\ At(p, "pop") /\ db = Null
  /\ IF reuse = <<>> THEN Go(p, "fault") /\ UNCHANGED <<hs, reuse>>
     ELSE LET h == Last(reuse)
          IN /\ hs' = [hs EXCEPT ![h] = [Blank EXCEPT !.alive = hs[h].alive]]
             /\ reuse' = Front(reuse)
             /\ th' = [th EXCEPT ![p].pc = "append", ![p].h = h]
  /\ UNCHANGED <<used, head, lk, db>>

AppendWalk(p) ==
  /\ At(p, "append") /\ db = Null
  /\ IF head = Null THEN head' = th[p].h /\ Go(p, "publish") /\ UNCHANGED db
     ELSE /\ db' = p /\ UNCHANGED head
          /\ IF Endless THEN Go(p, "loop")
             ELSE th' = [th EXCEPT ![p].pc = "link", ![p].tail = LastNode]
  /\ UNCHANGED <<hs, used, reuse, lk>>

AppendLink(p) ==
  LET h == th[p].h  tail == th[p].tail
  IN /\ At(p, "link")
     /\ hs' = [[hs EXCEPT ![tail].next = h] EXCEPT ![h].prev = tail]
     /\ db' = Null
     /\ Go(p, "publish")
     /\ UNCHANGED <<used, head, reuse, lk>>

(* alive is set outside the lock of the table, then the object.            *)
Publish(p) ==
  /\ At(p, "publish")
  /\ hs' = [hs EXCEPT ![th[p].h].alive = TRUE, ![th[p].h].obj = th[p].o]
  /\ Go(p, "done")
  /\ UNCHANGED <<used, head, reuse, lk, db>>

HandleStep(p) ==
  \/ Find(p) \/ Lock(p) \/ LockDead(p) \/ Unref(p)
  \/ DeleteHandle(p) \/ Recycle(p)
  \/ NewTest(p) \/ NewPop(p) \/ AppendWalk(p) \/ AppendLink(p) \/ Publish(p)
=============================================================================
