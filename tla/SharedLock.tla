----------------------------- MODULE SharedLock -----------------------------
(***************************************************************************)
(* What the reader/writer lock of the library promises its callers: at any *)
(* moment either any number of read grants are out, or one thread holds    *)
(* the lock for writing, as many times over as it asked for it.  Granting  *)
(* and releasing are single steps here; module RWLock shows how the code   *)
(* gets there with a critical section, two counters and an unlock that     *)
(* does not know what the caller holds.                                    *)
(***************************************************************************)
EXTENDS Naturals

CONSTANTS Threads,  \* the threads that share the lock
          Slots     \* names of the read grants one thread may hold at a time

VARIABLES grants,   \* the read grants that are out: a set of <<thread, slot>>
          writes    \* how often each thread holds the lock for writing

vars == <<grants, writes>>

ReadsOf(t) == {g \in grants : g[1] = t}

Init == /\ grants = {}
        /\ writes = [t \in Threads |-> 0]

(* A read grant is given only while nobody writes.                         *)
GrantRead(t) ==
  /\ \A u \in Threads : writes[u] = 0
  /\ \E s \in Slots : /\ <<t, s>> \notin grants
                      /\ grants' = grants \cup {<<t, s>>}
  /\ UNCHANGED writes

(* Write access is given when no read grant is out and no other thread     *)
(* writes; the writer itself may ask again.                                *)
GrantWrite(t) ==
  /\ grants = {}
  /\ \A u \in Threads \ {t} : writes[u] = 0
  /\ writes' = [writes EXCEPT ![t] = @ + 1]
  /\ UNCHANGED grants

ReleaseRead(t) ==
  /\ \E g \in ReadsOf(t) : grants' = grants \ {g}
  /\ UNCHANGED writes

ReleaseWrite(t) ==
  /\ writes[t] > 0
  /\ writes' = [writes EXCEPT ![t] = @ - 1]
  /\ UNCHANGED grants

Next == \E t \in Threads : \/ GrantRead(t)
                           \/ GrantWrite(t)
                           \/ ReleaseRead(t)
                           \/ ReleaseWrite(t)

Spec == Init /\ [][Next]_vars
=============================================================================
