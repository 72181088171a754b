----------------------------- MODULE ThpProofs -----------------------------
(***************************************************************************)
(* What the thread pool library keeps: thp_handle.c of a handle, for any   *)
(* number of threads and handles, and the pool of its packages, tasks and  *)
(* threads, for any number of deliverers, workers, tasks and packages.     *)
(*                                                                         *)
(*   Books     where the threads are agrees with the reference counts, the *)
(*             locks and `alive': it does not look at the list, and so     *)
(*             holds whichever handle is deleted;                          *)
(*   Registry  the list is a chain of exactly the allocated handles, and   *)
(*             every thread is inside an allocated one: it needs Books     *)
(*             and that the first handle of the list is never deleted;     *)
(*   Apart, Filled  where a package may be and what is in it;              *)
(*   Enlisted, Ended  which threads are in the watcher's list, and what a  *)
(*                  stop leaves of them.                                   *)
(***************************************************************************)
EXTENDS ThpHandle, ThreadPool, FiniteSetTheorems, SequenceTheorems,
        WellFoundedInduction, TLAPS

(***************************************************************************)
(* The handles: module ThpHandle.                                          *)
(***************************************************************************)

Inside == {"wait", "held", "unlock", "rel", "drop"}

Types ==
  /\ alive \in [Handles -> BOOLEAN]
  /\ refcnt \in [Handles -> Nat]
  /\ readers \in [Handles -> SUBSET Threads]
  /\ writer \in [Handles -> Threads \cup {Nobody}]
  /\ allocated \subseteq used /\ known \subseteq used /\ used \subseteq Handles
  /\ pc \in [Threads -> PCs]
  /\ at \in [Threads -> Handles \cup {NoHandle}]
  /\ mode \in [Threads -> {"r", "w"}]
  /\ saw \in [Threads -> BOOLEAN]

(* A thread outside has no handle, one that makes a handle has it to itself,
   and one that works with a handle got it from thp_new_handle. *)
Places ==
  \A t \in Threads :
    /\ pc[t] = "out" <=> at[t] = NoHandle
    /\ pc[t] = "born" => /\ at[t] \in used \ known
                         /\ \A u \in Threads : at[u] = at[t] => u = t
    /\ pc[t] \in Inside => at[t] \in known

(* A thread between the grant and the release of a lock holds it, and the lock
   is held by readers or by one writer. *)
Locks ==
  /\ \A t \in Threads : pc[t] \in {"held", "unlock", "rel"} =>
       /\ mode[t] = "r" => t \in readers[at[t]]
       /\ mode[t] = "w" => writer[at[t]] = t
  /\ \A h \in Handles : writer[h] # Nobody => readers[h] = {}

Counts == \A h \in Handles : refcnt[h] = Cardinality(Users(h))

Books == Types /\ Places /\ Locks /\ Counts /\ HolderSeesLiveObject

(* The chain s of n handles from pool on, linked in both directions. *)
IsChain(n, s) ==
  /\ \A i, j \in 1..n : s[i] = s[j] => i = j
  /\ allocated = {s[i] : i \in 1..n}
  /\ pool = IF n = 0 THEN NoHandle ELSE s[1]
  /\ \A i \in 1..n : /\ next[s[i]] = IF i < n THEN s[i + 1] ELSE NoHandle
                     /\ prev[s[i]] = IF i = 1 THEN NoHandle ELSE s[i - 1]

Chained == \E n \in Nat : \E s \in [1..n -> Handles] : IsChain(n, s)

Links ==
  /\ next \in [Handles -> Handles \cup {NoHandle}]
  /\ prev \in [Handles -> Handles \cup {NoHandle}]
  /\ \A h \in Handles \ used : next[h] = NoHandle /\ prev[h] = NoHandle

(* Whoever is about to free a handle saw it dead, and the first handle of the
   list does not die. *)
DeadIsNotFirst ==
  /\ \A h \in known : ~alive[h] => h # pool
  /\ \A t \in Threads : pc[t] \in {"rel", "drop"} /\ ~saw[t] => ~alive[at[t]]

Registry == Links /\ Chained /\ DeadIsNotFirst /\ NoUseAfterFree
HandleInv == Books /\ Registry
----------------------------------------------------------------------------
(* Arithmetic and sets. *)

(* A set of natural numbers that has an element has a least one: the form of
   induction the proofs below use. *)
LEMMA LeastNatural ==
  ASSUME NEW T \in SUBSET Nat, T # {}
  PROVE  \E n \in T : \A m \in T : n <= m
<1>1. PICK n \in T : \A m \in T : ~ (<<m, n>> \in OpToRel(<, Nat))
  BY NatLessThanWellFounded, WFMin
<1>2. ASSUME NEW m \in Nat, m < n PROVE <<m, n>> \in OpToRel(<, Nat)
  BY <1>2, Zenon DEF OpToRel
<1>3. \A m \in T : m \in Nat /\ n \in Nat /\ ~ (m < n)
  BY <1>1, <1>2
<1> QED
  BY <1>3

(* The number of threads in a set that one thread joins or leaves. *)
LEMMA OneMore ==
  ASSUME NEW S \in SUBSET Threads, NEW t \in Threads
  PROVE  /\ Cardinality(S) \in Nat
         /\ t \notin S => Cardinality(S \cup {t}) = Cardinality(S) + 1
         /\ t \in S => Cardinality(S \ {t}) = Cardinality(S) - 1
         /\ t \in S => Cardinality(S) >= 1
         /\ Cardinality(S) = 1 /\ t \in S => S = {t}
<1>1. IsFiniteSet(S)
  BY ThreadsAssumption, FS_Subset
<1>2. /\ Cardinality(S) \in Nat /\ Cardinality(S \ {t}) \in Nat
      /\ IsFiniteSet(S \ {t})
      /\ t \in S => Cardinality(S \ {t}) = Cardinality(S) - 1
      /\ t \notin S => Cardinality(S \cup {t}) = Cardinality(S) + 1
  BY <1>1, FS_CardinalityType, FS_RemoveElement, FS_AddElement, FS_Subset
<1>3. Cardinality(S) = 1 /\ t \in S => S \ {t} = {}
  BY <1>2, FS_EmptySet
<1> QED
  BY <1>2, <1>3
----------------------------------------------------------------------------
(* Books: counts, locks and `alive'. *)

LEMMA BooksInit == HandleInit => Books
<1> SUFFICES ASSUME HandleInit PROVE Books
  OBVIOUS
<1>1. \A h \in Handles : Users(h) = {}
  BY HandlesAssumption DEF HandleInit, Users
<1>2. Counts
  BY <1>1, FS_EmptySet DEF HandleInit, Counts
<1> QED
  BY <1>2, HandlesAssumption DEF HandleInit, Books, Types, Places, Locks, HolderSeesLiveObject, PCs, Inside

LEMMA BooksStep == Books /\ [HandleNext]_handleVars => Books'
<1> SUFFICES ASSUME Books, [HandleNext]_handleVars PROVE Books'
  OBVIOUS
<1> USE DEF Books, PCs, Goto, Inside
<1>1. ASSUME NEW t \in Threads, NEW h \in Handles, NewAppend(t, h) PROVE Books'
  <2>1. Types'
    BY <1>1, HandlesAssumption, ThreadsAssumption DEF NewAppend, Types, Places, Locks, HolderSeesLiveObject
  <2>2. Places'
    BY <1>1, HandlesAssumption, ThreadsAssumption DEF NewAppend, Types, Places, Locks, HolderSeesLiveObject
  <2>3. Locks'
    BY <1>1, HandlesAssumption, ThreadsAssumption DEF NewAppend, Types, Places, Locks, HolderSeesLiveObject
  <2>4. HolderSeesLiveObject'
    BY <1>1, HandlesAssumption, ThreadsAssumption DEF NewAppend, Types, Places, Locks, HolderSeesLiveObject
  <2>5. Counts'
    BY <1>1, HandlesAssumption DEF NewAppend, Types, Places, Counts, Users
  <2> QED
    BY <2>1, <2>2, <2>3, <2>4, <2>5
<1>2. ASSUME NEW t \in Threads, NewReturn(t) PROVE Books'
  <2>1. Types'
    BY <1>2, HandlesAssumption, ThreadsAssumption DEF NewReturn, Types, Places, Locks, HolderSeesLiveObject
  <2>2. Places'
    BY <1>2, HandlesAssumption, ThreadsAssumption DEF NewReturn, Types, Places, Locks, HolderSeesLiveObject
  <2>3. Locks'
    BY <1>2, HandlesAssumption, ThreadsAssumption DEF NewReturn, Types, Places, Locks, HolderSeesLiveObject
  <2>4. HolderSeesLiveObject'
    BY <1>2, HandlesAssumption, ThreadsAssumption DEF NewReturn, Types, Places, Locks, HolderSeesLiveObject
  <2>5. Counts'
    BY <1>2, HandlesAssumption DEF NewReturn, Types, Places, Counts, Users
  <2> QED
    BY <2>1, <2>2, <2>3, <2>4, <2>5
<1>3. ASSUME NEW t \in Threads, NEW h \in Handles, NEW m \in {"r", "w"}, LockFind(t, h, m) PROVE Books'
  <2>1. Types'
    BY <1>3, HandlesAssumption, ThreadsAssumption DEF LockFind, Types, Places, Locks, HolderSeesLiveObject
  <2>2. Places'
    BY <1>3, HandlesAssumption, ThreadsAssumption DEF LockFind, Types, Places, Locks, HolderSeesLiveObject
  <2>3. Locks'
    BY <1>3, HandlesAssumption, ThreadsAssumption DEF LockFind, Types, Places, Locks, HolderSeesLiveObject
  <2>4. HolderSeesLiveObject'
    BY <1>3, HandlesAssumption, ThreadsAssumption DEF LockFind, Types, Places, Locks, HolderSeesLiveObject
  <2>5. Counts'
    <3>1. /\ pc[t] = "out" /\ at[t] = NoHandle /\ h # NoHandle
          /\ pc' = [pc EXCEPT ![t] = "wait"] /\ at' = [at EXCEPT ![t] = h]
          /\ refcnt' = [refcnt EXCEPT ![h] = @ + 1]
      BY <1>3, HandlesAssumption DEF LockFind, Places
    <3>2. \A g \in Handles : /\ Users(g) \in SUBSET Threads /\ t \notin Users(g)
                             /\ Users(g)' = IF g = h THEN Users(g) \cup {t} ELSE Users(g)
      BY <3>1, HandlesAssumption DEF Types, Users
    <3> QED
      BY <3>1, <3>2, OneMore DEF Counts, Types
  <2> QED
    BY <2>1, <2>2, <2>3, <2>4, <2>5
<1>4. ASSUME NEW t \in Threads, LockGranted(t) PROVE Books'
  <2>1. Types'
    BY <1>4, HandlesAssumption, ThreadsAssumption DEF LockGranted, Granted, Types, Places, Locks, HolderSeesLiveObject
  <2>2. Places'
    BY <1>4, HandlesAssumption, ThreadsAssumption DEF LockGranted, Granted, Types, Places, Locks, HolderSeesLiveObject
  <2>3. Locks'
    BY <1>4, HandlesAssumption, ThreadsAssumption DEF LockGranted, Granted, Types, Places, Locks, HolderSeesLiveObject
  <2>4. HolderSeesLiveObject'
    BY <1>4, HandlesAssumption, ThreadsAssumption DEF LockGranted, Granted, Types, Places, Locks, HolderSeesLiveObject
  <2>5. Counts'
    BY <1>4, HandlesAssumption DEF LockGranted, Granted, Types, Places, Counts, Users
  <2> QED
    BY <2>1, <2>2, <2>3, <2>4, <2>5
<1>5. ASSUME NEW t \in Threads, Kill(t) PROVE Books'
  <2>1. Types'
    BY <1>5, HandlesAssumption, ThreadsAssumption DEF Kill, Types, Places, Locks, HolderSeesLiveObject
  <2>2. Places'
    BY <1>5, HandlesAssumption, ThreadsAssumption DEF Kill, Types, Places, Locks, HolderSeesLiveObject
  <2>3. Locks'
    BY <1>5, HandlesAssumption, ThreadsAssumption DEF Kill, Types, Places, Locks, HolderSeesLiveObject
  <2>4. HolderSeesLiveObject'
    BY <1>5, HandlesAssumption, ThreadsAssumption DEF Kill, Types, Places, Locks, HolderSeesLiveObject
  <2>5. Counts'
    BY <1>5, HandlesAssumption DEF Kill, Types, Places, Counts, Users
  <2> QED
    BY <2>1, <2>2, <2>3, <2>4, <2>5
<1>6. ASSUME NEW t \in Threads, UnlockRead(t) PROVE Books'
  <2>1. Types'
    BY <1>6, HandlesAssumption, ThreadsAssumption DEF UnlockRead, Types, Places, Locks, HolderSeesLiveObject
  <2>2. Places'
    BY <1>6, HandlesAssumption, ThreadsAssumption DEF UnlockRead, Types, Places, Locks, HolderSeesLiveObject
  <2>3. Locks'
    BY <1>6, HandlesAssumption, ThreadsAssumption DEF UnlockRead, Types, Places, Locks, HolderSeesLiveObject
  <2>4. HolderSeesLiveObject'
    BY <1>6, HandlesAssumption, ThreadsAssumption DEF UnlockRead, Types, Places, Locks, HolderSeesLiveObject
  <2>5. Counts'
    BY <1>6, HandlesAssumption DEF UnlockRead, Types, Places, Counts, Users
  <2> QED
    BY <2>1, <2>2, <2>3, <2>4, <2>5
<1>7. ASSUME NEW t \in Threads, UnlockRelease(t) PROVE Books'
  <2>1. Types'
    BY <1>7, HandlesAssumption, ThreadsAssumption DEF UnlockRelease, Types, Places, Locks, HolderSeesLiveObject
  <2>2. Places'
    BY <1>7, HandlesAssumption, ThreadsAssumption DEF UnlockRelease, Types, Places, Locks, HolderSeesLiveObject
  <2>3. Locks'
    BY <1>7, HandlesAssumption, ThreadsAssumption DEF UnlockRelease, Types, Places, Locks, HolderSeesLiveObject
  <2>4. HolderSeesLiveObject'
    BY <1>7, HandlesAssumption, ThreadsAssumption DEF UnlockRelease, Types, Places, Locks, HolderSeesLiveObject
  <2>5. Counts'
    BY <1>7, HandlesAssumption DEF UnlockRelease, Types, Places, Counts, Users
  <2> QED
    BY <2>1, <2>2, <2>3, <2>4, <2>5
<1>8. ASSUME NEW t \in Threads, UnlockDrop(t) PROVE Books'
  <2>0. /\ at[t] \in Handles /\ t \in Users(at[t]) /\ Users(at[t]) \in SUBSET Threads
        /\ refcnt[at[t]] - 1 \in Nat
    <3>1. at[t] \in Handles /\ t \in Users(at[t]) /\ Users(at[t]) \in SUBSET Threads
      BY <1>8 DEF UnlockDrop, Types, Places, Users
    <3>2. Cardinality(Users(at[t])) \in Nat /\ Cardinality(Users(at[t])) >= 1
      BY <3>1, OneMore
    <3> QED
      BY <3>1, <3>2 DEF Counts
  <2>1. Types'
    BY <1>8, <2>0 DEF UnlockDrop, Types
  <2>2. Places'
    BY <1>8, HandlesAssumption, ThreadsAssumption DEF UnlockDrop, Types, Places, Locks, HolderSeesLiveObject
  <2>3. Locks'
    BY <1>8, HandlesAssumption, ThreadsAssumption DEF UnlockDrop, Types, Places, Locks, HolderSeesLiveObject
  <2>4. HolderSeesLiveObject'
    BY <1>8, HandlesAssumption, ThreadsAssumption DEF UnlockDrop, Types, Places, Locks, HolderSeesLiveObject
  <2>5. Counts'
    <3>1. /\ pc' = [pc EXCEPT ![t] = "out"] /\ at' = [at EXCEPT ![t] = NoHandle]
          /\ refcnt' = [refcnt EXCEPT ![at[t]] = @ - 1] /\ pc[t] = "drop"
      BY <1>8 DEF UnlockDrop
    <3>2. \A g \in Handles : /\ Users(g) \in SUBSET Threads
                             /\ Users(g)' = IF g = at[t] THEN Users(g) \ {t} ELSE Users(g)
      BY <3>1, <2>0, HandlesAssumption DEF Types, Users
    <3> QED
      BY <3>1, <3>2, <2>0, OneMore DEF Counts, Types
  <2> QED
    BY <2>1, <2>2, <2>3, <2>4, <2>5
<1>9. CASE UNCHANGED handleVars
  BY <1>9 DEF handleVars, list, Types, Places, Locks, Counts, Users, HolderSeesLiveObject
<1> QED
  BY <1>1, <1>2, <1>3, <1>4, <1>5, <1>6, <1>7, <1>8, <1>9 DEF HandleNext
----------------------------------------------------------------------------
(* The list. *)

(* The walk of thp_find_handle_in_pool meets the handles of a chain one after
   the other, and nothing after the last. *)
LEMMA ChainIsWalked ==
  ASSUME NEW n \in Nat, NEW s \in [1..n -> Handles], IsChain(n, s)
  PROVE  \A k \in Nat : Walk[k] = IF k < n THEN s[k + 1] ELSE NoHandle
<1> DEFINE Steps(f) == f = [k \in Nat |-> IF k = 0 THEN pool
                              ELSE IF f[k - 1] = NoHandle THEN NoHandle ELSE next[f[k - 1]]]
           g == [k \in Nat |-> IF k < n THEN s[k + 1] ELSE NoHandle]
<1>1. Steps(g)
  <2>1. \A k \in Nat : g[k] = IF k = 0 THEN pool
                              ELSE IF g[k - 1] = NoHandle THEN NoHandle ELSE next[g[k - 1]]
    BY HandlesAssumption DEF IsChain
  <2> QED
    BY <2>1
<1>2. Steps(Walk)
  <2>1. Walk = CHOOSE f : Steps(f)
    BY DEF Walk
  <2> HIDE DEF Steps
  <2> QED
    BY <1>1, <2>1
<1>3. /\ \A k \in Nat : Walk[k] = IF k = 0 THEN pool
                           ELSE IF Walk[k - 1] = NoHandle THEN NoHandle ELSE next[Walk[k - 1]]
      /\ \A k \in Nat : g[k] = IF k = 0 THEN pool
                           ELSE IF g[k - 1] = NoHandle THEN NoHandle ELSE next[g[k - 1]]
  BY <1>1, <1>2
<1> HIDE DEF g, Steps
<1>4. \A k \in Nat : Walk[k] = g[k]
  <2> DEFINE T == {k \in Nat : Walk[k] # g[k]}
  <2>1. SUFFICES ASSUME T # {} PROVE FALSE
    OBVIOUS
  <2>2. PICK k \in T : \A m \in T : k <= m
    BY <2>1, LeastNatural
  <2>3. k # 0 => Walk[k - 1] = g[k - 1]
    BY <2>2
  <2> QED
    BY <1>3, <2>2, <2>3
<1> QED
  BY <1>4 DEF g

(* A chain has no more nodes than there are handles. *)
LEMMA ChainIsShort ==
  ASSUME NEW n \in Nat, NEW s \in [1..n -> Handles], IsChain(n, s)
  PROVE  Cardinality(Handles) \in Nat /\ n <= Cardinality(Handles)
<1>1. IsFiniteSet(1..n) /\ Cardinality(1..n) = n
  BY FS_Interval
<1>2. s \in Injection(1..n, Handles)
  BY DEF IsChain, Injection, IsInjective
<1> QED
  BY <1>1, <1>2, HandlesAssumption, FS_Injection, FS_CardinalityType

(* So the walk meets the allocated handles and no others, and ends at the last. *)
LEMMA ChainIsListed ==
  ASSUME NEW n \in Nat, NEW s \in [1..n -> Handles], IsChain(n, s)
  PROVE  Listed = allocated /\ (n > 0 => LastListed = s[n])
<1>1. Cardinality(Handles) \in Nat /\ n <= Cardinality(Handles)
  BY ChainIsShort
<1>2. \A k \in Nat : Walk[k] = IF k < n THEN s[k + 1] ELSE NoHandle
  BY ChainIsWalked
<1>3. Listed = allocated
  <2>1. \A i \in 1..n : i - 1 \in 0..Cardinality(Handles) /\ Walk[i - 1] = s[i] /\ s[i] # NoHandle
    BY <1>1, <1>2, HandlesAssumption
  <2>2. \A k \in 0..Cardinality(Handles) : Walk[k] # NoHandle => k + 1 \in 1..n /\ Walk[k] = s[k + 1]
    BY <1>1, <1>2
  <2> QED
    BY <2>1, <2>2 DEF Listed, IsChain
<1>4. ASSUME n > 0 PROVE LastListed = s[n]
  <2>1. s[n] \in allocated /\ next[s[n]] = NoHandle
    BY <1>4 DEF IsChain
  <2>2. \A h \in allocated : next[h] = NoHandle => h = s[n]
    BY <1>4, HandlesAssumption DEF IsChain
  <2> QED
    BY <1>3, <2>1, <2>2 DEF LastListed
<1> QED
  BY <1>3, <1>4

LEMMA ListIsAllocated == Links /\ Chained => Listed = allocated /\ ListIsTheAllocated
<1> SUFFICES ASSUME Links, Chained PROVE Listed = allocated /\ ListIsTheAllocated
  OBVIOUS
<1>0. PICK n \in Nat : \E s \in [1..n -> Handles] : IsChain(n, s)
  BY DEF Chained
<1>1. PICK s \in [1..n -> Handles] : IsChain(n, s)
  BY <1>0
<1>2. Listed = allocated
  BY <1>1, ChainIsListed
<1> QED
  BY <1>1, <1>2, HandlesAssumption DEF ListIsTheAllocated, IsChain
----------------------------------------------------------------------------
(* Registry: the list and the threads. *)

(* thp_append_handle puts the new handle behind the last one. *)
LEMMA AppendChain ==
  ASSUME Types, Links, Chained, NEW t \in Threads, NEW h \in Handles, NewAppend(t, h)
  PROVE  Links' /\ Chained'
<1>0. PICK n \in Nat : \E s \in [1..n -> Handles] : IsChain(n, s)
  BY DEF Chained
<1>1. PICK s \in [1..n -> Handles] : IsChain(n, s)
  BY <1>0
<1>2. /\ allocated' = allocated \cup {h} /\ used' = used \cup {h} /\ h \notin used
      /\ h \notin allocated /\ next[h] = NoHandle /\ prev[h] = NoHandle
  BY DEF NewAppend, Types, Links
<1>3. IF n = 0 THEN pool' = h /\ next' = next /\ prev' = prev
      ELSE /\ next' = [next EXCEPT ![s[n]] = h] /\ prev' = [prev EXCEPT ![h] = s[n]]
           /\ pool' = pool
  BY <1>1, ChainIsListed, HandlesAssumption DEF NewAppend, IsChain
<1> DEFINE u == [i \in 1..(n + 1) |-> IF i <= n THEN s[i] ELSE h]
<1>4. /\ n + 1 \in Nat /\ u \in [1..(n + 1) -> Handles] /\ u[n + 1] = h
      /\ \A i \in 1..n : u[i] = s[i] /\ s[i] \in allocated
  BY <1>1 DEF IsChain
<1>5. IsChain(n + 1, u)'
  <2> HIDE DEF u
  <2>1. \A i, j \in 1..(n + 1) : u[i] = u[j] => i = j
    BY <1>1, <1>2, <1>4 DEF IsChain
  <2>2. allocated' = {u[i] : i \in 1..(n + 1)}
    BY <1>1, <1>2, <1>4 DEF IsChain
  <2>3. pool' = u[1]
    BY <1>1, <1>3, <1>4 DEF IsChain
  <2>4. ASSUME NEW i \in 1..(n + 1)
        PROVE  /\ next'[u[i]] = IF i < n + 1 THEN u[i + 1] ELSE NoHandle
               /\ prev'[u[i]] = IF i = 1 THEN NoHandle ELSE u[i - 1]
    BY <1>1, <1>2, <1>3, <1>4 DEF IsChain, Links
  <2> QED
    BY <2>1, <2>2, <2>3, <2>4 DEF IsChain
<1>6. Links'
  <2>1. CASE n = 0
    BY <1>2, <1>3, <2>1 DEF Links
  <2>2. CASE n # 0
    <3>1. s[n] \in allocated /\ s[n] \in used /\ s[n] \in Handles
      BY <1>1, <2>2 DEF Types, IsChain
    <3> QED
      BY <1>2, <1>3, <2>2, <3>1 DEF Links
  <2> QED
    BY <2>1, <2>2
<1> QED
  BY <1>4, <1>5, <1>6 DEF Chained

(* thp_handle_remove_from_pool takes a handle out of the chain, unless it is
   the first. *)
LEMMA UnlinkChain ==
  ASSUME Types, Links, Chained, NEW h \in allocated, h # pool,
         Unlink(h), allocated' = allocated \ {h}, used' = used
  PROVE  Links' /\ Chained'
<1>0. PICK n \in Nat : \E s \in [1..n -> Handles] : IsChain(n, s)
  BY DEF Chained
<1>1. PICK s \in [1..n -> Handles] : IsChain(n, s)
  BY <1>0
<1>2. PICK k \in 1..n : s[k] = h
  BY <1>1 DEF IsChain
<1>3. k # 1 /\ pool' = pool /\ n - 1 \in Nat
  BY <1>1, <1>2 DEF IsChain, Unlink
<1>4. /\ prev[h] = s[k - 1] /\ next[h] = IF k < n THEN s[k + 1] ELSE NoHandle
      /\ \A i \in 1..n : s[i] \in Handles /\ s[i] # NoHandle
      /\ k - 1 \in 1..n /\ (k < n => k + 1 \in 1..n)
  BY <1>1, <1>2, <1>3, HandlesAssumption DEF IsChain
<1>5. /\ next' = [next EXCEPT ![s[k - 1]] = next[h]]
      /\ prev' = IF k < n THEN [prev EXCEPT ![s[k + 1]] = s[k - 1]] ELSE prev
  BY <1>2, <1>3, <1>4 DEF Unlink
<1> DEFINE u == [i \in 1..(n - 1) |-> IF i < k THEN s[i] ELSE s[i + 1]]
<1>6. /\ u \in [1..(n - 1) -> Handles]
      /\ \A i \in 1..(n - 1) : u[i] = IF i < k THEN s[i] ELSE s[i + 1]
  BY <1>3
<1>7. IsChain(n - 1, u)'
  <2> HIDE DEF u
  <2>1. \A i, j \in 1..(n - 1) : u[i] = u[j] => i = j
    BY <1>1, <1>3, <1>6 DEF IsChain
  <2>2. allocated' = {u[i] : i \in 1..(n - 1)}
    <3>1. \A i \in 1..(n - 1) : u[i] \in allocated /\ u[i] # h
      BY <1>1, <1>2, <1>3, <1>6 DEF IsChain
    <3>2. ASSUME NEW i \in 1..n, i # k PROVE \E j \in 1..(n - 1) : u[j] = s[i]
      BY <1>3, <1>6, <3>2, i < k => i \in 1..(n - 1),
         i > k => i - 1 \in 1..(n - 1) /\ ~ (i - 1 < k) /\ (i - 1) + 1 = i
    <3>3. \A x \in allocated \ {h} : \E j \in 1..(n - 1) : u[j] = x
      BY <1>1, <1>2, <3>2 DEF IsChain
    <3> QED
      BY <3>1, <3>3
  <2>3. pool' = IF n - 1 = 0 THEN NoHandle ELSE u[1]
    BY <1>1, <1>3, <1>6 DEF IsChain
  <2>4. ASSUME NEW i \in 1..(n - 1)
        PROVE  /\ next'[u[i]] = IF i < n - 1 THEN u[i + 1] ELSE NoHandle
               /\ prev'[u[i]] = IF i = 1 THEN NoHandle ELSE u[i - 1]
    <3>1. next'[u[i]] = IF i < n - 1 THEN u[i + 1] ELSE NoHandle
      <4>1. \A j \in 1..n : next'[s[j]] = IF j = k - 1 THEN next[h] ELSE next[s[j]]
        BY <1>1, <1>4, <1>5 DEF IsChain, Links
      <4> QED
        BY <1>1, <1>3, <1>4, <1>6, <4>1 DEF IsChain
    <3>2. prev'[u[i]] = IF i = 1 THEN NoHandle ELSE u[i - 1]
      <4>1. \A j \in 1..n : prev'[s[j]] = IF j = k + 1 THEN s[k - 1] ELSE prev[s[j]]
        BY <1>1, <1>4, <1>5 DEF IsChain, Links
      <4> QED
        BY <1>1, <1>3, <1>4, <1>6, <4>1 DEF IsChain
    <3> QED
      BY <3>1, <3>2
  <2> QED
    BY <2>1, <2>2, <2>3, <2>4 DEF IsChain
<1>8. Links'
  BY <1>1, <1>2, <1>3, <1>4, <1>5 DEF Links, Types, IsChain
<1> QED
  BY <1>3, <1>6, <1>7, <1>8 DEF Chained

LEMMA RegistryInit == HandleInit => Registry
<1> SUFFICES ASSUME HandleInit PROVE Registry
  OBVIOUS
<1>1. Links /\ DeadIsNotFirst /\ NoUseAfterFree
  BY DEF HandleInit, Links, DeadIsNotFirst, NoUseAfterFree
<1>2. \E s \in [1..0 -> Handles] : IsChain(0, s)
  <2> WITNESS [i \in 1..0 |-> i] \in [1..0 -> Handles]
  <2> QED
    BY DEF HandleInit, IsChain
<1> QED
  BY <1>1, <1>2 DEF Registry, Chained

(* Only a thread that nobody else is inside with frees a handle. *)
LEMMA LastOneFrees ==
  ASSUME Books, NEW t \in Threads, pc[t] = "drop", refcnt[at[t]] - 1 <= 0
  PROVE  \A u \in Threads : at[u] = at[t] => u = t
<1>1. at[t] \in known /\ at[t] \in Handles
  BY DEF Books, Types, Places, Inside
<1>2. t \in Users(at[t]) /\ Users(at[t]) \in SUBSET Threads
  BY <1>1 DEF Users
<1>3. /\ Cardinality(Users(at[t])) \in Nat /\ Cardinality(Users(at[t])) >= 1
      /\ Cardinality(Users(at[t])) - 1 <= 0
  BY <1>1, <1>2, OneMore DEF Books, Counts
<1>4. Users(at[t]) = {t}
  <2>1. Cardinality(Users(at[t])) = 1
    BY <1>3
  <2> QED
    BY <1>2, <2>1, OneMore
<1> QED
  BY <1>1, <1>4 DEF Users, Books, Places

LEMMA RegistryStep ==
  ASSUME KeepFirst, HandleInv, [HandleNext]_handleVars
  PROVE  Registry'
<1> USE DEF HandleInv, Books, Registry
<1>0. ASSUME UNCHANGED <<list, allocated, used>> PROVE Links' /\ Chained' /\ pool' = pool
  BY <1>0 DEF list, Links, Chained, IsChain
<1>1. ASSUME NEW t \in Threads, NEW h \in Handles, NewAppend(t, h) PROVE Registry'
  <2>1. Links' /\ Chained'
    BY <1>1, AppendChain
  <2>2. h \notin used /\ \A k \in known : k \in used
    BY <1>1 DEF NewAppend, Types
  <2>3. DeadIsNotFirst'
    BY <1>1, <2>2 DEF NewAppend, Goto, DeadIsNotFirst, Types, PCs
  <2>4. NoUseAfterFree'
    BY <1>1 DEF NewAppend, Goto, NoUseAfterFree, Types
  <2> QED
    BY <2>1, <2>3, <2>4
<1>2. ASSUME NEW t \in Threads, UnlockDrop(t) PROVE Registry'
  <2>1. at[t] \in known /\ at[t] \in Handles /\ at[t] \in allocated /\ refcnt[at[t]] \in Nat
    BY <1>2 DEF UnlockDrop, Goto, Places, Inside, Types, NoUseAfterFree
  <2>2. CASE ~saw[t] /\ refcnt[at[t]] - 1 <= 0
    <3>1. at[t] # pool
      BY <1>2, <2>1, <2>2 DEF UnlockDrop, Goto, DeadIsNotFirst
    <3>2. Unlink(at[t]) /\ allocated' = allocated \ {at[t]} /\ used' = used
      BY <1>2, <2>2 DEF UnlockDrop
    <3>3. Links' /\ Chained'
      BY <2>1, <3>1, <3>2, UnlinkChain
    <3>4. NoUseAfterFree'
      BY <1>2, <2>2, <3>2, LastOneFrees DEF UnlockDrop, Goto, NoUseAfterFree, Types
    <3>5. DeadIsNotFirst'
      BY <1>2, <3>2 DEF UnlockDrop, Goto, Unlink, DeadIsNotFirst, Types
    <3> QED
      BY <3>3, <3>4, <3>5
  <2>3. CASE ~ (~saw[t] /\ refcnt[at[t]] - 1 <= 0)
    <3>1. UNCHANGED <<list, allocated, used, alive, known>>
      BY <1>2, <2>3 DEF UnlockDrop
    <3> QED
      BY <1>2, <1>0, <3>1 DEF UnlockDrop, Goto, DeadIsNotFirst, NoUseAfterFree, Types
  <2> QED
    BY <2>2, <2>3
<1>3. ASSUME NEW t \in Threads, NewReturn(t) PROVE Registry'
  <2>1. at[t] \in used \ known /\ at[t] \in Handles
    BY <1>3 DEF NewReturn, Goto, Places, Types
  <2> QED
    BY <1>0, <1>3, <2>1 DEF NewReturn, Goto, Places, Inside, DeadIsNotFirst, NoUseAfterFree, Types, PCs
<1>4. ASSUME NEW t \in Threads, NEW h \in Handles, NEW m \in {"r", "w"}, LockFind(t, h, m)
      PROVE  Registry'
  <2>1. h \in allocated
    BY <1>4, ListIsAllocated DEF LockFind
  <2> QED
    BY <1>0, <1>4, <2>1 DEF LockFind, Goto, DeadIsNotFirst, NoUseAfterFree, Types
<1>5. ASSUME NEW t \in Threads, LockGranted(t) PROVE Registry'
  BY <1>0, <1>5 DEF LockGranted, Granted, DeadIsNotFirst, NoUseAfterFree, Types
<1>6. ASSUME NEW t \in Threads, Kill(t) PROVE Registry'
  BY <1>0, <1>6, KeepFirstAssumption DEF Kill, Goto, DeadIsNotFirst, NoUseAfterFree, Types, Places, Inside
<1>7. ASSUME NEW t \in Threads, UnlockRead(t) PROVE Registry'
  BY <1>0, <1>7 DEF UnlockRead, DeadIsNotFirst, NoUseAfterFree, Types
<1>8. ASSUME NEW t \in Threads, UnlockRelease(t) PROVE Registry'
  BY <1>0, <1>8 DEF UnlockRelease, Goto, DeadIsNotFirst, NoUseAfterFree, Types
<1>9. CASE UNCHANGED handleVars
  BY <1>0, <1>9 DEF handleVars, DeadIsNotFirst, NoUseAfterFree
<1> QED
  BY <1>1, <1>2, <1>3, <1>4, <1>5, <1>6, <1>7, <1>8, <1>9 DEF HandleNext
----------------------------------------------------------------------------
(* Theorems *)

(* The counts and locks agree with where the threads are, whichever handles
   are deleted (thp_handle_rlock, thp_handle_wlock, thp_handle_unlock). *)
THEOREM BooksAlways == HandleSpec => []Books
  BY BooksInit, BooksStep, PTL DEF HandleSpec

(* A caller that was told LBS_CODE_OK works on a live object, for any number
   of threads and handles, and although the list may be damaged: the handle's
   lock and the test behind the wait see to it (thp_handle_rlock,
   thp_handle_wlock). *)
THEOREM HoldersSeeLiveObjects == HandleSpec => []HolderSeesLiveObject
<1>1. Books => HolderSeesLiveObject
  BY DEF Books
<1> QED
  BY <1>1, BooksAlways, PTL

(* The reference count of a handle is the number of threads inside it, for any
   number of threads (thp_find_handle_in_pool, thp_handle_unlock). *)
THEOREM RefcountsAreExact == HandleSpec => []RefcountExact
<1>1. Books => RefcountExact
  BY DEF Books, Types, Counts, RefcountExact
<1> QED
  BY <1>1, BooksAlways, PTL

LEMMA HandleInvAlways == KeepFirst /\ HandleSpec => []HandleInv
<1> SUFFICES ASSUME KeepFirst PROVE HandleSpec => []HandleInv
  OBVIOUS
<1>1. HandleInit => HandleInv
  BY BooksInit, RegistryInit DEF HandleInv
<1>2. HandleInv /\ [HandleNext]_handleVars => HandleInv'
  BY BooksStep, RegistryStep DEF HandleInv
<1> QED
  BY <1>1, <1>2, PTL DEF HandleSpec

(* If the first handle of the list is never deleted, no thread is inside a
   freed handle, for any number of threads and handles (thp_del_handle out of
   thp_handle_unlock, with threads that wait for the handle's lock). *)
THEOREM NobodyUsesFreedHandle == KeepFirst /\ HandleSpec => []NoUseAfterFree
<1>1. HandleInv => NoUseAfterFree
  BY DEF HandleInv, Registry
<1> QED
  BY <1>1, HandleInvAlways, PTL

(* Under the same condition the list holds exactly the allocated handles and
   can be walked in both directions, and counts and types are right: inserting
   at the end and taking out of the middle never lose a handle, for a list of
   any length (thp_append_handle, thp_handle_remove_from_pool). *)
THEOREM BooksAlwaysAgree == KeepFirst /\ HandleSpec => []BooksAgree
<1>1. HandleInv => BooksAgree
  <2> SUFFICES ASSUME HandleInv PROVE BooksAgree
    OBVIOUS
  <2> USE DEF HandleInv, Books, Registry
  <2>1. ListIsTheAllocated
    BY ListIsAllocated
  <2>2. pool \in Handles \cup {NoHandle}
    <3>1. PICK n \in Nat : \E s \in [1..n -> Handles] : IsChain(n, s)
      BY DEF Chained
    <3>2. PICK s \in [1..n -> Handles] : IsChain(n, s)
      BY <3>1
    <3> QED
      BY <3>2 DEF IsChain
  <2> QED
    BY <2>1, <2>2 DEF BooksAgree, HandleTypeOK, Types, Links, Counts, RefcountExact
<1> QED
  BY <1>1, HandleInvAlways, PTL

(***************************************************************************)
(* The pool: module ThreadPool.                                            *)
(***************************************************************************)

(* PackageInOnePlace, with the two chains apart. *)
Apart ==
  /\ IsInjective(queue) /\ IsInjective(spare)
  /\ Range(queue) \cap Range(spare) = {}
  /\ \A d \in Deliverers : bag[d] # Null =>
       /\ bag[d] \notin Range(queue) \cup Range(spare)
       /\ \A e \in Deliverers \ {d} : bag[e] # bag[d]
       /\ \A w \in Workers : Hand(w) # bag[d]
  /\ \A w \in Workers : Hand(w) # Null =>
       /\ Hand(w) \notin Range(queue) \cup Range(spare)
       /\ \A v \in Workers \ {w} : Hand(v) # Hand(w)

(* A package on its way to a real worker holds a task. *)
Called(w) == wpc[w] = "call" /\ pkg[w] # Null
Filled ==
  /\ \A p \in Range(queue) : task[p] \in Tasks
  /\ \A d \in Deliverers : bag[d] # Null => task[bag[d]] \in Tasks
  /\ \A w \in Workers : Called(w) => task[pkg[w]] \in Tasks

(* TasksAccounted, task by task: where a delivered task is. *)
Queued(x) == \E p \in Range(queue) : task[p] = x
Bagged(x) == \E d \in Deliverers : bag[d] # Null /\ task[bag[d]] = x
InCall(x) == \E w \in Workers : Called(w) /\ task[pkg[w]] = x
Located(x) == x \in worked \cup dropped \/ Queued(x) \/ Bagged(x) \/ InCall(x)
AllLocated == \A x \in Tasks \ toGo : Located(x)

(* A worker that is not in the watcher's list does not run: it does not exist,
   or the watcher is about to list it. *)
Enlisted ==
  /\ \A w \in Workers \ threads :
       \/ wpc[w] = "none"
       \/ wpc[w] = "suspended" /\ watcher = "insert" /\ newborn = w
  /\ watcher = "insert" => newborn \in Workers /\ wpc[newborn] = "suspended"

(* Nothing runs before the start; after a stop the watcher and every listed
   worker have ended. *)
Started ==
  admin = "new" => /\ watcher = "suspended"
                   /\ \A w \in Workers : wpc[w] \in {"none", "suspended"}
Ended ==
  admin \in {"stopped", "deleted"} =>
    watcher = "gone" /\ \A w \in threads : wpc[w] = "gone"

Roster == Enlisted /\ Started /\ Ended

IInv == TypeOK /\ Apart /\ Filled /\ AllLocated /\ Roster
----------------------------------------------------------------------------
(* Chains without repetition. *)

LEMMA RangeIs ==
  ASSUME NEW q \in Seq(Packages)
  PROVE  /\ DOMAIN q = 1..Len(q) /\ Len(q) \in Nat
         /\ \A p : p \in Range(q) <=> \E i \in 1..Len(q) : q[i] = p
         /\ Range(q) \subseteq Packages
  BY LenProperties DEF Range

LEMMA EmptyChain ==
  /\ <<>> \in Seq(Packages) /\ Range(<<>>) = {} /\ IsInjective(<<>>)
<1>1. <<>> \in Seq(Packages) /\ DOMAIN <<>> = {}
  BY EmptySeq
<1> QED
  BY <1>1 DEF IsInjective, Range

(* A package put behind a chain, thp_push_task and the recollection. *)
LEMMA ChainGrows ==
  ASSUME NEW q \in Seq(Packages), NEW p \in Packages
  PROVE  /\ Append(q, p) \in Seq(Packages)
         /\ Range(Append(q, p)) = Range(q) \cup {p}
         /\ IsInjective(q) /\ p \notin Range(q) => IsInjective(Append(q, p))
<1>1. /\ Append(q, p) \in Seq(Packages) /\ Len(Append(q, p)) = Len(q) + 1
      /\ Append(q, p)[Len(q) + 1] = p
      /\ \A i \in 1..Len(q) : Append(q, p)[i] = q[i]
  BY AppendProperties
<1>2. \A r : r \in Range(Append(q, p)) <=> r \in Range(q) \cup {p}
  <2>1. Len(q) \in Nat /\ \A i : i \in 1..(Len(q) + 1) <=> i \in 1..Len(q) \/ i = Len(q) + 1
    BY RangeIs
  <2>2. \A r : r \in Range(Append(q, p)) <=> \E i \in 1..(Len(q) + 1) : Append(q, p)[i] = r
    BY <1>1, RangeIs
  <2>3. \A r : r \in Range(q) <=> \E i \in 1..Len(q) : q[i] = r
    BY RangeIs
  <2> QED
    BY <1>1, <2>1, <2>2, <2>3
<1>3. IsInjective(q) /\ p \notin Range(q) => IsInjective(Append(q, p))
  BY <1>1, RangeIs DEF IsInjective
<1> QED
  BY <1>1, <1>2, <1>3

(* The first package taken off a chain, thp_pop_task. *)
LEMMA ChainShrinks ==
  ASSUME NEW q \in Seq(Packages), q # <<>>, IsInjective(q)
  PROVE  /\ Tail(q) \in Seq(Packages) /\ IsInjective(Tail(q))
         /\ Head(q) \in Packages /\ Range(q) = Range(Tail(q)) \cup {Head(q)}
         /\ Head(q) \notin Range(Tail(q))
<1>1. /\ Head(q) \in Packages /\ Head(q) = q[1] /\ Tail(q) \in Seq(Packages)
      /\ Len(q) \in Nat \ {0} /\ Len(Tail(q)) = Len(q) - 1
      /\ \A i \in 1..Len(Tail(q)) : Tail(q)[i] = q[i + 1]
  BY HeadTailProperties, EmptySeq
<1>2. DOMAIN q = 1..Len(q) /\ DOMAIN Tail(q) = 1..Len(Tail(q))
  BY <1>1, RangeIs
<1>3. IsInjective(Tail(q))
  BY <1>1, <1>2 DEF IsInjective
<1>4. \A r : r \in Range(q) <=> r \in Range(Tail(q)) \cup {Head(q)}
  <2>1. ASSUME NEW i \in 1..Len(q), i # 1 PROVE q[i] \in Range(Tail(q))
    <3>1. i - 1 \in 1..Len(Tail(q)) /\ Tail(q)[i - 1] = q[i]
      BY <1>1, <2>1
    <3> QED
      BY <1>1, <3>1, RangeIs
  <2>2. \A i \in 1..Len(Tail(q)) : i + 1 \in 1..Len(q)
    BY <1>1
  <2>3. 1 \in 1..Len(q)
    BY <1>1
  <2> QED
    BY <1>1, <1>2, <2>1, <2>2, <2>3 DEF Range
<1>5. Head(q) \notin Range(Tail(q))
  <2>1. \A i \in 1..Len(Tail(q)) : i + 1 \in 1..Len(q) /\ 1 \in 1..Len(q) /\ i + 1 # 1
    BY <1>1
  <2> QED
    BY <1>1, <1>2, <2>1 DEF IsInjective, Range
<1> QED
  BY <1>1, <1>3, <1>4, <1>5

(* Two chains that are apart, one behind the other. *)
LEMMA ChainsApart ==
  ASSUME NEW q \in Seq(Packages), NEW r \in Seq(Packages), IsInjective(q), IsInjective(r),
         Range(q) \cap Range(r) = {}
  PROVE  IsInjective(q \o r) /\ Range(q \o r) = Range(q) \cup Range(r)
<1>1. /\ q \o r \in Seq(Packages) /\ Len(q \o r) = Len(q) + Len(r)
      /\ \A i \in 1..(Len(q) + Len(r)) : (q \o r)[i] = IF i <= Len(q) THEN q[i] ELSE r[i - Len(q)]
  BY ConcatProperties
<1>2. /\ DOMAIN q = 1..Len(q) /\ DOMAIN r = 1..Len(r)
      /\ DOMAIN (q \o r) = 1..(Len(q) + Len(r))
      /\ Len(q) \in Nat /\ Len(r) \in Nat
  BY <1>1, RangeIs
<1>3. /\ \A i \in 1..Len(q) : i \in 1..(Len(q) + Len(r)) /\ (q \o r)[i] = q[i]
      /\ \A i \in 1..Len(r) : /\ i + Len(q) \in 1..(Len(q) + Len(r))
                              /\ (q \o r)[i + Len(q)] = r[i]
      /\ \A i \in 1..(Len(q) + Len(r)) :
            \/ i \in 1..Len(q)
            \/ i - Len(q) \in 1..Len(r) /\ (i - Len(q)) + Len(q) = i
  <2>1. \A i \in 1..Len(r) : /\ i + Len(q) \in 1..(Len(q) + Len(r)) /\ ~ (i + Len(q) <= Len(q))
                             /\ (i + Len(q)) - Len(q) = i
    BY <1>2
  <2> QED
    BY <1>1, <1>2, <2>1
<1>4. \A i \in 1..Len(q), j \in 1..Len(r) : q[i] # r[j]
  BY <1>2 DEF Range
<1>5. ASSUME NEW i \in 1..(Len(q) + Len(r)), NEW j \in 1..(Len(q) + Len(r)),
             (q \o r)[i] = (q \o r)[j]
      PROVE  i = j
  <2>1. CASE i \in 1..Len(q) /\ j \in 1..Len(q)
    BY <1>2, <1>3, <1>5, <2>1 DEF IsInjective
  <2>2. CASE i - Len(q) \in 1..Len(r) /\ j - Len(q) \in 1..Len(r)
    <3>1. (q \o r)[i] = r[i - Len(q)] /\ (q \o r)[j] = r[j - Len(q)]
      BY <1>2, <1>3, <2>2
    <3>2. i - Len(q) = j - Len(q)
      BY <1>2, <1>5, <2>2, <3>1 DEF IsInjective
    <3> QED
      BY <1>2, <3>2
  <2>3. CASE i \in 1..Len(q) /\ j - Len(q) \in 1..Len(r)
    BY <1>2, <1>3, <1>4, <1>5, <2>3
  <2>4. CASE i - Len(q) \in 1..Len(r) /\ j \in 1..Len(q)
    BY <1>2, <1>3, <1>4, <1>5, <2>4
  <2> QED
    BY <1>3, <2>1, <2>2, <2>3, <2>4
<1>6. Range(q \o r) = Range(q) \cup Range(r)
  <2>1. ASSUME NEW i \in 1..(Len(q) + Len(r)) PROVE (q \o r)[i] \in Range(q) \cup Range(r)
    <3>1. CASE i \in 1..Len(q)
      BY <1>2, <1>3, <3>1 DEF Range
    <3>2. CASE i - Len(q) \in 1..Len(r) /\ (i - Len(q)) + Len(q) = i
      <4>1. (q \o r)[i] = r[i - Len(q)]
        BY <1>3, <3>2
      <4> QED
        BY <1>2, <3>2, <4>1 DEF Range
    <3> QED
      BY <1>3, <3>1, <3>2
  <2>2. \A i \in 1..Len(q) : q[i] \in Range(q \o r)
    BY <1>2, <1>3 DEF Range
  <2>3. \A i \in 1..Len(r) : r[i] \in Range(q \o r)
    BY <1>2, <1>3 DEF Range
  <2> QED
    BY <1>2, <2>1, <2>2, <2>3 DEF Range
<1> QED
  BY <1>2, <1>5, <1>6 DEF IsInjective
----------------------------------------------------------------------------
(* Packages and tasks. *)

Contents == TypeOK /\ Apart /\ Filled /\ AllLocated

LEMMA ContentsInit == Init => Contents
<1> SUFFICES ASSUME Init PROVE Contents
  OBVIOUS
<1> USE DEF Init
<1>1. TypeOK
  BY EmptyChain, WorkersAssumption DEF TypeOK, WorkerPCs, WatcherPCs, AdminPCs
<1>2. Apart
  BY EmptyChain DEF Apart, Hand
<1>3. Filled /\ AllLocated
  BY EmptyChain DEF Filled, Called, AllLocated
<1> QED
  BY <1>1, <1>2, <1>3 DEF Contents

(* thp_deliver_task takes a package that is nowhere else. *)
LEMMA PrepareStep ==
  ASSUME Contents, NEW d \in Deliverers, NEW x \in Tasks, Prepare(d, x)
  PROVE  Contents'
<1> USE DEF Contents
<1>1. /\ bag[d] = Null /\ x \in toGo /\ toGo' = toGo \ {x}
      /\ task' = [task EXCEPT ![bag'[d]] = x]
      /\ UNCHANGED <<queue, wpc, pkg, fresh, status, threads, held, watcher, count,
                     newborn, admin, worked, dropped>>
  BY DEF Prepare, worker, watch
<1>2. /\ bag'[d] \in Packages /\ bag' = [bag EXCEPT ![d] = bag'[d]]
      /\ bag'[d] \notin Range(queue) \cup Range(spare')
      /\ \A e \in Deliverers : bag[e] # bag'[d]
      /\ \A w \in Workers : Hand(w) # bag'[d]
      /\ spare' \in Seq(Packages) /\ IsInjective(spare') /\ Range(spare') \subseteq Range(spare)
  <2>1. CASE spare = <<>>
    BY <2>1, EmptyChain DEF Prepare, TypeOK, Apart, InUse
  <2>2. CASE spare # <<>>
    <3>1. bag' = [bag EXCEPT ![d] = Head(spare)] /\ spare' = Tail(spare)
      BY <2>2 DEF Prepare
    <3>2. /\ Head(spare) \in Packages /\ Head(spare) \notin Range(Tail(spare))
          /\ Tail(spare) \in Seq(Packages) /\ IsInjective(Tail(spare))
          /\ Range(spare) = Range(Tail(spare)) \cup {Head(spare)}
      BY <2>2, ChainShrinks DEF TypeOK, Apart
    <3> QED
      BY <3>1, <3>2, NullAssumption DEF TypeOK, Apart
  <2> QED
    BY <2>1, <2>2
<1>3. TypeOK'
  BY <1>1, <1>2 DEF TypeOK
<1>4. Apart'
  BY <1>1, <1>2 DEF TypeOK, Apart, Hand
<1>5. Filled'
  BY <1>1, <1>2 DEF TypeOK, Apart, Filled, Hand, Called
<1>6. AllLocated'
  <2> SUFFICES ASSUME NEW y \in Tasks \ toGo' PROVE Located(y)'
    BY DEF AllLocated
  <2>1. CASE y = x
    <3>1. bag'[d] # Null /\ task'[bag'[d]] = y
      BY <1>1, <1>2, <2>1, NullAssumption DEF TypeOK
    <3> QED
      BY <3>1 DEF Located, Bagged
  <2>2. CASE y # x
    <3>1. \A p \in Packages \ {bag'[d]} : task'[p] = task[p]
      BY <1>1 DEF TypeOK
    <3>2. Range(queue) \subseteq Packages
      BY RangeIs DEF TypeOK
    <3>3. Located(y)
      BY <1>1, <2>2 DEF AllLocated
    <3>4. CASE y \in worked \cup dropped
      BY <1>1, <3>4 DEF Located
    <3>5. CASE Queued(y)
      BY <1>1, <1>2, <3>1, <3>2, <3>5 DEF Located, Queued
    <3>6. CASE Bagged(y)
      BY <1>1, <1>2, <3>1, <3>6 DEF Located, Bagged, TypeOK
    <3>7. CASE InCall(y)
      BY <1>1, <1>2, <3>1, <3>7 DEF Located, InCall, Called, Hand, TypeOK
    <3> QED
      BY <3>3, <3>4, <3>5, <3>6, <3>7 DEF Located
  <2> QED
    BY <2>1, <2>2
<1> QED
  BY <1>3, <1>4, <1>5, <1>6

(* thp_push_task. *)
LEMMA PushStep ==
  ASSUME Contents, NEW d \in Deliverers, Push(d)
  PROVE  Contents'
<1> USE DEF Contents
<1>1. /\ bag[d] # Null /\ bag[d] \in Packages /\ bag' = [bag EXCEPT ![d] = Null]
      /\ UNCHANGED <<spare, task, toGo, wpc, pkg, fresh, status, threads, held, watcher, count,
                     newborn, admin, worked, dropped>>
  BY DEF Push, worker, watch, TypeOK
<1>2. /\ queue' \in Seq(Packages) /\ IsInjective(queue') /\ Range(queue') = Range(queue) \cup {bag[d]}
  BY <1>1, ChainGrows DEF Push, TypeOK, Apart
<1>3. TypeOK'
  BY <1>1, <1>2 DEF TypeOK
<1>4. Apart'
  BY <1>1, <1>2 DEF TypeOK, Apart, Hand
<1>5. Filled'
  BY <1>1, <1>2 DEF TypeOK, Filled, Called
<1>6. AllLocated'
  <2> SUFFICES ASSUME NEW y \in Tasks \ toGo' PROVE Located(y)'
    BY DEF AllLocated
  <2>1. Located(y)
    BY <1>1 DEF AllLocated
  <2>2. CASE y \in worked \cup dropped \/ InCall(y)
    BY <1>1, <2>2 DEF Located, InCall, Called
  <2>3. CASE Queued(y)
    BY <1>1, <1>2, <2>3 DEF Located, Queued
  <2>4. CASE Bagged(y)
    <3>1. PICK e \in Deliverers : bag[e] # Null /\ task[bag[e]] = y
      BY <2>4 DEF Bagged
    <3>2. CASE e = d
      BY <1>1, <1>2, <3>1, <3>2 DEF Located, Queued
    <3>3. CASE e # d
      BY <1>1, <3>1, <3>3 DEF Located, Bagged, TypeOK
    <3> QED
      BY <3>2, <3>3
  <2> QED
    BY <2>1, <2>2, <2>3, <2>4 DEF Located
<1> QED
  BY <1>3, <1>4, <1>5, <1>6

(* thp_pop_task, with a package or without. *)
LEMMA PopStep ==
  ASSUME Contents, NEW w \in Workers, WorkerPop(w)
  PROVE  Contents'
<1> USE DEF Contents
<1>1. /\ wpc[w] = "pop" /\ wpc' = [wpc EXCEPT ![w] = "call"]
      /\ UNCHANGED <<spare, task, toGo, bag, fresh, status, threads, held, watcher, count,
                     newborn, admin, worked, dropped>>
  BY DEF WorkerPop, watch
<1>2. CASE queue = <<>>
  <2>1. pkg' = [pkg EXCEPT ![w] = Null] /\ queue' = queue
    BY <1>2 DEF WorkerPop
  <2>2. TypeOK'
    BY <1>1, <2>1 DEF TypeOK, WorkerPCs
  <2>3. Apart'
    BY <1>1, <2>1 DEF TypeOK, Apart, Hand
  <2>4. \A v \in Workers : Called(v)' <=> v # w /\ Called(v)
    BY <1>1, <2>1 DEF TypeOK, Called
  <2>5. \A v \in Workers \ {w} : pkg'[v] = pkg[v]
    BY <2>1 DEF TypeOK
  <2>6. ~ Called(w)
    BY <1>1 DEF Called
  <2>7. Filled'
    BY <1>1, <2>1, <2>4, <2>5 DEF Filled
  <2>8. AllLocated'
    <3> SUFFICES ASSUME NEW y \in Tasks \ toGo' PROVE Located(y)'
      BY DEF AllLocated
    <3>1. Located(y)
      BY <1>1 DEF AllLocated
    <3>2. CASE y \in worked \cup dropped \/ Queued(y) \/ Bagged(y)
      BY <1>1, <2>1, <3>2 DEF Located, Queued, Bagged
    <3>3. CASE InCall(y)
      BY <1>1, <2>4, <2>5, <2>6, <3>3 DEF Located, InCall
    <3> QED
      BY <3>1, <3>2, <3>3 DEF Located
  <2> QED
    BY <2>2, <2>3, <2>7, <2>8
<1>3. CASE queue # <<>>
  <2>1. /\ pkg' = [pkg EXCEPT ![w] = pkg'[w]] /\ pkg'[w] \in Packages
        /\ queue' \in Seq(Packages) /\ IsInjective(queue')
        /\ Range(queue) = Range(queue') \cup {pkg'[w]} /\ pkg'[w] \notin Range(queue')
    <3>1. pkg' = [pkg EXCEPT ![w] = Head(queue)] /\ queue' = Tail(queue)
      BY <1>3 DEF WorkerPop
    <3> QED
      BY <1>3, <3>1, ChainShrinks DEF TypeOK, Apart
  <2>2. TypeOK'
    BY <1>1, <2>1 DEF TypeOK, WorkerPCs
  <2>3. Apart'
    BY <1>1, <2>1, NullAssumption DEF TypeOK, Apart, Hand
  <2>4. Filled'
    BY <1>1, <2>1, NullAssumption DEF TypeOK, Filled, Called
  <2>5. AllLocated'
    <3> SUFFICES ASSUME NEW y \in Tasks \ toGo' PROVE Located(y)'
      BY DEF AllLocated
    <3>1. Located(y)
      BY <1>1 DEF AllLocated
    <3>2. CASE y \in worked \cup dropped \/ Bagged(y)
      BY <1>1, <3>2 DEF Located, Bagged
    <3>3. CASE Queued(y)
      <4>1. PICK p \in Range(queue) : task[p] = y
        BY <3>3 DEF Queued
      <4>2. CASE p = pkg'[w]
        <5>1. Called(w)' /\ task'[pkg'[w]] = y
          BY <1>1, <2>1, <4>1, <4>2, NullAssumption DEF Called, TypeOK
        <5> QED
          BY <5>1 DEF Located, InCall
      <4>3. CASE p # pkg'[w]
        BY <1>1, <2>1, <4>1, <4>3 DEF Located, Queued
      <4> QED
        BY <4>2, <4>3
    <3>4. CASE InCall(y)
      <4>1. PICK v \in Workers : Called(v) /\ task[pkg[v]] = y
        BY <3>4 DEF InCall
      <4>2. v # w
        BY <1>1, <4>1 DEF Called
      <4>3. Called(v)' /\ task'[pkg'[v]] = y
        BY <1>1, <2>1, <4>1, <4>2 DEF Called, TypeOK
      <4> QED
        BY <4>3 DEF Located, InCall
    <3> QED
      BY <3>1, <3>2, <3>3, <3>4 DEF Located
  <2> QED
    BY <2>2, <2>3, <2>4, <2>5
<1> QED
  BY <1>2, <1>3

(* A task that is refused is queued again, in its package. *)
LEMMA RefusesStep ==
  ASSUME Contents, NEW w \in Workers, WorkerRefuses(w)
  PROVE  Contents'
<1> USE DEF Contents
<1>1. /\ wpc[w] = "call" /\ wpc' = [wpc EXCEPT ![w] = "recollect"]
      /\ pkg[w] # Null /\ pkg[w] \in Packages /\ pkg' = [pkg EXCEPT ![w] = Null]
      /\ fresh' = [fresh EXCEPT ![w] = FALSE]
      /\ UNCHANGED <<spare, task, toGo, bag, status, threads, held, watcher, count,
                     newborn, admin, worked, dropped>>
  BY DEF WorkerRefuses, watch, TypeOK
<1>2. Hand(w) = pkg[w] /\ pkg[w] \notin Range(queue)
  BY <1>1 DEF Hand, Apart
<1>3. /\ queue' \in Seq(Packages) /\ IsInjective(queue') /\ Range(queue') = Range(queue) \cup {pkg[w]}
  BY <1>1, <1>2, ChainGrows DEF WorkerRefuses, TypeOK, Apart
<1>4. TypeOK'
  BY <1>1, <1>3 DEF TypeOK, WorkerPCs
<1>5. Apart'
  BY <1>1, <1>2, <1>3 DEF TypeOK, Apart, Hand
<1>6. Filled'
  BY <1>1, <1>3 DEF TypeOK, Filled, Called
<1>7. AllLocated'
  <2> SUFFICES ASSUME NEW y \in Tasks \ toGo' PROVE Located(y)'
    BY DEF AllLocated
  <2>1. Located(y)
    BY <1>1 DEF AllLocated
  <2>2. CASE y \in worked \cup dropped \/ Bagged(y)
    BY <1>1, <2>2 DEF Located, Bagged
  <2>3. CASE Queued(y)
    BY <1>1, <1>3, <2>3 DEF Located, Queued
  <2>4. CASE InCall(y)
    <3>1. PICK v \in Workers : Called(v) /\ task[pkg[v]] = y
      BY <2>4 DEF InCall
    <3>2. CASE v = w
      BY <1>1, <1>3, <3>1, <3>2 DEF Located, Queued
    <3>3. CASE v # w
      <4>1. Called(v)' /\ task'[pkg'[v]] = y
        BY <1>1, <3>1, <3>3 DEF Called, TypeOK
      <4> QED
        BY <4>1 DEF Located, InCall
    <3> QED
      BY <3>2, <3>3
  <2> QED
    BY <2>1, <2>2, <2>3, <2>4 DEF Located
<1> QED
  BY <1>4, <1>5, <1>6, <1>7

(* thp_recollect_task_package: the local is cleared or not, the package is out
   of the worker's hands. *)
LEMMA RecollectStep ==
  ASSUME Contents, NEW w \in Workers, WorkerRecollect(w)
  PROVE  Contents'
<1> USE DEF Contents
<1>1. /\ wpc[w] = "recollect" /\ wpc' = [wpc EXCEPT ![w] = "test"]
      /\ UNCHANGED <<queue, toGo, bag, fresh, status, threads, held, watcher, count,
                     newborn, admin, worked, dropped>>
  BY DEF WorkerRecollect, watch
<1>2. CASE pkg[w] = Null
  <2>1. UNCHANGED <<spare, task, pkg>>
    BY <1>2 DEF WorkerRecollect
  <2>2. \A v \in Workers : Called(v)' <=> Called(v)
    BY <1>1, <2>1 DEF TypeOK, Called
  <2>3. TypeOK'
    BY <1>1, <2>1 DEF TypeOK, WorkerPCs
  <2>4. Filled' /\ AllLocated'
    BY <1>1, <2>1, <2>2 DEF Filled, AllLocated, Located, Queued, Bagged, InCall
  <2>5. Apart'
    BY <1>1, <1>2, <2>1 DEF TypeOK, Apart, Hand
  <2> QED
    BY <2>3, <2>4, <2>5
<1>3. CASE pkg[w] # Null
  <2>1. /\ pkg[w] \in Packages /\ Hand(w) = pkg[w] /\ pkg[w] \notin Range(queue) \cup Range(spare)
        /\ \A d \in Deliverers : bag[d] # pkg[w]
        /\ \A v \in Workers \ {w} : Hand(v) # pkg[w]
    BY <1>1, <1>3 DEF Hand, Apart, TypeOK
  <2>2. /\ spare' \in Seq(Packages) /\ IsInjective(spare') /\ Range(spare') = Range(spare) \cup {pkg[w]}
    <3>1. spare' = Append(spare, pkg[w])
      BY <1>3 DEF WorkerRecollect
    <3> QED
      BY <2>1, <3>1, ChainGrows DEF TypeOK, Apart
  <2>3. /\ task' = task \/ task' = [task EXCEPT ![pkg[w]] = Null]
        /\ pkg' = pkg \/ pkg' = [pkg EXCEPT ![w] = Null]
    BY <1>3 DEF WorkerRecollect
  <2>4. \A p \in Packages \ {pkg[w]} : task'[p] = task[p]
    BY <2>3 DEF TypeOK
  <2>5. \A v \in Workers \ {w} : pkg'[v] = pkg[v] /\ wpc'[v] = wpc[v]
    BY <1>1, <2>3 DEF TypeOK
  <2>6. TypeOK'
    BY <1>1, <2>2, <2>3 DEF TypeOK, WorkerPCs
  <2>7. Apart'
    BY <1>1, <2>1, <2>2, <2>5 DEF TypeOK, Apart, Hand
  <2>8. \A v \in Workers : Called(v)' => v # w /\ Called(v) /\ pkg[v] # pkg[w] /\ pkg[v] \in Packages
    BY <1>1, <2>1, <2>5 DEF TypeOK, Called, Hand
  <2>9. Range(queue) \subseteq Packages
    BY RangeIs DEF TypeOK
  <2>10. Filled'
    BY <1>1, <2>1, <2>4, <2>5, <2>8, <2>9 DEF TypeOK, Filled
  <2>11. AllLocated'
    <3> SUFFICES ASSUME NEW y \in Tasks \ toGo' PROVE Located(y)'
      BY DEF AllLocated
    <3>1. Located(y)
      BY <1>1 DEF AllLocated
    <3>2. CASE y \in worked \cup dropped
      BY <1>1, <3>2 DEF Located
    <3>3. CASE Queued(y)
      BY <1>1, <2>1, <2>4, <2>9, <3>3 DEF Located, Queued
    <3>4. CASE Bagged(y)
      BY <1>1, <2>1, <2>4, <3>4 DEF Located, Bagged, TypeOK
    <3>5. CASE InCall(y)
      <4>1. PICK v \in Workers : Called(v) /\ task[pkg[v]] = y
        BY <3>5 DEF InCall
      <4>2. v # w /\ pkg[v] # pkg[w] /\ pkg[v] \in Packages
        BY <1>1, <2>1, <4>1 DEF Called, Hand, TypeOK
      <4>3. Called(v)' /\ task'[pkg'[v]] = y
        BY <2>4, <2>5, <4>1, <4>2 DEF Called
      <4> QED
        BY <4>3 DEF Located, InCall
    <3> QED
      BY <3>1, <3>2, <3>3, <3>4, <3>5 DEF Located
  <2> QED
    BY <2>6, <2>7, <2>10, <2>11
<1> QED
  BY <1>2, <1>3

(* The answers of the real worker that leave the package where it is. *)
LEMMA AnswerStep ==
  ASSUME Contents, NEW w \in Workers, WorkerTakes(w) \/ WorkerEnds(w) \/ WorkerIdle(w)
  PROVE  Contents'
<1> USE DEF Contents
<1>1. /\ wpc[w] = "call" /\ wpc' = [wpc EXCEPT ![w] = wpc'[w]]
      /\ wpc'[w] \in {"recollect", "gone", "crashed"}
      /\ pkg[w] = Null \/ wpc'[w] \in {"recollect", "gone"}
      /\ fresh' \in [Workers -> BOOLEAN]
      /\ UNCHANGED <<queue, spare, task, toGo, bag, pkg, status, threads, held, watcher, count,
                     newborn, admin>>
  BY DEF WorkerTakes, WorkerEnds, WorkerIdle, server, watch, TypeOK
<1>2. /\ worked \subseteq worked' /\ dropped \subseteq dropped'
      /\ pkg[w] # Null => task[pkg[w]] \in worked' \cup dropped'
      /\ worked' \cup dropped' \subseteq Tasks
  BY <1>1 DEF WorkerTakes, WorkerEnds, WorkerIdle, TypeOK, Filled, Called
<1>3. TypeOK'
  BY <1>1, <1>2 DEF TypeOK, WorkerPCs
<1>4. Apart'
  BY <1>1 DEF TypeOK, Apart, Hand
<1>5. Filled'
  BY <1>1 DEF TypeOK, Filled, Called
<1>6. AllLocated'
  <2> SUFFICES ASSUME NEW y \in Tasks \ toGo' PROVE Located(y)'
    BY DEF AllLocated
  <2>1. Located(y)
    BY <1>1 DEF AllLocated
  <2>2. CASE y \in worked \cup dropped \/ Bagged(y) \/ Queued(y)
    BY <1>1, <1>2, <2>2 DEF Located, Bagged, Queued
  <2>3. CASE InCall(y)
    <3>1. PICK v \in Workers : Called(v) /\ task[pkg[v]] = y
      BY <2>3 DEF InCall
    <3>2. CASE v = w
      BY <1>2, <3>1, <3>2 DEF Located, Called
    <3>3. CASE v # w
      <4>1. Called(v)' /\ task'[pkg'[v]] = y
        BY <1>1, <3>1, <3>3 DEF Called, TypeOK
      <4> QED
        BY <4>1 DEF Located, InCall
    <3> QED
      BY <3>2, <3>3
  <2> QED
    BY <2>1, <2>2, <2>3 DEF Located
<1> QED
  BY <1>3, <1>4, <1>5, <1>6

(* thp_delete_pool: the queued tasks are dropped with their packages. *)
LEMMA DeleteStep ==
  ASSUME Contents, Delete
  PROVE  Contents'
<1> USE DEF Contents
<1>1. /\ queue' = <<>> /\ Range(queue') = {} /\ IsInjective(queue') /\ queue' \in Seq(Packages)
      /\ dropped' = dropped \cup {task[p] : p \in Range(queue)} /\ admin' = "deleted"
      /\ UNCHANGED <<spare, task, toGo, bag, wpc, pkg, fresh, status, threads, held, watcher,
                     count, newborn, worked>>
  BY EmptyChain DEF Delete, DeleteTaskServer, DeleteWatcher, worker, watch
<1>2. dropped' \subseteq Tasks
  BY <1>1 DEF TypeOK, Filled
<1>3. TypeOK'
  BY <1>1, <1>2 DEF TypeOK, AdminPCs
<1>4. Apart'
  BY <1>1 DEF Apart, Hand
<1>5. Filled'
  BY <1>1 DEF Filled, Called
<1>6. ASSUME NEW y \in Tasks \ toGo' PROVE Located(y)'
  <2>1. Located(y)
    BY <1>1 DEF AllLocated
  <2>2. CASE y \in worked \cup dropped \/ Bagged(y) \/ InCall(y)
    BY <1>1, <2>2 DEF Located, Bagged, InCall, Called
  <2>3. CASE Queued(y)
    BY <1>1, <2>3 DEF Located, Queued
  <2> QED
    BY <2>1, <2>2, <2>3 DEF Located
<1> QED
  BY <1>3, <1>4, <1>5, <1>6 DEF AllLocated

(* The steps that only create, resume, test or end threads: no worker takes or
   lets go of a package in one. *)
Hands == {"call", "recollect"}
OnlyControl ==
  /\ UNCHANGED <<queue, spare, task, toGo, bag, pkg, fresh, worked, dropped>>
  /\ \A w \in Workers : wpc'[w] # wpc[w] => wpc[w] \notin Hands /\ wpc'[w] \notin Hands

LEMMA ControlKeepsContents ==
  ASSUME Contents, OnlyControl, TypeOK'
  PROVE  Contents'
<1> USE DEF Contents, OnlyControl
<1>1. \A w \in Workers : Hand(w)' = Hand(w) /\ (Called(w)' <=> Called(w))
  BY DEF Hand, Called, Hands
<1>2. Apart'
  BY <1>1 DEF Apart
<1>3. Filled' /\ AllLocated'
  BY <1>1 DEF Filled, AllLocated, Located, Queued, Bagged, InCall
<1> QED
  BY <1>2, <1>3

LEMMA ControlSteps ==
  ASSUME TypeOK, Roster,
         \/ \E w \in Workers : WorkerStart(w) \/ WorkerTest(w)
         \/ Watch \/ Start \/ StopBegin \/ StopEnd
  PROVE  OnlyControl /\ TypeOK'
<1> USE DEF OnlyControl, Hands, server, worker, watch
<1>1. ASSUME NEW w \in Workers, WorkerStart(w) \/ WorkerTest(w)
      PROVE  OnlyControl /\ TypeOK'
  <2>1. /\ wpc[w] \in {"start", "test"} /\ wpc' = [wpc EXCEPT ![w] = wpc'[w]]
        /\ wpc'[w] \in {"test", "gone", "pop"}
        /\ UNCHANGED <<queue, spare, task, toGo, bag, pkg, fresh, status, threads, held, watcher,
                       count, newborn, admin, worked, dropped>>
    BY <1>1 DEF WorkerStart, WorkerTest, TypeOK
  <2>2. OnlyControl
    <3>1. ASSUME NEW v \in Workers, wpc'[v] # wpc[v] PROVE v = w
      BY <2>1, <3>1 DEF TypeOK
    <3> QED
      BY <2>1, <3>1
  <2>3. TypeOK'
    BY <2>1 DEF TypeOK, WorkerPCs
  <2> QED
    BY <2>2, <2>3
<1>2. CASE WatcherTest \/ WatcherCount
  <2>1. Len(queue) \in Nat
    BY RangeIs DEF TypeOK
  <2>2. TypeOK'
    BY <1>2, <2>1 DEF WatcherTest, WatcherCount, TypeOK, WatcherPCs
  <2>3. OnlyControl
    BY <1>2 DEF WatcherTest, WatcherCount
  <2> QED
    BY <2>2, <2>3
<1>3. CASE WatcherDecide
  <2>1. TypeOK'
    BY <1>3 DEF WatcherDecide, TypeOK, WatcherPCs, WorkerPCs
  <2>2. ASSUME NEW v \in Workers PROVE wpc'[v] # wpc[v] => wpc[v] \notin Hands /\ wpc'[v] \notin Hands
    BY <1>3 DEF WatcherDecide, TypeOK
  <2> QED
    BY <1>3, <2>1, <2>2 DEF WatcherDecide
<1>4. CASE WatcherInsert
  <2>1. newborn \in Workers /\ wpc[newborn] = "suspended"
    BY <1>4 DEF WatcherInsert, Roster, Enlisted
  <2>2. PICK s \in {"start", "gone"} : wpc' = [wpc EXCEPT ![newborn] = s]
    BY <1>4 DEF WatcherInsert
  <2>3. TypeOK'
    BY <1>4, <2>1, <2>2 DEF WatcherInsert, TypeOK, WatcherPCs, WorkerPCs
  <2>4. ASSUME NEW v \in Workers PROVE wpc'[v] # wpc[v] => wpc[v] \notin Hands /\ wpc'[v] \notin Hands
    BY <2>1, <2>2 DEF TypeOK
  <2> QED
    BY <1>4, <2>3, <2>4 DEF WatcherInsert
<1>5. CASE Start
  BY <1>5 DEF Start, TypeOK, WatcherPCs, WorkerPCs, AdminPCs, Roster, Started
<1>6. CASE StopBegin \/ StopEnd
  <2>1. TypeOK'
    BY <1>6 DEF StopBegin, StopEnd, TypeOK, AdminPCs
  <2> QED
    BY <1>6, <2>1 DEF StopBegin, StopEnd
<1> QED
  BY <1>1, <1>2, <1>3, <1>4, <1>5, <1>6 DEF Watch

LEMMA ContentsStep ==
  ASSUME Contents, Roster, [Next]_vars
  PROVE  Contents'
<1>1. ASSUME NEW d \in Deliverers, NEW x \in Tasks, Prepare(d, x) PROVE Contents'
  BY <1>1, PrepareStep
<1>2. ASSUME NEW d \in Deliverers, Push(d) PROVE Contents'
  BY <1>2, PushStep
<1>3. ASSUME NEW w \in Workers, WorkerPop(w) PROVE Contents'
  BY <1>3, PopStep
<1>4. ASSUME NEW w \in Workers, WorkerTakes(w) \/ WorkerEnds(w) \/ WorkerIdle(w) PROVE Contents'
  BY <1>4, AnswerStep
<1>5. ASSUME NEW w \in Workers, WorkerRefuses(w) PROVE Contents'
  BY <1>5, RefusesStep
<1>6. ASSUME NEW w \in Workers, WorkerRecollect(w) PROVE Contents'
  BY <1>6, RecollectStep
<1>7. CASE Delete
  BY <1>7, DeleteStep
<1>8. CASE \/ \E w \in Workers : WorkerStart(w) \/ WorkerTest(w)
           \/ Watch \/ Start \/ StopBegin \/ StopEnd
  <2>1. OnlyControl /\ TypeOK'
    BY <1>8, ControlSteps DEF Contents
  <2> QED
    BY <2>1, ControlKeepsContents
<1>9. CASE UNCHANGED vars
  BY <1>9 DEF vars, server, worker, watch, Contents, TypeOK, Apart, Filled, AllLocated, Located,
     Queued, Bagged, InCall, Called, Hand
<1> QED
  BY <1>1, <1>2, <1>3, <1>4, <1>5, <1>6, <1>7, <1>8, <1>9 DEF Next, Work
----------------------------------------------------------------------------
(* Threads. *)

LEMMA RosterInit == Init => Roster
BY DEF Init, Roster, Enlisted, Started, Ended

(* Only a listed worker takes a step, and one that has ended takes none. *)
LEMMA WorkKeepsRoster ==
  ASSUME TypeOK, Roster, NEW w \in Workers, Work(w)
  PROVE  Roster'
<1>1. wpc[w] \in {"start", "test", "pop", "call", "recollect"}
  BY DEF Work, WorkerStart, WorkerTest, WorkerPop, WorkerTakes, WorkerRefuses, WorkerEnds,
     WorkerIdle, WorkerRecollect
<1>2. w \in threads /\ admin \notin {"new", "stopped", "deleted"}
      /\ (watcher = "insert" => newborn # w)
  BY <1>1 DEF Roster, Enlisted, Started, Ended
<1>3. /\ wpc' = [wpc EXCEPT ![w] = wpc'[w]]
      /\ UNCHANGED <<threads, watcher, newborn, admin>>
  BY DEF Work, WorkerStart, WorkerTest, WorkerPop, WorkerTakes, WorkerRefuses, WorkerEnds,
     WorkerIdle, WorkerRecollect, watch, TypeOK
<1> QED
  BY <1>2, <1>3 DEF Roster, Enlisted, Started, Ended, TypeOK

LEMMA WatchKeepsRoster ==
  ASSUME TypeOK, Roster, Watch
  PROVE  Roster'
<1>1. watcher \in {"test", "count", "decide", "insert"} /\ UNCHANGED admin
  BY DEF Watch, WatcherTest, WatcherCount, WatcherDecide, WatcherInsert
<1>2. admin \notin {"new", "stopped", "deleted"}
  BY <1>1 DEF Roster, Started, Ended
<1>3. CASE WatcherTest \/ WatcherCount
  BY <1>1, <1>2, <1>3 DEF WatcherTest, WatcherCount, worker, Roster, Enlisted, Started, Ended
<1>4. CASE WatcherDecide
  BY <1>1, <1>2, <1>4 DEF WatcherDecide, Roster, Enlisted, Started, Ended, TypeOK
<1>5. CASE WatcherInsert
  BY <1>1, <1>2, <1>5 DEF WatcherInsert, Roster, Enlisted, Started, Ended, TypeOK
<1> QED
  BY <1>3, <1>4, <1>5 DEF Watch

LEMMA RosterStep ==
  ASSUME TypeOK, Roster, [Next]_vars
  PROVE  Roster'
<1> USE DEF Roster, Enlisted, Started, Ended, worker, watch
<1>1. ASSUME NEW d \in Deliverers, NEW x \in Tasks, Prepare(d, x) \/ Push(d) PROVE Roster'
  BY <1>1 DEF Prepare, Push
<1>2. CASE Start
  BY <1>2 DEF Start, TypeOK
<1>3. CASE StopBegin
  BY <1>3 DEF StopBegin
<1>4. CASE StopEnd
  BY <1>4 DEF StopEnd
<1>5. CASE Delete
  BY <1>5 DEF Delete, DeleteTaskServer, DeleteWatcher
<1>6. CASE UNCHANGED vars
  BY <1>6 DEF vars
<1>7. ASSUME NEW d \in Deliverers, Push(d) PROVE Roster'
  BY <1>7 DEF Push
<1> QED
  BY <1>1, <1>2, <1>3, <1>4, <1>5, <1>6, <1>7, WorkKeepsRoster, WatchKeepsRoster DEF Next
----------------------------------------------------------------------------
(* Where packages, tasks and threads are: every step of thp_deliver_task,
   worker_thread, watcher_thread and of the start, stop and deletion keeps it,
   without any fairness. *)
THEOREM PoolInvariant == Spec => []IInv
<1>1. Init => IInv
  BY ContentsInit, RosterInit DEF Contents, IInv
<1>2. IInv /\ [Next]_vars => IInv'
  BY ContentsStep, RosterStep DEF Contents, IInv
<1> QED
  BY <1>1, <1>2, PTL DEF Spec

(* thp_deliver_task, thp_pop_task, thp_push_task and
   thp_recollect_task_package pass a package on and never share it: it is in
   one chain once, or with one thread, although worker_thread's local may still
   point at a package it gave back. *)
THEOREM PackagesInOnePlace == Spec => []PackageInOnePlace
<1>1. IInv => PackageInOnePlace
  <2> SUFFICES ASSUME IInv PROVE PackageInOnePlace
    OBVIOUS
  <2>1. IsInjective(queue \o spare) /\ Range(queue \o spare) = Range(queue) \cup Range(spare)
    BY ChainsApart DEF IInv, TypeOK, Apart
  <2> QED
    BY <2>1 DEF IInv, Apart, PackageInOnePlace
<1> QED
  BY <1>1, PoolInvariant, PTL

(* A task thp_deliver_task accepted is queued, in a thread's hands, taken by a
   real worker, or was dropped by a worker that ended or by thp_delete_pool;
   the requeue of a refused task in worker_thread does not lose it. *)
THEOREM TasksAreAccounted == Spec => []TasksAccounted
<1>1. IInv => TasksAccounted
  BY DEF IInv, AllLocated, Located, Queued, Bagged, InCall, Called, TasksAccounted
<1> QED
  BY <1>1, PoolInvariant, PTL

(* worker_thread finds itself in the watcher's list whenever
   thp_find_my_thread_info looks, and thp_delete_pool leaves no thread that
   could touch the pool. *)
THEOREM ThreadsStayInOrder == Spec => []ThreadsInOrder
<1>1. IInv => ThreadsInOrder
  BY DEF IInv, Roster, Enlisted, Ended, ThreadsInOrder, WorkerFindsItself, NobodyWorksWhenDeleted
<1> QED
  BY <1>1, PoolInvariant, PTL
=============================================================================
