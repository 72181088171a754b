--------------------------- MODULE EnetClientProofs ---------------------------
(***************************************************************************)
(* The handles of easenet and the clients behind them, for any number of   *)
(* threads, handles, objects and calls.                                    *)
(*                                                                         *)
(*   Roles    what a thread does, by the place it is at;                   *)
(*   Locks    the lock of a handle agrees with who is behind it;           *)
(*   Idlers   a handle in the reuse table, or in the hands of the one      *)
(*            thread that makes or recycles it, is nobody else's;          *)
(*   Bodies   an object belongs to one handle, a receiver to one object.   *)
(*                                                                         *)
(* Nothing is said of the list: what it holds is what enet_handle.c gets   *)
(* wrong, and the invariant does not need it.                              *)
(***************************************************************************)
EXTENDS EnetClient, SequenceTheorems, FiniteSetTheorems, WellFoundedInduction, TLAPS

Pcs == {"none", "idle", "new", "pop", "append", "link", "publish", "find", "lock", "in", "unref",
        "undel", "del", "recycle", "done", "select", "cwait", "dwait", "sending", "recv", "wait",
        "use", "loop", "fault", "ended", "dead"}
Fns == {"none", "tcp", "udp", "connect", "reconnect", "disconnect", "tdelete", "send", "udelete",
        "usend", "attr", "uattr", "handle"}

(* The local variables of a thread. *)
Local == [pc : Pcs, fn : Fns, h : Handles \cup {Null}, o : Objs \cup {Null}, want : {"r", "w"},
          live : BOOLEAN, tail : Handles \cup {Null}, ok : BOOLEAN, fd : Socks \cup {Null}, left : Int]

Client == [kind : {"none", "tcp", "udp"}, fd : Socks \cup {Null}, thread : Recv \cup {Null},
           freed : BOOLEAN]
HandleState == [next : Handles \cup {Null}, prev : Handles \cup {Null}, refcnt : Nat,
                alive : BOOLEAN, obj : Objs \cup {Null}]
LockState == [w : Threads \cup {Null}, r : [Threads -> Nat]]

Shape ==
  /\ TypeOK /\ th \in [Threads -> Local]
  /\ lk \in [Handles -> LockState]
  /\ ob \in [Objs -> Client]

WithHandle == {"append", "link", "publish", "find", "lock", "in", "unref", "undel", "del", "recycle",
               "done", "select", "cwait", "dwait", "sending", "recv", "wait", "use"}
Asking == {"find", "lock", "in", "select", "cwait", "dwait"}

Role(p) ==
  /\ th[p].pc \in WithHandle => th[p].h \in used
  /\ th[p].pc \in Asking => (th[p].want = "w" <=> th[p].fn \in {"disconnect", "udelete"})
  /\ th[p].pc \in {"select", "cwait"} => th[p].fn \in {"connect", "reconnect"}
  /\ th[p].pc = "dwait" => th[p].fn = "disconnect"
  /\ th[p].fn = "udp" => th[p].pc \in {"new", "pop", "append", "link", "publish", "done", "loop", "fault"}
  /\ p \in Recv =>
       /\ th[p].fn \in {"none", "attr", "uattr"}
       /\ th[p].pc \in {"none", "find", "lock", "in", "unref", "undel", "recycle", "done", "recv",
                        "wait", "loop", "fault", "ended", "dead"}
Roles == \A p \in Threads : Role(p)

(* Whoever is behind a lock has it; whoever has it to write is behind it, or
   takes the handle apart; readers and a writer exclude each other; and a
   receiver has no read lock but the one it is behind or was killed behind. *)
HasLock(p, h) == IF th[p].want = "w" THEN lk[h].w = p ELSE lk[h].r[p] > 0
Writes(p, h) ==
  /\ th[p].h = h
  /\ \/ th[p].pc \in {"in", "dwait"} /\ th[p].want = "w"
     \/ th[p].pc \in {"recycle", "loop", "fault", "dead"}
Reads(r, h) ==
  /\ lk[h].r[r] = 1 /\ th[r].h = h
  /\ th[r].pc \in {"in", "fault"} \/ (th[r].pc = "dead" /\ th[r].fn = "attr")

Locks ==
  \A h \in Handles :
    /\ \A p \in Threads : Within(p, h) => HasLock(p, h)
    /\ \A p \in Threads : lk[h].w = p => Writes(p, h)
    /\ lk[h].w # Null => \A p \in Threads : lk[h].r[p] = 0
    /\ \A r \in Recv : lk[h].r[r] # 0 => Reads(r, h)

(* A handle is made, or taken apart, by one thread. *)
Making(p) == th[p].pc \in {"append", "link", "publish", "recycle"}
Unused(h) == ~ hs[h].alive /\ \A p \in Threads : ~ Within(p, h)

Idlers ==
  /\ \A h \in Handles \ used : ~ hs[h].alive
  /\ \A p \in Threads : Making(p) =>
       /\ Unused(th[p].h)
       /\ \A i \in DOMAIN reuse : reuse[i] # th[p].h
       /\ \A q \in Threads : Making(q) /\ th[q].h = th[p].h => q = p
  /\ \A i \in DOMAIN reuse : Unused(reuse[i])
  /\ \A i, j \in DOMAIN reuse : reuse[i] = reuse[j] => i = j

(* A new object is its maker's; a handle has its object to itself; the receiver
   of an object was started for it. *)
Bearing(p) == th[p].pc \in {"new", "pop", "append", "link", "publish"}

Born(p) ==
  LET o == th[p].o
  IN /\ th[p].fn \in {"tcp", "udp"} /\ o # Null
     /\ ~ ob[o].freed /\ ob[o].thread = Null
     /\ \A h \in Handles : hs[h].obj # o
     /\ \A q \in Threads \ {p} : th[q].o # o

Bound(p) ==
  LET o == th[p].o
  IN /\ o # Null => ob[o].kind # "none"
     /\ th[p].fn = "udp" => o # Null /\ ob[o].kind = "udp"
     /\ th[p].pc \in {"select", "cwait", "dwait"} => o # Null /\ ob[o].kind = "tcp"
     /\ th[p].fn = "udp" /\ th[p].pc = "done" => \A h \in Handles : hs[h].obj = o => h = th[p].h
     /\ th[p].pc = "dwait" => hs[th[p].h].obj = o /\ ob[o].fd = Null /\ ~ ob[o].freed

Received(o) ==
  LET r == ob[o].thread
  IN /\ ob[o].kind = "none" => r = Null /\ ~ ob[o].freed
     /\ r # Null => th[r].pc # "none"
     /\ r # Null /\ ob[o].kind = "tcp" =>
          \/ th[r].fn = "attr" /\ th[r].pc # "wait"
          \/ th[r].fn = "none" /\ th[r].pc \in {"recv", "ended", "dead"}
     /\ r # Null /\ ob[o].kind = "udp" => \A h \in Handles : hs[h].obj = o => th[r].h = h

Bodies ==
  /\ \A h \in Handles : LET o == hs[h].obj IN o # Null =>
       /\ ob[o].kind # "none" /\ (ob[o].kind = "tcp" => ~ ob[o].freed)
       /\ \A g \in Handles : hs[g].obj = o => g = h
  /\ \A p \in Threads : (Bearing(p) => Born(p)) /\ Bound(p)
  /\ \A o \in Objs : Received(o)

IInv == Shape /\ Roles /\ Locks /\ Idlers /\ Bodies
----------------------------------------------------------------------------
(* The local variables of a thread. *)

(* Only thread p has moved, and this is where it is. *)
Becomes(p, pc, fn, h, o, want) ==
  /\ th' \in [Threads -> Local] /\ \A q \in Threads \ {p} : th'[q] = th[q]
  /\ th'[p].pc = pc /\ th'[p].fn = fn /\ th'[p].h = h /\ th'[p].o = o /\ th'[p].want = want

LEMMA Entry ==
  ASSUME th \in [Threads -> Local], NEW p \in Threads, NEW x, x \in Local, th' = [th EXCEPT ![p] = x]
  PROVE  Becomes(p, x.pc, x.fn, x.h, x.o, x.want)
BY DEF Becomes

LEMMA GoIs ==
  ASSUME th \in [Threads -> Local], NEW p \in Threads, NEW pc \in Pcs, Go(p, pc) \/ Refuse(p, pc)
  PROVE  Becomes(p, pc, th[p].fn, th[p].h, th[p].o, th[p].want)
BY DEF Local, Becomes, Go, Refuse

LEMMA CallLockIs ==
  ASSUME th \in [Threads -> Local], NEW p \in Threads, NEW h \in Handles, NEW want \in {"r", "w"}, NEW fn \in Fns,
         CallLock(p, h, want, fn)
  PROVE  Becomes(p, "find", fn, h, th[p].o, want)
<1> DEFINE x == [th[p] EXCEPT !.pc = "find", !.h = h, !.want = want, !.fn = fn, !.ok = TRUE]
<1>1. th' = [th EXCEPT ![p] = x]
  BY DEF CallLock
<1>2. x \in Local
  <2>1. th[p] \in Local /\ "find" \in Pcs
    BY DEF Pcs
  <2> QED
    BY <2>1 DEF Local
<1>3. x.pc = "find" /\ x.fn = fn /\ x.h = h /\ x.want = want /\ x.o = th[p].o
  BY DEF Local
<1> HIDE DEF x
<1>4. Becomes(p, x.pc, x.fn, x.h, x.o, x.want)
  BY <1>1, <1>2, Entry
<1> QED
  BY <1>3, <1>4

LEMMA IdleIs ==
  ASSUME th \in [Threads -> Local], NEW p \in Threads, Idle(p)
  PROVE  Becomes(p, "idle", "none", Null, Null, "r")
<1>1. Start \in Local
  BY DEF Local, Start, Pcs, Fns
<1>2. Becomes(p, Start.pc, Start.fn, Start.h, Start.o, Start.want)
  BY <1>1, Entry DEF Idle
<1> QED
  BY <1>2 DEF Start
----------------------------------------------------------------------------
(* What a step has to keep. *)

(* Behind a lock, or taking the handle apart. *)
Behind == {"in", "select", "cwait", "dwait"}
Apart  == {"recycle", "loop", "fault", "dead"}

(* Whoever moves is behind no lock, before and after. *)
LEMMA LocksStay ==
  ASSUME Locks, UNCHANGED lk,
         \A q \in Threads : \/ th'[q] = th[q]
                            \/ th[q].pc \notin Behind \cup Apart /\ th'[q].pc \notin Behind
  PROVE  Locks'
<1>1. ASSUME NEW q \in Threads, th'[q] # th[q], NEW h \in Handles
      PROVE  /\ ~ Within(q, h)' /\ lk[h].w # q /\ (q \in Recv => lk[h].r[q] = 0)
    BY <1>1 DEF Locks, Within, Writes, Reads, Behind, Apart
<1>2. ASSUME NEW h \in Handles, NEW q \in Threads
      PROVE  /\ Within(q, h)' => HasLock(q, h)'
             /\ lk'[h].w = q => Writes(q, h)'
             /\ q \in Recv /\ lk'[h].r[q] # 0 => Reads(q, h)'
  <2>1. CASE th'[q] = th[q]
    BY <2>1 DEF Locks, Within, HasLock, Writes, Reads
  <2>2. CASE th'[q] # th[q]
    BY <1>1, <2>2
  <2> QED
    BY <2>1, <2>2
<1>3. \A h \in Handles : lk'[h].w # Null => \A q \in Threads : lk'[h].r[q] = 0
  BY DEF Locks
<1> QED
  BY <1>2, <1>3, ClientAssumption DEF Locks

(* No handle comes to be used or made, and nobody comes behind its lock. *)
LEMMA IdlersStay ==
  ASSUME Idlers, UNCHANGED <<used, reuse>>,
         \A h \in Handles : hs'[h].alive => hs[h].alive,
         \A q \in Threads : Making(q)' => Making(q) /\ th'[q].h = th[q].h,
         \A q \in Threads : \A h \in Handles : Within(q, h)' => Within(q, h),
         \A q \in Threads : Making(q) => th[q].h \in Handles,
         reuse \in Seq(Handles)
  PROVE  Idlers'
<1>1. \A h \in Handles : Unused(h) => Unused(h)'
  BY DEF Unused
<1>2. \A i \in DOMAIN reuse : reuse[i] \in Handles
  BY LenProperties
<1>3. ASSUME NEW i \in DOMAIN reuse PROVE Unused(reuse[i])'
  <2>1. PICK h \in Handles : h = reuse[i]
    BY <1>2, <1>3
  <2>2. Unused(h)'
    BY <1>1, <1>3, <2>1 DEF Idlers
  <2> QED
    BY <2>1, <2>2 DEF Unused, Within
<1>4. ASSUME NEW p \in Threads, Making(p)' PROVE Unused(th[p].h)'
  <2>1. PICK h \in Handles : h = th'[p].h /\ h = th[p].h
    BY <1>4
  <2>2. Unused(h)'
    BY <1>1, <1>4, <2>1 DEF Idlers
  <2> QED
    BY <2>1, <2>2 DEF Unused, Within
<1>5. ASSUME NEW p \in Threads, Making(p)'
      PROVE  /\ \A i \in DOMAIN reuse' : reuse'[i] # th'[p].h
             /\ \A q \in Threads : Making(q)' /\ th'[q].h = th'[p].h => q = p
  BY <1>5 DEF Idlers
<1>6. \A h \in Handles \ used' : ~ hs'[h].alive
  BY DEF Idlers
<1>7. \A i, j \in DOMAIN reuse' : reuse'[i] = reuse'[j] => i = j
  BY DEF Idlers
<1> QED
  BY <1>3, <1>4, <1>5, <1>6, <1>7 DEF Idlers

(* No object is born and none comes to a handle. *)
LEMMA BodiesStay ==
  ASSUME Shape, Shape', Bodies,
         \A h \in Handles : hs'[h].obj \in {hs[h].obj, Null},
         \A o \in Objs : /\ ob'[o].kind = ob[o].kind
                         /\ ob'[o].freed /\ ob[o].kind = "tcp" =>
                              ob[o].freed \/ \A h \in Handles : hs'[h].obj # o,
         \A q \in Threads : Bearing(q)' =>
            /\ Bearing(q) /\ th'[q].fn = th[q].fn /\ th'[q].o = th[q].o
            /\ ob'[th[q].o].freed = ob[th[q].o].freed /\ ob'[th[q].o].thread = ob[th[q].o].thread,
         \A q \in Threads : \/ th'[q].o \in {Null, th[q].o}
                            \/ \E h \in Handles : th'[q].o = hs[h].obj,
         \A q \in Threads : Bound(q)',
         \A o \in Objs : Received(o)'
  PROVE  Bodies'
<1>1. /\ \A h \in Handles : hs[h].obj \in Objs \cup {Null}
      /\ \A q \in Threads : th[q].o \in Objs \cup {Null}
      /\ Null \notin Objs
  BY HandleAssumption DEF Shape, TypeOK, Local
<1>2. ASSUME NEW h \in Handles, hs'[h].obj # Null
      PROVE  /\ ob'[hs'[h].obj].kind # "none"
             /\ ob'[hs'[h].obj].kind = "tcp" => ~ ob'[hs'[h].obj].freed
             /\ \A g \in Handles : hs'[g].obj = hs'[h].obj => g = h
  <2>1. PICK o \in Objs : o = hs[h].obj /\ o = hs'[h].obj
    BY <1>1, <1>2
  <2>2. /\ ob[o].kind # "none" /\ (ob[o].kind = "tcp" => ~ ob[o].freed)
        /\ \A g \in Handles : hs[g].obj = o => g = h
    BY <1>1, <2>1 DEF Bodies
  <2>3. \A g \in Handles : hs'[g].obj = o => g = h
    BY <1>1, <2>2
  <2>4. ob'[o].kind = "tcp" => ~ ob'[o].freed
    BY <2>1, <2>2
  <2> QED
    BY <2>1, <2>2, <2>3, <2>4
<1>3. ASSUME NEW p \in Threads, Bearing(p)' PROVE Born(p)'
  <2>1. PICK o : o = th[p].o /\ o = th'[p].o
    BY <1>3
  <2>2. /\ th[p].fn \in {"tcp", "udp"} /\ o # Null /\ ~ ob[o].freed /\ ob[o].thread = Null
        /\ \A h \in Handles : hs[h].obj # o
        /\ \A q \in Threads \ {p} : th[q].o # o
    BY <1>3, <2>1 DEF Bodies, Born
  <2>3. \A q \in Threads \ {p} : th'[q].o # o
    BY <2>2
  <2>4. \A h \in Handles : hs'[h].obj # o
    BY <2>2
  <2>5. ~ ob'[o].freed /\ ob'[o].thread = Null /\ th'[p].fn \in {"tcp", "udp"}
    BY <1>3, <2>1, <2>2
  <2> QED
    BY <2>1, <2>2, <2>3, <2>4, <2>5 DEF Born
<1> QED
  BY <1>2, <1>3 DEF Bodies

(* The object of thread q, where the thread says nothing more of it. *)
Tcp(r) == \/ th[r].fn = "attr" /\ th[r].pc # "wait"
          \/ th[r].fn = "none" /\ th[r].pc \in {"recv", "ended", "dead"}

(* Only p moves, behind no lock or the lock is told of, and no handle or object
   comes to anybody. *)
LEMMA QuietStep ==
  ASSUME IInv, Shape', NEW p \in Threads, UNCHANGED <<lk, used, reuse, ob>>,
         \A h \in Handles : hs'[h].obj = hs[h].obj /\ (hs'[h].alive => hs[h].alive),
         \A q \in Threads \ {p} : th'[q] = th[q],
         th[p].pc \notin Behind \cup Apart \/ Locks', th'[p].pc \notin Behind \cup {"none"},
         Role(p)',
         Making(p)' => Making(p) /\ th'[p].h = th[p].h,
         Bearing(p)' => Bearing(p) /\ th'[p].fn = th[p].fn,
         th'[p].o = th[p].o \/ (th'[p].o = Null /\ th'[p].fn = "none"),
         th'[p].fn = "udp" => th[p].fn = "udp" /\ th'[p].pc # "done",
         p \in Recv => th'[p].h = th[p].h /\ (Tcp(p) => Tcp(p)')
  PROVE  IInv'
<1>1. Shape /\ Roles /\ Locks /\ Idlers /\ Bodies
  BY DEF IInv
<1>2. Roles'
  BY <1>1 DEF Roles, Role
<1>3. Locks'
  BY <1>1, LocksStay
<1>4. Idlers'
  <2>1. reuse \in Seq(Handles) /\ \A q \in Threads : Making(q) => th[q].h \in Handles
    <3>1. used \subseteq Handles /\ reuse \in Seq(used)
      BY <1>1 DEF Shape, TypeOK
    <3>2. reuse \in Seq(Handles)
      BY <3>1, LenProperties
    <3> QED
      BY <1>1, <3>1, <3>2 DEF Roles, Role, Making, WithHandle
  <2>2. \A q \in Threads : Making(q)' => Making(q) /\ th'[q].h = th[q].h
    BY DEF Making
  <2>3. \A q \in Threads : \A h \in Handles : Within(q, h)' => Within(q, h)
    BY DEF Within, Behind
  <2> QED
    BY <1>1, <2>1, <2>2, <2>3, IdlersStay
<1>5. Bodies'
  <2>1. \A q \in Threads : Bearing(q)' => Bearing(q) /\ th'[q].fn = th[q].fn /\ th'[q].o = th[q].o
    <3>1. Bearing(p)' => th[p].fn # "none"
      BY <1>1 DEF Bodies, Born
    <3> QED
      BY <3>1 DEF Bearing
  <2>2. ASSUME NEW q \in Threads PROVE Bound(q)'
    <3>1. CASE q # p
      <4>1. th[q].pc = "dwait" => th[q].h \in Handles
        BY <1>1 DEF Roles, Role, WithHandle, Shape, TypeOK
      <4> QED
        BY <1>1, <3>1, <4>1 DEF Bodies, Bound
    <3>2. CASE q = p
      BY <1>1, <3>2 DEF Bodies, Bound, Behind
    <3> QED
      BY <3>1, <3>2
  <2>3. ASSUME NEW o \in Objs PROVE Received(o)'
    <3> DEFINE r == ob[o].thread
    <3>1. Received(o) /\ (r = Null \/ r \in Recv)
      BY <1>1 DEF Bodies, Shape, Client
    <3>2. r = p => th'[r].h = th[r].h /\ (Tcp(p) => Tcp(p)')
      BY <3>1, HandleAssumption
    <3>3. r # Null /\ r # p => th'[r] = th[r]
      BY <3>1, ClientAssumption
    <3> QED
      BY <3>1, <3>2, <3>3 DEF Received, Tcp
  <2>4. /\ \A h \in Handles : hs'[h].obj \in {hs[h].obj, Null}
        /\ \A o \in Objs : ob'[o].kind = ob[o].kind /\ (ob'[o].freed => ob[o].freed)
        /\ \A q \in Threads : \/ th'[q].o \in {Null, th[q].o}
                              \/ \E h \in Handles : th'[q].o = hs[h].obj
    OBVIOUS
  <2> QED
    BY <1>1, <2>1, <2>2, <2>3, <2>4, BodiesStay
<1> QED
  BY <1>2, <1>3, <1>4, <1>5 DEF IInv

LEMMA ShapeStays ==
  ASSUME Shape, th' \in [Threads -> Local], UNCHANGED <<lk, ob, used, head, reuse, open>>,
         hs' \in [Handles -> HandleState], db' \in Threads \cup {Null},
         events' \subseteq used, calls' \in 0..MaxCalls
  PROVE  Shape'
BY DEF Shape, TypeOK, HandleState

LEMMA TypesAre ==
  ASSUME IInv
  PROVE  /\ th \in [Threads -> Local] /\ lk \in [Handles -> LockState] /\ ob \in [Objs -> Client]
         /\ hs \in [Handles -> HandleState] /\ db \in Threads \cup {Null}
         /\ used \subseteq Handles /\ head \in used \cup {Null} /\ reuse \in Seq(used)
         /\ open \subseteq Socks /\ events \subseteq used /\ calls \in 0..MaxCalls
         /\ \A p \in Threads : Role(p) /\ (th[p].pc \in WithHandle => th[p].h \in Handles)
BY DEF IInv, Shape, TypeOK, HandleState, Roles, Role
----------------------------------------------------------------------------
(* Steps on a handle that nobody else notices. *)

(* A count, a place in the list, the table's lock: the thread goes on. *)
LEMMA GoesOn ==
  ASSUME IInv, NEW p \in Threads, NEW pc \in Pcs \ (Behind \cup {"none"}),
         Becomes(p, pc, th[p].fn, th[p].h, th[p].o, th[p].want),
         UNCHANGED <<lk, ob, used, reuse, open, events, calls>>,
         head' \in used \cup {Null}, db' \in Threads \cup {Null},
         hs' \in [Handles -> HandleState],
         \A h \in Handles : hs'[h].obj = hs[h].obj /\ (hs'[h].alive => hs[h].alive),
         th[p].pc \notin Behind \cup Apart,
         Role(p)',
         pc \in {"append", "link", "publish", "recycle"} =>
            th[p].pc \in {"append", "link", "publish", "recycle"},
         pc \in {"new", "pop", "append", "link", "publish"} =>
            th[p].pc \in {"new", "pop", "append", "link", "publish"},
         th[p].fn = "udp" => pc # "done",
         p \in Recv => (th[p].fn = "attr" /\ pc # "wait") \/ ~ Tcp(p)
  PROVE  IInv'
<1>1. Shape'
  BY DEF IInv, Shape, TypeOK, HandleState, Becomes
<1>2. /\ Making(p)' => Making(p) /\ th'[p].h = th[p].h
      /\ Bearing(p)' => Bearing(p) /\ th'[p].fn = th[p].fn
      /\ p \in Recv => th'[p].h = th[p].h /\ (Tcp(p) => Tcp(p)')
  BY DEF Becomes, Making, Bearing, Tcp
<1>3. /\ \A q \in Threads \ {p} : th'[q] = th[q]
      /\ th'[p].pc \notin Behind \cup {"none"} /\ th'[p].o = th[p].o
      /\ th'[p].fn = "udp" => th[p].fn = "udp" /\ th'[p].pc # "done"
  BY DEF Becomes
<1> QED
  BY <1>1, <1>2, <1>3, QuietStep

LEMMA FindKeeps ==
  ASSUME IInv, NEW p \in Threads, Find(p), UNCHANGED cvars
  PROVE  IInv'
<1>1. th[p].pc = "find" /\ UNCHANGED <<used, head, reuse, lk, ob, open, events, calls>>
  BY DEF Find, At, cvars
<1>2. PICK h \in Handles : h = th[p].h
  BY <1>1, TypesAre DEF WithHandle
<1>3. /\ hs' \in [Handles -> HandleState] /\ db' \in Threads \cup {Null}
      /\ \A g \in Handles : hs'[g].obj = hs[g].obj /\ hs'[g].alive = hs[g].alive
  <2>1. hs' = hs \/ hs' = [hs EXCEPT ![h].refcnt = @ + 1]
    BY <1>2 DEF Find
  <2>2. hs \in [Handles -> HandleState] /\ hs[h].refcnt \in Nat
    BY <1>2, TypesAre DEF HandleState
  <2>3. db' \in Threads \cup {Null}
    BY TypesAre DEF Find
  <2> QED
    BY <2>1, <2>2, <2>3 DEF HandleState
<1>4. PICK pc \in {"lock", "done", "loop"} : Go(p, pc) \/ Refuse(p, pc)
  BY DEF Find
<1>5. Becomes(p, pc, th[p].fn, th[p].h, th[p].o, th[p].want)
  <2>1. th \in [Threads -> Local] /\ pc \in Pcs
    BY <1>4, TypesAre DEF Pcs
  <2> QED
    BY <1>4, <2>1, GoIs
<1>6. Role(p) /\ Role(p)'
  BY <1>1, <1>5, TypesAre DEF Role, Becomes, WithHandle, Asking
<1>7. /\ p \in Recv => th[p].fn = "attr" \/ ~ Tcp(p)
      /\ th[p].fn # "udp"
  BY <1>1, <1>6 DEF Role, Tcp
<1> QED
  BY <1>1, <1>3, <1>5, <1>6, <1>7, TypesAre, GoesOn DEF Pcs, Behind, Apart

LEMMA LockDeadKeeps ==
  ASSUME IInv, NEW p \in Threads, LockDead(p), UNCHANGED cvars
  PROVE  IInv'
<1>1. th[p].pc = "lock" /\ UNCHANGED <<hs, used, head, reuse, lk, db, ob, open, events, calls>>
  BY DEF LockDead, At, cvars
<1>2. PICK h \in Handles : h = th[p].h
  BY <1>1, TypesAre DEF WithHandle
<1>3. Becomes(p, "unref", th[p].fn, th[p].h, th[p].o, th[p].want)
  <2>1. hs[th[p].h].alive \in BOOLEAN
    BY <1>2, TypesAre DEF HandleState
  <2>2. th \in [Threads -> Local] /\ th[p] \in Local /\ "unref" \in Pcs
    BY TypesAre DEF Pcs
  <2> DEFINE x == [th[p] EXCEPT !.pc = "unref", !.live = hs[th[p].h].alive, !.ok = FALSE]
  <2>3. th' = [th EXCEPT ![p] = x]
    BY <2>2 DEF LockDead
  <2>4. x \in Local
    BY <2>1, <2>2 DEF Local
  <2>5. x.pc = "unref" /\ x.fn = th[p].fn /\ x.h = th[p].h /\ x.o = th[p].o /\ x.want = th[p].want
    BY <2>2 DEF Local
  <2> HIDE DEF x
  <2>6. Becomes(p, x.pc, x.fn, x.h, x.o, x.want)
    BY <2>2, <2>3, <2>4, Entry
  <2> QED
    BY <2>5, <2>6
<1>4. Role(p) /\ Role(p)'
  BY <1>1, <1>3, TypesAre DEF Role, Becomes, WithHandle, Asking
<1>5. th[p].fn # "udp" /\ (p \in Recv => th[p].fn = "attr" \/ ~ Tcp(p))
  BY <1>1, <1>4 DEF Role, Tcp
<1> QED
  BY <1>1, <1>3, <1>4, <1>5, TypesAre, GoesOn DEF Pcs, Behind, Apart

LEMMA UnrefKeeps ==
  ASSUME IInv, NEW p \in Threads, Unref(p), UNCHANGED cvars
  PROVE  IInv'
<1>1. th[p].pc = "unref" /\ UNCHANGED <<used, head, reuse, lk, ob, open, events, calls>>
  BY DEF Unref, At, cvars
<1>2. PICK h \in Handles : h = th[p].h
  BY <1>1, TypesAre DEF WithHandle
<1>3. PICK left \in Nat : hs' = [hs EXCEPT ![h].refcnt = left]
  <2> DEFINE l == IF hs[h].refcnt > 0 THEN hs[h].refcnt - 1 ELSE hs[h].refcnt
  <2>1. hs[h].refcnt \in Nat
    BY <1>2, TypesAre DEF HandleState
  <2>2. l \in Nat
    BY <2>1
  <2>3. hs' = [hs EXCEPT ![h].refcnt = l]
    BY <1>2 DEF Unref
  <2> QED
    BY <2>2, <2>3
<1>4. /\ hs' \in [Handles -> HandleState] /\ db' \in Threads \cup {Null}
      /\ \A g \in Handles : hs'[g].obj = hs[g].obj /\ hs'[g].alive = hs[g].alive
  <2>1. db' \in Threads \cup {Null}
    BY TypesAre DEF Unref
  <2>2. hs \in [Handles -> HandleState]
    BY TypesAre
  <2> QED
    BY <1>2, <1>3, <2>1, <2>2 DEF HandleState
<1>5. PICK pc \in {"undel", "done"} : Go(p, pc)
  BY DEF Unref
<1>6. Becomes(p, pc, th[p].fn, th[p].h, th[p].o, th[p].want)
  <2>1. th \in [Threads -> Local] /\ pc \in Pcs
    BY <1>5, TypesAre DEF Pcs
  <2> QED
    BY <1>5, <2>1, GoIs
<1>7. Role(p) /\ Role(p)'
  BY <1>1, <1>6, TypesAre DEF Role, Becomes, WithHandle, Asking
<1>8. th[p].fn # "udp" /\ (p \in Recv => th[p].fn = "attr" \/ ~ Tcp(p))
  BY <1>1, <1>7 DEF Role, Tcp
<1> QED
  BY <1>1, <1>4, <1>6, <1>7, <1>8, TypesAre, GoesOn DEF Pcs, Behind, Apart

(* A set of natural numbers that is not empty has a least element. *)
LEMMA LeastNatural ==
  ASSUME NEW T \in SUBSET Nat, T # {}
  PROVE  \E n \in T : \A m \in T : n <= m
<1>1. PICK n \in T : \A m \in T : ~ (<<m, n>> \in OpToRel(<, Nat))
  BY NatLessThanWellFounded, WFMin
<1>2. \A m \in T : ~ (m < n)
  BY <1>1 DEF OpToRel
<1> QED
  BY <1>2

(* The walk along the list is defined, for it is defined up to each step. *)
WalkOn(f, n) ==
  /\ f \in [0..n -> Handles \cup {Null}]
  /\ \A i \in 0..n : f[i] = IF i = 0 THEN head ELSE IF f[i - 1] = Null THEN Null ELSE hs[f[i - 1]].next

LEMMA WalkIs ==
  ASSUME hs \in [Handles -> HandleState], head \in Handles \cup {Null}
  PROVE  Cardinality(Handles) \in Nat /\ WalkOn(Walk, Cardinality(Handles))
<1> DEFINE N == Cardinality(Handles)
           Steps(f) == f = [i \in 0..N |-> IF i = 0 THEN head
                              ELSE IF f[i - 1] = Null THEN Null ELSE hs[f[i - 1]].next]
           T == {n \in Nat : ~ \E f : WalkOn(f, n)}
<1>1. N \in Nat
  BY HandleAssumption, FS_CardinalityType
<1>2. ASSUME T # {} PROVE FALSE
  <2>1. PICK n \in T : \A m \in T : n <= m
    BY <1>2, LeastNatural
  <2>2. CASE n = 0
    <3>1. WalkOn([i \in 0..0 |-> head], 0)
      BY DEF WalkOn
    <3> QED
      BY <2>1, <2>2, <3>1
  <2>3. CASE n # 0
    <3>1. n \in Nat /\ n - 1 \in Nat /\ n - 1 \notin T
      BY <2>1, <2>3
    <3>2. PICK f : WalkOn(f, n - 1)
      BY <3>1
    <3> DEFINE x == IF f[n - 1] = Null THEN Null ELSE hs[f[n - 1]].next
               g == [i \in 0..n |-> IF i = n THEN x ELSE f[i]]
    <3>3. n - 1 \in 0..(n - 1) /\ f[n - 1] \in Handles \cup {Null}
      BY <3>1, <3>2 DEF WalkOn
    <3>4. x \in Handles \cup {Null}
      BY <3>3 DEF HandleState
    <3>5. g \in [0..n -> Handles \cup {Null}]
      BY <3>1, <3>2, <3>4 DEF WalkOn
    <3>6. ASSUME NEW i \in 0..n
          PROVE  g[i] = IF i = 0 THEN head ELSE IF g[i - 1] = Null THEN Null ELSE hs[g[i - 1]].next
      <4>1. CASE i = n
        BY <2>3, <3>1, <4>1
      <4>2. CASE i # n
        <5>1. i \in 0..(n - 1) /\ g[i] = f[i] /\ (i # 0 => g[i - 1] = f[i - 1])
          BY <3>1, <4>2
        <5> QED
          BY <3>2, <5>1 DEF WalkOn
      <4> QED
        BY <4>1, <4>2
    <3>7. WalkOn(g, n)
      BY <3>5, <3>6 DEF WalkOn
    <3> QED
      BY <2>1, <3>7
  <2> QED
    BY <2>2, <2>3
<1>3. PICK g : WalkOn(g, N)
  BY <1>1, <1>2
<1>4. Steps(g)
  BY <1>3 DEF WalkOn
<1>5. Steps(Walk)
  <2>1. Walk = CHOOSE f : Steps(f)
    BY DEF Walk
  <2> HIDE DEF Steps
  <2> QED
    BY <1>4, <2>1
<1>6. \A i \in 0..N : Walk[i] = IF i = 0 THEN head ELSE IF Walk[i - 1] = Null THEN Null ELSE hs[Walk[i - 1]].next
  BY <1>5
<1>7. ASSUME NEW i \in 0..N, Walk[i] # g[i] PROVE FALSE
  <2> DEFINE D == {k \in 0..N : Walk[k] # g[k]}
  <2>1. PICK k \in D : \A m \in D : k <= m
    <3>1. D \in SUBSET Nat /\ D # {}
      BY <1>1, <1>7
    <3> QED
      BY <3>1, LeastNatural
  <2>2. k \in 0..N /\ (k # 0 => k - 1 \in 0..N /\ Walk[k - 1] = g[k - 1])
    BY <1>1, <2>1
  <2>3. Walk[k] = g[k]
    BY <1>3, <1>6, <2>2 DEF WalkOn
  <2> QED
    BY <2>1, <2>3
<1>8. Walk \in [0..N -> Handles \cup {Null}]
  BY <1>3, <1>5, <1>7 DEF WalkOn
<1> QED
  BY <1>1, <1>6, <1>8 DEF WalkOn

(* A list with an end has a last node. *)
LEMMA LastNodeIs ==
  ASSUME hs \in [Handles -> HandleState], head \in Handles, ~ Endless
  PROVE  LastNode \in Handles
<1> DEFINE N == Cardinality(Handles)
           T == {k \in 0..N : Walk[k] = Null}
<1>1. N \in Nat /\ WalkOn(Walk, N)
  BY WalkIs
<1>2. N \in T
  BY <1>1 DEF Endless
<1>3. PICK n \in T : \A m \in T : n <= m
  <2>1. T \in SUBSET Nat /\ T # {}
    BY <1>1, <1>2
  <2> QED
    BY <2>1, LeastNatural
<1>4. n # 0
  BY <1>1, <1>3, HandleAssumption DEF WalkOn
<1>5. n - 1 \in 0..N /\ n - 1 \notin T
  BY <1>1, <1>3, <1>4
<1>6. /\ Walk[n - 1] \in Handles /\ Walk[n - 1] # Null
      /\ hs[Walk[n - 1]].next = Null
  BY <1>1, <1>3, <1>4, <1>5 DEF WalkOn
<1>7. DOMAIN Walk = 0..N
  BY <1>1 DEF WalkOn
<1>8. \A h \in Chain : h \in Handles
  BY <1>1, <1>7 DEF Chain, WalkOn
<1>9. Walk[n - 1] \in Chain
  BY <1>5, <1>6, <1>7 DEF Chain
<1>10. \E h \in Chain : hs[h].next = Null
  BY <1>6, <1>9
<1>11. LastNode \in Chain
  BY <1>10 DEF LastNode
<1> QED
  BY <1>8, <1>11

(* The walk to the end of the list, and the link behind it. *)
LEMMA AppendIs ==
  ASSUME IInv, NEW p \in Threads, AppendWalk(p) \/ AppendLink(p)
  PROVE  \E pc \in {"publish", "link", "loop"} :
           Becomes(p, pc, th[p].fn, th[p].h, th[p].o, th[p].want)
<1>1. th \in [Threads -> Local] /\ th[p] \in Local /\ {"publish", "link", "loop"} \subseteq Pcs
  BY TypesAre DEF Pcs
<1>2. CASE \E pc \in {"publish", "loop"} : Go(p, pc)
  BY <1>1, <1>2, GoIs
<1>3. CASE AppendWalk(p) /\ ~ \E pc \in {"publish", "loop"} : Go(p, pc)
  <2> DEFINE x == [th[p] EXCEPT !.pc = "link", !.tail = LastNode]
  <2>1. head \in Handles /\ ~ Endless
    BY <1>3, TypesAre DEF AppendWalk
  <2>2. LastNode \in Handles
    BY <2>1, LastNodeIs, TypesAre
  <2>3. th' = [th EXCEPT ![p] = x]
    BY <1>1, <1>3 DEF AppendWalk
  <2>4. x \in Local
    BY <1>1, <2>2 DEF Local
  <2>5. x.pc = "link" /\ x.fn = th[p].fn /\ x.h = th[p].h /\ x.o = th[p].o /\ x.want = th[p].want
    BY <1>1 DEF Local
  <2> HIDE DEF x
  <2>6. Becomes(p, x.pc, x.fn, x.h, x.o, x.want)
    BY <1>1, <2>3, <2>4, Entry
  <2> QED
    BY <2>5, <2>6
<1> QED
  BY <1>2, <1>3 DEF AppendLink

LEMMA AppendKeeps ==
  ASSUME IInv, NEW p \in Threads, AppendWalk(p) \/ AppendLink(p), UNCHANGED cvars
  PROVE  IInv'
<1>1. th[p].pc \in {"append", "link"} /\ UNCHANGED <<used, reuse, lk, ob, open, events, calls>>
  BY DEF AppendWalk, AppendLink, At, cvars
<1>2. PICK h \in Handles : h = th[p].h /\ h \in used
  BY <1>1, TypesAre DEF WithHandle, Role
<1>3. /\ head' \in used \cup {Null} /\ db' \in Threads \cup {Null}
      /\ hs' \in [Handles -> HandleState]
      /\ \A g \in Handles : hs'[g].obj = hs[g].obj /\ hs'[g].alive = hs[g].alive
  <2>1. CASE AppendWalk(p)
    BY <1>2, <2>1, TypesAre DEF AppendWalk
  <2>2. CASE AppendLink(p)
    <3> DEFINE tail == th[p].tail
               one == [hs EXCEPT ![tail].next = h]
    <3>1. hs' = [one EXCEPT ![h].prev = tail] /\ head' = head /\ db' = Null
      BY <1>2, <2>2 DEF AppendLink
    <3>2. th[p] \in Local /\ hs \in [Handles -> HandleState]
      BY TypesAre
    <3>3. tail \in Handles \cup {Null}
      BY <3>2 DEF Local
    <3> HIDE DEF tail
    <3>4. /\ one \in [Handles -> HandleState]
          /\ \A g \in Handles : one[g].obj = hs[g].obj /\ one[g].alive = hs[g].alive
      BY <1>2, <3>2, <3>3 DEF HandleState
    <3> HIDE DEF one
    <3>5. /\ hs' \in [Handles -> HandleState]
          /\ \A g \in Handles : hs'[g].obj = one[g].obj /\ hs'[g].alive = one[g].alive
      BY <3>1, <3>3, <3>4 DEF HandleState
    <3> QED
      BY <3>1, <3>4, <3>5, TypesAre
  <2> QED
    BY <2>1, <2>2
<1>4. PICK pc \in {"publish", "link", "loop"} :
        Becomes(p, pc, th[p].fn, th[p].h, th[p].o, th[p].want)
  BY AppendIs
<1>5. Role(p) /\ Role(p)'
  BY <1>1, <1>4, TypesAre DEF Role, Becomes, WithHandle, Asking
<1>6. p \notin Recv
  BY <1>1, <1>5 DEF Role
<1> QED
  BY <1>1, <1>3, <1>4, <1>5, <1>6, TypesAre, GoesOn DEF Pcs, Behind, Apart
----------------------------------------------------------------------------
(* Calls, and what threads do between their calls. *)

(* Nothing but thread p, which has no handle in the making. *)
LEMMA MovesOn ==
  ASSUME IInv, NEW p \in Threads, NEW pc \in Pcs, NEW fn, NEW h, NEW o, NEW want,
         Becomes(p, pc, fn, h, o, want),
         UNCHANGED <<hvars, ob, open>>, events' \subseteq used, calls' \in 0..MaxCalls,
         th[p].pc \notin Behind \cup Apart \/ Locks',
         pc \notin Behind \cup {"none", "new", "pop", "append", "link", "publish", "recycle"},
         Role(p)', fn # "udp",
         o = th[p].o \/ (o = Null /\ fn = "none"),
         p \in Recv => h = th[p].h /\ (Tcp(p) => Tcp(p)')
  PROVE  IInv'
<1>1. UNCHANGED <<hs, used, head, reuse, lk, db>>
  BY DEF hvars
<1>2. Shape'
  BY <1>1, TypesAre, ShapeStays DEF IInv, Becomes
<1>3. ~ Making(p)' /\ ~ Bearing(p)'
  BY DEF Becomes, Making, Bearing
<1>4. /\ \A q \in Threads \ {p} : th'[q] = th[q]
      /\ th'[p].pc \notin Behind \cup {"none"} /\ (th'[p].o = th[p].o \/ (th'[p].o = Null /\ th'[p].fn = "none"))
      /\ th'[p].fn # "udp" /\ (p \in Recv => th'[p].h = th[p].h)
  BY DEF Becomes
<1> QED
  BY <1>1, <1>2, <1>3, <1>4, QuietStep

(* A thread that calls enet_handle_rlock or enet_handle_wlock. *)
LEMMA AsksKeeps ==
  ASSUME IInv, NEW p \in Threads, NEW h \in used, NEW fn \in Fns \ {"udp"}, NEW want \in {"r", "w"},
         want = "w" <=> fn \in {"disconnect", "udelete"},
         CallLock(p, h, want, fn),
         UNCHANGED <<hvars, ob, open>>, events' \subseteq used, calls' \in 0..MaxCalls,
         th[p].pc \notin Behind \cup Apart,
         p \in Recv => h = th[p].h /\ fn \in {"attr", "uattr"} /\ ~ Tcp(p)
  PROVE  IInv'
<1>1. h \in Handles
  BY TypesAre
<1>2. Becomes(p, "find", fn, h, th[p].o, want)
  BY <1>1, TypesAre, CallLockIs
<1>3. UNCHANGED used
  BY DEF hvars
<1>4. Role(p)'
  BY <1>2, <1>3 DEF Role, Becomes, WithHandle, Asking
<1> QED
  BY <1>2, <1>4, MovesOn DEF Pcs, Behind

(* A call is over. *)
LEMMA RestsKeeps ==
  ASSUME IInv, NEW p \in Threads \ Recv, Idle(p),
         UNCHANGED <<hvars, ob, open>>, events' \subseteq used, calls' \in 0..MaxCalls,
         th[p].pc \notin Behind \cup Apart
  PROVE  IInv'
<1>1. Becomes(p, "idle", "none", Null, Null, "r")
  BY TypesAre, IdleIs
<1>2. Role(p)'
  BY <1>1 DEF Role, Becomes, WithHandle, Asking
<1> QED
  BY <1>1, <1>2, MovesOn DEF Pcs, Behind

LEMMA CallOnKeeps ==
  ASSUME IInv, NEW p \in Threads, NEW h \in Handles,
         NEW fn \in {"connect", "disconnect", "tdelete", "send", "udelete", "usend"}, CallOn(p, fn, h)
  PROVE  IInv'
<1>1. /\ h \in used /\ p \in App /\ th[p].pc = "idle" /\ calls < MaxCalls /\ calls' = calls + 1
      /\ UNCHANGED <<hvars, ob, open, events>>
      /\ CallLock(p, h, IF fn \in {"disconnect", "udelete"} THEN "w" ELSE "r", fn)
  BY DEF CallOn, Call, At
<1>2. p \notin Recv /\ calls' \in 0..MaxCalls /\ events' \subseteq used
  BY <1>1, TypesAre, ClientAssumption
<1>3. PICK want \in {"r", "w"} : /\ want = "w" <=> fn \in {"disconnect", "udelete"}
                                 /\ CallLock(p, h, want, fn)
  <2>1. CASE fn \in {"disconnect", "udelete"}
    BY <1>1, <2>1
  <2>2. CASE fn \notin {"disconnect", "udelete"}
    BY <1>1, <2>2
  <2> QED
    BY <2>1, <2>2
<1>4. fn \in Fns \ {"udp"}
  BY DEF Fns
<1> QED
  BY <1>1, <1>2, <1>3, <1>4, AsksKeeps DEF Behind, Apart

LEMMA HandleEventKeeps ==
  ASSUME IInv, NEW p \in Threads, HandleEvent(p)
  PROVE  IInv'
<1>1. PICK h \in events : events' = events \ {h} /\ CallLock(p, h, "r", "handle")
  BY DEF HandleEvent
<1>2. /\ h \in used /\ p \notin Recv /\ th[p].pc = "idle" /\ UNCHANGED <<hvars, ob, open, calls>>
      /\ events' \subseteq used /\ calls' \in 0..MaxCalls
  BY <1>1, TypesAre, ClientAssumption DEF HandleEvent, At
<1> QED
  BY <1>1, <1>2, AsksKeeps DEF Fns, Behind, Apart

LEMMA SendKeeps ==
  ASSUME IInv, NEW p \in Threads, SendOk(p) \/ SendFails(p) \/ UseBuffer(p)
  PROVE  IInv'
<1>1. /\ th[p].pc \in {"sending", "use"} /\ UNCHANGED <<hvars, ob, open, events, calls>>
      /\ Idle(p) \/ CallLock(p, th[p].h, "r", "reconnect")
  BY DEF SendOk, SendFails, UseBuffer, At, cvars
<1>2. /\ p \notin Recv /\ th[p].h \in used
      /\ events' \subseteq used /\ calls' \in 0..MaxCalls
  BY <1>1, TypesAre DEF Role, WithHandle
<1>3. CASE Idle(p)
  BY <1>1, <1>2, <1>3, RestsKeeps DEF Behind, Apart
<1>4. CASE CallLock(p, th[p].h, "r", "reconnect")
  BY <1>1, <1>2, <1>4, AsksKeeps DEF Fns, Behind, Apart
<1> QED
  BY <1>1, <1>3, <1>4

LEMMA RecvKeeps ==
  ASSUME IInv, NEW p \in Threads, RecvData(p) \/ RecvFails(p)
  PROVE  IInv'
<1>1. th[p].pc = "recv" /\ UNCHANGED <<hvars, ob, open, calls>> /\ th[p].h \in used
  BY TypesAre DEF RecvData, RecvFails, At, cvars, Role, WithHandle
<1>2. events' \subseteq used /\ calls' \in 0..MaxCalls
  BY <1>1, TypesAre DEF RecvData, RecvFails, cvars
<1>3. PICK pc \in {"recv", "ended"} : Becomes(p, pc, th[p].fn, th[p].h, th[p].o, th[p].want)
  <2>1. th \in [Threads -> Local] /\ th[p] \in Local /\ {"recv", "ended"} \subseteq Pcs
    BY TypesAre DEF Pcs
  <2>2. CASE RecvData(p)
    BY <1>1, <2>1, <2>2 DEF RecvData, Becomes
  <2>3. CASE RecvFails(p)
    <3> DEFINE pc == IF th[p].left = 1 THEN "ended" ELSE th[p].pc
               left == th[p].left - 1
               x == [th[p] EXCEPT !.left = left, !.pc = pc]
    <3>1. th' = [th EXCEPT ![p] = x]
      BY <2>1, <2>3 DEF RecvFails
    <3>2. pc \in {"recv", "ended"} /\ pc \in Pcs /\ left \in Int
      BY <1>1, <2>1 DEF Local
    <3> HIDE DEF pc, left
    <3>3. x \in Local /\ x.pc = pc
      BY <2>1, <3>2 DEF Local
    <3>4. x.fn = th[p].fn /\ x.h = th[p].h /\ x.o = th[p].o /\ x.want = th[p].want
      BY <2>1 DEF Local
    <3> HIDE DEF x
    <3>5. Becomes(p, x.pc, x.fn, x.h, x.o, x.want)
      BY <2>1, <3>1, <3>3, Entry
    <3> QED
      BY <3>2, <3>3, <3>4, <3>5
  <2> QED
    BY <2>2, <2>3
<1>4. Role(p) /\ Role(p)'
  <2>1. UNCHANGED used
    BY <1>1 DEF hvars
  <2> QED
    BY <1>1, <1>3, <2>1, TypesAre DEF Role, Becomes, WithHandle, Asking
<1>5. th[p].fn # "udp" /\ (p \in Recv /\ Tcp(p) => Tcp(p)')
  BY <1>1, <1>3, <1>4 DEF Role, Tcp, Becomes
<1> QED
  BY <1>1, <1>2, <1>3, <1>4, <1>5, MovesOn DEF Pcs, Behind, Apart

LEMMA WaitKeeps ==
  ASSUME IInv, NEW p \in Threads, UdpData(p) \/ UdpQuiet(p)
  PROVE  IInv'
<1>1. th[p].pc = "wait" /\ UNCHANGED <<hvars, ob, open, events, calls>> /\ th[p].h \in used
  BY TypesAre DEF UdpData, UdpQuiet, At, cvars, Role, WithHandle
<1>2. /\ events' \subseteq used /\ calls' \in 0..MaxCalls /\ ~ Tcp(p)
  BY <1>1, TypesAre DEF Tcp
<1>3. CASE UdpData(p)
  BY <1>1, <1>2, <1>3, AsksKeeps DEF UdpData, Fns, Behind, Apart
<1>4. CASE UdpQuiet(p)
  <2>1. th \in [Threads -> Local] /\ th[p] \in Local /\ "wait" \in Pcs
    BY TypesAre DEF Pcs
  <2> DEFINE x == [th[p] EXCEPT !.fd = Null]
  <2>2. th' = [th EXCEPT ![p] = x] /\ x \in Local
    BY <1>4, <2>1 DEF UdpQuiet, Local
  <2>3. x.pc = "wait" /\ x.fn = th[p].fn /\ x.h = th[p].h /\ x.o = th[p].o /\ x.want = th[p].want
    BY <1>1, <2>1 DEF Local
  <2> HIDE DEF x
  <2>4. Becomes(p, x.pc, x.fn, x.h, x.o, x.want)
    BY <2>1, <2>2, Entry
  <2>5. Becomes(p, "wait", th[p].fn, th[p].h, th[p].o, th[p].want)
    BY <2>3, <2>4
  <2>6. Role(p) /\ Role(p)'
    <3>1. UNCHANGED used
      BY <1>1 DEF hvars
    <3> QED
      BY <1>1, <2>5, <3>1, TypesAre DEF Role, Becomes, WithHandle, Asking
  <2>7. th[p].fn # "udp"
    BY <1>1, <2>6 DEF Role
  <2> QED
    BY <1>1, <1>2, <2>1, <2>5, <2>6, <2>7, MovesOn DEF Behind, Apart
<1> QED
  BY <1>3, <1>4

LEMMA NewUdpDeafKeeps ==
  ASSUME IInv, NEW p \in Threads, NewUdpDeaf(p)
  PROVE  IInv'
<1>1. /\ th[p].pc = "done" /\ UNCHANGED <<hvars, ob, open, events, calls>> /\ Idle(p)
      /\ th[p].fn = "udp" /\ Role(p)
  BY TypesAre DEF NewUdpDeaf, At, cvars
<1>2. events' \subseteq used /\ calls' \in 0..MaxCalls /\ p \notin Recv
  BY <1>1, TypesAre DEF Role
<1> QED
  BY <1>1, <1>2, RestsKeeps DEF Behind, Apart

LEMMA DoneKeeps ==
  ASSUME IInv, NEW p \in Threads, Done(p)
  PROVE  IInv'
<1>1. th[p].pc = "done" /\ th[p].fn # "udp" /\ UNCHANGED <<hvars, ob, open, events, calls>> /\ th[p].h \in used
  BY TypesAre DEF Done, At, cvars, Role, WithHandle
<1>2. /\ events' \subseteq used /\ calls' \in 0..MaxCalls /\ UNCHANGED used
  BY <1>1, TypesAre DEF hvars
<1>3. th \in [Threads -> Local] /\ th[p] \in Local /\ Role(p)
  BY TypesAre
<1>4. CASE p \notin Recv /\ Idle(p)
  BY <1>1, <1>2, <1>4, RestsKeeps DEF Behind, Apart
<1>5. CASE p \in Recv /\ Go(p, "ended")
  <2>1. Becomes(p, "ended", th[p].fn, th[p].h, th[p].o, th[p].want)
    BY <1>3, <1>5, GoIs DEF Pcs
  <2>2. Role(p)' /\ (Tcp(p) => Tcp(p)')
    BY <1>1, <1>2, <1>3, <2>1 DEF Role, Becomes, WithHandle, Asking, Tcp
  <2> QED
    BY <1>1, <1>2, <2>1, <2>2, MovesOn DEF Pcs, Behind, Apart
<1>6. CASE th[p].ok /\ th[p].fn \in {"tdelete", "udelete", "send", "reconnect", "attr", "uattr", "handle"}
  <2> DEFINE left == CASE th[p].fn = "attr" -> 2 [] th[p].fn = "reconnect" -> 1 [] OTHER -> 0
             pc == Follows(th[p].fn)
             x == [th[p] EXCEPT !.pc = pc, !.fn = "none", !.left = left]
  <2>1. /\ pc \in {"del", "sending", "recv", "wait", "use"} /\ pc \in Pcs /\ left \in Int
        /\ th[p].fn = "attr" => pc = "recv"
        /\ th[p].fn = "uattr" => pc = "wait"
    BY <1>6 DEF Follows, Pcs
  <2>2. th' = [th EXCEPT ![p] = x]
    BY <1>3, <1>6 DEF Done
  <2> HIDE DEF pc, left
  <2>3. x \in Local
    BY <1>3, <2>1 DEF Local, Fns
  <2>4. x.pc = pc /\ x.fn = "none" /\ x.h = th[p].h /\ x.o = th[p].o /\ x.want = th[p].want
    BY <1>3 DEF Local
  <2> HIDE DEF x
  <2>5. Becomes(p, x.pc, x.fn, x.h, x.o, x.want)
    BY <1>3, <2>2, <2>3, Entry
  <2>6. Becomes(p, pc, "none", th[p].h, th[p].o, th[p].want)
    BY <2>4, <2>5
  <2>7. Role(p)' /\ (p \in Recv /\ Tcp(p) => Tcp(p)')
    BY <1>1, <1>2, <1>3, <1>6, <2>1, <2>6 DEF Role, Becomes, WithHandle, Asking, Tcp
  <2> QED
    BY <1>1, <1>2, <2>1, <2>6, <2>7, MovesOn DEF Behind, Apart
<1> QED
  BY <1>4, <1>5, <1>6 DEF Done
----------------------------------------------------------------------------
(* Locking a handle, making one, taking one apart. *)

LEMMA BodiesGoOn ==
  ASSUME IInv, Shape', NEW p \in Threads, NEW pc, NEW h, NEW o, NEW want,
         Becomes(p, pc, th[p].fn, h, o, want), UNCHANGED ob,
         \A g \in Handles : hs'[g].obj \in {hs[g].obj, Null},
         \A q \in Threads \ {p} : th[q].pc = "dwait" => hs'[th[q].h].obj = hs[th[q].h].obj,
         pc \notin {"select", "cwait", "dwait", "none"},
         pc \in {"new", "pop", "append", "link", "publish"} => Bearing(p) /\ o = th[p].o,
         o = th[p].o \/ (th[p].fn # "udp" /\ \E g \in Handles : o = hs[g].obj),
         th[p].fn = "udp" => pc # "done",
         p \in Recv => h = th[p].h /\ ((th[p].fn = "attr" /\ pc # "wait") \/ ~ Tcp(p))
  PROVE  Bodies'
<1>1. Shape /\ Bodies
  BY DEF IInv
<1>2. /\ \A q \in Threads \ {p} : th'[q] = th[q]
      /\ th'[p].pc = pc /\ th'[p].fn = th[p].fn /\ th'[p].h = h /\ th'[p].o = o
  BY DEF Becomes
<1>3. \A q \in Threads : Bearing(q)' => Bearing(q) /\ th'[q].fn = th[q].fn /\ th'[q].o = th[q].o
  BY <1>2 DEF Bearing
<1>4. ASSUME NEW q \in Threads PROVE Bound(q)'
  <2>1. CASE q # p
    <3>1. Bound(q) /\ th'[q] = th[q]
      BY <1>1, <1>2, <2>1 DEF Bodies
    <3>2. th[q].fn = "udp" /\ th[q].pc = "done" => \A g \in Handles : hs'[g].obj = th[q].o => g = th[q].h
      BY <3>1, HandleAssumption DEF Bound
    <3>3. th[q].pc = "dwait" => hs'[th[q].h].obj = hs[th[q].h].obj
      BY <2>1
    <3> QED
      BY <3>1, <3>2, <3>3 DEF Bound
  <2>2. CASE q = p
    <3>1. th[p].o # Null => ob[th[p].o].kind # "none"
      BY <1>1 DEF Bodies, Bound
    <3>2. o # Null => ob[o].kind # "none"
      BY <1>1, <3>1 DEF Bodies
    <3> QED
      BY <1>1, <1>2, <2>2, <3>2 DEF Bodies, Bound
  <2> QED
    BY <2>1, <2>2
<1>5. ASSUME NEW c \in Objs PROVE Received(c)'
  <2> DEFINE r == ob[c].thread
  <2>1. Received(c) /\ (r = Null \/ r \in Recv)
    BY <1>1 DEF Bodies, Shape, Client
  <2>2. r = p => th'[r].h = th[r].h /\ (Tcp(p) => Tcp(p)') /\ th'[p].pc # "none"
    BY <1>2, <2>1, HandleAssumption DEF Tcp
  <2>3. r # Null /\ r # p => th'[r] = th[r]
    BY <1>2, <2>1, ClientAssumption
  <2>4. \A g \in Handles : hs'[g].obj = c => hs[g].obj = c
    BY HandleAssumption
  <2> QED
    BY <2>1, <2>2, <2>3, <2>4 DEF Received, Tcp
<1>6. \A q \in Threads : \/ th'[q].o \in {Null, th[q].o}
                         \/ \E g \in Handles : th'[q].o = hs[g].obj
  BY <1>2
<1> QED
  BY <1>1, <1>3, <1>4, <1>5, <1>6, BodiesStay

(* Whoever writes a handle is alone behind its lock. *)
LEMMA WriterAlone ==
  ASSUME IInv, NEW h \in Handles, NEW p \in Threads, NEW q \in Threads,
         Within(p, h), Within(q, h), th[p].want = "w"
  PROVE  q = p
BY HandleAssumption DEF IInv, Locks, HasLock

LEMMA LockKeeps ==
  ASSUME IInv, NEW p \in Threads, Lock(p), UNCHANGED cvars
  PROVE  IInv'
<1>1. /\ th[p].pc = "lock" /\ UNCHANGED <<hs, used, head, reuse, db, ob, open, events, calls>>
      /\ hs[th[p].h].alive /\ hs[th[p].h].obj # Null
  BY DEF Lock, At, cvars
<1>2. PICK h \in Handles : h = th[p].h
  BY <1>1, TypesAre DEF WithHandle
<1>3. Becomes(p, "in", th[p].fn, h, th[p].o, th[p].want)
  BY <1>2, TypesAre, GoIs DEF Pcs, Lock
<1>4. lk \in [Handles -> LockState] /\ Role(p) /\ Locks /\ Idlers
  BY TypesAre DEF IInv
<1>5. /\ lk[h].w = Null /\ lk[h].r \in [Threads -> Nat]
      /\ \A q \in Threads : lk[h].w # q
      /\ IF th[p].want = "w" THEN /\ \A q \in Threads : lk[h].r[q] = 0
                                  /\ lk' = [lk EXCEPT ![h].w = p]
         ELSE lk' = [lk EXCEPT ![h].r[p] = @ + 1]
  <2>1. lk[h].w # p
    BY <1>1, <1>4 DEF Locks, Writes
  <2>2. lk[h] \in LockState
    BY <1>4
  <2> QED
    BY <1>2, <2>1, <2>2, HandleAssumption DEF Lock, MayWrite, MayRead, LockState
<1>6. /\ lk' \in [Handles -> LockState] /\ \A g \in Handles \ {h} : lk'[g] = lk[g]
      /\ \A q \in Threads \ {p} : lk'[h].r[q] = lk[h].r[q]
      /\ IF th[p].want = "w" THEN lk'[h].w = p /\ \A q \in Threads : lk'[h].r[q] = 0
         ELSE lk'[h].w = Null /\ lk'[h].r[p] = lk[h].r[p] + 1
  <2>1. CASE th[p].want = "w"
    BY <1>4, <1>5, <2>1 DEF LockState
  <2>2. CASE th[p].want # "w"
    <3> DEFINE r == [lk[h].r EXCEPT ![p] = @ + 1]
    <3>1. r \in [Threads -> Nat] /\ r[p] = lk[h].r[p] + 1 /\ \A q \in Threads \ {p} : r[q] = lk[h].r[q]
      BY <1>5
    <3>2. lk' = [lk EXCEPT ![h] = [@ EXCEPT !.r = r]]
      BY <1>5, <2>2
    <3> HIDE DEF r
    <3> QED
      BY <1>4, <1>5, <2>2, <3>1, <3>2 DEF LockState
  <2> QED
    BY <2>1, <2>2
<1>7. Shape'
  BY <1>1, <1>3, <1>6 DEF IInv, Shape, TypeOK, Becomes
<1>8. Roles'
  BY <1>1, <1>2, <1>3 DEF IInv, Roles, Role, Becomes, WithHandle, Asking
<1>9. Locks'
  <2>1. ASSUME NEW g \in Handles, NEW q \in Threads, g # h \/ q # p
        PROVE  /\ Within(q, g)' => HasLock(q, g)'
               /\ lk'[g].w = q => Writes(q, g)'
               /\ q \in Recv /\ lk'[g].r[q] # 0 => Reads(q, g)'
    <3>1. CASE g # h
      <4>1. lk'[g] = lk[g]
        BY <1>6, <3>1
      <4>2. CASE q = p
        BY <1>1, <1>2, <1>3, <1>4, <3>1, <4>1, <4>2 DEF Locks, Within, Writes, Reads, Becomes
      <4>3. CASE q # p
        BY <1>3, <1>4, <4>1, <4>3 DEF Locks, Within, HasLock, Writes, Reads, Becomes
      <4> QED
        BY <4>2, <4>3
    <3>2. CASE g = h /\ q # p
      <4>1. th'[q] = th[q] /\ lk'[h].w # q /\ lk'[h].r[q] = lk[h].r[q]
        BY <1>3, <1>6, <3>2, HandleAssumption DEF Becomes
      <4>2. Within(q, h) => lk[h].r[q] > 0 /\ th[q].want # "w"
        BY <1>4, <1>5 DEF Locks, HasLock
      <4> QED
        BY <1>4, <1>5, <1>6, <3>2, <4>1, <4>2 DEF Locks, Within, HasLock, Reads
    <3> QED
      BY <2>1, <3>1, <3>2
  <2>2. p \in Recv => lk[h].r[p] = 0 /\ th[p].want # "w"
    BY <1>1, <1>4 DEF Locks, Reads, Role, Asking
  <2>3. /\ Within(p, h)' => HasLock(p, h)'
        /\ lk'[h].w = p => Writes(p, h)'
        /\ p \in Recv /\ lk'[h].r[p] # 0 => Reads(p, h)'
    <3>1. lk[h].r[p] \in Nat /\ th[p].want \in {"r", "w"} /\ lk'[h].r[p] \in Nat
      BY <1>5, <1>6, TypesAre DEF Local, LockState
    <3>2. p # Null
      BY HandleAssumption
    <3>3. CASE th[p].want = "w"
      BY <1>3, <1>6, <2>2, <3>3 DEF Within, HasLock, Writes, Becomes
    <3>4. CASE th[p].want = "r"
      BY <1>3, <1>6, <2>2, <3>1, <3>2, <3>4 DEF HasLock, Reads, Becomes
    <3> QED
      BY <3>1, <3>3, <3>4
  <2>4. \A g \in Handles : lk'[g].w # Null => \A q \in Threads : lk'[g].r[q] = 0
    BY <1>4, <1>6 DEF Locks
  <2> QED
    BY <2>1, <2>3, <2>4, ClientAssumption DEF Locks
<1>10. Idlers'
  <2>1. \A g \in Handles : Unused(g) => Unused(g)'
    BY <1>1, <1>2, <1>3 DEF Unused, Within, Becomes
  <2>2. ASSUME NEW i \in DOMAIN reuse PROVE Unused(reuse[i])'
    <3>1. PICK g \in Handles : g = reuse[i]
      BY <2>2, TypesAre, LenProperties
    <3>2. Unused(g)'
      BY <1>4, <2>1, <2>2, <3>1 DEF Idlers
    <3> QED
      BY <1>1, <3>1, <3>2 DEF Unused, Within
  <2>3. ASSUME NEW q \in Threads, Making(q)'
        PROVE  /\ q # p /\ th'[q] = th[q] /\ Making(q) /\ Unused(th[q].h)'
    <3>1. q # p /\ th'[q] = th[q] /\ Making(q)
      BY <1>3, <2>3 DEF Making, Becomes
    <3>2. PICK g \in Handles : g = th[q].h
      BY <3>1, TypesAre DEF Making, WithHandle
    <3>3. Unused(g)'
      BY <1>4, <2>1, <3>1, <3>2 DEF Idlers
    <3> QED
      BY <3>1, <3>2, <3>3 DEF Unused, Within
  <2> QED
    BY <1>1, <1>4, <2>2, <2>3 DEF Idlers, Unused, Within
<1>11. Bodies'
  <2>1. p \in Recv => (th[p].fn = "attr") \/ ~ Tcp(p)
    BY <1>1 DEF Tcp
  <2>2. /\ \A g \in Handles : hs'[g].obj \in {hs[g].obj, Null}
        /\ \A q \in Threads \ {p} : th[q].pc = "dwait" => hs'[th[q].h].obj = hs[th[q].h].obj
    BY <1>1
  <2>3. /\ "in" \notin {"select", "cwait", "dwait", "none"}
        /\ "in" \in {"new", "pop", "append", "link", "publish"} => Bearing(p)
        /\ th[p].fn = "udp" => "in" # "done"
        /\ p \in Recv => h = th[p].h /\ ((th[p].fn = "attr" /\ "in" # "wait") \/ ~ Tcp(p))
    BY <1>2, <2>1
  <2>4. UNCHANGED ob
    BY <1>1
  <2> QED
    BY <1>3, <1>7, <2>2, <2>3, <2>4, BodiesGoOn
<1> QED
  BY <1>7, <1>8, <1>9, <1>10, <1>11 DEF IInv

(* What is in the reuse table, or made by another thread, stays unused where
   nobody comes behind a lock and no handle becomes alive. *)
LEMMA OthersIdle ==
  ASSUME IInv, NEW p \in Threads, \A q \in Threads \ {p} : th'[q] = th[q],
         th'[p].pc \notin Behind,
         \A g \in Handles : hs'[g].alive => hs[g].alive
  PROVE  /\ \A g \in Handles : Unused(g) => Unused(g)'
         /\ \A i \in DOMAIN reuse : reuse[i] \in used /\ reuse[i] \in Handles
         /\ \A q \in Threads \ {p} : Making(q)' =>
              Making(q) /\ th'[q].h = th[q].h /\ th[q].h \in Handles /\ Unused(th[q].h)'
<1>1. \A g \in Handles : Unused(g) => Unused(g)'
  BY DEF Unused, Within, Behind
<1>2. \A i \in DOMAIN reuse : reuse[i] \in used /\ reuse[i] \in Handles
  BY TypesAre, LenProperties
<1>3. ASSUME NEW q \in Threads \ {p}, Making(q)'
      PROVE  Making(q) /\ th'[q].h = th[q].h /\ th[q].h \in Handles /\ Unused(th[q].h)'
  <2>1. Making(q) /\ th'[q] = th[q] /\ th[q].h \in Handles
    BY <1>3, TypesAre DEF Making, WithHandle
  <2>2. PICK g \in Handles : g = th[q].h
    BY <2>1
  <2>3. Unused(g)'
    BY <1>1, <2>1, <2>2 DEF IInv, Idlers
  <2> QED
    BY <2>1, <2>2, <2>3 DEF Unused, Within
<1> QED
  BY <1>1, <1>2, <1>3

LEMMA DeleteHandleKeeps ==
  ASSUME IInv, NEW p \in Threads, DeleteHandle(p), UNCHANGED cvars
  PROVE  IInv'
<1>1. /\ th[p].pc \in {"del", "undel"} /\ UNCHANGED <<used, head, reuse, ob, open, events, calls>>
      /\ Role(p) /\ th[p].h \in used
  BY TypesAre DEF DeleteHandle, At, cvars, Role, WithHandle
<1>2. PICK h \in Handles : h = th[p].h
  BY <1>1, TypesAre DEF WithHandle
<1>3. /\ hs' = [hs EXCEPT ![h].alive = FALSE] /\ MayWrite(p, h)
      /\ \/ hs[h].alive /\ Go(p, "recycle") /\ lk' = [lk EXCEPT ![h].w = p] /\ UNCHANGED db
         \/ LeaveDelete(p) /\ UNCHANGED lk
  BY <1>2 DEF DeleteHandle
<1>4. /\ hs' \in [Handles -> HandleState] /\ ~ hs'[h].alive
      /\ \A g \in Handles : hs'[g].obj = hs[g].obj /\ (hs'[g].alive => hs[g].alive)
  BY <1>3, TypesAre DEF HandleState
<1>5. /\ th[p].fn # "udp" /\ (p \in Recv => th[p].fn = "attr" \/ ~ Tcp(p))
      /\ th \in [Threads -> Local] /\ lk \in [Handles -> LockState] /\ db \in Threads \cup {Null}
  BY <1>1, TypesAre DEF Role, Tcp
<1>6. CASE LeaveDelete(p) /\ UNCHANGED lk
  <2>1. Becomes(p, "done", th[p].fn, th[p].h, th[p].o, th[p].want)
    BY <1>5, <1>6, GoIs DEF LeaveDelete, Pcs
  <2>2. Role(p)'
    BY <1>1, <1>5, <2>1 DEF Role, Becomes, WithHandle, Asking
  <2>3. db' \in Threads \cup {Null}
    BY <1>5, <1>6 DEF LeaveDelete
  <2>4. UNCHANGED <<lk, ob, used, reuse, open, events, calls>> /\ head' \in used \cup {Null}
    BY <1>1, <1>6, TypesAre
  <2>5. th[p].pc \notin Behind \cup Apart /\ "done" \in Pcs \ (Behind \cup {"none"})
    BY <1>1 DEF Pcs, Behind, Apart
  <2> QED
    BY <1>4, <1>5, <2>1, <2>2, <2>3, <2>4, <2>5, GoesOn
<1>7. CASE hs[h].alive /\ Go(p, "recycle") /\ lk' = [lk EXCEPT ![h].w = p] /\ UNCHANGED db
  <2>1. Becomes(p, "recycle", th[p].fn, h, th[p].o, th[p].want)
    BY <1>2, <1>5, <1>7, GoIs DEF Pcs
  <2>2. /\ lk' \in [Handles -> LockState] /\ \A g \in Handles \ {h} : lk'[g] = lk[g]
        /\ lk'[h].w = p /\ \A q \in Threads : lk[h].r[q] = 0 /\ lk'[h].r[q] = 0
        /\ lk[h].w \in {Null, p}
    BY <1>3, <1>5, <1>7 DEF LockState, MayWrite
  <2>3. Shape'
    BY <1>1, <1>4, <1>7, <2>1, <2>2 DEF IInv, Shape, TypeOK, Becomes, HandleState
  <2>4. Role(p)'
    BY <1>1, <1>2, <1>5, <2>1 DEF Role, Becomes, WithHandle, Asking
  <2>5. Roles'
    BY <1>1, <2>1, <2>4 DEF IInv, Roles, Role, Becomes
  <2>6. Locks /\ Idlers /\ p # Null
    BY HandleAssumption DEF IInv
  <2>7. ASSUME NEW q \in Threads PROVE ~ Within(q, h)
    <3>1. HasLock(q, h) => th[q].want = "w" /\ q = p
      BY <1>5, <2>2, HandleAssumption DEF HasLock, LockState
    <3>2. ~ Within(p, h)
      BY <1>1 DEF Within
    <3> QED
      BY <2>6, <3>1, <3>2 DEF Locks
  <2>8. Locks'
    <3>1. ASSUME NEW g \in Handles, NEW q \in Threads
          PROVE  /\ Within(q, g)' => HasLock(q, g)'
                 /\ lk'[g].w = q => Writes(q, g)'
                 /\ q \in Recv /\ lk'[g].r[q] # 0 => Reads(q, g)'
      <4>1. CASE g = h
        BY <2>1, <2>2, <2>7, <4>1 DEF Becomes, Within, Writes
      <4>2. CASE g # h /\ q = p
        <5>1. lk'[g] = lk[g] /\ ~ Within(p, g)' /\ ~ Writes(p, g) /\ ~ Reads(p, g)
          BY <1>1, <2>1, <2>2, <4>2 DEF Within, Writes, Reads, Becomes
        <5> QED
          BY <2>6, <4>2, <5>1 DEF Locks
      <4>3. CASE g # h /\ q # p
        BY <2>1, <2>2, <2>6, <4>3 DEF Locks, Within, HasLock, Writes, Reads, Becomes
      <4> QED
        BY <4>1, <4>2, <4>3
    <3>2. \A g \in Handles : lk'[g].w # Null => \A q \in Threads : lk'[g].r[q] = 0
      BY <2>2, <2>6 DEF Locks
    <3> QED
      BY <3>1, <3>2, ClientAssumption DEF Locks
  <2>9. Idlers'
    <3>1. /\ \A q \in Threads \ {p} : th'[q] = th[q]
          /\ th'[p].pc = "recycle" /\ th'[p].h = h
      BY <2>1 DEF Becomes
    <3>2. /\ \A g \in Handles : Unused(g) => Unused(g)'
          /\ \A i \in DOMAIN reuse : reuse[i] \in used /\ reuse[i] \in Handles
          /\ \A q \in Threads \ {p} : Making(q)' =>
               Making(q) /\ th'[q].h = th[q].h /\ th[q].h \in Handles /\ Unused(th[q].h)'
      BY <1>4, <3>1, OthersIdle DEF Behind
    <3>3. Unused(h)'
      BY <1>4, <2>7, <3>1 DEF Unused, Within
    <3>4. Unused(th[p].h)'
      BY <1>2, <3>1, <3>3 DEF Unused, Within
    <3>5. ASSUME NEW i \in DOMAIN reuse PROVE reuse[i] # h /\ Unused(reuse[i])'
      <4>1. PICK g \in Handles : g = reuse[i]
        BY <3>2, <3>5
      <4>2. Unused(g) /\ Unused(g)'
        BY <2>6, <3>2, <3>5, <4>1 DEF Idlers
      <4> QED
        BY <1>1, <1>7, <4>1, <4>2 DEF Unused, Within
    <3>6. ASSUME NEW q \in Threads \ {p}, Making(q) PROVE th[q].h # h
      BY <1>7, <2>6, <3>6 DEF Idlers, Unused
    <3>7. ASSUME NEW q \in Threads, Making(q)'
          PROVE  /\ Unused(th[q].h)' /\ \A i \in DOMAIN reuse' : reuse'[i] # th'[q].h
                 /\ \A s \in Threads : Making(s)' /\ th'[s].h = th'[q].h => s = q
      <4>1. CASE q = p
        BY <1>1, <3>1, <3>2, <3>4, <3>5, <3>6, <4>1
      <4>2. CASE q # p
        BY <1>1, <2>6, <3>1, <3>2, <3>6, <3>7, <4>2 DEF Idlers
      <4> QED
        BY <4>1, <4>2
    <3> QED
      BY <1>1, <1>4, <2>6, <3>5, <3>7 DEF Idlers
  <2>10. Bodies'
    <3>1. /\ \A g \in Handles : hs'[g].obj \in {hs[g].obj, Null}
          /\ \A q \in Threads \ {p} : th[q].pc = "dwait" => hs'[th[q].h].obj = hs[th[q].h].obj
      BY <1>4, TypesAre DEF WithHandle
    <3>2. /\ "recycle" \notin {"select", "cwait", "dwait", "none"}
          /\ "recycle" \in {"new", "pop", "append", "link", "publish"} => Bearing(p)
          /\ th[p].fn = "udp" => "recycle" # "done"
          /\ p \in Recv => h = th[p].h /\ ((th[p].fn = "attr" /\ "recycle" # "wait") \/ ~ Tcp(p))
      BY <1>2, <1>5
    <3>3. UNCHANGED ob
      BY <1>1
    <3> QED
      BY <2>1, <2>3, <3>1, <3>2, <3>3, BodiesGoOn
  <2> QED
    BY <2>3, <2>5, <2>8, <2>9, <2>10 DEF IInv
<1> QED
  BY <1>3, <1>6, <1>7

LEMMA RecycleKeeps ==
  ASSUME IInv, NEW p \in Threads, Recycle(p), UNCHANGED cvars
  PROVE  IInv'
<1>1. /\ th[p].pc = "recycle" /\ UNCHANGED <<used, head, ob, open, events, calls>>
      /\ Role(p) /\ th[p].h \in used /\ p # Null
  BY TypesAre, HandleAssumption DEF Recycle, At, cvars, Role, WithHandle
<1>2. PICK h \in Handles : h = th[p].h /\ h \in used
  BY <1>1, TypesAre DEF WithHandle
<1>3. /\ th \in [Threads -> Local] /\ lk \in [Handles -> LockState] /\ db \in Threads \cup {Null}
      /\ hs \in [Handles -> HandleState] /\ used \subseteq Handles /\ reuse \in Seq(used)
      /\ Locks /\ Idlers
  BY TypesAre DEF IInv
<1>4. /\ hs' \in [Handles -> HandleState] /\ db' \in Threads \cup {Null}
      /\ \A g \in Handles : hs'[g].obj = hs[g].obj /\ hs'[g].alive = hs[g].alive
  <2> DEFINE n == hs[h].next  b == hs[h].prev
             cut == IF b = Null THEN hs ELSE [hs EXCEPT ![b].next = n]
  <2>1. n \in Handles \cup {Null} /\ b \in Handles \cup {Null}
    BY <1>3 DEF HandleState
  <2>2. hs' \in {hs, cut, [cut EXCEPT ![n].prev = b]} /\ (hs' = [cut EXCEPT ![n].prev = b] => n # Null \/ hs' = cut \/ hs' = hs)
    BY <1>2 DEF Recycle
  <2>3. /\ cut \in [Handles -> HandleState]
        /\ \A g \in Handles : cut[g].obj = hs[g].obj /\ cut[g].alive = hs[g].alive
    <3>1. CASE b = Null
      BY <1>3, <3>1
    <3>2. CASE b # Null
      <4>1. b \in Handles /\ cut = [hs EXCEPT ![b].next = n]
        BY <2>1, <3>2
      <4> HIDE DEF cut, n, b
      <4> QED
        BY <1>3, <2>1, <4>1 DEF HandleState
    <3> QED
      BY <3>1, <3>2
  <2> HIDE DEF cut, n, b
  <2>4. db' \in Threads \cup {Null}
    BY <1>3 DEF Recycle, LeaveDelete
  <2>5. CASE hs' = [cut EXCEPT ![n].prev = b] /\ n # Null
    BY <2>1, <2>3, <2>4, <2>5 DEF HandleState
  <2> QED
    BY <1>3, <2>2, <2>3, <2>4, <2>5
<1>5. PICK pc \in {"loop", "done"} :
        /\ Go(p, pc)
        /\ \/ pc = "loop" /\ UNCHANGED <<lk, reuse>>
           \/ /\ pc = "done" /\ lk' = [lk EXCEPT ![h].w = Null]
              /\ reuse' = reuse \/ reuse' = Append(reuse, h)
  BY <1>2 DEF Recycle, LeaveDelete
<1>6. Becomes(p, pc, th[p].fn, th[p].h, th[p].o, th[p].want)
  BY <1>3, <1>5, GoIs DEF Pcs
<1>7. /\ lk' \in [Handles -> LockState] /\ \A g \in Handles \ {h} : lk'[g] = lk[g]
      /\ \A q \in Threads, g \in Handles : lk'[g].r[q] = lk[g].r[q]
      /\ lk'[h].w = Null \/ lk' = lk
  <2>1. lk' = lk \/ lk' = [lk EXCEPT ![h].w = Null]
    BY <1>5
  <2>2. CASE lk' = lk
    BY <1>3, <2>2
  <2>3. CASE lk' = [lk EXCEPT ![h].w = Null]
    BY <1>3, <2>3 DEF LockState
  <2> QED
    BY <2>1, <2>2, <2>3
<1>8. Shape'
  <2>1. reuse' \in Seq(used)
    BY <1>2, <1>3, <1>5, AppendProperties
  <2> QED
    BY <1>1, <1>4, <1>6, <1>7, <2>1 DEF IInv, Shape, TypeOK, Becomes, HandleState
<1>9. Role(p)'
  BY <1>1, <1>5, <1>6 DEF Role, Becomes, WithHandle, Asking
<1>10. Roles'
  BY <1>1, <1>6, <1>9 DEF IInv, Roles, Role, Becomes
<1>11. Locks'
  <2>1. ASSUME NEW g \in Handles, NEW q \in Threads
        PROVE  /\ Within(q, g)' => HasLock(q, g)'
               /\ lk'[g].w = q => Writes(q, g)'
               /\ q \in Recv /\ lk'[g].r[q] # 0 => Reads(q, g)'
    <3>1. CASE q = p
      <4>1. lk[g].w = p => g = h
        BY <1>2, <1>3 DEF Locks, Writes
      <4>2. lk'[g].w = p => g = h /\ pc = "loop"
        BY <1>1, <1>3, <1>5, <1>7, <4>1 DEF LockState
      <4>3. ~ Within(p, g)' /\ ~ Reads(p, g)
        BY <1>1, <1>6 DEF Within, Reads, Becomes
      <4> QED
        BY <1>2, <1>3, <1>6, <1>7, <3>1, <4>2, <4>3 DEF Locks, Writes, Becomes
    <3>2. CASE q # p /\ g # h
      BY <1>3, <1>6, <1>7, <3>2 DEF Locks, Within, HasLock, Writes, Reads, Becomes
    <3>3. CASE q # p /\ g = h
      <4>1. ~ Within(q, h) /\ th'[q] = th[q] /\ q # Null
        BY <1>1, <1>2, <1>3, <1>6, <3>3, HandleAssumption DEF Idlers, Making, Unused, Becomes
      <4> QED
        BY <1>3, <1>7, <3>3, <4>1 DEF Locks, Within, Writes, Reads
    <3> QED
      BY <3>1, <3>2, <3>3
  <2>2. \A g \in Handles : lk'[g].w # Null => \A q \in Threads : lk'[g].r[q] = 0
    BY <1>3, <1>7 DEF Locks
  <2> QED
    BY <2>1, <2>2, ClientAssumption DEF Locks
<1>12. Idlers'
  <2>1. /\ \A q \in Threads \ {p} : th'[q] = th[q]
        /\ th'[p].pc = pc /\ ~ Making(p)'
    BY <1>5, <1>6 DEF Becomes, Making
  <2>2. /\ \A g \in Handles : Unused(g) => Unused(g)'
        /\ \A i \in DOMAIN reuse : reuse[i] \in used /\ reuse[i] \in Handles
        /\ \A q \in Threads \ {p} : Making(q)' =>
             Making(q) /\ th'[q].h = th[q].h /\ th[q].h \in Handles /\ Unused(th[q].h)'
    BY <1>4, <1>5, <2>1, OthersIdle DEF Behind
  <2>3. Making(p) /\ Unused(h)
    BY <1>1, <1>2, <1>3 DEF Idlers, Making
  <2>4. Unused(h)'
    BY <2>2, <2>3
  <2>5. \A i \in DOMAIN reuse : reuse[i] # h /\ Unused(reuse[i])
    BY <1>2, <1>3, <2>3 DEF Idlers
  <2>6. ASSUME NEW q \in Threads \ {p}, Making(q)
        PROVE  th[q].h # h /\ \A i \in DOMAIN reuse : reuse[i] # th[q].h
    BY <1>2, <1>3, <2>3, <2>6 DEF Idlers
  <2>7. ASSUME NEW i \in DOMAIN reuse'
        PROVE  reuse'[i] = h \/ (i \in DOMAIN reuse /\ reuse'[i] = reuse[i])
    BY <1>3, <1>5, <2>7, AppendProperties
  <2>8. ASSUME NEW i \in DOMAIN reuse' PROVE Unused(reuse[i])'
    <3>1. PICK g \in Handles : g = reuse'[i]
      BY <1>2, <2>2, <2>7
    <3>2. Unused(g)
      BY <2>3, <2>5, <2>7, <3>1
    <3>3. Unused(g)'
      BY <2>2, <3>2
    <3> QED
      BY <3>1, <3>3 DEF Unused, Within
  <2>9. ASSUME NEW i \in DOMAIN reuse', NEW j \in DOMAIN reuse', reuse'[i] = reuse'[j] PROVE i = j
    <3>1. CASE reuse' = reuse
      BY <1>3, <2>9, <3>1 DEF Idlers
    <3>2. CASE reuse' = Append(reuse, h)
      <4>1. /\ DOMAIN reuse = 1..Len(reuse) /\ Len(reuse) \in Nat /\ DOMAIN reuse' = 1..(Len(reuse) + 1)
            /\ \A k \in 1..Len(reuse) : reuse'[k] = reuse[k]
            /\ reuse'[Len(reuse) + 1] = h
        BY <1>2, <1>3, <3>2, AppendProperties, LenProperties
      <4>2. \A k \in 1..Len(reuse) : reuse'[k] # h
        BY <2>5, <4>1
      <4>3. \A k, m \in 1..Len(reuse) : reuse'[k] = reuse'[m] => k = m
        BY <1>3, <4>1 DEF Idlers
      <4> QED
        BY <2>9, <4>1, <4>2, <4>3
    <3> QED
      BY <1>5, <3>1, <3>2
  <2>10. ASSUME NEW q \in Threads, Making(q)'
         PROVE  /\ Unused(th[q].h)' /\ \A i \in DOMAIN reuse' : reuse'[i] # th'[q].h
                /\ \A s \in Threads : Making(s)' /\ th'[s].h = th'[q].h => s = q
    <3>1. q # p
      BY <2>1, <2>10
    <3>2. Making(q) /\ th'[q].h = th[q].h /\ Unused(th[q].h)'
      BY <2>2, <2>10, <3>1
    <3>3. \A i \in DOMAIN reuse' : reuse'[i] # th'[q].h
      BY <2>6, <2>7, <3>1, <3>2
    <3>4. \A s \in Threads : Making(s)' /\ th'[s].h = th'[q].h => s = q
      BY <1>3, <2>1, <2>2, <3>2 DEF Idlers
    <3> QED
      BY <3>2, <3>3, <3>4
  <2> QED
    BY <1>1, <1>3, <1>4, <2>8, <2>9, <2>10 DEF Idlers
<1>13. Bodies'
  <2>1. /\ \A g \in Handles : hs'[g].obj \in {hs[g].obj, Null}
        /\ \A q \in Threads \ {p} : th[q].pc = "dwait" => hs'[th[q].h].obj = hs[th[q].h].obj
    BY <1>4, TypesAre DEF WithHandle
  <2>2. /\ pc \notin {"select", "cwait", "dwait", "none", "new", "pop", "append", "link", "publish"}
        /\ th[p].fn = "udp" => pc # "done"
        /\ p \in Recv => (th[p].fn = "attr" /\ pc # "wait") \/ ~ Tcp(p)
    BY <1>1, <1>5 DEF Role, Tcp
  <2>3. UNCHANGED ob
    BY <1>1
  <2> QED
    BY <1>6, <1>8, <2>1, <2>2, <2>3, BodiesGoOn
<1> QED
  BY <1>8, <1>10, <1>11, <1>12, <1>13 DEF IInv

(* Thread p comes to have handle h in the making. *)
LEMMA TakesHandle ==
  ASSUME IInv, NEW p \in Threads, NEW h \in Handles,
         \A q \in Threads \ {p} : th'[q] = th[q], th'[p].pc = "append", th'[p].h = h,
         \A g \in Handles : hs'[g].alive => hs[g].alive,
         used \subseteq used',
         \A i \in DOMAIN reuse' : i \in DOMAIN reuse /\ reuse'[i] = reuse[i] /\ reuse[i] # h,
         Unused(h),
         \A q \in Threads \ {p} : Making(q) => th[q].h # h
  PROVE  Idlers'
<1>1. Idlers
  BY DEF IInv
<1>2. /\ \A g \in Handles : Unused(g) => Unused(g)'
      /\ \A i \in DOMAIN reuse : reuse[i] \in used /\ reuse[i] \in Handles
      /\ \A q \in Threads \ {p} : Making(q)' =>
           Making(q) /\ th'[q].h = th[q].h /\ th[q].h \in Handles /\ Unused(th[q].h)'
  BY OthersIdle DEF Behind
<1>3. Unused(h)'
  BY <1>2
<1>4. Unused(th[p].h)'
  BY <1>3 DEF Unused, Within
<1>5. ASSUME NEW i \in DOMAIN reuse' PROVE Unused(reuse[i])'
  <2>1. PICK g \in Handles : g = reuse'[i] /\ g = reuse[i]
    BY <1>2
  <2>2. Unused(g)'
    BY <1>1, <1>2, <2>1 DEF Idlers
  <2> QED
    BY <2>1, <2>2 DEF Unused, Within
<1>6. ASSUME NEW q \in Threads, Making(q)'
      PROVE  /\ Unused(th[q].h)' /\ \A i \in DOMAIN reuse' : reuse'[i] # th'[q].h
             /\ \A s \in Threads : Making(s)' /\ th'[s].h = th'[q].h => s = q
  <2>1. CASE q = p
    BY <1>2, <1>4, <2>1
  <2>2. CASE q # p
    BY <1>1, <1>2, <1>6, <2>2 DEF Idlers
  <2> QED
    BY <2>1, <2>2
<1>7. \A i, j \in DOMAIN reuse' : reuse'[i] = reuse'[j] => i = j
  BY <1>1 DEF Idlers
<1>8. \A g \in Handles \ used' : ~ hs'[g].alive
  BY <1>1 DEF Idlers
<1> QED
  BY <1>5, <1>6, <1>7, <1>8 DEF Idlers

LEMMA NewTestKeeps ==
  ASSUME IInv, NEW p \in Threads, NewTest(p), UNCHANGED cvars
  PROVE  IInv'
<1>1. /\ th[p].pc = "new" /\ UNCHANGED <<hs, head, reuse, lk, db, ob, open, events, calls>> /\ Role(p)
  BY TypesAre DEF NewTest, At, cvars
<1>2. p \notin Recv /\ th \in [Threads -> Local] /\ th[p] \in Local
  BY <1>1, TypesAre DEF Role
<1>3. CASE Go(p, "pop") /\ UNCHANGED used
  <2>1. Becomes(p, "pop", th[p].fn, th[p].h, th[p].o, th[p].want)
    BY <1>2, <1>3, GoIs DEF Pcs
  <2>2. Role(p)'
    BY <1>1, <1>2, <1>3, <2>1 DEF Role, Becomes, WithHandle, Asking
  <2>3. th[p].pc \notin Behind \cup Apart /\ "pop" \in Pcs \ (Behind \cup {"none"})
    BY <1>1 DEF Pcs, Behind, Apart
  <2>4. /\ head' \in used \cup {Null} /\ db' \in Threads \cup {Null} /\ hs' \in [Handles -> HandleState]
        /\ \A g \in Handles : hs'[g].obj = hs[g].obj /\ (hs'[g].alive => hs[g].alive)
        /\ UNCHANGED <<lk, ob, used, reuse, open, events, calls>>
    BY <1>1, <1>3, TypesAre
  <2> QED
    BY <1>1, <1>2, <2>1, <2>2, <2>3, <2>4, GoesOn
<1>4. CASE ~ (Go(p, "pop") /\ UNCHANGED used)
  <2>1. PICK h \in Handles \ used :
          used' = used \cup {h} /\ th' = [th EXCEPT ![p].pc = "append", ![p].h = h]
    <3> DEFINE h == Fresh(Handles \ used)
    <3>1. used' = used \cup {h} /\ th' = [th EXCEPT ![p].pc = "append", ![p].h = h] /\ Handles # used
      BY <1>4 DEF NewTest
    <3>2. Handles \ used # {}
      BY <3>1, TypesAre
    <3>3. h \in Handles \ used
      BY <3>2 DEF Fresh
    <3> QED
      BY <3>1, <3>3
  <2>2. Becomes(p, "append", th[p].fn, h, th[p].o, th[p].want)
    <3> DEFINE x == [th[p] EXCEPT !.pc = "append", !.h = h]
    <3>1. th' = [th EXCEPT ![p] = x]
      BY <1>2, <2>1
    <3>2. "append" \in Pcs
      BY DEF Pcs
    <3>3. /\ x \in Local /\ x.pc = "append" /\ x.h = h
          /\ x.fn = th[p].fn /\ x.o = th[p].o /\ x.want = th[p].want
      BY <1>2, <3>2 DEF Local
    <3> HIDE DEF x
    <3>4. Becomes(p, x.pc, x.fn, x.h, x.o, x.want)
      BY <1>2, <3>1, <3>3, Entry
    <3> QED
      BY <3>3, <3>4
  <2>3. /\ \A q \in Threads \ {p} : th'[q] = th[q]
        /\ th'[p].pc = "append" /\ th'[p].h = h /\ th'[p].fn = th[p].fn
    BY <2>2 DEF Becomes
  <2>4. Shape'
    <3>1. /\ used' \subseteq Handles /\ head \in used' \cup {Null} /\ reuse \in Seq(used') /\ events \subseteq used'
      BY <2>1, TypesAre, SeqMonotonic
    <3> QED
      BY <1>1, <2>2, <3>1 DEF IInv, Shape, TypeOK, Becomes
  <2>5. Roles'
    <3>1. Role(p)'
      BY <1>1, <1>2, <2>1, <2>3 DEF Role, WithHandle, Asking
    <3>2. ASSUME NEW q \in Threads \ {p} PROVE Role(q)'
      <4>1. Role(q) /\ th'[q] = th[q] /\ used \subseteq used'
        BY <2>1, <2>3, TypesAre
      <4> QED
        BY <4>1 DEF Role
    <3> QED
      BY <3>1, <3>2 DEF Roles
  <2>6. Locks'
    BY <1>1, <2>3, LocksStay DEF IInv, Behind, Apart
  <2>7. Idlers'
    <3>1. Unused(h)
      <4>1. \A q \in Threads : ~ Within(q, h)
        BY <2>1, TypesAre DEF Within, Role, WithHandle
      <4> QED
        BY <2>1, <4>1 DEF Unused, IInv, Idlers
    <3>2. \A q \in Threads \ {p} : Making(q) => th[q].h # h
      BY <2>1, TypesAre DEF Making, Role, WithHandle
    <3>3. \A i \in DOMAIN reuse' : i \in DOMAIN reuse /\ reuse'[i] = reuse[i] /\ reuse[i] # h
      BY <1>1, <2>1, TypesAre, LenProperties
    <3>4. (\A g \in Handles : hs'[g].alive => hs[g].alive) /\ used \subseteq used'
      BY <1>1, <2>1
    <3> QED
      BY <2>1, <2>3, <3>1, <3>2, <3>3, <3>4, TakesHandle
  <2>8. Bodies'
    <3>1. /\ \A g \in Handles : hs'[g].obj \in {hs[g].obj, Null}
          /\ \A q \in Threads \ {p} : th[q].pc = "dwait" => hs'[th[q].h].obj = hs[th[q].h].obj
          /\ UNCHANGED ob
      BY <1>1
    <3>2. Bearing(p)
      BY <1>1 DEF Bearing
    <3>3. /\ "append" \notin {"select", "cwait", "dwait", "none"}
          /\ "append" \in {"new", "pop", "append", "link", "publish"} => Bearing(p)
          /\ th[p].fn = "udp" => "append" # "done"
          /\ p \in Recv => h = th[p].h /\ ((th[p].fn = "attr" /\ "append" # "wait") \/ ~ Tcp(p))
      BY <1>2, <3>2
    <3> QED
      BY <2>2, <2>4, <3>1, <3>3, BodiesGoOn
  <2> QED
    BY <2>4, <2>5, <2>6, <2>7, <2>8 DEF IInv
<1> QED
  BY <1>3, <1>4

LEMMA NewPopKeeps ==
  ASSUME IInv, NEW p \in Threads, NewPop(p), UNCHANGED cvars
  PROVE  IInv'
<1>1. /\ th[p].pc = "pop" /\ UNCHANGED <<used, head, lk, db, ob, open, events, calls>> /\ Role(p)
  BY TypesAre DEF NewPop, At, cvars
<1>2. p \notin Recv /\ th \in [Threads -> Local] /\ th[p] \in Local /\ Idlers
  BY <1>1, TypesAre DEF Role, IInv
<1>3. CASE Go(p, "fault") /\ UNCHANGED <<hs, reuse>>
  <2>1. Becomes(p, "fault", th[p].fn, th[p].h, th[p].o, th[p].want)
    BY <1>2, <1>3, GoIs DEF Pcs
  <2>2. Role(p)'
    BY <1>1, <1>2, <1>3, <2>1 DEF Role, Becomes, WithHandle, Asking
  <2>3. th[p].pc \notin Behind \cup Apart /\ "fault" \in Pcs \ (Behind \cup {"none"})
    BY <1>1 DEF Pcs, Behind, Apart
  <2>4. /\ head' \in used \cup {Null} /\ db' \in Threads \cup {Null} /\ hs' \in [Handles -> HandleState]
        /\ \A g \in Handles : hs'[g].obj = hs[g].obj /\ (hs'[g].alive => hs[g].alive)
        /\ UNCHANGED <<lk, ob, used, reuse, open, events, calls>>
    BY <1>1, <1>3, TypesAre
  <2> QED
    BY <1>1, <1>2, <2>1, <2>2, <2>3, <2>4, GoesOn
<1>4. CASE ~ (Go(p, "fault") /\ UNCHANGED <<hs, reuse>>)
  <2> DEFINE n == Len(reuse)
  <2>1. /\ reuse # <<>> /\ reuse' = Front(reuse)
        /\ hs' = [hs EXCEPT ![Last(reuse)] = [Blank EXCEPT !.alive = hs[Last(reuse)].alive]]
        /\ th' = [th EXCEPT ![p].pc = "append", ![p].h = Last(reuse)]
    BY <1>4 DEF NewPop
  <2>2. /\ reuse \in Seq(used) /\ n \in Nat /\ n > 0 /\ DOMAIN reuse = 1..n
        /\ \A i \in 1..n : reuse[i] \in used /\ reuse[i] \in Handles
    BY <2>1, TypesAre, LenProperties, EmptySeq
  <2>3. PICK h \in used : h = Last(reuse) /\ h = reuse[n] /\ h \in Handles
    BY <2>2 DEF Last
  <2>4. /\ reuse' \in Seq(used) /\ DOMAIN reuse' = 1..(n - 1) /\ \A i \in 1..(n - 1) : reuse'[i] = reuse[i]
    <3>1. \A i \in 1..(n - 1) : reuse[i] \in used
      BY <2>2
    <3>2. /\ SubSeq(reuse, 1, n - 1) \in Seq(used) /\ Len(SubSeq(reuse, 1, n - 1)) = n - 1
          /\ \A i \in 1..(n - 1) : SubSeq(reuse, 1, n - 1)[i] = reuse[i]
      BY <2>2, <3>1, SubSeqProperties
    <3> QED
      BY <2>1, <2>2, <3>2, LenProperties DEF Front
  <2>5. Becomes(p, "append", th[p].fn, h, th[p].o, th[p].want)
    <3> DEFINE x == [th[p] EXCEPT !.pc = "append", !.h = h]
    <3>1. th' = [th EXCEPT ![p] = x]
      BY <1>2, <2>1, <2>3
    <3>2. "append" \in Pcs
      BY DEF Pcs
    <3>3. /\ x \in Local /\ x.pc = "append" /\ x.h = h
          /\ x.fn = th[p].fn /\ x.o = th[p].o /\ x.want = th[p].want
      BY <1>2, <2>3, <3>2 DEF Local
    <3> HIDE DEF x
    <3>4. Becomes(p, x.pc, x.fn, x.h, x.o, x.want)
      BY <1>2, <3>1, <3>3, Entry
    <3> QED
      BY <3>3, <3>4
  <2>6. /\ \A q \in Threads \ {p} : th'[q] = th[q]
        /\ th'[p].pc = "append" /\ th'[p].h = h /\ th'[p].fn = th[p].fn
    BY <2>5 DEF Becomes
  <2>7. /\ hs' \in [Handles -> HandleState] /\ hs'[h].obj = Null /\ hs'[h].alive = hs[h].alive
        /\ \A g \in Handles \ {h} : hs'[g] = hs[g]
    BY <2>1, <2>3, TypesAre DEF HandleState, Blank
  <2>8. Shape'
    BY <1>1, <2>4, <2>5, <2>7 DEF IInv, Shape, TypeOK, HandleState, Becomes
  <2>9. Roles'
    <3>1. Role(p)'
      BY <1>1, <1>2, <2>3, <2>6 DEF Role, WithHandle, Asking
    <3> QED
      BY <1>1, <2>6, <3>1 DEF IInv, Roles, Role
  <2>10. Locks'
    BY <1>1, <2>6, LocksStay DEF IInv, Behind, Apart
  <2>11. Unused(h)
    BY <1>2, <2>2, <2>3 DEF Idlers
  <2>12. Idlers'
    <3>1. \A q \in Threads \ {p} : Making(q) => th[q].h # h
      BY <1>2, <2>2, <2>3 DEF Idlers
    <3>2. \A i \in DOMAIN reuse' : i \in DOMAIN reuse /\ reuse'[i] = reuse[i] /\ reuse[i] # h
      BY <1>2, <2>2, <2>3, <2>4 DEF Idlers
    <3>3. (\A g \in Handles : hs'[g].alive => hs[g].alive) /\ used \subseteq used'
      BY <1>1, <2>7
    <3> QED
      BY <2>3, <2>6, <2>11, <3>1, <3>2, <3>3, TakesHandle
  <2>13. Bodies'
    <3>1. ASSUME NEW q \in Threads \ {p}, th[q].pc = "dwait" PROVE hs'[th[q].h].obj = hs[th[q].h].obj
      <4>1. th[q].h # h /\ th[q].h \in Handles
        BY <2>11, <3>1, TypesAre DEF Unused, Within, WithHandle
      <4> QED
        BY <2>7, <4>1
    <3>2. \A g \in Handles : hs'[g].obj \in {hs[g].obj, Null}
      BY <2>7
    <3>3. Bearing(p) /\ UNCHANGED ob
      BY <1>1 DEF Bearing
    <3>4. /\ "append" \notin {"select", "cwait", "dwait", "none"}
          /\ "append" \in {"new", "pop", "append", "link", "publish"} => Bearing(p)
          /\ th[p].fn = "udp" => "append" # "done"
          /\ p \in Recv => h = th[p].h /\ ((th[p].fn = "attr" /\ "append" # "wait") \/ ~ Tcp(p))
      BY <1>2, <3>3
    <3> QED
      BY <2>5, <2>8, <3>1, <3>2, <3>3, <3>4, BodiesGoOn
  <2> QED
    BY <2>8, <2>9, <2>10, <2>12, <2>13 DEF IInv
<1> QED
  BY <1>3, <1>4

LEMMA PublishKeeps ==
  ASSUME IInv, NEW p \in Threads, Publish(p), UNCHANGED cvars
  PROVE  IInv'
<1>1. /\ th[p].pc = "publish" /\ UNCHANGED <<used, head, reuse, lk, db, ob, open, events, calls>>
      /\ Role(p) /\ p \notin Recv
  BY TypesAre DEF Publish, At, cvars, Role
<1>2. PICK h \in Handles : h = th[p].h /\ h \in used
  BY <1>1, TypesAre DEF Role, WithHandle
<1>3. th \in [Threads -> Local] /\ Shape /\ Locks /\ Idlers /\ Bodies
  BY TypesAre DEF IInv
<1>4. PICK c \in Objs : c = th[p].o
  <2>1. th[p].o # Null /\ th[p] \in Local
    BY <1>1, <1>3 DEF Bodies, Bearing, Born
  <2> QED
    BY <2>1 DEF Local
<1>5. /\ ~ ob[c].freed /\ ob[c].thread = Null /\ ob[c].kind # "none" /\ c # Null
      /\ \A g \in Handles : hs[g].obj # c
      /\ \A q \in Threads \ {p} : th[q].o # c
  BY <1>1, <1>3, <1>4 DEF Bodies, Bearing, Born, Bound
<1>6. Becomes(p, "done", th[p].fn, h, c, th[p].want)
  BY <1>2, <1>3, <1>4, GoIs DEF Publish, Pcs
<1>7. /\ hs' \in [Handles -> HandleState] /\ hs'[h].obj = c
      /\ \A g \in Handles \ {h} : hs'[g] = hs[g]
  <2>1. hs' = [hs EXCEPT ![h] = [@ EXCEPT !.alive = TRUE, !.obj = c]]
    BY <1>2, <1>4 DEF Publish
  <2> DEFINE x == [hs[h] EXCEPT !.alive = TRUE, !.obj = c]
  <2>2. x \in HandleState /\ x.obj = c /\ hs' = [hs EXCEPT ![h] = x]
    BY <2>1, TypesAre DEF HandleState
  <2> HIDE DEF x
  <2> QED
    BY <2>2, TypesAre
<1>8. /\ \A q \in Threads \ {p} : th'[q] = th[q]
      /\ th'[p].pc = "done" /\ th'[p].h = h /\ th'[p].fn = th[p].fn /\ th'[p].o = c
  BY <1>6 DEF Becomes
<1>9. Shape'
  BY <1>1, <1>6, <1>7 DEF IInv, Shape, TypeOK, HandleState, Becomes
<1>10. Roles'
  <2>1. Role(p)'
    BY <1>1, <1>2, <1>8 DEF Role, WithHandle, Asking
  <2> QED
    BY <1>1, <1>8, <2>1 DEF IInv, Roles, Role
<1>11. Locks'
  BY <1>1, <1>3, <1>8, LocksStay DEF Behind, Apart
<1>12. Unused(h) /\ Making(p)
  BY <1>1, <1>2, <1>3 DEF Idlers, Making
<1>13. Idlers'
  <2>1. ASSUME NEW g \in Handles \ {h}, Unused(g) PROVE Unused(g)'
    BY <1>7, <1>8, <2>1 DEF Unused, Within
  <2>2. ASSUME NEW i \in DOMAIN reuse PROVE Unused(reuse[i])'
    <3>1. PICK g \in Handles : g = reuse[i]
      BY <2>2, TypesAre, LenProperties
    <3>2. g # h /\ Unused(g)
      BY <1>2, <1>3, <1>12, <2>2, <3>1 DEF Idlers
    <3>3. Unused(g)'
      BY <2>1, <3>2
    <3> QED
      BY <1>1, <3>1, <3>3 DEF Unused, Within
  <2>3. ASSUME NEW q \in Threads, Making(q)'
        PROVE  q # p /\ th'[q] = th[q] /\ Making(q) /\ Unused(th[q].h)'
    <3>1. q # p /\ th'[q] = th[q] /\ Making(q)
      BY <1>8, <2>3 DEF Making
    <3>2. PICK g \in Handles : g = th[q].h
      BY <3>1, TypesAre DEF Making, WithHandle
    <3>3. g # h /\ Unused(g)
      BY <1>2, <1>3, <1>12, <3>1, <3>2 DEF Idlers
    <3>4. Unused(g)'
      BY <2>1, <3>3
    <3> QED
      BY <3>1, <3>2, <3>4 DEF Unused, Within
  <2>4. \A g \in Handles \ used' : ~ hs'[g].alive
    BY <1>1, <1>2, <1>3, <1>7 DEF Idlers
  <2> QED
    BY <1>1, <1>3, <2>2, <2>3, <2>4 DEF Idlers, Unused, Within
<1>14. Bodies'
  <2>1. ASSUME NEW g \in Handles, hs'[g].obj # Null
        PROVE  /\ ob'[hs'[g].obj].kind # "none"
               /\ ob'[hs'[g].obj].kind = "tcp" => ~ ob'[hs'[g].obj].freed
               /\ \A k \in Handles : hs'[k].obj = hs'[g].obj => k = g
    <3>1. CASE g = h
      BY <1>1, <1>5, <1>7, <3>1
    <3>2. CASE g # h
      <4>1. hs'[g].obj = hs[g].obj /\ hs[g].obj # c
        BY <1>5, <1>7, <3>2
      <4> QED
        BY <1>1, <1>3, <1>7, <2>1, <3>2, <4>1 DEF Bodies
    <3> QED
      BY <3>1, <3>2
  <2>2. ASSUME NEW q \in Threads PROVE (Bearing(q)' => Born(q)') /\ Bound(q)'
    <3>1. CASE q = p
      BY <1>1, <1>3, <1>4, <1>5, <1>7, <1>8, <3>1 DEF Bodies, Bound, Bearing
    <3>2. CASE q # p
      <4>1. th'[q] = th[q] /\ th[q].o # c /\ Bound(q) /\ (Bearing(q) => Born(q))
        BY <1>3, <1>5, <1>8, <3>2 DEF Bodies
      <4>2. Bearing(q)' => Born(q)'
        BY <1>1, <1>4, <1>7, <1>8, <4>1 DEF Bearing, Born
      <4>3. th[q].pc = "dwait" => th[q].h # h /\ th[q].h \in Handles
        BY <1>12, TypesAre DEF Unused, Within, WithHandle
      <4>4. \A g \in Handles : hs'[g].obj = th[q].o => hs[g].obj = th[q].o
        BY <1>7, <4>1
      <4> QED
        BY <1>1, <1>7, <4>1, <4>2, <4>3, <4>4 DEF Bound
    <3> QED
      BY <3>1, <3>2
  <2>3. ASSUME NEW e \in Objs PROVE Received(e)'
    <3> DEFINE r == ob[e].thread
    <3>1. Received(e) /\ (r = Null \/ r \in Recv)
      BY <1>3 DEF Bodies, Shape, Client
    <3>2. r # Null => r # p /\ th'[r] = th[r] /\ e # c
      BY <1>1, <1>5, <1>8, <3>1, ClientAssumption
    <3>3. r # Null => \A g \in Handles : hs'[g].obj = e => hs[g].obj = e
      BY <1>7, <3>2
    <3> QED
      BY <1>1, <3>1, <3>2, <3>3 DEF Received
  <2> QED
    BY <2>1, <2>2, <2>3 DEF Bodies
<1> QED
  BY <1>9, <1>10, <1>11, <1>13, <1>14 DEF IInv

LEMMA CallNewKeeps ==
  ASSUME IInv, NEW p \in Threads, NEW kind \in {"tcp", "udp"}, CallNew(p, kind)
  PROVE  IInv'
<1>1. /\ th[p].pc = "idle" /\ UNCHANGED <<hs, used, head, reuse, lk, db, events>>
      /\ p \in App /\ calls' \in 0..MaxCalls
  BY TypesAre, ClientAssumption DEF CallNew, Call, At, hvars
<1>2. th \in [Threads -> Local] /\ Shape /\ Locks /\ Idlers /\ Bodies /\ p \notin Recv
  BY <1>1, TypesAre, ClientAssumption DEF IInv
<1>3. PICK c \in Objs, fd \in Socks :
        /\ ob[c].kind = "none" /\ ob' = [ob EXCEPT ![c].kind = kind, ![c].fd = fd]
        /\ open' = open \cup {fd}
        /\ th' = [th EXCEPT ![p] = [Start EXCEPT !.pc = "new", !.fn = kind, !.o = c]]
  <2>1. Fresh(NewObjs) \in NewObjs /\ Fresh(Socks \ open) \in Socks \ open
    BY DEF CallNew, Fresh
  <2> QED
    BY <2>1 DEF CallNew, NewObjs
<1>4. Becomes(p, "new", kind, Null, c, "r")
  <2> DEFINE x == [Start EXCEPT !.pc = "new", !.fn = kind, !.o = c]
  <2>1. /\ x \in Local /\ x.pc = "new" /\ x.fn = kind /\ x.h = Null /\ x.o = c /\ x.want = "r"
    <3>1. "new" \in Pcs /\ kind \in Fns
      BY DEF Pcs, Fns
    <3>2. Start \in Local /\ Start.h = Null /\ Start.want = "r"
      BY DEF Local, Start, Pcs, Fns
    <3> QED
      BY <3>1, <3>2 DEF Local
  <2>2. th' = [th EXCEPT ![p] = x]
    BY <1>3
  <2> HIDE DEF x
  <2>3. Becomes(p, x.pc, x.fn, x.h, x.o, x.want)
    BY <1>2, <2>1, <2>2, Entry
  <2> QED
    BY <2>1, <2>3
<1>5. /\ \A q \in Threads \ {p} : th'[q] = th[q]
      /\ th'[p].pc = "new" /\ th'[p].h = Null /\ th'[p].fn = kind /\ th'[p].o = c
  BY <1>4 DEF Becomes
<1>6. /\ ob' \in [Objs -> Client] /\ ob'[c].kind = kind /\ ob'[c].freed = ob[c].freed /\ ob'[c].thread = ob[c].thread
      /\ \A e \in Objs \ {c} : ob'[e] = ob[e]
  <2>1. ob' = [ob EXCEPT ![c] = [@ EXCEPT !.kind = kind, !.fd = fd]]
    BY <1>3
  <2> QED
    BY <2>1, TypesAre DEF Client
<1>7. /\ c # Null /\ ~ ob[c].freed /\ ob[c].thread = Null
      /\ \A g \in Handles : hs[g].obj # c
      /\ \A q \in Threads : th[q].o # c
  BY <1>2, <1>3, HandleAssumption DEF Bodies, Received, Bound
<1>8. Shape'
  <2>1. open' \subseteq Socks
    BY <1>3, TypesAre
  <2> QED
    BY <1>1, <1>4, <1>6, <2>1 DEF IInv, Shape, TypeOK, Becomes
<1>9. Roles'
  <2>1. Role(p)'
    BY <1>2, <1>5 DEF Role, WithHandle, Asking
  <2> QED
    BY <1>1, <1>5, <2>1 DEF IInv, Roles, Role
<1>10. Locks'
  BY <1>1, <1>2, <1>5, LocksStay DEF Behind, Apart
<1>11. Idlers'
  <2>1. /\ \A q \in Threads : Making(q)' => Making(q) /\ th'[q].h = th[q].h
        /\ \A q \in Threads : \A g \in Handles : Within(q, g)' => Within(q, g)
    BY <1>5 DEF Making, Within
  <2>2. /\ reuse \in Seq(Handles) /\ \A q \in Threads : Making(q) => th[q].h \in Handles
    BY TypesAre, SeqMonotonic DEF Making, WithHandle
  <2>3. UNCHANGED <<used, reuse>> /\ \A g \in Handles : hs'[g].alive => hs[g].alive
    BY <1>1
  <2> QED
    BY <1>2, <2>1, <2>2, <2>3, IdlersStay
<1>12. Bodies'
  <2>1. ASSUME NEW g \in Handles, hs'[g].obj # Null
        PROVE  /\ ob'[hs'[g].obj].kind # "none"
               /\ ob'[hs'[g].obj].kind = "tcp" => ~ ob'[hs'[g].obj].freed
               /\ \A k \in Handles : hs'[k].obj = hs'[g].obj => k = g
    <3>1. PICK e \in Objs : e = hs[g].obj /\ e = hs'[g].obj /\ e # c /\ e # Null
      BY <1>1, <1>7, <2>1, TypesAre DEF HandleState
    <3> QED
      BY <1>1, <1>2, <1>6, <3>1 DEF Bodies
  <2>2. ASSUME NEW q \in Threads PROVE (Bearing(q)' => Born(q)') /\ Bound(q)'
    <3>1. CASE q = p
      <4>1. Born(p)'
        BY <1>1, <1>5, <1>6, <1>7 DEF Born
      <4>2. Bound(p)'
        BY <1>5, <1>6, <1>7 DEF Bound
      <4> QED
        BY <3>1, <4>1, <4>2
    <3>2. CASE q # p
      <4>1. /\ th'[q] = th[q] /\ th[q].o # c /\ Bound(q) /\ (Bearing(q) => Born(q))
            /\ th[q].o \in Objs \cup {Null} /\ c # Null
        BY <1>2, <1>5, <1>7, <3>2, TypesAre DEF Bodies, Local
      <4>2. th[q].o # Null => ob'[th[q].o] = ob[th[q].o]
        BY <1>6, <4>1
      <4>3. Bearing(q)' => Born(q)'
        BY <1>1, <1>5, <4>1, <4>2 DEF Bearing, Born
      <4>4. Bound(q)'
        BY <1>1, <4>1, <4>2 DEF Bound
      <4> QED
        BY <4>3, <4>4
    <3> QED
      BY <3>1, <3>2
  <2>3. ASSUME NEW e \in Objs PROVE Received(e)'
    <3> DEFINE r == ob[e].thread
    <3>1. Received(e) /\ (r = Null \/ r \in Recv) /\ (e = c => r = Null)
      BY <1>2, <1>7 DEF Bodies, Shape, Client
    <3>2. r # Null => r # p /\ th'[r] = th[r] /\ e # c
      BY <1>2, <1>5, <3>1, ClientAssumption
    <3>3. CASE e = c
      BY <1>6, <1>7, <3>3 DEF Received
    <3>4. CASE e # c
      <4>1. ob'[e] = ob[e]
        BY <1>6, <3>4
      <4> QED
        BY <1>1, <3>1, <3>2, <4>1 DEF Received
    <3> QED
      BY <3>3, <3>4
  <2> QED
    BY <2>1, <2>2, <2>3 DEF Bodies
<1> QED
  BY <1>8, <1>9, <1>10, <1>11, <1>12 DEF IInv
----------------------------------------------------------------------------
(* Giving a lock back, and killing or starting a receiver. *)

Killed(q) ==
  /\ q \in Recv /\ th'[q].pc = "dead"
  /\ th'[q].fn = th[q].fn /\ th'[q].h = th[q].h /\ th'[q].o = th[q].o
  /\ th[q].fn = "attr" \/ \A g \in Handles : lk[g].r[q] = 0
Begun(q) == q \in Recv /\ th[q].pc = "none" /\ th'[q].pc \in {"find", "wait"} /\ Role(q)'

(* Nobody but p notices that it has given back the lock of h. *)
GivenBack(p, h) ==
  /\ lk' \in [Handles -> LockState] /\ \A g \in Handles \ {h} : lk'[g] = lk[g]
  /\ lk'[h].w = Null
  /\ \A q \in Threads \ {p} : lk'[h].r[q] = lk[h].r[q] /\ lk[h].w # q
  /\ p \in Recv => lk'[h].r[p] = 0

LEMMA ReleasedIs ==
  ASSUME IInv, NEW p \in Threads, NEW h \in Handles, Within(p, h),
         lk' = [lk EXCEPT ![h] = Released(@, p)]
  PROVE  GivenBack(p, h)
<1>1. lk \in [Handles -> LockState] /\ Locks /\ th[p] \in Local /\ HasLock(p, h) /\ p # Null
  BY TypesAre, HandleAssumption DEF IInv, Locks
<1>2. lk[h] \in LockState /\ lk[h].r \in [Threads -> Nat]
  BY <1>1 DEF LockState
<1>3. CASE th[p].want = "w"
  <2>1. lk[h].w = p /\ \A q \in Threads : lk[h].r[q] = 0
    BY <1>1, <1>3 DEF HasLock, Locks
  <2>2. lk' = [lk EXCEPT ![h] = [@ EXCEPT !.w = Null]]
    BY <2>1 DEF Released
  <2> QED
    BY <1>1, <1>2, <2>1, <2>2 DEF LockState, GivenBack
<1>4. CASE th[p].want # "w"
  <2>1. lk[h].r[p] > 0 /\ lk[h].w = Null
    BY <1>1, <1>2, <1>4 DEF HasLock, Locks
  <2> DEFINE r == [lk[h].r EXCEPT ![p] = @ - 1]
  <2>2. /\ r \in [Threads -> Nat] /\ r[p] = lk[h].r[p] - 1 /\ \A q \in Threads \ {p} : r[q] = lk[h].r[q]
    BY <1>2, <2>1
  <2>3. lk' = [lk EXCEPT ![h] = [@ EXCEPT !.r = r]]
    BY <1>1, <2>1 DEF Released
  <2> HIDE DEF r
  <2>4. /\ lk' \in [Handles -> LockState] /\ \A g \in Handles \ {h} : lk'[g] = lk[g]
        /\ lk'[h].w = Null /\ lk'[h].r = r
    BY <1>1, <1>2, <2>1, <2>2, <2>3 DEF LockState
  <2>5. \A q \in Threads : lk[h].w # q
    BY <2>1, HandleAssumption
  <2>6. p \in Recv => lk[h].r[p] = 1
    BY <1>1, <2>1 DEF Locks, Reads
  <2> QED
    BY <2>2, <2>4, <2>5, <2>6 DEF GivenBack
<1> QED
  BY <1>3, <1>4

LEMMA LeaveStep ==
  ASSUME IInv, NEW p \in Threads, NEW h \in Handles, Within(p, h),
         lk' = [lk EXCEPT ![h] = Released(@, p)], UNCHANGED <<used, reuse>>,
         \A g \in Handles : hs'[g].alive = hs[g].alive,
         th'[p].pc = "unref", th'[p].h = h, th'[p].fn = th[p].fn,
         \A q \in Threads \ {p} : th'[q] = th[q] \/ Killed(q) \/ Begun(q)
  PROVE  Roles' /\ Locks' /\ Idlers'
<1>1. /\ Roles /\ Locks /\ Idlers /\ lk \in [Handles -> LockState]
      /\ th[p].h = h /\ th[p].pc \in {"in", "select", "cwait", "dwait"}
  BY TypesAre DEF IInv, Within
<1>2. /\ lk' \in [Handles -> LockState] /\ \A g \in Handles \ {h} : lk'[g] = lk[g]
      /\ lk'[h].w = Null /\ \A q \in Threads \ {p} : lk'[h].r[q] = lk[h].r[q] /\ lk[h].w # q
      /\ p \in Recv => lk'[h].r[p] = 0
  <2>1. GivenBack(p, h)
    BY ReleasedIs
  <2> QED
    BY <2>1 DEF GivenBack
<1>3. Roles'
  <2>1. ASSUME NEW q \in Threads PROVE Role(q)'
    <3>0. Role(q)
      BY <1>1 DEF Roles
    <3>1. CASE q = p
      BY <1>1, <3>0, <3>1 DEF Role, WithHandle, Asking
    <3>2. CASE q # p /\ th'[q] = th[q]
      BY <3>0, <3>2 DEF Role
    <3>3. CASE q # p /\ Killed(q)
      BY <3>0, <3>3 DEF Role, Killed, WithHandle, Asking
    <3>4. CASE Begun(q)
      BY <3>4 DEF Begun
    <3> QED
      BY <3>1, <3>2, <3>3, <3>4
  <2> QED
    BY <2>1 DEF Roles
<1>4. Locks'
  <2>1. ASSUME NEW g \in Handles, NEW q \in Threads
        PROVE  /\ Within(q, g)' => HasLock(q, g)'
               /\ lk'[g].w = q => Writes(q, g)'
               /\ q \in Recv /\ lk'[g].r[q] # 0 => Reads(q, g)'
    <3>1. CASE q = p
      <4>1. ~ Within(p, g)'
        BY DEF Within
      <4>2. g # h => lk[g].w # p /\ (p \in Recv => lk[g].r[p] = 0)
        BY <1>1 DEF Locks, Writes, Reads
      <4>3. lk'[g].w # p /\ (p \in Recv => lk'[g].r[p] = 0)
        BY <1>2, <4>2, HandleAssumption
      <4> QED
        BY <3>1, <4>1, <4>3
    <3>2. CASE q # p
      <4>1. lk'[g].r[q] = lk[g].r[q] /\ (lk'[g].w = q => lk[g].w = q)
        BY <1>2, <3>2, HandleAssumption
      <4>2. Within(q, g) => IF th[q].want = "w" THEN lk[g].w = q ELSE lk[g].r[q] > 0
        BY <1>1 DEF Locks, HasLock
      <4>3. lk[g].w = q => lk'[g].w = q
        BY <1>2, <3>2
      <4>4. CASE th'[q] = th[q]
        BY <1>1, <4>1, <4>2, <4>3, <4>4 DEF Locks, Within, HasLock, Writes, Reads
      <4>5. CASE Killed(q)
        BY <1>1, <4>1, <4>5 DEF Locks, Within, Writes, Reads, Killed
      <4>6. CASE Begun(q)
        BY <1>1, <4>1, <4>6 DEF Locks, Within, Writes, Reads, Begun
      <4> QED
        BY <3>2, <4>4, <4>5, <4>6
    <3> QED
      BY <3>1, <3>2
  <2>2. \A g \in Handles : lk'[g].w # Null => \A q \in Threads : lk'[g].r[q] = 0
    BY <1>1, <1>2 DEF Locks
  <2> QED
    BY <2>1, <2>2, ClientAssumption DEF Locks
<1>5. Idlers'
  <2>1. ASSUME NEW q \in Threads PROVE Making(q)' => Making(q) /\ th'[q].h = th[q].h
    BY DEF Making, Killed, Begun
  <2>2. ASSUME NEW q \in Threads, NEW g \in Handles PROVE Within(q, g)' => Within(q, g)
    BY DEF Within, Killed, Begun
  <2>3. /\ reuse \in Seq(Handles) /\ \A q \in Threads : Making(q) => th[q].h \in Handles
    BY TypesAre, SeqMonotonic DEF Making, WithHandle
  <2> QED
    BY <1>1, <2>1, <2>2, <2>3, IdlersStay
<1> QED
  BY <1>3, <1>4, <1>5

(* What giving a lock back leaves in the thread's local variables. *)
LEMMA LeaveIs ==
  ASSUME IInv, NEW p \in Threads, NEW h \in Handles, Within(p, h),
         NEW t \in [Threads -> Local], Leave(p, t), t[p].h = h
  PROVE  /\ th' \in [Threads -> Local] /\ \A q \in Threads \ {p} : th'[q] = t[q]
         /\ th'[p].pc = "unref" /\ th'[p].fn = t[p].fn /\ th'[p].h = h
         /\ th'[p].o = t[p].o /\ th'[p].want = t[p].want
         /\ lk' = [lk EXCEPT ![h] = Released(@, p)]
<1> DEFINE x == [t[p] EXCEPT !.pc = "unref", !.live = hs[h].alive]
<1>1. th' = [t EXCEPT ![p] = x]
  BY DEF Leave
<1>2. hs[h].alive \in BOOLEAN /\ "unref" \in Pcs /\ t[p] \in Local
  BY TypesAre DEF HandleState, Pcs
<1>3. /\ x \in Local /\ x.pc = "unref" /\ x.fn = t[p].fn /\ x.h = t[p].h /\ x.o = t[p].o /\ x.want = t[p].want
  BY <1>2 DEF Local
<1> HIDE DEF x
<1> QED
  BY <1>1, <1>3 DEF Leave

(* Only p moves, and nothing but the lock changes. *)
LEMMA LeavesAlone ==
  ASSUME IInv, NEW p \in Threads, NEW h \in Handles, Within(p, h),
         NEW t \in [Threads -> Local], Leave(p, t),
         \A q \in Threads \ {p} : t[q] = th[q],
         t[p].h = h, t[p].fn = th[p].fn, t[p].want = th[p].want, t[p].o \in {th[p].o, hs[h].obj},
         UNCHANGED <<hs, used, head, reuse, db, cvars>>
  PROVE  IInv'
<1>1. /\ th' \in [Threads -> Local] /\ \A q \in Threads \ {p} : th'[q] = t[q]
      /\ th'[p].pc = "unref" /\ th'[p].fn = t[p].fn /\ th'[p].h = h
      /\ th'[p].o = t[p].o /\ th'[p].want = t[p].want
      /\ lk' = [lk EXCEPT ![h] = Released(@, p)]
  BY LeaveIs
<1>2. /\ UNCHANGED <<hs, used, head, reuse, db, ob, open, events, calls>>
      /\ th[p].h = h /\ th[p].pc \in {"in", "select", "cwait", "dwait"} /\ Role(p)
  BY TypesAre DEF cvars, Within
<1>3. Becomes(p, "unref", th[p].fn, h, t[p].o, th[p].want)
  BY <1>1 DEF Becomes
<1>4. Roles' /\ Locks' /\ Idlers'
  BY <1>1, <1>2, LeaveStep
<1>5. Shape'
  <2>1. lk' \in [Handles -> LockState]
    BY <1>1, ReleasedIs DEF GivenBack
  <2> QED
    BY <1>1, <1>2, <2>1 DEF IInv, Shape, TypeOK
<1>6. Bodies'
  <2>1. /\ \A g \in Handles : hs'[g].obj \in {hs[g].obj, Null}
        /\ \A q \in Threads \ {p} : th[q].pc = "dwait" => hs'[th[q].h].obj = hs[th[q].h].obj
        /\ UNCHANGED ob
    BY <1>2
  <2>2. th[p].fn # "udp" /\ (p \in Recv => th[p].fn = "attr" \/ ~ Tcp(p))
    BY <1>2 DEF Role, Tcp
  <2>3. /\ "unref" \notin {"select", "cwait", "dwait", "none"}
        /\ "unref" \in {"new", "pop", "append", "link", "publish"} => Bearing(p)
        /\ th[p].fn = "udp" => "unref" # "done"
        /\ p \in Recv => h = th[p].h /\ ((th[p].fn = "attr" /\ "unref" # "wait") \/ ~ Tcp(p))
    BY <1>2, <2>2
  <2>4. t[p].o = th[p].o \/ (th[p].fn # "udp" /\ \E g \in Handles : t[p].o = hs[g].obj)
    BY <2>2
  <2> QED
    BY <1>3, <1>5, <2>1, <2>2, <2>3, <2>4, BodiesGoOn
<1> QED
  BY <1>4, <1>5, <1>6 DEF IInv

LEMMA WrongKindKeeps ==
  ASSUME IInv, NEW p \in Threads, WrongKind(p) \/ NoObject(p)
  PROVE  IInv'
<1>1. th[p].pc = "in" /\ UNCHANGED <<hs, used, head, reuse, db, cvars>> /\ Role(p)
  BY TypesAre DEF WrongKind, NoObject, At, hvars
<1>2. PICK h \in Handles : h = th[p].h /\ h \in used
  BY <1>1, TypesAre DEF WithHandle, Role
<1>3. /\ th \in [Threads -> Local] /\ th[p] \in Local /\ Locks /\ Within(p, h)
      /\ UNCHANGED <<ob, open, events, calls>> /\ events' \subseteq used /\ calls' \in 0..MaxCalls
  BY <1>1, <1>2, TypesAre DEF IInv, Within, cvars
<1>4. CASE LeaveRefused(p)
  <2> DEFINE t == [th EXCEPT ![p] = [@ EXCEPT !.ok = FALSE]]
  <2>1. /\ t \in [Threads -> Local] /\ Leave(p, t) /\ \A q \in Threads \ {p} : t[q] = th[q]
        /\ t[p].h = h /\ t[p].fn = th[p].fn /\ t[p].want = th[p].want /\ t[p].o = th[p].o
    BY <1>2, <1>3, <1>4 DEF Local, LeaveRefused
  <2> HIDE DEF t
  <2> QED
    BY <1>1, <1>3, <2>1, LeavesAlone
<1>5. CASE th[p].fn = "send" /\ Idle(p) /\ UNCHANGED lk
  <2>1. Becomes(p, "idle", "none", Null, Null, "r") /\ p \notin Recv
    BY <1>1, <1>3, <1>5, IdleIs DEF Role
  <2>2. \A g \in Handles : lk[g].w # p
    <3>1. th[p].want # "w"
      BY <1>1, <1>5 DEF Role, Asking
    <3> QED
      BY <1>1, <1>3, <3>1 DEF Locks, Writes
  <2>3. Locks'
    BY <1>3, <1>5, <2>1, <2>2, ClientAssumption
    DEF Locks, Within, HasLock, Writes, Reads, Becomes
  <2>4. Role(p)' /\ UNCHANGED hvars
    BY <1>1, <1>5, <2>1 DEF Role, Becomes, WithHandle, Asking, hvars
  <2> QED
    BY <1>3, <2>1, <2>3, <2>4, MovesOn DEF Pcs, Behind
<1>6. CASE NoObject(p)
  <2>1. Go(p, "fault") /\ UNCHANGED hvars
    BY <1>6 DEF NoObject
  <2>2. Becomes(p, "fault", th[p].fn, h, th[p].o, th[p].want)
    BY <1>2, <1>3, <2>1, GoIs DEF Pcs
  <2>3. UNCHANGED lk
    BY <2>1 DEF hvars
  <2>4. Locks'
    <3>1. ASSUME NEW g \in Handles, NEW q \in Threads
          PROVE  /\ Within(q, g)' => HasLock(q, g)'
                 /\ lk'[g].w = q => Writes(q, g)'
                 /\ q \in Recv /\ lk'[g].r[q] # 0 => Reads(q, g)'
      <4>1. CASE q = p
        BY <1>1, <1>2, <1>3, <2>2, <2>3, <4>1 DEF Locks, Within, Writes, Reads, Becomes
      <4>2. CASE q # p
        BY <1>3, <2>2, <2>3, <4>2 DEF Locks, Within, HasLock, Writes, Reads, Becomes
      <4> QED
        BY <4>1, <4>2
    <3>2. \A g \in Handles : lk'[g].w # Null => \A q \in Threads : lk'[g].r[q] = 0
      BY <1>3, <2>3 DEF Locks
    <3> QED
      BY <3>1, <3>2, ClientAssumption DEF Locks
  <2>5. Role(p)' /\ th[p].fn # "udp" /\ (p \in Recv /\ Tcp(p) => Tcp(p)')
    BY <1>1, <1>2, <2>1, <2>2 DEF Role, Becomes, WithHandle, Asking, hvars, Tcp
  <2> QED
    BY <1>2, <1>3, <2>1, <2>2, <2>4, <2>5, MovesOn DEF Pcs, Behind
<1> QED
  BY <1>4, <1>5, <1>6 DEF WrongKind

(* Steps that only give the lock back. *)
LEMMA OnlyLeaves ==
  ASSUME IInv, NEW p \in Threads,
         \/ th[p].pc \in {"cwait", "dwait"} /\ Leave(p, th) /\ UNCHANGED <<hs, used, head, reuse, db, cvars>>
         \/ In(p, "disconnect") /\ LeaveRefused(p) /\ UNCHANGED <<hs, used, head, reuse, db, cvars>>
         \/ SendBegin(p) \/ UseUdp(p) \/ Attributes(p)
  PROVE  IInv'
<1>1. /\ th[p].pc \in {"in", "cwait", "dwait"} /\ UNCHANGED <<hs, used, head, reuse, db, cvars>> /\ Role(p)
  BY TypesAre DEF In, SendBegin, UseUdp, Attributes, At
<1>2. PICK h \in Handles : h = th[p].h /\ h \in used
  BY <1>1, TypesAre DEF WithHandle, Role
<1>3. /\ th \in [Threads -> Local] /\ th[p] \in Local /\ Within(p, h)
      /\ hs[h].obj \in Objs \cup {Null} /\ ob \in [Objs -> Client]
  BY <1>1, <1>2, TypesAre DEF Within, HandleState
<1>4. PICK t \in [Threads -> Local] :
        /\ Leave(p, t) /\ \A q \in Threads \ {p} : t[q] = th[q]
        /\ t[p].h = h /\ t[p].fn = th[p].fn /\ t[p].want = th[p].want
        /\ t[p].o \in {th[p].o, hs[h].obj}
  <2>1. CASE Leave(p, th) \/ UseUdp(p)
    BY <1>2, <1>3, <2>1 DEF UseUdp
  <2>2. CASE LeaveRefused(p)
    <3> DEFINE t == [th EXCEPT ![p] = [@ EXCEPT !.ok = FALSE]]
    <3>1. /\ t \in [Threads -> Local] /\ Leave(p, t) /\ \A q \in Threads \ {p} : t[q] = th[q]
          /\ t[p].h = h /\ t[p].fn = th[p].fn /\ t[p].want = th[p].want /\ t[p].o = th[p].o
      BY <1>2, <1>3, <2>2 DEF Local, LeaveRefused
    <3> HIDE DEF t
    <3> QED
      BY <3>1
  <2>3. CASE SendBegin(p)
    <3> DEFINE t == [th EXCEPT ![p] = [@ EXCEPT !.o = hs[h].obj]]
    <3>1. /\ t \in [Threads -> Local] /\ Leave(p, t) /\ \A q \in Threads \ {p} : t[q] = th[q]
          /\ t[p].h = h /\ t[p].fn = th[p].fn /\ t[p].want = th[p].want /\ t[p].o = hs[h].obj
      BY <1>2, <1>3, <2>3 DEF Local, SendBegin, Obj
    <3> HIDE DEF t
    <3> QED
      BY <3>1
  <2>4. CASE Attributes(p)
    <3>1. PICK c \in Objs : c = hs[h].obj
      BY <1>2, <1>3, <2>4 DEF Attributes, Right, Obj
    <3> DEFINE fd == IF th[p].fn = "uattr" THEN th[p].fd ELSE ob[c].fd
               t == [th EXCEPT ![p] = [@ EXCEPT !.o = c, !.fd = fd]]
    <3>2. fd \in Socks \cup {Null}
      BY <1>3, <3>1 DEF Local, Client
    <3>3. Leave(p, t)
      BY <1>2, <1>3, <2>4, <3>1 DEF Attributes, Obj
    <3> HIDE DEF fd
    <3>4. /\ t \in [Threads -> Local] /\ \A q \in Threads \ {p} : t[q] = th[q]
          /\ t[p].h = h /\ t[p].fn = th[p].fn /\ t[p].want = th[p].want /\ t[p].o = c
      BY <1>2, <1>3, <3>1, <3>2 DEF Local
    <3> HIDE DEF t
    <3> QED
      BY <3>1, <3>3, <3>4
  <2> QED
    BY <2>1, <2>2, <2>3, <2>4
<1> QED
  BY <1>1, <1>3, <1>4, LeavesAlone
----------------------------------------------------------------------------
(* Connecting and disconnecting. *)

(* Where p is behind the lock of h and the object is the handle's, nobody
   waits for the end of its receiver. *)
LEMMA NobodyDisconnects ==
  ASSUME IInv, NEW p \in Threads, NEW h \in Handles, Within(p, h), NEW q \in Threads \ {p},
         th[q].pc = "dwait"
  PROVE  /\ th[q].h # h
         /\ hs[h].obj # Null => th[q].o # hs[h].obj
<1>1. Role(q) /\ Bound(q) /\ th[q].h \in Handles
  BY TypesAre DEF IInv, Bodies, WithHandle
<1>2. th[q].h # h
  <2>1. SUFFICES ASSUME th[q].h = h PROVE FALSE
    OBVIOUS
  <2>2. Within(q, h) /\ th[q].want = "w"
    BY <1>1, <2>1 DEF Within, Role, Asking
  <2> QED
    BY <2>2, WriterAlone
<1>3. ASSUME hs[h].obj # Null, th[q].o = hs[h].obj PROVE FALSE
  <2>1. hs[th[q].h].obj = hs[h].obj
    BY <1>1, <1>3 DEF Bound
  <2>2. th[q].h = h
    BY <1>1, <1>3, <2>1 DEF IInv, Bodies
  <2> QED
    BY <1>2, <2>2
<1> QED
  BY <1>2, <1>3

LEMMA SocketStep ==
  ASSUME IInv, NEW p \in Threads, NEW h \in Handles, NEW pc \in {"select", "cwait", "dwait"},
         NEW c \in Objs, NEW fd \in Socks \cup {Null}, Within(p, h),
         Becomes(p, pc, th[p].fn, h, c, th[p].want),
         th[p].fn \in {"connect", "reconnect", "disconnect"}, pc = "dwait" <=> th[p].fn = "disconnect",
         ob' = [ob EXCEPT ![c].fd = fd], ob[c].kind = "tcp",
         c = th[p].o \/ c = hs[h].obj,
         fd = Null \/ \A q \in Threads \ {p} : th[q].pc = "dwait" => th[q].o # c,
         pc = "dwait" => hs[h].obj = c /\ fd = Null,
         open' \subseteq Socks, UNCHANGED <<hvars, events, calls>>
  PROVE  IInv'
<1>1. /\ UNCHANGED <<hs, used, head, reuse, lk, db, events, calls>> /\ Role(p) /\ p \notin Recv
      /\ Shape /\ Roles /\ Locks /\ Idlers /\ Bodies /\ c # Null
  BY TypesAre, HandleAssumption DEF IInv, hvars, Role
<1>2. /\ \A q \in Threads \ {p} : th'[q] = th[q]
      /\ th'[p].pc = pc /\ th'[p].fn = th[p].fn /\ th'[p].h = h /\ th'[p].o = c /\ th'[p].want = th[p].want
  BY DEF Becomes
<1>3. h \in used /\ (th[p].want = "w" <=> pc = "dwait") /\ th[p].pc # "none" /\ th[p].h = h
  BY <1>1 DEF Role, Within, WithHandle, Asking
<1>4. /\ ob' \in [Objs -> Client] /\ ob'[c].fd = fd
      /\ \A e \in Objs : ob'[e].kind = ob[e].kind /\ ob'[e].thread = ob[e].thread /\ ob'[e].freed = ob[e].freed
      /\ \A e \in Objs \ {c} : ob'[e].fd = ob[e].fd
  <2> DEFINE x == [ob[c] EXCEPT !.fd = fd]
  <2>1. x \in Client /\ x.fd = fd /\ x.kind = ob[c].kind /\ x.thread = ob[c].thread /\ x.freed = ob[c].freed
    BY TypesAre DEF Client
  <2>2. ob' = [ob EXCEPT ![c] = x]
    OBVIOUS
  <2> HIDE DEF x
  <2> QED
    BY <2>1, <2>2, TypesAre
<1>5. Shape'
  BY <1>1, <1>4 DEF Shape, TypeOK, Becomes
<1>6. Roles'
  <2>1. Role(p)'
    BY <1>1, <1>2, <1>3 DEF Role, WithHandle, Asking
  <2> QED
    BY <1>1, <1>2, <2>1 DEF Roles, Role
<1>7. Locks'
  <2>1. ASSUME NEW g \in Handles, NEW q \in Threads
        PROVE  /\ Within(q, g)' => HasLock(q, g)'
               /\ lk'[g].w = q => Writes(q, g)'
               /\ q \in Recv /\ lk'[g].r[q] # 0 => Reads(q, g)'
    <3>1. CASE q # p
      BY <1>1, <1>2, <3>1 DEF Locks, Within, HasLock, Writes, Reads
    <3>2. CASE q = p
      <4>1. Within(p, g)' => g = h /\ HasLock(p, g)'
        BY <1>1, <1>2, <1>3 DEF Locks, Within, HasLock
      <4>2. lk'[g].w = p => Writes(p, g)'
        BY <1>1, <1>2, <1>3 DEF Locks, Writes, Within
      <4> QED
        BY <1>1, <3>2, <4>1, <4>2
    <3> QED
      BY <3>1, <3>2
  <2>2. \A g \in Handles : lk'[g].w # Null => \A q \in Threads : lk'[g].r[q] = 0
    BY <1>1 DEF Locks
  <2> QED
    BY <2>1, <2>2, ClientAssumption DEF Locks
<1>8. Idlers'
  <2>1. /\ \A q \in Threads : Making(q)' => Making(q) /\ th'[q].h = th[q].h
        /\ \A q \in Threads : \A g \in Handles : Within(q, g)' => Within(q, g)
    BY <1>2, <1>3 DEF Making, Within
  <2>2. /\ reuse \in Seq(Handles) /\ \A q \in Threads : Making(q) => th[q].h \in Handles
    BY TypesAre, SeqMonotonic DEF Making, WithHandle
  <2>3. UNCHANGED <<used, reuse>> /\ \A g \in Handles : hs'[g].alive => hs[g].alive
    BY <1>1
  <2> QED
    BY <1>1, <2>1, <2>2, <2>3, IdlersStay
<1>9. Bodies'
  <2>1. ASSUME NEW q \in Threads, Bearing(q)'
        PROVE  /\ Bearing(q) /\ th'[q].fn = th[q].fn /\ th'[q].o = th[q].o
               /\ ob'[th[q].o].freed = ob[th[q].o].freed /\ ob'[th[q].o].thread = ob[th[q].o].thread
    <3>1. q # p /\ Bearing(q) /\ th'[q] = th[q]
      BY <1>2, <2>1 DEF Bearing
    <3>2. th[q].o \in Objs
      BY <1>1, <3>1, TypesAre DEF Bodies, Born, Local
    <3> QED
      BY <1>4, <3>1, <3>2
  <2>2. ASSUME NEW q \in Threads PROVE Bound(q)'
    <3>1. CASE q = p
      <4>1. pc = "dwait" => ~ ob[c].freed
        BY <1>1 DEF Bodies
      <4>2. ob'[c].kind = "tcp" /\ ob'[c].fd = fd /\ ob'[c].freed = ob[c].freed
        BY <1>4
      <4> QED
        BY <1>1, <1>2, <3>1, <4>1, <4>2 DEF Bound
    <3>2. CASE q # p
      <4>1. Bound(q) /\ th'[q] = th[q] /\ th[q].o \in Objs \cup {Null}
        BY <1>1, <1>2, <3>2, TypesAre DEF Bodies, Local
      <4>2. th[q].o # Null => /\ ob'[th[q].o].kind = ob[th[q].o].kind /\ ob'[th[q].o].freed = ob[th[q].o].freed
                              /\ th[q].pc = "dwait" /\ ob[th[q].o].fd = Null => ob'[th[q].o].fd = Null
        BY <1>4, <3>2, <4>1
      <4>3. th[q].pc = "dwait" => th[q].o # Null
        BY <4>1 DEF Bound
      <4> QED
        BY <1>1, <4>1, <4>2, <4>3 DEF Bound
    <3> QED
      BY <3>1, <3>2
  <2>3. ASSUME NEW e \in Objs PROVE Received(e)'
    <3> DEFINE r == ob[e].thread
    <3>1. Received(e) /\ (r = Null \/ r \in Recv)
      BY <1>1 DEF Bodies, Shape, Client
    <3>2. r # Null => th'[r] = th[r]
      BY <1>1, <1>2, <3>1, ClientAssumption
    <3> QED
      BY <1>1, <1>4, <3>1, <3>2 DEF Received
  <2>4. \A q \in Threads : \/ th'[q].o \in {Null, th[q].o}
                           \/ \E g \in Handles : th'[q].o = hs[g].obj
    BY <1>2
  <2>5. /\ \A g \in Handles : hs'[g].obj \in {hs[g].obj, Null}
        /\ \A e \in Objs : ob'[e].kind = ob[e].kind /\ (ob'[e].freed => ob[e].freed)
    BY <1>1, <1>4
  <2> QED
    BY <1>1, <1>5, <2>1, <2>2, <2>3, <2>4, <2>5, BodiesStay
<1> QED
  BY <1>5, <1>6, <1>7, <1>8, <1>9 DEF IInv

LEMMA ConnectSocketKeeps ==
  ASSUME IInv, NEW p \in Threads, ConnectSocket(p)
  PROVE  IInv'
<1>1. /\ th[p].pc = "in" /\ th[p].fn \in {"connect", "reconnect"} /\ Right(p)
      /\ UNCHANGED <<hvars, events, calls>>
      /\ th \in [Threads -> Local] /\ th[p] \in Local
  BY TypesAre DEF ConnectSocket, At
<1>2. PICK h \in Handles : h = th[p].h
  BY <1>1, TypesAre DEF WithHandle
<1>3. PICK c \in Objs : c = hs[h].obj /\ c = Obj(p) /\ c # Null /\ ob[c].kind = "tcp"
  <2>1. hs[h].obj \in Objs \cup {Null}
    BY TypesAre DEF HandleState
  <2>2. hs[h].obj # Null /\ ob[hs[h].obj].kind = "tcp"
    BY <1>1, <1>2 DEF Right, Mismatch, Obj, TcpCalls
  <2> QED
    BY <1>2, <2>1, <2>2 DEF Obj
<1>4. PICK fd \in Socks :
        /\ ob' = [ob EXCEPT ![c].fd = fd] /\ open' \subseteq Socks
        /\ th' = [th EXCEPT ![p].pc = "select", ![p].o = c]
  <2> DEFINE fd == IF ob[c].fd = Null THEN Fresh(Socks \ open) ELSE ob[c].fd
  <2>1. fd \in Socks
    <3>1. ob[c].fd \in Socks \cup {Null}
      BY TypesAre DEF Client
    <3>2. ob[c].fd = Null => Fresh(Socks \ open) \in Socks \ open
      BY <1>3 DEF ConnectSocket, Fresh
    <3> QED
      BY <3>1, <3>2
  <2>2. /\ ob' = [ob EXCEPT ![c].fd = fd]
        /\ open' = IF ob[c].fd = Null THEN open \cup {fd} ELSE open
        /\ th' = [th EXCEPT ![p].pc = "select", ![p].o = c]
    BY <1>3 DEF ConnectSocket
  <2> HIDE DEF fd
  <2>3. open' \subseteq Socks
    BY <2>1, <2>2, TypesAre
  <2> QED
    BY <2>1, <2>2, <2>3
<1>5. Becomes(p, "select", th[p].fn, h, c, th[p].want)
  <2> DEFINE x == [th[p] EXCEPT !.pc = "select", !.o = c]
  <2>1. th' = [th EXCEPT ![p] = x]
    BY <1>1, <1>4
  <2>2. "select" \in Pcs
    BY DEF Pcs
  <2>3. /\ x \in Local /\ x.pc = "select" /\ x.h = h /\ x.fn = th[p].fn /\ x.o = c /\ x.want = th[p].want
    BY <1>1, <1>2, <2>2 DEF Local
  <2> HIDE DEF x
  <2>4. Becomes(p, x.pc, x.fn, x.h, x.o, x.want)
    BY <1>1, <2>1, <2>3, Entry
  <2> QED
    BY <2>3, <2>4
<1>6. Within(p, h)
  BY <1>1, <1>2 DEF Within
<1>7. \A q \in Threads \ {p} : th[q].pc = "dwait" => th[q].o # c
  BY <1>3, <1>6, NobodyDisconnects
<1> QED
  BY <1>1, <1>3, <1>4, <1>5, <1>6, <1>7, SocketStep

LEMMA ConnectFailsKeeps ==
  ASSUME IInv, NEW p \in Threads, ConnectFails(p)
  PROVE  IInv'
<1>1. /\ th[p].pc = "select" /\ UNCHANGED <<hvars, events, calls>> /\ Role(p) /\ Bound(p)
      /\ th \in [Threads -> Local] /\ th[p] \in Local
  BY TypesAre DEF ConnectFails, At, IInv, Bodies
<1>2. PICK h \in Handles : h = th[p].h
  BY <1>1, TypesAre DEF WithHandle
<1>3. PICK c \in Objs : c = th[p].o /\ ob[c].kind = "tcp"
  BY <1>1 DEF Bound, Local
<1>4. ob' = [ob EXCEPT ![c].fd = Null] /\ open' \subseteq Socks
  BY <1>3, TypesAre DEF ConnectFails
<1>5. Becomes(p, "cwait", th[p].fn, h, c, th[p].want)
  <2> DEFINE x == [th[p] EXCEPT !.pc = "cwait", !.ok = FALSE]
  <2>1. th' = [th EXCEPT ![p] = x]
    BY <1>1 DEF ConnectFails
  <2>2. "cwait" \in Pcs
    BY DEF Pcs
  <2>3. /\ x \in Local /\ x.pc = "cwait" /\ x.h = h /\ x.fn = th[p].fn /\ x.o = c /\ x.want = th[p].want
    BY <1>1, <1>2, <1>3, <2>2 DEF Local
  <2> HIDE DEF x
  <2>4. Becomes(p, x.pc, x.fn, x.h, x.o, x.want)
    BY <1>1, <2>1, <2>3, Entry
  <2> QED
    BY <2>3, <2>4
<1>6. Within(p, h) /\ th[p].fn \in {"connect", "reconnect"}
  BY <1>1, <1>2 DEF Within, Role
<1> QED
  BY <1>1, <1>3, <1>4, <1>5, <1>6, SocketStep

LEMMA DisconnectKeeps ==
  ASSUME IInv, NEW p \in Threads, Disconnect(p)
  PROVE  IInv'
<1>1. /\ th[p].pc = "in" /\ th[p].fn = "disconnect" /\ Right(p)
      /\ UNCHANGED <<hs, used, head, reuse, db, events, calls>>
      /\ th \in [Threads -> Local] /\ th[p] \in Local
  BY TypesAre DEF Disconnect, In, At
<1>2. CASE LeaveRefused(p) /\ UNCHANGED <<open, ob>>
  BY <1>1, <1>2, OnlyLeaves DEF In, At, cvars
<1>3. CASE ~ (LeaveRefused(p) /\ UNCHANGED <<open, ob>>)
  <2>1. PICK h \in Handles : h = th[p].h
    BY <1>1, TypesAre DEF WithHandle
  <2>2. PICK c \in Objs : c = hs[h].obj /\ c = Obj(p) /\ c # Null /\ ob[c].kind = "tcp"
    <3>1. hs[h].obj \in Objs \cup {Null}
      BY TypesAre DEF HandleState
    <3>2. hs[h].obj # Null /\ ob[hs[h].obj].kind = "tcp"
      BY <1>1, <2>1 DEF Right, Mismatch, Obj, TcpCalls
    <3> QED
      BY <2>1, <3>1, <3>2 DEF Obj
  <2>3. /\ ob' = [ob EXCEPT ![c].fd = Null] /\ open' \subseteq Socks /\ UNCHANGED lk
        /\ th' = [th EXCEPT ![p].pc = "dwait", ![p].o = c]
    BY <1>3, <2>2, TypesAre DEF Disconnect
  <2>4. Becomes(p, "dwait", th[p].fn, h, c, th[p].want)
    <3> DEFINE x == [th[p] EXCEPT !.pc = "dwait", !.o = c]
    <3>1. th' = [th EXCEPT ![p] = x]
      BY <1>1, <2>3
    <3>2. "dwait" \in Pcs
      BY DEF Pcs
    <3>3. /\ x \in Local /\ x.pc = "dwait" /\ x.h = h /\ x.fn = th[p].fn /\ x.o = c /\ x.want = th[p].want
      BY <1>1, <2>1, <3>2 DEF Local
    <3> HIDE DEF x
    <3>4. Becomes(p, x.pc, x.fn, x.h, x.o, x.want)
      BY <1>1, <3>1, <3>3, Entry
    <3> QED
      BY <3>3, <3>4
  <2>5. Within(p, h) /\ UNCHANGED hvars
    BY <1>1, <2>1, <2>3 DEF Within, hvars
  <2> QED
    BY <1>1, <2>2, <2>3, <2>4, <2>5, SocketStep
<1> QED
  BY <1>2, <1>3
----------------------------------------------------------------------------
(* Taking an object away, and killing its receiver. *)

LEMMA TakesAway ==
  ASSUME IInv, NEW p \in Threads, NEW h \in Handles, Within(p, h),
         NEW t \in [Threads -> Local], Leave(p, t), t[p] = th[p],
         \A q \in Threads \ {p} :
           \/ t[q] = th[q]
           \/ /\ q \in Recv /\ t[q].pc = "dead"
              /\ t[q].fn = th[q].fn /\ t[q].h = th[q].h /\ t[q].o = th[q].o
              /\ th[q].fn = "attr" \/ \A g \in Handles : lk[g].r[q] = 0,
         \/ UNCHANGED <<hs, ob>>
         \/ /\ hs[h].obj # Null /\ hs' = [hs EXCEPT ![h].obj = Null]
            /\ ob' = [ob EXCEPT ![hs[h].obj].freed = TRUE],
         UNCHANGED <<used, head, reuse, events, calls>>, open' \subseteq Socks, db' \in Threads \cup {Null}
  PROVE  IInv'
<1>1. /\ th' \in [Threads -> Local] /\ \A q \in Threads \ {p} : th'[q] = t[q]
      /\ th'[p].pc = "unref" /\ th'[p].fn = th[p].fn /\ th'[p].h = h
      /\ th'[p].o = th[p].o /\ th'[p].want = th[p].want
      /\ lk' = [lk EXCEPT ![h] = Released(@, p)]
  <2>1. th[p].h = h
    BY DEF Within
  <2> QED
    BY <2>1, LeaveIs
<1>2. /\ Shape /\ Roles /\ Locks /\ Idlers /\ Bodies /\ Role(p)
      /\ th[p].h = h /\ th[p].pc \in {"in", "select", "cwait", "dwait"}
  BY TypesAre DEF IInv, Within
<1>3. \A q \in Threads \ {p} : th'[q] = th[q] \/ Killed(q)
  BY <1>1 DEF Killed
<1>4. PICK c \in Objs \cup {Null} : c = hs[h].obj
  BY TypesAre DEF HandleState
<1>5. /\ hs' \in [Handles -> HandleState] /\ ob' \in [Objs -> Client]
      /\ \A g \in Handles : hs'[g].alive = hs[g].alive /\ hs'[g].obj \in {hs[g].obj, Null}
      /\ \A g \in Handles \ {h} : hs'[g].obj = hs[g].obj
      /\ \A e \in Objs : ob'[e].kind = ob[e].kind /\ ob'[e].fd = ob[e].fd /\ ob'[e].thread = ob[e].thread
      /\ \A e \in Objs : ob'[e].freed = ob[e].freed \/ (e = c /\ hs'[h].obj = Null)
  <2>1. CASE UNCHANGED <<hs, ob>>
    BY <2>1, TypesAre
  <2>2. CASE /\ hs[h].obj # Null /\ hs' = [hs EXCEPT ![h].obj = Null]
             /\ ob' = [ob EXCEPT ![hs[h].obj].freed = TRUE]
    <3>1. c \in Objs
      BY <1>4, <2>2
    <3>2. /\ hs' \in [Handles -> HandleState] /\ hs'[h].obj = Null
          /\ \A g \in Handles : hs'[g].alive = hs[g].alive /\ hs'[g].obj \in {hs[g].obj, Null}
          /\ \A g \in Handles \ {h} : hs'[g].obj = hs[g].obj
      <4> DEFINE x == [hs[h] EXCEPT !.obj = Null]
      <4>1. x \in HandleState /\ x.obj = Null /\ x.alive = hs[h].alive
        BY TypesAre DEF HandleState
      <4>2. hs' = [hs EXCEPT ![h] = x]
        BY <2>2
      <4> HIDE DEF x
      <4> QED
        BY <4>1, <4>2, TypesAre
    <3>3. /\ ob' \in [Objs -> Client]
          /\ \A e \in Objs : ob'[e].kind = ob[e].kind /\ ob'[e].fd = ob[e].fd /\ ob'[e].thread = ob[e].thread
          /\ \A e \in Objs : ob'[e].freed = ob[e].freed \/ e = c
      <4> DEFINE x == [ob[c] EXCEPT !.freed = TRUE]
      <4>1. x \in Client /\ x.kind = ob[c].kind /\ x.fd = ob[c].fd /\ x.thread = ob[c].thread
        <5>1. ob[c] \in Client
          BY <3>1, TypesAre
        <5> QED
          BY <5>1 DEF Client
      <4>2. ob' = [ob EXCEPT ![c] = x]
        BY <1>4, <2>2
      <4> HIDE DEF x
      <4> QED
        BY <3>1, <4>1, <4>2, TypesAre
    <3> QED
      BY <3>2, <3>3
  <2> QED
    BY <2>1, <2>2
<1>6. Roles' /\ Locks' /\ Idlers'
  BY <1>1, <1>3, <1>5, LeaveStep
<1>7. Shape'
  <2>1. lk' \in [Handles -> LockState]
    BY <1>1, ReleasedIs DEF GivenBack
  <2> QED
    BY <1>1, <1>2, <1>5, <2>1 DEF Shape, TypeOK, HandleState
<1>8. Bodies'
  <2>1. ASSUME NEW q \in Threads, Bearing(q)'
        PROVE  /\ Bearing(q) /\ th'[q].fn = th[q].fn /\ th'[q].o = th[q].o
               /\ ob'[th[q].o].freed = ob[th[q].o].freed /\ ob'[th[q].o].thread = ob[th[q].o].thread
    <3>1. q # p /\ th'[q] = th[q] /\ Bearing(q)
      BY <1>1, <1>3, <2>1 DEF Bearing, Killed
    <3>2. th[q].o \in Objs /\ th[q].o # c
      BY <1>2, <1>4, <3>1, TypesAre DEF Bodies, Born, Local
    <3> QED
      BY <1>5, <3>1, <3>2
  <2>2. ASSUME NEW q \in Threads PROVE Bound(q)'
    <3>1. /\ Bound(q) /\ Role(q) /\ th'[q].o = th[q].o /\ th'[q].fn = th[q].fn
          /\ th[q].o \in Objs \cup {Null} /\ th'[q].h = th[q].h
      BY <1>1, <1>2, <1>3, TypesAre DEF Bodies, Local, Killed
    <3>2. th[q].o # Null => ob'[th[q].o].kind = ob[th[q].o].kind /\ ob'[th[q].o].fd = ob[th[q].o].fd
      BY <1>5, <3>1
    <3>3. CASE q = p \/ Killed(q)
      <4>1. th'[q].pc \in {"unref", "dead"}
        BY <1>1, <3>3 DEF Killed
      <4>2. th[q].fn = "udp" => FALSE
        <5>1. CASE q = p
          BY <1>2, <5>1 DEF Role
        <5>2. CASE Killed(q)
          BY <3>1, <5>2 DEF Role, Killed
        <5> QED
          BY <3>3, <5>1, <5>2
      <4> QED
        BY <3>1, <3>2, <4>1, <4>2 DEF Bound
    <3>4. CASE q # p /\ th'[q] = th[q]
      <4>1. th[q].fn = "udp" /\ th[q].pc = "done" => \A g \in Handles : hs'[g].obj = th[q].o => g = th[q].h
        BY <1>5, <3>1, HandleAssumption DEF Bound
      <4>2. ASSUME th[q].pc = "dwait"
            PROVE  hs'[th[q].h].obj = th[q].o /\ ob'[th[q].o].fd = Null /\ ~ ob'[th[q].o].freed
        <5>1. th[q].h # h /\ (hs[h].obj # Null => th[q].o # hs[h].obj)
          BY <3>4, <4>2, NobodyDisconnects
        <5>2. /\ th[q].h \in Handles /\ th[q].o \in Objs /\ th[q].o # Null
              /\ hs[th[q].h].obj = th[q].o /\ ob[th[q].o].fd = Null /\ ~ ob[th[q].o].freed
          BY <3>1, <4>2, TypesAre DEF Bound, WithHandle
        <5>3. th[q].o # c
          BY <1>4, <5>1, <5>2
        <5> QED
          BY <1>5, <5>1, <5>2, <5>3
      <4> QED
        BY <3>1, <3>2, <3>4, <4>1, <4>2 DEF Bound
    <3> QED
      BY <1>3, <3>3, <3>4
  <2>3. ASSUME NEW e \in Objs PROVE Received(e)'
    <3>0. PICK r : r = ob[e].thread
      OBVIOUS
    <3>1. Received(e) /\ (r = Null \/ r \in Recv) /\ ob'[e].thread = r /\ ob'[e].kind = ob[e].kind
      BY <1>2, <1>5, <3>0 DEF Bodies, Shape, Client
    <3>2. r # Null => /\ th'[r].h = th[r].h /\ (Tcp(r) => Tcp(r)')
                      /\ th[r].pc # "none" => th'[r].pc # "none"
      <4>1. CASE r \in Recv /\ r # p /\ th'[r] = th[r]
        BY <4>1 DEF Tcp
      <4>2. CASE r \in Recv /\ r # p /\ Killed(r)
        BY <4>2 DEF Tcp, Killed
      <4>3. CASE r = p
        BY <1>1, <1>2, <4>3 DEF Tcp
      <4> QED
        BY <1>3, <3>1, <4>1, <4>2, <4>3, ClientAssumption
    <3>3. \A g \in Handles : hs'[g].obj = e => hs[g].obj = e
      BY <1>5, HandleAssumption
    <3>4. ob[e].kind = "none" => ~ ob'[e].freed
      <4>1. c # Null => ob[c].kind # "none"
        BY <1>2, <1>4 DEF Bodies
      <4>2. e # Null
        BY HandleAssumption
      <4> QED
        BY <1>5, <3>1, <4>1, <4>2 DEF Received
    <3> QED
      BY <3>0, <3>1, <3>2, <3>3, <3>4 DEF Received, Tcp
  <2>4. \A q \in Threads : th'[q].o \in {Null, th[q].o}
    BY <1>1, <1>3 DEF Killed
  <2>5. ASSUME NEW e \in Objs
        PROVE  /\ ob'[e].kind = ob[e].kind
               /\ ob'[e].freed /\ ob[e].kind = "tcp" => ob[e].freed \/ \A g \in Handles : hs'[g].obj # e
    <3>1. CASE ob'[e].freed = ob[e].freed
      BY <1>5, <3>1
    <3>2. CASE e = c /\ hs'[h].obj = Null
      <4>1. \A g \in Handles : hs[g].obj = c => g = h
        BY <1>2, <1>4, <3>2, HandleAssumption DEF Bodies
      <4> QED
        BY <1>5, <3>2, <4>1, HandleAssumption
    <3> QED
      BY <1>5, <3>1, <3>2
  <2> QED
    BY <1>2, <1>5, <1>7, <2>1, <2>2, <2>3, <2>4, <2>5, BodiesStay
<1> QED
  BY <1>6, <1>7, <1>8 DEF IInv

(* A receiver that is killed on the way. *)
LEMMA KillIs ==
  ASSUME th \in [Threads -> Local], NEW r \in Threads, NEW t, t = [th EXCEPT ![r].pc = "dead"]
  PROVE  /\ t \in [Threads -> Local] /\ \A q \in Threads \ {r} : t[q] = th[q]
         /\ t[r].pc = "dead" /\ t[r].fn = th[r].fn /\ t[r].h = th[r].h /\ t[r].o = th[r].o
<1> DEFINE x == [th[r] EXCEPT !.pc = "dead"]
<1>1. "dead" \in Pcs
  BY DEF Pcs
<1>2. /\ x \in Local /\ x.pc = "dead" /\ x.fn = th[r].fn /\ x.h = th[r].h /\ x.o = th[r].o
  BY <1>1 DEF Local
<1>3. t = [th EXCEPT ![r] = x]
  OBVIOUS
<1> HIDE DEF x
<1> QED
  BY <1>2, <1>3

LEMMA WaitEndKeeps ==
  ASSUME IInv, NEW p \in Threads, WaitEnds(p) \/ WaitTimesOut(p)
  PROVE  IInv'
<1>1. /\ th[p].pc \in {"cwait", "dwait"} /\ UNCHANGED <<hs, used, head, reuse, ob, open, events, calls>>
      /\ Role(p) /\ Bound(p) /\ th \in [Threads -> Local] /\ th[p] \in Local
      /\ Locks /\ Bodies /\ lk \in [Handles -> LockState]
  BY TypesAre DEF WaitEnds, WaitTimesOut, IInv, Bodies, cvars
<1>2. CASE Leave(p, th) /\ UNCHANGED db
  BY <1>1, <1>2, OnlyLeaves DEF cvars
<1>3. CASE ~ (Leave(p, th) /\ UNCHANGED db)
  <2>1. PICK c \in Objs : c = th[p].o /\ ob[c].kind = "tcp"
    BY <1>1 DEF Bound, Local
  <2>2. PICK r : r = ob[c].thread
    OBVIOUS
  <2>3. /\ WaitTimesOut(p) /\ th[p].pc = "cwait" /\ ~ Gone(r)
        /\ db' \in KeptTable(r) /\ Leave(p, [th EXCEPT ![r].pc = "dead"])
    BY <1>3, <2>1, <2>2 DEF WaitEnds, WaitTimesOut, At
  <2>4. r \in Recv /\ th[r].pc \notin {"none", "ended", "dead"}
    BY <2>3 DEF Gone
  <2>5. PICK h \in Handles : h = th[p].h
    BY <1>1, TypesAre DEF WithHandle
  <2>6. Within(p, h) /\ r # p /\ r \in Threads /\ r # Null
    BY <1>1, <2>4, <2>5, ClientAssumption, HandleAssumption DEF Within, Role
  <2>7. PICK t : t = [th EXCEPT ![r].pc = "dead"]
    OBVIOUS
  <2>8. /\ t \in [Threads -> Local] /\ \A q \in Threads \ {r} : t[q] = th[q]
        /\ t[r].pc = "dead" /\ t[r].fn = th[r].fn /\ t[r].h = th[r].h /\ t[r].o = th[r].o
    BY <1>1, <2>6, <2>7, KillIs
  <2>9. th[r].fn = "attr" \/ \A g \in Handles : lk[g].r[r] = 0
    <3>1. th[r].fn = "attr" \/ th[r].pc = "recv"
      BY <1>1, <2>1, <2>2, <2>4, <2>6 DEF Bodies, Received
    <3> QED
      BY <1>1, <2>4, <3>1 DEF Locks, Reads
  <2>10. db' \in Threads \cup {Null}
    BY <2>3, <2>6, TypesAre DEF KeptTable
  <2>11. t[p] = th[p] /\ Leave(p, t) /\ open' \subseteq Socks
    BY <1>1, <2>3, <2>6, <2>7, <2>8, TypesAre
  <2>12. \A q \in Threads \ {p} :
           \/ t[q] = th[q]
           \/ /\ q \in Recv /\ t[q].pc = "dead"
              /\ t[q].fn = th[q].fn /\ t[q].h = th[q].h /\ t[q].o = th[q].o
              /\ th[q].fn = "attr" \/ \A g \in Handles : lk[g].r[q] = 0
    BY <2>4, <2>8, <2>9
  <2> QED
    BY <1>1, <2>6, <2>8, <2>10, <2>11, <2>12, TakesAway
<1> QED
  BY <1>2, <1>3

LEMMA DeleteObjectKeeps ==
  ASSUME IInv, NEW p \in Threads, DeleteClient(p) \/ DeleteUdp(p)
  PROVE  IInv'
<1>1. /\ th[p].pc = "in" /\ th[p].fn \in {"tdelete", "udelete"} /\ Right(p)
      /\ UNCHANGED <<used, head, reuse, events, calls>>
      /\ Role(p) /\ th \in [Threads -> Local] /\ th[p] \in Local
      /\ Locks /\ Bodies /\ lk \in [Handles -> LockState]
  BY TypesAre DEF DeleteClient, DeleteUdp, In, At, IInv
<1>2. PICK h \in Handles : h = th[p].h
  BY <1>1, TypesAre DEF WithHandle
<1>3. PICK c \in Objs : c = hs[h].obj /\ c = Obj(p) /\ c # Null
  <2>1. hs[h].obj \in Objs \cup {Null}
    BY TypesAre DEF HandleState
  <2> QED
    BY <1>1, <1>2, <2>1 DEF Right, Obj
<1>4. /\ hs' = [hs EXCEPT ![h].obj = Null] /\ ob' = [ob EXCEPT ![hs[h].obj].freed = TRUE]
      /\ open' \subseteq Socks
  BY <1>2, <1>3, TypesAre DEF DeleteClient, DeleteUdp
<1>5. Within(p, h)
  BY <1>1, <1>2 DEF Within
<1>6. CASE Leave(p, th) /\ UNCHANGED db
  <2>1. db' \in Threads \cup {Null}
    BY <1>6, TypesAre
  <2> QED
    BY <1>1, <1>3, <1>4, <1>5, <1>6, <2>1, TakesAway
<1>7. CASE ~ (Leave(p, th) /\ UNCHANGED db)
  <2>1. PICK r : r = ob[c].thread
    OBVIOUS
  <2>2. /\ DeleteUdp(p) /\ ~ Gone(r)
        /\ db' \in KeptTable(r) /\ Leave(p, [th EXCEPT ![r].pc = "dead"])
    BY <1>3, <1>7, <2>1 DEF DeleteUdp, DeleteClient
  <2>3. ob[c].kind = "udp" /\ th[p].want = "w"
    BY <1>1, <1>3, <2>2 DEF DeleteUdp, In, Right, Mismatch, TcpCalls, Role, Asking
  <2>4. r \in Recv /\ th[r].pc \notin {"none", "ended", "dead"}
    BY <2>2 DEF Gone
  <2>5. r # p /\ r \in Threads /\ r # Null
    BY <1>1, <2>4, ClientAssumption, HandleAssumption DEF Role
  <2>6. PICK t : t = [th EXCEPT ![r].pc = "dead"]
    OBVIOUS
  <2>7. /\ t \in [Threads -> Local] /\ \A q \in Threads \ {r} : t[q] = th[q]
        /\ t[r].pc = "dead" /\ t[r].fn = th[r].fn /\ t[r].h = th[r].h /\ t[r].o = th[r].o
    BY <1>1, <2>5, <2>6, KillIs
  <2>8. \A g \in Handles : lk[g].r[r] = 0
    <3>1. th[r].h = h
      BY <1>1, <1>3, <2>1, <2>3, <2>5 DEF Bodies, Received
    <3>2. lk[h].w = p
      BY <1>1, <1>5, <2>3 DEF Locks, HasLock
    <3>3. lk[h].r[r] = 0
      BY <1>1, <2>5, <3>2, HandleAssumption DEF Locks
    <3> QED
      BY <1>1, <2>4, <3>1, <3>3 DEF Locks, Reads
  <2>9. db' \in Threads \cup {Null}
    BY <2>2, <2>5, TypesAre DEF KeptTable
  <2>10. t[p] = th[p] /\ Leave(p, t)
    BY <2>2, <2>5, <2>6, <2>7
  <2>11. \A q \in Threads \ {p} :
           \/ t[q] = th[q]
           \/ /\ q \in Recv /\ t[q].pc = "dead"
              /\ t[q].fn = th[q].fn /\ t[q].h = th[q].h /\ t[q].o = th[q].o
              /\ th[q].fn = "attr" \/ \A g \in Handles : lk[g].r[q] = 0
    BY <2>4, <2>7, <2>8
  <2> QED
    BY <1>1, <1>3, <1>4, <1>5, <2>7, <2>9, <2>10, <2>11, TakesAway
<1> QED
  BY <1>6, <1>7
----------------------------------------------------------------------------
(* Starting a receiver. *)

LEMMA ReceiverIs ==
  ASSUME ob \in [Objs -> Client], NEW h \in Handles, NEW c \in Objs, NEW x, x = Receiver(h, c)
  PROVE  /\ x \in Local /\ x.h = h /\ x.o = Null /\ x.want = "r"
         /\ IF ob[c].kind = "tcp" THEN x.pc = "find" /\ x.fn = "attr" ELSE x.pc = "wait" /\ x.fn = "uattr"
<1>1. /\ Start \in Local /\ Start.o = Null /\ Start.want = "r"
  BY DEF Start, Local, Pcs, Fns
<1> DEFINE pc == IF ob[c].kind = "tcp" THEN "find" ELSE "wait"
           fn == IF ob[c].kind = "tcp" THEN "attr" ELSE "uattr"
<1>2. pc \in Pcs /\ fn \in Fns /\ ob[c].fd \in Socks \cup {Null}
  BY DEF Pcs, Fns, Client
<1>3. x = [Start EXCEPT !.h = h, !.fd = ob[c].fd, !.pc = pc, !.fn = fn]
  BY DEF Receiver
<1>4. IF ob[c].kind = "tcp" THEN pc = "find" /\ fn = "attr" ELSE pc = "wait" /\ fn = "uattr"
  OBVIOUS
<1> HIDE DEF pc, fn
<1>5. x \in Local /\ x.h = h /\ x.o = Null /\ x.want = "r" /\ x.pc = pc /\ x.fn = fn
  BY <1>1, <1>2, <1>3 DEF Local
<1> QED
  BY <1>4, <1>5

(* What p does when it starts thread r to receive for object c. *)
StartsReceiver(p, r, c, h) ==
  /\ th[r].pc = "none" /\ c = th[p].o /\ ob[c].kind \in {"tcp", "udp"} /\ p \notin Recv
  /\ UNCHANGED hs /\ ob' = [ob EXCEPT ![c].thread = r]
  /\ th'[r] = Receiver(h, c) /\ th'[p].pc \in {"unref", "idle"} /\ th'[p].fn # "udp"
  /\ th'[p].o \in {Null, c} /\ \A q \in Threads \ {p, r} : th'[q] = th[q]
  /\ ob[c].kind = "udp" => \A g \in Handles : hs[g].obj = c => g = h

LEMMA ReceiverStarts ==
  ASSUME IInv, Shape', NEW p \in Threads, NEW r \in Recv, NEW c \in Objs, NEW h \in Handles,
         StartsReceiver(p, r, c, h)
  PROVE  Bodies'
<1> USE DEF StartsReceiver
<1>1. Shape /\ Bodies /\ r \in Threads /\ r # p /\ r # Null /\ c # Null /\ ob \in [Objs -> Client]
  BY TypesAre, ClientAssumption, HandleAssumption DEF IInv
<1>2. /\ th'[r].h = h /\ th'[r].o = Null
      /\ IF ob[c].kind = "tcp" THEN th'[r].pc = "find" /\ th'[r].fn = "attr"
         ELSE th'[r].pc = "wait" /\ th'[r].fn = "uattr"
  BY <1>1, ReceiverIs
<1>3. /\ ob'[c].thread = r /\ \A e \in Objs \ {c} : ob'[e].thread = ob[e].thread
      /\ \A e \in Objs : ob'[e].kind = ob[e].kind /\ ob'[e].freed = ob[e].freed /\ ob'[e].fd = ob[e].fd
  BY <1>1 DEF Client
<1>4. ASSUME NEW q \in Threads, Bearing(q)'
      PROVE  /\ Bearing(q) /\ th'[q].fn = th[q].fn /\ th'[q].o = th[q].o
             /\ ob'[th[q].o].freed = ob[th[q].o].freed /\ ob'[th[q].o].thread = ob[th[q].o].thread
  <2>1. q # p /\ q # r /\ th'[q] = th[q] /\ Bearing(q)
    BY <1>2, <1>4 DEF Bearing
  <2>2. th[q].o \in Objs /\ th[q].o # c
    BY <1>1, <2>1, TypesAre DEF Bodies, Born, Local
  <2> QED
    BY <1>3, <2>1, <2>2
<1>5. ASSUME NEW q \in Threads PROVE Bound(q)'
  <2>1. CASE q = p
    BY <1>3, <2>1 DEF Bound
  <2>2. CASE q = r
    BY <1>2, <2>2 DEF Bound
  <2>3. CASE q # p /\ q # r
    <3>1. Bound(q) /\ th'[q] = th[q] /\ th[q].o \in Objs \cup {Null}
      BY <1>1, <2>3, TypesAre DEF Bodies, Local
    <3>2. th[q].o # Null => /\ ob'[th[q].o].kind = ob[th[q].o].kind /\ ob'[th[q].o].fd = ob[th[q].o].fd
                            /\ ob'[th[q].o].freed = ob[th[q].o].freed
      BY <1>3, <3>1
    <3>3. th[q].pc = "dwait" => th[q].o # Null
      BY <3>1 DEF Bound
    <3> QED
      BY <3>1, <3>2, <3>3 DEF Bound
  <2> QED
    BY <2>1, <2>2, <2>3
<1>6. ASSUME NEW e \in Objs PROVE Received(e)'
  <2>1. CASE e = c
    BY <1>2, <1>3, <2>1 DEF Received
  <2>2. CASE e # c
    <3>0. PICK s : s = ob[e].thread /\ s = ob'[e].thread
      BY <1>3, <2>2
    <3>1. Received(e) /\ (s = Null \/ s \in Recv)
      BY <1>1, <3>0 DEF Bodies, Shape, Client
    <3>2. s # Null => s # r /\ s # p /\ th'[s] = th[s]
      BY <1>1, <3>0, <3>1, ClientAssumption DEF Received
    <3> QED
      BY <1>3, <3>0, <3>1, <3>2 DEF Received
  <2> QED
    BY <2>1, <2>2
<1>7. \A q \in Threads : th'[q].o \in {Null, th[q].o}
  BY <1>2
<1>8. /\ \A g \in Handles : hs'[g].obj \in {hs[g].obj, Null}
      /\ \A e \in Objs : ob'[e].kind = ob[e].kind /\ (ob'[e].freed => ob[e].freed)
  BY <1>3
<1> QED
  BY <1>1, <1>4, <1>5, <1>6, <1>7, <1>8, BodiesStay

LEMMA ConnectedKeeps ==
  ASSUME IInv, NEW p \in Threads, Connected(p)
  PROVE  IInv'
<1>1. /\ th[p].pc = "select" /\ UNCHANGED <<hs, used, head, reuse, db, open, events, calls>>
      /\ Role(p) /\ Bound(p) /\ th \in [Threads -> Local] /\ th[p] \in Local /\ ob \in [Objs -> Client]
  BY TypesAre DEF Connected, At, IInv, Bodies
<1>2. PICK h \in Handles : h = th[p].h /\ h \in used
  BY <1>1, TypesAre DEF WithHandle, Role
<1>3. PICK c \in Objs : c = th[p].o /\ ob[c].kind = "tcp"
  BY <1>1 DEF Bound, Local
<1>4. PICK r \in Recv : /\ th[r].pc = "none" /\ ob' = [ob EXCEPT ![c].thread = r]
                        /\ Leave(p, [th EXCEPT ![r] = Receiver(h, c)])
  <2>1. Fresh(FreeThreads) \in FreeThreads
    BY DEF Connected, Fresh
  <2> QED
    BY <1>2, <1>3, <2>1 DEF Connected, FreeThreads
<1>5. PICK x, t : x = Receiver(h, c) /\ t = [th EXCEPT ![r] = x]
  OBVIOUS
<1>6. /\ x \in Local /\ x.h = h /\ x.o = Null /\ x.want = "r" /\ x.pc = "find" /\ x.fn = "attr"
  BY <1>1, <1>3, <1>5, ReceiverIs
<1>7. r \in Threads /\ r # p /\ p \notin Recv
  BY <1>1, ClientAssumption DEF Role
<1>8. t \in [Threads -> Local] /\ t[p] = th[p] /\ t[r] = x /\ \A q \in Threads \ {p, r} : t[q] = th[q]
  BY <1>1, <1>5, <1>6, <1>7
<1>9. Within(p, h)
  BY <1>1, <1>2 DEF Within
<1>10. /\ th' \in [Threads -> Local] /\ \A q \in Threads \ {p} : th'[q] = t[q]
       /\ th'[p].pc = "unref" /\ th'[p].fn = th[p].fn /\ th'[p].h = h /\ th'[p].o = c
       /\ lk' = [lk EXCEPT ![h] = Released(@, p)]
  <2>1. Leave(p, t) /\ t[p].h = h
    BY <1>2, <1>4, <1>5, <1>8
  <2> QED
    BY <1>3, <1>8, <1>9, <2>1, LeaveIs
<1>11. Begun(r)
  <2>1. th'[r] = x
    BY <1>7, <1>8, <1>10
  <2> QED
    BY <1>1, <1>2, <1>4, <1>6, <2>1 DEF Begun, Role, WithHandle, Asking
<1>12. Roles' /\ Locks' /\ Idlers'
  <2>1. \A q \in Threads \ {p} : th'[q] = th[q] \/ Killed(q) \/ Begun(q)
    BY <1>8, <1>10, <1>11
  <2> QED
    BY <1>1, <1>9, <1>10, <2>1, LeaveStep
<1>13. Shape'
  <2>1. lk' \in [Handles -> LockState]
    BY <1>9, <1>10, ReleasedIs DEF GivenBack
  <2>2. ob' \in [Objs -> Client]
    BY <1>1, <1>4 DEF Client
  <2> QED
    BY <1>1, <1>10, <2>1, <2>2 DEF IInv, Shape, TypeOK
<1>14. Bodies'
  <2>1. th'[r] = Receiver(h, c) /\ \A q \in Threads \ {p, r} : th'[q] = th[q]
    BY <1>5, <1>7, <1>8, <1>10
  <2>2. th'[p].fn # "udp" /\ th'[p].pc \in {"unref", "idle"} /\ th'[p].o \in {Null, c}
    BY <1>1, <1>10 DEF Role
  <2>3. UNCHANGED hs /\ p \in Threads \ Recv /\ ob[c].kind \in {"tcp", "udp"} /\ ob[c].kind # "udp"
    BY <1>1, <1>3, <1>7
  <2>4. /\ ob[c].kind = "udp" => \A g \in Handles : hs[g].obj = c => g = h
        /\ th[r].pc = "none" /\ c = th[p].o /\ ob' = [ob EXCEPT ![c].thread = r]
    BY <1>3, <1>4
  <2>5. StartsReceiver(p, r, c, h)
    BY <2>1, <2>2, <2>3, <2>4 DEF StartsReceiver
  <2> QED
    BY <1>13, <2>5, ReceiverStarts
<1> QED
  BY <1>12, <1>13, <1>14 DEF IInv

LEMMA ReceiverFailsKeeps ==
  ASSUME IInv, NEW p \in Threads, ReceiverFails(p)
  PROVE  IInv'
<1>1. /\ th[p].pc = "select" /\ UNCHANGED <<hs, used, head, reuse, db, open, events, calls>>
      /\ Role(p) /\ Bound(p) /\ th \in [Threads -> Local] /\ th[p] \in Local /\ ob \in [Objs -> Client]
      /\ p \notin Recv
  BY TypesAre DEF ReceiverFails, At, IInv, Bodies, Role
<1>2. PICK h \in Handles : h = th[p].h /\ h \in used
  BY <1>1, TypesAre DEF WithHandle, Role
<1>3. PICK c \in Objs : c = th[p].o /\ ob[c].kind = "tcp"
  BY <1>1 DEF Bound, Local
<1>4. ob' = [ob EXCEPT ![c].thread = Null] /\ LeaveRefused(p)
  BY <1>3 DEF ReceiverFails
<1>5. PICK t \in [Threads -> Local] :
        /\ Leave(p, t) /\ \A q \in Threads \ {p} : t[q] = th[q]
        /\ t[p].h = h /\ t[p].fn = th[p].fn /\ t[p].o = c
  <2> DEFINE t == [th EXCEPT ![p] = [@ EXCEPT !.ok = FALSE]]
  <2>1. /\ t \in [Threads -> Local] /\ Leave(p, t) /\ \A q \in Threads \ {p} : t[q] = th[q]
        /\ t[p].h = h /\ t[p].fn = th[p].fn /\ t[p].o = c
    BY <1>1, <1>2, <1>3, <1>4 DEF LeaveRefused, Local
  <2> QED
    BY <2>1
<1>6. Within(p, h)
  BY <1>1, <1>2 DEF Within
<1>7. /\ th' \in [Threads -> Local] /\ \A q \in Threads \ {p} : th'[q] = th[q]
      /\ th'[p].pc = "unref" /\ th'[p].fn = th[p].fn /\ th'[p].h = h /\ th'[p].o = c
      /\ lk' = [lk EXCEPT ![h] = Released(@, p)]
  BY <1>5, <1>6, LeaveIs
<1>8. Roles' /\ Locks' /\ Idlers'
  BY <1>1, <1>6, <1>7, LeaveStep
<1>9. /\ ob' \in [Objs -> Client] /\ ob'[c].thread = Null
      /\ \A e \in Objs : ob'[e].kind = ob[e].kind /\ ob'[e].fd = ob[e].fd /\ ob'[e].freed = ob[e].freed
      /\ \A e \in Objs \ {c} : ob'[e].thread = ob[e].thread
  <2> DEFINE x == [ob[c] EXCEPT !.thread = Null]
  <2>1. x \in Client /\ x.thread = Null /\ x.kind = ob[c].kind /\ x.fd = ob[c].fd /\ x.freed = ob[c].freed
    BY <1>1 DEF Client
  <2>2. ob' = [ob EXCEPT ![c] = x]
    BY <1>4
  <2> HIDE DEF x
  <2> QED
    BY <1>1, <2>1, <2>2
<1>10. Shape'
  <2>1. lk' \in [Handles -> LockState]
    BY <1>6, <1>7, ReleasedIs DEF GivenBack
  <2> QED
    BY <1>1, <1>7, <1>9, <2>1 DEF IInv, Shape, TypeOK
<1>11. ASSUME NEW q \in Threads, Bearing(q)'
       PROVE  /\ Bearing(q) /\ th'[q].fn = th[q].fn /\ th'[q].o = th[q].o
              /\ ob'[th[q].o].freed = ob[th[q].o].freed /\ ob'[th[q].o].thread = ob[th[q].o].thread
  <2>1. q # p /\ th'[q] = th[q] /\ Bearing(q)
    BY <1>7, <1>11 DEF Bearing
  <2>2. Born(q)
    BY <2>1 DEF IInv, Bodies
  <2>3. th[q].o # Null /\ th[q].o # c /\ th[q].o \in Objs \cup {Null}
    BY <1>1, <1>3, <2>1, <2>2 DEF Born, Local
  <2> QED
    BY <1>9, <2>1, <2>3
<1>12. ASSUME NEW q \in Threads PROVE Bound(q)'
  <2>1. Bound(q) /\ th[q].o \in Objs \cup {Null} /\ UNCHANGED hs
    BY <1>1 DEF IInv, Bodies, Local
  <2>2. CASE q # p
    <3>1. th'[q] = th[q]
      BY <1>7, <2>2
    <3>2. th[q].o # Null => /\ ob'[th[q].o].kind = ob[th[q].o].kind /\ ob'[th[q].o].fd = ob[th[q].o].fd
                            /\ ob'[th[q].o].freed = ob[th[q].o].freed
      BY <1>9, <2>1
    <3>3. th[q].pc = "dwait" => th[q].o # Null
      BY <2>1 DEF Bound
    <3> QED
      BY <2>1, <3>1, <3>2, <3>3 DEF Bound
  <2>3. CASE q = p
    BY <1>1, <1>3, <1>7, <1>9, <2>3 DEF Bound, Role
  <2> QED
    BY <2>2, <2>3
<1>13. ASSUME NEW e \in Objs PROVE Received(e)'
  <2>1. CASE e = c
    BY <1>3, <1>9, <2>1 DEF Received
  <2>2. CASE e # c
    <3>0. PICK s : s = ob[e].thread /\ s = ob'[e].thread
      BY <1>9, <2>2
    <3>1. Received(e) /\ (s = Null \/ s \in Recv)
      BY <1>1, <3>0 DEF IInv, Bodies, Client
    <3>2. s # Null => th'[s] = th[s]
      BY <1>1, <1>7, <3>1, ClientAssumption
    <3> QED
      BY <1>1, <1>9, <3>0, <3>1, <3>2 DEF Received
  <2> QED
    BY <2>1, <2>2
<1>14. Bodies'
  <2>1. Shape /\ Bodies
    BY DEF IInv
  <2>2. \A g \in Handles : hs'[g].obj \in {hs[g].obj, Null}
    BY <1>1
  <2>3. \A q \in Threads : th'[q].o \in {Null, th[q].o}
    BY <1>3, <1>7
  <2>4. \A e \in Objs : ob'[e].kind = ob[e].kind /\ (ob'[e].freed => ob[e].freed)
    BY <1>9
  <2> QED
    BY <1>10, <1>11, <1>12, <1>13, <2>1, <2>2, <2>3, <2>4, BodiesStay
<1> QED
  BY <1>8, <1>10, <1>14 DEF IInv

LEMMA NewUdpStartsKeeps ==
  ASSUME IInv, NEW p \in Threads, NewUdpStarts(p)
  PROVE  IInv'
<1>1. /\ th[p].pc = "done" /\ th[p].fn = "udp" /\ UNCHANGED <<hs, used, head, reuse, lk, db, open, events, calls>>
      /\ Role(p) /\ Bound(p) /\ th \in [Threads -> Local] /\ th[p] \in Local /\ ob \in [Objs -> Client]
      /\ Locks /\ Idlers
  BY TypesAre DEF NewUdpStarts, At, IInv, Bodies, hvars
<1>2. PICK h \in Handles : h = th[p].h /\ h \in used
  BY <1>1, TypesAre DEF WithHandle, Role
<1>3. PICK c \in Objs : /\ c = th[p].o /\ ob[c].kind = "udp"
                        /\ \A g \in Handles : hs[g].obj = c => g = h
  BY <1>1, <1>2 DEF Bound, Local
<1>4. PICK r \in Recv : /\ th[r].pc = "none" /\ ob' = [ob EXCEPT ![c].thread = r]
                        /\ th' = [th EXCEPT ![p] = Start, ![r] = Receiver(h, c)]
  <2>1. Fresh(FreeThreads) \in FreeThreads
    BY DEF NewUdpStarts, Fresh
  <2> QED
    BY <1>2, <1>3, <2>1 DEF NewUdpStarts, FreeThreads
<1>5. PICK x : x = Receiver(h, c)
  OBVIOUS
<1>6. /\ x \in Local /\ x.h = h /\ x.o = Null /\ x.want = "r" /\ x.pc = "wait" /\ x.fn = "uattr"
  BY <1>1, <1>3, <1>5, ReceiverIs
<1>7. r \in Threads /\ r # p /\ p \notin Recv
  BY <1>1, ClientAssumption DEF Role
<1>8. /\ Start \in Local /\ Start.pc = "idle" /\ Start.fn = "none" /\ Start.o = Null /\ Start.h = Null
  BY DEF Start, Local, Pcs, Fns
<1>9. /\ th' \in [Threads -> Local] /\ th'[p] = Start /\ th'[r] = x
      /\ \A q \in Threads \ {p, r} : th'[q] = th[q]
  BY <1>1, <1>4, <1>5, <1>6, <1>7, <1>8
<1>10. Shape'
  <2>1. ob' \in [Objs -> Client]
    BY <1>1, <1>4 DEF Client
  <2> QED
    BY <1>1, <1>9, <2>1 DEF IInv, Shape, TypeOK
<1>11. Roles'
  <2>1. Role(p)'
    BY <1>7, <1>8, <1>9 DEF Role, WithHandle, Asking
  <2>2. Role(r)'
    BY <1>1, <1>2, <1>6, <1>9 DEF Role, WithHandle, Asking
  <2>3. ASSUME NEW q \in Threads \ {p, r} PROVE Role(q)'
    <3>1. Role(q)
      BY TypesAre
    <3> QED
      BY <1>1, <1>9, <3>1 DEF Role
  <2> QED
    BY <2>1, <2>2, <2>3 DEF Roles
<1>12. Locks'
  <2>1. \A q \in Threads : \/ th'[q] = th[q]
                           \/ th[q].pc \notin Behind \cup Apart /\ th'[q].pc \notin Behind
    BY <1>1, <1>4, <1>6, <1>8, <1>9 DEF Behind, Apart
  <2> QED
    BY <1>1, <2>1, LocksStay
<1>13. Idlers'
  <2>1. /\ \A q \in Threads : Making(q)' => Making(q) /\ th'[q].h = th[q].h
        /\ \A q \in Threads : \A g \in Handles : Within(q, g)' => Within(q, g)
    BY <1>6, <1>8, <1>9 DEF Making, Within
  <2>2. /\ reuse \in Seq(Handles) /\ \A q \in Threads : Making(q) => th[q].h \in Handles
    BY TypesAre, SeqMonotonic DEF Making, WithHandle
  <2>3. UNCHANGED <<used, reuse>> /\ \A g \in Handles : hs'[g].alive => hs[g].alive
    BY <1>1
  <2> QED
    BY <1>1, <2>1, <2>2, <2>3, IdlersStay
<1>14. Bodies'
  <2>1. StartsReceiver(p, r, c, h)
    BY <1>1, <1>3, <1>4, <1>5, <1>7, <1>8, <1>9 DEF StartsReceiver
  <2> QED
    BY <1>10, <2>1, ReceiverStarts
<1> QED
  BY <1>10, <1>11, <1>12, <1>13, <1>14 DEF IInv

LEMMA NewUdpFailsKeeps ==
  ASSUME IInv, NEW p \in Threads, NewUdpFails(p)
  PROVE  IInv'
<1>1. /\ th[p].pc = "done" /\ th[p].fn = "udp" /\ UNCHANGED <<hs, used, head, reuse, lk, db, events, calls>>
      /\ Role(p) /\ Bound(p) /\ th \in [Threads -> Local] /\ th[p] \in Local /\ ob \in [Objs -> Client]
      /\ Locks /\ Idlers /\ Shape /\ Bodies /\ p \notin Recv
  BY TypesAre DEF NewUdpFails, At, IInv, Bodies, hvars, Role
<1>2. PICK h \in Handles : h = th[p].h /\ h \in used
  BY <1>1, TypesAre DEF WithHandle, Role
<1>3. PICK c \in Objs : c = th[p].o /\ ob[c].kind = "udp"
  BY <1>1 DEF Bound, Local
<1>4. /\ ob' \in [Objs -> Client]
      /\ \A e \in Objs : ob'[e].kind = ob[e].kind /\ ob'[e].thread = ob[e].thread /\ ob'[e].fd = ob[e].fd
      /\ \A e \in Objs \ {c} : ob'[e].freed = ob[e].freed
  <2> DEFINE x == [ob[c] EXCEPT !.freed = TRUE]
  <2>1. x \in Client /\ x.kind = ob[c].kind /\ x.thread = ob[c].thread /\ x.fd = ob[c].fd
    <3>1. ob[c] \in Client
      BY <1>1
    <3> QED
      BY <3>1 DEF Client
  <2>2. ob' = [ob EXCEPT ![c] = x]
    BY <1>3 DEF NewUdpFails
  <2> HIDE DEF x
  <2> QED
    BY <1>1, <2>1, <2>2
<1>5. Becomes(p, "del", "none", h, c, th[p].want)
  <2> DEFINE x == [th[p] EXCEPT !.pc = "del", !.fn = "none"]
  <2>1. th' = [th EXCEPT ![p] = x]
    BY <1>1 DEF NewUdpFails
  <2>2. "del" \in Pcs /\ "none" \in Fns
    BY DEF Pcs, Fns
  <2>3. /\ x \in Local /\ x.pc = "del" /\ x.h = h /\ x.fn = "none" /\ x.o = c /\ x.want = th[p].want
    BY <1>1, <1>2, <1>3, <2>2 DEF Local
  <2> HIDE DEF x
  <2>4. Becomes(p, x.pc, x.fn, x.h, x.o, x.want)
    BY <1>1, <2>1, <2>3, Entry
  <2> QED
    BY <2>3, <2>4
<1>6. /\ th' \in [Threads -> Local] /\ \A q \in Threads \ {p} : th'[q] = th[q]
      /\ th'[p].pc = "del" /\ th'[p].h = h /\ th'[p].fn = "none" /\ th'[p].o = c
  BY <1>5 DEF Becomes
<1>7. Shape'
  <2>1. open' \subseteq Socks
    BY TypesAre DEF NewUdpFails
  <2> QED
    BY <1>1, <1>4, <1>6, <2>1 DEF Shape, TypeOK
<1>8. Roles'
  <2>1. Role(p)'
    BY <1>1, <1>2, <1>6 DEF Role, WithHandle, Asking
  <2> QED
    BY <1>1, <1>6, <2>1 DEF IInv, Roles, Role
<1>9. Locks'
  BY <1>1, <1>6, LocksStay DEF Behind, Apart
<1>10. Idlers'
  <2>1. /\ \A q \in Threads : Making(q)' => Making(q) /\ th'[q].h = th[q].h
        /\ \A q \in Threads : \A g \in Handles : Within(q, g)' => Within(q, g)
    BY <1>6 DEF Making, Within
  <2>2. /\ reuse \in Seq(Handles) /\ \A q \in Threads : Making(q) => th[q].h \in Handles
    BY TypesAre, SeqMonotonic DEF Making, WithHandle
  <2>3. UNCHANGED <<used, reuse>> /\ \A g \in Handles : hs'[g].alive => hs[g].alive
    BY <1>1
  <2> QED
    BY <1>1, <2>1, <2>2, <2>3, IdlersStay
<1>11. Bodies'
  <2>1. ASSUME NEW q \in Threads, Bearing(q)'
        PROVE  /\ Bearing(q) /\ th'[q].fn = th[q].fn /\ th'[q].o = th[q].o
               /\ ob'[th[q].o].freed = ob[th[q].o].freed /\ ob'[th[q].o].thread = ob[th[q].o].thread
    <3>1. q # p /\ th'[q] = th[q] /\ Bearing(q)
      BY <1>6, <2>1 DEF Bearing
    <3>2. th[q].o \in Objs /\ th[q].o # c
      BY <1>1, <1>3, <3>1, TypesAre DEF Bodies, Born, Local
    <3> QED
      BY <1>4, <3>1, <3>2
  <2>2. ASSUME NEW q \in Threads PROVE Bound(q)'
    <3>1. CASE q = p
      BY <1>3, <1>4, <1>6, <3>1 DEF Bound
    <3>2. CASE q # p
      <4>1. Bound(q) /\ th'[q] = th[q] /\ th[q].o \in Objs \cup {Null}
        BY <1>1, <1>6, <3>2, TypesAre DEF Bodies, Local
      <4>2. th[q].o # Null => /\ ob'[th[q].o].kind = ob[th[q].o].kind /\ ob'[th[q].o].fd = ob[th[q].o].fd
                              /\ ob[th[q].o].kind = "tcp" => ob'[th[q].o].freed = ob[th[q].o].freed
        BY <1>3, <1>4, <4>1
      <4>3. th[q].pc = "dwait" => th[q].o # Null /\ ob[th[q].o].kind = "tcp"
        BY <4>1 DEF Bound
      <4> QED
        BY <1>1, <4>1, <4>2, <4>3 DEF Bound
    <3> QED
      BY <3>1, <3>2
  <2>3. ASSUME NEW e \in Objs PROVE Received(e)'
    <3>0. PICK r : r = ob[e].thread
      OBVIOUS
    <3>1. Received(e) /\ (r = Null \/ r \in Recv)
      BY <1>1, <3>0 DEF Bodies, Shape, Client
    <3>2. r # Null => th'[r] = th[r]
      BY <1>1, <1>6, <3>1, ClientAssumption
    <3>3. ob[e].kind = "none" => ob'[e].freed = ob[e].freed
      BY <1>3, <1>4
    <3> QED
      BY <1>1, <1>4, <3>0, <3>1, <3>2, <3>3 DEF Received
  <2>4. \A q \in Threads : th'[q].o \in {Null, th[q].o}
    BY <1>3, <1>6
  <2>5. /\ \A g \in Handles : hs'[g].obj \in {hs[g].obj, Null}
        /\ \A e \in Objs : /\ ob'[e].kind = ob[e].kind
                           /\ ob'[e].freed /\ ob[e].kind = "tcp" => ob[e].freed
    BY <1>1, <1>3, <1>4
  <2> QED
    BY <1>1, <1>7, <2>1, <2>2, <2>3, <2>4, <2>5, BodiesStay
<1> QED
  BY <1>7, <1>8, <1>9, <1>10, <1>11 DEF IInv
----------------------------------------------------------------------------
(* The theorems. *)

LEMMA InitHolds ==
  ASSUME Init
  PROVE  IInv
<1>1. /\ hs = [h \in Handles |-> Blank] /\ used = {} /\ head = Null /\ reuse = <<>> /\ db = Null
      /\ lk = [h \in Handles |-> [w |-> Null, r |-> [p \in Threads |-> 0]]]
      /\ ob = [o \in Objs |-> NoObj] /\ open = {} /\ events = {} /\ calls = 0
  BY DEF Init, HandleInit
<1>2. /\ th \in [Threads -> Local]
      /\ \A p \in Threads : /\ th[p].pc = (IF p \in Recv THEN "none" ELSE "idle") /\ th[p].fn = "none" /\ th[p].o = Null
                            /\ th[p].h = Null
  <2>1. /\ Start \in Local /\ Start.fn = "none" /\ Start.o = Null /\ Start.h = Null
        /\ {"none", "idle"} \subseteq Pcs
    BY DEF Start, Local, Pcs, Fns
  <2>2. \A p \in Threads : th[p] = [Start EXCEPT !.pc = IF p \in Recv THEN "none" ELSE "idle"]
    BY DEF Init
  <2>3. ASSUME NEW p \in Threads
        PROVE  /\ th[p] \in Local /\ th[p].pc = (IF p \in Recv THEN "none" ELSE "idle")
               /\ th[p].fn = "none" /\ th[p].o = Null /\ th[p].h = Null
    <3> DEFINE pc == IF p \in Recv THEN "none" ELSE "idle"
    <3>1. th[p] = [Start EXCEPT !.pc = pc] /\ pc \in Pcs
      BY <2>1, <2>2
    <3> HIDE DEF pc
    <3>2. /\ th[p] \in Local /\ th[p].pc = pc
          /\ th[p].fn = "none" /\ th[p].o = Null /\ th[p].h = Null
      BY <2>1, <3>1 DEF Local
    <3> QED
      BY <3>2 DEF pc
  <2>4. th = [p \in Threads |-> th[p]]
    BY DEF Init
  <2> QED
    BY <2>3, <2>4
<1>3. Shape
  <2>1. reuse \in Seq(used)
    BY <1>1, EmptySeq
  <2>2. /\ hs \in [Handles -> HandleState] /\ lk \in [Handles -> LockState] /\ ob \in [Objs -> Client]
    BY <1>1 DEF HandleState, LockState, Client, Blank, NoObj
  <2>3. TypeOK
    BY <1>1, <2>1, <2>2, ClientAssumption DEF TypeOK, HandleState
  <2> QED
    BY <1>2, <2>2, <2>3 DEF Shape
<1>4. Roles
  BY <1>2 DEF Roles, Role, WithHandle, Asking
<1>5. Locks
  <2>1. \A h \in Handles : lk[h].w = Null /\ \A p \in Threads : lk[h].r[p] = 0 /\ lk[h].w # p
    BY <1>1, HandleAssumption
  <2> QED
    BY <1>2, <2>1, ClientAssumption DEF Locks, Within
<1>6. Idlers
  BY <1>1, <1>2 DEF Idlers, Making, Unused, Blank
<1>7. Bodies
  BY <1>1, <1>2 DEF Bodies, Bearing, Bound, Received, Blank, NoObj
<1> QED
  BY <1>3, <1>4, <1>5, <1>6, <1>7 DEF IInv

LEMMA InvStep ==
  ASSUME IInv, [Next]_vars
  PROVE  IInv'
<1>1. CASE UNCHANGED vars
  BY <1>1 DEF vars, cvars, hvars, IInv, Shape, TypeOK, Roles, Role, Locks, Within, HasLock, Writes, Reads,
              Idlers, Making, Unused, Bodies, Bearing, Born, Bound, Received
<1>2. ASSUME NEW p \in Threads, CallAny(p) PROVE IInv'
  BY <1>2, CallNewKeeps, CallOnKeeps DEF CallAny
<1>3. ASSUME NEW p \in Threads, HandleStep(p), UNCHANGED cvars PROVE IInv'
  BY <1>3, FindKeeps, LockKeeps, LockDeadKeeps, UnrefKeeps, DeleteHandleKeeps, RecycleKeeps,
     NewTestKeeps, NewPopKeeps, AppendKeeps, PublishKeeps DEF HandleStep
<1>4. ASSUME NEW p \in Threads, Step(p) PROVE IInv'
  <2>1. CASE WrongKind(p) \/ NoObject(p)
    BY <2>1, WrongKindKeeps
  <2>2. CASE \/ ConnectSocket(p) \/ Connected(p) \/ ReceiverFails(p) \/ ConnectFails(p)
             \/ WaitEnds(p) \/ WaitTimesOut(p) \/ Disconnect(p)
    BY <2>2, ConnectSocketKeeps, ConnectedKeeps, ReceiverFailsKeeps, ConnectFailsKeeps,
       WaitEndKeeps, DisconnectKeeps
  <2>3. CASE DeleteClient(p) \/ DeleteUdp(p)
    BY <2>3, DeleteObjectKeeps
  <2>4. CASE SendBegin(p) \/ UseUdp(p) \/ Attributes(p)
    BY <2>4, OnlyLeaves
  <2>5. CASE SendOk(p) \/ SendFails(p) \/ UseBuffer(p) \/ Done(p)
    BY <2>5, SendKeeps, DoneKeeps
  <2>6. CASE RecvData(p) \/ RecvFails(p) \/ UdpData(p) \/ UdpQuiet(p)
    BY <2>6, RecvKeeps, WaitKeeps
  <2>7. CASE NewUdpStarts(p) \/ NewUdpDeaf(p) \/ NewUdpFails(p)
    BY <2>7, NewUdpStartsKeeps, NewUdpDeafKeeps, NewUdpFailsKeeps
  <2> QED
    BY <1>3, <1>4, <2>1, <2>2, <2>3, <2>4, <2>5, <2>6, <2>7 DEF Step
<1> QED
  BY <1>1, <1>2, <1>4, HandleEventKeeps DEF Next

(* Every thread is behind the locks it has taken and behind no other, a handle
   that is made or given back for use is nobody else's, and an object has one
   handle (enet_handle.c, tcp_client.c, udp_cs.c). *)
THEOREM ClientInvariant == Spec => []IInv
<1>1. Init => IInv
  BY InitHolds
<1>2. IInv /\ [Next]_vars => IInv'
  BY InvStep
<1> QED
  BY <1>1, <1>2, PTL DEF Spec

(* While enet_tcp_client_disconnect waits for the receiving thread, between
   closesocket and enet_handle_unlock, the client stays what it was and nobody
   else is behind the handle's lock. *)
THEOREM DisconnectOwnsClient == Spec => []WriterOwnsClient
<1>1. IInv => WriterOwnsClient
  <2> SUFFICES ASSUME IInv, NEW p \in App, At(p, "dwait")
      PROVE  /\ hs[th[p].h].obj = th[p].o /\ ob[th[p].o].fd = Null /\ ~ ob[th[p].o].freed
             /\ \A q \in Threads \ {p} : ~ Within(q, th[p].h)
    BY DEF WriterOwnsClient
  <2>1. p \in Threads /\ th[p].pc = "dwait"
    BY ClientAssumption DEF At
  <2>2. Bound(p) /\ Role(p)
    BY <2>1 DEF IInv, Bodies, Roles
  <2>3. PICK h \in Handles : h = th[p].h
    BY <2>1, TypesAre DEF WithHandle
  <2>4. Within(p, h) /\ th[p].want = "w"
    BY <2>1, <2>2, <2>3 DEF Within, Role, Asking
  <2>5. \A q \in Threads \ {p} : ~ Within(q, h)
    BY <2>1, <2>4, WriterAlone
  <2> QED
    BY <2>1, <2>2, <2>3, <2>5 DEF Bound
<1> QED
  BY <1>1, ClientInvariant, PTL

(* A handle in the reuse table of enet_handle.c is there once, is dead, and
   nobody is at work behind its lock; and all state keeps its type. *)
THEOREM ReuseTableIsSound == Spec => []ReusedIsUnused
<1>1. IInv => ReusedIsUnused
  BY DEF IInv, Shape, Idlers, Unused, ReusedIsUnused
<1> QED
  BY <1>1, ClientInvariant, PTL

(* The receiving thread of a UDP object, terminated by enet_delete_udp wherever
   it is, never dies with the lock of a handle held. *)
THEOREM KilledUdpReaderIsClean == Spec => []KilledReaderHoldsNoHandle
<1>1. IInv => KilledReaderHoldsNoHandle
  BY DEF IInv, Locks, Reads, KilledReaderHoldsNoHandle, At
<1> QED
  BY <1>1, ClientInvariant, PTL
=============================================================================
