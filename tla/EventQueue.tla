----------------------------- MODULE EventQueue -----------------------------
(***************************************************************************)
(* The event queue of event_engine.c (the ring of enet_event.c is the same *)
(* code): a fixed ring of Size slots behind a lock, any number of threads  *)
(* that post, one thread that pops and calls the dispatcher outside the    *)
(* lock, whose callback may post in turn.                                  *)
(*                                                                         *)
(* The two indexes have a twist: `tail' is the last slot written, not the  *)
(* next one, so it stays put when an event enters an empty ring, and       *)
(* `head' stays put when the last event leaves.  The ring comes from       *)
(* malloc; only the id of slot 0 is set before the threads run.            *)
(*                                                                         *)
(* The lock is lbs_rwlock taken for writing and never nested here: a plain *)
(* mutex (module RWLock).  Threads that do not initialise the engine call  *)
(* ee_init_event too, or wait for it, before they post: event_engine.h     *)
(* says "always call it before and other event engine functions".          *)
(* One thread at a time initialises: the test of __event_is_ready is not   *)
(* atomic and the code does not survive two.                               *)
(***************************************************************************)
EXTENDS Integers, Sequences

CONSTANTS Posters,   \* the application's threads
          Handler,   \* the thread that runs event_engine_handler
          Nobody,    \* no thread
          Events,    \* (object, param1, param2, id) of an event, id # 0
          NoEvent,   \* a slot with id 0
          Size       \* DEFAULT_EVENT_DB_SIZE

ASSUME ThreadsAssumption == Handler \notin Posters /\ Nobody \notin Posters \cup {Handler}
ASSUME EventsAssumption == NoEvent \notin Events
ASSUME SizeAssumption == Size \in Nat \ {0}

VARIABLES
  head, tail, count,  \* __event_head, __event_tail, __event_item_count
  slot,        \* __event_engine_db
  lock,        \* who is inside __event_engine_db_lock
  dispatcher,  \* __event_dispatcher is set
  ready,       \* __event_is_ready
  info,        \* the handler's local event_info
  arg,         \* what a thread is posting
  pc

vars == <<head, tail, count, slot, lock, dispatcher, ready, info, arg, pc>>

Threads == Posters \cup {Handler}
Index == 0..(Size - 1)

(* Posters: "new", the three steps of ee_init_event, and "idle".  The handler:
   "boot" before it is created, the steps of pop_event, and "dispatch" while
   the dispatcher runs.  Both: the steps of ee_post_event and its answers. *)
InitPCs == {"init_threads", "init_dispatcher", "init_ready"}
PopPCs  == {"pop_enter", "pop_test", "pop_advance"}
PostPCs == {"post_enter", "post_test", "post_write"}
Answers == {"ok", "full"}
PCs == {"new", "idle", "boot", "dispatch"} \cup InitPCs \cup PopPCs
         \cup PostPCs \cup Answers

TypeOK ==
  /\ head \in Index /\ tail \in Index /\ count \in 0..Size
  /\ slot \in [Index -> Events \cup {NoEvent}]
  /\ lock \in Threads \cup {Nobody}
  /\ dispatcher \in BOOLEAN /\ ready \in BOOLEAN
  /\ info \in Events \cup {NoEvent}
  /\ arg \in [Threads -> Events \cup {NoEvent}]
  /\ pc \in [Threads -> PCs]

(* The slots hold what malloc returned. *)
Init ==
  /\ head = 0 /\ tail = 0 /\ count = 0
  /\ slot \in [Index -> Events \cup {NoEvent}]
  /\ slot[0] = NoEvent
  /\ lock = Nobody
  /\ dispatcher = FALSE /\ ready = FALSE
  /\ info = NoEvent
  /\ arg = [t \in Threads |-> NoEvent]
  /\ pc = [t \in Threads |-> IF t = Handler THEN "boot" ELSE "new"]

Goto(t, from, to) == pc[t] = from /\ pc' = [pc EXCEPT ![t] = to]
Acquire(t) == lock = Nobody /\ lock' = t
Release(t) == lock = t /\ lock' = Nobody

(* The index after i, by comparison as in the code. *)
Wrap(i) == IF i < Size - 1 THEN i + 1 ELSE 0

ring == <<head, tail, count, slot>>
setup == <<dispatcher, ready>>
----------------------------------------------------------------------------
(* ee_init_event *)

Initialising == \E t \in Posters : pc[t] \in InitPCs

(* The lock, the ring and slot 0 are made (Init has their contents). *)
InitBegin(t) ==
  /\ Goto(t, "new", "init_threads")
  /\ ~ready /\ ~Initialising
  /\ UNCHANGED <<ring, setup, lock, info, arg>>

(* The handler starts to pop while __event_dispatcher is still 0. *)
InitThreads(t) ==
  /\ pc[t] = "init_threads"
  /\ pc' = [pc EXCEPT ![t] = "init_dispatcher", ![Handler] = "pop_enter"]
  /\ UNCHANGED <<ring, setup, lock, info, arg>>

(* A plausible fault: __event_is_ready is set first. *)
InitReadyFirst(t) ==
  /\ Goto(t, "init_dispatcher", "init_ready")
  /\ ready' = TRUE
  /\ UNCHANGED <<ring, dispatcher, lock, info, arg>>

InitDispatcher(t) ==
  /\ Goto(t, "init_dispatcher", "init_ready")
  /\ dispatcher' = TRUE
  /\ UNCHANGED <<ring, ready, lock, info, arg>>

InitReady(t) ==
  /\ Goto(t, "init_ready", "idle")
  /\ ready' = TRUE
  /\ UNCHANGED <<ring, dispatcher, lock, info, arg>>

(* Already initialised: LBS_CODE_OK at once. *)
InitAgain(t) ==
  /\ Goto(t, "new", "idle")
  /\ ready
  /\ UNCHANGED <<ring, setup, lock, info, arg>>

----------------------------------------------------------------------------
(* ee_post_event *)

(* A thread of the application posts, or the dispatcher's callback does. *)
CallPost(t, e) ==
  /\ pc[t] = (IF t = Handler THEN "dispatch" ELSE "idle")
  /\ pc' = [pc EXCEPT ![t] = "post_enter"]
  /\ arg' = [arg EXCEPT ![t] = e]
  /\ UNCHANGED <<ring, setup, lock, info>>

(* A plausible fault: the event is stored without the lock. *)
PostUnlocked(t) ==
  /\ Goto(t, "post_enter", "post_test")
  /\ lock' = IF lock = Nobody THEN t ELSE lock
  /\ UNCHANGED <<ring, setup, info, arg>>

PostEnter(t) ==
  /\ Goto(t, "post_enter", "post_test")
  /\ Acquire(t)
  /\ UNCHANGED <<ring, setup, info, arg>>

PostFull(t) ==
  /\ Goto(t, "post_test", "full")
  /\ count = Size
  /\ Release(t)
  /\ arg' = [arg EXCEPT ![t] = NoEvent]
  /\ UNCHANGED <<ring, setup, info>>

(* A plausible fault: the tail moves for the first event too. *)
PostAlwaysMoves(t) ==
  /\ Goto(t, "post_test", "post_write")
  /\ count # Size
  /\ tail' = Wrap(tail)
  /\ UNCHANGED <<head, count, slot, setup, lock, info, arg>>

PostMove(t) ==
  /\ Goto(t, "post_test", "post_write")
  /\ count # Size
  /\ tail' = IF count # 0 THEN Wrap(tail) ELSE tail
  /\ UNCHANGED <<head, count, slot, setup, lock, info, arg>>

PostWrite(t) ==
  /\ Goto(t, "post_write", "ok")
  /\ slot' = [slot EXCEPT ![tail] = arg[t]]
  /\ count' = count + 1
  /\ Release(t)
  /\ arg' = [arg EXCEPT ![t] = NoEvent]
  /\ UNCHANGED <<head, tail, setup, info>>

PostReturn(t) ==
  /\ pc[t] \in Answers
  /\ pc' = [pc EXCEPT ![t] = IF t = Handler THEN "dispatch" ELSE "idle"]
  /\ UNCHANGED <<ring, setup, lock, info, arg>>

----------------------------------------------------------------------------
(* pop_event and event_engine_handler *)

PopEnter ==
  /\ Goto(Handler, "pop_enter", "pop_test")
  /\ Acquire(Handler)
  /\ UNCHANGED <<ring, setup, info, arg>>

(* Unlock, spin or sleep, try again; __ee_is_terminated is never set. *)
PopEmpty ==
  /\ Goto(Handler, "pop_test", "pop_enter")
  /\ count = 0
  /\ Release(Handler)
  /\ UNCHANGED <<ring, setup, info, arg>>

PopCopy ==
  /\ Goto(Handler, "pop_test", "pop_advance")
  /\ count > 0
  /\ info' = slot[head]
  /\ slot' = [slot EXCEPT ![head] = NoEvent]
  /\ UNCHANGED <<head, tail, count, setup, lock, arg>>

(* A plausible fault: the lock is not given back. *)
PopKeepsLock ==
  /\ pc[Handler] = "pop_advance"
  /\ pc' = [pc EXCEPT ![Handler] = IF info = NoEvent THEN "pop_enter" ELSE "dispatch"]
  /\ head' = IF count > 1 THEN Wrap(head) ELSE head
  /\ count' = count - 1
  /\ UNCHANGED <<tail, slot, setup, lock, info, arg>>

(* The handler skips an event whose id is 0. *)
PopAdvance ==
  /\ pc[Handler] = "pop_advance"
  /\ pc' = [pc EXCEPT ![Handler] = IF info = NoEvent THEN "pop_enter" ELSE "dispatch"]
  /\ head' = IF count > 1 THEN Wrap(head) ELSE head
  /\ count' = count - 1
  /\ Release(Handler)
  /\ UNCHANGED <<tail, slot, setup, info, arg>>

(* __event_dispatcher returns. *)
DispatchDone ==
  /\ Goto(Handler, "dispatch", "pop_enter")
  /\ UNCHANGED <<ring, setup, lock, info, arg>>
----------------------------------------------------------------------------

InitEvent(t) == \/ InitBegin(t) \/ InitThreads(t) \/ InitDispatcher(t)
                \/ InitReady(t) \/ InitAgain(t)
PostInside(t) == PostFull(t) \/ PostMove(t) \/ PostWrite(t) \/ PostReturn(t)
PopInside == PopEmpty \/ PopCopy \/ PopAdvance

Next ==
  \/ \E t \in Posters : InitEvent(t)
  \/ \E t \in Threads : \/ \E e \in Events : CallPost(t, e)
                        \/ PostEnter(t)
                        \/ PostInside(t)
  \/ PopEnter
  \/ PopInside
  \/ DispatchDone

(* A thread inside the lock goes on; whoever asks for the lock again and again
   while it becomes free again and again is let in once (Windows promises the
   waiters no order, but is fair to all of them); and the dispatcher's callback
   returns in the end, however often it posts. *)
Fairness ==
  /\ \A t \in Threads : WF_vars(PostInside(t)) /\ SF_vars(PostEnter(t))
  /\ WF_vars(PopInside) /\ SF_vars(PopEnter)
  /\ SF_vars(DispatchDone)

Spec == Init /\ [][Next]_vars
FairSpec == Spec /\ Fairness
----------------------------------------------------------------------------
(* Properties *)

(* The dispatcher is called only once it is set, although the handler runs
   before ee_init_event sets it: whoever got LBS_CODE_OK may post. *)
DispatcherIsSet == pc[Handler] = "dispatch" => dispatcher

(* The debug build's assertion in pop_event: when the last event leaves, both
   indexes are on its slot, whatever posts and pops went before. *)
LastEventAtTail == pc[Handler] = "pop_advance" /\ count = 1 => head = tail

(* The slot of the n-th waiting event. *)
At(n) == IF head + n - 1 < Size THEN head + n - 1 ELSE head + n - 1 - Size

(* The events that wait.  PopCopy empties the slot of the first one before
   PopAdvance takes it off; `info' still has it. *)
Waiting ==
  [n \in 1..count |->
     IF n = 1 /\ pc[Handler] = "pop_advance" THEN info ELSE slot[At(n)]]

Dispatching == pc[Handler] \notin {"boot"} \cup PopPCs

(* The ring is the queue of module BoundedFifo. *)
Abstract == INSTANCE BoundedFifo WITH
  Clients  <- Threads,
  Consumer <- Handler,
  queue    <- Waiting,
  asked    <- arg,
  answer   <- [t \in Threads |-> IF pc[t] \in Answers THEN pc[t] ELSE "none"],
  handed   <- IF Dispatching THEN info ELSE NoEvent
ImplementsBoundedFifo == Abstract!Spec

(* Every event whose post was answered "ok" reaches the dispatcher, even while
   other threads keep the ring full and the callback posts more. *)
AcceptedIsDispatched ==
  \A e \in Events : (\E n \in 1..count : slot[At(n)] = e)
                      ~> (pc[Handler] = "dispatch" /\ info = e)
=============================================================================
