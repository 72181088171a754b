----------------------------- MODULE ThreadPool -----------------------------
(***************************************************************************)
(* The thread pool of thp: deliverers put tasks in packages and push them  *)
(* on the task server's queue; workers pop them, call the application's    *)
(* real worker and do what it answers; the watcher thread adds workers     *)
(* while the queue is long; an administrator starts, stops and deletes.    *)
(*                                                                         *)
(* Three handles are involved, and the model takes their locks as module   *)
(* SharedLock grants them.  The task server's is held for the few lines of *)
(* one operation: such an operation is one step.  The pool's is held for   *)
(* reading from the first to the last step of a delivery (`bag[d]' is not  *)
(* Null).  The watcher's is held by thp_stop_threads_and_watcher while it  *)
(* waits for the threads: it is a variable, `held'.                        *)
(*                                                                         *)
(* Bounds: one administrator, which starts the pool once and before it     *)
(* stops it; a finite set of threads and of packages in the place of the   *)
(* system's; memory does not run out.                                      *)
(***************************************************************************)
EXTENDS Integers, Sequences, FiniteSets, SequencesExt

CONSTANTS
  Deliverers,   \* the threads that call thp_deliver_task
  Workers,      \* the worker threads there may ever be
  FirstWorkers, \* the ones thp_new_watcher creates
  Tasks,        \* the tasks, each delivered at most once
  Packages,     \* the addresses malloc may return for a package
  Null,         \* no package, no task
  CallWithTask, \* the mode: THP_MODE_CALL_WITH_TASK or THP_MODE_NORMAL
  Pressure,     \* pressure_limit, in percent
  Limit         \* 69: the most workers at which the watcher adds one

ASSUME WorkersAssumption == FirstWorkers \subseteq Workers /\ IsFiniteSet(Workers)
ASSUME NullAssumption == Null \notin Packages \cup Tasks
ASSUME NumbersAssumption == Pressure \in Nat /\ Limit \in Nat /\ CallWithTask \in BOOLEAN

VARIABLES
  queue,    \* packages, the chain of the task server
  spare,    \* package_pool, the chain of recollected packages
  task,     \* package->task
  toGo,     \* the tasks not delivered yet
  bag,      \* the package a deliverer has prepared and not pushed
  wpc, pkg, \* a worker: where it is, its local `package'
  fresh,    \* its local `rc' was never assigned
  status,   \* the watcher object's status
  threads,  \* the workers in the watcher's list (counts is their number)
  held,     \* the watcher's lock is held by the administrator
  watcher,  \* where the watcher thread is
  count,    \* its local count
  newborn,  \* the worker it has created and not yet listed, or Null
  admin,    \* where the administrator is
  worked,   \* tasks a real worker has taken
  dropped   \* tasks that were lost with a worker or with the pool

server == <<queue, spare, task>>
worker == <<wpc, pkg, fresh>>
watch == <<watcher, count, newborn>>
vars == <<server, toGo, bag, worker, status, threads, held, watch, admin,
          worked, dropped>>

(* A worker is "none" (not created), "suspended", "start" (resumed, about to
   look itself up), "test", "pop", "call", "recollect", "gone" (returned) or
   "crashed" (it dereferenced a null package). *)
WorkerPCs == {"none", "suspended", "start", "test", "pop", "call", "recollect",
              "gone", "crashed"}
WatcherPCs == {"suspended", "test", "count", "decide", "insert", "gone"}
AdminPCs == {"new", "running", "stopping", "stopped", "deleted"}

TypeOK ==
  /\ queue \in Seq(Packages) /\ spare \in Seq(Packages)
  /\ task \in [Packages -> Tasks \cup {Null}]
  /\ toGo \subseteq Tasks /\ worked \subseteq Tasks /\ dropped \subseteq Tasks
  /\ bag \in [Deliverers -> Packages \cup {Null}]
  /\ wpc \in [Workers -> WorkerPCs]
  /\ pkg \in [Workers -> Packages \cup {Null}]
  /\ fresh \in [Workers -> BOOLEAN]
  /\ status \in {"READY", "TERM"}
  /\ threads \subseteq Workers
  /\ held \in BOOLEAN
  /\ watcher \in WatcherPCs /\ count \in Nat /\ newborn \in Workers \cup {Null}
  /\ admin \in AdminPCs

(* thp_new_pool: the first workers and the watcher exist, suspended. *)
Init ==
  /\ queue = <<>> /\ spare = <<>>
  /\ task = [p \in Packages |-> Null]
  /\ toGo = Tasks /\ worked = {} /\ dropped = {}
  /\ bag = [d \in Deliverers |-> Null]
  /\ wpc = [w \in Workers |-> IF w \in FirstWorkers THEN "suspended" ELSE "none"]
  /\ pkg = [w \in Workers |-> Null]
  /\ fresh = [w \in Workers |-> TRUE]
  /\ status = "READY"
  /\ threads = FirstWorkers
  /\ held = FALSE
  /\ watcher = "suspended" /\ count = 0 /\ newborn = Null
  /\ admin = "new"

(* The package a worker works on.  After it gave one back to an empty pool the
   local still points there, until the next pop overwrites it. *)
Hand(w) == IF wpc[w] \in {"call", "recollect"} THEN pkg[w] ELSE Null

InUse == Range(queue) \cup Range(spare) \cup {bag[d] : d \in Deliverers}
           \cup {Hand(w) : w \in Workers}
----------------------------------------------------------------------------
(* thp_deliver_task *)

(* Under the pool's read lock: a package from the pool of spare ones, or a new
   one; it is filled. *)
Prepare(d, x) ==
  /\ admin # "deleted"
  /\ bag[d] = Null
  /\ x \in toGo /\ toGo' = toGo \ {x}
  /\ IF spare = <<>>
     THEN (\E p \in Packages \ InUse : bag' = [bag EXCEPT ![d] = p]) /\ UNCHANGED spare
     ELSE bag' = [bag EXCEPT ![d] = Head(spare)] /\ spare' = Tail(spare)
  /\ task' = [task EXCEPT ![bag'[d]] = x]
  /\ UNCHANGED <<queue, worker, status, threads, held, watch, admin, worked, dropped>>

Push(d) ==
  /\ bag[d] # Null
  /\ queue' = Append(queue, bag[d])
  /\ bag' = [bag EXCEPT ![d] = Null]
  /\ UNCHANGED <<spare, task, toGo, worker, status, threads, held, watch, admin,
                 worked, dropped>>

----------------------------------------------------------------------------
(* worker_thread *)

(* thp_find_my_thread_info waits for the watcher's lock. *)
WorkerStart(w) ==
  /\ wpc[w] = "start" /\ wpc' = [wpc EXCEPT ![w] = "test"]
  /\ ~held
  /\ UNCHANGED <<server, toGo, bag, pkg, fresh, status, threads, held, watch, admin,
                 worked, dropped>>

WorkerTest(w) ==
  /\ wpc[w] = "test"
  /\ wpc' = [wpc EXCEPT ![w] = IF status = "TERM" THEN "gone" ELSE "pop"]
  /\ UNCHANGED <<server, toGo, bag, pkg, fresh, status, threads, held, watch, admin,
                 worked, dropped>>

(* A plausible fault: the newest package is popped. *)
WorkerPopLast(w) ==
  /\ wpc[w] = "pop" /\ wpc' = [wpc EXCEPT ![w] = "call"]
  /\ IF queue = <<>>
     THEN pkg' = [pkg EXCEPT ![w] = Null] /\ UNCHANGED queue
     ELSE pkg' = [pkg EXCEPT ![w] = Last(queue)] /\ queue' = Front(queue)
  /\ UNCHANGED <<spare, task, toGo, bag, fresh, status, threads, held, watch, admin,
                 worked, dropped>>

(* thp_pop_task writes the local package, found or not. *)
WorkerPop(w) ==
  /\ wpc[w] = "pop" /\ wpc' = [wpc EXCEPT ![w] = "call"]
  /\ IF queue = <<>>
     THEN pkg' = [pkg EXCEPT ![w] = Null] /\ UNCHANGED queue
     ELSE pkg' = [pkg EXCEPT ![w] = Head(queue)] /\ queue' = Tail(queue)
  /\ UNCHANGED <<spare, task, toGo, bag, fresh, status, threads, held, watch, admin,
                 worked, dropped>>

(* The answers of the real worker to a task: taken (THP_WORKER_OK or _IDLE),
   refused, or the thread is to end. *)
WorkerTakes(w) ==
  /\ wpc[w] = "call" /\ wpc' = [wpc EXCEPT ![w] = "recollect"]
  /\ pkg[w] # Null
  /\ worked' = worked \cup {task[pkg[w]]}
  /\ fresh' = [fresh EXCEPT ![w] = FALSE]
  /\ UNCHANGED <<server, toGo, bag, pkg, status, threads, held, watch, admin, dropped>>

(* Plausible faults: the package is not forgotten when it went back to the
   queue, and is recollected as well; a refused task is not queued again. *)
WorkerRefusesKeeps(w) ==
  /\ wpc[w] = "call" /\ wpc' = [wpc EXCEPT ![w] = "recollect"]
  /\ pkg[w] # Null
  /\ queue' = Append(queue, pkg[w])
  /\ fresh' = [fresh EXCEPT ![w] = FALSE]
  /\ UNCHANGED <<spare, task, toGo, bag, pkg, status, threads, held, watch, admin,
                 worked, dropped>>

WorkerRefusesForgets(w) ==
  /\ wpc[w] = "call" /\ wpc' = [wpc EXCEPT ![w] = "recollect"]
  /\ pkg[w] # Null
  /\ fresh' = [fresh EXCEPT ![w] = FALSE]
  /\ UNCHANGED <<server, toGo, bag, pkg, status, threads, held, watch, admin,
                 worked, dropped>>

WorkerRefuses(w) ==
  /\ wpc[w] = "call" /\ wpc' = [wpc EXCEPT ![w] = "recollect"]
  /\ pkg[w] # Null
  /\ queue' = Append(queue, pkg[w])
  /\ pkg' = [pkg EXCEPT ![w] = Null]
  /\ fresh' = [fresh EXCEPT ![w] = FALSE]
  /\ UNCHANGED <<spare, task, toGo, bag, status, threads, held, watch, admin,
                 worked, dropped>>

(* The thread returns at once, with the package. *)
WorkerEnds(w) ==
  /\ wpc[w] = "call" /\ wpc' = [wpc EXCEPT ![w] = "gone"]
  /\ pkg[w] # Null
  /\ dropped' = dropped \cup {task[pkg[w]]}
  /\ UNCHANGED <<server, toGo, bag, pkg, fresh, status, threads, held, watch, admin,
                 worked>>

(* No task.  In the normal mode the real worker is called without one and
   goes on or ends; else it is not called, and rc is what the last round left
   (THP_WORKER_OK) or, in the first round, whatever was on the stack. *)
WorkerIdle(w) ==
  /\ wpc[w] = "call" /\ pkg[w] = Null
  /\ \/ wpc' = [wpc EXCEPT ![w] = "recollect"]
     \/ (~CallWithTask \/ fresh[w]) /\ wpc' = [wpc EXCEPT ![w] = "gone"]
     \/ (CallWithTask /\ fresh[w]) /\ wpc' = [wpc EXCEPT ![w] = "crashed"]
  /\ fresh' = [fresh EXCEPT ![w] = FALSE]
  /\ UNCHANGED <<server, toGo, bag, pkg, status, threads, held, watch, admin,
                 worked, dropped>>

(* thp_recollect_task_package; only in a pool that has spare ones is the
   package cleaned and the local cleared. *)
WorkerRecollect(w) ==
  /\ wpc[w] = "recollect" /\ wpc' = [wpc EXCEPT ![w] = "test"]
  /\ IF pkg[w] = Null THEN UNCHANGED <<spare, task, pkg>>
     ELSE /\ spare' = Append(spare, pkg[w])
          /\ IF spare = <<>> THEN UNCHANGED <<task, pkg>>
             ELSE /\ task' = [task EXCEPT ![pkg[w]] = Null]
                  /\ pkg' = [pkg EXCEPT ![w] = Null]
  /\ UNCHANGED <<queue, toGo, bag, fresh, status, threads, held, watch, admin,
                 worked, dropped>>

----------------------------------------------------------------------------
(* watcher_thread *)

WatcherTest ==
  /\ watcher = "test"
  /\ watcher' = IF status = "TERM" THEN "gone" ELSE "count"
  /\ UNCHANGED <<server, toGo, bag, worker, status, threads, held, count, newborn, admin,
                 worked, dropped>>

WatcherCount ==
  /\ watcher = "count" /\ watcher' = "decide"
  /\ count' = Len(queue)
  /\ UNCHANGED <<server, toGo, bag, worker, status, threads, held, newborn, admin,
                 worked, dropped>>

MoreWanted == /\ count > (Pressure * Cardinality(threads)) \div 100
              /\ Cardinality(threads) <= Limit

(* thp_create_worker_thread makes the thread suspended.  Bound: no more
   workers than there are names. *)
WatcherDecide ==
  /\ watcher = "decide"
  /\ \/ /\ MoreWanted
        /\ \E w \in Workers : /\ wpc[w] = "none"
                              /\ newborn' = w
                              /\ wpc' = [wpc EXCEPT ![w] = "suspended"]
        /\ watcher' = "insert"
     \/ /\ ~MoreWanted \/ \A w \in Workers : wpc[w] # "none"
        /\ watcher' = "test"
        /\ UNCHANGED <<wpc, newborn>>
  /\ count' = 0
  /\ UNCHANGED <<server, toGo, bag, pkg, fresh, status, threads, held, admin,
                 worked, dropped>>

(* Under the watcher's lock: list it, resume it, count it.  CreateThread
   answers 0 when it fails, which the code takes for a thread (it looks for
   INVALID_HANDLE_VALUE): a worker is listed that does not run and that the
   end of the pool does not wait for, like one that is gone. *)
WatcherInsert ==
  /\ watcher = "insert" /\ watcher' = "test"
  /\ ~held
  /\ threads' = threads \cup {newborn}
  /\ \E s \in {"start", "gone"} : wpc' = [wpc EXCEPT ![newborn] = s]
  /\ newborn' = Null
  /\ UNCHANGED <<server, toGo, bag, pkg, fresh, status, held, count, admin,
                 worked, dropped>>

----------------------------------------------------------------------------
(* The administrator *)

(* thp_watcher_start_all; status is not touched. *)
Start ==
  /\ admin = "new" /\ admin' = "running"
  /\ wpc' = [w \in Workers |-> IF w \in threads THEN "start" ELSE wpc[w]]
  /\ watcher' = "test"
  /\ UNCHANGED <<server, toGo, bag, pkg, fresh, status, threads, held, count, newborn,
                 worked, dropped>>

(* thp_stop_threads_and_watcher: under the watcher's write lock it sets the
   signal and waits for the watcher thread and for every listed worker. *)
StopBegin ==
  /\ admin = "running" /\ admin' = "stopping"
  /\ held' = TRUE
  /\ status' = "TERM"
  /\ UNCHANGED <<server, toGo, bag, worker, threads, watch, worked, dropped>>

(* A plausible fault: the workers are not waited for. *)
StopEndEarly ==
  /\ admin = "stopping" /\ admin' = "stopped"
  /\ watcher = "gone"
  /\ held' = FALSE
  /\ UNCHANGED <<server, toGo, bag, worker, status, threads, watch, worked, dropped>>

StopEnd ==
  /\ admin = "stopping" /\ admin' = "stopped"
  /\ watcher = "gone"
  /\ \A w \in threads : wpc[w] = "gone"
  /\ held' = FALSE
  /\ UNCHANGED <<server, toGo, bag, worker, status, threads, watch, worked, dropped>>

(* thp_delete_task_server waits for the deliveries under way, then frees the
   queued packages with their tasks; the spare ones are never freed. *)
DeleteTaskServer ==
  /\ \A d \in Deliverers : bag[d] = Null
  /\ dropped' = dropped \cup {task[p] : p \in Range(queue)}
  /\ queue' = <<>>
  /\ UNCHANGED <<spare, task, toGo, bag>>

(* thp_delete_watcher, after a stop: status is TERM already, and the threads
   it would wait for, or terminate, have ended. *)
DeleteWatcher == UNCHANGED <<worker, status, threads, held, watch>>

(* thp_delete_pool. *)
Delete ==
  /\ admin = "stopped" /\ admin' = "deleted"
  /\ DeleteTaskServer /\ DeleteWatcher
  /\ UNCHANGED worked
----------------------------------------------------------------------------

Work(w) == \/ WorkerStart(w) \/ WorkerTest(w) \/ WorkerPop(w) \/ WorkerTakes(w)
           \/ WorkerRefuses(w) \/ WorkerEnds(w) \/ WorkerIdle(w) \/ WorkerRecollect(w)
Watch == WatcherTest \/ WatcherCount \/ WatcherDecide \/ WatcherInsert

Next ==
  \/ \E d \in Deliverers : (\E x \in Tasks : Prepare(d, x)) \/ Push(d)
  \/ \E w \in Workers : Work(w)
  \/ Watch
  \/ Start \/ StopBegin \/ StopEnd \/ Delete

(* Every resumed thread runs, and so does the rest of a stop. *)
Fairness ==
  /\ \A w \in Workers : WF_vars(Work(w))
  /\ WF_vars(Watch)
  /\ WF_vars(StopEnd)

Spec == Init /\ [][Next]_vars
FairSpec == Spec /\ Fairness
----------------------------------------------------------------------------
(* Properties *)

(* A package is in one place at most: queued once, or spare once, or in the
   hands of one thread, although a worker's local may still point at a package
   it gave back.  So no task is worked twice and no package filled while a
   worker reads it. *)
PackageInOnePlace ==
  /\ IsInjective(queue \o spare)
  /\ \A d \in Deliverers : bag[d] # Null =>
       /\ bag[d] \notin Range(queue \o spare)
       /\ \A e \in Deliverers \ {d} : bag[e] # bag[d]
       /\ \A w \in Workers : Hand(w) # bag[d]
  /\ \A w \in Workers : Hand(w) # Null =>
       /\ Hand(w) \notin Range(queue \o spare)
       /\ \A v \in Workers \ {w} : Hand(v) # Hand(w)

(* Every delivered task is queued, in a thread's hands, taken by a real worker,
   or was dropped by a worker that ended or with the deleted pool: a refusal
   does not lose it. *)
TasksAccounted ==
  Tasks \ toGo \subseteq
    worked \cup dropped \cup {task[p] : p \in Range(queue)}
      \cup {task[bag[d]] : d \in {e \in Deliverers : bag[e] # Null}}
      \cup {task[pkg[w]] : w \in {v \in Workers : wpc[v] = "call" /\ pkg[v] # Null}}

(* worker_thread uses what thp_find_my_thread_info returned without a test: a
   worker that has left the lookup is in the list. *)
WorkerFindsItself ==
  \A w \in Workers : wpc[w] \in {"test", "pop", "call", "recollect"} => w \in threads

(* Once the pool is deleted no worker runs that could touch it. *)
NobodyWorksWhenDeleted ==
  admin = "deleted" =>
    /\ watcher = "gone"
    /\ \A w \in Workers : wpc[w] \in {"none", "gone"}

(* The two together, and the types: every thread of the pool is in its list as
   long as it works, and none works after the end. *)
ThreadsInOrder == TypeOK /\ WorkerFindsItself /\ NobodyWorksWhenDeleted

(* A queued task reaches a worker, while the pool runs and has a worker: others
   that are refused and queued again do not overtake it for ever. *)
QueuedTaskIsTried ==
  \A x \in Tasks :
    (\E p \in Range(queue) : task[p] = x) /\ admin = "running"
      ~> \/ \E w \in Workers : wpc[w] = "call" /\ pkg[w] # Null /\ task[pkg[w]] = x
         \/ admin # "running"
         \/ \A w \in threads : wpc[w] \in {"gone", "crashed"}

(* thp_thread.c:489 says of thp_stop_threads_and_watcher: "Stop/Pause all
   threads in a watcher".  A stop comes to an end. *)
StopEnds == admin = "stopping" ~> admin = "stopped"
=============================================================================
