-------------------------------- MODULE Ecore --------------------------------
(***************************************************************************)
(* ecore (module.c, event.c, core.c): ecore_start loads the modules of the *)
(* configuration one by one, then calls their onload in order and starts   *)
(* the threads of those that have one.  A module finds another by name and *)
(* talks to it by posts, which the thread of the event engine delivers,    *)
(* and by sends, which run the other's onmessage in the caller's thread    *)
(* with the module lock held.                                              *)
(*                                                                         *)
(* The module lock is lbs_rwlock taken for writing only: module RWLock     *)
(* says it is a mutex that its owner may take again.  The event engine is  *)
(* module EventQueue: a bounded queue that refuses what does not fit.      *)
(* What a module does in its entry points is up to it: any calls of the    *)
(* three functions it was given, and in the end it returns.                *)
(***************************************************************************)
EXTENDS Integers, FiniteSets, SequencesExt

CONSTANTS Configs,    \* the configurations: non-empty lists of entries with
                      \* name, type, mode and whether the library is complete
          Names,      \* names the modules look for
          MaxMods,    \* bound: modules in a configuration
          MaxEvents,  \* slots of the event queue
          MaxCalls,   \* bound: posts and sends of all modules
          Main, Master, Handler,  \* the threads that are always there
          None

Entries == UNION {Range(c) : c \in Configs}
ModuleSlots == 1..MaxMods    \* a thread for each module
EcoreThreads == {Main, Master, Handler} \cup ModuleSlots

ASSUME EcoreAssumption ==
  /\ {MaxMods, MaxEvents} \subseteq Nat \ {0} /\ MaxCalls \in Nat
  /\ Configs \subseteq Seq(Entries) /\ \A c \in Configs : Len(c) \in 1..MaxMods
  /\ None \notin EcoreThreads /\ Master \notin ModuleSlots

VARIABLES
  list,    \* entries still to be loaded
  tree,    \* __module_tree: a module's key is its place
  master,  \* __master_index
  main,    \* ecore_start: where it is, and the module it is at
  thr,     \* the threads of modules: none, failed, ready or started
  stack,   \* the entry points each thread is in
  lock,    \* __module_lock: its owner and how often it has entered
  evq,     \* posts accepted and not yet taken
  held,    \* the post the handler has taken
  got,     \* history: posts whose onmessage was called
  calls    \* posts and sends so far

loaded == <<list, tree, master>>
queue  == <<evq, held, got>>
ecoreVars == <<loaded, main, thr, stack, lock, queue, calls>>

Keys == DOMAIN tree

(* init_module and init_event are done, the configuration is parsed.       *)
EcoreInit ==
  /\ list \in Configs /\ tree = <<>> /\ master = -1
  /\ main = [at |-> "load", k |-> 1]
  /\ thr = [t \in ModuleSlots \cup {Master} |-> "none"]
  /\ stack = [t \in EcoreThreads |-> <<>>]
  /\ lock = [owner |-> None, depth |-> 0]
  /\ evq = <<>> /\ held = None /\ got = {} /\ calls = 0

(* A plausible fault: a lock that its owner cannot take again.             *)
FreeForAll(t) == lock.owner = None

Free(t) == lock.owner \in {None, t}

(* A call of a function of module k, as master_thread and module_thread    *)
(* make it; "wait" is a send that has found its module and asks for the    *)
(* lock.                                                                   *)
EnterPoint(t, how, k) == stack' = [stack EXCEPT ![t] = Append(@, [how |-> how, k |-> k])]

-----------------------------------------------------------------------------
(* ecore_load_modules.                                                     *)

(* check_module_status; that a second master is refused never happens, as  *)
(* nothing sets __is_master_loaded.                                        *)
Loads(e) == e.complete /\ (e.type = "slave" => e.mode = "parallel")

Load ==
  /\ main.at = "load" /\ list # <<>> /\ Loads(Head(list))
  /\ tree' = Append(tree, Head(list)) /\ list' = Tail(list)
  /\ UNCHANGED <<master, main, thr, stack, lock, queue, calls>>

(* The modules loaded so far stay; ecore_start gives up.                   *)
LoadFails ==
  /\ main.at = "load" /\ list # <<>> /\ ~Loads(Head(list))
  /\ main' = [main EXCEPT !.at = "failed"]
  /\ UNCHANGED <<loaded, thr, stack, lock, queue, calls>>

-----------------------------------------------------------------------------
(* ecore_start_modules: no other thread runs when it begins.               *)

StartBegins ==
  /\ main.at = "load" /\ list = <<>>
  /\ main' = [main EXCEPT !.at = "start"]
  /\ UNCHANGED <<loaded, thr, stack, lock, queue, calls>>

(* start_module_onload: the index of a master is set before its onload.    *)
Known(e) == e.type \in {"master", "slave", "sprite"}

(* A plausible fault: the thread of a master is let go before its onload.  *)
OnloadAfterResume ==
  /\ main.at = "start" /\ main.k \in {k \in Keys : Known(tree[k])}
  /\ master' = IF tree[main.k].type = "master" THEN main.k ELSE master
  /\ thr' = IF tree[main.k].type = "master" /\ thr[Master] = "none"
            THEN [thr EXCEPT ![Master] = "ready"] ELSE thr
  /\ EnterPoint(Main, "onload", main.k)
  /\ main' = [main EXCEPT !.at = "launch"]
  /\ UNCHANGED <<list, tree, lock, queue, calls>>

Onload ==
  /\ main.at = "start" /\ main.k \in {k \in Keys : Known(tree[k])}
  /\ master' = IF tree[main.k].type = "master" THEN main.k ELSE master
  /\ EnterPoint(Main, "onload", main.k)
  /\ main' = [main EXCEPT !.at = "launch"]
  /\ UNCHANGED <<list, tree, thr, lock, queue, calls>>

(* The thread of a module: there is one for all masters, made suspended.   *)
Thread(k) == IF tree[k].type = "master" THEN Master ELSE k
HasThread(k) == tree[k].type = "master" \/ tree[k].mode = "parallel"

(* lbs_resume_thread and lbs_create_thread may fail; nobody looks at what  *)
(* they answer ("log error here").  Resuming a thread that runs is nothing. *)
Launch ==
  /\ main.at = "launch" /\ stack[Main] = <<>>
  /\ IF HasThread(main.k) /\ thr[Thread(main.k)] \in {"none", "failed"}
     THEN \E result \in {"ready", "failed"} : thr' = [thr EXCEPT ![Thread(main.k)] = result]
     ELSE UNCHANGED thr
  /\ main' = [at |-> "start", k |-> main.k + 1]
  /\ UNCHANGED <<loaded, stack, lock, queue, calls>>

(* All are started, or the next has a type that does not exist.            *)
StartEnds ==
  /\ main.at = "start"
  /\ main.k \notin {k \in Keys : Known(tree[k])}
  /\ main' = [main EXCEPT !.at = "done"]
  /\ UNCHANGED <<loaded, thr, stack, lock, queue, calls>>

(* master_thread looks its module up when it gets to run; module_thread    *)
(* was told.                                                               *)
ThreadRuns(t) ==
  /\ thr[t] = "ready" /\ (t = Master => Free(t))
  /\ thr' = [thr EXCEPT ![t] = "started"]
  /\ EnterPoint(t, "onstart", IF t = Master THEN master ELSE t)
  /\ UNCHANGED <<loaded, main, lock, queue, calls>>

-----------------------------------------------------------------------------
(* The functions a module is given, called from an entry point of it.      *)

Inside(t) == stack[t] # <<>> /\ Last(stack[t]).how # "wait"
Calls(t) == Inside(t) /\ calls < MaxCalls /\ calls' = calls + 1

(* get_module_index, over a tree that no longer changes: the first module  *)
(* whose name is a prefix of the wanted one, or the other way round.       *)
Alike(m, n) == IsPrefix(m, n) \/ IsPrefix(n, m)
Find(n) ==
  LET hits == {k \in Keys : Alike(tree[k].name, n)}
  IN IF hits = {} THEN -1 ELSE CHOOSE k \in hits : \A j \in hits : k <= j

(* post_message_to: what does not fit is lost, and the caller is told.     *)
PostMessage(t, n) ==
  /\ Calls(t)
  /\ evq' = IF Len(evq) < MaxEvents THEN Append(evq, [id |-> calls, to |-> Find(n)]) ELSE evq
  /\ UNCHANGED <<loaded, main, thr, stack, lock, held, got>>

(* send_message_to: the caller waits for the module lock and keeps it until *)
(* onmessage has returned.                                                 *)
SendMessage(t, n) ==
  /\ Calls(t) /\ EnterPoint(t, "wait", Find(n))
  /\ UNCHANGED <<loaded, main, thr, lock, queue>>

(* A plausible fault: an index that is not found is refused without giving *)
(* the lock back.                                                          *)
SendForgetsLock(t) ==
  /\ stack[t] # <<>> /\ ~Inside(t) /\ Free(t)
  /\ lock' = [owner |-> t, depth |-> lock.depth + 1]
  /\ stack' = [stack EXCEPT ![t] = IF Last(@).k \in Keys THEN [@ EXCEPT ![Len(@)].how = "send"]
                                   ELSE Front(@)]
  /\ UNCHANGED <<loaded, main, thr, queue, calls>>

SendEnters(t) ==
  /\ stack[t] # <<>> /\ ~Inside(t) /\ Free(t)
  /\ IF Last(stack[t]).k \in Keys
     THEN /\ lock' = [owner |-> t, depth |-> lock.depth + 1]
          /\ stack' = [stack EXCEPT ![t][Len(stack[t])].how = "send"]
     ELSE stack' = [stack EXCEPT ![t] = Front(@)] /\ UNCHANGED lock
  /\ UNCHANGED <<loaded, main, thr, queue, calls>>

(* A plausible fault: the first of nested sends to return frees the lock.  *)
ReturnFreesLock(t) ==
  /\ Inside(t)
  /\ stack' = [stack EXCEPT ![t] = Front(@)]
  /\ lock' = IF Last(stack[t]).how # "send" THEN lock ELSE [owner |-> None, depth |-> 0]
  /\ UNCHANGED <<loaded, main, thr, queue, calls>>

(* An entry point returns to whoever called it.                            *)
Return(t) ==
  /\ Inside(t)
  /\ stack' = [stack EXCEPT ![t] = Front(@)]
  /\ lock' = IF Last(stack[t]).how # "send" THEN lock
             ELSE IF lock.depth = 1 THEN [owner |-> None, depth |-> 0]
             ELSE [lock EXCEPT !.depth = @ - 1]
  /\ UNCHANGED <<loaded, main, thr, queue, calls>>

-----------------------------------------------------------------------------
(* The thread of the event engine and ecore_event_handler.                 *)

Take ==
  /\ stack[Handler] = <<>> /\ held = None /\ evq # <<>>
  /\ held' = Head(evq) /\ evq' = Tail(evq)
  /\ UNCHANGED <<loaded, main, thr, stack, lock, got, calls>>

(* get_specified_module has the lock only while it looks.                  *)
Deliver ==
  /\ held # None /\ Free(Handler)
  /\ IF held.to \in Keys
     THEN EnterPoint(Handler, "post", held.to) /\ got' = got \cup {held.id}
     ELSE UNCHANGED <<stack, got>>
  /\ held' = None
  /\ UNCHANGED <<loaded, main, thr, lock, evq, calls>>

-----------------------------------------------------------------------------
EcoreStart == Load \/ LoadFails \/ StartBegins \/ Onload \/ Launch \/ StartEnds
Handle == Take \/ Deliver

EcoreNext ==
  \/ EcoreStart \/ Handle
  \/ \E t \in ModuleSlots \cup {Master} : ThreadRuns(t)
  \/ \E t \in EcoreThreads :
       \/ SendEnters(t) \/ Return(t)
       \/ \E n \in Names : PostMessage(t, n) \/ SendMessage(t, n)

(* Fairness: threads go on, and an entry point returns.                    *)
EcoreSpec ==
  /\ EcoreInit /\ [][EcoreNext]_ecoreVars
  /\ WF_ecoreVars(EcoreStart) /\ WF_ecoreVars(Handle)
  /\ \A t \in ModuleSlots \cup {Master} : WF_ecoreVars(ThreadRuns(t))
  /\ \A t \in EcoreThreads : WF_ecoreVars(SendEnters(t)) /\ WF_ecoreVars(Return(t))

-----------------------------------------------------------------------------
(* The frames of a thread that were entered in one way.                    *)
In(t, how) == {i \in DOMAIN stack[t] : stack[t][i].how = how}
OneMaster == Cardinality({k \in Keys : tree[k].type = "master"}) <= 1

(* onstart of a module runs after its onload has returned, although it     *)
(* runs in a thread of its own and a master is looked up by an index that  *)
(* is set before its onload: true as long as there is one master           *)
(* (ecore_start_modules, master_thread).                                   *)
OnloadIsOver(k) ==
  main.k > k \/ (main = [at |-> "launch", k |-> k] /\ stack[Main] = <<>>)

StartsAfterOnload ==
  OneMaster => \A t \in EcoreThreads : \A i \in In(t, "onstart") : OnloadIsOver(stack[t][i].k)

(* Sends exclude each other: while an onmessage that was called by a send  *)
(* runs, none runs for a send of another thread, also when it has itself   *)
(* sent and that send has returned (send_message_to takes the module lock  *)
(* again and gives it back once).                                          *)
SendersExclude ==
  \A t, u \in EcoreThreads : In(t, "send") # {} /\ In(u, "send") # {} => t = u

(* Every module that is to have a thread gets its onstart in the end,      *)
(* whatever the modules send each other from onload on, if there is one    *)
(* master and no unknown type before it.  The exception is a module whose  *)
(* own thread could not be made or let go: that takes nothing from the     *)
(* others (ecore_start_modules, send_message_to).                          *)
EveryoneStarts ==
  \A k \in ModuleSlots :
    (/\ main = [at |-> "start", k |-> 1] /\ OneMaster
     /\ k \in Keys /\ HasThread(k) /\ \A j \in 1..k : Known(tree[j]))
      ~> (k \in Keys /\ thr[Thread(k)] \in {"started", "failed"})

(* A post that was accepted for a module reaches it, also while sends keep *)
(* the lock the handler needs to look the module up (ecore_event_handler,  *)
(* get_specified_module), once the sends come to an end.                   *)
PostedIsDelivered ==
  \A id \in 0..MaxCalls :
    (\E i \in DOMAIN evq : evq[i].id = id /\ evq[i].to \in Keys) ~> id \in got
=============================================================================
