# gbf-library in TLA+

This directory is the verification development of gbf-library, a collection of
Windows C libraries: a reader/writer lock, an event engine with timers, a
thread pool, a network library over both (easenet), search trees, and a module
loader (ecore). The specifications are translated from the code; `PROJECT.json`
maps each definition to the lines it models.

To run: `tlc -config MCRWLock.cfg MCRWLock` and so on for each configuration
(`PROJECT.json` "runs" lists them), and `tlapm M.tla` for each proof module:
`LockProofs`, `EventEngineProofs`, `ThpProofs`, `PacketFlowProofs`, `EnetClientProofs`,
`TcpServerProofs`, `RBTreeShape` and `RBTreeProofs` (which take some minutes each).

## 1. Inventory

Sizes are lines of C. Paths are under `src/src/`.

| part | code | state | operations | used by |
|---|---|---|---|---|
| reader/writer lock (three copies) | `lbs_rwlock/`, `rwlock/`, `thp/thp/thp_rwlock.c` (540) | critical section, `reader`, `writer` | init, rlock, wlock, unlock, destroy | everything below |
| event engine | `event_engine/` (362) | ring of 2000 events with `head`, `tail`, `count`; circular list of timers; one lock each; ready flag | `ee_init_event`, `ee_post_event`, `ee_timer`; handler thread, timer thread | ecore, applications |
| thread pool | `thp/` (1720) | list of handles with lock, reference count, alive flag; queue of task packages and spare ones; list of worker threads, watcher thread, status | new, start, stop, delete, deliver, counts; worker threads, watcher thread | TCP server |
| easenet: event queue | `easenet/enet_event.c` (245) | the same ring, with packets and connection events | post; handler thread | TCP server, TCP client |
| easenet: packet pool, framing | `easenet/enet_packet.c` (293) | stack of 100 free units; per connection a buffer of an incomplete packet | alloc, free, pack, unpack | TCP server, TCP client |
| easenet: handles | `easenet/enet_handle.c` (342) | like the pool's, and a table of handles to use again | new, lock, unlock, delete | TCP, UDP |
| easenet: TCP server | `easenet/tcp_server.c` (1120) | client tree, worker pool, listener thread, status | new, start, stop, delete, send, disconnect, wait for packet | applications |
| easenet: TCP client, UDP | `tcp_client.c`, `udp_cs.c` (836) | socket, receiver thread, buffer | connect, disconnect, send, delete | applications |
| easenet: sockets, system, HTTP tools | `enet_sock.c`, `enet_sys.c`, `enet_tools.c` (1617) | none | wrappers of system calls, text building | easenet |
| red-black tree | `rbtree/` (738) | nodes with colour bits | insert, remove, search, integrity check | TCP server, ecore |
| 2-3 tree | `lbs_bst/` (850) | nodes with one or two keys | insert, delete, search | none in the repository |
| ecore | `ecore/` (807) | tree of modules, module lock, event engine | load, start, message, configuration | applications |
| threads, hashes, strings | `lbs_threads/`, `hash/`, `stdlbs/` (802) | none | wrappers, pure functions | all |

How they interact. A thread that delivers to the pool takes, in this order, the
pool's handle, the task server's handle, and inside each the list lock of the
handle manager. A TCP server's worker runs as the pool's real worker, receives
into a packet unit and posts it to easenet's event queue; the one handler
thread pops it, finds the client in the server's tree under the server's
handle, unpacks, calls the application back and frees the unit. Callbacks of the
event engine run on its handler thread, callbacks of timers on the timer thread
and under the timer lock. ecore posts its messages to the event engine.

What is hard. Nothing in the repository tests any of this: the only test is an
interactive client. The code decides on what it read without a lock (unlock of
the reader/writer lock, unlock of a handle), spins inside a critical section,
starts threads before what they use is set, waits for threads while it holds
locks they need, and hands objects from thread to thread by address.
`PROJECT.json` "hazards" lists each of these at its line, with the properties
that would see it go wrong.

What makes each part correct:

- lock: a writer excludes everyone, its books always balance, nobody but the
  writer is refused, a writer that spins is served.
- event queue: it is a bounded first-in first-out queue; what was accepted is
  dispatched once, in order; the dispatcher is never called before it is set.
- timers: the list is one circle of the armed timers, whatever happens in the
  middle of the walk; due timers fire.
- handles: nobody is inside a freed handle; count and list agree with who is
  inside and with what exists; a handle that is used again is out of use.
- pool: a package is in one place; a task is not lost; workers find themselves;
  stopping ends; nobody works in a deleted pool.
- packet units: one owner at a time; a packet is what was received until its
  callback returns; packets of a connection stay in order and stop with the
  report that it is lost; no unit gets lost.
- framing: the packets come out as they went in, however the stream is cut (they
  do not; `KindStreamsComeOut` says for which cuts they do).
- trees: colour rules or even height, links that agree, walks in order, and the
  answers of a dictionary after any sequence of insertions and removals.
- TCP server: a client is in the tree under its own socket, watched by one
  worker, not used after it was freed, and removed when its peer is gone.
- TCP client, UDP: a disconnect has the client to itself; a thread that is
  terminated leaves no handle locked for ever.
- ecore: a module starts after its onload, and all start; sends exclude each
  other; accepted posts arrive.

## 2. Modules

### RWLock (abstract: SharedLock)

`RWLock` models `lbs_rwlock.c` (and `thp_rwlock.c`, `rwlock/`, whose bodies are the
same) one access to shared memory at a time: entering the critical section,
testing `writer`, the spin of `wlock`, the unprotected read of `unlock`, the
decrement, the recursion test, leaving. The critical section is modelled as
Windows documents it: owned by one thread, which may enter again and leaves as
often. `grants` and `writes` are what the calls returned to their callers; the
properties compare them with the lock's own counters. `SharedLock` is the same
promise with a grant as one step, and the other modules use the lock only as
`SharedLock` describes it.

A thread gives back only what it holds, and does not use the lock after that; it
may nest calls in any way, a read inside a write (refused) or a write inside a
read (hangs) included. The bound `MaxHold` is the depth at which a thread stops
asking.

### EventQueue (abstract: BoundedFifo)

The ring of `event_engine.c`; `enet_event.c` has the same lines. One action per
access between two points at which another thread can be scheduled: the three
steps of `ee_init_event` that other threads can tell apart (threads started,
dispatcher set, ready set), enter/test/move/write of a post, enter/test/copy/
advance of a pop, the dispatcher's return. The ring's slots start with whatever
malloc returned (`Init` chooses any contents but for the id of slot 0, which the
code clears). The dispatcher's callback posts through the same actions.

`BoundedFifo` says: a post is answered "ok" or "full", "full" only if the queue
held `Size` events at a moment of the call, and events leave in order, once.
The refinement maps the queue to the `count` slots from `head`, with the local
copy of the handler in place of the first while a pop is half done.

One thread initialises at a time. The failure paths of `ee_init_event` are not
modelled (see the hazards).

### EventTimer

The timers of `event_engine.c`: list operations as the code has them on `next`
and `prev`, the worker's walk with one action per node and per outcome of a
callback, insertion by other threads and by callbacks. Freed nodes return to
`malloc` and may be used again. Time is the action `Elapse`, free to come at any
moment: what depends on the length of a period is not modelled, and a due timer
stays due, so the wrap of the 32-bit tick count is left out.

The names of this module (`TimerSpec`, `timerLock`, `stage`) keep apart from those of
`EventQueue`: the two halves of the engine share no state, and
`EventEngineProofs` extends both.

### ThpHandle

`thp_handle.c`. An operation under the list lock is one step; the handle's own
lock is granted as in `SharedLock`. The local `is_alive` of `thp_handle_unlock` is
the variable `saw`, read one step before the lock is given back and used one step
after. A deleter is any thread with the write lock (`thp_delete_pool`,
`thp_delete_task_server`, `thp_delete_watcher` clear `alive` in that state).

Two bounds, both hiding defects of the code that `PROJECT.json` lists:
`KeepFirst` (removing the first handle leaves `g_handle_pool` on freed memory, so
nothing can be said afterwards) and `used` (an address is not returned a second
time: a caller with an old handle would be taken for one with the new).

The names of this module (`HandleSpec`, `NoHandle`) keep apart from those of
`ThreadPool`, and `ThpProofs` extends both.

### ThreadPool

`thp_main.c`, `thp_pool.c`, `thp_task.c`, `thp_thread.c`: delivery (prepare, then
push), the worker loop with every answer of the real worker, the watcher thread
that adds workers, start, stop and delete. An operation under the task server's
handle is one step. The watcher's handle is a variable (`held`), for the stopper
keeps it while it waits. A worker's local `package` keeps pointing at a package
it has given to an empty spare pool, as in the code; `Hand` is what it still
works with. `CreateThread` may fail in `WatcherInsert`, and as the code looks for the
wrong answer a worker is listed that never runs. In `THP_MODE_CALL_WITH_TASK` the first round
without a task switches
on an uninitialised `rc`: `WorkerIdle` has its outcomes.

One administrator starts the pool once and before it stops it (a second start
runs into `int 3`, a stop before the start waits for suspended threads for ever:
both by reading, both listed). A real worker refuses only a task it was given.
The process dies with a worker that dereferences null; the model lets the others
go on, which only adds behaviours.

### PacketFlow

A packet unit's way through easenet: the pool of `enet_packet.c`, the worker of
`tcp_server.c` (`server_worker_thread`), the receiver of `tcp_client.c`
(`tcp_client_recv_thread`) and the handler of `enet_event.c`. `freeList` is
`__packet_free_list` up to its iterator; `unit` is each thread's local pointer,
`fd` the socket a worker is busy with, `ready` what `select` reported and the
worker has not looked at, `jobs` its `jobSet`, `tasks` the connections the pool has
not delivered yet. `data` is what a unit holds: which packet of which peer.

The modules fit together as follows: the pool's lock is a mutex (`RWLock` used with
writers only), so what it protects is one step; the queue is what `BoundedFifo`
promises (the handler's `event` is the one it has popped); a connection is
delivered to a worker once (`ThreadPool`). A unit that is put back forgets its
contents (`Blank`): nothing reads a free unit.

Left out, each stated at the top of the module: two threads that set the pool up
at once (`enet_packet.c:51`), and what is in `TcpServer` and `EnetClient`: a worker
with FD_SETSIZE connections, the deletion of servers and clients, socket numbers
that the system gives out again. The callbacks are the two outcomes the handler sees, for they
touch neither the pool nor the queue.

### Framing

`enet_pack_data`, `enet_unpack_data` with its counts `i`, `j`, `k`, and the loop of
`enet_tcp_server_process_recv` that calls it again without input (`ArrivePiece` is the
first turn, `GoOn` every further one). A byte is known
by its packet, the length that packet's head tells and its place: enough to see
every byte that is lost, moved or taken for another. A peer packs up to
`MaxStream` packets; `ArrivePiece` delivers the stream in pieces of any length.
Outcomes that the code does not define (a copy with a wrapped count, a length
read out of something that is no head) end a stream as "fault" or "garbage".

The code does not survive every way of cutting a stream. `IsKind` is what it
demands of TCP, found by checking and stated piece by piece; `KindStreamsComeOut`
says that exactly the streams cut this way come out. `MCPacketFlow` runs `Framing`
beside `PacketFlow`: they share no state, so one moves while the other rests.

### RBTree and Tree23 (abstract: Dictionary)

`RBTree` is `rbtree.c` with one action for each turn of the loops of `rbt_insert`
and `rbt_remove` and for each of their cases, on a table of nodes with links both
ways and colour bits. `SWAP_NODE_DATA` exchanges the keys of two nodes; as a node
is named by its key, `Swap` renames the two throughout. `CheckIntegrity` is the
test that RBT_MODE_INTEGRITY runs. An allocation may fail once the pool of
`PoolSize` nodes is used up, and then at any call. The loops that search and walk
are written as the function of one turn, and `Loop` takes as many turns as there are
keys: a turn that would end the loop of the code stays where it is. A loop of the code
that needed more turns, or none at the end of which it may return, would show as a
wrong answer (`WalksInOrder`).

`Tree23` is `lbs_23tree.c` with one action per call: a subtree is the value of its
root, `InsertInto` and `Delete` are recursive as the code is, and `FixLeft` and
`FixRight` fill the hole that a deletion leaves. Both allocations of an insertion may
fail. The first comes before anything is looked at, so a key that is in the tree may
be refused too (`InsertNoMemory`). The other is in `divide_node`: the divisions below
it are made, the three keys of the node are two afterwards and of its four children
the third is cut off (`Tear`, `InsertTorn`); it stays in `mchild2`, which nothing reads
until the next division below has overwritten it. The tree is used on after that,
and `Tree23Sound` says what still holds: it is a 2-3 tree, but `node_count` may be more
than the number of keys (finding). `MaxFailures` bounds how often a
division fails in the life of a tree.

`Dictionary` is a set of keys and the answers that depend on it alone. Both trees
are shown to implement it, and to do so with the key they were given. Its constant
`Lapses` names where a tree is less than a dictionary, each with a finding:
`"first_lost"` for `rbt_insert` when the root cannot be allocated, `"known_refused"` and
`"torn"` for the two allocations of `lbs_23tree_insert`. A torn insertion may have put
its key in, answers no_memory all the same, and loses keys that lay between two keys
which are still there: never the smallest, never the largest. `MCTrees` runs the two trees
beside each other, one at rest while the other is called, so that each takes every failure
of its own.

### EnetHandle and EnetClient

`EnetHandle` is `enet_handle.c`: the list whose head never moves, the table of
handles to use again, and each handle's lock, count, `alive` and `obj`. Its actions
are the steps between which another thread can act: find and count, wait for the
lock, give it back, drop the count, delete, recycle (without the table's lock),
look for something to reuse (without the lock), take it, append, publish.
`Find` of a handle that is not in a list that has become a ring never ends, with
the table locked. The handle's lock is what `SharedLock` promises.

`EnetClient` extends it with `tcp_client.c` and `udp_cs.c`: new, connect,
disconnect, delete, send with its second attempt, the receiving threads (which may
fail to be made: `ReceiverFails`, `NewUdpDeaf`), their
termination after a wait of four seconds or with the object of a UDP handle, and
the handler of what they post. A thread that is terminated keeps its locks: the
read lock of a handle, and that of the table if it was in between (`KeptTable`).
A freed object keeps its contents (the outcome that lets the program go on); a use
of a null object or an empty reuse table ends it (`Running`).

### TcpServer

`tcp_server.c` with the parts of `thp_thread.c` and `enet_event.c` that it needs:
the listener, the handler that accepts, enters, reads for and removes clients, the
workers with their sets, start, stop, delete, disconnect and send. The system
is modelled with it (`sock`, `waiting`, `unread`, `gone`): numbers of closed sockets
are given to the next connection, `recv` fails on a socket that is closed, `select`
on a set that has one in it. What is done under the lock of the server's handle
is one step; `busy` is that lock while stop and delete wait for the workers.
A worker's question for the attributes and its `select` are one step.

The history `stray` has the sockets that the server has lost track of in a way the
code does: closed by `enet_disconnect_client_from_tcp_server`, reported to a full
queue, or refused in a round whose `select` failed. The properties hold for the
others, and `HandlerUsesLiveClient` and the first half of `TreeHoldsLiveClients` for
all.

The composition: the tree is a map (what `RBTree` implements), the event queue what
`BoundedFifo` promises, the pool hands each task to one worker and takes refused
ones back (`ThreadPool`), packet units are in `PacketFlow`.

### Ecore

`core.c`, `module.c`, `event.c`: `ecore_start` loads the modules of a configuration one
by one, calls their onload in order and starts their threads; what a module does
in an entry point is up to it, and is modelled as any calls of the functions it
was given. Making or resuming a module's thread may fail, and `ecore_start_modules`
goes on without a look (`Launch`): `EveryoneStarts` is about the others. `stack` has, for each
thread, the entry points it is in, since a send
runs the receiver's onmessage in the sender's thread. The module lock is
`lbs_rwlock` taken for writing only, a mutex its owner may take again (`RWLock`
shows this). Names are sequences compared as `ecore_strcmp` does: one that is a
prefix of the other is equal. A search by name is one step (over a tree that no
longer changes when the first module can ask). `EcoreInit` ranges over all
configurations. The names of this module (`EcoreThreads`, `EcoreSpec`) keep apart from
those of `RWLock`: `LockProofs` extends both.

## 3. Runs

| run | instance | states | question |
|---|---|---|---|
| `rwlock` | 3 threads, 2 grants each | 2,457 | does the lock grant what it may, is the spinning writer served |
| `event_queue` | 2 posters and the handler, ring of 3, 2 events | 84,629 | is the ring a bounded queue, is everything accepted dispatched |
| `event_timer` | 1 caller, 4 nodes, rounds of 2 | 366,004 | does the circle survive, do due timers fire once no more start |
| `thp_handle` | 3 threads, 3 handles | 26,846 (up to symmetry) | is a handle freed only when nobody is inside, do its books agree |
| `thread_pool` | 2 deliverers, 2 workers, 2 tasks, 3 packages | 79,885 | are tasks and packages neither lost nor shared |
| `thread_pool_stop` | the same, normal mode | | does a stop end: **not always** |
| `packet_flow` | 2 workers, 2 connections, 1 receiver, 2 units, queue of 1, 2 packets per peer; streams of 3 packets, bodies of 0 to 2, head 3, tail 2 | 174,023 | do units have one owner, keep their packets in order, get lost; are workers served; which streams come out |
| `trees` | keys 1 to 9; a pool of one node, one division without memory | 69,784 | do both trees keep their rules, and which dictionary do they implement |
| `enet_client` | 2 callers, 2 receivers, the handler; 2 handles, objects, sockets; 3 calls | 733,471 | does a disconnect own its client, is a recycled handle out of use, what stays locked |
| `handle_reuse` | the same | | is every live handle in the table: **no** |
| `tcp_server` | 1 caller with 2 calls, 2 workers with a set of 1, 2 peers, 2 sockets, queue of 2, 1 piece of data under way | 407,793 | do tree, sets, tasks and events agree; are gone clients removed |
| `ecore` | all configurations of 1 or 2 of 7 entries, 3 posts and sends, queue of 2 | 192,185 | start after onload, sends exclude each other, all start, posts arrive |

Why the bounds are enough. Lock: two readers and a writer are the fewest with a
reader that leaves while another stays and a writer spins; two grants the fewest
with a nested call. Ring: three slots have a first, a middle and a last, the ring
fills, wraps and drains in the run, and order shows with two events. Timers: four
nodes and rounds of two end a round both ways with timers left over, delete the
first, a middle and the last node, and reuse an address. Handles: a reader, a
deleter and a waiter are the actors of every race in the code; three handles
give the list a first, a middle and a last. Pool: one worker and one the watcher
may add; three packages let one be queued, one spare and one in hand; `Limit` 1
lets the watcher stop adding. Packets: three threads compete for two units, so the
pool runs empty with each of them waiting; a queue of one with the event the
handler holds makes two events on their way, the fewest that have an order, and
refuses every kind of post; two packets per peer let a unit be used again while an
older packet of the same peer waits. Framing: bodies shorter than, as long as
and longer than half a head, so that every part can be cut in two, three packets
for one that arrives between others; a larger body or stream adds no new order of
the ends of pieces and parts. Trees: nine keys give a red-black tree of three black
levels and a 2-3 tree of three levels, every case of both removals fires at the
root and below it; one failed division is at a leaf, above leaves, or at the root, and the torn
tree is divided, merged and borrowed from afterwards (with two
the run passes as well, with 38,908 states of the 2-3 tree). Handles and clients: two handles are
the fewest with a head and
one behind it, and three calls make one, delete it and use it again while another
call waits; every outcome of every call fires. Server: sets and queue are full at
once with two clients, a socket number is used again by the second peer while the
first client is still in tree, sets or queue. ecore: two modules are a sender and a
receiver, a master and another, and the second stops what comes after it; two
names, of which one is a prefix of the other's module.

Deadlock is checked in `event_queue`, `event_timer` and `thp_handle`. It is not in
`rwlock` (a thread that asks again under its own read lock hangs with the writer,
and `SpinningWriterIsServed` says that this is the only way), nor in the two of the
thread pool (a stop may hang, and a deleted pool is at rest), nor in those where the
environment may fall silent or the bounded calls come to an end: `packet_flow`,
`trees`, `enet_client`, `handle_reuse`, `tcp_server`, `ecore`.

Fairness. A thread inside a call goes on (weak fairness of its steps): the
scheduler of Windows runs every runnable thread. In `RWLock` nothing is assumed
of the threads that wait for the critical section; holders give back in the end.
In `EventQueue` and `EventTimer` a thread that asks for a lock that becomes free
again and again is let in once (strong fairness), for liveness there depends on
the handler getting the lock among busy posters, and callbacks return in the end,
as the engine's single handler thread needs. In `ThreadPool` every resumed thread
runs. In `PacketFlow` the handler goes on, and so does a worker whose `select` has
reported a connection: `recv` on it returns. Weak fairness is enough for a worker
that waits for a unit, because only finitely many packets are sent (`MaxPackets`)
and so others stop taking units in the end; under traffic without end its polling
could lose every race. Nothing is assumed of a receiver, which may wait in `recv`
for ever. In `TcpServer` workers and handler go on, in `Ecore` every thread that can,
and an entry point of a module returns; the number of calls is bounded
(`MaxCalls`), so weak fairness is enough for a thread that waits for the module
lock. Nothing is assumed of applications and peers: nobody need post, deliver,
send or stop.

Disagreements found, each with its run (`PROJECT.json` "findings"):

- `thp_stop_threads_and_watcher` waits for the watcher thread with the lock held
  that the watcher thread needs to finish adding a worker (`thread_pool_stop`).
- The head of easenet's list of handles is never moved: after the first handle was
  deleted and is used again, live handles are cut off, or the list is a ring
  (`handle_reuse`).

The others are in `PROJECT.json` without a run; most are behaviours of the models
above, and the entries name the actions. Among them: a reader that unlocks a handle
reads `alive` too early, so that a handle deleted meanwhile is never freed; a first
timer that starts another starves the rest; packets that arrive in one piece are
not taken apart; a closed client socket makes its worker deaf; the listener accepts
no more after half a second without a connection; a server's stop waits for workers
that wait for it; a receiving thread that is terminated takes the lock of the
handle table with it; a division in the 2-3
tree that gets no memory cuts a subtree off, whose keys stay counted; two masters are not refused;
a module whose thread fails is never started and nobody is
told; a broadcast reaches nobody.

## 4. Proofs

TLAPS proves, for every value of the constants that meets the named assumptions,
every safety property of the runs but those of the 2-3 tree:

| module | proved of | assumed |
|---|---|---|
| `LockProofs` | types, `WriterExcludesAll`, `BooksBalance`, `UnlockReadStaysTrue`, `OnlyTheWriterIsRefused` (stated by this theorem only), and that `RWLock` implements `SharedLock`: any threads, any depth | the threads are finitely many, `NoThread` is not one of them, `MaxHold` is positive |
| `EventEngineProofs` | types, `DispatcherIsSet`, `LastEventAtTail`, and that `EventQueue` implements `BoundedFifo`: any posters and events, a ring of any size | the handler is not a poster, `Nobody` is no thread, `NoEvent` is not an event, the ring has a slot |
| `EventEngineProofs` | `WorkerOnArmedNode` and `ListIsACircle` of `EventTimer`: any callers and nodes, rounds of any length | nodes are finitely many addresses (`malloc` has no more), `Null` is neither a node nor the worker, `MaxRound` is positive |
| `ThpProofs` | `HolderSeesLiveObject`, `RefcountExact`; with `KeepFirst` also `NoUseAfterFree` and `BooksAgree`: any threads, a list of any length | threads and handles are finitely many, `Nobody` and `NoHandle` are none of them |
| `ThpProofs` | `PackageInOnePlace`, `TasksAccounted`, `ThreadsInOrder`: any deliverers, workers, tasks, packages, `Pressure` and `Limit`, both modes | the first workers are workers, these are finitely many, `Null` is no package and no task |
| `PacketFlowProofs` | types, `OneOwner`, `PacketsStayInOrder`, `OnlyReceiversLoseUnits`: any workers, connections and receivers, any number of units, queue slots and packets | workers and connections are not receivers, `Nobody` is no socket, the sizes are positive |
| `PacketFlowProofs` | `KindStreamsComeOut` of `Framing`: heads and tails of any size, any stream and any pieces of it | head and tail have at least a byte |
| `EnetClientProofs` | `WriterOwnsClient`, `ReusedIsUnused`, `KilledReaderHoldsNoHandle`: any threads, handles, objects, sockets and calls | application, receivers and handler are different threads, `Null` is none of anything, handles are finitely many, `MaxReuse` is positive |
| `TcpServerProofs` | `TreeHoldsLiveClients`, `HandlerUsesLiveClient`, `ClientsAreWatched`: any peers, sockets, workers and threads of the application, sets and queue of any size | `Null` is none of these, `SetSize` and `MaxEvents` are positive |
| `RBTreeShape`, `RBTreeProofs` | `RulesHold`, `WalksInOrder`, and that `RBTree` implements `Dictionary` with the key each call was given: any keys, a tree of any height, any pool | the keys are finitely many integers, `Null` is none of them |
| `LockProofs` | `SendersExclude`, `StartsAfterOnload`: any configurations, names, bounds and behaviour of the modules | configurations are sequences of 1 to `MaxMods` entries, `None` is no thread, the master's thread is no slot |

None of the bounds of section 3 is left in these: `MaxCalls`, `MaxHold` and the like
are any numbers. The assumption that a set is finite is one the machine makes true; it
is there because a count (`reader`, `refcnt`) or a walk over a list is compared with it.
`KeepFirst` is a bound of the model on which handles are deleted (section 2): what
`BooksAgree` and `NoUseAfterFree` say is false without it, as the finding at
`thp_handle.c` tells; the other two theorems of that module hold with and without.

Each inductive invariant was checked by TLC on the instance of its run before it was
proved (that of the red-black tree with seven keys and labels computed from the
links), and each was larger than the properties:

The lock. `WriterExcludesAll` is not inductive: the step that grants a write
relies on `reader` being the number of read grants, and the step that decrements
`reader` on what the unlock read of `writer`. The invariant adds `BooksBalance`
(with the recursion count, for the step that clears the flag) and what a thread
knows at each point of a call: inside the critical section it owns it, in the
spin the flag is clear, about to decrement it has a read grant and so nobody
writes. `BooksBalance` needs that `grants` is finite, hence the assumption.

The queue. The indexes are related by `tail = head + count - 1` modulo the ring,
with `tail = head` in the empty ring and one exception: between the move of `tail`
and the write of the slot the count is one behind. The invariant says so per
program counter of the thread that has the lock, that nobody but it is between
enter and leave, that the `count` slots from `head` hold events (but for the one
being popped), and that the set-up steps come in order, so the handler can have
an event only after someone was told that the engine is ready. The proof avoids
modulo: `Wrap` compares as the code does, and one lemma collects its arithmetic.

The timers. That a walk from `first` meets exactly the armed nodes cannot be carried
over an insertion or a deletion as it stands: the walk is as long as the list. `Circle`
says the same without a walk: the two links are inverse to each other on the armed
nodes, and no part of them is closed under `next` but the whole. One closed set before
a step is easily made from one after it, so the steps are a few lines each; a deletion
of the last node empties the list because a node that is its own neighbour is a closed
set. At the end `WalkMeetsAll` goes back to the walk: by the pigeonhole principle it
repeats itself within as many steps as there are nodes, so what it has met is closed.

The pool's handles. `Books` says which threads count as users of a handle at each
place, that the count is their number, and who has the lock: it does not look at the
list. `HolderSeesLiveObject` needs all of it, because what a releasing thread read of
`alive` may be old. `Registry` gives the list as a sequence of the allocated handles
(`IsChain`), appended to and cut in the middle, and says that a handle that is dead and
not yet freed is not the first.

The thread pool. `PackageInOnePlace` is inductive once the two chains are known to be
apart (`Apart`). `TasksAccounted` needs that a package on its way has its task
(`Filled`), and says for each task where it is (`AllLocated`): a step that moves a package
moves its task. `Roster` has the threads: who is not in the watcher's list does not
run, which the watcher's two steps (make, insert) nearly break.

The packet flow. `Owned` says that no unit is twice among the stack, the threads'
variables and the events on their way; there is one lemma for each way a unit
moves (taken from the stack, put on it, dropped, into the queue, out of it), and
the proof about the steps says which move a step is. That the iterator stays in
the array is a pigeonhole argument from it: a stack without duplicates is no
longer than the number of units. The order of the packets needs more: a
connection is with one worker (`OneWorker`), a thread that is about to post holds
the newest packet of its peer (`NewestIsPosted`), and a reported connection is with
no worker that could still read it (`ReportedIsGone`). `FlowStep` sorts all steps by
what they do to the events on their way, and the rest is one case for each sort.

The framing. `Cut` names the bytes of the stream between two places. As long as the pieces
are kind, the receiver is at a packet (`AtPacket`): all before it came out, and the buffer is
the cut from its beginning to what has arrived. One lemma (`UnpackAligned`) says what
`enet_unpack_data` answers there for every length of buffer and input; `Hurts` are the
lengths at which it does not survive. Afterwards the buffer does not begin with the first byte
of a head (`Lost`), which no further byte mends, or the loop has just returned a packet
and left more than a whole one behind (`Overfull`), on which its next turn faults. That
the converse holds too (no unkind stream comes out after all) is the half a test would
hardly look for.

Handles and clients of easenet. `Locks` says that who is behind a handle's lock has it
and nobody else does, threads that were terminated included; `Idlers`, that a handle which is
being made, taken apart, or lies in the table of handles to use again is nobody
else's, although the table is looked at without its lock; `Bodies`, that a handle has its
object to itself and a receiver was started for one object. `WriterOwnsClient` is the
meeting of the three over a wait of seconds, and `KilledReaderHoldsNoHandle` needs that a UDP
receiver reads under the very handle its killer has locked. The invariant says nothing of
the list, which is what the code gets wrong (`handle_reuse`), and does not need it.

The server. `WatchOf` says for each socket that at most one of the four, a worker's set, a
refused task, the pool's queue, a "gone" event, has it, and that whoever is there
is in the tree while the object lives; `Clients`, what the handler may still have in its hands
after it gave the lock back (`hd`), and that a socket number in the tree belongs to the
client it is there for unless it is one of `stray`. `ClientsAreWatched` alone is not
inductive: a worker that closes a socket relies on no other set having it.

ecore. `SendersExclude` follows from the depth of the module lock being the number of
sends on its owner's stack (`LockCounts`), a count of the places in a sequence.
`StartsAfterOnload` needs `Begun`: with one master, the main thread has passed every
module whose thread is made, and a master's index is set just before.

The red-black tree. `RulesHold` is about the tree between calls and says how many black
nodes are above a leaf; both have to go. `Inv` holds inside a call as well: it says that
labels exist for the nodes (an interval the keys of a subtree lie in, and the number of
black nodes on every way down from it) that fit node by node (`Sound`: `Placed`, `Hung`,
`Weighed`, `Coloured`). During an insertion this is said of the tree with the new node
already attached (`View`), and that node, or the one a split has pushed up, does not
weigh (`Hot`); during a removal, of a tree in which the node to be freed (`Hole`) may hold
any key and has its one child on both sides. As the labels fit node by node, a rotation
disturbs them nowhere else: `Replaced` states once what has to hold of a part E that takes
the place of a part D, whose top may be another node, and is the lemma every rotation
goes through. Each case of the code has a lemma in `RBTreeShape` that the new part is sound
(`SplitBetweenSound`), and one in `RBTreeProofs` that the code's pointer writes, in their
order, result in it (`BorrowedRightIs`; for insertions in the lemma about the action). From the
labels everything else follows without the history: nodes lie
in their intervals, so the search that leaves a subtree's interval has missed nothing
(`Gap`), a loop that goes down or up has fewer keys before it at each turn, so it ends in
fewer turns than there are keys (`LoopStops`), and the number of black nodes above a leaf
is the same everywhere (`BlacksAre`). `DictionaryStep` goes over the actions once more for
the set of the keys, which a rotation leaves as it is.

How induction is done. The library's induction theorems take an operator as a parameter,
which the provers cannot instantiate. Where a proof must follow a list, it takes the least
number for which the claim fails (`LeastNatural`, from the well-foundedness of the
naturals) and refutes it; a function defined by recursion (`Walk`) is unfolded by
giving one that satisfies its equation, so that the CHOOSE behind the definition has a value.

Only model-checked: liveness (`SpinningWriterIsServed`, `AcceptedIsDispatched`,
`DueTimerFiresInTheEnd`, `QueuedTaskIsTried`, `ReadableIsRead`, `GoneClientIsRemoved`,
`EveryoneStarts`, `PostedIsDelivered`), which rests on fairness and ENABLED and is out of
this prover's reach; `Tree23Sound` and `Tree23ImplementsDictionary`, for a 2-3 tree is a value
of any depth, `InsertInto` and `Delete` recur over it, and what they compute for every value
would need induction over data; and the two runs that end in a counterexample.

## 5. Plan

Done: `RWLock`, `EventQueue`, `EventTimer`, `ThpHandle`, `ThreadPool`, `PacketFlow`,
`Framing`, `RBTree`, `Tree23`, `EnetHandle`, `EnetClient`, `TcpServer`, `Ecore`. What is left:

1. Proofs of what is not an invariant: that `ThreadPool` implements a bag of tasks, and
   `EnetClient`'s handle locks `SharedLock`, for any number of threads; both need the
   abstract module first.
2. `enet_tcp_server_wait_packet`, and pausing the thread pool.

## 6. Not modelled

Text building and parsing (HTTP tools, the text of a configuration), hashes and
string helpers are pure and have no state. Wrappers of system calls on sockets
appear as choices in the modules that call them. A thread that cannot be made is an outcome in
`Ecore` (`Launch`), `ThreadPool` (`WatcherInsert`) and `EnetClient` (`ReceiverFails`,
`NewUdpDeaf`); it is
left out in the set-up of the event engine, of the pool and of the TCP server, with the other
failures of the constructors, and in `init_module`, where it ends the process. `lbs_mc_lock`,
`get_first_module`, `get_next_module`, `enet_free_reuse_handle`,
`enet_tcp_server_process_recv_ok`, `enet_tcp_server_process_recv_error` and
`lbs_23tree_handle_null_leaf` have no caller. `enet_is_valid_handle`,
`enet_tcp_server_get_client_count` and the counts of the thread pool only read.
`enet_tcp_server_wait_packet` waits for a packet of one client beside the handler and
is left for later. Destroying locks and the failures of the constructors are
listed as findings or hazards; only `enet_new_udp`, whose failure leaves a handle in
the table, is modelled with it. Headers of libraries whose code is not in the
repository have nothing to model.
