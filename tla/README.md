# TLA+ specifications of Actinium-Actor

This directory specifies the actor library and the programs that come with it:
the round-robin scheduler of a worker, the multi-threaded `Runtime`, handlers
that block in it, the single-threaded `ActorSystem` with its `TestKit`, the
`Supervisor`, the `StateMachine` wrapper, the console and the other examples.
TLC checks every module on small instances. TLAPS proves, for every size of the
system, every safety property that the runs check: those of the scheduler, the
runtime, blocking handlers, the single-threaded system, the supervisor, the
state machine, the console and the other programs, that both runtimes implement
one contract, and that the console implements its own. Liveness is left to TLC.
`PROJECT.json` lists the runs, the source lines behind each
definition, the hazards, the mutants and the theorems. Paths below are relative
to the repository.

## The system

| component | source | state | operations | who it talks to |
|---|---|---|---|---|
| Scheduler | `src/scheduler.rs` | mailbox per actor, ready queue | `enqueue`, `next_ready`, `dequeue`, `requeue_if_ready`, `cleanup_empty`, `remove_actor`, `has_pending` | owned by one worker |
| Worker | `src/runtime.rs:20-134` | two receivers, shared actor map, scheduler | `run`, `dispatch`, `remove_actor`, `stop_all_actors` | reads control and message channels, calls user code |
| Runtime | `src/runtime.rs:138-255` | thread handles, `SpawnShared` | `with_threads`, `spawn`, `run`, `shutdown`, drop | control channels, join |
| SpawnShared | `src/spawner.rs` | senders, actor maps, id and worker counters | `allocate_id`, `pick_worker`, `spawn_actor_remote`, `spawn_actor_direct`, `remove_actor` | shared by runtime, workers and contexts |
| Addr, Envelope | `src/addr.rs`, `src/envelope.rs` | id and sender | `send` (blocks for the result), `do_send`, clone, drop | message channel of the actor's worker |
| Context | `src/context.rs` | id, running flag, spawner | `spawn`, `notify`, `send`, `stop` | handed to user code for one call |
| ActorSystem | `src/system.rs` | actors, one channel, flags | `spawn`, `run`, `run_once`, `shutdown`, `dispatch` | client threads through Addrs |
| TestKit, TestProbe | `src/testkit.rs` | a system; recorded messages | `spawn`, `spawn_probe`, `run_until_idle` | ActorSystem |
| Supervisor | `src/supervisor.rs` | factories, child ids, restart counts | `register_child`, `start_all`, `handle_failure` | factories spawn actors |
| StateMachine | `src/stateful.rs` | state sequence, index | `new`, `handle` | wrapped actor |
| Actor traits | `src/actor.rs` | none | declarations | |
| Console | `examples/console.rs` | registry, one slot for the last answer, a state machine per worker | `spawn`, `stop`, `send`, `status`, `list`, `help`, `quit` | reading thread, CommandActor, MetaActor, workers |
| Other programs | `src/main.rs`, `examples/ping_pong.rs`, `examples/state_machine.rs`, `examples/multi_thread.rs` | | scripts: a thread sends and unwraps, main runs or drops | Runtime, ActorSystem, StateMachine |

### What is hard about it

* **Concurrency.** Workers, clients and the owner of the `Runtime` share
  channels, counters and actor maps. A worker takes an actor out of the map,
  runs user code without a lock, and puts it back, while other threads insert.
* **Order.** A message passes channel, mailbox and ready queue. A new actor
  reaches its worker on one channel and its first message on another.
* **Failure.** `handle` may panic (caught), `stopped` may panic (not caught: the
  thread ends), `started` may panic on the spawning thread. Each must leave
  nobody blocked in `send` or `spawn`.
* **Shutdown.** `shutdown(&self)` races `spawn(&self)`. `run` sleeps for 5 ms,
  then sends Shutdown, which a worker reads before any message.
* **Blocking.** `Context::send` and `Runtime::spawn` inside a handler stop the
  worker until another worker, or the same one, has answered.
* **Polling.** The console's answer does not come back with its command. It
  passes two actors and a slot that the reading thread polls, while the next
  lines are typed. The test kit polls beside a thread that is still sending.
* **Bookkeeping.** The supervisor identifies children by position in one list
  and factories by position in another; reports of failures come from the user,
  late, twice, or for a child that was already replaced or still runs.

### What makes each part correct

* Scheduler: an actor is queued exactly when it has work, once; turns go round
  robin; no actor starves; no empty mailbox stays in the map.
* Runtime: no envelope and no actor is mislaid; messages of an actor are handled
  one at a time, in order, none skipped; a message is lost only when its actor
  is gone; every blocked `send` and `spawn` comes back; `run` and drop end with
  no thread left; a worker that ends has stopped everyone it had when it was told.
* Blocking handlers: everyone who waits is owed an answer by one worker; a
  worker is blocked for good exactly when it waits, perhaps in a circle, for
  itself; everyone else comes back, and Shutdown is heard.
* ActorSystem: the same contract; `run` ends when nobody can send any more, not
  before, and leaves nothing behind; polling returns.
* Supervisor: its records agree, restarts are bounded, every child's place is
  that of a factory, and nobody is let go but the child that was reported.
* StateMachine: messages meet the states in cyclic order.
* Console: each line takes effect once and gets its own answer; reports count
  every message given before; nothing reported as sent is lost at the end.
* Other programs: each comes to its end, and when it prints its last line the
  work the line speaks of is done.

## The modules

| module | what it is | checked by |
|---|---|---|
| `Scheduler` | the methods of the scheduler as operators on a value; no state of its own | used by `RoundRobin`, `Runtime`, `Blocking`, `Console` |
| `RoundRobin` | a worker's use of its scheduler, with a history variable for the order of turns | `round_robin`, `RoundRobin_proofs` |
| `ActorContract` | abstract: what users of an actor may rely on, without threads, channels or mailboxes | refined by `Runtime`, `ActorSystem` |
| `Runtime` | workers, shared spawn state, clients, owner | `runtime_hostile`, `runtime_clean`, `runtime_liveness`, `worker_crash`, `run_loses`, `Runtime_proofs` |
| `Blocking` | workers whose handlers call `Context::send` and `Runtime::spawn`, without a bound on messages | `blocking`, `Blocking_proofs` |
| `ActorSystem` | the single-threaded system and the test kit's loop | `actor_system`, `ActorSystem_proofs` |
| `Supervisor` | both strategies | `supervisor`, `supervisor_wrong_child`, `Supervisor_proofs` |
| `StateMachine` | the wrapper, as actions on a function of machines | used by the next; `Programs_proofs` |
| `Programs` | `main.rs`, three examples, the probe's tests, any machine; each actor a `StateMachine` | `programs`, `Programs_proofs` |
| `ConsoleContract` | abstract: what the console promises to the person who types | refined by the next |
| `Console` | threads, actors and the worker of the console | `console`, `Console_proofs` |
| `Scheduler_proofs` | lemmas: what each operation of the scheduler does to mailboxes and queue | TLAPS |
| the other `_proofs` | theorems and proofs about the module of that name, `Programs_proofs` about `StateMachine`, too | TLAPS |

Definitions keep the names of the source (`Enqueue` is `enqueue`, `home[a]` is
the `worker_idx` an actor was spawned with). A definition introduced as "a slip"
is a plausible mistake in the definition after it. No specification uses it: it
is the mutant that shows that a property can fail.

### Scheduler and RoundRobin

A scheduler is a record of `mailboxes`, a function whose domain is the key set
of the `HashMap`, and `ready_queue`. An empty mailbox and a missing one are
different values, as in the code. A method that returns a value and changes the
scheduler is two operators (`NextReady`, `AfterNextReady`).

`RoundRobin` has the steps of `Worker::run` that touch the scheduler: an
envelope arrives (between turns, because the worker that dispatches is the
thread that drains), a turn begins (`next_ready`, `dequeue`), a turn ends, with
the actor alive or stopped. `passed[b]` is the set of actors that had a turn
since `b` entered the queue.

### Runtime

One step is what a thread does between two points where another thread can see
or change something: a channel operation, a lock, a call of user code.

| code | model |
|---|---|
| `control_rx`, `msg_rx` of worker w | `control[w]`, `msgs[w]`: sequences; an id stands for SpawnActor, 0 for Shutdown |
| `actor_maps[w]` | `actor_map[w]`: the set of keys |
| place in `Worker::run` | `wpc[w]`: control, drain, idle (`recv_timeout`), handling, on_stop, stop_all, stop_hook, exited, crashed |
| the cell taken out of the map, the envelope in `dispatch` | `cell[w]`, `env[w]` |
| the list in `stop_all_actors` | `stop_ids[w]` |
| `next_id`, `next_worker` | the same |
| Addrs that exist | `known` |
| a client inside `spawn` or `send` | `cpc[c]`, `carg[c]` |
| the owner inside `shutdown`, `run`, drop | `rt_pc`, `rt_op`, `rt_at` |
| answer to a sender | `fate[m]`: done is `Ok`, lost is `Err(ActorNotRunning)` |

User code is a state (`handling`, `on_stop`, `stop_hook`, a client's `started`)
in which its thread may spawn, notify, stop or panic; `UserMay` says which.

Decisions:

* Messages are numbered in the order in which channels accepted them.
* The result is sent inside `handle`'s closure, just before the actor is put
  back. `HandlerReturn` does both in one step. A sender that runs between the
  two can only append to the channel, which this worker does not read before it
  has put the actor back; a spawn beside it inserts another key.
* When a thread ends its receivers and its scheduler are dropped in one step.
  Between the drops another thread can at most get a message accepted that is
  dropped a moment later, like one accepted just before the step.
* A `send` to a worker that has ended returns `RuntimeShutdown`, changes nothing
  and is no step.
* `Worker::remove_actor` handles an id that has left the map meanwhile. During
  `stop_all_actors` nothing but the worker removes from its map, so that branch
  cannot be taken and `StopNext` does not have it.
* `Runtime::spawn` takes an id and then a worker from two atomic counters;
  `SpawnBegin` does both in one step. A spawn on another thread between the two
  only changes which of two new ids goes to which worker, and an id is a name.
* `try_recv` on the control channel and `recv_timeout` on the message channel
  never report Disconnected: the worker's own `Arc<SpawnShared>` holds a sender
  of each.

### Blocking

`Runtime` lets handlers notify and spawn through their `Context`; here they
block. A thread has at most one message or spawn request under way, so a message
is its sender and its receiver, and a spawn request in a control channel is the
worker whose handler waits for it. With that the state is finite although
clients and handlers go on for ever. `Runtime::shutdown` is one step for each
worker it signals, in their order; `signalled` is how far it has come, and
requests go on between. Actors are placed on workers in any way.
New actors only matter as requests that occupy a worker. A `started` hook and
`Context::stop` are left to `Runtime`; handlers may panic in their spawn's
`expect`, which kills the actor.

`Owes(w, t)` says that worker w has what thread t waits for. A worker is `Stuck`
when it belongs to a set of workers of which each is blocked and waits for one
of the set.

### ActorSystem

One thread owns the system. Its methods take `&mut self`, so it makes one call
at a time; clients send meanwhile. Actors may keep Addrs of earlier actors
(`keeps`), which hold the channel open until the actor is dropped. A panic is
not caught: it unwinds out of the call and the system is dropped. `spawn` after
`run` panics in its `expect`; for everyone else this is `DropSystem`. `handle`
and `stopped` may notify actors whose Addr they keep; a `started` hook, which
could do so too before anyone has the new actor's Addr, is not given messages to
send.

### Supervisor

Factories are numbered in the order of registration; `maker[a]` is a history
variable that says which factory spawned `a`. Nothing in the library calls the
supervisor and nothing limits who does: factories are registered, `start_all` is
called and failures are reported in any order and any number of times.
`HandleFailure` takes an actor that has failed, perhaps reported before, one that
still runs, as the module's own tests report them (`src/supervisor.rs:331`), and
an id that no factory returned (`Stranger`). An index past the factories panics
(`src/supervisor.rs:103`) and ends the supervisor's actor. Strategy and limit are
chosen in the initial state. `RetainOthers` is `Vec::retain`, said by what it
leaves: the other positions, in their order.

What the supervisor can promise depends on its user, and two history variables
say what the user did: `doubled`, `start_all` was called while there were
children; `misreported`, an id was reported that had not failed. No property of
the run `supervisor` needs reports to be right. A child that is reported while it
runs is let go and runs on; `OnlyReportedLetGo` says that it is the only one.

### StateMachine and Programs

`StateMachine` has one machine per actor: the states, the index, whether a
handler runs. `log` records the states in which messages were handled.

A program is a record: which runtime it uses, who sends how many messages to
whom, and the states of the actors. A client thread sends, waits, unwraps, and
goes on. The main thread starts, runs (`ActorSystem::run`, `Runtime::run` or
`run_until_idle`), joins and drops in the order of its source. In the programs
with a `Runtime` every actor has a worker of its own, because `pick_worker`
counts round and there are as many threads; so the channel is the order of
handling, and mailboxes are left to `Runtime`. A plain actor is a machine of one
state. `Any` is a program with any sequence of up to three states whose handler
may stop or panic. The probe's tests are the script `Probe`; `seen` is a history
variable, the messages that had been posted when `run_until_idle` began.

### Console

`MetaActor` is the first actor of its runtime and the others are spawned through
its `Context`, so all live on worker 0: one channel, one scheduler, one handler
at a time. The other worker thread has no actor. A line is its command, whether
its argument is missing, bad or good, and the id it names, which may be no
worker's. An answer is its kind, the number of the line it answers and what it
reports. `given` is a history variable.

`ConsoleContract` has lines, answers and workers, and nothing between: a line is
typed, answered, printed. `Pending` maps the detailed state to its answer: on its
way to the slot, in the slot, or on its way to the reading thread. Of the
wording, only what an answer is about is modelled, and the event log is not.

## The runs

`tlc -workers 2 -config X.cfg M` in this directory.

| run | cfg, module | shows | bounds |
|---|---|---|---|
| `round_robin` | `RoundRobin.cfg`, RoundRobin | queue exact, no empty mailbox, no second turn, no starvation | 3 actors, mailboxes up to 2: the smallest instance where two actors could keep a third waiting and a mailbox outlives a turn |
| `runtime_hostile` | `RuntimeHostile.cfg`, Runtime | no envelope or actor mislaid, addresses only of registered actors, workers end only when told to, threads joined, only actors born late left unstopped, contract kept, with user code that does everything (but `do_send`) | 2 workers, 1 client, 2 actors, 2 messages, 1 shutdown: a parent and a child, or two actors on two workers, with a crash of one |
| `runtime_clean` | `RuntimeClean.cfg`, Runtime | everybody stopped before a worker exits, `spawn` fails only beside `shutdown`, contract kept | 1 worker, 2 clients, 2 actors, 3 messages: two clients race to one actor; order and skipping need three messages |
| `runtime_liveness` | `RuntimeLiveness.cfg`, Runtime | every `send` and `spawn` comes back, `run` and drop return | 2 workers that may crash or shut down |
| `worker_crash` | `RuntimeCrash.cfg`, Runtime | violated: a panic in `stopped` ends the worker | |
| `run_loses` | `RuntimeRunLoses.cfg`, Runtime | violated: `run` returns with an accepted message unhandled | |
| `blocking` | `Blocking.cfg`, Blocking | who waits is owed; stuck workers stay stuck; every other call returns; Shutdown is heard | 2 workers, 3 actors, 2 clients: a worker waiting for itself, two waiting for each other, a client whose message lies with a stuck one; two actors share a worker; messages unbounded |
| `actor_system` | `ActorSystem.cfg`, ActorSystem | contract kept; `run` returns when nobody holds an Addr, not before, and leaves nothing; with no client it returns or is held open by actors for good; polling returns | 2 clients, 2 actors, 3 messages, panics |
| `supervisor` | `Supervisor.cfg`, Supervisor | records agree, restarts bounded, factories found, only the reported child let go, AllForOne keeps one whole generation | 3 factories, limits 0 to 2, 7 actors, any order of calls: three children with a child restarted to its limit and given up, `start_all` twice, three rounds of AllForOne with two children |
| `supervisor_wrong_child` | `SupervisorWrongChild.cfg`, Supervisor | violated: OneForOne restarts another child | |
| `programs` | `Programs.cfg`, Programs | cyclic order; the last line is true; who can panic, and when; the probe has what was posted; all programs end | the programs' own numbers (multi_thread with 3 of its 4 actors: workers and clients do not differ); all sequences up to 3 states, 7 messages: more than two rounds |
| `console` | `Console.cfg`, Console | the contract; two polls are enough; nothing lost at the end; stop only unregisters; lines answered | 6 lines, 2 workers: spawn, three messages (a full round of states), stop, status; the code gives up after 40 polls, the model after 2, which is never reached |

No symmetry is used: actors and messages are numbers, and the clients are few.
Deadlock is checked for `Runtime`, `RoundRobin`, `ActorSystem`, `Programs` and
`Console`; their `Finished` or `Ending` steps say in which states the program is
over. A supervisor is passive: it stops when nobody calls it or a bound is
reached. `Blocking` is about deadlocks: which ones happen is its properties'
matter. These two say CHECK_DEADLOCK FALSE. Where a property begins with
`TypeOK`, the run checks the module's type invariant with it.

`StoppedAtExit` is checked with hooks that neither spawn nor panic. A child
spawned from a `stopped` hook, or from a `started` hook on a client's thread,
after `stop_all_actors` took its list is never stopped (`src/runtime.rs:130`);
nothing in the repository promises that it is. With such hooks
`OnlyNewbornLeftBehind` says that this is the only way: whoever was in the map
when Shutdown came is stopped, and an actor is left behind in the step of its
birth or never.

### Fairness

`Runtime`: weak fairness of each worker's thread, of each client inside a call of
the library and of the owner inside `shutdown`, `run` or drop. The operating
system schedules threads that can run, and `recv`, `recv_timeout` and `join`
return when they can. Nobody has to call anything. The user's part of the
assumption is that `handle` and the hooks return; it is the one the library
itself has to make, since it cannot pre-empt them. `MaxMsg` bounds the messages.
`RoundRobin`: weak fairness of beginning and ending a turn, which is that of the
worker's thread; arrivals may stop. `ActorSystem`: weak fairness of the loop, of
unwinding and of a client taking its answer. Liveness is claimed only while the
owner is inside `run`, polls, or after the system is gone. `OwnerReturns` claims
of `run` that, once no client holds an Addr, it returns or is held open for good
(`HeldOpen`): the channel is empty and an actor that lives keeps an Addr, its own
or another's. No message of the system itself, and no client, ends that.
`Programs`: every thread runs, including the scripts' own. `Console`: the same
for the worker, the main thread and the reading thread inside a command; nobody
has to type.

`Blocking`: weak fairness of each worker, of a client that has its answer and of
`Runtime::shutdown` once it has signalled the first worker,
and strong fairness of a worker that finds its control channel empty. Without
the last, handlers on other workers that ask for spawns without end can hold a
worker in its control loop (`src/runtime.rs:31`), one request after the other,
so that its messages are never read. It takes three workers. The assumption is
that requests do not come just in time for ever, which the code does not
enforce. The message channel needs no such assumption: `ShutdownHeard` shows
that senders who wait for their answers cannot keep a worker in its drain loop.
Threads that call `do_send` without end could (`src/runtime.rs:50`); this is
outside the model.

## Where documents and code disagree

With a run that shows it (`findings` in `PROJECT.json`):

* `DEVELOPMENT.md:104`, panics don't crash workers: a panic in `stopped` does.
* `README.md:78` and the test `scheduler_fairness`, `run` waits for the work that
  was sent: it waits 5 ms.
* `src/supervisor.rs:7`, only the failed child is restarted: after a child was
  given up, positions and factories no longer agree.


Shown by a property that holds, which states what the code does instead:

* `DEVELOPMENT.md:235`, workers exit when all Addrs are dropped: they hold
  senders of their own channels, and end only when told to
  (`WorkersLast`).
* `src/supervisor.rs:9`, if one child fails all are stopped and restarted: nobody
  is stopped. The others run on and are only forgotten (`OneGeneration`).
* `src/system.rs:59`, `run` exits when `shutdown()` is called: it takes
  `&mut self` and cannot be called during `run`, which sets the flag again
  (`RunEndsOnlyUnreachable`).
* `src/addr.rs:53`, `send` from a handler will deadlock: on the same worker and
  in a circle of workers; otherwise it returns (`CallsReturn` of `Blocking`).
* `examples/console.rs:21`, stop a worker: it leaves the registry, and its actor
  lives on until the end (`StopOnlyUnregisters`).
* `examples/multi_thread.rs:139`, the last line: `run` ends the workers 5 ms
  after its start, so with tasks of 50 ms the unwrap of a client's later send
  panics and main panics with it in `join`; the only panics there are
  (`PanicsExplained`), and the line is true when it is printed (`DoneMeansAll`).

Seen while modelling, without a run, because they follow from one line:

* `src/stateful.rs:65`, the actor starts in `A::initial_state()`: `new` starts at
  index 0 and never calls it.
* `src/supervisor.rs:29`, max restarts per child: under AllForOne every restart
  sets all counts to 0, so the limit is only ever reached when it is 0.
* `src/supervisor.rs:18`, when a child panics the supervisor applies its
  strategy: nothing in the library calls `handle_failure`.
* `src/spawner.rs:65-66`, the two `expect`s: both can fail beside `shutdown`;
  `SpawnPanicsOnlyOnShutdown` shows that this is the only way when hooks do not
  panic.

## Proofs

`RoundRobin_proofs` proves, for every set of actors, every set of envelopes and
every bound:

* `SchedulerInvariant`: `Spec => []IInv`, where `IInv` is `TypeOK`, `ReadyOnce`,
  `ReadyIffPending`, `NoEmptyMailbox` and `QueueOrder`;
* `ReadyOnceHolds`, `ReadyIffPendingHolds`, `NoEmptyMailboxHolds`,
  `QueueOrderHolds`: its parts;
* `RoundRobinOrder`: the action property `NoSecondTurn`.

No part is inductive alone. `ReadyOnce` needs `ReadyIffPending`:
`requeue_if_ready` pushes without looking, which is safe only because the actor
whose turn it is is not queued. `ReadyIffPending` needs `ReadyOnce`: when
`next_ready` pops an actor, no second entry may stay behind. `NoSecondTurn`
needs `QueueOrder`, which relates positions in the queue to the history
variable; `next_ready` takes the first entry because, by `ReadyIffPending`,
every entry has work. Assumptions: `NoActor` is not an actor, `MaxMailbox` is a
natural number.

`Runtime_proofs` proves, for every number of workers and clients, every bound
and, unless said otherwise, every user code:

* `RuntimeInvariant`: `Spec => []RInv`;
* `AddressedAreRegisteredHolds`, `CellInOnePlaceHolds`, `JoinedAtEndHolds`;
* `StoppedAtExitHolds`, when `started` and `stopped` spawn nobody (`QuietHooks`);
* `OnlyNewbornLeftBehindHolds`, an action property, whatever they do;
* `SpawnPanicsOnlyOnShutdownHolds`, `ServesUntilShutdownHolds` and with it
  `WorkersLastHolds`, when they do not panic (`PoliteHooks`).

`RInv` is `CInv` (actors) and `OwnerOK` (the owner). `AddressedAreRegistered`
rests on the way of an id through the system: fresh in the hands of one client
(`Allocated`), then once in the control channel of its own worker, not yet born
(`PendingOnce`), then in the map. Without "once" a second copy would bring a
stopped actor back to life; without "in no channel yet" a failing `started`
could lose an actor that has been registered. `CellInOnePlace` also needs
`CellHeld`: the worker holds a cell exactly while it runs user code of that
actor, and the list of `stop_all_actors` never names an actor outside the map.
`OwnerOK` says that the workers before `rt_at` have been joined; it needs that a
thread that has ended does not start again (`TerminatedForGood`).
`StoppedAtExit` adds that this list is the whole map (`StopsAll`), which is what
a spawning hook would break. `OnlyNewbornLeftBehind` needs no more than
`CellInOnePlace` and `CellHeld`: when the list is taken nobody is outside map
and list. `SpawnPanicsOnlyOnShutdown` adds that before `shutdown` either the
runtime is in use and no worker has seen Shutdown, or `run` or drop owns it and
nobody is spawning; the same invariant (`PoliteInvariant`) gives
`ServesUntilShutdown`. TLC checks the latter with hooks that panic, too.
Assumptions: `N` is a positive natural number, the bounds are natural numbers.
The scheduler is not looked at: these theorems hold whatever order it serves
actors in.

The second part of `Runtime_proofs` follows the messages, for every number of
workers, clients, actors and messages and every user code:

* `MessageInvariant`: `Spec => [](RInv /\ MInv)`;
* `EnvelopeInOnePlaceHolds`;
* `ContractKept`: `Spec => KeepsContract`, the runtime implements
  `ActorContract`.

`MInv` says where an accepted message is: in the channel of its actor's worker,
in the actor's mailbox there, or in the worker's hand (`Placed`, `InHand`), and
nowhere else. `Ordered` says that channel and mailbox are in the order of
acceptance and that the mailbox came first; this makes "one place" inductive (a
sequence of increasing numbers has no number twice) and gives the contract's
order of handling. `LostIsGone` says that the actor of a lost message is gone:
stopped, in the hands of its own `stopped` call, or on a thread that has ended.
`SchedOK` is the scheduler's invariant, until `stop_all_actors` takes it apart.
The refinement maps an actor to unborn while it is not registered and to dead
when it is gone. It needs two more facts. `Keeps`: registered actors stay
registered on their worker, and who is gone stays gone, through every step. And,
from `Ordered`, the message that a turn takes is the oldest of its actor, so that
the handler's step is the contract's. The proof uses the scheduler only through
the lemmas of `Scheduler_proofs`, which hold for any actors and envelopes.

`Blocking_proofs` proves, for every number of workers, clients and actors and
every placement of the actors:

* `BlockingInvariant`: `Spec => []BInv`;
* `EveryWaitIsOwedHolds`;
* `StuckForeverHolds`: the action property `StuckForever`.

`EveryWaitIsOwed` speaks of threads and workers and is not inductive: a thread
could have two requests with one worker, and one answer would leave a debt to a
thread that no longer waits. `Accounted` counts requests instead: a request, a
message or a spawn, is in one place of one worker, its thread waits, and every
waiting thread has one. It needs that nothing is twice in a queue
(`ChannelsOK`, `SchedOK`), that a mailbox holds messages of its own actor, and
that a worker waits only inside a blocking call (`WaitsInCall`): otherwise a
handler could post a second request. Every step then posts a request, moves one,
or answers some (`Posted`, `Moved`, `Answered`). `StuckForever` follows: a
worker that waits takes no step and loses nothing it was given, so what it owes
to another stuck worker it owes for ever. Assumptions: `N` is positive, actors
are positive numbers, and clients are neither workers nor the number that stands
for Shutdown.

`ActorSystem_proofs` proves, for every number of clients, actors and messages,
with and without panics:

* `SystemInvariant`: `Spec => []AInv`;
* `StoppedIsFinalHolds`, `RunEndsOnlyUnreachableHolds`, `RunLeavesNothingHolds`;
* `ContractKept`: the system implements `ActorContract`.

`AInv` adds to `TypeOK`: Addrs and messages are those of spawned actors
(`Known`); what the owner has in hand at each place of its code (`OwnerAt`); the
channel is exactly the queued messages, in order (`Queue`); one message is
handled at a time (`InHand`); every spawned actor is in the map, being stopped
or stopped (`StopsOnce`). `RunOver` is what makes the end of `run` safe: once the
loop is left nobody holds an Addr, and as only the owner could make one, nobody
ever will. Assumptions: the bounds are natural numbers.

`Supervisor_proofs` proves, for every number of factories, every limit and every
order of registrations, starts, failures and reports, right or wrong:

* `SupervisorInvariant`: `Spec => []SInv`;
* `RecordsAgreeHolds`, `OneGenerationHolds`, `RestartBudgetHolds`;
* `OnlyReportedLetGoHolds`: the action property `OnlyReportedLetGo`.

`RestartBudget` compares the number of actors ever made with the limit, though
counts are kept per child and forgotten when a child is given up. `Descended`
finds for each actor a slot, the actor of `start_all` it descends from, and a
generation, the restarts in between. No two actors share both, so there are no
more actors than slots times generations; a child's generation is its restart
count, which the limit bounds. `start_all` adds slots (`started`), as often as
it is called. `FactoryFound`, a part of `RecordsAgree`, rests on `child_ids`
never growing but in `start_all`: on an empty list it fills the positions of the
factories, a restart keeps the length and `retain` shortens it. `OneGeneration`
needs that no count is raised under AllForOne (`NoCounts`), so that nobody is
given up while the limit is not 0. `OnlyReportedLetGo` needs that no child is
listed twice, which `ListsAgree` says. Assumptions: the bounds are natural
numbers.

`Programs_proofs` proves two things. Of `StateMachine` alone,
`CyclesInOrderHolds`: `MachineSpec => []CyclesInOrder`, for any actors, any
sequences of states and any number of messages, with handlers that may stop or
panic. `CyclesInOrder` speaks of the log only and is not inductive. `MInv` adds
`MachinesOK` (types) and `InStep`, which ties the index to the length of the log:
it is that length modulo the number of states, or one behind while a handler
runs. The step of the index is then `ModStep`, `((n % k) + 1) % k = (n + 1) % k`,
which the SMT solver does not find for a variable k; it is derived from the
uniqueness of quotient and remainder (`ModUnique`, `SmallMultiple`). There are no
assumptions on constants.

Of `Programs`, for every number of worker threads in `multi_thread.rs`, and, for
program `Any`, every number of actors, sequence of states and number of messages:

* `ProgramsInvariant`: `Spec => []PInv`;
* `ProgramsRunMachines`: `Spec => MachineSpec`, the programs implement the
  machines on their own;
* `ProgramsCycleInOrder`, `DoneMeansAllHolds`, `PanicsExplainedHolds`,
  `IdleRecordsAllSentHolds`.

`DoneMeansAll` is about the last state of a script and says nothing of the way
there. `PInv` counts: what a client has sent (`at`), less what lies in its
channel, has left the channel, and the logs of its actors together are exactly
that (`Whole`), each with its `Share`, unless the actor was stopped or the client
was told (`NoLoss`). `Lane` adds that the channel holds the next messages in
order; `Phase` that a client waits exactly while one message is on its way, and
that the answer it has is its last round, which is what `main.rs` tells the
printer; `Served` that a log has each round once, in order, and that an actor
runs only in the hands of its own worker. With the client at its end and the
channel empty, the log is the whole script, and the index is back at 0 because
the rounds are a multiple of the states. `Endings` says who may have ended:
workers of `multi_thread.rs` while clients still send, all others only after
them; from it `PanicsExplained`. `Probed` is the same count for the test kit:
what was posted when `run_until_idle` began has left the channel when it ends.
Assumptions: actors are natural numbers and 1 and 2 are among them, the bounds
are natural numbers, and the sets of states and of messages contain those that
the scripts name (`StateAssumption`, `MsgAssumption`).

`Console_proofs` proves, for every number of lines and of workers, whatever is
typed:

* `ConsoleInvariant`: `Spec => []CInv`;
* `TwoPollsHolds`, `NothingLostAtExitHolds`, `StopOnlyUnregistersHolds`;
* `ConsoleKeepsContract`: `Spec => KeepsContract`, the console implements
  `ConsoleContract`.

None of these is inductive. What makes the console correct is that there is
little under way at a time, and this is `OneLine`: a line is handed to the
command actor (`Asked`), has been handled and left its answer, or an errand to
`MetaActor` or to a worker (`Executed`), and is then polled for, once
(`Polled`, `Told`) or twice (`Again`). So channel and scheduler hold two messages
at most, the errand or its answer and a poll. That they are one queue in the
order of sending (`Queued`, `QueuedBoth`) is the scheduler's round robin: of two
actors with a message each, the one that got its message first has the first
turn; the lemmas are those of `Scheduler_proofs`. Hence an errand is done before
the poll behind it is handled, and its answer comes before the next poll: the
second poll finds it. `Counted` says that a worker has counted what it was given,
less the one message of this line that may still be queued, and `Threads` that
`quit` is read only when no line is under way; together they give
`NothingLostAtExit`. `Population` bounds the registry by the ids given out. The
refinement takes the answer from where it is: in a queued message, in the slot,
or in the result of the poll (`Place`). It moves from one to the next without
being lost, doubled or left behind for a later line, so that each step is one of
the contract's or a stutter. Assumptions: the bounds are natural numbers and
`MaxAttempts`, 40 in the code, is not 0: with 0 the console would give up after
one poll, before an answer that has to pass two actors.

The invariants were also checked with TLC on small instances: `BInv`, `AInv`,
`CInv` and `PInv` with the constants of their runs, `SInv` with two children,
limits 0 and 1 and four actors, those of `Runtime` with two workers and one
client, and with one worker and two.

Only model-checked is liveness, because fairness and ENABLED are out of the
prover's reach: `NoStarvation`, `CallsReturn`, `OwnerReturns`, `ShutdownHeard`,
`SendsReturn`, `ProgramsEnd`, `LinesAnswered`; and, as a counterexample is not a
theorem, the three violations. Every other property of a run is a theorem.

## Not modelled

* A flood of `do_send` that never lets the drain loop end, actors that notify
  each other for ever: messages sent without waiting are bounded. The first is a
  hazard of the code (`src/runtime.rs:50`) that no property covers; so is the
  control loop that spawns without end keep busy (`src/runtime.rs:31`, see
  Fairness).
* The actor traits (`src/actor.rs`): declarations.
* Types, message contents, results, downcasts: the compiler checks them.
* Overflow of the 64-bit counters: out of reach of any execution.
* Timing: a sleep or a timeout may end at any time. Wording, colours and logs of
  the programs.

## Plan

Done: all modules and runs above, and a theorem for every safety property.

What could follow:

1. A composition of `Supervisor` and `Runtime`: factories that spawn through a
   shared runtime, from a handler.
2. A refinement of `ActorContract` by `Blocking`, whose messages would need names
   for it.
3. `Programs` with more actors than worker threads, over `Scheduler` as
   `Console` is.
