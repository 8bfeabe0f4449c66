------------------------------ MODULE Runtime ------------------------------
(***************************************************************************)
(* The multi-threaded runtime: N worker threads (Worker, src/runtime.rs),  *)
(* the state they share (SpawnShared, src/spawner.rs), the thread that     *)
(* owns the Runtime, and client threads that spawn actors and send to them *)
(* through Addr (src/addr.rs).                                             *)
(*                                                                         *)
(* A step is what one thread does between two points where another thread  *)
(* can see or change something: one channel operation, one lock, one call  *)
(* of user code.  User code (handle, started, stopped) is a state in which *)
(* its thread may spawn, notify, stop or panic, as far as UserMay says.    *)
(*                                                                         *)
(* Message contents and results are left out.  A message is its number in  *)
(* the order in which the channels accepted it.                            *)
(***************************************************************************)
EXTENDS Scheduler, FiniteSets

CONSTANTS
    N,             \* worker threads: with_threads(n)
    Client,        \* client threads
    UserMay,       \* what user code may do, see Capability
    MaxId,         \* bound: actors allocated
    MaxMsg,        \* bound: messages accepted
    MaxShutdown    \* bound: calls of Runtime::shutdown before run or drop

Capability == {"stop", "handler_panic", "handler_spawn", "notify", "do_send",
               "started_spawn", "started_panic", "stopped_spawn",
               "stopped_panic", "drop_addr"}

ASSUME NAssumption == N \in Nat \ {0}        \* assert!(n > 0)
ASSUME BoundAssumption == MaxId \in Nat /\ MaxMsg \in Nat /\ MaxShutdown \in Nat
ASSUME UserAssumption == UserMay \subseteq Capability

Worker == 0 .. N - 1
ActorId == 1 .. MaxId
Msg == 1 .. MaxMsg
Shutdown == 0              \* ControlMsg::Shutdown; an ActorId stands for SpawnActor
None == 0                  \* no actor, no message

VARIABLES
    control,       \* [Worker -> Seq]: the control channels
    msgs,          \* [Worker -> Seq(Msg)]: the message channels
    actor_map,     \* [Worker -> SUBSET ActorId]: keys of the shared actor maps
    sched,         \* [Worker -> scheduler]
    wpc,           \* [Worker -> program counter of Worker::run]
    env,           \* [Worker -> message being dispatched]
    cell,          \* [Worker -> actor taken out of the map]
    stop_ids,      \* [Worker -> ids still to remove in stop_all_actors]
    next_id, next_worker,       \* the counters of SpawnShared
    home, life,    \* [ActorId -> worker], [ActorId -> stage of its life]
    known,         \* actors some Addr exists for
    sent,          \* number of messages accepted
    target, fate,  \* [Msg -> actor], [Msg -> what became of it]
    cpc, carg,     \* [Client -> program counter, actor or message]
    rt_pc, rt_op, rt_at,        \* the owner of the Runtime
    shutdowns      \* calls of Runtime::shutdown so far

chanVars   == <<control, msgs>>
workerVars == <<sched, wpc, env, cell, stop_ids>>
spawnVars  == <<next_id, next_worker, home, life, known, actor_map>>
msgVars    == <<sent, target, fate>>
clientVars == <<cpc, carg>>
rtVars     == <<rt_pc, rt_op, rt_at, shutdowns>>
vars == <<chanVars, workerVars, spawnVars, msgVars, clientVars, rtVars>>

TypeOK ==
    /\ control \in [Worker -> Seq(ActorId \cup {Shutdown})]
    /\ msgs \in [Worker -> Seq(Msg)]
    /\ actor_map \in [Worker -> SUBSET ActorId]
    /\ wpc \in [Worker -> {"control", "drain", "idle", "handling", "on_stop",
                           "stop_all", "stop_hook", "exited", "crashed"}]
    /\ env \in [Worker -> Msg \cup {None}]
    /\ cell \in [Worker -> ActorId \cup {None}]
    /\ stop_ids \in [Worker -> SUBSET ActorId]
    /\ next_id \in 1 .. MaxId + 1 /\ next_worker \in 0 .. MaxId
    /\ home \in [ActorId -> Worker]
    /\ life \in [ActorId -> {"none", "started", "live", "stopped", "lost"}]
    /\ known \subseteq ActorId
    /\ sent \in 0 .. MaxMsg
    /\ target \in [Msg -> ActorId \cup {None}]
    /\ fate \in [Msg -> {"unsent", "queued", "handling", "done", "lost"}]
    /\ cpc \in [Client -> {"idle", "started", "confirm", "wait", "panicked"}]
    /\ carg \in [Client -> Nat]
    /\ rt_pc \in {"open", "signal", "join", "ended"}
    /\ rt_op \in {"none", "shutdown", "run", "drop", "finish", "unwind"}
    /\ rt_at \in 0 .. N
    /\ shutdowns \in 0 .. MaxShutdown

Init ==
    /\ control = [w \in Worker |-> <<>>]
    /\ msgs = [w \in Worker |-> <<>>]
    /\ actor_map = [w \in Worker |-> {}]
    /\ sched = [w \in Worker |-> New]
    /\ wpc = [w \in Worker |-> "control"]
    /\ env = [w \in Worker |-> None]
    /\ cell = [w \in Worker |-> None]
    /\ stop_ids = [w \in Worker |-> {}]
    /\ next_id = 1 /\ next_worker = 0
    /\ home = [a \in ActorId |-> 0]
    /\ life = [a \in ActorId |-> "none"]
    /\ known = {}
    /\ sent = 0
    /\ target = [m \in Msg |-> None]
    /\ fate = [m \in Msg |-> "unsent"]
    /\ cpc = [c \in Client |-> "idle"]
    /\ carg = [c \in Client |-> None]
    /\ rt_pc = "open" /\ rt_op = "none" /\ rt_at = 0 /\ shutdowns = 0
-----------------------------------------------------------------------------
(* The receivers of a worker's channels are dropped when its thread ends,  *)
(* and a send on them fails from then on.                                  *)
Terminated(w) == wpc[w] \in {"exited", "crashed"}

(* The messages in S will never be handled: their envelopes, and with them *)
(* the result_tx of a blocked sender, are dropped.                         *)
Lose(S) == [m \in Msg |-> IF m \in S THEN "lost" ELSE fate[m]]

(* Envelope construction and tx.send, in Addr::send and Addr::do_send. On  *)
(* a terminated worker both return RuntimeShutdown and nothing happens.    *)
Post(a) ==
    /\ sent < MaxMsg
    /\ ~ Terminated(home[a])
    /\ sent' = sent + 1
    /\ target' = [target EXCEPT ![sent + 1] = a]
    /\ fate' = [fate EXCEPT ![sent + 1] = "queued"]
    /\ msgs' = [msgs EXCEPT ![home[a]] = Append(@, sent + 1)]

(* Context::spawn on worker w: started (nested spawns are further calls),  *)
(* then spawn_actor_direct into the map of w, whatever w is doing.         *)
SpawnDirect(w) ==
    /\ next_id <= MaxId
    /\ next_id' = next_id + 1
    /\ home' = [home EXCEPT ![next_id] = w]
    /\ life' = [life EXCEPT ![next_id] = "live"]
    /\ actor_map' = [actor_map EXCEPT ![w] = @ \cup {next_id}]
    /\ known' = known \cup {next_id}
    /\ UNCHANGED next_worker
-----------------------------------------------------------------------------
(* Client threads. *)

(* A slip: run takes &self, and spawn is possible beside it. *)
BorrowableAlways == TRUE

(* The Runtime is borrowed by spawn and shutdown, moved by run and drop. *)
Borrowable == rt_pc = "open" \/ rt_op = "shutdown"

(* pick_worker. *)
PickWorker == next_worker % N

(* Runtime::spawn up to the call of started. allocate_id and pick_worker   *)
(* are two atomic increments of two counters and one step here: another    *)
(* spawn between them only changes which of the two ids goes to which of   *)
(* the two workers, and ids are nothing but names.                         *)
SpawnBegin(c) ==
    /\ cpc[c] = "idle" /\ Borrowable
    /\ next_id <= MaxId
    /\ next_id' = next_id + 1
    /\ next_worker' = next_worker + 1
    /\ home' = [home EXCEPT ![next_id] = PickWorker]
    /\ life' = [life EXCEPT ![next_id] = "started"]
    /\ cpc' = [cpc EXCEPT ![c] = "started"]
    /\ carg' = [carg EXCEPT ![c] = next_id]
    /\ UNCHANGED <<chanVars, workerVars, known, actor_map, msgVars, rtVars>>

(* started, on the client's thread, spawns a child: it goes straight into  *)
(* the map of the worker the parent was assigned to.                       *)
StartedSpawn(c) ==
    /\ "started_spawn" \in UserMay
    /\ cpc[c] = "started"
    /\ SpawnDirect(home[carg[c]])
    /\ UNCHANGED <<chanVars, workerVars, msgVars, clientVars, rtVars>>

(* started panics: the id is spent and the actor is dropped. *)
StartedPanic(c) ==
    /\ "started_panic" \in UserMay
    /\ cpc[c] = "started"
    /\ life' = [life EXCEPT ![carg[c]] = "lost"]
    /\ cpc' = [cpc EXCEPT ![c] = "panicked"]
    /\ UNCHANGED <<chanVars, workerVars, next_id, next_worker, home, known, actor_map,
                   msgVars, carg, rtVars>>

(* spawn_actor_remote: the control message is sent, or the expect on line  *)
(* 65 panics because the worker is gone.                                   *)
SpawnSend(c) ==
    LET a == carg[c] IN
    /\ cpc[c] = "started"
    /\ IF Terminated(home[a])
         THEN /\ life' = [life EXCEPT ![a] = "lost"]
              /\ cpc' = [cpc EXCEPT ![c] = "panicked"]
              /\ UNCHANGED control
         ELSE /\ control' = [control EXCEPT ![home[a]] = Append(@, a)]
              /\ cpc' = [cpc EXCEPT ![c] = "confirm"]
              /\ UNCHANGED life
    /\ UNCHANGED <<msgs, workerVars, next_id, next_worker, home, known, actor_map,
                   msgVars, carg, rtVars>>

(* A slip in spawn_actor_remote: the confirmation is not waited for. *)
SpawnReturnAtOnce(c) ==
    /\ cpc[c] = "confirm"
    /\ cpc' = [cpc EXCEPT ![c] = "idle"]
    /\ known' = known \cup {carg[c]}
    /\ UNCHANGED <<chanVars, workerVars, next_id, next_worker, home, life, actor_map,
                   msgVars, carg, rtVars>>

(* confirm_rx.recv: the worker confirmed, and spawn returns the Addr; or   *)
(* the control message was dropped unread, and the expect on line 66       *)
(* panics.                                                                 *)
SpawnReturn(c) ==
    LET a == carg[c] IN
    /\ cpc[c] = "confirm"
    /\ life[a] # "started"
    /\ IF life[a] = "lost"
         THEN cpc' = [cpc EXCEPT ![c] = "panicked"] /\ UNCHANGED known
         ELSE cpc' = [cpc EXCEPT ![c] = "idle"] /\ known' = known \cup {a}
    /\ UNCHANGED <<chanVars, workerVars, next_id, next_worker, home, life, actor_map,
                   msgVars, carg, rtVars>>

(* Addr::send up to result_rx.recv. *)
Send(c, a) ==
    /\ cpc[c] = "idle" /\ a \in known
    /\ Post(a)
    /\ cpc' = [cpc EXCEPT ![c] = "wait"]
    /\ carg' = [carg EXCEPT ![c] = sent + 1]
    /\ UNCHANGED <<control, workerVars, spawnVars, rtVars>>

(* result_rx.recv: Ok with the result when the handler returned,           *)
(* Err(ActorNotRunning) when the envelope was dropped or the handler       *)
(* panicked.                                                               *)
SendReturn(c) ==
    /\ cpc[c] = "wait"
    /\ fate[carg[c]] \in {"done", "lost"}
    /\ cpc' = [cpc EXCEPT ![c] = "idle"]
    /\ UNCHANGED <<chanVars, workerVars, spawnVars, msgVars, carg, rtVars>>

(* Addr::do_send. *)
DoSend(c, a) ==
    /\ "do_send" \in UserMay
    /\ cpc[c] = "idle" /\ a \in known
    /\ Post(a)
    /\ UNCHANGED <<control, workerVars, spawnVars, clientVars, rtVars>>

(* The last Addr of an actor is dropped. *)
DropAddr(a) ==
    /\ "drop_addr" \in UserMay
    /\ a \in known
    /\ known' = known \ {a}
    /\ UNCHANGED <<chanVars, workerVars, next_id, next_worker, home, life, actor_map,
                   msgVars, clientVars, rtVars>>
-----------------------------------------------------------------------------
(* The owner of the Runtime. *)

(* The first step of shutdown, run (after its sleep) or drop. run and drop *)
(* need the Runtime for themselves: no spawn is in progress.               *)
RuntimeCall(op) ==
    /\ rt_pc = "open"
    /\ \/ op = "shutdown" /\ shutdowns < MaxShutdown /\ shutdowns' = shutdowns + 1
       \/ /\ op \in {"run", "drop"} /\ UNCHANGED shutdowns
          /\ \A c \in Client : cpc[c] \notin {"started", "confirm"}
    /\ rt_pc' = "signal" /\ rt_op' = op /\ rt_at' = 0
    /\ UNCHANGED <<chanVars, workerVars, spawnVars, msgVars, clientVars>>

(* A slip in the loop of Runtime::shutdown: it starts at the second worker. *)
SignalWorkerFromSecond ==
    /\ rt_pc = "signal" /\ rt_at < N
    /\ control' = IF Terminated(rt_at) \/ rt_at = 0 THEN control
                  ELSE [control EXCEPT ![rt_at] = Append(@, Shutdown)]
    /\ rt_at' = rt_at + 1
    /\ UNCHANGED <<msgs, workerVars, spawnVars, msgVars, clientVars, rt_pc, rt_op, shutdowns>>

(* One round of the loop of Runtime::shutdown; a failed send is ignored. *)
SignalWorker ==
    /\ rt_pc = "signal" /\ rt_at < N
    /\ control' = IF Terminated(rt_at) THEN control
                  ELSE [control EXCEPT ![rt_at] = Append(@, Shutdown)]
    /\ rt_at' = rt_at + 1
    /\ UNCHANGED <<msgs, workerVars, spawnVars, msgVars, clientVars, rt_pc, rt_op, shutdowns>>

(* shutdown returns: to its caller, to the join loop of run or drop, or to *)
(* a drop that has no handle left to join.                                 *)
SignalDone ==
    /\ rt_pc = "signal" /\ rt_at = N
    /\ rt_pc' = CASE rt_op = "shutdown" -> "open"
                  [] rt_op \in {"run", "drop"} -> "join"
                  [] OTHER -> "ended"
    /\ rt_op' = IF rt_op = "shutdown" THEN "none" ELSE rt_op
    /\ rt_at' = 0
    /\ UNCHANGED <<chanVars, workerVars, spawnVars, msgVars, clientVars, shutdowns>>

(* A slip in run and drop: the handles are dropped, not joined. *)
JoinWorkerDetached ==
    /\ rt_pc = "join" /\ rt_at < N
    /\ rt_at' = rt_at + 1
    /\ UNCHANGED <<chanVars, workerVars, spawnVars, msgVars, clientVars, rt_pc, rt_op, shutdowns>>

(* handle.join(): run expects the thread not to have panicked; when it did *)
(* the panic drops the other handles and then the Runtime, whose drop      *)
(* signals the workers once more but joins nobody.                         *)
JoinWorker ==
    /\ rt_pc = "join" /\ rt_at < N
    /\ Terminated(rt_at)
    /\ IF rt_op = "run" /\ wpc[rt_at] = "crashed"
         THEN rt_pc' = "signal" /\ rt_op' = "unwind" /\ rt_at' = 0
         ELSE rt_at' = rt_at + 1 /\ UNCHANGED <<rt_pc, rt_op>>
    /\ UNCHANGED <<chanVars, workerVars, spawnVars, msgVars, clientVars, shutdowns>>

(* All joined. After run the Runtime is dropped, and signals again. *)
JoinDone ==
    /\ rt_pc = "join" /\ rt_at = N
    /\ IF rt_op = "run" THEN rt_pc' = "signal" /\ rt_op' = "finish"
                        ELSE rt_pc' = "ended" /\ UNCHANGED rt_op
    /\ rt_at' = 0
    /\ UNCHANGED <<chanVars, workerVars, spawnVars, msgVars, clientVars, shutdowns>>
-----------------------------------------------------------------------------
(* Worker::run. *)

Goto(w, pc) == wpc' = [wpc EXCEPT ![w] = pc]

(* control_rx.try_recv: SpawnActor is inserted and confirmed. *)
RecvSpawn(w) ==
    LET a == Head(control[w]) IN
    /\ wpc[w] = "control"
    /\ control[w] # <<>> /\ a # Shutdown
    /\ control' = [control EXCEPT ![w] = Tail(@)]
    /\ actor_map' = [actor_map EXCEPT ![w] = @ \cup {a}]
    /\ life' = [life EXCEPT ![a] = "live"]
    /\ UNCHANGED <<msgs, workerVars, next_id, next_worker, home, known, msgVars,
                   clientVars, rtVars>>

(* control_rx.try_recv: Shutdown. stop_all_actors takes its list of ids. *)
RecvShutdown(w) ==
    /\ wpc[w] = "control"
    /\ control[w] # <<>> /\ Head(control[w]) = Shutdown
    /\ control' = [control EXCEPT ![w] = Tail(@)]
    /\ stop_ids' = [stop_ids EXCEPT ![w] = actor_map[w]]
    /\ Goto(w, "stop_all")
    /\ UNCHANGED <<msgs, sched, env, cell, spawnVars, msgVars, clientVars, rtVars>>

(* control_rx.try_recv: Empty. *)
ControlEmpty(w) ==
    /\ wpc[w] = "control" /\ control[w] = <<>>
    /\ Goto(w, "drain")
    /\ UNCHANGED <<chanVars, sched, env, cell, stop_ids, spawnVars, msgVars, clientVars, rtVars>>

(* An envelope goes from the channel to the scheduler: one round of the    *)
(* drain loop, or recv_timeout, after which the outer loop starts again.   *)
TakeEnvelope(w) ==
    LET m == Head(msgs[w]) IN
    /\ wpc[w] \in {"drain", "idle"}
    /\ msgs[w] # <<>>
    /\ msgs' = [msgs EXCEPT ![w] = Tail(@)]
    /\ sched' = [sched EXCEPT ![w] = Enqueue(@, target[m], m)]
    /\ Goto(w, IF wpc[w] = "idle" THEN "control" ELSE "drain")
    /\ UNCHANGED <<control, env, cell, stop_ids, spawnVars, msgVars, clientVars, rtVars>>

(* The channel is empty and nobody is ready: wait in recv_timeout. *)
GoIdle(w) ==
    /\ wpc[w] = "drain" /\ msgs[w] = <<>>
    /\ ~ SomeReady(sched[w])
    /\ sched' = [sched EXCEPT ![w] = AfterNextReady(@)]
    /\ Goto(w, "idle")
    /\ UNCHANGED <<chanVars, env, cell, stop_ids, spawnVars, msgVars, clientVars, rtVars>>

(* recv_timeout times out. It never reports Disconnected: the worker's own *)
(* Arc<SpawnShared> holds a sender of its message channel. Slip: it does   *)
(* not, and the worker breaks off when nobody has an address.              *)
IdleTimeoutBreaks(w) ==
    /\ wpc[w] = "idle" /\ msgs[w] = <<>>
    /\ Goto(w, IF known = {} /\ (\A c \in Client : cpc[c] = "idle") THEN "exited" ELSE "control")
    /\ UNCHANGED <<chanVars, sched, env, cell, stop_ids, spawnVars, msgVars, clientVars, rtVars>>
IdleTimeout(w) ==
    /\ wpc[w] = "idle" /\ msgs[w] = <<>>
    /\ Goto(w, "control")
    /\ UNCHANGED <<chanVars, sched, env, cell, stop_ids, spawnVars, msgVars, clientVars, rtVars>>

(* next_ready, dequeue and the first half of dispatch: the actor leaves    *)
(* the map while its handler runs; an envelope whose actor is not there is *)
(* dropped.                                                                *)
Dispatch(w) ==
    LET a == NextReady(sched[w])
        s == Dequeue(AfterNextReady(sched[w]), a)
        m == Dequeued(sched[w], a)
    IN
    /\ wpc[w] = "drain" /\ msgs[w] = <<>>
    /\ SomeReady(sched[w])
    /\ IF a \in actor_map[w]
         THEN /\ sched' = [sched EXCEPT ![w] = s]
              /\ actor_map' = [actor_map EXCEPT ![w] = @ \ {a}]
              /\ fate' = [fate EXCEPT ![m] = "handling"]
              /\ cell' = [cell EXCEPT ![w] = a]
              /\ env' = [env EXCEPT ![w] = m]
              /\ Goto(w, "handling")
         ELSE /\ sched' = [sched EXCEPT ![w] = RequeueIfReady(s, a)]
              /\ fate' = Lose({m})
              /\ Goto(w, "control")
              /\ UNCHANGED <<actor_map, cell, env>>
    /\ UNCHANGED <<chanVars, stop_ids, next_id, next_worker, home, life, known,
                   sent, target, clientVars, rtVars>>

(* User code on the worker's thread, in handle or stopped, calls ctx.spawn *)
(* or ctx.notify.                                                          *)
ContextSpawn(w) ==
    /\ \/ wpc[w] = "handling" /\ "handler_spawn" \in UserMay
       \/ wpc[w] \in {"on_stop", "stop_hook"} /\ "stopped_spawn" \in UserMay
    /\ SpawnDirect(w)
    /\ UNCHANGED <<chanVars, workerVars, msgVars, clientVars, rtVars>>

ContextNotify(w, a) ==
    /\ "notify" \in UserMay
    /\ wpc[w] \in {"handling", "on_stop", "stop_hook"}
    /\ a \in known
    /\ Post(a)
    /\ UNCHANGED <<control, workerVars, spawnVars, clientVars, rtVars>>

(* A slip in dispatch: the actor is not put back. *)
HandlerReturnForgets(w) ==
    /\ wpc[w] = "handling"
    /\ fate' = [fate EXCEPT ![env[w]] = "done"]
    /\ sched' = [sched EXCEPT ![w] = RequeueIfReady(@, cell[w])]
    /\ cell' = [cell EXCEPT ![w] = None]
    /\ env' = [env EXCEPT ![w] = None]
    /\ Goto(w, "control")
    /\ UNCHANGED <<chanVars, stop_ids, spawnVars, sent, target, clientVars, rtVars>>

(* The handler returns and the context is still running: the result is     *)
(* sent, the actor put back, and its turn ends.                            *)
HandlerReturn(w) ==
    /\ wpc[w] = "handling"
    /\ fate' = [fate EXCEPT ![env[w]] = "done"]
    /\ actor_map' = [actor_map EXCEPT ![w] = @ \cup {cell[w]}]
    /\ sched' = [sched EXCEPT ![w] = RequeueIfReady(@, cell[w])]
    /\ cell' = [cell EXCEPT ![w] = None]
    /\ env' = [env EXCEPT ![w] = None]
    /\ Goto(w, "control")
    /\ UNCHANGED <<chanVars, stop_ids, next_id, next_worker, home, life, known,
                   sent, target, clientVars, rtVars>>

(* A slip in dispatch: the actor is put back before on_stop. *)
HandlerEndsPutBack(w, outcome) ==
    /\ wpc[w] = "handling"
    /\ outcome = "done" /\ "stop" \in UserMay
    /\ fate' = [fate EXCEPT ![env[w]] = outcome]
    /\ actor_map' = [actor_map EXCEPT ![w] = @ \cup {cell[w]}]
    /\ env' = [env EXCEPT ![w] = None]
    /\ Goto(w, "on_stop")
    /\ UNCHANGED <<chanVars, sched, cell, stop_ids, next_id, next_worker, home, life, known,
                   sent, target, clientVars, rtVars>>

(* The handler ends the actor: it called ctx.stop, and the result is sent; *)
(* or it panicked, and the unwinding drops the result sender. on_stop is   *)
(* called next, with the actor in nobody's hands but the worker's.         *)
HandlerEnds(w, outcome) ==
    /\ wpc[w] = "handling"
    /\ \/ outcome = "done" /\ "stop" \in UserMay
       \/ outcome = "lost" /\ "handler_panic" \in UserMay
    /\ fate' = [fate EXCEPT ![env[w]] = outcome]
    /\ env' = [env EXCEPT ![w] = None]
    /\ Goto(w, "on_stop")
    /\ UNCHANGED <<chanVars, sched, cell, stop_ids, spawnVars, sent, target, clientVars, rtVars>>

(* One round of stop_all_actors: remove_actor takes the cell and calls     *)
(* on_stop.                                                                *)
StopNext(w, a) ==
    /\ wpc[w] = "stop_all" /\ a \in stop_ids[w]
    /\ stop_ids' = [stop_ids EXCEPT ![w] = @ \ {a}]
    /\ actor_map' = [actor_map EXCEPT ![w] = @ \ {a}]
    /\ cell' = [cell EXCEPT ![w] = a]
    /\ Goto(w, "stop_hook")
    /\ UNCHANGED <<chanVars, sched, env, next_id, next_worker, home, life, known,
                   msgVars, clientVars, rtVars>>

(* stopped returns: scheduler.remove_actor drops what is left in the       *)
(* actor's mailbox. After dispatch its turn ends as well.                  *)
StoppedReturn(w) ==
    LET a == cell[w]
        s == RemoveActor(sched[w], a)
    IN
    /\ wpc[w] \in {"on_stop", "stop_hook"}
    /\ life' = [life EXCEPT ![a] = "stopped"]
    /\ fate' = Lose(Range(Mailbox(sched[w], a)))
    /\ sched' = [sched EXCEPT ![w] = IF wpc[w] = "on_stop" THEN RequeueIfReady(s, a) ELSE s]
    /\ cell' = [cell EXCEPT ![w] = None]
    /\ Goto(w, IF wpc[w] = "on_stop" THEN "control" ELSE "stop_all")
    /\ UNCHANGED <<chanVars, env, stop_ids, next_id, next_worker, home, known, actor_map,
                   sent, target, clientVars, rtVars>>

(* The worker's thread ends. Its receivers and its scheduler are dropped   *)
(* with everything in them; the actor map stays in SpawnShared.            *)
ThreadEnds(w) ==
    /\ control' = [control EXCEPT ![w] = <<>>]
    /\ msgs' = [msgs EXCEPT ![w] = <<>>]
    /\ sched' = [sched EXCEPT ![w] = New]
    /\ fate' = Lose(Range(msgs[w]) \cup Held(sched[w]))
    /\ cell' = [cell EXCEPT ![w] = None]
    /\ stop_ids' = [stop_ids EXCEPT ![w] = {}]

(* Slips at the end of run: it returns before all actors are stopped; a    *)
(* pending spawn is not told.                                              *)
ExitEarly(w) ==
    /\ wpc[w] = "stop_all"
    /\ ThreadEnds(w)
    /\ life' = [a \in ActorId |-> IF a \in Range(control[w]) THEN "lost" ELSE life[a]]
    /\ Goto(w, "exited")
    /\ UNCHANGED <<env, next_id, next_worker, home, known, actor_map, sent, target,
                   clientVars, rtVars>>
ExitSilently(w) ==
    /\ wpc[w] = "stop_all" /\ stop_ids[w] = {}
    /\ ThreadEnds(w)
    /\ Goto(w, "exited")
    /\ UNCHANGED <<env, spawnVars, sent, target, clientVars, rtVars>>

(* stop_all_actors is done and run returns. *)
Exit(w) ==
    /\ wpc[w] = "stop_all" /\ stop_ids[w] = {}
    /\ ThreadEnds(w)
    /\ life' = [a \in ActorId |-> IF a \in Range(control[w]) THEN "lost" ELSE life[a]]
    /\ Goto(w, "exited")
    /\ UNCHANGED <<env, next_id, next_worker, home, known, actor_map, sent, target,
                   clientVars, rtVars>>

(* stopped panics: on_stop is called outside catch_unwind, and the panic   *)
(* unwinds the worker's thread.                                            *)
StoppedPanic(w) ==
    /\ "stopped_panic" \in UserMay
    /\ wpc[w] \in {"on_stop", "stop_hook"}
    /\ ThreadEnds(w)
    /\ life' = [a \in ActorId |-> IF a = cell[w] THEN "stopped"
                                  ELSE IF a \in Range(control[w]) THEN "lost" ELSE life[a]]
    /\ Goto(w, "crashed")
    /\ UNCHANGED <<env, next_id, next_worker, home, known, actor_map, sent, target,
                   clientVars, rtVars>>

WorkerStep(w) ==
    \/ RecvSpawn(w) \/ RecvShutdown(w) \/ ControlEmpty(w)
    \/ TakeEnvelope(w) \/ GoIdle(w) \/ IdleTimeout(w)
    \/ Dispatch(w) \/ ContextSpawn(w) \/ (\E a \in ActorId : ContextNotify(w, a))
    \/ HandlerReturn(w) \/ (\E o \in {"done", "lost"} : HandlerEnds(w, o))
    \/ (\E a \in ActorId : StopNext(w, a))
    \/ StoppedReturn(w) \/ StoppedPanic(w) \/ Exit(w)

(* What a client does on its own account, and what it does once it is in a *)
(* call of the library.                                                    *)
ClientCall(c) ==
    \/ SpawnBegin(c)
    \/ \E a \in ActorId : Send(c, a) \/ DoSend(c, a)
ClientReturn(c) ==
    \/ StartedSpawn(c) \/ StartedPanic(c) \/ SpawnSend(c)
    \/ SpawnReturn(c) \/ SendReturn(c)

(* Everything has come to an end: nothing is left to run. *)
Finished ==
    /\ rt_pc = "ended"
    /\ \A w \in Worker : Terminated(w)
    /\ \A c \in Client : cpc[c] \in {"idle", "panicked"}
    /\ UNCHANGED vars

OwnerStep == SignalWorker \/ SignalDone \/ JoinWorker \/ JoinDone

Next ==
    \/ \E w \in Worker : WorkerStep(w)
    \/ \E c \in Client : ClientCall(c) \/ ClientReturn(c)
    \/ \E a \in ActorId : DropAddr(a)
    \/ \E op \in {"shutdown", "run", "drop"} : RuntimeCall(op)
    \/ OwnerStep
    \/ Finished

Spec == Init /\ [][Next]_vars

(* Threads that can run do run, user code returns, and the owner finishes  *)
(* the call it is in. Nobody has to call anything.                         *)
Fairness ==
    /\ \A w \in Worker : WF_vars(WorkerStep(w))
    /\ \A c \in Client : WF_vars(ClientReturn(c))
    /\ WF_vars(OwnerStep)

FairSpec == Spec /\ Fairness
-----------------------------------------------------------------------------
(* Properties. *)

(* Every accepted message that has not been handled or lost is in exactly  *)
(* one place: the channel of its actor's worker, the actor's mailbox       *)
(* there, or that worker's hands; and what these hold has not been handled *)
(* or lost. A message in no place would leave its sender blocked in        *)
(* result_rx.recv for ever. (The state is well formed throughout.)         *)
EnvelopeInOnePlace ==
    /\ TypeOK
    /\ \A m \in Msg : fate[m] = "queued" =>
          LET a == target[m]
              w == home[a]
          IN  (m \in Range(msgs[w])) # (m \in Range(Mailbox(sched[w], a)))
    /\ \A w \in Worker : \A m \in Range(msgs[w]) \cup Held(sched[w]) :
          fate[m] = "queued" /\ home[target[m]] = w
    /\ \A m \in Msg : fate[m] = "handling" <=>
          \E w \in Worker : wpc[w] = "handling" /\ env[w] = m

(* Nobody holds the address of an actor that is in no map yet, so that the *)
(* first message to it cannot arrive before the actor does: spawn waits    *)
(* for the confirmation of the worker.                                     *)
AddressedAreRegistered == \A a \in known : life[a] \in {"live", "stopped"}

(* A living actor is in the map of its worker or in the hands of that      *)
(* worker, in one of them only and nowhere else, whatever other threads    *)
(* insert into the map meanwhile.                                          *)
CellInOnePlace ==
    /\ \A w \in Worker : \A a \in actor_map[w] :
          home[a] = w /\ life[a] = "live" /\ cell[w] # a
    /\ \A a \in ActorId :
          life[a] = "live" /\ ~ Terminated(home[a])
            => a \in actor_map[home[a]] \/ cell[home[a]] = a

(* A worker that returns from run has called stopped on every actor it     *)
(* ever had: the one whose message was being handled when Shutdown came,   *)
(* and the children it spawned, included.                                  *)
StoppedAtExit == \A a \in ActorId : life[a] = "live" => wpc[home[a]] # "exited"

(* The living actors of a worker that has taken Shutdown which it will not *)
(* stop any more.                                                          *)
LeftBehind(w) ==
    {a \in ActorId : /\ home[a] = w /\ life[a] = "live"
                     /\ wpc[w] \in {"stop_all", "stop_hook", "exited"}
                     /\ a \notin stop_ids[w] /\ a # cell[w]}

(* With any hooks, the actors a worker leaves behind at its exit are those *)
(* born into its map after stop_all_actors took its list of ids, by a      *)
(* stopped hook or by started on a client's thread: nobody whom the worker *)
(* had when Shutdown came slips out of that list, and nobody joins them    *)
(* later but by birth.                                                     *)
OnlyNewbornLeftBehind ==
    [][\A w \in Worker : \A a \in LeftBehind(w)' \ LeftBehind(w) : life[a] = "none"]_vars

(* The expects of spawn_actor_remote (spawner.rs:65-66) fail only after    *)
(* Runtime::shutdown was called: an owner that only calls run or drop, and *)
(* whose hooks do not panic, never makes spawn panic.                      *)
SpawnPanicsOnlyOnShutdown == \A c \in Client : cpc[c] = "panicked" => shutdowns > 0

(* A worker that does not crash serves until shutdown, run or drop ends    *)
(* it, whether or not an Addr of its actors is left: the break of          *)
(* runtime.rs:63, and with it "Workers exit when all `Addr` senders are    *)
(* dropped" (DEVELOPMENT.md:235), never happens.                           *)
ServesUntilShutdown ==
    shutdowns = 0 /\ rt_pc = "open" => \A w \in Worker : wpc[w] # "exited"

(* When run or drop has returned normally no worker thread is left. *)
JoinedAtEnd ==
    rt_pc = "ended" /\ rt_op \in {"drop", "finish"} => \A w \in Worker : Terminated(w)

(* A worker's thread lasts as long as the Runtime: it does not leave its   *)
(* loop before it is told, though every Addr be gone, and it is not left   *)
(* running when run or drop has returned.                                  *)
WorkersLast == ServesUntilShutdown /\ JoinedAtEnd

(* Every blocking send returns, whatever happens to the actor or to its    *)
(* worker, and every spawn returns or panics, though the worker may shut   *)
(* down under it.                                                          *)
CallsReturn ==
    \A c \in Client : \A at \in {"wait", "confirm"} : cpc[c] = at ~> cpc[c] # at

(* run and drop return once they were called. *)
OwnerReturns == rt_pc = "join" ~> rt_pc = "ended"

(* What the detailed state means for the users of the actors. *)
Status ==
    [a \in ActorId |->
        CASE life[a] \in {"none", "started", "lost"} -> "unborn"
          [] /\ life[a] = "live"
             /\ ~ Terminated(home[a])
             /\ ~ (cell[home[a]] = a /\ wpc[home[a]] # "handling") -> "live"
          [] OTHER -> "dead"]

Contract == INSTANCE ActorContract WITH status <- Status

(* The runtime keeps its promise: actors handle their messages one at a    *)
(* time and in order, none is skipped, a stopped actor handles nothing,    *)
(* and a sender gets ActorNotRunning only when the actor is gone.          *)
KeepsContract == Contract!Spec
-----------------------------------------------------------------------------
(* What the repository says of the runtime, and the code does not do. *)

(* DEVELOPMENT.md: panics don't crash workers. *)
NoWorkerCrash == \A w \in Worker : wpc[w] # "crashed"

(* README.md and the tests: run waits for the work that was sent. *)
RunHandlesAccepted ==
    rt_pc = "ended" /\ rt_op = "finish" => \A m \in Msg : fate[m] # "lost"
=============================================================================
