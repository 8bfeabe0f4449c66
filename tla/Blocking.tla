------------------------------ MODULE Blocking ------------------------------
(***************************************************************************)
(* Handlers that block their worker: Context::send, which waits for        *)
(* another actor's answer (src/context.rs), and Runtime::spawn through a   *)
(* shared Runtime, as the factories of a Supervisor call it, which waits   *)
(* for the confirmation of the worker it picked (src/spawner.rs).          *)
(*                                                                         *)
(* Nobody sends without waiting here, so every thread has at most one      *)
(* message under way, and a message is known by its sender.  Nothing else  *)
(* is bounded: clients and handlers send and spawn for ever.               *)
(***************************************************************************)
EXTENDS Scheduler

CONSTANTS
    N,         \* worker threads
    Actor,     \* actors
    Client     \* client threads

ASSUME NAssumption == N \in Nat \ {0}
ASSUME ActorAssumption == Actor \subseteq Nat \ {0}
ASSUME ClientAssumption == Client \cap (0 .. N) = {}

Worker == 0 .. N - 1
Shutdown == N              \* ControlMsg::Shutdown; a worker stands for the
                           \* SpawnActor its handler waits for
Thread == Worker \cup Client

VARIABLES
    home,          \* [Actor -> Worker]: any placement is possible
    alive,         \* actors that have not panicked
    control, rx, sched,
    wpc,           \* [Worker -> program counter]
    env,           \* [Worker -> message being handled]
    next_worker,   \* modulo N
    wait,          \* [Thread -> "no", or "send", "spawn": waiting, or "ok", "err"]
    signalled      \* Runtime::shutdown has sent Shutdown to so many workers

vars == <<home, alive, control, rx, sched, wpc, env, next_worker, wait, signalled>>

Message == [to : Actor, from : Thread]
None == [to |-> 0, from |-> 0]

TypeOK ==
    /\ home \in [Actor -> Worker] /\ alive \subseteq Actor
    /\ control \in [Worker -> Seq(Worker \cup {Shutdown})]
    /\ rx \in [Worker -> Seq(Message)]
    /\ wpc \in [Worker -> {"control", "drain", "handling", "sending", "spawning",
                           "called", "exited"}]
    /\ env \in [Worker -> Message \cup {None}]
    /\ \A w \in Worker : env[w] = None <=> wpc[w] \in {"control", "drain", "exited"}
    /\ next_worker \in Worker
    /\ wait \in [Thread -> {"no", "send", "spawn", "ok", "err"}]
    /\ signalled \in 0 .. N

Init ==
    /\ home \in [Actor -> Worker] /\ alive = Actor
    /\ control = [w \in Worker |-> <<>>]
    /\ rx = [w \in Worker |-> <<>>]
    /\ sched = [w \in Worker |-> New]
    /\ wpc = [w \in Worker |-> "control"]
    /\ env = [w \in Worker |-> None]
    /\ next_worker \in Worker
    /\ wait = [t \in Thread |-> "no"]
    /\ signalled = 0

Goto(w, pc) == wpc' = [wpc EXCEPT ![w] = pc]

(* The threads in S get what they wait for, or learn that it will not come.*)
Tell(S, what) == wait' = [t \in Thread |-> IF t \in S THEN what ELSE wait[t]]

(* Addr::send: the message is posted and its sender waits. When the worker *)
(* is gone the send fails at once.                                         *)
Send(t, a) ==
    IF wpc[home[a]] = "exited"
      THEN Tell({t}, "err") /\ UNCHANGED rx
      ELSE /\ rx' = [rx EXCEPT ![home[a]] = Append(@, [to |-> a, from |-> t])]
           /\ Tell({t}, "send")

ClientSend(c, a) ==
    /\ wait[c] = "no"
    /\ Send(c, a)
    /\ UNCHANGED <<home, alive, control, sched, wpc, env, next_worker, signalled>>
ClientReturn(c) ==
    /\ wait[c] \in {"ok", "err"}
    /\ Tell({c}, "no")
    /\ UNCHANGED <<home, alive, control, rx, sched, wpc, env, next_worker, signalled>>

(* Runtime::shutdown, by a thread of its own: worker after worker is told. *)
SignalWorker ==
    /\ signalled < N
    /\ signalled' = signalled + 1
    /\ control' = [control EXCEPT ![signalled] = Append(@, Shutdown)]
    /\ UNCHANGED <<home, alive, rx, sched, wpc, env, next_worker, wait>>
-----------------------------------------------------------------------------
(* Worker::run. *)

RecvSpawn(w) ==
    /\ wpc[w] = "control" /\ control[w] # <<>> /\ Head(control[w]) # Shutdown
    /\ Tell({Head(control[w])}, "ok")
    /\ control' = [control EXCEPT ![w] = Tail(@)]
    /\ UNCHANGED <<home, alive, rx, sched, wpc, env, next_worker, signalled>>

(* Everything the worker still holds is dropped: the messages with their   *)
(* result senders, the spawn requests with their confirm senders. Slips:   *)
(* the spawn requests are kept; Shutdown is seen in the middle of a handler.*)
Senders(S) == {m.from : m \in S}
DroppedMessages(w) == Senders(Range(rx[w]) \cup Held(sched[w]))
Dropped(w) == Senders(Range(rx[w]) \cup Held(sched[w])) \cup (Range(control[w]) \ {Shutdown})
AtAnyTime(w) == wpc[w] # "exited"
AtControl(w) == wpc[w] = "control"
RecvShutdown(w) ==
    /\ AtControl(w) /\ control[w] # <<>> /\ Head(control[w]) = Shutdown
    /\ Tell(Dropped(w), "err")
    /\ control' = [control EXCEPT ![w] = <<>>]
    /\ rx' = [rx EXCEPT ![w] = <<>>]
    /\ sched' = [sched EXCEPT ![w] = New]
    /\ Goto(w, "exited")
    /\ UNCHANGED <<home, alive, env, next_worker, signalled>>

ControlEmpty(w) ==
    /\ wpc[w] = "control" /\ control[w] = <<>>
    /\ Goto(w, "drain")
    /\ UNCHANGED <<home, alive, control, rx, sched, env, next_worker, wait, signalled>>

TakeEnvelope(w) ==
    /\ wpc[w] = "drain" /\ rx[w] # <<>>
    /\ sched' = [sched EXCEPT ![w] = Enqueue(@, Head(rx[w]).to, Head(rx[w]))]
    /\ rx' = [rx EXCEPT ![w] = Tail(@)]
    /\ UNCHANGED <<home, alive, control, wpc, env, next_worker, wait, signalled>>

GoIdle(w) ==
    /\ wpc[w] = "drain" /\ rx[w] = <<>> /\ ~ SomeReady(sched[w])
    /\ Goto(w, "control")
    /\ UNCHANGED <<home, alive, control, rx, sched, env, next_worker, wait, signalled>>

(* dispatch, up to the handler: a message for an actor that has panicked   *)
(* is dropped.                                                             *)
Dispatch(w) ==
    LET a == NextReady(sched[w])
        m == Dequeued(sched[w], a)
        s == Dequeue(AfterNextReady(sched[w]), a)
    IN
    /\ wpc[w] = "drain" /\ rx[w] = <<>> /\ SomeReady(sched[w])
    /\ IF a \in alive
         THEN /\ sched' = [sched EXCEPT ![w] = s]
              /\ env' = [env EXCEPT ![w] = m]
              /\ Goto(w, "handling")
              /\ UNCHANGED wait
         ELSE /\ sched' = [sched EXCEPT ![w] = RequeueIfReady(s, a)]
              /\ Goto(w, "control")
              /\ Tell({m.from}, "err")
              /\ UNCHANGED env
    /\ UNCHANGED <<home, alive, control, rx, next_worker, signalled>>

(* Context::send in a handler. A handler makes at most one blocking call.  *)
HandlerSend(w, a) ==
    /\ wpc[w] = "handling"
    /\ Send(w, a)
    /\ Goto(w, "sending")
    /\ UNCHANGED <<home, alive, control, sched, env, next_worker, signalled>>

(* pick_worker. *)
PickNext == (next_worker + 1) % N

(* Runtime::spawn in a handler: the request goes to the worker pick_worker *)
(* returns, or cannot be sent any more.                                    *)
HandlerSpawn(w) ==
    /\ wpc[w] = "handling"
    /\ next_worker' = PickNext
    /\ IF wpc[next_worker] = "exited"
         THEN Tell({w}, "err") /\ UNCHANGED control
         ELSE Tell({w}, "spawn") /\ control' = [control EXCEPT ![next_worker] = Append(@, w)]
    /\ Goto(w, "spawning")
    /\ UNCHANGED <<home, alive, rx, sched, env, signalled>>

(* The call returns to the handler: Context::send with a result or an      *)
(* error, Runtime::spawn with an address.                                  *)
CallReturns(w) ==
    /\ \/ wpc[w] = "sending" /\ wait[w] \in {"ok", "err"}
       \/ wpc[w] = "spawning" /\ wait[w] = "ok"
    /\ Tell({w}, "no")
    /\ Goto(w, "called")
    /\ UNCHANGED <<home, alive, control, rx, sched, env, next_worker, signalled>>

(* The expects of spawn_actor_remote panic, and the handler with them: the *)
(* actor is removed, its mailbox and its answer are dropped.               *)
SpawnPanics(w) ==
    LET a == env[w].to IN
    /\ wpc[w] = "spawning" /\ wait[w] = "err"
    /\ alive' = alive \ {a}
    /\ wait' = [t \in Thread |->
                    CASE t = w -> "no"
                      [] t \in {env[w].from} \cup Senders(Range(Mailbox(sched[w], a))) -> "err"
                      [] OTHER -> wait[t]]
    /\ sched' = [sched EXCEPT ![w] = RemoveActor(@, a)]
    /\ env' = [env EXCEPT ![w] = None]
    /\ Goto(w, "control")
    /\ UNCHANGED <<home, control, rx, next_worker, signalled>>

(* The turn ends and the loop begins again with the control channel. Slip: *)
(* it goes on with the messages.                                           *)
LoopAtMessages == "drain"
LoopAtControl == "control"
HandlerReturn(w) ==
    /\ wpc[w] \in {"handling", "called"}
    /\ Tell({env[w].from}, "ok")
    /\ sched' = [sched EXCEPT ![w] = RequeueIfReady(@, env[w].to)]
    /\ env' = [env EXCEPT ![w] = None]
    /\ Goto(w, LoopAtControl)
    /\ UNCHANGED <<home, alive, control, rx, next_worker, signalled>>

WorkerStep(w) ==
    \/ RecvSpawn(w) \/ RecvShutdown(w) \/ ControlEmpty(w)
    \/ TakeEnvelope(w) \/ GoIdle(w) \/ Dispatch(w)
    \/ (\E a \in Actor : HandlerSend(w, a)) \/ HandlerSpawn(w)
    \/ CallReturns(w) \/ SpawnPanics(w) \/ HandlerReturn(w)

Next ==
    \/ \E w \in Worker : WorkerStep(w)
    \/ \E c \in Client : ClientReturn(c) \/ \E a \in Actor : ClientSend(c, a)
    \/ SignalWorker

Spec == Init /\ [][Next]_vars

(* Threads that are not blocked run; a handler that is not blocked returns *)
(* or makes its call; shutdown, once it is called, tells every worker. A   *)
(* spawn request is not always there just when the worker looks: otherwise *)
(* spawns keep it in its control loop.                                     *)
FairSpec ==
    /\ Spec
    /\ \A w \in Worker : WF_vars(WorkerStep(w)) /\ SF_vars(ControlEmpty(w))
    /\ \A c \in Client : WF_vars(ClientReturn(c))
    /\ WF_vars(signalled > 0 /\ SignalWorker)
-----------------------------------------------------------------------------
Waiting(t) == wait[t] \in {"send", "spawn"}

(* Worker w has what thread t waits for: its message in the channel, in a  *)
(* mailbox or in hand, or its spawn request in the control channel.        *)
Owes(w, t) ==
    \/ t \in Senders(Range(rx[w]) \cup Held(sched[w]))
    \/ t \in Range(control[w])
    \/ env[w] # None /\ env[w].from = t

(* A worker is stuck when it belongs to a set of workers each of which is  *)
(* blocked in a handler, waiting for one of the set: for itself, if the    *)
(* other actor is its own.                                                 *)
Stuck(w) ==
    \E S \in SUBSET Worker :
        /\ w \in S
        /\ \A v \in S : Waiting(v) /\ \E u \in S : Owes(u, v)

(* Whoever waits is owed an answer by one worker that still runs, and only *)
(* who waits is: no message, result or confirmation is forgotten on the    *)
(* way or given twice, through shutdowns and panics. (The state is well    *)
(* formed throughout.)                                                     *)
EveryWaitIsOwed ==
    /\ TypeOK
    /\ \A t \in Thread : \A w \in Worker :
          /\ Owes(w, t) => Waiting(t) /\ wpc[w] # "exited"
          /\ Waiting(t) => \E v \in Worker : Owes(v, t)
          /\ \A v \in Worker : Owes(v, t) /\ Owes(w, t) => v = w

(* Nothing frees workers that wait for each other: not other workers, not  *)
(* clients, not Runtime::shutdown.                                         *)
StuckForever == [][\A w \in Worker : Stuck(w) => Stuck(w)']_vars

(* And nothing else blocks a worker for good: a call in a handler, to an   *)
(* actor or to Runtime::spawn, returns unless the worker is stuck. That    *)
(* send "will deadlock" (addr.rs:53) is so on the same worker and in a     *)
(* circle, not for every actor of the runtime. And a client's send returns *)
(* unless its message is with a stuck worker.                              *)
CallsReturn ==
    /\ \A w \in Worker : Waiting(w) ~> ~ Waiting(w) \/ Stuck(w)
    /\ \A c \in Client : Waiting(c) ~> ~ Waiting(c) \/ \E w \in Worker : Owes(w, c) /\ Stuck(w)

(* Shutdown is heard by every worker that is not stuck, however long the   *)
(* clients go on sending: senders that wait for their answers cannot keep  *)
(* a worker in its drain loop.                                             *)
ShutdownHeard ==
    signalled > 0 ~> \A w \in Worker : wpc[w] = "exited" \/ Stuck(w)
=============================================================================
