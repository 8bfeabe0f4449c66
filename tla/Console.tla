------------------------------ MODULE Console ------------------------------
(***************************************************************************)
(* The console of examples/console.rs: a thread that reads lines, an actor *)
(* that executes them (CommandActor), an actor that creates and destroys   *)
(* workers (MetaActor), and the workers.                                   *)
(*                                                                         *)
(* MetaActor is the first actor of the Runtime and the others are spawned  *)
(* through its Context, so all of them live on worker thread 0: one        *)
(* channel, one scheduler, one handler at a time.  The second worker       *)
(* thread has no actor and is left out.                                    *)
(*                                                                         *)
(* An answer does not come back with the command: CommandActor keeps the   *)
(* last answer in one slot, which the reading thread polls.                *)
(***************************************************************************)
EXTENDS Scheduler

CONSTANTS
    MaxLines,      \* bound: lines typed
    MaxWorkers,    \* bound: workers spawned
    MaxAttempts    \* polls without an answer before giving up; 40 in the code

ASSUME BoundAssumption == MaxLines \in Nat /\ MaxWorkers \in Nat /\ MaxAttempts \in Nat \ {0}

Meta == 1                        \* MetaActor's id
Cmd == 2                         \* CommandActor's id
WorkerId == 3 .. MaxWorkers + 2
Id == {Cmd} \cup WorkerId        \* ids a line may name: one is no worker's

VARIABLES
    main,           \* where the main thread is
    stdin,          \* where the reading thread is
    lines, line, attempts,
    result,         \* the answer to a blocking send, of which there is one at a time
    shutdown,       \* Shutdown is in the control channel
    rx, sched, wpc, \* worker thread 0
    actors,         \* keys of its actor map
    stopped,        \* actors whose stopped hook was called
    next_id,
    cmd_addr_holder, meta, last_response,
    registry,       \* keys of the WorkerRegistry
    info, index,    \* [WorkerId -> WorkerInfo], [WorkerId -> state machine's index]
    given           \* history: the messages given to each worker

stdinVars == <<stdin, lines, line, attempts>>
actorVars == <<actors, stopped, next_id, registry, info, index>>
cmdVars   == <<cmd_addr_holder, meta, last_response>>
loopVars  == <<sched, wpc>>
vars == <<main, stdinVars, result, shutdown, rx, loopVars, actorVars, cmdVars, given>>

(* The answer in the slot or on its way to it, for the contract. *)
InFlight == {e \in Range(rx) \cup Held(sched) : e.kind = "CmdResponse"}
Pending ==
    IF InFlight # {} THEN (CHOOSE e \in InFlight : TRUE).reply
    ELSE IF last_response.says # "" THEN last_response ELSE result.reply

Contract ==
    INSTANCE ConsoleContract
        WITH FirstId <- Cmd + 1, ask <- line, reply <- Pending, workers <- registry,
             inbox <- given, next <- IF next_id > Cmd THEN next_id ELSE Cmd + 1

NoLine == Contract!NoLine
NoReply == Contract!NoReply

(* What a blocking send waits for. *)
Unanswered == [done |-> FALSE, reply |-> NoReply]
Ok(reply) == [done |-> TRUE, reply |-> reply]

(* A message: the line it comes from, the worker it is about and the       *)
(* answer it carries, as far as it has them.                               *)
Message(to, kind, id, reply) ==
    [to |-> to, kind |-> kind, line |-> lines, id |-> id, reply |-> reply]

TypeOK ==
    /\ main \in {"spawn", "holder", "set_meta", "wait_meta", "join", "drop", "end"}
    /\ stdin \in {"off", "reading", "exec", "sleep", "poll", "ended"}
    /\ lines \in 0 .. MaxLines /\ line \in Contract!Line \cup {NoLine}
    /\ attempts \in 0 .. MaxAttempts
    /\ wpc \in {"control", "drain", "exited"}
    /\ actors \subseteq {Meta} \cup Id /\ stopped \subseteq {Meta} \cup Id
    /\ next_id \in 1 .. MaxWorkers + 3
    /\ registry \subseteq WorkerId
    /\ index \in [WorkerId -> 0 .. 2]
    /\ {cmd_addr_holder, meta, shutdown} \subseteq BOOLEAN

Init ==
    /\ main = "spawn" /\ stdin = "off"
    /\ lines = 0 /\ line = NoLine /\ attempts = 0
    /\ result = Unanswered /\ shutdown = FALSE
    /\ rx = <<>> /\ sched = New /\ wpc = "control"
    /\ actors = {} /\ stopped = {} /\ next_id = 1
    /\ cmd_addr_holder = FALSE /\ meta = FALSE /\ last_response = NoReply
    /\ registry = {} /\ info = [i \in WorkerId |-> Contract!Fresh]
    /\ index = [i \in WorkerId |-> 0]
    /\ given = [i \in Id |-> <<>>]
-----------------------------------------------------------------------------
(* The main thread. *)

(* rt.spawn(meta): MetaActor::started, on this thread, spawns CommandActor *)
(* and leaves its address in the holder.                                   *)
SpawnMeta ==
    /\ main = "spawn"
    /\ actors' = {Meta, Cmd} /\ next_id' = Cmd + 1
    /\ cmd_addr_holder' = TRUE
    /\ main' = "holder"
    /\ UNCHANGED <<stdinVars, result, shutdown, rx, loopVars, stopped, registry, info, index,
                   meta, last_response, given>>

TakeHolder ==
    /\ main = "holder" /\ cmd_addr_holder
    /\ cmd_addr_holder' = FALSE
    /\ main' = "set_meta"
    /\ UNCHANGED <<stdinVars, result, shutdown, rx, loopVars, actorVars, meta, last_response,
                   given>>

SetMeta ==
    /\ main = "set_meta"
    /\ rx' = Append(rx, Message(Cmd, "SetMeta", 0, NoReply))
    /\ result' = Unanswered
    /\ main' = "wait_meta"
    /\ UNCHANGED <<stdinVars, shutdown, loopVars, actorVars, cmdVars, given>>

(* SetMeta was handled; the reading thread starts. *)
StartStdin ==
    /\ main = "wait_meta" /\ result.done
    /\ main' = "join" /\ stdin' = "reading"
    /\ UNCHANGED <<lines, line, attempts, result, shutdown, rx, loopVars, actorVars, cmdVars,
                   given>>

(* The reading thread was joined; drop(rt) signals the worker and joins it.*)
DropRuntime ==
    /\ main = "join" /\ stdin = "ended"
    /\ shutdown' = TRUE
    /\ main' = "drop"
    /\ UNCHANGED <<stdinVars, result, rx, loopVars, actorVars, cmdVars, given>>
Joined ==
    /\ main = "drop" /\ wpc = "exited"
    /\ main' = "end"
    /\ UNCHANGED <<stdinVars, result, shutdown, rx, loopVars, actorVars, cmdVars, given>>
-----------------------------------------------------------------------------
(* The reading thread. An empty line only prints the prompt again. *)

ReadLine(l) ==
    /\ stdin = "reading" /\ lines < MaxLines
    /\ l.op = "spawn" /\ l.arg = "good" => next_id <= MaxWorkers + 2
    /\ lines' = lines + 1 /\ line' = l /\ attempts' = 0
    /\ rx' = Append(rx, [Message(Cmd, "Exec", 0, NoReply) EXCEPT !.line = lines + 1])
    /\ result' = Unanswered
    /\ stdin' = "exec"
    /\ UNCHANGED <<main, shutdown, loopVars, actorVars, cmdVars, given>>

(* quit or exit; or the end of the input, without the message. *)
Quit(typed) ==
    /\ stdin = "reading"
    /\ rx' = IF typed THEN Append(rx, Message(Cmd, "Quit", 0, NoReply)) ELSE rx
    /\ stdin' = "ended"
    /\ UNCHANGED <<main, lines, line, attempts, result, shutdown, loopVars, actorVars,
                   cmdVars, given>>

ExecReturns ==
    /\ stdin = "exec" /\ result.done
    /\ stdin' = "sleep"
    /\ UNCHANGED <<main, lines, line, attempts, result, shutdown, rx, loopVars, actorVars,
                   cmdVars, given>>

(* After a sleep. *)
Poll ==
    /\ stdin = "sleep"
    /\ rx' = Append(rx, Message(Cmd, "Poll", 0, NoReply))
    /\ result' = Unanswered
    /\ stdin' = "poll"
    /\ UNCHANGED <<main, lines, line, attempts, shutdown, loopVars, actorVars, cmdVars, given>>

(* An answer is printed and the next line read; without one the thread     *)
(* polls again, or prints (timeout).                                       *)
PollReturns ==
    /\ stdin = "poll" /\ result.done
    /\ IF result.reply # NoReply \/ attempts + 1 > MaxAttempts
         THEN stdin' = "reading" /\ line' = NoLine /\ attempts' = 0
         ELSE stdin' = "sleep" /\ attempts' = attempts + 1 /\ UNCHANGED line
    /\ result' = Unanswered
    /\ UNCHANGED <<main, lines, shutdown, rx, loopVars, actorVars, cmdVars, given>>
-----------------------------------------------------------------------------
(* The worker thread. *)

(* Shutdown is read before any message: the actors are stopped and what is *)
(* still queued is dropped.                                                *)
Shutdown ==
    /\ wpc = "control" /\ shutdown
    /\ stopped' = stopped \cup actors /\ actors' = {}
    /\ rx' = <<>> /\ sched' = New
    /\ wpc' = "exited"
    /\ UNCHANGED <<main, stdinVars, result, shutdown, next_id, registry, info, index, cmdVars,
                   given>>

ControlEmpty ==
    /\ wpc = "control" /\ ~ shutdown
    /\ wpc' = "drain"
    /\ UNCHANGED <<main, stdinVars, result, shutdown, rx, sched, actorVars, cmdVars, given>>

TakeEnvelope ==
    /\ wpc = "drain" /\ rx # <<>>
    /\ sched' = Enqueue(sched, Head(rx).to, Head(rx))
    /\ rx' = Tail(rx)
    /\ UNCHANGED <<main, stdinVars, result, shutdown, wpc, actorVars, cmdVars, given>>

(* Nobody is ready: one round of waiting. *)
Idle ==
    /\ wpc = "drain" /\ rx = <<>> /\ ~ SomeReady(sched)
    /\ wpc' = "control"
    /\ UNCHANGED <<main, stdinVars, result, shutdown, rx, sched, actorVars, cmdVars, given>>

(* The turn of the next ready actor, for a message of this kind. Every     *)
(* actor stays in the map: none calls ctx.stop.                            *)
Envelope == Dequeued(sched, NextReady(sched))
Turn(kind) ==
    /\ wpc = "drain" /\ rx = <<>> /\ SomeReady(sched)
    /\ Envelope.kind = kind
    /\ sched' = RequeueIfReady(Dequeue(AfterNextReady(sched), Envelope.to), Envelope.to)
    /\ wpc' = "control"

(* CommandActor. *)

HandleSetMeta ==
    /\ Turn("SetMeta")
    /\ meta' = TRUE
    /\ result' = Ok(NoReply)
    /\ UNCHANGED <<main, stdinVars, shutdown, rx, actorVars, cmd_addr_holder, last_response,
                   given>>

(* Exec: the answer is known at once, or MetaActor has to find it. *)
Respond(says, report) ==
    /\ last_response' = Contract!Reply(says, lines, report)
    /\ UNCHANGED rx
AskMeta(kind) ==
    /\ rx' = IF meta THEN Append(rx, Message(Meta, kind, line.id, NoReply)) ELSE rx
    /\ UNCHANGED last_response
Names(S) == Contract!Names(S)

ExecOther ==
    /\ line.op \in {"help", "unknown"}
    /\ Respond(line.op, Names({}))
ExecSpawn ==
    /\ line.op = "spawn"
    /\ IF line.arg = "good" THEN AskMeta("CreateWorker") ELSE Respond("usage", Names({}))
ExecStop ==
    /\ line.op = "stop"
    /\ CASE line.arg = "good" -> AskMeta("DestroyWorker")
         [] line.arg = "bad"  -> Respond("invalid", Names({}))
         [] OTHER             -> Respond("usage", Names({}))
(* status and list read the registry, and every worker's info under its    *)
(* lock.                                                                   *)
ExecStatus ==
    \/ line.op = "status" /\ Respond("status", [i \in registry |-> info[i]])
    \/ line.op = "list" /\ Respond("list", Names(registry))
(* send goes straight to the worker whose address is in the registry. *)
SendTo(i) ==
    /\ rx' = Append(rx, Message(i, "WorkerMessage", i, NoReply))
    /\ last_response' = Contract!Reply("sent", lines, Names({i}))
    /\ given' = [given EXCEPT ![i] = Append(@, lines)]
ExecSend ==
    /\ line.op = "send"
    /\ IF line.arg = "good" /\ line.id \in registry
         THEN SendTo(line.id)
         ELSE /\ CASE line.arg = "good" -> Respond("not found", Names({line.id}))
                   [] line.arg = "bad"  -> Respond("invalid", Names({}))
                   [] OTHER             -> Respond("usage", Names({}))
              /\ UNCHANGED given

HandleExec ==
    /\ Turn("Exec")
    /\ \/ (ExecOther \/ ExecSpawn \/ ExecStop \/ ExecStatus) /\ UNCHANGED given
       \/ ExecSend
    /\ result' = Ok(NoReply)
    /\ UNCHANGED <<main, stdinVars, shutdown, actorVars, cmd_addr_holder, meta>>

(* Poll takes the answer out of the slot. Slip: it leaves it there. *)
Kept == last_response
Taken == NoReply
HandlePoll ==
    /\ Turn("Poll")
    /\ result' = Ok(last_response)
    /\ last_response' = Taken
    /\ UNCHANGED <<main, stdinVars, shutdown, rx, actorVars, cmd_addr_holder, meta, given>>

HandleQuit ==
    /\ Turn("Quit")
    /\ UNCHANGED <<main, stdinVars, result, shutdown, rx, actorVars, cmdVars, given>>

HandleCmdResponse ==
    /\ Turn("CmdResponse")
    /\ last_response' = Envelope.reply
    /\ UNCHANGED <<main, stdinVars, result, shutdown, rx, actorVars, cmd_addr_holder, meta,
                   given>>

(* MetaActor. *)

(* notify_cmd: the answer to the line the command came from. *)
NotifyCmd(says, report) ==
    rx' = Append(rx, Message(Cmd, "CmdResponse", 0,
                             Contract!Reply(says, Envelope.line, report)))

(* ctx.spawn. Slip: the actor does not get into the map. *)
SpawnNowhere == next_id' = next_id + 1 /\ UNCHANGED actors
Spawn == next_id' = next_id + 1 /\ actors' = actors \cup {next_id}

HandleCreateWorker ==
    /\ Turn("CreateWorker")
    /\ Spawn
    /\ registry' = registry \cup {next_id}
    /\ NotifyCmd("Spawned", Names({next_id}))
    /\ UNCHANGED <<main, stdinVars, result, shutdown, stopped, info, index, cmdVars, given>>

(* Slip: an unknown worker is not answered. *)
NotFoundSilent(i) == UNCHANGED rx
NotFound(i) == NotifyCmd("not found", Names({i}))

(* The worker leaves the registry, and nothing else: the actor is neither  *)
(* told nor stopped.                                                       *)
HandleDestroyWorker ==
    LET i == Envelope.id IN
    /\ Turn("DestroyWorker")
    /\ registry' = registry \ {i}
    /\ IF i \in registry THEN NotifyCmd("Stopped", [k \in {i} |-> info[i]]) ELSE NotFound(i)
    /\ UNCHANGED <<main, stdinVars, result, shutdown, actors, stopped, next_id, info, index,
                   cmdVars, given>>

(* A worker, a state machine of three states. Slip: the count is not       *)
(* raised.                                                                 *)
CountFlat(i) == info[i].msg_count
Count(i) == info[i].msg_count + 1
Advance(i) == (index[i] + 1) % 3
HandleWorkerMessage ==
    LET i == Envelope.to
        state == Contract!WorkerState[index[i] + 1]
    IN
    /\ Turn("WorkerMessage")
    /\ info' = [info EXCEPT ![i] = Contract!Info(Count(i), Envelope.line, state)]
    /\ index' = [index EXCEPT ![i] = Advance(i)]
    /\ UNCHANGED <<main, stdinVars, result, shutdown, rx, actors, stopped, next_id, registry,
                   cmdVars, given>>

Handle ==
    \/ HandleSetMeta \/ HandleExec \/ HandlePoll \/ HandleQuit \/ HandleCmdResponse
    \/ HandleCreateWorker \/ HandleDestroyWorker \/ HandleWorkerMessage
WorkerStep == Shutdown \/ ControlEmpty \/ TakeEnvelope \/ Idle \/ Handle
MainStep == SpawnMeta \/ TakeHolder \/ SetMeta \/ StartStdin \/ DropRuntime \/ Joined
StdinStep == ExecReturns \/ Poll \/ PollReturns
Typing == (\E l \in Contract!Line : ReadLine(l)) \/ (\E typed \in BOOLEAN : Quit(typed))
Finished == main = "end" /\ UNCHANGED vars

Next == WorkerStep \/ MainStep \/ StdinStep \/ Typing \/ Finished

Spec == Init /\ [][Next]_vars

(* Threads that can run do run and sleeps end; nobody has to type.         *)
FairSpec == Spec /\ WF_vars(WorkerStep) /\ WF_vars(MainStep) /\ WF_vars(StdinStep)
-----------------------------------------------------------------------------
(* The console keeps its promise: every line takes effect once and the     *)
(* text printed for it is its own answer, never that of an earlier line    *)
(* and never (timeout); and what status and stop report of a worker counts *)
(* every message it was given before, though the actors run on their own   *)
(* and the answer goes through a slot that anyone may overwrite.           *)
KeepsContract == Contract!Spec

(* Two polls are enough: MetaActor has its turn before the first poll is   *)
(* handled, and its answer is queued before the second is sent.            *)
TwoPolls == attempts < 2

(* No message that the console reported as sent is lost: when the runtime  *)
(* is dropped, every worker has handled all it was given, those that were  *)
(* "stopped" meanwhile included.                                           *)
NothingLostAtExit ==
    wpc = "exited" => \A i \in WorkerId : info[i] = Contract!After(given[i])

(* stop <id> only takes the worker out of the registry: every actor that   *)
(* was ever spawned stays in the worker's map until the runtime is         *)
(* dropped, and its stopped hook is called then and not before. (The state *)
(* is well formed throughout.)                                             *)
StopOnlyUnregisters ==
    /\ TypeOK
    /\ IF wpc = "exited" THEN stopped = 1 .. next_id - 1
                         ELSE actors = 1 .. next_id - 1 /\ stopped = {}

(* Every line is answered, and after the last one the program ends, though *)
(* the answer has to pass two actors and the runtime is dropped under the  *)
(* actors' feet.                                                           *)
LinesAnswered ==
    /\ stdin = "exec" ~> stdin = "reading"
    /\ stdin = "ended" ~> main = "end"
=============================================================================
