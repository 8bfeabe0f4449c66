------------------------------ MODULE Programs ------------------------------
(***************************************************************************)
(* Whole programs that use the library: main.rs, the examples ping_pong,   *)
(* state_machine and multi_thread, the tests of testkit.rs, and any other  *)
(* state machine.  Each is a few scripts: a thread sends its messages one  *)
(* after the other and unwraps the results, while the main thread runs or  *)
(* joins and drops the runtime.                                            *)
(*                                                                         *)
(* An ActorSystem is one worker, the main thread.  In the programs with a  *)
(* Runtime every actor has a worker thread of its own (pick_worker counts  *)
(* round, and there are as many threads), so that a worker's mailboxes are *)
(* the order of its channel.  A plain actor is a machine of one state.     *)
(***************************************************************************)
EXTENDS StateMachine, FiniteSets

CONSTANTS
    AnyState,      \* the states of program "any"
    MaxStates,     \* bound: length of a state sequence of program "any"
    MaxMessages    \* bound: messages sent by program "any"

ASSUME BoundAssumption == MaxStates \in Nat \ {0} /\ MaxMessages \in Nat
ASSUME ActorAssumption == {1, 2} \subseteq Actor /\ Actor \subseteq Nat
ASSUME MsgAssumption == 0 .. 8 \cup 0 .. MaxMessages \subseteq Msg
ASSUME StateAssumption ==
    {"plain", "Ping", "Pong", "Receive", "Validate", "Process", "Archive", "Execute", "Report"}
        \cup AnyState \subseteq State

VARIABLES
    prog,          \* the program
    main,          \* where the main thread is
    at,            \* [Client -> messages it has begun to send]
    cpc,           \* [Client -> "running", "waiting", "done", "panicked"]
    answer,        \* [Client -> the last result, a count]
    rx, wpc, env,  \* [Worker -> channel, program counter, message in hand]
    signalled,     \* workers that were sent Shutdown
    processed,     \* run_once has dispatched something
    messages,      \* what the probe has recorded
    seen           \* history: messages posted when run_until_idle began

Client == Actor
Worker == Actor
threadVars == <<at, cpc, answer>>
workerVars == <<rx, wpc, env, signalled>>
kitVars == <<processed, messages, seen>>
vars == <<machines, prog, main, threadVars, workerVars, kitVars>>

(* A script: the runtime, whether two actors are sent to in turn or each   *)
(* client has its own actor, the clients, the rounds, the states of the    *)
(* actors; and whether an error is unwrapped.                              *)
Script(runtime, turns, clients, rounds, sequence, unwraps) ==
    [runtime |-> runtime, turns |-> turns, clients |-> clients, rounds |-> rounds,
     sequence |-> sequence, unwraps |-> unwraps]

(* main.rs: Counter and Printer, five rounds. *)
Counting == Script("system", TRUE, {1}, 5, <<"plain">>, TRUE)
(* ping_pong.rs: Alice and Bob, four rounds. *)
RallyState == <<"Ping", "Pong">>
Rally == Script("system", TRUE, {1}, 4, RallyState, TRUE)
(* state_machine.rs: one pipeline, eight documents. *)
DocState == <<"Receive", "Validate", "Process", "Archive">>
Pipeline == Script("threads", FALSE, {1}, 8, DocState, TRUE)
(* multi_thread.rs: workers with a client each, three tasks. *)
TaskState == <<"Receive", "Execute", "Report">>
Tasks == Script("threads", FALSE, Actor, 3, TaskState, TRUE)
(* testkit.rs: a probe and two notifications. *)
Probe == Script("kit", FALSE, {1}, 2, <<"plain">>, FALSE)
(* Any sequence of states, with handlers that may stop or panic. *)
Any(sequence) == Script("threads", FALSE, {1}, MaxMessages, sequence, FALSE)

Sequences == UNION {[1 .. n -> AnyState] : n \in 1 .. MaxStates}
Scripts == {Counting, Rally, Pipeline, Tasks, Probe} \cup {Any(s) : s \in Sequences}

Threaded == prog.runtime = "threads"
Custom == Threaded /\ ~ prog.unwraps
Home(a) == IF Threaded THEN a ELSE 1
Length == IF prog.turns THEN 2 * prog.rounds ELSE prog.rounds
Target(c, k) == IF prog.turns THEN 2 - (k % 2) ELSE c
Round(k) == IF prog.turns THEN (k + 1) \div 2 ELSE k

(* What a message says: its round; the printer is told the last count. *)
Body(c, k) == IF prog = Counting /\ Target(c, k) = 2 THEN answer[c] ELSE Round(k)
Message == [to : Actor, from : Client, body : Msg]
None == [to |-> 0, from |-> 0, body |-> 0]

TypeOK ==
    /\ MachinesOK
    /\ main \in {"start", "run", "join", "drop", "done", "panicked"}
    /\ at \in [Client -> 0 .. Length] /\ answer \in [Client -> Msg]
    /\ cpc \in [Client -> {"running", "waiting", "done", "panicked"}]
    /\ rx \in [Worker -> Seq(Message)]
    /\ wpc \in [Worker -> {"control", "recv", "handling", "exited"}]
    /\ env \in [Worker -> Message \cup {None}]
    /\ \A w \in Worker : env[w] \in IF wpc[w] = "handling" THEN Message ELSE {None}
    /\ signalled \subseteq Worker
    /\ processed \in BOOLEAN /\ messages \in Seq(Msg) /\ seen \in Nat

Init ==
    /\ prog \in Scripts
    /\ New([a \in Actor |-> prog.sequence])
    /\ main = "start"
    /\ at = [c \in Client |-> 0] /\ answer = [c \in Client |-> 0]
    /\ cpc = [c \in Client |-> IF c \in prog.clients THEN "running" ELSE "done"]
    /\ rx = [w \in Worker |-> <<>>] /\ env = [w \in Worker |-> None]
    /\ wpc = [w \in Worker |-> "control"]
    /\ signalled = {}
    /\ processed = FALSE /\ messages = <<>> /\ seen = 0
-----------------------------------------------------------------------------
(* A client thread. *)

(* The sends of S fail: a thread panics in unwrap, or goes on. Slip: the   *)
(* sender is not told.                                                     *)
Failed == IF prog.unwraps THEN "panicked" ELSE "running"
FailNobody(S) == UNCHANGED cpc
Fail(S) == cpc' = [c \in Client |-> IF c \in S THEN Failed ELSE cpc[c]]

(* The next message. The probe's client uses do_send and does not wait.    *)
ClientSend(c) ==
    LET k == at[c] + 1
        w == Home(Target(c, k))
        m == [to |-> Target(c, k), from |-> c, body |-> Body(c, k)]
    IN
    /\ cpc[c] = "running" /\ at[c] < Length
    /\ at' = [at EXCEPT ![c] = k]
    /\ IF wpc[w] = "exited"
         THEN Fail({c}) /\ UNCHANGED rx
         ELSE /\ rx' = [rx EXCEPT ![w] = Append(@, m)]
              /\ cpc' = [cpc EXCEPT ![c] = IF prog = Probe THEN @ ELSE "waiting"]
    /\ UNCHANGED <<machines, prog, main, answer, wpc, env, signalled, kitVars>>

(* The script is through and the addresses are dropped. *)
ClientEnds(c) ==
    /\ cpc[c] = "running" /\ at[c] = Length
    /\ cpc' = [cpc EXCEPT ![c] = "done"]
    /\ UNCHANGED <<machines, prog, main, at, answer, workerVars, kitVars>>

Ended(c) == cpc[c] \in {"done", "panicked"}
-----------------------------------------------------------------------------
(* A worker thread, or the main thread inside run and run_until_idle. *)

Goto(w, to) == wpc' = [wpc EXCEPT ![w] = to]
Loop == IF Threaded THEN "control" ELSE "recv"

ControlEmpty(w) ==
    /\ Threaded /\ wpc[w] = "control" /\ w \notin signalled
    /\ Goto(w, "recv")
    /\ UNCHANGED <<machines, prog, main, threadVars, rx, env, signalled, kitVars>>

(* Shutdown is read before any message: the actor is stopped, and what is  *)
(* still queued is dropped with the senders of its results.                *)
RecvShutdown(w) ==
    /\ Threaded /\ wpc[w] = "control" /\ w \in signalled
    /\ Stopped({w})
    /\ Fail({m.from : m \in {rx[w][i] : i \in DOMAIN rx[w]}})
    /\ rx' = [rx EXCEPT ![w] = <<>>]
    /\ Goto(w, "exited")
    /\ UNCHANGED <<prog, main, at, answer, env, signalled, kitVars>>

Timeout(w) ==
    /\ Threaded /\ wpc[w] = "recv" /\ rx[w] = <<>>
    /\ Goto(w, "control")
    /\ UNCHANGED <<machines, prog, main, threadVars, rx, env, signalled, kitVars>>

(* A message is taken; without its actor it is dropped. *)
Dispatch(w) ==
    LET m == Head(rx[w]) IN
    /\ wpc[w] = "recv" /\ rx[w] # <<>>
    /\ rx' = [rx EXCEPT ![w] = Tail(@)]
    /\ processed' = TRUE
    /\ IF pc[m.to] = "ready"
         THEN /\ HandleBegin(m.to, m.body)
              /\ env' = [env EXCEPT ![w] = m] /\ Goto(w, "handling")
              /\ UNCHANGED cpc
         ELSE Fail({m.from}) /\ Goto(w, Loop) /\ UNCHANGED <<machines, env>>
    /\ UNCHANGED <<prog, main, at, answer, signalled, messages, seen>>

(* What a handler answers: Counter its count. The probe records. Slips: the*)
(* count from before; the newest in front.                                 *)
AnswerStale(a) == Len(log[a]) - 1
Answer(a) == Len(log[a])
RecordedInFront(m) == IF prog = Probe THEN <<m.body>> \o messages ELSE messages
Recorded(m) == IF prog = Probe THEN Append(messages, m.body) ELSE messages

Handled(w, stays) ==
    LET m == env[w] IN
    /\ wpc[w] = "handling"
    /\ stays \/ Custom
    /\ HandleReturn(m.to, stays)
    /\ messages' = Recorded(m)
    /\ answer' = [answer EXCEPT ![m.from] = Answer(m.to)]
    /\ cpc' = [cpc EXCEPT ![m.from] = IF @ = "waiting" THEN "running" ELSE @]
    /\ env' = [env EXCEPT ![w] = None] /\ Goto(w, Loop)
    /\ UNCHANGED <<prog, main, at, rx, signalled, processed, seen>>

Panics(w) ==
    /\ wpc[w] = "handling" /\ Custom
    /\ HandlePanic(env[w].to)
    /\ Fail({env[w].from})
    /\ env' = [env EXCEPT ![w] = None] /\ Goto(w, Loop)
    /\ UNCHANGED <<prog, main, at, answer, rx, signalled, kitVars>>
-----------------------------------------------------------------------------
(* The main thread. *)

(* run, or a sleep and run_until_idle; or straight to the first join. *)
Start ==
    /\ main = "start"
    /\ main' = IF prog = Tasks \/ ~ Threaded THEN "run" ELSE "join"
    /\ wpc' = IF Threaded THEN wpc ELSE [wpc EXCEPT ![1] = "recv"]
    /\ seen' = Len(rx[1]) /\ processed' = FALSE
    /\ UNCHANGED <<machines, prog, threadVars, rx, env, signalled, messages>>

(* ActorSystem::run: nobody has an address any more. Slip: it ends when    *)
(* there is no message.                                                    *)
ClosedWhenEmpty == TRUE
Closed == \A c \in Client : Ended(c)
RunReturns ==
    /\ prog.runtime = "system" /\ main = "run" /\ wpc[1] = "recv" /\ rx[1] = <<>>
    /\ Closed
    /\ Stopped(Actor)
    /\ Goto(1, "exited") /\ main' = "join"
    /\ UNCHANGED <<prog, threadVars, rx, env, signalled, kitVars>>

(* run_until_idle: one more round of run_once after one that found work. *)
PollEmpty ==
    /\ prog.runtime = "kit" /\ main = "run" /\ wpc[1] = "recv" /\ rx[1] = <<>>
    /\ processed' = FALSE
    /\ main' = IF processed THEN main ELSE "join"
    /\ Goto(1, IF processed THEN "recv" ELSE "control")
    /\ UNCHANGED <<machines, prog, threadVars, rx, env, signalled, messages, seen>>

(* Runtime::shutdown: in run, 5 ms after its start, or in drop. *)
Shutdown ==
    /\ Threaded /\ main = IF prog = Tasks THEN "run" ELSE "drop"
    /\ \E w \in Worker \ signalled :
          /\ \A v \in Worker : v < w => v \in signalled
          /\ signalled' = signalled \cup {w}
    /\ UNCHANGED <<machines, prog, main, threadVars, rx, wpc, env, kitVars>>

(* The workers are joined: the end of run, or of the program. *)
WorkersJoined ==
    /\ Threaded /\ main = IF prog = Tasks THEN "run" ELSE "drop"
    /\ \A w \in Worker : wpc[w] = "exited"
    /\ main' = IF prog = Tasks THEN "join" ELSE "done"
    /\ UNCHANGED <<machines, prog, threadVars, workerVars, kitVars>>

(* join().unwrap(), one client after the other. *)
Join ==
    /\ main = "join" /\ prog # Probe
    /\ \/ /\ \A c \in Client : cpc[c] = "done"
          /\ main' = IF Threaded /\ prog # Tasks THEN "drop" ELSE "done"
       \/ /\ \E c \in Client : cpc[c] = "panicked" /\ \A b \in Client : b < c => cpc[b] = "done"
          /\ main' = "panicked"
    /\ UNCHANGED <<machines, prog, threadVars, workerVars, kitVars>>

(* count, first and all of the probe, and reset. *)
Expected == messages = <<1, 2>>
Reset == messages' = <<>>

(* The test asserts what the probe has, and resets it; then the kit is     *)
(* dropped. Its client thread is not joined.                               *)
Assert ==
    /\ main = "join" /\ prog = Probe
    /\ IF Expected THEN main' = "done" /\ Reset ELSE main' = "panicked" /\ UNCHANGED messages
    /\ Goto(1, "exited") /\ rx' = [rx EXCEPT ![1] = <<>>]
    /\ UNCHANGED <<machines, prog, threadVars, env, signalled, processed, seen>>

MainStep ==
    \/ Start \/ RunReturns \/ PollEmpty \/ Shutdown \/ WorkersJoined \/ Join \/ Assert
WorkerStep(w) ==
    \/ ControlEmpty(w) \/ RecvShutdown(w) \/ Timeout(w) \/ Dispatch(w)
    \/ (\E stays \in BOOLEAN : Handled(w, stays)) \/ Panics(w)
ClientStep(c) == ClientSend(c) \/ ClientEnds(c)
Ending == main \in {"done", "panicked"} /\ UNCHANGED vars

Next ==
    \/ MainStep \/ Ending
    \/ \E w \in Worker : WorkerStep(w)
    \/ \E c \in Client : ClientStep(c)

Spec == Init /\ [][Next]_vars

(* Every thread runs. *)
FairSpec ==
    /\ Spec /\ WF_vars(MainStep)
    /\ \A w \in Worker : WF_vars(WorkerStep(w))
    /\ \A c \in Client : WF_vars(ClientStep(c))
-----------------------------------------------------------------------------
Bodies(a) == [n \in DOMAIN log[a] |-> log[a][n].msg]
Times(state) == Cardinality({n \in DOMAIN log[1] : log[1][n].state = state})

(* When a program prints its last line, what the line says has happened:   *)
(* every message of the script was handled, once and in order, and every   *)
(* machine has gone through whole cycles; the printer was told 1 to 5; the *)
(* pipeline has validated and processed two documents. (The state is well  *)
(* formed throughout.)                                                     *)
DoneMeansAll ==
    /\ TypeOK
    /\ main = "done" /\ prog \in {Counting, Rally, Pipeline, Tasks, Probe} =>
          /\ \A a \in IF prog.turns THEN {1, 2} ELSE prog.clients :
                Bodies(a) = [n \in 1 .. prog.rounds |-> n] /\ current[a] = 0
          /\ prog = Pipeline => Times("Validate") = 2 /\ Times("Process") = 2

(* A thread that unwraps fails only in multi_thread.rs, where run shuts    *)
(* the workers down beside the senders; the assertions on the probe fail   *)
(* only if the other thread had not sent both messages when the sleep was  *)
(* over.                                                                   *)
PanicsExplained ==
    /\ \A c \in Client : cpc[c] = "panicked" => prog = Tasks /\ c \in signalled
    /\ main = "panicked" =>
          \/ prog = Tasks /\ \E c \in Client : cpc[c] = "panicked"
          \/ prog = Probe /\ seen < prog.rounds

(* When run_until_idle returns, the probe has everything that was posted   *)
(* before it was called, and all it has is in the order of posting.        *)
IdleRecordsAllSent ==
    prog = Probe /\ main = "join" =>
        Len(messages) >= seen /\ messages = Bodies(1)

(* Every program comes to its end. *)
ProgramsEnd == <>(main \in {"done", "panicked"} /\ \A c \in Client : Ended(c))
=============================================================================
