-------------------------- MODULE ConsoleContract --------------------------
(***************************************************************************)
(* What the console of examples/console.rs promises to the person at the   *)
(* keyboard, with no actors, mailboxes or polling: one line after another, *)
(* each takes effect once and gets its own answer, and a message given to  *)
(* a worker counts from then on.                                           *)
(***************************************************************************)
EXTENDS Naturals, Sequences

CONSTANTS
    Id,        \* actor ids a line may name
    FirstId    \* the id the first worker will get

VARIABLES
    lines,     \* number of lines typed
    ask,       \* the line being executed, or NoLine
    reply,     \* its answer, or NoReply
    workers,   \* ids of the workers
    inbox,     \* [Id -> Seq(line numbers)]: the messages each worker was given
    next       \* the id the next worker gets

vars == <<lines, ask, reply, workers, inbox, next>>

(* A command line: its first word, whether its argument is missing, not a  *)
(* number or good, and the id it names.                                    *)
Say(op) == [op |-> op, arg |-> "none", id |-> 0]
Line ==
    {Say(op) : op \in {"spawn", "stop", "send", "status", "list", "help", "unknown"}}
    \cup {[op |-> op, arg |-> "bad", id |-> 0] : op \in {"stop", "send"}}
    \cup {[op |-> "spawn", arg |-> "good", id |-> 0]}
    \cup {[op |-> op, arg |-> "good", id |-> i] : op \in {"stop", "send"}, i \in Id}
NoLine == Say("nothing")

(* An answer: its wording, the line it answers, and what it reports of     *)
(* which workers.                                                          *)
Info(count, last, state) == [msg_count |-> count, last_msg |-> last, current_state |-> state]
Fresh == Info(0, 0, "Idle")
Names(S) == [i \in S |-> Fresh]
Reply(says, n, report) == [says |-> says, line |-> n, report |-> report]
NoReply == Reply("", 0, Names({}))

(* A worker that was given the messages of q. *)
WorkerState == <<"Idle", "Receiving", "Processing">>
After(q) ==
    IF q = <<>> THEN Fresh
    ELSE Info(Len(q), q[Len(q)], WorkerState[((Len(q) - 1) % 3) + 1])
Report(S) == [i \in S |-> After(inbox[i])]

Init ==
    /\ lines = 0 /\ ask = NoLine /\ reply = NoReply
    /\ workers = {} /\ inbox = [i \in Id |-> <<>>] /\ next = FirstId

Type ==
    /\ ask = NoLine
    /\ lines' = lines + 1
    /\ ask' \in Line
    /\ UNCHANGED <<reply, workers, inbox, next>>

Answer(says, report) == reply' = Reply(says, lines, report)

Spawn ==
    /\ ask.op = "spawn" /\ ask.arg = "good"
    /\ workers' = workers \cup {next} /\ next' = next + 1
    /\ Answer("Spawned", Names({next}))
    /\ UNCHANGED inbox
Stop ==
    /\ ask.op = "stop" /\ ask.arg = "good"
    /\ workers' = workers \ {ask.id}
    /\ IF ask.id \in workers THEN Answer("Stopped", Report({ask.id}))
                             ELSE Answer("not found", Names({ask.id}))
    /\ UNCHANGED <<inbox, next>>
Send ==
    /\ ask.op = "send" /\ ask.arg = "good"
    /\ IF ask.id \in workers
         THEN inbox' = [inbox EXCEPT ![ask.id] = Append(@, lines)]
              /\ Answer("sent", Names({ask.id}))
         ELSE UNCHANGED inbox /\ Answer("not found", Names({ask.id}))
    /\ UNCHANGED <<workers, next>>
Tell ==
    /\ \/ ask.op = "status" /\ Answer("status", Report(workers))
       \/ ask.op = "list" /\ Answer("list", Names(workers))
       \/ ask.op \in {"help", "unknown"} /\ Answer(ask.op, Names({}))
       \/ ask.op \in {"spawn", "stop", "send"} /\ ask.arg = "none" /\ Answer("usage", Names({}))
       \/ ask.op \in {"stop", "send"} /\ ask.arg = "bad" /\ Answer("invalid", Names({}))
    /\ UNCHANGED <<workers, inbox, next>>

Effect ==
    /\ ask # NoLine /\ reply = NoReply
    /\ Spawn \/ Stop \/ Send \/ Tell
    /\ UNCHANGED <<lines, ask>>

Show ==
    /\ reply # NoReply
    /\ ask' = NoLine /\ reply' = NoReply
    /\ UNCHANGED <<lines, workers, inbox, next>>

Next == Type \/ Effect \/ Show

Spec == Init /\ [][Next]_vars
=============================================================================
