---------------------------- MODULE ActorSystem ----------------------------
(***************************************************************************)
(* The single-threaded runtime (ActorSystem, src/system.rs) and the test   *)
(* environment around it (TestKit, src/testkit.rs): one thread owns the    *)
(* system and calls its methods; client threads send through the Addrs     *)
(* they hold; an actor may hold Addrs as well, and they keep the channel   *)
(* open until the actor is dropped.                                        *)
(*                                                                         *)
(* The methods take &mut self: the owner makes one call at a time, so that *)
(* shutdown is never called while run is in progress.                      *)
(***************************************************************************)
EXTENDS Naturals, Sequences, Functions

CONSTANTS
    Client,      \* client threads
    MaxId,       \* bound: actors spawned
    MaxMsg,      \* bound: messages accepted
    UserPanics   \* whether handle and stopped may panic

ASSUME BoundAssumption == MaxId \in Nat /\ MaxMsg \in Nat
ASSUME PanicAssumption == UserPanics \in BOOLEAN

ActorId == 1 .. MaxId
Msg == 1 .. MaxMsg
None == 0

VARIABLES
    actors,        \* keys of the map of cells
    rx,            \* the channel
    tx,            \* whether the system still holds its own sender
    next_id,
    running,
    pc,            \* where the owner is
    call,          \* the method it is in: "none", "run", "run_once", "run_until_idle"
    processed,     \* run_once has dispatched something (count > 0)
    current,       \* message being dispatched
    cell,          \* actor being dispatched or stopped
    stopped,       \* actors whose stopped hook was called
    keeps,         \* [ActorId -> SUBSET ActorId]: Addrs in the actor's state
    hold,          \* [Client -> SUBSET ActorId]: Addrs in a client's hands
    waits,         \* [Client -> message whose result it waits for]
    sent, target, fate

sysVars == <<actors, tx, next_id, running, pc, call, processed, current, cell, stopped>>
msgVars == <<rx, sent, target, fate>>
vars == <<sysVars, keeps, hold, waits, msgVars>>

TypeOK ==
    /\ actors \subseteq ActorId /\ stopped \subseteq ActorId
    /\ rx \in Seq(Msg)
    /\ tx \in BOOLEAN /\ running \in BOOLEAN /\ processed \in BOOLEAN
    /\ next_id \in 1 .. MaxId + 1
    /\ pc \in {"idle", "recv", "handling", "on_stop", "stop_all", "unwinding", "gone"}
    /\ call \in {"none", "run", "run_once", "run_until_idle"}
    /\ current \in Msg \cup {None} /\ cell \in ActorId \cup {None}
    /\ keeps \in [ActorId -> SUBSET ActorId]
    /\ hold \in [Client -> SUBSET ActorId]
    /\ waits \in [Client -> Msg \cup {None}]
    /\ sent \in 0 .. MaxMsg
    /\ target \in [Msg -> ActorId \cup {None}]
    /\ fate \in [Msg -> {"unsent", "queued", "handling", "done", "lost"}]

(* ActorSystem::new, TestKit::new. *)
Init ==
    /\ actors = {} /\ stopped = {}
    /\ rx = <<>> /\ tx = TRUE
    /\ next_id = 1
    /\ running = FALSE /\ processed = FALSE
    /\ pc = "idle" /\ call = "none"
    /\ current = None /\ cell = None
    /\ keeps = [a \in ActorId |-> {}]
    /\ hold = [c \in Client |-> {}]
    /\ waits = [c \in Client |-> None]
    /\ sent = 0
    /\ target = [m \in Msg |-> None]
    /\ fate = [m \in Msg |-> "unsent"]

(* Somebody holds an Addr; somebody holds a sender of the channel. *)
SomeAddr == (\E c \in Client : hold[c] # {}) \/ (\E a \in ActorId : keeps[a] # {})
SomeSender == tx \/ SomeAddr
-----------------------------------------------------------------------------
(* Clients. After the system is gone a send returns RuntimeShutdown and    *)
(* nothing happens.                                                        *)
Post(a) ==
    /\ sent < MaxMsg /\ pc # "gone"
    /\ sent' = sent + 1
    /\ target' = [target EXCEPT ![sent + 1] = a]
    /\ fate' = [fate EXCEPT ![sent + 1] = "queued"]
    /\ rx' = Append(rx, sent + 1)

Send(c, a) ==
    /\ a \in hold[c] /\ waits[c] = None
    /\ Post(a)
    /\ waits' = [waits EXCEPT ![c] = sent + 1]
    /\ UNCHANGED <<sysVars, keeps, hold>>

SendReturn(c) ==
    /\ waits[c] # None /\ fate[waits[c]] \in {"done", "lost"}
    /\ waits' = [waits EXCEPT ![c] = None]
    /\ UNCHANGED <<sysVars, keeps, hold, msgVars>>

DoSend(c, a) ==
    /\ a \in hold[c] /\ waits[c] = None
    /\ Post(a)
    /\ UNCHANGED <<sysVars, keeps, hold, waits>>

DropAddr(c, a) ==
    /\ a \in hold[c] /\ waits[c] = None
    /\ hold' = [hold EXCEPT ![c] = @ \ {a}]
    /\ UNCHANGED <<sysVars, keeps, waits, msgVars>>
-----------------------------------------------------------------------------
(* The owner, between calls. *)

(* spawn, before run (afterwards it panics): the Addr goes to client c, or *)
(* into the state of the next actor; actor state may hold earlier Addrs.   *)
Spawn(c, K) ==
    /\ pc = "idle" /\ tx /\ next_id <= MaxId
    /\ K \subseteq 1 .. next_id - 1
    /\ actors' = actors \cup {next_id}
    /\ keeps' = [keeps EXCEPT ![next_id] = K]
    /\ hold' = [hold EXCEPT ![c] = @ \cup {next_id}]
    /\ next_id' = next_id + 1
    /\ UNCHANGED <<tx, running, pc, call, processed, current, cell, stopped, waits,
                   msgVars>>

(* Slips in run: it keeps the flag as it is; it keeps its own sender. *)
RunKeepsFlag ==
    /\ pc = "idle"
    /\ tx' = FALSE
    /\ pc' = "recv" /\ call' = "run"
    /\ UNCHANGED <<actors, next_id, running, processed, current, cell, stopped, keeps, hold,
                   waits, msgVars>>
RunKeepsSender ==
    /\ pc = "idle"
    /\ running' = TRUE
    /\ pc' = "recv" /\ call' = "run"
    /\ UNCHANGED <<actors, tx, next_id, processed, current, cell, stopped, keeps, hold, waits,
                   msgVars>>

(* run: the system gives up its own sender. *)
Run ==
    /\ pc = "idle"
    /\ running' = TRUE /\ tx' = FALSE
    /\ pc' = "recv" /\ call' = "run"
    /\ UNCHANGED <<actors, next_id, processed, current, cell, stopped, keeps, hold, waits,
                   msgVars>>

(* run_once, or run_until_idle, which repeats it. *)
Poll(op) ==
    /\ pc = "idle"
    /\ pc' = "recv" /\ call' = op /\ processed' = FALSE
    /\ UNCHANGED <<actors, tx, next_id, running, current, cell, stopped, keeps, hold, waits,
                   msgVars>>

(* shutdown. It has no effect on run, which it cannot interrupt and which  *)
(* sets the flag again.                                                    *)
Shutdown ==
    /\ pc = "idle"
    /\ running' = FALSE
    /\ UNCHANGED <<actors, tx, next_id, pc, call, processed, current, cell, stopped, keeps,
                   hold, waits, msgVars>>
-----------------------------------------------------------------------------
(* The owner, inside run, run_once and run_until_idle. *)

(* Slips in dispatch: an actor that is gone is called all the same; the    *)
(* envelope of such an actor is put aside.                                 *)
DispatchAnyway ==
    /\ pc = "recv" /\ rx # <<>>
    /\ rx' = Tail(rx)
    /\ fate' = [fate EXCEPT ![Head(rx)] = "handling"]
    /\ pc' = "handling" /\ current' = Head(rx) /\ cell' = target[Head(rx)]
    /\ processed' = TRUE
    /\ UNCHANGED <<actors, tx, next_id, running, call, stopped, keeps, hold, waits,
                   sent, target>>
DispatchPutsAside ==
    LET m == Head(rx)
        found == target[m] \in actors
    IN
    /\ pc = "recv" /\ rx # <<>>
    /\ rx' = Tail(rx)
    /\ fate' = IF found THEN [fate EXCEPT ![m] = "handling"] ELSE fate
    /\ pc' = IF found THEN "handling" ELSE "recv"
    /\ current' = IF found THEN m ELSE None
    /\ cell' = IF found THEN target[m] ELSE None
    /\ processed' = TRUE
    /\ UNCHANGED <<actors, tx, next_id, running, call, stopped, keeps, hold, waits,
                   sent, target>>

(* A message is taken; dispatch drops it when its actor is not there. *)
Dispatch ==
    LET m == Head(rx)
        found == target[m] \in actors
    IN
    /\ pc = "recv" /\ rx # <<>>
    /\ call = "run" => running
    /\ rx' = Tail(rx)
    /\ fate' = [fate EXCEPT ![m] = IF found THEN "handling" ELSE "lost"]
    /\ pc' = IF found THEN "handling" ELSE "recv"
    /\ current' = IF found THEN m ELSE None
    /\ cell' = IF found THEN target[m] ELSE None
    /\ processed' = TRUE
    /\ UNCHANGED <<actors, tx, next_id, running, call, stopped, keeps, hold, waits,
                   sent, target>>

(* recv fails: no sender is left. *)
Disconnected ==
    /\ pc = "recv" /\ call = "run" /\ running /\ rx = <<>> /\ ~ SomeSender
    /\ running' = FALSE
    /\ UNCHANGED <<actors, tx, next_id, pc, call, processed, current, cell, stopped, keeps,
                   hold, waits, msgVars>>

(* run leaves its loop and stops everyone. Slip: nobody. *)
LoopEndsNoStop ==
    /\ pc = "recv" /\ call = "run" /\ ~ running
    /\ pc' = "idle" /\ call' = "none"
    /\ UNCHANGED <<actors, tx, next_id, running, processed, current, cell, stopped, keeps,
                   hold, waits, msgVars>>
LoopEnds ==
    /\ pc = "recv" /\ call = "run" /\ ~ running
    /\ pc' = "stop_all"
    /\ UNCHANGED <<actors, tx, next_id, running, call, processed, current, cell, stopped,
                   keeps, hold, waits, msgVars>>

(* try_recv finds nothing: run_once returns, and run_until_idle with it    *)
(* unless this round processed something.                                  *)
PollEmpty ==
    /\ pc = "recv" /\ call # "run" /\ rx = <<>>
    /\ IF call = "run_until_idle" /\ processed
         THEN UNCHANGED <<pc, call>>
         ELSE pc' = "idle" /\ call' = "none"
    /\ processed' = FALSE
    /\ UNCHANGED <<actors, tx, next_id, running, current, cell, stopped, keeps, hold, waits,
                   msgVars>>

(* The handler, or the stopped hook, notifies an actor whose Addr it keeps.*)
HandlerNotify ==
    /\ pc \in {"handling", "on_stop"}
    /\ \E b \in keeps[cell] : Post(b)
    /\ UNCHANGED <<sysVars, keeps, hold, waits>>

(* A slip in dispatch: on_stop is called on the actor in the map. *)
HandlerReturnInPlace(stays) ==
    /\ pc = "handling"
    /\ fate' = [fate EXCEPT ![current] = "done"]
    /\ current' = None
    /\ IF stays THEN pc' = "recv" /\ cell' = None
                ELSE pc' = "on_stop" /\ UNCHANGED cell
    /\ UNCHANGED <<actors, tx, next_id, running, call, processed, stopped, keeps, hold, waits,
                   rx, sent, target>>

(* The handler returns; the actor stays or, after ctx.stop, is removed.    *)
HandlerReturn(stays) ==
    /\ pc = "handling"
    /\ fate' = [fate EXCEPT ![current] = "done"]
    /\ current' = None
    /\ IF stays THEN pc' = "recv" /\ cell' = None /\ UNCHANGED actors
                ELSE pc' = "on_stop" /\ actors' = actors \ {cell} /\ UNCHANGED cell
    /\ UNCHANGED <<tx, next_id, running, call, processed, stopped, keeps, hold, waits,
                   rx, sent, target>>

(* stopped returns and the actor is dropped, with the Addrs it keeps. *)
StoppedReturn ==
    /\ pc = "on_stop"
    /\ stopped' = stopped \cup {cell}
    /\ keeps' = [keeps EXCEPT ![cell] = {}]
    /\ cell' = None
    /\ pc' = IF call = "run" /\ ~ running THEN "stop_all" ELSE "recv"
    /\ UNCHANGED <<actors, tx, next_id, running, call, processed, current, hold, waits,
                   msgVars>>

(* stop_all_actors: the next actor, or the end of run. *)
StopNext ==
    /\ pc = "stop_all"
    /\ \E a \in actors :
          actors' = actors \ {a} /\ cell' = a /\ pc' = "on_stop"
    /\ UNCHANGED <<tx, next_id, running, call, processed, current, stopped, keeps, hold,
                   waits, msgVars>>
RunReturn ==
    /\ pc = "stop_all" /\ actors = {}
    /\ pc' = "idle" /\ call' = "none"
    /\ UNCHANGED <<actors, tx, next_id, running, processed, current, cell, stopped, keeps,
                   hold, waits, msgVars>>

(* A panic in handle or stopped is not caught: it unwinds out of the call  *)
(* and then drops the system, without any more stopped.                    *)
UserPanic ==
    /\ UserPanics /\ pc \in {"handling", "on_stop"}
    /\ fate' = IF pc = "handling" THEN [fate EXCEPT ![current] = "lost"] ELSE fate
    /\ pc' = "unwinding"
    /\ UNCHANGED <<actors, tx, next_id, running, call, processed, current, cell, stopped,
                   keeps, hold, waits, rx, sent, target>>

(* The system is dropped: after a panic, or by its owner between calls. *)
DropSystem ==
    /\ pc \in {"unwinding", "idle"}
    /\ pc' = "gone"
    /\ rx' = <<>> /\ actors' = {}
    /\ fate' = [m \in Msg |-> IF m \in Range(rx) THEN "lost" ELSE fate[m]]
    /\ keeps' = [a \in ActorId |-> {}]
    /\ call' = "none" /\ current' = None /\ cell' = None /\ tx' = FALSE
    /\ UNCHANGED <<next_id, running, processed, stopped, hold, waits, sent, target>>

(* Nothing more happens: the system is gone; or run waits for messages on  *)
(* a channel that only idle actors hold senders of.                        *)
Finished ==
    /\ \/ pc = "gone"
       \/ pc = "recv" /\ call = "run" /\ rx = <<>> /\ SomeSender
    /\ \A c \in Client : waits[c] = None /\ hold[c] = {}
    /\ UNCHANGED vars

ClientStep(c) ==
    \/ \E a \in ActorId : Send(c, a) \/ DoSend(c, a) \/ DropAddr(c, a)
    \/ SendReturn(c)
OwnerCall ==
    \/ \E c \in Client, K \in SUBSET ActorId : Spawn(c, K)
    \/ Run \/ Shutdown \/ DropSystem
    \/ \E op \in {"run_once", "run_until_idle"} : Poll(op)
LoopStep ==
    \/ Dispatch \/ Disconnected \/ LoopEnds \/ PollEmpty
    \/ HandlerNotify \/ (\E stays \in BOOLEAN : HandlerReturn(stays))
    \/ StoppedReturn \/ StopNext \/ RunReturn \/ UserPanic

Next == LoopStep \/ OwnerCall \/ (\E c \in Client : ClientStep(c)) \/ Finished

Spec == Init /\ [][Next]_vars

(* A call that can go on goes on, handlers return, a panic drops the       *)
(* system, and a client takes the answer it waits for.                     *)
FairSpec ==
    /\ Spec
    /\ WF_vars(LoopStep)
    /\ WF_vars(pc = "unwinding" /\ DropSystem)
    /\ \A c \in Client : WF_vars(SendReturn(c))
-----------------------------------------------------------------------------
(* When run has returned, every message that was accepted has been handled *)
(* unless its actor had stopped or panicked, every actor had its stopped   *)
(* call and nobody waits for an answer that will not come.                 *)
RunLeavesNothing ==
    pc = "idle" /\ ~ tx =>
        /\ actors = {} /\ rx = <<>>
        /\ stopped = 1 .. next_id - 1
        /\ \A c \in Client : waits[c] # None => fate[waits[c]] \in {"done", "lost"}

(* An actor's stopped hook is called at most once and never while the      *)
(* actor can still be dispatched to. (The state is well formed throughout.)*)
StoppedIsFinal ==
    /\ TypeOK
    /\ stopped \cap actors = {}
    /\ pc = "on_stop" => cell \notin stopped \cup actors

(* run waits on an empty channel that stays open because actors keep Addrs:*)
(* they would be dropped only by the loop that waits for them.             *)
HeldOpen ==
    /\ call = "run" /\ pc = "recv" /\ running /\ rx = <<>>
    /\ \E a \in actors : keeps[a] # {}

(* system.rs:59, second half: once all Addr senders are dropped (and no    *)
(* handler is running) run returns. The Addrs of clients are enough, but   *)
(* for one case, and that is for good: run is held open by its own actors. *)
(* run_once and run_until_idle return when no more messages arrive, and do *)
(* not wait for senders that could still send one.                         *)
OwnerReturns ==
    /\ call = "run" /\ (\A c \in Client : hold[c] = {})
         ~> pc \in {"idle", "gone"} \/ []HeldOpen
    /\ call \in {"run_once", "run_until_idle"} ~> call = "none"

(* The first half of it is not so: shutdown never ends run. The loop is    *)
(* left only when nobody can send any more and every message was           *)
(* dispatched, whatever calls of shutdown came before.                     *)
RunEndsOnlyUnreachable == call = "run" /\ pc = "stop_all" => ~ SomeSender /\ rx = <<>>

(* A blocking send returns when the owner processes messages for good:     *)
(* inside run, and with the system gone.                                   *)
SendsReturn ==
    \A c \in Client : waits[c] # None /\ (call = "run" \/ pc = "gone") ~> waits[c] = None

(* The system keeps the promise the multi-threaded runtime keeps. *)
Status ==
    [a \in ActorId |->
        CASE a >= next_id -> "unborn"
          [] a \in actors /\ ~ (pc = "unwinding" /\ cell = a) -> "live"
          [] OTHER -> "dead"]
Contract == INSTANCE ActorContract WITH status <- Status
KeepsContract == Contract!Spec
=============================================================================
