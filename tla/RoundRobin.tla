----------------------------- MODULE RoundRobin -----------------------------
(***************************************************************************)
(* One worker's use of its scheduler: the drain, next_ready / dequeue /    *)
(* dispatch / requeue_if_ready part of Worker::run (src/runtime.rs), seen   *)
(* by the actors that wait for a turn.  An envelope arrives only between   *)
(* two dispatches, because the worker that dispatches is the thread that   *)
(* drains the channel.  dispatch ends in one of two ways: the actor goes   *)
(* on, or it stopped (or panicked) and remove_actor ran.                   *)
(*                                                                         *)
(* `passed' is a history variable: passed[b] is the set of actors that had *)
(* a turn since b entered the ready queue.                                 *)
(***************************************************************************)
EXTENDS Scheduler

CONSTANTS
    ActorId,      \* the actors of the worker
    Envelope,     \* the messages, whose contents the scheduler never reads
    NoActor,      \* between two dispatches
    MaxMailbox    \* bound: envelopes waiting in one mailbox

ASSUME NoActorAssumption == NoActor \notin ActorId
ASSUME MaxMailboxAssumption == MaxMailbox \in Nat

VARIABLES sched, turn, passed
vars == <<sched, turn, passed>>

Waiting(a) == a \in Range(sched.ready_queue)

TypeOK ==
    /\ DOMAIN sched = {"mailboxes", "ready_queue"}
    /\ DOMAIN sched.mailboxes \subseteq ActorId
    /\ \A a \in DOMAIN sched.mailboxes : sched.mailboxes[a] \in Seq(Envelope)
    /\ sched.ready_queue \in Seq(ActorId)
    /\ turn \in ActorId \cup {NoActor}
    /\ passed \in [ActorId -> SUBSET ActorId]

Init ==
    /\ sched = New
    /\ turn = NoActor
    /\ passed = [a \in ActorId |-> {}]

(* An envelope for a reaches the scheduler, from the drain loop or from    *)
(* recv_timeout.                                                           *)
Arrive(a, e) ==
    /\ turn = NoActor
    /\ Len(Mailbox(sched, a)) < MaxMailbox
    /\ sched' = Enqueue(sched, a, e)
    /\ passed' = IF Waiting(a) THEN passed ELSE [passed EXCEPT ![a] = {}]
    /\ UNCHANGED turn

(* next_ready and dequeue: a turn begins. *)
BeginTurn ==
    /\ turn = NoActor
    /\ SomeReady(sched)
    /\ turn' = NextReady(sched)
    /\ sched' = Dequeue(AfterNextReady(sched), NextReady(sched))
    /\ passed' = [b \in ActorId |-> passed[b] \cup {NextReady(sched)}]

(* dispatch returned with the actor alive (or with no such actor). *)
EndTurn ==
    /\ turn # NoActor
    /\ sched' = RequeueIfReady(sched, turn)
    /\ passed' = [passed EXCEPT ![turn] = {}]
    /\ turn' = NoActor

(* dispatch stopped the actor: remove_actor, then requeue_if_ready. *)
EndTurnStopped ==
    /\ turn # NoActor
    /\ sched' = RequeueIfReady(RemoveActor(sched, turn), turn)
    /\ passed' = [passed EXCEPT ![turn] = {}]
    /\ turn' = NoActor

Next ==
    \/ \E a \in ActorId, e \in Envelope : Arrive(a, e)
    \/ BeginTurn
    \/ EndTurn
    \/ EndTurnStopped

(* The worker never rests while an actor is ready, and handlers return.   *)
(* Arrivals are left free to stop.                                        *)
Spec == Init /\ [][Next]_vars
FairSpec == Spec /\ WF_vars(BeginTurn) /\ WF_vars(EndTurn \/ EndTurnStopped)
-----------------------------------------------------------------------------
(* No actor is twice in the ready queue: requeue_if_ready pushes without   *)
(* looking (scheduler.rs:58), so a second entry would give one actor two   *)
(* turns a round and never go away.                                        *)
ReadyOnce ==
    \A i, j \in DOMAIN sched.ready_queue :
        sched.ready_queue[i] = sched.ready_queue[j] => i = j

(* An actor is in the ready queue exactly when it has a message and is not *)
(* having its turn: no message is stranded in a mailbox nobody will look   *)
(* at, and no turn is wasted on an actor with nothing to do.               *)
ReadyIffPending ==
    \A a \in ActorId : Waiting(a) <=> HasPending(sched, a) /\ a # turn

(* Between turns no empty mailbox is left in the map, so the map does not  *)
(* grow with the actors that ever had a message (cleanup_empty).           *)
NoEmptyMailbox ==
    \A a \in DOMAIN sched.mailboxes : a # turn => sched.mailboxes[a] # <<>>

(* The order of the ready queue is the order of waiting: neither b nor an  *)
(* actor ahead of b has had a turn since b entered.                        *)
QueueOrder ==
    \A i, j \in DOMAIN sched.ready_queue :
        i <= j => sched.ready_queue[i] \notin passed[sched.ready_queue[j]]

(* Round robin (scheduler.rs:6-10): a turn never goes to an actor that had *)
(* one already while some other actor has been waiting for its own.        *)
NoSecondTurn ==
    [][\A b \in ActorId :
          Waiting(b) /\ turn = NoActor /\ turn' # NoActor => turn' \notin passed[b]]_vars

(* No starvation: an actor with a message gets a turn. *)
NoStarvation == \A a \in ActorId : Waiting(a) ~> turn = a
=============================================================================
