--------------------------- MODULE ActorContract ---------------------------
(***************************************************************************)
(* What the runtime promises to the users of its actors, with no workers,  *)
(* channels, mailboxes or control messages: every actor lives once, takes  *)
(* its messages one at a time in the order they were accepted, and a       *)
(* message is lost only when its actor is gone.                            *)
(*                                                                         *)
(* Messages are numbered in the order in which they were accepted.         *)
(***************************************************************************)
EXTENDS Naturals

CONSTANTS ActorId, Msg

NoTarget == 0     \* the target of a message that has not been sent

VARIABLES
    status,   \* [ActorId -> {"unborn", "live", "dead"}]
    target,   \* [Msg -> ActorId \cup {NoTarget}]
    fate      \* [Msg -> {"unsent", "queued", "handling", "done", "lost"}]

vars == <<status, target, fate>>

Init ==
    /\ status = [a \in ActorId |-> "unborn"]
    /\ target = [m \in Msg |-> NoTarget]
    /\ fate = [m \in Msg |-> "unsent"]

Busy(a) == \E m \in Msg : target[m] = a /\ fate[m] = "handling"

(* An actor becomes reachable, or is born on a worker that has ended. *)
Spawn(a) ==
    /\ status[a] = "unborn"
    /\ \E st \in {"live", "dead"} : status' = [status EXCEPT ![a] = st]
    /\ UNCHANGED <<target, fate>>

(* A message is accepted for an actor that has been born. *)
Accept(m, a) ==
    /\ fate[m] = "unsent"
    /\ \A k \in Msg : k < m => fate[k] # "unsent"
    /\ status[a] # "unborn"
    /\ target' = [target EXCEPT ![m] = a]
    /\ fate' = [fate EXCEPT ![m] = "queued"]
    /\ UNCHANGED status

(* A live and idle actor takes the first message it has not yet handled:   *)
(* all earlier ones are done, none was skipped.                            *)
Begin(m) ==
    /\ fate[m] = "queued"
    /\ status[target[m]] = "live"
    /\ \A k \in Msg : k < m /\ target[k] = target[m] => fate[k] = "done"
    /\ fate' = [fate EXCEPT ![m] = "handling"]
    /\ UNCHANGED <<status, target>>

(* The handler answers; the actor may ask to stop while it does. *)
Finish(m) ==
    /\ fate[m] = "handling"
    /\ fate' = [fate EXCEPT ![m] = "done"]
    /\ \E st \in {"live", "dead"} : status' = [status EXCEPT ![target[m]] = st]
    /\ UNCHANGED target

(* The handler panics: no answer, and the actor is gone. *)
Fail(m) ==
    /\ fate[m] = "handling"
    /\ fate' = [fate EXCEPT ![m] = "lost"]
    /\ status' = [status EXCEPT ![target[m]] = "dead"]
    /\ UNCHANGED target

(* Idle actors end, and messages of actors that are gone are discarded. *)
Close(A, D) ==
    /\ \A a \in A : status[a] = "live" /\ ~ Busy(a)
    /\ status' = [a \in ActorId |-> IF a \in A THEN "dead" ELSE status[a]]
    /\ \A m \in D : fate[m] = "queued" /\ status'[target[m]] = "dead"
    /\ fate' = [m \in Msg |-> IF m \in D THEN "lost" ELSE fate[m]]
    /\ UNCHANGED target

Next ==
    \/ \E a \in ActorId : Spawn(a)
    \/ \E m \in Msg, a \in ActorId : Accept(m, a)
    \/ \E m \in Msg : Begin(m) \/ Finish(m) \/ Fail(m)
    \/ \E A \in SUBSET ActorId, D \in SUBSET Msg : Close(A, D)

Spec == Init /\ [][Next]_vars
=============================================================================
