---------------------------- MODULE StateMachine ----------------------------
(***************************************************************************)
(* The wrapper of src/stateful.rs that hands every message to its inner    *)
(* actor together with the current state, and then moves on to the next    *)
(* state of a fixed sequence.  The actions are the wrapper's side of a     *)
(* dispatch; the module that composes them decides when they happen.       *)
(***************************************************************************)
EXTENDS Naturals, Sequences

CONSTANTS
    Actor,      \* actors that are state machines
    State,      \* the states an actor may name
    Msg         \* messages

VARIABLES
    states,     \* [Actor -> A::state_sequence()]
    current,    \* [Actor -> index into its sequence, from 0]
    pc,         \* [Actor -> "ready", "handling", "stopped"]
    log         \* history: the calls of handle_in_state

machines == <<states, current, pc, log>>

MachinesOK ==
    /\ states \in [Actor -> Seq(State)]
    /\ current \in [Actor -> Nat] /\ \A a \in Actor : current[a] < Len(states[a])
    /\ pc \in [Actor -> {"ready", "handling", "stopped"}]
    /\ log \in [Actor -> Seq([state : State, msg : Msg])]

(* StateMachine::new asserts that the sequence is not empty, and starts at *)
(* its beginning; initial_state is never called.                           *)
New(sequences) ==
    /\ states = sequences /\ \A a \in Actor : states[a] # <<>>
    /\ current = [a \in Actor |-> 0]
    /\ pc = [a \in Actor |-> "ready"]
    /\ log = [a \in Actor |-> <<>>]

(* What handle_in_state is called with; current_state. *)
Call(a, msg) == [state |-> states[a][current[a] + 1], msg |-> msg]

(* handle, up to the call of handle_in_state. *)
HandleBegin(a, msg) ==
    /\ pc[a] = "ready"
    /\ pc' = [pc EXCEPT ![a] = "handling"]
    /\ log' = [log EXCEPT ![a] = Append(@, Call(a, msg))]
    /\ UNCHANGED <<states, current>>

(* The next index. Slip: no step after the last.                           *)
AdvanceToLast(a) == IF current[a] + 1 < Len(states[a]) THEN current[a] + 1 ELSE current[a]
Advance(a) == (current[a] + 1) % Len(states[a])

(* handle_in_state returns; the actor goes on or has asked to stop. *)
HandleReturn(a, stays) ==
    /\ pc[a] = "handling"
    /\ current' = [current EXCEPT ![a] = Advance(a)]
    /\ pc' = [pc EXCEPT ![a] = IF stays THEN "ready" ELSE "stopped"]
    /\ UNCHANGED <<states, log>>

(* handle_in_state panics: the index does not move, the actor is removed.  *)
HandlePanic(a) ==
    /\ pc[a] = "handling"
    /\ pc' = [pc EXCEPT ![a] = "stopped"]
    /\ UNCHANGED <<states, current, log>>

(* stopped, for the actors the runtime stops at its end. *)
Stopped(S) ==
    /\ pc' = [a \in Actor |-> IF a \in S THEN "stopped" ELSE pc[a]]
    /\ UNCHANGED <<states, current, log>>

(* Machines on their own, with any messages in any order. *)
MachineNext ==
    \/ \E a \in Actor :
          \/ \E m \in Msg : HandleBegin(a, m)
          \/ \E stays \in BOOLEAN : HandleReturn(a, stays)
          \/ HandlePanic(a)
    \/ \E S \in SUBSET Actor : Stopped(S)

MachineSpec ==
    (\E sequences \in [Actor -> Seq(State)] : New(sequences)) /\ [][MachineNext]_machines
-----------------------------------------------------------------------------
(* The n-th message is handled in the n-th state of the endless repetition *)
(* of the sequence: no state is skipped, repeated or out of order over any *)
(* number of rounds.                                                       *)
CyclesInOrder ==
    \A a \in Actor : \A n \in DOMAIN log[a] :
        log[a][n].state = states[a][((n - 1) % Len(states[a])) + 1]
=============================================================================
