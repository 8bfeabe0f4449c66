----------------------------- MODULE Supervisor -----------------------------
(***************************************************************************)
(* The supervisor of src/supervisor.rs: an ordered list of factories, the  *)
(* ordered list of current children, and a restart count per child.        *)
(*                                                                         *)
(* External to the supervisor: a factory spawns an actor, which runs until *)
(* it fails or is stopped.  Nothing in the library calls handle_failure;   *)
(* its user may report any id, late or twice, and the tests report         *)
(* children that still run.                                                *)
(***************************************************************************)
EXTENDS Naturals, Sequences, FiniteSets, Functions

CONSTANTS
    MaxRestarts,     \* bound: the limits a supervisor is created with
    MaxFactory,      \* bound: factories registered
    MaxId            \* bound: actors spawned

ASSUME BoundAssumption == MaxRestarts \in Nat /\ MaxFactory \in Nat /\ MaxId \in Nat

ActorId == 1 .. MaxId
Stranger == 0        \* an id that no factory returned

VARIABLES
    strategy, max_restarts,   \* fixed by Supervisor::new
    child_factories,  \* number of registered factories; factory f is the f-th
    child_ids,        \* Vec<ActorId>
    restart_counts,   \* HashMap<ActorId, usize>
    next_id,          \* the runtime's id counter
    alive,            \* actors running
    panicked,         \* a call has panicked: the supervisor's actor is gone
    (* History: the factory that spawned each actor, or 0; the number of    *)
    (* actors spawned by start_all; whether start_all was called while      *)
    (* there were children; whether an id was reported that had not failed. *)
    maker, started, doubled, misreported

params == <<strategy, max_restarts>>
records == <<child_ids, restart_counts>>
vars == <<params, child_factories, records, next_id, alive, panicked,
          maker, started, doubled, misreported>>

TypeOK ==
    /\ strategy \in {"OneForOne", "AllForOne"} /\ max_restarts \in 0 .. MaxRestarts
    /\ child_factories \in 0 .. MaxFactory
    /\ child_ids \in Seq(ActorId)
    /\ DOMAIN restart_counts \subseteq ActorId
    /\ \A a \in DOMAIN restart_counts : restart_counts[a] \in 0 .. max_restarts
    /\ next_id \in 1 .. MaxId + 1
    /\ alive \subseteq ActorId /\ panicked \in BOOLEAN
    /\ maker \in [ActorId -> 0 .. MaxFactory]
    /\ started \in 0 .. MaxId /\ doubled \in BOOLEAN /\ misreported \in BOOLEAN

(* Supervisor::new. *)
Init ==
    /\ strategy \in {"OneForOne", "AllForOne"} /\ max_restarts \in 0 .. MaxRestarts
    /\ child_factories = 0
    /\ child_ids = <<>>
    /\ restart_counts = [a \in {} |-> 0]
    /\ next_id = 1
    /\ alive = {} /\ panicked = FALSE
    /\ maker = [a \in ActorId |-> 0]
    /\ started = 0 /\ doubled = FALSE /\ misreported = FALSE

(* The factories in the sequence fs are called, in order: the ids of the   *)
(* actors they spawn.                                                      *)
NewIds(fs) == [i \in DOMAIN fs |-> next_id + i - 1]
CallFactories(fs) ==
    /\ next_id + Len(fs) <= MaxId + 1
    /\ next_id' = next_id + Len(fs)
    /\ maker' = [a \in ActorId |->
                    IF a \in Range(NewIds(fs)) THEN fs[a - next_id + 1] ELSE maker[a]]
    /\ alive' = alive \cup Range(NewIds(fs))

AllFactories == [f \in 1 .. child_factories |-> f]

(* register_child. *)
RegisterChild ==
    /\ ~ panicked /\ child_factories < MaxFactory
    /\ child_factories' = child_factories + 1
    /\ UNCHANGED <<params, records, next_id, alive, panicked, maker, started, doubled, misreported>>

(* start_all: the new children come after those there are. *)
StartAll ==
    /\ ~ panicked
    /\ CallFactories(AllFactories)
    /\ child_ids' = child_ids \o NewIds(AllFactories)
    /\ restart_counts' = [a \in DOMAIN restart_counts \cup Range(NewIds(AllFactories)) |->
                            IF a \in Range(NewIds(AllFactories)) THEN 0 ELSE restart_counts[a]]
    /\ started' = started + child_factories
    /\ doubled' = (doubled \/ (child_ids # <<>> /\ child_factories > 0))
    /\ UNCHANGED <<params, child_factories, panicked, misreported>>

(* A running actor panics, or is stopped. *)
Fail(a) ==
    /\ a \in alive
    /\ alive' = alive \ {a}
    /\ UNCHANGED <<params, child_factories, records, next_id, panicked,
                   maker, started, doubled, misreported>>

(* restart_counts.get(a), 0 for an id the supervisor does not know. *)
Count(a) == IF a \in DOMAIN restart_counts THEN restart_counts[a] ELSE 0

Forget(a) == [k \in DOMAIN restart_counts \ {a} |-> restart_counts[k]]

(* The limit is reached. *)
Exceeded(a) == Count(a) >= max_restarts

(* child_ids.retain(|&id| id != a): the others stay, in their order.       *)
RetainOthers(a) ==
    LET kept == {i \in DOMAIN child_ids : child_ids[i] # a}
        Place(k) == Cardinality({j \in kept : j <= k})
    IN  child_ids' = [i \in 1 .. Cardinality(kept) |->
                        child_ids[CHOOSE k \in kept : Place(k) = i]]

(* handle_failure beyond the limit: the child is removed from both records.*)
(* GiveUpKeepingCount: a slip, the second removal is forgotten.            *)
GiveUpKeepingCount(a) ==
    /\ Exceeded(a)
    /\ RetainOthers(a)
    /\ UNCHANGED <<restart_counts, next_id, maker, alive, panicked>>
GiveUp(a) ==
    /\ Exceeded(a)
    /\ RetainOthers(a)
    /\ restart_counts' = Forget(a)
    /\ UNCHANGED <<next_id, maker, alive, panicked>>

(* restart_one: the new child takes the place of the failed one. Slips:    *)
(* the id is not stored; it is pushed.                                     *)
ReplacedNowhere(i) == child_ids
ReplacedAtEnd(i) == Append(child_ids, next_id)
Replaced(i) == [child_ids EXCEPT ![i] = next_id]

(* restart_one: the new child inherits the count. Slip: it is not raised. *)
RecountedFlat(a) ==
    [k \in (DOMAIN restart_counts \ {a}) \cup {next_id} |->
        IF k = next_id THEN Count(a) ELSE restart_counts[k]]
Recounted(a) ==
    [k \in (DOMAIN restart_counts \ {a}) \cup {next_id} |->
        IF k = next_id THEN Count(a) + 1 ELSE restart_counts[k]]

(* restart_one: the factory is looked up by the child's position in the    *)
(* list of children, and the call panics when there is none there. Nothing *)
(* happens when the id is not in the list.                                 *)
RestartOne(a) ==
    /\ strategy = "OneForOne" /\ ~ Exceeded(a)
    /\ IF a \notin Range(child_ids)
         THEN UNCHANGED <<records, next_id, maker, alive, panicked>>
         ELSE \E i \in DOMAIN child_ids :
                /\ child_ids[i] = a /\ \A j \in 1 .. i - 1 : child_ids[j] # a
                /\ \/ /\ i \in 1 .. child_factories
                      /\ CallFactories(<<i>>)
                      /\ child_ids' = Replaced(i)
                      /\ restart_counts' = Recounted(a)
                      /\ UNCHANGED panicked
                   \/ /\ i > child_factories
                      /\ panicked' = TRUE
                      /\ UNCHANGED <<records, next_id, maker, alive>>

(* restart_all: the new ids overwrite the old ones by position, or are     *)
(* appended. Slip: they are always appended.                               *)
AllAppended(new) == child_ids \o new
AllReplaced(new) ==
    [i \in 1 .. (IF Len(child_ids) > Len(new) THEN Len(child_ids) ELSE Len(new)) |->
        IF i \in DOMAIN new THEN new[i] ELSE child_ids[i]]

(* restart_all: the counts start again from 0. *)
RecountedAll(new) == [k \in Range(new) |-> 0]

(* restart_all: every factory is called, whoever failed. *)
RestartAll(a) ==
    /\ strategy = "AllForOne" /\ ~ Exceeded(a)
    /\ CallFactories(AllFactories)
    /\ child_ids' = AllReplaced(NewIds(AllFactories))
    /\ restart_counts' = RecountedAll(NewIds(AllFactories))
    /\ UNCHANGED panicked

(* An actor has failed that was spawned and does not run any more. *)
Failed(a) == a \in 1 .. next_id - 1 /\ a \notin alive

(* handle_failure(a), whatever a is: one that has failed, perhaps reported *)
(* before, one that runs, or a stranger.                                   *)
HandleFailure(a) ==
    /\ ~ panicked /\ a < next_id
    /\ GiveUp(a) \/ RestartOne(a) \/ RestartAll(a)
    /\ misreported' = (misreported \/ ~ Failed(a))
    /\ UNCHANGED <<params, child_factories, started, doubled>>

Next ==
    \/ RegisterChild \/ StartAll
    \/ \E a \in ActorId : Fail(a)
    \/ \E a \in ActorId \cup {Stranger} : HandleFailure(a)

Spec == Init /\ [][Next]_vars
-----------------------------------------------------------------------------
(* No child is listed twice, and child_ids and restart_counts have the     *)
(* same children; only restart_all, when start_all had been called beside  *)
(* children, leaves some without a count.                                  *)
ListsAgree ==
    /\ TypeOK
    /\ \A i, j \in DOMAIN child_ids : child_ids[i] = child_ids[j] => i = j
    /\ DOMAIN restart_counts \subseteq Range(child_ids)
    /\ strategy = "OneForOne" \/ ~ doubled => DOMAIN restart_counts = Range(child_ids)

(* Every position in the list of children is that of a factory, unless     *)
(* start_all was called while there were children: only then does the      *)
(* index of child_factories[idx] in restart_one run out of bounds.         *)
FactoryFound ==
    /\ ~ doubled => Len(child_ids) <= child_factories
    /\ panicked => doubled

(* The three records of the supervisor agree through any order of          *)
(* registrations, starts, failures and reports, be the reports late,       *)
(* repeated or wrong, whatever was given up and restarted meanwhile. (The  *)
(* state is well formed throughout.)                                       *)
RecordsAgree == ListsAgree /\ FactoryFound

(* Under OneForOne no order of reports, repeated, late or wrong, brings    *)
(* more actors into being than the limit allows: max_restarts restarts for *)
(* each actor that start_all spawned. So restarting comes to an end.       *)
RestartBudget ==
    strategy = "OneForOne" => next_id - 1 <= started * (1 + max_restarts)

(* handle_failure does not look whether the reported child has failed, and *)
(* lets go of a running one. But under OneForOne no restart, give-up or    *)
(* start lets go of another child than the reported one, and every new     *)
(* actor is a child: who runs and is no child was reported while it ran.   *)
OnlyReportedLetGo ==
    [][strategy = "OneForOne" =>
          /\ \A a \in Range(child_ids) \ Range(child_ids') : HandleFailure(a)
          /\ alive' \ alive \subseteq Range(child_ids')]_vars

(* Under AllForOne the children are the newest generation, whole and in    *)
(* the order of the factories, however often the list was rebuilt and      *)
(* whenever factories were added, unless children are given up at once or  *)
(* start_all was called beside them.                                       *)
OneGeneration ==
    strategy = "AllForOne" /\ max_restarts > 0 /\ ~ doubled
        => \A i \in DOMAIN child_ids :
              /\ child_ids[i] = next_id - 1 - Len(child_ids) + i
              /\ maker[child_ids[i]] = i
-----------------------------------------------------------------------------
(* What the documentation says of the supervisor, and the code does not    *)
(* do, though it is started once and told of failures only.                *)
ProperUse == ~ doubled /\ ~ misreported

(* supervisor.rs:7: only the failed child is restarted. No factory is      *)
(* called for another child, so no two children come from one factory.     *)
OneForOneRestartsTheFailed ==
    strategy = "OneForOne" /\ ProperUse =>
        \A i, j \in DOMAIN child_ids :
            maker[child_ids[i]] = maker[child_ids[j]] => i = j
=============================================================================
