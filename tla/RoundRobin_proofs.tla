-------------------------- MODULE RoundRobin_proofs --------------------------
(***************************************************************************)
(* Proofs about the scheduler and its use by a worker: the ready queue is  *)
(* the set of actors with work, each once and in order of waiting, and     *)
(* turns go round robin, for any set of actors and any number of messages. *)
(***************************************************************************)
EXTENDS RoundRobin, SequenceTheorems, TLAPS

(* What every step preserves: the four invariants the model checker       *)
(* tests, with the types they rest on.                                    *)
IInv == TypeOK /\ ReadyOnce /\ ReadyIffPending /\ NoEmptyMailbox /\ QueueOrder

(* A ready actor is at the head of the queue: the skipping loop of         *)
(* next_ready (scheduler.rs:39-45) never skips anyone.                     *)
LEMMA NextIsHead ==
    ASSUME TypeOK, ReadyIffPending, turn = NoActor, SomeReady(sched)
    PROVE  /\ sched.ready_queue # <<>>
           /\ ReadyIndex(sched) = 1
           /\ NextReady(sched) = Head(sched.ready_queue)
           /\ NextReady(sched) \in ActorId
           /\ HasPending(sched, NextReady(sched))
           /\ AfterNextReady(sched) =
                [mailboxes |-> sched.mailboxes, ready_queue |-> Tail(sched.ready_queue)]
<1> DEFINE rq == sched.ready_queue
<1>1. rq \in Seq(ActorId) /\ rq # <<>> /\ 1 \in DOMAIN rq
  BY DEF TypeOK, SomeReady
<1>2. rq[1] \in ActorId
  BY <1>1
<1>3. Waiting(rq[1])
  BY <1>1 DEF Waiting, Range
<1>4. HasPending(sched, rq[1])
  BY <1>2, <1>3 DEF ReadyIffPending
<1>5. ReadyIndex(sched) = 1
  <2>1. \A j \in 1 .. 1 - 1 : ~ HasPending(sched, rq[j])
    OBVIOUS
  <2>2. ASSUME NEW i \in DOMAIN rq, i # 1,
               \A j \in 1 .. i - 1 : ~ HasPending(sched, rq[j])
        PROVE  FALSE
    <3>1. i \in Nat /\ i > 1
      BY <1>1, <2>2
    <3> QED BY <3>1, <2>2, <1>4
  <2> QED BY <1>1, <1>4, <2>1, <2>2 DEF ReadyIndex
<1>6. NextReady(sched) = Head(rq)
  BY <1>5, <1>1 DEF NextReady
<1>7. AfterNextReady(sched) = [mailboxes |-> sched.mailboxes, ready_queue |-> Tail(rq)]
  <2>1. SubSeq(rq, 2, Len(rq)) = Tail(rq)
    BY <1>1, TailIsSubSeq
  <2>2. (IF SomeReady(sched) THEN SubSeq(rq, ReadyIndex(sched) + 1, Len(rq)) ELSE <<>>)
          = Tail(rq)
    <3>1. ReadyIndex(sched) + 1 = 2
      BY <1>5
    <3> QED BY <2>1, <3>1
  <2> QED BY <2>2, Zenon DEF AfterNextReady
<1> QED BY <1>1, <1>2, <1>4, <1>5, <1>6, <1>7

(* Init establishes the invariant. *)
LEMMA InitIInv == Init => IInv
<1> SUFFICES ASSUME Init PROVE IInv
  OBVIOUS
<1>1. sched.ready_queue = <<>> /\ DOMAIN sched.mailboxes = {}
  BY DEF Init, New
<1>2. TypeOK
  BY <1>1 DEF Init, New, TypeOK
<1> QED BY <1>1, <1>2 DEF IInv, ReadyOnce, ReadyIffPending, NoEmptyMailbox, QueueOrder,
                          Waiting, HasPending, Range

(* An arrival keeps the invariant. *)
LEMMA ArriveIInv ==
    ASSUME IInv, NEW a \in ActorId, NEW e \in Envelope, Arrive(a, e)
    PROVE  IInv'
<1> DEFINE mb == sched.mailboxes
           rq == sched.ready_queue
           box == Append(Mailbox(sched, a), e)
<1>0. /\ mb = sched.mailboxes /\ rq = sched.ready_queue
      /\ DOMAIN mb \subseteq ActorId
      /\ \A k \in DOMAIN mb : mb[k] \in Seq(Envelope)
      /\ rq \in Seq(ActorId) /\ turn = NoActor /\ turn' = NoActor
      /\ passed \in [ActorId -> SUBSET ActorId]
  BY DEF IInv, TypeOK, Arrive
<1>1. box \in Seq(Envelope) /\ box # <<>>
  <2>1. Mailbox(sched, a) \in Seq(Envelope)
    BY <1>0 DEF Mailbox
  <2> QED BY <2>1, AppendProperties
<1>2. sched'.mailboxes = [k \in DOMAIN mb \cup {a} |-> IF k = a THEN box ELSE mb[k]]
  BY DEF Arrive, Enqueue, PutMailbox
<1>3. sched'.ready_queue = IF a \in Range(rq) THEN rq ELSE Append(rq, a)
  BY DEF Arrive, Enqueue
<1>4. passed' = IF a \in Range(rq) THEN passed ELSE [passed EXCEPT ![a] = {}]
  BY DEF Arrive, Waiting
<1>5. TypeOK'
  <2>1. sched' = [mailboxes |-> sched'.mailboxes, ready_queue |-> sched'.ready_queue]
    BY DEF Arrive, Enqueue
  <2>2. passed' \in [ActorId -> SUBSET ActorId]
    BY <1>0, <1>4
  <2>3. sched'.ready_queue \in Seq(ActorId)
    BY <1>0, <1>3
  <2> QED BY <1>0, <1>1, <1>2, <2>1, <2>2, <2>3 DEF TypeOK
<1>6. \A k \in ActorId : HasPending(sched, k)' <=> (k = a \/ HasPending(sched, k))
  BY <1>1, <1>2 DEF HasPending
<1>7. NoEmptyMailbox'
  BY <1>0, <1>1, <1>2 DEF NoEmptyMailbox, IInv
<1>8. CASE a \in Range(rq)
  <2>1. sched'.ready_queue = rq /\ passed' = passed
    BY <1>3, <1>4, <1>8
  <2>2. HasPending(sched, a)
    BY <1>8, <1>0 DEF IInv, ReadyIffPending, Waiting
  <2>3. ReadyOnce' /\ QueueOrder'
    BY <2>1 DEF IInv, ReadyOnce, QueueOrder
  <2>4. ReadyIffPending'
    BY <2>1, <2>2, <1>0, <1>6 DEF IInv, ReadyIffPending, Waiting
  <2> QED BY <1>5, <1>7, <2>3, <2>4 DEF IInv
<1>9. CASE a \notin Range(rq)
  <2>1. sched'.ready_queue = Append(rq, a) /\ passed' = [passed EXCEPT ![a] = {}]
    BY <1>3, <1>4, <1>9
  <2>2. \A i \in 1 .. Len(rq) : rq[i] \in ActorId /\ rq[i] # a
    BY <1>0, <1>9 DEF Range
  <2>3. /\ DOMAIN Append(rq, a) = 1 .. Len(rq) + 1
        /\ Append(rq, a)[Len(rq) + 1] = a
        /\ \A i \in 1 .. Len(rq) : Append(rq, a)[i] = rq[i]
        /\ DOMAIN rq = 1 .. Len(rq) /\ Len(rq) \in Nat
    BY <1>0
  <2>4. ReadyOnce'
    BY <2>1, <2>2, <2>3 DEF IInv, ReadyOnce
  <2>5. QueueOrder'
    BY <2>1, <2>2, <2>3, <1>0 DEF IInv, QueueOrder
  <2>6. \A k : Waiting(k)' <=> (k = a \/ Waiting(k))
    BY <2>1, <2>3 DEF Waiting, Range
  <2>7. ReadyIffPending'
    BY <2>6, <1>0, <1>6, NoActorAssumption DEF IInv, ReadyIffPending
  <2> QED BY <1>5, <1>7, <2>4, <2>5, <2>7 DEF IInv
<1> QED BY <1>8, <1>9

(* The beginning of a turn keeps the invariant. *)
LEMMA BeginTurnIInv == ASSUME IInv, BeginTurn PROVE IInv'
<1> DEFINE mb == sched.mailboxes
           rq == sched.ready_queue
           x == Head(rq)
<1>0. /\ DOMAIN mb \subseteq ActorId
      /\ \A k \in DOMAIN mb : mb[k] \in Seq(Envelope)
      /\ rq \in Seq(ActorId) /\ turn = NoActor
      /\ passed \in [ActorId -> SUBSET ActorId]
  BY DEF IInv, TypeOK, BeginTurn
<1>1. /\ rq # <<>> /\ x \in ActorId /\ NextReady(sched) = x
      /\ x \in DOMAIN mb /\ mb[x] # <<>>
      /\ AfterNextReady(sched) = [mailboxes |-> mb, ready_queue |-> Tail(rq)]
  BY NextIsHead DEF IInv, BeginTurn, HasPending
<1>2. turn' = x /\ x # NoActor
  BY <1>1, NoActorAssumption DEF BeginTurn
<1>3. /\ sched'.mailboxes = [k \in DOMAIN mb \cup {x} |-> IF k = x THEN Tail(mb[x]) ELSE mb[k]]
      /\ sched'.ready_queue = Tail(rq)
      /\ sched' = [mailboxes |-> sched'.mailboxes, ready_queue |-> sched'.ready_queue]
  BY <1>1 DEF BeginTurn, Dequeue, PutMailbox
<1>4. passed' = [b \in ActorId |-> passed[b] \cup {x}]
  BY <1>1 DEF BeginTurn
<1>5. /\ Len(rq) \in Nat \ {0} /\ DOMAIN rq = 1 .. Len(rq) /\ rq[1] = x
      /\ Tail(rq) \in Seq(ActorId)
      /\ DOMAIN Tail(rq) = 1 .. Len(rq) - 1
      /\ \A i \in 1 .. Len(rq) - 1 : Tail(rq)[i] = rq[i + 1]
  BY <1>0, <1>1
<1>6. Tail(mb[x]) \in Seq(Envelope)
  BY <1>0, <1>1
<1>7. TypeOK'
  BY <1>0, <1>1, <1>2, <1>3, <1>4, <1>5, <1>6 DEF TypeOK
<1>8. ReadyOnce'
  <2>1. SUFFICES ASSUME NEW i \in 1 .. Len(rq) - 1, NEW j \in 1 .. Len(rq) - 1,
                        Tail(rq)[i] = Tail(rq)[j]
                 PROVE  i = j
    BY <1>3, <1>5 DEF ReadyOnce
  <2>2. i + 1 \in DOMAIN rq /\ j + 1 \in DOMAIN rq /\ rq[i + 1] = rq[j + 1]
    BY <1>5, <2>1
  <2>3. i + 1 = j + 1
    BY <2>2 DEF IInv, ReadyOnce
  <2> QED BY <2>3
<1>9. \A i \in 1 .. Len(rq) - 1 : Tail(rq)[i] # x /\ Tail(rq)[i] \in ActorId
  BY <1>0, <1>5 DEF IInv, ReadyOnce
<1>10. QueueOrder'
  <2>1. SUFFICES ASSUME NEW i \in 1 .. Len(rq) - 1, NEW j \in 1 .. Len(rq) - 1, i <= j
                 PROVE  Tail(rq)[i] \notin passed'[Tail(rq)[j]]
    BY <1>3, <1>5 DEF QueueOrder
  <2>2. /\ i + 1 \in DOMAIN rq /\ j + 1 \in DOMAIN rq /\ i + 1 <= j + 1
        /\ Tail(rq)[i] = rq[i + 1] /\ Tail(rq)[j] = rq[j + 1]
    BY <1>5, <2>1
  <2>3. Tail(rq)[i] \notin passed[Tail(rq)[j]]
    BY <2>2 DEF IInv, QueueOrder
  <2> QED BY <2>3, <1>4, <1>9
<1>11. \A k : Waiting(k)' <=> (k # x /\ Waiting(k))
  <2>1. ASSUME NEW k, k # x, Waiting(k) PROVE Waiting(k)'
    <3>1. PICK i \in 1 .. Len(rq) : rq[i] = k
      BY <2>1, <1>5 DEF Waiting, Range
    <3>2. i - 1 \in 1 .. Len(rq) - 1 /\ Tail(rq)[i - 1] = k
      BY <3>1, <2>1, <1>5
    <3> QED BY <3>2, <1>3, <1>5 DEF Waiting, Range
  <2>2. ASSUME NEW k, Waiting(k)' PROVE k # x /\ Waiting(k)
    <3>1. PICK i \in 1 .. Len(rq) - 1 : Tail(rq)[i] = k
      BY <2>2, <1>3, <1>5 DEF Waiting, Range
    <3> QED BY <3>1, <1>5, <1>9 DEF Waiting, Range
  <2> QED BY <2>1, <2>2
<1>12. \A k \in ActorId : k # x => (HasPending(sched, k)' <=> HasPending(sched, k))
  BY <1>3 DEF HasPending
<1>13. ReadyIffPending'
  BY <1>0, <1>2, <1>11, <1>12, NoActorAssumption DEF IInv, ReadyIffPending
<1>14. NoEmptyMailbox'
  BY <1>0, <1>2, <1>3, NoActorAssumption DEF IInv, NoEmptyMailbox
<1> QED BY <1>7, <1>8, <1>10, <1>13, <1>14 DEF IInv

(* The actor of the current turn is not in the queue, so removing it       *)
(* leaves the queue as it is.                                              *)
LEMMA TurnNotWaiting ==
    ASSUME IInv, turn # NoActor
    PROVE  turn \in ActorId /\ ~ Waiting(turn) /\ Retain(sched.ready_queue, turn) = sched.ready_queue
BY DEF IInv, TypeOK, ReadyIffPending, Waiting, Retain

(* A turn that leaves the actor's mailbox non-empty ends with the actor at *)
(* the back of the queue, waiting anew.                                    *)
LEMMA RequeuedIInv ==
    ASSUME IInv, turn # NoActor, turn' = NoActor,
           HasPending(sched, turn),
           sched' = [mailboxes   |-> sched.mailboxes,
                     ready_queue |-> Append(sched.ready_queue, turn)],
           passed' = [passed EXCEPT ![turn] = {}]
    PROVE  IInv'
<1> DEFINE rq == sched.ready_queue
           x == turn
<1>0. /\ rq \in Seq(ActorId) /\ x \in ActorId /\ x \notin Range(rq)
      /\ passed \in [ActorId -> SUBSET ActorId]
  BY TurnNotWaiting DEF IInv, TypeOK, Waiting
<1>1. sched'.mailboxes = sched.mailboxes /\ sched'.ready_queue = Append(rq, x)
  OBVIOUS
<1>2. /\ Append(rq, x) \in Seq(ActorId)
      /\ DOMAIN Append(rq, x) = 1 .. Len(rq) + 1
      /\ Append(rq, x)[Len(rq) + 1] = x
      /\ \A i \in 1 .. Len(rq) : Append(rq, x)[i] = rq[i]
      /\ DOMAIN rq = 1 .. Len(rq) /\ Len(rq) \in Nat
  BY <1>0
<1>3. \A i \in 1 .. Len(rq) : rq[i] \in ActorId /\ rq[i] # x
  BY <1>0, <1>2 DEF Range
<1>4. TypeOK'
  BY <1>0, <1>1, <1>2 DEF IInv, TypeOK
<1>5. ReadyOnce'
  BY <1>1, <1>2, <1>3 DEF IInv, ReadyOnce
<1>6. QueueOrder'
  BY <1>0, <1>1, <1>2, <1>3 DEF IInv, QueueOrder
<1>7. \A k : Waiting(k)' <=> (k = x \/ Waiting(k))
  BY <1>1, <1>2 DEF Waiting, Range
<1>8. \A k : HasPending(sched, k)' <=> HasPending(sched, k)
  BY <1>1 DEF HasPending
<1>9. ReadyIffPending'
  BY <1>7, <1>8, NoActorAssumption DEF IInv, ReadyIffPending
<1>10. NoEmptyMailbox'
  BY <1>1 DEF IInv, NoEmptyMailbox, HasPending
<1> QED BY <1>4, <1>5, <1>6, <1>9, <1>10 DEF IInv

(* A turn that leaves nothing for the actor ends with its key gone. *)
LEMMA RetiredIInv ==
    ASSUME IInv, turn # NoActor, turn' = NoActor,
           sched' = [mailboxes   |-> DropMailbox(sched, turn),
                     ready_queue |-> sched.ready_queue],
           passed' = [passed EXCEPT ![turn] = {}]
    PROVE  IInv'
<1> DEFINE mb == sched.mailboxes
           rq == sched.ready_queue
           x == turn
<1>0. /\ x \in ActorId /\ x \notin Range(rq) /\ rq \in Seq(ActorId)
      /\ passed \in [ActorId -> SUBSET ActorId]
  BY TurnNotWaiting DEF IInv, TypeOK, Waiting
<1>1. sched'.mailboxes = [k \in DOMAIN mb \ {x} |-> mb[k]] /\ sched'.ready_queue = rq
  BY DEF DropMailbox
<1>2. TypeOK'
  BY <1>0, <1>1 DEF IInv, TypeOK
<1>3. ReadyOnce'
  BY <1>1 DEF IInv, ReadyOnce
<1>4. QueueOrder'
  <2>1. \A i \in DOMAIN rq : rq[i] # x /\ rq[i] \in ActorId
    BY <1>0 DEF Range
  <2> QED BY <1>0, <1>1, <2>1 DEF IInv, QueueOrder
<1>5. \A k \in ActorId : HasPending(sched, k)' <=> (k # x /\ HasPending(sched, k))
  BY <1>1 DEF HasPending
<1>6. ReadyIffPending'
  BY <1>0, <1>1, <1>5, NoActorAssumption DEF IInv, ReadyIffPending, Waiting
<1>7. NoEmptyMailbox'
  BY <1>1 DEF IInv, NoEmptyMailbox
<1> QED BY <1>2, <1>3, <1>4, <1>6, <1>7 DEF IInv

(* The end of a turn keeps the invariant. *)
LEMMA EndTurnIInv == ASSUME IInv, EndTurn PROVE IInv'
<1>1. turn # NoActor /\ turn' = NoActor /\ passed' = [passed EXCEPT ![turn] = {}]
  BY DEF EndTurn
<1>2. CASE HasPending(sched, turn)
  BY <1>1, <1>2, RequeuedIInv DEF EndTurn, RequeueIfReady
<1>3. CASE ~ HasPending(sched, turn)
  <2>1. sched' = CleanupEmpty(sched, turn)
    BY <1>3 DEF EndTurn, RequeueIfReady
  <2>2. CASE turn \in DOMAIN sched.mailboxes
    BY <1>1, <1>3, <2>1, <2>2, RetiredIInv DEF CleanupEmpty, HasPending
  <2>3. CASE turn \notin DOMAIN sched.mailboxes
    <3>1. sched' = sched
      BY <2>1, <2>3 DEF CleanupEmpty
    <3>2. turn \in ActorId /\ ~ Waiting(turn)
      BY <1>1, TurnNotWaiting
    <3>3. TypeOK' /\ ReadyOnce' /\ NoEmptyMailbox'
      BY <1>1, <2>3, <3>1, <3>2 DEF IInv, TypeOK, ReadyOnce, NoEmptyMailbox
    <3>4. ReadyIffPending'
      BY <1>1, <1>3, <3>1, <3>2, NoActorAssumption DEF IInv, ReadyIffPending, Waiting, HasPending
    <3>5. QueueOrder'
      <4>1. \A i \in DOMAIN sched.ready_queue :
              sched.ready_queue[i] # turn /\ sched.ready_queue[i] \in ActorId
        BY <3>2 DEF IInv, TypeOK, Waiting, Range
      <4> QED BY <1>1, <3>1, <3>2, <4>1 DEF IInv, TypeOK, QueueOrder
    <3> QED BY <3>3, <3>4, <3>5 DEF IInv
  <2> QED BY <2>2, <2>3
<1> QED BY <1>2, <1>3

(* The end of the last turn of an actor keeps the invariant. *)
LEMMA EndTurnStoppedIInv == ASSUME IInv, EndTurnStopped PROVE IInv'
<1> DEFINE s == RemoveActor(sched, turn)
<1>1. turn # NoActor /\ turn' = NoActor /\ passed' = [passed EXCEPT ![turn] = {}]
  BY DEF EndTurnStopped
<1>2. s = [mailboxes |-> DropMailbox(sched, turn), ready_queue |-> sched.ready_queue]
  BY <1>1, TurnNotWaiting DEF RemoveActor
<1>3. turn \notin DOMAIN s.mailboxes
  BY <1>2 DEF DropMailbox
<1>4. sched' = s
  BY <1>3 DEF EndTurnStopped, RequeueIfReady, HasPending, CleanupEmpty
<1> QED BY <1>1, <1>2, <1>4, RetiredIInv

(* Every step keeps the invariant. *)
LEMMA NextIInv == IInv /\ [Next]_vars => IInv'
<1> SUFFICES ASSUME IInv, [Next]_vars PROVE IInv'
  OBVIOUS
<1>1. CASE \E a \in ActorId, e \in Envelope : Arrive(a, e)
  BY <1>1, ArriveIInv
<1>2. CASE BeginTurn
  BY <1>2, BeginTurnIInv
<1>3. CASE EndTurn
  BY <1>3, EndTurnIInv
<1>4. CASE EndTurnStopped
  BY <1>4, EndTurnStoppedIInv
<1>5. CASE UNCHANGED vars
  BY <1>5 DEF vars, IInv, TypeOK, ReadyOnce, ReadyIffPending, NoEmptyMailbox, QueueOrder,
              Waiting, HasPending, Range
<1> QED BY <1>1, <1>2, <1>3, <1>4, <1>5 DEF Next

(* The scheduler's bookkeeping (scheduler.rs:26-86) is right in every      *)
(* reachable state: the ready queue holds exactly the actors with a        *)
(* message outside their turn, each once, and in order of waiting, and no  *)
(* empty mailbox stays behind.                                             *)
THEOREM SchedulerInvariant == Spec => []IInv
BY InitIInv, NextIInv, PTL DEF Spec

(* Of the invariant, the part about duplicates. *)
THEOREM ReadyOnceHolds == Spec => []ReadyOnce
BY SchedulerInvariant, PTL DEF IInv

(* Of the invariant, the part about stranded messages. *)
THEOREM ReadyIffPendingHolds == Spec => []ReadyIffPending
BY SchedulerInvariant, PTL DEF IInv

(* Of the invariant, the part about what is left behind: a mailbox is gone *)
(* with its last message (Scheduler::cleanup_empty).                       *)
THEOREM NoEmptyMailboxHolds == Spec => []NoEmptyMailbox
BY SchedulerInvariant, PTL DEF IInv

(* Of the invariant, the part about fairness: the ready queue is in the    *)
(* order in which actors began to wait.                                    *)
THEOREM QueueOrderHolds == Spec => []QueueOrder
BY SchedulerInvariant, PTL DEF IInv

(* Round robin: while an actor waits, no other actor gets a second turn.   *)
THEOREM RoundRobinOrder == Spec => NoSecondTurn
<1> DEFINE A == \A b \in ActorId :
                  Waiting(b) /\ turn = NoActor /\ turn' # NoActor => turn' \notin passed[b]
<1>1. IInv /\ [Next]_vars => [A]_vars
  <2> SUFFICES ASSUME IInv, [Next]_vars, NEW b \in ActorId,
                      Waiting(b), turn = NoActor, turn' # NoActor
               PROVE  turn' \notin passed[b]
    BY DEF vars
  <2>1. BeginTurn
    BY DEF Next, vars, Arrive, EndTurn, EndTurnStopped
  <2> DEFINE rq == sched.ready_queue
  <2>2. rq # <<>> /\ turn' = Head(rq) /\ rq \in Seq(ActorId)
    BY <2>1, NextIsHead DEF BeginTurn, IInv, TypeOK
  <2>3. PICK j \in DOMAIN rq : rq[j] = b
    BY DEF Waiting, Range
  <2>4. 1 \in DOMAIN rq /\ rq[1] = turn' /\ j \in Nat /\ j >= 1
    BY <2>2
  <2> QED BY <2>3, <2>4 DEF IInv, QueueOrder
<1> QED BY <1>1, SchedulerInvariant, PTL DEF Spec, NoSecondTurn
=============================================================================
