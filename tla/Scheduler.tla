----------------------------- MODULE Scheduler -----------------------------
(***************************************************************************)
(* The per-worker round-robin scheduler of src/scheduler.rs, as operators  *)
(* on a value                                                              *)
(*                                                                         *)
(*     s = [mailboxes   |-> HashMap<ActorId, VecDeque<Envelope>>,          *)
(*          ready_queue |-> VecDeque<ActorId>]                             *)
(*                                                                         *)
(* `mailboxes' is a function whose domain is the set of keys of the map:   *)
(* a key whose mailbox is empty and a missing key are different states     *)
(* (cleanup_empty turns the first into the second).  A method that takes   *)
(* &mut self is an operator that returns the scheduler after the call; a   *)
(* method that also returns a value is two operators.                      *)
(***************************************************************************)
EXTENDS Naturals, Sequences, Functions

(* Scheduler::new. *)
New == [mailboxes |-> [a \in {} |-> <<>>], ready_queue |-> <<>>]

(* has_pending: a missing mailbox counts as an empty one. *)
HasPending(s, a) == a \in DOMAIN s.mailboxes /\ s.mailboxes[a] # <<>>

(* entry(a).or_default(). *)
Mailbox(s, a) == IF a \in DOMAIN s.mailboxes THEN s.mailboxes[a] ELSE <<>>

(* mailboxes.insert(a, q). *)
PutMailbox(s, a, q) ==
    [k \in DOMAIN s.mailboxes \cup {a} |-> IF k = a THEN q ELSE s.mailboxes[k]]

(* mailboxes.remove(a). *)
DropMailbox(s, a) == [k \in DOMAIN s.mailboxes \ {a} |-> s.mailboxes[k]]

(* A slip in enqueue: the `contains' test is missing. *)
EnqueueUnguarded(s, a, e) ==
    [mailboxes   |-> PutMailbox(s, a, Append(Mailbox(s, a), e)),
     ready_queue |-> Append(s.ready_queue, a)]

(* Another: push_front for push_back. *)
EnqueueInFront(s, a, e) ==
    [mailboxes   |-> PutMailbox(s, a, <<e>> \o Mailbox(s, a)),
     ready_queue |-> IF a \in Range(s.ready_queue)
                       THEN s.ready_queue
                       ELSE Append(s.ready_queue, a)]

(* enqueue: the actor joins the ready queue unless it is in it already. *)
Enqueue(s, a, e) ==
    [mailboxes   |-> PutMailbox(s, a, Append(Mailbox(s, a), e)),
     ready_queue |-> IF a \in Range(s.ready_queue)
                       THEN s.ready_queue
                       ELSE Append(s.ready_queue, a)]

(* next_ready returns Some: some queued actor has a message. *)
SomeReady(s) == \E i \in DOMAIN s.ready_queue : HasPending(s, s.ready_queue[i])

(* The position next_ready stops at: the first actor with a message. *)
ReadyIndex(s) ==
    CHOOSE i \in DOMAIN s.ready_queue :
        /\ HasPending(s, s.ready_queue[i])
        /\ \A j \in 1 .. i - 1 : ~ HasPending(s, s.ready_queue[j])

(* next_ready, the value in Some. *)
NextReady(s) == s.ready_queue[ReadyIndex(s)]

(* next_ready, the effect: everything up to the actor found is popped, or   *)
(* the whole queue when nobody is ready.                                    *)
AfterNextReady(s) ==
    [mailboxes   |-> s.mailboxes,
     ready_queue |-> IF SomeReady(s)
                       THEN SubSeq(s.ready_queue, ReadyIndex(s) + 1, Len(s.ready_queue))
                       ELSE <<>>]

(* A slip in dequeue: front for pop_front. *)
DequeuePeek(s, a) == s

(* dequeue, for an actor with a message: the envelope and the effect. *)
Dequeued(s, a) == Head(s.mailboxes[a])
Dequeue(s, a) ==
    [mailboxes   |-> PutMailbox(s, a, Tail(s.mailboxes[a])),
     ready_queue |-> s.ready_queue]

(* cleanup_empty: the key of an empty mailbox goes. *)
CleanupEmpty(s, a) ==
    IF a \in DOMAIN s.mailboxes /\ s.mailboxes[a] = <<>>
      THEN [mailboxes |-> DropMailbox(s, a), ready_queue |-> s.ready_queue]
      ELSE s

(* Slips in requeue_if_ready: push_front for push_back; the push or the     *)
(* cleanup forgotten.                                                       *)
RequeueInFront(s, a) ==
    IF HasPending(s, a) THEN [s EXCEPT !.ready_queue = <<a>> \o @]
                        ELSE CleanupEmpty(s, a)
RequeueNever(s, a) == CleanupEmpty(s, a)
RequeueNoCleanup(s, a) ==
    IF HasPending(s, a) THEN [s EXCEPT !.ready_queue = Append(@, a)] ELSE s

(* requeue_if_ready: the push is not guarded by `contains'. *)
RequeueIfReady(s, a) ==
    IF HasPending(s, a)
      THEN [mailboxes |-> s.mailboxes, ready_queue |-> Append(s.ready_queue, a)]
      ELSE CleanupEmpty(s, a)

(* ready_queue.retain(|id| *id != a), which leaves a queue without a alone. *)
Retain(q, a) == IF a \in Range(q) THEN SelectSeq(q, LAMBDA id : id # a) ELSE q

(* remove_actor. *)
RemoveActor(s, a) ==
    [mailboxes   |-> DropMailbox(s, a),
     ready_queue |-> Retain(s.ready_queue, a)]

(* The envelopes still held in a mailbox. *)
Held(s) == UNION {Range(s.mailboxes[a]) : a \in DOMAIN s.mailboxes}
=============================================================================
