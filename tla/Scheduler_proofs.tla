-------------------------- MODULE Scheduler_proofs --------------------------
(***************************************************************************)
(* What the operations of the scheduler do to its mailboxes and its ready  *)
(* queue, for any set A of actors and any set E of envelopes.  The proofs  *)
(* about the runtime rest on these facts and expand none of the operators. *)
(***************************************************************************)
EXTENDS Scheduler, SequenceTheorems, TLAPS

(* The mailboxes belong to actors of A and hold envelopes of E. *)
BoxesOK(s, A, E) ==
    /\ DOMAIN s.mailboxes \subseteq A
    /\ \A a \in DOMAIN s.mailboxes : s.mailboxes[a] \in Seq(E)

(* The ready queue holds, once each, the actors with an envelope, except   *)
(* the one whose turn it is.                                               *)
QueueOK(s, A, turn) ==
    /\ s.ready_queue \in Seq(A)
    /\ \A i, j \in DOMAIN s.ready_queue : s.ready_queue[i] = s.ready_queue[j] => i = j
    /\ \A a \in A : a \in Range(s.ready_queue) <=> HasPending(s, a) /\ a # turn

(* t has the mailboxes of s, except that of a, which is q. *)
OneBoxChanged(s, t, a, q) ==
    Mailbox(t, a) = q /\ \A b : b # a => Mailbox(t, b) = Mailbox(s, b)
SameBoxes(s, t) == \A b : Mailbox(t, b) = Mailbox(s, b)
-----------------------------------------------------------------------------
LEMMA MailboxFacts ==
    ASSUME NEW s, NEW A, NEW E, BoxesOK(s, A, E), NEW a
    PROVE  /\ Mailbox(s, a) \in Seq(E)
           /\ HasPending(s, a) <=> Mailbox(s, a) # <<>>
           /\ HasPending(s, a) => a \in A /\ s.mailboxes[a] = Mailbox(s, a)
BY DEF BoxesOK, Mailbox, HasPending

(* The envelopes held are those in some mailbox. *)
LEMMA HeldIs ==
    ASSUME NEW s, NEW A, NEW E, BoxesOK(s, A, E), NEW e
    PROVE  e \in Held(s) <=> \E a \in A : e \in Range(Mailbox(s, a))
<1>1. ASSUME e \in Held(s) PROVE \E a \in A : e \in Range(Mailbox(s, a))
  <2>1. PICK a \in DOMAIN s.mailboxes : e \in Range(s.mailboxes[a])
    BY <1>1 DEF Held
  <2> QED BY <2>1 DEF Mailbox, BoxesOK
<1>2. ASSUME NEW a \in A, e \in Range(Mailbox(s, a)) PROVE e \in Held(s)
  <2>1. a \in DOMAIN s.mailboxes
    <3> SUFFICES ASSUME a \notin DOMAIN s.mailboxes PROVE FALSE
      OBVIOUS
    <3> QED BY <1>2 DEF Mailbox, Range
  <2> QED BY <1>2, <2>1 DEF Held, Mailbox
<1> QED BY <1>1, <1>2

LEMMA NewFacts ==
    ASSUME NEW A, NEW E, NEW turn
    PROVE  /\ BoxesOK(New, A, E) /\ QueueOK(New, A, turn)
           /\ \A b : Mailbox(New, b) = <<>>
BY DEF New, BoxesOK, QueueOK, Mailbox, HasPending, Range

LEMMA PutMailboxFacts ==
    ASSUME NEW s, NEW A, NEW E, BoxesOK(s, A, E), NEW a \in A, NEW q \in Seq(E), NEW rq,
           NEW t, t = [mailboxes |-> PutMailbox(s, a, q), ready_queue |-> rq]
    PROVE  BoxesOK(t, A, E) /\ OneBoxChanged(s, t, a, q)
<1>1. t.mailboxes = [k \in DOMAIN s.mailboxes \cup {a} |-> IF k = a THEN q ELSE s.mailboxes[k]]
  BY DEF PutMailbox
<1> QED BY <1>1 DEF BoxesOK, OneBoxChanged, Mailbox

LEMMA DropMailboxFacts ==
    ASSUME NEW s, NEW A, NEW E, BoxesOK(s, A, E), NEW a, NEW rq,
           NEW t, t = [mailboxes |-> DropMailbox(s, a), ready_queue |-> rq]
    PROVE  BoxesOK(t, A, E) /\ OneBoxChanged(s, t, a, <<>>)
<1>1. t.mailboxes = [k \in DOMAIN s.mailboxes \ {a} |-> s.mailboxes[k]]
  BY DEF DropMailbox
<1> QED BY <1>1 DEF BoxesOK, OneBoxChanged, Mailbox

(* The queue after a push_back of an actor that is not in it. *)
LEMMA PushFacts ==
    ASSUME NEW A, NEW q \in Seq(A), NEW a \in A, a \notin Range(q),
           \A i, j \in DOMAIN q : q[i] = q[j] => i = j
    PROVE  /\ Append(q, a) \in Seq(A)
           /\ Range(Append(q, a)) = Range(q) \cup {a}
           /\ \A i, j \in DOMAIN Append(q, a) : Append(q, a)[i] = Append(q, a)[j] => i = j
<1>1. /\ Append(q, a) \in Seq(A) /\ DOMAIN Append(q, a) = 1 .. Len(q) + 1
      /\ Len(q) \in Nat /\ DOMAIN q = 1 .. Len(q)
      /\ Append(q, a)[Len(q) + 1] = a
      /\ \A i \in 1 .. Len(q) : Append(q, a)[i] = q[i]
  OBVIOUS
<1>2. \A i \in 1 .. Len(q) : q[i] # a
  BY <1>1 DEF Range
<1>3. \A i, j \in DOMAIN Append(q, a) : Append(q, a)[i] = Append(q, a)[j] => i = j
  BY <1>1, <1>2
<1>4. Range(Append(q, a)) = Range(q) \cup {a}
  BY <1>1 DEF Range
<1> QED BY <1>1, <1>3, <1>4

(* enqueue: the envelope is the last of the actor's mailbox, and the actor *)
(* is in the queue.                                                        *)
LEMMA EnqueueFacts ==
    ASSUME NEW s, NEW A, NEW E, BoxesOK(s, A, E), NEW a \in A, NEW e \in E
    PROVE  /\ BoxesOK(Enqueue(s, a, e), A, E)
           /\ OneBoxChanged(s, Enqueue(s, a, e), a, Append(Mailbox(s, a), e))
           /\ \A turn : turn # a /\ QueueOK(s, A, turn) => QueueOK(Enqueue(s, a, e), A, turn)
<1> DEFINE q == Append(Mailbox(s, a), e)
           t == Enqueue(s, a, e)
           rq == IF a \in Range(s.ready_queue) THEN s.ready_queue ELSE Append(s.ready_queue, a)
<1>1. Mailbox(s, a) \in Seq(E) /\ q \in Seq(E) /\ q # <<>>
  BY MailboxFacts, AppendProperties
<1>2. t = [mailboxes |-> PutMailbox(s, a, q), ready_queue |-> rq] /\ t.ready_queue = rq
  BY DEF Enqueue
<1>3. BoxesOK(t, A, E) /\ OneBoxChanged(s, t, a, q)
  <2> HIDE DEF t, q, rq
  <2> QED BY <1>1, <1>2, PutMailboxFacts
<1>4. ASSUME NEW turn, turn # a, QueueOK(s, A, turn) PROVE QueueOK(t, A, turn)
  <2>1. \A b \in A : HasPending(t, b) <=> b = a \/ HasPending(s, b)
    <3> HIDE DEF t, q
    <3>1. \A b : HasPending(t, b) <=> Mailbox(t, b) # <<>>
      BY <1>3, MailboxFacts
    <3>2. \A b : HasPending(s, b) <=> Mailbox(s, b) # <<>>
      BY MailboxFacts
    <3> QED BY <1>1, <1>3, <3>1, <3>2 DEF OneBoxChanged
  <2>2. /\ rq \in Seq(A) /\ Range(rq) = Range(s.ready_queue) \cup {a}
        /\ \A i, j \in DOMAIN rq : rq[i] = rq[j] => i = j
    <3>1. CASE a \in Range(s.ready_queue)
      BY <1>4, <3>1 DEF QueueOK
    <3>2. CASE a \notin Range(s.ready_queue)
      BY <1>4, <3>2, PushFacts DEF QueueOK
    <3> QED BY <3>1, <3>2
  <2> HIDE DEF t, rq
  <2> QED BY <1>2, <1>4, <2>1, <2>2 DEF QueueOK
<1> QED BY <1>3, <1>4

(* next_ready and dequeue between two turns: the first of the queue has    *)
(* its turn, and its first envelope is taken.                              *)
LEMMA TakeTurnFacts ==
    ASSUME NEW s, NEW A, NEW E, BoxesOK(s, A, E), NEW none, none \notin A,
           QueueOK(s, A, none), SomeReady(s), NEW a, a = NextReady(s),
           NEW t, t = Dequeue(AfterNextReady(s), a)
    PROVE  /\ a \in A /\ HasPending(s, a)
           /\ Mailbox(s, a) \in Seq(E) /\ Mailbox(s, a) # <<>>
           /\ Dequeued(s, a) = Head(Mailbox(s, a))
           /\ BoxesOK(t, A, E) /\ OneBoxChanged(s, t, a, Tail(Mailbox(s, a)))
           /\ QueueOK(t, A, a)
<1> DEFINE rq == s.ready_queue
           r == AfterNextReady(s)
<1>1. rq \in Seq(A) /\ Len(rq) \in Nat /\ DOMAIN rq = 1 .. Len(rq) /\ 1 \in DOMAIN rq /\ rq # <<>>
  BY DEF QueueOK, SomeReady
<1>2. rq[1] \in A /\ HasPending(s, rq[1])
  BY <1>1 DEF QueueOK, Range
<1>3. ReadyIndex(s) = 1
  <2>1. \A j \in 1 .. 1 - 1 : ~ HasPending(s, rq[j])
    OBVIOUS
  <2>2. ASSUME NEW i \in DOMAIN rq, i # 1, \A j \in 1 .. i - 1 : ~ HasPending(s, rq[j])
        PROVE  FALSE
    <3>1. i \in Nat /\ i > 1
      BY <1>1, <2>2
    <3> QED BY <3>1, <2>2, <1>2
  <2> QED BY <1>1, <1>2, <2>1, <2>2 DEF ReadyIndex
<1>4. a = rq[1] /\ a \in A /\ HasPending(s, a)
  BY <1>2, <1>3 DEF NextReady
<1>5. Mailbox(s, a) \in Seq(E) /\ Mailbox(s, a) # <<>> /\ s.mailboxes[a] = Mailbox(s, a)
      /\ Dequeued(s, a) = Head(Mailbox(s, a))
  BY <1>4, MailboxFacts DEF Dequeued
<1>6. r.mailboxes = s.mailboxes /\ r.ready_queue = Tail(rq)
  <2>1. SubSeq(rq, 2, Len(rq)) = Tail(rq)
    BY <1>1, TailIsSubSeq
  <2>2. r.mailboxes = s.mailboxes
    BY DEF AfterNextReady
  <2>3. r.ready_queue = SubSeq(rq, ReadyIndex(s) + 1, Len(rq))
    BY DEF AfterNextReady
  <2>4. ReadyIndex(s) + 1 = 2
    BY <1>3
  <2> QED BY <2>1, <2>2, <2>3, <2>4
<1>7. t.ready_queue = Tail(rq)
      /\ t = [mailboxes |-> PutMailbox(s, a, Tail(Mailbox(s, a))), ready_queue |-> Tail(rq)]
  BY <1>5, <1>6 DEF Dequeue, PutMailbox
<1>8. BoxesOK(t, A, E) /\ OneBoxChanged(s, t, a, Tail(Mailbox(s, a)))
  <2>1. Tail(Mailbox(s, a)) \in Seq(E)
    BY <1>5
  <2> QED BY <1>4, <1>7, <2>1, PutMailboxFacts
<1>9. QueueOK(t, A, a)
  <2>1. /\ Tail(rq) \in Seq(A) /\ Len(Tail(rq)) = Len(rq) - 1 /\ DOMAIN Tail(rq) = 1 .. Len(rq) - 1
        /\ \A i \in 1 .. Len(rq) - 1 : Tail(rq)[i] = rq[i + 1]
    <3>1. /\ Tail(rq) \in Seq(A) /\ Len(Tail(rq)) = Len(rq) - 1
          /\ \A i \in 1 .. Len(Tail(rq)) : Tail(rq)[i] = rq[i + 1]
      BY <1>1, HeadTailProperties
    <3> QED BY <3>1
  <2>2. \A i, j \in DOMAIN rq : rq[i] = rq[j] => i = j
    BY DEF QueueOK
  <2>3. \A i, j \in DOMAIN Tail(rq) : Tail(rq)[i] = Tail(rq)[j] => i = j
    <3> SUFFICES ASSUME NEW i \in 1 .. Len(rq) - 1, NEW j \in 1 .. Len(rq) - 1, rq[i + 1] = rq[j + 1]
                 PROVE  i = j
      BY <2>1
    <3>1. i + 1 \in DOMAIN rq /\ j + 1 \in DOMAIN rq
      BY <1>1
    <3>2. i + 1 = j + 1
      BY <2>2, <3>1
    <3> QED BY <3>2
  <2>4. Range(Tail(rq)) = Range(rq) \ {a}
    <3>1. ASSUME NEW x \in Range(Tail(rq)) PROVE x \in Range(rq) /\ x # a
      <4>1. PICK i \in 1 .. Len(rq) - 1 : rq[i + 1] = x
        BY <2>1 DEF Range
      <4>2. i + 1 \in DOMAIN rq /\ i + 1 # 1
        BY <1>1
      <4> QED BY <1>1, <1>4, <2>2, <4>1, <4>2 DEF Range
    <3>2. ASSUME NEW x \in Range(rq), x # a PROVE x \in Range(Tail(rq))
      <4>1. PICK k \in 1 .. Len(rq) : rq[k] = x
        BY <1>1 DEF Range
      <4>2. k - 1 \in 1 .. Len(rq) - 1 /\ (k - 1) + 1 = k
        BY <1>1, <1>4, <3>2, <4>1
      <4> QED BY <2>1, <4>1, <4>2 DEF Range
    <3> QED BY <3>1, <3>2
  <2>5. \A b \in A : b # a => (HasPending(t, b) <=> HasPending(s, b))
    <3>1. \A b : HasPending(t, b) <=> Mailbox(t, b) # <<>>
      BY <1>8, MailboxFacts
    <3>2. \A b : HasPending(s, b) <=> Mailbox(s, b) # <<>>
      BY MailboxFacts
    <3> QED BY <1>8, <3>1, <3>2 DEF OneBoxChanged
  <2> QED BY <1>7, <2>1, <2>3, <2>4, <2>5 DEF QueueOK
<1> QED BY <1>4, <1>5, <1>8, <1>9

(* next_ready with nobody ready. *)
LEMMA NobodyReadyFacts ==
    ASSUME NEW s, NEW A, NEW E, BoxesOK(s, A, E), NEW none, none \notin A,
           QueueOK(s, A, none), ~ SomeReady(s)
    PROVE  /\ BoxesOK(AfterNextReady(s), A, E) /\ QueueOK(AfterNextReady(s), A, none)
           /\ SameBoxes(s, AfterNextReady(s))
<1>1. AfterNextReady(s).mailboxes = s.mailboxes /\ AfterNextReady(s).ready_queue = <<>>
  BY DEF AfterNextReady
<1>2. \A b \in A : ~ HasPending(s, b)
  BY DEF QueueOK, SomeReady, Range
<1>3. Range(<<>>) = {} /\ <<>> \in Seq(A) /\ DOMAIN <<>> = {}
  BY DEF Range
<1> QED BY <1>1, <1>2, <1>3 DEF BoxesOK, QueueOK, SameBoxes, Mailbox, HasPending

(* requeue_if_ready after a turn. *)
LEMMA RequeueFacts ==
    ASSUME NEW s, NEW A, NEW E, BoxesOK(s, A, E), NEW a \in A, NEW none, none \notin A,
           QueueOK(s, A, a)
    PROVE  /\ BoxesOK(RequeueIfReady(s, a), A, E) /\ QueueOK(RequeueIfReady(s, a), A, none)
           /\ SameBoxes(s, RequeueIfReady(s, a))
<1> DEFINE t == RequeueIfReady(s, a)
<1>1. CASE HasPending(s, a)
  <2>1. t = [mailboxes |-> s.mailboxes, ready_queue |-> Append(s.ready_queue, a)]
    BY <1>1 DEF RequeueIfReady
  <2>2. a \notin Range(s.ready_queue)
    BY DEF QueueOK
  <2>3. /\ Append(s.ready_queue, a) \in Seq(A)
        /\ Range(Append(s.ready_queue, a)) = Range(s.ready_queue) \cup {a}
        /\ \A i, j \in DOMAIN Append(s.ready_queue, a) :
              Append(s.ready_queue, a)[i] = Append(s.ready_queue, a)[j] => i = j
    BY <2>2, PushFacts DEF QueueOK
  <2>4. t.mailboxes = s.mailboxes /\ t.ready_queue = Append(s.ready_queue, a)
    BY <2>1
  <2> HIDE DEF t
  <2>5. BoxesOK(t, A, E) /\ SameBoxes(s, t)
    BY <2>4 DEF BoxesOK, SameBoxes, Mailbox
  <2>6. \A b \in A : HasPending(t, b) <=> HasPending(s, b)
    BY <2>4 DEF HasPending
  <2>7. QueueOK(t, A, none)
    BY <1>1, <2>3, <2>4, <2>6 DEF QueueOK
  <2> QED BY <2>5, <2>7 DEF t
<1>2. CASE ~ HasPending(s, a)
  <2>1. t.ready_queue = s.ready_queue
    BY <1>2 DEF RequeueIfReady, CleanupEmpty
  <2>2. BoxesOK(t, A, E) /\ SameBoxes(s, t)
    <3>1. CASE a \in DOMAIN s.mailboxes /\ s.mailboxes[a] = <<>>
      <4>1. t = [mailboxes |-> DropMailbox(s, a), ready_queue |-> s.ready_queue]
        BY <1>2, <3>1 DEF RequeueIfReady, CleanupEmpty
      <4>2. Mailbox(s, a) = <<>>
        BY <3>1 DEF Mailbox
      <4> HIDE DEF t
      <4>3. BoxesOK(t, A, E) /\ OneBoxChanged(s, t, a, <<>>)
        BY <4>1, DropMailboxFacts
      <4> QED BY <4>2, <4>3 DEF OneBoxChanged, SameBoxes
    <3>2. CASE ~ (a \in DOMAIN s.mailboxes /\ s.mailboxes[a] = <<>>)
      BY <1>2, <3>2 DEF RequeueIfReady, CleanupEmpty, SameBoxes
    <3> QED BY <3>1, <3>2
  <2>3. \A b \in A : HasPending(t, b) <=> HasPending(s, b)
    <3> HIDE DEF t
    <3>1. \A b : HasPending(t, b) <=> Mailbox(t, b) # <<>>
      BY <2>2, MailboxFacts
    <3>2. \A b : HasPending(s, b) <=> Mailbox(s, b) # <<>>
      BY MailboxFacts
    <3> QED BY <2>2, <3>1, <3>2 DEF SameBoxes
  <2> HIDE DEF t
  <2>4. QueueOK(t, A, none)
    BY <1>2, <2>1, <2>3 DEF QueueOK
  <2> QED BY <2>2, <2>4 DEF t
<1> QED BY <1>1, <1>2

(* remove_actor: the mailbox is gone. An actor that has its turn is not in *)
(* the queue, and the queue stays as it is.                                *)
LEMMA RemoveFacts ==
    ASSUME NEW s, NEW A, NEW E, BoxesOK(s, A, E), NEW a
    PROVE  /\ BoxesOK(RemoveActor(s, a), A, E)
           /\ OneBoxChanged(s, RemoveActor(s, a), a, <<>>)
           /\ a \in A /\ QueueOK(s, A, a) => QueueOK(RemoveActor(s, a), A, a)
<1> DEFINE t == RemoveActor(s, a)
<1>1. t = [mailboxes |-> DropMailbox(s, a), ready_queue |-> Retain(s.ready_queue, a)]
  BY DEF RemoveActor
<1> HIDE DEF t
<1>2. BoxesOK(t, A, E) /\ OneBoxChanged(s, t, a, <<>>)
  BY <1>1, DropMailboxFacts
<1>3. ASSUME a \in A, QueueOK(s, A, a) PROVE QueueOK(t, A, a)
  <2>1. a \notin Range(s.ready_queue)
    BY <1>3 DEF QueueOK
  <2>2. t.ready_queue = s.ready_queue
    BY <1>1, <2>1 DEF Retain
  <2>3. \A b \in A : b # a => (HasPending(t, b) <=> HasPending(s, b))
    <3>1. \A b : HasPending(t, b) <=> Mailbox(t, b) # <<>>
      BY <1>2, MailboxFacts
    <3>2. \A b : HasPending(s, b) <=> Mailbox(s, b) # <<>>
      BY MailboxFacts
    <3> QED BY <1>2, <3>1, <3>2 DEF OneBoxChanged
  <2> QED BY <1>3, <2>1, <2>2, <2>3 DEF QueueOK
<1> QED BY <1>2, <1>3 DEF t
-----------------------------------------------------------------------------
(* Sequences of numbers in increasing order, as the messages of a channel  *)
(* and of a mailbox are.                                                   *)
Increasing(q) == \A i, j \in DOMAIN q : i < j => q[i] < q[j]

LEMMA EmptyIncreasing == Increasing(<<>>) /\ Range(<<>>) = {}
BY DEF Increasing, Range

LEMMA AppendRange ==
    ASSUME NEW S, NEW q \in Seq(S), NEW e \in S
    PROVE  Append(q, e) \in Seq(S) /\ Range(Append(q, e)) = Range(q) \cup {e}
<1>1. /\ Append(q, e) \in Seq(S) /\ DOMAIN Append(q, e) = 1 .. Len(q) + 1
      /\ Len(q) \in Nat /\ DOMAIN q = 1 .. Len(q)
      /\ Append(q, e)[Len(q) + 1] = e
      /\ \A i \in 1 .. Len(q) : Append(q, e)[i] = q[i]
  OBVIOUS
<1> QED BY <1>1 DEF Range

LEMMA AppendIncreasing ==
    ASSUME NEW S \in SUBSET Nat, NEW q \in Seq(S), NEW e \in S, Increasing(q),
           \A x \in Range(q) : x < e
    PROVE  Increasing(Append(q, e))
<1>1. /\ DOMAIN Append(q, e) = 1 .. Len(q) + 1 /\ Len(q) \in Nat /\ DOMAIN q = 1 .. Len(q)
      /\ Append(q, e)[Len(q) + 1] = e
      /\ \A i \in 1 .. Len(q) : Append(q, e)[i] = q[i]
  OBVIOUS
<1>2. \A i \in 1 .. Len(q) : q[i] < e
  BY <1>1 DEF Range
<1> SUFFICES ASSUME NEW i \in 1 .. Len(q) + 1, NEW j \in 1 .. Len(q) + 1, i < j
             PROVE  Append(q, e)[i] < Append(q, e)[j]
  BY <1>1 DEF Increasing
<1>3. i \in 1 .. Len(q)
  BY <1>1
<1>4. CASE j \in 1 .. Len(q)
  BY <1>1, <1>3, <1>4 DEF Increasing
<1>5. CASE j = Len(q) + 1
  BY <1>1, <1>2, <1>3, <1>5
<1> QED BY <1>1, <1>4, <1>5

LEMMA TailIncreasing ==
    ASSUME NEW S \in SUBSET Nat, NEW q \in Seq(S), q # <<>>, Increasing(q)
    PROVE  /\ Head(q) \in Range(q) /\ Head(q) \in S /\ Tail(q) \in Seq(S)
           /\ Range(Tail(q)) = Range(q) \ {Head(q)}
           /\ Increasing(Tail(q))
           /\ \A x \in Range(q) : x # Head(q) => Head(q) < x
<1>1. /\ Len(q) \in Nat /\ Len(q) >= 1 /\ DOMAIN q = 1 .. Len(q)
      /\ \A i \in 1 .. Len(q) : q[i] \in S /\ q[i] \in Nat
      /\ Head(q) = q[1] /\ Tail(q) \in Seq(S) /\ Len(Tail(q)) = Len(q) - 1
      /\ DOMAIN Tail(q) = 1 .. Len(q) - 1
      /\ \A i \in 1 .. Len(q) - 1 : Tail(q)[i] = q[i + 1]
  <2>1. Len(q) \in Nat /\ Len(q) >= 1 /\ DOMAIN q = 1 .. Len(q)
    BY EmptySeq
  <2>2. \A i \in 1 .. Len(q) : q[i] \in S /\ q[i] \in Nat
    BY <2>1, ElementOfSeq
  <2>3. /\ Head(q) = q[1] /\ Tail(q) \in Seq(S) /\ Len(Tail(q)) = Len(q) - 1
        /\ \A i \in 1 .. Len(Tail(q)) : Tail(q)[i] = q[i + 1]
    BY HeadTailProperties
  <2>4. DOMAIN Tail(q) = 1 .. Len(q) - 1
    BY <2>3
  <2> QED BY <2>1, <2>2, <2>3, <2>4
<1>2. \A k \in 1 .. Len(q) : k # 1 => k - 1 \in 1 .. Len(q) - 1 /\ Tail(q)[k - 1] = q[k]
                                      /\ q[1] < q[k]
  <2> SUFFICES ASSUME NEW k \in 1 .. Len(q), k # 1
               PROVE  k - 1 \in 1 .. Len(q) - 1 /\ Tail(q)[k - 1] = q[k] /\ q[1] < q[k]
    OBVIOUS
  <2>1. k - 1 \in 1 .. Len(q) - 1 /\ (k - 1) + 1 = k /\ 1 \in 1 .. Len(q) /\ 1 < k
    BY <1>1
  <2> QED BY <1>1, <2>1 DEF Increasing
<1>3. Increasing(Tail(q))
  <2> SUFFICES ASSUME NEW i \in 1 .. Len(q) - 1, NEW j \in 1 .. Len(q) - 1, i < j
               PROVE  Tail(q)[i] < Tail(q)[j]
    BY <1>1 DEF Increasing
  <2>1. i + 1 \in DOMAIN q /\ j + 1 \in DOMAIN q /\ i + 1 < j + 1
    BY <1>1
  <2> QED BY <1>1, <2>1 DEF Increasing
<1>4. ASSUME NEW x \in Range(Tail(q)) PROVE x \in Range(q) /\ x # Head(q)
  <2>1. PICK i \in 1 .. Len(q) - 1 : Tail(q)[i] = x
    BY <1>1 DEF Range
  <2>2. i + 1 \in 1 .. Len(q) /\ i + 1 # 1 /\ q[i + 1] = x
    BY <1>1, <2>1
  <2>3. q[1] < q[i + 1] /\ q[1] \in Nat /\ q[i + 1] \in Nat
    BY <1>1, <1>2, <2>2
  <2> QED BY <1>1, <2>2, <2>3 DEF Range
<1>5. ASSUME NEW x \in Range(q), x # Head(q) PROVE x \in Range(Tail(q)) /\ Head(q) < x
  <2>1. PICK k \in 1 .. Len(q) : q[k] = x
    BY <1>1 DEF Range
  <2>2. k - 1 \in 1 .. Len(q) - 1 /\ Tail(q)[k - 1] = x /\ q[1] < x
    BY <1>1, <1>2, <1>5, <2>1
  <2> QED BY <1>1, <2>2 DEF Range
<1>6. Head(q) \in Range(q) /\ Head(q) \in S
  BY <1>1 DEF Range
<1> QED BY <1>1, <1>3, <1>4, <1>5, <1>6
=============================================================================
