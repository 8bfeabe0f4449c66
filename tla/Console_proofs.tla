--------------------------- MODULE Console_proofs ---------------------------
(***************************************************************************)
(* Proofs about the console, for any number of lines and workers and any   *)
(* bound on the polls that allows a second one: the second poll finds the  *)
(* answer, no message is lost at the end, workers leave the registry only, *)
(* and the console implements ConsoleContract.                             *)
(***************************************************************************)
EXTENDS Console, Scheduler_proofs, SequenceTheorems, TLAPS

(* The channel and the scheduler together are one queue, in the order of   *)
(* sending, with at most two messages in it: the ready queue takes turns   *)
(* in the order in which the actors got their messages.                    *)
One(m) == Enqueue(New, m.to, m)
Two(m, n) == Enqueue(One(m), n.to, n)
NoneQueued == rx = <<>> /\ sched = New
Queued(m) ==
    \/ rx = <<m>> /\ sched = New
    \/ rx = <<>> /\ sched = One(m)
QueuedBoth(m, n) ==
    \/ rx = <<m, n>> /\ sched = New
    \/ rx = <<n>> /\ sched = One(m)
    \/ rx = <<>> /\ sched = Two(m, n)
Carried == Range(rx) \cup Held(sched)

IsReply(r) == r.says # ""
IsFor(m, to, kind) == m.to = to /\ m.kind = kind

(* What the line has set going, with the answer still to come; only a      *)
(* worker's message has its answer already.                                *)
Errand(m) ==
    \/ /\ IsFor(m, Meta, "CreateWorker") /\ m.line = lines /\ last_response = NoReply
       /\ line.op = "spawn" /\ line.arg = "good" /\ next_id <= MaxWorkers + 2
    \/ /\ IsFor(m, Meta, "DestroyWorker") /\ m.line = lines /\ last_response = NoReply
       /\ line.op = "stop" /\ line.arg = "good" /\ m.id = line.id
    \/ /\ m.kind = "WorkerMessage" /\ m.to \in WorkerId /\ m.line = lines
       /\ IsReply(last_response)
Response(m) == IsFor(m, Cmd, "CmdResponse") /\ IsReply(m.reply) /\ last_response = NoReply
Answered == NoneQueued /\ IsReply(last_response)
Answering == Answered \/ \E m \in Carried : Queued(m) /\ Response(m)

(* Where the one line under way is. *)
Starting ==
    /\ stdin = "off" /\ line = NoLine /\ attempts = 0 /\ lines = 0 /\ last_response = NoReply
    /\ \/ main \in {"spawn", "holder", "set_meta"} /\ NoneQueued /\ result = Unanswered
       \/ /\ main = "wait_meta" /\ result = Unanswered
          /\ \E m \in Carried : Queued(m) /\ IsFor(m, Cmd, "SetMeta")
       \/ main = "wait_meta" /\ NoneQueued /\ result = Ok(NoReply) /\ meta
Resting ==
    /\ stdin \in {"reading", "ended"} /\ line = NoLine /\ attempts = 0
    /\ last_response = NoReply /\ result.reply = NoReply
    /\ \/ NoneQueued
       \/ stdin = "ended" /\ \E m \in Carried : Queued(m) /\ IsFor(m, Cmd, "Quit")
Asked ==
    /\ stdin = "exec" /\ attempts = 0 /\ last_response = NoReply /\ result = Unanswered
    /\ line.op = "spawn" /\ line.arg = "good" => next_id <= MaxWorkers + 2
    /\ \E m \in Carried : Queued(m) /\ IsFor(m, Cmd, "Exec")
Executed ==
    /\ stdin \in {"exec", "sleep"} /\ attempts = 0 /\ result = Ok(NoReply)
    /\ Answering \/ \E m \in Carried : Queued(m) /\ Errand(m)
Again == stdin = "sleep" /\ attempts = 1 /\ result = Unanswered /\ Answering
Polled ==
    /\ stdin = "poll" /\ attempts \in {0, 1} /\ result = Unanswered
    /\ \E p \in Carried :
          /\ IsFor(p, Cmd, "Poll")
          /\ \/ Queued(p) /\ IsReply(last_response)
             \/ \E m \in Carried : QueuedBoth(m, p) /\ (Response(m) \/ (attempts = 0 /\ Errand(m)))
             \/ attempts = 0 /\ \E m \in Carried : QueuedBoth(p, m) /\ Response(m)
Told ==
    /\ stdin = "poll" /\ attempts \in {0, 1}
    /\ \/ /\ NoneQueued /\ last_response = NoReply
          /\ IsReply(result.reply) /\ result = Ok(result.reply)
       \/ attempts = 0 /\ result = Ok(NoReply) /\ Answering
OneLine ==
    \/ Starting \/ Resting
    \/ line \in Contract!Line /\ (Asked \/ Executed \/ Again \/ Polled \/ Told)

(* What a worker says of itself is what it was given, less the message of  *)
(* this line as long as it is queued.                                      *)
Owed(i) == \E m \in Carried : IsFor(m, i, "WorkerMessage")
Counts(i, q) == info[i] = Contract!After(q) /\ index[i] = Len(q) % 3
Counted ==
    \A i \in WorkerId :
        IF Owed(i) THEN /\ given[i] # <<>> /\ given[i][Len(given[i])] = lines
                        /\ Counts(i, SubSeq(given[i], 1, Len(given[i]) - 1))
                   ELSE Counts(i, given[i])

(* The threads, one after the other. *)
Threads ==
    /\ stdin = "off" <=> main \in {"spawn", "holder", "set_meta", "wait_meta"}
    /\ stdin # "off" => meta
    /\ main \in {"drop", "end"} => stdin = "ended"
    /\ shutdown <=> main \in {"drop", "end"}
    /\ wpc = "exited" => shutdown /\ NoneQueued

(* Ids are counted up from Meta's. *)
Population ==
    /\ main = "spawn" => next_id = 1
    /\ main # "spawn" => next_id > Cmd
    /\ registry \subseteq Cmd + 1 .. next_id - 1

CInv ==
    /\ TypeOK
    /\ DOMAIN info = WorkerId /\ given \in [Id -> Seq(Nat)]
    /\ OneLine /\ Counted /\ Threads /\ Population /\ StopOnlyUnregisters
-----------------------------------------------------------------------------
(* The scheduler with one or two messages. *)

LEMMA OneIs ==
    ASSUME NEW m
    PROVE  /\ One(m).mailboxes = [k \in {m.to} |-> <<m>>]
           /\ One(m).ready_queue = <<m.to>>
<1>1. New.mailboxes = [a \in {} |-> <<>>] /\ New.ready_queue = <<>>
  BY DEF New
<1>2. Mailbox(New, m.to) = <<>> /\ Range(<<>>) = {}
  BY <1>1 DEF Mailbox, Range
<1>3. Append(<<>>, m) = <<m>> /\ Append(<<>>, m.to) = <<m.to>>
  OBVIOUS
<1>4. One(m).ready_queue = <<m.to>>
  BY <1>1, <1>2, <1>3 DEF One, Enqueue
<1>5. One(m).mailboxes = PutMailbox(New, m.to, <<m>>)
  BY <1>2, <1>3 DEF One, Enqueue
<1>6. PutMailbox(New, m.to, <<m>>) = [k \in {m.to} |-> <<m>>]
  BY <1>1 DEF PutMailbox
<1> QED BY <1>4, <1>5, <1>6

LEMMA OneShape ==
    ASSUME NEW m
    PROVE  One(m) = [mailboxes |-> [k \in {m.to} |-> <<m>>], ready_queue |-> <<m.to>>]
<1>1. PICK b, q : One(m) = [mailboxes |-> b, ready_queue |-> q]
  BY DEF One, Enqueue
<1> QED BY <1>1, OneIs

(* Sequences of one or two elements. *)
LEMMA Pairs ==
    ASSUME NEW x, NEW y
    PROVE  /\ Append(<<x>>, y) = <<x, y>> /\ Tail(<<x, y>>) = <<y>> /\ Tail(<<x>>) = <<>>
           /\ SubSeq(<<x>>, 2, 1) = <<>> /\ SubSeq(<<x, y>>, 2, 2) = <<y>>
<1>1. <<x>> \in Seq({x, y}) /\ <<x, y>> \in Seq({x, y}) /\ x \in {x, y} /\ y \in {x, y}
  OBVIOUS
<1>2. Len(<<x>>) = 1 /\ Len(<<x, y>>) = 2
  OBVIOUS
<1>3. Append(<<x>>, y) = <<x, y>>
  <2> DEFINE a == Append(<<x>>, y)
             b == <<x, y>>
  <2>1. a \in Seq({x, y}) /\ Len(a) = 2 /\ a[1] = x /\ a[2] = y
    BY <1>1, <1>2
  <2>2. b \in Seq({x, y}) /\ Len(b) = 2 /\ b[1] = x /\ b[2] = y
    BY <1>1, <1>2
  <2> HIDE DEF a, b
  <2>3. \A i \in 1 .. Len(a) : a[i] = b[i]
    BY <2>1, <2>2
  <2>4. a = b
    BY <2>1, <2>2, <2>3, SeqEqual
  <2> QED BY <2>4 DEF a, b
<1>4. Tail(<<x, y>>) = <<y>> /\ Tail(<<x>>) = <<>>
  BY <1>1, <1>2
<1>5. SubSeq(<<x>>, 2, 1) = <<>>
  BY <1>1, <1>2
<1>6. SubSeq(<<x, y>>, 2, 2) = <<y>>
  BY <1>1, <1>2, <1>4, TailIsSubSeq
<1> QED BY <1>3, <1>4, <1>5, <1>6

LEMMA TwoIs ==
    ASSUME NEW m, NEW n
    PROVE  /\ m.to = n.to => /\ Two(m, n).mailboxes = [k \in {m.to} |-> <<m, n>>]
                             /\ Two(m, n).ready_queue = <<m.to>>
           /\ m.to # n.to =>
                 /\ Two(m, n).mailboxes = [k \in {m.to, n.to} |-> IF k = n.to THEN <<n>> ELSE <<m>>]
                 /\ Two(m, n).ready_queue = <<m.to, n.to>>
<1> DEFINE q == Append(Mailbox(One(m), n.to), n)
<1>1. /\ Two(m, n).mailboxes = PutMailbox(One(m), n.to, q)
      /\ Two(m, n).ready_queue = IF n.to \in Range(<<m.to>>) THEN <<m.to>>
                                                             ELSE Append(<<m.to>>, n.to)
  BY OneIs DEF Two, Enqueue
<1>2. Range(<<m.to>>) = {m.to}
  BY DEF Range
<1>0. One(m).mailboxes = [k \in {m.to} |-> <<m>>]
  BY OneIs
<1>3. DOMAIN One(m).mailboxes = {m.to} /\ One(m).mailboxes[m.to] = <<m>>
  BY <1>0
<1>4. CASE m.to = n.to
  <2>1. q = <<m, n>>
    <3>1. Mailbox(One(m), n.to) = <<m>>
      BY <1>3, <1>4 DEF Mailbox
    <3> QED BY <3>1, Pairs
  <2>2. PutMailbox(One(m), n.to, q) = [k \in {m.to} |-> <<m, n>>]
    BY <1>3, <1>4, <2>1 DEF PutMailbox
  <2> QED BY <1>1, <1>2, <1>4, <2>2
<1>5. CASE m.to # n.to
  <2>1. q = <<n>>
    <3>1. Mailbox(One(m), n.to) = <<>>
      BY <1>3, <1>5 DEF Mailbox
    <3>2. Append(<<>>, n) = <<n>>
      OBVIOUS
    <3> QED BY <3>1, <3>2
  <2>2. PutMailbox(One(m), n.to, <<n>>)
          = [k \in {m.to, n.to} |-> IF k = n.to THEN <<n>> ELSE <<m>>]
    BY <1>3, <1>5 DEF PutMailbox
  <2>3. Append(<<m.to>>, n.to) = <<m.to, n.to>>
    BY Pairs
  <2> QED BY <1>1, <1>2, <1>5, <2>1, <2>2, <2>3
<1> QED BY <1>4, <1>5

LEMMA TwoSame ==
    ASSUME NEW m, NEW n, m.to = n.to
    PROVE  /\ Two(m, n).mailboxes = [k \in {m.to} |-> <<m, n>>]
           /\ Two(m, n).ready_queue = <<m.to>>
BY TwoIs

LEMMA TwoApart ==
    ASSUME NEW m, NEW n, m.to # n.to
    PROVE  /\ Two(m, n).mailboxes = [k \in {m.to, n.to} |-> IF k = n.to THEN <<n>> ELSE <<m>>]
           /\ Two(m, n).ready_queue = <<m.to, n.to>>
BY TwoIs

(* The first actor of the ready queue has a message: it gets the turn. *)
LEMMA FirstReady ==
    ASSUME NEW s, NEW A, s.ready_queue \in Seq(A), s.ready_queue # <<>>,
           NEW a, s.ready_queue[1] = a, HasPending(s, a)
    PROVE  SomeReady(s) /\ ReadyIndex(s) = 1 /\ NextReady(s) = a
<1> DEFINE First(i) == /\ HasPending(s, s.ready_queue[i])
                       /\ \A j \in 1 .. i - 1 : ~ HasPending(s, s.ready_queue[j])
<1>0. DOMAIN s.ready_queue = 1 .. Len(s.ready_queue) /\ Len(s.ready_queue) \in Nat \ {0}
  OBVIOUS
<1>1. First(1) /\ 1 \in DOMAIN s.ready_queue
  BY <1>0
<1>2. \A i \in DOMAIN s.ready_queue : First(i) => i = 1
  BY <1>0
<1>3. ReadyIndex(s) = CHOOSE i \in DOMAIN s.ready_queue : First(i)
  BY DEF ReadyIndex
<1> HIDE DEF First
<1>4. ReadyIndex(s) = 1
  BY <1>1, <1>2, <1>3
<1>5. SomeReady(s)
  BY <1>1 DEF SomeReady
<1> QED BY <1>4, <1>5 DEF NextReady

LEMMA NewIdle == ~ SomeReady(New)
BY DEF New, SomeReady

LEMMA TurnOfOne ==
    ASSUME NEW m
    PROVE  /\ SomeReady(One(m)) /\ NextReady(One(m)) = m.to /\ Dequeued(One(m), m.to) = m
           /\ RequeueIfReady(Dequeue(AfterNextReady(One(m)), m.to), m.to) = New
<1> DEFINE t == Dequeue(AfterNextReady(One(m)), m.to)
<1>0. One(m).mailboxes = [k \in {m.to} |-> <<m>>]
  BY OneIs
<1>1. /\ One(m).ready_queue = <<m.to>>
      /\ DOMAIN One(m).mailboxes = {m.to} /\ One(m).mailboxes[m.to] = <<m>>
  BY <1>0, OneIs
<1>2. HasPending(One(m), m.to)
  BY <1>1 DEF HasPending
<1>3. <<m.to>> \in Seq({m.to}) /\ <<m.to>> # <<>> /\ <<m.to>>[1] = m.to
  OBVIOUS
<1>4. SomeReady(One(m)) /\ ReadyIndex(One(m)) = 1 /\ NextReady(One(m)) = m.to
  BY <1>1, <1>2, <1>3, FirstReady
<1>5. Dequeued(One(m), m.to) = m
  BY <1>1 DEF Dequeued
<1>6. t = [mailboxes |-> [k \in {m.to} |-> <<>>], ready_queue |-> <<>>]
  <2>1. SubSeq(<<m.to>>, 2, 1) = <<>> /\ Len(<<m.to>>) = 1 /\ Tail(<<m>>) = <<>>
    OBVIOUS
  <2>2. AfterNextReady(One(m)) = [mailboxes |-> One(m).mailboxes, ready_queue |-> <<>>]
    BY <1>1, <1>4, <2>1 DEF AfterNextReady
  <2>u. PICK u : u = AfterNextReady(One(m))
    OBVIOUS
  <2>3. u.mailboxes = One(m).mailboxes /\ u.ready_queue = <<>>
    BY <2>2, <2>u
  <2>4. Tail(u.mailboxes[m.to]) = <<>>
    BY <1>1, <2>1, <2>3
  <2>5. Dequeue(u, m.to) = [mailboxes |-> PutMailbox(u, m.to, <<>>), ready_queue |-> <<>>]
    BY <2>3, <2>4 DEF Dequeue
  <2>6. PutMailbox(u, m.to, <<>>) = [k \in {m.to} |-> <<>>]
    BY <1>1, <2>3 DEF PutMailbox
  <2> QED BY <2>u, <2>5, <2>6
<1>7. RequeueIfReady(t, m.to) = New
  <2>1. ~ HasPending(t, m.to) /\ m.to \in DOMAIN t.mailboxes /\ t.mailboxes[m.to] = <<>>
    BY <1>6 DEF HasPending
  <2>2. DropMailbox(t, m.to) = [a \in {} |-> <<>>]
    BY <1>6 DEF DropMailbox
  <2> QED BY <1>6, <2>1, <2>2 DEF RequeueIfReady, CleanupEmpty, New
<1> QED BY <1>4, <1>5, <1>7

LEMMA TurnOfTwo ==
    ASSUME NEW m, NEW n
    PROVE  /\ SomeReady(Two(m, n)) /\ NextReady(Two(m, n)) = m.to
           /\ Dequeued(Two(m, n), m.to) = m
           /\ RequeueIfReady(Dequeue(AfterNextReady(Two(m, n)), m.to), m.to) = One(n)
<1>s. PICK s : s = Two(m, n)
  OBVIOUS
<1>1. CASE m.to = n.to
  <2>1. s.mailboxes = [k \in {m.to} |-> <<m, n>>] /\ s.ready_queue = <<m.to>>
    <3>1. /\ Two(m, n).mailboxes = [k \in {m.to} |-> <<m, n>>]
          /\ Two(m, n).ready_queue = <<m.to>>
      BY <1>1, TwoSame
    <3> QED BY <1>s, <3>1
  <2>2. HasPending(s, m.to) /\ s.mailboxes[m.to] = <<m, n>>
    BY <2>1 DEF HasPending
  <2>3. <<m.to>> \in Seq({m.to}) /\ <<m.to>> # <<>> /\ <<m.to>>[1] = m.to
    OBVIOUS
  <2>4. SomeReady(s) /\ ReadyIndex(s) = 1 /\ NextReady(s) = m.to
    BY <2>1, <2>2, <2>3, FirstReady
  <2>5. Dequeued(s, m.to) = m
    BY <2>2 DEF Dequeued
  <2>u. PICK u : u = AfterNextReady(s)
    OBVIOUS
  <2>6. u.mailboxes = s.mailboxes /\ u.ready_queue = <<>>
    <3>1. SubSeq(<<m.to>>, 2, 1) = <<>> /\ Len(<<m.to>>) = 1
      BY Pairs
    <3> QED BY <2>u, <2>1, <2>4, <3>1 DEF AfterNextReady
  <2>t. PICK t : t = Dequeue(u, m.to)
    OBVIOUS
  <2>7. t.mailboxes = [k \in {m.to} |-> <<n>>] /\ t.ready_queue = <<>>
    <3>1. Tail(u.mailboxes[m.to]) = <<n>>
      BY <2>2, <2>6, Pairs
    <3>2. PutMailbox(u, m.to, <<n>>) = [k \in {m.to} |-> <<n>>]
      BY <2>1, <2>6 DEF PutMailbox
    <3> QED BY <2>t, <2>6, <3>1, <3>2 DEF Dequeue
  <2>8. RequeueIfReady(t, m.to) = [mailboxes |-> t.mailboxes, ready_queue |-> <<m.to>>]
    <3>1. HasPending(t, m.to)
      BY <2>7 DEF HasPending
    <3>2. Append(<<>>, m.to) = <<m.to>>
      OBVIOUS
    <3> QED BY <2>7, <3>1, <3>2 DEF RequeueIfReady
  <2>9. RequeueIfReady(t, m.to) = One(n)
    BY <1>1, <2>7, <2>8, OneShape
  <2> QED BY <1>s, <2>u, <2>t, <2>4, <2>5, <2>9
<1>2. CASE m.to # n.to
  <2>1. /\ s.mailboxes = [k \in {m.to, n.to} |-> IF k = n.to THEN <<n>> ELSE <<m>>]
        /\ s.ready_queue = <<m.to, n.to>>
    <3>1. /\ Two(m, n).mailboxes = [k \in {m.to, n.to} |-> IF k = n.to THEN <<n>> ELSE <<m>>]
          /\ Two(m, n).ready_queue = <<m.to, n.to>>
      BY <1>2, TwoApart
    <3> QED BY <1>s, <3>1
  <2>2. HasPending(s, m.to) /\ s.mailboxes[m.to] = <<m>>
    BY <1>2, <2>1 DEF HasPending
  <2>3. /\ <<m.to, n.to>> \in Seq({m.to, n.to}) /\ <<m.to, n.to>> # <<>>
        /\ <<m.to, n.to>>[1] = m.to /\ Len(<<m.to, n.to>>) = 2
    OBVIOUS
  <2>4. SomeReady(s) /\ ReadyIndex(s) = 1 /\ NextReady(s) = m.to
    BY <2>1, <2>2, <2>3, FirstReady
  <2>5. Dequeued(s, m.to) = m
    BY <2>2 DEF Dequeued
  <2>u. PICK u : u = AfterNextReady(s)
    OBVIOUS
  <2>6. u.mailboxes = s.mailboxes /\ u.ready_queue = <<n.to>>
    <3>1. SubSeq(<<m.to, n.to>>, 2, 2) = <<n.to>>
      BY Pairs
    <3> QED BY <2>u, <2>1, <2>3, <2>4, <3>1 DEF AfterNextReady
  <2>t. PICK t : t = Dequeue(u, m.to)
    OBVIOUS
  <2>7. /\ t.mailboxes = [k \in {m.to, n.to} |-> IF k = n.to THEN <<n>> ELSE <<>>]
        /\ t.ready_queue = <<n.to>>
    <3>1. Tail(u.mailboxes[m.to]) = <<>>
      BY <2>2, <2>6, Pairs
    <3>2. PutMailbox(u, m.to, <<>>) = [k \in {m.to, n.to} |-> IF k = n.to THEN <<n>> ELSE <<>>]
      BY <1>2, <2>1, <2>6 DEF PutMailbox
    <3> QED BY <2>t, <2>6, <3>1, <3>2 DEF Dequeue
  <2>8. RequeueIfReady(t, m.to) = [mailboxes |-> DropMailbox(t, m.to), ready_queue |-> <<n.to>>]
    <3>1. ~ HasPending(t, m.to) /\ m.to \in DOMAIN t.mailboxes /\ t.mailboxes[m.to] = <<>>
      BY <1>2, <2>7 DEF HasPending
    <3> QED BY <2>7, <3>1 DEF RequeueIfReady, CleanupEmpty
  <2>9. DropMailbox(t, m.to) = [k \in {n.to} |-> <<n>>]
    BY <1>2, <2>7 DEF DropMailbox
  <2>10. RequeueIfReady(t, m.to) = One(n)
    BY <2>8, <2>9, OneShape
  <2> QED BY <1>s, <2>u, <2>t, <2>4, <2>5, <2>10
<1> QED BY <1>1, <1>2
-----------------------------------------------------------------------------
(* The queue in the worker's channel and mailboxes. *)

LEMMA PairRange ==
    \A m, n : Range(<<>>) = {} /\ Range(<<m>>) = {m} /\ Range(<<m, n>>) = {m, n}
BY DEF Range

LEMMA HeldFacts ==
    ASSUME NEW m, NEW n
    PROVE  Held(New) = {} /\ Held(One(m)) = {m} /\ Held(Two(m, n)) = {m, n}
<1>1. Held(New) = {}
  BY DEF Held, New
<1>2. Range(<<m>>) = {m} /\ Range(<<n>>) = {n} /\ Range(<<m, n>>) = {m, n}
  BY PairRange
<1>3. Held(One(m)) = {m}
  <2>1. One(m).mailboxes = [k \in {m.to} |-> <<m>>]
    BY OneIs
  <2> QED BY <1>2, <2>1 DEF Held
<1>4. Held(Two(m, n)) = {m, n}
  <2>1. CASE m.to = n.to
    <3>1. /\ Two(m, n).mailboxes = [k \in {m.to} |-> <<m, n>>]
          /\ Two(m, n).ready_queue = <<m.to>>
      BY <2>1, TwoSame
    <3> QED BY <1>2, <3>1 DEF Held
  <2>2. CASE m.to # n.to
    <3>1. Two(m, n).mailboxes = [k \in {m.to, n.to} |-> IF k = n.to THEN <<n>> ELSE <<m>>]
      BY <2>2, TwoApart
    <3>2. PICK b : b = Two(m, n).mailboxes
      OBVIOUS
    <3>3. DOMAIN b = {m.to, n.to} /\ b[m.to] = <<m>> /\ b[n.to] = <<n>>
      BY <2>2, <3>1, <3>2
    <3>4. UNION {Range(b[a]) : a \in DOMAIN b} = {m, n}
      BY <1>2, <3>3
    <3> QED BY <3>2, <3>4 DEF Held
  <2> QED BY <2>1, <2>2
<1> QED BY <1>1, <1>3, <1>4

(* What is carried, and so which of the cases a state is in. *)
Net ==
    /\ NoneQueued => Carried = {}
    /\ \A m : Queued(m) => Carried = {m}
    /\ \A m, n : QueuedBoth(m, n) => Carried = {m, n}

LEMMA NetHolds == Net
<1>1. \A m, n : Range(<<>>) = {} /\ Range(<<m>>) = {m} /\ Range(<<m, n>>) = {m, n}
  BY PairRange
<1>2. NoneQueued => Carried = {}
  BY <1>1, HeldFacts DEF NoneQueued, Carried
<1>3. ASSUME NEW m, Queued(m) PROVE Carried = {m}
  BY <1>1, <1>3, HeldFacts DEF Queued, Carried
<1>4. ASSUME NEW m, NEW n, QueuedBoth(m, n) PROVE Carried = {m, n}
  BY <1>1, <1>4, HeldFacts DEF QueuedBoth, Carried
<1> QED BY <1>2, <1>3, <1>4 DEF Net

LEMMA NetNext == Net'
BY NetHolds, PTL

(* A send puts the message behind the one that is queued. *)
LEMMA SendFacts ==
    ASSUME NEW k, rx' = Append(rx, k), sched' = sched
    PROVE  /\ NoneQueued => Queued(k)'
           /\ \A m : Queued(m) => QueuedBoth(m, k)'
<1>1. Append(<<>>, k) = <<k>>
  OBVIOUS
<1> QED BY <1>1, Pairs DEF NoneQueued, Queued, QueuedBoth

(* A message goes from the channel to its mailbox. *)
LEMMA TakeFacts ==
    ASSUME TakeEnvelope
    PROVE  /\ ~ NoneQueued
           /\ \A m : Queued(m) => Queued(m)'
           /\ \A m, n : QueuedBoth(m, n) => QueuedBoth(m, n)'
<1>1. rx # <<>> /\ rx' = Tail(rx) /\ sched' = Enqueue(sched, Head(rx).to, Head(rx))
  BY DEF TakeEnvelope
<1>2. ASSUME NEW m, Queued(m) PROVE Queued(m)'
  <2>1. rx = <<m>> /\ sched = New
    BY <1>1, <1>2 DEF Queued
  <2>2. Head(rx) = m /\ Tail(rx) = <<>>
    BY <2>1, Pairs
  <2> QED BY <1>1, <2>1, <2>2 DEF Queued, One
<1>3. ASSUME NEW m, NEW n, QueuedBoth(m, n) PROVE QueuedBoth(m, n)'
  <2>1. CASE rx = <<m, n>> /\ sched = New
    <3>1. Head(rx) = m /\ Tail(rx) = <<n>>
      BY <2>1, Pairs
    <3> QED BY <1>1, <2>1, <3>1 DEF QueuedBoth, One
  <2>2. CASE rx = <<n>> /\ sched = One(m)
    <3>1. Head(rx) = n /\ Tail(rx) = <<>>
      BY <2>2, Pairs
    <3> QED BY <1>1, <2>2, <3>1 DEF QueuedBoth, Two
  <2> QED BY <1>1, <1>3, <2>1, <2>2 DEF QueuedBoth
<1>4. ~ NoneQueued
  BY <1>1 DEF NoneQueued
<1> QED BY <1>2, <1>3, <1>4

(* A turn takes the message that was sent first. *)
LEMMA TurnFacts ==
    ASSUME NEW kind, Turn(kind)
    PROVE  /\ ~ NoneQueued /\ rx = <<>> /\ Envelope.kind = kind
           /\ \A m : Queued(m) => Envelope = m /\ sched' = New
           /\ \A m, n : QueuedBoth(m, n) => Envelope = m /\ sched' = One(n)
<1>1. rx = <<>> /\ SomeReady(sched) /\ Envelope.kind = kind
      /\ sched' = RequeueIfReady(Dequeue(AfterNextReady(sched), Envelope.to), Envelope.to)
  BY DEF Turn
<1>2. ~ NoneQueued
  BY <1>1, NewIdle DEF NoneQueued
<1>3. ASSUME NEW m, Queued(m) PROVE Envelope = m /\ sched' = New
  <2>1. sched = One(m)
    BY <1>1, <1>3 DEF Queued
  <2>2. Envelope = m
    BY <2>1, TurnOfOne DEF Envelope
  <2> QED BY <1>1, <2>1, <2>2, TurnOfOne
<1>4. ASSUME NEW m, NEW n, QueuedBoth(m, n) PROVE Envelope = m /\ sched' = One(n)
  <2>1. sched = Two(m, n)
    BY <1>1, <1>4 DEF QueuedBoth
  <2>2. Envelope = m
    BY <2>1, TurnOfTwo DEF Envelope
  <2> QED BY <1>1, <2>1, <2>2, TurnOfTwo
<1> QED BY <1>1, <1>2, <1>3, <1>4

(* A handler that sends nothing; one that sends a message. *)
LEMMA QuietTurn ==
    ASSUME NEW kind, Turn(kind), rx' = rx
    PROVE  /\ \A m : Queued(m) => NoneQueued'
           /\ \A m, n : QueuedBoth(m, n) => Queued(n)'
BY TurnFacts DEF NoneQueued, Queued

LEMMA BusyTurn ==
    ASSUME NEW kind, Turn(kind), NEW k, rx' = Append(rx, k)
    PROVE  /\ \A m : Queued(m) => Queued(k)'
           /\ \A m, n : QueuedBoth(m, n) => QueuedBoth(n, k)'
<1>1. Append(<<>>, k) = <<k>>
  OBVIOUS
<1> QED BY <1>1, TurnFacts DEF Queued, QueuedBoth
-----------------------------------------------------------------------------
(* The one line under way. *)

LEMMA Answers ==
    /\ NoReply.says = "" /\ ~ IsReply(NoReply)
    /\ \A says, n, report : Contract!Reply(says, n, report).says = says
    /\ Unanswered.reply = NoReply /\ Unanswered.done = FALSE
    /\ \A r : Ok(r).done = TRUE /\ Ok(r).reply = r
BY DEF NoReply, Contract!NoReply, Contract!Reply, Unanswered, Ok, IsReply

LEMMA Fields ==
    \A to, kind, id, reply :
        /\ Message(to, kind, id, reply).to = to /\ Message(to, kind, id, reply).kind = kind
        /\ Message(to, kind, id, reply).line = lines /\ Message(to, kind, id, reply).id = id
        /\ Message(to, kind, id, reply).reply = reply
BY DEF Message

LEMMA Shapes ==
    ASSUME OneLine
    PROVE  NoneQueued \/ (\E m : Queued(m)) \/ (\E m, n : QueuedBoth(m, n))
BY DEF OneLine, Starting, Resting, Asked, Executed, Again, Polled, Told, Answering, Answered

(* The line does not get further when only messages move on their way. *)
lineVars == <<main, stdin, lines, line, attempts, result, meta, next_id, last_response>>
LEMMA MessagesMove ==
    ASSUME OneLine, UNCHANGED lineVars, NoneQueued => NoneQueued',
           \A m : Queued(m) => Queued(m)', \A m, n : QueuedBoth(m, n) => QueuedBoth(m, n)'
    PROVE  OneLine' /\ Carried' = Carried
<1>1. Carried' = Carried
  <2>1. /\ NoneQueued => Carried = {}
        /\ \A m : Queued(m) => Carried = {m}
        /\ \A m, n : QueuedBoth(m, n) => Carried = {m, n}
    BY NetHolds DEF Net
  <2>2. /\ NoneQueued' => Carried' = {}
        /\ \A m : Queued(m)' => Carried' = {m}
        /\ \A m, n : QueuedBoth(m, n)' => Carried' = {m, n}
    BY NetNext DEF Net
  <2>3. CASE NoneQueued
    BY <2>1, <2>2, <2>3
  <2>4. ASSUME NEW m, Queued(m) PROVE Carried' = Carried
    BY <2>1, <2>2, <2>4
  <2>5. ASSUME NEW m, NEW n, QueuedBoth(m, n) PROVE Carried' = Carried
    BY <2>1, <2>2, <2>5
  <2> QED BY Shapes, <2>3, <2>4, <2>5
<1>2. /\ \A m : (Response(m) <=> Response(m)') /\ (Errand(m) <=> Errand(m)')
      /\ NoLine' = NoLine /\ \A r : Ok(r)' = Ok(r)
      /\ Unanswered' = Unanswered /\ NoReply' = NoReply
  BY DEF lineVars, Response, Errand, IsReply, IsFor, NoLine, NoReply, Ok, Unanswered
<1>3. Answered => Answered'
  BY DEF Answered, lineVars, IsReply
<1>4. Answering => Answering'
  BY <1>1, <1>2, <1>3 DEF Answering
<1>5. (Starting => Starting') /\ (Resting => Resting') /\ (Asked => Asked')
  BY <1>1, <1>2 DEF Starting, Resting, Asked, lineVars, IsFor
<1>6. (Executed => Executed') /\ (Again => Again') /\ (Told => Told')
  BY <1>1, <1>2, <1>4 DEF Executed, Again, Told, lineVars, IsReply
<1>7. Polled => Polled'
  BY <1>1, <1>2 DEF Polled, lineVars, IsReply, IsFor
<1>8. line' = line
  BY DEF lineVars
<1> QED BY <1>1, <1>5, <1>6, <1>7, <1>8 DEF OneLine

(* Whose turn it is, and what the line is waiting for then. *)
SetMetaFirst(m) == Starting /\ Queued(m) /\ main = "wait_meta" /\ result = Unanswered
QuitFirst(m) == Resting /\ Queued(m) /\ stdin = "ended"
ExecFirst(m) == Asked /\ Queued(m) /\ line \in Contract!Line
PollFirst(m) ==
    /\ stdin = "poll" /\ attempts \in {0, 1} /\ result = Unanswered /\ line \in Contract!Line
    /\ \/ Queued(m) /\ IsReply(last_response)
       \/ attempts = 0 /\ \E n : QueuedBoth(m, n) /\ Response(n)
AnswerFirst(m) ==
    /\ Response(m) /\ line \in Contract!Line
    /\ \/ Queued(m) /\ (Executed \/ Again \/ Told)
       \/ Polled /\ \E p : QueuedBoth(m, p) /\ IsFor(p, Cmd, "Poll")
ErrandFirst(m) ==
    /\ Errand(m) /\ attempts = 0 /\ line \in Contract!Line
    /\ \/ Queued(m) /\ Executed
       \/ Polled /\ \E p : QueuedBoth(m, p) /\ IsFor(p, Cmd, "Poll")

LEMMA WhoseTurn ==
    ASSUME OneLine, NEW kind, Turn(kind), NEW m, m = Envelope
    PROVE  /\ m.kind = kind
           /\ \/ kind = "SetMeta" /\ SetMetaFirst(m)
              \/ kind = "Quit" /\ QuitFirst(m)
              \/ kind = "Exec" /\ ExecFirst(m)
              \/ kind = "Poll" /\ PollFirst(m)
              \/ kind = "CmdResponse" /\ AnswerFirst(m)
              \/ kind \in {"CreateWorker", "DestroyWorker", "WorkerMessage"} /\ ErrandFirst(m)
<1>1. /\ m.kind = kind /\ ~ NoneQueued
      /\ \A k : Queued(k) => m = k
      /\ \A k, n : QueuedBoth(k, n) => m = k
  BY TurnFacts
<1>2. CASE Starting
  <2>1. PICK k : Queued(k) /\ IsFor(k, Cmd, "SetMeta") /\ main = "wait_meta" /\ result = Unanswered
    BY <1>1, <1>2 DEF Starting
  <2> QED BY <1>1, <1>2, <2>1 DEF SetMetaFirst, IsFor
<1>3. CASE Resting
  <2>1. PICK k : Queued(k) /\ IsFor(k, Cmd, "Quit") /\ stdin = "ended"
    BY <1>1, <1>3 DEF Resting
  <2> QED BY <1>1, <1>3, <2>1 DEF QuitFirst, IsFor
<1>4. CASE Asked /\ line \in Contract!Line
  <2>1. PICK k : Queued(k) /\ IsFor(k, Cmd, "Exec")
    BY <1>4 DEF Asked
  <2> QED BY <1>1, <1>4, <2>1 DEF ExecFirst, IsFor
<1>5. CASE (Executed \/ Again \/ Told) /\ line \in Contract!Line
  <2>1. PICK k : Queued(k) /\ (Response(k) \/ (Executed /\ Errand(k)))
    BY <1>1, <1>5 DEF Executed, Again, Told, Answering, Answered
  <2>2. m = k
    BY <1>1, <2>1
  <2>3. CASE Response(m)
    BY <1>1, <1>5, <2>1, <2>2, <2>3 DEF AnswerFirst, Response, IsFor
  <2>4. CASE Executed /\ Errand(m)
    BY <1>1, <1>5, <2>1, <2>2, <2>4 DEF ErrandFirst, Errand, Executed, IsFor
  <2> QED BY <2>1, <2>2, <2>3, <2>4
<1>6. CASE Polled /\ line \in Contract!Line
  <2>1. PICK p : /\ IsFor(p, Cmd, "Poll")
                 /\ \/ Queued(p) /\ IsReply(last_response)
                    \/ \E k : QueuedBoth(k, p) /\ (Response(k) \/ (attempts = 0 /\ Errand(k)))
                    \/ attempts = 0 /\ \E k : QueuedBoth(p, k) /\ Response(k)
    BY <1>6 DEF Polled
  <2>2. CASE \/ Queued(p) /\ IsReply(last_response)
             \/ attempts = 0 /\ \E k : QueuedBoth(p, k) /\ Response(k)
    <3>1. m = p
      BY <1>1, <2>2
    <3> QED BY <1>1, <1>6, <2>1, <2>2, <3>1 DEF PollFirst, Polled, IsFor
  <2>3. CASE \E k : QueuedBoth(k, p) /\ (Response(k) \/ (attempts = 0 /\ Errand(k)))
    <3>1. QueuedBoth(m, p) /\ (Response(m) \/ (attempts = 0 /\ Errand(m)))
      BY <1>1, <2>3
    <3>2. CASE Response(m)
      BY <1>1, <1>6, <2>1, <3>1, <3>2 DEF AnswerFirst, Response, IsFor
    <3>3. CASE attempts = 0 /\ Errand(m)
      BY <1>1, <1>6, <2>1, <3>1, <3>3 DEF ErrandFirst, Errand, IsFor
    <3> QED BY <3>1, <3>2, <3>3
  <2> QED BY <2>1, <2>2, <2>3
<1> QED BY <1>1, <1>2, <1>3, <1>4, <1>5, <1>6 DEF OneLine
(* What does not depend on the state. *)
LEMMA Constants ==
    /\ NoLine' = NoLine /\ NoReply' = NoReply /\ (Contract!Line)' = Contract!Line
    /\ Unanswered' = Unanswered /\ \A r : Ok(r)' = Ok(r)
BY DEF NoLine, NoReply, Unanswered, Ok, Contract!Line, Contract!NoLine, Contract!Say,
       Contract!NoReply, Contract!Reply, Contract!Names, Contract!Fresh, Contract!Info

(* The main thread takes the console from the start to its rest, and stays *)
(* out of its way afterwards.                                              *)
LEMMA MainOneLine ==
    ASSUME OneLine, Threads, MainStep
    PROVE  OneLine'
<1> USE Constants
<1>1. CASE SpawnMeta \/ TakeHolder
  <2>1. Starting /\ NoneQueued
    BY <1>1 DEF OneLine, Threads, Starting, Resting, Asked, Executed, Again, Polled, Told,
                SpawnMeta, TakeHolder
  <2>2. /\ main' \in {"holder", "set_meta"} /\ NoneQueued' /\ result' = Unanswered
        /\ UNCHANGED <<stdinVars, last_response>>
    BY <1>1, <2>1 DEF SpawnMeta, TakeHolder, Starting, NoneQueued, loopVars
  <2>3. Starting'
    BY <2>1, <2>2 DEF Starting, stdinVars
  <2> QED BY <2>3 DEF OneLine
<1>2. CASE SetMeta
  <2>1. Starting /\ NoneQueued
    BY <1>2 DEF OneLine, Threads, Starting, Resting, Asked, Executed, Again, Polled, Told, SetMeta
  <2>k. PICK k : k = Message(Cmd, "SetMeta", 0, NoReply)
    OBVIOUS
  <2>2. /\ main' = "wait_meta" /\ result' = Unanswered /\ rx' = Append(rx, k) /\ sched' = sched
        /\ UNCHANGED <<stdinVars, last_response>>
    BY <1>2, <2>k DEF SetMeta, loopVars, cmdVars
  <2>3. Queued(k)' /\ Carried' = {k} /\ IsFor(k, Cmd, "SetMeta")
    BY <2>1, <2>2, <2>k, SendFacts, NetNext, Fields DEF Net, IsFor
  <2>4. Starting'
    BY <2>1, <2>2, <2>3 DEF Starting, stdinVars, IsFor
  <2> QED BY <2>4 DEF OneLine
<1>3. CASE StartStdin
  <2>1. /\ line = NoLine /\ attempts = 0 /\ last_response = NoReply
        /\ NoneQueued /\ result.reply = NoReply
    BY <1>3, Answers DEF OneLine, Threads, Starting, Resting, Asked, Executed, Again, Polled,
                         Told, StartStdin
  <2>2. /\ stdin' = "reading" /\ line' = line /\ attempts' = attempts
        /\ result' = result /\ last_response' = last_response /\ NoneQueued'
    BY <1>3, <2>1 DEF StartStdin, NoneQueued, loopVars, cmdVars
  <2>3. Resting'
    BY <2>1, <2>2 DEF Resting
  <2> QED BY <2>3 DEF OneLine
<1>4. CASE DropRuntime \/ Joined
  <2>1. stdin = "ended" /\ UNCHANGED <<stdin, line, attempts, last_response, result, rx, sched>>
    BY <1>4 DEF DropRuntime, Joined, Threads, stdinVars, cmdVars, loopVars
  <2>2. Resting
    BY <2>1 DEF OneLine, Starting, Resting, Asked, Executed, Again, Polled, Told
  <2>3. Resting'
    BY <2>1, <2>2 DEF Resting, NoneQueued, Queued, Carried, IsFor
  <2> QED BY <2>3 DEF OneLine
<1> QED BY <1>1, <1>2, <1>3, <1>4 DEF MainStep

LEMMA TypingOneLine ==
    ASSUME OneLine, Typing
    PROVE  OneLine'
<1> USE Constants
<1>1. CASE \E l \in Contract!Line : ReadLine(l)
  <2>1. PICK l \in Contract!Line : ReadLine(l)
    BY <1>1
  <2>2. NoneQueued /\ last_response = NoReply
    BY <2>1 DEF OneLine, Starting, Resting, Asked, Executed, Again, Polled, Told, ReadLine
  <2>k. PICK k : k = [Message(Cmd, "Exec", 0, NoReply) EXCEPT !.line = lines + 1]
    OBVIOUS
  <2>3. /\ l.op = "spawn" /\ l.arg = "good" => next_id <= MaxWorkers + 2
        /\ line' = l /\ attempts' = 0 /\ rx' = Append(rx, k) /\ result' = Unanswered
        /\ stdin' = "exec" /\ sched' = sched /\ last_response' = last_response
        /\ next_id' = next_id
    BY <2>1, <2>k DEF ReadLine, loopVars, cmdVars, actorVars
  <2>4. IsFor(k, Cmd, "Exec")
    BY <2>k DEF Message, IsFor
  <2>5. Queued(k)' /\ Carried' = {k}
    BY <2>2, <2>3, SendFacts, NetNext DEF Net
  <2>6. Asked' /\ line' \in Contract!Line
    BY <2>2, <2>3, <2>4, <2>5 DEF Asked, IsFor
  <2> QED BY <2>6 DEF OneLine
<1>2. CASE \E typed \in BOOLEAN : Quit(typed)
  <2>1. PICK typed \in BOOLEAN : Quit(typed)
    BY <1>2
  <2>2. Resting /\ NoneQueued
    BY <2>1 DEF OneLine, Starting, Resting, Asked, Executed, Again, Polled, Told, Quit
  <2>k. PICK k : k = Message(Cmd, "Quit", 0, NoReply)
    OBVIOUS
  <2>3. /\ stdin' = "ended" /\ sched' = sched /\ (rx' = rx \/ rx' = Append(rx, k))
        /\ UNCHANGED <<line, attempts, result, last_response>>
    BY <2>1, <2>k DEF Quit, loopVars, cmdVars
  <2>4. IsFor(k, Cmd, "Quit")
    BY <2>k, Fields DEF IsFor
  <2>5. NoneQueued' \/ (Queued(k)' /\ Carried' = {k})
    BY <2>2, <2>3, SendFacts, NetNext DEF Net, NoneQueued
  <2>6. Resting'
    BY <2>2, <2>3, <2>4, <2>5 DEF Resting, IsFor
  <2> QED BY <2>6 DEF OneLine
<1> QED BY <1>1, <1>2 DEF Typing
(* The first poll without an answer is followed by a second: the answer is *)
(* then in the slot or queued in front of it.                              *)
LEMMA StdinOneLine ==
    ASSUME OneLine, StdinStep
    PROVE  OneLine'
<1> USE Constants
<1>1. CASE ExecReturns
  <2>1. Executed /\ line \in Contract!Line
    BY <1>1, Answers DEF OneLine, Starting, Resting, Asked, Executed, Again, Polled, Told,
                         ExecReturns
  <2>2. /\ stdin' = "sleep"
        /\ UNCHANGED <<lines, line, attempts, result, rx, sched, next_id, last_response>>
    BY <1>1 DEF ExecReturns, loopVars, actorVars, cmdVars
  <2>3. /\ Answering => Answering'
        /\ \A m : (Queued(m) <=> Queued(m)') /\ (Errand(m) <=> Errand(m)')
        /\ Carried' = Carried
    BY <2>2 DEF Answering, Answered, NoneQueued, Queued, Response, Errand, IsReply, IsFor, Carried
  <2>4. Executed'
    BY <2>1, <2>2, <2>3 DEF Executed
  <2> QED BY <2>1, <2>2, <2>4 DEF OneLine
<1>2. CASE Poll
  <2>k. PICK k : k = Message(Cmd, "Poll", 0, NoReply)
    OBVIOUS
  <2>1. /\ stdin' = "poll" /\ result' = Unanswered /\ rx' = Append(rx, k) /\ sched' = sched
        /\ UNCHANGED <<lines, line, attempts, next_id, last_response>>
    BY <1>2, <2>k DEF Poll, loopVars, actorVars, cmdVars
  <2>2. IsFor(k, Cmd, "Poll")
    BY <2>k, Fields DEF IsFor
  <2>3. /\ line \in Contract!Line /\ attempts \in {0, 1}
        /\ Answering \/ (attempts = 0 /\ \E m : Queued(m) /\ Errand(m))
    BY <1>2 DEF OneLine, Starting, Resting, Asked, Executed, Again, Polled, Told, Poll
  <2>4. \A m : (Response(m) <=> Response(m)') /\ (Errand(m) <=> Errand(m)')
    BY <2>1 DEF Response, Errand, IsReply, IsFor
  <2>5. CASE Answered
    <3>1. Queued(k)' /\ Carried' = {k} /\ IsReply(last_response)'
      BY <2>1, <2>5, SendFacts, NetNext DEF Net, Answered, IsReply
    <3>2. Polled'
      BY <2>1, <2>2, <2>3, <3>1 DEF Polled, IsFor
    <3> QED BY <2>1, <2>3, <3>2 DEF OneLine
  <2>6. ASSUME NEW m, Queued(m), Response(m) \/ (attempts = 0 /\ Errand(m))
        PROVE  OneLine'
    <3>1. QueuedBoth(m, k)' /\ Carried' = {m, k}
      BY <2>1, <2>6, SendFacts, NetNext DEF Net
    <3>2. Response(m)' \/ (attempts' = 0 /\ Errand(m)')
      BY <2>1, <2>4, <2>6
    <3>3. m \in Carried' /\ k \in Carried' /\ IsFor(k, Cmd, "Poll")'
      BY <2>2, <3>1 DEF IsFor
    <3>4. stdin' = "poll" /\ attempts' \in {0, 1} /\ result' = Unanswered'
      BY <2>1, <2>3
    <3>5. Polled'
      BY <3>1, <3>2, <3>3, <3>4 DEF Polled
    <3> QED BY <2>1, <2>3, <3>5 DEF OneLine
  <2> QED BY <2>3, <2>5, <2>6 DEF Answering
<1>3. CASE PollReturns
  <2>1. Told /\ line \in Contract!Line
    BY <1>3, Answers DEF OneLine, Starting, Resting, Asked, Executed, Again, Polled, Told,
                         PollReturns
  <2>2. /\ result' = Unanswered /\ Unanswered.reply = NoReply
        /\ UNCHANGED <<lines, rx, sched, next_id, last_response>>
        /\ IF result.reply # NoReply \/ attempts + 1 > MaxAttempts
             THEN stdin' = "reading" /\ line' = NoLine /\ attempts' = 0
             ELSE stdin' = "sleep" /\ attempts' = attempts + 1 /\ line' = line
    BY <1>3, Answers DEF PollReturns, loopVars, actorVars, cmdVars
  <2>3. CASE NoneQueued /\ last_response = NoReply /\ IsReply(result.reply)
    <3>1. result.reply # NoReply
      BY <2>3, Answers
    <3>2. NoneQueued'
      BY <2>2, <2>3 DEF NoneQueued
    <3>3. Resting'
      BY <2>2, <2>3, <3>1, <3>2 DEF Resting
    <3> QED BY <3>3 DEF OneLine
  <2>4. CASE attempts = 0 /\ result = Ok(NoReply) /\ Answering
    <3>1. result.reply = NoReply /\ ~ (attempts + 1 > MaxAttempts)
      <4>1. result.reply = NoReply
        BY <2>4, Answers
      <4>2. MaxAttempts \in Nat \ {0}
        BY BoundAssumption
      <4>3. ~ (attempts + 1 > MaxAttempts)
        BY <2>4, <4>2
      <4> QED BY <4>1, <4>3
    <3>2. stdin' = "sleep" /\ attempts' = 1 /\ line' = line
      BY <2>2, <2>4, <3>1
    <3>3. Answering'
      BY <2>2, <2>4 DEF Answering, Answered, NoneQueued, Queued, Response, IsReply, IsFor, Carried
    <3>4. Again'
      BY <2>2, <3>2, <3>3 DEF Again
    <3> QED BY <2>1, <3>2, <3>4 DEF OneLine
  <2> QED BY <2>1, <2>3, <2>4 DEF Told
<1> QED BY <1>1, <1>2, <1>3 DEF StdinStep

LEMMA LoopOneLine ==
    ASSUME OneLine, Threads, Shutdown \/ ControlEmpty \/ TakeEnvelope \/ Idle
    PROVE  OneLine'
<1>1. CASE Shutdown
  <2>1. stdin = "ended"
    BY <1>1 DEF Threads, Shutdown
  <2>2. Resting
    BY <2>1 DEF OneLine, Starting, Resting, Asked, Executed, Again, Polled, Told
  <2>3. NoneQueued' /\ UNCHANGED <<stdin, line, attempts, last_response, result>>
    BY <1>1 DEF Shutdown, NoneQueued, New, stdinVars, cmdVars
  <2>4. Resting'
    BY <2>2, <2>3, Constants DEF Resting
  <2> QED BY <2>4 DEF OneLine
<1>2. CASE ControlEmpty \/ Idle
  <2>1. UNCHANGED lineVars /\ rx' = rx /\ sched' = sched
    BY <1>2 DEF ControlEmpty, Idle, lineVars, stdinVars, actorVars, cmdVars
  <2>2. /\ NoneQueued => NoneQueued'
        /\ \A m : Queued(m) => Queued(m)'
        /\ \A m, n : QueuedBoth(m, n) => QueuedBoth(m, n)'
    BY <2>1 DEF NoneQueued, Queued, QueuedBoth
  <2> QED BY <2>1, <2>2, MessagesMove
<1>3. CASE TakeEnvelope
  <2>1. UNCHANGED lineVars
    BY <1>3 DEF TakeEnvelope, lineVars, stdinVars, actorVars, cmdVars
  <2> QED BY <1>3, <2>1, TakeFacts, MessagesMove
<1> QED BY <1>1, <1>2, <1>3
(* The handlers of CommandActor. *)
LEMMA SmallTurns ==
    ASSUME OneLine, HandleSetMeta \/ HandleQuit \/ HandlePoll
    PROVE  OneLine'
<1> USE Constants
<1>m. PICK m : m = Envelope
  OBVIOUS
<1>1. CASE HandleSetMeta
  <2>1. Turn("SetMeta") /\ rx' = rx /\ meta' = TRUE /\ result' = Ok(NoReply)
        /\ UNCHANGED <<main, stdin, lines, line, attempts, last_response>>
    BY <1>1 DEF HandleSetMeta, stdinVars
  <2>2. SetMetaFirst(m)
    BY <1>m, <2>1, WhoseTurn
  <2>3. NoneQueued'
    BY <2>1, <2>2, QuietTurn DEF SetMetaFirst
  <2>4. Starting'
    BY <2>1, <2>2, <2>3 DEF SetMetaFirst, Starting
  <2> QED BY <2>4 DEF OneLine
<1>2. CASE HandleQuit
  <2>1. Turn("Quit") /\ rx' = rx /\ UNCHANGED <<stdin, line, attempts, result, last_response>>
    BY <1>2 DEF HandleQuit, stdinVars, cmdVars
  <2>2. QuitFirst(m)
    BY <1>m, <2>1, WhoseTurn
  <2>3. NoneQueued'
    BY <2>1, <2>2, QuietTurn DEF QuitFirst
  <2>4. Resting'
    BY <2>1, <2>2, <2>3 DEF QuitFirst, Resting
  <2> QED BY <2>4 DEF OneLine
<1>3. CASE HandlePoll
  <2>1. /\ Turn("Poll") /\ rx' = rx /\ result' = Ok(last_response) /\ last_response' = NoReply
        /\ UNCHANGED <<stdin, line, attempts>>
    BY <1>3 DEF HandlePoll, Taken, stdinVars
  <2>2. PollFirst(m)
    BY <1>m, <2>1, WhoseTurn
  <2>3. CASE Queued(m) /\ IsReply(last_response)
    <3>1. NoneQueued'
      BY <2>1, <2>3, QuietTurn
    <3>r. PICK r : r = last_response
      OBVIOUS
    <3>2. result' = Ok(r) /\ result'.reply = r /\ IsReply(result'.reply)
      BY <2>1, <2>3, <3>r, Answers
    <3>3. Told'
      BY <2>1, <2>2, <3>1, <3>2 DEF PollFirst, Told, IsReply, Ok
    <3> QED BY <2>1, <2>2, <3>3 DEF OneLine, PollFirst
  <2>4. ASSUME attempts = 0, NEW n, QueuedBoth(m, n), Response(n)
        PROVE  OneLine'
    <3>1. Queued(n)' /\ Carried' = {n}
      BY <2>1, <2>4, QuietTurn, NetNext DEF Net
    <3>2. Response(n)' /\ result' = Ok(NoReply)
      BY <2>1, <2>4 DEF Response, IsReply, IsFor
    <3>3. Answering'
      BY <3>1, <3>2 DEF Answering
    <3>4. Told'
      BY <2>1, <2>2, <2>4, <3>2, <3>3 DEF PollFirst, Told
    <3> QED BY <2>1, <2>2, <3>4 DEF OneLine, PollFirst
  <2> QED BY <2>2, <2>3, <2>4 DEF PollFirst
<1> QED BY <1>1, <1>2, <1>3

LEMMA ResponseTurn ==
    ASSUME OneLine, HandleCmdResponse
    PROVE  OneLine'
<1> USE Constants
<1>m. PICK m : m = Envelope
  OBVIOUS
<1>1. /\ Turn("CmdResponse") /\ rx' = rx /\ last_response' = m.reply
      /\ UNCHANGED <<stdin, lines, line, attempts, result>>
  BY <1>m DEF HandleCmdResponse, stdinVars
<1>2. AnswerFirst(m)
  BY <1>m, <1>1, WhoseTurn
<1>3. IsReply(last_response)'
  BY <1>1, <1>2 DEF AnswerFirst, Response, IsReply
<1>4. CASE Queued(m) /\ (Executed \/ Again \/ Told)
  <2>1. Answering' /\ ~ NoneQueued
    BY <1>1, <1>3, <1>4, QuietTurn, TurnFacts DEF Answering, Answered
  <2>2. Executed' \/ Again' \/ Told'
    BY <1>1, <1>4, <2>1 DEF Executed, Again, Told
  <2> QED BY <1>1, <1>2, <2>2 DEF OneLine, AnswerFirst
<1>5. ASSUME Polled, NEW p, QueuedBoth(m, p), IsFor(p, Cmd, "Poll")
      PROVE  OneLine'
  <2>1. Queued(p)' /\ Carried' = {p}
    BY <1>1, <1>5, QuietTurn, NetNext DEF Net
  <2>2. Polled'
    BY <1>1, <1>3, <1>5, <2>1 DEF Polled, IsFor
  <2> QED BY <1>1, <1>2, <2>2 DEF OneLine, AnswerFirst
<1> QED BY <1>2, <1>4, <1>5 DEF AnswerFirst

(* Exec is answered at once, or leaves an errand to another actor. *)
LEMMA ExecTurn ==
    ASSUME OneLine, Threads, registry \subseteq WorkerId, HandleExec
    PROVE  /\ OneLine'
           /\ NoneQueued' \/ \E k : Queued(k)' /\ Errand(k)'
<1> USE Constants
<1>m. PICK m : m = Envelope
  OBVIOUS
<1>1. /\ Turn("Exec") /\ result' = Ok(NoReply)
      /\ UNCHANGED <<stdin, lines, line, attempts, next_id, meta>>
  BY DEF HandleExec, stdinVars, actorVars
<1>2. ExecFirst(m)
  BY <1>m, <1>1, WhoseTurn
<1>3. stdin = "exec" /\ attempts = 0 /\ last_response = NoReply /\ meta
      /\ (line.op = "spawn" /\ line.arg = "good" => next_id <= MaxWorkers + 2)
  BY <1>2 DEF ExecFirst, Asked, Threads
<1>4. ASSUME rx' = rx, IsReply(last_response)'
      PROVE  OneLine' /\ NoneQueued'
  <2>1. Answering' /\ NoneQueued'
    BY <1>1, <1>2, <1>4, QuietTurn DEF Answering, Answered, ExecFirst
  <2>2. Executed'
    BY <1>1, <1>3, <2>1 DEF Executed
  <2> QED BY <1>1, <1>2, <2>1, <2>2 DEF OneLine, ExecFirst
<1>5. ASSUME NEW k, rx' = Append(rx, k), Errand(k)'
      PROVE  OneLine' /\ Queued(k)'
  <2>1. Queued(k)' /\ Carried' = {k}
    BY <1>1, <1>2, <1>5, BusyTurn, NetNext DEF ExecFirst, Net
  <2>2. Executed'
    BY <1>1, <1>3, <1>5, <2>1 DEF Executed
  <2> QED BY <1>1, <1>2, <2>1, <2>2 DEF OneLine, ExecFirst
<1>6. ASSUME NEW says, NEW report, says # "", Respond(says, report)
      PROVE  rx' = rx /\ IsReply(last_response)'
  <2>1. rx' = rx /\ last_response' = Contract!Reply(says, lines, report)
    BY <1>6 DEF Respond
  <2>2. last_response'.says = says
    BY <2>1, Answers
  <2> QED BY <1>6, <2>1, <2>2 DEF IsReply
<1>7. ASSUME NEW kind, AskMeta(kind),
             \/ kind = "CreateWorker" /\ line.op = "spawn" /\ line.arg = "good"
             \/ kind = "DestroyWorker" /\ line.op = "stop" /\ line.arg = "good"
      PROVE  \E k : rx' = Append(rx, k) /\ Errand(k)'
  <2>k. PICK k : k = Message(Meta, kind, line.id, NoReply)
    OBVIOUS
  <2>1. rx' = Append(rx, k) /\ last_response' = last_response
    <3>1. meta = TRUE
      BY <1>3
    <3> QED BY <1>7, <2>k, <3>1 DEF AskMeta
  <2>2. k.to = Meta /\ k.kind = kind /\ k.line = lines /\ k.id = line.id
    BY <2>k, Fields
  <2>3. Errand(k)'
    BY <1>1, <1>3, <1>7, <2>1, <2>2 DEF Errand, IsFor
  <2> QED BY <2>1, <2>3
<1>8. CASE ExecOther
  <2>1. PICK says \in {"help", "unknown"} : Respond(says, Names({}))
    BY <1>8 DEF ExecOther
  <2> QED BY <1>4, <1>6, <2>1
<1>9. CASE ExecSpawn
  BY <1>4, <1>5, <1>6, <1>7, <1>9 DEF ExecSpawn
<1>10. CASE ExecStop
  BY <1>4, <1>5, <1>6, <1>7, <1>10 DEF ExecStop
<1>11. CASE ExecStatus
  <2>1. PICK says, report : says \in {"status", "list"} /\ Respond(says, report)
    BY <1>11 DEF ExecStatus
  <2> QED BY <1>4, <1>6, <2>1
<1>12. CASE ExecSend
  <2>1. CASE line.arg = "good" /\ line.id \in registry
    <3>i. PICK i : i = line.id
      OBVIOUS
    <3>k. PICK k : k = Message(i, "WorkerMessage", i, NoReply)
      OBVIOUS
    <3>0. /\ rx' = Append(rx, k) /\ i \in WorkerId
          /\ last_response' = Contract!Reply("sent", lines, Names({i}))
      BY <1>12, <2>1, <3>i, <3>k DEF ExecSend, SendTo
    <3>r. last_response'.says = "sent"
      BY <3>0, Answers
    <3>1. rx' = Append(rx, k) /\ IsReply(last_response)' /\ i \in WorkerId
      BY <3>0, <3>r DEF IsReply
    <3>2. k.kind = "WorkerMessage" /\ k.to = i /\ k.line = lines
      BY <3>k, Fields
    <3>3. Errand(k)'
      BY <1>1, <3>1, <3>2 DEF Errand, IsReply
    <3> QED BY <1>5, <3>1, <3>3
  <2>2. CASE ~ (line.arg = "good" /\ line.id \in registry)
    <3>1. \/ Respond("not found", Names({line.id}))
          \/ Respond("invalid", Names({})) \/ Respond("usage", Names({}))
      BY <1>12, <2>2 DEF ExecSend
    <3> QED BY <1>4, <1>6, <3>1
  <2> QED BY <2>1, <2>2
<1> QED BY <1>8, <1>9, <1>10, <1>11, <1>12 DEF HandleExec
(* The errands: MetaActor reports, and a worker says nothing. *)
LEMMA ReportTurn ==
    ASSUME OneLine, NEW kind, Turn(kind), NEW m, ErrandFirst(m), ~ IsReply(last_response),
           NEW k, rx' = Append(rx, k), IsFor(k, Cmd, "CmdResponse"), IsReply(k.reply),
           UNCHANGED <<stdin, lines, line, attempts, result, last_response>>
    PROVE  OneLine' /\ Response(k)' /\ \E p : k \in Carried' /\ Carried' \subseteq {k, p}
<1> USE Constants
<1>0. last_response = NoReply /\ Response(k)'
  BY Answers DEF ErrandFirst, Errand, Response, IsReply, IsFor
<1>1. CASE Queued(m) /\ Executed
  <2>1. Queued(k)' /\ Carried' = {k}
    BY <1>1, BusyTurn, NetNext DEF Net
  <2>2. Answering'
    BY <1>0, <2>1 DEF Answering
  <2>3. Executed'
    BY <1>1, <2>2 DEF Executed
  <2> QED BY <1>0, <2>1, <2>3 DEF OneLine, ErrandFirst
<1>2. ASSUME Polled, NEW p, QueuedBoth(m, p), IsFor(p, Cmd, "Poll")
      PROVE  OneLine' /\ \E q : k \in Carried' /\ Carried' \subseteq {k, q}
  <2>1. QueuedBoth(p, k)' /\ Carried' = {p, k}
    BY <1>2, BusyTurn, NetNext DEF Net
  <2>2. stdin' = "poll" /\ attempts' = 0 /\ result' = Unanswered'
    BY <1>2 DEF Polled, ErrandFirst
  <2>3. IsFor(p, Cmd, "Poll")' /\ p \in Carried' /\ k \in Carried'
    BY <1>2, <2>1 DEF IsFor
  <2>4. Polled'
    BY <1>0, <2>1, <2>2, <2>3 DEF Polled
  <2> QED BY <2>1, <2>4 DEF OneLine, ErrandFirst
<1> QED BY <1>0, <1>1, <1>2 DEF ErrandFirst

LEMMA WorkerTurn ==
    ASSUME OneLine, HandleWorkerMessage, NEW m, m = Envelope
    PROVE  /\ OneLine' /\ ErrandFirst(m) /\ m.kind = "WorkerMessage"
           /\ Carried' = {} \/ \E p : Carried' = {p} /\ p.kind = "Poll"
<1> USE Constants
<1>1. /\ Turn("WorkerMessage") /\ rx' = rx
      /\ UNCHANGED <<stdin, lines, line, attempts, result, last_response>>
  BY DEF HandleWorkerMessage, stdinVars, cmdVars
<1>2. ErrandFirst(m) /\ m.kind = "WorkerMessage"
  BY <1>1, WhoseTurn
<1>3. IsReply(last_response)'
  BY <1>1, <1>2 DEF ErrandFirst, Errand, IsFor, IsReply
<1>4. CASE Queued(m) /\ Executed
  <2>1. NoneQueued' /\ Carried' = {}
    BY <1>1, <1>4, QuietTurn, NetNext DEF Net
  <2>2. Executed'
    BY <1>1, <1>3, <1>4, <2>1 DEF Executed, Answering, Answered
  <2> QED BY <1>1, <1>2, <2>1, <2>2 DEF OneLine, ErrandFirst
<1>5. ASSUME Polled, NEW p, QueuedBoth(m, p), IsFor(p, Cmd, "Poll")
      PROVE  OneLine' /\ Carried' = {p} /\ p.kind = "Poll"
  <2>1. Queued(p)' /\ Carried' = {p}
    BY <1>1, <1>5, QuietTurn, NetNext DEF Net
  <2>2. Polled'
    BY <1>1, <1>3, <1>5, <2>1 DEF Polled, IsFor
  <2> QED BY <1>1, <1>2, <1>5, <2>1, <2>2 DEF OneLine, ErrandFirst, IsFor
<1> QED BY <1>2, <1>4, <1>5 DEF ErrandFirst

(* What MetaActor's handlers do. *)
LEMMA CreateTurn ==
    ASSUME OneLine, HandleCreateWorker, NEW m, m = Envelope
    PROVE  /\ OneLine' /\ ErrandFirst(m) /\ m.kind = "CreateWorker"
           /\ \E k : /\ rx' = Append(rx, k) /\ Response(k)'
                     /\ k.reply = Contract!Reply("Spawned", lines, Names({next_id}))
<1>1. /\ Turn("CreateWorker")
      /\ UNCHANGED <<stdin, lines, line, attempts, result, last_response>>
  BY DEF HandleCreateWorker, stdinVars, cmdVars
<1>2. ErrandFirst(m) /\ m.kind = "CreateWorker"
  BY <1>1, WhoseTurn
<1>3. m.line = lines /\ last_response = NoReply
  BY <1>2 DEF ErrandFirst, Errand, IsFor
<1>r. PICK r : r = Contract!Reply("Spawned", lines, Names({next_id}))
  OBVIOUS
<1>k. PICK k : k = Message(Cmd, "CmdResponse", 0, r)
  OBVIOUS
<1>4. rx' = Append(rx, k)
  BY <1>3, <1>r, <1>k DEF HandleCreateWorker, NotifyCmd
<1>5. IsFor(k, Cmd, "CmdResponse") /\ k.reply = r
  BY <1>k, Fields DEF IsFor
<1>6. IsReply(k.reply)
  <2>1. r.says = "Spawned"
    BY <1>r, Answers
  <2> QED BY <1>5, <2>1 DEF IsReply
<1>7. ~ IsReply(last_response)
  BY <1>3, Answers
<1>8. OneLine' /\ Response(k)'
  BY <1>1, <1>2, <1>4, <1>5, <1>6, <1>7, ReportTurn
<1> QED BY <1>2, <1>4, <1>5, <1>8, <1>r

LEMMA DestroyTurn ==
    ASSUME OneLine, HandleDestroyWorker, NEW m, m = Envelope
    PROVE  /\ OneLine' /\ ErrandFirst(m) /\ m.kind = "DestroyWorker" /\ m.id = line.id
           /\ \E k : /\ rx' = Append(rx, k) /\ Response(k)'
                     /\ k.reply = IF line.id \in registry
                                    THEN Contract!Reply("Stopped", lines,
                                                        [i \in {line.id} |-> info[line.id]])
                                    ELSE Contract!Reply("not found", lines, Names({line.id}))
<1>1. /\ Turn("DestroyWorker")
      /\ UNCHANGED <<stdin, lines, line, attempts, result, last_response>>
  BY DEF HandleDestroyWorker, stdinVars, cmdVars
<1>2. ErrandFirst(m) /\ m.kind = "DestroyWorker"
  BY <1>1, WhoseTurn
<1>3. m.line = lines /\ m.id = line.id /\ last_response = NoReply
  BY <1>2 DEF ErrandFirst, Errand, IsFor
<1>r. PICK r : r = IF line.id \in registry
                     THEN Contract!Reply("Stopped", lines, [i \in {line.id} |-> info[line.id]])
                     ELSE Contract!Reply("not found", lines, Names({line.id}))
  OBVIOUS
<1>k. PICK k : k = Message(Cmd, "CmdResponse", 0, r)
  OBVIOUS
<1>4. rx' = Append(rx, k)
  <2>i. PICK i : i = line.id
    OBVIOUS
  <2>1. /\ i \in registry => NotifyCmd("Stopped", [j \in {i} |-> info[i]])
        /\ i \notin registry => NotifyCmd("not found", Names({i}))
    BY <1>3, <2>i DEF HandleDestroyWorker, NotFound
  <2>2. CASE i \in registry
    BY <1>3, <1>r, <1>k, <2>i, <2>1, <2>2 DEF NotifyCmd
  <2>3. CASE i \notin registry
    BY <1>3, <1>r, <1>k, <2>i, <2>1, <2>3 DEF NotifyCmd
  <2> QED BY <2>2, <2>3
<1>5. IsFor(k, Cmd, "CmdResponse") /\ k.reply = r
  BY <1>k, Fields DEF IsFor
<1>6. IsReply(k.reply)
  <2>1. line.id \in registry => r.says = "Stopped"
    BY <1>r, Answers
  <2>2. line.id \notin registry => r.says = "not found"
    BY <1>r, Answers
  <2> QED BY <1>5, <2>1, <2>2 DEF IsReply
<1>7. ~ IsReply(last_response)
  BY <1>3, Answers
<1>8. OneLine' /\ Response(k)'
  BY <1>1, <1>2, <1>4, <1>5, <1>6, <1>7, ReportTurn
<1> QED BY <1>2, <1>3, <1>4, <1>5, <1>8, <1>r

LEMMA OneLineStep ==
    ASSUME OneLine, Threads, registry \subseteq WorkerId, [Next]_vars
    PROVE  OneLine'
<1>m. PICK m : m = Envelope
  OBVIOUS
<1>1. CASE UNCHANGED vars
  <2>1. UNCHANGED lineVars /\ rx' = rx /\ sched' = sched
    BY <1>1 DEF vars, lineVars, stdinVars, actorVars, cmdVars, loopVars
  <2>2. /\ NoneQueued => NoneQueued'
        /\ \A k : Queued(k) => Queued(k)'
        /\ \A k, n : QueuedBoth(k, n) => QueuedBoth(k, n)'
    BY <2>1 DEF NoneQueued, Queued, QueuedBoth
  <2> QED BY <2>1, <2>2, MessagesMove
<1>2. CASE WorkerStep
  <2>1. CASE Shutdown \/ ControlEmpty \/ TakeEnvelope \/ Idle
    BY <2>1, LoopOneLine
  <2>2. CASE HandleSetMeta \/ HandleQuit \/ HandlePoll
    BY <2>2, SmallTurns
  <2>3. CASE HandleExec
    BY <2>3, ExecTurn
  <2>4. CASE HandleCmdResponse
    BY <2>4, ResponseTurn
  <2>5. CASE HandleCreateWorker
    BY <1>m, <2>5, CreateTurn
  <2>6. CASE HandleDestroyWorker
    BY <1>m, <2>6, DestroyTurn
  <2>7. CASE HandleWorkerMessage
    BY <1>m, <2>7, WorkerTurn
  <2> QED BY <1>2, <2>1, <2>2, <2>3, <2>4, <2>5, <2>6, <2>7 DEF WorkerStep, Handle
<1>3. CASE MainStep \/ StdinStep \/ Typing
  BY <1>3, MainOneLine, StdinOneLine, TypingOneLine
<1> QED BY <1>1, <1>2, <1>3 DEF Next, Finished
-----------------------------------------------------------------------------
(* Workers count what they were given. *)

LEMMA CarriedSend ==
    ASSUME OneLine, NEW k, rx' = Append(rx, k), sched' = sched
    PROVE  Carried' = Carried \cup {k}
<1>1. \E S : rx \in Seq(S)
  <2>1. NoneQueued => rx \in Seq({})
    BY DEF NoneQueued
  <2>2. ASSUME NEW m, Queued(m) PROVE rx \in Seq({m})
    <3>1. <<>> \in Seq({m}) /\ <<m>> \in Seq({m})
      OBVIOUS
    <3> QED BY <2>2, <3>1 DEF Queued
  <2>3. ASSUME NEW m, NEW n, QueuedBoth(m, n) PROVE rx \in Seq({m, n})
    <3>1. <<>> \in Seq({m, n}) /\ <<n>> \in Seq({m, n}) /\ <<m, n>> \in Seq({m, n})
      OBVIOUS
    <3> QED BY <2>3, <3>1 DEF QueuedBoth
  <2> QED BY <2>1, <2>2, <2>3, Shapes
<1>2. PICK S : rx \in Seq(S)
  BY <1>1
<1>3. rx \in Seq(S \cup {k}) /\ k \in S \cup {k}
  BY <1>2, SeqMonotonic
<1>4. Range(Append(rx, k)) = Range(rx) \cup {k}
  BY <1>3, AppendRange
<1> QED BY <1>4 DEF Carried

LEMMA OwedSend ==
    ASSUME OneLine, NEW k, rx' = Append(rx, k), sched' = sched, k.kind # "WorkerMessage"
    PROVE  \A i : Owed(i)' <=> Owed(i)
BY CarriedSend DEF Owed, IsFor

LEMMA OwedTurn ==
    ASSUME OneLine, NEW kind, Turn(kind), kind # "WorkerMessage",
           rx' = rx \/ \E k : rx' = Append(rx, k) /\ k.kind # "WorkerMessage"
    PROVE  \A i : Owed(i)' <=> Owed(i)
<1>m. PICK m : m = Envelope
  OBVIOUS
<1>1. m.kind = kind /\ ~ NoneQueued
  BY <1>m, TurnFacts
<1>2. CASE rx' = rx
  <2>1. ASSUME NEW k, Queued(k) PROVE Carried = {m} /\ Carried' = {}
    BY <1>m, <1>2, <2>1, TurnFacts, QuietTurn, NetHolds, NetNext DEF Net
  <2>2. ASSUME NEW k, NEW n, QueuedBoth(k, n) PROVE Carried = {m, n} /\ Carried' = {n}
    BY <1>m, <1>2, <2>2, TurnFacts, QuietTurn, NetHolds, NetNext DEF Net
  <2> QED BY <1>1, <2>1, <2>2, Shapes DEF Owed, IsFor
<1>3. ASSUME NEW e, rx' = Append(rx, e), e.kind # "WorkerMessage"
      PROVE  \A i : Owed(i)' <=> Owed(i)
  <2>1. ASSUME NEW k, Queued(k) PROVE Carried = {m} /\ Carried' = {e}
    BY <1>m, <1>3, <2>1, TurnFacts, BusyTurn, NetHolds, NetNext DEF Net
  <2>2. ASSUME NEW k, NEW n, QueuedBoth(k, n) PROVE Carried = {m, n} /\ Carried' = {n, e}
    BY <1>m, <1>3, <2>2, TurnFacts, BusyTurn, NetHolds, NetNext DEF Net
  <2> QED BY <1>1, <1>3, <2>1, <2>2, Shapes DEF Owed, IsFor
<1> QED BY <1>2, <1>3

LEMMA CountedKept ==
    ASSUME Counted, UNCHANGED <<info, index, given>>,
           \A i : Owed(i)' <=> Owed(i), lines' = lines \/ \A i : ~ Owed(i)
    PROVE  Counted'
BY DEF Counted, Counts

(* All but the last element. *)
LEMMA FrontFacts ==
    ASSUME NEW q \in Seq(Nat), NEW e \in Nat
    PROVE  /\ Append(q, e) \in Seq(Nat) /\ Append(q, e) # <<>>
           /\ Append(q, e)[Len(Append(q, e))] = e
           /\ SubSeq(Append(q, e), 1, Len(Append(q, e)) - 1) = q
<1> DEFINE a == Append(q, e)
           f == SubSeq(a, 1, Len(a) - 1)
<1>1. /\ a \in Seq(Nat) /\ a # <<>> /\ Len(a) = Len(q) + 1 /\ Len(q) \in Nat
      /\ a[Len(a)] = e /\ \A i \in 1 .. Len(q) : a[i] = q[i]
  BY AppendProperties, LenProperties
<1>2. \A i \in 1 .. Len(a) - 1 : a[i] \in Nat
  BY <1>1, ElementOfSeq
<1> HIDE DEF a
<1>3. /\ f \in Seq(Nat) /\ Len(f) = Len(q)
      /\ \A i \in 1 .. Len(q) : f[i] = a[i]
  <2>1. Len(a) - 1 \in Int /\ 1 \in Int
    BY <1>1
  <2>2. /\ f \in Seq(Nat)
        /\ Len(f) = IF 1 <= Len(a) - 1 THEN Len(a) - 1 - 1 + 1 ELSE 0
        /\ \A i \in 1 .. Len(a) - 1 - 1 + 1 : f[i] = a[1 + i - 1]
    BY <1>2, <2>1, SubSeqProperties
  <2> HIDE DEF f
  <2> QED BY <1>1, <2>2
<1> HIDE DEF f
<1>4. f = q
  BY <1>1, <1>3, SeqEqual
<1> QED BY <1>1, <1>4 DEF a, f

LEMMA ModThree ==
    ASSUME NEW n \in Nat
    PROVE  n % 3 \in 0 .. 2 /\ ((n % 3) + 1) % 3 = (n + 1) % 3
BY SMT

(* A worker that has one more to handle than it has counted. *)
LEMMA CountOne ==
    ASSUME NEW q \in Seq(Nat), q # <<>>, NEW p, p = SubSeq(q, 1, Len(q) - 1)
    PROVE  /\ Len(p) \in Nat /\ Len(q) = Len(p) + 1
           /\ Contract!After(p).msg_count = Len(p)
           /\ Contract!After(q) = Contract!Info(Len(p) + 1, q[Len(q)],
                                                Contract!WorkerState[(Len(p) % 3) + 1])
           /\ ((Len(p) % 3) + 1) % 3 = Len(q) % 3
<1>1. Len(q) \in Nat \ {0} /\ \A i \in 1 .. Len(q) - 1 : q[i] \in Nat
  BY EmptySeq, ElementOfSeq
<1>2. p \in Seq(Nat) /\ Len(p) = Len(q) - 1
  <2>n. PICK n : n = Len(q) - 1
    OBVIOUS
  <2>1. n \in Nat /\ n \in Int /\ 1 \in Int /\ \A i \in 1 .. n : q[i] \in Nat
    BY <1>1, <2>n
  <2>2. p = SubSeq(q, 1, n)
    BY <2>n
  <2>3. /\ SubSeq(q, 1, n) \in Seq(Nat)
        /\ Len(SubSeq(q, 1, n)) = IF 1 <= n THEN n - 1 + 1 ELSE 0
    BY <2>1, SubSeqProperties
  <2>4. p \in Seq(Nat) /\ Len(p) = n
    BY <2>1, <2>2, <2>3
  <2> QED BY <2>4, <2>n
<1>3. Len(p) \in Nat /\ Len(q) = Len(p) + 1
  BY <1>1, <1>2
<1>4. Contract!After(p).msg_count = Len(p)
  <2>1. CASE p = <<>>
    BY <2>1 DEF Contract!After, Contract!Fresh, Contract!Info
  <2>2. CASE p # <<>>
    BY <2>2 DEF Contract!After, Contract!Info
  <2> QED BY <2>1, <2>2
<1>5. Len(q) - 1 = Len(p)
  BY <1>1, <1>2
<1>6. ((Len(p) % 3) + 1) % 3 = Len(q) % 3
  BY <1>3, ModThree
<1> QED BY <1>3, <1>4, <1>5, <1>6 DEF Contract!After
LEMMA ExecCounted ==
    ASSUME OneLine, Threads, Counted, registry \subseteq WorkerId, given \in [Id -> Seq(Nat)],
           lines \in Nat, HandleExec
    PROVE  Counted' /\ given' \in [Id -> Seq(Nat)]
<1>m. PICK m : m = Envelope
  OBVIOUS
<1>1. Turn("Exec") /\ UNCHANGED <<lines, info, index>>
  BY DEF HandleExec, stdinVars, actorVars
<1>2. Queued(m) /\ m.kind = "Exec"
  BY <1>m, <1>1, WhoseTurn DEF ExecFirst
<1>3. \A i : ~ Owed(i)
  BY <1>2, NetHolds DEF Net, Owed, IsFor
<1>4. ASSUME given' = given, rx' = rx \/ \E k : rx' = Append(rx, k) /\ k.kind # "WorkerMessage"
      PROVE  Counted' /\ given' \in [Id -> Seq(Nat)]
  <2>1. \A i : Owed(i)' <=> Owed(i)
    BY <1>1, <1>4, OwedTurn
  <2> QED BY <1>1, <1>4, <2>1, CountedKept
<1>5. ASSUME NEW i \in WorkerId, SendTo(i)
      PROVE  Counted' /\ given' \in [Id -> Seq(Nat)]
  <2>k. PICK k : k = Message(i, "WorkerMessage", i, NoReply)
    OBVIOUS
  <2>q. PICK q : q = given[i]
    OBVIOUS
  <2>n. PICK n : n = lines
    OBVIOUS
  <2>1. rx' = Append(rx, k) /\ given' = [given EXCEPT ![i] = Append(q, n)]
    BY <1>5, <2>k, <2>q, <2>n DEF SendTo
  <2>2. k.to = i /\ k.kind = "WorkerMessage"
    BY <2>k, Fields
  <2>3. Carried' = {k}
    BY <1>1, <1>2, <2>1, BusyTurn, NetNext DEF Net
  <2>4. \A j : Owed(j)' <=> j = i
    BY <2>2, <2>3 DEF Owed, IsFor
  <2>5. q \in Seq(Nat) /\ n \in Nat /\ i \in Id
    BY <2>q, <2>n DEF Id
  <2>6. /\ Append(q, n) \in Seq(Nat) /\ Append(q, n) # <<>>
        /\ Append(q, n)[Len(Append(q, n))] = n
        /\ SubSeq(Append(q, n), 1, Len(Append(q, n)) - 1) = q
    BY <2>5, FrontFacts
  <2>7. /\ given' \in [Id -> Seq(Nat)] /\ given'[i] = Append(q, n)
        /\ \A j \in WorkerId : j # i => given'[j] = given[j]
    BY <2>1, <2>5, <2>6 DEF Id
  <2>8. \A j \in WorkerId : Counts(j, given[j])
    BY <1>3 DEF Counted
  <2>9. lines' = n
    BY <1>1, <2>n
  <2>10. ASSUME NEW j \in WorkerId
         PROVE  IF j = i THEN /\ given'[j] # <<>> /\ given'[j][Len(given'[j])] = n
                              /\ info'[j] = Contract!After(SubSeq(given'[j], 1, Len(given'[j]) - 1))
                              /\ index'[j] = Len(SubSeq(given'[j], 1, Len(given'[j]) - 1)) % 3
                         ELSE /\ info'[j] = Contract!After(given'[j])
                              /\ index'[j] = Len(given'[j]) % 3
    <3>1. CASE j = i
      <4>1. info'[j] = Contract!After(q) /\ index'[j] = Len(q) % 3
        BY <1>1, <2>q, <2>8, <3>1 DEF Counts
      <4> QED BY <2>6, <2>7, <3>1, <4>1
    <3>2. CASE j # i
      BY <1>1, <2>7, <2>8, <3>2 DEF Counts
    <3> QED BY <3>1, <3>2
  <2>11. Counted'
    BY <2>4, <2>9, <2>10 DEF Counted, Counts
  <2> QED BY <2>7, <2>11
<1>6. ASSUME NEW kind, AskMeta(kind), kind # "WorkerMessage"
      PROVE  rx' = rx \/ \E k : rx' = Append(rx, k) /\ k.kind # "WorkerMessage"
  <2>k. PICK k : k = Message(Meta, kind, line.id, NoReply)
    OBVIOUS
  <2>1. k.kind = kind
    BY <2>k, Fields
  <2>2. rx' = rx \/ rx' = Append(rx, k)
    BY <1>6, <2>k DEF AskMeta
  <2> QED BY <1>6, <2>1, <2>2
<1>7. ASSUME ExecOther \/ ExecSpawn \/ ExecStop \/ ExecStatus
      PROVE  rx' = rx \/ \E k : rx' = Append(rx, k) /\ k.kind # "WorkerMessage"
  BY <1>6, <1>7 DEF ExecOther, ExecSpawn, ExecStop, ExecStatus, Respond
<1>8. CASE ExecSend
  <2>1. CASE line.arg = "good" /\ line.id \in registry
    BY <1>5, <1>8, <2>1 DEF ExecSend
  <2>2. CASE ~ (line.arg = "good" /\ line.id \in registry)
    <3>1. rx' = rx /\ given' = given
      BY <1>8, <2>2 DEF ExecSend, Respond
    <3> QED BY <1>4, <3>1
  <2> QED BY <2>1, <2>2
<1>9. CASE (ExecOther \/ ExecSpawn \/ ExecStop \/ ExecStatus) /\ given' = given
  BY <1>4, <1>7, <1>9
<1> QED BY <1>8, <1>9 DEF HandleExec

LEMMA WorkerCounted ==
    ASSUME OneLine, Counted, DOMAIN info = WorkerId, index \in [WorkerId -> 0 .. 2],
           given \in [Id -> Seq(Nat)], HandleWorkerMessage
    PROVE  Counted' /\ DOMAIN info' = WorkerId /\ index' \in [WorkerId -> 0 .. 2]
<1>m. PICK m : m = Envelope
  OBVIOUS
<1>i. PICK i : i = m.to
  OBVIOUS
<1>1. /\ UNCHANGED <<lines, given>>
      /\ info' = [info EXCEPT ![i] = Contract!Info(info[i].msg_count + 1, m.line,
                                                   Contract!WorkerState[index[i] + 1])]
      /\ index' = [index EXCEPT ![i] = (index[i] + 1) % 3]
  BY <1>m, <1>i DEF HandleWorkerMessage, Count, Advance, stdinVars
<1>2. ErrandFirst(m) /\ m.kind = "WorkerMessage" /\ \A j : ~ Owed(j)'
  BY <1>m, WorkerTurn DEF Owed, IsFor
<1>3. i \in WorkerId /\ m.line = lines
  BY <1>i, <1>2 DEF ErrandFirst, Errand, IsFor
<1>4. \A j : Owed(j) <=> j = i
  <2>1. (\E p : Carried = {m, p} /\ p.kind # "WorkerMessage") \/ Carried = {m}
    BY <1>2, NetHolds DEF ErrandFirst, Net, IsFor
  <2> QED BY <1>2, <1>i, <2>1 DEF Owed, IsFor
<1>q. PICK q : q = given[i]
  OBVIOUS
<1>p. PICK p : p = SubSeq(q, 1, Len(q) - 1)
  OBVIOUS
<1>5. q \in Seq(Nat) /\ q # <<>> /\ q[Len(q)] = lines /\ Counts(i, p)
  BY <1>3, <1>4, <1>q, <1>p DEF Counted, Id
<1>6. /\ Len(p) \in Nat /\ Contract!After(p).msg_count = Len(p)
      /\ Contract!After(q) = Contract!Info(Len(p) + 1, q[Len(q)],
                                           Contract!WorkerState[(Len(p) % 3) + 1])
      /\ ((Len(p) % 3) + 1) % 3 = Len(q) % 3
  BY <1>p, <1>5, CountOne
<1>7. info[i].msg_count = Len(p) /\ index[i] = Len(p) % 3
  BY <1>5, <1>6 DEF Counts
<1>8. info'[i] = Contract!After(q) /\ index'[i] = Len(q) % 3
  BY <1>1, <1>3, <1>5, <1>6, <1>7
<1>9. \A j \in WorkerId : j # i => info'[j] = info[j] /\ index'[j] = index[j]
  BY <1>1
<1>10. \A j \in WorkerId : info'[j] = Contract!After(given[j]) /\ index'[j] = Len(given[j]) % 3
  BY <1>4, <1>8, <1>9, <1>q DEF Counted, Counts
<1>11. Counted'
  BY <1>1, <1>2, <1>10 DEF Counted, Counts
<1>12. (index[i] + 1) % 3 \in 0 .. 2
  <2>1. index[i] \in Nat /\ index[i] + 1 \in Nat
    BY <1>3
  <2> QED BY <2>1, ModThree
<1> QED BY <1>1, <1>11, <1>12
LEMMA CountedStep ==
    ASSUME CInv, [Next]_vars
    PROVE  /\ Counted' /\ DOMAIN info' = WorkerId /\ index' \in [WorkerId -> 0 .. 2]
           /\ given' \in [Id -> Seq(Nat)]
<1>m. PICK m : m = Envelope
  OBVIOUS
<1>0. /\ OneLine /\ Threads /\ Counted /\ registry \subseteq WorkerId /\ lines \in Nat
      /\ DOMAIN info = WorkerId /\ index \in [WorkerId -> 0 .. 2] /\ given \in [Id -> Seq(Nat)]
  BY BoundAssumption DEF CInv, TypeOK
<1>1. ASSUME UNCHANGED <<info, index, given>>, \A i : Owed(i)' <=> Owed(i),
             lines' = lines \/ \A i : ~ Owed(i)
      PROVE  /\ Counted' /\ DOMAIN info' = WorkerId /\ index' \in [WorkerId -> 0 .. 2]
             /\ given' \in [Id -> Seq(Nat)]
  BY <1>0, <1>1, CountedKept
<1>2. ASSUME UNCHANGED <<rx, sched, info, index, given, lines>>
      PROVE  /\ Counted' /\ DOMAIN info' = WorkerId /\ index' \in [WorkerId -> 0 .. 2]
             /\ given' \in [Id -> Seq(Nat)]
  BY <1>1, <1>2 DEF Owed, Carried, IsFor
<1>3. ASSUME NEW k, rx' = Append(rx, k), sched' = sched, k.kind # "WorkerMessage",
             UNCHANGED <<info, index, given>>, lines' = lines \/ NoneQueued
      PROVE  /\ Counted' /\ DOMAIN info' = WorkerId /\ index' \in [WorkerId -> 0 .. 2]
             /\ given' \in [Id -> Seq(Nat)]
  <2>1. \A i : Owed(i)' <=> Owed(i)
    BY <1>0, <1>3, OwedSend
  <2>2. NoneQueued => \A i : ~ Owed(i)
    BY NetHolds DEF Net, Owed
  <2> QED BY <1>1, <1>3, <2>1, <2>2
<1>4. CASE MainStep
  <2>1. CASE SetMeta
    <3>k. PICK k : k = Message(Cmd, "SetMeta", 0, NoReply)
      OBVIOUS
    <3>1. k.kind = "SetMeta"
      BY <3>k, Fields
    <3> QED BY <1>3, <2>1, <3>k, <3>1 DEF SetMeta, stdinVars, loopVars, actorVars
  <2>2. CASE SpawnMeta \/ TakeHolder \/ StartStdin \/ DropRuntime \/ Joined
    BY <1>2, <2>2 DEF SpawnMeta, TakeHolder, StartStdin, DropRuntime, Joined, stdinVars, loopVars,
                      actorVars
  <2> QED BY <1>4, <2>1, <2>2 DEF MainStep
<1>5. CASE StdinStep
  <2>1. CASE Poll
    <3>k. PICK k : k = Message(Cmd, "Poll", 0, NoReply)
      OBVIOUS
    <3>1. k.kind = "Poll"
      BY <3>k, Fields
    <3> QED BY <1>3, <2>1, <3>k, <3>1 DEF Poll, loopVars, actorVars
  <2>2. CASE ExecReturns \/ PollReturns
    BY <1>2, <2>2 DEF ExecReturns, PollReturns, loopVars, actorVars
  <2> QED BY <1>5, <2>1, <2>2 DEF StdinStep
<1>6. CASE Typing
  <2>1. ASSUME NEW l \in Contract!Line, ReadLine(l)
        PROVE  /\ Counted' /\ DOMAIN info' = WorkerId /\ index' \in [WorkerId -> 0 .. 2]
               /\ given' \in [Id -> Seq(Nat)]
    <3>k. PICK k : k = [Message(Cmd, "Exec", 0, NoReply) EXCEPT !.line = lines + 1]
      OBVIOUS
    <3>1. k.kind = "Exec"
      BY <3>k DEF Message
    <3>2. NoneQueued
      BY <1>0, <2>1 DEF OneLine, Starting, Resting, Asked, Executed, Again, Polled, Told, ReadLine
    <3> QED BY <1>3, <2>1, <3>k, <3>1, <3>2 DEF ReadLine, loopVars, actorVars
  <2>2. ASSUME NEW typed \in BOOLEAN, Quit(typed)
        PROVE  /\ Counted' /\ DOMAIN info' = WorkerId /\ index' \in [WorkerId -> 0 .. 2]
               /\ given' \in [Id -> Seq(Nat)]
    <3>k. PICK k : k = Message(Cmd, "Quit", 0, NoReply)
      OBVIOUS
    <3>1. k.kind = "Quit"
      BY <3>k, Fields
    <3>2. /\ rx' = rx \/ rx' = Append(rx, k)
          /\ UNCHANGED <<sched, info, index, given, lines>>
      BY <2>2, <3>k DEF Quit, loopVars, actorVars
    <3> QED BY <1>2, <1>3, <3>1, <3>2
  <2> QED BY <1>6, <2>1, <2>2 DEF Typing
<1>7. CASE Shutdown
  <2>1. stdin = "ended"
    BY <1>0, <1>7 DEF Threads, Shutdown
  <2>2. \A i : ~ Owed(i)
    BY <1>0, <2>1, NetHolds DEF Net, Owed, IsFor, OneLine, Starting, Resting, Asked, Executed,
                                Again, Polled, Told
  <2>3. NoneQueued' /\ UNCHANGED <<info, index, given, lines>>
    BY <1>7 DEF Shutdown, NoneQueued, stdinVars
  <2>4. \A i : ~ Owed(i)'
    BY <2>3, NetNext DEF Net, Owed
  <2> QED BY <1>1, <2>2, <2>3, <2>4
<1>8. CASE ControlEmpty \/ Idle
  BY <1>2, <1>8 DEF ControlEmpty, Idle, stdinVars, actorVars
<1>9. CASE TakeEnvelope
  <2>1. UNCHANGED lineVars /\ UNCHANGED <<info, index, given, lines>>
    BY <1>9 DEF TakeEnvelope, lineVars, stdinVars, actorVars, cmdVars
  <2>2. Carried' = Carried
    BY <1>0, <1>9, <2>1, TakeFacts, MessagesMove
  <2>3. \A i : Owed(i)' <=> Owed(i)
    BY <2>2 DEF Owed, IsFor
  <2> QED BY <1>1, <2>1, <2>3
<1>10. ASSUME NEW kind, Turn(kind), kind # "WorkerMessage",
              UNCHANGED <<info, index, given, lines>>,
              rx' = rx \/ \E k : rx' = Append(rx, k) /\ k.kind # "WorkerMessage"
       PROVE  /\ Counted' /\ DOMAIN info' = WorkerId /\ index' \in [WorkerId -> 0 .. 2]
              /\ given' \in [Id -> Seq(Nat)]
  BY <1>0, <1>1, <1>10, OwedTurn
<1>11. CASE HandleSetMeta
  BY <1>10, <1>11 DEF HandleSetMeta, stdinVars, actorVars
<1>12. CASE HandleQuit
  BY <1>10, <1>12 DEF HandleQuit, stdinVars, actorVars
<1>13. CASE HandlePoll
  BY <1>10, <1>13 DEF HandlePoll, stdinVars, actorVars
<1>14. CASE HandleCmdResponse
  BY <1>10, <1>14 DEF HandleCmdResponse, stdinVars, actorVars
<1>15. CASE HandleCreateWorker
  <2>1. \E k : rx' = Append(rx, k) /\ k.kind # "WorkerMessage"
    BY <1>0, <1>m, <1>15, CreateTurn DEF Response, IsFor
  <2>2. Turn("CreateWorker") /\ UNCHANGED <<info, index, given, lines>>
    BY <1>15 DEF HandleCreateWorker, stdinVars
  <2> QED BY <1>10, <2>1, <2>2
<1>16. CASE HandleDestroyWorker
  <2>1. \E k : rx' = Append(rx, k) /\ k.kind # "WorkerMessage"
    BY <1>0, <1>m, <1>16, DestroyTurn DEF Response, IsFor
  <2>2. Turn("DestroyWorker") /\ UNCHANGED <<info, index, given, lines>>
    BY <1>16 DEF HandleDestroyWorker, stdinVars
  <2> QED BY <1>10, <2>1, <2>2
<1>17. CASE HandleExec
  <2>1. UNCHANGED <<info, index>>
    BY <1>17 DEF HandleExec, actorVars
  <2> QED BY <1>0, <1>17, <2>1, ExecCounted
<1>18. CASE HandleWorkerMessage
  <2>1. given' = given
    BY <1>18 DEF HandleWorkerMessage
  <2> QED BY <1>0, <1>18, <2>1, WorkerCounted
<1>19. CASE UNCHANGED vars
  BY <1>2, <1>19 DEF vars, stdinVars, loopVars, actorVars
<1> QED BY <1>4, <1>5, <1>6, <1>7, <1>8, <1>9, <1>11, <1>12, <1>13, <1>14, <1>15, <1>16, <1>17,
           <1>18, <1>19 DEF Next, WorkerStep, Handle, Finished
-----------------------------------------------------------------------------
(* Threads, ids and types. *)

LEMMA ThreadsStep ==
    ASSUME OneLine, Threads, [Next]_vars
    PROVE  Threads'
<1>m. PICK m : m = Envelope
  OBVIOUS
<1>1. CASE MainStep
  <2>1. meta' = meta /\ wpc' = wpc
    BY <1>1 DEF MainStep, SpawnMeta, TakeHolder, SetMeta, StartStdin, DropRuntime, Joined,
                loopVars, cmdVars
  <2>2. CASE SpawnMeta \/ TakeHolder \/ SetMeta
    BY <2>1, <2>2 DEF SpawnMeta, TakeHolder, SetMeta, Threads, stdinVars
  <2>3. CASE StartStdin
    <3>1. meta
      BY <2>3, Answers DEF OneLine, Threads, Starting, Resting, Asked, Executed, Again, Polled,
                           Told, StartStdin
    <3> QED BY <2>1, <2>3, <3>1 DEF StartStdin, Threads
  <2>4. CASE DropRuntime
    BY <2>1, <2>4 DEF DropRuntime, Threads, stdinVars
  <2>5. CASE Joined
    BY <2>1, <2>5 DEF Joined, Threads, stdinVars, NoneQueued, loopVars
  <2> QED BY <1>1, <2>2, <2>3, <2>4, <2>5 DEF MainStep
<1>2. CASE StdinStep \/ Typing
  <2>1. /\ stdin \in {"exec", "sleep", "poll", "reading"} /\ stdin' # "off"
        /\ UNCHANGED <<main, shutdown, wpc, meta>>
    BY <1>2 DEF StdinStep, Typing, ExecReturns, Poll, PollReturns, ReadLine, Quit, loopVars,
                cmdVars
  <2> QED BY <2>1 DEF Threads
<1>3. CASE Shutdown
  <2>1. NoneQueued' /\ shutdown /\ UNCHANGED <<main, stdin, shutdown, meta>>
    BY <1>3 DEF Shutdown, NoneQueued, stdinVars, cmdVars
  <2> QED BY <2>1 DEF Threads
<1>4. CASE ControlEmpty \/ TakeEnvelope \/ Idle
  BY <1>4 DEF ControlEmpty, TakeEnvelope, Idle, Threads, stdinVars, cmdVars
<1>5. CASE Handle
  <2>1. wpc' = "control" /\ (meta' = meta \/ meta' = TRUE) /\ UNCHANGED <<main, stdin, shutdown>>
    BY <1>5 DEF Handle, HandleSetMeta, HandleExec, HandlePoll, HandleQuit, HandleCmdResponse,
                HandleCreateWorker, HandleDestroyWorker, HandleWorkerMessage, Turn, stdinVars,
                cmdVars
  <2> QED BY <2>1 DEF Threads
<1>6. CASE UNCHANGED vars
  BY <1>6 DEF vars, stdinVars, loopVars, cmdVars, Threads, NoneQueued
<1> QED BY <1>1, <1>2, <1>3, <1>4, <1>5, <1>6 DEF Next, WorkerStep, Finished

(* Every actor that was spawned is in the map, until all are stopped. *)
AllThere ==
    IF wpc = "exited" THEN stopped = 1 .. next_id - 1
                      ELSE actors = 1 .. next_id - 1 /\ stopped = {}

LEMMA PopulationStep ==
    ASSUME CInv, [Next]_vars
    PROVE  /\ Population' /\ AllThere' /\ next_id' \in 1 .. MaxWorkers + 3
           /\ registry' \subseteq WorkerId /\ actors' \subseteq {Meta} \cup Id
           /\ stopped' \subseteq {Meta} \cup Id
<1>m. PICK m : m = Envelope
  OBVIOUS
<1>n. PICK n : n = next_id
  OBVIOUS
<1>0. /\ OneLine /\ Threads /\ Population /\ AllThere /\ MaxWorkers \in Nat
      /\ n \in 1 .. MaxWorkers + 3 /\ next_id = n /\ registry \subseteq WorkerId
      /\ actors \subseteq {Meta} \cup Id /\ stopped \subseteq {Meta} \cup Id
  BY <1>n, BoundAssumption DEF CInv, TypeOK, StopOnlyUnregisters, AllThere
<1>1. CASE SpawnMeta
  <2>1. /\ actors' = {1, 2} /\ next_id' = 3 /\ main' = "holder"
        /\ UNCHANGED <<wpc, stopped, registry>> /\ main = "spawn"
    BY <1>1 DEF SpawnMeta, loopVars, Meta, Cmd
  <2>2. wpc # "exited" /\ registry = {} /\ stopped = {}
    BY <1>0, <2>1 DEF Threads, Population, AllThere, Cmd
  <2> QED BY <1>0, <2>1, <2>2 DEF Population, AllThere, Meta, Id, Cmd
<1>2. CASE HandleCreateWorker
  <2>1. /\ actors' = actors \cup {n} /\ next_id' = n + 1 /\ registry' = registry \cup {n}
        /\ wpc = "drain" /\ wpc' = "control" /\ UNCHANGED <<main, stopped>>
    BY <1>2, <1>n DEF HandleCreateWorker, Spawn, Turn
  <2>2. n <= MaxWorkers + 2 /\ stdin # "off"
    BY <1>0, <1>m, <1>2, CreateTurn DEF ErrandFirst, Errand, IsFor, Executed, Polled
  <2>3. main # "spawn" /\ n > 2
    BY <1>0, <2>2 DEF Threads, Population, Cmd
  <2>4. n \in WorkerId /\ n \in Id /\ n + 1 \in 1 .. MaxWorkers + 3
    BY <1>0, <2>2, <2>3 DEF WorkerId, Id
  <2>5. AllThere'
    <3>1. actors = 1 .. n - 1 /\ stopped = {}
      BY <1>0, <2>1 DEF AllThere
    <3>2. actors' = 1 .. next_id' - 1
      BY <1>0, <2>1, <3>1
    <3> QED BY <2>1, <3>1, <3>2 DEF AllThere
  <2>6. Population'
    BY <1>0, <2>1, <2>3 DEF Population, Cmd
  <2> QED BY <1>0, <2>1, <2>4, <2>5, <2>6
<1>3. CASE Shutdown
  <2>1. /\ stopped' = stopped \cup actors /\ actors' = {} /\ wpc' = "exited" /\ wpc = "control"
        /\ UNCHANGED <<main, next_id, registry>>
    BY <1>3 DEF Shutdown
  <2> QED BY <1>0, <2>1 DEF Population, AllThere
<1>4. ASSUME UNCHANGED <<actors, stopped, next_id>>, registry' \subseteq registry,
             wpc' = wpc \/ (wpc # "exited" /\ wpc' # "exited"),
             main' = main \/ (main # "spawn" /\ main' # "spawn")
      PROVE  /\ Population' /\ AllThere' /\ next_id' \in 1 .. MaxWorkers + 3
             /\ registry' \subseteq WorkerId /\ actors' \subseteq {Meta} \cup Id
             /\ stopped' \subseteq {Meta} \cup Id
  BY <1>0, <1>4 DEF Population, AllThere
<1>5. CASE TakeHolder \/ SetMeta \/ StartStdin \/ DropRuntime \/ Joined
  BY <1>4, <1>5 DEF TakeHolder, SetMeta, StartStdin, DropRuntime, Joined, loopVars, actorVars
<1>6. CASE StdinStep \/ Typing
  BY <1>4, <1>6 DEF StdinStep, Typing, ExecReturns, Poll, PollReturns, ReadLine, Quit, loopVars,
                    actorVars
<1>7. CASE ControlEmpty \/ TakeEnvelope \/ Idle
  BY <1>4, <1>7 DEF ControlEmpty, TakeEnvelope, Idle, actorVars
<1>8. CASE HandleSetMeta \/ HandleExec \/ HandlePoll \/ HandleQuit \/ HandleCmdResponse
  BY <1>4, <1>8 DEF HandleSetMeta, HandleExec, HandlePoll, HandleQuit, HandleCmdResponse, Turn,
                    actorVars
<1>9. CASE HandleDestroyWorker \/ HandleWorkerMessage
  BY <1>4, <1>9 DEF HandleDestroyWorker, HandleWorkerMessage, Turn
<1>10. CASE UNCHANGED vars
  BY <1>4, <1>10 DEF vars, loopVars, actorVars
<1> QED BY <1>1, <1>2, <1>3, <1>5, <1>6, <1>7, <1>8, <1>9, <1>10
        DEF Next, WorkerStep, MainStep, Handle, Finished

LEMMA TypeStep ==
    ASSUME CInv, OneLine', Threads', [Next]_vars
    PROVE  /\ main' \in {"spawn", "holder", "set_meta", "wait_meta", "join", "drop", "end"}
           /\ stdin' \in {"off", "reading", "exec", "sleep", "poll", "ended"}
           /\ lines' \in 0 .. MaxLines /\ line' \in (Contract!Line \cup {NoLine})'
           /\ attempts' \in 0 .. MaxAttempts
           /\ wpc' \in {"control", "drain", "exited"}
<1>1. main' \in {"spawn", "holder", "set_meta", "wait_meta", "join", "drop", "end"}
  <2>1. main' = main \/ main' \in {"holder", "set_meta", "wait_meta", "join", "drop", "end"}
    BY DEF Next, WorkerStep, MainStep, StdinStep, Typing, Handle, Shutdown, ControlEmpty,
           TakeEnvelope, Idle, HandleSetMeta, HandleExec, HandlePoll, HandleQuit,
           HandleCmdResponse, HandleCreateWorker, HandleDestroyWorker, HandleWorkerMessage,
           SpawnMeta, TakeHolder, SetMeta, StartStdin, DropRuntime, Joined, ExecReturns, Poll,
           PollReturns, ReadLine, Quit, Finished, vars
  <2> QED BY <2>1 DEF CInv, TypeOK
<1>2. stdin' \in {"off", "reading", "exec", "sleep", "poll", "ended"}
  BY DEF OneLine, Starting, Resting, Asked, Executed, Again, Polled, Told
<1>3. attempts' \in 0 .. MaxAttempts
  <2>1. attempts' \in {0, 1}
    BY DEF OneLine, Starting, Resting, Asked, Executed, Again, Polled, Told
  <2> QED BY <2>1, BoundAssumption
<1>4. line' \in (Contract!Line \cup {NoLine})'
  BY Constants DEF OneLine, Starting, Resting
<1>5. wpc' \in {"control", "drain", "exited"}
  <2>1. wpc' = wpc \/ wpc' \in {"control", "drain", "exited"}
    BY DEF Next, WorkerStep, MainStep, StdinStep, Typing, Handle, Shutdown, ControlEmpty,
           TakeEnvelope, Idle, HandleSetMeta, HandleExec, HandlePoll, HandleQuit,
           HandleCmdResponse, HandleCreateWorker, HandleDestroyWorker, HandleWorkerMessage,
           SpawnMeta, TakeHolder, SetMeta, StartStdin, DropRuntime, Joined, ExecReturns, Poll,
           PollReturns, ReadLine, Quit, Finished, vars, loopVars, Turn
  <2> QED BY <2>1 DEF CInv, TypeOK
<1>6. lines' \in 0 .. MaxLines
  <2>1. lines \in 0 .. MaxLines /\ MaxLines \in Nat
    BY BoundAssumption DEF CInv, TypeOK
  <2>2. lines' = lines \/ (lines < MaxLines /\ lines' = lines + 1)
    BY DEF Next, WorkerStep, MainStep, StdinStep, Typing, Handle, Shutdown, ControlEmpty,
           TakeEnvelope, Idle, HandleSetMeta, HandleExec, HandlePoll, HandleQuit,
           HandleCmdResponse, HandleCreateWorker, HandleDestroyWorker, HandleWorkerMessage,
           SpawnMeta, TakeHolder, SetMeta, StartStdin, DropRuntime, Joined, ExecReturns, Poll,
           PollReturns, ReadLine, Quit, Finished, vars, stdinVars
  <2> QED BY <2>1, <2>2
<1> QED BY <1>1, <1>2, <1>3, <1>4, <1>5, <1>6

LEMMA FlagsStep ==
    ASSUME TypeOK, [Next]_vars
    PROVE  {cmd_addr_holder', meta', shutdown'} \subseteq BOOLEAN
<1>1. /\ cmd_addr_holder' \in {cmd_addr_holder, TRUE, FALSE} /\ meta' \in {meta, TRUE}
      /\ shutdown' \in {shutdown, TRUE}
  BY DEF Next, WorkerStep, MainStep, StdinStep, Typing, Handle, Shutdown, ControlEmpty,
         TakeEnvelope, Idle, HandleSetMeta, HandleExec, HandlePoll, HandleQuit,
         HandleCmdResponse, HandleCreateWorker, HandleDestroyWorker, HandleWorkerMessage,
         SpawnMeta, TakeHolder, SetMeta, StartStdin, DropRuntime, Joined, ExecReturns, Poll,
         PollReturns, ReadLine, Quit, Finished, vars, cmdVars
<1> QED BY <1>1 DEF TypeOK
-----------------------------------------------------------------------------
(* The inductive invariant holds. *)

LEMMA FreshCount == Contract!After(<<>>) = Contract!Fresh /\ Len(<<>>) % 3 = 0
<1>1. Len(<<>>) = 0 /\ 0 % 3 = 0
  BY SMT
<1> QED BY <1>1 DEF Contract!After

LEMMA CInvInit ==
    ASSUME Init
    PROVE  CInv
<1>1. MaxLines \in Nat /\ MaxWorkers \in Nat /\ MaxAttempts \in Nat \ {0}
  BY BoundAssumption
<1>2. TypeOK
  <2>1. 0 \in 0 .. MaxLines /\ 0 \in 0 .. MaxAttempts /\ 1 \in 1 .. MaxWorkers + 3
    BY <1>1
  <2>2. index \in [WorkerId -> 0 .. 2]
    BY DEF Init
  <2> QED BY <2>1, <2>2 DEF Init, TypeOK
<1>3. OneLine
  BY DEF Init, OneLine, Starting, NoneQueued
<1>4. Counted
  <2>1. \A i : ~ Owed(i)
    BY NetHolds DEF Init, Net, NoneQueued, Owed
  <2>2. \A i \in WorkerId : info[i] = Contract!Fresh /\ index[i] = 0 /\ given[i] = <<>>
    BY DEF Init, Id
  <2>3. \A i \in WorkerId : Counts(i, given[i])
    BY <2>2, FreshCount DEF Counts
  <2> QED BY <2>1, <2>3 DEF Counted
<1>5. DOMAIN info = WorkerId /\ given \in [Id -> Seq(Nat)]
  <2>1. <<>> \in Seq(Nat)
    OBVIOUS
  <2> QED BY <2>1 DEF Init
<1>6. Threads /\ Population /\ StopOnlyUnregisters
  BY <1>2 DEF Init, Threads, Population, StopOnlyUnregisters
<1> QED BY <1>2, <1>3, <1>4, <1>5, <1>6 DEF CInv

LEMMA CInvStep ==
    ASSUME CInv, [Next]_vars
    PROVE  CInv'
<1>1. OneLine' /\ Threads'
  BY OneLineStep, ThreadsStep DEF CInv, TypeOK
<1>2. /\ Counted' /\ DOMAIN info' = WorkerId /\ index' \in [WorkerId -> 0 .. 2]
      /\ given' \in [Id -> Seq(Nat)]
  BY CountedStep
<1>3. /\ Population' /\ AllThere' /\ next_id' \in 1 .. MaxWorkers + 3
      /\ registry' \subseteq WorkerId /\ actors' \subseteq {Meta} \cup Id
      /\ stopped' \subseteq {Meta} \cup Id
  BY PopulationStep
<1>4. TypeOK'
  BY <1>1, <1>2, <1>3, TypeStep, FlagsStep DEF CInv, TypeOK
<1>5. StopOnlyUnregisters'
  BY <1>3, <1>4 DEF StopOnlyUnregisters, AllThere
<1> QED BY <1>1, <1>2, <1>3, <1>4, <1>5 DEF CInv

(* In every state at most one line is under way, with at most two messages *)
(* queued for it, and every worker has counted what it was given, less the *)
(* message of this line: what the handlers and the polling thread of       *)
(* examples/console.rs keep between them.                                  *)
THEOREM ConsoleInvariant == Spec => []CInv
<1>1. Init => CInv
  BY CInvInit
<1>2. CInv /\ [Next]_vars => CInv'
  BY CInvStep
<1> QED BY <1>1, <1>2, PTL DEF Spec

(* The answer is there by the second poll, whatever the bound on the polls *)
(* of the reading thread (40 in the code).                                 *)
THEOREM TwoPollsHolds == Spec => []TwoPolls
<1>1. CInv => TwoPolls
  BY DEF CInv, OneLine, Starting, Resting, Asked, Executed, Again, Polled, Told, TwoPolls
<1> QED BY <1>1, ConsoleInvariant, PTL

(* No worker loses a message that was reported as sent, though Shutdown    *)
(* drops what is queued: quit is typed only after the last answer.         *)
THEOREM NothingLostAtExitHolds == Spec => []NothingLostAtExit
<1>1. CInv => NothingLostAtExit
  <2> SUFFICES ASSUME CInv, wpc = "exited" PROVE \A i \in WorkerId : info[i] = Contract!After(given[i])
    BY DEF NothingLostAtExit
  <2>1. Carried = {}
    BY NetHolds DEF CInv, Threads, Net
  <2> QED BY <2>1 DEF CInv, Counted, Counts, Owed
<1> QED BY <1>1, ConsoleInvariant, PTL

(* DestroyWorker takes a worker out of the registry and leaves its actor   *)
(* running until the runtime is dropped.                                   *)
THEOREM StopOnlyUnregistersHolds == Spec => []StopOnlyUnregisters
<1>1. CInv => StopOnlyUnregisters
  BY DEF CInv
<1> QED BY <1>1, ConsoleInvariant, PTL
-----------------------------------------------------------------------------
(* The console implements its contract. *)

(* Where the answer is. *)
Unsent == \A e \in Carried : e.kind # "CmdResponse"
Place ==
    /\ \A m \in Carried :
          m.kind = "CmdResponse" /\ (\A e \in Carried : e.kind = "CmdResponse" => e = m)
              => Pending = m.reply
    /\ Unsent => Pending = IF IsReply(last_response) THEN last_response ELSE result.reply

LEMMA PlaceHolds == Place
<1>0. InFlight = {e \in Carried : e.kind = "CmdResponse"}
  BY DEF InFlight, Carried
<1>1. ASSUME NEW m \in Carried, m.kind = "CmdResponse",
             \A e \in Carried : e.kind = "CmdResponse" => e = m
      PROVE  Pending = m.reply
  <2>1. InFlight = {m}
    BY <1>0, <1>1
  <2>2. (CHOOSE e \in {m} : TRUE) = m
    OBVIOUS
  <2> QED BY <2>1, <2>2 DEF Pending
<1>2. ASSUME Unsent
      PROVE  Pending = IF IsReply(last_response) THEN last_response ELSE result.reply
  <2>1. InFlight = {}
    BY <1>0, <1>2 DEF Unsent
  <2> QED BY <2>1 DEF Pending, IsReply
<1> QED BY <1>1, <1>2 DEF Place

LEMMA PlaceNext == Place'
BY PlaceHolds, PTL

(* The answer stays where it is. *)
LEMMA PendingKept ==
    ASSUME UNCHANGED <<rx, sched, last_response>>, result'.reply = result.reply
    PROVE  Pending' = Pending
BY DEF Pending, InFlight

LEMMA PendingSend ==
    ASSUME OneLine, NEW k, rx' = Append(rx, k), sched' = sched, k.kind # "CmdResponse",
           last_response' = last_response, result'.reply = result.reply
    PROVE  Pending' = Pending
<1>1. Carried' = Carried \cup {k}
  BY CarriedSend
<1>2. InFlight' = InFlight
  BY <1>1 DEF InFlight, Carried
<1> QED BY <1>2 DEF Pending

LEMMA PendingTurn ==
    ASSUME OneLine, NEW kind, Turn(kind), kind # "CmdResponse", rx' = rx,
           last_response' = last_response, result'.reply = result.reply
    PROVE  Pending' = Pending
<1>m. PICK m : m = Envelope
  OBVIOUS
<1>1. m.kind = kind /\ ~ NoneQueued
  BY <1>m, TurnFacts
<1>2. ASSUME NEW k, Queued(k) PROVE Carried = {m} /\ Carried' = {}
  BY <1>m, <1>2, TurnFacts, QuietTurn, NetHolds, NetNext DEF Net
<1>3. ASSUME NEW k, NEW n, QueuedBoth(k, n) PROVE Carried = {m, n} /\ Carried' = {n}
  BY <1>m, <1>3, TurnFacts, QuietTurn, NetHolds, NetNext DEF Net
<1>4. InFlight = {e \in Carried : e.kind = "CmdResponse"}
      /\ InFlight' = {e \in Carried' : e.kind = "CmdResponse"}
  BY DEF InFlight, Carried
<1>5. InFlight' = InFlight
  BY <1>1, <1>2, <1>3, <1>4, Shapes
<1> QED BY <1>5 DEF Pending

(* The variables of the contract, as one tuple. *)
NextWorker == IF next_id > Cmd THEN next_id ELSE Cmd + 1
ContractStep == [Contract!Next]_(Contract!vars)

LEMMA Stutters ==
    ASSUME UNCHANGED <<lines, line, registry, given, next_id>>, Pending' = Pending
    PROVE  ContractStep
BY DEF ContractStep, Contract!vars

(* The line under way. *)
LEMMA NotNoLine == \A l \in Contract!Line : l # NoLine
BY DEF NoLine, Contract!NoLine, Contract!Line, Contract!Say

(* The main thread does nothing that the contract speaks of. *)
LEMMA MainKeeps ==
    ASSUME CInv, MainStep
    PROVE  ContractStep
<1>0. OneLine /\ Threads /\ Population
  BY DEF CInv
<1>1. CASE SpawnMeta
  <2>1. /\ next_id = 1 /\ next_id' = Cmd + 1
        /\ UNCHANGED <<lines, line, registry, given, rx, sched, last_response, result>>
    BY <1>0, <1>1 DEF SpawnMeta, Population, stdinVars, loopVars
  <2>2. Pending' = Pending
    BY <2>1, PendingKept
  <2>3. NextWorker' = NextWorker
    BY <2>1 DEF NextWorker, Cmd
  <2> QED BY <2>1, <2>2, <2>3 DEF ContractStep, Contract!vars, NextWorker
<1>2. CASE SetMeta
  <2>1. result = Unanswered
    BY <1>0, <1>2 DEF OneLine, Threads, Starting, Resting, Asked, Executed, Again, Polled, Told,
                      SetMeta
  <2>k. PICK k : k = Message(Cmd, "SetMeta", 0, NoReply)
    OBVIOUS
  <2>2. k.kind # "CmdResponse"
    BY <2>k, Fields
  <2>3. /\ rx' = Append(rx, k) /\ result' = Unanswered
        /\ UNCHANGED <<lines, line, registry, given, next_id, sched, last_response>>
    BY <1>2, <2>k DEF SetMeta, stdinVars, loopVars, actorVars, cmdVars
  <2>4. Pending' = Pending
    BY <1>0, <2>1, <2>2, <2>3, PendingSend
  <2> QED BY <2>3, <2>4, Stutters
<1>3. CASE TakeHolder \/ StartStdin \/ DropRuntime \/ Joined
  <2>1. UNCHANGED <<lines, line, registry, given, next_id, rx, sched, last_response, result>>
    BY <1>3 DEF TakeHolder, StartStdin, DropRuntime, Joined, stdinVars, loopVars, actorVars, cmdVars
  <2>2. Pending' = Pending
    BY <2>1, PendingKept
  <2> QED BY <2>1, <2>2, Stutters
<1> QED BY <1>1, <1>2, <1>3 DEF MainStep

(* A line is typed where there is none under way. *)
LEMMA TypingKeeps ==
    ASSUME CInv, Typing
    PROVE  ContractStep
<1>0. OneLine
  BY DEF CInv
<1>1. ASSUME NEW l \in Contract!Line, ReadLine(l)
      PROVE  ContractStep
  <2>1. line = NoLine /\ result.reply = NoReply
    BY <1>0, <1>1 DEF OneLine, Starting, Resting, Asked, Executed, Again, Polled, Told, ReadLine
  <2>k. PICK k : k = [Message(Cmd, "Exec", 0, NoReply) EXCEPT !.line = lines + 1]
    OBVIOUS
  <2>2. k.kind # "CmdResponse"
    BY <2>k DEF Message
  <2>3. /\ rx' = Append(rx, k) /\ result' = Unanswered /\ lines' = lines + 1 /\ line' = l
        /\ UNCHANGED <<registry, given, next_id, sched, last_response>>
    BY <1>1, <2>k DEF ReadLine, loopVars, actorVars, cmdVars
  <2>4. result'.reply = result.reply
    BY <2>1, <2>3, Answers
  <2>5. Pending' = Pending
    BY <1>0, <2>2, <2>3, <2>4, PendingSend
  <2>6. Contract!Type
    BY <1>1, <2>1, <2>3, <2>5, Constants DEF Contract!Type, NoLine
  <2> QED BY <2>6 DEF ContractStep, Contract!Next
<1>2. ASSUME NEW typed \in BOOLEAN, Quit(typed)
      PROVE  ContractStep
  <2>k. PICK k : k = Message(Cmd, "Quit", 0, NoReply)
    OBVIOUS
  <2>1. k.kind # "CmdResponse"
    BY <2>k, Fields
  <2>2. /\ rx' = rx \/ rx' = Append(rx, k)
        /\ UNCHANGED <<lines, line, registry, given, next_id, sched, last_response, result>>
    BY <1>2, <2>k DEF Quit, loopVars, actorVars, cmdVars
  <2>3. Pending' = Pending
    BY <1>0, <2>1, <2>2, PendingKept, PendingSend
  <2> QED BY <2>2, <2>3, Stutters
<1> QED BY <1>1, <1>2 DEF Typing

(* What is printed is the answer, and a poll without one prints nothing. *)
LEMMA StdinKeeps ==
    ASSUME CInv, StdinStep
    PROVE  ContractStep
<1>0. OneLine
  BY DEF CInv
<1>1. CASE ExecReturns
  <2>1. UNCHANGED <<lines, line, registry, given, next_id, rx, sched, last_response, result>>
    BY <1>1 DEF ExecReturns, loopVars, actorVars, cmdVars
  <2>2. Pending' = Pending
    BY <2>1, PendingKept
  <2> QED BY <2>1, <2>2, Stutters
<1>2. CASE Poll
  <2>k. PICK k : k = Message(Cmd, "Poll", 0, NoReply)
    OBVIOUS
  <2>1. k.kind # "CmdResponse"
    BY <2>k, Fields
  <2>2. /\ rx' = Append(rx, k) /\ result' = Unanswered
        /\ UNCHANGED <<lines, line, registry, given, next_id, sched, last_response>>
    BY <1>2, <2>k DEF Poll, loopVars, actorVars, cmdVars
  <2>3. result = Ok(NoReply) \/ result = Unanswered
    BY <1>0, <1>2 DEF OneLine, Starting, Resting, Asked, Executed, Again, Polled, Told, Poll
  <2>4. result.reply = NoReply /\ result'.reply = NoReply
    BY <2>2, <2>3, Answers
  <2>5. Pending' = Pending
    BY <1>0, <2>1, <2>2, <2>4, PendingSend
  <2> QED BY <2>2, <2>5, Stutters
<1>3. CASE PollReturns
  <2>1. Told
    BY <1>3, Answers DEF OneLine, Starting, Resting, Asked, Executed, Again, Polled, Told,
                         PollReturns, CInv
  <2>2. /\ result' = Unanswered
        /\ UNCHANGED <<lines, rx, sched, last_response, registry, given, next_id>>
        /\ IF result.reply # NoReply \/ attempts + 1 > MaxAttempts
             THEN line' = NoLine
             ELSE line' = line
    BY <1>3 DEF PollReturns, loopVars, actorVars, cmdVars
  <2>3. result'.reply = NoReply
    BY <2>2, Answers
  <2>4. CASE NoneQueued /\ last_response = NoReply /\ IsReply(result.reply)
    <3>1. Unsent /\ Unsent'
      <4>1. NoneQueued'
        BY <2>2, <2>4 DEF NoneQueued
      <4> QED BY <2>4, <4>1, NetHolds, NetNext DEF Net, Unsent
    <3>2. ~ IsReply(last_response) /\ ~ IsReply(last_response)'
      BY <2>2, <2>4, Answers DEF IsReply
    <3>3. Pending = result.reply /\ Pending' = result'.reply
      BY <3>1, <3>2, PlaceHolds, PlaceNext DEF Place
    <3>4. Pending # NoReply /\ Pending' = NoReply /\ line' = NoLine
      BY <2>2, <2>3, <2>4, <3>3, Answers
    <3>5. Contract!Show
      BY <2>2, <3>4, Constants DEF Contract!Show, NoReply, NoLine
    <3> QED BY <3>5 DEF ContractStep, Contract!Next
  <2>5. CASE attempts = 0 /\ result = Ok(NoReply) /\ Answering
    <3>1. result.reply = NoReply
      BY <2>5, Answers
    <3>2. MaxAttempts \in Nat \ {0}
      BY BoundAssumption
    <3>3. ~ (attempts + 1 > MaxAttempts)
      BY <2>5, <3>2
    <3>4. line' = line
      BY <2>2, <3>1, <3>3
    <3>5. Pending' = Pending
      BY <2>2, <2>3, <3>1, PendingKept
    <3> QED BY <2>2, <3>4, <3>5, Stutters
  <2> QED BY <2>1, <2>4, <2>5 DEF Told
<1> QED BY <1>1, <1>2, <1>3 DEF StdinStep

(* Messages on their way. *)
LEMMA LoopKeeps ==
    ASSUME CInv, Shutdown \/ ControlEmpty \/ TakeEnvelope \/ Idle
    PROVE  ContractStep
<1>0. OneLine /\ Threads
  BY DEF CInv
<1>1. UNCHANGED <<lines, line, registry, given, next_id, last_response, result>>
  BY DEF Shutdown, ControlEmpty, TakeEnvelope, Idle, stdinVars, actorVars, cmdVars
<1>2. CASE Shutdown
  <2>1. stdin = "ended"
    BY <1>0, <1>2 DEF Threads, Shutdown
  <2>2. Unsent
    BY <1>0, <2>1, NetHolds DEF Net, Unsent, IsFor, OneLine, Starting, Resting, Asked, Executed,
                                Again, Polled, Told
  <2>3. NoneQueued'
    BY <1>2 DEF Shutdown, NoneQueued
  <2>4. Unsent'
    BY <2>3, NetNext DEF Net, Unsent
  <2>5. IsReply(last_response)' <=> IsReply(last_response)
    BY <1>1 DEF IsReply
  <2>6. Pending' = Pending
    BY <1>1, <2>2, <2>4, <2>5, PlaceHolds, PlaceNext DEF Place
  <2> QED BY <1>1, <2>6, Stutters
<1>3. CASE ControlEmpty \/ Idle
  <2>1. rx' = rx /\ sched' = sched
    BY <1>3 DEF ControlEmpty, Idle
  <2>2. Pending' = Pending
    BY <1>1, <2>1, PendingKept
  <2> QED BY <1>1, <2>2, Stutters
<1>4. CASE TakeEnvelope
  <2>1. UNCHANGED lineVars
    BY <1>4 DEF TakeEnvelope, lineVars, stdinVars, actorVars, cmdVars
  <2>2. Carried' = Carried
    BY <1>0, <1>4, <2>1, TakeFacts, MessagesMove
  <2>3. InFlight' = InFlight
    BY <2>2 DEF InFlight, Carried
  <2>4. Pending' = Pending
    BY <1>1, <2>3 DEF Pending
  <2> QED BY <1>1, <2>4, Stutters
<1> QED BY <1>2, <1>3, <1>4

(* CommandActor puts the answer into the slot, and gives it away. *)
LEMMA SlotKeeps ==
    ASSUME CInv, HandleSetMeta \/ HandleQuit \/ HandlePoll \/ HandleCmdResponse
    PROVE  ContractStep
<1>0. OneLine
  BY DEF CInv
<1>m. PICK m : m = Envelope
  OBVIOUS
<1>1. CASE HandleSetMeta
  <2>1. /\ Turn("SetMeta") /\ rx' = rx /\ result' = Ok(NoReply)
        /\ UNCHANGED <<lines, line, registry, given, next_id, last_response>>
    BY <1>1 DEF HandleSetMeta, stdinVars, actorVars
  <2>2. result = Unanswered
    BY <1>0, <1>m, <2>1, WhoseTurn DEF SetMetaFirst
  <2>3. result'.reply = result.reply
    BY <2>1, <2>2, Answers
  <2>4. Pending' = Pending
    BY <1>0, <2>1, <2>3, PendingTurn
  <2> QED BY <2>1, <2>4, Stutters
<1>2. CASE HandleQuit
  <2>1. /\ Turn("Quit") /\ rx' = rx
        /\ UNCHANGED <<lines, line, registry, given, next_id, last_response, result>>
    BY <1>2 DEF HandleQuit, stdinVars, actorVars, cmdVars
  <2>2. Pending' = Pending
    BY <1>0, <2>1, PendingTurn
  <2> QED BY <2>1, <2>2, Stutters
<1>3. CASE HandlePoll
  <2>1. /\ Turn("Poll") /\ rx' = rx /\ result' = Ok(last_response) /\ last_response' = NoReply
        /\ UNCHANGED <<lines, line, registry, given, next_id>>
    BY <1>3 DEF HandlePoll, Taken, stdinVars, actorVars
  <2>2. PollFirst(m) /\ m.kind = "Poll"
    BY <1>0, <1>m, <2>1, WhoseTurn
  <2>r. PICK r : r = last_response
    OBVIOUS
  <2>3. CASE Queued(m) /\ IsReply(last_response)
    <3>1. Unsent /\ NoneQueued'
      BY <2>1, <2>2, <2>3, QuietTurn, NetHolds DEF Net, Unsent
    <3>2. Unsent'
      BY <3>1, NetNext DEF Net, Unsent
    <3>3. Pending = r
      BY <2>3, <2>r, <3>1, PlaceHolds DEF Place
    <3>4. ~ IsReply(last_response)'
      BY <2>1, Answers DEF IsReply
    <3>5. Pending' = result'.reply
      BY <3>2, <3>4, PlaceNext DEF Place
    <3>6. result'.reply = r
      BY <2>1, <2>r, Answers
    <3> QED BY <2>1, <3>3, <3>5, <3>6, Stutters
  <2>4. ASSUME NEW n, QueuedBoth(m, n), Response(n)
        PROVE  ContractStep
    <3>1. Carried = {m, n} /\ n.kind = "CmdResponse"
      BY <2>4, NetHolds DEF Net, Response, IsFor
    <3>2. Carried' = {n}
      BY <2>1, <2>4, QuietTurn, NetNext DEF Net
    <3>3. Pending = n.reply
      BY <2>2, <3>1, PlaceHolds DEF Place
    <3>4. Pending' = n.reply
      BY <3>1, <3>2, PlaceNext DEF Place
    <3> QED BY <2>1, <3>3, <3>4, Stutters
  <2> QED BY <2>2, <2>3, <2>4 DEF PollFirst
<1>4. CASE HandleCmdResponse
  <2>1. /\ Turn("CmdResponse") /\ rx' = rx /\ last_response' = m.reply
        /\ UNCHANGED <<lines, line, registry, given, next_id, result>>
    BY <1>4, <1>m DEF HandleCmdResponse, stdinVars, actorVars
  <2>2. AnswerFirst(m) /\ m.kind = "CmdResponse"
    BY <1>0, <1>m, <2>1, WhoseTurn
  <2>3. \/ Carried = {m} /\ Carried' = {}
        \/ \E p : Carried = {m, p} /\ Carried' = {p} /\ p.kind = "Poll"
    <3>1. CASE Queued(m)
      BY <2>1, <3>1, QuietTurn, NetHolds, NetNext DEF Net
    <3>2. ASSUME NEW p, QueuedBoth(m, p), IsFor(p, Cmd, "Poll")
          PROVE  Carried = {m, p} /\ Carried' = {p} /\ p.kind = "Poll"
      BY <2>1, <3>2, QuietTurn, NetHolds, NetNext DEF Net, IsFor
    <3> QED BY <2>2, <3>1, <3>2 DEF AnswerFirst
  <2>4. Pending = m.reply
    BY <2>2, <2>3, PlaceHolds DEF Place
  <2>5. Unsent' /\ IsReply(last_response)'
    BY <2>1, <2>2, <2>3 DEF Unsent, AnswerFirst, Response, IsReply
  <2>6. Pending' = m.reply
    BY <2>1, <2>5, PlaceNext DEF Place
  <2> QED BY <2>1, <2>4, <2>6, Stutters
<1> QED BY <1>1, <1>2, <1>3, <1>4

(* A worker's turn is not seen: it was given the message before. *)
LEMMA WorkerKeeps ==
    ASSUME CInv, HandleWorkerMessage
    PROVE  ContractStep
<1>1. /\ Turn("WorkerMessage") /\ rx' = rx
      /\ UNCHANGED <<lines, line, registry, given, next_id, last_response, result>>
  BY DEF HandleWorkerMessage, stdinVars, cmdVars
<1>2. Pending' = Pending
  BY <1>1, PendingTurn DEF CInv
<1> QED BY <1>1, <1>2, Stutters

(* An errand of MetaActor's: there is no answer before and there is after. *)
LEMMA ErrandAnswer ==
    ASSUME OneLine, NEW kind, Turn(kind), NEW m, ErrandFirst(m), m.kind = kind,
           kind \in {"CreateWorker", "DestroyWorker"},
           NEW k, rx' = Append(rx, k), Response(k)'
    PROVE  /\ Pending = NoReply /\ Pending' = k.reply
           /\ \A i : ~ Owed(i)
<1>1. last_response = NoReply /\ ~ IsReply(last_response)
  BY Answers DEF ErrandFirst, Errand, IsFor, IsReply
<1>2. result = Ok(NoReply) \/ result = Unanswered
  BY DEF ErrandFirst, Executed, Polled
<1>3. result.reply = NoReply
  BY <1>2, Answers
<1>4. \/ Carried = {m} /\ Carried' = {k}
      \/ \E p : Carried = {m, p} /\ Carried' = {p, k} /\ p.kind = "Poll"
  <2>1. CASE Queued(m)
    BY <2>1, BusyTurn, NetHolds, NetNext DEF Net
  <2>2. ASSUME NEW p, QueuedBoth(m, p), IsFor(p, Cmd, "Poll")
        PROVE  Carried = {m, p} /\ Carried' = {p, k} /\ p.kind = "Poll"
    BY <2>2, BusyTurn, NetHolds, NetNext DEF Net, IsFor
  <2> QED BY <2>1, <2>2 DEF ErrandFirst
<1>5. Unsent /\ \A i : ~ Owed(i)
  BY <1>4 DEF Unsent, Owed, IsFor
<1>6. Pending = NoReply
  BY <1>1, <1>3, <1>5, PlaceHolds DEF Place
<1>7. k.kind = "CmdResponse"
  BY DEF Response, IsFor
<1>8. Pending' = k.reply
  BY <1>4, <1>7, PlaceNext DEF Place
<1> QED BY <1>5, <1>6, <1>8

(* spawn and stop take effect at MetaActor's turn. *)
LEMMA CreateSpawns ==
    ASSUME CInv, HandleCreateWorker
    PROVE  ContractStep
<1>0. OneLine /\ Threads /\ Population
  BY DEF CInv
<1>m. PICK m : m = Envelope
  OBVIOUS
<1>1. /\ Turn("CreateWorker") /\ next_id' = next_id + 1 /\ registry' = registry \cup {next_id}
      /\ UNCHANGED <<lines, line, given>>
  BY DEF HandleCreateWorker, Spawn, stdinVars
<1>2. ErrandFirst(m) /\ m.kind = "CreateWorker"
  BY <1>0, <1>m, CreateTurn
<1>3. PICK k : /\ rx' = Append(rx, k) /\ Response(k)'
               /\ k.reply = Contract!Reply("Spawned", lines, Names({next_id}))
  BY <1>0, <1>m, CreateTurn
<1>4. Pending = NoReply /\ Pending' = Contract!Reply("Spawned", lines, Names({next_id}))
  BY <1>0, <1>1, <1>2, <1>3, ErrandAnswer
<1>5. line.op = "spawn" /\ line.arg = "good" /\ line \in Contract!Line /\ stdin # "off"
  BY <1>2 DEF ErrandFirst, Errand, IsFor, Executed, Polled
<1>6. next_id > Cmd
  BY <1>0, <1>5 DEF Threads, Population
<1>7. NextWorker = next_id /\ NextWorker' = next_id + 1
  <2>1. next_id \in Nat
    BY DEF CInv, TypeOK
  <2> QED BY <1>1, <1>6, <2>1 DEF NextWorker, Cmd
<1>8. Contract!Spawn
  BY <1>1, <1>4, <1>5, <1>7 DEF Contract!Spawn, Contract!Answer, Names, NextWorker
<1>9. line # NoLine
  BY <1>5, NotNoLine
<1>10. Contract!Effect
  BY <1>1, <1>4, <1>8, <1>9 DEF Contract!Effect, NoReply, NoLine
<1> QED BY <1>10 DEF ContractStep, Contract!Next

LEMMA DestroyStops ==
    ASSUME CInv, HandleDestroyWorker
    PROVE  ContractStep
<1>0. OneLine /\ Counted /\ registry \subseteq WorkerId
  BY DEF CInv, TypeOK
<1>m. PICK m : m = Envelope
  OBVIOUS
<1>1. ErrandFirst(m) /\ m.kind = "DestroyWorker" /\ m.id = line.id
  BY <1>0, <1>m, DestroyTurn
<1>2. /\ Turn("DestroyWorker") /\ registry' = registry \ {line.id}
      /\ UNCHANGED <<lines, line, given, next_id>>
  BY <1>m, <1>1 DEF HandleDestroyWorker, stdinVars
<1>i. PICK i : i = line.id
  OBVIOUS
<1>3. PICK k : /\ rx' = Append(rx, k) /\ Response(k)'
               /\ k.reply = IF line.id \in registry
                              THEN Contract!Reply("Stopped", lines, [j \in {line.id} |-> info[line.id]])
                              ELSE Contract!Reply("not found", lines, Names({line.id}))
  BY <1>0, <1>m, DestroyTurn
<1>4. Pending = NoReply /\ Pending' = k.reply /\ \A j : ~ Owed(j)
  BY <1>0, <1>1, <1>2, <1>3, ErrandAnswer
<1>5. i \in registry => info[i] = Contract!After(given[i])
  BY <1>0, <1>4 DEF Counted, Counts
<1>6. i \in registry => Pending' = Contract!Reply("Stopped", lines, Contract!Report({i}))
  <2> SUFFICES ASSUME i \in registry
               PROVE  Pending' = Contract!Reply("Stopped", lines, Contract!Report({i}))
    OBVIOUS
  <2>1. [j \in {i} |-> info[i]] = [j \in {i} |-> Contract!After(given[j])]
    BY <1>5
  <2> QED BY <1>3, <1>4, <1>i, <2>1 DEF Contract!Report
<1>7. i \notin registry => Pending' = Contract!Reply("not found", lines, Names({i}))
  BY <1>3, <1>4, <1>i
<1>8. line.op = "stop" /\ line.arg = "good" /\ line \in Contract!Line
  BY <1>1 DEF ErrandFirst, Errand, IsFor
<1>9. Contract!Stop
  BY <1>2, <1>6, <1>7, <1>8, <1>i DEF Contract!Stop, Contract!Answer, Names
<1>10. line # NoLine
  BY <1>8, NotNoLine
<1>11. Contract!Effect
  BY <1>2, <1>4, <1>9, <1>10 DEF Contract!Effect, NoReply, NoLine
<1> QED BY <1>11 DEF ContractStep, Contract!Next

LEMMA LineArgs ==
    \A l \in Contract!Line :
        /\ l.op = "spawn" => l.arg \in {"none", "good"}
        /\ l.op \in {"stop", "send"} => l.arg \in {"none", "bad", "good"}
BY DEF Contract!Line, Contract!Say

(* The other lines take effect at CommandActor's turn. *)
LEMMA ExecAnswers ==
    ASSUME CInv, HandleExec
    PROVE  ContractStep
<1>0. OneLine /\ Counted /\ Threads /\ registry \subseteq WorkerId
  BY DEF CInv, TypeOK
<1>m. PICK m : m = Envelope
  OBVIOUS
<1>1. /\ Turn("Exec") /\ result' = Ok(NoReply)
      /\ UNCHANGED <<lines, line, registry, next_id, info>>
  BY DEF HandleExec, stdinVars, actorVars
<1>2. ExecFirst(m) /\ m.kind = "Exec"
  BY <1>0, <1>m, <1>1, WhoseTurn
<1>3. /\ Queued(m) /\ last_response = NoReply /\ result = Unanswered /\ meta
      /\ line \in Contract!Line /\ line # NoLine
  BY <1>0, <1>2, NotNoLine DEF ExecFirst, Asked, Threads
<1>4. Unsent /\ \A i : ~ Owed(i)
  BY <1>2, <1>3, NetHolds DEF Net, Unsent, Owed, IsFor
<1>5. Pending = NoReply /\ result'.reply = NoReply
  <2>1. ~ IsReply(last_response) /\ result.reply = NoReply /\ result'.reply = NoReply
    BY <1>1, <1>3, Answers
  <2> QED BY <1>4, <2>1, PlaceHolds DEF Place
<1>6. \A i \in registry : info[i] = Contract!After(given[i])
  BY <1>0, <1>4 DEF Counted, Counts
<1>7. ASSUME NEW says, NEW report, says # "", Respond(says, report)
      PROVE  Pending' = Contract!Reply(says, lines, report)
  <2>1. rx' = rx /\ last_response' = Contract!Reply(says, lines, report)
    BY <1>7 DEF Respond
  <2>2. Unsent'
    <3>1. NoneQueued'
      BY <1>1, <1>3, <2>1, QuietTurn
    <3> QED BY <3>1, NetNext DEF Net, Unsent
  <2>3. last_response'.says = says
    BY <2>1, Answers
  <2>4. IsReply(last_response)'
    BY <1>7, <2>3 DEF IsReply
  <2> QED BY <2>1, <2>2, <2>4, PlaceNext DEF Place
<1>8. ASSUME NEW k, rx' = Append(rx, k), k.kind # "CmdResponse"
      PROVE  Unsent'
  <2>1. Carried' = {k}
    BY <1>1, <1>3, <1>8, BusyTurn, NetNext DEF Net
  <2> QED BY <1>8, <2>1 DEF Unsent
<1>9. ASSUME NEW kind \in {"CreateWorker", "DestroyWorker"}, AskMeta(kind), given' = given
      PROVE  ContractStep
  <2>k. PICK k : k = Message(Meta, kind, line.id, NoReply)
    OBVIOUS
  <2>1. k.kind = kind
    BY <2>k, Fields
  <2>2. meta = TRUE
    BY <1>0, <1>3
  <2>3. rx' = Append(rx, k) /\ last_response' = last_response
    BY <1>9, <2>k, <2>2 DEF AskMeta
  <2>4. Unsent' /\ ~ IsReply(last_response)'
    BY <1>3, <1>8, <2>1, <2>3, Answers DEF IsReply
  <2>5. Pending' = NoReply
    BY <1>5, <2>4, PlaceNext DEF Place
  <2> QED BY <1>1, <1>5, <1>9, <2>5, Stutters
<1>10. ASSUME Contract!Send \/ Contract!Tell
       PROVE  ContractStep
  <2>1. Contract!Effect
    BY <1>1, <1>3, <1>5, <1>10 DEF Contract!Effect, NoReply, NoLine
  <2> QED BY <2>1 DEF ContractStep, Contract!Next
<1>11. ASSUME given' = given, NextWorker' = NextWorker,
              \/ line.op \in {"help", "unknown"} /\ Respond(line.op, Names({}))
              \/ /\ line.op \in {"spawn", "stop", "send"} /\ line.arg = "none"
                 /\ Respond("usage", Names({}))
              \/ line.op \in {"stop", "send"} /\ line.arg = "bad" /\ Respond("invalid", Names({}))
              \/ line.op = "list" /\ Respond("list", Names(registry))
       PROVE  ContractStep
  <2>1. Contract!Tell
    BY <1>1, <1>7, <1>11 DEF Contract!Tell, Contract!Answer, Names, NextWorker
  <2> QED BY <1>10, <2>1
<1>12. NextWorker' = NextWorker
  BY <1>1 DEF NextWorker
<1>13. CASE ExecOther /\ given' = given
  BY <1>11, <1>12, <1>13 DEF ExecOther
<1>14. CASE ExecSpawn /\ given' = given
  <2>1. line.op = "spawn" /\ line.arg \in {"none", "good"}
    BY <1>3, <1>14, LineArgs DEF ExecSpawn
  <2> QED BY <1>9, <1>11, <1>12, <1>14, <2>1 DEF ExecSpawn
<1>15. CASE ExecStop /\ given' = given
  <2>1. line.op = "stop" /\ line.arg \in {"none", "bad", "good"}
    BY <1>3, <1>15, LineArgs DEF ExecStop
  <2> QED BY <1>9, <1>11, <1>12, <1>15, <2>1 DEF ExecStop
<1>16. CASE ExecStatus /\ given' = given
  <2>1. CASE line.op = "status" /\ Respond("status", [i \in registry |-> info[i]])
    <3>1. [i \in registry |-> info[i]] = Contract!Report(registry)
      BY <1>6 DEF Contract!Report
    <3>2. Pending' = Contract!Reply("status", lines, Contract!Report(registry))
      BY <1>7, <2>1, <3>1
    <3>3. Contract!Tell
      BY <1>1, <1>12, <1>16, <2>1, <3>2 DEF Contract!Tell, Contract!Answer, NextWorker
    <3> QED BY <1>10, <3>3
  <2>2. CASE line.op = "list" /\ Respond("list", Names(registry))
    BY <1>11, <1>12, <1>16, <2>2
  <2> QED BY <1>16, <2>1, <2>2 DEF ExecStatus
<1>17. CASE ExecSend
  <2>0. line.op = "send" /\ line.arg \in {"none", "bad", "good"}
    BY <1>3, <1>17, LineArgs DEF ExecSend
  <2>i. PICK i : i = line.id
    OBVIOUS
  <2>1. CASE line.arg = "good" /\ i \in registry
    <3>1. SendTo(i)
      BY <1>17, <2>i, <2>1 DEF ExecSend
    <3>k. PICK k : k = Message(i, "WorkerMessage", i, NoReply)
      OBVIOUS
    <3>2. k.kind # "CmdResponse"
      BY <3>k, Fields
    <3>3. /\ rx' = Append(rx, k) /\ last_response' = Contract!Reply("sent", lines, Names({i}))
          /\ given' = [given EXCEPT ![i] = Append(@, lines)]
      BY <3>1, <3>k DEF SendTo
    <3>4. Unsent'
      BY <1>8, <3>2, <3>3
    <3>5. last_response'.says = "sent"
      BY <3>3, Answers
    <3>6. IsReply(last_response)'
      BY <3>5 DEF IsReply
    <3>7. Pending' = Contract!Reply("sent", lines, Names({i}))
      BY <3>3, <3>4, <3>6, PlaceNext DEF Place
    <3>8. Contract!Send
      BY <1>1, <1>12, <2>0, <2>1, <2>i, <3>3, <3>7
         DEF Contract!Send, Contract!Answer, Names, NextWorker
    <3> QED BY <1>10, <3>8
  <2>2. CASE line.arg = "good" /\ i \notin registry
    <3>1. Respond("not found", Names({i})) /\ given' = given
      BY <1>17, <2>i, <2>2 DEF ExecSend
    <3>2. Pending' = Contract!Reply("not found", lines, Names({i}))
      BY <1>7, <3>1
    <3>3. Contract!Send
      BY <1>1, <1>12, <2>0, <2>2, <2>i, <3>1, <3>2
         DEF Contract!Send, Contract!Answer, Names, NextWorker
    <3> QED BY <1>10, <3>3
  <2>3. CASE line.arg \in {"none", "bad"}
    <3>1. given' = given /\ IF line.arg = "bad" THEN Respond("invalid", Names({}))
                                                ELSE Respond("usage", Names({}))
      BY <1>17, <2>3 DEF ExecSend
    <3> QED BY <1>11, <1>12, <2>0, <2>3, <3>1
  <2> QED BY <2>0, <2>1, <2>2, <2>3
<1> QED BY <1>13, <1>14, <1>15, <1>16, <1>17 DEF HandleExec

LEMMA ContractSteps ==
    ASSUME CInv, [Next]_vars
    PROVE  ContractStep
<1>1. CASE MainStep \/ StdinStep \/ Typing
  BY <1>1, MainKeeps, StdinKeeps, TypingKeeps
<1>2. CASE WorkerStep
  BY <1>2, LoopKeeps, SlotKeeps, ExecAnswers, CreateSpawns, DestroyStops, WorkerKeeps
     DEF WorkerStep, Handle
<1>3. CASE UNCHANGED vars
  <2>1. UNCHANGED <<lines, line, registry, given, next_id, rx, sched, last_response, result>>
    BY <1>3 DEF vars, stdinVars, loopVars, actorVars, cmdVars
  <2>2. Pending' = Pending
    BY <2>1, PendingKept
  <2> QED BY <2>1, <2>2, Stutters
<1> QED BY <1>1, <1>2, <1>3 DEF Next, Finished

LEMMA ContractInit ==
    ASSUME Init
    PROVE  Contract!Init
<1>1. NoneQueued /\ ~ IsReply(last_response) /\ result.reply = NoReply
  BY Answers DEF Init, NoneQueued
<1>2. Unsent
  BY <1>1, NetHolds DEF Net, Unsent
<1>3. Pending = NoReply
  BY <1>1, <1>2, PlaceHolds DEF Place
<1>4. NextWorker = Cmd + 1
  BY DEF Init, NextWorker, Cmd
<1> QED BY <1>3, <1>4 DEF Init, Contract!Init, NextWorker, NoReply, NoLine

(* CommandActor, MetaActor, the workers and the polling thread together    *)
(* implement the console without actors: every line takes effect once, in  *)
(* the order of typing, the text printed for it is its own answer, and     *)
(* status and stop count every message given before, for any number of     *)
(* lines and workers.                                                      *)
THEOREM ConsoleKeepsContract == Spec => KeepsContract
<1>1. Init => Contract!Init
  BY ContractInit
<1>2. CInv /\ [Next]_vars => [Contract!Next]_(Contract!vars)
  BY ContractSteps DEF ContractStep
<1> QED BY <1>1, <1>2, ConsoleInvariant, PTL DEF Spec, KeepsContract, Contract!Spec
=============================================================================
