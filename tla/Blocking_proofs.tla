--------------------------- MODULE Blocking_proofs ---------------------------
(***************************************************************************)
(* Proofs for Blocking: whoever waits is owed an answer by one worker, and *)
(* workers that wait for each other do so for ever, for every number of    *)
(* workers, clients and actors and every placement of the actors.          *)
(*                                                                         *)
(* The argument follows requests.  A request is a message, or a spawn as a *)
(* message to nobody; Accounted says that the requests under way belong,   *)
(* one each, to the threads that wait.  Every step posts one, moves one or *)
(* answers some (lemmas Posted, Moved and Answered).                       *)
(***************************************************************************)
EXTENDS Blocking, Scheduler_proofs

Request == [to : Actor \cup {0}, from : Thread]
Place == {"rx", "box", "hand", "control"}

(* Request m is in place p of worker w. *)
At(w, p, m) ==
    \/ p = "rx" /\ m \in Range(rx[w])
    \/ p = "box" /\ m \in Range(Mailbox(sched[w], m.to))
    \/ p = "hand" /\ m = env[w] /\ m # None
    \/ p = "control" /\ m.to = 0 /\ m.from \in Range(control[w])

(* Nothing but x is in the queue twice. *)
Once(q, x) == \A i, j \in DOMAIN q : q[i] = q[j] /\ q[i] # x => i = j

(* Schedulers are well formed, and mailboxes hold their actors' messages.  *)
SchedOK ==
    /\ DOMAIN sched = Worker
    /\ \A w \in Worker :
          /\ BoxesOK(sched[w], Actor, Message)
          /\ QueueOK(sched[w], Actor, env[w].to)
          /\ \A b \in Actor :
                /\ Once(Mailbox(sched[w], b), None)
                /\ \A m \in Range(Mailbox(sched[w], b)) : m.to = b

ChannelsOK == \A w \in Worker : Once(rx[w], None) /\ Once(control[w], Shutdown)

(* A worker waits only inside the calls that block. *)
WaitsInCall == \A w \in Worker : wpc[w] \notin {"sending", "spawning"} => wait[w] = "no"

(* Requests under way and threads that wait belong together, one to one.   *)
OnePlace ==
    \A w, v \in Worker, p, q \in Place, m, n \in Request :
        At(w, p, m) /\ At(v, q, n) /\ m.from = n.from => w = v /\ p = q /\ m = n
OwedWaits ==
    \A w \in Worker, p \in Place, m \in Request :
        At(w, p, m) => Waiting(m.from) /\ wpc[w] # "exited"
WaitsOwed ==
    \A t \in Thread : Waiting(t) =>
        \E w \in Worker, p \in Place, m \in Request : At(w, p, m) /\ m.from = t
Accounted == OnePlace /\ OwedWaits /\ WaitsOwed

BInv == TypeOK /\ SchedOK /\ ChannelsOK /\ WaitsInCall /\ Accounted
-----------------------------------------------------------------------------
(* Constants. *)

LEMMA RequestFacts ==
    /\ Shutdown \notin Thread /\ Shutdown \notin Worker /\ Worker \subseteq Thread
    /\ Worker \cap Client = {}
    /\ 0 \notin Actor /\ None \notin Message /\ None.to = 0
    /\ \A m \in Message : m \in Request /\ m.to \in Actor /\ m.to # 0 /\ m.from \in Thread
    /\ \A m \in Request : m.from \in Thread /\ (m.to = 0 \/ m \in Message)
    /\ \A t \in Thread : [to |-> 0, from |-> t] \in Request
<1>1. /\ Shutdown \notin Thread /\ Shutdown \notin Worker /\ Worker \subseteq Thread
      /\ Worker \cap Client = {}
  BY NAssumption, ClientAssumption DEF Shutdown, Thread, Worker
<1>2. 0 \notin Actor
  BY ActorAssumption
<1>3. None \notin Message /\ None.to = 0
  BY <1>2 DEF None, Message
<1>4. \A m \in Message : m \in Request /\ m.to \in Actor /\ m.to # 0 /\ m.from \in Thread
  BY <1>2 DEF Message, Request
<1>5. \A m \in Request : m.from \in Thread /\ (m.to = 0 \/ m \in Message)
  BY DEF Message, Request
<1> QED BY <1>1, <1>2, <1>3, <1>4, <1>5 DEF Request

(* Sequences in which nothing but x occurs twice. *)
LEMMA EmptyOnce == \A x : Once(<<>>, x) /\ Range(<<>>) = {}
BY DEF Once, Range

LEMMA TailOnce ==
    ASSUME NEW S, NEW q \in Seq(S), q # <<>>, NEW x, Once(q, x), Head(q) # x
    PROVE  /\ Head(q) \in Range(q) /\ Head(q) \in S /\ Tail(q) \in Seq(S)
           /\ Range(Tail(q)) = Range(q) \ {Head(q)}
           /\ Once(Tail(q), x)
<1>1. /\ Len(q) \in Nat /\ Len(q) >= 1 /\ DOMAIN q = 1 .. Len(q)
      /\ Head(q) = q[1] /\ Head(q) \in S /\ Tail(q) \in Seq(S) /\ DOMAIN Tail(q) = 1 .. Len(q) - 1
      /\ \A i \in 1 .. Len(q) - 1 : Tail(q)[i] = q[i + 1]
  <2>1. Len(q) \in Nat /\ Len(q) >= 1 /\ DOMAIN q = 1 .. Len(q)
    BY EmptySeq
  <2>2. /\ Head(q) = q[1] /\ Tail(q) \in Seq(S) /\ Len(Tail(q)) = Len(q) - 1
        /\ \A i \in 1 .. Len(Tail(q)) : Tail(q)[i] = q[i + 1]
    BY HeadTailProperties
  <2>3. q[1] \in S
    BY <2>1, ElementOfSeq
  <2> QED BY <2>1, <2>2, <2>3
<1>2. \A k \in 1 .. Len(q) : k # 1 => k - 1 \in 1 .. Len(q) - 1 /\ Tail(q)[k - 1] = q[k]
                                      /\ q[k] # q[1]
  <2> SUFFICES ASSUME NEW k \in 1 .. Len(q), k # 1
               PROVE  k - 1 \in 1 .. Len(q) - 1 /\ Tail(q)[k - 1] = q[k] /\ q[k] # q[1]
    OBVIOUS
  <2>1. k - 1 \in 1 .. Len(q) - 1 /\ (k - 1) + 1 = k /\ 1 \in 1 .. Len(q)
    BY <1>1
  <2> QED BY <1>1, <2>1 DEF Once
<1>3. Once(Tail(q), x)
  <2> SUFFICES ASSUME NEW i \in 1 .. Len(q) - 1, NEW j \in 1 .. Len(q) - 1,
                      q[i + 1] = q[j + 1], q[i + 1] # x
               PROVE  i = j
    BY <1>1 DEF Once
  <2>1. i + 1 \in DOMAIN q /\ j + 1 \in DOMAIN q
    BY <1>1
  <2>2. i + 1 = j + 1
    BY <2>1 DEF Once
  <2> QED BY <2>2
<1>4. ASSUME NEW e \in Range(Tail(q)) PROVE e \in Range(q) /\ e # Head(q)
  <2>1. PICK i \in 1 .. Len(q) - 1 : Tail(q)[i] = e
    BY <1>1 DEF Range
  <2>2. i + 1 \in 1 .. Len(q) /\ i + 1 # 1 /\ q[i + 1] = e
    BY <1>1, <2>1
  <2> QED BY <1>1, <1>2, <2>2 DEF Range
<1>5. ASSUME NEW e \in Range(q), e # Head(q) PROVE e \in Range(Tail(q))
  <2>1. PICK k \in 1 .. Len(q) : q[k] = e
    BY <1>1 DEF Range
  <2>2. k - 1 \in 1 .. Len(q) - 1 /\ Tail(q)[k - 1] = e
    BY <1>1, <1>2, <1>5, <2>1
  <2> QED BY <1>1, <2>2 DEF Range
<1>6. Head(q) \in Range(q)
  BY <1>1 DEF Range
<1> QED BY <1>1, <1>3, <1>4, <1>5, <1>6

LEMMA AppendOnce ==
    ASSUME NEW S, NEW q \in Seq(S), NEW e \in S, NEW x, Once(q, x), e = x \/ e \notin Range(q)
    PROVE  /\ Append(q, e) \in Seq(S) /\ Range(Append(q, e)) = Range(q) \cup {e}
           /\ Once(Append(q, e), x)
<1>1. /\ Append(q, e) \in Seq(S) /\ DOMAIN Append(q, e) = 1 .. Len(q) + 1
      /\ Len(q) \in Nat /\ DOMAIN q = 1 .. Len(q)
      /\ Append(q, e)[Len(q) + 1] = e
      /\ \A i \in 1 .. Len(q) : Append(q, e)[i] = q[i]
  OBVIOUS
<1>2. e # x => \A i \in 1 .. Len(q) : q[i] # e
  BY <1>1 DEF Range
<1>3. Once(Append(q, e), x)
  BY <1>1, <1>2 DEF Once
<1> QED BY <1>1, <1>3, AppendRange
-----------------------------------------------------------------------------
(* The three kinds of steps, seen from the requests. *)

(* A thread that does not wait posts a request and waits. *)
LEMMA Posted ==
    ASSUME Accounted, NEW w0 \in Worker, NEW p0 \in Place, NEW m0 \in Request,
           ~ Waiting(m0.from), wpc'[w0] # "exited",
           \A w \in Worker : wpc'[w] = "exited" => wpc[w] = "exited",
           \A t \in Thread : Waiting(t)' <=> Waiting(t) \/ t = m0.from,
           \A w \in Worker, p \in Place, m \in Request :
               At(w, p, m)' <=> At(w, p, m) \/ (w = w0 /\ p = p0 /\ m = m0)
    PROVE  Accounted'
<1>1. \A m \in Request : m.from \in Thread
  BY RequestFacts
<1>2. OnePlace'
  BY <1>1 DEF Accounted, OnePlace, OwedWaits
<1>3. OwedWaits'
  BY <1>1 DEF Accounted, OwedWaits
<1>4. WaitsOwed'
  BY <1>1 DEF Accounted, WaitsOwed
<1> QED BY <1>2, <1>3, <1>4 DEF Accounted

(* A request goes on to another place. *)
LEMMA Moved ==
    ASSUME Accounted, NEW w0 \in Worker, NEW p0 \in Place, NEW m0 \in Request,
           NEW w1 \in Worker, NEW p1 \in Place,
           At(w0, p0, m0), wpc'[w1] # "exited",
           \A w \in Worker : wpc'[w] = "exited" => wpc[w] = "exited",
           \A t \in Thread : Waiting(t)' <=> Waiting(t),
           \A w \in Worker, p \in Place, m \in Request :
               At(w, p, m)' <=> IF m = m0 THEN w = w1 /\ p = p1 ELSE At(w, p, m)
    PROVE  Accounted'
<1>1. \A m \in Request : m.from \in Thread
  BY RequestFacts
<1>2. OnePlace'
  BY <1>1 DEF Accounted, OnePlace
<1>3. OwedWaits'
  BY <1>1 DEF Accounted, OwedWaits
<1>4. WaitsOwed'
  BY <1>1 DEF Accounted, WaitsOwed
<1> QED BY <1>2, <1>3, <1>4 DEF Accounted

(* The threads of D are answered, their requests are gone. *)
LEMMA Answered ==
    ASSUME Accounted, NEW D,
           \A w \in Worker, p \in Place, m \in Request :
               /\ At(w, p, m)' <=> At(w, p, m) /\ m.from \notin D
               /\ At(w, p, m)' => wpc'[w] # "exited",
           \A t \in Thread : Waiting(t)' <=> Waiting(t) /\ t \notin D
    PROVE  Accounted'
<1>1. \A m \in Request : m.from \in Thread
  BY RequestFacts
<1>2. OnePlace'
  BY <1>1 DEF Accounted, OnePlace
<1>3. OwedWaits'
  BY <1>1 DEF Accounted, OwedWaits
<1>4. WaitsOwed'
  BY <1>1 DEF Accounted, WaitsOwed
<1> QED BY <1>2, <1>3, <1>4 DEF Accounted

(* No request and no waiting thread is concerned. *)
LEMMA Unmoved ==
    ASSUME Accounted,
           \A w \in Worker, p \in Place, m \in Request : At(w, p, m)' <=> At(w, p, m),
           \A w \in Worker : wpc'[w] = "exited" => wpc[w] = "exited",
           \A t \in Thread : Waiting(t)' <=> Waiting(t)
    PROVE  Accounted'
<1> PICK D : D = {}
  OBVIOUS
<1>1. \A w \in Worker, p \in Place, m \in Request :
          /\ At(w, p, m)' <=> At(w, p, m) /\ m.from \notin D
          /\ At(w, p, m)' => wpc'[w] # "exited"
  BY DEF Accounted, OwedWaits
<1>2. \A t \in Thread : Waiting(t)' <=> Waiting(t) /\ t \notin D
  OBVIOUS
<1> QED BY <1>1, <1>2, Answered
-----------------------------------------------------------------------------
Answer == {"no", "send", "spawn", "ok", "err"}

LEMMA TellFacts ==
    ASSUME NEW S, NEW what \in Answer, wait \in [Thread -> Answer], Tell(S, what)
    PROVE  /\ wait' \in [Thread -> Answer]
           /\ \A t \in Thread : wait'[t] = IF t \in S THEN what ELSE wait[t]
           /\ what \in {"send", "spawn"} =>
                  \A t \in Thread : Waiting(t)' <=> Waiting(t) \/ t \in S
           /\ what \notin {"send", "spawn"} =>
                  \A t \in Thread : Waiting(t)' <=> Waiting(t) /\ t \notin S
<1>1. wait' \in [Thread -> Answer] /\ \A t \in Thread : wait'[t] = IF t \in S THEN what ELSE wait[t]
  BY DEF Tell
<1> QED BY <1>1 DEF Waiting

(* What the invariant says about one worker. *)
LEMMA WorkerFacts ==
    ASSUME BInv, NEW w \in Worker
    PROVE  /\ rx[w] \in Seq(Message) /\ Range(rx[w]) \subseteq Message /\ Once(rx[w], None)
           /\ control[w] \in Seq(Worker \cup {Shutdown})
           /\ Range(control[w]) \subseteq Worker \cup {Shutdown} /\ Once(control[w], Shutdown)
           /\ BoxesOK(sched[w], Actor, Message) /\ QueueOK(sched[w], Actor, env[w].to)
           /\ \A b : Range(Mailbox(sched[w], b)) \subseteq Message
           /\ env[w] # None => env[w] \in Message
           /\ env[w] # None <=> wpc[w] \notin {"control", "drain", "exited"}
<1>1. rx[w] \in Seq(Message) /\ control[w] \in Seq(Worker \cup {Shutdown})
  BY DEF BInv, TypeOK
<1>2. Range(rx[w]) \subseteq Message /\ Range(control[w]) \subseteq Worker \cup {Shutdown}
  BY <1>1, RangeOfSeq
<1>3. \A b : Mailbox(sched[w], b) \in Seq(Message)
  <2>1. BoxesOK(sched[w], Actor, Message)
    BY DEF BInv, SchedOK
  <2> QED BY <2>1, MailboxFacts
<1>4. \A b : Range(Mailbox(sched[w], b)) \subseteq Message
  BY <1>3, RangeOfSeq
<1>5. /\ env[w] # None => env[w] \in Message
      /\ env[w] # None <=> wpc[w] \notin {"control", "drain", "exited"}
  BY RequestFacts DEF BInv, TypeOK
<1> QED BY <1>1, <1>2, <1>4, <1>5 DEF BInv, SchedOK, ChannelsOK

LEMMA InitBInv == Init => BInv
<1> SUFFICES ASSUME Init PROVE BInv
  OBVIOUS
<1>1. TypeOK
  <2>1. signalled \in 0 .. N
    BY NAssumption DEF Init
  <2>2. \A w \in Worker : env[w] = None /\ wpc[w] = "control"
    BY DEF Init
  <2> QED BY <2>1, <2>2 DEF Init, TypeOK
<1>2. SchedOK
  <2> SUFFICES ASSUME NEW w \in Worker
               PROVE  /\ BoxesOK(sched[w], Actor, Message)
                      /\ QueueOK(sched[w], Actor, env[w].to)
                      /\ \A b \in Actor :
                            /\ Once(Mailbox(sched[w], b), None)
                            /\ \A m \in Range(Mailbox(sched[w], b)) : m.to = b
    BY DEF Init, SchedOK
  <2>1. sched[w] = New
    BY DEF Init
  <2>2. \A b : Mailbox(sched[w], b) = <<>>
    BY <2>1, NewFacts
  <2>3. BoxesOK(sched[w], Actor, Message) /\ QueueOK(sched[w], Actor, env[w].to)
    BY <2>1, NewFacts
  <2> QED BY <2>2, <2>3, EmptyOnce
<1>3. ChannelsOK
  BY EmptyOnce DEF Init, ChannelsOK
<1>4. WaitsInCall
  BY RequestFacts DEF Init, WaitsInCall
<1>5. Accounted
  <2>1. \A w \in Worker, p \in Place, m \in Request : ~ At(w, p, m)
    <3> SUFFICES ASSUME NEW w \in Worker, NEW p \in Place, NEW m \in Request PROVE ~ At(w, p, m)
      OBVIOUS
    <3>1. rx[w] = <<>> /\ control[w] = <<>> /\ env[w] = None /\ sched[w] = New
      BY DEF Init
    <3>2. Mailbox(sched[w], m.to) = <<>>
      BY <3>1, NewFacts
    <3> QED BY <3>1, <3>2, EmptyOnce DEF At
  <2>2. \A t \in Thread : ~ Waiting(t)
    BY DEF Init, Waiting
  <2> QED BY <2>1, <2>2 DEF Accounted, OnePlace, OwedWaits, WaitsOwed
<1> QED BY <1>1, <1>2, <1>3, <1>4, <1>5 DEF BInv
-----------------------------------------------------------------------------
(* Addr::send, by a client or in a handler. *)
LEMMA SendKeeps ==
    ASSUME BInv, NEW t \in Thread, NEW a \in Actor, Send(t, a), wait[t] = "no",
           \A w \in Worker : wpc'[w] = "exited" <=> wpc[w] = "exited",
           UNCHANGED <<home, control, sched, env>>
    PROVE  /\ rx' \in [Worker -> Seq(Message)] /\ wait' \in [Thread -> Answer]
           /\ \A u \in Thread : u # t => wait'[u] = wait[u]
           /\ ChannelsOK' /\ Accounted'
<1> DEFINE h == home[a]
           m0 == [to |-> a, from |-> t]
<1>1. h \in Worker /\ m0 \in Message /\ m0 \in Request /\ m0.from = t /\ wait \in [Thread -> Answer]
  BY RequestFacts DEF BInv, TypeOK, Message, Answer
<1>2. ~ Waiting(t) /\ Accounted
  BY DEF Waiting, BInv
<1>3. CASE wpc[h] = "exited"
  <2>1. Tell({t}, "err") /\ UNCHANGED rx
    BY <1>3 DEF Send
  <2>2. /\ wait' \in [Thread -> Answer]
        /\ \A u \in Thread : wait'[u] = IF u \in {t} THEN "err" ELSE wait[u]
        /\ \A u \in Thread : Waiting(u)' <=> Waiting(u) /\ u \notin {t}
    <3>1. "err" \in Answer /\ "err" \notin {"send", "spawn"}
      BY DEF Answer
    <3> QED BY <1>1, <2>1, <3>1, TellFacts
  <2>3. \A w \in Worker, p \in Place, m \in Request : At(w, p, m)' <=> At(w, p, m)
    BY <2>1 DEF At
  <2>4. \A u \in Thread : Waiting(u)' <=> Waiting(u)
    BY <1>2, <2>2
  <2>5. Accounted'
    BY <1>2, <2>3, <2>4, Unmoved
  <2>6. ChannelsOK' /\ rx' \in [Worker -> Seq(Message)]
    BY <2>1 DEF BInv, ChannelsOK, TypeOK
  <2> QED BY <2>2, <2>5, <2>6
<1>4. CASE wpc[h] # "exited"
  <2>1. rx' = [rx EXCEPT ![h] = Append(@, m0)] /\ Tell({t}, "send")
    BY <1>4 DEF Send
  <2> HIDE DEF h, m0
  <2>2. /\ wait' \in [Thread -> Answer]
        /\ \A u \in Thread : wait'[u] = IF u \in {t} THEN "send" ELSE wait[u]
        /\ \A u \in Thread : Waiting(u)' <=> Waiting(u) \/ u \in {t}
    <3>1. "send" \in Answer /\ "send" \in {"send", "spawn"}
      BY DEF Answer
    <3> QED BY <1>1, <2>1, <3>1, TellFacts
  <2>3. rx[h] \in Seq(Message) /\ Once(rx[h], None) /\ m0 \notin Range(rx[h])
    <3>1. rx[h] \in Seq(Message) /\ Once(rx[h], None)
      BY <1>1, WorkerFacts
    <3>2. ASSUME m0 \in Range(rx[h]) PROVE FALSE
      <4>1. At(h, "rx", m0) /\ "rx" \in Place
        BY <3>2 DEF At, Place
      <4> QED BY <1>1, <1>2, <4>1 DEF Accounted, OwedWaits
    <3> QED BY <3>1, <3>2
  <2>4. /\ Append(rx[h], m0) \in Seq(Message) /\ Range(Append(rx[h], m0)) = Range(rx[h]) \cup {m0}
        /\ Once(Append(rx[h], m0), None)
    BY <1>1, <2>3, AppendOnce
  <2>5. /\ rx' \in [Worker -> Seq(Message)]
        /\ rx'[h] = Append(rx[h], m0) /\ \A w \in Worker : w # h => rx'[w] = rx[w]
    BY <1>1, <2>1, <2>4 DEF BInv, TypeOK
  <2>6. ChannelsOK'
    BY <1>1, <2>4, <2>5 DEF BInv, ChannelsOK
  <2>7. \A w \in Worker, p \in Place, m \in Request :
            At(w, p, m)' <=> At(w, p, m) \/ (w = h /\ p = "rx" /\ m = m0)
    <3>1. \A w \in Worker : Range(rx'[w]) = IF w = h THEN Range(rx[w]) \cup {m0} ELSE Range(rx[w])
      BY <2>4, <2>5
    <3> SUFFICES ASSUME NEW w \in Worker, NEW p \in Place, NEW m \in Request
                 PROVE  At(w, p, m)' <=> At(w, p, m) \/ (w = h /\ p = "rx" /\ m = m0)
      OBVIOUS
    <3> QED BY <3>1 DEF At
  <2>8. Accounted'
    <3>1. "rx" \in Place
      BY DEF Place
    <3>2. \A u \in Thread : Waiting(u)' <=> Waiting(u) \/ u = m0.from
      BY <1>1, <2>2
    <3> QED BY <1>1, <1>2, <1>4, <2>7, <3>1, <3>2, Posted
  <2> QED BY <2>2, <2>5, <2>6, <2>8
<1> QED BY <1>3, <1>4

LEMMA ClientSendKeeps ==
    ASSUME BInv, NEW c \in Client, NEW a \in Actor, ClientSend(c, a)
    PROVE  BInv'
<1>1. /\ wait[c] = "no" /\ Send(c, a) /\ c \in Thread
      /\ UNCHANGED <<home, alive, control, sched, wpc, env, next_worker, signalled>>
  BY DEF ClientSend, Thread
<1>2. /\ rx' \in [Worker -> Seq(Message)] /\ wait' \in [Thread -> Answer]
      /\ \A u \in Thread : u # c => wait'[u] = wait[u]
      /\ ChannelsOK' /\ Accounted'
  BY <1>1, SendKeeps
<1>3. TypeOK'
  BY <1>1, <1>2 DEF BInv, TypeOK, Answer
<1>4. SchedOK'
  BY <1>1 DEF BInv, SchedOK
<1>5. WaitsInCall'
  BY <1>1, <1>2, RequestFacts DEF BInv, WaitsInCall
<1> QED BY <1>2, <1>3, <1>4, <1>5 DEF BInv

LEMMA HandlerSendKeeps ==
    ASSUME BInv, NEW w \in Worker, NEW a \in Actor, HandlerSend(w, a)
    PROVE  BInv'
<1>1. /\ wpc[w] = "handling" /\ Send(w, a) /\ wpc' = [wpc EXCEPT ![w] = "sending"]
      /\ UNCHANGED <<home, alive, control, sched, env, next_worker, signalled>>
  BY DEF HandlerSend, Goto
<1>2. /\ wpc'[w] = "sending" /\ \A v \in Worker : v # w => wpc'[v] = wpc[v]
      /\ wpc' \in [Worker -> {"control", "drain", "handling", "sending", "spawning",
                              "called", "exited"}]
  BY <1>1 DEF BInv, TypeOK
<1>3. w \in Thread /\ wait[w] = "no"
  BY <1>1, RequestFacts DEF BInv, WaitsInCall
<1>4. /\ rx' \in [Worker -> Seq(Message)] /\ wait' \in [Thread -> Answer]
      /\ \A u \in Thread : u # w => wait'[u] = wait[u]
      /\ ChannelsOK' /\ Accounted'
  <2>1. \A v \in Worker : wpc'[v] = "exited" <=> wpc[v] = "exited"
    BY <1>1, <1>2
  <2> QED BY <1>1, <1>3, <2>1, SendKeeps
<1>5. TypeOK'
  BY <1>1, <1>2, <1>4 DEF BInv, TypeOK, Answer
<1>6. SchedOK'
  BY <1>1 DEF BInv, SchedOK
<1>7. WaitsInCall'
  BY <1>2, <1>4, RequestFacts DEF BInv, WaitsInCall
<1> QED BY <1>4, <1>5, <1>6, <1>7 DEF BInv

LEMMA ClientReturnKeeps ==
    ASSUME BInv, NEW c \in Client, ClientReturn(c)
    PROVE  BInv'
<1>1. /\ wait[c] \in {"ok", "err"} /\ Tell({c}, "no") /\ c \in Thread
      /\ UNCHANGED <<home, alive, control, rx, sched, wpc, env, next_worker, signalled>>
  BY DEF ClientReturn, Thread
<1>2. /\ wait' \in [Thread -> Answer]
      /\ \A t \in Thread : wait'[t] = IF t \in {c} THEN "no" ELSE wait[t]
      /\ \A t \in Thread : Waiting(t)' <=> Waiting(t) /\ t \notin {c}
  <2>1. wait \in [Thread -> Answer] /\ "no" \in Answer /\ "no" \notin {"send", "spawn"}
    BY DEF BInv, TypeOK, Answer
  <2> QED BY <1>1, <2>1, TellFacts
<1>3. \A t \in Thread : Waiting(t)' <=> Waiting(t)
  BY <1>1, <1>2 DEF Waiting
<1>4. Accounted'
  <2>1. \A w \in Worker, p \in Place, m \in Request : At(w, p, m)' <=> At(w, p, m)
    BY <1>1 DEF At
  <2> QED BY <1>1, <1>3, <2>1, Unmoved DEF BInv
<1>5. TypeOK'
  BY <1>1, <1>2 DEF BInv, TypeOK, Answer
<1>6. SchedOK' /\ ChannelsOK'
  BY <1>1 DEF BInv, SchedOK, ChannelsOK
<1>7. WaitsInCall'
  BY <1>1, <1>2, RequestFacts DEF BInv, WaitsInCall
<1> QED BY <1>4, <1>5, <1>6, <1>7 DEF BInv

(* Shutdown is nobody's request. *)
LEMMA SignalWorkerKeeps ==
    ASSUME BInv, SignalWorker
    PROVE  BInv'
<1>0. signalled \in Worker /\ signalled' \in 0 .. N
  BY NAssumption DEF SignalWorker, BInv, TypeOK, Worker
<1>1. /\ control' = [control EXCEPT ![signalled] = Append(@, Shutdown)]
      /\ UNCHANGED <<home, alive, rx, sched, wpc, env, next_worker, wait>>
  BY DEF SignalWorker
<1>2. \A w \in Worker :
          /\ control'[w] \in Seq(Worker \cup {Shutdown})
          /\ Range(control'[w]) \cup {Shutdown} = Range(control[w]) \cup {Shutdown}
          /\ Once(control'[w], Shutdown)
  <2> SUFFICES ASSUME NEW w \in Worker
               PROVE  /\ control'[w] \in Seq(Worker \cup {Shutdown})
                      /\ Range(control'[w]) \cup {Shutdown} = Range(control[w]) \cup {Shutdown}
                      /\ Once(control'[w], Shutdown)
    OBVIOUS
  <2>1. control[w] \in Seq(Worker \cup {Shutdown}) /\ Once(control[w], Shutdown)
    BY WorkerFacts
  <2>2. Shutdown \in Worker \cup {Shutdown}
    OBVIOUS
  <2>3. CASE w = signalled
    <3>1. control'[w] = Append(control[w], Shutdown)
      BY <1>1, <2>3 DEF BInv, TypeOK
    <3> QED BY <2>1, <2>2, <3>1, AppendOnce
  <2>4. CASE w # signalled
    <3>1. control'[w] = control[w]
      BY <1>1, <2>4 DEF BInv, TypeOK
    <3> QED BY <2>1, <3>1
  <2> QED BY <2>3, <2>4
<1>3. \A w \in Worker, p \in Place, m \in Request : At(w, p, m)' <=> At(w, p, m)
  <2>1. \A m \in Request : m.from # Shutdown
    BY RequestFacts
  <2> SUFFICES ASSUME NEW w \in Worker, NEW p \in Place, NEW m \in Request
               PROVE  At(w, p, m)' <=> At(w, p, m)
    OBVIOUS
  <2> QED BY <1>1, <1>2, <2>1 DEF At
<1>4. Accounted'
  <2>1. \A t \in Thread : Waiting(t)' <=> Waiting(t)
    BY <1>1 DEF Waiting
  <2> QED BY <1>1, <1>3, <2>1, Unmoved DEF BInv
<1>5. TypeOK'
  <2>1. control' \in [Worker -> Seq(Worker \cup {Shutdown})]
    <3>1. control \in [Worker -> Seq(Worker \cup {Shutdown})]
      BY DEF BInv, TypeOK
    <3>2. Append(control[signalled], Shutdown) \in Seq(Worker \cup {Shutdown})
      BY <1>0, <3>1
    <3> QED BY <1>1, <3>1, <3>2
  <2> QED BY <1>0, <1>1, <2>1 DEF BInv, TypeOK
<1>6. SchedOK' /\ ChannelsOK'
  BY <1>1, <1>2 DEF BInv, SchedOK, ChannelsOK
<1>7. WaitsInCall'
  BY <1>1 DEF BInv, WaitsInCall
<1> QED BY <1>4, <1>5, <1>6, <1>7 DEF BInv
-----------------------------------------------------------------------------
(* The steps of a worker. *)

(* Who has a message in the channel or in a mailbox of worker w. *)
LEMMA SendersAre ==
    ASSUME BInv, NEW w \in Worker, NEW t
    PROVE  t \in Senders(Range(rx[w]) \cup Held(sched[w])) <=>
               \E m \in Request : (At(w, "rx", m) \/ At(w, "box", m)) /\ m.from = t
<1>1. \A m : m \in Held(sched[w]) <=> \E a \in Actor : m \in Range(Mailbox(sched[w], a))
  <2>1. BoxesOK(sched[w], Actor, Message)
    BY WorkerFacts
  <2> QED BY <2>1, HeldIs
<1>2. /\ Range(rx[w]) \subseteq Message /\ \A b : Range(Mailbox(sched[w], b)) \subseteq Message
      /\ \A m \in Message : m \in Request /\ m.to \in Actor
  BY WorkerFacts, RequestFacts
<1>3. \A a \in Actor : \A m \in Range(Mailbox(sched[w], a)) : m.to = a
  BY DEF BInv, SchedOK
<1>4. \A m : m \in Held(sched[w]) <=> m \in Request /\ At(w, "box", m)
  BY <1>1, <1>2, <1>3 DEF At
<1>5. \A m : m \in Range(rx[w]) <=> m \in Request /\ At(w, "rx", m)
  BY <1>2 DEF At
<1> QED BY <1>4, <1>5 DEF Senders

LEMMA RecvSpawnKeeps ==
    ASSUME BInv, NEW w \in Worker, RecvSpawn(w)
    PROVE  BInv'
<1> PICK x : x = Head(control[w])
  OBVIOUS
<1>1. /\ wpc[w] = "control" /\ control[w] # <<>> /\ x # Shutdown /\ Tell({x}, "ok")
      /\ control' = [control EXCEPT ![w] = Tail(@)]
      /\ UNCHANGED <<home, alive, rx, sched, wpc, env, next_worker, signalled>>
  BY DEF RecvSpawn
<1>2. /\ x \in Range(control[w]) /\ x \in Worker /\ Tail(control[w]) \in Seq(Worker \cup {Shutdown})
      /\ Range(Tail(control[w])) = Range(control[w]) \ {x} /\ Once(Tail(control[w]), Shutdown)
  <2>1. control[w] \in Seq(Worker \cup {Shutdown}) /\ Once(control[w], Shutdown)
    BY WorkerFacts
  <2>2. /\ Head(control[w]) \in Range(control[w]) /\ Head(control[w]) \in Worker \cup {Shutdown}
        /\ Tail(control[w]) \in Seq(Worker \cup {Shutdown})
        /\ Range(Tail(control[w])) = Range(control[w]) \ {Head(control[w])}
        /\ Once(Tail(control[w]), Shutdown)
    BY <1>1, <2>1, TailOnce
  <2> QED BY <1>1, <2>2
<1>3. /\ control' \in [Worker -> Seq(Worker \cup {Shutdown})]
      /\ control'[w] = Tail(control[w]) /\ \A v \in Worker : v # w => control'[v] = control[v]
  BY <1>1, <1>2 DEF BInv, TypeOK
<1>4. /\ wait' \in [Thread -> Answer]
      /\ \A t \in Thread : wait'[t] = IF t \in {x} THEN "ok" ELSE wait[t]
      /\ \A t \in Thread : Waiting(t)' <=> Waiting(t) /\ t \notin {x}
  <2>1. wait \in [Thread -> Answer] /\ "ok" \in Answer /\ "ok" \notin {"send", "spawn"}
    BY DEF BInv, TypeOK, Answer
  <2> QED BY <1>1, <2>1, TellFacts
<1> PICK m0 : m0 = [to |-> 0, from |-> x]
  OBVIOUS
<1>5. m0 \in Request /\ m0.from = x /\ m0.to = 0 /\ At(w, "control", m0) /\ "control" \in Place
  BY <1>2, RequestFacts DEF At, Place, Request
<1>6. \A v \in Worker, p \in Place, m \in Request :
          At(v, p, m) /\ m.from = x => v = w /\ p = "control" /\ m = m0
  BY <1>5 DEF BInv, Accounted, OnePlace
<1>7. \A v \in Worker, p \in Place, m \in Request : At(v, p, m)' <=> At(v, p, m) /\ m.from \notin {x}
  <2>1. \A v \in Worker : \A t : t \in Range(control'[v]) <=> t \in Range(control[v]) /\ (v # w \/ t # x)
    BY <1>2, <1>3
  <2>2. UNCHANGED <<rx, sched, env>>
    BY <1>1
  <2> SUFFICES ASSUME NEW v \in Worker, NEW p \in Place, NEW m \in Request
               PROVE  At(v, p, m)' <=> At(v, p, m) /\ m.from # x
    OBVIOUS
  <2>3. At(v, p, m)' <=> At(v, p, m) /\ (v # w \/ p # "control" \/ m.from # x)
    BY <2>1, <2>2 DEF At
  <2> QED BY <1>6, <2>3
<1>8. Accounted'
  <2>1. \A v \in Worker, p \in Place, m \in Request :
            /\ At(v, p, m)' <=> At(v, p, m) /\ m.from \notin {x}
            /\ At(v, p, m)' => wpc'[v] # "exited"
    BY <1>1, <1>7 DEF BInv, Accounted, OwedWaits
  <2> QED BY <1>4, <2>1, Answered DEF BInv
<1>9. TypeOK'
  BY <1>1, <1>3, <1>4 DEF BInv, TypeOK, Answer
<1>10. SchedOK' /\ ChannelsOK'
  BY <1>1, <1>2, <1>3 DEF BInv, SchedOK, ChannelsOK
<1>11. WaitsInCall'
  <2>1. Waiting(x)
    BY <1>5 DEF BInv, Accounted, OwedWaits
  <2>2. wpc[x] \in {"sending", "spawning"}
    BY <1>2, <2>1 DEF BInv, WaitsInCall, Waiting
  <2> QED BY <1>1, <1>4, <2>2, RequestFacts DEF BInv, WaitsInCall
<1> QED BY <1>8, <1>9, <1>10, <1>11 DEF BInv

(* The worker ends: whoever has a request with it gets an error. *)
LEMMA RecvShutdownKeeps ==
    ASSUME BInv, NEW w \in Worker, RecvShutdown(w)
    PROVE  BInv'
<1> PICK D : D = Dropped(w)
  OBVIOUS
<1>1. /\ wpc[w] = "control" /\ Tell(D, "err")
      /\ control' = [control EXCEPT ![w] = <<>>] /\ rx' = [rx EXCEPT ![w] = <<>>]
      /\ sched' = [sched EXCEPT ![w] = New] /\ wpc' = [wpc EXCEPT ![w] = "exited"]
      /\ UNCHANGED <<home, alive, env, next_worker, signalled>>
  BY DEF RecvShutdown, AtControl, Goto
<1>2. /\ control' \in [Worker -> Seq(Worker \cup {Shutdown})] /\ control'[w] = <<>>
      /\ rx' \in [Worker -> Seq(Message)] /\ rx'[w] = <<>>
      /\ wpc' \in [Worker -> {"control", "drain", "handling", "sending", "spawning",
                              "called", "exited"}]
      /\ wpc'[w] = "exited" /\ env[w] = None
  BY <1>1, RequestFacts DEF BInv, TypeOK
<1>3. DOMAIN sched' = Worker /\ sched'[w] = New
  BY <1>1 DEF BInv, SchedOK
<1>4. \A v \in Worker : v # w => /\ control'[v] = control[v] /\ rx'[v] = rx[v]
                                 /\ sched'[v] = sched[v] /\ wpc'[v] = wpc[v]
  BY <1>1 DEF BInv, TypeOK, SchedOK
<1>5. /\ wait' \in [Thread -> Answer]
      /\ \A t \in Thread : wait'[t] = IF t \in D THEN "err" ELSE wait[t]
      /\ \A t \in Thread : Waiting(t)' <=> Waiting(t) /\ t \notin D
  <2>1. wait \in [Thread -> Answer] /\ "err" \in Answer /\ "err" \notin {"send", "spawn"}
    BY DEF BInv, TypeOK, Answer
  <2> QED BY <1>1, <2>1, TellFacts
<1>6. \A t : t \in D <=> \E p \in Place, m \in Request : At(w, p, m) /\ m.from = t
  <2> SUFFICES ASSUME NEW t
               PROVE  t \in D <=> \E p \in Place, m \in Request : At(w, p, m) /\ m.from = t
    OBVIOUS
  <2>1. t \in Senders(Range(rx[w]) \cup Held(sched[w])) <=>
            \E m \in Request : (At(w, "rx", m) \/ At(w, "box", m)) /\ m.from = t
    BY SendersAre
  <2>2. t \in Range(control[w]) \ {Shutdown} <=> \E m \in Request : At(w, "control", m) /\ m.from = t
    <3>1. ASSUME t \in Range(control[w]) \ {Shutdown}
          PROVE  \E m \in Request : At(w, "control", m) /\ m.from = t
      <4>1. t \in Thread
        BY <3>1, WorkerFacts, RequestFacts
      <4> PICK m : m = [to |-> 0, from |-> t]
        OBVIOUS
      <4>2. m \in Request /\ m.to = 0 /\ m.from = t
        BY <4>1, RequestFacts
      <4> QED BY <3>1, <4>2 DEF At
    <3>2. \A m \in Request : m.from # Shutdown
      BY RequestFacts
    <3> QED BY <3>1, <3>2 DEF At
  <2>3. \A m : ~ At(w, "hand", m)
    BY <1>2 DEF At
  <2> QED BY <2>1, <2>2, <2>3 DEF Dropped, Place
<1>7. \A v \in Worker, p \in Place, m \in Request : At(v, p, m)' <=> At(v, p, m) /\ m.from \notin D
  <2>1. \A p \in Place, m \in Request : ~ At(w, p, m)'
    <3>1. \A b : Mailbox(sched'[w], b) = <<>>
      BY <1>3, NewFacts
    <3>2. Range(<<>>) = {}
      BY EmptyOnce
    <3> QED BY <1>1, <1>2, <3>1, <3>2 DEF At
  <2>2. \A v \in Worker, p \in Place, m \in Request : v # w => (At(v, p, m)' <=> At(v, p, m))
    BY <1>1, <1>4 DEF At
  <2>3. \A v \in Worker, p \in Place, m \in Request : v # w /\ At(v, p, m) => m.from \notin D
    BY <1>6 DEF BInv, Accounted, OnePlace
  <2> QED BY <1>6, <2>1, <2>2, <2>3
<1>8. Accounted'
  <2>1. \A v \in Worker, p \in Place, m \in Request : At(v, p, m)' => wpc'[v] # "exited"
    <3>1. \A v \in Worker, p \in Place, m \in Request : At(v, p, m)' => v # w /\ At(v, p, m)
      BY <1>6, <1>7
    <3> QED BY <1>4, <3>1 DEF BInv, Accounted, OwedWaits
  <2> QED BY <1>5, <1>7, <2>1, Answered DEF BInv
<1>9. TypeOK'
  <2>1. \A v \in Worker : env'[v] = None <=> wpc'[v] \in {"control", "drain", "exited"}
    BY <1>1, <1>2, <1>4 DEF BInv, TypeOK
  <2> QED BY <1>1, <1>2, <1>5, <2>1 DEF BInv, TypeOK, Answer
<1>10. SchedOK'
  <2> SUFFICES ASSUME NEW v \in Worker
               PROVE  /\ BoxesOK(sched'[v], Actor, Message)
                      /\ QueueOK(sched'[v], Actor, env'[v].to)
                      /\ \A b \in Actor :
                            /\ Once(Mailbox(sched'[v], b), None)
                            /\ \A m \in Range(Mailbox(sched'[v], b)) : m.to = b
    BY <1>3 DEF SchedOK
  <2>1. CASE v = w
    <3>1. \A b : Mailbox(sched'[v], b) = <<>>
      BY <1>3, <2>1, NewFacts
    <3>2. BoxesOK(sched'[v], Actor, Message) /\ QueueOK(sched'[v], Actor, env'[v].to)
      BY <1>3, <2>1, NewFacts
    <3> QED BY <3>1, <3>2, EmptyOnce
  <2>2. CASE v # w
    BY <1>1, <1>4, <2>2 DEF BInv, SchedOK
  <2> QED BY <2>1, <2>2
<1>11. ChannelsOK'
  BY <1>2, <1>4, EmptyOnce DEF BInv, ChannelsOK
<1>12. WaitsInCall'
  <2>1. \A t \in D : Waiting(t)
    BY <1>6 DEF BInv, Accounted, OwedWaits
  <2>2. \A v \in Worker : v \in D => wpc[v] \in {"sending", "spawning"}
    BY <2>1 DEF BInv, WaitsInCall, Waiting
  <2> SUFFICES ASSUME NEW v \in Worker, wpc'[v] \notin {"sending", "spawning"}
               PROVE  wait'[v] = "no"
    BY DEF WaitsInCall
  <2>3. wpc[v] \notin {"sending", "spawning"}
    BY <1>1, <1>4
  <2> QED BY <1>5, <2>2, <2>3, RequestFacts DEF BInv, WaitsInCall
<1> QED BY <1>8, <1>9, <1>10, <1>11, <1>12 DEF BInv

(* Steps between the loops. *)
LEMMA LoopStepKeeps ==
    ASSUME BInv, NEW w \in Worker, ControlEmpty(w) \/ GoIdle(w)
    PROVE  BInv'
<1>1. PICK pc \in {"control", "drain"} :
          /\ wpc[w] \in {"control", "drain"} /\ wpc' = [wpc EXCEPT ![w] = pc]
          /\ UNCHANGED <<home, alive, control, rx, sched, env, next_worker, wait, signalled>>
  BY DEF ControlEmpty, GoIdle, Goto
<1>2. /\ wpc' \in [Worker -> {"control", "drain", "handling", "sending", "spawning",
                              "called", "exited"}]
      /\ wpc'[w] = pc /\ \A v \in Worker : v # w => wpc'[v] = wpc[v]
  BY <1>1 DEF BInv, TypeOK
<1>3. Accounted'
  <2>1. \A v \in Worker, p \in Place, m \in Request : At(v, p, m)' <=> At(v, p, m)
    BY <1>1 DEF At
  <2>2. \A t \in Thread : Waiting(t)' <=> Waiting(t)
    BY <1>1 DEF Waiting
  <2>3. \A v \in Worker : wpc'[v] = "exited" => wpc[v] = "exited"
    BY <1>2
  <2> QED BY <2>1, <2>2, <2>3, Unmoved DEF BInv
<1>4. TypeOK'
  BY <1>1, <1>2 DEF BInv, TypeOK
<1>5. SchedOK' /\ ChannelsOK'
  BY <1>1 DEF BInv, SchedOK, ChannelsOK
<1>6. WaitsInCall'
  BY <1>1, <1>2 DEF BInv, WaitsInCall
<1> QED BY <1>3, <1>4, <1>5, <1>6 DEF BInv

LEMMA TakeEnvelopeKeeps ==
    ASSUME BInv, NEW w \in Worker, TakeEnvelope(w)
    PROVE  BInv'
<1> PICK m0 : m0 = Head(rx[w])
  OBVIOUS
<1> PICK a : a = m0.to
  OBVIOUS
<1>1. /\ wpc[w] = "drain" /\ rx[w] # <<>>
      /\ sched' = [sched EXCEPT ![w] = Enqueue(@, a, m0)] /\ rx' = [rx EXCEPT ![w] = Tail(@)]
      /\ UNCHANGED <<home, alive, control, wpc, env, next_worker, wait, signalled>>
  BY DEF TakeEnvelope
<1>2. /\ m0 \in Range(rx[w]) /\ m0 \in Message /\ Tail(rx[w]) \in Seq(Message)
      /\ Range(Tail(rx[w])) = Range(rx[w]) \ {m0} /\ Once(Tail(rx[w]), None)
  <2>1. rx[w] \in Seq(Message) /\ Once(rx[w], None) /\ Range(rx[w]) \subseteq Message
    BY WorkerFacts
  <2>2. Head(rx[w]) # None
    <3>1. Head(rx[w]) \in Message
      BY <1>1, <2>1, HeadTailProperties
    <3> QED BY <3>1, RequestFacts
  <2>3. /\ Head(rx[w]) \in Range(rx[w]) /\ Head(rx[w]) \in Message
        /\ Tail(rx[w]) \in Seq(Message)
        /\ Range(Tail(rx[w])) = Range(rx[w]) \ {Head(rx[w])} /\ Once(Tail(rx[w]), None)
    BY <1>1, <2>1, <2>2, TailOnce
  <2> QED BY <2>3
<1>3. m0 \in Request /\ a \in Actor /\ m0.to = a
  BY <1>2, RequestFacts
<1>4. /\ rx' \in [Worker -> Seq(Message)] /\ rx'[w] = Tail(rx[w])
      /\ \A v \in Worker : v # w => rx'[v] = rx[v]
  BY <1>1, <1>2 DEF BInv, TypeOK
<1>5. /\ DOMAIN sched' = Worker /\ sched'[w] = Enqueue(sched[w], a, m0)
      /\ \A v \in Worker : v # w => sched'[v] = sched[v]
  BY <1>1 DEF BInv, SchedOK
<1>6. env[w] = None /\ env[w].to # a
  BY <1>1, <1>3, RequestFacts DEF BInv, TypeOK
<1>7. /\ BoxesOK(sched[w], Actor, Message) /\ QueueOK(sched[w], Actor, env[w].to)
      /\ Mailbox(sched[w], a) \in Seq(Message)
  BY WorkerFacts, MailboxFacts
<1>8. /\ BoxesOK(sched'[w], Actor, Message) /\ QueueOK(sched'[w], Actor, env[w].to)
      /\ OneBoxChanged(sched[w], sched'[w], a, Append(Mailbox(sched[w], a), m0))
  BY <1>2, <1>3, <1>5, <1>6, <1>7, EnqueueFacts
<1>9. At(w, "rx", m0) /\ "rx" \in Place /\ "box" \in Place
  BY <1>2 DEF At, Place
<1>10. \A v \in Worker, p \in Place : At(v, p, m0) => v = w /\ p = "rx"
  BY <1>3, <1>9 DEF BInv, Accounted, OnePlace
<1>11. m0 \notin Range(Mailbox(sched[w], a))
  <2>1. ~ At(w, "box", m0)
    BY <1>9, <1>10
  <2> QED BY <1>3, <2>1 DEF At
<1>12. /\ Range(Append(Mailbox(sched[w], a), m0)) = Range(Mailbox(sched[w], a)) \cup {m0}
       /\ Once(Append(Mailbox(sched[w], a), m0), None)
  <2>1. Once(Mailbox(sched[w], a), None)
    BY <1>3 DEF BInv, SchedOK
  <2> QED BY <1>2, <1>7, <1>11, <2>1, AppendOnce
<1>13. Accounted'
  <2>1. \A v \in Worker, p \in Place, m \in Request :
            At(v, p, m)' <=> IF m = m0 THEN v = w /\ p = "box" ELSE At(v, p, m)
    <3> SUFFICES ASSUME NEW v \in Worker, NEW p \in Place, NEW m \in Request
                 PROVE  At(v, p, m)' <=> IF m = m0 THEN v = w /\ p = "box" ELSE At(v, p, m)
      OBVIOUS
    <3>1. m \in Range(rx'[v]) <=> m \in Range(rx[v]) /\ (v # w \/ m # m0)
      BY <1>2, <1>4
    <3>2. \A b : m \in Range(Mailbox(sched'[v], b)) <=>
                     m \in Range(Mailbox(sched[v], b)) \/ (v = w /\ b = a /\ m = m0)
      <4>1. Range(Mailbox(sched'[w], a)) = Range(Mailbox(sched[w], a)) \cup {m0}
        BY <1>8, <1>12 DEF OneBoxChanged
      <4>2. \A b : b # a => Mailbox(sched'[w], b) = Mailbox(sched[w], b)
        BY <1>8 DEF OneBoxChanged
      <4>3. v # w => sched'[v] = sched[v]
        BY <1>5
      <4> QED BY <4>1, <4>2, <4>3
    <3>3. UNCHANGED <<control, env>>
      BY <1>1
    <3>4. At(v, p, m)' <=> \/ At(v, p, m) /\ (p # "rx" \/ v # w \/ m # m0)
                           \/ p = "box" /\ v = w /\ m = m0
      BY <1>3, <3>1, <3>2, <3>3 DEF At
    <3> QED BY <1>10, <3>4
  <2>2. \A t \in Thread : Waiting(t)' <=> Waiting(t)
    BY <1>1 DEF Waiting
  <2> QED BY <1>1, <1>3, <1>9, <2>1, <2>2, Moved DEF BInv
<1>14. TypeOK'
  BY <1>1, <1>4 DEF BInv, TypeOK
<1>15. ChannelsOK'
  BY <1>1, <1>2, <1>4 DEF BInv, ChannelsOK
<1>16. WaitsInCall'
  BY <1>1 DEF BInv, WaitsInCall
<1>17. SchedOK'
  <2> SUFFICES ASSUME NEW v \in Worker
               PROVE  /\ BoxesOK(sched'[v], Actor, Message)
                      /\ QueueOK(sched'[v], Actor, env'[v].to)
                      /\ \A b \in Actor :
                            /\ Once(Mailbox(sched'[v], b), None)
                            /\ \A m \in Range(Mailbox(sched'[v], b)) : m.to = b
    BY <1>5 DEF SchedOK
  <2>1. CASE v = w
    <3>1. \A b \in Actor : b # a => Mailbox(sched'[w], b) = Mailbox(sched[w], b)
      BY <1>8 DEF OneBoxChanged
    <3>2. /\ Once(Mailbox(sched'[w], a), None)
          /\ \A m \in Range(Mailbox(sched'[w], a)) : m.to = a
      BY <1>3, <1>8, <1>12 DEF OneBoxChanged, BInv, SchedOK
    <3> QED BY <1>1, <1>8, <2>1, <3>1, <3>2 DEF BInv, SchedOK
  <2>2. CASE v # w
    BY <1>1, <1>5, <2>2 DEF BInv, SchedOK
  <2> QED BY <2>1, <2>2
<1> QED BY <1>13, <1>14, <1>15, <1>16, <1>17 DEF BInv

(* The scheduler of one worker changes. *)
LEMMA SchedStep ==
    ASSUME BInv, NEW w \in Worker, NEW r, sched' = [sched EXCEPT ![w] = r],
           BoxesOK(r, Actor, Message), QueueOK(r, Actor, env'[w].to),
           \A v \in Worker : v # w => env'[v] = env[v],
           \A b \in Actor : /\ Once(Mailbox(r, b), None)
                            /\ \A m \in Range(Mailbox(r, b)) : m.to = b
    PROVE  SchedOK' /\ sched'[w] = r /\ \A v \in Worker : v # w => sched'[v] = sched[v]
<1>1. /\ DOMAIN sched' = Worker /\ sched'[w] = r
      /\ \A v \in Worker : v # w => sched'[v] = sched[v]
  BY DEF BInv, SchedOK
<1> SUFFICES ASSUME NEW v \in Worker
             PROVE  /\ BoxesOK(sched'[v], Actor, Message)
                    /\ QueueOK(sched'[v], Actor, env'[v].to)
                    /\ \A b \in Actor :
                          /\ Once(Mailbox(sched'[v], b), None)
                          /\ \A m \in Range(Mailbox(sched'[v], b)) : m.to = b
  BY <1>1 DEF SchedOK
<1>2. CASE v = w
  BY <1>1, <1>2
<1>3. CASE v # w
  BY <1>1, <1>3 DEF BInv, SchedOK
<1> QED BY <1>2, <1>3

LEMMA DispatchKeeps ==
    ASSUME BInv, NEW w \in Worker, Dispatch(w)
    PROVE  BInv'
<1> PICK s : s = sched[w]
  OBVIOUS
<1> PICK a : a = NextReady(s)
  OBVIOUS
<1> PICK m0 : m0 = Dequeued(s, a)
  OBVIOUS
<1> PICK t : t = Dequeue(AfterNextReady(s), a)
  OBVIOUS
<1>1. /\ wpc[w] = "drain" /\ SomeReady(s)
      /\ IF a \in alive
           THEN /\ sched' = [sched EXCEPT ![w] = t] /\ env' = [env EXCEPT ![w] = m0]
                /\ wpc' = [wpc EXCEPT ![w] = "handling"] /\ UNCHANGED wait
           ELSE /\ sched' = [sched EXCEPT ![w] = RequeueIfReady(t, a)]
                /\ wpc' = [wpc EXCEPT ![w] = "control"]
                /\ Tell({m0.from}, "err") /\ UNCHANGED env
      /\ UNCHANGED <<home, alive, control, rx, next_worker, signalled>>
  BY DEF Dispatch, Goto
<1>2. env[w] = None /\ env[w].to = 0 /\ 0 \notin Actor
  BY <1>1, RequestFacts DEF BInv, TypeOK
<1>3. /\ BoxesOK(s, Actor, Message) /\ QueueOK(s, Actor, 0)
      /\ \A b \in Actor : /\ Once(Mailbox(s, b), None)
                          /\ \A m \in Range(Mailbox(s, b)) : m.to = b
  BY <1>2 DEF BInv, SchedOK
<1>4. /\ a \in Actor /\ Mailbox(s, a) \in Seq(Message) /\ Mailbox(s, a) # <<>>
      /\ m0 = Head(Mailbox(s, a))
      /\ BoxesOK(t, Actor, Message) /\ OneBoxChanged(s, t, a, Tail(Mailbox(s, a)))
      /\ QueueOK(t, Actor, a)
  <2> PICK none : none = 0
    OBVIOUS
  <2>1. none \notin Actor /\ QueueOK(s, Actor, none)
    BY <1>2, <1>3
  <2> QED BY <1>1, <1>3, <2>1, TakeTurnFacts
<1>5. /\ m0 \in Range(Mailbox(s, a)) /\ m0 \in Message
      /\ Range(Tail(Mailbox(s, a))) = Range(Mailbox(s, a)) \ {m0}
      /\ Once(Tail(Mailbox(s, a)), None)
  <2>1. Head(Mailbox(s, a)) # None
    <3>1. Head(Mailbox(s, a)) \in Message
      BY <1>4, HeadTailProperties
    <3> QED BY <3>1, RequestFacts
  <2> QED BY <1>3, <1>4, <2>1, TailOnce
<1>6. m0 \in Request /\ m0.to = a /\ m0.from \in Thread
  BY <1>3, <1>4, <1>5, RequestFacts
<1>7. At(w, "box", m0) /\ "box" \in Place /\ "hand" \in Place
  BY <1>5, <1>6 DEF At, Place
<1>8. \A v \in Worker, p \in Place, m \in Request :
          At(v, p, m) /\ m.from = m0.from => v = w /\ p = "box" /\ m = m0
  BY <1>6, <1>7 DEF BInv, Accounted, OnePlace
<1>9. ASSUME NEW r, OneBoxChanged(s, r, a, Tail(Mailbox(s, a)))
      PROVE  /\ \A b \in Actor : /\ Once(Mailbox(r, b), None)
                                 /\ \A m \in Range(Mailbox(r, b)) : m.to = b
             /\ \A b, m : m \in Range(Mailbox(r, b)) <=>
                              m \in Range(Mailbox(s, b)) /\ (b # a \/ m # m0)
  <2>1. /\ Range(Mailbox(r, a)) = Range(Mailbox(s, a)) \ {m0} /\ Once(Mailbox(r, a), None)
        /\ \A b : b # a => Mailbox(r, b) = Mailbox(s, b)
    BY <1>5, <1>9 DEF OneBoxChanged
  <2>2. \A b \in Actor : /\ Once(Mailbox(r, b), None)
                         /\ \A m \in Range(Mailbox(r, b)) : m.to = b
    BY <1>3, <1>4, <2>1
  <2>3. \A b, m : m \in Range(Mailbox(r, b)) <=>
                      m \in Range(Mailbox(s, b)) /\ (b # a \/ m # m0)
    BY <2>1
  <2> QED BY <2>2, <2>3
<1>10. CASE a \in alive
  <2>1. /\ sched' = [sched EXCEPT ![w] = t] /\ env' = [env EXCEPT ![w] = m0]
        /\ wpc' = [wpc EXCEPT ![w] = "handling"] /\ UNCHANGED wait
    BY <1>1, <1>10
  <2>2. /\ wpc' \in [Worker -> {"control", "drain", "handling", "sending", "spawning",
                                "called", "exited"}]
        /\ wpc'[w] = "handling" /\ \A v \in Worker : v # w => wpc'[v] = wpc[v]
    BY <2>1 DEF BInv, TypeOK
  <2>3. /\ env' \in [Worker -> Message \cup {None}]
        /\ env'[w] = m0 /\ \A v \in Worker : v # w => env'[v] = env[v]
    BY <1>5, <2>1 DEF BInv, TypeOK
  <2>4. SchedOK' /\ sched'[w] = t /\ \A v \in Worker : v # w => sched'[v] = sched[v]
    <3>1. QueueOK(t, Actor, env'[w].to)
      BY <1>4, <1>6, <2>3
    <3>2. \A b \in Actor : /\ Once(Mailbox(t, b), None)
                           /\ \A m \in Range(Mailbox(t, b)) : m.to = b
      BY <1>4, <1>9
    <3> QED BY <1>4, <2>1, <2>3, <3>1, <3>2, SchedStep
  <2>5. Accounted'
    <3>1. \A v \in Worker, p \in Place, m \in Request :
              At(v, p, m)' <=> IF m = m0 THEN v = w /\ p = "hand" ELSE At(v, p, m)
      <4> SUFFICES ASSUME NEW v \in Worker, NEW p \in Place, NEW m \in Request
                   PROVE  At(v, p, m)' <=> IF m = m0 THEN v = w /\ p = "hand" ELSE At(v, p, m)
        OBVIOUS
      <4>1. \A b : m \in Range(Mailbox(sched'[v], b)) <=>
                       m \in Range(Mailbox(sched[v], b)) /\ (v # w \/ b # a \/ m # m0)
        BY <1>4, <1>9, <2>4
      <4>2. m = env'[v] /\ m # None <=> (v = w /\ m = m0) \/ (m = env[v] /\ m # None)
        BY <1>2, <1>5, <2>3, RequestFacts
      <4>3. UNCHANGED <<rx, control>>
        BY <1>1
      <4>4. At(v, p, m)' <=> \/ At(v, p, m) /\ (p # "box" \/ v # w \/ m # m0)
                             \/ p = "hand" /\ v = w /\ m = m0
        BY <1>6, <4>1, <4>2, <4>3 DEF At
      <4>5. m = m0 /\ At(v, p, m) => v = w /\ p = "box"
        BY <1>8
      <4> QED BY <4>4, <4>5
    <3>2. \A u \in Thread : Waiting(u)' <=> Waiting(u)
      BY <2>1 DEF Waiting
    <3>3. \A v \in Worker : wpc'[v] = "exited" => wpc[v] = "exited"
      BY <2>2
    <3> QED BY <1>6, <1>7, <2>2, <3>1, <3>2, <3>3, Moved DEF BInv
  <2>6. TypeOK'
    <3>1. \A v \in Worker : env'[v] = None <=> wpc'[v] \in {"control", "drain", "exited"}
      <4>1. m0 # None
        BY <1>5, RequestFacts
      <4>2. \A v \in Worker : v # w => (env[v] = None <=> wpc[v] \in {"control", "drain", "exited"})
        BY DEF BInv, TypeOK
      <4> QED BY <2>2, <2>3, <4>1, <4>2
    <3> QED BY <1>1, <2>1, <2>2, <2>3, <3>1 DEF BInv, TypeOK
  <2>7. ChannelsOK'
    BY <1>1 DEF BInv, ChannelsOK
  <2>8. WaitsInCall'
    BY <1>1, <2>1, <2>2 DEF BInv, WaitsInCall
  <2> QED BY <2>4, <2>5, <2>6, <2>7, <2>8 DEF BInv
<1>11. CASE a \notin alive
  <2> PICK r : r = RequeueIfReady(t, a)
    OBVIOUS
  <2>1. /\ sched' = [sched EXCEPT ![w] = r] /\ wpc' = [wpc EXCEPT ![w] = "control"]
        /\ Tell({m0.from}, "err") /\ UNCHANGED env
    BY <1>1, <1>11
  <2>2. /\ wpc' \in [Worker -> {"control", "drain", "handling", "sending", "spawning",
                                "called", "exited"}]
        /\ wpc'[w] = "control" /\ \A v \in Worker : v # w => wpc'[v] = wpc[v]
    BY <2>1 DEF BInv, TypeOK
  <2>3. BoxesOK(r, Actor, Message) /\ QueueOK(r, Actor, 0) /\ SameBoxes(t, r)
    <3> PICK none : none = 0
      OBVIOUS
    <3>1. none \notin Actor
      BY <1>2
    <3> QED BY <1>4, <3>1, RequeueFacts
  <2>4. OneBoxChanged(s, r, a, Tail(Mailbox(s, a)))
    BY <1>4, <2>3 DEF OneBoxChanged, SameBoxes
  <2>5. SchedOK' /\ sched'[w] = r /\ \A v \in Worker : v # w => sched'[v] = sched[v]
    <3>1. QueueOK(r, Actor, env'[w].to) /\ \A v \in Worker : v # w => env'[v] = env[v]
      BY <1>2, <2>1, <2>3
    <3>2. \A b \in Actor : /\ Once(Mailbox(r, b), None)
                           /\ \A m \in Range(Mailbox(r, b)) : m.to = b
      BY <1>9, <2>4
    <3> QED BY <2>1, <2>3, <3>1, <3>2, SchedStep
  <2>6. /\ wait' \in [Thread -> Answer]
        /\ \A u \in Thread : wait'[u] = IF u \in {m0.from} THEN "err" ELSE wait[u]
        /\ \A u \in Thread : Waiting(u)' <=> Waiting(u) /\ u \notin {m0.from}
    <3>1. wait \in [Thread -> Answer] /\ "err" \in Answer /\ "err" \notin {"send", "spawn"}
      BY DEF BInv, TypeOK, Answer
    <3> QED BY <2>1, <3>1, TellFacts
  <2>7. Accounted'
    <3>1. \A v \in Worker, p \in Place, m \in Request :
              At(v, p, m)' <=> At(v, p, m) /\ m.from \notin {m0.from}
      <4> SUFFICES ASSUME NEW v \in Worker, NEW p \in Place, NEW m \in Request
                   PROVE  At(v, p, m)' <=> At(v, p, m) /\ m.from # m0.from
        OBVIOUS
      <4>1. \A b : m \in Range(Mailbox(sched'[v], b)) <=>
                       m \in Range(Mailbox(sched[v], b)) /\ (v # w \/ b # a \/ m # m0)
        BY <1>9, <2>4, <2>5
      <4>2. UNCHANGED <<rx, control, env>>
        BY <1>1, <2>1
      <4>3. At(v, p, m)' <=> At(v, p, m) /\ (p # "box" \/ v # w \/ m # m0)
        BY <1>6, <4>1, <4>2 DEF At
      <4> QED BY <1>8, <4>3
    <3>2. \A v \in Worker, p \in Place, m \in Request : At(v, p, m)' => wpc'[v] # "exited"
      BY <2>2, <3>1 DEF BInv, Accounted, OwedWaits
    <3>3. \A v \in Worker, p \in Place, m \in Request :
              /\ At(v, p, m)' <=> At(v, p, m) /\ m.from \notin {m0.from}
              /\ At(v, p, m)' => wpc'[v] # "exited"
      BY <3>1, <3>2
    <3> QED BY <2>6, <3>3, Answered DEF BInv
  <2>8. TypeOK'
    <3>1. \A v \in Worker : env'[v] = None <=> wpc'[v] \in {"control", "drain", "exited"}
      BY <1>1, <2>1, <2>2 DEF BInv, TypeOK
    <3> QED BY <1>1, <2>1, <2>2, <2>6, <3>1 DEF BInv, TypeOK, Answer
  <2>9. ChannelsOK'
    BY <1>1 DEF BInv, ChannelsOK
  <2>10. WaitsInCall'
    <3>1. Waiting(m0.from)
      BY <1>6, <1>7 DEF BInv, Accounted, OwedWaits
    <3>2. m0.from \in Worker => wpc[m0.from] \in {"sending", "spawning"}
      BY <3>1 DEF BInv, WaitsInCall, Waiting
    <3> SUFFICES ASSUME NEW v \in Worker, wpc'[v] \notin {"sending", "spawning"}
                 PROVE  wait'[v] = "no"
      BY DEF WaitsInCall
    <3>3. wpc[v] \notin {"sending", "spawning"}
      BY <1>1, <2>2
    <3> QED BY <2>6, <3>2, <3>3, RequestFacts DEF BInv, WaitsInCall
  <2> QED BY <2>5, <2>7, <2>8, <2>9, <2>10 DEF BInv
<1> QED BY <1>10, <1>11

LEMMA HandlerSpawnKeeps ==
    ASSUME BInv, NEW w \in Worker, HandlerSpawn(w)
    PROVE  BInv'
<1> PICK k : k = next_worker
  OBVIOUS
<1>1. /\ wpc[w] = "handling" /\ next_worker' = PickNext
      /\ IF wpc[k] = "exited"
           THEN Tell({w}, "err") /\ UNCHANGED control
           ELSE Tell({w}, "spawn") /\ control' = [control EXCEPT ![k] = Append(@, w)]
      /\ wpc' = [wpc EXCEPT ![w] = "spawning"]
      /\ UNCHANGED <<home, alive, rx, sched, env, signalled>>
  BY DEF HandlerSpawn, Goto
<1>2. k \in Worker /\ next_worker' \in Worker
  <2>1. next_worker \in Worker
    BY DEF BInv, TypeOK
  <2>2. PickNext \in Worker
    BY <2>1, NAssumption DEF PickNext, Worker
  <2> QED BY <1>1, <2>1, <2>2
<1>3. /\ wpc' \in [Worker -> {"control", "drain", "handling", "sending", "spawning",
                              "called", "exited"}]
      /\ wpc'[w] = "spawning" /\ \A v \in Worker : v # w => wpc'[v] = wpc[v]
  BY <1>1 DEF BInv, TypeOK
<1>4. /\ w \in Thread /\ wait[w] = "no" /\ ~ Waiting(w) /\ Accounted
      /\ wait \in [Thread -> Answer] /\ {"no", "spawn", "err"} \subseteq Answer
  BY <1>1, RequestFacts DEF BInv, TypeOK, Answer, WaitsInCall, Waiting
<1>5. \A v \in Worker : wpc'[v] = "exited" <=> wpc[v] = "exited"
  BY <1>1, <1>3
<1>6. /\ control' \in [Worker -> Seq(Worker \cup {Shutdown})] /\ wait' \in [Thread -> Answer]
      /\ \A t \in Thread : t # w => wait'[t] = wait[t]
      /\ ChannelsOK' /\ Accounted'
  <2>1. CASE wpc[k] = "exited"
    <3>1. Tell({w}, "err") /\ UNCHANGED control
      BY <1>1, <2>1
    <3>2. /\ wait' \in [Thread -> Answer]
          /\ \A t \in Thread : wait'[t] = IF t \in {w} THEN "err" ELSE wait[t]
          /\ \A t \in Thread : Waiting(t)' <=> Waiting(t) /\ t \notin {w}
      <4>1. "err" \in Answer /\ "err" \notin {"send", "spawn"}
        BY DEF Answer
      <4> QED BY <1>4, <3>1, <4>1, TellFacts
    <3>3. \A v \in Worker, p \in Place, m \in Request : At(v, p, m)' <=> At(v, p, m)
      BY <1>1, <3>1 DEF At
    <3>4. \A t \in Thread : Waiting(t)' <=> Waiting(t)
      BY <1>4, <3>2
    <3>5. Accounted'
      BY <1>4, <1>5, <3>3, <3>4, Unmoved
    <3>6. ChannelsOK' /\ control' \in [Worker -> Seq(Worker \cup {Shutdown})]
      BY <1>1, <3>1 DEF BInv, ChannelsOK, TypeOK
    <3> QED BY <3>2, <3>5, <3>6
  <2>2. CASE wpc[k] # "exited"
    <3>1. Tell({w}, "spawn") /\ control' = [control EXCEPT ![k] = Append(@, w)]
      BY <1>1, <2>2
    <3>2. /\ wait' \in [Thread -> Answer]
          /\ \A t \in Thread : wait'[t] = IF t \in {w} THEN "spawn" ELSE wait[t]
          /\ \A t \in Thread : Waiting(t)' <=> Waiting(t) \/ t \in {w}
      <4>1. "spawn" \in Answer /\ "spawn" \in {"send", "spawn"}
        BY DEF Answer
      <4> QED BY <1>4, <3>1, <4>1, TellFacts
    <3> PICK m0 : m0 = [to |-> 0, from |-> w]
      OBVIOUS
    <3>3. m0 \in Request /\ m0.from = w /\ m0.to = 0 /\ "control" \in Place
      BY <1>4, RequestFacts DEF Place
    <3>4. w \notin Range(control[k])
      <4> SUFFICES ASSUME w \in Range(control[k]) PROVE FALSE
        OBVIOUS
      <4>1. At(k, "control", m0)
        BY <3>3 DEF At
      <4> QED BY <1>2, <1>4, <3>3, <4>1 DEF Accounted, OwedWaits
    <3>5. /\ Append(control[k], w) \in Seq(Worker \cup {Shutdown})
          /\ Range(Append(control[k], w)) = Range(control[k]) \cup {w}
          /\ Once(Append(control[k], w), Shutdown)
      <4>1. control[k] \in Seq(Worker \cup {Shutdown}) /\ Once(control[k], Shutdown)
        BY <1>2, WorkerFacts
      <4>2. w \in Worker \cup {Shutdown}
        OBVIOUS
      <4> QED BY <3>4, <4>1, <4>2, AppendOnce
    <3>6. /\ control' \in [Worker -> Seq(Worker \cup {Shutdown})]
          /\ control'[k] = Append(control[k], w)
          /\ \A v \in Worker : v # k => control'[v] = control[v]
      BY <1>2, <3>1, <3>5 DEF BInv, TypeOK
    <3>7. ChannelsOK'
      BY <1>1, <3>5, <3>6 DEF BInv, ChannelsOK
    <3>8. \A v \in Worker, p \in Place, m \in Request :
              At(v, p, m)' <=> At(v, p, m) \/ (v = k /\ p = "control" /\ m = m0)
      <4> SUFFICES ASSUME NEW v \in Worker, NEW p \in Place, NEW m \in Request
                   PROVE  At(v, p, m)' <=> At(v, p, m) \/ (v = k /\ p = "control" /\ m = m0)
        OBVIOUS
      <4>1. \A t : t \in Range(control'[v]) <=> t \in Range(control[v]) \/ (v = k /\ t = w)
        BY <3>5, <3>6
      <4>2. UNCHANGED <<rx, sched, env>>
        BY <1>1
      <4>3. m.to = 0 /\ m.from = w <=> m = m0
        BY <3>3 DEF Request
      <4> QED BY <4>1, <4>2, <4>3 DEF At
    <3>9. Accounted'
      <4>1. \A t \in Thread : Waiting(t)' <=> Waiting(t) \/ t = m0.from
        BY <3>2, <3>3
      <4>2. wpc'[k] # "exited" /\ ~ Waiting(m0.from)
        BY <1>2, <1>4, <1>5, <2>2, <3>3
      <4> QED BY <1>2, <1>4, <1>5, <3>3, <3>8, <4>1, <4>2, Posted
    <3> QED BY <3>2, <3>6, <3>7, <3>9
  <2> QED BY <2>1, <2>2
<1>7. TypeOK'
  <2>1. \A v \in Worker : env'[v] = None <=> wpc'[v] \in {"control", "drain", "exited"}
    BY <1>1, <1>3 DEF BInv, TypeOK
  <2> QED BY <1>1, <1>2, <1>3, <1>6, <2>1 DEF BInv, TypeOK, Answer
<1>8. SchedOK'
  BY <1>1 DEF BInv, SchedOK
<1>9. WaitsInCall'
  BY <1>3, <1>6, RequestFacts DEF BInv, WaitsInCall
<1> QED BY <1>6, <1>7, <1>8, <1>9 DEF BInv

LEMMA CallReturnsKeeps ==
    ASSUME BInv, NEW w \in Worker, CallReturns(w)
    PROVE  BInv'
<1>1. /\ wpc[w] \in {"sending", "spawning"} /\ wait[w] \in {"ok", "err"} /\ Tell({w}, "no")
      /\ wpc' = [wpc EXCEPT ![w] = "called"]
      /\ UNCHANGED <<home, alive, control, rx, sched, env, next_worker, signalled>>
  BY DEF CallReturns, Goto
<1>2. /\ wpc' \in [Worker -> {"control", "drain", "handling", "sending", "spawning",
                              "called", "exited"}]
      /\ wpc'[w] = "called" /\ \A v \in Worker : v # w => wpc'[v] = wpc[v]
  BY <1>1 DEF BInv, TypeOK
<1>3. /\ wait' \in [Thread -> Answer]
      /\ \A t \in Thread : wait'[t] = IF t \in {w} THEN "no" ELSE wait[t]
      /\ \A t \in Thread : Waiting(t)' <=> Waiting(t) /\ t \notin {w}
  <2>1. wait \in [Thread -> Answer] /\ "no" \in Answer /\ "no" \notin {"send", "spawn"}
    BY DEF BInv, TypeOK, Answer
  <2> QED BY <1>1, <2>1, TellFacts
<1>4. Accounted'
  <2>1. \A v \in Worker, p \in Place, m \in Request : At(v, p, m)' <=> At(v, p, m)
    BY <1>1 DEF At
  <2>2. \A t \in Thread : Waiting(t)' <=> Waiting(t)
    BY <1>1, <1>3 DEF Waiting
  <2>3. \A v \in Worker : wpc'[v] = "exited" => wpc[v] = "exited"
    BY <1>2
  <2> QED BY <2>1, <2>2, <2>3, Unmoved DEF BInv
<1>5. TypeOK'
  <2>1. \A v \in Worker : env'[v] = None <=> wpc'[v] \in {"control", "drain", "exited"}
    BY <1>1, <1>2 DEF BInv, TypeOK
  <2> QED BY <1>1, <1>2, <1>3, <2>1 DEF BInv, TypeOK, Answer
<1>6. SchedOK' /\ ChannelsOK'
  BY <1>1 DEF BInv, SchedOK, ChannelsOK
<1>7. WaitsInCall'
  BY <1>2, <1>3, RequestFacts DEF BInv, WaitsInCall
<1> QED BY <1>4, <1>5, <1>6, <1>7 DEF BInv

LEMMA HandlerReturnKeeps ==
    ASSUME BInv, NEW w \in Worker, HandlerReturn(w)
    PROVE  BInv'
<1> PICK m0 : m0 = env[w]
  OBVIOUS
<1> PICK a : a = m0.to
  OBVIOUS
<1> PICK r : r = RequeueIfReady(sched[w], a)
  OBVIOUS
<1>1. /\ wpc[w] \in {"handling", "called"} /\ Tell({m0.from}, "ok")
      /\ sched' = [sched EXCEPT ![w] = r] /\ env' = [env EXCEPT ![w] = None]
      /\ wpc' = [wpc EXCEPT ![w] = "control"]
      /\ UNCHANGED <<home, alive, control, rx, next_worker, signalled>>
  BY DEF HandlerReturn, Goto, LoopAtControl
<1>2. /\ wpc' \in [Worker -> {"control", "drain", "handling", "sending", "spawning",
                              "called", "exited"}]
      /\ wpc'[w] = "control" /\ \A v \in Worker : v # w => wpc'[v] = wpc[v]
      /\ env' \in [Worker -> Message \cup {None}]
      /\ env'[w] = None /\ \A v \in Worker : v # w => env'[v] = env[v]
  BY <1>1 DEF BInv, TypeOK
<1>3. /\ m0 # None /\ m0 \in Message /\ m0 \in Request /\ a \in Actor /\ m0.from \in Thread
      /\ At(w, "hand", m0) /\ "hand" \in Place /\ None.to = 0 /\ 0 \notin Actor
  <2>1. m0 # None /\ m0 \in Message
    BY <1>1, WorkerFacts
  <2> QED BY <2>1, RequestFacts DEF At, Place
<1>4. /\ BoxesOK(sched[w], Actor, Message) /\ QueueOK(sched[w], Actor, a)
      /\ \A b \in Actor : /\ Once(Mailbox(sched[w], b), None)
                          /\ \A m \in Range(Mailbox(sched[w], b)) : m.to = b
  BY DEF BInv, SchedOK
<1>5. BoxesOK(r, Actor, Message) /\ QueueOK(r, Actor, 0) /\ SameBoxes(sched[w], r)
  <2> PICK none : none = 0
    OBVIOUS
  <2>1. none \notin Actor
    BY <1>3
  <2> QED BY <1>3, <1>4, <2>1, RequeueFacts
<1>6. SchedOK' /\ sched'[w] = r /\ \A v \in Worker : v # w => sched'[v] = sched[v]
  <2>1. QueueOK(r, Actor, env'[w].to)
    BY <1>2, <1>3, <1>5
  <2>2. \A b \in Actor : /\ Once(Mailbox(r, b), None)
                         /\ \A m \in Range(Mailbox(r, b)) : m.to = b
    BY <1>4, <1>5 DEF SameBoxes
  <2>3. /\ sched' = [sched EXCEPT ![w] = r] /\ BoxesOK(r, Actor, Message)
        /\ \A v \in Worker : v # w => env'[v] = env[v]
    BY <1>1, <1>2, <1>5
  <2> QED BY <2>1, <2>2, <2>3, SchedStep
<1>7. /\ wait' \in [Thread -> Answer]
      /\ \A t \in Thread : wait'[t] = IF t \in {m0.from} THEN "ok" ELSE wait[t]
      /\ \A t \in Thread : Waiting(t)' <=> Waiting(t) /\ t \notin {m0.from}
  <2>1. wait \in [Thread -> Answer] /\ "ok" \in Answer /\ "ok" \notin {"send", "spawn"}
    BY DEF BInv, TypeOK, Answer
  <2> QED BY <1>1, <2>1, TellFacts
<1>8. Accounted'
  <2>1. \A v \in Worker, p \in Place, m \in Request :
            At(v, p, m) /\ m.from = m0.from => v = w /\ p = "hand" /\ m = m0
    BY <1>3 DEF BInv, Accounted, OnePlace
  <2>2. \A v \in Worker, p \in Place, m \in Request :
            At(v, p, m)' <=> At(v, p, m) /\ m.from \notin {m0.from}
    <3> SUFFICES ASSUME NEW v \in Worker, NEW p \in Place, NEW m \in Request
                 PROVE  At(v, p, m)' <=> At(v, p, m) /\ m.from # m0.from
      OBVIOUS
    <3>1. \A b : Mailbox(sched'[v], b) = Mailbox(sched[v], b)
      BY <1>5, <1>6 DEF SameBoxes
    <3>2. m = env'[v] /\ m # None <=> m = env[v] /\ m # None /\ v # w
      BY <1>2
    <3>3. UNCHANGED <<rx, control>>
      BY <1>1
    <3>4. At(v, p, m)' <=> At(v, p, m) /\ (p # "hand" \/ v # w)
      BY <3>1, <3>2, <3>3 DEF At
    <3>5. At(w, "hand", m) => m = m0
      BY DEF At
    <3> QED BY <2>1, <3>4, <3>5
  <2>3. \A v \in Worker, p \in Place, m \in Request : At(v, p, m)' => wpc'[v] # "exited"
    BY <1>2, <2>2 DEF BInv, Accounted, OwedWaits
  <2>4. \A v \in Worker, p \in Place, m \in Request :
            /\ At(v, p, m)' <=> At(v, p, m) /\ m.from \notin {m0.from}
            /\ At(v, p, m)' => wpc'[v] # "exited"
    BY <2>2, <2>3
  <2> QED BY <1>7, <2>4, Answered DEF BInv
<1>9. TypeOK'
  <2>1. \A v \in Worker : env'[v] = None <=> wpc'[v] \in {"control", "drain", "exited"}
    <3>1. \A v \in Worker : v # w => (env[v] = None <=> wpc[v] \in {"control", "drain", "exited"})
      BY DEF BInv, TypeOK
    <3> QED BY <1>2, <3>1
  <2> QED BY <1>1, <1>2, <1>7, <2>1 DEF BInv, TypeOK, Answer
<1>10. ChannelsOK'
  BY <1>1 DEF BInv, ChannelsOK
<1>11. WaitsInCall'
  <2>1. Waiting(m0.from)
    BY <1>3 DEF BInv, Accounted, OwedWaits
  <2>2. m0.from \in Worker => wpc[m0.from] \in {"sending", "spawning"}
    BY <2>1 DEF BInv, WaitsInCall, Waiting
  <2> SUFFICES ASSUME NEW v \in Worker, wpc'[v] \notin {"sending", "spawning"}
               PROVE  wait'[v] = "no"
    BY DEF WaitsInCall
  <2>3. wpc[v] \notin {"sending", "spawning"}
    BY <1>1, <1>2
  <2> QED BY <1>7, <2>2, <2>3, RequestFacts DEF BInv, WaitsInCall
<1> QED BY <1>6, <1>8, <1>9, <1>10, <1>11 DEF BInv

LEMMA SpawnPanicsKeeps ==
    ASSUME BInv, NEW w \in Worker, SpawnPanics(w)
    PROVE  BInv'
<1> PICK m0 : m0 = env[w]
  OBVIOUS
<1> PICK a : a = m0.to
  OBVIOUS
<1> PICK r : r = RemoveActor(sched[w], a)
  OBVIOUS
<1> PICK D : D = {m0.from} \cup Senders(Range(Mailbox(sched[w], a)))
  OBVIOUS
<1>1. /\ wpc[w] = "spawning" /\ wait[w] = "err" /\ alive' = alive \ {a}
      /\ wait' = [t \in Thread |-> CASE t = w -> "no" [] t \in D -> "err" [] OTHER -> wait[t]]
      /\ sched' = [sched EXCEPT ![w] = r] /\ env' = [env EXCEPT ![w] = None]
      /\ wpc' = [wpc EXCEPT ![w] = "control"]
      /\ UNCHANGED <<home, control, rx, next_worker, signalled>>
  BY DEF SpawnPanics, Goto
<1>2. /\ wpc' \in [Worker -> {"control", "drain", "handling", "sending", "spawning",
                              "called", "exited"}]
      /\ wpc'[w] = "control" /\ \A v \in Worker : v # w => wpc'[v] = wpc[v]
      /\ env' \in [Worker -> Message \cup {None}]
      /\ env'[w] = None /\ \A v \in Worker : v # w => env'[v] = env[v]
  BY <1>1 DEF BInv, TypeOK
<1>3. /\ m0 # None /\ m0 \in Message /\ m0 \in Request /\ a \in Actor /\ m0.from \in Thread
      /\ At(w, "hand", m0) /\ "hand" \in Place /\ "box" \in Place
      /\ None.to = 0 /\ 0 \notin Actor
  <2>1. m0 # None /\ m0 \in Message
    BY <1>1, WorkerFacts
  <2> QED BY <2>1, RequestFacts DEF At, Place
<1>4. /\ BoxesOK(sched[w], Actor, Message) /\ QueueOK(sched[w], Actor, a)
      /\ \A b \in Actor : /\ Once(Mailbox(sched[w], b), None)
                          /\ \A m \in Range(Mailbox(sched[w], b)) : m.to = b
  BY DEF BInv, SchedOK
<1>5. /\ BoxesOK(r, Actor, Message) /\ OneBoxChanged(sched[w], r, a, <<>>)
      /\ QueueOK(r, Actor, a)
  BY <1>3, <1>4, RemoveFacts
<1>6. QueueOK(r, Actor, 0)
  <2>1. ~ HasPending(r, a)
    <3>1. HasPending(r, a) <=> Mailbox(r, a) # <<>>
      BY <1>5, MailboxFacts
    <3> QED BY <1>5, <3>1 DEF OneBoxChanged
  <2> QED BY <1>3, <1>5, <2>1 DEF QueueOK
<1>7. SchedOK' /\ sched'[w] = r /\ \A v \in Worker : v # w => sched'[v] = sched[v]
  <2>1. QueueOK(r, Actor, env'[w].to)
    BY <1>2, <1>3, <1>6
  <2>2. \A b \in Actor : /\ Once(Mailbox(r, b), None)
                         /\ \A m \in Range(Mailbox(r, b)) : m.to = b
    BY <1>4, <1>5, EmptyOnce DEF OneBoxChanged
  <2>3. /\ sched' = [sched EXCEPT ![w] = r] /\ BoxesOK(r, Actor, Message)
        /\ \A v \in Worker : v # w => env'[v] = env[v]
    BY <1>1, <1>2, <1>5
  <2> QED BY <2>1, <2>2, <2>3, SchedStep
<1>8. \A t : t \in D <=> t = m0.from \/ \E m \in Request : At(w, "box", m) /\ m.to = a /\ m.from = t
  <2>1. \A m : m \in Range(Mailbox(sched[w], a)) <=> m \in Request /\ At(w, "box", m) /\ m.to = a
    <3>1. Range(Mailbox(sched[w], a)) \subseteq Request
      BY WorkerFacts, RequestFacts
    <3> QED BY <1>3, <1>4, <3>1 DEF At
  <2> QED BY <2>1 DEF Senders
<1>9. /\ \A t \in D : t \in Thread /\ Waiting(t)
      /\ w \notin D
  <2>1. \A t \in D : t \in Thread /\ Waiting(t)
    BY <1>3, <1>8, RequestFacts DEF BInv, Accounted, OwedWaits
  <2>2. ~ Waiting(w)
    BY <1>1 DEF Waiting
  <2> QED BY <2>1, <2>2
<1>10. \A t \in Thread : wait'[t] = IF t = w THEN "no" ELSE IF t \in D THEN "err" ELSE wait[t]
  BY <1>1, <1>9
<1>11. wait' \in [Thread -> Answer]
  <2>1. \A t \in Thread : wait'[t] \in Answer
    BY <1>10 DEF BInv, TypeOK, Answer
  <2>2. wait' = [t \in Thread |-> wait'[t]]
    BY <1>1
  <2> QED BY <2>1, <2>2
<1>12. \A t \in Thread : Waiting(t)' <=> Waiting(t) /\ t \notin D
  BY <1>1, <1>9, <1>10 DEF Waiting
<1>13. Accounted'
  <2>1. \A v \in Worker, p \in Place, m \in Request :
            At(v, p, m) /\ m.from \in D => v = w /\ (p = "hand" \/ (p = "box" /\ m.to = a))
    BY <1>3, <1>8 DEF BInv, Accounted, OnePlace
  <2>2. \A v \in Worker, p \in Place, m \in Request :
            At(v, p, m)' <=> At(v, p, m) /\ m.from \notin D
    <3> SUFFICES ASSUME NEW v \in Worker, NEW p \in Place, NEW m \in Request
                 PROVE  At(v, p, m)' <=> At(v, p, m) /\ m.from \notin D
      OBVIOUS
    <3>1. \A b : m \in Range(Mailbox(sched'[v], b)) <=>
                     m \in Range(Mailbox(sched[v], b)) /\ (v # w \/ b # a)
      <4>1. Range(Mailbox(r, a)) = {} /\ \A b : b # a => Mailbox(r, b) = Mailbox(sched[w], b)
        BY <1>5, EmptyOnce DEF OneBoxChanged
      <4> QED BY <1>7, <4>1
    <3>2. m = env'[v] /\ m # None <=> m = env[v] /\ m # None /\ v # w
      BY <1>2
    <3>3. UNCHANGED <<rx, control>>
      BY <1>1
    <3>4. At(v, p, m)' <=> At(v, p, m) /\ ~ (v = w /\ (p = "hand" \/ (p = "box" /\ m.to = a)))
      BY <3>1, <3>2, <3>3 DEF At
    <3>5. At(w, "hand", m) => m = m0
      BY DEF At
    <3>6. At(v, p, m) /\ v = w /\ (p = "hand" \/ (p = "box" /\ m.to = a)) => m.from \in D
      BY <1>8, <3>5
    <3> QED BY <2>1, <3>4, <3>6
  <2>3. \A v \in Worker, p \in Place, m \in Request : At(v, p, m)' => wpc'[v] # "exited"
    BY <1>2, <2>2 DEF BInv, Accounted, OwedWaits
  <2>4. \A v \in Worker, p \in Place, m \in Request :
            /\ At(v, p, m)' <=> At(v, p, m) /\ m.from \notin D
            /\ At(v, p, m)' => wpc'[v] # "exited"
    BY <2>2, <2>3
  <2> QED BY <1>12, <2>4, Answered DEF BInv
<1>14. TypeOK'
  <2>1. \A v \in Worker : env'[v] = None <=> wpc'[v] \in {"control", "drain", "exited"}
    <3>1. \A v \in Worker : v # w => (env[v] = None <=> wpc[v] \in {"control", "drain", "exited"})
      BY DEF BInv, TypeOK
    <3> QED BY <1>2, <3>1
  <2> QED BY <1>1, <1>2, <1>11, <2>1 DEF BInv, TypeOK, Answer
<1>15. ChannelsOK'
  BY <1>1 DEF BInv, ChannelsOK
<1>16. WaitsInCall'
  <2>1. \A v \in Worker : v \in D => wpc[v] \in {"sending", "spawning"}
    BY <1>9 DEF BInv, WaitsInCall, Waiting
  <2> SUFFICES ASSUME NEW v \in Worker, wpc'[v] \notin {"sending", "spawning"}
               PROVE  wait'[v] = "no"
    BY DEF WaitsInCall
  <2>2. v # w => wpc[v] \notin {"sending", "spawning"}
    BY <1>2
  <2>3. v \in Thread
    BY RequestFacts
  <2>4. CASE v = w
    BY <1>10, <2>3, <2>4
  <2>5. CASE v # w
    BY <1>10, <2>1, <2>2, <2>3, <2>5 DEF BInv, WaitsInCall
  <2> QED BY <2>4, <2>5
<1> QED BY <1>7, <1>13, <1>14, <1>15, <1>16 DEF BInv
-----------------------------------------------------------------------------
LEMMA NextBInv == BInv /\ [Next]_vars => BInv'
<1> SUFFICES ASSUME BInv, [Next]_vars PROVE BInv'
  OBVIOUS
<1>1. ASSUME NEW w \in Worker, WorkerStep(w) PROVE BInv'
  BY <1>1, RecvSpawnKeeps, RecvShutdownKeeps, LoopStepKeeps, TakeEnvelopeKeeps, DispatchKeeps,
     HandlerSendKeeps, HandlerSpawnKeeps, CallReturnsKeeps, SpawnPanicsKeeps, HandlerReturnKeeps
     DEF WorkerStep
<1>2. ASSUME NEW c \in Client, ClientReturn(c) \/ \E a \in Actor : ClientSend(c, a) PROVE BInv'
  BY <1>2, ClientReturnKeeps, ClientSendKeeps
<1>3. CASE SignalWorker
  BY <1>3, SignalWorkerKeeps
<1>4. CASE UNCHANGED vars
  <2>1. UNCHANGED <<home, alive, control, rx, sched, wpc, env, next_worker, wait, signalled>>
    BY <1>4 DEF vars
  <2>2. \A v \in Worker, p \in Place, m \in Request : At(v, p, m)' <=> At(v, p, m)
    BY <2>1 DEF At
  <2>3. \A t \in Thread : Waiting(t)' <=> Waiting(t)
    BY <2>1 DEF Waiting
  <2>4. Accounted'
    BY <2>1, <2>2, <2>3, Unmoved DEF BInv
  <2>5. TypeOK' /\ SchedOK' /\ ChannelsOK' /\ WaitsInCall'
    BY <2>1 DEF BInv, TypeOK, SchedOK, ChannelsOK, WaitsInCall
  <2> QED BY <2>4, <2>5 DEF BInv
<1> QED BY <1>1, <1>2, <1>3, <1>4 DEF Next

(* The inductive invariant: schedulers and channels are well formed, a     *)
(* worker waits only inside Context::send or Runtime::spawn, and requests  *)
(* under way and waiting threads belong together one to one.               *)
THEOREM BlockingInvariant == Spec => []BInv
<1>1. Init => BInv
  BY InitBInv
<1>2. BInv /\ [Next]_vars => BInv'
  BY NextBInv
<1> QED BY <1>1, <1>2, PTL DEF Spec

(* What a worker owes are the requests it has. *)
LEMMA OwesIs ==
    ASSUME BInv, NEW w \in Worker, NEW t \in Thread
    PROVE  Owes(w, t) <=> \E p \in Place, m \in Request : At(w, p, m) /\ m.from = t
<1>1. t \in Senders(Range(rx[w]) \cup Held(sched[w])) <=>
          \E m \in Request : (At(w, "rx", m) \/ At(w, "box", m)) /\ m.from = t
  BY SendersAre
<1>2. t \in Range(control[w]) <=> \E m \in Request : At(w, "control", m) /\ m.from = t
  <2> PICK m0 : m0 = [to |-> 0, from |-> t]
    OBVIOUS
  <2>1. m0 \in Request /\ m0.to = 0 /\ m0.from = t
    BY RequestFacts
  <2> QED BY <2>1 DEF At
<1>3. env[w] # None /\ env[w].from = t <=> \E m \in Request : At(w, "hand", m) /\ m.from = t
  <2>1. env[w] # None => env[w] \in Request
    BY WorkerFacts, RequestFacts
  <2> QED BY <2>1 DEF At
<1> QED BY <1>1, <1>2, <1>3 DEF Owes, Place

(* Whoever waits for Addr::send, Context::send or Runtime::spawn is owed   *)
(* an answer by exactly one worker that still runs, and nobody else is.    *)
THEOREM EveryWaitIsOwedHolds == Spec => []EveryWaitIsOwed
<1>1. BInv => EveryWaitIsOwed
  <2> SUFFICES ASSUME BInv PROVE EveryWaitIsOwed
    OBVIOUS
  <2>1. \A w \in Worker, t \in Thread :
            Owes(w, t) <=> \E p \in Place, m \in Request : At(w, p, m) /\ m.from = t
    BY OwesIs
  <2>2. OnePlace /\ OwedWaits /\ WaitsOwed /\ TypeOK
    BY DEF BInv, Accounted
  <2> SUFFICES ASSUME NEW t \in Thread, NEW w \in Worker
               PROVE  /\ Owes(w, t) => Waiting(t) /\ wpc[w] # "exited"
                      /\ Waiting(t) => \E v \in Worker : Owes(v, t)
                      /\ \A v \in Worker : Owes(v, t) /\ Owes(w, t) => v = w
    BY <2>2 DEF EveryWaitIsOwed
  <2>3. Owes(w, t) => Waiting(t) /\ wpc[w] # "exited"
    BY <2>1, <2>2 DEF OwedWaits
  <2>4. Waiting(t) => \E v \in Worker : Owes(v, t)
    BY <2>1, <2>2 DEF WaitsOwed
  <2>5. \A v \in Worker : Owes(v, t) /\ Owes(w, t) => v = w
    BY <2>1, <2>2 DEF OnePlace
  <2> QED BY <2>3, <2>4, <2>5
<1> QED BY <1>1, BlockingInvariant, PTL
-----------------------------------------------------------------------------
(* A worker that waits takes no step. *)
LEMMA BlockedStands ==
    ASSUME BInv, NEW u \in Worker, Waiting(u), NEW w \in Worker, WorkerStep(w)
    PROVE  w # u
<1>1. wpc[u] \in {"sending", "spawning"} /\ wait[u] \notin {"ok", "err"}
  BY DEF BInv, WaitsInCall, Waiting
<1> SUFFICES ASSUME w = u PROVE FALSE
  OBVIOUS
<1> QED BY <1>1 DEF WorkerStep, RecvSpawn, RecvShutdown, AtControl, ControlEmpty, TakeEnvelope,
                    GoIdle, Dispatch, HandlerSend, HandlerSpawn, CallReturns, SpawnPanics,
                    HandlerReturn

(* What a blocked worker has been given, it keeps. *)
LEMMA BlockedKeeps ==
    ASSUME BInv, [Next]_vars, NEW u \in Worker, Waiting(u),
           NEW p \in Place, NEW m \in Request, At(u, p, m)
    PROVE  At(u, p, m)'
<1>1. /\ Range(rx[u]) \subseteq Range(rx'[u]) /\ Range(control[u]) \subseteq Range(control'[u])
      /\ sched'[u] = sched[u] /\ env'[u] = env[u]
  <2>0. /\ rx[u] \in Seq(Message) /\ control[u] \in Seq(Worker \cup {Shutdown})
        /\ DOMAIN rx = Worker /\ DOMAIN control = Worker /\ DOMAIN sched = Worker
        /\ DOMAIN env = Worker /\ home \in [Actor -> Worker] /\ next_worker \in Worker
    BY DEF BInv, TypeOK, SchedOK
  <2>1. ASSUME NEW t \in Thread, NEW a \in Actor, Send(t, a)
        PROVE  Range(rx[u]) \subseteq Range(rx'[u])
    <3> PICK m0 : m0 = [to |-> a, from |-> t]
      OBVIOUS
    <3>1. m0 \in Message
      BY DEF Message
    <3>2. rx' = rx \/ rx' = [rx EXCEPT ![home[a]] = Append(@, m0)]
      BY <2>1 DEF Send
    <3>3. Range(Append(rx[u], m0)) = Range(rx[u]) \cup {m0}
      BY <2>0, <3>1, AppendRange
    <3>4. rx'[u] = rx[u] \/ rx'[u] = Append(rx[u], m0)
      BY <2>0, <3>2
    <3> QED BY <3>3, <3>4
  <2>2. ASSUME NEW w \in Worker, WorkerStep(w)
        PROVE  /\ Range(rx[u]) \subseteq Range(rx'[u]) /\ Range(control[u]) \subseteq Range(control'[u])
               /\ sched'[u] = sched[u] /\ env'[u] = env[u]
    <3>1. w # u /\ w \in Thread
      BY <2>2, BlockedStands, RequestFacts
    <3>2. CASE \E a \in Actor : HandlerSend(w, a)
      BY <2>1, <3>1, <3>2 DEF HandlerSend
    <3>3. CASE HandlerSpawn(w)
      <4>1. UNCHANGED <<rx, sched, env>>
        BY <3>3 DEF HandlerSpawn
      <4>2. control' = control \/ control' = [control EXCEPT ![next_worker] = Append(@, w)]
        BY <3>3 DEF HandlerSpawn
      <4>3. control'[u] = control[u] \/ control'[u] = Append(control[u], w)
        BY <2>0, <4>2
      <4>4. Range(Append(control[u], w)) = Range(control[u]) \cup {w}
        BY <2>0, AppendRange
      <4> QED BY <4>1, <4>3, <4>4
    <3>4. CASE RecvSpawn(w) \/ RecvShutdown(w) \/ ControlEmpty(w)
      BY <2>0, <3>1, <3>4 DEF RecvSpawn, RecvShutdown, ControlEmpty
    <3>5. CASE TakeEnvelope(w) \/ GoIdle(w)
      BY <2>0, <3>1, <3>5 DEF TakeEnvelope, GoIdle
    <3>6. CASE Dispatch(w)
      BY <2>0, <3>1, <3>6 DEF Dispatch
    <3>7. CASE CallReturns(w) \/ SpawnPanics(w) \/ HandlerReturn(w)
      BY <2>0, <3>1, <3>7 DEF CallReturns, SpawnPanics, HandlerReturn
    <3> QED BY <2>2, <3>2, <3>3, <3>4, <3>5, <3>6, <3>7 DEF WorkerStep
  <2>3. ASSUME NEW c \in Client, ClientReturn(c) \/ \E a \in Actor : ClientSend(c, a)
        PROVE  /\ Range(rx[u]) \subseteq Range(rx'[u]) /\ UNCHANGED <<control, sched, env>>
    <3>1. c \in Thread
      BY DEF Thread
    <3> QED BY <2>1, <2>3, <3>1 DEF ClientReturn, ClientSend
  <2>4. CASE SignalWorker
    <3>1. /\ control'[u] = control[u] \/ control'[u] = Append(control[u], Shutdown)
          /\ UNCHANGED <<rx, sched, env>>
      BY <2>4 DEF SignalWorker, BInv, TypeOK
    <3>2. Range(Append(control[u], Shutdown)) = Range(control[u]) \cup {Shutdown}
      BY <2>0, AppendRange
    <3> QED BY <3>1, <3>2
  <2>5. CASE UNCHANGED vars
    BY <2>5 DEF vars
  <2> QED BY <2>2, <2>3, <2>4, <2>5 DEF Next
<1> QED BY <1>1 DEF At

(* Workers that wait for each other in handlers do so for ever: no other   *)
(* worker, no client and no Runtime::shutdown frees them.                  *)
THEOREM StuckForeverHolds == Spec => StuckForever
<1>0. /\ BInv => \A u \in Worker, v \in Thread :
                     Owes(u, v) <=> \E p \in Place, m \in Request : At(u, p, m) /\ m.from = v
      /\ (BInv => \A u \in Worker, v \in Thread :
                     Owes(u, v) <=> \E p \in Place, m \in Request : At(u, p, m) /\ m.from = v)'
  <2>1. BInv => \A u \in Worker, v \in Thread :
                    Owes(u, v) <=> \E p \in Place, m \in Request : At(u, p, m) /\ m.from = v
    BY OwesIs
  <2> QED BY <2>1, PTL
<1>1. BInv /\ BInv' /\ [Next]_vars => [\A w \in Worker : Stuck(w) => Stuck(w)']_vars
  <2> SUFFICES ASSUME BInv, BInv', [Next]_vars, NEW w \in Worker, Stuck(w)
               PROVE  Stuck(w)'
    OBVIOUS
  <2>1. PICK S \in SUBSET Worker :
            w \in S /\ \A v \in S : Waiting(v) /\ \E u \in S : Owes(u, v)
    BY DEF Stuck
  <2>2. ASSUME NEW v \in S PROVE Waiting(v)' /\ \E u \in S : Owes(u, v)'
    <3>1. PICK u \in S : Owes(u, v)
      BY <2>1
    <3>2. u \in Worker /\ v \in Worker /\ v \in Thread /\ Waiting(u)
      BY <2>1, RequestFacts
    <3>3. PICK p \in Place, m \in Request : At(u, p, m) /\ m.from = v
      BY <3>1, <3>2, OwesIs
    <3>4. At(u, p, m)'
      BY <3>2, <3>3, BlockedKeeps
    <3>5. Owes(u, v)'
      BY <1>0, <3>2, <3>3, <3>4
    <3>6. Waiting(v)'
      BY <3>2, <3>3, <3>4 DEF BInv, Accounted, OwedWaits
    <3> QED BY <3>5, <3>6
  <2> QED BY <2>1, <2>2 DEF Stuck
<1> QED BY <1>1, BlockingInvariant, PTL DEF Spec, StuckForever
=============================================================================
