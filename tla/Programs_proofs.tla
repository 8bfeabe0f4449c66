--------------------------- MODULE Programs_proofs ---------------------------
(***************************************************************************)
(* Proofs about state machines and the programs that use them: machines    *)
(* meet their states in the order of the cycle, for every set of actors,   *)
(* every sequence of states and any number of messages; and in the         *)
(* programs of the repository, and in any other with as many threads as    *)
(* actors, what the last line says has happened, threads panic only where  *)
(* they may, and the probe has recorded what was posted.                   *)
(***************************************************************************)
EXTENDS Programs, Integers, FiniteSetTheorems, SequenceTheorems, TLAPS

(* Where the machine is follows from how many messages it has begun. *)
InStep ==
    \A a \in Actor :
        /\ pc[a] = "ready" => current[a] = Len(log[a]) % Len(states[a])
        /\ pc[a] = "handling" =>
              Len(log[a]) > 0 /\ current[a] = (Len(log[a]) - 1) % Len(states[a])

MInv == MachinesOK /\ InStep /\ CyclesInOrder

(* A multiple of k that is smaller than k either way is 0. *)
LEMMA SmallMultiple ==
    ASSUME NEW d \in Int, NEW k \in Nat \ {0}, d * k < k, - k < d * k
    PROVE  d = 0
<1>1. CASE d >= 1
  <2>1. PICK e \in Nat : d = e + 1 BY <1>1, SMT
  <2>2. d * k = e * k + k BY <2>1, SMT
  <2>3. e * k >= 0 BY <2>1, SMT
  <2> QED BY <2>2, <2>3, SMT
<1>2. CASE d <= -1
  <2>1. PICK e \in Nat : d = - (e + 1) BY <1>2, SMT
  <2>2. d * k = - (e * k + k) BY <2>1, SMT
  <2>3. e * k >= 0 BY <2>1, SMT
  <2> QED BY <2>2, <2>3, SMT
<1> QED BY <1>1, <1>2, SMT

(* Quotient and remainder are unique. *)
LEMMA ModUnique ==
    ASSUME NEW n \in Nat, NEW k \in Nat \ {0}, NEW q \in Int, NEW r \in 0 .. k - 1,
           n = q * k + r
    PROVE  n % k = r
<1> DEFINE p == n \div k
           s == n % k
<1>1. p \in Int /\ s \in 0 .. k - 1 /\ n = p * k + s BY SMT
<1> HIDE DEF p, s
<1>2. (q - p) * k = s - r BY <1>1, SMT
<1>3. q - p = 0 BY <1>1, <1>2, SmallMultiple, SMT
<1>4. s = r BY <1>1, <1>2, <1>3, SMT
<1> QED BY <1>4 DEF s

(* One step further round a circle of k. *)
LEMMA ModStep ==
    ASSUME NEW n \in Nat, NEW k \in Nat \ {0}
    PROVE  /\ n % k \in 0 .. k - 1
           /\ ((n % k) + 1) % k = (n + 1) % k
<1> DEFINE q == n \div k
           r == n % k
<1>1. q \in Int /\ r \in 0 .. k - 1 /\ n = q * k + r BY SMT
<1> HIDE DEF q, r
<1>2. CASE r + 1 < k
  <2>1. n + 1 = q * k + (r + 1) /\ r + 1 \in 0 .. k - 1 BY <1>1, <1>2, SMT
  <2>2. (n + 1) % k = r + 1 BY <1>1, <2>1, ModUnique, SMT
  <2>3. (r + 1) % k = r + 1 BY <1>1, <1>2, ModUnique, r + 1 = 0 * k + (r + 1), SMT
  <2> QED BY <1>1, <2>2, <2>3 DEF r
<1>3. CASE r + 1 = k
  <2>1. PICK u \in Int : n + 1 = u * k + 0
    <3>1. n + 1 = (q + 1) * k + 0 /\ q + 1 \in Int BY <1>1, <1>3, SMT
    <3> QED BY <3>1
  <2>2. (n + 1) % k = 0
    <3>1. n + 1 \in Nat /\ 0 \in 0 .. k - 1 BY SMT
    <3> QED BY <2>1, <3>1, ModUnique
  <2>3. (r + 1) % k = 0 BY <1>1, <1>3, ModUnique, k = 1 * k + 0, SMT
  <2> QED BY <1>1, <2>2, <2>3 DEF r
<1> QED BY <1>1, <1>2, <1>3, SMT

LEMMA InvInit == (\E sequences \in [Actor -> Seq(State)] : New(sequences)) => MInv
<1> SUFFICES ASSUME NEW sequences \in [Actor -> Seq(State)], New(sequences)
             PROVE  MInv
  OBVIOUS
<1>1. \A a \in Actor : states[a] \in Seq(State) /\ Len(states[a]) \in Nat \ {0}
  BY EmptySeq DEF New
<1>2. MachinesOK BY <1>1 DEF New, MachinesOK
<1>3. InStep
  <2>1. \A a \in Actor : 0 % Len(states[a]) = 0
    <3> SUFFICES ASSUME NEW k \in Nat \ {0} PROVE 0 % k = 0 BY <1>1
    <3>1. 0 = 0 * k + 0 /\ 0 \in 0 .. k - 1 BY SMT
    <3> QED BY <3>1, ModUnique
  <2> QED BY <2>1 DEF New, InStep
<1>4. CyclesInOrder BY DEF New, CyclesInOrder
<1> QED BY <1>2, <1>3, <1>4 DEF MInv

(* handle begins: the new entry of the log is in the state the cycle says. *)
LEMMA InvBegin ==
    ASSUME MInv, NEW a \in Actor, NEW m \in Msg, HandleBegin(a, m)
    PROVE  MInv'
<1> DEFINE k == Len(states[a])
           n == Len(log[a])
<1>1. /\ k \in Nat \ {0} /\ n \in Nat /\ current[a] \in 0 .. k - 1
      /\ states[a] \in Seq(State) /\ log[a] \in Seq([state : State, msg : Msg])
      /\ current[a] = n % k
  <2>1. /\ states[a] \in Seq(State) /\ log[a] \in Seq([state : State, msg : Msg])
        /\ current[a] \in Nat /\ current[a] < k
    BY DEF MInv, MachinesOK
  <2>2. k \in Nat \ {0} /\ n \in Nat /\ current[a] \in 0 .. k - 1 BY <2>1
  <2>3. current[a] = n % k BY DEF MInv, InStep, HandleBegin
  <2> QED BY <2>1, <2>2, <2>3
<1>2. Call(a, m) \in [state : State, msg : Msg]
  <2>1. states[a] \in Seq(State) /\ current[a] \in Nat /\ current[a] < Len(states[a])
    BY DEF MInv, MachinesOK
  <2>2. states[a][current[a] + 1] \in State BY <2>1
  <2> QED BY <2>2 DEF Call
<1>3. /\ states' = states /\ current' = current
      /\ \A b \in Actor : b # a => log'[b] = log[b] /\ pc'[b] = pc[b]
      /\ log'[a] = Append(log[a], Call(a, m)) /\ pc'[a] = "handling"
  BY DEF HandleBegin, MInv, MachinesOK
<1>4. MachinesOK'
  <2>1. log'[a] \in Seq([state : State, msg : Msg]) BY <1>1, <1>2, <1>3
  <2>2. log' \in [Actor -> Seq([state : State, msg : Msg])]
    BY <1>3, <2>1 DEF MInv, MachinesOK, HandleBegin
  <2>3. pc' \in [Actor -> {"ready", "handling", "stopped"}]
    BY DEF MInv, MachinesOK, HandleBegin
  <2> QED BY <1>3, <2>2, <2>3 DEF MInv, MachinesOK
<1>5. Len(log'[a]) = n + 1 BY <1>1, <1>2, <1>3
<1>6. InStep'
  <2>1. (n + 1) - 1 = n /\ n + 1 > 0 BY <1>1
  <2> QED BY <1>1, <1>3, <1>5, <2>1 DEF MInv, InStep
<1>7. CyclesInOrder'
  <2> SUFFICES ASSUME NEW b \in Actor, NEW i \in DOMAIN log'[b]
               PROVE  log'[b][i].state = states[b][((i - 1) % Len(states[b])) + 1]
    BY <1>3 DEF CyclesInOrder
  <2>1. CASE b # a BY <1>3, <2>1 DEF MInv, CyclesInOrder
  <2>2. CASE b = a /\ i \in 1 .. n
    <3>1. log'[a][i] = log[a][i] /\ i \in DOMAIN log[a] BY <1>1, <1>2, <1>3, <2>2
    <3> QED BY <2>2, <3>1 DEF MInv, CyclesInOrder
  <2>3. CASE b = a /\ i = n + 1
    <3>1. log'[a][i] = Call(a, m) BY <1>1, <1>2, <1>3, <2>3
    <3>2. Call(a, m).state = states[a][current[a] + 1] BY DEF Call
    <3>3. i - 1 = n BY <1>1, <2>3
    <3> QED BY <1>1, <2>3, <3>1, <3>2, <3>3
  <2>4. b = a => i \in 1 .. n + 1 BY <1>1, <1>2, <1>3
  <2> QED BY <1>1, <2>1, <2>2, <2>3, <2>4
<1> QED BY <1>4, <1>6, <1>7 DEF MInv

(* handle returns: the index moves on with the number of messages. *)
LEMMA InvReturn ==
    ASSUME MInv, NEW a \in Actor, NEW stays \in BOOLEAN, HandleReturn(a, stays)
    PROVE  MInv'
<1> DEFINE k == Len(states[a])
           n == Len(log[a])
<1>1. /\ k \in Nat \ {0} /\ n \in Nat /\ n > 0
      /\ current[a] = (n - 1) % k
  BY DEF MInv, MachinesOK, InStep, HandleReturn
<1>2. /\ states' = states /\ log' = log
      /\ \A b \in Actor : b # a => current'[b] = current[b] /\ pc'[b] = pc[b]
      /\ pc'[a] \in {"ready", "stopped"}
  BY DEF HandleReturn, MInv, MachinesOK
<1>3. current'[a] = n % k /\ n % k \in 0 .. k - 1
  <2>1. n - 1 \in Nat /\ (n - 1) + 1 = n BY <1>1
  <2>2. (((n - 1) % k) + 1) % k = n % k /\ n % k \in 0 .. k - 1 BY <1>1, <2>1, ModStep
  <2>3. current'[a] = (current[a] + 1) % k BY DEF HandleReturn, Advance, MInv, MachinesOK
  <2> QED BY <1>1, <2>2, <2>3
<1>4. MachinesOK'
  <2>1. n % k \in Nat /\ n % k < k
    <3> SUFFICES ASSUME NEW r \in 0 .. k - 1 PROVE r \in Nat /\ r < k BY <1>3
    <3> QED BY <1>1
  <2>2. current' \in [Actor -> Nat]
    BY <1>2, <1>3, <2>1 DEF MInv, MachinesOK, HandleReturn
  <2>3. \A b \in Actor : current'[b] < Len(states[b])
    BY <1>2, <1>3, <2>1 DEF MInv, MachinesOK
  <2>4. pc' \in [Actor -> {"ready", "handling", "stopped"}]
    BY DEF MInv, MachinesOK, HandleReturn
  <2> QED BY <1>2, <2>2, <2>3, <2>4 DEF MInv, MachinesOK
<1>5. InStep' BY <1>2, <1>3 DEF MInv, InStep
<1>6. CyclesInOrder' BY <1>2 DEF MInv, CyclesInOrder
<1> QED BY <1>4, <1>5, <1>6 DEF MInv

(* Actors that panic or are stopped keep their index, and are called no    *)
(* more.                                                                   *)
LEMMA InvStops ==
    ASSUME MInv, UNCHANGED <<states, current, log>>,
           NEW S \in SUBSET Actor,
           pc' = [a \in Actor |-> IF a \in S THEN "stopped" ELSE pc[a]]
    PROVE  MInv'
<1>1. MachinesOK' BY DEF MInv, MachinesOK
<1>2. InStep' BY DEF MInv, InStep
<1>3. CyclesInOrder' BY DEF MInv, CyclesInOrder
<1> QED BY <1>1, <1>2, <1>3 DEF MInv

(* Over any number of messages, actors and states, no state of the cycle   *)
(* is skipped, repeated or taken out of order (StateMachine::handle).      *)
THEOREM CyclesInOrderHolds == MachineSpec => []CyclesInOrder
<1>1. MInv /\ [MachineNext]_machines => MInv'
  <2> SUFFICES ASSUME MInv, [MachineNext]_machines PROVE MInv' OBVIOUS
  <2>1. CASE UNCHANGED machines
    BY <2>1 DEF machines, MInv, MachinesOK, InStep, CyclesInOrder
  <2>2. ASSUME NEW a \in Actor, NEW m \in Msg, HandleBegin(a, m) PROVE MInv'
    BY <2>2, InvBegin
  <2>3. ASSUME NEW a \in Actor, NEW stays \in BOOLEAN, HandleReturn(a, stays) PROVE MInv'
    BY <2>3, InvReturn
  <2>4. ASSUME NEW a \in Actor, HandlePanic(a) PROVE MInv'
    <3>1. pc' = [b \in Actor |-> IF b \in {a} THEN "stopped" ELSE pc[b]]
      BY <2>4 DEF HandlePanic, MInv, MachinesOK
    <3> QED BY <2>4, <3>1, InvStops, {a} \in SUBSET Actor DEF HandlePanic
  <2>5. ASSUME NEW S \in SUBSET Actor, Stopped(S) PROVE MInv'
    BY <2>5, InvStops DEF Stopped
  <2> QED BY <2>1, <2>2, <2>3, <2>4, <2>5 DEF MachineNext
<1>2. MInv => CyclesInOrder BY DEF MInv
<1> QED BY <1>1, <1>2, InvInit, PTL DEF MachineSpec
-----------------------------------------------------------------------------
(* The k-th message of a client, and how many of them have left its        *)
(* channel. A client is served by the worker of its own number.            *)
Post(c, k) == [to |-> Target(c, k), from |-> c, body |-> Round(k)]
Begun(c) == at[c] - Len(rx[c])

(* The part of an actor in the first k messages of a client. *)
Targets(c) == IF prog.turns THEN {1, 2} ELSE {c}
Share(a, k) == IF ~ prog.turns THEN k ELSE IF a = 1 THEN (k + 1) \div 2 ELSE k \div 2

(* Every message that left the channel was handled, unless the actor was   *)
(* stopped before, or the client was told.                                 *)
Whole(c) == \A a \in Targets(c) : Len(log[a]) = Share(a, Begun(c))
NoLoss(c) ==
    IF Custom THEN pc[c] # "stopped"
    ELSE IF prog = Probe THEN wpc[c] # "exited" ELSE cpc[c] # "panicked"

(* A client's messages are queued in the order of sending. *)
Lane(c) ==
    /\ Len(rx[c]) <= at[c]
    /\ \A i \in DOMAIN rx[c] : rx[c][i] = Post(c, Begun(c) + i)
    /\ wpc[c] = "handling" => /\ env[c] = Post(c, Begun(c)) /\ Begun(c) >= 1
                              /\ pc[env[c].to] = "handling"
    /\ NoLoss(c) => Whole(c)

(* A client waits for the one message that is on its way. *)
Phase(c) ==
    /\ cpc[c] = "done" => at[c] = Length
    /\ cpc[c] = "running" /\ prog.unwraps /\ at[c] >= 1 => answer[c] = Round(at[c])
    /\ wpc[c] = "exited" => rx[c] = <<>>
    /\ IF prog = Probe THEN cpc[c] \in {"running", "done"}
       ELSE IF cpc[c] = "waiting"
         THEN /\ at[c] >= 1 /\ wpc[c] # "exited"
              /\ IF wpc[c] = "handling" THEN rx[c] = <<>> ELSE Len(rx[c]) = 1
         ELSE rx[c] = <<>> /\ wpc[c] # "handling"
Lanes ==
    /\ \A c \in prog.clients : Lane(c) /\ Phase(c)
    /\ \A c \in Actor \ prog.clients : cpc[c] = "done" /\ rx[c] = <<>> /\ wpc[c] # "handling"

(* The actors are called by their worker only, with every round once.      *)
Served ==
    /\ states = [a \in Actor |-> prog.sequence]
    /\ \A a \in Actor : \A n \in DOMAIN log[a] : log[a][n].msg = n
    /\ \A a \in Actor : pc[a] = "handling" => wpc[Home(a)] = "handling" /\ env[Home(a)].to = a
    /\ ~ Custom => \A a \in Actor :
          /\ pc[a] = "stopped" => wpc[Home(a)] = "exited"
          /\ pc[a] # "handling" => current[a] = Len(log[a]) % Len(prog.sequence)

(* Who may have ended. *)
Endings ==
    /\ ~ Threaded => /\ signalled = {}
                     /\ \A w \in Worker : w # 1 => wpc[w] = "control"
                     /\ main = "start" => wpc[1] = "control"
    /\ Threaded => /\ \A w \in Worker : wpc[w] = "exited" => w \in signalled
                   /\ prog # Tasks /\ signalled # {} => main \in {"drop", "done"}
    /\ prog.runtime = "system" /\ wpc[1] = "exited" => Closed
    /\ prog # Probe /\ main \in {"drop", "done"} => \A c \in Client : cpc[c] = "done"
    /\ \A c \in Client : cpc[c] = "panicked" => prog = Tasks /\ c \in signalled
    /\ main = "panicked" /\ prog # Probe => \E c \in Client : cpc[c] = "panicked"

(* The probe has the rounds in order, less the one in hand. *)
Probed ==
    /\ prog # Probe => messages = <<>>
    /\ prog = Probe =>
          /\ main \notin {"done", "panicked"} =>
                /\ wpc[1] # "exited"
                /\ \A i \in DOMAIN messages : messages[i] = i
                /\ Len(messages) = IF wpc[1] = "handling" THEN Len(log[1]) - 1 ELSE Len(log[1])
          /\ main # "start" => seen <= at[1]
          /\ main = "join" => wpc[1] = "control" /\ seen <= Len(log[1])
          /\ main \in {"done", "panicked"} => wpc[1] = "exited"
          /\ main = "done" => Len(log[1]) = 2
          /\ main = "panicked" => seen < 2

PInv == TypeOK /\ prog \in Scripts /\ MInv /\ Lanes /\ Served /\ Endings /\ Probed
-----------------------------------------------------------------------------
(* The scripts. *)

Known(p) ==
    /\ p.turns \in BOOLEAN /\ p.unwraps \in BOOLEAN /\ p.runtime \in {"system", "threads", "kit"}
    /\ p.rounds \in Nat /\ p.clients \subseteq Actor
    /\ p.turns => p.runtime = "system"
    /\ p.runtime # "threads" => p.clients = {1}
    /\ p.runtime = "system" => p.turns /\ p.unwraps
    /\ p = Probe <=> p.runtime = "kit"
    /\ p = Probe => ~ p.unwraps /\ p.rounds = 2
    /\ p = Tasks => p.runtime = "threads" /\ p.unwraps
    /\ p = Counting => p.turns
    /\ p.sequence \in Seq(State) /\ p.sequence # <<>>
    /\ 0 .. p.rounds \subseteq Msg

LEMMA ScriptsKnown == \A p \in Scripts : Known(p)
<1> USE DEF Script
<1>0. {1, 2} \subseteq Actor /\ 0 .. 8 \subseteq Msg /\ 0 .. MaxMessages \subseteq Msg
      /\ MaxMessages \in Nat /\ MaxStates \in Nat
  BY ActorAssumption, MsgAssumption, BoundAssumption
<1>1. /\ {"plain", "Ping", "Pong", "Receive", "Validate", "Process", "Archive", "Execute", "Report"}
            \subseteq State
      /\ AnyState \subseteq State
  BY StateAssumption
<1>2. /\ RallyState \in Seq(State) /\ RallyState # <<>> /\ <<"plain">> \in Seq(State)
      /\ <<"plain">> # <<>> /\ DocState \in Seq(State) /\ DocState # <<>>
      /\ TaskState \in Seq(State) /\ TaskState # <<>>
  BY <1>1 DEF RallyState, DocState, TaskState
<1>3. /\ 0 .. 5 \subseteq Msg /\ 0 .. 4 \subseteq Msg /\ 0 .. 3 \subseteq Msg /\ 0 .. 2 \subseteq Msg
  BY <1>0
<1>4. Known(Counting)
  BY <1>0, <1>2, <1>3 DEF Known, Counting, Probe, Tasks
<1>5. Known(Rally)
  BY <1>0, <1>2, <1>3 DEF Known, Rally, Probe, Tasks, Counting
<1>6. Known(Pipeline)
  BY <1>0, <1>2, <1>3 DEF Known, Pipeline, Probe, Tasks, Counting
<1>7. Known(Tasks)
  BY <1>0, <1>2, <1>3 DEF Known, Probe, Tasks, Counting
<1>8. Known(Probe)
  BY <1>0, <1>2, <1>3 DEF Known, Probe, Tasks, Counting
<1>9. ASSUME NEW s \in Sequences
      PROVE  Known(Any(s))
  <2>1. PICK n \in 1 .. MaxStates : s \in [1 .. n -> AnyState]
    BY <1>9 DEF Sequences
  <2>2. n \in Nat \ {0} /\ s \in [1 .. n -> State]
    BY <1>0, <1>1, <2>1
  <2>3. s \in Seq(State) /\ Len(s) = n
    BY <2>2
  <2>4. s # <<>>
    BY <2>2, <2>3
  <2> QED BY <1>0, <2>3, <2>4 DEF Known, Any, Probe, Tasks, Counting
<1> QED BY <1>4, <1>5, <1>6, <1>7, <1>8, <1>9 DEF Scripts

LEMMA Halves ==
    ASSUME NEW k \in Nat
    PROVE  /\ k \div 2 \in Nat /\ (k + 1) \div 2 \in Nat /\ k % 2 \in {0, 1}
           /\ k % 2 = 0 => (k + 1) \div 2 = k \div 2 /\ (k + 1) % 2 = 1
           /\ k % 2 = 1 => (k + 1) \div 2 = k \div 2 + 1 /\ (k + 1) % 2 = 0
           /\ (k + 2) \div 2 = k \div 2 + 1
           /\ (k + 1) \div 2 <= k /\ k \div 2 <= k
BY SMT

(* A client of a script, its actors and its messages. *)
LEMMA Clients ==
    ASSUME prog \in Scripts, NEW c \in prog.clients
    PROVE  /\ Known(prog) /\ c \in Actor /\ Home(c) = c /\ Length \in Nat
           /\ \A k \in Nat : Target(c, k) \in Targets(c)
           /\ \A a \in Targets(c) : a \in Actor /\ Home(a) = c
           /\ \A d \in prog.clients : c # d => Targets(c) \cap Targets(d) = {}
<1>1. Known(prog)
  BY ScriptsKnown
<1>2. {1, 2} \subseteq Actor
  BY ActorAssumption
<1>3. c \in Actor /\ Home(c) = c
  BY <1>1 DEF Known, Home, Threaded
<1>4. Length \in Nat
  BY <1>1 DEF Known, Length
<1>5. \A k \in Nat : Target(c, k) \in Targets(c)
  <2> TAKE k \in Nat
  <2>1. k % 2 \in {0, 1}
    BY Halves
  <2> QED BY <2>1 DEF Target, Targets
<1>6. \A a \in Targets(c) : a \in Actor /\ Home(a) = c
  BY <1>1, <1>2, <1>3 DEF Targets, Known, Home, Threaded
<1>7. \A d \in prog.clients : c # d => Targets(c) \cap Targets(d) = {}
  BY <1>1 DEF Targets, Known
<1> QED BY <1>1, <1>3, <1>4, <1>5, <1>6, <1>7

(* The next message of a client raises the share of its target. *)
LEMMA ShareStep ==
    ASSUME prog \in Scripts, NEW c \in prog.clients, NEW k \in Nat
    PROVE  /\ \A a \in Targets(c) :
                 /\ Share(a, k) \in Nat
                 /\ Share(a, k + 1) = IF a = Target(c, k + 1) THEN Share(a, k) + 1 ELSE Share(a, k)
           /\ Round(k + 1) = Share(Target(c, k + 1), k) + 1
<1>h. /\ k \div 2 \in Nat /\ (k + 1) \div 2 \in Nat /\ k % 2 \in {0, 1}
      /\ k % 2 = 0 => (k + 1) \div 2 = k \div 2 /\ (k + 1) % 2 = 1
      /\ k % 2 = 1 => (k + 1) \div 2 = k \div 2 + 1 /\ (k + 1) % 2 = 0
      /\ ((k + 1) + 1) \div 2 = k \div 2 + 1
  BY Halves
<1>1. CASE ~ prog.turns
  BY <1>1 DEF Share, Targets, Target, Round
<1>2. CASE prog.turns /\ k % 2 = 0
  <2>1. Target(c, k + 1) = 1 /\ Targets(c) = {1, 2} /\ Round(k + 1) = k \div 2 + 1
    BY <1>h, <1>2 DEF Target, Targets, Round
  <2> QED BY <1>h, <1>2, <2>1 DEF Share
<1>3. CASE prog.turns /\ k % 2 = 1
  <2>1. Target(c, k + 1) = 2 /\ Targets(c) = {1, 2} /\ Round(k + 1) = k \div 2 + 1
    BY <1>h, <1>3 DEF Target, Targets, Round
  <2> QED BY <1>h, <1>3, <2>1 DEF Share
<1> QED BY <1>h, <1>1, <1>2, <1>3

LEMMA Posts ==
    ASSUME prog \in Scripts, NEW c \in prog.clients, NEW k \in Nat, k >= 1, k <= Length
    PROVE  /\ Round(k) \in Nat /\ Round(k) \in Msg /\ Post(c, k) \in Message
           /\ Post(c, k).to = Target(c, k) /\ Post(c, k).from = c /\ Post(c, k).body = Round(k)
           /\ Target(c, k) \in Actor
<1>1. Known(prog) /\ c \in Actor /\ Target(c, k) \in Actor
  BY Clients
<1>2. Round(k) \in 0 .. prog.rounds
  <2>1. prog.rounds \in Nat
    BY <1>1 DEF Known
  <2>2. CASE ~ prog.turns
    BY <2>1, <2>2 DEF Round, Length
  <2>3. CASE prog.turns
    <3>r. PICK r \in Nat : r = prog.rounds
      BY <2>1
    <3>1. k <= 2 * r
      BY <2>3, <3>r DEF Length
    <3>2. (k + 1) \div 2 \in 0 .. r
      BY <3>1, SMT
    <3> QED BY <2>3, <3>r, <3>2 DEF Round
  <2> QED BY <2>2, <2>3
<1>3. Round(k) \in Msg /\ Round(k) \in Nat
  BY <1>1, <1>2 DEF Known
<1> QED BY <1>1, <1>3 DEF Post, Message, Client

(* What depends on the program only. *)
LEMMA Fixed ==
    ASSUME prog' = prog
    PROVE  /\ Threaded' = Threaded /\ Custom' = Custom /\ Length' = Length
           /\ \A a : Home(a)' = Home(a) /\ Targets(a)' = Targets(a)
           /\ \A c, k : Target(c, k)' = Target(c, k) /\ Post(c, k)' = Post(c, k)
           /\ \A k : Round(k)' = Round(k)
           /\ \A a, k : Share(a, k)' = Share(a, k)
           /\ Probe' = Probe /\ Tasks' = Tasks
<1>1. Probe' = Probe /\ Tasks' = Tasks
  BY DEF Probe, Tasks, Script
<1> QED BY <1>1 DEF Threaded, Custom, Length, Home, Targets, Target, Post, Round, Share
-----------------------------------------------------------------------------
(* Clients, actors and channels. *)

(* A step that does not touch a client, its channel or its actors. *)
LEMMA LaneKept ==
    ASSUME prog \in Scripts, NEW c \in prog.clients, Lane(c), Phase(c), prog' = prog,
           at[c] \in Nat, Len(rx[c]) \in Nat,
           at'[c] = at[c], rx'[c] = rx[c], env'[c] = env[c], cpc'[c] = cpc[c],
           answer'[c] = answer[c],
           wpc'[c] = wpc[c] \/ {wpc[c], wpc'[c]} \subseteq {"control", "recv"},
           \A a \in Targets(c) : log'[a] = log[a] /\ pc'[a] = pc[a]
    PROVE  Lane(c)' /\ Phase(c)'
<1>1. /\ Known(prog) /\ \A k \in Nat : Target(c, k) \in Targets(c)
      /\ Length \in Nat
  BY Clients
<1>2. /\ Custom' = Custom /\ Length' = Length /\ Targets(c)' = Targets(c)
      /\ \A k : Post(c, k)' = Post(c, k) /\ Round(k)' = Round(k)
      /\ \A a, k : Share(a, k)' = Share(a, k)
      /\ Probe' = Probe
  BY Fixed
<1>3. Begun(c)' = Begun(c) /\ Begun(c) \in Int
  BY DEF Begun
<1>4. Custom => pc'[c] = pc[c]
  BY <1>1 DEF Known, Custom, Threaded, Targets
<1>5. wpc[c] \in {"handling", "exited"} \/ wpc'[c] \in {"handling", "exited"} => wpc'[c] = wpc[c]
  OBVIOUS
<1>6. NoLoss(c)' <=> NoLoss(c)
  BY <1>2, <1>4, <1>5 DEF NoLoss
<1>7. Whole(c)' <=> Whole(c)
  BY <1>2, <1>3 DEF Whole
<1>8. ASSUME wpc'[c] = "handling"
      PROVE  /\ env'[c] = Post(c, Begun(c)) /\ Begun(c) >= 1
             /\ pc'[env'[c].to] = "handling"
  <2>1. env[c] = Post(c, Begun(c)) /\ Begun(c) >= 1 /\ pc[env[c].to] = "handling"
    BY <1>5, <1>8 DEF Lane
  <2>2. env[c].to = Target(c, Begun(c)) /\ Begun(c) \in Nat
    BY <1>3, <2>1 DEF Post
  <2> QED BY <1>1, <2>1, <2>2
<1>9. Lane(c)'
  BY <1>2, <1>3, <1>6, <1>7, <1>8 DEF Lane
<1>10. Phase(c)'
  BY <1>2, <1>5 DEF Phase
<1> QED BY <1>9, <1>10

(* A step of the loops, or of the main thread. *)
LEMMA LoopKeeps ==
    ASSUME PInv, UNCHANGED <<machines, prog, threadVars, rx, env>>,
           \A w \in Worker :
               wpc'[w] = wpc[w] \/ {wpc[w], wpc'[w]} \subseteq {"control", "recv"}
    PROVE  Lanes' /\ Served' /\ MInv'
<1>0. /\ TypeOK /\ prog \in Scripts /\ Lanes /\ Served /\ MInv /\ prog' = prog
      /\ UNCHANGED <<states, current, pc, log, at, cpc, answer, rx, env>>
  BY DEF PInv, machines, threadVars
<1>1. Known(prog)
  BY <1>0, ScriptsKnown
<1>2. \A c \in Actor : at[c] \in Nat /\ Len(rx[c]) \in Nat
  BY <1>0, <1>1 DEF TypeOK, Client, Worker, Length, Known
<1>3. ASSUME NEW c \in prog.clients PROVE Lane(c)' /\ Phase(c)'
  <2>1. c \in Actor /\ Lane(c) /\ Phase(c)
    BY <1>0, <1>1 DEF Known, Lanes
  <2> QED BY <1>0, <1>2, <2>1, LaneKept DEF Worker
<1>4. Lanes'
  <2>1. \A c \in Actor \ prog.clients : wpc'[c] # "handling"
    BY <1>0 DEF Lanes, Worker
  <2> QED BY <1>0, <1>3, <2>1 DEF Lanes
<1>5. Served'
  <2>1. Custom' = Custom /\ \A a : Home(a)' = Home(a)
    BY <1>0, Fixed
  <2>2. \A a \in Actor : Home(a) \in Worker
    BY ActorAssumption DEF Home, Worker
  <2>3. \A a \in Actor : /\ wpc[Home(a)] = "handling" => wpc'[Home(a)] = "handling"
                         /\ wpc[Home(a)] = "exited" => wpc'[Home(a)] = "exited"
    BY <2>2
  <2> QED BY <1>0, <2>1, <2>3 DEF Served
<1>6. MInv'
  BY <1>0 DEF MInv, MachinesOK, InStep, CyclesInOrder
<1> QED BY <1>4, <1>5, <1>6

(* A step that touches one client only. *)
LEMMA OthersKept ==
    ASSUME PInv, NEW c \in prog.clients, prog' = prog, Lane(c)', Phase(c)',
           \A d \in Actor \ {c} : /\ at'[d] = at[d] /\ rx'[d] = rx[d] /\ env'[d] = env[d]
                                  /\ cpc'[d] = cpc[d] /\ answer'[d] = answer[d]
                                  /\ wpc'[d] = wpc[d],
           \A a \in Actor \ Targets(c) : log'[a] = log[a] /\ pc'[a] = pc[a]
    PROVE  Lanes'
<1>0. TypeOK /\ prog \in Scripts /\ Lanes
  BY DEF PInv
<1>1. Known(prog)
  BY <1>0, ScriptsKnown
<1>2. \A d \in Actor : at[d] \in Nat /\ Len(rx[d]) \in Nat
  BY <1>0, <1>1 DEF TypeOK, Client, Worker, Length, Known
<1>3. ASSUME NEW d \in prog.clients, d # c PROVE Lane(d)' /\ Phase(d)'
  <2>1. d \in Actor /\ Lane(d) /\ Phase(d)
    BY <1>0, <1>1 DEF Known, Lanes
  <2>2. \A a \in Targets(d) : a \in Actor \ Targets(c)
    BY <1>0, <1>3, Clients
  <2> QED BY <1>0, <1>2, <1>3, <2>1, <2>2, LaneKept
<1>4. \A d \in Actor \ prog.clients : d \in Actor \ {c}
  OBVIOUS
<1> QED BY <1>0, <1>3, <1>4 DEF Lanes

(* What the state says of every worker. *)
LEMMA AtWork ==
    ASSUME PInv
    PROVE  /\ Known(prog) /\ prog \in Scripts
           /\ \A c \in Actor : /\ at[c] \in Nat /\ rx[c] \in Seq(Message) /\ Len(rx[c]) \in Nat
                               /\ log[c] \in Seq([state : State, msg : Msg]) /\ Len(log[c]) \in Nat
           /\ \A c \in prog.clients : /\ c \in Actor /\ Lane(c) /\ Phase(c) /\ at[c] <= Length
                                      /\ Begun(c) \in Nat /\ Begun(c) + Len(rx[c]) = at[c]
           /\ \A w \in Worker : rx[w] # <<>> \/ wpc[w] = "handling" => w \in prog.clients
           /\ \A a \in Actor : pc[a] = "handling" => wpc[Home(a)] = "handling"
<1>0. TypeOK /\ prog \in Scripts /\ Lanes /\ Served /\ MInv
  BY DEF PInv
<1>1. Known(prog)
  BY <1>0, ScriptsKnown
<1>2. \A c \in Actor : /\ at[c] \in Nat /\ rx[c] \in Seq(Message) /\ Len(rx[c]) \in Nat
                       /\ log[c] \in Seq([state : State, msg : Msg]) /\ Len(log[c]) \in Nat
                       /\ at[c] <= Length
  <2> SUFFICES ASSUME NEW c \in Actor
               PROVE  /\ at[c] \in Nat /\ rx[c] \in Seq(Message) /\ Len(rx[c]) \in Nat
                      /\ log[c] \in Seq([state : State, msg : Msg]) /\ Len(log[c]) \in Nat
                      /\ at[c] <= Length
    OBVIOUS
  <2>1. at[c] \in 0 .. Length /\ rx[c] \in Seq(Message)
    BY <1>0 DEF TypeOK, Client, Worker
  <2>2. log[c] \in Seq([state : State, msg : Msg])
    BY <1>0 DEF MInv, MachinesOK
  <2>3. Length \in Nat
    BY <1>1 DEF Length, Known
  <2> QED BY <2>1, <2>2, <2>3
<1>3. \A c \in prog.clients : c \in Actor /\ Lane(c) /\ Phase(c)
  BY <1>0, <1>1 DEF Known, Lanes
<1>4. \A c \in prog.clients : Begun(c) \in Nat /\ Begun(c) + Len(rx[c]) = at[c]
  <2> SUFFICES ASSUME NEW c \in prog.clients
               PROVE  Begun(c) \in Nat /\ Begun(c) + Len(rx[c]) = at[c]
    OBVIOUS
  <2>1. at[c] \in Nat /\ Len(rx[c]) \in Nat /\ Len(rx[c]) <= at[c]
    BY <1>2, <1>3 DEF Lane
  <2> QED BY <2>1 DEF Begun
<1>5. \A w \in Worker : rx[w] # <<>> \/ wpc[w] = "handling" => w \in prog.clients
  BY <1>0 DEF Lanes, Worker
<1>6. \A a \in Actor : pc[a] = "handling" => wpc[Home(a)] = "handling"
  BY <1>0 DEF Served
<1> QED BY <1>0, <1>1, <1>2, <1>3, <1>4, <1>5, <1>6

(* The message in hand is the last that left the channel, and the actor    *)
(* has been called with all that were sent to it.                          *)
LEMMA InHand ==
    ASSUME PInv, NEW w \in Worker, wpc[w] = "handling",
           NEW m, m = env[w]
    PROVE  /\ w \in prog.clients /\ m = Post(w, Begun(w)) /\ m.from = w
           /\ m.to = Target(w, Begun(w)) /\ m.to \in Targets(w) /\ m.to \in Actor
           /\ m.body = Round(Begun(w)) /\ Begun(w) \in Nat /\ Begun(w) >= 1
           /\ pc[m.to] = "handling" /\ Whole(w) /\ NoLoss(w)
           /\ Len(log[m.to]) = Round(Begun(w)) /\ Round(Begun(w)) \in Msg
<1>1. /\ w \in prog.clients /\ w \in Actor /\ Lane(w) /\ Phase(w) /\ Begun(w) \in Nat
      /\ Begun(w) <= Length /\ Known(prog) /\ prog \in Scripts
  <2>1. w \in prog.clients /\ Known(prog) /\ prog \in Scripts
    BY AtWork
  <2>2. /\ w \in Actor /\ Lane(w) /\ Phase(w) /\ Begun(w) \in Nat /\ at[w] <= Length
        /\ Begun(w) + Len(rx[w]) = at[w]
    BY <2>1, AtWork
  <2>3. Len(rx[w]) \in Nat /\ at[w] \in Nat
    BY <2>2, AtWork
  <2>4. Length \in Nat
    BY <2>1, Clients
  <2> QED BY <2>1, <2>2, <2>3, <2>4
<1>2. m = Post(w, Begun(w)) /\ Begun(w) >= 1 /\ pc[m.to] = "handling"
  BY <1>1 DEF Lane
<1>3. /\ m.from = w /\ m.to = Target(w, Begun(w)) /\ m.body = Round(Begun(w))
      /\ Round(Begun(w)) \in Msg
  BY <1>1, <1>2, Posts
<1>4. m.to \in Targets(w) /\ m.to \in Actor
  BY <1>1, <1>3, Clients
<1>5. NoLoss(w)
  <2>1. CASE Custom
    <3>1. m.to = w
      BY <1>1, <1>4, <2>1 DEF Known, Custom, Threaded, Targets
    <3> QED BY <1>2, <2>1, <3>1 DEF NoLoss
  <2>2. CASE ~ Custom
    BY <1>1, <2>2 DEF NoLoss, Phase
  <2> QED BY <2>1, <2>2
<1>6. Whole(w)
  BY <1>1, <1>5 DEF Lane
<1>7. Len(log[m.to]) = Round(Begun(w))
  <2>1. Len(log[m.to]) = Share(m.to, Begun(w))
    BY <1>4, <1>6 DEF Whole
  <2>2. PICK j \in Nat : Begun(w) = j + 1
    <3>1. Begun(w) - 1 \in Nat /\ Begun(w) = (Begun(w) - 1) + 1
      BY <1>1, <1>2
    <3> QED BY <3>1
  <2>3. Share(m.to, j + 1) = Round(j + 1)
    <3>1. \A a \in Targets(w) :
             Share(a, j + 1) = IF a = Target(w, j + 1) THEN Share(a, j) + 1 ELSE Share(a, j)
      BY <1>1, ShareStep
    <3>2. Round(j + 1) = Share(Target(w, j + 1), j) + 1
      BY <1>1, ShareStep
    <3>3. m.to = Target(w, j + 1)
      BY <1>3, <2>2
    <3> QED BY <1>4, <3>1, <3>2, <3>3
  <2> QED BY <2>1, <2>2, <2>3
<1> QED BY <1>1, <1>2, <1>3, <1>4, <1>5, <1>6, <1>7

(* The message that is taken next. *)
LEMMA InFront ==
    ASSUME PInv, NEW w \in Worker, rx[w] # <<>>, wpc[w] = "recv", NEW m, m = Head(rx[w])
    PROVE  /\ w \in prog.clients /\ m = Post(w, Begun(w) + 1) /\ m.from = w
           /\ m.to = Target(w, Begun(w) + 1) /\ m.to \in Targets(w) /\ m.to \in Actor
           /\ m.body = Round(Begun(w) + 1) /\ m.body \in Msg /\ m \in Message
           /\ Begun(w) \in Nat /\ pc[m.to] # "handling"
           /\ ~ Custom => pc[m.to] = "ready"
           /\ pc[m.to] = "ready" => Whole(w)
           /\ Tail(rx[w]) \in Seq(Message) /\ Len(Tail(rx[w])) = Len(rx[w]) - 1
           /\ \A i \in 1 .. Len(rx[w]) - 1 : Tail(rx[w])[i] = rx[w][i + 1]
<1>1. w \in prog.clients /\ Known(prog) /\ prog \in Scripts
  BY AtWork
<1>2. /\ w \in Actor /\ Lane(w) /\ Phase(w) /\ Begun(w) \in Nat /\ at[w] <= Length
      /\ Begun(w) + Len(rx[w]) = at[w]
  BY <1>1, AtWork
<1>3. rx[w] \in Seq(Message) /\ Len(rx[w]) \in Nat /\ at[w] \in Nat
  BY <1>2, AtWork
<1>4. /\ Head(rx[w]) = rx[w][1] /\ Tail(rx[w]) \in Seq(Message)
      /\ Len(Tail(rx[w])) = Len(rx[w]) - 1 /\ 1 \in DOMAIN rx[w] /\ Len(rx[w]) >= 1
      /\ \A i \in 1 .. Len(rx[w]) - 1 : Tail(rx[w])[i] = rx[w][i + 1]
  BY <1>3
<1>5. m = Post(w, Begun(w) + 1)
  BY <1>2, <1>4 DEF Lane
<1>6. Length \in Nat /\ Begun(w) + 1 \in Nat /\ Begun(w) + 1 >= 1 /\ Begun(w) + 1 <= Length
  <2>1. Length \in Nat
    BY <1>1, Clients
  <2> QED BY <1>2, <1>3, <1>4, <2>1
<1>7. /\ m.from = w /\ m.to = Target(w, Begun(w) + 1) /\ m.body = Round(Begun(w) + 1)
      /\ m.body \in Msg /\ m \in Message
  BY <1>1, <1>5, <1>6, Posts
<1>8. m.to \in Targets(w) /\ m.to \in Actor /\ Home(m.to) = w
  BY <1>1, <1>6, <1>7, Clients
<1>9. pc[m.to] # "handling"
  BY <1>8, AtWork
<1>10. ~ Custom => pc[m.to] = "ready"
  <2>1. ~ Custom => pc[m.to] # "stopped"
    BY <1>8 DEF PInv, Served
  <2>2. pc[m.to] \in {"ready", "handling", "stopped"}
    BY <1>8 DEF PInv, MInv, MachinesOK
  <2> QED BY <1>9, <2>1, <2>2
<1>11. ASSUME pc[m.to] = "ready" PROVE Whole(w)
  <2>1. CASE Custom
    <3>1. m.to = w
      BY <1>1, <1>8, <2>1 DEF Known, Custom, Threaded, Targets
    <3> QED BY <1>2, <1>11, <2>1, <3>1 DEF NoLoss, Lane
  <2>2. CASE ~ Custom
    BY <1>2, <2>2 DEF NoLoss, Lane, Phase
  <2> QED BY <2>1, <2>2
<1> QED BY <1>1, <1>2, <1>4, <1>5, <1>7, <1>8, <1>9, <1>10, <1>11

LEMMA ServedKept ==
    ASSUME PInv, UNCHANGED <<machines, prog, wpc, env>>
    PROVE  Served' /\ MInv'
<1>1. UNCHANGED <<states, current, pc, log, prog, wpc, env>>
  BY DEF machines
<1>2. Custom' = Custom /\ \A a : Home(a)' = Home(a)
  BY <1>1, Fixed
<1>3. Served'
  BY <1>1, <1>2 DEF PInv, Served
<1>4. MInv'
  BY <1>1 DEF PInv, MInv, MachinesOK, InStep, CyclesInOrder
<1> QED BY <1>3, <1>4

(* The printer is told the count, which is the round. *)
LEMMA BodyIsRound ==
    ASSUME PInv, NEW c \in prog.clients, cpc[c] = "running", NEW k, k = at[c] + 1
    PROVE  Body(c, k) = Round(k)
<1>1. Known(prog) /\ Phase(c) /\ at[c] \in Nat
  BY AtWork
<1>2. CASE prog = Counting /\ Target(c, k) = 2
  <2>1. prog.turns /\ prog.unwraps
    BY <1>1, <1>2 DEF Known
  <2>2. k \in Nat /\ k % 2 \in {0, 1} /\ (k % 2 = 0 => (k + 1) \div 2 = k \div 2)
    BY <1>1, Halves
  <2>3. k % 2 = 0
    BY <1>2, <2>1, <2>2 DEF Target
  <2>4. at[c] # 0
    <3>1. (0 + 1) % 2 = 1
      BY SMT
    <3> QED BY <2>3, <3>1
  <2>5. answer[c] = Round(at[c])
    BY <1>1, <2>1, <2>4 DEF Phase
  <2>6. Round(k) = k \div 2 /\ Round(at[c]) = k \div 2
    BY <2>1, <2>2, <2>3 DEF Round
  <2> QED BY <1>2, <2>5, <2>6 DEF Body
<1>3. CASE ~ (prog = Counting /\ Target(c, k) = 2)
  BY <1>3 DEF Body
<1> QED BY <1>2, <1>3

(* What a client sends goes to the end of its channel. *)
LEMMA SendFacts ==
    ASSUME PInv, NEW c \in Client, ClientSend(c)
    PROVE  /\ c \in prog.clients /\ cpc[c] = "running" /\ at[c] < Length
           /\ at' = [at EXCEPT ![c] = at[c] + 1]
           /\ UNCHANGED <<machines, prog, main, answer, wpc, env, signalled, kitVars>>
           /\ \/ /\ wpc[c] = "exited" /\ rx' = rx /\ rx[c] = <<>>
                 /\ prog = Probe \/ (prog = Tasks /\ c \in signalled)
                 /\ cpc' = [d \in Client |-> IF d = c THEN Failed ELSE cpc[d]]
              \/ /\ wpc[c] # "exited" /\ rx' = [rx EXCEPT ![c] = Append(rx[c], Post(c, at[c] + 1))]
                 /\ cpc' = [cpc EXCEPT ![c] = IF prog = Probe THEN cpc[c] ELSE "waiting"]
<1>k. PICK k : k = at[c] + 1
  OBVIOUS
<1>1. /\ cpc[c] = "running" /\ at[c] < Length /\ at' = [at EXCEPT ![c] = k]
      /\ UNCHANGED <<machines, prog, main, answer, wpc, env, signalled, kitVars>>
  BY <1>k DEF ClientSend
<1>2. c \in prog.clients
  BY <1>1 DEF PInv, Lanes, Client
<1>3. Known(prog) /\ Phase(c) /\ k \in Nat
  BY <1>k, <1>2, AtWork
<1>4. Home(Target(c, k)) = c
  BY <1>2, <1>3, Clients DEF PInv
<1>5. Body(c, k) = Round(k)
  BY <1>k, <1>1, <1>2, BodyIsRound
<1>6. [to |-> Target(c, k), from |-> c, body |-> Body(c, k)] = Post(c, k)
  BY <1>5 DEF Post
<1>7. CASE wpc[c] = "exited"
  <2>1. rx' = rx /\ Fail({c})
    BY <1>k, <1>4, <1>7 DEF ClientSend
  <2>2. cpc' = [d \in Client |-> IF d = c THEN Failed ELSE cpc[d]]
    <3>1. \A d : d \in {c} <=> d = c
      OBVIOUS
    <3> QED BY <2>1, <3>1 DEF Fail
  <2>3. rx[c] = <<>>
    BY <1>3, <1>7 DEF Phase
  <2>4. c \in Client /\ c \in Worker
    BY DEF Client, Worker
  <2>5. ~ (Threaded /\ prog # Tasks)
    BY <1>1, <1>3, <1>7, <2>4 DEF PInv, Endings, Known, Threaded
  <2>6. prog.runtime # "system"
    <3>1. prog.runtime = "system" => c = 1
      BY <1>2, <1>3 DEF Known
    <3> QED BY <1>1, <1>7, <2>4, <3>1 DEF PInv, Endings, Closed, Ended
  <2>7. prog = Probe \/ (prog = Tasks /\ c \in signalled)
    BY <1>3, <1>7, <2>4, <2>5, <2>6 DEF PInv, Endings, Known, Threaded
  <2> QED BY <1>k, <1>1, <1>2, <1>7, <2>1, <2>2, <2>3, <2>7
<1>8. CASE wpc[c] # "exited"
  <2>1. /\ rx' = [rx EXCEPT ![c] = Append(rx[c], Post(c, k))]
        /\ cpc' = [cpc EXCEPT ![c] = IF prog = Probe THEN cpc[c] ELSE "waiting"]
    BY <1>k, <1>4, <1>6, <1>8 DEF ClientSend
  <2> QED BY <1>k, <1>1, <1>2, <1>8, <2>1
<1> QED BY <1>7, <1>8

LEMMA SendLanes ==
    ASSUME PInv, NEW c \in Client, ClientSend(c)
    PROVE  Lanes'
<1>1. /\ c \in prog.clients /\ cpc[c] = "running" /\ at[c] < Length
      /\ at' = [at EXCEPT ![c] = at[c] + 1]
      /\ UNCHANGED <<machines, prog, main, answer, wpc, env, signalled, kitVars>>
  BY SendFacts
<1>2. /\ Known(prog) /\ c \in Actor /\ Lane(c) /\ Phase(c) /\ Begun(c) \in Nat
      /\ Begun(c) + Len(rx[c]) = at[c] /\ at[c] \in Nat /\ rx[c] \in Seq(Message)
      /\ Len(rx[c]) \in Nat
  BY <1>1, AtWork
<1>3. /\ at \in [Client -> 0 .. Length] /\ cpc \in [Client -> {"running", "waiting", "done", "panicked"}]
      /\ rx \in [Worker -> Seq(Message)] /\ c \in Client /\ c \in Worker
  BY DEF PInv, TypeOK, Client, Worker
<1>4. at'[c] = at[c] + 1 /\ \A d \in Actor \ {c} : at'[d] = at[d]
  BY <1>1, <1>3 DEF Client
<1>5. UNCHANGED <<states, current, pc, log, env, wpc, answer, prog>>
  BY <1>1 DEF machines
<1>f. /\ Custom' = Custom /\ Length' = Length /\ Targets(c)' = Targets(c) /\ Probe' = Probe
      /\ \A k : Post(c, k)' = Post(c, k) /\ Round(k)' = Round(k)
      /\ \A a, k : Share(a, k)' = Share(a, k)
  BY <1>1, Fixed
<1>6. CASE /\ wpc[c] = "exited" /\ rx' = rx /\ rx[c] = <<>>
           /\ prog = Probe \/ (prog = Tasks /\ c \in signalled)
           /\ cpc' = [d \in Client |-> IF d = c THEN Failed ELSE cpc[d]]
  <2>1. cpc'[c] = Failed /\ \A d \in Actor \ {c} : cpc'[d] = cpc[d]
    BY <1>3, <1>6 DEF Client
  <2>2. ~ Custom /\ (prog = Probe => Failed = "running") /\ (prog # Probe => Failed = "panicked")
    BY <1>2, <1>6 DEF Known, Custom, Failed, Threaded
  <2>3. ~ NoLoss(c)'
    BY <1>5, <1>6, <1>f, <2>1, <2>2 DEF NoLoss
  <2>4. Len(rx'[c]) = 0 /\ DOMAIN rx'[c] = {}
    BY <1>6
  <2>5. Lane(c)'
    BY <1>2, <1>4, <1>5, <1>6, <2>3, <2>4 DEF Lane
  <2>6. prog = Probe => ~ prog.unwraps
    BY <1>2 DEF Known
  <2>7. Phase(c)'
    BY <1>5, <1>6, <1>f, <2>1, <2>2, <2>6 DEF Phase
  <2> QED BY <1>1, <1>4, <1>5, <1>6, <2>1, <2>5, <2>7, OthersKept
<1>7. CASE /\ wpc[c] # "exited" /\ rx' = [rx EXCEPT ![c] = Append(rx[c], Post(c, at[c] + 1))]
           /\ cpc' = [cpc EXCEPT ![c] = IF prog = Probe THEN cpc[c] ELSE "waiting"]
  <2>m. PICK m : m = Post(c, at[c] + 1)
    OBVIOUS
  <2>0. m \in Message
    <3>1. Length \in Nat /\ prog \in Scripts
      BY <1>1, Clients DEF PInv
    <3> QED BY <1>1, <1>2, <2>m, <3>1, Posts
  <2>1. /\ rx'[c] = Append(rx[c], m) /\ \A d \in Actor \ {c} : rx'[d] = rx[d] /\ cpc'[d] = cpc[d]
        /\ cpc'[c] = IF prog = Probe THEN cpc[c] ELSE "waiting"
    BY <1>3, <1>7, <2>m DEF Client, Worker
  <2>2. /\ Len(rx'[c]) = Len(rx[c]) + 1 /\ DOMAIN rx'[c] = 1 .. Len(rx[c]) + 1
        /\ rx'[c][Len(rx[c]) + 1] = m
        /\ \A i \in 1 .. Len(rx[c]) : rx'[c][i] = rx[c][i] /\ i \in DOMAIN rx[c]
    BY <1>2, <2>0, <2>1
  <2>3. Begun(c)' = Begun(c)
    BY <1>2, <1>4, <2>2 DEF Begun
  <2>4. \A i \in DOMAIN rx'[c] : rx'[c][i] = Post(c, Begun(c) + i)
    <3> TAKE i \in DOMAIN rx'[c]
    <3>1. CASE i \in 1 .. Len(rx[c])
      BY <1>2, <2>2, <3>1 DEF Lane
    <3>2. CASE i = Len(rx[c]) + 1
      <4>1. Begun(c) + i = at[c] + 1
        BY <1>2, <3>2
      <4> QED BY <2>m, <2>2, <3>2, <4>1
    <3> QED BY <1>2, <2>2, <3>1, <3>2
  <2>5. (NoLoss(c)' <=> NoLoss(c)) /\ (Whole(c)' <=> Whole(c))
    BY <1>1, <1>5, <1>f, <2>1, <2>3 DEF NoLoss, Whole
  <2>6. Lane(c)'
    BY <1>2, <1>4, <1>5, <1>f, <2>2, <2>3, <2>4, <2>5 DEF Lane
  <2>7. prog # Probe => rx[c] = <<>> /\ wpc[c] # "handling"
    BY <1>1, <1>2 DEF Phase
  <2>8. prog = Probe => ~ prog.unwraps
    BY <1>2 DEF Known
  <2>9. Phase(c)'
    BY <1>1, <1>2, <1>4, <1>5, <1>7, <1>f, <2>1, <2>2, <2>7, <2>8 DEF Phase
  <2> QED BY <1>1, <1>4, <1>5, <2>1, <2>6, <2>9, OthersKept
<1> QED BY <1>6, <1>7, SendFacts

LEMMA EndsLanes ==
    ASSUME PInv, NEW c \in Client, ClientEnds(c)
    PROVE  Lanes' /\ c \in prog.clients
<1>1. /\ cpc[c] = "running" /\ at[c] = Length /\ cpc' = [cpc EXCEPT ![c] = "done"]
      /\ UNCHANGED <<states, current, pc, log, prog, at, answer, rx, wpc, env>>
  BY DEF ClientEnds, machines, workerVars
<1>2. c \in prog.clients
  BY <1>1 DEF PInv, Lanes, Client
<1>3. Known(prog) /\ c \in Actor /\ Lane(c) /\ Phase(c)
  BY <1>2, AtWork
<1>4. cpc'[c] = "done" /\ \A d \in Actor \ {c} : cpc'[d] = cpc[d]
  BY <1>1 DEF PInv, TypeOK, Client
<1>f. /\ Custom' = Custom /\ Length' = Length /\ Targets(c)' = Targets(c) /\ Probe' = Probe
      /\ \A k : Post(c, k)' = Post(c, k) /\ Round(k)' = Round(k)
      /\ \A a, k : Share(a, k)' = Share(a, k)
  BY <1>1, Fixed
<1>5. (NoLoss(c)' <=> NoLoss(c)) /\ Begun(c)' = Begun(c) /\ (Whole(c)' <=> Whole(c))
  BY <1>1, <1>4, <1>f DEF NoLoss, Begun, Whole
<1>6. Lane(c)'
  BY <1>1, <1>3, <1>5, <1>f DEF Lane
<1>7. Phase(c)'
  BY <1>1, <1>3, <1>4, <1>f DEF Phase
<1> QED BY <1>1, <1>2, <1>4, <1>6, <1>7, OthersKept

(* A message gets to its actor, or is lost because the actor was stopped.  *)
Taken(w, m) ==
    /\ pc[m.to] = "ready" /\ HandleBegin(m.to, m.body)
    /\ env' = [env EXCEPT ![w] = m] /\ wpc' = [wpc EXCEPT ![w] = "handling"]
    /\ cpc' = cpc
Lost(w, m) ==
    /\ Custom /\ pc[m.to] = "stopped" /\ UNCHANGED <<machines, env>>
    /\ cpc' = [d \in Client |-> IF d = w THEN "running" ELSE cpc[d]]
    /\ wpc' = [wpc EXCEPT ![w] = "control"]

LEMMA DispatchFacts ==
    ASSUME PInv, NEW w \in Worker, Dispatch(w), NEW m, m = Head(rx[w])
    PROVE  /\ rx[w] # <<>> /\ wpc[w] = "recv" /\ processed' = TRUE
           /\ rx' = [rx EXCEPT ![w] = Tail(rx[w])]
           /\ UNCHANGED <<prog, main, at, answer, signalled, messages, seen>>
           /\ Taken(w, m) \/ Lost(w, m)
<1>1. /\ rx[w] # <<>> /\ wpc[w] = "recv" /\ processed' = TRUE
      /\ rx' = [rx EXCEPT ![w] = Tail(rx[w])]
      /\ UNCHANGED <<prog, main, at, answer, signalled, messages, seen>>
  BY DEF Dispatch
<1>2. CASE pc[m.to] = "ready"
  BY <1>1, <1>2 DEF Dispatch, Goto, Taken
<1>3. CASE pc[m.to] # "ready"
  <2>1. m.from = w /\ m.to \in Actor /\ pc[m.to] # "handling" /\ Custom
    BY <1>1, <1>3, InFront
  <2>2. pc[m.to] = "stopped"
    BY <1>3, <2>1 DEF PInv, MInv, MachinesOK
  <2>3. Fail({w}) /\ Goto(w, Loop) /\ UNCHANGED <<machines, env>>
    BY <1>3, <2>1 DEF Dispatch
  <2>4. Failed = "running" /\ Loop = "control"
    BY <2>1 DEF Custom, Failed, Loop
  <2>5. \A d : d \in {w} <=> d = w
    OBVIOUS
  <2> QED BY <1>1, <2>1, <2>2, <2>3, <2>4, <2>5 DEF Fail, Goto, Lost
<1> QED BY <1>2, <1>3

LEMMA DispatchLanes ==
    ASSUME PInv, NEW w \in Worker, Dispatch(w)
    PROVE  Lanes' /\ Served' /\ MInv'
<1>m. PICK m : m = Head(rx[w])
  OBVIOUS
<1>1. /\ rx[w] # <<>> /\ wpc[w] = "recv" /\ rx' = [rx EXCEPT ![w] = Tail(rx[w])]
      /\ UNCHANGED <<prog, main, at, answer, signalled, messages, seen>>
  BY <1>m, DispatchFacts
<1>2. /\ w \in prog.clients /\ m = Post(w, Begun(w) + 1) /\ m.from = w
      /\ m.to = Target(w, Begun(w) + 1) /\ m.to \in Targets(w) /\ m.to \in Actor
      /\ m.body = Round(Begun(w) + 1) /\ m.body \in Msg /\ m \in Message
      /\ Begun(w) \in Nat /\ pc[m.to] # "handling"
  BY <1>1, <1>m, InFront
<1>3. /\ Tail(rx[w]) \in Seq(Message) /\ Len(Tail(rx[w])) = Len(rx[w]) - 1
      /\ \A i \in 1 .. Len(rx[w]) - 1 : Tail(rx[w])[i] = rx[w][i + 1]
      /\ pc[m.to] = "ready" => Whole(w)
  BY <1>1, <1>m, InFront
<1>4. /\ Known(prog) /\ prog \in Scripts /\ w \in Actor /\ Lane(w) /\ Phase(w)
      /\ Begun(w) + Len(rx[w]) = at[w] /\ at[w] \in Nat /\ Len(rx[w]) \in Nat
      /\ rx[w] \in Seq(Message)
  BY <1>2, AtWork
<1>5. /\ cpc \in [Client -> {"running", "waiting", "done", "panicked"}]
      /\ rx \in [Worker -> Seq(Message)] /\ wpc \in [Worker -> {"control", "recv", "handling", "exited"}]
      /\ MInv /\ MachinesOK /\ Served
  BY DEF PInv, TypeOK, MInv
<1>6. rx'[w] = Tail(rx[w]) /\ \A d \in Actor \ {w} : rx'[d] = rx[d]
  BY <1>1, <1>5 DEF Worker
<1>7. Begun(w)' = Begun(w) + 1
  <2>1. Len(rx'[w]) = Len(rx[w]) - 1 /\ at'[w] = at[w]
    BY <1>1, <1>3, <1>6
  <2>2. at[w] - (Len(rx[w]) - 1) = at[w] - Len(rx[w]) + 1
    BY <1>4
  <2> QED BY <2>1, <2>2 DEF Begun
<1>f. /\ Custom' = Custom /\ Length' = Length /\ Targets(w)' = Targets(w) /\ Probe' = Probe
      /\ \A k : Post(w, k)' = Post(w, k) /\ Round(k)' = Round(k)
      /\ \A a, k : Share(a, k)' = Share(a, k) /\ Home(a)' = Home(a)
  BY <1>1, Fixed
<1>8. \A i \in DOMAIN rx'[w] : rx'[w][i] = Post(w, Begun(w) + 1 + i)
  <2> TAKE i \in DOMAIN rx'[w]
  <2>1. i \in 1 .. Len(rx[w]) - 1
    BY <1>3, <1>6
  <2>2. i + 1 \in DOMAIN rx[w] /\ rx'[w][i] = rx[w][i + 1]
    BY <1>3, <1>4, <1>6, <2>1
  <2>3. rx[w][i + 1] = Post(w, Begun(w) + (i + 1))
    BY <1>4, <2>2 DEF Lane
  <2>4. Begun(w) + (i + 1) = Begun(w) + 1 + i
    BY <1>2, <2>1
  <2> QED BY <2>2, <2>3, <2>4
<1>9. Len(rx'[w]) <= at'[w]
  BY <1>1, <1>2, <1>3, <1>4, <1>6
<1>10. prog # Probe => cpc[w] = "waiting" /\ Len(rx[w]) = 1 /\ rx'[w] = <<>>
  <2> SUFFICES ASSUME prog # Probe
               PROVE  cpc[w] = "waiting" /\ Len(rx[w]) = 1 /\ rx'[w] = <<>>
    OBVIOUS
  <2>1. cpc[w] = "waiting" /\ Len(rx[w]) = 1
    BY <1>1, <1>4 DEF Phase
  <2>2. Len(rx'[w]) = 0 /\ rx'[w] \in Seq(Message)
    BY <1>3, <1>6, <2>1
  <2> QED BY <2>1, <2>2
<1>11. CASE Taken(w, m)
  <2>0. /\ pc[m.to] = "ready" /\ HandleBegin(m.to, m.body)
        /\ env' = [env EXCEPT ![w] = m] /\ wpc' = [wpc EXCEPT ![w] = "handling"]
        /\ cpc' = cpc
    BY <1>11 DEF Taken
  <2>a. PICK a \in Targets(w) : a = m.to
    BY <1>2
  <2>1. /\ pc' = [pc EXCEPT ![a] = "handling"]
        /\ log' = [log EXCEPT ![a] = Append(log[a], Call(a, m.body))]
        /\ states' = states /\ current' = current /\ a \in Actor
    BY <1>2, <2>0, <2>a DEF HandleBegin
  <2>2. /\ wpc'[w] = "handling" /\ \A d \in Actor \ {w} : wpc'[d] = wpc[d]
        /\ pc'[a] = "handling" /\ \A b \in Actor \ {a} : pc'[b] = pc[b] /\ log'[b] = log[b]
        /\ log'[a] = Append(log[a], Call(a, m.body))
    BY <1>5, <2>0, <2>1 DEF MachinesOK, Worker
  <2>3. env'[w] = m /\ \A d \in Actor \ {w} : env'[d] = env[d]
    <3>1. env \in [Worker -> Message \cup {None}]
      BY DEF PInv, TypeOK
    <3> QED BY <2>0, <3>1 DEF Worker
  <2>4. Call(a, m.body) \in [state : State, msg : Msg] /\ Call(a, m.body).msg = m.body
    <3>1. states[a] \in Seq(State) /\ current[a] \in Nat /\ current[a] < Len(states[a])
      BY <1>5, <2>1 DEF MachinesOK
    <3>2. states[a][current[a] + 1] \in State
      BY <3>1
    <3> QED BY <1>2, <3>2 DEF Call
  <2>5. /\ Len(log'[a]) = Len(log[a]) + 1 /\ DOMAIN log'[a] = 1 .. Len(log[a]) + 1
        /\ log'[a][Len(log[a]) + 1] = Call(a, m.body) /\ Len(log[a]) \in Nat
        /\ \A n \in 1 .. Len(log[a]) : log'[a][n] = log[a][n] /\ n \in DOMAIN log[a]
    <3>1. log[a] \in Seq([state : State, msg : Msg])
      BY <2>1, AtWork
    <3> QED BY <2>2, <2>4, <3>1
  <2>6. /\ \A b \in Targets(w) :
              Share(b, Begun(w) + 1) = IF b = a THEN Share(b, Begun(w)) + 1 ELSE Share(b, Begun(w))
        /\ Round(Begun(w) + 1) = Share(a, Begun(w)) + 1
    <3>j. PICK j \in Nat : j = Begun(w)
      BY <1>2
    <3>1. \A b \in Targets(w) :
             Share(b, j + 1) = IF b = Target(w, j + 1) THEN Share(b, j) + 1 ELSE Share(b, j)
      BY <1>2, <1>4, ShareStep
    <3>2. Round(j + 1) = Share(Target(w, j + 1), j) + 1
      BY <1>2, <1>4, ShareStep
    <3>3. a = Target(w, j + 1)
      BY <1>2, <2>a, <3>j
    <3> QED BY <3>j, <3>1, <3>2, <3>3
  <2>7. \A b \in Targets(w) : Len(log[b]) = Share(b, Begun(w)) /\ b \in Actor
    <3>1. Whole(w)
      BY <1>3, <2>0
    <3> QED BY <1>2, <1>4, <3>1, Clients DEF Whole
  <2>8. \A b \in Targets(w) : Len(log'[b]) = Share(b, Begun(w) + 1)
    BY <2>2, <2>5, <2>6, <2>7
  <2>9. Lane(w)'
    <3>1. Whole(w)'
      BY <1>7, <1>f, <2>8 DEF Whole
    <3>2. env'[w] = Post(w, Begun(w) + 1) /\ Begun(w) + 1 >= 1 /\ pc'[env'[w].to] = "handling"
      BY <1>2, <2>2, <2>3, <2>a
    <3> QED BY <1>7, <1>8, <1>9, <1>f, <3>1, <3>2 DEF Lane
  <2>10. Phase(w)'
    BY <1>1, <1>4, <1>10, <2>0, <1>f, <2>2 DEF Phase
  <2>11. \A b \in Actor : b # a /\ pc[b] = "handling" => Home(b) \in Actor \ {w}
    <3> SUFFICES ASSUME NEW b \in Actor, pc[b] = "handling" PROVE Home(b) \in Actor \ {w}
      OBVIOUS
    <3>1. wpc[Home(b)] = "handling"
      BY AtWork
    <3>2. Home(b) \in Actor
      BY ActorAssumption DEF Home
    <3> QED BY <1>1, <3>1, <3>2
  <2>12. Lanes'
    BY <1>1, <1>2, <1>6, <2>0, <2>2, <2>3, <2>9, <2>10, <2>a, OthersKept
  <2>13. Served'
    <3>1. states' = [b \in Actor |-> prog'.sequence]
      BY <1>1, <1>5, <2>1 DEF Served
    <3>2. \A b \in Actor : \A n \in DOMAIN log'[b] : log'[b][n].msg = n
      <4> TAKE b \in Actor
      <4>1. CASE b = a
        <5> TAKE n \in DOMAIN log'[b]
        <5>1. CASE n \in 1 .. Len(log[a])
          BY <1>5, <2>1, <2>5, <4>1, <5>1 DEF Served
        <5>2. CASE n = Len(log[a]) + 1
          BY <1>2, <2>4, <2>5, <2>6, <2>7, <4>1, <5>2
        <5> QED BY <2>5, <4>1, <5>1, <5>2
      <4>2. CASE b # a
        BY <1>5, <2>2, <4>2 DEF Served
      <4> QED BY <4>1, <4>2
    <3>3. \A b \in Actor : pc'[b] = "handling" =>
              wpc'[Home(b)] = "handling" /\ env'[Home(b)].to = b
      <4> TAKE b \in Actor
      <4>1. CASE b = a
        <5>1. Home(a) = w
          BY <1>2, <1>4, <2>a, Clients
        <5> QED BY <2>2, <2>3, <2>a, <4>1, <5>1
      <4>2. CASE b # a
        BY <1>5, <2>2, <2>3, <2>11, <4>2 DEF Served
      <4> QED BY <4>1, <4>2
    <3>4. ASSUME ~ Custom
          PROVE  \A b \in Actor :
                    /\ pc'[b] = "stopped" => wpc'[Home(b)] = "exited"
                    /\ pc'[b] # "handling" => current'[b] = Len(log'[b]) % Len(prog.sequence)
      <4> TAKE b \in Actor
      <4>1. CASE b = a
        BY <2>2, <4>1
      <4>2. CASE b # a
        <5>1. /\ pc[b] = "stopped" => wpc[Home(b)] = "exited"
              /\ pc[b] # "handling" => current[b] = Len(log[b]) % Len(prog.sequence)
          BY <1>5, <3>4 DEF Served
        <5>2. pc'[b] = pc[b] /\ log'[b] = log[b] /\ current'[b] = current[b] /\ Home(b) \in Actor
          BY <2>1, <2>2, <4>2, ActorAssumption DEF Home
        <5>3. wpc[Home(b)] = "exited" => wpc'[Home(b)] = "exited"
          BY <1>1, <2>2, <5>2
        <5> QED BY <5>1, <5>2, <5>3
      <4> QED BY <4>1, <4>2
    <3>5. prog' = prog
      BY <1>1
    <3>6. \A b : Home(b)' = Home(b)
      BY <1>f
    <3>7. Custom' = Custom
      BY <1>f
    <3> QED BY <3>1, <3>2, <3>3, <3>4, <3>5, <3>6, <3>7 DEF Served
  <2>14. MInv'
    BY <1>2, <1>5, <2>0, InvBegin
  <2> QED BY <2>12, <2>13, <2>14
<1>12. CASE Lost(w, m)
  <2>0. /\ Custom /\ pc[m.to] = "stopped" /\ UNCHANGED <<machines, env>>
        /\ cpc' = [d \in Client |-> IF d = w THEN "running" ELSE cpc[d]]
        /\ wpc' = [wpc EXCEPT ![w] = "control"]
    BY <1>12 DEF Lost
  <2>1. prog # Probe /\ ~ prog.unwraps /\ Targets(w) = {w} /\ m.to = w
    BY <1>2, <1>4, <2>0 DEF Known, Custom, Threaded, Targets
  <2>2. /\ wpc'[w] = "control" /\ cpc'[w] = "running"
        /\ \A d \in Actor \ {w} : wpc'[d] = wpc[d] /\ cpc'[d] = cpc[d]
    BY <1>5, <2>0 DEF Worker, Client
  <2>3. UNCHANGED <<states, current, pc, log, env, prog, answer, at>>
    BY <1>1, <2>0 DEF machines
  <2>4. ~ NoLoss(w)'
    BY <2>0, <1>f, <2>1, <2>3 DEF NoLoss
  <2>5. Lane(w)'
    BY <1>7, <1>8, <1>9, <1>f, <2>2, <2>4 DEF Lane
  <2>6. Phase(w)'
    BY <1>10, <1>f, <2>1, <2>2, <2>3 DEF Phase
  <2>7. Lanes'
    BY <1>1, <1>2, <1>6, <2>2, <2>3, <2>5, <2>6, OthersKept
  <2>8. Served'
    <3>1. \A b \in Actor : pc[b] = "handling" =>
             wpc'[Home(b)] = "handling" /\ env[Home(b)].to = b
      <4> SUFFICES ASSUME NEW b \in Actor, pc[b] = "handling"
                   PROVE  wpc'[Home(b)] = "handling" /\ env[Home(b)].to = b
        OBVIOUS
      <4>1. wpc[Home(b)] = "handling" /\ env[Home(b)].to = b
        BY <1>5 DEF Served
      <4>2. Home(b) \in Actor \ {w}
        BY <1>1, <4>1, ActorAssumption DEF Home
      <4> QED BY <2>2, <4>1, <4>2
    <3>2. Custom' /\ \A b \in Actor : Home(b)' = Home(b)
      BY <2>0, <1>f
    <3> QED BY <1>5, <2>3, <3>1, <3>2 DEF Served
  <2>9. MInv'
    BY <1>5, <2>3 DEF MInv, MachinesOK, InStep, CyclesInOrder
  <2> QED BY <2>7, <2>8, <2>9
<1>13. Taken(w, m) \/ Lost(w, m)
  BY <1>m, DispatchFacts
<1> QED BY <1>11, <1>12, <1>13

(* The actor's answer reaches the client that waits for it. *)
LEMMA HandledLanes ==
    ASSUME PInv, NEW w \in Worker, NEW stays \in BOOLEAN, Handled(w, stays)
    PROVE  Lanes' /\ Served' /\ MInv'
<1>m. PICK m : m = env[w]
  OBVIOUS
<1>a. PICK a : a = m.to
  OBVIOUS
<1>1. /\ wpc[w] = "handling" /\ (stays \/ Custom) /\ HandleReturn(a, stays)
      /\ answer' = [answer EXCEPT ![m.from] = Len(log[a])]
      /\ cpc' = [cpc EXCEPT ![m.from] = IF cpc[m.from] = "waiting" THEN "running" ELSE cpc[m.from]]
      /\ env' = [env EXCEPT ![w] = None] /\ wpc' = [wpc EXCEPT ![w] = Loop]
      /\ UNCHANGED <<prog, main, at, rx, signalled, processed, seen>>
  BY <1>m, <1>a DEF Handled, Goto, Answer
<1>2. /\ w \in prog.clients /\ m = Post(w, Begun(w)) /\ m.from = w /\ a \in Targets(w) /\ a \in Actor
      /\ pc[a] = "handling" /\ Whole(w) /\ Len(log[a]) = Round(Begun(w))
  BY <1>m, <1>a, <1>1, InHand
<1>4. /\ Known(prog) /\ prog \in Scripts /\ w \in Actor /\ Lane(w) /\ Phase(w)
      /\ Begun(w) + Len(rx[w]) = at[w] /\ at[w] \in Nat /\ Begun(w) \in Nat
  BY <1>2, AtWork
<1>5. /\ cpc \in [Client -> {"running", "waiting", "done", "panicked"}] /\ answer \in [Client -> Msg]
      /\ wpc \in [Worker -> {"control", "recv", "handling", "exited"}]
      /\ env \in [Worker -> Message \cup {None}]
      /\ MInv /\ MachinesOK /\ Served /\ w \in Client
  BY DEF PInv, TypeOK, MInv, Worker, Client
<1>6. /\ answer'[w] = Round(Begun(w))
      /\ cpc'[w] = IF cpc[w] = "waiting" THEN "running" ELSE cpc[w]
      /\ wpc'[w] = Loop
      /\ \A d \in Actor \ {w} : /\ answer'[d] = answer[d] /\ cpc'[d] = cpc[d]
                                /\ wpc'[d] = wpc[d] /\ env'[d] = env[d]
  BY <1>1, <1>2, <1>5 DEF Worker, Client
<1>7. /\ states' = states /\ log' = log /\ \A b \in Actor \ {a} : pc'[b] = pc[b] /\ current'[b] = current[b]
      /\ pc'[a] = IF stays THEN "ready" ELSE "stopped"
  BY <1>1, <1>2, <1>5 DEF HandleReturn, MachinesOK
<1>8. wpc'[w] \in {"control", "recv"}
  BY <1>6 DEF Loop
<1>f. /\ Custom' = Custom /\ Length' = Length /\ Targets(w)' = Targets(w) /\ Probe' = Probe
      /\ \A k : Post(w, k)' = Post(w, k) /\ Round(k)' = Round(k)
      /\ \A b, k : Share(b, k)' = Share(b, k)
  BY <1>1, Fixed
<1>h. \A b : Home(b)' = Home(b)
  BY <1>1, Fixed
<1>9. Begun(w)' = Begun(w)
  BY <1>1 DEF Begun
<1>10. Lane(w)'
  <2>1. Whole(w)'
    BY <1>2, <1>7, <1>9, <1>f DEF Whole
  <2> QED BY <1>1, <1>4, <1>8, <1>9, <1>f, <2>1 DEF Lane
<1>11. Phase(w)'
  <2>1. prog # Probe => cpc[w] = "waiting" /\ rx[w] = <<>>
    BY <1>1, <1>4 DEF Phase
  <2>2. prog # Probe => cpc'[w] = "running" /\ Begun(w) = at[w]
    <3>1. rx[w] = <<>> => Len(rx[w]) = 0
      OBVIOUS
    <3> QED BY <1>4, <1>6, <2>1, <3>1
  <2>3. prog = Probe => cpc'[w] = cpc[w] /\ cpc[w] \in {"running", "done"} /\ ~ prog.unwraps
    BY <1>4, <1>6 DEF Phase, Known
  <2>4. CASE prog = Probe
    BY <1>1, <1>4, <1>8, <1>f, <2>3, <2>4 DEF Phase
  <2>5. CASE prog # Probe
    BY <1>1, <1>4, <1>6, <1>8, <1>f, <2>1, <2>2, <2>5 DEF Phase
  <2> QED BY <2>4, <2>5
<1>12. Lanes'
  BY <1>1, <1>2, <1>6, <1>7, <1>10, <1>11, OthersKept
<1>13. MInv'
  BY <1>1, <1>2, <1>5, InvReturn
<1>14. Served'
  <2>1. /\ states' = [b \in Actor |-> prog'.sequence]
        /\ \A b \in Actor : \A n \in DOMAIN log'[b] : log'[b][n].msg = n
    BY <1>1, <1>5, <1>7 DEF Served
  <2>2. \A b \in Actor : pc'[b] = "handling" =>
            wpc'[Home(b)] = "handling" /\ env'[Home(b)].to = b
    <3> SUFFICES ASSUME NEW b \in Actor, pc'[b] = "handling"
                 PROVE  wpc'[Home(b)] = "handling" /\ env'[Home(b)].to = b
      OBVIOUS
    <3>1. b # a
      BY <1>7
    <3>2. wpc[Home(b)] = "handling" /\ env[Home(b)].to = b
      BY <1>5, <1>7, <3>1 DEF Served
    <3>3. Home(b) \in Actor \ {w}
      BY <1>m, <1>a, <3>1, <3>2, ActorAssumption DEF Home
    <3> QED BY <1>6, <3>2, <3>3
  <2>3. ASSUME ~ Custom
        PROVE  \A b \in Actor :
                  /\ pc'[b] = "stopped" => wpc'[Home(b)] = "exited"
                  /\ pc'[b] # "handling" => current'[b] = Len(log'[b]) % Len(prog.sequence)
    <3> TAKE b \in Actor
    <3>1. CASE b = a
      <4>1. pc'[b] = "ready"
        BY <1>1, <1>7, <2>3, <3>1
      <4>2. current'[b] = Len(log'[b]) % Len(states'[b])
        BY <1>13, <4>1 DEF MInv, InStep
      <4>3. states'[b] = prog.sequence
        BY <1>1, <2>1
      <4> QED BY <4>1, <4>2, <4>3
    <3>2. CASE b # a
      <4>1. /\ pc[b] = "stopped" => wpc[Home(b)] = "exited"
            /\ pc[b] # "handling" => current[b] = Len(log[b]) % Len(prog.sequence)
        BY <1>5, <2>3 DEF Served
      <4>2. Home(b) \in Actor
        BY ActorAssumption DEF Home
      <4>3. wpc[Home(b)] = "exited" => wpc'[Home(b)] = "exited"
        BY <1>1, <1>6, <4>2
      <4> QED BY <1>7, <3>2, <4>1, <4>3
    <3> QED BY <3>1, <3>2
  <2>4. prog' = prog /\ Custom' = Custom
    BY <1>1, <1>f
  <2> QED BY <1>h, <2>1, <2>2, <2>3, <2>4 DEF Served
<1> QED BY <1>12, <1>13, <1>14

(* A handler panics: the actor is gone, and the client goes on. *)
LEMMA PanicsLanes ==
    ASSUME PInv, NEW w \in Worker, Panics(w)
    PROVE  Lanes' /\ Served' /\ MInv' /\ cpc'[w] = "running" /\ w \in prog.clients
<1>m. PICK m : m = env[w]
  OBVIOUS
<1>1. /\ wpc[w] = "handling" /\ Custom /\ HandlePanic(m.to) /\ Fail({m.from})
      /\ env' = [env EXCEPT ![w] = None] /\ wpc' = [wpc EXCEPT ![w] = Loop]
      /\ UNCHANGED <<prog, main, at, answer, rx, signalled, kitVars>>
  BY <1>m DEF Panics, Goto
<1>2. w \in prog.clients /\ m.from = w /\ m.to \in Targets(w) /\ pc[m.to] = "handling"
  BY <1>m, <1>1, InHand
<1>4. /\ Known(prog) /\ prog \in Scripts /\ w \in Actor /\ Lane(w) /\ Phase(w)
  BY <1>2, AtWork
<1>3. /\ prog # Probe /\ ~ prog.unwraps /\ Targets(w) = {w} /\ m.to = w /\ Threaded
      /\ Failed = "running" /\ Loop = "control" /\ \A b : Home(b) = b
  BY <1>1, <1>2, <1>4 DEF Known, Custom, Threaded, Targets, Failed, Loop, Home
<1>5. /\ cpc \in [Client -> {"running", "waiting", "done", "panicked"}]
      /\ wpc \in [Worker -> {"control", "recv", "handling", "exited"}]
      /\ env \in [Worker -> Message \cup {None}]
      /\ MInv /\ MachinesOK /\ Served /\ w \in Client
  BY DEF PInv, TypeOK, MInv, Worker, Client
<1>6. cpc' = [d \in Client |-> IF d \in {w} THEN "running" ELSE cpc[d]]
  BY <1>1, <1>2, <1>3 DEF Fail
<1>7. /\ cpc'[w] = "running" /\ wpc'[w] = "control"
      /\ \A d \in Actor \ {w} : cpc'[d] = cpc[d] /\ wpc'[d] = wpc[d] /\ env'[d] = env[d]
  BY <1>1, <1>3, <1>5, <1>6 DEF Worker, Client
<1>8. /\ UNCHANGED <<states, current, log>>
      /\ pc' = [b \in Actor |-> IF b \in {w} THEN "stopped" ELSE pc[b]]
  BY <1>1, <1>3, <1>5 DEF HandlePanic, MachinesOK
<1>9. MInv'
  BY <1>4, <1>5, <1>8, InvStops, {w} \in SUBSET Actor
<1>f. /\ Custom' = Custom /\ Length' = Length /\ Targets(w)' = Targets(w) /\ Probe' = Probe
      /\ \A k : Post(w, k)' = Post(w, k) /\ Round(k)' = Round(k)
  BY <1>1, Fixed
<1>h. \A b : Home(b)' = Home(b)
  BY <1>1, Fixed
<1>10. Lane(w)'
  <2>1. Begun(w)' = Begun(w)
    BY <1>1 DEF Begun
  <2>2. ~ NoLoss(w)'
    BY <1>1, <1>4, <1>8, <1>f DEF NoLoss
  <2> QED BY <1>1, <1>4, <1>7, <1>f, <2>1, <2>2 DEF Lane
<1>11. Phase(w)'
  <2>1. rx[w] = <<>>
    BY <1>1, <1>3, <1>4 DEF Phase
  <2> QED BY <1>1, <1>3, <1>7, <1>f, <2>1 DEF Phase
<1>12. \A a \in Actor \ Targets(w) : log'[a] = log[a] /\ pc'[a] = pc[a]
  BY <1>3, <1>8
<1>13. Lanes'
  BY <1>1, <1>2, <1>7, <1>10, <1>11, <1>12, OthersKept
<1>14. Served'
  <2>1. \A b \in Actor : pc'[b] = "handling" => wpc'[b] = "handling" /\ env'[b].to = b
    BY <1>3, <1>5, <1>7, <1>8 DEF Served
  <2>2. \A b \in Actor : pc'[b] = "handling" =>
            wpc'[Home(b)'] = "handling" /\ env'[Home(b)'].to = b
    BY <1>3, <1>h, <2>1
  <2>3. prog' = prog /\ Custom'
    BY <1>1, <1>f
  <2>4. /\ states' = [b \in Actor |-> prog'.sequence]
        /\ \A b \in Actor : \A n \in DOMAIN log'[b] : log'[b][n].msg = n
    BY <1>5, <1>8, <2>3 DEF Served
  <2> QED BY <2>2, <2>3, <2>4 DEF Served
<1> QED BY <1>2, <1>7, <1>9, <1>13, <1>14

(* A worker shuts down: who waits for it learns that the result is lost.   *)
LEMMA ShutdownFacts ==
    ASSUME PInv, NEW w \in Worker, RecvShutdown(w)
    PROVE  /\ Threaded /\ wpc[w] = "control" /\ w \in signalled
           /\ rx' = [rx EXCEPT ![w] = <<>>] /\ wpc' = [wpc EXCEPT ![w] = "exited"]
           /\ Stopped({w}) /\ UNCHANGED <<prog, main, at, answer, env, signalled, kitVars>>
           /\ cpc'[w] = IF rx[w] = <<>> THEN cpc[w] ELSE Failed
           /\ \A d \in Actor \ {w} : cpc'[d] = cpc[d]
           /\ cpc' \in [Client -> {"running", "waiting", "done", "panicked"}]
           /\ rx[w] # <<>> => w \in prog.clients /\ cpc[w] = "waiting"
<1>s. PICK S : S = {m.from : m \in {rx[w][i] : i \in DOMAIN rx[w]}}
  OBVIOUS
<1>1. /\ Threaded /\ wpc[w] = "control" /\ w \in signalled
      /\ rx' = [rx EXCEPT ![w] = <<>>] /\ wpc' = [wpc EXCEPT ![w] = "exited"]
      /\ Stopped({w}) /\ UNCHANGED <<prog, main, at, answer, env, signalled, kitVars>>
      /\ Fail(S)
  BY <1>s DEF RecvShutdown, Goto
<1>2. cpc \in [Client -> {"running", "waiting", "done", "panicked"}] /\ Failed \in {"running", "panicked"}
  BY DEF PInv, TypeOK, Failed
<1>3. S = IF rx[w] = <<>> THEN {} ELSE {w}
  <2>1. CASE rx[w] = <<>>
    BY <1>s, <2>1
  <2>2. CASE rx[w] # <<>>
    <3>1. w \in prog.clients
      BY <2>2, AtWork
    <3>2. rx[w] \in Seq(Message) /\ Lane(w)
      BY <3>1, AtWork
    <3>3. \A i \in DOMAIN rx[w] : rx[w][i].from = w
      <4> TAKE i \in DOMAIN rx[w]
      <4>1. PICK k : k = Begun(w) + i
        OBVIOUS
      <4>2. rx[w][i] = Post(w, k)
        BY <3>2, <4>1 DEF Lane
      <4> QED BY <4>2 DEF Post
    <3>4. 1 \in DOMAIN rx[w]
      BY <2>2, <3>2
    <3> QED BY <1>s, <2>2, <3>3, <3>4
  <2> QED BY <2>1, <2>2
<1>4. cpc' = [d \in Client |-> IF d \in S THEN Failed ELSE cpc[d]]
  BY <1>1 DEF Fail
<1>5. /\ cpc'[w] = IF rx[w] = <<>> THEN cpc[w] ELSE Failed
      /\ \A d \in Actor \ {w} : cpc'[d] = cpc[d]
      /\ cpc' \in [Client -> {"running", "waiting", "done", "panicked"}]
  BY <1>2, <1>3, <1>4 DEF Client, Worker
<1>6. ASSUME rx[w] # <<>> PROVE w \in prog.clients /\ cpc[w] = "waiting"
  <2>1. w \in prog.clients
    BY <1>6, AtWork
  <2>2. Known(prog) /\ Phase(w)
    BY <2>1, AtWork
  <2> QED BY <1>1, <1>6, <2>1, <2>2 DEF Phase, Known, Threaded
<1> QED BY <1>1, <1>5, <1>6

LEMMA ShutdownLanes ==
    ASSUME PInv, NEW w \in Worker, RecvShutdown(w)
    PROVE  Lanes' /\ Served' /\ MInv'
<1>1. /\ Threaded /\ wpc[w] = "control" /\ w \in signalled
      /\ rx' = [rx EXCEPT ![w] = <<>>] /\ wpc' = [wpc EXCEPT ![w] = "exited"]
      /\ Stopped({w}) /\ UNCHANGED <<prog, main, at, answer, env, signalled, kitVars>>
  BY ShutdownFacts
<1>2. /\ cpc'[w] = IF rx[w] = <<>> THEN cpc[w] ELSE Failed
      /\ \A d \in Actor \ {w} : cpc'[d] = cpc[d]
      /\ rx[w] # <<>> => w \in prog.clients /\ cpc[w] = "waiting"
  BY ShutdownFacts
<1>3. /\ Known(prog) /\ prog \in Scripts
      /\ \A c \in Actor : at[c] \in Nat /\ rx[c] \in Seq(Message) /\ Len(rx[c]) \in Nat
  BY AtWork
<1>4. /\ prog # Probe /\ \A b : Home(b) = b /\ Targets(b) = {b}
  BY <1>1, <1>3 DEF Known, Threaded, Targets, Home
<1>5. /\ wpc \in [Worker -> {"control", "recv", "handling", "exited"}]
      /\ rx \in [Worker -> Seq(Message)]
      /\ MInv /\ MachinesOK /\ Served /\ Lanes /\ w \in Actor
  BY DEF PInv, TypeOK, MInv, Worker
<1>6. /\ rx'[w] = <<>> /\ wpc'[w] = "exited"
      /\ \A d \in Actor \ {w} : rx'[d] = rx[d] /\ wpc'[d] = wpc[d]
  BY <1>1, <1>5 DEF Worker
<1>7. /\ UNCHANGED <<states, current, log>>
      /\ pc' = [b \in Actor |-> IF b \in {w} THEN "stopped" ELSE pc[b]]
  BY <1>1 DEF Stopped
<1>8. MInv'
  BY <1>5, <1>7, InvStops, {w} \in SUBSET Actor
<1>f. /\ Custom' = Custom /\ Length' = Length /\ Probe' = Probe
      /\ \A k : Post(w, k)' = Post(w, k) /\ Round(k)' = Round(k)
      /\ \A b, k : Share(b, k)' = Share(b, k)
  BY <1>1, Fixed
<1>g. Targets(w)' = Targets(w)
  BY <1>1, Fixed
<1>h. \A b : Home(b)' = Home(b)
  BY <1>1, Fixed
<1>9. ASSUME NEW d \in prog.clients, d # w PROVE Lane(d)' /\ Phase(d)'
  <2>1. d \in Actor /\ Lane(d) /\ Phase(d)
    BY <1>9, AtWork
  <2>2. \A a \in Targets(d) : log'[a] = log[a] /\ pc'[a] = pc[a]
    BY <1>4, <1>7, <1>9, <2>1
  <2>3. /\ at'[d] = at[d] /\ rx'[d] = rx[d] /\ env'[d] = env[d] /\ cpc'[d] = cpc[d]
        /\ answer'[d] = answer[d] /\ wpc'[d] = wpc[d] /\ prog' = prog
    BY <1>1, <1>2, <1>6, <1>9, <2>1
  <2> QED BY <1>3, <2>1, <2>2, <2>3, LaneKept
<1>10. ASSUME w \in prog.clients PROVE Lane(w)' /\ Phase(w)'
  <2>1. /\ Lane(w) /\ Phase(w) /\ Begun(w) + Len(rx[w]) = at[w] /\ at[w] \in Nat
    BY <1>10, AtWork
  <2>2. Len(rx'[w]) = 0 /\ DOMAIN rx'[w] = {} /\ at'[w] = at[w]
    BY <1>1, <1>6
  <2>3. NoLoss(w)' => Whole(w)'
    <3> SUFFICES ASSUME NoLoss(w)' PROVE Whole(w)'
      OBVIOUS
    <3>1. ~ Custom
      BY <1>4, <1>5, <1>7, <1>f DEF NoLoss
    <3>2. cpc'[w] # "panicked" /\ Failed = "panicked"
      BY <1>1, <1>4, <1>f, <3>1 DEF NoLoss, Custom, Failed
    <3>3. rx[w] = <<>> /\ cpc[w] # "panicked"
      BY <1>2, <3>2
    <3>4. Whole(w)
      BY <1>4, <2>1, <3>1, <3>3 DEF Lane, NoLoss
    <3>5. Begun(w)' = Begun(w)
      BY <1>6, <2>2, <3>3 DEF Begun
    <3> QED BY <1>7, <1>f, <1>g, <3>4, <3>5 DEF Whole
  <2>4. Lane(w)'
    BY <1>6, <2>1, <2>2, <2>3 DEF Lane
  <2>5. Phase(w)'
    <3>1. CASE rx[w] = <<>>
      <4>1. cpc'[w] = cpc[w] /\ Len(rx[w]) # 1
        BY <1>2, <3>1
      <4>2. cpc[w] # "waiting"
        BY <1>1, <1>4, <2>1, <4>1 DEF Phase
      <4> QED BY <1>1, <1>4, <1>6, <1>f, <2>1, <2>2, <4>1, <4>2 DEF Phase
    <3>2. CASE rx[w] # <<>>
      <4>1. cpc'[w] = Failed /\ (prog.unwraps => Failed = "panicked")
            /\ Failed \in {"running", "panicked"}
        BY <1>2, <3>2 DEF Failed
      <4> QED BY <1>1, <1>4, <1>6, <1>f, <2>2, <4>1 DEF Phase
    <3> QED BY <3>1, <3>2
  <2> QED BY <2>4, <2>5
<1>11. Lanes'
  <2>1. \A d \in prog.clients : Lane(d)' /\ Phase(d)'
    BY <1>9, <1>10
  <2>2. \A d \in Actor \ prog.clients : cpc'[d] = "done" /\ rx'[d] = <<>> /\ wpc'[d] # "handling"
    <3> TAKE d \in Actor \ prog.clients
    <3>1. cpc[d] = "done" /\ rx[d] = <<>> /\ wpc[d] # "handling"
      BY <1>5 DEF Lanes
    <3>2. CASE d = w
      BY <1>2, <1>6, <3>1, <3>2
    <3>3. CASE d # w
      BY <1>2, <1>6, <3>1, <3>3
    <3> QED BY <3>2, <3>3
  <2> QED BY <1>1, <2>1, <2>2 DEF Lanes
<1>12. Served'
  <2>1. prog' = prog /\ Custom' = Custom
    BY <1>1, <1>f
  <2>2. /\ states' = [b \in Actor |-> prog'.sequence]
        /\ \A b \in Actor : \A n \in DOMAIN log'[b] : log'[b][n].msg = n
    BY <1>5, <1>7, <2>1 DEF Served
  <2>3. \A b \in Actor : pc[b] = "handling" => b # w /\ wpc[b] = "handling" /\ env[b].to = b
    BY <1>1, <1>4, <1>5 DEF Served
  <2>4. \A b \in Actor : pc'[b] = "handling" =>
            wpc'[Home(b)'] = "handling" /\ env'[Home(b)'].to = b
    BY <1>1, <1>4, <1>6, <1>7, <1>h, <2>3
  <2>5. ASSUME ~ Custom, NEW b \in Actor
        PROVE  /\ pc'[b] = "stopped" => wpc'[Home(b)'] = "exited"
               /\ pc'[b] # "handling" => current'[b] = Len(log'[b]) % Len(prog.sequence)
    <3>1. /\ pc[b] = "stopped" => wpc[b] = "exited"
          /\ pc[b] # "handling" => current[b] = Len(log[b]) % Len(prog.sequence)
      BY <1>4, <1>5, <2>5 DEF Served
    <3>2. pc[w] # "handling"
      BY <1>5, <2>3 DEF Worker
    <3>3. Home(b)' = b /\ pc'[b] = IF b = w THEN "stopped" ELSE pc[b]
      BY <1>4, <1>7, <1>h
    <3>4. current'[b] = current[b] /\ log'[b] = log[b]
      BY <1>7
    <3> QED BY <1>6, <3>1, <3>2, <3>3, <3>4
  <2> QED BY <2>1, <2>2, <2>4, <2>5 DEF Served
<1> QED BY <1>8, <1>11, <1>12

(* ActorSystem::run returns when every client is through.                  *)
LEMMA ReturnLanes ==
    ASSUME PInv, RunReturns
    PROVE  Lanes' /\ Served' /\ MInv' /\ wpc'[1] = "exited" /\ prog.clients = {1}
<1>1. /\ prog.runtime = "system" /\ wpc[1] = "recv" /\ rx[1] = <<>> /\ Closed
      /\ wpc' = [wpc EXCEPT ![1] = "exited"] /\ Stopped(Actor)
      /\ UNCHANGED <<prog, at, cpc, answer, rx, env, signalled>>
  BY DEF RunReturns, threadVars, Goto
<1>2. /\ Known(prog) /\ prog \in Scripts
  BY AtWork
<1>3. /\ prog # Probe /\ ~ Custom /\ ~ Threaded /\ prog.clients = {1} /\ \A b : Home(b) = 1
  BY <1>1, <1>2 DEF Known, Custom, Threaded, Home
<1>4. /\ wpc \in [Worker -> {"control", "recv", "handling", "exited"}]
      /\ MInv /\ MachinesOK /\ Served /\ Lanes /\ 1 \in Actor
  BY ActorAssumption DEF PInv, TypeOK, MInv
<1>5. /\ wpc'[1] = "exited" /\ \A d \in Actor \ {1} : wpc'[d] = wpc[d]
  BY <1>1, <1>4 DEF Worker
<1>6. /\ UNCHANGED <<states, current, log>>
      /\ pc' = [b \in Actor |-> IF b \in Actor THEN "stopped" ELSE pc[b]]
  BY <1>1 DEF Stopped
<1>7. MInv'
  BY <1>4, <1>6, InvStops, Actor \in SUBSET Actor
<1>f. /\ Custom' = Custom /\ Length' = Length /\ Probe' = Probe
      /\ \A k : Post(1, k)' = Post(1, k) /\ Round(k)' = Round(k)
      /\ \A b, k : Share(b, k)' = Share(b, k)
  BY <1>1, Fixed
<1>g. Targets(1)' = Targets(1) /\ prog' = prog
  BY <1>1, Fixed
<1>8. Lane(1) /\ Phase(1) /\ cpc[1] \in {"done", "panicked"}
  BY <1>1, <1>3, <1>4, AtWork DEF Closed, Ended, Client
<1>9. Begun(1)' = Begun(1)
  BY <1>1 DEF Begun
<1>10. NoLoss(1)' => Whole(1)'
  BY <1>1, <1>3, <1>6, <1>8, <1>9, <1>f, <1>g DEF Lane, NoLoss, Whole
<1>11. Lane(1)'
  BY <1>1, <1>5, <1>8, <1>9, <1>10, <1>f DEF Lane
<1>12. Phase(1)'
  BY <1>1, <1>3, <1>5, <1>8, <1>f DEF Phase
<1>13. Lanes'
  <2>1. \A d \in Actor \ {1} : cpc'[d] = "done" /\ rx'[d] = <<>> /\ wpc'[d] # "handling"
    BY <1>1, <1>3, <1>4, <1>5 DEF Lanes
  <2> QED BY <1>3, <1>11, <1>12, <1>g, <2>1 DEF Lanes
<1>14. Served'
  <2>1. \A b \in Actor : pc[b] # "handling" /\ Home(b)' = 1
    BY <1>1, <1>3, <1>4, Fixed DEF Served
  <2>2. \A b \in Actor : pc'[b] = "stopped"
    BY <1>6
  <2>3. \A b \in Actor : current[b] = Len(log[b]) % Len(prog.sequence)
    BY <1>3, <1>4, <2>1 DEF Served
  <2> QED BY <1>4, <1>5, <1>6, <1>f, <1>g, <2>1, <2>2, <2>3 DEF Served
<1> QED BY <1>3, <1>5, <1>7, <1>13, <1>14

(* The test of the probe ends, and the kit is dropped.                     *)
LEMMA AssertLanes ==
    ASSUME PInv, Assert
    PROVE  Lanes' /\ Served' /\ MInv'
<1>1. /\ prog = Probe /\ main = "join"
      /\ wpc' = [wpc EXCEPT ![1] = "exited"] /\ rx' = [rx EXCEPT ![1] = <<>>]
      /\ UNCHANGED <<machines, prog, at, cpc, answer, env, signalled>>
  BY DEF Assert, threadVars, Goto
<1>2. /\ Known(prog) /\ prog \in Scripts
  BY AtWork
<1>3. /\ ~ Custom /\ ~ Threaded /\ prog.clients = {1} /\ wpc[1] = "control" /\ \A b : Home(b) = 1
  BY <1>1, <1>2 DEF Known, Custom, Threaded, Home, PInv, Probed
<1>4. /\ wpc \in [Worker -> {"control", "recv", "handling", "exited"}]
      /\ rx \in [Worker -> Seq(Message)]
      /\ MInv /\ Served /\ Lanes /\ 1 \in Actor
  BY ActorAssumption DEF PInv, TypeOK
<1>5. /\ wpc'[1] = "exited" /\ rx'[1] = <<>>
      /\ \A d \in Actor \ {1} : wpc'[d] = wpc[d] /\ rx'[d] = rx[d]
  BY <1>1, <1>4 DEF Worker
<1>6. UNCHANGED <<states, current, pc, log, prog, env, at, cpc>>
  BY <1>1 DEF machines
<1>7. MInv'
  BY <1>4, <1>6 DEF MInv, MachinesOK, InStep, CyclesInOrder
<1>f. /\ Custom' = Custom /\ Length' = Length /\ Probe' = Probe
  BY <1>1, Fixed
<1>8. Lane(1) /\ Phase(1) /\ at[1] \in Nat
  BY <1>3, <1>4, AtWork
<1>9. Lane(1)'
  <2>1. ~ NoLoss(1)'
    BY <1>1, <1>3, <1>5, <1>f DEF NoLoss
  <2>2. Len(rx'[1]) = 0 /\ DOMAIN rx'[1] = {}
    BY <1>5
  <2> QED BY <1>1, <1>5, <1>8, <2>1, <2>2 DEF Lane
<1>10. Phase(1)'
  <2>1. ~ prog.unwraps
    BY <1>1, <1>2 DEF Known
  <2> QED BY <1>1, <1>5, <1>8, <1>f, <2>1 DEF Phase
<1>11. Lanes'
  <2>1. \A d \in Actor \ {1} : cpc'[d] = "done" /\ rx'[d] = <<>> /\ wpc'[d] # "handling"
    BY <1>1, <1>3, <1>4, <1>5 DEF Lanes
  <2> QED BY <1>1, <1>3, <1>9, <1>10, <2>1 DEF Lanes
<1>12. Served'
  <2>1. \A b \in Actor : pc[b] = "ready" /\ Home(b)' = 1
    <3> TAKE b \in Actor
    <3>1. pc[b] # "handling" /\ pc[b] # "stopped"
      BY <1>3, <1>4 DEF Served
    <3>2. pc[b] \in {"ready", "handling", "stopped"}
      BY <1>4 DEF MInv, MachinesOK
    <3> QED BY <1>1, <1>3, <3>1, <3>2, Fixed
  <2> QED BY <1>3, <1>4, <1>6, <1>f, <2>1 DEF Served
<1> QED BY <1>7, <1>11, <1>12
-----------------------------------------------------------------------------
(* Every step keeps the channels, the machines and the clients in step. *)

QuietMain == Start \/ PollEmpty \/ Shutdown \/ WorkersJoined \/ Join \/ Ending
QuietWorker(w) == ControlEmpty(w) \/ Timeout(w)

LEMMA QuietLanes ==
    ASSUME PInv, QuietMain \/ \E w \in Worker : QuietWorker(w)
    PROVE  Lanes' /\ Served' /\ MInv'
<1>1. Known(prog) /\ prog \in Scripts /\ 1 \in Worker
  BY AtWork, ActorAssumption DEF Worker
<1>2. wpc \in [Worker -> {"control", "recv", "handling", "exited"}] /\ Endings
  BY DEF PInv, TypeOK
<1>3. CASE Start
  <2>1. ~ Threaded => wpc[1] = "control"
    BY <1>2, <1>3 DEF Endings, Start
  <2>2. \A w \in Worker : wpc'[w] = wpc[w] \/ {wpc[w], wpc'[w]} \subseteq {"control", "recv"}
    BY <1>2, <1>3, <2>1 DEF Start
  <2> QED BY <1>3, <2>2, LoopKeeps DEF Start
<1>4. CASE PollEmpty
  <2>1. \A w \in Worker : wpc'[w] = wpc[w] \/ {wpc[w], wpc'[w]} \subseteq {"control", "recv"}
    BY <1>2, <1>4 DEF PollEmpty, Goto
  <2> QED BY <1>4, <2>1, LoopKeeps DEF PollEmpty
<1>5. CASE Shutdown
  BY <1>5, LoopKeeps DEF Shutdown
<1>6. CASE WorkersJoined
  BY <1>6, LoopKeeps DEF WorkersJoined, workerVars
<1>7. CASE Join
  BY <1>7, LoopKeeps DEF Join, workerVars
<1>8. CASE Ending
  BY <1>8, LoopKeeps DEF Ending, vars, workerVars
<1>9. ASSUME NEW w \in Worker, ControlEmpty(w) PROVE Lanes' /\ Served' /\ MInv'
  <2>1. \A v \in Worker : wpc'[v] = wpc[v] \/ {wpc[v], wpc'[v]} \subseteq {"control", "recv"}
    BY <1>2, <1>9 DEF ControlEmpty, Goto
  <2> QED BY <1>9, <2>1, LoopKeeps DEF ControlEmpty
<1>10. ASSUME NEW w \in Worker, Timeout(w) PROVE Lanes' /\ Served' /\ MInv'
  <2>1. \A v \in Worker : wpc'[v] = wpc[v] \/ {wpc[v], wpc'[v]} \subseteq {"control", "recv"}
    BY <1>2, <1>10 DEF Timeout, Goto
  <2> QED BY <1>10, <2>1, LoopKeeps DEF Timeout
<1> QED BY <1>3, <1>4, <1>5, <1>6, <1>7, <1>8, <1>9, <1>10 DEF QuietMain, QuietWorker

LEMMA StepLanes ==
    ASSUME PInv, Next
    PROVE  Lanes' /\ Served' /\ MInv'
<1>1. CASE MainStep \/ Ending
  <2>1. CASE QuietMain
    BY <2>1, QuietLanes
  <2>2. CASE RunReturns
    BY <2>2, ReturnLanes
  <2>3. CASE Assert
    BY <2>3, AssertLanes
  <2> QED BY <1>1, <2>1, <2>2, <2>3 DEF MainStep, QuietMain
<1>2. ASSUME NEW w \in Worker, WorkerStep(w) PROVE Lanes' /\ Served' /\ MInv'
  <2>1. CASE QuietWorker(w)
    BY <2>1, QuietLanes
  <2>2. CASE RecvShutdown(w)
    BY <2>2, ShutdownLanes
  <2>3. CASE Dispatch(w)
    BY <2>3, DispatchLanes
  <2>4. ASSUME NEW stays \in BOOLEAN, Handled(w, stays) PROVE Lanes' /\ Served' /\ MInv'
    BY <2>4, HandledLanes
  <2>5. CASE Panics(w)
    BY <2>5, PanicsLanes
  <2> QED BY <1>2, <2>1, <2>2, <2>3, <2>4, <2>5 DEF WorkerStep, QuietWorker
<1>3. ASSUME NEW c \in Client, ClientStep(c) PROVE Lanes' /\ Served' /\ MInv'
  <2>1. CASE ClientSend(c)
    <3>1. Lanes'
      BY <2>1, SendLanes
    <3>2. UNCHANGED <<machines, prog, wpc, env>>
      BY <2>1 DEF ClientSend
    <3> QED BY <3>1, <3>2, ServedKept
  <2>2. CASE ClientEnds(c)
    <3>1. Lanes'
      BY <2>2, EndsLanes
    <3>2. UNCHANGED <<machines, prog, wpc, env>>
      BY <2>2 DEF ClientEnds, workerVars
    <3> QED BY <3>1, <3>2, ServedKept
  <2> QED BY <1>3, <2>1, <2>2 DEF ClientStep
<1> QED BY <1>1, <1>2, <1>3 DEF Next
-----------------------------------------------------------------------------
(* Who ends, and when. *)

(* A step of a client or a worker. *)
LEMMA EndingsKept ==
    ASSUME PInv, UNCHANGED <<prog, main, signalled>>,
           \A w \in Worker :
               \/ wpc'[w] = wpc[w]
               \/ Threaded /\ (wpc'[w] = "exited" => w \in signalled)
               \/ w = 1 /\ wpc[w] # "control" /\ wpc'[w] # "exited",
           \A c \in Client :
               \/ cpc'[c] = cpc[c]
               \/ /\ cpc[c] \in {"running", "waiting"}
                  /\ cpc'[c] = "panicked" => prog = Tasks /\ c \in signalled
    PROVE  Endings'
<1>0. /\ Endings /\ 1 \in Worker /\ Known(prog)
  BY AtWork, ActorAssumption DEF PInv, Worker
<1>f. Threaded' = Threaded /\ Probe' = Probe /\ Tasks' = Tasks
  BY Fixed
<1>1. ~ Threaded => /\ signalled' = {}
                    /\ \A w \in Worker : w # 1 => wpc'[w] = "control"
                    /\ main' = "start" => wpc'[1] = "control"
  BY <1>0 DEF Endings
<1>2. Threaded => /\ \A w \in Worker : wpc'[w] = "exited" => w \in signalled'
                  /\ prog # Tasks /\ signalled' # {} => main' \in {"drop", "done"}
  BY <1>0 DEF Endings
<1>3. prog.runtime = "system" /\ wpc'[1] = "exited" => \A c \in Client : cpc'[c] \in {"done", "panicked"}
  <2> SUFFICES ASSUME prog.runtime = "system", wpc'[1] = "exited", NEW c \in Client
               PROVE  cpc'[c] \in {"done", "panicked"}
    OBVIOUS
  <2>1. ~ Threaded
    BY DEF Threaded
  <2>2. wpc[1] = "exited"
    BY <1>0, <2>1
  <2>3. cpc[c] \in {"done", "panicked"}
    BY <1>0, <2>2 DEF Endings, Closed, Ended
  <2> QED BY <2>3
<1>4. prog # Probe /\ main' \in {"drop", "done"} => \A c \in Client : cpc'[c] = "done"
  BY <1>0 DEF Endings
<1>5. \A c \in Client : cpc'[c] = "panicked" => prog = Tasks /\ c \in signalled
  BY <1>0 DEF Endings
<1>6. main' = "panicked" /\ prog # Probe => \E c \in Client : cpc'[c] = "panicked"
  BY <1>0 DEF Endings
<1> QED BY <1>f, <1>1, <1>2, <1>3, <1>4, <1>5, <1>6 DEF Endings, Closed, Ended

LEMMA EndingsStep ==
    ASSUME PInv, Next
    PROVE  Endings'
<1>0. /\ Endings /\ 1 \in Worker /\ Known(prog) /\ prog \in Scripts
      /\ cpc \in [Client -> {"running", "waiting", "done", "panicked"}]
      /\ wpc \in [Worker -> {"control", "recv", "handling", "exited"}]
  BY AtWork, ActorAssumption DEF PInv, TypeOK, Worker
<1>k. /\ prog.clients \subseteq Actor /\ (~ Threaded => prog.clients = {1})
  BY <1>0 DEF Known, Threaded
<1>1. ASSUME NEW c \in Client, ClientSend(c) PROVE Endings'
  <2>1. /\ cpc[c] = "running" /\ UNCHANGED <<prog, main, signalled, wpc>>
    BY <1>1, SendFacts
  <2>2. \A d \in Client : cpc'[d] = cpc[d] \/ (d = c /\ (cpc'[d] = "panicked" => prog = Tasks /\ c \in signalled))
    <3>1. CASE /\ prog = Probe \/ (prog = Tasks /\ c \in signalled)
               /\ cpc' = [d \in Client |-> IF d = c THEN Failed ELSE cpc[d]]
      <4>1. prog = Probe => Failed = "running"
        BY <1>0 DEF Known, Failed
      <4> QED BY <3>1, <4>1
    <3>2. CASE cpc' = [cpc EXCEPT ![c] = IF prog = Probe THEN cpc[c] ELSE "waiting"]
      BY <1>0, <3>2
    <3> QED BY <1>1, <3>1, <3>2, SendFacts
  <2> QED BY <2>1, <2>2, EndingsKept
<1>2. ASSUME NEW c \in Client, ClientEnds(c) PROVE Endings'
  <2>1. /\ cpc[c] = "running" /\ UNCHANGED <<prog, main, signalled, wpc>>
        /\ \A d \in Client : cpc'[d] = cpc[d] \/ (d = c /\ cpc'[d] = "done")
    BY <1>0, <1>2 DEF ClientEnds, workerVars
  <2> QED BY <2>1, EndingsKept
<1>3. ASSUME NEW w \in Worker, ControlEmpty(w) \/ Timeout(w) PROVE Endings'
  <2>1. /\ Threaded /\ UNCHANGED <<prog, main, signalled, cpc>>
        /\ \A v \in Worker : wpc'[v] = wpc[v] \/ wpc'[v] # "exited"
    BY <1>0, <1>3 DEF ControlEmpty, Timeout, Goto, threadVars
  <2> QED BY <2>1, EndingsKept
<1>4. ASSUME NEW w \in Worker, RecvShutdown(w) PROVE Endings'
  <2>1. /\ Threaded /\ w \in signalled /\ UNCHANGED <<prog, main, signalled>>
        /\ wpc' = [wpc EXCEPT ![w] = "exited"]
        /\ cpc'[w] = IF rx[w] = <<>> THEN cpc[w] ELSE Failed
        /\ \A d \in Actor \ {w} : cpc'[d] = cpc[d]
        /\ rx[w] # <<>> => w \in prog.clients /\ cpc[w] = "waiting"
    BY <1>4, ShutdownFacts
  <2>2. \A v \in Worker : wpc'[v] = wpc[v] \/ (wpc'[v] = "exited" => v \in signalled)
    BY <1>0, <2>1
  <2>3. \A d \in Client :
           \/ cpc'[d] = cpc[d]
           \/ cpc[d] = "waiting" /\ (cpc'[d] = "panicked" => prog = Tasks /\ d \in signalled)
    <3> TAKE d \in Client
    <3>1. CASE d # w \/ rx[w] = <<>>
      BY <2>1, <3>1 DEF Client
    <3>2. CASE d = w /\ rx[w] # <<>>
      <4>1. cpc[w] = "waiting" /\ cpc'[w] = Failed
        BY <2>1, <3>2
      <4>2. Failed = "panicked" => prog = Tasks
        <5> SUFFICES ASSUME Failed = "panicked", prog # Tasks PROVE FALSE
          OBVIOUS
        <5>1. prog # Probe
          BY <1>0, <2>1 DEF Known, Threaded
        <5>2. main \in {"drop", "done"}
          BY <1>0, <2>1 DEF Endings
        <5>3. cpc[w] = "done"
          BY <1>0, <5>1, <5>2 DEF Endings, Client, Worker
        <5> QED BY <4>1, <5>3
      <4> QED BY <2>1, <3>2, <4>1, <4>2
    <3> QED BY <3>1, <3>2
  <2> QED BY <2>1, <2>2, <2>3, EndingsKept
<1>5. ASSUME NEW w \in Worker, Dispatch(w) PROVE Endings'
  <2>m. PICK m : m = Head(rx[w])
    OBVIOUS
  <2>1. /\ rx[w] # <<>> /\ wpc[w] = "recv" /\ UNCHANGED <<prog, main, signalled>>
        /\ Taken(w, m) \/ Lost(w, m)
    BY <1>5, <2>m, DispatchFacts
  <2>2. w \in prog.clients
    BY <2>1, AtWork
  <2>3. \A v \in Worker : wpc'[v] = wpc[v] \/ (v = w /\ wpc'[v] \in {"handling", "control"})
    BY <1>0, <2>1 DEF Taken, Lost
  <2>4. \A d \in Client : cpc'[d] = cpc[d] \/ (d = w /\ Lost(w, m) /\ cpc'[d] = "running")
    BY <2>1 DEF Taken, Lost
  <2>5. Lost(w, m) => cpc[w] = "waiting"
    <3> SUFFICES ASSUME Lost(w, m) PROVE cpc[w] = "waiting"
      OBVIOUS
    <3>1. prog # Probe
      BY <1>0 DEF Lost, Custom, Threaded, Known
    <3> QED BY <2>1, <2>2, <3>1, AtWork DEF Phase
  <2> QED BY <1>k, <2>1, <2>2, <2>3, <2>4, <2>5, EndingsKept
<1>6. ASSUME NEW w \in Worker, NEW stays \in BOOLEAN, Handled(w, stays) PROVE Endings'
  <2>1. /\ wpc[w] = "handling" /\ UNCHANGED <<prog, main, signalled>>
        /\ wpc' = [wpc EXCEPT ![w] = Loop]
        /\ cpc' = [cpc EXCEPT ![env[w].from] =
                      IF cpc[env[w].from] = "waiting" THEN "running" ELSE cpc[env[w].from]]
    BY <1>6 DEF Handled, Goto
  <2>2. w \in prog.clients /\ Loop \in {"control", "recv"}
    BY <2>1, AtWork DEF Loop
  <2>3. \A v \in Worker : wpc'[v] = wpc[v] \/ (v = w /\ wpc'[v] \in {"control", "recv"})
    BY <1>0, <2>1, <2>2
  <2>4. \A d \in Client : cpc'[d] = cpc[d] \/ (cpc[d] = "waiting" /\ cpc'[d] = "running")
    BY <1>0, <2>1
  <2> QED BY <1>k, <2>1, <2>2, <2>3, <2>4, EndingsKept
<1>7. ASSUME NEW w \in Worker, Panics(w) PROVE Endings'
  <2>1. /\ wpc[w] = "handling" /\ UNCHANGED <<prog, main, signalled>> /\ Custom
        /\ wpc' = [wpc EXCEPT ![w] = Loop] /\ Fail({env[w].from})
    BY <1>7 DEF Panics, Goto
  <2>2. w \in prog.clients /\ env[w].from = w /\ Loop = "control" /\ Threaded
    BY <2>1, InHand DEF Loop, Custom
  <2>3. \A v \in Worker : wpc'[v] = wpc[v] \/ wpc'[v] = "control"
    BY <1>0, <2>1, <2>2
  <2>4. \A d \in Client : cpc'[d] = cpc[d] \/ (d = w /\ cpc'[d] = "running")
    <3>1. cpc' = [d \in Client |-> IF d \in {w} THEN Failed ELSE cpc[d]]
      BY <2>1, <2>2 DEF Fail
    <3> QED BY <2>1, <3>1 DEF Failed, Custom
  <2>5. cpc[w] = "waiting"
    <3>1. prog # Probe
      BY <1>0, <2>1 DEF Custom, Threaded, Known
    <3> QED BY <2>1, <2>2, <3>1, AtWork DEF Phase
  <2> QED BY <2>1, <2>2, <2>3, <2>4, <2>5, EndingsKept
<1>8. ASSUME MainStep \/ Ending PROVE Endings'
  <2>f. prog' = prog
    BY <1>8 DEF MainStep, Ending, Start, RunReturns, PollEmpty, Shutdown, WorkersJoined, Join,
                Assert, vars
  <2>g. Threaded' = Threaded /\ Probe' = Probe /\ Tasks' = Tasks
    BY <2>f, Fixed
  <2>1. CASE Start
    <3>1. /\ main = "start" /\ main' \in {"run", "join"} /\ UNCHANGED <<cpc, signalled>>
          /\ wpc' = IF Threaded THEN wpc ELSE [wpc EXCEPT ![1] = "recv"]
      BY <2>1 DEF Start, threadVars
    <3>2. ~ Threaded => wpc'[1] = "recv" /\ \A w \in Worker : w # 1 => wpc'[w] = wpc[w]
      BY <1>0, <3>1
    <3>3. prog.runtime = "system" => ~ Threaded
      BY DEF Threaded
    <3> QED BY <1>0, <2>f, <2>g, <3>1, <3>2, <3>3 DEF Endings
  <2>2. CASE RunReturns
    <3>1. /\ prog.runtime = "system" /\ main' = "join" /\ UNCHANGED <<cpc, signalled>> /\ Closed
          /\ wpc' = [wpc EXCEPT ![1] = "exited"] /\ main = "run"
      BY <2>2 DEF RunReturns, threadVars, Goto
    <3>2. ~ Threaded /\ \A w \in Worker : w # 1 => wpc'[w] = wpc[w]
      BY <1>0, <3>1 DEF Threaded
    <3> QED BY <1>0, <2>f, <2>g, <3>1, <3>2 DEF Endings, Closed, Ended
  <2>3. CASE PollEmpty
    <3>1. /\ prog.runtime = "kit" /\ main = "run" /\ main' \in {"run", "join"}
          /\ UNCHANGED <<cpc, signalled>>
          /\ wpc'[1] # "exited" /\ \A w \in Worker : w # 1 => wpc'[w] = wpc[w]
      BY <1>0, <2>3 DEF PollEmpty, threadVars, Goto
    <3> QED BY <1>0, <2>f, <2>g, <3>1 DEF Endings, Threaded
  <2>4. CASE Shutdown
    <3>1. /\ Threaded /\ UNCHANGED <<cpc, wpc, main>> /\ signalled \subseteq signalled'
          /\ main = IF prog = Tasks THEN "run" ELSE "drop"
      BY <2>4 DEF Shutdown, threadVars
    <3>2. prog.runtime # "system"
      BY <3>1 DEF Threaded
    <3> QED BY <1>0, <2>f, <2>g, <3>1, <3>2 DEF Endings
  <2>5. CASE WorkersJoined
    <3>1. /\ Threaded /\ UNCHANGED <<cpc, wpc, signalled>>
          /\ main = IF prog = Tasks THEN "run" ELSE "drop"
          /\ main' = IF prog = Tasks THEN "join" ELSE "done"
      BY <2>5 DEF WorkersJoined, threadVars, workerVars
    <3>2. prog.runtime # "system"
      BY <3>1 DEF Threaded
    <3> QED BY <1>0, <2>f, <2>g, <3>1, <3>2 DEF Endings
  <2>6. CASE Join
    <3>1. /\ main = "join" /\ prog # Probe /\ UNCHANGED <<cpc, wpc, signalled>>
          /\ \/ main' \in {"drop", "done"} /\ \A c \in Client : cpc[c] = "done"
             \/ main' = "panicked" /\ \E c \in Client : cpc[c] = "panicked"
      BY <2>6 DEF Join, threadVars, workerVars
    <3>2. prog # Tasks /\ Threaded => signalled = {}
      BY <1>0, <3>1 DEF Endings
    <3> QED BY <1>0, <2>f, <2>g, <3>1, <3>2 DEF Endings, Closed, Ended
  <2>7. CASE Assert
    <3>1. /\ prog = Probe /\ main' \in {"done", "panicked"} /\ UNCHANGED <<cpc, signalled>>
          /\ \A w \in Worker : w # 1 => wpc'[w] = wpc[w]
      BY <1>0, <2>7 DEF Assert, threadVars, Goto
    <3>2. prog.runtime = "kit" /\ ~ Threaded
      BY <1>0, <3>1 DEF Known, Threaded
    <3> QED BY <1>0, <2>f, <2>g, <3>1, <3>2 DEF Endings
  <2>8. CASE Ending
    BY <1>0, <2>g, <2>8 DEF Ending, vars, threadVars, workerVars, Endings, Closed, Ended
  <2> QED BY <1>8, <2>1, <2>2, <2>3, <2>4, <2>5, <2>6, <2>7, <2>8 DEF MainStep
<1> QED BY <1>1, <1>2, <1>3, <1>4, <1>5, <1>6, <1>7, <1>8 DEF Next, WorkerStep, ClientStep
-----------------------------------------------------------------------------
(* What the probe has. *)

LEMMA ProbedStep ==
    ASSUME PInv, Next
    PROVE  Probed'
<1>0. /\ Probed /\ Endings /\ 1 \in Worker /\ 1 \in Client /\ Known(prog) /\ prog \in Scripts
      /\ wpc \in [Worker -> {"control", "recv", "handling", "exited"}]
      /\ messages \in Seq(Msg) /\ seen \in Nat /\ at[1] \in Nat /\ Len(log[1]) \in Nat
      /\ log[1] \in Seq([state : State, msg : Msg])
  BY AtWork, ActorAssumption DEF PInv, TypeOK, Worker, Client
<1>f. prog' = prog /\ Probe' = Probe
  <2>1. prog' = prog
    BY DEF Next, MainStep, WorkerStep, ClientStep, Ending, Start, RunReturns, PollEmpty,
           Shutdown, WorkersJoined, Join, Assert, vars, ControlEmpty, RecvShutdown, Timeout,
           Dispatch, Handled, Panics, ClientSend, ClientEnds
  <2> QED BY <2>1, Fixed
<1>1. CASE prog # Probe
  <2>1. messages = <<>>
    BY <1>0, <1>1 DEF Probed
  <2>2. messages' = messages
    BY <1>1 DEF Next, MainStep, WorkerStep, ClientStep, Ending, Start, RunReturns, PollEmpty,
           Shutdown, WorkersJoined, Join, Assert, vars, kitVars, ControlEmpty, RecvShutdown, Timeout,
           Dispatch, Handled, Panics, ClientSend, ClientEnds, Recorded
  <2> QED BY <1>1, <1>f, <2>1, <2>2 DEF Probed
<1>2. CASE prog = Probe
  <2>0. /\ ~ Threaded /\ ~ Custom /\ prog.clients = {1} /\ prog.runtime = "kit" /\ ~ prog.turns
        /\ Length = 2 /\ prog # Tasks
    BY <1>0, <1>2 DEF Known, Threaded, Custom, Length
  <2>1. /\ Lane(1) /\ Phase(1) /\ Begun(1) \in Nat /\ Begun(1) + Len(rx[1]) = at[1] /\ at[1] <= 2
        /\ Len(rx[1]) \in Nat
    BY <1>0, <2>0, AtWork DEF Worker
  <2>2. /\ main \notin {"done", "panicked"} =>
                /\ wpc[1] # "exited"
                /\ \A i \in DOMAIN messages : messages[i] = i
                /\ Len(messages) = IF wpc[1] = "handling" THEN Len(log[1]) - 1 ELSE Len(log[1])
        /\ main # "start" => seen <= at[1]
        /\ main = "join" => wpc[1] = "control" /\ seen <= Len(log[1])
        /\ main \in {"done", "panicked"} => wpc[1] = "exited"
        /\ main = "done" => Len(log[1]) = 2
        /\ main = "panicked" => seen < 2
    BY <1>0, <1>2 DEF Probed
  <2>3. wpc[1] # "exited" => Len(log[1]) = Begun(1)
    BY <1>2, <2>0, <2>1 DEF Lane, NoLoss, Whole, Targets, Share
  <2>4. main = "start" => wpc[1] = "control"
    BY <1>0, <2>0 DEF Endings
  <2>5. \A w \in Worker : wpc[w] \in {"recv", "handling"} => w = 1
    BY <1>0, <2>0 DEF Endings
  <2>6. ASSUME UNCHANGED <<main, messages, seen, log, wpc>>, at'[1] \in Nat, at'[1] >= at[1]
        PROVE  Probed'
    BY <1>0, <1>2, <1>f, <2>2, <2>6 DEF Probed
  <2>7. ASSUME NEW c \in Client, ClientSend(c) PROVE Probed'
    <3>1. at' = [at EXCEPT ![c] = at[c] + 1] /\ UNCHANGED <<main, messages, seen, log, wpc>>
          /\ at \in [Client -> 0 .. Length]
      BY <2>7, SendFacts DEF machines, kitVars, PInv, TypeOK
    <3>2. at'[1] \in Nat /\ at'[1] >= at[1]
      BY <1>0, <3>1
    <3> QED BY <2>6, <3>1, <3>2
  <2>8. ASSUME NEW c \in Client, ClientEnds(c) PROVE Probed'
    <3>1. UNCHANGED <<at, main, messages, seen, log, wpc>>
      BY <2>8 DEF ClientEnds, machines, workerVars, kitVars
    <3> QED BY <1>0, <2>6, <3>1
  <2>9. ASSUME NEW w \in Worker, Dispatch(w) PROVE Probed'
    <3>m. PICK m : m = Head(rx[w])
      OBVIOUS
    <3>1. /\ rx[w] # <<>> /\ wpc[w] = "recv" /\ Taken(w, m)
          /\ UNCHANGED <<main, at, messages, seen>>
      BY <2>0, <2>9, <3>m, DispatchFacts DEF Lost
    <3>2. w = 1
      BY <2>5, <3>1
    <3>3. m.to = 1 /\ m.body \in Msg
      BY <2>0, <3>1, <3>2, <3>m, InFront DEF Targets
    <3>4. wpc'[1] = "handling"
      BY <1>0, <3>1, <3>2 DEF Taken
    <3>5. Len(log'[1]) = Len(log[1]) + 1
      <4>1. MInv /\ HandleBegin(1, m.body)
        BY <3>1, <3>3 DEF Taken, PInv
      <4>2. log'[1] = Append(log[1], Call(1, m.body))
        BY <1>0, <4>1 DEF HandleBegin, MInv, MachinesOK, Worker
      <4>3. PICK n \in Nat : n = Len(log[1])
        BY <1>0
      <4>4. Len(Append(log[1], Call(1, m.body))) = n + 1
        BY <1>0, <4>3
      <4> QED BY <4>2, <4>3, <4>4
    <3>6. main \notin {"start", "join", "done", "panicked"}
      BY <2>2, <2>4, <3>1, <3>2
    <3>7. Len(messages') = Len(log'[1]) - 1
      BY <1>0, <2>2, <3>1, <3>2, <3>5, <3>6
    <3>8. /\ \A i \in DOMAIN messages' : messages'[i] = i /\ seen' <= at'[1] /\ main' = main
      BY <2>2, <3>1, <3>6
    <3>9. seen' <= at'[1] /\ main' = main
      BY <2>2, <3>1, <3>6
    <3> QED BY <1>2, <1>f, <3>4, <3>6, <3>7, <3>8, <3>9 DEF Probed
  <2>10. ASSUME NEW w \in Worker, NEW stays \in BOOLEAN, Handled(w, stays) PROVE Probed'
    <3>m. PICK m : m = env[w]
      OBVIOUS
    <3>1. /\ wpc[w] = "handling" /\ messages' = Append(messages, m.body)
          /\ wpc' = [wpc EXCEPT ![w] = Loop] /\ UNCHANGED <<main, at, seen, log>>
      BY <1>2, <2>10, <3>m DEF Handled, HandleReturn, Recorded, Goto
    <3>2. w = 1
      BY <2>5, <3>1
    <3>3. m.body \in Msg /\ m.body = Len(log[1])
      <4>1. m.to = 1 /\ m.body = Round(Begun(1)) /\ Len(log[m.to]) = Round(Begun(1))
            /\ Round(Begun(1)) \in Msg
        BY <2>0, <3>m, <3>1, <3>2, InHand DEF Targets
      <4> QED BY <4>1
    <3>4. wpc'[1] = "recv"
      BY <1>0, <2>0, <3>1, <3>2 DEF Loop
    <3>6. main \notin {"start", "join", "done", "panicked"}
      BY <2>2, <2>4, <3>1, <3>2
    <3>5. /\ \A i \in DOMAIN messages : messages[i] = i
          /\ Len(messages) + 1 = Len(log[1])
      BY <1>0, <2>2, <3>1, <3>2, <3>6
    <3>7. /\ Len(messages') = Len(messages) + 1 /\ DOMAIN messages' = 1 .. Len(messages) + 1
          /\ messages'[Len(messages) + 1] = m.body
          /\ \A i \in 1 .. Len(messages) : messages'[i] = messages[i] /\ i \in DOMAIN messages
      BY <1>0, <3>1, <3>3
    <3>8. \A i \in DOMAIN messages' : messages'[i] = i
      BY <1>0, <3>3, <3>5, <3>7
    <3>9. Len(messages') = Len(log'[1]) /\ seen' <= at'[1] /\ main' = main
      BY <2>2, <3>1, <3>5, <3>6, <3>7
    <3> QED BY <1>2, <1>f, <3>4, <3>6, <3>8, <3>9 DEF Probed
  <2>11. CASE Start
    <3>1. /\ main = "start" /\ main' = "run" /\ seen' = Len(rx[1])
          /\ wpc' = [wpc EXCEPT ![1] = "recv"] /\ UNCHANGED <<at, log, messages>>
      BY <2>0, <2>11 DEF Start, threadVars, machines
    <3>2. wpc'[1] = "recv" /\ seen' <= at'[1]
      BY <1>0, <2>1, <3>1
    <3>3. Len(messages) = Len(log[1]) /\ \A i \in DOMAIN messages : messages[i] = i
      BY <2>2, <2>4, <3>1
    <3> QED BY <1>2, <1>f, <3>1, <3>2, <3>3 DEF Probed
  <2>12. CASE PollEmpty
    <3>1. /\ main = "run" /\ wpc[1] = "recv" /\ rx[1] = <<>>
          /\ main' = IF processed THEN main ELSE "join"
          /\ wpc' = [wpc EXCEPT ![1] = IF processed THEN "recv" ELSE "control"]
          /\ UNCHANGED <<at, log, messages, seen>>
      BY <2>12 DEF PollEmpty, threadVars, machines, Goto
    <3>2. /\ wpc'[1] = IF processed THEN "recv" ELSE "control"
      BY <1>0, <3>1
    <3>3. Len(messages) = Len(log[1]) /\ \A i \in DOMAIN messages : messages[i] = i
      BY <2>2, <3>1
    <3>4. Len(rx[1]) = 0
      BY <3>1
    <3>5. seen <= at[1] /\ seen <= Len(log[1])
      BY <2>1, <2>2, <2>3, <3>1, <3>4
    <3> QED BY <1>2, <1>f, <3>1, <3>2, <3>3, <3>5 DEF Probed
  <2>13. CASE Assert
    <3>1. /\ main = "join" /\ wpc' = [wpc EXCEPT ![1] = "exited"] /\ UNCHANGED <<at, log, seen>>
          /\ \/ main' = "done" /\ messages = <<1, 2>> /\ messages' = <<>>
             \/ main' = "panicked" /\ messages # <<1, 2>> /\ UNCHANGED messages
      BY <2>13 DEF Assert, threadVars, machines, Goto, Expected, Reset
    <3>2. wpc'[1] = "exited"
      BY <1>0, <3>1
    <3>3. /\ Len(messages) = Len(log[1]) /\ \A i \in DOMAIN messages : messages[i] = i
          /\ seen <= Len(log[1]) /\ seen <= at[1] /\ Len(log[1]) <= 2
      BY <1>0, <2>1, <2>2, <2>3, <3>1
    <3>4. messages # <<1, 2>> => seen < 2
      <4>0. SUFFICES ASSUME ~ (seen < 2) PROVE messages = <<1, 2>>
        OBVIOUS
      <4>1. Len(messages) = 2
        <5>1. PICK l \in Nat : l = Len(log[1])
          BY <1>0
        <5>2. seen \in Nat /\ seen <= l /\ l <= 2 /\ ~ (seen < 2)
          BY <1>0, <3>3, <4>0, <5>1
        <5>3. l = 2
          BY <5>2
        <5> QED BY <3>3, <5>1, <5>3
      <4>2. DOMAIN messages = 1 .. 2
        BY <1>0, <4>1
      <4>3. messages[1] = 1 /\ messages[2] = 2
        BY <3>3, <4>2
      <4> QED BY <1>0, <4>1, <4>3
    <3>5. messages = <<1, 2>> => Len(log[1]) = 2
      BY <3>3
    <3> QED BY <1>2, <1>f, <3>1, <3>2, <3>3, <3>4, <3>5 DEF Probed
  <2>14. CASE Ending
    <3>1. UNCHANGED <<at, main, messages, seen, log, wpc>>
      BY <2>14 DEF Ending, vars, threadVars, machines, workerVars, kitVars
    <3> QED BY <1>0, <2>6, <3>1
  <2>15. ~ (Shutdown \/ WorkersJoined \/ RunReturns \/ Join)
    BY <1>2, <2>0 DEF Shutdown, WorkersJoined, RunReturns, Join
  <2>16. \A w \in Worker : ~ (ControlEmpty(w) \/ RecvShutdown(w) \/ Timeout(w) \/ Panics(w))
    BY <2>0 DEF ControlEmpty, RecvShutdown, Timeout, Panics
  <2> QED BY <2>7, <2>8, <2>9, <2>10, <2>11, <2>12, <2>13, <2>14, <2>15, <2>16
          DEF Next, MainStep, WorkerStep, ClientStep
<1> QED BY <1>1, <1>2
-----------------------------------------------------------------------------
(* Types, and the first state. *)

LEMMA TypeStep ==
    ASSUME PInv, Next
    PROVE  TypeOK'
<1>0. /\ 1 \in Worker /\ Known(prog) /\ prog \in Scripts /\ MachinesOK
      /\ main \in {"start", "run", "join", "drop", "done", "panicked"}
      /\ at \in [Client -> 0 .. Length] /\ answer \in [Client -> Msg]
      /\ cpc \in [Client -> {"running", "waiting", "done", "panicked"}]
      /\ rx \in [Worker -> Seq(Message)] /\ wpc \in [Worker -> {"control", "recv", "handling", "exited"}]
      /\ env \in [Worker -> Message \cup {None}]
      /\ \A w \in Worker : env[w] \in IF wpc[w] = "handling" THEN Message ELSE {None}
      /\ signalled \subseteq Worker /\ processed \in BOOLEAN /\ messages \in Seq(Msg) /\ seen \in Nat
  BY AtWork, ActorAssumption DEF PInv, TypeOK, Worker
<1>m. MachinesOK'
  BY StepLanes DEF MInv
<1>l. Length \in Nat
  BY <1>0 DEF Known, Length
<1>f. prog' = prog /\ Length' = Length
  <2>1. prog' = prog
    BY DEF Next, MainStep, WorkerStep, ClientStep, Ending, Start, RunReturns, PollEmpty,
           Shutdown, WorkersJoined, Join, Assert, vars, ControlEmpty, RecvShutdown, Timeout,
           Dispatch, Handled, Panics, ClientSend, ClientEnds
  <2> QED BY <2>1, Fixed
<1>1. ASSUME NEW c \in Client, ClientSend(c) PROVE TypeOK'
  <2>1. /\ c \in prog.clients /\ at[c] < Length /\ at' = [at EXCEPT ![c] = at[c] + 1]
        /\ UNCHANGED <<main, answer, wpc, env, signalled, processed, messages, seen>>
    BY <1>1, SendFacts DEF kitVars
  <2>2. at[c] + 1 \in 0 .. Length
    BY <1>0, <1>l, <2>1
  <2>3. cpc' \in [Client -> {"running", "waiting", "done", "panicked"}] /\ rx' \in [Worker -> Seq(Message)]
    <3>1. CASE /\ rx' = rx
               /\ cpc' = [d \in Client |-> IF d = c THEN Failed ELSE cpc[d]]
      BY <1>0, <3>1 DEF Failed
    <3>2. CASE /\ rx' = [rx EXCEPT ![c] = Append(rx[c], Post(c, at[c] + 1))]
               /\ cpc' = [cpc EXCEPT ![c] = IF prog = Probe THEN cpc[c] ELSE "waiting"]
      <4>m. PICK k : k = at[c] + 1
        OBVIOUS
      <4>1. Post(c, k) \in Message
        BY <1>0, <1>l, <2>1, <2>2, <4>m, Posts
      <4>2. Append(rx[c], Post(c, k)) \in Seq(Message)
        BY <1>0, <4>1 DEF Client, Worker
      <4> QED BY <1>0, <3>2, <4>m, <4>2
    <3>3. \/ /\ rx' = rx
             /\ cpc' = [d \in Client |-> IF d = c THEN Failed ELSE cpc[d]]
          \/ /\ rx' = [rx EXCEPT ![c] = Append(rx[c], Post(c, at[c] + 1))]
             /\ cpc' = [cpc EXCEPT ![c] = IF prog = Probe THEN cpc[c] ELSE "waiting"]
      BY <1>1, SendFacts
    <3> QED BY <3>1, <3>2, <3>3
  <2> QED BY <1>0, <1>m, <1>f, <2>1, <2>2, <2>3 DEF TypeOK
<1>2. ASSUME NEW c \in Client, ClientEnds(c) PROVE TypeOK'
  <2>1. /\ cpc' = [cpc EXCEPT ![c] = "done"]
        /\ UNCHANGED <<main, at, answer, rx, wpc, env, signalled, processed, messages, seen>>
    BY <1>2 DEF ClientEnds, workerVars, kitVars
  <2> QED BY <1>0, <1>m, <1>f, <2>1 DEF TypeOK
<1>3. ASSUME NEW w \in Worker, ControlEmpty(w) \/ Timeout(w) PROVE TypeOK'
  <2>1. /\ wpc[w] \in {"control", "recv"} /\ \E to \in {"control", "recv"} : wpc' = [wpc EXCEPT ![w] = to]
        /\ UNCHANGED <<main, at, cpc, answer, rx, env, signalled, processed, messages, seen>>
    BY <1>3 DEF ControlEmpty, Timeout, Goto, threadVars, kitVars
  <2> QED BY <1>0, <1>m, <1>f, <2>1 DEF TypeOK
<1>4. ASSUME NEW w \in Worker, RecvShutdown(w) PROVE TypeOK'
  <2>1. /\ wpc[w] = "control" /\ rx' = [rx EXCEPT ![w] = <<>>] /\ wpc' = [wpc EXCEPT ![w] = "exited"]
        /\ UNCHANGED <<main, at, answer, env, signalled, processed, messages, seen>>
        /\ cpc' \in [Client -> {"running", "waiting", "done", "panicked"}]
    BY <1>4, ShutdownFacts DEF kitVars
  <2> QED BY <1>0, <1>m, <1>f, <2>1 DEF TypeOK
<1>5. ASSUME NEW w \in Worker, Dispatch(w) PROVE TypeOK'
  <2>m. PICK m : m = Head(rx[w])
    OBVIOUS
  <2>1. /\ rx[w] # <<>> /\ wpc[w] = "recv" /\ processed' = TRUE
        /\ rx' = [rx EXCEPT ![w] = Tail(rx[w])]
        /\ UNCHANGED <<main, at, answer, signalled, messages, seen>>
        /\ Taken(w, m) \/ Lost(w, m)
    BY <1>5, <2>m, DispatchFacts
  <2>2. m \in Message /\ Tail(rx[w]) \in Seq(Message)
    BY <2>1, <2>m, InFront
  <2>3. CASE Taken(w, m)
    <3>1. env' = [env EXCEPT ![w] = m] /\ wpc' = [wpc EXCEPT ![w] = "handling"] /\ cpc' = cpc
      BY <2>3 DEF Taken
    <3> QED BY <1>0, <1>m, <1>f, <2>1, <2>2, <3>1 DEF TypeOK
  <2>4. CASE Lost(w, m)
    <3>1. env' = env /\ wpc' = [wpc EXCEPT ![w] = "control"]
          /\ cpc' = [d \in Client |-> IF d = w THEN "running" ELSE cpc[d]]
      BY <2>4 DEF Lost
    <3>2. cpc' \in [Client -> {"running", "waiting", "done", "panicked"}]
      BY <1>0, <3>1
    <3>3. wpc' \in [Worker -> {"control", "recv", "handling", "exited"}]
      BY <1>0, <3>1
    <3>4. \A v \in Worker : env'[v] \in IF wpc'[v] = "handling" THEN Message ELSE {None}
      BY <1>0, <2>1, <3>1
    <3> QED BY <1>0, <1>m, <1>f, <2>1, <2>2, <3>1, <3>2, <3>3, <3>4 DEF TypeOK
  <2> QED BY <2>1, <2>3, <2>4
<1>6. ASSUME NEW w \in Worker, NEW stays \in BOOLEAN, Handled(w, stays) PROVE TypeOK'
  <2>m. PICK m : m = env[w]
    OBVIOUS
  <2>1. /\ wpc[w] = "handling" /\ messages' = Recorded(m)
        /\ answer' = [answer EXCEPT ![m.from] = Len(log[m.to])]
        /\ cpc' = [cpc EXCEPT ![m.from] = IF cpc[m.from] = "waiting" THEN "running" ELSE cpc[m.from]]
        /\ env' = [env EXCEPT ![w] = None] /\ wpc' = [wpc EXCEPT ![w] = Loop]
        /\ UNCHANGED <<main, at, rx, signalled, processed, seen>>
    BY <1>6, <2>m DEF Handled, Goto, Answer
  <2>2. /\ w \in prog.clients /\ m.from = w /\ m.body \in Msg /\ Len(log[m.to]) \in Msg
    <3>1. w \in prog.clients /\ m.from = w /\ m.body = Round(Begun(w))
          /\ Len(log[m.to]) = Round(Begun(w)) /\ Round(Begun(w)) \in Msg
      BY <2>1, <2>m, InHand
    <3> QED BY <3>1
  <2>3. messages' \in Seq(Msg)
    BY <1>0, <2>1, <2>2 DEF Recorded
  <2>4. answer' \in [Client -> Msg]
    BY <1>0, <2>1, <2>2
  <2>5. cpc' \in [Client -> {"running", "waiting", "done", "panicked"}]
    BY <1>0, <2>1, <2>2 DEF Client, Worker
  <2>6. Loop \in {"control", "recv"}
    BY DEF Loop
  <2> QED BY <1>0, <1>m, <1>f, <2>1, <2>3, <2>4, <2>5, <2>6 DEF TypeOK
<1>7. ASSUME NEW w \in Worker, Panics(w) PROVE TypeOK'
  <2>1. /\ wpc[w] = "handling" /\ Fail({env[w].from})
        /\ env' = [env EXCEPT ![w] = None] /\ wpc' = [wpc EXCEPT ![w] = Loop]
        /\ UNCHANGED <<main, at, answer, rx, signalled, processed, messages, seen>>
    BY <1>7 DEF Panics, Goto, kitVars
  <2>2. cpc' \in [Client -> {"running", "waiting", "done", "panicked"}]
    <3>1. PICK S : cpc' = [c \in Client |-> IF c \in S THEN Failed ELSE cpc[c]]
      BY <2>1 DEF Fail
    <3> QED BY <1>0, <3>1 DEF Failed
  <2>6. Loop \in {"control", "recv"}
    BY DEF Loop
  <2> QED BY <1>0, <1>m, <1>f, <2>1, <2>2, <2>6 DEF TypeOK
<1>8. CASE Start
  <2>1. /\ main' \in {"run", "join"} /\ wpc' = IF Threaded THEN wpc ELSE [wpc EXCEPT ![1] = "recv"]
        /\ seen' = Len(rx[1]) /\ processed' = FALSE
        /\ UNCHANGED <<at, cpc, answer, rx, env, signalled, messages>>
    BY <1>8 DEF Start, threadVars
  <2>2. wpc[1] = "control" \/ Threaded
    BY <1>8 DEF Start, PInv, Endings
  <2>3. seen' \in Nat
    BY <1>0, <2>1
  <2>4. wpc' \in [Worker -> {"control", "recv", "handling", "exited"}]
        /\ \A w \in Worker : wpc'[w] = "handling" <=> wpc[w] = "handling"
    BY <1>0, <2>1, <2>2
  <2>5. \A v \in Worker : env'[v] \in IF wpc'[v] = "handling" THEN Message ELSE {None}
    BY <1>0, <2>1, <2>4
  <2> QED BY <1>0, <1>m, <1>f, <2>1, <2>3, <2>4, <2>5 DEF TypeOK
<1>9. CASE RunReturns
  <2>1. /\ wpc[1] = "recv" /\ wpc' = [wpc EXCEPT ![1] = "exited"] /\ main' = "join"
        /\ UNCHANGED <<at, cpc, answer, rx, env, signalled, processed, messages, seen>>
    BY <1>9 DEF RunReturns, threadVars, Goto, kitVars
  <2> QED BY <1>0, <1>m, <1>f, <2>1 DEF TypeOK
<1>10. CASE PollEmpty
  <2>1. /\ wpc[1] = "recv" /\ main' \in {main, "join"} /\ processed' = FALSE
        /\ wpc' = [wpc EXCEPT ![1] = IF processed THEN "recv" ELSE "control"]
        /\ UNCHANGED <<at, cpc, answer, rx, env, signalled, messages, seen>>
    BY <1>10 DEF PollEmpty, threadVars, Goto
  <2>2. main' \in {"start", "run", "join", "drop", "done", "panicked"}
    BY <1>0, <2>1
  <2>3. wpc' \in [Worker -> {"control", "recv", "handling", "exited"}]
        /\ \A w \in Worker : wpc'[w] = "handling" <=> wpc[w] = "handling"
    BY <1>0, <2>1
  <2>4. \A v \in Worker : env'[v] \in IF wpc'[v] = "handling" THEN Message ELSE {None}
    BY <1>0, <2>1, <2>3
  <2> QED BY <1>0, <1>m, <1>f, <2>1, <2>2, <2>3, <2>4 DEF TypeOK
<1>11. CASE Shutdown
  <2>1. /\ signalled' \subseteq Worker
        /\ UNCHANGED <<main, at, cpc, answer, rx, wpc, env, processed, messages, seen>>
    BY <1>0, <1>11 DEF Shutdown, threadVars, kitVars
  <2> QED BY <1>0, <1>m, <1>f, <2>1 DEF TypeOK
<1>12. CASE WorkersJoined \/ Join
  <2>1. /\ main' \in {"join", "done", "drop", "panicked"}
        /\ UNCHANGED <<at, cpc, answer, rx, wpc, env, signalled, processed, messages, seen>>
    BY <1>12 DEF WorkersJoined, Join, threadVars, workerVars, kitVars
  <2> QED BY <1>0, <1>m, <1>f, <2>1 DEF TypeOK
<1>13. CASE Assert
  <2>1. /\ main' \in {"done", "panicked"} /\ messages' \in {messages, <<>>} /\ prog = Probe /\ main = "join"
        /\ wpc' = [wpc EXCEPT ![1] = "exited"] /\ rx' = [rx EXCEPT ![1] = <<>>]
        /\ UNCHANGED <<at, cpc, answer, env, signalled, processed, seen>>
    BY <1>13 DEF Assert, threadVars, Goto, Reset
  <2>2. wpc[1] = "control"
    BY <2>1 DEF PInv, Probed
  <2>3. messages' \in Seq(Msg)
    <3>1. <<>> \in Seq(Msg)
      OBVIOUS
    <3>2. CASE messages' = messages
      BY <1>0, <3>2
    <3>3. CASE messages' = <<>>
      BY <3>1, <3>3
    <3> QED BY <2>1, <3>2, <3>3
  <2>4. wpc' \in [Worker -> {"control", "recv", "handling", "exited"}]
        /\ \A w \in Worker : wpc'[w] = "handling" <=> wpc[w] = "handling"
    BY <1>0, <2>1, <2>2
  <2>5. \A v \in Worker : env'[v] \in IF wpc'[v] = "handling" THEN Message ELSE {None}
    BY <1>0, <2>1, <2>4
  <2>6. rx' \in [Worker -> Seq(Message)]
    BY <1>0, <2>1
  <2> QED BY <1>0, <1>m, <1>f, <2>1, <2>3, <2>4, <2>5, <2>6 DEF TypeOK
<1>14. CASE Ending
  <2>1. UNCHANGED <<main, at, cpc, answer, rx, wpc, env, signalled, processed, messages, seen>>
    BY <1>14 DEF Ending, vars, threadVars, workerVars, kitVars
  <2> QED BY <1>0, <1>m, <1>f, <2>1 DEF TypeOK
<1> QED BY <1>1, <1>2, <1>3, <1>4, <1>5, <1>6, <1>7, <1>8, <1>9, <1>10, <1>11, <1>12, <1>13, <1>14
        DEF Next, MainStep, WorkerStep, ClientStep

LEMMA PInvInit == Init => PInv
<1> SUFFICES ASSUME Init PROVE PInv
  OBVIOUS
<1>1. prog \in Scripts /\ Known(prog)
  BY ScriptsKnown DEF Init
<1>2. /\ main = "start"
      /\ at = [c \in Client |-> 0] /\ answer = [c \in Client |-> 0]
      /\ cpc = [c \in Client |-> IF c \in prog.clients THEN "running" ELSE "done"]
      /\ rx = [w \in Worker |-> <<>>] /\ env = [w \in Worker |-> None]
      /\ wpc = [w \in Worker |-> "control"]
      /\ signalled = {} /\ processed = FALSE /\ messages = <<>> /\ seen = 0
      /\ New([a \in Actor |-> prog.sequence])
  BY DEF Init
<1>3. MInv /\ MachinesOK
  <2>1. [a \in Actor |-> prog.sequence] \in [Actor -> Seq(State)]
    BY <1>1 DEF Known
  <2> QED BY <1>2, <2>1, InvInit DEF MInv
<1>4. TypeOK
  <2>1. Length \in Nat
    BY <1>1 DEF Length, Known
  <2>2. 0 \in Msg
    BY MsgAssumption
  <2>3. /\ at \in [Client -> 0 .. Length] /\ answer \in [Client -> Msg]
        /\ cpc \in [Client -> {"running", "waiting", "done", "panicked"}]
    BY <1>2, <2>1, <2>2
  <2>4. /\ rx \in [Worker -> Seq(Message)] /\ wpc \in [Worker -> {"control", "recv", "handling", "exited"}]
        /\ env \in [Worker -> Message \cup {None}] /\ messages \in Seq(Msg)
        /\ \A w \in Worker : env[w] \in IF wpc[w] = "handling" THEN Message ELSE {None}
    BY <1>2
  <2> QED BY <1>2, <1>3, <2>3, <2>4 DEF TypeOK
<1>5. Lanes
  <2>1. ASSUME NEW c \in prog.clients PROVE Lane(c) /\ Phase(c)
    <3>1. /\ c \in Actor /\ \A a \in Targets(c) : a \in Actor
      BY <1>1, <2>1, Clients
    <3>2. /\ at[c] = 0 /\ rx[c] = <<>> /\ wpc[c] = "control" /\ cpc[c] = "running" /\ Len(rx[c]) = 0
      BY <1>2, <2>1, <3>1 DEF Client, Worker
    <3>3. Begun(c) = 0
      <4>1. 0 - 0 = 0
        OBVIOUS
      <4> QED BY <3>2, <4>1 DEF Begun
    <3>4. \A a : Share(a, 0) = 0
      <4>1. (0 + 1) \div 2 = 0 /\ 0 \div 2 = 0
        BY SMT
      <4> QED BY <4>1 DEF Share
    <3>5. Whole(c)
      BY <1>2, <3>1, <3>3, <3>4 DEF Whole, New
    <3>6. Lane(c)
      BY <3>2, <3>5 DEF Lane
    <3>7. Phase(c)
      BY <3>2 DEF Phase
    <3> QED BY <3>6, <3>7
  <2>2. \A c \in Actor \ prog.clients : cpc[c] = "done" /\ rx[c] = <<>> /\ wpc[c] # "handling"
    BY <1>2 DEF Client, Worker
  <2> QED BY <2>1, <2>2 DEF Lanes
<1>6. Served
  <2>1. \A a \in Actor : /\ states[a] = prog.sequence /\ pc[a] = "ready" /\ log[a] = <<>>
                         /\ current[a] = Len(log[a]) % Len(states[a])
    BY <1>2, <1>3 DEF New, MInv, InStep
  <2>2. states = [a \in Actor |-> prog.sequence]
    BY <1>2 DEF New
  <2>3. \A a \in Actor : \A n \in DOMAIN log[a] : log[a][n].msg = n
    <3>1. \A a \in Actor : log[a] = <<>>
      BY <2>1
    <3>2. DOMAIN <<>> = {}
      OBVIOUS
    <3> QED BY <3>1, <3>2, Zenon
  <2>4. \A a \in Actor : pc[a] # "handling" /\ pc[a] # "stopped"
    BY <2>1
  <2> QED BY <2>1, <2>2, <2>3, <2>4 DEF Served
<1>7. Endings
  BY <1>2, ActorAssumption DEF Endings, Client, Worker
<1>8. Probed
  <2>1. wpc[1] = "control" /\ log[1] = <<>>
    BY <1>2, ActorAssumption DEF Worker, New
  <2> QED BY <1>2, <2>1 DEF Probed
<1> QED BY <1>1, <1>3, <1>4, <1>5, <1>6, <1>7, <1>8 DEF PInv

LEMMA PInvStep == PInv /\ [Next]_vars => PInv'
<1> SUFFICES ASSUME PInv, [Next]_vars PROVE PInv'
  OBVIOUS
<1>1. CASE Next
  <2>1. prog' = prog /\ Scripts' = Scripts
    BY <1>1 DEF Next, MainStep, WorkerStep, ClientStep, Ending, Start, RunReturns, PollEmpty,
           Shutdown, WorkersJoined, Join, Assert, vars, ControlEmpty, RecvShutdown, Timeout,
           Dispatch, Handled, Panics, ClientSend, ClientEnds, Scripts, Counting, Rally, Pipeline,
           Tasks, Probe, Any, Script, Sequences
  <2>2. prog' \in Scripts'
    BY <2>1 DEF PInv
  <2> QED BY <1>1, <2>2, StepLanes, EndingsStep, ProbedStep, TypeStep DEF PInv
<1>2. CASE UNCHANGED vars
  <2>1. /\ UNCHANGED <<machines, prog, main, at, cpc, answer, rx, wpc, env, signalled, processed, messages, seen>>
        /\ UNCHANGED threadVars
    BY <1>2 DEF vars, threadVars, workerVars, kitVars
  <2>2. Lanes' /\ Served' /\ MInv'
    BY <2>1, LoopKeeps
  <2>3. Endings'
    BY <2>1, EndingsKept
  <2>4. /\ UNCHANGED <<states, current, pc, log>> /\ Probe' = Probe /\ Length' = Length
    BY <2>1, Fixed DEF machines
  <2>5. Probed'
    BY <2>1, <2>4 DEF PInv, Probed
  <2>6. TypeOK'
    BY <2>1, <2>2, <2>4 DEF PInv, TypeOK, MInv
  <2>7. prog' \in Scripts'
    BY <2>1 DEF PInv, Scripts, Counting, Rally, Pipeline, Tasks, Probe, Any, Script, Sequences
  <2> QED BY <2>2, <2>3, <2>5, <2>6, <2>7 DEF PInv
<1> QED BY <1>1, <1>2
-----------------------------------------------------------------------------
(* The results. *)

(* In every program the channels keep the order of sending, a client waits *)
(* for the one message that is on its way, an actor is called with every   *)
(* round once, and the probe has what its actor was called with.           *)
THEOREM ProgramsInvariant == Spec => []PInv
<1> QED BY PInvInit, PInvStep, PTL DEF Spec

(* The order of the states of handle_in_state, in whole programs.          *)
THEOREM ProgramsCycleInOrder == Spec => []CyclesInOrder
<1>1. PInv => CyclesInOrder
  BY DEF PInv, MInv
<1> QED BY <1>1, ProgramsInvariant, PTL

(* The unwraps of multi_thread.rs fail only where run has shut the worker  *)
(* down; no other program panics, but for the test that sleeps too short.  *)
THEOREM PanicsExplainedHolds == Spec => []PanicsExplained
<1>1. PInv => PanicsExplained
  <2> SUFFICES ASSUME PInv PROVE PanicsExplained
    OBVIOUS
  <2>1. Endings /\ Probed /\ Known(prog)
    BY AtWork DEF PInv
  <2>2. \A c \in Client : cpc[c] = "panicked" => prog = Tasks /\ c \in signalled
    BY <2>1 DEF Endings
  <2>3. CASE prog = Probe
    BY <2>1, <2>2, <2>3 DEF Probed, PanicsExplained, Known
  <2>4. CASE prog # Probe
    BY <2>1, <2>2, <2>4 DEF Endings, PanicsExplained
  <2> QED BY <2>3, <2>4
<1> QED BY <1>1, ProgramsInvariant, PTL

(* A log is what it says of the bodies. *)
LEMMA BodiesAreRounds ==
    ASSUME PInv, NEW a \in Actor
    PROVE  Bodies(a) = [n \in 1 .. Len(log[a]) |-> n]
<1>1. log[a] \in Seq([state : State, msg : Msg]) /\ \A n \in DOMAIN log[a] : log[a][n].msg = n
  BY AtWork DEF PInv, Served
<1>2. DOMAIN log[a] = 1 .. Len(log[a])
  BY <1>1
<1> QED BY <1>1, <1>2 DEF Bodies

(* run_until_idle has dispatched what was posted before it was called, and *)
(* the probe has it in the order of posting.                               *)
THEOREM IdleRecordsAllSentHolds == Spec => []IdleRecordsAllSent
<1>1. PInv => IdleRecordsAllSent
  <2> SUFFICES ASSUME PInv, prog = Probe, main = "join"
               PROVE  Len(messages) >= seen /\ messages = Bodies(1)
    BY DEF IdleRecordsAllSent
  <2>1. /\ wpc[1] = "control" /\ seen <= Len(log[1])
        /\ \A i \in DOMAIN messages : messages[i] = i
        /\ Len(messages) = Len(log[1])
    BY DEF PInv, Probed
  <2>2. messages \in Seq(Msg) /\ 1 \in Actor /\ seen \in Nat /\ Len(log[1]) \in Nat
    BY AtWork, ActorAssumption DEF PInv, TypeOK
  <2>3. messages = [i \in 1 .. Len(log[1]) |-> i]
    BY <2>1, <2>2
  <2>4. Bodies(1) = [i \in 1 .. Len(log[1]) |-> i]
    BY <2>2, BodiesAreRounds
  <2> QED BY <2>1, <2>2, <2>3, <2>4
<1> QED BY <1>1, ProgramsInvariant, PTL

LEMMA WholeRounds ==
    ASSUME NEW r \in Nat
    PROVE  (2 * r + 1) \div 2 = r /\ (2 * r) \div 2 = r
BY SMT

(* The scripts that print a last line: whole cycles, and no loss. *)
LEMMA WholeCycles ==
    ASSUME prog \in {Counting, Rally, Pipeline, Tasks, Probe}
    PROVE  /\ prog.rounds % Len(prog.sequence) = 0 /\ prog.rounds \in Nat
           /\ prog # Probe => prog.unwraps
           /\ prog.turns => prog.clients = {1}
<1>1. 5 % 1 = 0 /\ 4 % 2 = 0 /\ 8 % 4 = 0 /\ 3 % 3 = 0 /\ 2 % 1 = 0
  BY SMT
<1>2. CASE prog = Counting
  <2>1. Len(<<"plain">>) = 1
    OBVIOUS
  <2> QED BY <1>1, <1>2, <2>1 DEF Counting, Script
<1>3. CASE prog = Rally
  <2>1. Len(RallyState) = 2
    BY DEF RallyState
  <2> QED BY <1>1, <1>3, <2>1 DEF Rally, Script
<1>4. CASE prog = Pipeline
  <2>1. Len(DocState) = 4
    BY DEF DocState
  <2> QED BY <1>1, <1>4, <2>1 DEF Pipeline, Script
<1>5. CASE prog = Tasks
  <2>1. Len(TaskState) = 3
    BY DEF TaskState
  <2> QED BY <1>1, <1>5, <2>1 DEF Tasks, Script
<1>6. CASE prog = Probe
  <2>1. Len(<<"plain">>) = 1
    OBVIOUS
  <2> QED BY <1>1, <1>6, <2>1 DEF Probe, Script
<1> QED BY <1>2, <1>3, <1>4, <1>5, <1>6

(* When the main thread is through, every actor of the script has had all  *)
(* its rounds, and is at the beginning of its cycle again.                 *)
LEMMA AllServed ==
    ASSUME PInv, main = "done", prog \in {Counting, Rally, Pipeline, Tasks, Probe},
           NEW a \in Actor, a \in IF prog.turns THEN {1, 2} ELSE prog.clients
    PROVE  Len(log[a]) = prog.rounds /\ current[a] = 0
<1>1. /\ Known(prog) /\ prog \in Scripts /\ Served /\ Endings /\ Probed
      /\ prog.rounds % Len(prog.sequence) = 0 /\ prog.rounds \in Nat
      /\ prog # Probe => prog.unwraps
  BY AtWork, WholeCycles DEF PInv
<1>c. PICK c \in prog.clients : a \in Targets(c)
  <2>1. CASE prog.turns
    BY <2>1, WholeCycles DEF Targets
  <2>2. CASE ~ prog.turns
    BY <2>2 DEF Targets
  <2> QED BY <2>1, <2>2
<1>2. /\ c \in Actor /\ Lane(c) /\ Phase(c) /\ at[c] \in Nat /\ Begun(c) + Len(rx[c]) = at[c]
      /\ Begun(c) \in Nat /\ Home(a) = c
  BY <1>1, <1>c, AtWork, Clients
<1>3. ~ Custom
  <2>1. prog = Probe => ~ Threaded
    BY <1>1 DEF Known, Threaded
  <2> QED BY <1>1, <2>1 DEF Custom
<1>4. CASE prog # Probe
  <2>1. cpc[c] = "done"
    BY <1>1, <1>2, <1>4 DEF Endings, Client
  <2>2. at[c] = Length /\ rx[c] = <<>> /\ wpc[c] # "handling"
    BY <1>2, <1>4, <2>1 DEF Phase
  <2>3. Begun(c) = Length
    <3>1. Len(rx[c]) = 0
      BY <2>2
    <3> QED BY <1>2, <2>2, <3>1
  <2>4. Len(log[a]) = Share(a, Length)
    BY <1>2, <1>3, <1>4, <1>c, <2>1, <2>3 DEF Lane, NoLoss, Whole
  <2>5. Share(a, Length) = prog.rounds
    <3>1. PICK r \in Nat : r = prog.rounds
      BY <1>1
    <3>2. (2 * r + 1) \div 2 = r /\ (2 * r) \div 2 = r
      BY WholeRounds
    <3> QED BY <3>1, <3>2 DEF Share, Length
  <2>6. pc[a] # "handling"
    BY <1>1, <1>2, <2>2 DEF Served
  <2>7. current[a] = Len(log[a]) % Len(prog.sequence)
    BY <1>1, <1>3, <2>6 DEF Served
  <2> QED BY <1>1, <2>4, <2>5, <2>7
<1>5. CASE prog = Probe
  <2>1. a = 1 /\ prog.rounds = 2
    BY <1>1, <1>5 DEF Known
  <2>2. Len(log[1]) = 2 /\ wpc[1] = "exited"
    BY <1>1, <1>5 DEF Probed
  <2>3. pc[a] # "handling"
    <3>1. Home(a) = 1
      BY <1>1, <1>5, <2>1 DEF Known, Home, Threaded
    <3> QED BY <1>1, <2>2, <3>1 DEF Served
  <2>4. current[a] = Len(log[a]) % Len(prog.sequence)
    BY <1>1, <1>3, <2>3 DEF Served
  <2> QED BY <1>1, <2>1, <2>2, <2>4
<1> QED BY <1>4, <1>5

(* Eight documents, four states: each is met twice. *)
LEMMA TwiceEach ==
    ASSUME PInv, main = "done", prog = Pipeline
    PROVE  Times("Validate") = 2 /\ Times("Process") = 2
<1>1. 1 \in Actor /\ Len(log[1]) = 8 /\ states[1] = DocState
  <2>1. 1 \in Actor /\ ~ prog.turns /\ prog.clients = {1} /\ prog.rounds = 8
        /\ prog.sequence = DocState
    BY ActorAssumption DEF Pipeline, Script
  <2>2. Len(log[1]) = 8
    BY <2>1, AllServed
  <2> QED BY <2>1, <2>2 DEF PInv, Served
<1>2. log[1] \in Seq([state : State, msg : Msg]) /\ DOMAIN log[1] = 1 .. 8
  <2>1. log[1] \in Seq([state : State, msg : Msg])
    BY <1>1, AtWork
  <2>2. DOMAIN log[1] = 1 .. Len(log[1])
    BY <2>1
  <2> QED BY <1>1, <2>1, <2>2
<1>3. \A n \in 1 .. 8 : log[1][n].state = DocState[((n - 1) % 4) + 1]
  <2>1. Len(DocState) = 4
    BY DEF DocState
  <2> QED BY <1>1, <1>2, <2>1 DEF PInv, MInv, CyclesInOrder
<1>4. \A n \in 1 .. 8 : /\ DocState[((n - 1) % 4) + 1] = "Validate" <=> n \in {2, 6}
                        /\ DocState[((n - 1) % 4) + 1] = "Process" <=> n \in {3, 7}
  <2> TAKE n \in 1 .. 8
  <2>1. /\ DocState[1] = "Receive" /\ DocState[2] = "Validate" /\ DocState[3] = "Process"
        /\ DocState[4] = "Archive"
    BY DEF DocState
  <2>2. /\ (1 - 1) % 4 = 0 /\ (2 - 1) % 4 = 1 /\ (3 - 1) % 4 = 2 /\ (4 - 1) % 4 = 3
        /\ (5 - 1) % 4 = 0 /\ (6 - 1) % 4 = 1 /\ (7 - 1) % 4 = 2 /\ (8 - 1) % 4 = 3
    BY SMT
  <2>3. n \in {1, 5} \/ n \in {2, 6} \/ n \in {3, 7} \/ n \in {4, 8}
    OBVIOUS
  <2>4. CASE n \in {1, 5}
    <3>1. ((n - 1) % 4) + 1 = 1
      BY <2>2, <2>4
    <3> QED BY <2>1, <2>4, <3>1
  <2>5. CASE n \in {2, 6}
    <3>1. ((n - 1) % 4) + 1 = 2
      BY <2>2, <2>5
    <3> QED BY <2>1, <2>5, <3>1
  <2>6. CASE n \in {3, 7}
    <3>1. ((n - 1) % 4) + 1 = 3
      BY <2>2, <2>6
    <3> QED BY <2>1, <2>6, <3>1
  <2>7. CASE n \in {4, 8}
    <3>1. ((n - 1) % 4) + 1 = 4
      BY <2>2, <2>7
    <3> QED BY <2>1, <2>7, <3>1
  <2> QED BY <2>3, <2>4, <2>5, <2>6, <2>7
<1>5. /\ {n \in DOMAIN log[1] : log[1][n].state = "Validate"} = {2, 6}
      /\ {n \in DOMAIN log[1] : log[1][n].state = "Process"} = {3, 7}
  <2>1. \A n \in 1 .. 8 : /\ log[1][n].state = "Validate" <=> n \in {2, 6}
                          /\ log[1][n].state = "Process" <=> n \in {3, 7}
    BY <1>3, <1>4
  <2>2. {2, 6} \subseteq 1 .. 8 /\ {3, 7} \subseteq 1 .. 8
    OBVIOUS
  <2> QED BY <1>2, <2>1, <2>2
<1>6. Cardinality({2, 6}) = 2 /\ Cardinality({3, 7}) = 2
  <2>1. /\ IsFiniteSet({2}) /\ Cardinality({2}) = 1 /\ IsFiniteSet({3}) /\ Cardinality({3}) = 1
    BY FS_Singleton
  <2>2. Cardinality({2} \cup {6}) = 2 /\ Cardinality({3} \cup {7}) = 2
    BY <2>1, FS_AddElement
  <2>3. {2, 6} = {2} \cup {6} /\ {3, 7} = {3} \cup {7}
    OBVIOUS
  <2> QED BY <2>2, <2>3
<1> QED BY <1>5, <1>6 DEF Times

(* What the examples print at their end is true: every message of a script *)
(* was handled, once and in order, and the machines went through whole     *)
(* cycles.                                                                 *)
THEOREM DoneMeansAllHolds == Spec => []DoneMeansAll
<1>1. PInv => DoneMeansAll
  <2> SUFFICES ASSUME PInv PROVE DoneMeansAll
    OBVIOUS
  <2>1. TypeOK
    BY DEF PInv
  <2>2. ASSUME main = "done", prog \in {Counting, Rally, Pipeline, Tasks, Probe},
               NEW a \in IF prog.turns THEN {1, 2} ELSE prog.clients
        PROVE  Bodies(a) = [n \in 1 .. prog.rounds |-> n] /\ current[a] = 0
    <3>1. a \in Actor
      BY <2>2, AtWork, ActorAssumption
    <3>2. Len(log[a]) = prog.rounds /\ current[a] = 0
      BY <2>2, <3>1, AllServed
    <3> QED BY <3>1, <3>2, BodiesAreRounds
  <2>3. main = "done" /\ prog = Pipeline => Times("Validate") = 2 /\ Times("Process") = 2
    BY TwiceEach
  <2> QED BY <2>1, <2>2, <2>3 DEF DoneMeansAll
<1> QED BY <1>1, ProgramsInvariant, PTL

(* The programs do nothing to a state machine but what the wrapper does:   *)
(* handle, panic in it, or be stopped; every program implements the        *)
(* machines on their own.                                                  *)
THEOREM ProgramsRunMachines == Spec => MachineSpec
<1>1. Init => \E sequences \in [Actor -> Seq(State)] : New(sequences)
  <2> SUFFICES ASSUME Init PROVE \E sequences \in [Actor -> Seq(State)] : New(sequences)
    OBVIOUS
  <2>1. [a \in Actor |-> prog.sequence] \in [Actor -> Seq(State)]
    BY ScriptsKnown DEF Init, Known
  <2> QED BY <2>1 DEF Init
<1>2. PInv /\ [Next]_vars => [MachineNext]_machines
  <2> SUFFICES ASSUME PInv, [Next]_vars PROVE [MachineNext]_machines
    OBVIOUS
  <2>1. ASSUME NEW w \in Worker, Dispatch(w) PROVE [MachineNext]_machines
    <3>m. PICK m : m = Head(rx[w])
      OBVIOUS
    <3>1. rx[w] # <<>> /\ wpc[w] = "recv" /\ (Taken(w, m) \/ Lost(w, m))
      BY <2>1, <3>m, DispatchFacts
    <3>2. m.to \in Actor /\ m.body \in Msg
      BY <3>1, <3>m, InFront
    <3>3. CASE Taken(w, m)
      BY <3>2, <3>3 DEF Taken, MachineNext
    <3>4. CASE Lost(w, m)
      BY <3>4 DEF Lost
    <3> QED BY <3>1, <3>3, <3>4
  <2>2. ASSUME NEW w \in Worker, NEW stays \in BOOLEAN, Handled(w, stays)
        PROVE  [MachineNext]_machines
    <3>m. PICK m : m = env[w]
      OBVIOUS
    <3>1. wpc[w] = "handling" /\ HandleReturn(m.to, stays)
      BY <2>2, <3>m DEF Handled
    <3>2. m.to \in Actor
      BY <3>m, <3>1, InHand
    <3> QED BY <3>1, <3>2 DEF MachineNext
  <2>3. ASSUME NEW w \in Worker, Panics(w) PROVE [MachineNext]_machines
    <3>m. PICK m : m = env[w]
      OBVIOUS
    <3>1. wpc[w] = "handling" /\ HandlePanic(m.to)
      BY <2>3, <3>m DEF Panics
    <3>2. m.to \in Actor
      BY <3>m, <3>1, InHand
    <3> QED BY <3>1, <3>2 DEF MachineNext
  <2>4. ASSUME NEW w \in Worker, RecvShutdown(w) PROVE [MachineNext]_machines
    <3>1. Stopped({w}) /\ {w} \in SUBSET Actor
      BY <2>4 DEF RecvShutdown, Worker
    <3> QED BY <3>1 DEF MachineNext
  <2>5. CASE RunReturns
    <3>1. Stopped(Actor) /\ Actor \in SUBSET Actor
      BY <2>5 DEF RunReturns
    <3> QED BY <3>1 DEF MachineNext
  <2>6. CASE \/ Start \/ PollEmpty \/ Shutdown \/ WorkersJoined \/ Join \/ Assert \/ Ending
             \/ UNCHANGED vars
    BY <2>6 DEF Start, PollEmpty, Shutdown, WorkersJoined, Join, Assert, Ending, vars
  <2>7. ASSUME NEW w \in Worker, ControlEmpty(w) \/ Timeout(w) PROVE [MachineNext]_machines
    BY <2>7 DEF ControlEmpty, Timeout
  <2>8. ASSUME NEW c \in Client, ClientStep(c) PROVE [MachineNext]_machines
    BY <2>8 DEF ClientStep, ClientSend, ClientEnds
  <2> QED BY <2>1, <2>2, <2>3, <2>4, <2>5, <2>6, <2>7, <2>8 DEF Next, MainStep, WorkerStep
<1> QED BY <1>1, <1>2, ProgramsInvariant, PTL DEF Spec, MachineSpec
=============================================================================
