------------------------ MODULE ActorSystem_proofs ------------------------
(***************************************************************************)
(* Proofs about the single-threaded runtime: stopped is called once and    *)
(* last, run ends only when nobody can reach an actor any more and leaves  *)
(* nothing behind, and the system implements ActorContract, for any number *)
(* of actors, messages and client threads.                                 *)
(***************************************************************************)
EXTENDS ActorSystem, SequenceTheorems, TLAPS

Born == 1 .. next_id - 1

(* Addrs and accepted messages are those of actors that were spawned. *)
Known ==
    /\ actors \cup stopped \subseteq Born
    /\ \A c \in Client : hold[c] \subseteq Born /\ waits[c] <= sent
    /\ \A a \in ActorId : keeps[a] \subseteq Born
    /\ \A m \in Msg : IF m <= sent THEN fate[m] # "unsent" /\ target[m] \in Born
                                   ELSE fate[m] = "unsent"

(* Where the owner is, and what it has in hand there. *)
OwnerAt ==
    /\ pc = "handling" => /\ cell \in actors /\ current \in Msg /\ target[current] = cell
                          /\ call = "run" => running
    /\ pc = "on_stop" => cell \in Born \ (actors \cup stopped)
    /\ pc = "stop_all" => call = "run" /\ ~ running
    /\ pc = "idle" => call # "run"
    /\ call = "run" => ~ tx

(* The channel holds the messages that are queued, in the order in which   *)
(* they were accepted.                                                     *)
Queue ==
    /\ \A i, j \in 1 .. Len(rx) : i < j => rx[i] < rx[j]
    /\ \A m \in Msg : m \in Range(rx) <=> fate[m] = "queued"

(* One message is handled at a time; one that was lost has lost its actor. *)
InHand == \A m \in Msg : fate[m] = "handling" <=> pc = "handling" /\ m = current
LostIsGone ==
    \A m \in Msg : fate[m] = "lost" =>
        target[m] \notin actors \/ (pc = "unwinding" /\ target[m] = cell)

(* Until the system is dropped an actor is in the map, has been stopped or *)
(* is just being stopped.                                                  *)
StopsOnce ==
    /\ stopped \cap actors = {}
    /\ pc \notin {"unwinding", "gone"} =>
          Born = actors \cup stopped \cup (IF pc = "on_stop" THEN {cell} ELSE {})

(* When run has left its loop nobody can send, and nobody will be able to; *)
(* after it there is nothing left.                                         *)
RunOver ==
    /\ call = "run" /\ ~ running => ~ SomeSender /\ rx = <<>>
    /\ ~ tx /\ call # "run" /\ pc # "gone" =>
          ~ SomeSender /\ rx = <<>> /\ actors = {} /\ stopped = Born

AInv == TypeOK /\ Known /\ OwnerAt /\ Queue /\ InHand /\ LostIsGone /\ StopsOnce /\ RunOver
-----------------------------------------------------------------------------
LEMMA InitAInv == Init => AInv
<1> SUFFICES ASSUME Init PROVE AInv
  OBVIOUS
<1>1. TypeOK
  <2>1. tx \in BOOLEAN /\ running \in BOOLEAN /\ processed \in BOOLEAN
    BY Zenon DEF Init
  <2>2. next_id \in 1 .. MaxId + 1 /\ sent \in 0 .. MaxMsg /\ rx \in Seq(Msg)
    BY BoundAssumption DEF Init
  <2>3. /\ keeps \in [ActorId -> SUBSET ActorId] /\ hold \in [Client -> SUBSET ActorId]
        /\ waits \in [Client -> Msg \cup {None}] /\ target \in [Msg -> ActorId \cup {None}]
        /\ fate \in [Msg -> {"unsent", "queued", "handling", "done", "lost"}]
    BY DEF Init
  <2>4. /\ actors \subseteq ActorId /\ stopped \subseteq ActorId
        /\ current \in Msg \cup {None} /\ cell \in ActorId \cup {None}
        /\ pc \in {"idle", "recv", "handling", "on_stop", "stop_all", "unwinding", "gone"}
        /\ call \in {"none", "run", "run_once", "run_until_idle"}
    BY DEF Init
  <2> QED BY <2>1, <2>2, <2>3, <2>4 DEF TypeOK
<1>2. Born = {}
  BY DEF Init, Born
<1>3. Known /\ OwnerAt /\ InHand /\ LostIsGone /\ StopsOnce /\ RunOver
  BY <1>2 DEF Init, Known, OwnerAt, InHand, LostIsGone, StopsOnce, RunOver, Msg, None
<1>4. Queue
  BY DEF Init, Queue, Range
<1> QED BY <1>1, <1>3, <1>4 DEF AInv

LEMMA StutterAInv == ASSUME AInv, UNCHANGED vars PROVE AInv'
<1> USE DEF vars, sysVars, msgVars
<1>1. TypeOK'
  BY DEF AInv, TypeOK
<1>2. Known' /\ OwnerAt' /\ Queue' /\ InHand' /\ LostIsGone'
  BY DEF AInv, Known, OwnerAt, Queue, InHand, LostIsGone, Born
<1>3. StopsOnce' /\ RunOver'
  BY DEF AInv, StopsOnce, RunOver, SomeSender, SomeAddr, Born
<1> QED BY <1>1, <1>2, <1>3 DEF AInv

(* A message enters the channel as long as somebody holds an Addr. *)
LEMMA PostAInv ==
    ASSUME AInv, NEW a \in Born, Post(a), UNCHANGED <<sysVars, keeps, hold>>, SomeAddr,
           waits' \in [Client -> Msg \cup {None}],
           \A c \in Client : waits'[c] = waits[c] \/ waits'[c] = sent + 1
    PROVE  AInv'
<1>0. /\ sent \in Nat /\ MaxMsg \in Nat /\ MaxId \in Nat /\ next_id \in Nat
      /\ sent' = sent + 1 /\ sent' \in Msg /\ sent' \in 0 .. MaxMsg
      /\ target' = [target EXCEPT ![sent + 1] = a] /\ fate' = [fate EXCEPT ![sent + 1] = "queued"]
      /\ rx' = Append(rx, sent + 1) /\ rx \in Seq(Msg) /\ a \in ActorId /\ Born' = Born
      /\ pc # "gone" /\ UNCHANGED <<sysVars, keeps, hold>>
  BY BoundAssumption DEF AInv, TypeOK, Post, Msg, ActorId, Born, sysVars
<1>1. /\ rx' \in Seq(Msg) /\ Len(rx) \in Nat /\ Len(rx') = Len(rx) + 1
      /\ DOMAIN rx = 1 .. Len(rx) /\ DOMAIN rx' = 1 .. Len(rx) + 1
      /\ \A i \in 1 .. Len(rx) : rx'[i] = rx[i] /\ rx[i] \in Msg
      /\ rx'[Len(rx) + 1] = sent + 1
  BY <1>0
<1>2. TypeOK'
  BY <1>0, <1>1 DEF AInv, TypeOK, sysVars
<1>3. /\ \A m \in Msg : m <= sent => m # sent + 1
      /\ \A m \in Msg : m # sent + 1 => target'[m] = target[m] /\ fate'[m] = fate[m]
      /\ target'[sent + 1] = a /\ fate'[sent + 1] = "queued" /\ fate[sent + 1] = "unsent"
      /\ \A m \in Msg : m \in Nat
  BY <1>0 DEF AInv, Known, TypeOK, Msg
<1>4. Known'
  <2>1. \A c \in Client : hold'[c] \subseteq Born' /\ waits'[c] <= sent'
    <3>1. \A c \in Client : waits[c] \in Nat /\ waits[c] <= sent /\ hold[c] \subseteq Born
      BY DEF AInv, Known, TypeOK, Msg, None
    <3> QED BY <1>0, <3>1
  <2>2. \A m \in Msg : IF m <= sent' THEN fate'[m] # "unsent" /\ target'[m] \in Born'
                                     ELSE fate'[m] = "unsent"
    BY <1>0, <1>3 DEF AInv, Known
  <2> QED BY <1>0, <2>1, <2>2 DEF AInv, Known, sysVars
<1>5. Queue'
  <2>1. \A i \in 1 .. Len(rx) : rx[i] <= sent
    <3>1. \A i \in 1 .. Len(rx) : fate[rx[i]] = "queued"
      BY <1>1 DEF AInv, Queue, Range
    <3> QED BY <1>0, <1>1, <1>3, <3>1 DEF AInv, Known
  <2>2. \A i, j \in 1 .. Len(rx') : i < j => rx'[i] < rx'[j]
    <3> SUFFICES ASSUME NEW i \in 1 .. Len(rx'), NEW j \in 1 .. Len(rx'), i < j
                 PROVE  rx'[i] < rx'[j]
      OBVIOUS
    <3>1. i \in 1 .. Len(rx)
      BY <1>1
    <3>2. CASE j \in 1 .. Len(rx)
      BY <1>1, <3>1, <3>2 DEF AInv, Queue
    <3>3. CASE j = Len(rx) + 1
      <4>1. rx'[i] = rx[i] /\ rx[i] \in Nat /\ rx[i] <= sent
        BY <1>1, <1>3, <2>1, <3>1
      <4>2. rx'[j] = sent + 1 /\ sent \in Nat
        BY <1>0, <1>1, <3>3
      <4> QED BY <4>1, <4>2
    <3> QED BY <1>1, <3>2, <3>3
  <2>3. Range(rx') = Range(rx) \cup {sent + 1}
    BY <1>1 DEF Range
  <2>4. \A m \in Msg : m \in Range(rx') <=> fate'[m] = "queued"
    BY <1>3, <2>3 DEF AInv, Queue
  <2> QED BY <2>2, <2>4 DEF Queue
<1>6. InHand' /\ LostIsGone'
  BY <1>0, <1>3 DEF AInv, InHand, LostIsGone, sysVars
<1>7. OwnerAt'
  <2>1. pc = "handling" => current # sent + 1
    BY <1>3 DEF AInv, InHand, OwnerAt
  <2> QED BY <1>0, <1>3, <2>1 DEF AInv, OwnerAt, sysVars
<1>8. StopsOnce'
  BY <1>0 DEF AInv, StopsOnce, sysVars
<1>9. RunOver'
  BY <1>0 DEF AInv, RunOver, SomeSender, sysVars
<1> QED BY <1>2, <1>4, <1>5, <1>6, <1>7, <1>8, <1>9 DEF AInv

LEMMA ClientAInv == ASSUME AInv, NEW c \in Client, ClientStep(c) PROVE AInv'
<1>1. ASSUME NEW a \in ActorId, Send(c, a) PROVE AInv'
  <2>1. a \in Born /\ SomeAddr
    BY <1>1 DEF Send, SomeAddr, AInv, Known
  <2>2. /\ waits' \in [Client -> Msg \cup {None}]
        /\ \A d \in Client : waits'[d] = waits[d] \/ waits'[d] = sent + 1
    BY <1>1, BoundAssumption DEF Send, Post, AInv, TypeOK, Msg
  <2> QED BY <1>1, <2>1, <2>2, PostAInv DEF Send
<1>2. ASSUME NEW a \in ActorId, DoSend(c, a) PROVE AInv'
  <2>1. a \in Born /\ SomeAddr
    BY <1>2 DEF DoSend, SomeAddr, AInv, Known
  <2>2. waits' \in [Client -> Msg \cup {None}] /\ \A d \in Client : waits'[d] = waits[d]
    BY <1>2 DEF DoSend, AInv, TypeOK
  <2> QED BY <1>2, <2>1, <2>2, PostAInv DEF DoSend
<1>3. ASSUME NEW a \in ActorId, DropAddr(c, a) PROVE AInv'
  <2> USE <1>3 DEF DropAddr, sysVars, msgVars
  <2>1. TypeOK'
    BY DEF AInv, TypeOK
  <2>2. \A d \in Client : hold'[d] \subseteq hold[d]
    BY DEF AInv, TypeOK
  <2>3. Known' /\ OwnerAt' /\ Queue' /\ InHand' /\ LostIsGone'
    BY <2>2 DEF AInv, Known, OwnerAt, Queue, InHand, LostIsGone, Born
  <2>4. SomeSender' => SomeSender
    BY <2>2 DEF SomeSender, SomeAddr
  <2>5. StopsOnce' /\ RunOver'
    BY <2>4 DEF AInv, StopsOnce, RunOver, Born
  <2> QED BY <2>1, <2>3, <2>5 DEF AInv
<1>4. CASE SendReturn(c)
  <2> USE <1>4 DEF SendReturn, sysVars, msgVars
  <2>1. TypeOK' /\ sent \in Nat
    BY BoundAssumption DEF AInv, TypeOK
  <2>2. \A d \in Client : waits'[d] <= sent
    BY <2>1 DEF AInv, TypeOK, Known, None
  <2>3. Known' /\ OwnerAt' /\ Queue' /\ InHand' /\ LostIsGone'
    BY <2>2 DEF AInv, Known, OwnerAt, Queue, InHand, LostIsGone, Born
  <2>4. StopsOnce' /\ RunOver'
    BY DEF AInv, StopsOnce, RunOver, Born, SomeSender, SomeAddr
  <2> QED BY <2>1, <2>3, <2>4 DEF AInv
<1> QED BY <1>1, <1>2, <1>3, <1>4 DEF ClientStep
-----------------------------------------------------------------------------
LEMMA SpawnAInv ==
    ASSUME AInv, NEW c \in Client, NEW K \in SUBSET ActorId, Spawn(c, K) PROVE AInv'
<1>0. /\ next_id \in Nat /\ next_id >= 1 /\ next_id \in ActorId /\ next_id' = next_id + 1
      /\ next_id' \in 1 .. MaxId + 1 /\ K \subseteq Born /\ pc = "idle" /\ tx
      /\ next_id \notin Born /\ Born' = Born \cup {next_id}
  <2>1. next_id \in Nat /\ next_id >= 1 /\ MaxId \in Nat /\ next_id' = next_id + 1 /\ next_id <= MaxId
        /\ K \subseteq Born /\ pc = "idle" /\ tx
    BY BoundAssumption DEF AInv, TypeOK, Spawn, Born
  <2> QED BY <2>1 DEF Born, ActorId
<1>1. /\ actors' = actors \cup {next_id} /\ keeps' = [keeps EXCEPT ![next_id] = K]
      /\ hold' = [hold EXCEPT ![c] = @ \cup {next_id}]
      /\ UNCHANGED <<tx, running, pc, call, processed, current, cell, stopped, waits, msgVars>>
  BY DEF Spawn
<1>2. TypeOK'
  BY <1>0, <1>1 DEF AInv, TypeOK, msgVars
<1>3. Known'
  <2>1. \A d \in Client : hold'[d] \subseteq hold[d] \cup {next_id}
    BY <1>1 DEF AInv, TypeOK
  <2>2. \A a \in ActorId : keeps'[a] \subseteq Born
    BY <1>0, <1>1 DEF AInv, TypeOK, Known
  <2> QED BY <1>0, <1>1, <2>1, <2>2 DEF AInv, Known, msgVars
<1>4. OwnerAt' /\ Queue' /\ InHand'
  BY <1>0, <1>1 DEF AInv, OwnerAt, Queue, InHand, msgVars
<1>5. LostIsGone'
  <2>1. \A m \in Msg : fate[m] = "lost" => target[m] \in Born
    BY DEF AInv, Known
  <2> QED BY <1>0, <1>1, <2>1 DEF AInv, LostIsGone, msgVars
<1>6. StopsOnce' /\ RunOver'
  BY <1>0, <1>1 DEF AInv, StopsOnce, RunOver, Known, OwnerAt
<1> QED BY <1>2, <1>3, <1>4, <1>5, <1>6 DEF AInv

(* Steps that move the owner and touch neither actors nor messages. *)
LEMMA OwnerMovesAInv ==
    ASSUME AInv, Run \/ Shutdown \/ Disconnected \/ LoopEnds \/ PollEmpty \/ RunReturn
                 \/ \E op \in {"run_once", "run_until_idle"} : Poll(op)
    PROVE  AInv'
<1>0. /\ UNCHANGED <<actors, next_id, current, cell, stopped, keeps, hold, waits, msgVars>>
      /\ pc \in {"idle", "recv", "stop_all"} /\ pc' \in {"idle", "recv", "stop_all"}
  BY DEF Run, Shutdown, Disconnected, LoopEnds, PollEmpty, RunReturn, Poll
<1>1. TypeOK'
  BY <1>0 DEF AInv, TypeOK, msgVars, Run, Shutdown, Disconnected, LoopEnds, PollEmpty, RunReturn, Poll
<1>2. Known' /\ Queue' /\ InHand' /\ LostIsGone' /\ StopsOnce' /\ Born' = Born
  BY <1>0 DEF AInv, Known, Queue, InHand, LostIsGone, StopsOnce, Born, msgVars
<1>3. OwnerAt'
  BY <1>0 DEF AInv, OwnerAt, Run, Shutdown, Disconnected, LoopEnds, PollEmpty, RunReturn, Poll
<1>4. RunOver'
  <2>1. SomeAddr' = SomeAddr
    BY <1>0 DEF SomeAddr
  <2>2. CASE Run
    BY <2>2 DEF RunOver, Run
  <2>3. CASE Shutdown \/ PollEmpty
    BY <1>0, <1>2, <2>1, <2>3 DEF AInv, OwnerAt, RunOver, Shutdown, PollEmpty, SomeSender, msgVars
  <2>4. CASE Disconnected \/ LoopEnds
    BY <1>0, <1>2, <2>1, <2>4 DEF AInv, OwnerAt, RunOver, Disconnected, LoopEnds, SomeSender, msgVars
  <2>5. CASE RunReturn
    <3>1. actors = {} /\ stopped = Born /\ ~ SomeSender /\ rx = <<>>
      BY <2>5 DEF AInv, RunReturn, StopsOnce, OwnerAt, RunOver
    <3> QED BY <1>0, <1>2, <2>1, <2>5, <3>1 DEF RunReturn, RunOver, SomeSender, msgVars
  <2>6. ASSUME NEW op \in {"run_once", "run_until_idle"}, Poll(op) PROVE RunOver'
    BY <1>0, <1>2, <2>1, <2>6 DEF AInv, OwnerAt, RunOver, Poll, SomeSender, msgVars
  <2> QED BY <2>2, <2>3, <2>4, <2>5, <2>6
<1> QED BY <1>1, <1>2, <1>3, <1>4 DEF AInv

(* The first message of the channel is its oldest; the rest is in order.   *)
LEMMA TakeHead ==
    ASSUME AInv, rx # <<>>
    PROVE  /\ Head(rx) \in Msg /\ fate[Head(rx)] = "queued" /\ Tail(rx) \in Seq(Msg)
           /\ \A i, j \in 1 .. Len(Tail(rx)) : i < j => Tail(rx)[i] < Tail(rx)[j]
           /\ \A m \in Msg : m \in Range(Tail(rx)) <=> fate[m] = "queued" /\ m # Head(rx)
           /\ \A m \in Msg : fate[m] = "queued" => Head(rx) <= m
<1>1. /\ rx \in Seq(Msg) /\ Len(rx) \in Nat /\ Len(rx) >= 1 /\ DOMAIN rx = 1 .. Len(rx)
      /\ \A i \in 1 .. Len(rx) : rx[i] \in Msg /\ rx[i] \in Nat
      /\ Head(rx) = rx[1] /\ Tail(rx) \in Seq(Msg) /\ Len(Tail(rx)) = Len(rx) - 1
      /\ DOMAIN Tail(rx) = 1 .. Len(rx) - 1
      /\ \A i \in 1 .. Len(rx) - 1 : Tail(rx)[i] = rx[i + 1]
  <2>1. rx \in Seq(Msg)
    BY DEF AInv, TypeOK
  <2>2. Len(rx) \in Nat /\ Len(rx) >= 1 /\ DOMAIN rx = 1 .. Len(rx)
    BY <2>1, EmptySeq
  <2>3. \A i \in 1 .. Len(rx) : rx[i] \in Msg /\ rx[i] \in Nat
    <3>1. \A i \in 1 .. Len(rx) : rx[i] \in Msg
      BY <2>1, <2>2
    <3> QED BY <3>1 DEF Msg
  <2>4. /\ Head(rx) = rx[1] /\ Tail(rx) \in Seq(Msg) /\ Len(Tail(rx)) = Len(rx) - 1
        /\ \A i \in 1 .. Len(Tail(rx)) : Tail(rx)[i] = rx[i + 1]
    BY <2>1, HeadTailProperties
  <2>5. DOMAIN Tail(rx) = 1 .. Len(rx) - 1
    BY <2>4
  <2> QED BY <2>1, <2>2, <2>3, <2>4, <2>5
<1>2. \A i, j \in 1 .. Len(rx) : i < j => rx[i] < rx[j]
  BY DEF AInv, Queue
<1>3. \A m \in Msg : m \in Range(rx) <=> fate[m] = "queued"
  BY DEF AInv, Queue
<1>4. Head(rx) \in Msg /\ fate[Head(rx)] = "queued"
  BY <1>1, <1>3 DEF Range
<1>5. \A i, j \in 1 .. Len(Tail(rx)) : i < j => Tail(rx)[i] < Tail(rx)[j]
  <2> SUFFICES ASSUME NEW i \in 1 .. Len(rx) - 1, NEW j \in 1 .. Len(rx) - 1, i < j
               PROVE  Tail(rx)[i] < Tail(rx)[j]
    BY <1>1
  <2>1. i + 1 \in 1 .. Len(rx) /\ j + 1 \in 1 .. Len(rx) /\ i + 1 < j + 1
    BY <1>1
  <2> QED BY <1>1, <1>2, <2>1
<1>6. \A k \in 1 .. Len(rx) : k # 1 => k - 1 \in 1 .. Len(rx) - 1 /\ Tail(rx)[k - 1] = rx[k]
                                       /\ rx[1] < rx[k]
  <2> SUFFICES ASSUME NEW k \in 1 .. Len(rx), k # 1
               PROVE  k - 1 \in 1 .. Len(rx) - 1 /\ Tail(rx)[k - 1] = rx[k] /\ rx[1] < rx[k]
    OBVIOUS
  <2>1. k - 1 \in 1 .. Len(rx) - 1 /\ (k - 1) + 1 = k /\ 1 \in 1 .. Len(rx) /\ 1 < k
    BY <1>1
  <2> QED BY <1>1, <1>2, <2>1
<1>7. ASSUME NEW m \in Msg PROVE m \in Range(Tail(rx)) <=> m \in Range(rx) /\ m # Head(rx)
  <2>1. ASSUME m \in Range(Tail(rx)) PROVE m \in Range(rx) /\ m # Head(rx)
    <3>1. PICK i \in 1 .. Len(rx) - 1 : Tail(rx)[i] = m
      BY <1>1, <2>1 DEF Range
    <3>2. i + 1 \in 1 .. Len(rx) /\ i + 1 # 1 /\ rx[i + 1] = m
      BY <1>1, <3>1
    <3>3. rx[1] < rx[i + 1] /\ rx[1] \in Nat
      BY <1>1, <1>6, <3>2
    <3> QED BY <1>1, <3>2, <3>3 DEF Range
  <2>2. ASSUME m \in Range(rx), m # Head(rx) PROVE m \in Range(Tail(rx))
    <3>1. PICK k \in 1 .. Len(rx) : rx[k] = m
      BY <1>1, <2>2 DEF Range
    <3>2. k - 1 \in 1 .. Len(rx) - 1 /\ Tail(rx)[k - 1] = m
      BY <1>1, <1>6, <2>2, <3>1
    <3> QED BY <1>1, <3>2 DEF Range
  <2> QED BY <2>1, <2>2
<1>8. ASSUME NEW m \in Msg, fate[m] = "queued" PROVE Head(rx) <= m
  <2>1. PICK k \in 1 .. Len(rx) : rx[k] = m
    BY <1>1, <1>3, <1>8 DEF Range
  <2> QED BY <1>1, <1>6, <2>1
<1> QED BY <1>1, <1>3, <1>4, <1>5, <1>7, <1>8

LEMMA DispatchAInv == ASSUME AInv, Dispatch PROVE AInv'
<1> DEFINE m == Head(rx)
           found == target[m] \in actors
<1>0. /\ rx # <<>> /\ pc = "recv" /\ (call = "run" => running) /\ rx' = Tail(rx)
      /\ fate' = [fate EXCEPT ![m] = IF found THEN "handling" ELSE "lost"]
      /\ pc' = IF found THEN "handling" ELSE "recv"
      /\ current' = IF found THEN m ELSE None
      /\ cell' = IF found THEN target[m] ELSE None
      /\ processed' = TRUE
      /\ UNCHANGED <<actors, tx, next_id, running, call, stopped, keeps, hold, waits, sent, target>>
  BY DEF Dispatch
<1>1. /\ m \in Msg /\ fate[m] = "queued" /\ rx' \in Seq(Msg)
      /\ \A i, j \in 1 .. Len(rx') : i < j => rx'[i] < rx'[j]
      /\ \A k \in Msg : k \in Range(rx') <=> fate[k] = "queued" /\ k # m
  BY <1>0, TakeHead
<1>2. /\ \A k \in Msg : k # m => fate'[k] = fate[k]
      /\ fate'[m] = IF found THEN "handling" ELSE "lost"
      /\ fate' \in [Msg -> {"unsent", "queued", "handling", "done", "lost"}]
  BY <1>0, <1>1 DEF AInv, TypeOK
<1> HIDE DEF m
<1>3. TypeOK'
  BY <1>0, <1>1, <1>2 DEF AInv, TypeOK
<1>4. Known' /\ Born' = Born
  BY <1>0, <1>1, <1>2 DEF AInv, Known, Born
<1>5. Queue'
  BY <1>0, <1>1, <1>2 DEF Queue
<1>6. InHand' /\ OwnerAt'
  BY <1>0, <1>1, <1>2 DEF AInv, InHand, OwnerAt
<1>7. LostIsGone'
  BY <1>0, <1>1, <1>2 DEF AInv, LostIsGone
<1>8. StopsOnce'
  BY <1>0, <1>4 DEF AInv, StopsOnce
<1>9. RunOver'
  BY <1>0 DEF AInv, RunOver
<1> QED BY <1>3, <1>4, <1>5, <1>6, <1>7, <1>8, <1>9 DEF AInv

(* The actor that is called, or stopped, was spawned. *)
LEMMA CellIsActor == ASSUME AInv, pc \in {"handling", "on_stop"} PROVE cell \in ActorId
<1>1. cell \in Born
  BY DEF AInv, OwnerAt, Known
<1>2. cell # None
  BY <1>1 DEF Born, None
<1> QED BY <1>2 DEF AInv, TypeOK

LEMMA HandlerNotifyAInv == ASSUME AInv, HandlerNotify PROVE AInv'
<1>1. PICK b \in keeps[cell] : Post(b)
  BY DEF HandlerNotify
<1>2. cell \in ActorId
  BY CellIsActor DEF HandlerNotify
<1>3. b \in Born /\ SomeAddr
  BY <1>1, <1>2 DEF AInv, Known, SomeAddr
<1>4. /\ waits' \in [Client -> Msg \cup {None}] /\ \A c \in Client : waits'[c] = waits[c]
      /\ UNCHANGED <<sysVars, keeps, hold>>
  BY DEF HandlerNotify, AInv, TypeOK
<1> QED BY <1>1, <1>3, <1>4, PostAInv

LEMMA HandlerReturnAInv ==
    ASSUME AInv, NEW stays \in BOOLEAN, HandlerReturn(stays) PROVE AInv'
<1>0. /\ pc = "handling" /\ fate' = [fate EXCEPT ![current] = "done"] /\ current' = None
      /\ \/ pc' = "recv" /\ cell' = None /\ actors' = actors
         \/ pc' = "on_stop" /\ actors' = actors \ {cell} /\ cell' = cell
      /\ UNCHANGED <<tx, next_id, running, call, processed, stopped, keeps, hold, waits,
                     rx, sent, target>>
  BY DEF HandlerReturn
<1>1. /\ current \in Msg /\ cell \in actors /\ cell \in Born /\ cell \in ActorId
      /\ fate[current] = "handling" /\ (call = "run" => running) /\ cell \notin stopped
  BY <1>0 DEF AInv, OwnerAt, InHand, Known, TypeOK, StopsOnce
<1>2. /\ \A k \in Msg : k # current => fate'[k] = fate[k]
      /\ fate'[current] = "done"
      /\ fate' \in [Msg -> {"unsent", "queued", "handling", "done", "lost"}]
  BY <1>0, <1>1 DEF AInv, TypeOK
<1>3. TypeOK'
  BY <1>0, <1>1, <1>2 DEF AInv, TypeOK
<1>4. Known' /\ Born' = Born
  BY <1>0, <1>1, <1>2 DEF AInv, Known, Born
<1>5. Queue'
  BY <1>0, <1>1, <1>2 DEF AInv, Queue
<1>6. InHand'
  BY <1>0, <1>1, <1>2 DEF AInv, InHand
<1>7. OwnerAt'
  BY <1>0, <1>1, <1>4 DEF AInv, OwnerAt
<1>8. LostIsGone'
  BY <1>0, <1>1, <1>2 DEF AInv, LostIsGone
<1>9. StopsOnce'
  BY <1>0, <1>1, <1>4 DEF AInv, StopsOnce
<1>10. RunOver'
  BY <1>0, <1>1 DEF AInv, RunOver
<1> QED BY <1>3, <1>4, <1>5, <1>6, <1>7, <1>8, <1>9, <1>10 DEF AInv

LEMMA StoppedReturnAInv == ASSUME AInv, StoppedReturn PROVE AInv'
<1>0. /\ pc = "on_stop" /\ stopped' = stopped \cup {cell} /\ keeps' = [keeps EXCEPT ![cell] = {}]
      /\ cell' = None /\ pc' = IF call = "run" /\ ~ running THEN "stop_all" ELSE "recv"
      /\ UNCHANGED <<actors, tx, next_id, running, call, processed, current, hold, waits, msgVars>>
  BY DEF StoppedReturn
<1>1. cell \in Born /\ cell \in ActorId /\ cell \notin actors /\ cell \notin stopped
  <2>1. cell \in Born /\ cell \notin actors /\ cell \notin stopped
    BY <1>0 DEF AInv, OwnerAt
  <2>2. cell # None
    BY <2>1 DEF Born, None
  <2> QED BY <2>1, <2>2 DEF AInv, TypeOK
<1>2. TypeOK' /\ Born' = Born
  BY <1>0, <1>1 DEF AInv, TypeOK, msgVars, Born
<1>3. \A a \in ActorId : keeps'[a] \subseteq keeps[a]
  BY <1>0, <1>1 DEF AInv, TypeOK
<1>4. Known'
  BY <1>0, <1>1, <1>2, <1>3 DEF AInv, Known, msgVars
<1>5. OwnerAt'
  BY <1>0 DEF AInv, OwnerAt
<1>6. Queue' /\ InHand' /\ LostIsGone'
  BY <1>0 DEF AInv, Queue, InHand, LostIsGone, msgVars
<1>7. StopsOnce'
  BY <1>0, <1>1, <1>2 DEF AInv, StopsOnce
<1>8. RunOver'
  <2>1. SomeSender' => SomeSender
    BY <1>0, <1>3 DEF SomeSender, SomeAddr
  <2> QED BY <1>0, <1>1, <1>2, <2>1 DEF AInv, RunOver, msgVars
<1> QED BY <1>2, <1>4, <1>5, <1>6, <1>7, <1>8 DEF AInv

LEMMA StopNextAInv == ASSUME AInv, StopNext PROVE AInv'
<1>0. PICK a \in actors : actors' = actors \ {a} /\ cell' = a /\ pc' = "on_stop"
  BY DEF StopNext
<1>1. /\ pc = "stop_all" /\ call = "run"
      /\ UNCHANGED <<tx, next_id, running, call, processed, current, stopped, keeps, hold,
                     waits, msgVars>>
  BY DEF StopNext, AInv, OwnerAt
<1>2. a \in Born /\ a \in ActorId /\ a \notin stopped
  BY <1>0 DEF AInv, Known, TypeOK, StopsOnce
<1>3. TypeOK' /\ Born' = Born
  BY <1>0, <1>1, <1>2 DEF AInv, TypeOK, Born, msgVars
<1>4. Known' /\ OwnerAt'
  BY <1>0, <1>1, <1>2, <1>3 DEF AInv, Known, OwnerAt, msgVars
<1>5. Queue' /\ InHand' /\ LostIsGone'
  BY <1>0, <1>1 DEF AInv, Queue, InHand, LostIsGone, msgVars
<1>6. StopsOnce'
  BY <1>0, <1>1, <1>2, <1>3 DEF AInv, StopsOnce
<1>7. RunOver'
  BY <1>0, <1>1 DEF AInv, RunOver, SomeSender, SomeAddr, msgVars
<1> QED BY <1>3, <1>4, <1>5, <1>6, <1>7 DEF AInv

LEMMA UserPanicAInv == ASSUME AInv, UserPanic PROVE AInv'
<1>0. /\ pc \in {"handling", "on_stop"} /\ pc' = "unwinding"
      /\ fate' = IF pc = "handling" THEN [fate EXCEPT ![current] = "lost"] ELSE fate
      /\ UNCHANGED <<actors, tx, next_id, running, call, processed, current, cell, stopped,
                     keeps, hold, waits, rx, sent, target>>
  BY DEF UserPanic
<1>1. pc = "handling" => /\ current \in Msg /\ fate[current] = "handling"
                         /\ target[current] = cell
  BY DEF AInv, OwnerAt, InHand
<1>2. /\ fate' \in [Msg -> {"unsent", "queued", "handling", "done", "lost"}]
      /\ \A m \in Msg : IF pc = "handling" /\ m = current THEN fate'[m] = "lost"
                                                          ELSE fate'[m] = fate[m]
  BY <1>0, <1>1 DEF AInv, TypeOK
<1>3. TypeOK' /\ Born' = Born
  BY <1>0, <1>2 DEF AInv, TypeOK, Born
<1>4. Known'
  BY <1>0, <1>1, <1>2, <1>3 DEF AInv, Known
<1>5. OwnerAt'
  BY <1>0 DEF AInv, OwnerAt
<1>6. Queue'
  BY <1>0, <1>1, <1>2 DEF AInv, Queue
<1>7. InHand' /\ LostIsGone'
  BY <1>0, <1>1, <1>2 DEF AInv, InHand, LostIsGone
<1>8. StopsOnce'
  BY <1>0 DEF AInv, StopsOnce
<1>9. RunOver'
  BY <1>0, <1>3 DEF AInv, RunOver, SomeSender, SomeAddr
<1> QED BY <1>3, <1>4, <1>5, <1>6, <1>7, <1>8, <1>9 DEF AInv

LEMMA DropSystemAInv == ASSUME AInv, DropSystem PROVE AInv'
<1>0. /\ pc \in {"unwinding", "idle"} /\ pc' = "gone" /\ rx' = <<>> /\ actors' = {}
      /\ fate' = [m \in Msg |-> IF m \in Range(rx) THEN "lost" ELSE fate[m]]
      /\ keeps' = [a \in ActorId |-> {}]
      /\ call' = "none" /\ current' = None /\ cell' = None /\ tx' = FALSE
      /\ UNCHANGED <<next_id, running, processed, stopped, hold, waits, sent, target>>
  BY DEF DropSystem
<1>1. \A m \in Msg : IF fate[m] = "queued" THEN fate'[m] = "lost" ELSE fate'[m] = fate[m]
  BY <1>0 DEF AInv, Queue
<1>2. Born' = Born /\ \A m \in Msg : fate[m] # "handling"
  BY <1>0 DEF Born, AInv, InHand
<1>3. TypeOK'
  <2>1. fate' \in [Msg -> {"unsent", "queued", "handling", "done", "lost"}]
    BY <1>0 DEF AInv, TypeOK
  <2>2. keeps' \in [ActorId -> SUBSET ActorId] /\ rx' \in Seq(Msg)
    BY <1>0
  <2>3. tx' \in BOOLEAN
    BY <1>0, Zenon
  <2> QED BY <1>0, <2>1, <2>2, <2>3 DEF AInv, TypeOK
<1>4. Known'
  BY <1>0, <1>1, <1>2 DEF AInv, Known
<1>5. Queue'
  <2>1. Range(rx') = {} /\ Len(rx') = 0
    BY <1>0 DEF Range
  <2> QED BY <1>1, <2>1 DEF Queue
<1>6. OwnerAt' /\ InHand' /\ LostIsGone'
  BY <1>0, <1>1, <1>2 DEF OwnerAt, InHand, LostIsGone
<1>7. StopsOnce' /\ RunOver'
  BY <1>0 DEF StopsOnce, RunOver
<1> QED BY <1>3, <1>4, <1>5, <1>6, <1>7 DEF AInv
-----------------------------------------------------------------------------
LEMMA NextAInv == AInv /\ [Next]_vars => AInv'
<1> SUFFICES ASSUME AInv, [Next]_vars PROVE AInv'
  OBVIOUS
<1>1. CASE LoopStep
  <2>1. CASE Disconnected \/ LoopEnds \/ PollEmpty \/ RunReturn
    BY <2>1, OwnerMovesAInv
  <2>2. ASSUME NEW stays \in BOOLEAN, HandlerReturn(stays) PROVE AInv'
    BY <2>2, HandlerReturnAInv
  <2> QED BY <1>1, <2>1, <2>2, DispatchAInv, HandlerNotifyAInv, StoppedReturnAInv, StopNextAInv,
             UserPanicAInv DEF LoopStep
<1>2. CASE OwnerCall
  <2>1. CASE Run \/ Shutdown \/ \E op \in {"run_once", "run_until_idle"} : Poll(op)
    BY <2>1, OwnerMovesAInv
  <2>2. ASSUME NEW c \in Client, NEW K \in SUBSET ActorId, Spawn(c, K) PROVE AInv'
    BY <2>2, SpawnAInv
  <2> QED BY <1>2, <2>1, <2>2, DropSystemAInv DEF OwnerCall
<1>3. ASSUME NEW c \in Client, ClientStep(c) PROVE AInv'
  BY <1>3, ClientAInv
<1>4. CASE Finished \/ UNCHANGED vars
  BY <1>4, StutterAInv DEF Finished
<1> QED BY <1>1, <1>2, <1>3, <1>4 DEF Next

(* The inductive invariant holds: the channel holds exactly the queued     *)
(* messages in their order, one message at most is in hand, every actor is *)
(* in the map, stopped or being stopped, and a run that is over has left   *)
(* nobody who could send.                                                  *)
THEOREM SystemInvariant == Spec => []AInv
<1>1. Init => AInv
  BY InitAInv
<1>2. AInv /\ [Next]_vars => AInv'
  BY NextAInv
<1> QED BY <1>1, <1>2, PTL DEF Spec

(* stopped is called once for an actor, and never for one that can still   *)
(* be dispatched to.                                                       *)
THEOREM StoppedIsFinalHolds == Spec => []StoppedIsFinal
<1>1. AInv => StoppedIsFinal
  BY DEF AInv, StoppedIsFinal, StopsOnce, OwnerAt
<1> QED BY <1>1, SystemInvariant, PTL

(* run stops its actors only when no Addr is left and the channel is       *)
(* empty, whatever calls of shutdown came before it.                       *)
THEOREM RunEndsOnlyUnreachableHolds == Spec => []RunEndsOnlyUnreachable
<1>1. AInv => RunEndsOnlyUnreachable
  BY DEF AInv, RunEndsOnlyUnreachable, RunOver, OwnerAt
<1> QED BY <1>1, SystemInvariant, PTL

(* When run has returned every actor had its stopped call, no message is   *)
(* left and nobody waits for an answer that will not come; polling or      *)
(* running again changes none of it.                                       *)
THEOREM RunLeavesNothingHolds == Spec => []RunLeavesNothing
<1>1. ASSUME AInv PROVE RunLeavesNothing
  <2> SUFFICES ASSUME pc = "idle", ~ tx
               PROVE  /\ actors = {} /\ rx = <<>> /\ stopped = 1 .. next_id - 1
                      /\ \A c \in Client : waits[c] # None => fate[waits[c]] \in {"done", "lost"}
    BY DEF RunLeavesNothing
  <2>1. actors = {} /\ rx = <<>> /\ stopped = 1 .. next_id - 1
    BY <1>1 DEF AInv, OwnerAt, RunOver, Born
  <2>2. \A m \in Msg : fate[m] # "queued" /\ fate[m] # "handling"
    BY <1>1, <2>1 DEF AInv, Queue, InHand, Range
  <2>3. \A m \in Msg : m <= sent => fate[m] \in {"done", "lost"}
    BY <1>1, <2>2 DEF AInv, TypeOK, Known
  <2> QED BY <1>1, <2>1, <2>3 DEF AInv, TypeOK, Known
<1> QED BY <1>1, SystemInvariant, PTL
-----------------------------------------------------------------------------
(* The refinement of ActorContract. *)

(* The status of an actor, without CASE. *)
StatusMeans ==
    \A a \in ActorId :
        Status[a] = IF a \notin Born THEN "unborn"
                    ELSE IF a \in actors /\ ~ (pc = "unwinding" /\ cell = a) THEN "live" ELSE "dead"

LEMMA StatusIs == AInv => StatusMeans
<1> SUFFICES ASSUME AInv, NEW a \in ActorId
             PROVE  Status[a] = IF a \notin Born THEN "unborn"
                                ELSE IF a \in actors /\ ~ (pc = "unwinding" /\ cell = a)
                                       THEN "live" ELSE "dead"
  BY DEF StatusMeans
<1>1. a \in Nat /\ a >= 1 /\ next_id \in Nat /\ (a \notin Born <=> a >= next_id)
  BY BoundAssumption DEF AInv, TypeOK, ActorId, Born
<1>2. CASE a >= next_id
  BY <1>1, <1>2 DEF Status, AInv, Known
<1>3. CASE a \in actors /\ ~ (pc = "unwinding" /\ cell = a)
  BY <1>1, <1>3 DEF Status, AInv, Known
<1>4. CASE ~ (a >= next_id) /\ ~ (a \in actors /\ ~ (pc = "unwinding" /\ cell = a))
  BY <1>1, <1>4 DEF Status
<1> QED BY <1>1, <1>2, <1>3, <1>4

LEMMA StatusIsNext == AInv' => StatusMeans'
BY StatusIs, PTL

LEMMA StatusSame ==
    ASSUME UNCHANGED <<actors, next_id>>, pc # "unwinding", pc' # "unwinding"
    PROVE  Status' = Status
BY DEF Status

LEMMA StatusFunction == Status = [a \in ActorId |-> Status[a]]
BY DEF Status

(* A message is accepted. *)
LEMMA PostAccepts ==
    ASSUME AInv, NEW a \in Born, Post(a), UNCHANGED sysVars
    PROVE  Contract!Next
<1>1. /\ sent + 1 \in Msg /\ sent \in Nat /\ a \in ActorId /\ pc # "gone"
      /\ target' = [target EXCEPT ![sent + 1] = a] /\ fate' = [fate EXCEPT ![sent + 1] = "queued"]
  BY BoundAssumption DEF AInv, TypeOK, Post, Msg, ActorId, Born
<1>2. fate[sent + 1] = "unsent" /\ \A k \in Msg : k < sent + 1 => fate[k] # "unsent"
  BY <1>1 DEF AInv, Known, Msg
<1>3. Status[a] # "unborn"
  BY <1>1, StatusIs DEF StatusMeans
<1>4. Status' = Status
  BY DEF Status, sysVars
<1>5. Contract!Accept(sent + 1, a)
  BY <1>1, <1>2, <1>3, <1>4 DEF Contract!Accept
<1> QED BY <1>1, <1>5 DEF Contract!Next

LEMMA SpawnSpawns ==
    ASSUME AInv, AInv', NEW c \in Client, NEW K \in SUBSET ActorId, Spawn(c, K)
    PROVE  Contract!Next
<1>1. /\ next_id \in ActorId /\ next_id \notin Born /\ Born' = Born \cup {next_id}
      /\ actors' = actors \cup {next_id} /\ pc = "idle" /\ pc' = "idle"
      /\ UNCHANGED <<target, fate>>
  <2>1. next_id \in Nat /\ next_id >= 1 /\ MaxId \in Nat /\ next_id' = next_id + 1 /\ next_id <= MaxId
    BY BoundAssumption DEF AInv, TypeOK, Spawn
  <2> QED BY <2>1 DEF Born, ActorId, Spawn, msgVars
<1>2. Status[next_id] = "unborn"
  BY <1>1, StatusIs DEF StatusMeans
<1>3. \A a \in ActorId : Status'[a] = IF a = next_id THEN "live" ELSE Status[a]
  BY <1>1, StatusIs, StatusIsNext DEF StatusMeans
<1>4. Status' = [Status EXCEPT ![next_id] = "live"]
  <2>1. Status' = [a \in ActorId |-> Status'[a]]
    BY DEF Status
  <2> QED BY <1>3, <2>1, StatusFunction
<1>5. Contract!Spawn(next_id)
  BY <1>1, <1>2, <1>4 DEF Contract!Spawn
<1> QED BY <1>1, <1>5 DEF Contract!Next

(* A message is taken by its actor, which is idle and has handled all      *)
(* messages before it; or its actor is gone.                               *)
LEMMA DispatchBegins == ASSUME AInv, Dispatch PROVE Contract!Next
<1> DEFINE m == Head(rx)
           found == target[m] \in actors
<1>0. /\ rx # <<>> /\ pc = "recv"
      /\ fate' = [fate EXCEPT ![m] = IF found THEN "handling" ELSE "lost"]
      /\ pc' = IF found THEN "handling" ELSE "recv"
      /\ UNCHANGED <<actors, next_id, target>>
  BY DEF Dispatch
<1>1. m \in Msg /\ fate[m] = "queued" /\ \A k \in Msg : fate[k] = "queued" => m <= k
  BY <1>0, TakeHead
<1>2. Status' = Status
  BY <1>0, StatusSame
<1> HIDE DEF m
<1>3. /\ m <= sent /\ target[m] \in Born /\ target[m] \in ActorId /\ m \in Nat /\ sent \in Nat
      /\ \A k \in Msg : k \in Nat
  <2>1. m <= sent /\ target[m] \in Born /\ m \in Nat /\ sent \in Nat /\ \A k \in Msg : k \in Nat
    BY <1>1, BoundAssumption DEF AInv, Known, TypeOK, Msg
  <2>2. Born \subseteq ActorId
    BY BoundAssumption DEF AInv, TypeOK, Born, ActorId
  <2> QED BY <2>1, <2>2
<1>4. CASE found
  <2>1. Status[target[m]] = "live"
    BY <1>0, <1>3, <1>4, StatusIs DEF StatusMeans
  <2>2. ASSUME NEW k \in Msg, k < m, target[k] = target[m] PROVE fate[k] = "done"
    <3>1. fate[k] # "unsent"
      BY <1>3, <2>2 DEF AInv, Known
    <3>2. fate[k] # "queued"
      BY <1>1, <1>3, <2>2
    <3>3. fate[k] # "handling"
      BY <1>0 DEF AInv, InHand
    <3>4. fate[k] # "lost"
      BY <1>0, <1>4, <2>2 DEF AInv, LostIsGone
    <3> QED BY <3>1, <3>2, <3>3, <3>4 DEF AInv, TypeOK
  <2>3. Contract!Begin(m)
    BY <1>0, <1>1, <1>2, <1>4, <2>1, <2>2 DEF Contract!Begin
  <2> QED BY <1>1, <2>3 DEF Contract!Next
<1>5. CASE ~ found
  <2>1. Status[target[m]] = "dead"
    BY <1>3, <1>5, StatusIs DEF StatusMeans
  <2>2. Status' = [a \in ActorId |-> IF a \in {} THEN "dead" ELSE Status[a]]
    BY <1>2, StatusFunction
  <2>3. fate' = [k \in Msg |-> IF k \in {m} THEN "lost" ELSE fate[k]]
    BY <1>0, <1>1, <1>5 DEF AInv, TypeOK
  <2>4. Contract!Close({}, {m})
    BY <1>0, <1>1, <1>2, <2>1, <2>2, <2>3 DEF Contract!Close
  <2> QED BY <1>1, <2>4 DEF Contract!Next
<1> QED BY <1>4, <1>5

LEMMA ReturnFinishes ==
    ASSUME AInv, AInv', NEW stays \in BOOLEAN, HandlerReturn(stays) PROVE Contract!Next
<1>0. /\ pc = "handling" /\ fate' = [fate EXCEPT ![current] = "done"]
      /\ \/ pc' = "recv" /\ actors' = actors
         \/ pc' = "on_stop" /\ actors' = actors \ {cell}
      /\ UNCHANGED <<next_id, target>> /\ Born' = Born
  BY DEF HandlerReturn, Born
<1>1. /\ current \in Msg /\ cell \in actors /\ cell \in Born /\ cell \in ActorId
      /\ fate[current] = "handling" /\ target[current] = cell
  BY <1>0 DEF AInv, OwnerAt, InHand, Known, TypeOK
<1>2. \A a \in ActorId : a # cell => Status'[a] = Status[a]
  BY <1>0, <1>1, StatusIs, StatusIsNext DEF StatusMeans
<1>3. Status'[cell] \in {"live", "dead"}
  BY <1>0, <1>1, StatusIsNext DEF StatusMeans
<1>4. Status' = [Status EXCEPT ![cell] = Status'[cell]]
  <2>1. Status' = [a \in ActorId |-> Status'[a]]
    BY DEF Status
  <2> QED BY <1>2, <2>1, StatusFunction
<1>5. \E st \in {"live", "dead"} : Status' = [Status EXCEPT ![target[current]] = st]
  BY <1>1, <1>3, <1>4
<1>6. Contract!Finish(current)
  BY <1>0, <1>1, <1>5 DEF Contract!Finish
<1> QED BY <1>1, <1>6 DEF Contract!Next

LEMMA PanicFails ==
    ASSUME AInv, AInv', UserPanic PROVE [Contract!Next]_(Contract!vars)
<1>0. /\ pc \in {"handling", "on_stop"} /\ pc' = "unwinding"
      /\ fate' = IF pc = "handling" THEN [fate EXCEPT ![current] = "lost"] ELSE fate
      /\ UNCHANGED <<actors, next_id, cell, target>> /\ Born' = Born
  BY DEF UserPanic, Born
<1>1. Status' = [a \in ActorId |-> Status'[a]]
  BY DEF Status
<1>2. CASE pc = "handling"
  <2>1. /\ current \in Msg /\ cell \in actors /\ cell \in Born /\ cell \in ActorId
        /\ fate[current] = "handling" /\ target[current] = cell
    BY <1>2 DEF AInv, OwnerAt, InHand, Known, TypeOK
  <2>2. \A a \in ActorId : Status'[a] = IF a = cell THEN "dead" ELSE Status[a]
    BY <1>0, <1>2, <2>1, StatusIs, StatusIsNext DEF StatusMeans
  <2>3. Status' = [Status EXCEPT ![cell] = "dead"]
    BY <1>1, <2>2, StatusFunction
  <2>4. Contract!Fail(current)
    BY <1>0, <1>2, <2>1, <2>3 DEF Contract!Fail
  <2> QED BY <2>1, <2>4 DEF Contract!Next
<1>3. CASE pc = "on_stop"
  <2>1. cell \notin actors
    BY <1>3 DEF AInv, OwnerAt
  <2>2. \A a \in ActorId : Status'[a] = Status[a]
    BY <1>0, <1>3, <2>1, StatusIs, StatusIsNext DEF StatusMeans
  <2>3. Status' = Status
    BY <1>1, <2>2, StatusFunction
  <2> QED BY <1>0, <1>3, <2>3 DEF Contract!vars
<1> QED BY <1>0, <1>2, <1>3

(* Actors end: one that is stopped, or all of them when the system is      *)
(* dropped, with the messages that are left.                               *)
LEMMA StopCloses == ASSUME AInv, AInv', StopNext PROVE Contract!Next
<1>0. PICK a \in actors : actors' = actors \ {a} /\ pc' = "on_stop"
  BY DEF StopNext
<1>1. pc = "stop_all" /\ Born' = Born /\ UNCHANGED <<target, fate>> /\ a \in ActorId /\ a \in Born
  BY <1>0 DEF StopNext, Born, msgVars, AInv, TypeOK, Known
<1>2. Status[a] = "live" /\ \A b \in ActorId : Status'[b] = IF b \in {a} THEN "dead" ELSE Status[b]
  BY <1>0, <1>1, StatusIs, StatusIsNext DEF StatusMeans
<1>3. Status' = [b \in ActorId |-> IF b \in {a} THEN "dead" ELSE Status[b]]
  <2>1. Status' = [b \in ActorId |-> Status'[b]]
    BY DEF Status
  <2> QED BY <1>2, <2>1
<1>4. fate' = [m \in Msg |-> IF m \in {} THEN "lost" ELSE fate[m]]
  BY <1>1 DEF AInv, TypeOK
<1>5. ~ Contract!Busy(a)
  BY <1>1 DEF Contract!Busy, AInv, InHand
<1>6. Contract!Close({a}, {})
  BY <1>1, <1>2, <1>3, <1>4, <1>5 DEF Contract!Close
<1> QED BY <1>1, <1>6 DEF Contract!Next

LEMMA DropCloses == ASSUME AInv, AInv', DropSystem PROVE Contract!Next
<1> DEFINE A == {a \in ActorId : Status[a] = "live"}
           D == {m \in Msg : fate[m] = "queued"}
<1>0. /\ pc \in {"unwinding", "idle"} /\ pc' = "gone" /\ actors' = {} /\ Born' = Born
      /\ fate' = [m \in Msg |-> IF m \in Range(rx) THEN "lost" ELSE fate[m]]
      /\ UNCHANGED target
  BY DEF DropSystem, Born
<1>1. \A a \in ActorId : Status'[a] = IF a \in A THEN "dead" ELSE Status[a]
  BY <1>0, StatusIs, StatusIsNext DEF StatusMeans
<1>2. Status' = [a \in ActorId |-> IF a \in A THEN "dead" ELSE Status[a]]
  <2>1. Status' = [a \in ActorId |-> Status'[a]]
    BY DEF Status
  <2> HIDE DEF A
  <2> QED BY <1>1, <2>1
<1>3. fate' = [m \in Msg |-> IF m \in D THEN "lost" ELSE fate[m]]
  BY <1>0 DEF AInv, Queue
<1>4. \A a \in A : Status[a] = "live" /\ ~ Contract!Busy(a)
  BY <1>0 DEF Contract!Busy, AInv, InHand
<1>5. ASSUME NEW m \in D PROVE fate[m] = "queued" /\ Status'[target[m]] = "dead"
  <2>1. target[m] \in Born /\ target[m] \in ActorId
    <3>1. target[m] \in Born
      BY DEF AInv, Known
    <3>2. Born \subseteq ActorId
      BY BoundAssumption DEF AInv, TypeOK, Born, ActorId
    <3> QED BY <3>1, <3>2
  <2> QED BY <1>0, <2>1, StatusIsNext DEF StatusMeans
<1>6. Contract!Close(A, D)
  BY <1>0, <1>2, <1>3, <1>4, <1>5 DEF Contract!Close
<1>7. A \in SUBSET ActorId /\ D \in SUBSET Msg
  OBVIOUS
<1> QED BY <1>6, <1>7 DEF Contract!Next

LEMMA StepKeepsContract ==
    ASSUME AInv, AInv', [Next]_vars PROVE [Contract!Next]_(Contract!vars)
<1>1. ASSUME UNCHANGED <<actors, next_id, target, fate>>, pc # "unwinding", pc' # "unwinding"
      PROVE  UNCHANGED Contract!vars
  BY <1>1, StatusSame DEF Contract!vars
<1>2. CASE LoopStep
  <2>1. CASE Disconnected \/ LoopEnds \/ PollEmpty \/ RunReturn \/ StoppedReturn
    BY <1>1, <2>1 DEF Disconnected, LoopEnds, PollEmpty, RunReturn, StoppedReturn, msgVars
  <2>2. CASE HandlerNotify
    <3>1. PICK b \in keeps[cell] : Post(b)
      BY <2>2 DEF HandlerNotify
    <3>2. b \in Born /\ UNCHANGED sysVars
      BY <2>2, <3>1, CellIsActor DEF HandlerNotify, AInv, Known
    <3> QED BY <3>1, <3>2, PostAccepts
  <2>3. ASSUME NEW stays \in BOOLEAN, HandlerReturn(stays) PROVE Contract!Next
    BY <2>3, ReturnFinishes
  <2> QED BY <1>2, <2>1, <2>2, <2>3, DispatchBegins, StopCloses, PanicFails DEF LoopStep
<1>3. CASE OwnerCall
  <2>1. CASE Run \/ Shutdown \/ \E op \in {"run_once", "run_until_idle"} : Poll(op)
    BY <1>1, <2>1 DEF Run, Shutdown, Poll, msgVars
  <2>2. ASSUME NEW c \in Client, NEW K \in SUBSET ActorId, Spawn(c, K) PROVE Contract!Next
    BY <2>2, SpawnSpawns
  <2> QED BY <1>3, <2>1, <2>2, DropCloses DEF OwnerCall
<1>4. ASSUME NEW c \in Client, ClientStep(c) PROVE [Contract!Next]_(Contract!vars)
  <2>1. ASSUME NEW a \in ActorId, Send(c, a) \/ DoSend(c, a) PROVE Contract!Next
    <3>1. a \in Born /\ Post(a) /\ UNCHANGED sysVars
      BY <2>1 DEF Send, DoSend, AInv, Known
    <3> QED BY <3>1, PostAccepts
  <2>2. ASSUME UNCHANGED <<sysVars, msgVars>> PROVE UNCHANGED Contract!vars
    BY <2>2 DEF Contract!vars, Status, sysVars, msgVars
  <2> QED BY <1>4, <2>1, <2>2 DEF ClientStep, DropAddr, SendReturn
<1>5. CASE Finished \/ UNCHANGED vars
  BY <1>5 DEF Finished, vars, sysVars, msgVars, Contract!vars, Status
<1> QED BY <1>2, <1>3, <1>4, <1>5 DEF Next

(* The single-threaded runtime implements ActorContract: each of its steps *)
(* is, seen through Status, a step of the contract or none at all. Actors  *)
(* live once, take their messages one at a time and in order, and a        *)
(* message is lost only with its actor.                                    *)
THEOREM ContractKept == Spec => KeepsContract
<1>1. Init => Contract!Init
  BY BoundAssumption DEF Init, Contract!Init, Status, ActorId, None, Contract!NoTarget
<1>2. AInv /\ AInv' /\ [Next]_vars => [Contract!Next]_(Contract!vars)
  BY StepKeepsContract
<1> QED BY <1>1, <1>2, SystemInvariant, PTL DEF Spec, KeepsContract, Contract!Spec
=============================================================================
