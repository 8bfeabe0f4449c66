--------------------------- MODULE Runtime_proofs ---------------------------
(***************************************************************************)
(* Proofs about the runtime, for any number of workers, clients, actors    *)
(* and messages and any user code.  First its actors and threads: no       *)
(* address of an unregistered actor, no actor in two places or in none,    *)
(* and no thread left after run or drop.  Then its messages: an accepted   *)
(* message is in one place until it is handled or lost, and the runtime    *)
(* implements ActorContract.                                               *)
(***************************************************************************)
EXTENDS Runtime, Scheduler_proofs, SequenceTheorems, TLAPS

WorkerPc == {"control", "drain", "idle", "handling", "on_stop",
             "stop_all", "stop_hook", "exited", "crashed"}

(* The part of TypeOK that actors, cells and control messages rest on. *)
CoreTypeOK ==
    /\ control \in [Worker -> Seq(ActorId \cup {Shutdown})]
    /\ actor_map \in [Worker -> SUBSET ActorId]
    /\ wpc \in [Worker -> WorkerPc]
    /\ cell \in [Worker -> ActorId \cup {None}]
    /\ stop_ids \in [Worker -> SUBSET ActorId]
    /\ next_id \in 1 .. MaxId + 1 /\ next_worker \in Nat
    /\ home \in [ActorId -> Worker]
    /\ life \in [ActorId -> {"none", "started", "live", "stopped", "lost"}]
    /\ known \subseteq ActorId
    /\ sent \in Nat
    /\ cpc \in [Client -> {"idle", "started", "confirm", "wait", "panicked"}]
    /\ carg \in [Client -> Nat]

(* Ids that were not allocated have no life, and no one else's id is in    *)
(* anybody's hands: a client in started owns a fresh id that is in no      *)
(* control channel.                                                        *)
Allocated ==
    /\ \A a \in ActorId : a >= next_id => life[a] = "none"
    /\ \A c \in Client : cpc[c] \in {"started", "confirm"} =>
          carg[c] \in ActorId /\ life[carg[c]] # "none"
    /\ \A c \in Client : cpc[c] = "started" =>
          /\ life[carg[c]] = "started"
          /\ \A w \in Worker : \A i \in DOMAIN control[w] : control[w][i] # carg[c]
    /\ \A c, d \in Client : cpc[c] = "started" /\ cpc[d] = "started" /\ carg[c] = carg[d]
          => c = d

(* An actor in a control channel has not been inserted yet, is in the      *)
(* channel of its own worker, and is there once.                           *)
PendingOnce ==
    \A w \in Worker : \A i \in DOMAIN control[w] : control[w][i] # Shutdown =>
        /\ life[control[w][i]] = "started"
        /\ home[control[w][i]] = w
        /\ \A j \in DOMAIN control[w] : control[w][j] = control[w][i] => i = j

(* The worker holds a cell exactly while user code of that actor runs, and *)
(* the ids still to be stopped are in the map.                             *)
CellHeld ==
    \A w \in Worker :
        /\ cell[w] # None <=> wpc[w] \in {"handling", "on_stop", "stop_hook"}
        /\ cell[w] # None => home[cell[w]] = w /\ life[cell[w]] = "live"
        /\ stop_ids[w] \subseteq actor_map[w]
        /\ stop_ids[w] # {} => wpc[w] \in {"stop_all", "stop_hook"}

CInv == CoreTypeOK /\ Allocated /\ PendingOnce /\ CellHeld
            /\ CellInOnePlace /\ AddressedAreRegistered
-----------------------------------------------------------------------------
(* 0 stands for "no actor" and for Shutdown, and is no id. *)
LEMMA IdFacts == /\ ActorId \subseteq Nat
                 /\ None \notin ActorId /\ Shutdown \notin ActorId
                 /\ \A n \in 1 .. MaxId + 1 : n <= MaxId => n \in ActorId
  BY BoundAssumption DEF ActorId, None, Shutdown

(* Init establishes the invariant. *)
LEMMA InitCInv == Init => CInv
<1> SUFFICES ASSUME Init PROVE CInv
  OBVIOUS
<1>1. CoreTypeOK
  <2>1. 0 \in Worker
    BY NAssumption DEF Worker
  <2>2. control \in [Worker -> Seq(ActorId \cup {Shutdown})]
    BY DEF Init
  <2> QED BY <2>1, <2>2, BoundAssumption DEF Init, CoreTypeOK, WorkerPc, None
<1>2. \A w \in Worker : DOMAIN control[w] = {}
  BY DEF Init
<1> QED BY <1>1, <1>2 DEF Init, CInv, Allocated, PendingOnce, CellHeld, CellInOnePlace,
                         AddressedAreRegistered, None

(* Steps that move no actor: at most the worker goes on to another place   *)
(* where it holds none, or somebody sends a message.                       *)
LEMMA QuietCInv ==
    ASSUME CInv,
           UNCHANGED <<control, actor_map, cell, stop_ids, next_id, next_worker, home,
                       life, known>>,
           wpc' \in [Worker -> WorkerPc],
           \A w \in Worker :
              \/ wpc'[w] = wpc[w]
              \/ {wpc[w], wpc'[w]} \subseteq {"control", "drain", "idle"}
              \/ wpc[w] = "handling" /\ wpc'[w] = "on_stop",
           sent' \in Nat,
           cpc' \in [Client -> {"idle", "started", "confirm", "wait", "panicked"}],
           carg' \in [Client -> Nat],
           \A c \in Client : cpc'[c] \in {"started", "confirm"} =>
              cpc'[c] = cpc[c] /\ carg'[c] = carg[c]
    PROVE  CInv'
<1>1. CoreTypeOK'
  BY DEF CInv, CoreTypeOK
<1>2. Allocated'
  BY DEF CInv, Allocated
<1>3. PendingOnce'
  BY DEF CInv, PendingOnce
<1>4. CellHeld'
  BY DEF CInv, CellHeld
<1>t. \A w \in Worker : Terminated(w)' <=> Terminated(w)
  BY DEF Terminated
<1>5. CellInOnePlace' /\ AddressedAreRegistered'
  BY <1>t DEF CInv, CellInOnePlace, AddressedAreRegistered, CoreTypeOK
<1> QED BY <1>1, <1>2, <1>3, <1>4, <1>5 DEF CInv
-----------------------------------------------------------------------------
(* An actor born straight into a map, on worker v. *)
LEMMA SpawnDirectCInv ==
    ASSUME CInv, NEW v \in Worker, SpawnDirect(v),
           UNCHANGED <<control, wpc, cell, stop_ids, sent, cpc, carg>>
    PROVE  CInv'
<1> DEFINE a == next_id
<1>1. /\ a \in ActorId /\ a \in Nat /\ life[a] = "none"
      /\ next_id' = a + 1
      /\ home' = [home EXCEPT ![a] = v]
      /\ life' = [life EXCEPT ![a] = "live"]
      /\ actor_map' = [actor_map EXCEPT ![v] = @ \cup {a}]
      /\ known' = known \cup {a}
      /\ next_worker' = next_worker
  BY IdFacts DEF SpawnDirect, CInv, CoreTypeOK, Allocated
<1> HIDE DEF a
<1>2. CoreTypeOK'
  <2>1. next_id' \in 1 .. MaxId + 1
    BY BoundAssumption DEF SpawnDirect, CInv, CoreTypeOK
  <2> QED BY <1>1, <2>1 DEF CInv, CoreTypeOK
<1>3. Allocated'
  <2>1. \A b \in ActorId : b >= next_id' => b # a /\ b >= next_id
    BY <1>1, IdFacts DEF a
  <2>2. \A b \in ActorId : life[b] # "none" => b # a
    BY <1>1
  <2> QED BY <1>1, <2>1, <2>2 DEF CInv, CoreTypeOK, Allocated
<1>4. PendingOnce'
  BY <1>1, IdFacts DEF CInv, CoreTypeOK, PendingOnce
<1>5. CellHeld'
  BY <1>1 DEF CInv, CoreTypeOK, CellHeld
<1>6. CellInOnePlace'
  BY <1>1, IdFacts DEF CInv, CoreTypeOK, CellHeld, CellInOnePlace, Terminated
<1>7. AddressedAreRegistered'
  BY <1>1 DEF CInv, CoreTypeOK, AddressedAreRegistered
<1> QED BY <1>2, <1>3, <1>4, <1>5, <1>6, <1>7 DEF CInv

(* The clients. *)
LEMMA SpawnBeginCInv ==
    ASSUME CInv, NEW c \in Client, SpawnBegin(c)
    PROVE  CInv'
<1> DEFINE a == next_id
<1>0. PickWorker \in Worker
  BY NAssumption DEF PickWorker, Worker, CInv, CoreTypeOK
<1>1. /\ a \in ActorId /\ a \in Nat /\ life[a] = "none" /\ cpc[c] = "idle"
      /\ next_id' = a + 1
      /\ home' = [home EXCEPT ![a] = PickWorker]
      /\ life' = [life EXCEPT ![a] = "started"]
      /\ cpc' = [cpc EXCEPT ![c] = "started"]
      /\ carg' = [carg EXCEPT ![c] = a]
      /\ next_worker' = next_worker + 1
      /\ UNCHANGED <<control, wpc, cell, stop_ids, known, actor_map, sent>>
  BY IdFacts DEF SpawnBegin, CInv, CoreTypeOK, Allocated, chanVars, workerVars, msgVars
<1> HIDE DEF a
<1>2. CoreTypeOK'
  <2>1. next_id' \in 1 .. MaxId + 1
    BY BoundAssumption DEF SpawnBegin, CInv, CoreTypeOK
  <2> QED BY <1>0, <1>1, <2>1 DEF CInv, CoreTypeOK
<1>p. \A w \in Worker : \A i \in DOMAIN control[w] : control[w][i] # a
  BY <1>1, IdFacts DEF CInv, PendingOnce
<1>3. Allocated'
  <2>1. \A b \in ActorId : b >= next_id' => b # a /\ b >= next_id
    BY <1>1, IdFacts DEF a
  <2>2. \A b \in ActorId : life[b] # "none" => b # a
    BY <1>1
  <2>3. \A d \in Client : d # c /\ cpc'[d] \in {"started", "confirm"} =>
           cpc[d] = cpc'[d] /\ carg'[d] = carg[d] /\ carg[d] # a
    BY <1>1, <2>2 DEF CInv, CoreTypeOK, Allocated
  <2>4. cpc'[c] = "started" /\ carg'[c] = a
    BY <1>1 DEF CInv, CoreTypeOK
  <2> QED BY <1>1, <1>p, <2>1, <2>2, <2>3, <2>4 DEF CInv, CoreTypeOK, Allocated
<1>4. PendingOnce'
  BY <1>1, <1>p DEF CInv, CoreTypeOK, PendingOnce
<1>5. CellHeld'
  BY <1>1 DEF CInv, CoreTypeOK, CellHeld
<1>6. CellInOnePlace'
  BY <1>1, IdFacts DEF CInv, CoreTypeOK, CellHeld, CellInOnePlace, Terminated
<1>7. AddressedAreRegistered'
  BY <1>1 DEF CInv, CoreTypeOK, AddressedAreRegistered
<1> QED BY <1>2, <1>3, <1>4, <1>5, <1>6, <1>7 DEF CInv

(* The actor of a client in started is lost: started panicked, or the      *)
(* worker was gone.                                                        *)
LEMMA SpawnLostCInv ==
    ASSUME CInv, NEW c \in Client, cpc[c] = "started",
           life' = [life EXCEPT ![carg[c]] = "lost"],
           cpc' = [cpc EXCEPT ![c] = "panicked"],
           UNCHANGED <<control, actor_map, wpc, cell, stop_ids, next_id, next_worker, home,
                       known, sent, carg>>
    PROVE  CInv'
<1> DEFINE a == carg[c]
<1>1. a \in ActorId /\ life[a] = "started"
      /\ (\A w \in Worker : \A i \in DOMAIN control[w] : control[w][i] # a)
      /\ life' = [life EXCEPT ![a] = "lost"]
      /\ \A d \in Client : cpc[d] = "started" /\ carg[d] = a => d = c
  BY DEF CInv, Allocated
<1> HIDE DEF a
<1>2. CoreTypeOK'
  BY <1>1 DEF CInv, CoreTypeOK
<1>3. Allocated'
  BY <1>1 DEF CInv, CoreTypeOK, Allocated
<1>4. PendingOnce'
  BY <1>1 DEF CInv, CoreTypeOK, PendingOnce
<1>p. \A b \in ActorId : b # a => life'[b] = life[b]
  BY <1>1 DEF CInv, CoreTypeOK
<1>5. CellHeld'
  BY <1>1, <1>p, IdFacts DEF CInv, CoreTypeOK, CellHeld
<1>6. CellInOnePlace'
  <2>0. CellInOnePlace /\ life[a] # "live" /\ life'[a] # "live"
    BY <1>1 DEF CInv, CoreTypeOK
  <2>1. ASSUME NEW w \in Worker, NEW b \in actor_map[w]
        PROVE  home[b] = w /\ life'[b] = "live" /\ cell[w] # b
    <3>1. b \in ActorId
      BY DEF CInv, CoreTypeOK
    <3> QED BY <2>0, <3>1, <1>p DEF CellInOnePlace
  <2>2. ASSUME NEW b \in ActorId, life'[b] = "live", ~ Terminated(home[b])
        PROVE  b \in actor_map[home[b]] \/ cell[home[b]] = b
    BY <2>0, <2>2, <1>p DEF CellInOnePlace
  <2> QED BY <2>1, <2>2 DEF CellInOnePlace, Terminated
<1>7. AddressedAreRegistered'
  BY <1>1 DEF CInv, CoreTypeOK, AddressedAreRegistered
<1> QED BY <1>2, <1>3, <1>4, <1>5, <1>6, <1>7 DEF CInv

(* What Append and Tail do to a channel. *)
LEMMA ChannelFacts ==
    ASSUME NEW q \in Seq(ActorId \cup {Shutdown}), NEW x \in ActorId \cup {Shutdown}
    PROVE  /\ Append(q, x) \in Seq(ActorId \cup {Shutdown})
           /\ DOMAIN Append(q, x) = DOMAIN q \cup {Len(q) + 1}
           /\ Len(q) + 1 \notin DOMAIN q
           /\ \A i \in DOMAIN q : Append(q, x)[i] = q[i]
           /\ Append(q, x)[Len(q) + 1] = x
           /\ q # <<>> => /\ Head(q) = q[1] /\ 1 \in DOMAIN q
                          /\ Tail(q) \in Seq(ActorId \cup {Shutdown})
                          /\ \A i \in DOMAIN Tail(q) :
                                i + 1 \in DOMAIN q /\ i + 1 # 1 /\ Tail(q)[i] = q[i + 1]
                          /\ \A i, j \in DOMAIN Tail(q) : i + 1 = j + 1 => i = j
<1>1. Append(q, x) \in Seq(ActorId \cup {Shutdown}) /\ Len(Append(q, x)) = Len(q) + 1
  BY AppendProperties
<1>2. /\ DOMAIN Append(q, x) = 1 .. Len(q) + 1 /\ DOMAIN q = 1 .. Len(q) /\ Len(q) \in Nat
  BY <1>1
<1>3. /\ \A i \in DOMAIN q : Append(q, x)[i] = q[i]
      /\ Append(q, x)[Len(q) + 1] = x
  BY <1>2, AppendProperties
<1>4. DOMAIN Append(q, x) = DOMAIN q \cup {Len(q) + 1} /\ Len(q) + 1 \notin DOMAIN q
  BY <1>2
<1>5. ASSUME q # <<>>
      PROVE  /\ Head(q) = q[1] /\ 1 \in DOMAIN q
             /\ Tail(q) \in Seq(ActorId \cup {Shutdown})
             /\ \A i \in DOMAIN Tail(q) :
                   i + 1 \in DOMAIN q /\ i + 1 # 1 /\ Tail(q)[i] = q[i + 1]
             /\ \A i, j \in DOMAIN Tail(q) : i + 1 = j + 1 => i = j
  <2>1. Tail(q) \in Seq(ActorId \cup {Shutdown}) /\ Len(Tail(q)) = Len(q) - 1
    BY <1>5, HeadTailProperties
  <2>2. Len(q) > 0 /\ DOMAIN Tail(q) = 1 .. Len(q) - 1
    BY <1>5, <1>2, <2>1, EmptySeq
  <2>3. \A i \in DOMAIN Tail(q) : Tail(q)[i] = q[i + 1]
    BY <1>5, <2>1, <2>2, HeadTailProperties
  <2> QED BY <1>2, <1>5, <2>1, <2>2, <2>3
<1> QED BY <1>1, <1>3, <1>4, <1>5

(* The control message of a spawn is sent. *)
LEMMA SpawnSendCInv ==
    ASSUME CInv, NEW c \in Client, SpawnSend(c)
    PROVE  CInv'
<1> DEFINE a == carg[c]
           v == home[a]
           q == control[v]
<1>1. /\ a \in ActorId /\ life[a] = "started" /\ v \in Worker
      /\ (\A w \in Worker : \A i \in DOMAIN control[w] : control[w][i] # a)
      /\ \A d \in Client : cpc[d] = "started" /\ carg[d] = a => d = c
  BY DEF CInv, CoreTypeOK, Allocated, SpawnSend
<1>2. CASE Terminated(v)
  BY <1>2, SpawnLostCInv DEF SpawnSend, chanVars, workerVars, msgVars
<1>3. CASE ~ Terminated(v)
  <2>1. /\ control' = [control EXCEPT ![v] = Append(q, a)]
        /\ cpc' = [cpc EXCEPT ![c] = "confirm"]
        /\ UNCHANGED <<actor_map, wpc, cell, stop_ids, next_id, next_worker, home, life,
                       known, sent, carg>>
    BY <1>3 DEF SpawnSend, chanVars, workerVars, msgVars
  <2>2. q \in Seq(ActorId \cup {Shutdown})
    BY <1>1 DEF CInv, CoreTypeOK
  <2> DEFINE n == Len(q) + 1
  <2>3. /\ control'[v] \in Seq(ActorId \cup {Shutdown})
        /\ DOMAIN control'[v] = DOMAIN q \cup {n} /\ n \notin DOMAIN q
        /\ \A i \in DOMAIN q : control'[v][i] = q[i]
        /\ control'[v][n] = a
        /\ \A w \in Worker : w # v => control'[w] = control[w]
    BY <1>1, <2>1, <2>2, ChannelFacts DEF CInv, CoreTypeOK
  <2>4. CoreTypeOK'
    BY <2>1, <2>3 DEF CInv, CoreTypeOK
  <2>v. v = home[a] /\ q = control[v]
    OBVIOUS
  <2> HIDE DEF a, v, n, q
  <2>5. Allocated'
    <3>1. \A d \in Client : cpc'[d] = "started" => cpc[d] = "started" /\ carg[d] # a
      BY <1>1, <2>1 DEF CInv, CoreTypeOK
    <3>2. \A w \in Worker : \A i \in DOMAIN control'[w] :
             control'[w][i] = a \/ \E j \in DOMAIN control[w] : control'[w][i] = control[w][j]
      BY <2>3, <2>v
    <3>3. \A d \in Client : cpc'[d] = "started" =>
             \A w \in Worker : \A i \in DOMAIN control'[w] : control'[w][i] # carg'[d]
      BY <3>1, <3>2, <2>1 DEF CInv, Allocated
    <3>4. \A d \in Client : cpc'[d] \in {"started", "confirm"} =>
             cpc[d] \in {"started", "confirm"}
      BY <2>1 DEF CInv, CoreTypeOK, SpawnSend
    <3> QED BY <3>1, <3>3, <3>4, <2>1 DEF CInv, Allocated
  <2>6. PendingOnce'
    <3>1. SUFFICES ASSUME NEW w \in Worker, NEW i \in DOMAIN control'[w],
                          control'[w][i] # Shutdown
                   PROVE  /\ life[control'[w][i]] = "started"
                          /\ home[control'[w][i]] = w
                          /\ \A j \in DOMAIN control'[w] :
                                control'[w][j] = control'[w][i] => i = j
      BY <2>1 DEF PendingOnce
    <3>2. CASE w # v
      BY <3>1, <3>2, <2>3 DEF CInv, PendingOnce
    <3>3. CASE w = v /\ i = n
      BY <3>1, <3>3, <2>3, <1>1, <2>v
    <3>4. CASE w = v /\ i # n
      BY <3>1, <3>4, <2>3, <1>1, <2>v DEF CInv, PendingOnce
    <3> QED BY <3>2, <3>3, <3>4
  <2>7. CellHeld' /\ CellInOnePlace' /\ AddressedAreRegistered'
    BY <2>1 DEF CInv, CellHeld, CellInOnePlace, AddressedAreRegistered, Terminated
  <2> QED BY <2>4, <2>5, <2>6, <2>7 DEF CInv
<1> QED BY <1>2, <1>3

(* spawn returns, or panics on a control message that was dropped. *)
LEMMA SpawnReturnCInv ==
    ASSUME CInv, NEW c \in Client, SpawnReturn(c)
    PROVE  CInv'
<1>1. /\ carg[c] \in ActorId /\ life[carg[c]] \notin {"none", "started"}
      /\ cpc' = [cpc EXCEPT ![c] = IF life[carg[c]] = "lost" THEN "panicked" ELSE "idle"]
      /\ known' = IF life[carg[c]] = "lost" THEN known ELSE known \cup {carg[c]}
      /\ UNCHANGED <<control, actor_map, wpc, cell, stop_ids, next_id, next_worker, home,
                     life, sent, carg>>
  BY DEF SpawnReturn, CInv, Allocated, chanVars, workerVars, msgVars
<1>2. CoreTypeOK'
  BY <1>1 DEF CInv, CoreTypeOK
<1>3. Allocated'
  BY <1>1 DEF CInv, CoreTypeOK, Allocated
<1>4. PendingOnce' /\ CellHeld' /\ CellInOnePlace'
  BY <1>1 DEF CInv, PendingOnce, CellHeld, CellInOnePlace, Terminated
<1>5. AddressedAreRegistered'
  BY <1>1 DEF CInv, CoreTypeOK, AddressedAreRegistered
<1> QED BY <1>2, <1>3, <1>4, <1>5 DEF CInv

(* Dropping an address takes nothing away that the invariant needs. *)
LEMMA DropAddrCInv ==
    ASSUME CInv, NEW a \in ActorId, DropAddr(a)
    PROVE  CInv'
<1>1. /\ known' \subseteq known
      /\ UNCHANGED <<control, actor_map, wpc, cell, stop_ids, next_id, next_worker, home,
                     life, sent, cpc, carg>>
  BY DEF DropAddr, chanVars, workerVars, msgVars, clientVars
<1>2. CoreTypeOK' /\ AddressedAreRegistered'
  BY <1>1 DEF CInv, CoreTypeOK, AddressedAreRegistered
<1>3. Allocated' /\ PendingOnce' /\ CellHeld' /\ CellInOnePlace'
  BY <1>1 DEF CInv, Allocated, PendingOnce, CellHeld, CellInOnePlace, Terminated
<1> QED BY <1>2, <1>3 DEF CInv
-----------------------------------------------------------------------------
(* Shutdown joins a control channel. *)
LEMMA SignalWorkerCInv ==
    ASSUME CInv, rt_at \in Nat, SignalWorker
    PROVE  CInv'
<1> DEFINE v == rt_at
           q == control[v]
<1>1. v \in Worker
  BY NAssumption DEF SignalWorker, Worker
<1>2. UNCHANGED <<actor_map, wpc, cell, stop_ids, next_id, next_worker, home, life,
                  known, sent, cpc, carg>>
  BY DEF SignalWorker, workerVars, spawnVars, msgVars, clientVars
<1>3. CASE Terminated(v)
  <2>1. control' = control
    BY <1>3 DEF SignalWorker
  <2> QED BY <1>2, <2>1, QuietCInv DEF CInv, CoreTypeOK, Terminated
<1>4. CASE ~ Terminated(v)
  <2>1. control' = [control EXCEPT ![v] = Append(q, Shutdown)]
    BY <1>4 DEF SignalWorker
  <2>2. q \in Seq(ActorId \cup {Shutdown})
    BY <1>1 DEF CInv, CoreTypeOK
  <2> DEFINE n == Len(q) + 1
  <2>3. /\ control'[v] \in Seq(ActorId \cup {Shutdown})
        /\ DOMAIN control'[v] = DOMAIN q \cup {n} /\ n \notin DOMAIN q
        /\ \A i \in DOMAIN q : control'[v][i] = q[i]
        /\ control'[v][n] = Shutdown
        /\ \A w \in Worker : w # v => control'[w] = control[w]
    BY <1>1, <2>1, <2>2, ChannelFacts DEF CInv, CoreTypeOK
  <2>4. CoreTypeOK'
    BY <1>2, <2>1, <2>3 DEF CInv, CoreTypeOK
  <2>v. q = control[v]
    OBVIOUS
  <2> HIDE DEF v, n, q
  <2>5. Allocated'
    <3>1. \A w \in Worker : \A i \in DOMAIN control'[w] :
             \/ control'[w][i] = Shutdown
             \/ \E j \in DOMAIN control[w] : control'[w][i] = control[w][j]
      BY <2>3, <2>v
    <3> QED BY <3>1, <1>2, IdFacts DEF CInv, Allocated
  <2>6. PendingOnce'
    <3>1. SUFFICES ASSUME NEW w \in Worker, NEW i \in DOMAIN control'[w],
                          control'[w][i] # Shutdown
                   PROVE  /\ life[control'[w][i]] = "started"
                          /\ home[control'[w][i]] = w
                          /\ \A j \in DOMAIN control'[w] :
                                control'[w][j] = control'[w][i] => i = j
      BY <1>2 DEF PendingOnce
    <3>2. CASE w # v
      BY <3>1, <3>2, <2>3 DEF CInv, PendingOnce
    <3>3. CASE w = v
      BY <3>1, <3>3, <2>3, <2>v DEF CInv, PendingOnce
    <3> QED BY <3>2, <3>3
  <2>7. CellHeld' /\ CellInOnePlace' /\ AddressedAreRegistered'
    BY <1>2 DEF CInv, CellHeld, CellInOnePlace, AddressedAreRegistered, Terminated
  <2> QED BY <2>4, <2>5, <2>6, <2>7 DEF CInv
<1> QED BY <1>3, <1>4
-----------------------------------------------------------------------------
(* The worker takes a new actor from its control channel. *)
LEMMA RecvSpawnCInv ==
    ASSUME CInv, NEW w \in Worker, RecvSpawn(w)
    PROVE  CInv'
<1> DEFINE q == control[w]
           a == Head(q)
<1>1. /\ q \in Seq(ActorId \cup {Shutdown}) /\ q # <<>> /\ a # Shutdown
      /\ control' = [control EXCEPT ![w] = Tail(q)]
      /\ actor_map' = [actor_map EXCEPT ![w] = @ \cup {a}]
      /\ life' = [life EXCEPT ![a] = "live"]
      /\ UNCHANGED <<wpc, cell, stop_ids, next_id, next_worker, home, known, sent, cpc, carg>>
  BY DEF RecvSpawn, CInv, CoreTypeOK, workerVars, msgVars, clientVars
<1>2. /\ a = q[1] /\ 1 \in DOMAIN q
      /\ Tail(q) \in Seq(ActorId \cup {Shutdown})
      /\ \A i \in DOMAIN Tail(q) :
            i + 1 \in DOMAIN q /\ i + 1 # 1 /\ Tail(q)[i] = q[i + 1]
      /\ \A i, j \in DOMAIN Tail(q) : i + 1 = j + 1 => i = j
  BY <1>1, ChannelFacts
<1>3. a \in ActorId /\ life[a] = "started" /\ home[a] = w
  <2>1. a \in ActorId
    BY <1>1, HeadTailProperties
  <2> QED BY <1>1, <1>2, <2>1 DEF CInv, PendingOnce
<1>4. \A i \in DOMAIN Tail(q) : Tail(q)[i] # a
  BY <1>1, <1>2 DEF CInv, PendingOnce
<1>v. /\ q = control[w] /\ control'[w] = Tail(q)
      /\ \A u \in Worker : u # w => control'[u] = control[u]
  BY <1>1 DEF CInv, CoreTypeOK
<1> HIDE DEF q, a
<1>5. CoreTypeOK'
  BY <1>1, <1>2, <1>3 DEF CInv, CoreTypeOK
<1>6. Allocated'
  <2>1. \A u \in Worker : \A i \in DOMAIN control'[u] :
           \E j \in DOMAIN control[u] : control'[u][i] = control[u][j]
    <3>1. \A i \in DOMAIN Tail(q) : \E j \in DOMAIN q : Tail(q)[i] = q[j]
      BY <1>2
    <3>2. SUFFICES ASSUME NEW u \in Worker, NEW i \in DOMAIN control'[u]
                   PROVE  \E j \in DOMAIN control[u] : control'[u][i] = control[u][j]
      OBVIOUS
    <3>3. CASE u = w
      <4>1. i \in DOMAIN Tail(q)
        BY <3>2, <3>3, <1>v
      <4> QED BY <4>1, <3>1, <3>3, <1>v
    <3>4. CASE u # w
      BY <3>4, <1>v
    <3> QED BY <3>3, <3>4
  <2>2. \A c \in Client : cpc[c] = "started" => carg[c] # a
    BY <1>2, <1>v DEF CInv, Allocated
  <2>3. \A b \in ActorId : b # a => life'[b] = life[b]
    BY <1>1 DEF CInv, CoreTypeOK
  <2>4. life'[a] = "live"
    BY <1>1, <1>3 DEF CInv, CoreTypeOK
  <2> QED BY <1>1, <1>3, <2>1, <2>2, <2>3, <2>4 DEF CInv, Allocated
<1>7. PendingOnce'
  <2>1. SUFFICES ASSUME NEW u \in Worker, NEW i \in DOMAIN control'[u],
                        control'[u][i] # Shutdown
                 PROVE  /\ life'[control'[u][i]] = "started"
                        /\ home[control'[u][i]] = u
                        /\ \A j \in DOMAIN control'[u] :
                              control'[u][j] = control'[u][i] => i = j
    BY <1>1 DEF PendingOnce
  <2>2. /\ life[control'[u][i]] = "started" /\ home[control'[u][i]] = u
        /\ \A j \in DOMAIN control'[u] : control'[u][j] = control'[u][i] => i = j
    <3>1. CASE u # w
      BY <2>1, <3>1, <1>v DEF CInv, PendingOnce
    <3>2. CASE u = w
      <4>1. i \in DOMAIN Tail(q) /\ i + 1 \in DOMAIN q /\ q[i + 1] # Shutdown
        BY <2>1, <3>2, <1>2, <1>v
      <4>2. /\ life[q[i + 1]] = "started" /\ home[q[i + 1]] = w
            /\ \A k \in DOMAIN q : q[k] = q[i + 1] => i + 1 = k
        BY <4>1, <1>v DEF CInv, PendingOnce
      <4> QED BY <4>1, <4>2, <3>2, <1>2, <1>v
    <3> QED BY <3>1, <3>2
  <2>3. control'[u][i] # a
    BY <2>2, <1>3, <1>4, <1>v
  <2>4. control'[u][i] \in ActorId
    BY <2>1, <1>5 DEF CoreTypeOK
  <2> QED BY <2>2, <2>3, <2>4, <1>1 DEF CInv, CoreTypeOK
<1>8. CellHeld'
  BY <1>1, <1>3 DEF CInv, CoreTypeOK, CellHeld
<1>9. CellInOnePlace'
  <2>0. /\ CellInOnePlace /\ CellHeld
        /\ home \in [ActorId -> Worker] /\ actor_map \in [Worker -> SUBSET ActorId]
        /\ life \in [ActorId -> {"none", "started", "live", "stopped", "lost"}]
    BY DEF CInv, CoreTypeOK
  <2>1. /\ \A u \in Worker : u # w => actor_map'[u] = actor_map[u]
        /\ actor_map'[w] = actor_map[w] \cup {a}
        /\ \A b \in ActorId : b # a => life'[b] = life[b]
        /\ life'[a] = "live"
    BY <1>1, <1>3, <2>0
  <2>c. \A u \in Worker : cell[u] # a
    BY <1>3, <2>0, IdFacts DEF CellHeld
  <2>t. \A u \in Worker : Terminated(u)' <=> Terminated(u)
    BY <1>1 DEF Terminated
  <2>2. \A u \in Worker : \A b \in actor_map'[u] :
           home[b] = u /\ life'[b] = "live" /\ cell[u] # b
    BY <2>0, <2>1, <2>c, <1>3 DEF CellInOnePlace
  <2>3. \A b \in ActorId : life'[b] = "live" /\ ~ Terminated(home[b])
           => b \in actor_map'[home[b]] \/ cell[home[b]] = b
    BY <2>0, <2>1, <1>3 DEF CellInOnePlace
  <2> QED BY <1>1, <2>0, <2>t, <2>2, <2>3 DEF CellInOnePlace
<1>10. AddressedAreRegistered'
  BY <1>1, <1>3 DEF CInv, CoreTypeOK, AddressedAreRegistered
<1> QED BY <1>5, <1>6, <1>7, <1>8, <1>9, <1>10 DEF CInv

(* The worker takes Shutdown, and the list of its actors. *)
LEMMA RecvShutdownCInv ==
    ASSUME CInv, NEW w \in Worker, RecvShutdown(w)
    PROVE  CInv'
<1> DEFINE q == control[w]
<1>1. /\ q \in Seq(ActorId \cup {Shutdown}) /\ q # <<>> /\ wpc[w] = "control"
      /\ control' = [control EXCEPT ![w] = Tail(q)]
      /\ stop_ids' = [stop_ids EXCEPT ![w] = actor_map[w]]
      /\ wpc' = [wpc EXCEPT ![w] = "stop_all"]
      /\ UNCHANGED <<actor_map, cell, next_id, next_worker, home, life, known, sent, cpc, carg>>
  BY DEF RecvShutdown, Goto, CInv, CoreTypeOK, spawnVars, msgVars, clientVars
<1>2. /\ Tail(q) \in Seq(ActorId \cup {Shutdown})
      /\ \A i \in DOMAIN Tail(q) : i + 1 \in DOMAIN q /\ Tail(q)[i] = q[i + 1]
      /\ \A i, j \in DOMAIN Tail(q) : i + 1 = j + 1 => i = j
  BY <1>1, ChannelFacts
<1>v. /\ q = control[w] /\ control'[w] = Tail(q)
      /\ \A u \in Worker : u # w => control'[u] = control[u]
  BY <1>1 DEF CInv, CoreTypeOK
<1> HIDE DEF q
<1>3. CoreTypeOK'
  BY <1>1, <1>2 DEF CInv, CoreTypeOK, WorkerPc
<1>4. Allocated'
  <2>1. \A u \in Worker : \A i \in DOMAIN control'[u] :
           \E j \in DOMAIN control[u] : control'[u][i] = control[u][j]
    <3>1. \A i \in DOMAIN Tail(q) : \E j \in DOMAIN q : Tail(q)[i] = q[j]
      BY <1>2
    <3>2. SUFFICES ASSUME NEW u \in Worker, NEW i \in DOMAIN control'[u]
                   PROVE  \E j \in DOMAIN control[u] : control'[u][i] = control[u][j]
      OBVIOUS
    <3>3. CASE u = w
      <4>1. i \in DOMAIN Tail(q)
        BY <3>2, <3>3, <1>v
      <4> QED BY <4>1, <3>1, <3>3, <1>v
    <3>4. CASE u # w
      BY <3>4, <1>v
    <3> QED BY <3>3, <3>4
  <2> QED BY <1>1, <2>1 DEF CInv, Allocated
<1>5. PendingOnce'
  BY <1>1, <1>2, <1>v DEF CInv, PendingOnce
<1>6. CellHeld'
  BY <1>1 DEF CInv, CoreTypeOK, CellHeld
<1>7. CellInOnePlace' /\ AddressedAreRegistered'
  BY <1>1 DEF CInv, CoreTypeOK, CellInOnePlace, AddressedAreRegistered, Terminated
<1> QED BY <1>3, <1>4, <1>5, <1>6, <1>7 DEF CInv

(* Dispatch takes the actor out of the map, or finds none. *)
LEMMA DispatchCInv ==
    ASSUME CInv, NEW w \in Worker, Dispatch(w)
    PROVE  CInv'
<1> DEFINE a == NextReady(sched[w])
<1>1. /\ wpc[w] = "drain"
      /\ UNCHANGED <<control, stop_ids, next_id, next_worker, home, life, known, sent, cpc, carg>>
  BY DEF Dispatch, chanVars, clientVars
<1>2. CASE a \notin actor_map[w]
  <2>1. wpc' = [wpc EXCEPT ![w] = "control"] /\ UNCHANGED <<actor_map, cell>>
    BY <1>2 DEF Dispatch, Goto
  <2> QED BY <1>1, <2>1, QuietCInv DEF CInv, CoreTypeOK, WorkerPc, Terminated
<1>3. CASE a \in actor_map[w]
  <2>1. /\ actor_map' = [actor_map EXCEPT ![w] = @ \ {a}]
        /\ cell' = [cell EXCEPT ![w] = a]
        /\ wpc' = [wpc EXCEPT ![w] = "handling"]
    BY <1>3 DEF Dispatch, Goto
  <2>2. /\ a \in ActorId /\ a # None /\ home[a] = w /\ life[a] = "live" /\ cell[w] = None
        /\ stop_ids[w] = {}
    <3>1. a \in ActorId /\ home[a] = w /\ life[a] = "live"
      BY <1>3 DEF CInv, CoreTypeOK, CellInOnePlace
    <3>2. cell[w] = None /\ stop_ids[w] = {}
      BY <1>1 DEF CInv, CellHeld
    <3> QED BY <3>1, <3>2, IdFacts
  <2> HIDE DEF a
  <2>3. CoreTypeOK'
    BY <1>1, <2>1, <2>2 DEF CInv, CoreTypeOK, WorkerPc
  <2>4. Allocated' /\ PendingOnce' /\ AddressedAreRegistered'
    BY <1>1 DEF CInv, Allocated, PendingOnce, AddressedAreRegistered
  <2>5. CellHeld'
    BY <1>1, <2>1, <2>2 DEF CInv, CoreTypeOK, CellHeld
  <2>p. /\ \A u \in Worker : u # w => actor_map'[u] = actor_map[u] /\ cell'[u] = cell[u]
        /\ actor_map'[w] = actor_map[w] \ {a} /\ cell'[w] = a
        /\ \A u \in Worker : Terminated(u)' <=> Terminated(u)
    BY <1>1, <2>1 DEF CInv, CoreTypeOK, Terminated
  <2>6. CellInOnePlace'
    <3>0. CellInOnePlace /\ home \in [ActorId -> Worker]
      BY DEF CInv, CoreTypeOK
    <3>1. \A u \in Worker : \A b \in actor_map'[u] :
             home[b] = u /\ life[b] = "live" /\ cell'[u] # b
      BY <2>p, <3>0 DEF CellInOnePlace
    <3>2. \A b \in ActorId : life[b] = "live" /\ ~ Terminated(home[b])
             => b \in actor_map'[home[b]] \/ cell'[home[b]] = b
      BY <2>p, <2>2, <3>0, IdFacts DEF CellInOnePlace
    <3> QED BY <1>1, <2>p, <3>1, <3>2 DEF CInv, CoreTypeOK, CellInOnePlace
  <2> QED BY <2>3, <2>4, <2>5, <2>6 DEF CInv
<1> QED BY <1>2, <1>3

(* The handler returns and the actor goes back. *)
LEMMA HandlerReturnCInv ==
    ASSUME CInv, NEW w \in Worker, HandlerReturn(w)
    PROVE  CInv'
<1> DEFINE a == cell[w]
<1>1. /\ wpc[w] = "handling"
      /\ actor_map' = [actor_map EXCEPT ![w] = @ \cup {a}]
      /\ cell' = [cell EXCEPT ![w] = None]
      /\ wpc' = [wpc EXCEPT ![w] = "control"]
      /\ UNCHANGED <<control, stop_ids, next_id, next_worker, home, life, known, sent, cpc, carg>>
  BY DEF HandlerReturn, Goto, chanVars, clientVars
<1>2. a \in ActorId /\ home[a] = w /\ life[a] = "live"
  BY <1>1 DEF CInv, CoreTypeOK, CellHeld
<1>3. CoreTypeOK'
  BY <1>1, <1>2 DEF CInv, CoreTypeOK, WorkerPc
<1>4. Allocated' /\ PendingOnce' /\ AddressedAreRegistered'
  BY <1>1 DEF CInv, Allocated, PendingOnce, AddressedAreRegistered
<1>5. CellHeld'
  BY <1>1, <1>2 DEF CInv, CoreTypeOK, CellHeld
<1>6. CellInOnePlace'
  BY <1>1, <1>2, IdFacts DEF CInv, CoreTypeOK, CellHeld, CellInOnePlace, Terminated
<1> QED BY <1>3, <1>4, <1>5, <1>6 DEF CInv

(* stop_all_actors takes the next actor. *)
LEMMA StopNextCInv ==
    ASSUME CInv, NEW w \in Worker, NEW a \in ActorId, StopNext(w, a)
    PROVE  CInv'
<1>1. /\ wpc[w] = "stop_all" /\ a \in stop_ids[w]
      /\ stop_ids' = [stop_ids EXCEPT ![w] = @ \ {a}]
      /\ actor_map' = [actor_map EXCEPT ![w] = @ \ {a}]
      /\ cell' = [cell EXCEPT ![w] = a]
      /\ wpc' = [wpc EXCEPT ![w] = "stop_hook"]
      /\ UNCHANGED <<control, next_id, next_worker, home, life, known, sent, cpc, carg>>
  BY DEF StopNext, Goto, chanVars, msgVars, clientVars
<1>2. a # None /\ home[a] = w /\ life[a] = "live" /\ cell[w] = None
  BY <1>1, IdFacts DEF CInv, CoreTypeOK, CellHeld, CellInOnePlace
<1>3. CoreTypeOK'
  BY <1>1 DEF CInv, CoreTypeOK, WorkerPc
<1>4. Allocated' /\ PendingOnce' /\ AddressedAreRegistered'
  BY <1>1 DEF CInv, Allocated, PendingOnce, AddressedAreRegistered
<1>5. CellHeld'
  BY <1>1, <1>2 DEF CInv, CoreTypeOK, CellHeld
<1>p. /\ \A u \in Worker : u # w => actor_map'[u] = actor_map[u] /\ cell'[u] = cell[u]
      /\ actor_map'[w] = actor_map[w] \ {a} /\ cell'[w] = a
      /\ \A u \in Worker : Terminated(u)' <=> Terminated(u)
  BY <1>1 DEF CInv, CoreTypeOK, Terminated
<1>6. CellInOnePlace'
  BY <1>1, <1>2, <1>p, IdFacts DEF CInv, CoreTypeOK, CellHeld, CellInOnePlace
<1> QED BY <1>3, <1>4, <1>5, <1>6 DEF CInv

(* stopped returns and the actor is dropped. *)
LEMMA StoppedReturnCInv ==
    ASSUME CInv, NEW w \in Worker, StoppedReturn(w)
    PROVE  CInv'
<1> DEFINE a == cell[w]
<1>1. /\ wpc[w] \in {"on_stop", "stop_hook"}
      /\ life' = [life EXCEPT ![a] = "stopped"]
      /\ cell' = [cell EXCEPT ![w] = None]
      /\ wpc' = [wpc EXCEPT ![w] = IF wpc[w] = "on_stop" THEN "control" ELSE "stop_all"]
      /\ UNCHANGED <<control, actor_map, stop_ids, next_id, next_worker, home, known, sent,
                     cpc, carg>>
  BY DEF StoppedReturn, Goto, chanVars, clientVars
<1>2. a \in ActorId /\ home[a] = w /\ life[a] = "live" /\ a \notin actor_map[w]
  BY <1>1 DEF CInv, CoreTypeOK, CellHeld, CellInOnePlace
<1>3. /\ \A b \in ActorId : b # a => life'[b] = life[b]
      /\ life'[a] = "stopped"
  BY <1>1, <1>2 DEF CInv, CoreTypeOK
<1>4. CoreTypeOK'
  BY <1>1, <1>2 DEF CInv, CoreTypeOK, WorkerPc
<1>a. a = cell[w]
  OBVIOUS
<1> HIDE DEF a
<1>5. Allocated'
  BY <1>1, <1>2, <1>3 DEF CInv, Allocated
<1>6. PendingOnce'
  BY <1>1, <1>2, <1>3 DEF CInv, CoreTypeOK, PendingOnce
<1>7. CellHeld'
  BY <1>1, <1>2, <1>3 DEF CInv, CoreTypeOK, CellHeld
<1>8. CellInOnePlace'
  BY <1>a, <1>1, <1>2, <1>3, IdFacts
     DEF CInv, CoreTypeOK, CellHeld, CellInOnePlace, Terminated
<1>9. AddressedAreRegistered'
  BY <1>1, <1>2, <1>3 DEF CInv, CoreTypeOK, AddressedAreRegistered
<1> QED BY <1>4, <1>5, <1>6, <1>7, <1>8, <1>9 DEF CInv

(* The thread ends, normally or in a panic of stopped: the spawns it had   *)
(* not read yet are lost, and the actor in its hands is gone.              *)
LEMMA ThreadEndsCInv ==
    ASSUME CInv, NEW w \in Worker, ThreadEnds(w),
           NEW end \in {"exited", "crashed"}, Goto(w, end),
           life' = [a \in ActorId |->
                      IF a = cell[w] THEN "stopped"
                      ELSE IF a \in Range(control[w]) THEN "lost" ELSE life[a]],
           UNCHANGED <<next_id, next_worker, home, known, actor_map, sent, cpc, carg>>
    PROVE  CInv'
<1>1. /\ control' = [control EXCEPT ![w] = <<>>]
      /\ cell' = [cell EXCEPT ![w] = None]
      /\ stop_ids' = [stop_ids EXCEPT ![w] = {}]
      /\ wpc' = [wpc EXCEPT ![w] = end]
  BY DEF ThreadEnds, Goto
<1>2. \A a \in ActorId : a \in Range(control[w]) => life[a] = "started" /\ home[a] = w
  BY IdFacts DEF CInv, PendingOnce, Range
<1>3. cell[w] \in ActorId => home[cell[w]] = w /\ life[cell[w]] = "live"
                             /\ cell[w] \notin actor_map[w]
  BY IdFacts DEF CInv, CellHeld, CellInOnePlace
<1>4. /\ \A a \in ActorId : home[a] # w => life'[a] = life[a]
      /\ \A a \in ActorId : life[a] \notin {"started", "live"} => life'[a] = life[a]
      /\ \A a \in ActorId : life[a] = "live" => life'[a] \in {"live", "stopped"}
      /\ \A a \in ActorId : life[a] = "live" /\ a # cell[w] => life'[a] = "live"
      /\ \A a \in ActorId : life[a] = "started" => life'[a] \in {"started", "lost"}
      /\ \A a \in ActorId : life[a] = "started" /\ a \notin Range(control[w])
                                => life'[a] = "started"
  BY <1>2, <1>3
<1>5. CoreTypeOK'
  <2>1. control' \in [Worker -> Seq(ActorId \cup {Shutdown})]
    BY <1>1 DEF CInv, CoreTypeOK
  <2> QED BY <1>1, <2>1 DEF CInv, CoreTypeOK, WorkerPc
<1>6. /\ DOMAIN control'[w] = {}
      /\ \A u \in Worker : u # w => control'[u] = control[u]
  BY <1>1 DEF CInv, CoreTypeOK
<1>7. Allocated'
  <2>1. \A c \in Client : cpc[c] = "started" => carg[c] \notin Range(control[w])
    BY DEF CInv, Allocated, Range
  <2>2. \A u \in Worker : \A i \in DOMAIN control'[u] :
           i \in DOMAIN control[u] /\ control'[u][i] = control[u][i]
    BY <1>6
  <2> QED BY <1>4, <2>1, <2>2 DEF CInv, Allocated
<1>8. PendingOnce'
  <2>1. SUFFICES ASSUME NEW u \in Worker, u # w, NEW i \in DOMAIN control[u],
                        control[u][i] # Shutdown
                 PROVE  /\ life'[control[u][i]] = "started"
                        /\ home[control[u][i]] = u
                        /\ \A j \in DOMAIN control[u] : control[u][j] = control[u][i] => i = j
    BY <1>6 DEF PendingOnce
  <2>2. control[u][i] \in ActorId
    BY <2>1 DEF CInv, CoreTypeOK
  <2> QED BY <1>4, <2>1, <2>2 DEF CInv, PendingOnce
<1>9. CellHeld'
  BY <1>1, <1>4 DEF CInv, CoreTypeOK, CellHeld
<1>10. CellInOnePlace'
  BY <1>1, <1>3, <1>4, IdFacts DEF CInv, CoreTypeOK, CellHeld, CellInOnePlace, Terminated
<1>11. AddressedAreRegistered'
  BY <1>4 DEF CInv, CoreTypeOK, AddressedAreRegistered
<1> QED BY <1>5, <1>7, <1>8, <1>9, <1>10, <1>11 DEF CInv
-----------------------------------------------------------------------------
(* Every step of a worker keeps the invariant. *)
LEMMA WorkerCInv ==
    ASSUME CInv, NEW w \in Worker, WorkerStep(w)
    PROVE  CInv'
<1> USE DEF chanVars, workerVars, spawnVars, msgVars, clientVars
<1>0. wpc \in [Worker -> WorkerPc] /\ sent \in Nat
      /\ cpc \in [Client -> {"idle", "started", "confirm", "wait", "panicked"}]
      /\ carg \in [Client -> Nat]
  BY DEF CInv, CoreTypeOK
<1>1. CASE RecvSpawn(w)
  BY <1>1, RecvSpawnCInv
<1>2. CASE RecvShutdown(w)
  BY <1>2, RecvShutdownCInv
<1>3. CASE ControlEmpty(w)
  BY <1>0, <1>3, QuietCInv DEF ControlEmpty, Goto, WorkerPc
<1>4. CASE TakeEnvelope(w)
  BY <1>0, <1>4, QuietCInv DEF TakeEnvelope, Goto, WorkerPc
<1>5. CASE GoIdle(w)
  BY <1>0, <1>5, QuietCInv DEF GoIdle, Goto, WorkerPc
<1>6. CASE IdleTimeout(w)
  BY <1>0, <1>6, QuietCInv DEF IdleTimeout, Goto, WorkerPc
<1>7. CASE Dispatch(w)
  BY <1>7, DispatchCInv
<1>8. CASE ContextSpawn(w)
  BY <1>8, SpawnDirectCInv DEF ContextSpawn
<1>9. ASSUME NEW a \in ActorId, ContextNotify(w, a)
      PROVE  CInv'
  BY <1>0, <1>9, QuietCInv DEF ContextNotify, Post
<1>10. CASE HandlerReturn(w)
  BY <1>10, HandlerReturnCInv
<1>11. ASSUME NEW o \in {"done", "lost"}, HandlerEnds(w, o)
       PROVE  CInv'
  BY <1>0, <1>11, QuietCInv DEF HandlerEnds, Goto, WorkerPc
<1>12. ASSUME NEW a \in ActorId, StopNext(w, a)
       PROVE  CInv'
  BY <1>12, StopNextCInv
<1>13. CASE StoppedReturn(w)
  BY <1>13, StoppedReturnCInv
<1>14. CASE StoppedPanic(w)
  <2>1. ThreadEnds(w) /\ Goto(w, "crashed")
    BY <1>14 DEF StoppedPanic
  <2>2. UNCHANGED <<next_id, next_worker, home, known, actor_map, sent, cpc, carg>>
    BY <1>14 DEF StoppedPanic
  <2> QED BY <1>14, <2>1, <2>2, ThreadEndsCInv DEF StoppedPanic
<1>15. CASE Exit(w)
  <2>1. \A a \in ActorId : a # cell[w]
    BY <1>15, IdFacts DEF Exit, CInv, CellHeld
  <2>2. life' = [a \in ActorId |->
                   IF a = cell[w] THEN "stopped"
                   ELSE IF a \in Range(control[w]) THEN "lost" ELSE life[a]]
    BY <1>15, <2>1 DEF Exit
  <2>3. ThreadEnds(w) /\ Goto(w, "exited")
    BY <1>15 DEF Exit
  <2>4. UNCHANGED <<next_id, next_worker, home, known, actor_map, sent, cpc, carg>>
    BY <1>15 DEF Exit
  <2> QED BY <2>2, <2>3, <2>4, ThreadEndsCInv
<1> QED BY <1>1, <1>2, <1>3, <1>4, <1>5, <1>6, <1>7, <1>8, <1>9, <1>10, <1>11, <1>12,
           <1>13, <1>14, <1>15 DEF WorkerStep

(* Every step of a client keeps the invariant. *)
LEMMA ClientCInv ==
    ASSUME CInv, NEW c \in Client, ClientCall(c) \/ ClientReturn(c)
    PROVE  CInv'
<1> USE DEF chanVars, workerVars, spawnVars, msgVars, clientVars
<1>0. wpc \in [Worker -> WorkerPc] /\ sent \in Nat
      /\ cpc \in [Client -> {"idle", "started", "confirm", "wait", "panicked"}]
      /\ carg \in [Client -> Nat]
  BY DEF CInv, CoreTypeOK
<1>1. CASE SpawnBegin(c)
  BY <1>1, SpawnBeginCInv
<1>2. ASSUME NEW a \in ActorId, Send(c, a)
      PROVE  CInv'
  <2>1. /\ wpc' = wpc /\ sent' = sent + 1
        /\ cpc' = [cpc EXCEPT ![c] = "wait"] /\ carg' = [carg EXCEPT ![c] = sent + 1]
        /\ UNCHANGED <<control, actor_map, cell, stop_ids, next_id, next_worker, home,
                       life, known>>
    BY <1>2 DEF Send, Post
  <2> QED BY <1>0, <2>1, QuietCInv
<1>3. ASSUME NEW a \in ActorId, DoSend(c, a)
      PROVE  CInv'
  BY <1>0, <1>3, QuietCInv DEF DoSend, Post
<1>4. CASE StartedSpawn(c)
  <2>1. home[carg[c]] \in Worker
    BY <1>4 DEF StartedSpawn, CInv, CoreTypeOK, Allocated
  <2> QED BY <1>4, <2>1, SpawnDirectCInv DEF StartedSpawn
<1>5. CASE StartedPanic(c)
  BY <1>5, SpawnLostCInv DEF StartedPanic
<1>6. CASE SpawnSend(c)
  BY <1>6, SpawnSendCInv
<1>7. CASE SpawnReturn(c)
  BY <1>7, SpawnReturnCInv
<1>8. CASE SendReturn(c)
  <2>1. /\ cpc' = [cpc EXCEPT ![c] = "idle"]
        /\ UNCHANGED <<control, actor_map, cell, stop_ids, next_id, next_worker, home,
                       life, known, wpc, sent, carg>>
    BY <1>8 DEF SendReturn
  <2> QED BY <1>0, <2>1, QuietCInv
<1> QED BY <1>1, <1>2, <1>3, <1>4, <1>5, <1>6, <1>7, <1>8 DEF ClientCall, ClientReturn
-----------------------------------------------------------------------------
(* The owner has joined the workers below rt_at, and all of them once run  *)
(* or drop has gone past the loop.                                         *)
OwnerOK ==
    /\ rt_pc \in {"open", "signal", "join", "ended"}
    /\ rt_op \in {"none", "shutdown", "run", "drop", "finish", "unwind"}
    /\ rt_at \in 0 .. N
    /\ rt_pc \in {"signal", "join"} => rt_op # "none"
    /\ rt_pc = "signal" /\ rt_op = "finish" => \A w \in Worker : Terminated(w)
    /\ rt_pc = "join" => rt_op \in {"run", "drop"}
                         /\ \A w \in Worker : w < rt_at => Terminated(w)
    /\ JoinedAtEnd

RInv == CInv /\ OwnerOK

(* A thread that has ended does not start again. *)
LEMMA TerminatedForGood ==
    ASSUME CInv, [Next]_vars, NEW w \in Worker, Terminated(w)
    PROVE  Terminated(w)'
<1>1. ASSUME NEW u \in Worker, WorkerStep(u), u # w
      PROVE  wpc'[w] = wpc[w]
  BY <1>1 DEF WorkerStep, RecvSpawn, RecvShutdown, ControlEmpty, TakeEnvelope, GoIdle,
              IdleTimeout, Dispatch, ContextSpawn, ContextNotify, HandlerReturn, HandlerEnds,
              StopNext, StoppedReturn, StoppedPanic, Exit, Goto, workerVars, CInv, CoreTypeOK
<1>2. ASSUME WorkerStep(w)
      PROVE  FALSE
  BY <1>2 DEF WorkerStep, RecvSpawn, RecvShutdown, ControlEmpty, TakeEnvelope, GoIdle,
              IdleTimeout, Dispatch, ContextSpawn, ContextNotify, HandlerReturn, HandlerEnds,
              StopNext, StoppedReturn, StoppedPanic, Exit, Terminated
<1>3. ASSUME ~ \E u \in Worker : WorkerStep(u)
      PROVE  wpc' = wpc
  BY <1>3 DEF Next, vars, workerVars, OwnerStep, SignalWorker, SignalDone, JoinWorker, JoinDone,
              RuntimeCall, DropAddr, ClientCall, ClientReturn, SpawnBegin, Send, DoSend,
              StartedSpawn, StartedPanic, SpawnSend, SpawnReturn, SendReturn, Finished
<1> QED BY <1>1, <1>2, <1>3 DEF Terminated

(* The owner's bookkeeping survives every step. *)
LEMMA OwnerStepOK ==
    ASSUME RInv, [Next]_vars
    PROVE  OwnerOK'
<1>0. \A w \in Worker : Terminated(w) => Terminated(w)'
  BY TerminatedForGood DEF RInv
<1>n. N \in Nat /\ \A w \in Worker : w \in Nat /\ w < N
  BY NAssumption DEF Worker
<1>1. CASE UNCHANGED rtVars
  <2>1. rt_pc' = rt_pc /\ rt_op' = rt_op /\ rt_at' = rt_at
    BY <1>1 DEF rtVars
  <2> QED BY <1>0, <2>1 DEF RInv, OwnerOK, JoinedAtEnd
<1>2. ASSUME NEW op \in {"shutdown", "run", "drop"}, RuntimeCall(op)
      PROVE  OwnerOK'
  BY <1>2, <1>n DEF RuntimeCall, OwnerOK, JoinedAtEnd
<1>3. CASE SignalWorker
  <2>1. rt_pc' = rt_pc /\ rt_op' = rt_op /\ rt_at' = rt_at + 1 /\ rt_pc = "signal" /\ rt_at < N
    BY <1>3 DEF SignalWorker
  <2> QED BY <1>0, <1>n, <2>1 DEF RInv, OwnerOK, JoinedAtEnd
<1>4. CASE SignalDone
  <2>1. /\ rt_pc = "signal" /\ rt_at' = 0
        /\ \/ rt_op = "shutdown" /\ rt_pc' = "open" /\ rt_op' = "none"
           \/ rt_op \in {"run", "drop"} /\ rt_pc' = "join" /\ rt_op' = rt_op
           \/ rt_op \in {"finish", "unwind"} /\ rt_pc' = "ended" /\ rt_op' = rt_op
    BY <1>4 DEF SignalDone, RInv, OwnerOK
  <2> QED BY <1>0, <1>n, <2>1 DEF RInv, OwnerOK, JoinedAtEnd
<1>5. CASE JoinWorker
  <2>1. CASE rt_op = "run" /\ wpc[rt_at] = "crashed"
    <3>1. rt_pc' = "signal" /\ rt_op' = "unwind" /\ rt_at' = 0
      BY <1>5, <2>1 DEF JoinWorker
    <3> QED BY <1>n, <3>1 DEF OwnerOK, JoinedAtEnd
  <2>2. CASE ~ (rt_op = "run" /\ wpc[rt_at] = "crashed")
    <3>1. /\ rt_pc = "join" /\ rt_pc' = rt_pc /\ rt_op' = rt_op /\ rt_at' = rt_at + 1
          /\ rt_at < N /\ Terminated(rt_at)
      BY <1>5, <2>2 DEF JoinWorker
    <3>2. \A w \in Worker : w < rt_at' => w < rt_at \/ w = rt_at
      BY <1>n, <3>1 DEF RInv, OwnerOK
    <3>3. rt_at \in Worker
      BY <3>1, NAssumption DEF RInv, OwnerOK, Worker
    <3> QED BY <1>0, <1>n, <3>1, <3>2, <3>3 DEF RInv, OwnerOK, JoinedAtEnd
  <2> QED BY <2>1, <2>2
<1>6. CASE JoinDone
  <2>1. \A w \in Worker : Terminated(w)'
    BY <1>0, <1>n, <1>6 DEF JoinDone, RInv, OwnerOK
  <2>2. /\ rt_at' = 0 /\ rt_op \in {"run", "drop"}
        /\ \/ rt_op = "run" /\ rt_pc' = "signal" /\ rt_op' = "finish"
           \/ rt_op = "drop" /\ rt_pc' = "ended" /\ rt_op' = rt_op
    BY <1>6 DEF JoinDone, RInv, OwnerOK
  <2> QED BY <1>n, <2>1, <2>2 DEF OwnerOK, JoinedAtEnd
<1>7. ASSUME NEW u \in Worker, WorkerStep(u)
      PROVE  UNCHANGED rtVars
  BY <1>7 DEF WorkerStep, RecvSpawn, RecvShutdown, ControlEmpty, TakeEnvelope, GoIdle,
              IdleTimeout, Dispatch, ContextSpawn, ContextNotify, HandlerReturn, HandlerEnds,
              StopNext, StoppedReturn, StoppedPanic, Exit
<1>8. ASSUME NEW c \in Client, ClientCall(c) \/ ClientReturn(c)
      PROVE  UNCHANGED rtVars
  BY <1>8 DEF ClientCall, ClientReturn, SpawnBegin, Send, DoSend,
              StartedSpawn, StartedPanic, SpawnSend, SpawnReturn, SendReturn
<1>9. ASSUME NEW a \in ActorId, DropAddr(a)
      PROVE  UNCHANGED rtVars
  BY <1>9 DEF DropAddr
<1>10. ASSUME Finished \/ UNCHANGED vars
       PROVE  UNCHANGED rtVars
  BY <1>10 DEF Finished, vars
<1> QED BY <1>1, <1>2, <1>3, <1>4, <1>5, <1>6, <1>7, <1>8, <1>9, <1>10 DEF Next, OwnerStep

(* The invariant is inductive. *)
LEMMA RInvStep ==
    ASSUME RInv, [Next]_vars
    PROVE  RInv'
<1>0. /\ CInv /\ rt_at \in Nat
      /\ wpc \in [Worker -> WorkerPc] /\ sent \in Nat
      /\ cpc \in [Client -> {"idle", "started", "confirm", "wait", "panicked"}]
      /\ carg \in [Client -> Nat]
  BY NAssumption DEF RInv, CInv, CoreTypeOK, OwnerOK
<1>1. ASSUME NEW w \in Worker, WorkerStep(w)
      PROVE  CInv'
  BY <1>0, <1>1, WorkerCInv
<1>2. ASSUME NEW c \in Client, ClientCall(c) \/ ClientReturn(c)
      PROVE  CInv'
  BY <1>0, <1>2, ClientCInv
<1>3. ASSUME NEW a \in ActorId, DropAddr(a)
      PROVE  CInv'
  BY <1>0, <1>3, DropAddrCInv
<1>4. ASSUME SignalWorker
      PROVE  CInv'
  BY <1>0, <1>4, SignalWorkerCInv
<1>5. ASSUME UNCHANGED <<chanVars, workerVars, spawnVars, msgVars, clientVars>>
      PROVE  CInv'
  BY <1>0, <1>5, QuietCInv DEF chanVars, workerVars, spawnVars, msgVars, clientVars
<1>6. ASSUME NEW op \in {"shutdown", "run", "drop"}, RuntimeCall(op)
      PROVE  CInv'
  BY <1>5, <1>6 DEF RuntimeCall
<1>7. ASSUME SignalDone \/ JoinWorker \/ JoinDone
      PROVE  CInv'
  BY <1>5, <1>7 DEF SignalDone, JoinWorker, JoinDone
<1>8. ASSUME Finished \/ UNCHANGED vars
      PROVE  CInv'
  BY <1>5, <1>8 DEF Finished, vars
<1>9. CInv'
  BY <1>1, <1>2, <1>3, <1>4, <1>6, <1>7, <1>8 DEF Next, OwnerStep
<1> QED BY <1>9, OwnerStepOK DEF RInv

(* The invariant holds: where actors, control messages and cells are, and  *)
(* how far the owner is, for any number of workers and clients and any     *)
(* user code.                                                              *)
THEOREM RuntimeInvariant == Spec => []RInv
<1>1. Init => RInv
  <2>1. Init => OwnerOK
    BY NAssumption DEF Init, OwnerOK, JoinedAtEnd
  <2> QED BY <2>1, InitCInv DEF RInv
<1>2. RInv /\ [Next]_vars => RInv'
  BY RInvStep
<1> QED BY <1>1, <1>2, PTL DEF Spec

(* Nobody holds the address of an actor that its worker does not have yet  *)
(* (the confirmation in spawn_actor_remote).                               *)
THEOREM AddressedAreRegisteredHolds == Spec => []AddressedAreRegistered
<1>1. RInv => AddressedAreRegistered
  BY DEF RInv, CInv
<1> QED BY <1>1, RuntimeInvariant, PTL

(* A living actor of a running worker is in its map or in its hands, never *)
(* in both and never elsewhere (dispatch, remove_actor, the direct spawn). *)
THEOREM CellInOnePlaceHolds == Spec => []CellInOnePlace
<1>1. RInv => CellInOnePlace
  BY DEF RInv, CInv
<1> QED BY <1>1, RuntimeInvariant, PTL

(* No worker thread outlives a run or drop that returned normally. *)
THEOREM JoinedAtEndHolds == Spec => []JoinedAtEnd
<1>1. RInv => JoinedAtEnd
  BY DEF RInv, OwnerOK
<1> QED BY <1>1, RuntimeInvariant, PTL
-----------------------------------------------------------------------------
(* Hooks that spawn nobody: no child is born into a map behind the back of *)
(* stop_all_actors.                                                        *)
QuietHooks == {"started_spawn", "stopped_spawn"} \cap UserMay = {}

(* The list that stop_all_actors works through is the whole map. *)
StopsAll ==
    \A w \in Worker : wpc[w] \in {"stop_all", "stop_hook"} => actor_map[w] \subseteq stop_ids[w]

SInv == StopsAll /\ StoppedAtExit

(* A step that brings no actor to life, shrinks no list and ends no thread *)
(* keeps the invariant.                                                    *)
LEMMA CalmSInv ==
    ASSUME RInv, SInv, UNCHANGED <<home, stop_ids>>,
           \A a \in ActorId : life'[a] = "live" => life[a] = "live",
           \A w \in Worker : wpc'[w] \in {"stop_all", "stop_hook"} =>
              wpc[w] \in {"stop_all", "stop_hook"} /\ actor_map'[w] \subseteq actor_map[w],
           \A w \in Worker : wpc'[w] = "exited" => wpc[w] = "exited"
    PROVE  SInv'
<1>1. home \in [ActorId -> Worker]
  BY DEF RInv, CInv, CoreTypeOK
<1> QED BY <1>1 DEF SInv, StopsAll, StoppedAtExit

(* The steps of a worker keep the list complete. *)
LEMMA WorkerSInv ==
    ASSUME QuietHooks, RInv, SInv, NEW w \in Worker, WorkerStep(w)
    PROVE  SInv'
<1> USE DEF chanVars, workerVars, spawnVars, msgVars, clientVars
<1>0. /\ wpc \in [Worker -> WorkerPc] /\ home \in [ActorId -> Worker]
      /\ life \in [ActorId -> {"none", "started", "live", "stopped", "lost"}]
      /\ actor_map \in [Worker -> SUBSET ActorId] /\ stop_ids \in [Worker -> SUBSET ActorId]
      /\ cell \in [Worker -> ActorId \cup {None}]
      /\ CellHeld /\ CellInOnePlace
  BY DEF RInv, CInv, CoreTypeOK
<1>1. CASE RecvSpawn(w)
  <2> DEFINE a == Head(control[w])
  <2>1. /\ wpc[w] = "control" /\ control[w] # <<>> /\ a # Shutdown
        /\ actor_map' = [actor_map EXCEPT ![w] = @ \cup {a}]
        /\ life' = [life EXCEPT ![a] = "live"]
        /\ UNCHANGED <<wpc, stop_ids, home>>
    BY <1>1 DEF RecvSpawn
  <2>2. control[w] \in Seq(ActorId \cup {Shutdown})
    BY DEF RInv, CInv, CoreTypeOK
  <2>3. a = control[w][1] /\ 1 \in DOMAIN control[w] /\ a \in ActorId
    BY <2>1, <2>2, ChannelFacts, HeadTailProperties
  <2>4. home[a] = w
    BY <2>1, <2>3 DEF RInv, CInv, PendingOnce
  <2> HIDE DEF a
  <2> QED BY <1>0, <2>1, <2>3, <2>4 DEF SInv, StopsAll, StoppedAtExit
<1>2. CASE RecvShutdown(w)
  <2>1. /\ stop_ids' = [stop_ids EXCEPT ![w] = actor_map[w]]
        /\ wpc' = [wpc EXCEPT ![w] = "stop_all"]
        /\ UNCHANGED <<actor_map, life, home>>
    BY <1>2 DEF RecvShutdown, Goto
  <2> QED BY <1>0, <2>1 DEF SInv, StopsAll, StoppedAtExit
<1>3. CASE ControlEmpty(w) \/ TakeEnvelope(w) \/ GoIdle(w) \/ IdleTimeout(w)
  <2>1. /\ \E pc \in {"control", "drain", "idle"} : wpc' = [wpc EXCEPT ![w] = pc]
        /\ UNCHANGED <<actor_map, life, home, stop_ids>>
    BY <1>3 DEF ControlEmpty, TakeEnvelope, GoIdle, IdleTimeout, Goto
  <2> QED BY <1>0, <2>1, CalmSInv
<1>4. CASE Dispatch(w)
  <2>1. /\ \E pc \in {"control", "handling"} : wpc' = [wpc EXCEPT ![w] = pc]
        /\ \A u \in Worker : actor_map'[u] \subseteq actor_map[u]
        /\ UNCHANGED <<life, home, stop_ids>>
    BY <1>0, <1>4 DEF Dispatch, Goto
  <2> QED BY <1>0, <2>1, CalmSInv
<1>5. CASE ContextSpawn(w)
  <2>1. /\ wpc[w] = "handling" /\ wpc' = wpc /\ stop_ids' = stop_ids
        /\ next_id \in ActorId
        /\ home' = [home EXCEPT ![next_id] = w]
        /\ life' = [life EXCEPT ![next_id] = "live"]
        /\ actor_map' = [actor_map EXCEPT ![w] = @ \cup {next_id}]
    BY <1>5, IdFacts DEF ContextSpawn, SpawnDirect, QuietHooks, RInv, CInv, CoreTypeOK
  <2> QED BY <1>0, <2>1 DEF SInv, StopsAll, StoppedAtExit
<1>6. ASSUME NEW a \in ActorId, ContextNotify(w, a)
      PROVE  SInv'
  BY <1>6, CalmSInv DEF ContextNotify
<1>7. CASE HandlerReturn(w)
  <2>1. /\ wpc[w] = "handling" /\ wpc' = [wpc EXCEPT ![w] = "control"]
        /\ \A u \in Worker : u # w => actor_map'[u] = actor_map[u]
        /\ UNCHANGED <<life, home, stop_ids>>
    BY <1>0, <1>7 DEF HandlerReturn, Goto
  <2> QED BY <1>0, <2>1, CalmSInv
<1>8. ASSUME NEW o \in {"done", "lost"}, HandlerEnds(w, o)
      PROVE  SInv'
  <2>1. /\ wpc' = [wpc EXCEPT ![w] = "on_stop"]
        /\ UNCHANGED <<actor_map, life, home, stop_ids>>
    BY <1>8 DEF HandlerEnds, Goto
  <2> QED BY <1>0, <2>1, CalmSInv
<1>9. ASSUME NEW a \in ActorId, StopNext(w, a)
      PROVE  SInv'
  <2>1. /\ wpc[w] = "stop_all" /\ wpc' = [wpc EXCEPT ![w] = "stop_hook"]
        /\ stop_ids' = [stop_ids EXCEPT ![w] = @ \ {a}]
        /\ actor_map' = [actor_map EXCEPT ![w] = @ \ {a}]
        /\ UNCHANGED <<life, home>>
    BY <1>9 DEF StopNext, Goto
  <2> QED BY <1>0, <2>1 DEF SInv, StopsAll, StoppedAtExit
<1>10. CASE StoppedReturn(w)
  <2>1. /\ wpc[w] \in {"on_stop", "stop_hook"}
        /\ wpc' = [wpc EXCEPT ![w] = IF wpc[w] = "on_stop" THEN "control" ELSE "stop_all"]
        /\ life' = [life EXCEPT ![cell[w]] = "stopped"]
        /\ UNCHANGED <<actor_map, home, stop_ids>>
    BY <1>10 DEF StoppedReturn, Goto
  <2> QED BY <1>0, <2>1, CalmSInv
<1>11. CASE StoppedPanic(w)
  <2>1. /\ wpc' = [wpc EXCEPT ![w] = "crashed"]
        /\ \A a \in ActorId : life'[a] = "live" => life[a] = "live"
        /\ stop_ids' = [stop_ids EXCEPT ![w] = {}]
        /\ UNCHANGED <<actor_map, home>>
    BY <1>11 DEF StoppedPanic, ThreadEnds, Goto
  <2> QED BY <1>0, <2>1 DEF SInv, StopsAll, StoppedAtExit
<1>12. CASE Exit(w)
  <2>1. /\ wpc[w] = "stop_all" /\ stop_ids[w] = {} /\ wpc' = [wpc EXCEPT ![w] = "exited"]
        /\ \A a \in ActorId : life'[a] = "live" => life[a] = "live"
        /\ stop_ids' = [stop_ids EXCEPT ![w] = {}]
        /\ UNCHANGED <<actor_map, home>>
    BY <1>12 DEF Exit, ThreadEnds, Goto
  <2>2. actor_map[w] = {} /\ cell[w] = None /\ ~ Terminated(w)
    BY <1>0, <2>1 DEF SInv, StopsAll, CellHeld, Terminated
  <2>3. \A a \in ActorId : life[a] = "live" => home[a] # w
    BY <1>0, <2>2, IdFacts DEF CellInOnePlace
  <2> QED BY <1>0, <2>1, <2>3 DEF SInv, StopsAll, StoppedAtExit
<1> QED BY <1>1, <1>2, <1>3, <1>4, <1>5, <1>6, <1>7, <1>8, <1>9, <1>10, <1>11, <1>12
        DEF WorkerStep

(* The steps of all others leave maps and lists to the workers. *)
LEMMA OtherSInv ==
    ASSUME QuietHooks, RInv, SInv, [Next]_vars, ~ \E w \in Worker : WorkerStep(w)
    PROVE  SInv'
<1>0. /\ home \in [ActorId -> Worker] /\ SInv
      /\ life \in [ActorId -> {"none", "started", "live", "stopped", "lost"}]
  BY DEF RInv, CInv, CoreTypeOK
<1>1. wpc' = wpc /\ actor_map' = actor_map /\ stop_ids' = stop_ids
  BY DEF Next, vars, workerVars, spawnVars, OwnerStep, SignalWorker, SignalDone, JoinWorker,
         JoinDone, RuntimeCall, DropAddr, ClientCall, ClientReturn, SpawnBegin, Send, DoSend,
         StartedSpawn, StartedPanic, SpawnSend, SpawnReturn, SendReturn, Finished, QuietHooks
<1>2. ASSUME NEW c \in Client, SpawnBegin(c)
      PROVE  SInv'
  <2>1. /\ next_id \in ActorId
        /\ home' = [home EXCEPT ![next_id] = PickWorker]
        /\ life' = [life EXCEPT ![next_id] = "started"]
    BY <1>2, IdFacts DEF SpawnBegin, RInv, CInv, CoreTypeOK
  <2> QED BY <1>0, <1>1, <2>1 DEF SInv, StopsAll, StoppedAtExit
<1>3. ASSUME ~ \E c \in Client : SpawnBegin(c)
      PROVE  home' = home /\ \A a \in ActorId : life'[a] = "live" => life[a] = "live"
  BY <1>0, <1>3
     DEF Next, vars, spawnVars, OwnerStep, SignalWorker, SignalDone, JoinWorker,
         JoinDone, RuntimeCall, DropAddr, ClientCall, ClientReturn, Send, DoSend,
         StartedSpawn, StartedPanic, SpawnSend, SpawnReturn, SendReturn, Finished, QuietHooks
<1> QED BY <1>1, <1>2, <1>3, CalmSInv

(* A worker that has returned from run has stopped every actor it had      *)
(* (stop_all_actors), for every user code whose hooks spawn nobody.        *)
THEOREM StoppedAtExitHolds == QuietHooks => (Spec => []StoppedAtExit)
<1> SUFFICES ASSUME QuietHooks PROVE Spec => []StoppedAtExit
  OBVIOUS
<1>1. Init => SInv
  BY DEF Init, SInv, StopsAll, StoppedAtExit
<1>2. RInv /\ SInv /\ [Next]_vars => SInv'
  BY WorkerSInv, OtherSInv
<1>3. SInv => StoppedAtExit
  BY DEF SInv
<1> QED BY <1>1, <1>2, <1>3, RuntimeInvariant, PTL DEF Spec
-----------------------------------------------------------------------------
(* An actor that is left behind after a step of a worker was so before it, *)
(* or was born in it.                                                      *)
LEMMA WorkerLeavesNewborn ==
    ASSUME RInv, NEW v \in Worker, WorkerStep(v),
           NEW w \in Worker, NEW a \in LeftBehind(w)', life[a] # "none"
    PROVE  a \in LeftBehind(w)
<1> USE DEF chanVars, workerVars, spawnVars, msgVars, clientVars
<1>0. /\ wpc \in [Worker -> WorkerPc] /\ home \in [ActorId -> Worker]
      /\ life \in [ActorId -> {"none", "started", "live", "stopped", "lost"}]
      /\ stop_ids \in [Worker -> SUBSET ActorId]
      /\ cell \in [Worker -> ActorId \cup {None}]
      /\ CellHeld /\ CellInOnePlace
      /\ a \in ActorId /\ None \notin ActorId
  BY IdFacts DEF RInv, CInv, CoreTypeOK, LeftBehind
<1>1. CASE RecvSpawn(v)
  <2> DEFINE b == Head(control[v])
  <2>1. /\ wpc[v] = "control" /\ control[v] # <<>> /\ b # Shutdown
        /\ life' = [life EXCEPT ![b] = "live"]
        /\ UNCHANGED <<wpc, stop_ids, cell, home>>
    BY <1>1 DEF RecvSpawn
  <2>2. control[v] \in Seq(ActorId \cup {Shutdown})
    BY DEF RInv, CInv, CoreTypeOK
  <2>3. b = control[v][1] /\ 1 \in DOMAIN control[v] /\ b \in ActorId
    BY <2>1, <2>2, ChannelFacts, HeadTailProperties
  <2>4. home[b] = v
    BY <2>1, <2>3 DEF RInv, CInv, PendingOnce
  <2> HIDE DEF b
  <2> QED BY <1>0, <2>1, <2>3, <2>4 DEF LeftBehind
<1>2. CASE RecvShutdown(v)
  <2>1. /\ wpc[v] = "control" /\ wpc' = [wpc EXCEPT ![v] = "stop_all"]
        /\ stop_ids' = [stop_ids EXCEPT ![v] = actor_map[v]]
        /\ UNCHANGED <<cell, life, home>>
    BY <1>2 DEF RecvShutdown, Goto
  <2>2. cell[v] = None /\ ~ Terminated(v)
    BY <1>0, <2>1 DEF CellHeld, Terminated
  <2>3. life[a] = "live" /\ home[a] = v => a \in actor_map[v]
    BY <1>0, <2>2 DEF CellInOnePlace
  <2> QED BY <1>0, <2>1, <2>3 DEF LeftBehind
<1>3. CASE \/ ControlEmpty(v) \/ TakeEnvelope(v) \/ GoIdle(v) \/ IdleTimeout(v)
           \/ Dispatch(v) \/ HandlerReturn(v) \/ (\E o \in {"done", "lost"} : HandlerEnds(v, o))
  <2>1. /\ \E pc \in {"control", "drain", "idle", "handling", "on_stop"} :
              wpc' = [wpc EXCEPT ![v] = pc]
        /\ UNCHANGED <<life, home, stop_ids>>
        /\ \A u \in Worker : u # v => cell'[u] = cell[u]
    BY <1>0, <1>3 DEF ControlEmpty, TakeEnvelope, GoIdle, IdleTimeout, Dispatch, HandlerReturn,
                      HandlerEnds, Goto
  <2> QED BY <1>0, <2>1 DEF LeftBehind
<1>4. CASE ContextSpawn(v)
  <2>1. /\ UNCHANGED <<wpc, stop_ids, cell>>
        /\ next_id \in ActorId /\ life[next_id] = "none"
        /\ home' = [home EXCEPT ![next_id] = v]
        /\ life' = [life EXCEPT ![next_id] = "live"]
    BY <1>4, IdFacts DEF ContextSpawn, SpawnDirect, RInv, CInv, CoreTypeOK, Allocated
  <2> QED BY <1>0, <2>1 DEF LeftBehind
<1>5. CASE \E b \in ActorId : ContextNotify(v, b)
  BY <1>0, <1>5 DEF ContextNotify, LeftBehind
<1>6. ASSUME NEW b \in ActorId, StopNext(v, b)
      PROVE  a \in LeftBehind(w)
  <2>1. /\ wpc[v] = "stop_all" /\ wpc' = [wpc EXCEPT ![v] = "stop_hook"]
        /\ stop_ids' = [stop_ids EXCEPT ![v] = @ \ {b}]
        /\ cell' = [cell EXCEPT ![v] = b]
        /\ UNCHANGED <<life, home>>
    BY <1>6 DEF StopNext, Goto
  <2>2. cell[v] = None
    BY <1>0, <2>1 DEF CellHeld
  <2> QED BY <1>0, <2>1, <2>2 DEF LeftBehind
<1>7. CASE StoppedReturn(v)
  <2>1. /\ wpc[v] \in {"on_stop", "stop_hook"}
        /\ wpc' = [wpc EXCEPT ![v] = IF wpc[v] = "on_stop" THEN "control" ELSE "stop_all"]
        /\ life' = [life EXCEPT ![cell[v]] = "stopped"]
        /\ cell' = [cell EXCEPT ![v] = None]
        /\ UNCHANGED <<home, stop_ids>>
    BY <1>7 DEF StoppedReturn, Goto
  <2> QED BY <1>0, <2>1 DEF LeftBehind
<1>8. CASE StoppedPanic(v) \/ Exit(v)
  <2>1. /\ \/ wpc' = [wpc EXCEPT ![v] = "crashed"]
           \/ /\ wpc[v] = "stop_all" /\ stop_ids[v] = {}
              /\ wpc' = [wpc EXCEPT ![v] = "exited"]
        /\ \A b \in ActorId : life'[b] = "live" => life[b] = "live"
        /\ stop_ids' = [stop_ids EXCEPT ![v] = {}]
        /\ cell' = [cell EXCEPT ![v] = None]
        /\ UNCHANGED home
    BY <1>8 DEF StoppedPanic, Exit, ThreadEnds, Goto
  <2>2. wpc[v] = "stop_all" => cell[v] = None
    BY <1>0 DEF CellHeld
  <2> QED BY <1>0, <2>1, <2>2 DEF LeftBehind
<1> QED BY <1>1, <1>2, <1>3, <1>4, <1>5, <1>6, <1>7, <1>8 DEF WorkerStep

(* The same of the steps of all others. *)
LEMMA OtherLeavesNewborn ==
    ASSUME RInv, [Next]_vars, ~ \E v \in Worker : WorkerStep(v),
           NEW w \in Worker, NEW a \in LeftBehind(w)', life[a] # "none"
    PROVE  a \in LeftBehind(w)
<1>0. /\ home \in [ActorId -> Worker]
      /\ life \in [ActorId -> {"none", "started", "live", "stopped", "lost"}]
      /\ a \in ActorId
  BY DEF RInv, CInv, CoreTypeOK, LeftBehind
<1>1. wpc' = wpc /\ stop_ids' = stop_ids /\ cell' = cell
  BY DEF Next, vars, workerVars, spawnVars, OwnerStep, SignalWorker, SignalDone, JoinWorker,
         JoinDone, RuntimeCall, DropAddr, ClientCall, ClientReturn, SpawnBegin, Send, DoSend,
         StartedSpawn, StartedPanic, SpawnSend, SpawnReturn, SendReturn, Finished
<1>2. ASSUME NEW c \in Client, SpawnBegin(c) \/ StartedSpawn(c)
      PROVE  a \in LeftBehind(w)
  <2>1. /\ next_id \in ActorId /\ life[next_id] = "none"
        /\ \E u : home' = [home EXCEPT ![next_id] = u]
        /\ \E l : life' = [life EXCEPT ![next_id] = l]
    <3>1. next_id \in 1 .. MaxId + 1
          /\ \A b \in ActorId : b >= next_id => life[b] = "none"
      BY DEF RInv, CInv, CoreTypeOK, Allocated
    <3>2. next_id <= MaxId
      BY <1>2 DEF SpawnBegin, StartedSpawn, SpawnDirect
    <3>3. next_id \in ActorId /\ life[next_id] = "none"
      BY <3>1, <3>2, IdFacts
    <3>4. CASE SpawnBegin(c)
      <4>1. /\ home' = [home EXCEPT ![next_id] = PickWorker]
            /\ life' = [life EXCEPT ![next_id] = "started"]
        BY <3>4 DEF SpawnBegin
      <4> QED BY <3>3, <4>1
    <3>5. CASE StartedSpawn(c)
      <4>1. /\ home' = [home EXCEPT ![next_id] = home[carg[c]]]
            /\ life' = [life EXCEPT ![next_id] = "live"]
        BY <3>5 DEF StartedSpawn, SpawnDirect
      <4> QED BY <3>3, <4>1
    <3> QED BY <1>2, <3>4, <3>5
  <2> QED BY <1>0, <1>1, <2>1 DEF LeftBehind
<1>3. ASSUME ~ \E c \in Client : SpawnBegin(c) \/ StartedSpawn(c)
      PROVE  home' = home /\ \A b \in ActorId : life'[b] = "live" => life[b] = "live"
  BY <1>0, <1>3
     DEF Next, vars, spawnVars, OwnerStep, SignalWorker, SignalDone, JoinWorker,
         JoinDone, RuntimeCall, DropAddr, ClientCall, ClientReturn, Send, DoSend,
         StartedPanic, SpawnSend, SpawnReturn, SendReturn, Finished
<1> QED BY <1>0, <1>1, <1>2, <1>3 DEF LeftBehind

(* Whatever the hooks do, the actors a worker leaves unstopped at its exit *)
(* (stop_all_actors) were born after it took its list.                     *)
THEOREM OnlyNewbornLeftBehindHolds == Spec => OnlyNewbornLeftBehind
<1> DEFINE Newborn ==
      \A w \in Worker : \A a \in LeftBehind(w)' \ LeftBehind(w) : life[a] = "none"
<1>1. RInv /\ [Next]_vars => [Newborn]_vars
  BY WorkerLeavesNewborn, OtherLeavesNewborn
<1> QED BY <1>1, RuntimeInvariant, PTL DEF Spec, OnlyNewbornLeftBehind
-----------------------------------------------------------------------------
(* Hooks that do not panic. *)
PoliteHooks == {"started_panic", "stopped_panic"} \cap UserMay = {}

(* Before anybody shuts the runtime down its workers run and lose nothing; *)
(* once run or drop has begun nobody is spawning.                          *)
Serving ==
    /\ \A w \in Worker : wpc[w] \notin {"stop_all", "stop_hook", "exited", "crashed"}
    /\ \A w \in Worker : \A i \in DOMAIN control[w] : control[w][i] # Shutdown
    /\ \A a \in ActorId : life[a] # "lost"
Leaving ==
    /\ rt_pc # "open" /\ rt_op # "shutdown"
    /\ \A c \in Client : cpc[c] \notin {"started", "confirm"}

PInv ==
    /\ shutdowns \in Nat
    /\ shutdowns = 0 => /\ \A c \in Client : cpc[c] # "panicked"
                        /\ (rt_pc = "open" /\ Serving) \/ Leaving

(* The steps of a worker. *)
LEMMA WorkerPInv ==
    ASSUME PoliteHooks, RInv, PInv, NEW w \in Worker, WorkerStep(w)
    PROVE  PInv'
<1> USE DEF chanVars, workerVars, spawnVars, msgVars, clientVars, rtVars
<1>0. /\ wpc \in [Worker -> WorkerPc]
      /\ life \in [ActorId -> {"none", "started", "live", "stopped", "lost"}]
      /\ control \in [Worker -> Seq(ActorId \cup {Shutdown})]
  BY DEF RInv, CInv, CoreTypeOK
<1>1. UNCHANGED <<cpc, rt_pc, rt_op, shutdowns>>
  BY DEF WorkerStep, RecvSpawn, RecvShutdown, ControlEmpty, TakeEnvelope, GoIdle,
         IdleTimeout, Dispatch, ContextSpawn, ContextNotify, HandlerReturn, HandlerEnds,
         StopNext, StoppedReturn, StoppedPanic, Exit
<1>2. CASE ~ Serving
  BY <1>1, <1>2 DEF PInv, Leaving
<1>3. ASSUME Serving PROVE Serving'
  <2>0. wpc[w] \notin {"stop_all", "stop_hook", "exited", "crashed"}
    BY <1>3 DEF Serving
  <2>1. CASE RecvSpawn(w)
    <3>1. /\ control[w] # <<>>
          /\ control' = [control EXCEPT ![w] = Tail(control[w])]
          /\ life' = [life EXCEPT ![Head(control[w])] = "live"]
          /\ wpc' = wpc
      BY <2>1 DEF RecvSpawn
    <3>2. \A i \in DOMAIN Tail(control[w]) : \E j \in DOMAIN control[w] :
             Tail(control[w])[i] = control[w][j]
      <4> DEFINE q == control[w]
      <4>1. q \in Seq(ActorId \cup {Shutdown}) /\ q # <<>>
        BY <1>0, <3>1
      <4>2. \A i \in DOMAIN Tail(q) : i + 1 \in DOMAIN q /\ Tail(q)[i] = q[i + 1]
        BY <4>1, ChannelFacts
      <4> QED BY <4>2
    <3>3. \A i \in DOMAIN Tail(control[w]) : Tail(control[w])[i] # Shutdown
      BY <3>2, <1>3 DEF Serving
    <3>4. \A a \in ActorId : life'[a] # "lost"
      BY <1>0, <1>3, <3>1 DEF Serving
    <3>5. ASSUME NEW u \in Worker, NEW i \in DOMAIN control'[u]
          PROVE  control'[u][i] # Shutdown
      <4>1. CASE u = w
        <5>1. control'[u] = Tail(control[w])
          BY <1>0, <3>1, <4>1
        <5> QED BY <5>1, <3>3, <3>5
      <4>2. CASE u # w
        <5>1. control'[u] = control[u]
          BY <1>0, <3>1, <4>2
        <5> QED BY <5>1, <3>5, <1>3 DEF Serving
      <4> QED BY <4>1, <4>2
    <3> QED BY <1>3, <3>1, <3>4, <3>5 DEF Serving
  <2>2. CASE RecvShutdown(w)
    <3>1. control[w] \in Seq(ActorId \cup {Shutdown}) /\ control[w] # <<>>
          /\ Head(control[w]) = Shutdown
      BY <1>0, <2>2 DEF RecvShutdown
    <3>2. control[w][1] = Shutdown /\ 1 \in DOMAIN control[w]
      BY <3>1, ChannelFacts
    <3> QED BY <3>2, <1>3 DEF Serving
  <2>3. CASE ContextSpawn(w)
    <3>1. UNCHANGED <<control, wpc>> /\ life' = [life EXCEPT ![next_id] = "live"]
      BY <2>3 DEF ContextSpawn, SpawnDirect
    <3> QED BY <1>0, <1>3, <3>1 DEF Serving
  <2>4. CASE StoppedReturn(w)
    <3>1. /\ control' = control /\ life' = [life EXCEPT ![cell[w]] = "stopped"]
          /\ wpc' = [wpc EXCEPT ![w] = "control"]
      BY <2>0, <2>4 DEF StoppedReturn, Goto
    <3> QED BY <1>0, <1>3, <3>1 DEF Serving
  <2>5. CASE StoppedPanic(w) \/ Exit(w) \/ \E a \in ActorId : StopNext(w, a)
    BY <2>0, <2>5 DEF StoppedPanic, Exit, StopNext, PoliteHooks
  <2>6. ASSUME NEW pc \in {"control", "drain", "idle", "handling", "on_stop"},
               wpc' = [wpc EXCEPT ![w] = pc] \/ wpc' = wpc, UNCHANGED <<control, life>>
        PROVE  Serving'
    BY <1>0, <1>3, <2>6 DEF Serving
  <2>7. CASE \/ ControlEmpty(w) \/ TakeEnvelope(w) \/ GoIdle(w) \/ IdleTimeout(w)
             \/ Dispatch(w) \/ (\E a \in ActorId : ContextNotify(w, a))
             \/ HandlerReturn(w) \/ (\E o \in {"done", "lost"} : HandlerEnds(w, o))
    <3>1. /\ \/ wpc' = wpc
             \/ \E pc \in {"control", "drain", "idle", "handling", "on_stop"} :
                   wpc' = [wpc EXCEPT ![w] = pc]
          /\ UNCHANGED <<control, life>>
      BY <2>7 DEF ControlEmpty, TakeEnvelope, GoIdle, IdleTimeout, Dispatch, ContextNotify,
                  HandlerReturn, HandlerEnds, Goto
    <3> QED BY <2>6, <3>1
  <2> QED BY <2>1, <2>2, <2>3, <2>4, <2>5, <2>7 DEF WorkerStep
<1> QED BY <1>1, <1>2, <1>3 DEF PInv, Leaving

(* The steps of a client. *)
LEMMA ClientPInv ==
    ASSUME PoliteHooks, RInv, PInv, NEW c \in Client, ClientCall(c) \/ ClientReturn(c)
    PROVE  PInv'
<1> USE DEF chanVars, workerVars, spawnVars, msgVars, clientVars, rtVars
<1>0. /\ cpc \in [Client -> {"idle", "started", "confirm", "wait", "panicked"}]
      /\ life \in [ActorId -> {"none", "started", "live", "stopped", "lost"}]
      /\ control \in [Worker -> Seq(ActorId \cup {Shutdown})]
      /\ wpc' = wpc /\ UNCHANGED <<rt_pc, rt_op, shutdowns>>
  BY DEF RInv, CInv, CoreTypeOK, ClientCall, ClientReturn, SpawnBegin, Send, DoSend,
         StartedSpawn, StartedPanic, SpawnSend, SpawnReturn, SendReturn
<1>1. CASE SpawnBegin(c)
  <2>1. /\ control' = control /\ life' = [life EXCEPT ![next_id] = "started"]
        /\ cpc' = [cpc EXCEPT ![c] = "started"]
        /\ rt_pc = "open" \/ rt_op = "shutdown"
    BY <1>1 DEF SpawnBegin, Borrowable
  <2> QED BY <1>0, <2>1 DEF PInv, Serving, Leaving
<1>2. ASSUME NEW a \in ActorId, Send(c, a) \/ DoSend(c, a)
      PROVE  PInv'
  <2>1. UNCHANGED <<control, life>> /\ (cpc' = cpc \/ cpc' = [cpc EXCEPT ![c] = "wait"])
    BY <1>2 DEF Send, DoSend
  <2> QED BY <1>0, <2>1 DEF PInv, Serving, Leaving
<1>3. CASE StartedSpawn(c)
  <2>1. UNCHANGED <<control, cpc>> /\ life' = [life EXCEPT ![next_id] = "live"]
    BY <1>3 DEF StartedSpawn, SpawnDirect
  <2> QED BY <1>0, <2>1 DEF PInv, Serving, Leaving
<1>4. CASE StartedPanic(c)
  BY <1>4 DEF StartedPanic, PoliteHooks
<1>5. CASE SpawnSend(c)
  <2> DEFINE a == carg[c]
             v == home[a]
  <2>1. a \in ActorId /\ v \in Worker /\ cpc[c] = "started"
    BY <1>5 DEF SpawnSend, RInv, CInv, CoreTypeOK, Allocated
  <2>2. CASE shutdowns # 0
    BY <1>0, <2>2 DEF PInv
  <2>3. CASE shutdowns = 0
    <3>1. rt_pc = "open" /\ Serving
      BY <2>1, <2>3 DEF PInv, Leaving
    <3>2. ~ Terminated(v)
      BY <2>1, <3>1 DEF Serving, Terminated
    <3>3. /\ control' = [control EXCEPT ![v] = Append(control[v], a)]
          /\ cpc' = [cpc EXCEPT ![c] = "confirm"] /\ life' = life
      BY <1>5, <3>2 DEF SpawnSend
    <3> HIDE DEF v, a
    <3>4. ASSUME NEW u \in Worker, NEW i \in DOMAIN control'[u]
          PROVE  control'[u][i] # Shutdown
      <4>1. CASE u = v
        <5>1. control'[u] = Append(control[v], a) /\ control[v] \in Seq(ActorId \cup {Shutdown})
          BY <1>0, <2>1, <3>3, <4>1
        <5>2. \/ i \in DOMAIN control[v] /\ control'[u][i] = control[v][i]
              \/ control'[u][i] = a
          BY <2>1, <3>4, <5>1, ChannelFacts
        <5> QED BY <2>1, <3>1, <5>2, IdFacts DEF Serving
      <4>2. CASE u # v
        <5>1. control'[u] = control[u]
          BY <1>0, <3>3, <4>2
        <5> QED BY <3>1, <3>4, <5>1 DEF Serving
      <4> QED BY <4>1, <4>2
    <3>5. Serving'
      BY <1>0, <3>1, <3>3, <3>4 DEF Serving
    <3> QED BY <1>0, <3>1, <3>3, <3>5 DEF PInv
  <2> QED BY <2>2, <2>3
<1>6. CASE SpawnReturn(c)
  <2>1. UNCHANGED <<control, life>> /\ cpc[c] = "confirm" /\ carg[c] \in ActorId
    BY <1>6 DEF SpawnReturn, RInv, CInv, Allocated
  <2>2. shutdowns = 0 => life[carg[c]] # "lost"
    BY <2>1 DEF PInv, Serving, Leaving
  <2>3. /\ shutdowns = 0 => cpc' = [cpc EXCEPT ![c] = "idle"]
        /\ cpc' \in [Client -> {"idle", "started", "confirm", "wait", "panicked"}]
    BY <1>0, <1>6, <2>2 DEF SpawnReturn
  <2> QED BY <1>0, <2>1, <2>3 DEF PInv, Serving, Leaving
<1>7. CASE SendReturn(c)
  <2>1. UNCHANGED <<control, life>> /\ cpc' = [cpc EXCEPT ![c] = "idle"]
    BY <1>7 DEF SendReturn
  <2> QED BY <1>0, <2>1 DEF PInv, Serving, Leaving
<1> QED BY <1>1, <1>2, <1>3, <1>4, <1>5, <1>6, <1>7 DEF ClientCall, ClientReturn

(* The steps of the owner, and those that matter to nobody. *)
LEMMA OwnerPInv ==
    ASSUME RInv, PInv,
           \/ OwnerStep \/ (\E op \in {"shutdown", "run", "drop"} : RuntimeCall(op))
           \/ (\E a \in ActorId : DropAddr(a)) \/ Finished \/ UNCHANGED vars
    PROVE  PInv'
<1> USE DEF chanVars, workerVars, spawnVars, msgVars, clientVars, rtVars
<1>1. UNCHANGED <<wpc, cpc, life>>
  BY DEF OwnerStep, SignalWorker, SignalDone, JoinWorker, JoinDone, RuntimeCall, DropAddr,
         Finished, vars
<1>2. ASSUME NEW op \in {"shutdown", "run", "drop"}, RuntimeCall(op)
      PROVE  PInv'
  BY <1>1, <1>2 DEF RuntimeCall, PInv, Leaving
<1>3. CASE OwnerStep
  <2>1. rt_pc # "open" /\ shutdowns' = shutdowns
    BY <1>3 DEF OwnerStep, SignalWorker, SignalDone, JoinWorker, JoinDone
  <2>2. rt_op # "shutdown" => rt_pc' # "open" /\ rt_op' # "shutdown"
    BY <1>3 DEF OwnerStep, SignalWorker, SignalDone, JoinWorker, JoinDone
  <2> QED BY <1>1, <2>1, <2>2 DEF PInv, Leaving
<1>4. CASE (\E a \in ActorId : DropAddr(a)) \/ Finished \/ UNCHANGED vars
  <2>1. UNCHANGED <<control, rt_pc, rt_op, shutdowns>>
    BY <1>4 DEF DropAddr, Finished, vars
  <2> QED BY <1>1, <2>1 DEF PInv, Serving, Leaving
<1> QED BY <1>2, <1>3, <1>4

LEMMA PoliteInvariant == PoliteHooks => (Spec => []PInv)
<1> SUFFICES ASSUME PoliteHooks PROVE Spec => []PInv
  OBVIOUS
<1>1. Init => PInv
  <2>1. Init => \A w \in Worker : DOMAIN control[w] = {}
    BY DEF Init
  <2> QED BY <2>1 DEF Init, PInv, Serving
<1>2. RInv /\ PInv /\ [Next]_vars => PInv'
  BY WorkerPInv, ClientPInv, OwnerPInv DEF Next
<1> QED BY <1>1, <1>2, RuntimeInvariant, PTL DEF Spec

(* The two expects of spawn_actor_remote fail only after Runtime::shutdown *)
(* was called, for every user code whose hooks do not panic: run and drop, *)
(* which need the Runtime for themselves, never make a spawn fail.         *)
THEOREM SpawnPanicsOnlyOnShutdownHolds == PoliteHooks => (Spec => []SpawnPanicsOnlyOnShutdown)
<1>1. PInv => SpawnPanicsOnlyOnShutdown
  BY DEF PInv, SpawnPanicsOnlyOnShutdown
<1> QED BY <1>1, PoliteInvariant, PTL

(* Until the owner calls shutdown, run or drop every worker thread runs,   *)
(* however many addresses are dropped, for every user code whose hooks do  *)
(* not panic (the loop of Worker::run).                                    *)
THEOREM ServesUntilShutdownHolds == PoliteHooks => (Spec => []ServesUntilShutdown)
<1>1. PInv => ServesUntilShutdown
  BY DEF PInv, Serving, Leaving, ServesUntilShutdown
<1> QED BY <1>1, PoliteInvariant, PTL

(* A worker's thread lasts exactly as long as the Runtime, if no hook      *)
(* panics: no worker leaves Worker::run before it is told, and run and     *)
(* drop return when all have.                                              *)
THEOREM WorkersLastHolds == PoliteHooks => (Spec => []WorkersLast)
<1>1. ServesUntilShutdown /\ JoinedAtEnd => WorkersLast
  BY DEF WorkersLast
<1> QED BY <1>1, ServesUntilShutdownHolds, JoinedAtEndHolds, PTL
-----------------------------------------------------------------------------

(* The part of TypeOK that is about messages. *)
MsgTypeOK ==
    /\ msgs \in [Worker -> Seq(Msg)]
    /\ env \in [Worker -> Msg \cup {None}]
    /\ sent \in 0 .. MaxMsg
    /\ target \in [Msg -> ActorId \cup {None}]
    /\ fate \in [Msg -> {"unsent", "queued", "handling", "done", "lost"}]

(* The ready queue of a worker is in order, with the actor in the worker's *)
(* hands left out, until stop_all_actors takes it apart.                   *)
SchedOK ==
    /\ DOMAIN sched = Worker
    /\ \A w \in Worker :
          /\ BoxesOK(sched[w], ActorId, Msg)
          /\ wpc[w] \notin {"stop_all", "stop_hook"} => QueueOK(sched[w], ActorId, cell[w])

(* Accepted messages are those of actors that were registered. *)
Registered(a) == a \in ActorId /\ life[a] \in {"live", "stopped"}
Accepted ==
    \A m \in Msg : IF m <= sent THEN fate[m] # "unsent" /\ Registered(target[m])
                                ELSE fate[m] = "unsent"

(* Queued messages are in the channel of the worker or in the mailbox of   *)
(* the actor, and nothing else is there.                                   *)
Box(w, a) == Mailbox(sched[w], a)
Placed ==
    /\ \A w \in Worker : \A m \in Range(msgs[w]) : fate[m] = "queued" /\ home[target[m]] = w
    /\ \A w \in Worker, a \in ActorId : \A m \in Range(Box(w, a)) :
          fate[m] = "queued" /\ target[m] = a /\ home[a] = w
    /\ \A m \in Msg : fate[m] = "queued" =>
          \/ m \in Range(msgs[home[target[m]]])
          \/ m \in Range(Box(home[target[m]], target[m]))

(* In channels and mailboxes messages are in the order in which they were  *)
(* accepted; what an actor has in its mailbox came before what it has in   *)
(* the channel.                                                            *)
Ordered ==
    /\ \A w \in Worker : Increasing(msgs[w])
    /\ \A w \in Worker, a \in ActorId : Increasing(Box(w, a))
    /\ \A w \in Worker, a \in ActorId : \A k \in Range(Box(w, a)), m \in Range(msgs[w]) :
          target[m] = a => k < m

(* A worker in a handler has the message in hand. *)
InHand ==
    /\ \A w \in Worker : wpc[w] = "handling" =>
          env[w] \in Msg /\ fate[env[w]] = "handling" /\ target[env[w]] = cell[w]
    /\ \A m \in Msg : fate[m] = "handling" => \E w \in Worker : wpc[w] = "handling" /\ env[w] = m

(* An actor that takes no more messages, and a lost message had such one. *)
Gone(a) ==
    \/ life[a] = "stopped"
    \/ Terminated(home[a])
    \/ cell[home[a]] = a /\ wpc[home[a]] # "handling"
LostIsGone == \A m \in Msg : fate[m] = "lost" => Gone(target[m])

MInv == MsgTypeOK /\ SchedOK /\ Accepted /\ Placed /\ Ordered /\ InHand /\ LostIsGone
-----------------------------------------------------------------------------
(* What every step keeps: an actor that was registered stays so, on its    *)
(* worker, and one that takes no more messages never takes one again.      *)
Keeps ==
    \A a \in ActorId : Registered(a) =>
        Registered(a)' /\ home'[a] = home[a] /\ (Gone(a) => Gone(a)')

(* It follows from how a step treats homes, lives, threads and cells. *)
LEMMA KeepsFrom ==
    ASSUME CInv,
           \A a \in ActorId : Registered(a) =>
              home'[a] = home[a] /\ life'[a] \in {life[a], "stopped"},
           \A w \in Worker : Terminated(w) => Terminated(w)',
           \A w \in Worker : cell[w] # None /\ wpc[w] # "handling" =>
              \/ cell'[w] = cell[w] /\ wpc'[w] # "handling"
              \/ life'[cell[w]] = "stopped"
              \/ Terminated(w)'
    PROVE  Keeps
<1> SUFFICES ASSUME NEW a \in ActorId, Registered(a)
             PROVE  Registered(a)' /\ home'[a] = home[a] /\ (Gone(a) => Gone(a)')
  BY DEF Keeps
<1>1. Registered(a)' /\ home'[a] = home[a] /\ (life[a] = "stopped" => life'[a] = "stopped")
  BY DEF Registered
<1>2. home[a] \in Worker /\ a # None
  BY IdFacts DEF CInv, CoreTypeOK
<1>3. ASSUME Gone(a) PROVE Gone(a)'
  BY <1>1, <1>2, <1>3 DEF Gone
<1> QED BY <1>1, <1>3

(* Steps that leave the cells and the workers' places alone. *)
LEMMA KeepsQuiet ==
    ASSUME CInv, UNCHANGED <<wpc, cell>>,
           \A a \in ActorId : Registered(a) =>
              home'[a] = home[a] /\ life'[a] \in {life[a], "stopped"}
    PROVE  Keeps
BY KeepsFrom DEF Terminated

LEMMA WorkerKeeps ==
    ASSUME CInv, NEW w \in Worker, WorkerStep(w)
    PROVE  Keeps
<1> USE DEF chanVars, workerVars, spawnVars, msgVars, clientVars
<1>0. wpc \in [Worker -> WorkerPc] /\ cell \in [Worker -> ActorId \cup {None}]
      /\ home \in [ActorId -> Worker]
      /\ life \in [ActorId -> {"none", "started", "live", "stopped", "lost"}]
      /\ \A u \in Worker : cell[u] # None <=> wpc[u] \in {"handling", "on_stop", "stop_hook"}
  BY DEF CInv, CoreTypeOK, CellHeld
<1>t. \A u \in Worker : Terminated(u) => Terminated(u)'
  <2>1. [Next]_vars
    BY DEF Next
  <2> QED BY <2>1, TerminatedForGood
<1>1. CASE RecvSpawn(w)
  <2> DEFINE b == Head(control[w])
  <2>1. b \in ActorId /\ life[b] = "started"
    <3>1. control[w] \in Seq(ActorId \cup {Shutdown}) /\ control[w] # <<>> /\ b # Shutdown
      BY <1>1 DEF RecvSpawn, CInv, CoreTypeOK
    <3>2. b = control[w][1] /\ 1 \in DOMAIN control[w] /\ b \in ActorId \cup {Shutdown}
      BY <3>1, ChannelFacts, HeadTailProperties
    <3> QED BY <3>1, <3>2 DEF CInv, PendingOnce
  <2>2. UNCHANGED <<wpc, cell, home>> /\ life' = [life EXCEPT ![b] = "live"]
    BY <1>1 DEF RecvSpawn
  <2> HIDE DEF b
  <2> QED BY <1>0, <2>1, <2>2, KeepsQuiet DEF Registered
<1>2. CASE ContextSpawn(w)
  <2>1. UNCHANGED <<wpc, cell>> /\ home' = [home EXCEPT ![next_id] = w]
        /\ life' = [life EXCEPT ![next_id] = "live"] /\ next_id \in ActorId
        /\ life[next_id] = "none"
    BY <1>2, IdFacts DEF ContextSpawn, SpawnDirect, CInv, CoreTypeOK, Allocated
  <2> QED BY <1>0, <2>1, KeepsQuiet DEF Registered
<1>3. CASE StoppedReturn(w)
  <2>1. /\ home' = home /\ cell[w] \in ActorId
        /\ life' = [life EXCEPT ![cell[w]] = "stopped"]
        /\ \A u \in Worker : u # w => cell'[u] = cell[u] /\ wpc'[u] = wpc[u]
    BY <1>0, <1>3 DEF StoppedReturn, Goto
  <2>2. /\ \A a \in ActorId : life'[a] \in {life[a], "stopped"}
        /\ life'[cell[w]] = "stopped"
    BY <1>0, <2>1
  <2>3. \A u \in Worker : cell[u] # None /\ wpc[u] # "handling" =>
              \/ cell'[u] = cell[u] /\ wpc'[u] # "handling"
              \/ life'[cell[u]] = "stopped"
    BY <2>1, <2>2
  <2> QED BY <1>t, <2>1, <2>2, <2>3, KeepsFrom
<1>4. CASE Exit(w) \/ StoppedPanic(w)
  <2>1. /\ home' = home
        /\ \A u \in Worker : u # w => cell'[u] = cell[u] /\ wpc'[u] = wpc[u]
        /\ Terminated(w)'
    BY <1>0, <1>4 DEF Exit, StoppedPanic, ThreadEnds, Goto, Terminated
  <2>2. \A a \in ActorId : a \in Range(control[w]) => life[a] = "started"
    BY IdFacts DEF CInv, PendingOnce, Range
  <2>3. \A a \in ActorId : Registered(a) => life'[a] \in {life[a], "stopped"}
    BY <1>4, <2>2 DEF Exit, StoppedPanic, Registered
  <2> QED BY <1>t, <2>1, <2>3, KeepsFrom
<1>5. ASSUME NEW a \in ActorId, StopNext(w, a)
      PROVE  Keeps
  <2>1. /\ home' = home /\ life' = life /\ cell[w] = None
        /\ \A u \in Worker : u # w => cell'[u] = cell[u] /\ wpc'[u] = wpc[u]
    BY <1>0, <1>5 DEF StopNext, Goto
  <2> QED BY <1>t, <2>1, KeepsFrom
<1>6. ASSUME \/ RecvShutdown(w) \/ ControlEmpty(w) \/ TakeEnvelope(w) \/ GoIdle(w)
             \/ IdleTimeout(w) \/ Dispatch(w)
      PROVE  Keeps
  <2>1. /\ home' = home /\ life' = life /\ cell[w] = None
        /\ \A u \in Worker : u # w => cell'[u] = cell[u] /\ wpc'[u] = wpc[u]
    BY <1>0, <1>6 DEF RecvShutdown, ControlEmpty, TakeEnvelope, GoIdle, IdleTimeout, Dispatch, Goto
  <2> QED BY <1>t, <2>1, KeepsFrom
<1>7. ASSUME NEW o \in {"done", "lost"}, HandlerReturn(w) \/ HandlerEnds(w, o)
      PROVE  Keeps
  <2>1. /\ home' = home /\ life' = life /\ wpc[w] = "handling"
        /\ \A u \in Worker : u # w => cell'[u] = cell[u] /\ wpc'[u] = wpc[u]
    BY <1>0, <1>7 DEF HandlerReturn, HandlerEnds, Goto
  <2> QED BY <1>t, <2>1, KeepsFrom
<1>8. ASSUME NEW a \in ActorId, ContextNotify(w, a)
      PROVE  Keeps
  BY <1>8, KeepsQuiet DEF ContextNotify
<1> QED BY <1>1, <1>2, <1>3, <1>4, <1>5, <1>6, <1>7, <1>8 DEF WorkerStep

LEMMA StepKeeps ==
    ASSUME CInv, [Next]_vars
    PROVE  Keeps
<1> USE DEF chanVars, workerVars, spawnVars, msgVars, clientVars
<1>0. /\ home \in [ActorId -> Worker]
      /\ life \in [ActorId -> {"none", "started", "live", "stopped", "lost"}]
  BY DEF CInv, CoreTypeOK
<1>1. ASSUME NEW w \in Worker, WorkerStep(w)
      PROVE  Keeps
  BY <1>1, WorkerKeeps
<1>2. ASSUME NEW c \in Client, SpawnBegin(c) \/ StartedSpawn(c)
      PROVE  Keeps
  <2>1. /\ UNCHANGED <<wpc, cell>> /\ next_id \in ActorId /\ life[next_id] = "none"
        /\ \A a \in ActorId : a # next_id => home'[a] = home[a] /\ life'[a] = life[a]
    BY <1>0, <1>2, IdFacts DEF SpawnBegin, StartedSpawn, SpawnDirect, CInv, CoreTypeOK, Allocated
  <2> QED BY <2>1, KeepsQuiet DEF Registered
<1>3. ASSUME NEW c \in Client, StartedPanic(c) \/ SpawnSend(c)
      PROVE  Keeps
  <2>1. /\ UNCHANGED <<wpc, cell, home>> /\ carg[c] \in ActorId /\ life[carg[c]] = "started"
        /\ \A a \in ActorId : a # carg[c] => life'[a] = life[a]
    BY <1>0, <1>3 DEF StartedPanic, SpawnSend, CInv, Allocated
  <2> QED BY <2>1, KeepsQuiet DEF Registered
<1>4. ASSUME UNCHANGED <<wpc, cell, home, life>>
      PROVE  Keeps
  BY <1>4, KeepsQuiet
<1>5. ASSUME NEW c \in Client, NEW a \in ActorId,
             Send(c, a) \/ DoSend(c, a)
      PROVE  Keeps
  BY <1>4, <1>5 DEF Send, DoSend
<1>6. ASSUME \/ OwnerStep \/ (\E op \in {"shutdown", "run", "drop"} : RuntimeCall(op))
             \/ (\E a \in ActorId : DropAddr(a)) \/ Finished \/ UNCHANGED vars
      PROVE  Keeps
  BY <1>4, <1>6 DEF OwnerStep, SignalWorker, SignalDone, JoinWorker, JoinDone, RuntimeCall,
                    DropAddr, Finished, vars
<1>7. ASSUME NEW c \in Client, ClientCall(c) \/ ClientReturn(c)
      PROVE  Keeps
  <2>1. CASE SpawnReturn(c) \/ SendReturn(c)
    BY <1>4, <2>1 DEF SpawnReturn, SendReturn
  <2> QED BY <1>2, <1>3, <1>5, <1>7, <2>1 DEF ClientCall, ClientReturn
<1> QED BY <1>1, <1>6, <1>7 DEF Next
-----------------------------------------------------------------------------
(* No message is number 0. *)
LEMMA MsgFacts == Msg \subseteq Nat /\ None \notin Msg
BY BoundAssumption DEF Msg, None

LEMMA InitMInv == Init => MInv
<1> SUFFICES ASSUME Init PROVE MInv
  OBVIOUS
<1>1. \A w \in Worker : msgs[w] = <<>> /\ sched[w] = New /\ wpc[w] = "control"
  BY DEF Init
<1>2. /\ \A w \in Worker : Range(msgs[w]) = {} /\ Increasing(msgs[w])
      /\ \A w \in Worker, a \in ActorId : Range(Box(w, a)) = {} /\ Increasing(Box(w, a))
  BY <1>1, NewFacts, EmptyIncreasing DEF Box
<1>3. MsgTypeOK
  BY BoundAssumption DEF Init, MsgTypeOK
<1>4. SchedOK
  BY <1>1, NewFacts DEF Init, SchedOK
<1>5. Accepted
  BY BoundAssumption DEF Init, Accepted, Msg
<1>6. Placed /\ Ordered
  BY <1>2 DEF Init, Placed, Ordered
<1>7. InHand /\ LostIsGone
  BY DEF Init, InHand, LostIsGone
<1> QED BY <1>3, <1>4, <1>5, <1>6, <1>7 DEF MInv

(* Messages keep their targets, and what was accepted stays accepted. *)
LEMMA AcceptedKept ==
    ASSUME MInv, Keeps, UNCHANGED <<sent, target>>,
           \A m \in Msg : fate'[m] = "unsent" <=> fate[m] = "unsent"
    PROVE  Accepted'
<1>1. \A m \in Msg : Registered(target[m]) => Registered(target[m])'
  BY DEF Keeps, Registered
<1>2. \A m \in Msg : target'[m] = target[m]
  OBVIOUS
<1> QED BY <1>1, <1>2 DEF MInv, Accepted, Registered

(* A message is lost now only if its actor is gone. *)
LEMMA LostKept ==
    ASSUME MInv, Keeps, target' = target, fate' \in [Msg -> {"unsent", "queued", "handling", "done", "lost"}],
           \A m \in Msg : fate'[m] = "lost" => fate[m] = "lost" \/ Gone(target[m])'
    PROVE  LostIsGone'
<1> SUFFICES ASSUME NEW m \in Msg, fate'[m] = "lost"
             PROVE  Gone(target[m])'
  BY DEF LostIsGone
<1>1. CASE fate[m] = "lost"
  <2>1. Gone(target[m]) /\ Registered(target[m])
    BY <1>1 DEF MInv, LostIsGone, Accepted
  <2>2. target[m] \in ActorId
    BY <2>1 DEF Registered
  <2>3. PICK a \in ActorId : a = target[m]
    BY <2>2
  <2>4. Gone(a)'
    BY <2>1, <2>3 DEF Keeps
  <2> QED BY <2>3, <2>4 DEF Gone
<1> QED BY <1>1

(* Steps in which nothing joins a channel or a mailbox: what is left there *)
(* was there, in that order, and is still queued.                          *)
LEMMA OnlyLeaves ==
    ASSUME MInv, Keeps, target' = target,
           \A w \in Worker :
              Increasing(msgs'[w]) /\ \A m \in Range(msgs'[w]) : m \in Range(msgs[w]) /\ fate'[m] = "queued",
           \A w \in Worker, a \in ActorId :
              Increasing(Box(w, a)') /\ \A m \in Range(Box(w, a)') : m \in Range(Box(w, a)) /\ fate'[m] = "queued",
           \A m \in Msg : fate'[m] = "queued" => 
              /\ fate[m] = "queued"
              /\ m \in Range(msgs[home[target[m]]]) => m \in Range(msgs'[home[target[m]]])
              /\ \A a \in ActorId : m \in Range(Box(home[a], a)) => m \in Range(Mailbox(sched'[home[a]], a))
    PROVE  Placed' /\ Ordered'
<1>0. \A m \in Msg : fate[m] = "queued" => target[m] \in ActorId /\ home'[target[m]] = home[target[m]]
  BY DEF MInv, Accepted, Registered, Keeps
<1>1. \A w \in Worker : \A m \in Range(msgs'[w]) : m \in Msg /\ fate[m] = "queued" /\ home[target[m]] = w
  <2>1. \A w \in Worker : Range(msgs[w]) \subseteq Msg
    BY RangeOfSeq DEF MInv, MsgTypeOK
  <2> QED BY <2>1 DEF MInv, Placed
<1>2. \A w \in Worker, a \in ActorId : \A m \in Range(Box(w, a)') :
         m \in Msg /\ fate[m] = "queued" /\ target[m] = a /\ home[a] = w
  <2>1. \A w \in Worker, a \in ActorId : Box(w, a) \in Seq(Msg)
    BY MailboxFacts DEF MInv, SchedOK, Box
  <2>2. \A w \in Worker, a \in ActorId : Range(Box(w, a)) \subseteq Msg
    BY <2>1, RangeOfSeq
  <2> QED BY <2>2 DEF MInv, Placed
<1>3. Placed'
  <2>1. ASSUME NEW m \in Msg, fate'[m] = "queued"
        PROVE  \/ m \in Range(msgs'[home[target[m]]])
               \/ m \in Range(Mailbox(sched'[home[target[m]]], target[m]))
    <3>1. fate[m] = "queued" /\ target[m] \in ActorId
      BY <1>0, <2>1
    <3>2. \/ m \in Range(msgs[home[target[m]]])
          \/ m \in Range(Box(home[target[m]], target[m]))
      BY <3>1 DEF MInv, Placed
    <3> QED BY <2>1, <3>1, <3>2
  <2>2. \A m \in Msg : fate'[m] = "queued" => home'[target'[m]] = home[target[m]]
    BY <1>0
  <2> QED BY <1>0, <1>1, <1>2, <2>1, <2>2 DEF Placed, Box
<1>4. Ordered'
  BY DEF MInv, Ordered
<1> QED BY <1>3, <1>4
-----------------------------------------------------------------------------
(* Steps that move no message. *)
LEMMA QuietMInv ==
    ASSUME MInv, Keeps, UNCHANGED <<msgs, sched, env, sent, target, fate>>,
           \A w \in Worker :
              /\ wpc'[w] = "handling" <=> wpc[w] = "handling"
              /\ wpc[w] = "handling" => cell'[w] = cell[w]
              /\ \/ wpc'[w] \in {"stop_all", "stop_hook"}
                 \/ wpc[w] \notin {"stop_all", "stop_hook"} /\ cell'[w] = cell[w]
    PROVE  MInv'
<1>1. MsgTypeOK' /\ SchedOK'
  BY DEF MInv, MsgTypeOK, SchedOK
<1>2. Accepted'
  BY AcceptedKept
<1>3. Placed' /\ Ordered'
  <2>1. \A w \in Worker : Increasing(msgs[w]) /\ \A m \in Range(msgs[w]) : fate[m] = "queued"
    BY DEF MInv, Placed, Ordered
  <2>2. \A w \in Worker, a \in ActorId :
            Increasing(Box(w, a)) /\ \A m \in Range(Box(w, a)) : fate[m] = "queued"
    BY DEF MInv, Placed, Ordered
  <2>3. \A w \in Worker, a \in ActorId : Box(w, a)' = Box(w, a)
    BY DEF Box
  <2> QED BY <2>1, <2>2, <2>3, OnlyLeaves DEF Box
<1>4. InHand'
  BY DEF MInv, InHand
<1>5. LostIsGone'
  BY LostKept DEF MInv, MsgTypeOK
<1> QED BY <1>1, <1>2, <1>3, <1>4, <1>5 DEF MInv

(* A message is accepted: it is the last of its channel. *)
LEMMA PostMInv ==
    ASSUME MInv, CInv, Keeps, NEW a \in known, Post(a),
           UNCHANGED <<sched, env, wpc, cell, home, life>>
    PROVE  MInv'
<1> DEFINE n == sent + 1
           v == home[a]
<1>1. /\ n \in Msg /\ sent \in Nat /\ n \in Nat /\ sent' = n
      /\ target' = [target EXCEPT ![n] = a]
      /\ fate' = [fate EXCEPT ![n] = "queued"]
      /\ msgs' = [msgs EXCEPT ![v] = Append(@, n)]
      /\ \A m \in Msg : m \in Nat /\ (m <= sent => m < n) /\ (m <= n => m <= sent \/ m = n)
  BY BoundAssumption, MsgFacts DEF Post, MInv, MsgTypeOK, Msg
<1>2. a \in ActorId /\ v \in Worker /\ Registered(a) /\ fate[n] = "unsent"
  BY <1>1 DEF CInv, CoreTypeOK, AddressedAreRegistered, Registered, MInv, Accepted
<1>3. \A m \in Msg : fate[m] # "unsent" => m <= sent /\ m # n /\ m < n
  BY <1>1 DEF MInv, Accepted
<1>d. n = sent + 1 /\ v = home[a]
  OBVIOUS
<1> HIDE DEF n, v
<1>4. /\ fate'[n] = "queued" /\ target'[n] = a
      /\ \A m \in Msg : m # n => fate'[m] = fate[m] /\ target'[m] = target[m]
  BY <1>1 DEF MInv, MsgTypeOK
<1>5. /\ msgs[v] \in Seq(Msg) /\ msgs'[v] = Append(msgs[v], n)
      /\ msgs'[v] \in Seq(Msg) /\ Range(msgs'[v]) = Range(msgs[v]) \cup {n}
      /\ \A w \in Worker : w # v => msgs'[w] = msgs[w]
  BY <1>1, <1>2, AppendRange DEF MInv, MsgTypeOK
<1>6. \A w \in Worker : Range(msgs[w]) \subseteq Msg
  BY RangeOfSeq DEF MInv, MsgTypeOK
<1>7. \A w \in Worker, b \in ActorId : Range(Box(w, b)) \subseteq Msg
  <2>1. \A w \in Worker, b \in ActorId : Box(w, b) \in Seq(Msg)
    BY MailboxFacts DEF MInv, SchedOK, Box
  <2> QED BY <2>1, RangeOfSeq
<1>8. /\ \A w \in Worker : \A m \in Range(msgs[w]) : fate[m] = "queued" /\ m # n /\ m < n
      /\ \A w \in Worker, b \in ActorId : \A m \in Range(Box(w, b)) : fate[m] = "queued" /\ m # n /\ m < n
  BY <1>3, <1>6, <1>7 DEF MInv, Placed
<1>9. \A w \in Worker, b \in ActorId : Box(w, b)' = Box(w, b)
  BY DEF Box
<1>r. \A w \in Worker : \A m \in Range(msgs'[w]) :
         \/ m \in Range(msgs[w]) /\ m \in Msg /\ m # n /\ target'[m] = target[m] /\ fate'[m] = "queued"
         \/ w = v /\ m = n
  BY <1>4, <1>5, <1>6, <1>8
<1>10. MsgTypeOK'
  <2>1. sent' \in 0 .. MaxMsg
    BY <1>1 DEF Msg
  <2> QED BY <1>1, <1>2, <1>5, <2>1 DEF MInv, MsgTypeOK
<1>11. SchedOK' /\ InHand'
  <2>1. SchedOK'
    BY DEF MInv, SchedOK
  <2>2. \A m \in Msg : fate'[m] = "handling" <=> fate[m] = "handling"
    BY <1>2, <1>4
  <2>3. \A m \in Msg : fate[m] = "handling" => target'[m] = target[m]
    BY <1>2, <1>4
  <2>4. InHand'
    BY <2>2, <2>3 DEF MInv, InHand
  <2> QED BY <2>1, <2>4
<1>12. Accepted'
  <2>1. \A m \in Msg : m # n => (m <= sent' <=> m <= sent)
    BY <1>1, MsgFacts
  <2> QED BY <1>1, <1>2, <1>4, <2>1 DEF MInv, Accepted, Registered
<1>13. Placed'
  <2>1. \A w \in Worker : \A m \in Range(msgs'[w]) : fate'[m] = "queued" /\ home'[target'[m]] = w
    BY <1>2, <1>4, <1>d, <1>r DEF MInv, Placed
  <2>2. \A w \in Worker, b \in ActorId : \A m \in Range(Box(w, b)) :
           fate'[m] = "queued" /\ target'[m] = b /\ home'[b] = w
    BY <1>4, <1>7, <1>8 DEF MInv, Placed
  <2>3. ASSUME NEW m \in Msg, fate'[m] = "queued"
        PROVE  \/ m \in Range(msgs'[home[target'[m]]])
               \/ m \in Range(Box(home[target'[m]], target'[m]))
    <3>1. CASE m = n
      BY <1>2, <1>4, <1>5, <1>d, <3>1
    <3>2. CASE m # n
      <4>1. fate[m] = "queued" /\ target'[m] = target[m] /\ target[m] \in ActorId
        BY <1>4, <2>3, <3>2 DEF MInv, Accepted, Registered
      <4>2. \/ m \in Range(msgs[home[target[m]]]) \/ m \in Range(Box(home[target[m]], target[m]))
        BY <4>1 DEF MInv, Placed
      <4>3. home[target[m]] \in Worker
        BY <4>1 DEF CInv, CoreTypeOK
      <4> QED BY <1>5, <4>1, <4>2, <4>3
    <3> QED BY <3>1, <3>2
  <2> QED BY <1>9, <2>1, <2>2, <2>3 DEF Placed, Box
<1>14. Ordered'
  <2>1. \A w \in Worker : Increasing(msgs'[w])
    <3>1. Increasing(msgs'[v])
      BY <1>1, <1>2, <1>5, <1>8, MsgFacts, AppendIncreasing DEF MInv, Ordered
    <3> QED BY <1>5, <3>1 DEF MInv, Ordered
  <2>2. \A w \in Worker, b \in ActorId : \A k \in Range(Box(w, b)), m \in Range(msgs'[w]) :
           target'[m] = b => k < m
    BY <1>8, <1>r DEF MInv, Ordered
  <2> QED BY <1>9, <2>1, <2>2 DEF MInv, Ordered
<1>15. LostIsGone'
  BY <1>2, <1>4 DEF MInv, LostIsGone, Gone, Terminated
<1> QED BY <1>10, <1>11, <1>12, <1>13, <1>14, <1>15 DEF MInv
-----------------------------------------------------------------------------
(* Steps that leave channels and mailboxes as they are. *)
LEMMA SamePlaces ==
    ASSUME CInv, MInv, Keeps, UNCHANGED <<msgs, target>>,
           \A w \in Worker, a \in ActorId : Mailbox(sched'[w], a) = Mailbox(sched[w], a),
           \A m \in Msg : fate'[m] = "queued" <=> fate[m] = "queued"
    PROVE  Placed' /\ Ordered'
<1>1. \A w \in Worker, a \in ActorId : Box(w, a)' = Box(w, a)
  BY DEF Box
<1>2. /\ \A w \in Worker : Range(msgs[w]) \subseteq Msg
      /\ \A w \in Worker, a \in ActorId : Range(Box(w, a)) \subseteq Msg
  <2>1. \A w \in Worker, a \in ActorId : Box(w, a) \in Seq(Msg)
    BY MailboxFacts DEF MInv, SchedOK, Box
  <2> QED BY <2>1, RangeOfSeq DEF MInv, MsgTypeOK
<1>3. \A m \in Msg : fate[m] = "queued" => target[m] \in ActorId /\ home'[target[m]] = home[target[m]]
  BY DEF MInv, Accepted, Registered, Keeps
<1>4. Ordered'
  BY <1>1 DEF MInv, Ordered
<1>5. Placed'
  <2>1. \A m \in Msg : fate[m] = "queued" =>
            \/ m \in Range(msgs'[home[target[m]]])
            \/ m \in Range(Mailbox(sched'[home[target[m]]], target[m]))
    <3> SUFFICES ASSUME NEW m \in Msg, fate[m] = "queued"
                 PROVE  \/ m \in Range(msgs'[home[target[m]]])
                        \/ m \in Range(Mailbox(sched'[home[target[m]]], target[m]))
      OBVIOUS
    <3>1. target[m] \in ActorId /\ home[target[m]] \in Worker
      BY <1>3 DEF CInv, CoreTypeOK
    <3> QED BY <3>1 DEF MInv, Placed, Box
  <2> QED BY <1>1, <1>2, <1>3, <2>1 DEF MInv, Placed, Box
<1> QED BY <1>4, <1>5

(* The message a worker has in hand is in no other worker's hands. *)
LEMMA OneHand ==
    ASSUME CInv, MInv, NEW w \in Worker, NEW u \in Worker,
           wpc[w] = "handling", wpc[u] = "handling", env[u] = env[w]
    PROVE  u = w
<1>1. target[env[w]] = cell[w] /\ target[env[u]] = cell[u]
  BY DEF MInv, InHand
<1>2. home[cell[w]] = w /\ home[cell[u]] = u
  BY DEF CInv, CellHeld
<1> QED BY <1>1, <1>2

(* recv on the message channel: the first message of the channel becomes   *)
(* the last of its actor's mailbox.                                        *)
LEMMA TakeEnvelopeMInv ==
    ASSUME CInv, MInv, Keeps, NEW w \in Worker, TakeEnvelope(w)
    PROVE  MInv'
<1> USE DEF chanVars, workerVars, spawnVars, msgVars, clientVars
<1>m. PICK m : m = Head(msgs[w])
  OBVIOUS
<1>a. PICK a : a = target[m]
  OBVIOUS
<1>1. /\ wpc[w] \in {"drain", "idle"} /\ msgs[w] \in Seq(Msg) /\ msgs[w] # <<>>
      /\ msgs' = [msgs EXCEPT ![w] = Tail(@)]
      /\ sched' = [sched EXCEPT ![w] = Enqueue(@, a, m)]
      /\ wpc' = [wpc EXCEPT ![w] = IF wpc[w] = "idle" THEN "control" ELSE "drain"]
      /\ UNCHANGED <<env, cell, home, life, sent, target, fate>>
  BY <1>m, <1>a DEF TakeEnvelope, Goto, MInv, MsgTypeOK
<1>2. /\ m \in Msg /\ m \in Range(msgs[w]) /\ Tail(msgs[w]) \in Seq(Msg)
      /\ Range(Tail(msgs[w])) = Range(msgs[w]) \ {m} /\ Increasing(Tail(msgs[w]))
      /\ \A x \in Range(msgs[w]) : x # m => m < x
  BY <1>m, <1>1, MsgFacts, TailIncreasing DEF MInv, Ordered
<1>3. fate[m] = "queued" /\ a \in ActorId /\ home[a] = w
  BY <1>a, <1>2 DEF MInv, Placed, Accepted, Registered
<1>4. cell[w] = None /\ a # None
  BY <1>1, <1>3, IdFacts DEF CInv, CellHeld
<1>5. /\ msgs'[w] = Tail(msgs[w]) /\ \A u \in Worker : u # w => msgs'[u] = msgs[u]
      /\ sched'[w] = Enqueue(sched[w], a, m) /\ \A u \in Worker : u # w => sched'[u] = sched[u]
      /\ wpc'[w] \in {"control", "drain"} /\ \A u \in Worker : u # w => wpc'[u] = wpc[u]
      /\ DOMAIN sched' = Worker
  BY <1>1 DEF MInv, MsgTypeOK, SchedOK, CInv, CoreTypeOK
<1>6. /\ BoxesOK(sched'[w], ActorId, Msg) /\ QueueOK(sched'[w], ActorId, None)
      /\ OneBoxChanged(sched[w], sched'[w], a, Append(Box(w, a), m))
  <2>1. BoxesOK(sched[w], ActorId, Msg) /\ QueueOK(sched[w], ActorId, None)
    BY <1>1, <1>4 DEF MInv, SchedOK
  <2> QED BY <1>2, <1>3, <1>4, <1>5, <2>1, EnqueueFacts DEF Box
<1>7. /\ Box(w, a)' = Append(Box(w, a), m)
      /\ \A u \in Worker, b \in ActorId : u # w \/ b # a => Box(u, b)' = Box(u, b)
  BY <1>3, <1>5, <1>6 DEF Box, OneBoxChanged
<1>8. Box(w, a) \in Seq(Msg) /\ Range(Box(w, a)') = Range(Box(w, a)) \cup {m}
  <2>1. Box(w, a) \in Seq(Msg)
    BY <1>3, MailboxFacts DEF MInv, SchedOK, Box
  <2> QED BY <1>2, <1>7, <2>1, AppendRange
<1>9. MsgTypeOK'
  BY <1>1, <1>2 DEF MInv, MsgTypeOK
<1>10. SchedOK'
  BY <1>1, <1>4, <1>5, <1>6 DEF MInv, SchedOK
<1>11. Accepted' /\ LostIsGone'
  BY <1>1, AcceptedKept, LostKept DEF MInv, MsgTypeOK
<1>12. InHand'
  BY <1>1, <1>5 DEF MInv, InHand
<1>b. \A u \in Worker, b \in ActorId : \A x \in Range(Box(u, b)') :
         x \in Range(Box(u, b)) \/ (x = m /\ u = w /\ b = a)
  BY <1>7, <1>8
<1>13. Placed'
  <2>1. \A u \in Worker : \A x \in Range(msgs'[u]) : fate[x] = "queued" /\ home[target[x]] = u
    BY <1>2, <1>5 DEF MInv, Placed
  <2>2. \A u \in Worker, b \in ActorId : \A x \in Range(Box(u, b)') :
            fate[x] = "queued" /\ target[x] = b /\ home[b] = u
    BY <1>3, <1>a, <1>b DEF MInv, Placed
  <2>3. ASSUME NEW x \in Msg, fate[x] = "queued"
        PROVE  \/ x \in Range(msgs'[home[target[x]]])
               \/ x \in Range(Mailbox(sched'[home[target[x]]], target[x]))
    <3>1. PICK b \in ActorId, u \in Worker : b = target[x] /\ u = home[b]
      BY <2>3 DEF MInv, Accepted, Registered, CInv, CoreTypeOK
    <3>2. x \in Range(msgs[u]) \/ x \in Range(Box(u, b))
      BY <2>3, <3>1 DEF MInv, Placed
    <3>3. x \in Range(msgs'[u]) \/ x \in Range(Box(u, b)')
      <4>1. CASE x = m
        BY <1>3, <1>8, <1>a, <3>1, <4>1
      <4>2. CASE x # m /\ x \in Range(msgs[u])
        BY <1>2, <1>5, <4>2
      <4>3. CASE x \in Range(Box(u, b))
        BY <1>7, <1>8, <4>3
      <4> QED BY <3>2, <4>1, <4>2, <4>3
    <3> QED BY <3>1, <3>3 DEF Box
  <2> QED BY <1>1, <2>1, <2>2, <2>3 DEF Placed, Box
<1>14. Ordered'
  <2>1. \A u \in Worker : Increasing(msgs'[u])
    BY <1>2, <1>5 DEF MInv, Ordered
  <2>2. Increasing(Box(w, a)')
    <3>1. \A k \in Range(Box(w, a)) : k < m
      BY <1>2, <1>3, <1>a DEF MInv, Ordered
    <3> QED BY <1>2, <1>3, <1>7, <1>8, <3>1, MsgFacts, AppendIncreasing DEF MInv, Ordered
  <2>3. \A u \in Worker, b \in ActorId : Increasing(Box(u, b)')
    BY <1>7, <2>2 DEF MInv, Ordered
  <2>4. ASSUME NEW u \in Worker, NEW b \in ActorId, NEW k \in Range(Box(u, b)'),
               NEW x \in Range(msgs'[u]), target[x] = b
        PROVE  k < x
    <3>1. x \in Range(msgs[u]) /\ (u = w => x # m)
      BY <1>2, <1>5
    <3>2. CASE k \in Range(Box(u, b))
      BY <2>4, <3>1, <3>2 DEF MInv, Ordered
    <3>3. CASE k = m /\ u = w
      BY <1>2, <3>1, <3>3
    <3> QED BY <1>b, <3>2, <3>3
  <2> QED BY <1>1, <2>1, <2>3, <2>4 DEF Ordered
<1> QED BY <1>9, <1>10, <1>11, <1>12, <1>13, <1>14 DEF MInv
-----------------------------------------------------------------------------
(* Nobody is ready. *)
LEMMA GoIdleMInv ==
    ASSUME CInv, MInv, Keeps, NEW w \in Worker, GoIdle(w)
    PROVE  MInv'
<1> USE DEF chanVars, workerVars, spawnVars, msgVars, clientVars
<1>1. /\ wpc[w] = "drain" /\ ~ SomeReady(sched[w])
      /\ sched' = [sched EXCEPT ![w] = AfterNextReady(@)]
      /\ wpc' = [wpc EXCEPT ![w] = "idle"]
      /\ UNCHANGED <<msgs, env, cell, sent, target, fate>>
  BY DEF GoIdle, Goto
<1>2. cell[w] = None
  BY <1>1 DEF CInv, CellHeld
<1>3. /\ sched'[w] = AfterNextReady(sched[w]) /\ \A u \in Worker : u # w => sched'[u] = sched[u]
      /\ wpc'[w] = "idle" /\ \A u \in Worker : u # w => wpc'[u] = wpc[u]
      /\ DOMAIN sched' = Worker
  BY <1>1 DEF MInv, SchedOK, CInv, CoreTypeOK
<1>4. /\ BoxesOK(sched'[w], ActorId, Msg) /\ QueueOK(sched'[w], ActorId, None)
      /\ SameBoxes(sched[w], sched'[w])
  <2>1. BoxesOK(sched[w], ActorId, Msg) /\ QueueOK(sched[w], ActorId, None)
    BY <1>1, <1>2 DEF MInv, SchedOK
  <2> QED BY <1>1, <1>3, <2>1, IdFacts, NobodyReadyFacts
<1>5. SchedOK'
  BY <1>1, <1>2, <1>3, <1>4 DEF MInv, SchedOK
<1>6. Placed' /\ Ordered'
  <2>1. \A u \in Worker, a \in ActorId : Mailbox(sched'[u], a) = Mailbox(sched[u], a)
    BY <1>3, <1>4 DEF SameBoxes
  <2> QED BY <1>1, <2>1, SamePlaces
<1>7. MsgTypeOK' /\ Accepted' /\ LostIsGone'
  BY <1>1, AcceptedKept, LostKept DEF MInv, MsgTypeOK
<1>8. InHand'
  BY <1>1, <1>3 DEF MInv, InHand
<1> QED BY <1>5, <1>6, <1>7, <1>8 DEF MInv

(* next_ready and dequeue: the actor, its message, and the scheduler. *)
LEMMA NextMessage ==
    ASSUME CInv, MInv, NEW w \in Worker, wpc[w] = "drain", SomeReady(sched[w]),
           NEW a, a = NextReady(sched[w]),
           NEW m, m = Dequeued(sched[w], a),
           NEW t, t = Dequeue(AfterNextReady(sched[w]), a)
    PROVE  /\ cell[w] = None /\ a \in ActorId /\ m \in Msg
           /\ fate[m] = "queued" /\ target[m] = a /\ home[a] = w /\ Registered(a)
           /\ BoxesOK(t, ActorId, Msg) /\ QueueOK(t, ActorId, a)
           /\ \A b : b # a => Mailbox(t, b) = Mailbox(sched[w], b)
           /\ Range(Mailbox(t, a)) = Range(Box(w, a)) \ {m}
           /\ Increasing(Mailbox(t, a))
           /\ m \in Range(Box(w, a))
           /\ \A x \in Range(Box(w, a)) : x # m => m < x
<1>1. cell[w] = None
  BY DEF CInv, CellHeld
<1>2. BoxesOK(sched[w], ActorId, Msg) /\ QueueOK(sched[w], ActorId, None)
  BY <1>1 DEF MInv, SchedOK
<1>3. /\ a \in ActorId /\ Box(w, a) \in Seq(Msg) /\ Box(w, a) # <<>> /\ m = Head(Box(w, a))
      /\ BoxesOK(t, ActorId, Msg) /\ QueueOK(t, ActorId, a)
      /\ OneBoxChanged(sched[w], t, a, Tail(Box(w, a)))
  BY <1>2, IdFacts, TakeTurnFacts DEF Box
<1>4. /\ m \in Range(Box(w, a)) /\ m \in Msg
      /\ Range(Tail(Box(w, a))) = Range(Box(w, a)) \ {m}
      /\ Increasing(Tail(Box(w, a)))
      /\ \A x \in Range(Box(w, a)) : x # m => m < x
  BY <1>3, MsgFacts, TailIncreasing DEF MInv, Ordered
<1>5. fate[m] = "queued" /\ target[m] = a /\ home[a] = w /\ Registered(a)
  BY <1>3, <1>4 DEF MInv, Placed, Accepted
<1> QED BY <1>1, <1>3, <1>4, <1>5 DEF OneBoxChanged

(* An envelope whose actor is not in the map belongs to a stopped actor. *)
LEMMA NotFoundIsStopped ==
    ASSUME CInv, NEW w \in Worker, wpc[w] = "drain", NEW a \in ActorId, home[a] = w,
           Registered(a), a \notin actor_map[w]
    PROVE  life[a] = "stopped"
<1>1. cell[w] # a /\ ~ Terminated(w)
  BY IdFacts DEF CInv, CellHeld, Terminated
<1> QED BY <1>1 DEF CInv, CellInOnePlace, Registered

LEMMA DispatchMInv ==
    ASSUME CInv, MInv, Keeps, NEW w \in Worker, Dispatch(w)
    PROVE  MInv'
<1> USE DEF chanVars, clientVars
<1>a. PICK a : a = NextReady(sched[w])
  OBVIOUS
<1>m. PICK m : m = Dequeued(sched[w], a)
  OBVIOUS
<1>s. PICK s : s = Dequeue(AfterNextReady(sched[w]), a)
  OBVIOUS
<1>1. wpc[w] = "drain" /\ SomeReady(sched[w]) /\ UNCHANGED <<msgs, sent, target, home, life>>
  BY DEF Dispatch
<1>2. /\ cell[w] = None /\ a \in ActorId /\ m \in Msg
      /\ fate[m] = "queued" /\ target[m] = a /\ home[a] = w /\ Registered(a)
      /\ BoxesOK(s, ActorId, Msg) /\ QueueOK(s, ActorId, a)
      /\ \A b : b # a => Mailbox(s, b) = Mailbox(sched[w], b)
      /\ Range(Mailbox(s, a)) = Range(Box(w, a)) \ {m}
      /\ Increasing(Mailbox(s, a))
  BY <1>a, <1>m, <1>s, <1>1, NextMessage
(* Both ways: the message is no longer queued and in no mailbox. *)
<1>3. ASSUME NEW t, SameBoxes(s, t), BoxesOK(t, ActorId, Msg),
             sched' = [sched EXCEPT ![w] = t], NEW f \in {"handling", "lost"},
             fate' = [fate EXCEPT ![m] = f], f = "lost" => life[a] = "stopped"
      PROVE  /\ Accepted' /\ Placed' /\ Ordered' /\ LostIsGone'
             /\ DOMAIN sched' = Worker /\ sched'[w] = t
             /\ \A u \in Worker : u # w => sched'[u] = sched[u]
             /\ fate' \in [Msg -> {"unsent", "queued", "handling", "done", "lost"}]
             /\ fate'[m] = f /\ \A x \in Msg : x # m => fate'[x] = fate[x]
  <2>1. /\ DOMAIN sched' = Worker /\ sched'[w] = t
        /\ \A u \in Worker : u # w => sched'[u] = sched[u]
        /\ fate' \in [Msg -> {"unsent", "queued", "handling", "done", "lost"}]
        /\ fate'[m] = f /\ \A x \in Msg : x # m => fate'[x] = fate[x]
    BY <1>2, <1>3 DEF MInv, SchedOK, MsgTypeOK
  <2>2. Accepted'
    BY <1>1, <1>2, <2>1, AcceptedKept
  <2>3. LostIsGone'
    BY <1>1, <1>2, <1>3, <2>1, LostKept DEF Gone
  <2>4. \A u \in Worker, b \in ActorId :
           /\ Increasing(Mailbox(sched'[u], b))
           /\ \A x \in Range(Mailbox(sched'[u], b)) : x \in Range(Box(u, b)) /\ x # m
           /\ \A x \in Range(Box(u, b)) : x = m \/ x \in Range(Mailbox(sched'[u], b))
    <3> SUFFICES ASSUME NEW u \in Worker, NEW b \in ActorId
                 PROVE  /\ Increasing(Mailbox(sched'[u], b))
                        /\ \A x \in Range(Mailbox(sched'[u], b)) : x \in Range(Box(u, b)) /\ x # m
                        /\ \A x \in Range(Box(u, b)) : x = m \/ x \in Range(Mailbox(sched'[u], b))
      OBVIOUS
    <3>1. CASE u = w /\ b = a
      BY <1>2, <1>3, <2>1, <3>1 DEF SameBoxes
    <3>2. CASE u # w \/ b # a
      <4>1. Mailbox(sched'[u], b) = Box(u, b)
        BY <1>2, <1>3, <2>1, <3>2 DEF SameBoxes, Box
      <4>2. m \notin Range(Box(u, b))
        BY <1>2, <3>2 DEF MInv, Placed
      <4> QED BY <4>1, <4>2 DEF MInv, Ordered
    <3> QED BY <3>1, <3>2
  <2>5. \A u \in Worker : \A x \in Range(msgs[u]) : x \in Msg /\ fate[x] = "queued" /\ x # m
    <3>1. \A u \in Worker : Range(msgs[u]) \subseteq Msg
      BY RangeOfSeq DEF MInv, MsgTypeOK
    <3>2. msgs[w] = <<>>
      BY DEF Dispatch
    <3>3. \A u \in Worker : \A x \in Range(msgs[u]) : fate[x] = "queued" /\ home[target[x]] = u
      BY DEF MInv, Placed
    <3> QED BY <1>2, <3>1, <3>2, <3>3, EmptyIncreasing
  <2>6. \A u \in Worker, b \in ActorId : \A x \in Range(Box(u, b)) : x \in Msg /\ fate[x] = "queued"
    <3>1. \A u \in Worker, b \in ActorId : Box(u, b) \in Seq(Msg)
      BY MailboxFacts DEF MInv, SchedOK, Box
    <3>2. \A u \in Worker, b \in ActorId : Range(Box(u, b)) \subseteq Msg
      BY <3>1, RangeOfSeq
    <3> QED BY <3>2 DEF MInv, Placed
  <2>7. Placed' /\ Ordered'
    <3>1. \A u \in Worker : Increasing(msgs'[u]) /\ \A x \in Range(msgs'[u]) :
             x \in Range(msgs[u]) /\ fate'[x] = "queued"
      BY <1>1, <2>1, <2>5 DEF MInv, Ordered
    <3>2. \A u \in Worker, b \in ActorId : Increasing(Box(u, b)') /\ \A x \in Range(Box(u, b)') :
             x \in Range(Box(u, b)) /\ fate'[x] = "queued"
      <4>1. \A u \in Worker, b \in ActorId : Box(u, b)' = Mailbox(sched'[u], b)
        BY DEF Box
      <4> QED BY <2>1, <2>4, <2>6, <4>1
    <3>3. \A x \in Msg : fate'[x] = "queued" => x # m /\ fate[x] = "queued"
      BY <1>3, <2>1
    <3>4. \A b \in ActorId : home[b] \in Worker
      BY DEF CInv, CoreTypeOK
    <3> QED BY <1>1, <2>4, <3>1, <3>2, <3>3, <3>4, OnlyLeaves
  <2> QED BY <2>1, <2>2, <2>3, <2>7
<1>4. CASE a \in actor_map[w]
  <2>1. /\ sched' = [sched EXCEPT ![w] = s] /\ fate' = [fate EXCEPT ![m] = "handling"]
        /\ cell' = [cell EXCEPT ![w] = a] /\ env' = [env EXCEPT ![w] = m]
        /\ wpc' = [wpc EXCEPT ![w] = "handling"]
    BY <1>4, <1>a, <1>m, <1>s DEF Dispatch, Goto
  <2>2. /\ Accepted' /\ Placed' /\ Ordered' /\ LostIsGone'
        /\ DOMAIN sched' = Worker /\ sched'[w] = s
        /\ \A u \in Worker : u # w => sched'[u] = sched[u]
        /\ fate' \in [Msg -> {"unsent", "queued", "handling", "done", "lost"}]
        /\ fate'[m] = "handling" /\ \A x \in Msg : x # m => fate'[x] = fate[x]
    <3>1. SameBoxes(s, s)
      BY DEF SameBoxes
    <3> QED BY <1>2, <1>3, <2>1, <3>1
  <2>3. /\ wpc'[w] = "handling" /\ cell'[w] = a /\ env'[w] = m
        /\ \A u \in Worker : u # w => wpc'[u] = wpc[u] /\ cell'[u] = cell[u] /\ env'[u] = env[u]
    BY <2>1 DEF CInv, CoreTypeOK, MInv, MsgTypeOK
  <2>4. MsgTypeOK'
    BY <1>1, <1>2, <2>1, <2>2 DEF MInv, MsgTypeOK
  <2>5. SchedOK'
    BY <1>2, <2>2, <2>3 DEF MInv, SchedOK
  <2>6. InHand'
    <3>1. ASSUME NEW u \in Worker, wpc'[u] = "handling"
          PROVE  env'[u] \in Msg /\ fate'[env'[u]] = "handling" /\ target'[env'[u]] = cell'[u]
      BY <1>1, <1>2, <2>2, <2>3, <3>1 DEF MInv, InHand
    <3>2. ASSUME NEW x \in Msg, fate'[x] = "handling"
          PROVE  \E u \in Worker : wpc'[u] = "handling" /\ env'[u] = x
      BY <1>1, <2>2, <2>3, <3>2 DEF MInv, InHand
    <3> QED BY <3>1, <3>2 DEF InHand
  <2> QED BY <2>2, <2>4, <2>5, <2>6 DEF MInv
<1>5. CASE a \notin actor_map[w]
  <2>t. PICK t : t = RequeueIfReady(s, a)
    OBVIOUS
  <2>1. /\ sched' = [sched EXCEPT ![w] = t] /\ fate' = [fate EXCEPT ![m] = "lost"]
        /\ wpc' = [wpc EXCEPT ![w] = "control"] /\ UNCHANGED <<cell, env>>
    BY <1>5, <1>a, <1>m, <1>s, <2>t DEF Dispatch, Goto, Lose, MInv, MsgTypeOK
  <2>2. BoxesOK(t, ActorId, Msg) /\ QueueOK(t, ActorId, None) /\ SameBoxes(s, t)
    BY <1>2, <2>t, IdFacts, RequeueFacts
  <2>3. life[a] = "stopped"
    BY <1>1, <1>2, <1>5, NotFoundIsStopped
  <2>4. /\ Accepted' /\ Placed' /\ Ordered' /\ LostIsGone'
        /\ DOMAIN sched' = Worker /\ sched'[w] = t
        /\ \A u \in Worker : u # w => sched'[u] = sched[u]
        /\ fate' \in [Msg -> {"unsent", "queued", "handling", "done", "lost"}]
        /\ fate'[m] = "lost" /\ \A x \in Msg : x # m => fate'[x] = fate[x]
    BY <1>3, <2>1, <2>2, <2>3
  <2>5. wpc'[w] = "control" /\ \A u \in Worker : u # w => wpc'[u] = wpc[u]
    BY <2>1 DEF CInv, CoreTypeOK
  <2>6. MsgTypeOK' /\ SchedOK'
    BY <1>1, <1>2, <2>1, <2>2, <2>4, <2>5 DEF MInv, MsgTypeOK, SchedOK
  <2>7. InHand'
    BY <1>1, <1>2, <2>1, <2>4, <2>5 DEF MInv, InHand
  <2> QED BY <2>4, <2>6, <2>7 DEF MInv
<1> QED BY <1>4, <1>5
-----------------------------------------------------------------------------
(* The end of a handler, answered or not: the message leaves the hands of  *)
(* the worker, the mailboxes stay.                                         *)
LEMMA HandlerOverMInv ==
    ASSUME CInv, MInv, Keeps, NEW w \in Worker, wpc[w] = "handling",
           NEW f \in {"done", "lost"}, fate' = [fate EXCEPT ![env[w]] = f],
           env' = [env EXCEPT ![w] = None],
           UNCHANGED <<msgs, sent, target, home, life>>,
           NEW pc \in {"control", "on_stop"}, wpc' = [wpc EXCEPT ![w] = pc],
           DOMAIN sched' = Worker, \A u \in Worker : u # w => sched'[u] = sched[u],
           NEW t, t = sched'[w], BoxesOK(t, ActorId, Msg), SameBoxes(sched[w], t),
           NEW c, cell' = [cell EXCEPT ![w] = c], QueueOK(t, ActorId, c),
           f = "lost" => pc = "on_stop" /\ c = cell[w]
    PROVE  MInv'
<1>m. PICK m : m = env[w]
  OBVIOUS
<1>1. /\ m \in Msg /\ fate[m] = "handling" /\ target[m] = cell[w]
      /\ cell[w] \in ActorId /\ home[cell[w]] = w
  BY <1>m DEF MInv, InHand, CInv, CoreTypeOK, CellHeld
<1>2. /\ fate' \in [Msg -> {"unsent", "queued", "handling", "done", "lost"}]
      /\ fate'[m] = f /\ \A x \in Msg : x # m => fate'[x] = fate[x]
  BY <1>m, <1>1 DEF MInv, MsgTypeOK
<1>3. /\ wpc'[w] = pc /\ cell'[w] = c /\ sched'[w] = t
      /\ \A u \in Worker : u # w => /\ wpc'[u] = wpc[u] /\ cell'[u] = cell[u]
                                    /\ env'[u] = env[u] /\ sched'[u] = sched[u]
      /\ DOMAIN sched' = Worker
  BY DEF MInv, MsgTypeOK, SchedOK, CInv, CoreTypeOK
<1>4. MsgTypeOK'
  BY <1>2 DEF MInv, MsgTypeOK
<1>5. SchedOK'
  BY <1>3 DEF MInv, SchedOK
<1>6. Accepted'
  BY <1>1, <1>2, AcceptedKept
<1>7. Placed' /\ Ordered'
  <2>1. \A u \in Worker, a \in ActorId : Mailbox(sched'[u], a) = Mailbox(sched[u], a)
    BY <1>3 DEF SameBoxes
  <2>2. \A x \in Msg : fate'[x] = "queued" <=> fate[x] = "queued"
    BY <1>1, <1>2
  <2> QED BY <2>1, <2>2, SamePlaces
<1>8. InHand'
  <2>1. ASSUME NEW u \in Worker, wpc'[u] = "handling"
        PROVE  env'[u] \in Msg /\ fate'[env'[u]] = "handling" /\ target'[env'[u]] = cell'[u]
    <3>1. u # w /\ wpc[u] = "handling"
      BY <1>3, <2>1
    <3>2. env[u] # m
      BY <1>m, <3>1, OneHand
    <3> QED BY <1>2, <1>3, <3>1, <3>2 DEF MInv, InHand
  <2>2. ASSUME NEW x \in Msg, fate'[x] = "handling"
        PROVE  \E u \in Worker : wpc'[u] = "handling" /\ env'[u] = x
    <3>1. x # m /\ fate[x] = "handling"
      BY <1>2, <2>2
    <3>2. PICK u \in Worker : wpc[u] = "handling" /\ env[u] = x
      BY <3>1 DEF MInv, InHand
    <3> QED BY <1>m, <1>3, <3>1, <3>2
  <2> QED BY <2>1, <2>2 DEF InHand
<1>9. LostIsGone'
  BY <1>1, <1>2, <1>3, LostKept DEF Gone
<1> QED BY <1>4, <1>5, <1>6, <1>7, <1>8, <1>9 DEF MInv

LEMMA HandlerReturnMInv ==
    ASSUME CInv, MInv, Keeps, NEW w \in Worker, HandlerReturn(w)
    PROVE  MInv'
<1> USE DEF chanVars, clientVars
<1>t. PICK t : t = RequeueIfReady(sched[w], cell[w])
  OBVIOUS
<1>1. /\ wpc[w] = "handling" /\ fate' = [fate EXCEPT ![env[w]] = "done"]
      /\ DOMAIN sched' = Worker /\ sched'[w] = t
      /\ \A u \in Worker : u # w => sched'[u] = sched[u]
      /\ cell' = [cell EXCEPT ![w] = None] /\ env' = [env EXCEPT ![w] = None]
      /\ wpc' = [wpc EXCEPT ![w] = "control"]
      /\ UNCHANGED <<msgs, sent, target, home, life>>
  BY <1>t DEF HandlerReturn, Goto, MInv, SchedOK
<1>2. cell[w] \in ActorId
  BY <1>1 DEF CInv, CoreTypeOK, CellHeld
<1>3. BoxesOK(sched[w], ActorId, Msg) /\ QueueOK(sched[w], ActorId, cell[w])
  BY <1>1 DEF MInv, SchedOK
<1>4. BoxesOK(t, ActorId, Msg) /\ QueueOK(t, ActorId, None) /\ SameBoxes(sched[w], t)
  BY <1>t, <1>2, <1>3, IdFacts, RequeueFacts
<1> QED BY <1>1, <1>4, HandlerOverMInv

LEMMA HandlerEndsMInv ==
    ASSUME CInv, MInv, Keeps, NEW w \in Worker, NEW o \in {"done", "lost"}, HandlerEnds(w, o)
    PROVE  MInv'
<1> USE DEF chanVars, spawnVars, clientVars
<1>t. PICK t : t = sched[w]
  OBVIOUS
<1>c. PICK c : c = cell[w]
  OBVIOUS
<1>1. /\ wpc[w] = "handling" /\ fate' = [fate EXCEPT ![env[w]] = o]
      /\ sched' = sched /\ cell' = [cell EXCEPT ![w] = c]
      /\ env' = [env EXCEPT ![w] = None]
      /\ wpc' = [wpc EXCEPT ![w] = "on_stop"]
      /\ UNCHANGED <<msgs, sent, target, home, life>>
  BY <1>t, <1>c DEF HandlerEnds, Goto, MInv, SchedOK, CInv, CoreTypeOK
<1>2. BoxesOK(t, ActorId, Msg) /\ QueueOK(t, ActorId, c) /\ SameBoxes(sched[w], t)
  BY <1>t, <1>c, <1>1 DEF MInv, SchedOK, SameBoxes
<1>3. DOMAIN sched' = Worker /\ sched'[w] = t
  BY <1>t, <1>1 DEF MInv, SchedOK
<1> QED BY <1>c, <1>1, <1>2, <1>3, HandlerOverMInv

(* Messages of one worker are discarded: those of L, which its channel and *)
(* its mailboxes hold no longer, and whose actors are gone.                *)
LEMMA DiscardMInv ==
    ASSUME CInv, MInv, Keeps, NEW w \in Worker,
           UNCHANGED <<env, sent, target>>, NEW L, fate' = Lose(L),
           \A m \in L : m \in Msg /\ fate[m] = "queued" /\ home[target[m]] = w /\ Gone(target[m])',
           msgs' \in [Worker -> Seq(Msg)],
           \A u \in Worker : u # w => msgs'[u] = msgs[u] /\ sched'[u] = sched[u],
           msgs'[w] \in {msgs[w], <<>>},
           \A m \in Range(msgs[w]) : m \in L <=> msgs'[w] = <<>>,
           \A a \in ActorId : Mailbox(sched'[w], a) \in {Mailbox(sched[w], a), <<>>},
           \A a \in ActorId : \A m \in Range(Mailbox(sched[w], a)) :
              m \in L <=> Mailbox(sched'[w], a) = <<>>,
           \A u \in Worker : wpc'[u] = "handling" <=> wpc[u] = "handling",
           \A u \in Worker : wpc[u] = "handling" => cell'[u] = cell[u],
           SchedOK'
    PROVE  MInv'
<1>1. /\ fate' \in [Msg -> {"unsent", "queued", "handling", "done", "lost"}]
      /\ \A m \in Msg : fate'[m] = IF m \in L THEN "lost" ELSE fate[m]
  BY DEF Lose, MInv, MsgTypeOK
<1>2. MsgTypeOK'
  BY <1>1 DEF MInv, MsgTypeOK
<1>3. Accepted' /\ LostIsGone'
  BY <1>1, AcceptedKept, LostKept
<1>4. InHand'
  <2>1. \A m \in Msg : fate'[m] = "handling" <=> fate[m] = "handling"
    BY <1>1
  <2> QED BY <2>1 DEF MInv, InHand
<1>5. /\ \A u \in Worker : Range(msgs[u]) \subseteq Msg
      /\ \A u \in Worker, a \in ActorId : Range(Box(u, a)) \subseteq Msg
  <2>1. \A u \in Worker, a \in ActorId : Box(u, a) \in Seq(Msg)
    BY MailboxFacts DEF MInv, SchedOK, Box
  <2> QED BY <2>1, RangeOfSeq DEF MInv, MsgTypeOK
<1>6. \A u \in Worker :
         /\ Increasing(msgs'[u])
         /\ \A m \in Range(msgs'[u]) : m \in Range(msgs[u]) /\ fate'[m] = "queued"
         /\ \A m \in Range(msgs[u]) : m \notin L => m \in Range(msgs'[u])
  <2> SUFFICES ASSUME NEW u \in Worker
               PROVE  /\ Increasing(msgs'[u])
                      /\ \A m \in Range(msgs'[u]) : m \in Range(msgs[u]) /\ fate'[m] = "queued"
                      /\ \A m \in Range(msgs[u]) : m \notin L => m \in Range(msgs'[u])
    OBVIOUS
  <2>1. Increasing(msgs[u]) /\ \A m \in Range(msgs[u]) : fate[m] = "queued" /\ home[target[m]] = u
    BY DEF MInv, Placed, Ordered
  <2>2. CASE msgs'[u] = msgs[u] /\ \A m \in Range(msgs[u]) : m \notin L
    BY <1>1, <1>5, <2>1, <2>2
  <2>3. CASE msgs'[u] = <<>> /\ \A m \in Range(msgs[u]) : m \in L
    BY <2>3, EmptyIncreasing
  <2>4. CASE u # w
    BY <2>1, <2>2, <2>4
  <2>5. CASE u = w
    <3>1. CASE msgs'[w] = <<>>
      BY <2>3, <2>5, <3>1
    <3>2. CASE msgs'[w] # <<>>
      BY <2>2, <2>5, <3>2
    <3> QED BY <3>1, <3>2
  <2> QED BY <2>4, <2>5
<1>7. \A u \in Worker, a \in ActorId :
         /\ Increasing(Mailbox(sched'[u], a))
         /\ \A m \in Range(Mailbox(sched'[u], a)) : m \in Range(Box(u, a)) /\ fate'[m] = "queued"
         /\ \A m \in Range(Box(u, a)) : m \notin L => m \in Range(Mailbox(sched'[u], a))
  <2> SUFFICES ASSUME NEW u \in Worker, NEW a \in ActorId
               PROVE  /\ Increasing(Mailbox(sched'[u], a))
                      /\ \A m \in Range(Mailbox(sched'[u], a)) :
                            m \in Range(Box(u, a)) /\ fate'[m] = "queued"
                      /\ \A m \in Range(Box(u, a)) :
                            m \notin L => m \in Range(Mailbox(sched'[u], a))
    OBVIOUS
  <2>1. Increasing(Box(u, a)) /\ \A m \in Range(Box(u, a)) :
           fate[m] = "queued" /\ target[m] = a /\ home[a] = u
    BY DEF MInv, Placed, Ordered
  <2>2. CASE Mailbox(sched'[u], a) = Box(u, a) /\ \A m \in Range(Box(u, a)) : m \notin L
    BY <1>1, <1>5, <2>1, <2>2
  <2>3. CASE Mailbox(sched'[u], a) = <<>> /\ \A m \in Range(Box(u, a)) : m \in L
    BY <2>3, EmptyIncreasing
  <2>4. CASE u # w
    BY <2>1, <2>2, <2>4 DEF Box
  <2>5. CASE u = w
    <3>1. CASE Mailbox(sched'[w], a) = <<>>
      BY <2>3, <2>5, <3>1 DEF Box
    <3>2. CASE Mailbox(sched'[w], a) # <<>>
      BY <2>2, <2>5, <3>2 DEF Box
    <3> QED BY <3>1, <3>2
  <2> QED BY <2>4, <2>5
<1>8. Placed' /\ Ordered'
  <2>1. \A m \in Msg : fate'[m] = "queued" => fate[m] = "queued" /\ m \notin L
    BY <1>1
  <2>2. \A m \in Msg : fate[m] = "queued" => home[target[m]] \in Worker
    BY DEF MInv, Accepted, Registered, CInv, CoreTypeOK
  <2>3. \A a \in ActorId : home[a] \in Worker
    BY DEF CInv, CoreTypeOK
  <2>4. \A u \in Worker, a \in ActorId : Box(u, a)' = Mailbox(sched'[u], a)
    BY DEF Box
  <2>5. \A u \in Worker, a \in ActorId : Increasing(Box(u, a)') /\ \A m \in Range(Box(u, a)') :
            m \in Range(Box(u, a)) /\ fate'[m] = "queued"
    BY <1>7, <2>4
  <2> QED BY <1>6, <1>7, <2>1, <2>2, <2>3, <2>5, OnlyLeaves
<1> QED BY <1>2, <1>3, <1>4, <1>8 DEF MInv

(* No message is in a channel and in a mailbox. *)
LEMMA NotTwice ==
    ASSUME MInv, NEW w \in Worker, NEW a \in ActorId, NEW m \in Msg,
           m \in Range(msgs[w]), m \in Range(Box(w, a))
    PROVE  FALSE
<1>1. target[m] = a
  BY DEF MInv, Placed
<1>2. m < m
  BY <1>1 DEF MInv, Ordered
<1> QED BY <1>2, MsgFacts

LEMMA StoppedReturnMInv ==
    ASSUME CInv, MInv, Keeps, NEW w \in Worker, StoppedReturn(w)
    PROVE  MInv'
<1> USE DEF chanVars, clientVars
<1>a. PICK a : a = cell[w]
  OBVIOUS
<1>s. PICK s : s = RemoveActor(sched[w], a)
  OBVIOUS
<1>t. PICK t : t = IF wpc[w] = "on_stop" THEN RequeueIfReady(s, a) ELSE s
  OBVIOUS
<1>l. PICK L : L = Range(Mailbox(sched[w], a))
  OBVIOUS
<1>1. /\ wpc[w] \in {"on_stop", "stop_hook"}
      /\ life' = [life EXCEPT ![a] = "stopped"] /\ fate' = Lose(L)
      /\ sched' = [sched EXCEPT ![w] = t]
      /\ cell' = [cell EXCEPT ![w] = None]
      /\ wpc' = [wpc EXCEPT ![w] = IF wpc[w] = "on_stop" THEN "control" ELSE "stop_all"]
      /\ UNCHANGED <<msgs, env, sent, target, home>>
  BY <1>a, <1>s, <1>t, <1>l DEF StoppedReturn, Goto
<1>2. a \in ActorId /\ home[a] = w /\ life'[a] = "stopped"
  BY <1>a, <1>1 DEF CInv, CoreTypeOK, CellHeld
<1>3. BoxesOK(sched[w], ActorId, Msg) /\ (wpc[w] = "on_stop" => QueueOK(sched[w], ActorId, a))
  BY <1>a, <1>1 DEF MInv, SchedOK
<1>4. /\ BoxesOK(s, ActorId, Msg) /\ OneBoxChanged(sched[w], s, a, <<>>)
      /\ wpc[w] = "on_stop" => QueueOK(s, ActorId, a)
  BY <1>s, <1>2, <1>3, RemoveFacts
<1>5. /\ BoxesOK(t, ActorId, Msg) /\ SameBoxes(s, t)
      /\ wpc[w] = "on_stop" => QueueOK(t, ActorId, None)
  <2>1. CASE wpc[w] = "on_stop"
    BY <1>t, <1>2, <1>4, <2>1, IdFacts, RequeueFacts
  <2>2. CASE wpc[w] # "on_stop"
    BY <1>t, <1>4, <2>2 DEF SameBoxes
  <2> QED BY <2>1, <2>2
<1>6. /\ sched'[w] = t /\ \A u \in Worker : u # w => sched'[u] = sched[u]
      /\ wpc'[w] = (IF wpc[w] = "on_stop" THEN "control" ELSE "stop_all") /\ cell'[w] = None
      /\ \A u \in Worker : u # w => wpc'[u] = wpc[u] /\ cell'[u] = cell[u]
      /\ DOMAIN sched' = Worker
  BY <1>1 DEF MInv, SchedOK, CInv, CoreTypeOK
<1>7. SchedOK'
  BY <1>1, <1>5, <1>6 DEF MInv, SchedOK
<1>8. /\ Mailbox(sched'[w], a) = <<>>
      /\ \A b \in ActorId : b # a => Mailbox(sched'[w], b) = Mailbox(sched[w], b)
  BY <1>4, <1>5, <1>6 DEF SameBoxes, OneBoxChanged
<1>9. \A m \in L : m \in Msg /\ fate[m] = "queued" /\ target[m] = a
  <2>1. L \subseteq Msg
    BY <1>l, <1>3, MailboxFacts, RangeOfSeq
  <2> QED BY <1>l, <1>2, <2>1 DEF MInv, Placed, Box
<1>10. \A m \in L : home[target[m]] = w /\ Gone(target[m])'
  BY <1>1, <1>2, <1>9 DEF Gone
<1>11. \A m \in Range(msgs[w]) : m \notin L /\ msgs[w] # <<>>
  <2>1. \A m \in Range(msgs[w]) : m \notin L
    BY <1>l, <1>2, <1>9, NotTwice DEF Box
  <2> QED BY <2>1, EmptyIncreasing
<1>12. \A b \in ActorId : \A m \in Range(Mailbox(sched[w], b)) :
          m \in L <=> Mailbox(sched'[w], b) = <<>>
  <2> SUFFICES ASSUME NEW b \in ActorId, NEW m \in Range(Mailbox(sched[w], b))
               PROVE  m \in L <=> Mailbox(sched'[w], b) = <<>>
    OBVIOUS
  <2>1. CASE b = a
    BY <1>l, <1>8, <2>1
  <2>2. CASE b # a
    <3>1. m \notin L
      BY <1>9, <2>2 DEF MInv, Placed, Box
    <3>2. Mailbox(sched[w], b) # <<>>
      BY EmptyIncreasing
    <3> QED BY <1>8, <2>2, <3>1, <3>2
  <2> QED BY <2>1, <2>2
<1>13. \A u \in Worker : /\ wpc'[u] = "handling" <=> wpc[u] = "handling"
                         /\ wpc[u] = "handling" => cell'[u] = cell[u]
  BY <1>1, <1>6
<1>14. msgs' \in [Worker -> Seq(Msg)] /\ msgs'[w] = msgs[w]
  BY <1>1 DEF MInv, MsgTypeOK
<1>15. \A b \in ActorId : Mailbox(sched'[w], b) \in {Mailbox(sched[w], b), <<>>}
  BY <1>8
<1> QED BY <1>1, <1>6, <1>7, <1>9, <1>10, <1>11, <1>12, <1>13, <1>14, <1>15, DiscardMInv

LEMMA ThreadEndsMInv ==
    ASSUME CInv, MInv, Keeps, NEW w \in Worker, ThreadEnds(w), wpc[w] # "handling",
           NEW end \in {"exited", "crashed"}, Goto(w, end),
           UNCHANGED <<env, home, sent, target>>
    PROVE  MInv'
<1>l. PICK L : L = Range(msgs[w]) \cup Held(sched[w])
  OBVIOUS
<1>1. /\ msgs' = [msgs EXCEPT ![w] = <<>>] /\ sched' = [sched EXCEPT ![w] = New]
      /\ fate' = Lose(L) /\ cell' = [cell EXCEPT ![w] = None]
      /\ wpc' = [wpc EXCEPT ![w] = end]
  BY <1>l DEF ThreadEnds, Goto
<1>2. /\ sched'[w] = New /\ \A u \in Worker : u # w => sched'[u] = sched[u]
      /\ msgs'[w] = <<>> /\ \A u \in Worker : u # w => msgs'[u] = msgs[u]
      /\ wpc'[w] = end /\ \A u \in Worker : u # w => wpc'[u] = wpc[u]
      /\ \A u \in Worker : u # w => cell'[u] = cell[u]
      /\ DOMAIN sched' = Worker /\ msgs' \in [Worker -> Seq(Msg)]
  BY <1>1 DEF MInv, SchedOK, MsgTypeOK, CInv, CoreTypeOK
<1>3. SchedOK'
  BY <1>2, NewFacts DEF MInv, SchedOK
<1>4. \A m : m \in Held(sched[w]) <=> \E a \in ActorId : m \in Range(Box(w, a))
  BY HeldIs DEF MInv, SchedOK, Box
<1>5. \A m \in L : m \in Msg /\ fate[m] = "queued" /\ home[target[m]] = w
  <2>1. \A m \in Range(msgs[w]) : m \in Msg
    BY RangeOfSeq DEF MInv, MsgTypeOK
  <2>2. \A a \in ActorId : \A m \in Range(Box(w, a)) : m \in Msg
    <3>1. \A a \in ActorId : Box(w, a) \in Seq(Msg)
      BY MailboxFacts DEF MInv, SchedOK, Box
    <3> QED BY <3>1, RangeOfSeq
  <2> QED BY <1>l, <1>4, <2>1, <2>2 DEF MInv, Placed
<1>6. \A m \in L : Gone(target[m])'
  BY <1>2, <1>5 DEF Gone, Terminated
<1>7. \A a \in ActorId : Mailbox(sched'[w], a) = <<>>
  BY <1>2, NewFacts
<1>8. /\ \A m \in Range(msgs[w]) : m \in L
      /\ \A a \in ActorId : \A m \in Range(Mailbox(sched[w], a)) : m \in L
  BY <1>l, <1>4 DEF Box
<1>9. \A u \in Worker : /\ wpc'[u] = "handling" <=> wpc[u] = "handling"
                        /\ wpc[u] = "handling" => cell'[u] = cell[u]
  BY <1>2
<1> QED BY <1>1, <1>2, <1>3, <1>5, <1>6, <1>7, <1>8, <1>9, DiscardMInv
-----------------------------------------------------------------------------
LEMMA WorkerMInv ==
    ASSUME CInv, MInv, Keeps, NEW w \in Worker, WorkerStep(w)
    PROVE  MInv'
<1> USE DEF chanVars, workerVars, spawnVars, msgVars, clientVars
<1>0. /\ wpc \in [Worker -> WorkerPc] /\ cell \in [Worker -> ActorId \cup {None}]
  BY DEF CInv, CoreTypeOK
<1>1. CASE RecvSpawn(w) \/ ContextSpawn(w)
  <2>1. UNCHANGED <<msgs, sched, env, sent, target, fate, wpc, cell>>
    BY <1>1 DEF RecvSpawn, ContextSpawn
  <2> QED BY <2>1, QuietMInv
<1>2. CASE RecvShutdown(w) \/ ControlEmpty(w) \/ IdleTimeout(w)
  <2>1. /\ UNCHANGED <<msgs, sched, env, sent, target, fate, cell>>
        /\ wpc[w] \in {"control", "idle"} /\ wpc'[w] \in {"control", "drain", "stop_all"}
        /\ \A u \in Worker : u # w => wpc'[u] = wpc[u]
    BY <1>0, <1>2 DEF RecvShutdown, ControlEmpty, IdleTimeout, Goto
  <2> QED BY <2>1, QuietMInv
<1>3. ASSUME NEW a \in ActorId, StopNext(w, a)
      PROVE  MInv'
  <2>1. /\ UNCHANGED <<msgs, sched, env, sent, target, fate>>
        /\ wpc[w] = "stop_all" /\ wpc'[w] = "stop_hook"
        /\ \A u \in Worker : u # w => wpc'[u] = wpc[u] /\ cell'[u] = cell[u]
    BY <1>0, <1>3 DEF StopNext, Goto
  <2> QED BY <2>1, QuietMInv
<1>4. ASSUME NEW a \in ActorId, ContextNotify(w, a)
      PROVE  MInv'
  BY <1>4, PostMInv DEF ContextNotify
<1>5. CASE Exit(w) \/ StoppedPanic(w)
  <2>1. PICK end \in {"exited", "crashed"} : Goto(w, end)
    BY <1>5 DEF Exit, StoppedPanic
  <2>2. ThreadEnds(w) /\ wpc[w] # "handling" /\ UNCHANGED <<env, home, sent, target>>
    BY <1>5 DEF Exit, StoppedPanic
  <2> QED BY <2>1, <2>2, ThreadEndsMInv
<1> QED BY <1>1, <1>2, <1>3, <1>4, <1>5, TakeEnvelopeMInv, GoIdleMInv, DispatchMInv,
           HandlerReturnMInv, HandlerEndsMInv, StoppedReturnMInv DEF WorkerStep

(* The invariant on messages is inductive, given the one on actors. *)
LEMMA MInvStep ==
    ASSUME RInv, MInv, [Next]_vars
    PROVE  MInv'
<1> USE DEF chanVars, workerVars, spawnVars, msgVars, clientVars
<1>0. CInv /\ Keeps
  BY StepKeeps DEF RInv
<1>1. ASSUME NEW w \in Worker, WorkerStep(w)
      PROVE  MInv'
  BY <1>0, <1>1, WorkerMInv
<1>2. ASSUME NEW c \in Client, NEW a \in ActorId, Send(c, a) \/ DoSend(c, a)
      PROVE  MInv'
  BY <1>0, <1>2, PostMInv DEF Send, DoSend
<1>3. ASSUME UNCHANGED <<msgs, sched, env, sent, target, fate, wpc, cell>>
      PROVE  MInv'
  BY <1>0, <1>3, QuietMInv
<1>4. ASSUME NEW c \in Client,
             SpawnBegin(c) \/ StartedSpawn(c) \/ StartedPanic(c) \/ SpawnSend(c)
             \/ SpawnReturn(c) \/ SendReturn(c)
      PROVE  MInv'
  BY <1>3, <1>4 DEF SpawnBegin, StartedSpawn, StartedPanic, SpawnSend, SpawnReturn, SendReturn
<1>5. ASSUME \/ OwnerStep \/ (\E op \in {"shutdown", "run", "drop"} : RuntimeCall(op))
             \/ (\E a \in ActorId : DropAddr(a)) \/ Finished \/ UNCHANGED vars
      PROVE  MInv'
  BY <1>3, <1>5 DEF OwnerStep, SignalWorker, SignalDone, JoinWorker, JoinDone, RuntimeCall,
                    DropAddr, Finished, vars
<1> QED BY <1>1, <1>2, <1>4, <1>5 DEF Next, ClientCall, ClientReturn

(* Where every message is, and in which order, for any number of workers,  *)
(* clients, actors and messages and any user code (Worker::run, Addr and   *)
(* the scheduler together).                                                *)
THEOREM MessageInvariant == Spec => [](RInv /\ MInv)
<1>1. RInv /\ MInv /\ [Next]_vars => MInv'
  BY MInvStep
<1> QED BY <1>1, InitMInv, RuntimeInvariant, PTL DEF Spec

(* The counters of SpawnShared and of the owner stay within their bounds:  *)
(* pick_worker is called at most once per allocated id.                    *)
CountersOK == next_worker < next_id /\ shutdowns \in 0 .. MaxShutdown

LEMMA CountersStep ==
    ASSUME RInv, CountersOK, [Next]_vars
    PROVE  CountersOK'
<1> USE DEF spawnVars, rtVars
<1>0. next_id \in Nat /\ next_worker \in Nat
  BY BoundAssumption DEF RInv, CInv, CoreTypeOK
<1>1. ASSUME NEW w \in Worker, WorkerStep(w)
      PROVE  next_id' \in {next_id, next_id + 1} /\ next_worker' = next_worker /\ shutdowns' = shutdowns
  BY <1>1 DEF WorkerStep, RecvSpawn, RecvShutdown, ControlEmpty, TakeEnvelope, GoIdle,
              IdleTimeout, Dispatch, ContextSpawn, ContextNotify, HandlerReturn, HandlerEnds,
              StopNext, StoppedReturn, StoppedPanic, Exit, SpawnDirect
<1>2. ASSUME NEW c \in Client, ClientCall(c) \/ ClientReturn(c)
      PROVE  /\ shutdowns' = shutdowns
             /\ \/ next_id' \in {next_id, next_id + 1} /\ next_worker' = next_worker
                \/ next_id' = next_id + 1 /\ next_worker' = next_worker + 1
  BY <1>2 DEF ClientCall, ClientReturn, SpawnBegin, Send, DoSend, StartedSpawn, StartedPanic,
              SpawnSend, SpawnReturn, SendReturn, SpawnDirect
<1>3. ASSUME OwnerStep \/ (\E a \in ActorId : DropAddr(a)) \/ Finished \/ UNCHANGED vars
      PROVE  UNCHANGED <<next_id, next_worker, shutdowns>>
  BY <1>3 DEF OwnerStep, SignalWorker, SignalDone, JoinWorker, JoinDone, DropAddr, Finished, vars
<1>4. ASSUME NEW op \in {"shutdown", "run", "drop"}, RuntimeCall(op)
      PROVE  CountersOK'
  BY <1>4, BoundAssumption DEF RuntimeCall, CountersOK
<1> QED BY <1>0, <1>1, <1>2, <1>3, <1>4 DEF Next, CountersOK

(* Every accepted message that has not been handled or lost is in one      *)
(* place, the channel of its actor's worker, the actor's mailbox or the    *)
(* worker's hands, and nothing else is there; the whole state is well      *)
(* formed.  The sender of a message can therefore always be answered.      *)
THEOREM EnvelopeInOnePlaceHolds == Spec => []EnvelopeInOnePlace
<1>1. Init => CountersOK
  BY BoundAssumption DEF Init, CountersOK
<1>2. RInv /\ CountersOK /\ [Next]_vars => CountersOK'
  BY CountersStep
<1>3. RInv /\ MInv /\ CountersOK => EnvelopeInOnePlace
  <2> SUFFICES ASSUME RInv, MInv, CountersOK PROVE EnvelopeInOnePlace
    OBVIOUS
  <2>1. next_worker \in 0 .. MaxId
    BY BoundAssumption DEF RInv, CInv, CoreTypeOK, CountersOK
  <2>2. TypeOK
    BY <2>1 DEF TypeOK, RInv, CInv, CoreTypeOK, WorkerPc, OwnerOK, CountersOK, MInv, MsgTypeOK
  <2>3. ASSUME NEW m \in Msg, fate[m] = "queued", NEW a, a = target[m], NEW w, w = home[a]
        PROVE  (m \in Range(msgs[w])) # (m \in Range(Mailbox(sched[w], a)))
    <3>1. a \in ActorId /\ w \in Worker
      BY <2>3 DEF MInv, Accepted, Registered, RInv, CInv, CoreTypeOK
    <3>2. m \in Range(msgs[w]) \/ m \in Range(Mailbox(sched[w], a))
      BY <2>3 DEF MInv, Placed, Box
    <3>3. ~ (m \in Range(msgs[w]) /\ m \in Range(Mailbox(sched[w], a)))
      BY <3>1, NotTwice DEF Box
    <3> QED BY <3>2, <3>3
  <2>4. ASSUME NEW w \in Worker, NEW m \in Range(msgs[w]) \cup Held(sched[w])
        PROVE  fate[m] = "queued" /\ home[target[m]] = w
    <3>1. CASE m \in Range(msgs[w])
      BY <3>1 DEF MInv, Placed
    <3>2. CASE m \in Held(sched[w])
      <4>1. \E a \in ActorId : m \in Range(Box(w, a))
        BY <3>2, HeldIs DEF MInv, SchedOK, Box
      <4> QED BY <4>1 DEF MInv, Placed
    <3> QED BY <3>1, <3>2
  <2>5. \A m \in Msg : fate[m] = "handling" <=>
           \E w \in Worker : wpc[w] = "handling" /\ env[w] = m
    BY DEF MInv, InHand
  <2> QED BY <2>2, <2>3, <2>4, <2>5 DEF EnvelopeInOnePlace
<1> QED BY <1>1, <1>2, <1>3, MessageInvariant, RuntimeInvariant, PTL DEF Spec
-----------------------------------------------------------------------------
(* The refinement of ActorContract. *)

(* The status of an actor, without CASE. *)
StatusMeans ==
    \A a \in ActorId :
        Status[a] = IF ~ Registered(a) THEN "unborn" ELSE IF Gone(a) THEN "dead" ELSE "live"

LEMMA StatusIs == CInv => StatusMeans
<1> SUFFICES ASSUME CInv, NEW a \in ActorId
             PROVE  Status[a] = IF ~ Registered(a) THEN "unborn"
                                ELSE IF Gone(a) THEN "dead" ELSE "live"
  BY DEF StatusMeans
<1>1. life[a] \in {"none", "started", "live", "stopped", "lost"}
  BY DEF CInv, CoreTypeOK
<1>2. CASE ~ Registered(a)
  BY <1>1, <1>2 DEF Status, Registered
<1>3. CASE Registered(a) /\ ~ Gone(a)
  BY <1>1, <1>3 DEF Status, Registered, Gone
<1>4. CASE Registered(a) /\ Gone(a)
  BY <1>1, <1>4 DEF Status, Registered, Gone
<1> QED BY <1>2, <1>3, <1>4

LEMMA StatusIsNext == CInv' => StatusMeans'
BY StatusIs, PTL

LEMMA StatusFunction == /\ Status = [a \in ActorId |-> Status[a]]
                        /\ Status' = [a \in ActorId |-> Status'[a]]
BY DEF Status

(* Nothing happens that the users of an actor would notice. *)
LEMMA StatusSame ==
    ASSUME CInv, CInv',
           \A a \in ActorId : Registered(a)' <=> Registered(a),
           \A a \in ActorId : Registered(a) => (Gone(a)' <=> Gone(a))
    PROVE  Status' = Status
<1>1. \A a \in ActorId : Status'[a] = Status[a]
  BY StatusIs, StatusIsNext DEF StatusMeans
<1> QED BY <1>1, StatusFunction

(* A worker goes from one place to another, with nobody in its hands. *)
LEMMA StatusSameFree ==
    ASSUME CInv, CInv', NEW w \in Worker, cell[w] = None, ~ Terminated(w), ~ Terminated(w)',
           cell'[w] = None \/ wpc'[w] = "handling",
           \A u \in Worker : u # w => wpc'[u] = wpc[u] /\ cell'[u] = cell[u],
           UNCHANGED <<home, life>>
    PROVE  Status' = Status
<1>1. \A a \in ActorId : Registered(a)' <=> Registered(a)
  BY DEF Registered
<1>2. \A a \in ActorId : a # None /\ home[a] \in Worker
  BY IdFacts DEF CInv, CoreTypeOK
<1>3. \A a \in ActorId : Gone(a)' <=> Gone(a)
  BY <1>2 DEF Gone, Terminated
<1> QED BY <1>1, <1>3, StatusSame

(* A message is accepted. *)
LEMMA PostAccepts ==
    ASSUME CInv, MInv, NEW a \in known, Post(a), UNCHANGED <<wpc, cell, home, life>>
    PROVE  Contract!Next
<1>1. /\ sent + 1 \in Msg /\ sent \in Nat /\ a \in ActorId /\ Registered(a)
      /\ target' = [target EXCEPT ![sent + 1] = a] /\ fate' = [fate EXCEPT ![sent + 1] = "queued"]
  BY BoundAssumption DEF MInv, MsgTypeOK, Post, Msg, CInv, CoreTypeOK, AddressedAreRegistered,
                         Registered
<1>2. fate[sent + 1] = "unsent" /\ \A k \in Msg : k < sent + 1 => fate[k] # "unsent"
  BY <1>1 DEF MInv, Accepted, Msg
<1>3. Status[a] # "unborn"
  BY <1>1, StatusIs DEF StatusMeans
<1>4. Status' = Status
  BY DEF Status, Terminated
<1>5. Contract!Accept(sent + 1, a)
  BY <1>1, <1>2, <1>3, <1>4 DEF Contract!Accept
<1> QED BY <1>1, <1>5 DEF Contract!Next

(* An actor becomes reachable. *)
LEMMA BirthSpawns ==
    ASSUME CInv, CInv', NEW b \in ActorId, ~ Registered(b), life' = [life EXCEPT ![b] = "live"],
           \A a \in ActorId : a # b => home'[a] = home[a],
           UNCHANGED <<wpc, cell, target, fate>>
    PROVE  Contract!Next
<1>1. \A a \in ActorId : a # b => life'[a] = life[a] /\ (Registered(a)' <=> Registered(a))
  BY DEF CInv, CoreTypeOK, Registered
<1>2. \A a \in ActorId : a # b => (Gone(a)' <=> Gone(a))
  BY <1>1 DEF Gone, Terminated
<1>3. Registered(b)'
  BY DEF CInv, CoreTypeOK, Registered
<1>4. Status[b] = "unborn" /\ Status'[b] \in {"live", "dead"}
      /\ \A a \in ActorId : a # b => Status'[a] = Status[a]
  BY <1>1, <1>2, <1>3, StatusIs, StatusIsNext DEF StatusMeans
<1>5. Status' = [Status EXCEPT ![b] = Status'[b]]
  BY <1>4, StatusFunction
<1>6. Contract!Spawn(b)
  BY <1>4, <1>5 DEF Contract!Spawn
<1> QED BY <1>6 DEF Contract!Next

(* A message is taken by its actor, which is idle and has handled all      *)
(* messages before it; or its actor is gone.                               *)
LEMMA DispatchBegins ==
    ASSUME CInv, CInv', MInv, NEW w \in Worker, Dispatch(w)
    PROVE  Contract!Next
<1>a. PICK a : a = NextReady(sched[w])
  OBVIOUS
<1>m. PICK m : m = Dequeued(sched[w], a)
  OBVIOUS
<1>s. PICK s : s = Dequeue(AfterNextReady(sched[w]), a)
  OBVIOUS
<1>1. /\ wpc[w] = "drain" /\ SomeReady(sched[w]) /\ msgs[w] = <<>>
      /\ UNCHANGED <<target, home, life>>
  BY DEF Dispatch
<1>2. /\ cell[w] = None /\ a \in ActorId /\ m \in Msg
      /\ fate[m] = "queued" /\ target[m] = a /\ home[a] = w /\ Registered(a)
      /\ \A x \in Range(Box(w, a)) : x # m => m < x
  BY <1>a, <1>m, <1>s, <1>1, NextMessage
<1>3. Status' = Status
  <2>1. /\ cell'[w] = None \/ wpc'[w] = "handling"
        /\ wpc'[w] \in {"handling", "control"}
        /\ \A u \in Worker : u # w => wpc'[u] = wpc[u] /\ cell'[u] = cell[u]
    BY <1>2 DEF Dispatch, Goto, CInv, CoreTypeOK
  <2> QED BY <1>1, <1>2, <2>1, StatusSameFree DEF Terminated
<1>4. CASE a \in actor_map[w]
  <2>1. fate' = [fate EXCEPT ![m] = "handling"]
    BY <1>4, <1>a, <1>m DEF Dispatch
  <2>2. life[a] = "live" /\ ~ Gone(a)
    BY <1>1, <1>2, <1>4, IdFacts DEF CInv, CellInOnePlace, Gone, Terminated
  <2>3. Status[target[m]] = "live"
    BY <1>2, <2>2, StatusIs DEF StatusMeans
  <2>4. ASSUME NEW k \in Msg, k < m, target[k] = target[m] PROVE fate[k] = "done"
    <3>0. k \in Nat /\ m \in Nat /\ sent \in Nat
      BY <1>2, MsgFacts DEF CInv, CoreTypeOK
    <3>1. fate[k] # "unsent"
      <4>1. m <= sent
        BY <1>2 DEF MInv, Accepted
      <4> QED BY <2>4, <3>0, <4>1 DEF MInv, Accepted
    <3>2. fate[k] # "queued"
      <4>1. k \notin Range(msgs[w])
        BY <1>1, EmptyIncreasing
      <4>2. k \notin Range(Box(w, a))
        BY <1>2, <2>4, <3>0
      <4> QED BY <1>2, <2>4, <4>1, <4>2 DEF MInv, Placed
    <3>3. fate[k] # "handling"
      <4> SUFFICES ASSUME fate[k] = "handling" PROVE FALSE
        OBVIOUS
      <4>1. PICK u \in Worker : wpc[u] = "handling" /\ cell[u] = a
        BY <1>2, <2>4 DEF MInv, InHand
      <4> QED BY <1>1, <1>2, <4>1, IdFacts DEF CInv, CellHeld
    <3>4. fate[k] # "lost"
      BY <1>2, <2>2, <2>4 DEF MInv, LostIsGone
    <3> QED BY <3>1, <3>2, <3>3, <3>4 DEF MInv, MsgTypeOK
  <2>5. Contract!Begin(m)
    BY <1>1, <1>2, <1>3, <2>1, <2>3, <2>4 DEF Contract!Begin
  <2> QED BY <1>2, <2>5 DEF Contract!Next
<1>5. CASE a \notin actor_map[w]
  <2>1. fate' = [k \in Msg |-> IF k \in {m} THEN "lost" ELSE fate[k]]
    BY <1>5, <1>a, <1>m DEF Dispatch, Lose
  <2>2. Gone(a)
    BY <1>1, <1>2, <1>5, NotFoundIsStopped DEF Gone
  <2>3. Status[target[m]] = "dead"
    BY <1>2, <2>2, StatusIs DEF StatusMeans
  <2>4. Status' = [b \in ActorId |-> IF b \in {} THEN "dead" ELSE Status[b]]
    BY <1>3, StatusFunction
  <2>5. Contract!Close({}, {m})
    BY <1>1, <1>2, <1>3, <2>1, <2>3, <2>4 DEF Contract!Close
  <2> QED BY <1>2, <2>5 DEF Contract!Next
<1> QED BY <1>4, <1>5

(* The handler returns, asks to stop, or panics. *)
LEMMA HandlerOverFinishes ==
    ASSUME CInv, CInv', MInv, NEW w \in Worker, wpc[w] = "handling",
           NEW f \in {"done", "lost"}, fate' = [fate EXCEPT ![env[w]] = f],
           UNCHANGED <<home, life, target>>,
           NEW pc \in {"control", "on_stop"}, wpc' = [wpc EXCEPT ![w] = pc],
           cell' = IF pc = "on_stop" THEN cell ELSE [cell EXCEPT ![w] = None],
           f = "lost" => pc = "on_stop"
    PROVE  Contract!Next
<1>m. PICK m : m = env[w]
  OBVIOUS
<1>a. PICK a : a = cell[w]
  OBVIOUS
<1>1. /\ m \in Msg /\ fate[m] = "handling" /\ target[m] = a
      /\ a \in ActorId /\ home[a] = w /\ life[a] = "live" /\ Registered(a)
  BY <1>m, <1>a DEF MInv, InHand, CInv, CoreTypeOK, CellHeld, Registered
<1>2. /\ wpc'[w] = pc /\ \A u \in Worker : u # w => wpc'[u] = wpc[u] /\ cell'[u] = cell[u]
      /\ cell'[w] = IF pc = "on_stop" THEN a ELSE None
  BY <1>a DEF CInv, CoreTypeOK
<1>3. \A b \in ActorId : b # None /\ home[b] \in Worker /\ (Registered(b)' <=> Registered(b))
  BY IdFacts DEF CInv, CoreTypeOK, Registered
<1>4. \A b \in ActorId : b # a => (Gone(b)' <=> Gone(b))
  BY <1>2, <1>3, <1>a DEF Gone, Terminated
<1>5. Gone(a)' <=> pc = "on_stop"
  BY <1>1, <1>2, <1>3 DEF Gone, Terminated
<1>6. Status'[a] = IF pc = "on_stop" THEN "dead" ELSE "live"
  BY <1>1, <1>3, <1>5, StatusIsNext DEF StatusMeans
<1>7. \A b \in ActorId : b # a => Status'[b] = Status[b]
  BY <1>3, <1>4, StatusIs, StatusIsNext DEF StatusMeans
<1>8. Status' = [Status EXCEPT ![a] = IF pc = "on_stop" THEN "dead" ELSE "live"]
  BY <1>6, <1>7, StatusFunction
<1>9. CASE f = "done"
  <2>1. \E st \in {"live", "dead"} : Status' = [Status EXCEPT ![target[m]] = st]
    BY <1>1, <1>8
  <2>2. Contract!Finish(m)
    BY <1>m, <1>1, <1>9, <2>1 DEF Contract!Finish
  <2> QED BY <1>1, <2>2 DEF Contract!Next
<1>10. CASE f = "lost"
  <2>1. Contract!Fail(m)
    BY <1>m, <1>1, <1>8, <1>10 DEF Contract!Fail
  <2> QED BY <1>1, <2>1 DEF Contract!Next
<1> QED BY <1>9, <1>10

(* An actor that no worker handles a message of is not busy. *)
LEMMA NotBusy ==
    ASSUME CInv, MInv, NEW a \in ActorId, wpc[home[a]] # "handling"
    PROVE  ~ Contract!Busy(a)
<1> SUFFICES ASSUME NEW m \in Msg, target[m] = a, fate[m] = "handling" PROVE FALSE
  BY DEF Contract!Busy
<1>1. PICK u \in Worker : wpc[u] = "handling" /\ cell[u] = a
  BY DEF MInv, InHand
<1> QED BY <1>1, IdFacts DEF CInv, CellHeld

(* stop_all_actors takes an idle actor. *)
LEMMA StopCloses ==
    ASSUME CInv, CInv', MInv, NEW w \in Worker, NEW a \in ActorId, StopNext(w, a)
    PROVE  Contract!Next
<1>1. /\ wpc[w] = "stop_all" /\ wpc'[w] = "stop_hook" /\ cell'[w] = a
      /\ \A u \in Worker : u # w => wpc'[u] = wpc[u] /\ cell'[u] = cell[u]
      /\ UNCHANGED <<home, life, target, fate>>
  BY DEF StopNext, Goto, CInv, CoreTypeOK, msgVars
<1>2. home[a] = w /\ life[a] = "live" /\ cell[w] = None
  BY <1>1 DEF StopNext, CInv, CellHeld, CellInOnePlace
<1>3. \A b \in ActorId : b # None /\ home[b] \in Worker /\ (Registered(b)' <=> Registered(b))
  BY <1>1, IdFacts DEF CInv, CoreTypeOK, Registered
<1>4. \A b \in ActorId : b # a => (Gone(b)' <=> Gone(b))
  BY <1>1, <1>2, <1>3 DEF Gone, Terminated
<1>5. Registered(a) /\ ~ Gone(a) /\ Gone(a)'
  BY <1>1, <1>2, <1>3 DEF Gone, Terminated, Registered
<1>6. Status[a] = "live" /\ \A b \in ActorId : Status'[b] = IF b \in {a} THEN "dead" ELSE Status[b]
  BY <1>3, <1>4, <1>5, StatusIs, StatusIsNext DEF StatusMeans
<1>7. Status' = [b \in ActorId |-> IF b \in {a} THEN "dead" ELSE Status[b]]
  BY <1>6, StatusFunction
<1>8. fate' = [m \in Msg |-> IF m \in {} THEN "lost" ELSE fate[m]]
  BY <1>1 DEF MInv, MsgTypeOK
<1>9. ~ Contract!Busy(a)
  BY <1>1, <1>2, NotBusy
<1>10. Contract!Close({a}, {})
  BY <1>1, <1>6, <1>7, <1>8, <1>9 DEF Contract!Close
<1> QED BY <1>10 DEF Contract!Next

(* stopped returns: what is left in the mailbox of the actor is discarded. *)
LEMMA StoppedReturnCloses ==
    ASSUME CInv, CInv', MInv, NEW w \in Worker, StoppedReturn(w)
    PROVE  Contract!Next
<1>a. PICK a : a = cell[w]
  OBVIOUS
<1>d. PICK D : D = Range(Mailbox(sched[w], a))
  OBVIOUS
<1>1. /\ wpc[w] \in {"on_stop", "stop_hook"} /\ wpc'[w] \in {"control", "stop_all"} /\ cell'[w] = None
      /\ \A u \in Worker : u # w => wpc'[u] = wpc[u] /\ cell'[u] = cell[u]
      /\ life' = [life EXCEPT ![a] = "stopped"] /\ fate' = Lose(D)
      /\ UNCHANGED <<home, target>>
  BY <1>a, <1>d DEF StoppedReturn, Goto, CInv, CoreTypeOK
<1>2. a \in ActorId /\ home[a] = w /\ life[a] = "live"
  BY <1>a, <1>1 DEF CInv, CoreTypeOK, CellHeld
<1>3. \A b \in ActorId : b # None /\ home[b] \in Worker /\ (b # a => life'[b] = life[b])
                         /\ life'[a] = "stopped"
  BY <1>1, <1>2, IdFacts DEF CInv, CoreTypeOK
<1>4. \A b \in ActorId : Registered(b)' <=> Registered(b)
  BY <1>2, <1>3 DEF Registered
<1>5. \A b \in ActorId : Gone(b)' <=> Gone(b)
  <2>1. Gone(a) /\ Gone(a)'
    BY <1>1, <1>2, <1>3, <1>a DEF Gone
  <2>2. \A b \in ActorId : b # a => (Gone(b)' <=> Gone(b))
    BY <1>1, <1>3, <1>a DEF Gone, Terminated
  <2> QED BY <2>1, <2>2
<1>6. Status' = Status
  BY <1>4, <1>5, StatusSame
<1>7. Status[a] = "dead"
  <2>1. Gone(a) /\ Registered(a)
    BY <1>1, <1>2, <1>a DEF Gone, Registered
  <2> QED BY <1>2, <2>1, StatusIs DEF StatusMeans
<1>8. \A m \in D : m \in Msg /\ fate[m] = "queued" /\ target[m] = a
  <2>1. Box(w, a) \in Seq(Msg) /\ D = Range(Box(w, a))
    BY <1>d, MailboxFacts DEF MInv, SchedOK, Box
  <2>2. D \subseteq Msg
    BY <2>1, RangeOfSeq
  <2> QED BY <1>2, <2>1, <2>2 DEF MInv, Placed
<1>9. Status' = [b \in ActorId |-> IF b \in {} THEN "dead" ELSE Status[b]]
  BY <1>6, StatusFunction
<1>10. fate' = [m \in Msg |-> IF m \in D THEN "lost" ELSE fate[m]]
  BY <1>1 DEF Lose
<1>11. Contract!Close({}, D)
  BY <1>1, <1>6, <1>7, <1>8, <1>9, <1>10 DEF Contract!Close
<1>12. {} \in SUBSET ActorId /\ D \in SUBSET Msg
  BY <1>8
<1> QED BY <1>11, <1>12 DEF Contract!Next

(* A worker's thread ends: its actors are gone, and all they had to do.    *)
LEMMA ThreadEndsCloses ==
    ASSUME CInv, CInv', MInv, Keeps, NEW w \in Worker, Exit(w) \/ StoppedPanic(w)
    PROVE  Contract!Next
<1>d. PICK D : D = Range(msgs[w]) \cup Held(sched[w])
  OBVIOUS
<1> DEFINE A == {a \in ActorId : Status[a] = "live" /\ home[a] = w}
<1>1. /\ wpc[w] # "handling" /\ Terminated(w)' /\ fate' = Lose(D)
      /\ \A u \in Worker : u # w => wpc'[u] = wpc[u] /\ cell'[u] = cell[u]
      /\ UNCHANGED <<home, target>>
  BY <1>d DEF Exit, StoppedPanic, ThreadEnds, Goto, Terminated, CInv, CoreTypeOK
<1>2. \A a \in ActorId : a \in Range(control[w]) => life[a] = "started" /\ home[a] = w
  BY IdFacts DEF CInv, PendingOnce, Range
<1>3. \A a \in ActorId : home[a] \in Worker /\ (a = cell[w] => home[a] = w /\ life[a] = "live")
  BY IdFacts DEF CInv, CoreTypeOK, CellHeld
<1>4. \A a \in ActorId : home[a] # w => life'[a] = life[a]
  BY <1>2, <1>3 DEF Exit, StoppedPanic
<1>5. \A a \in ActorId : Registered(a)' <=> Registered(a)
  BY <1>2, <1>3 DEF Exit, StoppedPanic, Registered
<1>6. \A a \in ActorId : IF home[a] = w THEN Gone(a)' ELSE Gone(a)' <=> Gone(a)
  BY <1>1, <1>3, <1>4 DEF Gone, Terminated
<1>7. \A a \in ActorId : Status'[a] = IF a \in A THEN "dead" ELSE Status[a]
  BY <1>5, <1>6, StatusIs, StatusIsNext DEF StatusMeans
<1>8. Status' = [a \in ActorId |-> IF a \in A THEN "dead" ELSE Status[a]]
  <2> HIDE DEF A
  <2> QED BY <1>7, StatusFunction
<1>9. \A a \in A : Status[a] = "live" /\ ~ Contract!Busy(a)
  BY <1>1, NotBusy
<1>10. \A m \in D : m \in Msg /\ fate[m] = "queued" /\ home[target[m]] = w
  <2>1. \A m \in Range(msgs[w]) : m \in Msg
    BY RangeOfSeq DEF MInv, MsgTypeOK
  <2>2. \A a \in ActorId : \A m \in Range(Box(w, a)) : m \in Msg
    <3>1. \A a \in ActorId : Box(w, a) \in Seq(Msg)
      BY MailboxFacts DEF MInv, SchedOK, Box
    <3> QED BY <3>1, RangeOfSeq
  <2>3. \A m : m \in Held(sched[w]) <=> \E a \in ActorId : m \in Range(Box(w, a))
    BY HeldIs DEF MInv, SchedOK, Box
  <2> QED BY <1>d, <2>1, <2>2, <2>3 DEF MInv, Placed
<1>11. \A m \in D : Status'[target[m]] = "dead"
  <2>1. \A m \in D : target[m] \in ActorId /\ Registered(target[m])
    BY <1>10 DEF MInv, Accepted, Registered
  <2>2. \A a \in ActorId : Registered(a) /\ home[a] = w => Status'[a] = "dead"
    BY <1>5, <1>6, StatusIsNext DEF StatusMeans
  <2> QED BY <1>10, <2>1, <2>2
<1>12. fate' = [m \in Msg |-> IF m \in D THEN "lost" ELSE fate[m]]
  BY <1>1 DEF Lose
<1>13. Contract!Close(A, D)
  <2> HIDE DEF A
  <2> QED BY <1>1, <1>8, <1>9, <1>10, <1>11, <1>12 DEF Contract!Close
<1>14. A \in SUBSET ActorId /\ D \in SUBSET Msg
  BY <1>10
<1> QED BY <1>13, <1>14 DEF Contract!Next

LEMMA WorkerKeepsContract ==
    ASSUME CInv, CInv', MInv, Keeps, NEW w \in Worker, WorkerStep(w)
    PROVE  [Contract!Next]_(Contract!vars)
<1> USE DEF chanVars, workerVars, spawnVars, msgVars, clientVars
<1>0. wpc \in [Worker -> WorkerPc] /\ cell \in [Worker -> ActorId \cup {None}]
      /\ \A u \in Worker : cell[u] # None <=> wpc[u] \in {"handling", "on_stop", "stop_hook"}
  BY DEF CInv, CoreTypeOK, CellHeld
<1>1. CASE RecvSpawn(w)
  <2>b. PICK b : b = Head(control[w])
    OBVIOUS
  <2>1. b \in ActorId /\ life[b] = "started"
    <3>1. control[w] \in Seq(ActorId \cup {Shutdown}) /\ control[w] # <<>> /\ b # Shutdown
      BY <1>1, <2>b DEF RecvSpawn, CInv, CoreTypeOK
    <3>2. b = control[w][1] /\ 1 \in DOMAIN control[w] /\ b \in ActorId \cup {Shutdown}
      BY <2>b, <3>1, ChannelFacts, HeadTailProperties
    <3> QED BY <3>1, <3>2 DEF CInv, PendingOnce
  <2>2. UNCHANGED <<wpc, cell, home, target, fate>> /\ life' = [life EXCEPT ![b] = "live"]
    BY <1>1, <2>b DEF RecvSpawn
  <2> QED BY <2>1, <2>2, BirthSpawns DEF Registered
<1>2. CASE ContextSpawn(w)
  <2>b. PICK b : b = next_id
    OBVIOUS
  <2>1. UNCHANGED <<wpc, cell, target, fate>> /\ home' = [home EXCEPT ![b] = w]
        /\ life' = [life EXCEPT ![b] = "live"] /\ b \in ActorId
        /\ life[b] = "none" /\ home \in [ActorId -> Worker]
    BY <1>2, <2>b, IdFacts DEF ContextSpawn, SpawnDirect, CInv, CoreTypeOK, Allocated
  <2> QED BY <2>1, BirthSpawns DEF Registered
<1>3. CASE \/ RecvShutdown(w) \/ ControlEmpty(w) \/ TakeEnvelope(w) \/ GoIdle(w) \/ IdleTimeout(w)
  <2>1. /\ cell[w] = None /\ UNCHANGED <<cell, home, life, target, fate>>
        /\ wpc[w] \in {"control", "drain", "idle"}
        /\ wpc'[w] \in {"control", "drain", "idle", "stop_all"}
        /\ \A u \in Worker : u # w => wpc'[u] = wpc[u]
    BY <1>0, <1>3 DEF RecvShutdown, ControlEmpty, TakeEnvelope, GoIdle, IdleTimeout, Goto
  <2>2. Status' = Status
    BY <2>1, StatusSameFree DEF Terminated
  <2> QED BY <2>1, <2>2 DEF Contract!vars
<1>4. ASSUME NEW a \in ActorId, ContextNotify(w, a)
      PROVE  Contract!Next
  BY <1>4, PostAccepts DEF ContextNotify
<1>5. CASE HandlerReturn(w)
  <2>1. /\ wpc[w] = "handling" /\ fate' = [fate EXCEPT ![env[w]] = "done"]
        /\ cell' = [cell EXCEPT ![w] = None] /\ wpc' = [wpc EXCEPT ![w] = "control"]
        /\ UNCHANGED <<home, life, target>>
    BY <1>5 DEF HandlerReturn, Goto
  <2> QED BY <2>1, HandlerOverFinishes
<1>6. ASSUME NEW o \in {"done", "lost"}, HandlerEnds(w, o)
      PROVE  Contract!Next
  <2>1. /\ wpc[w] = "handling" /\ fate' = [fate EXCEPT ![env[w]] = o]
        /\ cell' = cell /\ wpc' = [wpc EXCEPT ![w] = "on_stop"]
        /\ UNCHANGED <<home, life, target>>
    BY <1>6 DEF HandlerEnds, Goto
  <2> QED BY <2>1, HandlerOverFinishes
<1> QED BY <1>1, <1>2, <1>3, <1>4, <1>5, <1>6, DispatchBegins, StopCloses, StoppedReturnCloses,
           ThreadEndsCloses DEF WorkerStep

LEMMA StepKeepsContract ==
    ASSUME RInv, RInv', MInv, [Next]_vars
    PROVE  [Contract!Next]_(Contract!vars)
<1> USE DEF chanVars, workerVars, spawnVars, msgVars, clientVars
<1>0. CInv /\ CInv' /\ Keeps
  BY StepKeeps DEF RInv
<1>1. ASSUME NEW w \in Worker, WorkerStep(w)
      PROVE  [Contract!Next]_(Contract!vars)
  BY <1>0, <1>1, WorkerKeepsContract
<1>2. ASSUME NEW c \in Client, NEW a \in ActorId, Send(c, a) \/ DoSend(c, a)
      PROVE  Contract!Next
  BY <1>0, <1>2, PostAccepts DEF Send, DoSend
<1>3. ASSUME NEW c \in Client, StartedSpawn(c)
      PROVE  Contract!Next
  <2>b. PICK b : b = next_id
    OBVIOUS
  <2>1. /\ UNCHANGED <<wpc, cell, target, fate>> /\ b \in ActorId /\ life[b] = "none"
        /\ life' = [life EXCEPT ![b] = "live"]
        /\ \A a \in ActorId : a # b => home'[a] = home[a]
    BY <1>0, <1>3, <2>b, IdFacts DEF StartedSpawn, SpawnDirect, CInv, CoreTypeOK, Allocated
  <2> QED BY <1>0, <2>1, BirthSpawns DEF Registered
<1>4. ASSUME NEW c \in Client, SpawnBegin(c) \/ StartedPanic(c) \/ SpawnSend(c)
      PROVE  UNCHANGED Contract!vars
  <2>1. PICK b \in ActorId :
           /\ ~ Registered(b) /\ UNCHANGED <<wpc, cell, target, fate>>
           /\ life'[b] \in {"started", "lost"}
           /\ \A a \in ActorId : a # b => home'[a] = home[a] /\ life'[a] = life[a]
    <3>0. life \in [ActorId -> {"none", "started", "live", "stopped", "lost"}]
          /\ home \in [ActorId -> Worker]
      BY <1>0 DEF CInv, CoreTypeOK
    <3>1. CASE SpawnBegin(c)
      <4>1. next_id \in ActorId /\ life[next_id] = "none"
        BY <1>0, <3>1, IdFacts DEF SpawnBegin, CInv, CoreTypeOK, Allocated
      <4> QED BY <3>0, <3>1, <4>1 DEF SpawnBegin, Registered
    <3>2. CASE StartedPanic(c) \/ SpawnSend(c)
      <4>1. carg[c] \in ActorId /\ life[carg[c]] = "started"
        BY <1>0, <3>2 DEF StartedPanic, SpawnSend, CInv, Allocated
      <4> QED BY <3>0, <3>2, <4>1 DEF StartedPanic, SpawnSend, Registered
    <3> QED BY <1>4, <3>1, <3>2
  <2>2. \A a \in ActorId : Registered(a)' <=> Registered(a)
    BY <2>1 DEF Registered
  <2>3. \A a \in ActorId : Registered(a) => (Gone(a)' <=> Gone(a))
    BY <2>1 DEF Gone, Terminated
  <2>4. Status' = Status
    BY <1>0, <2>2, <2>3, StatusSame
  <2> QED BY <2>1, <2>4 DEF Contract!vars
<1>5. ASSUME UNCHANGED <<wpc, cell, home, life, target, fate>>
      PROVE  UNCHANGED Contract!vars
  BY <1>5 DEF Contract!vars, Status, Terminated
<1>6. ASSUME NEW c \in Client, SpawnReturn(c) \/ SendReturn(c)
      PROVE  UNCHANGED Contract!vars
  BY <1>5, <1>6 DEF SpawnReturn, SendReturn
<1>7. ASSUME \/ OwnerStep \/ (\E op \in {"shutdown", "run", "drop"} : RuntimeCall(op))
             \/ (\E a \in ActorId : DropAddr(a)) \/ Finished \/ UNCHANGED vars
      PROVE  UNCHANGED Contract!vars
  BY <1>5, <1>7 DEF OwnerStep, SignalWorker, SignalDone, JoinWorker, JoinDone, RuntimeCall,
                    DropAddr, Finished, vars
<1> QED BY <1>1, <1>2, <1>3, <1>4, <1>6, <1>7 DEF Next, ClientCall, ClientReturn

(* The multi-threaded runtime implements ActorContract, for any number of  *)
(* workers, clients, actors and messages and any user code, panicking      *)
(* hooks included: each step of its threads is, seen through Status, a     *)
(* step of the contract or none at all.  Whatever the interleaving, actors *)
(* handle their messages one at a time and in the order in which they were *)
(* accepted, none is skipped, a stopped actor handles nothing, and a       *)
(* message is lost only with its actor.                                    *)
THEOREM ContractKept == Spec => KeepsContract
<1>1. Init => Contract!Init
  BY DEF Init, Contract!Init, Status, None, Contract!NoTarget
<1>2. RInv /\ MInv /\ RInv' /\ [Next]_vars => [Contract!Next]_(Contract!vars)
  BY StepKeepsContract
<1> QED BY <1>1, <1>2, MessageInvariant, PTL DEF Spec, KeepsContract, Contract!Spec
=============================================================================
