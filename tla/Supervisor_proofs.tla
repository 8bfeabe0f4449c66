------------------------- MODULE Supervisor_proofs -------------------------
(***************************************************************************)
(* Proofs about the supervisor: its two records of the children agree, a   *)
(* child's position finds its factory, OneForOne restarts are bounded and  *)
(* let go of no child but the reported one, AllForOne keeps one whole      *)
(* generation, for any number of children, any limit and any order of      *)
(* starts, failures and reports.                                           *)
(***************************************************************************)
EXTENDS Supervisor, FiniteSetTheorems, SequenceTheorems, TLAPS

Born == 1 .. next_id - 1

(* Who runs, is a child or came from start_all was spawned, so that the id *)
(* of a new actor is in neither record.                                    *)
Accounted == alive \cup Range(child_ids) \subseteq Born /\ started < next_id

(* Under AllForOne no count is ever raised. *)
NoCounts == strategy = "AllForOne" => \A a \in DOMAIN restart_counts : restart_counts[a] = 0

(* Under OneForOne an actor descends from one of the actors start_all      *)
(* spawned, its slot, by so many restarts, its generation.  No two actors  *)
(* share both, and a child is the last of its slot and has its generation  *)
(* for a count.                                                            *)
Descent(slot, generation) ==
    /\ slot \in [Born -> 1 .. started]
    /\ generation \in [Born -> 0 .. max_restarts]
    /\ \A a, b \in Born : slot[a] = slot[b] /\ generation[a] = generation[b] => a = b
    /\ \A a \in Range(child_ids) :
          /\ generation[a] = restart_counts[a]
          /\ \A b \in Born : slot[b] = slot[a] => generation[b] <= generation[a]
Descended ==
    strategy = "OneForOne" =>
        \E slot \in [Born -> 1 .. started], generation \in [Born -> 0 .. max_restarts] :
            Descent(slot, generation)

SInv == ListsAgree /\ Accounted /\ FactoryFound /\ NoCounts /\ OneGeneration /\ Descended
-----------------------------------------------------------------------------
(* retain takes out every occurrence of a, and nothing else: the k-th of   *)
(* the places that are kept becomes the k-th child.                        *)
LEMMA RetainProperties ==
    ASSUME child_ids \in Seq(ActorId), NEW a, RetainOthers(a)
    PROVE  /\ child_ids' \in Seq(ActorId)
           /\ Len(child_ids') <= Len(child_ids)
           /\ Range(child_ids') = Range(child_ids) \ {a}
           /\ (\A i, j \in DOMAIN child_ids : child_ids[i] = child_ids[j] => i = j)
                => \A i, j \in DOMAIN child_ids' : child_ids'[i] = child_ids'[j] => i = j
<1> DEFINE kept == {i \in DOMAIN child_ids : child_ids[i] # a}
           n == Cardinality(kept)
           Below(k) == {j \in kept : j <= k}
           Place(k) == Cardinality(Below(k))
           at(i) == CHOOSE k \in kept : Place(k) = i
<1>1. child_ids' = [i \in 1 .. n |-> child_ids[at(i)]]
  BY DEF RetainOthers
<1>2. kept \subseteq 1 .. Len(child_ids) /\ Len(child_ids) \in Nat
  OBVIOUS
<1>3. IsFiniteSet(kept) /\ n \in Nat /\ n <= Len(child_ids)
  <2>1. IsFiniteSet(1 .. Len(child_ids)) /\ Cardinality(1 .. Len(child_ids)) = Len(child_ids)
    BY <1>2, FS_Interval
  <2>2. IsFiniteSet(kept) /\ Cardinality(kept) <= Cardinality(1 .. Len(child_ids))
    BY <1>2, <2>1, FS_Subset
  <2> QED BY <2>1, <2>2, FS_CardinalityType
<1>4. \A k \in kept : IsFiniteSet(Below(k)) /\ Place(k) \in 1 .. n
  <2> SUFFICES ASSUME NEW k \in kept PROVE IsFiniteSet(Below(k)) /\ Place(k) \in 1 .. n
    OBVIOUS
  <2>1. Below(k) \in SUBSET kept /\ k \in Below(k)
    BY <1>2
  <2>2. IsFiniteSet(Below(k)) /\ Place(k) <= n
    BY <1>3, <2>1, FS_Subset
  <2>3. Place(k) \in Nat
    BY <2>2, FS_CardinalityType
  <2>4. Place(k) # 0
    BY <2>1, <2>2, FS_EmptySet
  <2> QED BY <1>3, <2>2, <2>3, <2>4
<1>5. \A k, l \in kept : Place(k) = Place(l) => k = l
  <2>1. ASSUME NEW k \in kept, NEW l \in kept, k < l PROVE Place(k) # Place(l)
    <3>1. Below(k) \in SUBSET Below(l) /\ l \in Below(l) /\ l \notin Below(k)
      BY <1>2, <2>1
    <3> QED BY <1>4, <3>1, FS_Subset
  <2> HIDE DEF Place, kept
  <2> QED BY <1>2, <2>1
<1>6. \A i \in 1 .. n : \E k \in kept : Place(k) = i
  <2> DEFINE place == [k \in kept |-> Place(k)]
  <2>1. place \in Injection(kept, 1 .. n)
    <3>1. place \in [kept -> 1 .. n]
      BY <1>4
    <3>2. \A k, l \in kept : place[k] = place[l] => k = l
      BY <1>5
    <3> HIDE DEF kept, n
    <3> QED BY <3>1, <3>2 DEF Injection, IsInjective
  <2>2. IsFiniteSet(1 .. n) /\ Cardinality(1 .. n) = n
    BY <1>3, FS_Interval
  <2>3. place \in Surjection(kept, 1 .. n)
    <3> HIDE DEF place, kept
    <3> QED BY <2>1, <2>2, FS_Injection
  <2>4. \A i \in 1 .. n : \E k \in kept : place[k] = i
    BY <2>3 DEF Surjection
  <2> QED BY <2>4
<1>7. \A i \in 1 .. n : at(i) \in kept /\ Place(at(i)) = i
  <2> HIDE DEF kept, n, Place
  <2> QED BY <1>6
<1>8. \A k \in kept : at(Place(k)) = k
  <2> HIDE DEF kept, n, Place
  <2> QED BY <1>4, <1>5, <1>7
<1>9. \A i \in 1 .. n : child_ids[at(i)] \in ActorId /\ child_ids[at(i)] # a
                        /\ at(i) \in DOMAIN child_ids
  <2> HIDE DEF n, Place, at
  <2> QED BY <1>7
<1>10. child_ids' \in Seq(ActorId) /\ Len(child_ids') = n /\ DOMAIN child_ids' = 1 .. n
  <2> HIDE DEF kept, n, at
  <2> QED BY <1>1, <1>3, <1>9
<1>11. Range(child_ids') = Range(child_ids) \ {a}
  <2>1. ASSUME NEW x \in Range(child_ids') PROVE x \in Range(child_ids) \ {a}
    <3> HIDE DEF kept, n, at
    <3> QED BY <1>1, <1>9, <1>10 DEF Range
  <2>2. ASSUME NEW x \in Range(child_ids), x # a PROVE x \in Range(child_ids')
    <3>1. PICK k \in kept : child_ids[k] = x
      BY <2>2 DEF Range
    <3> HIDE DEF kept, n, Place, at
    <3> QED BY <1>1, <1>4, <1>8, <1>10, <3>1 DEF Range
  <2> QED BY <2>1, <2>2
<1>12. ASSUME \A i, j \in DOMAIN child_ids : child_ids[i] = child_ids[j] => i = j,
             NEW i \in 1 .. n, NEW j \in 1 .. n, child_ids'[i] = child_ids'[j]
      PROVE  i = j
  <2> HIDE DEF kept, n, Place, at
  <2>1. at(i) = at(j)
    BY <1>1, <1>9, <1>12
  <2> QED BY <1>7, <2>1
<1> QED BY <1>3, <1>10, <1>11, <1>12

(* The ids of new actors are the next ones, in order. *)
LEMMA NewIdsProperties ==
    ASSUME TypeOK, NEW fs \in Seq(1 .. child_factories), CallFactories(fs)
    PROVE  /\ next_id' = next_id + Len(fs) /\ next_id' \in 1 .. MaxId + 1
           /\ NewIds(fs) \in Seq(ActorId) /\ Len(NewIds(fs)) = Len(fs)
           /\ \A i \in 1 .. Len(fs) : NewIds(fs)[i] = next_id + i - 1
           /\ Range(NewIds(fs)) = next_id .. next_id' - 1
           /\ maker' \in [ActorId -> 0 .. MaxFactory]
           /\ \A i \in 1 .. Len(fs) : maker'[next_id + i - 1] = fs[i]
           /\ \A a \in ActorId : a < next_id => maker'[a] = maker[a]
           /\ alive' = alive \cup (next_id .. next_id' - 1)
<1>1. /\ next_id' = next_id + Len(fs) /\ next_id' \in 1 .. MaxId + 1
      /\ next_id \in Nat /\ MaxId \in Nat /\ next_id >= 1
      /\ Len(fs) \in Nat /\ DOMAIN fs = 1 .. Len(fs)
  BY BoundAssumption DEF CallFactories, TypeOK
<1>2. \A i \in 1 .. Len(fs) : NewIds(fs)[i] = next_id + i - 1 /\ NewIds(fs)[i] \in ActorId
  BY <1>1 DEF NewIds, ActorId
<1>3. NewIds(fs) \in Seq(ActorId) /\ Len(NewIds(fs)) = Len(fs)
  <2>1. NewIds(fs) = [i \in 1 .. Len(fs) |-> next_id + i - 1]
    BY <1>1 DEF NewIds
  <2>2. \A i \in 1 .. Len(fs) : next_id + i - 1 \in ActorId
    BY <1>2, <2>1
  <2> QED BY <1>1, <2>1, <2>2
<1>4. Range(NewIds(fs)) = next_id .. next_id' - 1
  <2>1. ASSUME NEW x \in Range(NewIds(fs)) PROVE x \in next_id .. next_id' - 1
    BY <1>1, <1>2, <1>3 DEF Range
  <2>2. ASSUME NEW x \in next_id .. next_id' - 1 PROVE x \in Range(NewIds(fs))
    <3>1. x - next_id + 1 \in 1 .. Len(fs) /\ next_id + (x - next_id + 1) - 1 = x
      BY <1>1
    <3> QED BY <1>2, <1>3, <3>1 DEF Range
  <2> QED BY <2>1, <2>2
<1>5. /\ maker' \in [ActorId -> 0 .. MaxFactory]
      /\ \A i \in 1 .. Len(fs) : maker'[next_id + i - 1] = fs[i]
      /\ \A a \in ActorId : a < next_id => maker'[a] = maker[a]
  <2>1. maker' = [a \in ActorId |->
                    IF a \in next_id .. next_id' - 1 THEN fs[a - next_id + 1] ELSE maker[a]]
    BY <1>4 DEF CallFactories
  <2>2. \A i \in 1 .. Len(fs) : fs[i] \in 0 .. MaxFactory
    BY BoundAssumption DEF TypeOK
  <2>3. \A a \in next_id .. next_id' - 1 : a - next_id + 1 \in 1 .. Len(fs)
    BY <1>1
  <2>4. maker \in [ActorId -> 0 .. MaxFactory]
    BY DEF TypeOK
  <2>5. \A i \in 1 .. Len(fs) : /\ next_id + i - 1 \in ActorId
                                /\ next_id + i - 1 \in next_id .. next_id' - 1
                                /\ (next_id + i - 1) - next_id + 1 = i
    BY <1>1 DEF ActorId
  <2>6. maker' \in [ActorId -> 0 .. MaxFactory]
    BY <2>1, <2>2, <2>3, <2>4
  <2>7. \A i \in 1 .. Len(fs) : maker'[next_id + i - 1] = fs[i]
    BY <2>1, <2>5
  <2>8. \A a \in ActorId : a < next_id => maker'[a] = maker[a]
    BY <1>1, <2>1 DEF ActorId
  <2> QED BY <2>6, <2>7, <2>8
<1>6. alive' = alive \cup (next_id .. next_id' - 1)
  BY <1>4 DEF CallFactories
<1> QED BY <1>1, <1>2, <1>3, <1>4, <1>5, <1>6

(* Every factory called once: the new ids stand in the order of the        *)
(* factories.                                                              *)
LEMMA CallAllProperties ==
    ASSUME TypeOK, CallFactories(AllFactories)
    PROVE  /\ next_id' = next_id + child_factories /\ next_id' \in 1 .. MaxId + 1
           /\ NewIds(AllFactories) \in Seq(ActorId)
           /\ Len(NewIds(AllFactories)) = child_factories
           /\ \A i \in 1 .. child_factories : NewIds(AllFactories)[i] = next_id + i - 1
           /\ Range(NewIds(AllFactories)) = next_id .. next_id' - 1
           /\ next_id .. next_id' - 1 \subseteq ActorId
           /\ maker' \in [ActorId -> 0 .. MaxFactory]
           /\ \A i \in 1 .. child_factories : maker'[next_id + i - 1] = i
           /\ \A a \in ActorId : a < next_id => maker'[a] = maker[a]
           /\ alive' = alive \cup (next_id .. next_id' - 1)
<1>1. /\ AllFactories \in Seq(1 .. child_factories) /\ Len(AllFactories) = child_factories
      /\ \A i \in 1 .. child_factories : AllFactories[i] = i
  BY DEF AllFactories, TypeOK
<1>2. next_id \in Nat /\ next_id >= 1 /\ MaxId \in Nat /\ child_factories \in Nat
  BY BoundAssumption DEF TypeOK
<1>3. next_id' \in 1 .. MaxId + 1
  BY <1>1, NewIdsProperties
<1>4. next_id' = next_id + child_factories
  BY <1>1, NewIdsProperties
<1>5. next_id .. next_id' - 1 \subseteq ActorId
  BY <1>2, <1>3, <1>4 DEF ActorId
<1> QED BY <1>1, <1>5, NewIdsProperties
-----------------------------------------------------------------------------
LEMMA InitSInv == Init => SInv
<1> SUFFICES ASSUME Init PROVE SInv
  OBVIOUS
<1>1. Born = {} /\ Range(child_ids) = {} /\ Len(child_ids) = 0 /\ child_ids \in Seq(ActorId)
  BY DEF Init, Born, Range
<1>2. ListsAgree
  <2>1. MaxId \in Nat /\ MaxFactory \in Nat /\ DOMAIN restart_counts = {} /\ DOMAIN child_ids = {}
    BY <1>1, BoundAssumption DEF Init
  <2>2. TypeOK
    <3>1. restart_counts = [b \in {} |-> 0] /\ child_ids \in Seq(ActorId)
      BY <1>1 DEF Init
    <3>2. /\ maker \in [ActorId -> 0 .. MaxFactory] /\ next_id \in 1 .. MaxId + 1
          /\ started \in 0 .. MaxId
      BY BoundAssumption DEF Init
    <3>3. panicked \in BOOLEAN /\ doubled \in BOOLEAN /\ misreported \in BOOLEAN
      BY DEF Init
    <3>4. strategy \in {"OneForOne", "AllForOne"} /\ max_restarts \in 0 .. MaxRestarts
          /\ child_factories \in 0 .. MaxFactory /\ alive \subseteq ActorId
      BY BoundAssumption DEF Init
    <3> QED BY <2>1, <3>1, <3>2, <3>3, <3>4 DEF TypeOK
  <2> QED BY <1>1, <2>1, <2>2 DEF ListsAgree
<1>3. Accounted /\ FactoryFound /\ NoCounts /\ OneGeneration
  BY <1>1 DEF Init, Accounted, FactoryFound, NoCounts, OneGeneration
<1>4. Descended
  <2> DEFINE none == [a \in Born |-> 0]
  <2>1. none \in [Born -> 1 .. started] /\ none \in [Born -> 0 .. max_restarts]
    BY <1>1
  <2>2. Descent(none, none)
    BY <1>1, <2>1 DEF Descent
  <2> QED BY <2>1, <2>2 DEF Descended
<1> QED BY <1>2, <1>3, <1>4 DEF SInv

(* Nothing changes but, perhaps, what is remembered of the reports. *)
LEMMA SameSInv ==
    ASSUME SInv, misreported' \in BOOLEAN,
           UNCHANGED <<params, child_factories, child_ids, restart_counts, next_id, alive, panicked,
                       maker, started, doubled>>
    PROVE  SInv'
<1>1. ListsAgree' /\ Accounted' /\ FactoryFound' /\ NoCounts' /\ OneGeneration'
  BY DEF SInv, ListsAgree, TypeOK, Accounted, FactoryFound, Born, NoCounts, OneGeneration, params
<1>2. Descended'
  BY DEF SInv, Descended, Descent, Born, params
<1> QED BY <1>1, <1>2 DEF SInv

LEMMA RegisterChildSInv == ASSUME SInv, RegisterChild PROVE SInv'
<1>1. Born' = Born /\ child_factories' = child_factories + 1 /\ child_factories \in Nat
      /\ child_factories' \in 0 .. MaxFactory
      /\ UNCHANGED <<params, child_ids, restart_counts, next_id, maker, alive, panicked,
                     started, doubled, misreported>>
  BY BoundAssumption DEF RegisterChild, Born, SInv, ListsAgree, TypeOK, records
<1>2. ListsAgree'
  BY <1>1 DEF SInv, ListsAgree, TypeOK, params
<1>3. Accounted' /\ NoCounts' /\ OneGeneration'
  BY <1>1 DEF SInv, Accounted, NoCounts, OneGeneration, params
<1>4. FactoryFound'
  <2>1. Len(child_ids) \in Nat
    BY DEF SInv, ListsAgree, TypeOK
  <2> QED BY <1>1, <2>1 DEF SInv, FactoryFound
<1>5. Descended'
  BY <1>1 DEF SInv, Descended, Descent, params
<1> QED BY <1>2, <1>3, <1>4, <1>5 DEF SInv

LEMMA FailSInv == ASSUME SInv, NEW a \in ActorId, Fail(a) PROVE SInv'
<1>1. /\ Born' = Born /\ alive' = alive \ {a}
      /\ UNCHANGED <<params, child_factories, child_ids, restart_counts, next_id, maker, panicked,
                     started, doubled, misreported>>
  BY DEF Fail, Born, records
<1>2. ListsAgree'
  BY <1>1 DEF SInv, ListsAgree, TypeOK, params
<1>3. Accounted' /\ FactoryFound' /\ NoCounts' /\ OneGeneration'
  BY <1>1 DEF SInv, Accounted, FactoryFound, NoCounts, OneGeneration, params
<1>4. Descended'
  BY <1>1 DEF SInv, Descended, Descent, params
<1> QED BY <1>2, <1>3, <1>4 DEF SInv

(* start_all: the new actors come last, each with a slot of its own.       *)
LEMMA StartAllSInv == ASSUME SInv, StartAll PROVE SInv'
<1> DEFINE new == NewIds(AllFactories)
<1>0. /\ TypeOK /\ child_factories \in Nat /\ max_restarts \in Nat /\ started \in Nat
      /\ next_id \in Nat /\ next_id >= 1 /\ started < next_id /\ MaxId \in Nat
      /\ CallFactories(AllFactories)
      /\ child_ids' = child_ids \o new
      /\ started' = started + child_factories
      /\ doubled' = (doubled \/ (child_ids # <<>> /\ child_factories > 0))
      /\ UNCHANGED <<params, child_factories, panicked, misreported>>
  BY BoundAssumption DEF SInv, ListsAgree, TypeOK, Accounted, StartAll
<1>1. /\ next_id' = next_id + child_factories /\ next_id' \in 1 .. MaxId + 1
      /\ new \in Seq(ActorId) /\ Len(new) = child_factories
      /\ \A i \in 1 .. child_factories : new[i] = next_id + i - 1
      /\ Range(new) = next_id .. next_id' - 1
      /\ next_id .. next_id' - 1 \subseteq ActorId
      /\ maker' \in [ActorId -> 0 .. MaxFactory]
      /\ \A i \in 1 .. child_factories : maker'[next_id + i - 1] = i
      /\ \A a \in ActorId : a < next_id => maker'[a] = maker[a]
      /\ alive' = alive \cup (next_id .. next_id' - 1)
  BY <1>0, CallAllProperties
<1>2. /\ child_ids \in Seq(ActorId) /\ Len(child_ids) \in Nat
      /\ DOMAIN child_ids = 1 .. Len(child_ids)
      /\ child_ids' \in Seq(ActorId) /\ Len(child_ids') = Len(child_ids) + child_factories
      /\ DOMAIN child_ids' = 1 .. Len(child_ids) + child_factories
      /\ Range(child_ids') = Range(child_ids) \cup (next_id .. next_id' - 1)
  <2>1. child_ids \in Seq(ActorId)
    BY <1>0 DEF TypeOK
  <2> HIDE DEF new
  <2>2. /\ child_ids' \in Seq(ActorId) /\ Len(child_ids') = Len(child_ids) + child_factories
        /\ Range(child_ids') = Range(child_ids) \cup (next_id .. next_id' - 1)
    <3>1. /\ child_ids \o new \in Seq(ActorId)
          /\ Len(child_ids \o new) = Len(child_ids) + Len(new)
          /\ Range(child_ids \o new) = Range(child_ids) \cup Range(new)
      <4>1. new \in Seq(ActorId)
        BY <1>1
      <4> QED BY <2>1, <4>1, ConcatProperties, RangeConcatenation
    <3> QED BY <1>0, <1>1, <3>1
  <2> QED BY <2>1, <2>2
<1>3. /\ Born' = Born \cup (next_id .. next_id' - 1) /\ Born \cap (next_id .. next_id' - 1) = {}
      /\ Range(child_ids) \subseteq Born
  BY <1>0, <1>1 DEF Born, SInv, Accounted
<1>4. /\ DOMAIN restart_counts' = DOMAIN restart_counts \cup (next_id .. next_id' - 1)
      /\ \A b \in next_id .. next_id' - 1 : restart_counts'[b] = 0
      /\ \A b \in DOMAIN restart_counts : b \in Born /\ restart_counts'[b] = restart_counts[b]
  BY <1>1, <1>3 DEF StartAll, SInv, ListsAgree
<1>5. ListsAgree'
  <2>1. TypeOK'
    <3>1. started' \in 0 .. MaxId /\ doubled' \in BOOLEAN
      BY <1>0, <1>1
    <3>2. \A b \in DOMAIN restart_counts' : restart_counts'[b] \in 0 .. max_restarts'
      BY <1>0, <1>4 DEF TypeOK, params
    <3>3. alive' \subseteq ActorId /\ DOMAIN restart_counts' \subseteq ActorId
      BY <1>0, <1>1, <1>4 DEF TypeOK
    <3> QED BY <1>0, <1>1, <1>2, <3>1, <3>2, <3>3 DEF TypeOK, params
  <2>2. ASSUME NEW i \in DOMAIN child_ids', NEW j \in DOMAIN child_ids',
               child_ids'[i] = child_ids'[j]
        PROVE  i = j
    <3> HIDE DEF new
    <3>1. \A k \in 1 .. Len(child_ids) + child_factories :
            child_ids'[k] = IF k <= Len(child_ids) THEN child_ids[k] ELSE new[k - Len(child_ids)]
      BY <1>0, <1>1, <1>2
    <3>2. \A k \in 1 .. Len(child_ids) : child_ids'[k] = child_ids[k] /\ child_ids'[k] \in Born
      <4>1. \A k \in 1 .. Len(child_ids) : child_ids[k] \in Born
        BY <1>2, <1>3 DEF Range
      <4> QED BY <1>0, <1>2, <3>1, <4>1
    <3>3. \A k \in Len(child_ids) + 1 .. Len(child_ids) + child_factories :
            child_ids'[k] = next_id + (k - Len(child_ids)) - 1
      <4> SUFFICES ASSUME NEW k \in Len(child_ids) + 1 .. Len(child_ids) + child_factories
                   PROVE  child_ids'[k] = next_id + (k - Len(child_ids)) - 1
        OBVIOUS
      <4>1. k - Len(child_ids) \in 1 .. child_factories /\ k > Len(child_ids)
            /\ k \in 1 .. Len(child_ids) + child_factories
        BY <1>0, <1>2
      <4>2. child_ids'[k] = new[k - Len(child_ids)]
        BY <1>2, <3>1, <4>1
      <4> QED BY <1>1, <4>1, <4>2
    <3>4. \A k, l \in 1 .. Len(child_ids) : child_ids[k] = child_ids[l] => k = l
      BY <1>2 DEF SInv, ListsAgree
    <3>5. i \in 1 .. Len(child_ids) + child_factories /\ j \in 1 .. Len(child_ids) + child_factories
      BY <1>2
    <3>6. CASE i \in 1 .. Len(child_ids) /\ j \in 1 .. Len(child_ids)
      BY <2>2, <3>2, <3>4, <3>6
    <3>7. CASE i \notin 1 .. Len(child_ids) /\ j \notin 1 .. Len(child_ids)
      BY <1>0, <1>2, <2>2, <3>3, <3>5, <3>7
    <3>8. CASE i \in 1 .. Len(child_ids) /\ j \notin 1 .. Len(child_ids)
      BY <1>0, <1>2, <2>2, <3>2, <3>3, <3>5, <3>8 DEF Born
    <3>9. CASE i \notin 1 .. Len(child_ids) /\ j \in 1 .. Len(child_ids)
      BY <1>0, <1>2, <2>2, <3>2, <3>3, <3>5, <3>9 DEF Born
    <3> QED BY <3>6, <3>7, <3>8, <3>9
  <2>3. /\ DOMAIN restart_counts' \subseteq Range(child_ids')
        /\ strategy' = "OneForOne" \/ ~ doubled' => DOMAIN restart_counts' = Range(child_ids')
    BY <1>0, <1>2, <1>4 DEF SInv, ListsAgree, params
  <2> QED BY <2>1, <2>2, <2>3 DEF ListsAgree
<1>6. Accounted'
  BY <1>0, <1>1, <1>2, <1>3 DEF SInv, Accounted
<1>7. NoCounts'
  BY <1>0, <1>4 DEF SInv, NoCounts, params
<1>8. (~ doubled' => ~ doubled) /\ (~ doubled' => child_ids = <<>> \/ child_factories = 0)
  <2>1. child_factories > 0 \/ child_factories = 0
    BY <1>0
  <2> QED BY <1>0, <2>1, Zenon
<1>9. FactoryFound'
  BY <1>0, <1>2, <1>8 DEF SInv, FactoryFound
<1>10. OneGeneration'
  <2> SUFFICES ASSUME strategy = "AllForOne", max_restarts > 0, ~ doubled',
                      NEW i \in DOMAIN child_ids'
               PROVE  /\ child_ids'[i] = next_id' - 1 - Len(child_ids') + i
                      /\ maker'[child_ids'[i]] = i
    BY <1>0 DEF OneGeneration, params
  <2>1. CASE child_ids = <<>>
    <3>1. child_ids' = new
      BY <1>0, <1>1, <2>1
    <3> QED BY <1>0, <1>1, <1>2, <2>1, <3>1
  <2>2. CASE child_factories = 0
    <3>1. child_ids' = child_ids /\ next_id' = next_id
      <4> HIDE DEF new
      <4>1. new = <<>>
        BY <1>1, <2>2
      <4> QED BY <1>0, <1>1, <1>2, <2>2, <4>1
    <3>2. child_ids[i] \in Born /\ child_ids[i] \in ActorId
      BY <1>2, <1>3, <3>1 DEF Range
    <3>3. child_ids[i] < next_id
      BY <1>0, <3>2 DEF Born
    <3> QED BY <1>0, <1>1, <1>8, <3>1, <3>2, <3>3 DEF SInv, OneGeneration
  <2> QED BY <1>8, <2>1, <2>2
<1>11. Descended'
  <2> SUFFICES ASSUME strategy = "OneForOne"
               PROVE  \E slot \in [Born' -> 1 .. started'],
                         generation \in [Born' -> 0 .. max_restarts'] :
                            Descent(slot, generation)'
    BY <1>0 DEF Descended, params
  <2>1. PICK slot \in [Born -> 1 .. started],
             generation \in [Born -> 0 .. max_restarts] : Descent(slot, generation)
    BY DEF SInv, Descended
  <2>2. PICK s : s = [b \in Born' |-> IF b < next_id THEN slot[b] ELSE started + (b - next_id) + 1]
    OBVIOUS
  <2>3. PICK g : g = [b \in Born' |-> IF b < next_id THEN generation[b] ELSE 0]
    OBVIOUS
  <2>4. \A b \in Born : s[b] = slot[b] /\ g[b] = generation[b] /\ s[b] \in 1 .. started
                       /\ g[b] \in 0 .. max_restarts
    <3>1. \A b \in Born : b \in Born' /\ b < next_id
      <4>1. \A b \in Born : b < next_id
        BY DEF Born, SInv, ListsAgree, TypeOK
      <4> QED BY <1>3, <4>1
    <3> QED BY <2>1, <2>2, <2>3, <3>1
  <2>5. \A b \in next_id .. next_id' - 1 :
            s[b] = started + (b - next_id) + 1 /\ g[b] = 0 /\ s[b] \in started + 1 .. started'
    BY <1>0, <1>1, <1>3, <2>2, <2>3
  <2>6. s \in [Born' -> 1 .. started'] /\ g \in [Born' -> 0 .. max_restarts']
    <3>1. \A b \in Born' : s[b] \in 1 .. started' /\ g[b] \in 0 .. max_restarts'
      BY <1>0, <1>3, <2>4, <2>5 DEF params
    <3> QED BY <2>2, <2>3, <3>1
  <2>7. \A b, c \in Born' : s[b] = s[c] /\ g[b] = g[c] => b = c
    <3>1. \A b, c \in Born : s[b] = s[c] /\ g[b] = g[c] => b = c
      BY <2>1, <2>4 DEF Descent
    <3>2. \A b \in Born, c \in next_id .. next_id' - 1 : s[b] # s[c]
      BY <1>0, <2>4, <2>5
    <3>3. \A b, c \in next_id .. next_id' - 1 : s[b] = s[c] => b = c
      BY <1>0, <1>1, <2>5
    <3> QED BY <1>3, <3>1, <3>2, <3>3
  <2>8. ASSUME NEW c \in Range(child_ids')
        PROVE  /\ g[c] = restart_counts'[c]
               /\ \A b \in Born' : s[b] = s[c] => g[b] <= g[c]
    <3>1. CASE c \in Range(child_ids)
      <4>1. c \in Born /\ c \in DOMAIN restart_counts
        BY <1>0, <1>3, <3>1 DEF SInv, ListsAgree
      <4>2. generation[c] = restart_counts[c]
            /\ \A b \in Born : slot[b] = slot[c] => generation[b] <= generation[c]
        BY <2>1, <3>1 DEF Descent
      <4>3. \A b \in next_id .. next_id' - 1 : s[b] # s[c]
        BY <1>0, <2>4, <2>5, <4>1
      <4> QED BY <1>3, <1>4, <2>4, <4>1, <4>2, <4>3
    <3>2. CASE c \in next_id .. next_id' - 1
      <4>1. \A b \in Born : s[b] # s[c]
        BY <1>0, <2>4, <2>5, <3>2
      <4> QED BY <1>3, <1>4, <2>5, <3>2, <4>1
    <3> QED BY <1>2, <3>1, <3>2
  <2>9. Descent(s, g)'
    BY <2>6, <2>7, <2>8 DEF Descent
  <2> QED BY <2>6, <2>9
<1> QED BY <1>5, <1>6, <1>7, <1>9, <1>10, <1>11 DEF SInv
-----------------------------------------------------------------------------
(* A child is given up: it is out of both records. *)
LEMMA GiveUpSInv ==
    ASSUME SInv, NEW a, GiveUp(a), UNCHANGED <<params, child_factories, started, doubled>>,
           misreported' \in BOOLEAN
    PROVE  SInv'
<1>0. /\ TypeOK /\ child_ids \in Seq(ActorId) /\ RetainOthers(a) /\ Born' = Born
      /\ UNCHANGED <<params, child_factories, next_id, maker, alive, panicked, started, doubled>>
  BY DEF SInv, ListsAgree, TypeOK, GiveUp, Born
<1>1. /\ child_ids' \in Seq(ActorId)
      /\ Len(child_ids') <= Len(child_ids)
      /\ Range(child_ids') = Range(child_ids) \ {a}
      /\ \A i, j \in DOMAIN child_ids' : child_ids'[i] = child_ids'[j] => i = j
  BY <1>0, RetainProperties DEF SInv, ListsAgree
<1>2. /\ DOMAIN restart_counts' = DOMAIN restart_counts \ {a}
      /\ \A k \in DOMAIN restart_counts' : restart_counts'[k] = restart_counts[k]
  BY DEF GiveUp, Forget
<1>3. ListsAgree'
  <2>1. TypeOK'
    BY <1>0, <1>1, <1>2 DEF TypeOK, params
  <2>2. /\ DOMAIN restart_counts' \subseteq Range(child_ids')
        /\ strategy' = "OneForOne" \/ ~ doubled' => DOMAIN restart_counts' = Range(child_ids')
    BY <1>0, <1>1, <1>2 DEF SInv, ListsAgree, params
  <2> QED BY <1>1, <2>1, <2>2 DEF ListsAgree
<1>4. Accounted' /\ NoCounts'
  BY <1>0, <1>1, <1>2 DEF SInv, Accounted, NoCounts, params
<1>5. FactoryFound'
  <2>1. Len(child_ids) \in Nat /\ Len(child_ids') \in Nat /\ child_factories \in Nat
    BY <1>0, <1>1 DEF TypeOK
  <2> QED BY <1>0, <1>1, <2>1 DEF SInv, FactoryFound
<1>6. OneGeneration'
  <2> SUFFICES ASSUME strategy = "AllForOne", max_restarts > 0 PROVE FALSE
    BY <1>0 DEF OneGeneration, params
  <2>1. Count(a) = 0
    BY DEF SInv, NoCounts, Count
  <2> QED BY <1>0, <2>1 DEF GiveUp, Exceeded, TypeOK
<1>7. Descended'
  <2> SUFFICES ASSUME strategy = "OneForOne"
               PROVE  \E slot \in [Born' -> 1 .. started'],
                         generation \in [Born' -> 0 .. max_restarts'] :
                            Descent(slot, generation)'
    BY <1>0 DEF Descended, params
  <2>1. PICK slot \in [Born -> 1 .. started],
             generation \in [Born -> 0 .. max_restarts] : Descent(slot, generation)
    BY DEF SInv, Descended
  <2>2. slot \in [Born' -> 1 .. started'] /\ generation \in [Born' -> 0 .. max_restarts']
    BY <1>0 DEF params
  <2>3. \A b \in Range(child_ids') : b \in Range(child_ids) /\ restart_counts'[b] = restart_counts[b]
    BY <1>1, <1>2 DEF SInv, ListsAgree
  <2>4. Descent(slot, generation)'
    BY <1>0, <2>1, <2>2, <2>3 DEF Descent, params
  <2> QED BY <2>2, <2>4
<1> QED BY <1>3, <1>4, <1>5, <1>6, <1>7 DEF SInv

(* One child is restarted: it is the last of its slot, so that its         *)
(* successor is the first of the next generation there.                    *)
LEMMA RestartOneSInv ==
    ASSUME SInv, NEW a, RestartOne(a), UNCHANGED <<params, child_factories, started, doubled>>,
           misreported' \in BOOLEAN
    PROVE  SInv'
<1>0. /\ TypeOK /\ child_ids \in Seq(ActorId) /\ Len(child_ids) \in Nat
      /\ DOMAIN child_ids = 1 .. Len(child_ids)
      /\ child_factories \in Nat /\ next_id \in Nat /\ next_id >= 1 /\ max_restarts \in Nat
      /\ strategy = "OneForOne" /\ strategy' = "OneForOne"
      /\ UNCHANGED <<params, child_factories, started, doubled>>
  BY BoundAssumption DEF SInv, ListsAgree, TypeOK, RestartOne, params
<1>1. CASE a \notin Range(child_ids)
  <2>1. UNCHANGED <<child_ids, restart_counts, next_id, alive, panicked, maker>>
    BY <1>1 DEF RestartOne, records
  <2> QED BY <1>0, <2>1, SameSInv
<1>2. CASE /\ a \in Range(child_ids)
           /\ \E i \in DOMAIN child_ids : i > child_factories /\ panicked' = TRUE
           /\ UNCHANGED <<child_ids, restart_counts, next_id, alive, maker>>
  <2>1. doubled
    BY <1>0, <1>2 DEF SInv, FactoryFound
  <2>2. ListsAgree' /\ Accounted' /\ FactoryFound' /\ NoCounts' /\ OneGeneration'
    BY <1>0, <1>2, <2>1 DEF SInv, ListsAgree, TypeOK, Accounted, FactoryFound, Born, NoCounts,
                            OneGeneration, params
  <2>3. Descended'
    <3>1. UNCHANGED <<params, child_ids, restart_counts, next_id, started>>
      BY <1>0, <1>2
    <3> QED BY <3>1 DEF SInv, Descended, Descent, Born, params
  <2> QED BY <2>2, <2>3 DEF SInv
<1>3. ASSUME a \in Range(child_ids), NEW i \in DOMAIN child_ids, child_ids[i] = a,
             i \in 1 .. child_factories, CallFactories(<<i>>),
             child_ids' = Replaced(i), restart_counts' = Recounted(a), panicked' = panicked
      PROVE  SInv'
  <2>1. child_ids[i] = a /\ CallFactories(<<i>>)
        /\ child_ids' = Replaced(i) /\ restart_counts' = Recounted(a)
    BY <1>3
  <2>2. /\ next_id' = next_id + 1 /\ next_id' \in 1 .. MaxId + 1
        /\ maker' \in [ActorId -> 0 .. MaxFactory]
        /\ alive' = alive \cup {next_id}
    <3>1. i \in 1 .. child_factories /\ <<i>> \in Seq(1 .. child_factories) /\ Len(<<i>>) = 1
      BY <1>3
    <3>2. next_id .. (next_id + 1) - 1 = {next_id}
      BY <1>0
    <3> QED BY <1>0, <2>1, <3>1, <3>2, NewIdsProperties
  <2>3. next_id \in ActorId /\ next_id \notin Born /\ Born' = Born \cup {next_id} /\ a # next_id
        /\ a \in Born
    <3>1. a \in Born
      BY <1>3 DEF SInv, Accounted
    <3>2. next_id \in ActorId /\ next_id \notin Born
      BY <1>0, <2>2, BoundAssumption DEF Born, ActorId
    <3>3. Born' = Born \cup {next_id}
      BY <1>0, <2>2 DEF Born
    <3> QED BY <3>1, <3>2, <3>3
  <2>4. /\ child_ids' = [child_ids EXCEPT ![i] = next_id] /\ child_ids' \in Seq(ActorId)
        /\ Len(child_ids') = Len(child_ids) /\ DOMAIN child_ids' = DOMAIN child_ids
    BY <1>0, <2>1, <2>3 DEF Replaced
  <2>5. \A k, j \in DOMAIN child_ids : child_ids[k] = child_ids[j] => k = j
    BY DEF SInv, ListsAgree
  <2>6. Range(child_ids') = (Range(child_ids) \ {a}) \cup {next_id}
    <3>1. ASSUME NEW x \in Range(child_ids') PROVE x \in (Range(child_ids) \ {a}) \cup {next_id}
      <4>1. PICK k \in DOMAIN child_ids : child_ids'[k] = x
        BY <2>4 DEF Range
      <4> QED BY <2>1, <2>4, <2>5, <4>1 DEF Range
    <3>2. ASSUME NEW x \in Range(child_ids), x # a PROVE x \in Range(child_ids')
      <4>1. PICK k \in DOMAIN child_ids : child_ids[k] = x
        BY DEF Range
      <4> QED BY <2>1, <2>4, <3>2, <4>1 DEF Range
    <3>3. next_id \in Range(child_ids')
      BY <2>1, <2>4 DEF Range
    <3> QED BY <3>1, <3>2, <3>3
  <2>7. /\ DOMAIN restart_counts = Range(child_ids)
        /\ DOMAIN restart_counts' = Range(child_ids')
        /\ restart_counts[a] \in 0 .. max_restarts /\ restart_counts[a] < max_restarts
        /\ restart_counts'[next_id] = restart_counts[a] + 1
        /\ \A b \in Range(child_ids) \ {a} : restart_counts'[b] = restart_counts[b]
    <3>1. DOMAIN restart_counts = Range(child_ids) /\ restart_counts[a] \in 0 .. max_restarts
      BY <1>0, <1>3 DEF SInv, ListsAgree, TypeOK
    <3>2. Count(a) = restart_counts[a] /\ restart_counts[a] < max_restarts
      BY <1>0, <1>3, <3>1 DEF Count, RestartOne, Exceeded
    <3>3. next_id \notin Range(child_ids)
      BY <2>3 DEF SInv, Accounted
    <3> QED BY <2>1, <2>6, <3>1, <3>2, <3>3 DEF Recounted
  <2>8. ListsAgree'
    <3>1. \A b \in DOMAIN restart_counts' : restart_counts'[b] \in 0 .. max_restarts'
      <4> SUFFICES ASSUME NEW b \in DOMAIN restart_counts' PROVE restart_counts'[b] \in 0 .. max_restarts
        BY <1>0 DEF params
      <4>1. CASE b = next_id
        BY <1>0, <2>7, <4>1
      <4>2. CASE b \in Range(child_ids) \ {a}
        BY <1>0, <2>7, <4>2 DEF TypeOK
      <4> QED BY <2>6, <2>7, <4>1, <4>2
    <3>2. TypeOK'
      <4>1. Range(child_ids') \subseteq ActorId
        BY <2>4 DEF Range
      <4> QED BY <1>0, <1>3, <2>2, <2>3, <2>4, <2>7, <3>1, <4>1 DEF TypeOK, params
    <3>3. \A k, j \in DOMAIN child_ids' : child_ids'[k] = child_ids'[j] => k = j
      <4>1. next_id \notin Range(child_ids)
        BY <2>3 DEF SInv, Accounted
      <4> QED BY <2>1, <2>4, <2>5, <4>1 DEF Range
    <3> QED BY <2>7, <3>2, <3>3 DEF ListsAgree
  <2>9. Accounted'
    <3>1. started' < next_id'
      BY <1>0, <2>2 DEF SInv, Accounted, TypeOK
    <3> QED BY <2>2, <2>3, <2>6, <3>1 DEF SInv, Accounted
  <2>10. FactoryFound'
    BY <1>0, <1>3, <2>4 DEF SInv, FactoryFound
  <2>11. NoCounts' /\ OneGeneration'
    BY <1>0 DEF NoCounts, OneGeneration
  <2>12. Descended'
    <3>1. PICK slot \in [Born -> 1 .. started],
               generation \in [Born -> 0 .. max_restarts] : Descent(slot, generation)
      BY <1>0 DEF SInv, Descended
    <3>2. PICK s : s = [b \in Born' |-> IF b = next_id THEN slot[a] ELSE slot[b]]
      OBVIOUS
    <3>3. PICK g : g = [b \in Born' |-> IF b = next_id THEN generation[a] + 1 ELSE generation[b]]
      OBVIOUS
    <3>4. generation[a] = restart_counts[a] /\ generation[a] \in Nat
          /\ \A b \in Born : slot[b] = slot[a] => generation[b] <= generation[a]
      BY <1>3, <2>3, <3>1 DEF Descent
    <3>5. /\ s[next_id] = slot[a] /\ g[next_id] = generation[a] + 1
          /\ \A b \in Born : s[b] = slot[b] /\ g[b] = generation[b] /\ g[b] \in Nat
      BY <2>3, <3>2, <3>3
    <3>6. s \in [Born' -> 1 .. started'] /\ g \in [Born' -> 0 .. max_restarts']
      <4>1. generation[a] + 1 \in 0 .. max_restarts
        BY <1>0, <2>7, <3>4
      <4> QED BY <1>0, <2>3, <3>2, <3>3, <4>1 DEF params
    <3>7. \A b, c \in Born' : s[b] = s[c] /\ g[b] = g[c] => b = c
      <4>1. \A b \in Born : ~ (s[b] = s[next_id] /\ g[b] = g[next_id])
        BY <3>4, <3>5
      <4>2. \A b, c \in Born : slot[b] = slot[c] /\ generation[b] = generation[c] => b = c
        BY <3>1 DEF Descent
      <4> QED BY <2>3, <3>5, <4>1, <4>2
    <3>8. ASSUME NEW c \in Range(child_ids')
          PROVE  /\ g[c] = restart_counts'[c]
                 /\ \A b \in Born' : s[b] = s[c] => g[b] <= g[c]
      <4>1. CASE c = next_id
        BY <2>3, <2>7, <3>4, <3>5, <4>1
      <4>2. CASE c \in Range(child_ids) \ {a}
        <5>1. c \in Born /\ generation[c] = restart_counts[c]
              /\ \A b \in Born : slot[b] = slot[c] => generation[b] <= generation[c]
          BY <3>1, <4>2 DEF Descent, SInv, Accounted
        <5>2. slot[a] # slot[c]
          <6> SUFFICES ASSUME slot[a] = slot[c] PROVE FALSE
            OBVIOUS
          <6>1. generation[a] <= generation[c] /\ generation[c] <= generation[a]
            BY <2>3, <3>4, <5>1
          <6>2. generation[a] = generation[c]
            BY <2>3, <3>5, <5>1, <6>1
          <6>3. a = c
            BY <2>3, <3>1, <5>1, <6>2 DEF Descent
          <6> QED BY <4>2, <6>3
        <5> QED BY <2>3, <2>7, <3>5, <4>2, <5>1, <5>2
      <4> QED BY <2>6, <4>1, <4>2
    <3>9. Descent(s, g)'
      BY <3>6, <3>7, <3>8 DEF Descent
    <3> QED BY <3>6, <3>9 DEF Descended
  <2> QED BY <2>8, <2>9, <2>10, <2>11, <2>12 DEF SInv
<1> QED BY <1>1, <1>2, <1>3 DEF RestartOne, records

(* All factories are called: the new actors take the first places. *)
LEMMA RestartAllSInv ==
    ASSUME SInv, NEW a, RestartAll(a), UNCHANGED <<params, child_factories, started, doubled>>,
           misreported' \in BOOLEAN
    PROVE  SInv'
<1> DEFINE new == NewIds(AllFactories)
<1>0. /\ TypeOK /\ child_factories \in Nat /\ max_restarts \in Nat
      /\ next_id \in Nat /\ next_id >= 1
      /\ strategy = "AllForOne" /\ CallFactories(AllFactories)
  BY BoundAssumption DEF SInv, ListsAgree, TypeOK, RestartAll
<1>0a. strategy' = "AllForOne" /\ UNCHANGED <<params, child_factories, started, doubled, panicked>>
  BY <1>0 DEF RestartAll, params
<1>1. /\ next_id' = next_id + child_factories /\ next_id' \in 1 .. MaxId + 1
      /\ new \in Seq(ActorId) /\ Len(new) = child_factories
      /\ \A i \in 1 .. child_factories : new[i] = next_id + i - 1
      /\ Range(new) = next_id .. next_id' - 1
      /\ next_id .. next_id' - 1 \subseteq ActorId
      /\ maker' \in [ActorId -> 0 .. MaxFactory]
      /\ \A i \in 1 .. child_factories : maker'[next_id + i - 1] = i
      /\ alive' = alive \cup (next_id .. next_id' - 1)
  BY <1>0, CallAllProperties
<1>1a. child_ids \in Seq(ActorId) /\ Len(child_ids) \in Nat
  BY <1>0 DEF TypeOK
<1>1b. PICK L \in Nat : Len(child_ids) = L /\ DOMAIN child_ids = 1 .. L
                       /\ \A i \in 1 .. L : child_ids[i] \in ActorId
  BY <1>1a
<1>2. PICK m \in Nat : m = IF L > child_factories THEN L ELSE child_factories
  BY <1>0
<1>3. /\ m \in Nat /\ m >= child_factories /\ m >= L
      /\ m > child_factories => m = L
  BY <1>0, <1>2
<1>4. /\ child_ids' \in Seq(ActorId) /\ Len(child_ids') = m /\ DOMAIN child_ids' = 1 .. m
      /\ \A i \in 1 .. m : child_ids'[i] = IF i \in 1 .. child_factories
                                           THEN next_id + i - 1 ELSE child_ids[i]
  <2>1. DOMAIN new = 1 .. child_factories
    BY <1>0, <1>1
  <2> HIDE DEF new
  <2>2. child_ids' = [i \in 1 .. m |-> IF i \in 1 .. child_factories THEN new[i] ELSE child_ids[i]]
    BY <1>1, <1>1b, <1>2, <2>1 DEF RestartAll, AllReplaced, new
  <2>3. \A i \in 1 .. m : child_ids'[i] \in ActorId
    <3> SUFFICES ASSUME NEW i \in 1 .. m PROVE child_ids'[i] \in ActorId
      OBVIOUS
    <3>1. CASE i \in 1 .. child_factories
      BY <1>1, <2>1, <2>2, <3>1
    <3>2. CASE i \notin 1 .. child_factories
      <4>1. i \in 1 .. L
        BY <1>0, <1>3, <3>2
      <4> QED BY <1>1b, <2>2, <3>2, <4>1
    <3> QED BY <3>1, <3>2
  <2> QED BY <1>1, <1>3, <2>2, <2>3
<1>5. /\ Born' = Born \cup (next_id .. next_id' - 1) /\ Range(child_ids) \subseteq Born
      /\ \A i \in 1 .. m : i \in 1 .. child_factories \/ i \in 1 .. L
  BY <1>0, <1>1, <1>3 DEF Born, SInv, Accounted
<1>6. /\ next_id .. next_id' - 1 \subseteq Range(child_ids')
      /\ Range(child_ids') \subseteq Born'
      /\ ~ doubled => Range(child_ids') = next_id .. next_id' - 1
  <2>1. ASSUME NEW b \in next_id .. next_id' - 1 PROVE b \in Range(child_ids')
    <3>1. b - next_id + 1 \in 1 .. child_factories /\ next_id + (b - next_id + 1) - 1 = b
      BY <1>0, <1>1
    <3>2. b - next_id + 1 \in 1 .. m
      BY <1>0, <1>3, <3>1
    <3> QED BY <1>4, <3>1, <3>2 DEF Range
  <2>2. ASSUME NEW b \in Range(child_ids')
        PROVE  b \in Born' /\ (~ doubled => b \in next_id .. next_id' - 1)
    <3>1. PICK i \in 1 .. m : child_ids'[i] = b
      BY <1>4 DEF Range
    <3>2. CASE i \in 1 .. child_factories
      BY <1>0, <1>1, <1>4, <1>5, <3>1, <3>2
    <3>3. CASE i \notin 1 .. child_factories
      <4>1. i \in 1 .. L /\ child_ids[i] = b
        BY <1>4, <1>5, <3>1, <3>3
      <4>2. b \in Born
        BY <1>1b, <1>5, <4>1 DEF Range
      <4>3. doubled
        BY <1>0, <1>1b, <3>3, <4>1 DEF SInv, FactoryFound
      <4> QED BY <1>5, <4>2, <4>3
    <3> QED BY <3>2, <3>3
  <2> QED BY <2>1, <2>2
<1>7. /\ DOMAIN restart_counts' = next_id .. next_id' - 1
      /\ \A b \in next_id .. next_id' - 1 : restart_counts'[b] = 0
  BY <1>1 DEF RestartAll, RecountedAll
<1>8. ListsAgree'
  <2>1. TypeOK'
    <3>1. alive' \subseteq ActorId
      BY <1>0, <1>1 DEF TypeOK
    <3>2. \A b \in DOMAIN restart_counts' : restart_counts'[b] \in 0 .. max_restarts'
      BY <1>0, <1>0a, <1>7 DEF params
    <3> QED BY <1>0, <1>0a, <1>1, <1>4, <1>7, <3>1, <3>2 DEF TypeOK, params
  <2>2. ASSUME NEW i \in 1 .. m, NEW j \in 1 .. m, child_ids'[i] = child_ids'[j]
        PROVE  i = j
    <3>1. \A k \in 1 .. L : child_ids[k] \in Born
      BY <1>1b, <1>5 DEF Range
    <3>2. \A k, l \in 1 .. L : child_ids[k] = child_ids[l] => k = l
      BY <1>1b DEF SInv, ListsAgree
    <3>3. CASE i \in 1 .. child_factories /\ j \in 1 .. child_factories
      BY <1>0, <1>4, <2>2, <3>3
    <3>4. CASE i \notin 1 .. child_factories /\ j \notin 1 .. child_factories
      BY <1>4, <1>5, <2>2, <3>2, <3>4
    <3>5. ASSUME NEW k \in 1 .. m, NEW l \in 1 .. m,
                 k \in 1 .. child_factories, l \notin 1 .. child_factories
          PROVE  child_ids'[k] # child_ids'[l]
      <4>1. child_ids[l] < next_id /\ child_ids[l] \in Nat /\ child_ids'[l] = child_ids[l]
        BY <1>0, <1>4, <1>5, <3>1, <3>5 DEF Born
      <4>2. child_ids'[k] = next_id + k - 1
        BY <1>4, <3>5
      <4> QED BY <1>0, <3>5, <4>1, <4>2
    <3>6. (i \in 1 .. child_factories) <=> (j \in 1 .. child_factories)
      BY <2>2, <3>5
    <3> QED BY <3>3, <3>4, <3>6
  <2> QED BY <1>0a, <1>4, <1>6, <1>7, <2>1, <2>2 DEF ListsAgree
<1>9. Accounted'
  <2>1. started' < next_id'
    BY <1>0, <1>0a, <1>1 DEF SInv, Accounted, TypeOK
  <2> QED BY <1>1, <1>5, <1>6, <2>1 DEF SInv, Accounted
<1>10. NoCounts'
  BY <1>7 DEF NoCounts
<1>11. ~ doubled => m = child_factories
  BY <1>0, <1>1b, <1>2 DEF SInv, FactoryFound
<1>12. FactoryFound'
  BY <1>0, <1>0a, <1>4, <1>11 DEF SInv, FactoryFound
<1>13. OneGeneration'
  <2> SUFFICES ASSUME ~ doubled, NEW i \in 1 .. m
               PROVE  /\ child_ids'[i] = next_id' - 1 - m + i
                      /\ maker'[child_ids'[i]] = i
    BY <1>0a, <1>4 DEF OneGeneration
  <2> QED BY <1>0, <1>1, <1>4, <1>11
<1>14. Descended'
  BY <1>0a DEF Descended
<1> QED BY <1>8, <1>9, <1>10, <1>12, <1>13, <1>14 DEF SInv
-----------------------------------------------------------------------------
LEMMA NextSInv == SInv /\ [Next]_vars => SInv'
<1> SUFFICES ASSUME SInv, [Next]_vars PROVE SInv'
  OBVIOUS
<1>1. CASE RegisterChild
  BY <1>1, RegisterChildSInv
<1>2. CASE StartAll
  BY <1>2, StartAllSInv
<1>3. ASSUME NEW a \in ActorId, Fail(a) PROVE SInv'
  BY <1>3, FailSInv
<1>4. ASSUME NEW a \in ActorId \cup {Stranger}, HandleFailure(a) PROVE SInv'
  <2>1. /\ UNCHANGED <<params, child_factories, started, doubled>>
        /\ misreported' \in BOOLEAN
    BY <1>4 DEF HandleFailure, SInv, ListsAgree, TypeOK
  <2>2. CASE GiveUp(a)
    BY <2>1, <2>2, GiveUpSInv
  <2>3. CASE RestartOne(a)
    BY <2>1, <2>3, RestartOneSInv
  <2>4. CASE RestartAll(a)
    BY <2>1, <2>4, RestartAllSInv
  <2> QED BY <1>4, <2>2, <2>3, <2>4 DEF HandleFailure
<1>5. CASE UNCHANGED vars
  BY <1>5, SameSInv DEF vars, records, SInv, ListsAgree, TypeOK
<1> QED BY <1>1, <1>2, <1>3, <1>4, <1>5 DEF Next

(* The inductive invariant holds: the records agree, only actors that were *)
(* spawned run or are children, no count is raised under AllForOne, and    *)
(* the actors of OneForOne fall into one lineage for each actor that       *)
(* start_all spawned.                                                      *)
THEOREM SupervisorInvariant == Spec => []SInv
<1>1. Init => SInv
  BY InitSInv
<1>2. SInv /\ [Next]_vars => SInv'
  BY NextSInv
<1> QED BY <1>1, <1>2, PTL DEF Spec

(* child_ids and restart_counts name the same children, none twice,        *)
(* whatever is reported and how often; only restart_all of supervisor.rs   *)
(* after a second start_all leaves children without a count.               *)
(* And the index child_factories[idx] of restart_one is out of bounds only *)
(* after start_all was called while there were children.                   *)
THEOREM RecordsAgreeHolds == Spec => []RecordsAgree
<1>1. SInv => RecordsAgree
  BY DEF SInv, RecordsAgree
<1> QED BY <1>1, SupervisorInvariant, PTL

(* Under AllForOne the children are the newest generation, whole and in    *)
(* the order of the factories, after every restart_all.                    *)
THEOREM OneGenerationHolds == Spec => []OneGeneration
<1>1. SInv => OneGeneration
  BY DEF SInv
<1> QED BY <1>1, SupervisorInvariant, PTL
-----------------------------------------------------------------------------
(* Under OneForOne every new actor is a child, and give-up and restart_one *)
(* let go of the reported actor and of no other, whoever was reported.     *)
THEOREM OnlyReportedLetGoHolds == Spec => OnlyReportedLetGo
<1> DEFINE Kept == \A a \in Range(child_ids) \ Range(child_ids') : HandleFailure(a)
           Gained == alive' \ alive \subseteq Range(child_ids')
           Step == strategy = "OneForOne" => Kept /\ Gained
<1>1. SInv /\ [Next]_vars => [Step]_vars
  <2> SUFFICES ASSUME SInv, Next, strategy = "OneForOne" PROVE Kept /\ Gained
    OBVIOUS
  <2>0. /\ TypeOK /\ child_ids \in Seq(ActorId) /\ DOMAIN child_ids = 1 .. Len(child_ids)
        /\ Len(child_ids) \in Nat /\ next_id \in Nat
        /\ \A k, j \in DOMAIN child_ids : child_ids[k] = child_ids[j] => k = j
    BY DEF SInv, ListsAgree, TypeOK
  <2>1. CASE RegisterChild
    BY <2>1 DEF RegisterChild, records
  <2>2. CASE StartAll
    <3>1. /\ NewIds(AllFactories) \in Seq(ActorId)
          /\ Range(NewIds(AllFactories)) = next_id .. next_id' - 1
          /\ alive' = alive \cup (next_id .. next_id' - 1)
      BY <2>0, <2>2, CallAllProperties DEF StartAll
    <3>2. Range(child_ids') = Range(child_ids) \cup Range(NewIds(AllFactories))
      <4>1. Range(child_ids \o NewIds(AllFactories)) = Range(child_ids) \cup Range(NewIds(AllFactories))
        <5>1. child_ids \in Seq(ActorId) /\ NewIds(AllFactories) \in Seq(ActorId)
          BY <2>0, <3>1
        <5> QED BY <5>1, RangeConcatenation
      <4> QED BY <2>2, <4>1 DEF StartAll
    <3> QED BY <3>1, <3>2
  <2>3. ASSUME NEW a \in ActorId, Fail(a) PROVE Kept /\ Gained
    BY <2>3 DEF Fail, records
  <2>4. ASSUME NEW a \in ActorId \cup {Stranger}, HandleFailure(a) PROVE Kept /\ Gained
    <3> SUFFICES /\ Range(child_ids) \ Range(child_ids') \subseteq {a}
                 /\ Gained
      BY <2>4
    <3>1. CASE GiveUp(a)
      <4>1. RetainOthers(a) /\ alive' = alive
        BY <3>1 DEF GiveUp
      <4>2. Range(child_ids') = Range(child_ids) \ {a}
        BY <2>0, <4>1, RetainProperties
      <4> QED BY <4>1, <4>2
    <3>2. CASE UNCHANGED <<child_ids, alive>>
      BY <3>2
    <3>3. ASSUME NEW i \in DOMAIN child_ids, child_ids[i] = a, i \in 1 .. child_factories,
                 CallFactories(<<i>>), child_ids' = Replaced(i)
          PROVE  Range(child_ids) \ Range(child_ids') \subseteq {a} /\ Gained
      <4>1. alive' = alive \cup {next_id}
        <5>1. <<i>> \in Seq(1 .. child_factories) /\ Len(<<i>>) = 1
          BY <3>3
        <5>2. next_id .. (next_id + 1) - 1 = {next_id}
          BY <2>0
        <5> QED BY <2>0, <3>3, <5>1, <5>2, NewIdsProperties
      <4>2. child_ids' = [child_ids EXCEPT ![i] = next_id]
        BY <3>3 DEF Replaced
      <4>3. next_id \in Range(child_ids')
        BY <4>2 DEF Range
      <4>4. ASSUME NEW b \in Range(child_ids), b # a PROVE b \in Range(child_ids')
        <5>1. PICK k \in DOMAIN child_ids : child_ids[k] = b
          BY DEF Range
        <5> QED BY <3>3, <4>2, <4>4, <5>1 DEF Range
      <4> QED BY <4>1, <4>3, <4>4
    <3> QED BY <2>4, <3>1, <3>2, <3>3 DEF HandleFailure, RestartOne, RestartAll, records
  <2> QED BY <2>1, <2>2, <2>3, <2>4 DEF Next
<1> QED BY <1>1, SupervisorInvariant, PTL DEF Spec, OnlyReportedLetGo
-----------------------------------------------------------------------------
(* An actor of OneForOne is told apart by its slot and its generation, of  *)
(* which there are started and 1 + max_restarts.                           *)
LEMMA BudgetFromDescent ==
    ASSUME TypeOK, Descended, strategy = "OneForOne"
    PROVE  next_id - 1 <= started * (1 + max_restarts)
<1>1. started \in Nat /\ max_restarts \in Nat /\ next_id \in Nat /\ next_id >= 1
  BY BoundAssumption DEF TypeOK
<1>2. PICK slot \in [Born -> 1 .. started],
           generation \in [Born -> 0 .. max_restarts] : Descent(slot, generation)
  BY DEF Descended
<1> DEFINE S == 1 .. started
           G == 0 .. max_restarts
           place == [a \in Born |-> <<slot[a], generation[a]>>]
<1>3. place \in Injection(Born, S \X G)
  <2>1. place \in [Born -> S \X G]
    BY <1>2
  <2>2. \A a, b \in Born : place[a] = place[b] => a = b
    BY <1>2 DEF Descent
  <2> QED BY <2>1, <2>2 DEF Injection, IsInjective
<1>4. IsFiniteSet(S) /\ Cardinality(S) = started
  BY <1>1, FS_Interval
<1>5. IsFiniteSet(G) /\ Cardinality(G) = 1 + max_restarts
  BY <1>1, FS_Interval
<1>6. IsFiniteSet(S \X G) /\ Cardinality(S \X G) = started * (1 + max_restarts)
  <2>1. IsFiniteSet(S \X G) /\ Cardinality(S \X G) = Cardinality(S) * Cardinality(G)
    <3> HIDE DEF S, G
    <3> QED BY <1>4, <1>5, FS_Product
  <2> QED BY <1>4, <1>5, <2>1
<1>7. Cardinality(Born) <= Cardinality(S \X G)
  BY <1>3, <1>6, FS_Injection
<1>8. Cardinality(Born) = next_id - 1
  <2>1. 1 \in Int /\ next_id - 1 \in Int
    BY <1>1
  <2>2. Cardinality(1 .. next_id - 1) = IF 1 > next_id - 1 THEN 0 ELSE (next_id - 1) - 1 + 1
    BY <2>1, FS_Interval
  <2> QED BY <1>1, <2>2 DEF Born
<1> QED BY <1>6, <1>7, <1>8

(* Under OneForOne restarting comes to an end: no order of failures and of *)
(* late, repeated or wrong reports spawns more actors than max_restarts    *)
(* restarts for each one that start_all spawned.                           *)
THEOREM RestartBudgetHolds == Spec => []RestartBudget
<1>1. SInv => RestartBudget
  BY BudgetFromDescent DEF SInv, ListsAgree, RestartBudget
<1> QED BY <1>1, SupervisorInvariant, PTL
=============================================================================
