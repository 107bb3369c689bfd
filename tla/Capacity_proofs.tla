-------------------------- MODULE Capacity_proofs --------------------------
(***************************************************************************)
(* What the verdicts on the pools guarantee for any cluster, sources of    *)
(* usage and configuration: the nodes that are kept really hold the pods,  *)
(* also after the loss of any one of some plain nodes; no node is given    *)
(* back on a simulation that leaves something out; and the cluster's       *)
(* figures add up.                                                         *)
(***************************************************************************)
EXTENDS Capacity, BinPack_proofs, SequenceTheorems

-----------------------------------------------------------------------------
(* The invariant.                                                          *)

\* What a run works on is what it collected, for good.
InputReal == \E s \in Inputs : input = Snapshot(s)

\* A verdict speaks of a pool that is there; it gives nodes back only if the
\* simulation knows all that the pods ask for and if enough nodes stay; and the
\* nodes that it keeps suffice.
VerdictSound(v) ==
  /\ v.status \in Status /\ v.current \in Nat /\ v.minimum \in 0..v.current
  /\ v.removable = IF v.status = "indeterminate" THEN 0 ELSE v.current - v.minimum
  /\ v.status = "indeterminate" => v.minimum = 0
  /\ v.removable > 0 => /\ ~Unknown(v.pool)
                        /\ v.removable + Cardinality(Stranded(v.pool)) + 1 <= v.current
  /\ v.kept > 0 => v.kept \in 1..Len(Placeable(v.pool)) /\ Suffices(v.pool, v.kept)
  /\ v.actionable => Actionable(input.usage.fidelity)

CapacityInv ==
  /\ InputReal
  /\ pool \in Pools \cup {0}
  /\ n \in 1..(Len(input.nodes) + 1)
  /\ verdicts \in Seq(Decided)
  /\ {v.pool : v \in Decided} = {k \in Pools : pool = 0 \/ k < pool}
  /\ \A v \in Decided : VerdictSound(v)

-----------------------------------------------------------------------------
(* Lemmas about the operators.                                             *)

LEMMA PairBounds ==
  \A a, b \in Int : /\ Max({a, b}) = IF a >= b THEN a ELSE b
                    /\ Min({a, b}) = IF a <= b THEN a ELSE b
<1> SUFFICES ASSUME NEW a \in Int, NEW b \in Int
             PROVE  /\ Max({a, b}) = IF a >= b THEN a ELSE b
                    /\ Min({a, b}) = IF a <= b THEN a ELSE b
  OBVIOUS
<1>1. Max({a, b}) = IF a >= b THEN a ELSE b
  <2>1. \E x \in {a, b} : \A y \in {a, b} : x >= y
    OBVIOUS
  <2> QED BY <2>1 DEF Max
<1>2. Min({a, b}) = IF a <= b THEN a ELSE b
  <2>1. \E x \in {a, b} : \A y \in {a, b} : x <= y
    OBVIOUS
  <2> QED BY <2>1 DEF Min
<1> QED BY <1>1, <1>2

\* The snapshot has the nodes that were there, each with the number of its pool.
LEMMA SnapshotNodes ==
  ASSUME InputReal
  PROVE  Len(input.nodes) \in Nat /\ \A i \in Indices : Node(i).pool \in Nat \ {0}
<1>1. PICK s \in Inputs : input = Snapshot(s)
  BY DEF InputReal
<1>2. s.nodes \in Seq(ToSet(s.nodes)) /\ \A i \in DOMAIN s.nodes : NodePoolName(s.nodes[i].labels) \in Nat \ {0}
  BY CapacityAssumption DEF CapacityAssumption
<1>3. input.nodes = [i \in 1..Len(s.nodes) |-> NodeModel(s.nodes[i])]
  BY <1>1, <1>2 DEF Snapshot
<1>4. Len(input.nodes) = Len(s.nodes)
  BY <1>2, <1>3
<1>5. \A i \in 1..Len(s.nodes) : input.nodes[i].pool = NodePoolName(s.nodes[i].labels)
  BY <1>3 DEF NodeModel
<1> QED BY <1>2, <1>4, <1>5 DEF Indices, Node

LEMMA PoolFacts ==
  ASSUME InputReal, NEW k
  PROVE  /\ Pools \in SUBSET (Nat \ {0})
         /\ Cardinality(PoolNodes(k)) \in 0..Len(input.nodes)
         /\ Cardinality(Stranded(k)) \in Nat
         /\ Len(Placeable(k)) \in 0..Len(input.nodes)
<1>1. Pools \in SUBSET (Nat \ {0})
  BY SnapshotNodes DEF Pools
<1>2. IsFiniteSet(Indices) /\ Cardinality(Indices) = Len(input.nodes)
  BY SnapshotNodes, FS_Interval DEF Indices
<1>3. PoolNodes(k) \in SUBSET Indices /\ Stranded(k) \in SUBSET Indices /\ UsableNodes(k) \in SUBSET Indices
  BY DEF PoolNodes, Stranded, UsableNodes
<1>4. \A S \in SUBSET Indices : Cardinality(S) \in 0..Len(input.nodes)
  <2> SUFFICES ASSUME NEW S \in SUBSET Indices PROVE Cardinality(S) \in 0..Len(input.nodes)
    OBVIOUS
  <2>1. IsFiniteSet(S) /\ Cardinality(S) <= Cardinality(Indices)
    BY <1>2, FS_Subset
  <2>2. Cardinality(S) \in Nat
    BY <2>1, FS_CardinalityType
  <2> QED BY <1>2, <2>1, <2>2, SnapshotNodes
<1>5. Len(Placeable(k)) = Cardinality(UsableNodes(k))
  <2> DEFINE c == Cardinality(UsableNodes(k))
             best(r) == CHOOSE i \in UsableNodes(k) :
                          Cardinality({j \in UsableNodes(k) : Retains(j, i)}) = r - 1
  <2>1. c \in Nat
    BY <1>3, <1>4
  <2>2. Placeable(k) = [r \in 1..c |-> best(r)]
    BY DEF Placeable, Ranked
  <2> HIDE DEF c, best
  <2>3. Len(Placeable(k)) = c
    BY <2>1, <2>2
  <2> QED BY <2>3 DEF c
<1> QED BY <1>1, <1>3, <1>4, <1>5

LEMMA NextPoolFacts ==
  ASSUME InputReal, NEW k \in Nat
  PROVE  \/ NextPool(k) = 0 /\ \A m \in Pools : m <= k
         \/ /\ NextPool(k) \in Pools /\ NextPool(k) > k
            /\ \A m \in Pools : m > k => m >= NextPool(k)
<1> DEFINE rest == {m \in Pools : m > k}
<1>1. Pools \in SUBSET Nat
  BY PoolFacts
<1>2. rest # {} => Min(rest) \in rest /\ \A m \in rest : Min(rest) <= m
  BY <1>1, MinIsLeast
<1> QED BY <1>1, <1>2 DEF NextPool

LEMMA FloorNatural == InputReal => Floor \in Nat
<1> SUFFICES ASSUME NEW s \in Inputs, input = Snapshot(s) PROVE Floor \in Nat
  BY DEF InputReal
<1>1. input.config = s.config /\ s.config \in [floor : Nat, survive : BOOLEAN]
  BY CapacityAssumption DEF CapacityAssumption, Snapshot
<1> QED BY <1>1 DEF Floor, DefaultFloor

-----------------------------------------------------------------------------
(* What the input holds.                                                   *)

LEMMA InputFacts ==
  ASSUME InputReal
  PROVE  /\ IsFiniteSet(DOMAIN input.pods) /\ DOMAIN input.pods \in SUBSET Nat
         /\ \A i \in Indices : Node(i).cap \in [Resources -> Nat] /\ Node(i).maxPods \in Nat
         /\ \A p \in DOMAIN input.pods :
              /\ Pod(p).request \in [Resources -> Nat]
              /\ \A c \in Pod(p).topologySpread : c.maxSkew \in Nat /\ c.minDomains \in Nat
<1>1. PICK s \in Inputs : input = Snapshot(s)
  BY DEF InputReal
<1>2. /\ s.nodes \in Seq(ToSet(s.nodes))
      /\ \A i \in DOMAIN s.nodes : s.nodes[i].allocatable \in [Resources -> Nat] /\ s.nodes[i].maxPods \in Nat
      /\ s.pods \in Seq(ToSet(s.pods))
      /\ \A p \in DOMAIN s.pods :
           /\ s.pods[p].containers \in Seq(ToSet(s.pods[p].containers))
           /\ \A c \in ToSet(s.pods[p].containers) : c.request \in [Resources -> Nat]
           /\ \A c \in s.pods[p].topologySpread : c.maxSkew \in Nat /\ c.minDomains \in Nat
  BY CapacityAssumption DEF CapacityAssumption
<1>3. /\ input.nodes = [i \in DOMAIN s.nodes |-> NodeModel(s.nodes[i])]
      /\ input.pods = [p \in DOMAIN s.pods |-> PodModel(s.pods[p])]
  BY <1>1 DEF Snapshot, CollectPods
<1>4. DOMAIN s.nodes = 1..Len(s.nodes) /\ Len(s.nodes) \in Nat /\ DOMAIN s.pods = 1..Len(s.pods) /\ Len(s.pods) \in Nat
  BY <1>2
<1>5. IsFiniteSet(DOMAIN input.pods) /\ DOMAIN input.pods \in SUBSET Nat
  BY <1>3, <1>4, FS_Interval
<1>6. \A i \in Indices : Node(i).cap \in [Resources -> Nat] /\ Node(i).maxPods \in Nat
  <2>1. Indices = DOMAIN s.nodes
    <3>1. Len(input.nodes) = Len(s.nodes)
      BY <1>3, <1>4
    <3> QED BY <1>4, <3>1 DEF Indices
  <2>2. \A i \in DOMAIN s.nodes : input.nodes[i] = NodeModel(s.nodes[i])
    BY <1>3
  <2>3. \A o : NodeModel(o).cap = o.allocatable /\ NodeModel(o).maxPods = o.maxPods
    BY DEF NodeModel
  <2> SUFFICES ASSUME NEW i \in Indices
               PROVE  Node(i).cap \in [Resources -> Nat] /\ Node(i).maxPods \in Nat
    OBVIOUS
  <2>4. s.nodes[i].allocatable \in [Resources -> Nat] /\ s.nodes[i].maxPods \in Nat
    BY <1>2, <2>1
  <2>5. Node(i) = NodeModel(s.nodes[i])
    BY <2>1, <2>2 DEF Node
  <2> QED BY <2>3, <2>4, <2>5
<1>7. ASSUME NEW p \in DOMAIN input.pods
      PROVE  /\ Pod(p).request \in [Resources -> Nat]
             /\ \A c \in Pod(p).topologySpread : c.maxSkew \in Nat /\ c.minDomains \in Nat
  <2> DEFINE o == s.pods[p]
             C == DOMAIN o.containers
             ask(d) == [c \in C |-> o.containers[c].request[d]]
  <2>1. p \in DOMAIN s.pods /\ Pod(p) = PodModel(o)
    BY <1>3 DEF Pod
  <2>2. Pod(p).request = [d \in Resources |-> Total(ask(d))] /\ Pod(p).topologySpread = o.topologySpread
    BY <2>1 DEF PodModel, Requests
  <2>3. IsFiniteSet(C) /\ \A c \in C : o.containers[c] \in ToSet(o.containers)
    <3>1. o.containers \in Seq(ToSet(o.containers))
      BY <1>2, <2>1
    <3>2. C = 1..Len(o.containers) /\ Len(o.containers) \in Nat
      BY <3>1
    <3>3. IsFiniteSet(C)
      BY <3>2, FS_Interval
    <3>4. \A c \in C : o.containers[c] \in ToSet(o.containers)
      BY DEF ToSet
    <3> QED BY <3>3, <3>4
  <2>4. \A d \in Resources : Total(ask(d)) \in Nat
    <3> SUFFICES ASSUME NEW d \in Resources PROVE Total(ask(d)) \in Nat
      OBVIOUS
    <3>1. \A c \in C : ask(d)[c] \in Nat
      BY <1>2, <2>1, <2>3
    <3>2. DOMAIN ask(d) = C
      OBVIOUS
    <3> HIDE DEF ask, C
    <3> QED BY <2>3, <3>1, <3>2, SumNat, TotalIsSum
  <2> HIDE DEF ask
  <2> QED BY <1>2, <2>1, <2>2, <2>4
<1> QED BY <1>5, <1>6, <1>7

\* What the collector finds of an extended resource covers each container.
LEMMA ExtendedCovers ==
  ASSUME NEW o, o.containers \in Seq(ToSet(o.containers)), o.initContainers \in Seq(ToSet(o.initContainers)),
         \A c \in ToSet(o.containers) \cup ToSet(o.initContainers) : c.extended \in [Extended -> Nat],
         NEW e \in Extended
  PROVE  /\ ExtendedRequests(o)[e] \in Nat
         /\ \A c \in ToSet(o.containers) \cup ToSet(o.initContainers) : c.extended[e] <= ExtendedRequests(o)[e]
<1> DEFINE C == DOMAIN o.containers
           ask == [c \in C |-> o.containers[c].extended[e]]
           I == DOMAIN o.initContainers
           early == [c \in I |-> o.initContainers[c].extended[e]]
           S == {c.extended[e] : c \in ToSet(o.initContainers)}
           all == {RegularExtended(o, e)} \cup S
<1>1. IsFiniteSet(C) /\ IsFiniteSet(I)
  <2>1. C = 1..Len(o.containers) /\ Len(o.containers) \in Nat
        /\ I = 1..Len(o.initContainers) /\ Len(o.initContainers) \in Nat
    OBVIOUS
  <2> HIDE DEF C, I
  <2>2. IsFiniteSet(C)
    BY ONLY <2>1, FS_Interval
  <2>3. IsFiniteSet(I)
    BY ONLY <2>1, FS_Interval
  <2> QED BY <2>2, <2>3
<1>2. /\ ToSet(o.containers) = {o.containers[c] : c \in C}
      /\ ToSet(o.initContainers) = {o.initContainers[c] : c \in I}
  BY DEF ToSet
<1>3. \A c \in C : ask[c] \in Nat /\ ask[c] = o.containers[c].extended[e]
  BY <1>2
<1>4. RegularExtended(o, e) = SumOver(ask, C)
  <2>1. RegularExtended(o, e) = Total(ask) /\ DOMAIN ask = C
    BY DEF RegularExtended
  <2> HIDE DEF ask
  <2> QED BY <2>1, TotalIsSum
<1>5. S = {early[c] : c \in I} /\ S \in SUBSET Nat
  <2>1. \A c \in I : early[c] = o.initContainers[c].extended[e]
    OBVIOUS
  <2>2. S = {o.initContainers[c].extended[e] : c \in I}
    <3> HIDE DEF I
    <3> QED BY <1>2
  <2>3. S \in SUBSET Nat
    OBVIOUS
  <2> HIDE DEF early, I, S
  <2>4. S = {early[c] : c \in I}
    BY <2>1, <2>2
  <2> QED BY <2>3, <2>4
<1>6. IsFiniteSet(S)
  <2>1. early \in Surjection(I, S)
    BY <1>5 DEF Surjection
  <2> HIDE DEF early, I, S
  <2> QED BY <1>1, <2>1, FS_Surjection
<1>7. \A c \in C : ask[c] <= RegularExtended(o, e)
  <2> HIDE DEF ask, C
  <2> QED BY <1>1, <1>3, <1>4, SumAbove
<1>8. RegularExtended(o, e) \in Nat
  <2> HIDE DEF ask, C
  <2> QED BY <1>1, <1>3, <1>4, SumNat
<1>9. all \in SUBSET Nat /\ IsFiniteSet(all) /\ all # {}
  <2> HIDE DEF S
  <2> QED BY <1>5, <1>6, <1>8, FS_Singleton, FS_Union
<1>10. ExtendedRequests(o)[e] = Max(all)
  BY DEF ExtendedRequests
<1>11. Max(all) \in Nat /\ \A m \in all : m <= Max(all)
  <2> HIDE DEF all
  <2> QED BY <1>9, MaxIsGreatest
<1>12. \A c \in ToSet(o.containers) : c.extended[e] <= Max(all)
  <2>1. RegularExtended(o, e) <= Max(all)
    BY <1>11
  <2>2. \A c \in ToSet(o.containers) : c.extended[e] \in Nat /\ c.extended[e] <= RegularExtended(o, e)
    <3> HIDE DEF ask
    <3> QED BY <1>2, <1>3, <1>7
  <2> HIDE DEF all
  <2> QED BY <1>8, <1>11, <2>1, <2>2
<1>13. \A c \in ToSet(o.initContainers) : c.extended[e] <= Max(all)
  BY <1>11
<1> QED BY <1>10, <1>11, <1>12, <1>13

LEMMA ExtendedNatural ==
  ASSUME InputReal
  PROVE  /\ \A i \in Indices : Node(i).extended \in [Extended -> Nat]
         /\ \A p \in DOMAIN input.pods : Pod(p).extended \in [Extended -> Nat]
<1>1. PICK s \in Inputs : input = Snapshot(s)
  BY DEF InputReal
<1>2. /\ s.nodes \in Seq(ToSet(s.nodes)) /\ \A i \in DOMAIN s.nodes : s.nodes[i].extended \in [Extended -> Nat]
      /\ s.pods \in Seq(ToSet(s.pods))
      /\ \A p \in DOMAIN s.pods :
           /\ s.pods[p].containers \in Seq(ToSet(s.pods[p].containers))
           /\ s.pods[p].initContainers \in Seq(ToSet(s.pods[p].initContainers))
           /\ \A c \in ToSet(s.pods[p].containers) \cup ToSet(s.pods[p].initContainers) :
                c.extended \in [Extended -> Nat]
  BY CapacityAssumption DEF CapacityAssumption
<1>3. /\ input.nodes = [i \in DOMAIN s.nodes |-> NodeModel(s.nodes[i])]
      /\ input.pods = [p \in DOMAIN s.pods |-> PodModel(s.pods[p])]
  BY <1>1 DEF Snapshot, CollectPods
<1>4. Indices = DOMAIN s.nodes
  <2>1. DOMAIN s.nodes = 1..Len(s.nodes) /\ Len(s.nodes) \in Nat
    BY <1>2
  <2>2. Len(input.nodes) = Len(s.nodes)
    BY <1>3, <2>1
  <2> QED BY <2>1, <2>2 DEF Indices
<1>5. \A o : NodeModel(o).extended = o.extended /\ PodModel(o).extended = ExtendedRequests(o)
  BY DEF NodeModel, PodModel
<1>6. \A i \in DOMAIN s.nodes : Node(i) = NodeModel(s.nodes[i])
  BY <1>3 DEF Node
<1>7. \A p \in DOMAIN s.pods : Pod(p) = PodModel(s.pods[p])
  BY <1>3 DEF Pod
<1>8. DOMAIN input.pods = DOMAIN s.pods
  BY <1>3
<1>9. ASSUME NEW p \in DOMAIN s.pods PROVE ExtendedRequests(s.pods[p]) \in [Extended -> Nat]
  <2> DEFINE o == s.pods[p]
  <2>1. \A e \in Extended : ExtendedRequests(o)[e] \in Nat
    BY <1>2, ExtendedCovers
  <2>2. ExtendedRequests(o) = [e \in Extended |-> ExtendedRequests(o)[e]]
    BY DEF ExtendedRequests
  <2> QED BY <2>1, <2>2
<1> QED BY <1>2, <1>4, <1>5, <1>6, <1>7, <1>8, <1>9

LEMMA EffectiveNatural ==
  ASSUME InputReal, NEW p \in DOMAIN input.pods, NEW d \in Resources
  PROVE  Effective(p)[d] \in Nat
<1>1. PICK s \in Inputs : input = Snapshot(s)
  BY DEF InputReal
<1>2. /\ \A q \in DOMAIN s.pods : s.pods[q].usage \in [Resources -> Nat]
      /\ s.evidence \in [mode : STRING, url : BOOLEAN, answers : BOOLEAN,
                         p95 : [Resources -> SUBSET Nat], live : [Resources -> SUBSET Nat]]
      /\ UsageHeadroomPercent \in Nat
  BY CapacityAssumption DEF CapacityAssumption
<1> DEFINE F(known) == Figures(s.pods, known)
           e == Answers(s)
<1>3. e.p95 = F(s.evidence.p95) /\ e.live = F(s.evidence.live)
  BY <1>2 DEF Answers
<1>4. \A known : /\ DOMAIN F(known) = Resources
                 /\ F(known)[d] = [q \in known[d] \cap DOMAIN s.pods |-> s.pods[q].usage[d]]
  BY DEF Figures
<1>5. \A known : \A q \in DOMAIN F(known)[d] : F(known)[d][q] \in Nat
  <2> SUFFICES ASSUME NEW known, NEW q \in DOMAIN F(known)[d] PROVE F(known)[d][q] \in Nat
    OBVIOUS
  <2> HIDE DEF F
  <2>1. F(known)[d] = [o \in known[d] \cap DOMAIN s.pods |-> s.pods[o].usage[d]]
    BY <1>4
  <2>2. q \in known[d] \cap DOMAIN s.pods
    BY <2>1
  <2>3. F(known)[d][q] = s.pods[q].usage[d]
    BY <2>1, <2>2
  <2>4. s.pods[q].usage \in [Resources -> Nat]
    BY <1>2, <2>2
  <2> QED BY <2>3, <2>4
<1> HIDE DEF e, F
<1>6. input.usage.readings \in {e.p95, e.live, [r \in DOMAIN e.live |-> <<>>]}
  BY <1>1 DEF Snapshot, Resolve, NoUsage, e
<1> DEFINE u == input.usage.readings[d]
<1>7. \A q \in DOMAIN u : u[q] \in Nat
  <2>1. CASE input.usage.readings = e.p95
    BY <1>3, <1>5, <2>1
  <2>2. CASE input.usage.readings = e.live
    BY <1>3, <1>5, <2>2
  <2>3. CASE input.usage.readings = [r \in DOMAIN e.live |-> <<>>]
    <3>1. u = <<>>
      BY <1>3, <1>4, <2>3
    <3> QED BY <3>1
  <2> QED BY <1>6, <2>1, <2>2, <2>3
<1>8. Reading(input.usage, p, d) \in Nat
  BY <1>7 DEF Reading
<1>9. Pod(p).request[d] \in Nat
  BY InputFacts
<1> DEFINE amount == Reading(input.usage, p, d)
<1> HIDE DEF amount
<1>10. amount + (amount * UsageHeadroomPercent) \div 100 \in Nat
  <2>1. amount * UsageHeadroomPercent \in Nat
    BY <1>2, <1>8 DEF amount
  <2> DEFINE w == amount * UsageHeadroomPercent
  <2> HIDE DEF w
  <2>2. w \div 100 \in Nat
    BY <2>1 DEF w
  <2> QED BY <1>8, <2>2 DEF w, amount
<1> QED BY <1>8, <1>9, <1>10 DEF Effective, EffectiveAmount, amount

LEMMA PlacesFacts ==
  ASSUME InputReal, NEW k
  PROVE  /\ ToPlace(k) \in SUBSET DOMAIN input.pods /\ IsFiniteSet(ToPlace(k))
         /\ PoolNodes(k) \in SUBSET Indices /\ IsFiniteSet(PoolNodes(k))
         /\ \A i : /\ On(i) \in SUBSET DOMAIN input.pods
                   /\ Pinned(i) \in SUBSET On(i) /\ IsFiniteSet(Pinned(i))
                   /\ DaemonPods(i) \in SUBSET On(i) /\ IsFiniteSet(DaemonPods(i))
<1>1. IsFiniteSet(DOMAIN input.pods)
  BY InputFacts
<1>2. ToPlace(k) \in SUBSET DOMAIN input.pods /\ IsFiniteSet(ToPlace(k))
  <2>1. ToPlace(k) \in SUBSET DOMAIN input.pods
    BY DEF ToPlace, On
  <2> QED BY <1>1, <2>1, FS_Subset
<1>3. PoolNodes(k) \in SUBSET Indices /\ IsFiniteSet(PoolNodes(k))
  <2>1. IsFiniteSet(Indices)
    BY SnapshotNodes, FS_Interval DEF Indices
  <2>2. PoolNodes(k) \in SUBSET Indices
    BY DEF PoolNodes
  <2> QED BY <2>1, <2>2, FS_Subset
<1>4. \A i : /\ On(i) \in SUBSET DOMAIN input.pods
             /\ Pinned(i) \in SUBSET On(i)
             /\ DaemonPods(i) \in SUBSET On(i)
  BY DEF On, Pinned, DaemonPods
<1>5. \A i : IsFiniteSet(On(i))
  BY <1>1, <1>4, FS_Subset
<1>6. \A i : IsFiniteSet(Pinned(i)) /\ IsFiniteSet(DaemonPods(i))
  BY <1>4, <1>5, FS_Subset
<1> QED BY <1>2, <1>3, <1>4, <1>6

\* What a node is charged for besides the pods that are placed on it.
LEMMA ReservedFacts ==
  ASSUME InputReal, NEW k, NEW i \in PoolNodes(k)
  PROVE  /\ \A d \in Resources :
              /\ DaemonSize(k, d) \in Nat
              /\ Total([p \in DaemonPods(i) |-> Pod(p).request[d]]) \in 0..DaemonSize(k, d)
              /\ Total([p \in Pinned(i) |-> Effective(p)[d]]) \in Nat
              /\ Reserved(k, i)[d] = DaemonSize(k, d) + Total([p \in Pinned(i) |-> Effective(p)[d]])
         /\ DaemonCount(k) \in Nat
         /\ Cardinality(DaemonPods(i)) \in 0..DaemonCount(k)
         /\ Cardinality(Pinned(i)) \in Nat
<1>1. IsFiniteSet(PoolNodes(k)) /\ PoolNodes(k) \in SUBSET Indices
  BY PlacesFacts
<1>2. ASSUME NEW f, \A j \in PoolNodes(k) : f[j] \in Nat
      PROVE  LET greatest == Max({f[j] : j \in PoolNodes(k)}) IN greatest \in Nat /\ f[i] \in 0..greatest
  <2> DEFINE S == {f[j] : j \in PoolNodes(k)}
             g == [j \in PoolNodes(k) |-> f[j]]
  <2>1. S \in SUBSET Nat /\ S # {} /\ f[i] \in S
    BY <1>2
  <2>2. IsFiniteSet(S)
    <3>1. g \in Surjection(PoolNodes(k), S)
      BY DEF Surjection
    <3> HIDE DEF g, S
    <3> QED BY <1>1, <3>1, FS_Surjection
  <2> HIDE DEF S
  <2>3. Max(S) \in S /\ f[i] <= Max(S) /\ Max(S) \in Nat /\ f[i] \in Nat
    BY <2>1, <2>2, MaxIsGreatest
  <2>4. Max(S) \in Nat /\ f[i] \in 0..Max(S)
    BY <2>3
  <2> QED BY <2>4 DEF S
<1>3. ASSUME NEW d \in Resources
      PROVE  /\ DaemonSize(k, d) \in Nat
             /\ Total([p \in DaemonPods(i) |-> Pod(p).request[d]]) \in 0..DaemonSize(k, d)
  <2> DEFINE g(j) == [p \in DaemonPods(j) |-> Pod(p).request[d]]
             f == [j \in PoolNodes(k) |-> Total(g(j))]
  <2>1. ASSUME NEW j \in PoolNodes(k) PROVE Total(g(j)) \in Nat
    <3>1. \A p \in DaemonPods(j) : p \in DOMAIN input.pods
      BY PlacesFacts
    <3>2. \A p \in DaemonPods(j) : Pod(p).request[d] \in Nat
      BY <3>1, InputFacts
    <3>3. IsFiniteSet(DaemonPods(j)) /\ DOMAIN g(j) = DaemonPods(j) /\ \A p \in DaemonPods(j) : g(j)[p] \in Nat
      BY <3>2, PlacesFacts
    <3> HIDE DEF g
    <3> QED BY <3>3, SumNat, TotalIsSum
  <2>2. \A j \in PoolNodes(k) : f[j] \in Nat /\ f[j] = Total(g(j))
    <3> HIDE DEF g
    <3> QED BY <2>1
  <2>3. {f[j] : j \in PoolNodes(k)} = {Total(g(j)) : j \in PoolNodes(k)}
    <3> HIDE DEF g, f
    <3> QED BY <2>2
  <2>4. DaemonSize(k, d) = Max({f[j] : j \in PoolNodes(k)})
    BY <2>3 DEF DaemonSize
  <2> HIDE DEF f, g
  <2>5. DaemonSize(k, d) \in Nat /\ f[i] \in 0..DaemonSize(k, d)
    BY <1>2, <2>2, <2>4
  <2>6. DaemonSize(k, d) \in Nat /\ Total(g(i)) \in 0..DaemonSize(k, d)
    BY <2>2, <2>5
  <2> QED BY <2>6 DEF g
<1>4. ASSUME NEW d \in Resources PROVE Total([p \in Pinned(i) |-> Effective(p)[d]]) \in Nat
  <2> DEFINE g == [p \in Pinned(i) |-> Effective(p)[d]]
  <2>1. \A p \in Pinned(i) : p \in DOMAIN input.pods
    BY PlacesFacts
  <2>2. \A p \in Pinned(i) : Effective(p)[d] \in Nat
    BY <2>1, EffectiveNatural
  <2>3. IsFiniteSet(Pinned(i)) /\ DOMAIN g = Pinned(i) /\ \A p \in Pinned(i) : g[p] \in Nat
    BY <2>2, PlacesFacts
  <2> HIDE DEF g
  <2>4. Total(g) \in Nat
    BY <2>3, SumNat, TotalIsSum
  <2> QED BY <2>4 DEF g
<1>5. DaemonCount(k) \in Nat /\ Cardinality(DaemonPods(i)) \in 0..DaemonCount(k)
  <2> DEFINE f == [j \in PoolNodes(k) |-> Cardinality(DaemonPods(j))]
  <2>1. \A j \in PoolNodes(k) : f[j] \in Nat /\ f[j] = Cardinality(DaemonPods(j))
    BY PlacesFacts, FS_CardinalityType
  <2>2. {f[j] : j \in PoolNodes(k)} = {Cardinality(DaemonPods(j)) : j \in PoolNodes(k)}
    <3> HIDE DEF f
    <3> QED BY <2>1
  <2>3. DaemonCount(k) = Max({f[j] : j \in PoolNodes(k)})
    BY <2>2 DEF DaemonCount
  <2> HIDE DEF f
  <2> QED BY <1>2, <2>1, <2>3
<1>6. Cardinality(Pinned(i)) \in Nat
  BY PlacesFacts, FS_CardinalityType
<1>7. \A d \in Resources :
        Reserved(k, i)[d] = DaemonSize(k, d) + Total([p \in Pinned(i) |-> Effective(p)[d]])
  BY DEF Reserved
<1> QED BY <1>3, <1>4, <1>5, <1>6, <1>7

LEMMA PlacedLists ==
  ASSUME InputReal, NEW k
  PROVE  Lists(Placed(k), ToPlace(k))
<1> DEFINE S == ToPlace(k)
           R == {e \in S \X S : e[1] < e[2]}
           before(r) == CHOOSE x \in S : Cardinality({y \in S : y < x}) = r - 1
           among(r) == CHOOSE x \in S : Cardinality({y \in S : <<y, x>> \in R}) = r - 1
<1>1. \A x, y \in S : <<x, y>> \in R <=> x < y
  OBVIOUS
<1>2. \A x \in S : x \in Nat
  BY PlacesFacts, InputFacts
<1>3. /\ \A x \in S : ~(x < x)
      /\ \A x, y \in S : x # y => x < y \/ y < x
      /\ \A x, y, z \in S : x < y /\ y < z => x < z
  <2> HIDE DEF S
  <2> QED BY <1>2
<1>4. Placed(k) = Enumeration(S, R)
  <2>1. \A x \in S : {y \in S : y < x} = {y \in S : <<y, x>> \in R}
    BY <1>1
  <2>2. \A r : before(r) = among(r)
    <3> HIDE DEF R, S
    <3> QED BY <2>1
  <2>3. Placed(k) = [r \in 1..Cardinality(S) |-> before(r)]
    BY DEF Placed, Ranked
  <2>4. Enumeration(S, R) = [r \in 1..Cardinality(S) |-> among(r)]
    BY DEF Enumeration
  <2> HIDE DEF before, among, S, R
  <2> QED BY <2>2, <2>3, <2>4
<1>5. IsFiniteSet(S)
  BY PlacesFacts
<1> HIDE DEF S, R
<1>6. Lists(Enumeration(S, R), S)
  BY <1>1, <1>3, <1>5, EnumerationLists
<1> QED BY <1>4, <1>6 DEF S

-----------------------------------------------------------------------------
(* What a simulation that places all pods says of the nodes it ran on.     *)

\* The pods to place that an arrangement puts on a node.
MovedOn(k, at, i) == {p \in ToPlace(k) : at[p] = i}

Sizes(d) == [p \in DOMAIN input.pods |-> Effective(p)[d]]

Asked(e) == [p \in DOMAIN input.pods |-> Pod(p).extended[e]]

DomainAt(at, p, key) == Domain(NamedNode(at[p]), key)
NodeDomains(K, key) == {Domain(NamedNode(i), key) : i \in K} \ {{}}

CountedAt(k, at, p, c, x) ==
  {q \in ToPlace(k) : DomainAt(at, q, c.topologyKey) = x /\ CountsFor(c, Pod(p), Pod(q))}

ArrangedRoom(k, K, at) ==
  \A i \in K : MovedOn(k, at, i) # {} =>
    /\ \A d \in Resources :
         SumOver(Sizes(d), MovedOn(k, at, i)) <= Withhold(Node(i).cap[d]) - Reserved(k, i)[d]
    /\ Node(i).maxPods > 0 =>
         DaemonCount(k) + Cardinality(Pinned(i)) + Cardinality(MovedOn(k, at, i)) <= Node(i).maxPods

ArrangedStore(k, K, at) ==
  \A i \in K, e \in Extended : SumOver(Asked(e), MovedOn(k, at, i)) <= Node(i).extended[e]

ArrangedEligible(k, at) ==
  \A p \in ToPlace(k) : Eligible(Pod(p), NamedNode(at[p])) /\ HasDomains(p, at[p])

ArrangedApart(k, at) ==
  \A p, q \in ToPlace(k) : p # q =>
    \A term \in Pod(p).antiAffinity : Repels(term, Pod(p), Pod(q)) =>
      DomainAt(at, p, term.topologyKey) # DomainAt(at, q, term.topologyKey)

ArrangedSpread(k, K, at) ==
  \A p \in ToPlace(k) : \A c \in Pod(p).topologySpread : c.hard =>
    LET here == Cardinality(CountedAt(k, at, p, c, DomainAt(at, p, c.topologyKey))) IN
    /\ c.minDomains > Cardinality(NodeDomains(K, c.topologyKey)) => here <= c.maxSkew
    /\ \A x \in NodeDomains(K, c.topologyKey) :
         here <= Cardinality(CountedAt(k, at, p, c, x)) + c.maxSkew

\* What a simulation that places all pods says of the nodes it ran on.
Arranged(k, K, at) ==
  /\ at \in [ToPlace(k) -> K]
  /\ ArrangedRoom(k, K, at)
  /\ ArrangedStore(k, K, at)
  /\ ArrangedEligible(k, at)
  /\ ArrangedApart(k, at)
  /\ ArrangedSpread(k, K, at)

\* The simulation's nodes and pods have what its predicates ask for.
LEMMA SimNodeFields ==
  ASSUME NEW k, NEW i
  PROVE  /\ SimNode(k, i).cap = [d \in Resources |-> Withhold(Node(i).cap[d])]
         /\ SimNode(k, i).reserved = Reserved(k, i)
         /\ SimNode(k, i).maxPods = Node(i).maxPods /\ SimNode(k, i).extended = Node(i).extended
         /\ SimNode(k, i).reservedPods = DaemonCount(k) + Cardinality(Pinned(i))
BY DEF SimNode

LEMMA SimNodeDomain == \A k, i, key : Domain(SimNode(k, i), key) = Domain(NamedNode(i), key)
<1> SUFFICES ASSUME NEW k, NEW i, NEW key PROVE Domain(SimNode(k, i), key) = Domain(NamedNode(i), key)
  OBVIOUS
<1>1. SimNode(k, i).labels = NamedNode(i).labels /\ SimNode(k, i).name = NamedNode(i).name
  BY DEF SimNode, NamedNode
<1> QED BY <1>1 DEF Domain

LEMMA SimPodFields ==
  ASSUME NEW p
  PROVE  /\ SimPod(p).size = Effective(p) /\ SimPod(p).extended = Pod(p).extended
         /\ SimPod(p).antiAffinity = Pod(p).antiAffinity
         /\ SimPod(p).topologySpread = Pod(p).topologySpread
         /\ \A q, term : Repels(term, SimPod(p), SimPod(q)) <=> Repels(term, Pod(p), Pod(q))
         /\ \A q, c : CountsFor(c, SimPod(p), SimPod(q)) <=> CountsFor(c, Pod(p), Pod(q))
         /\ \A k, i : Eligible(SimPod(p), SimNode(k, i)) <=> Eligible(Pod(p), NamedNode(i))
<1>1. \A q : SimPod(q).ns = Pod(q).ns /\ SimPod(q).labels = Pod(q).labels
  BY DEF SimPod
<1>2. \A q, term : Repels(term, SimPod(p), SimPod(q)) <=> Repels(term, Pod(p), Pod(q))
  BY <1>1 DEF Repels, InScope
<1>3. \A q, c : CountsFor(c, SimPod(p), SimPod(q)) <=> CountsFor(c, Pod(p), Pod(q))
  BY <1>1 DEF CountsFor
<1>4. \A k, i : Eligible(SimPod(p), SimNode(k, i)) <=> Eligible(Pod(p), NamedNode(i))
  <2> SUFFICES ASSUME NEW k, NEW i PROVE Eligible(SimPod(p), SimNode(k, i)) <=> Eligible(Pod(p), NamedNode(i))
    OBVIOUS
  <2>1. /\ SimNode(k, i).labels = NamedNode(i).labels /\ SimNode(k, i).name = NamedNode(i).name
        /\ SimNode(k, i).taints = NamedNode(i).taints
    BY DEF SimNode, NamedNode
  <2>2. /\ SimPod(p).tolerations = Pod(p).tolerations /\ SimPod(p).nodeSelector = Pod(p).nodeSelector
        /\ SimPod(p).affinity = Pod(p).affinity
    BY DEF SimPod
  <2>3. \A term : TermMatches(term, SimNode(k, i)) <=> TermMatches(term, NamedNode(i))
    BY <2>1 DEF TermMatches
  <2>4. Tolerates(SimPod(p), SimNode(k, i)) <=> Tolerates(Pod(p), NamedNode(i))
    BY <2>1, <2>2 DEF Tolerates
  <2>5. MatchesNodeAffinity(SimPod(p), SimNode(k, i)) <=> MatchesNodeAffinity(Pod(p), NamedNode(i))
    BY <2>2, <2>3 DEF MatchesNodeAffinity
  <2> QED BY <2>1, <2>2, <2>4, <2>5 DEF Eligible
<1>5. /\ SimPod(p).size = Effective(p) /\ SimPod(p).extended = Pod(p).extended
      /\ SimPod(p).antiAffinity = Pod(p).antiAffinity
      /\ SimPod(p).topologySpread = Pod(p).topologySpread
  BY DEF SimPod
<1> QED BY <1>2, <1>3, <1>4, <1>5

\* The nodes of a simulation.
SimNodes(k, ns) == [j \in 1..Len(ns) |-> SimNode(k, ns[j])]

\* Some nodes of a pool, each once.
Choice(k, ns) ==
  /\ Len(ns) \in Nat /\ ns \in [1..Len(ns) -> PoolNodes(k)]
  /\ \A i, j \in 1..Len(ns) : ns[i] = ns[j] => i = j

LEMMA SimPodsFacts ==
  ASSUME InputReal, NEW k
  PROVE  LET N == Cardinality(ToPlace(k)) IN
         /\ N \in Nat /\ Len(Placed(k)) = N /\ DOMAIN SimPods(k) = 1..N
         /\ \A r \in 1..N : Placed(k)[r] \in ToPlace(k) /\ SimPods(k)[r] = SimPod(Placed(k)[r])
         /\ \A r, s \in 1..N : Placed(k)[r] = Placed(k)[s] => r = s
         /\ \A p \in ToPlace(k) : \E r \in 1..N : Placed(k)[r] = p
BY PlacedLists DEF Lists, SimPods

LEMMA WithholdNatural ==
  ASSUME NEW value \in Nat
  PROVE  Withhold(value) \in Nat /\ Withhold(value) <= value
<1>1. HeadroomPercent \in 1..99
  BY CapacityAssumption DEF CapacityAssumption
<1> DEFINE w == value * (100 - HeadroomPercent)
<1>2. w \in Nat /\ w <= 100 * value
  <2> DEFINE h == 100 - HeadroomPercent
  <2>1. h \in Nat /\ h <= 100
    BY <1>1
  <2> HIDE DEF h
  <2>2. value * h \in Nat /\ value * h <= 100 * value
    BY <2>1
  <2> QED BY <2>2 DEF h
<1> HIDE DEF w
<1>3. w \div 100 \in Nat /\ w \div 100 <= value
  BY <1>2
<1> QED BY <1>3 DEF Withhold, w

LEMMA SimulationTyped ==
  ASSUME InputReal, NEW k, NEW ns, Choice(k, ns)
  PROVE  SimTyped(SimNodes(k, ns), SimPods(k))
<1> DEFINE nodes == SimNodes(k, ns)
           pods == SimPods(k)
<1>1. Len(nodes) = Len(ns) /\ Len(ns) \in Nat
      /\ \A j \in 1..Len(ns) : nodes[j] = SimNode(k, ns[j]) /\ ns[j] \in PoolNodes(k)
  <2> DEFINE node(j) == SimNode(k, ns[j])
  <2>1. nodes = [j \in 1..Len(ns) |-> node(j)] /\ Len(ns) \in Nat
    BY DEF SimNodes, Choice
  <2>2. \A j \in 1..Len(ns) : ns[j] \in PoolNodes(k)
    BY DEF Choice
  <2>3. \A j : node(j) = SimNode(k, ns[j])
    OBVIOUS
  <2> HIDE DEF node, nodes
  <2> QED BY <2>1, <2>2, <2>3
<1>2. ASSUME NEW i \in PoolNodes(k)
      PROVE  /\ SimNode(k, i).cap \in [Resources -> Int] /\ SimNode(k, i).reserved \in [Resources -> Int]
             /\ SimNode(k, i).maxPods \in Int /\ SimNode(k, i).reservedPods \in Int
             /\ SimNode(k, i).extended \in [Extended -> Nat]
  <2>1. i \in Indices
    BY PlacesFacts
  <2>2. \A d \in Resources : Withhold(Node(i).cap[d]) \in Int
    BY <2>1, InputFacts, WithholdNatural
  <2>3. Reserved(k, i) \in [Resources -> Int]
    <3>1. \A d \in Resources : Reserved(k, i)[d] \in Int
      <4> SUFFICES ASSUME NEW d \in Resources PROVE Reserved(k, i)[d] \in Int
        OBVIOUS
      <4> DEFINE t == Total([p \in Pinned(i) |-> Effective(p)[d]])
      <4>1. DaemonSize(k, d) \in Nat /\ t \in Nat /\ Reserved(k, i)[d] = DaemonSize(k, d) + t
        BY ReservedFacts
      <4> HIDE DEF t
      <4> QED BY <4>1
    <3>2. Reserved(k, i) = [d \in Resources |-> Reserved(k, i)[d]]
      BY DEF Reserved
    <3> QED BY <3>1, <3>2
  <2>4. Node(i).maxPods \in Int /\ DaemonCount(k) + Cardinality(Pinned(i)) \in Int
    <3>1. DaemonCount(k) \in Nat /\ Cardinality(Pinned(i)) \in Nat
      BY ReservedFacts
    <3>2. Node(i).maxPods \in Nat
      BY <2>1, InputFacts
    <3> QED BY <3>1, <3>2
  <2>5. SimNode(k, i).cap = [d \in Resources |-> Withhold(Node(i).cap[d])]
        /\ SimNode(k, i).reserved = Reserved(k, i) /\ SimNode(k, i).maxPods = Node(i).maxPods
        /\ SimNode(k, i).reservedPods = DaemonCount(k) + Cardinality(Pinned(i))
    BY SimNodeFields
  <2>6. SimNode(k, i).cap \in [Resources -> Int]
    BY <2>2, <2>5
  <2>7. SimNode(k, i).extended \in [Extended -> Nat]
    BY <2>1, SimNodeFields, ExtendedNatural
  <2> QED BY <2>3, <2>4, <2>5, <2>6, <2>7
<1>3. IsFiniteSet(DOMAIN pods) /\ DOMAIN pods \in SUBSET Nat
  <2>1. DOMAIN pods = 1..Cardinality(ToPlace(k)) /\ Cardinality(ToPlace(k)) \in Nat
    BY SimPodsFacts
  <2> HIDE DEF pods
  <2> QED BY <2>1, FS_Interval
<1>4. ASSUME NEW r \in DOMAIN pods
      PROVE  /\ pods[r].size \in [Resources -> Int] /\ pods[r].extended \in [Extended -> Nat]
             /\ \A c \in pods[r].topologySpread : c.maxSkew \in Int /\ c.minDomains \in Int
  <2>1. PICK p \in ToPlace(k) : pods[r] = SimPod(p)
    BY SimPodsFacts
  <2>2. p \in DOMAIN input.pods
    BY PlacesFacts
  <2>3. Effective(p) \in [Resources -> Int]
    <3>1. \A d \in Resources : Effective(p)[d] \in Int
      BY <2>2, EffectiveNatural
    <3> QED BY <3>1 DEF Effective
  <2>4. \A c \in Pod(p).topologySpread : c.maxSkew \in Int /\ c.minDomains \in Int
    BY <2>2, InputFacts
  <2>5. Pod(p).extended \in [Extended -> Nat]
    BY <2>2, ExtendedNatural
  <2> QED BY <2>1, <2>3, <2>4, <2>5, SimPodFields
<1> HIDE DEF nodes, pods
<1> QED BY <1>1, <1>2, <1>3, <1>4 DEF SimTyped, nodes, pods

LEMMA SimulationMutual ==
  ASSUME InputReal, NEW k, Mutual(k)
  PROVE  SimMutual(SimPods(k))
<1> DEFINE pods == SimPods(k)
           name == Placed(k)
<1>1. \A r \in DOMAIN pods : name[r] \in ToPlace(k) /\ pods[r] = SimPod(name[r])
  BY SimPodsFacts
<1>2. \A r, s \in DOMAIN pods : r # s => name[r] # name[s]
  BY SimPodsFacts
<1>3. ToPlace(k) \subseteq UNION {On(i) : i \in PoolNodes(k)}
  BY DEF ToPlace
<1> HIDE DEF pods, name
<1> SUFFICES ASSUME NEW r \in DOMAIN pods, NEW s \in DOMAIN pods, r # s
             PROVE  /\ \A term \in pods[r].antiAffinity : Repels(term, pods[r], pods[s]) =>
                         \E back \in pods[s].antiAffinity :
                           back.topologyKey = term.topologyKey /\ Repels(back, pods[s], pods[r])
                    /\ \A c \in pods[r].topologySpread : c.hard /\ CountsFor(c, pods[r], pods[s]) =>
                         c \in pods[s].topologySpread
  BY DEF SimMutual, pods
<1> DEFINE p == name[r]
           q == name[s]
<1>4. p \in ToPlace(k) /\ q \in UNION {On(i) : i \in PoolNodes(k)} /\ p # q
  BY <1>1, <1>2, <1>3
<1>5. pods[r] = SimPod(p) /\ pods[s] = SimPod(q)
  BY <1>1
<1> HIDE DEF p, q
<1>6. /\ \A term \in Pod(p).antiAffinity : Repels(term, Pod(p), Pod(q)) =>
           \E back \in Pod(q).antiAffinity :
             back.topologyKey = term.topologyKey /\ Repels(back, Pod(q), Pod(p))
      /\ \A c \in Pod(p).topologySpread : c.hard /\ CountsFor(c, Pod(p), Pod(q)) =>
           c \in Pod(q).topologySpread
  BY <1>4 DEF Mutual
<1>7. /\ SimPod(p).antiAffinity = Pod(p).antiAffinity /\ SimPod(q).antiAffinity = Pod(q).antiAffinity
      /\ SimPod(p).topologySpread = Pod(p).topologySpread /\ SimPod(q).topologySpread = Pod(q).topologySpread
      /\ \A term : /\ Repels(term, SimPod(p), SimPod(q)) <=> Repels(term, Pod(p), Pod(q))
                   /\ Repels(term, SimPod(q), SimPod(p)) <=> Repels(term, Pod(q), Pod(p))
                   /\ CountsFor(term, SimPod(p), SimPod(q)) <=> CountsFor(term, Pod(p), Pod(q))
  BY SimPodFields
<1> QED BY <1>5, <1>6, <1>7

\* A simulation that places all pods leaves an arrangement of them.
LEMMA HoldsArranged ==
  ASSUME InputReal, NEW k, Mutual(k), NEW ns, Choice(k, ns), Holds(k, ns)
  PROVE  \E at : Arranged(k, {ns[j] : j \in 1..Len(ns)}, at)
<1> DEFINE nodes == SimNodes(k, ns)
           pods == SimPods(k)
           sim == Fit(nodes, pods)
           N == Cardinality(ToPlace(k))
           K == {ns[j] : j \in 1..Len(ns)}
           slot == [p \in ToPlace(k) |-> CHOOSE r \in 1..N : Placed(k)[r] = p]
           at == [p \in ToPlace(k) |-> ns[sim[slot[p]]]]
<1>1. /\ DOMAIN pods = 1..N /\ N \in Nat
      /\ \A r \in 1..N : Placed(k)[r] \in ToPlace(k) /\ pods[r] = SimPod(Placed(k)[r])
      /\ \A r, s \in 1..N : Placed(k)[r] = Placed(k)[s] => r = s
      /\ \A p \in ToPlace(k) : \E r \in 1..N : Placed(k)[r] = p
  BY SimPodsFacts
<1>2. Packed(nodes, pods, sim)
  BY SimulationTyped, SimulationMutual, FitPacked
<1>3. /\ Len(nodes) = Len(ns) /\ Len(ns) \in Nat
      /\ \A j \in 1..Len(ns) : nodes[j] = SimNode(k, ns[j]) /\ ns[j] \in PoolNodes(k)
      /\ \A i, j \in 1..Len(ns) : ns[i] = ns[j] => i = j
  <2> DEFINE node(j) == SimNode(k, ns[j])
  <2>1. nodes = [j \in 1..Len(ns) |-> node(j)] /\ Len(ns) \in Nat
    BY DEF SimNodes, Choice
  <2>2. \A j \in 1..Len(ns) : ns[j] \in PoolNodes(k)
    BY DEF Choice
  <2>3. \A j : node(j) = SimNode(k, ns[j])
    OBVIOUS
  <2>4. \A i, j \in 1..Len(ns) : ns[i] = ns[j] => i = j
    BY DEF Choice
  <2> HIDE DEF node, nodes, K, at, sim
  <2> QED BY <2>1, <2>2, <2>3, <2>4
<1>4. \A r \in 1..N : sim[r] \in 1..Len(ns) /\ sim[r] # 0
  <2>1. AllPlaced(nodes, pods)
    BY DEF Holds, SimNodes
  <2>2. \A r \in DOMAIN pods : sim[r] # 0
    BY <2>1 DEF AllPlaced
  <2>3. sim \in [DOMAIN pods -> 0..Len(nodes)]
    BY <1>2 DEF Packed
  <2> HIDE DEF sim, nodes, pods
  <2> QED BY <1>1, <1>3, <2>2, <2>3
<1>5. \A p \in ToPlace(k) : slot[p] \in 1..N /\ Placed(k)[slot[p]] = p /\ pods[slot[p]] = SimPod(p)
  BY <1>1
<1>6. \A r \in 1..N : slot[Placed(k)[r]] = r
  <2> HIDE DEF slot
  <2> QED BY <1>1, <1>5
<1> HIDE DEF slot
<1>7. \A p \in ToPlace(k) : at[p] = ns[sim[slot[p]]] /\ sim[slot[p]] \in 1..Len(ns) /\ sim[slot[p]] # 0
                           /\ nodes[sim[slot[p]]] = SimNode(k, at[p])
  <2> HIDE DEF sim, nodes, pods
  <2> QED BY <1>3, <1>4, <1>5
<1>8. at \in [ToPlace(k) -> K]
  <2> HIDE DEF sim, nodes, pods
  <2> QED BY <1>7
<1> HIDE DEF sim, nodes, pods, at
<1>9. \A p \in ToPlace(k) : \A key : DomainOf(nodes, sim, slot[p], key) = DomainAt(at, p, key)
  <2> SUFFICES ASSUME NEW p \in ToPlace(k), NEW key
               PROVE  Domain(nodes[sim[slot[p]]], key) = Domain(NamedNode(at[p]), key)
    BY DEF DomainOf, DomainAt
  <2>1. nodes[sim[slot[p]]] = SimNode(k, at[p])
    BY <1>7
  <2>2. Domain(SimNode(k, at[p]), key) = Domain(NamedNode(at[p]), key)
    BY SimNodeDomain
  <2> QED BY <2>1, <2>2
<1>10. ArrangedEligible(k, at)
  <2> SUFFICES ASSUME NEW p \in ToPlace(k) PROVE Eligible(Pod(p), NamedNode(at[p])) /\ HasDomains(p, at[p])
    BY DEF ArrangedEligible
  <2>1. slot[p] \in DOMAIN pods /\ sim[slot[p]] # 0 /\ pods[slot[p]] = SimPod(p)
        /\ nodes[sim[slot[p]]] = SimNode(k, at[p])
    BY <1>1, <1>5, <1>7
  <2>2. /\ Eligible(pods[slot[p]], nodes[sim[slot[p]]])
        /\ \A term \in pods[slot[p]].antiAffinity : DomainOf(nodes, sim, slot[p], term.topologyKey) # {}
        /\ \A c \in pods[slot[p]].topologySpread : c.hard => DomainOf(nodes, sim, slot[p], c.topologyKey) # {}
    BY <1>2, <2>1 DEF Packed, SimEligible
  <2>3. Eligible(Pod(p), NamedNode(at[p]))
    BY <2>1, <2>2, SimPodFields
  <2>4. /\ \A term \in Pod(p).antiAffinity : DomainAt(at, p, term.topologyKey) # {}
        /\ \A c \in Pod(p).topologySpread : c.hard => DomainAt(at, p, c.topologyKey) # {}
    BY <1>9, <2>1, <2>2, SimPodFields
  <2> QED BY <2>3, <2>4 DEF HasDomains, DomainAt
<1>11. ArrangedApart(k, at)
  <2> SUFFICES ASSUME NEW p \in ToPlace(k), NEW q \in ToPlace(k), p # q,
                      NEW term \in Pod(p).antiAffinity, Repels(term, Pod(p), Pod(q))
               PROVE  DomainAt(at, p, term.topologyKey) # DomainAt(at, q, term.topologyKey)
    BY DEF ArrangedApart
  <2>1. /\ slot[p] \in DOMAIN pods /\ slot[q] \in DOMAIN pods /\ slot[p] # slot[q]
        /\ sim[slot[p]] # 0 /\ sim[slot[q]] # 0
        /\ pods[slot[p]] = SimPod(p) /\ pods[slot[q]] = SimPod(q)
    BY <1>1, <1>5, <1>7
  <2>2. term \in pods[slot[p]].antiAffinity /\ Repels(term, pods[slot[p]], pods[slot[q]])
    BY <2>1, SimPodFields
  <2>3. DomainOf(nodes, sim, slot[p], term.topologyKey) # DomainOf(nodes, sim, slot[q], term.topologyKey)
    BY <1>2, <2>1, <2>2 DEF Packed, SimApart
  <2> QED BY <1>9, <2>3
<1>12. ArrangedSpread(k, K, at)
  <2> SUFFICES ASSUME NEW p \in ToPlace(k), NEW c \in Pod(p).topologySpread, c.hard
               PROVE  LET here == Cardinality(CountedAt(k, at, p, c, DomainAt(at, p, c.topologyKey))) IN
                      /\ c.minDomains > Cardinality(NodeDomains(K, c.topologyKey)) => here <= c.maxSkew
                      /\ \A x \in NodeDomains(K, c.topologyKey) :
                           here <= Cardinality(CountedAt(k, at, p, c, x)) + c.maxSkew
    BY DEF ArrangedSpread
  <2>1. slot[p] \in DOMAIN pods /\ sim[slot[p]] # 0 /\ pods[slot[p]] = SimPod(p)
    BY <1>1, <1>5, <1>7
  <2>2. Domains(nodes, c.topologyKey) = NodeDomains(K, c.topologyKey)
    <3>1. \A j \in 1..Len(ns) : Domain(nodes[j], c.topologyKey) = Domain(NamedNode(ns[j]), c.topologyKey)
      BY <1>3, SimNodeDomain
    <3>2. {Domain(nodes[j], c.topologyKey) : j \in 1..Len(ns)} = {Domain(NamedNode(i), c.topologyKey) : i \in K}
      BY <3>1
    <3> QED BY <1>3, <3>2 DEF Domains, NodeDomains
  <2> DEFINE count(x) == Cardinality(Counted(nodes, pods, sim, slot[p], c, x))
             counted(x) == Cardinality(CountedAt(k, at, p, c, x))
             home == DomainOf(nodes, sim, slot[p], c.topologyKey)
  <2>3. \A x : count(x) = counted(x)
    <3> SUFFICES ASSUME NEW x PROVE count(x) = counted(x)
      OBVIOUS
    <3> DEFINE A == CountedAt(k, at, p, c, x)
    <3>1. \A q \in ToPlace(k) : CountsFor(c, pods[slot[p]], pods[slot[q]]) <=> CountsFor(c, Pod(p), Pod(q))
      BY <1>5, <2>1, SimPodFields
    <3>2. Counted(nodes, pods, sim, slot[p], c, x) = {slot[q] : q \in A}
      <4>1. \A q \in A : slot[q] \in Counted(nodes, pods, sim, slot[p], c, x)
        <5> SUFFICES ASSUME NEW q \in A PROVE slot[q] \in Counted(nodes, pods, sim, slot[p], c, x)
          OBVIOUS
        <5>1. q \in ToPlace(k) /\ DomainAt(at, q, c.topologyKey) = x /\ CountsFor(c, Pod(p), Pod(q))
          BY DEF CountedAt
        <5>2. slot[q] \in DOMAIN pods /\ sim[slot[q]] # 0
          BY <1>1, <1>5, <1>7, <5>1
        <5> QED BY <1>9, <3>1, <5>1, <5>2 DEF Counted
      <4>2. \A r \in Counted(nodes, pods, sim, slot[p], c, x) : \E q \in A : r = slot[q]
        <5> SUFFICES ASSUME NEW r \in Counted(nodes, pods, sim, slot[p], c, x) PROVE \E q \in A : r = slot[q]
          OBVIOUS
        <5>1. r \in 1..N /\ DomainOf(nodes, sim, r, c.topologyKey) = x /\ CountsFor(c, pods[slot[p]], pods[r])
          BY <1>1 DEF Counted
        <5>2. Placed(k)[r] \in ToPlace(k) /\ slot[Placed(k)[r]] = r
          BY <1>1, <1>6, <5>1
        <5>3. Placed(k)[r] \in A
          BY <1>9, <3>1, <5>1, <5>2 DEF CountedAt
        <5> QED BY <5>2, <5>3
      <4> HIDE DEF A
      <4> QED BY <4>1, <4>2
    <3>3. IsFiniteSet(A) /\ \A q, r \in A : slot[q] = slot[r] => q = r
      <4>1. A \in SUBSET ToPlace(k)
        BY DEF CountedAt
      <4> HIDE DEF A
      <4>2. IsFiniteSet(A)
        BY <4>1, PlacesFacts, FS_Subset
      <4> QED BY <1>5, <4>1, <4>2
    <3> HIDE DEF A
    <3>4. Cardinality({slot[q] : q \in A}) = Cardinality(A)
      BY <3>3, CardinalityRenamed
    <3> QED BY <3>2, <3>4 DEF A
  <2>4. /\ c.minDomains > Cardinality(Domains(nodes, c.topologyKey)) => count(home) <= c.maxSkew
        /\ \A x \in Domains(nodes, c.topologyKey) : count(home) <= count(x) + c.maxSkew
    <3>1. c \in pods[slot[p]].topologySpread
      BY <2>1, SimPodFields
    <3> QED BY <1>2, <2>1, <3>1 DEF Packed, SimSpread
  <2>5. home = DomainAt(at, p, c.topologyKey)
    BY <1>9
  <2> HIDE DEF count, counted, home
  <2>6. /\ c.minDomains > Cardinality(NodeDomains(K, c.topologyKey)) => counted(home) <= c.maxSkew
        /\ \A x \in NodeDomains(K, c.topologyKey) : counted(home) <= counted(x) + c.maxSkew
    BY <2>2, <2>3, <2>4
  <2> QED BY <2>5, <2>6 DEF counted
<1>13. ASSUME NEW i \in K, NEW j \in 1..Len(ns), ns[j] = i
       PROVE  /\ Occupants(sim, j) = {slot[p] : p \in MovedOn(k, at, i)}
              /\ MovedOn(k, at, i) \in SUBSET ToPlace(k) /\ IsFiniteSet(MovedOn(k, at, i))
              /\ \A p, q \in MovedOn(k, at, i) : slot[p] = slot[q] => p = q
  <2> DEFINE A == MovedOn(k, at, i)
             O == Occupants(sim, j)
  <2>2. A \in SUBSET ToPlace(k) /\ IsFiniteSet(A)
    <3>1. A \in SUBSET ToPlace(k)
      BY DEF MovedOn
    <3> HIDE DEF A
    <3> QED BY <3>1, PlacesFacts, FS_Subset
  <2>3. O = {slot[p] : p \in A}
    <3>1. DOMAIN sim = 1..N
      BY <1>1, <1>2 DEF Packed
    <3>2. \A p \in A : slot[p] \in O
      <4> SUFFICES ASSUME NEW p \in A PROVE slot[p] \in O
        OBVIOUS
      <4>1. p \in ToPlace(k) /\ at[p] = i
        BY DEF MovedOn
      <4>2. sim[slot[p]] = j /\ slot[p] \in 1..N
        BY <1>3, <1>5, <1>7, <1>13, <4>1
      <4> QED BY <3>1, <4>2 DEF Occupants
    <3>3. \A r \in O : \E p \in A : r = slot[p]
      <4> SUFFICES ASSUME NEW r \in O PROVE \E p \in A : r = slot[p]
        OBVIOUS
      <4>1. r \in 1..N /\ sim[r] = j
        BY <3>1 DEF Occupants
      <4>2. Placed(k)[r] \in ToPlace(k) /\ slot[Placed(k)[r]] = r
        BY <1>1, <1>6, <4>1
      <4>3. Placed(k)[r] \in A
        BY <1>7, <1>13, <4>1, <4>2 DEF MovedOn
      <4> QED BY <4>2, <4>3
    <3> HIDE DEF A, O
    <3> QED BY <3>2, <3>3
  <2>4. \A p, q \in A : slot[p] = slot[q] => p = q
    <3> HIDE DEF A
    <3> QED BY <1>5, <2>2
  <2> QED BY <2>2, <2>3, <2>4
<1>14. ArrangedRoom(k, K, at)
  <2> SUFFICES ASSUME NEW i \in K, MovedOn(k, at, i) # {}
               PROVE  /\ \A d \in Resources :
                           SumOver(Sizes(d), MovedOn(k, at, i)) <= Withhold(Node(i).cap[d]) - Reserved(k, i)[d]
                      /\ Node(i).maxPods > 0 =>
                           DaemonCount(k) + Cardinality(Pinned(i)) + Cardinality(MovedOn(k, at, i)) <= Node(i).maxPods
    BY DEF ArrangedRoom
  <2>1. PICK j \in 1..Len(ns) : ns[j] = i
    OBVIOUS
  <2> DEFINE A == MovedOn(k, at, i)
             O == Occupants(sim, j)
  <2>2. A \in SUBSET ToPlace(k) /\ IsFiniteSet(A)
    BY <1>13, <2>1
  <2>3. O = {slot[p] : p \in A}
    BY <1>13, <2>1
  <2>4. \A p, q \in A : slot[p] = slot[q] => p = q
    BY <1>13, <2>1
  <2>5. O # {}
    <3> HIDE DEF O
    <3> QED BY <2>3
  <2>6. nodes[j] = SimNode(k, i)
    BY <1>3, <2>1
  <2>7. /\ \A d \in Resources :
             SumOver([r \in DOMAIN pods |-> pods[r].size[d]], O) <= nodes[j].cap[d] - nodes[j].reserved[d]
        /\ nodes[j].maxPods > 0 => nodes[j].reservedPods + Cardinality(O) <= nodes[j].maxPods
    BY <1>2, <1>3, <2>1, <2>5 DEF Packed, SimRoom
  <2>8. Cardinality(O) = Cardinality(A)
    <3> HIDE DEF A, O
    <3> QED BY <2>2, <2>3, <2>4, CardinalityRenamed
  <2>9. ASSUME NEW d \in Resources
        PROVE  SumOver([r \in DOMAIN pods |-> pods[r].size[d]], O) = SumOver(Sizes(d), A)
    <3> DEFINE f == [r \in DOMAIN pods |-> pods[r].size[d]]
               g == Sizes(d)
    <3>1. \A p \in A : f[slot[p]] \in Int /\ g[p] = f[slot[p]]
      <4> SUFFICES ASSUME NEW p \in A PROVE f[slot[p]] \in Int /\ g[p] = f[slot[p]]
        OBVIOUS
      <4>1. p \in ToPlace(k) /\ p \in DOMAIN input.pods
        BY <2>2, PlacesFacts
      <4>2. f[slot[p]] = Effective(p)[d]
        BY <1>1, <1>5, <4>1, SimPodFields
      <4>3. g[p] = Effective(p)[d] /\ Effective(p)[d] \in Nat
        BY <4>1, EffectiveNatural DEF Sizes
      <4> QED BY <4>2, <4>3
    <3> HIDE DEF f, g, A, O
    <3>2. SumOver(g, A) = SumOver(f, {slot[p] : p \in A})
      BY <2>2, <2>4, <3>1, SumRenamed
    <3>3. SumOver(g, A) = SumOver(f, O)
      BY <2>3, <3>2
    <3> QED BY <3>3 DEF f, g
  <2>10. nodes[j].maxPods = Node(i).maxPods /\ nodes[j].reservedPods = DaemonCount(k) + Cardinality(Pinned(i))
         /\ \A d \in Resources : nodes[j].cap[d] = Withhold(Node(i).cap[d]) /\ nodes[j].reserved[d] = Reserved(k, i)[d]
    <3>1. /\ SimNode(k, i).cap = [d \in Resources |-> Withhold(Node(i).cap[d])]
          /\ SimNode(k, i).reserved = Reserved(k, i) /\ SimNode(k, i).maxPods = Node(i).maxPods
          /\ SimNode(k, i).reservedPods = DaemonCount(k) + Cardinality(Pinned(i))
      BY SimNodeFields
    <3> QED BY <2>6, <3>1
  <2>11. \A d \in Resources : SumOver(Sizes(d), A) <= Withhold(Node(i).cap[d]) - Reserved(k, i)[d]
    <3> HIDE DEF A, O
    <3> QED BY <2>7, <2>9, <2>10
  <2>12. Node(i).maxPods > 0 => DaemonCount(k) + Cardinality(Pinned(i)) + Cardinality(A) <= Node(i).maxPods
    <3> HIDE DEF A, O
    <3> QED BY <2>7, <2>8, <2>10
  <2> QED BY <2>11, <2>12
<1>15. ArrangedStore(k, K, at)
  <2> SUFFICES ASSUME NEW i \in K, NEW e \in Extended
               PROVE  SumOver(Asked(e), MovedOn(k, at, i)) <= Node(i).extended[e]
    BY DEF ArrangedStore
  <2>1. PICK j \in 1..Len(ns) : ns[j] = i
    OBVIOUS
  <2> DEFINE A == MovedOn(k, at, i)
             O == Occupants(sim, j)
             f == [r \in DOMAIN pods |-> pods[r].extended[e]]
             g == Asked(e)
  <2>2. A \in SUBSET ToPlace(k) /\ IsFiniteSet(A)
    BY <1>13, <2>1
  <2>3. O = {slot[p] : p \in A}
    BY <1>13, <2>1
  <2>4. \A p, q \in A : slot[p] = slot[q] => p = q
    BY <1>13, <2>1
  <2>5. \A p \in A : f[slot[p]] \in Int /\ g[p] = f[slot[p]]
    <3> SUFFICES ASSUME NEW p \in A PROVE f[slot[p]] \in Int /\ g[p] = f[slot[p]]
      OBVIOUS
    <3>1. p \in ToPlace(k) /\ p \in DOMAIN input.pods
      BY <2>2, PlacesFacts
    <3>2. f[slot[p]] = Pod(p).extended[e]
      BY <1>1, <1>5, <3>1, SimPodFields
    <3>3. g[p] = Pod(p).extended[e] /\ Pod(p).extended[e] \in Nat
      BY <3>1, ExtendedNatural DEF Asked
    <3> QED BY <3>2, <3>3
  <2>6. SumOver(f, O) <= nodes[j].extended[e]
    BY <1>2, <1>3, <2>1 DEF Packed, SimStore
  <2>7. nodes[j].extended[e] = Node(i).extended[e]
    <3>1. nodes[j] = SimNode(k, i)
      BY <1>3, <2>1
    <3>2. SimNode(k, i).extended = Node(i).extended
      BY SimNodeFields
    <3> QED BY <3>1, <3>2
  <2> HIDE DEF f, g, A, O
  <2>8. SumOver(g, A) = SumOver(f, {slot[p] : p \in A})
    BY <2>2, <2>4, <2>5, SumRenamed
  <2>9. SumOver(g, A) <= Node(i).extended[e]
    BY <2>3, <2>6, <2>7, <2>8
  <2> QED BY <2>9 DEF g, A
<1> QED BY <1>8, <1>10, <1>11, <1>12, <1>14, <1>15 DEF Arranged

-----------------------------------------------------------------------------
(* What the nodes really have and run leaves room for that.                *)

\* Where all pods of a pool are, those that stay among them.
Settled(k, K, at) ==
  [p \in ToPlace(k) \cup Fixed(K) |-> IF p \in ToPlace(k) THEN at[p] ELSE Pod(p).host]

LEMMA SettledFacts ==
  ASSUME InputReal, NEW k, NEW K \in SUBSET PoolNodes(k), NEW at \in [ToPlace(k) -> K]
  PROVE  /\ \A p \in ToPlace(k) : p \in DOMAIN Settled(k, K, at) /\ Settled(k, K, at)[p] = at[p]
         /\ \A p \in DOMAIN Settled(k, K, at) : p \in UNION {On(i) : i \in PoolNodes(k)}
         /\ \A i \in K : {p \in DOMAIN Settled(k, K, at) : Settled(k, K, at)[p] = i}
                           = MovedOn(k, at, i) \cup (DaemonPods(i) \cup Pinned(i))
         /\ \A i : /\ MovedOn(k, at, i) \cap (DaemonPods(i) \cup Pinned(i)) = {}
                   /\ DaemonPods(i) \cap Pinned(i) = {}
<1> DEFINE where == Settled(k, K, at)
<1>1. /\ DOMAIN where = ToPlace(k) \cup Fixed(K)
      /\ \A p \in ToPlace(k) : where[p] = at[p]
      /\ \A p \in Fixed(K) : p \notin ToPlace(k) => where[p] = Pod(p).host
  BY DEF Settled
<1>2. \A i : \A p \in DaemonPods(i) \cup Pinned(i) : ~Relocatable(p) /\ Pod(p).host = i /\ p \in On(i)
  BY DEF DaemonPods, Pinned, On, Relocatable
<1>3. \A p \in ToPlace(k) : Relocatable(p)
  BY DEF ToPlace
<1>4. \A p \in Fixed(K) : \E i \in K : p \in DaemonPods(i) \cup Pinned(i)
  BY DEF Fixed
<1>5. \A i \in K : \A p \in DaemonPods(i) \cup Pinned(i) : p \in Fixed(K)
  BY DEF Fixed
<1> HIDE DEF where
<1>6. DOMAIN where \in SUBSET UNION {On(i) : i \in PoolNodes(k)}
  <2>1. ToPlace(k) \in SUBSET UNION {On(i) : i \in PoolNodes(k)}
    BY DEF ToPlace
  <2>2. Fixed(K) \in SUBSET UNION {On(i) : i \in PoolNodes(k)}
    BY <1>2, <1>4
  <2> QED BY <1>1, <2>1, <2>2
<1>7. ASSUME NEW i \in K
      PROVE  {p \in DOMAIN where : where[p] = i} = MovedOn(k, at, i) \cup (DaemonPods(i) \cup Pinned(i))
  <2>1. \A p \in DOMAIN where : where[p] = i => p \in MovedOn(k, at, i) \cup (DaemonPods(i) \cup Pinned(i))
    <3> SUFFICES ASSUME NEW p \in DOMAIN where, where[p] = i
                 PROVE  p \in MovedOn(k, at, i) \cup (DaemonPods(i) \cup Pinned(i))
      OBVIOUS
    <3>1. CASE p \in ToPlace(k)
      BY <1>1, <3>1 DEF MovedOn
    <3>2. CASE p \notin ToPlace(k)
      <4>1. PICK j \in K : p \in DaemonPods(j) \cup Pinned(j)
        BY <1>1, <1>4, <3>2
      <4>2. j = i
        BY <1>1, <1>2, <1>5, <3>2, <4>1
      <4> QED BY <4>1, <4>2
    <3> QED BY <3>1, <3>2
  <2>2. \A p \in MovedOn(k, at, i) : p \in DOMAIN where /\ where[p] = i
    BY <1>1 DEF MovedOn
  <2>3. \A p \in DaemonPods(i) \cup Pinned(i) : p \in DOMAIN where /\ where[p] = i
    BY <1>1, <1>2, <1>3, <1>5
  <2> QED BY <2>1, <2>2, <2>3
<1>8. \A i : MovedOn(k, at, i) \cap (DaemonPods(i) \cup Pinned(i)) = {}
  BY <1>2, <1>3 DEF MovedOn
<1>9. \A i : DaemonPods(i) \cap Pinned(i) = {}
  BY DEF DaemonPods, Pinned
<1> QED BY <1>1, <1>6, <1>7, <1>8, <1>9 DEF where

\* What the nodes really have and run leaves room for an arrangement.
LEMMA ArrangedHasRoom ==
  ASSUME InputReal, NEW k, NEW K \in SUBSET PoolNodes(k), NEW at, Arranged(k, K, at), Unextended(k)
  PROVE  RoomFor(Settled(k, K, at), ToPlace(k))
<1> DEFINE where == Settled(k, K, at)
           moved == ToPlace(k)
           loads(i, d) == [p \in {q \in DOMAIN where : where[q] = i} |-> Load(p, d)]
           asks(i, e) == [p \in {q \in DOMAIN where : where[q] = i} |-> Pod(p).extended[e]]
<1>1. at \in [ToPlace(k) -> K] /\ ArrangedRoom(k, K, at) /\ ArrangedStore(k, K, at)
  BY DEF Arranged
<1>2. /\ \A p \in ToPlace(k) : where[p] = at[p]
      /\ \A i \in K : {p \in DOMAIN where : where[p] = i} = MovedOn(k, at, i) \cup (DaemonPods(i) \cup Pinned(i))
      /\ \A i : /\ MovedOn(k, at, i) \cap (DaemonPods(i) \cup Pinned(i)) = {}
                /\ DaemonPods(i) \cap Pinned(i) = {}
  <2>1. \A p \in ToPlace(k) : where[p] = at[p]
    BY <1>1, SettledFacts
  <2>2. \A i \in K : {p \in DOMAIN where : where[p] = i} = MovedOn(k, at, i) \cup (DaemonPods(i) \cup Pinned(i))
    BY <1>1, SettledFacts
  <2>3. \A i : /\ MovedOn(k, at, i) \cap (DaemonPods(i) \cup Pinned(i)) = {}
               /\ DaemonPods(i) \cap Pinned(i) = {}
    BY <1>1, SettledFacts
  <2> QED BY <2>1, <2>2, <2>3
<1> HIDE DEF where
<1>3. SUFFICES ASSUME NEW i \in {where[p] : p \in moved}
               PROVE  /\ \A d \in Resources : Total(loads(i, d)) <= Node(i).cap[d]
                      /\ \A e \in Extended : Total(asks(i, e)) <= Node(i).extended[e]
                      /\ Node(i).maxPods > 0 => Cardinality({p \in DOMAIN where : where[p] = i}) <= Node(i).maxPods
  BY Zenon DEF RoomFor, where
<1>4. i \in K /\ MovedOn(k, at, i) # {} /\ i \in PoolNodes(k) /\ i \in Indices
  <2>1. PICK p \in ToPlace(k) : where[p] = i
    OBVIOUS
  <2>2. at[p] = i /\ i \in K
    BY <1>1, <1>2, <2>1
  <2>3. p \in MovedOn(k, at, i)
    BY <2>1, <2>2 DEF MovedOn
  <2> QED BY <2>2, <2>3, PlacesFacts
<1> DEFINE M == MovedOn(k, at, i)
           D == DaemonPods(i)
           P == Pinned(i)
<1>5. /\ M \in SUBSET ToPlace(k) /\ IsFiniteSet(M) /\ IsFiniteSet(D) /\ IsFiniteSet(P)
      /\ M \in SUBSET DOMAIN input.pods /\ D \in SUBSET DOMAIN input.pods /\ P \in SUBSET DOMAIN input.pods
  <2>1. M \in SUBSET ToPlace(k)
    BY DEF MovedOn
  <2>2. ToPlace(k) \in SUBSET DOMAIN input.pods /\ IsFiniteSet(ToPlace(k))
    BY PlacesFacts
  <2>3. /\ IsFiniteSet(D) /\ IsFiniteSet(P)
        /\ D \in SUBSET DOMAIN input.pods /\ P \in SUBSET DOMAIN input.pods
    BY PlacesFacts
  <2> HIDE DEF M, D, P
  <2>4. IsFiniteSet(M)
    BY <2>1, <2>2, FS_Subset
  <2> QED BY <2>1, <2>2, <2>3, <2>4
<1>6. {p \in DOMAIN where : where[p] = i} = M \cup (D \cup P)
  BY <1>2, <1>4
<1>7. M \cap (D \cup P) = {} /\ D \cap P = {} /\ IsFiniteSet(D \cup P) /\ IsFiniteSet(M \cup (D \cup P))
  BY <1>2, <1>5, FS_Union
<1>8. /\ \A d \in Resources : SumOver(Sizes(d), M) <= Withhold(Node(i).cap[d]) - Reserved(k, i)[d]
      /\ Node(i).maxPods > 0 => DaemonCount(k) + Cardinality(P) + Cardinality(M) <= Node(i).maxPods
  BY <1>1, <1>4 DEF ArrangedRoom
<1>9. \A p \in M \cup P, d \in Resources : Load(p, d) = Effective(p)[d] /\ Load(p, d) \in Nat
  <2>1. \A p \in M \cup P : Pod(p).owner # "DaemonSet" /\ p \in DOMAIN input.pods
    BY <1>5 DEF ToPlace, Relocatable, Pinned
  <2> HIDE DEF M, P
  <2> QED BY <2>1, EffectiveNatural DEF Load
<1>10. \A p \in D, d \in Resources : Load(p, d) = Pod(p).request[d] /\ Load(p, d) \in Nat
  <2>1. \A p \in D : Pod(p).owner = "DaemonSet" /\ p \in DOMAIN input.pods
    BY <1>5 DEF DaemonPods
  <2> HIDE DEF D
  <2> QED BY <2>1, InputFacts DEF Load
<1>11. ASSUME NEW d \in Resources PROVE Total(loads(i, d)) <= Node(i).cap[d]
  <2> DEFINE f == loads(i, d)
             daemons == [p \in D |-> Pod(p).request[d]]
             pinned == [p \in P |-> Effective(p)[d]]
  <2>1. DOMAIN f = M \cup (D \cup P) /\ \A p \in M \cup (D \cup P) : f[p] = Load(p, d)
    BY <1>6
  <2>2. \A p \in M \cup (D \cup P) : f[p] \in Int
    <3> HIDE DEF f, M, D, P
    <3> QED BY <1>9, <1>10, <2>1
  <2>3. Total(f) = SumOver(f, M) + SumOver(f, D) + SumOver(f, P)
    <3> HIDE DEF f, M, D, P
    <3>1. Total(f) = SumOver(f, M \cup (D \cup P))
      BY <2>1, TotalIsSum
    <3>2. SumOver(f, M \cup (D \cup P)) = SumOver(f, M) + SumOver(f, D \cup P)
      BY <1>5, <1>7, <2>2, SumUnion
    <3>3. SumOver(f, D \cup P) = SumOver(f, D) + SumOver(f, P)
      BY <1>5, <1>7, <2>2, SumUnion
    <3>4. SumOver(f, M) \in Int /\ SumOver(f, D) \in Int /\ SumOver(f, P) \in Int
      BY <1>5, <2>2, SumInt
    <3> QED BY <3>1, <3>2, <3>3, <3>4
  <2>4. SumOver(f, M) = SumOver(Sizes(d), M)
    <3>1. \A p \in M : f[p] \in Int /\ Sizes(d)[p] = f[p]
      <4> HIDE DEF f
      <4> QED BY <1>5, <1>9, <2>1, <2>2 DEF Sizes
    <3> HIDE DEF f, M
    <3> QED BY <1>5, <3>1, SumSame
  <2>5. SumOver(f, D) = Total(daemons)
    <3>1. DOMAIN daemons = D /\ \A p \in D : f[p] \in Int /\ daemons[p] = f[p]
      <4> HIDE DEF f
      <4> QED BY <1>10, <2>1, <2>2
    <3> HIDE DEF f, daemons, D
    <3>2. SumOver(f, D) = SumOver(daemons, D)
      BY <1>5, <3>1, SumSame
    <3> QED BY <3>1, <3>2, TotalIsSum
  <2>6. SumOver(f, P) = Total(pinned)
    <3>1. DOMAIN pinned = P /\ \A p \in P : f[p] \in Int /\ pinned[p] = f[p]
      <4> HIDE DEF f
      <4> QED BY <1>9, <2>1, <2>2
    <3> HIDE DEF f, pinned, P
    <3>2. SumOver(f, P) = SumOver(pinned, P)
      BY <1>5, <3>1, SumSame
    <3> QED BY <3>1, <3>2, TotalIsSum
  <2>7. SumOver(f, M) \in Int
    <3> HIDE DEF f, M
    <3> QED BY <1>5, <2>2, SumInt
  <2>8. /\ DaemonSize(k, d) \in Nat /\ Total(daemons) \in 0..DaemonSize(k, d) /\ Total(pinned) \in Nat
        /\ Reserved(k, i)[d] = DaemonSize(k, d) + Total(pinned)
    <3>1. DaemonSize(k, d) \in Nat /\ Total(daemons) \in 0..DaemonSize(k, d)
      BY <1>4, ReservedFacts
    <3>2. Total(pinned) \in Nat
      BY <1>4, ReservedFacts
    <3>3. Reserved(k, i)[d] = DaemonSize(k, d) + Total(pinned)
      BY DEF Reserved
    <3> QED BY <3>1, <3>2, <3>3
  <2>9. Withhold(Node(i).cap[d]) \in Nat /\ Withhold(Node(i).cap[d]) <= Node(i).cap[d] /\ Node(i).cap[d] \in Nat
    <3>1. Node(i).cap[d] \in Nat
      BY <1>4, InputFacts
    <3> QED BY <3>1, WithholdNatural
  <2> HIDE DEF f, daemons, pinned, M, D, P
  <2>10. SumOver(f, M) <= Withhold(Node(i).cap[d]) - Reserved(k, i)[d]
    BY <1>8, <2>4
  <2>11. Total(f) <= Node(i).cap[d]
    BY <2>3, <2>5, <2>6, <2>7, <2>8, <2>9, <2>10
  <2> QED BY <2>11 DEF f
<1>12. Node(i).maxPods > 0 => Cardinality({p \in DOMAIN where : where[p] = i}) <= Node(i).maxPods
  <2>1. Cardinality(D) \in 0..DaemonCount(k) /\ DaemonCount(k) \in Nat /\ Node(i).maxPods \in Nat
    <3>1. Cardinality(D) \in 0..DaemonCount(k) /\ DaemonCount(k) \in Nat
      BY <1>4, ReservedFacts
    <3>2. Node(i).maxPods \in Nat
      BY <1>4, InputFacts
    <3> QED BY <3>1, <3>2
  <2> HIDE DEF M, D, P
  <2>2. Cardinality(M) \in Nat /\ Cardinality(P) \in Nat
    BY <1>5, FS_CardinalityType
  <2>3. Cardinality(D \cup P) = Cardinality(D) + Cardinality(P)
    BY <1>5, <1>7, CardinalityUnion
  <2>4. Cardinality(M \cup (D \cup P)) = Cardinality(M) + Cardinality(D \cup P)
    BY <1>5, <1>7, CardinalityUnion
  <2>5. Node(i).maxPods > 0 => Cardinality(M \cup (D \cup P)) <= Node(i).maxPods
    BY <1>8, <2>1, <2>2, <2>3, <2>4
  <2> QED BY <1>6, <2>5
<1>13. ASSUME NEW e \in Extended PROVE Total(asks(i, e)) <= Node(i).extended[e]
  <2> DEFINE f == asks(i, e)
             S == D \cup P
  <2>1. /\ DOMAIN f = M \cup S
        /\ \A p \in M \cup S : f[p] = Pod(p).extended[e] /\ Pod(p).extended[e] \in Nat
    <3>1. M \cup S \in SUBSET DOMAIN input.pods
      BY <1>5
    <3> HIDE DEF M, S
    <3> QED BY <1>6, <3>1, ExtendedNatural DEF S
  <2>2. \A p \in S : f[p] = 0
    <3>1. S \in SUBSET Fixed(PoolNodes(k))
      BY <1>4 DEF Fixed
    <3> HIDE DEF f, M, S
    <3> QED BY <2>1, <3>1 DEF Unextended
  <2> HIDE DEF f, M
  <2>3. SumOver(f, M) = SumOver(Asked(e), M) /\ SumOver(f, M) \in Nat
    <3>1. \A p \in M : f[p] \in Int /\ f[p] \in Nat /\ Asked(e)[p] = f[p]
      BY <1>5, <2>1 DEF Asked
    <3> QED BY <1>5, <3>1, SumSame, SumNat
  <2>4. SumOver(f, S) = 0
    <3>1. IsFiniteSet(S) /\ Cardinality(S) \in Nat
      BY <1>7, FS_CardinalityType
    <3> HIDE DEF S
    <3>2. SumOver(f, S) = 0 * Cardinality(S)
      BY <2>2, <3>1, SumEqual
    <3> QED BY <3>1, <3>2
  <2>5. Total(f) = SumOver(f, M) + SumOver(f, S)
    <3>1. IsFiniteSet(M) /\ IsFiniteSet(S) /\ M \cap S = {}
      BY <1>5, <1>7
    <3> HIDE DEF S
    <3>2. \A p \in M \cup S : f[p] \in Int
      BY <2>1
    <3>3. SumOver(f, M \cup S) = SumOver(f, M) + SumOver(f, S)
      BY <3>1, <3>2, SumUnion
    <3> QED BY <2>1, <3>3, TotalIsSum
  <2>6. SumOver(Asked(e), M) <= Node(i).extended[e]
    BY <1>1, <1>4 DEF ArrangedStore, M
  <2> HIDE DEF S
  <2>7. Total(f) <= Node(i).extended[e]
    BY <2>3, <2>4, <2>5, <2>6
  <2> QED BY <2>7 DEF f
<1> QED BY <1>11, <1>12, <1>13

LEMMA ArrangedKeptApart ==
  ASSUME InputReal, NEW k, NEW K \in SUBSET PoolNodes(k), NEW at, Arranged(k, K, at), Mutual(k)
  PROVE  KeptApart(Settled(k, K, at), ToPlace(k))
<1> DEFINE where == Settled(k, K, at)
<1>1. at \in [ToPlace(k) -> K] /\ ArrangedApart(k, at)
  BY DEF Arranged
<1>2. /\ \A p \in ToPlace(k) : where[p] = at[p]
      /\ \A p \in DOMAIN where : p \in UNION {On(i) : i \in PoolNodes(k)}
  BY <1>1, SettledFacts
<1> HIDE DEF where
<1> SUFFICES ASSUME NEW p \in DOMAIN where, NEW q \in DOMAIN where, p # q,
                    p \in ToPlace(k) \/ q \in ToPlace(k),
                    NEW term \in Pod(p).antiAffinity,
                    InScope(term, Pod(p), Pod(q)), Chooses(term.selector, Pod(q).labels)
             PROVE  Domain(NamedNode(where[p]), term.topologyKey) # Domain(NamedNode(where[q]), term.topologyKey)
  BY DEF KeptApart, where
<1>3. Repels(term, Pod(p), Pod(q))
  BY DEF Repels, Chooses
<1>4. p \in ToPlace(k) /\ q \in ToPlace(k)
  BY <1>2, <1>3 DEF Mutual
<1> QED BY <1>1, <1>2, <1>3, <1>4 DEF ArrangedApart, DomainAt

\* Where the labels are set, the pods that a constraint counts are those that the
\* scheduler counts.
LEMMA CountedByBoth ==
  ASSUME NEW k, Explicit(k), NEW p \in ToPlace(k), NEW c \in Pod(p).topologySpread, c.hard,
         NEW q \in UNION {On(i) : i \in PoolNodes(k)}
  PROVE  CountsFor(c, Pod(p), Pod(q)) <=> Pod(q).ns = Pod(p).ns /\ Chooses(c.selector, Pod(q).labels)
<1>1. \A l \in c.selector.labels : l.value = Empty => IsSet(l.key, Pod(q).labels)
  BY DEF Explicit
<1>2. SelectorMatches(c.selector, Pod(q).labels) => c.selector.labels \subseteq Pod(q).labels
  BY <1>1 DEF SelectorMatches, MatchesLabels
<1> QED BY <1>2 DEF CountsFor, Chooses

LEMMA ArrangedEvenlySpread ==
  ASSUME InputReal, NEW k, NEW K \in SUBSET PoolNodes(k), NEW at, Arranged(k, K, at), Mutual(k), Explicit(k)
  PROVE  EvenlySpread(K, Settled(k, K, at), ToPlace(k))
<1> DEFINE where == Settled(k, K, at)
           hard(p) == {e \in Pod(p).topologySpread : e.hard}
           domains(e) == {Domain(NamedNode(i), e.topologyKey) : i \in K} \ {{}}
           same(p, e, x) == {q \in DOMAIN where :
                      /\ Pod(q).ns = Pod(p).ns /\ Chooses(e.selector, Pod(q).labels)
                      /\ Domain(NamedNode(where[q]), e.topologyKey) = x}
           count(p, e, x) == Cardinality(same(p, e, x))
           least(p, e) == IF e.minDomains > Cardinality(domains(e)) THEN 0
                          ELSE Min({count(p, e, x) : x \in domains(e)})
           Even(p, e) == count(p, e, Domain(NamedNode(where[p]), e.topologyKey)) - least(p, e) <= e.maxSkew
<1>1. at \in [ToPlace(k) -> K] /\ ArrangedSpread(k, K, at) /\ ArrangedEligible(k, at)
  BY DEF Arranged
<1>2. /\ \A p \in ToPlace(k) : where[p] = at[p] /\ p \in DOMAIN where
      /\ \A p \in DOMAIN where : p \in UNION {On(i) : i \in PoolNodes(k)}
  BY <1>1, SettledFacts
<1>3. SUFFICES \A p \in ToPlace(k) : \A c \in hard(p) : Even(p, c)
  BY Zenon DEF EvenlySpread
<1> HIDE DEF where
<1> SUFFICES ASSUME NEW p \in ToPlace(k), NEW c \in hard(p) PROVE Even(p, c)
  OBVIOUS
<1>4. c \in Pod(p).topologySpread /\ c.hard
  OBVIOUS
<1>5. \A x : same(p, c, x) = CountedAt(k, at, p, c, x)
  <2> SUFFICES ASSUME NEW x PROVE same(p, c, x) = CountedAt(k, at, p, c, x)
    OBVIOUS
  <2>1. \A q \in DOMAIN where :
          CountsFor(c, Pod(p), Pod(q)) <=> Pod(q).ns = Pod(p).ns /\ Chooses(c.selector, Pod(q).labels)
    BY <1>2, <1>4, CountedByBoth
  <2>2. \A q \in DOMAIN where : CountsFor(c, Pod(p), Pod(q)) => q \in ToPlace(k)
    BY <1>2, <1>4 DEF Mutual
  <2> QED BY <1>2, <2>1, <2>2 DEF CountedAt, DomainAt
<1> DEFINE counted(x) == Cardinality(CountedAt(k, at, p, c, x))
           D == NodeDomains(K, c.topologyKey)
           home == DomainAt(at, p, c.topologyKey)
           all == {counted(x) : x \in D}
<1>6. \A x : count(p, c, x) = counted(x) /\ counted(x) \in Nat
  <2>1. \A x : CountedAt(k, at, p, c, x) \in SUBSET ToPlace(k)
    BY DEF CountedAt
  <2>2. \A x : Cardinality(CountedAt(k, at, p, c, x)) \in Nat
    BY <2>1, PlacesFacts, FS_Subset, FS_CardinalityType
  <2> HIDE DEF same
  <2> QED BY <1>5, <2>2
<1>7. domains(c) = D /\ home = Domain(NamedNode(where[p]), c.topologyKey) /\ home \in D
  <2>1. home # {}
    BY <1>1, <1>4 DEF ArrangedEligible, HasDomains, DomainAt
  <2>2. home = Domain(NamedNode(where[p]), c.topologyKey) /\ at[p] \in K
    BY <1>1, <1>2 DEF DomainAt
  <2> QED BY <2>1, <2>2 DEF NodeDomains, DomainAt
<1>8. /\ c.minDomains > Cardinality(D) => counted(home) <= c.maxSkew
      /\ \A x \in D : counted(home) <= counted(x) + c.maxSkew
  BY <1>1, <1>4 DEF ArrangedSpread
<1>9. c.maxSkew \in Int
  <2>1. p \in DOMAIN input.pods
    BY PlacesFacts
  <2> QED BY <1>4, <2>1, InputFacts
<1>10. {count(p, c, x) : x \in domains(c)} = all
  <2> HIDE DEF count, counted, D, domains
  <2> QED BY <1>6, <1>7
<1>11. least(p, c) = IF c.minDomains > Cardinality(D) THEN 0 ELSE Min(all)
  <2> HIDE DEF count, counted, D, domains, all
  <2> QED BY <1>7, <1>10
<1>12. \E x \in D : Min(all) = counted(x)
  <2>1. all \in SUBSET Nat /\ all # {}
    <3> HIDE DEF counted, D, home
    <3> QED BY <1>6, <1>7
  <2> HIDE DEF all
  <2>2. Min(all) \in all
    BY <2>1, MinIsLeast
  <2> QED BY <2>2 DEF all
<1>13. count(p, c, Domain(NamedNode(where[p]), c.topologyKey)) = counted(home)
  <2> HIDE DEF count, counted, home
  <2> QED BY <1>6, <1>7
<1> HIDE DEF counted, D, home, all, count, least
<1>14. counted(home) - least(p, c) <= c.maxSkew
  BY <1>6, <1>8, <1>9, <1>11, <1>12
<1> QED BY <1>13, <1>14

\* An arrangement is within what the nodes really have and run.
LEMMA ArrangedFeasible ==
  ASSUME InputReal, NEW k, NEW K \in SUBSET PoolNodes(k), NEW at, Arranged(k, K, at), Regular(k)
  PROVE  Feasible(k, K)
<1>1. /\ RoomFor(Settled(k, K, at), ToPlace(k))
      /\ KeptApart(Settled(k, K, at), ToPlace(k))
      /\ EvenlySpread(K, Settled(k, K, at), ToPlace(k))
  BY ArrangedHasRoom, ArrangedKeptApart, ArrangedEvenlySpread DEF Regular
<1>2. at \in [ToPlace(k) -> K]
      /\ \A p \in ToPlace(k) : Eligible(Pod(p), NamedNode(at[p])) /\ HasDomains(p, at[p])
  BY DEF Arranged, ArrangedEligible
<1>3. \A p \in ToPlace(k) : Schedules(Pod(p), NamedNode(at[p]))
  <2> SUFFICES ASSUME NEW p \in ToPlace(k) PROVE Schedules(Pod(p), NamedNode(at[p]))
    OBVIOUS
  <2>1. \A l \in Pod(p).nodeSelector : l.value = Empty => IsSet(l.key, Node(at[p]).labels)
    BY <1>2 DEF Regular, Explicit
  <2>2. NamedNode(at[p]).labels = Node(at[p]).labels
    BY DEF NamedNode
  <2>3. Pod(p).nodeSelector \subseteq NamedNode(at[p]).labels
    BY <1>2, <2>1, <2>2 DEF Eligible, MatchesLabels
  <2> QED BY <1>2, <2>3 DEF Eligible, Schedules
<1> QED BY <1>1, <1>2, <1>3, Zenon DEF Feasible, Settled

-----------------------------------------------------------------------------
(* The nodes that are kept.                                                *)

\* The order in which nodes are kept is one: no two nodes tie.
LEMMA PlaceableLists ==
  ASSUME InputReal, NEW k
  PROVE  Lists(Placeable(k), UsableNodes(k))
<1> DEFINE S == UsableNodes(k)
           R == {e \in S \X S : Retains(e[1], e[2])}
           before(r) == CHOOSE x \in S : Cardinality({y \in S : Retains(y, x)}) = r - 1
           among(r) == CHOOSE x \in S : Cardinality({y \in S : <<y, x>> \in R}) = r - 1
<1>1. \A x, y \in S : <<x, y>> \in R <=> Retains(x, y)
  OBVIOUS
<1>2. \A x \in S : x \in Nat /\ Node(x).cap["mem"] \in Nat /\ Node(x).cap["cpu"] \in Nat
  <2>1. \A x \in S : x \in Indices
    BY DEF UsableNodes, PoolNodes
  <2>2. \A x \in Indices : x \in Nat /\ Node(x).cap["mem"] \in Nat /\ Node(x).cap["cpu"] \in Nat
    BY SnapshotNodes, InputFacts DEF Indices, Resources
  <2> HIDE DEF S
  <2> QED BY <2>1, <2>2
<1>3. /\ \A x \in S : ~Retains(x, x)
      /\ \A x, y \in S : x # y => Retains(x, y) \/ Retains(y, x)
      /\ \A x, y, z \in S : Retains(x, y) /\ Retains(y, z) => Retains(x, z)
  <2> HIDE DEF S
  <2> DEFINE a(x) == Node(x).cap["mem"]
             b(x) == Node(x).cap["cpu"]
  <2>1. \A x, y : Retains(x, y) <=> IF Immovable(x) # Immovable(y) THEN Immovable(x)
                                    ELSE IF a(x) # a(y) THEN a(x) > a(y)
                                    ELSE IF b(x) # b(y) THEN b(x) > b(y) ELSE x < y
    BY DEF Retains
  <2>2. \A x \in S : x \in Nat /\ a(x) \in Nat /\ b(x) \in Nat /\ Immovable(x) \in BOOLEAN
    BY <1>2 DEF Immovable
  <2> HIDE DEF a, b
  <2>3. \A x \in S : ~Retains(x, x)
    BY <2>1, <2>2
  <2>4. \A x, y \in S : x # y => Retains(x, y) \/ Retains(y, x)
    BY <2>1, <2>2
  <2>5. \A x, y, z \in S : Retains(x, y) /\ Retains(y, z) => Retains(x, z)
    BY <2>1, <2>2
  <2> QED BY <2>3, <2>4, <2>5
<1>4. Placeable(k) = Enumeration(S, R)
  <2>1. \A x \in S : {y \in S : Retains(y, x)} = {y \in S : <<y, x>> \in R}
    BY <1>1
  <2>2. \A r : before(r) = among(r)
    <3> HIDE DEF R, S
    <3> QED BY <2>1
  <2>3. Placeable(k) = [r \in 1..Cardinality(S) |-> before(r)]
    BY DEF Placeable, Ranked
  <2>4. Enumeration(S, R) = [r \in 1..Cardinality(S) |-> among(r)]
    BY DEF Enumeration
  <2> HIDE DEF before, among, S, R
  <2> QED BY <2>2, <2>3, <2>4
<1>5. IsFiniteSet(S)
  <2>1. S \in SUBSET PoolNodes(k)
    BY DEF UsableNodes
  <2> HIDE DEF S
  <2> QED BY <2>1, PlacesFacts, FS_Subset
<1> HIDE DEF S, R
<1>6. Lists(Enumeration(S, R), S)
  BY <1>1, <1>3, <1>5, EnumerationLists
<1> QED BY <1>4, <1>6 DEF S

LEMMA RetainedChoice ==
  ASSUME InputReal, NEW k, NEW m \in 1..Len(Placeable(k))
  PROVE  /\ Choice(k, Retained(k, m)) /\ Len(Retained(k, m)) = m
         /\ ToSet(Retained(k, m)) = {Retained(k, m)[j] : j \in 1..m}
         /\ ToSet(Retained(k, m)) \in SUBSET PoolNodes(k)
<1> DEFINE s == Placeable(k)
           N == Cardinality(UsableNodes(k))
           ns == Retained(k, m)
<1>1. /\ N \in Nat /\ s \in [1..N -> UsableNodes(k)] /\ Len(s) = N
      /\ \A i, j \in 1..N : s[i] = s[j] => i = j
  BY PlaceableLists DEF Lists
<1>2. UsableNodes(k) \in SUBSET PoolNodes(k)
  BY DEF UsableNodes
<1>3. ns = SubSeq(s, 1, m)
  BY DEF Retained
<1> HIDE DEF s, N, ns
<1>4. m \in 1..N
  BY <1>1 DEF s
<1>5. ns = [j \in 1..m |-> s[j]]
  BY <1>1, <1>3, <1>4
<1>6. Len(ns) = m /\ \A j \in 1..m : ns[j] = s[j] /\ j \in 1..N
  BY <1>1, <1>4, <1>5
<1>7. ns \in [1..m -> PoolNodes(k)]
  BY <1>1, <1>2, <1>5, <1>6
<1>8. \A i, j \in 1..Len(ns) : ns[i] = ns[j] => i = j
  BY <1>1, <1>6
<1>9. Choice(k, ns)
  BY <1>4, <1>6, <1>7, <1>8 DEF Choice
<1>10. ToSet(ns) = {ns[j] : j \in 1..m}
  BY <1>5 DEF ToSet
<1> QED BY <1>6, <1>7, <1>9, <1>10 DEF ns

\* The nodes that suffice hold the pods of the pool.
LEMMA SufficesFeasible ==
  ASSUME InputReal, NEW k, NEW m \in 1..Len(Placeable(k)), Suffices(k, m), Regular(k)
  PROVE  Feasible(k, ToSet(Retained(k, m)))
<1> DEFINE ns == Retained(k, m)
<1>1. Choice(k, ns) /\ Len(ns) = m /\ ToSet(ns) = {ns[j] : j \in 1..m} /\ ToSet(ns) \in SUBSET PoolNodes(k)
  BY RetainedChoice
<1>2. Holds(k, ns)
  BY DEF Suffices
<1> HIDE DEF ns
<1>3. PICK at : Arranged(k, {ns[j] : j \in 1..Len(ns)}, at)
  <2>1. InputReal /\ Mutual(k) /\ Choice(k, ns) /\ Holds(k, ns)
    BY <1>1, <1>2 DEF Regular
  <2>2. \E at : Arranged(k, {ns[j] : j \in 1..Len(ns)}, at)
    BY ONLY <2>1, HoldsArranged
  <2> QED BY <2>2
<1>4. Arranged(k, ToSet(ns), at)
  BY <1>1, <1>3
<1> QED BY <1>1, <1>4, ArrangedFeasible DEF ns

\* The simulation looks at nothing but the input.
LEMMA SufficesStays ==
  ASSUME UNCHANGED input, NEW k, NEW m
  PROVE  /\ Placeable(k)' = Placeable(k)
         /\ Suffices(k, m)' <=> Suffices(k, m)
<1>1. /\ Indices' = Indices /\ \A i : Node(i)' = Node(i) /\ Pod(i)' = Pod(i)
      /\ \A i : On(i)' = On(i)
  BY DEF Indices, Node, Pod, On
<1>2. \A p : Relocatable(p)' <=> Relocatable(p)
  BY <1>1 DEF Relocatable
<1>3. \A i : PoolNodes(i)' = PoolNodes(i) /\ Pinned(i)' = Pinned(i) /\ DaemonPods(i)' = DaemonPods(i)
  BY <1>1, <1>2 DEF PoolNodes, Pinned, DaemonPods
<1>4. \A i : Immovable(i)' <=> Immovable(i)
  BY <1>3 DEF Immovable
<1>5. ToPlace(k)' = ToPlace(k)
  BY <1>1, <1>2, <1>3 DEF ToPlace
<1>6. UsableNodes(k)' = UsableNodes(k)
  BY <1>1, <1>3 DEF UsableNodes, Schedulable
<1>7. \A i, j : Retains(i, j)' <=> Retains(i, j)
  BY <1>1, <1>4 DEF Retains
<1>8. Placeable(k)' = Placeable(k)
  <2> DEFINE S == UsableNodes(k)
             best(r) == CHOOSE x \in S : Cardinality({y \in S : Retains(y, x)}) = r - 1
             then(r) == CHOOSE x \in S : Cardinality({y \in S : Retains(y, x)'}) = r - 1
  <2>1. Placeable(k) = [r \in 1..Cardinality(S) |-> best(r)]
    BY DEF Placeable, Ranked
  <2>2. Placeable(k)' = [r \in 1..Cardinality(S) |-> then(r)]
    BY <1>6 DEF Placeable, Ranked
  <2>3. \A r : best(r) = then(r)
    <3>1. \A x : {y \in S : Retains(y, x)} = {y \in S : Retains(y, x)'}
      BY <1>7
    <3> HIDE DEF S
    <3> QED BY <3>1
  <2> HIDE DEF S, best, then
  <2> QED BY <2>1, <2>2, <2>3
<1>9. \A p : Effective(p)' = Effective(p)
  BY DEF Effective, Pod
<1>10. Retained(k, m)' = Retained(k, m)
  BY <1>8 DEF Retained
<1>11. \A nodes : WithoutWorstNode(nodes)' = WithoutWorstNode(nodes)
  BY DEF WithoutWorstNode, Node
<1>12. \A i, d : /\ Total([p \in DaemonPods(i) |-> Pod(p).request[d]])' = Total([p \in DaemonPods(i) |-> Pod(p).request[d]])
                 /\ Total([p \in Pinned(i) |-> Effective(p)[d]])' = Total([p \in Pinned(i) |-> Effective(p)[d]])
  BY <1>1, <1>3, <1>9
<1>13. \A d : DaemonSize(k, d)' = DaemonSize(k, d)
  <2> SUFFICES ASSUME NEW d PROVE DaemonSize(k, d)' = DaemonSize(k, d)
    OBVIOUS
  <2> DEFINE f(i) == Total([p \in DaemonPods(i) |-> Pod(p).request[d]])
             g(i) == Total([p \in DaemonPods(i)' |-> Pod(p)'.request[d]])
  <2>1. \A i : f(i) = g(i)
    BY <1>12
  <2>2. DaemonSize(k, d) = Max({f(i) : i \in PoolNodes(k)})
    BY DEF DaemonSize
  <2>3. DaemonSize(k, d)' = Max({g(i) : i \in PoolNodes(k)})
    BY <1>3 DEF DaemonSize
  <2>4. {f(i) : i \in PoolNodes(k)} = {g(i) : i \in PoolNodes(k)}
    <3> HIDE DEF f, g
    <3> QED BY <2>1
  <2> HIDE DEF f, g
  <2> QED BY <2>2, <2>3, <2>4
<1>14. DaemonCount(k)' = DaemonCount(k)
  BY <1>3 DEF DaemonCount
<1>15. \A i : Reserved(k, i)' = Reserved(k, i)
  BY <1>12, <1>13 DEF Reserved
<1>16. \A i : SimNode(k, i)' = SimNode(k, i)
  BY <1>1, <1>3, <1>14, <1>15 DEF SimNode
<1>17. \A p : SimPod(p)' = SimPod(p)
  BY <1>1, <1>9 DEF SimPod
<1>18. SimPods(k)' = SimPods(k)
  <2>1. Placed(k)' = Placed(k)
    <3> DEFINE before(S, r) == CHOOSE x \in S : Cardinality({y \in S : y < x}) = r - 1
    <3>1. Placed(k) = [r \in 1..Cardinality(ToPlace(k)) |-> before(ToPlace(k), r)]
      BY DEF Placed, Ranked
    <3>2. Placed(k)' = [r \in 1..Cardinality(ToPlace(k)') |-> before(ToPlace(k)', r)]
      BY DEF Placed, Ranked
    <3> HIDE DEF before
    <3> QED BY <1>5, <3>1, <3>2
  <2> QED BY <1>17, <2>1 DEF SimPods
<1>19. \A nodes : Holds(k, nodes)' <=> Holds(k, nodes)
  BY <1>16, <1>18 DEF Holds
<1> QED BY <1>8, <1>10, <1>11, <1>19 DEF Suffices

-----------------------------------------------------------------------------
(* The loss of a node.                                                     *)

\* Without its w-th element, a sequence is that much shorter.
LEMMA RemoveAtFacts ==
  ASSUME NEW S, NEW s \in Seq(S), NEW w \in 1..Len(s)
  PROVE  /\ RemoveAt(s, w) \in Seq(S) /\ Len(RemoveAt(s, w)) = Len(s) - 1
         /\ \A j \in 1..(Len(s) - 1) : RemoveAt(s, w)[j] = s[IF j < w THEN j ELSE j + 1]
<1> DEFINE M == Len(s)
           a == SubSeq(s, 1, w - 1)
           b == SubSeq(s, w + 1, M)
<1>1. M \in Nat /\ w \in 1..M /\ \A j \in 1..M : s[j] \in S
  OBVIOUS
<1>2. a \in Seq(S) /\ Len(a) = w - 1 /\ \A j \in 1..(w - 1) : a[j] = s[j]
  <2>1. w - 1 \in Int /\ 1 \in Int /\ \A j \in 1..(w - 1) : s[j] \in S
    BY <1>1
  <2>2. /\ a \in Seq(S) /\ Len(a) = IF 1 <= w - 1 THEN (w - 1) - 1 + 1 ELSE 0
        /\ \A j \in 1..((w - 1) - 1 + 1) : a[j] = s[1 + j - 1]
    BY <2>1, SubSeqProperties
  <2> HIDE DEF a
  <2>3. \A j \in 1..(w - 1) : a[j] = s[j]
    BY <1>1, <2>2
  <2> QED BY <1>1, <2>2, <2>3
<1>3. b \in Seq(S) /\ Len(b) = M - w /\ \A j \in 1..(M - w) : b[j] = s[w + j]
  <2>1. w + 1 \in Int /\ M \in Int /\ \A j \in (w + 1)..M : s[j] \in S
    BY <1>1
  <2>2. /\ b \in Seq(S) /\ Len(b) = IF w + 1 <= M THEN M - (w + 1) + 1 ELSE 0
        /\ \A j \in 1..(M - (w + 1) + 1) : b[j] = s[(w + 1) + j - 1]
    <3> HIDE DEF M
    <3> QED BY <2>1, SubSeqProperties
  <2> HIDE DEF b, M
  <2>3. \A j \in 1..(M - w) : b[j] = s[w + j]
    BY <1>1, <2>2
  <2> QED BY <1>1, <2>2, <2>3
<1>4. RemoveAt(s, w) = a \o b
  BY DEF RemoveAt
<1> HIDE DEF a, b, M
<1>5. /\ a \o b \in Seq(S) /\ Len(a \o b) = Len(a) + Len(b)
      /\ \A j \in 1..(Len(a) + Len(b)) : (a \o b)[j] = IF j <= Len(a) THEN a[j] ELSE b[j - Len(a)]
  BY <1>2, <1>3, ConcatProperties
<1> DEFINE c == a \o b
<1> HIDE DEF c
<1>6. c \in Seq(S) /\ Len(c) = M - 1 /\ \A j \in 1..(M - 1) : c[j] = IF j <= w - 1 THEN a[j] ELSE b[j - (w - 1)]
  BY <1>1, <1>2, <1>3, <1>5 DEF c
<1>7. ASSUME NEW j \in 1..(M - 1) PROVE c[j] = s[IF j < w THEN j ELSE j + 1]
  <2>1. CASE j < w
    BY <1>1, <1>2, <1>6, <2>1
  <2>2. CASE ~(j < w)
    <3>1. j - (w - 1) \in 1..(M - w) /\ w + (j - (w - 1)) = j + 1 /\ ~(j <= w - 1)
      BY <1>1, <2>2
    <3>2. c[j] = b[j - (w - 1)]
      BY <1>6, <3>1
    <3> QED BY <1>3, <2>2, <3>1, <3>2
  <2> QED BY <2>1, <2>2
<1> QED BY <1>4, <1>6, <1>7 DEF c, M

\* Node j has no more than node i in memory, and in CPU if they have the same.
NoLarger(i, j) ==
  /\ Node(j).cap["mem"] <= Node(i).cap["mem"]
  /\ Node(j).cap["mem"] = Node(i).cap["mem"] => Node(j).cap["cpu"] <= Node(i).cap["cpu"]

\* The node that is left out is one that no other exceeds.
LEMMA WithoutWorstChoice ==
  ASSUME InputReal, NEW k, NEW ns, Choice(k, ns), Len(ns) > 0
  PROVE  \E w \in 1..Len(ns) :
           /\ \A j \in 1..Len(ns) : NoLarger(ns[w], ns[j])
           /\ Choice(k, WithoutWorstNode(ns))
           /\ {WithoutWorstNode(ns)[j] : j \in 1..Len(WithoutWorstNode(ns))}
                = {ns[j] : j \in 1..Len(ns)} \ {ns[w]}
<1> DEFINE M == Len(ns)
           mem(j) == Node(ns[j]).cap["mem"]
           cpu(j) == Node(ns[j]).cap["cpu"]
           worse(i, j) == mem(i) > mem(j) \/ (mem(i) = mem(j) /\ cpu(i) > cpu(j))
           worst == {j \in 1..M : \A i \in 1..M : ~worse(i, j)}
<1>1. /\ M \in Nat /\ M > 0 /\ ns \in [1..M -> PoolNodes(k)]
      /\ \A i, j \in 1..M : ns[i] = ns[j] => i = j
  BY DEF Choice
<1>2. \A j \in 1..M : mem(j) \in Nat /\ cpu(j) \in Nat
  <2>1. \A j \in 1..M : ns[j] \in Indices
    BY <1>1, PlacesFacts
  <2> QED BY <2>1, InputFacts DEF Resources
<1>3. \A i, j \in 1..M : ~worse(i, j) => NoLarger(ns[j], ns[i])
  BY <1>2 DEF NoLarger
<1>4. worst # {}
  <2> DEFINE R == {e \in (1..M) \X (1..M) : worse(e[1], e[2])}
             S == 1..M
             rank(x) == Cardinality({y \in S : worse(y, x)})
             ranks == {rank(x) : x \in S}
  <2>1. IsFiniteSet(S)
    BY <1>1, FS_Interval
  <2>2. \A x \in S : IsFiniteSet({y \in S : worse(y, x)}) /\ rank(x) \in Nat
    <3> SUFFICES ASSUME NEW x \in S PROVE IsFiniteSet({y \in S : worse(y, x)}) /\ rank(x) \in Nat
      OBVIOUS
    <3> DEFINE T == {y \in S : worse(y, x)}
    <3>1. T \in SUBSET S
      OBVIOUS
    <3> HIDE DEF T, S
    <3>2. IsFiniteSet(T) /\ Cardinality(T) \in Nat
      BY <2>1, <3>1, FS_Subset, FS_CardinalityType
    <3> QED BY <3>2 DEF T
  <2>3. PICK x \in S : \A y \in S : rank(x) <= rank(y)
    <3>1. ranks \in SUBSET Nat /\ ranks # {}
      <4>1. 1 \in S
        BY <1>1
      <4> HIDE DEF rank, S
      <4> QED BY <2>2, <4>1
    <3>2. PICK m \in ranks : \A l \in ranks : m <= l
      <4> HIDE DEF ranks
      <4> QED BY <3>1, LeastNatural
    <3>3. PICK x \in S : m = rank(x)
      BY <3>2
    <3>4. \A y \in S : rank(y) \in ranks
      OBVIOUS
    <3> HIDE DEF ranks, rank
    <3> QED BY <3>2, <3>3, <3>4
  <2>4. \A y \in S : ~worse(y, x)
    <3> SUFFICES ASSUME NEW y \in S, worse(y, x) PROVE FALSE
      OBVIOUS
    <3> DEFINE A == {z \in S : worse(z, y)}
               B == {z \in S : worse(z, x)}
    <3>1. A \in SUBSET B /\ y \in B /\ y \notin A
      <4>1. \A z \in S : worse(z, y) => worse(z, x)
        BY <1>2, SMTT(30)
      <4>2. ~worse(y, y)
        BY <1>2
      <4> HIDE DEF worse
      <4> QED BY <4>1, <4>2
    <3>2. IsFiniteSet(A) /\ IsFiniteSet(B) /\ Cardinality(A) = rank(y) /\ Cardinality(B) = rank(x)
      <4> HIDE DEF worse
      <4> QED BY <2>2
    <3>3. rank(y) \in Nat /\ rank(x) \in Nat /\ rank(x) <= rank(y)
      <4> HIDE DEF rank
      <4> QED BY <2>2, <2>3
    <3> HIDE DEF A, B, rank
    <3>4. Cardinality(A) <= Cardinality(B) /\ Cardinality(A) # Cardinality(B)
      BY <3>1, <3>2, FS_Subset
    <3> QED BY <3>2, <3>3, <3>4
  <2> QED BY <2>4
<1> DEFINE w == Min(worst)
           out == WithoutWorstNode(ns)
<1>5. w \in 1..M /\ \A i \in 1..M : ~worse(i, w)
  <2>1. worst \in SUBSET Nat
    OBVIOUS
  <2>2. w \in worst
    <3> HIDE DEF worst
    <3> QED BY <1>4, <2>1, MinIsLeast
  <2> HIDE DEF w
  <2> QED BY <2>2
<1>6. \A j \in 1..M : NoLarger(ns[w], ns[j])
  <2> HIDE DEF w, worse
  <2> QED BY <1>3, <1>5
<1>7. CASE M = 1
  <2>1. out = <<>>
    BY <1>7 DEF WithoutWorstNode
  <2>2. Len(out) = 0 /\ out \in [1..0 -> PoolNodes(k)]
    BY <2>1
  <2>3. Choice(k, out)
    <3> HIDE DEF out
    <3> QED BY <2>2 DEF Choice
  <2>4. w = 1
    <3> HIDE DEF w
    <3> QED BY <1>5, <1>7
  <2>5. {out[j] : j \in 1..Len(out)} = {ns[j] : j \in 1..M} \ {ns[w]}
    <3> HIDE DEF out, w
    <3>1. {out[j] : j \in 1..Len(out)} = {}
      BY <2>2
    <3>2. {ns[j] : j \in 1..M} = {ns[1]}
      BY <1>7
    <3> QED BY <2>4, <3>1, <3>2
  <2> HIDE DEF out, w
  <2> QED BY <1>5, <1>6, <2>3, <2>5 DEF out
<1>8. CASE M # 1
  <2> HIDE DEF worse
  <2>1. out = RemoveAt(ns, w)
    <3>1. ~(Len(ns) <= 1)
      BY <1>1, <1>8
    <3> QED BY <3>1 DEF WithoutWorstNode, worse
  <2> HIDE DEF out, w
  <2> DEFINE old(j) == IF j < w THEN j ELSE j + 1
  <2>2. ns \in Seq(PoolNodes(k)) /\ w \in 1..M
    BY <1>1, <1>5
  <2>3. out \in Seq(PoolNodes(k)) /\ Len(out) = M - 1 /\ \A j \in 1..(M - 1) : out[j] = ns[old(j)]
    BY <2>1, <2>2, RemoveAtFacts
  <2>4. \A j \in 1..(M - 1) : old(j) \in 1..M /\ old(j) # w
    BY <1>1, <2>2
  <2>5. \A i, j \in 1..(M - 1) : old(i) = old(j) => i = j
    BY <1>1, <2>2
  <2>6. \A j \in 1..M : j # w => \E i \in 1..(M - 1) : old(i) = j
    <3> SUFFICES ASSUME NEW j \in 1..M, j # w PROVE \E i \in 1..(M - 1) : old(i) = j
      OBVIOUS
    <3>1. CASE j < w
      <4>1. j \in 1..(M - 1) /\ old(j) = j
        BY <1>1, <2>2, <3>1
      <4> QED BY <4>1
    <3>2. CASE ~(j < w)
      <4>1. j - 1 \in 1..(M - 1) /\ old(j - 1) = j
        BY <1>1, <2>2, <3>2
      <4> QED BY <4>1
    <3> QED BY <3>1, <3>2
  <2> HIDE DEF old
  <2>7. Choice(k, out)
    <3>1. Len(out) \in Nat /\ out \in [1..Len(out) -> PoolNodes(k)]
      BY <2>3
    <3>2. \A i, j \in 1..Len(out) : out[i] = out[j] => i = j
      BY <1>1, <2>3, <2>4, <2>5
    <3> QED BY <3>1, <3>2 DEF Choice
  <2>8. {out[j] : j \in 1..Len(out)} = {ns[j] : j \in 1..M} \ {ns[w]}
    <3>1. \A j \in 1..Len(out) : out[j] \in {ns[i] : i \in 1..M} \ {ns[w]}
      BY <1>1, <2>2, <2>3, <2>4
    <3>2. \A j \in 1..M : ns[j] # ns[w] => \E i \in 1..Len(out) : out[i] = ns[j]
      <4> SUFFICES ASSUME NEW j \in 1..M, ns[j] # ns[w] PROVE \E i \in 1..Len(out) : out[i] = ns[j]
        OBVIOUS
      <4>1. PICK i \in 1..(M - 1) : old(i) = j
        BY <2>6
      <4> QED BY <2>3, <4>1
    <3> QED BY <3>1, <3>2
  <2> QED BY <1>6, <2>2, <2>7, <2>8 DEF out
<1> QED BY <1>7, <1>8

\* Node i is given up instead of the node w, which is no smaller.
Interchange(k, K, i, w, at) ==
  /\ K \in SUBSET PoolNodes(k) /\ i \in K /\ w \in K /\ i # w
  /\ Plain(k, K) /\ Nameless(k)
  /\ \A d \in Resources : Node(i).cap[d] <= Node(w).cap[d]
  /\ \A e \in Extended : Node(i).extended[e] <= Node(w).extended[e]
  /\ Arranged(k, K \ {w}, at)

\* What was on i goes to w.
Swapped(k, i, w, at) == [p \in ToPlace(k) |-> IF at[p] = i THEN w ELSE at[p]]

LEMMA SwappedFacts ==
  ASSUME NEW k, NEW K, NEW i, NEW w, NEW at, Interchange(k, K, i, w, at)
  PROVE  /\ at \in [ToPlace(k) -> K \ {w}]
         /\ Swapped(k, i, w, at) \in [ToPlace(k) -> K \ {i}]
         /\ \A p \in ToPlace(k) : Swapped(k, i, w, at)[p] = IF at[p] = i THEN w ELSE at[p]
BY DEF Interchange, Arranged, Swapped

DomainsOf(K, key) == {Domain(NamedNode(j), key) : j \in K}

\* b gives the domains after the interchange by those before.
Renaming(b, k, K, i, w, at, key) ==
  LET D == DomainsOf(K \ {w}, key) IN
  /\ \A x, y \in D : b[x] = b[y] => x = y
  /\ \A x \in D : b[x] = {} <=> x = {}
  /\ \A p \in ToPlace(k) : /\ DomainAt(at, p, key) \in D
                           /\ DomainAt(Swapped(k, i, w, at), p, key) = b[DomainAt(at, p, key)]
  /\ DomainsOf(K \ {i}, key) = {b[x] : x \in D}

LEMMA DomainsRenamed ==
  ASSUME NEW k, NEW K, NEW i, NEW w, NEW at, Interchange(k, K, i, w, at), NEW key \in TopologyKeys(k)
  PROVE  \E b : Renaming(b, k, K, i, w, at, key)
<1> DEFINE dom(j) == Domain(NamedNode(j), key)
           D == {dom(j) : j \in K \ {w}}
           E == {dom(j) : j \in K \ {i}}
           at2 == Swapped(k, i, w, at)
           Renames(b) == /\ \A x, y \in D : b[x] = b[y] => x = y
                         /\ \A x \in D : b[x] = {} <=> x = {}
                         /\ \A p \in ToPlace(k) : dom(at[p]) \in D /\ dom(at2[p]) = b[dom(at[p])]
                         /\ E = {b[x] : x \in D}
<1>1. /\ at \in [ToPlace(k) -> K \ {w}] /\ at2 \in [ToPlace(k) -> K \ {i}]
      /\ \A p \in ToPlace(k) : at2[p] = IF at[p] = i THEN w ELSE at[p]
  BY SwappedFacts
<1>2. i \in K /\ w \in K /\ i # w /\ Plain(k, K)
  BY DEF Interchange
<1>3. \/ \A j, l \in K : dom(j) = dom(l)
      \/ \A j, l \in K : dom(j) # {} /\ (j # l => dom(j) # dom(l))
  BY <1>2 DEF Plain
<1> HIDE DEF dom, at2
<1>4. ASSUME \A j, l \in K : dom(j) = dom(l) PROVE \E b : Renames(b)
  <2> DEFINE b == [x \in D |-> x]
  <2>1. D = {dom(i)} /\ E = {dom(i)}
    BY <1>2, <1>4
  <2>2. \A p \in ToPlace(k) : dom(at[p]) \in D /\ dom(at2[p]) = dom(at[p])
    BY <1>1, <1>4
  <2>3. \A x \in D : b[x] = x
    OBVIOUS
  <2> HIDE DEF b, D, E
  <2>4. Renames(b)
    BY <2>1, <2>2, <2>3
  <2> QED BY <2>4
<1>5. ASSUME \A j, l \in K : dom(j) # {} /\ (j # l => dom(j) # dom(l)) PROVE \E b : Renames(b)
  <2> DEFINE b == [x \in D |-> IF x = dom(i) THEN dom(w) ELSE x]
  <2>1. \A j \in K \ {w} : dom(j) \in D /\ b[dom(j)] = dom(IF j = i THEN w ELSE j)
    BY <1>2, <1>5
  <2>2. \A x \in D : \E j \in K \ {w} : x = dom(j)
    OBVIOUS
  <2>3. \A x \in E : \E j \in K \ {i} : x = dom(j)
    OBVIOUS
  <2>4. \A j \in K \ {i} : dom(j) \in E
    OBVIOUS
  <2> HIDE DEF b, D, E
  <2>5. \A x, y \in D : b[x] = b[y] => x = y
    <3> SUFFICES ASSUME NEW x \in D, NEW y \in D, b[x] = b[y] PROVE x = y
      OBVIOUS
    <3>1. PICK j \in K \ {w} : x = dom(j)
      BY <2>2
    <3>2. PICK l \in K \ {w} : y = dom(l)
      BY <2>2
    <3>3. dom(IF j = i THEN w ELSE j) = dom(IF l = i THEN w ELSE l)
      BY <2>1, <3>1, <3>2
    <3>4. (IF j = i THEN w ELSE j) = (IF l = i THEN w ELSE l)
      BY <1>2, <1>5, <3>3
    <3>5. j = l
      BY <3>4
    <3> QED BY <3>1, <3>2, <3>5
  <2>6. \A x \in D : b[x] # {} /\ x # {}
    BY <1>2, <1>5, <2>1, <2>2
  <2>7. \A p \in ToPlace(k) : dom(at[p]) \in D /\ dom(at2[p]) = b[dom(at[p])]
    BY <1>1, <2>1
  <2>8. E = {b[x] : x \in D}
    <3>1. \A x \in D : b[x] \in E
      <4> SUFFICES ASSUME NEW x \in D PROVE b[x] \in E
        OBVIOUS
      <4>1. PICK j \in K \ {w} : x = dom(j)
        BY <2>2
      <4> QED BY <1>2, <2>1, <2>4, <4>1
    <3>2. \A y \in E : \E x \in D : y = b[x]
      <4> SUFFICES ASSUME NEW y \in E PROVE \E x \in D : y = b[x]
        OBVIOUS
      <4>1. PICK j \in K \ {i} : y = dom(j)
        BY <2>3
      <4>2. CASE j = w
        BY <1>2, <2>1, <4>1, <4>2
      <4>3. CASE j # w
        BY <2>1, <4>1, <4>3
      <4> QED BY <4>2, <4>3
    <3> QED BY <3>1, <3>2
  <2>9. Renames(b)
    BY <2>5, <2>6, <2>7, <2>8
  <2> QED BY <2>9
<1>6. \E b : Renames(b)
  <2> HIDE DEF Renames
  <2> QED BY <1>3, <1>4, <1>5
<1>7. PICK b : Renames(b)
  BY <1>6
<1>8. Renaming(b, k, K, i, w, at, key)
  BY <1>7 DEF Renaming, DomainsOf, DomainAt, dom, at2
<1> QED BY <1>8

LEMMA SwappedRoom ==
  ASSUME InputReal, NEW k, NEW K, NEW i, NEW w, NEW at, Interchange(k, K, i, w, at)
  PROVE  ArrangedRoom(k, K \ {i}, Swapped(k, i, w, at))
<1> DEFINE at2 == Swapped(k, i, w, at)
<1>1. /\ at \in [ToPlace(k) -> K \ {w}] /\ at2 \in [ToPlace(k) -> K \ {i}]
      /\ \A p \in ToPlace(k) : at2[p] = IF at[p] = i THEN w ELSE at[p]
  BY SwappedFacts
<1>2. /\ i \in K /\ w \in K /\ i # w /\ K \in SUBSET PoolNodes(k)
      /\ \A d \in Resources : Node(i).cap[d] <= Node(w).cap[d]
      /\ ArrangedRoom(k, K \ {w}, at)
  BY DEF Interchange, Arranged
<1>3. Node(i).maxPods = Node(w).maxPods /\ Pinned(i) = {} /\ Pinned(w) = {}
  BY DEF Interchange, Plain, Immovable
<1> HIDE DEF at2
<1>4. MovedOn(k, at2, w) = MovedOn(k, at, i) /\ \A j \in K \ {i, w} : MovedOn(k, at2, j) = MovedOn(k, at, j)
  <2>1. \A p \in ToPlace(k) : at2[p] = w <=> at[p] = i
    BY <1>1, <1>2
  <2>2. \A j \in K \ {i, w} : \A p \in ToPlace(k) : at2[p] = j <=> at[p] = j
    BY <1>1, <1>2
  <2> QED BY <2>1, <2>2 DEF MovedOn
<1> SUFFICES ASSUME NEW j \in K \ {i}, MovedOn(k, at2, j) # {}
             PROVE  /\ \A d \in Resources :
                         SumOver(Sizes(d), MovedOn(k, at2, j)) <= Withhold(Node(j).cap[d]) - Reserved(k, j)[d]
                    /\ Node(j).maxPods > 0 =>
                         DaemonCount(k) + Cardinality(Pinned(j)) + Cardinality(MovedOn(k, at2, j)) <= Node(j).maxPods
  BY DEF ArrangedRoom, at2
<1>5. CASE j # w
  <2>1. j \in K \ {w} /\ MovedOn(k, at2, j) = MovedOn(k, at, j)
    BY <1>4, <1>5
  <2>2. MovedOn(k, at, j) # {}
    BY <2>1
  <2>3. /\ \A d \in Resources :
             SumOver(Sizes(d), MovedOn(k, at, j)) <= Withhold(Node(j).cap[d]) - Reserved(k, j)[d]
        /\ Node(j).maxPods > 0 =>
             DaemonCount(k) + Cardinality(Pinned(j)) + Cardinality(MovedOn(k, at, j)) <= Node(j).maxPods
    BY <1>2, <2>1, <2>2 DEF ArrangedRoom
  <2> QED BY <2>1, <2>3
<1>6. CASE j = w
  <2> DEFINE M == MovedOn(k, at, i)
  <2>1. i \in K \ {w} /\ M # {} /\ MovedOn(k, at2, j) = M
    BY <1>2, <1>4, <1>6
  <2>2. /\ \A d \in Resources : SumOver(Sizes(d), M) <= Withhold(Node(i).cap[d]) - Reserved(k, i)[d]
        /\ Node(i).maxPods > 0 => DaemonCount(k) + Cardinality(Pinned(i)) + Cardinality(M) <= Node(i).maxPods
    BY <1>2, <2>1 DEF ArrangedRoom
  <2>3. M \in SUBSET DOMAIN input.pods /\ IsFiniteSet(M)
    <3>1. M \in SUBSET ToPlace(k)
      BY DEF MovedOn
    <3> HIDE DEF M
    <3> QED BY <3>1, PlacesFacts, FS_Subset
  <2> HIDE DEF M
  <2>4. ASSUME NEW d \in Resources
        PROVE  SumOver(Sizes(d), M) <= Withhold(Node(w).cap[d]) - Reserved(k, w)[d]
    <3>1. SumOver(Sizes(d), M) \in Int
      <4>1. \A p \in M : Sizes(d)[p] \in Int
        BY <2>3, EffectiveNatural DEF Sizes
      <4> QED BY <2>3, <4>1, SumInt
    <3>2. Reserved(k, i)[d] = Reserved(k, w)[d]
      BY <1>3 DEF Reserved
    <3>3. Reserved(k, i)[d] \in Int
      <4> DEFINE t == Total([p \in Pinned(i) |-> Effective(p)[d]])
      <4>1. DaemonSize(k, d) \in Nat /\ t \in Nat /\ Reserved(k, i)[d] = DaemonSize(k, d) + t
        BY <1>2, ReservedFacts
      <4> HIDE DEF t
      <4> QED BY <4>1
    <3>4. Node(i).cap[d] \in Nat /\ Node(w).cap[d] \in Nat /\ Node(i).cap[d] <= Node(w).cap[d]
      <4>1. i \in Indices /\ w \in Indices
        BY <1>2, PlacesFacts
      <4> QED BY <1>2, <4>1, InputFacts
    <3>5. \A a, b \in Nat : a <= b => Withhold(a) <= Withhold(b) /\ Withhold(a) \in Int /\ Withhold(b) \in Int
      <4> SUFFICES ASSUME NEW a \in Nat, NEW b \in Nat, a <= b
                   PROVE  Withhold(a) <= Withhold(b) /\ Withhold(a) \in Int /\ Withhold(b) \in Int
        OBVIOUS
      <4> DEFINE h == 100 - HeadroomPercent
                 x == a * h
                 y == b * h
      <4>1. h \in Nat
        BY CapacityAssumption DEF CapacityAssumption
      <4> HIDE DEF h
      <4>2. x \in Nat /\ y \in Nat /\ x <= y
        BY <4>1
      <4>3. Withhold(a) = x \div 100 /\ Withhold(b) = y \div 100
        BY DEF Withhold, h
      <4> HIDE DEF x, y
      <4> QED BY <4>2, <4>3
    <3> QED BY <2>2, <3>1, <3>2, <3>3, <3>4, <3>5
  <2>5. Node(w).maxPods > 0 => DaemonCount(k) + Cardinality(Pinned(w)) + Cardinality(M) <= Node(w).maxPods
    BY <1>3, <2>2
  <2> QED BY <1>6, <2>1, <2>4, <2>5
<1> QED BY <1>5, <1>6

LEMMA SwappedStore ==
  ASSUME InputReal, NEW k, NEW K, NEW i, NEW w, NEW at, Interchange(k, K, i, w, at)
  PROVE  ArrangedStore(k, K \ {i}, Swapped(k, i, w, at))
<1> DEFINE at2 == Swapped(k, i, w, at)
<1>1. /\ at \in [ToPlace(k) -> K \ {w}] /\ at2 \in [ToPlace(k) -> K \ {i}]
      /\ \A p \in ToPlace(k) : at2[p] = IF at[p] = i THEN w ELSE at[p]
  BY SwappedFacts
<1>2. /\ i \in K \ {w} /\ w \in K /\ K \in SUBSET PoolNodes(k)
      /\ \A e \in Extended : Node(i).extended[e] <= Node(w).extended[e]
      /\ ArrangedStore(k, K \ {w}, at)
  BY DEF Interchange, Arranged
<1> HIDE DEF at2
<1> SUFFICES ASSUME NEW j \in K \ {i}, NEW e \in Extended
             PROVE  SumOver(Asked(e), MovedOn(k, at2, j)) <= Node(j).extended[e]
  BY DEF ArrangedStore, at2
<1>3. CASE j # w
  <2>1. MovedOn(k, at2, j) = MovedOn(k, at, j)
    BY <1>1, <1>3 DEF MovedOn
  <2> QED BY <1>2, <1>3, <2>1 DEF ArrangedStore
<1>4. CASE j = w
  <2>1. MovedOn(k, at2, w) = MovedOn(k, at, i)
    BY <1>1, <1>2 DEF MovedOn
  <2>2. SumOver(Asked(e), MovedOn(k, at, i)) <= Node(i).extended[e]
    BY <1>2 DEF ArrangedStore
  <2>3. MovedOn(k, at, i) \in SUBSET DOMAIN input.pods /\ IsFiniteSet(MovedOn(k, at, i))
    <3>1. MovedOn(k, at, i) \in SUBSET ToPlace(k)
      BY DEF MovedOn
    <3> QED BY <3>1, PlacesFacts, FS_Subset
  <2>4. SumOver(Asked(e), MovedOn(k, at, i)) \in Nat
    <3>1. \A p \in MovedOn(k, at, i) : Asked(e)[p] \in Nat
      BY <2>3, ExtendedNatural DEF Asked
    <3> QED BY <2>3, <3>1, SumNat
  <2>5. Node(i).extended[e] \in Nat /\ Node(w).extended[e] \in Nat
    <3>1. i \in Indices /\ w \in Indices
      BY <1>2, PlacesFacts
    <3> QED BY <3>1, ExtendedNatural
  <2> QED BY <1>2, <1>4, <2>1, <2>2, <2>4, <2>5
<1> QED BY <1>3, <1>4

\* On nodes that have the same labels of those asked for, a requirement and a
\* selector find the same.
LEMMA AskedAlike ==
  ASSUME NEW a, NEW b, NEW keys, \A l \in a : l.key \in keys => l \in b, \A l \in b : l.key \in keys => l \in a
  PROVE  /\ \A r : r.key \in keys /\ RequirementMatches(r, a) => RequirementMatches(r, b)
         /\ \A wanted : (\A l \in wanted : l.key \in keys) /\ MatchesLabels(wanted, a) => MatchesLabels(wanted, b)
<1>1. ASSUME NEW r, r.key \in keys, RequirementMatches(r, a) PROVE RequirementMatches(r, b)
  <2>1. {l \in a : l.key = r.key} = {l \in b : l.key = r.key}
    BY <1>1
  <2> DEFINE found == {l \in a : l.key = r.key}
  <2>2. found = {l \in b : l.key = r.key}
    BY <2>1
  <2> QED BY <1>1, <2>1, Zenon DEF RequirementMatches
<1>2. ASSUME NEW wanted, \A l \in wanted : l.key \in keys, MatchesLabels(wanted, a)
      PROVE  MatchesLabels(wanted, b)
  BY <1>2 DEF MatchesLabels, IsSet
<1> QED BY <1>1, <1>2

LEMMA SwappedEligible ==
  ASSUME InputReal, NEW k, NEW K, NEW i, NEW w, NEW at, Interchange(k, K, i, w, at)
  PROVE  ArrangedEligible(k, Swapped(k, i, w, at))
<1> DEFINE at2 == Swapped(k, i, w, at)
<1>1. /\ at \in [ToPlace(k) -> K \ {w}] /\ at2 \in [ToPlace(k) -> K \ {i}]
  BY SwappedFacts
<1>2. ArrangedEligible(k, at) /\ Plain(k, K) /\ Nameless(k)
  BY DEF Interchange, Arranged
<1> HIDE DEF at2
<1> SUFFICES ASSUME NEW p \in ToPlace(k) PROVE Eligible(Pod(p), NamedNode(at2[p])) /\ HasDomains(p, at2[p])
  BY DEF ArrangedEligible, at2
<1>3. Eligible(Pod(p), NamedNode(at[p])) /\ HasDomains(p, at[p])
  BY <1>2 DEF ArrangedEligible
<1> DEFINE a == NamedNode(at[p]).labels
           b == NamedNode(at2[p]).labels
<1>4. /\ \A l \in a : l.key \in AskedKeys(k) => l \in b
      /\ \A l \in b : l.key \in AskedKeys(k) => l \in a
      /\ NamedNode(at2[p]).taints = NamedNode(at[p]).taints
  <2>1. at[p] \in K /\ at2[p] \in K
    BY <1>1
  <2> QED BY <1>2, <2>1 DEF Plain, NamedNode
<1>5. /\ \A l \in Pod(p).nodeSelector : l.key \in AskedKeys(k)
      /\ \A term \in Pod(p).affinity : \A r \in term.expressions : r.key \in AskedKeys(k)
  BY DEF AskedKeys
<1>6. Eligible(Pod(p), NamedNode(at2[p]))
  <2> HIDE DEF a, b
  <2>1. /\ \A r : r.key \in AskedKeys(k) /\ RequirementMatches(r, a) => RequirementMatches(r, b)
        /\ \A wanted : (\A l \in wanted : l.key \in AskedKeys(k)) /\ MatchesLabels(wanted, a) => MatchesLabels(wanted, b)
    BY <1>4, AskedAlike
  <2>2. \A term \in Pod(p).affinity : TermMatches(term, NamedNode(at[p])) => TermMatches(term, NamedNode(at2[p]))
    <3>1. \A term \in Pod(p).affinity : term.fields = {}
      BY <1>2 DEF Nameless
    <3> QED BY <1>5, <2>1, <3>1 DEF TermMatches, a, b
  <2>3. MatchesNodeAffinity(Pod(p), NamedNode(at2[p]))
    BY <1>3, <2>2 DEF Eligible, MatchesNodeAffinity
  <2>4. Tolerates(Pod(p), NamedNode(at2[p]))
    BY <1>3, <1>4 DEF Eligible, Tolerates
  <2>5. MatchesLabels(Pod(p).nodeSelector, b)
    BY <1>3, <1>5, <2>1 DEF Eligible, a
  <2> QED BY <2>3, <2>4, <2>5 DEF Eligible, b
<1>7. \A key \in TopologyKeys(k) : Domain(NamedNode(at[p]), key) # {} => Domain(NamedNode(at2[p]), key) # {}
  <2> SUFFICES ASSUME NEW key \in TopologyKeys(k), DomainAt(at, p, key) # {} PROVE DomainAt(at2, p, key) # {}
    BY DEF DomainAt
  <2>1. PICK x : Renaming(x, k, K, i, w, at, key)
    BY DomainsRenamed
  <2> QED BY <2>1 DEF Renaming, at2
<1>8. /\ \A term \in Pod(p).antiAffinity : term.topologyKey \in TopologyKeys(k)
      /\ \A c \in Pod(p).topologySpread : c.topologyKey \in TopologyKeys(k)
  BY DEF TopologyKeys
<1> QED BY <1>3, <1>6, <1>7, <1>8 DEF HasDomains

LEMMA SwappedApart ==
  ASSUME InputReal, NEW k, NEW K, NEW i, NEW w, NEW at, Interchange(k, K, i, w, at)
  PROVE  ArrangedApart(k, Swapped(k, i, w, at))
<1> DEFINE at2 == Swapped(k, i, w, at)
<1>1. ArrangedApart(k, at)
  BY DEF Interchange, Arranged
<1> SUFFICES ASSUME NEW p \in ToPlace(k), NEW q \in ToPlace(k), p # q,
                    NEW term \in Pod(p).antiAffinity, Repels(term, Pod(p), Pod(q))
             PROVE  DomainAt(at2, p, term.topologyKey) # DomainAt(at2, q, term.topologyKey)
  BY DEF ArrangedApart
<1> DEFINE key == term.topologyKey
<1>0. key \in TopologyKeys(k)
  BY DEF TopologyKeys
<1>2. DomainAt(at, p, key) # DomainAt(at, q, key)
  BY <1>1 DEF ArrangedApart
<1> HIDE DEF key
<1>3. PICK b : Renaming(b, k, K, i, w, at, key)
  BY <1>0, DomainsRenamed
<1>4. DomainAt(at2, p, key) # DomainAt(at2, q, key)
  BY <1>2, <1>3 DEF Renaming
<1> QED BY <1>4 DEF key

LEMMA SwappedSpread ==
  ASSUME InputReal, NEW k, NEW K, NEW i, NEW w, NEW at, Interchange(k, K, i, w, at)
  PROVE  ArrangedSpread(k, K \ {i}, Swapped(k, i, w, at))
<1> DEFINE at2 == Swapped(k, i, w, at)
<1>1. ArrangedSpread(k, K \ {w}, at) /\ K \in SUBSET PoolNodes(k)
  BY DEF Interchange, Arranged
<1> SUFFICES ASSUME NEW p \in ToPlace(k), NEW c \in Pod(p).topologySpread, c.hard
             PROVE  LET here == Cardinality(CountedAt(k, at2, p, c, DomainAt(at2, p, c.topologyKey))) IN
                    /\ c.minDomains > Cardinality(NodeDomains(K \ {i}, c.topologyKey)) => here <= c.maxSkew
                    /\ \A x \in NodeDomains(K \ {i}, c.topologyKey) :
                         here <= Cardinality(CountedAt(k, at2, p, c, x)) + c.maxSkew
  BY DEF ArrangedSpread
<1> DEFINE key == c.topologyKey
           D == DomainsOf(K \ {w}, key)
           E == DomainsOf(K \ {i}, key)
           old(x) == Cardinality(CountedAt(k, at, p, c, x))
           new(x) == Cardinality(CountedAt(k, at2, p, c, x))
<1>0. PICK b : Renaming(b, k, K, i, w, at, key)
  <2>1. key \in TopologyKeys(k)
    BY DEF TopologyKeys
  <2> HIDE DEF key
  <2> QED BY <2>1, DomainsRenamed
<1>2. /\ \A x, y \in D : b[x] = b[y] => x = y
      /\ \A x \in D : b[x] = {} <=> x = {}
      /\ \A q \in ToPlace(k) : /\ DomainAt(at, q, key) \in D
                               /\ DomainAt(at2, q, key) = b[DomainAt(at, q, key)]
      /\ E = {b[x] : x \in D}
  <2> HIDE DEF key
  <2> QED BY <1>0 DEF Renaming
<1>3. NodeDomains(K \ {w}, key) = D \ {{}} /\ NodeDomains(K \ {i}, key) = E \ {{}}
  BY DEF NodeDomains, DomainsOf
<1>4. IsFiniteSet(D)
  <2>1. IsFiniteSet(K \ {w})
    BY <1>1, PlacesFacts, FS_Subset
  <2> DEFINE h == [j \in K \ {w} |-> Domain(NamedNode(j), key)]
  <2>2. h \in Surjection(K \ {w}, D)
    BY DEF Surjection, DomainsOf
  <2> HIDE DEF h, D
  <2> QED BY <2>1, <2>2, FS_Surjection
<1> HIDE DEF at2, D, E
<1>5. E \ {{}} = {b[x] : x \in D \ {{}}}
  BY <1>2
<1>6. Cardinality(E \ {{}}) = Cardinality(D \ {{}})
  <2>1. IsFiniteSet(D \ {{}})
    BY <1>4, FS_Subset
  <2>2. \A x, y \in D \ {{}} : b[x] = b[y] => x = y
    BY <1>2
  <2>3. Cardinality({b[x] : x \in D \ {{}}}) = Cardinality(D \ {{}})
    BY <2>1, <2>2, CardinalityRenamed
  <2> QED BY <1>5, <2>3
<1>7. \A x \in D : new(b[x]) = old(x)
  <2> SUFFICES ASSUME NEW x \in D PROVE CountedAt(k, at2, p, c, b[x]) = CountedAt(k, at, p, c, x)
    OBVIOUS
  <2>1. \A q \in ToPlace(k) : DomainAt(at2, q, key) = b[x] <=> DomainAt(at, q, key) = x
    BY <1>2
  <2> QED BY <2>1 DEF CountedAt
<1> DEFINE home == DomainAt(at, p, key)
<1>8. home \in D /\ DomainAt(at2, p, key) = b[home]
  BY <1>2
<1>9. /\ c.minDomains > Cardinality(D \ {{}}) => old(home) <= c.maxSkew
      /\ \A x \in D \ {{}} : old(home) <= old(x) + c.maxSkew
  BY <1>1, <1>3 DEF ArrangedSpread
<1> HIDE DEF old, new, home
<1>10. new(DomainAt(at2, p, key)) = old(home)
  BY <1>7, <1>8
<1>11. \A y \in E \ {{}} : \E x \in D \ {{}} : new(y) = old(x)
  BY <1>5, <1>7
<1>12. /\ c.minDomains > Cardinality(E \ {{}}) => new(DomainAt(at2, p, key)) <= c.maxSkew
       /\ \A y \in E \ {{}} : new(DomainAt(at2, p, key)) <= new(y) + c.maxSkew
  BY <1>6, <1>9, <1>10, <1>11
<1> QED BY <1>3, <1>12 DEF new

\* Whichever of some plain nodes is given up, the others do.
LEMMA InterchangeArranged ==
  ASSUME InputReal, NEW k, NEW K, NEW i, NEW w, NEW at, Interchange(k, K, i, w, at)
  PROVE  Arranged(k, K \ {i}, Swapped(k, i, w, at))
BY SwappedFacts, SwappedRoom, SwappedStore, SwappedEligible, SwappedApart, SwappedSpread DEF Arranged

LEMMA LossFeasible ==
  ASSUME InputReal, NEW k, NEW m \in 1..Len(Placeable(k)), Suffices(k, m), input.config.survive,
         Regular(k), Nameless(k), Plain(k, ToSet(Retained(k, m))), NEW i \in ToSet(Retained(k, m))
  PROVE  Feasible(k, ToSet(Retained(k, m)) \ {i})
<1> DEFINE ns == Retained(k, m)
           K == ToSet(ns)
<1>1. Choice(k, ns) /\ Len(ns) = m /\ K = {ns[j] : j \in 1..m} /\ K \in SUBSET PoolNodes(k)
  BY RetainedChoice
<1>2. Holds(k, WithoutWorstNode(ns))
  BY DEF Suffices
<1>3. PICK u \in 1..m :
             /\ \A j \in 1..m : NoLarger(ns[u], ns[j])
             /\ Choice(k, WithoutWorstNode(ns))
             /\ {WithoutWorstNode(ns)[j] : j \in 1..Len(WithoutWorstNode(ns))} = K \ {ns[u]}
  <2> HIDE DEF ns, K
  <2>1. Len(ns) > 0
    BY <1>1
  <2> QED BY <1>1, <2>1, WithoutWorstChoice
<1> DEFINE w == ns[u]
<1>4. PICK at : Arranged(k, K \ {w}, at)
  <2> DEFINE out == WithoutWorstNode(ns)
  <2>1. Choice(k, out) /\ Holds(k, out) /\ {out[j] : j \in 1..Len(out)} = K \ {w}
    BY <1>2, <1>3
  <2> HIDE DEF out, K, w
  <2>2. \E at : Arranged(k, {out[j] : j \in 1..Len(out)}, at)
    BY <2>1, HoldsArranged DEF Regular
  <2> QED BY <2>1, <2>2
<1>5. w \in K /\ \A j \in K : NoLarger(w, j)
  <2> HIDE DEF K, ns
  <2> QED BY <1>1, <1>3
<1> HIDE DEF ns, w
<1>6. K \ {i} \in SUBSET PoolNodes(k)
  BY <1>1
<1>7. CASE i = w
  BY <1>4, <1>6, <1>7, ArrangedFeasible DEF ns
<1>8. CASE i # w
  <2>1. PICK big \in K : \A j \in K, d \in Resources : Node(big).cap[d] >= Node(j).cap[d]
    BY DEF Plain, ns
  <2>2. \A j \in K, d \in Resources : Node(j).cap[d] \in Nat
    <3>1. \A j \in K : j \in Indices
      BY <1>1, PlacesFacts
    <3> HIDE DEF K
    <3> QED BY <3>1, InputFacts
  <2>3. "mem" \in Resources /\ "cpu" \in Resources /\ \A d \in Resources : d = "mem" \/ d = "cpu"
    BY DEF Resources
  <2>4. NoLarger(w, big) /\ i \in K
    BY <1>5 DEF ns
  <2> HIDE DEF K
  <2>5. \A d \in Resources : Node(i).cap[d] <= Node(w).cap[d]
    <3>1. /\ Node(big).cap["mem"] \in Nat /\ Node(w).cap["mem"] \in Nat /\ Node(i).cap["mem"] \in Nat
          /\ Node(big).cap["cpu"] \in Nat /\ Node(w).cap["cpu"] \in Nat /\ Node(i).cap["cpu"] \in Nat
      BY <1>5, <2>2, <2>3, <2>4
    <3>2. /\ Node(big).cap["mem"] >= Node(w).cap["mem"] /\ Node(big).cap["mem"] >= Node(i).cap["mem"]
          /\ Node(big).cap["cpu"] >= Node(w).cap["cpu"] /\ Node(big).cap["cpu"] >= Node(i).cap["cpu"]
      BY <1>5, <2>1, <2>3, <2>4
    <3>3. Node(i).cap["mem"] <= Node(w).cap["mem"] /\ Node(i).cap["cpu"] <= Node(w).cap["cpu"]
      BY <2>4, <3>1, <3>2 DEF NoLarger
    <3> QED BY <2>3, <3>3
  <2>6. \A e \in Extended : Node(i).extended[e] <= Node(w).extended[e]
    <3>1. \A d \in Resources : Node(w).cap[d] >= Node(i).cap[d]
      BY <1>5, <2>2, <2>4, <2>5
    <3>2. Plain(k, K)
      BY DEF K, ns
    <3>3. \A e \in Extended : Node(w).extended[e] >= Node(i).extended[e]
      BY <1>5, <2>4, <3>1, <3>2 DEF Plain
    <3>4. \A e \in Extended : Node(w).extended[e] \in Nat /\ Node(i).extended[e] \in Nat
      <4>1. w \in Indices /\ i \in Indices
        BY <1>1, <1>5, <2>4, PlacesFacts
      <4> QED BY <4>1, ExtendedNatural
    <3> QED BY <3>3, <3>4
  <2>7. Interchange(k, K, i, w, at)
    BY <1>1, <1>4, <1>5, <1>8, <2>4, <2>5, <2>6 DEF Interchange, K, ns
  <2> QED BY <1>6, <2>7, InterchangeArranged, ArrangedFeasible DEF K, ns
<1> QED BY <1>7, <1>8

-----------------------------------------------------------------------------
(* Each verdict is sound when it is reached.                               *)

LEMMA WithheldSound ==
  ASSUME InputReal, NEW k
  PROVE  VerdictSound(Withheld(k)) /\ Withheld(k).pool = k
BY PoolFacts DEF VerdictSound, Withheld, Status

LEMMA VerdictIsSound ==
  ASSUME InputReal, NEW k, NEW m \in Nat, m > 0 => ~Unknown(k),
         m > 0 => m \in 1..Len(Placeable(k)) /\ Suffices(k, m)
  PROVE  VerdictSound(Verdict(k, m)) /\ Verdict(k, m).pool = k
<1> DEFINE current == Cardinality(PoolNodes(k))
           stranded == Cardinality(Stranded(k))
           v == Verdict(k, m)
<1> SUFFICES VerdictSound(v) /\ v.pool = k
  OBVIOUS
<1>1. current \in Nat /\ stranded \in Nat
  BY PoolFacts
<1>2. Derived(k, m) = IF m = 0 THEN current ELSE m + stranded
  BY DEF Derived
<1>3. Minimum(k, m) \in 0..current /\ (Minimum(k, m) < current => Derived(k, m) <= Minimum(k, m))
  <2> HIDE DEF current, stranded
  <2>1. Derived(k, m) \in Nat
    BY <1>1, <1>2
  <2>2. Max({Derived(k, m), Floor}) \in Nat /\ Max({Derived(k, m), Floor}) >= Derived(k, m)
    BY <2>1, FloorNatural, PairBounds
  <2>3. Minimum(k, m) = Min({Max({Derived(k, m), Floor}), current})
    BY DEF Minimum, current
  <2> DEFINE raised == Max({Derived(k, m), Floor})
  <2> HIDE DEF raised
  <2>4. raised \in Nat /\ raised >= Derived(k, m) /\ Minimum(k, m) = Min({raised, current})
    BY <2>2, <2>3 DEF raised
  <2>5. Min({raised, current}) = IF raised <= current THEN raised ELSE current
    <3>1. raised \in Int /\ current \in Int
      BY <1>1, <2>4
    <3> QED BY ONLY <3>1, PairBounds
  <2> QED BY <1>1, <2>1, <2>4, <2>5
<1>4. /\ v.pool = k /\ v.status \in Status \ {"indeterminate"}
      /\ v.current = current /\ v.minimum = Minimum(k, m) /\ v.kept = m
      /\ v.removable = current - Minimum(k, m)
      /\ v.actionable => Actionable(input.usage.fidelity)
  BY DEF Verdict, Status
<1>5. v.removable > 0 => m > 0 /\ v.removable + stranded + 1 <= v.current
  <2> HIDE DEF current, stranded, v
  <2> QED BY <1>1, <1>2, <1>3, <1>4
<1> HIDE DEF v
<1> QED BY <1>1, <1>3, <1>4, <1>5 DEF VerdictSound, Status

\* What a verdict is judged by does not change with the search.
LEMMA VerdictStaysSound ==
  ASSUME UNCHANGED input, NEW v, VerdictSound(v)
  PROVE  VerdictSound(v)'
<1>1. \A k : /\ ToPlace(k)' = ToPlace(k)
             /\ Stranded(k)' = Stranded(k)
             /\ PoolNodes(k)' = PoolNodes(k)
  BY DEF ToPlace, Stranded, PoolNodes, Indices, Node, On, Pod, Relocatable, Schedulable, Immovable, Pinned
<1>2. \A k : Unknown(k)' <=> Unknown(k)
  <2>1. \A p : SimPod(p).unmodelled = input.pods[p].unmodelled
    BY DEF SimPod, Pod
  <2>2. \A p : SimPod(p)'.unmodelled = input'.pods[p].unmodelled
    BY DEF SimPod, Pod
  <2>3. \A k : Unknown(k) <=> \E p \in ToPlace(k) : SimPod(p).unmodelled # {}
    BY DEF Unknown, Indeterminate
  <2>4. \A k : Unknown(k)' <=> \E p \in ToPlace(k)' : SimPod(p)'.unmodelled # {}
    BY DEF Unknown, Indeterminate
  <2> QED BY <1>1, <2>1, <2>2, <2>3, <2>4
<1>3. Cardinality(Stranded(v.pool)') = Cardinality(Stranded(v.pool))
  BY <1>1
<1>4. v.kept > 0 => (v.kept \in 1..Len(Placeable(v.pool)) /\ Suffices(v.pool, v.kept))'
  BY SufficesStays DEF VerdictSound
<1> QED BY <1>2, <1>3, <1>4 DEF VerdictSound

-----------------------------------------------------------------------------
(* The invariant holds.                                                    *)

LEMMA InitInv == Init => CapacityInv
<1> SUFFICES ASSUME Init PROVE CapacityInv
  OBVIOUS
<1>1. InputReal
  BY DEF Init, InputReal
<1>2. verdicts = <<>> /\ Decided = {}
  BY DEF Init, Decided, ToSet
<1>3. n \in 1..(Len(input.nodes) + 1)
  BY <1>1, SnapshotNodes DEF Init
<1>4. pool \in Pools \cup {0} /\ {k \in Pools : pool = 0 \/ k < pool} = {}
  <2>1. \A k \in Pools : k \in Nat \ {0}
    BY <1>1, PoolFacts
  <2> QED BY <1>1, <2>1, NextPoolFacts DEF Init
<1> QED BY <1>1, <1>2, <1>3, <1>4 DEF CapacityInv

LEMMA ConcludeKeeps ==
  ASSUME CapacityInv, pool # 0, NEW v, VerdictSound(v), v.pool = pool, Conclude(v)
  PROVE  CapacityInv'
<1>1. UNCHANGED input /\ InputReal /\ InputReal'
  BY DEF CapacityInv, Conclude, InputReal
<1>2. Pools' = Pools /\ \A k \in Pools : k \in Nat \ {0}
  BY <1>1, PoolFacts DEF Pools, Indices, Node
<1>3. Decided' = Decided \cup {v} /\ verdicts' \in Seq(Decided')
  <2>1. verdicts \in Seq(Decided \cup {v}) /\ verdicts' = Append(verdicts, v)
    BY DEF CapacityInv, Conclude
  <2>2. verdicts' \in Seq(Decided \cup {v})
    BY <2>1
  <2>3. Decided' = Decided \cup {v}
    BY <2>1 DEF Decided, ToSet
  <2> QED BY <2>2, <2>3
<1>4. n' \in 1..(Len(input.nodes) + 1)' /\ pool' = NextPool(pool)
  BY <1>1, SnapshotNodes DEF Conclude
<1>5. pool \in Pools /\ pool \in Nat
  BY <1>2 DEF CapacityInv
<1>6. /\ pool' \in Pools \cup {0}
      /\ {k \in Pools : pool' = 0 \/ k < pool'} = {k \in Pools : k < pool} \cup {pool}
  <2>1. \A k \in Pools : (pool' = 0 \/ k < pool') <=> (k < pool \/ k = pool)
    <3>1. CASE pool' = 0 /\ \A m \in Pools : m <= pool
      BY <1>2, <1>5, <3>1
    <3>2. CASE pool' \in Pools /\ pool' > pool /\ \A m \in Pools : m > pool => m >= pool'
      BY <1>2, <1>5, <3>2
    <3> QED BY <1>1, <1>4, <1>5, <3>1, <3>2, NextPoolFacts
  <2>2. pool' \in Pools \cup {0}
    BY <1>1, <1>4, <1>5, NextPoolFacts
  <2> QED BY <1>5, <2>1, <2>2
<1>7. {w.pool : w \in Decided'} = {w.pool : w \in Decided} \cup {pool}
  BY <1>3
<1>8. {w.pool : w \in Decided} = {k \in Pools : k < pool}
  BY DEF CapacityInv
<1>9. \A w \in Decided' : VerdictSound(w)'
  BY <1>1, <1>3, VerdictStaysSound DEF CapacityInv
<1> QED BY <1>1, <1>2, <1>3, <1>4, <1>6, <1>7, <1>8, <1>9 DEF CapacityInv

LEMMA StepInv == CapacityInv /\ [Next]_vars => CapacityInv'
<1> SUFFICES ASSUME CapacityInv, [Next]_vars PROVE CapacityInv'
  OBVIOUS
<1> USE DEF Probing
<1>1. InputReal
  BY DEF CapacityInv
<1>2. CASE WithholdVerdict
  BY <1>1, <1>2, WithheldSound, ConcludeKeeps DEF WithholdVerdict
<1>3. CASE Enough
  <2>1. n \in Nat /\ n \in 1..Len(Placeable(pool))
    BY <1>1, <1>3, SnapshotNodes, PoolFacts DEF CapacityInv, Enough
  <2>2. VerdictSound(Verdict(pool, n)) /\ Verdict(pool, n).pool = pool
    BY <1>1, <1>3, <2>1, VerdictIsSound DEF Enough
  <2> QED BY <1>3, <2>2, ConcludeKeeps DEF Enough
<1>4. CASE NothingSmaller
  <2>1. VerdictSound(Verdict(pool, 0)) /\ Verdict(pool, 0).pool = pool
    BY <1>1, VerdictIsSound
  <2> QED BY <1>4, <2>1, ConcludeKeeps DEF NothingSmaller
<1>5. CASE UNCHANGED <<input, pool, verdicts>> /\ n' \in 1..(Len(input.nodes) + 1)
  <2>1. InputReal' /\ Pools' = Pools /\ Decided' = Decided
    BY <1>1, <1>5 DEF InputReal, Pools, Indices, Node, Decided, ToSet
  <2>2. \A w \in Decided : VerdictSound(w)'
    BY <1>5, VerdictStaysSound DEF CapacityInv
  <2> QED BY <1>5, <2>1, <2>2 DEF CapacityInv
<1>6. CASE TryLarger
  <2>1. Len(Placeable(pool)) \in 0..Len(input.nodes) /\ Len(input.nodes) \in Nat
    BY <1>1, PoolFacts, SnapshotNodes
  <2>2. n' \in 1..(Len(input.nodes) + 1)
    BY <1>6, <2>1 DEF CapacityInv, TryLarger
  <2> QED BY <1>5, <1>6, <2>2 DEF TryLarger
<1>7. CASE UNCHANGED vars
  BY <1>5, <1>7 DEF vars, CapacityInv
<1> QED BY <1>2, <1>3, <1>4, <1>6, <1>7 DEF Next

\* The invariant holds in every search, for any inputs and headrooms.
THEOREM CapacityInvariance == Spec => []CapacityInv
BY InitInv, StepInv, PTL DEF Spec

-----------------------------------------------------------------------------
(* What the verdicts guarantee.                                            *)

\* The pools are decided in their order, and no minimum is above what a pool has.
THEOREM CapacityTypes == Spec => []CapacityTypeOK
<1>1. CapacityInv => CapacityTypeOK
  BY DEF CapacityInv, CapacityTypeOK, VerdictSound
<1> QED BY <1>1, CapacityInvariance, PTL

\* A pool gives nodes back only beside those that strand an immovable pod and
\* one more (Derived and Minimum in analyzePool).
THEOREM StrandedNodesStay == Spec => []StrandedStay
<1>1. CapacityInv => StrandedStay
  BY DEF CapacityInv, StrandedStay, VerdictSound
<1> QED BY <1>1, CapacityInvariance, PTL

\* The nodes that a verdict keeps hold the pods of the pool in an arrangement
\* that no constraint of theirs forbids: what first fit finds on withheld
\* capacities is one (PackPool, sufficient in analyzePool).
THEOREM RetainedNodesHold == Spec => []RetainedHold
<1>1. CapacityInv => RetainedHold
  <2> SUFFICES ASSUME CapacityInv, NEW v \in Decided, v.kept > 0, Regular(v.pool)
               PROVE  Feasible(v.pool, KeptNodes(v))
    BY DEF RetainedHold
  <2>1. InputReal /\ v.kept \in 1..Len(Placeable(v.pool)) /\ Suffices(v.pool, v.kept)
    BY DEF CapacityInv, VerdictSound
  <2> QED BY <2>1, SufficesFeasible DEF KeptNodes
<1> QED BY <1>1, CapacityInvariance, PTL

\* With the gate on, plain nodes hold their pods whichever of them is lost: the
\* largest was simulated, and another one's pods can go to it (withoutWorstNode).
THEOREM LossIsSurvived == Spec => []LossSurvived
<1>1. CapacityInv => LossSurvived
  <2> SUFFICES ASSUME CapacityInv, NEW v \in Decided, v.kept > 0, input.config.survive,
                      Regular(v.pool), Nameless(v.pool), Plain(v.pool, KeptNodes(v)),
                      NEW i \in KeptNodes(v)
               PROVE  Feasible(v.pool, KeptNodes(v) \ {i})
    BY DEF LossSurvived
  <2>1. InputReal /\ v.kept \in 1..Len(Placeable(v.pool)) /\ Suffices(v.pool, v.kept)
    BY DEF CapacityInv, VerdictSound
  <2> QED BY <2>1, LossFeasible DEF KeptNodes
<1> QED BY <1>1, CapacityInvariance, PTL

LEMMA BeyondIsUnmodelled ==
  ASSUME InputReal, NEW p \in DOMAIN input.pods, BeyondSimulation(input.objects[p])
  PROVE  UnmodelledConstraints(input.objects[p]) # {}
<1> DEFINE o == input.objects[p]
<1>1. PICK s \in Inputs : input = Snapshot(s)
  BY DEF InputReal
<1>2. p \in DOMAIN s.pods /\ o = s.pods[p]
  BY <1>1 DEF Snapshot, CollectPods
<1>3. /\ o.containers \in Seq(ToSet(o.containers)) /\ o.initContainers \in Seq(ToSet(o.initContainers))
      /\ \A c \in ToSet(o.containers) \cup ToSet(o.initContainers) : c.extended \in [Extended -> Nat]
  BY <1>2, CapacityAssumption DEF CapacityAssumption
<1> HIDE DEF o
<1>4. "gpu" \in Extended \ {"ephemeral-storage"}
  BY DEF Extended
<1>5. (\E c \in ToSet(o.containers) \cup ToSet(o.initContainers) : c.extended["gpu"] > 0)
        => ExtendedRequests(o)["gpu"] > 0
  <2> SUFFICES ASSUME NEW c \in ToSet(o.containers) \cup ToSet(o.initContainers), c.extended["gpu"] > 0
               PROVE  ExtendedRequests(o)["gpu"] > 0
    OBVIOUS
  <2>1. ExtendedRequests(o)["gpu"] \in Nat /\ c.extended["gpu"] <= ExtendedRequests(o)["gpu"]
    BY <1>3, <1>4, ExtendedCovers
  <2>2. c.extended["gpu"] \in Nat
    BY <1>3, <1>4
  <2> QED BY <2>1, <2>2
<1>6. BeyondSimulation(o)
  BY DEF o
<1>7. UnmodelledConstraints(o) # {}
  BY <1>4, <1>5, <1>6 DEF BeyondSimulation, UnmodelledConstraints
<1> QED BY <1>7 DEF o

LEMMA SnapshotPods ==
  ASSUME InputReal
  PROVE  /\ DOMAIN input.pods = DOMAIN input.objects
         /\ \A p \in DOMAIN input.pods : input.pods[p] = PodModel(input.objects[p])
BY DEF InputReal, Snapshot, CollectPods

\* No pool gives a node back on a simulation that leaves out a constraint of a
\* pod that has to move, whichever of the scheduler's it is.
THEOREM UnknownKeepsNodes == Spec => []UnknownWithheld
<1>1. CapacityInv => UnknownWithheld
  <2> SUFFICES ASSUME CapacityInv, NEW v \in Decided, NEW p \in ToPlace(v.pool),
                      BeyondSimulation(input.objects[p])
               PROVE  v.removable = 0
    BY DEF UnknownWithheld
  <2>1. InputReal /\ VerdictSound(v)
    BY DEF CapacityInv
  <2>2. p \in DOMAIN input.pods
    BY DEF ToPlace, On
  <2>3. SimPod(p).unmodelled = UnmodelledConstraints(input.objects[p])
    <3>1. SimPod(p).unmodelled = input.pods[p].unmodelled
      BY DEF SimPod, Pod
    <3>2. input.pods[p] = PodModel(input.objects[p])
      BY <2>1, <2>2, SnapshotPods
    <3> QED BY <3>1, <3>2 DEF PodModel
  <2>4. Unknown(v.pool)
    BY <2>1, <2>2, <2>3, BeyondIsUnmodelled DEF Unknown, Indeterminate
  <2>5. v.removable \in Nat
    BY <2>1 DEF VerdictSound
  <2> QED BY <2>1, <2>4, <2>5 DEF VerdictSound
<1> QED BY <1>1, CapacityInvariance, PTL

LEMMA EvidenceTyped ==
  ASSUME NEW s \in Inputs
  PROVE  /\ Answers(s).url = s.evidence.url /\ Answers(s).answers = s.evidence.answers
         /\ Answers(s).mode = s.evidence.mode
         /\ Answers(s).p95 = Figures(s.pods, s.evidence.p95)
BY CapacityAssumption DEF CapacityAssumption, Answers

LEMMA ResolveActionable ==
  ASSUME NEW e, NEW keys, Actionable(Resolve(e, keys).fidelity)
  PROVE  e.mode \in {"", "auto", "prometheus"} /\ PercentilesUsable(e, keys)
BY DEF Actionable, Resolve, Mode, Source, NoUsage

\* A verdict that may be acted on rests on percentiles that were configured and
\* not declined, of four fifths at least of the pods that run.
THEOREM ActionableRestsOnPercentiles == Spec => []ActionableSupported
<1>1. CapacityInv => ActionableSupported
  <2> SUFFICES ASSUME CapacityInv, NEW v \in Decided, v.actionable
               PROVE  ActionableSupported
    BY DEF ActionableSupported
  <2>1. PICK s \in Inputs : input = Snapshot(s)
    BY DEF CapacityInv, InputReal
  <2> DEFINE keys == PodKeys(CollectPods(s.pods))
             running == {p \in DOMAIN input.objects :
                           input.objects[p].phase \notin {"Succeeded", "Failed"} /\ input.objects[p].host # 0}
             known == {p \in running : \E d \in Resources : p \in input.evidence.p95[d]}
  <2>2. Actionable(Resolve(Answers(s), keys).fidelity)
    BY <2>1 DEF CapacityInv, VerdictSound, Snapshot
  <2>3. /\ s.evidence.mode \in {"", "auto", "prometheus"}
        /\ s.evidence.url /\ s.evidence.answers
        /\ Usable(Figures(s.pods, s.evidence.p95), keys)
    <3> HIDE DEF keys
    <3>1. Answers(s).mode \in {"", "auto", "prometheus"} /\ PercentilesUsable(Answers(s), keys)
      BY <2>2, ResolveActionable
    <3> QED BY <3>1, EvidenceTyped DEF PercentilesUsable
  <2>4. input.objects = s.pods /\ input.evidence = s.evidence
    BY <2>1 DEF Snapshot
  <2>5. keys = running
    BY <2>4 DEF PodKeys, CollectPods, PodModel
  <2>6. keys \cap Read(Figures(s.pods, s.evidence.p95)) = known
    BY <2>4, <2>5 DEF Read, Figures, Resources
  <2>7. 5 * Cardinality(known) >= 4 * Cardinality(running)
    <3>1. known \subseteq running
      OBVIOUS
    <3> HIDE DEF known, running, keys
    <3>2. CASE keys = {}
      <4>1. known = {} /\ running = {}
        BY <2>5, <3>1, <3>2
      <4> QED BY <4>1, FS_EmptySet
    <3>3. CASE keys # {}
      BY <2>3, <2>5, <2>6, <3>3 DEF Usable, Covers
    <3> QED BY <3>2, <3>3
  <2> QED BY <2>3, <2>4, <2>7 DEF ActionableSupported
<1> QED BY <1>1, CapacityInvariance, PTL

-----------------------------------------------------------------------------
(* The figures of the cluster.                                             *)

\* A figure of the cluster, as a sum.
LEMMA SumOfIsSum ==
  ASSUME NEW field, NEW D, IsFiniteSet(D), NEW S \in SUBSET D, \A v \in S : v[field] \in Int
  PROVE  SumOf(field, S) = SumOver([v \in D |-> v[field]], S)
<1> DEFINE f == [v \in D |-> v[field]]
           g == [v \in S |-> v[field]]
<1>1. SumOf(field, S) = SumOver(g, S)
  <2>1. DOMAIN g = S
    OBVIOUS
  <2>2. SumOf(field, S) = Total(g)
    BY DEF SumOf
  <2> HIDE DEF g
  <2> QED BY <2>1, <2>2, TotalIsSum
<1>2. \A v \in S : g[v] \in Int /\ f[v] = g[v]
  OBVIOUS
<1>3. IsFiniteSet(S)
  BY FS_Subset
<1> HIDE DEF f, g
<1>4. SumOver(g, S) = SumOver(f, S)
  BY <1>2, <1>3, SumSame
<1> QED BY <1>1, <1>4 DEF f

LEMMA DecidedFinite ==
  ASSUME verdicts \in Seq(Decided)
  PROVE  IsFiniteSet(Decided)
<1>1. Len(verdicts) \in Nat /\ verdicts \in [1..Len(verdicts) -> Decided]
  OBVIOUS
<1>2. \A v \in Decided : \E j \in 1..Len(verdicts) : verdicts[j] = v
  BY DEF Decided, ToSet
<1>3. verdicts \in Surjection(1..Len(verdicts), Decided)
  BY <1>1, <1>2 DEF Surjection
<1>4. IsFiniteSet(1..Len(verdicts))
  BY <1>1, FS_Interval
<1> QED BY <1>3, <1>4, FS_Surjection

\* What the cluster needs and what can be removed are all that it has: a pool
\* without an answer is not taken for one that needs nothing.
THEOREM ClusterAddsUp == Spec => []ResultAddsUp
<1>1. CapacityInv => ResultAddsUp
  <2> SUFFICES ASSUME CapacityInv PROVE ResultAddsUp
    OBVIOUS
  <2> DEFINE D == Decided
             least == [v \in D |-> v.minimum]
             spare == [v \in D |-> v.removable]
             all == [v \in D |-> v.current]
             unknown == {v \in D : v.status = "indeterminate"}
             kept == [v \in D |-> IF v \in unknown THEN v.current ELSE 0]
             needed == [v \in D |-> least[v] + kept[v]]
  <2>0. \A v \in D : v.minimum \in Int /\ v.removable \in Int /\ v.current \in Int
    BY DEF CapacityInv, VerdictSound
  <2>2. IsFiniteSet(D)
    BY DecidedFinite DEF CapacityInv
  <2>1. /\ ClusterMinimum = SumOver(least, D) + SumOver(all, unknown)
        /\ ClusterRemovable = SumOver(spare, D)
        /\ ClusterNodes = SumOver(all, D)
    <3>1. unknown \in SUBSET D /\ D \in SUBSET D
      OBVIOUS
    <3>2. /\ SumOf("minimum", D) = SumOver(least, D)
          /\ SumOf("removable", D) = SumOver(spare, D)
          /\ SumOf("current", D) = SumOver(all, D)
          /\ SumOf("current", unknown) = SumOver(all, unknown)
      <4> HIDE DEF D, unknown
      <4>1. \A v \in D : v["minimum"] \in Int /\ v["removable"] \in Int /\ v["current"] \in Int
        BY <2>0
      <4> QED BY <2>2, <3>1, <4>1, SumOfIsSum
    <3> QED BY <3>2 DEF ClusterMinimum, ClusterRemovable, ClusterNodes
  <2>3. \A v \in D : /\ least[v] \in Int /\ spare[v] \in Int /\ all[v] \in Int /\ kept[v] \in Int
                     /\ needed[v] = least[v] + kept[v]
                     /\ all[v] = needed[v] + spare[v]
                     /\ kept[v] = IF v \in unknown THEN all[v] ELSE 0
    BY DEF CapacityInv, VerdictSound
  <2>4. unknown \in SUBSET D
    OBVIOUS
  <2> HIDE DEF D, least, spare, all, unknown, kept, needed
  <2>5. SumOver(all, unknown) = SumOver(kept, D)
    <3>1. \A v \in D : all[v] \in Int /\ kept[v] = IF v \in unknown THEN all[v] ELSE 0
      BY <2>3
    <3> QED BY <2>2, <2>4, <3>1, SumPart
  <2>6. SumOver(needed, D) = SumOver(least, D) + SumOver(kept, D)
    BY <2>2, <2>3, SumPlus
  <2>7. \A v \in D : needed[v] \in Int
    BY <2>3
  <2>8. SumOver(all, D) = SumOver(needed, D) + SumOver(spare, D)
    BY <2>2, <2>3, <2>7, SumPlus
  <2> QED BY <2>1, <2>5, <2>6, <2>8 DEF ResultAddsUp
<1> QED BY <1>1, CapacityInvariance, PTL

=============================================================================
