------------------------------ MODULE Capacity ------------------------------
(***************************************************************************)
(* How few nodes each pool can safely run on (internal/capacity): the      *)
(* search for the smallest number of nodes whose placement simulates, one  *)
(* step per simulated size, and the verdict the consolidation pass obeys.  *)
(* It starts from the objects of the API server, as the collector keeps    *)
(* them, and from the usage that could be had of them.                     *)
(*                                                                         *)
(* A definition X_Fault is X with one plausible mistake; no specification  *)
(* uses it.                                                                *)
(***************************************************************************)
EXTENDS Collector, Evidence

CONSTANTS
  Inputs,         \* what a run finds: [nodes, pods, config, evidence], where the
                  \* sources of usage are given by the pods that each knows
  HeadroomPercent,
  UsageHeadroomPercent

DefaultFloor == 2

ASSUME CapacityAssumption ==
  /\ HeadroomPercent \in 1..99 /\ UsageHeadroomPercent \in Nat
  /\ \A s \in Inputs :
       /\ s.config \in [floor : Nat, survive : BOOLEAN]
       /\ s.evidence \in [mode : STRING, url : BOOLEAN, answers : BOOLEAN,
                          p95 : [Resources -> SUBSET Nat], live : [Resources -> SUBSET Nat]]
       /\ s.nodes \in Seq(ToSet(s.nodes))
       /\ \A i \in DOMAIN s.nodes :
            /\ NodePoolName(s.nodes[i].labels) \in Nat \ {0}
            /\ s.nodes[i].allocatable \in [Resources -> Nat] /\ s.nodes[i].maxPods \in Nat
            /\ s.nodes[i].extended \in [Extended -> Nat]
       /\ s.pods \in Seq(ToSet(s.pods))
       /\ \A p \in DOMAIN s.pods :
            LET o == s.pods[p] IN
            /\ o.containers \in Seq(ToSet(o.containers))
            /\ o.initContainers \in Seq(ToSet(o.initContainers))
            /\ \A c \in ToSet(o.containers) : c.request \in [Resources -> Nat]
            /\ \A c \in ToSet(o.containers) \cup ToSet(o.initContainers) : c.extended \in [Extended -> Nat]
            /\ o.usage \in [Resources -> Nat]
            /\ \A c \in o.topologySpread : c.maxSkew \in Nat /\ c.minDomains \in Nat

VARIABLES
  input,    \* the snapshot, the usage and the configuration, for good
  pool,     \* the pool that is analysed, or 0 when all are
  n,        \* the number of nodes tried next
  verdicts  \* of the pools before it

vars == <<input, pool, n, verdicts>>

Indices == 1..Len(input.nodes)
Node(i) == input.nodes[i]
Pod(p) == input.pods[p]
Floor == IF input.config.floor > 0 THEN input.config.floor ELSE DefaultFloor

Pools == {Node(i).pool : i \in Indices}
PoolNodes(k) == {i \in Indices : Node(i).pool = k}
NextPool(k) == LET rest == {m \in Pools : m > k} IN IF rest = {} THEN 0 ELSE Min(rest)

-----------------------------------------------------------------------------
(* What a pod asks for, and what stays where it is.                        *)

\* Observed usage can only add to what a pod requests.
Effective(p) ==
  [d \in Resources |->
     EffectiveAmount(Pod(p).request[d], input.usage, p, d, UsageHeadroomPercent)]

Relocatable(p) == Pod(p).owner \notin {"", "DaemonSet", "Node"}

On(i) == {p \in DOMAIN input.pods : Pod(p).active /\ Pod(p).host = i}
DaemonPods(i) == {p \in On(i) : Pod(p).owner = "DaemonSet"}
Pinned(i) == {p \in On(i) : ~Relocatable(p) /\ Pod(p).owner # "DaemonSet"}
Immovable(i) == Pinned(i) # {}

ToPlace(k) == {p \in UNION {On(i) : i \in PoolNodes(k)} : Relocatable(p)}

\* DaemonSets: the worst footprint of any node of the pool.
DaemonSize(k, d) == Max({Total([p \in DaemonPods(i) |-> Pod(p).request[d]]) : i \in PoolNodes(k)})
DaemonCount(k) == Max({Cardinality(DaemonPods(i)) : i \in PoolNodes(k)})

-----------------------------------------------------------------------------
(* The simulation of a pool on some of its nodes.                          *)

Schedulable(i) == Node(i).ready /\ ~Node(i).unschedulable

\* Hosts of immovable pods first, then the largest, then by name.
Retains(i, j) ==
  LET a == Node(i).cap  b == Node(j).cap IN
  IF Immovable(i) # Immovable(j) THEN Immovable(i)
  ELSE IF a["mem"] # b["mem"] THEN a["mem"] > b["mem"]
  ELSE IF a["cpu"] # b["cpu"] THEN a["cpu"] > b["cpu"]
  ELSE i < j

UsableNodes(k) == {i \in PoolNodes(k) : Schedulable(i)}

\* The usable nodes in that order.
Placeable(k) == Ranked(UsableNodes(k), Retains)

Stranded(k) == {i \in PoolNodes(k) : ~Schedulable(i) /\ Immovable(i)}

Withhold(value) == (value * (100 - HeadroomPercent)) \div 100

Reserved_DaemonsOnly(k, i) == [d \in Resources |-> DaemonSize(k, d)]

Reserved(k, i) ==
  [d \in Resources |-> DaemonSize(k, d) + Total([p \in Pinned(i) |-> Effective(p)[d]])]

SimNode(k, i) ==
  [name |-> i, labels |-> Node(i).labels, taints |-> Node(i).taints,
   cap |-> [d \in Resources |-> Withhold(Node(i).cap[d])],
   reserved |-> Reserved(k, i), extended |-> Node(i).extended,
   maxPods |-> Node(i).maxPods,
   reservedPods |-> DaemonCount(k) + Cardinality(Pinned(i))]

SimPod(p) ==
  [ns |-> Pod(p).ns, labels |-> Pod(p).labels, size |-> Effective(p),
   extended |-> Pod(p).extended,
   nodeSelector |-> Pod(p).nodeSelector, tolerations |-> Pod(p).tolerations,
   affinity |-> Pod(p).affinity, antiAffinity |-> Pod(p).antiAffinity,
   topologySpread |-> Pod(p).topologySpread, unmodelled |-> Pod(p).unmodelled]

\* In the order of their names, which ToPlace's numbers are.
Placed(k) == Ranked(ToPlace(k), LAMBDA p, q : p < q)

SimPods(k) == [j \in 1..Len(Placed(k)) |-> SimPod(Placed(k)[j])]

Holds(k, nodes) ==
  AllPlaced([j \in 1..Len(nodes) |-> SimNode(k, nodes[j])], SimPods(k))

WithoutWorstNode_Last(nodes) == IF nodes = <<>> THEN nodes ELSE Front(nodes)

\* Without the node of most memory, or of most CPU among those; none is left
\* of one.
WithoutWorstNode(nodes) ==
  IF Len(nodes) <= 1 THEN <<>>
  ELSE LET size(j) == Node(nodes[j]).cap
           worse(i, j) == \/ size(i)["mem"] > size(j)["mem"]
                          \/ size(i)["mem"] = size(j)["mem"] /\ size(i)["cpu"] > size(j)["cpu"]
           worst == Min({j \in 1..Len(nodes) : \A i \in 1..Len(nodes) : ~worse(i, j)})
       IN RemoveAt(nodes, worst)

Retained(k, m) == SubSeq(Placeable(k), 1, m)

\* The pool can run on its m best nodes, also after a loss if that is asked for.
Suffices(k, m) ==
  /\ Holds(k, Retained(k, m))
  /\ input.config.survive => Holds(k, WithoutWorstNode(Retained(k, m)))

-----------------------------------------------------------------------------
(* The search.                                                             *)

Status == {"fits", "at_minimum", "at_floor", "indeterminate"}

Withheld(k) ==
  [pool |-> k, status |-> "indeterminate", current |-> Cardinality(PoolNodes(k)), kept |-> 0,
   derived |-> 0, minimum |-> 0, removable |-> 0, actionable |-> FALSE]

Derived_NoneStranded(k, m) == IF m = 0 THEN Cardinality(PoolNodes(k)) ELSE m

\* m is what the search found, or 0: then the pool keeps what it has.
Derived(k, m) == IF m = 0 THEN Cardinality(PoolNodes(k)) ELSE m + Cardinality(Stranded(k))

Minimum_Uncapped(k, m) == Max({Derived(k, m), Floor})

\* The floor only raises the minimum, and invents no nodes.
Minimum(k, m) == Min({Max({Derived(k, m), Floor}), Cardinality(PoolNodes(k))})

Verdict(k, m) ==
  LET current == Cardinality(PoolNodes(k)) IN
  [pool |-> k,
   status |-> CASE Minimum(k, m) < current -> "fits"
                [] Minimum(k, m) = current /\ Derived(k, m) < current -> "at_floor"
                [] OTHER -> "at_minimum",
   current |-> current, kept |-> m, derived |-> Derived(k, m), minimum |-> Minimum(k, m),
   removable |-> current - Minimum(k, m), actionable |-> Actionable(input.usage.fidelity)]

\* The pods that a source of usage should know: those that run somewhere.
PodKeys(pods) == {p \in DOMAIN pods : pods[p].active /\ pods[p].host # 0}

\* What a source answers that knows `known' of the pods.
Figures(objects, known) ==
  [d \in Resources |-> [p \in known[d] \cap DOMAIN objects |-> objects[p].usage[d]]]

Answers(s) ==
  [s.evidence EXCEPT !.p95 = Figures(s.pods, @), !.live = Figures(s.pods, @)]

Snapshot(s) ==
  LET pods == CollectPods(s.pods) IN
  [nodes |-> [i \in DOMAIN s.nodes |-> NodeModel(s.nodes[i])], pods |-> pods, config |-> s.config,
   usage |-> Resolve(Answers(s), PodKeys(pods)), objects |-> s.pods, evidence |-> s.evidence]

Init ==
  /\ \E s \in Inputs : input = Snapshot(s)
  /\ pool = NextPool(0)
  /\ n = 1
  /\ verdicts = <<>>

Conclude(verdict) ==
  /\ verdicts' = Append(verdicts, verdict)
  /\ pool' = NextPool(pool)
  /\ n' = 1
  /\ UNCHANGED input

Unknown(k) == Indeterminate({SimPod(p) : p \in ToPlace(k)})

Probing == pool # 0 /\ n <= Len(Placeable(pool))

\* A pod of the pool has a constraint that the simulation does not know.
WithholdVerdict == Probing /\ Unknown(pool) /\ Conclude(Withheld(pool))

TryLarger ==
  /\ Probing /\ ~Unknown(pool) /\ ~Suffices(pool, n)
  /\ n' = n + 1
  /\ UNCHANGED <<input, pool, verdicts>>

Enough == Probing /\ ~Unknown(pool) /\ Suffices(pool, n) /\ Conclude(Verdict(pool, n))

NothingSmaller == pool # 0 /\ n > Len(Placeable(pool)) /\ Conclude(Verdict(pool, 0))

Next == WithholdVerdict \/ TryLarger \/ Enough \/ NothingSmaller

Spec == Init /\ [][Next]_vars

Decided == ToSet(verdicts)

SumOf(field, found) == Total([v \in found |-> v[field]])

ClusterMinimum_KnownOnly == SumOf("minimum", Decided)

\* Result: a pool that nothing is known of counts with the nodes it has.
ClusterMinimum ==
  SumOf("minimum", Decided) + SumOf("current", {v \in Decided : v.status = "indeterminate"})

ClusterRemovable == SumOf("removable", Decided)
ClusterNodes == SumOf("current", Decided)

-----------------------------------------------------------------------------
(* A reference: whether the pods of a pool can run on a set of its nodes,  *)
(* in any arrangement, by what the nodes really have and run.              *)

\* Pods that stay on those nodes.
Fixed(nodes) == UNION {DaemonPods(i) \cup Pinned(i) : i \in nodes}

Load(p, d) == IF Pod(p).owner = "DaemonSet" THEN Pod(p).request[d] ELSE Effective(p)[d]

NamedNode(i) == [name |-> i, labels |-> Node(i).labels, taints |-> Node(i).taints]

\* The scheduler tells a label that is not set from one that is empty.
Schedules(p, node) ==
  /\ Tolerates(p, node)
  /\ p.nodeSelector \subseteq node.labels
  /\ MatchesNodeAffinity(p, node)

Chooses(s, labels) == SelectorMatches(s, labels) /\ s.labels \subseteq labels

\* `where' gives the node of each pod.  A node that gets none of those that are
\* moved is as it was.
RoomFor(where, moved) ==
  \A i \in {where[p] : p \in moved} :
    LET here == {p \in DOMAIN where : where[p] = i} IN
    /\ \A d \in Resources : Total([p \in here |-> Load(p, d)]) <= Node(i).cap[d]
    /\ \A e \in Extended : Total([p \in here |-> Pod(p).extended[e]]) <= Node(i).extended[e]
    /\ Node(i).maxPods > 0 => Cardinality(here) <= Node(i).maxPods

\* Required anti-affinity binds both ways, whichever pod came first.
KeptApart(where, moved) ==
  \A p, q \in DOMAIN where : p # q /\ (p \in moved \/ q \in moved) =>
    \A term \in Pod(p).antiAffinity :
      InScope(term, Pod(p), Pod(q)) /\ Chooses(term.selector, Pod(q).labels) =>
        Domain(NamedNode(where[p]), term.topologyKey) # Domain(NamedNode(where[q]), term.topologyKey)

EvenlySpread(nodes, where, moved) ==
  \A p \in moved : \A c \in {c \in Pod(p).topologySpread : c.hard} :
    LET domains == {Domain(NamedNode(i), c.topologyKey) : i \in nodes} \ {{}}
        count(x) == Cardinality({q \in DOMAIN where :
                      /\ Pod(q).ns = Pod(p).ns /\ Chooses(c.selector, Pod(q).labels)
                      /\ Domain(NamedNode(where[q]), c.topologyKey) = x})
        least == IF c.minDomains > Cardinality(domains) THEN 0 ELSE Min({count(x) : x \in domains})
    IN count(Domain(NamedNode(where[p]), c.topologyKey)) - least <= c.maxSkew

\* Nodes that lack a topology key are out of the question.
HasDomains(p, i) ==
  /\ \A term \in Pod(p).antiAffinity : Domain(NamedNode(i), term.topologyKey) # {}
  /\ \A c \in {c \in Pod(p).topologySpread : c.hard} : Domain(NamedNode(i), c.topologyKey) # {}

Feasible(k, nodes) ==
  LET moved == ToPlace(k)
      fixed == Fixed(nodes) IN
  \E at \in [moved -> nodes] :
    LET where == [p \in moved \cup fixed |-> IF p \in moved THEN at[p] ELSE Pod(p).host] IN
    /\ \A p \in moved : Schedules(Pod(p), NamedNode(at[p])) /\ HasDomains(p, at[p])
    /\ RoomFor(where, moved)
    /\ KeptApart(where, moved)
    /\ EvenlySpread(nodes, where, moved)

\* The pods that p's hard constraints speak of are simulated too, and constrain
\* p in the same way.
Mutual(k) ==
  \A p \in ToPlace(k), q \in UNION {On(i) : i \in PoolNodes(k)} : p # q =>
    /\ \A term \in Pod(p).antiAffinity : Repels(term, Pod(p), Pod(q)) =>
         /\ q \in ToPlace(k)
         /\ \E back \in Pod(q).antiAffinity :
              back.topologyKey = term.topologyKey /\ Repels(back, Pod(q), Pod(p))
    /\ \A term \in Pod(q).antiAffinity : Repels(term, Pod(q), Pod(p)) => q \in ToPlace(k)
    /\ \A c \in Pod(p).topologySpread : c.hard /\ CountsFor(c, Pod(p), Pod(q)) =>
         q \in ToPlace(k) /\ c \in Pod(q).topologySpread

\* Where they ask for an empty value, the label is set.
Explicit(k) ==
  \A p \in ToPlace(k) :
    /\ \A l \in Pod(p).nodeSelector, i \in PoolNodes(k) : l.value = Empty => IsSet(l.key, Node(i).labels)
    /\ \A c \in {c \in Pod(p).topologySpread : c.hard}, q \in UNION {On(i) : i \in PoolNodes(k)} :
         \A l \in c.selector.labels : l.value = Empty => IsSet(l.key, Pod(q).labels)

\* Pods that stay where they are ask for no extended resource.
Unextended(k) == \A p \in Fixed(PoolNodes(k)), e \in Extended : Pod(p).extended[e] = 0

Regular(k) == Mutual(k) /\ Explicit(k) /\ Unextended(k)

KeptNodes(v) == ToSet(Retained(v.pool, v.kept))

-----------------------------------------------------------------------------
(* Properties.                                                             *)

\* Verdicts come in the order of the pools, and the search ends with the pool.
CapacityTypeOK ==
  /\ pool \in Pools \cup {0}
  /\ n \in 1..(Len(input.nodes) + 1)
  /\ {v.pool : v \in Decided} = {k \in Pools : pool = 0 \/ k < pool}
  /\ \A v \in Decided : v.status \in Status /\ v.minimum \in 0..v.current

\* The nodes that a verdict keeps really hold the pods of the pool, daemons and
\* immovable pods beside them, within every hard constraint (README.md:295),
\* provided that the constraints bind both ways and among pods that can move,
\* that an empty value is asked for where the label is set only, and that those
\* that stay ask for no ephemeral storage: the code looks at none of the three.
RetainedHold ==
  \A v \in Decided : v.kept > 0 /\ Regular(v.pool) => Feasible(v.pool, KeptNodes(v))

\* The count that is reported "satisfies every hard scheduling predicate at once"
\* (README.md:295), whichever pod states it: checked where the count is that of
\* the nodes kept, the floor having added none.
HardConstraintsHold ==
  \A v \in Decided : v.kept > 0 /\ v.minimum = v.kept => Feasible(v.pool, KeptNodes(v))

\* The keys of labels that pods ask nodes for, and those of their topologies.
AskedKeys(k) ==
  UNION {{l.key : l \in Pod(p).nodeSelector} \cup
         UNION {{r.key : r \in term.expressions} : term \in Pod(p).affinity} : p \in ToPlace(k)}

TopologyKeys(k) ==
  UNION {{term.topologyKey : term \in Pod(p).antiAffinity} \cup
         {c.topologyKey : c \in Pod(p).topologySpread} : p \in ToPlace(k)}

\* Nodes that are alike to the pods of the pool but for their size, one being the
\* largest in both resources and none that is no smaller having less of another,
\* and that host nothing immovable.  They may differ in labels that nobody asks
\* for, and each may be a domain of its own.
Plain(k, nodes) ==
  /\ \A i, j \in nodes :
       /\ Node(i).taints = Node(j).taints /\ Node(i).maxPods = Node(j).maxPods /\ ~Immovable(i)
       /\ \A l \in Node(i).labels : l.key \in AskedKeys(k) => l \in Node(j).labels
       /\ (\A d \in Resources : Node(i).cap[d] >= Node(j).cap[d])
            => \A e \in Extended : Node(i).extended[e] >= Node(j).extended[e]
  /\ \A key \in TopologyKeys(k) :
       LET domain(i) == Domain(NamedNode(i), key) IN
       \/ \A i, j \in nodes : domain(i) = domain(j)
       \/ \A i, j \in nodes : domain(i) # {} /\ (i # j => domain(i) # domain(j))
  /\ \E i \in nodes : \A j \in nodes, d \in Resources : Node(i).cap[d] >= Node(j).cap[d]

\* No pod that is moved asks for nodes by their names.
Nameless(k) == \A p \in ToPlace(k) : \A term \in Pod(p).affinity : term.fields = {}

\* With the gate on, a pool of plain nodes holds its pods after the loss of any
\* one of those it keeps, the largest included (README.md:306, 316), under the
\* conditions of RetainedHold.
LossSurvived ==
  \A v \in Decided :
    /\ v.kept > 0 /\ input.config.survive
    /\ Regular(v.pool) /\ Nameless(v.pool) /\ Plain(v.pool, KeptNodes(v))
    => \A i \in KeptNodes(v) : Feasible(v.pool, KeptNodes(v) \ {i})

\* What the scheduler asks of a pod before it binds it and the simulation does
\* not look at: devices, a runtime's overhead, other pods near by, pods of
\* namespaces chosen by label, refined spreading, the place of a volume.
BeyondSimulation(o) ==
  \/ \E c \in ToSet(o.containers) \cup ToSet(o.initContainers) : c.extended["gpu"] > 0
  \/ o.overhead \/ o.podAffinity # {} \/ o.claim
  \/ \E t \in o.antiAffinity : t.namespaceSelector
  \/ \E c \in o.topologySpread : c.refined

\* No node of a pool is given back on a simulation that leaves out a constraint
\* of an object that has to move (scheduling.go:281-285, the honesty valve).
UnknownWithheld ==
  \A v \in Decided :
    (\E p \in ToPlace(v.pool) : BeyondSimulation(input.objects[p])) => v.removable = 0

\* A verdict that nodes may be removed on rests on percentiles that somebody
\* configured and did not decline, of four in five at least of the pods that
\* run in the cluster (resolve.go:23-26, MinCoverage).
ActionableSupported ==
  (\E v \in Decided : v.actionable) =>
    LET running == {p \in DOMAIN input.objects :
                      input.objects[p].phase \notin {"Succeeded", "Failed"} /\ input.objects[p].host # 0}
        known == {p \in running : \E d \in Resources : p \in input.evidence.p95[d]} IN
    /\ input.evidence.url /\ input.evidence.answers
    /\ input.evidence.mode \in {"", "auto", "prometheus"}
    /\ 5 * Cardinality(known) >= 4 * Cardinality(running)

\* A pool that gives nodes back keeps as many as strand an immovable pod, and
\* one more at least to run what has to move (README.md:305).
StrandedStay ==
  \A v \in Decided :
    v.removable > 0 => v.removable + Cardinality(Stranded(v.pool)) + 1 <= v.current

\* Over all pools, what can be removed and what must stay are all there is: a
\* pool without an answer is not taken for one that needs no nodes.
ResultAddsUp == ClusterMinimum + ClusterRemovable = ClusterNodes

=============================================================================
