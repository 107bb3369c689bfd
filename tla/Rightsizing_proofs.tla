------------------------- MODULE Rightsizing_proofs -------------------------
(***************************************************************************)
(* What trims and pull requests do to the requests of workloads, for any   *)
(* policy, targets, scenes and order of events: whoever holds figures that *)
(* are still true uses them within the limits of the policy and leaves the *)
(* pods what they use.                                                     *)
(***************************************************************************)
EXTENDS Rightsizing, Sums

\* The targets file names containers that the workloads have.
ContainersNamed ==
  \A s \in Scenes : \A w \in DOMAIN s.first : \A t \in Targets :
    t.namespace \in {Namespace[w], "*"} /\ t.workload \in {w, "*"}
      => t.container \in {"", "*"} \cup DOMAIN s.first[w]

-----------------------------------------------------------------------------
(* The invariant.                                                          *)

Used(w) == PodRequest(load[w])
Asked(w) == PodRequest(template[w])

Action ==
  [at : DOMAIN Order, workload : Present, rule : Rule,
   container : UNION {Containers(w) : w \in Present}, value : Nat \ {0}, needsOptIn : BOOLEAN]

Pass ==
  [pc : {"idle", "listed", "apply"}, requests : [Present -> Nat],
   usage : [Present -> Nat \cup {None}], metered : [Present -> Nat], labels : BOOLEAN,
   todo : SUBSET Action]

Basis == [Holder -> [Present -> [covers : BOOLEAN, level : BOOLEAN]]]

Finding == [rule : Rule, observed : Nat, request : Nat]

Pull ==
  [stage : {"none", "open", "merged"}, rule : Rule \cup {""},
   container : {""} \cup (UNION {Containers(w) : w \in Present}), value : Nat]

\* The parts of the state keep their types.
Shapes ==
  /\ scene \in Scenes /\ optedIn \in BOOLEAN
  /\ DOMAIN load = Present /\ DOMAIN template = Present /\ DOMAIN manifest = Present
  /\ DOMAIN pods = Present
  /\ \A w \in Present :
       /\ load[w] \in scene.loads[w]
       /\ template[w] \in Requests(w) /\ manifest[w] \in Requests(w)
       /\ pods[w] \in [Pods(w) -> [requests : Requests(w), status : Status]]
  /\ counts \in [Present -> [Rule -> 0..Top]]
  /\ report \in [Present -> SUBSET Finding]
  /\ pull \in [Present -> Pull]
  /\ pass \in Pass
  /\ basis \in Basis

\* A listing: what was measured, while it is true.
ListingTrue(w) ==
  pass.pc = "listed" =>
    /\ basis["pass"][w].covers =>
         pass.usage[w] = IF pass.metered[w] = 0 THEN None ELSE Used(w) * pass.metered[w]
    /\ basis["pass"][w].level => pass.requests[w] = Asked(w) * scene.replicas[w]

\* A planned trim: within the limits, while what it was planned on is true.
TrimTrue(a) ==
  /\ a.container \in Containers(a.workload)
  /\ a.value >= Limits.floor[scene.resource[a.workload]]
  /\ basis["pass"][a.workload].covers =>
       a.value >= (Used(a.workload) * Limits.headroom[1]) \div Limits.headroom[2]
  /\ basis["pass"][a.workload].level =>
       /\ a.value < Asked(a.workload)
       /\ Asked(a.workload) - a.value <= (Asked(a.workload) * Limits.trim[1]) \div Limits.trim[2]

\* A finding: figures of which its rule is true, and of a whole pod.
RuleTrue(f) ==
  LET e == [usage |-> f.observed, request |-> f.request] IN
  /\ f.rule = "cpu-request-over-provisioned" => CPUOver(e)
  /\ f.rule = "memory-request-over-provisioned" => MemoryOver(e)
  /\ f.rule = "memory-request-below-usage" => BelowUsage(e)

FindingTrue(w, f) ==
  /\ RuleTrue(f)
  /\ basis["report"][w].covers => f.observed >= Used(w)
  /\ basis["report"][w].level => f.request = Asked(w)

\* A pull request: the figure of such a finding, in the manifest when merged.
PullTrue(w) ==
  pull[w].stage # "none" =>
    /\ pull[w].rule \in Rule /\ pull[w].container \in Containers(w) /\ pull[w].value > 0
    /\ basis["pull"][w].covers => pull[w].value >= (Used(w) * 5) \div 4
    /\ basis["pull"][w].level =>
         IF IsTrim(pull[w].rule) THEN pull[w].value < Asked(w) ELSE pull[w].value > Asked(w)
    /\ pull[w].stage = "merged" => manifest[w][pull[w].container] = pull[w].value

RightsizingInv ==
  /\ Shapes
  /\ IsFiniteSet(pass.todo) /\ Cardinality(pass.todo) <= Limits.actions
  /\ pass.pc # "apply" => pass.todo = {}
  /\ \A w \in Present : ListingTrue(w) /\ PullTrue(w)
  /\ \A a \in pass.todo : TrimTrue(a)
  /\ \A w \in Present : \A f \in report[w] : FindingTrue(w, f)

-----------------------------------------------------------------------------
(* Whole-number division.                                                  *)

LEMMA Quotient ==
  ASSUME NEW a \in Nat, NEW d \in Nat \ {0}
  PROVE  a \div d \in Nat /\ d * (a \div d) <= a /\ a < d * (a \div d) + d
<1>1. a = d * (a \div d) + (a % d) /\ a % d \in 0..(d - 1) /\ a \div d \in Int
  OBVIOUS
<1> DEFINE q == a \div d
           p == d * q
<1>2. q \in Int /\ p \in Int
  BY <1>1
<1>3. q >= 0
  <2> SUFFICES ASSUME q < 0 PROVE FALSE
    BY <1>2
  <2>1. d * q <= -d
    <3> HIDE DEF q
    <3> QED BY <1>2
  <2> QED BY <1>1, <2>1
<1> QED BY <1>1, <1>3

LEMMA Times ==
  ASSUME NEW a \in Nat, NEW b \in Nat, NEW m \in Nat, a <= b
  PROVE  a * m <= b * m /\ m * a <= m * b
  OBVIOUS

\* A larger number has a larger quotient.
LEMMA DivOrder ==
  ASSUME NEW a \in Nat, NEW b \in Nat, NEW d \in Nat \ {0}, a <= b
  PROVE  a \div d <= b \div d
<1> DEFINE p == a \div d
           q == b \div d
<1>1. p \in Nat /\ q \in Nat /\ d * p <= a /\ b < d * q + d
  BY Quotient
<1> HIDE DEF p, q
<1> SUFFICES ASSUME p >= q + 1 PROVE FALSE
  BY <1>1 DEF p, q
<1>2. d * (q + 1) <= d * p
  BY <1>1, Times
<1>3. d * (q + 1) = d * q + d
  BY <1>1
<1> QED BY <1>1, <1>2, <1>3

\* A product divided by a factor.
LEMMA DivExact ==
  ASSUME NEW m \in Nat \ {0}, NEW u \in Nat
  PROVE  (m * u) \div m = u
<1> DEFINE q == (m * u) \div m
<1>1. q \in Nat /\ m * q <= m * u /\ m * u < m * q + m
  BY Quotient
<1> HIDE DEF q
<1>2. ~(q >= u + 1)
  <2> SUFFICES ASSUME q >= u + 1 PROVE FALSE
    OBVIOUS
  <2>1. m * (u + 1) <= m * q
    BY <1>1, Times
  <2>2. m * (u + 1) = m * u + m
    OBVIOUS
  <2> QED BY <1>1, <2>1, <2>2
<1>3. ~(u >= q + 1)
  <2> SUFFICES ASSUME u >= q + 1 PROVE FALSE
    OBVIOUS
  <2>1. m * (q + 1) <= m * u
    BY <1>1, Times
  <2>2. m * (q + 1) = m * q + m
    BY <1>1
  <2> QED BY <1>1, <2>1, <2>2
<1> QED BY <1>1, <1>2, <1>3 DEF q

-----------------------------------------------------------------------------
(* What a trim is worth.                                                   *)

LEMMA LimitsTypes ==
  /\ Limits.headroom[1] \in Nat \ {0} /\ Limits.headroom[2] \in Nat \ {0}
  /\ Limits.trim[1] \in Nat \ {0} /\ Limits.trim[2] \in Nat \ {0}
  /\ \A r \in Resource : Limits.floor[r] \in Nat \ {0}
  /\ Limits.actions \in Nat \ {0} /\ Top \in Nat \ {0}
<1>1. /\ Policy.headroom[1] \in Nat /\ Policy.headroom[2] \in Nat
      /\ Policy.trim[1] \in Nat /\ Policy.trim[2] \in Nat
      /\ \A r \in Resource : Policy.floor[r] \in Nat
      /\ Policy.actions \in Nat /\ Policy.occurrences \in Nat
  BY PlannerAssumption DEF PlannerAssumption
<1> QED BY <1>1 DEF Limits, Top

LEMMA ProposeFacts ==
  ASSUME NEW u \in Int, NEW c \in Int, NEW h, NEW floor \in Nat \ {0}, NEW t,
         h[1] \in Nat \ {0}, h[2] \in Nat \ {0}, t[1] \in Nat \ {0}, t[2] \in Nat \ {0},
         ProposeRequest(u, c, h, floor, t) > 0
  PROVE  LET v == ProposeRequest(u, c, h, floor, t) IN
         /\ v \in Nat \ {0} /\ v >= floor /\ v < c
         /\ u >= 0 /\ v >= (u * h[1]) \div h[2]
         /\ c - v <= (c * t[1]) \div t[2]
<1> DEFINE x == (u * h[1]) \div h[2]
           y == (c * t[1]) \div t[2]
<1>1. x \in Int /\ y \in Int
  <2>1. u * h[1] \in Int /\ c * t[1] \in Int
    OBVIOUS
  <2> QED BY <2>1
<1>2. ProposeRequest(u, c, h, floor, t) =
        LET target == AtLeast(x, floor)
            proposed == AtLeast(AtLeast(target, c - y), floor)
        IN IF u < 0 \/ c <= 0 \/ target >= c \/ proposed >= c THEN 0 ELSE proposed
  BY DEF ProposeRequest
<1> HIDE DEF x, y
<1>3. LET v == ProposeRequest(u, c, h, floor, t) IN
      v \in Nat \ {0} /\ v >= floor /\ v < c /\ u >= 0 /\ v >= x /\ c - v <= y
  BY <1>1, <1>2 DEF AtLeast
<1> QED BY <1>3 DEF x, y

\* The figure of a pull request leaves a quarter more than what was observed and
\* moves the request the way its rule says, through both roundings.
LEMMA FigureFacts ==
  ASSUME NEW f \in Finding, RuleTrue(f)
  PROVE  /\ Figure(f) \in Nat \ {0}
         /\ Figure(f) >= (f.observed * 5) \div 4
         /\ IF IsTrim(f.rule) THEN Figure(f) < f.request ELSE Figure(f) > f.request
<1> USE DEF Finding, Rule
<1>1. f.observed \in Nat /\ f.request \in Nat
  OBVIOUS
<1>2. CASE f.rule = "cpu-request-over-provisioned"
  BY <1>1, <1>2 DEF RuleTrue, CPUOver, Figure, RoundUp, AtLeast, AtMost, IsTrim
<1>3. CASE f.rule = "memory-request-over-provisioned"
  BY <1>1, <1>3 DEF RuleTrue, MemoryOver, Figure, RoundUp, AtLeast, AtMost, IsTrim
<1>4. CASE f.rule = "memory-request-below-usage"
  BY <1>1, <1>4 DEF RuleTrue, BelowUsage, Figure, RoundUp, AtLeast, AtMost, IsTrim
<1> QED BY <1>2, <1>3, <1>4

-----------------------------------------------------------------------------
(* What the pods of a workload ask for and use together.                   *)

LEMMA PodRequestIsSum == \A r : PodRequest(r) = SumOver(r, DOMAIN r)
BY Zenon DEF PodRequest, TotalOver, SumOver

LEMMA PodRequestNatural ==
  ASSUME NEW C, IsFiniteSet(C), NEW r \in [C -> Nat]
  PROVE  PodRequest(r) \in Nat
<1>1. SumOver(r, C) \in Nat
  BY SumNat
<1> QED BY <1>1, PodRequestIsSum

LEMMA PodRequestOfOne ==
  ASSUME NEW c, NEW r \in [{c} -> Nat]
  PROVE  PodRequest(r) = r[c]
<1>1. SumOver(r, {c}) = r[c] * Cardinality({c})
  <2>1. IsFiniteSet({c})
    BY FS_Singleton, Zenon
  <2>2. c \in {c} /\ \A x \in {c} : r[x] = r[c]
    OBVIOUS
  <2>3. r[c] \in Int
    BY <2>2
  <2> QED BY <2>1, <2>2, <2>3, SumEqual
<1>2. Cardinality({c}) = 1 /\ r[c] \in Nat
  BY FS_Singleton
<1> QED BY <1>1, <1>2, PodRequestIsSum

LEMMA SceneFacts ==
  ASSUME Shapes, NEW w \in Present
  PROVE  /\ IsFiniteSet(Containers(w)) /\ scene.replicas[w] \in Nat \ {0}
         /\ scene.resource[w] \in Resource /\ w \in Workloads
         /\ Used(w) \in Nat /\ Asked(w) \in Nat
         /\ IsFiniteSet(Pods(w)) /\ Cardinality(Pods(w)) = scene.replicas[w]
         /\ Len(pods[w]) = scene.replicas[w] /\ DOMAIN pods[w] = Pods(w)
<1>1. SceneOK(scene)
  BY RightsizingAssumption DEF RightsizingAssumption, Shapes
<1>2. /\ IsFiniteSet(Containers(w)) /\ scene.replicas[w] \in Nat \ {0}
      /\ scene.resource[w] \in Resource /\ w \in Workloads
      /\ scene.loads[w] \subseteq [Containers(w) -> Nat]
  BY <1>1 DEF SceneOK, Present, Containers
<1>3. load[w] \in [Containers(w) -> Nat] /\ template[w] \in [Containers(w) -> Nat]
  BY <1>2 DEF Shapes, Requests
<1>4. Used(w) \in Nat /\ Asked(w) \in Nat
  BY <1>2, <1>3, PodRequestNatural DEF Used, Asked
<1>5. IsFiniteSet(Pods(w)) /\ Cardinality(Pods(w)) = scene.replicas[w]
  <2> DEFINE m == scene.replicas[w]
  <2>1. m \in Nat \ {0}
    BY <1>2
  <2> HIDE DEF m
  <2>2. IsFiniteSet(1..m) /\ Cardinality(1..m) = m
    BY <2>1, FS_Interval
  <2> QED BY <2>2 DEF m, Pods
<1>6. Len(pods[w]) = scene.replicas[w] /\ DOMAIN pods[w] = Pods(w)
  BY <1>2 DEF Shapes, Pods
<1> QED BY <1>2, <1>4, <1>5, <1>6

\* The aggregates of a listing: what the measured pods use, and what all ask for.
LEMMA MeasuredFacts ==
  ASSUME Shapes, NEW w \in Present
  PROVE  /\ Measured(w).requests \in Nat
         /\ NumberOf(w, Metered) \in Nat
         /\ Measured(w).usage = IF NumberOf(w, Metered) = 0 THEN None
                                ELSE Used(w) * NumberOf(w, Metered)
         /\ (\A i \in Pods(w) : pods[w][i].requests = template[w])
              => Measured(w).requests = Asked(w) * scene.replicas[w]
<1> DEFINE asks == [i \in Pods(w) |-> PodRequest(pods[w][i].requests)]
           uses == [i \in Pods(w) |-> IF pods[w][i].status \in Metered THEN Used(w) ELSE None]
           seen == {i \in Pods(w) : pods[w][i].status \in Metered}
<1>1. /\ IsFiniteSet(Pods(w)) /\ Cardinality(Pods(w)) = scene.replicas[w]
      /\ DOMAIN pods[w] = Pods(w) /\ Used(w) \in Nat /\ Asked(w) \in Nat
      /\ scene.replicas[w] \in Nat /\ IsFiniteSet(Containers(w))
  BY SceneFacts
<1>2. Measured(w) = Aggregate([i \in Pods(w) |-> Listed(w, i)])
  BY <1>1 DEF Measured
<1>3. /\ Measured(w).requests = TotalOver(asks, Pods(w))
      /\ Measured(w).usage = Observed(uses)
  BY <1>2 DEF Aggregate, Listed, Used
<1>4. \A f, S : TotalOver(f, S) = SumOver(f, S)
  BY Zenon DEF TotalOver, SumOver
<1>5. \A i \in Pods(w) : asks[i] \in Nat
  BY <1>1, PodRequestNatural DEF Shapes, Requests
<1>6. SumOver(asks, Pods(w)) \in Nat
  <2> HIDE DEF asks
  <2> QED BY <1>1, <1>5, SumNat
<1>7. IsFiniteSet(seen) /\ Cardinality(seen) \in Nat /\ NumberOf(w, Metered) = Cardinality(seen)
  <2>1. IsFiniteSet(seen)
    BY <1>1, FS_Subset
  <2>2. NumberOf(w, Metered) = Cardinality(seen)
    BY <1>1 DEF NumberOf
  <2> QED BY <2>1, <2>2, FS_CardinalityType
<1>8. Observed(uses) = IF seen = {} THEN None ELSE SumOver(uses, seen)
  <2>1. {i \in DOMAIN uses : uses[i] # None} = seen
    BY <1>1 DEF None
  <2> HIDE DEF uses, seen
  <2> QED BY <1>4, <2>1 DEF Observed
<1>9. SumOver(uses, seen) = Used(w) * Cardinality(seen)
  <2>1. \A i \in seen : uses[i] = Used(w)
    OBVIOUS
  <2> HIDE DEF uses, seen
  <2> QED BY <1>1, <1>7, <2>1, SumEqual
<1>10. ASSUME \A i \in Pods(w) : pods[w][i].requests = template[w]
       PROVE  SumOver(asks, Pods(w)) = Asked(w) * scene.replicas[w]
  <2>1. \A i \in Pods(w) : asks[i] = Asked(w)
    BY <1>10 DEF Asked
  <2> HIDE DEF asks
  <2> QED BY <1>1, <2>1, SumEqual
<1> HIDE DEF asks, uses, seen
<1>11. seen = {} <=> NumberOf(w, Metered) = 0
  BY <1>7, FS_EmptySet
<1> QED BY <1>3, <1>4, <1>6, <1>7, <1>8, <1>9, <1>10, <1>11

-----------------------------------------------------------------------------
(* What an analysis finds and plans.                                       *)

\* What the figures of a pass are worth when it analyses them.
Covering(w) == basis["pass"][w].covers /\ pass.metered[w] >= Workload(w).replicas
Level(w) == basis["pass"][w].level /\ Workload(w).replicas = Len(pods[w])

LEMMA NumberOfNatural ==
  ASSUME Shapes, NEW w \in Present, NEW statuses
  PROVE  NumberOf(w, statuses) \in Nat
<1>1. {i \in DOMAIN pods[w] : pods[w][i].status \in statuses} \in SUBSET Pods(w) /\ IsFiniteSet(Pods(w))
  BY SceneFacts
<1> QED BY <1>1, FS_Subset, FS_CardinalityType DEF NumberOf

LEMMA PerReplicaFacts ==
  ASSUME Shapes, NEW w \in Present, ListingTrue(w), pass.pc = "listed",
         Workload(w).replicas >= 1, Workload(w).usage # None
  PROVE  LET e == PerReplica(Workload(w)) IN
         /\ e.usage \in Nat /\ e.request \in Nat
         /\ Covering(w) => e.usage >= Used(w)
         /\ Level(w) => e.request = Asked(w)
<1> DEFINE r == Workload(w).replicas
           e == PerReplica(Workload(w))
<1>1. /\ r = NumberOf(w, Ready) /\ Workload(w).requests = pass.requests[w]
      /\ Workload(w).usage = pass.usage[w]
  BY DEF Workload
<1>2. /\ r \in Nat \ {0} /\ pass.requests[w] \in Nat /\ pass.usage[w] \in Nat
      /\ pass.metered[w] \in Nat /\ Used(w) \in Nat /\ Asked(w) \in Nat
  BY <1>1, NumberOfNatural, SceneFacts DEF Shapes, Pass
<1>3. e.usage = pass.usage[w] \div r /\ e.request = pass.requests[w] \div r
  BY <1>1 DEF PerReplica
<1>4. e.usage \in Nat /\ e.request \in Nat
  <2> HIDE DEF r, e
  <2> QED BY <1>2, <1>3, Quotient
<1>5. ASSUME Covering(w) PROVE e.usage >= Used(w)
  <2>1. pass.usage[w] = Used(w) * pass.metered[w] /\ pass.metered[w] >= r
    BY <1>1, <1>2, <1>5 DEF Covering, ListingTrue
  <2> HIDE DEF r, e
  <2>2. r * Used(w) <= pass.usage[w] /\ r * Used(w) \in Nat
    BY <1>2, <2>1, Times
  <2>3. (r * Used(w)) \div r <= pass.usage[w] \div r
    BY <1>2, <2>2, DivOrder
  <2>4. (r * Used(w)) \div r = Used(w)
    BY <1>2, DivExact
  <2> QED BY <1>3, <2>3, <2>4
<1>6. ASSUME Level(w) PROVE e.request = Asked(w)
  <2>1. pass.requests[w] = Asked(w) * r
    BY <1>6, SceneFacts DEF Level, ListingTrue
  <2> HIDE DEF r, e
  <2>2. pass.requests[w] = r * Asked(w)
    BY <1>2, <2>1
  <2> QED BY <1>2, <1>3, <2>2, DivExact
<1> QED BY <1>4, <1>5, <1>6

LEMMA FoundFacts ==
  ASSUME Shapes, NEW w \in Present, ListingTrue(w), pass.pc = "listed", NEW f \in Found(w)
  PROVE  /\ f \in Finding /\ RuleTrue(f)
         /\ Covering(w) => f.observed >= Used(w)
         /\ Level(w) => f.request = Asked(w)
<1> DEFINE e == PerReplica(Workload(w))
<1>1. Workload(w).replicas \in Nat
  BY NumberOfNatural DEF Workload
<1>2. Workload(w).replicas >= 1 /\ Workload(w).usage # None
  BY <1>1 DEF Found, Findings
<1>3. /\ e.usage \in Nat /\ e.request \in Nat
      /\ Covering(w) => e.usage >= Used(w)
      /\ Level(w) => e.request = Asked(w)
  BY <1>2, PerReplicaFacts
<1>4. /\ f \in [rule : Rule, observed : {e.usage}, request : {e.request}]
      /\ f.rule = "cpu-request-over-provisioned" => CPUOver(e)
      /\ f.rule = "memory-request-over-provisioned" => MemoryOver(e)
      /\ f.rule = "memory-request-below-usage" => BelowUsage(e)
  BY DEF Found, Findings, Rule
<1>5. [usage |-> f.observed, request |-> f.request] = e
  BY <1>4 DEF PerReplica
<1> HIDE DEF e
<1> QED BY <1>3, <1>4, <1>5 DEF Finding, RuleTrue

\* At most one of the findings on a workload asks for a trim.
LEMMA OneTrim ==
  ASSUME NEW w, NEW f \in Found(w), NEW g \in Found(w), IsTrim(f.rule), IsTrim(g.rule)
  PROVE  f.rule = g.rule
BY DEF Found, Findings, IsTrim

LEMMA SequenceOf ==
  ASSUME NEW P, NEW s \in Seq(P)
  PROVE  DOMAIN s \subseteq Nat /\ \A i \in DOMAIN s : s[i] \in P
OBVIOUS

\* The keys of a lookup are for the workload and its namespace, or for any.
LEMMA KeysFit ==
  ASSUME NEW namespace, NEW w, NEW optedInNow
  PROVE  Keys(namespace, w, optedInNow) \in Seq({namespace, "*"} \X {w, "*"})
<1> DEFINE P == {namespace, "*"} \X {w, "*"}
           a == <<namespace, w>>
           b == <<namespace, "*">>
           c == <<"*", w>>
           d == <<"*", "*">>
<1>1. a \in P /\ b \in P /\ c \in P /\ d \in P
  OBVIOUS
<1>2. Keys(namespace, w, optedInNow) = <<a, b>> \o (IF optedInNow THEN <<c, d>> ELSE <<>>)
  BY DEF Keys
<1> HIDE DEF P, a, b, c, d
<1>3. Keys(namespace, w, optedInNow) \in Seq(P)
  <2>1. <<a, b>> \in Seq(P) /\ <<c, d>> \in Seq(P) /\ <<>> \in Seq(P)
    BY <1>1
  <2> QED BY <1>2, <2>1
<1> QED BY <1>3 DEF P

LEMMA ContainerFacts ==
  ASSUME ContainersNamed, Shapes, NEW w \in Present, NEW rule, Container(w, rule) # ""
  PROVE  Container(w, rule) \in Containers(w)
<1> DEFINE keys == Keys(Namespace[w], w, pass.labels)
           naming == FirstEntry(keys, {t \in Targets : t.container # ""})
           named == TargetOf(w, rule).container
<1>1. named = IF naming = {} THEN "" ELSE (CHOOSE t \in naming : TRUE).container
  BY DEF TargetOf, TargetForRule
<1>2. CASE named = "*"
  BY <1>2 DEF Container, TargetContainer
<1>3. CASE named # "*"
  <2>1. Container(w, rule) = named /\ named # ""
    BY <1>3 DEF Container, TargetContainer
  <2>2. PICK t \in naming : t.container = named
    BY <1>1, <2>1
  <2> DEFINE pairs == {Namespace[w], "*"} \X {w, "*"}
  <2>3. keys \in Seq(pairs)
    BY KeysFit
  <2>4. DOMAIN keys \subseteq Nat /\ \A i \in DOMAIN keys : keys[i] \in pairs
    <3> HIDE DEF pairs, keys
    <3> QED BY <2>3, SequenceOf
  <2>5. \E i \in DOMAIN keys : t \in EntryAt(keys[i])
    <3> DEFINE hits == {i \in DOMAIN keys : EntryAt(keys[i]) \cap {u \in Targets : u.container # ""} # {}}
    <3>1. hits # {} /\ naming = EntryAt(keys[Min(hits)])
      BY <2>2 DEF FirstEntry
    <3>2. Min(hits) \in hits
      <4>1. hits \in SUBSET Nat
        BY <2>4
      <4> HIDE DEF hits
      <4> QED BY <3>1, <4>1, LeastNatural DEF Min
    <3> QED BY <2>2, <3>1, <3>2
  <2>6. t \in Targets /\ t.namespace \in {Namespace[w], "*"} /\ t.workload \in {w, "*"}
    BY <2>4, <2>5 DEF EntryAt
  <2>7. scene \in Scenes /\ w \in DOMAIN scene.first
    BY DEF Shapes, Present
  <2> QED BY <1>3, <2>1, <2>2, <2>6, <2>7 DEF ContainersNamed, Containers
<1> QED BY <1>2, <1>3

\* What is planned for a workload, on the figures of the pass.
LEMMA PlanFacts ==
  ASSUME ContainersNamed, Shapes, pass.pc = "listed",
         NEW i \in InScene, ListingTrue(Order[i]), NEW a \in PlanFor(i)
  PROVE  LET w == Order[i] IN
         /\ a \in Action /\ a.at = i /\ a.workload = w
         /\ a.container \in Containers(w)
         /\ a.value >= Limits.floor[scene.resource[w]]
         /\ Covering(w) => a.value >= (Used(w) * Limits.headroom[1]) \div Limits.headroom[2]
         /\ Level(w) => /\ a.value < Asked(w)
                        /\ Asked(w) - a.value <= (Asked(w) * Limits.trim[1]) \div Limits.trim[2]
<1> DEFINE w == Order[i]
           e == PerReplica(Workload(w))
           floor == Limits.floor[scene.resource[w]]
<1>1. w \in Present /\ i \in DOMAIN Order
  BY DEF InScene
<1>2. PICK f \in Found(w) :
        /\ Plannable(w, f.rule)
        /\ a = [at |-> i, workload |-> w, rule |-> f.rule, container |-> Container(w, f.rule),
                value |-> Trim(w), needsOptIn |-> TargetOf(w, f.rule).needsOptIn]
  BY DEF PlanFor
<1>3. f.rule \in Rule /\ Container(w, f.rule) \in Containers(w) /\ Trim(w) > 0
  BY <1>1, <1>2, FoundFacts, ContainerFacts DEF Plannable, Finding
<1>4. /\ Workload(w).replicas >= 1 /\ Workload(w).usage # None
      /\ Trim(w) = ProposeRequest(e.usage, e.request, Limits.headroom, floor, Limits.trim)
  <2>1. Workload(w).replicas \in Nat
    BY <1>1, NumberOfNatural DEF Workload
  <2> QED BY <1>3, <2>1 DEF Trim, RequestTrim
<1>5. /\ e.usage \in Nat /\ e.request \in Nat
      /\ Covering(w) => e.usage >= Used(w)
      /\ Level(w) => e.request = Asked(w)
  BY <1>1, <1>4, PerReplicaFacts
<1>6. floor \in Nat \ {0} /\ Used(w) \in Nat
  BY <1>1, LimitsTypes, SceneFacts
<1> DEFINE v == Trim(w)
           h == Limits.headroom
           t == Limits.trim
<1>7. h[1] \in Nat \ {0} /\ h[2] \in Nat \ {0} /\ t[1] \in Nat \ {0} /\ t[2] \in Nat \ {0}
  BY LimitsTypes
<1>8. /\ v \in Nat \ {0} /\ v >= floor /\ v < e.request
      /\ v >= (e.usage * h[1]) \div h[2]
      /\ e.request - v <= (e.request * t[1]) \div t[2]
  <2>1. v = ProposeRequest(e.usage, e.request, h, floor, t) /\ v > 0
    BY <1>3, <1>4
  <2> DEFINE u == e.usage
             c == e.request
  <2>2. u \in Int /\ c \in Int /\ v = ProposeRequest(u, c, h, floor, t) /\ v > 0
    BY <1>5, <2>1
  <2>3. /\ v \in Nat \ {0} /\ v >= floor /\ v < c
        /\ v >= (u * h[1]) \div h[2] /\ c - v <= (c * t[1]) \div t[2]
    <3> HIDE DEF u, c, e, floor, h, t, v
    <3> QED BY <1>6, <1>7, <2>2, ProposeFacts
  <2> QED BY <2>3
<1>9. ASSUME Covering(w) PROVE v >= (Used(w) * h[1]) \div h[2]
  <2> HIDE DEF e, floor, h, t, v
  <2>1. Used(w) * h[1] <= e.usage * h[1] /\ Used(w) * h[1] \in Nat /\ e.usage * h[1] \in Nat
    BY <1>5, <1>6, <1>7, <1>9, Times
  <2>2. (Used(w) * h[1]) \div h[2] <= (e.usage * h[1]) \div h[2]
    BY <1>7, <2>1, DivOrder
  <2>3. (Used(w) * h[1]) \div h[2] \in Nat /\ (e.usage * h[1]) \div h[2] \in Nat
    BY <1>7, <2>1, Quotient
  <2> QED BY <1>8, <2>2, <2>3
<1>10. TargetOf(w, f.rule).needsOptIn \in BOOLEAN
  BY DEF TargetOf, TargetForRule
<1>11. a \in Action
  <2> HIDE DEF v, w
  <2>1. v \in Nat \ {0}
    BY <1>8
  <2> QED BY <1>1, <1>2, <1>3, <1>10, <2>1 DEF Action, v
<1>12. /\ a.at = i /\ a.workload = w /\ a.container \in Containers(w) /\ a.value = v
  BY <1>2, <1>3
<1> HIDE DEF e, v
<1> QED BY <1>5, <1>8, <1>9, <1>11, <1>12

LEMMA OnePlan ==
  ASSUME NEW i, NEW a \in PlanFor(i), NEW b \in PlanFor(i)
  PROVE  a = b
BY OneTrim DEF PlanFor, Plannable

\* The first places of a set are as many as there may be actions.
LEMMA FirstFew ==
  ASSUME NEW m \in Nat, NEW P \in SUBSET (1..m)
  PROVE  IsFiniteSet(FirstOf(P)) /\ Cardinality(FirstOf(P)) <= Limits.actions
<1> DEFINE S == FirstOf(P)
<1>1. IsFiniteSet(P) /\ \A T \in SUBSET P : IsFiniteSet(T) /\ Cardinality(T) \in Nat
  <2>1. IsFiniteSet(1..m)
    BY FS_Interval
  <2>2. IsFiniteSet(P)
    BY <2>1, FS_Subset
  <2> QED BY <2>2, FS_Subset, FS_CardinalityType
<1>2. S \in SUBSET P /\ \A i \in S : i \in Nat
  <2>1. \A i \in P : i \in 1..m
    OBVIOUS
  <2>2. \A i \in 1..m : i \in Nat
    OBVIOUS
  <2>3. \A i \in S : i \in P
    BY DEF FirstOf
  <2> HIDE DEF S
  <2> QED BY <2>1, <2>2, <2>3
<1>3. CASE S = {}
  BY <1>3, FS_EmptySet, LimitsTypes
<1>4. CASE S # {}
  <2>1. PICK k \in S : \A i \in S : i <= k
    <3> DEFINE above == {m - i : i \in S}
    <3>1. above \in SUBSET Nat /\ above # {}
      <4>1. \A i \in S : i \in 1..m
        BY <1>2
      <4> HIDE DEF S
      <4> QED BY <4>1, <1>4
    <3>2. PICK x \in above : \A y \in above : x <= y
      <4> HIDE DEF above
      <4> QED BY <3>1, LeastNatural
    <3>3. PICK k \in S : x = m - k
      BY <3>2
    <3>4. \A i \in S : m - k <= m - i
      BY <3>2, <3>3
    <3>5. \A i \in S : i \in Int
      <4> HIDE DEF S, above
      <4> QED BY <1>2
    <3> HIDE DEF S, above
    <3> QED BY <3>3, <3>4, <3>5
  <2> DEFINE T == {j \in P : j < k}
  <2>2. Cardinality(T) < Limits.actions
    BY <2>1 DEF FirstOf
  <2>3. S \subseteq T \cup {k}
    <3> HIDE DEF S
    <3>1. \A i \in S : i \in P /\ i \in Nat
      BY <1>2
    <3>2. \A i \in S : i = k \/ i < k
      BY <2>1, <3>1
    <3> QED BY <3>1, <3>2
  <2>4. IsFiniteSet(T \cup {k}) /\ Cardinality(T \cup {k}) <= Cardinality(T) + 1
    <3>1. IsFiniteSet(T) /\ Cardinality(T) \in Nat
      BY <1>1
    <3> HIDE DEF T
    <3> QED BY <3>1, FS_AddElement
  <2>5. IsFiniteSet(S) /\ Cardinality(S) <= Cardinality(T \cup {k})
    <3> HIDE DEF S, T
    <3> QED BY <2>3, <2>4, FS_Subset
  <2>6. Cardinality(S) \in Nat /\ Cardinality(T) \in Nat /\ Cardinality(T \cup {k}) \in Nat
    <3>1. T \in SUBSET P
      OBVIOUS
    <3> HIDE DEF S, T
    <3> QED BY <1>1, <1>2, <2>4, <3>1, FS_CardinalityType
  <2> HIDE DEF T, S
  <2> QED BY <2>2, <2>4, <2>5, <2>6, LimitsTypes DEF S
<1> QED BY <1>3, <1>4

\* A plan has as many actions as the policy allows.
LEMMA BuildFew ==
  ASSUME \A i \in InScene : \A a \in PlanFor(i) : a.at = i
  PROVE  IsFiniteSet(Build) /\ Cardinality(Build) <= Limits.actions
<1> DEFINE P == {i \in InScene : PlanFor(i) # {}}
           F == FirstOf(P)
           place == [a \in Build |-> a.at]
<1>1. P \in SUBSET (1..Len(Order)) /\ Len(Order) \in Nat
  BY RightsizingAssumption DEF RightsizingAssumption, InScene
<1>2. IsFiniteSet(F) /\ Cardinality(F) <= Limits.actions
  <2> HIDE DEF P
  <2> QED BY <1>1, FirstFew
<1>3. F \subseteq InScene
  BY DEF FirstOf
<1>4. Build = UNION {PlanFor(i) : i \in F}
  BY DEF Build
<1>5. \A a \in Build : a.at \in F /\ a \in PlanFor(a.at)
  <2> HIDE DEF F
  <2> QED BY <1>3, <1>4
<1>6. place \in Injection(Build, F)
  <2> HIDE DEF F
  <2>1. place \in [Build -> F]
    BY <1>5
  <2>2. \A a, b \in Build : a.at = b.at => a = b
    BY <1>5, OnePlan
  <2> QED BY <2>1, <2>2 DEF Injection, IsInjective
<1>7. IsFiniteSet(Build) /\ Cardinality(Build) <= Cardinality(F)
  <2> HIDE DEF F, place
  <2> QED BY <1>2, <1>6, FS_Injection
<1>8. Cardinality(Build) \in Nat /\ Cardinality(F) \in Nat
  BY <1>2, <1>7, FS_CardinalityType
<1> QED BY <1>2, <1>7, <1>8, LimitsTypes

-----------------------------------------------------------------------------
(* The steps.                                                              *)

LEMMA NoPullShape == NoPull \in Pull /\ NoPull.stage = "none"
<1> DEFINE C == UNION {Containers(w) : w \in Present}
<1>1. Pull = [stage : {"none", "open", "merged"}, rule : Rule \cup {""},
              container : {""} \cup C, value : Nat]
  BY DEF Pull
<1> HIDE DEF C
<1> QED BY <1>1 DEF NoPull

LEMMA InitInv ==
  ASSUME Init
  PROVE  RightsizingInv
<1>1. scene \in Scenes /\ SceneOK(scene)
  BY RightsizingAssumption DEF RightsizingAssumption, Init
<1>2. Idle \in Pass /\ Idle.todo = {} /\ Idle.pc = "idle"
  BY DEF Idle, Pass, None
<1>3. counts \in [Present -> [Rule -> 0..Top]]
  BY LimitsTypes DEF Init
<1>4. report \in [Present -> SUBSET Finding] /\ pull \in [Present -> Pull] /\ basis \in Basis
  <2>1. report \in [Present -> SUBSET Finding] /\ pull \in [Present -> Pull]
    BY NoPullShape DEF Init
  <2>2. NoBasis \in [Present -> [covers : BOOLEAN, level : BOOLEAN]]
    BY DEF NoBasis, Nothing
  <2> QED BY <2>1, <2>2 DEF Init, Basis
<1>5. ASSUME NEW w \in Present
      PROVE  /\ load[w] \in scene.loads[w]
             /\ template[w] \in Requests(w) /\ manifest[w] \in Requests(w)
             /\ pods[w] \in [Pods(w) -> [requests : Requests(w), status : Status]]
  <2>1. scene.first[w] \in Requests(w)
    BY <1>1 DEF SceneOK, Requests, Containers, Present
  <2>2. pods[w] = [i \in Pods(w) |-> [requests |-> scene.first[w], status |-> "up"]]
    BY DEF Init, Pods
  <2>3. pods[w] \in [Pods(w) -> [requests : Requests(w), status : Status]]
    BY <2>1, <2>2 DEF Status
  <2> QED BY <2>1, <2>3 DEF Init
<1>6. /\ DOMAIN load = Present /\ DOMAIN template = Present /\ DOMAIN manifest = Present
      /\ DOMAIN pods = Present
  BY DEF Init, Present
<1>7. Shapes
  BY <1>1, <1>2, <1>3, <1>4, <1>5, <1>6 DEF Shapes, Init
<1>8. IsFiniteSet(pass.todo) /\ Cardinality(pass.todo) <= Limits.actions
  BY <1>2, FS_EmptySet, LimitsTypes DEF Init
<1>9. \A w \in Present : ListingTrue(w) /\ PullTrue(w) /\ report[w] = {}
  BY <1>2 DEF Init, ListingTrue, PullTrue, NoPull
<1> QED BY <1>2, <1>7, <1>8, <1>9 DEF RightsizingInv, Init

\* What depends on the scene stays, for the scene does.
LEMMA SameScene ==
  ASSUME scene' = scene
  PROVE  /\ Present' = Present /\ Pass' = Pass /\ Pull' = Pull /\ Basis' = Basis
         /\ \A w : /\ Containers(w)' = Containers(w) /\ Requests(w)' = Requests(w)
                  /\ Pods(w)' = Pods(w)
         /\ \A w : load'[w] = load[w] => Used(w)' = Used(w)
         /\ \A w : template'[w] = template[w] => Asked(w)' = Asked(w)
<1>1. Present' = Present /\ \A w : Containers(w)' = Containers(w)
  BY DEF Present, Containers
<1>2. Action' = Action
  BY <1>1 DEF Action
<1>3. Pass' = Pass
  BY <1>1, <1>2 DEF Pass
<1>4. Pull' = Pull
  BY <1>1 DEF Pull
<1>5. Basis' = Basis
  BY <1>1 DEF Basis
<1>6. \A w : Requests(w)' = Requests(w) /\ Pods(w)' = Pods(w)
  BY <1>1 DEF Requests, Pods
<1>7. \A w : load'[w] = load[w] => Used(w)' = Used(w)
  BY DEF Used
<1>8. \A w : template'[w] = template[w] => Asked(w)' = Asked(w)
  BY DEF Asked
<1> QED BY <1>1, <1>3, <1>4, <1>5, <1>6, <1>7, <1>8

\* A holder's figures on w are no truer after a step than before it.
Weaker(h, w) ==
  /\ basis'[h][w].covers => basis[h][w].covers /\ Used(w)' = Used(w)
  /\ basis'[h][w].level => basis[h][w].level /\ Asked(w)' = Asked(w)

\* So what is claimed of them stays true: for the process,
LEMMA PassKept ==
  ASSUME RightsizingInv, scene' = scene, \A w \in Present : Weaker("pass", w),
         \/ pass' = pass
         \/ /\ pass'.pc # "listed" /\ pass'.todo \subseteq pass.todo
            /\ pass'.pc # "apply" => pass'.todo = {}
  PROVE  /\ pass'.pc # "apply" => pass'.todo = {}
         /\ IsFiniteSet(pass'.todo) /\ Cardinality(pass'.todo) <= Limits.actions
         /\ \A w \in Present : ListingTrue(w)'
         /\ \A a \in pass'.todo : TrimTrue(a)'
<1>1. /\ IsFiniteSet(pass.todo) /\ Cardinality(pass.todo) <= Limits.actions
      /\ pass.todo \subseteq Action
  BY DEF RightsizingInv, Shapes, Pass
<1>2. pass'.todo \subseteq pass.todo
  OBVIOUS
<1>3. IsFiniteSet(pass'.todo) /\ Cardinality(pass'.todo) <= Limits.actions
  <2>1. /\ IsFiniteSet(pass'.todo) /\ Cardinality(pass'.todo) <= Cardinality(pass.todo)
    BY <1>1, <1>2, FS_Subset
  <2>2. Cardinality(pass'.todo) \in Nat /\ Cardinality(pass.todo) \in Nat
    BY <1>1, <2>1, FS_CardinalityType
  <2> QED BY <1>1, <2>1, <2>2, LimitsTypes
<1>4. ASSUME NEW w \in Present PROVE ListingTrue(w)'
  <2>1. CASE pass' = pass
    BY <2>1 DEF RightsizingInv, ListingTrue, Weaker
  <2>2. CASE pass'.pc # "listed"
    BY <2>2 DEF ListingTrue
  <2> QED BY <2>1, <2>2
<1>5. ASSUME NEW a \in pass'.todo PROVE TrimTrue(a)'
  <2>1. TrimTrue(a) /\ a.workload \in Present
    BY <1>1, <1>2 DEF RightsizingInv, Action
  <2>2. Weaker("pass", a.workload) /\ Containers(a.workload)' = Containers(a.workload)
    BY <2>1, SameScene
  <2> QED BY <2>1, <2>2 DEF TrimTrue, Weaker
<1> QED BY <1>3, <1>4, <1>5 DEF RightsizingInv

\* for the report,
LEMMA ReportKept ==
  ASSUME RightsizingInv, scene' = scene, report' = report, \A w \in Present : Weaker("report", w)
  PROVE  \A w \in Present : \A f \in report'[w] : FindingTrue(w, f)'
<1> SUFFICES ASSUME NEW w \in Present, NEW f \in report[w]
             PROVE  FindingTrue(w, f)'
  OBVIOUS
<1>1. FindingTrue(w, f) /\ Weaker("report", w)
  BY DEF RightsizingInv
<1>2. RuleTrue(f)' <=> RuleTrue(f)
  BY DEF RuleTrue, CPUOver, MemoryOver, BelowUsage
<1> QED BY <1>1, <1>2 DEF FindingTrue, Weaker

\* and for a pull request.
LEMMA PullKept ==
  ASSUME RightsizingInv, scene' = scene, NEW w \in Present, Weaker("pull", w),
         pull'[w] = pull[w], manifest'[w] = manifest[w]
  PROVE  PullTrue(w)'
<1>1. PullTrue(w) /\ Containers(w)' = Containers(w)
  BY SameScene DEF RightsizingInv
<1> QED BY <1>1 DEF PullTrue, Weaker, IsTrim

\* Where neither load nor template changes, figures are no truer as long as
\* nothing new is claimed of them.
LEMMA NothingClaimed ==
  ASSUME scene' = scene, NEW w, load'[w] = load[w], template'[w] = template[w], NEW h,
         basis'[h][w].covers => basis[h][w].covers,
         basis'[h][w].level => basis[h][w].level
  PROVE  Weaker(h, w)
BY SameScene DEF Weaker

LEMMA AllKept ==
  ASSUME RightsizingInv, Shapes', scene' = scene, \A h \in Holder, w \in Present : Weaker(h, w),
         \/ pass' = pass
         \/ /\ pass'.pc # "listed" /\ pass'.todo \subseteq pass.todo
            /\ pass'.pc # "apply" => pass'.todo = {},
         report' = report, pull' = pull, manifest' = manifest
  PROVE  RightsizingInv'
<1>1. Present' = Present
  BY SameScene
<1>2. \A w \in Present : Weaker("pass", w) /\ Weaker("report", w) /\ Weaker("pull", w)
  BY DEF Holder
<1>3. /\ IsFiniteSet(pass'.todo) /\ Cardinality(pass'.todo) <= Limits.actions
      /\ pass'.pc # "apply" => pass'.todo = {}
      /\ \A w \in Present : ListingTrue(w)'
      /\ \A a \in pass'.todo : TrimTrue(a)'
  BY <1>2, PassKept
<1>4. \A w \in Present : \A f \in report'[w] : FindingTrue(w, f)'
  BY <1>2, ReportKept
<1>5. \A w \in Present : PullTrue(w)'
  BY <1>2, PullKept
<1> QED BY <1>1, <1>3, <1>4, <1>5 DEF RightsizingInv

\* Steps that leave the shapes of most of the state as they are.
LEMMA ShapesKept ==
  ASSUME Shapes, scene' = scene, optedIn' \in BOOLEAN, load' = load,
         template' = template, manifest' = manifest, pods' = pods, counts' = counts,
         report' = report, pull' = pull, pass' \in Pass, basis' \in Basis
  PROVE  Shapes'
BY SameScene DEF Shapes

LEMMA NoBasisShape ==
  /\ NoBasis \in [Present -> [covers : BOOLEAN, level : BOOLEAN]]
  /\ \A w \in Present : NoBasis[w].covers = FALSE /\ NoBasis[w].level = FALSE
  /\ Idle \in Pass /\ Idle.pc = "idle" /\ Idle.todo = {}
<1>1. NoBasis \in [Present -> [covers : BOOLEAN, level : BOOLEAN]]
  BY DEF NoBasis, Nothing
<1> QED BY <1>1 DEF NoBasis, Nothing, Idle, Pass, None

LEMMA ListPodsStep ==
  ASSUME RightsizingInv, ListPods
  PROVE  RightsizingInv'
<1> DEFINE level(w) == \A i \in DOMAIN pods[w] :
                          pods[w][i].status \in Ready /\ pods[w][i].requests = template[w]
           now == [w \in Present |-> [covers |-> TRUE, level |-> level(w)]]
<1>1. /\ Shapes /\ pass.pc = "idle" /\ scene' = scene /\ load' = load /\ optedIn' = optedIn
      /\ template' = template /\ manifest' = manifest /\ pods' = pods /\ counts' = counts
      /\ report' = report /\ pull' = pull /\ basis' = [basis EXCEPT !["pass"] = now]
  BY DEF RightsizingInv, ListPods, world
<1>2. PICK silent \in BOOLEAN :
        pass' = [pass EXCEPT
            !.pc = "listed", !.labels = optedIn,
            !.requests = [w \in Present |-> Measured(w).requests],
            !.usage = [w \in Present |-> IF silent THEN None ELSE Measured(w).usage],
            !.metered = [w \in Present |-> IF silent THEN 0 ELSE NumberOf(w, Metered)]]
  BY DEF ListPods
<1>3. pass \in Pass /\ basis \in Basis /\ optedIn \in BOOLEAN
  BY <1>1 DEF Shapes
<1>4. /\ pass'.pc = "listed" /\ pass'.labels = optedIn /\ pass'.todo = pass.todo
      /\ pass'.requests = [w \in Present |-> Measured(w).requests]
      /\ pass'.usage = [w \in Present |-> IF silent THEN None ELSE Measured(w).usage]
      /\ pass'.metered = [w \in Present |-> IF silent THEN 0 ELSE NumberOf(w, Metered)]
      /\ DOMAIN pass' = DOMAIN pass
  BY <1>2, <1>3 DEF Pass
<1>5. \A w \in Present :
        /\ Measured(w).requests \in Nat /\ NumberOf(w, Metered) \in Nat
        /\ Measured(w).usage \in Nat \cup {None}
  <2> SUFFICES ASSUME NEW w \in Present
               PROVE  /\ Measured(w).requests \in Nat /\ NumberOf(w, Metered) \in Nat
                      /\ Measured(w).usage \in Nat \cup {None}
    OBVIOUS
  <2>1. Used(w) \in Nat
    BY <1>1, SceneFacts
  <2> QED BY <1>1, <2>1, MeasuredFacts
<1>6. pass' \in Pass
  <2>1. /\ pass'.requests \in [Present -> Nat] /\ pass'.usage \in [Present -> Nat \cup {None}]
        /\ pass'.metered \in [Present -> Nat]
    BY <1>4, <1>5
  <2> QED BY <1>2, <1>3, <2>1 DEF Pass
<1>7. now \in [Present -> [covers : BOOLEAN, level : BOOLEAN]]
  <2>1. \A w \in Present : level(w) \in BOOLEAN
    OBVIOUS
  <2> HIDE DEF level
  <2> QED BY <2>1
<1>8. /\ basis' \in Basis /\ basis'["pass"] = now
      /\ basis'["report"] = basis["report"] /\ basis'["pull"] = basis["pull"]
  <2>1. basis' = [basis EXCEPT !["pass"] = now]
    BY <1>1
  <2>2. "pass" \in Holder /\ "report" \in Holder \ {"pass"} /\ "pull" \in Holder \ {"pass"}
    BY DEF Holder
  <2> HIDE DEF now
  <2> QED BY <1>3, <1>7, <2>1, <2>2 DEF Basis
<1>9. Shapes'
  BY <1>1, <1>3, <1>6, <1>8, ShapesKept
<1>10. pass'.todo = {} /\ IsFiniteSet(pass'.todo) /\ Cardinality(pass'.todo) <= Limits.actions
  BY <1>1, <1>4 DEF RightsizingInv
<1>11. Present' = Present
  BY <1>1, SameScene
<1>12. \A w \in Present : Weaker("report", w) /\ Weaker("pull", w)
  BY <1>1, <1>8, NothingClaimed
<1>13. \A w \in Present : PullTrue(w)' /\ \A f \in report'[w] : FindingTrue(w, f)'
  BY <1>1, <1>12, PullKept, ReportKept
<1>14. ASSUME NEW w \in Present PROVE ListingTrue(w)'
  <2>1. /\ Used(w)' = Used(w) /\ Asked(w)' = Asked(w)
    BY <1>1, SameScene
  <2>2. basis'["pass"][w].level <=> level(w)
    BY <1>8
  <2>3. pass'.usage[w] = IF pass'.metered[w] = 0 THEN None ELSE Used(w) * pass'.metered[w]
    BY <1>1, <1>4, MeasuredFacts
  <2>4. level(w) => pass'.requests[w] = Asked(w) * scene.replicas[w]
    BY <1>1, <1>4, MeasuredFacts, SceneFacts
  <2> QED BY <1>1, <2>1, <2>2, <2>3, <2>4 DEF ListingTrue
<1> QED BY <1>9, <1>10, <1>11, <1>13, <1>14 DEF RightsizingInv

\* What an analysis hands on.
Held(w) == [covers |-> Covering(w), level |-> Level(w)]

LEMMA CountedShape ==
  ASSUME Shapes, NEW w \in Present
  PROVE  Counted(w) \in [Rule -> 0..Top]
<1>1. Top \in Nat /\ counts[w] \in [Rule -> 0..Top]
  BY LimitsTypes DEF Shapes
<1> HIDE DEF Top
<1> QED BY <1>1 DEF Counted, AtMost

LEMMA AnalyzeStep ==
  ASSUME ContainersNamed, RightsizingInv, Analyze
  PROVE  RightsizingInv'
<1> DEFINE held == [w \in Present |-> Held(w)]
           told == [w \in Present |-> IF Found(w) = {} THEN Nothing ELSE held[w]]
           left == IF Build = {} THEN NoBasis ELSE held
<1>1. /\ Shapes /\ pass.pc = "listed" /\ scene' = scene /\ load' = load /\ optedIn' = optedIn
      /\ template' = template /\ manifest' = manifest /\ pods' = pods /\ pull' = pull
      /\ report' = [w \in Present |-> Found(w)]
      /\ counts' = [w \in Present |-> Counted(w)]
      /\ pass' = IF Build = {} THEN Idle ELSE [Idle EXCEPT !.pc = "apply", !.todo = Build]
      /\ basis' = [basis EXCEPT !["pass"] = left, !["report"] = told]
  BY DEF RightsizingInv, Analyze, world, Held, Covering, Level
<1>2. \A w \in Present : ListingTrue(w)
  BY DEF RightsizingInv
<1>3. \A w \in Present : Held(w) \in [covers : BOOLEAN, level : BOOLEAN]
  <2> SUFFICES ASSUME NEW w \in Present
               PROVE  Covering(w) \in BOOLEAN /\ Level(w) \in BOOLEAN
    BY DEF Held
  <2>1. basis["pass"][w].covers \in BOOLEAN /\ basis["pass"][w].level \in BOOLEAN
    BY <1>1 DEF Shapes, Basis, Holder
  <2> QED BY <2>1, Zenon DEF Covering, Level
<1>4. held \in [Present -> [covers : BOOLEAN, level : BOOLEAN]]
  BY <1>3
<1>5. /\ left \in [Present -> [covers : BOOLEAN, level : BOOLEAN]]
      /\ told \in [Present -> [covers : BOOLEAN, level : BOOLEAN]]
  <2>1. Nothing \in [covers : BOOLEAN, level : BOOLEAN]
    BY DEF Nothing
  <2> HIDE DEF held, Nothing
  <2> QED BY <1>4, <2>1, NoBasisShape
<1>6. /\ basis' \in Basis /\ basis'["pass"] = left /\ basis'["report"] = told
      /\ basis'["pull"] = basis["pull"]
  <2>1. basis \in Basis
    BY <1>1 DEF Shapes
  <2> HIDE DEF left, told
  <2> QED BY <1>1, <1>5, <2>1 DEF Basis, Holder
<1>7. \A i \in InScene : Order[i] \in Present
  BY DEF InScene
<1>8. \A i \in InScene : \A a \in PlanFor(i) :
        /\ a \in Action /\ a.at = i /\ a.workload = Order[i]
        /\ a.container \in Containers(a.workload)
        /\ a.value >= Limits.floor[scene.resource[a.workload]]
        /\ Covering(a.workload) =>
             a.value >= (Used(a.workload) * Limits.headroom[1]) \div Limits.headroom[2]
        /\ Level(a.workload) =>
             /\ a.value < Asked(a.workload)
             /\ Asked(a.workload) - a.value
                  <= (Asked(a.workload) * Limits.trim[1]) \div Limits.trim[2]
  BY <1>1, <1>2, <1>7, PlanFacts
<1>9. \A a \in Build : \E i \in InScene : a \in PlanFor(i)
  BY DEF Build, FirstOf
<1>10. Build \subseteq Action /\ IsFiniteSet(Build) /\ Cardinality(Build) <= Limits.actions
  BY <1>8, <1>9, BuildFew
<1>11. /\ pass' \in Pass /\ pass'.pc # "listed" /\ pass'.todo = Build
       /\ pass'.pc # "apply" => pass'.todo = {}
  <2>1. CASE Build = {}
    BY <1>1, <2>1, NoBasisShape
  <2>2. CASE Build # {}
    BY <1>1, <1>10, <2>2, NoBasisShape DEF Pass
  <2> QED BY <2>1, <2>2
<1>12. /\ Present' = Present /\ Pass' = Pass /\ Pull' = Pull /\ Basis' = Basis
       /\ \A w : /\ Containers(w)' = Containers(w) /\ Requests(w)' = Requests(w)
                /\ Pods(w)' = Pods(w)
                /\ Used(w)' = Used(w) /\ Asked(w)' = Asked(w)
  BY <1>1, SameScene
<1>13. \A w \in Present : Found(w) \subseteq Finding /\ Counted(w) \in [Rule -> 0..Top]
  BY <1>1, <1>2, FoundFacts, CountedShape
<1>14. Shapes'
  <2>1. /\ report' \in [Present -> SUBSET Finding] /\ counts' \in [Present -> [Rule -> 0..Top]]
    BY <1>1, <1>13
  <2> QED BY <1>1, <1>6, <1>11, <1>12, <2>1 DEF Shapes
<1>15. \A w \in Present : ListingTrue(w)'
  BY <1>11 DEF ListingTrue
<1>16. \A w \in Present : PullTrue(w)'
  <2>1. \A w \in Present : Weaker("pull", w)
    BY <1>1, <1>6, NothingClaimed
  <2> QED BY <1>1, <2>1, PullKept
<1>17. ASSUME NEW a \in Build PROVE TrimTrue(a)'
  <2>1. a \in Action /\ a.workload \in Present
    BY <1>10 DEF Action
  <2>2. /\ basis'["pass"][a.workload].covers <=> Covering(a.workload)
        /\ basis'["pass"][a.workload].level <=> Level(a.workload)
    BY <1>6, <2>1 DEF Held
  <2>3. PICK i \in InScene : a \in PlanFor(i)
    BY <1>9
  <2> QED BY <1>1, <1>8, <1>12, <2>2, <2>3 DEF TrimTrue
<1>18. ASSUME NEW w \in Present, NEW f \in Found(w) PROVE FindingTrue(w, f)'
  <2>1. /\ f \in Finding /\ RuleTrue(f)
        /\ Covering(w) => f.observed >= Used(w)
        /\ Level(w) => f.request = Asked(w)
    BY <1>1, <1>2, FoundFacts
  <2>2. /\ basis'["report"][w].covers <=> Covering(w)
        /\ basis'["report"][w].level <=> Level(w)
    BY <1>6 DEF Held
  <2>3. RuleTrue(f)'
    BY <2>1 DEF RuleTrue, CPUOver, MemoryOver, BelowUsage
  <2> QED BY <1>12, <2>1, <2>2, <2>3 DEF FindingTrue
<1> QED
  BY <1>1, <1>10, <1>11, <1>12, <1>14, <1>15, <1>16, <1>17, <1>18 DEF RightsizingInv

\* What is left of the figures when the template of w changes.
LEMMA RetemplatedFacts ==
  ASSUME basis \in Basis, NEW w \in Present
  PROVE  /\ Retemplated(w) \in Basis
         /\ \A h \in Holder : ~Retemplated(w)[h][w].level
         /\ \A h \in Holder : \A v \in Present :
              /\ Retemplated(w)[h][v].covers => basis[h][v].covers
              /\ Retemplated(w)[h][v].level => basis[h][v].level
<1>1. ASSUME NEW h \in Holder
      PROVE  /\ Retemplated(w)[h] \in [Present -> [covers : BOOLEAN, level : BOOLEAN]]
             /\ ~Retemplated(w)[h][w].level
             /\ \A v \in Present :
                  /\ Retemplated(w)[h][v].covers => basis[h][v].covers
                  /\ Retemplated(w)[h][v].level => basis[h][v].level
  <2> DEFINE B == [covers : BOOLEAN, level : BOOLEAN]
             c == basis[h]
             b == Retemplated(w)[h]
             now == [c[w] EXCEPT !.level = FALSE]
  <2>1. c \in [Present -> B]
    BY DEF Basis
  <2>2. b = [c EXCEPT ![w] = now]
    BY DEF Retemplated
  <2>3. c[w] \in B
    BY <2>1
  <2>4. now \in B /\ now.level = FALSE /\ now.covers = c[w].covers
    BY <2>3
  <2> HIDE DEF b, c, now
  <2>5. b \in [Present -> B] /\ b[w] = now /\ \A v \in Present \ {w} : b[v] = c[v]
    <3> HIDE DEF B
    <3> QED BY <2>1, <2>2, <2>4
  <2>6. \A v \in Present : (b[v].covers => c[v].covers) /\ (b[v].level => c[v].level)
    BY <2>4, <2>5
  <2> QED BY <2>4, <2>5, <2>6 DEF b, c
<1>2. Retemplated(w) = [h \in Holder |-> Retemplated(w)[h]]
  BY DEF Retemplated
<1>3. Retemplated(w) \in Basis
  <2> DEFINE all == Retemplated(w)
  <2> HIDE DEF all
  <2> QED BY <1>1, <1>2 DEF Basis, all
<1> DEFINE b == Retemplated(w)
<1>4. /\ \A h \in Holder : ~b[h][w].level
      /\ \A h \in Holder : \A v \in Present : (b[h][v].covers => basis[h][v].covers)
                                           /\ (b[h][v].level => basis[h][v].level)
  <2> HIDE DEF b
  <2> QED BY <1>1 DEF b
<1> QED BY <1>3, <1>4

\* The process ends with its last action, and forgets its figures.
LEMMA ForgetFacts ==
  ASSUME NEW b \in Basis
  PROVE  /\ Forget(b) \in Basis
         /\ \A h \in Holder : \A v \in Present :
              /\ Forget(b)[h][v].covers => b[h][v].covers
              /\ Forget(b)[h][v].level => b[h][v].level
<1>1. CASE Final
  <2>1. Forget(b) = [b EXCEPT !["pass"] = NoBasis]
    BY <1>1 DEF Forget
  <2>2. Forget(b) \in Basis
    BY <2>1, NoBasisShape DEF Basis
  <2>3. \A h \in Holder : Forget(b)[h] = IF h = "pass" THEN NoBasis ELSE b[h]
    BY <2>1 DEF Basis, Holder
  <2> QED BY <2>2, <2>3, NoBasisShape
<1>2. CASE ~Final
  BY <1>2 DEF Forget
<1> QED BY <1>1, <1>2

LEMMA AdvanceFacts ==
  ASSUME pass \in Pass, NEW a, Turn(a), Advance(a)
  PROVE  /\ pass' \in Pass /\ pass'.pc # "listed" /\ pass'.todo \subseteq pass.todo
         /\ pass'.pc # "apply" => pass'.todo = {}
<1>1. CASE Final
  BY <1>1, NoBasisShape DEF Advance
<1>2. CASE ~Final
  <2>1. pass' = [pass EXCEPT !.todo = @ \ {a}] /\ pass.pc = "apply"
    BY <1>2 DEF Advance, Turn
  <2> QED BY <2>1 DEF Pass
<1> QED BY <1>1, <1>2

LEMMA PatchWorkloadStep ==
  ASSUME RightsizingInv, NEW a, PatchWorkload(a)
  PROVE  RightsizingInv'
<1> DEFINE w == a.workload
           c == a.container
<1>1. /\ Shapes /\ Turn(a) /\ Advance(a) /\ scene' = scene /\ load' = load
      /\ optedIn' = optedIn /\ manifest' = manifest /\ pods' = pods /\ counts' = counts
      /\ report' = report /\ pull' = pull
      /\ template' = [template EXCEPT ![w][c] = a.value]
      /\ basis' = Forget(Retemplated(w))
  BY DEF RightsizingInv, PatchWorkload, world
<1>2. pass \in Pass /\ basis \in Basis /\ a \in Action /\ TrimTrue(a)
  BY <1>1 DEF Shapes, Pass, Turn, RightsizingInv
<1>3. w \in Present /\ c \in Containers(w) /\ a.value \in Nat
  BY <1>2 DEF Action, TrimTrue
<1>4. /\ DOMAIN template' = Present /\ \A v \in Present : template'[v] \in Requests(v)
      /\ \A v \in Present \ {w} : template'[v] = template[v]
  <2>1. DOMAIN template = Present /\ \A v \in Present : template[v] \in Requests(v)
    BY <1>1 DEF Shapes
  <2>2. [template[w] EXCEPT ![c] = a.value] \in Requests(w)
    BY <1>3, <2>1 DEF Requests
  <2>3. template' = [template EXCEPT ![w] = [template[w] EXCEPT ![c] = a.value]]
    BY <1>1
  <2> HIDE DEF w, c
  <2> QED BY <1>3, <2>1, <2>2, <2>3
<1>5. /\ pass' \in Pass /\ pass'.pc # "listed" /\ pass'.todo \subseteq pass.todo
      /\ pass'.pc # "apply" => pass'.todo = {}
  BY <1>1, <1>2, AdvanceFacts
<1> DEFINE b == Retemplated(w)
<1>6. /\ b \in Basis
      /\ \A h \in Holder : ~b[h][w].level
      /\ \A h \in Holder : \A v \in Present : (b[h][v].covers => basis[h][v].covers)
                                           /\ (b[h][v].level => basis[h][v].level)
  BY <1>2, <1>3, RetemplatedFacts
<1>7. /\ basis' \in Basis
      /\ \A h \in Holder : ~basis'[h][w].level
      /\ \A h \in Holder : \A v \in Present : (basis'[h][v].covers => basis[h][v].covers)
                                           /\ (basis'[h][v].level => basis[h][v].level)
  <2>1. basis' = Forget(b)
    BY <1>1
  <2> HIDE DEF b, w
  <2>2. /\ Forget(b) \in Basis
        /\ \A h \in Holder : \A v \in Present : (Forget(b)[h][v].covers => b[h][v].covers)
                                             /\ (Forget(b)[h][v].level => b[h][v].level)
    BY <1>6, ForgetFacts
  <2> QED BY <1>3, <1>6, <2>1, <2>2
<1>8. \A h \in Holder, v \in Present : Weaker(h, v)
  <2> SUFFICES ASSUME NEW h \in Holder, NEW v \in Present PROVE Weaker(h, v)
    OBVIOUS
  <2>1. CASE v = w
    <3>1. ~basis'[h][v].level /\ (basis'[h][v].covers => basis[h][v].covers)
      BY <1>7, <2>1
    <3>2. Used(v)' = Used(v)
      BY <1>1 DEF Used
    <3> QED BY <3>1, <3>2 DEF Weaker
  <2>2. CASE v # w
    <3>1. template'[v] = template[v] /\ load'[v] = load[v] /\ scene' = scene
      BY <1>1, <1>4, <2>2
    <3>2. /\ basis'[h][v].covers => basis[h][v].covers
          /\ basis'[h][v].level => basis[h][v].level
      BY <1>7
    <3> QED BY <3>1, <3>2, NothingClaimed
  <2> QED BY <2>1, <2>2
<1>9. Shapes'
  <2>1. /\ Present' = Present /\ Pass' = Pass /\ Pull' = Pull /\ Basis' = Basis
        /\ \A v : Requests(v)' = Requests(v) /\ Pods(v)' = Pods(v)
    BY <1>1, SameScene
  <2>2. \A v \in Present : template'[v] \in Requests(v)'
    BY <1>4, <2>1
  <2> HIDE DEF w, c, b
  <2> QED BY <1>1, <1>4, <1>5, <1>7, <2>1, <2>2 DEF Shapes
<1> QED BY <1>1, <1>5, <1>8, <1>9, AllKept

LEMMA PatchSkippedStep ==
  ASSUME RightsizingInv, NEW a, PatchSkipped(a)
  PROVE  RightsizingInv'
<1>1. /\ Shapes /\ Turn(a) /\ Advance(a) /\ scene' = scene /\ load' = load
      /\ optedIn' = optedIn /\ template' = template /\ manifest' = manifest /\ pods' = pods
      /\ counts' = counts /\ report' = report /\ pull' = pull /\ basis' = Forget(basis)
  BY DEF RightsizingInv, PatchSkipped, world
<1>2. pass \in Pass /\ basis \in Basis /\ optedIn \in BOOLEAN
  BY <1>1 DEF Shapes
<1>3. /\ pass' \in Pass /\ pass'.pc # "listed" /\ pass'.todo \subseteq pass.todo
      /\ pass'.pc # "apply" => pass'.todo = {}
  BY <1>1, <1>2, AdvanceFacts
<1>4. /\ basis' \in Basis
      /\ \A h \in Holder : \A v \in Present : (basis'[h][v].covers => basis[h][v].covers)
                                           /\ (basis'[h][v].level => basis[h][v].level)
  BY <1>1, <1>2, ForgetFacts
<1>5. \A h \in Holder, v \in Present : Weaker(h, v)
  BY <1>1, <1>4, NothingClaimed
<1>6. Shapes'
  BY <1>1, <1>2, <1>3, <1>4, ShapesKept
<1> QED BY <1>1, <1>3, <1>5, <1>6, AllKept

LEMMA AbandonStep ==
  ASSUME RightsizingInv, Abandon
  PROVE  RightsizingInv'
<1>1. /\ Shapes /\ scene' = scene /\ load' = load
      /\ optedIn' = optedIn /\ template' = template /\ manifest' = manifest /\ pods' = pods
      /\ counts' = counts /\ report' = report /\ pull' = pull
      /\ basis' = [basis EXCEPT !["pass"] = NoBasis] /\ pass' = Idle
  BY DEF RightsizingInv, Abandon, world
<1>2. basis \in Basis /\ optedIn \in BOOLEAN /\ "pass" \in Holder
  BY <1>1 DEF Shapes, Holder
<1>3. basis' \in Basis /\ \A h \in Holder : basis'[h] = IF h = "pass" THEN NoBasis ELSE basis[h]
  BY <1>1, <1>2, NoBasisShape DEF Basis
<1>4. \A h \in Holder, v \in Present : Weaker(h, v)
  BY <1>1, <1>3, NoBasisShape, NothingClaimed
<1>5. /\ pass' \in Pass /\ pass'.pc # "listed" /\ pass'.todo = {}
  BY <1>1, NoBasisShape
<1>6. Shapes'
  BY <1>1, <1>2, <1>3, <1>5, ShapesKept
<1> QED BY <1>1, <1>4, <1>5, <1>6, AllKept

\* A step on a pull request leaves the rest as it was.
LEMMA PullStep ==
  ASSUME RightsizingInv, Shapes', scene' = scene, \A h \in Holder \ {"pull"}, w \in Present : Weaker(h, w),
         pass' = pass, report' = report, \A w \in Present : PullTrue(w)'
  PROVE  RightsizingInv'
<1>1. Present' = Present
  BY SameScene
<1>2. \A w \in Present : Weaker("pass", w) /\ Weaker("report", w)
  BY DEF Holder
<1>3. /\ IsFiniteSet(pass'.todo) /\ Cardinality(pass'.todo) <= Limits.actions
      /\ pass'.pc # "apply" => pass'.todo = {}
      /\ \A w \in Present : ListingTrue(w)'
      /\ \A a \in pass'.todo : TrimTrue(a)'
  BY <1>2, PassKept
<1>4. \A w \in Present : \A f \in report'[w] : FindingTrue(w, f)'
  BY <1>2, ReportKept
<1> QED BY <1>1, <1>3, <1>4 DEF RightsizingInv

WithPull(b, w, x) == [b EXCEPT !["pull"][w] = x]

LEMMA WithPullFacts ==
  ASSUME NEW b \in Basis, NEW w \in Present, NEW x \in [covers : BOOLEAN, level : BOOLEAN]
  PROVE  LET c == WithPull(b, w, x) IN
         /\ c \in Basis /\ c["pull"][w] = x
         /\ \A h \in Holder \ {"pull"} : c[h] = b[h]
         /\ \A v \in Present \ {w} : c["pull"][v] = b["pull"][v]
<1> DEFINE B == [covers : BOOLEAN, level : BOOLEAN]
           r == [b["pull"] EXCEPT ![w] = x]
           c == WithPull(b, w, x)
<1>1. "pull" \in Holder /\ b \in [Holder -> [Present -> B]]
  BY DEF Basis, Holder
<1> HIDE DEF B
<1>2. b["pull"] \in [Present -> B] /\ x \in B
  BY <1>1 DEF B
<1>3. r \in [Present -> B] /\ r[w] = x /\ \A v \in Present \ {w} : r[v] = b["pull"][v]
  BY <1>2
<1>4. c = [b EXCEPT !["pull"] = r]
  BY DEF WithPull
<1> HIDE DEF r, c
<1>5. c \in [Holder -> [Present -> B]] /\ c["pull"] = r /\ \A h \in Holder \ {"pull"} : c[h] = b[h]
  BY <1>1, <1>3, <1>4
<1> QED BY <1>3, <1>5 DEF Basis, B, c

LEMMA DispatchStep ==
  ASSUME RightsizingInv, NEW w \in Present, Dispatch(w)
  PROVE  RightsizingInv'
<1>1. /\ Shapes /\ scene' = scene /\ load' = load /\ optedIn' = optedIn /\ template' = template
      /\ manifest' = manifest /\ pods' = pods /\ counts' = counts /\ report' = report
      /\ pass' = pass /\ basis' = [basis EXCEPT !["pull"][w] = basis["report"][w]]
  BY DEF RightsizingInv, Dispatch, world
<1>2. PICK f \in report[w], c \in Containers(w) :
        pull' = [pull EXCEPT ![w] = [stage |-> "open", rule |-> f.rule,
                                      container |-> c, value |-> Figure(f)]]
  BY DEF Dispatch
<1> DEFINE p == [stage |-> "open", rule |-> f.rule, container |-> c, value |-> Figure(f)]
<1>3. f \in Finding /\ FindingTrue(w, f) /\ f.rule \in Rule /\ RuleTrue(f)
  BY <1>1 DEF RightsizingInv, Shapes, Finding, FindingTrue
<1>4. /\ Figure(f) \in Nat \ {0}
      /\ Figure(f) >= (f.observed * 5) \div 4
      /\ IF IsTrim(f.rule) THEN Figure(f) < f.request ELSE Figure(f) > f.request
  BY <1>3, FigureFacts
<1>5. p \in Pull
  BY <1>3, <1>4 DEF Pull
<1>6. /\ pull' \in [Present -> Pull] /\ pull'[w] = p
      /\ \A v \in Present \ {w} : pull'[v] = pull[v]
  <2>1. pull \in [Present -> Pull] /\ pull' = [pull EXCEPT ![w] = p]
    BY <1>1, <1>2 DEF Shapes
  <2> HIDE DEF p
  <2> QED BY <1>5, <2>1
<1>7. /\ basis' \in Basis /\ basis'["pull"][w] = basis["report"][w]
      /\ \A h \in Holder \ {"pull"} : basis'[h] = basis[h]
      /\ \A v \in Present \ {w} : basis'["pull"][v] = basis["pull"][v]
  <2>1. basis \in Basis /\ basis["report"][w] \in [covers : BOOLEAN, level : BOOLEAN]
    BY <1>1 DEF Shapes, Basis, Holder
  <2> DEFINE x == basis["report"][w]
  <2>2. basis' = WithPull(basis, w, x)
    BY <1>1 DEF WithPull
  <2>3. x \in [covers : BOOLEAN, level : BOOLEAN]
    BY <2>1
  <2> HIDE DEF x
  <2>4. /\ basis' \in Basis /\ basis'["pull"][w] = x
        /\ \A h \in Holder \ {"pull"} : basis'[h] = basis[h]
        /\ \A v \in Present \ {w} : basis'["pull"][v] = basis["pull"][v]
    BY <2>1, <2>2, <2>3, WithPullFacts
  <2> QED BY <2>4 DEF x
<1>8. Shapes'
  BY <1>1, <1>6, <1>7, SameScene DEF Shapes
<1>9. \A h \in Holder \ {"pull"}, v \in Present : Weaker(h, v)
  BY <1>1, <1>7, NothingClaimed
<1>10. ASSUME NEW v \in Present \ {w} PROVE PullTrue(v)'
  <2>1. Weaker("pull", v)
    BY <1>1, <1>7, NothingClaimed
  <2> QED BY <1>1, <1>6, <2>1, PullKept
<1>11. PullTrue(w)'
  <2>1. /\ Used(w)' = Used(w) /\ Asked(w)' = Asked(w) /\ Containers(w)' = Containers(w)
    BY <1>1, SameScene
  <2>2. Used(w) \in Nat /\ Asked(w) \in Nat /\ f.observed \in Nat /\ f.request \in Nat
    BY <1>1, <1>3, SceneFacts DEF Finding
  <2>3. ASSUME basis["report"][w].covers PROVE Figure(f) >= (Used(w) * 5) \div 4
    BY <1>3, <1>4, <2>2, <2>3 DEF FindingTrue
  <2>4. ASSUME basis["report"][w].level
        PROVE  IF IsTrim(f.rule) THEN Figure(f) < Asked(w) ELSE Figure(f) > Asked(w)
    BY <1>3, <1>4, <2>4 DEF FindingTrue
  <2>5. /\ pull'[w].stage = "open" /\ pull'[w].rule = f.rule /\ pull'[w].container = c
        /\ pull'[w].value = Figure(f)
    BY <1>6
  <2> HIDE DEF p
  <2> QED BY <1>3, <1>4, <1>7, <2>1, <2>3, <2>4, <2>5 DEF PullTrue, IsTrim
<1> QED BY <1>1, <1>8, <1>9, <1>10, <1>11, PullStep

LEMMA MergeStep ==
  ASSUME RightsizingInv, NEW w \in Present, Merge(w)
  PROVE  RightsizingInv'
<1> DEFINE p == pull[w]
<1>1. /\ Shapes /\ scene' = scene /\ load' = load /\ optedIn' = optedIn /\ template' = template
      /\ pods' = pods /\ counts' = counts /\ report' = report /\ pass' = pass /\ basis' = basis
      /\ p.stage = "open"
      /\ manifest' = [manifest EXCEPT ![w][p.container] = p.value]
      /\ pull' = [pull EXCEPT ![w].stage = "merged"]
  BY DEF RightsizingInv, Merge, world
<1>2. /\ basis \in Basis /\ pull \in [Present -> Pull] /\ PullTrue(w)
      /\ DOMAIN manifest = Present /\ \A v \in Present : manifest[v] \in Requests(v)
  BY <1>1 DEF Shapes, RightsizingInv
<1>3. p.container \in Containers(w) /\ p.value \in Nat /\ p \in Pull
  BY <1>1, <1>2 DEF PullTrue, Pull
<1>4. /\ DOMAIN manifest' = Present /\ \A v \in Present : manifest'[v] \in Requests(v)
      /\ manifest'[w][p.container] = p.value
      /\ \A v \in Present \ {w} : manifest'[v] = manifest[v]
  <2> DEFINE r == [manifest[w] EXCEPT ![p.container] = p.value]
  <2>1. r \in Requests(w) /\ r[p.container] = p.value
    BY <1>2, <1>3 DEF Requests
  <2>2. manifest' = [manifest EXCEPT ![w] = r]
    BY <1>1
  <2> HIDE DEF r, p
  <2> QED BY <1>2, <2>1, <2>2
<1>5. /\ pull' \in [Present -> Pull]
      /\ pull'[w].stage = "merged" /\ pull'[w].rule = p.rule /\ pull'[w].container = p.container
      /\ pull'[w].value = p.value
      /\ \A v \in Present \ {w} : pull'[v] = pull[v]
  <2> DEFINE q == [p EXCEPT !.stage = "merged"]
  <2>1. /\ q \in Pull /\ q.stage = "merged" /\ q.rule = p.rule /\ q.container = p.container
        /\ q.value = p.value
    BY <1>3 DEF Pull
  <2>2. pull' = [pull EXCEPT ![w] = q]
    BY <1>1
  <2> HIDE DEF q, p
  <2> QED BY <1>2, <2>1, <2>2
<1>6. Shapes'
  <2>1. /\ Present' = Present /\ Pass' = Pass /\ Pull' = Pull /\ Basis' = Basis
        /\ \A v : Requests(v)' = Requests(v) /\ Pods(v)' = Pods(v)
    BY <1>1, SameScene
  <2>2. \A v \in Present : manifest'[v] \in Requests(v)'
    BY <1>4, <2>1
  <2> HIDE DEF p
  <2> QED BY <1>1, <1>4, <1>5, <2>1, <2>2 DEF Shapes
<1>7. \A h \in Holder, v \in Present : Weaker(h, v)
  BY <1>1, NothingClaimed
<1>8. \A v \in Present \ {w} : PullTrue(v)'
  <2>1. \A v \in Present : Weaker("pull", v)
    BY <1>7 DEF Holder
  <2> QED BY <1>1, <1>4, <1>5, <2>1, PullKept
<1>9. PullTrue(w)'
  <2>1. /\ Used(w)' = Used(w) /\ Asked(w)' = Asked(w) /\ Containers(w)' = Containers(w)
    BY <1>1, SameScene
  <2> QED BY <1>1, <1>2, <1>4, <1>5, <2>1 DEF PullTrue, IsTrim
<1> QED BY <1>1, <1>6, <1>7, <1>8, <1>9, PullStep

LEMMA CloseStep ==
  ASSUME RightsizingInv, NEW w \in Present, Close(w)
  PROVE  RightsizingInv'
<1>1. /\ Shapes /\ scene' = scene /\ load' = load /\ optedIn' = optedIn /\ template' = template
      /\ pods' = pods /\ counts' = counts /\ report' = report /\ pass' = pass
      /\ manifest' = manifest /\ pull' = [pull EXCEPT ![w] = NoPull]
      /\ basis' = [basis EXCEPT !["pull"][w] = Nothing]
  BY DEF RightsizingInv, Close, world
<1>2. basis \in Basis /\ pull \in [Present -> Pull] /\ Nothing \in [covers : BOOLEAN, level : BOOLEAN]
  BY <1>1 DEF Shapes, Nothing
<1>3. /\ pull' \in [Present -> Pull] /\ pull'[w].stage = "none"
      /\ \A v \in Present \ {w} : pull'[v] = pull[v]
  BY <1>1, <1>2, NoPullShape
<1>4. /\ basis' \in Basis
      /\ \A h \in Holder \ {"pull"} : basis'[h] = basis[h]
      /\ \A v \in Present \ {w} : basis'["pull"][v] = basis["pull"][v]
  <2>1. basis' = WithPull(basis, w, Nothing)
    BY <1>1 DEF WithPull
  <2> QED BY <1>2, <2>1, WithPullFacts
<1>5. Shapes'
  BY <1>1, <1>3, <1>4, SameScene DEF Shapes
<1>6. \A h \in Holder \ {"pull"}, v \in Present : Weaker(h, v)
  BY <1>1, <1>4, NothingClaimed
<1>7. ASSUME NEW v \in Present \ {w} PROVE PullTrue(v)'
  <2>1. Weaker("pull", v)
    BY <1>1, <1>4, NothingClaimed
  <2> QED BY <1>1, <1>3, <2>1, PullKept
<1>8. PullTrue(w)'
  BY <1>3 DEF PullTrue
<1> QED BY <1>1, <1>5, <1>6, <1>7, <1>8, PullStep

LEMMA DeployStep ==
  ASSUME RightsizingInv, NEW w \in Present, Deploy(w)
  PROVE  RightsizingInv'
<1> DEFINE now == IF manifest[w] = template[w] THEN basis ELSE Retemplated(w)
<1>1. /\ Shapes /\ scene' = scene /\ load' = load /\ optedIn' = optedIn
      /\ pods' = pods /\ counts' = counts /\ report' = report /\ pass' = pass
      /\ manifest' = manifest /\ template' = [template EXCEPT ![w] = manifest[w]]
      /\ \/ pull' = [pull EXCEPT ![w] = NoPull] /\ basis' = WithPull(now, w, Nothing)
         \/ pull' = pull /\ basis' = now
  BY DEF RightsizingInv, Deploy, world, WithPull
<1>2. /\ basis \in Basis /\ pull \in [Present -> Pull]
      /\ Nothing \in [covers : BOOLEAN, level : BOOLEAN] /\ ~Nothing.covers /\ ~Nothing.level
      /\ DOMAIN template = Present /\ \A v \in Present : template[v] \in Requests(v)
      /\ manifest[w] \in Requests(w)
  BY <1>1 DEF Shapes, Nothing
<1>3. /\ DOMAIN template' = Present /\ \A v \in Present : template'[v] \in Requests(v)
      /\ template'[w] = manifest[w] /\ \A v \in Present \ {w} : template'[v] = template[v]
  BY <1>1, <1>2
<1>4. /\ now \in Basis
      /\ template'[w] = template[w] \/ \A h \in Holder : ~now[h][w].level
      /\ \A h \in Holder : \A v \in Present : (now[h][v].covers => basis[h][v].covers)
                                           /\ (now[h][v].level => basis[h][v].level)
  <2>1. CASE manifest[w] = template[w]
    BY <1>2, <1>3, <2>1
  <2>2. CASE manifest[w] # template[w]
    BY <1>2, <2>2, RetemplatedFacts
  <2> QED BY <2>1, <2>2
<1>5. /\ basis' \in Basis
      /\ template'[w] = template[w] \/ \A h \in Holder : ~basis'[h][w].level
      /\ \A h \in Holder : \A v \in Present : (basis'[h][v].covers => basis[h][v].covers)
                                           /\ (basis'[h][v].level => basis[h][v].level)
  <2> HIDE DEF now, Nothing
  <2>1. CASE basis' = now
    BY <1>4, <2>1
  <2>2. CASE basis' = WithPull(now, w, Nothing)
    <3>1. /\ basis' \in Basis /\ basis'["pull"][w] = Nothing
          /\ \A h \in Holder \ {"pull"} : basis'[h] = now[h]
          /\ \A v \in Present \ {w} : basis'["pull"][v] = now["pull"][v]
      BY <1>2, <1>4, <2>2, WithPullFacts
    <3>2. \A h \in Holder, v \in Present : basis'[h][v] = Nothing \/ basis'[h][v] = now[h][v]
      BY <3>1
    <3> QED BY <1>2, <1>4, <3>1, <3>2
  <2> QED BY <1>1, <2>1, <2>2
<1>6. /\ pull' \in [Present -> Pull]
      /\ pull'[w].stage = "none" \/ pull'[w] = pull[w]
      /\ \A v \in Present \ {w} : pull'[v] = pull[v]
  <2>1. CASE pull' = [pull EXCEPT ![w] = NoPull]
    <3> HIDE DEF NoPull
    <3> QED BY <1>2, <2>1, NoPullShape
  <2> QED BY <1>1, <1>2, <2>1
<1>7. Shapes'
  <2>1. /\ Present' = Present /\ Pass' = Pass /\ Pull' = Pull /\ Basis' = Basis
        /\ \A v : Requests(v)' = Requests(v) /\ Pods(v)' = Pods(v)
    BY <1>1, SameScene
  <2>2. \A v \in Present : template'[v] \in Requests(v)'
    BY <1>3, <2>1
  <2>3. UNCHANGED <<scene, load, optedIn, pods, counts, report, pass, manifest>>
    BY <1>1
  <2> QED BY <1>1, <1>3, <1>5, <1>6, <2>1, <2>2, <2>3 DEF Shapes
<1>8. \A h \in Holder, v \in Present : Weaker(h, v)
  <2> SUFFICES ASSUME NEW h \in Holder, NEW v \in Present PROVE Weaker(h, v)
    OBVIOUS
  <2>1. Used(v)' = Used(v) /\ scene' = scene /\ load' = load
    BY <1>1, SameScene
  <2>2. basis'[h][v].covers => basis[h][v].covers
    BY <1>5
  <2>3. basis'[h][v].level => basis[h][v].level
    BY <1>5
  <2>4. CASE template'[v] = template[v]
    BY <2>1, <2>2, <2>3, <2>4, NothingClaimed
  <2>5. CASE template'[v] # template[v]
    <3>1. v = w /\ ~basis'[h][v].level
      BY <1>3, <1>5, <2>5
    <3> QED BY <2>1, <2>2, <3>1 DEF Weaker
  <2> QED BY <2>4, <2>5
<1>9. \A v \in Present : Weaker("pull", v)
  BY <1>8 DEF Holder
<1>10. ASSUME NEW v \in Present PROVE PullTrue(v)'
  <2>1. CASE pull'[v] = pull[v]
    BY <1>1, <1>9, <2>1, PullKept
  <2>2. CASE pull'[v].stage = "none"
    BY <2>2 DEF PullTrue
  <2> QED BY <1>6, <2>1, <2>2
<1> QED BY <1>1, <1>7, <1>8, <1>10, PullStep

LEMMA SetLoadStep ==
  ASSUME RightsizingInv, NEW w \in Present, SetLoad(w)
  PROVE  RightsizingInv'
<1>1. /\ Shapes /\ scene' = scene /\ optedIn' = optedIn /\ template' = template
      /\ pods' = pods /\ counts' = counts /\ report' = report /\ pass' = pass
      /\ manifest' = manifest /\ pull' = pull
      /\ basis' = [h \in Holder |-> [basis[h] EXCEPT ![w].covers = FALSE]]
  BY DEF RightsizingInv, SetLoad
<1>2. PICK l \in scene.loads[w] : load' = [load EXCEPT ![w] = l]
  BY DEF SetLoad
<1>3. /\ DOMAIN load' = Present /\ \A v \in Present : load'[v] \in scene.loads[v]
      /\ \A v \in Present \ {w} : load'[v] = load[v]
  BY <1>1, <1>2 DEF Shapes
<1>4. ASSUME NEW h \in Holder
      PROVE  /\ basis'[h] \in [Present -> [covers : BOOLEAN, level : BOOLEAN]]
             /\ ~basis'[h][w].covers
             /\ \A v \in Present : (basis'[h][v].covers => basis[h][v].covers)
                                /\ (basis'[h][v].level => basis[h][v].level)
  <2> DEFINE B == [covers : BOOLEAN, level : BOOLEAN]
             c == basis[h]
             b == basis'[h]
             now == [c[w] EXCEPT !.covers = FALSE]
  <2>1. c \in [Present -> B]
    BY <1>1 DEF Basis, Shapes
  <2>2. b = [c EXCEPT ![w] = now]
    BY <1>1
  <2>3. now \in B /\ now.covers = FALSE /\ now.level = c[w].level
    BY <2>1
  <2> HIDE DEF b, c, now
  <2>4. b \in [Present -> B] /\ b[w] = now /\ \A v \in Present \ {w} : b[v] = c[v]
    <3> HIDE DEF B
    <3> QED BY <2>1, <2>2, <2>3
  <2>5. \A v \in Present : (b[v].covers => c[v].covers) /\ (b[v].level => c[v].level)
    BY <2>3, <2>4
  <2> QED BY <2>3, <2>4, <2>5 DEF b, c
<1>5. basis' \in Basis
  <2>1. basis' = [h \in Holder |-> basis'[h]]
    BY <1>1
  <2> DEFINE all == basis'
  <2> HIDE DEF all
  <2>2. all = [h \in Holder |-> all[h]]
    BY <2>1 DEF all
  <2>3. \A h \in Holder : all[h] \in [Present -> [covers : BOOLEAN, level : BOOLEAN]]
    BY <1>4 DEF all
  <2> QED BY <2>2, <2>3 DEF Basis, all
<1>6. \A h \in Holder, v \in Present : Weaker(h, v)
  <2> SUFFICES ASSUME NEW h \in Holder, NEW v \in Present PROVE Weaker(h, v)
    OBVIOUS
  <2>1. Asked(v)' = Asked(v) /\ scene' = scene /\ template' = template
    BY <1>1, SameScene
  <2>2. /\ basis'[h][v].covers => basis[h][v].covers
        /\ basis'[h][v].level => basis[h][v].level
    BY <1>4
  <2>3. CASE v = w
    BY <1>4, <2>1, <2>2, <2>3 DEF Weaker
  <2>4. CASE v # w
    BY <1>3, <2>1, <2>2, <2>4, NothingClaimed
  <2> QED BY <2>3, <2>4
<1>7. Shapes'
  <2>1. /\ Present' = Present /\ Pass' = Pass /\ Pull' = Pull /\ Basis' = Basis
        /\ \A v : Requests(v)' = Requests(v) /\ Pods(v)' = Pods(v)
    BY <1>1, SameScene
  <2> QED BY <1>1, <1>3, <1>5, <2>1 DEF Shapes
<1> QED BY <1>1, <1>6, <1>7, AllKept

LEMMA SetPodStep ==
  ASSUME RightsizingInv, NEW w \in Present, NEW i \in Pods(w),
         NEW pod \in [requests : Requests(w), status : Status], SetPod(w, i, pod)
  PROVE  RightsizingInv'
<1>1. /\ Shapes /\ scene' = scene /\ load' = load /\ optedIn' = optedIn /\ template' = template
      /\ counts' = counts /\ report' = report /\ pass' = pass /\ basis' = basis
      /\ manifest' = manifest /\ pull' = pull /\ pods' = [pods EXCEPT ![w][i] = pod]
  BY DEF RightsizingInv, SetPod, world
<1>2. /\ DOMAIN pods' = Present
      /\ \A v \in Present : pods'[v] \in [Pods(v) -> [requests : Requests(v), status : Status]]
  <2> DEFINE P(v) == [requests : Requests(v), status : Status]
             r == [pods[w] EXCEPT ![i] = pod]
  <2>1. DOMAIN pods = Present /\ \A v \in Present : pods[v] \in [Pods(v) -> P(v)]
    BY <1>1 DEF Shapes
  <2>2. r \in [Pods(w) -> P(w)]
    <3> HIDE DEF P
    <3> QED BY <2>1 DEF P
  <2>3. pods' = [pods EXCEPT ![w] = r]
    BY <1>1
  <2> HIDE DEF r, P
  <2> QED BY <2>1, <2>2, <2>3 DEF P
<1>3. Shapes'
  <2>1. /\ Present' = Present /\ Pass' = Pass /\ Pull' = Pull /\ Basis' = Basis
        /\ \A v : Requests(v)' = Requests(v) /\ Pods(v)' = Pods(v)
    BY <1>1, SameScene
  <2>2. \A v \in Present : pods'[v] \in [Pods(v) -> [requests : Requests(v), status : Status]]'
    BY <1>2, <2>1
  <2> QED BY <1>1, <1>2, <2>1, <2>2 DEF Shapes
<1>4. \A h \in Holder, v \in Present : Weaker(h, v)
  BY <1>1, NothingClaimed
<1> QED BY <1>1, <1>3, <1>4, AllKept

LEMMA BecomesStep ==
  ASSUME RightsizingInv, NEW w \in Present, NEW i \in Pods(w),
         NEW from, NEW to \in Status, Becomes(w, i, from, to)
  PROVE  RightsizingInv'
<1>1. pods[w][i] \in [requests : Requests(w), status : Status]
  BY DEF RightsizingInv, Shapes
<1> DEFINE pod == [pods[w][i] EXCEPT !.status = to]
<1>2. pod \in [requests : Requests(w), status : Status] /\ SetPod(w, i, pod)
  BY <1>1 DEF Becomes
<1> HIDE DEF pod
<1> QED BY <1>2, SetPodStep

LEMMA OptInStep ==
  ASSUME RightsizingInv, OptIn
  PROVE  RightsizingInv'
<1>1. /\ Shapes /\ scene' = scene /\ load' = load /\ optedIn' \in BOOLEAN /\ template' = template
      /\ counts' = counts /\ report' = report /\ pass' = pass /\ basis' = basis
      /\ manifest' = manifest /\ pull' = pull /\ pods' = pods
  BY DEF RightsizingInv, OptIn, Shapes
<1>2. pass' \in Pass /\ basis' \in Basis
  BY <1>1 DEF Shapes
<1>3. Shapes'
  BY <1>1, <1>2, ShapesKept
<1>4. \A h \in Holder, v \in Present : Weaker(h, v)
  BY <1>1, NothingClaimed
<1> QED BY <1>1, <1>3, <1>4, AllKept

LEMMA StutterStep ==
  ASSUME RightsizingInv, UNCHANGED vars
  PROVE  RightsizingInv'
<1>1. /\ Shapes /\ scene' = scene /\ load' = load /\ optedIn' = optedIn /\ template' = template
      /\ counts' = counts /\ report' = report /\ pass' = pass /\ basis' = basis
      /\ manifest' = manifest /\ pull' = pull /\ pods' = pods
  BY DEF RightsizingInv, vars
<1>2. pass' \in Pass /\ basis' \in Basis /\ optedIn' \in BOOLEAN
  BY <1>1 DEF Shapes
<1>3. Shapes'
  BY <1>1, <1>2, ShapesKept
<1>4. \A h \in Holder, v \in Present : Weaker(h, v)
  BY <1>1, NothingClaimed
<1> QED BY <1>1, <1>3, <1>4, AllKept

LEMMA NextInv ==
  ASSUME ContainersNamed, RightsizingInv, [Next]_vars
  PROVE  RightsizingInv'
<1>1. scene.about \subseteq Present
  <2>1. SceneOK(scene)
    BY RightsizingAssumption DEF RightsizingAssumption, RightsizingInv, Shapes
  <2> QED BY <2>1 DEF SceneOK, Present
<1>2. CASE PassStep
  BY <1>2, ListPodsStep, AnalyzeStep, PatchWorkloadStep, PatchSkippedStep DEF PassStep, Apply
<1>3. CASE Cluster
  <2> PICK w \in Present : \E i \in Pods(w) : Roll(w, i) \/ Settle(w, i)
    BY <1>3 DEF Cluster
  <2> PICK i \in Pods(w) : Roll(w, i) \/ Settle(w, i)
    OBVIOUS
  <2>1. CASE Roll(w, i)
    <3> DEFINE pod == [requests |-> template[w], status |-> "starting"]
    <3>1. pod \in [requests : Requests(w), status : Status] /\ SetPod(w, i, pod)
      BY <2>1 DEF Roll, RightsizingInv, Shapes, Status
    <3> HIDE DEF pod
    <3> QED BY <3>1, SetPodStep
  <2>2. CASE Settle(w, i)
    <3>1. "blind" \in Status /\ "up" \in Status
      BY DEF Status
    <3> QED BY <2>2, <3>1, BecomesStep DEF Settle
  <2> QED BY <2>1, <2>2
<1>4. CASE People
  BY <1>1, <1>4, DispatchStep, MergeStep, CloseStep, DeployStep DEF People
<1>5. CASE Trouble
  <2>1. CASE \E w \in scene.about : \E i \in Pods(w) : Disturb(w, i)
    <3>1. "failing" \in Status /\ "blind" \in Status
      BY DEF Status
    <3> QED BY <1>1, <2>1, <3>1, BecomesStep DEF Disturb
  <2> QED BY <1>1, <1>5, <2>1, AbandonStep, OptInStep, SetLoadStep DEF Trouble
<1> QED BY <1>2, <1>3, <1>4, <1>5, StutterStep DEF Next

-----------------------------------------------------------------------------
(* What follows.                                                           *)

\* The figures that passes, reports and pull requests hold are what the scene
\* and the pods make them, as long as their basis says so, in every state.
THEOREM RightsizingInvariance == ContainersNamed /\ Spec => []RightsizingInv
<1> SUFFICES ASSUME ContainersNamed PROVE Spec => []RightsizingInv
  OBVIOUS
<1>1. Init => RightsizingInv
  BY InitInv
<1>2. RightsizingInv /\ [Next]_vars => RightsizingInv'
  BY NextInv
<1> QED BY <1>1, <1>2, PTL DEF Spec

\* The state keeps its types: what a pass plans is for a container the workload
\* has and is never zero, and no pass plans more than the policy's actions.
THEOREM RightsizingTypes == ContainersNamed /\ Spec => []RightsizingTypeOK
<1>1. RightsizingInv => RightsizingTypeOK
  <2> SUFFICES ASSUME RightsizingInv PROVE RightsizingTypeOK
    OBVIOUS
  <2>1. /\ Shapes /\ Cardinality(pass.todo) <= Limits.actions
        /\ \A w \in Present : PullTrue(w) /\ \A a \in pass.todo : TrimTrue(a)
    BY DEF RightsizingInv
  <2>2. scene \in Scenes /\ optedIn \in BOOLEAN /\ pass.pc \in {"idle", "listed", "apply"}
    BY <2>1 DEF Shapes, Pass
  <2>3. ASSUME NEW w \in Present
        PROVE  /\ load[w] \in scene.loads[w]
               /\ template[w] \in Requests(w) /\ manifest[w] \in Requests(w)
               /\ \A i \in Pods(w) :
                    pods[w][i].requests \in Requests(w) /\ pods[w][i].status \in Status
               /\ counts[w] \in [Rule -> 0..Top]
    BY <2>1 DEF Shapes
  <2>4. \A w \in Present : \A f \in report[w] : f.rule \in Rule /\ f.observed \in Nat /\ f.request \in Nat
    BY <2>1 DEF Shapes, Finding
  <2>5. ASSUME NEW w \in Present, pull[w].stage # "none"
        PROVE  pull[w].container \in Containers(w) /\ pull[w].value \in Nat \ {0}
    <3>1. pull[w] \in Pull /\ PullTrue(w)
      BY <2>1 DEF Shapes
    <3>2. pull[w].value \in Nat
      BY <3>1 DEF Pull
    <3> QED BY <2>5, <3>1, <3>2 DEF PullTrue
  <2>6. \A w \in Present : \A h \in Holder : basis[h][w] \in [covers : BOOLEAN, level : BOOLEAN]
    BY <2>1 DEF Shapes, Basis
  <2>7. \A a \in pass.todo : a.container \in Containers(a.workload) /\ a.value \in Nat \ {0}
    BY <2>1 DEF Shapes, Pass, Action, TrimTrue, RightsizingInv
  <2> QED BY <2>1, <2>2, <2>3, <2>4, <2>5, <2>6, <2>7 DEF RightsizingTypeOK
<1> QED BY <1>1, RightsizingInvariance, PTL

\* What a patch writes, and where.
LEMMA PatchWrites ==
  ASSUME RightsizingInv, NEW a \in pass.todo, PatchWorkload(a)
  PROVE  /\ a.workload \in Present /\ a.container \in Containers(a.workload) /\ TrimTrue(a)
         /\ template[a.workload] \in [Containers(a.workload) -> Nat]
         /\ template'[a.workload][a.container] = a.value
<1>1. TrimTrue(a) /\ a \in Action
  BY DEF RightsizingInv, Shapes, Pass
<1>2. a.workload \in Present /\ a.container \in Containers(a.workload)
  BY <1>1 DEF Action, TrimTrue
<1>3. DOMAIN template = Present /\ template[a.workload] \in [Containers(a.workload) -> Nat]
  BY <1>2 DEF RightsizingInv, Shapes, Requests
<1>4. template' = [template EXCEPT ![a.workload][a.container] = a.value]
  BY DEF PatchWorkload
<1> QED BY <1>1, <1>2, <1>3, <1>4

\* A trim leaves its container what the pod uses, and the headroom.
THEOREM TrimsCoverUsage == ContainersNamed /\ Spec => TrimCoversUsage
<1> DEFINE A == \A a \in pass.todo :
                  PatchWorkload(a) /\ basis["pass"][a.workload].covers =>
                    template'[a.workload][a.container]
                      >= (PodRequest(load[a.workload]) * Limits.headroom[1]) \div Limits.headroom[2]
<1>1. RightsizingInv /\ [Next]_vars => [A]_vars
  BY PatchWrites DEF TrimTrue, Used
<1> HIDE DEF A
<1>2. ContainersNamed /\ Spec => [][A]_vars
  BY <1>1, RightsizingInvariance, PTL DEF Spec
<1> QED BY <1>2 DEF A, TrimCoversUsage

\* A trim is not below the floor, and what it takes off a pod's only container
\* is something, and not more than one pass may take.
THEOREM TrimsStayWithinLimits == ContainersNamed /\ Spec => TrimsWithinLimits
<1> DEFINE A == \A a \in pass.todo : PatchWorkload(a) =>
                  LET w == a.workload
                      old == template[w][a.container]
                      new == template'[w][a.container] IN
                  /\ new >= Limits.floor[scene.resource[w]]
                  /\ basis["pass"][w].level /\ Containers(w) = {a.container} =>
                       new < old /\ old - new <= (old * Limits.trim[1]) \div Limits.trim[2]
<1>1. RightsizingInv => A
  <2> SUFFICES ASSUME RightsizingInv, NEW a \in pass.todo, PatchWorkload(a)
               PROVE  LET w == a.workload
                          old == template[w][a.container]
                          new == template'[w][a.container] IN
                      /\ new >= Limits.floor[scene.resource[w]]
                      /\ basis["pass"][w].level /\ Containers(w) = {a.container} =>
                           new < old /\ old - new <= (old * Limits.trim[1]) \div Limits.trim[2]
    BY DEF A
  <2> DEFINE w == a.workload
             c == a.container
  <2>1. /\ TrimTrue(a) /\ template[w] \in [Containers(w) -> Nat] /\ template'[w][c] = a.value
    BY PatchWrites
  <2>2. Containers(w) = {c} => Asked(w) = template[w][c]
    BY <2>1, PodRequestOfOne DEF Asked
  <2> QED BY <2>1, <2>2 DEF TrimTrue
<1> HIDE DEF A
<1>2. ContainersNamed /\ Spec => [][A]_vars
  BY <1>1, RightsizingInvariance, PTL DEF Spec
<1> QED BY <1>2 DEF A, TrimsWithinLimits

\* What a merged pull request deploys.
LEMMA DeployWrites ==
  ASSUME RightsizingInv, NEW w \in Present, Deploy(w), pull[w].stage = "merged"
  PROVE  /\ PullTrue(w) /\ template[w] \in [Containers(w) -> Nat]
         /\ template'[w][pull[w].container] = pull[w].value
<1>1. PullTrue(w) /\ DOMAIN template = Present /\ template[w] \in [Containers(w) -> Nat]
  BY DEF RightsizingInv, Shapes, Requests
<1>2. manifest[w][pull[w].container] = pull[w].value
  BY <1>1 DEF PullTrue
<1>3. template' = [template EXCEPT ![w] = manifest[w]]
  BY DEF Deploy
<1> QED BY <1>1, <1>2, <1>3

\* What a pull request deploys leaves its container a quarter more than the pod
\* uses, however late it is merged and applied.
THEOREM PullsCoverUsage == ContainersNamed /\ Spec => PullCoversUsage
<1> DEFINE A == \A w \in Present :
                  Deploy(w) /\ pull[w].stage = "merged" /\ basis["pull"][w].covers =>
                    template'[w][pull[w].container] >= (PodRequest(load[w]) * 5) \div 4
<1>1. RightsizingInv => A
  BY DeployWrites DEF PullTrue, Used
<1> HIDE DEF A
<1>2. ContainersNamed /\ Spec => [][A]_vars
  BY <1>1, RightsizingInvariance, PTL DEF Spec
<1> QED BY <1>2 DEF A, PullCoversUsage

\* It lowers the request of an only container where the finding was of too much,
\* and raises it where it was of too little.
THEOREM PullsMoveAsFound == ContainersNamed /\ Spec => PullMovesAsFound
<1> DEFINE A == \A w \in Present :
                  Deploy(w) /\ pull[w].stage = "merged" /\ basis["pull"][w].level
                  /\ Containers(w) = {pull[w].container} =>
                    IF IsTrim(pull[w].rule)
                    THEN template'[w][pull[w].container] < template[w][pull[w].container]
                    ELSE template'[w][pull[w].container] > template[w][pull[w].container]
<1>1. RightsizingInv => A
  <2> SUFFICES ASSUME RightsizingInv, NEW w \in Present, Deploy(w), pull[w].stage = "merged",
                      basis["pull"][w].level, Containers(w) = {pull[w].container}
               PROVE  IF IsTrim(pull[w].rule)
                      THEN template'[w][pull[w].container] < template[w][pull[w].container]
                      ELSE template'[w][pull[w].container] > template[w][pull[w].container]
    BY DEF A
  <2>1. /\ PullTrue(w) /\ template[w] \in [{pull[w].container} -> Nat]
        /\ template'[w][pull[w].container] = pull[w].value
    BY DeployWrites
  <2>2. Asked(w) = template[w][pull[w].container]
    BY <2>1, PodRequestOfOne DEF Asked
  <2> QED BY <2>1, <2>2 DEF PullTrue
<1> HIDE DEF A
<1>2. ContainersNamed /\ Spec => [][A]_vars
  BY <1>1, RightsizingInvariance, PTL DEF Spec
<1> QED BY <1>2 DEF A, PullMovesAsFound

=============================================================================
