------------------------------ MODULE BinPack ------------------------------
(***************************************************************************)
(* The placement simulation (internal/binpack): first-fit decreasing over  *)
(* the hard predicates of the scheduler.                                   *)
(*                                                                         *)
(* Nodes and pods come as sequences in the order of their names.  Labels   *)
(* and field values are numbers, 0 being the empty string; a set of labels *)
(* is a set of [key, value], and a placement maps each pod to the position *)
(* of its node, or to 0.                                                   *)
(***************************************************************************)
EXTENDS Integers, Sequences, FiniteSets, SequencesExt

\* A quantity of each of these is allocatable on a node and asked by a pod.
Resources == {"cpu", "mem"}

\* So is one of each of the others, "gpu" standing for any device.
Extended == {"ephemeral-storage", "gpu"}

\* The sum of a function's values.
Total(f) == MapThenSumSet(LAMBDA x : f[x], DOMAIN f)

\* A set in a strict order of its elements: the r-th is the one that r - 1 others
\* come before.
Ranked(S, Before(_, _)) ==
  [r \in 1..Cardinality(S) |->
     CHOOSE x \in S : Cardinality({y \in S : Before(y, x)}) = r - 1]

-----------------------------------------------------------------------------
(* Predicates of one pod and one node.                                     *)

\* requirementMatches: an operator that is not known does not pass.
RequirementMatches(r, labels) ==
  LET found == {l \in labels : l.key = r.key}
      some(Test(_)) == \E l \in found : Test(l.value) IN
  CASE r.op = "In"           -> some(LAMBDA v : v \in ToSet(r.values))
    [] r.op = "NotIn"        -> ~some(LAMBDA v : v \in ToSet(r.values))
    [] r.op = "Exists"       -> found # {}
    [] r.op = "DoesNotExist" -> found = {}
    [] r.op = "Gt"           -> r.values # <<>> /\ some(LAMBDA v : v > r.values[1])
    [] r.op = "Lt"           -> r.values # <<>> /\ some(LAMBDA v : v < r.values[1])
    [] r.op \in {"", "Equal", "Equals"} -> r.values # <<>> /\ some(LAMBDA v : v = r.values[1])
    [] OTHER                 -> FALSE

\* The empty value, which a label that is not set has as well.
Empty == 0

IsSet(key, labels) == \E l \in labels : l.key = key

MatchesLabels(wanted, labels) ==
  \A l \in wanted : l \in labels \/ (l.value = Empty /\ ~IsSet(l.key, labels))

\* A selector without conditions matches all labels, and an absent one none.
SelectorMatches(s, labels) ==
  /\ ~s.absent
  /\ MatchesLabels(s.labels, labels)
  /\ \A r \in s.expressions : RequirementMatches(r, labels)

ToleratedBy(taint, tolerations) ==
  \E t \in tolerations :
    /\ t.effect \in {"", taint.effect}
    /\ \/ t.op = "Exists" /\ t.key \in {"", taint.key}
       \/ t.op \in {"", "Equal"} /\ t.key = taint.key /\ t.value = taint.value

Tolerates(p, node) ==
  \A t \in node.taints : t.effect = "PreferNoSchedule" \/ ToleratedBy(t, p.tolerations)

\* A term without expressions matches no node.
TermMatches(term, node) ==
  /\ term.expressions \cup term.fields # {}
  /\ \A r \in term.expressions : RequirementMatches(r, node.labels)
  /\ \A r \in term.fields :
       RequirementMatches(r, {[key |-> "metadata.name", value |-> node.name]})

\* Required node affinity is the disjunction of its terms.
MatchesNodeAffinity(p, node) ==
  p.affinity = {} \/ \E term \in p.affinity : TermMatches(term, node)

\* The predicates that do not depend on the other pods.
Eligible(p, node) ==
  /\ Tolerates(p, node)
  /\ MatchesLabels(p.nodeSelector, node.labels)
  /\ MatchesNodeAffinity(p, node)

-----------------------------------------------------------------------------
(* Predicates of a pod, a node, and the pods placed so far.  `at' is the   *)
(* placement.                                                              *)

\* The values of a topology key on a node: every node has a hostname.
Domain(node, key) ==
  LET found == {l.value : l \in {l \in node.labels : l.key = key}} IN
  IF key = "kubernetes.io/hostname" /\ found = {} THEN {node.name} ELSE found

Occupants(at, i) == {q \in DOMAIN at : at[q] = i}

\* Nothing is reserved of an extended resource, and who asks for none is not
\* held up by it.
Fits(nodes, pods, at, p, i) ==
  /\ \A d \in Resources :
       pods[p].size[d] + Total([q \in Occupants(at, i) |-> pods[q].size[d]])
         <= nodes[i].cap[d] - nodes[i].reserved[d]
  /\ \A e \in Extended : pods[p].extended[e] > 0 =>
       pods[p].extended[e] + Total([q \in Occupants(at, i) |-> pods[q].extended[e]])
         <= nodes[i].extended[e]
  /\ nodes[i].maxPods > 0
       => nodes[i].reservedPods + Cardinality(Occupants(at, i)) + 1 <= nodes[i].maxPods

InScope(term, p, q) == IF term.namespaces = {} THEN q.ns = p.ns ELSE q.ns \in term.namespaces

\* An anti-affinity term of p speaks of q.
Repels(term, p, q) == InScope(term, p, q) /\ SelectorMatches(term.selector, q.labels)

\* Looks at the terms of p, not at those of the pods placed before it.
SatisfiesAntiAffinity(nodes, pods, at, p, i) ==
  \A term \in pods[p].antiAffinity :
    LET domain == Domain(nodes[i], term.topologyKey) IN
    /\ domain # {}
    /\ \A j \in 1..Len(nodes) : Domain(nodes[j], term.topologyKey) = domain
         => \A q \in Occupants(at, j) \ {p} : ~Repels(term, pods[p], pods[q])

\* A spread constraint of p counts q.
CountsFor(c, p, q) == q.ns = p.ns /\ SelectorMatches(c.selector, q.labels)

\* How many pods in each domain of the constraint, p itself left out.
SpreadCount(nodes, pods, at, p, c, domain) ==
  Cardinality({q \in DOMAIN at \ {p} :
    /\ at[q] # 0 /\ Domain(nodes[at[q]], c.topologyKey) = domain
    /\ CountsFor(c, pods[p], pods[q])})

\* ScheduleAnyway is soft.  Too few domains count as one that is empty.
SatisfiesSpread(nodes, pods, at, p, i) ==
  \A c \in {c \in pods[p].topologySpread : c.hard} :
    LET domain == Domain(nodes[i], c.topologyKey)
        domains == {Domain(nodes[j], c.topologyKey) : j \in 1..Len(nodes)} \ {{}}
        projected == SpreadCount(nodes, pods, at, p, c, domain) + 1
        least == Min({projected} \cup {SpreadCount(nodes, pods, at, p, c, d) : d \in domains \ {domain}})
        base == IF c.minDomains > Cardinality(domains) THEN 0 ELSE least IN
    domain # {} /\ projected - base <= c.maxSkew

Admits(nodes, pods, at, p, i) ==
  /\ Fits(nodes, pods, at, p, i)
  /\ Eligible(pods[p], nodes[i])
  /\ SatisfiesAntiAffinity(nodes, pods, at, p, i)
  /\ SatisfiesSpread(nodes, pods, at, p, i)

-----------------------------------------------------------------------------
(* The simulation.                                                         *)

\* Largest first, memory before CPU, then by name.
Precedes(pods, p, q) ==
  LET a == pods[p].size  b == pods[q].size IN
  IF a["mem"] # b["mem"] THEN a["mem"] > b["mem"]
  ELSE IF a["cpu"] # b["cpu"] THEN a["cpu"] > b["cpu"]
  ELSE p < q

SortedForPacking(pods) == Ranked(DOMAIN pods, LAMBDA p, q : Precedes(pods, p, q))

\* p goes to the first node that admits it, or stays out.
Assign(nodes, pods, at, p) ==
  LET open == {i \in 1..Len(nodes) : Admits(nodes, pods, at, p, i)} IN
  IF open = {} THEN at ELSE [at EXCEPT ![p] = Min(open)]

\* One pod after the other; all are out at first.
Fit(nodes, pods) ==
  LET order == SortedForPacking(pods)
      after[r \in 0..Len(order)] ==
        IF r = 0 THEN [p \in DOMAIN pods |-> 0]
        ELSE Assign(nodes, pods, after[r - 1], order[r])
  IN after[Len(order)]

\* Some pod of a set has a constraint that cannot be evaluated.
Indeterminate(pods) == \E p \in pods : p.unmodelled # {}

\* No pod stays out.
AllPlaced(nodes, pods) == LET at == Fit(nodes, pods) IN \A p \in DOMAIN pods : at[p] # 0

=============================================================================
