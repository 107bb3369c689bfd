------------------------------ MODULE Planner ------------------------------
(***************************************************************************)
(* What a report says of a workload's requests, and what may be done about *)
(* it: the aggregates of the collector, the usage rules of the analyzer,   *)
(* the remediation target of a rule (classifier), the trim the planner     *)
(* proposes, and the figure the dashboard puts in a pull request.          *)
(*                                                                         *)
(* Amounts are millicores or MiB, whole numbers as in the code, and every  *)
(* division is the code's: it truncates.  A definition X_Fault is X with   *)
(* one plausible mistake; no specification uses it.                        *)
(***************************************************************************)
EXTENDS Integers, Sequences, SequencesExt, FiniteSetsExt

CONSTANTS
  Policy,    \* plan.Policy: a field of 0, or no confidence, takes its default
  Targets    \* entries of the targets file that are for this cluster

Resource == {"cpu", "memory"}
Confidences == {"low", "medium", "high"}
Rule == {"cpu-request-over-provisioned", "memory-request-over-provisioned",
         "memory-request-below-usage"}

\* A target's namespace or workload may be "*", and its container; "" is unset.
Entry(t) ==
  /\ DOMAIN t = {"namespace", "workload", "container", "rules", "repository", "manifest"}
  /\ t.namespace \in STRING /\ t.workload \in STRING /\ t.container \in STRING
  /\ t.rules \subseteq Rule /\ t.repository \in BOOLEAN /\ t.manifest \in BOOLEAN

ASSUME PlannerAssumption ==
  /\ Policy \in [confidence : Confidences \cup {""}, occurrences : Nat, persistence : BOOLEAN,
                 floor : [Resource -> Nat], headroom : Nat \X Nat, trim : Nat \X Nat,
                 actions : Nat]
  /\ \A t \in Targets : Entry(t)
  /\ \A s, t \in Targets : s.namespace = t.namespace /\ s.workload = t.workload => s = t

-----------------------------------------------------------------------------
(* The collector.                                                          *)

None == -1     \* no value: a nil pointer

TotalOver(f, S) == MapThenSumSet(LAMBDA x : f[x], S)

\* Requests of a pod, all its containers together.
PodRequest(requests) == TotalOver(requests, DOMAIN requests)

\* addPtr: a pod without metrics adds nothing, and all of them without is none.
Observed(usages) ==
  LET seen == {i \in DOMAIN usages : usages[i] # None} IN
  IF seen = {} THEN None ELSE TotalOver(usages, seen)

\* aggregatePods, for the active pods of one owner.
Aggregate(pods) ==
  [requests |-> TotalOver([i \in DOMAIN pods |-> PodRequest(pods[i].requests)], DOMAIN pods),
   usage    |-> Observed([i \in DOMAIN pods |-> pods[i].usage])]

-----------------------------------------------------------------------------
(* The analyzer: analyzeUsage.                                             *)

\* Fleet totals over the ready replicas, although they sum the other pods too.
PerReplica(w) ==
  [usage |-> IF w.usage = None THEN None ELSE w.usage \div w.replicas,
   request |-> w.requests \div w.replicas]

BelowUsage(e) ==
  e.request > 0 /\ e.usage > (e.request * 12) \div 10 /\ e.usage - e.request > 64

MemoryOver(e) ==
  e.request > 0 /\ e.usage < e.request \div 2 /\ e.request - e.usage > 128

CPUOver(e) ==
  e.usage > 0 /\ e.request > 0 /\ e.usage < e.request \div 5 /\ e.request - e.usage > 100

\* A finding carries its evidence: the figures the planner looks up again and
\* the dashboard reads back from the text.
Findings(resource, w) ==
  IF w.replicas < 1 \/ w.usage = None THEN {}
  ELSE LET e == PerReplica(w)
           rules == CASE resource = "cpu" ->
                           {r \in {"cpu-request-over-provisioned"} : CPUOver(e)}
                      [] OTHER ->
                           {r \in {"memory-request-over-provisioned"} : MemoryOver(e)} \cup
                           {r \in {"memory-request-below-usage"} : BelowUsage(e)}
       IN {[rule |-> r, observed |-> e.usage, request |-> e.request] : r \in rules}

\* The confidence the analyzer gives each rule.
GradeOf(rule) == IF rule = "memory-request-below-usage" THEN "medium" ELSE "low"

Rank(confidence) ==
  CASE confidence = "low" -> 1 [] confidence = "medium" -> 2 [] confidence = "high" -> 3
    [] OTHER -> 0

-----------------------------------------------------------------------------
(* The classifier: effectiveTarget.                                        *)

\* Keys from the most specific one; wildcard namespaces only for one opted in.
Keys(namespace, workload, optedIn) ==
  <<<<namespace, workload>>, <<namespace, "*">>>> \o
  (IF optedIn THEN <<<<"*", workload>>, <<"*", "*">>>> ELSE <<>>)

EntryAt(key) == {t \in Targets : t.namespace = key[1] /\ t.workload = key[2]}

\* The first key with a fitting entry gives the value, as merging the entries in
\* order does: a field once set is kept.
FirstEntry(keys, fitting) ==
  LET hits == {i \in DOMAIN keys : EntryAt(keys[i]) \cap fitting # {}} IN
  IF hits = {} THEN {} ELSE EntryAt(keys[Min(hits)])

\* What a rule may do to a workload: on which container, and whether by leave
\* of a wildcard namespace only.
TargetForRule(rule, namespace, workload, optedIn) ==
  LET keys == Keys(namespace, workload, optedIn)
      supporting == FirstEntry(keys, {t \in Targets : rule \in t.rules})
      naming == FirstEntry(keys, {t \in Targets : t.container # ""})
  IN [found     |-> supporting # {},
      container |-> IF naming = {} THEN "" ELSE (CHOOSE t \in naming : TRUE).container,
      needsOptIn |-> \E t \in supporting : t.namespace = "*"]

TargetContainer_Fault(target, containers) == target.container

\* A wildcard container stands for the only one there is.
TargetContainer(target, containers) ==
  IF target.container # "*" THEN target.container
  ELSE IF \E c \in containers : containers = {c} THEN CHOOSE c \in containers : TRUE
  ELSE ""

-----------------------------------------------------------------------------
(* The planner.                                                            *)

\* applyDefaults.  MinOccurrences keeps a 0: it then gates nothing.
Limits ==
  LET Or(n, default) == IF n <= 0 THEN default ELSE n IN
  [confidence  |-> IF Policy.confidence = "" THEN "high" ELSE Policy.confidence,
   occurrences |-> Policy.occurrences,
   persistence |-> Policy.persistence,
   floor       |-> [r \in Resource |-> Or(Policy.floor[r], IF r = "cpu" THEN 10 ELSE 32)],
   headroom    |-> <<Or(Policy.headroom[1], 3), Or(Policy.headroom[2], 2)>>,
   trim        |-> <<Or(Policy.trim[1], 1), Or(Policy.trim[2], 2)>>,
   actions     |-> Or(Policy.actions, 1)]

AtLeast(a, b) == IF a < b THEN b ELSE a
AtMost(a, b) == IF a < b THEN a ELSE b

ProposeRequest_Fault(usage, current, headroom, floor, trim) ==
  LET target == AtLeast((usage * headroom[2]) \div headroom[1], floor)
      allowed == current - (current * trim[1]) \div trim[2]
      proposed == AtLeast(AtLeast(target, allowed), floor)
  IN IF usage < 0 \/ current <= 0 \/ target >= current \/ proposed >= current THEN 0
     ELSE proposed

\* Usage with headroom; not below the floor, nor below what one pass may leave.
ProposeRequest(usage, current, headroom, floor, trim) ==
  LET target == AtLeast((usage * headroom[1]) \div headroom[2], floor)
      allowed == current - (current * trim[1]) \div trim[2]
      proposed == AtLeast(AtLeast(target, allowed), floor)
  IN IF usage < 0 \/ current <= 0 \/ target >= current \/ proposed >= current THEN 0
     ELSE proposed

RequestTrim_Fault(resource, w) ==
  IF w.replicas < 1 \/ w.usage = None \/ w.requests <= 0 THEN 0
  ELSE ProposeRequest(w.usage, w.requests, Limits.headroom, Limits.floor[resource], Limits.trim)

\* planRequestTrim: 0 when there is no safe trim.
RequestTrim(resource, w) ==
  IF w.replicas < 1 \/ w.usage = None \/ w.requests <= 0 THEN 0
  ELSE LET e == PerReplica(w) IN
       ProposeRequest(e.usage, e.request, Limits.headroom, Limits.floor[resource], Limits.trim)

-----------------------------------------------------------------------------
(* The dashboard: remediationTargetsFromEvidence.                          *)

RoundUp_Fault(value, step) == value - (value % step)

RoundUp(value, step) == IF value % step = 0 THEN value ELSE value + step - (value % step)

Figure_Fault(f) ==
  CASE f.rule = "cpu-request-over-provisioned" ->
         RoundUp(AtLeast(AtMost(AtLeast(f.observed * 3, 50), (f.request * 70) \div 100), 25), 5)
    [] OTHER ->
         RoundUp(AtMost(AtLeast((f.observed * 3) \div 2, 128), (f.request * 80) \div 100), 16)

Figure(f) ==
  CASE f.rule = "cpu-request-over-provisioned" ->
         RoundUp(AtLeast(AtMost(AtLeast(f.observed * 3, 50), (f.request * 70) \div 100), 25), 5)
    [] f.rule = "memory-request-over-provisioned" ->
         RoundUp(AtMost(AtLeast((f.observed * 3) \div 2, 128), (f.request * 80) \div 100), 16)
    [] OTHER -> RoundUp((f.observed * 5) \div 4, 16)

\* Only an entry for the workload itself counts, without its wildcards.
OffersPullRequest(rule, namespace, workload) ==
  \E t \in EntryAt(<<namespace, workload>>) :
    t.repository /\ t.manifest /\ (t.rules = {} \/ rule \in t.rules)
=============================================================================
