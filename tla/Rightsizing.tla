---------------------------- MODULE Rightsizing ----------------------------
(***************************************************************************)
(* The requests of workloads over many passes.  Passes measure them and    *)
(* trim one at a time; the dashboard turns a finding into a pull request   *)
(* on the manifest, which somebody merges and applies later; owners apply  *)
(* the manifest, controllers roll the pods, and load, readiness and        *)
(* metrics come and go meanwhile.                                          *)
(*                                                                         *)
(* The gates of a single pass (switch, audit rows, retries) are Pipeline's *)
(* and the dashboard's days and caches are Dashboard's: here are the       *)
(* amounts.  Each workload is followed in one resource, the scene's.       *)
(*                                                                         *)
(* A definition X_Fault is X with one plausible mistake; no specification  *)
(* uses it.                                                                *)
(***************************************************************************)
EXTENDS Planner, FiniteSets

CONSTANTS
  Workloads,    \* Kind/name, as targets have it
  Order,        \* Workloads in the order of a report's findings
  Namespace,    \* of each workload
  Protected,    \* provider-managed ones
  Scenes        \* what each workload is followed in, starts with and meets

Actor == {"rollout", "load", "pods", "metrics", "labels", "owner", "pulls", "failures"}

\* A scene: some workloads, each with its resource, its replicas, what its
\* containers ask for at first and the usages they may have; who acts beside the
\* passes, on what, and how often.
SceneOK(s) ==
  /\ DOMAIN s = {"resource", "replicas", "first", "loads", "env", "about", "events"}
  /\ DOMAIN s.first \subseteq Workloads /\ s.about \subseteq DOMAIN s.first
  /\ \A w \in DOMAIN s.first :
       /\ s.resource[w] \in Resource /\ s.replicas[w] \in Nat \ {0}
       /\ s.first[w] \in [DOMAIN s.first[w] -> Nat] /\ IsFiniteSet(DOMAIN s.first[w])
       /\ s.loads[w] # {} /\ s.loads[w] \subseteq [DOMAIN s.first[w] -> Nat]
  /\ s.env \subseteq Actor /\ s.events \in Nat

ASSUME RightsizingAssumption ==
  /\ Order \in Seq(Workloads)
  /\ Namespace \in [Workloads -> STRING]
  /\ Protected \subseteq Workloads
  /\ \A s \in Scenes : SceneOK(s)

VARIABLES
  scene,      \* one of Scenes, for good
  load,       \* what each container of each pod of a workload uses
  template,   \* requests in the workload's pod template
  manifest,   \* requests in the repository's manifest
  pods,       \* the pods of each workload
  optedIn,    \* the namespaces carry the remediation label
  counts,     \* occurrences in the recommendation rows, up to Top
  report,     \* the findings of the latest report, per workload
  pass,       \* local state of the process
  pull,       \* pull request of each workload, until it is deployed
  events,     \* disturbances so far
  basis       \* history: what is still true of the figures each stage holds

vars == <<scene, load, template, manifest, pods, optedIn, counts, report, pass, pull, events, basis>>
world == <<scene, load, optedIn>>

\* Something happens that need not.
Event(actor) == actor \in scene.env /\ events < scene.events /\ events' = events + 1

Top == Limits.occurrences + 1

\* "failing": running and measured, but not ready.  "blind": ready, not measured.
Status == {"starting", "blind", "up", "failing"}
Ready == {"blind", "up"}
Metered == {"up", "failing"}

Present == DOMAIN scene.first
Containers(w) == DOMAIN scene.first[w]

NoPull == [stage |-> "none", rule |-> "", container |-> "", value |-> 0]

\* Who holds figures, in the order in which they are handed on.
Holder == {"pass", "report", "pull"}

\* covers: as many pods were measured as counted ready, and the load is still
\* that.  level: every pod was ready and ran the template, which is still that.
Nothing == [covers |-> FALSE, level |-> FALSE]
NoBasis == [w \in Present |-> Nothing]

Idle == [pc |-> "idle", requests |-> [w \in Present |-> 0], usage |-> [w \in Present |-> None],
         metered |-> [w \in Present |-> 0], labels |-> FALSE, todo |-> {}]

Init ==
  /\ scene \in Scenes
  /\ load \in {l \in [Present -> UNION {scene.loads[w] : w \in Present}] :
                 \A w \in Present : l[w] \in scene.loads[w]}
  /\ template = scene.first /\ manifest = scene.first
  /\ pods = [w \in Present |->
               [i \in 1..scene.replicas[w] |-> [requests |-> scene.first[w], status |-> "up"]]]
  /\ optedIn = TRUE
  /\ counts = [w \in Present |-> [r \in Rule |-> 0]]
  /\ report = [w \in Present |-> {}]
  /\ pass = Idle
  /\ pull = [w \in Present |-> NoPull]
  /\ events = 0
  /\ basis = [h \in Holder |-> NoBasis]

-----------------------------------------------------------------------------
(* A pass.                                                                 *)

Listed(w, i) ==
  [requests |-> pods[w][i].requests,
   usage    |-> IF pods[w][i].status \in Metered THEN PodRequest(load[w]) ELSE None]

Measured(w) == Aggregate([i \in DOMAIN pods[w] |-> Listed(w, i)])

NumberOf(w, statuses) == Cardinality({i \in DOMAIN pods[w] : pods[w][i].status \in statuses})

AllSettled ==
  \A w \in Present : \A i \in DOMAIN pods[w] :
    pods[w][i] = [requests |-> template[w], status |-> "up"]

\* Metrics and pods; a failed read of the metrics is a cluster without any.
\* The half hour between two passes is enough for a rollout but in the events of
\* "rollout".
ListPods ==
  /\ pass.pc = "idle"
  /\ \E silent \in BOOLEAN :
       /\ IF AllSettled /\ ~silent THEN events' = events
          ELSE Event(IF silent THEN "metrics" ELSE "rollout")
       /\ pass' = [pass EXCEPT
            !.pc = "listed", !.labels = optedIn,
            !.requests = [w \in Present |-> Measured(w).requests],
            !.usage = [w \in Present |-> IF silent THEN None ELSE Measured(w).usage],
            !.metered = [w \in Present |-> IF silent THEN 0 ELSE NumberOf(w, Metered)]]
  /\ basis' = [basis EXCEPT !["pass"] =
       [w \in Present |->
          [covers |-> TRUE,
           level |-> \A i \in DOMAIN pods[w] :
                       pods[w][i].status \in Ready /\ pods[w][i].requests = template[w]]]]
  /\ UNCHANGED <<world, template, manifest, pods, counts, report, pull>>

\* The workload as the snapshot has it: its pods from one List, its count of
\* ready replicas from a later one.
Workload(w) ==
  [replicas |-> NumberOf(w, Ready), requests |-> pass.requests[w], usage |-> pass.usage[w]]

Found(w) == Findings(scene.resource[w], Workload(w))

IsTrim(rule) == rule \in {"cpu-request-over-provisioned", "memory-request-over-provisioned"}

TargetOf(w, rule) == TargetForRule(rule, Namespace[w], w, pass.labels)

Container(w, rule) == TargetContainer(TargetOf(w, rule), Containers(w))

Trim(w) == RequestTrim(scene.resource[w], Workload(w))

\* plan.Build's gates; counts are those of earlier passes.
Plannable(w, rule) ==
  /\ IsTrim(rule)
  /\ w \notin Protected
  /\ TargetOf(w, rule).found
  /\ Rank(GradeOf(rule)) >= Rank(Limits.confidence)
  /\ counts[w][rule] >= Limits.occurrences
  /\ Container(w, rule) # ""
  /\ Trim(w) > 0

\* What is planned for the i-th workload: one action, or none.
PlanFor(i) ==
  LET w == Order[i] IN
  {[at |-> i, workload |-> w, rule |-> r, container |-> Container(w, r), value |-> Trim(w),
    needsOptIn |-> TargetOf(w, r).needsOptIn] :
     r \in {f.rule : f \in {g \in Found(w) : Plannable(w, g.rule)}}}

\* The first MaxActions of some places in the order.
FirstOf(places) == {i \in places : Cardinality({j \in places : j < i}) < Limits.actions}

InScene == {i \in DOMAIN Order : Order[i] \in Present}

Build_Fault == UNION {PlanFor(i) : i \in FirstOf({i \in InScene : Found(Order[i]) # {}})}

\* The first MaxActions of the findings that pass the gates.
Build == UNION {PlanFor(i) : i \in FirstOf({i \in InScene : PlanFor(i) # {}})}

Counted(w) ==
  [r \in Rule |-> IF \E f \in Found(w) : f.rule = r THEN AtMost(counts[w][r] + 1, Top)
                  ELSE counts[w][r]]

\* Workloads, the analysis, the report to the store, and the plan.
Analyze ==
  /\ pass.pc = "listed"
  /\ LET held == [w \in Present |->
                    [covers |-> basis["pass"][w].covers /\ pass.metered[w] >= Workload(w).replicas,
                     level |-> basis["pass"][w].level
                                 /\ Workload(w).replicas = Len(pods[w])]]
     IN \E todo \in {Build} :
        /\ report' = [w \in Present |-> Found(w)]
        /\ counts' = [w \in Present |-> Counted(w)]
        /\ pass' = IF todo = {} THEN Idle ELSE [Idle EXCEPT !.pc = "apply", !.todo = todo]
        /\ basis' = [basis EXCEPT
             !["pass"] = IF todo = {} THEN NoBasis ELSE held,
             !["report"] = [w \in Present |-> IF Found(w) = {} THEN Nothing ELSE held[w]]]
  /\ UNCHANGED <<world, template, manifest, pods, pull, events>>

\* Actions are applied in the order of the report.
Turn(a) == pass.pc = "apply" /\ a \in pass.todo /\ \A b \in pass.todo : a.at <= b.at

Final == Cardinality(pass.todo) = 1
Advance(a) == pass' = IF Final THEN Idle ELSE [pass EXCEPT !.todo = @ \ {a}]
Forget(b) == IF Final THEN [b EXCEPT !["pass"] = NoBasis] ELSE b

\* The template of w is another one now than the figures were read off.
Retemplated(w) ==
  [h \in Holder |-> [basis[h] EXCEPT ![w].level = FALSE]]

\* A strategic merge patch of the container's requests: whatever it asks for now.
PatchWorkload(a) ==
  /\ Turn(a)
  /\ a.needsOptIn => optedIn
  /\ template' = [template EXCEPT ![a.workload][a.container] = a.value]
  /\ basis' = Forget(Retemplated(a.workload))
  /\ Advance(a)
  /\ UNCHANGED <<world, manifest, pods, counts, report, pull, events>>

\* The namespace has opted out meanwhile, or the call failed.
PatchSkipped(a) ==
  /\ Turn(a)
  /\ IF a.needsOptIn /\ ~optedIn THEN events' = events ELSE Event("failures")
  /\ Advance(a)
  /\ basis' = Forget(basis)
  /\ UNCHANGED <<world, template, manifest, pods, counts, report, pull>>

\* The pass returns an error, or dies.
Abandon ==
  /\ Event("failures") /\ pass.pc # "idle"
  /\ pass' = Idle
  /\ basis' = [basis EXCEPT !["pass"] = NoBasis]
  /\ UNCHANGED <<world, template, manifest, pods, counts, report, pull>>

Apply == \E a \in pass.todo : PatchWorkload(a) \/ PatchSkipped(a)

PassStep == ListPods \/ Analyze \/ Apply

-----------------------------------------------------------------------------
(* Pull requests: the dashboard's dispatch, the workflow, api-yml-remediator. *)

\* The workflow writes the figure into the manifest of its branch; a container
\* it does not find fails it.  So does a file left as it was, but one that has the
\* figure already may still differ in its layout.  One pull request of a workload
\* at a time.
Dispatch(w) ==
  /\ Event("pulls") /\ pull[w] = NoPull
  /\ w \notin Protected
  /\ \E f \in report[w], t \in EntryAt(<<Namespace[w], w>>) :
       /\ OffersPullRequest(f.rule, Namespace[w], w)
       /\ t.container \in Containers(w)
       /\ pull' = [pull EXCEPT ![w] = [stage |-> "open", rule |-> f.rule,
                                      container |-> t.container, value |-> Figure(f)]]
  /\ basis' = [basis EXCEPT !["pull"][w] = basis["report"][w]]
  /\ UNCHANGED <<world, template, manifest, pods, counts, report, pass>>

Merge(w) ==
  /\ pull[w].stage = "open"
  /\ manifest' = [manifest EXCEPT ![w][pull[w].container] = pull[w].value]
  /\ pull' = [pull EXCEPT ![w].stage = "merged"]
  /\ UNCHANGED <<world, template, pods, counts, report, pass, events, basis>>

Close(w) ==
  /\ pull[w].stage = "open"
  /\ pull' = [pull EXCEPT ![w] = NoPull]
  /\ basis' = [basis EXCEPT !["pull"][w] = Nothing]
  /\ UNCHANGED <<world, template, manifest, pods, counts, report, pass, events>>

\* kubectl apply, by an owner or after a merge: the manifest wins over what a
\* pass has patched.
Deploy(w) ==
  /\ IF pull[w].stage = "merged" THEN events' = events ELSE Event("owner")
  /\ template' = [template EXCEPT ![w] = manifest[w]]
  /\ LET now == IF manifest[w] = template[w] THEN basis ELSE Retemplated(w) IN
     IF pull[w].stage = "merged"
     THEN /\ pull' = [pull EXCEPT ![w] = NoPull]
          /\ basis' = [now EXCEPT !["pull"][w] = Nothing]
     ELSE /\ pull' = pull
          /\ basis' = now
  /\ UNCHANGED <<world, manifest, pods, counts, report, pass>>

-----------------------------------------------------------------------------
(* The cluster.                                                            *)

SetLoad(w) ==
  /\ Event("load")
  /\ \E l \in scene.loads[w] \ {load[w]} : load' = [load EXCEPT ![w] = l]
  /\ basis' = [h \in Holder |-> [basis[h] EXCEPT ![w].covers = FALSE]]
  /\ UNCHANGED <<scene, template, manifest, pods, optedIn, counts, report, pass, pull>>

SetPod(w, i, pod) ==
  /\ pods' = [pods EXCEPT ![w][i] = pod]
  /\ UNCHANGED <<world, template, manifest, counts, report, pass, pull, basis>>

Becomes(w, i, from, to) ==
  pods[w][i].status = from /\ SetPod(w, i, [pods[w][i] EXCEPT !.status = to])

\* A controller replaces a pod of an older template while the others are ready.
Roll(w, i) ==
  /\ pods[w][i].requests # template[w]
  /\ \A j \in DOMAIN pods[w] \ {i} : pods[w][j].status \in Ready
  /\ SetPod(w, i, [requests |-> template[w], status |-> "starting"])
  /\ UNCHANGED events

\* A pod gets ready, and its metrics arrive a scrape later.
Settle(w, i) ==
  /\ \/ Becomes(w, i, "starting", "blind") \/ Becomes(w, i, "blind", "up")
     \/ Becomes(w, i, "failing", "up")
  /\ UNCHANGED events

Disturb(w, i) ==
  \/ Event("pods") /\ Becomes(w, i, "up", "failing")
  \/ Event("metrics") /\ Becomes(w, i, "up", "blind")

OptIn ==
  /\ Event("labels")
  /\ optedIn' = ~optedIn
  /\ UNCHANGED <<scene, load, template, manifest, pods, counts, report, pass, pull, basis>>

Pods(w) == 1..scene.replicas[w]

Cluster == \E w \in Present : \E i \in Pods(w) : Roll(w, i) \/ Settle(w, i)

People == \E w \in scene.about : Dispatch(w) \/ Merge(w) \/ Close(w) \/ Deploy(w)

Trouble ==
  \/ Abandon \/ OptIn
  \/ \E w \in scene.about : SetLoad(w) \/ \E i \in Pods(w) : Disturb(w, i)

Next == PassStep \/ Cluster \/ People \/ Trouble

Spec == Init /\ [][Next]_vars

\* The CronJob runs on, and controllers and the kubelet do their work.  The third
\* conjunct is weak fairness of Analyze, which is always possible after ListPods.
Fairness ==
  /\ WF_vars(ListPods) /\ WF_vars(Apply) /\ WF_vars(Cluster)
  /\ []<>(pass.pc # "listed")

FairSpec == Spec /\ Fairness

-----------------------------------------------------------------------------
(* Properties.                                                             *)

Requests(w) == [Containers(w) -> Nat]

\* Everything keeps its type: no request is ever negative, and a planned value
\* is for a container the workload has.
RightsizingTypeOK ==
  /\ scene \in Scenes /\ optedIn \in BOOLEAN
  /\ \A w \in Present :
       /\ load[w] \in scene.loads[w]
       /\ template[w] \in Requests(w) /\ manifest[w] \in Requests(w)
       /\ \A i \in Pods(w) : pods[w][i].requests \in Requests(w) /\ pods[w][i].status \in Status
       /\ counts[w] \in [Rule -> 0..Top]
       /\ \A f \in report[w] : f.rule \in Rule /\ f.observed \in Nat /\ f.request \in Nat
       /\ pull[w].stage # "none" => pull[w].container \in Containers(w) /\ pull[w].value \in Nat \ {0}
       /\ \A h \in Holder : basis[h][w] \in [covers : BOOLEAN, level : BOOLEAN]
  /\ pass.pc \in {"idle", "listed", "apply"}
  /\ Cardinality(pass.todo) <= Limits.actions
  /\ \A a \in pass.todo : a.container \in Containers(a.workload) /\ a.value \in Nat \ {0}

\* A trim leaves the container at least what its whole pod uses, and the
\* headroom, unless fewer pods were measured than counted ready or the load has
\* moved (plan.go:205; README, "enforces floors").  It holds through partial
\* readiness, rollouts and several containers.
TrimCoversUsage ==
  [][\A a \in pass.todo :
       PatchWorkload(a) /\ basis["pass"][a.workload].covers =>
         template'[a.workload][a.container]
           >= (PodRequest(load[a.workload]) * Limits.headroom[1]) \div Limits.headroom[2]]_vars

\* Only the single container of a pod whose replicas were all ready, on the
\* template that still stands: then a patch lowers it, never by more than one
\* pass may take; and in any case not below the floor (runbook.md, "Things the
\* optimizer will never do on its own").
TrimsWithinLimits ==
  [][\A a \in pass.todo : PatchWorkload(a) =>
       LET w == a.workload
           old == template[w][a.container]
           new == template'[w][a.container] IN
       /\ new >= Limits.floor[scene.resource[w]]
       /\ basis["pass"][w].level /\ Containers(w) = {a.container} =>
            new < old /\ old - new <= (old * Limits.trim[1]) \div Limits.trim[2]]_vars

\* A figure deployed through a pull request leaves the container a quarter more
\* than its pod uses, however late, under the same condition
\* (remediationTargetsFromEvidence).
PullCoversUsage ==
  [][\A w \in Present :
       Deploy(w) /\ pull[w].stage = "merged" /\ basis["pull"][w].covers =>
         template'[w][pull[w].container] >= (PodRequest(load[w]) * 5) \div 4]_vars

\* And it moves the request the way its rule says, where nothing has moved it
\* since and the figures are those of one container.
PullMovesAsFound ==
  [][\A w \in Present :
       Deploy(w) /\ pull[w].stage = "merged" /\ basis["pull"][w].level
       /\ Containers(w) = {pull[w].container} =>
         IF IsTrim(pull[w].rule)
         THEN template'[w][pull[w].container] < template[w][pull[w].container]
         ELSE template'[w][pull[w].container] > template[w][pull[w].container]]_vars

\* What a report would say of w with all its pods rolled, ready and measured.
Steady(w) ==
  [replicas |-> scene.replicas[w], requests |-> scene.replicas[w] * PodRequest(template[w]),
   usage |-> scene.replicas[w] * PodRequest(load[w])]

Fits(w) == \A f \in Findings(scene.resource[w], Steady(w)) : ~IsTrim(f.rule)

\* The workloads a trim can settle: with a target and a single container.
Covered(w) ==
  /\ w \notin Protected
  /\ \E c \in Containers(w) : Containers(w) = {c}
  /\ \A rule \in Rule : IsTrim(rule) =>
       LET t == TargetForRule(rule, Namespace[w], w, TRUE) IN
       t.found /\ TargetContainer(t, Containers(w)) \in Containers(w)

CoveredFit == \A w \in Present : Covered(w) => Fits(w)

\* After the last disturbance, where the namespace stays opted in, repeated trims
\* end with every covered workload fitting its usage, although each takes half at
\* most and a pass takes few (README, rules: "live trim").
TrimsConverge == <>[]optedIn => <>[]CoveredFit
=============================================================================
