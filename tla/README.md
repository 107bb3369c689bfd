# Cluster optimizer: specification and proofs

TLA+ models of the decisions cluster-optimizer takes on a live cluster, the TLC
configurations that check them on small instances, and proofs of the properties
that must hold on every cluster. Paths are relative to the repository, whose
root is `src/` here; `PROJECT.json` maps each definition to the lines it models.

## The system

A CronJob (`manifests/cronjob.yaml`, every half hour, `concurrencyPolicy:
Forbid`, `backoffLimit: 1`) runs one pass of `cmd/cluster-optimizer`. The pass
reads the cluster, decides, changes at most a little, and exits: all memory
between passes is in Kubernetes objects (annotations on nodes, the halt
ConfigMap) and in DynamoDB. A dashboard reads the same store and writes the halt
switch. A DaemonSet cleans images on each node.

| Component | State | Operations | Talks to |
|---|---|---|---|
| nudger (`internal/nudger/nudger.go`) | none between passes; per pass: the lists it read, candidates, target | halt check, choose one node, cordon, evict its pods | API server: nodes, pods, PDBs, evictions |
| cordon reaper (`internal/nudger/cordon.go`) | four node annotations: `cordoned-at`, `cordoned-by-run`, `prior-unschedulable`, `cordon-reaped-at` | claim, reap stale cordons, strip leftovers, cooldown test | API server: nodes |
| pipeline (`cmd/cluster-optimizer`) | a context with a deadline, the events of the pass | collect, analyse, report, apply, nudge, clean, persist | everything below |
| planner (`internal/plan`) | none | propose a request trim, cap changes per pass, need repeated sightings | classifier, store, usage |
| applier (`internal/applier`) | none | read halt, patch one workload at a time | API server: workloads |
| capacity (`internal/capacity`) and bin packing (`internal/binpack`) | none | smallest safe node count of a pool; authorise or withhold | collector, usage |
| usage (`internal/usage`) | none | pick a metrics provider, grade its evidence | metrics API, Prometheus |
| classifier, collector, analyzer, quantity, model | none | translate objects, derive flags and findings | API server |
| pod cleanup (`internal/podgc`) | none | delete completed pods past retention | API server: pods |
| image cleanup (`internal/imagegc`, `cmd/node-image-gc`) | last run per node process | remove images no container uses | container runtime |
| store (`internal/store`) | DynamoDB rows: recommendations with occurrences, engine status, remediation audit | read, batch write | DynamoDB |
| dashboard (`cmd/cluster-optimizer-ui`) | two caches with expiry, the halt switch it writes | reports, history, halt on and off | store, API server |
| generators, scripts, dashboard client | none | text in, text out | files, browser |

What is hard in it:

* **Nothing is locked.** Kubernetes gives optimistic concurrency on one object
  and nothing across objects. The pass judges a whole pool on one List and acts
  on one node several calls later, while operators, the kubelet, the autoscaler
  and perhaps another run act too.
* **It dies anywhere.** The pass evicts pods; it can evict or strand itself, hit
  its deadline, or be killed. What it leaves behind must be repairable from the
  annotations alone.
* **It undoes its own work.** The reaper gives back what the nudger took; tuned
  badly they take turns forever.
* **It retries and returns early.** `backoffLimit: 1` repeats a pass that may
  have changed the cluster; an error return skips the audit rows.
* **Boundaries.** Pools of one and two nodes, floors, zero replicas, exhausted
  budgets.

What makes each part correct:

* *nudger and reaper*: a cordon of the tool can always be told from an
  operator's and is given back in the end, not before its time; an operator's
  cordon is not reversed; a pool is never cut below its safe minimum, never has
  two nodes out at once, and rests after a reap; no drain for pods that cannot
  leave or have nowhere to go; the pass does not drain itself; a dry-run writes
  nothing.
* *pipeline, applier, planner, store*: at most the configured number of changes
  per pass and per finding; only findings seen often enough; no change without
  its audit row; halted means no change; a trim never raises a request or drops
  it below the floor.
* *capacity, packing*: the minimum it reports admits a packing, also without its
  worst node; what it cannot model makes it withhold.
* *cleanup*: only completed pods past retention, only unused images, nothing when
  halted.
* *dashboard*: what it shows after a halt is the halt.

## Modules

| Module | What it is |
|---|---|
| `Nudger` | the consolidation pass: reaper, choice, cordon, evictions, and everyone who interferes |
| `CordonLease` | abstract: what the pass promises about the nodes it takes out of service |
| `NudgerInvariant` | the inductive invariants behind the safety properties: of the cordons, and of a drain |
| `MCNudger` | constants for TLC; five `.cfg` files |
| `Nudger_proofs` | type correctness; the invariant of the cordons, its safety theorems, and that `Nudger` implements `CordonLease`; the invariants of a drain: budgets, room by node, the pool's minimum, and where evictions hit |
| `Pipeline` | a tick of the CronJob from its first call to its audit rows: counts, trims, consolidation from outside, pod cleanup, error returns, the Job's retry |
| `MCPipeline` | constants for TLC; two `.cfg` files |
| `Pipeline_proofs` | the invariant of a tick and the theorems on it |
| `Planner` | the arithmetic as operators: aggregates, the usage rules, targets, the trim, the figure of a pull request |
| `Rightsizing` | the requests of workloads over many passes, with trims, pull requests, rollouts and load |
| `MCRightsizing` | targets, policies and scenes for TLC; two `.cfg` files |
| `Rightsizing_proofs` | what the truncating divisions are worth, the invariant of the figures, and the theorems on trims and pull requests |
| `Dashboard` | the dashboard server: polls, toggles of the switch and dispatches of several tabs over two caches |
| `ImageCleanup` | a node's image cleanup, call by call, beside the kubelet |
| `SwitchedNode` | `Dashboard` and an instance of `ImageCleanup`, over one halt ConfigMap |
| `MCDashboard` | constants for TLC |
| `Dashboard_proofs` | how old what the caches hold can be, and what an acknowledged toggle promises |
| `SwitchedNode_proofs` | what a node's cleanup removes, under the dashboard's switch |
| `BinPack` | the placement simulation as operators: predicates and first-fit decreasing |
| `Collector` | how objects of the API server become the nodes and pods of a snapshot, as operators |
| `Evidence` | the choice between the sources of usage, and what their figures may be used for, as operators |
| `Capacity` | the minimum-N search over them, the verdict per pool, and a reference definition of a feasible placement |
| `MCCapacity` | objects of a few kinds and mixtures of sources for TLC; two `.cfg` files |
| `BinPack_proofs` | that first fit ends in a placement in which every hard predicate holds of all pods at once |
| `Capacity_proofs` | what a verdict guarantees whatever the cluster: the nodes kept hold the pods, also after a loss; nothing is given back on a guess; the cluster's figures add up |
| `Sums` | lemmas on sums over finite sets and on cardinalities, which four of the proof modules cite |

Nothing composes everything. `Nudger` and `Pipeline` each see the other from outside
(verdicts and cordons come and go), `Pipeline` has the gates and `Rightsizing` the amounts
of a trim, `Dashboard` the days and caches and `Rightsizing` the figure of a remediation.
A definition named `X_Fault`, or `X_` and a mistake, is `X` with that mistake: no
specification uses it, and each run's properties fail when it takes the place of `X`.

### Nudger and the code

The state is the API server's (`node`, `host`, `halted`), the memory of each
process (`run`), and two auxiliary variables. `copy[r]` stands for
resourceVersions: it is the node whose last Get by `r` is still current, and
every write to a node clears it, so an Update succeeds only on the object that
was read. `placed` is history and decides nothing: who made a node
unschedulable last.

A node is a record of the fields the pass reads. The two annotations
`cordoned-at` and `cordoned-by-run` are always written and removed together and
are one flag, `marked`, with the age of the stamp and the run that wrote it.
`prior-unschedulable` and `cordon-reaped-at` are fields of their own. Timestamps are held
as ages, which saturate at the highest value that any comparison can tell apart
(`TTL + MaxLag`, `Cooldown + MaxLag`). `now` is read once, when the pass begins,
so a comparison subtracts the ticks since (`lag`), and an annotation the pass
writes is that old already.

| Action | Code |
|---|---|
| `Start`, `Crash`, `Return` | the CronJob starts a process; it dies; every `return` of the pass |
| `HaltCheck` | the live halt read; anything but a readable "not set" ends the pass |
| `ReapList`, `ReapNothing` | `ReapStaleCordons`: the list and the decision per node |
| `ReapGet`, `ReapGetFails`, `ReapWrite`, `ReapWriteFails` | `releaseCordon` and `stripCordonMarkers`: Get, then Update, each of which may fail |
| `ListNodes` | node list, pool health, verdict, minimum, cooldown |
| `ListPods` | pod list; nodes that run the tool are dropped |
| `Select`, `Discard` | candidates by load: pods to move, simulation, budgets |
| `GetTarget`, `GetCordonedTarget`, `Claim` | Get, then `claimCordon`; a target already cordoned is drained as it is |
| `Evict`, `EvictFails` | the eviction loop |
| `Tick`, `OperatorCordon`, `OperatorUncordon`, `GarbleStamp`, `SetHalt`, `KubeletReport`, `RemoveNode`, `AddNode`, `Schedule`, `Restart` | time and the others; `Env` selects who acts |

Choices the model leaves open because the code does: Go visits the destination
map in random order, so the first-fit simulation may find any assignment that
fits, or miss one (`Select` and `Discard` are both enabled); ties between equally
loaded nodes; any call may fail. `Verdict` is an input: any verdict in
`Verdicts`, fixed when the pass starts, as capacity is computed before it.

What was abstracted: resources are integers over {cpu, mem}; the scheduling
constraints other than resources (taints, selectors, affinity) belong to the
capacity engine; a pod that has to restart is unscheduled until the scheduler
places it anywhere it fits, and one that is terminating, which the pass skips
(`nudger.go:258`), is taken for gone; statistics, events and messages are left out.
A `cordon-reaped-at` that cannot be read benches the pool as well (`cordon.go:245-249`);
it can only keep the tool from a cordon, so all stamps are readable here.
A provider does not reuse a node name while a process still remembers it
(`AddNode`).

### CordonLease

A cordon of the tool is a lease. A pool has at most one; it starts only when all
nodes of the pool are free of leases and rested; the tool ends it only after
`TTL`; the end starts a rest of `Cooldown` for the pool. Operators and the
autoscaler may change nodes as they like (`Foreign`), but cannot start a lease.
There are no runs, calls, crashes or conflicts in it. `Nudger` implements it
under `state`, `age` and `rest` as defined at the end of `Nudger.tla`.

### Pipeline and the code

The state is the cluster as far as a pass changes it (`slack`: trims each
workload can still take; `cordon`; `pods`), the switch and the namespace label,
two kinds of DynamoDB rows (`stored`: occurrences; `rows`: audit), and the locals
of the process (`pass`). `changed`, `sighted` and `quiet` are history. The attempts
of a Job are numbered; a new attempt starts from `Fresh`, which is all a new
process knows.

| Action | Code |
|---|---|
| `StartJob`, `Fails`, `Crash` | the schedule, `backoffLimit` and `restartPolicy: Never`; the process dies |
| `ReturnsError` | the `return err` of `run`: before the plan, in the consolidation pass, in the cleanup |
| `Collect` | the snapshot; findings of over-provisioned workloads; the label as collected |
| `ReadExisting`, `PutReport`, `PutReportFails` | counts read (an error is dropped), report and counts written, part of the batches written |
| `Plan` | the gates of `plan.Build` in their order of effect, `MaxActions` |
| `ApplyHalted`, `ApplyNoClient`, `ApplyBegin`, `PatchWorkload`, `PatchSkipped`, `PatchUnanswered` | `applier.Apply`: the switch, then per action a refusal, a patch, a failure, a lost answer |
| `Nudge*`, `Reap*`, `StripMarkers`, `Drain*` | the consolidation pass as `run` sees it: no switch, the reversal or the leftover markers it begins with, a cordon; `Nudger` has the inside |
| `GcOff`, `GcHalted`, `GcBegin`, `ListCompleted`, `DeletePod`, `DeleteFails`, `GcDone` | `podgc.CleanCompletedPodsWithResult`, and the one row for it |
| `WriteAudit` | `PutRemediations`, any part of which may fail |
| `SetHalt`, `OptIn`, `Usage`, `Expire`, `CordonMoves`, `PodLives` | dashboard, owners, load, row expiry, time, controllers; `Env` selects who acts |

A switch that cannot be read counts as set in live mode, so the `*Halted` actions
are possible with `halted` false. A dry-run does not read it. Occurrences saturate
at `MinOccurrences + 1`, which no comparison can tell from more. What was left
out: the amounts of a trim (a trim takes one unit of `slack`), the rows for
planner skips, the engine status row, the report row, output, and the age limit and
oldest-first order of the cleanup (any completed pods up to the cap). A pod that took a
listed name is a "successor" until the cleanup ends: that is history, and decides nothing.

### Planner, Rightsizing and the code

`Planner` has the pure part, with the whole-number division of the code: `Aggregate`
(`aggregatePods`), `Findings` (`analyzeUsage`), `TargetForRule` (`effectiveTarget`),
`ProposeRequest` and `RequestTrim` (`internal/plan`), `Figure`
(`remediationTargetsFromEvidence`). CPU is in millicores, memory in MiB.

`Rightsizing` follows workloads in one resource each. The state is their load, the
requests in the template, in the repository's manifest and in each pod, the pods'
readiness, the label, the counts, the latest report, the process and a pull request per workload.
`basis` is history: whether the figures that the process, the report or a pull request
holds still stand.

| Action | Code |
|---|---|
| `ListPods` | `collectPodMetrics`, whose failure is a cluster without metrics, and `collectPods` |
| `Analyze` | `collectWorkloads` with the ready counts of that moment, `analyzeUsage`, `PutReport`, `plan.Build` |
| `PatchWorkload`, `PatchSkipped` | `applier.Apply`, action by action; the plan is a set of actions with their place in the report (`at`), and it is the `Turn` of the first |
| `Abandon` | an error return, or the process dies |
| `Dispatch` | `handleRemediation` and, in the workflow, `patchContainerRequests` |
| `Merge`, `Close`, `Deploy` | people; `Deploy` without a pull request is an owner applying the manifest as it is |
| `SetLoad`, `Roll`, `Settle`, `Disturb`, `OptIn` | load, rolling updates, readiness and metrics, labels |

`Covered` and `Steady` are not the code's: the workloads that a trim can settle (a target,
not protected, a single container), and a report with all pods rolled, ready and measured.
The store is taken to be configured, and calls of a pass that fail do so in `Abandon` and
`PatchSkipped`; `Pipeline` has them one by one.

### Dashboard and the code

The state is the switch (`configMap`), what the store holds (`row`, `report`), the
two caches of the server (`status`, `rollup`) and a request per tab (`req`), each
handled by a goroutine of its own between whose calls the others run. `since`,
`sinceHad` and `acked` are history.

| Action | Code |
|---|---|
| `Begin`, `Fail`, `Tick` | a tab asks; a call fails; time passes, a request's calls failing at its deadline |
| `CacheHit`, `CacheMiss`, `ReadLiveHalt`, `LoadEngineStatus`, `Merge`, `Reply` | `engineStatusFor`: two reads at once, the merge, the store into the cache |
| `Create`, `Get`, `Update`, `Delete`, `WriteUnanswered`, `Invalidate` | `handleHalt` and `setHalt`; all status entries are dropped |
| `RollupHit`, `QueryReports`, `LoadRecommendations`, `Dispatch` | the reports, the counts merged into them, `remediationFor` |
| `Kubectl`, `EngineWrites`, `NewReport` | the runbook's way to the switch; the rows of the CronJob's passes |

One finding with a target stands for all. Days between the first and the last
sighting saturate at `MinDays`. A new report changes what the store says of it; the
rest of the reports, the history views and the GitHub call behind a dispatch are
left out.

### ImageCleanup, SwitchedNode and the code

An image is an ID; a tag names an image, and moves when a new one is pulled; a container
has both, the ID resolved when it was created. `switch` is the ConfigMap. `young` (containers
made since the second list) and `quiet` (the switch has been on since the run began) are history.

| Action | Code |
|---|---|
| `Wake` | the tick of `run`; `diskUsedPercent`, by the bytes of the images on the node |
| `HaltCheck` | `haltCheck`, in live mode only; what cannot be read counts as set |
| `ListImages` | the threshold, then the first list of `Reclaim` |
| `ListContainers` | the second list; images in use, largest first, the cap, dry-run |
| `RemoveImage`, `RemovalFails` | the removals, one call each; a failure goes on to the next |
| `Fails` | an error before the removals, or the process dies; the next tick starts anew |
| `Pull`, `Create`, `RemoveContainer` | the kubelet and the runtime |

`SwitchedNode` substitutes the dashboard's `configMap` for `switch`: each write of it is
one step of both (`Written`).

### BinPack, Collector, Evidence, Capacity and the code

`BinPack` has an operator for each function of `internal/binpack`: `Admits` is the
conjunction of the predicates; `Fit` is `Assign` for one pod after the other, largest first.
Labels are sets of key and value; values are numbers, so that `Gt` and `Lt` compare. As in the
code, a selector reads a label that is not set as the empty value (`MatchesLabels`): a map
in Go answers so. Of the extended resources, devices make the collector mark a pod as not
modelled; ephemeral storage it exempts (`scheduling.go:300-303`), and `RegularExtended` checks it
on the node in question (`binpack.go:270-274`), with nothing reserved for daemons and immovable pods.

`Collector` translates objects: pool names from labels, readiness from conditions, owner
kinds, summed requests, and `UnmodelledConstraints`, the list of what the simulation cannot
evaluate. `Evidence` is `usage.Resolve` with both of its sources, coverage and fidelity. A
source is the set of pods it has figures of, per resource.

`Capacity` is `Analyze`, from a snapshot that these two make of the API's objects. Its input is
chosen once; a step is one round of the search in the pool at hand.

| Action | Code |
|---|---|
| `TryLarger` | a round of the search that fails: pods stay out, or do after the loss of the worst node |
| `Enough` | the first size that places all pods |
| `NothingSmaller` | no size did: the pool keeps its nodes |
| `WithholdVerdict` | a pod has a constraint that is not modelled |

Nodes and pods are numbered in the order of their names, on which ties are decided; pools
have the numbers of their names. Sorting is by rank (`Ranked`): the r-th node or pod is the one
that r - 1 others come before.
`Effective` takes the larger of request and reading with headroom when the evidence
is strong, as `usage.Effective` does. `kept` is a field the code has not: the number
the search ended with, before the stranded nodes and the floor are added. Blockers and
binding constraints, which explain a verdict and do not change it, are left out.

`Feasible` is not the code: it asks for some arrangement of the pods on a set of
nodes, with the nodes' full capacity, the pods that stay, anti-affinity in both directions,
and spread counted in the arrangement as a whole. A node that gets none of the pods that move
is as it was: pods that stay may overcommit it already, and no search can change that. Labels are
read as the scheduler reads them (`Schedules`, `Chooses`): one that is not set matches
nothing. It is what first-fit and the approximations in the code are compared to, under conditions
the properties state. `Mutual`: pods that a hard constraint speaks of can move, and state the same constraint
(an anti-affinity on the same topology key, the same spread). `Explicit`: an empty value is
asked for only where the label is set. `Unextended`: pods that stay ask for no
ephemeral storage. For losses also `Nameless`, no pod asks for nodes by name, since a
DaemonSet-like affinity to one node is lost with it; and `Plain`, the nodes kept are alike in
what the pods ask for, one of them is the largest in both resources, and each is a domain of its own
or all are in one. Their other labels, the hostname say, may differ.

## Runs

| Run | Instance | Checks |
|---|---|---|
| `nudger_serial` | 3 interchangeable nodes, 1 pod, runs that do not overlap; operators and crashes; passes up to a tick long | `TypeOK`, `EveryToolCordonMarked`, `OneToolCordonPerPool`, `UnmarkedCordonKept`, `YoungCordonHeld`, `BenchHonoured`, `ImplementsLease` |
| `nudger_churn` | 3 nodes with room for 3 that come, go and lose readiness; 4 pods of sizes 1 and 2: two under one budget, one of them a StatefulSet's, and one that cannot be moved; dry and live runs; verdicts that keep one node or two, withhold, or are missing | `HomeNotCordoned`, `CordonHasHeadroom`, `DrainedFindRoom`, `ToolLeavesMinimum`, `DryRunReadOnly`, `EvictsFromCordonedNode` |
| `nudger_fair` | 2 nodes, fairness, crashes, conflicts, failed calls, garbled stamps, operators, the halt switch | `CordonEnds` |
| `nudger_orphan` | 2 runs at once | violates `EveryToolCordonMarked` |
| `nudger_recordon` | operators beside runs that do not overlap | violates `OperatorCordonKept` |
| `pipeline_safety` | 1 workload, 1 pod name, a cordon, which may leave its markers behind; live, dry and switched-off ticks, 1 retry; any call may fail or lose its answer; crashes, the switch, pods, expiry | `PipelineTypeOK`, `AppliedRowsTrue`, `PassAccountsForChanges`, `HaltedAttemptInert`, `TrimmedAfterSightings`, `RunningPodsSpared` |
| `pipeline_unaudited` | a stale cordon, live consolidation | violates `ReversalReachesAudit` |
| `rightsizing` | 6 scenes with up to 3 workloads and 2 replicas, one or two containers, either resource; findings of any confidence pass; fairness | `RightsizingTypeOK`, `TrimCoversUsage`, `TrimsWithinLimits`, `PullMovesAsFound`, `PullCoversUsage`, `TrimsConverge` |
| `rightsizing_shipped` | 1 workload, nothing but passes; `DefaultPolicy` | violates `TrimsConverge` |
| `dashboard_switch` | 2 interchangeable tabs, 2 clusters; calls that fail or lose their answer; kubectl, the CronJob's rows and new reports in turn; a node with 2 images, 1 tag and 2 containers | `DashboardTypeOK`, `StatusBounded`, `ToggleShown`, `NodeTypeOK`, `DispatchCurrent`, `UsedImagesSpared`, `HaltedRunRemovesNothing` |
| `capacity_verdict` | one pool of 3 nodes or two pools, nodes of 7 kinds with and without labels; 3 pods of 9 kinds, or with 2 more whose constraints do not bind both ways or name a node, with 4 more that ask for labels or storage, or of 6 more that cannot be simulated or moved; with the loss gate, floor 1 and strong evidence, or without it, the default floor and weak evidence; 5 pods under every mixture of sources | `CapacityTypeOK`, `RetainedHold`, `LossSurvived`, `UnknownWithheld`, `ActionableSupported`, `StrandedStay`, `ResultAddsUp` |
| `capacity_hard` | the same | violates `HardConstraintsHold` |

**Bounds.** Three nodes are what it takes to have a target, another node of the
pool, and a node for the process. `TTL` and `Cooldown` of one tick tell "too
early" from "due"; `MaxLag` of one lets time pass between any two calls of a
pass, so that `now` is stale when it is used (`nudger_serial`; elsewhere 0, since
those properties do not speak of time). One run slot is enough when runs do
not overlap: a process that ended leaves nothing but its annotations, whose run
ID then names nobody. Churn has two sizes and four pods because room is a question of pieces: two nodes
with one unit free each have two in all, and no place for a pod of two. Ages saturate, so the state space is finite without a
state constraint. The outside actors are spread over the runs (`Env`) to
keep each one small; the proofs cover all of them at once.

In the pipeline one workload and one pod name suffice for the safety properties:
each speaks of one change and its row, and rows of different kinds interleave.
One name stands for every pod that has had it, so a name that is used again
between List and Delete occurs. `MinOccurrences` is 1 (the code: 3): with 1, "counted
before this pass" and "counted with it" already differ. `Retries` is the manifest's 1. `Envs`
are two sets of outside actors, so that labels and usage do not multiply with cordons and pods.

For rightsizing, a `scene` says what a workload is followed in, what it starts with, who
acts beside the passes and how often (`events`: 3 to 5; a disturbance, not a consequence
of one, counts). Amounts are the code's own, with the thresholds of the rules (64 and 128 MiB,
100m), its floors and its roundings all met: 701 MiB and 905m are odd and not divisible
by anything in the rules, loads lie so that a finding appears, goes, and reverses into
`memory-request-below-usage`. The scenes: load and pull requests in memory, and in CPU,
where the usage may be 1m; two replicas with rollouts, readiness and metrics, in both; a named
container among two; three workloads in one report, one of them the provider's, with one action per
pass. Two replicas are the least that can be ready by half. `MinOccurrences` is 1.

In the dashboard two tabs make every race between a toggle and a poll, or between two
toggles; two clusters, an entry that a toggle of the other cluster must drop. A tick of
`TTL` and of `Limit` suffice to tell an answer within its bound from one beyond it.
`Sessions` keep apart what does not interact: switch and polls, polls and the other
writers, reports and dispatches, the node and kubectl. Two images of different size, the
larger one at the threshold, make the threshold, the cap of one and the order matter; one tag is one
that moves. No property of the run is about liveness, so
symmetry is sound; tabs and clusters are interchangeable in every definition.

For capacity, three nodes are the least with a size between one and all, and with a loss
that leaves more than one node. Kinds rather than all records: nodes differ in size,
in which resource they are short of, pod cap, pool labels, zone, taint, cordon, readiness; pods in
request and usage, anti-affinity, spread, affinity and toleration, each constraint that is not
modelled, owner, mirror, phase. Pod `i` runs on node `i`. Five pods are the least that
tell coverage of four in five from less; sources know none, one, two or four of them, by
resource, under every mode, a misspelled one included.

**Fairness** (`nudger_fair`). Time goes on. The CronJob starts pass after pass
when a node can hold it (strong, because an operator can take the nodes away
and give them back). A process that is alive takes its next step. Get and
Update of the reaper succeed now and then, where they are possible infinitely
often: client-go errors and conflicts are transient. Nothing is assumed of
operators, of the switch or of crashes, though the crashes cannot pre-empt every
attempt. The property itself requires that the switch is left off in the end and
that infinitely often some node is usable: a cluster all of whose nodes are
cordoned cannot start the process that would uncordon them.

**Fairness** (`rightsizing`). The CronJob goes on, a process takes its next step,
controllers roll pods and the kubelet gets them ready. `[]<>(pass.pc # "listed")` is weak
fairness of `Analyze`, which is enabled whenever a process has its lists; stated so, TLC
need not evaluate the planner to know it. Nothing is assumed of load, owners, pull requests or
failures: their number is bounded in each scene, which stands for "after the last of them".
`TrimsConverge` requires that the namespace is opted in from some time on.

## What the runs show

* Cordons are always attributable, single per pool, held for their time and
  followed by a pool-wide rest, through every interleaving of operators, conflicts
  and crashes with runs that do not overlap.
* A dry-run writes nothing, also in the reaper.
* Pods leave only nodes that are cordoned by then, apart from pods that keep
  their name: evictions name a pod without a UID, so a StatefulSet pod that moved
  after the list is evicted wherever it is.
* Budgets that the pass reads have headroom when the cordon is placed, unless a
  replica restarted on its own after they were read.
* While a node is drained, the nodes in service have as much left as the evicted replicas
  request in all, and a place for each as long as none of them was placed anew. From then on
  a place for each is not certain: a small replica may take the room of a large one, which the simulation
  had put elsewhere.
* Conditions are in these properties or constants because the code leaves them out. Pods that are
  pending when the pass lists them are charged to no node
  (`nudger.go:262`). Budgets with `matchExpressions` only are not read
  (`SelectorPdbs`), and each pod is compared to a budget on its own, so the
  evictions of a drain may still be refused half way; the API server enforces
  the budget, and the node waits for the reaper.
* A pass never records a change it did not make, and one that reaches its end has
  an event for every change it made, lost answers included, but one: leftover markers that the
  reaper strips off a schedulable node. The rest is lost in error returns, crashes and the write itself.
* An attempt that begins under the switch changes nothing, in any stage.
* No trim before `MinOccurrences` passes besides this one have reported the finding,
  whatever reads, writes, expiries and retries do to the counts: they err only
  downwards. Sightings need not be consecutive, though `plan.go:75` says so: nothing
  resets the count of a finding that was absent, short of the row's expiry.
* If findings of any confidence pass, every covered workload fits its usage after
  finitely many trims, none by more than half, through rollouts and after any
  disturbance; later ones in the report wait for earlier ones. "Covered" excludes pods of several
  containers, and that is essential: a target that names a container gets the
  figures of the whole pod, which may raise it and then never settle.
* A trim leaves a container what its whole pod uses and the headroom, if as many pods
  were measured as were ready and the load has not moved; and it lowers a request by half at most
  if in addition all pods were ready and ran one template. A figure from a pull request
  keeps a quarter over usage however late it is deployed, and moves the request as its finding
  said, while the figures behind it stand.
* The cleanup of completed pods hits a running pod only if that took the name after the list.
* The image cleanup removes an image that a container refers to only if the container was
  made after the second list; moved tags, exited containers and images listed before their
  containers do not deceive it. A run under the switch, and a dry-run, remove nothing.
* Whatever mixture of usage sources there is, a verdict is actionable only on percentiles that
  were configured, asked for, answered, and know four in five of the running pods.
* A status resting on a live read is never older than the cache's TTL and the time of
  two requests, and a poll begun after an acknowledged toggle shows it, of whichever
  cluster, unless a poll that had read the old position stores it afterwards.
* A dispatch rests on a finding that was in a report no longer ago than that, and that
  was seen over the required days.
* The nodes a verdict keeps hold the pods within every constraint that binds both ways, and
  still do after the loss of any one of them if they are alike in what is asked of them and no pod names its
  node. The conditions are essential: a term that the other pod does not answer on the same
  topology key is looked at from one side only; a label asked to be empty is not looked for; storage is
  counted for the pods that move and no others; and the loss that is simulated is that of the largest node,
  not of the one a pod is bound to. Verdicts
  withhold rather than guess, give no node back that strands an immovable pod, and add up.

**Disagreements with the documentation.**

* `nudger_orphan`: `docs/architecture.md:65-67` promises that no cordon becomes
  unattributable. `Forbid` does not bind a job created by hand (`README.md:228`).
  With two runs: A lists a node with leftover markers and no cordon; B claims the
  node; A reads it again, does not look at its schedulability or its run ID
  again, and strips the markers B has just written.
* `nudger_recordon`: `cordon.go:118-119` promises that cordons placed by anything
  else are never touched. `kubectl uncordon` keeps annotations. An operator who
  uncordons a drained node and cordons it again before the next run has the
  new cordon taken for the old one, and reversed once the old stamp is past TTL.
  (`UnmarkedCordonKept` is the part of the promise that does hold.)
* `rightsizing_shipped`: `README.md:692-693` calls the two over-provisioning rules
  "live trim". `analyzeUsage` gives them confidence "low"
  (`analyzer.go:193`, `208`), and the planner's policy, which nothing configures,
  wants "high" (`plan.go:109`, `152`). No pass ever trims anything. The passing run
  takes a policy that lets "low" through, and `pipeline_safety` findings of the confidence
  that is asked for, so that the rest of the trim path is checked and not just unreachable.
* `pipeline_unaudited`: `docs/architecture.md:122` promises an `uncordon_stale` row for
  each reversal. The reaper comes first in the consolidation pass; if a later
  call of that pass fails, `run` returns (`main.go:199-201`) before it looks at
  the reaper's result, and the retry knows nothing of it.
* `capacity_hard`: `README.md:294-297` says that the count satisfies every hard
  predicate at once, required anti-affinity among them. `satisfiesAntiAffinity`
  (`binpack.go:421-448`) asks the pod that is placed second and never the one placed
  first. Two pods with an anti-affinity on the hostname and a third that
  matches their selector, without one of its own, are packed on two nodes; they need three.

Observed while modelling, without a run. In capacity: hosts of immovable
pods are sorted first, but the search may still stop before the last of them
and count it as removable, although `capacity.go:211-213` says they are always kept
(`StrandedStay` covers the unusable ones); the node whose loss is tried is the largest
one, which is not the most damaging when nodes trade CPU against memory or host pods that
cannot move (`Plain` in `LossSurvived`); a `nodeSelector` or `matchLabels` with an empty value admits
nodes and pods that lack the label (`binpack.go:337-343`, `533-536`), unlike the scheduler, so for such
pods the count need not satisfy "every hard predicate" of `README.md:294-297`; nothing is reserved for the
ephemeral storage of DaemonSets and immovable pods (`capacity.go:303-318`). In the dashboard: a poll that read the switch before a toggle
may cache what it read after the toggle dropped the cache, so the next poll need not
see the toggle as `main.go:761-763` says (`NoLateCacher` leaves that out); a remediation
target that names a cluster is never looked up there (`main.go:1273-1275`). In the trims: requests and usage are sums over all
active pods, divided by the ready ones, so that during a rollout or with unready pods a "trim" may raise
the template (701 MiB to 900, say), and with pods that have no metrics fall below usage; the
comment at `plan.go:24-26` and `docs/runbook.md:396` ("only trims") hold under the conditions of
`TrimsWithinLimits`. "Consecutive runs" (`plan.go:75`) are lifetime counts. A trim's pull
request that is deployed late may raise what a live trim has lowered. In the cleanups: a cap with a fixed
order, largest or oldest first, can be used up run after run by candidates whose
removal always fails. In the audit: stripping leftover markers rewrites a node and benches its pool for
the cooldown (`cordon.go:145-158`), and gets no event, since `cordonReapEvents` (`main.go:383-405`) does not look at
`Reap.Cleared`; `cordon.go:70-72` counts it among what is worth an audit row, in a method that only tests
call (`StripMarkers`; the exception in `PassAccountsForChanges`). `README.md:479` ("never touches an in-use image") holds for containers older than
the second list; after that the runtime is asked to refuse. In the collector: CPU and memory of
init containers and host ports are neither counted nor on the list of what is not modelled, so
`UnknownWithheld` is about the constraints that are. Coverage is of the whole cluster
and counts a pod with one of the two figures, so a pool may be actionable with few readings of its own.
In the nudger: `claimCordon` only meets
nodes that are schedulable, so `prior-unschedulable` is never "true"
(`PriorNeverSet`, part of the invariant): the branch that restores a prior cordon
is never taken unless somebody edits the annotation. A target that was cordoned between the list and
the Get is drained without being claimed. The halt switch is read once, so a
halt set later does not stop the evictions of that pass, nor the patches or
deletions of a stage that has begun, while `docs/runbook.md:291` offers the switch as a stop
for runs in flight. An error of the store ends the run before
the report is printed, while `architecture.md` (last row of the risk table) says
that advisory output continues. A failed read of the counts makes the next
write start them at 1, and a workload waits for its sightings anew.

## What is proved

By TLAPS, for every value of the constants: any nodes, pools, pods, budgets, verdicts,
findings, tabs, clusters, images, policies, targets, scenes and sources of usage, all limits, and all
outside actors at once. Of the 40 properties that the passing runs check, all but the two of
liveness are theorems. Each proof module assumes what its specification assumes of its constants
(`ConstantsAssumption` and its kin: types, finite sets of nodes, pods and images, and where the code
gives it more, such as the entries of the targets file being distinct) and, beyond that, what a theorem says in its `ASSUME`.

| Module | Theorems | Hypotheses beyond the constants' |
|---|---|---|
| `Nudger_proofs` | `TypeCorrect` | none: with overlapping runs too |
| | `SerialInvariance`, `CordonsStayMarked`, `OneCordonPerPool`, `OwnNodeSpared`, `UnmarkedCordonsKept`, `YoungCordonsHeld`, `BenchesHonoured`, `DryRunsReadOnly`, `NudgerImplementsLease` | runs do not overlap |
| | `RoomInvariance` | none |
| | `DrainInvariance`, `CordonsHaveHeadroom`, `DrainedFindTheirRoom` | runs do not overlap |
| | `EvictionsFromCordonedNodes` | and no operator acts |
| | `ToolLeavesTheMinimum` | and operators and an autoscaler do not both act |
| `Pipeline_proofs` | `PipelineInvariance`, `PipelineTyped`, `RowsTellTheTruth`, `ChangesAccountedFor`, `HaltedAttemptsInert`, `TrimsAreEarned`, `RunningPodsKept` | none |
| `Rightsizing_proofs` | `RightsizingInvariance`, `RightsizingTypes`, `TrimsCoverUsage`, `TrimsStayWithinLimits`, `PullsCoverUsage`, `PullsMoveAsFound` | `ContainersNamed`: a target names containers that its workload has, or "*", or none |
| `Dashboard_proofs` | `DashboardInvariance`, `DashboardTyped`, `StatusesBounded`, `TogglesShown`, `DispatchesCurrent` | none |
| `SwitchedNode_proofs` | `NodeSparesDashboard`, `NodeInvariance`, `NodeTyped`, `ImagesInUseSpared`, `HaltedRunsRemoveNothing` | none |
| `BinPack_proofs` | `FitPacked` | `SimTyped`, `SimMutual`: amounts are numbers, and the constraints of the pods bind both ways |
| `Capacity_proofs` | `CapacityInvariance`, `CapacityTypes`, `RetainedNodesHold`, `LossIsSurvived`, `StrandedNodesStay`, `UnknownKeepsNodes`, `ActionableRestsOnPercentiles`, `ClusterAddsUp` | none |

**Cordons.** "Every tool cordon is marked" is not inductive: the reaper
writes what it decided on an older list. What makes it safe is that each fact it
relied on can only be changed by a run, and there is no other. `SerialInv` says so
for each point of the pass. For the nodes still to be reaped (`ReapSound`): their
markers are still there (nobody else removes them, short of removing the node),
and a cordon of the tool among them was marked for release, not for stripping,
and is past TTL (nobody else starts one, and ages only grow). For the nodes
that may yet be cordoned (`Picks`, `PoolAtRest`): no node of the pool is under
a cordon of the tool, and none has been reaped in the last `Cooldown`. For the Get
and Update pairs: a copy that is still current describes the node. For the process
itself: its home is not among its picks. `Nudger_proofs` proves it action by
action; a lemma per writing action (`ClaimEffect` and its kin) states what the
action does to nodes, and the action properties and the refinement reuse them. That runs do not
overlap is needed: `nudger_orphan` violates the first of these theorems without it.

**Drains.** `DrainInv` relates the list a pass works on to the cluster as it is by now. A pool that
a node may still be taken from has an actionable verdict and more nodes than its minimum
(`PoolSpare`). Pinned pods are where they were listed, and the tool's own pods are on no pick
(`ListedStay`), so a victim can go elsewhere (`Relocatable`). Without operators every cordon is the
tool's, and the target of an eviction is cordoned. Hence the budgets had headroom
at the cordon, and the pool keeps its minimum. The hypotheses are the limits of the code, not of
the proof. An operator may uncordon the target between two evictions. An operator's cordon between
the list and the Get together with an autoscaler that takes another node away leaves the
pool below the verdict, for the pass counts schedulable nodes once.

**Room.** The scheduler overfills no node, and no node is listed over-full (`RoomInv`). `Select` puts each
victim on another node with room for it beside what was listed there, and beside the victims it has put
there already: a plan (`Planned`, `PlanFits`). What is down while the node is drained are replicas listed
on it or on a node that stays, so the plan and the list say for each of them where it was to be
(`PlanCovers`), and the nodes that stay have room for all of them there. If none was placed anew, that is a
place for each (`PlanStands`). If some were, they are where the scheduler wanted: what is down
and what the nodes that stay run, taken together, is no more than they hold in all (`EnoughLeft`, by
sums over pods and over nodes, `RequestedByNode`). That is why `DrainedFindRoom` has two parts: pieces of
room are not counted by totals, and with two sizes `nudger_churn` meets the case in which the second
part ends.

**Ticks.** `PipelineInv` follows the attempt: its number is above that of every change made
before it; a count is never above the sightings that made it (`CountsEarned`: `stored <= sighted`,
through every lost write and expiry, and one more where the pass has just made one itself); a switch
set since the attempt began has turned each live stage away (`StagesTurnedAway`); what is to be
deleted was completed when it was listed (`VictimsCompleted`); and each change of this attempt has its
event already, deletions excepted, which share one at the end (`ChangesLogged`, `DeletionsReal`).

**Figures.** `RightsizingInv` says what a number handed on is worth. A listing's usage is the pod's,
times the pods measured, while the load stands; so the average over the ready pods is at least
the pod's usage when no fewer were measured than ready, although division truncates (`Quotient`, `DivOrder`,
`DivExact`). A planned trim, a finding and a pull request carry that on (`TrimTrue`, `FindingTrue`,
`PullTrue`), each as long as `basis` says that nothing has moved underneath. The proof of a step has two
halves: where new figures are made (`MeasuredFacts`, `FoundFacts`, `PlanFacts`, `FigureFacts`), that they are true; and
everywhere else that `basis` claims no more than before (`Weaker`), from which the rest follows once for all actions.
`ContainersNamed` is needed because `targetContainer` (`plan.go:195-203`) takes the name from the targets file
without looking whether the workload has such a container. `FigureFacts` covers every
finding the rules let through: neither the floors nor the rounding up to 5m or 16 MiB undo what the
thresholds of 100m, 64 and 128 MiB leave of the direction of the change.

**Caches.** Each position of the switch has an age since it was last so (`since`), each finding
one since it was last in a report (`sinceHad`). Ages of requests and these advance together, so a poll
that holds a position is no younger than that position's end; a cache entry's remaining life bounds its age; an
answer is at most TTL and two requests old. After an acknowledged toggle, neither the cache nor a
poll that may still fill it holds the old position, which is where `ToggleShown` needs its condition
(`NothingOld`).

**Node.** While a run removes, a container of an image on its list is younger than the second
list (`RemovalsUnused`); it removes only if it is live, and was so before the switch was
set (`RemovalsMeant`). `NodeSparesDashboard`: the composition is still a dashboard.

**Verdicts.** `VerdictSound` holds of each verdict when it is given, on whatever the search found:
nodes are given back only on a simulation that knows all constraints, and as many as strand an
immovable pod stay, with one more; and the nodes kept are the first of the order, and sufficed. That a constraint nobody models is seen needs what
`UnmodelledConstraints` collects from an object (`UnknownKeepsNodes`), and the coverage behind an
actionable verdict a count over all running pods (`ActionableRestsOnPercentiles`). `ClusterAddsUp`
sums over the pools.

**Placements.** A predicate is looked at once, when its pod is placed, and pods that come later can
only make it worse: fill the node, add a repelling neighbour, grow a domain. `FitPacked` is an induction
over the pods in their order (`FitSteps`) on `Packed`, which says of the pods placed so far that all
predicates hold *now*. Resources and caps are those of the node with all its pods, so a later pod is
checked against the earlier ones. Anti-affinity survives because a later pod that an earlier one repels repels
it too (`SimMutual`) and was turned away. For spread, an earlier pod of the same constraint
would sit in a domain that a later one makes larger; but that one stated the constraint as well, so
the skew was measured again, from the same minimum or a higher one. `HoldsArranged` then
reads a full packing as an arrangement of the pool's pods; `ArrangedFeasible` adds what the simulation only
reserved for: the worst DaemonSet footprint of any node bounds each node's own, withheld capacity is not
above the real one, and immovable pods are on their own node. So `RetainedNodesHold`.

**Losses.** Only the loss of the largest kept node `w` is simulated. If another, `i`, is lost,
the arrangement without `w` has pods on `i`; they go to `w` (`Swapped`). On plain nodes `w` has the
taints and cap of `i`, the labels that pods ask for, and no less of any resource, so room and eligibility stay. Domains
are the same, or each node's own, where `w` takes the place of `i`: the map from old to new domains
(`Renaming`) is one to one, so whatever was apart is apart, and each count of the spread is one of the
old counts. So `LossIsSurvived`, which makes the one simulated loss stand for all.

**Sums.** The library's induction theorems take an operator, which the provers cannot
instantiate. `Sums` proves by least counterexample instead: among the subsets of a finite set on which
a claim fails there is a minimal one (`FS_StrictSubsetOrderingWellFounded`), and taking an
element away from it contradicts that. That a sum is what its recursive definition says needs the
existence of the function it chooses, which is proved the same way (`SolutionExists`).

**What the proofs changed.** The proof of `RetainedHold` failed where an anti-affinity is answered on
another topology key, and TLC then found the pools: a pair of pods apart by host that repel each other
only one way. `Mutual` used to allow them. It failed where immovable pods fill a node beyond what is left after
the headroom, which no search can mend: hence "as it was". The proof of `LossSurvived` failed at eligibility,
and again TLC found the pod, one with an affinity to its node's name. `Opposed` and `Local` in
`MCCapacity` are these pods. `WithoutWorstNode` takes away a place of the list, as the code does, and not an element.

**Checked by TLC only.** `CordonEnds` and `TrimsConverge`: liveness under fairness is out of
the prover's reach, and `Fairness` states `ENABLED` of whole passes. The
violated properties are runs of their own and have no theorem.

## Not modelled

* The dashboard's history views, static files and the call to GitHub; blockers and
  binding constraints of a capacity verdict: they present what is decided elsewhere.
* The analyzer's rules other than usage, and what only they read (PDBs, HPAs, disk
  statistics, images): one snapshot in, text out, no state and no action. `HPA` and PDB changes
  of `api-yml-remediator`, the rewrite instructions: files in, files out.
* Quantity parsing and formatting: a finding prints whole millicores or MiB and the dashboard reads
  the same figures back (`FormatCPU`, `FormatMiB`), so `Figure` starts from them.
* The queries to Prometheus and the decoding of answers: an answer is there or not.
* Dashboard client and scripts: rendering and shell; the scripts can start a run by
  hand, which is the `Overlap` of `Nudger`. `Pipeline` has one Job at a time.
* Age limit, scope and order of the pod cleanup: any completed pods up to the cap.

## Plan

1. **Nudger** and **CordonLease**, **Pipeline**, **Planner** and **Rightsizing**, **ImageCleanup**,
   **Dashboard**, **SwitchedNode**, **BinPack**, **Collector**, **Evidence**, **Capacity**: modelled,
   checked, and proved as far as the section above says.
2. Composition: `Nudger` with `Capacity`'s verdict in place of the input, and the
   theorem that the pool keeps the computed minimum.
