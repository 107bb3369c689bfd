------------------------------- MODULE Nudger -------------------------------
(***************************************************************************)
(* The consolidation pass of the optimizer (internal/nudger): the stale    *)
(* cordon reaper, the choice of a node to drain, the cordon and the        *)
(* evictions, against a Kubernetes API server shared with operators, the   *)
(* kubelet, a node autoscaler, the scheduler, and other runs of the same   *)
(* program.                                                                *)
(*                                                                         *)
(* One action per API call of the pass.  What a call returned is kept in   *)
(* the run's local state and used by later steps, as the code does, so a   *)
(* decision may be stale when it is carried out.                           *)
(*                                                                         *)
(* Time is counted in ticks.  A timestamp annotation is held as its age.   *)
(* A node's resourceVersion is held as `copy': the run whose last Get of   *)
(* the node is still current, since an Update succeeds only against an     *)
(* object nobody wrote after it was read.                                  *)
(*                                                                         *)
(* A definition X_Fault is X with one plausible mistake; no specification  *)
(* uses it, and each breaks a property that X keeps.                       *)
(***************************************************************************)
EXTENDS Integers, FiniteSets, FiniteSetsExt

CONSTANTS
  Nodes,         \* names a node may have
  Pools,         \* node pools
  PoolOf,        \* the pool of each node (collector.NodePoolName)
  Runs,          \* processes that may run the program
  Pods,          \* scheduled workload replicas
  SelfPods,      \* those in the tool's own namespace
  Pinned,        \* those that are not relocatable (bare, DaemonSet, mirror)
  Named,         \* those recreated under the same name (StatefulSet)
  Resource,      \* {"cpu", "mem"}
  Cap,           \* allocatable of each node, per resource
  Size,          \* request of each pod, per resource
  Pdbs,          \* pod disruption budgets
  PdbPods,       \* the pods each budget selects
  PdbMin,        \* how many of them must stay up
  SelectorPdbs,  \* budgets whose selector has matchLabels, the ones read
  Verdicts,      \* capacity verdicts a run may carry (capacity.Result)
  TTL,           \* CordonTTL, in ticks; 0 disables the reaper
  Cooldown,      \* RecordonCooldown, in ticks
  MaxLag,        \* ticks a pass can last before its context deadline
  Modes,         \* values of Options.Live: a set of booleans
  Overlap,       \* whether two runs may be active at once
  Env,           \* which outside actors act, a set of strings
  InitHosts,     \* where the pods start
  Nowhere        \* not a node: unscheduled, or no copy held

StampMax  == TTL + MaxLag        \* ages saturate once nothing tells them apart
ReapedMax == Cooldown + MaxLag

Verdict == [known : BOOLEAN, actionable : BOOLEAN, min : Nat]

ASSUME ConstantsAssumption ==
  /\ IsFiniteSet(Nodes) /\ Nowhere \notin Nodes
  /\ PoolOf \in [Nodes -> Pools]
  /\ IsFiniteSet(Pods)
  /\ SelfPods \subseteq Pods
  /\ Pinned \subseteq Pods
  /\ Named \subseteq Pods \ Pinned
  /\ InitHosts \in [Pods -> Nodes \cup {Nowhere}]
  /\ Cap \in [Nodes -> [Resource -> Nat]]
  /\ Size \in [Pods -> [Resource -> Nat]]
  /\ PdbPods \in [Pdbs -> SUBSET Pods] /\ PdbMin \in [Pdbs -> Nat]
  /\ SelectorPdbs \subseteq Pdbs
  /\ Verdicts \subseteq [Pools -> Verdict]
  /\ TTL \in Nat /\ Cooldown \in Nat /\ MaxLag \in Nat
  /\ Modes \subseteq BOOLEAN
  /\ Overlap \in BOOLEAN

VARIABLES
  node,     \* the node objects in the API server
  host,     \* the node each pod runs on, or Nowhere
  halted,   \* the halt ConfigMap reads "true"
  run,      \* local state of each process
  copy,     \* the node a run holds an up-to-date copy of
  placed    \* history: who last made each node unschedulable

vars == <<node, host, halted, run, copy, placed>>

NodeObject ==
  [here    : BOOLEAN,        \* the object exists
   unsched : BOOLEAN,        \* Spec.Unschedulable
   ready   : BOOLEAN,        \* the Ready condition
   marked  : BOOLEAN,        \* annotations cordoned-at and cordoned-by-run
   stamp   : 0..StampMax,    \* age of cordoned-at
   by      : Runs \cup {Nowhere},  \* cordoned-by-run; Nowhere: it has exited
   prior   : BOOLEAN,        \* prior-unschedulable
   reaped  : 0..ReapedMax]   \* age of cordon-reaped-at; the top: absent

Phase == {"idle", "halt", "reapList", "reap", "reapWrite", "pods",
          "select", "get", "claim", "evict"}

RunState ==
  [pc      : Phase,
   live    : BOOLEAN,
   lag     : 0..MaxLag,                 \* ticks since the pass read its clock
   home    : Nodes \cup {Nowhere},      \* where this process's own pod runs
   verdict : Verdicts \cup {Nowhere},
   clear   : SUBSET Nodes,              \* markers to strip
   release : SUBSET Nodes,              \* stale cordons to reverse
   avail   : SUBSET Nodes,              \* schedulable when listed
   cands   : SUBSET Nodes,              \* drain candidates not yet tried
   seen    : [Pods -> Nodes \cup {Nowhere}],  \* the pod list
   target  : Nodes \cup {Nowhere},
   victims : SUBSET Pods]

FreshNode ==
  [here |-> TRUE, unsched |-> FALSE, ready |-> TRUE, marked |-> FALSE,
   stamp |-> 0, by |-> Nowhere, prior |-> FALSE, reaped |-> ReapedMax]

IdleRun ==
  [pc |-> "idle", live |-> FALSE, lag |-> 0, home |-> Nowhere,
   verdict |-> Nowhere, clear |-> {}, release |-> {}, avail |-> {},
   cands |-> {}, seen |-> [p \in Pods |-> Nowhere], target |-> Nowhere,
   victims |-> {}]

TypeOK ==
  /\ node \in [Nodes -> NodeObject]
  /\ host \in [Pods -> Nodes \cup {Nowhere}]
  /\ halted \in BOOLEAN
  /\ run \in [Runs -> RunState]
  /\ copy \in [Runs -> Nodes \cup {Nowhere}]
  /\ placed \in [Nodes -> {"nobody", "tool", "other"}]

Init ==
  /\ node = [n \in Nodes |-> FreshNode]
  /\ host = InitHosts
  /\ halted = FALSE
  /\ run = [r \in Runs |-> IdleRun]
  /\ copy = [r \in Runs |-> Nowhere]
  /\ placed = [n \in Nodes |-> "nobody"]

-----------------------------------------------------------------------------
(* The API server.                                                         *)

Active(r) == run[r].pc # "idle"

Usable(n) == node[n].here /\ ~node[n].unsched /\ node[n].ready

\* Every write to a node makes the copies read before it out of date.
WriteNode(n, object) ==
  /\ node' = [node EXCEPT ![n] = object]
  /\ copy' = [r \in Runs |-> IF copy[r] = n THEN Nowhere ELSE copy[r]]

\* What the pods that `where' puts on node n request.
Requested(where, n, d) ==
  MapThenSumSet(LAMBDA p : Size[p][d], {p \in DOMAIN where : where[p] = n})

Free(where, n, d) == Cap[n][d] - Requested(where, n, d)

FreeOn(where, nodes, d) == MapThenSumSet(LAMBDA n : Free(where, n, d), nodes)

\* Pods start where there is room for them.
ASSUME InitHostsAssumption ==
  \A n \in Nodes, d \in Resource : Free(InitHosts, n, d) >= 0

\* Evictions a budget allows now: the replicas running beyond its minimum.
DisruptionsAllowed(b) ==
  Cardinality({p \in PdbPods[b] : host[p] # Nowhere}) - PdbMin[b]

Exhausted(b, p) == p \in PdbPods[b] /\ DisruptionsAllowed(b) <= 0

-----------------------------------------------------------------------------
(* A run.  Every API call may fail, and the process may die between any    *)
(* two calls.                                                              *)

Become(r, state) == run' = [run EXCEPT ![r] = state]

Finish(r) ==
  /\ Become(r, IdleRun)
  /\ copy' = [copy EXCEPT ![r] = Nowhere]
  /\ UNCHANGED <<node, host, halted, placed>>

\* The Job controller starts a process on some usable node.  Its run ID is
\* new, so markers left by the previous process in this slot name nobody.
Start(r) ==
  /\ ~Active(r)
  /\ Overlap \/ \A q \in Runs : ~Active(q)
  /\ \E n \in Nodes, live \in Modes, v \in Verdicts :
       /\ Usable(n)
       /\ Become(r, [IdleRun EXCEPT !.pc = IF live THEN "halt" ELSE "reapList",
                                    !.live = live, !.home = n, !.verdict = v])
  /\ node' = [n \in Nodes |->
                IF node[n].by = r THEN [node[n] EXCEPT !.by = Nowhere] ELSE node[n]]
  /\ UNCHANGED <<host, halted, copy, placed>>

\* nudgerHaltCheck: the switch is read once, and must read as not set.
HaltCheck(r) ==
  /\ run[r].pc = "halt"
  /\ ~halted
  /\ Become(r, [run[r] EXCEPT !.pc = "reapList", !.lag = 0])
  /\ UNCHANGED <<node, host, halted, copy, placed>>

Ours(r, n) == node[n].here /\ node[n].marked /\ node[n].by # r

Stale_NoTTL(r, n) == node[n].stamp - run[r].lag >= 0

Stale(r, n) == node[n].stamp - run[r].lag >= TTL

ReapList_DryToo(r) ==
  /\ run[r].pc = "reapList"
  /\ TTL > 0
  /\ Become(r, [run[r] EXCEPT
       !.pc = "reap",
       !.clear = {n \in Nodes : Ours(r, n) /\ ~node[n].unsched},
       !.release = {n \in Nodes : Ours(r, n) /\ node[n].unsched /\ Stale(r, n)}])
  /\ UNCHANGED <<node, host, halted, copy, placed>>

\* A missing stamp does not parse, so it would be a stale one.
ReapList_AnyCordon(r) ==
  /\ run[r].pc = "reapList"
  /\ TTL > 0 /\ run[r].live
  /\ Become(r, [run[r] EXCEPT
       !.pc = "reap",
       !.clear = {n \in Nodes : Ours(r, n) /\ ~node[n].unsched},
       !.release = {n \in Nodes : node[n].here /\ node[n].by # r /\ node[n].unsched
                                    /\ (node[n].marked => Stale(r, n))}])
  /\ UNCHANGED <<node, host, halted, copy, placed>>

\* ReapStaleCordons: one List, then a decision per node it returned.
ReapList(r) ==
  /\ run[r].pc = "reapList"
  /\ TTL > 0 /\ run[r].live
  /\ Become(r, [run[r] EXCEPT
       !.pc = "reap",
       !.clear = {n \in Nodes : Ours(r, n) /\ ~node[n].unsched},
       !.release = {n \in Nodes : Ours(r, n) /\ node[n].unsched /\ Stale(r, n)}])
  /\ UNCHANGED <<node, host, halted, copy, placed>>

\* Reaping disabled, a dry-run, which only reports, or a failed List.
ReapNothing(r) ==
  /\ run[r].pc = "reapList"
  /\ Become(r, [run[r] EXCEPT !.pc = "reap"])
  /\ UNCHANGED <<node, host, halted, copy, placed>>

\* releaseCordon and stripCordonMarkers read the node again ...
ReapGet(r, n) ==
  /\ run[r].pc = "reap"
  /\ n \in run[r].clear \cup run[r].release
  /\ node[n].here
  /\ Become(r, [run[r] EXCEPT !.pc = "reapWrite", !.target = n])
  /\ copy' = [copy EXCEPT ![r] = n]
  /\ UNCHANGED <<node, host, halted, placed>>

Reviewed(r, n) ==
  [run[r] EXCEPT !.pc = "reap", !.target = Nowhere,
                 !.clear = @ \ {n}, !.release = @ \ {n}]

\* ... and a failed Get is recorded and the node passed over.
ReapGetFails(r, n) ==
  /\ run[r].pc = "reap"
  /\ n \in run[r].clear \cup run[r].release
  /\ Become(r, Reviewed(r, n))
  /\ UNCHANGED <<node, host, halted, copy, placed>>

\* applyReapMarkers
Reaped(r, n) ==
  [node[n] EXCEPT !.marked = FALSE, !.stamp = 0, !.by = Nowhere,
                  !.prior = FALSE, !.reaped = run[r].lag]

ReapedObject(r, n) ==
  [Reaped(r, n) EXCEPT !.unsched = IF n \in run[r].release THEN node[n].prior ELSE @]

\* The Update lands only on the object that was read.
ReapWrite(r) ==
  /\ run[r].pc = "reapWrite"
  /\ LET n == run[r].target IN
     /\ copy[r] = n
     /\ WriteNode(n, ReapedObject(r, n))
     /\ placed' = [placed EXCEPT ![n] = IF ReapedObject(r, n).unsched THEN @ ELSE "nobody"]
     /\ Become(r, Reviewed(r, n))
  /\ UNCHANGED <<host, halted>>

ReapWriteFails(r) ==
  /\ run[r].pc = "reapWrite"
  /\ Become(r, Reviewed(r, run[r].target))
  /\ copy' = [copy EXCEPT ![r] = Nowhere]
  /\ UNCHANGED <<node, host, halted, placed>>

\* A stamp that does not parse benches the pool as well; none is modelled, as it
\* can only keep the tool from a cordon.
InCooldown(r, n) == Cooldown > 0 /\ node[n].reaped - run[r].lag < Cooldown

PoolNodes(p) == {n \in Nodes : PoolOf[n] = p /\ node[n].here}

PoolMayGiveBack_Unhealthy(r, p) ==
  LET v == run[r].verdict[p] IN
  /\ v.known
  /\ v.actionable
  /\ Cardinality({n \in PoolNodes(p) : Usable(n)}) > v.min
  /\ \A n \in PoolNodes(p) : ~InCooldown(r, n)

PoolMayGiveBack_NoBench(r, p) ==
  LET v == run[r].verdict[p] IN
  /\ v.known
  /\ v.actionable
  /\ \A n \in PoolNodes(p) : Usable(n)
  /\ Cardinality(PoolNodes(p)) > v.min

PoolMayGiveBack_NoSpare(r, p) ==
  LET v == run[r].verdict[p] IN
  /\ v.known
  /\ v.actionable
  /\ \A n \in PoolNodes(p) : Usable(n)
  /\ Cardinality(PoolNodes(p)) >= v.min
  /\ \A n \in PoolNodes(p) : ~InCooldown(r, n)

\* The gate a pool passes before one of its nodes may be drained: an
\* actionable verdict, no unusable node, a node to spare, no recent reap.
PoolMayGiveBack(r, p) ==
  LET v == run[r].verdict[p] IN
  /\ v.known
  /\ v.actionable
  /\ \A n \in PoolNodes(p) : Usable(n)
  /\ Cardinality(PoolNodes(p)) > v.min
  /\ \A n \in PoolNodes(p) : ~InCooldown(r, n)

ReapDone(r) == run[r].pc = "reap" /\ run[r].clear \cup run[r].release = {}

\* Steps 1 and 3b of the pass: list the nodes, aggregate the pools.
ListNodes(r) ==
  /\ ReapDone(r)
  /\ Cardinality({n \in Nodes : node[n].here}) >= 2
  /\ Become(r, [run[r] EXCEPT
       !.pc = "pods",
       !.avail = {n \in Nodes : Usable(n)},
       !.cands = {n \in Nodes : Usable(n) /\ PoolMayGiveBack(r, PoolOf[n])}])
  /\ UNCHANGED <<node, host, halted, copy, placed>>

HostsSelf_ServicesOnly(n) == \E p \in SelfPods : host[p] = n

HostsSelf(n) ==
  \/ \E p \in SelfPods : host[p] = n
  \/ \E q \in Runs : Active(q) /\ run[q].home = n

\* Steps 2, 4 and 5: list the pods, drop the nodes that run the tool itself.
ListPods(r) ==
  /\ run[r].pc = "pods"
  /\ LET cands == {n \in run[r].cands : ~HostsSelf(n)} IN
     /\ Cardinality(run[r].avail) >= 2
     /\ cands # {}
     /\ Become(r, [run[r] EXCEPT !.pc = "select", !.cands = cands, !.seen = host])
  /\ UNCHANGED <<node, host, halted, copy, placed>>

Relocatable(r, n) == {p \in Pods \ (SelfPods \cup Pinned) : run[r].seen[p] = n}

\* Sort order of the candidates: requested CPU, then memory.
NoMoreLoaded(r, m, n) ==
  LET load(x, d) == Requested(run[r].seen, x, d) IN
  \/ load(m, "cpu") < load(n, "cpu")
  \/ load(m, "cpu") = load(n, "cpu") /\ load(m, "mem") <= load(n, "mem")

LeastLoaded(r, n) == n \in run[r].cands /\ \A m \in run[r].cands : NoMoreLoaded(r, n, m)

MayFit_EmptyNodes(r, n) ==
  \E a \in [Relocatable(r, n) -> run[r].avail \ {n}] :
    \A p \in Relocatable(r, n), d \in Resource :
      Requested(a, a[p], d) <= Cap[a[p]][d]

\* First fit over the destinations.  Go visits them in a random order, so the
\* simulation may find any assignment that fits, or fail although one exists.
MayFit(r, n) ==
  \E a \in [Relocatable(r, n) -> run[r].avail \ {n}] :
    \A p \in Relocatable(r, n), d \in Resource :
      Requested(a, a[p], d) <= Free(run[r].seen, a[p], d)

PdbBlocks_OffByOne(pods) ==
  \E b \in SelectorPdbs, p \in pods : p \in PdbPods[b] /\ DisruptionsAllowed(b) < 0

\* pdbBlocker: each pod is looked at on its own.
PdbBlocks(pods) == \E b \in SelectorPdbs, p \in pods : Exhausted(b, p)

\* Steps 6 and 7: the least loaded candidate is the target; a dry-run ends here.
Select(r, n) ==
  /\ run[r].pc = "select"
  /\ LeastLoaded(r, n)
  /\ Relocatable(r, n) # {}
  /\ MayFit(r, n)
  /\ ~PdbBlocks(Relocatable(r, n))
  /\ Become(r, IF run[r].live
               THEN [run[r] EXCEPT !.pc = "get", !.target = n, !.victims = Relocatable(r, n)]
               ELSE IdleRun)
  /\ UNCHANGED <<node, host, halted, copy, placed>>

\* Nothing to move, no room found, or budgets in the way or unreadable.
Discard(r, n) ==
  /\ run[r].pc = "select"
  /\ LeastLoaded(r, n)
  /\ Become(r, [run[r] EXCEPT !.cands = @ \ {n}])
  /\ UNCHANGED <<node, host, halted, copy, placed>>

GetTarget_AnyNode(r) ==
  /\ run[r].pc = "get"
  /\ LET n == run[r].target IN
     /\ node[n].here
     /\ Become(r, [run[r] EXCEPT !.pc = "claim"])
     /\ copy' = [copy EXCEPT ![r] = n]
  /\ UNCHANGED <<node, host, halted, placed>>

\* Step 8: read the target again, to cordon it ...
GetTarget(r) ==
  /\ run[r].pc = "get"
  /\ LET n == run[r].target IN
     /\ node[n].here /\ ~node[n].unsched
     /\ Become(r, [run[r] EXCEPT !.pc = "claim"])
     /\ copy' = [copy EXCEPT ![r] = n]
  /\ UNCHANGED <<node, host, halted, placed>>

GetCordonedTarget_NoCordon(r) ==
  /\ run[r].pc = "get"
  /\ node[run[r].target].here
  /\ Become(r, [run[r] EXCEPT !.pc = "evict"])
  /\ UNCHANGED <<node, host, halted, copy, placed>>

\* ... unless it is cordoned already: it is drained without being claimed.
GetCordonedTarget(r) ==
  /\ run[r].pc = "get"
  /\ node[run[r].target].here /\ node[run[r].target].unsched
  /\ Become(r, [run[r] EXCEPT !.pc = "evict"])
  /\ UNCHANGED <<node, host, halted, copy, placed>>

ClaimedObject_NoMarkers(r, n) == [node[n] EXCEPT !.unsched = TRUE]

ClaimedObject_PriorTooLate(r, n) ==
  [node[n] EXCEPT !.marked = TRUE, !.stamp = run[r].lag, !.by = r, !.prior = TRUE,
                  !.reaped = ReapedMax, !.unsched = TRUE]

\* claimCordon's one Update: cordon, ownership, and no cooldown stamp.
ClaimedObject(r, n) ==
  [node[n] EXCEPT !.marked = TRUE, !.stamp = run[r].lag, !.by = r,
                  !.prior = node[n].unsched, !.reaped = ReapedMax,
                  !.unsched = TRUE]

Claim(r) ==
  /\ run[r].pc = "claim"
  /\ LET n == run[r].target IN
     /\ copy[r] = n
     /\ WriteNode(n, ClaimedObject(r, n))
     /\ placed' = [placed EXCEPT ![n] = "tool"]
     /\ Become(r, [run[r] EXCEPT !.pc = "evict"])
  /\ UNCHANGED <<host, halted>>

Evicted(r, p) ==
  /\ run[r].pc = "evict"
  /\ p \in run[r].victims
  /\ Become(r, [run[r] EXCEPT !.victims = @ \ {p}])
  /\ UNCHANGED <<node, halted, copy, placed>>

\* Step 9: pods are evicted by name, so one recreated elsewhere is found only
\* if it kept its name.  The API server enforces every budget.
Evict(r, p) ==
  /\ Evicted(r, p)
  /\ host[p] # Nowhere
  /\ host[p] = run[r].target \/ p \in Named
  /\ \A b \in Pdbs : ~Exhausted(b, p)
  /\ host' = [host EXCEPT ![p] = Nowhere]

\* An eviction that is refused or fails is counted and the loop goes on.
EvictFails(r, p) == Evicted(r, p) /\ UNCHANGED host

\* Where the pass returns: halted or unreadable switch, a failed List, Get or
\* cordon, too few nodes, no candidate left, or every pod dealt with.
Return(r) ==
  /\ \/ run[r].pc \in {"halt", "pods", "get", "claim"}
     \/ ReapDone(r)
     \/ run[r].pc = "select" /\ run[r].cands = {}
     \/ run[r].pc = "evict" /\ run[r].victims = {}
  /\ Finish(r)

\* The process dies: evicted, killed, or out of time between two calls.
Crash(r) == "crash" \in Env /\ Active(r) /\ Finish(r)

RunStep(r) ==
  \/ HaltCheck(r) \/ ReapList(r) \/ ReapNothing(r) \/ ReapWrite(r) \/ ReapWriteFails(r)
  \/ ListNodes(r) \/ ListPods(r) \/ GetTarget(r) \/ GetCordonedTarget(r) \/ Claim(r)
  \/ Return(r)
  \/ \E n \in Nodes : ReapGet(r, n) \/ ReapGetFails(r, n) \/ Select(r, n) \/ Discard(r, n)
  \/ \E p \in Pods : Evict(r, p) \/ EvictFails(r, p)

-----------------------------------------------------------------------------
(* Everyone else.                                                          *)

Older(age, top) == IF age < top THEN age + 1 ELSE top

Tick_NoDeadline ==
  /\ node' = [n \in Nodes |->
       [node[n] EXCEPT !.stamp = IF node[n].marked THEN Older(@, StampMax) ELSE @,
                       !.reaped = Older(@, ReapedMax)]]
  /\ run' = [r \in Runs |-> IF Active(r) THEN [run[r] EXCEPT !.lag = @ + 1] ELSE run[r]]
  /\ UNCHANGED <<host, halted, copy, placed>>

\* The context deadline ends a pass before more than MaxLag ticks go by.
Tick ==
  /\ \A r \in Runs : Active(r) => run[r].lag < MaxLag
  /\ node' = [n \in Nodes |->
       [node[n] EXCEPT !.stamp = IF node[n].marked THEN Older(@, StampMax) ELSE @,
                       !.reaped = Older(@, ReapedMax)]]
  /\ run' = [r \in Runs |-> IF Active(r) THEN [run[r] EXCEPT !.lag = @ + 1] ELSE run[r]]
  /\ UNCHANGED <<host, halted, copy, placed>>

OperatorCordon(n) ==
  /\ "operator" \in Env /\ node[n].here /\ ~node[n].unsched
  /\ WriteNode(n, [node[n] EXCEPT !.unsched = TRUE])
  /\ placed' = [placed EXCEPT ![n] = "other"]
  /\ UNCHANGED <<host, halted, run>>

\* kubectl uncordon leaves the annotations where they are.
OperatorUncordon(n) ==
  /\ "operator" \in Env /\ node[n].here /\ node[n].unsched
  /\ WriteNode(n, [node[n] EXCEPT !.unsched = FALSE])
  /\ placed' = [placed EXCEPT ![n] = "nobody"]
  /\ UNCHANGED <<host, halted, run>>

\* A stamp that no longer parses is treated as stale from then on.
GarbleStamp(n) ==
  /\ "garble" \in Env /\ node[n].here /\ node[n].marked /\ node[n].stamp < StampMax
  /\ WriteNode(n, [node[n] EXCEPT !.stamp = StampMax])
  /\ UNCHANGED <<host, halted, run, placed>>

SetHalt ==
  /\ "halt" \in Env
  /\ halted' = ~halted
  /\ UNCHANGED <<node, host, run, copy, placed>>

KubeletReport(n) ==
  /\ "kubelet" \in Env /\ node[n].here
  /\ WriteNode(n, [node[n] EXCEPT !.ready = ~@])
  /\ UNCHANGED <<host, halted, run, placed>>

\* The autoscaler removes a cordoned node once it is empty ...
RemoveNode(n) ==
  /\ "autoscaler" \in Env /\ node[n].here /\ node[n].unsched
  /\ ~HostsSelf(n) /\ \A p \in Pods : host[p] # n
  /\ WriteNode(n, [FreshNode EXCEPT !.here = FALSE])
  /\ placed' = [placed EXCEPT ![n] = "nobody"]
  /\ UNCHANGED <<host, halted, run>>

\* ... and adds nodes: new objects without annotations, under names that no
\* process still has in mind, since a provider does not reuse them.
AddNode(n) ==
  /\ "autoscaler" \in Env /\ ~node[n].here
  /\ \A r \in Runs : n \notin run[r].clear \cup run[r].release \cup run[r].avail
                              \cup run[r].cands \cup {run[r].target}
  /\ WriteNode(n, FreshNode)
  /\ UNCHANGED <<host, halted, run, placed>>

\* The scheduler places a pod whose controller recreated it.
Schedule(p, n) ==
  /\ host[p] = Nowhere /\ Usable(n)
  /\ \A d \in Resource : Size[p][d] <= Free(host, n, d)
  /\ host' = [host EXCEPT ![p] = n]
  /\ UNCHANGED <<node, halted, run, copy, placed>>

\* A StatefulSet's pod is restarted: deleted, and recreated under its name.
Restart(p) ==
  /\ "restart" \in Env /\ p \in Named /\ host[p] # Nowhere
  /\ host' = [host EXCEPT ![p] = Nowhere]
  /\ UNCHANGED <<node, halted, run, copy, placed>>

Outside ==
  \/ Tick \/ SetHalt
  \/ \E p \in Pods : Restart(p)
  \/ \E n \in Nodes :
       \/ OperatorCordon(n) \/ OperatorUncordon(n) \/ GarbleStamp(n)
       \/ KubeletReport(n) \/ RemoveNode(n) \/ AddNode(n)
       \/ \E p \in Pods : Schedule(p, n)

Next == Outside \/ \E r \in Runs : Start(r) \/ RunStep(r) \/ Crash(r)

Spec == Init /\ [][Next]_vars

-----------------------------------------------------------------------------
(* Safety.                                                                 *)

ToolCordoned(n) == node[n].here /\ node[n].unsched /\ placed[n] = "tool"

\* A cordon the tool placed carries its markers for as long as it stands, so
\* that some later run can find and reverse it (cordon.go: claimCordon, and
\* the two functions that remove the markers).
EveryToolCordonMarked == \A n \in Nodes : ToolCordoned(n) => node[n].marked

\* The tool holds at most one node of a pool cordoned: a pool with an
\* unusable node is no drain source, and what a run saw of the pool cannot
\* have been overtaken by another claim (nudger.go, steps 3b to 8).
OneToolCordonPerPool ==
  \A m, n \in Nodes :
    ToolCordoned(m) /\ ToolCordoned(n) /\ PoolOf[m] = PoolOf[n] => m = n

\* A running pass never has its own node cordoned under it by the tool
\* (SelfNamespace, nudger.go:290 and 359).
HomeNotCordoned ==
  \A r \in Runs : Active(r) => ~ToolCordoned(run[r].home)

\* A run takes a step: the outside actors leave every run's state alone, and
\* the clock changes no more than its lag.
ByRun(r) == run'[r].pc # run[r].pc \/ run'[r].victims # run[r].victims

\* Whatever else is wrong with a pool, a cordon that a run places leaves at
\* least the minimum of the verdict the run carries, which is an actionable one
\* (nudger.go:373).
ToolLeavesMinimum ==
  [][\A r \in Runs, n \in Nodes :
       ByRun(r) /\ ~ToolCordoned(n) /\ ToolCordoned(n)' =>
         LET v == run[r].verdict[PoolOf[n]] IN
         /\ v.known /\ v.actionable
         /\ Cardinality({m \in PoolNodes(PoolOf[n])' : ~ToolCordoned(m)'}) >= v.min]_vars

\* No run makes a node schedulable that is cordoned without the tool's
\* annotations: an unannotated cordon is a deliberate act of an operator
\* (ReapStaleCordons and releaseCordon).
UnmarkedCordonKept ==
  [][\A r \in Runs, n \in Nodes :
       ByRun(r) /\ node[n].here /\ node[n].unsched /\ ~node[n].marked
         => node'[n].unsched]_vars

\* No run makes a node schedulable whose last cordon is not the tool's
\* (cordon.go:118, runbook.md:115: an operator's cordon is never reversed).
OperatorCordonKept ==
  [][\A r \in Runs, n \in Nodes :
       ByRun(r) /\ node[n].here /\ node[n].unsched /\ placed[n] = "other"
         => node'[n].unsched]_vars

\* A cordon of the tool is reversed, or loses its markers, through a run only
\* after it stood for TTL, and never when TTL is zero (cordon.go:125, 166).
YoungCordonHeld ==
  [][\A r \in Runs, n \in Nodes :
       ByRun(r) /\ ToolCordoned(n) /\ (TTL = 0 \/ node[n].stamp < TTL)
         => node'[n].unsched /\ node'[n].marked]_vars

\* A cordon the reaper reversed benches its whole pool: no node of the pool is
\* cordoned by the tool until Cooldown has passed (nudger.go:242 and 375).
BenchHonoured ==
  [][\A n \in Nodes : ~ToolCordoned(n) /\ ToolCordoned(n)'
       => \A m \in PoolNodes(PoolOf[n]) : node[m].reaped >= Cooldown]_vars

-----------------------------------------------------------------------------
(* The cordons as leases.                                                  *)

LeaseState(n) ==
  IF ~node[n].here THEN "gone"
  ELSE IF ~node[n].unsched THEN "open"
  ELSE IF placed[n] = "tool" THEN "leased" ELSE "held"

LeaseAge(n) == IF ToolCordoned(n) THEN node[n].stamp ELSE 0

Lease == INSTANCE CordonLease WITH
  state <- [n \in Nodes |-> LeaseState(n)],
  age <- [n \in Nodes |-> LeaseAge(n)],
  rest <- [n \in Nodes |-> node[n].reaped]

\* The pass, with all its calls, races and failures, keeps the promises of
\* CordonLease: this is what operators and the autoscaler may rely on.
ImplementsLease == Lease!LeaseSpec

-----------------------------------------------------------------------------
(* Drains.                                                                 *)

\* A dry-run changes no node and evicts nothing at any step.
DryRunReadOnly ==
  [][\A r \in Runs :
       ByRun(r) /\ Active(r) /\ ~run[r].live => UNCHANGED <<node, host>>]_vars

\* A pod is evicted only from a node that does not accept it back, so the
\* drain makes progress (nudger.go, step 8 before step 9).  A pod that keeps
\* its name is excepted: it is evicted by name wherever it runs by then.
EvictsFromCordonedNode ==
  [][\A r \in Runs, p \in Pods \ Named :
       ByRun(r) /\ host[p] # Nowhere /\ host'[p] = Nowhere
         => node[host[p]].unsched]_vars

\* A node is not cordoned for pods that cannot leave it: when a cordon is about
\* to be placed, no budget that is read and selects one of the pods to be evicted
\* is used up by what was evicted before.  A replica that restarts on its own may use it up
\* after the budgets were read (nudger.go:480, pdbBlocker).
CordonHasHeadroom ==
  \A r \in Runs : run[r].pc \in {"get", "claim"}
    => \A b \in SelectorPdbs, p \in run[r].victims :
         Exhausted(b, p) => \E q \in PdbPods[b] \cap Named : host[q] = Nowhere

\* While a node is drained, the nodes in service have room for the replicas that
\* are down: for all of them at once as long as none was placed where it was not
\* listed, and enough of it altogether whatever the scheduler does (step 6, whose
\* packing counts what the nodes run).  More is not so: with replicas of several
\* sizes a small one may be given the room that a large one was to have.  Pods
\* listed without a node, or on another one, are not charged to any
\* (nudger.go:262), and nodes may be lost after the list: hence the conditions.
DrainedFindRoom ==
  \A r \in Runs :
    LET rest == run[r].avail \ {run[r].target}
        down == {p \in Pods : host[p] = Nowhere} IN
    /\ run[r].pc = "evict" /\ \A p \in Pods : run[r].seen[p] \in run[r].avail
    /\ \A n \in rest : Usable(n)
    => /\ \A d \in Resource : Requested(host, Nowhere, d) <= FreeOn(host, rest, d)
       /\ (\A p \in Pods \ down : host[p] = run[r].seen[p])
            => \E a \in [down -> rest] : \A p \in down, d \in Resource :
                 Requested(a, a[p], d) <= Free(host, a[p], d)

-----------------------------------------------------------------------------
(* Progress.  A run that is alive goes on, every API call of the reaper    *)
(* succeeds again and again, the CronJob starts pass after pass, and nodes *)
(* come back.  Nothing is assumed of operators or of the halt switch.      *)

Fairness ==
  /\ SF_vars(Tick)
  /\ \A n \in Nodes : SF_vars(KubeletReport(n) /\ ~node[n].ready)
  /\ \A r \in Runs :
       /\ SF_vars(Start(r))
       /\ WF_vars(RunStep(r))
       /\ SF_vars(HaltCheck(r))
       /\ SF_vars(ReapList(r))
       /\ \A n \in Nodes :
            /\ SF_vars(ReapGet(r, n))
            /\ SF_vars(ReapWrite(r) /\ run[r].target = n)

FairSpec == Spec /\ Fairness

\* A cordon the tool placed does not last: it is reversed if neither an
\* operator nor the autoscaler ended it before (ReapStaleCordons; crashes,
\* conflicts and failed calls included).  That takes a switch that is left
\* off, and some node for the reaper itself to run on.
CordonEnds ==
  <>[]~halted /\ []<>(\E n \in Nodes : Usable(n))
    => \A n \in Nodes : ToolCordoned(n) ~> ~ToolCordoned(n)
=============================================================================
