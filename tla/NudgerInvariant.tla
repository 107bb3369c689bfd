-------------------------- MODULE NudgerInvariant --------------------------
(***************************************************************************)
(* Why the safety properties of Nudger hold when the CronJob's runs do not *)
(* overlap: what a run decided on a List is still true of the nodes it     *)
(* decided about, whatever operators, the kubelet and the autoscaler did   *)
(* since.  Nobody else removes the tool's markers or starts its cordons.   *)
(***************************************************************************)
EXTENDS Nudger

\* The CronJob's Forbid policy, as far as it reaches.
SoleRun == \A q, r \in Runs : Active(q) /\ Active(r) => q = r

\* claimCordon never meets a node that is cordoned already, so the state it
\* records for releaseCordon to restore is always "schedulable".
PriorNeverSet == \A n \in Nodes : ~node[n].prior

GoneRested == \A n \in Nodes : ~node[n].here => node[n].reaped = ReapedMax

\* The nodes the reaper still has to deal with.
ToReap(r) == run[r].clear \cup run[r].release

\* What the reaper set out to strip or to release may be: markers are still
\* there, and a cordon of the tool among them is an old one to release.
ReapSound(r) ==
  \A n \in ToReap(r) :
    /\ TTL > 0
    /\ node[n].here => node[n].marked
    /\ ToolCordoned(n) => n \notin run[r].clear /\ node[n].stamp >= TTL

\* The nodes the run may yet cordon.
Picks(r) ==
  CASE run[r].pc \in {"pods", "select"} -> run[r].cands
    [] run[r].pc \in {"get", "claim"} -> {run[r].target}
    [] OTHER -> {}

PoolAtRest(p) ==
  \A m \in Nodes :
    PoolOf[m] = p /\ node[m].here => ~ToolCordoned(m) /\ node[m].reaped >= Cooldown

RunInv(r) ==
  LET s == run[r] IN
  /\ s.home \in Nodes
  /\ s.pc \in {"reapWrite", "get", "claim", "evict"} => s.target \in Nodes
  /\ ToReap(r) # {} => s.pc \in {"reap", "reapWrite"}
  /\ ReapSound(r)
  /\ s.pc = "reapWrite" => s.target \in ToReap(r)
  /\ s.pc = "reapWrite" /\ copy[r] = s.target => node[s.target].here
  /\ s.pc = "claim" /\ copy[r] = s.target
       => node[s.target].here /\ ~node[s.target].unsched
  /\ \A n \in Picks(r) : PoolAtRest(PoolOf[n])
  /\ s.pc \in {"select", "get", "claim"} => s.home \notin Picks(r)
  /\ ~s.live => s.pc \in {"reapList", "reap", "pods", "select"} /\ ToReap(r) = {}

SerialInv ==
  /\ TypeOK
  /\ SoleRun
  /\ EveryToolCordonMarked
  /\ OneToolCordonPerPool
  /\ HomeNotCordoned
  /\ PriorNeverSet
  /\ GoneRested
  /\ \A r \in Runs : Active(r) => RunInv(r)

-----------------------------------------------------------------------------
(* What a drain rests on.                                                  *)

\* The autoscaler only takes nodes that are empty.
PodsOnNodes == \A p \in Pods : host[p] # Nowhere => node[host[p]].here

CordonsAreTheTools ==
  "operator" \notin Env =>
    \A n \in Nodes : node[n].here /\ node[n].unsched => placed[n] = "tool"

\* The pool has an actionable verdict and a node to spare.  It keeps that unless
\* operators cordon nodes and the autoscaler takes them.
PoolSpare(r, p) ==
  LET v == run[r].verdict[p] IN
  /\ v.known /\ v.actionable
  /\ "operator" \notin Env \/ "autoscaler" \notin Env => Cardinality(PoolNodes(p)) > v.min

\* Replicas that a budget counts, or will when those that keep their name are back.
CountedOn(b) == {q \in PdbPods[b] : host[q] # Nowhere \/ q \in Named}

Headroom(r) ==
  \A b \in SelectorPdbs, p \in run[r].victims :
    p \in PdbPods[b] => Cardinality(CountedOn(b)) > PdbMin[b]

\* The pods of the list that cannot be moved are where they were, and the tool's
\* own are not on a node that may be drained.
ListedStay(r) ==
  /\ \A q \in Pinned : run[r].seen[q] # Nowhere => host[q] = run[r].seen[q]
  /\ \A q \in SelfPods : run[r].seen[q] \notin Picks(r)
  /\ run[r].pc = "evict" => \A q \in SelfPods : run[r].seen[q] # run[r].target

DrainSound(r) ==
  LET s == run[r] IN
  /\ s.verdict \in Verdicts
  /\ \A n \in Picks(r) : PoolSpare(r, PoolOf[n])
  /\ s.pc \in {"select", "get", "claim", "evict"} => ListedStay(r)
  /\ s.pc \in {"get", "claim", "evict"} =>
       s.victims \subseteq Relocatable(r, s.target) /\ MayFit(r, s.target)
  /\ s.pc \in {"get", "claim"} => Headroom(r)
  /\ s.pc = "evict" /\ "operator" \notin Env /\ node[s.target].here => node[s.target].unsched

\* The scheduler gives no node more than it holds, so no pod list shows that.
Uncrowded(where) == \A n \in Nodes, d \in Resource : Free(where, n, d) >= 0

RoomInv ==
  /\ Uncrowded(host)
  /\ \A r \in Runs : Uncrowded(run[r].seen)

DrainInv ==
  /\ PodsOnNodes
  /\ CordonsAreTheTools
  /\ \A r \in Runs : Active(r) => DrainSound(r)
=============================================================================
