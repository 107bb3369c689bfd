----------------------------- MODULE Collector -----------------------------
(***************************************************************************)
(* What the snapshot keeps of the cluster's nodes and pods                 *)
(* (internal/collector): how an object of the API server becomes the node  *)
(* or the pod that the placement simulation knows.                         *)
(*                                                                         *)
(* Label values and the names of nodes and pools are numbers.  Of an       *)
(* affinity only the required terms are there, since the preferred ones    *)
(* are dropped (podAffinity).                                              *)
(*                                                                         *)
(* A definition X_Fault is X with one plausible mistake; no specification  *)
(* uses it.                                                                *)
(***************************************************************************)
EXTENDS BinPack

-----------------------------------------------------------------------------
(* Nodes.                                                                  *)

\* The labels that name a pool, the first that is set winning; then the types.
PoolLabelKeys ==
  <<"doks.digitalocean.com/node-pool", "eks.amazonaws.com/nodegroup",
    "cloud.google.com/gke-nodepool", "agentpool", "karpenter.sh/nodepool",
    "node.kubernetes.io/instancegroup">>

TypeLabelKeys == <<"node.kubernetes.io/instance-type", "beta.kubernetes.io/instance-type">>

\* The pool "instance-type/<value>" and the pool "default".
TypePool(value) == 100 + value
DefaultPool == 99

NodePoolName(labels) ==
  LET set(keys) == SelectSeq(keys, LAMBDA key : \E l \in labels : l.key = key)
      value(key) == (CHOOSE l \in labels : l.key = key).value IN
  IF set(PoolLabelKeys) # <<>> THEN value(set(PoolLabelKeys)[1])
  ELSE IF set(TypeLabelKeys) # <<>> THEN TypePool(value(set(TypeLabelKeys)[1]))
  ELSE DefaultPool

\* No Ready condition, or one that is unknown, is not ready.
NodeReady(o) == [type |-> "Ready", status |-> "True"] \in o.conditions

NodeModel(o) ==
  [pool |-> NodePoolName(o.labels), cap |-> o.allocatable, extended |-> o.extended,
   maxPods |-> o.maxPods,
   labels |-> o.labels, taints |-> o.taints, ready |-> NodeReady(o),
   unschedulable |-> o.unschedulable]

-----------------------------------------------------------------------------
(* Pods.                                                                   *)

\* Of CPU and memory only what the regular containers ask for counts.
Requests(o) ==
  [d \in Resources |-> Total([c \in DOMAIN o.containers |-> o.containers[c].request[d]])]

RegularExtended(o, e) == Total([c \in DOMAIN o.containers |-> o.containers[c].extended[e]])

ExtendedRequests_Fault(o) == [e \in Extended |-> RegularExtended(o, e)]

\* Of the others also what an init container asks for, if that is more.
ExtendedRequests(o) ==
  [e \in Extended |->
     Max({RegularExtended(o, e)} \cup {c.extended[e] : c \in ToSet(o.initContainers)})]

\* The kubelet's pods, whatever their references say, and the first reference.
OwnerKind(o) ==
  IF o.mirror THEN "Node" ELSE IF o.owners = <<>> THEN "" ELSE o.owners[1]

\* The required constraints that the simulation cannot evaluate.
UnmodelledConstraints(o) ==
  LET reason(name, holds) == IF holds THEN {name} ELSE {} IN
  UNION {
    reason("extended_resource",
           \E e \in Extended \ {"ephemeral-storage"} : ExtendedRequests(o)[e] > 0),
    reason("runtime_overhead", o.overhead),
    reason("topology_match_label_keys", \E c \in o.topologySpread : c.refined),
    reason("required_pod_affinity", o.podAffinity # {}),
    reason("namespace_selector", \E t \in o.podAffinity \cup o.antiAffinity : t.namespaceSelector),
    reason("persistent_volume_affinity", o.claim)}

PodModel(o) ==
  [ns |-> o.ns, labels |-> o.labels, host |-> o.host, owner |-> OwnerKind(o),
   active |-> o.phase \notin {"Succeeded", "Failed"}, request |-> Requests(o),
   extended |-> ExtendedRequests(o),
   nodeSelector |-> o.nodeSelector, tolerations |-> o.tolerations,
   affinity |-> o.affinity, antiAffinity |-> o.antiAffinity,
   topologySpread |-> o.topologySpread, unmodelled |-> UnmodelledConstraints(o)]

CollectPods(objects) == [i \in DOMAIN objects |-> PodModel(objects[i])]

=============================================================================
