--------------------------- MODULE MCRightsizing ---------------------------
(* Two workloads of the example targets file and one the cloud provider      *)
(* manages, in the scenes below.                                             *)
EXTENDS Rightsizing

Api == "Deployment/your-app-api"
Web == "Deployment/web"
Dns == "Deployment/coredns"

Trims == {"memory-request-over-provisioned", "cpu-request-over-provisioned"}

\* config/remediation-targets.example.json, for the rules of the model.
ExampleTargets ==
  {[namespace |-> "*", workload |-> "*", container |-> "*", rules |-> Trims,
    repository |-> FALSE, manifest |-> FALSE],
   [namespace |-> "default", workload |-> Api, container |-> "api",
    rules |-> {"memory-request-below-usage", "cpu-request-over-provisioned"},
    repository |-> TRUE, manifest |-> TRUE]}

\* The defaults, for findings of any confidence.
WidePolicy ==
  [confidence |-> "low", occurrences |-> 1, persistence |-> TRUE,
   floor |-> [r \in Resource |-> 0], headroom |-> <<0, 0>>, trim |-> <<0, 0>>, actions |-> 0]

\* plan.DefaultPolicy, which main.go always uses.
ShippedPolicy ==
  [confidence |-> "high", occurrences |-> 3, persistence |-> TRUE,
   floor |-> [r \in Resource |-> IF r = "cpu" THEN 10 ELSE 32], headroom |-> <<3, 2>>,
   trim |-> <<1, 2>>, actions |-> 1]

All == {Api, Web, Dns}
InOrder == <<Dns, Api, Web>>
Spaces == [w \in All |-> IF w = Dns THEN "kube-system" ELSE "default"]
Managed == {Dns}

One(n) == [c \in {"api"} |-> n]
Two(n, m) == [c \in {"api", "sidecar"} |-> IF c = "api" THEN n ELSE m]

Scene(res, n, first, loads, env, most) ==
  [resource |-> [w \in {Api} |-> res], replicas |-> [w \in {Api} |-> n],
   first |-> [w \in {Api} |-> first], loads |-> [w \in {Api} |-> loads],
   env |-> env, about |-> {Api}, events |-> most]

Crowd ==
  [resource |-> [w \in All |-> "memory"], replicas |-> [w \in All |-> 1],
   first |-> [w \in All |-> One(IF w = Web THEN 601 ELSE 701)],
   loads |-> [w \in All |-> {One(95)}], env |-> {"rollout", "labels", "failures"}, about |-> {Api},
   events |-> 4]

AllScenes ==
  {Scene("memory", 1, One(701), {One(95), One(470)}, {"rollout", "load", "pulls"}, 5),
   Scene("cpu", 1, One(905), {One(1), One(140)}, {"rollout", "load", "pulls"}, 5),
   Scene("memory", 2, One(701), {One(300)}, {"rollout", "pods", "metrics"}, 3),
   Scene("cpu", 2, One(905), {One(140)}, {"rollout", "pods", "metrics"}, 3),
   Scene("cpu", 1, Two(300, 600), {Two(11, 22)}, {"rollout", "pulls"}, 5),
   Crowd}

\* Nothing happens but passes.
QuietScene == {Scene("memory", 1, One(701), {One(95)}, {}, 0)}
=============================================================================
