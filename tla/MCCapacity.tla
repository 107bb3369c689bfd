----------------------------- MODULE MCCapacity -----------------------------
(* Pools of up to three nodes and three pods, of every mixture of a few    *)
(* kinds, with a strong and with a weak source of usage; and five pods on  *)
(* a pool of two nodes with every mixture of the sources.  Pod i runs on   *)
(* node i.                                                                 *)
EXTENDS Capacity

Amount(c, m) == [d \in Resources |-> IF d = "cpu" THEN c ELSE m]
Scratch(amount) == [e \in Extended |-> IF e = "ephemeral-storage" THEN amount ELSE 0]
Label(k, v) == [key |-> k, value |-> v]
Web == [absent |-> FALSE, labels |-> {Label("app", 1)}, expressions |-> {}]

InPool(key, value) == {Label(key, value), Label("zone", 1)}

Big ==
  [allocatable |-> Amount(20, 20), extended |-> Scratch(10), maxPods |-> 0,
   labels |-> InPool("agentpool", 1),
   taints |-> {}, conditions |-> {[type |-> "Ready", status |-> "True"]}, unschedulable |-> FALSE]
Small == [Big EXCEPT !.allocatable = Amount(10, 10)]
Zoneless == [Small EXCEPT !.labels = {Label("agentpool", 1)}]
Crowded ==
  [Big EXCEPT !.allocatable = Amount(30, 10), !.maxPods = 2,
     !.labels = {Label("agentpool", 1), Label("zone", 2)}]
Cordoned == [Big EXCEPT !.unschedulable = TRUE]
Dedicated ==
  [Big EXCEPT !.taints = {[key |-> "batch", value |-> 1, effect |-> "NoSchedule"]}]
Lost == [Big EXCEPT !.conditions = {[type |-> "Ready", status |-> "Unknown"]}]
Typed(node) == [node EXCEPT !.labels = InPool("node.kubernetes.io/instance-type", 1)]
Unlabelled(node) == [node EXCEPT !.labels = {Label("zone", 1)}]
Spot(node) == [node EXCEPT !.labels = @ \cup {Label("spot", Empty)}]

\* Each node has a hostname of its own.
Hosted(nodes) ==
  [i \in DOMAIN nodes |-> [nodes[i] EXCEPT !.labels = @ \cup {Label("kubernetes.io/hostname", 10 + i)}]]

Container(c, m) == [request |-> Amount(c, m), extended |-> Scratch(0)]

Light(i) ==
  [ns |-> 1, labels |-> {Label("app", 1)}, phase |-> "Running", host |-> i,
   owners |-> <<"ReplicaSet">>, mirror |-> FALSE,
   containers |-> <<Container(3, 1), Container(1, 3)>>, initContainers |-> <<>>,
   nodeSelector |-> {}, tolerations |-> {}, affinity |-> {}, podAffinity |-> {},
   antiAffinity |-> {}, topologySpread |-> {}, overhead |-> FALSE, claim |-> FALSE,
   usage |-> Amount(1, 1)]
Busy(i) == [Light(i) EXCEPT !.labels = {}, !.usage = Amount(2, 7)]
PerHost ==
  [topologyKey |-> "kubernetes.io/hostname", selector |-> Web, namespaces |-> {},
   namespaceSelector |-> FALSE]
PerZone ==
  [topologyKey |-> "zone", selector |-> Web, hard |-> TRUE, maxSkew |-> 1, minDomains |-> 0,
   refined |-> FALSE]
Apart(i) == [Light(i) EXCEPT !.antiAffinity = {PerHost}]
Even(i) == [Light(i) EXCEPT !.topologySpread = {PerZone}]
Batch(i) ==
  [Light(i) EXCEPT !.labels = {Label("app", 2)},
     !.affinity = {[expressions |-> {[key |-> "zone", op |-> "In", values |-> <<1>>]}, fields |-> {}]},
     !.tolerations = {[key |-> "batch", value |-> 0, op |-> "Exists", effect |-> ""]}]
Opposed(i) == [Apart(i) EXCEPT !.labels = {Label("app", 2)}]
Local(i) ==
  [Light(i) EXCEPT !.affinity =
     {[expressions |-> {}, fields |-> {[key |-> "metadata.name", op |-> "In", values |-> <<i>>]}]}]
Zonal(i) == [Light(i) EXCEPT !.nodeSelector = {Label("zone", 1)}]
Cheap(i) == [Light(i) EXCEPT !.nodeSelector = {Label("spot", Empty)}]
Bulky(i) ==
  [Light(i) EXCEPT !.containers = <<[Container(4, 4) EXCEPT !.extended = Scratch(6)]>>]
Volume(i) == [Light(i) EXCEPT !.claim = TRUE]
Bare(i) == [Light(i) EXCEPT !.owners = <<>>, !.containers = <<Container(6, 6)>>, !.labels = {}]
Mirror(i) == [Light(i) EXCEPT !.mirror = TRUE]
Daemon(i) == [Bare(i) EXCEPT !.owners = <<"DaemonSet">>, !.containers = <<Container(2, 2)>>]
Logger(i) == [Bulky(i) EXCEPT !.owners = <<"DaemonSet">>]
Completed(i) == [Light(i) EXCEPT !.phase = "Succeeded"]

\* Constraints that the simulation does not know.
Near(i) == [Light(i) EXCEPT !.podAffinity = {PerHost}]
Chosen(i) == [Light(i) EXCEPT !.antiAffinity = {[PerHost EXCEPT !.namespaceSelector = TRUE]}]
Refined(i) == [Light(i) EXCEPT !.topologySpread = {[PerZone EXCEPT !.refined = TRUE]}]
Sandboxed(i) == [Light(i) EXCEPT !.overhead = TRUE]
Device(i) ==
  [Light(i) EXCEPT !.initContainers =
     <<[request |-> Amount(1, 1), extended |-> [e \in Extended |-> 1]]>>]

NodeKinds == {Big, Small, Crowded, Cordoned, Dedicated}
PodKinds(i) ==
  {Light(i), Busy(i), Apart(i), Even(i), Batch(i), Volume(i), Bare(i), Daemon(i), Completed(i)}
Unsimulated(i) == {Near(i), Chosen(i), Refined(i), Sandboxed(i), Device(i), Mirror(i)}

OnePool == {Hosted(<<a, b, c>>) : a, b \in NodeKinds, c \in {Big, Zoneless}}
SpotPool ==
  {Hosted(<<a, b, c>>) : a \in {Big, Spot(Small)}, b \in {Big, Spot(Big)}, c \in {Spot(Small), Dedicated}}
TwoPools ==
  {<<a, b, Typed(c)>> : a, b, c \in {Big, Small}} \cup {<<Unlabelled(Big), Lost, Unlabelled(Small)>>}

Lists ==
  {<<a, b, c>> : a \in PodKinds(1), b \in PodKinds(2), c \in {Light(3), Apart(3), Even(3), Bare(3)}}
\* Constraints that do not bind both ways, or that bind to one node.
ParticularLists ==
  {<<a, b, c>> : a \in {Opposed(1), Local(1)}, b \in {Apart(2), Light(2), Local(2)}, c \in {Light(3), Even(3)}}
\* Pods that ask for labels of nodes or for storage.
AskingLists ==
  {<<a, b, c>> : a \in {Zonal(1), Cheap(1), Bulky(1), Logger(1)}, b \in {Cheap(2), Bulky(2), Apart(2)},
                 c \in {Light(3), Zonal(3), Cheap(3), Bulky(3)}}
OddLists ==
  {<<a, b, c>> : a \in Unsimulated(1), b \in {Light(2), Completed(2)} \cup Unsimulated(2),
                 c \in {Light(3), Mirror(3)}}
FiveLists ==
  {<<Light(1), Light(2), Light(1), Light(2), p>> : p \in {Light(1), Completed(1), Light(0)}}

OfBoth(known) == [d \in Resources |-> known]

Strong ==
  [mode |-> "auto", url |-> TRUE, answers |-> TRUE, p95 |-> OfBoth(1..3), live |-> OfBoth(1..3)]
Weak == [Strong EXCEPT !.url = FALSE]

\* The percentiles of either resource know some of five pods, a live sample too.
Known == {{}, {1}, 2..3, 1..4, 2..5}
Answered ==
  [mode : {"", "auto", "prometheus", "instant", "promethius"}, url : BOOLEAN, answers : BOOLEAN,
   p95 : [Resources -> Known], live : {OfBoth(known) : known \in {{}, 1..3, 1..5}}]

Safe == [floor |-> 1, survive |-> TRUE]
Loose == [floor |-> 0, survive |-> FALSE]

Finds(nodes, pods, config, evidence) ==
  [nodes : nodes, pods : pods, config : config, evidence : evidence]

AllInputs ==
  Finds(OnePool \cup TwoPools, Lists, {Safe}, {Strong})
  \cup Finds({Hosted(<<a, b, Big>>) : a, b \in NodeKinds} \cup TwoPools, Lists, {Loose}, {Weak})
  \cup Finds({<<Big, Small, Big>>, <<Big, Big, Typed(Big)>>}, OddLists, {Loose}, {Strong})
  \cup Finds(OnePool, ParticularLists, {Safe}, {Strong})
  \cup Finds(SpotPool, AskingLists, {Safe, Loose}, {Strong})
  \cup Finds({<<Big, Big>>}, FiveLists, {Loose}, Answered)
=============================================================================
