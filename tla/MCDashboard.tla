---------------------------- MODULE MCDashboard ----------------------------
(* Small instances of the dashboard, and of a node under its switch.        *)
EXTENDS SwitchedNode, TLC

CONSTANTS t1, t2, k1, k2, i1, i2

SwitchSession == [asks |-> {"poll", "on", "off"}, clusters |-> {k1, k2}, env |-> {}]
EngineSession(k) == [asks |-> {"poll"}, clusters |-> {k}, env |-> {"kubectl", "engine"}]
DispatchSession(k) == [asks |-> {"reports", "dispatch"}, clusters |-> {k}, env |-> {"reports"}]
NodeSession == [asks |-> {}, clusters |-> {}, env |-> {"kubectl", "node"}]
AllSessions == {SwitchSession, NodeSession} \cup {EngineSession(k) : k \in {k1, k2}}
                             \cup {DispatchSession(k) : k \in {k1, k2}}

\* Both images fill the disk, the second one alone does, the first does not.
Sizes == [i \in Images |-> IF i = i1 THEN 1 ELSE 2]

Interchangeable == Permutations({t1, t2}) \cup Permutations({k1, k2})
=============================================================================
