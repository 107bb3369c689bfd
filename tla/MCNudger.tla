------------------------------ MODULE MCNudger ------------------------------
(* Small clusters for the consolidation pass.                              *)
EXTENDS NudgerInvariant, TLC

CONSTANTS n1, n2, n3, r1, r2, p1, p2, p3, p4, pdb

OnePool == [n \in Nodes |-> "main"]
Resources == {"cpu", "mem"}

\* Every node has room for two pods.
Even == [n \in Nodes |-> [d \in Resources |-> 2]]
Unit == [p \in Pods |-> [d \in Resources |-> 1]]

\* Room for three, and pods of one and of two: what is free may be in pieces.
Three == [n \in Nodes |-> [d \in Resources |-> 3]]
Mixed == [p \in Pods |-> [d \in Resources |-> IF p \in {p1, p3} THEN 2 ELSE 1]]

NoPdb == [b \in Pdbs |-> {}]
NoMin == [b \in Pdbs |-> 0]
PdbOverTwo == [b \in Pdbs |-> {p1, p2}]
OneStays == [b \in Pdbs |-> 1]

\* An actionable verdict that leaves one node or two, or one that does not
\* authorise anything.
KeepOne == [p \in {"main"} |-> [known |-> TRUE, actionable |-> TRUE, min |-> 1]]
KeepTwo == [p \in {"main"} |-> [known |-> TRUE, actionable |-> TRUE, min |-> 2]]
Withheld == [p \in {"main"} |-> [known |-> TRUE, actionable |-> FALSE, min |-> 0]]
Unknown == [p \in {"main"} |-> [known |-> FALSE, actionable |-> TRUE, min |-> 0]]
OneVerdict == {KeepOne}
AllVerdicts == {KeepOne, KeepTwo, Withheld, Unknown}

\* Every pod still has to be scheduled.
AllPending == [p \in Pods |-> Nowhere]
AllOnOne == [p \in Pods |-> n1]

\* Nodes are interchangeable when no pod starts on one of them.
Interchangeable == Permutations(Nodes)
=============================================================================
