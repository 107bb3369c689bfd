---------------------------- MODULE SwitchedNode ----------------------------
(***************************************************************************)
(* The dashboard and the image cleanup of a node, over one halt ConfigMap: *)
(* whoever writes it through the dashboard or kubectl, the node's process  *)
(* reads it as it is, without the dashboard's caches.  The node takes part *)
(* in the sessions that have "node".                                       *)
(***************************************************************************)
EXTENDS Dashboard, FiniteSets

CONSTANTS Images, Tags, Slots, NoImage, SizeOf, Threshold, MaxRemovals, Modes

ASSUME ImageCleanupAssumption ==
  /\ IsFiniteSet(Images) /\ NoImage \notin Images
  /\ SizeOf \in [Images -> Nat] /\ Threshold \in Nat /\ MaxRemovals \in Nat
  /\ Modes \subseteq BOOLEAN

VARIABLES tagged, present, containers, run, young, quiet

Node == INSTANCE ImageCleanup WITH switch <- configMap = "true"

nodeVars == <<tagged, present, containers, run, young, quiet>>
allVars == <<vars, nodeVars>>

SwitchedInit == Init /\ Node!Init

Written == IF configMap' = configMap THEN UNCHANGED nodeVars ELSE Node!Switched

SwitchedNext ==
  \/ Next /\ Written
  \/ "node" \in session.env /\ (Node!Run \/ Node!Node) /\ UNCHANGED vars

SwitchedSpec == SwitchedInit /\ [][SwitchedNext]_allVars

-----------------------------------------------------------------------------
(* Properties.                                                             *)

\* The node's part keeps its type and its cap.
NodeTypeOK == Node!ImageCleanupTypeOK

\* An image that a container refers to goes only if the container was made after
\* the second of the run's two lists: what is made between them is seen, and tags
\* that have moved on do not hide an older image (README: "removes images no
\* container references").
UsedImagesSpared ==
  [][\A i \in Images :
       Node!RemoveImage(i) => \A s \in Slots : containers[s].ref = i => s \in young]_nodeVars

\* A run that begins while the switch is on, and all of which the switch stays on,
\* removes nothing, and neither does a dry-run (README: "honours the shared halt
\* switch"; imagegc.go, Live).
HaltedRunRemovesNothing ==
  [][\A i \in Images : Node!RemoveImage(i) => run.live /\ ~quiet]_nodeVars
=============================================================================
