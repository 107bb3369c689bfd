---------------------------- MODULE ImageCleanup ----------------------------
(***************************************************************************)
(* The image cleanup of one node (cmd/node-image-gc, internal/imagegc): a  *)
(* process that again and again measures the disk, looks at the halt       *)
(* switch, lists the runtime's images and then its containers, and removes *)
(* the images that no container refers to, one call each, while the        *)
(* kubelet pulls images and starts and removes containers.                 *)
(*                                                                         *)
(* A definition X_Fault is X with one plausible mistake; no specification  *)
(* uses it.                                                                *)
(***************************************************************************)
EXTENDS Integers, FiniteSetsExt

CONSTANTS
  Images,       \* image IDs
  Tags,         \* names that images are pulled and referred to by
  Slots,        \* containers of the node, running or exited
  NoImage,      \* what a tag without an image names
  SizeOf,       \* bytes of each image
  Threshold,    \* DiskThresholdPercent, in bytes of images; 0: always
  MaxRemovals,  \* 0: no cap
  Modes         \* values the live flag may have

VARIABLES
  switch,      \* the halt ConfigMap says "true"
  tagged,      \* the image that each tag names
  present,     \* images on the node's disk, tagged or not
  containers,  \* what the containers refer to
  run,         \* the run of the process
  young,       \* history: containers made since the run has its lists
  quiet        \* history: the switch has been on since the run began

nodeVars == <<tagged, present, containers, run, young, quiet>>

\* A container has the image's ID, resolved when it was made, and its tag.
NoContainer == [ref |-> NoImage, tag |-> "none"]

\* A listed image comes with the tags it had then.
Asleep == [pc |-> "asleep", live |-> FALSE, full |-> FALSE,
           listed |-> [i \in {} |-> {}], todo |-> {}]

Init ==
  /\ tagged = [t \in Tags |-> NoImage] /\ present = {}
  /\ containers = [s \in Slots |-> NoContainer]
  /\ run = Asleep
  /\ young = {} /\ quiet = FALSE

Goto(r, pc) == run' = [r EXCEPT !.pc = pc]
Sleep == run' = Asleep

-----------------------------------------------------------------------------
(* A run: runOnce and Reclaim.                                             *)

Bytes == MapThenSumSet(LAMBDA i : SizeOf[i], present)

\* A run measures the disk before anything else.
Wake ==
  /\ run.pc = "asleep"
  /\ \E live \in Modes :
       Goto([Asleep EXCEPT !.live = live, !.full = Threshold = 0 \/ Bytes >= Threshold], "halt")
  /\ quiet' = switch
  /\ UNCHANGED <<tagged, present, containers, young>>

HaltCheck_Fault ==
  /\ run.pc = "halt"
  /\ IF run.live /\ switch THEN Sleep \/ Goto(run, "images") ELSE Goto(run, "images")
  /\ UNCHANGED <<tagged, present, containers, young, quiet>>

\* Only a live run looks at the switch; unreadable counts as set.
HaltCheck ==
  /\ run.pc = "halt"
  /\ \/ run.live /\ Sleep
     \/ (run.live => ~switch) /\ Goto(run, "images")
  /\ UNCHANGED <<tagged, present, containers, young, quiet>>

TagsOf(i) == {t \in Tags : tagged[t] = i}

\* Nothing is listed below the threshold.
ListImages ==
  /\ run.pc = "images"
  /\ IF run.full THEN Goto([run EXCEPT !.listed = [i \in present |-> TagsOf(i)]], "containers")
     ELSE Sleep
  /\ UNCHANGED <<tagged, present, containers, young, quiet>>

InUse_Fault(listed) ==
  {i \in DOMAIN listed : \E s \in Slots : containers[s].tag \in listed[i]}

\* A container refers to an image by its ID, or by a tag that names it now.
InUse(listed) ==
  {i \in DOMAIN listed : \E s \in Slots : containers[s].ref = i \/ containers[s].tag \in listed[i]}

Selections_Fault(candidates) == {candidates}

\* The largest ones up to the cap; images of one size come in any order.
Selections(candidates) ==
  LET n == Cardinality(candidates)
      k == IF MaxRemovals > 0 /\ n > MaxRemovals THEN MaxRemovals ELSE n
  IN {some \in kSubset(k, candidates) :
        \A i \in some, j \in candidates \ some : SizeOf[i] >= SizeOf[j]}

ListContainers ==
  /\ run.pc = "containers"
  /\ LET candidates == DOMAIN run.listed \ InUse(run.listed) IN
     IF candidates = {} \/ ~run.live THEN Sleep
     ELSE \E some \in Selections(candidates) :
            Goto([run EXCEPT !.todo = some, !.listed = Asleep.listed], "remove")
  /\ young' = {}
  /\ UNCHANGED <<tagged, present, containers, quiet>>

\* The largest first.
Turn(i) == run.pc = "remove" /\ i \in run.todo /\ \A j \in run.todo : SizeOf[i] >= SizeOf[j]

Proceed(i) ==
  IF run.todo = {i} THEN Sleep ELSE Goto([run EXCEPT !.todo = @ \ {i}], "remove")

Gone(i) ==
  /\ present' = present \ {i}
  /\ tagged' = [t \in Tags |-> IF tagged[t] = i THEN NoImage ELSE tagged[t]]

\* By its ID, with all its tags, whether the answer comes or not.
RemoveImage(i) ==
  /\ Turn(i) /\ Proceed(i) /\ Gone(i)
  /\ UNCHANGED <<containers, young, quiet>>

\* The runtime refuses, or the call fails.
RemovalFails(i) ==
  /\ Turn(i) /\ Proceed(i)
  /\ UNCHANGED <<tagged, present, containers, young, quiet>>

\* A call before the removals fails, or the process dies.
Fails ==
  /\ run.pc # "asleep"
  /\ Sleep
  /\ UNCHANGED <<tagged, present, containers, young, quiet>>

Run ==
  \/ Wake \/ HaltCheck \/ ListImages \/ ListContainers \/ Fails
  \/ \E i \in Images : RemoveImage(i) \/ RemovalFails(i)

-----------------------------------------------------------------------------
(* The kubelet and the runtime.                                            *)

\* A pull moves the tag: the image that had it stays, under its ID.
Pull(t, i) ==
  /\ tagged[t] # i
  /\ tagged' = [tagged EXCEPT ![t] = i]
  /\ present' = present \cup {i}
  /\ UNCHANGED <<containers, run, young, quiet>>

Create(s, t) ==
  /\ containers[s] = NoContainer /\ tagged[t] # NoImage
  /\ containers' = [containers EXCEPT ![s] = [ref |-> tagged[t], tag |-> t]]
  /\ young' = IF run.pc = "remove" THEN young \cup {s} ELSE young
  /\ UNCHANGED <<tagged, present, run, quiet>>

\* An exited container refers to its image until it is removed.
RemoveContainer(s) ==
  /\ containers[s] # NoContainer
  /\ containers' = [containers EXCEPT ![s] = NoContainer]
  /\ young' = young \ {s}
  /\ UNCHANGED <<tagged, present, run, quiet>>

Node ==
  \/ \E t \in Tags, i \in Images : Pull(t, i)
  \/ \E s \in Slots : RemoveContainer(s) \/ \E t \in Tags : Create(s, t)

\* Somebody writes the switch.
Switched == quiet' = (quiet /\ switch') /\ UNCHANGED <<tagged, present, containers, run, young>>

-----------------------------------------------------------------------------
(* Properties.                                                             *)

\* Everything keeps its type, tags name images that are there, and what is to be
\* removed is within the cap.
ImageCleanupTypeOK ==
  /\ present \subseteq Images
  /\ tagged \in [Tags -> present \cup {NoImage}]
  /\ containers \in [Slots -> [ref : Images, tag : Tags] \cup {NoContainer}]
  /\ run.pc \in {"asleep", "halt", "images", "containers", "remove"}
  /\ DOMAIN run.listed \subseteq Images /\ run.todo \subseteq Images
  /\ MaxRemovals > 0 => Cardinality(run.todo) <= MaxRemovals
  /\ run.pc = "remove" <=> run.todo # {}
  /\ young \subseteq Slots /\ quiet \in BOOLEAN
=============================================================================
