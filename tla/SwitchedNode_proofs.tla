------------------------ MODULE SwitchedNode_proofs ------------------------
(***************************************************************************)
(* What the image cleanup of a node removes, and what it never does, while *)
(* the dashboard and kubectl write the switch: for any images, tags,       *)
(* containers, sizes and caps.                                             *)
(***************************************************************************)
EXTENDS SwitchedNode, FiniteSetTheorems, TLAPS

-----------------------------------------------------------------------------
(* The invariant.                                                          *)

\* A run has the fields it begins with.
Fields(r) ==
  r = [pc |-> r.pc, live |-> r.live, full |-> r.full, listed |-> r.listed, todo |-> r.todo]

RunFields == Fields(run) /\ run.live \in BOOLEAN

\* Only a live run removes, and not one under a switch that was set before it
\* and has been set since.
RemovalsMeant ==
  /\ run.pc = "remove" => run.live
  /\ quiet => configMap = "true"
  /\ quiet /\ run.pc \in {"images", "containers", "remove"} => ~run.live

\* What is still to be removed is referred to by nothing that the run could see.
RemovalsUnused ==
  run.pc = "remove" =>
    \A i \in run.todo, s \in Slots : containers[s].ref = i => s \in young

NodeInv ==
  /\ NodeTypeOK
  /\ RunFields
  /\ RemovalsMeant
  /\ RemovalsUnused

-----------------------------------------------------------------------------
(* Counting what is removed.                                               *)

\* The instance of the node counts as its surroundings do.
LEMMA NodeCounts == \A S : Node!Cardinality(S) = Cardinality(S)
BY Zenon DEF Cardinality, Node!Cardinality, IsFiniteSet, Node!IsFiniteSet

\* What a run selects is some of the candidates, and within the cap.
LEMMA SelectionCapped ==
  ASSUME NEW candidates \in SUBSET Images, candidates # {}, NEW some \in Node!Selections(candidates)
  PROVE  /\ some \subseteq candidates /\ some # {}
         /\ MaxRemovals > 0 => Cardinality(some) <= MaxRemovals
<1> DEFINE n == Cardinality(candidates)
           k == IF MaxRemovals > 0 /\ n > MaxRemovals THEN MaxRemovals ELSE n
<1>1. some \subseteq candidates /\ Cardinality(some) = k
  BY NodeCounts DEF Node!Selections, Node!kSubset
<1>2. n \in Nat /\ n # 0
  BY FS_Subset, FS_CardinalityType, FS_EmptySet, ImageCleanupAssumption DEF ImageCleanupAssumption
<1>3. k \in Nat /\ k # 0 /\ (MaxRemovals > 0 => k <= MaxRemovals)
  BY <1>2, ImageCleanupAssumption DEF ImageCleanupAssumption
<1> HIDE DEF k
<1>4. some # {}
  BY <1>1, <1>3, FS_EmptySet
<1> QED BY <1>1, <1>3, <1>4

\* One image less to remove is still within the cap.
LEMMA OneLess ==
  ASSUME NEW todo \in SUBSET Images, NEW i \in todo,
         MaxRemovals > 0 => Cardinality(todo) <= MaxRemovals
  PROVE  MaxRemovals > 0 => Cardinality(todo \ {i}) <= MaxRemovals
<1>1. IsFiniteSet(todo) /\ Cardinality(todo) \in Nat
  BY FS_Subset, FS_CardinalityType, ImageCleanupAssumption DEF ImageCleanupAssumption
<1>2. Cardinality(todo \ {i}) = Cardinality(todo) - 1
  BY <1>1, FS_RemoveElement
<1> QED BY <1>1, <1>2, ImageCleanupAssumption DEF ImageCleanupAssumption

-----------------------------------------------------------------------------
(* The run.                                                                *)

LEMMA AsleepFields ==
  /\ Fields(Node!Asleep) /\ Node!Asleep.pc = "asleep" /\ Node!Asleep.live = FALSE
  /\ Node!Asleep.todo = {} /\ DOMAIN Node!Asleep.listed = {}
  /\ Cardinality(Node!Asleep.todo) = 0
BY FS_EmptySet DEF Fields, Node!Asleep

\* Fields that are replaced are fields still.
LEMMA Replaced ==
  ASSUME NEW r, Fields(r), NEW a, NEW b
  PROVE  /\ [r EXCEPT !.live = a, !.full = b]
              = [pc |-> r.pc, live |-> a, full |-> b, listed |-> r.listed, todo |-> r.todo]
         /\ [r EXCEPT !.todo = a, !.listed = b]
              = [pc |-> r.pc, live |-> r.live, full |-> r.full, listed |-> b, todo |-> a]
<1>1. ASSUME NEW s, s = [r EXCEPT !.live = a]
      PROVE  [r EXCEPT !.live = a, !.full = b]
               = [pc |-> r.pc, live |-> a, full |-> b, listed |-> r.listed, todo |-> r.todo]
  <2>1. s = [pc |-> r.pc, live |-> a, full |-> r.full, listed |-> r.listed, todo |-> r.todo]
    BY <1>1 DEF Fields
  <2>2. [r EXCEPT !.live = a, !.full = b] = [s EXCEPT !.full = b]
    BY <1>1
  <2>3. [s EXCEPT !.full = b]
          = [pc |-> r.pc, live |-> a, full |-> b, listed |-> r.listed, todo |-> r.todo]
    BY <2>1
  <2> QED BY <2>2, <2>3
<1>2. ASSUME NEW s, s = [r EXCEPT !.todo = a]
      PROVE  [r EXCEPT !.todo = a, !.listed = b]
               = [pc |-> r.pc, live |-> r.live, full |-> r.full, listed |-> b, todo |-> a]
  <2>1. s = [pc |-> r.pc, live |-> r.live, full |-> r.full, listed |-> r.listed, todo |-> a]
    BY <1>2 DEF Fields
  <2>2. [r EXCEPT !.todo = a, !.listed = b] = [s EXCEPT !.listed = b]
    BY <1>2
  <2>3. [s EXCEPT !.listed = b]
          = [pc |-> r.pc, live |-> r.live, full |-> r.full, listed |-> b, todo |-> a]
    BY <2>1
  <2> QED BY <2>2, <2>3
<1> QED BY <1>1, <1>2

LEMMA GotoFields ==
  ASSUME NEW r, Fields(r), NEW pc, Node!Goto(r, pc)
  PROVE  run' = [pc |-> pc, live |-> r.live, full |-> r.full, listed |-> r.listed, todo |-> r.todo]
BY DEF Fields, Node!Goto

\* A run that is over leaves nothing to remove.
LEMMA SleepKeeps ==
  ASSUME NodeInv, Node!Sleep, UNCHANGED <<tagged, present, containers, configMap, quiet>>,
         young' \subseteq Slots
  PROVE  NodeInv'
<1>1. /\ run' = Node!Asleep /\ Fields(run') /\ run'.pc = "asleep" /\ run'.live = FALSE
      /\ run'.todo = {} /\ DOMAIN run'.listed = {} /\ Cardinality(run'.todo) = 0
  BY AsleepFields DEF Node!Sleep
<1>2. NodeTypeOK'
  BY <1>1, NodeCounts, ImageCleanupAssumption
     DEF ImageCleanupAssumption, NodeInv, NodeTypeOK, Node!ImageCleanupTypeOK, Node!NoContainer
<1>3. RunFields' /\ RemovalsMeant' /\ RemovalsUnused'
  BY <1>1 DEF NodeInv, RunFields, RemovalsMeant, RemovalsUnused
<1> QED BY <1>2, <1>3 DEF NodeInv

\* A run that goes on to a step before the removals.
LEMMA GoesOn ==
  ASSUME NodeInv, NEW r, Fields(r), r.live \in BOOLEAN, DOMAIN r.listed \subseteq Images,
         r.todo = {}, NEW pc \in {"halt", "images", "containers"}, Node!Goto(r, pc),
         UNCHANGED <<tagged, present, containers, young, configMap>>,
         quiet' \in BOOLEAN, quiet' => configMap = "true", quiet' /\ pc # "halt" => ~r.live
  PROVE  NodeInv'
<1>1. /\ run' = [pc |-> pc, live |-> r.live, full |-> r.full, listed |-> r.listed, todo |-> r.todo]
      /\ Cardinality({}) = 0
  BY GotoFields, FS_EmptySet
<1>2. /\ Fields(run') /\ run'.pc = pc /\ run'.live = r.live
      /\ run'.todo = {} /\ run'.listed = r.listed /\ Cardinality(run'.todo) = 0
  BY <1>1 DEF Fields
<1>3. NodeTypeOK'
  BY <1>2, NodeCounts, ImageCleanupAssumption
     DEF ImageCleanupAssumption, NodeInv, NodeTypeOK, Node!ImageCleanupTypeOK, Node!NoContainer
<1>4. RunFields' /\ RemovalsMeant' /\ RemovalsUnused'
  BY <1>2 DEF NodeInv, RunFields, RemovalsMeant, RemovalsUnused
<1> QED BY <1>3, <1>4 DEF NodeInv

LEMMA NothingToDo == NodeInv /\ run.pc # "remove" => run.todo = {}
BY DEF NodeInv, NodeTypeOK, Node!ImageCleanupTypeOK

LEMMA WakeKeeps == NodeInv /\ UNCHANGED vars /\ Node!Wake => NodeInv'
<1> SUFFICES ASSUME NodeInv, UNCHANGED vars, Node!Wake
             PROVE  NodeInv'
  OBVIOUS
<1> PICK live \in Modes :
      Node!Goto([Node!Asleep EXCEPT !.live = live,
                                    !.full = Threshold = 0 \/ Node!Bytes >= Threshold], "halt")
  BY DEF Node!Wake
<1> DEFINE full == Threshold = 0 \/ Node!Bytes >= Threshold
           r == [Node!Asleep EXCEPT !.live = live, !.full = full]
<1> HIDE DEF full
<1>0. r = [pc |-> Node!Asleep.pc, live |-> live, full |-> full, listed |-> Node!Asleep.listed,
           todo |-> Node!Asleep.todo]
  <2>1. Fields(Node!Asleep)
    BY AsleepFields
  <2> QED BY <2>1, Replaced, ZenonT(40)
<1> HIDE DEF r
<1>1. Fields(r) /\ r.live = live /\ r.todo = {} /\ r.listed = Node!Asleep.listed
  BY <1>0, AsleepFields DEF Fields
<1>2. live \in BOOLEAN /\ DOMAIN r.listed \subseteq Images
  BY <1>1, AsleepFields, ImageCleanupAssumption DEF ImageCleanupAssumption
<1>3. /\ UNCHANGED <<tagged, present, containers, young, configMap>>
      /\ quiet' \in BOOLEAN /\ (quiet' => configMap = "true")
  BY DEF Node!Wake, vars
<1>4. Node!Goto(r, "halt")
  BY DEF r, full
<1> QED BY <1>1, <1>2, <1>3, <1>4, GoesOn

LEMMA HaltCheckKeeps == NodeInv /\ UNCHANGED vars /\ Node!HaltCheck => NodeInv'
<1> SUFFICES ASSUME NodeInv, UNCHANGED vars, Node!HaltCheck
             PROVE  NodeInv'
  OBVIOUS
<1>1. UNCHANGED <<tagged, present, containers, young, configMap, quiet>>
  BY DEF Node!HaltCheck, vars
<1>2. CASE Node!Sleep
  BY <1>1, <1>2, SleepKeeps DEF NodeInv, NodeTypeOK, Node!ImageCleanupTypeOK
<1>3. CASE (run.live => ~(configMap = "true")) /\ Node!Goto(run, "images")
  <2>1. /\ Fields(run) /\ run.live \in BOOLEAN /\ DOMAIN run.listed \subseteq Images
        /\ run.todo = {} /\ quiet \in BOOLEAN /\ (quiet => configMap = "true")
    BY NothingToDo DEF NodeInv, RunFields, RemovalsMeant, NodeTypeOK, Node!ImageCleanupTypeOK,
                       Node!HaltCheck
  <2> QED BY <1>1, <1>3, <2>1, GoesOn
<1> QED BY <1>2, <1>3 DEF Node!HaltCheck

LEMMA ListImagesKeeps == NodeInv /\ UNCHANGED vars /\ Node!ListImages => NodeInv'
<1> SUFFICES ASSUME NodeInv, UNCHANGED vars, Node!ListImages
             PROVE  NodeInv'
  OBVIOUS
<1>1. UNCHANGED <<tagged, present, containers, young, configMap, quiet>>
  BY DEF Node!ListImages, vars
<1>2. CASE Node!Sleep
  BY <1>1, <1>2, SleepKeeps DEF NodeInv, NodeTypeOK, Node!ImageCleanupTypeOK
<1> DEFINE seen == [i \in present |-> Node!TagsOf(i)]
           r == [run EXCEPT !.listed = seen]
<1>3. CASE Node!Goto(r, "containers")
  <2>1. /\ Fields(run) /\ run.live \in BOOLEAN /\ run.todo = {} /\ run.pc = "images"
        /\ quiet \in BOOLEAN /\ (quiet => configMap = "true") /\ (quiet => ~run.live)
        /\ present \subseteq Images
    BY NothingToDo DEF NodeInv, RunFields, RemovalsMeant, NodeTypeOK, Node!ImageCleanupTypeOK,
                       Node!ListImages
  <2>2. Fields(r) /\ r.live = run.live /\ r.todo = {} /\ r.listed = seen
    BY <2>1 DEF Fields
  <2>3. DOMAIN seen = present
    OBVIOUS
  <2> HIDE DEF r, seen
  <2> QED BY <1>1, <1>3, <2>1, <2>2, <2>3, GoesOn
<1> QED BY <1>2, <1>3 DEF Node!ListImages

LEMMA FailsKeeps == NodeInv /\ UNCHANGED vars /\ Node!Fails => NodeInv'
<1> SUFFICES ASSUME NodeInv, UNCHANGED vars, Node!Fails
             PROVE  NodeInv'
  OBVIOUS
<1>1. UNCHANGED <<tagged, present, containers, young, configMap, quiet>> /\ Node!Sleep
  BY DEF Node!Fails, vars
<1> QED BY <1>1, SleepKeeps DEF NodeInv, NodeTypeOK, Node!ImageCleanupTypeOK

\* The images selected are those that no container refers to now.
LEMMA ListContainersKeeps == NodeInv /\ UNCHANGED vars /\ Node!ListContainers => NodeInv'
<1> SUFFICES ASSUME NodeInv, UNCHANGED vars, Node!ListContainers
             PROVE  NodeInv'
  OBVIOUS
<1> DEFINE candidates == DOMAIN run.listed \ Node!InUse(run.listed)
<1>1. /\ UNCHANGED <<tagged, present, containers, configMap, quiet>> /\ young' = {}
      /\ run.pc = "containers"
  BY DEF Node!ListContainers, vars
<1>2. CASE Node!Sleep
  BY <1>1, <1>2, SleepKeeps
<1>3. CASE candidates # {} /\ run.live /\ ~Node!Sleep
  <2> PICK some \in Node!Selections(candidates) :
        Node!Goto([run EXCEPT !.todo = some, !.listed = Node!Asleep.listed], "remove")
    BY <1>3 DEF Node!ListContainers
  <2> DEFINE none == Node!Asleep.listed
             r == [run EXCEPT !.todo = some, !.listed = none]
  <2> HIDE DEF none
  <2>1. candidates \subseteq Images
    BY DEF NodeInv, NodeTypeOK, Node!ImageCleanupTypeOK
  <2>2. /\ some \subseteq candidates /\ some # {}
        /\ MaxRemovals > 0 => Cardinality(some) <= MaxRemovals
    BY <1>3, <2>1, SelectionCapped
  <2>3. \A i \in candidates, s \in Slots : containers[s].ref # i
    BY DEF Node!InUse
  <2>a. Fields(run)
    BY DEF NodeInv, RunFields
  <2>b. r = [pc |-> run.pc, live |-> run.live, full |-> run.full, listed |-> none, todo |-> some]
    BY <2>a, Replaced
  <2>4. Fields(r) /\ r.live = run.live /\ r.todo = some /\ r.listed = none
    BY <2>b DEF Fields
  <2> HIDE DEF r, candidates
  <2>5. Node!Goto(r, "remove")
    BY DEF r, none
  <2>6. run' = [pc |-> "remove", live |-> r.live, full |-> r.full, listed |-> r.listed,
                todo |-> r.todo]
    BY <2>4, <2>5, GotoFields
  <2>7. /\ Fields(run') /\ run'.pc = "remove" /\ run'.live = run.live
        /\ run'.todo = some /\ DOMAIN run'.listed = {}
    BY <2>4, <2>6, AsleepFields DEF Fields, none
  <2>8. NodeTypeOK'
    BY <1>1, <2>1, <2>2, <2>7, NodeCounts
       DEF NodeInv, NodeTypeOK, Node!ImageCleanupTypeOK, Node!NoContainer
  <2>9. RunFields' /\ RemovalsMeant'
    BY <1>1, <1>3, <2>7 DEF NodeInv, RunFields, RemovalsMeant
  <2>10. RemovalsUnused'
    BY <1>1, <2>2, <2>3, <2>7 DEF RemovalsUnused
  <2> QED BY <2>8, <2>9, <2>10 DEF NodeInv
<1>4. Node!Sleep \/ (candidates # {} /\ run.live)
  BY DEF Node!ListContainers, NodeInv, RunFields
<1> QED BY <1>2, <1>3, <1>4

\* A removal, done or not, leaves less to do; no container changes.
LEMMA ProceedKeeps ==
  ASSUME NodeInv, NEW i, Node!Turn(i), Node!Proceed(i),
         UNCHANGED <<containers, young, configMap, quiet>>,
         present' \subseteq Images, tagged' \in [Tags -> present' \cup {NoImage}]
  PROVE  NodeInv'
<1>0. run.pc = "remove" /\ i \in run.todo
  BY DEF Node!Turn
<1>1. CASE Node!Sleep
  <2>1. /\ run' = Node!Asleep /\ Fields(run') /\ run'.pc = "asleep" /\ run'.live = FALSE
        /\ run'.todo = {} /\ DOMAIN run'.listed = {} /\ Cardinality(run'.todo) = 0
    BY <1>1, AsleepFields DEF Node!Sleep
  <2>2. NodeTypeOK'
    BY <2>1, NodeCounts, ImageCleanupAssumption
       DEF ImageCleanupAssumption, NodeInv, NodeTypeOK, Node!ImageCleanupTypeOK, Node!NoContainer
  <2>3. RunFields' /\ RemovalsMeant' /\ RemovalsUnused'
    BY <2>1 DEF NodeInv, RunFields, RemovalsMeant, RemovalsUnused
  <2> QED BY <2>2, <2>3 DEF NodeInv
<1> DEFINE less == run.todo \ {i}
           r == [run EXCEPT !.todo = less]
<1>2. CASE Node!Goto(r, "remove") /\ run.todo # {i}
  <2>2. /\ less \subseteq run.todo /\ less # {} /\ run.todo \subseteq Images
        /\ MaxRemovals > 0 => Cardinality(less) <= MaxRemovals
    BY <1>0, <1>2, OneLess, NodeCounts DEF NodeInv, NodeTypeOK, Node!ImageCleanupTypeOK
  <2> HIDE DEF less
  <2>a. r = [pc |-> run.pc, live |-> run.live, full |-> run.full, listed |-> run.listed,
             todo |-> less]
    BY DEF NodeInv, RunFields, Fields
  <2> HIDE DEF r
  <2>1. Fields(r) /\ r.live = run.live /\ r.todo = less /\ r.listed = run.listed
    BY <2>a DEF Fields
  <2>3. run' = [pc |-> "remove", live |-> r.live, full |-> r.full, listed |-> r.listed,
                todo |-> r.todo]
    BY <1>2, <2>1, GotoFields
  <2>4. /\ Fields(run') /\ run'.pc = "remove" /\ run'.live = run.live
        /\ run'.todo = less /\ run'.listed = run.listed
    BY <2>1, <2>3 DEF Fields
  <2>5. NodeTypeOK'
    BY <2>2, <2>4, NodeCounts
       DEF NodeInv, NodeTypeOK, Node!ImageCleanupTypeOK, Node!NoContainer
  <2>6. RunFields' /\ RemovalsMeant' /\ RemovalsUnused'
    BY <1>0, <2>2, <2>4 DEF NodeInv, RunFields, RemovalsMeant, RemovalsUnused
  <2> QED BY <2>5, <2>6 DEF NodeInv
<1> QED BY <1>1, <1>2 DEF Node!Proceed

LEMMA RemovalsKeep ==
  ASSUME NodeInv, UNCHANGED vars, NEW i \in Images, Node!RemoveImage(i) \/ Node!RemovalFails(i)
  PROVE  NodeInv'
<1>1. /\ Node!Turn(i) /\ Node!Proceed(i) /\ UNCHANGED <<containers, young, configMap, quiet>>
      /\ UNCHANGED <<tagged, present>> \/ Node!Gone(i)
  BY DEF Node!RemoveImage, Node!RemovalFails, vars
<1>2. present' \subseteq Images /\ tagged' \in [Tags -> present' \cup {NoImage}]
  BY <1>1 DEF Node!Gone, NodeInv, NodeTypeOK, Node!ImageCleanupTypeOK
<1> QED BY <1>1, <1>2, ProceedKeeps

-----------------------------------------------------------------------------
(* The kubelet and whoever writes the switch.                              *)

LEMMA PullKeeps ==
  ASSUME NodeInv, UNCHANGED vars, NEW t \in Tags, NEW i \in Images, Node!Pull(t, i)
  PROVE  NodeInv'
<1>1. /\ UNCHANGED <<containers, run, young, quiet, configMap>>
      /\ present' = present \cup {i} /\ tagged' = [tagged EXCEPT ![t] = i]
  BY DEF Node!Pull, vars
<1>2. NodeTypeOK'
  BY <1>1, NodeCounts DEF NodeInv, NodeTypeOK, Node!ImageCleanupTypeOK, Node!NoContainer
<1>3. RunFields' /\ RemovalsMeant' /\ RemovalsUnused'
  BY <1>1 DEF NodeInv, RunFields, Fields, RemovalsMeant, RemovalsUnused
<1> QED BY <1>2, <1>3 DEF NodeInv

\* A container made while the run removes is one that the run could not see.
LEMMA CreateKeeps ==
  ASSUME NodeInv, UNCHANGED vars, NEW s \in Slots, NEW t \in Tags, Node!Create(s, t)
  PROVE  NodeInv'
<1> DEFINE made == [ref |-> tagged[t], tag |-> t]
<1>1. /\ UNCHANGED <<tagged, present, run, quiet, configMap>> /\ tagged[t] # NoImage
      /\ containers' = [containers EXCEPT ![s] = made]
      /\ young' = IF run.pc = "remove" THEN young \cup {s} ELSE young
  BY DEF Node!Create, vars
<1>2. made \in [ref : Images, tag : Tags]
  BY <1>1 DEF NodeInv, NodeTypeOK, Node!ImageCleanupTypeOK
<1> HIDE DEF made
<1>3. NodeTypeOK'
  BY <1>1, <1>2, NodeCounts DEF NodeInv, NodeTypeOK, Node!ImageCleanupTypeOK, Node!NoContainer
<1>4. RunFields' /\ RemovalsMeant'
  BY <1>1 DEF NodeInv, RunFields, Fields, RemovalsMeant
<1>5. RemovalsUnused'
  <2>1. \A q \in Slots : q # s => containers'[q] = containers[q]
    BY <1>1 DEF NodeInv, NodeTypeOK, Node!ImageCleanupTypeOK
  <2> QED BY <1>1, <2>1 DEF NodeInv, RemovalsUnused
<1> QED BY <1>3, <1>4, <1>5 DEF NodeInv

LEMMA RemoveContainerKeeps ==
  ASSUME NodeInv, UNCHANGED vars, NEW s \in Slots, Node!RemoveContainer(s)
  PROVE  NodeInv'
<1>1. /\ UNCHANGED <<tagged, present, run, quiet, configMap>>
      /\ containers' = [containers EXCEPT ![s] = Node!NoContainer]
      /\ young' = young \ {s}
  BY DEF Node!RemoveContainer, vars
<1>2. NodeTypeOK'
  BY <1>1, NodeCounts DEF NodeInv, NodeTypeOK, Node!ImageCleanupTypeOK
<1>3. RunFields' /\ RemovalsMeant'
  BY <1>1 DEF NodeInv, RunFields, Fields, RemovalsMeant
<1>4. RemovalsUnused'
  <2>1. /\ \A q \in Slots : q # s => containers'[q] = containers[q]
        /\ containers'[s] = Node!NoContainer /\ run.todo \subseteq Images
    BY <1>1 DEF NodeInv, NodeTypeOK, Node!ImageCleanupTypeOK
  <2>2. \A i \in run.todo : containers'[s].ref # i
    BY <2>1, ImageCleanupAssumption DEF ImageCleanupAssumption, Node!NoContainer
  <2> QED BY <1>1, <2>1, <2>2 DEF NodeInv, RemovalsUnused
<1> QED BY <1>2, <1>3, <1>4 DEF NodeInv

\* A write of the switch ends the time that it has been set for.
LEMMA WrittenKeeps == NodeInv /\ Written => NodeInv'
<1> SUFFICES ASSUME NodeInv, Written
             PROVE  NodeInv'
  OBVIOUS
<1>1. /\ UNCHANGED <<tagged, present, containers, run, young>>
      /\ quiet' \in BOOLEAN
      /\ quiet' => quiet /\ configMap' = "true"
  BY DEF Written, Node!Switched, nodeVars, NodeInv, NodeTypeOK, Node!ImageCleanupTypeOK,
         RemovalsMeant
<1>2. NodeTypeOK'
  BY <1>1, NodeCounts DEF NodeInv, NodeTypeOK, Node!ImageCleanupTypeOK, Node!NoContainer
<1>3. RunFields' /\ RemovalsMeant' /\ RemovalsUnused'
  BY <1>1 DEF NodeInv, RunFields, Fields, RemovalsMeant, RemovalsUnused
<1> QED BY <1>2, <1>3 DEF NodeInv

LEMMA NodeInit == Node!Init => NodeInv
<1> SUFFICES ASSUME Node!Init PROVE NodeInv
  OBVIOUS
<1>1. /\ run = Node!Asleep /\ Fields(run) /\ run.pc = "asleep" /\ run.live = FALSE
      /\ run.todo = {} /\ DOMAIN run.listed = {} /\ Cardinality(run.todo) = 0
  BY AsleepFields DEF Node!Init
<1>2. NodeTypeOK
  <2>1. containers \in [Slots -> [ref : Images, tag : Tags] \cup {Node!NoContainer}]
    BY DEF Node!Init
  <2>2. tagged \in [Tags -> present \cup {NoImage}] /\ present = {} /\ young = {}
        /\ quiet \in BOOLEAN
    BY DEF Node!Init
  <2> QED BY <1>1, <2>1, <2>2, NodeCounts, ImageCleanupAssumption
             DEF ImageCleanupAssumption, NodeTypeOK, Node!ImageCleanupTypeOK
<1>3. RunFields /\ RemovalsMeant /\ RemovalsUnused
  BY <1>1 DEF Node!Init, RunFields, RemovalsMeant, RemovalsUnused
<1> QED BY <1>2, <1>3 DEF NodeInv

LEMMA NodeStep == NodeInv /\ [SwitchedNext]_allVars => NodeInv'
<1> SUFFICES ASSUME NodeInv, [SwitchedNext]_allVars
             PROVE  NodeInv'
  OBVIOUS
<1>1. CASE Next /\ Written
  BY <1>1, WrittenKeeps
<1>2. CASE Node!Run /\ UNCHANGED vars
  BY <1>2, WakeKeeps, HaltCheckKeeps, ListImagesKeeps, ListContainersKeeps, FailsKeeps,
     RemovalsKeep DEF Node!Run
<1>3. CASE Node!Node /\ UNCHANGED vars
  BY <1>3, PullKeeps, CreateKeeps, RemoveContainerKeeps DEF Node!Node
<1>4. CASE UNCHANGED allVars
  <2>1. Written
    BY <1>4 DEF allVars, vars, Written
  <2> QED BY <2>1, WrittenKeeps
<1> QED BY <1>1, <1>2, <1>3, <1>4 DEF SwitchedNext

-----------------------------------------------------------------------------
(* Theorems.                                                               *)

\* The node adds nothing to what the dashboard does: what is proved of the
\* dashboard alone holds of the two together.
THEOREM NodeSparesDashboard == SwitchedSpec => Spec
<1>1. SwitchedInit => Init
  BY DEF SwitchedInit
<1>2. [SwitchedNext]_allVars => [Next]_vars
  BY DEF SwitchedNext, allVars
<1> QED BY <1>1, <1>2, PTL DEF SwitchedSpec, Spec

\* The invariant of the node's run, its containers and the switch.
THEOREM NodeInvariance == SwitchedSpec => []NodeInv
<1>1. SwitchedInit => NodeInv
  BY NodeInit DEF SwitchedInit
<1> QED BY <1>1, NodeStep, PTL DEF SwitchedSpec

\* The node's part is well typed and no run has more to remove than its cap.
THEOREM NodeTyped == SwitchedSpec => []NodeTypeOK
<1>1. NodeInv => NodeTypeOK
  BY DEF NodeInv
<1> QED BY <1>1, NodeInvariance, PTL

\* No image goes that a container refers to, unless the container was made after
\* the run had both its lists (Reclaim).
THEOREM ImagesInUseSpared == SwitchedSpec => UsedImagesSpared
<1> DEFINE Spared ==
      \A i \in Images :
        Node!RemoveImage(i) => \A s \in Slots : containers[s].ref = i => s \in young
<1>1. NodeInv => Spared
  BY DEF NodeInv, RemovalsUnused, Node!RemoveImage, Node!Turn
<1>2. NodeInv /\ [SwitchedNext]_allVars => [Spared]_nodeVars
  BY <1>1
<1> QED BY <1>2, NodeInvariance, PTL DEF SwitchedSpec, UsedImagesSpared

\* Neither a dry-run nor a run that has had the switch set before it and ever
\* since removes an image (runOnce).
THEOREM HaltedRunsRemoveNothing == SwitchedSpec => HaltedRunRemovesNothing
<1> DEFINE Meant == \A i \in Images : Node!RemoveImage(i) => run.live /\ ~quiet
<1>1. NodeInv => Meant
  BY DEF NodeInv, RemovalsMeant, Node!RemoveImage, Node!Turn
<1>2. NodeInv /\ [SwitchedNext]_allVars => [Meant]_nodeVars
  BY <1>1
<1> QED BY <1>2, NodeInvariance, PTL DEF SwitchedSpec, HaltedRunRemovesNothing
=============================================================================
