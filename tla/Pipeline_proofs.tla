-------------------------- MODULE Pipeline_proofs --------------------------
(***************************************************************************)
(* What a tick of the CronJob guarantees, for any findings, pods, flags,   *)
(* retries and outside actors: the audit rows tell the truth, a pass under *)
(* the halt switch changes nothing, and nothing is trimmed unseen.         *)
(***************************************************************************)
EXTENDS Pipeline, TLAPS

-----------------------------------------------------------------------------
(* The invariant.                                                          *)

\* Attempts are numbered, and none has changed anything before it began.
AttemptsInOrder ==
  pass.pc # "idle" => /\ pass.attempt >= 1
                      /\ \A c \in changed : c.attempt <= pass.attempt

\* What is left to trim was seen in enough passes, this one included, and no
\* count is above the passes that made it.
CountsEarned ==
  /\ \A f \in Findings : stored[f] <= sighted[f] /\ pass.counts[f] <= sighted[f]
  /\ pass.pc = "plan" /\ Persist =>
       \A f \in pass.found : sighted[f] >= Upto(pass.counts[f] + 1)
  /\ \A i \in pass.todo : sighted[Order[i]] > MinOccurrences

\* A switch that has been set since the attempt began is set now, and has
\* turned the live stages away.
StagesTurnedAway ==
  quiet =>
    /\ halted
    /\ pass.pc = "patch" => ~pass.flags.apply
    /\ pass.pc \in {"reap", "drain"} => ~pass.flags.nudgeLive
    /\ pass.pc = "list" => ~pass.flags.gcLive
    /\ pass.pc # "delete"

\* A cleanup has victims only while it deletes, and none of them was running
\* when it was listed.
VictimsCompleted ==
  /\ pass.victims # {} => pass.pc = "delete"
  /\ \A p \in pass.victims : pods[p] # "running"

\* A cleanup that saw a deletion answered has deleted something.
DeletionsReal ==
  pass.deleted => \E c \in changed : c.attempt = pass.attempt /\ c.kind = "gc"

\* Every change of this attempt has its event, but for stripped markers, and for
\* deletions: those get one when the cleanup is done.
ChangesLogged ==
  pass.pc # "idle" =>
    \A c \in changed : c.attempt = pass.attempt /\ c.kind # "strip" =>
      \/ \E row \in pass.events : About(row, c)
      \/ c.kind = "gc" /\ pass.pc = "delete"

PipelineInv ==
  /\ PipelineTypeOK
  /\ AttemptsInOrder
  /\ CountsEarned
  /\ StagesTurnedAway
  /\ VictimsCompleted
  /\ DeletionsReal
  /\ ChangesLogged
  /\ AppliedRowsTrue
  /\ HaltedAttemptInert

-----------------------------------------------------------------------------
(* Types.                                                                  *)

LEMMA CountTypes ==
  /\ Top \in Nat /\ Top >= 1
  /\ \A n \in Nat : Upto(n) \in 0..Top
  /\ NoCounts \in Counts
BY PipelineAssumption DEF PipelineAssumption, Top, Upto, NoCounts, Counts

LEMMA FreshTypes ==
  /\ \A n \in 1..(Retries + 1), flags \in Flags : Fresh(n, flags) \in Pass
  /\ Idle \in Pass
<1>1. ASSUME NEW n \in 0..(Retries + 1), NEW flags \in Flags
      PROVE  Fresh(n, flags) \in Pass
  BY CountTypes DEF Fresh, Pass, Stage
<1>2. NoFlags \in Flags
  BY DEF NoFlags, Flags
<1>3. Fresh(0, NoFlags) \in Pass
  BY <1>1, <1>2, PipelineAssumption DEF PipelineAssumption
<1>4. Idle \in Pass
  BY <1>3 DEF Idle, Pass, Stage
<1> QED BY <1>1, <1>4, PipelineAssumption DEF PipelineAssumption

LEMMA FailsType ==
  ASSUME PipelineTypeOK, AttemptsInOrder, pass.pc # "idle", Fails
  PROVE  pass' \in Pass /\ quiet' \in BOOLEAN
BY FreshTypes, PipelineAssumption
   DEF PipelineAssumption, PipelineTypeOK, AttemptsInOrder, Fails, Pass

\* What an event of the running attempt says is typed.
LEMMA RowType ==
  ASSUME PipelineTypeOK, AttemptsInOrder, pass.pc # "idle",
         NEW kind \in Kind, NEW what \in Findings \cup {"node", "pods"}, NEW applied \in BOOLEAN
  PROVE  RowOf(kind, what, applied) \in Row /\ Log(kind, what, applied) \in Pass
<1>1. RowOf(kind, what, applied) \in Row
  BY PipelineAssumption DEF PipelineAssumption, PipelineTypeOK, AttemptsInOrder, Pass, RowOf, Row
<1> QED BY <1>1 DEF PipelineTypeOK, Pass, Log

LEMMA ChangesType ==
  ASSUME PipelineTypeOK, AttemptsInOrder, pass.pc # "idle",
         NEW kind \in Kind \cup {"strip"}, NEW what \in Findings \cup PodNames \cup {"node"},
         Changes(kind, what)
  PROVE  changed' \subseteq Change
BY PipelineAssumption
   DEF PipelineAssumption, PipelineTypeOK, AttemptsInOrder, Pass, Changes, Change

LEMMA InitInv == Init => PipelineInv
<1> SUFFICES ASSUME Init PROVE PipelineInv
  OBVIOUS
<1>1. PipelineTypeOK
  <2>1. slack \in [Findings -> 0..MaxSlack]
    BY PipelineAssumption DEF PipelineAssumption, Init
  <2>2. stored \in Counts /\ sighted \in Counts /\ pass \in Pass
    BY FreshTypes, CountTypes DEF Init
  <2> QED BY <2>1, <2>2 DEF Init, PipelineTypeOK
<1>2. AttemptsInOrder /\ StagesTurnedAway /\ VictimsCompleted /\ DeletionsReal /\ ChangesLogged
  BY DEF Init, Idle, Fresh, AttemptsInOrder, StagesTurnedAway, VictimsCompleted, DeletionsReal,
         ChangesLogged
<1>3. CountsEarned
  BY CountTypes DEF Init, Idle, Fresh, NoCounts, CountsEarned
<1>4. AppliedRowsTrue /\ HaltedAttemptInert
  BY DEF Init, Idle, Fresh, AppliedRowsTrue, HaltedAttemptInert
<1> QED BY <1>1, <1>2, <1>3, <1>4 DEF PipelineInv

LEMMA GotoType ==
  ASSUME NEW s \in Pass, NEW pc \in Stage, Goto(s, pc)
  PROVE  pass' \in Pass
BY DEF Goto, Pass

\* A count that goes up by one for some findings stays one.
LEMMA CountUp ==
  ASSUME NEW base \in Counts, NEW others \in Counts, NEW fs \in SUBSET Findings
  PROVE  [f \in Findings |-> IF f \in fs THEN Upto(base[f] + 1) ELSE others[f]] \in Counts
BY CountTypes DEF Counts

LEMMA StoreType ==
  ASSUME PipelineTypeOK, AttemptsInOrder, Store
  PROVE  PipelineTypeOK'
<1>0. /\ pass.counts \in Counts /\ pass.found \in SUBSET Findings
      /\ stored \in Counts /\ sighted \in Counts /\ pass \in Pass
  BY DEF PipelineTypeOK, Pass
<1>1. CASE ReadExisting
  <2>1. [pass EXCEPT !.counts = stored, !.read = TRUE] \in Pass
    BY <1>0 DEF Pass
  <2>2. pass' \in Pass
    BY <1>0, <1>1, <2>1, GotoType DEF ReadExisting, Stage
  <2> QED BY <1>1, <2>2 DEF ReadExisting, PipelineTypeOK, cluster
<1>2. \A base \in Bases : base \in Counts
  BY <1>0, CountTypes DEF Bases
<1>3. ASSUME NEW base \in Bases, NEW fs \in SUBSET Findings PROVE Counted(base, fs) \in Counts
  BY <1>0, <1>2, CountUp DEF Counted
<1>4. \A fs \in SUBSET Findings :
        [f \in Findings |-> IF f \in fs THEN Upto(sighted[f] + 1) ELSE sighted[f]] \in Counts
  BY <1>0, CountUp
<1>5. CASE PutReport
  <2>1. stored' \in Counts /\ sighted' \in Counts
    BY <1>0, <1>3, <1>4, <1>5 DEF PutReport
  <2>2. pass' \in Pass
    BY <1>0, <1>5, GotoType DEF PutReport, Stage
  <2> QED BY <1>5, <2>1, <2>2 DEF PutReport, PipelineTypeOK, cluster
<1>6. CASE PutReportFails
  <2>1. stored' \in Counts /\ sighted' \in Counts
    BY <1>0, <1>3, <1>4, <1>6 DEF PutReportFails
  <2>2. pass' \in Pass /\ quiet' \in BOOLEAN
    BY <1>6, FailsType DEF PutReportFails
  <2> QED BY <1>6, <2>1, <2>2 DEF PutReportFails, PipelineTypeOK, cluster
<1> QED BY <1>1, <1>5, <1>6 DEF Store

LEMMA TrimType ==
  ASSUME PipelineTypeOK, AttemptsInOrder, Trim
  PROVE  PipelineTypeOK'
<1> USE DEF PipelineTypeOK, cluster
<1>0. pass \in Pass /\ \A i \in 1..Len(Order) : Order[i] \in Findings
  BY PipelineAssumption DEF PipelineAssumption
<1>1. CASE Plan
  <2> DEFINE todo == FirstOf(MaxActions, {i \in 1..Len(Order) : Eligible(Order[i])})
  <2>1. todo \subseteq 1..Len(Order)
    BY DEF FirstOf
  <2>2. [pass EXCEPT !.todo = todo] \in Pass
    BY <1>0, <2>1 DEF Pass
  <2> HIDE DEF todo
  <2>3. pass' \in Pass
    BY <1>1, <2>2, GotoType DEF Plan, Stage, todo
  <2> QED BY <1>1, <2>3 DEF Plan
<1>2. CASE ApplyHalted
  <2> DEFINE new == {RowOf("patch", f, FALSE) : f \in Planned}
  <2>1. Planned \subseteq Findings
    BY <1>0 DEF Planned, Pass
  <2>2. new \subseteq Row
    BY <1>2, <2>1, RowType DEF ApplyHalted, Kind
  <2>3. [pass EXCEPT !.todo = {}, !.events = @ \cup new] \in Pass
    BY <1>0, <2>2 DEF Pass
  <2> HIDE DEF new
  <2>4. pass' \in Pass
    BY <1>2, <2>3, GotoType DEF ApplyHalted, Stage, new
  <2> QED BY <1>2, <2>4 DEF ApplyHalted
<1>3. CASE ApplyNoClient
  BY <1>0, <1>3 DEF ApplyNoClient, Goto, Pass, Stage
<1>4. CASE ApplyBegin
  BY <1>0, <1>4 DEF ApplyBegin, Goto, Pass, Stage
<1>5. ASSUME NEW i \in 1..Len(Order), NEW applied \in BOOLEAN, Turn(i), Applied(i, applied)
      PROVE  pass' \in Pass
  <2>1. Log("patch", Order[i], applied) \in Pass
    BY <1>0, <1>5, RowType DEF Turn, Kind
  <2> DEFINE s == [Log("patch", Order[i], applied) EXCEPT !.todo = @ \ {i}]
  <2>2. s \in Pass
    BY <2>1 DEF Pass
  <2> HIDE DEF s
  <2> QED BY <1>5, <2>2, GotoType DEF Applied, s, Stage
<1>6. ASSUME NEW i \in 1..Len(Order), Turn(i), Trimmed(Order[i])
      PROVE  slack' \in [Findings -> 0..MaxSlack] /\ changed' \subseteq Change
  <2>1. slack' \in [Findings -> 0..MaxSlack]
    BY <1>0, <1>6, PipelineAssumption DEF PipelineAssumption, Trimmed
  <2>2. changed' \subseteq Change
    BY <1>0, <1>6, ChangesType DEF Turn, Trimmed, Kind
  <2> QED BY <2>1, <2>2
<1>7. ASSUME NEW i \in 1..Len(Order), PatchWorkload(i) PROVE PipelineTypeOK'
  BY <1>5, <1>6, <1>7 DEF PatchWorkload
<1>8. ASSUME NEW i \in 1..Len(Order), PatchSkipped(i) PROVE PipelineTypeOK'
  BY <1>5, <1>8 DEF PatchSkipped
<1>9. ASSUME NEW i \in 1..Len(Order), PatchUnanswered(i) PROVE PipelineTypeOK'
  BY <1>5, <1>6, <1>9 DEF PatchUnanswered
<1> QED BY <1>1, <1>2, <1>3, <1>4, <1>7, <1>8, <1>9 DEF Trim

LEMMA NudgeType ==
  ASSUME PipelineTypeOK, AttemptsInOrder, Nudge
  PROVE  PipelineTypeOK'
<1> USE DEF PipelineTypeOK, cluster
<1>0. /\ pass.pc # "idle" /\ pass \in Pass
      /\ \A kind \in {"uncordon", "drain"}, applied \in BOOLEAN :
           Log(kind, "node", applied) \in Pass
  <2>1. pass.pc # "idle"
    BY DEF Nudge, NudgeOff, NudgeHalted, NudgeBegin, ReapNothing, ReapCordon, StripMarkers,
           DrainNothing, Drain, DrainUnanswered, Cordons
  <2> QED BY <2>1, RowType DEF Kind
<1>1. CASE NudgeOff \/ NudgeBegin
  BY <1>0, <1>1, GotoType DEF NudgeOff, NudgeBegin, Stage
<1>2. CASE NudgeHalted \/ ReapNothing \/ DrainNothing
  BY <1>0, <1>2, GotoType DEF NudgeHalted, ReapNothing, DrainNothing, Stage
<1>3. CASE ReapCordon
  <2>1. changed' \subseteq Change
    BY <1>0, <1>3, ChangesType DEF ReapCordon, Kind
  <2>2. pass' \in Pass
    BY <1>0, <1>3, GotoType DEF ReapCordon, Stage
  <2> QED BY <1>3, <2>1, <2>2 DEF ReapCordon
<1>7. CASE StripMarkers
  <2>1. changed' \subseteq Change
    BY <1>0, <1>7, ChangesType DEF StripMarkers
  <2>2. pass' \in Pass
    BY <1>0, <1>7, GotoType DEF StripMarkers, Stage
  <2> QED BY <1>7, <2>1, <2>2 DEF StripMarkers
<1>4. ASSUME Cordons PROVE changed' \subseteq Change
  BY <1>0, <1>4, ChangesType DEF Cordons, Kind
<1>5. CASE Drain
  <2>1. pass' \in Pass
    BY <1>0, <1>5, GotoType DEF Drain, Stage
  <2> QED BY <1>4, <1>5, <2>1 DEF Drain, Cordons
<1>6. CASE DrainUnanswered
  <2>1. pass' \in Pass /\ quiet' \in BOOLEAN
    BY <1>0, <1>6, FailsType DEF DrainUnanswered
  <2> QED BY <1>4, <1>6, <2>1 DEF DrainUnanswered, Cordons
<1> QED BY <1>1, <1>2, <1>3, <1>5, <1>6, <1>7 DEF Nudge

LEMMA CleanupType ==
  ASSUME PipelineTypeOK, AttemptsInOrder, Cleanup
  PROVE  PipelineTypeOK'
<1> USE DEF PipelineTypeOK, cluster
<1>0. /\ pass.pc # "idle" /\ pass \in Pass
      /\ \A applied \in BOOLEAN : Log("gc", "pods", applied) \in Pass
  <2>1. pass.pc # "idle"
    BY DEF Cleanup, GcOff, GcHalted, GcBegin, ListCompleted, GcDone, DeletePod, DeleteFails
  <2> QED BY <2>1, RowType DEF Kind
<1>1. CASE GcOff \/ GcBegin
  BY <1>0, <1>1, GotoType DEF GcOff, GcBegin, Stage
<1>2. CASE GcHalted
  BY <1>0, <1>2, GotoType DEF GcHalted, Stage
<1>3. CASE GcDone
  <2>1. (pass.deleted /\ ~pass.errors) \in BOOLEAN
    BY <1>0 DEF Pass
  <2>2. pass' \in Pass
    BY <1>0, <1>3, <2>1, GotoType DEF GcDone, Stage
  <2> QED BY <1>3, <2>2 DEF GcDone
<1>4. CASE ListCompleted
  <2>1. \A some \in SUBSET PodNames : [pass EXCEPT !.victims = some] \in Pass
    BY <1>0 DEF Pass
  <2>2. pass' \in Pass
    <3> DEFINE done == {p \in PodNames : pods[p] = "completed"}
    <3>1. \A some \in SUBSET done : some \in SUBSET PodNames
      OBVIOUS
    <3>2. CASE Goto(pass, "persist") \/ Goto(Log("gc", "pods", FALSE), "persist")
      BY <1>0, <3>2, GotoType DEF Stage
    <3>3. CASE \E some \in SUBSET done : Goto([pass EXCEPT !.victims = some], "delete")
      BY <2>1, <3>1, <3>3, GotoType DEF Stage
    <3> QED BY <1>4, <3>2, <3>3 DEF ListCompleted
  <2> QED BY <1>4, <2>2 DEF ListCompleted
<1>5. ASSUME NEW p \in PodNames, DeletePod(p) PROVE PipelineTypeOK'
  <2>1. pass' \in Pass
    <3>1. [pass EXCEPT !.victims = @ \ {p}] \in Pass
      BY <1>0 DEF Pass
    <3>2. ASSUME NEW answered \in BOOLEAN
          PROVE  [pass EXCEPT !.victims = @ \ {p}, !.deleted = @ \/ answered,
                              !.errors = @ \/ ~answered] \in Pass
      <4>1. (pass.deleted \/ answered) \in BOOLEAN /\ (pass.errors \/ ~answered) \in BOOLEAN
        BY <1>0 DEF Pass
      <4> QED BY <1>0, <4>1, ZenonT(40) DEF Pass
    <3> QED BY <1>5, <3>1, <3>2 DEF DeletePod
  <2>2. changed' \subseteq Change
    BY <1>0, <1>5, ChangesType DEF DeletePod, Kind
  <2> QED BY <1>5, <2>1, <2>2 DEF DeletePod
<1>6. ASSUME NEW p \in PodNames, DeleteFails(p) PROVE PipelineTypeOK'
  BY <1>0, <1>6 DEF DeleteFails, Pass
<1> QED BY <1>1, <1>2, <1>3, <1>4, <1>5, <1>6 DEF Cleanup

LEMMA OutsideType ==
  ASSUME PipelineTypeOK, Outside
  PROVE  PipelineTypeOK'
<1> USE DEF PipelineTypeOK, cluster
<1>1. CASE SetHalt \/ OptIn \/ CordonMoves
  BY <1>1 DEF SetHalt, OptIn, CordonMoves
<1>2. ASSUME NEW f \in Findings, Usage(f) PROVE PipelineTypeOK'
  BY <1>2, PipelineAssumption DEF PipelineAssumption, Usage
<1>3. ASSUME NEW f \in Findings, Expire(f) PROVE PipelineTypeOK'
  BY <1>3, CountTypes DEF Expire, Counts
<1>4. ASSUME NEW p \in PodNames, PodLives(p) PROVE PipelineTypeOK'
  BY <1>4 DEF PodLives
<1> QED BY <1>1, <1>2, <1>3, <1>4 DEF Outside

LEMMA TypeStep ==
  ASSUME PipelineTypeOK, AttemptsInOrder, [Next]_vars
  PROVE  PipelineTypeOK'
<1> USE DEF PipelineTypeOK, cluster
<1>0. pass \in Pass
  OBVIOUS
<1>1. CASE StartJob
  <2>1. 1 \in 1..(Retries + 1) /\ Configs \subseteq Flags
    BY PipelineAssumption DEF PipelineAssumption
  <2>2. pass' \in Pass
    BY <1>1, <2>1, FreshTypes DEF StartJob
  <2> QED BY <1>1, <2>2 DEF StartJob
<1>2. CASE Collect
  <2>1. [pass EXCEPT !.found = {f \in Findings : slack[f] > 0}, !.labels = optedIn] \in Pass
    BY <1>0 DEF Pass
  <2>2. pass' \in Pass
    BY <1>2, <2>1, GotoType DEF Collect, Stage
  <2> QED BY <1>2, <2>2 DEF Collect
<1>3. CASE WriteAudit
  <2>1. pass.events \subseteq Row
    BY <1>0 DEF Pass
  <2> QED BY <1>3, <2>1, FreshTypes DEF WriteAudit
<1>4. CASE ReturnsError \/ Crash
  BY <1>4, FailsType DEF ReturnsError, Crash
<1>5. CASE Store \/ Trim \/ Nudge \/ Cleanup \/ Outside
  BY <1>5, StoreType, TrimType, NudgeType, CleanupType, OutsideType
<1>6. CASE UNCHANGED vars
  BY <1>6 DEF vars
<1> QED BY <1>1, <1>2, <1>3, <1>4, <1>5, <1>6 DEF Next, PassStep

-----------------------------------------------------------------------------
(* What a step of a pass does to the tick.                                 *)

\* A step keeps to its attempt, or ends it; it forgets no change, and what it
\* changes it changes as that attempt.
LEMMA PassEffect ==
  ASSUME PipelineTypeOK, PassStep \/ Crash
  PROVE  /\ pass.pc # "idle"
         /\ \/ /\ pass'.pc # "idle" /\ pass'.attempt = pass.attempt
               /\ pass'.flags = pass.flags /\ quiet' = quiet
            \/ Fails
            \/ pass' = Idle /\ quiet' = quiet
         /\ changed \subseteq changed'
         /\ \A c \in changed' \ changed : c.attempt = pass.attempt
<1> USE DEF cluster
<1>0. pass \in Pass
  BY DEF PipelineTypeOK
<1>1. CASE Collect \/ WriteAudit \/ Crash \/ ReturnsError
  BY <1>0, <1>1 DEF Collect, WriteAudit, Crash, ReturnsError, Goto, Pass
<1>2. CASE Store
  BY <1>0, <1>2 DEF Store, ReadExisting, PutReport, PutReportFails, Goto, Pass
<1>3. CASE Plan \/ ApplyHalted \/ ApplyNoClient \/ ApplyBegin
  BY <1>0, <1>3 DEF Plan, ApplyHalted, ApplyNoClient, ApplyBegin, Goto, Pass
<1>4. ASSUME NEW i \in 1..Len(Order), PatchWorkload(i) \/ PatchSkipped(i) \/ PatchUnanswered(i)
      PROVE  /\ pass.pc # "idle" /\ pass'.pc # "idle" /\ pass'.attempt = pass.attempt
             /\ pass'.flags = pass.flags /\ quiet' = quiet /\ changed \subseteq changed'
             /\ \A c \in changed' \ changed : c.attempt = pass.attempt
  <2>1. ASSUME NEW applied, Applied(i, applied)
        PROVE  pass'.pc # "idle" /\ pass'.attempt = pass.attempt /\ pass'.flags = pass.flags
    BY <1>0, <2>1 DEF Applied, Log, Goto, Pass
  <2>2. pass.pc # "idle" /\ \E applied \in BOOLEAN : Applied(i, applied)
    BY <1>4 DEF PatchWorkload, PatchSkipped, PatchUnanswered, Turn
  <2>3. changed' = changed \/ \E what : Changes("patch", what)
    BY <1>4 DEF PatchWorkload, PatchSkipped, PatchUnanswered, Trimmed
  <2>4. changed \subseteq changed' /\ \A c \in changed' \ changed : c.attempt = pass.attempt
    BY <2>3 DEF Changes
  <2>5. quiet' = quiet
    BY <1>4 DEF PatchWorkload, PatchSkipped, PatchUnanswered
  <2> QED BY <2>1, <2>2, <2>4, <2>5
<1>5. CASE Nudge
  <2>1. CASE NudgeOff \/ NudgeBegin \/ NudgeHalted \/ ReapNothing \/ DrainNothing
    BY <1>0, <2>1 DEF NudgeOff, NudgeBegin, NudgeHalted, ReapNothing, DrainNothing, Log, Goto, Pass
  <2>2. CASE ReapCordon
    BY <1>0, <2>2 DEF ReapCordon, Changes, Log, Goto, Pass
  <2>3. CASE Drain
    BY <1>0, <2>3 DEF Drain, Cordons, Changes, Log, Goto, Pass
  <2>5. CASE StripMarkers
    <3>1. \/ Goto(pass, "drain")
          \/ Goto(Log("uncordon", "node", FALSE), "drain")
      BY <2>5 DEF StripMarkers
    <3>2. pass'.pc # "idle" /\ pass'.attempt = pass.attempt /\ pass'.flags = pass.flags
      BY <1>0, <3>1 DEF Log, Goto, Pass
    <3>3. /\ pass.pc # "idle" /\ quiet' = quiet
          /\ changed \subseteq changed' /\ \A c \in changed' \ changed : c.attempt = pass.attempt
      BY <2>5 DEF StripMarkers, Changes
    <3> QED BY <3>2, <3>3
  <2>4. CASE DrainUnanswered
    BY <2>4 DEF DrainUnanswered, Cordons, Changes
  <2> QED BY <1>5, <2>1, <2>2, <2>3, <2>4, <2>5 DEF Nudge
<1>6. CASE GcOff \/ GcHalted \/ GcBegin \/ ListCompleted \/ GcDone
  BY <1>0, <1>6 DEF GcOff, GcHalted, GcBegin, ListCompleted, GcDone, Log, Goto, Pass
<1>7. ASSUME NEW p \in PodNames, DeletePod(p) \/ DeleteFails(p)
      PROVE  /\ pass.pc # "idle" /\ pass'.pc # "idle" /\ pass'.attempt = pass.attempt
             /\ pass'.flags = pass.flags /\ quiet' = quiet /\ changed \subseteq changed'
             /\ \A c \in changed' \ changed : c.attempt = pass.attempt
  <2>1. changed' = changed \/ Changes("gc", p)
    BY <1>7 DEF DeletePod, DeleteFails
  <2>2. changed \subseteq changed' /\ \A c \in changed' \ changed : c.attempt = pass.attempt
    BY <2>1 DEF Changes
  <2>3. pass.pc # "idle" /\ quiet' = quiet
    BY <1>7 DEF DeletePod, DeleteFails
  <2>4. pass'.pc # "idle" /\ pass'.attempt = pass.attempt /\ pass'.flags = pass.flags
    BY <1>0, <1>7 DEF DeletePod, DeleteFails, Pass
  <2> QED BY <2>2, <2>3, <2>4
<1> QED BY <1>1, <1>2, <1>3, <1>4, <1>5, <1>6, <1>7 DEF PassStep, Trim, Cleanup

\* Nobody else touches the process or what it has done.
LEMMA OutsideEffect ==
  ASSUME PipelineTypeOK, Outside
  PROVE  /\ UNCHANGED <<pass, changed, rows, sighted>>
         /\ quiet' => quiet /\ (halted => halted')
<1>1. UNCHANGED <<pass, changed, rows, sighted>>
  BY DEF Outside, SetHalt, OptIn, CordonMoves, Usage, Expire, PodLives, cluster
<1>2. CASE SetHalt
  BY <1>1, <1>2 DEF SetHalt, PipelineTypeOK
<1>3. CASE ~SetHalt
  BY <1>1, <1>3 DEF Outside, OptIn, CordonMoves, Usage, Expire, PodLives, cluster
<1> QED BY <1>2, <1>3

LEMMA AttemptsStep ==
  ASSUME PipelineTypeOK, AttemptsInOrder, [Next]_vars
  PROVE  AttemptsInOrder'
<1> USE DEF AttemptsInOrder
<1>0. pass.attempt \in Nat /\ \A c \in changed : c.attempt \in Nat
  BY PipelineAssumption DEF PipelineAssumption, PipelineTypeOK, Pass, Change
<1>1. CASE StartJob
  BY <1>1 DEF StartJob, Fresh
<1>2. CASE PassStep \/ Crash
  <2>1. CASE Fails
    <3>1. pass'.pc # "idle" => pass'.attempt = pass.attempt + 1
      BY <2>1 DEF Fails, Fresh, Idle
    <3> QED BY <1>0, <1>2, <3>1, PassEffect
  <2>2. CASE pass' = Idle
    BY <2>2 DEF Idle
  <2> QED BY <1>0, <1>2, <2>1, <2>2, PassEffect
<1>3. CASE Outside \/ UNCHANGED vars
  BY <1>3, OutsideEffect DEF vars
<1> QED BY <1>1, <1>2, <1>3 DEF Next

-----------------------------------------------------------------------------
(* The halt switch.                                                        *)

LEMMA SwitchStep ==
  ASSUME PipelineTypeOK, StagesTurnedAway, [Next]_vars
  PROVE  StagesTurnedAway'
<1> USE DEF StagesTurnedAway
<1>0. pass \in Pass
  BY DEF PipelineTypeOK
<1>1. CASE StartJob
  BY <1>1 DEF StartJob, Fresh, cluster
<1>2. ASSUME Fails, halted' = halted PROVE StagesTurnedAway'
  BY <1>2 DEF Fails, Fresh, Idle
<1>3. CASE Crash \/ ReturnsError \/ PutReportFails \/ DrainUnanswered
  BY <1>2, <1>3 DEF Crash, ReturnsError, PutReportFails, DrainUnanswered, Cordons, cluster
<1>4. CASE Collect \/ ReadExisting \/ PutReport \/ WriteAudit
  BY <1>0, <1>4, ZenonT(40) DEF Collect, ReadExisting, PutReport, WriteAudit, Goto, Idle, Fresh, Pass, cluster
<1>5. CASE Plan \/ ApplyHalted \/ ApplyNoClient \/ ApplyBegin
  BY <1>0, <1>5, ZenonT(40) DEF Plan, ApplyHalted, ApplyNoClient, ApplyBegin, Goto, Pass, cluster
<1>6. ASSUME NEW i \in 1..Len(Order), PatchWorkload(i) \/ PatchSkipped(i) \/ PatchUnanswered(i)
      PROVE  StagesTurnedAway'
  <2>1. ASSUME NEW applied, Applied(i, applied)
        PROVE  pass'.pc \in {"nudge", "patch"} /\ pass'.flags = pass.flags
    BY <1>0, <2>1 DEF Applied, Log, Goto, Pass
  <2> QED BY <1>6, <2>1 DEF PatchWorkload, PatchSkipped, PatchUnanswered, Turn, cluster
<1>7. CASE NudgeOff \/ NudgeHalted \/ NudgeBegin \/ ReapNothing \/ DrainNothing
  BY <1>0, <1>7
  DEF NudgeOff, NudgeHalted, NudgeBegin, ReapNothing, DrainNothing, Log, Goto, Pass, cluster
<1>8. CASE ReapCordon \/ StripMarkers \/ Drain
  BY <1>0, <1>8 DEF ReapCordon, StripMarkers, Drain, Cordons, Log, Goto, Pass
<1>9. CASE GcOff \/ GcHalted \/ GcBegin \/ ListCompleted \/ GcDone
  BY <1>0, <1>9 DEF GcOff, GcHalted, GcBegin, ListCompleted, GcDone, Log, Goto, Pass, cluster
<1>10. ASSUME NEW p \in PodNames, DeletePod(p) \/ DeleteFails(p) PROVE StagesTurnedAway'
  BY <1>0, <1>10 DEF DeletePod, DeleteFails, Pass, cluster
<1>11. CASE Outside \/ UNCHANGED vars
  BY <1>11, OutsideEffect DEF vars, cluster
<1> QED BY <1>1, <1>3, <1>4, <1>5, <1>6, <1>7, <1>8, <1>9, <1>10, <1>11
        DEF Next, PassStep, Store, Trim, Nudge, Cleanup

\* A step that changes something has passed its stage's look at the switch.
LEMMA QuietChangesNothing ==
  ASSUME PipelineTypeOK, StagesTurnedAway, quiet, PassStep \/ Crash
  PROVE  changed' = changed
<1> USE DEF StagesTurnedAway, cluster
<1>1. CASE Collect \/ Store \/ WriteAudit \/ ReturnsError \/ Crash
  BY <1>1 DEF Collect, Store, ReadExisting, PutReport, PutReportFails, WriteAudit, ReturnsError, Crash
<1>2. CASE Trim
  BY <1>2 DEF Trim, Plan, ApplyHalted, ApplyNoClient, ApplyBegin, PatchWorkload, PatchSkipped,
              PatchUnanswered, Turn, Trimmed, Refused
<1>3. CASE Nudge
  BY <1>3 DEF Nudge, NudgeOff, NudgeHalted, NudgeBegin, ReapNothing, ReapCordon, StripMarkers,
              DrainNothing, Drain, DrainUnanswered, Cordons
<1>4. CASE Cleanup
  BY <1>4 DEF Cleanup, GcOff, GcHalted, GcBegin, ListCompleted, GcDone, DeletePod, DeleteFails
<1> QED BY <1>1, <1>2, <1>3, <1>4 DEF PassStep

LEMMA InertStep ==
  ASSUME PipelineTypeOK, AttemptsInOrder, StagesTurnedAway, HaltedAttemptInert, [Next]_vars
  PROVE  HaltedAttemptInert'
<1> USE DEF HaltedAttemptInert
<1>0. pass.attempt \in Nat /\ \A c \in changed : c.attempt \in Nat
  BY PipelineAssumption DEF PipelineAssumption, PipelineTypeOK, Pass, Change
<1>1. CASE StartJob
  BY <1>1 DEF StartJob
<1>2. CASE PassStep \/ Crash
  <2>1. CASE Fails
    <3>1. pass'.pc # "idle" => pass'.attempt = pass.attempt + 1
      BY <2>1 DEF Fails, Fresh, Idle
    <3>2. \A c \in changed' : c.attempt \in Nat /\ c.attempt <= pass.attempt
      BY <1>0, <1>2, PassEffect DEF AttemptsInOrder
    <3> QED BY <1>0, <3>1, <3>2
  <2>2. CASE pass' = Idle
    BY <2>2 DEF Idle
  <2> QED BY <1>2, <2>1, <2>2, PassEffect, QuietChangesNothing
<1>3. CASE Outside \/ UNCHANGED vars
  BY <1>3, OutsideEffect DEF vars
<1> QED BY <1>1, <1>2, <1>3 DEF Next

-----------------------------------------------------------------------------
(* Occurrences.                                                            *)

\* Most steps leave the counts alone and do not plan.
LEMMA CountsUntouched ==
  ASSUME PipelineTypeOK, CountsEarned, UNCHANGED sighted,
         \A f \in Findings : stored'[f] <= stored[f] /\ stored'[f] \in Nat,
         \A f \in Findings : pass'.counts[f] \in {0, pass.counts[f]},
         pass'.pc # "plan" \/ ~Persist \/ (UNCHANGED pass),
         pass'.todo \subseteq pass.todo
  PROVE  CountsEarned'
<1>1. \A f \in Findings : /\ stored[f] \in Nat /\ sighted[f] \in Nat
                          /\ pass.counts[f] \in Nat
  BY CountTypes DEF PipelineTypeOK, Pass, Counts
<1>2. \A f \in Findings : stored'[f] <= sighted'[f] /\ pass'.counts[f] <= sighted'[f]
  BY <1>1 DEF CountsEarned
<1>3. pass'.pc = "plan" /\ Persist =>
        \A f \in pass'.found : sighted'[f] >= Upto(pass'.counts[f] + 1)
  BY DEF CountsEarned
<1>4. \A i \in pass'.todo : sighted'[Order[i]] > MinOccurrences
  BY DEF CountsEarned
<1> QED BY <1>2, <1>3, <1>4 DEF CountsEarned

LEMMA UptoMonotone ==
  ASSUME NEW m \in Nat, NEW n \in Nat, m <= n
  PROVE  Upto(m) <= Upto(n) /\ (m <= Top => m <= Upto(n)) /\ (n <= Top => n <= Upto(n + 1))
BY CountTypes DEF Upto

LEMMA UptoPassesGate ==
  ASSUME NEW n \in Nat, n >= MinOccurrences
  PROVE  Upto(n + 1) \in Nat /\ Upto(n + 1) > MinOccurrences
BY PipelineAssumption DEF PipelineAssumption, Upto, Top

\* The store's own step: it counts no more than the passes that reported.
LEMMA StoreCounts ==
  ASSUME PipelineTypeOK, CountsEarned, NEW base \in Bases, NEW some \in SUBSET pass.found,
         stored' = Counted(base, some),
         sighted' = [f \in Findings |-> IF f \in some THEN Upto(sighted[f] + 1) ELSE sighted[f]]
  PROVE  \A f \in Findings :
           /\ stored'[f] <= sighted'[f] /\ sighted[f] <= sighted'[f]
           /\ f \in some => sighted'[f] >= Upto(pass.counts[f] + 1)
<1>1. /\ stored \in Counts /\ sighted \in Counts /\ pass.counts \in Counts
      /\ \A f \in Findings : stored[f] <= sighted[f] /\ pass.counts[f] <= sighted[f]
  BY DEF PipelineTypeOK, Pass, CountsEarned
<1>2. base \in Counts /\ \A f \in Findings : base[f] <= sighted[f]
  BY <1>1, CountTypes DEF Bases, NoCounts, Counts
<1>3. SUFFICES ASSUME NEW f \in Findings
               PROVE  /\ stored'[f] <= sighted'[f] /\ sighted[f] <= sighted'[f]
                      /\ f \in some => sighted'[f] >= Upto(pass.counts[f] + 1)
  OBVIOUS
<1>4. /\ base[f] \in 0..Top /\ sighted[f] \in 0..Top /\ pass.counts[f] \in 0..Top
      /\ Top \in Nat
  BY <1>1, <1>2, CountTypes DEF Counts
<1>5. /\ Upto(base[f] + 1) <= Upto(sighted[f] + 1)
      /\ Upto(pass.counts[f] + 1) <= Upto(sighted[f] + 1)
      /\ sighted[f] <= Upto(sighted[f] + 1)
  BY <1>1, <1>2, <1>4, UptoMonotone
<1>6. CASE f \in some
  BY <1>4, <1>5, <1>6 DEF Counted
<1>7. CASE f \notin some
  BY <1>1, <1>4, <1>7 DEF Counted
<1> QED BY <1>6, <1>7

LEMMA CountsStep ==
  ASSUME PipelineTypeOK, AttemptsInOrder, CountsEarned, [Next]_vars
  PROVE  CountsEarned'
<1> USE DEF cluster
<1>0. /\ pass \in Pass /\ stored \in Counts /\ sighted \in Counts /\ pass.counts \in Counts
      /\ \A f \in Findings : stored[f] \in Nat /\ NoCounts[f] = 0
  <2>1. pass \in Pass /\ stored \in Counts /\ sighted \in Counts /\ pass.counts \in Counts
    BY DEF PipelineTypeOK, Pass
  <2>2. \A f \in Findings : stored[f] \in Nat
    BY <2>1, CountTypes DEF Counts
  <2>3. \A f \in Findings : NoCounts[f] = 0
    BY DEF NoCounts
  <2> QED BY <2>1, <2>2, <2>3
<1>1. ASSUME UNCHANGED <<stored, sighted>>,
             \/ pass'.counts = NoCounts /\ pass'.todo = {} /\ pass'.pc # "plan"
             \/ /\ pass'.counts = pass.counts /\ pass'.todo \subseteq pass.todo
                /\ pass'.pc # "plan" \/ ~Persist
      PROVE  CountsEarned'
  BY <1>0, <1>1, CountsUntouched
<1>2. CASE StartJob
  BY <1>1, <1>2 DEF StartJob, Fresh
<1>3. ASSUME Fails
      PROVE  pass'.counts = NoCounts /\ pass'.todo = {} /\ pass'.pc # "plan"
  BY <1>3 DEF Fails, Fresh, Idle
<1>4. CASE Crash \/ ReturnsError \/ DrainUnanswered
  BY <1>1, <1>3, <1>4 DEF Crash, ReturnsError, DrainUnanswered, Cordons
<1>5. CASE Collect
  <2>1. pass'.counts = pass.counts /\ pass'.todo = pass.todo /\ (pass'.pc # "plan" \/ ~Persist)
    BY <1>0, <1>5 DEF Collect, Goto, Pass
  <2> QED BY <1>1, <1>5, <2>1 DEF Collect
<1>6. CASE ReadExisting
  <2>1. /\ pass'.counts \in {stored, pass.counts} /\ pass'.todo = pass.todo
        /\ pass'.pc # "plan" /\ UNCHANGED <<stored, sighted>>
    BY <1>0, <1>6 DEF ReadExisting, Goto, Pass
  <2> QED BY <2>1 DEF CountsEarned
<1>7. CASE PutReport
  <2>1. PICK base \in Bases : stored' = Counted(base, pass.found)
    BY <1>7 DEF PutReport
  <2>2. pass'.counts = pass.counts /\ pass'.todo = pass.todo /\ pass'.found = pass.found
    BY <1>0, <1>7 DEF PutReport, Goto, Pass
  <2>3. \A f \in Findings :
          /\ stored'[f] <= sighted'[f] /\ sighted[f] <= sighted'[f]
          /\ f \in pass.found => sighted'[f] >= Upto(pass.counts[f] + 1)
    BY <1>7, <2>1, StoreCounts DEF PutReport
  <2>4. /\ sighted' \in Counts /\ pass.found \subseteq Findings
        /\ \A i \in pass.todo : Order[i] \in Findings
    BY <1>7, TypeStep, PipelineAssumption, SMTT(40) DEF PipelineAssumption, PipelineTypeOK, Pass
  <2>5. \A f \in Findings : /\ sighted[f] \in Nat /\ sighted'[f] \in Nat
                            /\ pass.counts[f] \in Nat
    BY <1>0, <2>4, CountTypes DEF Counts
  <2> QED BY <2>2, <2>3, <2>4, <2>5, PipelineAssumption DEF PipelineAssumption, CountsEarned
<1>8. CASE PutReportFails
  <2>1. PICK base \in Bases, some \in SUBSET pass.found :
          /\ stored' = Counted(base, some)
          /\ sighted' = [f \in Findings |-> IF f \in some THEN Upto(sighted[f] + 1) ELSE sighted[f]]
    BY <1>8 DEF PutReportFails
  <2>2. \A f \in Findings : stored'[f] <= sighted'[f]
    BY <2>1, StoreCounts
  <2>3. \A f \in Findings : sighted'[f] \in Nat
    BY <1>8, TypeStep, CountTypes DEF PipelineTypeOK, Counts
  <2>4. pass'.counts = NoCounts /\ pass'.todo = {} /\ pass'.pc # "plan"
    BY <1>3, <1>8 DEF PutReportFails
  <2> QED BY <1>0, <2>2, <2>3, <2>4 DEF CountsEarned
<1>9. CASE Plan
  <2>1. /\ UNCHANGED <<stored, sighted>> /\ pass'.counts = pass.counts /\ pass'.pc # "plan"
        /\ pass'.todo \subseteq {i \in 1..Len(Order) : Eligible(Order[i])}
    BY <1>0, <1>9 DEF Plan, FirstOf, Goto, Pass
  <2>2. ASSUME NEW i \in pass'.todo PROVE sighted[Order[i]] > MinOccurrences
    <3> DEFINE f == Order[i]
    <3>1. f \in pass.found /\ f \in Findings /\ Persist /\ pass.counts[f] >= MinOccurrences
      BY <1>0, <2>1, PipelineAssumption DEF PipelineAssumption, Eligible, Pass
    <3>2. sighted[f] >= Upto(pass.counts[f] + 1)
      BY <1>9, <3>1 DEF Plan, CountsEarned
    <3>3. pass.counts[f] \in Nat /\ sighted[f] \in Nat
      BY <1>0, <3>1, CountTypes DEF Counts
    <3> QED BY <3>1, <3>2, <3>3, UptoPassesGate, PipelineAssumption DEF PipelineAssumption
  <2> QED BY <2>1, <2>2 DEF CountsEarned
<1>10. CASE ApplyHalted \/ ApplyNoClient \/ ApplyBegin
  <2>1. /\ UNCHANGED <<stored, sighted>> /\ pass'.counts = pass.counts
        /\ pass'.todo \subseteq pass.todo /\ pass'.pc # "plan"
    BY <1>0, <1>10 DEF ApplyHalted, ApplyNoClient, ApplyBegin, Goto, Pass
  <2> QED BY <1>1, <2>1
<1>11. ASSUME NEW i \in 1..Len(Order), PatchWorkload(i) \/ PatchSkipped(i) \/ PatchUnanswered(i)
       PROVE  CountsEarned'
  <2>1. ASSUME NEW applied, Applied(i, applied)
        PROVE  pass'.counts = pass.counts /\ pass'.todo \subseteq pass.todo /\ pass'.pc # "plan"
    BY <1>0, <2>1 DEF Applied, Log, Goto, Pass
  <2> QED BY <1>1, <1>11, <2>1 DEF PatchWorkload, PatchSkipped, PatchUnanswered
<1>12. CASE \/ NudgeOff \/ NudgeHalted \/ NudgeBegin \/ ReapNothing \/ ReapCordon
            \/ StripMarkers \/ DrainNothing \/ Drain
  <2>1. UNCHANGED <<stored, sighted>>
    BY <1>12 DEF NudgeOff, NudgeHalted, NudgeBegin, ReapNothing, ReapCordon, StripMarkers,
                 DrainNothing, Drain, Cordons
  <2>2. CASE NudgeOff \/ NudgeHalted \/ NudgeBegin \/ ReapNothing \/ DrainNothing
    <3>1. pass'.counts = pass.counts /\ pass'.todo = pass.todo /\ pass'.pc # "plan"
      BY <1>0, <2>2 DEF NudgeOff, NudgeHalted, NudgeBegin, ReapNothing, DrainNothing, Log, Goto, Pass
    <3> QED BY <1>1, <2>1, <3>1
  <2>3. CASE ReapCordon \/ StripMarkers \/ Drain
    <3>1. pass'.counts = pass.counts /\ pass'.todo = pass.todo /\ pass'.pc # "plan"
      BY <1>0, <2>3 DEF ReapCordon, StripMarkers, Drain, Log, Goto, Pass
    <3> QED BY <1>1, <2>1, <3>1
  <2> QED BY <1>12, <2>2, <2>3
<1>13. CASE GcOff \/ GcHalted \/ GcBegin \/ ListCompleted \/ GcDone
  <2>1. /\ UNCHANGED <<stored, sighted>> /\ pass'.counts = pass.counts
        /\ pass'.todo = pass.todo /\ pass'.pc # "plan"
    BY <1>0, <1>13 DEF GcOff, GcHalted, GcBegin, ListCompleted, GcDone, Log, Goto, Pass
  <2> QED BY <1>1, <2>1
<1>14. ASSUME NEW p \in PodNames, DeletePod(p) \/ DeleteFails(p) PROVE CountsEarned'
  <2>1. /\ UNCHANGED <<stored, sighted>> /\ pass'.counts = pass.counts
        /\ pass'.todo = pass.todo /\ pass'.pc # "plan"
    BY <1>0, <1>14 DEF DeletePod, DeleteFails, Pass
  <2> QED BY <1>1, <2>1
<1>15. CASE WriteAudit
  BY <1>1, <1>15 DEF WriteAudit, Idle, Fresh
<1>16. CASE Outside
  <2>1. UNCHANGED <<pass, sighted>>
    BY <1>16, OutsideEffect
  <2>2. \A f \in Findings : stored'[f] \in {0, stored[f]}
    BY <1>0, <1>16 DEF Outside, SetHalt, OptIn, CordonMoves, Usage, Expire, PodLives, Counts
  <2> QED BY <1>0, <2>1, <2>2, CountsUntouched
<1>17. CASE UNCHANGED vars
  BY <1>17 DEF vars, CountsEarned, Upto, Top
<1> QED BY <1>2, <1>4, <1>5, <1>6, <1>7, <1>8, <1>9, <1>10, <1>11, <1>12, <1>13, <1>14, <1>15,
           <1>16, <1>17
        DEF Next, PassStep, Store, Trim, Nudge, Cleanup

-----------------------------------------------------------------------------
(* Completed pods.                                                         *)

\* Outside a cleanup there are no victims.
LEMMA NoVictims ==
  ASSUME pass'.victims = {}
  PROVE  VictimsCompleted'
BY DEF VictimsCompleted

LEMMA VictimsStep ==
  ASSUME PipelineTypeOK, VictimsCompleted, [Next]_vars
  PROVE  VictimsCompleted'
<1> USE DEF cluster
<1>0. pass \in Pass /\ (pass.pc # "delete" => pass.victims = {})
  BY DEF PipelineTypeOK, VictimsCompleted
<1>1. CASE StartJob \/ WriteAudit
  BY <1>1, NoVictims DEF StartJob, WriteAudit, Idle, Fresh
<1>2. CASE Crash \/ ReturnsError \/ PutReportFails \/ DrainUnanswered
  <2>1. Fails
    BY <1>2 DEF Crash, ReturnsError, PutReportFails, DrainUnanswered
  <2> QED BY <2>1, NoVictims DEF Fails, Idle, Fresh
<1>3. CASE Collect \/ ReadExisting \/ PutReport
  BY <1>0, <1>3, NoVictims DEF Collect, ReadExisting, PutReport, Goto, Pass
<1>4. CASE Plan \/ ApplyHalted \/ ApplyNoClient \/ ApplyBegin
  BY <1>0, <1>4, NoVictims DEF Plan, ApplyHalted, ApplyNoClient, ApplyBegin, Goto, Pass
<1>5. ASSUME NEW i \in 1..Len(Order), PatchWorkload(i) \/ PatchSkipped(i) \/ PatchUnanswered(i)
      PROVE  VictimsCompleted'
  <2>1. ASSUME NEW applied, Applied(i, applied) PROVE pass'.victims = pass.victims
    BY <1>0, <2>1 DEF Applied, Log, Goto, Pass
  <2> QED BY <1>0, <1>5, <2>1, NoVictims DEF PatchWorkload, PatchSkipped, PatchUnanswered, Turn
<1>6. CASE \/ NudgeOff \/ NudgeHalted \/ NudgeBegin \/ ReapNothing \/ ReapCordon
           \/ StripMarkers \/ DrainNothing \/ Drain
  BY <1>0, <1>6, NoVictims
  DEF NudgeOff, NudgeHalted, NudgeBegin, ReapNothing, ReapCordon, StripMarkers, DrainNothing,
      Drain, Cordons, Log, Goto, Pass
<1>7. CASE GcOff \/ GcHalted \/ GcBegin
  BY <1>0, <1>7, NoVictims DEF GcOff, GcHalted, GcBegin, Log, Goto, Pass
<1>8. CASE GcDone
  <2>1. pass'.victims = {}
    BY <1>0, <1>8 DEF GcDone, Log, Goto, Pass
  <2> QED BY <2>1, NoVictims
<1>9. CASE ListCompleted
  <2> DEFINE done == {p \in PodNames : pods[p] = "completed"}
  <2>1. CASE pass'.victims = {}
    BY <2>1, NoVictims
  <2>2. CASE \E some \in SUBSET done : Goto([pass EXCEPT !.victims = some], "delete")
    <3>1. pass'.pc = "delete" /\ pass'.victims \subseteq done
      BY <1>0, <2>2 DEF Goto, Pass
    <3>2. \A p \in done : pods'[p] = "completed"
      BY <1>9 DEF ListCompleted
    <3> QED BY <3>1, <3>2 DEF VictimsCompleted
  <2> QED BY <1>0, <1>9, <2>1, <2>2 DEF ListCompleted, Log, Goto, Pass
<1>10. ASSUME NEW p \in PodNames, DeletePod(p) \/ DeleteFails(p) PROVE VictimsCompleted'
  <2>1. pass'.pc = "delete" /\ pass'.victims \subseteq pass.victims
    BY <1>0, <1>10 DEF DeletePod, DeleteFails, Pass
  <2>2. \A q \in PodNames : pods'[q] = "running" => pods[q] = "running"
    BY <1>10 DEF DeletePod, DeleteFails, PipelineTypeOK
  <2>3. pass.victims \subseteq PodNames
    BY <1>0 DEF Pass
  <2> QED BY <2>1, <2>2, <2>3 DEF VictimsCompleted
<1>11. ASSUME NEW p \in PodNames, PodLives(p) PROVE VictimsCompleted'
  <2>1. pass' = pass /\ pass.victims \subseteq PodNames
    BY <1>0, <1>11 DEF PodLives, Pass
  <2>2. \A q \in pass.victims : pods[q] # "running" => pods'[q] # "running"
    BY <1>11, <2>1 DEF PodLives, PipelineTypeOK
  <2> QED BY <2>1, <2>2 DEF VictimsCompleted
<1>12. CASE (Outside /\ UNCHANGED pods) \/ UNCHANGED vars
  BY <1>12, OutsideEffect DEF vars, VictimsCompleted
<1>13. CASE Outside
  BY <1>11, <1>12, <1>13 DEF Outside, SetHalt, OptIn, CordonMoves, Usage, Expire
<1> QED BY <1>1, <1>2, <1>3, <1>4, <1>5, <1>6, <1>7, <1>8, <1>9, <1>10, <1>12, <1>13
        DEF Next, PassStep, Store, Trim, Nudge, Cleanup

-----------------------------------------------------------------------------
(* Events.                                                                 *)

\* What a step of an attempt that goes on does to the events: they are kept, every
\* change but a strip or a deletion gets one, a cleanup gets one at its end, and those
\* that say "applied" are about a change.
EventsKept ==
  /\ pass.events \subseteq pass'.events
  /\ \A c \in changed' \ changed :
       \/ c.kind = "strip"
       \/ \E row \in pass'.events : About(row, c)
       \/ c.kind = "gc" /\ pass'.pc = "delete"
  /\ pass.pc = "delete" =>
       \/ pass'.pc = "delete"
       \/ \E row \in pass'.events : row.attempt = pass.attempt /\ row.kind = "gc"
  /\ \A row \in pass'.events \ pass.events : row.applied => \E c \in changed' : About(row, c)
  /\ pass'.deleted => \/ pass.deleted
                      \/ \E c \in changed' : c.attempt = pass.attempt /\ c.kind = "gc"

\* One change with its event.
LEMMA OneLogged ==
  ASSUME NEW kind, NEW what, NEW applied \in BOOLEAN, Changes(kind, what),
         pass'.events = pass.events \cup {RowOf(kind, what, applied)},
         pass'.deleted = pass.deleted, pass.pc # "delete"
  PROVE  EventsKept
<1> DEFINE c == [attempt |-> pass.attempt, kind |-> kind, what |-> what]
<1>1. changed' = changed \cup {c} /\ About(RowOf(kind, what, applied), c)
  BY DEF Changes, About, RowOf
<1> QED BY <1>1 DEF EventsKept

\* No change, and no event but one that says "not applied".
LEMMA NothingApplied ==
  ASSUME changed' = changed, pass.events \subseteq pass'.events,
         \A row \in pass'.events \ pass.events : ~row.applied,
         pass'.deleted = pass.deleted, pass.pc # "delete" \/ pass'.pc = "delete"
  PROVE  EventsKept
BY DEF EventsKept

LEMMA EventEffect ==
  ASSUME PipelineTypeOK, DeletionsReal, PassStep, ~Fails, pass' # Idle
  PROVE  EventsKept
<1> USE DEF cluster
<1>0. pass \in Pass
  BY DEF PipelineTypeOK
<1>r. \A kind, what : ~RowOf(kind, what, FALSE).applied
  BY DEF RowOf
<1>1. CASE Collect \/ ReadExisting \/ PutReport
  <2>1. changed' = changed /\ pass'.events = pass.events /\ pass'.deleted = pass.deleted
        /\ pass.pc # "delete"
    BY <1>0, <1>1 DEF Collect, ReadExisting, PutReport, Goto, Pass
  <2> QED BY <2>1, NothingApplied
<1>2. CASE Plan \/ ApplyNoClient \/ ApplyBegin
  <2>1. changed' = changed /\ pass'.events = pass.events /\ pass'.deleted = pass.deleted
        /\ pass.pc # "delete"
    BY <1>0, <1>2 DEF Plan, ApplyNoClient, ApplyBegin, Goto, Pass
  <2> QED BY <2>1, NothingApplied
<1>3. CASE ApplyHalted
  <2>1. /\ changed' = changed /\ pass'.deleted = pass.deleted /\ pass.pc # "delete"
        /\ pass'.events = pass.events \cup {RowOf("patch", f, FALSE) : f \in Planned}
    BY <1>0, <1>3 DEF ApplyHalted, Goto, Pass
  <2>2. \A row \in pass'.events \ pass.events : ~row.applied
    BY <1>r, <2>1
  <2> QED BY <2>1, <2>2, NothingApplied
<1>4. ASSUME NEW i \in 1..Len(Order), PatchWorkload(i) \/ PatchSkipped(i) \/ PatchUnanswered(i)
      PROVE  EventsKept
  <2>1. ASSUME NEW applied, Applied(i, applied)
        PROVE  /\ pass'.events = pass.events \cup {RowOf("patch", Order[i], applied)}
               /\ pass'.deleted = pass.deleted
    BY <1>0, <2>1 DEF Applied, Log, Goto, Pass
  <2>2. pass.pc # "delete"
    BY <1>4 DEF PatchWorkload, PatchSkipped, PatchUnanswered, Turn
  <2>3. CASE PatchSkipped(i)
    <3>1. changed' = changed /\ Applied(i, FALSE)
      BY <2>3 DEF PatchSkipped
    <3>2. pass'.events = pass.events \cup {RowOf("patch", Order[i], FALSE)}
      BY <2>1, <3>1
    <3>3. \A row \in pass'.events \ pass.events : ~row.applied
      BY <1>r, <3>2
    <3> QED BY <2>1, <2>2, <3>1, <3>2, <3>3, NothingApplied
  <2>4. CASE PatchWorkload(i)
    BY <2>1, <2>2, <2>4, OneLogged DEF PatchWorkload, Trimmed
  <2>5. CASE PatchUnanswered(i)
    BY <2>1, <2>2, <2>5, OneLogged DEF PatchUnanswered, Trimmed
  <2> QED BY <1>4, <2>3, <2>4, <2>5
<1>5. CASE NudgeOff \/ NudgeHalted \/ NudgeBegin \/ ReapNothing \/ DrainNothing
  <2>1. /\ changed' = changed /\ pass'.deleted = pass.deleted /\ pass.pc # "delete"
        /\ \/ pass'.events = pass.events
           \/ pass'.events = pass.events \cup {RowOf("uncordon", "node", FALSE)}
           \/ pass'.events = pass.events \cup {RowOf("drain", "node", FALSE)}
    BY <1>0, <1>5
    DEF NudgeOff, NudgeHalted, NudgeBegin, ReapNothing, DrainNothing, Log, Goto, Pass
  <2>2. \A row \in pass'.events \ pass.events : ~row.applied
    BY <1>r, <2>1
  <2> QED BY <2>1, <2>2, NothingApplied
<1>6. CASE ReapCordon
  <2>1. PICK applied \in BOOLEAN : Goto(Log("uncordon", "node", applied), "drain")
    BY <1>6 DEF ReapCordon
  <2>2. /\ pass'.events = pass.events \cup {RowOf("uncordon", "node", applied)}
        /\ pass'.deleted = pass.deleted
    BY <1>0, <2>1 DEF Log, Goto, Pass
  <2> QED BY <1>6, <2>2, OneLogged DEF ReapCordon
<1>14. CASE StripMarkers
  <2> DEFINE c == [attempt |-> pass.attempt, kind |-> "strip", what |-> "node"]
  <2>1. /\ pass'.deleted = pass.deleted /\ pass.pc # "delete"
        /\ \/ pass'.events = pass.events
           \/ pass'.events = pass.events \cup {RowOf("uncordon", "node", FALSE)}
    BY <1>0, <1>14 DEF StripMarkers, Log, Goto, Pass
  <2>2. \A row \in pass'.events \ pass.events : ~row.applied
    BY <1>r, <2>1
  <2>3. changed' = changed \cup {c} /\ c.kind = "strip"
    BY <1>14 DEF StripMarkers, Changes
  <2> HIDE DEF c
  <2> QED BY <2>1, <2>2, <2>3 DEF EventsKept
<1>7. CASE Drain
  <2>1. PICK applied \in BOOLEAN : Goto(Log("drain", "node", applied), "gc")
    BY <1>7 DEF Drain
  <2>2. /\ pass'.events = pass.events \cup {RowOf("drain", "node", applied)}
        /\ pass'.deleted = pass.deleted
    BY <1>0, <2>1 DEF Log, Goto, Pass
  <2> QED BY <1>7, <2>2, OneLogged DEF Drain, Cordons
<1>8. CASE GcOff \/ GcHalted \/ GcBegin
  <2>1. /\ changed' = changed /\ pass'.deleted = pass.deleted /\ pass.pc # "delete"
        /\ \/ pass'.events = pass.events
           \/ pass'.events = pass.events \cup {RowOf("gc", "pods", FALSE)}
    BY <1>0, <1>8 DEF GcOff, GcHalted, GcBegin, Log, Goto, Pass
  <2>2. \A row \in pass'.events \ pass.events : ~row.applied
    BY <1>r, <2>1
  <2> QED BY <2>1, <2>2, NothingApplied
<1>9. CASE ListCompleted
  <2>1. /\ changed' = changed /\ pass'.deleted = pass.deleted /\ pass.pc # "delete"
        /\ \/ pass'.events = pass.events
           \/ pass'.events = pass.events \cup {RowOf("gc", "pods", FALSE)}
    BY <1>0, <1>9 DEF ListCompleted, Log, Goto, Pass
  <2>2. \A row \in pass'.events \ pass.events : ~row.applied
    BY <1>r, <2>1
  <2> QED BY <2>1, <2>2, NothingApplied
<1>10. ASSUME NEW p \in PodNames, DeletePod(p) PROVE EventsKept
  <2>1. pass'.events = pass.events /\ pass'.pc = "delete"
    BY <1>0, <1>10 DEF DeletePod, Pass
  <2>2. CASE changed' = changed /\ pass'.deleted = pass.deleted
    BY <2>1, <2>2, NothingApplied
  <2>3. CASE Changes("gc", p)
    <3> DEFINE c == [attempt |-> pass.attempt, kind |-> "gc", what |-> p]
    <3>1. changed' = changed \cup {c} /\ c.kind = "gc" /\ c.attempt = pass.attempt
      BY <2>3 DEF Changes
    <3> QED BY <2>1, <3>1 DEF EventsKept
  <2>4. ~Changes("gc", p) => changed' = changed /\ pass'.deleted = pass.deleted
    BY <1>0, <1>10 DEF DeletePod, Pass
  <2> QED BY <2>2, <2>3, <2>4
<1>11. ASSUME NEW p \in PodNames, DeleteFails(p) PROVE EventsKept
  <2>1. /\ changed' = changed /\ pass'.events = pass.events /\ pass'.deleted = pass.deleted
        /\ pass'.pc = "delete"
    BY <1>0, <1>11 DEF DeleteFails, Pass
  <2> QED BY <2>1, NothingApplied
<1>12. CASE GcDone
  <2> DEFINE row == RowOf("gc", "pods", pass.deleted /\ ~pass.errors)
  <2>1. /\ changed' = changed /\ pass'.deleted = pass.deleted
        /\ pass'.events = pass.events \cup {row}
    BY <1>0, <1>12 DEF GcDone, Log, Goto, Pass
  <2>2. row.attempt = pass.attempt /\ row.kind = "gc" /\ (row.applied => pass.deleted)
    BY DEF RowOf
  <2>3. pass.deleted => \E c \in changed : About(row, c)
    BY <2>2 DEF DeletionsReal, About
  <2> HIDE DEF row
  <2> QED BY <2>1, <2>2, <2>3 DEF EventsKept
<1>13. ~PutReportFails /\ ~ReturnsError /\ ~DrainUnanswered /\ ~WriteAudit
  BY DEF PutReportFails, ReturnsError, DrainUnanswered, WriteAudit
<1> QED BY <1>1, <1>2, <1>3, <1>4, <1>5, <1>6, <1>7, <1>8, <1>9, <1>10, <1>11, <1>12, <1>13,
           <1>14
        DEF PassStep, Store, Trim, Nudge, Cleanup

\* An attempt that ends leaves nothing behind but the rows it has written.
LEMMA Ended ==
  ASSUME Fails \/ pass' = Idle
  PROVE  pass'.events = {} /\ ~pass'.deleted
BY DEF Fails, Idle, Fresh

LEMMA LoggedStep ==
  ASSUME PipelineTypeOK, AttemptsInOrder, DeletionsReal, ChangesLogged, [Next]_vars
  PROVE  ChangesLogged'
<1>1. CASE StartJob
  BY <1>1 DEF StartJob, ChangesLogged
<1>2. CASE PassStep \/ Crash
  <2>1. CASE Fails
    <3>1. pass'.pc # "idle" => pass'.attempt = pass.attempt + 1
      BY <2>1 DEF Fails, Fresh, Idle
    <3>2. \A c \in changed' : c.attempt \in Nat /\ c.attempt <= pass.attempt
      BY <1>2, PassEffect, PipelineAssumption
      DEF PipelineAssumption, PipelineTypeOK, AttemptsInOrder, Pass, Change
    <3>3. pass.attempt \in Nat
      BY PipelineAssumption DEF PipelineAssumption, PipelineTypeOK, Pass
    <3> QED BY <3>1, <3>2, <3>3 DEF ChangesLogged
  <2>2. CASE pass' = Idle
    BY <2>2 DEF Idle, ChangesLogged
  <2>3. CASE ~Fails /\ pass' # Idle
    <3>1. EventsKept
      BY <1>2, <2>3, EventEffect DEF Crash
    <3>2. pass.pc # "idle" /\ pass'.attempt = pass.attempt
      BY <1>2, <2>3, PassEffect
    <3>3. SUFFICES ASSUME NEW c \in changed', c.attempt = pass.attempt, c.kind # "strip"
                   PROVE  \/ \E row \in pass'.events : About(row, c)
                          \/ c.kind = "gc" /\ pass'.pc = "delete"
      BY <3>2 DEF ChangesLogged
    <3>4. CASE c \notin changed
      BY <3>1, <3>3, <3>4 DEF EventsKept
    <3>5. CASE \E row \in pass.events : About(row, c)
      BY <3>1, <3>5 DEF EventsKept
    <3>6. CASE c.kind = "gc" /\ pass.pc = "delete"
      BY <3>1, <3>3, <3>6 DEF EventsKept, About
    <3> QED BY <3>2, <3>3, <3>4, <3>5, <3>6 DEF ChangesLogged
  <2> QED BY <2>1, <2>2, <2>3
<1>3. CASE Outside \/ UNCHANGED vars
  BY <1>3, OutsideEffect DEF vars, ChangesLogged, About
<1> QED BY <1>1, <1>2, <1>3 DEF Next

LEMMA DeletionsStep ==
  ASSUME PipelineTypeOK, DeletionsReal, [Next]_vars
  PROVE  DeletionsReal'
<1>1. CASE StartJob
  BY <1>1 DEF StartJob, Fresh, DeletionsReal
<1>2. CASE PassStep \/ Crash
  <2>1. CASE Fails \/ pass' = Idle
    BY <2>1, Ended DEF DeletionsReal
  <2>2. CASE ~Fails /\ pass' # Idle
    <3>1. EventsKept /\ pass'.attempt = pass.attempt /\ changed \subseteq changed'
      BY <1>2, <2>2, EventEffect, PassEffect DEF Crash
    <3> QED BY <3>1 DEF EventsKept, DeletionsReal
  <2> QED BY <2>1, <2>2
<1>3. CASE Outside \/ UNCHANGED vars
  BY <1>3, OutsideEffect DEF vars, DeletionsReal
<1> QED BY <1>1, <1>2, <1>3 DEF Next

\* Rows come from events only.
LEMMA RowsFromEvents ==
  ASSUME PassStep \/ Crash
  PROVE  rows' \subseteq rows \cup pass.events
BY DEF PassStep, Collect, Store, ReadExisting, PutReport, PutReportFails, Trim, Plan, ApplyHalted,
       ApplyNoClient, ApplyBegin, PatchWorkload, PatchSkipped, PatchUnanswered, Nudge, NudgeOff,
       NudgeHalted, NudgeBegin, ReapNothing, ReapCordon, StripMarkers, DrainNothing, Drain,
       DrainUnanswered, Cordons, Cleanup, GcOff, GcHalted, GcBegin, ListCompleted, GcDone, DeletePod, DeleteFails,
       WriteAudit, ReturnsError, Crash

LEMMA RowsStep ==
  ASSUME PipelineTypeOK, DeletionsReal, AppliedRowsTrue, [Next]_vars
  PROVE  AppliedRowsTrue'
<1>1. CASE StartJob
  BY <1>1 DEF StartJob, Fresh, AppliedRowsTrue
<1>2. CASE PassStep \/ Crash
  <2>1. /\ \A row \in rows \cup pass.events : row.applied => \E c \in changed' : About(row, c)
        /\ rows' \subseteq rows \cup pass.events
    BY <1>2, PassEffect, RowsFromEvents DEF AppliedRowsTrue
  <2>2. CASE Fails \/ pass' = Idle
    BY <2>1, <2>2, Ended DEF AppliedRowsTrue, About
  <2>3. CASE ~Fails /\ pass' # Idle
    <3>1. \A row \in pass'.events \ pass.events : row.applied => \E c \in changed' : About(row, c)
      BY <1>2, <2>3, EventEffect DEF Crash, EventsKept
    <3> QED BY <2>1, <3>1 DEF AppliedRowsTrue, About
  <2> QED BY <2>2, <2>3
<1>3. CASE Outside \/ UNCHANGED vars
  BY <1>3, OutsideEffect DEF vars, AppliedRowsTrue, About
<1> QED BY <1>1, <1>2, <1>3 DEF Next

-----------------------------------------------------------------------------
(* Theorems.                                                               *)

LEMMA InvStep == PipelineInv /\ [Next]_vars => PipelineInv'
<1> SUFFICES ASSUME PipelineInv, [Next]_vars PROVE PipelineInv'
  OBVIOUS
<1> QED BY TypeStep, AttemptsStep, CountsStep, SwitchStep, VictimsStep, DeletionsStep, LoggedStep,
           RowsStep, InertStep
        DEF PipelineInv

\* The invariant of a tick.
THEOREM PipelineInvariance == Spec => []PipelineInv
BY InitInv, InvStep, PTL DEF Spec

\* Every variable of the tick keeps its type, whatever fails or dies.
THEOREM PipelineTyped == Spec => []PipelineTypeOK
<1>1. PipelineInv => PipelineTypeOK
  BY DEF PipelineInv
<1> QED BY <1>1, PipelineInvariance, PTL

\* An audit row that says "applied" is about a change that was made.
THEOREM RowsTellTheTruth == Spec => []AppliedRowsTrue
<1>1. PipelineInv => AppliedRowsTrue
  BY DEF PipelineInv
<1> QED BY <1>1, PipelineInvariance, PTL

\* A pass that gets to its end has an event about each of its changes, but for
\* the markers it stripped off nodes that were uncordoned by hand.
THEOREM ChangesAccountedFor == Spec => []PassAccountsForChanges
<1>1. PipelineInv => PassAccountsForChanges
  BY DEF PipelineInv, ChangesLogged, PassAccountsForChanges
<1> QED BY <1>1, PipelineInvariance, PTL

\* An attempt all of which the halt switch has been set changes nothing.
THEOREM HaltedAttemptsInert == Spec => []HaltedAttemptInert
<1>1. PipelineInv => HaltedAttemptInert
  BY DEF PipelineInv
<1> QED BY <1>1, PipelineInvariance, PTL

LEMMA TrimStep ==
  ASSUME PipelineInv, [Next]_vars, NEW f \in Findings,
         pass.pc = "patch", slack'[f] < slack[f], pass' # pass
  PROVE  sighted[f] > MinOccurrences
<1> USE DEF cluster
<1>1. /\ slack \in [Findings -> 0..MaxSlack] /\ slack[f] \in Int
      /\ \A i \in pass.todo : sighted[Order[i]] > MinOccurrences
  BY PipelineAssumption DEF PipelineAssumption, PipelineInv, PipelineTypeOK, CountsEarned
<1>2. slack' # slack
  BY <1>1
<1>3. ~Outside /\ ~UNCHANGED vars
  BY OutsideEffect DEF vars, PipelineInv
<1>4. PICK i \in 1..Len(Order) : PatchWorkload(i) \/ PatchUnanswered(i)
  BY <1>2, <1>3
  DEF Next, StartJob, PassStep, Collect, Store, ReadExisting, PutReport, PutReportFails, Trim, Plan,
      ApplyHalted, ApplyNoClient, ApplyBegin, PatchSkipped, Nudge, NudgeOff,
      NudgeHalted, NudgeBegin, ReapNothing, ReapCordon, StripMarkers, DrainNothing, Drain,
      DrainUnanswered, Cordons, Cleanup, GcOff, GcHalted, GcBegin, ListCompleted, GcDone, DeletePod, DeleteFails,
      WriteAudit, ReturnsError, Crash
<1>5. Turn(i) /\ Trimmed(Order[i]) /\ Order[i] \in Findings
  <2>1. Order[i] \in Findings
    BY PipelineAssumption DEF PipelineAssumption
  <2> QED BY <1>4, <2>1 DEF PatchWorkload, PatchUnanswered
<1>6. f = Order[i]
  BY <1>1, <1>5 DEF Trimmed
<1> QED BY <1>1, <1>5, <1>6 DEF Turn

\* Nothing is trimmed that too few passes have reported.
THEOREM TrimsAreEarned == Spec => TrimmedAfterSightings
<1>1. PipelineInv /\ [Next]_vars =>
        [\A f \in Findings :
           pass.pc = "patch" /\ slack'[f] < slack[f] /\ pass' # pass => sighted[f] > MinOccurrences]_vars
  BY TrimStep
<1> QED BY <1>1, PipelineInvariance, PTL DEF Spec, TrimmedAfterSightings

LEMMA SparedStep ==
  ASSUME PipelineInv, [Next]_vars, NEW p \in PodNames, pods[p] = "running"
  PROVE  pods'[p] # "absent"
<1> USE DEF cluster
<1>0. pods \in [PodNames -> {"absent", "running", "successor", "completed"}]
  BY DEF PipelineInv, PipelineTypeOK
<1>1. CASE pods' = pods
  BY <1>1
<1>2. CASE ListCompleted
  BY <1>2 DEF ListCompleted
<1>3. ASSUME NEW q \in PodNames, DeletePod(q) PROVE pods'[p] # "absent"
  BY <1>0, <1>3 DEF DeletePod, PipelineInv, VictimsCompleted
<1>4. ASSUME NEW q \in PodNames, PodLives(q) PROVE pods'[p] # "absent"
  BY <1>0, <1>4 DEF PodLives
<1> QED BY <1>1, <1>2, <1>3, <1>4
  DEF Next, vars, StartJob, PassStep, Collect, Store, ReadExisting, PutReport, PutReportFails, Trim,
      Plan, ApplyHalted, ApplyNoClient, ApplyBegin, PatchWorkload, PatchSkipped, PatchUnanswered,
      Nudge, NudgeOff, NudgeHalted, NudgeBegin, ReapNothing, ReapCordon, StripMarkers,
      DrainNothing, Drain, DrainUnanswered, Cordons, Cleanup, GcOff, GcHalted, GcBegin, GcDone, DeleteFails,
      WriteAudit, ReturnsError, Crash, Outside, SetHalt, OptIn, CordonMoves, Usage, Expire

\* A pod that runs under a name the cleanup has listed is not mistaken for the
\* one it listed, unless it took the name after the List.
THEOREM RunningPodsKept == Spec => RunningPodsSpared
<1>1. PipelineInv /\ [Next]_vars =>
        [\A p \in PodNames : pods[p] = "running" => pods'[p] # "absent"]_vars
  BY SparedStep
<1> QED BY <1>1, PipelineInvariance, PTL DEF Spec, RunningPodsSpared
=============================================================================
