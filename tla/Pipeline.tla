------------------------------ MODULE Pipeline ------------------------------
(***************************************************************************)
(* One tick of the CronJob (cmd/cluster-optimizer): a pass collects,       *)
(* stores its report, plans and applies request trims, consolidates nodes, *)
(* cleans completed pods, and at its very end writes the audit rows of     *)
(* what it did.  A pass that returns an error or dies is tried once more   *)
(* (backoffLimit), as a new process that remembers nothing.                *)
(*                                                                         *)
(* The consolidation pass is seen from outside here: it may give back a    *)
(* stale cordon or strip the markers that one left behind, drain a node,   *)
(* and fail at any point.  Nudger has its details.                         *)
(*                                                                         *)
(* A definition X_Fault is X with one plausible mistake; no specification  *)
(* uses it.                                                                *)
(***************************************************************************)
EXTENDS Integers, Sequences, FiniteSets

CONSTANTS
  Findings,        \* over-provisioned workloads: one finding each
  Order,           \* Findings in the order of the report (analyzer's sort)
  Confidence,      \* the analyzer's confidence in each, 1 to 3
  MinConfidence,   \* Policy.MinConfidence
  MinOccurrences,  \* Policy.MinOccurrences
  MaxActions,      \* Policy.MaxActions
  Targets,         \* those that a remediation target covers
  Wildcard,        \* those it covers by a wildcard, if the namespace opts in
  Protected,       \* those that are provider-managed
  MaxSlack,        \* trims that a workload can take before it fits its usage
  PodNames,        \* names of pods that run to completion
  MaxDeletions,    \* cap of one cleanup; 0 means none
  Persist,         \* whether DYNAMODB_TABLE is set
  Retries,         \* backoffLimit of the Job
  Configs,         \* the flags a Job may be deployed with
  Envs             \* the sets of outside actors that may act

Flags == [apply : BOOLEAN, nudge : BOOLEAN, nudgeLive : BOOLEAN,
          gc : BOOLEAN, gcLive : BOOLEAN]

ASSUME PipelineAssumption ==
  /\ Order \in Seq(Findings)
  /\ Confidence \in [Findings -> 1..3]
  /\ MinConfidence \in 1..3
  /\ MinOccurrences \in Nat /\ MaxActions \in Nat \ {0}
  /\ Targets \subseteq Findings /\ Wildcard \subseteq Targets
  /\ Protected \subseteq Findings
  /\ MaxSlack \in Nat \ {0} /\ MaxDeletions \in Nat /\ Retries \in Nat
  /\ Persist \in BOOLEAN
  /\ Configs \subseteq Flags
  /\ \A actors \in Envs :
       actors \subseteq {"halt", "labels", "usage", "expiry", "cordon", "pods", "crash"}

VARIABLES
  env,        \* who acts from outside: one of Envs, for good
  slack,      \* how many trims each workload can still take; 0: no finding
  optedIn,    \* the namespace of the wildcard workloads carries the label
  halted,     \* the halt ConfigMap reads "true"
  cordon,     \* the tool's cordon: "none", "standing", "stale"; "leftover": its
              \* markers on a node that somebody uncordoned; or the pool is
              \* "benched" after one was reversed or stripped
  pods,       \* what each pod name stands for; "successor": a running pod that
              \* took the name of one that the cleanup has listed (history)
  stored,     \* occurrences in the recommendation rows, up to Top
  rows,       \* audit rows of this tick
  pass,       \* local state of the process
  changed,    \* history: what this tick changed in the cluster
  sighted,    \* history: passes that reported each finding, up to the same top
  quiet       \* history: the switch has been set for the whole attempt

cluster == <<env, slack, optedIn, halted, cordon, pods>>
vars == <<cluster, stored, rows, pass, changed, sighted, quiet>>

Stage == {"idle", "collect", "store", "report", "plan", "apply", "patch",
          "nudge", "reap", "drain", "gc", "list", "delete", "persist"}

Kind == {"patch", "uncordon", "drain", "gc"}
Change == [attempt : 1..(Retries + 1), kind : Kind \cup {"strip"},
           what : Findings \cup PodNames \cup {"node"}]
Row == [attempt : 1..(Retries + 1), kind : Kind,
        what : Findings \cup {"node", "pods"}, applied : BOOLEAN]

\* One more than the planner asks for: it counts the pass that is running too.
Top == MinOccurrences + 1
Upto(n) == IF n > Top THEN Top ELSE n

Counts == [Findings -> 0..Top]
NoCounts == [f \in Findings |-> 0]

Pass ==
  [pc      : Stage,
   attempt : 0..(Retries + 1),
   flags   : Flags,
   found   : SUBSET Findings,    \* the report's trim findings
   labels  : BOOLEAN,            \* the namespace's label, as collected
   counts  : Counts,             \* occurrences read before the report is stored
   read    : BOOLEAN,            \* whether they could be read
   todo    : SUBSET (1..Len(Order)),   \* places in Order of actions not yet applied
   victims : SUBSET PodNames,    \* completed pods not yet deleted
   errors  : BOOLEAN,            \* some deletion of this cleanup failed
   deleted : BOOLEAN,            \* some deletion of this cleanup succeeded
   events  : SUBSET Row]         \* rows to be written at the end

Fresh(n, flags) ==
  [pc |-> "collect", attempt |-> n, flags |-> flags, found |-> {}, labels |-> FALSE,
   counts |-> NoCounts, read |-> FALSE, todo |-> {}, victims |-> {},
   errors |-> FALSE, deleted |-> FALSE, events |-> {}]

NoFlags == [apply |-> FALSE, nudge |-> FALSE, nudgeLive |-> FALSE,
            gc |-> FALSE, gcLive |-> FALSE]

Idle == [Fresh(0, NoFlags) EXCEPT !.pc = "idle"]

Init ==
  /\ env \in Envs
  /\ slack \in [Findings -> {0, MaxSlack}]
  /\ optedIn \in BOOLEAN
  /\ halted = FALSE
  /\ cordon = "none"
  /\ pods = [p \in PodNames |-> "absent"]
  /\ stored = NoCounts
  /\ rows = {}
  /\ pass = Idle
  /\ changed = {}
  /\ sighted = NoCounts
  /\ quiet = FALSE

-----------------------------------------------------------------------------
(* Helpers.                                                                *)

Goto(s, pc) == pass' = [s EXCEPT !.pc = pc]

RowOf(kind, what, applied) ==
  [attempt |-> pass.attempt, kind |-> kind, what |-> what, applied |-> applied]

Log(kind, what, applied) == [pass EXCEPT !.events = @ \cup {RowOf(kind, what, applied)}]

Changes(kind, what) ==
  changed' = changed \cup {[attempt |-> pass.attempt, kind |-> kind, what |-> what]}

-----------------------------------------------------------------------------
(* The Job.                                                                *)

\* Each tick has a history and audit rows of its own.
StartJob ==
  /\ pass.pc = "idle"
  /\ \E flags \in Configs : pass' = Fresh(1, flags)
  /\ changed' = {} /\ rows' = {}
  /\ quiet' = halted
  /\ UNCHANGED <<cluster, stored, sighted>>

Fails_RetriedAlways ==
  /\ pass' = Fresh(pass.attempt + 1, pass.flags)
  /\ quiet' = halted

\* A process that ends with an error: everything it has not written is lost.
Fails ==
  /\ pass' = IF pass.attempt <= Retries THEN Fresh(pass.attempt + 1, pass.flags) ELSE Idle
  /\ quiet' = halted

Crash ==
  /\ "crash" \in env /\ pass.pc # "idle"
  /\ Fails
  /\ UNCHANGED <<cluster, stored, rows, changed, sighted>>

\* main.go returns an error: no cluster, no table, no client, a failed List of
\* the cleanup, or an error of the consolidation pass.
ReturnsError ==
  /\ \/ pass.pc \in {"collect", "store", "drain", "list"}
     \/ pass.pc = "nudge" /\ pass.flags.nudge
     \/ pass.pc = "gc" /\ pass.flags.gc
  /\ Fails
  /\ UNCHANGED <<cluster, stored, rows, changed, sighted>>

-----------------------------------------------------------------------------
(* The report.                                                             *)

Collect ==
  /\ pass.pc = "collect"
  /\ Goto([pass EXCEPT !.found = {f \in Findings : slack[f] > 0}, !.labels = optedIn],
          IF Persist THEN "store" ELSE "plan")
  /\ UNCHANGED <<cluster, stored, rows, changed, sighted, quiet>>

\* The counts are read before the report adds one to each; a failure to read
\* them is ignored (main.go:119).
ReadExisting ==
  /\ pass.pc = "store"
  /\ \/ Goto([pass EXCEPT !.counts = stored, !.read = TRUE], "report")
     \/ Goto(pass, "report")
  /\ UNCHANGED <<cluster, stored, rows, changed, sighted, quiet>>

Counted(base, fs) == [f \in Findings |-> IF f \in fs THEN Upto(base[f] + 1) ELSE stored[f]]

\* PutReport reads the counts itself when it was given none, and starts from
\* nothing when that fails too.
Bases == IF pass.read THEN {pass.counts} ELSE {stored, NoCounts}

PutReport_OwnCounted ==
  /\ pass.pc = "report"
  /\ \E base \in Bases : stored' = Counted(base, pass.found)
  /\ sighted' = [f \in Findings |-> IF f \in pass.found THEN Upto(sighted[f] + 1) ELSE sighted[f]]
  /\ Goto([pass EXCEPT !.counts = stored'], "plan")
  /\ UNCHANGED <<cluster, rows, changed, quiet>>

PutReport ==
  /\ pass.pc = "report"
  /\ \E base \in Bases : stored' = Counted(base, pass.found)
  /\ sighted' = [f \in Findings |-> IF f \in pass.found THEN Upto(sighted[f] + 1) ELSE sighted[f]]
  /\ Goto(pass, "plan")
  /\ UNCHANGED <<cluster, rows, changed, quiet>>

\* Batches are written one after the other; an error leaves the rest unwritten.
PutReportFails ==
  /\ pass.pc = "report"
  /\ \E base \in Bases, some \in SUBSET pass.found :
       /\ stored' = Counted(base, some)
       /\ sighted' = [f \in Findings |-> IF f \in some THEN Upto(sighted[f] + 1) ELSE sighted[f]]
  /\ Fails
  /\ UNCHANGED <<cluster, rows, changed>>

-----------------------------------------------------------------------------
(* Trims.                                                                  *)

HasTarget(f) == f \in Targets /\ (f \in Wildcard => pass.labels)

\* plan.Build's gates, in so far as they do not depend on the amounts.
Eligible(f) ==
  /\ f \in pass.found \ Protected
  /\ HasTarget(f)
  /\ Confidence[f] >= MinConfidence
  /\ Persist /\ pass.counts[f] >= MinOccurrences

FirstOf(count, places) == {i \in places : Cardinality({j \in places : j < i}) < count}

Plan ==
  /\ pass.pc = "plan"
  /\ LET todo == FirstOf(MaxActions, {i \in 1..Len(Order) : Eligible(Order[i])}) IN
     Goto([pass EXCEPT !.todo = todo], IF todo = {} THEN "nudge" ELSE "apply")
  /\ UNCHANGED <<cluster, stored, rows, changed, sighted, quiet>>

Planned == {Order[i] : i \in pass.todo}

\* The switch is read in live mode only; unreadable counts as set.
ApplyHalted ==
  /\ pass.pc = "apply" /\ pass.flags.apply
  /\ Goto([pass EXCEPT !.todo = {},
                       !.events = @ \cup {RowOf("patch", f, FALSE) : f \in Planned}], "nudge")
  /\ UNCHANGED <<cluster, stored, rows, changed, sighted, quiet>>

\* No clientset: a complaint on stderr, and neither actions nor rows.
ApplyNoClient ==
  /\ pass.pc = "apply"
  /\ Goto([pass EXCEPT !.todo = {}], "nudge")
  /\ UNCHANGED <<cluster, stored, rows, changed, sighted, quiet>>

ApplyBegin_Unchecked ==
  /\ pass.pc = "apply"
  /\ Goto(pass, "patch")
  /\ UNCHANGED <<cluster, stored, rows, changed, sighted, quiet>>

ApplyBegin ==
  /\ pass.pc = "apply"
  /\ pass.flags.apply => ~halted
  /\ Goto(pass, "patch")
  /\ UNCHANGED <<cluster, stored, rows, changed, sighted, quiet>>

\* Apply looks at protection, and at the namespace's label, again.
Refused(f) == f \in Protected \/ (f \in Wildcard /\ ~optedIn) \/ ~pass.flags.apply

\* The actions are taken in the order of the report.
Turn(i) == pass.pc = "patch" /\ i \in pass.todo /\ \A j \in pass.todo : i <= j

Applied(i, applied) ==
  LET s == [Log("patch", Order[i], applied) EXCEPT !.todo = @ \ {i}] IN
  Goto(s, IF s.todo = {} THEN "nudge" ELSE "patch")

Trimmed(f) ==
  /\ ~Refused(f)
  /\ slack' = [slack EXCEPT ![f] = IF @ > 0 THEN @ - 1 ELSE 0]
  /\ Changes("patch", f)

PatchWorkload(i) ==
  /\ Turn(i)
  /\ Trimmed(Order[i]) /\ Applied(i, TRUE)
  /\ UNCHANGED <<env, optedIn, halted, cordon, pods, stored, rows, sighted, quiet>>

\* Refused, or reported and no more in a dry-run, or the call failed.
PatchSkipped(i) ==
  /\ Turn(i)
  /\ Applied(i, FALSE)
  /\ UNCHANGED <<cluster, stored, rows, changed, sighted, quiet>>

\* The answer to a patch was lost.
PatchUnanswered(i) ==
  /\ Turn(i)
  /\ Trimmed(Order[i]) /\ Applied(i, FALSE)
  /\ UNCHANGED <<env, optedIn, halted, cordon, pods, stored, rows, sighted, quiet>>

-----------------------------------------------------------------------------
(* Consolidation, seen from outside.                                       *)

NudgeOff ==
  /\ pass.pc = "nudge" /\ ~pass.flags.nudge
  /\ Goto(pass, "gc")
  /\ UNCHANGED <<cluster, stored, rows, changed, sighted, quiet>>

NudgeHalted ==
  /\ pass.pc = "nudge" /\ pass.flags.nudge /\ pass.flags.nudgeLive
  /\ Goto(Log("drain", "node", FALSE), "gc")
  /\ UNCHANGED <<cluster, stored, rows, changed, sighted, quiet>>

NudgeBegin ==
  /\ pass.pc = "nudge" /\ pass.flags.nudge
  /\ pass.flags.nudgeLive => ~halted
  /\ Goto(pass, "reap")
  /\ UNCHANGED <<cluster, stored, rows, changed, sighted, quiet>>

\* Nothing to reverse or to strip; or a dry-run or a failed call, which leave a row.
ReapNothing ==
  /\ pass.pc = "reap"
  /\ \/ Goto(pass, "drain")
     \/ Goto(Log("uncordon", "node", FALSE), "drain")
  /\ UNCHANGED <<cluster, stored, rows, changed, sighted, quiet>>

ReapCordon_Unanswered ==
  /\ pass.pc = "reap" /\ pass.flags.nudgeLive
  /\ cordon = "stale"
  /\ cordon' = "benched"
  /\ Changes("uncordon", "node")
  /\ Goto(pass, "drain")
  /\ UNCHANGED <<env, slack, optedIn, halted, pods, stored, rows, sighted, quiet>>

\* The row says "not applied" when the answer to the Update was lost.
ReapCordon ==
  /\ pass.pc = "reap" /\ pass.flags.nudgeLive
  /\ cordon = "stale"
  /\ cordon' = "benched"
  /\ Changes("uncordon", "node")
  /\ \E applied \in BOOLEAN : Goto(Log("uncordon", "node", applied), "drain")
  /\ UNCHANGED <<env, slack, optedIn, halted, pods, stored, rows, sighted, quiet>>

\* Markers on a schedulable node are stripped, which benches its pool; no event
\* says so, unless the answer was lost.
StripMarkers ==
  /\ pass.pc = "reap" /\ pass.flags.nudgeLive
  /\ cordon = "leftover"
  /\ cordon' = "benched"
  /\ Changes("strip", "node")
  /\ \/ Goto(pass, "drain")
     \/ Goto(Log("uncordon", "node", FALSE), "drain")
  /\ UNCHANGED <<env, slack, optedIn, halted, pods, stored, rows, sighted, quiet>>

\* No node is given back: a row says why, unless there was nothing to say.
DrainNothing ==
  /\ pass.pc = "drain"
  /\ \/ Goto(pass, "gc")
     \/ Goto(Log("drain", "node", FALSE), "gc")
  /\ UNCHANGED <<cluster, stored, rows, changed, sighted, quiet>>

Cordons ==
  /\ pass.pc = "drain" /\ pass.flags.nudgeLive
  /\ cordon \in {"none", "leftover"}
  /\ cordon' = "standing"
  /\ Changes("drain", "node")
  /\ UNCHANGED <<env, slack, optedIn, halted, pods, stored, rows, sighted>>

\* The row says "applied" when every eviction succeeded.
Drain ==
  /\ Cordons
  /\ \E applied \in BOOLEAN : Goto(Log("drain", "node", applied), "gc")
  /\ UNCHANGED quiet

\* The answer to the cordon was lost: the consolidation pass returns an error.
DrainUnanswered == Cordons /\ Fails

-----------------------------------------------------------------------------
(* Cleanup of completed pods (internal/podgc).                             *)

GcOff ==
  /\ pass.pc = "gc" /\ ~pass.flags.gc
  /\ Goto(pass, "persist")
  /\ UNCHANGED <<cluster, stored, rows, changed, sighted, quiet>>

GcHalted ==
  /\ pass.pc = "gc" /\ pass.flags.gc /\ pass.flags.gcLive
  /\ Goto(Log("gc", "pods", FALSE), "persist")
  /\ UNCHANGED <<cluster, stored, rows, changed, sighted, quiet>>

GcBegin ==
  /\ pass.pc = "gc" /\ pass.flags.gc
  /\ pass.flags.gcLive => ~halted
  /\ Goto(pass, "list")
  /\ UNCHANGED <<cluster, stored, rows, changed, sighted, quiet>>

Capped(n) == IF MaxDeletions > 0 /\ n > MaxDeletions THEN MaxDeletions ELSE n

ListCompleted_Fault ==
  /\ pass.pc = "list"
  /\ LET done == {p \in PodNames : pods[p] # "absent"} IN
     IF done = {} THEN Goto(pass, "persist")
     ELSE IF ~pass.flags.gcLive THEN Goto(Log("gc", "pods", FALSE), "persist")
     ELSE \E some \in SUBSET done :
            /\ Cardinality(some) = Capped(Cardinality(done))
            /\ Goto([pass EXCEPT !.victims = some], "delete")
  /\ UNCHANGED <<cluster, stored, rows, changed, sighted, quiet>>

\* The cap takes the oldest; here, any.
ListCompleted ==
  /\ pass.pc = "list"
  /\ LET done == {p \in PodNames : pods[p] = "completed"} IN
     IF done = {} THEN Goto(pass, "persist")
     ELSE IF ~pass.flags.gcLive THEN Goto(Log("gc", "pods", FALSE), "persist")
     ELSE \E some \in SUBSET done :
            /\ Cardinality(some) = Capped(Cardinality(done))
            /\ Goto([pass EXCEPT !.victims = some], "delete")
  /\ pods' = [p \in PodNames |-> IF pods[p] = "successor" THEN "running" ELSE pods[p]]
  /\ UNCHANGED <<env, slack, optedIn, halted, cordon, stored, rows, changed, sighted, quiet>>

\* A pod is deleted by name; a name that is gone is passed over.
DeletePod(p) ==
  /\ pass.pc = "delete" /\ p \in pass.victims
  /\ IF pods[p] = "absent"
     THEN /\ pass' = [pass EXCEPT !.victims = @ \ {p}]
          /\ UNCHANGED changed
     ELSE /\ \E answered \in BOOLEAN :
               pass' = [pass EXCEPT !.victims = @ \ {p}, !.deleted = @ \/ answered,
                                    !.errors = @ \/ ~answered]
          /\ Changes("gc", p)
  /\ pods' = [pods EXCEPT ![p] = "absent"]
  /\ UNCHANGED <<env, slack, optedIn, halted, cordon, stored, rows, sighted, quiet>>

DeleteFails(p) ==
  /\ pass.pc = "delete" /\ p \in pass.victims
  /\ pass' = [pass EXCEPT !.victims = @ \ {p}, !.errors = TRUE]
  /\ UNCHANGED <<cluster, stored, rows, changed, sighted, quiet>>

GcDone_Optimist ==
  /\ pass.pc = "delete" /\ pass.victims = {}
  /\ Goto(Log("gc", "pods", ~pass.errors), "persist")
  /\ UNCHANGED <<cluster, stored, rows, changed, sighted, quiet>>

GcDone ==
  /\ pass.pc = "delete" /\ pass.victims = {}
  /\ Goto(Log("gc", "pods", pass.deleted /\ ~pass.errors), "persist")
  /\ UNCHANGED <<cluster, stored, rows, changed, sighted, quiet>>

-----------------------------------------------------------------------------
(* The end of a pass.                                                      *)

\* The audit rows are written in batches; a failure is logged, and the pass
\* ends as a success.
WriteAudit ==
  /\ pass.pc = "persist"
  /\ \E some \in SUBSET pass.events :
       /\ ~Persist => some = {}
       /\ rows' = rows \cup some
  /\ pass' = Idle
  /\ UNCHANGED <<cluster, stored, changed, sighted, quiet>>

Store == ReadExisting \/ PutReport \/ PutReportFails

Trim ==
  \/ Plan \/ ApplyHalted \/ ApplyNoClient \/ ApplyBegin
  \/ \E i \in 1..Len(Order) : PatchWorkload(i) \/ PatchSkipped(i) \/ PatchUnanswered(i)

Nudge ==
  \/ NudgeOff \/ NudgeHalted \/ NudgeBegin \/ ReapNothing \/ ReapCordon
  \/ StripMarkers \/ DrainNothing \/ Drain \/ DrainUnanswered

Cleanup ==
  \/ GcOff \/ GcHalted \/ GcBegin \/ ListCompleted \/ GcDone
  \/ \E p \in PodNames : DeletePod(p) \/ DeleteFails(p)

PassStep == Collect \/ Store \/ Trim \/ Nudge \/ Cleanup \/ WriteAudit \/ ReturnsError

-----------------------------------------------------------------------------
(* Everyone else.                                                          *)

SetHalt ==
  /\ "halt" \in env
  /\ halted' = ~halted
  /\ quiet' = (quiet /\ ~halted)
  /\ UNCHANGED <<env, slack, optedIn, cordon, pods, stored, rows, pass, changed, sighted>>

OptIn ==
  /\ "labels" \in env
  /\ optedIn' = ~optedIn
  /\ UNCHANGED <<env, slack, halted, cordon, pods, stored, rows, pass, changed, sighted, quiet>>

\* Load changes, or an owner applies the manifest again.
Usage(f) ==
  /\ "usage" \in env
  /\ \E s \in {0, MaxSlack} : slack' = [slack EXCEPT ![f] = s]
  /\ UNCHANGED <<env, optedIn, halted, cordon, pods, stored, rows, pass, changed, sighted, quiet>>

\* A recommendation row that is no longer written expires (dynamodb.go:247).
Expire(f) ==
  /\ "expiry" \in env /\ slack[f] = 0
  /\ stored' = [stored EXCEPT ![f] = 0]
  /\ UNCHANGED <<cluster, rows, pass, changed, sighted, quiet>>

\* The tool's cordon outlives its TTL, or somebody lifts it or removes the node;
\* one with markers left is cordoned again; the cooldown of a benched pool ends.
CordonMoves ==
  /\ "cordon" \in env
  /\ \/ cordon = "standing" /\ cordon' \in {"stale", "leftover", "none"}
     \/ cordon = "stale" /\ cordon' \in {"leftover", "none"}
     \/ cordon = "leftover" /\ cordon' \in {"stale", "none"}
     \/ cordon = "benched" /\ cordon' = "none"
  /\ UNCHANGED <<env, slack, optedIn, halted, pods, stored, rows, pass, changed, sighted, quiet>>

PodLives(p) ==
  /\ "pods" \in env
  /\ \E next \in CASE pods[p] = "absent" -> {IF p \in pass.victims THEN "successor" ELSE "running"}
                   [] pods[p] \in {"running", "successor"} -> {"completed"}
                   [] OTHER -> {"absent"} :
       pods' = [pods EXCEPT ![p] = next]
  /\ UNCHANGED <<env, slack, optedIn, halted, cordon, stored, rows, pass, changed, sighted, quiet>>

Outside ==
  \/ SetHalt \/ OptIn \/ CordonMoves
  \/ \E f \in Findings : Usage(f) \/ Expire(f)
  \/ \E p \in PodNames : PodLives(p)

Next == StartJob \/ PassStep \/ Crash \/ Outside

Spec == Init /\ [][Next]_vars

-----------------------------------------------------------------------------
(* Properties.                                                             *)

PipelineTypeOK ==
  /\ env \in Envs
  /\ slack \in [Findings -> 0..MaxSlack]
  /\ optedIn \in BOOLEAN /\ halted \in BOOLEAN /\ quiet \in BOOLEAN
  /\ cordon \in {"none", "standing", "stale", "leftover", "benched"}
  /\ pods \in [PodNames -> {"absent", "running", "successor", "completed"}]
  /\ stored \in Counts /\ sighted \in Counts
  /\ rows \subseteq Row
  /\ pass \in Pass
  /\ changed \subseteq Change

\* A row is about a change: the same attempt, kind and object.  One cleanup
\* row stands for all pods of the cleanup.
About(row, c) ==
  /\ row.attempt = c.attempt /\ row.kind = c.kind
  /\ row.what = c.what \/ c.kind = "gc"

\* A row that says "applied" is about something that was changed, through
\* lost answers, partial batches, crashes and retries (the applied flags of
\* main.go's event constructors).
AppliedRowsTrue ==
  \A row \in rows \cup pass.events :
    row.applied => \E c \in changed : About(row, c)

\* A pass that gets to its end has an event about everything it changed, calls
\* without an answer included, but for the markers it stripped off nodes that
\* were uncordoned by hand: cordonReapEvents leaves those out (main.go:383-405),
\* though the reaper takes them for "worth an audit row" (cordon.go:70).  What
\* else it changed and does not record is lost in an earlier error return, a
\* crash, or the write of the rows.
PassAccountsForChanges ==
  pass.pc = "persist" =>
    \A c \in changed : c.attempt = pass.attempt /\ c.kind # "strip" =>
      \E row \in pass.events : About(row, c)

\* A switch that is set before an attempt begins and stays set keeps every
\* stage of it from changing anything (README, halt switch).
HaltedAttemptInert ==
  quiet /\ pass.pc # "idle" => \A c \in changed : c.attempt # pass.attempt

\* A workload is trimmed only after MinOccurrences earlier passes reported it,
\* and this one too: no count is ever too high, whatever of the store's calls
\* failed, and the pass's own report is not counted (main.go:116).
TrimmedAfterSightings ==
  [][\A f \in Findings :
       pass.pc = "patch" /\ slack'[f] < slack[f] /\ pass' # pass => sighted[f] > MinOccurrences]_vars

\* The cleanup deletes by name what it has listed some time ago: a pod that still
\* runs goes with it only when it took the name after the List (podgc.go:132-146
\* and 172).
RunningPodsSpared ==
  [][\A p \in PodNames : pods[p] = "running" => pods'[p] # "absent"]_vars

\* A pass that reversed a cordon gets to writing its audit rows (architecture.md,
\* risk register: "each reversal writes an `uncordon_stale` audit row").
ReversalReachesAudit ==
  [][/\ \E c \in changed : c.kind = "uncordon" /\ c.attempt = pass.attempt
     /\ pass.pc # "idle" /\ pass'.attempt # pass.attempt
     => pass.pc = "persist"]_vars
=============================================================================
