----------------------------- MODULE Dashboard -----------------------------
(***************************************************************************)
(* The dashboard server (cmd/cluster-optimizer-ui): requests of several    *)
(* tabs that run at once over two caches with expiry.  A poll shows the    *)
(* state of the halt switch, a toggle writes it and drops what the cache   *)
(* says of it, and a dispatch starts the remediation of a finding that the *)
(* cached reports offer.                                                   *)
(*                                                                         *)
(* A definition X_Fault is X with one plausible mistake; no specification  *)
(* uses it.                                                                *)
(***************************************************************************)
EXTENDS Integers

CONSTANTS
  Tabs,        \* clients; each makes one request at a time
  Clusters,    \* cluster IDs that the dashboard can be pointed at
  TTL,         \* ticks that a cache entry is used
  Limit,       \* ticks after which every call of a request has failed
  MinDays,     \* minRemediationDays
  Sessions     \* what tabs ask for, about which clusters, and who else acts

Request == {"poll", "on", "off", "reports", "dispatch"}

ASSUME DashboardAssumption ==
  /\ TTL \in Nat /\ Limit \in Nat /\ MinDays \in Nat
  /\ Sessions \subseteq [asks : SUBSET Request, clusters : SUBSET Clusters,
                          env : SUBSET {"kubectl", "engine", "reports", "node"}]

VARIABLES
  session,    \* one of Sessions, for good
  configMap,  \* the halt ConfigMap: "absent", "true", or some "other" value
  row,        \* halt flag of each cluster's ENGINE_STATUS row
  status,     \* engineStatusCache
  report,     \* what the store says, per cluster, of one finding with a target
  rollup,     \* the cache of reports and rollups
  req,        \* the request of each tab
  since,      \* history: ticks since the switch was last on, and off
  sinceHad,   \* history: ticks since a cluster's latest report had the finding
  acked       \* history: the toggle acknowledged last, while the switch stays so

vars == <<session, configMap, row, status, report, rollup, req, since, sinceHad, acked>>
switchVars == <<session, configMap, since, acked>>
statusVars == <<row, status>>
reportVars == <<report, rollup, sinceHad>>

Position == {"on", "off"}
Switch == IF configMap = "true" THEN "on" ELSE "off"
Other(v) == IF v = "on" THEN "off" ELSE "on"

\* What a status says of the switch; "none" when there is no status at all.
Answer == Position \cup {"none"}

Stage == {"idle", "lookup", "load", "reply", "create", "get", "update", "delete",
          "invalidate", "query", "recs", "decide"}

Record ==
  [pc       : Stage,
   want     : Request,
   cluster  : Clusters \cup {"none"},
   live     : Answer \cup {"pending"},   \* "none": the read failed
   row      : Answer \cup {"pending", "failed"},
   answer   : Answer,
   fromLive : BOOLEAN,       \* whether the answer rests on a live read
   fresh    : BOOLEAN,       \* the ConfigMap is still the one this request read
   expects  : Answer,        \* what a toggle acknowledged before promises
   has      : BOOLEAN,       \* the finding is in the latest report it read
   days     : 0..MinDays,    \* days between its first and last sighting
   age      : 0..Limit]

Fresh(want, k) ==
  [pc |-> "idle", want |-> want, cluster |-> k, live |-> "pending", row |-> "pending",
   answer |-> "none", fromLive |-> FALSE, fresh |-> FALSE, expects |-> "none",
   has |-> FALSE, days |-> 0, age |-> 0]

Idle == Fresh("poll", "none")

\* Ticks beyond which ages are not told apart.
Horizon == TTL + 2 * Limit + 1
Older(n) == IF n < Horizon THEN n + 1 ELSE n

NoStatus == [left |-> 0, answer |-> "none", fromLive |-> FALSE]
NoRollup == [left |-> 0, has |-> FALSE, days |-> 0]
NoCache == [k \in Clusters |-> NoStatus]

Init ==
  /\ session \in Sessions
  /\ configMap = "absent"
  /\ row \in {[k \in Clusters |-> v] : v \in {"none", "off"}}
  /\ status = NoCache
  /\ report = [k \in Clusters |-> [has |-> FALSE, days |-> 0]]
  /\ rollup = [k \in Clusters |-> NoRollup]
  /\ req = [c \in Tabs |-> Idle]
  /\ since = [v \in Position |-> IF v = "off" THEN 0 ELSE Horizon]
  /\ sinceHad = [k \in Clusters |-> Horizon]
  /\ acked = "none"

-----------------------------------------------------------------------------
(* Requests.                                                               *)

At(c, pc) == req[c].pc = pc
Goto(c, r, pc) == req' = [req EXCEPT ![c] = [r EXCEPT !.pc = pc]]
Done(c) == Goto(c, Idle, "idle")

Entry(want) ==
  CASE want = "poll" -> "lookup" [] want = "on" -> "create" [] want = "off" -> "delete"
    [] OTHER -> "query"

Begin(c, want, k) ==
  /\ At(c, "idle") /\ want \in session.asks /\ k \in session.clusters
  /\ Goto(c, [Fresh(want, k) EXCEPT !.expects = IF want = "poll" THEN acked ELSE "none"], Entry(want))
  /\ UNCHANGED <<switchVars, statusVars, reportVars>>

\* A request ends without a result: a call failed, or its deadline passed.
Fail(c) ==
  /\ req[c].pc \notin {"idle", "load", "invalidate"}
  /\ Done(c)
  /\ UNCHANGED <<switchVars, statusVars, reportVars>>

-----------------------------------------------------------------------------
(* Polls: engineStatusFor.                                                 *)

CacheHit(c) ==
  /\ At(c, "lookup") /\ status[req[c].cluster].left > 0
  /\ LET entry == status[req[c].cluster] IN
     Goto(c, [req[c] EXCEPT !.answer = entry.answer, !.fromLive = entry.fromLive], "reply")
  /\ UNCHANGED <<switchVars, statusVars, reportVars>>

CacheMiss(c) ==
  /\ At(c, "lookup") /\ status[req[c].cluster].left = 0
  /\ Goto(c, req[c], "load")
  /\ UNCHANGED <<switchVars, statusVars, reportVars>>

\* The two reads run at once; either may fail.
ReadLiveHalt(c) ==
  /\ At(c, "load") /\ req[c].live = "pending"
  /\ \E seen \in {Switch, "none"} : Goto(c, [req[c] EXCEPT !.live = seen], "load")
  /\ UNCHANGED <<switchVars, statusVars, reportVars>>

LoadEngineStatus(c) ==
  /\ At(c, "load") /\ req[c].row = "pending"
  /\ \E seen \in {row[req[c].cluster], "failed"} : Goto(c, [req[c] EXCEPT !.row = seen], "load")
  /\ UNCHANGED <<switchVars, statusVars, reportVars>>

Merged_RowFirst(r) == IF r.row \in {"none", "failed"} THEN "none" ELSE r.row

\* A failed live read keeps the row's value: the switch does not seem to go off.
Merged(r) ==
  CASE r.row \in {"none", "failed"} -> "none"
    [] r.live # "none" -> r.live
    [] OTHER -> r.row

Merge(c) ==
  /\ At(c, "load") /\ req[c].live # "pending" /\ req[c].row # "pending"
  /\ LET r == req[c]
         live == r.live # "none" IN
     /\ Goto(c, [r EXCEPT !.live = "pending", !.row = "pending",
                        !.answer = Merged(r), !.fromLive = live], "reply")
     /\ status' = IF r.row = "failed" THEN status
                  ELSE [status EXCEPT ![r.cluster] =
                          [left |-> TTL, answer |-> Merged(r), fromLive |-> live]]
  /\ UNCHANGED <<switchVars, row, reportVars>>

\* handleReports answers when the reports are there too.
Reply(c) ==
  /\ At(c, "reply")
  /\ Done(c)
  /\ UNCHANGED <<switchVars, statusVars, reportVars>>

-----------------------------------------------------------------------------
(* Toggles: handleHalt.                                                    *)

\* Someone writes the ConfigMap; r is the requests after the writer's step.
Write(value, r) ==
  /\ configMap' = value
  /\ LET same == Switch' = Switch IN
     /\ req' = [c \in Tabs |-> [r[c] EXCEPT !.fresh = FALSE,
                                            !.expects = IF same THEN @ ELSE "none"]]
     /\ since' = [since EXCEPT ![Switch'] = 0]
     /\ acked' = IF same THEN acked ELSE "none"

Moved(c, pc) == [req EXCEPT ![c].pc = pc]

Create(c) ==
  /\ At(c, "create")
  /\ IF configMap = "absent" THEN Write("true", Moved(c, "invalidate"))
     ELSE Goto(c, req[c], "get") /\ UNCHANGED switchVars
  /\ UNCHANGED <<session, statusVars, reportVars>>

Get(c) ==
  /\ At(c, "get") /\ configMap # "absent"
  /\ Goto(c, [req[c] EXCEPT !.fresh = TRUE], "update")
  /\ UNCHANGED <<switchVars, statusVars, reportVars>>

\* Update carries the resourceVersion of the Get: a conflict is an error.
Update(c) ==
  /\ At(c, "update") /\ req[c].fresh
  /\ Write("true", Moved(c, "invalidate"))
  /\ UNCHANGED <<session, statusVars, reportVars>>

Delete(c) ==
  /\ At(c, "delete")
  /\ Write("absent", Moved(c, "invalidate"))
  /\ UNCHANGED <<session, statusVars, reportVars>>

\* The write was carried out and its answer lost: an error, and nothing is
\* invalidated.
WriteUnanswered(c) ==
  /\ \/ At(c, "create") /\ configMap = "absent"
     \/ At(c, "update") /\ req[c].fresh
     \/ At(c, "delete")
  /\ Write(IF At(c, "delete") THEN "absent" ELSE "true",
           [req EXCEPT ![c] = Idle])
  /\ UNCHANGED <<session, statusVars, reportVars>>

\* No poll holds an older position that it has not cached yet.
NoLateCacher(v) == \A d \in Tabs : At(d, "load") => req[d].live # Other(v)

Dropped_OneCluster(k) == [status EXCEPT ![k] = NoStatus]

\* invalidateAllEngineStatus: the switch governs all clusters.
Dropped(k) == NoCache

Invalidate(c) ==
  /\ At(c, "invalidate")
  /\ status' = Dropped(req[c].cluster)
  /\ acked' = IF Switch = req[c].want /\ NoLateCacher(Switch) THEN Switch ELSE "none"
  /\ Done(c)
  /\ UNCHANGED <<session, configMap, since, row, reportVars>>

-----------------------------------------------------------------------------
(* Reports and the dispatch of a remediation.                              *)

Decided(c, r) == IF r.want = "dispatch" THEN Goto(c, r, "decide") ELSE Done(c)

RollupHit(c) ==
  /\ At(c, "query") /\ rollup[req[c].cluster].left > 0
  /\ LET entry == rollup[req[c].cluster] IN
     Decided(c, [req[c] EXCEPT !.has = entry.has, !.days = entry.days])
  /\ UNCHANGED <<switchVars, statusVars, reportVars>>

\* The recent reports first: they cover fewer days than the finding's row does.
QueryReports(c) ==
  /\ At(c, "query") /\ rollup[req[c].cluster].left = 0
  /\ LET now == report[req[c].cluster] IN
     \E seen \in 0..now.days : Goto(c, [req[c] EXCEPT !.has = now.has, !.days = seen], "recs")
  /\ UNCHANGED <<switchVars, statusVars, reportVars>>

\* The rows after them; a failure to read them is ignored.
LoadRecommendations(c) ==
  /\ At(c, "recs")
  /\ \E days \in {req[c].days, report[req[c].cluster].days} :
       LET r == [req[c] EXCEPT !.days = days] IN
       /\ rollup' = [rollup EXCEPT ![r.cluster] = [left |-> TTL, has |-> r.has, days |-> days]]
       /\ Decided(c, r)
  /\ UNCHANGED <<switchVars, statusVars, report, sinceHad>>

Available_OldFinding(r) == r.days >= MinDays

\* remediationFor, for a finding whose target and rule allow it.
Available(r) == r.has /\ r.days >= MinDays

Dispatch(c) ==
  /\ At(c, "decide") /\ Available(req[c])
  /\ Done(c)
  /\ UNCHANGED <<switchVars, statusVars, reportVars>>

-----------------------------------------------------------------------------
(* Everyone else.                                                          *)

\* kubectl, as the runbook has it.
Kubectl(value) ==
  /\ "kubectl" \in session.env
  /\ Write(value, req)
  /\ UNCHANGED <<session, statusVars, reportVars>>

\* A pass of the CronJob: what it says of the switch is what it met, and a
\* dry-run meets nothing.
EngineWrites(k) ==
  /\ "engine" \in session.env /\ k \in session.clusters
  /\ \E v \in Position : row' = [row EXCEPT ![k] = v]
  /\ UNCHANGED <<switchVars, status, reportVars, req>>

\* A new report; another day may have begun, and sightings are kept.
NewReport(k) ==
  /\ "reports" \in session.env /\ k \in session.clusters
  /\ \E has \in BOOLEAN, days \in report[k].days..MinDays :
       /\ has \/ days = report[k].days
       /\ report' = [report EXCEPT ![k] = [has |-> has, days |-> days]]
       /\ sinceHad' = IF has THEN [sinceHad EXCEPT ![k] = 0] ELSE sinceHad
  /\ UNCHANGED <<switchVars, statusVars, rollup, req>>

Left(n) == IF n > 0 THEN n - 1 ELSE 0

Tick_NoDeadline ==
  /\ req' = [c \in Tabs |-> IF At(c, "idle") THEN req[c] ELSE [req[c] EXCEPT !.age = @ + 1]]
  /\ status' = [k \in Clusters |-> [status[k] EXCEPT !.left = Left(@)]]
  /\ rollup' = [k \in Clusters |-> [rollup[k] EXCEPT !.left = Left(@)]]
  /\ since' = [v \in Position |-> IF v = Switch THEN 0 ELSE Older(since[v])]
  /\ sinceHad' = [k \in Clusters |-> IF report[k].has THEN 0 ELSE Older(sinceHad[k])]
  /\ UNCHANGED <<session, configMap, acked, row, report>>

Tick ==
  /\ \A c \in Tabs : At(c, "idle") \/ req[c].age < Limit
  /\ req' = [c \in Tabs |-> IF At(c, "idle") THEN req[c] ELSE [req[c] EXCEPT !.age = @ + 1]]
  /\ status' = [k \in Clusters |-> [status[k] EXCEPT !.left = Left(@)]]
  /\ rollup' = [k \in Clusters |-> [rollup[k] EXCEPT !.left = Left(@)]]
  /\ since' = [v \in Position |-> IF v = Switch THEN 0 ELSE Older(since[v])]
  /\ sinceHad' = [k \in Clusters |-> IF report[k].has THEN 0 ELSE Older(sinceHad[k])]
  /\ UNCHANGED <<session, configMap, acked, row, report>>

Poll(c) == CacheHit(c) \/ CacheMiss(c) \/ ReadLiveHalt(c) \/ LoadEngineStatus(c) \/ Merge(c) \/ Reply(c)
Toggle(c) == Create(c) \/ Get(c) \/ Update(c) \/ Delete(c) \/ WriteUnanswered(c) \/ Invalidate(c)
Remedy(c) == RollupHit(c) \/ QueryReports(c) \/ LoadRecommendations(c) \/ Dispatch(c)

Step(c) == Poll(c) \/ Toggle(c) \/ Remedy(c) \/ Fail(c)
BeginAny(c) == \E want \in Request, k \in Clusters : Begin(c, want, k)

Next ==
  \/ \E c \in Tabs : BeginAny(c) \/ Step(c)
  \/ \E value \in {"absent", "true", "other"} : Kubectl(value)
  \/ \E k \in Clusters : EngineWrites(k) \/ NewReport(k)
  \/ Tick

Spec == Init /\ [][Next]_vars

-----------------------------------------------------------------------------
(* Properties.                                                             *)

\* Requests, caches, rows and the switch stay within their types; a request is
\* never older than its deadline and a cache entry never lives beyond TTL.
DashboardTypeOK ==
  /\ configMap \in {"absent", "true", "other"}
  /\ row \in [Clusters -> Answer]
  /\ status \in [Clusters -> [left : 0..TTL, answer : Answer, fromLive : BOOLEAN]]
  /\ report \in [Clusters -> [has : BOOLEAN, days : 0..MinDays]]
  /\ rollup \in [Clusters -> [left : 0..TTL, has : BOOLEAN, days : 0..MinDays]]
  /\ req \in [Tabs -> Record]
  /\ since \in [Position -> 0..Horizon]
  /\ sinceHad \in [Clusters -> 0..Horizon]
  /\ acked \in Answer

\* A status that rests on a live read shows a position that the switch had no
\* longer ago than the cache's TTL and the time of two requests: the one that
\* filled the cache and the one that answers (comment of engineStatusCacheTTL).
StatusBounded ==
  \A c \in Tabs :
    At(c, "reply") /\ req[c].fromLive /\ req[c].answer # "none"
      => since[req[c].answer] <= TTL + 2 * Limit

\* A poll that starts after a toggle was acknowledged, of whatever cluster,
\* shows its position as long as the switch keeps it (handleHalt's comment),
\* unless a poll that read the old position was still under way.
ToggleShown ==
  \A c \in Tabs :
    At(c, "reply") /\ req[c].fromLive /\ req[c].answer # "none" /\ req[c].expects # "none"
      => req[c].answer = req[c].expects

\* A remediation starts only for a finding observed for MinDays that the latest
\* report had no longer ago than the cache's TTL and two requests
\* (remediationFor: "The latest report no longer contains this recommendation").
DispatchCurrent ==
  [][\A c \in Tabs :
       Dispatch(c) =>
         LET k == req[c].cluster IN
         report[k].days >= MinDays /\ sinceHad[k] <= TTL + 2 * Limit]_vars

=============================================================================
