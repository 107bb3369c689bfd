------------------------- MODULE Dashboard_proofs -------------------------
(***************************************************************************)
(* What the dashboard's two caches can be wrong about, and for how long,   *)
(* for any number of tabs and clusters, any expiry and any deadline.       *)
(***************************************************************************)
EXTENDS Dashboard, TLAPS

-----------------------------------------------------------------------------
(* The invariant.                                                          *)

\* A request under way is about a cluster.
ClustersKnown == \A c \in Tabs : At(c, "idle") \/ req[c].cluster \in Clusters

SwitchIsNow == since[Switch] = 0

\* How long ago the switch had the position that a poll has read, that the cache
\* holds, and that an answer shows.
ReadsRecent ==
  \A c \in Tabs :
    /\ At(c, "lookup") => req[c].live = "pending"
    /\ At(c, "load") /\ req[c].live \in Position => since[req[c].live] <= req[c].age

Live(entry) == entry.left > 0 /\ entry.fromLive /\ entry.answer # "none"

CacheRecent ==
  \A k \in Clusters : Live(status[k]) => since[status[k].answer] <= TTL - status[k].left + Limit

Shows(c) == At(c, "reply") /\ req[c].fromLive /\ req[c].answer # "none"

AnswersRecent ==
  \A c \in Tabs : Shows(c) => since[req[c].answer] <= TTL + Limit + req[c].age

\* What was promised of the switch is still so.
PromisesKept ==
  /\ acked \in {"none", Switch}
  /\ \A c \in Tabs : req[c].expects \in {"none", Switch}

Promised == acked # "none" \/ \E c \in Tabs : req[c].expects # "none"

\* While there is a promise, neither the cache nor a poll that may fill it holds
\* the other position.
NothingOld ==
  Promised => /\ NoLateCacher(Switch)
              /\ \A k \in Clusters : Live(status[k]) => status[k].answer = Switch

\* Of a finding: the latest report's, the cache's, and what a request has read.
ReportIsNow == \A k \in Clusters : report[k].has => sinceHad[k] = 0

RollupRecent ==
  \A k \in Clusters : rollup[k].left > 0 =>
    /\ rollup[k].days <= report[k].days
    /\ rollup[k].has => sinceHad[k] <= TTL - rollup[k].left + Limit

FindingsRecent ==
  \A c \in Tabs :
    LET k == req[c].cluster IN
    /\ At(c, "recs") \/ At(c, "decide") => req[c].days <= report[k].days
    /\ At(c, "recs") /\ req[c].has => sinceHad[k] <= req[c].age
    /\ At(c, "decide") /\ req[c].has => sinceHad[k] <= TTL + Limit + req[c].age

DashboardInv ==
  /\ DashboardTypeOK
  /\ ClustersKnown
  /\ SwitchIsNow
  /\ ReadsRecent
  /\ CacheRecent
  /\ AnswersRecent
  /\ PromisesKept
  /\ NothingOld
  /\ ToggleShown
  /\ ReportIsNow
  /\ RollupRecent
  /\ FindingsRecent

-----------------------------------------------------------------------------
(* The kinds of steps.                                                     *)

\* The request of c moves on and nothing else changes: what it now holds is what
\* it held, what the caches hold, or what is so.
Passes(c) ==
  LET r == req[c]
      s == req'[c]
      k == s.cluster IN
  /\ UNCHANGED <<switchVars, statusVars, reportVars>>
  /\ req' \in [Tabs -> Record]
  /\ \A d \in Tabs \ {c} : req'[d] = req[d]
  /\ s.pc = "idle" \/ k \in Clusters
  /\ s.expects \in {"none", acked, r.expects}
  /\ s.pc = "lookup" => s.live = "pending"
  /\ s.pc = "load" => \/ s.live \in {"pending", "none", Switch}
                      \/ r.pc = "load" /\ s.live = r.live /\ s.age = r.age
  /\ s.pc = "reply" => /\ status[k].left > 0
                       /\ s.answer = status[k].answer /\ s.fromLive = status[k].fromLive
  /\ s.pc = "recs" => s.days <= report[k].days /\ s.has = report[k].has
  /\ s.pc = "decide" => rollup[k].left > 0 /\ s.has = rollup[k].has /\ s.days = rollup[k].days

\* The ConfigMap is written; the request that wrote it is done, or is left to
\* invalidate the cache.
Writes ==
  /\ UNCHANGED <<session, statusVars, reportVars>>
  /\ configMap' \in {"absent", "true", "other"}
  /\ since' = [since EXCEPT ![Switch'] = 0]
  /\ acked' = IF Switch' = Switch THEN acked ELSE "none"
  /\ req' \in [Tabs -> Record]
  /\ \A d \in Tabs :
       LET r == req[d]
           s == req'[d] IN
       /\ s.expects \in {"none", IF Switch' = Switch THEN r.expects ELSE "none"}
       /\ s.pc \in {"idle", r.pc} \/ (s.pc = "invalidate" /\ r.pc # "idle")
       /\ s.pc # "idle" => s.cluster = r.cluster
       /\ s.pc \in {"lookup", "load", "reply", "recs", "decide"} =>
            /\ s.live = r.live /\ s.answer = r.answer /\ s.fromLive = r.fromLive
            /\ s.has = r.has /\ s.days = r.days /\ s.age = r.age

LEMMA Numbers ==
  /\ TTL \in Nat /\ Limit \in Nat /\ MinDays \in Nat
  /\ Horizon \in Nat /\ Horizon = TTL + 2 * Limit + 1
  /\ \A n \in 0..Horizon : Older(n) \in 0..Horizon /\ Older(n) <= n + 1
  /\ \A n \in 0..TTL : Left(n) \in 0..TTL /\ Left(n) <= n /\ (Left(n) > 0 => Left(n) = n - 1)
BY DashboardAssumption DEF DashboardAssumption, Horizon, Older, Left

LEMMA FreshTypes ==
  /\ \A want \in Request, k \in Clusters \cup {"none"} : Fresh(want, k) \in Record
  /\ Idle \in Record
<1>1. \A want \in Request, k \in Clusters \cup {"none"} : Fresh(want, k) \in Record
  BY Numbers DEF Fresh, Record, Stage, Answer, Position
<1> QED BY <1>1 DEF Idle, Request

\* What Goto does to the requests.
LEMMA GotoEffect ==
  ASSUME req \in [Tabs -> Record], NEW c \in Tabs, NEW r \in Record, NEW pc \in Stage,
         Goto(c, r, pc)
  PROVE  /\ req' \in [Tabs -> Record]
         /\ req'[c] = [r EXCEPT !.pc = pc]
         /\ \A d \in Tabs \ {c} : req'[d] = req[d]
<1>1. [r EXCEPT !.pc = pc] \in Record
  BY DEF Record
<1> QED BY <1>1 DEF Goto

LEMMA DoneEffect ==
  ASSUME req \in [Tabs -> Record], NEW c \in Tabs, Done(c)
  PROVE  /\ req' \in [Tabs -> Record]
         /\ req'[c].pc = "idle" /\ req'[c].expects = "none"
         /\ \A d \in Tabs \ {c} : req'[d] = req[d]
<1>1. "idle" \in Stage
  BY DEF Stage
<1>2. Idle \in Record /\ Idle.expects = "none"
  BY FreshTypes DEF Idle, Fresh
<1>3. /\ req' \in [Tabs -> Record]
      /\ req'[c] = [Idle EXCEPT !.pc = "idle"]
      /\ \A d \in Tabs \ {c} : req'[d] = req[d]
  BY <1>1, <1>2, GotoEffect DEF Done
<1> QED BY <1>2, <1>3 DEF Record

\* A request that is given up or answered moves on.
LEMMA DonePasses ==
  ASSUME req \in [Tabs -> Record], NEW c \in Tabs, Done(c),
         UNCHANGED <<switchVars, statusVars, reportVars>>
  PROVE  Passes(c)
BY DoneEffect DEF Passes

LEMMA PollsPass ==
  ASSUME DashboardInv, NEW c \in Tabs,
         BeginAny(c) \/ CacheHit(c) \/ CacheMiss(c) \/ ReadLiveHalt(c) \/ LoadEngineStatus(c)
           \/ Reply(c) \/ Fail(c)
  PROVE  Passes(c)
<1> DEFINE r == req[c]
<1>0. req \in [Tabs -> Record] /\ r \in Record /\ (r.pc = "idle" \/ r.cluster \in Clusters)
  BY DEF DashboardInv, DashboardTypeOK, ClustersKnown, At
<1>1. CASE BeginAny(c)
  <2> PICK want \in Request, k \in Clusters : Begin(c, want, k)
    BY <1>1 DEF BeginAny
  <2> DEFINE promise == IF want = "poll" THEN acked ELSE "none"
             s == [Fresh(want, k) EXCEPT !.expects = promise]
  <2>1. promise \in Answer
    BY DEF DashboardInv, DashboardTypeOK, Answer
  <2>2. s \in Record
    BY <2>1, FreshTypes DEF Record
  <2>3. Entry(want) \in {"lookup", "create", "delete", "query"}
    BY DEF Entry
  <2>4. Goto(c, s, Entry(want)) /\ UNCHANGED <<switchVars, statusVars, reportVars>>
    BY DEF Begin
  <2>5. s.cluster = k /\ s.expects = promise /\ s.live = "pending"
    BY DEF Fresh
  <2> HIDE DEF s
  <2> DEFINE first == Entry(want)
  <2> first \in Stage
    BY <2>3 DEF Stage
  <2> HIDE DEF first
  <2>a. Goto(c, s, first)
    BY <2>4 DEF first
  <2>b. /\ req' \in [Tabs -> Record]
        /\ req'[c] = [s EXCEPT !.pc = first]
        /\ \A d \in Tabs \ {c} : req'[d] = req[d]
    BY <1>0, <2>2, <2>a, GotoEffect
  <2>6. /\ req' \in [Tabs -> Record]
        /\ req'[c] = [s EXCEPT !.pc = Entry(want)]
        /\ \A d \in Tabs \ {c} : req'[d] = req[d]
    BY <2>b DEF first
  <2>7. /\ req'[c].pc = Entry(want) /\ req'[c].cluster = k /\ req'[c].expects = promise
        /\ req'[c].live = "pending"
    BY <2>2, <2>5, <2>6 DEF Record
  <2> QED BY <2>3, <2>4, <2>6, <2>7 DEF Passes
<1>2. CASE CacheHit(c)
  <2> DEFINE entry == status[r.cluster]
             s == [r EXCEPT !.answer = entry.answer, !.fromLive = entry.fromLive]
  <2>1. r.cluster \in Clusters /\ entry.left > 0 /\ UNCHANGED <<switchVars, statusVars, reportVars>>
    BY <1>0, <1>2 DEF CacheHit, At
  <2>2. entry.answer \in Answer /\ entry.fromLive \in BOOLEAN
    BY <2>1 DEF DashboardInv, DashboardTypeOK
  <2>3. s \in Record /\ s.cluster = r.cluster /\ s.expects = r.expects
        /\ s.answer = entry.answer /\ s.fromLive = entry.fromLive
    BY <1>0, <2>2 DEF Record
  <2>4. Goto(c, s, "reply")
    BY <1>2 DEF CacheHit
  <2> HIDE DEF s
  <2>5. /\ req' \in [Tabs -> Record]
        /\ req'[c] = [s EXCEPT !.pc = "reply"]
        /\ \A d \in Tabs \ {c} : req'[d] = req[d]
    BY <1>0, <2>3, <2>4, GotoEffect DEF Stage
  <2>6. /\ req'[c].pc = "reply" /\ req'[c].cluster = r.cluster /\ req'[c].expects = r.expects
        /\ req'[c].answer = entry.answer /\ req'[c].fromLive = entry.fromLive
    BY <2>3, <2>5 DEF Record
  <2> QED BY <2>1, <2>5, <2>6 DEF Passes
<1>3. CASE CacheMiss(c)
  <2>1. r.cluster \in Clusters /\ r.live = "pending"
    BY <1>0, <1>3 DEF CacheMiss, At, DashboardInv, ReadsRecent
  <2>2. Goto(c, r, "load") /\ UNCHANGED <<switchVars, statusVars, reportVars>>
    BY <1>3 DEF CacheMiss
  <2>3. /\ req' \in [Tabs -> Record]
        /\ req'[c] = [r EXCEPT !.pc = "load"]
        /\ \A d \in Tabs \ {c} : req'[d] = req[d]
    BY <1>0, <2>2, GotoEffect DEF Stage
  <2> QED BY <1>0, <2>1, <2>2, <2>3 DEF Passes, Record
<1>4. CASE ReadLiveHalt(c)
  <2> PICK seen \in {Switch, "none"} : Goto(c, [r EXCEPT !.live = seen], "load")
    BY <1>4 DEF ReadLiveHalt
  <2>1. r.cluster \in Clusters /\ UNCHANGED <<switchVars, statusVars, reportVars>>
    BY <1>0, <1>4 DEF ReadLiveHalt, At
  <2>2. [r EXCEPT !.live = seen] \in Record
    BY <1>0 DEF Record, Answer, Position, Switch
  <2>3. /\ req' \in [Tabs -> Record]
        /\ req'[c] = [[r EXCEPT !.live = seen] EXCEPT !.pc = "load"]
        /\ \A d \in Tabs \ {c} : req'[d] = req[d]
    BY <1>0, <2>2, GotoEffect DEF Stage
  <2>4. /\ req'[c].pc = "load" /\ req'[c].live = seen /\ req'[c].cluster = r.cluster
        /\ req'[c].expects = r.expects
    BY <1>0, <2>3 DEF Record
  <2> QED BY <2>1, <2>3, <2>4 DEF Passes
<1>5. CASE LoadEngineStatus(c)
  <2> PICK seen \in {row[r.cluster], "failed"} : Goto(c, [r EXCEPT !.row = seen], "load")
    BY <1>5 DEF LoadEngineStatus
  <2>1. r.pc = "load" /\ r.cluster \in Clusters /\ UNCHANGED <<switchVars, statusVars, reportVars>>
    BY <1>0, <1>5 DEF LoadEngineStatus, At
  <2>2. row[r.cluster] \in Answer
    BY <2>1 DEF DashboardInv, DashboardTypeOK
  <2>3. [r EXCEPT !.row = seen] \in Record
    BY <1>0, <2>2 DEF Record
  <2>4. /\ req' \in [Tabs -> Record]
        /\ req'[c] = [[r EXCEPT !.row = seen] EXCEPT !.pc = "load"]
        /\ \A d \in Tabs \ {c} : req'[d] = req[d]
    BY <1>0, <2>3, GotoEffect DEF Stage
  <2>5. /\ req'[c].pc = "load" /\ req'[c].live = r.live /\ req'[c].cluster = r.cluster
        /\ req'[c].expects = r.expects /\ req'[c].age = r.age
    BY <1>0, <2>4 DEF Record
  <2> QED BY <2>1, <2>4, <2>5 DEF Passes
<1>6. CASE Reply(c) \/ Fail(c)
  BY <1>0, <1>6, DonePasses DEF Reply, Fail
<1> QED BY <1>1, <1>2, <1>3, <1>4, <1>5, <1>6

LEMMA RemediesPass ==
  ASSUME DashboardInv, NEW c \in Tabs, RollupHit(c) \/ QueryReports(c) \/ Dispatch(c)
  PROVE  Passes(c)
<1> DEFINE r == req[c]
<1>0. req \in [Tabs -> Record] /\ r \in Record /\ (r.pc = "idle" \/ r.cluster \in Clusters)
  BY DEF DashboardInv, DashboardTypeOK, ClustersKnown, At
<1>1. CASE RollupHit(c)
  <2> DEFINE entry == rollup[r.cluster]
             s == [r EXCEPT !.has = entry.has, !.days = entry.days]
  <2>1. r.cluster \in Clusters /\ entry.left > 0 /\ UNCHANGED <<switchVars, statusVars, reportVars>>
    BY <1>0, <1>1 DEF RollupHit, At
  <2>2. entry.has \in BOOLEAN /\ entry.days \in 0..MinDays
    BY <2>1 DEF DashboardInv, DashboardTypeOK
  <2>3. /\ s \in Record /\ s.cluster = r.cluster /\ s.expects = r.expects
        /\ s.has = entry.has /\ s.days = entry.days
    BY <1>0, <2>2 DEF Record
  <2>4. Decided(c, s)
    BY <1>1 DEF RollupHit
  <2> HIDE DEF s
  <2>5. CASE Done(c)
    BY <1>0, <2>1, <2>5, DonePasses
  <2>6. CASE Goto(c, s, "decide")
    <3>1. /\ req' \in [Tabs -> Record]
          /\ req'[c] = [s EXCEPT !.pc = "decide"]
          /\ \A d \in Tabs \ {c} : req'[d] = req[d]
      BY <1>0, <2>3, <2>6, GotoEffect DEF Stage
    <3>2. /\ req'[c].pc = "decide" /\ req'[c].cluster = r.cluster /\ req'[c].expects = r.expects
          /\ req'[c].has = entry.has /\ req'[c].days = entry.days
      BY <2>3, <3>1 DEF Record
    <3> QED BY <2>1, <3>1, <3>2 DEF Passes
  <2> QED BY <2>4, <2>5, <2>6 DEF Decided
<1>2. CASE QueryReports(c)
  <2> DEFINE now == report[r.cluster]
  <2>1. r.cluster \in Clusters /\ UNCHANGED <<switchVars, statusVars, reportVars>>
    BY <1>0, <1>2 DEF QueryReports, At
  <2>2. now.has \in BOOLEAN /\ now.days \in 0..MinDays
    BY <2>1 DEF DashboardInv, DashboardTypeOK
  <2> PICK seen \in 0..now.days : Goto(c, [r EXCEPT !.has = now.has, !.days = seen], "recs")
    BY <1>2 DEF QueryReports
  <2> DEFINE s == [r EXCEPT !.has = now.has, !.days = seen]
  <2>3. seen \in 0..MinDays /\ seen <= now.days
    BY <2>2, Numbers
  <2>4. /\ s \in Record /\ s.cluster = r.cluster /\ s.expects = r.expects
        /\ s.has = now.has /\ s.days = seen
    BY <1>0, <2>2, <2>3 DEF Record
  <2> HIDE DEF s
  <2>5. /\ req' \in [Tabs -> Record]
        /\ req'[c] = [s EXCEPT !.pc = "recs"]
        /\ \A d \in Tabs \ {c} : req'[d] = req[d]
    BY <1>0, <2>4, GotoEffect DEF Stage, s
  <2>6. /\ req'[c].pc = "recs" /\ req'[c].cluster = r.cluster /\ req'[c].expects = r.expects
        /\ req'[c].has = now.has /\ req'[c].days = seen
    BY <2>4, <2>5 DEF Record
  <2> QED BY <2>1, <2>3, <2>5, <2>6 DEF Passes
<1>3. CASE Dispatch(c)
  BY <1>0, <1>3, DonePasses DEF Dispatch
<1> QED BY <1>1, <1>2, <1>3

\* Each of the requests r is one of those there are, has become done, or has
\* become one that is to invalidate the cache.
LeftBy(r) ==
  \A d \in Tabs :
    /\ r[d].expects \in {"none", req[d].expects}
    /\ r[d].pc \in {"idle", req[d].pc} \/ (r[d].pc = "invalidate" /\ req[d].pc # "idle")
    /\ r[d].pc # "idle" => r[d].cluster = req[d].cluster
    /\ r[d].pc \in {"lookup", "load", "reply", "recs", "decide"} => r[d] = req[d]

LEMMA WriteEffect ==
  ASSUME DashboardInv, NEW value \in {"absent", "true", "other"}, NEW r \in [Tabs -> Record],
         Write(value, r), UNCHANGED <<session, statusVars, reportVars>>, LeftBy(r)
  PROVE  Writes
<1> DEFINE same == Switch' = Switch
           After(d) == [r[d] EXCEPT !.fresh = FALSE, !.expects = IF same THEN @ ELSE "none"]
<1>1. ASSUME NEW d \in Tabs
      PROVE  /\ After(d) \in Record
             /\ After(d).expects = IF same THEN r[d].expects ELSE "none"
             /\ After(d).pc = r[d].pc /\ After(d).cluster = r[d].cluster
             /\ After(d).live = r[d].live /\ After(d).answer = r[d].answer
             /\ After(d).fromLive = r[d].fromLive /\ After(d).has = r[d].has
             /\ After(d).days = r[d].days /\ After(d).age = r[d].age
  <2>1. r[d] \in Record /\ same \in BOOLEAN
    OBVIOUS
  <2> HIDE DEF same
  <2>2. CASE same
    BY <2>1, <2>2 DEF Record, Answer
  <2>3. CASE ~same
    BY <2>1, <2>3 DEF Record, Answer
  <2> QED BY <2>1, <2>2, <2>3
<1>2. req' = [d \in Tabs |-> After(d)]
  BY DEF Write
<1>3. configMap' = value /\ since' = [since EXCEPT ![Switch'] = 0]
      /\ acked' = IF same THEN acked ELSE "none"
  BY DEF Write
<1> HIDE DEF After
<1>4. req' \in [Tabs -> Record] /\ \A d \in Tabs : req'[d] = After(d)
  BY <1>1, <1>2
<1> QED BY <1>1, <1>3, <1>4 DEF Writes, LeftBy

LEMMA WritersWrite ==
  ASSUME DashboardInv,
         \/ \E c \in Tabs : Update(c) \/ Delete(c) \/ WriteUnanswered(c)
         \/ \E c \in Tabs : Create(c) /\ configMap = "absent"
         \/ \E value \in {"absent", "true", "other"} : Kubectl(value)
  PROVE  Writes
<1>0. req \in [Tabs -> Record]
  BY DEF DashboardInv, DashboardTypeOK
<1>1. ASSUME NEW c \in Tabs, req[c].pc # "idle", NEW value \in {"absent", "true", "other"},
             Write(value, Moved(c, "invalidate")), UNCHANGED <<session, statusVars, reportVars>>
      PROVE  Writes
  <2> DEFINE r == Moved(c, "invalidate")
  <2>1. r \in [Tabs -> Record]
    BY <1>0 DEF Moved, Record, Stage
  <2>a. \A d \in Tabs \ {c} : r[d] = req[d]
    BY <1>0 DEF Moved
  <2>b. r[c] = [req[c] EXCEPT !.pc = "invalidate"]
    BY <1>0 DEF Moved
  <2>c. r[c].expects = req[c].expects /\ r[c].cluster = req[c].cluster /\ r[c].pc = "invalidate"
    BY <1>0, <2>b DEF Record
  <2>2. LeftBy(r)
    BY <1>1, <2>a, <2>c DEF LeftBy
  <2> HIDE DEF r
  <2>3. Write(value, r)
    BY <1>1 DEF r
  <2> QED BY <1>1, <2>1, <2>2, <2>3, WriteEffect
<1>2. ASSUME NEW c \in Tabs, WriteUnanswered(c)
      PROVE  Writes
  <2> DEFINE r == [req EXCEPT ![c] = Idle]
             value == IF At(c, "delete") THEN "absent" ELSE "true"
  <2>1. r \in [Tabs -> Record] /\ Idle.pc = "idle" /\ Idle.expects = "none"
    BY <1>0, FreshTypes DEF Idle, Fresh
  <2>a. r[c] = Idle /\ \A d \in Tabs \ {c} : r[d] = req[d]
    BY <1>0
  <2>2. LeftBy(r)
    BY <2>1, <2>a DEF LeftBy
  <2>3. value \in {"absent", "true", "other"}
    OBVIOUS
  <2>4. Write(value, r) /\ UNCHANGED <<session, statusVars, reportVars>>
    BY <1>2 DEF WriteUnanswered
  <2> HIDE DEF r, value
  <2> QED BY <2>1, <2>2, <2>3, <2>4, WriteEffect
<1>3. ASSUME NEW value \in {"absent", "true", "other"}, Kubectl(value)
      PROVE  Writes
  <2>1. Write(value, req) /\ UNCHANGED <<session, statusVars, reportVars>>
    BY <1>3 DEF Kubectl
  <2>2. LeftBy(req)
    BY DEF LeftBy
  <2> QED BY <1>0, <2>1, <2>2, WriteEffect
<1>4. ASSUME NEW c \in Tabs, Update(c) \/ Delete(c) \/ (Create(c) /\ configMap = "absent")
      PROVE  Writes
  <2>1. req[c].pc # "idle" /\ UNCHANGED <<session, statusVars, reportVars>>
    BY <1>4 DEF Update, Delete, Create, At
  <2>2. \/ Write("true", Moved(c, "invalidate"))
        \/ Write("absent", Moved(c, "invalidate"))
    BY <1>4 DEF Update, Delete, Create
  <2> QED BY <1>1, <2>1, <2>2
<1> QED BY <1>2, <1>3, <1>4

LEMMA TogglesPass ==
  ASSUME DashboardInv, NEW c \in Tabs, Get(c) \/ (Create(c) /\ configMap # "absent")
  PROVE  Passes(c)
<1> DEFINE r == req[c]
<1>0. req \in [Tabs -> Record] /\ r \in Record /\ (r.pc = "idle" \/ r.cluster \in Clusters)
  BY DEF DashboardInv, DashboardTypeOK, ClustersKnown, At
<1>1. ASSUME NEW s \in Record, NEW pc \in Stage, pc \in {"get", "update"}, Goto(c, s, pc),
             r.pc # "idle", s.cluster = r.cluster, s.expects = r.expects,
             UNCHANGED <<switchVars, statusVars, reportVars>>
      PROVE  Passes(c)
  <2>1. /\ req' \in [Tabs -> Record]
        /\ req'[c] = [s EXCEPT !.pc = pc]
        /\ \A d \in Tabs \ {c} : req'[d] = req[d]
    BY <1>0, <1>1, GotoEffect
  <2>2. req'[c].pc = pc /\ req'[c].cluster = r.cluster /\ req'[c].expects = r.expects
    BY <1>1, <2>1 DEF Record
  <2> QED BY <1>0, <1>1, <2>1, <2>2 DEF Passes
<1>2. CASE Get(c)
  <2> DEFINE s == [r EXCEPT !.fresh = TRUE]
  <2>1. s \in Record /\ s.cluster = r.cluster /\ s.expects = r.expects
    BY <1>0 DEF Record
  <2>2. Goto(c, s, "update") /\ r.pc # "idle" /\ UNCHANGED <<switchVars, statusVars, reportVars>>
    BY <1>2 DEF Get, At
  <2> HIDE DEF s
  <2> QED BY <1>1, <2>1, <2>2 DEF Stage
<1>3. CASE Create(c) /\ configMap # "absent"
  <2>1. Goto(c, r, "get") /\ r.pc # "idle" /\ UNCHANGED <<switchVars, statusVars, reportVars>>
    BY <1>3 DEF Create, At, switchVars
  <2> QED BY <1>0, <1>1, <2>1 DEF Stage
<1> QED BY <1>2, <1>3

-----------------------------------------------------------------------------
(* Each kind of step keeps the invariant.                                  *)

LEMMA InitInv == Init => DashboardInv
<1> SUFFICES ASSUME Init PROVE DashboardInv
  OBVIOUS
<1>1. /\ Idle \in Record /\ Idle.pc = "idle" /\ Idle.expects = "none"
      /\ \A c \in Tabs : req[c] = Idle
  BY FreshTypes DEF Init, Idle, Fresh
<1>2. DashboardTypeOK
  <2>1. row \in [Clusters -> Answer] /\ since \in [Position -> 0..Horizon]
        /\ sinceHad \in [Clusters -> 0..Horizon]
    BY Numbers DEF Init, Answer, Position
  <2>2. status \in [Clusters -> [left : 0..TTL, answer : Answer, fromLive : BOOLEAN]]
    BY Numbers DEF Init, NoCache, NoStatus, Answer
  <2>3. /\ report \in [Clusters -> [has : BOOLEAN, days : 0..MinDays]]
        /\ rollup \in [Clusters -> [left : 0..TTL, has : BOOLEAN, days : 0..MinDays]]
    BY Numbers DEF Init, NoRollup
  <2> QED BY <1>1, <2>1, <2>2, <2>3 DEF Init, DashboardTypeOK, Answer
<1>3. ClustersKnown /\ ReadsRecent /\ AnswersRecent /\ ToggleShown /\ FindingsRecent
  BY <1>1 DEF ClustersKnown, ReadsRecent, AnswersRecent, Shows, ToggleShown, FindingsRecent, At
<1>4. SwitchIsNow
  BY DEF Init, SwitchIsNow, Switch, Position
<1>5. CacheRecent /\ RollupRecent /\ ReportIsNow
  BY DEF Init, NoCache, NoStatus, NoRollup, Live, CacheRecent, RollupRecent, ReportIsNow
<1>6. PromisesKept /\ NothingOld
  BY <1>1 DEF Init, PromisesKept, NothingOld, Promised
<1> QED BY <1>2, <1>3, <1>4, <1>5, <1>6 DEF DashboardInv

LEMMA PassesKeep ==
  ASSUME DashboardInv, NEW c \in Tabs, Passes(c)
  PROVE  DashboardInv'
<1> DEFINE s == req'[c]
           k == s.cluster
<1> USE DEF DashboardInv
<1>0. /\ UNCHANGED <<configMap, since, acked, row, status, report, rollup, sinceHad>>
      /\ Switch' = Switch
      /\ s \in Record
      /\ \A d \in Tabs \ {c} : req'[d] = req[d]
  BY DEF Passes, switchVars, statusVars, reportVars, Switch
<1>1. DashboardTypeOK'
  BY <1>0 DEF Passes, DashboardTypeOK
<1>2. ClustersKnown' /\ SwitchIsNow' /\ CacheRecent' /\ ReportIsNow' /\ RollupRecent'
  BY <1>0 DEF Passes, ClustersKnown, SwitchIsNow, CacheRecent, ReportIsNow, RollupRecent, Live, At
<1>3. since \in [Position -> Nat] /\ sinceHad \in [Clusters -> Nat] /\ s.age \in Nat
      /\ Switch \in Position
  BY <1>0, Numbers DEF DashboardTypeOK, Record, Switch, Position
<1>4. ReadsRecent'
  <2>1. s.pc = "lookup" => s.live = "pending"
    BY DEF Passes
  <2>2. s.pc = "load" /\ s.live \in Position => since[s.live] <= s.age
    BY <1>3 DEF Passes, ReadsRecent, SwitchIsNow, Position, At
  <2> QED BY <1>0, <2>1, <2>2 DEF ReadsRecent, At
<1>5. AnswersRecent'
  <2>1. ASSUME s.pc = "reply", s.fromLive, s.answer # "none"
        PROVE  since[s.answer] <= TTL + Limit + s.age
    <3>1. k \in Clusters /\ Live(status[k]) /\ s.answer = status[k].answer
      BY <2>1 DEF Passes, Live
    <3>2. status[k].left \in Nat /\ since[s.answer] <= TTL - status[k].left + Limit
      BY <3>1 DEF CacheRecent, DashboardTypeOK
    <3>3. s.answer \in Position
      BY <3>1, <2>1 DEF DashboardTypeOK, Answer
    <3> QED BY <1>3, <3>2, <3>3, Numbers
  <2> QED BY <1>0, <2>1 DEF AnswersRecent, Shows, At
<1>6. PromisesKept'
  BY <1>0 DEF PromisesKept, Passes
<1>7. Promised' => Promised
  BY <1>0 DEF Promised, Passes
<1>8. NothingOld'
  <2>1. ASSUME Promised', s.pc = "load" PROVE s.live # Other(Switch)
    BY <1>7, <2>1 DEF NothingOld, NoLateCacher, Passes, Other, Switch, At
  <2> QED BY <1>0, <1>7, <2>1 DEF NothingOld, NoLateCacher, At
<1>9. ToggleShown'
  <2>1. ASSUME s.pc = "reply", s.fromLive, s.answer # "none", s.expects # "none"
        PROVE  s.answer = s.expects
    <3>1. k \in Clusters /\ Live(status[k]) /\ s.answer = status[k].answer
      BY <2>1 DEF Passes, Live
    <3>2. Promised /\ s.expects = Switch
      BY <2>1 DEF Promised, Passes, PromisesKept
    <3> QED BY <3>1, <3>2 DEF NothingOld
  <2> QED BY <1>0, <2>1 DEF ToggleShown, At
<1>10. FindingsRecent'
  <2>1. ASSUME s.pc = "recs"
        PROVE  s.days <= report[k].days /\ (s.has => sinceHad[k] <= s.age)
    <3>1. k \in Clusters /\ s.days <= report[k].days /\ s.has = report[k].has
      BY <2>1 DEF Passes
    <3> QED BY <1>3, <3>1 DEF ReportIsNow
  <2>2. ASSUME s.pc = "decide"
        PROVE  s.days <= report[k].days /\ (s.has => sinceHad[k] <= TTL + Limit + s.age)
    <3>1. k \in Clusters /\ rollup[k].left > 0 /\ s.has = rollup[k].has /\ s.days = rollup[k].days
      BY <2>2 DEF Passes
    <3>2. rollup[k].left \in Nat /\ sinceHad[k] \in Nat
      BY <1>3, <3>1 DEF DashboardTypeOK
    <3>3. s.days <= report[k].days /\ (s.has => sinceHad[k] <= TTL - rollup[k].left + Limit)
      BY <3>1 DEF RollupRecent
    <3> QED BY <1>3, <3>2, <3>3, Numbers
  <2> QED BY <1>0, <2>1, <2>2 DEF FindingsRecent, At
<1> QED BY <1>1, <1>2, <1>4, <1>5, <1>6, <1>8, <1>9, <1>10

LEMMA WritesKeep ==
  ASSUME DashboardInv, Writes
  PROVE  DashboardInv'
<1> USE DEF DashboardInv
<1>0. /\ UNCHANGED <<row, status, report, rollup, sinceHad>>
      /\ req' \in [Tabs -> Record] /\ acked' \in Answer
      /\ Switch' \in Position /\ Switch \in Position
  BY DEF Writes, statusVars, reportVars, DashboardTypeOK, Answer, Switch, Position
<1>1. /\ since' \in [Position -> 0..Horizon]
      /\ \A v \in Position : since'[v] \in Nat /\ since[v] \in Nat /\ since'[v] <= since[v]
      /\ since'[Switch'] = 0
  BY <1>0, Numbers DEF Writes, DashboardTypeOK
<1>2. DashboardTypeOK'
  BY <1>0, <1>1 DEF Writes, DashboardTypeOK
<1>3. ClustersKnown' /\ SwitchIsNow' /\ ReportIsNow' /\ RollupRecent'
  BY <1>0, <1>1 DEF Writes, ClustersKnown, SwitchIsNow, ReportIsNow, RollupRecent, At
<1>4. \A k \in Clusters : Live(status[k]) => status[k].answer \in Position
  BY DEF Live, DashboardTypeOK, Answer
<1>5. CacheRecent'
  BY <1>0, <1>1, <1>4, Numbers DEF CacheRecent, DashboardTypeOK, Live
<1>6. ReadsRecent'
  <2> SUFFICES ASSUME NEW d \in Tabs
               PROVE  /\ At(d, "lookup")' => req'[d].live = "pending"
                      /\ At(d, "load")' /\ req'[d].live \in Position
                           => since'[req'[d].live] <= req'[d].age
    BY DEF ReadsRecent
  <2>1. req[d].age \in Nat
    BY Numbers DEF DashboardTypeOK, Record
  <2> QED BY <1>1, <2>1 DEF Writes, ReadsRecent, At
<1>7. AnswersRecent'
  <2> SUFFICES ASSUME NEW d \in Tabs, Shows(d)'
               PROVE  since'[req'[d].answer] <= TTL + Limit + req'[d].age
    BY DEF AnswersRecent
  <2>1. req[d].age \in Nat /\ req[d].answer \in Answer
    BY Numbers DEF DashboardTypeOK, Record
  <2> QED BY <1>1, <2>1, Numbers DEF Writes, AnswersRecent, Shows, At, Answer
<1>8. PromisesKept'
  BY <1>0 DEF Writes, PromisesKept
<1>9. Promised' => Promised /\ Switch' = Switch
  BY DEF Promised, Writes
<1>10. NothingOld'
  <2> SUFFICES ASSUME Promised'
               PROVE  /\ NoLateCacher(Switch)'
                      /\ \A k \in Clusters : Live(status'[k]) => status'[k].answer = Switch'
    BY DEF NothingOld
  <2>1. NoLateCacher(Switch) /\ Switch' = Switch
    BY <1>9 DEF NothingOld
  <2> QED BY <1>0, <1>9, <2>1 DEF NothingOld, NoLateCacher, Writes, At
<1>11. ToggleShown'
  BY DEF Writes, ToggleShown, At
<1>12. FindingsRecent'
  BY <1>0 DEF Writes, FindingsRecent, At
<1> QED BY <1>2, <1>3, <1>5, <1>6, <1>7, <1>8, <1>10, <1>11, <1>12

\* A poll answers with what it read, and caches that.
LEMMA MergeKeeps ==
  ASSUME DashboardInv, NEW c \in Tabs, Merge(c)
  PROVE  DashboardInv'
<1> DEFINE r == req[c]
           live == r.live # "none"
           k == r.cluster
           s == [r EXCEPT !.live = "pending", !.row = "pending",
                          !.answer = Merged(r), !.fromLive = live]
<1> USE DEF DashboardInv
<1>0. /\ UNCHANGED <<configMap, since, acked, row, report, rollup, sinceHad>>
      /\ Switch' = Switch /\ Switch \in Position
      /\ req \in [Tabs -> Record] /\ r \in Record /\ r.pc = "load" /\ k \in Clusters
      /\ r.live # "pending" /\ r.row # "pending"
  BY DEF Merge, switchVars, reportVars, DashboardTypeOK, ClustersKnown, Switch, Position, At
<1>1. /\ Merged(r) \in Answer
      /\ Merged(r) # "none" /\ live => Merged(r) = r.live /\ r.live \in Position
  BY <1>0 DEF Merged, Record, Answer
<1>2. /\ s \in Record /\ s.cluster = k /\ s.expects = r.expects /\ s.answer = Merged(r)
      /\ s.fromLive = live /\ s.age = r.age
  BY <1>0, <1>1 DEF Record, Answer
<1>3. Goto(c, s, "reply")
  BY DEF Merge
<1> DEFINE entry == [left |-> TTL, answer |-> Merged(r), fromLive |-> live]
<1>4. status' = status \/ status' = [status EXCEPT ![k] = entry]
  BY DEF Merge
<1> HIDE DEF s
<1>5. /\ req' \in [Tabs -> Record]
      /\ req'[c] = [s EXCEPT !.pc = "reply"]
      /\ \A d \in Tabs \ {c} : req'[d] = req[d]
  BY <1>0, <1>2, <1>3, GotoEffect DEF Stage
<1>6. /\ req'[c].pc = "reply" /\ req'[c].cluster = k /\ req'[c].expects = r.expects
      /\ req'[c].answer = Merged(r) /\ req'[c].fromLive = live /\ req'[c].age = r.age
  BY <1>2, <1>5 DEF Record
<1>7. /\ entry \in [left : 0..TTL, answer : Answer, fromLive : BOOLEAN]
      /\ entry.left = TTL /\ entry.answer = Merged(r) /\ entry.fromLive = live
  BY <1>1, Numbers
<1> HIDE DEF entry
<1>8. /\ status' \in [Clusters -> [left : 0..TTL, answer : Answer, fromLive : BOOLEAN]]
      /\ \A m \in Clusters : status'[m] = status[m] \/ (m = k /\ status'[m] = entry)
  BY <1>0, <1>4, <1>7, SMTT(30) DEF DashboardTypeOK
<1>9. r.age \in 0..Limit /\ since \in [Position -> Nat]
  BY <1>0, Numbers DEF Record, DashboardTypeOK
<1>10. Merged(r) # "none" /\ live => since[Merged(r)] <= r.age
  BY <1>0, <1>1 DEF ReadsRecent, At
<1>11. DashboardTypeOK'
  BY <1>0, <1>5, <1>8 DEF DashboardTypeOK
<1>12. ClustersKnown' /\ SwitchIsNow' /\ ReadsRecent' /\ ReportIsNow' /\ RollupRecent'
       /\ FindingsRecent' /\ PromisesKept'
  BY <1>0, <1>5, <1>6, ZenonT(40)
     DEF ClustersKnown, SwitchIsNow, ReadsRecent, ReportIsNow, RollupRecent, FindingsRecent,
         PromisesKept, At
<1>13. AnswersRecent'
  <2>1. Merged(r) # "none" /\ live => since[Merged(r)] <= TTL + Limit + r.age
    BY <1>1, <1>9, <1>10, Numbers
  <2> QED BY <1>0, <1>5, <1>6, <2>1 DEF AnswersRecent, Shows, At
<1>14. CacheRecent'
  <2>1. Live(entry) => since[entry.answer] <= TTL - entry.left + Limit
    BY <1>1, <1>7, <1>9, <1>10, Numbers DEF Live
  <2> QED BY <1>0, <1>8, <2>1 DEF CacheRecent
<1>15. Promised' => Promised
  <2>1. \A d \in Tabs : req'[d].expects = req[d].expects
    BY <1>5, <1>6
  <2> QED BY <1>0, <2>1 DEF Promised
<1>16. Promised /\ Merged(r) # "none" /\ live => Merged(r) = Switch
  BY <1>0, <1>1 DEF NothingOld, NoLateCacher, Other, Switch, Position, At
<1>17. NothingOld'
  <2>1. Promised => \A m \in Clusters : Live(status'[m]) => status'[m].answer = Switch
    BY <1>7, <1>8, <1>16 DEF NothingOld, Live
  <2>2. Promised => NoLateCacher(Switch)'
    BY <1>0, <1>5, <1>6 DEF NothingOld, NoLateCacher, At
  <2> QED BY <1>0, <1>15, <2>1, <2>2 DEF NothingOld
<1>18. ToggleShown'
  <2>1. live /\ Merged(r) # "none" /\ r.expects # "none" => Merged(r) = r.expects
    BY <1>16 DEF Promised, PromisesKept
  <2>2. ASSUME NEW d \in Tabs, d # c
        PROVE  At(d, "reply") /\ req[d].fromLive /\ req[d].answer # "none" /\ req[d].expects # "none"
                 => req[d].answer = req[d].expects
    BY DEF ToggleShown
  <2> QED BY <1>5, <1>6, <2>1, <2>2, ZenonT(40) DEF ToggleShown, At
<1> QED BY <1>11, <1>12, <1>13, <1>14, <1>17, <1>18

\* A toggle is acknowledged once the whole cache is dropped.
LEMMA InvalidateKeeps ==
  ASSUME DashboardInv, NEW c \in Tabs, Invalidate(c)
  PROVE  DashboardInv'
<1> USE DEF DashboardInv
<1>0. /\ UNCHANGED <<configMap, since, row, report, rollup, sinceHad>>
      /\ Switch' = Switch /\ Switch \in Position
      /\ req \in [Tabs -> Record] /\ Done(c) /\ status' = NoCache
      /\ acked' = IF Switch = req[c].want /\ NoLateCacher(Switch) THEN Switch ELSE "none"
  BY DEF Invalidate, reportVars, DashboardTypeOK, Switch, Position, Dropped
<1>1. /\ req' \in [Tabs -> Record]
      /\ req'[c].pc = "idle" /\ req'[c].expects = "none"
      /\ \A d \in Tabs \ {c} : req'[d] = req[d]
  BY <1>0, DoneEffect
<1>2. /\ status' \in [Clusters -> [left : 0..TTL, answer : Answer, fromLive : BOOLEAN]]
      /\ \A k \in Clusters : status'[k].left = 0
  BY <1>0, Numbers DEF NoCache, NoStatus, Answer
<1>3. DashboardTypeOK'
  BY <1>0, <1>1, <1>2 DEF DashboardTypeOK, Answer
<1>4. /\ ClustersKnown' /\ SwitchIsNow' /\ ReadsRecent' /\ AnswersRecent' /\ ToggleShown'
      /\ ReportIsNow' /\ RollupRecent' /\ FindingsRecent'
  BY <1>0, <1>1
     DEF ClustersKnown, SwitchIsNow, ReadsRecent, AnswersRecent, Shows, ToggleShown,
         ReportIsNow, RollupRecent, FindingsRecent, At
<1>5. CacheRecent'
  BY <1>2 DEF CacheRecent, Live
<1>6. PromisesKept'
  BY <1>0, <1>1 DEF PromisesKept
<1>7. NothingOld'
  <2>1. Promised' => NoLateCacher(Switch)
    BY <1>0, <1>1 DEF Promised, NothingOld
  <2>2. NoLateCacher(Switch) => NoLateCacher(Switch)'
    BY <1>0, <1>1 DEF NoLateCacher, At
  <2> QED BY <1>2, <2>1, <2>2 DEF NothingOld, Live
<1> QED BY <1>3, <1>4, <1>5, <1>6, <1>7

\* A request caches what it has read of the reports.
LEMMA LoadKeeps ==
  ASSUME DashboardInv, NEW c \in Tabs, LoadRecommendations(c)
  PROVE  DashboardInv'
<1> DEFINE k == req[c].cluster
<1> USE DEF DashboardInv
<1> PICK days \in {req[c].days, report[k].days} :
       LET r == [req[c] EXCEPT !.days = days] IN
       /\ rollup' = [rollup EXCEPT ![r.cluster] = [left |-> TTL, has |-> r.has, days |-> days]]
       /\ Decided(c, r)
  BY DEF LoadRecommendations
<1> DEFINE r == [req[c] EXCEPT !.days = days]
           entry == [left |-> TTL, has |-> r.has, days |-> days]
<1>0. /\ UNCHANGED <<configMap, since, acked, row, status, report, sinceHad>>
      /\ Switch' = Switch
      /\ req \in [Tabs -> Record] /\ req[c] \in Record /\ req[c].pc = "recs" /\ k \in Clusters
  BY DEF LoadRecommendations, switchVars, statusVars, DashboardTypeOK, ClustersKnown, Switch, At
<1>1. /\ days \in 0..MinDays /\ days <= report[k].days
      /\ report[k].days \in 0..MinDays
  BY <1>0, Numbers, SMTT(30) DEF DashboardTypeOK, Record, FindingsRecent, At
<1>2. /\ r \in Record /\ r.cluster = k /\ r.expects = req[c].expects /\ r.days = days
      /\ r.has = req[c].has /\ r.age = req[c].age
  BY <1>0, <1>1 DEF Record
<1>3. rollup' = [rollup EXCEPT ![k] = entry] /\ Decided(c, r)
  BY <1>2
<1> HIDE DEF r
<1>4. /\ entry \in [left : 0..TTL, has : BOOLEAN, days : 0..MinDays]
      /\ entry.left = TTL /\ entry.has = req[c].has /\ entry.days = days
  BY <1>0, <1>1, <1>2, Numbers DEF Record
<1> HIDE DEF entry
<1>5. /\ rollup' \in [Clusters -> [left : 0..TTL, has : BOOLEAN, days : 0..MinDays]]
      /\ rollup'[k] = entry /\ \A m \in Clusters \ {k} : rollup'[m] = rollup[m]
  BY <1>0, <1>3, <1>4 DEF DashboardTypeOK
<1>6. /\ req' \in [Tabs -> Record] /\ \A d \in Tabs \ {c} : req'[d] = req[d]
      /\ \/ req'[c].pc = "idle" /\ req'[c].expects = "none"
         \/ /\ req'[c].pc = "decide" /\ req'[c].cluster = k /\ req'[c].expects = req[c].expects
            /\ req'[c].has = req[c].has /\ req'[c].days = days /\ req'[c].age = req[c].age
  <2>1. CASE Done(c)
    BY <1>0, <2>1, DoneEffect
  <2>2. CASE Goto(c, r, "decide")
    <3>1. /\ req' \in [Tabs -> Record]
          /\ req'[c] = [r EXCEPT !.pc = "decide"]
          /\ \A d \in Tabs \ {c} : req'[d] = req[d]
      BY <1>0, <1>2, <2>2, GotoEffect DEF Stage
    <3> QED BY <1>2, <3>1 DEF Record
  <2> QED BY <1>3, <2>1, <2>2 DEF Decided
<1>7. req[c].age \in 0..Limit /\ sinceHad \in [Clusters -> Nat]
  BY <1>0, Numbers DEF Record, DashboardTypeOK
<1>8. req[c].has => sinceHad[k] <= req[c].age
  BY <1>0 DEF FindingsRecent, At
<1>9. DashboardTypeOK'
  BY <1>0, <1>5, <1>6 DEF DashboardTypeOK
<1>10. /\ ClustersKnown' /\ SwitchIsNow' /\ ReadsRecent' /\ CacheRecent' /\ AnswersRecent'
       /\ ToggleShown' /\ ReportIsNow' /\ PromisesKept'
  BY <1>0, <1>6
     DEF ClustersKnown, SwitchIsNow, ReadsRecent, CacheRecent, AnswersRecent, Shows, ToggleShown,
         ReportIsNow, PromisesKept, At
<1>11. NothingOld'
  <2>1. Promised' => Promised
    BY <1>0, <1>6 DEF Promised
  <2> QED BY <1>0, <1>6, <2>1 DEF NothingOld, NoLateCacher, At
<1>12. RollupRecent'
  <2>1. req[c].has => sinceHad[k] <= TTL - TTL + Limit
    BY <1>0, <1>7, <1>8, Numbers
  <2> QED BY <1>0, <1>1, <1>4, <1>5, <2>1 DEF RollupRecent
<1>13. FindingsRecent'
  <2>1. req[c].has => sinceHad[k] <= TTL + Limit + req[c].age
    BY <1>0, <1>7, <1>8, Numbers
  <2> QED BY <1>0, <1>1, <1>6, <2>1 DEF FindingsRecent, At
<1> QED BY <1>9, <1>10, <1>11, <1>12, <1>13

\* The engine writes rows, which the switch's history does not rest on.
LEMMA EngineKeeps ==
  ASSUME DashboardInv, NEW k \in Clusters, EngineWrites(k)
  PROVE  DashboardInv'
<1> USE DEF DashboardInv
<1>0. /\ UNCHANGED <<configMap, since, acked, status, report, rollup, sinceHad, req>>
      /\ Switch' = Switch
      /\ \E v \in Position : row' = [row EXCEPT ![k] = v]
  BY DEF EngineWrites, switchVars, reportVars, Switch
<1>1. DashboardTypeOK'
  BY <1>0 DEF DashboardTypeOK, Answer
<1>2. /\ ClustersKnown' /\ SwitchIsNow' /\ ReadsRecent' /\ CacheRecent' /\ AnswersRecent'
      /\ ToggleShown' /\ ReportIsNow' /\ PromisesKept' /\ RollupRecent' /\ FindingsRecent'
  BY <1>0
     DEF ClustersKnown, SwitchIsNow, ReadsRecent, CacheRecent, AnswersRecent, Shows, ToggleShown,
         ReportIsNow, PromisesKept, RollupRecent, FindingsRecent, At
<1>3. NothingOld'
  BY <1>0 DEF NothingOld, NoLateCacher, Promised, At
<1> QED BY <1>1, <1>2, <1>3

\* A report never takes sightings back.
LEMMA ReportKeeps ==
  ASSUME DashboardInv, NEW k \in Clusters, NewReport(k)
  PROVE  DashboardInv'
<1> USE DEF DashboardInv
<1> PICK has \in BOOLEAN, days \in report[k].days..MinDays :
       /\ report' = [report EXCEPT ![k] = [has |-> has, days |-> days]]
       /\ sinceHad' = IF has THEN [sinceHad EXCEPT ![k] = 0] ELSE sinceHad
  BY DEF NewReport
<1> DEFINE latest == [has |-> has, days |-> days]
<1>0. /\ UNCHANGED <<configMap, since, acked, row, status, rollup, req>>
      /\ Switch' = Switch
  BY DEF NewReport, switchVars, statusVars, Switch
<1>1. report[k].days \in 0..MinDays /\ days \in 0..MinDays /\ report[k].days <= days
  BY Numbers DEF DashboardTypeOK
<1>2. latest \in [has : BOOLEAN, days : 0..MinDays] /\ latest.has = has /\ latest.days = days
  BY <1>1
<1> HIDE DEF latest
<1>3. /\ report' \in [Clusters -> [has : BOOLEAN, days : 0..MinDays]]
      /\ report'[k] = latest /\ \A m \in Clusters \ {k} : report'[m] = report[m]
  BY <1>2 DEF DashboardTypeOK, latest
<1>4. /\ sinceHad' \in [Clusters -> 0..Horizon]
      /\ \A m \in Clusters : sinceHad'[m] = sinceHad[m] \/ sinceHad'[m] = 0
      /\ has => sinceHad'[k] = 0
      /\ \A m \in Clusters \ {k} : sinceHad'[m] = sinceHad[m]
  BY Numbers DEF DashboardTypeOK
<1>5. \A m \in Clusters : report[m].days <= report'[m].days /\ report[m].days \in Nat
                          /\ report'[m].days \in Nat
  BY <1>1, <1>2, <1>3, Numbers DEF DashboardTypeOK
<1>6. \A m \in Clusters : sinceHad[m] \in Nat /\ sinceHad'[m] \in Nat /\ sinceHad'[m] <= sinceHad[m]
  BY <1>4, Numbers DEF DashboardTypeOK
<1>7. DashboardTypeOK'
  BY <1>0, <1>3, <1>4 DEF DashboardTypeOK
<1>8. /\ ClustersKnown' /\ SwitchIsNow' /\ ReadsRecent' /\ CacheRecent' /\ AnswersRecent'
      /\ ToggleShown' /\ PromisesKept'
  BY <1>0
     DEF ClustersKnown, SwitchIsNow, ReadsRecent, CacheRecent, AnswersRecent, Shows, ToggleShown,
         PromisesKept, At
<1>9. NothingOld'
  BY <1>0 DEF NothingOld, NoLateCacher, Promised, At
<1>10. ReportIsNow'
  BY <1>2, <1>3, <1>4 DEF ReportIsNow
<1>11. RollupRecent'
  <2> SUFFICES ASSUME NEW m \in Clusters, rollup[m].left > 0
               PROVE  /\ rollup[m].days <= report'[m].days
                      /\ rollup[m].has => sinceHad'[m] <= TTL - rollup[m].left + Limit
    BY <1>0 DEF RollupRecent
  <2>1. rollup[m].left \in Nat /\ rollup[m].days \in Nat
    BY Numbers DEF DashboardTypeOK
  <2> QED BY <1>5, <1>6, <2>1, Numbers DEF RollupRecent
<1>12. FindingsRecent'
  <2> SUFFICES ASSUME NEW d \in Tabs, NEW m \in Clusters, m = req[d].cluster
               PROVE  /\ At(d, "recs") \/ At(d, "decide") => req[d].days <= report'[m].days
                      /\ At(d, "recs") /\ req[d].has => sinceHad'[m] <= req[d].age
                      /\ At(d, "decide") /\ req[d].has => sinceHad'[m] <= TTL + Limit + req[d].age
    BY <1>0 DEF FindingsRecent, ClustersKnown, At
  <2>1. req[d].age \in Nat /\ req[d].days \in Nat
    BY Numbers DEF DashboardTypeOK, Record
  <2>2. /\ At(d, "recs") \/ At(d, "decide") => req[d].days <= report[m].days
        /\ At(d, "recs") /\ req[d].has => sinceHad[m] <= req[d].age
        /\ At(d, "decide") /\ req[d].has => sinceHad[m] <= TTL + Limit + req[d].age
    BY DEF FindingsRecent
  <2>3. report[m].days <= report'[m].days /\ report[m].days \in Nat /\ report'[m].days \in Nat
        /\ sinceHad[m] \in Nat /\ sinceHad'[m] \in Nat /\ sinceHad'[m] <= sinceHad[m]
    BY <1>5, <1>6
  <2> QED BY <2>1, <2>2, <2>3, Numbers
<1> QED BY <1>7, <1>8, <1>9, <1>10, <1>11, <1>12

\* A tick ages the requests, the entries and what is remembered of the switch and
\* of the findings, all alike.
LEMMA TickKeeps ==
  ASSUME DashboardInv, Tick
  PROVE  DashboardInv'
<1> USE DEF DashboardInv
<1>0. /\ UNCHANGED <<configMap, acked, row, report>> /\ Switch' = Switch /\ Switch \in Position
      /\ req \in [Tabs -> Record]
  BY DEF Tick, Switch, DashboardTypeOK, Position
<1>1. /\ req' \in [Tabs -> Record]
      /\ \A c \in Tabs :
           LET r == req[c]
               s == req'[c] IN
           \/ s = r /\ r.pc = "idle"
           \/ /\ s.age = r.age + 1 /\ s.pc = r.pc /\ s.cluster = r.cluster /\ s.live = r.live
              /\ s.answer = r.answer /\ s.fromLive = r.fromLive /\ s.expects = r.expects
              /\ s.has = r.has /\ s.days = r.days
  <2> DEFINE After(c) == IF At(c, "idle") THEN req[c] ELSE [req[c] EXCEPT !.age = @ + 1]
  <2>1. ASSUME NEW c \in Tabs
        PROVE  /\ After(c) \in Record
               /\ LET r == req[c]
                      s == After(c) IN
                  \/ s = r /\ r.pc = "idle"
                  \/ /\ s.age = r.age + 1 /\ s.pc = r.pc /\ s.cluster = r.cluster
                     /\ s.live = r.live /\ s.answer = r.answer /\ s.fromLive = r.fromLive
                     /\ s.expects = r.expects /\ s.has = r.has /\ s.days = r.days
    <3>1. CASE At(c, "idle")
      BY <1>0, <3>1 DEF At
    <3>2. CASE ~At(c, "idle")
      <4>1. req[c] \in Record /\ req[c].age + 1 \in 0..Limit
        BY <1>0, <3>2, Numbers DEF Tick, Record
      <4> QED BY <3>2, <4>1 DEF Record
    <3> QED BY <3>1, <3>2
  <2>2. req' = [c \in Tabs |-> After(c)]
    BY DEF Tick
  <2> HIDE DEF After
  <2>3. req' \in [Tabs -> Record] /\ \A c \in Tabs : req'[c] = After(c)
    BY <2>1, <2>2
  <2> QED BY <2>1, <2>3
<1>2. /\ since' \in [Position -> 0..Horizon] /\ since'[Switch] = 0
      /\ \A v \in Position : since[v] \in Nat /\ since'[v] \in Nat /\ since'[v] <= since[v] + 1
  BY <1>0, Numbers DEF Tick, DashboardTypeOK
<1>3. /\ sinceHad' \in [Clusters -> 0..Horizon]
      /\ \A k \in Clusters : /\ sinceHad[k] \in Nat /\ sinceHad'[k] \in Nat
                             /\ sinceHad'[k] <= sinceHad[k] + 1
                             /\ report[k].has => sinceHad'[k] = 0
  BY Numbers DEF Tick, DashboardTypeOK
<1>4. /\ status' \in [Clusters -> [left : 0..TTL, answer : Answer, fromLive : BOOLEAN]]
      /\ \A k \in Clusters : /\ status'[k].left = Left(status[k].left)
                             /\ status'[k].answer = status[k].answer
                             /\ status'[k].fromLive = status[k].fromLive
  <2> DEFINE Entry1(k) == [status[k] EXCEPT !.left = Left(@)]
  <2>1. ASSUME NEW k \in Clusters
        PROVE  /\ Entry1(k) \in [left : 0..TTL, answer : Answer, fromLive : BOOLEAN]
               /\ Entry1(k).left = Left(status[k].left)
               /\ Entry1(k).answer = status[k].answer /\ Entry1(k).fromLive = status[k].fromLive
    BY Numbers DEF DashboardTypeOK
  <2>2. status' = [k \in Clusters |-> Entry1(k)]
    BY DEF Tick
  <2> HIDE DEF Entry1
  <2> QED BY <2>1, <2>2
<1>5. /\ rollup' \in [Clusters -> [left : 0..TTL, has : BOOLEAN, days : 0..MinDays]]
      /\ \A k \in Clusters : /\ rollup'[k].left = Left(rollup[k].left)
                             /\ rollup'[k].has = rollup[k].has
                             /\ rollup'[k].days = rollup[k].days
  <2> DEFINE Entry1(k) == [rollup[k] EXCEPT !.left = Left(@)]
  <2>1. ASSUME NEW k \in Clusters
        PROVE  /\ Entry1(k) \in [left : 0..TTL, has : BOOLEAN, days : 0..MinDays]
               /\ Entry1(k).left = Left(rollup[k].left)
               /\ Entry1(k).has = rollup[k].has /\ Entry1(k).days = rollup[k].days
    BY Numbers DEF DashboardTypeOK
  <2>2. rollup' = [k \in Clusters |-> Entry1(k)]
    BY DEF Tick
  <2> HIDE DEF Entry1
  <2> QED BY <2>1, <2>2
<1>6. DashboardTypeOK'
  BY <1>0, <1>1, <1>2, <1>3, <1>4, <1>5 DEF DashboardTypeOK
<1>7. ClustersKnown' /\ SwitchIsNow' /\ ReportIsNow' /\ PromisesKept' /\ ToggleShown'
  BY <1>0, <1>1, <1>2, <1>3
     DEF ClustersKnown, SwitchIsNow, ReportIsNow, PromisesKept, ToggleShown, At
<1>8. \A c \in Tabs : req[c].age \in Nat
  BY <1>0, Numbers DEF Record
<1>9. ReadsRecent'
  <2> SUFFICES ASSUME NEW c \in Tabs
               PROVE  /\ At(c, "lookup")' => req'[c].live = "pending"
                      /\ At(c, "load")' /\ req'[c].live \in Position
                           => since'[req'[c].live] <= req'[c].age
    BY DEF ReadsRecent
  <2>1. At(c, "load") /\ req[c].live \in Position => since'[req[c].live] <= req[c].age + 1
    BY <1>2, <1>8 DEF ReadsRecent
  <2> QED BY <1>1, <2>1 DEF ReadsRecent, At
<1>10. AnswersRecent'
  <2> SUFFICES ASSUME NEW c \in Tabs, Shows(c)'
               PROVE  since'[req'[c].answer] <= TTL + Limit + req'[c].age
    BY DEF AnswersRecent
  <2>1. Shows(c) /\ req'[c].answer = req[c].answer /\ req'[c].age = req[c].age + 1
    BY <1>1 DEF Shows, At
  <2>2. req[c].answer \in Position
    BY <1>0, <2>1 DEF Shows, Record, Answer
  <2>3. since[req[c].answer] <= TTL + Limit + req[c].age
    BY <2>1 DEF AnswersRecent
  <2> QED BY <1>2, <1>8, <2>1, <2>2, <2>3, Numbers
<1>11. CacheRecent'
  <2> SUFFICES ASSUME NEW k \in Clusters, Live(status'[k])
               PROVE  since'[status'[k].answer] <= TTL - status'[k].left + Limit
    BY DEF CacheRecent
  <2>1. /\ status[k].left \in 0..TTL /\ status'[k].left = Left(status[k].left)
        /\ status'[k].left > 0 /\ status'[k].answer = status[k].answer
        /\ status[k].answer \in Position /\ Live(status[k])
    BY <1>4, Numbers DEF Live, Left, DashboardTypeOK, Answer
  <2>2. since[status[k].answer] <= TTL - status[k].left + Limit
    BY <2>1 DEF CacheRecent
  <2>3. status'[k].left = status[k].left - 1
    BY <2>1, Numbers
  <2> QED BY <1>2, <2>1, <2>2, <2>3, Numbers
<1>12. NothingOld'
  <2>1. Promised' => Promised
    BY <1>0, <1>1 DEF Promised
  <2>2. \A k \in Clusters : Live(status'[k]) => Live(status[k])
    BY <1>4, Numbers DEF Live, Left, DashboardTypeOK
  <2> QED BY <1>0, <1>1, <1>4, <2>1, <2>2 DEF NothingOld, NoLateCacher, At
<1>13. RollupRecent'
  <2> SUFFICES ASSUME NEW k \in Clusters, rollup'[k].left > 0
               PROVE  /\ rollup'[k].days <= report[k].days
                      /\ rollup'[k].has => sinceHad'[k] <= TTL - rollup'[k].left + Limit
    BY <1>0 DEF RollupRecent
  <2>1. /\ rollup[k].left \in 0..TTL /\ rollup'[k].left = rollup[k].left - 1
        /\ rollup[k].left > 0
    BY <1>5, Numbers DEF Left, DashboardTypeOK
  <2>2. /\ rollup[k].days <= report[k].days
        /\ rollup[k].has => sinceHad[k] <= TTL - rollup[k].left + Limit
    BY <2>1 DEF RollupRecent
  <2> QED BY <1>3, <1>5, <2>1, <2>2, Numbers
<1>14. FindingsRecent'
  <2> SUFFICES ASSUME NEW c \in Tabs, NEW k \in Clusters, k = req'[c].cluster,
                      ~At(c, "idle"), req'[c].age = req[c].age + 1
               PROVE  /\ At(c, "recs") \/ At(c, "decide") => req[c].days <= report[k].days
                      /\ At(c, "recs") /\ req[c].has => sinceHad'[k] <= req'[c].age
                      /\ At(c, "decide") /\ req[c].has => sinceHad'[k] <= TTL + Limit + req'[c].age
    BY <1>0, <1>1, <1>7 DEF FindingsRecent, ClustersKnown, At
  <2>1. k = req[c].cluster
    BY <1>1 DEF At
  <2>2. /\ At(c, "recs") \/ At(c, "decide") => req[c].days <= report[k].days
        /\ At(c, "recs") /\ req[c].has => sinceHad[k] <= req[c].age
        /\ At(c, "decide") /\ req[c].has => sinceHad[k] <= TTL + Limit + req[c].age
    BY <2>1 DEF FindingsRecent
  <2>3. sinceHad[k] \in Nat /\ sinceHad'[k] \in Nat /\ sinceHad'[k] <= sinceHad[k] + 1
        /\ req[c].age \in Nat
    BY <1>3, <1>8
  <2> QED BY <2>2, <2>3, Numbers
<1> QED BY <1>6, <1>7, <1>9, <1>10, <1>11, <1>12, <1>13, <1>14

LEMMA StutterKeeps ==
  ASSUME DashboardInv, UNCHANGED vars
  PROVE  DashboardInv'
<1>0. /\ UNCHANGED <<configMap, since, acked, row, status, report, rollup, sinceHad, req>>
      /\ Switch' = Switch
  BY DEF vars, Switch
<1>1. /\ DashboardTypeOK' /\ ClustersKnown' /\ SwitchIsNow' /\ ReadsRecent' /\ CacheRecent'
      /\ AnswersRecent' /\ ToggleShown' /\ ReportIsNow' /\ PromisesKept' /\ RollupRecent'
      /\ FindingsRecent'
  BY <1>0
     DEF DashboardInv, DashboardTypeOK, ClustersKnown, SwitchIsNow, ReadsRecent, CacheRecent,
         AnswersRecent, Shows, ToggleShown, ReportIsNow, PromisesKept, RollupRecent,
         FindingsRecent, At
<1>2. NothingOld'
  BY <1>0 DEF DashboardInv, NothingOld, NoLateCacher, Promised, At
<1> QED BY <1>1, <1>2 DEF DashboardInv

LEMMA InvStep == DashboardInv /\ [Next]_vars => DashboardInv'
<1> SUFFICES ASSUME DashboardInv, [Next]_vars
             PROVE  DashboardInv'
  OBVIOUS
<1>1. ASSUME NEW c \in Tabs, BeginAny(c) \/ Step(c)
      PROVE  DashboardInv'
  <2>1. CASE \/ BeginAny(c) \/ CacheHit(c) \/ CacheMiss(c) \/ ReadLiveHalt(c)
             \/ LoadEngineStatus(c) \/ Reply(c) \/ Fail(c)
    BY <2>1, PollsPass, PassesKeep
  <2>2. CASE RollupHit(c) \/ QueryReports(c) \/ Dispatch(c)
    BY <2>2, RemediesPass, PassesKeep
  <2>3. CASE Get(c) \/ (Create(c) /\ configMap # "absent")
    BY <2>3, TogglesPass, PassesKeep
  <2>4. CASE Update(c) \/ Delete(c) \/ WriteUnanswered(c) \/ (Create(c) /\ configMap = "absent")
    BY <2>4, WritersWrite, WritesKeep
  <2>5. CASE Merge(c)
    BY <2>5, MergeKeeps
  <2>6. CASE Invalidate(c)
    BY <2>6, InvalidateKeeps
  <2>7. CASE LoadRecommendations(c)
    BY <2>7, LoadKeeps
  <2> QED BY <1>1, <2>1, <2>2, <2>3, <2>4, <2>5, <2>6, <2>7 DEF Step, Poll, Toggle, Remedy
<1>2. ASSUME NEW value \in {"absent", "true", "other"}, Kubectl(value)
      PROVE  DashboardInv'
  BY <1>2, WritersWrite, WritesKeep
<1>3. ASSUME NEW k \in Clusters, EngineWrites(k) \/ NewReport(k)
      PROVE  DashboardInv'
  BY <1>3, EngineKeeps, ReportKeeps
<1>4. CASE Tick
  BY <1>4, TickKeeps
<1>5. CASE UNCHANGED vars
  BY <1>5, StutterKeeps
<1> QED BY <1>1, <1>2, <1>3, <1>4, <1>5 DEF Next

-----------------------------------------------------------------------------
(* Theorems.                                                               *)

\* Everything the caches, the requests and the histories say of one another stays
\* so, whatever tabs, kubectl, the engine and the clock do (engineStatusFor,
\* handleHalt, remediationFor and the caches they share).
THEOREM DashboardInvariance == Spec => []DashboardInv
BY InitInv, InvStep, PTL DEF Spec

\* Requests, caches, rows and the switch stay within their types.
THEOREM DashboardTyped == Spec => []DashboardTypeOK
<1>1. DashboardInv => DashboardTypeOK
  BY DEF DashboardInv
<1> QED BY <1>1, DashboardInvariance, PTL

\* A status from a live read is never older than the expiry of the cache and the
\* deadlines of two requests, for any expiry and any deadline.
THEOREM StatusesBounded == Spec => []StatusBounded
<1>1. DashboardInv => StatusBounded
  <2> SUFFICES ASSUME DashboardInv, NEW c \in Tabs, Shows(c)
               PROVE  since[req[c].answer] <= TTL + 2 * Limit
    BY DEF StatusBounded, Shows
  <2>1. since[req[c].answer] <= TTL + Limit + req[c].age
    BY DEF DashboardInv, AnswersRecent
  <2>2. req[c].age \in 0..Limit /\ req[c].answer \in Position
    BY DEF DashboardInv, DashboardTypeOK, Record, Shows, Answer
  <2>3. since[req[c].answer] \in Nat
    BY <2>2, Numbers DEF DashboardInv, DashboardTypeOK
  <2> QED BY <2>1, <2>2, <2>3, Numbers
<1> QED BY <1>1, DashboardInvariance, PTL

\* A poll that begins after a toggle was acknowledged shows its position as long
\* as the switch keeps it, on every cluster, unless an older poll was under way.
THEOREM TogglesShown == Spec => []ToggleShown
<1>1. DashboardInv => ToggleShown
  BY DEF DashboardInv
<1> QED BY <1>1, DashboardInvariance, PTL

\* A remediation is dispatched only for a finding that has been observed for
\* MinDays and that a report had within the same bound (remediationFor).
THEOREM DispatchesCurrent == Spec => DispatchCurrent
<1> DEFINE Current ==
      \A c \in Tabs :
        Dispatch(c) =>
          LET k == req[c].cluster IN
          report[k].days >= MinDays /\ sinceHad[k] <= TTL + 2 * Limit
<1>1. DashboardInv => Current
  <2> SUFFICES ASSUME DashboardInv, NEW c \in Tabs, Dispatch(c), NEW k, k = req[c].cluster
               PROVE  report[k].days >= MinDays /\ sinceHad[k] <= TTL + 2 * Limit
    OBVIOUS
  <2>1. At(c, "decide") /\ req[c].has /\ req[c].days >= MinDays
    BY DEF Dispatch, Available
  <2>2. k \in Clusters /\ req[c].age \in 0..Limit /\ req[c].days \in Nat
    BY <2>1, Numbers DEF DashboardInv, DashboardTypeOK, ClustersKnown, Record, At
  <2>3. req[c].days <= report[k].days /\ sinceHad[k] <= TTL + Limit + req[c].age
    BY <2>1 DEF DashboardInv, FindingsRecent
  <2>4. report[k].days \in Nat /\ sinceHad[k] \in Nat
    BY <2>2, Numbers DEF DashboardInv, DashboardTypeOK
  <2> QED BY <2>1, <2>2, <2>3, <2>4, Numbers
<1>2. DashboardInv /\ [Next]_vars => [Current]_vars
  BY <1>1
<1> QED BY <1>2, DashboardInvariance, PTL DEF Spec, DispatchCurrent
=============================================================================
