--------------------------- MODULE Nudger_proofs ---------------------------
(***************************************************************************)
(* Type correctness of the consolidation pass, and its safety when runs do *)
(* not overlap, for any cluster, any limits and any outside actors; that   *)
(* it then implements CordonLease; and that what a drain rests on stays    *)
(* true while the cluster goes on: the list of pods and the gates the pass *)
(* was let through are old by the time it cordons and evicts.              *)
(***************************************************************************)
EXTENDS NudgerInvariant, Sums

-----------------------------------------------------------------------------
(* Types.                                                                  *)

LEMMA AgesInRange ==
  /\ StampMax \in Nat /\ ReapedMax \in Nat
  /\ MaxLag \in Nat /\ MaxLag <= StampMax /\ MaxLag <= ReapedMax
BY ConstantsAssumption DEF ConstantsAssumption, StampMax, ReapedMax

LEMMA OlderInRange ==
  ASSUME NEW top \in Nat, NEW age \in 0..top
  PROVE  Older(age, top) \in 0..top /\ Older(age, top) >= age
BY DEF Older

\* A run's state is typed when each field it changes is.
LEMMA BecomeType ==
  ASSUME TypeOK, NEW r \in Runs, NEW s \in RunState, Become(r, s)
  PROVE  run' \in [Runs -> RunState]
BY DEF TypeOK, Become

LEMMA WriteNodeType ==
  ASSUME TypeOK, NEW n, NEW o \in NodeObject, WriteNode(n, o)
  PROVE  node' \in [Nodes -> NodeObject] /\ copy' \in [Runs -> Nodes \cup {Nowhere}]
BY DEF TypeOK, WriteNode

LEMMA FreshTypes == FreshNode \in NodeObject /\ IdleRun \in RunState
<1>1. FreshNode \in NodeObject
  BY AgesInRange DEF FreshNode, NodeObject
<1>2. IdleRun \in RunState
  BY AgesInRange DEF IdleRun, RunState, Phase
<1> QED BY <1>1, <1>2

LEMMA InitType == Init => TypeOK
<1> SUFFICES ASSUME Init PROVE TypeOK
  OBVIOUS
<1>1. node \in [Nodes -> NodeObject] /\ run \in [Runs -> RunState]
  BY FreshTypes DEF Init
<1>2. host \in [Pods -> Nodes \cup {Nowhere}]
  BY ConstantsAssumption DEF ConstantsAssumption, Init
<1> QED BY <1>1, <1>2 DEF Init, TypeOK

LEMMA RunStepType ==
  ASSUME TypeOK, NEW r \in Runs, RunStep(r)
  PROVE  TypeOK'
<1> USE DEF TypeOK
<1>r. run[r] \in RunState
  OBVIOUS
<1>1. CASE HaltCheck(r)
  <2>0. 0 \in 0..MaxLag
    BY AgesInRange
  <2>1. [run[r] EXCEPT !.pc = "reapList", !.lag = 0] \in RunState
    BY <2>0, <1>r DEF RunState, Phase
  <2> QED BY <1>1, <2>1 DEF HaltCheck, Become
<1>2. CASE ReapList(r)
  BY <1>2, <1>r DEF ReapList, Become, RunState, Phase
<1>3. CASE ReapNothing(r)
  BY <1>3, <1>r DEF ReapNothing, Become, RunState, Phase
<1>4. CASE ReapWrite(r)
  <2> DEFINE n == run[r].target
  <2>1. Reviewed(r, n) \in RunState
    BY <1>r DEF Reviewed, RunState, Phase
  <2>2. CASE n \in Nodes
    <3>1. run[r].lag \in 0..ReapedMax
      BY <1>r, AgesInRange DEF RunState
    <3>0. node[n] \in NodeObject /\ 0 \in 0..StampMax
      BY <2>2, AgesInRange
    <3>2. ReapedObject(r, n) \in NodeObject
      BY <3>0, <3>1 DEF ReapedObject, Reaped, NodeObject
    <3>3. node' \in [Nodes -> NodeObject] /\ copy' \in [Runs -> Nodes \cup {Nowhere}]
      BY <3>2, <1>4, WriteNodeType DEF ReapWrite
    <3>4. placed' \in [Nodes -> {"nobody", "tool", "other"}]
      BY <1>4 DEF ReapWrite
    <3> QED BY <3>3, <3>4, <2>1, <1>4 DEF ReapWrite, Become
  <2>3. CASE n \notin Nodes
    <3>1. node' = node /\ placed' = placed
      BY <2>3, <1>4 DEF ReapWrite, WriteNode
    <3>2. copy' \in [Runs -> Nodes \cup {Nowhere}]
      BY <1>4 DEF ReapWrite, WriteNode
    <3> QED BY <3>1, <3>2, <2>1, <1>4 DEF ReapWrite, Become
  <2> QED BY <2>2, <2>3
<1>5. CASE ReapWriteFails(r)
  BY <1>5, <1>r DEF ReapWriteFails, Become, Reviewed, RunState, Phase
<1>6. CASE ListNodes(r)
  BY <1>6, <1>r DEF ListNodes, Become, RunState, Phase
<1>7. CASE ListPods(r)
  <2> DEFINE cands == {n \in run[r].cands : ~HostsSelf(n)}
  <2>1. [run[r] EXCEPT !.pc = "select", !.cands = cands, !.seen = host] \in RunState
    BY <1>r DEF RunState, Phase
  <2> QED BY <1>7, <2>1 DEF ListPods, Become
<1>8. CASE GetTarget(r)
  <2>1. [run[r] EXCEPT !.pc = "claim"] \in RunState
    BY <1>r DEF RunState, Phase
  <2> QED BY <1>8, <2>1, <1>r DEF GetTarget, Become, RunState
<1>9. CASE GetCordonedTarget(r)
  BY <1>9, <1>r DEF GetCordonedTarget, Become, RunState, Phase
<1>10. CASE Claim(r)
  <2> DEFINE n == run[r].target
  <2>1. [run[r] EXCEPT !.pc = "evict"] \in RunState
    BY <1>r DEF RunState, Phase
  <2>2. CASE n \in Nodes
    <3>1. run[r].lag \in 0..StampMax
      BY <1>r, AgesInRange DEF RunState
    <3>0. node[n] \in NodeObject /\ ReapedMax \in 0..ReapedMax
      BY <2>2, AgesInRange
    <3>2. ClaimedObject(r, n) \in NodeObject
      BY <3>0, <3>1 DEF ClaimedObject, NodeObject
    <3>3. node' \in [Nodes -> NodeObject] /\ copy' \in [Runs -> Nodes \cup {Nowhere}]
      BY <3>2, <1>10, WriteNodeType DEF Claim
    <3>4. placed' \in [Nodes -> {"nobody", "tool", "other"}]
      BY <1>10 DEF Claim
    <3> QED BY <3>3, <3>4, <2>1, <1>10 DEF Claim, Become
  <2>3. CASE n \notin Nodes
    <3>1. node' = node /\ placed' = placed
      BY <2>3, <1>10 DEF Claim, WriteNode
    <3>2. copy' \in [Runs -> Nodes \cup {Nowhere}]
      BY <1>10 DEF Claim, WriteNode
    <3> QED BY <3>1, <3>2, <2>1, <1>10 DEF Claim, Become
  <2> QED BY <2>2, <2>3
<1>11. CASE Return(r)
  BY <1>11, FreshTypes DEF Return, Finish, Become
<1>12. ASSUME NEW n \in Nodes, ReapGet(r, n) PROVE TypeOK'
  BY <1>12, <1>r DEF ReapGet, Become, RunState, Phase
<1>13. ASSUME NEW n \in Nodes, ReapGetFails(r, n) PROVE TypeOK'
  BY <1>13, <1>r DEF ReapGetFails, Become, Reviewed, RunState, Phase
<1>14. ASSUME NEW n \in Nodes, Select(r, n) PROVE TypeOK'
  <2>1. Relocatable(r, n) \subseteq Pods
    BY DEF Relocatable
  <2>2. [run[r] EXCEPT !.pc = "get", !.target = n, !.victims = Relocatable(r, n)] \in RunState
    BY <2>1, <1>r DEF RunState, Phase
  <2> QED BY <1>14, <2>2, FreshTypes DEF Select, Become
<1>15. ASSUME NEW n \in Nodes, Discard(r, n) PROVE TypeOK'
  BY <1>15, <1>r DEF Discard, Become, RunState
<1>16. ASSUME NEW p \in Pods, Evict(r, p) PROVE TypeOK'
  BY <1>16, <1>r DEF Evict, Evicted, Become, RunState
<1>17. ASSUME NEW p \in Pods, EvictFails(r, p) PROVE TypeOK'
  BY <1>17, <1>r DEF EvictFails, Evicted, Become, RunState
<1> QED
  BY <1>1, <1>2, <1>3, <1>4, <1>5, <1>6, <1>7, <1>8, <1>9, <1>10, <1>11,
     <1>12, <1>13, <1>14, <1>15, <1>16, <1>17 DEF RunStep

LEMMA OutsideType ==
  ASSUME TypeOK, Outside
  PROVE  TypeOK'
<1> USE DEF TypeOK
<1>1. CASE Tick
  <2>1. ASSUME NEW n \in Nodes
        PROVE  [node[n] EXCEPT !.stamp = IF node[n].marked THEN Older(@, StampMax) ELSE @,
                               !.reaped = Older(@, ReapedMax)] \in NodeObject
    <3>1. node[n] \in NodeObject /\ node[n].stamp \in 0..StampMax
            /\ node[n].reaped \in 0..ReapedMax
      BY DEF NodeObject
    <3>2. Older(node[n].stamp, StampMax) \in 0..StampMax
            /\ Older(node[n].reaped, ReapedMax) \in 0..ReapedMax
      BY <3>1, AgesInRange, OlderInRange
    <3> QED BY <3>1, <3>2 DEF NodeObject
  <2>2. node' \in [Nodes -> NodeObject]
    BY <2>1, <1>1 DEF Tick
  <2>3. ASSUME NEW r \in Runs, Active(r)
        PROVE  [run[r] EXCEPT !.lag = @ + 1] \in RunState
    <3>1. run[r] \in RunState /\ run[r].lag \in 0..MaxLag /\ run[r].lag < MaxLag
      BY <1>1, <2>3 DEF Tick, RunState
    <3>2. run[r].lag + 1 \in 0..MaxLag
      BY <3>1, AgesInRange
    <3> QED BY <3>1, <3>2 DEF RunState
  <2>4. run' \in [Runs -> RunState]
    BY <2>3, <1>1 DEF Tick
  <2> QED BY <2>2, <2>4, <1>1 DEF Tick
<1>2. CASE SetHalt
  BY <1>2 DEF SetHalt
<1>3. ASSUME NEW p \in Pods, Restart(p) PROVE TypeOK'
  BY <1>3 DEF Restart
<1>4. ASSUME NEW n \in Nodes, NEW p \in Pods, Schedule(p, n) PROVE TypeOK'
  BY <1>4 DEF Schedule
<1>5. ASSUME NEW n \in Nodes, OperatorCordon(n) PROVE TypeOK'
  <2>1. [node[n] EXCEPT !.unsched = TRUE] \in NodeObject
    BY DEF NodeObject
  <2> QED BY <2>1, <1>5, WriteNodeType DEF OperatorCordon
<1>6. ASSUME NEW n \in Nodes, OperatorUncordon(n) PROVE TypeOK'
  <2>1. [node[n] EXCEPT !.unsched = FALSE] \in NodeObject
    BY DEF NodeObject
  <2> QED BY <2>1, <1>6, WriteNodeType DEF OperatorUncordon
<1>7. ASSUME NEW n \in Nodes, GarbleStamp(n) PROVE TypeOK'
  <2>0. StampMax \in 0..StampMax
    BY AgesInRange
  <2>1. [node[n] EXCEPT !.stamp = StampMax] \in NodeObject
    BY <2>0 DEF NodeObject
  <2> QED BY <2>1, <1>7, WriteNodeType DEF GarbleStamp
<1>8. ASSUME NEW n \in Nodes, KubeletReport(n) PROVE TypeOK'
  <2>1. [node[n] EXCEPT !.ready = ~@] \in NodeObject
    BY DEF NodeObject
  <2> QED BY <2>1, <1>8, WriteNodeType DEF KubeletReport
<1>9. ASSUME NEW n \in Nodes, RemoveNode(n) PROVE TypeOK'
  <2>1. [FreshNode EXCEPT !.here = FALSE] \in NodeObject
    BY FreshTypes DEF NodeObject
  <2> QED BY <2>1, <1>9, WriteNodeType DEF RemoveNode
<1>10. ASSUME NEW n \in Nodes, AddNode(n) PROVE TypeOK'
  BY <1>10, FreshTypes, WriteNodeType DEF AddNode
<1> QED
  BY <1>1, <1>2, <1>3, <1>4, <1>5, <1>6, <1>7, <1>8, <1>9, <1>10 DEF Outside

LEMMA StartType ==
  ASSUME TypeOK, NEW r \in Runs, Start(r)
  PROVE  TypeOK'
<1> USE DEF TypeOK
<1>1. PICK n \in Nodes, live \in Modes, v \in Verdicts :
        Become(r, [IdleRun EXCEPT !.pc = IF live THEN "halt" ELSE "reapList",
                                  !.live = live, !.home = n, !.verdict = v])
  BY DEF Start
<1>2. live \in BOOLEAN
  BY ConstantsAssumption DEF ConstantsAssumption
<1>3. [IdleRun EXCEPT !.pc = IF live THEN "halt" ELSE "reapList",
                      !.live = live, !.home = n, !.verdict = v] \in RunState
  BY <1>2, FreshTypes DEF RunState, Phase
<1>4. ASSUME NEW m \in Nodes
      PROVE  [node[m] EXCEPT !.by = Nowhere] \in NodeObject
  BY DEF NodeObject
<1>5. node' \in [Nodes -> NodeObject]
  BY <1>4 DEF Start
<1> QED BY <1>1, <1>3, <1>5, BecomeType DEF Start

LEMMA CrashType ==
  ASSUME TypeOK, NEW r \in Runs, Crash(r)
  PROVE  TypeOK'
BY FreshTypes DEF TypeOK, Crash, Finish, Become

LEMMA TypePreserved == TypeOK /\ [Next]_vars => TypeOK'
<1>1. TypeOK /\ UNCHANGED vars => TypeOK'
  BY DEF TypeOK, vars
<1> QED BY <1>1, OutsideType, StartType, RunStepType, CrashType DEF Next

\* Every state the pass can reach is well typed, with any number of runs,
\* overlapping or not: ages and lags stay within their bounds, and what a run
\* remembers are nodes and pods.
THEOREM TypeCorrect == Spec => []TypeOK
BY InitType, TypePreserved, PTL DEF Spec

-----------------------------------------------------------------------------
(* The invariant of runs that do not overlap.                              *)

LEMMA SerialInit == Init => SerialInv
<1> SUFFICES ASSUME Init PROVE SerialInv
  OBVIOUS
<1>1. TypeOK
  BY InitType
<1>2. \A r \in Runs : ~Active(r)
  BY DEF Init, Active, IdleRun
<1>3. \A n \in Nodes : ~ToolCordoned(n) /\ ~node[n].prior /\ node[n].here
  BY DEF Init, ToolCordoned, FreshNode
<1> QED
  BY <1>1, <1>2, <1>3
  DEF SerialInv, SoleRun, EveryToolCordonMarked, OneToolCordonPerPool,
      HomeNotCordoned, PriorNeverSet, GoneRested

\* What the outside actors may do to the nodes without upsetting a run.
LEMMA RunUndisturbed ==
  ASSUME TypeOK, TypeOK', NEW r \in Runs, RunInv(r),
         run'[r].pc = run[r].pc, run'[r].live = run[r].live,
         run'[r].home = run[r].home, run'[r].clear = run[r].clear,
         run'[r].release = run[r].release, run'[r].cands = run[r].cands,
         run'[r].target = run[r].target,
         \A n \in Nodes :
           /\ n \in ToReap(r) /\ node'[n].here => node'[n].marked
           /\ ToolCordoned(n)' => ToolCordoned(n) /\ node'[n].stamp >= node[n].stamp
           /\ node'[n].here => \/ node[n].here /\ node'[n].reaped >= node[n].reaped
                               \/ node'[n].reaped >= Cooldown
           /\ copy'[r] = n => /\ copy[r] = n
                              /\ node'[n].here = node[n].here
                              /\ node'[n].unsched = node[n].unsched
  PROVE  RunInv(r)'
<1>1. ToReap(r)' = ToReap(r) /\ Picks(r)' = Picks(r)
  BY DEF ToReap, Picks
<1>2. ToReap(r) \subseteq Nodes /\ Picks(r) \subseteq Nodes
  BY DEF TypeOK, RunState, ToReap, Picks, RunInv
<1>3. \A n \in Nodes : /\ node[n].stamp \in Int /\ node'[n].stamp \in Int
                       /\ node[n].reaped \in Int /\ node'[n].reaped \in Int
  BY AgesInRange DEF TypeOK, NodeObject
<1>4. TTL \in Int /\ Cooldown \in Int
  BY ConstantsAssumption DEF ConstantsAssumption
<1>5. ReapSound(r)'
  BY <1>1, <1>2, <1>3, <1>4 DEF ReapSound, RunInv
<1>6. ASSUME NEW p, PoolAtRest(p) PROVE PoolAtRest(p)'
  <2>1. ASSUME NEW m \in Nodes, PoolOf[m] = p, node'[m].here
        PROVE  ~ToolCordoned(m)' /\ node'[m].reaped >= Cooldown
    <3>1. node[m].here => ~ToolCordoned(m) /\ node[m].reaped >= Cooldown
      BY <1>6, <2>1 DEF PoolAtRest
    <3>2. ~node[m].here => ~ToolCordoned(m)
      BY DEF ToolCordoned
    <3> QED BY <3>1, <3>2, <2>1, <1>3, <1>4
  <2> QED BY <2>1 DEF PoolAtRest
<1>7. \A n \in Picks(r)' : PoolAtRest(PoolOf[n])'
  BY <1>1, <1>6 DEF RunInv
<1>8. run[r].pc \in {"reapWrite", "claim"} => run[r].target \in Nodes
  BY DEF RunInv
<1> QED
  BY <1>1, <1>5, <1>7, <1>8 DEF RunInv

\* A write to one node by somebody who is not a run.
LEMMA ForeignWrite ==
  ASSUME SerialInv, TypeOK', NEW n \in Nodes, NEW o \in NodeObject,
         WriteNode(n, o), UNCHANGED run,
         \A m \in Nodes : m # n => placed'[m] = placed[m],
         o.here /\ o.unsched /\ placed'[n] = "tool" =>
           ToolCordoned(n) /\ o.stamp >= node[n].stamp /\ o.marked,
         ~o.prior,
         ~o.here => o.reaped = ReapedMax,
         o.here => \/ node[n].here /\ o.reaped >= node[n].reaped
                   \/ o.reaped >= Cooldown,
         \A r \in Runs : n \in ToReap(r) /\ o.here => node[n].here,
         o.here /\ node[n].here /\ node[n].marked => o.marked
  PROVE  SerialInv'
<1>1. TypeOK
  BY DEF SerialInv
<1>2. node' = [node EXCEPT ![n] = o]
  BY DEF WriteNode
<1>3. node'[n] = o /\ \A m \in Nodes : m # n => node'[m] = node[m]
  BY <1>1, <1>2 DEF TypeOK
<1>4. \A m \in Nodes : ToolCordoned(m)' =>
        /\ ToolCordoned(m) /\ node'[m].stamp >= node[m].stamp /\ node'[m].marked
  <2> SUFFICES ASSUME NEW m \in Nodes, ToolCordoned(m)'
               PROVE  ToolCordoned(m) /\ node'[m].stamp >= node[m].stamp /\ node'[m].marked
    OBVIOUS
  <2>1. CASE m = n
    BY <2>1, <1>3 DEF ToolCordoned
  <2>2. CASE m # n
    <3>1. ToolCordoned(m) /\ node'[m] = node[m]
      BY <2>2, <1>3 DEF ToolCordoned
    <3>2. node[m].stamp \in Int
      BY <1>1, AgesInRange DEF TypeOK, NodeObject
    <3> QED BY <3>1, <3>2 DEF SerialInv, EveryToolCordonMarked
  <2> QED BY <2>1, <2>2
<1>5. ASSUME NEW r \in Runs, Active(r) PROVE RunInv(r)'
  <2>1. RunInv(r) /\ run'[r] = run[r]
    BY <1>5 DEF SerialInv
  <2>2. ASSUME NEW m \in Nodes, m \in ToReap(r), node'[m].here PROVE node'[m].marked
    BY <2>1, <2>2, <1>3 DEF RunInv, ReapSound
  <2>3. ASSUME NEW m \in Nodes, node'[m].here
        PROVE  \/ node[m].here /\ node'[m].reaped >= node[m].reaped
               \/ node'[m].reaped >= Cooldown
    <3>1. node[m].reaped \in Int
      BY <1>1, AgesInRange DEF TypeOK, NodeObject
    <3> QED BY <3>1, <2>3, <1>3
  <2>4. ASSUME NEW m \in Nodes, copy'[r] = m PROVE copy[r] = m /\ node'[m] = node[m]
    <3>1. copy[r] = m /\ m # n
      BY <2>4, ConstantsAssumption DEF WriteNode, ConstantsAssumption
    <3> QED BY <3>1, <1>3
  <2> QED
    BY <1>1, <1>4, <2>1, <2>2, <2>3, <2>4, RunUndisturbed
<1>6. \A r \in Runs : Active(r)' = Active(r)
  BY DEF Active
<1>7. HomeNotCordoned'
  BY <1>4, <1>5, <1>6 DEF SerialInv, HomeNotCordoned, RunInv
<1>8. PriorNeverSet' /\ GoneRested'
  BY <1>3 DEF SerialInv, PriorNeverSet, GoneRested
<1>9. SoleRun' /\ EveryToolCordonMarked' /\ OneToolCordonPerPool'
  BY <1>4, <1>6 DEF SerialInv, SoleRun, EveryToolCordonMarked, OneToolCordonPerPool
<1> QED
  BY <1>5, <1>6, <1>7, <1>8, <1>9 DEF SerialInv

\* Nobody touches the nodes or the runs.
LEMMA SameNodes ==
  ASSUME SerialInv, TypeOK', UNCHANGED <<node, run, copy, placed>>
  PROVE  SerialInv'
<1>1. ASSUME NEW r \in Runs, RunInv(r) PROVE RunInv(r)'
  BY <1>1 DEF RunInv, ToReap, ReapSound, Picks, PoolAtRest, ToolCordoned
<1>2. \A r \in Runs : Active(r)' => RunInv(r)'
  BY <1>1 DEF SerialInv, Active
<1> QED
  BY <1>2 DEF SerialInv, SoleRun, Active, EveryToolCordonMarked, ToolCordoned,
              OneToolCordonPerPool, HomeNotCordoned, PriorNeverSet, GoneRested

LEMMA TickKeeps ==
  ASSUME SerialInv, TypeOK', Tick
  PROVE  SerialInv'
<1>1. TypeOK
  BY DEF SerialInv
<1>2. ASSUME NEW n \in Nodes
      PROVE  /\ node'[n].here = node[n].here /\ node'[n].unsched = node[n].unsched
             /\ node'[n].marked = node[n].marked /\ node'[n].prior = node[n].prior
             /\ node'[n].stamp >= node[n].stamp /\ node'[n].reaped >= node[n].reaped
             /\ node[n].reaped = ReapedMax => node'[n].reaped = ReapedMax
  <2>1. node[n].stamp \in 0..StampMax /\ node[n].reaped \in 0..ReapedMax
    BY <1>1 DEF TypeOK, NodeObject
  <2>2. /\ Older(node[n].stamp, StampMax) >= node[n].stamp
        /\ Older(node[n].reaped, ReapedMax) >= node[n].reaped
        /\ Older(ReapedMax, ReapedMax) = ReapedMax
    BY <2>1, AgesInRange, OlderInRange DEF Older
  <2>3. node'[n] = [node[n] EXCEPT !.stamp = IF node[n].marked THEN Older(@, StampMax) ELSE @,
                                   !.reaped = Older(@, ReapedMax)]
    BY DEF Tick
  <2>4. node[n] \in NodeObject
    BY <1>1 DEF TypeOK
  <2> QED BY <2>1, <2>2, <2>3, <2>4, AgesInRange DEF NodeObject
<1>3. \A n \in Nodes : ToolCordoned(n)' = ToolCordoned(n)
  BY <1>2, ZenonT(40) DEF ToolCordoned, Tick
<1>4. ASSUME NEW r \in Runs
      PROVE  /\ run'[r].pc = run[r].pc /\ run'[r].live = run[r].live
             /\ run'[r].home = run[r].home /\ run'[r].clear = run[r].clear
             /\ run'[r].release = run[r].release /\ run'[r].cands = run[r].cands
             /\ run'[r].target = run[r].target
  BY <1>1, ZenonT(40) DEF Tick, TypeOK, RunState
<1>5. \A r \in Runs : Active(r)' = Active(r)
  BY <1>4 DEF Active
<1>6. ASSUME NEW r \in Runs, Active(r) PROVE RunInv(r)'
  <2>1. RunInv(r)
    BY <1>6 DEF SerialInv
  <2>2. \A n \in Nodes : n \in ToReap(r) /\ node'[n].here => node'[n].marked
    BY <1>2, <2>1 DEF RunInv, ReapSound
  <2>3. copy' = copy
    BY DEF Tick
  <2> QED BY <1>1, <1>2, <1>3, <1>4, <2>1, <2>2, <2>3, RunUndisturbed
<1>7. SoleRun' /\ EveryToolCordonMarked' /\ OneToolCordonPerPool'
  BY <1>2, <1>3, <1>5 DEF SerialInv, SoleRun, EveryToolCordonMarked, OneToolCordonPerPool
<1>8. HomeNotCordoned'
  BY <1>3, <1>4, <1>5, <1>6 DEF SerialInv, HomeNotCordoned, RunInv
<1>9. PriorNeverSet' /\ GoneRested'
  BY <1>2 DEF SerialInv, PriorNeverSet, GoneRested
<1> QED
  BY <1>5, <1>6, <1>7, <1>8, <1>9 DEF SerialInv

LEMMA OutsideKeeps ==
  ASSUME SerialInv, TypeOK', Outside
  PROVE  SerialInv'
<1>t. TypeOK
  BY DEF SerialInv
<1>1. CASE Tick
  BY <1>1, TickKeeps
<1>2. CASE SetHalt
  BY <1>2, SameNodes DEF SetHalt
<1>3. ASSUME NEW p \in Pods, Restart(p) PROVE SerialInv'
  BY <1>3, SameNodes DEF Restart
<1>4. ASSUME NEW n \in Nodes, NEW p \in Pods, Schedule(p, n) PROVE SerialInv'
  BY <1>4, SameNodes DEF Schedule
<1>5. ASSUME NEW n \in Nodes,
             OperatorCordon(n) \/ OperatorUncordon(n) \/ GarbleStamp(n) \/ KubeletReport(n)
      PROVE  SerialInv'
  <2>1. /\ node[n] \in NodeObject /\ node[n].here /\ ~node[n].prior
        /\ node[n].stamp \in 0..StampMax /\ node[n].reaped \in Int
    BY <1>5, <1>t, AgesInRange
    DEF SerialInv, PriorNeverSet, OperatorCordon, OperatorUncordon, GarbleStamp,
        KubeletReport, TypeOK, NodeObject
  <2>2. ToolCordoned(n) => node[n].marked
    BY DEF SerialInv, EveryToolCordonMarked
  <2>3. UNCHANGED run /\ \A m \in Nodes : m # n => placed'[m] = placed[m]
    BY <1>5, <1>t
    DEF OperatorCordon, OperatorUncordon, GarbleStamp, KubeletReport, TypeOK
  <2>4. CASE OperatorCordon(n)
    <3> DEFINE o == [node[n] EXCEPT !.unsched = TRUE]
    <3>1. placed'[n] = "other" /\ WriteNode(n, o)
      BY <2>4, <1>t DEF OperatorCordon, TypeOK
    <3>2. o \in NodeObject /\ o.here /\ ~o.prior /\ o.reaped = node[n].reaped
            /\ o.marked = node[n].marked
      BY <2>1 DEF NodeObject
    <3> HIDE DEF o
    <3> QED BY <3>1, <3>2, <2>1, <2>3, ForeignWrite
  <2>5. CASE OperatorUncordon(n)
    <3> DEFINE o == [node[n] EXCEPT !.unsched = FALSE]
    <3>1. placed'[n] = "nobody" /\ WriteNode(n, o)
      BY <2>5, <1>t DEF OperatorUncordon, TypeOK
    <3>2. o \in NodeObject /\ o.here /\ ~o.prior /\ o.reaped = node[n].reaped
            /\ o.marked = node[n].marked
      BY <2>1 DEF NodeObject
    <3> HIDE DEF o
    <3> QED BY <3>1, <3>2, <2>1, <2>3, ForeignWrite
  <2>6. CASE GarbleStamp(n)
    <3> DEFINE o == [node[n] EXCEPT !.stamp = StampMax]
    <3>1. placed' = placed /\ WriteNode(n, o)
      BY <2>6 DEF GarbleStamp
    <3>2. o \in NodeObject /\ o.here /\ ~o.prior /\ o.reaped = node[n].reaped
            /\ o.marked = node[n].marked /\ o.unsched = node[n].unsched
            /\ o.stamp >= node[n].stamp
      BY <2>1, AgesInRange DEF NodeObject
    <3>3. o.unsched /\ placed'[n] = "tool" => ToolCordoned(n)
      BY <3>1, <3>2, <2>1 DEF ToolCordoned
    <3> HIDE DEF o
    <3> QED BY <3>1, <3>2, <3>3, <2>1, <2>2, <2>3, ForeignWrite
  <2>7. CASE KubeletReport(n)
    <3> DEFINE o == [node[n] EXCEPT !.ready = ~@]
    <3>1. placed' = placed /\ WriteNode(n, o)
      BY <2>7 DEF KubeletReport
    <3>2. o \in NodeObject /\ o.here /\ ~o.prior /\ o.reaped = node[n].reaped
            /\ o.marked = node[n].marked /\ o.unsched = node[n].unsched
            /\ o.stamp >= node[n].stamp
      BY <2>1, AgesInRange DEF NodeObject
    <3>3. o.unsched /\ placed'[n] = "tool" => ToolCordoned(n)
      BY <3>1, <3>2, <2>1 DEF ToolCordoned
    <3> HIDE DEF o
    <3> QED BY <3>1, <3>2, <3>3, <2>1, <2>2, <2>3, ForeignWrite
  <2> QED BY <1>5, <2>4, <2>5, <2>6, <2>7
<1>6. ASSUME NEW n \in Nodes, RemoveNode(n) PROVE SerialInv'
  <2> DEFINE o == [FreshNode EXCEPT !.here = FALSE]
  <2>1. o \in NodeObject /\ ~o.here /\ ~o.prior /\ o.reaped = ReapedMax
    BY FreshTypes DEF FreshNode, NodeObject
  <2>2. WriteNode(n, o) /\ UNCHANGED run
    BY <1>6 DEF RemoveNode
  <2>3. \A m \in Nodes : m # n => placed'[m] = placed[m]
    BY <1>6, <1>t DEF RemoveNode, TypeOK
  <2> HIDE DEF o
  <2> QED BY <2>1, <2>2, <2>3, ForeignWrite
<1>7. ASSUME NEW n \in Nodes, AddNode(n) PROVE SerialInv'
  <2>1. /\ FreshNode \in NodeObject /\ FreshNode.here /\ ~FreshNode.unsched
        /\ ~FreshNode.prior /\ FreshNode.reaped >= Cooldown
    BY FreshTypes, ConstantsAssumption DEF FreshNode, ReapedMax, ConstantsAssumption
  <2>2. WriteNode(n, FreshNode) /\ UNCHANGED <<run, placed>> /\ ~node[n].here
    BY <1>7 DEF AddNode
  <2>3. \A r \in Runs : n \notin ToReap(r)
    BY <1>7 DEF AddNode, ToReap
  <2> QED BY <2>1, <2>2, <2>3, ForeignWrite
<1> QED
  BY <1>1, <1>2, <1>3, <1>4, <1>5, <1>6, <1>7 DEF Outside

\* A step of the one active run that leaves the nodes alone.
LEMMA LocalStep ==
  ASSUME SerialInv, TypeOK', NEW r \in Runs, Active(r), NEW s, Become(r, s),
         UNCHANGED <<node, placed>>,
         s.pc # "idle" => s.home = run[r].home /\ RunInv(r)'
  PROVE  SerialInv'
<1>1. run'[r] = s /\ \A q \in Runs : q # r => ~Active(q) /\ run'[q] = run[q]
  BY DEF SerialInv, TypeOK, SoleRun, Become
<1>2. \A q \in Runs : Active(q)' => q = r /\ Active(r)' /\ RunInv(r)' /\ s.home = run[r].home
  BY <1>1 DEF Active
<1>3. ASSUME NEW q \in Runs, Active(q)' PROVE ~ToolCordoned(run[q].home)'
  BY <1>1, <1>2, <1>3 DEF SerialInv, HomeNotCordoned, ToolCordoned
<1>4. HomeNotCordoned'
  BY <1>1, <1>2, <1>3 DEF HomeNotCordoned
<1> QED
  BY <1>2, <1>4 DEF SerialInv, SoleRun, EveryToolCordonMarked, ToolCordoned,
                    OneToolCordonPerPool, PriorNeverSet, GoneRested

LEMMA FinishKeeps ==
  ASSUME SerialInv, TypeOK', NEW r \in Runs, Active(r), Finish(r)
  PROVE  SerialInv'
BY LocalStep DEF Finish, IdleRun

\* The steps of the reaper, but for its writes.
LEMMA ReaperLooks ==
  ASSUME SerialInv, TypeOK', NEW r \in Runs,
         \/ HaltCheck(r) \/ ReapList(r) \/ ReapNothing(r) \/ ReapWriteFails(r)
         \/ \E n \in Nodes : ReapGet(r, n) \/ ReapGetFails(r, n)
  PROVE  SerialInv'
<1>1. TypeOK /\ run[r] \in RunState
  BY DEF SerialInv, TypeOK
<1>2. Active(r)
  BY DEF Active, HaltCheck, ReapList, ReapNothing, ReapWriteFails, ReapGet, ReapGetFails
<1>3. RunInv(r)
  BY <1>2 DEF SerialInv
<1>4. CASE HaltCheck(r)
  <2> DEFINE s == [run[r] EXCEPT !.pc = "reapList", !.lag = 0]
  <2>1. run'[r] = s /\ UNCHANGED <<node, placed>> /\ Become(r, s)
    BY <1>4, <1>1 DEF HaltCheck, Become, TypeOK
  <2>2. /\ s.pc = "reapList" /\ s.home = run[r].home /\ s.live = run[r].live
        /\ s.clear = run[r].clear /\ s.release = run[r].release
    BY <1>1 DEF RunState
  <2>3. run[r].pc = "halt"
    BY <1>4 DEF HaltCheck
  <2> HIDE DEF s
  <2>4. RunInv(r)'
    BY <1>3, <2>1, <2>2, <2>3 DEF RunInv, ToReap, ReapSound, Picks, ToolCordoned
  <2> QED BY <1>2, <2>1, <2>2, <2>4, LocalStep
<1>5. CASE ReapList(r)
  <2> DEFINE c == {n \in Nodes : Ours(r, n) /\ ~node[n].unsched}
             l == {n \in Nodes : Ours(r, n) /\ node[n].unsched /\ Stale(r, n)}
             s == [run[r] EXCEPT !.pc = "reap", !.clear = c, !.release = l]
  <2>1. run'[r] = s /\ UNCHANGED <<node, placed>> /\ Become(r, s)
    BY <1>5, <1>1 DEF ReapList, Become, TypeOK
  <2>2. /\ s.pc = "reap" /\ s.home = run[r].home /\ s.live = run[r].live
        /\ s.clear = c /\ s.release = l
    BY <1>1 DEF RunState
  <2>3. TTL > 0 /\ run[r].live
    BY <1>5 DEF ReapList
  <2>4. \A n \in c \cup l :
          /\ node[n].marked
          /\ ToolCordoned(n) => n \notin c /\ node[n].stamp >= TTL
    <3>1. run[r].lag \in Int /\ run[r].lag >= 0 /\ TTL \in Int
      BY <1>1, ConstantsAssumption DEF RunState, ConstantsAssumption
    <3>2. \A n \in Nodes : node[n].stamp \in Int
      BY <1>1, AgesInRange DEF TypeOK, NodeObject
    <3> QED BY <3>1, <3>2 DEF Ours, Stale, ToolCordoned
  <2> HIDE DEF s, c, l
  <2>5. RunInv(r)'
    BY <1>3, <2>1, <2>2, <2>3, <2>4 DEF RunInv, ToReap, ReapSound, Picks, ToolCordoned
  <2> QED BY <1>2, <2>1, <2>2, <2>5, LocalStep
<1>6. CASE ReapNothing(r)
  <2> DEFINE s == [run[r] EXCEPT !.pc = "reap"]
  <2>1. run'[r] = s /\ UNCHANGED <<node, placed>> /\ Become(r, s)
    BY <1>6, <1>1 DEF ReapNothing, Become, TypeOK
  <2>2. /\ s.pc = "reap" /\ s.home = run[r].home /\ s.live = run[r].live
        /\ s.clear = run[r].clear /\ s.release = run[r].release
    BY <1>1 DEF RunState
  <2> HIDE DEF s
  <2>3. RunInv(r)'
    BY <1>3, <2>1, <2>2 DEF RunInv, ToReap, ReapSound, Picks, ToolCordoned
  <2> QED BY <1>2, <2>1, <2>2, <2>3, LocalStep
<1>7. ASSUME NEW n \in Nodes, ReapGet(r, n) PROVE SerialInv'
  <2> DEFINE s == [run[r] EXCEPT !.pc = "reapWrite", !.target = n]
  <2>1. run'[r] = s /\ UNCHANGED <<node, placed>> /\ Become(r, s)
    BY <1>7, <1>1 DEF ReapGet, Become, TypeOK
  <2>2. /\ s.pc = "reapWrite" /\ s.home = run[r].home /\ s.live = run[r].live
        /\ s.clear = run[r].clear /\ s.release = run[r].release /\ s.target = n
    BY <1>1 DEF RunState
  <2>3. n \in ToReap(r) /\ node[n].here
    BY <1>7 DEF ReapGet, ToReap
  <2> HIDE DEF s
  <2>4. RunInv(r)'
    BY <1>3, <2>1, <2>2, <2>3 DEF RunInv, ToReap, ReapSound, Picks, ToolCordoned
  <2> QED BY <1>2, <2>1, <2>2, <2>4, LocalStep
<1>8. ASSUME NEW n, run[r].pc \in {"reap", "reapWrite"},
             Become(r, Reviewed(r, n)), UNCHANGED <<node, placed>>
      PROVE  SerialInv'
  <2> DEFINE s == Reviewed(r, n)
  <2>1. run'[r] = s
    BY <1>8, <1>1 DEF Become, TypeOK
  <2>2. /\ s.pc = "reap" /\ s.home = run[r].home /\ s.live = run[r].live
        /\ s.clear = run[r].clear \ {n} /\ s.release = run[r].release \ {n}
    BY <1>1 DEF RunState, Reviewed
  <2> HIDE DEF s
  <2>3. RunInv(r)'
    BY <1>3, <1>8, <2>1, <2>2 DEF RunInv, ToReap, ReapSound, Picks, ToolCordoned
  <2> QED BY <1>2, <1>8, <2>1, <2>2, <2>3, LocalStep DEF s
<1> QED
  BY <1>4, <1>5, <1>6, <1>7, <1>8 DEF ReapWriteFails, ReapGetFails

\* The gate a pool passes means that it is at rest.
LEMMA GateMeansRest ==
  ASSUME TypeOK, NEW r \in Runs, NEW p, PoolMayGiveBack(r, p)
  PROVE  PoolAtRest(p)
<1>1. SUFFICES ASSUME NEW m \in Nodes, PoolOf[m] = p, node[m].here
               PROVE  ~ToolCordoned(m) /\ node[m].reaped >= Cooldown
  BY DEF PoolAtRest
<1>2. m \in PoolNodes(p)
  BY <1>1 DEF PoolNodes
<1>3. ~node[m].unsched /\ ~InCooldown(r, m)
  BY <1>2 DEF PoolMayGiveBack, Usable
<1>4. /\ node[m].reaped \in Int /\ node[m].reaped >= 0
      /\ run[r].lag \in Int /\ run[r].lag >= 0 /\ Cooldown \in Nat
  BY AgesInRange, ConstantsAssumption DEF TypeOK, NodeObject, RunState, ConstantsAssumption
<1> QED BY <1>3, <1>4 DEF ToolCordoned, InCooldown

\* The steps of the choice and of the drain, but for the claim.
LEMMA NudgerLooks ==
  ASSUME SerialInv, TypeOK', NEW r \in Runs,
         \/ ListNodes(r) \/ ListPods(r) \/ GetTarget(r) \/ GetCordonedTarget(r)
         \/ \E n \in Nodes : Select(r, n) \/ Discard(r, n)
         \/ \E p \in Pods : Evict(r, p) \/ EvictFails(r, p)
  PROVE  SerialInv'
<1>1. TypeOK /\ run[r] \in RunState
  BY DEF SerialInv, TypeOK
<1>2. Active(r)
  BY DEF Active, ListNodes, ReapDone, ListPods, GetTarget, GetCordonedTarget, Select, Discard,
         Evict, EvictFails, Evicted
<1>3. RunInv(r)
  BY <1>2 DEF SerialInv
<1>4. CASE ListNodes(r)
  <2> DEFINE a == {n \in Nodes : Usable(n)}
             c == {n \in Nodes : Usable(n) /\ PoolMayGiveBack(r, PoolOf[n])}
             s == [run[r] EXCEPT !.pc = "pods", !.avail = a, !.cands = c]
  <2>1. run'[r] = s /\ UNCHANGED <<node, placed>> /\ Become(r, s) /\ ToReap(r) = {}
    BY <1>4, <1>1 DEF ListNodes, ReapDone, Become, TypeOK, ToReap
  <2>2. /\ s.pc = "pods" /\ s.home = run[r].home /\ s.live = run[r].live
        /\ s.clear = run[r].clear /\ s.release = run[r].release /\ s.cands = c
    BY <1>1 DEF RunState
  <2>3. \A n \in c : PoolAtRest(PoolOf[n])
    BY <1>1, GateMeansRest
  <2> HIDE DEF s, c, a
  <2>4. ToReap(r)' = {} /\ Picks(r)' = c
    BY <2>1, <2>2 DEF ToReap, Picks
  <2>5. \A n \in Picks(r)' : PoolAtRest(PoolOf[n])'
    BY <2>1, <2>3, <2>4 DEF PoolAtRest, ToolCordoned
  <2>6. RunInv(r)'
    BY <1>3, <2>1, <2>2, <2>4, <2>5 DEF RunInv, ReapSound
  <2> QED BY <1>2, <2>1, <2>2, <2>6, LocalStep
<1>5. CASE ListPods(r)
  <2> DEFINE c == {n \in run[r].cands : ~HostsSelf(n)}
             s == [run[r] EXCEPT !.pc = "select", !.cands = c, !.seen = host]
  <2>1. run'[r] = s /\ UNCHANGED <<node, placed>> /\ Become(r, s) /\ run[r].pc = "pods"
    BY <1>5, <1>1 DEF ListPods, Become, TypeOK
  <2>2. /\ s.pc = "select" /\ s.home = run[r].home /\ s.live = run[r].live
        /\ s.clear = run[r].clear /\ s.release = run[r].release /\ s.cands = c
    BY <1>1 DEF RunState
  <2>3. c \subseteq run[r].cands /\ run[r].home \notin c
    BY <1>2 DEF HostsSelf
  <2> HIDE DEF s, c
  <2>4. ToReap(r)' = ToReap(r) /\ Picks(r)' = c /\ c \subseteq Picks(r)
    BY <2>1, <2>2, <2>3 DEF ToReap, Picks
  <2>5. \A n \in Picks(r)' : PoolAtRest(PoolOf[n])'
    BY <1>3, <2>1, <2>4 DEF RunInv, PoolAtRest, ToolCordoned
  <2>6. RunInv(r)'
    BY <1>3, <2>1, <2>2, <2>3, <2>4, <2>5 DEF RunInv, ReapSound, ToolCordoned
  <2> QED BY <1>2, <2>1, <2>2, <2>6, LocalStep
<1>6. ASSUME NEW n \in Nodes, Select(r, n) PROVE SerialInv'
  <2> DEFINE s == [run[r] EXCEPT !.pc = "get", !.target = n, !.victims = Relocatable(r, n)]
  <2>1. CASE run[r].live
    <3>1. run'[r] = s /\ UNCHANGED <<node, placed>> /\ Become(r, s) /\ run[r].pc = "select"
      BY <1>6, <1>1, <2>1 DEF Select, Become, TypeOK
    <3>2. /\ s.pc = "get" /\ s.home = run[r].home /\ s.live = run[r].live
          /\ s.clear = run[r].clear /\ s.release = run[r].release /\ s.target = n
      BY <1>1 DEF RunState
    <3>3. n \in run[r].cands
      BY <1>6 DEF Select, LeastLoaded
    <3> HIDE DEF s
    <3>4. ToReap(r)' = ToReap(r) /\ Picks(r)' = {n} /\ n \in Picks(r)
      BY <3>1, <3>2, <3>3 DEF ToReap, Picks
    <3>5. PoolAtRest(PoolOf[n])'
      BY <1>3, <3>1, <3>4 DEF RunInv, PoolAtRest, ToolCordoned
    <3>6. RunInv(r)'
      BY <1>3, <2>1, <3>1, <3>2, <3>4, <3>5 DEF RunInv, ReapSound, ToolCordoned
    <3> QED BY <1>2, <3>1, <3>2, <3>6, LocalStep
  <2>2. CASE ~run[r].live
    BY <1>2, <1>6, <2>2, LocalStep DEF Select, IdleRun
  <2> QED BY <2>1, <2>2
<1>7. ASSUME NEW n \in Nodes, Discard(r, n) PROVE SerialInv'
  <2> DEFINE s == [run[r] EXCEPT !.cands = @ \ {n}]
  <2>1. run'[r] = s /\ UNCHANGED <<node, placed>> /\ Become(r, s) /\ run[r].pc = "select"
    BY <1>7, <1>1 DEF Discard, Become, TypeOK
  <2>2. /\ s.pc = "select" /\ s.home = run[r].home /\ s.live = run[r].live
        /\ s.clear = run[r].clear /\ s.release = run[r].release /\ s.cands = run[r].cands \ {n}
    BY <1>1, <2>1 DEF RunState
  <2> HIDE DEF s
  <2>3. ToReap(r)' = ToReap(r) /\ Picks(r)' \subseteq Picks(r)
    BY <2>1, <2>2 DEF ToReap, Picks
  <2>4. \A m \in Picks(r)' : PoolAtRest(PoolOf[m])'
    BY <1>3, <2>1, <2>3 DEF RunInv, PoolAtRest, ToolCordoned
  <2>5. RunInv(r)'
    BY <1>3, <2>1, <2>2, <2>3, <2>4 DEF RunInv, ReapSound, ToolCordoned
  <2> QED BY <1>2, <2>1, <2>2, <2>5, LocalStep
<1>8. CASE GetTarget(r)
  <2> DEFINE n == run[r].target
             s == [run[r] EXCEPT !.pc = "claim"]
  <2>1. /\ run'[r] = s /\ UNCHANGED <<node, placed>> /\ Become(r, s) /\ run[r].pc = "get"
        /\ node[n].here /\ ~node[n].unsched
    BY <1>8, <1>1 DEF GetTarget, Become, TypeOK
  <2>2. /\ s.pc = "claim" /\ s.home = run[r].home /\ s.live = run[r].live
        /\ s.clear = run[r].clear /\ s.release = run[r].release /\ s.target = run[r].target
    BY <1>1 DEF RunState
  <2> HIDE DEF s
  <2>3. ToReap(r)' = ToReap(r) /\ Picks(r)' = Picks(r)
    BY <2>1, <2>2 DEF ToReap, Picks
  <2>4. \A m \in Picks(r)' : PoolAtRest(PoolOf[m])'
    BY <1>3, <2>1, <2>3 DEF RunInv, PoolAtRest, ToolCordoned
  <2>5. RunInv(r)'
    BY <1>3, <2>1, <2>2, <2>3, <2>4 DEF RunInv, ReapSound, ToolCordoned
  <2> QED BY <1>2, <2>1, <2>2, <2>5, LocalStep
<1>9. ASSUME NEW s \in RunState, Become(r, s), UNCHANGED <<node, placed>>,
             run[r].pc \in {"get", "evict"}, s.pc = "evict", s.home = run[r].home,
             s.live = run[r].live, s.clear = run[r].clear, s.release = run[r].release,
             s.target = run[r].target
      PROVE  SerialInv'
  <2>1. run'[r] = s
    BY <1>9, <1>1 DEF Become, TypeOK
  <2>2. ToReap(r)' = ToReap(r) /\ Picks(r)' = {}
    BY <2>1, <1>9 DEF ToReap, Picks
  <2>3. RunInv(r)'
    BY <1>3, <1>9, <2>1, <2>2 DEF RunInv, ReapSound, ToolCordoned
  <2> QED BY <1>2, <1>9, <2>3, LocalStep
<1>10. CASE GetCordonedTarget(r)
  <2>1. [run[r] EXCEPT !.pc = "evict"] \in RunState
    BY <1>1 DEF RunState, Phase
  <2>2. /\ Become(r, [run[r] EXCEPT !.pc = "evict"])
        /\ run[r].pc = "get" /\ UNCHANGED <<node, placed>>
    BY <1>10 DEF GetCordonedTarget
  <2> QED BY <2>1, <2>2, <1>9, <1>1 DEF RunState
<1>11. ASSUME NEW p \in Pods, Evicted(r, p) PROVE SerialInv'
  <2>1. [run[r] EXCEPT !.victims = @ \ {p}] \in RunState
    BY <1>1 DEF RunState
  <2>2. /\ Become(r, [run[r] EXCEPT !.victims = @ \ {p}])
        /\ run[r].pc = "evict" /\ UNCHANGED <<node, placed>>
    BY <1>11 DEF Evicted
  <2> QED BY <2>1, <2>2, <1>9, <1>1 DEF RunState
<1> QED
  BY <1>4, <1>5, <1>6, <1>7, <1>8, <1>10, <1>11 DEF Evict, EvictFails

\* The two writes a run makes, as the invariant sees them.
LEMMA ReapWriteEffect ==
  ASSUME SerialInv, NEW r \in Runs, ReapWrite(r), NEW n, n = run[r].target
  PROVE  /\ n \in Nodes /\ n \in ToReap(r) /\ node[n].here /\ node[n].marked
         /\ \A m \in Nodes : m # n => node'[m] = node[m] /\ placed'[m] = placed[m]
         /\ node'[n].here /\ ~node'[n].prior /\ ~ToolCordoned(n)'
         /\ n \in run[r].release => ~node'[n].unsched
         /\ n \notin run[r].release => node'[n].unsched = node[n].unsched
         /\ node'[n].reaped = run[r].lag
         /\ ToolCordoned(n) => n \in run[r].release /\ TTL > 0 /\ node[n].stamp >= TTL
<1>1. TypeOK /\ run[r].pc = "reapWrite" /\ copy[r] = n
  BY DEF SerialInv, ReapWrite
<1>2. RunInv(r)
  BY <1>1 DEF SerialInv, Active
<1>3. n \in Nodes /\ n \in ToReap(r) /\ node[n].here /\ node[n].marked
  BY <1>1, <1>2 DEF RunInv, ReapSound
<1>4. ToolCordoned(n) => n \in run[r].release /\ TTL > 0 /\ node[n].stamp >= TTL
  BY <1>2, <1>3 DEF RunInv, ReapSound, ToReap
<1>5. node[n] \in NodeObject /\ ~node[n].prior
  BY <1>1, <1>3 DEF TypeOK, SerialInv, PriorNeverSet
<1>6. node'[n] = ReapedObject(r, n) /\ \A m \in Nodes : m # n => node'[m] = node[m]
  BY <1>1, <1>3 DEF ReapWrite, WriteNode, TypeOK
<1>7. /\ \A m \in Nodes : m # n => placed'[m] = placed[m]
      /\ placed'[n] = IF ReapedObject(r, n).unsched THEN placed[n] ELSE "nobody"
  BY <1>1, <1>3 DEF ReapWrite, TypeOK
<1>8. LET o == ReapedObject(r, n) IN
      /\ o.here /\ ~o.prior /\ o.reaped = run[r].lag
      /\ n \in run[r].release => ~o.unsched
      /\ n \notin run[r].release => o.unsched = node[n].unsched
  BY <1>3, <1>5 DEF ReapedObject, Reaped, NodeObject
<1>9. ~ToolCordoned(n)'
  BY <1>3, <1>4, <1>6, <1>7, <1>8 DEF ToolCordoned
<1> QED BY <1>3, <1>4, <1>6, <1>7, <1>8, <1>9

LEMMA ClaimEffect ==
  ASSUME SerialInv, NEW r \in Runs, Claim(r), NEW n, n = run[r].target
  PROVE  /\ n \in Nodes /\ n # run[r].home /\ PoolAtRest(PoolOf[n])
         /\ node[n].here /\ ~node[n].unsched
         /\ \A m \in Nodes : m # n => node'[m] = node[m] /\ placed'[m] = placed[m]
         /\ node'[n].here /\ ~node'[n].prior /\ node'[n].marked
         /\ ToolCordoned(n)'
         /\ node'[n].stamp = run[r].lag /\ node'[n].reaped = ReapedMax
<1>1. TypeOK /\ run[r].pc = "claim" /\ copy[r] = n
  BY DEF SerialInv, Claim
<1>2. RunInv(r)
  BY <1>1 DEF SerialInv, Active
<1>3. n \in Nodes /\ node[n].here /\ ~node[n].unsched
  BY <1>1, <1>2 DEF RunInv
<1>4. n # run[r].home /\ PoolAtRest(PoolOf[n])
  BY <1>1, <1>2 DEF RunInv, Picks
<1>5. node[n] \in NodeObject
  BY <1>1, <1>3 DEF TypeOK
<1>6. node'[n] = ClaimedObject(r, n) /\ \A m \in Nodes : m # n => node'[m] = node[m]
  BY <1>1, <1>3 DEF Claim, WriteNode, TypeOK
<1>7. placed'[n] = "tool" /\ \A m \in Nodes : m # n => placed'[m] = placed[m]
  BY <1>1, <1>3 DEF Claim, TypeOK
<1>8. LET o == ClaimedObject(r, n) IN
      /\ o.here /\ ~o.prior /\ o.marked /\ o.unsched
      /\ o.stamp = run[r].lag /\ o.reaped = ReapedMax
  BY <1>3, <1>5 DEF ClaimedObject, NodeObject
<1> QED BY <1>3, <1>4, <1>6, <1>7, <1>8 DEF ToolCordoned

\* After a write by the one active run, the other runs are idle still.
LEMMA OneRunMoves ==
  ASSUME SerialInv, NEW r \in Runs, Active(r), NEW s, Become(r, s)
  PROVE  /\ run'[r] = s
         /\ \A q \in Runs : q # r => ~Active(q) /\ run'[q] = run[q]
         /\ \A q \in Runs : Active(q)' => q = r
         /\ SoleRun'
BY DEF SerialInv, TypeOK, SoleRun, Become, Active

LEMMA ReapWriteKeeps ==
  ASSUME SerialInv, TypeOK', NEW r \in Runs, ReapWrite(r)
  PROVE  SerialInv'
<1> PICK n : n = run[r].target
  OBVIOUS
<1> DEFINE s == Reviewed(r, n)
<1>1. TypeOK /\ run[r] \in RunState /\ run[r].pc = "reapWrite" /\ Active(r) /\ Become(r, s)
  BY DEF SerialInv, TypeOK, ReapWrite, Active
<1>2. RunInv(r)
  BY <1>1 DEF SerialInv
<1>3. /\ s.pc = "reap" /\ s.home = run[r].home /\ s.live = run[r].live
      /\ s.clear = run[r].clear \ {n} /\ s.release = run[r].release \ {n}
  BY <1>1 DEF RunState, Reviewed
<1>4. run'[r] = s /\ SoleRun' /\ \A q \in Runs : Active(q)' => q = r
  BY <1>1, OneRunMoves
<1> HIDE DEF s
<1>5. /\ \A m \in Nodes : m # n => node'[m] = node[m] /\ placed'[m] = placed[m]
      /\ n \in Nodes /\ node'[n].here /\ ~node'[n].prior /\ ~ToolCordoned(n)'
  BY ReapWriteEffect
<1>6. \A m \in Nodes : ToolCordoned(m)' => ToolCordoned(m) /\ m # n
  BY <1>5 DEF ToolCordoned
<1>7. ToReap(r)' = ToReap(r) \ {n} /\ Picks(r)' = {} /\ ToReap(r) \subseteq Nodes
  BY <1>1, <1>3, <1>4 DEF ToReap, Picks, RunState
<1>8. ReapSound(r)'
  BY <1>2, <1>3, <1>4, <1>5, <1>6, <1>7 DEF RunInv, ReapSound
<1>9. RunInv(r)'
  BY <1>1, <1>2, <1>3, <1>4, <1>7, <1>8 DEF RunInv
<1>10. EveryToolCordonMarked' /\ OneToolCordonPerPool' /\ PriorNeverSet' /\ GoneRested'
  BY <1>5, <1>6
  DEF SerialInv, EveryToolCordonMarked, OneToolCordonPerPool, PriorNeverSet, GoneRested
<1>11. HomeNotCordoned'
  BY <1>1, <1>2, <1>3, <1>4, <1>6 DEF SerialInv, HomeNotCordoned, RunInv
<1> QED BY <1>4, <1>9, <1>10, <1>11 DEF SerialInv

LEMMA ClaimKeeps ==
  ASSUME SerialInv, TypeOK', NEW r \in Runs, Claim(r)
  PROVE  SerialInv'
<1> PICK n : n = run[r].target
  OBVIOUS
<1> DEFINE s == [run[r] EXCEPT !.pc = "evict"]
<1>1. TypeOK /\ run[r] \in RunState /\ run[r].pc = "claim" /\ Active(r) /\ Become(r, s)
  BY DEF SerialInv, TypeOK, Claim, Active
<1>2. RunInv(r)
  BY <1>1 DEF SerialInv
<1>3. /\ s.pc = "evict" /\ s.home = run[r].home /\ s.live = run[r].live
      /\ s.clear = run[r].clear /\ s.release = run[r].release /\ s.target = n
  BY <1>1 DEF RunState
<1>4. run'[r] = s /\ SoleRun' /\ \A q \in Runs : Active(q)' => q = r
  BY <1>1, OneRunMoves
<1> HIDE DEF s
<1>5. /\ \A m \in Nodes : m # n => node'[m] = node[m] /\ placed'[m] = placed[m]
      /\ n \in Nodes /\ node'[n].here /\ ~node'[n].prior /\ node'[n].marked
      /\ n # run[r].home /\ PoolAtRest(PoolOf[n])
  BY ClaimEffect
<1>6. \A m \in Nodes : m # n => ToolCordoned(m)' = ToolCordoned(m)
  BY <1>5 DEF ToolCordoned
<1>7. ToReap(r)' = {} /\ Picks(r)' = {}
  BY <1>1, <1>2, <1>3, <1>4 DEF ToReap, Picks, RunInv
<1>8. RunInv(r)'
  BY <1>1, <1>2, <1>3, <1>4, <1>7 DEF RunInv, ReapSound
<1>9. EveryToolCordonMarked' /\ PriorNeverSet' /\ GoneRested'
  BY <1>5, <1>6 DEF SerialInv, EveryToolCordonMarked, PriorNeverSet, GoneRested
<1>10. \A m \in Nodes : PoolOf[m] = PoolOf[n] => ~ToolCordoned(m)
  BY <1>5 DEF PoolAtRest, ToolCordoned
<1>11. OneToolCordonPerPool'
  BY <1>6, <1>10 DEF SerialInv, OneToolCordonPerPool
<1>12. HomeNotCordoned'
  BY <1>1, <1>2, <1>3, <1>4, <1>5, <1>6 DEF SerialInv, HomeNotCordoned, RunInv
<1> QED BY <1>4, <1>8, <1>9, <1>11, <1>12 DEF SerialInv

LEMMA StartKeeps ==
  ASSUME SerialInv, TypeOK', ~Overlap, NEW r \in Runs, Start(r)
  PROVE  SerialInv'
<1>1. TypeOK
  BY DEF SerialInv
<1>2. PICK h \in Nodes, live \in Modes, v \in Verdicts :
        /\ Usable(h)
        /\ Become(r, [IdleRun EXCEPT !.pc = IF live THEN "halt" ELSE "reapList",
                                     !.live = live, !.home = h, !.verdict = v])
  BY DEF Start
<1> DEFINE s == [IdleRun EXCEPT !.pc = IF live THEN "halt" ELSE "reapList",
                                !.live = live, !.home = h, !.verdict = v]
<1>3. /\ s.pc = IF live THEN "halt" ELSE "reapList"
      /\ s.home = h /\ s.live = live /\ s.clear = {} /\ s.release = {}
  BY DEF IdleRun
<1>4. run'[r] = s /\ \A q \in Runs : q # r => run'[q] = run[q]
  BY <1>1, <1>2 DEF Become, TypeOK
<1>5. \A q \in Runs : ~Active(q)
  BY DEF Start
<1> HIDE DEF s
<1>6. \A q \in Runs : Active(q)' => q = r
  BY <1>4, <1>5 DEF Active
<1>7. \A n \in Nodes :
        /\ node'[n].here = node[n].here /\ node'[n].unsched = node[n].unsched
        /\ node'[n].marked = node[n].marked /\ node'[n].prior = node[n].prior
        /\ node'[n].reaped = node[n].reaped /\ placed'[n] = placed[n]
  BY <1>1 DEF Start, TypeOK, NodeObject
<1>8. \A n \in Nodes : ToolCordoned(n)' = ToolCordoned(n)
  BY <1>7 DEF ToolCordoned
<1>9. RunInv(r)'
  BY <1>3, <1>4 DEF RunInv, ToReap, ReapSound, Picks
<1>10. HomeNotCordoned'
  BY <1>2, <1>3, <1>4, <1>6, <1>8 DEF HomeNotCordoned, ToolCordoned, Usable
<1>11. EveryToolCordonMarked' /\ OneToolCordonPerPool' /\ PriorNeverSet' /\ GoneRested'
  BY <1>7, <1>8
  DEF SerialInv, EveryToolCordonMarked, OneToolCordonPerPool, PriorNeverSet, GoneRested
<1> QED BY <1>6, <1>9, <1>10, <1>11 DEF SerialInv, SoleRun

LEMMA SerialPreserved ==
  ASSUME ~Overlap, SerialInv, [Next]_vars
  PROVE  SerialInv'
<1>1. TypeOK'
  BY TypePreserved DEF SerialInv
<1>2. CASE UNCHANGED vars
  BY <1>1, <1>2, SameNodes DEF vars
<1>3. CASE Outside
  BY <1>1, <1>3, OutsideKeeps
<1>4. ASSUME NEW r \in Runs, Start(r) PROVE SerialInv'
  BY <1>1, <1>4, StartKeeps
<1>5. ASSUME NEW r \in Runs, RunStep(r) PROVE SerialInv'
  <2>1. CASE ReapWrite(r)
    BY <1>1, <2>1, ReapWriteKeeps
  <2>2. CASE Claim(r)
    BY <1>1, <2>2, ClaimKeeps
  <2>3. CASE Return(r)
    <3>1. Active(r)
      BY <2>3 DEF Return, ReapDone, Active
    <3> QED BY <1>1, <2>3, <3>1, FinishKeeps DEF Return
  <2> QED
    BY <1>1, <1>5, <2>1, <2>2, <2>3, ReaperLooks, NudgerLooks DEF RunStep
<1>6. ASSUME NEW r \in Runs, Crash(r) PROVE SerialInv'
  BY <1>1, <1>6, FinishKeeps DEF Crash
<1> QED
  BY <1>2, <1>3, <1>4, <1>5, <1>6 DEF Next

THEOREM SerialInvariance ==
  ASSUME ~Overlap
  PROVE  Spec => []SerialInv
<1>1. SerialInv /\ [Next]_vars => SerialInv'
  BY SerialPreserved
<1> QED BY <1>1, SerialInit, PTL DEF Spec

\* With runs that do not overlap, every cordon of the tool can be found by a
\* later run, whatever failed or raced before (cordon.go: claimCordon).
THEOREM CordonsStayMarked ==
  ASSUME ~Overlap
  PROVE  Spec => []EveryToolCordonMarked
<1>1. SerialInv => EveryToolCordonMarked
  BY DEF SerialInv
<1> QED BY <1>1, SerialInvariance, PTL

\* With runs that do not overlap, the tool holds at most one node of a pool
\* (nudger.go: the pool gate in front of the claim).
THEOREM OneCordonPerPool ==
  ASSUME ~Overlap
  PROVE  Spec => []OneToolCordonPerPool
<1>1. SerialInv => OneToolCordonPerPool
  BY DEF SerialInv
<1> QED BY <1>1, SerialInvariance, PTL

\* With runs that do not overlap, no run cordons the node it runs on
\* (nudger.go: SelfNamespace).
THEOREM OwnNodeSpared ==
  ASSUME ~Overlap
  PROVE  Spec => []HomeNotCordoned
<1>1. SerialInv => HomeNotCordoned
  BY DEF SerialInv
<1> QED BY <1>1, SerialInvariance, PTL

-----------------------------------------------------------------------------
(* What a step may do to the cordons.                                      *)

\* Seen from the nodes there are two kinds of step of a run: its two writes,
\* and all others.
LEMMA RunTouchesNodes ==
  ASSUME NEW r \in Runs, RunStep(r) \/ Crash(r)
  PROVE  \/ UNCHANGED <<node, placed>>
         \/ ReapWrite(r) \/ Claim(r)
BY DEF RunStep, Crash, Return, Finish, HaltCheck, ReapList, ReapNothing, ReapWriteFails,
       ListNodes, ListPods, GetTarget, GetCordonedTarget, ReapGet, ReapGetFails, Select,
       Discard, Evict, EvictFails, Evicted

\* The outside actors leave the state of every run alone.
LEMMA OutsideIsNobodysRun ==
  ASSUME TypeOK, Outside, NEW r \in Runs
  PROVE  ~ByRun(r)
<1>1. CASE Tick
  <2>1. run'[r] = IF Active(r) THEN [run[r] EXCEPT !.lag = @ + 1] ELSE run[r]
    BY <1>1 DEF Tick
  <2> QED BY <2>1 DEF ByRun, TypeOK, RunState
<1>2. CASE run' = run
  BY <1>2 DEF ByRun
<1> QED
  BY <1>1, <1>2
  DEF Outside, SetHalt, Restart, OperatorCordon, OperatorUncordon, GarbleStamp,
      KubeletReport, RemoveNode, AddNode, Schedule

\* Starting a run changes no cordon.
LEMMA StartTouchesNodes ==
  ASSUME TypeOK, NEW r \in Runs, Start(r)
  PROVE  /\ UNCHANGED placed
         /\ \A n \in Nodes :
              /\ node'[n].here = node[n].here /\ node'[n].unsched = node[n].unsched
              /\ node'[n].marked = node[n].marked /\ node'[n].stamp = node[n].stamp
              /\ node'[n].reaped = node[n].reaped
BY DEF Start, TypeOK, NodeObject

LEMMA UnmarkedStep ==
  ASSUME SerialInv, [Next]_vars, NEW q \in Runs, NEW n \in Nodes,
         ByRun(q), node[n].here, node[n].unsched, ~node[n].marked
  PROVE  node'[n].unsched
<1>1. TypeOK
  BY DEF SerialInv
<1>2. CASE UNCHANGED vars
  BY <1>2 DEF vars
<1>3. CASE Outside
  BY <1>1, <1>3, OutsideIsNobodysRun
<1>4. ASSUME NEW r \in Runs, Start(r) PROVE node'[n].unsched
  BY <1>1, <1>4, StartTouchesNodes
<1>5. ASSUME NEW r \in Runs, RunStep(r) \/ Crash(r) PROVE node'[n].unsched
  <2>1. CASE UNCHANGED <<node, placed>>
    BY <2>1
  <2>2. CASE ReapWrite(r)
    BY <2>2, ReapWriteEffect
  <2>3. CASE Claim(r)
    BY <2>3, ClaimEffect
  <2> QED BY <1>5, <2>1, <2>2, <2>3, RunTouchesNodes
<1> QED BY <1>2, <1>3, <1>4, <1>5 DEF Next

\* With runs that do not overlap, a cordon without annotations is never
\* reversed by the tool (cordon.go: ReapStaleCordons, releaseCordon).
THEOREM UnmarkedCordonsKept ==
  ASSUME ~Overlap
  PROVE  Spec => UnmarkedCordonKept
<1>1. SerialInv /\ [Next]_vars =>
        [\A r \in Runs, n \in Nodes :
           ByRun(r) /\ node[n].here /\ node[n].unsched /\ ~node[n].marked
             => node'[n].unsched]_vars
  BY UnmarkedStep
<1> QED BY <1>1, SerialInvariance, PTL DEF Spec, UnmarkedCordonKept

LEMMA YoungStep ==
  ASSUME SerialInv, [Next]_vars, NEW q \in Runs, NEW n \in Nodes,
         ByRun(q), ToolCordoned(n), TTL = 0 \/ node[n].stamp < TTL
  PROVE  node'[n].unsched /\ node'[n].marked
<1>1. TypeOK /\ node[n].unsched /\ node[n].marked
  BY DEF SerialInv, EveryToolCordonMarked, ToolCordoned
<1>t. TTL \in Nat /\ node[n].stamp \in Int
  BY <1>1, ConstantsAssumption, AgesInRange DEF ConstantsAssumption, TypeOK, NodeObject
<1>2. CASE UNCHANGED vars
  BY <1>1, <1>2 DEF vars
<1>3. CASE Outside
  BY <1>1, <1>3, OutsideIsNobodysRun
<1>4. ASSUME NEW r \in Runs, Start(r) PROVE node'[n].unsched /\ node'[n].marked
  BY <1>1, <1>4, StartTouchesNodes
<1>5. ASSUME NEW r \in Runs, RunStep(r) \/ Crash(r)
      PROVE  node'[n].unsched /\ node'[n].marked
  <2>1. CASE UNCHANGED <<node, placed>>
    BY <1>1, <2>1
  <2>2. CASE ReapWrite(r)
    <3>1. n # run[r].target
      BY <2>2, <1>t, ReapWriteEffect
    <3> QED BY <1>1, <2>2, <3>1, ReapWriteEffect
  <2>3. CASE Claim(r)
    <3>1. n # run[r].target
      BY <1>1, <2>3, ClaimEffect
    <3> QED BY <1>1, <2>3, <3>1, ClaimEffect
  <2> QED BY <1>5, <2>1, <2>2, <2>3, RunTouchesNodes
<1> QED BY <1>2, <1>3, <1>4, <1>5 DEF Next

\* With runs that do not overlap, a cordon of the tool is not reversed before
\* TTL, and never when the reaper is disabled (cordon.go:125 and 166).
THEOREM YoungCordonsHeld ==
  ASSUME ~Overlap
  PROVE  Spec => YoungCordonHeld
<1>1. SerialInv /\ [Next]_vars =>
        [\A r \in Runs, n \in Nodes :
           ByRun(r) /\ ToolCordoned(n) /\ (TTL = 0 \/ node[n].stamp < TTL)
             => node'[n].unsched /\ node'[n].marked]_vars
  BY YoungStep
<1> QED BY <1>1, SerialInvariance, PTL DEF Spec, YoungCordonHeld

LEMMA OutsideNeverClaims ==
  ASSUME TypeOK, Outside, NEW n \in Nodes, ToolCordoned(n)'
  PROVE  ToolCordoned(n)
<1>1. CASE Tick
  BY <1>1, ZenonT(40) DEF Tick, TypeOK, NodeObject, ToolCordoned
<1>2. CASE UNCHANGED <<node, placed>>
  BY <1>2 DEF ToolCordoned
<1>3. ASSUME NEW m \in Nodes, OperatorCordon(m) PROVE ToolCordoned(n)
  BY <1>3 DEF OperatorCordon, WriteNode, TypeOK, ToolCordoned
<1>4. ASSUME NEW m \in Nodes, OperatorUncordon(m) PROVE ToolCordoned(n)
  BY <1>4 DEF OperatorUncordon, WriteNode, TypeOK, ToolCordoned
<1>5. ASSUME NEW m \in Nodes, GarbleStamp(m) PROVE ToolCordoned(n)
  BY <1>5 DEF GarbleStamp, WriteNode, TypeOK, NodeObject, ToolCordoned
<1>6. ASSUME NEW m \in Nodes, KubeletReport(m) PROVE ToolCordoned(n)
  <2> DEFINE b == ~node[m].ready
  <2>1. node' = [node EXCEPT ![m] = [node[m] EXCEPT !.ready = b]] /\ placed' = placed
    BY <1>6 DEF KubeletReport, WriteNode
  <2> HIDE DEF b
  <2> QED BY <2>1 DEF TypeOK, NodeObject, ToolCordoned
<1>7. ASSUME NEW m \in Nodes, RemoveNode(m) PROVE ToolCordoned(n)
  BY <1>7 DEF RemoveNode, WriteNode, TypeOK, ToolCordoned
<1>8. ASSUME NEW m \in Nodes, AddNode(m) PROVE ToolCordoned(n)
  BY <1>8 DEF AddNode, WriteNode, TypeOK, ToolCordoned, FreshNode
<1> QED
  BY <1>1, <1>2, <1>3, <1>4, <1>5, <1>6, <1>7, <1>8
  DEF Outside, SetHalt, Restart, Schedule

LEMMA BenchStep ==
  ASSUME SerialInv, [Next]_vars, NEW n \in Nodes, ~ToolCordoned(n), ToolCordoned(n)',
         NEW m \in PoolNodes(PoolOf[n])
  PROVE  node[m].reaped >= Cooldown
<1>1. TypeOK
  BY DEF SerialInv
<1>2. CASE UNCHANGED <<node, placed>>
  BY <1>2 DEF ToolCordoned
<1>3. CASE Outside
  BY <1>1, <1>3, OutsideNeverClaims
<1>4. ASSUME NEW r \in Runs, Start(r) PROVE FALSE
  BY <1>1, <1>4, StartTouchesNodes DEF ToolCordoned
<1>5. ASSUME NEW r \in Runs, RunStep(r) \/ Crash(r)
      PROVE  node[m].reaped >= Cooldown
  <2>1. CASE ReapWrite(r)
    <3>1. PICK k : k = run[r].target
      OBVIOUS
    <3>2. k # n
      BY <2>1, <3>1, ReapWriteEffect
    <3> QED BY <2>1, <3>1, <3>2, ReapWriteEffect DEF ToolCordoned
  <2>2. CASE Claim(r)
    <3>1. PICK k : k = run[r].target
      OBVIOUS
    <3>2. k = n
      BY <2>2, <3>1, ClaimEffect DEF ToolCordoned
    <3>3. PoolAtRest(PoolOf[k])
      BY <2>2, <3>1, ClaimEffect
    <3>4. PoolAtRest(PoolOf[n])
      BY <3>2, <3>3
    <3> QED BY <3>4 DEF PoolAtRest, PoolNodes
  <2> QED BY <1>2, <1>5, <2>1, <2>2, RunTouchesNodes
<1> QED BY <1>2, <1>3, <1>4, <1>5 DEF Next, vars

\* With runs that do not overlap, a pool in which the reaper reversed a cordon
\* is left alone for Cooldown (nudger.go:242 and 375).
THEOREM BenchesHonoured ==
  ASSUME ~Overlap
  PROVE  Spec => BenchHonoured
<1>1. SerialInv /\ [Next]_vars =>
        [\A n \in Nodes : ~ToolCordoned(n) /\ ToolCordoned(n)'
           => \A m \in PoolNodes(PoolOf[n]) : node[m].reaped >= Cooldown]_vars
  BY BenchStep
<1> QED BY <1>1, SerialInvariance, PTL DEF Spec, BenchHonoured

LEMMA DryStep ==
  ASSUME ~Overlap, SerialInv, [Next]_vars, NEW q \in Runs,
         ByRun(q), Active(q), ~run[q].live
  PROVE  UNCHANGED <<node, host>>
<1>1. TypeOK /\ RunInv(q)
  BY DEF SerialInv
<1>2. run[q].pc \in {"reapList", "reap", "pods", "select"}
  BY <1>1 DEF RunInv
<1>3. ASSUME NEW r \in Runs, Start(r) PROVE FALSE
  BY <1>3 DEF Start
<1>4. ASSUME NEW r \in Runs, RunStep(r) \/ Crash(r) PROVE UNCHANGED <<node, host>>
  <2>1. Active(r)
    BY <1>4 DEF RunStep, Active, HaltCheck, ReapList, ReapNothing, ReapWrite, ReapWriteFails,
                ListNodes, ReapDone, ListPods, GetTarget, GetCordonedTarget, Claim, Return,
                ReapGet, ReapGetFails, Select, Discard, Evict, EvictFails, Evicted, Crash
  <2>2. r = q
    BY <2>1 DEF SerialInv, SoleRun
  <2> QED
    BY <1>2, <1>4, <2>2
    DEF RunStep, HaltCheck, ReapList, ReapNothing, ReapWrite, ReapWriteFails, ListNodes,
        ListPods, GetTarget, GetCordonedTarget, Claim, Return, Finish, ReapGet, ReapGetFails,
        Select, Discard, Evict, EvictFails, Evicted, Crash
<1>5. ~Outside /\ ~UNCHANGED vars
  BY <1>1, OutsideIsNobodysRun DEF vars, ByRun
<1> QED BY <1>3, <1>4, <1>5 DEF Next

\* A dry-run writes nothing, at any point of the pass (the checks of
\* Options.Live in cordon.go and nudger.go).
THEOREM DryRunsReadOnly ==
  ASSUME ~Overlap
  PROVE  Spec => DryRunReadOnly
<1>1. SerialInv /\ [Next]_vars =>
        [\A r \in Runs : ByRun(r) /\ Active(r) /\ ~run[r].live
           => UNCHANGED <<node, host>>]_vars
  BY DryStep
<1> QED BY <1>1, SerialInvariance, PTL DEF Spec, DryRunReadOnly

-----------------------------------------------------------------------------
(* When runs do not overlap, the consolidation pass implements             *)
(* CordonLease: every step of Nudger is a step of the leases or changes    *)
(* none of them.                                                           *)

LEMMA LeaseStates ==
  ASSUME NEW n
  PROVE  /\ LeaseState(n) \in {"open", "leased", "held", "gone"}
         /\ LeaseState(n) = "leased" <=> ToolCordoned(n)
         /\ LeaseState(n) = "gone" <=> ~node[n].here
         /\ LeaseState(n) = "open" <=> node[n].here /\ ~node[n].unsched
BY DEF LeaseState, ToolCordoned

LEMMA LeaseInitially == Init => Lease!LeaseInit
<1> SUFFICES ASSUME Init PROVE Lease!LeaseInit
  OBVIOUS
<1>1. \A n \in Nodes : /\ LeaseState(n) = "open" /\ LeaseAge(n) = 0
                       /\ node[n].reaped = ReapedMax
  BY DEF Init, FreshNode, LeaseState, LeaseAge, ToolCordoned
<1> QED BY <1>1 DEF Lease!LeaseInit, Lease!RestTop, ReapedMax

\* What the leases show of node n is the same after the step.
Shows(n) ==
  LeaseState(n)' = LeaseState(n) /\ LeaseAge(n)' = LeaseAge(n)
    /\ node'[n].reaped = node[n].reaped

LEMMA SameLeases ==
  ASSUME \A n \in Nodes : Shows(n)
  PROVE  UNCHANGED Lease!leaseVars
BY DEF Shows, Lease!leaseVars

LEMMA SameNodeShows ==
  ASSUME NEW n, node'[n] = node[n], placed'[n] = placed[n]
  PROVE  Shows(n)
BY DEF Shows, LeaseState, LeaseAge, ToolCordoned

\* One node changes through somebody who is not a run.
LEMMA ForeignLease ==
  ASSUME NEW n \in Nodes, \A m \in Nodes : m # n => Shows(m),
         LeaseState(n)' # "leased",
         node'[n].reaped = IF LeaseState(n)' = "gone" THEN ReapedMax ELSE node[n].reaped
  PROVE  Lease!Foreign(n)
<1> DEFINE t == LeaseState(n)'
<1>1. t \in Lease!States \ {"leased"}
  BY DEF LeaseState, Lease!States
<1>2. [m \in Nodes |-> LeaseState(m)]' = [[m \in Nodes |-> LeaseState(m)] EXCEPT ![n] = t]
  BY DEF Shows
<1>3. LeaseAge(n)' = 0
  BY DEF LeaseAge, LeaseState, ToolCordoned
<1>4. [m \in Nodes |-> LeaseAge(m)]' = [[m \in Nodes |-> LeaseAge(m)] EXCEPT ![n] = 0]
  BY <1>3 DEF Shows
<1>5. [m \in Nodes |-> node[m].reaped]' =
        [[m \in Nodes |-> node[m].reaped] EXCEPT ![n] = IF t = "gone" THEN ReapedMax ELSE @]
  BY DEF Shows
<1> HIDE DEF t
<1> QED BY <1>1, <1>2, <1>4, <1>5 DEF Lease!Foreign, Lease!RestTop, ReapedMax

\* The claim starts a lease in a pool that is free of leases and rested.
LEMMA ClaimIsGrant ==
  ASSUME SerialInv, TypeOK', NEW r \in Runs, Claim(r), NEW n, n = run[r].target
  PROVE  Lease!Grant(n)
<1>1. TypeOK /\ run[r].lag \in 0..MaxLag
  BY DEF SerialInv, TypeOK, RunState
<1>2. /\ n \in Nodes /\ node[n].here /\ ~node[n].unsched /\ PoolAtRest(PoolOf[n])
      /\ \A m \in Nodes : m # n => node'[m] = node[m] /\ placed'[m] = placed[m]
      /\ ToolCordoned(n)' /\ node'[n].stamp = run[r].lag /\ node'[n].reaped = ReapedMax
  BY ClaimEffect
<1>3. \A m \in Nodes : m # n => Shows(m)
  BY <1>2, SameNodeShows
<1>4. LeaseState(n) = "open" /\ LeaseState(n)' = "leased" /\ LeaseAge(n)' = run[r].lag
  BY <1>2 DEF LeaseState, LeaseAge, ToolCordoned
<1>5. \A m \in Lease!Peers(n) : LeaseState(m) # "leased" /\ node[m].reaped >= Cooldown
  BY <1>2, LeaseStates DEF Lease!Peers, PoolAtRest
<1>6. [m \in Nodes |-> LeaseState(m)]' = [[m \in Nodes |-> LeaseState(m)] EXCEPT ![n] = "leased"]
  BY <1>3, <1>4 DEF Shows
<1>7. [m \in Nodes |-> LeaseAge(m)]' = [[m \in Nodes |-> LeaseAge(m)] EXCEPT ![n] = run[r].lag]
  BY <1>3, <1>4 DEF Shows
<1>8. [m \in Nodes |-> node[m].reaped]' =
        [[m \in Nodes |-> node[m].reaped] EXCEPT ![n] = ReapedMax]
  BY <1>2, <1>3 DEF Shows
<1>9. Lease!Peers(n) \subseteq Nodes
  BY DEF Lease!Peers
<1> QED
  BY <1>1, <1>2, <1>4, <1>5, <1>6, <1>7, <1>8, <1>9
  DEF Lease!Grant, Lease!RestTop, ReapedMax

\* The reaper's write ends a lease that is due, or tidies up.
LEMMA ReapWriteIsExpireOrTidy ==
  ASSUME SerialInv, TypeOK', NEW r \in Runs, ReapWrite(r), NEW n, n = run[r].target
  PROVE  Lease!Expire(n) \/ Lease!Tidy(n)
<1>1. TypeOK /\ run[r].lag \in 0..MaxLag
  BY DEF SerialInv, TypeOK, RunState
<1>2. /\ n \in Nodes /\ node[n].here
      /\ \A m \in Nodes : m # n => node'[m] = node[m] /\ placed'[m] = placed[m]
      /\ node'[n].here /\ ~ToolCordoned(n)'
      /\ n \in run[r].release => ~node'[n].unsched
      /\ n \notin run[r].release => node'[n].unsched = node[n].unsched
      /\ node'[n].reaped = run[r].lag
      /\ ToolCordoned(n) => n \in run[r].release /\ TTL > 0 /\ node[n].stamp >= TTL
  BY ReapWriteEffect
<1>3. \A m \in Nodes : m # n => Shows(m)
  BY <1>2, SameNodeShows
<1>4. LeaseAge(n)' = 0
  BY <1>2 DEF LeaseAge
<1>5. [m \in Nodes |-> node[m].reaped]' =
        [[m \in Nodes |-> node[m].reaped] EXCEPT ![n] = run[r].lag]
  BY <1>2, <1>3 DEF Shows
<1>6. Lease!Rests(n)
  BY <1>1, <1>5 DEF Lease!Rests
<1>7. [m \in Nodes |-> LeaseState(m)]' =
        [[m \in Nodes |-> LeaseState(m)] EXCEPT ![n] = LeaseState(n)']
  BY <1>3 DEF Shows
<1>8. CASE ToolCordoned(n)
  <2>1. LeaseState(n) = "leased" /\ LeaseState(n)' = "open" /\ LeaseAge(n) = node[n].stamp
    BY <1>2, <1>8 DEF LeaseState, LeaseAge, ToolCordoned
  <2>2. [m \in Nodes |-> LeaseAge(m)]' = [[m \in Nodes |-> LeaseAge(m)] EXCEPT ![n] = 0]
    BY <1>3, <1>4 DEF Shows
  <2>3. [m \in Nodes |-> LeaseState(m)]' =
          [[m \in Nodes |-> LeaseState(m)] EXCEPT ![n] = "open"]
    BY <1>7, <2>1
  <2>4. TTL > 0 /\ LeaseAge(n) >= TTL
    BY <1>2, <1>8, <2>1
  <2> QED BY <1>2, <1>6, <2>1, <2>2, <2>3, <2>4 DEF Lease!Expire
<1>9. CASE ~ToolCordoned(n)
  <2>1. LeaseState(n) \in {"open", "held"}
    BY <1>2, <1>9 DEF LeaseState, ToolCordoned
  <2>2. LeaseAge(n) = 0 /\ [m \in Nodes |-> LeaseAge(m)]' = [m \in Nodes |-> LeaseAge(m)]
    BY <1>3, <1>4, <1>9 DEF Shows, LeaseAge
  <2>3. LeaseState(n)' \in {LeaseState(n), "open"}
    BY <1>2, <1>9 DEF LeaseState, ToolCordoned
  <2>4. [m \in Nodes |-> LeaseState(m)]' \in
          {[m \in Nodes |-> LeaseState(m)],
           [[m \in Nodes |-> LeaseState(m)] EXCEPT ![n] = "open"]}
    BY <1>7, <2>3
  <2> QED BY <1>2, <1>6, <2>1, <2>2, <2>4 DEF Lease!Tidy
<1> QED BY <1>8, <1>9

LEMMA TickIsTimePasses ==
  ASSUME SerialInv, TypeOK', Tick
  PROVE  Lease!TimePasses
<1>1. TypeOK
  BY DEF SerialInv
<1>2. ASSUME NEW n \in Nodes
      PROVE  /\ LeaseState(n)' = LeaseState(n)
             /\ LeaseAge(n)' = IF LeaseState(n) = "leased"
                               THEN Older(LeaseAge(n), StampMax) ELSE 0
             /\ node'[n].reaped = Older(node[n].reaped, ReapedMax)
  <2>1. /\ node'[n].here = node[n].here /\ node'[n].unsched = node[n].unsched
        /\ node'[n].stamp = IF node[n].marked THEN Older(node[n].stamp, StampMax)
                            ELSE node[n].stamp
        /\ node'[n].reaped = Older(node[n].reaped, ReapedMax)
        /\ placed'[n] = placed[n]
    BY <1>1 DEF Tick, TypeOK, NodeObject
  <2>2. ToolCordoned(n) => node[n].marked
    BY DEF SerialInv, EveryToolCordonMarked
  <2> QED BY <2>1, <2>2 DEF LeaseState, LeaseAge, ToolCordoned
<1>3. \A a, top : Older(a, top) = Lease!Later(a, top)
  BY DEF Older, Lease!Later
<1> QED BY <1>2, <1>3
    DEF Lease!TimePasses, Lease!AgeTop, Lease!RestTop, StampMax, ReapedMax

LEMMA OutsideIsLeaseStep ==
  ASSUME SerialInv, TypeOK', Outside
  PROVE  [Lease!LeaseNext]_(Lease!leaseVars)
<1>1. TypeOK
  BY DEF SerialInv
<1>2. CASE Tick
  BY <1>2, TickIsTimePasses DEF Lease!LeaseNext
<1>3. CASE SetHalt \/ \E p \in Pods : Restart(p) \/ \E n \in Nodes : Schedule(p, n)
  <2>1. node' = node /\ placed' = placed
    BY <1>3 DEF SetHalt, Restart, Schedule
  <2> QED BY <2>1, SameNodeShows, SameLeases
<1>4. ASSUME NEW n \in Nodes,
             OperatorCordon(n) \/ OperatorUncordon(n) \/ RemoveNode(n) \/ AddNode(n)
      PROVE  Lease!Foreign(n)
  <2>1. \A m \in Nodes : m # n => Shows(m)
    BY <1>1, <1>4, SameNodeShows
    DEF OperatorCordon, OperatorUncordon, RemoveNode, AddNode, WriteNode, TypeOK
  <2>2. CASE OperatorCordon(n)
    BY <1>1, <2>1, <2>2, ForeignLease
    DEF OperatorCordon, WriteNode, TypeOK, NodeObject, LeaseState
  <2>3. CASE OperatorUncordon(n)
    BY <1>1, <2>1, <2>3, ForeignLease
    DEF OperatorUncordon, WriteNode, TypeOK, NodeObject, LeaseState
  <2>4. CASE RemoveNode(n)
    <3>1. ~node'[n].here /\ node'[n].reaped = ReapedMax
      BY <1>1, <2>4 DEF RemoveNode, WriteNode, TypeOK, FreshNode
    <3> QED BY <2>1, <3>1, ForeignLease DEF LeaseState
  <2>5. CASE AddNode(n)
    <3>1. node'[n] = FreshNode /\ node[n].reaped = ReapedMax
      BY <1>1, <2>5 DEF AddNode, WriteNode, TypeOK, SerialInv, GoneRested
    <3>2. LeaseState(n)' = "open" /\ node'[n].reaped = node[n].reaped
      BY <3>1 DEF LeaseState, FreshNode
    <3> QED BY <2>1, <3>2, ForeignLease
  <2> QED BY <1>4, <2>2, <2>3, <2>4, <2>5
<1>5. ASSUME NEW n \in Nodes, KubeletReport(n)
      PROVE  UNCHANGED Lease!leaseVars
  <2>1. /\ node'[n].here = node[n].here /\ node'[n].unsched = node[n].unsched
        /\ node'[n].stamp = node[n].stamp /\ node'[n].reaped = node[n].reaped
        /\ placed' = placed /\ \A m \in Nodes : m # n => node'[m] = node[m]
    <3> DEFINE b == ~node[n].ready
    <3>1. node' = [node EXCEPT ![n] = [node[n] EXCEPT !.ready = b]] /\ placed' = placed
      BY <1>5 DEF KubeletReport, WriteNode
    <3> HIDE DEF b
    <3> QED BY <1>1, <3>1 DEF TypeOK, NodeObject
  <2>2. Shows(n)
    BY <2>1 DEF Shows, LeaseState, LeaseAge, ToolCordoned
  <2>3. \A m \in Nodes : m # n => Shows(m)
    BY <2>1, SameNodeShows
  <2> QED BY <2>2, <2>3, SameLeases
<1>6. ASSUME NEW n \in Nodes, GarbleStamp(n)
      PROVE  Lease!Overdue(n) \/ UNCHANGED Lease!leaseVars
  <2>1. /\ node'[n].here = node[n].here /\ node'[n].unsched = node[n].unsched
        /\ node'[n].stamp = StampMax /\ node'[n].reaped = node[n].reaped
        /\ placed' = placed /\ \A m \in Nodes : m # n => node'[m] = node[m]
    BY <1>1, <1>6, ZenonT(40) DEF GarbleStamp, WriteNode, TypeOK, NodeObject
  <2>2. \A m \in Nodes : m # n => Shows(m)
    BY <2>1, SameNodeShows
  <2>3. \A m \in Nodes : LeaseState(m)' = LeaseState(m) /\ node'[m].reaped = node[m].reaped
    BY <2>1, <2>2 DEF Shows, LeaseState
  <2>4. CASE ToolCordoned(n)
    <3>1. LeaseState(n) = "leased" /\ LeaseAge(n)' = StampMax
      BY <2>1, <2>4 DEF LeaseState, LeaseAge, ToolCordoned
    <3>2. [m \in Nodes |-> LeaseAge(m)]' = [[m \in Nodes |-> LeaseAge(m)] EXCEPT ![n] = StampMax]
      BY <2>2, <3>1 DEF Shows
    <3> QED BY <2>3, <3>1, <3>2 DEF Lease!Overdue, Lease!AgeTop, StampMax
  <2>5. CASE ~ToolCordoned(n)
    <3>1. Shows(n)
      BY <2>1, <2>5 DEF Shows, LeaseState, LeaseAge, ToolCordoned
    <3> QED BY <2>2, <3>1, SameLeases
  <2> QED BY <2>4, <2>5
<1> QED
  BY <1>2, <1>3, <1>4, <1>5, <1>6 DEF Outside, Lease!LeaseNext

LEMMA LeaseStep ==
  ASSUME SerialInv, TypeOK', [Next]_vars
  PROVE  [Lease!LeaseNext]_(Lease!leaseVars)
<1>1. TypeOK
  BY DEF SerialInv
<1>2. CASE UNCHANGED vars
  BY <1>2, SameNodeShows, SameLeases DEF vars
<1>3. CASE Outside
  BY <1>3, OutsideIsLeaseStep
<1>4. ASSUME NEW r \in Runs, Start(r) PROVE UNCHANGED Lease!leaseVars
  <2>1. \A n \in Nodes : Shows(n)
    BY <1>1, <1>4, StartTouchesNodes DEF Shows, LeaseState, LeaseAge, ToolCordoned
  <2> QED BY <2>1, SameLeases
<1>5. ASSUME NEW r \in Runs, RunStep(r) \/ Crash(r)
      PROVE  [Lease!LeaseNext]_(Lease!leaseVars)
  <2>1. CASE UNCHANGED <<node, placed>>
    BY <2>1, SameNodeShows, SameLeases
  <2>2. CASE ReapWrite(r)
    BY <2>2, ReapWriteIsExpireOrTidy, ReapWriteEffect DEF Lease!LeaseNext
  <2>3. CASE Claim(r)
    BY <2>3, ClaimIsGrant, ClaimEffect DEF Lease!LeaseNext
  <2> QED BY <1>5, <2>1, <2>2, <2>3, RunTouchesNodes
<1> QED BY <1>2, <1>3, <1>4, <1>5 DEF Next

\* With runs that do not overlap, operators and the autoscaler may rely on
\* the leases: the pass with all its calls, races, conflicts and crashes takes
\* no step that CordonLease does not allow.
THEOREM NudgerImplementsLease ==
  ASSUME ~Overlap
  PROVE  Spec => ImplementsLease
<1>1. SerialInv /\ SerialInv' /\ [Next]_vars => [Lease!LeaseNext]_(Lease!leaseVars)
  BY LeaseStep DEF SerialInv
<1> QED
  BY <1>1, LeaseInitially, SerialInvariance, PTL
  DEF Spec, ImplementsLease, Lease!LeaseSpec

-----------------------------------------------------------------------------
(* What a drain rests on.                                                  *)

LEMMA PoolNodesFinite ==
  ASSUME NEW p
  PROVE  IsFiniteSet(PoolNodes(p)) /\ Cardinality(PoolNodes(p)) \in Nat
<1>1. IsFiniteSet(Nodes) /\ PoolNodes(p) \in SUBSET Nodes
  BY ConstantsAssumption DEF ConstantsAssumption, PoolNodes
<1> QED BY <1>1, FS_Subset, FS_CardinalityType

LEMMA PodsFinite ==
  ASSUME NEW S \in SUBSET Pods
  PROVE  IsFiniteSet(S) /\ Cardinality(S) \in Nat
BY ConstantsAssumption, FS_Subset, FS_CardinalityType DEF ConstantsAssumption

\* Whether the pods of a node fit elsewhere depends on what was listed.
LEMMA SameList ==
  ASSUME NEW r, run'[r].seen = run[r].seen, run'[r].avail = run[r].avail
  PROVE  /\ \A n : Relocatable(r, n)' = Relocatable(r, n)
         /\ \A n : MayFit(r, n) => MayFit(r, n)'
<1>1. \A n : Relocatable(r, n)' = Relocatable(r, n)
  BY DEF Relocatable
<1>2. ASSUME NEW n, MayFit(r, n) PROVE MayFit(r, n)'
  <2>1. PICK a \in [Relocatable(r, n) -> run[r].avail \ {n}] :
          \A p \in Relocatable(r, n), d \in Resource :
            Requested(a, a[p], d) <= Free(run[r].seen, a[p], d)
    BY <1>2 DEF MayFit
  <2>2. /\ a \in [Relocatable(r, n)' -> run'[r].avail \ {n}]
        /\ \A p \in Relocatable(r, n)', d \in Resource :
             Requested(a, a[p], d) <= Free(run'[r].seen, a[p], d)
    BY <1>1, <2>1
  <2> QED BY <2>2 DEF MayFit
<1> QED BY <1>1, <1>2

LEMMA DrainInit == Init => DrainInv
<1> SUFFICES ASSUME Init PROVE DrainInv
  OBVIOUS
<1>1. \A r \in Runs : ~Active(r)
  BY DEF Init, Active, IdleRun
<1>2. \A n \in Nodes : node[n].here /\ ~node[n].unsched
  BY DEF Init, FreshNode
<1>3. PodsOnNodes
  BY <1>2, InitType DEF PodsOnNodes, TypeOK
<1> QED BY <1>1, <1>2, <1>3 DEF DrainInv, CordonsAreTheTools

\* What others may do to nodes and pods without upsetting a drain.
LEMMA DrainUndisturbed ==
  ASSUME TypeOK, TypeOK', NEW r \in Runs, RunInv(r), DrainSound(r),
         run'[r].pc = run[r].pc, run'[r].cands = run[r].cands,
         run'[r].target = run[r].target, run'[r].victims = run[r].victims,
         run'[r].seen = run[r].seen, run'[r].avail = run[r].avail,
         run'[r].verdict = run[r].verdict,
         \A q \in Pinned : host[q] # Nowhere => host'[q] = host[q],
         \A q \in Pods : host[q] # Nowhere => host'[q] # Nowhere \/ q \in Named,
         "operator" \notin Env \/ "autoscaler" \notin Env =>
           \A n \in Picks(r), m \in Nodes :
             PoolOf[m] = PoolOf[n] /\ node[m].here => node'[m].here,
         "operator" \notin Env /\ run[r].pc = "evict" =>
           LET n == run[r].target IN
           node'[n].here => node[n].here /\ node'[n].unsched = node[n].unsched
  PROVE  DrainSound(r)'
<1>1. Picks(r)' = Picks(r) /\ Picks(r) \subseteq Nodes
  BY DEF Picks, TypeOK, RunState, RunInv
<1>2. ASSUME NEW n \in Picks(r) PROVE PoolSpare(r, PoolOf[n])'
  <2>1. PoolSpare(r, PoolOf[n])
    BY <1>2 DEF DrainSound
  <2>2. ASSUME "operator" \notin Env \/ "autoscaler" \notin Env
        PROVE  Cardinality(PoolNodes(PoolOf[n]))' > run[r].verdict[PoolOf[n]].min
    <3>1. PoolNodes(PoolOf[n]) \in SUBSET PoolNodes(PoolOf[n])'
      BY <1>2, <2>2 DEF PoolNodes
    <3>2. /\ IsFiniteSet(PoolNodes(PoolOf[n])') /\ Cardinality(PoolNodes(PoolOf[n])) \in Nat
          /\ Cardinality(PoolNodes(PoolOf[n])') \in Nat
      <4>1. IsFiniteSet(Nodes) /\ PoolNodes(PoolOf[n])' \in SUBSET Nodes
        BY ConstantsAssumption DEF ConstantsAssumption, PoolNodes
      <4> QED BY <4>1, FS_Subset, FS_CardinalityType, PoolNodesFinite
    <3>3. Cardinality(PoolNodes(PoolOf[n])) <= Cardinality(PoolNodes(PoolOf[n])')
      BY <3>1, <3>2, FS_Subset
    <3>4. run[r].verdict[PoolOf[n]].min \in Nat
      BY <1>1, ConstantsAssumption DEF ConstantsAssumption, DrainSound, Verdict
    <3> QED BY <2>1, <2>2, <3>2, <3>3, <3>4 DEF PoolSpare
  <2> QED BY <2>1, <2>2 DEF PoolSpare
<1>3. /\ \A n : Relocatable(r, n)' = Relocatable(r, n)
      /\ \A n : MayFit(r, n) => MayFit(r, n)'
  BY SameList
<1>4. ListedStay(r) => ListedStay(r)'
  BY <1>1 DEF ListedStay
<1>5. Headroom(r) => Headroom(r)'
  <2> SUFFICES ASSUME Headroom(r), NEW b \in SelectorPdbs, NEW p \in run[r].victims, p \in PdbPods[b]
               PROVE  Cardinality(CountedOn(b))' > PdbMin[b]
    BY DEF Headroom
  <2>1. Cardinality(CountedOn(b)) > PdbMin[b] /\ PdbMin[b] \in Nat /\ PdbPods[b] \subseteq Pods
    BY ConstantsAssumption DEF ConstantsAssumption, Headroom
  <2>2. CountedOn(b) \in SUBSET Pods /\ CountedOn(b)' \in SUBSET Pods
    BY <2>1 DEF CountedOn
  <2>3. CountedOn(b) \in SUBSET CountedOn(b)'
    BY <2>1 DEF CountedOn
  <2>4. /\ IsFiniteSet(CountedOn(b)') /\ Cardinality(CountedOn(b)') \in Nat
        /\ Cardinality(CountedOn(b)) \in Nat
    BY <2>2, PodsFinite
  <2>5. Cardinality(CountedOn(b)) <= Cardinality(CountedOn(b)')
    BY <2>3, <2>4, FS_Subset
  <2> QED BY <2>1, <2>4, <2>5
<1> QED BY <1>1, <1>2, <1>3, <1>4, <1>5 DEF DrainSound

LEMMA OutsideKeepsDrains ==
  ASSUME SerialInv, DrainInv, TypeOK', Outside
  PROVE  DrainInv'
<1>1. TypeOK /\ Named \cap Pinned = {}
  BY ConstantsAssumption DEF SerialInv, ConstantsAssumption
\* The nodes.
<1>2. ASSUME NEW n \in Nodes, node[n].here, ~node'[n].here
      PROVE  RemoveNode(n)
  <2>1. ~Tick
    <3> SUFFICES ASSUME Tick PROVE FALSE
      OBVIOUS
    <3>1. node'[n] = [node[n] EXCEPT
                        !.stamp = IF node[n].marked THEN Older(@, StampMax) ELSE @,
                        !.reaped = Older(@, ReapedMax)]
      BY DEF Tick
    <3>2. node[n] \in NodeObject
      BY <1>1 DEF TypeOK
    <3>3. node'[n].here = node[n].here
      BY <3>1, <3>2 DEF NodeObject
    <3> QED BY <1>2, <3>3
  <2>2. PICK m \in Nodes :
          \/ OperatorCordon(m) \/ OperatorUncordon(m) \/ GarbleStamp(m)
          \/ KubeletReport(m) \/ RemoveNode(m) \/ AddNode(m)
    BY <2>1, <1>2 DEF Outside, SetHalt, Restart, Schedule
  <2>3. m = n
    BY <1>1, <1>2, <2>2 DEF OperatorCordon, OperatorUncordon, GarbleStamp, KubeletReport,
                            RemoveNode, AddNode, WriteNode, TypeOK
  <2>4. ~(OperatorCordon(n) \/ OperatorUncordon(n) \/ GarbleStamp(n) \/ AddNode(n))
    BY <1>1, <1>2 DEF OperatorCordon, OperatorUncordon, GarbleStamp, AddNode, FreshNode,
                      WriteNode, TypeOK, NodeObject
  <2>5. ~KubeletReport(n)
    <3> DEFINE b == ~node[n].ready
    <3>1. KubeletReport(n) => node' = [node EXCEPT ![n] = [node[n] EXCEPT !.ready = b]]
      BY DEF KubeletReport, WriteNode
    <3> HIDE DEF b
    <3> QED BY <1>1, <1>2, <3>1 DEF TypeOK, NodeObject
  <2> QED BY <2>2, <2>3, <2>4, <2>5
<1>3. ASSUME "operator" \notin Env, NEW n \in Nodes, node'[n].here
      PROVE  /\ node'[n].unsched => node[n].unsched /\ placed'[n] = placed[n]
             /\ node[n].here => node'[n].unsched = node[n].unsched
             /\ ~node[n].here => AddNode(n)
  <2>1. CASE Tick
    BY <1>1, <1>3, <2>1 DEF Tick, TypeOK, NodeObject
  <2>2. CASE UNCHANGED <<node, placed>>
    BY <1>3, <2>2
  <2>3. ASSUME NEW m \in Nodes, GarbleStamp(m)
        PROVE  node'[n].unsched = node[n].unsched /\ node'[n].here = node[n].here /\ placed' = placed
    BY <1>1, <2>3 DEF GarbleStamp, WriteNode, TypeOK, NodeObject
  <2>4. ASSUME NEW m \in Nodes, KubeletReport(m)
        PROVE  node'[n].unsched = node[n].unsched /\ node'[n].here = node[n].here /\ placed' = placed
    <3> DEFINE b == ~node[m].ready
    <3>1. node' = [node EXCEPT ![m] = [node[m] EXCEPT !.ready = b]] /\ placed' = placed
      BY <2>4 DEF KubeletReport, WriteNode
    <3> HIDE DEF b
    <3> QED BY <3>1, <1>1 DEF TypeOK, NodeObject
  <2>5. ASSUME NEW m \in Nodes, RemoveNode(m)
        PROVE  node'[n] = node[n] /\ placed'[n] = placed[n]
    <3> DEFINE o == [FreshNode EXCEPT !.here = FALSE]
    <3>1. /\ node' = [node EXCEPT ![m] = o] /\ placed' = [placed EXCEPT ![m] = "nobody"]
          /\ ~o.here
      BY <2>5 DEF RemoveNode, WriteNode, FreshNode
    <3> HIDE DEF o
    <3> QED BY <3>1, <1>1, <1>3 DEF TypeOK
  <2>6. ASSUME NEW m \in Nodes, AddNode(m)
        PROVE  \/ n = m /\ ~node[n].here /\ ~node'[n].unsched
               \/ n # m /\ node'[n] = node[n] /\ placed'[n] = placed[n]
    BY <1>1, <2>6 DEF AddNode, WriteNode, TypeOK, FreshNode
  <2>7. ~OperatorCordon(n) /\ ~OperatorUncordon(n)
    BY <1>3 DEF OperatorCordon, OperatorUncordon
  <2> QED BY <1>3, <2>1, <2>2, <2>3, <2>4, <2>5, <2>6
          DEF Outside, SetHalt, Restart, Schedule, OperatorCordon, OperatorUncordon
\* The pods.
<1> DEFINE Moved ==
      /\ \A q \in Pinned : host[q] # Nowhere => host'[q] = host[q]
      /\ \A q \in Pods : host[q] # Nowhere => host'[q] # Nowhere \/ q \in Named
      /\ \A q \in Pods : \/ host'[q] = host[q] \/ host'[q] = Nowhere
                         \/ node[host'[q]].here /\ UNCHANGED node
<1>4. Moved
  <2>1. CASE UNCHANGED host
    BY <1>1, <2>1
  <2>2. ASSUME NEW p \in Pods, Restart(p)
        PROVE  p \in Named /\ p \notin Pinned /\ host' = [host EXCEPT ![p] = Nowhere]
    BY <1>1, <2>2 DEF Restart
  <2>3. ASSUME NEW p \in Pods, NEW n \in Nodes, Schedule(p, n)
        PROVE  /\ host[p] = Nowhere /\ n # Nowhere /\ node[n].here
               /\ host' = [host EXCEPT ![p] = n] /\ UNCHANGED node
    BY <2>3, ConstantsAssumption DEF Schedule, Usable, ConstantsAssumption
  <2>4. Pinned \subseteq Pods
    BY ConstantsAssumption DEF ConstantsAssumption
  <2>5. ASSUME NEW p \in Pods, Restart(p) PROVE Moved
    BY <1>1, <2>2, <2>4, <2>5 DEF TypeOK
  <2>6. ASSUME NEW p \in Pods, NEW n \in Nodes, Schedule(p, n) PROVE Moved
    BY <1>1, <2>3, <2>4, <2>6 DEF TypeOK
  <2>7. \/ UNCHANGED host
        \/ \E p \in Pods : Restart(p) \/ \E n \in Nodes : Schedule(p, n)
    BY DEF Outside, Tick, SetHalt, OperatorCordon, OperatorUncordon,
           GarbleStamp, KubeletReport, RemoveNode, AddNode
  <2> QED BY <2>1, <2>5, <2>6, <2>7
\* The parts of the invariant.
<1>5. PodsOnNodes'
  <2>1. ASSUME NEW q \in Pods, host'[q] # Nowhere PROVE node'[host'[q]].here
    <3>1. CASE host'[q] = host[q]
      <4>1. host[q] \in Nodes /\ node[host[q]].here
        BY <1>1, <2>1, <3>1 DEF DrainInv, PodsOnNodes, TypeOK
      <4> QED BY <1>2, <3>1, <4>1 DEF RemoveNode
    <3> QED BY <1>4, <2>1, <3>1
  <2> QED BY <2>1 DEF PodsOnNodes
<1>6. CordonsAreTheTools'
  <2>1. ASSUME "operator" \notin Env, NEW n \in Nodes, node'[n].here, node'[n].unsched
        PROVE  placed'[n] = "tool"
    <3>1. node[n].here
      BY <1>3, <2>1 DEF AddNode, WriteNode, FreshNode, TypeOK
    <3> QED BY <1>3, <2>1, <3>1 DEF DrainInv, CordonsAreTheTools
  <2> QED BY <2>1 DEF CordonsAreTheTools
<1>7. ASSUME NEW r \in Runs, Active(r)' PROVE DrainSound(r)'
  <2>1. /\ run'[r].pc = run[r].pc /\ run'[r].cands = run[r].cands
        /\ run'[r].target = run[r].target /\ run'[r].victims = run[r].victims
        /\ run'[r].seen = run[r].seen /\ run'[r].avail = run[r].avail
        /\ run'[r].verdict = run[r].verdict
    <3>1. CASE Tick
      <4>1. run'[r] = IF Active(r) THEN [run[r] EXCEPT !.lag = @ + 1] ELSE run[r]
        BY <3>1 DEF Tick
      <4> QED BY <4>1, <1>1 DEF TypeOK, RunState
    <3>2. CASE UNCHANGED run
      BY <3>2
    <3> QED BY <3>1, <3>2
            DEF Outside, SetHalt, Restart, Schedule, OperatorCordon, OperatorUncordon,
                GarbleStamp, KubeletReport, RemoveNode, AddNode
  <2>2. Active(r) /\ RunInv(r) /\ DrainSound(r)
    BY <1>7, <2>1 DEF Active, SerialInv, DrainInv
  <2>3. Picks(r) \subseteq Nodes
    BY <1>1, <2>2 DEF Picks, TypeOK, RunState, RunInv
  <2>4. ASSUME "operator" \notin Env \/ "autoscaler" \notin Env, NEW n \in Picks(r),
               NEW m \in Nodes, PoolOf[m] = PoolOf[n], node[m].here
        PROVE  node'[m].here
    <3> SUFFICES ASSUME ~node'[m].here PROVE FALSE
      OBVIOUS
    <3>1. RemoveNode(m)
      BY <1>2, <2>4
    <3>2. "operator" \notin Env /\ node[m].unsched
      BY <2>4, <3>1 DEF RemoveNode
    <3>3. ToolCordoned(m)
      BY <2>4, <3>2 DEF DrainInv, CordonsAreTheTools, ToolCordoned
    <3>4. PoolAtRest(PoolOf[n])
      BY <2>2, <2>4 DEF RunInv
    <3> QED BY <2>4, <3>3, <3>4 DEF PoolAtRest
  <2>5. ASSUME "operator" \notin Env, run[r].pc = "evict", NEW n, n = run[r].target, node'[n].here
        PROVE  node[n].here /\ node'[n].unsched = node[n].unsched
    <3>1. n \in Nodes
      BY <2>2, <2>5 DEF RunInv
    <3>2. ~AddNode(n)
      BY <2>5 DEF AddNode
    <3> QED BY <1>3, <2>5, <3>1, <3>2
  <2> QED BY <1>1, <1>4, <2>1, <2>2, <2>4, <2>5, DrainUndisturbed
<1> QED BY <1>5, <1>6, <1>7 DEF DrainInv

\* What a run does to the cluster: it removes no node, cordons none but its
\* own, and moves no pod but those it evicts.
LEMMA RunKeepsCluster ==
  ASSUME SerialInv, DrainInv, NEW r \in Runs, Start(r) \/ RunStep(r) \/ Crash(r)
  PROVE  /\ \A n \in Nodes : node'[n].here <=> node[n].here
         /\ \A n \in Nodes : node'[n].unsched => node[n].unsched \/ placed'[n] = "tool"
         /\ \A n \in Nodes : node'[n].unsched /\ placed[n] = "tool" => placed'[n] = "tool"
         /\ \A q \in Pods : host'[q] = host[q] \/ host'[q] = Nowhere
<1>t. TypeOK
  BY DEF SerialInv
<1>1. \A q \in Pods : host'[q] = host[q] \/ host'[q] = Nowhere
  <2>1. ASSUME NEW p \in Pods, Evict(r, p)
        PROVE  \A q \in Pods : host'[q] = host[q] \/ host'[q] = Nowhere
    BY <1>t, <2>1 DEF Evict, TypeOK
  <2>2. host' = host \/ \E p \in Pods : Evict(r, p)
    BY DEF Start, RunStep, Crash, Return, Finish, HaltCheck, ReapList, ReapNothing,
           ReapWrite, ReapWriteFails, ListNodes, ListPods, GetTarget, GetCordonedTarget,
           Claim, ReapGet, ReapGetFails, Select, Discard, EvictFails
  <2> QED BY <2>1, <2>2
<1>2. CASE UNCHANGED <<node, placed>>
  BY <1>1, <1>2
<1>3. CASE Start(r)
  BY <1>t, <1>1, <1>3, StartTouchesNodes
<1>4. CASE Claim(r)
  <2>1. PICK n : n = run[r].target
    OBVIOUS
  <2>2. /\ node[n].here /\ node'[n].here /\ placed'[n] = "tool"
        /\ \A m \in Nodes : m # n => node'[m] = node[m] /\ placed'[m] = placed[m]
    BY <1>4, <2>1, ClaimEffect DEF ToolCordoned
  <2> QED BY <1>1, <2>2
<1>5. CASE ReapWrite(r)
  <2>1. PICK n : n = run[r].target
    OBVIOUS
  <2>2. /\ node[n].here /\ node'[n].here /\ ~ToolCordoned(n)'
        /\ n \in run[r].release => ~node'[n].unsched
        /\ n \notin run[r].release => node'[n].unsched = node[n].unsched
        /\ \A m \in Nodes : m # n => node'[m] = node[m] /\ placed'[m] = placed[m]
        /\ ToolCordoned(n) => n \in run[r].release
    BY <1>5, <2>1, ReapWriteEffect
  <2>3. node'[n].unsched => node[n].unsched /\ placed[n] # "tool"
    BY <2>2 DEF ToolCordoned
  <2> QED BY <1>1, <2>2, <2>3
<1> QED BY <1>2, <1>3, <1>4, <1>5, RunTouchesNodes

LEMMA RunKeepsShared ==
  ASSUME SerialInv, DrainInv, NEW r \in Runs, Start(r) \/ RunStep(r) \/ Crash(r)
  PROVE  PodsOnNodes' /\ CordonsAreTheTools'
<1>1. TypeOK
  BY DEF SerialInv
<1>2. PodsOnNodes'
  BY <1>1, RunKeepsCluster DEF PodsOnNodes, DrainInv, TypeOK
<1>3. CordonsAreTheTools'
  BY RunKeepsCluster DEF CordonsAreTheTools, DrainInv
<1> QED BY <1>2, <1>3

\* Before the nodes are listed there is nothing to keep.
LEMMA DrainNotYet ==
  ASSUME NEW r \in Runs, run'[r].pc \in {"halt", "reapList", "reap", "reapWrite"},
         run'[r].verdict \in Verdicts
  PROVE  DrainSound(r)'
BY DEF DrainSound, Picks

LEMMA ReaperKeepsDrains ==
  ASSUME SerialInv, NEW r \in Runs, DrainSound(r),
         \/ HaltCheck(r) \/ ReapList(r) \/ ReapNothing(r) \/ ReapWriteFails(r) \/ ReapWrite(r)
         \/ \E n \in Nodes : ReapGet(r, n) \/ ReapGetFails(r, n)
  PROVE  DrainSound(r)'
<1>1. run \in [Runs -> RunState] /\ run[r] \in RunState
  BY DEF SerialInv, TypeOK
<1>2. /\ run'[r].pc \in {"halt", "reapList", "reap", "reapWrite"}
      /\ run'[r].verdict = run[r].verdict
  <2>1. CASE HaltCheck(r)
    BY <1>1, <2>1 DEF HaltCheck, Become, RunState
  <2>2. CASE ReapList(r)
    BY <1>1, <2>2 DEF ReapList, Become, RunState
  <2>3. CASE ReapNothing(r)
    BY <1>1, <2>3 DEF ReapNothing, Become, RunState
  <2>4. ASSUME NEW n \in Nodes, ReapGet(r, n) PROVE <1>2
    BY <1>1, <2>4 DEF ReapGet, Become, RunState
  <2>5. ASSUME NEW n, Become(r, Reviewed(r, n)) PROVE <1>2
    BY <1>1, <2>5 DEF Reviewed, Become, RunState
  <2> QED BY <2>1, <2>2, <2>3, <2>4, <2>5 DEF ReapWriteFails, ReapWrite, ReapGetFails
<1> QED BY <1>2, DrainNotYet DEF DrainSound

\* A budget that blocks no eviction has a replica to spare.
LEMMA UnblockedHasHeadroom ==
  ASSUME TypeOK, NEW S \in SUBSET Pods, ~PdbBlocks(S), NEW b \in SelectorPdbs, NEW p \in S,
         p \in PdbPods[b]
  PROVE  Cardinality(CountedOn(b)) > PdbMin[b]
<1> DEFINE up == {q \in PdbPods[b] : host[q] # Nowhere}
<1>1. PdbMin[b] \in Nat /\ PdbPods[b] \in SUBSET Pods
  BY ConstantsAssumption DEF ConstantsAssumption
<1>2. up \in SUBSET Pods /\ CountedOn(b) \in SUBSET Pods /\ up \in SUBSET CountedOn(b)
  BY <1>1 DEF CountedOn
<1>3. ~(Cardinality(up) - PdbMin[b] <= 0)
  BY DEF PdbBlocks, Exhausted, DisruptionsAllowed
<1> HIDE DEF up
<1>4. /\ Cardinality(up) \in Nat /\ Cardinality(CountedOn(b)) \in Nat
      /\ IsFiniteSet(CountedOn(b))
  BY <1>2, PodsFinite
<1>5. Cardinality(up) <= Cardinality(CountedOn(b))
  BY <1>2, <1>4, FS_Subset
<1> QED BY <1>1, <1>3, <1>4, <1>5

\* The gate a pool passes means that it has a node to spare.
LEMMA SpareKept ==
  ASSUME NEW r \in Runs, UNCHANGED node, run'[r].verdict = run[r].verdict, NEW p, PoolSpare(r, p)
  PROVE  PoolSpare(r, p)'
<1>1. PoolNodes(p)' = PoolNodes(p)
  BY DEF PoolNodes
<1> QED BY <1>1 DEF PoolSpare

LEMMA NudgerKeepsDrains ==
  ASSUME SerialInv, NEW r \in Runs, RunInv(r), DrainSound(r),
         \/ ListNodes(r) \/ ListPods(r) \/ GetTarget(r) \/ GetCordonedTarget(r)
         \/ \E n \in Nodes : Discard(r, n) \/ (Select(r, n) /\ run[r].live)
  PROVE  DrainSound(r)'
<1>1. TypeOK /\ run \in [Runs -> RunState] /\ run[r] \in RunState
  BY DEF SerialInv, TypeOK
<1>2. run[r].verdict \in Verdicts /\ \A n \in Picks(r) : PoolSpare(r, PoolOf[n])
  BY DEF DrainSound
<1>3. CASE ListNodes(r)
  <2> DEFINE a == {n \in Nodes : Usable(n)}
             c == {n \in Nodes : Usable(n) /\ PoolMayGiveBack(r, PoolOf[n])}
             s == [run[r] EXCEPT !.pc = "pods", !.avail = a, !.cands = c]
  <2>1. run'[r] = s /\ UNCHANGED node
    BY <1>3, <1>1 DEF ListNodes, Become
  <2>2. s.pc = "pods" /\ s.verdict = run[r].verdict /\ s.cands = c
    BY <1>1 DEF RunState
  <2>3. \A n \in c : PoolSpare(r, PoolOf[n])
    BY DEF PoolMayGiveBack, PoolSpare
  <2> HIDE DEF s, c, a
  <2>4. Picks(r)' = c
    BY <2>1, <2>2 DEF Picks
  <2>5. \A n \in Picks(r)' : PoolSpare(r, PoolOf[n])'
    BY <2>1, <2>2, <2>3, <2>4, SpareKept
  <2> QED BY <1>2, <2>1, <2>2, <2>5 DEF DrainSound
<1>4. CASE ListPods(r)
  <2> DEFINE c == {n \in run[r].cands : ~HostsSelf(n)}
             s == [run[r] EXCEPT !.pc = "select", !.cands = c, !.seen = host]
  <2>1. run'[r] = s /\ UNCHANGED <<node, host>> /\ run[r].pc = "pods"
    BY <1>4, <1>1 DEF ListPods, Become
  <2>2. s.pc = "select" /\ s.verdict = run[r].verdict /\ s.cands = c /\ s.seen = host
    BY <1>1 DEF RunState
  <2>3. c \subseteq run[r].cands /\ \A q \in SelfPods : host[q] \notin c
    BY DEF HostsSelf
  <2> HIDE DEF s, c
  <2>4. Picks(r)' = c /\ c \subseteq Picks(r)
    BY <2>1, <2>2, <2>3 DEF Picks
  <2>5. \A n \in Picks(r)' : PoolSpare(r, PoolOf[n])'
    BY <1>2, <2>1, <2>2, <2>4, SpareKept
  <2>6. ListedStay(r)'
    BY <2>1, <2>2, <2>3, <2>4 DEF ListedStay
  <2> QED BY <1>2, <2>1, <2>2, <2>5, <2>6 DEF DrainSound
<1>5. ASSUME NEW n \in Nodes, Select(r, n), run[r].live PROVE DrainSound(r)'
  <2> DEFINE v == Relocatable(r, n)
             s == [run[r] EXCEPT !.pc = "get", !.target = n, !.victims = v]
  <2>1. run'[r] = s /\ UNCHANGED <<node, host>> /\ run[r].pc = "select"
    BY <1>5, <1>1 DEF Select, Become
  <2>2. /\ s.pc = "get" /\ s.verdict = run[r].verdict /\ s.target = n /\ s.victims = v
        /\ s.seen = run[r].seen /\ s.avail = run[r].avail
    BY <1>1 DEF RunState
  <2>3. n \in run[r].cands /\ MayFit(r, n) /\ ~PdbBlocks(v) /\ v \in SUBSET Pods
    BY <1>5 DEF Select, LeastLoaded, Relocatable
  <2> HIDE DEF s, v
  <2>4. Picks(r)' = {n} /\ n \in Picks(r)
    BY <2>1, <2>2, <2>3 DEF Picks
  <2>5. \A m \in Picks(r)' : PoolSpare(r, PoolOf[m])'
    BY <1>2, <2>1, <2>2, <2>4, SpareKept
  <2>6. ListedStay(r)'
    BY <2>1, <2>2, <2>4 DEF ListedStay, DrainSound
  <2>7. Headroom(r)'
    <3>1. \A b \in SelectorPdbs, p \in v : p \in PdbPods[b] => Cardinality(CountedOn(b)) > PdbMin[b]
      BY <1>1, <2>3, UnblockedHasHeadroom
    <3>2. \A b : CountedOn(b)' = CountedOn(b)
      BY <2>1 DEF CountedOn
    <3> QED BY <2>1, <2>2, <3>1, <3>2 DEF Headroom
  <2>8. Relocatable(r, n)' = v /\ MayFit(r, n)'
    BY <2>1, <2>2, <2>3, SameList DEF v
  <2>9. (run[r].victims \subseteq Relocatable(r, run[r].target) /\ MayFit(r, run[r].target))'
    BY <2>1, <2>2, <2>8
  <2> QED BY <1>2, <2>1, <2>2, <2>5, <2>6, <2>7, <2>9 DEF DrainSound
<1>6. ASSUME NEW n \in Nodes, Discard(r, n) PROVE DrainSound(r)'
  <2> DEFINE s == [run[r] EXCEPT !.cands = @ \ {n}]
  <2>1. run'[r] = s /\ UNCHANGED <<node, host>> /\ run[r].pc = "select"
    BY <1>6, <1>1 DEF Discard, Become
  <2>2. /\ s.pc = "select" /\ s.verdict = run[r].verdict /\ s.seen = run[r].seen
        /\ s.cands = run[r].cands \ {n}
    BY <1>1, <2>1 DEF RunState
  <2> HIDE DEF s
  <2>3. Picks(r)' \subseteq Picks(r)
    BY <2>1, <2>2 DEF Picks
  <2>4. \A m \in Picks(r)' : PoolSpare(r, PoolOf[m])'
    BY <1>2, <2>1, <2>2, <2>3, SpareKept
  <2>5. ListedStay(r)'
    BY <2>1, <2>2, <2>3 DEF ListedStay, DrainSound
  <2> QED BY <1>2, <2>1, <2>2, <2>4, <2>5 DEF DrainSound
<1>7. ASSUME NEW c, c \in {"claim", "evict"}, run'[r] = [run[r] EXCEPT !.pc = c],
             UNCHANGED <<node, host>>, run[r].pc = "get", c = "evict" => node[run[r].target].unsched
      PROVE  DrainSound(r)'
  <2> DEFINE s == [run[r] EXCEPT !.pc = c]
  <2>1. run'[r] = s
    BY <1>7
  <2>2. /\ s.pc = c /\ s.verdict = run[r].verdict /\ s.seen = run[r].seen
        /\ s.avail = run[r].avail /\ s.target = run[r].target /\ s.victims = run[r].victims
    BY <1>1 DEF RunState
  <2> HIDE DEF s
  <2>3. Picks(r)' \subseteq Picks(r) /\ Picks(r) = {run[r].target}
    BY <1>7, <2>1, <2>2 DEF Picks
  <2>4. \A m \in Picks(r)' : PoolSpare(r, PoolOf[m])'
    BY <1>2, <1>7, <2>1, <2>2, <2>3, SpareKept
  <2>5. ListedStay(r)'
    BY <1>7, <2>1, <2>2, <2>3 DEF ListedStay, DrainSound
  <2>6. Headroom(r)'
    BY <1>7, <2>1, <2>2 DEF Headroom, DrainSound, CountedOn
  <2>7. (run[r].victims \subseteq Relocatable(r, run[r].target) /\ MayFit(r, run[r].target))'
    BY <1>7, <2>1, <2>2, SameList DEF DrainSound
  <2> QED BY <1>2, <1>7, <2>1, <2>2, <2>4, <2>5, <2>6, <2>7 DEF DrainSound
<1>8. CASE GetTarget(r)
  BY <1>1, <1>7, <1>8 DEF GetTarget, Become
<1>9. CASE GetCordonedTarget(r)
  BY <1>1, <1>7, <1>9 DEF GetCordonedTarget, Become
<1> QED BY <1>3, <1>4, <1>5, <1>6, <1>8, <1>9

LEMMA DrainerKeepsDrains ==
  ASSUME SerialInv, NEW r \in Runs, RunInv(r), DrainSound(r),
         Claim(r) \/ \E p \in Pods : Evict(r, p) \/ EvictFails(r, p)
  PROVE  DrainSound(r)'
<1>1. TypeOK /\ run \in [Runs -> RunState] /\ run[r] \in RunState
  BY DEF SerialInv, TypeOK
<1>2. run[r].verdict \in Verdicts
  BY DEF DrainSound
<1>3. CASE Claim(r)
  <2> DEFINE s == [run[r] EXCEPT !.pc = "evict"]
  <2>1. run'[r] = s /\ UNCHANGED host /\ run[r].pc = "claim"
    BY <1>3, <1>1 DEF Claim, Become
  <2>2. /\ s.pc = "evict" /\ s.verdict = run[r].verdict /\ s.seen = run[r].seen
        /\ s.avail = run[r].avail /\ s.target = run[r].target /\ s.victims = run[r].victims
    BY <1>1 DEF RunState
  <2> HIDE DEF s
  <2>3. Picks(r)' = {} /\ Picks(r) = {run[r].target}
    BY <2>1, <2>2 DEF Picks
  <2>4. ListedStay(r)'
    BY <2>1, <2>2, <2>3 DEF ListedStay, DrainSound
  <2>5. (run[r].victims \subseteq Relocatable(r, run[r].target) /\ MayFit(r, run[r].target))'
    BY <2>1, <2>2, SameList DEF DrainSound
  <2>6. node'[run[r].target].unsched
    <3>1. PICK n : n = run[r].target
      OBVIOUS
    <3> QED BY <1>3, <3>1, ClaimEffect DEF ToolCordoned
  <2> QED BY <1>2, <2>1, <2>2, <2>3, <2>4, <2>5, <2>6 DEF DrainSound
<1>4. ASSUME NEW p \in Pods, Evict(r, p) \/ EvictFails(r, p) PROVE DrainSound(r)'
  <2> DEFINE s == [run[r] EXCEPT !.victims = @ \ {p}]
  <2>1. /\ run'[r] = s /\ UNCHANGED node /\ run[r].pc = "evict" /\ p \in run[r].victims
        /\ host' = host \/ host' = [host EXCEPT ![p] = Nowhere]
    BY <1>4, <1>1 DEF Evict, EvictFails, Evicted, Become
  <2>2. /\ s.pc = "evict" /\ s.verdict = run[r].verdict /\ s.seen = run[r].seen
        /\ s.avail = run[r].avail /\ s.target = run[r].target
        /\ s.victims = run[r].victims \ {p}
    BY <1>1, <2>1 DEF RunState
  <2> HIDE DEF s
  <2>3. Picks(r)' = {}
    BY <2>1, <2>2 DEF Picks
  <2>4. p \notin Pinned
    BY <2>1 DEF DrainSound, Relocatable
  <2>5. Pinned \subseteq Pods /\ host \in [Pods -> Nodes \cup {Nowhere}]
    BY <1>1, ConstantsAssumption DEF ConstantsAssumption, TypeOK
  <2>6. \A q \in Pinned : host'[q] = host[q]
    BY <2>1, <2>4, <2>5
  <2>7. ListedStay(r)'
    BY <2>1, <2>2, <2>3, <2>6 DEF ListedStay, DrainSound
  <2>8. (run[r].victims \subseteq Relocatable(r, run[r].target) /\ MayFit(r, run[r].target))'
    BY <2>1, <2>2, SameList DEF DrainSound
  <2> QED BY <1>2, <2>1, <2>2, <2>3, <2>7, <2>8 DEF DrainSound
<1> QED BY <1>3, <1>4

LEMMA OnlyActiveRunsStep ==
  ASSUME NEW r \in Runs, RunStep(r) \/ Crash(r)
  PROVE  Active(r)
BY DEF RunStep, Active, HaltCheck, ReapList, ReapNothing, ReapWrite, ReapWriteFails,
       ListNodes, ReapDone, ListPods, GetTarget, GetCordonedTarget, Claim, Return,
       ReapGet, ReapGetFails, Select, Discard, Evict, EvictFails, Evicted, Crash

LEMMA RunKeepsDrains ==
  ASSUME ~Overlap, SerialInv, DrainInv, NEW r \in Runs,
         Start(r) \/ RunStep(r) \/ Crash(r), Active(r)'
  PROVE  DrainSound(r)'
<1>1. TypeOK /\ run \in [Runs -> RunState] /\ IdleRun.pc = "idle"
  BY DEF SerialInv, TypeOK, IdleRun
<1>2. CASE Start(r)
  <2>1. PICK h \in Nodes, live \in Modes, v \in Verdicts :
          Become(r, [IdleRun EXCEPT !.pc = IF live THEN "halt" ELSE "reapList",
                                    !.live = live, !.home = h, !.verdict = v])
    BY <1>2 DEF Start
  <2>2. run'[r] = [IdleRun EXCEPT !.pc = IF live THEN "halt" ELSE "reapList",
                                  !.live = live, !.home = h, !.verdict = v]
    BY <1>1, <2>1 DEF Become
  <2>3. run'[r].pc \in {"halt", "reapList"} /\ run'[r].verdict \in Verdicts
    BY <2>2 DEF IdleRun
  <2> QED BY <2>3, DrainNotYet
<1>3. ~Finish(r) /\ ~Become(r, IdleRun)
  BY <1>1 DEF Finish, Become, Active
<1>4. CASE RunStep(r)
  <2>1. Active(r)
    BY <1>4, OnlyActiveRunsStep
  <2>2. RunInv(r) /\ DrainSound(r)
    BY <2>1 DEF SerialInv, DrainInv
  <2>3. \A n \in Nodes : Select(r, n) => run[r].live
    BY <1>3 DEF Select
  <2>4. ~Return(r)
    BY <1>3 DEF Return
  <2> QED BY <1>4, <2>2, <2>3, <2>4, ReaperKeepsDrains, NudgerKeepsDrains, DrainerKeepsDrains
          DEF RunStep
<1> QED BY <1>2, <1>3, <1>4 DEF Crash

LEMMA DrainPreserved ==
  ASSUME ~Overlap, SerialInv, DrainInv, [Next]_vars
  PROVE  DrainInv'
<1>1. TypeOK /\ TypeOK'
  BY TypePreserved DEF SerialInv
<1>2. CASE UNCHANGED vars
  <2>1. ASSUME NEW r \in Runs, DrainSound(r) PROVE DrainSound(r)'
    <3>1. Picks(r)' = Picks(r) /\ ListedStay(r)' = ListedStay(r)
      BY <1>2 DEF vars, Picks, ListedStay
    <3>2. Headroom(r)' = Headroom(r)
      BY <1>2 DEF vars, Headroom, CountedOn
    <3>3. \A p : PoolSpare(r, p)' = PoolSpare(r, p)
      BY <1>2 DEF vars, PoolSpare, PoolNodes
    <3>4. /\ \A n : Relocatable(r, n)' = Relocatable(r, n)
          /\ \A n : MayFit(r, n) => MayFit(r, n)'
      BY <1>2, SameList DEF vars
    <3> QED BY <1>2, <2>1, <3>1, <3>2, <3>3, <3>4 DEF DrainSound, vars
  <2> QED BY <1>2, <2>1 DEF DrainInv, PodsOnNodes, CordonsAreTheTools, vars, Active
<1>3. CASE Outside
  BY <1>1, <1>3, OutsideKeepsDrains
<1>4. ASSUME NEW r \in Runs, Start(r) \/ RunStep(r) \/ Crash(r) PROVE DrainInv'
  <2>1. \A q \in Runs : Active(q)' => q = r
    <3>1. ASSUME NEW s, Become(r, s) PROVE \A q \in Runs : q # r => Active(q)' = Active(q)
      BY <1>1, <3>1 DEF Become, Active, TypeOK
    <3>2. \E s : Become(r, s)
      BY <1>4
      DEF Start, RunStep, HaltCheck, ReapList, ReapNothing, ReapWrite, ReapWriteFails,
          ListNodes, ListPods, GetTarget, GetCordonedTarget, Claim, Return, Finish, ReapGet,
          ReapGetFails, Select, Discard, Evict, EvictFails, Evicted, Crash
    <3>3. \A q \in Runs : q # r => ~Active(q)
      <4>1. CASE Start(r)
        BY <4>1 DEF Start
      <4>2. CASE RunStep(r) \/ Crash(r)
        BY <4>2, OnlyActiveRunsStep DEF SerialInv, SoleRun
      <4> QED BY <1>4, <4>1, <4>2
    <3> QED BY <3>1, <3>2, <3>3
  <2>2. \A q \in Runs : Active(q)' => DrainSound(q)'
    BY <1>4, <2>1, RunKeepsDrains
  <2> QED BY <1>4, <2>2, RunKeepsShared DEF DrainInv
<1> QED BY <1>2, <1>3, <1>4 DEF Next

\* With runs that do not overlap, a drain goes on to rest on what it was decided
\* on: the pool keeps its spare node until the cordon, budgets their headroom,
\* and the pods that cannot be moved are where the list had them.
THEOREM DrainInvariance ==
  ASSUME ~Overlap
  PROVE  Spec => []DrainInv
<1>1. SerialInv /\ DrainInv /\ [Next]_vars => DrainInv'
  BY DrainPreserved
<1> QED BY <1>1, DrainInit, SerialInvariance, PTL DEF Spec

-----------------------------------------------------------------------------
(* What follows for the drains.                                            *)

LEMMA HeadroomAtCordon == SerialInv /\ DrainInv => CordonHasHeadroom
<1> SUFFICES ASSUME SerialInv, DrainInv,
                    NEW r \in Runs, run[r].pc \in {"get", "claim"},
                    NEW b \in SelectorPdbs, NEW p \in run[r].victims, Exhausted(b, p)
             PROVE  \E q \in PdbPods[b] \cap Named : host[q] = Nowhere
  BY DEF CordonHasHeadroom
<1> DEFINE up == {q \in PdbPods[b] : host[q] # Nowhere}
<1>1. Headroom(r) /\ p \in PdbPods[b]
  BY DEF DrainInv, Active, DrainSound, Exhausted
<1>2. Cardinality(CountedOn(b)) > PdbMin[b] /\ Cardinality(up) - PdbMin[b] <= 0
  BY <1>1 DEF Headroom, Exhausted, DisruptionsAllowed
<1>3. up \in SUBSET Pods /\ PdbMin[b] \in Nat /\ CountedOn(b) \in SUBSET Pods
  BY ConstantsAssumption DEF ConstantsAssumption, CountedOn
<1>4. Cardinality(up) \in Nat /\ Cardinality(CountedOn(b)) \in Nat
  BY <1>3, PodsFinite
<1>5. CountedOn(b) # up
  <2> HIDE DEF up
  <2> QED BY <1>2, <1>3, <1>4
<1> QED BY <1>5 DEF CountedOn

\* With runs that do not overlap, no node is cordoned for pods that a budget
\* holds on it, unless a replica restarted by itself since the budgets were read
\* (nudger.go:480, pdbBlocker).
THEOREM CordonsHaveHeadroom ==
  ASSUME ~Overlap
  PROVE  Spec => []CordonHasHeadroom
BY SerialInvariance, DrainInvariance, HeadroomAtCordon, PTL

LEMMA EvictionStep ==
  ASSUME SerialInv, DrainInv, "operator" \notin Env, [Next]_vars,
         NEW q \in Runs, NEW p \in Pods \ Named,
         ByRun(q), host[p] # Nowhere, host'[p] = Nowhere
  PROVE  node[host[p]].unsched
<1>1. TypeOK
  BY DEF SerialInv
<1>2. ~Outside /\ ~UNCHANGED vars
  BY <1>1, OutsideIsNobodysRun DEF vars
<1>3. PICK r \in Runs : Evict(r, p)
  <2>1. ASSUME NEW r \in Runs, NEW o \in Pods, Evict(r, o) PROVE o = p
    BY <1>1, <2>1 DEF Evict, TypeOK
  <2>2. \E r \in Runs : host' = host \/ \E o \in Pods : Evict(r, o)
    BY <1>2, ZenonT(40) DEF Next, Start, RunStep, Crash, Return, Finish, HaltCheck, ReapList, ReapNothing,
           ReapWrite, ReapWriteFails, ListNodes, ListPods, GetTarget, GetCordonedTarget,
           Claim, ReapGet, ReapGetFails, Select, Discard, EvictFails
  <2> QED BY <2>1, <2>2
<1>4. run[r].pc = "evict" /\ host[p] = run[r].target
  BY <1>3 DEF Evict, Evicted
<1>5. node[host[p]].here
  BY DEF DrainInv, PodsOnNodes
<1> QED BY <1>4, <1>5 DEF DrainInv, DrainSound, Active

\* With runs that do not overlap, and unless operators cordon and uncordon nodes
\* themselves, a pod is evicted only from a node that is cordoned (nudger.go,
\* steps 8 and 9).
THEOREM EvictionsFromCordonedNodes ==
  ASSUME ~Overlap, "operator" \notin Env
  PROVE  Spec => EvictsFromCordonedNode
<1>1. SerialInv /\ DrainInv /\ [Next]_vars =>
        [\A r \in Runs, p \in Pods \ Named :
           ByRun(r) /\ host[p] # Nowhere /\ host'[p] = Nowhere
             => node[host[p]].unsched]_vars
  BY EvictionStep
<1> QED BY <1>1, SerialInvariance, DrainInvariance, PTL DEF Spec, EvictsFromCordonedNode

LEMMA CordonStep ==
  ASSUME SerialInv, DrainInv, "operator" \notin Env \/ "autoscaler" \notin Env, [Next]_vars,
         NEW q \in Runs, NEW n \in Nodes, ByRun(q), ~ToolCordoned(n), ToolCordoned(n)'
  PROVE  LET v == run[q].verdict[PoolOf[n]] IN
         /\ v.known /\ v.actionable
         /\ Cardinality({m \in PoolNodes(PoolOf[n])' : ~ToolCordoned(m)'}) >= v.min
<1>1. TypeOK
  BY DEF SerialInv
<1>2. ~Outside /\ ~UNCHANGED <<node, placed>> /\ \A r \in Runs : ~Start(r)
  BY <1>1, OutsideIsNobodysRun, StartTouchesNodes DEF ToolCordoned
<1>3. PICK r \in Runs : ReapWrite(r) \/ Claim(r)
  BY <1>2, RunTouchesNodes DEF Next, vars
<1>4. PICK k : k = run[r].target
  OBVIOUS
<1>5. ~ReapWrite(r)
  BY <1>4, ReapWriteEffect DEF ToolCordoned
<1>6. /\ Claim(r) /\ k = n /\ PoolAtRest(PoolOf[n]) /\ node[n].here
      /\ \A m \in Nodes : m # n => node'[m] = node[m] /\ placed'[m] = placed[m]
  BY <1>3, <1>4, <1>5, ClaimEffect DEF ToolCordoned
<1>7. r = q
  BY <1>1, <1>6 DEF Claim, Become, ByRun, TypeOK
<1> DEFINE p == PoolOf[n]
           v == run[r].verdict[p]
           left == {m \in PoolNodes(p)' : ~ToolCordoned(m)'}
<1>8. PoolSpare(r, p) /\ run[r].verdict \in Verdicts /\ p \in Pools
  BY <1>4, <1>6, ConstantsAssumption
  DEF Claim, DrainInv, DrainSound, Active, Picks, ConstantsAssumption
<1>9. left = PoolNodes(p) \ {n}
  <2>1. \A m \in Nodes : m # n =>
          (m \in left <=> m \in PoolNodes(p))
    BY <1>6 DEF PoolNodes, PoolAtRest, ToolCordoned
  <2>2. left \subseteq Nodes /\ PoolNodes(p) \subseteq Nodes /\ n \notin left
    BY DEF PoolNodes
  <2> QED BY <2>1, <2>2
<1>10. n \in PoolNodes(p)
  BY <1>6 DEF PoolNodes
<1>11. Cardinality(left) = Cardinality(PoolNodes(p)) - 1
  BY <1>9, <1>10, PoolNodesFinite, FS_RemoveElement, SMTT(30)
<1>12. v.min \in Nat /\ Cardinality(PoolNodes(p)) \in Nat
  BY <1>8, ConstantsAssumption, PoolNodesFinite DEF ConstantsAssumption, Verdict
<1>13. v.known /\ v.actionable /\ Cardinality(PoolNodes(p)) > v.min
  BY <1>8 DEF PoolSpare
<1> HIDE DEF left, v, p
<1>14. Cardinality(left) >= v.min
  BY <1>11, <1>12, <1>13
<1> QED BY <1>7, <1>13, <1>14 DEF left, v, p

\* With runs that do not overlap, a cordon leaves its pool the minimum that an
\* actionable verdict asks for.  An operator's cordon followed by the autoscaler
\* may cost the pool a node between the gate and the cordon, so only one of the
\* two is admitted (nudger.go:373).
THEOREM ToolLeavesTheMinimum ==
  ASSUME ~Overlap, "operator" \notin Env \/ "autoscaler" \notin Env
  PROVE  Spec => ToolLeavesMinimum
<1>1. SerialInv /\ DrainInv /\ [Next]_vars =>
        [\A r \in Runs, n \in Nodes :
           ByRun(r) /\ ~ToolCordoned(n) /\ ToolCordoned(n)' =>
             LET v == run[r].verdict[PoolOf[n]] IN
             /\ v.known /\ v.actionable
             /\ Cardinality({m \in PoolNodes(PoolOf[n])' : ~ToolCordoned(m)'}) >= v.min]_vars
  BY CordonStep
<1> QED BY <1>1, SerialInvariance, DrainInvariance, PTL DEF Spec, ToolLeavesMinimum

-----------------------------------------------------------------------------
(* Room for what is drained.                                               *)

SizeIn(d) == [p \in Pods |-> Size[p][d]]

PodsOn(w, n) == {p \in DOMAIN w : w[p] = n}

\* The requests on a node, as a sum.
LEMMA RequestedIsSum ==
  ASSUME NEW w, DOMAIN w \subseteq Pods, NEW n, NEW d
  PROVE  Requested(w, n, d) = SumOver(SizeIn(d), PodsOn(w, n))
<1> DEFINE S == PodsOn(w, n)
           f == SizeIn(d)
           Sum(h) == h = [s \in SUBSET S |-> IF s = {} THEN 0
                                             ELSE Size[Pick(s)][d] + h[s \ {Pick(s)}]]
<1>1. Requested(w, n, d) = (CHOOSE h : Sum(h))[S]
  BY Zenon DEF Requested, MapThenSumSet, MapThenFoldSet, Pick, PodsOn
<1>2. \A h : Sum(h) <=> Solves(h, f, S)
  <2> SUFFICES ASSUME NEW h PROVE Sum(h) <=> Solves(h, f, S)
    OBVIOUS
  <2>1. \A s \in SUBSET S : s # {} => f[Pick(s)] = Size[Pick(s)][d]
    BY PickIn DEF SizeIn, PodsOn
  <2> DEFINE g1 == [s \in SUBSET S |-> IF s = {} THEN 0
                                       ELSE Size[Pick(s)][d] + h[s \ {Pick(s)}]]
             g2 == [s \in SUBSET S |-> IF s = {} THEN 0 ELSE f[Pick(s)] + h[s \ {Pick(s)}]]
  <2>2. g1 = g2
    <3> HIDE DEF f, S
    <3> QED BY <2>1
  <2>3. Sum(h) <=> h = g1
    OBVIOUS
  <2>4. Solves(h, f, S) <=> h = g2
    BY Zenon DEF Solves
  <2> HIDE DEF g1, g2, Sum
  <2> QED BY <2>2, <2>3, <2>4
<1>3. (CHOOSE h : Sum(h)) = (CHOOSE h : Solves(h, f, S))
  <2> HIDE DEF Sum, f, S
  <2> QED BY <1>2
<1>4. SumOver(f, S) = (CHOOSE h : Solves(h, f, S))[S]
  <2> HIDE DEF f, S
  <2>1. SumOver(f, S) = Solution(f, S)[S]
    BY SumIsSolution
  <2> QED BY <2>1, Zenon DEF Solution
<1>5. Requested(w, n, d) = SumOver(f, S)
  <2> HIDE DEF Sum, f, S
  <2> QED BY <1>1, <1>3, <1>4
<1> QED BY <1>5

\* What is left on several nodes, as a sum.
LEMMA FreeOnIsSum ==
  ASSUME NEW w, NEW A \in SUBSET Nodes, NEW d
  PROVE  FreeOn(w, A, d) = SumOver([n \in Nodes |-> Free(w, n, d)], A)
<1> DEFINE f == [n \in Nodes |-> Free(w, n, d)]
           Sum(h) == h = [s \in SUBSET A |-> IF s = {} THEN 0
                                             ELSE Free(w, Pick(s), d) + h[s \ {Pick(s)}]]
<1>1. FreeOn(w, A, d) = (CHOOSE h : Sum(h))[A]
  BY Zenon DEF FreeOn, MapThenSumSet, MapThenFoldSet, Pick
<1>2. \A h : Sum(h) <=> Solves(h, f, A)
  <2> SUFFICES ASSUME NEW h PROVE Sum(h) <=> Solves(h, f, A)
    OBVIOUS
  <2>1. \A s \in SUBSET A : s # {} => f[Pick(s)] = Free(w, Pick(s), d)
    BY PickIn
  <2> DEFINE g1 == [s \in SUBSET A |-> IF s = {} THEN 0
                                       ELSE Free(w, Pick(s), d) + h[s \ {Pick(s)}]]
             g2 == [s \in SUBSET A |-> IF s = {} THEN 0 ELSE f[Pick(s)] + h[s \ {Pick(s)}]]
  <2>2. g1 = g2
    <3> HIDE DEF f
    <3> QED BY <2>1
  <2>3. Sum(h) <=> h = g1
    OBVIOUS
  <2>4. Solves(h, f, A) <=> h = g2
    BY Zenon DEF Solves
  <2> HIDE DEF g1, g2, Sum
  <2> QED BY <2>2, <2>3, <2>4
<1>3. (CHOOSE h : Sum(h)) = (CHOOSE h : Solves(h, f, A))
  <2> HIDE DEF Sum, f
  <2> QED BY <1>2
<1>4. SumOver(f, A) = (CHOOSE h : Solves(h, f, A))[A]
  <2> HIDE DEF f
  <2>1. SumOver(f, A) = Solution(f, A)[A]
    BY SumIsSolution
  <2> QED BY <2>1, Zenon DEF Solution
<1>5. FreeOn(w, A, d) = SumOver(f, A)
  <2> HIDE DEF Sum, f
  <2> QED BY <1>1, <1>3, <1>4
<1> QED BY <1>5

\* Fewer pods request no more.
LEMMA SumFewer ==
  ASSUME NEW d \in Resource, NEW S \in SUBSET Pods, NEW T \in SUBSET S
  PROVE  /\ SumOver(SizeIn(d), S) \in Nat /\ SumOver(SizeIn(d), T) \in Nat
         /\ SumOver(SizeIn(d), T) <= SumOver(SizeIn(d), S)
<1>1. \A p \in Pods : SizeIn(d)[p] \in Nat
  BY ConstantsAssumption DEF ConstantsAssumption, SizeIn
<1> DEFINE R == S \ T
           f == SizeIn(d)
<1>2. IsFiniteSet(S) /\ IsFiniteSet(T) /\ IsFiniteSet(R)
  BY PodsFinite, FS_Subset
<1>3. S = T \cup R /\ T \cap R = {}
  OBVIOUS
<1>4. \A p \in S : f[p] \in Nat /\ f[p] \in Int
  BY <1>1
<1> HIDE DEF R, f
<1>5. SumOver(f, S) \in Nat /\ SumOver(f, T) \in Nat /\ SumOver(f, R) \in Nat
  BY <1>2, <1>3, <1>4, SumNat
<1>6. SumOver(f, T \cup R) = SumOver(f, T) + SumOver(f, R)
  BY <1>2, <1>3, <1>4, SumUnion
<1>7. SumOver(f, T) <= SumOver(f, S)
  BY <1>3, <1>5, <1>6
<1> QED BY <1>5, <1>7 DEF f

LEMMA SumApart ==
  ASSUME NEW d \in Resource, NEW S \in SUBSET Pods, NEW T \in SUBSET Pods, S \cap T = {}
  PROVE  SumOver(SizeIn(d), S \cup T) = SumOver(SizeIn(d), S) + SumOver(SizeIn(d), T)
<1>1. \A p \in S \cup T : SizeIn(d)[p] \in Int
  BY ConstantsAssumption DEF ConstantsAssumption, SizeIn
<1>2. IsFiniteSet(S) /\ IsFiniteSet(T)
  BY PodsFinite
<1> QED BY <1>1, <1>2, SumUnion

LEMMA RequestedFewer ==
  ASSUME NEW d \in Resource, NEW n, NEW v, NEW w, DOMAIN v \subseteq Pods, DOMAIN w \subseteq Pods,
         PodsOn(v, n) \subseteq PodsOn(w, n)
  PROVE  /\ Requested(v, n, d) \in Nat /\ Requested(w, n, d) \in Nat
         /\ Requested(v, n, d) <= Requested(w, n, d)
<1>1. PodsOn(w, n) \in SUBSET Pods
  BY DEF PodsOn
<1>2. /\ Requested(v, n, d) = SumOver(SizeIn(d), PodsOn(v, n))
      /\ Requested(w, n, d) = SumOver(SizeIn(d), PodsOn(w, n))
  BY RequestedIsSum
<1> QED BY <1>1, <1>2, SumFewer

LEMMA OneSize ==
  ASSUME NEW d \in Resource, NEW p \in Pods
  PROVE  SumOver(SizeIn(d), {p}) = Size[p][d]
<1>1. IsFiniteSet({p}) /\ Pick({p}) = p /\ {p} \ {p} = {}
  BY PickIn, FS_Singleton
<1>2. SumOver(SizeIn(d), {p}) = SizeIn(d)[p] + SumOver(SizeIn(d), {})
  BY <1>1, SumStep
<1>3. SumOver(SizeIn(d), {}) = 0
  BY SumEmpty
<1>4. SizeIn(d)[p] = Size[p][d] /\ Size[p][d] \in Nat
  BY ConstantsAssumption DEF ConstantsAssumption, SizeIn
<1> QED BY <1>2, <1>3, <1>4

\* What a run remembers of the pods is what it remembered, or what it lists now.
LEMMA SeenStep ==
  ASSUME TypeOK, [Next]_vars, NEW r \in Runs
  PROVE  run'[r].seen \in {run[r].seen, host, IdleRun.seen}
<1>t. run \in [Runs -> RunState]
  BY DEF TypeOK
<1>1. CASE run' = run
  BY <1>1
<1>2. CASE Tick
  BY <1>t, <1>2 DEF Tick, RunState
<1> DEFINE Kept(q) == /\ run'[q].seen \in {run[q].seen, host, IdleRun.seen}
                      /\ \A o \in Runs : o # q => run'[o] = run[o]
<1>3. ASSUME NEW q \in Runs, Start(q) PROVE Kept(q)
  <2>1. PICK n \in Nodes, live \in Modes, v \in Verdicts :
          Become(q, [IdleRun EXCEPT !.pc = IF live THEN "halt" ELSE "reapList",
                                    !.live = live, !.home = n, !.verdict = v])
    BY <1>3 DEF Start
  <2>2. [IdleRun EXCEPT !.pc = IF live THEN "halt" ELSE "reapList",
                        !.live = live, !.home = n, !.verdict = v].seen = IdleRun.seen
    BY DEF IdleRun
  <2> QED BY <1>t, <2>1, <2>2 DEF Become
<1>4. ASSUME NEW q \in Runs, RunStep(q) \/ Crash(q) PROVE Kept(q)
  <2>1. run[q] \in RunState
    BY <1>t
  <2>2. CASE Return(q) \/ Crash(q)
    BY <1>t, <2>2 DEF Return, Crash, Finish, Become
  <2>3. CASE HaltCheck(q) \/ ReapList(q) \/ ReapNothing(q)
    <3>1. CASE HaltCheck(q)
      BY <1>t, <2>1, <3>1 DEF HaltCheck, Become, RunState
    <3>2. CASE ReapNothing(q)
      BY <1>t, <2>1, <3>2 DEF ReapNothing, Become, RunState
    <3>3. CASE ReapList(q)
      BY <1>t, <2>1, <3>3 DEF ReapList, Become, RunState
    <3> QED BY <2>3, <3>1, <3>2, <3>3
  <2>4. CASE ListNodes(q) \/ ListPods(q)
    <3>1. CASE ListNodes(q)
      BY <1>t, <2>1, <3>1 DEF ListNodes, Become, RunState
    <3>2. CASE ListPods(q)
      BY <1>t, <2>1, <3>2 DEF ListPods, Become, RunState
    <3> QED BY <2>4, <3>1, <3>2
  <2>5. CASE GetTarget(q) \/ GetCordonedTarget(q) \/ Claim(q)
    BY <1>t, <2>1, <2>5 DEF GetTarget, GetCordonedTarget, Claim, Become, RunState
  <2>6. \A n : Reviewed(q, n).seen = run[q].seen
    BY <2>1 DEF Reviewed, RunState
  <2>7. CASE ReapWrite(q) \/ ReapWriteFails(q)
    BY <1>t, <2>6, <2>7 DEF ReapWrite, ReapWriteFails, Become
  <2>8. ASSUME NEW n \in Nodes, ReapGet(q, n) \/ ReapGetFails(q, n) PROVE Kept(q)
    <3>1. CASE ReapGet(q, n)
      BY <1>t, <2>1, <3>1 DEF ReapGet, Become, RunState
    <3>2. CASE ReapGetFails(q, n)
      BY <1>t, <2>6, <3>2 DEF ReapGetFails, Become
    <3> QED BY <2>8, <3>1, <3>2
  <2>9. ASSUME NEW n \in Nodes, Select(q, n) \/ Discard(q, n) PROVE Kept(q)
    <3>1. CASE Discard(q, n)
      BY <1>t, <2>1, <3>1 DEF Discard, Become, RunState
    <3>2. CASE Select(q, n)
      BY <1>t, <2>1, <3>2 DEF Select, Become, RunState
    <3> QED BY <2>9, <3>1, <3>2
  <2>10. ASSUME NEW p \in Pods, Evict(q, p) \/ EvictFails(q, p) PROVE Kept(q)
    BY <1>t, <2>1, <2>10 DEF Evict, EvictFails, Evicted, Become, RunState
  <2> HIDE DEF Kept
  <2> QED BY <1>4, <2>2, <2>3, <2>4, <2>5, <2>7, <2>8, <2>9, <2>10 DEF RunStep
<1>5. Outside => Tick \/ run' = run
  BY DEF Outside, SetHalt, Restart, OperatorCordon, OperatorUncordon, GarbleStamp,
         KubeletReport, RemoveNode, AddNode, Schedule
<1>6. ASSUME NEW q \in Runs, Kept(q) PROVE run'[r].seen \in {run[r].seen, host, IdleRun.seen}
  BY <1>6
<1> HIDE DEF Kept
<1> QED BY <1>1, <1>2, <1>3, <1>4, <1>5, <1>6 DEF Next, vars

\* A pod leaves its node, or is placed where there is room.
LEMMA HostStep ==
  ASSUME TypeOK, [Next]_vars
  PROVE  \/ host' = host
         \/ \E p \in Pods : host' = [host EXCEPT ![p] = Nowhere]
         \/ \E p \in Pods, n \in Nodes :
              /\ host[p] = Nowhere /\ host' = [host EXCEPT ![p] = n]
              /\ \A d \in Resource : Size[p][d] <= Free(host, n, d)
<1>1. ASSUME NEW r \in Runs, Start(r) \/ RunStep(r) \/ Crash(r)
      PROVE  host' = host \/ \E p \in Pods : host' = [host EXCEPT ![p] = Nowhere]
  BY <1>1
  DEF Start, RunStep, HaltCheck, ReapList, ReapNothing, ReapWrite, ReapWriteFails,
      ListNodes, ListPods, GetTarget, GetCordonedTarget, Claim, Return, Finish, ReapGet,
      ReapGetFails, Select, Discard, Evict, EvictFails, Crash
<1>2. CASE UNCHANGED host
  BY <1>2
<1>3. ASSUME Outside, host' # host
      PROVE  \/ \E p \in Pods : Restart(p)
             \/ \E n \in Nodes, p \in Pods : Schedule(p, n)
  BY <1>3 DEF Outside, Tick, SetHalt, OperatorCordon, OperatorUncordon, GarbleStamp,
              KubeletReport, RemoveNode, AddNode
<1>4. ASSUME NEW p \in Pods, Restart(p) PROVE host' = [host EXCEPT ![p] = Nowhere]
  BY <1>4 DEF Restart
<1>5. ASSUME NEW p \in Pods, NEW n \in Nodes, Schedule(p, n)
      PROVE  /\ host[p] = Nowhere /\ host' = [host EXCEPT ![p] = n]
             /\ \A d \in Resource : Size[p][d] <= Free(host, n, d)
  BY <1>5 DEF Schedule
<1> QED BY <1>1, <1>2, <1>3, <1>4, <1>5 DEF Next, vars

\* Fewer pods on every node leave it no more crowded.
LEMMA FewerUncrowded ==
  ASSUME NEW v, NEW w, DOMAIN v \subseteq Pods, DOMAIN w \subseteq Pods, Uncrowded(w),
         \A n \in Nodes : PodsOn(v, n) \subseteq PodsOn(w, n)
  PROVE  Uncrowded(v)
<1> SUFFICES ASSUME NEW n \in Nodes, NEW d \in Resource PROVE Free(v, n, d) >= 0
  BY DEF Uncrowded
<1>1. Cap[n][d] \in Nat
  BY ConstantsAssumption DEF ConstantsAssumption
<1>2. /\ Requested(v, n, d) \in Nat /\ Requested(w, n, d) \in Nat
      /\ Requested(v, n, d) <= Requested(w, n, d)
  BY RequestedFewer
<1>3. Cap[n][d] - Requested(w, n, d) >= 0
  BY DEF Uncrowded, Free
<1> QED BY <1>1, <1>2, <1>3 DEF Free

\* Nothing on any node.
LEMMA EmptyUncrowded ==
  ASSUME NEW v, DOMAIN v \subseteq Pods, \A n \in Nodes : PodsOn(v, n) = {}
  PROVE  Uncrowded(v)
<1> SUFFICES ASSUME NEW n \in Nodes, NEW d \in Resource PROVE Free(v, n, d) >= 0
  BY DEF Uncrowded
<1>1. Requested(v, n, d) = 0
  BY RequestedIsSum, SumEmpty
<1>2. Cap[n][d] \in Nat
  BY ConstantsAssumption DEF ConstantsAssumption
<1> QED BY <1>1, <1>2 DEF Free

LEMMA IdleUncrowded == Uncrowded(IdleRun.seen)
<1>1. IdleRun.seen = [p \in Pods |-> Nowhere]
  BY DEF IdleRun
<1>2. \A n \in Nodes : PodsOn([p \in Pods |-> Nowhere], n) = {}
  BY ConstantsAssumption DEF ConstantsAssumption, PodsOn
<1> DEFINE v == [p \in Pods |-> Nowhere]
<1>3. DOMAIN v \subseteq Pods
  OBVIOUS
<1> HIDE DEF v
<1>4. Uncrowded(v)
  BY <1>2, <1>3, EmptyUncrowded DEF v
<1> QED BY <1>1, <1>4 DEF v

LEMMA RoomInit == Init => RoomInv
<1> SUFFICES ASSUME Init PROVE RoomInv
  OBVIOUS
<1>1. Uncrowded(host)
  <2>1. host = InitHosts
    BY DEF Init
  <2> QED BY <2>1, InitHostsAssumption DEF Uncrowded
<1>2. \A r \in Runs : run[r].seen = IdleRun.seen
  BY DEF Init
<1> QED BY <1>1, <1>2, IdleUncrowded DEF RoomInv

LEMMA HostUncrowded ==
  ASSUME TypeOK, TypeOK', [Next]_vars, Uncrowded(host)
  PROVE  Uncrowded(host')
<1>t. /\ host \in [Pods -> Nodes \cup {Nowhere}] /\ host' \in [Pods -> Nodes \cup {Nowhere}]
      /\ Nowhere \notin Nodes
  BY ConstantsAssumption DEF TypeOK, ConstantsAssumption
<1>1. CASE host' = host
  BY <1>1
<1>2. ASSUME NEW p \in Pods, host' = [host EXCEPT ![p] = Nowhere] PROVE Uncrowded(host')
  <2>1. \A n \in Nodes : PodsOn(host', n) \subseteq PodsOn(host, n)
    BY <1>t, <1>2 DEF PodsOn
  <2>2. DOMAIN host' \subseteq Pods /\ DOMAIN host \subseteq Pods
    BY <1>t
  <2> QED BY <2>1, <2>2, FewerUncrowded
<1>3. ASSUME NEW p \in Pods, NEW n \in Nodes, host[p] = Nowhere, host' = [host EXCEPT ![p] = n],
             \A d \in Resource : Size[p][d] <= Free(host, n, d)
      PROVE  Uncrowded(host')
  <2> SUFFICES ASSUME NEW m \in Nodes, NEW d \in Resource PROVE Free(host', m, d) >= 0
    BY DEF Uncrowded
  <2>1. CASE m # n
    <3>1. PodsOn(host', m) = PodsOn(host, m)
      BY <1>t, <1>3, <2>1 DEF PodsOn
    <3>2. DOMAIN host' \subseteq Pods /\ DOMAIN host \subseteq Pods
      BY <1>t
    <3>3. Requested(host', m, d) = Requested(host, m, d)
      BY <3>1, <3>2, RequestedIsSum
    <3> QED BY <3>3 DEF Uncrowded, Free
  <2>2. CASE m = n
    <3>1. PodsOn(host', n) = PodsOn(host, n) \cup {p} /\ PodsOn(host, n) \cap {p} = {}
            /\ PodsOn(host, n) \in SUBSET Pods
      BY <1>t, <1>3 DEF PodsOn
    <3>2. DOMAIN host' \subseteq Pods /\ DOMAIN host \subseteq Pods
      BY <1>t
    <3>3. Requested(host', n, d) = SumOver(SizeIn(d), PodsOn(host', n))
            /\ Requested(host, n, d) = SumOver(SizeIn(d), PodsOn(host, n))
      BY <3>2, RequestedIsSum
    <3>4. SumOver(SizeIn(d), {p}) = Size[p][d]
      BY OneSize
    <3>5. SumOver(SizeIn(d), PodsOn(host', n))
            = SumOver(SizeIn(d), PodsOn(host, n)) + SumOver(SizeIn(d), {p})
      BY <3>1, SumApart
    <3>6. /\ Cap[n][d] \in Nat /\ Size[p][d] \in Nat /\ Requested(host, n, d) \in Nat
          /\ Size[p][d] <= Cap[n][d] - Requested(host, n, d)
      <4>1. Cap[n][d] \in Nat /\ Size[p][d] \in Nat
        BY ConstantsAssumption DEF ConstantsAssumption
      <4>2. Requested(host, n, d) \in Nat
        BY <3>2, RequestedFewer
      <4> QED BY <1>3, <4>1, <4>2 DEF Free
    <3> QED BY <2>2, <3>3, <3>4, <3>5, <3>6 DEF Free
  <2> QED BY <2>1, <2>2
<1> QED BY <1>1, <1>2, <1>3, HostStep

LEMMA RoomPreserved == TypeOK /\ RoomInv /\ [Next]_vars => RoomInv'
<1> SUFFICES ASSUME TypeOK, RoomInv, [Next]_vars PROVE RoomInv'
  OBVIOUS
<1>1. TypeOK'
  BY TypePreserved
<1>2. Uncrowded(host')
  BY <1>1, HostUncrowded DEF RoomInv
<1>3. \A r \in Runs : Uncrowded(run'[r].seen)
  BY SeenStep, IdleUncrowded DEF RoomInv
<1> QED BY <1>2, <1>3 DEF RoomInv, Uncrowded

\* No node is given more than it holds, and no pod list shows one that is.
THEOREM RoomInvariance == Spec => []RoomInv
BY RoomInit, RoomPreserved, TypeCorrect, PTL DEF Spec

\* What several nodes were asked for is what the pods on them ask for.
LEMMA RequestedByNode ==
  ASSUME NEW d \in Resource, NEW w \in [Pods -> Nodes \cup {Nowhere}], NEW A \in SUBSET Nodes
  PROVE  SumOver([m \in Nodes |-> Requested(w, m, d)], A)
           = SumOver(SizeIn(d), {q \in Pods : w[q] \in A})
<1> DEFINE f == [m \in Nodes |-> Requested(w, m, d)]
           Within(T) == {q \in Pods : w[q] \in T}
           Bad == {T \in SUBSET A : SumOver(f, T) # SumOver(SizeIn(d), Within(T))}
<1>f. IsFiniteSet(A)
  BY ConstantsAssumption, FS_Subset DEF ConstantsAssumption
<1> SUFFICES ASSUME Bad # {} PROVE FALSE
  OBVIOUS
<1>1. PICK T \in Bad : \A U \in Bad : U \subseteq T => U = T
  <2>1. Bad \in SUBSET SUBSET A
    OBVIOUS
  <2> HIDE DEF Bad
  <2> QED BY <1>f, <2>1, LeastSet
<1>2. T \in SUBSET A /\ IsFiniteSet(T) /\ SumOver(f, T) # SumOver(SizeIn(d), Within(T))
  BY <1>1, <1>f, FS_Subset
<1>3. T # {}
  <2>1. T = {} => Within(T) = {}
    OBVIOUS
  <2> HIDE DEF f, Within
  <2> QED BY <1>2, <2>1, SumEmpty
<1> DEFINE e == Pick(T)
           R == T \ {e}
           E == {q \in Pods : w[q] = e}
<1>4. e \in T /\ e \in Nodes
  BY <1>2, <1>3, PickIn
<1>5. SumOver(f, R) = SumOver(SizeIn(d), Within(R))
  BY <1>1, <1>4
<1>6. SumOver(f, T) = f[e] + SumOver(f, R)
  <2> HIDE DEF f
  <2> QED BY <1>2, <1>3, SumStep
<1>7. f[e] = SumOver(SizeIn(d), E)
  <2>1. f[e] = Requested(w, e, d)
    BY <1>4
  <2>2. PodsOn(w, e) = E
    BY DEF PodsOn
  <2> HIDE DEF e, f
  <2> QED BY <2>1, <2>2, RequestedIsSum
<1>8. Within(T) = Within(R) \cup E /\ Within(R) \cap E = {}
        /\ Within(R) \in SUBSET Pods /\ E \in SUBSET Pods
  BY <1>4
<1> HIDE DEF f, Within, E, R, e
<1>9. SumOver(SizeIn(d), Within(T)) = SumOver(SizeIn(d), Within(R)) + SumOver(SizeIn(d), E)
  BY <1>8, SumApart
<1>10. SumOver(SizeIn(d), Within(R)) \in Nat /\ SumOver(SizeIn(d), E) \in Nat
  BY <1>8, SumFewer
<1> QED BY <1>2, <1>5, <1>6, <1>7, <1>9, <1>10

\* Where the run means every pod to be once the drain is over.
Planned(r, a) ==
  [q \in Pods |-> IF q \in Relocatable(r, run[r].target) THEN a[q] ELSE run[r].seen[q]]

\* The plan overcommits no node that stays.
LEMMA PlanFits ==
  ASSUME SerialInv, RoomInv, NEW r \in Runs,
         NEW a \in [Relocatable(r, run[r].target) -> run[r].avail \ {run[r].target}],
         \A p \in Relocatable(r, run[r].target), d \in Resource :
           Requested(a, a[p], d) <= Free(run[r].seen, a[p], d),
         NEW m \in Nodes, m # run[r].target, NEW d \in Resource
  PROVE  Requested(Planned(r, a), m, d) <= Cap[m][d]
<1> DEFINE seen == run[r].seen
           moved == Relocatable(r, run[r].target)
           plan == Planned(r, a)
<1>1. /\ DOMAIN seen = Pods /\ DOMAIN a = moved /\ moved \in SUBSET Pods /\ DOMAIN plan = Pods
  BY DEF SerialInv, TypeOK, RunState, Relocatable, Planned
<1>2. /\ PodsOn(plan, m) = PodsOn(a, m) \cup PodsOn(seen, m)
      /\ PodsOn(a, m) \cap PodsOn(seen, m) = {}
      /\ PodsOn(a, m) \in SUBSET Pods /\ PodsOn(seen, m) \in SUBSET Pods
  BY <1>1 DEF PodsOn, Planned, Relocatable
<1>3. Cap[m][d] \in Nat /\ Free(seen, m, d) >= 0
  BY ConstantsAssumption DEF ConstantsAssumption, RoomInv, Uncrowded
<1> HIDE DEF seen, moved, plan
<1>4. /\ Requested(a, m, d) = SumOver(SizeIn(d), PodsOn(a, m))
      /\ Requested(seen, m, d) = SumOver(SizeIn(d), PodsOn(seen, m))
      /\ Requested(plan, m, d) = SumOver(SizeIn(d), PodsOn(plan, m))
  BY <1>1, RequestedIsSum
<1>5. Requested(plan, m, d) = Requested(a, m, d) + Requested(seen, m, d)
  BY <1>2, <1>4, SumApart
<1>6. Requested(a, m, d) \in Nat /\ Requested(seen, m, d) \in Nat
  BY <1>1, RequestedFewer
<1>7. Requested(a, m, d) <= Free(seen, m, d)
  <2>1. CASE PodsOn(a, m) = {}
    BY <1>3, <1>4, <2>1, SumEmpty
  <2>2. CASE \E p \in moved : a[p] = m
    BY <2>2 DEF seen, moved
  <2> QED BY <1>1, <2>1, <2>2 DEF PodsOn
<1>8. Requested(plan, m, d) <= Cap[m][d]
  BY <1>3, <1>5, <1>6, <1>7 DEF Free
<1> QED BY <1>8 DEF plan

\* What holds of a run that drains a node, as far as room is concerned.
Drains(r) ==
  /\ run[r].pc = "evict"
  /\ \A p \in Pods : run[r].seen[p] \in run[r].avail

\* A pod that is down, or on a node that stays, is planned on a node that stays.
LEMMA PlanCovers ==
  ASSUME SerialInv, DrainInv, NEW r \in Runs, Drains(r),
         NEW a \in [Relocatable(r, run[r].target) -> run[r].avail \ {run[r].target}],
         NEW q \in Pods, host[q] = Nowhere \/ host[q] # run[r].target
  PROVE  Planned(r, a)[q] \in run[r].avail \ {run[r].target}
<1> DEFINE t == run[r].target
           A == run[r].avail \ {t}
<1>1. t \in Nodes /\ t # Nowhere /\ ListedStay(r)
  BY ConstantsAssumption
  DEF SerialInv, DrainInv, Active, RunInv, DrainSound, Drains, ConstantsAssumption
<1>2. CASE q \in Relocatable(r, t)
  BY <1>2 DEF Planned
<1>3. CASE q \notin Relocatable(r, t)
  <2>1. Planned(r, a)[q] = run[r].seen[q] /\ run[r].seen[q] \in run[r].avail
    BY <1>3 DEF Planned, Drains
  <2>2. run[r].seen[q] # t
    <3> SUFFICES ASSUME run[r].seen[q] = t PROVE FALSE
      OBVIOUS
    <3>1. q \in SelfPods \cup Pinned
      BY <1>3 DEF Relocatable
    <3>2. q \in Pinned /\ host[q] = t
      BY <1>1, <3>1 DEF ListedStay, Drains
    <3> QED BY <1>1, <3>2
  <2> QED BY <2>1, <2>2
<1> QED BY <1>2, <1>3

\* There is enough left for what is down.
LEMMA EnoughLeft ==
  ASSUME SerialInv, DrainInv, RoomInv, NEW r \in Runs, Drains(r), NEW d \in Resource
  PROVE  Requested(host, Nowhere, d) <= FreeOn(host, run[r].avail \ {run[r].target}, d)
<1> DEFINE t == run[r].target
           A == run[r].avail \ {t}
<1>1. /\ t \in Nodes /\ A \in SUBSET Nodes /\ Nowhere \notin A /\ t \notin A
      /\ host \in [Pods -> Nodes \cup {Nowhere}]
      /\ run[r].seen \in [Pods -> Nodes \cup {Nowhere}]
      /\ DrainSound(r)
  BY ConstantsAssumption
  DEF SerialInv, DrainInv, Active, RunInv, TypeOK, RunState, Drains, ConstantsAssumption
<1>2. PICK a \in [Relocatable(r, t) -> A] :
        \A p \in Relocatable(r, t), e \in Resource :
          Requested(a, a[p], e) <= Free(run[r].seen, a[p], e)
  BY <1>1 DEF DrainSound, MayFit, Drains
<1> DEFINE plan == Planned(r, a)
           P == {q \in Pods : plan[q] \in A}
           H == {q \in Pods : host[q] \in A}
           D == PodsOn(host, Nowhere)
<1>3. plan \in [Pods -> Nodes \cup {Nowhere}]
  BY <1>1, <1>2 DEF Planned
<1>4. /\ H \cup D \in SUBSET P /\ H \cap D = {}
      /\ H \in SUBSET Pods /\ D \in SUBSET Pods /\ P \in SUBSET Pods
  <2>1. D = {q \in Pods : host[q] = Nowhere}
    BY <1>1 DEF PodsOn
  <2>2. \A q \in H \cup D : host[q] = Nowhere \/ host[q] # t
    BY <1>1, <2>1
  <2>3. \A q \in H \cup D : q \in Pods /\ plan[q] \in A
    BY <1>2, <2>1, <2>2, PlanCovers
  <2> HIDE DEF D, plan
  <2> QED BY <1>1, <2>1, <2>3
<1> DEFINE f == SizeIn(d)
           cap == [m \in Nodes |-> Cap[m][d]]
           planned == [m \in Nodes |-> Requested(plan, m, d)]
           hosted == [m \in Nodes |-> Requested(host, m, d)]
           free == [m \in Nodes |-> Free(host, m, d)]
<1>5. IsFiniteSet(A)
  BY <1>1, ConstantsAssumption, FS_Subset DEF ConstantsAssumption
<1>6. \A m \in A : /\ planned[m] \in Int /\ cap[m] \in Int /\ planned[m] <= cap[m]
                   /\ hosted[m] \in Int /\ free[m] \in Int /\ cap[m] = free[m] + hosted[m]
  <2> SUFFICES ASSUME NEW m \in A
               PROVE  /\ planned[m] \in Int /\ cap[m] \in Int /\ planned[m] <= cap[m]
                      /\ hosted[m] \in Int /\ free[m] \in Int /\ cap[m] = free[m] + hosted[m]
    OBVIOUS
  <2>1. m \in Nodes /\ m # t /\ Cap[m][d] \in Nat
    BY <1>1, ConstantsAssumption DEF ConstantsAssumption
  <2>2. Requested(plan, m, d) <= Cap[m][d]
    BY <1>2, <2>1, PlanFits
  <2>3. DOMAIN plan \subseteq Pods /\ DOMAIN host \subseteq Pods
    BY <1>1, <1>3
  <2>4. Requested(plan, m, d) \in Nat /\ Requested(host, m, d) \in Nat
    <3> HIDE DEF plan
    <3> QED BY <2>3, RequestedFewer
  <2>5. /\ planned[m] = Requested(plan, m, d) /\ cap[m] = Cap[m][d]
        /\ hosted[m] = Requested(host, m, d) /\ free[m] = Cap[m][d] - Requested(host, m, d)
    BY <2>1 DEF Free
  <2> HIDE DEF planned, cap, hosted, free, plan, A
  <2> QED BY <2>1, <2>2, <2>4, <2>5
<1>7. /\ SumOver(planned, A) = SumOver(f, P) /\ SumOver(hosted, A) = SumOver(f, H)
      /\ FreeOn(host, A, d) = SumOver(free, A)
  <2>1. \A w \in [Pods -> Nodes \cup {Nowhere}] :
          SumOver([m \in Nodes |-> Requested(w, m, d)], A)
            = SumOver(f, {q \in Pods : w[q] \in A})
    BY <1>1, RequestedByNode
  <2>2. SumOver(planned, A) = SumOver(f, P)
    <3> HIDE DEF plan, f, A
    <3> QED BY <1>3, <2>1
  <2>3. SumOver(hosted, A) = SumOver(f, H)
    <3> HIDE DEF f, A
    <3> QED BY <1>1, <2>1
  <2>4. FreeOn(host, A, d) = SumOver(free, A)
    BY <1>1, FreeOnIsSum
  <2> QED BY <2>2, <2>3, <2>4
<1>8. Requested(host, Nowhere, d) = SumOver(f, D)
  BY <1>1, RequestedIsSum
<1> HIDE DEF f, cap, planned, hosted, free, P, H, D, A, plan
<1>9. SumOver(planned, A) <= SumOver(cap, A)
  BY <1>5, <1>6, SumOrder
<1>10. SumOver(cap, A) = SumOver(free, A) + SumOver(hosted, A)
  BY <1>5, <1>6, SumPlus
<1>11. SumOver(free, A) \in Int /\ SumOver(hosted, A) \in Int
  BY <1>5, <1>6, SumInt
<1>12. SumOver(f, H \cup D) = SumOver(f, H) + SumOver(f, D)
  BY <1>4, SumApart DEF f
<1>13. SumOver(f, H \cup D) <= SumOver(f, P) /\ SumOver(f, P) \in Nat
  BY <1>4, SumFewer DEF f
<1>14. SumOver(f, H) \in Nat /\ SumOver(f, D) \in Nat
  BY <1>4, SumFewer DEF f
<1>15. Requested(host, Nowhere, d) <= FreeOn(host, A, d)
  BY <1>7, <1>8, <1>9, <1>10, <1>11, <1>12, <1>13, <1>14
<1> QED BY <1>15 DEF A

\* Nobody having moved meanwhile, the plan is where those that are down may go.
LEMMA PlanStands ==
  ASSUME SerialInv, DrainInv, RoomInv, NEW r \in Runs, Drains(r),
         \A p \in Pods : host[p] # Nowhere => host[p] = run[r].seen[p]
  PROVE  LET down == {p \in Pods : host[p] = Nowhere} IN
         \E b \in [down -> run[r].avail \ {run[r].target}] :
           \A p \in down, d \in Resource : Requested(b, b[p], d) <= Free(host, b[p], d)
<1> DEFINE t == run[r].target
           A == run[r].avail \ {t}
           down == {p \in Pods : host[p] = Nowhere}
<1>1. /\ t \in Nodes /\ A \in SUBSET Nodes /\ Nowhere \notin A /\ t \notin A
      /\ host \in [Pods -> Nodes \cup {Nowhere}]
      /\ run[r].seen \in [Pods -> Nodes \cup {Nowhere}]
      /\ DrainSound(r)
  BY ConstantsAssumption
  DEF SerialInv, DrainInv, Active, RunInv, TypeOK, RunState, Drains, ConstantsAssumption
<1>2. PICK a \in [Relocatable(r, t) -> A] :
        \A p \in Relocatable(r, t), e \in Resource :
          Requested(a, a[p], e) <= Free(run[r].seen, a[p], e)
  BY <1>1 DEF DrainSound, MayFit, Drains
<1> DEFINE plan == Planned(r, a)
           b == [p \in down |-> plan[p]]
<1>3. \A p \in down : plan[p] \in A
  BY <1>2, PlanCovers
<1>4. b \in [down -> A]
  BY <1>3
<1>5. ASSUME NEW p \in down, NEW d \in Resource
      PROVE  Requested(b, b[p], d) <= Free(host, b[p], d)
  <2> DEFINE m == plan[p]
  <2>1. b[p] = m /\ m \in A /\ m \in Nodes /\ m # t /\ m # Nowhere
    BY <1>1, <1>3
  <2>2. DOMAIN b = down /\ DOMAIN host = Pods /\ DOMAIN plan = Pods
    BY <1>1 DEF Planned
  <2>3. \A q \in Pods : host[q] = m => plan[q] = m
    BY <1>1, <2>1 DEF Planned, Relocatable
  <2> HIDE DEF m, plan
  <2>4. /\ PodsOn(b, m) \cup PodsOn(host, m) \in SUBSET PodsOn(plan, m)
        /\ PodsOn(b, m) \cap PodsOn(host, m) = {} /\ PodsOn(plan, m) \in SUBSET Pods
        /\ PodsOn(b, m) \in SUBSET Pods /\ PodsOn(host, m) \in SUBSET Pods
    BY <2>1, <2>2, <2>3 DEF PodsOn
  <2>5. Requested(plan, m, d) <= Cap[m][d]
    BY <1>2, <2>1, PlanFits DEF plan
  <2>6. /\ Requested(b, m, d) = SumOver(SizeIn(d), PodsOn(b, m))
        /\ Requested(host, m, d) = SumOver(SizeIn(d), PodsOn(host, m))
        /\ Requested(plan, m, d) = SumOver(SizeIn(d), PodsOn(plan, m))
    <3>1. DOMAIN b \subseteq Pods /\ DOMAIN host \subseteq Pods /\ DOMAIN plan \subseteq Pods
      BY <2>2
    <3> HIDE DEF b
    <3> QED BY <3>1, RequestedIsSum
  <2> HIDE DEF b
  <2>7. SumOver(SizeIn(d), PodsOn(b, m) \cup PodsOn(host, m))
          = SumOver(SizeIn(d), PodsOn(b, m)) + SumOver(SizeIn(d), PodsOn(host, m))
    BY <2>4, SumApart
  <2>8. /\ SumOver(SizeIn(d), PodsOn(b, m) \cup PodsOn(host, m))
             <= SumOver(SizeIn(d), PodsOn(plan, m))
        /\ SumOver(SizeIn(d), PodsOn(plan, m)) \in Nat
    BY <2>4, SumFewer
  <2>9. SumOver(SizeIn(d), PodsOn(b, m)) \in Nat /\ SumOver(SizeIn(d), PodsOn(host, m)) \in Nat
    BY <2>4, SumFewer
  <2>10. Cap[m][d] \in Nat
    BY <2>1, ConstantsAssumption DEF ConstantsAssumption
  <2>11. Requested(b, m, d) <= Cap[m][d] - Requested(host, m, d)
    BY <2>5, <2>6, <2>7, <2>8, <2>9, <2>10
  <2> QED BY <2>1, <2>11 DEF Free
<1> HIDE DEF b, A, down
<1> QED BY <1>4, <1>5 DEF A, down

LEMMA DrainedHaveRoom == SerialInv /\ DrainInv /\ RoomInv => DrainedFindRoom
<1> SUFFICES ASSUME SerialInv, DrainInv, RoomInv, NEW r \in Runs, Drains(r)
             PROVE
    LET rest == run[r].avail \ {run[r].target}
        down == {p \in Pods : host[p] = Nowhere} IN
    /\ \A d \in Resource : Requested(host, Nowhere, d) <= FreeOn(host, rest, d)
    /\ (\A p \in Pods \ down : host[p] = run[r].seen[p])
         => \E a \in [down -> rest] : \A p \in down, d \in Resource :
              Requested(a, a[p], d) <= Free(host, a[p], d)
  BY DEF DrainedFindRoom, Drains
<1>1. \A d \in Resource :
        Requested(host, Nowhere, d) <= FreeOn(host, run[r].avail \ {run[r].target}, d)
  BY EnoughLeft
<1>2. (\A p \in Pods \ {q \in Pods : host[q] = Nowhere} : host[p] = run[r].seen[p])
        => \A p \in Pods : host[p] # Nowhere => host[p] = run[r].seen[p]
  OBVIOUS
<1> QED BY <1>1, <1>2, PlanStands

\* While a node is drained, the nodes in service have as much left as the replicas
\* that are down request, and a place for each as long as none was placed where it
\* was not listed: with any number of replicas, of any sizes, whatever operators,
\* the scheduler and the autoscaler do in between, under the conditions of
\* DrainedFindRoom.
THEOREM DrainedFindTheirRoom ==
  ASSUME ~Overlap
  PROVE  Spec => []DrainedFindRoom
BY DrainedHaveRoom, SerialInvariance, DrainInvariance, RoomInvariance, PTL

=============================================================================
