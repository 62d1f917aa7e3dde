-------------------------- MODULE ScoreQueueProofs --------------------------
(***************************************************************************)
(* Proofs about ScoreQueue, for every set of jobs and slots, every set of  *)
(* planners, batch cap and bound.                                          *)
(*                                                                         *)
(* An AI score is never taken away again: not by a keyword floor pass that *)
(* read the job before it was rated, not by a failed, stopped or retried   *)
(* score operation, not by a restart.  Only the type of `job` is needed;   *)
(* the argument is that every action that writes a method either writes    *)
(* "llm" or looks at the method in the same step.                          *)
(*                                                                         *)
(* Attempts are accounted for: each is charged to a call that reached the  *)
(* provider or to a Stop.  A Stop pays in advance: it is counted when it   *)
(* is pressed, and until the operation polls its token the attempt it will *)
(* cost is still due.                                                      *)
(*                                                                         *)
(* A planner has one operation of a job alive and one rating of it in its  *)
(* life, whoever else plans, asks for a rescore or stops it.               *)
(***************************************************************************)
EXTENDS ScoreQueue, TLAPS, FiniteSetTheorems, WellFoundedInduction

JobType == job \in [Jobs -> [method : {"none", "keyword", "llm"}, attempts : Nat]]

KeepsAIScore == \A j \in Jobs : job[j].method = "llm" => job'[j].method = "llm"

(* Spending an attempt leaves a job well formed and keeps an AI score.     *)
LEMMA BurnKeeps ==
  ASSUME JobType, NEW o \in Ops, Burn(o[1])
  PROVE  JobType' /\ KeepsAIScore
<1>1. o[1] \in Jobs
  BY DEF Ops
<1>. QED
  BY <1>1 DEF JobType, KeepsAIScore, Burn

(* Writing one method over a job that is not AI-scored, or "llm" over any. *)
LEMMA WriteKeeps ==
  ASSUME JobType, NEW i \in Jobs, NEW m \in {"keyword", "llm"},
         job' = [job EXCEPT ![i].method = m], job[i].method = "llm" => m = "llm"
  PROVE  JobType' /\ KeepsAIScore
BY DEF JobType, KeepsAIScore

(* What a step of an operation does to the jobs.                           *)
LEMMA OpStepKeeps ==
  ASSUME JobType, NEW o \in Ops, OpStep(o)
  PROVE  JobType' /\ KeepsAIScore
<1>1. ASSUME UNCHANGED job PROVE JobType' /\ KeepsAIScore
  BY <1>1 DEF JobType, KeepsAIScore
<1>2. CASE StopBeforeCall(o) \/ FailCall(o)
  BY <1>2, BurnKeeps DEF StopBeforeCall, FailCall
<1>3. CASE WriteScore(o)
  <2>1. o[1] \in Jobs
    BY DEF Ops
  <2>2. job' = [job EXCEPT ![o[1]].method = "llm"]
    BY <1>3 DEF WriteScore
  <2>. QED
    BY <2>1, <2>2, WriteKeeps
<1>4. CASE Start(o) \/ Reject(o) \/ Call(o) \/ Answer(o) \/ ReadMethod(o) \/ Finish(o) \/ Stop(o)
  BY <1>4, <1>1 DEF Start, Reject, Call, Answer, ReadMethod, Finish, Stop
<1>. QED
  BY <1>2, <1>3, <1>4 DEF OpStep

LEMMA NextKeeps ==
  ASSUME JobType, [Next]_vars
  PROVE  JobType' /\ KeepsAIScore
<1>1. ASSUME UNCHANGED job PROVE JobType' /\ KeepsAIScore
  BY <1>1 DEF JobType, KeepsAIScore
<1>2. CASE \E p \in Planners : PlannerStep(p)
  BY <1>2, <1>1 DEF PlannerStep, Trigger, ReadInFlight, ReadJobs, SubmitPlan, MarkEnqueued
<1>3. CASE \E o \in Ops : OpStep(o)
  BY <1>3, OpStepKeeps
<1>4. CASE \E j \in Jobs : Rescore(j)
  BY <1>4, <1>1 DEF Rescore
<1>5. ASSUME NEW j \in Jobs, FloorWrite(j) PROVE JobType' /\ KeepsAIScore
  <2>1. CASE job[j].method = "llm"
    <3>1. job' = [job EXCEPT ![j].method = "llm"]
      BY <1>5, <2>1 DEF FloorWrite
    <3>. QED
      BY <3>1, WriteKeeps
  <2>2. CASE job[j].method # "llm"
    <3>1. job' = [job EXCEPT ![j].method = "keyword"]
      BY <1>5, <2>2 DEF FloorWrite
    <3>. QED
      BY <3>1, <2>2, WriteKeeps
  <2>. QED
    BY <2>1, <2>2
<1>6. CASE Retry
  BY <1>6 DEF Retry, JobType, KeepsAIScore
<1>7. CASE Due \/ TickDue \/ TickGuard \/ FloorRead \/ Crash \/ Boot
  BY <1>7, <1>1 DEF Due, TickDue, TickGuard, FloorRead, Crash, Boot
<1>8. CASE UNCHANGED vars
  BY <1>8, <1>1 DEF vars
<1>. QED
  BY <1>2, <1>3, <1>4, <1>5, <1>6, <1>7, <1>8 DEF Next

(* For every set of jobs, planners, batch cap and bound: once a job has    *)
(* its AI score it keeps one (set_score's guard inside the UPDATE).        *)
THEOREM AIScoreStays == Spec => FloorNeverReplaces
<1>1. Init => JobType
  BY DEF Init, JobType
<1>2. JobType /\ [Next]_vars => JobType' /\ KeepsAIScore
  BY NextKeeps
<1>3. JobType /\ [Next]_vars =>
        [\A j \in Jobs : job[j].method = "llm" => job'[j].method = "llm"]_vars
  BY <1>2 DEF KeepsAIScore
<1>. QED
  BY <1>1, <1>2, <1>3, PTL DEF Spec, FloorNeverReplaces

-----------------------------------------------------------------------------
(* Types                                                                   *)

OpStates == {"absent", "queued", "running", "succeeded", "failed", "cancelled"}
OpStages == {"idle", "entry", "call", "rated", "new", "known", "done", "failing", "stopped"}
OpRecord == [state : OpStates, stage : OpStages, stop : BOOLEAN, by : Askers]
OpType   == op \in [Ops -> OpRecord]
PlannerRecord ==
  [at : {"idle", "guard", "inflight", "jobs", "submit", "mark"},
   seen : SUBSET Jobs, plan : SUBSET Jobs, last : Ops \cup {None}]

LEMMA UseType ==
  ASSUME used \in [Sources -> Nat], NEW s \in Sources, Use(s)
  PROVE  used' \in [Sources -> Nat]
BY DEF Use

(* A free slot of least index exists whenever one is free.                 *)
LEMMA FirstFreeIsFree ==
  ASSUME NEW j \in Jobs, Free(j) # {}
  PROVE  FirstFree(j) \in Free(j) /\ FirstFree(j) \in Ops
<1>1. Free(j) \subseteq Ops /\ \A o \in Free(j) : o[1] = j /\ o[2] \in Nat
  BY QueueAssumption DEF Free, OpsOf, Ops
<1> DEFINE T == {o[2] : o \in Free(j)}
<1>2. T \subseteq Nat /\ T # {}
  BY <1>1
<1> DEFINE Below == {e \in Nat \X Nat : e[1] < e[2]}
<1>3. PICK n \in T : \A m \in T : ~(m < n)
  <2>1. IsWellFoundedOn(Below, Nat)
    BY NatLessThanWellFounded DEF OpToRel
  <2>2. PICK n \in T : \A m \in T : <<m, n>> \notin Below
    BY <1>2, <2>1, WFMin
  <2> QED
    BY <1>2, <2>2
<1>4. PICK o \in Free(j) : o[2] = n
  OBVIOUS
<1>5. \A q \in Free(j) : o[2] <= q[2]
  <2> SUFFICES ASSUME NEW q \in Free(j)
               PROVE  o[2] <= q[2]
    OBVIOUS
  <2>1. q[2] \in T /\ q[2] \in Nat /\ n \in Nat
    BY <1>1, <1>2
  <2> QED
    BY <1>3, <1>4, <2>1
<1> QED
  BY <1>1, <1>4, <1>5 DEF FirstFree

LEMMA EnqueueType ==
  ASSUME OpType, NEW batch, NEW by \in Askers, Enqueue(batch, by)
  PROVE  OpType'
<1>1. [Absent EXCEPT !.state = "queued", !.by = by] \in OpRecord
  BY DEF Absent, OpRecord, OpStates, OpStages
<1> QED
  BY <1>1 DEF Enqueue, OpType

(* What a planner writes down for the schedule is an operation, or none.   *)
LEMMA LastOfType ==
  ASSUME TypeOK, NEW p \in Planners, \A j \in planner[p].plan : Free(j) # {}
  PROVE  LastOf(p) \in Ops \cup {None}
<1> DEFINE plan == planner[p].plan
<1>1. plan \subseteq Jobs /\ planner[p].last \in Ops \cup {None}
  BY DEF TypeOK
<1>2. CASE plan = {}
  BY <1>1, <1>2 DEF LastOf
<1>3. CASE plan # {}
  <2> DEFINE Below == {e \in Nat \X Nat : e[1] < e[2]}
  <2>1. plan \subseteq Nat
    BY <1>1, QueueAssumption
  <2>2. IsWellFoundedOn(Below, Nat)
    BY NatLessThanWellFounded DEF OpToRel
  <2>3. PICK n \in plan : \A m \in plan : <<m, n>> \notin Below
    BY <1>3, <2>1, <2>2, WFMin
  <2>4. \A k \in plan : n <= k
    <3> SUFFICES ASSUME NEW k \in plan
                 PROVE  n <= k
      OBVIOUS
    <3>1. k \in Nat /\ n \in Nat /\ <<k, n>> \notin Below
      BY <2>1, <2>3
    <3> QED
      BY <3>1
  <2>5. Oldest(plan) \in plan
    BY <2>4 DEF Oldest
  <2>6. FirstFree(Oldest(plan)) \in Ops
    BY <1>1, <2>5, FirstFreeIsFree
  <2>7. LastOf(p) = FirstFree(Oldest(plan))
    BY <1>3 DEF LastOf
  <2> QED
    BY <2>6, <2>7
<1> QED
  BY <1>2, <1>3

LEMMA PlanType ==
  ASSUME NEW seen
  PROVE  Plan(seen) \subseteq Jobs
BY DEF Plan, Newest, Unscored

(* A planner keeps its own record, and the rows it enqueues are rows.      *)
LEMMA PlannerType ==
  ASSUME TypeOK, NEW p \in Planners, PlannerStep(p)
  PROVE  TypeOK'
<1>1. planner \in [Planners -> PlannerRecord] /\ planner[p] \in PlannerRecord /\ OpType
  BY DEF TypeOK, PlannerRecord, OpType, OpRecord, OpStates, OpStages
<1>2. CASE Trigger(p)
  <2>1. used' \in [Sources -> Nat]
    BY <1>2, UseType DEF Trigger, TypeOK, Sources
  <2>2. planner' \in [Planners -> PlannerRecord]
    BY <1>1, <1>2 DEF Trigger, Go, PlannerRecord
  <2> QED
    BY <1>2, <2>1, <2>2 DEF Trigger, TypeOK, PlannerRecord
<1>3. CASE ReadInFlight(p)
  <2>1. planner' \in [Planners -> PlannerRecord]
    BY <1>1, <1>3 DEF ReadInFlight, PlannerRecord
  <2> QED
    BY <1>3, <2>1 DEF ReadInFlight, TypeOK, PlannerRecord
<1>4. CASE ReadJobs(p)
  <2>1. planner' \in [Planners -> PlannerRecord]
    BY <1>1, <1>4, PlanType DEF ReadJobs, PlannerRecord
  <2> QED
    BY <1>4, <2>1 DEF ReadJobs, TypeOK, PlannerRecord
<1>5. CASE SubmitPlan(p)
  <2>1. LastOf(p) \in Ops \cup {None}
    BY <1>5, LastOfType DEF SubmitPlan, Enqueue
  <2>2. AtRest \in PlannerRecord /\ [AtRest EXCEPT !.at = "mark", !.last = LastOf(p)] \in PlannerRecord
    BY <2>1 DEF AtRest, PlannerRecord
  <2>3. planner' \in [Planners -> PlannerRecord]
    BY <1>1, <1>5, <2>2 DEF SubmitPlan
  <2>4. OpType'
    BY <1>1, <1>5, EnqueueType DEF SubmitPlan, Askers
  <2> QED
    BY <1>5, <2>3, <2>4
       DEF SubmitPlan, TypeOK, PlannerRecord, OpType, OpRecord, OpStates, OpStages
<1>6. CASE MarkEnqueued(p)
  <2>1. AtRest \in PlannerRecord
    BY DEF AtRest, PlannerRecord
  <2>2. planner' \in [Planners -> PlannerRecord]
    BY <1>1, <1>6, <2>1 DEF MarkEnqueued
  <2> QED
    BY <1>1, <1>6, <2>2 DEF MarkEnqueued, TypeOK, PlannerRecord
<1> QED
  BY <1>2, <1>3, <1>4, <1>5, <1>6 DEF PlannerStep

(* What an operation's step does to the operations, and to nothing of the  *)
(* planners.                                                               *)
LEMMA OpStepType ==
  ASSUME TypeOK, NEW o \in Ops, OpStep(o)
  PROVE  TypeOK'
<1>1. OpType /\ op[o] \in OpRecord /\ o[1] \in Jobs
  BY DEF TypeOK, Ops, OpType, OpRecord, OpStates, OpStages
<1>2. JobType'
  BY OpStepKeeps DEF TypeOK, JobType
<1>3. OpType'
  <2>1. CASE Start(o) \/ Reject(o)
    BY <1>1, <2>1 DEF Start, Reject, OpType, OpRecord, OpStates, OpStages
  <2>2. CASE StopBeforeCall(o) \/ Call(o) \/ Answer(o) \/ ReadMethod(o)
    BY <1>1, <2>2 DEF StopBeforeCall, Call, Answer, ReadMethod, Move, OpType, OpRecord, OpStages
  <2>3. CASE FailCall(o) \/ WriteScore(o)
    BY <1>1, <2>3 DEF FailCall, WriteScore, Move, OpType, OpRecord, OpStages
  <2>4. CASE Finish(o)
    BY <1>1, <2>4 DEF Finish, OpType, OpRecord, OpStates, OpStages
  <2>5. CASE Stop(o)
    BY <1>1, <2>5 DEF Stop, OpType, OpRecord, OpStates
  <2> QED
    BY <2>1, <2>2, <2>3, <2>4, <2>5 DEF OpStep
<1>4. /\ reached' \in [Jobs -> Nat] /\ used' \in [Sources -> Nat]
      /\ fed' \in [Jobs -> [Askers -> Nat]] /\ rated' \subseteq Jobs \X Planners
  <2>1. CASE Stop(o)
    BY <2>1, UseType DEF Stop, TypeOK, Sources
  <2>2. CASE FailCall(o)
    BY <1>1, <2>2 DEF FailCall, TypeOK
  <2>3. CASE WriteScore(o)
    <3>1. fed' = [fed EXCEPT ![o[1]][op[o].by] = @ + 1] \/ fed' = fed
      BY <2>3 DEF WriteScore
    <3>2. op[o].by \in Askers /\ fed \in [Jobs -> [Askers -> Nat]]
      BY <1>1 DEF OpRecord, TypeOK
    <3>3. fed' \in [Jobs -> [Askers -> Nat]]
      BY <1>1, <3>1, <3>2
    <3> QED
      BY <2>3, <3>3 DEF WriteScore, TypeOK
  <2>4. CASE \/ Start(o) \/ Reject(o) \/ StopBeforeCall(o) \/ Call(o) \/ Answer(o)
             \/ ReadMethod(o) \/ Finish(o)
    BY <2>4 DEF Start, Reject, StopBeforeCall, Call, Answer, ReadMethod, Finish, TypeOK
  <2> QED
    BY <2>1, <2>2, <2>3, <2>4 DEF OpStep
<1>5. UNCHANGED <<planner, schedule, floor, up>>
  BY DEF OpStep, Start, Reject, StopBeforeCall, Call, FailCall, Answer, ReadMethod, WriteScore,
         Finish, Stop
<1> QED
  BY <1>2, <1>3, <1>4, <1>5 DEF TypeOK, JobType, OpType, OpRecord, OpStates, OpStages

LEMMA NextType ==
  ASSUME TypeOK, [Next]_vars
  PROVE  TypeOK'
<1>1. OpType /\ JobType /\ used \in [Sources -> Nat]
  BY DEF TypeOK, JobType, OpType, OpRecord, OpStates, OpStages
<1>2. JobType'
  BY <1>1, NextKeeps
<1>3. ASSUME NEW j \in Jobs, Rescore(j)
      PROVE  TypeOK'
  <2>1. OpType' /\ used' \in [Sources -> Nat]
    BY <1>1, <1>3, EnqueueType, UseType DEF Rescore, Sources, Askers
  <2> QED
    BY <1>3, <2>1 DEF Rescore, TypeOK, OpType, OpRecord, OpStates, OpStages
<1>4. CASE Due
  BY <1>4 DEF Due, TypeOK
<1>5. CASE TickDue
  <2>1. [AtRest EXCEPT !.at = "guard", !.last = schedule.last] \in PlannerRecord
    BY DEF AtRest, PlannerRecord, TypeOK
  <2> QED
    BY <1>5, <2>1 DEF TickDue, TypeOK, PlannerRecord
<1>6. CASE TickGuard
  <2>1. "tick" \in Planners
    BY <1>6 DEF TickGuard
  <2>2. planner' \in [Planners -> PlannerRecord]
    <3>1. planner["tick"] \in PlannerRecord
      BY <2>1 DEF TypeOK, PlannerRecord
    <3>2. PICK to \in {"idle", "inflight"} : planner' = [planner EXCEPT !["tick"].at = to]
      BY <1>6 DEF TickGuard, Go
    <3>3. [planner["tick"] EXCEPT !.at = to] \in PlannerRecord
      BY <3>1 DEF PlannerRecord
    <3> QED
      BY <2>1, <3>2, <3>3 DEF TypeOK, PlannerRecord
  <2>3. schedule' \in [due : BOOLEAN, last : Ops \cup {None}]
    BY <1>6 DEF TickGuard, TypeOK
  <2> QED
    BY <1>6, <2>2, <2>3 DEF TickGuard, TypeOK, PlannerRecord
<1>7. CASE FloorRead
  BY <1>1, <1>7, UseType DEF FloorRead, TypeOK, Sources
<1>8. ASSUME NEW j \in Jobs, FloorWrite(j)
      PROVE  TypeOK'
  BY <1>2, <1>8 DEF FloorWrite, TypeOK, JobType
<1>9. CASE Retry
  BY <1>1, <1>2, <1>9, UseType DEF Retry, TypeOK, JobType, Sources
<1>10. CASE Crash
  <2>1. used' \in [Sources -> Nat] /\ AtRest \in PlannerRecord
    BY <1>1, <1>10, UseType DEF Crash, Sources, AtRest, PlannerRecord
  <2>2. OpType' /\ planner' \in [Planners -> PlannerRecord]
    BY <1>1, <1>10, <2>1 DEF Crash, OpType, OpRecord, OpStages
  <2> QED
    BY <1>10, <2>1, <2>2
       DEF Crash, TypeOK, PlannerRecord, OpType, OpRecord, OpStates, OpStages
<1>11. CASE Boot
  <2>1. OpType'
    BY <1>1, <1>11 DEF Boot, OpType, OpRecord, OpStates
  <2> QED
    BY <1>11, <2>1 DEF Boot, TypeOK, OpType, OpRecord, OpStates, OpStages
<1>12. CASE UNCHANGED vars
  BY <1>12 DEF vars, TypeOK
<1> QED
  BY <1>3, <1>4, <1>5, <1>6, <1>7, <1>8, <1>9, <1>10, <1>11, <1>12, PlannerType, OpStepType
     DEF Next

(* Every variable of the score queue keeps its type: in particular what a  *)
(* planner records for its schedule is always an operation it may look up. *)
THEOREM TypeCorrect == Spec => []TypeOK
<1>1. Init => TypeOK
  BY DEF Init, TypeOK, Absent, AtRest, Askers
<1>2. TypeOK /\ [Next]_vars => TypeOK'
  BY NextType
<1> QED
  BY <1>1, <1>2, PTL DEF Spec

-----------------------------------------------------------------------------
(* The Stops of a job that were pressed and have not cost their attempt    *)
(* yet: the operation is still before its poll of the token.               *)
StopsDue(j) == {o \in OpsOf(j) : op[o].stop /\ op[o].stage = "entry"}
Outstanding(j) == Cardinality(StopsDue(j))

(* A Stop pays when it is pressed.  A queued operation never carries one:  *)
(* Stop cancels it instead.                                                *)
Accounted ==
  /\ \A o \in Ops : op[o].state = "queued" => ~op[o].stop
  /\ \A j \in Jobs : /\ Outstanding(j) <= used["stops"]
                     /\ job[j].attempts + Outstanding(j) <= reached[j] + used["stops"]

LEMMA StopsDueFinite ==
  ASSUME NEW j \in Jobs
  PROVE  /\ IsFiniteSet(StopsDue(j)) /\ Outstanding(j) \in Nat
         /\ IsFiniteSet(StopsDue(j)') /\ Outstanding(j)' \in Nat
<1>1. IsFiniteSet(Ops)
  BY FS_Product, QueueAssumption DEF Ops
<1>2. StopsDue(j) \in SUBSET Ops /\ StopsDue(j)' \in SUBSET Ops
  BY DEF StopsDue, OpsOf
<1>3. IsFiniteSet(StopsDue(j)) /\ IsFiniteSet(StopsDue(j)')
  BY <1>1, <1>2, FS_Subset
<1> QED
  BY <1>3, FS_CardinalityType DEF Outstanding

(* No new Stop falls due: neither does what is due grow.                   *)
LEMMA DueShrinks ==
  ASSUME NEW j \in Jobs, StopsDue(j)' \subseteq StopsDue(j)
  PROVE  Outstanding(j)' <= Outstanding(j)
<1>1. IsFiniteSet(StopsDue(j)) /\ StopsDue(j)' \in SUBSET StopsDue(j)
  BY StopsDueFinite
<1> QED
  BY <1>1, FS_Subset DEF Outstanding

(* A Stop that takes effect is due no longer.                              *)
LEMMA DuePaid ==
  ASSUME NEW j \in Jobs, NEW o \in StopsDue(j), StopsDue(j)' \subseteq StopsDue(j) \ {o}
  PROVE  Outstanding(j)' + 1 <= Outstanding(j)
<1>1. IsFiniteSet(StopsDue(j)) /\ IsFiniteSet(StopsDue(j) \ {o})
  BY StopsDueFinite, FS_RemoveElement
<1>2. Cardinality(StopsDue(j) \ {o}) = Outstanding(j) - 1
  BY <1>1, FS_RemoveElement DEF Outstanding
<1>3. Outstanding(j)' <= Cardinality(StopsDue(j) \ {o})
  BY <1>1, FS_Subset DEF Outstanding
<1> QED
  BY <1>2, <1>3, StopsDueFinite

(* One Stop makes at most one more due.                                    *)
LEMMA DueGrows ==
  ASSUME NEW j \in Jobs, NEW o, StopsDue(j)' \subseteq StopsDue(j) \cup {o}
  PROVE  Outstanding(j)' <= Outstanding(j) + 1
<1>1. IsFiniteSet(StopsDue(j)) /\ IsFiniteSet(StopsDue(j) \cup {o})
  BY StopsDueFinite, FS_AddElement
<1>2. Cardinality(StopsDue(j) \cup {o}) <= Outstanding(j) + 1
  BY <1>1, StopsDueFinite, FS_AddElement DEF Outstanding
<1>3. Outstanding(j)' <= Cardinality(StopsDue(j) \cup {o})
  BY <1>1, FS_Subset DEF Outstanding
<1>4. Cardinality(StopsDue(j) \cup {o}) \in Nat
  BY <1>1, FS_CardinalityType
<1> QED
  BY <1>2, <1>3, <1>4, StopsDueFinite

NoNewStop ==
  \A o \in Ops :
    /\ op'[o].state = "queued" => ~op'[o].stop
    /\ op'[o].stop /\ op'[o].stage = "entry" => op[o].stop /\ op[o].stage = "entry"

(* A step that neither presses a Stop nor spends an attempt keeps the      *)
(* account as long as no operation becomes due by it.                      *)
LEMMA NothingSpent ==
  ASSUME TypeOK, Accounted,
         \A j \in Jobs : job'[j].attempts = job[j].attempts,
         NoNewStop,
         reached' = reached, used'["stops"] = used["stops"]
  PROVE  Accounted'
<1> SUFFICES ASSUME NEW j \in Jobs
             PROVE  /\ Outstanding(j)' <= used'["stops"]
                    /\ job'[j].attempts + Outstanding(j)' <= reached'[j] + used'["stops"]
  BY DEF Accounted, NoNewStop
<1>1. Outstanding(j)' <= Outstanding(j)
  BY DueShrinks DEF StopsDue, OpsOf, NoNewStop
<1>2. /\ job[j].attempts \in Nat /\ reached[j] \in Nat /\ used["stops"] \in Nat
      /\ Outstanding(j) \in Nat /\ Outstanding(j)' \in Nat
  BY StopsDueFinite DEF TypeOK, Sources
<1>3. /\ Outstanding(j) <= used["stops"]
      /\ job[j].attempts + Outstanding(j) <= reached[j] + used["stops"]
  BY DEF Accounted
<1> QED
  BY <1>1, <1>2, <1>3

(* Spending an attempt leaves what other jobs have spent alone.            *)
LEMMA BurnSpends ==
  ASSUME TypeOK, NEW i \in Jobs, Burn(i), NEW j \in Jobs
  PROVE  job'[j].attempts = IF j = i THEN job[j].attempts + 1 ELSE job[j].attempts
BY DEF TypeOK, Burn

LEMMA StopBeforeCallAccounted ==
  ASSUME TypeOK, Accounted, NEW o \in Ops, StopBeforeCall(o)
  PROVE  Accounted'
<1>1. /\ op[o].stop /\ op[o].stage = "entry" /\ Burn(o[1])
      /\ op' = [op EXCEPT ![o].stage = "stopped"]
      /\ reached' = reached /\ used' = used
  BY DEF StopBeforeCall, Move
<1>2. op \in [Ops -> OpRecord] /\ o[1] \in Jobs
  BY DEF TypeOK, Ops, OpRecord, OpStates, OpStages
<1>3. /\ op'[o].stage = "stopped"
      /\ \A q \in Ops : op'[q].state = op[q].state /\ op'[q].stop = op[q].stop
      /\ \A q \in Ops \ {o} : op'[q] = op[q]
  BY <1>1, <1>2 DEF OpRecord
<1>4. ASSUME NEW j \in Jobs
      PROVE  /\ Outstanding(j)' <= used'["stops"]
             /\ job'[j].attempts + Outstanding(j)' <= reached'[j] + used'["stops"]
  <2>1. /\ job[j].attempts \in Nat /\ reached[j] \in Nat /\ used["stops"] \in Nat
        /\ Outstanding(j) \in Nat /\ Outstanding(j)' \in Nat
    BY StopsDueFinite DEF TypeOK, Sources
  <2>2. /\ Outstanding(j) <= used["stops"]
        /\ job[j].attempts + Outstanding(j) <= reached[j] + used["stops"]
    BY DEF Accounted
  <2>3. job'[j].attempts = IF j = o[1] THEN job[j].attempts + 1 ELSE job[j].attempts
    BY <1>1, <1>2, BurnSpends
  <2>4. CASE j = o[1]
    <3>1. o \in StopsDue(j) /\ StopsDue(j)' \subseteq StopsDue(j) \ {o}
      BY <1>1, <1>3, <2>4 DEF StopsDue, OpsOf
    <3>2. Outstanding(j)' + 1 <= Outstanding(j)
      BY <3>1, DuePaid
    <3> QED
      BY <1>1, <2>1, <2>2, <2>3, <2>4, <3>2
  <2>5. CASE j # o[1]
    <3>1. StopsDue(j)' \subseteq StopsDue(j)
      BY <1>3, <2>5 DEF StopsDue, OpsOf
    <3>2. Outstanding(j)' <= Outstanding(j)
      BY <3>1, DueShrinks
    <3> QED
      BY <1>1, <2>1, <2>2, <2>3, <2>5, <3>2
  <2> QED
    BY <2>4, <2>5
<1> QED
  BY <1>3, <1>4 DEF Accounted

LEMMA FailCallAccounted ==
  ASSUME TypeOK, Accounted, NEW o \in Ops, FailCall(o)
  PROVE  Accounted'
<1>1. PICK to \in {"failing", "stopped"} : op' = [op EXCEPT ![o].stage = to]
  BY DEF FailCall, Move
<1>2. /\ Burn(o[1]) /\ reached' = [reached EXCEPT ![o[1]] = @ + 1] /\ used' = used
      /\ op \in [Ops -> OpRecord] /\ o[1] \in Jobs
  BY DEF FailCall, TypeOK, Ops, OpRecord, OpStates, OpStages
<1>3. /\ op'[o].stage = to
      /\ \A q \in Ops : op'[q].state = op[q].state /\ op'[q].stop = op[q].stop
      /\ \A q \in Ops \ {o} : op'[q] = op[q]
  BY <1>1, <1>2 DEF OpRecord
<1>4. ASSUME NEW j \in Jobs
      PROVE  /\ Outstanding(j)' <= used'["stops"]
             /\ job'[j].attempts + Outstanding(j)' <= reached'[j] + used'["stops"]
  <2>1. /\ job[j].attempts \in Nat /\ reached[j] \in Nat /\ used["stops"] \in Nat
        /\ Outstanding(j) \in Nat /\ Outstanding(j)' \in Nat
    BY StopsDueFinite DEF TypeOK, Sources
  <2>2. /\ Outstanding(j) <= used["stops"]
        /\ job[j].attempts + Outstanding(j) <= reached[j] + used["stops"]
    BY DEF Accounted
  <2>3. StopsDue(j)' \subseteq StopsDue(j)
    BY <1>3 DEF StopsDue, OpsOf
  <2>4. Outstanding(j)' <= Outstanding(j)
    BY <2>3, DueShrinks
  <2>5. /\ job'[j].attempts = IF j = o[1] THEN job[j].attempts + 1 ELSE job[j].attempts
        /\ reached'[j] = IF j = o[1] THEN reached[j] + 1 ELSE reached[j]
    BY <1>2, BurnSpends DEF TypeOK
  <2> QED
    BY <1>2, <2>1, <2>2, <2>4, <2>5
<1> QED
  BY <1>3, <1>4 DEF Accounted

LEMMA StopAccounted ==
  ASSUME TypeOK, Accounted, NEW o \in Ops, Stop(o)
  PROVE  Accounted'
<1>1. /\ op \in [Ops -> OpRecord] /\ used \in [Sources -> Nat] /\ "stops" \in Sources
      /\ used' = [used EXCEPT !["stops"] = @ + 1] /\ job' = job /\ reached' = reached
  BY DEF Stop, Use, TypeOK, OpRecord, OpStates, OpStages, Sources
<1>2. /\ \A q \in Ops \ {o} : op'[q] = op[q]
      /\ op'[o].state = "queued" => FALSE
  BY <1>1 DEF Stop, OpRecord
<1>3. ASSUME NEW j \in Jobs
      PROVE  /\ Outstanding(j)' <= used'["stops"]
             /\ job'[j].attempts + Outstanding(j)' <= reached'[j] + used'["stops"]
  <2>1. /\ job[j].attempts \in Nat /\ reached[j] \in Nat /\ used["stops"] \in Nat
        /\ Outstanding(j) \in Nat /\ Outstanding(j)' \in Nat
    BY StopsDueFinite DEF TypeOK, Sources
  <2>2. /\ Outstanding(j) <= used["stops"]
        /\ job[j].attempts + Outstanding(j) <= reached[j] + used["stops"]
    BY DEF Accounted
  <2>3. StopsDue(j)' \subseteq StopsDue(j) \cup {o}
    BY <1>2 DEF StopsDue, OpsOf
  <2>4. Outstanding(j)' <= Outstanding(j) + 1
    BY <2>3, DueGrows
  <2>5. used'["stops"] = used["stops"] + 1
    BY <1>1
  <2> QED
    BY <1>1, <2>1, <2>2, <2>4, <2>5
<1> QED
  BY <1>2, <1>3 DEF Accounted

LEMMA RetryAccounted ==
  ASSUME TypeOK, Accounted, Retry
  PROVE  Accounted'
<1>1. /\ op' = op /\ used'["stops"] = used["stops"] /\ used["stops"] \in Nat
      /\ \A j \in Jobs : job'[j].attempts = 0 /\ reached'[j] = 0
  BY DEF Retry, Use, TypeOK, Sources
<1>2. \A j \in Jobs : StopsDue(j)' = StopsDue(j)
  BY <1>1 DEF StopsDue, OpsOf
<1>3. \A j \in Jobs : Outstanding(j)' = Outstanding(j) /\ Outstanding(j) \in Nat
  BY <1>2, StopsDueFinite DEF Outstanding
<1> QED
  BY <1>1, <1>3 DEF Accounted

(* Enqueueing puts fresh rows into free slots; no Stop comes with them.    *)
LEMMA EnqueueAccounted ==
  ASSUME TypeOK, Accounted, NEW batch, NEW by, Enqueue(batch, by),
         job' = job, reached' = reached, used'["stops"] = used["stops"]
  PROVE  Accounted'
<1>1. \A o \in Ops : op'[o] = op[o] \/ op'[o] = [Absent EXCEPT !.state = "queued", !.by = by]
  BY DEF Enqueue
<1>2. LET fresh == [Absent EXCEPT !.state = "queued", !.by = by]
      IN  fresh.stop = FALSE /\ fresh.stage = "idle"
  BY DEF Absent
<1>3. NoNewStop
  BY <1>1, <1>2 DEF Accounted, NoNewStop
<1> QED
  BY <1>3, NothingSpent

LEMMA OpStepAccounted ==
  ASSUME TypeOK, Accounted, NEW o \in Ops, OpStep(o)
  PROVE  Accounted'
<1>1. op \in [Ops -> OpRecord] /\ \A q \in Ops : op[q].state = "queued" => ~op[q].stop
  BY DEF TypeOK, Accounted, OpRecord, OpStates, OpStages
<1>2. CASE Start(o) \/ Reject(o) \/ Finish(o)
  <2>1. NoNewStop
    BY <1>1, <1>2 DEF Start, Reject, Finish, OpRecord, NoNewStop
  <2> QED
    BY <1>2, <2>1, NothingSpent DEF Start, Reject, Finish
<1>3. CASE Call(o) \/ Answer(o) \/ ReadMethod(o)
  <2>1. NoNewStop
    BY <1>1, <1>3 DEF Call, Answer, ReadMethod, Move, OpRecord, NoNewStop
  <2> QED
    BY <1>3, <2>1, NothingSpent DEF Call, Answer, ReadMethod
<1>4. CASE WriteScore(o)
  <2>1. NoNewStop
    BY <1>1, <1>4 DEF WriteScore, Move, OpRecord, NoNewStop
  <2>2. \A j \in Jobs : job'[j].attempts = job[j].attempts
    BY <1>4 DEF WriteScore, TypeOK
  <2> QED
    BY <1>4, <2>1, <2>2, NothingSpent DEF WriteScore
<1> QED
  BY <1>2, <1>3, <1>4, StopBeforeCallAccounted, FailCallAccounted, StopAccounted DEF OpStep

LEMMA NextAccounted ==
  ASSUME TypeOK, Accounted, [Next]_vars
  PROVE  Accounted'
<1>1. used \in [Sources -> Nat] /\ Sources = {"triggers", "stops", "rescores", "retries", "boots", "floors"}
  BY DEF TypeOK, Sources
<1>2. ASSUME UNCHANGED <<op, reached>>, used'["stops"] = used["stops"],
             \A j \in Jobs : job'[j].attempts = job[j].attempts
      PROVE  Accounted'
  BY <1>2, NothingSpent DEF Accounted, NoNewStop
<1>3. ASSUME NEW p \in Planners, PlannerStep(p)
      PROVE  Accounted'
  <2>1. CASE SubmitPlan(p)
    BY <2>1, EnqueueAccounted DEF SubmitPlan
  <2>2. CASE Trigger(p)
    BY <1>1, <1>2, <2>2 DEF Trigger, Use
  <2>3. CASE ReadInFlight(p) \/ ReadJobs(p) \/ MarkEnqueued(p)
    BY <1>2, <2>3 DEF ReadInFlight, ReadJobs, MarkEnqueued
  <2> QED
    BY <1>3, <2>1, <2>2, <2>3 DEF PlannerStep
<1>4. ASSUME NEW j \in Jobs, Rescore(j)
      PROVE  Accounted'
  <2>1. used'["stops"] = used["stops"]
    BY <1>1, <1>4 DEF Rescore, Use
  <2> QED
    BY <1>4, <2>1, EnqueueAccounted DEF Rescore
<1>5. ASSUME NEW j \in Jobs, FloorWrite(j)
      PROVE  Accounted'
  <2>1. \A i \in Jobs : job'[i].attempts = job[i].attempts
    BY <1>5 DEF FloorWrite, TypeOK
  <2> QED
    BY <1>2, <1>5, <2>1 DEF FloorWrite
<1>6. CASE Due \/ TickDue \/ TickGuard
  BY <1>2, <1>6 DEF Due, TickDue, TickGuard
<1>7. CASE FloorRead
  BY <1>1, <1>2, <1>7 DEF FloorRead, Use
<1>8. CASE Crash
  <2>1. \A o \in Ops : op'[o].stop = FALSE
    <3>1. op' = [o \in Ops |-> [op[o] EXCEPT !.stage = "idle", !.stop = FALSE]]
      BY <1>8 DEF Crash
    <3>2. op \in [Ops -> OpRecord]
      BY DEF TypeOK, OpRecord, OpStates, OpStages
    <3> QED
      BY <3>1, <3>2 DEF OpRecord
  <2>2. used'["stops"] = used["stops"] /\ UNCHANGED <<job, reached>>
    BY <1>1, <1>8 DEF Crash, Use
  <2> QED
    BY <2>1, <2>2, NothingSpent DEF NoNewStop
<1>9. CASE Boot
  <2>1. op \in [Ops -> OpRecord] /\ \A q \in Ops : op[q].state = "queued" => ~op[q].stop
    BY DEF TypeOK, Accounted, OpRecord, OpStates, OpStages
  <2>2. \A q \in Ops : /\ op'[q].state = "queued" => ~op'[q].stop
                      /\ op'[q].stop = op[q].stop /\ op'[q].stage = op[q].stage
    BY <1>9, <2>1 DEF Boot, OpRecord
  <2> QED
    BY <1>9, <2>2, NothingSpent DEF Boot, NoNewStop
<1>10. CASE UNCHANGED vars
  BY <1>2, <1>10 DEF vars
<1> QED
  BY <1>3, <1>4, <1>5, <1>6, <1>7, <1>8, <1>9, <1>10, OpStepAccounted, RetryAccounted DEF Next

(* A job's attempts are a budget nobody else spends: whatever planners     *)
(* race, providers refuse and crashes interrupt, each attempt is a call    *)
(* that reached the provider or a Stop the user pressed.                   *)
THEOREM AttemptsAreSpent == Spec => []AttemptsAccounted
<1>1. Init => Accounted
  <2> SUFFICES ASSUME Init
               PROVE  Accounted
    OBVIOUS
  <2>1. \A j \in Jobs : StopsDue(j) = {}
    BY DEF Init, Absent, StopsDue, OpsOf
  <2>2. \A j \in Jobs : Outstanding(j) = 0
    BY <2>1, FS_EmptySet DEF Outstanding
  <2> QED
    BY <2>2 DEF Init, Absent, Accounted, Sources
<1>2. TypeOK /\ Accounted /\ [Next]_vars => Accounted'
  BY NextAccounted
<1>3. TypeOK /\ Accounted => AttemptsAccounted
  <2> SUFFICES ASSUME TypeOK, Accounted, NEW j \in Jobs
               PROVE  job[j].attempts <= reached[j] + used["stops"]
    BY DEF AttemptsAccounted
  <2>1. Outstanding(j) \in Nat /\ job[j].attempts \in Nat /\ reached[j] \in Nat /\ used["stops"] \in Nat
    BY StopsDueFinite DEF TypeOK, Sources
  <2> QED
    BY <2>1 DEF Accounted
<1> QED
  BY <1>1, <1>2, <1>3, TypeCorrect, PTL DEF Spec

-----------------------------------------------------------------------------
(* Racing planners.  A planner only becomes able to enqueue a job when it   *)
(* saw no active operation of it, and loses the right by using it; so what *)
(* it may still enqueue counts as if it had done so.  What others enqueue  *)
(* meanwhile is not its own.                                               *)
Held(p, j) == {o \in OpsOf(j) : op[o].by = p /\ op[o].state \in Active}
MayEnqueue(p, j) ==
  \/ planner[p].at = "jobs" /\ j \notin planner[p].seen
  \/ planner[p].at = "submit" /\ j \in planner[p].plan

Owned ==
  \A p \in Planners, j \in Jobs : /\ \A o, q \in Held(p, j) : o = q
                                  /\ MayEnqueue(p, j) => Held(p, j) = {}

(* Nothing is lost when neither the operations nor the claims grow.        *)
LEMMA OwnedShrinks ==
  ASSUME Owned,
         \A p \in Planners, j \in Jobs : /\ Held(p, j)' \subseteq Held(p, j)
                                         /\ MayEnqueue(p, j)' => MayEnqueue(p, j)
  PROVE  Owned'
BY DEF Owned

(* Looking for operations in flight earns the right for a job without any. *)
LEMMA ReadInFlightOwned ==
  ASSUME TypeOK, Owned, NEW p \in Planners, ReadInFlight(p)
  PROVE  Owned'
<1>1. /\ planner'[p].at = "jobs" /\ \A q \in Planners : q # p => planner'[q] = planner[q]
      /\ planner'[p].seen = {j \in Jobs : \E o \in OpsOf(j) : op[o].state \in Active}
  BY DEF ReadInFlight, TypeOK
<1>2. \A q \in Planners, j \in Jobs : Held(q, j)' = Held(q, j)
  BY DEF ReadInFlight, Held, OpsOf
<1>3. \A j \in Jobs : MayEnqueue(p, j)' => Held(p, j) = {}
  BY <1>1 DEF MayEnqueue, Held
<1>4. \A q \in Planners, j \in Jobs : q # p => (MayEnqueue(q, j)' <=> MayEnqueue(q, j))
  BY <1>1 DEF MayEnqueue
<1> QED
  BY <1>2, <1>3, <1>4 DEF Owned

LEMMA PlanSkipsSeen ==
  ASSUME NEW seen
  PROVE  Plan(seen) \subseteq Unscored \ seen
BY DEF Plan, Newest

LEMMA ReadJobsOwned ==
  ASSUME TypeOK, Owned, NEW p \in Planners, ReadJobs(p)
  PROVE  Owned'
<1>1. /\ planner'[p].at = "submit" /\ planner'[p].plan = Plan(planner[p].seen) /\ planner[p].at = "jobs"
      /\ \A q \in Planners : q # p => planner'[q] = planner[q]
  BY DEF ReadJobs, TypeOK
<1>2. \A q \in Planners, j \in Jobs : Held(q, j)' = Held(q, j)
  BY DEF ReadJobs, Held, OpsOf
<1>3. \A j \in Jobs : MayEnqueue(p, j)' => MayEnqueue(p, j)
  BY <1>1, PlanSkipsSeen DEF MayEnqueue
<1>4. \A q \in Planners, j \in Jobs : q # p => (MayEnqueue(q, j)' <=> MayEnqueue(q, j))
  BY <1>1 DEF MayEnqueue
<1> QED
  BY <1>2, <1>3, <1>4, OwnedShrinks

(* Enqueueing a job uses up the planner's right to, and gives no other     *)
(* planner anything.                                                       *)
LEMMA SubmitOwned ==
  ASSUME TypeOK, Owned, NEW p \in Planners, SubmitPlan(p)
  PROVE  Owned'
<1> DEFINE plan == planner[p].plan
           fresh == [Absent EXCEPT !.state = "queued", !.by = p]
<1>1. /\ planner'[p].at \in {"idle", "mark"} /\ planner[p].at = "submit"
      /\ \A q \in Planners : q # p => planner'[q] = planner[q]
  BY DEF SubmitPlan, AtRest, TypeOK
<1>2. \A o \in Ops : op'[o] = IF o[1] \in plan /\ o = FirstFree(o[1]) THEN fresh ELSE op[o]
  BY DEF SubmitPlan, Enqueue
<1>3. fresh.by = p
  BY DEF Absent
<1> HIDE DEF fresh
<1>4. ASSUME NEW q \in Planners, q # p, NEW j \in Jobs
      PROVE  Held(q, j)' \subseteq Held(q, j) /\ (MayEnqueue(q, j)' <=> MayEnqueue(q, j))
  BY <1>1, <1>2, <1>3, <1>4 DEF Held, OpsOf, MayEnqueue
<1>5. ASSUME NEW j \in Jobs
      PROVE  ~MayEnqueue(p, j)' /\ \A o, q \in Held(p, j)' : o = q
  <2>1. CASE j \in plan
    <3>1. Held(p, j) = {}
      BY <1>1, <2>1 DEF Owned, MayEnqueue
    <3>2. \A o \in Held(p, j)' : o = FirstFree(j)
      BY <1>2, <3>1 DEF Held, OpsOf
    <3> QED
      BY <1>1, <3>2 DEF MayEnqueue
  <2>2. CASE j \notin plan
    <3>1. Held(p, j)' \subseteq Held(p, j)
      BY <1>2, <2>2 DEF Held, OpsOf
    <3> QED
      BY <1>1, <3>1 DEF Owned, MayEnqueue
  <2> QED
    BY <2>1, <2>2
<1> QED
  BY <1>4, <1>5 DEF Owned

LEMMA NextOwned ==
  ASSUME TypeOK, Owned, [Next]_vars
  PROVE  Owned'
<1>1. ASSUME UNCHANGED planner,
             \A o \in Ops : op'[o].by \in Planners /\ op'[o].state \in Active =>
                              op'[o].by = op[o].by /\ op[o].state \in Active
      PROVE  Owned'
  <2>1. \A p \in Planners, j \in Jobs : Held(p, j)' \subseteq Held(p, j)
    BY <1>1 DEF Held, OpsOf
  <2>2. \A p \in Planners, j \in Jobs : MayEnqueue(p, j)' <=> MayEnqueue(p, j)
    BY <1>1 DEF MayEnqueue
  <2> QED
    BY <2>1, <2>2, OwnedShrinks
<1>2. ASSUME UNCHANGED op,
             \A p \in Planners : planner'[p] = planner[p] \/ planner'[p].at \notin {"jobs", "submit"}
      PROVE  Owned'
  <2>1. \A p \in Planners, j \in Jobs : Held(p, j)' = Held(p, j)
    BY <1>2 DEF Held, OpsOf
  <2>2. \A p \in Planners, j \in Jobs : MayEnqueue(p, j)' => MayEnqueue(p, j)
    BY <1>2 DEF MayEnqueue
  <2> QED
    BY <2>1, <2>2, OwnedShrinks
<1>3. ASSUME NEW p \in Planners, Trigger(p) \/ MarkEnqueued(p)
      PROVE  Owned'
  BY <1>2, <1>3 DEF Trigger, Go, MarkEnqueued, AtRest, TypeOK
<1>4. ASSUME NEW o \in Ops, OpStep(o)
      PROVE  Owned'
  <2>1. op \in [Ops -> OpRecord]
    BY DEF TypeOK, OpRecord, OpStates, OpStages
  <2>2. \A q \in Ops : op'[q].state \in Active => op'[q].by = op[q].by /\ op[q].state \in Active
    <3>1. CASE Start(o) \/ Reject(o)
      BY <2>1, <3>1 DEF Start, Reject, OpRecord, Active
    <3>2. CASE StopBeforeCall(o) \/ Call(o) \/ Answer(o) \/ ReadMethod(o)
      BY <2>1, <3>2 DEF StopBeforeCall, Call, Answer, ReadMethod, Move, OpRecord
    <3>3. CASE FailCall(o) \/ WriteScore(o)
      BY <2>1, <3>3 DEF FailCall, WriteScore, Move, OpRecord
    <3>4. CASE Finish(o)
      BY <2>1, <3>4 DEF Finish, OpRecord, Active
    <3>5. CASE Stop(o)
      BY <2>1, <3>5 DEF Stop, OpRecord, Active
    <3> QED
      BY <1>4, <3>1, <3>2, <3>3, <3>4, <3>5 DEF OpStep
  <2>3. UNCHANGED planner
    BY <1>4 DEF OpStep, Start, Reject, StopBeforeCall, Call, FailCall, Answer, ReadMethod,
                WriteScore, Finish, Stop
  <2> QED
    BY <1>1, <2>2, <2>3
<1>5. ASSUME NEW j \in Jobs, Rescore(j)
      PROVE  Owned'
  <2>1. \A o \in Ops : op'[o] = op[o] \/ op'[o].by = "rescore"
    BY <1>5 DEF Rescore, Enqueue, Absent
  <2> QED
    BY <1>1, <1>5, <2>1, QueueAssumption DEF Rescore
<1>6. CASE TickDue \/ TickGuard
  <2>1. \A p \in Planners : planner'[p] = planner[p] \/ planner'[p].at \in {"guard", "idle", "inflight"}
    <3>1. CASE TickDue
      BY <3>1 DEF TickDue, AtRest, TypeOK
    <3>2. CASE TickGuard
      <4>1. PICK to \in {"idle", "inflight"} : planner' = [planner EXCEPT !["tick"].at = to]
        BY <3>2 DEF TickGuard, Go
      <4> QED
        BY <4>1 DEF TypeOK
    <3> QED
      BY <1>6, <3>1, <3>2
  <2> QED
    BY <1>2, <1>6, <2>1 DEF TickDue, TickGuard
<1>7. CASE Crash
  <2>1. \A o \in Ops : op'[o].by = op[o].by /\ op'[o].state = op[o].state
    <3>1. op' = [o \in Ops |-> [op[o] EXCEPT !.stage = "idle", !.stop = FALSE]]
      BY <1>7 DEF Crash
    <3>2. op \in [Ops -> OpRecord]
      BY DEF TypeOK, OpRecord, OpStates, OpStages
    <3> QED
      BY <3>1, <3>2 DEF OpRecord
  <2>2. \A p \in Planners : planner'[p].at = "idle"
    BY <1>7 DEF Crash, AtRest
  <2>3. \A p \in Planners, j \in Jobs : Held(p, j)' \subseteq Held(p, j) /\ ~MayEnqueue(p, j)'
    BY <2>1, <2>2 DEF Held, OpsOf, MayEnqueue
  <2> QED
    BY <2>3, OwnedShrinks
<1>8. CASE Boot
  <2>1. op \in [Ops -> OpRecord]
    BY DEF TypeOK, OpRecord, OpStates, OpStages
  <2> QED
    BY <1>1, <1>8, <2>1 DEF Boot, OpRecord, Active
<1>9. CASE Due \/ FloorRead \/ Retry \/ UNCHANGED vars \/ \E j \in Jobs : FloorWrite(j)
  BY <1>1, <1>9 DEF Due, FloorRead, Retry, FloorWrite, vars
<1> QED
  BY <1>3, <1>4, <1>5, <1>6, <1>7, <1>8, <1>9, ReadInFlightOwned, ReadJobsOwned, SubmitOwned
     DEF Next, PlannerStep

LEMMA InitOwned == Init => Owned
<1> SUFFICES ASSUME Init, NEW p \in Planners, NEW j \in Jobs
             PROVE  Held(p, j) = {}
  BY DEF Owned
<1> QED
  BY DEF Init, Held, OpsOf, Absent, Active

(* However many ticks, run-nows and hooks race, stop and restart, none of   *)
(* them ever has two of its own operations of a job alive.                 *)
THEOREM DuplicatesAreBounded == Spec => []OnePerPlanner
<1>1. TypeOK /\ Owned /\ [Next]_vars => Owned'
  BY NextOwned
<1>2. Owned => OnePerPlanner
  BY DEF Owned, OnePerPlanner, Held, OpsOf
<1> QED
  BY <1>1, <1>2, InitOwned, TypeCorrect, PTL DEF Spec

-----------------------------------------------------------------------------
(* A job that a planner has had rated is scored for good.  So the planner   *)
(* does not plan it again, and what it had planned is over: it has one     *)
(* operation at most, the one that wrote the rating.                       *)
Unwritten(o) ==
  op[o].state = "queued" \/ op[o].stage \in {"entry", "call", "rated", "new", "known"}
UnratedOp(o) ==
  /\ op[o].stage # "idle" => op[o].state = "running" /\ up
  /\ Unwritten(o) => <<o[1], op[o].by>> \notin rated
UnratedPlan ==
  \A p \in Planners : planner[p].at = "submit" => \A j \in planner[p].plan : <<j, p>> \notin rated
RatedIsScored ==
  \A j \in Jobs, p \in Planners : <<j, p>> \in rated => job[j].method = "llm"
FedIsRated ==
  \A j \in Jobs, p \in Planners : fed[j][p] <= 1 /\ (fed[j][p] = 1 => <<j, p>> \in rated)

OnceInv == (\A o \in Ops : UnratedOp(o)) /\ UnratedPlan /\ RatedIsScored /\ FedIsRated

LEMMA WriteOnce ==
  ASSUME TypeOK, Owned, OnceInv, NEW o \in Ops, WriteScore(o)
  PROVE  OnceInv'
<1> DEFINE i == o[1]
           b == op[o].by
<1>1. op \in [Ops -> OpRecord] /\ i \in Jobs /\ b \in Askers
  BY DEF TypeOK, OpRecord, OpStates, OpStages, Ops
<1>2. /\ op[o].stage \in {"new", "known"} /\ op' = [op EXCEPT ![o].stage = "done"]
      /\ job' = [job EXCEPT ![i].method = "llm"]
      /\ rated' = rated \cup ({<<i, b>>} \cap (Jobs \X Planners))
      /\ fed' = fed \/ fed' = [fed EXCEPT ![i][b] = @ + 1]
      /\ planner' = planner /\ up' = up
  BY DEF WriteScore, Move
<1>3. op[o].state = "running" /\ up /\ <<i, b>> \notin rated
  BY <1>2 DEF OnceInv, UnratedOp, Unwritten
<1>4. \A j \in Jobs, p \in Planners : <<j, p>> \in rated' <=> <<j, p>> \in rated \/ (j = i /\ p = b)
  BY <1>2
<1>5. ASSUME NEW q \in Ops
      PROVE  UnratedOp(q)'
  <2>1. CASE q = o
    BY <1>1, <1>2, <1>3, <2>1 DEF UnratedOp, Unwritten, OpRecord
  <2>2. CASE q # o
    <3>1. op'[q] = op[q] /\ q[1] \in Jobs /\ UnratedOp(q)
      BY <1>1, <1>2, <2>2 DEF Ops, OnceInv
    <3>2. Unwritten(q) => ~(q[1] = i /\ op[q].by = b /\ b \in Planners)
      <4>1. Unwritten(q) => op[q].state \in Active
        BY <3>1 DEF UnratedOp, Unwritten, Active
      <4>2. Unwritten(q) /\ q[1] = i /\ op[q].by = b => q \in Held(b, i) /\ o \in Held(b, i)
        BY <1>3, <4>1 DEF Held, OpsOf, Active
      <4> QED
        BY <1>1, <2>2, <4>2 DEF Owned
    <3>3. Unwritten(q)' <=> Unwritten(q)
      BY <3>1 DEF Unwritten
    <3>4. Unwritten(q) => <<q[1], op[q].by>> \notin rated'
      BY <1>2, <3>1, <3>2 DEF UnratedOp
    <3> QED
      BY <1>2, <3>1, <3>3, <3>4 DEF UnratedOp
  <2> QED
    BY <2>1, <2>2
<1>6. UnratedPlan'
  <2> SUFFICES ASSUME NEW p \in Planners, planner[p].at = "submit", NEW j \in planner[p].plan
               PROVE  <<j, p>> \notin rated'
    BY <1>2 DEF UnratedPlan
  <2>1. j \in Jobs /\ <<j, p>> \notin rated
    BY DEF TypeOK, OnceInv, UnratedPlan
  <2>2. ~(j = i /\ p = b)
    <3>1. j = i /\ p = b => o \in Held(p, j)
      BY <1>3 DEF Held, OpsOf, Active
    <3>2. MayEnqueue(p, j)
      BY DEF MayEnqueue
    <3> QED
      BY <2>1, <3>1, <3>2 DEF Owned
  <2> QED
    BY <1>4, <2>1, <2>2
<1>7. RatedIsScored'
  <2>1. \A j \in Jobs : job'[j].method = IF j = i THEN "llm" ELSE job[j].method
    BY <1>1, <1>2 DEF TypeOK
  <2> QED
    BY <1>4, <2>1 DEF OnceInv, RatedIsScored
<1>8. FedIsRated'
  <2> SUFFICES ASSUME NEW j \in Jobs, NEW p \in Planners
               PROVE  fed'[j][p] <= 1 /\ (fed'[j][p] = 1 => <<j, p>> \in rated')
    BY DEF FedIsRated
  <2>1. fed \in [Jobs -> [Askers -> Nat]] /\ p \in Askers /\ fed[j][p] \in Nat
    BY DEF TypeOK, Askers
  <2>2. fed[j][p] <= 1 /\ (fed[j][p] = 1 => <<j, p>> \in rated)
    BY DEF OnceInv, FedIsRated
  <2>3. fed'[j][p] = fed[j][p] \/ (j = i /\ p = b /\ fed'[j][p] = fed[j][p] + 1)
    BY <1>1, <1>2, <2>1
  <2>4. CASE fed'[j][p] = fed[j][p]
    BY <1>4, <2>2, <2>4
  <2>5. CASE j = i /\ p = b /\ fed'[j][p] = fed[j][p] + 1
    <3>1. fed[j][p] = 0
      BY <1>3, <2>1, <2>2, <2>5
    <3> QED
      BY <1>4, <2>5, <3>1
  <2> QED
    BY <2>3, <2>4, <2>5
<1> QED
  BY <1>5, <1>6, <1>7, <1>8 DEF OnceInv

(* A step that writes no rating, and leaves unwritten only what was.       *)
LEMMA NothingRated ==
  ASSUME OnceInv, UNCHANGED <<planner, fed, rated>>,
         \A j \in Jobs : job[j].method = "llm" => job'[j].method = "llm",
         \A o \in Ops : /\ op'[o].by = op[o].by
                        /\ op'[o].stage # "idle" => op'[o].state = "running" /\ up'
                        /\ Unwritten(o)' => Unwritten(o)
  PROVE  OnceInv'
<1>1. \A o \in Ops : UnratedOp(o)'
  BY DEF OnceInv, UnratedOp
<1>2. UnratedPlan' /\ RatedIsScored' /\ FedIsRated'
  BY DEF OnceInv, UnratedPlan, RatedIsScored, FedIsRated
<1> QED
  BY <1>1, <1>2 DEF OnceInv

LEMMA OpOnce ==
  ASSUME TypeOK, Owned, OnceInv, NEW o \in Ops, OpStep(o)
  PROVE  OnceInv'
<1>1. op \in [Ops -> OpRecord] /\ \A q \in Ops : op[q].stage # "idle" => op[q].state = "running" /\ up
  BY DEF TypeOK, OpRecord, OpStates, OpStages, OnceInv, UnratedOp
<1> DEFINE Fine == \A q \in Ops : /\ op'[q].by = op[q].by
                                  /\ op'[q].stage # "idle" => op'[q].state = "running" /\ up'
                                  /\ Unwritten(q)' => Unwritten(q)
<1>2. \A j \in Jobs : job[j].method = "llm" => job'[j].method = "llm"
  BY OpStepKeeps DEF TypeOK, JobType, KeepsAIScore
<1>3. CASE Start(o) \/ Reject(o)
  <2>1. Fine
    BY <1>1, <1>3 DEF Start, Reject, Unwritten, OpRecord
  <2> QED
    BY <1>2, <1>3, <2>1, NothingRated DEF Start, Reject
<1>4. CASE Call(o) \/ Answer(o) \/ ReadMethod(o)
  <2>1. Fine
    BY <1>1, <1>4 DEF Call, Answer, ReadMethod, Move, Unwritten, OpRecord
  <2> QED
    BY <1>2, <1>4, <2>1, NothingRated DEF Call, Answer, ReadMethod
<1>5. CASE Finish(o) \/ Stop(o)
  <2>1. Fine
    BY <1>1, <1>5 DEF Finish, Stop, Unwritten, OpRecord
  <2> QED
    BY <1>2, <1>5, <2>1, NothingRated DEF Finish, Stop
<1>6. CASE StopBeforeCall(o) \/ FailCall(o)
  <2>1. Fine
    BY <1>1, <1>6 DEF StopBeforeCall, FailCall, Move, Unwritten, OpRecord
  <2> QED
    BY <1>2, <1>6, <2>1, NothingRated DEF StopBeforeCall, FailCall
<1> QED
  BY <1>3, <1>4, <1>5, <1>6, WriteOnce DEF OpStep

LEMMA PlannerOnce ==
  ASSUME TypeOK, OnceInv, NEW p \in Planners, PlannerStep(p)
  PROVE  OnceInv'
<1>1. ASSUME UNCHANGED <<op, job, fed, rated, up>>,
             \A q \in Planners : planner'[q] = planner[q] \/ planner'[q].at # "submit"
      PROVE  OnceInv'
  BY <1>1 DEF OnceInv, UnratedOp, Unwritten, UnratedPlan, RatedIsScored, FedIsRated
<1>2. CASE Trigger(p) \/ ReadInFlight(p) \/ MarkEnqueued(p)
  <2>1. \A q \in Planners : planner'[q] = planner[q] \/ planner'[q].at # "submit"
    BY <1>2 DEF Trigger, Go, ReadInFlight, MarkEnqueued, AtRest, TypeOK
  <2> QED
    BY <1>1, <1>2, <2>1 DEF Trigger, ReadInFlight, MarkEnqueued
<1>3. CASE ReadJobs(p)
  <2>1. /\ planner'[p].plan = Plan(planner[p].seen) /\ \A q \in Planners : q # p => planner'[q] = planner[q]
        /\ UNCHANGED <<op, job, fed, rated, up>>
    BY <1>3 DEF ReadJobs, TypeOK
  <2>2. \A j \in planner'[p].plan : <<j, p>> \notin rated
    BY <2>1, PlanSkipsSeen DEF OnceInv, RatedIsScored, Unscored
  <2>3. UnratedPlan'
    BY <2>1, <2>2 DEF OnceInv, UnratedPlan
  <2> QED
    BY <2>1, <2>3 DEF OnceInv, UnratedOp, Unwritten, RatedIsScored, FedIsRated
<1>4. CASE SubmitPlan(p)
  <2> DEFINE plan == planner[p].plan
             fresh == [Absent EXCEPT !.state = "queued", !.by = p]
  <2>1. /\ planner[p].at = "submit" /\ planner'[p].at # "submit"
        /\ \A q \in Planners : q # p => planner'[q] = planner[q]
        /\ Enqueue(plan, p) /\ UNCHANGED <<job, fed, rated, up>>
    BY <1>4 DEF SubmitPlan, AtRest, TypeOK
  <2>2. ASSUME NEW q \in Ops
        PROVE  UnratedOp(q)'
    <3>1. op'[q] = op[q] \/ (q[1] \in plan /\ op'[q] = fresh)
      BY <2>1 DEF Enqueue
    <3>2. fresh.by = p /\ fresh.stage = "idle"
      BY DEF Absent
    <3>3. CASE op'[q] = op[q]
      BY <2>1, <3>3 DEF OnceInv, UnratedOp, Unwritten
    <3>4. CASE q[1] \in plan /\ op'[q] = fresh
      <4>1. <<q[1], p>> \notin rated
        BY <2>1, <3>4 DEF OnceInv, UnratedPlan
      <4> QED
        BY <2>1, <3>2, <3>4, <4>1 DEF UnratedOp
    <3> QED
      BY <3>1, <3>3, <3>4
  <2>3. UnratedPlan'
    BY <2>1 DEF OnceInv, UnratedPlan
  <2> QED
    BY <2>1, <2>2, <2>3 DEF OnceInv, RatedIsScored, FedIsRated
<1> QED
  BY <1>2, <1>3, <1>4 DEF PlannerStep

(* A rescore is nobody's plan.                                             *)
LEMMA RescoreOnce ==
  ASSUME TypeOK, OnceInv, NEW j \in Jobs, Rescore(j)
  PROVE  OnceInv'
<1> DEFINE fresh == [Absent EXCEPT !.state = "queued", !.by = "rescore"]
<1>1. /\ \A q \in Ops : op'[q] = op[q] \/ op'[q] = fresh
      /\ UNCHANGED <<planner, job, fed, rated, up>>
  BY DEF Rescore, Enqueue
<1>2. fresh.by = "rescore" /\ fresh.stage = "idle" /\ \A i : <<i, "rescore">> \notin rated
  BY QueueAssumption DEF Absent, TypeOK
<1> HIDE DEF fresh
<1>3. \A q \in Ops : UnratedOp(q)'
  BY <1>1, <1>2 DEF OnceInv, UnratedOp, Unwritten
<1> QED
  BY <1>1, <1>3 DEF OnceInv, UnratedPlan, RatedIsScored, FedIsRated

LEMMA NextOnce ==
  ASSUME TypeOK, Owned, OnceInv, [Next]_vars
  PROVE  OnceInv'
<1>1. op \in [Ops -> OpRecord] /\ \A q \in Ops : UnratedOp(q)
  BY DEF TypeOK, OpRecord, OpStates, OpStages, OnceInv
<1>2. ASSUME UNCHANGED <<op, job, fed, rated, up>>,
             \A p \in Planners : planner'[p] = planner[p] \/ planner'[p].at # "submit"
      PROVE  OnceInv'
  BY <1>2 DEF OnceInv, UnratedOp, Unwritten, UnratedPlan, RatedIsScored, FedIsRated
<1>3. ASSUME UNCHANGED <<op, planner, fed, rated, up>>,
             \A i \in Jobs : job[i].method = "llm" => job'[i].method = "llm"
      PROVE  OnceInv'
  BY <1>1, <1>3, NothingRated DEF UnratedOp, Unwritten
<1>4. ASSUME NEW j \in Jobs, FloorWrite(j)
      PROVE  OnceInv'
  <2>1. \A i \in Jobs : job[i].method = "llm" => job'[i].method = "llm"
    BY <1>4 DEF FloorWrite, TypeOK
  <2> QED
    BY <1>3, <1>4, <2>1 DEF FloorWrite
<1>5. CASE Retry
  <2>1. \A i \in Jobs : job[i].method = "llm" => job'[i].method = "llm"
    BY <1>5 DEF Retry, TypeOK
  <2> QED
    BY <1>3, <1>5, <2>1 DEF Retry
<1>6. CASE Due \/ FloorRead \/ UNCHANGED vars
  BY <1>2, <1>6 DEF Due, FloorRead, vars
<1>7. CASE TickDue \/ TickGuard
  <2>1. \A p \in Planners : planner'[p] = planner[p] \/ planner'[p].at \in {"guard", "idle", "inflight"}
    <3>1. CASE TickDue
      BY <3>1 DEF TickDue, AtRest, TypeOK
    <3>2. CASE TickGuard
      <4>1. PICK to \in {"idle", "inflight"} : planner' = [planner EXCEPT !["tick"].at = to]
        BY <3>2 DEF TickGuard, Go
      <4> QED
        BY <4>1 DEF TypeOK
    <3> QED
      BY <1>7, <3>1, <3>2
  <2> QED
    BY <1>2, <1>7, <2>1 DEF TickDue, TickGuard
<1>8. CASE Crash
  <2>1. \A q \in Ops : /\ op'[q].by = op[q].by /\ op'[q].stage = "idle"
                       /\ op'[q].state = op[q].state
    BY <1>1, <1>8 DEF Crash, OpRecord
  <2>2. \A p \in Planners : planner'[p].at # "submit"
    BY <1>8 DEF Crash, AtRest
  <2>3. \A q \in Ops : UnratedOp(q)'
    <3>1. \A q \in Ops : Unwritten(q)' => Unwritten(q)
      BY <2>1 DEF Unwritten
    <3>2. rated' = rated
      BY <1>8 DEF Crash
    <3> QED
      BY <1>1, <2>1, <3>1, <3>2 DEF UnratedOp
  <2> QED
    BY <1>8, <2>2, <2>3 DEF Crash, OnceInv, UnratedPlan, RatedIsScored, FedIsRated
<1>9. CASE Boot
  <2>1. \A q \in Ops : /\ op'[q].by = op[q].by /\ op'[q].stage = op[q].stage
                       /\ op'[q].state = IF op[q].state = "running" THEN "failed" ELSE op[q].state
    BY <1>1, <1>9 DEF Boot, OpRecord
  <2>2. \A q \in Ops : op[q].stage = "idle"
    BY <1>1, <1>9 DEF Boot, UnratedOp
  <2>3. \A q \in Ops : /\ op'[q].stage # "idle" => op'[q].state = "running" /\ up'
                       /\ Unwritten(q)' => Unwritten(q)
    BY <2>1, <2>2 DEF Unwritten
  <2> QED
    BY <1>9, <2>1, <2>3, NothingRated DEF Boot
<1> QED
  BY <1>4, <1>5, <1>6, <1>7, <1>8, <1>9, PlannerOnce, OpOnce, RescoreOnce DEF Next

(* For every set of jobs, slots and planners - ticks, run-nows and hooks    *)
(* that race -, batch cap and number of rescores, Stops, retries, floor     *)
(* passes and crashes: a planner feeds a job's rating into the statistics   *)
(* once, and never calls the provider for a job that it has had rated.     *)
THEOREM PlannersScoreOnce == Spec => ScoredOnce
<1>1. Init => OnceInv
  BY DEF Init, OnceInv, UnratedOp, Unwritten, UnratedPlan, RatedIsScored, FedIsRated, Absent, AtRest,
         Askers
<1>2. TypeOK /\ Owned /\ OnceInv /\ [Next]_vars => Owned' /\ OnceInv'
  BY NextOwned, NextOnce
<1>3. OnceInv => FedOnce
  BY DEF OnceInv, FedIsRated, FedOnce
<1>4. OnceInv => [\A o \in Ops : op[o].stage = "entry" /\ op'[o].stage = "call"
                    => <<o[1], op[o].by>> \notin rated]_vars
  BY DEF OnceInv, UnratedOp, Unwritten
<1> QED
  BY <1>1, <1>2, <1>3, <1>4, InitOwned, TypeCorrect, PTL DEF Spec, ScoredOnce, NeverPaidTwice
=============================================================================
