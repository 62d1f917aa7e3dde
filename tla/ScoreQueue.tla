----------------------------- MODULE ScoreQueue -----------------------------
(***************************************************************************)
(* How jobs come by their AI score: the scheduler's tick, the run-now      *)
(* button and the scan's success hook plan one score operation per job     *)
(* that needs one (sidecar/app/scheduler), the operations call the model   *)
(* and write the rating (registry/operations.py), and keyword floor passes *)
(* write beside them (db/repos.py set_score).                              *)
(*                                                                         *)
(* The runner is reduced to starting queued operations one by one; see     *)
(* OperationRunner for it.  Scoring is in AI mode, a resume exists, every  *)
(* job is active and has a description.  A larger job is a newer one.      *)
(***************************************************************************)
EXTENDS Integers, FiniteSets

CONSTANTS
  Jobs,         \* positions in the board's newest-first order
  Slots,        \* bound: score operations remembered per job
  Planners,     \* who plans: "tick", and threads of Run now and of the scan's hook
  Hooks,        \* the planners that are threads of the scan's success hook
  MaxAttempts,  \* SCORE_MAX_ATTEMPTS
  Batch,        \* thresholds.score_new_batch, 0 is uncapped
  MaxUsed       \* bound: how often each kind of outside event happens

Sources == {"triggers", "stops", "rescores", "retries", "boots", "floors"}

ASSUME QueueAssumption ==
  /\ Jobs \subseteq Nat \ {0} /\ IsFiniteSet(Jobs)
  /\ Slots \subseteq Nat /\ IsFiniteSet(Slots)
  /\ Hooks \subseteq Planners \ {"tick"} /\ "rescore" \notin Planners
  /\ MaxAttempts \in Nat \ {0}
  /\ Batch \in Nat
  /\ MaxUsed \in [Sources -> Nat]

VARIABLES
  job,       \* per job: the method of its score, llm_score_attempts
  op,        \* per slot: state, where its worker stands, Stop pressed, and, history, the
             \* planner that enqueued it, or "rescore"
  planner,   \* per planner: where it stands, what it has read, what it will record
  schedule,  \* the score_new row: due, last_enqueued_operation_id
  floor,     \* jobs a keyword floor pass read as unscored and will still write
  up,        \* the process runs
  reached,   \* history: failures of a job that reached the provider since a Retry
  fed,       \* history: how often the statistics took a job's rating, by who asked for it
  rated,     \* history: the jobs a planner's operations have rated
  used

vars == <<job, op, planner, schedule, floor, up, reached, fed, rated, used>>

Ops      == Jobs \X Slots
None     == <<0, 0>>      \* no operation
Active   == {"queued", "running"}
Absent   == [state |-> "absent", stage |-> "idle", stop |-> FALSE, by |-> "rescore"]
Askers   == Planners \cup {"rescore"}
AtRest   == [at |-> "idle", seen |-> {}, plan |-> {}, last |-> None]
OpsOf(j) == {o \in Ops : o[1] = j}

TypeOK ==
  /\ job \in [Jobs -> [method : {"none", "keyword", "llm"}, attempts : Nat]]
  /\ op \in [Ops -> [state : {"absent", "queued", "running", "succeeded", "failed", "cancelled"},
                     stage : {"idle", "entry", "call", "rated", "new", "known",
                              "done", "failing", "stopped"},
                     stop : BOOLEAN, by : Askers]]
  /\ planner \in [Planners -> [at : {"idle", "guard", "inflight", "jobs", "submit", "mark"},
                               seen : SUBSET Jobs, plan : SUBSET Jobs, last : Ops \cup {None}]]
  /\ schedule \in [due : BOOLEAN, last : Ops \cup {None}]
  /\ floor \in SUBSET Jobs
  /\ up \in BOOLEAN
  /\ reached \in [Jobs -> Nat]
  /\ fed \in [Jobs -> [Askers -> Nat]]
  /\ rated \subseteq Jobs \X Planners
  /\ used \in [Sources -> Nat]

Init ==
  /\ job = [j \in Jobs |-> [method |-> "none", attempts |-> 0]]
  /\ op = [o \in Ops |-> Absent]
  /\ planner = [p \in Planners |-> AtRest]
  /\ schedule = [due |-> TRUE, last |-> None]
  /\ floor = {}
  /\ up = TRUE
  /\ reached = [j \in Jobs |-> 0]
  /\ fed = [j \in Jobs |-> [a \in Askers |-> 0]]
  /\ rated = {}
  /\ used = [s \in Sources |-> 0]

Use(s) ==
  /\ used[s] < MaxUsed[s]
  /\ used' = [used EXCEPT ![s] = @ + 1]

-----------------------------------------------------------------------------
(* Enqueueing                                                              *)

(* Operations are never deleted; a slot stands for a new one once nothing  *)
(* refers to the old.                                                      *)
Free(j) ==
  {o \in OpsOf(j) : /\ op[o].state \notin Active
                    /\ o # schedule.last
                    /\ \A p \in Planners : o # planner[p].last}
FirstFree(j) == CHOOSE o \in Free(j) : \A q \in Free(j) : o[2] <= q[2]

Enqueue(batch, by) ==
  /\ \A j \in batch : Free(j) # {}
  /\ op' = [o \in Ops |-> IF o[1] \in batch /\ o = FirstFree(o[1])
                            THEN [Absent EXCEPT !.state = "queued", !.by = by]
                            ELSE op[o]]

(* Rescore and "Explain this one": one operation, whatever score exists.   *)
Rescore(j) ==
  /\ up
  /\ Use("rescores")
  /\ Enqueue({j}, "rescore")
  /\ UNCHANGED <<job, planner, schedule, floor, up, reached, fed, rated>>

-----------------------------------------------------------------------------
(* Planning                                                                *)

Go(p, from, to) ==
  /\ up
  /\ planner[p].at = from
  /\ planner' = [planner EXCEPT ![p].at = to]

(* An interval passes: next_due_at is reached.                             *)
Due ==
  /\ ~schedule.due
  /\ schedule' = [schedule EXCEPT !.due = TRUE]
  /\ UNCHANGED <<job, op, planner, floor, up, reached, fed, rated, used>>

(* tick_once reads the due schedules with the last operation of each.      *)
TickDue ==
  /\ up
  /\ schedule.due
  /\ "tick" \in Planners /\ planner["tick"].at = "idle"
  /\ planner' = [planner EXCEPT !["tick"] = [AtRest EXCEPT !.at = "guard", !.last = schedule.last]]
  /\ UNCHANGED <<job, op, schedule, floor, up, reached, fed, rated, used>>

Pending(o) == o # None /\ op[o].state \in Active

(* _is_pending: skip and advance while the last enqueue is unresolved.     *)
TickGuard ==
  /\ "tick" \in Planners
  /\ \/ /\ Pending(planner["tick"].last)
        /\ Go("tick", "guard", "idle")
        /\ schedule' = [schedule EXCEPT !.due = FALSE]
     \/ /\ ~Pending(planner["tick"].last)
        /\ Go("tick", "guard", "inflight")
        /\ UNCHANGED schedule
  /\ UNCHANGED <<job, op, floor, up, reached, fed, rated, used>>

(* Run now, or the success hook of a scan.                                 *)
Trigger(p) ==
  /\ p # "tick"
  /\ Go(p, "idle", "inflight")
  /\ Use("triggers")
  /\ UNCHANGED <<job, op, schedule, floor, up, reached, fed, rated>>

(* Mutant: only operations that have started count as in flight.           *)
ReadInFlightRunning(p) ==
  /\ up
  /\ planner[p].at = "inflight"
  /\ planner' = [planner EXCEPT ![p].at = "jobs",
                    ![p].seen = {j \in Jobs : \E o \in OpsOf(j) : op[o].state = "running"}]
  /\ UNCHANGED <<job, op, schedule, floor, up, reached, fed, rated, used>>

(* plan_score_new, first query: the jobs with a score operation active.    *)
ReadInFlight(p) ==
  /\ up
  /\ planner[p].at = "inflight"
  /\ planner' = [planner EXCEPT ![p].at = "jobs",
                    ![p].seen = {j \in Jobs : \E o \in OpsOf(j) : op[o].state \in Active}]
  /\ UNCHANGED <<job, op, schedule, floor, up, reached, fed, rated, used>>

Newest(S, n) == {j \in S : Cardinality({k \in S : k > j}) < n}

(* Mutant: a rating of any method leaves the job to be planned.            *)
UnscoredByAttempts == {j \in Jobs : job[j].attempts < MaxAttempts}

Unscored == {j \in Jobs : job[j].method # "llm" /\ job[j].attempts < MaxAttempts}

(* Mutant: the cap is applied before the jobs out of attempts are left out. *)
PlanBeforeBudget(seen) ==
  IF Batch = 0 THEN Unscored \ seen
  ELSE (Newest({j \in Jobs : job[j].method # "llm"}, Batch + Cardinality(seen)) \cap Unscored) \ seen

(* Second query: newest first, with rows to spare for the ones in flight.  *)
Plan(seen) ==
  IF Batch = 0 THEN Unscored \ seen
  ELSE Newest(Newest(Unscored, Batch + Cardinality(seen)) \ seen, Batch)

ReadJobs(p) ==
  /\ up
  /\ planner[p].at = "jobs"
  /\ planner' = [planner EXCEPT ![p].at = "submit", ![p].plan = Plan(planner[p].seen)]
  /\ UNCHANGED <<job, op, schedule, floor, up, reached, fed, rated, used>>

(* submit_many, one transaction.  The last operation created is the one    *)
(* the schedule will remember; the hook keeps no schedule.                 *)
Oldest(plan) == CHOOSE j \in plan : \A k \in plan : j <= k
LastOf(p) ==
  CASE planner[p].plan # {}               -> FirstFree(Oldest(planner[p].plan))
    [] planner[p].plan = {} /\ p = "tick" -> planner[p].last
    [] OTHER                              -> None

SubmitPlan(p) ==
  /\ up
  /\ planner[p].at = "submit"
  /\ Enqueue(planner[p].plan, p)
  /\ planner' = [planner EXCEPT ![p] =
       IF p \in Hooks THEN AtRest ELSE [AtRest EXCEPT !.at = "mark", !.last = LastOf(p)]]
  /\ UNCHANGED <<job, schedule, floor, up, reached, fed, rated, used>>

(* mark_enqueued, a transaction of its own.                                *)
MarkEnqueued(p) ==
  /\ up
  /\ planner[p].at = "mark"
  /\ schedule' = [due |-> FALSE, last |-> planner[p].last]
  /\ planner' = [planner EXCEPT ![p] = AtRest]
  /\ UNCHANGED <<job, op, floor, up, reached, fed, rated, used>>

-----------------------------------------------------------------------------
(* The score operation                                                     *)

Move(o, from, to) ==
  /\ up
  /\ op[o].stage = from
  /\ op' = [op EXCEPT ![o].stage = to]

(* The floor a job is given when its AI score fails (_ensure_keyword_floor)*)
(* together with the attempt it has spent (record_score_failure).          *)
Burn(j) ==
  job' = [job EXCEPT ![j].attempts = @ + 1,
                     ![j].method = IF @ = "none" THEN "keyword" ELSE @]

Start(o) ==
  /\ up
  /\ op[o].state = "queued"
  /\ op' = [op EXCEPT ![o].state = "running", ![o].stage = "entry"]
  /\ UNCHANGED <<job, planner, schedule, floor, up, reached, fed, rated, used>>

(* Mutant: a refusal costs the job an attempt.                             *)
RejectBurns(o) ==
  /\ up
  /\ op[o].stage = "entry"
  /\ op' = [op EXCEPT ![o].state = "failed", ![o].stage = "idle"]
  /\ Burn(o[1])
  /\ UNCHANGED <<planner, schedule, floor, up, reached, fed, rated, used>>

(* The circuit is open or no engine is routed: failed, nothing spent.      *)
Reject(o) ==
  /\ up
  /\ op[o].stage = "entry"
  /\ op' = [op EXCEPT ![o].state = "failed", ![o].stage = "idle"]
  /\ UNCHANGED <<job, planner, schedule, floor, up, reached, fed, rated, used>>

(* complete_and_parse polls the token before every call.                   *)
StopBeforeCall(o) ==
  /\ op[o].stop
  /\ Move(o, "entry", "stopped")
  /\ Burn(o[1])
  /\ UNCHANGED <<planner, schedule, floor, up, reached, fed, rated, used>>

Call(o) ==
  /\ ~op[o].stop
  /\ Move(o, "entry", "call")
  /\ UNCHANGED <<job, planner, schedule, floor, up, reached, fed, rated, used>>

(* The retries end without a rating; a Stop may end them early.            *)
FailCall(o) ==
  /\ \/ Move(o, "call", "failing")
     \/ op[o].stop /\ Move(o, "call", "stopped")
  /\ Burn(o[1])
  /\ reached' = [reached EXCEPT ![o[1]] = @ + 1]
  /\ UNCHANGED <<planner, schedule, floor, up, fed, rated, used>>

Answer(o) ==
  /\ Move(o, "call", "rated")
  /\ UNCHANGED <<job, planner, schedule, floor, up, reached, fed, rated, used>>

(* set_score reads the job before its UPDATE takes the write lock.         *)
ReadMethod(o) ==
  /\ Move(o, "rated", IF job[o[1]].method = "llm" THEN "known" ELSE "new")
  /\ UNCHANGED <<job, planner, schedule, floor, up, reached, fed, rated, used>>

(* The UPDATE, and in its transaction the statistics for a new rating.     *)
WriteScore(o) ==
  /\ \/ /\ Move(o, "new", "done")
        /\ fed' = [fed EXCEPT ![o[1]][op[o].by] = @ + 1]
     \/ /\ Move(o, "known", "done")
        /\ UNCHANGED fed
  /\ job' = [job EXCEPT ![o[1]].method = "llm"]
  /\ rated' = rated \cup ({<<o[1], op[o].by>>} \cap (Jobs \X Planners))
  /\ UNCHANGED <<planner, schedule, floor, up, reached, used>>

(* The runner writes the terminal row.                                     *)
Finish(o) ==
  /\ up
  /\ op[o].stage \in {"done", "failing", "stopped"}
  /\ op' = [op EXCEPT ![o].stage = "idle",
              ![o].state = CASE op[o].stage = "done"    -> "succeeded"
                             [] op[o].stage = "failing" -> "failed"
                             [] OTHER                   -> "cancelled"]
  /\ UNCHANGED <<job, planner, schedule, floor, up, reached, fed, rated, used>>

-----------------------------------------------------------------------------
(* Keyword floor passes: the boot thread's, and the one the scan's hook     *)
(* makes before it plans (whose failure does not stop the planning).       *)

(* ids_without_any_score.                                                  *)
FloorRead ==
  /\ up
  /\ floor = {}
  /\ Use("floors")
  /\ floor' = {j \in Jobs : job[j].method = "none"}
  /\ floor' # {}
  /\ UNCHANGED <<job, op, planner, schedule, up, reached, fed, rated>>

(* Mutant: the guard is what the pass read, not part of the UPDATE.        *)
FloorWriteOnRead(j) ==
  /\ up
  /\ j \in floor
  /\ floor' = floor \ {j}
  /\ job' = [job EXCEPT ![j].method = "keyword"]
  /\ UNCHANGED <<op, planner, schedule, up, reached, fed, rated, used>>

(* set_score with method keyword: the guard is inside the UPDATE.          *)
FloorWrite(j) ==
  /\ up
  /\ j \in floor
  /\ floor' = floor \ {j}
  /\ job' = [job EXCEPT ![j].method = IF @ = "llm" THEN "llm" ELSE "keyword"]
  /\ UNCHANGED <<op, planner, schedule, up, reached, fed, rated, used>>

-----------------------------------------------------------------------------
(* The user, and the process                                               *)

Stop(o) ==
  /\ up
  /\ Use("stops")
  /\ op' = [op EXCEPT ![o] =
       IF @.state = "queued" THEN [@ EXCEPT !.state = "cancelled"] ELSE [@ EXCEPT !.stop = TRUE]]
  /\ op[o].state \in Active
  /\ UNCHANGED <<job, planner, schedule, floor, up, reached, fed, rated>>

(* reset_score_attempts.                                                   *)
Retry ==
  /\ up
  /\ Use("retries")
  /\ job' = [j \in Jobs |-> [job[j] EXCEPT !.attempts = 0]]
  /\ reached' = [j \in Jobs |-> 0]
  /\ UNCHANGED <<op, planner, schedule, floor, up, fed, rated>>

Crash ==
  /\ up
  /\ Use("boots")
  /\ up' = FALSE
  /\ op' = [o \in Ops |-> [op[o] EXCEPT !.stage = "idle", !.stop = FALSE]]
  /\ planner' = [p \in Planners |-> AtRest]
  /\ floor' = {}
  /\ UNCHANGED <<job, schedule, reached, fed, rated>>

(* Mutant: boot leaves interrupted operations running.                     *)
BootLeavesRunning ==
  /\ ~up
  /\ up' = TRUE
  /\ UNCHANGED <<job, op, planner, schedule, floor, reached, fed, rated, used>>

(* recover: interrupted operations fail; nothing is spent.                 *)
Boot ==
  /\ ~up
  /\ up' = TRUE
  /\ op' = [o \in Ops |-> [op[o] EXCEPT !.state = IF @ = "running" THEN "failed" ELSE @]]
  /\ UNCHANGED <<job, planner, schedule, floor, reached, fed, rated, used>>

-----------------------------------------------------------------------------
PlannerStep(p) ==
  Trigger(p) \/ ReadInFlight(p) \/ ReadJobs(p) \/ SubmitPlan(p) \/ MarkEnqueued(p)
OpStep(o) ==
  \/ Start(o) \/ Reject(o) \/ StopBeforeCall(o) \/ Call(o) \/ FailCall(o)
  \/ Answer(o) \/ ReadMethod(o) \/ WriteScore(o) \/ Finish(o) \/ Stop(o)

Next ==
  \/ \E p \in Planners : PlannerStep(p)
  \/ \E o \in Ops : OpStep(o)
  \/ \E j \in Jobs : Rescore(j) \/ FloorWrite(j)
  \/ Due \/ TickDue \/ TickGuard \/ FloorRead \/ Retry \/ Crash \/ Boot

Spec == Init /\ [][Next]_vars

(* The clock advances, the scheduler's thread and the workers run, the     *)
(* shell restarts the process, and a provider that keeps being asked is    *)
(* not refused forever.                                                    *)
Fairness ==
  /\ WF_vars(Due) /\ WF_vars(TickDue) /\ WF_vars(TickGuard) /\ WF_vars(Boot)
  /\ \A p \in Planners :
       WF_vars(ReadInFlight(p)) /\ WF_vars(ReadJobs(p)) /\ WF_vars(SubmitPlan(p))
         /\ WF_vars(MarkEnqueued(p))
  /\ \A o \in Ops :
       /\ WF_vars(Start(o)) /\ SF_vars(Call(o)) /\ WF_vars(Reject(o) \/ StopBeforeCall(o))
       /\ WF_vars(FailCall(o) \/ Answer(o)) /\ WF_vars(ReadMethod(o))
       /\ WF_vars(WriteScore(o)) /\ WF_vars(Finish(o))

-----------------------------------------------------------------------------
(* Planners that race do enqueue a job twice, but each of them sees what it *)
(* enqueued itself before: none ever has two operations of a job alive,     *)
(* though it reads what is in flight and submits in two transactions.      *)
OnePerPlanner ==
  \A p \in Planners, j \in Jobs, o, q \in Ops :
    /\ o[1] = j /\ op[o].by = p /\ op[o].state \in Active
    /\ q[1] = j /\ op[q].by = p /\ op[q].state \in Active
    => o = q

(* The statistics take a planner's rating of a job once, although set_score *)
(* looks for an earlier rating before its UPDATE takes the write lock.     *)
FedOnce == \A j \in Jobs, p \in Planners : fed[j][p] <= 1

(* A planner's two queries are not one snapshot: an operation may end       *)
(* between them.  Nevertheless no planner ever pays for a call on a job     *)
(* that an operation of its own has rated.                                 *)
NeverPaidTwice ==
  [][\A o \in Ops : op[o].stage = "entry" /\ op'[o].stage = "call" => <<o[1], op[o].by>> \notin rated]_vars

(* Whatever the other planners, Rescore, Stop, Retry, floor passes and      *)
(* crashes do meanwhile, a planner has a job rated once: it neither pays    *)
(* for nor feeds a second rating (plan_score_new, set_score).              *)
ScoredOnce == []FedOnce /\ NeverPaidTwice

(* A floor pass that read a job as unscored and writes it after the AI     *)
(* score landed leaves the AI score alone.                                 *)
FloorNeverReplaces ==
  [][\A j \in Jobs : job[j].method = "llm" => job'[j].method = "llm"]_vars

(* Attempts are a budget: apart from a Stop, which spends one wherever it  *)
(* lands, only a call that reached the provider does.  Refusals, crashes,  *)
(* floor passes and the races between planners are free.                   *)
AttemptsAccounted ==
  \A j \in Jobs : job[j].attempts <= reached[j] + used["stops"]

(* Every job is eventually scored or has spent its attempts: neither the   *)
(* pending guard, the batch cap, a refusal nor a crash between enqueueing  *)
(* and mark_enqueued makes the planner forget it.                          *)
EveryJobServed ==
  \A j \in Jobs :
    job[j].attempts < MaxAttempts ~> job[j].method = "llm" \/ job[j].attempts >= MaxAttempts
=============================================================================
