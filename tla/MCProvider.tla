------------------------------ MODULE MCProvider ------------------------------
(* What must go on again after an outage, for TLC: the calls of a provider     *)
(* that failed (CircuitBreaker), and the backlog of jobs to score (ScoreQueue), *)
(* whose operations an open circuit refuses and a crash fails.  The backlog    *)
(* sees of the breaker that it may refuse, and no more; one run takes one      *)
(* after the other: `part` says which, and the other rests.                   *)
EXTENDS CircuitBreaker

CONSTANTS Jobs, Slots, Planners, Hooks, MaxAttempts, Batch  \* ScoreQueue

VARIABLES part, job, op, planner, schedule, floor, up, reached, fed, rated, used

backlog == <<job, op, planner, schedule, floor, up, reached, fed, rated, used>>

(* Outside events of the backlog: one crash and one Retry.               *)
MaxUsed ==
  [s \in {"triggers", "stops", "rescores", "retries", "boots", "floors"} |->
     IF s \in {"boots", "retries"} THEN 1 ELSE 0]

Backlog == INSTANCE ScoreQueue

PartsInit ==
  /\ part \in {"circuit", "backlog"}
  /\ Init /\ Backlog!Init
  /\ part # "circuit" => down = {} /\ mode = "llm"

PartsNext ==
  \/ part = "circuit" /\ Next         /\ UNCHANGED <<part, backlog>>
  \/ part = "backlog" /\ Backlog!Next /\ UNCHANGED <<part, vars>>

(* Each part under its own fairness.                                         *)
PartsSpec ==
  /\ PartsInit /\ [][PartsNext]_<<part, vars, backlog>>
  /\ \/ part = "circuit" /\ Fairness
     \/ part = "backlog" /\ Backlog!Fairness

-----------------------------------------------------------------------------
(* Every job is eventually scored or has spent its attempts: neither the       *)
(* pending guard, the batch cap, a refusal nor a crash between enqueueing and *)
(* mark_enqueued makes the planner forget it (plan_score_new).               *)
EveryJobServed == part = "backlog" => Backlog!EveryJobServed
=============================================================================
