------------------------------ MODULE ApplyRun ------------------------------
(***************************************************************************)
(* One application card and its apply runs: the routes that start, stop,   *)
(* submit and attest a run (sidecar/app/api/applications.py), the worker   *)
(* that fills the form and holds it open for review                        *)
(* (sidecar/app/registry/apply_op.py), and boot recovery (app/main.py).    *)
(*                                                                         *)
(* A run is one row of apply_runs; its operation is one row of operations, *)
(* whose snapshot names the run.  The card is a third row.  They are       *)
(* written in transactions of their own by API threads, the worker and     *)
(* boot.  APPLY_CONTROL and the worker die with the process.               *)
(***************************************************************************)
EXTENDS Naturals

CONSTANTS
  Runs,      \* the apply_runs rows that may be created
  Starters,  \* the API threads that serve clicks on Apply
  MaxAsks,   \* bound: clicks on Submit accepted for a run
  MaxBoots,  \* bound: how often the process dies
  None       \* no run

ASSUME ApplyAssumption ==
  /\ MaxAsks \in Nat /\ MaxBoots \in Nat
  /\ None \notin Runs

VARIABLES
  run,      \* apply_runs: status, whether phase is ready_for_human, evidence, operation_id set
  op,       \* operations: the state of each run's operation
  card,     \* the card's column: open (saved, seeking_referral) or applied
  latest,   \* the newest run of the card
  control,  \* APPLY_CONTROL: registered, cancelled, a Submit requested
  worker,   \* where each run's worker stands and what it holds
  starter,  \* where each start_apply stands
  landing,  \* runs whose queued operation was cancelled and which are not landed yet
  up,       \* the process is alive
  asked,    \* history: Submit clicks the route accepted, per run
  clicks,   \* history: Submit clicks the worker made, per run
  boots     \* how often the process died

vars == <<run, op, card, latest, control, worker, starter, landing, up, asked, clicks, boots>>

ActiveStatuses == {"queued", "waiting_for_packet", "running"}
HandedOff      == {"interrupted", "blocked"}   \* blocked stands for timed_out too
Statuses       == ActiveStatuses \cup HandedOff \cup
                    {"absent", "ready_for_human", "failed", "submitted"}
Evidence       == {"none", "confirmation_detected", "user_submitted", "user_attested"}
OpStates       == {"none", "queued", "running", "succeeded", "failed", "cancelled"}
Stages         == {"idle", "gate", "adopt", "packet", "waiting", "fill", "review", "asleep",
                   "click", "told", "close", "fin", "leave", "settle"}

(* Where an exception lands the run: after adoption, before the row is     *)
(* finalized (the body of the try in _apply_async).                        *)
Guarded  == {"packet", "waiting", "fill", "review", "asleep", "click", "told", "close", "fin"}
AtRest   == [at |-> "idle", result |-> "none", confirmed |-> FALSE]
NoControl == [live |-> FALSE, cancelled |-> FALSE, ask |-> FALSE]

Active(r)   == run[r].status \in ActiveStatuses
InReview(r) ==
  \/ run[r].status = "ready_for_human"
  \/ run[r].status = "running" /\ run[r].ready

TypeOK ==
  /\ run \in [Runs -> [status : Statuses, ready : BOOLEAN, evidence : Evidence, linked : BOOLEAN]]
  /\ op \in [Runs -> OpStates]
  /\ card \in {"open", "applied"}
  /\ latest \in Runs \cup {None}
  /\ control \in [Runs -> [live : BOOLEAN, cancelled : BOOLEAN, ask : BOOLEAN]]
  /\ worker \in [Runs -> [at : Stages, result : Statuses \cup OpStates, confirmed : BOOLEAN]]
  /\ starter \in [Starters -> [at : {"idle", "checked", "created", "submitted"},
                               run : Runs \cup {None}]]
  /\ landing \in SUBSET Runs
  /\ up \in BOOLEAN
  /\ asked \in [Runs -> Nat] /\ clicks \in [Runs -> Nat]
  /\ boots \in Nat

Init ==
  /\ run = [r \in Runs |->
       [status |-> "absent", ready |-> FALSE, evidence |-> "none", linked |-> FALSE]]
  /\ op = [r \in Runs |-> "none"]
  /\ card = "open"
  /\ latest = None
  /\ control = [r \in Runs |-> NoControl]
  /\ worker = [r \in Runs |-> AtRest]
  /\ starter = [s \in Starters |-> [at |-> "idle", run |-> None]]
  /\ landing = {}
  /\ up = TRUE
  /\ asked = [r \in Runs |-> 0]
  /\ clicks = [r \in Runs |-> 0]
  /\ boots = 0

history == <<asked, clicks, boots>>
threads == <<starter, landing>>

-----------------------------------------------------------------------------
(* start_apply: check, create, enqueue and attach in transactions of their *)
(* own.                                                                    *)

StarterGoes(s, from, to) ==
  /\ up
  /\ starter[s].at = from
  /\ starter' = [starter EXCEPT ![s] = to]

Resting == [at |-> "idle", run |-> None]

(* The newest run is not active; an active one is returned as it is.       *)
StartCheck(s) ==
  /\ latest \in Runs => ~Active(latest)
  /\ StarterGoes(s, "idle", [at |-> "checked", run |-> None])
  /\ UNCHANGED <<run, op, card, latest, control, worker, landing, up, history>>

StartCreate(s) ==
  \E r \in Runs :
    /\ run[r].status = "absent"
    /\ run' = [run EXCEPT ![r].status = "queued"]
    /\ latest' = r
    /\ StarterGoes(s, "checked", [at |-> "created", run |-> r])
    /\ UNCHANGED <<op, card, control, worker, landing, up, history>>

(* runner.submit.                                                          *)
StartEnqueue(s) ==
  /\ StarterGoes(s, "created", [starter[s] EXCEPT !.at = "submitted"])
  /\ op' = [op EXCEPT ![starter[s].run] = "queued"]
  /\ UNCHANGED <<run, card, latest, control, worker, landing, up, history>>

(* runner.submit raises: the new row is landed failed.                     *)
StartFails(s) ==
  /\ StarterGoes(s, "created", Resting)
  /\ run' = [run EXCEPT ![starter[s].run].status = "failed"]
  /\ UNCHANGED <<op, card, latest, control, worker, landing, up, history>>

StartAttach(s) ==
  /\ StarterGoes(s, "submitted", Resting)
  /\ run' = [run EXCEPT ![starter[s].run].linked = TRUE]
  /\ UNCHANGED <<op, card, latest, control, worker, landing, up, history>>

-----------------------------------------------------------------------------
(* The worker, from dispatch to the filled form                            *)

WorkerGoes(r, from, to) ==
  /\ up
  /\ worker[r].at = from
  /\ worker' = [worker EXCEPT ![r].at = to]

WorkerEnds(r, from, outcome) ==
  /\ up
  /\ worker[r].at \in from
  /\ worker' = [worker EXCEPT ![r] = [AtRest EXCEPT !.at = "leave", !.result = outcome]]

(* The runner's pump claims the operation.                                 *)
Dispatch(r) ==
  /\ op[r] = "queued"
  /\ WorkerGoes(r, "idle", "gate")
  /\ op' = [op EXCEPT ![r] = "running"]
  /\ UNCHANGED <<run, card, latest, control, threads, up, history>>

(* No engine is routed, or its circuit is open.                            *)
Reject(r) ==
  /\ up
  /\ worker[r].at = "gate"
  /\ worker' = [worker EXCEPT ![r] = [AtRest EXCEPT !.at = "settle", !.result = "failed"]]
  /\ UNCHANGED <<run, op, card, latest, control, threads, up, history>>

Register(r) ==
  /\ WorkerGoes(r, "gate", "adopt")
  /\ control' = [control EXCEPT ![r] = [NoControl EXCEPT !.live = TRUE]]
  /\ UNCHANGED <<run, op, card, latest, threads, up, history>>

(* The card or its job is gone, the job lost its link, the applicant's     *)
(* details are not confirmed: ValueError ahead of the try.                 *)
Refuse(r) ==
  /\ WorkerEnds(r, {"adopt"}, "failed")
  /\ UNCHANGED <<run, op, card, latest, control, threads, up, history>>

(* The run named by the snapshot, whatever its status.                     *)
Adopt(r) ==
  /\ WorkerGoes(r, "adopt", "packet")
  /\ run' = [run EXCEPT ![r].linked = TRUE]
  /\ UNCHANGED <<op, card, latest, control, threads, up, history>>

(* A tailored resume is still being written: announced once.               *)
AwaitPacket(r) ==
  /\ WorkerGoes(r, "packet", "waiting")
  /\ run' = [run EXCEPT ![r].status = "waiting_for_packet"]
  /\ UNCHANGED <<op, card, latest, control, threads, up, history>>

PacketReady(r) ==
  /\ ~control[r].cancelled
  /\ WorkerGoes(r, "packet", "fill") \/ WorkerGoes(r, "waiting", "fill")
  /\ run' = [run EXCEPT ![r].status = "running", ![r].ready = FALSE]
  /\ UNCHANGED <<op, card, latest, control, threads, up, history>>

(* finalize_run_failed and finalize_run_interrupted touch active rows only.*)
Landed(r, status) ==
  IF Active(r) THEN [run EXCEPT ![r].status = status] ELSE run

(* Mutant: a Stop returns from the entrypoint as if it had succeeded.      *)
PacketStoppedQuietly(r) ==
  /\ control[r].cancelled
  /\ WorkerEnds(r, {"packet", "waiting"}, "succeeded")
  /\ run' = Landed(r, "interrupted")
  /\ UNCHANGED <<op, card, latest, control, threads, up, history>>

PacketStopped(r) ==
  /\ control[r].cancelled
  /\ WorkerEnds(r, {"packet", "waiting"}, "cancelled")
  /\ run' = Landed(r, "interrupted")
  /\ UNCHANGED <<op, card, latest, control, threads, up, history>>

(* run_apply returns.  A filled form is put up for review; the loop sees a *)
(* Stop between its steps, or only after it was done.                      *)
Filled(r) ==
  /\ WorkerGoes(r, "fill", "review")
  /\ run' = [run EXCEPT ![r].ready = TRUE]
  /\ UNCHANGED <<op, card, latest, control, threads, up, history>>

NotFilled(r) ==
  /\ up
  /\ worker[r].at = "fill"
  /\ \E result \in {"blocked", "failed", "interrupted"} :
       worker' = [worker EXCEPT ![r].at = "close", ![r].result = result]
  /\ UNCHANGED <<run, op, card, latest, control, threads, up, history>>

-----------------------------------------------------------------------------
(* The review window                                                       *)

Hold(r, at) == [worker EXCEPT ![r].at = at, ![r].result = "ready_for_human"]

(* The head of the loop: time left and not stopped, then sleep.            *)
ReviewSleep(r) ==
  /\ ~control[r].cancelled
  /\ WorkerGoes(r, "review", "asleep")
  /\ UNCHANGED <<run, op, card, latest, control, threads, up, history>>

(* Time is over or the user stopped; on waking, the tab is closed or cannot*)
(* be observed.                                                            *)
ReviewOver(r) ==
  /\ up
  /\ \/ worker[r].at = "review"
     \/ worker[r].at = "asleep"
  /\ worker' = Hold(r, "close")
  /\ UNCHANGED <<run, op, card, latest, control, threads, up, history>>

(* Mutant: the request is read but not consumed.                           *)
ReadRequest(r) ==
  /\ control[r].ask
  /\ WorkerGoes(r, "asleep", "click")
  /\ UNCHANGED <<run, op, card, latest, control, threads, up, history>>

(* take_submit_request consumes the request.                               *)
TakeRequest(r) ==
  /\ control[r].ask
  /\ WorkerGoes(r, "asleep", "click")
  /\ control' = [control EXCEPT ![r].ask = FALSE]
  /\ UNCHANGED <<run, op, card, latest, threads, up, history>>

(* submit_application: no control to click, or one click and a wait for    *)
(* the confirmation.                                                       *)
Click(r) ==
  /\ up
  /\ worker[r].at = "click"
  /\ \/ /\ worker' = [worker EXCEPT ![r].at = "told"]
        /\ UNCHANGED clicks
     \/ /\ \E confirmed \in BOOLEAN :
             worker' = [worker EXCEPT ![r].at = "told", ![r].confirmed = confirmed]
        /\ clicks' = [clicks EXCEPT ![r] = @ + 1]
  /\ UNCHANGED <<run, op, card, latest, control, threads, up, asked, boots>>

(* The outcome, in one transaction with the card.                          *)
Confirmed(r) ==
  /\ up
  /\ worker[r].at = "told" /\ worker[r].confirmed
  /\ run' = [run EXCEPT ![r].status = "submitted", ![r].evidence = "user_submitted"]
  /\ card' = "applied"
  /\ worker' = [Hold(r, "close") EXCEPT ![r].confirmed = FALSE]
  /\ UNCHANGED <<op, latest, control, threads, up, history>>

NotConfirmed(r) ==
  /\ ~worker[r].confirmed
  /\ WorkerGoes(r, "told", "review")
  /\ UNCHANGED <<run, op, card, latest, control, threads, up, history>>

StillWaiting(r) ==
  /\ ~control[r].ask
  /\ WorkerGoes(r, "asleep", "review")
  /\ UNCHANGED <<run, op, card, latest, control, threads, up, history>>

(* The user submitted in the window: the page confirms it.                 *)
Detected(r) ==
  /\ up
  /\ worker[r].at = "asleep" /\ ~control[r].ask
  /\ run' = [run EXCEPT ![r].evidence = "confirmation_detected"]
  /\ worker' = Hold(r, "close")
  /\ UNCHANGED <<op, card, latest, control, threads, up, history>>

-----------------------------------------------------------------------------
(* The end of a run                                                        *)

(* _finalize reads the row before its UPDATE takes the write lock, and     *)
(* decides the status and whether the card moves from what it read.        *)
FinalizeRead(r) ==
  LET detected == run[r].evidence = "confirmation_detected" IN
  /\ up
  /\ worker[r].at = "close"
  /\ worker' = [worker EXCEPT ![r].at = "fin",
        ![r].result = IF detected \/ run[r].status = "submitted" THEN "submitted" ELSE @,
        ![r].confirmed = detected]
  /\ UNCHANGED <<run, op, card, latest, control, threads, up, history>>

(* Mutant: the confirmed run is recorded and the card forgotten.           *)
FinalizeWithoutCard(r) ==
  /\ run' = [run EXCEPT ![r].status = worker[r].result]
  /\ WorkerEnds(r, {"fin"},
       IF worker[r].result \in {"ready_for_human", "submitted"} THEN "succeeded" ELSE "failed")
  /\ UNCHANGED <<op, card, latest, control, threads, up, history>>

FinalizeWrite(r) ==
  /\ run' = [run EXCEPT ![r].status = worker[r].result]
  /\ card' = IF worker[r].confirmed THEN "applied" ELSE card
  /\ WorkerEnds(r, {"fin"},
       IF worker[r].result \in {"ready_for_human", "submitted"} THEN "succeeded" ELSE "failed")
  /\ UNCHANGED <<op, latest, control, threads, up, history>>

(* Any exception after adoption.                                           *)
Raise(r) ==
  /\ WorkerEnds(r, Guarded, "failed")
  /\ run' = Landed(r, IF control[r].cancelled THEN "interrupted" ELSE "failed")
  /\ UNCHANGED <<op, card, latest, control, threads, up, history>>

(* The finally of _apply drops the control...                              *)
Leave(r) ==
  /\ WorkerGoes(r, "leave", "settle")
  /\ control' = [control EXCEPT ![r] = NoControl]
  /\ UNCHANGED <<run, op, card, latest, threads, up, history>>

(* ... and the runner writes the operation's end.                          *)
Settle(r) ==
  /\ up
  /\ worker[r].at = "settle"
  /\ op' = [op EXCEPT ![r] = worker[r].result]
  /\ worker' = [worker EXCEPT ![r] = AtRest]
  /\ UNCHANGED <<run, card, latest, control, threads, up, history>>

-----------------------------------------------------------------------------
(* The user                                                                *)

(* Stop on a live run.  In the moments between, after dispatch and before  *)
(* the control is registered or the run linked, a Stop changes nothing.    *)
StopLive(r) ==
  /\ up
  /\ run[r].linked /\ control[r].live
  /\ control' = [control EXCEPT ![r].cancelled = TRUE]
  /\ UNCHANGED <<run, op, card, latest, worker, threads, up, history>>

(* Mutant: the queued operation is cancelled and its run left as it is.    *)
StopQueuedOnly(r) ==
  /\ up
  /\ op[r] = "queued"
  /\ op' = [op EXCEPT ![r] = "cancelled"]
  /\ UNCHANGED <<run, card, latest, control, worker, threads, up, history>>

(* Stop on a queued run, here or in the ledger: the operation first...     *)
StopQueued(r) ==
  /\ up
  /\ op[r] = "queued"
  /\ op' = [op EXCEPT ![r] = "cancelled"]
  /\ landing' = landing \cup {r}
  /\ UNCHANGED <<run, card, latest, control, worker, starter, up, history>>

(* ... then the run, in a second transaction.                              *)
Land(r) ==
  /\ up
  /\ r \in landing
  /\ landing' = landing \ {r}
  /\ run' = Landed(r, "interrupted")
  /\ UNCHANGED <<op, card, latest, control, worker, starter, up, history>>

(* submit_apply_run: accepted while the run is in review and its control   *)
(* is registered.                                                          *)
AskSubmit(r) ==
  /\ up
  /\ InReview(r)
  /\ run[r].linked /\ control[r].live
  /\ asked[r] < MaxAsks
  /\ asked' = [asked EXCEPT ![r] = @ + 1]
  /\ control' = [control EXCEPT ![r].ask = TRUE]
  /\ UNCHANGED <<run, op, card, latest, worker, threads, up, clicks, boots>>

(* "I submitted it", with the card in the same transaction.                *)
Attest(r) ==
  /\ up
  /\ InReview(r) \/ run[r].status \in HandedOff
  /\ run' = [run EXCEPT ![r].status = "submitted", ![r].evidence = "user_attested"]
  /\ card' = "applied"
  /\ UNCHANGED <<op, latest, control, worker, threads, up, history>>

-----------------------------------------------------------------------------
(* The process                                                             *)

Crash ==
  /\ up
  /\ boots < MaxBoots
  /\ boots' = boots + 1
  /\ up' = FALSE
  /\ control' = [r \in Runs |-> NoControl]
  /\ worker' = [r \in Runs |-> AtRest]
  /\ starter' = [s \in Starters |-> Resting]
  /\ landing' = {}
  /\ UNCHANGED <<run, op, card, latest, asked, clicks>>

Orphaned(r) == op[r] = "running"

(* Mutant: only the runner recovers, the runs stay as they were.           *)
BootWithoutRuns ==
  /\ ~up
  /\ up' = TRUE
  /\ op' = [r \in Runs |-> IF Orphaned(r) THEN "failed" ELSE op[r]]
  /\ UNCHANGED <<run, card, latest, control, worker, threads, history>>

(* Active runs are interrupted and the operations they are linked to       *)
(* cancelled; then the runner fails what is left running.                  *)
Boot ==
  /\ ~up
  /\ up' = TRUE
  /\ run' = [r \in Runs |-> IF Active(r) THEN [run[r] EXCEPT !.status = "interrupted"] ELSE run[r]]
  /\ op' = [r \in Runs |->
       CASE Active(r) /\ run[r].linked /\ op[r] \in {"queued", "running"} -> "cancelled"
         [] OTHER -> IF Orphaned(r) THEN "failed" ELSE op[r]]
  /\ UNCHANGED <<card, latest, control, worker, threads, history>>

-----------------------------------------------------------------------------
StarterStep(s) ==
  StartCheck(s) \/ StartCreate(s) \/ StartEnqueue(s) \/ StartFails(s) \/ StartAttach(s)
Filling(r) ==
  \/ Dispatch(r) \/ Reject(r) \/ Register(r) \/ Refuse(r) \/ Adopt(r)
  \/ AwaitPacket(r) \/ PacketReady(r) \/ PacketStopped(r) \/ Filled(r) \/ NotFilled(r)
Reviewing(r) ==
  \/ ReviewSleep(r) \/ ReviewOver(r) \/ TakeRequest(r) \/ Click(r)
  \/ Confirmed(r) \/ NotConfirmed(r) \/ StillWaiting(r) \/ Detected(r)
Ending(r) ==
  FinalizeRead(r) \/ FinalizeWrite(r) \/ Raise(r) \/ Leave(r) \/ Settle(r)
User(r) ==
  StopLive(r) \/ StopQueued(r) \/ Land(r) \/ AskSubmit(r) \/ Attest(r)

Next ==
  \/ \E s \in Starters : StarterStep(s)
  \/ \E r \in Runs : Filling(r) \/ Reviewing(r) \/ Ending(r) \/ User(r)
  \/ Crash \/ Boot

Spec == Init /\ [][Next]_vars

(* API threads and the worker run to their end, the queue is dispatched,   *)
(* the packet wait, the fill and the review window are bounded by their    *)
(* own clocks, and the shell starts the process again.  Users owe nothing. *)
Fairness ==
  /\ WF_vars(Boot)
  /\ \A s \in Starters : WF_vars(StartEnqueue(s) \/ StartFails(s)) /\ WF_vars(StartAttach(s))
  /\ \A r \in Runs :
       /\ WF_vars(Dispatch(r)) /\ WF_vars(Reject(r) \/ Register(r))
       /\ WF_vars(Refuse(r) \/ Adopt(r)) /\ WF_vars(PacketReady(r) \/ PacketStopped(r))
       /\ WF_vars(Filled(r) \/ NotFilled(r)) /\ SF_vars(ReviewOver(r))
       /\ WF_vars(Click(r)) /\ WF_vars(Confirmed(r) \/ NotConfirmed(r))
       /\ WF_vars(FinalizeRead(r)) /\ WF_vars(FinalizeWrite(r))
       /\ WF_vars(Leave(r)) /\ WF_vars(Settle(r)) /\ WF_vars(Land(r))

FairSpec == Spec /\ Fairness

-----------------------------------------------------------------------------
(* The card is Applied as soon as any of its runs says submitted, whoever  *)
(* wrote it (the worker's click, the detected confirmation, the user's     *)
(* word), through crashes between the worker's transactions.               *)
CardFollowsRun ==
  \A r \in Runs : run[r].status = "submitted" => card = "applied"

(* The form is clicked at most once for each Submit the user made, counting*)
(* a request that is still waiting to be taken.                            *)
ClicksAsked ==
  \A r \in Runs : clicks[r] + (IF control[r].ask THEN 1 ELSE 0) <= asked[r]

(* While the process is up, a run that says it is active has someone who   *)
(* will end it: its operation, the start that created it, or the Stop that *)
(* cancelled its operation.  The one exception is a run whose operation    *)
(* was refused before it adopted the run, which says `queued`: once a run  *)
(* says anything else, no path out of the worker leaves it behind.         *)
Owned(r) ==
  \/ op[r] \in {"queued", "running"}
  \/ \E s \in Starters : starter[s] = [at |-> "created", run |-> r]
  \/ r \in landing
ActiveRunOwned ==
  up => \A r \in Runs :
    Active(r) => Owned(r) \/ (run[r].status = "queued" /\ op[r] = "failed")

(* The ledger and the panel agree: a run whose operation says succeeded is *)
(* ready for the human or submitted, never stopped, blocked or failed.     *)
LedgerTellsRun ==
  \A r \in Runs : op[r] = "succeeded" => run[r].status \in {"ready_for_human", "submitted"}

(* A run that was taken up, or whose operation was cancelled, ends: by its *)
(* worker, the Stop that is landing it, or the next boot.                  *)
TakenUpRunEnds ==
  \A r \in Runs :
    Active(r) /\ (run[r].status # "queued" \/ op[r] = "cancelled") ~> ~Active(r)
=============================================================================
