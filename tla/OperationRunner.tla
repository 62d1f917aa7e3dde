--------------------------- MODULE OperationRunner --------------------------
(***************************************************************************)
(* The operation runner (sidecar/app/runner/runner.py) over the operations *)
(* table (sidecar/app/db/repos.py): API threads, the scheduler and the     *)
(* workers themselves enqueue rows and pump the queue; a pump claims rows  *)
(* under the runner's lock and hands them to the thread pool outside it;   *)
(* workers call the entrypoint, write the terminal row and pump again.     *)
(*                                                                         *)
(* Rows are durable.  Everything else (`_running`, `_cancels`, futures,    *)
(* worker threads, the policy) dies with the process and is rebuilt by     *)
(* boot recovery.                                                          *)
(***************************************************************************)
EXTENDS DispatchPolicy, Sequences, Functions

CONSTANTS
  ScanLimit,    \* DISPATCH_SCAN_LIMIT: rows one dispatch pass reads
  SavedLimits,  \* the values of "Parallel AI calls" the user saves
  Modes,        \* the queue modes the user switches between
  Batches,      \* the sequences of rows submit_many is called with
  MaxBoots,     \* bound: how often the process is started
  MaxSettings,  \* bound: how often the policy is changed
  MaxFaults     \* bound: how many commits fail

ASSUME RunnerAssumption ==
  /\ ScanLimit \in Nat \ {0}
  /\ SavedLimits \subseteq Nat /\ SavedLimits # {}
  /\ Modes \subseteq QueueModes /\ Modes # {}
  /\ Batches \subseteq Seq(Ops)
  /\ \A b \in Batches : b # <<>> /\ \A i, j \in DOMAIN b : b[i] = b[j] => i = j
  /\ MaxBoots \in Nat /\ MaxSettings \in Nat /\ MaxFaults \in Nat

VARIABLES
  row,       \* the durable state column of each operation
  older,     \* the queue: pairs of queued rows, the first created before the second
  inflight,  \* keys of `_running`
  token,     \* `_cancels`: the cancel token of each operation in flight
  stage,     \* where each operation's dispatch or worker thread stands
  calls,     \* history: entrypoint calls made for each row
  owed,      \* some non-worker thread has committed a change and not yet pumped
  proc,      \* the process: down, up, draining (shutdown waits), shut (pool closed)
  policy,    \* `_policy`: the llm cap and the queue mode
  used       \* how much of each bound has been consumed

vars == <<row, older, inflight, token, stage, calls, owed, proc, policy, used>>
memory == <<inflight, token, stage>>

Terminal    == {"succeeded", "failed", "cancelled"}
RowStates   == {"absent", "queued", "running"} \cup Terminal
Stages      == {"idle", "claimed", "pooled", "gate", "call", "hook", "written", "popped"}
LlmLimits   == {LlmConcurrencyFrom(raw) : raw \in SavedLimits}
Policies    == [llm : LlmLimits, mode : Modes]
Budget      == [boots : 0..MaxBoots, settings : 0..MaxSettings, faults : 0..MaxFaults]
OnThread    == {"gate", "call", "hook", "written", "popped"}

(* Kinds whose entrypoints poll ctx.cancelled while they run.              *)
CancellableRunningKinds == {"score", "tailor", "cover"}

Queued  == {o \in Ops : row[o] = "queued"}
Alive   == proc # "down"
Fresh   == {o \in Ops : row[o] = "absent"}
At(s)   == {o \in Ops : stage[o] = s}
BusyThreads == Cardinality({o \in Ops : stage[o] \in OnThread})

(* Dispatch order: most urgent first, then (created_at, id).               *)
Before(p, o) ==
  \/ Urgency(p) < Urgency(o)
  \/ Urgency(p) = Urgency(o) /\ <<p, o>> \in older

(* The rows one dispatch pass reads: the first ScanLimit in dispatch order.*)
Window ==
  {o \in Queued : Cardinality({p \in Queued : Before(p, o)}) < ScanLimit}

Dequeue(S) == older' = {e \in older : e[1] \notin S /\ e[2] \notin S}
Set(f, S, v) == [o \in DOMAIN f |-> IF o \in S THEN v ELSE f[o]]

(* May o start beside `running`, with a thread free for it?                *)
Admits(o, running, fitted) ==
  /\ Cardinality(running) < MaxWorkers
  /\ CanStart(o, running, fitted)

(* The set the dispatch loop picks: walking the window in order, an        *)
(* operation is claimed exactly when it may start beside what is in flight *)
(* and what this pass has claimed before it.                               *)
GreedyPick(S) ==
  /\ S \subseteq Window
  /\ \A o \in Window :
       o \in S <=> /\ o \notin inflight
                   /\ Admits(o, inflight \cup {p \in S : Before(p, o)}, FitToPool(policy))
-----------------------------------------------------------------------------
Init ==
  /\ row = [o \in Ops |-> "absent"]
  /\ older = {}
  /\ inflight = {}
  /\ token = [o \in Ops |-> "none"]
  /\ stage = [o \in Ops |-> "idle"]
  /\ calls = [o \in Ops |-> 0]
  /\ owed = FALSE
  /\ proc = "down"
  /\ policy \in Policies
  /\ used = [boots |-> 0, settings |-> 0, faults |-> 0]

-----------------------------------------------------------------------------
(* Enqueueing                                                              *)

InOrder(batch) ==
  {e \in Range(batch) \X Range(batch) :
     \E i, j \in DOMAIN batch : i < j /\ e = <<batch[i], batch[j]>>}

Create(batch) ==
  /\ row' = Set(row, Range(batch), "queued")
  /\ calls' = Set(calls, Range(batch), 0)
  /\ older' = older \cup (Queued \X Range(batch)) \cup InOrder(batch)
  /\ owed' = TRUE

(* submit: one committed row; the caller goes on to pump.                  *)
Submit(o) ==
  /\ Alive
  /\ o \in Fresh
  /\ Create(<<o>>)
  /\ UNCHANGED <<memory, proc, policy, used>>

(* submit_many: a whole batch in one transaction and one pump.             *)
SubmitMany(batch) ==
  /\ Alive
  /\ Range(batch) \subseteq Fresh
  /\ Create(batch)
  /\ UNCHANGED <<memory, proc, policy, used>>

-----------------------------------------------------------------------------
(* Dispatch                                                                *)

(* The locked half of _pump: claim, commit `running`, create the tokens.   *)
Claim(S) ==
  /\ inflight' = inflight \cup S
  /\ token' = Set(token, S, "clear")
  /\ row' = Set(row, S, "running")
  /\ Dequeue(S)

(* The pump body as run by a thread whose own stage change is `next`: it   *)
(* claims the greedy pick, or does nothing once the runner is closing.     *)
PumpBody(next) ==
  \/ /\ proc = "up"
     /\ \E S \in SUBSET Window :
          /\ GreedyPick(S)
          /\ Claim(S)
          /\ stage' = Set(next, S, "claimed")
  \/ /\ proc \in {"draining", "shut"}
     /\ stage' = next
     /\ UNCHANGED <<row, older, inflight, token>>

(* An API, scheduler or boot thread pumps after its commit.                *)
Pump ==
  /\ owed
  /\ PumpBody(stage)
  /\ owed' = FALSE
  /\ UNCHANGED <<calls, proc, policy, used>>

(* Mutant: the finally forgets to pump.                                    *)
WorkerPumpSkipped(o) ==
  /\ stage[o] = "popped"
  /\ stage' = [stage EXCEPT ![o] = "idle"]
  /\ UNCHANGED <<row, older, inflight, token, calls, owed, proc, policy, used>>

(* A worker pumps last thing in _run's finally.                            *)
WorkerPump(o) ==
  /\ stage[o] = "popped"
  /\ PumpBody([stage EXCEPT ![o] = "idle"])
  /\ UNCHANGED <<calls, owed, proc, policy, used>>

(* The same pump when the commit raises: the rows roll back to `queued`    *)
(* but `_running` and `_cancels` keep what was claimed.                    *)
FailedClaim(next) ==
  /\ proc = "up"
  /\ used.faults < MaxFaults
  /\ \E S \in SUBSET Window :
       /\ S # {}
       /\ GreedyPick(S)
       /\ inflight' = inflight \cup S
       /\ token' = Set(token, S, "clear")
  /\ stage' = next
  /\ used' = [used EXCEPT !.faults = @ + 1]
  /\ UNCHANGED <<row, older, calls, proc, policy>>

PumpFails ==
  \/ /\ owed
     /\ FailedClaim(stage)
     /\ owed' = FALSE
  \/ \E o \in At("popped") :
       /\ FailedClaim([stage EXCEPT ![o] = "idle"])
       /\ UNCHANGED owed

(* executor.submit, outside the lock; it raises once the pool is shut.     *)
HandOff(o) ==
  /\ stage[o] = "claimed"
  /\ stage' = [stage EXCEPT ![o] = IF proc = "shut" THEN "idle" ELSE "pooled"]
  /\ UNCHANGED <<row, older, inflight, token, calls, owed, proc, policy, used>>

-----------------------------------------------------------------------------
(* The worker body, _run                                                   *)

Step(o, from, to) ==
  /\ stage[o] = from
  /\ stage' = [stage EXCEPT ![o] = to]

(* Write the terminal row; the future's thread goes on to `to`.            *)
Settle(o, outcome, to) ==
  /\ stage' = [stage EXCEPT ![o] = to]
  /\ row' = [row EXCEPT ![o] = outcome]
  /\ UNCHANGED <<older, inflight, token, calls, owed, proc, policy, used>>

TakeThread(o) ==
  /\ BusyThreads < MaxWorkers
  /\ Step(o, "pooled", "gate")
  /\ UNCHANGED <<row, older, inflight, token, calls, owed, proc, policy, used>>

(* No engine, an open circuit or an unknown kind: failed without a call.   *)
Reject(o) ==
  /\ stage[o] = "gate"
  /\ Settle(o, "failed", "written")

Call(o) ==
  /\ Step(o, "gate", "call")
  /\ calls' = [calls EXCEPT ![o] = @ + 1]
  /\ UNCHANGED <<row, older, inflight, token, owed, proc, policy, used>>

Succeed(o) ==
  /\ stage[o] = "call"
  /\ Settle(o, "succeeded", IF KindOf[o] = "scan" THEN "hook" ELSE "written")

(* An exception, or an outcome that carries an error.                      *)
Fail(o) ==
  /\ stage[o] = "call"
  /\ Settle(o, "failed", "written")

(* CompletionCancelled: a poll of the token, or apply's own control.       *)
StopSeen(o) ==
  /\ stage[o] = "call"
  /\ token[o] = "set" \/ KindOf[o] = "apply"
  /\ Settle(o, "cancelled", "written")

(* The terminal commit raises: the row stays `running`, the finally runs.  *)
SettleFails(o) ==
  /\ Step(o, "call", "written")
  /\ used.faults < MaxFaults
  /\ used' = [used EXCEPT !.faults = @ + 1]
  /\ UNCHANGED <<row, older, inflight, token, calls, owed, proc, policy>>

(* on_success after a scan: plan and submit_many, or plan nothing.         *)
ChainHook(o) ==
  /\ Step(o, "hook", "written")
  /\ \/ \E batch \in Batches : Range(batch) \subseteq Fresh /\ Create(batch)
     \/ UNCHANGED <<row, older, calls, owed>>
  /\ UNCHANGED <<inflight, token, proc, policy, used>>

(* The finally: drop the operation from `_running` and `_cancels`.         *)
Pop(o) ==
  /\ Step(o, "written", "popped")
  /\ inflight' = inflight \ {o}
  /\ token' = [token EXCEPT ![o] = "none"]
  /\ UNCHANGED <<row, older, calls, owed, proc, policy, used>>

-----------------------------------------------------------------------------
(* Cancel, settings, shutdown, crash and boot                              *)

CancelQueued(o) ==
  /\ Alive
  /\ row[o] = "queued"
  /\ row' = [row EXCEPT ![o] = "cancelled"]
  /\ Dequeue({o})
  /\ UNCHANGED <<memory, calls, owed, proc, policy, used>>

(* Mutant: a running row is marked cancelled at once, not at a checkpoint. *)
CancelRunningAtOnce(o) ==
  /\ Alive
  /\ row[o] = "running"
  /\ KindOf[o] \in CancellableRunningKinds
  /\ token[o] # "none"
  /\ token' = [token EXCEPT ![o] = "set"]
  /\ row' = [row EXCEPT ![o] = "cancelled"]
  /\ UNCHANGED <<older, inflight, stage, calls, owed, proc, policy, used>>

CancelRunning(o) ==
  /\ Alive
  /\ row[o] = "running"
  /\ KindOf[o] \in CancellableRunningKinds
  /\ token[o] # "none"
  /\ token' = [token EXCEPT ![o] = "set"]
  /\ UNCHANGED <<row, older, inflight, stage, calls, owed, proc, policy, used>>

(* set_llm_limit and set_queue_mode, each followed by a pump.  A save the  *)
(* process does not survive takes effect at the next boot (policy_from).   *)
Settings ==
  /\ used.settings < MaxSettings
  /\ \/ \E limit \in LlmLimits : policy' = [policy EXCEPT !.llm = limit]
     \/ \E mode \in Modes : policy' = [policy EXCEPT !.mode = mode]
  /\ policy' # policy
  /\ owed' = (owed \/ Alive)
  /\ used' = [used EXCEPT !.settings = @ + 1]
  /\ UNCHANGED <<row, older, memory, calls, proc>>

(* shutdown: refuse new dispatch and wait for the pending futures...       *)
Shutdown ==
  /\ proc = "up"
  /\ used.boots < MaxBoots
  /\ proc' = "draining"
  /\ UNCHANGED <<row, older, memory, calls, owed, policy, used>>

(* ... until they are done or the drain window ends; then cancel_futures   *)
(* drops what no thread has taken.                                         *)
PoolShutdown ==
  /\ proc = "draining"
  /\ proc' = "shut"
  /\ stage' = Set(stage, At("pooled"), "idle")
  /\ UNCHANGED <<row, older, inflight, token, calls, owed, policy, used>>

(* The process ends, by a crash or a kill at any point.                    *)
Crash ==
  /\ Alive
  /\ used.boots < MaxBoots
  /\ proc' = "down"
  /\ inflight' = {}
  /\ token' = [o \in Ops |-> "none"]
  /\ stage' = [o \in Ops |-> "idle"]
  /\ owed' = FALSE
  /\ UNCHANGED <<row, older, calls, policy, used>>

Reboot ==
  /\ proc = "down"
  /\ used.boots < MaxBoots
  /\ proc' = "up"
  /\ used' = [used EXCEPT !.boots = @ + 1]

(* Mutant: orphans go back to the queue.                                   *)
BootRequeues ==
  /\ Reboot
  /\ row' = [o \in Ops |-> IF row[o] = "running" THEN "queued" ELSE row[o]]
  /\ owed' = TRUE
  /\ UNCHANGED <<older, memory, calls, policy>>

(* Mutant: boot leaves orphaned rows as they are.                          *)
BootLeavesOrphans ==
  /\ Reboot
  /\ owed' = TRUE
  /\ UNCHANGED <<row, older, memory, calls, policy>>

(* Mutant: recovery does not pump the queue it left behind.                *)
BootWithoutPump ==
  /\ Reboot
  /\ row' = [o \in Ops |-> IF row[o] = "running" THEN "failed" ELSE row[o]]
  /\ owed' = FALSE
  /\ UNCHANGED <<older, memory, calls, policy>>

(* start: open the pool, fail orphaned `running` rows, then pump.          *)
Boot ==
  /\ Reboot
  /\ row' = [o \in Ops |-> IF row[o] = "running" THEN "failed" ELSE row[o]]
  /\ owed' = TRUE
  /\ UNCHANGED <<older, memory, calls, policy>>

-----------------------------------------------------------------------------
Worker(o) ==
  \/ HandOff(o) \/ TakeThread(o) \/ Reject(o) \/ Call(o)
  \/ Succeed(o) \/ Fail(o) \/ StopSeen(o) \/ SettleFails(o)
  \/ ChainHook(o) \/ Pop(o) \/ WorkerPump(o)

Next ==
  \/ \E o \in Ops : Submit(o) \/ CancelQueued(o) \/ CancelRunning(o) \/ Worker(o)
  \/ \E batch \in Batches : SubmitMany(batch)
  \/ Pump \/ PumpFails
  \/ Settings \/ Shutdown \/ PoolShutdown \/ Crash \/ Boot

Spec == Init /\ [][Next]_vars

(* Threads keep running, entrypoints return, a shutdown ends, and the      *)
(* shell restarts a dead sidecar.  Nobody is obliged to submit, cancel,    *)
(* save settings, shut down or crash.                                      *)
Fairness ==
  /\ WF_vars(Pump)
  /\ WF_vars(Boot) /\ WF_vars(PoolShutdown) /\ WF_vars(proc = "shut" /\ Crash)
  /\ \A o \in Ops :
       /\ WF_vars(HandOff(o)) /\ WF_vars(TakeThread(o))
       /\ WF_vars(Reject(o) \/ Call(o))
       /\ WF_vars(Succeed(o) \/ Fail(o) \/ StopSeen(o))
       /\ WF_vars(ChainHook(o)) /\ WF_vars(Pop(o)) /\ WF_vars(WorkerPump(o))

FairSpec == Spec /\ Fairness

-----------------------------------------------------------------------------
(* Properties                                                              *)

TypeOK ==
  /\ row \in [Ops -> RowStates]
  /\ older \in SUBSET (Ops \X Ops)
  /\ inflight \in SUBSET Ops
  /\ token \in [Ops -> {"none", "clear", "set"}]
  /\ stage \in [Ops -> Stages]
  /\ calls \in [Ops -> Nat]
  /\ owed \in BOOLEAN
  /\ proc \in {"down", "up", "draining", "shut"}
  /\ policy \in Policies
  /\ used \in Budget

(* Two operations that may never be in flight together: an exclusive kind  *)
(* runs alone, a page view never shares the browser lane.                  *)
Clashes(a, b) == Exclusive(a) \/ Exclusive(b) \/ ViewClash(a, b)

(* No pump, in whatever order threads pump, settle and pop, ever puts an   *)
(* operation in flight beside one it clashes with: the headed login is     *)
(* alone, a page view never lands between another operation's browser      *)
(* actions.  Holds across live policy changes, failed commits and reboots. *)
NoClashInFlight ==
  \A a, b \in inflight : a # b => ~Clashes(a, b)

(* The dispatch bookkeeping (row, `_running`, stage) never lets the        *)
(* entrypoint of one row be called twice: not by two pumps, not after a    *)
(* failed commit, not by boot recovery, which fails orphans and never      *)
(* requeues them.                                                          *)
AtMostOneCall == \A o \in Ops : calls[o] <= 1

(* The inductive strengthening the proofs use.  The queue order is total,  *)
(* which is what makes the greedy pick consistent; the stage of a worker   *)
(* fixes what its row and its call count may be; nothing in memory         *)
(* survives the process.                                                   *)
QueueTotal ==
  \A a, b \in Queued : a # b => <<a, b>> \in older \/ <<b, a>> \in older
QueueOrder ==
  /\ older \subseteq Queued \X Queued
  /\ \A a \in Queued : <<a, a>> \notin older
  /\ \A a, b, c \in Queued : <<a, b>> \in older /\ <<b, c>> \in older => <<a, c>> \in older
StageOK(o) ==
  /\ calls[o] <= 1
  /\ row[o] = "absent" => stage[o] = "idle"
  /\ row[o] = "queued" => stage[o] = "idle" /\ calls[o] = 0
  /\ stage[o] \in {"claimed", "pooled", "gate"} => row[o] = "running" /\ calls[o] = 0
  /\ stage[o] = "call" => row[o] = "running"
NothingWhenDown ==
  proc = "down" => inflight = {} /\ \A o \in Ops : stage[o] = "idle"
IInv ==
  /\ TypeOK
  /\ QueueTotal
  /\ \A o \in Ops : StageOK(o)
  /\ NothingWhenDown
  /\ NoClashInFlight

(* While the process is up and no commit has failed, every `running` row   *)
(* is owned by an entry of `_running`, so it will be settled without a     *)
(* restart, and every entry of `_running` belongs to a row that has left   *)
(* the queue.                                                              *)
RunningRowsOwned ==
  proc = "up" /\ used.faults = 0 =>
    /\ \A o \in Ops : row[o] = "running" => o \in inflight
    /\ \A o \in inflight : row[o] \notin {"absent", "queued"}

(* No lost wakeup: whenever nobody is about to pump, nothing that the      *)
(* policy would admit is left in the queue.  Every change that can free a  *)
(* lane (a new row, a finished worker, a settings change, a boot) is       *)
(* followed by a pump that sees it.                                        *)
NothingStranded ==
  proc = "up" /\ used.faults = 0 /\ ~owed /\ At("popped") = {} =>
    \A o \in Queued : ~Admits(o, inflight, FitToPool(policy))

(* fit_to_pool: a full scoring lane never holds the thread a click needs,  *)
(* when the pool is larger than what the other lanes reserve.  An operation *)
(* of any other lane that is below its own cap has a thread - unless the   *)
(* queue mode was switched live: what the scoring lane holds by then was   *)
(* admitted under the other mode's ceiling, and it runs on.                *)
ModeKept == used.settings = 0 \/ \A m, n \in Modes : m = n
ClickHasThread ==
  ModeKept /\ Reserved(policy) < MaxWorkers =>
    \A o \in Queued :
      Lane(o, policy) # "llm" /\ LaneHasRoom(o, inflight, FitToPool(policy))
        => Cardinality(inflight) < MaxWorkers

(* What fit_to_pool says of every policy, switched or not.  The code does  *)
(* not keep it: see the findings.                                          *)
ClickAlwaysHasThread ==
  Reserved(policy) < MaxWorkers =>
    \A o \in Queued :
      Lane(o, policy) # "llm" /\ LaneHasRoom(o, inflight, FitToPool(policy))
        => Cardinality(inflight) < MaxWorkers

(* Why: no lane holds more than its width, for scoring what the pool leaves.*)
Width(g) ==
  IF g = "llm" THEN Larger(1, MaxWorkers - Reserved(policy)) ELSE LimitForGroup(policy, g)
NoLaneOver ==
  \A g \in OtherGroups(policy) \cup {"llm"} :
    Cardinality(InLane(g, inflight, policy)) <= Width(g)

(* A Stop the runner accepted on a running operation stays in force until  *)
(* the worker is done with it: the token is never reset under the          *)
(* entrypoint that polls it.                                               *)
StopStays ==
  [][\A o \in Ops : token[o] = "set" =>
       token'[o] = "set" \/ stage[o] = "written" \/ proc' = "down"]_vars

(* The runner implements the ledger's promise: each row is queued once,    *)
(* started at most once beside nothing it clashes with, and its terminal   *)
(* state is final.                                                         *)
Ledger == INSTANCE OperationLedger
  WITH state <- row, tried <- {o \in Ops : calls[o] > 0}, Clash <- Clashes
ImplementsLedger == Ledger!Spec

(* Whatever is queued is eventually settled, through restarts, settings    *)
(* changes and shutdowns.                                                  *)
QueuedIsSettled ==
  \A o \in Ops : row[o] = "queued" ~> row[o] \in Terminal
=============================================================================
