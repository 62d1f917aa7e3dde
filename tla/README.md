# Verification of finds-you-jobs

finds-you-jobs is a desktop application: a Tauri shell (`src/src-tauri`) starts
and supervises a Python sidecar (`src/sidecar`, FastAPI over SQLite) and shows a
React frontend (`src/frontend`).  The sidecar finds jobs, scores them with a
language model, writes documents, drives a browser that fills application forms
under the user's eye, and works LinkedIn contacts.  Nearly everything it does is
an *operation*: a durable row in the `operations` table, claimed by a runner,
executed on a thread pool, observed by the frontend over server-sent events.

This directory holds TLA+ models of that machinery, the TLC runs that check them
and the proofs TLAPS checks.  All paths below are relative to the repository's
root.

## 1. Inventory

| component | source | state | operations | what is hard, and what must hold |
|---|---|---|---|---|
| Dispatch policy | `sidecar/app/runner/policy.py` | lane table, llm cap, queue mode | `can_start`, `fit_to_pool`, `group_for` | caps, exclusivity and reserved threads must compose under live changes |
| Operation runner | `sidecar/app/runner/runner.py`, `db/repos.py` (OperationsRepo) | operation rows; `_running`, `_cancels`, `_closing`, the pool | submit, submit_many, pump, run, cancel, settings, shutdown, recover | many threads pump; row, memory and thread state change at different moments; crash at any of them.  One call per row, nothing clashing in flight, no lost wakeup, no orphaned row |
| Circuit breakers | `sidecar/app/runner/circuit.py`, `runner.py` `_run` | per service: failures in a row, opening time, probe lease | check, record_success, record_failure, abandon_probe | several workers of one service, one probe lease, a provider that differs from the engine.  An open circuit recovers, one probe at a time |
| Score ledger and preference blob | `registry/operations.py` `_persist_score`, `db/repos.py`, `api/settings.py`, `frontend/src/api/real/settings.ts` | score rows, attempts; the JSON columns `thresholds` and `ui_state` of one preferences row; the cap the runner works with | score op, retry, settings save, Brave usage | read-modify-write of whole columns by the page, the workers and the scan; the cap is handed to the runner after the commit |
| Score planner and scheduler | `scheduler/{scheduler,planner}.py`, `main.py` hooks | schedules, last op id, job attempts | tick, run-now, scan hook | three planners plan from a read taken before the enqueue; a crash between enqueue and bookkeeping |
| Apply run | `api/applications.py`, `registry/apply_op.py`, `main.py` boot | apply_runs row, operation row, application card, `APPLY_CONTROL` | start, run, review, submit, cancel, attest, boot recovery | three rows written in separate transactions by an API thread, a worker and boot |
| Browser broker | `browser/broker.py` | the map of surfaces, one lifecycle lock per slug; per surface its thread, viewer, commands in flight and idle clock | surface, make room, reap, shutdown, watch, submit | two kinds of lock taken in turns, joins that time out, crashes.  One Chrome per profile directory, nothing closed in use, the idle reclaimed |
| Applier window | `registry/applier_window.py` | one Chrome context with its CDP session, profile directory and Playwright; the runs' tabs, the spare tab, the close timer | open_tab, close_tab, idle close, the user's own closing | every await lets another run, the timer or the user in.  A window in use stays whole, a tab is one run's, an idle window closes |
| Form-filling loop | `packages/jobapplier/loop.py`, `decide.py`, `submit.py` | turn counter, observations, submit gate | observe, decide, act, submit | never submit on its own; stop means stop |
| Outreach pacing and send | `packages/referral_outreach/upstream/{pacing,worker,session}.py`, `registry/networker_ops.py`, `api/networking.py` | the ledger file and the Pacer each operation loads from it; send operations, outreach log, the job's card | check, charge, refund, pause, resume, merge; Send now, send, settle | three lanes load, spend and merge one ledger; a page action outlives its operation; a batch has no row of its own.  No message uncharged, a throttle pauses everything, no second send of a contact, every attempt logged |
| Contact sync | `registry/contact_sync_op.py`, `worker.py` `contact_sync_states` | contact rows with column, stamp and first reply; what one sweep has read | partition, probe, apply; drag; send | the sweep decides from rows minutes old; three writers of a column.  A drag wins, an answered thread is not demoted, a reply is seen |
| Job ingestion | `registry/persistence.py`, `modules/scraper` | jobs, duplicates, company anchors | scan persist, ingest, archive | identity of the same job from several boards |
| Scraper adapters | `modules/scraper/adapters` | none | fetch, parse | third-party formats; parsing only |
| Scorer, tailorer, cover letter, profiler, geo, titles | `modules/*` | none | pure functions and prompts | output parsing; model output |
| Model engines | `modules/_shared`, `registry/engines*.py` | engine configuration | complete, retry, cancel | retry of a call whose answer was lost |
| Event hub and stream | `app/events.py`, `frontend/src/api/events.ts`, the bridge in `api/queries.ts` | bounded subscriber queues; the EventSource, its error count and rebuild timer; one throttle per group of queries | publish, subscribe, rebuild, invalidate | hints are never replayed, queues drop the oldest, the sidecar comes back on another port.  No list stays behind unless a hint was lost; the stream returns |
| HTTP API | `app/api/*.py` | none of its own | request handlers over the repos | check-then-act across transactions |
| Database | `db/database.py`, `db/models.py`, alembic | SQLite in WAL mode | transaction per `repos()` block | which reads belong to which write transaction |
| Sidecar supervision | `src-tauri/src/{sidecar,lib}.rs`, `app/{watchdog,lifecycle}.py` | child process, failure window, boot history | spawn, handshake, health poll, respawn, drain | a restart racing a shutdown, a busy sidecar taken for a dead one, a shell killed at any point.  One sidecar per shell, none without one, boots are spared |
| Security, auth, logging, redaction | `app/{security,auth}.py`, `observability` | tokens, logs | middleware | not a protocol of several steps |
| Frontend caches and waits | `frontend/src/api/{queries,client}.ts`, `api/real/transport.ts`, `surfaces/BrowserOpPlan.tsx` | the query cache, the pages of the board, the LinkedIn queue panel, the cached handshake, a run that is waited for | refetch, optimistic save, paging, ledger reads, request with one retry, poll, cancel at the limit | answers and events cross; an optimistic row against offsets; a retry of a request that was served; a wait that must end |
| Frontend, the rest | `frontend/src` | forms, routes, locales | rendering | presentation |

How they interact: the API and the scheduler *call* `runner.submit` in the
process; the runner *calls* entrypoints of `registry/` on pool threads; every
component shares state through SQLite, one transaction per `repos()` block;
finished operations *call back* (`on_success`) into the planner; all of them
publish to the event hub; the shell talks to the sidecar over stdin/stdout at
start and HTTP `/healthz` afterwards; the page learns port and token from the
shell, sends requests over the loopback transport and listens on one EventSource.

## 2. What is modelled, and how it corresponds to the code

The database is SQLite in its default transaction mode: a `SELECT` reads
committed data, and a transaction takes the write lock at its first `INSERT` or
`UPDATE` (`db/database.py`).  So in every module a *write transaction* is one
atomic action, and a read that precedes it, in the same `repos()` block or in an
earlier one, is an action of its own whenever something else could write in
between and the outcome depends on it.  Python threads interleave between those
actions; what the code does under one `threading.Lock` is one action.

| module | models | its state is | its actions are |
|---|---|---|---|
| `DispatchPolicy` | `runner/policy.py` | none (operators over the policy record) | `CanStart`, `FitToPool`, `GroupFor`, the caps and the dispatch order |
| `OperationRunner` | `runner/runner.py` and the queries of `OperationsRepo` it uses | `row` (operations.state), `older` (queue order), `inflight` (`_running`), `token` (`_cancels`), `stage` (where a worker's thread stands), `proc`, `policy` | `Submit`, `SubmitMany`, `Pump`, the worker body from `HandOff` to `Pop` and its own pump, cancels, settings, the two halves of a shutdown, `Crash`, `Boot`; `PumpFails` and `SettleFails` are failed commits |
| `OperationLedger` | the promise of the operations table | `state`, `tried` | abstract: `Enqueue`, `Start`, `Work`, `Finish`, `Withdraw`, `Restart` |
| `CircuitBreaker` | `runner/circuit.py` with the calls of `runner.py` `_run` and `score_entrypoint` around it | per service failures, open, probing; per worker stage, gated service, called service or nobody, lease | `Gate` (check, with a mode from the setting or from the request), `Enter` (the entrypoint's own look at the mode, and the thin posting that is scored by keyword), `Succeed`, `Fail`, `NoVerdict`, the clock, the scoring mode, the provider |
| `ScoreQueue` | `scheduler/*`, the score operation of `registry/operations.py`, the score writes of `JobsRepo`, run-now, Rescore, Retry | the job rows' method and attempts, operations per job with who asked for them, what each planner has read, the schedule row | one action per transaction of a planner and of a score operation, floor passes, `Stop`, `Crash`, `Boot` |
| `ApplyRun` | `api/applications.py`, `registry/apply_op.py`, the apply part of boot | the run row, its operation's row, the card's column, `APPLY_CONTROL`, the stages of worker and start handler | one action per transaction or observation of `start_apply`, `_apply_async`, `_review_window`, `_run_user_submit`, `_finalize`, the exception paths, the cancel, submit and attest routes, `Crash`, `Boot` |
| `LiveQueries` | `app/events.py`, `frontend/src/api/events.ts`, `useSSEInvalidation` and the refetches of `api/queries.ts` | the sidecar's phase and generation; committed versions and announced hints per group of queries; the `EventBus`; throttle, request and cached version per group | `Commit`, `Publish`, `Receive`, the throttle (`Call`, `IntervalOver`), `Mount`, `Answer`, `Land`, `GiveUp`, the bus (`ReadHandshake`, `Accept`, `OnOpen`, `NoticeBreak`, `RebuildFires`...), `Spawn`, `Listen`, `Crash` |
| `BrowserOpFeed` | `useBrowserOps` (`surfaces/BrowserOpPlan.tsx`), `useContactSyncInFlight` | rows of the LinkedIn lane, events committed but not published, events on their way; what the panel and the Sync button believe; their ledger reads | `Submit`, `Start`, `ReportSending`, `ReportRefusal`, `Finish`, `Publish` (per operation, two threads), `Gap`, `Hear`, `AnswerLedger`, `Land`, `LedgerFails`, `Show`, `LandSeed`, `Leave` |
| `BoardFeed` | `useBoard`, `useSaveJob`, `useTrashJob` with `GET /api/board` | the feed, the loaded pages, the fetch under way, requests in flight | `Rank`, `Trash`, `Hint`, `FetchNext`, `ReadPage`, `Land`, `Save` with its commit, success and failure |
| `PreferenceBlob` | `updateSettings`, `savePreferences`, `update_settings`, `_persist_score`, `record_brave_usage` | the two JSON columns key by key, what each save and the scan read, the runner's cap | `Get`, `Post`, `Apply` per save, `Score`, `ScanReads`, `ScanWrites`, `Restart` |
| `RunWait` | `waitForOperation`, `usePromptTest`, `Transport.req`, the handshake of `client.ts` | the sidecar's number, the pair the shell hands out and the one the page caches, the rows of one mutation, its request | `UseCached`, `AskFirst`, `AskSecond`, `Serve`, `Refuse`, `Fails`, `Deliver`, `Submit`, `Poll`, `Read`, `TimedOut`, `Die`, `Respawn`, `Publish` |
| `BrowserBroker` | `browser/broker.py` | `map` (`_surfaces`), `lock` (`_slug_locks`); per surface thread, `stopping`, viewer, `inflight`, `aged` (past the reaper's limit); where each caller and the reaper stand | `Ask` to `Start` (`surface`), `Pick`/`Evict` (`_make_room`), `Scan`/`Reap` (`reap_idle`), `Stop`/`Join`, `Quit`, viewers and commands, the surface's thread from `Launch` to `TornDown` |
| `ApplierWindow` | `registry/applier_window.py` | `context`, `cdp`, `profile`, `pw`, `spare`, `tabs`, `lock`, `timer` as in the code; which Chrome is up and which page is in it; where each run stands | what lies between two awaits of `open_tab`, `_launch`, `close_tab`, `_close_if_idle`, `_close_window`; the site and the user |
| `SidecarSupervisor` | `sidecar.rs`, `lib.rs`, `watchdog.py` | `Inner`, the supervisor thread's locals, the boot records; what each sidecar ever spawned is doing | `Boot`, `Handshake`, the quit from `Leaving` to `Exit`, the supervisor's `Grace`, `Healthy`, `Busy`, `Fails`, `Restart`, `Respawned`..., the sidecars with their watchdog |
| `PacingLedger` | `pacing.py`, the operations of `worker.py`, `run_browser` | `disk` (pacing_state.json); per lane its operation's Pacer (`seen`, `pending`, `mine`, `refunds`, `pause`); the surface's `queue` | `Reach`, `Charge`, `Settle`; `Discover`, `Listed`; `Sweep`, `Probed`; `Begin`, `Finish` (the surface's thread); `GiveUp` (45 s), `Resume`, `Crash`; what LinkedIn did is a choice of `Begin` (`Clicks`): an answer "not sent" leaves open whether the message went out |
| `ReachOut` | `reach_out`, `send_entrypoint`, `_maybe_move_on_batch_settle` | requests half-way through their picks, on any number of threads of the pool, the send rows, the running one, the log, the card | `Click`, `Submit`, `Dispatch`, `Drive`, `Record`, `Finish`, `Cancel`, `Crash` |
| `ContactSync` | `contact_sync_entrypoint`, `decide_transition`, `update_contact`, the column write of a send | per contact column, manual stamp, reply, degree, urn; LinkedIn's side; the sweep's snapshot, inbox and answers; the send under way | `Partition`, `Probe` (whether it was read, with or without a urn), `Probed`, `Apply`, `Stopped`; `Drag`, `Cooled`; `Send`, `Goes`, `SendEnds`; `Outside` |

The `*Proofs` modules hold the theorems.  The `MC*` modules name small instances,
and six of them put side by side parts that meet in the program but share no
state in the models: `MCApplyRun` (the runs, the Applier's window, the broker's
surfaces), `MCBrowser` (window and surfaces again, for safety with symmetry),
`MCPage` (settings, board, LinkedIn panel), `MCProvider` (the breaker,
the backlog of scores), `MCRunWait` (the request that waits, the shell that supervises) and `MCOutreach` (ledger, sends, contacts).  There a variable
`part` says which part takes the steps of this behaviour, and the others stay at
their initial state: every behaviour of the composition is one of exactly one part, so a
property of a part holds of the composition if and only if it holds of the part's
own specification, and the state space is the sum and not the product.  Each
property that such a module states is the part's own, or the conjunction of several.

`OperationRunner` EXTENDS `DispatchPolicy`, so that the dispatch decisions it
checks are the policy's own.  `ScoreQueue` and `ApplyRun` replace the runner by
what `OperationLedger` promises of it: an operation is started at most once, a
queued one survives a restart, a running one fails.  That is the promise the
refinement in `runner_crash` checks and `RunnerImplementsLedger` proves, which is
why the modules are composed through the ledger and not by multiplying their state.

What is reduced to a choice: a form fill is one step with its possible outcomes
(filled, blocked, failed, interrupted); a model call answers, fails or is
refused; reasons, summaries, screenshots, usage and events are left out.
`blocked` stands for `timed_out` too, which the code treats alike everywhere the
model looks.  On the page a list is the version of the database it shows
(`LiveQueries`), a job its place in the feed (`BoardFeed`), a setting the number
of the write it came from (`PreferenceBlob`); `add_cost_totals`, a fifth writer of
the blob, has no caller.  `RunWait` follows one mutation: the page's other
requests share its cached handshake and start no runs.

Operators marked "Mutant" are variants of one definition, kept beside it to show
that the property the project pairs it with (PROJECT.json, "mutants") notices
the bug.  No specification uses them.

## 3. The runs

| run | question | instance | what it shows |
|---|---|---|---|
| `runner_crash` | does the runner keep the ledger's promise through crashes, shutdowns and boots? | a score, a discover and a page view on 2 threads; 2 boots, at every point a crash or a shutdown; fair | `ImplementsLedger`, `NoClashInFlight` (the page view and the discover share the browser), `AtMostOneCall`, `RunningRowsOwned`, and `AcceptedIsHonoured`: a Stop stays set until its worker is done, every queued row is settled |
| `runner_dispatch` | do a scan's batch, the lane caps, the pool and failed commits compose? | a scan whose hook enqueues two scores, 2 threads, no saved cap on scoring, 2 boots, one switch of the queue mode, one failed commit | `NothingStranded`, `ClickHasThread` |
| `provider` | can a circuit wedge, close on another's evidence, or never close; does the backlog go on after refusals and a crash? | 2 workers, 2 services, threshold 2, one mode switch, operations that call nobody; the tick, 2 jobs, a batch cap of 1, one Retry, one crash; fair | `LeaseHasHolder`, `ClosedByItsOperation`, `HealthyProviderResumes`; `EveryJobServed` |
| `score_race` | three planners race: duplicates, paid calls, statistics, attempts, floors | tick, and Run now or a scan's hook; 1 job, 2 slots; one crash, and one Retry or two of Stop, Rescore and floor pass | `OnePerPlanner` and `ScoredOnce` (each planner by itself), `AttemptsAccounted`, `FloorNeverReplaces` |
| `apply` | one run through every path, and what it holds | 1 run, two start handlers, 2 Submits, 2 boots; the window with 2 runs, 2 pages, 2 windows, 1 fault; one slug with one caller and two surfaces; fair | `CardFollowsRun`, `ClicksAsked`, `ActiveRunOwned`, `LedgerTellsRun`, `TakenUpRunEnds`; `IdleWindowCloses`; `IdleIsReclaimed` |
| `browser` | do cap, reaper and crashes keep one Chrome per profile, does the shared window stay whole? | surfaces: 2 callers, 2 slugs, 2 surfaces, a cap of 1, one fault, one shutdown; window: 2 runs, 3 pages, 2 windows, one fault, one act of the user | `OneChromePerProfile`, `ReaperSparesHands`, `CrashedIsReplaced`; `WindowIsWhole` |
| `live` | is any change forgotten between commit and screen? | one group of queries, a hub queue of 1, two generations of the sidecar, rebuild after 3 errors; fair | `ViewsAccounted`, and `EndsLive`: the stream comes back and a list left on screen catches up |
| `page` | do the page's caches survive the writes and events that cross them? | 3 saves, a score, a scan, a restart; 3 jobs in pages of one row, 2 changes, 2 saves; a send and a sync, one outage, one ledger read, one event on the way | `FieldsKept`, `RunnerHasSavedCap`; `ListIsFeed`; `PanelIsTrue` |
| `runwait` | may a retry run twice, a wait hang or abandon its run, a shell have two sidecars? | 2 deaths, one broken connection; 3 sidecars, 2 starts of the shell, 2 faults, a failure cap of 2; fair | `OncePerSidecar`, `NobodySpendsUnwatched`; `ShellKeepsOne`; `DeathIsSettled`: waits end, orphans end, a dead sidecar is replaced |
| `outreach` | do three lanes keep one ledger, is a batch accounted for, does a sweep respect what crosses it? | one kind of message with a cap of 1, a read cap of 1, a page of 2, one probe, 2 actions on the lane; 2 contacts, 2 clicks, 2 request threads; one contact with everything between any two steps of a sweep | `LedgerIsTrue`, `PauseOutlivesOthers`; `BatchIsAccounted`; `BoardKept` |
| `sync_manual` | is manual always stronger? (violation) | one contact | `ManualWins` fails: a drag made during the sweep is undone |
| `double_send` | is the check of `reach_out` a backstop? (violation) | 1 contact, 2 request threads, 2 clicks | `OneSendPerContact` fails: two requests read before either submits |

### Bounds and why they are enough

Bounds limit how often the outside acts (`MaxBoots`, `MaxSettings`, `MaxFaults`,
`MaxUsed`, `MaxAsks`, `MaxSwitches`, `MaxWrites`, `MaxGen`, `MaxMounts`,
`MaxGaps`, `MaxReads`, `MaxWire`, `MaxChanges`, `MaxSaves`, `MaxPages`,
`MaxScores`, `MaxScans`, `MaxRestarts`, `MaxDeaths`, `MaxBreaks`, `MaxQuits`,
`MaxUser`, `MaxFired`, `MaxSpawns`, `MaxQueue`, `MaxDue`, `MaxClicks`) and how many
things there are.

- *Runner.*  A property concerns two operations and a third that frees or takes a
  lane: three or four rows of different lanes, with lane widths of 1 and the pool
  at or below their sum, reach every "lane full", "pool full" and "fitted" branch.
  Two boots let a process die, recover and die during what the recovery led to.
  A headed login needs no instance of its own: that it is alone in flight is
  theorem `Exclusion`.
- *Breaker and scores.*  A planner race needs one job and two planners, of which one
  is the tick; between any two of their steps a crash, and one Retry or any two of a
  Stop, a Rescore and a floor pass (the constraint `FewBesides`), is every outside
  event once beside every other but Retry; the proofs cover any number of each.  A batch cap starves at least a second job, which `provider` gives
  the tick alone: what the other planners enqueue only takes jobs out of the tick's
  way.  The breaker's lease needs two workers of one service.
- *Apply.*  Runs share nothing but the card, so TLC takes one run in full detail;
  the proofs cover any number.
- *LiveQueries.*  Groups of queries share only the hub's queue, so one group and a
  queue of length 1, which drops at the second hint, show each way a hint is lost;
  two generations of the sidecar are one restart at every point of the protocol,
  two writes let a change arrive during the refetch of another, and three errors
  is the code's own threshold.  The proof covers any number of keys, generations
  and errors.
- *BrowserOpFeed.*  The panel follows one current operation and a set of waiting
  ones: two operations are one of each.  A second event on the wire at once only
  delays what the order of `Publish` already varies.
- *BoardFeed.*  With pages of one row, three jobs give three pages: a row can fall
  off a page, skip one and leave the last one short.
- *PreferenceBlob.*  Three saves over two columns: one sets the cap
  (`thresholds`), one a toggle of `ui_state`, one both, so that two of each column race; one score and one
  scan read and write between any of their steps.
- *RunWait.*  Two deaths let a retry fail too; one broken connection is the one
  failure a retry must not answer with a second run.
- *BrowserBroker.*  A conflict over a profile needs two callers or a caller and the
  reaper; a cap of one lets every launch evict.  A surface that is gone can be
  launched again, so two are an eviction and the launch it makes room for.  The
  proof covers any numbers.
- *ApplierWindow.*  Two runs, a page each, and one that is spare, foreign or opening;
  two windows let a launch follow a quit.  Two idle closes waiting for the lock at
  once are more than one timer can leave.  The proof covers any numbers.
- *SidecarSupervisor.*  Two boots let a run follow one that was quit, killed or gave
  up; three sidecars let a run respawn twice before it gives up or quits.  The proof
  covers any numbers and any limits.
- *PacingLedger.*  A lane runs one operation, so three lanes are all there are;
  a second probe of a sweep only repeats the first;
  caps of 1 put every charge at the cap, and a page of 2 over a cap of 1 lets the
  clamp cut.  `MaxQueue` is two lanes' actions at
  once, or a timed-out one and one more; the proof covers any queue.
  Charges do not roll off and a pause does not expire, which only makes refusals
  more frequent.
- *ReachOut.*  A batch of two has a last and an earlier send; a second click makes
  a second batch while the first is worked off, and on a second thread a request that
  overlaps the first.  The proof covers any number of threads.
- *ContactSync.*  Contacts share only the inbox, which is read once per sweep: what
  is old in it for one contact is old whether or not a second exists.  So one
  contact is taken with every interleaving of sweep, drag, send and LinkedIn.

`CHECK_DEADLOCK FALSE` is set where the system may rest: nobody is obliged to
submit work, and the budgets run out.

### Fairness and why the code justifies it

- Threads that can take a step take it: worker and API threads are plain pool
  threads, nothing in the modelled code waits without a bound for another.  Hence
  weak fairness of every step of the worker body, of the planners, of a publication
  after its commit, and of the start handler once it has created a run.
- An operation's entrypoint returns: engines and browser steps have timeouts, the
  packet wait and the review window their own clocks.  `ReviewOver` is strongly
  fair because the window alternates between looking and sleeping.  `RunWait`
  assumes less: there a model call may hang, and the wait ends all the same.
- The clock advances (`Elapse`, `Due`, `IntervalOver`, `LimitPasses`,
  `RebuildFires`), and the shell restarts a dead sidecar and publishes its new
  handshake (`Boot`, `Spawn`, `Respawn`, `Publish`), as `sidecar.rs` does.
- A Chrome comes up or its launch fails, and a browser that is told to close does:
  Playwright bounds both.  A surface's thread looks at its queue every tick.  A
  caller with a surface in its hand is assumed to use it before five minutes pass.
- A hung sidecar answers again in the end, and one that drains ends: the lifespan's
  waits are all bounded.
- A request of the page is answered or fails, and an EventSource notices a broken
  connection: both are what the browser promises.
- A provider that keeps being asked is not refused for ever (strong fairness of
  `Call`, of a success of a healthy service); the properties that use it are about
  this code and not about the provider.
- Scores by the saved mode and operations of the routed engine keep being asked for
  (strong fairness of `Gate` for these two); nobody is assumed to force a mode.
- Nothing is assumed of users, of new work, or of crashes.

## 4. What is proved

TLAPS checks the theorems for every value of the constants, under the
assumptions named in the modules (`PolicyAssumption`, `RunnerAssumption`,
`BreakerAssumption`, `QueueAssumption`, `ApplyAssumption`, `LiveAssumption`,
`BlobAssumption`, `WaitAssumption`, `BrokerAssumption`, `WindowAssumption`,
`PanelAssumption`, `BoardAssumption`, `ShellAssumption`, `OutreachAssumption`):
bounds are natural numbers, limits of the code are positive (the page size of the
board among them), `None` is no run, operations and saves are numbered, and the
like.  TLC evaluates them in the runs.  Theorems about a part of an `MC*` module are
about the part's own specification (`Window!Spec`, `Panel!Spec`, `Shell!Spec`,
`Pacing!Spec`, `Reach!Spec`, `Board!Spec`).

- `OperationRunnerProofs`: `TypeCorrect`, `InductiveInvariant`, `Exclusion`,
  `AtMostOnce`, `RunningIsOwned`, `NoLostWakeup`, `ClicksHaveThreads`,
  `RunnerImplementsLedger`, `StopsStay`.
  Neither exclusion nor single calls are inductive.  `IInv` adds that the queue
  order is total (the greedy pick is only consistent then: of two clashing rows
  picked in one pass, the later one was judged with the earlier one running), that
  a worker's stage fixes its row and its call count, and that nothing in memory
  outlives the process.  `RunningIsOwned` needs, while no commit has failed, that a
  worker past its call has written the row it is about to pop: otherwise the pop
  would orphan it.
  `NoLostWakeup` proves `NothingStranded` *under the hypothesis that the queue fits
  one pass* (`Cardinality(Queued) <= ScanLimit`, 200 in the code).  The invariant is
  that whenever a row could start somebody still owes a pump.  A pump leaves nothing
  that it could have started: were a queued row still admitted after the greedy
  pick, the row would have been picked; and what a step in between makes startable
  (a pop, a settings change, a submit) owes the pump itself.
  `ClicksHaveThreads` counts: what each lane holds is within its width, the scoring
  lane within the ceiling `fit_to_pool` left it, so a lane with room is a thread
  free.  `ModeKept` is needed, and the finding below is what happens without it.
  `RunnerImplementsLedger` is the step simulation: initial states map to initial
  states, every action of the runner to an action of the ledger or to a stutter,
  with `IInv` and the ownership of running rows to rule the other mappings out; it
  is stated *while no commit fails*, as is the promise.
- `ServiceProofs`, first the circuit breaker: `TypeCorrect`, `NeverWedged`,
  `OwnOperationsClose`.  `IInv` adds that a worker's lease is for the service it was gated by and gone with its
  operation, and that a circuit is open exactly from the threshold on; then each way
  out of the worker body either hands the lease back or closes the circuit.
  `OwnOperationsClose` needs besides that until a mode switch a worker calls the
  service it was gated by or nobody; that it may be nobody is a finding (section 5).
- `ServiceProofs`, then outreach: `LedgerStaysTrue`, `PausesOutlive`,
  `BatchesAreAccounted`, `BoardIsKept`.  The ledger's invariant (`PacingInv`) gives
  each charge of a kind of message to one thing: a message that went out and was not
  answered as unsent (`SendsCharged`), a page
  action of that kind that waits on the surface's queue (a cardinality; the action
  may be one nobody waits for any more), or a refund on its way (`Owed`).  For the
  reads it bounds what a discovery and a sweep together may still add by what each
  saw when it loaded the ledger; `ReadOvershootBounded` alone is not inductive.  A
  throttle is on disk, or on its way there in an answer that somebody waits for.
  All of it rests on `LanesAreApart`: one operation per lane, with one page action.
  `PausesOutlive` needs no invariant: it is a case analysis of who writes the file.
  `BatchesAreAccounted` holds for any number of request threads.  Its invariant says
  that of two sends of a contact under way each that was not seen by the other's
  request belongs to a request that was under way when the other read (`beside`), that
  a click with sends still to enqueue has seen every send in flight or stood beside
  its request, and that a log row is written only by a send that has begun and is at
  its end.  The board's invariant (`BoardInv`) says in what
  the sweep's old snapshot is still true: of every contact, that it had replied; of a
  held one, that it is only shown; of a quiet one, its column and whatever was read
  of it; and that only who is connected has a thread.
- `ScoreQueueProofs`: `TypeCorrect`, `AIScoreStays`, `AttemptsAreSpent`,
  `DuplicatesAreBounded`, `PlannersScoreOnce`.  `AIScoreStays` needs only the type of
  the job rows, because every writer of a method looks at it in the same step.  For
  `AttemptsAreSpent` a Stop is counted when it is pressed, but its attempt is spent
  when the operation polls its token: the invariant carries the number of Stops
  still outstanding for each job, a cardinality each action moves by at most one,
  and that a queued operation never carries a Stop.  For `DuplicatesAreBounded` the
  invariant (`Owned`) says, for each planner and job, that the operations of that
  planner alive are none or one, and that a planner which is about to enqueue the job
  has none: it has seen that its last one was over.  Others' operations do not enter,
  so neither theorem assumes anything of the other planners or of Rescore.
  `PlannersScoreOnce` follows one planner's rating from the call through the row to
  the statistics: once an operation of the planner has rated the job, the job's method
  is `llm` for good (`AIScoreStays`), so a planner that reads the jobs later leaves it
  out, and one that read them before had its operation alive and left it out for that.
- `ApplyRunProofs`: `TypeCorrect`, `CardIsApplied`, `OneClickPerRequest`,
  `RunsAreOwned`, `LedgerTellsTheRun`.  `CardIsApplied` needs to know that a worker
  about to write `submitted` has read a row whose writer moved the card, or will
  move it in the same transaction.  `OneClickPerRequest` counts a request as owed
  from its acceptance until its click, also after it left the control.
  `RunsAreOwned` ties together the start handler that holds a new run, the
  operation's row and the worker's stage; the one way an active run loses its owner
  is the refusal before adoption (section 5).  `LedgerTellsTheRun` comes out of the
  same invariant: what a worker returns fits what it wrote to the run.
- `LiveQueriesProofs`: `TypeCorrect`, `InductiveInvariant`, `NothingForgotten`.
  A change that a list does not show is at every moment in one place on its way:
  committed and unpublished, in the hub's queue, in the trailing call of the
  throttle, in the refetch that follows the reopening of the stream, in a request
  in flight that will be answered after it, or counted as owed.  The invariant says
  so for idle, sent and answered requests separately, and that a stream which is
  not subscribed has its `reconnecting -> live` transition still to come.
- `PreferenceBlobProofs`: `TypeCorrect`, `NoFieldLost`, `CapReachesRunner`, of the
  LinkedIn panel `PanelTellsTheLane`, and of the job board `BoardShowsTheFeed`.  The first speak of the time before a
  column was written back over a newer one (`stale`, `adrift`); the invariant says
  that until then what a save read is what it overwrites, that saves read and commit
  in the order the user made them, and that the latest one whose handler has
  finished is the one whose cap the runner has.  The panel's invariant (`PanelInv`)
  is about the order of an operation's events on their way: what is unsaid, on the
  wire and heard adds up to the row, in that order, as long as nothing was missed;
  so an operation that ended and is still shown has its end in flight, one that works
  and is not shown its start or a ledger answer, and a refusal is told before the end
  it belongs to.
  `ListIsFeed` speaks only of a list at rest, so the board's invariant (`FeedInv`)
  has to say what the list is while saves are open: it shows the feed's rows at
  places that ascend and skips none but those being saved (`Fits`), and its total
  is short of the feed's by the saved rows still in it.  A save and its commit keep
  that one after the other (`FitsSave`, `FitsCommit`), and with no save open the only
  such list is the top of the feed (`FitsExactly`).  What a fetch has read is the
  feed's pages (`ReadIsFeed`) as long as no hint or Trash answer is owed, because
  either of those drops the fetch.  The list is the concatenation of its pages
  (`FlattenSeq`, a recursive function), so the lemmas about it are inductions over
  the pages: `SequencesGrow` gives induction for a *set* of sequences, by a shortest
  counterexample (`WFMin`), and that the recursive function exists at all is proved
  from its finite parts (`PartsExist`).
- `RunWaitProofs`: `OneRunEach`, `NobodySpends`, and of the shell
  `SupervisorKeepsOne`.  The first attempt finds no run; a retry finds at most the
  run the first one made, with the sidecar named by both halves of the pair it was
  sent with; a retry is sent with another pair, and a sidecar serves only requests
  that carry both its port and its token.  `NobodySpends` needs that whoever ends a
  wait has read the run's end, asked for its cancel and had it answered, or met an
  error (`cut`), through every retry on the way.  The shell's invariant (`ShellInv`)
  says that of the sidecars of this start only the supervisor's child is alive, that
  the supervisor runs only beside a shell that is up, and that a child that boots
  while it is polled has had its grace; the theorem also has the action property,
  that nothing but a fault, the end of a quit or a supervisor past the grace kills a
  sidecar that boots.
- `BrowserBrokerProofs`: `TypeCorrect`, `InductiveInvariant`, `ProfilesAreSingle`,
  `CrashedNeverHandedOut`, `ReaperIsSafe`, and of the Applier's window
  `WindowKeepsWhole`.  That two Chromes never meet rests on who may let go of a
  profile: a surface is listed under its own slug only; a surface that left the map
  without its slug being `loose` is in the hand of one actor who holds that slug's
  lifecycle lock until the join; a surface is new only while its maker holds the
  lock.  `ReaperIsSafe` adds that a surface handed out is stamped (not `aged`) or has
  a command counted, and that both looks of `reap_idle` read that under the map lock;
  the same invariant fails for `_make_room`, which reads only whether there is an
  idle time (section 5).  The window's invariant (`WindowInv`) says that a Chrome
  that is up without `_context` is one that is being taken apart under the tab lock,
  that a launch holds the lock and a new directory, that a page is referred to once
  (a run's tab, the spare, or in the hands of the run that opens or leaves it), and
  that the pages of a window that is being attached to are nobody's yet.

Only model-checked:

- liveness (`QueuedIsSettled` in `AcceptedIsHonoured`, `HealthyProviderResumes`,
  `EveryJobServed`, `TakenUpRunEnds`, `EndsLive`, `IdleIsReclaimed`,
  `IdleWindowCloses`, `DeathIsSettled`): fairness and ENABLED are out of the
  prover's reach.

## 5. Where the code and its comments disagree

With a run of its own, which finds the violation:

- the sweep overwrites a drag made while it probes (`sync_manual`);
- two Send now that overlap both read a contact as free and both enqueue it, on two
  threads of FastAPI's pool (`double_send`).

With a property that its module defines and no run checks, because the code does not
keep it; listed as an INVARIANT or PROPERTY of the named run, with the change of
instance given, TLC shows the counterexample:

- a score of a posting under `MIN_JD_CHARS` is turned into a keyword score after the
  runner has gated it (`operations.py:449`), and an apply run may be blocked before
  its first call; either is recorded as a success of a service that nobody asked
  (`runner.py:391`) and closes its half-open circuit (`ClosedByItsAnswer`; `provider`);
- `_send_dm_via_ui` answers "not sent" for any Playwright error, also one raised after
  its Send click (`actions.py:871`), and `send_dm` gives the charge of that message
  back as that of "a proven no-send" (`worker.py:644`; `SendsWithinCap` as
  `Pacing!SendsWithinCap`, `outreach`);
- after a live switch of the queue mode the scoring lane keeps what the other
  ceiling admitted, and a click finds no thread (`ClickAlwaysHasThread`;
  `runner_dispatch` with Ops = {"sc", "s1", "s2", "su"}, 3 threads and one boot);
- the ledger read of the queue panel puts an operation back that has ended
  (`NoGhostRow`; `page`);
- `_make_room` closes a surface another caller has just been handed
  (`NobodyTakesFromHands`), a surface whose launch failed is handed out again
  (`DeadIsReplaced`), and two callers pass the cap together (`CapYieldsToUse`;
  `browser`, the first with three surfaces);
- a run that cannot open its tab leaves the Applier's window open for good
  (`EveryIdleWindowCloses`; `apply`), a timer set after an await closes it within the
  next run's grace (`GraceIsWhole`), and a pop-up becomes a run's tab (`TabIsOwn`;
  `browser`, with two acts of the user);
- a quit during a respawn leaves the new sidecar to its watchdog
  (`QuitLeavesNothing`), a quit never lets the sidecar drain, because the first thing
  a draining server gives up is the socket the quit polls (`QuitLetsDrain`), and the
  quit overwrites `gave_up` by `clean`, so no boot ever starts degraded after runs
  that gave up and were closed by the user (`LoopDegrades`; `runwait`, the last with
  three boots and four sidecars);
- a page action that outlives its 45 s is heard by nobody, so a throttle enters no
  back-off (`ThrottleEntersBackoff` without its exception `deserted`) and the next
  send follows it without a gap (`SendsAreSpaced`, with a cap of 2); a discovery that
  fails half-way pays for nothing (`PageReadsCharged`), two lanes spend the same reads
  (`ViewCapHolds`), and reads go on during a back-off that began after they were
  admitted or that they never look for (`BackoffBlocksAll`; `outreach`);
- a batch whose last send is cancelled is never settled (`SettledBatchMoves`), and
  Playwright's own errors, the failures of `page.goto` among them, pass the clause
  that is to catch every exception, so the attempt has no log row
  (`AttemptsAreLogged`; `outreach`);
- a send leaves a drag's stamp on the column it chose (`FrozenByHand`), and a thread
  that could not be read counts as one that is not there, which can ghost everybody
  who has written (`UnreadNeverGhosts`; `sync_manual`).

Behaviours of the code that the models show as well, each at the line PROJECT.json
names, without a run of their own.

- *Runner.*  An exclusive kind starves behind a fan-out that keeps two workers
  overlapping (`policy.py:196`).  A half-open circuit lets a second probe out when a
  straggler fails (`circuit.py:86`).
- *Scores.*  Two planners enqueue a job twice, and then it is paid for twice
  (`planner.py:61`; `OnePerPlanner` and `ScoredOnce` are what remains true of each).  A Stop before the first completion spends an attempt.
- *Apply.*  An operation refused before adoption leaves its run queued until the
  next restart.  `_finalize` overwrites an attest that commits between its read and
  its write.  Boot leaves a queued operation that was not linked to its run yet.
  Two overlapping starts create two runs of one card.
- *Live lists.*  A score, tailor or cover that is stopped ends as `cancelled`, which
  the bridge does not count as terminal, so its card is not read again.  Hints
  published before the first subscription, and hints a full queue dropped, are not
  made up for: `connecting -> live` re-reads nothing.  A handshake torn by a respawn
  locks the stream out (a 401 closes an EventSource after one error), and the
  transport keeps the pair.
- *Board.*  A save cancels a refetch that was to restore another row.  After a save
  the loaded pages are a row short of the server's offsets, so the next page skips
  a row and "Load more" never ends.
- *Settings.*  Whole columns are written back as they were read, so a save wipes out
  statistics, Brave calls and other saves that committed in between.  A save that
  carries `ui_state` moves the next scan a whole interval away.
- *Waits.*  A request committed before its sidecar died is sent again to the new
  one, and the queued row of the first survives: two runs, one of them watched by
  nobody.  A poll or cancel that fails leaves its run going.

These behaviours are in the models as they are in the code; the properties that
hold there hold in spite of them, or name them as exceptions.

### Premises, and what is not claimed

- `ClickHasThread` holds until the queue mode is switched (`ModeKept`): a switch
  with the scoring lane full makes `fit_to_pool` reserve for a lane that is already
  over its cap.
- `NothingStranded` and `RunningRowsOwned` are stated while no commit has failed.
  A failed claim leaves its entry in `_running` (`runner.py:264-271`), and that
  place is lost until the next restart.
- A pass reads `DISPATCH_SCAN_LIMIT` rows.  The instances keep the queue inside the
  window, and `NoLostWakeup` has that as its hypothesis: with more unstartable rows
  ahead of it a startable one waits.
- `ClosedByItsOperation` is stated until the scoring mode is switched: an operation
  gated for one service and run against another settles the wrong circuit.  It admits
  operations that asked nobody; that these should not close a circuit is
  `ClosedByItsAnswer`, which the code breaks.
- `ScoredOnce` is about each planner by itself, whatever the others do: two planners,
  or a planner and a Rescore, that overlap on a job may each pay for it and each feed
  the statistics (`repos.py:809` reads before the write lock).
- `ActiveRunOwned` has the exception it names.
- `ViewsAccounted` and `CaughtUp` except a key that is `owed`: a change announced to
  nobody, dropped by a full queue, or announced as `cancelled`.
- `BusyIsTrue`, `LaneIsListed` and `DoneMeansSent` are stated while no event was
  `missed`; the first also while no event overtook another of its operation.
- `ListIsFeed` is stated until the list was `disturbed`, in one of the three ways
  its comment lists, and again after the next undisturbed refetch.
- `FieldsKept` and `RunnerHasSavedCap` are stated until a column was written back
  over a newer one (`stale`) or the cap went astray (`adrift`).
- `NobodySpendsUnwatched` excepts a wait in which a request failed (`cut`), and
  speaks of the run that is waited for, not of one left in an earlier queue.
- `OneChromePerProfile` excepts a profile whose Chrome was let go before its end: a
  join that timed out, or the broker's own shutdown, which joins without the
  lifecycle locks.  The headed login opens a Chromium of its own on the profile of
  a slug and is not seen by the broker; it is not modelled.
- `IdleWindowCloses` excepts a window left by a failed `open_tab`.
- The failure window of the supervisor may pass between any two failures: three
  starts that each use up the grace are each the first of a new window, so nothing
  is claimed about the supervisor giving up in the end.
- `SendsCharged`, the part of `LedgerIsTrue` about messages, leaves out those that went
  out and were answered as not sent (`astray`); `SendsWithinCap` counts them too and
  is broken.  An action whose outcome is unknown may or may not have been a message.
  A crash resets `throttled`: a throttle the process did not
  live to save is forgotten.
- `ThrottleEntersBackoff` and `SweepReadsCharged` except operations that gave up on
  a page action which outlasted its wait (`deserted`).
- `BatchIsAccounted` admits two sends of a contact by requests that overlapped
  (`OnlyOverlapDoubles`), and by no others.  `LoggedBatchMoves` speaks of
  batches every send of which has its log row: a cancel, a death or an error that
  escapes leaves a send without one, and then the batch is never settled.
- `ReplyIsSeen` is about a sweep that nothing crossed and that read the thread.
- Cards dragged by hand or deleted under a run are not modelled.

## 6. Not modelled

- *Data and presentation.*  Nearly half of the TypeScript of the repository is
  locale tables (`frontend/src/i18n/locales`), and much of the rest is the
  generated API schema, vendored page code of the form filler
  (`packages/jobapplier/upstream/domUtils.js`), component markup and layout.  None
  of it has a state that several steps could bring into disorder.  The protocols
  of the frontend, as far as they are in `api/` and `surfaces/`, are modelled; the
  share of TypeScript lines the models stand for is small for that reason, and
  most of what is modelled is Python.
- *Third-party formats and model output.*  Scraper adapters, prompts, parsers,
  document conversion, the form-filling decisions: `ApplyRun` takes the outcomes of
  a fill as a choice.
- *Single-step code.*  Security middleware, logging, redaction, plain reads and
  edits of one row.
- *Outreach.*  The note, search and job-search meters, the clock of the ledger
  (charges rolling off, the end of a pause, the gap between sends), drafts, the
  unpaid profile read of a DM, the round-robin of a sweep's batch.
- *Planned* (section 7): job ingestion, the completion retry; the Applier window's
  shutdown with the process.

## 7. Plan

Done: `DispatchPolicy`, `OperationRunner` refining `OperationLedger`,
`CircuitBreaker`, `ScoreQueue`, `ApplyRun`, `LiveQueries`, `PreferenceBlob`,
`RunWait`, `BrowserOpFeed`, `BoardFeed`, `BrowserBroker`, `ApplierWindow`,
`SidecarSupervisor`, `PacingLedger`, `ReachOut`, `ContactSync`.  Next, most
important first:

1. `JobIngestion`: the identity of one job over several boards, archive and trash
   beside a scan that finds it again.
2. `CompletionRetry`; the note and search meters of `PacingLedger`.

Theorems to come: those of the two modules above.  Of the runs as they are, every
safety property is stated by a theorem.
