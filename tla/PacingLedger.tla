------------------------------ MODULE PacingLedger ------------------------------
(* The account's pacing (packages/referral_outreach/upstream: pacing.py,       *)
(* worker.py, session.py): the ledger file the LinkedIn operations share, the  *)
(* Pacer each of them loads and merges back, and the one browser lane their    *)
(* page actions queue on.  The lanes send, discover and contact_sync run side  *)
(* by side, one operation each.  One accounting window: charges do not roll    *)
(* off and a pause does not expire by itself.                                  *)
EXTENDS Integers, Sequences, FiniteSetsExt

CONSTANTS
  Sent,       \* the messages the user sends: invites, dms or both
  SendCap, ViewCap,  \* the effective caps of the window
  Page,       \* candidates on a page of discovery
  MaxProbes,  \* BATCH_LIMIT: full probes of one sweep
  MaxQueue,   \* bound: actions on the surface's lane
  MaxDue      \* bound: unpaid reads are counted up to here

Lane  == {"send", "discover", "sync"}
Meter == Sent \cup {"views"}
Cap   == [m \in Meter |-> IF m = "views" THEN ViewCap ELSE SendCap]

VARIABLES
  disk,      \* pacing_state.json: the charges of each meter, and whether paused_until is ahead
  op,        \* per lane: where its operation stands, its Pacer, what a sweep still has to probe
  queue,     \* the surface's commands; the head may have begun
  clicked,   \* history: messages of each kind that went out, but for those of `astray`
  astray,    \* history: kinds of which a message went out that was answered as not sent
  throttled, \* history: LinkedIn said stop, and nobody resumed or restarted since
  due,       \* history: per lane, profile reads made and not on the ledger
  deserted   \* history: an operation gave up waiting for its page action since the last crash

vars == <<disk, op, queue, clicked, astray, throttled, due, deserted>>

Nothing == [m \in Meter |-> 0]
Clean   == [used |-> Nothing, paused |-> FALSE]

(* Pacer.__init__                                                            *)
Loaded == [seen |-> disk, pending |-> Nothing, mine |-> Nothing, refunds |-> Nothing, pause |-> FALSE]

Blank == [seen |-> Clean, pending |-> Nothing, mine |-> Nothing, refunds |-> Nothing, pause |-> FALSE]
Idle  == [pc |-> "idle", pacer |-> Blank, left |-> 0, kind |-> "none", answer |-> "none", count |-> 0]

Job(l, kind, limit) == [lane |-> l, kind |-> kind, limit |-> limit, live |-> TRUE, out |-> "todo", count |-> 0]

TypeOK ==
  /\ disk \in [used : [Meter -> Nat], paused : BOOLEAN]
  /\ DOMAIN op = Lane
  /\ \A l \in Lane :
       /\ op[l].pc \in {"idle", "gap", "browser", "answered"}
       /\ op[l].pacer.seen \in [used : [Meter -> Nat], paused : BOOLEAN]
       /\ {op[l].pacer.pending, op[l].pacer.mine, op[l].pacer.refunds} \subseteq [Meter -> Nat]
       /\ op[l].left \in 0 .. MaxProbes
       /\ op[l].pc = "browser" => \E i \in DOMAIN queue : queue[i].lane = l /\ queue[i].live
  /\ \A i \in DOMAIN queue : i > 1 => queue[i].out = "todo"
  /\ clicked \in [Sent -> Nat] /\ throttled \in BOOLEAN /\ due \in [Lane -> 0 .. MaxDue]
  /\ astray \subseteq Sent /\ deserted \in BOOLEAN

Init ==
  /\ disk = Clean /\ op = [l \in Lane |-> Idle] /\ queue = <<>>
  /\ clicked = [m \in Sent |-> 0] /\ throttled = FALSE /\ due = [l \in Lane |-> 0]
  /\ astray = {} /\ deserted = FALSE

-----------------------------------------------------------------------------
(* Pacer                                                                     *)

(* check                                                                     *)
Allows(d, m) == ~d.paused /\ d.used[m] < Cap[m]

Record(p, m, n) == [p EXCEPT !.seen.used[m] = @ + n, !.pending[m] = @ + n, !.mine[m] = @ + n]

Refund(p, m) ==
  IF p.mine[m] = 0 THEN p
  ELSE LET q == [p EXCEPT !.mine[m] = @ - 1, !.seen.used[m] = @ - 1]
       IN IF p.pending[m] > 0 THEN [q EXCEPT !.pending[m] = @ - 1] ELSE [q EXCEPT !.refunds[m] = @ + 1]

PauseForBackoff(p) == [p EXCEPT !.seen.paused = TRUE, !.pause = TRUE]

(* Mutant: the file is written from the pacer's own view of it.              *)
Overwritten(p) == [used |-> p.seen.used, paused |-> disk.paused \/ p.pause]

(* Mutant: the pause on disk is replaced by what the pacer loaded.           *)
Unpaused(p) ==
  [used |-> [m \in Meter |-> disk.used[m] + p.pending[m] - p.refunds[m]], paused |-> p.seen.paused]

(* save: merged into the file as it is now, under the ledger's lock.         *)
Merged(p) ==
  [used |-> [m \in Meter |-> disk.used[m] + p.pending[m] - p.refunds[m]], paused |-> disk.paused \/ p.pause]

Saved(p) == [p EXCEPT !.seen = Merged(p), !.pending = Nothing, !.refunds = Nothing, !.pause = FALSE]

(* _paced_session's way out: the ledger, and then the session is detached.    *)
Leave(l, p) ==
  /\ disk' = Merged(p)
  /\ op' = [op EXCEPT ![l] = Idle]
  /\ due' = [due EXCEPT ![l] = IF @ > p.pending["views"] THEN @ - p.pending["views"] ELSE 0]

(* run_browser: the action goes on the surface's lane, and the thread waits.  *)
Submit(l, p, left, kind, limit) ==
  /\ Len(queue) < MaxQueue
  /\ queue' = Append(queue, Job(l, kind, limit))
  /\ op' = [op EXCEPT ![l] = [pc |-> "browser", pacer |-> p, left |-> left, kind |-> kind,
                              answer |-> "none", count |-> 0]]

-----------------------------------------------------------------------------
(* send_connection, send_dm: the gate, the gap since the last send, the charge. *)
(* A refused operation changes nothing.                                      *)
Reach(m) ==
  /\ op["send"].pc = "idle" /\ Allows(disk, m)
  /\ op' = [op EXCEPT !["send"] = [Idle EXCEPT !.pc = "gap", !.pacer = Loaded, !.kind = m]]
  /\ UNCHANGED <<disk, queue, clicked, astray, throttled, due, deserted>>

Charge ==
  /\ op["send"].pc = "gap"
  /\ LET p == Record(op["send"].pacer, op["send"].kind, 1) IN
       /\ disk' = Merged(p)
       /\ Submit("send", Saved(p), 0, op["send"].kind, 1)
  /\ UNCHANGED <<clicked, astray, throttled, due, deserted>>

(* discover: the page is cut to the reads the loaded ledger has left.        *)
Discover ==
  /\ op["discover"].pc = "idle" /\ Allows(disk, "views")
  /\ Submit("discover", Loaded, 0, "page", Min({Page, ViewCap - disk.used["views"]}))
  /\ UNCHANGED <<disk, clicked, astray, throttled, due, deserted>>

Attempt(p) == Record(p, "views", 1)

(* One turn of the loop over full_specs; without a place left it breaks.     *)
Probe(p, left) ==
  IF left > 0 /\ Allows(p.seen, "views")
  THEN Submit("sync", Attempt(p), left - 1, "probe", 1) /\ UNCHANGED <<disk, due>>
  ELSE Leave("sync", p) /\ UNCHANGED queue

(* contact_sync_states: with thread-only contacts nothing is checked up front. *)
Sweep(threads, probes) ==
  /\ op["sync"].pc = "idle"
  /\ IF threads THEN Submit("sync", Loaded, probes, "thread", 0) /\ UNCHANGED <<disk, due>>
     ELSE Allows(disk, "views") /\ probes > 0 /\ Probe(Loaded, probes)
  /\ UNCHANGED <<clicked, astray, throttled, deserted>>

-----------------------------------------------------------------------------
(* The surface's thread runs the head of its queue, whoever still waits for it. *)
(* A contact that cannot be read is passed over, like one that answered.      *)

Outcome(kind) ==
  CASE kind = "invites" -> {"done", "limit", "error"}
    [] kind = "dms"     -> {"done", "unsent", "throttled", "error"}
    [] kind = "page"    -> {"done", "throttled", "error"}
    [] OTHER            -> {"done", "throttled", "auth"}

(* What reaches LinkedIn.  An invite is verified and its limit dialog stands   *)
(* in place of it; nothing verifies a message, and _send_dm_via_ui answers     *)
(* "unsent" for any Playwright error, also one raised after its Send click.   *)
Clicks(kind, out) ==
  CASE kind = "invites" /\ out = "done"      -> {1}
    [] kind = "invites" /\ out = "error"     -> {0, 1}
    [] kind = "dms"     /\ out # "throttled" -> {0, 1}
    [] OTHER                                 -> {0}

Fetches(kind) == IF kind = "page" THEN 0 .. Page ELSE IF kind = "probe" THEN {1} ELSE {0}

Begin ==
  /\ queue # <<>> /\ Head(queue).out = "todo"
  /\ LET j == Head(queue) IN
     \E out \in Outcome(j.kind), n \in Fetches(j.kind) :
       \E click \in Clicks(j.kind, out), k \in 0 .. Min({n, j.limit}) :
         /\ out = "done" \/ k = 0
         /\ queue' = [queue EXCEPT ![1].out = out, ![1].count = k]
         /\ IF out = "unsent"
              THEN /\ astray' = IF click = 1 THEN astray \cup {j.kind} ELSE astray
                   /\ UNCHANGED clicked
              ELSE /\ clicked' = IF j.kind \in Sent THEN [clicked EXCEPT ![j.kind] = @ + click] ELSE clicked
                   /\ UNCHANGED astray
         /\ due' = [due EXCEPT ![j.lane] = Min({@ + n, MaxDue})]
         /\ throttled' = (throttled \/ out \in {"limit", "throttled"})
  /\ UNCHANGED <<disk, op, deserted>>

(* The future is resolved; nobody reads it when the wait was given up.       *)
Finish ==
  /\ queue # <<>> /\ Head(queue).out # "todo"
  /\ queue' = Tail(queue)
  /\ LET j == Head(queue) IN
       op' = IF j.live THEN [op EXCEPT ![j.lane].pc = "answered", ![j.lane].answer = j.out, ![j.lane].count = j.count]
             ELSE op
  /\ UNCHANGED <<disk, clicked, astray, throttled, due, deserted>>

-----------------------------------------------------------------------------
(* The operation's thread again                                              *)

(* An answer that nothing was sent gives the charge back, an error keeps it.  *)
Settle ==
  /\ op["send"].pc = "answered"
  /\ LET o == op["send"]
         p == IF o.answer \in {"limit", "unsent", "throttled"} THEN Refund(o.pacer, o.kind) ELSE o.pacer
     IN Leave("send", IF o.answer \in {"limit", "throttled"} THEN PauseForBackoff(p) ELSE p)
  /\ UNCHANGED <<queue, clicked, astray, throttled, deserted>>

(* Only a page that came back whole is charged.                              *)
Listed ==
  /\ op["discover"].pc = "answered"
  /\ LET o == op["discover"] IN
       Leave("discover", CASE o.answer = "done"      -> Record(o.pacer, "views", o.count)
                           [] o.answer = "throttled" -> PauseForBackoff(o.pacer)
                           [] OTHER                  -> o.pacer)
  /\ UNCHANGED <<queue, clicked, astray, throttled, deserted>>

Probed ==
  /\ op["sync"].pc = "answered"
  /\ LET o == op["sync"] IN
       CASE o.answer = "throttled" -> Leave("sync", PauseForBackoff(o.pacer)) /\ UNCHANGED queue
         [] o.answer = "auth"      -> Leave("sync", o.pacer) /\ UNCHANGED queue
         [] OTHER                  -> Probe(o.pacer, o.left)
  /\ UNCHANGED <<clicked, astray, throttled, deserted>>

(* result(timeout=45) raises; no operation catches it, and the action stays on *)
(* the lane.                                                                 *)
GiveUp(l) ==
  /\ op[l].pc = "browser"
  /\ Leave(l, op[l].pacer)
  /\ queue' = [i \in DOMAIN queue |-> IF queue[i].lane = l THEN [queue[i] EXCEPT !.live = FALSE] ELSE queue[i]]
  /\ deserted' = TRUE
  /\ UNCHANGED <<clicked, astray, throttled>>

(* resume                                                                    *)
Resume ==
  /\ disk.paused
  /\ disk' = [disk EXCEPT !.paused = FALSE] /\ throttled' = FALSE
  /\ UNCHANGED <<op, queue, clicked, astray, due, deserted>>

(* The sidecar dies: only the file is left.                                  *)
Crash ==
  /\ op' = [l \in Lane |-> Idle] /\ queue' = <<>>
  /\ throttled' = FALSE /\ due' = [l \in Lane |-> 0] /\ deserted' = FALSE
  /\ UNCHANGED <<disk, clicked, astray>>

Next ==
  \/ \E m \in Sent : Reach(m)
  \/ Charge \/ Settle
  \/ Discover \/ Listed
  \/ \E threads \in BOOLEAN, probes \in 0 .. MaxProbes : Sweep(threads, probes)
  \/ Probed
  \/ Begin \/ Finish
  \/ \E l \in Lane : GiveUp(l)
  \/ Resume \/ Crash

Spec == Init /\ [][Next]_vars

-----------------------------------------------------------------------------
(* Properties                                                                *)

(* No message goes out that the ledger does not show, so the caps bound what  *)
(* reached LinkedIn: a charge is given back for "a proven no-send" alone       *)
(* (worker.py:645).  Not true of the code: an "unsent" proves nothing.        *)
SendsWithinCap ==
  \A m \in Sent : clicked[m] + (IF m \in astray THEN 1 ELSE 0) <= disk.used[m] /\ disk.used[m] <= Cap[m]

(* No message goes out that the ledger does not show but one that was answered *)
(* as not sent, whatever other lanes save in between, however a send ends and *)
(* wherever the process dies (record's "charge on ATTEMPT", save's merge,     *)
(* refund's "only charges we made ourselves").                               *)
SendsCharged == \A m \in Sent : clicked[m] <= disk.used[m] /\ disk.used[m] <= Cap[m]

(* A discovery and a sweep that loaded the same ledger may both spend what it *)
(* had left, but no third operation can: the overshoot is one window.        *)
ReadOvershootBounded == disk.used["views"] <= 2 * ViewCap

(* A pause on the ledger goes away by the user's resume alone, never by the   *)
(* save of an operation that loaded the ledger before it.                    *)
PauseOutlivesOthers == [][disk.paused /\ ~disk'.paused => op' = op /\ throttled' = FALSE]_vars

AtRest == queue = <<>> /\ \A l \in Lane : op[l].pc = "idle"

(* When LinkedIn said stop and the operations are over, the pause is on disk, *)
(* as long as each of them waited for its page action (run_browser's 45 s).   *)
ThrottleEntersBackoff == AtRest /\ throttled => disk.paused \/ deserted

(* Every profile read of a sweep is then on the ledger once the sweep is over, *)
(* however else it ended.                                                    *)
SweepReadsCharged == op["sync"].pc = "idle" => due["sync"] = 0 \/ deserted

(* The same of a discovery.                                                  *)
PageReadsCharged == op["discover"].pc = "idle" => due["discover"] = 0

(* The day's reads stay within their cap.                                    *)
ViewCapHolds == disk.used["views"] <= ViewCap

(* Nothing is begun on LinkedIn while the pause is on disk.                  *)
Begins == queue # <<>> /\ Head(queue).out = "todo" /\ queue' # <<>> /\ Head(queue').out # "todo"
BackoffBlocksAll == [][disk.paused => ~Begins]_vars

(* Two sends are never on the surface's lane together: nothing there spaces   *)
(* them.                                                                     *)
SendsAreSpaced == \A i, j \in DOMAIN queue : queue[i].lane = "send" /\ queue[j].lane = "send" => i = j
=============================================================================
