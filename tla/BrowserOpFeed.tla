---------------------------- MODULE BrowserOpFeed ----------------------------
(* What the frontend believes about the serialized LinkedIn lane: the queue  *)
(* panel (useBrowserOps, surfaces/BrowserOpPlan.tsx) and the Sync button      *)
(* (useContactSyncInFlight, api/queries.ts).  Both follow the operations'     *)
(* events and both read the ledger once in a while; neither is a query, so    *)
(* the blanket refetch after an outage does not reach them.                   *)
(*                                                                            *)
(* Operations are numbered in the order of their rows.                        *)
EXTENDS Integers, Sequences, FiniteSets

CONSTANTS
  Ops,       \* operations of BROWSER_LANE_KINDS, 1..N
  Syncs,     \* the contact_sync ones
  Sends,     \* the send ones
  MaxGaps,   \* bound: outages of the stream
  MaxReads,  \* bound: answers of the ledger on their way at once
  MaxWire    \* bound: events on their way at once

VARIABLES
  row,       \* operations.state; ended stands for the three terminal states
  unsaid,    \* events of each operation that are committed, not published
  routed,    \* sends whose worker has announced them
  refused,   \* sends whose driver reported send_failed
  wire,      \* events on their way to the page; None while the stream is down
  gaps,      \* outages so far
  missed,    \* history: an event was published to nobody, or a read failed
  overtaken, \* history: a queued event was published after its operation's end
  active, cur, settled, unsent,           \* useBrowserOps
  asked, answers,                         \* its ledger reads: one is out, answered
  onScreen, sync, seed                    \* the Networking surface and its Sync button

lane  == <<row, unsaid, routed, refused>>
hist  == <<missed, overtaken, gaps>>
panel == <<active, cur, settled, unsent, asked, answers>>
btn   == <<onScreen, sync, seed>>
vars  == <<row, unsaid, routed, refused, wire, gaps, missed, overtaken,
           active, cur, settled, unsent, asked, answers, onScreen, sync, seed>>

None == [id |-> 0, state |-> "none"]
Live == {"queued", "running"}
LiveOps == {o \in Ops : row[o] \in Live}
Oldest(S) == CHOOSE o \in S : \A p \in S : o <= p
Newest(S) == CHOOSE o \in S : \A p \in S : o >= p

(* The provider has mounted: subscribed, the seed read of enrich is sent.   *)
Init ==
  /\ row \in {f \in [Ops -> {"absent", "running"}] :
                /\ Cardinality({o \in Ops : f[o] = "running"}) <= 1
                /\ \A o, p \in Ops : f[o] = "running" /\ p < o => f[p] = "running"}
  /\ unsaid = [o \in Ops |-> <<>>]
  /\ routed = {} /\ refused = {}
  /\ wire = [up |-> TRUE, events |-> <<>>]
  /\ gaps = 0 /\ missed = FALSE /\ overtaken = FALSE
  /\ active = {} /\ cur = None
  /\ settled = [o \in Ops |-> "no"]
  /\ unsent = {}
  /\ asked = TRUE /\ answers = {}
  /\ onScreen = FALSE /\ sync = None
  /\ seed = [at |-> "none", live |-> {}]

-----------------------------------------------------------------------------
(* The lane (runner.py), and what it has to say                             *)

Say(o, what) == unsaid' = [unsaid EXCEPT ![o] = Append(@, [id |-> o, what |-> what])]

(* submit: the row is committed, the queued event follows outside the lock. *)
Submit(o) ==
  /\ row[o] = "absent"
  /\ \A p \in Ops : p < o => row[p] # "absent"
  /\ row' = [row EXCEPT ![o] = "queued"]
  /\ Say(o, "queued")
  /\ UNCHANGED <<routed, refused, wire, hist, panel, btn>>

(* A pump starts the oldest one; it publishes running before it hands over. *)
Start(o) ==
  /\ row[o] = "queued"
  /\ \A p \in Ops : row[p] # "running"
  /\ row' = [row EXCEPT ![o] = "running"]
  /\ Say(o, "running")
  /\ UNCHANGED <<routed, refused, wire, hist, panel, btn>>

HandedOver(o) ==
  row[o] = "running" /\ \A i \in DOMAIN unsaid[o] : unsaid[o][i].what # "running"

(* The worker of a send announces the routed channel, once.                 *)
ReportSending(o) ==
  /\ o \in Sends \ routed
  /\ HandedOver(o)
  /\ routed' = routed \cup {o}
  /\ Say(o, "sending")
  /\ UNCHANGED <<row, refused, wire, hist, panel, btn>>

(* Then it reports send_failed; the operation itself may still succeed.     *)
ReportRefusal(o) ==
  /\ o \in routed \ refused
  /\ HandedOver(o)
  /\ refused' = refused \cup {o}
  /\ Say(o, "refused")
  /\ UNCHANGED <<row, routed, wire, hist, panel, btn>>

(* The terminal row, of a running operation or of a queued one cancelled.   *)
Finish(o) ==
  /\ HandedOver(o) \/ row[o] = "queued"
  /\ row' = [row EXCEPT ![o] = "ended"]
  /\ Say(o, "ended")
  /\ UNCHANGED <<routed, refused, wire, hist, panel, btn>>

(* Two threads publish an operation's events: the one that submitted it the *)
(* queued event, the pump and the worker the others in their order.         *)
Publishable(o) ==
  {i \in DOMAIN unsaid[o] :
     unsaid[o][i].what = "queued" \/ \A j \in 1 .. i - 1 : unsaid[o][j].what = "queued"}

Publish(o) ==
  /\ Len(wire.events) < MaxWire
  /\ \E i \in Publishable(o) :
       LET ev == unsaid[o][i] IN
       /\ unsaid' = [unsaid EXCEPT ![o] = SubSeq(@, 1, i - 1) \o SubSeq(@, i + 1, Len(@))]
       /\ IF wire.up THEN wire' = [wire EXCEPT !.events = Append(@, ev)] /\ UNCHANGED missed
                     ELSE missed' = TRUE /\ UNCHANGED wire
       /\ overtaken' = (overtaken \/ (ev.what = "ended" /\ i > 1))
       /\ UNCHANGED <<row, routed, refused, gaps, panel, btn>>

(* The stream breaks with events on their way, and is live again later.     *)
Gap ==
  /\ wire.up
  /\ gaps < MaxGaps
  /\ gaps' = gaps + 1
  /\ missed' = (missed \/ wire.events # <<>>)
  /\ wire' = [up |-> FALSE, events |-> <<>>]
  /\ UNCHANGED <<lane, overtaken, panel, btn>>

Reopen ==
  /\ ~wire.up
  /\ wire' = [wire EXCEPT !.up = TRUE]
  /\ UNCHANGED <<lane, hist, panel, btn>>

-----------------------------------------------------------------------------
(* useBrowserOps                                                            *)

(* enrich is called again while the operation's label is not known.         *)
Enrich == asked' \in {asked, TRUE}

(* setOp: follow the current operation; a new one only once it has settled. *)
TakeOver(id, state) ==
  IF cur.id = id \/ cur.state \in {"none", "ended"} THEN [id |-> id, state |-> state] ELSE cur

(* Mutant: the outcome is read off the operation's state alone.             *)
OutcomeByState(o) == "done"

(* A send that succeeds after send_failed was not sent.                     *)
Outcome(o) == IF o \in unsent THEN "not_sent" ELSE "done"

PanelHears(ev) ==
  LET o == ev.id IN
  CASE ev.what \in Live ->
         /\ active' = active \cup {o}
         /\ cur' = TakeOver(o, ev.what)
         /\ Enrich
         /\ UNCHANGED <<settled, unsent>>
    [] ev.what = "ended" ->
         /\ active' = active \ {o}
         /\ settled' = [settled EXCEPT ![o] = Outcome(o)]
         /\ cur' = TakeOver(o, "ended")
         /\ Enrich
         /\ UNCHANGED unsent
    [] ev.what = "sending" ->
         /\ cur' = IF cur.id = o THEN cur ELSE [id |-> o, state |-> "running"]
         /\ UNCHANGED <<active, settled, unsent, asked>>
    [] OTHER ->
         /\ unsent' = unsent \cup {o}
         /\ UNCHANGED <<active, settled, cur, asked>>

(* The button's own subscription: the last event of any sync.               *)
ButtonHears(ev) ==
  IF onScreen /\ ev.id \in Syncs
    THEN sync' = [id |-> ev.id, state |-> ev.what] ELSE UNCHANGED sync

Hear ==
  /\ wire.events # <<>>
  /\ wire' = [wire EXCEPT !.events = Tail(@)]
  /\ PanelHears(Head(wire.events))
  /\ ButtonHears(Head(wire.events))
  /\ UNCHANGED <<lane, hist, answers, onScreen, seed>>

AnswerLedger ==
  /\ asked
  /\ Cardinality(answers) < MaxReads
  /\ asked' \in BOOLEAN                \* another one may be out
  /\ answers' = answers \cup {LiveOps}
  /\ UNCHANGED <<lane, wire, hist, active, cur, settled, unsent, btn>>

(* enrich's then: rows the ledger calls live are added, labels are data.   *)
Land(read) ==
  /\ read \in answers
  /\ answers' = answers \ {read}
  /\ active' = active \cup read
  /\ cur' = IF cur = None /\ read # {}
              THEN [id |-> Oldest(read), state |-> "running"] ELSE cur
  /\ UNCHANGED <<lane, wire, hist, settled, unsent, asked, btn>>

(* enrich's catch: the stream drives the panel alone.                       *)
LedgerFails ==
  /\ asked
  /\ asked' \in BOOLEAN
  /\ missed' = TRUE
  /\ UNCHANGED <<lane, wire, overtaken, gaps, active, cur, settled, unsent, answers, btn>>

-----------------------------------------------------------------------------
(* useContactSyncInFlight                                                   *)

Show ==
  /\ ~onScreen
  /\ onScreen' = TRUE
  /\ seed' = [at |-> "asked", live |-> {}]
  /\ UNCHANGED <<lane, wire, hist, panel, sync>>

(* Unmount: the state is gone, a seed still on its way is ignored.          *)
Leave ==
  /\ onScreen
  /\ onScreen' = FALSE
  /\ sync' = None
  /\ seed' = [at |-> "none", live |-> {}]
  /\ UNCHANGED <<lane, wire, hist, panel>>

AnswerSeed ==
  /\ seed.at = "asked"
  /\ seed' = [at |-> "answered", live |-> LiveOps \cap Syncs]
  /\ UNCHANGED <<lane, wire, hist, panel, onScreen, sync>>

(* Seed only when no event has spoken yet.                                  *)
LandSeed ==
  /\ seed.at = "answered"
  /\ sync' = IF sync = None /\ seed.live # {}
               THEN [id |-> Newest(seed.live), state |-> "running"] ELSE sync
  /\ seed' = [at |-> "none", live |-> {}]
  /\ UNCHANGED <<lane, wire, hist, panel, onScreen>>

-----------------------------------------------------------------------------
Next ==
  \/ \E o \in Ops : Submit(o) \/ Start(o) \/ ReportSending(o) \/ ReportRefusal(o) \/ Finish(o) \/ Publish(o)
  \/ Gap \/ Reopen
  \/ Hear \/ AnswerLedger \/ LedgerFails \/ \E read \in answers : Land(read)
  \/ Show \/ Leave \/ AnswerSeed \/ LandSeed

Spec == Init /\ [][Next]_vars

-----------------------------------------------------------------------------
(* Everything that was committed has been told, heard and read.             *)
Quiet ==
  /\ \A o \in Ops : unsaid[o] = <<>>
  /\ wire.up /\ wire.events = <<>>
  /\ ~asked /\ answers = {} /\ seed.at # "answered"

Busy(op) == op.state \in Live
Waiting == active \ {cur.id}      \* the rows listed behind the current one

(* The panel and the Sync button never stay busy over an operation that has *)
(* ended, wherever a stale ledger answer lands among the events: the Browser *)
(* tab would never go home and the button would pulse for the whole session. *)
(* Claimed as long as nothing was lost and no event overtook another.        *)
BusyIsTrue ==
  Quiet /\ ~missed /\ ~overtaken =>
    /\ Busy(cur) => row[cur.id] \in Live
    /\ Busy(sync) => row[sync.id] \in Live

(* What works on the lane is on the panel: an operation that was running     *)
(* before the page, that was submitted during the seed read, or that waits   *)
(* behind another one is listed, as long as no event and no read was lost.  *)
LaneIsListed ==
  Quiet /\ ~missed => \A o \in LiveOps : o \in Waiting \/ (cur.id = o /\ Busy(cur))

(* A send that the driver refused is never listed as done, unless the page   *)
(* was not told of the refusal.                                              *)
DoneMeansSent == ~missed => \A o \in refused : settled[o] # "done"

(* Events decide membership: when all is told, nothing that ended is listed *)
(* as waiting.                                                              *)
NoGhostRow == Quiet /\ ~missed /\ ~overtaken => Waiting \subseteq LiveOps
=============================================================================
