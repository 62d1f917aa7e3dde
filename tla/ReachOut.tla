-------------------------------- MODULE ReachOut --------------------------------
(* Reaching out about one job (app/api/networking.py, app/registry/            *)
(* networker_ops.py): requests that enqueue one send per picked contact, the   *)
(* single-flight lane that runs them, the outreach log, and the job's card,    *)
(* which moves when a batch settles.                                           *)
EXTENDS Integers, Sequences

CONSTANTS
  Contacts,
  Threads,    \* request threads a Send now can run on
  MaxClicks   \* bound: how often the user clicks Send now

VARIABLES
  request,  \* per thread: the contacts left to enqueue, those seen in flight, its batch,
            \* and, history, the batches whose requests were under way when it read
  sends,    \* the operation rows, oldest first
  lane,     \* the running one, and how far its entrypoint is
  log,      \* OutreachLog: the outcome per operation
  tried,    \* history: operations that drove the browser
  card,     \* the application's column
  clicks

vars == <<request, sends, lane, log, tried, card, clicks>>

None   == 0
Quiet  == [todo |-> {}, inflight |-> {}, batch |-> 0, beside |-> {}]
Active == {"queued", "running"}

TypeOK ==
  /\ request \in [Threads -> [todo : SUBSET Contacts, inflight : SUBSET Contacts, batch : 0 .. MaxClicks,
                             beside : SUBSET (1 .. MaxClicks)]]
  /\ \A i \in DOMAIN sends : /\ sends[i].contact \in Contacts /\ sends[i].batch \in 1 .. MaxClicks
                             /\ sends[i].beside \subseteq 1 .. MaxClicks
                             /\ sends[i].state \in Active \cup {"done", "failed", "cancelled"}
                             /\ sends[i].state = "running" <=> lane.op = i
  /\ lane.op \in {None} \cup DOMAIN sends /\ lane.at \in {"none", "browser", "sent", "unsent", "raised", "escaped", "recorded", "blamed"}
  /\ DOMAIN log = DOMAIN sends /\ \A i \in DOMAIN log : log[i] \in {"none", "sent", "failed"}
  /\ tried \subseteq DOMAIN sends
  /\ card \in {"saved", "seeking_referral"} /\ clicks \in 0 .. MaxClicks

Init ==
  /\ request = [t \in Threads |-> Quiet]
  /\ sends = <<>> /\ lane = [op |-> None, at |-> "none"] /\ log = <<>>
  /\ tried = {} /\ card = "saved" /\ clicks = 0

-----------------------------------------------------------------------------
(* reach_out: what is in flight is read in one session; the sends are          *)
(* submitted one by one after it has closed.                                 *)

(* Mutant: only a queued send counts as in flight.                           *)
QueuedOnly(s) == {s[i].contact : i \in {j \in DOMAIN s : s[j].state = "queued"}}

InFlight(s) == {s[i].contact : i \in {j \in DOMAIN s : s[j].state \in Active}}

Click(t, picked) ==
  /\ request[t].todo = {} /\ clicks < MaxClicks
  /\ clicks' = clicks + 1
  /\ request' = [request EXCEPT ![t] = [todo |-> picked, inflight |-> InFlight(sends), batch |-> clicks + 1,
                                         beside |-> {request[u].batch : u \in {v \in Threads : request[v].todo # {}}}]]
  /\ UNCHANGED <<sends, lane, log, tried, card>>

Submit(t, c) ==
  /\ c \in request[t].todo
  /\ request' = [request EXCEPT ![t].todo = @ \ {c}, ![t].inflight = @ \cup {c}]
  /\ IF c \in request[t].inflight THEN UNCHANGED <<sends, log>>
     ELSE /\ sends' = Append(sends, [contact |-> c, batch |-> request[t].batch, beside |-> request[t].beside,
                                   state |-> "queued"])
          /\ log' = Append(log, "none")
  /\ UNCHANGED <<lane, tried, card, clicks>>

-----------------------------------------------------------------------------
(* The runner: one send at a time, in the order they were queued.            *)
Dispatch ==
  /\ lane.op = None
  /\ \E i \in DOMAIN sends :
       /\ sends[i].state = "queued" /\ \A j \in 1 .. i - 1 : sends[j].state # "queued"
       /\ sends' = [sends EXCEPT ![i].state = "running"]
       /\ lane' = [op |-> i, at |-> "browser"]
  /\ UNCHANGED <<request, log, tried, card, clicks>>

(* net_send: it reports a send or a refusal, or raises; whether the message    *)
(* went out is not known by it (PacingLedger).  A Playwright error is none of *)
(* the three kinds that the entrypoint catches.                              *)
Drive ==
  /\ lane.at = "browser"
  /\ \E out \in {"sent", "unsent", "raised", "escaped"} : lane' = [lane EXCEPT !.at = out]
  /\ tried' = tried \cup {lane.op}
  /\ UNCHANGED <<request, sends, log, card, clicks>>

Settled(i) == \A j \in DOMAIN sends \ {i} : sends[j].batch = sends[i].batch => sends[j].state \notin Active

(* _maybe_move_on_batch_settle, with the log as it then is.                  *)
Moved(i, rows) ==
  IF Settled(i) /\ \E j \in DOMAIN sends : sends[j].batch = sends[i].batch /\ rows[j] = "sent"
  THEN "seeking_referral" ELSE card

Logged(at) == IF at = "sent" THEN "sent" ELSE "failed"

(* The entrypoint's last session: the log row, the card.                     *)
Record ==
  /\ lane.at \in {"sent", "unsent", "raised"}
  /\ log' = [log EXCEPT ![lane.op] = Logged(lane.at)]
  /\ card' = Moved(lane.op, log')
  /\ lane' = [lane EXCEPT !.at = IF lane.at = "raised" THEN "blamed" ELSE "recorded"]
  /\ UNCHANGED <<request, sends, tried, clicks>>

(* The runner writes the row.                                                *)
Finish ==
  /\ lane.at \in {"recorded", "blamed", "escaped"}
  /\ sends' = [sends EXCEPT ![lane.op].state = IF lane.at = "recorded" THEN "done" ELSE "failed"]
  /\ lane' = [op |-> None, at |-> "none"]
  /\ UNCHANGED <<request, log, tried, card, clicks>>

(* cancel: a running send does not poll, so only a queued one is cancelled.  *)
Cancel(i) ==
  /\ sends[i].state = "queued"
  /\ sends' = [sends EXCEPT ![i].state = "cancelled"]
  /\ UNCHANGED <<request, lane, log, tried, card, clicks>>

(* The process dies and boots: recover() fails what was running.             *)
Crash ==
  /\ request' = [t \in Threads |-> Quiet]
  /\ sends' = [i \in DOMAIN sends |-> IF i = lane.op THEN [sends[i] EXCEPT !.state = "failed"] ELSE sends[i]]
  /\ lane' = [op |-> None, at |-> "none"]
  /\ UNCHANGED <<log, tried, card, clicks>>

Next ==
  \/ \E t \in Threads, picked \in SUBSET Contacts \ {{}} : Click(t, picked)
  \/ \E t \in Threads, c \in Contacts : Submit(t, c)
  \/ Dispatch \/ Drive \/ Record \/ Finish
  \/ \E i \in DOMAIN sends : Cancel(i)
  \/ Crash

Spec == Init /\ [][Next]_vars

-----------------------------------------------------------------------------
(* Properties                                                                *)

UnderWay(i, j) ==
  sends[i].state \in Active /\ sends[j].state \in Active /\ sends[i].contact = sends[j].contact

(* A contact never has two sends under way: reach_out calls its check "the     *)
(* authoritative duplicate backstop" (networking.py:391).  Not true of two     *)
(* requests that have both read before either has submitted.                 *)
OneSendPerContact == \A i, j \in DOMAIN sends : UnderWay(i, j) => i = j

(* Two sends of a contact are under way only by two requests of which one was  *)
(* not over when the other read what is in flight: clicks that come one after *)
(* the other never double a send, whatever is cancelled, fails or dies.       *)
OnlyOverlapDoubles ==
  \A i, j \in DOMAIN sends :
    UnderWay(i, j) /\ i # j => sends[i].batch \in sends[j].beside \/ sends[j].batch \in sends[i].beside

Over(i) == \A j \in DOMAIN sends : sends[j].batch = sends[i].batch => sends[j].state \notin Active

(* When every send of a batch is over, each has its row in the log and one    *)
(* landed, the card has moved, whichever ended last                          *)
(* (_maybe_move_on_batch_settle).                                            *)
LoggedBatchMoves ==
  \A i \in DOMAIN sends :
    /\ log[i] = "sent" /\ Over(i) /\ \A t \in Threads : request[t].todo = {}
    /\ \A j \in DOMAIN sends : sends[j].batch = sends[i].batch => log[j] # "none"
    => card = "seeking_referral"

(* The same although a send of the batch was cancelled before it ran.        *)
SettledBatchMoves ==
  \A i \in DOMAIN sends :
    /\ log[i] = "sent" /\ Over(i) /\ \A t \in Threads : request[t].todo = {}
    /\ \A j \in DOMAIN sends : sends[j].batch = sends[i].batch => log[j] # "none" \/ j \notin tried
    => card = "seeking_referral"

(* Every operation that drove the browser and is over has its row in the log, *)
(* also when the error is one that no clause names.                          *)
AttemptsAreLogged == \A i \in tried : sends[i].state \notin Active => log[i] # "none"
=============================================================================
