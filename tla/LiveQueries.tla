----------------------------- MODULE LiveQueries -----------------------------
(* How the frontend's cached lists follow the database: the sidecar commits  *)
(* and then publishes a hint (app/events.py), one EventSource carries hints  *)
(* to the page (api/events.ts), and useSSEInvalidation (api/queries.ts) turns *)
(* a hint into a throttled refetch.  Hints are never replayed, so what keeps  *)
(* a list true is the order of these steps, through restarts of the sidecar   *)
(* on a new port and token.                                                   *)
(*                                                                            *)
(* A key stands for a group of queries with one throttle, and ver[k] counts   *)
(* the commits that change its answer.                                        *)
EXTENDS Integers, Sequences, FiniteSets

CONSTANTS
  Keys,          \* groups of queries (board, packet, roster, ...)
  Outcomes,      \* the terminal states operations end in
  MaxWrites,     \* bound: commits per key
  MaxGen,        \* bound: generations of the sidecar; the last one does not die
  MaxMounts,     \* bound: how often a surface is opened
  QueueMax,      \* SUBSCRIBER_QUEUE_MAXSIZE
  RebuildAfter   \* REBUILD_AFTER_ERRORS

ASSUME LiveAssumption ==
  /\ MaxWrites \in Nat /\ MaxGen \in Nat \ {0} /\ MaxMounts \in Nat
  /\ QueueMax \in Nat \ {0}
  /\ RebuildAfter \in Nat \ {0}
  /\ Outcomes \subseteq {"succeeded", "cancelled"}

VARIABLES
  phase,     \* the sidecar: down, booting (handshake printed), up (listening)
  gen,       \* its generation: every spawn has a new port and a new token
  ver,       \* committed changes per key
  pend,      \* an operation of the key committed, its event not published yet
  queue,     \* the hub's queue of the one subscriber
  bus,       \* the EventBus
  thr,       \* the throttle of each key
  mounted,   \* keys whose query some surface observes
  fetch,     \* the query's request: idle, sent, or answered with a version
  view,      \* the version the cache shows, NoData before the first answer
  owed,      \* history: a change of the key was announced to nobody
  mounts     \* how often a surface was opened

shell   == <<phase, gen>>
page    == <<thr, mounted, fetch, view, mounts>>
vars    == <<phase, gen, ver, pend, queue, bus, thr, mounted, fetch, view, owed, mounts>>

Hint == [key : Keys, ended : Outcomes]
NoData == -1
Idle == [at |-> "idle", got |-> NoData]
Sent == [at |-> "sent", got |-> NoData]
Versions == 0 .. MaxWrites
Fetches == [at : {"idle", "sent"}, got : {NoData}] \cup [at : {"answered"}, got : Versions]
Parts == {"port", "token"}
Gens == 0 .. MaxGen

TypeOK ==
  /\ phase \in {"down", "booting", "up"}
  /\ gen \in Gens
  /\ ver \in [Keys -> Versions]
  /\ pend \in [Keys -> Outcomes \cup {"none"}]
  /\ queue \in Seq(Hint) /\ Len(queue) <= QueueMax
  /\ bus \in [state : {"connecting", "live", "reconnecting"},
              source : {"none", "connecting", "accepted", "open", "closed"},
              port : Gens, token : Gens, opening : SUBSET Parts,
              errors : 0 .. RebuildAfter - 1, timer : BOOLEAN]
  /\ thr \in [Keys -> {"cold", "hot", "trailing"}]
  /\ mounted \subseteq Keys
  /\ fetch \in [Keys -> Fetches]
  /\ view \in [Keys -> Versions \cup {NoData}]
  /\ owed \in [Keys -> BOOLEAN]
  /\ mounts \in 0 .. MaxMounts

Init ==
  /\ phase = "down" /\ gen = 0
  /\ ver = [k \in Keys |-> 0]
  /\ pend = [k \in Keys |-> "none"]
  /\ queue = <<>>
  /\ bus = [state |-> "connecting", source |-> "none", port |-> 0, token |-> 0,
            opening |-> Parts, errors |-> 0, timer |-> FALSE]
  /\ thr = [k \in Keys |-> "cold"]
  /\ mounted = {}
  /\ fetch = [k \in Keys |-> Idle]
  /\ view = [k \in Keys |-> NoData]
  /\ owed = [k \in Keys |-> FALSE]
  /\ mounts = 0

-----------------------------------------------------------------------------
(* The stream as the two ends see it                                        *)

(* The subscription the hub delivers to is the page's own.                  *)
Subscribed == phase = "up" /\ bus.source \in {"accepted", "open"} /\ bus.port = gen

(* A connection whose server is gone: the EventSource has yet to notice.    *)
Broken == bus.source \in {"accepted", "open"} /\ ~Subscribed

(* The reconnecting -> live transition is still to come.                    *)
BlanketDue == bus.state = "reconnecting" \/ (bus.state = "live" /\ Broken)

(* The pair was read across a respawn, new port and old token: the server   *)
(* answers 401, after which an EventSource never retries.                   *)
LockedOut == bus.source = "closed"

-----------------------------------------------------------------------------
(* The sidecar                                                              *)

(* The shell spawns a process and publishes the pair it printed.            *)
Spawn ==
  /\ phase = "down"
  /\ gen < MaxGen
  /\ phase' = "booting"
  /\ gen' = gen + 1
  /\ UNCHANGED <<ver, pend, queue, bus, page, owed>>

(* The lifespan has run, uvicorn listens.                                   *)
Listen ==
  /\ phase = "booting"
  /\ phase' = "up"
  /\ UNCHANGED <<gen, ver, pend, queue, bus, page, owed>>

(* Unpublished events and the subscriber's queue die with the process.      *)
Lost == {k \in Keys : pend[k] # "none" \/ \E i \in DOMAIN queue : queue[i].key = k}

Crash ==
  /\ phase # "down"
  /\ gen < MaxGen
  /\ phase' = "down"
  /\ pend' = [k \in Keys |-> "none"]
  /\ queue' = <<>>
  /\ owed' = [k \in Keys |-> owed[k] \/ (k \in Lost /\ bus.state = "connecting")]
  /\ UNCHANGED <<gen, ver, bus, page>>

(* An operation's last transaction.  The runner works before uvicorn listens.*)
Commit(k) ==
  /\ phase # "down"
  /\ pend[k] = "none"
  /\ ver[k] < MaxWrites
  /\ ver' = [ver EXCEPT ![k] = @ + 1]
  /\ \E ended \in Outcomes : pend' = [pend EXCEPT ![k] = ended]
  /\ UNCHANGED <<shell, queue, bus, page, owed>>

(* EventHub.publish: the oldest event of a full queue makes room.           *)
Publish(k) ==
  LET full == Len(queue) = QueueMax IN
  /\ phase # "down"
  /\ pend[k] # "none"
  /\ pend' = [pend EXCEPT ![k] = "none"]
  /\ IF Subscribed
       THEN /\ queue' = Append(IF full THEN Tail(queue) ELSE queue,
                               [key |-> k, ended |-> pend[k]])
            /\ owed' = IF full THEN [owed EXCEPT ![Head(queue).key] = TRUE] ELSE owed
       ELSE /\ owed' = [owed EXCEPT ![k] = @ \/ bus.state = "connecting"]
            /\ UNCHANGED queue
  /\ UNCHANGED <<shell, ver, bus, page>>

-----------------------------------------------------------------------------
(* Queries                                                                  *)

Behind(k) == fetch[k].at = "answered" /\ fetch[k].got < ver[k]

(* A refetch cancels the request in flight and sends a new one, but the very *)
(* first request of a query is joined instead.                              *)
Restarts(k) == fetch[k].at = "idle" \/ view[k] # NoData

(* invalidateQueries on the keys of S refetches what is observed.           *)
Refetched(S) ==
  [k \in Keys |-> IF k \in S \cap mounted /\ Restarts(k) THEN Sent ELSE fetch[k]]
OwedAfter(S) ==
  [k \in Keys |-> IF k \notin S THEN owed[k]
                 ELSE Refetched(S)[k].at # "sent" /\ (owed[k] \/ Behind(k))]
Invalidate(S) ==
  /\ fetch' = Refetched(S)
  /\ owed' = OwedAfter(S)

(* A surface opens: staleTime 0 refetches, joining a request in flight.     *)
Mount(k) ==
  /\ k \notin mounted
  /\ mounts < MaxMounts
  /\ mounts' = mounts + 1
  /\ mounted' = mounted \cup {k}
  /\ fetch' = IF fetch[k].at = "idle" THEN [fetch EXCEPT ![k] = Sent] ELSE fetch
  /\ owed' = IF fetch[k].at = "idle" THEN [owed EXCEPT ![k] = FALSE] ELSE owed
  /\ UNCHANGED <<shell, ver, pend, queue, bus, thr, view>>

Unmount(k) ==
  /\ k \in mounted
  /\ mounted' = mounted \ {k}
  /\ UNCHANGED <<shell, ver, pend, queue, bus, thr, fetch, view, owed, mounts>>

(* The handler reads committed rows.                                        *)
Answer(k) ==
  /\ phase = "up"
  /\ fetch[k].at = "sent"
  /\ fetch' = [fetch EXCEPT ![k] = [at |-> "answered", got |-> ver[k]]]
  /\ UNCHANGED <<shell, ver, pend, queue, bus, thr, mounted, view, owed, mounts>>

Land(k) ==
  /\ fetch[k].at = "answered"
  /\ view' = [view EXCEPT ![k] = fetch[k].got]
  /\ fetch' = [fetch EXCEPT ![k] = Idle]
  /\ UNCHANGED <<shell, ver, pend, queue, bus, thr, mounted, owed, mounts>>

(* The retries are over.  They take seconds, the stream's first error is    *)
(* immediate, so by then the bus is reconnecting.                           *)
GiveUp(k) ==
  /\ phase # "up"
  /\ bus.state = "reconnecting"
  /\ fetch[k].at = "sent"
  /\ fetch' = [fetch EXCEPT ![k] = Idle]
  /\ UNCHANGED <<shell, ver, pend, queue, bus, thr, mounted, view, owed, mounts>>

-----------------------------------------------------------------------------
(* The bridge (useSSEInvalidation)                                          *)

(* Mutant: a leading-edge throttle, calls inside the interval are dropped.  *)
CallLeadingOnly(k) ==
  CASE thr[k] = "cold" -> Invalidate({k}) /\ thr' = [thr EXCEPT ![k] = "hot"]
    [] OTHER           -> UNCHANGED <<thr, fetch, owed>>

(* makeTrailingThrottle: at once, or once more when the interval is over.   *)
Call(k) ==
  CASE thr[k] = "cold" -> Invalidate({k}) /\ thr' = [thr EXCEPT ![k] = "hot"]
    [] thr[k] = "hot"  -> thr' = [thr EXCEPT ![k] = "trailing"] /\ UNCHANGED <<fetch, owed>>
    [] OTHER           -> UNCHANGED <<thr, fetch, owed>>

(* onmessage.  The lists are refetched on succeeded and failed only.        *)
Receive ==
  /\ bus.source = "open" /\ bus.port = gen /\ phase = "up"
  /\ queue # <<>>
  /\ queue' = Tail(queue)
  /\ LET k == Head(queue).key IN
       IF Head(queue).ended = "cancelled"
         THEN owed' = [owed EXCEPT ![k] = TRUE] /\ UNCHANGED <<thr, fetch>>
         ELSE Call(k)
  /\ UNCHANGED <<shell, ver, pend, bus, mounted, view, mounts>>

IntervalOver(k) ==
  /\ \/ /\ thr[k] = "hot"
        /\ thr' = [thr EXCEPT ![k] = "cold"]
        /\ UNCHANGED <<fetch, owed>>
     \/ /\ thr[k] = "trailing"
        /\ thr' = [thr EXCEPT ![k] = "hot"]
        /\ Invalidate({k})
  /\ UNCHANGED <<shell, ver, pend, queue, bus, mounted, view, mounts>>

-----------------------------------------------------------------------------
(* The bus (EventBus)                                                       *)

(* scheduleRebuild: close, and open again after the backoff.                *)
Rebuild(b) ==
  IF b.timer THEN b
  ELSE [b EXCEPT !.source = "none", !.errors = 0, !.timer = TRUE]

(* onerror; after = what the EventSource itself does next.                  *)
OnError(after) ==
  LET b == [bus EXCEPT !.state = "reconnecting", !.source = after] IN
  IF bus.errors + 1 >= RebuildAfter THEN Rebuild(b) ELSE [b EXCEPT !.errors = @ + 1]

(* The two commands of the handshake are answered separately.  Before the   *)
(* first spawn both fail and are asked again.                               *)
ReadHandshake(x) ==
  /\ x \in bus.opening
  /\ gen > 0
  /\ LET read == [bus EXCEPT !.opening = @ \ {x}, ![x] = gen] IN
     bus' = IF read.opening = {} THEN [read EXCEPT !.source = "connecting"] ELSE read
  /\ UNCHANGED <<shell, ver, pend, queue, page, owed>>

(* No sidecar in 120 s: open()'s catch.                                     *)
HandshakeFails ==
  /\ bus.opening = Parts
  /\ gen = 0
  /\ bus' = Rebuild([bus EXCEPT !.state = "reconnecting", !.opening = {}])
  /\ UNCHANGED <<shell, ver, pend, queue, page, owed>>

(* The server subscribes as it answers.                                     *)
Accept ==
  /\ bus.source = "connecting"
  /\ phase = "up" /\ bus.port = gen /\ bus.token = gen
  /\ bus' = [bus EXCEPT !.source = "accepted"]
  /\ UNCHANGED <<shell, ver, pend, queue, page, owed>>

Refuse ==
  /\ bus.source = "connecting"
  /\ phase # "up" \/ bus.port # gen
  /\ bus' = OnError("connecting")
  /\ UNCHANGED <<shell, ver, pend, queue, page, owed>>

Unauthorized ==
  /\ bus.source = "connecting"
  /\ phase = "up" /\ bus.port = gen /\ bus.token # gen
  /\ bus' = OnError("closed")
  /\ UNCHANGED <<shell, ver, pend, queue, page, owed>>

(* Mutant: the stream is live again, and nothing is read again.             *)
OnOpenQuietly ==
  /\ bus.source = "accepted"
  /\ bus' = [bus EXCEPT !.source = "open", !.state = "live", !.errors = 0]
  /\ UNCHANGED <<shell, ver, pend, queue, page, owed>>

(* onopen, and the bridge's state listener: reconnecting -> live re-reads   *)
(* everything, connecting -> live nothing.                                  *)
OnOpen ==
  /\ bus.source = "accepted"
  /\ bus' = [bus EXCEPT !.source = "open", !.state = "live", !.errors = 0]
  /\ IF bus.state = "reconnecting" THEN Invalidate(Keys) ELSE UNCHANGED <<fetch, owed>>
  /\ UNCHANGED <<shell, ver, pend, queue, thr, mounted, view, mounts>>

NoticeBreak ==
  /\ bus.source = "open" /\ Broken
  /\ bus' = OnError("connecting")
  /\ UNCHANGED <<shell, ver, pend, queue, page, owed>>

(* The timer's callback.                                                   *)
RebuildFires ==
  /\ bus.timer
  /\ bus' = [bus EXCEPT !.timer = FALSE,
       !.opening = IF bus.source = "none" /\ bus.opening = {} THEN Parts ELSE @]
  /\ UNCHANGED <<shell, ver, pend, queue, page, owed>>

-----------------------------------------------------------------------------
BusStep ==
  \/ \E x \in Parts : ReadHandshake(x)
  \/ HandshakeFails \/ Accept \/ Refuse \/ Unauthorized \/ OnOpen \/ NoticeBreak \/ RebuildFires

Next ==
  \/ Spawn \/ Listen \/ Crash \/ Receive
  \/ \E k \in Keys : \/ Commit(k) \/ Publish(k) \/ Mount(k) \/ Unmount(k)
                     \/ Answer(k) \/ Land(k) \/ GiveUp(k) \/ IntervalOver(k)
  \/ BusStep

Spec == Init /\ [][Next]_vars

(* The shell restarts a dead sidecar, threads and timers run, a handshake   *)
(* command and a connection attempt are answered.  Nothing is assumed of    *)
(* users, of operations, or of crashes.                                     *)
FairSpec ==
  /\ Spec
  /\ WF_vars(Spawn) /\ WF_vars(Listen) /\ WF_vars(Receive) /\ WF_vars(BusStep)
  /\ \A k \in Keys :
       /\ WF_vars(Publish(k)) /\ WF_vars(Answer(k)) /\ WF_vars(Land(k))
       /\ WF_vars(IntervalOver(k))

-----------------------------------------------------------------------------
(* A refetch of the key, or the announcement that causes one, is under way. *)
Coming(k) ==
  \/ pend[k] # "none"
  \/ \E i \in DOMAIN queue : queue[i].key = k
  \/ thr[k] = "trailing"
  \/ BlanketDue

(* No change is forgotten: whenever a list on screen is behind the database,*)
(* or is about to be filled with an answer that is, the refetch that will   *)
(* correct it is under way, in whatever order commits, publications, the    *)
(* throttle, answers in flight, a restart and the reopened stream fell.  The *)
(* exceptions are counted: changes the page was never told of (owed).       *)
ViewsAccounted ==
  \A k \in Keys :
    /\ fetch[k].at = "answered" => fetch[k].got = ver[k] \/ Coming(k) \/ owed[k]
    /\ k \in mounted /\ fetch[k].at = "idle" => view[k] = ver[k] \/ Coming(k) \/ owed[k]

(* However the sidecar died, the stream ends up live on the generation that *)
(* stays, unless the pair of the handshake was torn by a respawn.           *)
StreamReturns == <>[](LockedOut \/ (bus.state = "live" /\ Subscribed))

(* A list that stays on screen shows every committed change eventually.     *)
CaughtUp ==
  \A k \in Keys : \A v \in Versions :
    ver[k] = v ~> view[k] >= v \/ owed[k] \/ LockedOut \/ k \notin mounted

(* Both: whatever died, was late or went unheard, the stream comes back and *)
(* the lists follow (EventBus, useSSEInvalidation).                         *)
EndsLive == StreamReturns /\ CaughtUp
=============================================================================
