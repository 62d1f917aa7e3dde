----------------------------- MODULE BrowserBroker -----------------------------
(* The broker of the browser surfaces (app/browser/broker.py): get-or-create   *)
(* by slug, the cap, the idle reaper, the shutdown, and a surface's thread     *)
(* with the Chrome it drives.  Callers are worker threads and websockets.      *)
(*                                                                             *)
(* A step under the map lock is one action; a lifecycle lock is held over      *)
(* several.  How long a surface has been idle is told apart only as past the   *)
(* reaper's limit or not: among surfaces on the same side any may be the       *)
(* longest idle.                                                               *)
EXTENDS FiniteSets, Integers

CONSTANTS Slug, Caller,
  Surf,         \* the surfaces there can ever be: a bound on the launches
  Reaper,       \* the thread of reap_idle
  None,
  MaxSurfaces,  \* MAX_SURFACES
  MaxQuits,     \* bound: shutdowns of the broker
  MaxFaults     \* bound: failed launches, and Chromes that die

Actor == Caller \cup {Reaper}

ASSUME BrokerAssumption ==
  /\ Reaper \notin Caller
  /\ None \notin Actor \cup Surf \cup Slug
  /\ {MaxSurfaces, MaxQuits, MaxFaults} \subseteq Nat

VARIABLES
  map,       \* _surfaces
  lock,      \* _slug_locks: who holds the slug's lifecycle lock
  slugOf,    \* a surface's slug, None before it is made
  thread,    \* what its thread is doing
  stopping,  \* the surfaces with _stopping set
  viewer,    \* _viewer
  inflight,  \* whose action is in the command queue, or running
  aged,      \* the surfaces last stamped IDLE_SHUTDOWN_SECONDS ago or earlier
  pc,        \* where an actor stands
  want,      \* the slug a caller asked for
  got,       \* the surface in its hand
  prey,      \* the surface an actor is closing
  todo,      \* the candidates of reap_idle
  quitting,  \* what a shutdown took out of the map and has not stopped yet
  quits, faults,
  loose      \* history: slugs of which a Chrome was let go before its end

locks   == <<map, lock>>
surface == <<slugOf, thread, stopping, viewer, inflight, aged>>
hands   == <<want, got, prey>>
vars    == <<map, lock, slugOf, thread, stopping, viewer, inflight, aged, pc, want, got, prey,
             todo, quitting, quits, faults, loose>>

Stages == {"idle", "room", "evict", "doom", "join", "fetch", "start",
           "wait", "hold", "watch", "await", "reap"}
Threads == {"unmade", "new", "starting", "live", "closing", "failed", "gone"}

TypeOK ==
  /\ map \in [Slug -> Surf \cup {None}]
  /\ lock \in [Slug -> Actor \cup {None}]
  /\ slugOf \in [Surf -> Slug \cup {None}]
  /\ thread \in [Surf -> Threads]
  /\ stopping \subseteq Surf /\ aged \subseteq Surf
  /\ todo \subseteq Surf /\ quitting \subseteq Surf
  /\ viewer \in [Surf -> Caller \cup {None}]
  /\ inflight \in [Surf -> SUBSET Caller]
  /\ pc \in [Actor -> Stages]
  /\ want \in [Caller -> Slug \cup {None}]
  /\ got \in [Caller -> Surf \cup {None}]
  /\ prey \in [Actor -> Surf \cup {None}]
  /\ quits \in Nat /\ faults \in Nat
  /\ loose \subseteq Slug

Init ==
  /\ map = [g \in Slug |-> None] /\ lock = [g \in Slug |-> None]
  /\ slugOf = [s \in Surf |-> None] /\ thread = [s \in Surf |-> "unmade"]
  /\ stopping = {} /\ aged = {} /\ todo = {} /\ quitting = {} /\ loose = {}
  /\ quits = 0 /\ faults = 0
  /\ viewer = [s \in Surf |-> None] /\ inflight = [s \in Surf |-> {}]
  /\ pc = [a \in Actor |-> "idle"]
  /\ want = [c \in Caller |-> None] /\ got = [c \in Caller |-> None]
  /\ prey = [a \in Actor |-> None]

-----------------------------------------------------------------------------
(* A thread between its start and its end drives a Chrome, which holds the   *)
(* singleton lock of the slug's profile directory.                           *)
HasChrome(s) == thread[s] \in {"starting", "live", "closing"}

(* Mutant: only a surface that never came up is a corpse.                    *)
IsDeadUnlaunched(s) == thread[s] = "failed" /\ s \notin stopping

(* is_dead: the run loop is over, and nobody asked for it.  A launch that    *)
(* failed never entered the loop.                                            *)
IsDead(s) == thread[s] = "gone" /\ s \notin stopping

Usable(s) == s # None /\ ~IsDead(s)

Mapped == {map[g] : g \in Slug} \ {None}

(* idle_seconds is not None.                                                 *)
Idle(s) == viewer[s] = None /\ inflight[s] = {}

LongestIdle(S) ==
  {s \in S : Idle(s) /\ (s \in aged \/ \A t \in S : Idle(t) => t \notin aged)}

(* A caller holds s and is about to use it, or waits for an action on it.    *)
InHand(c, s) == got[c] = s /\ pc[c] \in {"wait", "hold", "await"}

-----------------------------------------------------------------------------
(* surface(slug), and _make_room                                             *)

(* Mutant: no stamp, as if a surface were only stamped by its first action.  *)
HandOutUnstamped(c, s) ==
  /\ got' = [got EXCEPT ![c] = s]
  /\ pc' = [pc EXCEPT ![c] = "wait"]
  /\ UNCHANGED aged

(* The surface is stamped while the map lock is held.                        *)
HandOut(c, s) ==
  /\ got' = [got EXCEPT ![c] = s]
  /\ pc' = [pc EXCEPT ![c] = "wait"]
  /\ aged' = aged \ {s}

Ask(c, g) ==
  /\ pc[c] = "idle"
  /\ want' = [want EXCEPT ![c] = g]
  /\ IF Usable(map[g]) THEN HandOut(c, map[g])
     ELSE pc' = [pc EXCEPT ![c] = "room"] /\ UNCHANGED <<got, aged>>
  /\ UNCHANGED <<locks, slugOf, thread, stopping, viewer, inflight, prey, todo, quitting, quits, faults, loose>>

NeedsRoom(c) == map[want[c]] = None /\ Cardinality(Mapped) >= MaxSurfaces

(* At the cap with every surface in use, the cap yields.                     *)
HasRoom(c) ==
  /\ pc[c] = "room"
  /\ ~NeedsRoom(c) \/ LongestIdle(Mapped) = {}
  /\ pc' = [pc EXCEPT ![c] = "fetch"]
  /\ UNCHANGED <<locks, surface, hands, todo, quitting, quits, faults, loose>>

Pick(c) ==
  /\ pc[c] = "room"
  /\ NeedsRoom(c)
  /\ \E s \in LongestIdle(Mapped) : prey' = [prey EXCEPT ![c] = s]
  /\ pc' = [pc EXCEPT ![c] = "evict"]
  /\ UNCHANGED <<locks, surface, want, got, todo, quitting, quits, faults, loose>>

(* Mutant: the map entry is dropped, and the surface joined, without the     *)
(* lifecycle lock.                                                           *)
TakeUnlocked(a, s) ==
  /\ map' = [map EXCEPT ![slugOf[s]] = None]
  /\ prey' = [prey EXCEPT ![a] = s]
  /\ pc' = [pc EXCEPT ![a] = "doom"]
  /\ UNCHANGED lock

Take(a, s) ==
  /\ map' = [map EXCEPT ![slugOf[s]] = None]
  /\ lock' = [lock EXCEPT ![slugOf[s]] = a]
  /\ prey' = [prey EXCEPT ![a] = s]
  /\ pc' = [pc EXCEPT ![a] = "doom"]

(* Under the victim's lifecycle lock the pick is looked at again.            *)
Evict(c) ==
  /\ pc[c] = "evict"
  /\ LET s == prey[c] IN
       /\ lock[slugOf[s]] = None
       /\ IF map[slugOf[s]] = s /\ Idle(s) THEN Take(c, s)
          ELSE /\ pc' = [pc EXCEPT ![c] = "fetch"]
               /\ prey' = [prey EXCEPT ![c] = None]
               /\ UNCHANGED locks
  /\ UNCHANGED <<surface, want, got, todo, quitting, quits, faults, loose>>

(* Under the slug's lifecycle lock: somebody was faster, or a new surface.   *)
Fetch(c) ==
  /\ pc[c] = "fetch"
  /\ lock[want[c]] = None
  /\ IF Usable(map[want[c]])
     THEN HandOut(c, map[want[c]]) /\ UNCHANGED <<locks, slugOf, thread>>
     ELSE \E s \in Surf :
            /\ slugOf[s] = None
            /\ map' = [map EXCEPT ![want[c]] = s]
            /\ lock' = [lock EXCEPT ![want[c]] = c]
            /\ slugOf' = [slugOf EXCEPT ![s] = want[c]]
            /\ thread' = [thread EXCEPT ![s] = "new"]
            /\ got' = [got EXCEPT ![c] = s]
            /\ pc' = [pc EXCEPT ![c] = "start"]
            /\ UNCHANGED aged
  /\ UNCHANGED <<stopping, viewer, inflight, want, prey, todo, quitting, quits, faults, loose>>

(* start(): not if it has been told to stop meanwhile.                       *)
Start(c) ==
  /\ pc[c] = "start"
  /\ thread' = IF got[c] \in stopping THEN thread ELSE [thread EXCEPT ![got[c]] = "starting"]
  /\ lock' = [lock EXCEPT ![want[c]] = None]
  /\ pc' = [pc EXCEPT ![c] = "wait"]
  /\ UNCHANGED <<map, slugOf, stopping, viewer, inflight, aged, hands, todo, quitting, quits, faults, loose>>

-----------------------------------------------------------------------------
(* shutdown() of a surface, by whoever took it out of the map                *)

Stop(a) ==
  /\ pc[a] = "doom"
  /\ stopping' = stopping \cup {prey[a]}
  /\ viewer' = [viewer EXCEPT ![prey[a]] = None]
  /\ pc' = [pc EXCEPT ![a] = "join"]
  /\ UNCHANGED <<locks, slugOf, thread, inflight, aged, hands, todo, quitting, quits, faults, loose>>

(* The join ends with the thread, or after SHUTDOWN_TIMEOUT_SECONDS.         *)
Join(a) ==
  /\ pc[a] = "join"
  /\ IF HasChrome(prey[a]) THEN loose' = loose \cup {slugOf[prey[a]]} ELSE UNCHANGED loose
  /\ lock' = [lock EXCEPT ![slugOf[prey[a]]] = None]
  /\ pc' = [pc EXCEPT ![a] = IF a = Reaper THEN "reap" ELSE "fetch"]
  /\ prey' = [prey EXCEPT ![a] = None]
  /\ todo' = IF a = Reaper THEN todo \ {prey[a]} ELSE todo
  /\ UNCHANGED <<map, surface, want, got, quitting, quits, faults>>

-----------------------------------------------------------------------------
(* reap_idle                                                                 *)

Scan ==
  /\ pc[Reaper] = "idle"
  /\ todo' = {s \in Mapped : Idle(s) /\ s \in aged}
  /\ todo' # {}
  /\ pc' = [pc EXCEPT ![Reaper] = "reap"]
  /\ UNCHANGED <<locks, surface, hands, quitting, quits, faults, loose>>

Spent(s) == map[slugOf[s]] = s /\ Idle(s) /\ s \in aged

Reap(s) ==
  /\ pc[Reaper] = "reap" /\ s \in todo
  /\ lock[slugOf[s]] = None
  /\ IF Spent(s) THEN Take(Reaper, s) /\ UNCHANGED todo
     ELSE todo' = todo \ {s} /\ UNCHANGED <<locks, prey, pc>>
  /\ UNCHANGED <<surface, want, got, quitting, quits, faults, loose>>

Reaped ==
  /\ pc[Reaper] = "reap" /\ todo = {}
  /\ pc' = [pc EXCEPT ![Reaper] = "idle"]
  /\ UNCHANGED <<locks, surface, hands, todo, quitting, quits, faults, loose>>

(* IDLE_SHUTDOWN_SECONDS after its last stamp; the clock of a surface in use  *)
(* is not read, and stamped when the use ends.  A caller with a surface in    *)
(* its hand uses it sooner: a launch is awaited for a minute, and a session   *)
(* sleeps before it takes its surface, not between its actions.               *)
Age(s) ==
  /\ s \in Mapped /\ Idle(s) /\ s \notin aged
  /\ \A c \in Caller : got[c] = s => pc[c] \notin {"start", "wait", "hold"}
  /\ aged' = aged \cup {s}
  /\ UNCHANGED <<locks, slugOf, thread, stopping, viewer, inflight, pc, hands, todo, quitting, quits, faults, loose>>

-----------------------------------------------------------------------------
(* shutdown() of the broker: the map is emptied first                        *)

Quit ==
  /\ quits < MaxQuits
  /\ quits' = quits + 1
  /\ quitting' = quitting \cup Mapped
  /\ map' = [g \in Slug |-> None]
  /\ loose' = Slug
  /\ UNCHANGED <<lock, surface, pc, hands, todo, faults>>

QuitStop(s) ==
  /\ s \in quitting
  /\ quitting' = quitting \ {s}
  /\ stopping' = stopping \cup {s}
  /\ viewer' = [viewer EXCEPT ![s] = None]
  /\ UNCHANGED <<locks, slugOf, thread, inflight, aged, pc, hands, todo, quits, faults, loose>>

-----------------------------------------------------------------------------
(* What a caller does with a surface                                         *)

Leave(c) ==
  /\ pc' = [pc EXCEPT ![c] = "idle"]
  /\ want' = [want EXCEPT ![c] = None]
  /\ got' = [got EXCEPT ![c] = None]

(* wait_ready: the launch's result, or LAUNCH_TIMEOUT_SECONDS.               *)
WaitReady(c) ==
  /\ pc[c] = "wait"
  /\ \/ /\ thread[got[c]] \in {"live", "closing", "gone"}
        /\ pc' = [pc EXCEPT ![c] = "hold"]
        /\ UNCHANGED <<want, got>>
     \/ thread[got[c]] \in {"new", "starting", "failed"} /\ Leave(c)
  /\ UNCHANGED <<locks, surface, prey, todo, quitting, quits, faults, loose>>

(* set_viewer takes the surface over from whoever watched it.                *)
Watch(c) ==
  /\ pc[c] = "hold"
  /\ viewer' = [viewer EXCEPT ![got[c]] = c]
  /\ pc' = [pc EXCEPT ![c] = "watch"]
  /\ UNCHANGED <<locks, slugOf, thread, stopping, inflight, aged, hands, todo, quitting, quits, faults, loose>>

(* detach: only its own viewer, and the idle clock starts here.              *)
Detach(c) ==
  /\ pc[c] = "watch"
  /\ IF viewer[got[c]] = c
     THEN viewer' = [viewer EXCEPT ![got[c]] = None] /\ aged' = aged \ {got[c]}
     ELSE UNCHANGED <<viewer, aged>>
  /\ Leave(c)
  /\ UNCHANGED <<locks, slugOf, thread, stopping, inflight, prey, todo, quitting, quits, faults, loose>>

(* _submit: refused once the surface is shut down.                           *)
Submit(c) ==
  /\ pc[c] = "hold"
  /\ c \notin inflight[got[c]]
  /\ IF got[c] \in stopping THEN Leave(c) /\ UNCHANGED <<inflight, aged>>
     ELSE /\ inflight' = [inflight EXCEPT ![got[c]] = @ \cup {c}]
          /\ aged' = aged \ {got[c]}
          /\ pc' = [pc EXCEPT ![c] = "await"]
          /\ UNCHANGED <<want, got>>
  /\ UNCHANGED <<locks, slugOf, thread, stopping, viewer, prey, todo, quitting, quits, faults, loose>>

(* Done with it, or tired of waiting for an action: the action stays queued. *)
GoAway(c) ==
  /\ pc[c] \in {"hold", "await"}
  /\ Leave(c)
  /\ UNCHANGED <<locks, surface, prey, todo, quitting, quits, faults, loose>>

-----------------------------------------------------------------------------
(* _run, on the surface's thread                                             *)

Became(s, state) ==
  /\ thread' = [thread EXCEPT ![s] = state]
  /\ UNCHANGED <<locks, slugOf, stopping, viewer, inflight, aged, pc, hands, todo, quitting, quits, loose>>

Fault == faults < MaxFaults /\ faults' = faults + 1

Launch(s) ==
  /\ thread[s] = "starting"
  /\ \/ Became(s, "live") /\ UNCHANGED faults
     \/ Became(s, "failed") /\ Fault

(* Mutant: a cancelled command is skipped without being counted off.         *)
FinishedIfAwaited(s, c) ==
  /\ inflight' = IF pc[c] = "await" THEN [inflight EXCEPT ![s] = @ \ {c}] ELSE inflight
  /\ aged' = IF pc[c] = "await" THEN aged \ {s} ELSE aged

(* _finished_one, for a command that was cancelled as well.                  *)
Finished(s, c) ==
  /\ inflight' = [inflight EXCEPT ![s] = @ \ {c}]
  /\ aged' = aged \ {s}

Drain(s, c) ==
  /\ thread[s] = "live" /\ c \in inflight[s]
  /\ Finished(s, c)
  /\ pc' = IF pc[c] = "await" /\ got[c] = s THEN [pc EXCEPT ![c] = "hold"] ELSE pc
  /\ UNCHANGED <<locks, slugOf, thread, stopping, viewer, hands, todo, quitting, quits, faults, loose>>

LoopEnds(s) ==
  /\ thread[s] = "live" /\ s \in stopping
  /\ Became(s, "closing") /\ UNCHANGED faults

(* The page died under it.                                                   *)
Dies(s) == thread[s] = "live" /\ Became(s, "closing") /\ Fault

TornDown(s) == thread[s] = "closing" /\ Became(s, "gone") /\ UNCHANGED faults

Next ==
  \/ \E c \in Caller :
       \/ \E g \in Slug : Ask(c, g)
       \/ HasRoom(c) \/ Pick(c) \/ Evict(c) \/ Fetch(c) \/ Start(c)
       \/ WaitReady(c) \/ Watch(c) \/ Detach(c) \/ Submit(c) \/ GoAway(c)
  \/ \E a \in Actor : Stop(a) \/ Join(a)
  \/ Scan \/ Reaped \/ Quit
  \/ \E s \in Surf :
       \/ Reap(s) \/ Age(s) \/ QuitStop(s) \/ Launch(s) \/ LoopEnds(s) \/ Dies(s) \/ TornDown(s)
       \/ \E c \in Caller : Drain(s, c)

Spec == Init /\ [][Next]_vars

(* Threads run, clocks advance, a launch and a teardown end, a thread that   *)
(* was told to stop stops.  Nobody has to ask, quit or crash.                *)
Fairness ==
  /\ \A c \in Caller :
       WF_vars(HasRoom(c) \/ Pick(c) \/ Evict(c) \/ Fetch(c) \/ Start(c) \/ WaitReady(c))
  /\ \A a \in Actor : WF_vars(Stop(a)) /\ WF_vars(Join(a))
  /\ WF_vars(Scan) /\ WF_vars(Reaped)
  /\ \A s \in Surf :
       /\ WF_vars(Reap(s)) /\ WF_vars(Age(s)) /\ WF_vars(Launch(s)) /\ WF_vars(TornDown(s))
       /\ WF_vars(LoopEnds(s)) /\ \A c \in Caller : WF_vars(Drain(s, c))

FairSpec == Spec /\ Fairness

-----------------------------------------------------------------------------
(* No two Chromes run on one profile directory, as long as none was let go   *)
(* of before its end: Chrome's singleton lock would hang the second launch   *)
(* (_lifecycle_lock).                                                        *)
OneChromePerProfile ==
  \A s, t \in Surf :
    HasChrome(s) /\ HasChrome(t) /\ slugOf[s] = slugOf[t] /\ s # t => slugOf[s] \in loose

Spares(a) ==
  pc[a] \in {"doom", "join"} => \A c \in Caller : ~InHand(c, prey[a]) /\ viewer[prey[a]] # c

(* The reaper never closes a surface that has been handed out, however the   *)
(* asking, the stamp and the two looks of reap_idle interleave (surface()).  *)
ReaperSparesHands == Spares(Reaper)

(* Nor does a caller that makes room, which looks twice in the same way      *)
(* (_make_room).                                                             *)
NobodyTakesFromHands == \A a \in Actor : Spares(a)

HandedOver(c) == pc[c] # "wait" /\ pc'[c] = "wait"

(* A surface whose Chrome crashed is never handed out again (surface()).     *)
CrashedIsReplaced == [][\A c \in Caller : HandedOver(c) => ~(thread[got'[c]] = "gone")]_vars

(* Nor is any other surface whose thread has exited on its own (is_dead).    *)
DeadIsReplaced ==
  [][\A c \in Caller : HandedOver(c) => thread[got'[c]] \notin {"gone", "failed"}]_vars

(* A surface is launched past the cap only when no other one is idle         *)
(* (MAX_SURFACES).                                                           *)
CapYieldsToUse ==
  [][\A s \in Mapped' \ Mapped :
       Cardinality(Mapped') > MaxSurfaces => LongestIdle(Mapped) = {}]_vars

(* A surface nobody watches or drives is closed, or somebody takes it: a     *)
(* command that was given up, or cancelled, does not keep its Chrome alive.  *)
Unused(s) == s \in Mapped /\ viewer[s] = None /\ \A c \in Caller : got[c] # s
IdleIsReclaimed ==
  \A s \in Surf : Unused(s) /\ thread[s] = "live" ~> ~Unused(s) \/ thread[s] = "closing"
=============================================================================
