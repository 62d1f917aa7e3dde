-------------------------- MODULE BrowserBrokerProofs --------------------------
(* That no two Chromes meet on one profile directory, that the reaper spares   *)
(* every surface in a hand, and that a crashed one is not handed out again,    *)
(* for any number of slugs, callers, surfaces, faults and shutdowns; and that  *)
(* the Applier's window stays whole, for any number of runs and pages.         *)
EXTENDS MCBrowser, TLAPS

Closing(a) == pc[a] \in {"doom", "join"}
HasSurface(c) == pc[c] \in {"start", "wait", "hold", "watch", "await"}
Asks(c) == pc[c] \in {"room", "evict", "doom", "join", "fetch", "start"}

(* What is known of a surface before it is made, and of one in the map.      *)
Unmade ==
  \A s \in Surf : slugOf[s] = None => thread[s] = "unmade" /\ s \notin aged \cup todo \cup stopping \cup quitting
Listed ==
  \A g \in Slug : map[g] # None => slugOf[map[g]] = g /\ map[g] \notin stopping \cup quitting

(* What an actor has in its hands at every stage.                           *)
Aimed == \A a \in Actor : pc[a] \in {"evict", "doom", "join"} => prey[a] \in Surf /\ slugOf[prey[a]] \in Slug
Asked == \A c \in Caller : Asks(c) => want[c] \in Slug
Given == \A c \in Caller : HasSurface(c) => got[c] \in Surf /\ slugOf[got[c]] \in Slug

(* Who holds the lifecycle lock of a slug, and what that says of the slug.   *)
LockedFor ==
  \A g \in Slug : lock[g] # None =>
    \/ Closing(lock[g]) /\ slugOf[prey[lock[g]]] = g /\ map[g] = None
    \/ lock[g] \in Caller /\ pc[lock[g]] = "start" /\ want[lock[g]] = g
Closes ==
  \A a \in Actor : /\ Closing(a) => lock[slugOf[prey[a]]] = a
                   /\ pc[a] = "join" => prey[a] \in stopping
Starts ==
  \A c \in Caller : pc[c] = "start" =>
    lock[want[c]] = c /\ slugOf[got[c]] = want[c] /\ thread[got[c]] = "new"

(* The surfaces that have a Chrome, or will.                                *)
Standing(s) == HasChrome(s) \/ (thread[s] = "new" /\ s \notin stopping)
BeingClosed(s) ==
  lock[slugOf[s]] # None /\ Closing(lock[slugOf[s]]) /\ prey[lock[slugOf[s]]] = s
Accounted ==
  \A s \in Surf : Standing(s) /\ slugOf[s] \notin loose => map[slugOf[s]] = s \/ BeingClosed(s)

IInv ==
  /\ TypeOK /\ Unmade /\ Listed /\ Aimed /\ Asked /\ Given
  /\ LockedFor /\ Closes /\ Starts /\ Accounted

(* A surface that was handed out and not used yet is freshly stamped; the    *)
(* command a caller waits for is counted.                                   *)
Stamped == \A c \in Caller : pc[c] \in {"start", "wait", "hold"} => got[c] \notin aged
Counted == \A c \in Caller : pc[c] = "await" => c \in inflight[got[c]]
HInv == Stamped /\ Counted /\ ReaperSparesHands

-----------------------------------------------------------------------------
(* surface(): the lock-free lookup hands a usable surface out, or asks for a lock. *)
LEMMA AskKeeps ==
  ASSUME IInv, NEW c \in Caller, NEW g \in Slug, Ask(c, g)
  PROVE  IInv'
<1> USE BrokerAssumption DEF IInv, Ask, HandOut, Usable, TypeOK, locks, Actor, Stages
<1>1. TypeOK'
  BY DEF Asked
<1>2. Unmade' /\ Listed'
  BY DEF Unmade, Listed
<1>3. Aimed' /\ Asked' /\ Given'
  BY DEF Listed, Aimed, Asked, Given, Asks, HasSurface
<1>4. LockedFor' /\ Closes'
  BY DEF LockedFor, Closes, Closing
<1>5. Starts'
  BY DEF Starts
<1>6. Accounted'
  BY DEF Accounted, Standing, HasChrome, BeingClosed, Closing, Unmade
<1> QED
  BY <1>1, <1>2, <1>3, <1>4, <1>5, <1>6

(* Making room: the caller goes on to its slug, or picks an idle surface.    *)
LEMMA RoomKeeps ==
  ASSUME IInv, NEW c \in Caller, HasRoom(c) \/ Pick(c)
  PROVE  IInv'
<1> USE BrokerAssumption DEF IInv, HasRoom, Pick, LongestIdle, Mapped, TypeOK, locks, surface, hands, Actor, Stages
<1>1. TypeOK'
  BY DEF Asked
<1>2. Unmade' /\ Listed'
  BY DEF Unmade, Listed
<1>3. Aimed' /\ Asked' /\ Given'
  BY DEF Listed, Aimed, Asked, Given, Asks, HasSurface
<1>4. LockedFor' /\ Closes'
  BY DEF LockedFor, Closes, Closing
<1>5. Starts'
  BY DEF Starts
<1>6. Accounted'
  BY DEF Accounted, Standing, HasChrome, BeingClosed, Closing, Unmade
<1> QED
  BY <1>1, <1>2, <1>3, <1>4, <1>5, <1>6

(* The picked surface leaves the map under its lock, if it is still idle.    *)
LEMMA EvictKeeps ==
  ASSUME IInv, NEW c \in Caller, Evict(c)
  PROVE  IInv'
<1> USE BrokerAssumption DEF IInv, Evict, Take, TypeOK, locks, surface, Actor, Stages
<1>1. TypeOK'
  BY DEF Asked
<1>2. Unmade' /\ Listed'
  BY DEF Unmade, Listed
<1>3. Aimed' /\ Asked' /\ Given'
  BY DEF Aimed, Asked, Given, Asks, HasSurface
<1>4. LockedFor' /\ Closes'
  BY DEF LockedFor, Closes, Closing, Aimed
<1>5. Starts'
  BY DEF Starts, Given, HasSurface
<1>6. Accounted'
  BY DEF Accounted, Standing, HasChrome, BeingClosed, Closing, Unmade
<1> QED
  BY <1>1, <1>2, <1>3, <1>4, <1>5, <1>6

(* Under the lock a caller takes what is mapped, or makes a surface of its own. *)
LEMMA FetchKeeps ==
  ASSUME IInv, NEW c \in Caller, Fetch(c)
  PROVE  IInv'
<1> DEFINE g == want[c]
<1> USE BrokerAssumption DEF IInv
<1>1. g \in Slug /\ lock[g] = None /\ c \in Actor /\ map[g] \in Surf \cup {None}
  BY DEF TypeOK, Fetch, Asked, Asks, Actor
<1>2. CASE Usable(map[g])
  <2>1. /\ map[g] \in Surf /\ slugOf[map[g]] = g
        /\ got' = [got EXCEPT ![c] = map[g]] /\ pc' = [pc EXCEPT ![c] = "wait"] /\ aged' = aged \ {map[g]}
        /\ UNCHANGED <<map, lock, slugOf, thread, stopping, viewer, inflight, want, prey, todo, quitting, quits, faults, loose>>
    BY <1>1, <1>2 DEF Fetch, HandOut, Usable, Listed, locks
  <2> HIDE DEF g
  <2> USE DEF TypeOK, Actor, Stages, Threads
  <2>2. TypeOK' /\ Unmade' /\ Listed'
    BY <1>1, <2>1 DEF Unmade, Listed
  <2>3. Aimed' /\ Asked' /\ Given'
    BY <1>1, <2>1 DEF Aimed, Asked, Given, Asks, HasSurface
  <2>4. LockedFor' /\ Closes' /\ Starts'
    BY <1>1, <2>1 DEF LockedFor, Closes, Starts, Closing, Fetch
  <2>5. Accounted'
    BY <1>1, <2>1 DEF Accounted, Standing, HasChrome, BeingClosed, Closing, Fetch
  <2> QED BY <2>2, <2>3, <2>4, <2>5
<1>3. CASE ~Usable(map[g])
  <2>1. PICK s \in Surf :
          /\ slugOf[s] = None
          /\ map' = [map EXCEPT ![g] = s] /\ lock' = [lock EXCEPT ![g] = c]
          /\ slugOf' = [slugOf EXCEPT ![s] = g] /\ thread' = [thread EXCEPT ![s] = "new"]
          /\ got' = [got EXCEPT ![c] = s] /\ pc' = [pc EXCEPT ![c] = "start"]
          /\ UNCHANGED <<aged, stopping, viewer, inflight, want, prey, todo, quitting, quits, faults, loose>>
    BY <1>3 DEF Fetch
  <2>2. pc[c] = "fetch" /\ (map[g] # None => slugOf[map[g]] = g /\ thread[map[g]] = "gone")
    BY <1>1, <1>3 DEF Fetch, Usable, IsDead, Listed
  <2>3. s \notin stopping \cup quitting \cup aged \cup todo /\ thread[s] = "unmade"
    BY <2>1 DEF Unmade
  <2>4. g = want[c] /\ g # None /\ s # None
    BY <1>1
  <2> HIDE DEF g
  <2> USE DEF TypeOK, Actor, Stages, Threads
  <2>5. TypeOK'
    BY <1>1, <2>1
  <2>6. Unmade'
    BY <1>1, <2>1, <2>3, <2>4 DEF Unmade
  <2>7. Listed'
    BY <1>1, <2>1, <2>3, <2>4 DEF Listed
  <2>8. Aimed' /\ Asked' /\ Given'
    BY <1>1, <2>1, <2>2, <2>4 DEF Aimed, Asked, Given, Asks, HasSurface
  <2>9. LockedFor' /\ Closes'
    BY <1>1, <2>1, <2>2, <2>4 DEF LockedFor, Closes, Closing, Aimed
  <2>10. Starts'
    BY <1>1, <2>1, <2>2, <2>4 DEF Starts, Given, HasSurface
  <2>11. Accounted'
    BY <1>1, <2>1, <2>2, <2>3, <2>4 DEF Accounted, Standing, HasChrome, BeingClosed, Closing
  <2> QED BY <2>5, <2>6, <2>7, <2>8, <2>9, <2>10, <2>11
<1> QED BY <1>2, <1>3

(* The new surface is started and put in the map, and the lock let go.       *)
LEMMA StartKeeps ==
  ASSUME IInv, NEW c \in Caller, Start(c)
  PROVE  IInv'
<1> USE BrokerAssumption DEF IInv, Start, TypeOK, hands, Actor, Stages, Threads
<1>1. TypeOK'
  BY DEF Asked
<1>2. Unmade' /\ Listed'
  BY DEF Unmade, Listed, Starts
<1>3. Aimed' /\ Asked' /\ Given'
  BY DEF Aimed, Asked, Given, Asks, HasSurface
<1>4. LockedFor' /\ Closes'
  BY DEF LockedFor, Closes, Starts, Closing
<1>5. Starts'
  BY DEF Starts
<1>6. Accounted'
  BY DEF Accounted, Standing, HasChrome, BeingClosed, Starts, Closing
<1> QED
  BY <1>1, <1>2, <1>3, <1>4, <1>5, <1>6

(* What a caller does with a surface it has touches neither map nor locks.   *)
LEMMA CallerKeeps ==
  ASSUME IInv, NEW c \in Caller, WaitReady(c) \/ Watch(c) \/ Detach(c) \/ Submit(c) \/ GoAway(c)
  PROVE  IInv'
<1> USE BrokerAssumption DEF IInv, WaitReady, Watch, Detach, Submit, GoAway, Leave, TypeOK, locks, surface, hands, Actor, Stages
<1>1. TypeOK'
  BY DEF Asked
<1>2. Unmade' /\ Listed'
  BY DEF Unmade, Listed
<1>3. Aimed' /\ Asked' /\ Given'
  BY DEF Aimed, Asked, Given, Asks, HasSurface
<1>4. LockedFor' /\ Closes'
  BY DEF LockedFor, Closes, Closing
<1>5. Starts'
  BY DEF Starts
<1>6. Accounted'
  BY DEF Accounted, Standing, HasChrome, BeingClosed, Closing, Unmade
<1> QED
  BY <1>1, <1>2, <1>3, <1>4, <1>5, <1>6

(* shutdown() of a surface tells it to stop, its lock held.                  *)
LEMMA StopKeeps ==
  ASSUME IInv, NEW a \in Actor, Stop(a)
  PROVE  IInv'
<1> USE BrokerAssumption DEF IInv, Stop, TypeOK, locks, hands, Stages
<1>1. TypeOK'
  BY DEF Aimed
<1>2. Unmade' /\ Listed'
  BY DEF Unmade, Listed, Aimed, LockedFor, Closes, Closing
<1>3. Aimed' /\ Asked' /\ Given'
  BY DEF Aimed, Asked, Given, Asks, HasSurface
<1>4. LockedFor' /\ Closes'
  BY DEF LockedFor, Closes, Closing
<1>5. Starts'
  BY DEF Starts
<1>6. Accounted'
  BY DEF Accounted, Standing, HasChrome, BeingClosed, Closing
<1> QED
  BY <1>1, <1>2, <1>3, <1>4, <1>5, <1>6

(* The join ends, or is given up, and the lock goes.                         *)
LEMMA JoinKeeps ==
  ASSUME IInv, NEW a \in Actor, Join(a)
  PROVE  IInv'
<1> USE BrokerAssumption DEF IInv, Join, TypeOK, surface, Stages
<1>1. TypeOK'
  BY DEF Aimed
<1>2. Unmade' /\ Listed'
  BY DEF Unmade, Listed
<1>3. Aimed' /\ Asked' /\ Given'
  BY DEF Aimed, Asked, Given, Asks, HasSurface
<1>4. LockedFor' /\ Closes'
  BY DEF LockedFor, Closes, Closing
<1>5. Starts'
  BY DEF Closes, Starts, Closing
<1>6. Accounted'
  BY DEF Accounted, Standing, HasChrome, BeingClosed, Closes, Closing
<1> QED
  BY <1>1, <1>2, <1>3, <1>4, <1>5, <1>6

(* The reaper looks for idle surfaces; time passes over one.                 *)
LEMMA ScanKeeps ==
  ASSUME IInv, Scan \/ Reaped \/ \E s \in Surf : Age(s)
  PROVE  IInv'
<1> USE BrokerAssumption DEF IInv, Scan, Reaped, Age, Mapped, TypeOK, locks, surface, hands, Actor, Stages
<1>1. TypeOK'
  BY DEF Asked
<1>2. Unmade' /\ Listed'
  BY DEF Unmade, Listed
<1>3. Aimed' /\ Asked' /\ Given'
  BY DEF Aimed, Asked, Given, Asks, HasSurface
<1>4. LockedFor' /\ Closes'
  BY DEF LockedFor, Closes, Closing
<1>5. Starts'
  BY DEF Starts
<1>6. Accounted'
  BY DEF Accounted, Standing, HasChrome, BeingClosed, Closing, Unmade
<1> QED
  BY <1>1, <1>2, <1>3, <1>4, <1>5, <1>6

(* The reaper takes one off the map under its lock.                          *)
LEMMA ReapKeeps ==
  ASSUME IInv, NEW s \in Surf, Reap(s)
  PROVE  IInv'
<1> USE BrokerAssumption DEF IInv, Reap, Take, Spent, TypeOK, locks, surface, Actor, Stages
<1>1. TypeOK'
  BY DEF Asked
<1>2. Unmade' /\ Listed'
  BY DEF Unmade, Listed
<1>3. Aimed' /\ Asked' /\ Given'
  BY DEF Unmade, Aimed, Asked, Given, Asks, HasSurface
<1>4. LockedFor' /\ Closes'
  BY DEF LockedFor, Closes, Closing, Aimed, Unmade
<1>5. Starts'
  BY DEF Starts, Given, HasSurface
<1>6. Accounted'
  BY DEF Accounted, Standing, HasChrome, BeingClosed, Closing, Unmade
<1> QED
  BY <1>1, <1>2, <1>3, <1>4, <1>5, <1>6

(* shutdown_all empties the map and stops what was in it.                    *)
LEMMA QuitKeeps ==
  ASSUME IInv, Quit \/ \E s \in Surf : QuitStop(s)
  PROVE  IInv'
<1> USE BrokerAssumption DEF IInv, Quit, QuitStop, Mapped, TypeOK, locks, surface, hands
<1>1. TypeOK'
  BY DEF Asked
<1>2. Unmade' /\ Listed'
  BY DEF Unmade, Listed
<1>3. Aimed' /\ Asked' /\ Given'
  BY DEF Aimed, Asked, Given, Asks, HasSurface
<1>4. LockedFor' /\ Closes'
  BY DEF LockedFor, Closes, Closing
<1>5. Starts'
  BY DEF Starts
<1>6. Accounted'
  BY DEF Accounted, Standing, HasChrome, BeingClosed, Closing, Unmade
<1> QED
  BY <1>1, <1>2, <1>3, <1>4, <1>5, <1>6

(* A surface thread moves on: launched, out of its loop, dead, torn down.    *)
LEMMA ThreadKeeps ==
  ASSUME IInv, NEW s \in Surf, Launch(s) \/ LoopEnds(s) \/ Dies(s) \/ TornDown(s)
  PROVE  IInv'
<1> USE BrokerAssumption DEF IInv, Launch, LoopEnds, Dies, TornDown, Became, Fault, TypeOK, locks, hands, Threads
<1>1. TypeOK'
  BY DEF Asked
<1>2. Unmade' /\ Listed'
  BY DEF Unmade, Listed
<1>3. Aimed' /\ Asked' /\ Given'
  BY DEF Aimed, Asked, Given, Asks, HasSurface
<1>4. LockedFor' /\ Closes'
  BY DEF LockedFor, Closes, Closing
<1>5. Starts'
  BY DEF Starts, Given, HasSurface
<1>6. Accounted'
  BY DEF Accounted, Standing, HasChrome, BeingClosed, Closing
<1> QED
  BY <1>1, <1>2, <1>3, <1>4, <1>5, <1>6

(* A surface thread serves a command of its queue.                           *)
LEMMA DrainKeeps ==
  ASSUME IInv, NEW s \in Surf, NEW c \in Caller, Drain(s, c)
  PROVE  IInv'
<1> USE BrokerAssumption DEF IInv, Drain, Finished, TypeOK, locks, hands, Stages
<1>1. TypeOK'
  BY DEF Asked
<1>2. Unmade' /\ Listed'
  BY DEF Unmade, Listed
<1>3. Aimed' /\ Asked' /\ Given'
  BY DEF Aimed, Asked, Given, Asks, HasSurface
<1>4. LockedFor' /\ Closes'
  BY DEF LockedFor, Closes, Closing
<1>5. Starts'
  BY DEF Starts
<1>6. Accounted'
  BY DEF Accounted, Standing, HasChrome, BeingClosed, Closing
<1> QED
  BY <1>1, <1>2, <1>3, <1>4, <1>5, <1>6

(* A caller begins to wait for a surface only by asking for one.            *)
LEMMA Stepping ==
  ASSUME TypeOK, Next, NEW c \in Caller, pc[c] # "wait", pc'[c] = "wait"
  PROVE  (\E g \in Slug : Ask(c, g)) \/ Fetch(c) \/ Start(c)
<1> USE DEF TypeOK, Actor
<1>1. SUFFICES ASSUME ~(\E g \in Slug : Ask(c, g)), ~Fetch(c), ~Start(c) PROVE FALSE
  OBVIOUS
<1>2. ASSUME NEW d \in Caller, d # c, NEW g \in Slug, Ask(d, g) PROVE FALSE
  BY <1>2 DEF Ask, HandOut
<1>3. ASSUME NEW d \in Caller, HasRoom(d) \/ Pick(d) \/ Evict(d) PROVE FALSE
  BY <1>3 DEF HasRoom, Pick, Evict, Take
<1>4. ASSUME NEW d \in Caller, d # c, Fetch(d) \/ Start(d) PROVE FALSE
  BY <1>4 DEF Fetch, Start, HandOut
<1>5. ASSUME NEW d \in Caller, WaitReady(d) \/ Watch(d) \/ Detach(d) \/ Submit(d) \/ GoAway(d) PROVE FALSE
  BY <1>5 DEF WaitReady, Watch, Detach, Submit, GoAway, Leave
<1>6. ASSUME NEW a \in Actor, Stop(a) \/ Join(a) PROVE FALSE
  BY <1>6 DEF Stop, Join
<1>7. CASE Scan \/ Reaped \/ Quit
  BY <1>7 DEF Scan, Reaped, Quit
<1>8. ASSUME NEW s \in Surf,
             \/ Reap(s) \/ Age(s) \/ QuitStop(s) \/ Launch(s) \/ LoopEnds(s) \/ Dies(s) \/ TornDown(s)
             \/ \E d \in Caller : Drain(s, d)
      PROVE  FALSE
  BY <1>8 DEF Reap, Take, Age, QuitStop, Launch, LoopEnds, Dies, TornDown, Became, Drain
<1> QED BY <1>1, <1>2, <1>3, <1>4, <1>5, <1>6, <1>7, <1>8 DEF Next

(* A stutter keeps the invariant.                                            *)
LEMMA StutterKeeps ==
  ASSUME IInv, UNCHANGED vars
  PROVE  IInv'
<1>1. TypeOK' /\ Unmade' /\ Listed' /\ Aimed' /\ Asked' /\ Given'
  BY DEF IInv, vars, TypeOK, Unmade, Listed, Aimed, Asked, Given, Asks, HasSurface
<1>2. LockedFor' /\ Closes' /\ Starts' /\ Accounted'
  BY DEF IInv, vars, LockedFor, Closes, Starts, Closing, Accounted, Standing, HasChrome, BeingClosed
<1> QED BY <1>1, <1>2 DEF IInv

(* The invariant: every surface that has a Chrome, or will have one, is in   *)
(* the map, or in the hands of whoever holds its slug's lifecycle lock, as   *)
(* long as no Chrome of the slug was let go of before its end.               *)
THEOREM InductiveInvariant == Spec => []IInv
<1>1. Init => IInv
  <2> SUFFICES ASSUME Init PROVE IInv
    OBVIOUS
  <2>1. TypeOK /\ Unmade /\ Listed
    BY DEF Init, TypeOK, Unmade, Listed, Stages, Threads, Actor
  <2>2. Aimed /\ Asked /\ Given /\ LockedFor /\ Closes /\ Starts
    BY DEF Init, Aimed, Asked, Given, LockedFor, Closes, Starts, Asks, HasSurface, Closing, Actor
  <2>3. Accounted
    BY DEF Init, Accounted, Standing, HasChrome
  <2> QED BY <2>1, <2>2, <2>3 DEF IInv
<1>2. IInv /\ [Next]_vars => IInv'
  <2> SUFFICES ASSUME IInv, [Next]_vars PROVE IInv'
    OBVIOUS
  <2>1. CASE UNCHANGED vars
    BY <2>1, StutterKeeps
  <2>2. CASE Scan \/ Reaped \/ \E s \in Surf : Age(s)
    BY <2>2, ScanKeeps
  <2>3. CASE Quit \/ \E s \in Surf : QuitStop(s)
    BY <2>3, QuitKeeps
  <2>4. ASSUME NEW c \in Caller
        PROVE  /\ (\E g \in Slug : Ask(c, g)) \/ HasRoom(c) \/ Pick(c) => IInv'
               /\ Evict(c) \/ Fetch(c) \/ Start(c) => IInv'
               /\ WaitReady(c) \/ Watch(c) \/ Detach(c) \/ Submit(c) \/ GoAway(c) => IInv'
    BY AskKeeps, RoomKeeps, EvictKeeps, FetchKeeps, StartKeeps, CallerKeeps
  <2>5. ASSUME NEW s \in Surf
        PROVE  /\ Reap(s) => IInv'
               /\ Launch(s) \/ LoopEnds(s) \/ Dies(s) \/ TornDown(s) => IInv'
               /\ \A c \in Caller : Drain(s, c) => IInv'
    BY ReapKeeps, ThreadKeeps, DrainKeeps
  <2> QED BY <2>1, <2>2, <2>3, <2>4, <2>5, StopKeeps, JoinKeeps DEF Next
<1> QED BY <1>1, <1>2, PTL DEF Spec

(* Every variable keeps its type, whatever the slugs, callers and surfaces.  *)
THEOREM TypeCorrect == Spec => []TypeOK
<1>1. IInv => TypeOK
  BY DEF IInv
<1> QED BY <1>1, InductiveInvariant, PTL

(* Two Chromes of one slug would both be its mapped surface, or both be in    *)
(* the hands of the one holder of its lock, or one each: the holder keeps the *)
(* map entry empty.                                                          *)
THEOREM ProfilesAreSingle == Spec => []OneChromePerProfile
<1>1. IInv => OneChromePerProfile
  <2> SUFFICES ASSUME IInv, NEW s \in Surf, NEW t \in Surf,
                      HasChrome(s), HasChrome(t), slugOf[s] = slugOf[t], s # t, slugOf[s] \notin loose
               PROVE  FALSE
    BY DEF OneChromePerProfile
  <2>1. slugOf[s] \in Slug
    BY DEF IInv, TypeOK, Unmade, HasChrome
  <2>2. (map[slugOf[s]] = s \/ BeingClosed(s)) /\ (map[slugOf[s]] = t \/ BeingClosed(t))
    BY DEF IInv, Accounted, Standing
  <2>3. BeingClosed(s) \/ BeingClosed(t) => map[slugOf[s]] = None
    BY <2>1 DEF IInv, LockedFor, BeingClosed, Closing
  <2> QED BY <2>2, <2>3, BrokerAssumption DEF BeingClosed
<1> QED BY <1>1, InductiveInvariant, PTL

(* A surface in the map has not been told to stop, so that its end shows.    *)
THEOREM CrashedNeverHandedOut == Spec => CrashedIsReplaced
<1> DEFINE Replaced == \A c \in Caller : HandedOver(c) => ~(thread[got'[c]] = "gone")
<1>1. ASSUME IInv, Next, NEW c \in Caller, HandedOver(c) PROVE thread[got'[c]] # "gone"
  <2> USE <1>1 DEF IInv, TypeOK
  <2>1. c \in Actor /\ pc[c] # "wait" /\ pc'[c] = "wait"
    BY DEF HandedOver, Actor
  <2>2. ASSUME NEW g \in Slug, Usable(map[g]) PROVE thread[map[g]] # "gone"
    BY <2>2 DEF Usable, IsDead, Listed
  <2>3. (\E g \in Slug : Ask(c, g)) \/ Fetch(c) \/ Start(c)
    BY <2>1, Stepping
  <2>4. ASSUME NEW g \in Slug, Ask(c, g) PROVE thread[got'[c]] # "gone"
    BY <2>1, <2>2, <2>4 DEF Ask, HandOut
  <2>5. CASE Fetch(c)
    BY <2>1, <2>2, <2>5 DEF Fetch, HandOut, Asked, Asks
  <2>6. CASE Start(c)
    BY <2>1, <2>6 DEF Start, Starts, hands
  <2> QED BY <2>3, <2>4, <2>5, <2>6
<1>2. IInv /\ [Next]_vars => [Replaced]_vars
  BY <1>1
<1> QED BY <1>2, InductiveInvariant, PTL DEF Spec, CrashedIsReplaced

(* What the reaper closes is not in the map.                                *)
LEMMA MappedSpared ==
  ASSUME IInv, Closing(Reaper), NEW g \in Slug, map[g] # None
  PROVE  map[g] # prey[Reaper]
<1>1. slugOf[prey[Reaper]] \in Slug /\ lock[slugOf[prey[Reaper]]] = Reaper
  BY DEF IInv, Aimed, Closes, Closing, Actor
<1>2. map[slugOf[prey[Reaper]]] = None
  BY <1>1, BrokerAssumption DEF IInv, LockedFor, Actor
<1> QED BY <1>2 DEF IInv, Listed

(* No step takes the stamp off a surface that was handed out and not used    *)
(* yet, nor lets the reaper near it.                                         *)
LEMMA HandsKept ==
  ASSUME IInv, HInv, [Next]_vars
  PROVE  HInv'
<1> USE BrokerAssumption DEF IInv, HInv, TypeOK, Actor, Stamped, Counted, ReaperSparesHands, Spares, InHand, locks, surface, hands
<1>1. ASSUME NEW c \in Caller, NEW g \in Slug, Ask(c, g) PROVE HInv'
  <2>1. CASE Usable(map[g])
    <3>1. Closing(Reaper) => map[g] # prey[Reaper]
      BY <2>1, MappedSpared DEF Usable
    <3> QED BY <1>1, <2>1, <3>1 DEF Ask, HandOut, Usable, Closing
  <2>2. CASE ~Usable(map[g])
    BY <1>1, <2>2 DEF Ask
  <2> QED BY <2>1, <2>2
<1>2. ASSUME NEW c \in Caller, HasRoom(c) \/ Pick(c) PROVE HInv'
  BY <1>2 DEF HasRoom, Pick
<1>3. ASSUME NEW c \in Caller, Evict(c) PROVE HInv'
  BY <1>3 DEF Evict, Take
<1>4. ASSUME NEW c \in Caller, Fetch(c) PROVE HInv'
  <2>1. want[c] \in Slug
    BY <1>4 DEF Fetch, Asked, Asks
  <2>2. CASE Usable(map[want[c]])
    <3>1. Closing(Reaper) => map[want[c]] # prey[Reaper]
      BY <2>1, <2>2, MappedSpared DEF Usable
    <3> QED BY <1>4, <2>1, <2>2, <3>1 DEF Fetch, HandOut, Usable, Closing
  <2>3. CASE ~Usable(map[want[c]])
    BY <1>4, <2>3 DEF Fetch, Unmade
  <2> QED BY <2>2, <2>3
<1>5. ASSUME NEW c \in Caller, Start(c) PROVE HInv'
  BY <1>5 DEF Start, Closes, LockedFor, Starts, Closing, Aimed
<1>6. ASSUME NEW c \in Caller, WaitReady(c) \/ GoAway(c) PROVE HInv'
  BY <1>6 DEF WaitReady, GoAway, Leave
<1>7. ASSUME NEW c \in Caller, Watch(c) PROVE HInv'
  BY <1>7 DEF Watch
<1>8. ASSUME NEW c \in Caller, Detach(c) PROVE HInv'
  <2>1. Stamped' /\ Counted'
    BY <1>8 DEF Detach, Leave
  <2>2. (\A s \in Surf : viewer'[s] \in {viewer[s], None}) /\ prey' = prey /\ pc'[Reaper] = pc[Reaper]
    BY <1>8 DEF Detach, Leave
  <2>3. \A d \in Caller : (pc'[d] = pc[d] /\ got'[d] = got[d]) \/ pc'[d] = "idle"
    BY <1>8 DEF Detach, Leave
  <2>4. ReaperSparesHands'
    BY <2>2, <2>3 DEF Aimed
  <2> QED BY <2>1, <2>4
<1>9. ASSUME NEW c \in Caller, Submit(c) PROVE HInv'
  BY <1>9 DEF Submit, Leave, Given, HasSurface
<1>10. ASSUME NEW a \in Actor, Stop(a) PROVE HInv'
  BY <1>10 DEF Stop
<1>11. ASSUME NEW a \in Actor, Join(a) PROVE HInv'
  BY <1>11 DEF Join
<1>12. CASE Scan \/ Reaped \/ Quit
  BY <1>12 DEF Scan, Reaped, Quit
<1>13. ASSUME NEW s \in Surf, Reap(s) PROVE HInv'
  BY <1>13 DEF Reap, Take, Spent, Idle
<1>14. ASSUME NEW s \in Surf, Age(s) PROVE HInv'
  BY <1>14 DEF Age, Idle
<1>15. ASSUME NEW s \in Surf, QuitStop(s) PROVE HInv'
  BY <1>15 DEF QuitStop
<1>16. ASSUME NEW s \in Surf, Launch(s) \/ LoopEnds(s) \/ Dies(s) \/ TornDown(s) PROVE HInv'
  BY <1>16 DEF Launch, LoopEnds, Dies, TornDown, Became
<1>17. ASSUME NEW s \in Surf, NEW c \in Caller, Drain(s, c) PROVE HInv'
  BY <1>17 DEF Drain, Finished
<1>18. CASE UNCHANGED vars
  BY <1>18 DEF vars
<1> QED
  BY <1>1, <1>2, <1>3, <1>4, <1>5, <1>6, <1>7, <1>8, <1>9, <1>10, <1>11, <1>12, <1>13, <1>14, <1>15, <1>16, <1>17, <1>18
  DEF Next

(* The reaper takes a surface only when it is not in the map under a fresh   *)
(* stamp, with nothing in flight and nobody watching; and one it has taken is *)
(* no longer in the map, so that nobody gets it after.                       *)
THEOREM ReaperIsSafe == Spec => []ReaperSparesHands
<1>1. Init => HInv
  BY DEF Init, HInv, Stamped, Counted, ReaperSparesHands, Spares, Actor
<1>2. IInv /\ HInv /\ [Next]_vars => HInv'
  BY HandsKept
<1>3. HInv => ReaperSparesHands
  BY DEF HInv
<1> QED BY <1>1, <1>2, <1>3, InductiveInvariant, PTL DEF Spec

-----------------------------------------------------------------------------
(* The Applier's window (ApplierWindow, as MCBrowser composes it).            *)

(* The Chrome that is up is the one of the profile, and while it is being     *)
(* launched, or taken apart, that is known by who has the tab lock.          *)
ChromeHeld ==
  /\ up \subseteq {profile}
  /\ up # {} => pw /\ (context = None => dying # None)
  /\ context # None => context = profile
  /\ dying # None => dying = profile /\ context = None /\ tabLock = Closer
  /\ \A r \in Run : at[r] = "launching" => profile \in Win /\ pw /\ context = None

(* What a run refers to at every stage, *)
StageOfPage ==
  \A r \in Run :
    /\ tabs[r] # None => at[r] = "tab"
    /\ own[r] # None => at[r] \in {"paging", "blanking", "leaving", "last"}
    /\ heard[r] # None => at[r] = "paging"

(* and that a page, open or not, is referred to once: as a tab, as the spare  *)
(* one, or by the run that is opening it or done with it.                    *)
Apart(r, q) ==
  /\ tabs[r] # None =>
       tabs[r] \notin {own[q], heard[q], spare} /\ (r # q => tabs[r] # tabs[q])
  /\ spare # None => spare \notin {own[q], heard[q]}
  /\ own[r] # None /\ r # q => own[r] \notin {own[q], heard[q]}
PagesApart == \A r, q \in Run : Apart(r, q)

(* An open page is in a window that is up, and while a run attaches to a new  *)
(* window the pages in it are nobody's.                                      *)
PagesShown == \A p \in Page : shownIn[p] # None => shownIn[p] \in up
NewPages ==
  \A r \in Run : at[r] = "attaching" =>
    \A p \in Page : shownIn[p] # None =>
      p # spare /\ \A q \in Run : p \notin {tabs[q], own[q], heard[q]}

WindowInv ==
  Window!TypeOK /\ ChromeHeld /\ StageOfPage /\ PagesApart /\ PagesShown /\ NewPages

LEMMA AskWindow == ASSUME WindowInv, NEW r \in Run, Window!Ask(r) PROVE WindowInv'
<1>1. Window!TypeOK'
  BY DEF Window!TypeOK, Window!Stages, Window!Ask, Window!win, Window!pages, Window!runs, Window!past, WindowInv
<1>2. ChromeHeld'
  BY DEF ChromeHeld, Window!Ask, Window!win, Window!pages, Window!runs, WindowInv
<1>3. StageOfPage'
  BY DEF StageOfPage, Window!Ask, Window!runs, WindowInv
<1>4. PagesApart'
  BY DEF PagesApart, Apart, Window!Ask, Window!pages, Window!runs, WindowInv
<1>5. PagesShown'
  BY DEF PagesShown, Window!Ask, Window!pages, WindowInv
<1>6. NewPages'
  BY DEF NewPages, Window!Ask, Window!pages, Window!runs, WindowInv
<1> QED BY <1>1, <1>2, <1>3, <1>4, <1>5, <1>6 DEF WindowInv

LEMMA EnterWindow == ASSUME WindowInv, NEW r \in Run, Window!Enter(r) PROVE WindowInv'
<1>1. Window!TypeOK'
  <2>1. timer' = FALSE /\ pw' \in {pw, TRUE} /\ UNCHANGED <<cdp, early, stranded>>
    BY DEF Window!Enter, Window!Closed, Window!FreshWin, Window!win, Window!pages, Window!runs, Window!past,
       WindowInv
  <2>2. {cdp, pw, timer, early, stranded}' \subseteq BOOLEAN
    BY <2>1 DEF Window!TypeOK, WindowInv
  <2>3. {fired, failed, user}' \subseteq Nat
    BY DEF Window!TypeOK, Window!Enter, Window!ExpectPage, Window!Closed, Window!FreshWin, Window!win,
       Window!pages, Window!runs, Window!past, WindowInv
  <2>4. tabLock' \in Run \cup {Closer, None}
        /\ \A q \in Run : tabLock' = q <=> at'[q] \in {"launching", "attaching", "paging"}
    BY WindowAssumption DEF Window!TypeOK, Window!Enter, Window!HandSpare, Window!Hand, Window!ExpectPage,
       Window!Closed, Window!FreshWin, Window!win, Window!pages, Window!runs, Window!past, WindowInv
  <2>5. at' \in [Run -> Window!Stages]
    BY DEF Window!TypeOK, Window!Stages, Window!Enter, Window!HandSpare, Window!Hand, Window!ExpectPage,
       Window!Closed, Window!FreshWin, Window!win, Window!pages, Window!runs, Window!past, WindowInv
  <2>6. /\ tabs' \in [Run -> Page \cup {None}] /\ own' \in [Run -> Page \cup {None}]
        /\ heard' \in [Run -> Page \cup {None}] /\ spare' \in Page \cup {None}
    BY DEF Window!TypeOK, Window!Enter, Window!HandSpare, Window!Hand, Window!ExpectPage, Window!Closed,
       Window!FreshWin, Window!win, Window!pages, Window!runs, Window!past, WindowInv
  <2>7. /\ context' \in Win \cup {None} /\ profile' \in Win \cup {None} /\ dying' \in Win \cup {None}
        /\ up' \subseteq Win /\ shownIn' \in [Page -> Win \cup {None}] /\ opener' \in [Page -> {"app", "site"}]
    BY DEF Window!TypeOK, Window!Enter, Window!ExpectPage, Window!Closed, Window!FreshWin, Window!win,
       Window!pages, Window!runs, Window!past, WindowInv
  <2> QED BY <2>2, <2>3, <2>4, <2>5, <2>6, <2>7 DEF Window!TypeOK
<1>2. ChromeHeld'
  BY WindowAssumption DEF Window!TypeOK, ChromeHeld, Window!Enter, Window!HandSpare, Window!Hand,
     Window!ExpectPage, Window!Closed, Window!FreshWin, Window!win, Window!pages, Window!runs, WindowInv
<1>3. StageOfPage'
  BY DEF Window!TypeOK, StageOfPage, Window!Enter, Window!HandSpare, Window!Hand, Window!ExpectPage,
     Window!Closed, Window!FreshWin, Window!runs, WindowInv
<1>4. PagesApart'
  BY DEF Window!TypeOK, PagesApart, Apart, Window!Enter, Window!HandSpare, Window!Hand, Window!ExpectPage,
     Window!Closed, Window!FreshWin, Window!pages, Window!runs, WindowInv
<1>5. PagesShown'
  BY DEF PagesShown, Window!Enter, Window!HandSpare, Window!Hand, Window!ExpectPage, Window!Closed,
     Window!FreshWin, Window!pages, WindowInv
<1>6. NewPages'
  BY DEF Window!TypeOK, NewPages, Window!Enter, Window!HandSpare, Window!Hand, Window!ExpectPage,
     Window!Closed, Window!FreshWin, Window!pages, Window!runs, WindowInv
<1> QED BY <1>1, <1>2, <1>3, <1>4, <1>5, <1>6 DEF WindowInv

LEMMA LaunchFailsWindow == ASSUME WindowInv, NEW r \in Run, Window!LaunchFails(r) PROVE WindowInv'
<1>1. Window!TypeOK'
  BY WindowAssumption DEF Window!TypeOK, Window!Stages, Window!LaunchFails, Window!Fails, Window!Fault,
     Window!win, Window!pages, Window!runs, Window!past, WindowInv
<1>2. ChromeHeld'
  BY WindowAssumption DEF Window!TypeOK, ChromeHeld, Window!LaunchFails, Window!Fails, Window!Fault,
     Window!win, Window!pages, Window!runs, WindowInv
<1>3. StageOfPage'
  BY DEF StageOfPage, Window!LaunchFails, Window!Fails, Window!Fault, Window!runs, WindowInv
<1>4. PagesApart'
  BY DEF PagesApart, Apart, Window!LaunchFails, Window!Fails, Window!Fault, Window!pages, Window!runs, WindowInv
<1>5. PagesShown'
  BY DEF PagesShown, Window!LaunchFails, Window!Fails, Window!Fault, Window!pages, WindowInv
<1>6. NewPages'
  BY DEF NewPages, Window!LaunchFails, Window!Fails, Window!Fault, Window!pages, Window!runs, WindowInv,
     StageOfPage
<1> QED BY <1>1, <1>2, <1>3, <1>4, <1>5, <1>6 DEF WindowInv

LEMMA LaunchedWindow == ASSUME WindowInv, NEW r \in Run, Window!Launched(r) PROVE WindowInv'
<1>1. Window!TypeOK'
  BY DEF Window!TypeOK, Window!Stages, Window!Launched, Window!PageOpens, Window!FreshPage, Window!Closed,
     Window!win, Window!pages, Window!runs, Window!past, WindowInv, ChromeHeld
<1>2. ChromeHeld'
  BY WindowAssumption DEF Window!TypeOK, ChromeHeld, Window!Launched, Window!PageOpens, Window!FreshPage,
     Window!Closed, Window!win, Window!pages, Window!runs, WindowInv
<1>3. StageOfPage'
  BY DEF StageOfPage, Window!Launched, Window!PageOpens, Window!FreshPage, Window!Closed, Window!runs, WindowInv
<1>4. PagesApart'
  BY DEF PagesApart, Apart, Window!Launched, Window!PageOpens, Window!FreshPage, Window!Closed,
     Window!pages, Window!runs, WindowInv
<1>5. PagesShown'
  BY DEF PagesShown, Window!Launched, Window!PageOpens, Window!FreshPage, Window!Closed, Window!pages, WindowInv
<1>6. NewPages'
  BY WindowAssumption DEF Window!TypeOK, NewPages, Window!Launched, Window!PageOpens, Window!FreshPage,
     Window!Closed, Window!pages, Window!runs, PagesShown, WindowInv, ChromeHeld
<1> QED BY <1>1, <1>2, <1>3, <1>4, <1>5, <1>6 DEF WindowInv

LEMMA AttachedWindow == ASSUME WindowInv, NEW r \in Run, Window!Attached(r) PROVE WindowInv'
<1>1. Window!TypeOK'
  BY WindowAssumption DEF Window!TypeOK, Window!Stages, Window!Attached, Window!HandSpare, Window!Hand,
     Window!ExpectPage, Window!win, Window!pages, Window!runs, Window!past, WindowInv
<1>2. ChromeHeld'
  BY WindowAssumption DEF Window!TypeOK, ChromeHeld, Window!Attached, Window!HandSpare, Window!Hand,
     Window!ExpectPage, Window!win, Window!pages, Window!runs, WindowInv
<1>3. StageOfPage'
  BY DEF Window!TypeOK, StageOfPage, Window!Attached, Window!HandSpare, Window!Hand, Window!ExpectPage,
     Window!runs, WindowInv
<1>4. PagesApart'
  BY DEF Window!TypeOK, PagesApart, Apart, Window!Attached, Window!HandSpare, Window!Hand,
     Window!ExpectPage, Window!pages, Window!runs, NewPages, WindowInv, ChromeHeld
<1>5. PagesShown'
  BY DEF PagesShown, Window!Attached, Window!HandSpare, Window!Hand, Window!ExpectPage, Window!pages, WindowInv
<1>6. NewPages'
  BY DEF Window!TypeOK, NewPages, Window!Attached, Window!HandSpare, Window!Hand, Window!ExpectPage,
     Window!pages, Window!runs, WindowInv
<1> QED BY <1>1, <1>2, <1>3, <1>4, <1>5, <1>6 DEF WindowInv

LEMMA AttachFailsWindow == ASSUME WindowInv, NEW r \in Run, Window!AttachFails(r) PROVE WindowInv'
<1>1. Window!TypeOK'
  BY WindowAssumption DEF Window!TypeOK, Window!Stages, Window!AttachFails, Window!Fails, Window!Fault,
     Window!win, Window!pages, Window!runs, Window!past, WindowInv
<1>2. ChromeHeld'
  BY WindowAssumption DEF Window!TypeOK, ChromeHeld, Window!AttachFails, Window!Fails, Window!Fault,
     Window!win, Window!pages, Window!runs, WindowInv
<1>3. StageOfPage'
  BY DEF StageOfPage, Window!AttachFails, Window!Fails, Window!Fault, Window!runs, WindowInv
<1>4. PagesApart'
  BY DEF PagesApart, Apart, Window!AttachFails, Window!Fails, Window!Fault, Window!pages, Window!runs, WindowInv
<1>5. PagesShown'
  BY DEF PagesShown, Window!AttachFails, Window!Fails, Window!Fault, Window!pages, WindowInv
<1>6. NewPages'
  BY DEF NewPages, Window!AttachFails, Window!Fails, Window!Fault, Window!pages, Window!runs, WindowInv,
     StageOfPage
<1> QED BY <1>1, <1>2, <1>3, <1>4, <1>5, <1>6 DEF WindowInv

LEMMA TargetOpensWindow == ASSUME WindowInv, NEW r \in Run, Window!TargetOpens(r) PROVE WindowInv'
<1>1. Window!TypeOK'
  BY DEF Window!TypeOK, Window!TargetOpens, Window!PageOpens, Window!FreshPage, Window!Closed, Window!win,
     Window!pages, Window!runs, Window!past, WindowInv
<1>2. ChromeHeld'
  BY DEF ChromeHeld, Window!TargetOpens, Window!PageOpens, Window!FreshPage, Window!Closed, Window!win,
     Window!pages, Window!runs, WindowInv
<1>3. StageOfPage'
  BY DEF StageOfPage, Window!TargetOpens, Window!PageOpens, Window!FreshPage, Window!Closed, Window!runs,
     WindowInv
<1>4. PagesApart'
  BY DEF Window!TypeOK, PagesApart, Apart, Window!TargetOpens, Window!PageOpens, Window!FreshPage,
     Window!Closed, Window!pages, Window!runs, WindowInv
<1>5. PagesShown'
  BY DEF PagesShown, Window!TargetOpens, Window!PageOpens, Window!FreshPage, Window!Closed, Window!pages,
     WindowInv
<1>6. NewPages'
  BY DEF Window!TypeOK, NewPages, Window!TargetOpens, Window!PageOpens, Window!FreshPage, Window!Closed,
     Window!pages, Window!runs, WindowInv
<1> QED BY <1>1, <1>2, <1>3, <1>4, <1>5, <1>6 DEF WindowInv

LEMMA PagedWindow == ASSUME WindowInv, NEW r \in Run, Window!Paged(r) PROVE WindowInv'
<1>1. Window!TypeOK'
  BY WindowAssumption DEF Window!TypeOK, Window!Stages, Window!Paged, Window!Hand, Window!win, Window!pages,
     Window!runs, Window!past, WindowInv
<1>2. ChromeHeld'
  BY WindowAssumption DEF Window!TypeOK, ChromeHeld, Window!Paged, Window!Hand, Window!win, Window!pages,
     Window!runs, WindowInv
<1>3. StageOfPage'
  BY DEF Window!TypeOK, StageOfPage, Window!Paged, Window!Hand, Window!runs, WindowInv
<1>4. PagesApart'
  BY DEF Window!TypeOK, PagesApart, Apart, Window!Paged, Window!Hand, Window!pages, Window!runs, WindowInv,
     StageOfPage
<1>5. PagesShown'
  BY DEF PagesShown, Window!Paged, Window!Hand, Window!pages, WindowInv
<1>6. NewPages'
  BY DEF NewPages, Window!Paged, Window!Hand, Window!pages, Window!runs, WindowInv, StageOfPage
<1> QED BY <1>1, <1>2, <1>3, <1>4, <1>5, <1>6 DEF WindowInv

LEMMA PageFailsWindow == ASSUME WindowInv, NEW r \in Run, Window!PageFails(r) PROVE WindowInv'
<1>1. Window!TypeOK'
  BY WindowAssumption DEF Window!TypeOK, Window!Stages, Window!PageFails, Window!Fails, Window!Fault,
     Window!win, Window!pages, Window!runs, Window!past, WindowInv
<1>2. ChromeHeld'
  BY WindowAssumption DEF Window!TypeOK, ChromeHeld, Window!PageFails, Window!Fails, Window!Fault,
     Window!win, Window!pages, Window!runs, WindowInv
<1>3. StageOfPage'
  BY DEF Window!TypeOK, StageOfPage, Window!PageFails, Window!Fails, Window!Fault, Window!runs, WindowInv
<1>4. PagesApart'
  BY DEF PagesApart, Apart, Window!PageFails, Window!Fails, Window!Fault, Window!pages, Window!runs, WindowInv
<1>5. PagesShown'
  BY DEF PagesShown, Window!PageFails, Window!Fails, Window!Fault, Window!pages, WindowInv
<1>6. NewPages'
  BY DEF NewPages, Window!PageFails, Window!Fails, Window!Fault, Window!pages, Window!runs, WindowInv,
     StageOfPage
<1> QED BY <1>1, <1>2, <1>3, <1>4, <1>5, <1>6 DEF WindowInv

LEMMA DoneWindow == ASSUME WindowInv, NEW r \in Run, Window!Done(r) PROVE WindowInv'
<1>1. Window!TypeOK'
  <2>1. /\ timer' \in {timer, TRUE} /\ early' \in {TRUE, FALSE} /\ stranded' \in {stranded, FALSE}
        /\ UNCHANGED <<cdp, pw>>
    BY DEF Window!Done, Window!SetTimer, Window!Closed, Window!win, Window!pages, Window!runs, Window!past,
       WindowInv
  <2>2. {cdp, pw, timer, early, stranded}' \subseteq BOOLEAN
    BY <2>1 DEF Window!TypeOK, WindowInv
  <2>3. {fired, failed, user}' \subseteq Nat
    BY DEF Window!TypeOK, Window!Done, Window!SetTimer, Window!Closed, Window!win, Window!pages,
       Window!runs, Window!past, WindowInv
  <2>4. tabLock' \in Run \cup {Closer, None}
        /\ \A q \in Run : tabLock' = q <=> at'[q] \in {"launching", "attaching", "paging"}
    BY DEF Window!TypeOK, Window!Done, Window!Back, Window!OthersHaveTabs, Window!SetTimer, Window!Closed,
       Window!win, Window!pages, Window!runs, Window!past, WindowInv
  <2>5. at' \in [Run -> Window!Stages]
    BY DEF Window!TypeOK, Window!Stages, Window!Done, Window!Back, Window!OthersHaveTabs, Window!SetTimer,
       Window!Closed, Window!win, Window!pages, Window!runs, Window!past, WindowInv
  <2>6. /\ tabs' \in [Run -> Page \cup {None}] /\ own' \in [Run -> Page \cup {None}]
        /\ heard' \in [Run -> Page \cup {None}] /\ spare' \in Page \cup {None}
    BY DEF Window!TypeOK, Window!Done, Window!Back, Window!OthersHaveTabs, Window!SetTimer, Window!Closed,
       Window!win, Window!pages, Window!runs, Window!past, WindowInv
  <2>7. /\ context' \in Win \cup {None} /\ profile' \in Win \cup {None} /\ dying' \in Win \cup {None}
        /\ up' \subseteq Win /\ shownIn' \in [Page -> Win \cup {None}] /\ opener' \in [Page -> {"app", "site"}]
    BY DEF Window!TypeOK, Window!Done, Window!SetTimer, Window!Closed, Window!win, Window!pages,
       Window!runs, Window!past, WindowInv
  <2> QED BY <2>2, <2>3, <2>4, <2>5, <2>6, <2>7 DEF Window!TypeOK
<1>2. ChromeHeld'
  BY DEF Window!TypeOK, ChromeHeld, Window!Done, Window!Back, Window!OthersHaveTabs, Window!SetTimer,
     Window!Closed, Window!win, Window!pages, Window!runs, WindowInv
<1>3. StageOfPage'
  BY DEF Window!TypeOK, StageOfPage, Window!Done, Window!Back, Window!OthersHaveTabs, Window!SetTimer,
     Window!Closed, Window!runs, WindowInv
<1>4. PagesApart'
  BY DEF Window!TypeOK, PagesApart, Apart, Window!Done, Window!Back, Window!OthersHaveTabs, Window!SetTimer,
     Window!Closed, Window!pages, Window!runs, WindowInv
<1>5. PagesShown'
  BY DEF PagesShown, Window!Done, Window!Back, Window!OthersHaveTabs, Window!SetTimer, Window!Closed,
     Window!pages, WindowInv
<1>6. NewPages'
  BY DEF Window!TypeOK, NewPages, Window!Done, Window!Back, Window!OthersHaveTabs, Window!SetTimer,
     Window!Closed, Window!pages, Window!runs, WindowInv, StageOfPage
<1> QED BY <1>1, <1>2, <1>3, <1>4, <1>5, <1>6 DEF WindowInv

LEMMA BlankedWindow == ASSUME WindowInv, NEW r \in Run, Window!Blanked(r) PROVE WindowInv'
<1>1. Window!TypeOK'
  <2>1. /\ timer' \in {timer, TRUE} /\ early' \in {TRUE, FALSE} /\ stranded' \in {stranded, FALSE}
        /\ UNCHANGED <<cdp, pw>>
    BY DEF Window!Blanked, Window!SetTimer, Window!win, Window!pages, Window!runs, Window!past, WindowInv
  <2>2. {cdp, pw, timer, early, stranded}' \subseteq BOOLEAN
    BY <2>1 DEF Window!TypeOK, WindowInv
  <2>3. {fired, failed, user}' \subseteq Nat
    BY DEF Window!TypeOK, Window!Blanked, Window!Closed, Window!win, Window!pages, Window!runs, Window!past,
       WindowInv
  <2>4. tabLock' \in Run \cup {Closer, None}
        /\ \A q \in Run : tabLock' = q <=> at'[q] \in {"launching", "attaching", "paging"}
    BY DEF Window!TypeOK, Window!Blanked, Window!Back, Window!SetTimer, Window!Closed, Window!win,
       Window!pages, Window!runs, Window!past, WindowInv
  <2>5. at' \in [Run -> Window!Stages]
    BY DEF Window!TypeOK, Window!Stages, Window!Blanked, Window!Back, Window!SetTimer, Window!Closed,
       Window!win, Window!pages, Window!runs, Window!past, WindowInv
  <2>6. /\ tabs' \in [Run -> Page \cup {None}] /\ own' \in [Run -> Page \cup {None}]
        /\ heard' \in [Run -> Page \cup {None}] /\ spare' \in Page \cup {None}
    BY DEF Window!TypeOK, Window!Blanked, Window!Back, Window!SetTimer, Window!Closed, Window!win,
       Window!pages, Window!runs, Window!past, WindowInv
  <2>7. /\ context' \in Win \cup {None} /\ profile' \in Win \cup {None} /\ dying' \in Win \cup {None}
        /\ up' \subseteq Win /\ shownIn' \in [Page -> Win \cup {None}] /\ opener' \in [Page -> {"app", "site"}]
    BY DEF Window!TypeOK, Window!Blanked, Window!Closed, Window!win, Window!pages, Window!runs, Window!past,
       WindowInv
  <2> QED BY <2>2, <2>3, <2>4, <2>5, <2>6, <2>7 DEF Window!TypeOK
<1>2. ChromeHeld'
  BY DEF ChromeHeld, Window!Blanked, Window!Back, Window!SetTimer, Window!Closed, Window!win, Window!pages,
     Window!runs, WindowInv
<1>3. StageOfPage'
  BY DEF Window!TypeOK, StageOfPage, Window!Blanked, Window!Back, Window!SetTimer, Window!Closed,
     Window!runs, WindowInv
<1>4. PagesApart'
  BY DEF Window!TypeOK, PagesApart, Apart, Window!Blanked, Window!Back, Window!SetTimer, Window!Closed,
     Window!pages, Window!runs, WindowInv, StageOfPage
<1>5. PagesShown'
  BY DEF PagesShown, Window!Blanked, Window!Back, Window!SetTimer, Window!Closed, Window!pages, WindowInv
<1>6. NewPages'
  BY DEF NewPages, Window!Blanked, Window!Back, Window!SetTimer, Window!Closed, Window!pages, Window!runs,
     WindowInv, StageOfPage
<1> QED BY <1>1, <1>2, <1>3, <1>4, <1>5, <1>6 DEF WindowInv

LEMMA PageClosedWindow == ASSUME WindowInv, NEW r \in Run, Window!PageClosed(r) PROVE WindowInv'
<1>1. Window!TypeOK'
  BY DEF Window!TypeOK, Window!Stages, Window!PageClosed, Window!Back, Window!SetTimer, Window!win,
     Window!pages, Window!runs, Window!past, WindowInv
<1>2. ChromeHeld'
  BY DEF ChromeHeld, Window!PageClosed, Window!Back, Window!SetTimer, Window!win, Window!pages, Window!runs,
     WindowInv
<1>3. StageOfPage'
  BY DEF Window!TypeOK, StageOfPage, Window!PageClosed, Window!Back, Window!SetTimer, Window!runs, WindowInv
<1>4. PagesApart'
  BY DEF PagesApart, Apart, Window!PageClosed, Window!Back, Window!SetTimer, Window!pages, Window!runs,
     WindowInv
<1>5. PagesShown'
  BY DEF PagesShown, Window!PageClosed, Window!Back, Window!SetTimer, Window!pages, WindowInv
<1>6. NewPages'
  BY DEF NewPages, Window!PageClosed, Window!Back, Window!SetTimer, Window!pages, Window!runs, WindowInv,
     StageOfPage
<1> QED BY <1>1, <1>2, <1>3, <1>4, <1>5, <1>6 DEF WindowInv

LEMMA FireWindow == ASSUME WindowInv, Window!Fire PROVE WindowInv'
<1>1. Window!TypeOK'
  <2>1. timer' = FALSE /\ UNCHANGED <<cdp, pw, early, stranded>>
    BY DEF Window!Fire, Window!win, Window!past, WindowInv
  <2>2. {cdp, pw, timer, early, stranded}' \subseteq BOOLEAN
    BY <2>1 DEF Window!TypeOK, WindowInv
  <2>3. {fired, failed, user}' \subseteq Nat
    BY DEF Window!TypeOK, Window!Fire, Window!runs, Window!past, WindowInv
  <2>4. tabLock' \in Run \cup {Closer, None}
        /\ \A q \in Run : tabLock' = q <=> at'[q] \in {"launching", "attaching", "paging"}
    BY DEF Window!TypeOK, Window!Fire, Window!pages, Window!runs, Window!past, WindowInv
  <2>5. at' \in [Run -> Window!Stages]
    BY DEF Window!TypeOK, Window!Fire, Window!pages, Window!runs, Window!past, WindowInv
  <2>6. /\ tabs' \in [Run -> Page \cup {None}] /\ own' \in [Run -> Page \cup {None}]
        /\ heard' \in [Run -> Page \cup {None}] /\ spare' \in Page \cup {None}
    BY DEF Window!TypeOK, Window!Fire, Window!pages, Window!runs, Window!past, WindowInv
  <2>7. /\ context' \in Win \cup {None} /\ profile' \in Win \cup {None} /\ dying' \in Win \cup {None}
        /\ up' \subseteq Win /\ shownIn' \in [Page -> Win \cup {None}] /\ opener' \in [Page -> {"app", "site"}]
    BY DEF Window!TypeOK, Window!Fire, Window!win, Window!pages, Window!runs, Window!past, WindowInv
  <2> QED BY <2>2, <2>3, <2>4, <2>5, <2>6, <2>7 DEF Window!TypeOK
<1>2. ChromeHeld'
  BY DEF ChromeHeld, Window!Fire, Window!win, Window!pages, Window!runs, WindowInv
<1>3. StageOfPage'
  BY DEF StageOfPage, Window!Fire, Window!runs, WindowInv
<1>4. PagesApart'
  BY DEF PagesApart, Apart, Window!Fire, Window!pages, Window!runs, WindowInv
<1>5. PagesShown'
  BY DEF PagesShown, Window!Fire, Window!pages, WindowInv
<1>6. NewPages'
  BY DEF NewPages, Window!Fire, Window!pages, Window!runs, WindowInv
<1> QED BY <1>1, <1>2, <1>3, <1>4, <1>5, <1>6 DEF WindowInv

LEMMA CloseIfIdleWindow == ASSUME WindowInv, Window!CloseIfIdle PROVE WindowInv'
<1>1. Window!TypeOK'
  <2>1. /\ cdp' \in {cdp, FALSE} /\ pw' \in {pw, FALSE}
        /\ UNCHANGED <<timer, early, stranded>>
    BY DEF Window!CloseIfIdle, Window!win, Window!pages, Window!runs, Window!past, WindowInv
  <2>2. {cdp, pw, timer, early, stranded}' \subseteq BOOLEAN
    BY <2>1 DEF Window!TypeOK, WindowInv
  <2>3. {fired, failed, user}' \subseteq Nat
    BY DEF Window!TypeOK, Window!CloseIfIdle, Window!win, Window!pages, Window!runs, Window!past, WindowInv
  <2>4. tabLock' \in Run \cup {Closer, None}
        /\ \A q \in Run : tabLock' = q <=> at'[q] \in {"launching", "attaching", "paging"}
    BY WindowAssumption DEF Window!TypeOK, Window!CloseIfIdle, Window!LockForClose, Window!win,
       Window!pages, Window!runs, Window!past, WindowInv
  <2>5. at' \in [Run -> Window!Stages]
    BY DEF Window!TypeOK, Window!CloseIfIdle, Window!LockForClose, Window!win, Window!pages, Window!runs,
       Window!past, WindowInv
  <2>6. /\ tabs' \in [Run -> Page \cup {None}] /\ own' \in [Run -> Page \cup {None}]
        /\ heard' \in [Run -> Page \cup {None}] /\ spare' \in Page \cup {None}
    BY DEF Window!TypeOK, Window!CloseIfIdle, Window!LockForClose, Window!win, Window!pages, Window!runs,
       Window!past, WindowInv
  <2>7. /\ context' \in Win \cup {None} /\ profile' \in Win \cup {None} /\ dying' \in Win \cup {None}
        /\ up' \subseteq Win /\ shownIn' \in [Page -> Win \cup {None}] /\ opener' \in [Page -> {"app", "site"}]
    BY DEF Window!TypeOK, Window!CloseIfIdle, Window!win, Window!pages, Window!runs, Window!past, WindowInv
  <2> QED BY <2>2, <2>3, <2>4, <2>5, <2>6, <2>7 DEF Window!TypeOK
<1>2. ChromeHeld'
  BY WindowAssumption DEF ChromeHeld, Window!CloseIfIdle, Window!NoTabs, Window!LockForClose, Window!win,
     Window!pages, Window!runs, WindowInv
<1>3. StageOfPage'
  BY DEF StageOfPage, Window!CloseIfIdle, Window!NoTabs, Window!LockForClose, Window!runs, WindowInv
<1>4. PagesApart'
  BY DEF PagesApart, Apart, Window!CloseIfIdle, Window!NoTabs, Window!LockForClose, Window!pages,
     Window!runs, WindowInv
<1>5. PagesShown'
  BY DEF PagesShown, Window!CloseIfIdle, Window!NoTabs, Window!LockForClose, Window!pages, WindowInv
<1>6. NewPages'
  BY DEF NewPages, Window!CloseIfIdle, Window!NoTabs, Window!LockForClose, Window!pages, Window!runs, WindowInv
<1> QED BY <1>1, <1>2, <1>3, <1>4, <1>5, <1>6 DEF WindowInv

LEMMA CloseDoneWindow == ASSUME WindowInv, Window!CloseDone PROVE WindowInv'
<1>1. Window!TypeOK'
  BY WindowAssumption DEF Window!TypeOK, Window!CloseDone, Window!WindowGone, Window!win, Window!pages,
     Window!runs, Window!past, WindowInv, StageOfPage
<1>2. ChromeHeld'
  BY WindowAssumption DEF Window!TypeOK, ChromeHeld, Window!CloseDone, Window!WindowGone, Window!win,
     Window!pages, Window!runs, WindowInv
<1>3. StageOfPage'
  BY DEF StageOfPage, Window!CloseDone, Window!WindowGone, Window!runs, WindowInv
<1>4. PagesApart'
  BY DEF PagesApart, Apart, Window!CloseDone, Window!WindowGone, Window!pages, Window!runs, WindowInv
<1>5. PagesShown'
  BY DEF PagesShown, Window!CloseDone, Window!WindowGone, Window!pages, WindowInv
<1>6. NewPages'
  BY DEF NewPages, Window!CloseDone, Window!WindowGone, Window!pages, Window!runs, WindowInv
<1> QED BY <1>1, <1>2, <1>3, <1>4, <1>5, <1>6 DEF WindowInv

LEMMA ForgetWindow == ASSUME WindowInv, Window!Forget PROVE WindowInv'
<1>1. Window!TypeOK'
  BY DEF Window!TypeOK, Window!Forget, Window!pages, Window!runs, Window!past, WindowInv
<1>2. ChromeHeld'
  BY DEF ChromeHeld, Window!Forget, Window!win, Window!pages, Window!runs, WindowInv
<1>3. StageOfPage'
  BY DEF StageOfPage, Window!Forget, Window!runs, WindowInv
<1>4. PagesApart'
  BY DEF PagesApart, Apart, Window!Forget, Window!pages, Window!runs, WindowInv
<1>5. PagesShown'
  BY DEF PagesShown, Window!Forget, Window!pages, WindowInv
<1>6. NewPages'
  BY DEF NewPages, Window!Forget, Window!pages, Window!runs, WindowInv, StageOfPage
<1> QED BY <1>1, <1>2, <1>3, <1>4, <1>5, <1>6 DEF WindowInv

LEMMA SiteOpensWindow == ASSUME WindowInv, NEW w \in Win, Window!SiteOpens(w) PROVE WindowInv'
<1>1. Window!TypeOK'
  BY DEF Window!TypeOK, Window!SiteOpens, Window!User, Window!PageOpens, Window!FreshPage, Window!Closed,
     Window!win, Window!pages, Window!runs, Window!past, WindowInv
<1>2. ChromeHeld'
  BY DEF ChromeHeld, Window!SiteOpens, Window!User, Window!PageOpens, Window!FreshPage, Window!Closed,
     Window!win, Window!pages, Window!runs, WindowInv
<1>3. StageOfPage'
  BY DEF StageOfPage, Window!SiteOpens, Window!User, Window!PageOpens, Window!FreshPage, Window!Closed,
     Window!runs, WindowInv
<1>4. PagesApart'
  BY DEF PagesApart, Apart, Window!SiteOpens, Window!User, Window!PageOpens, Window!FreshPage,
     Window!Closed, Window!pages, Window!runs, WindowInv
<1>5. PagesShown'
  BY DEF PagesShown, Window!SiteOpens, Window!User, Window!PageOpens, Window!FreshPage, Window!Closed,
     Window!pages, WindowInv
<1>6. NewPages'
  BY DEF Window!TypeOK, NewPages, Window!SiteOpens, Window!User, Window!PageOpens, Window!FreshPage,
     Window!Closed, Window!pages, Window!runs, WindowInv
<1> QED BY <1>1, <1>2, <1>3, <1>4, <1>5, <1>6 DEF WindowInv

LEMMA QuitsWindow == ASSUME WindowInv, NEW w \in Win, Window!Quits(w) PROVE WindowInv'
<1>1. Window!TypeOK'
  BY DEF Window!TypeOK, Window!Quits, Window!User, Window!WindowGone, Window!win, Window!pages, Window!runs,
     Window!past, WindowInv
<1>2. ChromeHeld'
  BY DEF ChromeHeld, Window!Quits, Window!User, Window!WindowGone, Window!win, Window!pages, Window!runs,
     WindowInv
<1>3. StageOfPage'
  BY DEF StageOfPage, Window!Quits, Window!User, Window!WindowGone, Window!runs, WindowInv
<1>4. PagesApart'
  BY DEF PagesApart, Apart, Window!Quits, Window!User, Window!WindowGone, Window!pages, Window!runs, WindowInv
<1>5. PagesShown'
  BY DEF PagesShown, Window!Quits, Window!User, Window!WindowGone, Window!pages, WindowInv
<1>6. NewPages'
  BY DEF NewPages, Window!Quits, Window!User, Window!WindowGone, Window!pages, Window!runs, WindowInv
<1> QED BY <1>1, <1>2, <1>3, <1>4, <1>5, <1>6 DEF WindowInv

LEMMA ClosesTabWindow == ASSUME WindowInv, NEW p \in Page, Window!ClosesTab(p) PROVE WindowInv'
<1>1. Window!TypeOK'
  BY DEF Window!TypeOK, Window!ClosesTab, Window!User, Window!Closed, Window!win, Window!pages, Window!runs,
     Window!past, WindowInv
<1>2. ChromeHeld'
  BY DEF ChromeHeld, Window!ClosesTab, Window!User, Window!Closed, Window!win, Window!pages, Window!runs,
     WindowInv
<1>3. StageOfPage'
  BY DEF StageOfPage, Window!ClosesTab, Window!User, Window!Closed, Window!runs, WindowInv
<1>4. PagesApart'
  BY DEF PagesApart, Apart, Window!ClosesTab, Window!User, Window!Closed, Window!pages, Window!runs, WindowInv
<1>5. PagesShown'
  BY DEF PagesShown, Window!ClosesTab, Window!User, Window!Closed, Window!pages, WindowInv
<1>6. NewPages'
  BY DEF NewPages, Window!ClosesTab, Window!User, Window!Closed, Window!pages, Window!runs, WindowInv
<1> QED BY <1>1, <1>2, <1>3, <1>4, <1>5, <1>6 DEF WindowInv

LEMMA WindowInit == Window!Init => WindowInv
<1> SUFFICES ASSUME Window!Init PROVE WindowInv
  OBVIOUS
<1>1. /\ context = None /\ profile = None /\ dying = None /\ spare = None /\ tabLock = None
      /\ cdp = FALSE /\ pw = FALSE /\ timer = FALSE /\ early = FALSE /\ stranded = FALSE
      /\ up = {} /\ fired = 0 /\ failed = 0 /\ user = 0
      /\ shownIn = [p \in Page |-> None] /\ opener = [p \in Page |-> "app"]
      /\ at = [r \in Run |-> "away"] /\ tabs = [r \in Run |-> None]
      /\ own = [r \in Run |-> None] /\ heard = [r \in Run |-> None]
  BY DEF Window!Init
<1>2. {cdp, pw, timer, early, stranded} \subseteq BOOLEAN
  BY <1>1
<1>3. Window!TypeOK
  BY <1>1, <1>2, WindowAssumption DEF Window!TypeOK, Window!Stages
<1>4. ChromeHeld /\ StageOfPage /\ PagesApart /\ PagesShown /\ NewPages
  BY <1>1 DEF ChromeHeld, StageOfPage, PagesApart, Apart, PagesShown, NewPages
<1> QED
  BY <1>3, <1>4 DEF WindowInv

LEMMA WindowStep == WindowInv /\ [Window!Next]_(Window!vars) => WindowInv'
<1> SUFFICES ASSUME WindowInv, [Window!Next]_(Window!vars) PROVE WindowInv'
  OBVIOUS
<1>1. CASE UNCHANGED Window!vars
  <2>1. UNCHANGED <<context, cdp, profile, pw, spare, tabs, tabLock, timer, up, shownIn, opener, at, own,
                    heard, fired, dying, early, stranded, failed, user>>
    BY <1>1 DEF Window!vars
  <2>2. Window!TypeOK'
    BY <2>1 DEF WindowInv, Window!TypeOK
  <2> QED BY <2>1, <2>2 DEF WindowInv, ChromeHeld, StageOfPage, PagesApart, Apart, PagesShown, NewPages
<1>2. ASSUME NEW r \in Run,
             Window!Ask(r) \/ Window!Opening(r) \/ Window!Done(r) \/ Window!Ending(r)
      PROVE  WindowInv'
  BY <1>2, AskWindow, EnterWindow, LaunchFailsWindow, LaunchedWindow, AttachedWindow, AttachFailsWindow,
     TargetOpensWindow, PagedWindow, PageFailsWindow, DoneWindow, BlankedWindow, PageClosedWindow
     DEF Window!Opening, Window!Ending
<1>3. ASSUME NEW w \in Win, Window!SiteOpens(w) \/ Window!Quits(w)
      PROVE  WindowInv'
  BY <1>3, SiteOpensWindow, QuitsWindow
<1>4. ASSUME NEW p \in Page, Window!ClosesTab(p)
      PROVE  WindowInv'
  BY <1>4, ClosesTabWindow
<1> QED
  BY <1>1, <1>2, <1>3, <1>4, FireWindow, CloseIfIdleWindow, CloseDoneWindow, ForgetWindow DEF Window!Next

(* Whatever the runs, the user and the sites open and close, a Chrome of the   *)
(* Applier that is up is the only one and stands whole, and no two runs drive  *)
(* one page (open_tab, close_tab, _close_if_idle).                           *)
THEOREM WindowKeepsWhole == Window!Spec => []WindowIsWhole
<1>1. Window!Init => WindowInv
  BY WindowInit
<1>2. WindowInv /\ [Window!Next]_(Window!vars) => WindowInv'
  BY WindowStep
<1>3. WindowInv => WindowIsWhole
  <2> SUFFICES ASSUME WindowInv PROVE WindowIsWhole
    OBVIOUS
  <2>1. Window!TypeOK /\ Window!WindowStandsWhole
    BY DEF WindowInv, ChromeHeld, Window!WindowStandsWhole
  <2>2. Window!OneRunPerTab
    BY DEF WindowInv, PagesApart, Apart, Window!OneRunPerTab
  <2> QED BY <2>1, <2>2 DEF WindowIsWhole
<1> QED
  BY <1>1, <1>2, <1>3, PTL DEF Window!Spec
===============================================================================
