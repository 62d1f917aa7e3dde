-------------------------- MODULE LiveQueriesProofs --------------------------
(* That the page never forgets a change, for every set of queries, queue size *)
(* and number of restarts.                                                    *)
EXTENDS LiveQueries, TLAPS

-----------------------------------------------------------------------------
(* What the two helpers of the bus return.                                  *)

BusType ==
  [state : {"connecting", "live", "reconnecting"},
   source : {"none", "connecting", "accepted", "open", "closed"},
   port : Gens, token : Gens, opening : SUBSET Parts,
   errors : 0 .. RebuildAfter - 1, timer : BOOLEAN]

LEMMA RebuildType ==
  ASSUME NEW b \in BusType
  PROVE  Rebuild(b) \in BusType
<1>1. 0 \in 0 .. RebuildAfter - 1
  BY LiveAssumption
<1>2. CASE b.timer
  BY <1>2 DEF Rebuild
<1>3. CASE ~b.timer
  BY <1>1, <1>3 DEF BusType, Rebuild
<1> QED
  BY <1>2, <1>3

(* An error leaves the bus reconnecting; it keeps or drops its source.      *)
LEMMA OnErrorShape ==
  ASSUME bus \in BusType, NEW after \in {"connecting", "closed"}
  PROVE  /\ OnError(after) \in BusType
         /\ OnError(after).state = "reconnecting"
         /\ OnError(after).source \in {after, "none"}
         /\ OnError(after).port = bus.port
         /\ OnError(after).opening = bus.opening
<1> DEFINE b == [bus EXCEPT !.state = "reconnecting", !.source = after]
<1>1. b \in BusType /\ b.errors = bus.errors /\ b.opening = bus.opening /\ b.port = bus.port
  BY DEF BusType
<1>2. CASE bus.errors + 1 >= RebuildAfter
  <2>1. OnError(after) = Rebuild(b)
    BY <1>2 DEF OnError
  <2>2. Rebuild(b) \in BusType
    BY <1>1, RebuildType
  <2>3. CASE b.timer
    BY <1>1, <2>1, <2>2, <2>3 DEF Rebuild, BusType
  <2>4. CASE ~b.timer
    BY <1>1, <2>1, <2>2, <2>4 DEF Rebuild, BusType
  <2> QED
    BY <2>3, <2>4
<1>3. CASE ~(bus.errors + 1 >= RebuildAfter)
  <2>1. OnError(after) = [b EXCEPT !.errors = bus.errors + 1]
    BY <1>3, <1>1 DEF OnError
  <2>2. bus.errors + 1 \in 0 .. RebuildAfter - 1
    BY <1>3, LiveAssumption DEF BusType
  <2> QED
    BY <1>1, <2>1, <2>2 DEF BusType
<1> QED
  BY <1>2, <1>3

(* What an invalidation does to the requests.                               *)
LEMMA RefetchedType ==
  ASSUME TypeOK, NEW S
  PROVE  Refetched(S) \in [Keys -> Fetches] /\ OwedAfter(S) \in [Keys -> BOOLEAN]
BY DEF TypeOK, Refetched, OwedAfter, Fetches, Sent

LEMMA InvalidateType ==
  ASSUME TypeOK, NEW S, Invalidate(S)
  PROVE  fetch' \in [Keys -> Fetches] /\ owed' \in [Keys -> BOOLEAN]
BY RefetchedType DEF Invalidate

LEMMA CallType ==
  ASSUME TypeOK, NEW k \in Keys, Call(k)
  PROVE  /\ fetch' \in [Keys -> Fetches] /\ owed' \in [Keys -> BOOLEAN]
         /\ thr' \in [Keys -> {"cold", "hot", "trailing"}]
BY InvalidateType DEF Call, TypeOK

LEMMA QueueFacts ==
  ASSUME queue \in Seq(Hint), queue # <<>>
  PROVE  /\ Head(queue) \in Hint /\ Tail(queue) \in Seq(Hint)
         /\ Len(Tail(queue)) = Len(queue) - 1
         /\ Len(queue) \in Nat \ {0}
OBVIOUS

-----------------------------------------------------------------------------
LEMMA TypeStep == TypeOK /\ [Next]_vars => TypeOK'
<1> SUFFICES ASSUME TypeOK, [Next]_vars PROVE TypeOK'
  OBVIOUS
<1> USE DEF shell, page
<1>1. CASE Spawn \/ Listen \/ Crash
  <2>1. CASE Spawn
    BY <2>1, LiveAssumption DEF TypeOK, Spawn, Gens
  <2>2. CASE Listen
    BY <2>2 DEF TypeOK, Listen
  <2>3. CASE Crash
    <3>1. queue' \in Seq(Hint) /\ Len(queue') <= QueueMax
      BY <2>3, LiveAssumption DEF Crash
    <3> QED BY <2>3, <3>1 DEF TypeOK, Crash
  <2> QED BY <1>1, <2>1, <2>2, <2>3
<1>2. CASE Receive
  <2>1. Head(queue) \in Hint /\ Tail(queue) \in Seq(Hint) /\ Len(Tail(queue)) <= QueueMax
    BY <1>2, QueueFacts, LiveAssumption DEF Receive, TypeOK
  <2>2. Head(queue).key \in Keys
    BY <2>1 DEF Hint
  <2>3. /\ fetch' \in [Keys -> Fetches] /\ owed' \in [Keys -> BOOLEAN]
        /\ thr' \in [Keys -> {"cold", "hot", "trailing"}]
    <3>1. CASE Head(queue).ended = "cancelled"
      BY <1>2, <2>2, <3>1 DEF Receive, TypeOK
    <3>2. CASE Head(queue).ended # "cancelled"
      BY <1>2, <2>2, <3>2, CallType DEF Receive
    <3> QED BY <3>1, <3>2
  <2> QED
    BY <1>2, <2>1, <2>3 DEF Receive, TypeOK
<1>3. ASSUME NEW k \in Keys, Commit(k) PROVE TypeOK'
  BY <1>3, LiveAssumption DEF TypeOK, Commit, Versions
<1>4. ASSUME NEW k \in Keys, Publish(k) PROVE TypeOK'
  <2> DEFINE full == Len(queue) = QueueMax
             kept == IF full THEN Tail(queue) ELSE queue
             said == [key |-> k, ended |-> pend[k]]
  <2>1. pend' \in [Keys -> Outcomes \cup {"none"}] /\ said \in Hint
    BY <1>4 DEF Publish, TypeOK, Hint
  <2>2. full => queue # <<>>
    BY LiveAssumption DEF TypeOK
  <2>3. kept \in Seq(Hint) /\ Len(kept) < QueueMax
    BY <2>2, QueueFacts, LiveAssumption DEF TypeOK
  <2>4. Append(kept, said) \in Seq(Hint) /\ Len(Append(kept, said)) <= QueueMax
    <3> HIDE DEF kept, said
    <3> QED BY <2>1, <2>3, LiveAssumption
  <2>5. queue' \in Seq(Hint) /\ Len(queue') <= QueueMax
    BY <1>4, <2>4 DEF Publish, TypeOK
  <2>6. owed' \in [Keys -> BOOLEAN]
    BY <1>4, <2>2, QueueFacts DEF Publish, TypeOK, Hint
  <2> QED
    BY <1>4, <2>1, <2>5, <2>6 DEF Publish, TypeOK
<1>5. ASSUME NEW k \in Keys, Mount(k) \/ Unmount(k) PROVE TypeOK'
  <2>1. CASE Mount(k)
    <3>1. mounts' \in 0 .. MaxMounts /\ mounted' \subseteq Keys
      BY <2>1, LiveAssumption DEF TypeOK, Mount
    <3>2. fetch' \in [Keys -> Fetches] /\ owed' \in [Keys -> BOOLEAN]
      BY <2>1 DEF TypeOK, Mount, Fetches, Sent
    <3> QED BY <2>1, <3>1, <3>2 DEF TypeOK, Mount
  <2>2. CASE Unmount(k)
    BY <2>2 DEF TypeOK, Unmount
  <2> QED BY <1>5, <2>1, <2>2
<1>6. ASSUME NEW k \in Keys, Answer(k) PROVE TypeOK'
  BY <1>6 DEF TypeOK, Answer, Fetches
<1>7. ASSUME NEW k \in Keys, Land(k) PROVE TypeOK'
  BY <1>7 DEF TypeOK, Land, Fetches, Idle
<1>8. ASSUME NEW k \in Keys, GiveUp(k) PROVE TypeOK'
  BY <1>8 DEF TypeOK, GiveUp, Fetches, Idle
<1>9. ASSUME NEW k \in Keys, IntervalOver(k) PROVE TypeOK'
  <2>1. CASE thr[k] = "hot"
    BY <1>9, <2>1 DEF TypeOK, IntervalOver
  <2>2. CASE thr[k] = "trailing"
    BY <1>9, <2>2, InvalidateType DEF TypeOK, IntervalOver
  <2> QED BY <1>9, <2>1, <2>2 DEF IntervalOver
<1>10. CASE BusStep
  <2>1. bus \in BusType
    BY DEF TypeOK, BusType
  <2>2. ASSUME bus' \in BusType, UNCHANGED <<shell, ver, pend, queue, page, owed>> PROVE TypeOK'
    BY <2>2 DEF TypeOK, BusType
  <2>3. ASSUME NEW x \in Parts, ReadHandshake(x) PROVE TypeOK'
    <3>1. bus' \in BusType
      BY <2>1, <2>3 DEF ReadHandshake, BusType, Parts, TypeOK
    <3> QED BY <2>2, <2>3, <3>1 DEF ReadHandshake
  <2>4. CASE HandshakeFails
    <3> DEFINE b == [bus EXCEPT !.state = "reconnecting", !.opening = {}]
    <3>1. b \in BusType
      BY <2>1 DEF BusType
    <3>2. bus' \in BusType
      BY <2>4, <3>1, RebuildType DEF HandshakeFails
    <3> QED BY <2>2, <2>4, <3>2 DEF HandshakeFails
  <2>5. CASE Accept \/ Refuse \/ Unauthorized \/ NoticeBreak \/ RebuildFires
    <3>1. bus' \in BusType
      <4>1. CASE Accept
        BY <2>1, <4>1 DEF Accept, BusType
      <4>2. CASE Refuse \/ NoticeBreak
        BY <2>1, <4>2, OnErrorShape DEF Refuse, NoticeBreak
      <4>3. CASE Unauthorized
        BY <2>1, <4>3, OnErrorShape DEF Unauthorized
      <4>4. CASE RebuildFires
        BY <2>1, <4>4 DEF RebuildFires, BusType, Parts
      <4> QED BY <2>5, <4>1, <4>2, <4>3, <4>4
    <3> QED BY <2>2, <2>5, <3>1 DEF Accept, Refuse, Unauthorized, NoticeBreak, RebuildFires
  <2>6. CASE OnOpen
    <3>1. bus' \in BusType
      <4>1. 0 \in 0 .. RebuildAfter - 1
        BY LiveAssumption
      <4> QED BY <2>1, <2>6, <4>1 DEF OnOpen, BusType
    <3>2. fetch' \in [Keys -> Fetches] /\ owed' \in [Keys -> BOOLEAN]
      BY <2>6, InvalidateType DEF OnOpen, TypeOK
    <3> QED BY <2>6, <3>1, <3>2 DEF OnOpen, TypeOK, BusType
  <2> QED BY <1>10, <2>3, <2>4, <2>5, <2>6 DEF BusStep
<1>11. CASE UNCHANGED vars
  BY <1>11 DEF TypeOK, vars
<1> QED
  BY <1>1, <1>2, <1>3, <1>4, <1>5, <1>6, <1>7, <1>8, <1>9, <1>10, <1>11 DEF Next

(* Every variable keeps its type, for every set of queries and bound.       *)
THEOREM TypeCorrect == Spec => []TypeOK
<1>1. Init => TypeOK
  BY LiveAssumption DEF Init, TypeOK, Gens, Parts, Versions, Fetches, Idle, NoData
<1> QED
  BY <1>1, TypeStep, PTL DEF Spec

-----------------------------------------------------------------------------
(* ViewsAccounted is inductive together with what ties the bus to the        *)
(* sidecar: a live bus has an open source, a handshake under way has none, a *)
(* source is never of a start still to come, the hub queues hints only while *)
(* the page is subscribed, and no answer is ahead of the database.          *)
BusShape ==
  /\ bus.state = "live" => bus.source = "open"
  /\ bus.opening # {} => bus.source = "none"
  /\ bus.port <= gen
  /\ bus.source \in {"accepted", "open"} /\ bus.port = gen => phase # "booting"
  /\ queue # <<>> => Subscribed

NoFuture == \A k \in Keys : fetch[k].got <= ver[k]

IInv == TypeOK /\ BusShape /\ NoFuture /\ ViewsAccounted

LEMMA BusShapeStep == TypeOK /\ BusShape /\ [Next]_vars => BusShape'
<1> SUFFICES ASSUME TypeOK, BusShape, [Next]_vars PROVE BusShape'
  OBVIOUS
<1> USE DEF shell, page
<1> DEFINE calm == UNCHANGED <<phase, gen, bus>>
<1>a. bus \in BusType /\ gen \in Nat /\ bus.port \in Nat
  BY LiveAssumption DEF TypeOK, BusType, Gens
<1>1. CASE Spawn \/ Listen
  BY <1>a, <1>1 DEF BusShape, Spawn, Listen, Subscribed
<1>2. CASE Crash
  BY <1>a, <1>2 DEF BusShape, Crash, Subscribed
<1>3. ASSUME calm, queue' # <<>> => queue # <<>> \/ Subscribed PROVE BusShape'
  BY <1>3 DEF BusShape, Subscribed
<1>4. CASE Receive
  BY <1>3, <1>4 DEF Receive
<1>5. CASE \E k \in Keys : Publish(k)
  BY <1>3, <1>5 DEF Publish
<1>6. CASE \E k \in Keys : \/ Commit(k) \/ Mount(k) \/ Unmount(k) \/ Answer(k)
                           \/ Land(k) \/ GiveUp(k) \/ IntervalOver(k)
  BY <1>3, <1>6 DEF Commit, Mount, Unmount, Answer, Land, GiveUp, IntervalOver
<1>7. CASE BusStep
  <2>1. UNCHANGED <<phase, gen, queue>>
    BY <1>7 DEF BusStep, ReadHandshake, HandshakeFails, Accept, Refuse, Unauthorized,
                OnOpen, NoticeBreak, RebuildFires
  <2>2. ASSUME NEW x \in Parts, ReadHandshake(x) PROVE BusShape'
    <3>1. bus.source = "none" /\ bus.state # "live" /\ bus.opening # {}
      BY <2>2 DEF ReadHandshake, BusShape
    <3>2. bus'.state = bus.state /\ bus'.source \in {"none", "connecting"} /\ bus'.port <= gen
      BY <1>a, <2>2, <3>1 DEF ReadHandshake, BusShape, BusType, Parts
    <3>3. bus'.opening # {} => bus'.source = "none"
      BY <1>a, <2>2, <3>1 DEF ReadHandshake, BusType, Parts
    <3> QED BY <2>1, <3>1, <3>2, <3>3 DEF BusShape, Subscribed
  <2>3. CASE HandshakeFails
    <3>1. bus.source = "none"
      BY <2>3 DEF HandshakeFails, BusShape, Parts
    <3> DEFINE b == [bus EXCEPT !.state = "reconnecting", !.opening = {}]
    <3>2. b \in BusType /\ b.opening = {} /\ b.source = "none" /\ b.state = "reconnecting" /\ b.port = bus.port
      BY <1>a, <3>1 DEF BusType
    <3>3. bus' = Rebuild(b)
      BY <2>3 DEF HandshakeFails
    <3>4. bus'.state = "reconnecting" /\ bus'.source = "none" /\ bus'.port = bus.port /\ bus'.opening = {}
      <4> HIDE DEF b
      <4> QED BY <3>2, <3>3 DEF Rebuild, BusType
    <3> QED BY <2>1, <3>1, <3>4 DEF BusShape, Subscribed
  <2>4. CASE Accept
    BY <1>a, <2>1, <2>4 DEF Accept, BusShape, Subscribed, BusType
  <2>5. ASSUME NEW after \in {"connecting", "closed"}, bus' = OnError(after), ~Subscribed, bus.source # "none"
        PROVE  BusShape'
    <3>1. /\ bus'.state = "reconnecting" /\ bus'.source \in {after, "none"}
          /\ bus'.port = bus.port /\ bus'.opening = bus.opening
      BY <1>a, <2>5, OnErrorShape
    <3> QED BY <2>1, <2>5, <3>1 DEF BusShape, Subscribed
  <2>6. CASE Refuse \/ Unauthorized \/ NoticeBreak
    BY <2>5, <2>6 DEF Refuse, Unauthorized, NoticeBreak, Subscribed, Broken
  <2>7. CASE OnOpen
    BY <1>a, <2>1, <2>7 DEF OnOpen, BusShape, Subscribed, BusType
  <2>8. CASE RebuildFires
    BY <1>a, <2>1, <2>8 DEF RebuildFires, BusShape, Subscribed, BusType
  <2> QED BY <1>7, <2>2, <2>3, <2>4, <2>6, <2>7, <2>8 DEF BusStep
<1>8. CASE UNCHANGED vars
  BY <1>3, <1>8 DEF vars
<1> QED
  BY <1>1, <1>2, <1>4, <1>5, <1>6, <1>7, <1>8 DEF Next

-----------------------------------------------------------------------------
(* What ViewsAccounted says of one key.                                     *)
Told(k) == Coming(k) \/ owed[k]
Accounted(k) ==
  /\ fetch[k].at = "answered" => fetch[k].got = ver[k] \/ Told(k)
  /\ k \in mounted /\ fetch[k].at = "idle" => view[k] = ver[k] \/ Told(k)

LEMMA AllAccounted == ViewsAccounted <=> \A k \in Keys : Accounted(k)
BY DEF ViewsAccounted, Accounted, Told

(* An invalidation restarts, or marks, every request that is behind.        *)
LEMMA InvalidateAccounts ==
  ASSUME TypeOK, NoFuture, NEW S, NEW k \in S \cap Keys, Invalidate(S), UNCHANGED <<ver, mounted>>
  PROVE  Accounted(k)'
<1>1. fetch' = Refetched(S) /\ owed' = OwedAfter(S)
  BY DEF Invalidate
<1>2. fetch[k] \in Fetches
  BY DEF TypeOK
<1>3. fetch'[k] = IF k \in mounted /\ Restarts(k) THEN Sent ELSE fetch[k]
  BY <1>1 DEF Refetched
<1>4. fetch'[k].at # "sent" /\ Behind(k) => owed'[k]
  BY <1>1 DEF OwedAfter
<1>5. k \in mounted => fetch'[k].at # "idle"
  BY <1>3 DEF Restarts, Sent
<1>6. fetch'[k].at = "answered" => fetch'[k].got = ver[k] \/ owed'[k]
  <2> SUFFICES ASSUME fetch'[k].at = "answered" PROVE fetch[k].got = ver[k] \/ owed'[k]
    BY <1>3 DEF Sent
  <2>1. fetch'[k] = fetch[k] /\ fetch[k].got \in Versions /\ ver[k] \in Versions
    BY <1>2, <1>3 DEF Sent, Fetches, TypeOK
  <2>2. fetch[k].got <= ver[k]
    BY DEF NoFuture
  <2>3. fetch[k].got = ver[k] \/ fetch[k].got < ver[k]
    BY <2>1, <2>2, LiveAssumption DEF Versions
  <2> QED BY <1>4, <2>1, <2>3 DEF Behind
<1> QED
  BY <1>5, <1>6 DEF Accounted, Told

(* It leaves the other keys alone.                                          *)
LEMMA InvalidateElsewhere ==
  ASSUME TypeOK, NEW S, NEW k \in Keys \ S, Invalidate(S)
  PROVE  fetch'[k] = fetch[k] /\ owed'[k] = owed[k]
BY DEF Invalidate, Refetched, OwedAfter

LEMMA CallAccounts ==
  ASSUME TypeOK, NoFuture, NEW j \in Keys, Call(j), UNCHANGED <<ver, mounted>>, NEW k \in Keys
  PROVE  /\ k = j => Accounted(k)' \/ (thr'[k] = "trailing" /\ fetch'[k] = fetch[k])
         /\ k # j => fetch'[k] = fetch[k] /\ owed'[k] = owed[k] /\ thr'[k] = thr[k]
<1>1. CASE thr[j] = "cold"
  <2>1. Invalidate({j}) /\ thr' = [thr EXCEPT ![j] = "hot"]
    BY <1>1 DEF Call
  <2>2. k = j => Accounted(k)'
    BY <2>1, InvalidateAccounts
  <2>3. k # j => fetch'[k] = fetch[k] /\ owed'[k] = owed[k]
    BY <2>1, InvalidateElsewhere
  <2> QED BY <2>1, <2>2, <2>3 DEF TypeOK
<1>2. CASE thr[j] # "cold"
  BY <1>2 DEF Call, TypeOK
<1> QED BY <1>1, <1>2

LEMMA NoFutureStep == TypeOK /\ NoFuture /\ [Next]_vars => NoFuture'
<1> SUFFICES ASSUME TypeOK, NoFuture, [Next]_vars PROVE NoFuture'
  OBVIOUS
<1> USE DEF shell, page
<1>a. \A k \in Keys : fetch[k] \in Fetches /\ ver[k] \in Nat
  BY LiveAssumption DEF TypeOK, Versions
<1>b. Sent.got = NoData /\ Idle.got = NoData /\ NoData <= 0
  BY DEF Sent, Idle, NoData
<1>1. ASSUME UNCHANGED ver, \A k \in Keys : fetch'[k] \in {fetch[k], Sent, Idle} PROVE NoFuture'
  BY <1>a, <1>b, <1>1 DEF NoFuture, NoData
<1>2. ASSUME NEW S, Invalidate(S) PROVE \A k \in Keys : fetch'[k] \in {fetch[k], Sent, Idle}
  BY <1>2 DEF Invalidate, Refetched
<1>3. CASE Receive
  <2>1. UNCHANGED ver
    BY <1>3 DEF Receive
  <2>2. UNCHANGED fetch \/ Invalidate({Head(queue).key})
    BY <1>3 DEF Receive, Call
  <2>3. \A k \in Keys : fetch'[k] \in {fetch[k], Sent, Idle}
    <3>1. CASE UNCHANGED fetch
      BY <3>1
    <3>2. CASE Invalidate({Head(queue).key})
      BY <1>2, <3>2
    <3> QED BY <2>2, <3>1, <3>2
  <2> QED BY <1>1, <2>1, <2>3
<1>4. ASSUME NEW k \in Keys, Commit(k) PROVE NoFuture'
  <2> SUFFICES ASSUME NEW j \in Keys PROVE fetch'[j].got <= ver'[j]
    BY DEF NoFuture
  <2>1. fetch' = fetch /\ ver' = [ver EXCEPT ![k] = @ + 1]
    BY <1>4 DEF Commit
  <2>2. ver'[j] \in {ver[j], ver[j] + 1}
    BY <2>1 DEF TypeOK
  <2>3. fetch[j].got \in Int /\ fetch[j].got <= ver[j]
    BY <1>a DEF Fetches, NoData, Versions, NoFuture
  <2> QED BY <1>a, <2>1, <2>2, <2>3
<1>5. ASSUME NEW k \in Keys, Answer(k) PROVE NoFuture'
  <2>1. fetch'[k].got = ver[k] /\ UNCHANGED ver /\ \A j \in Keys \ {k} : fetch'[j] = fetch[j]
    BY <1>5 DEF Answer, TypeOK
  <2> QED BY <1>a, <2>1 DEF NoFuture
<1>6. ASSUME NEW k \in Keys, Publish(k) \/ Mount(k) \/ Unmount(k) \/ Land(k) \/ GiveUp(k) PROVE NoFuture'
  BY <1>1, <1>6 DEF Publish, Mount, Unmount, Land, GiveUp, TypeOK
<1>7. ASSUME NEW k \in Keys, IntervalOver(k) PROVE NoFuture'
  <2>1. UNCHANGED ver /\ (UNCHANGED fetch \/ Invalidate({k}))
    BY <1>7 DEF IntervalOver
  <2> QED BY <1>1, <1>2, <2>1
<1>8. CASE OnOpen
  <2>1. UNCHANGED ver /\ (UNCHANGED fetch \/ Invalidate(Keys))
    BY <1>8 DEF OnOpen
  <2> QED BY <1>1, <1>2, <2>1
<1>9. CASE Spawn \/ Listen \/ Crash \/ (BusStep /\ ~OnOpen) \/ UNCHANGED vars
  BY <1>1, <1>9 DEF Spawn, Listen, Crash, BusStep, ReadHandshake, HandshakeFails, Accept,
     Refuse, Unauthorized, NoticeBreak, RebuildFires, vars
<1> QED
  BY <1>3, <1>4, <1>5, <1>6, <1>7, <1>8, <1>9 DEF Next

-----------------------------------------------------------------------------
LEMMA AccountedStep == IInv /\ [Next]_vars => ViewsAccounted'
<1> SUFFICES ASSUME IInv, [Next]_vars, NEW k \in Keys PROVE Accounted(k)'
  BY DEF ViewsAccounted, Accounted, Told
<1> USE DEF IInv, shell, page
<1>a. Accounted(k)
  BY AllAccounted
<1>b. /\ phase \in {"down", "booting", "up"} /\ gen \in Nat /\ bus \in BusType /\ bus.port \in Nat
      /\ bus.state \in {"connecting", "live", "reconnecting"}
  BY LiveAssumption DEF TypeOK, BusType, Gens
(* A step that keeps what the page shows of the key and whether it was told. *)
<1>1. ASSUME fetch'[k] = fetch[k], view'[k] = view[k], ver'[k] = ver[k],
             k \in mounted' => k \in mounted, Told(k) => Told(k)'
      PROVE  Accounted(k)'
  BY <1>a, <1>1 DEF Accounted
<1>2. ASSUME UNCHANGED <<pend, queue, thr, owed, phase, gen, bus>> PROVE Told(k)' = Told(k)
  BY <1>2 DEF Told, Coming, BlanketDue, Broken, Subscribed
<1>3. ASSUME UNCHANGED <<pend, queue, thr, owed>>, BlanketDue => BlanketDue' PROVE Told(k) => Told(k)'
  BY <1>3 DEF Told, Coming
<1>4. CASE Spawn \/ Listen
  <2>1. BlanketDue => BlanketDue'
    BY <1>b, <1>4 DEF Spawn, Listen, BlanketDue, Broken, Subscribed, BusShape
  <2>2. UNCHANGED <<ver, pend, queue, thr, mounted, fetch, view, owed>>
    BY <1>4 DEF Spawn, Listen
  <2>3. Told(k) => Told(k)'
    BY <2>1, <2>2 DEF Told, Coming
  <2> QED BY <1>1, <2>2, <2>3
<1>5. CASE Crash
  <2>1. bus.state # "connecting" => BlanketDue'
    BY <1>b, <1>5 DEF Crash, BlanketDue, Broken, Subscribed, BusShape
  <2>2. bus.state = "connecting" /\ k \in Lost => owed'[k]
    BY <1>5 DEF Crash
  <2>3. owed[k] => owed'[k]
    BY <1>5 DEF Crash
  <2>4. Told(k) => Told(k)'
    BY <1>5, <2>1, <2>2, <2>3 DEF Crash, Told, Coming, Lost, BlanketDue
  <2> QED BY <1>1, <1>5, <2>4 DEF Crash
<1>6. CASE Receive
  <2> DEFINE j == Head(queue).key
  <2>1. Head(queue) \in Hint /\ j \in Keys /\ queue # <<>> /\ queue' = Tail(queue)
    BY <1>6, QueueFacts DEF Receive, TypeOK, Hint
  <2>2. k # j /\ (\E i \in DOMAIN queue : queue[i].key = k)
        => \E i \in DOMAIN queue' : queue'[i].key = k
    <3> SUFFICES ASSUME k # j, NEW i \in DOMAIN queue, queue[i].key = k
                 PROVE  \E l \in DOMAIN queue' : queue'[l].key = k
      OBVIOUS
    <3>1. i # 1 /\ i \in 1 .. Len(queue)
      BY <2>1 DEF TypeOK
    <3>2. i - 1 \in DOMAIN queue' /\ queue'[i - 1] = queue[i]
      BY <2>1, <3>1 DEF TypeOK
    <3> QED BY <3>2
  <2>3. UNCHANGED <<phase, gen, bus, pend, ver, view, mounted>>
    BY <1>6 DEF Receive
  <2>4. BlanketDue' = BlanketDue
    BY <2>3 DEF BlanketDue, Broken, Subscribed
  <2>5. CASE Head(queue).ended = "cancelled"
    <3>1. owed' = [owed EXCEPT ![j] = TRUE] /\ UNCHANGED <<thr, fetch>>
      BY <1>6, <2>5 DEF Receive
    <3>2. Told(k) => Told(k)'
      BY <2>1, <2>2, <2>3, <2>4, <3>1 DEF Told, Coming, TypeOK
    <3> QED BY <1>1, <2>3, <3>1, <3>2
  <2>6. CASE Head(queue).ended # "cancelled"
    <3>1. Call(j)
      BY <1>6, <2>6 DEF Receive
    <3>2. k = j => Accounted(k)' \/ (thr'[k] = "trailing" /\ fetch'[k] = fetch[k])
      BY <2>1, <2>3, <3>1, CallAccounts
    <3>3. k # j => fetch'[k] = fetch[k] /\ owed'[k] = owed[k] /\ thr'[k] = thr[k]
      BY <2>1, <2>3, <3>1, CallAccounts
    <3>4. CASE k = j
      BY <1>1, <2>3, <3>2, <3>4 DEF Told, Coming
    <3>5. CASE k # j
      <4>1. Told(k) => Told(k)'
        BY <2>2, <2>3, <2>4, <3>3, <3>5 DEF Told, Coming
      <4> QED BY <1>1, <2>3, <3>3, <3>5, <4>1
    <3> QED BY <3>4, <3>5
  <2> QED BY <2>5, <2>6
<1>7. ASSUME NEW j \in Keys, Commit(j) PROVE Accounted(k)'
  <2>1. UNCHANGED <<phase, gen, bus, queue, thr, owed, fetch, view, mounted>>
    BY <1>7 DEF Commit
  <2>2. j = k => pend'[k] # "none"
    BY <1>7, LiveAssumption DEF Commit, TypeOK
  <2>3. j # k => ver'[k] = ver[k] /\ pend'[k] = pend[k]
    BY <1>7 DEF Commit, TypeOK
  <2>4. BlanketDue' = BlanketDue
    BY <2>1 DEF BlanketDue, Broken, Subscribed
  <2> QED BY <1>a, <2>1, <2>2, <2>3, <2>4 DEF Accounted, Told, Coming
<1>8. ASSUME NEW j \in Keys, Publish(j) PROVE Accounted(k)'
  <2>1. UNCHANGED <<phase, gen, bus, ver, thr, fetch, view, mounted>>
    BY <1>8 DEF Publish
  <2>2. BlanketDue' = BlanketDue
    BY <2>1 DEF BlanketDue, Broken, Subscribed
  <2>3. j # k => pend'[k] = pend[k]
    BY <1>8 DEF Publish, TypeOK
  <2>4. Told(k) => Told(k)'
    <3>1. CASE Subscribed
      <4> DEFINE full == Len(queue) = QueueMax
                 kept == IF full THEN Tail(queue) ELSE queue
                 said == [key |-> j, ended |-> pend[j]]
      <4>1. /\ queue' = Append(kept, said)
            /\ owed' = IF full THEN [owed EXCEPT ![Head(queue).key] = TRUE] ELSE owed
        BY <1>8, <3>1 DEF Publish
      <4>2. full => queue # <<>>
        BY LiveAssumption DEF TypeOK
      <4>3. kept \in Seq(Hint)
        BY <4>2, QueueFacts DEF TypeOK
      <4>4. owed[k] => owed'[k]
        BY <4>1 DEF TypeOK
      <4>5. j = k => \E i \in DOMAIN queue' : queue'[i].key = k
        <5>1. Len(kept) + 1 \in DOMAIN queue' /\ queue'[Len(kept) + 1] = said
          <6> HIDE DEF kept, said
          <6> QED BY <4>1, <4>3
        <5> QED BY <5>1
      <4>6. ASSUME NEW i \in DOMAIN kept
            PROVE  i \in DOMAIN queue' /\ queue'[i] = kept[i]
        <5> HIDE DEF kept, said
        <5> QED BY <4>1, <4>3, <4>6
      <4>7. ASSUME NEW i \in DOMAIN queue, queue[i].key = k
            PROVE  owed'[k] \/ \E l \in DOMAIN queue' : queue'[l].key = k
        <5>1. CASE ~full
          BY <4>6, <4>7, <5>1
        <5>2. CASE full /\ i = 1
          <6>1. Head(queue).key = k
            BY <4>2, <4>7, <5>2 DEF TypeOK
          <6> QED BY <4>1, <5>2, <6>1 DEF TypeOK
        <5>3. CASE full /\ i # 1
          <6>1. i - 1 \in DOMAIN Tail(queue) /\ Tail(queue)[i - 1] = queue[i]
            BY <4>2, <4>7, <5>3 DEF TypeOK
          <6> QED BY <4>6, <4>7, <5>3, <6>1
        <5> QED BY <5>1, <5>2, <5>3
      <4> QED BY <2>1, <2>2, <2>3, <4>4, <4>5, <4>7 DEF Told, Coming
    <3>2. CASE ~Subscribed
      <4>1. UNCHANGED queue /\ owed' = [owed EXCEPT ![j] = @ \/ bus.state = "connecting"]
        BY <1>8, <3>2 DEF Publish
      <4>2. j = k => owed'[k] \/ BlanketDue
        BY <1>b, <3>2, <4>1 DEF TypeOK, BlanketDue, Broken, BusShape
      <4>3. owed[k] => owed'[k]
        BY <4>1 DEF TypeOK
      <4> QED BY <2>1, <2>2, <2>3, <4>1, <4>2, <4>3 DEF Told, Coming
    <3> QED BY <3>1, <3>2
  <2> QED BY <1>1, <2>1, <2>4
<1>9. ASSUME NEW j \in Keys, Mount(j) PROVE Accounted(k)'
  <2>1. UNCHANGED <<phase, gen, bus, ver, pend, queue, thr, view>>
    BY <1>9 DEF Mount
  <2>2. CASE j = k
    <3>1. CASE fetch[k].at = "idle"
      <4>1. fetch'[k].at = "sent"
        BY <1>9, <2>2, <3>1 DEF Mount, TypeOK, Sent
      <4> QED BY <4>1 DEF Accounted
    <3>2. CASE fetch[k].at # "idle"
      <4>1. UNCHANGED <<fetch, owed>>
        BY <1>9, <2>2, <3>2 DEF Mount
      <4> QED BY <1>2, <1>a, <2>1, <3>2, <4>1 DEF Accounted
    <3> QED BY <3>1, <3>2
  <2>3. CASE j # k
    <3>1. fetch'[k] = fetch[k] /\ owed'[k] = owed[k] /\ (k \in mounted' => k \in mounted)
      BY <1>9, <2>3 DEF Mount, TypeOK
    <3>2. BlanketDue' = BlanketDue
      BY <2>1 DEF BlanketDue, Broken, Subscribed
    <3> QED BY <1>1, <2>1, <3>1, <3>2 DEF Told, Coming
  <2> QED BY <2>2, <2>3
<1>10. ASSUME NEW j \in Keys, Unmount(j) PROVE Accounted(k)'
  BY <1>1, <1>2, <1>10 DEF Unmount
<1>11. ASSUME NEW j \in Keys, Answer(j) PROVE Accounted(k)'
  <2>1. UNCHANGED <<phase, gen, bus, ver, pend, queue, thr, owed, view, mounted>>
    BY <1>11 DEF Answer
  <2>2. CASE j = k
    BY <1>11, <2>1, <2>2 DEF Answer, Accounted, TypeOK
  <2>3. CASE j # k
    BY <1>1, <1>2, <1>11, <2>1, <2>3 DEF Answer, TypeOK
  <2> QED BY <2>2, <2>3
<1>12. ASSUME NEW j \in Keys, Land(j) PROVE Accounted(k)'
  <2>1. UNCHANGED <<phase, gen, bus, ver, pend, queue, thr, owed, mounted>>
    BY <1>12 DEF Land
  <2>2. CASE j = k
    <3>1. fetch'[k] = Idle /\ view'[k] = fetch[k].got /\ fetch[k].at = "answered"
      BY <1>12, <2>2 DEF Land, TypeOK
    <3> QED BY <1>2, <1>a, <2>1, <3>1 DEF Accounted, Idle
  <2>3. CASE j # k
    BY <1>1, <1>2, <1>12, <2>1, <2>3 DEF Land, TypeOK
  <2> QED BY <2>2, <2>3
<1>13. ASSUME NEW j \in Keys, GiveUp(j) PROVE Accounted(k)'
  <2>1. Told(k)'
    BY <1>13 DEF GiveUp, Told, Coming, BlanketDue
  <2> QED BY <2>1 DEF Accounted
<1>14. ASSUME NEW j \in Keys, IntervalOver(j) PROVE Accounted(k)'
  <2>1. UNCHANGED <<phase, gen, bus, ver, pend, queue, view, mounted>>
    BY <1>14 DEF IntervalOver
  <2>2. BlanketDue' = BlanketDue
    BY <2>1 DEF BlanketDue, Broken, Subscribed
  <2>3. CASE thr[j] = "hot"
    <3>1. UNCHANGED <<fetch, owed>> /\ (thr[k] = "trailing" => thr'[k] = "trailing")
      BY <1>14, <2>3 DEF IntervalOver, TypeOK
    <3> QED BY <1>1, <2>1, <2>2, <3>1 DEF Told, Coming
  <2>4. CASE thr[j] = "trailing"
    <3>1. Invalidate({j}) /\ thr' = [thr EXCEPT ![j] = "hot"]
      BY <1>14, <2>4 DEF IntervalOver
    <3>2. CASE j = k
      BY <2>1, <3>1, <3>2, InvalidateAccounts
    <3>3. CASE j # k
      <4>1. fetch'[k] = fetch[k] /\ owed'[k] = owed[k] /\ thr'[k] = thr[k]
        BY <3>1, <3>3, InvalidateElsewhere DEF TypeOK
      <4> QED BY <1>1, <2>1, <2>2, <4>1 DEF Told, Coming
    <3> QED BY <3>2, <3>3
  <2> QED BY <1>14, <2>3, <2>4 DEF IntervalOver
<1>15. CASE OnOpen
  <2>1. UNCHANGED <<phase, gen, ver, pend, queue, thr, view, mounted>>
    BY <1>15 DEF OnOpen
  <2>2. CASE bus.state = "reconnecting"
    BY <1>15, <2>1, <2>2, InvalidateAccounts DEF OnOpen
  <2>3. CASE bus.state # "reconnecting"
    <3>1. UNCHANGED <<fetch, owed>>
      BY <1>15, <2>3 DEF OnOpen
    <3>2. ~BlanketDue
      BY <1>15, <2>3 DEF OnOpen, BusShape, BlanketDue
    <3> QED BY <1>1, <2>1, <3>1, <3>2 DEF Told, Coming
  <2> QED BY <2>2, <2>3
<1>16. CASE BusStep /\ ~OnOpen
  <2>1. UNCHANGED <<phase, gen, ver, pend, queue, page, owed>>
    BY <1>16 DEF BusStep, ReadHandshake, HandshakeFails, Accept, Refuse, Unauthorized,
                 NoticeBreak, RebuildFires
  <2>2. ASSUME bus'.state = "reconnecting" PROVE Accounted(k)'
    BY <1>1, <1>3, <2>1, <2>2 DEF BlanketDue
  <2>3. ASSUME bus'.state = bus.state, bus.state # "live" PROVE Accounted(k)'
    BY <1>1, <1>3, <2>1, <2>3 DEF BlanketDue
  <2>4. ASSUME NEW x \in Parts, ReadHandshake(x) PROVE Accounted(k)'
    <3>1. bus.state # "live" /\ bus'.state = bus.state
      BY <1>b, <2>4 DEF ReadHandshake, BusShape, BusType, Parts
    <3> QED BY <2>3, <3>1
  <2>5. CASE HandshakeFails
    <3> DEFINE b == [bus EXCEPT !.state = "reconnecting", !.opening = {}]
    <3>1. b \in BusType /\ b.state = "reconnecting" /\ bus' = Rebuild(b)
      BY <1>b, <2>5 DEF HandshakeFails, BusType
    <3>2. bus'.state = "reconnecting"
      <4> HIDE DEF b
      <4> QED BY <3>1 DEF Rebuild, BusType
    <3> QED BY <2>2, <3>2
  <2>6. CASE Accept
    BY <1>b, <2>3, <2>6 DEF Accept, BusShape, BusType
  <2>7. CASE Refuse \/ Unauthorized \/ NoticeBreak
    BY <1>b, <2>2, <2>7, OnErrorShape DEF Refuse, Unauthorized, NoticeBreak
  <2>8. CASE RebuildFires
    <3>1. bus'.state = bus.state /\ bus'.source = bus.source /\ bus'.port = bus.port
      BY <1>b, <2>8 DEF RebuildFires, BusType
    <3>2. BlanketDue' = BlanketDue
      BY <2>1, <3>1 DEF BlanketDue, Broken, Subscribed
    <3> QED BY <1>1, <1>3, <2>1, <3>2
  <2> QED BY <1>16, <2>4, <2>5, <2>6, <2>7, <2>8 DEF BusStep
<1>17. CASE UNCHANGED vars
  BY <1>1, <1>2, <1>17 DEF vars
<1> QED
  BY <1>4, <1>5, <1>6, <1>7, <1>8, <1>9, <1>10, <1>11, <1>12, <1>13, <1>14, <1>15, <1>16, <1>17 DEF Next

(* IInv holds in every reachable state.                                     *)
THEOREM InductiveInvariant == Spec => []IInv
<1>1. Init => IInv
  <2>1. Init => TypeOK
    BY LiveAssumption DEF Init, TypeOK, Gens, Parts, Versions, Fetches, Idle, NoData
  <2>2. Init => BusShape /\ NoFuture /\ ViewsAccounted
    BY DEF Init, BusShape, NoFuture, ViewsAccounted, Idle, NoData
  <2> QED BY <2>1, <2>2 DEF IInv
<1>2. IInv /\ [Next]_vars => IInv'
  BY TypeStep, BusShapeStep, NoFutureStep, AccountedStep DEF IInv
<1> QED
  BY <1>1, <1>2, PTL DEF Spec

(* For every set of lists, queue size and number of restarts: a list that is *)
(* behind the database has its refetch under way, or the change was announced *)
(* to nobody and is counted.                                                 *)
THEOREM NothingForgotten == Spec => []ViewsAccounted
<1>1. IInv => ViewsAccounted
  BY DEF IInv
<1> QED
  BY <1>1, InductiveInvariant, PTL

=============================================================================
