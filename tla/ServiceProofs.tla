---------------------------- MODULE ServiceProofs ----------------------------
(* Proofs about the services outside that the app asks for something.  The AI  *)
(* providers are behind a circuit (CircuitBreaker): for any number of workers   *)
(* and mode switches, a half-open lease is never left without a holder, and     *)
(* only the operations it let through close a circuit.  LinkedIn is behind the outreach operations   *)
(* (MCOutreach): for any caps and bounds, any queue and any contacts, the       *)
(* ledger shows what was sent and read, no pause is lost, a batch of sends is   *)
(* accounted for, and the board is kept.                                      *)
EXTENDS CircuitBreaker, MCOutreach, SequenceTheorems, FiniteSetTheorems, TLAPS


LEMMA InitInv == Init => IInv
BY BreakerAssumption
   DEF Init, IInv, TypeOK, LeaseOK, CircuitOK, LeaseHasHolder, Closed, Services

(* Handing a lease out or taking it back keeps the shape of the circuits.  *)
LEMMA LeaseFlagType ==
  ASSUME TypeOK, NEW s \in Services, NEW b \in BOOLEAN
  PROVE  [circuit EXCEPT ![s].probing = b]
           \in [Services -> [fails : 0..Threshold, open : BOOLEAN, probing : BOOLEAN]]
<1>1. circuit[s] \in [fails : 0..Threshold, open : BOOLEAN, probing : BOOLEAN]
  BY DEF TypeOK
<1>2. [circuit[s] EXCEPT !.probing = b]
        \in [fails : 0..Threshold, open : BOOLEAN, probing : BOOLEAN]
  BY <1>1
<1> QED
  BY <1>2 DEF TypeOK

(* Recording a failure keeps the shape of the circuits and, when it leaves *)
(* a lease out, that lease is of another service.                          *)
LEMMA FailureRecorded ==
  ASSUME IInv, NEW s \in Services \cup {"none"}, RecordFailure(s)
  PROVE  /\ circuit' \in [Services -> [fails : 0..Threshold, open : BOOLEAN, probing : BOOLEAN]]
         /\ cooled' \in SUBSET Services
         /\ \A t \in Services : CircuitOK(t)'
         /\ \A t \in Services : circuit'[t].probing => t # s /\ circuit[t].probing
<1> "none" \notin Services
  BY BreakerAssumption DEF Services
<1>1. CASE s = "none"
  BY <1>1 DEF RecordFailure, IInv, TypeOK, CircuitOK
<1>2. CASE s \in Services /\ circuit[s].fails + 1 >= Threshold
  <2>1. /\ circuit' = [circuit EXCEPT ![s] =
             [fails |-> Threshold, open |-> TRUE, probing |-> FALSE]]
        /\ cooled' = cooled \ {s}
    BY <1>2 DEF RecordFailure
  <2>2. [fails |-> Threshold, open |-> TRUE, probing |-> FALSE]
          \in [fails : 0..Threshold, open : BOOLEAN, probing : BOOLEAN]
    BY BreakerAssumption
  <2> QED
    BY <1>2, <2>1, <2>2 DEF IInv, TypeOK, CircuitOK
<1>3. CASE s \in Services /\ ~(circuit[s].fails + 1 >= Threshold)
  <2>1. circuit' = [circuit EXCEPT ![s].fails = @ + 1] /\ cooled' = cooled
    BY <1>3 DEF RecordFailure
  <2>2. ~circuit[s].open /\ ~circuit[s].probing /\ circuit[s].fails \in Nat
    BY <1>3, BreakerAssumption DEF IInv, TypeOK, CircuitOK
  <2> QED
    BY <1>3, <2>1, <2>2, BreakerAssumption DEF IInv, TypeOK, CircuitOK
<1> QED
  BY <1>1, <1>2, <1>3

LEMMA NextInv ==
  ASSUME IInv, [Next]_vars
  PROVE  IInv'
<1> "none" \notin Services
  BY BreakerAssumption DEF Services
<1>1. ASSUME NEW w \in Workers, NEW ask \in Asks, NEW bare \in BOOLEAN, Gate(w, ask, bare)
      PROVE  IInv'
  <2> DEFINE s == Expected(ask)
  <2>1. s \in Services \cup {"none"}
    BY DEF Expected, ScoreService, Asks, Modes, Services
  <2>2. lease[w] = "none" /\ at[w] = "idle"
    BY <1>1 DEF Gate, IInv, LeaseOK
  <2>3. CASE s # "none" /\ circuit[s].open
    <3>1. /\ lease' = [lease EXCEPT ![w] = s]
          /\ circuit' = [circuit EXCEPT ![s].probing = TRUE]
      BY <1>1, <2>3 DEF Gate
    <3>2. TypeOK'
      <4>1. circuit' \in [Services -> [fails : 0..Threshold, open : BOOLEAN, probing : BOOLEAN]]
        BY <2>1, <2>3, <3>1, LeaseFlagType DEF IInv
      <4>2. lease' \in [Workers -> Services \cup {"none"}]
        BY <2>1, <3>1 DEF IInv, TypeOK
      <4>3. service' \in [Workers -> Services \cup {"none"}]
        BY <1>1, <2>1 DEF Gate, IInv, TypeOK
      <4>4. callee' \in [Workers -> Services \cup {"none"}]
        BY <1>1, <2>1 DEF Gate, IInv, TypeOK
      <4>5. at' \in [Workers -> {"idle", "entry", "call", "abandon"}]
        BY <1>1 DEF Gate, IInv, TypeOK
      <4> QED
        BY <1>1, <4>1, <4>2, <4>3, <4>4, <4>5 DEF Gate, IInv, TypeOK
    <3>3. /\ \A v \in Workers : LeaseOK(v)'
          /\ \A t \in Services : CircuitOK(t)'
      <4>1. /\ service' = [service EXCEPT ![w] = s]
            /\ at' = [at EXCEPT ![w] = IF ask = "setting" THEN "entry" ELSE "call"]
        BY <1>1 DEF Gate
      <4>2. \A v \in Workers : LeaseOK(v)'
        BY <3>1, <4>1 DEF IInv, TypeOK, LeaseOK
      <4>3. \A t \in Services : CircuitOK(t)'
        BY <2>1, <2>3, <3>1 DEF IInv, TypeOK, CircuitOK
      <4> QED
        BY <4>2, <4>3
    <3>4. LeaseHasHolder'
      BY <2>1, <2>2, <2>3, <3>1 DEF IInv, TypeOK, LeaseHasHolder
    <3> QED
      BY <3>2, <3>3, <3>4 DEF IInv
  <2>4. CASE ~(s # "none" /\ circuit[s].open)
    <3>1. UNCHANGED <<lease, circuit>>
      BY <1>1, <2>4 DEF Gate
    <3> QED
      BY <1>1, <2>1, <2>2, <3>1
         DEF Gate, IInv, TypeOK, LeaseOK, CircuitOK, LeaseHasHolder
  <2> QED
    BY <2>3, <2>4
<1>2. ASSUME NEW w \in Workers, NEW thin \in BOOLEAN, Enter(w, thin)
      PROVE  IInv'
  BY <1>2 DEF Enter, ScoreService, Services, IInv, TypeOK, LeaseOK, CircuitOK, LeaseHasHolder
<1>3. ASSUME NEW w \in Workers, Succeed(w)
      PROVE  IInv'
  <2>1. CASE service[w] = "none"
    <3>1. lease[w] = "none" /\ UNCHANGED <<circuit, cooled>>
      BY <1>3, <2>1 DEF Succeed, RecordSuccess, IInv, LeaseOK
    <3> QED
      BY <1>3, <3>1 DEF Succeed, Leave, IInv, TypeOK, LeaseOK, CircuitOK, LeaseHasHolder
  <2>2. CASE service[w] \in Services
    <3>1. circuit' = [circuit EXCEPT ![service[w]] = Closed] /\ cooled' = cooled \ {service[w]}
      BY <1>3, <2>2 DEF Succeed, RecordSuccess
    <3>2. TypeOK' /\ \A t \in Services : CircuitOK(t)'
      BY <1>3, <2>2, <3>1, BreakerAssumption
         DEF Succeed, Leave, Closed, IInv, TypeOK, CircuitOK
    <3>3. \A v \in Workers : LeaseOK(v)'
      BY <1>3 DEF Succeed, Leave, IInv, TypeOK, LeaseOK
    <3>4. LeaseHasHolder'
      BY <1>3, <2>2, <3>1
         DEF Succeed, Leave, Closed, IInv, TypeOK, LeaseOK, LeaseHasHolder
    <3> QED
      BY <3>2, <3>3, <3>4 DEF IInv
  <2> QED
    BY <2>1, <2>2 DEF IInv, TypeOK
<1>4. ASSUME NEW w \in Workers, Fail(w)
      PROVE  IInv'
  <2>1. Charged(w) \in Services \cup {"none"} /\ RecordFailure(Charged(w))
    BY <1>4 DEF Fail, Charged, Services, IInv, TypeOK
  <2>2. /\ circuit' \in [Services -> [fails : 0..Threshold, open : BOOLEAN, probing : BOOLEAN]]
        /\ cooled' \in SUBSET Services
        /\ \A t \in Services : CircuitOK(t)'
        /\ \A t \in Services : circuit'[t].probing => t # Charged(w) /\ circuit[t].probing
    BY <2>1, FailureRecorded
  <2>3. CASE lease[w] \in {"none", Charged(w)}
    <3>1. Leave(w) /\ UNCHANGED <<down, mode, switches>>
      BY <1>4, <2>3 DEF Fail
    <3>2. TypeOK' /\ \A v \in Workers : LeaseOK(v)'
      BY <2>2, <3>1 DEF Leave, IInv, TypeOK, LeaseOK
    <3>3. LeaseHasHolder'
      BY <2>2, <2>3, <3>1 DEF Leave, IInv, TypeOK, LeaseHasHolder
    <3> QED
      BY <2>2, <3>2, <3>3 DEF IInv
  <2>4. CASE lease[w] \notin {"none", Charged(w)}
    <3>1. /\ at' = [at EXCEPT ![w] = "abandon"]
          /\ UNCHANGED <<service, callee, lease, down, mode, switches>>
      BY <1>4, <2>4 DEF Fail
    <3>2. TypeOK' /\ (\A v \in Workers : LeaseOK(v)') /\ LeaseHasHolder'
      BY <2>2, <3>1 DEF IInv, TypeOK, LeaseOK, LeaseHasHolder
    <3> QED
      BY <2>2, <3>2 DEF IInv
  <2> QED
    BY <2>3, <2>4
<1>5. ASSUME NEW w \in Workers, NoVerdict(w)
      PROVE  IInv'
  <2>1. lease[w] \in Services \cup {"none"}
    BY DEF IInv, TypeOK
  <2>2. /\ circuit' = IF lease[w] = "none" THEN circuit
                      ELSE [circuit EXCEPT ![lease[w]].probing = FALSE]
        /\ UNCHANGED <<cooled, down, mode, switches>>
        /\ Leave(w)
    BY <1>5 DEF NoVerdict, Abandon
  <2>3. TypeOK' /\ \A t \in Services : CircuitOK(t)'
    <3>1. circuit' \in [Services -> [fails : 0..Threshold, open : BOOLEAN, probing : BOOLEAN]]
      BY <2>1, <2>2, LeaseFlagType DEF IInv, TypeOK
    <3>2. \A t \in Services : CircuitOK(t)'
      BY <2>1, <2>2 DEF IInv, TypeOK, CircuitOK
    <3>3. TypeOK'
      BY <2>2, <3>1 DEF Leave, IInv, TypeOK
    <3> QED
      BY <3>2, <3>3
  <2>4. \A v \in Workers : LeaseOK(v)'
    BY <2>2 DEF Leave, IInv, TypeOK, LeaseOK
  <2>5. LeaseHasHolder'
    BY <2>1, <2>2 DEF Leave, IInv, TypeOK, LeaseHasHolder
  <2> QED
    BY <2>3, <2>4, <2>5 DEF IInv
<1>6. ASSUME NEW s \in Services, Elapse(s) \/ ProviderRecovers(s)
      PROVE  IInv'
  BY <1>6 DEF Elapse, ProviderRecovers, IInv, TypeOK, LeaseOK, CircuitOK, LeaseHasHolder
<1>7. CASE SwitchMode
  <2>1. mode' \in Modes /\ switches' \in 0..MaxSwitches
    BY <1>7, BreakerAssumption DEF SwitchMode, IInv, TypeOK
  <2> QED
    BY <1>7, <2>1 DEF SwitchMode, IInv, TypeOK, LeaseOK, CircuitOK, LeaseHasHolder
<1>8. CASE UNCHANGED vars
  BY <1>8 DEF vars, IInv, TypeOK, LeaseOK, CircuitOK, LeaseHasHolder
<1> QED
  BY <1>1, <1>2, <1>3, <1>4, <1>5, <1>6, <1>7, <1>8 DEF Next

(* Whatever the workers, the providers and the saved mode do, a probe      *)
(* lease that is out is held by a worker that will settle it, so no        *)
(* derailed probe wedges a circuit open.                                   *)
THEOREM NeverWedged == Spec => []LeaseHasHolder
<1>1. IInv /\ [Next]_vars => IInv'
  BY NextInv
<1>2. IInv => LeaseHasHolder
  BY DEF IInv
<1> QED
  BY <1>1, <1>2, InitInv, PTL DEF Spec

(* The leases, the circuits and the workers keep their types for any       *)
(* threshold, any set of workers and any number of mode switches.          *)
THEOREM TypeCorrect == Spec => []TypeOK
<1>1. IInv /\ [Next]_vars => IInv'
  BY NextInv
<1>2. IInv => TypeOK
  BY DEF IInv
<1> QED
  BY <1>1, <1>2, InitInv, PTL DEF Spec

-----------------------------------------------------------------------------
(* Before the first mode switch a worker calls the service it was gated by, *)
(* or nobody.                                                               *)
GatedIsCalled ==
  switches = 0 =>
    \A w \in Workers :
      /\ at[w] = "entry" => service[w] = ScoreService(mode)
      /\ at[w] = "call" => callee[w] \in {service[w], "none"}

LEMMA GatedStep ==
  ASSUME IInv, GatedIsCalled, [Next]_vars
  PROVE  GatedIsCalled'
<1> USE DEF GatedIsCalled, ScoreService
<1>1. ASSUME NEW w \in Workers, NEW ask \in Asks, NEW bare \in BOOLEAN, Gate(w, ask, bare)
      PROVE  GatedIsCalled'
  BY <1>1 DEF Gate, Expected, IInv, TypeOK
<1>2. ASSUME NEW w \in Workers, NEW thin \in BOOLEAN, Enter(w, thin)
      PROVE  GatedIsCalled'
  BY <1>2 DEF Enter, IInv, TypeOK
<1>3. ASSUME NEW w \in Workers, Succeed(w) \/ Fail(w) \/ NoVerdict(w)
      PROVE  GatedIsCalled'
  <2>1. UNCHANGED <<mode, switches>> /\ (Leave(w) \/ (at' = [at EXCEPT ![w] = "abandon"] /\ UNCHANGED <<service, callee>>))
    BY <1>3 DEF Succeed, Fail, NoVerdict
  <2> QED
    BY <2>1 DEF Leave, IInv, TypeOK
<1>4. ASSUME NEW s \in Services, Elapse(s) \/ ProviderRecovers(s)
      PROVE  GatedIsCalled'
  BY <1>4 DEF Elapse, ProviderRecovers
<1>5. CASE SwitchMode
  BY <1>5 DEF SwitchMode, IInv, TypeOK
<1>6. CASE UNCHANGED vars
  BY <1>6 DEF vars
<1> QED
  BY <1>1, <1>2, <1>3, <1>4, <1>5, <1>6 DEF Next

(* A recorded failure never closes an open circuit.                        *)
LEMMA FailureStaysOpen ==
  ASSUME IInv, NEW s \in Services \cup {"none"}, RecordFailure(s),
         NEW t \in Services, circuit[t].open
  PROVE  circuit'[t].open
<1>1. circuit[t].fails = Threshold /\ circuit \in [Services -> [fails : 0..Threshold, open : BOOLEAN, probing : BOOLEAN]]
  BY DEF IInv, TypeOK, CircuitOK
<1>2. CASE t = s
  <2>1. circuit[s].fails + 1 >= Threshold /\ s # "none"
    BY <1>1, <1>2, BreakerAssumption DEF Services
  <2>2. circuit' = [circuit EXCEPT ![s] = [fails |-> Threshold, open |-> TRUE, probing |-> FALSE]]
    BY <2>1 DEF RecordFailure
  <2> QED
    BY <1>1, <1>2, <2>2
<1>3. CASE t # s
  BY <1>1, <1>3 DEF RecordFailure
<1> QED
  BY <1>2, <1>3

(* What closes an open circuit is the end of an operation it had let        *)
(* through, which its service answered or which asked nobody: no failure,   *)
(* no Stop and no probe that came to nothing does, for any set of workers   *)
(* and any threshold, as long as no mode switch has sent a call elsewhere.  *)
THEOREM OwnOperationsClose == Spec => ClosedByItsOperation
<1> DEFINE Ended(s) ==
      switches = 0 /\ circuit[s].open /\ ~circuit'[s].open =>
        \E w \in Workers :
          /\ service[w] = s
          /\ callee[w] \in {s, "none"} \ down
          /\ at[w] = "call" /\ at'[w] = "idle"
<1>1. Init => IInv /\ GatedIsCalled
  <2>1. Init => GatedIsCalled
    BY DEF Init, GatedIsCalled
  <2> QED
    BY <2>1, InitInv
<1>2. IInv /\ GatedIsCalled /\ [Next]_vars => IInv' /\ GatedIsCalled'
  BY NextInv, GatedStep
<1>3. ASSUME IInv, GatedIsCalled, Next, NEW s \in Services
      PROVE  Ended(s)
  <2> SUFFICES ASSUME switches = 0, circuit[s].open, ~circuit'[s].open
               PROVE  \E w \in Workers :
                        /\ service[w] = s
                        /\ callee[w] \in {s, "none"} \ down
                        /\ at[w] = "call" /\ at'[w] = "idle"
    OBVIOUS
  <2>1. ASSUME NEW w \in Workers, Succeed(w)
        PROVE  /\ service[w] = s
               /\ callee[w] \in {s, "none"} \ down
               /\ at[w] = "call" /\ at'[w] = "idle"
    <3>1. at[w] = "call" /\ callee[w] \notin down /\ RecordSuccess(service[w]) /\ Leave(w)
      BY <2>1 DEF Succeed
    <3>2. callee[w] \in {service[w], "none"} /\ at'[w] = "idle"
      BY <1>3, <3>1 DEF GatedIsCalled, Leave, IInv, TypeOK
    <3>3. service[w] = s
      BY <1>3, <3>1 DEF RecordSuccess, IInv, TypeOK
    <3> QED
      BY <3>1, <3>2, <3>3
  <2>2. ASSUME NEW w \in Workers, Fail(w)
        PROVE  FALSE
    <3>1. Charged(w) \in Services \cup {"none"} /\ RecordFailure(Charged(w))
      BY <1>3, <2>2 DEF Fail, Charged, Services, IInv, TypeOK
    <3> QED
      BY <1>3, <3>1, FailureStaysOpen
  <2>3. ASSUME NEW w \in Workers, NoVerdict(w)
        PROVE  FALSE
    <3>1. circuit' = IF lease[w] = "none" THEN circuit ELSE [circuit EXCEPT ![lease[w]].probing = FALSE]
      BY <2>3 DEF NoVerdict, Abandon
    <3> QED
      BY <1>3, <3>1 DEF IInv, TypeOK
  <2>4. ASSUME NEW w \in Workers, NEW ask \in Asks, NEW bare \in BOOLEAN, Gate(w, ask, bare)
        PROVE  FALSE
    <3>1. circuit' \in {circuit, [circuit EXCEPT ![Expected(ask)].probing = TRUE]}
      BY <2>4 DEF Gate
    <3> QED
      BY <1>3, <3>1 DEF IInv, TypeOK
  <2>5. UNCHANGED circuit => FALSE
    OBVIOUS
  <2> QED
    BY <1>3, <2>1, <2>2, <2>3, <2>4, <2>5 DEF Next, Enter, Elapse, ProviderRecovers, SwitchMode
<1>4. IInv /\ GatedIsCalled /\ [Next]_vars => [\A s \in Services : Ended(s)]_vars
  BY <1>3
<1> QED
  BY <1>1, <1>2, <1>4, PTL DEF Spec, ClosedByItsOperation

-----------------------------------------------------------------------------
(* The pacing ledger (PacingLedger).                                         *)

(* What runs on a lane, how it may end, and which ends stop the account or     *)
(* give the charge back.                                                     *)
Kinds   == {"invites", "dms", "page", "probe", "thread"}
Answers == {"done", "limit", "unsent", "throttled", "error", "auth"}
KindsOf(l) == IF l = "send" THEN Sent ELSE IF l = "discover" THEN {"page"} ELSE {"probe", "thread"}
Refusals   == {"limit", "throttled"}
Refundable == {"limit", "unsent", "throttled"}

Charges  == [Pacing!Meter -> Nat]
Ledger   == [used : Charges, paused : BOOLEAN]
PacerRow == [seen : Ledger, pending : Charges, mine : Charges, refunds : Charges, pause : BOOLEAN]
OpRow    == [pc : {"idle", "gap", "browser", "answered"}, pacer : PacerRow, left : 0 .. MaxProbes,
             kind : Kinds \cup {"none"}, answer : Answers \cup {"none"}, count : Nat]
JobRow   == [lane : Pacing!Lane, kind : Kinds, limit : Nat, live : BOOLEAN, out : Answers \cup {"todo"}, count : Nat]

PacingType ==
  /\ disk \in Ledger /\ op \in [Pacing!Lane -> OpRow] /\ queue \in Seq(JobRow)
  /\ clicked \in [Sent -> Nat] /\ due \in [Pacing!Lane -> 0 .. MaxDue]
  /\ throttled \in BOOLEAN /\ deserted \in BOOLEAN

(* One operation per lane, and one page action of it, by which it waits; only *)
(* the head of the surface's queue has begun, and who left is remembered.     *)
LanesAreApart ==
  /\ \A i \in DOMAIN queue :
       /\ queue[i].kind \in KindsOf(queue[i].lane)
       /\ queue[i].out \in Pacing!Outcome(queue[i].kind) \cup {"todo"}
       /\ i > 1 => queue[i].out = "todo"
       /\ queue[i].live \/ deserted
       /\ queue[i].live => op[queue[i].lane].pc = "browser" /\ op[queue[i].lane].kind = queue[i].kind
  /\ \A i, j \in DOMAIN queue : queue[i].live /\ queue[j].live /\ queue[i].lane = queue[j].lane => i = j
  /\ \A l \in Pacing!Lane :
       /\ op[l].pc = "browser" => \E i \in DOMAIN queue : queue[i].lane = l /\ queue[i].live
       /\ op[l].pc # "idle" => op[l].kind \in KindsOf(l)
       /\ op[l].pc = "answered" => op[l].answer \in Pacing!Outcome(op[l].kind)
       /\ op[l].pc = "gap" => l = "send"

(* Between two saves a pacer holds nothing but a sweep's reads and the charge  *)
(* of the one message under way.                                             *)
PacersRest ==
  /\ \A l \in Pacing!Lane :
       /\ \A m \in Pacing!Meter : op[l].pacer.refunds[m] = 0
       /\ \A m \in Pacing!Meter : m \in Sent \/ l # "sync" => op[l].pacer.pending[m] = 0
       /\ ~op[l].pacer.pause
  /\ op["send"].pc = "gap" => op["send"].pacer.mine[op["send"].kind] = 0
  /\ op["send"].pc \in {"browser", "answered"} => op["send"].pacer.mine[op["send"].kind] = 1

Waiting(q, m) == {i \in DOMAIN q : q[i].kind = m /\ q[i].out = "todo"}

(* The charge of a message of this kind is about to be given back.           *)
Owed(m) ==
  /\ op["send"].kind = m
  /\ \/ op["send"].pc = "answered" /\ op["send"].answer \in Refundable
     \/ \E i \in DOMAIN queue : queue[i].lane = "send" /\ queue[i].live /\ queue[i].out \in Refundable

(* Each message out, each on the queue and each about to be refunded has a    *)
(* charge of its own on disk.                                                *)
SendsAreCharged ==
  /\ \A m \in Sent : /\ clicked[m] + Cardinality(Waiting(queue, m)) + (IF Owed(m) THEN 1 ELSE 0) <= disk.used[m]
                     /\ disk.used[m] <= SendCap
  /\ op["send"].pc = "gap" => disk.used[op["send"].kind] < SendCap

Views    == disk.used["views"]
PageSaw  == op["discover"].pacer.seen.used["views"]
Unpaid   == op["sync"].pacer.pending["views"]
SweepSaw == op["sync"].pacer.seen.used["views"] - Unpaid

(* What a discovery and a sweep that run together may still add to the ledger *)
(* is bounded by what each of them saw there.                                *)
ReadsAreBounded ==
  /\ Views <= 2 * ViewCap
  /\ op["discover"].pc # "idle" => PageSaw < ViewCap /\ Views <= ViewCap + PageSaw
  /\ op["discover"].pc = "answered" => op["discover"].count <= ViewCap - PageSaw
  /\ \A i \in DOMAIN queue : queue[i].live /\ queue[i].lane = "discover" =>
       queue[i].limit <= ViewCap - PageSaw /\ queue[i].count <= ViewCap - PageSaw
  /\ op["sync"].pc # "idle" =>
       /\ SweepSaw >= 0 /\ Views <= ViewCap + SweepSaw
       /\ Unpaid > 0 => SweepSaw + Unpaid <= ViewCap
  /\ op["discover"].pc # "idle" /\ op["sync"].pc # "idle" => Views <= PageSaw + SweepSaw

(* LinkedIn's stop is on disk, or on its way there.                          *)
StopIsKnown ==
  throttled =>
    \/ disk.paused \/ deserted
    \/ \E i \in DOMAIN queue : queue[i].out \in Refusals
    \/ \E l \in Pacing!Lane : op[l].pc = "answered" /\ op[l].answer \in Refusals

(* A sweep's pacer has each read that was made, and the one that waits.       *)
ReadsArePaid ==
  ~deserted =>
    /\ op["sync"].pc = "idle" => due["sync"] = 0
    /\ op["sync"].pc # "idle" => due["sync"] <= Unpaid
    /\ \A i \in DOMAIN queue : queue[i].kind = "probe" /\ queue[i].out = "todo" => due["sync"] < Unpaid

PacingInv ==
  PacingType /\ LanesAreApart /\ PacersRest /\ SendsAreCharged /\ ReadsAreBounded /\ StopIsKnown /\ ReadsArePaid

LEMMA Smaller ==
  ASSUME NEW a \in Nat, NEW b \in Nat
  PROVE  Pacing!Min({a, b}) \in Nat /\ Pacing!Min({a, b}) <= a /\ Pacing!Min({a, b}) <= b
<1>1. \E x \in {a, b} : \A y \in {a, b} : x <= y
  <2>1. CASE a <= b
    BY <2>1
  <2>2. CASE b <= a
    BY <2>2
  <2> QED BY <2>1, <2>2
<1>2. Pacing!Min({a, b}) \in {a, b} /\ \A y \in {a, b} : Pacing!Min({a, b}) <= y
  BY <1>1 DEF Pacing!Min
<1> QED
  BY <1>2

LEMMA Constants ==
  /\ Sent \subseteq {"invites", "dms"} /\ "views" \notin Sent /\ Sent \subseteq Kinds
  /\ "page" \notin Sent /\ "probe" \notin Sent /\ "thread" \notin Sent /\ "none" \notin Sent
  /\ Pacing!Meter = Sent \cup {"views"} /\ Pacing!Lane = {"send", "discover", "sync"}
  /\ SendCap \in Nat /\ ViewCap \in Nat /\ MaxProbes \in Nat /\ MaxDue \in Nat /\ Page \in Nat
  /\ \A l \in Pacing!Lane : KindsOf(l) \subseteq Kinds
  /\ \A k : Pacing!Outcome(k) \subseteq Answers
BY OutreachAssumption DEF Kinds, KindsOf, Pacing!Meter, Pacing!Lane, Pacing!Outcome, Answers

LEMMA ZeroCharges == Pacing!Nothing \in Charges /\ \A m \in Pacing!Meter : Pacing!Nothing[m] = 0
BY DEF Pacing!Nothing, Charges

LEMMA RestingPacer ==
  /\ Pacing!Blank \in PacerRow /\ Pacing!Idle \in OpRow /\ Pacing!Idle.pc = "idle"
  /\ Pacing!Idle.kind = "none"
  /\ \A m \in Pacing!Meter : Pacing!Idle.pacer.refunds[m] = 0 /\ Pacing!Idle.pacer.pending[m] = 0
  /\ Pacing!Idle.pacer.pause = FALSE
  /\ disk \in Ledger => Pacing!Loaded \in PacerRow
  /\ Pacing!Loaded.pending = Pacing!Nothing /\ Pacing!Loaded.refunds = Pacing!Nothing /\ Pacing!Loaded.mine = Pacing!Nothing
  /\ Pacing!Loaded.seen = disk /\ Pacing!Loaded.pause = FALSE
<1>1. Pacing!Nothing \in Charges /\ Pacing!Clean \in Ledger
  BY ZeroCharges DEF Pacing!Clean, Ledger
<1>2. Pacing!Blank \in PacerRow /\ Pacing!Blank.refunds = Pacing!Nothing /\ Pacing!Blank.pending = Pacing!Nothing
      /\ Pacing!Blank.pause = FALSE
  BY <1>1 DEF Pacing!Blank, PacerRow
<1>3. 0 \in 0 .. MaxProbes
  BY Constants
<1>4. Pacing!Idle \in OpRow /\ Pacing!Idle.pc = "idle" /\ Pacing!Idle.kind = "none" /\ Pacing!Idle.pacer = Pacing!Blank
  BY <1>2, <1>3 DEF Pacing!Idle, OpRow
<1>5. disk \in Ledger => Pacing!Loaded \in PacerRow
  BY <1>1 DEF Pacing!Loaded, PacerRow
<1> QED
  BY <1>2, <1>4, <1>5, ZeroCharges DEF Pacing!Loaded

(* A charge is on the pacer's view, on what it still has to save, and its own. *)
HasMore(q, p, m, n) ==
  /\ q \in PacerRow /\ q.refunds = p.refunds /\ q.pause = p.pause
  /\ \A k \in Pacing!Meter : /\ q.pending[k] = p.pending[k] + (IF k = m THEN n ELSE 0)
                             /\ q.mine[k] = p.mine[k] + (IF k = m THEN n ELSE 0)
                             /\ q.seen.used[k] = p.seen.used[k] + (IF k = m THEN n ELSE 0)

LEMMA Recorded ==
  ASSUME NEW p \in PacerRow, NEW m \in Pacing!Meter, NEW n \in Nat
  PROVE  HasMore(Pacing!Record(p, m, n), p, m, n)
<1> DEFINE q == Pacing!Record(p, m, n)
           seen == [p.seen EXCEPT !.used[m] = @ + n]
           pend == [p.pending EXCEPT ![m] = @ + n]
           mine == [p.mine EXCEPT ![m] = @ + n]
<1>1. /\ p.seen \in Ledger /\ p.seen.used \in Charges /\ p.pending \in Charges /\ p.mine \in Charges
      /\ p.refunds \in Charges /\ p.pause \in BOOLEAN /\ p.seen.paused \in BOOLEAN
  BY DEF PacerRow, Ledger
<1>2. seen \in Ledger /\ \A k \in Pacing!Meter : seen.used[k] = p.seen.used[k] + (IF k = m THEN n ELSE 0)
  <2>1. seen = [used |-> [p.seen.used EXCEPT ![m] = @ + n], paused |-> p.seen.paused]
    BY <1>1 DEF Ledger
  <2> HIDE DEF seen
  <2> QED BY <1>1, <2>1 DEF Ledger, Charges
<1>3. pend \in Charges /\ \A k \in Pacing!Meter : pend[k] = p.pending[k] + (IF k = m THEN n ELSE 0)
  BY <1>1 DEF Charges
<1>4. mine \in Charges /\ \A k \in Pacing!Meter : mine[k] = p.mine[k] + (IF k = m THEN n ELSE 0)
  BY <1>1 DEF Charges
<1>0. q = Pacing!Record(p, m, n)
  OBVIOUS
<1> HIDE DEF q
<1>5. q = [seen |-> seen, pending |-> pend, mine |-> mine, refunds |-> p.refunds, pause |-> p.pause]
  BY <1>0 DEF Pacing!Record, PacerRow
<1> HIDE DEF seen, pend, mine
<1>6. HasMore(q, p, m, n)
  BY <1>1, <1>2, <1>3, <1>4, <1>5 DEF PacerRow, HasMore
<1> QED
  BY <1>6 DEF q

LEMMA Backoff ==
  ASSUME NEW p, {"seen", "pending", "refunds", "pause"} \subseteq DOMAIN p, NEW q, q = Pacing!PauseForBackoff(p)
  PROVE  q.pause = TRUE /\ q.pending = p.pending /\ q.refunds = p.refunds
BY DEF Pacing!PauseForBackoff

LEMMA PacerFields == ASSUME NEW p \in PacerRow PROVE {"seen", "pending", "refunds", "pause"} \subseteq DOMAIN p
BY DEF PacerRow

LEMMA Refunded ==
  ASSUME NEW p \in PacerRow, NEW m \in Pacing!Meter, p.mine[m] = 1, p.pending[m] = 0, NEW q, q = Pacing!Refund(p, m)
  PROVE  /\ q.pending = p.pending /\ q.pause = p.pause /\ q.refunds \in Charges /\ {"seen", "pending", "refunds", "pause"} \subseteq DOMAIN q
         /\ \A k \in Pacing!Meter : q.refunds[k] = p.refunds[k] + (IF k = m THEN 1 ELSE 0)
<1> DEFINE t == [p EXCEPT !.mine[m] = @ - 1, !.seen.used[m] = @ - 1]
           back == [p.refunds EXCEPT ![m] = @ + 1]
<1>1. q = [t EXCEPT !.refunds[m] = @ + 1] /\ t.pending = p.pending
  BY DEF Pacing!Refund, PacerRow
<1>2. t.pending = p.pending /\ t.refunds = p.refunds /\ t.pause = p.pause /\ {"seen", "pending", "refunds", "pause"} \subseteq DOMAIN t
  BY DEF PacerRow
<1> HIDE DEF t
<1>3. /\ q.pending = p.pending /\ q.refunds = back /\ q.pause = p.pause
      /\ {"seen", "pending", "refunds", "pause"} \subseteq DOMAIN q
  BY <1>1, <1>2
<1>4. back \in Charges /\ \A k \in Pacing!Meter : back[k] = p.refunds[k] + (IF k = m THEN 1 ELSE 0)
  BY DEF Charges, PacerRow
<1> HIDE DEF back
<1> QED
  BY <1>3, <1>4

LEMMA QueueIs ==
  ASSUME PacingInv
  PROVE  /\ DOMAIN queue = 1 .. Len(queue) /\ Len(queue) \in Nat /\ queue \in Seq(JobRow)
         /\ \A i \in DOMAIN queue : queue[i] \in JobRow
BY LenProperties, ElementOfSeq DEF PacingInv, PacingType

LEMMA WaitingIsFinite ==
  ASSUME NEW q \in Seq(JobRow), NEW m
  PROVE  IsFiniteSet(Waiting(q, m)) /\ Cardinality(Waiting(q, m)) \in Nat
<1>1. DOMAIN q = 1 .. Len(q) /\ Len(q) \in Nat /\ IsFiniteSet(1 .. Len(q))
  BY LenProperties, FS_Interval
<1>2. Waiting(q, m) \subseteq 1 .. Len(q)
  BY <1>1 DEF Waiting
<1> QED
  BY <1>1, <1>2, FS_Subset, FS_CardinalityType

(* run_browser's hand-over.                                                  *)
Handed(l, p, left, kind, limit) ==
  /\ DOMAIN queue' = DOMAIN queue \cup {Len(queue) + 1} /\ Len(queue) + 1 \notin DOMAIN queue
  /\ queue'[Len(queue) + 1] = Pacing!Job(l, kind, limit)
  /\ \A i \in DOMAIN queue : queue'[i] = queue[i] /\ ~(queue[i].live /\ queue[i].lane = l)
  /\ op'[l] = [pc |-> "browser", pacer |-> p, left |-> left, kind |-> kind, answer |-> "none", count |-> 0]
  /\ \A k \in Pacing!Lane \ {l} : op'[k] = op[k]
  /\ \A m : Cardinality(Waiting(queue', m)) = Cardinality(Waiting(queue, m)) + (IF m = kind THEN 1 ELSE 0)

LEMMA Submits ==
  ASSUME PacingInv, NEW l \in Pacing!Lane, NEW p \in PacerRow, NEW left \in 0 .. MaxProbes, NEW kind \in KindsOf(l),
         NEW limit \in Nat, Pacing!Submit(l, p, left, kind, limit), op[l].pc # "browser",
         disk' \in Ledger, UNCHANGED <<clicked, throttled, deserted, due>>
  PROVE  PacingType' /\ LanesAreApart' /\ Handed(l, p, left, kind, limit)
<1> DEFINE job == Pacing!Job(l, kind, limit)
           now == [pc |-> "browser", pacer |-> p, left |-> left, kind |-> kind, answer |-> "none", count |-> 0]
           new == Len(queue) + 1
<1>1. queue' = Append(queue, job) /\ op' = [op EXCEPT ![l] = now]
  BY DEF Pacing!Submit
<1>2. kind \in Kinds
  BY Constants
<1>3. job \in JobRow /\ job.lane = l /\ job.kind = kind /\ job.live = TRUE /\ job.out = "todo"
  BY <1>2 DEF Pacing!Job, JobRow
<1>4. now \in OpRow /\ now.pc = "browser" /\ now.kind = kind
  BY <1>2 DEF OpRow
<1> HIDE DEF job, now
<1>5. /\ queue' \in Seq(JobRow) /\ DOMAIN queue = 1 .. Len(queue) /\ Len(queue) \in Nat
      /\ DOMAIN queue' = 1 .. Len(queue) + 1
      /\ queue'[new] = job /\ \A i \in DOMAIN queue : queue'[i] = queue[i]
  BY <1>1, <1>3, QueueIs
<1>6. /\ DOMAIN queue' = DOMAIN queue \cup {new} /\ new \notin DOMAIN queue
      /\ \A i \in DOMAIN queue' : i \in DOMAIN queue \/ i = new
  BY <1>5
<1>7. /\ op \in [Pacing!Lane -> OpRow] /\ op' \in [Pacing!Lane -> OpRow] /\ op'[l] = now
      /\ \A k \in Pacing!Lane \ {l} : op'[k] = op[k]
  BY <1>1, <1>4 DEF PacingInv, PacingType
<1>8. \A i \in DOMAIN queue : ~(queue[i].live /\ queue[i].lane = l) /\ queue[i] \in JobRow
  BY QueueIs DEF PacingInv, LanesAreApart
<1>9. PacingType'
  BY <1>5, <1>7 DEF PacingInv, PacingType
<1>10. LanesAreApart'
  <2>0. LanesAreApart
    BY DEF PacingInv
  <2>1. ASSUME NEW i \in DOMAIN queue'
        PROVE  /\ queue'[i].kind \in KindsOf(queue'[i].lane)
               /\ queue'[i].out \in Pacing!Outcome(queue'[i].kind) \cup {"todo"}
               /\ i > 1 => queue'[i].out = "todo"
               /\ queue'[i].live \/ deserted'
               /\ queue'[i].live => op'[queue'[i].lane].pc = "browser" /\ op'[queue'[i].lane].kind = queue'[i].kind
    <3>1. CASE i = new
      BY <1>3, <1>4, <1>5, <1>7, <3>1
    <3>2. CASE i \in DOMAIN queue
      <4>1. queue[i].lane \in Pacing!Lane
        BY <1>8, <3>2 DEF JobRow
      <4> QED BY <1>5, <1>7, <1>8, <2>0, <3>2, <4>1 DEF LanesAreApart
    <3> QED BY <1>6, <3>1, <3>2
  <2>2. ASSUME NEW i \in DOMAIN queue', NEW j \in DOMAIN queue',
               queue'[i].live, queue'[j].live, queue'[i].lane = queue'[j].lane
        PROVE  i = j
    BY <1>3, <1>5, <1>6, <1>8, <2>0, <2>2 DEF LanesAreApart
  <2>3. ASSUME NEW k \in Pacing!Lane
        PROVE  /\ op'[k].pc = "browser" => \E i \in DOMAIN queue' : queue'[i].lane = k /\ queue'[i].live
               /\ op'[k].pc # "idle" => op'[k].kind \in KindsOf(k)
               /\ op'[k].pc = "answered" => op'[k].answer \in Pacing!Outcome(op'[k].kind)
               /\ op'[k].pc = "gap" => k = "send"
    <3>1. CASE k = l
      BY <1>3, <1>4, <1>5, <1>6, <1>7, <3>1
    <3>2. CASE k # l
      BY <1>5, <1>6, <1>7, <2>0, <3>2 DEF LanesAreApart
    <3> QED BY <3>1, <3>2
  <2> QED BY <2>1, <2>2, <2>3 DEF LanesAreApart
<1>11. ASSUME NEW m
       PROVE  Cardinality(Waiting(queue', m)) = Cardinality(Waiting(queue, m)) + (IF m = kind THEN 1 ELSE 0)
  <2>1. /\ IsFiniteSet(Waiting(queue, m)) /\ Cardinality(Waiting(queue, m)) \in Nat
        /\ new \notin Waiting(queue, m)
    BY <1>6, WaitingIsFinite, QueueIs DEF Waiting
  <2>2. CASE m = kind
    <3>1. Waiting(queue', m) = Waiting(queue, m) \cup {new}
      BY <1>3, <1>5, <1>6, <2>2 DEF Waiting
    <3> QED BY <2>1, <2>2, <3>1, FS_AddElement
  <2>3. CASE m # kind
    <3>1. Waiting(queue', m) = Waiting(queue, m)
      BY <1>3, <1>5, <1>6, <2>3 DEF Waiting
    <3> QED BY <2>1, <2>3, <3>1
  <2> QED BY <2>2, <2>3
<1> QED
  BY <1>5, <1>6, <1>7, <1>8, <1>9, <1>10, <1>11 DEF job, now, Handed

(* An operation is over: its lane is free, and nobody waits for what it left  *)
(* on the queue.                                                             *)
LaneLeft(l) ==
  op'[l] = Pacing!Idle /\ \A k \in Pacing!Lane \ {l} : op'[k] = op[k]

QueueLeft(l) ==
  /\ DOMAIN queue' = DOMAIN queue
  /\ \A i \in DOMAIN queue :
       /\ queue'[i].lane = queue[i].lane /\ queue'[i].kind = queue[i].kind /\ queue'[i].limit = queue[i].limit
       /\ queue'[i].out = queue[i].out /\ queue'[i].count = queue[i].count
       /\ queue'[i].live = (queue[i].live /\ queue[i].lane # l)

LEMMA LeavesLanesApart ==
  ASSUME LanesAreApart, \A i \in DOMAIN queue : queue[i] \in JobRow,
         NEW l \in Pacing!Lane, LaneLeft(l), QueueLeft(l), deserted => deserted', deserted' \/ queue' = queue
  PROVE  LanesAreApart'
<1>1. ASSUME NEW i \in DOMAIN queue
      PROVE  /\ queue'[i].kind \in KindsOf(queue'[i].lane)
             /\ queue'[i].out \in Pacing!Outcome(queue'[i].kind) \cup {"todo"}
             /\ i > 1 => queue'[i].out = "todo"
             /\ queue'[i].live \/ deserted'
             /\ queue'[i].live => op'[queue'[i].lane].pc = "browser" /\ op'[queue'[i].lane].kind = queue'[i].kind
  <2>1. queue[i].lane \in Pacing!Lane
    BY DEF JobRow
  <2>2. /\ queue'[i].lane = queue[i].lane /\ queue'[i].kind = queue[i].kind /\ queue'[i].out = queue[i].out
        /\ queue'[i].live => queue[i].live /\ queue[i].lane # l
    BY DEF QueueLeft
  <2>3. /\ queue[i].kind \in KindsOf(queue[i].lane) /\ queue[i].out \in Pacing!Outcome(queue[i].kind) \cup {"todo"}
        /\ i > 1 => queue[i].out = "todo"
        /\ queue[i].live \/ deserted
        /\ queue[i].live => op[queue[i].lane].pc = "browser" /\ op[queue[i].lane].kind = queue[i].kind
    BY DEF LanesAreApart
  <2>4. queue'[i].live \/ deserted'
    BY <2>3
  <2>5. queue'[i].live => op'[queue[i].lane] = op[queue[i].lane]
    BY <2>1, <2>2 DEF LaneLeft
  <2> QED BY <2>2, <2>3, <2>4, <2>5
<1>2. ASSUME NEW i \in DOMAIN queue, NEW j \in DOMAIN queue,
             queue'[i].live, queue'[j].live, queue'[i].lane = queue'[j].lane
      PROVE  i = j
  <2>1. queue[i].live /\ queue[j].live /\ queue[i].lane = queue[j].lane
    BY <1>2 DEF QueueLeft
  <2> QED BY <2>1 DEF LanesAreApart
<1>3. ASSUME NEW k \in Pacing!Lane
      PROVE  /\ op'[k].pc = "browser" => \E i \in DOMAIN queue : queue'[i].lane = k /\ queue'[i].live
             /\ op'[k].pc # "idle" => op'[k].kind \in KindsOf(k)
             /\ op'[k].pc = "answered" => op'[k].answer \in Pacing!Outcome(op'[k].kind)
             /\ op'[k].pc = "gap" => k = "send"
  <2>1. CASE k = l
    BY <2>1, RestingPacer DEF LaneLeft
  <2>2. CASE k # l
    <3>1. op'[k] = op[k]
      BY <2>2 DEF LaneLeft
    <3>2. op[k].pc = "browser" => \E i \in DOMAIN queue : queue'[i].lane = k /\ queue'[i].live
      <4> SUFFICES ASSUME op[k].pc = "browser" PROVE \E i \in DOMAIN queue : queue'[i].lane = k /\ queue'[i].live
        OBVIOUS
      <4>1. PICK i \in DOMAIN queue : queue[i].lane = k /\ queue[i].live
        BY DEF LanesAreApart
      <4>2. queue'[i].lane = k /\ queue'[i].live
        BY <2>2, <4>1 DEF QueueLeft
      <4> QED BY <4>2
    <3> QED BY <3>1, <3>2 DEF LanesAreApart
  <2> QED BY <2>1, <2>2
<1>4. DOMAIN queue' = DOMAIN queue
  BY DEF QueueLeft
<1> QED
  BY <1>1, <1>2, <1>3, <1>4 DEF LanesAreApart

LEMMA LeavesPacersRest ==
  ASSUME PacersRest, NEW l \in Pacing!Lane, LaneLeft(l)
  PROVE  PacersRest'
<1>1. \A k \in Pacing!Lane : op'[k] = Pacing!Idle \/ op'[k] = op[k]
  BY DEF LaneLeft
<1>2. op'["send"] = Pacing!Idle \/ op'["send"] = op["send"]
  BY <1>1, Constants
<1>3. /\ \A m \in Pacing!Meter : Pacing!Idle.pacer.refunds[m] = 0 /\ Pacing!Idle.pacer.pending[m] = 0
      /\ Pacing!Idle.pacer.pause = FALSE /\ Pacing!Idle.pc = "idle"
  BY RestingPacer
<1> QED
  BY <1>1, <1>2, <1>3 DEF PacersRest

(* The charge that is given back is one that was owed.                       *)
LEMMA LeavesCharged ==
  ASSUME SendsAreCharged, LanesAreApart, NEW l \in Pacing!Lane, LaneLeft(l), QueueLeft(l), clicked' = clicked,
         NEW back, \A m \in Sent : back[m] \in {0, 1} /\ disk'.used[m] = disk.used[m] - back[m],
         \A m \in Sent : back[m] = 1 => l = "send" /\ Owed(m),
         \A m \in Sent : disk.used[m] \in Nat /\ clicked[m] \in Nat /\ Cardinality(Waiting(queue, m)) \in Nat
  PROVE  SendsAreCharged'
<1>1. "send" \in Pacing!Lane /\ SendCap \in Nat /\ "none" \notin Sent
  BY Constants
<1>2. op'["send"] = op["send"] \/ (l = "send" /\ op'["send"] = Pacing!Idle)
  BY <1>1 DEF LaneLeft
<1>3. Pacing!Idle.pc = "idle" /\ Pacing!Idle.kind = "none"
  BY RestingPacer
<1>4. op'["send"].pc = "gap" => op'["send"] = op["send"] /\ op["send"].kind \in Sent
  BY <1>1, <1>2, <1>3 DEF LanesAreApart, KindsOf
<1>5. ASSUME NEW m \in Sent
      PROVE  /\ clicked'[m] + Cardinality(Waiting(queue, m)') + (IF Owed(m)' THEN 1 ELSE 0) <= disk'.used[m]
             /\ disk'.used[m] <= SendCap
  <2>1. Waiting(queue, m)' = Waiting(queue, m)
    BY DEF Waiting, QueueLeft
  <2>2. Owed(m)' => l # "send"
    <3> SUFFICES ASSUME l = "send" PROVE ~Owed(m)'
      OBVIOUS
    <3>1. op'["send"] = Pacing!Idle
      BY DEF LaneLeft
    <3> QED BY <1>1, <1>3, <3>1 DEF Owed
  <2>3. Owed(m)' => Owed(m)
    <3> SUFFICES ASSUME Owed(m)' PROVE Owed(m)
      OBVIOUS
    <3>1. op'["send"] = op["send"]
      BY <1>2, <2>2
    <3> QED BY <3>1 DEF Owed, QueueLeft
  <2>4. /\ clicked[m] + Cardinality(Waiting(queue, m)) + (IF Owed(m) THEN 1 ELSE 0) <= disk.used[m]
        /\ disk.used[m] <= SendCap
    BY DEF SendsAreCharged
  <2>5. /\ disk.used[m] \in Nat /\ clicked[m] \in Nat /\ Cardinality(Waiting(queue, m)) \in Nat
        /\ back[m] \in {0, 1} /\ disk'.used[m] = disk.used[m] - back[m] /\ (back[m] = 1 => l = "send" /\ Owed(m))
    OBVIOUS
  <2>6. CASE back[m] = 1
    BY <1>1, <2>1, <2>2, <2>4, <2>5, <2>6
  <2>7. CASE back[m] = 0
    BY <1>1, <2>1, <2>3, <2>4, <2>5, <2>7
  <2> QED BY <2>5, <2>6, <2>7
<1>6. op'["send"].pc = "gap" => disk'.used[op'["send"].kind] < SendCap
  <2> SUFFICES ASSUME op'["send"].pc = "gap" PROVE disk'.used[op'["send"].kind] < SendCap
    OBVIOUS
  <2> DEFINE m == op["send"].kind
  <2>1. m \in Sent /\ op["send"].pc = "gap" /\ op'["send"].kind = m
    BY <1>4
  <2>2. disk.used[m] < SendCap /\ disk.used[m] \in Nat /\ disk'.used[m] = disk.used[m] - back[m] /\ back[m] \in {0, 1}
    BY <2>1 DEF SendsAreCharged
  <2> HIDE DEF m
  <2> QED BY <1>1, <2>1, <2>2
<1> QED
  BY <1>5, <1>6 DEF SendsAreCharged

LEMMA LeavesStopKnown ==
  ASSUME StopIsKnown, NEW l \in Pacing!Lane, LaneLeft(l), QueueLeft(l), throttled' = throttled,
         deserted => deserted', disk.paused => disk'.paused,
         op[l].pc = "answered" /\ op[l].answer \in Refusals => disk'.paused
  PROVE  StopIsKnown'
<1> SUFFICES ASSUME throttled, ~disk'.paused, ~deserted'
             PROVE  \/ \E i \in DOMAIN queue' : queue'[i].out \in Refusals
                    \/ \E k \in Pacing!Lane : op'[k].pc = "answered" /\ op'[k].answer \in Refusals
  BY DEF StopIsKnown
<1>1. CASE \E i \in DOMAIN queue : queue[i].out \in Refusals
  BY <1>1 DEF QueueLeft
<1>2. CASE \E k \in Pacing!Lane : op[k].pc = "answered" /\ op[k].answer \in Refusals
  BY <1>2 DEF LaneLeft
<1> QED
  BY <1>1, <1>2 DEF StopIsKnown

(* A sweep that leaves has on its pacer whatever it read.                     *)
LEMMA LeavesPaid ==
  ASSUME ReadsArePaid, LanesAreApart, \A i \in DOMAIN queue : queue[i] \in JobRow,
         NEW l \in Pacing!Lane, LaneLeft(l), op[l].pc # "idle", deserted => deserted', deserted' \/ queue' = queue,
         QueueLeft(l),
         l # "sync" => due'["sync"] = due["sync"],
         l = "sync" => due'["sync"] = IF due["sync"] > Unpaid THEN due["sync"] - Unpaid ELSE 0,
         due["sync"] \in Nat, Unpaid \in Nat
  PROVE  ReadsArePaid'
<1> SUFFICES ASSUME ~deserted'
             PROVE  /\ op'["sync"].pc = "idle" => due'["sync"] = 0
                    /\ op'["sync"].pc # "idle" => due'["sync"] <= Unpaid'
                    /\ \A i \in DOMAIN queue' :
                         queue'[i].kind = "probe" /\ queue'[i].out = "todo" => due'["sync"] < Unpaid'
  BY DEF ReadsArePaid
<1>1. ~deserted /\ queue' = queue /\ "sync" \in Pacing!Lane
  BY Constants
<1>2. CASE l = "sync"
  <2>1. due'["sync"] = 0
    BY <1>1, <1>2 DEF ReadsArePaid
  <2>2. op'["sync"].pc = "idle"
    BY <1>2, RestingPacer DEF LaneLeft
  <2>3. ASSUME NEW i \in DOMAIN queue, queue[i].kind = "probe" PROVE FALSE
    <3>1. queue[i].kind \in KindsOf(queue[i].lane) /\ queue[i].lane \in Pacing!Lane /\ queue[i].live
      BY <1>1 DEF LanesAreApart, JobRow
    <3>2. queue[i].lane = "sync"
      BY <2>3, <3>1, Constants DEF KindsOf
    <3>3. queue'[i].live = (queue[i].live /\ queue[i].lane # l)
      BY DEF QueueLeft
    <3> QED BY <1>1, <1>2, <3>1, <3>2, <3>3
  <2> QED BY <1>1, <2>1, <2>2, <2>3
<1>3. CASE l # "sync"
  <2>1. op'["sync"] = op["sync"] /\ due'["sync"] = due["sync"] /\ Unpaid' = Unpaid
    BY <1>1, <1>3 DEF LaneLeft, Unpaid
  <2> QED BY <1>1, <2>1 DEF ReadsArePaid
<1> QED
  BY <1>2, <1>3

(* What is merged was bounded by what its operation saw.                     *)
LEMMA LeavesBounded ==
  ASSUME ReadsAreBounded, NEW l \in Pacing!Lane, LaneLeft(l), QueueLeft(l), NEW n \in Nat,
         op[l].pc # "idle", Views' = Views + n, Views \in Nat, PageSaw \in Nat, Unpaid \in Nat, SweepSaw \in Int,
         l = "send" => n = 0, l = "discover" => n <= ViewCap - PageSaw, l = "sync" => n = Unpaid
  PROVE  ReadsAreBounded'
<1>1. /\ ViewCap \in Nat /\ l \in {"send", "discover", "sync"}
      /\ "discover" \in Pacing!Lane /\ "sync" \in Pacing!Lane
  BY Constants
<1>2. l # "discover" => PageSaw' = PageSaw /\ op'["discover"] = op["discover"]
  BY <1>1 DEF PageSaw, LaneLeft
<1>3. l # "sync" => SweepSaw' = SweepSaw /\ Unpaid' = Unpaid /\ op'["sync"] = op["sync"]
  BY <1>1 DEF SweepSaw, Unpaid, LaneLeft
<1>4. op'[l].pc = "idle"
  BY RestingPacer DEF LaneLeft
<1>5. \A i \in DOMAIN queue' : queue'[i].live /\ queue'[i].lane = "discover" =>
        l # "discover" /\ queue'[i].limit <= ViewCap - PageSaw /\ queue'[i].count <= ViewCap - PageSaw
  BY DEF ReadsAreBounded, QueueLeft
<1>6. /\ Views <= 2 * ViewCap
      /\ op["discover"].pc # "idle" => PageSaw < ViewCap /\ Views <= ViewCap + PageSaw
      /\ op["discover"].pc = "answered" => op["discover"].count <= ViewCap - PageSaw
      /\ op["sync"].pc # "idle" =>
           /\ SweepSaw >= 0 /\ Views <= ViewCap + SweepSaw
           /\ Unpaid > 0 => SweepSaw + Unpaid <= ViewCap
      /\ op["discover"].pc # "idle" /\ op["sync"].pc # "idle" => Views <= PageSaw + SweepSaw
  BY DEF ReadsAreBounded
<1>7. CASE l = "send"
  <2>1. n = 0
    BY <1>7
  <2> QED BY <1>1, <1>2, <1>3, <1>5, <1>6, <1>7, <2>1 DEF ReadsAreBounded
<1>8. CASE l = "discover"
  <2>1. n <= ViewCap - PageSaw /\ op["discover"].pc # "idle" /\ op'["discover"].pc = "idle"
    BY <1>4, <1>8
  <2>2. Views' <= 2 * ViewCap
    BY <1>1, <1>6, <2>1
  <2>3. op["sync"].pc # "idle" => Views' <= ViewCap + SweepSaw
    BY <1>1, <1>6, <2>1
  <2> QED BY <1>1, <1>3, <1>5, <1>6, <1>8, <2>1, <2>2, <2>3 DEF ReadsAreBounded
<1>9. CASE l = "sync"
  <2>1. n = Unpaid /\ op["sync"].pc # "idle" /\ op'["sync"].pc = "idle"
    BY <1>4, <1>9
  <2>2. Views' <= 2 * ViewCap
    BY <1>1, <1>6, <2>1
  <2>3. op["discover"].pc # "idle" => Views' <= ViewCap + PageSaw
    BY <1>1, <1>6, <2>1
  <2> QED BY <1>1, <1>2, <1>5, <1>6, <1>9, <2>1, <2>2, <2>3 DEF ReadsAreBounded
<1> QED
  BY <1>1, <1>7, <1>8, <1>9

(* What the pacer of an operation that leaves can hold.                       *)
MayLeave(l, p) ==
  /\ p.pending \in Charges /\ p.refunds \in Charges /\ p.pause \in BOOLEAN
  /\ \A m \in Sent : p.pending[m] = 0 /\ (p.refunds[m] = 0 \/ (p.refunds[m] = 1 /\ l = "send" /\ Owed(m)))
  /\ p.refunds["views"] = 0
  /\ l = "send" => p.pending["views"] = 0
  /\ l = "discover" => p.pending["views"] <= ViewCap - PageSaw
  /\ l = "sync" => p.pending["views"] = Unpaid
  /\ op[l].pc = "answered" /\ op[l].answer \in Refusals => p.pause

(* _paced_session's way out.                                                 *)
LEMMA Leaves ==
  ASSUME PacingInv, NEW l \in Pacing!Lane, NEW p, Pacing!Leave(l, p), MayLeave(l, p), op[l].pc # "idle",
         UNCHANGED <<clicked, throttled>>, queue' \in Seq(JobRow), QueueLeft(l),
         deserted' \in BOOLEAN, deserted => deserted', deserted' \/ queue' = queue
  PROVE  PacingInv'
<1>0. /\ p.pending \in Charges /\ p.refunds \in Charges /\ p.pause \in BOOLEAN
      /\ \A m \in Sent : p.pending[m] = 0 /\ (p.refunds[m] = 0 \/ (p.refunds[m] = 1 /\ l = "send" /\ Owed(m)))
      /\ p.refunds["views"] = 0
      /\ l = "send" => p.pending["views"] = 0
      /\ l = "discover" => p.pending["views"] <= ViewCap - PageSaw
      /\ l = "sync" => p.pending["views"] = Unpaid
      /\ op[l].pc = "answered" /\ op[l].answer \in Refusals => p.pause
  BY DEF MayLeave
<1>1. /\ disk' = Pacing!Merged(p) /\ op' = [op EXCEPT ![l] = Pacing!Idle]
      /\ due' = [due EXCEPT ![l] = IF @ > p.pending["views"] THEN @ - p.pending["views"] ELSE 0]
  BY DEF Pacing!Leave
<1>2. PacingType /\ LanesAreApart /\ PacersRest /\ SendsAreCharged /\ ReadsAreBounded /\ StopIsKnown /\ ReadsArePaid
  BY DEF PacingInv
<1>3. /\ disk \in Ledger /\ disk.used \in Charges /\ disk.paused \in BOOLEAN
      /\ op \in [Pacing!Lane -> OpRow] /\ due \in [Pacing!Lane -> 0 .. MaxDue] /\ clicked \in [Sent -> Nat]
  BY <1>2 DEF PacingType, Ledger
<1>4. /\ "views" \in Pacing!Meter /\ \A m \in Sent : m \in Pacing!Meter
      /\ \A m \in Pacing!Meter : m \in Sent \/ m = "views"
      /\ "send" \in Pacing!Lane /\ "discover" \in Pacing!Lane /\ "sync" \in Pacing!Lane /\ MaxDue \in Nat
  BY Constants
<1>5. op' \in [Pacing!Lane -> OpRow] /\ LaneLeft(l)
  BY <1>1, <1>3, RestingPacer DEF LaneLeft
<1>6. \A m \in Pacing!Meter :
        /\ disk'.used[m] = disk.used[m] + p.pending[m] - p.refunds[m]
        /\ disk.used[m] \in Nat /\ p.pending[m] \in Nat /\ p.refunds[m] \in Nat
  BY <1>0, <1>1, <1>3 DEF Pacing!Merged, Charges
<1>7. \A m \in Sent : clicked[m] \in Nat /\ Cardinality(Waiting(queue, m)) \in Nat /\ disk.used[m] \in Nat
  BY <1>2, <1>3, <1>4, <1>6, WaitingIsFinite DEF PacingType
<1>8. ASSUME NEW m \in Sent PROVE disk'.used[m] = disk.used[m] - p.refunds[m] /\ disk'.used[m] \in Nat
  <2>1. disk'.used[m] = disk.used[m] - p.refunds[m]
    BY <1>0, <1>4, <1>6
  <2>2. p.refunds[m] = 1 => disk.used[m] > 0
    BY <1>0, <1>2, <1>7 DEF SendsAreCharged
  <2> QED BY <1>0, <1>7, <2>1, <2>2
<1>9. disk'.used["views"] = disk.used["views"] + p.pending["views"] /\ disk'.used["views"] \in Nat
  BY <1>0, <1>4, <1>6
<1>10. disk' \in Ledger /\ disk'.paused = (disk.paused \/ p.pause)
  <2>1. disk' = [used |-> disk'.used, paused |-> disk.paused \/ p.pause]
    BY <1>1 DEF Pacing!Merged
  <2>2. disk'.used \in [Pacing!Meter -> Nat]
    <3>1. \A m \in Pacing!Meter : disk'.used[m] \in Nat
      BY <1>4, <1>8, <1>9
    <3>2. disk'.used = [m \in Pacing!Meter |-> disk'.used[m]]
      BY <1>1 DEF Pacing!Merged
    <3> QED BY <3>1, <3>2
  <2> QED BY <1>0, <1>3, <2>1, <2>2 DEF Ledger, Charges
<1>11. /\ due' \in [Pacing!Lane -> 0 .. MaxDue] /\ \A k \in Pacing!Lane \ {l} : due'[k] = due[k]
       /\ due'[l] = IF due[l] > p.pending["views"] THEN due[l] - p.pending["views"] ELSE 0
  <2>1. due[l] \in 0 .. MaxDue /\ p.pending["views"] \in Nat
    BY <1>3, <1>4, <1>6
  <2>2. (IF due[l] > p.pending["views"] THEN due[l] - p.pending["views"] ELSE 0) \in 0 .. MaxDue
    BY <1>4, <2>1
  <2> QED BY <1>1, <1>3, <2>2
<1>12. PacingType'
  BY <1>2, <1>5, <1>10, <1>11 DEF PacingType
<1>13. \A i \in DOMAIN queue : queue[i] \in JobRow
  BY QueueIs
<1>14. LanesAreApart'
  BY <1>2, <1>5, <1>13, LeavesLanesApart
<1>15. PacersRest'
  BY <1>2, <1>5, LeavesPacersRest
<1>16. SendsAreCharged'
  <2> DEFINE back == p.refunds
  <2>1. \A m \in Sent : back[m] \in {0, 1} /\ disk'.used[m] = disk.used[m] - back[m]
    BY <1>0, <1>8
  <2>2. \A m \in Sent : back[m] = 1 => l = "send" /\ Owed(m)
    BY <1>0
  <2> HIDE DEF back
  <2> QED BY <1>2, <1>5, <1>7, <2>1, <2>2, LeavesCharged
<1>17. StopIsKnown'
  BY <1>0, <1>2, <1>5, <1>10, LeavesStopKnown
<1>18. /\ Views \in Nat /\ PageSaw \in Nat /\ Unpaid \in Nat /\ SweepSaw \in Int /\ due["sync"] \in Nat
       /\ Views' = Views + p.pending["views"] /\ p.pending["views"] \in Nat
  <2>1. /\ op["discover"].pacer.seen.used \in Charges /\ op["sync"].pacer.seen.used \in Charges
        /\ op["sync"].pacer.pending \in Charges
    BY <1>3, <1>4 DEF OpRow, PacerRow, Ledger
  <2>2. PageSaw \in Nat /\ Unpaid \in Nat /\ op["sync"].pacer.seen.used["views"] \in Nat
    BY <1>4, <2>1 DEF PageSaw, Unpaid, Charges
  <2>3. SweepSaw \in Int
    BY <2>2 DEF SweepSaw
  <2>4. due["sync"] \in Nat
    BY <1>3, <1>4
  <2> QED BY <1>4, <1>6, <1>9, <2>2, <2>3, <2>4 DEF Views
<1>19. ReadsArePaid'
  <2>1. l # "sync" => due'["sync"] = due["sync"]
    BY <1>4, <1>11
  <2>2. l = "sync" => due'["sync"] = IF due["sync"] > Unpaid THEN due["sync"] - Unpaid ELSE 0
    BY <1>0, <1>11
  <2> QED BY <1>2, <1>5, <1>13, <1>18, <2>1, <2>2, LeavesPaid
<1>20. ReadsAreBounded'
  BY <1>0, <1>2, <1>5, <1>18, LeavesBounded
<1> QED
  BY <1>12, <1>14, <1>15, <1>16, <1>17, <1>19, <1>20 DEF PacingInv

LEMMA HandedKeeps ==
  ASSUME PacingInv, NEW l \in {"discover", "sync"}, NEW p, NEW left, NEW kind \in KindsOf(l), NEW limit,
         Handed(l, p, left, kind, limit), UNCHANGED <<disk, clicked, throttled, deserted>>,
         \A m \in Pacing!Meter : p.refunds[m] = 0, \A m \in Pacing!Meter : m \in Sent \/ l # "sync" => p.pending[m] = 0,
         ~p.pause, ~(op[l].pc = "answered" /\ op[l].answer \in Refusals)
  PROVE  PacersRest' /\ SendsAreCharged' /\ StopIsKnown'
<1>1. /\ LanesAreApart /\ PacersRest /\ SendsAreCharged /\ StopIsKnown
      /\ l \in Pacing!Lane /\ "send" \in Pacing!Lane /\ l # "send"
  BY Constants DEF PacingInv
<1>2. op'["send"] = op["send"] /\ op'[l].pacer = p /\ \A k \in Pacing!Lane \ {l} : op'[k] = op[k]
  <2>1. /\ op'[l] = [pc |-> "browser", pacer |-> p, left |-> left, kind |-> kind, answer |-> "none", count |-> 0]
        /\ \A k \in Pacing!Lane \ {l} : op'[k] = op[k]
    BY DEF Handed
  <2>2. op'["send"] = op["send"]
    BY <1>1, <2>1
  <2>3. op'[l].pacer = p
    BY <2>1
  <2> QED BY <2>1, <2>2, <2>3
<1>3. PacersRest'
  <2>1. ASSUME NEW k \in Pacing!Lane
        PROVE  /\ \A m \in Pacing!Meter : op'[k].pacer.refunds[m] = 0
               /\ \A m \in Pacing!Meter : m \in Sent \/ k # "sync" => op'[k].pacer.pending[m] = 0
               /\ ~op'[k].pacer.pause
    <3>1. CASE k = l
      BY <1>2, <3>1
    <3>2. CASE k # l
      BY <1>1, <1>2, <3>2 DEF PacersRest
    <3> QED BY <3>1, <3>2
  <2>2. /\ op'["send"].pc = "gap" => op'["send"].pacer.mine[op'["send"].kind] = 0
        /\ op'["send"].pc \in {"browser", "answered"} => op'["send"].pacer.mine[op'["send"].kind] = 1
    BY <1>1, <1>2 DEF PacersRest
  <2> QED BY <2>1, <2>2 DEF PacersRest
<1>4. kind \notin Sent
  BY Constants DEF KindsOf
<1>5. SendsAreCharged'
  <2>1. ASSUME NEW m \in Sent, Owed(m)' PROVE Owed(m)
    <3>1. \A i \in DOMAIN queue' : queue'[i].lane = "send" => i \in DOMAIN queue /\ queue'[i] = queue[i]
      BY <1>1 DEF Handed, Pacing!Job
    <3> QED BY <1>2, <2>1, <3>1 DEF Owed
  <2>2. \A m \in Sent : Cardinality(Waiting(queue, m)') = Cardinality(Waiting(queue, m))
    <3>1. ASSUME NEW m \in Sent PROVE Cardinality(Waiting(queue', m)) = Cardinality(Waiting(queue, m)) + 0
      BY <1>4 DEF Handed
    <3>2. \A m \in Sent : Cardinality(Waiting(queue, m)) \in Nat
      BY QueueIs, WaitingIsFinite
    <3> QED BY <3>1, <3>2 DEF Waiting
  <2>3. \A m \in Sent : clicked[m] \in Nat /\ disk.used[m] \in Nat /\ Cardinality(Waiting(queue, m)) \in Nat
    BY QueueIs, WaitingIsFinite, Constants DEF PacingInv, PacingType, Ledger, Charges
  <2>4. ASSUME NEW m \in Sent
        PROVE  /\ clicked'[m] + Cardinality(Waiting(queue, m)') + (IF Owed(m)' THEN 1 ELSE 0) <= disk'.used[m]
               /\ disk'.used[m] <= SendCap
    <3>1. /\ clicked[m] + Cardinality(Waiting(queue, m)) + (IF Owed(m) THEN 1 ELSE 0) <= disk.used[m]
          /\ disk.used[m] <= SendCap
      BY <1>1 DEF SendsAreCharged
    <3> QED BY <2>1, <2>2, <2>3, <3>1
  <2>5. op'["send"].pc = "gap" => disk'.used[op'["send"].kind] < SendCap
    BY <1>1, <1>2 DEF SendsAreCharged
  <2> QED BY <2>4, <2>5 DEF SendsAreCharged
<1>6. StopIsKnown'
  <2>1. \A i \in DOMAIN queue : i \in DOMAIN queue' /\ queue'[i] = queue[i]
    BY DEF Handed
  <2> QED BY <1>1, <1>2, <2>1 DEF StopIsKnown
<1> QED
  BY <1>3, <1>5, <1>6

(* What the arithmetic of the reads needs of the types.                       *)
LEMMA ReadsAre ==
  ASSUME PacingInv
  PROVE  /\ Views \in Nat /\ PageSaw \in Nat /\ Unpaid \in Nat /\ SweepSaw \in Int /\ ViewCap \in Nat
         /\ op["sync"].pacer.seen.used["views"] \in Nat /\ due["sync"] \in Nat
<1>1. /\ "views" \in Pacing!Meter /\ "discover" \in Pacing!Lane /\ "sync" \in Pacing!Lane /\ ViewCap \in Nat /\ MaxDue \in Nat
  BY Constants
<1>2. /\ disk.used \in Charges /\ op["discover"].pacer.seen.used \in Charges /\ op["sync"].pacer.seen.used \in Charges
      /\ op["sync"].pacer.pending \in Charges /\ due["sync"] \in 0 .. MaxDue
  BY <1>1 DEF PacingInv, PacingType, OpRow, PacerRow, Ledger
<1>3. Views \in Nat /\ PageSaw \in Nat /\ Unpaid \in Nat /\ op["sync"].pacer.seen.used["views"] \in Nat
  BY <1>1, <1>2 DEF Views, PageSaw, Unpaid, Charges
<1> QED
  BY <1>1, <1>2, <1>3 DEF SweepSaw

LEMMA ReachKeeps == ASSUME PacingInv, NEW m \in Sent, Pacing!Reach(m) PROVE PacingInv'
<1> DEFINE now == [Pacing!Idle EXCEPT !.pc = "gap", !.pacer = Pacing!Loaded, !.kind = m]
<1>1. /\ op["send"].pc = "idle" /\ Pacing!Allows(disk, m) /\ op' = [op EXCEPT !["send"] = now]
      /\ UNCHANGED <<disk, queue, clicked, throttled, due, deserted>>
  BY DEF Pacing!Reach
<1>2. /\ PacingType /\ LanesAreApart /\ PacersRest /\ SendsAreCharged /\ ReadsAreBounded /\ StopIsKnown /\ ReadsArePaid
      /\ disk \in Ledger /\ op \in [Pacing!Lane -> OpRow]
      /\ "send" \in Pacing!Lane /\ "discover" \in Pacing!Lane /\ "sync" \in Pacing!Lane
      /\ m \in Kinds /\ m \in Pacing!Meter /\ m # "views"
  BY Constants DEF PacingInv, PacingType
<1>3. now \in OpRow /\ now.pc = "gap" /\ now.pacer = Pacing!Loaded /\ now.kind = m
  <2>1. Pacing!Loaded \in PacerRow /\ Pacing!Idle \in OpRow
    BY <1>2, RestingPacer
  <2> QED BY <1>2, <2>1 DEF OpRow
<1> HIDE DEF now
<1>4. /\ op' \in [Pacing!Lane -> OpRow] /\ op'["send"] = now /\ op'["discover"] = op["discover"] /\ op'["sync"] = op["sync"]
      /\ \A k \in Pacing!Lane : k # "send" => op'[k] = op[k]
  BY <1>1, <1>2, <1>3
<1>5. PacingType'
  BY <1>1, <1>2, <1>4 DEF PacingType
<1>6. \A i \in DOMAIN queue : queue[i].lane \in Pacing!Lane /\ ~(queue[i].live /\ queue[i].lane = "send")
  BY <1>1, <1>2, QueueIs DEF LanesAreApart, JobRow
<1>7. LanesAreApart'
  <2>1. ASSUME NEW i \in DOMAIN queue, queue[i].live
        PROVE  op'[queue[i].lane].pc = "browser" /\ op'[queue[i].lane].kind = queue[i].kind
    BY <1>2, <1>4, <1>6, <2>1 DEF LanesAreApart
  <2>2. ASSUME NEW k \in Pacing!Lane
        PROVE  /\ op'[k].pc = "browser" => \E i \in DOMAIN queue : queue[i].lane = k /\ queue[i].live
               /\ op'[k].pc # "idle" => op'[k].kind \in KindsOf(k)
               /\ op'[k].pc = "answered" => op'[k].answer \in Pacing!Outcome(op'[k].kind)
               /\ op'[k].pc = "gap" => k = "send"
    <3>1. CASE k = "send"
      BY <1>3, <1>4, <3>1 DEF KindsOf
    <3>2. CASE k # "send"
      BY <1>2, <1>4, <3>2 DEF LanesAreApart
    <3> QED BY <3>1, <3>2
  <2> QED BY <1>1, <1>2, <2>1, <2>2 DEF LanesAreApart
<1>8. PacersRest'
  BY <1>2, <1>3, <1>4, RestingPacer, ZeroCharges DEF PacersRest
<1>9. SendsAreCharged'
  <2>1. \A k \in Sent : ~Owed(k)'
    BY <1>1, <1>3, <1>4, <1>6 DEF Owed
  <2>2. disk.used[m] < SendCap
    BY <1>1, <1>2 DEF Pacing!Allows, Pacing!Cap
  <2>3. \A k \in Sent : clicked[k] \in Nat /\ disk.used[k] \in Nat /\ Cardinality(Waiting(queue, k)) \in Nat
    BY QueueIs, WaitingIsFinite, Constants DEF PacingInv, PacingType, Ledger, Charges
  <2>4. ASSUME NEW k \in Sent
        PROVE  clicked[k] + Cardinality(Waiting(queue, k)) + 0 <= disk.used[k] /\ disk.used[k] <= SendCap
    BY <1>2, <2>3 DEF SendsAreCharged
  <2>5. \A k \in Sent : Waiting(queue, k)' = Waiting(queue, k)
    BY <1>1 DEF Waiting
  <2> QED BY <1>1, <1>3, <1>4, <2>1, <2>2, <2>4, <2>5 DEF SendsAreCharged
<1>10. ReadsAreBounded'
  BY <1>1, <1>2, <1>4 DEF ReadsAreBounded, Views, PageSaw, Unpaid, SweepSaw
<1>11. StopIsKnown'
  BY <1>1, <1>2, <1>4 DEF StopIsKnown
<1>12. ReadsArePaid'
  BY <1>1, <1>2, <1>4 DEF ReadsArePaid, Unpaid
<1> QED
  BY <1>5, <1>7, <1>8, <1>9, <1>10, <1>11, <1>12 DEF PacingInv

(* The pacer that comes out of a save has nothing left to save.               *)
LEMMA SavedPacer ==
  ASSUME NEW p \in PacerRow, disk' \in Ledger, disk' = Pacing!Merged(p), NEW q, q = Pacing!Saved(p)
  PROVE  q \in PacerRow /\ q.pending = Pacing!Nothing /\ q.refunds = Pacing!Nothing /\ q.pause = FALSE /\ q.mine = p.mine
<1>1. q = [seen |-> disk', pending |-> Pacing!Nothing, mine |-> p.mine, refunds |-> Pacing!Nothing, pause |-> FALSE]
  BY DEF Pacing!Saved, PacerRow
<1> QED
  BY <1>1, ZeroCharges DEF PacerRow

LEMMA ChargeKeeps == ASSUME PacingInv, Pacing!Charge PROVE PacingInv'
<1> DEFINE m == op["send"].kind
           p == Pacing!Record(op["send"].pacer, m, 1)
           q == Pacing!Saved(p)
<1>1. /\ op["send"].pc = "gap" /\ disk' = Pacing!Merged(p) /\ Pacing!Submit("send", q, 0, m, 1)
      /\ UNCHANGED <<clicked, throttled, due, deserted>>
  BY DEF Pacing!Charge
<1>2. /\ PacingType /\ LanesAreApart /\ PacersRest /\ SendsAreCharged /\ ReadsAreBounded /\ StopIsKnown /\ ReadsArePaid
      /\ disk \in Ledger /\ disk.used \in Charges /\ disk.paused \in BOOLEAN /\ op \in [Pacing!Lane -> OpRow]
      /\ "send" \in Pacing!Lane /\ "discover" \in Pacing!Lane /\ "sync" \in Pacing!Lane
      /\ op["send"].pacer \in PacerRow
  BY Constants DEF PacingInv, PacingType, Ledger, OpRow
<1>3. m \in Sent /\ m \in KindsOf("send") /\ m \in Pacing!Meter /\ m # "views" /\ m # "probe" /\ "views" \in Pacing!Meter
  BY <1>1, <1>2, Constants DEF LanesAreApart, KindsOf
<1>4. /\ \A k \in Pacing!Meter : op["send"].pacer.refunds[k] = 0 /\ op["send"].pacer.pending[k] = 0
      /\ op["send"].pacer.pause = FALSE /\ op["send"].pacer.mine[m] = 0
  BY <1>1, <1>2, <1>3 DEF PacersRest, PacerRow
<1> HIDE DEF m
<1>5. /\ p \in PacerRow /\ p.refunds = op["send"].pacer.refunds /\ p.pause = FALSE /\ p.mine[m] = 1
      /\ \A k \in Pacing!Meter : p.pending[k] = IF k = m THEN 1 ELSE 0
  <2>1. 1 \in Nat
    OBVIOUS
  <2> HIDE DEF p
  <2>2. HasMore(p, op["send"].pacer, m, 1)
    BY <1>2, <1>3, <2>1, Recorded DEF p
  <2>3. /\ p \in PacerRow /\ p.refunds = op["send"].pacer.refunds /\ p.pause = op["send"].pacer.pause
        /\ \A k \in Pacing!Meter : /\ p.pending[k] = op["send"].pacer.pending[k] + (IF k = m THEN 1 ELSE 0)
                                   /\ p.mine[k] = op["send"].pacer.mine[k] + (IF k = m THEN 1 ELSE 0)
    BY <2>2 DEF HasMore
  <2> QED BY <1>3, <1>4, <2>3
<1> HIDE DEF p
<1>6. /\ \A k \in Pacing!Meter : disk'.used[k] = disk.used[k] + (IF k = m THEN 1 ELSE 0) /\ disk.used[k] \in Nat
      /\ disk'.paused = disk.paused /\ disk' \in Ledger
  <2>1. disk' = [used |-> [k \in Pacing!Meter |-> disk.used[k] + p.pending[k] - p.refunds[k]], paused |-> disk.paused]
    BY <1>1, <1>5, <1>2 DEF Pacing!Merged
  <2>2. \A k \in Pacing!Meter : disk.used[k] \in Nat /\ p.pending[k] = (IF k = m THEN 1 ELSE 0) /\ p.refunds[k] = 0
    BY <1>2, <1>4, <1>5 DEF Charges
  <2>3. \A k \in Pacing!Meter : disk'.used[k] = disk.used[k] + (IF k = m THEN 1 ELSE 0) /\ disk'.used[k] \in Nat
    BY <2>1, <2>2
  <2>4. disk'.used \in Charges
    BY <2>1, <2>3 DEF Charges
  <2> QED BY <1>2, <2>1, <2>2, <2>3, <2>4 DEF Ledger
<1>7. q \in PacerRow /\ q.pending = Pacing!Nothing /\ q.refunds = Pacing!Nothing /\ q.pause = FALSE /\ q.mine = p.mine
  BY <1>1, <1>5, <1>6, SavedPacer
<1> HIDE DEF q
<1>8. PacingType' /\ LanesAreApart' /\ Handed("send", q, 0, m, 1)
  <2>1. 0 \in 0 .. MaxProbes /\ 1 \in Nat /\ op["send"].pc # "browser"
    BY <1>1, Constants
  <2> QED BY <1>1, <1>2, <1>3, <1>6, <1>7, <2>1, Submits
<1>9. /\ op'["send"] = [pc |-> "browser", pacer |-> q, left |-> 0, kind |-> m, answer |-> "none", count |-> 0]
      /\ op'["discover"] = op["discover"] /\ op'["sync"] = op["sync"]
      /\ \A k \in Pacing!Lane \ {"send"} : op'[k] = op[k]
  BY <1>2, <1>8 DEF Handed
<1>10. PacersRest'
  <2>1. \A k \in Pacing!Meter : q.pending[k] = 0 /\ q.refunds[k] = 0
    BY <1>7, ZeroCharges
  <2>2. ASSUME NEW l \in Pacing!Lane
        PROVE  /\ \A k \in Pacing!Meter : op'[l].pacer.refunds[k] = 0
               /\ \A k \in Pacing!Meter : k \in Sent \/ l # "sync" => op'[l].pacer.pending[k] = 0
               /\ ~op'[l].pacer.pause
    <3>1. CASE l = "send"
      BY <1>7, <1>9, <2>1, <3>1
    <3>2. CASE l # "send"
      BY <1>2, <1>9, <3>2 DEF PacersRest
    <3> QED BY <3>1, <3>2
  <2>3. op'["send"].pc = "browser" /\ op'["send"].pacer.mine[op'["send"].kind] = 1
    BY <1>5, <1>7, <1>9
  <2> QED BY <2>2, <2>3 DEF PacersRest
<1>11. \A i \in DOMAIN queue' : \/ i \in DOMAIN queue /\ queue'[i] = queue[i]
                                \/ queue'[i].lane = "send" /\ queue'[i].kind = m /\ queue'[i].out = "todo"
  BY <1>8 DEF Handed, Pacing!Job
<1>12. SendsAreCharged'
  <2>1. ASSUME NEW k \in Sent PROVE ~Owed(k)'
    <3>1. \A i \in DOMAIN queue' : queue'[i].live /\ queue'[i].lane = "send" => queue'[i].out = "todo"
      BY <1>8, <1>11 DEF Handed
    <3> QED BY <1>9, <3>1 DEF Owed, Refundable
  <2>2. \A k \in Sent : clicked[k] \in Nat /\ disk.used[k] \in Nat /\ Cardinality(Waiting(queue, k)) \in Nat
                        /\ Cardinality(Waiting(queue, k)') = Cardinality(Waiting(queue, k)) + (IF k = m THEN 1 ELSE 0)
    <3>1. \A k \in Sent : Cardinality(Waiting(queue', k)) = Cardinality(Waiting(queue, k)) + (IF k = m THEN 1 ELSE 0)
      BY <1>8 DEF Handed
    <3>2. \A k \in Sent : clicked[k] \in Nat /\ disk.used[k] \in Nat /\ Cardinality(Waiting(queue, k)) \in Nat
      BY <1>2, QueueIs, WaitingIsFinite, Constants DEF PacingType, Charges
    <3> QED BY <3>1, <3>2 DEF Waiting
  <2>3. disk.used[m] < SendCap /\ SendCap \in Nat
    BY <1>1, <1>2, Constants DEF SendsAreCharged, m
  <2>4. ASSUME NEW k \in Sent
        PROVE  /\ clicked'[k] + Cardinality(Waiting(queue, k)') + 0 <= disk'.used[k]
               /\ disk'.used[k] <= SendCap
    <3>1. clicked[k] + Cardinality(Waiting(queue, k)) + 0 <= disk.used[k] /\ disk.used[k] <= SendCap
      BY <1>2, <2>2 DEF SendsAreCharged
    <3>2. disk'.used[k] = disk.used[k] + (IF k = m THEN 1 ELSE 0) /\ clicked' = clicked
      BY <1>1, <1>6, Constants
    <3>3. CASE k = m
      BY <2>2, <2>3, <3>1, <3>2, <3>3
    <3>4. CASE k # m
      BY <2>2, <3>1, <3>2, <3>4
    <3> QED BY <3>3, <3>4
  <2> QED BY <1>9, <2>1, <2>4 DEF SendsAreCharged
<1>13. ReadsAreBounded'
  <2>1. Views' = Views /\ PageSaw' = PageSaw /\ SweepSaw' = SweepSaw /\ Unpaid' = Unpaid
    BY <1>3, <1>6, <1>9 DEF Views, PageSaw, SweepSaw, Unpaid
  <2>2. \A i \in DOMAIN queue' : queue'[i].lane = "discover" => i \in DOMAIN queue /\ queue'[i] = queue[i]
    BY <1>11
  <2> QED BY <1>2, <1>9, <2>1, <2>2 DEF ReadsAreBounded
<1>14. StopIsKnown'
  <2>1. \A i \in DOMAIN queue : i \in DOMAIN queue' /\ queue'[i] = queue[i]
    BY <1>8 DEF Handed
  <2>2. \A l \in Pacing!Lane : op[l].pc = "answered" => op'[l] = op[l]
    BY <1>1, <1>9
  <2> QED BY <1>1, <1>2, <1>6, <2>1, <2>2 DEF StopIsKnown
<1>15. ReadsArePaid'
  BY <1>1, <1>2, <1>3, <1>9, <1>11 DEF ReadsArePaid, Unpaid
<1> QED
  BY <1>8, <1>10, <1>12, <1>13, <1>14, <1>15 DEF PacingInv

LEMMA DiscoverKeeps == ASSUME PacingInv, Pacing!Discover PROVE PacingInv'
<1> DEFINE left == ViewCap - disk.used["views"]
           limit == Pacing!Min({Page, left})
<1>1. /\ op["discover"].pc = "idle" /\ Pacing!Allows(disk, "views")
      /\ Pacing!Submit("discover", Pacing!Loaded, 0, "page", limit)
      /\ UNCHANGED <<disk, clicked, throttled, due, deserted>>
  BY DEF Pacing!Discover
<1>2. /\ ReadsAreBounded /\ ReadsArePaid /\ disk \in Ledger
      /\ "discover" \in Pacing!Lane /\ "sync" \in Pacing!Lane /\ "views" \in Pacing!Meter
      /\ "page" \in KindsOf("discover") /\ 0 \in 0 .. MaxProbes /\ Page \in Nat
  BY Constants DEF PacingInv, PacingType, KindsOf
<1>3. Views < ViewCap
  BY <1>1, <1>2 DEF Pacing!Allows, Pacing!Cap, Views
<1>4. left \in Nat /\ left = ViewCap - Views
  BY <1>3, ReadsAre DEF Views
<1> HIDE DEF left
<1>5. limit \in Nat /\ limit <= ViewCap - Views
  BY <1>2, <1>4, Smaller
<1> HIDE DEF limit
<1>6. PacingType' /\ LanesAreApart' /\ Handed("discover", Pacing!Loaded, 0, "page", limit)
  BY <1>1, <1>2, <1>5, RestingPacer, Submits
<1>7. PacersRest' /\ SendsAreCharged' /\ StopIsKnown'
  <2>1. \A m \in Pacing!Meter : Pacing!Loaded.refunds[m] = 0 /\ Pacing!Loaded.pending[m] = 0
    BY RestingPacer, ZeroCharges
  <2>2. Pacing!Loaded.pause = FALSE
    BY RestingPacer
  <2> QED BY <1>1, <1>2, <1>6, <2>1, <2>2, HandedKeeps
<1>8. /\ op'["discover"].pc = "browser" /\ op'["discover"].pacer = Pacing!Loaded /\ op'["sync"] = op["sync"]
      /\ \A i \in DOMAIN queue' : \/ i \in DOMAIN queue /\ queue'[i] = queue[i] /\ ~(queue[i].live /\ queue[i].lane = "discover")
                                  \/ queue'[i] = Pacing!Job("discover", "page", limit)
  BY <1>2, <1>6 DEF Handed
<1>9. ReadsAreBounded'
  <2>1. Views' = Views /\ PageSaw' = Views /\ SweepSaw' = SweepSaw /\ Unpaid' = Unpaid
    BY <1>1, <1>8, RestingPacer DEF Views, PageSaw, SweepSaw, Unpaid
  <2>2. ASSUME NEW i \in DOMAIN queue', queue'[i].live, queue'[i].lane = "discover"
        PROVE  queue'[i].limit <= ViewCap - Views /\ queue'[i].count <= ViewCap - Views
    <3>1. queue'[i] = Pacing!Job("discover", "page", limit)
      BY <1>8, <2>2
    <3>2. queue'[i].limit = limit /\ queue'[i].count = 0
      BY <3>1 DEF Pacing!Job
    <3> QED BY <1>3, <1>5, <3>2, ReadsAre
  <2>3. /\ op["sync"].pc # "idle" => /\ SweepSaw >= 0 /\ Views <= ViewCap + SweepSaw
                                     /\ Unpaid > 0 => SweepSaw + Unpaid <= ViewCap
        /\ Views <= 2 * ViewCap
    BY <1>2 DEF ReadsAreBounded
  <2> QED BY <1>3, <1>8, <2>1, <2>2, <2>3, ReadsAre DEF ReadsAreBounded
<1>10. ReadsArePaid'
  <2>1. Unpaid' = Unpaid
    BY <1>8 DEF Unpaid
  <2>2. \A i \in DOMAIN queue' : queue'[i].kind = "probe" => i \in DOMAIN queue /\ queue'[i] = queue[i]
    BY <1>8 DEF Pacing!Job
  <2> QED BY <1>1, <1>2, <1>8, <2>1, <2>2 DEF ReadsArePaid
<1> QED
  BY <1>6, <1>7, <1>9, <1>10 DEF PacingInv

(* The sweep hands over its next page action.                                *)
LEMMA SweepHands ==
  ASSUME PacingInv, NEW q \in PacerRow, NEW left \in 0 .. MaxProbes, NEW kind \in {"probe", "thread"}, NEW limit \in Nat,
         Pacing!Submit("sync", q, left, kind, limit), op["sync"].pc # "browser",
         ~(op["sync"].pc = "answered" /\ op["sync"].answer \in Refusals),
         UNCHANGED <<disk, due, clicked, throttled, deserted>>,
         \A m \in Pacing!Meter : q.refunds[m] = 0, \A m \in Sent : q.pending[m] = 0, q.pause = FALSE,
         NEW saw \in Nat, NEW n \in Nat, q.seen.used["views"] = saw + n, q.pending["views"] = n,
         Views <= ViewCap + saw, n > 0 => saw + n <= ViewCap,
         op["discover"].pc # "idle" => Views <= PageSaw + saw,
         ~deserted => due["sync"] <= n /\ (kind = "probe" => due["sync"] < n)
  PROVE  PacingInv'
<1>1. /\ ReadsAreBounded /\ ReadsArePaid /\ disk \in Ledger
      /\ "discover" \in Pacing!Lane /\ "sync" \in Pacing!Lane /\ kind \in KindsOf("sync")
  BY Constants DEF PacingInv, PacingType, KindsOf
<1>2. PacingType' /\ LanesAreApart' /\ Handed("sync", q, left, kind, limit)
  BY <1>1, Submits
<1>3. PacersRest' /\ SendsAreCharged' /\ StopIsKnown'
  BY <1>1, <1>2, HandedKeeps
<1>4. /\ op'["sync"].pc = "browser" /\ op'["sync"].pacer = q /\ op'["discover"] = op["discover"]
      /\ \A i \in DOMAIN queue' : \/ i \in DOMAIN queue /\ queue'[i] = queue[i] /\ ~(queue[i].live /\ queue[i].lane = "sync")
                                  \/ queue'[i] = Pacing!Job("sync", kind, limit)
  BY <1>1, <1>2 DEF Handed
<1>5. Views' = Views /\ PageSaw' = PageSaw /\ SweepSaw' = saw /\ Unpaid' = n
  BY <1>4 DEF Views, PageSaw, SweepSaw, Unpaid
<1>6. ReadsAreBounded'
  <2>1. \A i \in DOMAIN queue' : queue'[i].lane = "discover" => i \in DOMAIN queue /\ queue'[i] = queue[i]
    BY <1>4 DEF Pacing!Job
  <2> QED BY <1>1, <1>4, <1>5, <2>1 DEF ReadsAreBounded
<1>7. ReadsArePaid'
  <2>1. \A i \in DOMAIN queue' : queue'[i].kind = "probe" /\ ~deserted => kind = "probe"
    <3> SUFFICES ASSUME NEW i \in DOMAIN queue', queue'[i].kind = "probe", ~deserted, kind # "probe" PROVE FALSE
      OBVIOUS
    <3>1. queue'[i] # Pacing!Job("sync", kind, limit)
      BY DEF Pacing!Job
    <3>2. i \in DOMAIN queue /\ queue[i].kind = "probe" /\ ~(queue[i].live /\ queue[i].lane = "sync")
      BY <1>4, <3>1
    <3>3. queue[i].lane \in Pacing!Lane /\ queue[i].live /\ queue[i].kind \in KindsOf(queue[i].lane)
      BY <3>2, QueueIs DEF PacingInv, LanesAreApart, JobRow
    <3> QED BY <3>2, <3>3, Constants DEF KindsOf
  <2> QED BY <1>4, <1>5, <2>1 DEF ReadsArePaid
<1> QED
  BY <1>2, <1>3, <1>6, <1>7 DEF PacingInv

(* No page action of a lane is waited for: the queue stays as it is.          *)
LEMMA QueueStays ==
  ASSUME PacingInv, NEW l \in Pacing!Lane, op[l].pc # "browser", queue' = queue
  PROVE  QueueLeft(l) /\ queue' \in Seq(JobRow)
<1>1. \A i \in DOMAIN queue : queue[i].live \in BOOLEAN /\ ~(queue[i].live /\ queue[i].lane = l)
  BY QueueIs DEF PacingInv, LanesAreApart, JobRow
<1> QED
  BY <1>1, QueueIs DEF QueueLeft

(* What a pacer holds between two saves.                                     *)
LEMMA PacerHolds ==
  ASSUME PacingInv, NEW l \in Pacing!Lane
  PROVE  /\ op[l].pacer \in PacerRow /\ op[l].pacer.pause = FALSE /\ op[l].left \in 0 .. MaxProbes
         /\ op[l].pacer.pending \in Charges /\ op[l].pacer.refunds \in Charges
         /\ \A m \in Pacing!Meter : op[l].pacer.refunds[m] = 0
         /\ \A m \in Pacing!Meter : m \in Sent \/ l # "sync" => op[l].pacer.pending[m] = 0
BY DEF PacingInv, PacingType, PacersRest, OpRow, PacerRow

LEMMA NextProbeKeeps ==
  ASSUME PacingInv, op["sync"].pc = "answered", op["sync"].answer \notin Refusals,
         Pacing!Probe(op["sync"].pacer, op["sync"].left), UNCHANGED <<clicked, throttled, deserted>>
  PROVE  PacingInv'
<1> DEFINE p == op["sync"].pacer
           q == Pacing!Record(p, "views", 1)
<1>1. /\ ReadsAreBounded /\ ReadsArePaid /\ deserted \in BOOLEAN
      /\ "sync" \in Pacing!Lane /\ "views" \in Pacing!Meter /\ MaxProbes \in Nat /\ "views" \notin Sent
      /\ \A m \in Sent : m \in Pacing!Meter
  BY Constants DEF PacingInv, PacingType
<1>2. /\ p \in PacerRow /\ p.pause = FALSE /\ op["sync"].left \in 0 .. MaxProbes
      /\ p.pending \in Charges /\ p.refunds \in Charges
      /\ \A m \in Pacing!Meter : p.refunds[m] = 0
      /\ \A m \in Sent : p.pending[m] = 0
  BY <1>1, PacerHolds
<1>3. CASE op["sync"].left > 0 /\ Pacing!Allows(p.seen, "views")
  <2>1. Pacing!Submit("sync", q, op["sync"].left - 1, "probe", 1) /\ UNCHANGED <<disk, due>>
    BY <1>3 DEF Pacing!Probe, Pacing!Attempt
  <2>2. /\ q \in PacerRow /\ q.refunds = p.refunds /\ q.pause = FALSE
        /\ \A k \in Pacing!Meter : /\ q.pending[k] = p.pending[k] + (IF k = "views" THEN 1 ELSE 0)
                                   /\ q.seen.used[k] = p.seen.used[k] + (IF k = "views" THEN 1 ELSE 0)
    <3>1. 1 \in Nat
      OBVIOUS
    <3> HIDE DEF p, q
    <3>2. HasMore(q, p, "views", 1)
      BY <1>1, <1>2, <3>1, Recorded DEF q
    <3> QED BY <1>2, <3>2 DEF HasMore
  <2>3. p.seen.used["views"] < ViewCap
    BY <1>1, <1>3 DEF Pacing!Allows, Pacing!Cap
  <2>4. /\ SweepSaw >= 0 /\ Views <= ViewCap + SweepSaw
        /\ op["discover"].pc # "idle" => Views <= PageSaw + SweepSaw
        /\ ~deserted => due["sync"] <= Unpaid
    BY <1>1 DEF ReadsAreBounded, ReadsArePaid
  <2>5. /\ Views \in Nat /\ PageSaw \in Nat /\ Unpaid \in Nat /\ SweepSaw \in Int /\ ViewCap \in Nat
        /\ p.seen.used["views"] \in Nat /\ due["sync"] \in Nat /\ p.seen.used["views"] = SweepSaw + Unpaid
        /\ p.pending["views"] = Unpaid
    BY ReadsAre DEF SweepSaw, Unpaid
  <2> DEFINE n == Unpaid + 1
             saw == SweepSaw
  <2>6. /\ saw \in Nat /\ n \in Nat /\ q.seen.used["views"] = saw + n /\ q.pending["views"] = n
        /\ Views <= ViewCap + saw /\ (n > 0 => saw + n <= ViewCap)
        /\ op["discover"].pc # "idle" => Views <= PageSaw + saw
        /\ ~deserted => due["sync"] <= n /\ due["sync"] < n
    BY <1>1, <2>2, <2>3, <2>4, <2>5
  <2>7. op["sync"].left - 1 \in 0 .. MaxProbes /\ 1 \in Nat /\ "probe" \in {"probe", "thread"}
    BY <1>1, <1>2, <1>3
  <2>8. (\A m \in Sent : q.pending[m] = 0) /\ \A m \in Pacing!Meter : q.refunds[m] = 0
    BY <1>1, <1>2, <2>2
  <2> HIDE DEF p, q, n, saw
  <2> QED BY <2>1, <2>2, <2>6, <2>7, <2>8, SweepHands
<1>4. CASE ~(op["sync"].left > 0 /\ Pacing!Allows(p.seen, "views"))
  <2>1. Pacing!Leave("sync", p) /\ queue' = queue
    BY <1>4 DEF Pacing!Probe
  <2>2. QueueLeft("sync") /\ queue' \in Seq(JobRow)
    BY <1>1, <2>1, QueueStays
  <2>3. p.pending["views"] = Unpaid
    BY DEF Unpaid
  <2> HIDE DEF p
  <2>4. MayLeave("sync", p)
    <3>1. \A m \in Sent : p.pending[m] = 0 /\ p.refunds[m] = 0
      BY <1>1, <1>2
    <3>2. p.refunds["views"] = 0 /\ "sync" # "send" /\ "sync" # "discover"
      BY <1>1, <1>2
    <3> QED BY <1>1, <1>2, <2>3, <3>1, <3>2 DEF MayLeave
  <2> QED BY <1>1, <2>1, <2>2, <2>4, Leaves
<1> QED
  BY <1>3, <1>4

LEMMA ProbedKeeps == ASSUME PacingInv, Pacing!Probed PROVE PacingInv'
<1> DEFINE p == op["sync"].pacer
<1>1. op["sync"].pc = "answered" /\ UNCHANGED <<clicked, throttled, deserted>>
  BY DEF Pacing!Probed
<1>2. /\ "sync" \in Pacing!Lane /\ "views" \in Pacing!Meter /\ deserted \in BOOLEAN /\ \A m \in Sent : m \in Pacing!Meter
      /\ p \in PacerRow /\ p.pause = FALSE /\ p.pending \in Charges /\ p.refunds \in Charges
      /\ \A m \in Pacing!Meter : p.refunds[m] = 0
      /\ \A m \in Sent : p.pending[m] = 0
      /\ p.pending["views"] = Unpaid
  BY Constants, PacerHolds DEF PacingInv, PacingType, Unpaid
<1>3. op["sync"].answer \in {"done", "throttled", "auth"}
  <2>1. op["sync"].kind \in {"probe", "thread"} /\ op["sync"].answer \in Pacing!Outcome(op["sync"].kind)
    BY <1>1, <1>2 DEF PacingInv, LanesAreApart, KindsOf
  <2> QED BY <2>1 DEF Pacing!Outcome
<1>4. CASE op["sync"].answer = "throttled"
  <2> DEFINE q == Pacing!PauseForBackoff(p)
  <2>1. Pacing!Leave("sync", q) /\ queue' = queue
    BY <1>4 DEF Pacing!Probed
  <2>2. q = Pacing!PauseForBackoff(p)
    OBVIOUS
  <2>3. QueueLeft("sync") /\ queue' \in Seq(JobRow)
    BY <1>1, <1>2, <2>1, QueueStays
  <2> HIDE DEF p, q
  <2>4. q.pause = TRUE /\ q.pending = p.pending /\ q.refunds = p.refunds
    BY <1>2, <2>2, PacerFields, Backoff
  <2>5. MayLeave("sync", q)
    <3>1. \A m \in Sent : q.pending[m] = 0 /\ q.refunds[m] = 0
      BY <1>2, <2>4
    <3>2. q.refunds["views"] = 0 /\ "sync" # "send" /\ "sync" # "discover"
      BY <1>2, <2>4
    <3>3. q.pending \in Charges /\ q.refunds \in Charges /\ q.pending["views"] = Unpaid
      BY <1>2, <2>4
    <3> QED BY <2>4, <3>1, <3>2, <3>3 DEF MayLeave
  <2> QED BY <1>1, <1>2, <2>1, <2>3, <2>5, Leaves
<1>5. CASE op["sync"].answer = "auth"
  <2>1. Pacing!Leave("sync", p) /\ queue' = queue
    BY <1>5 DEF Pacing!Probed
  <2>2. QueueLeft("sync") /\ queue' \in Seq(JobRow)
    BY <1>1, <1>2, <2>1, QueueStays
  <2> HIDE DEF p
  <2>3. MayLeave("sync", p)
    <3>1. \A m \in Sent : p.pending[m] = 0 /\ p.refunds[m] = 0
      BY <1>2
    <3>2. p.refunds["views"] = 0 /\ "sync" # "send" /\ "sync" # "discover" /\ op["sync"].answer \notin Refusals
      BY <1>2, <1>5 DEF Refusals
    <3> QED BY <1>2, <3>1, <3>2 DEF MayLeave
  <2> QED BY <1>1, <1>2, <2>1, <2>2, <2>3, Leaves
<1>6. CASE op["sync"].answer = "done"
  <2>1. Pacing!Probe(p, op["sync"].left) /\ op["sync"].answer \notin Refusals
    BY <1>6 DEF Pacing!Probed, Refusals
  <2> QED BY <1>1, <2>1, NextProbeKeeps
<1> QED
  BY <1>3, <1>4, <1>5, <1>6

LEMMA SweepKeeps ==
  ASSUME PacingInv, NEW threads \in BOOLEAN, NEW probes \in 0 .. MaxProbes, Pacing!Sweep(threads, probes)
  PROVE  PacingInv'
<1> DEFINE p == Pacing!Loaded
<1>1. op["sync"].pc = "idle" /\ UNCHANGED <<clicked, throttled, deserted>>
  BY DEF Pacing!Sweep
<1>2. /\ ReadsAreBounded /\ ReadsArePaid /\ deserted \in BOOLEAN /\ disk \in Ledger
      /\ "views" \in Pacing!Meter /\ MaxProbes \in Nat /\ \A m \in Sent : m \in Pacing!Meter /\ m # "views"
  BY Constants DEF PacingInv, PacingType
<1>3. /\ p \in PacerRow /\ p.pause = FALSE
      /\ \A m \in Pacing!Meter : p.refunds[m] = 0 /\ p.pending[m] = 0
      /\ p.seen.used["views"] = Views
  BY <1>2, RestingPacer, ZeroCharges DEF Views
<1>4. /\ Views \in Nat /\ PageSaw \in Nat /\ ViewCap \in Nat /\ Views <= 2 * ViewCap
      /\ ~deserted => due["sync"] = 0
      /\ op["discover"].pc # "idle" => Views <= PageSaw + Views
      /\ Views <= ViewCap + Views
  BY <1>1, <1>2, ReadsAre DEF ReadsAreBounded, ReadsArePaid
<1>5. CASE threads
  <2>1. Pacing!Submit("sync", p, probes, "thread", 0) /\ UNCHANGED <<disk, due>>
    BY <1>5 DEF Pacing!Sweep
  <2> DEFINE n == 0
             saw == Views
             kind == "thread"
  <2>2. /\ saw \in Nat /\ n \in Nat /\ p.seen.used["views"] = saw + n /\ p.pending["views"] = n
        /\ (n > 0 => saw + n <= ViewCap) /\ kind \in {"probe", "thread"} /\ kind # "probe"
        /\ ~deserted => due["sync"] <= n
    BY <1>2, <1>3, <1>4
  <2>3. Pacing!Submit("sync", p, probes, kind, 0) /\ 0 \in Nat
        /\ Views <= ViewCap + saw /\ (op["discover"].pc # "idle" => Views <= PageSaw + saw)
    BY <2>1, <1>4
  <2> HIDE DEF p, n, saw, kind
  <2> QED BY <1>1, <1>2, <1>3, <2>1, <2>2, <2>3, SweepHands
<1>6. CASE ~threads
  <2> DEFINE q == Pacing!Record(p, "views", 1)
  <2>1. Pacing!Allows(disk, "views") /\ probes > 0 /\ Pacing!Probe(p, probes)
    BY <1>6 DEF Pacing!Sweep
  <2>2. Pacing!Allows(p.seen, "views") /\ Views < ViewCap
    BY <1>2, <2>1, RestingPacer DEF Pacing!Allows, Pacing!Cap, Views
  <2>3. Pacing!Submit("sync", q, probes - 1, "probe", 1) /\ UNCHANGED <<disk, due>>
    BY <2>1, <2>2 DEF Pacing!Probe, Pacing!Attempt
  <2>4. /\ q \in PacerRow /\ q.refunds = p.refunds /\ q.pause = FALSE
        /\ \A k \in Pacing!Meter : /\ q.pending[k] = p.pending[k] + (IF k = "views" THEN 1 ELSE 0)
                                   /\ q.seen.used[k] = p.seen.used[k] + (IF k = "views" THEN 1 ELSE 0)
    <3> HIDE DEF p, q
    <3>1. 1 \in Nat
      OBVIOUS
    <3>2. HasMore(q, p, "views", 1)
      BY <1>2, <1>3, <3>1, Recorded DEF q
    <3> QED BY <1>3, <3>2 DEF HasMore
  <2> DEFINE n == 1
             saw == Views
             kind == "probe"
  <2>5. /\ saw \in Nat /\ n \in Nat /\ q.seen.used["views"] = saw + n /\ q.pending["views"] = n
        /\ (n > 0 => saw + n <= ViewCap) /\ kind \in {"probe", "thread"}
        /\ ~deserted => due["sync"] <= n /\ due["sync"] < n
        /\ Views <= ViewCap + saw /\ (op["discover"].pc # "idle" => Views <= PageSaw + saw)
    BY <1>2, <1>3, <1>4, <2>2, <2>4
  <2>6. probes - 1 \in 0 .. MaxProbes /\ 1 \in Nat /\ Pacing!Submit("sync", q, probes - 1, kind, 1)
    BY <1>2, <2>1, <2>3
  <2>7. (\A m \in Sent : q.pending[m] = 0) /\ \A m \in Pacing!Meter : q.refunds[m] = 0
    BY <1>2, <1>3, <2>4
  <2> HIDE DEF p, q, n, saw, kind
  <2> QED BY <1>1, <2>3, <2>4, <2>5, <2>6, <2>7, SweepHands
<1> QED
  BY <1>5, <1>6

LEMMA SettleKeeps == ASSUME PacingInv, Pacing!Settle PROVE PacingInv'
<1> DEFINE o == op["send"]
           m == o.kind
           p == IF o.answer \in Refundable THEN Pacing!Refund(o.pacer, m) ELSE o.pacer
           q == IF o.answer \in Refusals THEN Pacing!PauseForBackoff(p) ELSE p
<1>1. o.pc = "answered" /\ Pacing!Leave("send", q) /\ UNCHANGED <<queue, clicked, throttled, deserted>>
  BY DEF Pacing!Settle, Refundable, Refusals
<1>2. /\ "send" \in Pacing!Lane /\ "views" \in Pacing!Meter /\ deserted \in BOOLEAN
      /\ \A k \in Sent : k \in Pacing!Meter /\ k # "views"
  BY Constants DEF PacingInv, PacingType
<1>3. m \in Sent /\ m \in Pacing!Meter /\ o.pacer.mine[m] = 1
  BY <1>1, <1>2 DEF PacingInv, LanesAreApart, PacersRest, KindsOf
<1>4. /\ o.pacer \in PacerRow /\ o.pacer.pause = FALSE /\ o.pacer.pending \in Charges /\ o.pacer.refunds \in Charges
      /\ \A k \in Pacing!Meter : o.pacer.refunds[k] = 0 /\ o.pacer.pending[k] = 0
  BY <1>2, PacerHolds
<1>5. /\ p.pending = o.pacer.pending /\ p.refunds \in Charges /\ p.pause \in BOOLEAN
      /\ {"seen", "pending", "refunds", "pause"} \subseteq DOMAIN p
      /\ \A k \in Pacing!Meter : p.refunds[k] = IF k = m /\ o.answer \in Refundable THEN 1 ELSE 0
  <2>1. CASE o.answer \in Refundable
    <3> DEFINE t == Pacing!Refund(o.pacer, m)
    <3>1. p = t
      BY <2>1
    <3>2. t = Pacing!Refund(o.pacer, m)
      OBVIOUS
    <3> HIDE DEF t, p, m
    <3>3. /\ t.pending = o.pacer.pending /\ t.pause = o.pacer.pause /\ t.refunds \in Charges
          /\ {"seen", "pending", "refunds", "pause"} \subseteq DOMAIN t
          /\ \A k \in Pacing!Meter : t.refunds[k] = o.pacer.refunds[k] + (IF k = m THEN 1 ELSE 0)
      BY <1>3, <1>4, <3>2, Refunded
    <3>4. \A k \in Pacing!Meter : t.refunds[k] = IF k = m THEN 1 ELSE 0
      BY <1>4, <3>3
    <3> QED BY <1>4, <2>1, <3>1, <3>3, <3>4
  <2>2. CASE o.answer \notin Refundable
    <3>1. p = o.pacer
      BY <2>2
    <3> HIDE DEF p, m
    <3> QED BY <1>4, <2>2, <3>1, PacerFields
  <2> QED BY <2>1, <2>2
<1> HIDE DEF p
<1>6. q.pending = p.pending /\ q.refunds = p.refunds /\ q.pause \in BOOLEAN /\ (o.answer \in Refusals => q.pause)
  <2>1. CASE o.answer \in Refusals
    <3>1. q = Pacing!PauseForBackoff(p)
      BY <2>1
    <3> HIDE DEF q
    <3>2. q.pause = TRUE /\ q.pending = p.pending /\ q.refunds = p.refunds
      BY <1>5, <3>1, Backoff
    <3> QED BY <3>2
  <2>2. CASE o.answer \notin Refusals
    BY <1>5, <2>2
  <2> QED BY <2>1, <2>2
<1>7. \A k \in Sent : q.pending[k] = 0 /\ (q.refunds[k] = 0 \/ (q.refunds[k] = 1 /\ Owed(k)))
  BY <1>1, <1>2, <1>4, <1>5, <1>6 DEF Owed
<1>8. q.refunds["views"] = 0 /\ q.pending["views"] = 0
  BY <1>2, <1>3, <1>4, <1>5, <1>6
<1>9. QueueLeft("send") /\ queue' \in Seq(JobRow)
  BY <1>1, <1>2, QueueStays
<1>10. q.pending \in Charges /\ q.refunds \in Charges
  BY <1>4, <1>5, <1>6
<1> HIDE DEF q
<1>11. MayLeave("send", q)
  BY <1>6, <1>7, <1>8, <1>10 DEF MayLeave
<1> QED
  BY <1>1, <1>2, <1>9, <1>11, Leaves

LEMMA ListedKeeps == ASSUME PacingInv, Pacing!Listed PROVE PacingInv'
<1> DEFINE o == op["discover"]
           q == CASE o.answer = "done"      -> Pacing!Record(o.pacer, "views", o.count)
                  [] o.answer = "throttled" -> Pacing!PauseForBackoff(o.pacer)
                  [] OTHER                  -> o.pacer
<1>1. o.pc = "answered" /\ Pacing!Leave("discover", q) /\ UNCHANGED <<queue, clicked, throttled, deserted>>
  BY DEF Pacing!Listed
<1>2. /\ "discover" \in Pacing!Lane /\ "views" \in Pacing!Meter /\ deserted \in BOOLEAN
      /\ \A k \in Sent : k \in Pacing!Meter /\ k # "views"
      /\ o.count \in Nat /\ ReadsAreBounded
  BY Constants DEF PacingInv, PacingType, OpRow
<1>3. /\ o.pacer \in PacerRow /\ o.pacer.pause = FALSE /\ o.pacer.pending \in Charges /\ o.pacer.refunds \in Charges
      /\ \A k \in Pacing!Meter : o.pacer.refunds[k] = 0 /\ o.pacer.pending[k] = 0
  BY <1>2, PacerHolds
<1>4. o.count <= ViewCap - PageSaw /\ 0 <= ViewCap - PageSaw
  BY <1>1, <1>2, ReadsAre DEF ReadsAreBounded
<1>5. o.answer \in {"done", "throttled", "error"}
  <2>1. o.kind = "page" /\ o.answer \in Pacing!Outcome(o.kind)
    BY <1>1, <1>2 DEF PacingInv, LanesAreApart, KindsOf
  <2> QED BY <2>1, Constants DEF Pacing!Outcome
<1>6. /\ q.pending \in Charges /\ q.pause \in BOOLEAN /\ q.refunds = o.pacer.refunds /\ (o.answer \in Refusals => q.pause)
      /\ \A k \in Sent : q.pending[k] = 0
      /\ q.pending["views"] <= ViewCap - PageSaw
  <2>1. CASE o.answer = "done"
    <3> DEFINE n == o.count
               t == Pacing!Record(o.pacer, "views", n)
    <3>1. q = t /\ n \in Nat
      BY <1>2, <2>1
    <3> HIDE DEF q, n, t, o
    <3>2. /\ t \in PacerRow /\ t.refunds = o.pacer.refunds
          /\ \A k \in Pacing!Meter : t.pending[k] = o.pacer.pending[k] + (IF k = "views" THEN n ELSE 0)
      <4>1. HasMore(t, o.pacer, "views", n)
        BY <1>2, <1>3, <3>1, Recorded DEF t
      <4> QED BY <4>1 DEF HasMore
    <3>3. t.pending["views"] = n /\ \A k \in Sent : t.pending[k] = 0
      BY <1>2, <1>3, <3>1, <3>2
    <3>4. t.pending \in Charges /\ t.pause \in BOOLEAN
      BY <3>2 DEF PacerRow
    <3> QED BY <1>4, <2>1, <3>1, <3>2, <3>3, <3>4 DEF Refusals, n
  <2>2. CASE o.answer = "throttled"
    <3>1. q = Pacing!PauseForBackoff(o.pacer)
      BY <2>2
    <3> HIDE DEF q
    <3>2. q.pause = TRUE /\ q.pending = o.pacer.pending /\ q.refunds = o.pacer.refunds
      BY <1>3, <3>1, PacerFields, Backoff
    <3> QED BY <1>2, <1>3, <1>4, <3>2
  <2>3. CASE o.answer = "error"
    <3>1. q = o.pacer
      BY <2>3
    <3> HIDE DEF q
    <3> QED BY <1>2, <1>3, <1>4, <2>3, <3>1 DEF Refusals
  <2> QED BY <1>5, <2>1, <2>2, <2>3
<1>7. QueueLeft("discover") /\ queue' \in Seq(JobRow)
  BY <1>1, <1>2, QueueStays
<1> HIDE DEF q
<1>8. q.refunds \in Charges /\ (\A k \in Sent : q.refunds[k] = 0) /\ q.refunds["views"] = 0
  BY <1>2, <1>3, <1>6
<1>9. MayLeave("discover", q)
  BY <1>6, <1>8 DEF MayLeave
<1> QED
  BY <1>1, <1>2, <1>7, <1>9, Leaves

LEMMA GiveUpKeeps == ASSUME PacingInv, NEW l \in Pacing!Lane, Pacing!GiveUp(l) PROVE PacingInv'
<1> DEFINE p == op[l].pacer
           Gone(i) == IF queue[i].lane = l THEN [queue[i] EXCEPT !.live = FALSE] ELSE queue[i]
<1>1. /\ op[l].pc = "browser" /\ Pacing!Leave(l, p) /\ deserted' = TRUE /\ UNCHANGED <<clicked, throttled>>
      /\ queue' = [i \in DOMAIN queue |-> Gone(i)]
  BY DEF Pacing!GiveUp
<1>2. /\ p \in PacerRow /\ p.pause = FALSE /\ p.pending \in Charges /\ p.refunds \in Charges
      /\ \A m \in Pacing!Meter : p.refunds[m] = 0
      /\ \A m \in Pacing!Meter : m \in Sent \/ l # "sync" => p.pending[m] = 0
  BY PacerHolds
<1>3. "views" \in Pacing!Meter /\ \A m \in Sent : m \in Pacing!Meter
  BY Constants
<1>4. \A i \in DOMAIN queue :
        /\ Gone(i) \in JobRow
        /\ Gone(i).lane = queue[i].lane /\ Gone(i).kind = queue[i].kind /\ Gone(i).limit = queue[i].limit
        /\ Gone(i).out = queue[i].out /\ Gone(i).count = queue[i].count
        /\ Gone(i).live = (queue[i].live /\ queue[i].lane # l)
  BY QueueIs DEF JobRow
<1> HIDE DEF Gone
<1>5. QueueLeft(l)
  BY <1>1, <1>4 DEF QueueLeft
<1>6. queue' \in Seq(JobRow)
  <2>1. DOMAIN queue = 1 .. Len(queue) /\ Len(queue) \in Nat
    BY QueueIs
  <2>2. queue' \in [1 .. Len(queue) -> JobRow]
    BY <1>1, <1>4, <2>1
  <2> QED BY <2>1, <2>2, SeqDef
<1>7. l = "sync" => p.pending["views"] = Unpaid
  BY DEF Unpaid
<1>8. l = "discover" => p.pending["views"] <= ViewCap - PageSaw
  <2> SUFFICES ASSUME l = "discover" PROVE p.pending["views"] <= ViewCap - PageSaw
    OBVIOUS
  <2>1. PageSaw < ViewCap /\ p.pending["views"] = 0
    BY <1>1, <1>2, <1>3 DEF PacingInv, ReadsAreBounded
  <2> QED BY <2>1, ReadsAre
<1>9. l = "send" => p.pending["views"] = 0
  BY <1>2, <1>3
<1>10. p.refunds["views"] = 0 /\ \A m \in Sent : p.pending[m] = 0 /\ p.refunds[m] = 0
  BY <1>2, <1>3
<1> HIDE DEF p
<1>11. MayLeave(l, p)
  <2>1. \A m \in Sent : p.pending[m] = 0 /\ p.refunds[m] = 0
    BY <1>10
  <2> QED BY <1>1, <1>2, <1>7, <1>8, <1>9, <1>10, <2>1 DEF MayLeave
<1> QED
  BY <1>1, <1>5, <1>6, <1>11, Leaves

LEMMA ResumeKeeps == ASSUME PacingInv, Pacing!Resume PROVE PacingInv'
<1>1. disk' = [disk EXCEPT !.paused = FALSE] /\ throttled' = FALSE /\ UNCHANGED <<op, queue, clicked, due, deserted>>
  BY DEF Pacing!Resume
<1>2. PacingType /\ LanesAreApart /\ PacersRest /\ SendsAreCharged /\ ReadsAreBounded /\ ReadsArePaid
  BY DEF PacingInv
<1>3. disk' \in Ledger /\ disk'.used = disk.used
  BY <1>1, <1>2 DEF PacingType, Ledger
<1>4. PacingType' /\ LanesAreApart' /\ PacersRest'
  <2>1. PacingType'
    BY <1>1, <1>2, <1>3 DEF PacingType
  <2>2. LanesAreApart'
    BY <1>1, <1>2 DEF LanesAreApart
  <2>3. PacersRest'
    BY <1>1, <1>2 DEF PacersRest
  <2> QED BY <2>1, <2>2, <2>3
<1>5. SendsAreCharged'
  BY <1>1, <1>2, <1>3 DEF SendsAreCharged, Waiting, Owed
<1>6. ReadsAreBounded' /\ ReadsArePaid'
  BY <1>1, <1>2, <1>3 DEF ReadsAreBounded, ReadsArePaid, Views, PageSaw, SweepSaw, Unpaid
<1> QED
  BY <1>1, <1>4, <1>5, <1>6 DEF PacingInv, StopIsKnown

(* With nothing under way, only the ledger and what it covers are left.       *)
NothingUnderWay ==
  /\ disk \in Ledger /\ clicked \in [Sent -> Nat]
  /\ \A m \in Sent : clicked[m] <= disk.used[m] /\ disk.used[m] <= SendCap
  /\ Views <= 2 * ViewCap
  /\ op = [l \in Pacing!Lane |-> Pacing!Idle] /\ queue = <<>>
  /\ due = [l \in Pacing!Lane |-> 0] /\ throttled = FALSE /\ deserted = FALSE

LEMMA AtRestHolds == NothingUnderWay => PacingInv
<1> SUFFICES ASSUME NothingUnderWay PROVE PacingInv
  OBVIOUS
<1> USE DEF NothingUnderWay
<1>1. /\ "send" \in Pacing!Lane /\ "discover" \in Pacing!Lane /\ "sync" \in Pacing!Lane /\ MaxDue \in Nat
      /\ \A m \in Sent : m \in Pacing!Meter
  BY Constants
<1>2. Pacing!Idle \in OpRow /\ \A l \in Pacing!Lane : op[l] = Pacing!Idle /\ op[l].pc = "idle"
  BY RestingPacer
<1>3. queue \in Seq(JobRow) /\ DOMAIN queue = {}
  <2>1. queue \in Seq(JobRow) /\ Len(queue) = 0
    BY EmptySeq
  <2>2. DOMAIN queue = 1 .. 0
    BY <2>1, LenProperties
  <2> QED BY <2>1, <2>2
<1>4. PacingType
  <2>1. 0 \in 0 .. MaxDue
    BY <1>1
  <2> QED BY <1>2, <1>3, <2>1 DEF PacingType
<1>5. LanesAreApart
  BY <1>2, <1>3 DEF LanesAreApart
<1>6. PacersRest
  BY <1>1, <1>2, RestingPacer DEF PacersRest
<1>7. SendsAreCharged
  <2>1. ASSUME NEW m \in Sent PROVE ~Owed(m) /\ Cardinality(Waiting(queue, m)) = 0
    <3>1. Waiting(queue, m) = {}
      BY <1>3 DEF Waiting
    <3> QED BY <1>1, <1>2, <1>3, <3>1, FS_EmptySet DEF Owed
  <2>2. ASSUME NEW m \in Sent PROVE clicked[m] + 0 + 0 <= disk.used[m]
    <3>1. clicked[m] \in Nat /\ disk.used[m] \in Nat /\ clicked[m] <= disk.used[m]
      BY <1>1 DEF Ledger, Charges
    <3> QED BY <3>1
  <2> QED BY <1>1, <1>2, <2>1, <2>2 DEF SendsAreCharged
<1>8. ReadsAreBounded /\ ReadsArePaid /\ StopIsKnown
  BY <1>1, <1>2, <1>3 DEF ReadsAreBounded, ReadsArePaid, StopIsKnown
<1> QED
  BY <1>4, <1>5, <1>6, <1>7, <1>8 DEF PacingInv

LEMMA CrashKeeps == ASSUME PacingInv, Pacing!Crash PROVE PacingInv'
<1>1. /\ op' = [l \in Pacing!Lane |-> Pacing!Idle] /\ queue' = <<>> /\ throttled' = FALSE
      /\ due' = [l \in Pacing!Lane |-> 0] /\ deserted' = FALSE /\ UNCHANGED <<disk, clicked>>
  BY DEF Pacing!Crash
<1>2. disk \in Ledger /\ disk.used \in Charges /\ clicked \in [Sent -> Nat] /\ SendsAreCharged /\ ReadsAreBounded
  BY DEF PacingInv, PacingType, Ledger
<1>3. ASSUME NEW m \in Sent PROVE clicked[m] <= disk.used[m] /\ disk.used[m] <= SendCap
  <2>1. clicked[m] \in Nat /\ disk.used[m] \in Nat /\ Cardinality(Waiting(queue, m)) \in Nat
    BY <1>2, QueueIs, WaitingIsFinite, Constants DEF Charges
  <2> QED BY <1>2, <2>1 DEF SendsAreCharged
<1>4. Views' = Views /\ Views <= 2 * ViewCap
  BY <1>1, <1>2 DEF Views, ReadsAreBounded
<1>5. disk' \in Ledger /\ clicked' \in [Sent -> Nat] /\ \A m \in Sent : clicked'[m] <= disk'.used[m] /\ disk'.used[m] <= SendCap
  BY <1>1, <1>2, <1>3
<1>6. NothingUnderWay'
  BY <1>1, <1>2, <1>4, <1>5 DEF NothingUnderWay, Views
<1> QED
  BY <1>6, AtRestHolds, PTL

LEMMA PacingInit == ASSUME Pacing!Init PROVE PacingInv
<1>1. /\ disk = Pacing!Clean /\ op = [l \in Pacing!Lane |-> Pacing!Idle] /\ queue = <<>>
      /\ clicked = [m \in Sent |-> 0] /\ throttled = FALSE /\ due = [l \in Pacing!Lane |-> 0] /\ deserted = FALSE
  BY DEF Pacing!Init
<1>2. disk \in Ledger /\ disk.used = Pacing!Nothing
  BY <1>1, ZeroCharges DEF Pacing!Clean, Ledger
<1>3. Views <= 2 * ViewCap
  BY <1>2, ZeroCharges, Constants DEF Views
<1>4. clicked \in [Sent -> Nat] /\ \A m \in Sent : clicked[m] <= disk.used[m] /\ disk.used[m] <= SendCap
  BY <1>1, <1>2, ZeroCharges, Constants
<1> QED
  BY <1>1, <1>2, <1>3, <1>4, AtRestHolds DEF NothingUnderWay

(* The surface's thread has begun the head of its queue.                      *)
Begun(out, k) ==
  /\ DOMAIN queue' = DOMAIN queue
  /\ \A i \in DOMAIN queue :
       /\ queue'[i].lane = queue[i].lane /\ queue'[i].kind = queue[i].kind /\ queue'[i].limit = queue[i].limit
       /\ queue'[i].live = queue[i].live
  /\ \A i \in DOMAIN queue : i # 1 => queue'[i] = queue[i]
  /\ queue'[1].out = out /\ queue'[1].count = k

LEMMA BeginKeeps == ASSUME PacingInv, Pacing!Begin PROVE PacingInv'
<1> DEFINE j == queue[1]
<1>1. 1 \in DOMAIN queue /\ Head(queue) = j /\ j \in JobRow /\ j.out = "todo" /\ UNCHANGED <<disk, op, deserted>>
  <2>1. queue # <<>> /\ Head(queue).out = "todo" /\ UNCHANGED <<disk, op, deserted>>
    BY DEF Pacing!Begin
  <2>2. Len(queue) \in Nat /\ Len(queue) # 0
    BY <2>1, QueueIs
  <2>3. 1 \in DOMAIN queue /\ Head(queue) = queue[1]
    BY <2>1, <2>2, QueueIs
  <2> QED BY <2>1, <2>3, QueueIs
<1>2. PICK out \in Pacing!Outcome(j.kind), n \in Pacing!Fetches(j.kind) :
        \E went \in Pacing!Clicks(j.kind, out), k \in 0 .. Pacing!Min({n, j.limit}) :
          /\ queue' = [queue EXCEPT ![1].out = out, ![1].count = k]
          /\ IF out = "unsent"
               THEN /\ astray' = IF went = 1 THEN astray \cup {j.kind} ELSE astray
                    /\ UNCHANGED clicked
               ELSE /\ clicked' = IF j.kind \in Sent THEN [clicked EXCEPT ![j.kind] = @ + went] ELSE clicked
                    /\ UNCHANGED astray
          /\ due' = [due EXCEPT ![j.lane] = Pacing!Min({@ + n, MaxDue})]
          /\ throttled' = (throttled \/ out \in {"limit", "throttled"})
  BY <1>1 DEF Pacing!Begin
<1>3. PICK went \in Pacing!Clicks(j.kind, out), k \in 0 .. Pacing!Min({n, j.limit}) :
        /\ queue' = [queue EXCEPT ![1].out = out, ![1].count = k]
        /\ IF out = "unsent"
             THEN /\ astray' = IF went = 1 THEN astray \cup {j.kind} ELSE astray
                  /\ UNCHANGED clicked
             ELSE /\ clicked' = IF j.kind \in Sent THEN [clicked EXCEPT ![j.kind] = @ + went] ELSE clicked
                  /\ UNCHANGED astray
        /\ due' = [due EXCEPT ![j.lane] = Pacing!Min({@ + n, MaxDue})]
        /\ throttled' = (throttled \/ out \in {"limit", "throttled"})
  BY <1>2
<1>4. /\ PacingType /\ LanesAreApart /\ PacersRest /\ SendsAreCharged /\ ReadsAreBounded /\ StopIsKnown /\ ReadsArePaid
      /\ disk.used \in Charges /\ clicked \in [Sent -> Nat] /\ due \in [Pacing!Lane -> 0 .. MaxDue]
      /\ throttled \in BOOLEAN
  BY DEF PacingInv, PacingType, Ledger
<1>5. /\ j.lane \in Pacing!Lane /\ j.kind \in KindsOf(j.lane) /\ j.limit \in Nat /\ j.live \in BOOLEAN
      /\ j.live => op[j.lane].pc = "browser" /\ op[j.lane].kind = j.kind
  BY <1>1, <1>4 DEF JobRow, LanesAreApart
<1>6. n \in Nat /\ (j.kind = "probe" => n = 1) /\ (j.kind = "thread" => n = 0)
  BY Constants DEF Pacing!Fetches
<1>7. k \in Nat /\ k <= j.limit
  BY <1>5, <1>6, Smaller
<1>17. /\ out \in Answers /\ out # "todo" /\ went \in {0, 1}
       /\ j.kind \in Sent /\ out \in Refundable /\ out # "unsent" => went = 0
  BY Constants DEF Answers, Refundable, Pacing!Clicks, Pacing!Outcome
<1>18. PICK click \in {0, 1} :
         /\ clicked' = IF j.kind \in Sent THEN [clicked EXCEPT ![j.kind] = @ + click] ELSE clicked
         /\ j.kind \in Sent /\ out \in Refundable => click = 0
  <2>1. CASE out = "unsent"
    <3>1. clicked' = IF j.kind \in Sent THEN [clicked EXCEPT ![j.kind] = @ + 0] ELSE clicked
      BY <1>3, <1>4, <2>1
    <3> QED BY <3>1
  <2>2. CASE out # "unsent"
    BY <1>3, <1>17, <2>2
  <2> QED BY <2>1, <2>2
<1>8. /\ out \in Answers /\ out # "todo" /\ click \in {0, 1}
      /\ j.kind \in Sent /\ out \in Refundable => click = 0
  BY <1>17, <1>18
<1>9. Begun(out, k) /\ queue' \in Seq(JobRow)
  <2> DEFINE b == [j EXCEPT !.out = out, !.count = k]
  <2>1. b \in JobRow /\ b.lane = j.lane /\ b.kind = j.kind /\ b.limit = j.limit /\ b.live = j.live /\ b.out = out /\ b.count = k
    BY <1>1, <1>7, <1>8 DEF JobRow
  <2>2. queue' = [queue EXCEPT ![1] = b]
    BY <1>1, <1>3
  <2> HIDE DEF b
  <2>3. /\ queue' \in Seq(JobRow) /\ DOMAIN queue' = DOMAIN queue /\ queue'[1] = b
        /\ \A i \in DOMAIN queue : i # 1 => queue'[i] = queue[i]
    BY <1>1, <2>1, <2>2, QueueIs, ExceptSeq
  <2> QED BY <2>1, <2>3 DEF Begun
<1>10. /\ due' \in [Pacing!Lane -> 0 .. MaxDue] /\ due'[j.lane] <= due[j.lane] + n
       /\ \A l \in Pacing!Lane : l # j.lane => due'[l] = due[l]
  <2> DEFINE now == Pacing!Min({due[j.lane] + n, MaxDue})
  <2>1. due[j.lane] \in Nat /\ due[j.lane] + n \in Nat /\ MaxDue \in Nat
    BY <1>4, <1>5, <1>6, Constants
  <2>2. now \in Nat /\ now <= due[j.lane] + n /\ now <= MaxDue
    BY <2>1, Smaller
  <2>3. due' = [due EXCEPT ![j.lane] = now]
    BY <1>3
  <2> HIDE DEF now
  <2> QED BY <1>4, <1>5, <2>1, <2>2, <2>3
<1>11. /\ clicked' \in [Sent -> Nat]
       /\ \A m \in Sent : clicked'[m] = clicked[m] + (IF m = j.kind THEN click ELSE 0)
  <2>1. CASE j.kind \in Sent
    <3>1. clicked' = [clicked EXCEPT ![j.kind] = @ + click]
      BY <1>18, <2>1
    <3> QED BY <1>4, <1>8, <2>1, <3>1
  <2>2. CASE j.kind \notin Sent
    BY <1>4, <1>18, <2>2
  <2> QED BY <2>1, <2>2
<1>12. throttled' = (throttled \/ out \in Refusals)
  BY <1>3 DEF Refusals
<1> HIDE DEF j
<1>13. PacingType'
  BY <1>1, <1>4, <1>9, <1>10, <1>11, <1>12 DEF PacingType
<1>14. LanesAreApart' /\ PacersRest'
  <2>1. PacersRest'
    BY <1>1, <1>4 DEF PacersRest
  <2>2. ASSUME NEW i \in DOMAIN queue
        PROVE  /\ queue'[i].kind \in KindsOf(queue'[i].lane)
               /\ queue'[i].out \in Pacing!Outcome(queue'[i].kind) \cup {"todo"}
               /\ i > 1 => queue'[i].out = "todo"
               /\ queue'[i].live \/ deserted'
               /\ queue'[i].live => op'[queue'[i].lane].pc = "browser" /\ op'[queue'[i].lane].kind = queue'[i].kind
    <3>1. /\ queue'[i].lane = queue[i].lane /\ queue'[i].kind = queue[i].kind /\ queue'[i].live = queue[i].live
          /\ i # 1 => queue'[i].out = queue[i].out
      BY <1>9 DEF Begun
    <3>2. queue'[i].out \in Pacing!Outcome(queue'[i].kind) \cup {"todo"}
      <4>1. CASE i = 1
        BY <1>9, <3>1, <4>1 DEF Begun, j
      <4>2. CASE i # 1
        BY <1>4, <3>1, <4>2 DEF LanesAreApart
      <4> QED BY <4>1, <4>2
    <3>3. i > 1 => queue'[i].out = "todo"
      BY <1>4, <3>1 DEF LanesAreApart
    <3> QED BY <1>1, <1>4, <3>1, <3>2, <3>3 DEF LanesAreApart
  <2>3. \A i, h \in DOMAIN queue :
          queue'[i].live /\ queue'[h].live /\ queue'[i].lane = queue'[h].lane => i = h
    BY <1>4, <1>9 DEF Begun, LanesAreApart
  <2>4. \A l \in Pacing!Lane : op[l].pc = "browser" => \E i \in DOMAIN queue : queue'[i].lane = l /\ queue'[i].live
    BY <1>4, <1>9 DEF Begun, LanesAreApart
  <2>5. \A l \in Pacing!Lane : /\ op[l].pc # "idle" => op[l].kind \in KindsOf(l)
                               /\ op[l].pc = "answered" => op[l].answer \in Pacing!Outcome(op[l].kind)
                               /\ op[l].pc = "gap" => l = "send"
    BY <1>4 DEF LanesAreApart
  <2>6. DOMAIN queue' = DOMAIN queue /\ op' = op
    BY <1>1, <1>9 DEF Begun
  <2> QED BY <2>1, <2>2, <2>3, <2>4, <2>5, <2>6 DEF LanesAreApart
<1>15. SendsAreCharged'
  <2>1. ASSUME NEW m \in Sent, Owed(m)', ~Owed(m) PROVE j.kind = m /\ out \in Refundable
    <3>1. op'= op /\ ~(op["send"].pc = "answered" /\ op["send"].answer \in Refundable) /\ op["send"].kind = m
      BY <1>1, <2>1 DEF Owed
    <3>2. PICK i \in DOMAIN queue : queue'[i].lane = "send" /\ queue'[i].live /\ queue'[i].out \in Refundable
      BY <1>9, <2>1, <3>1 DEF Owed, Begun
    <3>3. queue[i].lane = "send" /\ queue[i].live
      BY <1>9, <3>2 DEF Begun
    <3>4. i = 1
      <4> SUFFICES ASSUME i # 1 PROVE FALSE
        OBVIOUS
      <4>1. queue'[i] = queue[i]
        BY <1>9 DEF Begun
      <4> QED BY <2>1, <3>1, <3>2, <4>1 DEF Owed
    <3> QED BY <1>5, <1>9, <3>1, <3>2, <3>3, <3>4 DEF Begun, j
  <2>2. ASSUME NEW m \in Sent
        PROVE  Cardinality(Waiting(queue, m)') = Cardinality(Waiting(queue, m)) - (IF m = j.kind THEN 1 ELSE 0)
    <3>1. IsFiniteSet(Waiting(queue, m)) /\ Cardinality(Waiting(queue, m)) \in Nat
      BY QueueIs, WaitingIsFinite
    <3>2. Waiting(queue, m)' = Waiting(queue, m) \ {1}
      <4>1. \A i \in DOMAIN queue : queue'[i].kind = queue[i].kind /\ (i # 1 => queue'[i].out = queue[i].out)
        BY <1>9 DEF Begun
      <4>2. queue'[1].out # "todo" /\ DOMAIN queue' = DOMAIN queue
        BY <1>8, <1>9 DEF Begun
      <4> QED BY <4>1, <4>2 DEF Waiting
    <3>3. 1 \in Waiting(queue, m) <=> m = j.kind
      BY <1>1 DEF Waiting, j
    <3>4. Cardinality(Waiting(queue, m) \ {1}) =
            IF 1 \in Waiting(queue, m) THEN Cardinality(Waiting(queue, m)) - 1 ELSE Cardinality(Waiting(queue, m))
      BY <3>1, FS_RemoveElement
    <3> QED BY <3>1, <3>2, <3>3, <3>4
  <2>3. ASSUME NEW m \in Sent
        PROVE  /\ clicked'[m] + Cardinality(Waiting(queue, m)') + (IF Owed(m)' THEN 1 ELSE 0) <= disk'.used[m]
               /\ disk'.used[m] <= SendCap
    <3>1. /\ clicked[m] + Cardinality(Waiting(queue, m)) + (IF Owed(m) THEN 1 ELSE 0) <= disk.used[m]
          /\ disk.used[m] <= SendCap /\ disk' = disk
      BY <1>1, <1>4 DEF SendsAreCharged
    <3>2. /\ clicked[m] \in Nat /\ disk.used[m] \in Nat /\ Cardinality(Waiting(queue, m)) \in Nat
      BY <1>4, QueueIs, WaitingIsFinite, Constants DEF Charges
    <3>3. clicked'[m] = clicked[m] + (IF m = j.kind THEN click ELSE 0) /\ click \in {0, 1}
      BY <1>8, <1>11
    <3>4. Owed(m)' /\ ~Owed(m) => m = j.kind /\ click = 0
      BY <1>8, <2>1
    <3> DEFINE owed == IF Owed(m) THEN 1 ELSE 0
               owing == IF Owed(m)' THEN 1 ELSE 0
    <3>5. owed \in {0, 1} /\ owing \in {0, 1} /\ (owing > owed => m = j.kind /\ click = 0)
      BY <3>4
    <3>6. clicked[m] + Cardinality(Waiting(queue, m)) + owed <= disk.used[m]
      BY <3>1
    <3> HIDE DEF owed, owing
    <3>7. clicked'[m] + Cardinality(Waiting(queue, m)') + owing <= disk'.used[m]
      <4>1. CASE m = j.kind
        BY <2>2, <3>1, <3>2, <3>3, <3>5, <3>6, <4>1
      <4>2. CASE m # j.kind
        BY <2>2, <3>1, <3>2, <3>3, <3>5, <3>6, <4>2
      <4> QED BY <4>1, <4>2
    <3> QED BY <3>1, <3>7 DEF owing
  <2>4. op'["send"].pc = "gap" => disk'.used[op'["send"].kind] < SendCap
    BY <1>1, <1>4 DEF SendsAreCharged
  <2> QED BY <2>3, <2>4 DEF SendsAreCharged
<1>16. ReadsAreBounded'
  <2>1. Views' = Views /\ PageSaw' = PageSaw /\ SweepSaw' = SweepSaw /\ Unpaid' = Unpaid /\ op' = op
    BY <1>1 DEF Views, PageSaw, SweepSaw, Unpaid
  <2>2. ASSUME NEW i \in DOMAIN queue', queue'[i].live, queue'[i].lane = "discover"
        PROVE  queue'[i].limit <= ViewCap - PageSaw /\ queue'[i].count <= ViewCap - PageSaw
    <3>1. i \in DOMAIN queue /\ queue[i].live /\ queue[i].lane = "discover" /\ queue'[i].limit = queue[i].limit
      BY <1>9, <2>2 DEF Begun
    <3>2. queue[i].limit <= ViewCap - PageSaw /\ queue[i].count <= ViewCap - PageSaw
      BY <1>4, <3>1 DEF ReadsAreBounded
    <3>3. CASE i = 1
      BY <1>5, <1>7, <1>9, <3>1, <3>2, <3>3, ReadsAre DEF Begun, j
    <3>4. CASE i # 1
      BY <1>9, <3>1, <3>2, <3>4 DEF Begun
    <3> QED BY <3>3, <3>4
  <2> QED BY <1>4, <2>1, <2>2 DEF ReadsAreBounded
<1>27. StopIsKnown'
  <2>1. CASE out \in Refusals
    BY <1>1, <1>9, <2>1 DEF StopIsKnown, Begun
  <2>2. CASE out \notin Refusals
    <3>1. throttled' = throttled
      BY <1>4, <1>12, <2>2
    <3>2. \A i \in DOMAIN queue : queue[i].out \in Refusals => queue'[i].out \in Refusals
      <4>1. queue[1].out \notin Refusals
        BY <1>1 DEF j, Refusals
      <4> QED BY <1>9, <4>1 DEF Begun
    <3>3. DOMAIN queue' = DOMAIN queue
      BY <1>9 DEF Begun
    <3> QED BY <1>1, <1>4, <3>1, <3>2, <3>3 DEF StopIsKnown
  <2> QED BY <2>1, <2>2
<1>28. ReadsArePaid'
  <2> SUFFICES ASSUME ~deserted'
               PROVE  /\ op'["sync"].pc = "idle" => due'["sync"] = 0
                      /\ op'["sync"].pc # "idle" => due'["sync"] <= Unpaid'
                      /\ \A i \in DOMAIN queue' :
                           queue'[i].kind = "probe" /\ queue'[i].out = "todo" => due'["sync"] < Unpaid'
    BY DEF ReadsArePaid
  <2>1. ~deserted /\ op' = op /\ Unpaid' = Unpaid /\ "sync" \in Pacing!Lane
    BY <1>1, Constants DEF Unpaid
  <2>2. /\ op["sync"].pc = "idle" => due["sync"] = 0
        /\ op["sync"].pc # "idle" => due["sync"] <= Unpaid
        /\ \A i \in DOMAIN queue : queue[i].kind = "probe" /\ queue[i].out = "todo" => due["sync"] < Unpaid
    BY <1>4, <2>1 DEF ReadsArePaid
  <2>3. \A i \in DOMAIN queue' : queue'[i].kind = "probe" /\ queue'[i].out = "todo" =>
          i # 1 /\ i \in DOMAIN queue /\ queue[i].kind = "probe" /\ queue[i].out = "todo"
    BY <1>8, <1>9 DEF Begun
  <2>4. CASE j.lane # "sync"
    BY <1>10, <2>1, <2>2, <2>3, <2>4
  <2>5. CASE j.lane = "sync"
    <3>1. j.live /\ j.kind \in {"probe", "thread"} /\ op["sync"].pc = "browser"
      <4>1. j.live
        BY <1>1, <1>4, <2>1 DEF LanesAreApart, j
      <4> QED BY <1>5, <2>5, <4>1 DEF KindsOf
    <3>2. due'["sync"] <= due["sync"] + n /\ due["sync"] \in Nat /\ due'["sync"] \in Nat /\ Unpaid \in Nat
      BY <1>10, <2>1, <2>5, ReadsAre
    <3>3. ASSUME NEW i \in DOMAIN queue, i # 1, queue[i].kind = "probe" PROVE FALSE
      <4>1. queue[i].live /\ queue[i].lane \in Pacing!Lane /\ queue[i].kind \in KindsOf(queue[i].lane)
        BY <1>4, <2>1, QueueIs DEF LanesAreApart, JobRow
      <4>2. queue[i].lane = "sync"
        BY <3>3, <4>1, Constants DEF KindsOf
      <4> QED BY <1>1, <1>4, <2>5, <3>1, <3>3, <4>1, <4>2 DEF LanesAreApart, j
    <3>4. due'["sync"] <= Unpaid
      <4>1. CASE j.kind = "probe"
        <5>1. due["sync"] < Unpaid
          BY <1>1, <2>2, <4>1 DEF j
        <5> QED BY <1>6, <3>2, <4>1, <5>1
      <4>2. CASE j.kind = "thread"
        BY <1>6, <2>2, <3>1, <3>2, <4>2
      <4> QED BY <3>1, <4>1, <4>2
    <3> QED BY <2>1, <2>3, <3>1, <3>3, <3>4
  <2> QED BY <2>4, <2>5
<1> QED
  BY <1>13, <1>14, <1>15, <1>16, <1>27, <1>28 DEF PacingInv

(* The head of the queue is answered, and the others move up.                 *)
MovedUp ==
  \A i \in DOMAIN queue' : i + 1 \in DOMAIN queue /\ i + 1 # 1 /\ queue'[i] = queue[i + 1] /\ queue'[i].out = "todo"

LEMMA FewerWait ==
  ASSUME PacingInv, MovedUp, queue' \in Seq(JobRow), NEW m
  PROVE  Cardinality(Waiting(queue', m)) <= Cardinality(Waiting(queue, m))
<1> DEFINE new == Waiting(queue', m)
           old == Waiting(queue, m)
           up == [i \in new |-> i + 1]
<1>1. IsFiniteSet(old)
  BY QueueIs, WaitingIsFinite
<1>2. DOMAIN queue' = 1 .. Len(queue') /\ Len(queue') \in Nat
  BY LenProperties
<1>3. \A i \in new : i \in Nat /\ i + 1 \in old
  BY <1>2 DEF Waiting, MovedUp
<1> HIDE DEF new, old
<1>4. up \in [new -> old]
  BY <1>3
<1>5. \A a, b \in new : up[a] = up[b] => a = b
  BY <1>3
<1> HIDE DEF up
<1>6. up \in Injection(new, old)
  BY <1>4, <1>5 DEF Injection, IsInjective
<1>7. Cardinality(new) <= Cardinality(old)
  BY <1>1, <1>6, FS_Injection
<1> QED
  BY <1>7 DEF new, old

LEMMA FinishKeeps == ASSUME PacingInv, Pacing!Finish PROVE PacingInv'
<1> DEFINE j == queue[1]
<1>1. /\ 1 \in DOMAIN queue /\ j \in JobRow /\ j.out # "todo" /\ queue' = Tail(queue) /\ queue # <<>>
      /\ op' = IF j.live THEN [op EXCEPT ![j.lane].pc = "answered", ![j.lane].answer = j.out, ![j.lane].count = j.count]
               ELSE op
      /\ UNCHANGED <<disk, clicked, throttled, due, deserted>>
  <2>1. queue # <<>> /\ Head(queue).out # "todo" /\ UNCHANGED <<disk, clicked, throttled, due, deserted>>
    BY DEF Pacing!Finish
  <2>2. Len(queue) \in Nat /\ Len(queue) # 0
    BY <2>1, QueueIs
  <2>3. 1 \in DOMAIN queue /\ Head(queue) = queue[1]
    BY <2>1, <2>2, QueueIs
  <2> QED BY <2>1, <2>3, QueueIs DEF Pacing!Finish
<1>2. /\ PacingType /\ LanesAreApart /\ PacersRest /\ SendsAreCharged /\ ReadsAreBounded /\ StopIsKnown /\ ReadsArePaid
      /\ disk.used \in Charges /\ op \in [Pacing!Lane -> OpRow]
  BY DEF PacingInv, PacingType, Ledger
<1>3. /\ j.lane \in Pacing!Lane /\ j.out \in Answers /\ j.count \in Nat /\ j.live \in BOOLEAN
      /\ j.live => op[j.lane].pc = "browser" /\ op[j.lane].kind = j.kind
      /\ j.out \in Pacing!Outcome(j.kind) /\ j.kind \in KindsOf(j.lane) /\ (j.live \/ deserted)
  BY <1>1, <1>2 DEF JobRow, LanesAreApart
<1>4. queue' \in Seq(JobRow) /\ MovedUp /\ \A i \in DOMAIN queue : i # 1 => i - 1 \in DOMAIN queue'
  <2>1. /\ queue' \in Seq(JobRow) /\ Len(queue') = Len(queue) - 1
        /\ \A i \in 1 .. Len(queue') : queue'[i] = queue[i + 1]
    BY <1>1, QueueIs, HeadTailProperties
  <2>2. DOMAIN queue' = 1 .. Len(queue') /\ Len(queue') \in Nat
    BY <2>1, LenProperties
  <2>3. DOMAIN queue = 1 .. Len(queue) /\ Len(queue) \in Nat
    BY QueueIs
  <2>4. \A i \in DOMAIN queue' : i + 1 \in DOMAIN queue /\ i + 1 > 1 /\ queue'[i] = queue[i + 1]
    BY <2>1, <2>2, <2>3
  <2>5. \A i \in DOMAIN queue : i > 1 => queue[i].out = "todo"
    BY <1>2 DEF LanesAreApart
  <2>6. MovedUp
    BY <2>2, <2>4, <2>5 DEF MovedUp
  <2>7. \A i \in DOMAIN queue : i # 1 => i - 1 \in DOMAIN queue'
    BY <2>1, <2>2, <2>3
  <2> QED BY <2>1, <2>6, <2>7
<1>5. /\ op' \in [Pacing!Lane -> OpRow]
      /\ \A l \in Pacing!Lane :
           \/ op'[l] = op[l] /\ ~(j.live /\ l = j.lane)
           \/ /\ j.live /\ l = j.lane /\ op'[l].pc = "answered" /\ op'[l].answer = j.out /\ op'[l].count = j.count
              /\ op'[l].pacer = op[l].pacer /\ op'[l].kind = op[l].kind
  <2>1. CASE j.live
    <3> DEFINE now == [op[j.lane] EXCEPT !.pc = "answered", !.answer = j.out, !.count = j.count]
    <3>1. op' = [op EXCEPT ![j.lane] = now]
      BY <1>1, <2>1
    <3>2. op[j.lane] \in OpRow
      BY <1>2, <1>3
    <3>3. /\ now \in OpRow /\ now.pc = "answered" /\ now.answer = j.out /\ now.count = j.count
          /\ now.pacer = op[j.lane].pacer /\ now.kind = op[j.lane].kind
      BY <1>3, <3>2 DEF OpRow
    <3> HIDE DEF now
    <3> QED BY <1>2, <1>3, <2>1, <3>1, <3>3
  <2>2. CASE ~j.live
    BY <1>1, <1>2, <2>2
  <2> QED BY <2>1, <2>2
<1>6. \A l \in Pacing!Lane : /\ op'[l].pacer = op[l].pacer /\ op'[l].kind = op[l].kind
                             /\ op'[l].pc \in {"idle", "gap", "browser"} => op'[l] = op[l]
                             /\ op[l].pc # "browser" => op'[l] = op[l]
  BY <1>3, <1>5
<1>7. "send" \in Pacing!Lane /\ "discover" \in Pacing!Lane /\ "sync" \in Pacing!Lane
  BY Constants
<1> HIDE DEF j
<1>8. PacingType'
  BY <1>1, <1>2, <1>4, <1>5 DEF PacingType
<1>9. LanesAreApart'
  <2>1. ASSUME NEW i \in DOMAIN queue'
        PROVE  /\ queue'[i].kind \in KindsOf(queue'[i].lane)
               /\ queue'[i].out \in Pacing!Outcome(queue'[i].kind) \cup {"todo"}
               /\ i > 1 => queue'[i].out = "todo"
               /\ queue'[i].live \/ deserted'
               /\ queue'[i].live => op'[queue'[i].lane].pc = "browser" /\ op'[queue'[i].lane].kind = queue'[i].kind
    <3> DEFINE h == i + 1
    <3>1. h \in DOMAIN queue /\ h # 1 /\ queue'[i] = queue[h] /\ queue'[i].out = "todo"
      BY <1>4 DEF MovedUp
    <3> HIDE DEF h
    <3>2. queue[h].lane \in Pacing!Lane
      BY <3>1, QueueIs DEF JobRow
    <3>3. /\ queue[h].kind \in KindsOf(queue[h].lane) /\ (queue[h].live \/ deserted)
          /\ queue[h].live => op[queue[h].lane].pc = "browser" /\ op[queue[h].lane].kind = queue[h].kind
      BY <1>2, <3>1 DEF LanesAreApart
    <3>4. queue[h].live => op'[queue[h].lane] = op[queue[h].lane]
      <4> SUFFICES ASSUME queue[h].live, j.live, queue[h].lane = j.lane PROVE FALSE
        BY <1>5, <3>2
      <4> QED BY <1>1, <1>2, <3>1 DEF LanesAreApart, j
    <3> QED BY <1>1, <3>1, <3>3, <3>4
  <2>2. ASSUME NEW i \in DOMAIN queue', NEW h \in DOMAIN queue',
               queue'[i].live, queue'[h].live, queue'[i].lane = queue'[h].lane
        PROVE  i = h
    <3>1. /\ i + 1 \in DOMAIN queue /\ h + 1 \in DOMAIN queue /\ queue'[i] = queue[i + 1] /\ queue'[h] = queue[h + 1]
      BY <1>4 DEF MovedUp
    <3>2. i + 1 = h + 1
      BY <1>2, <2>2, <3>1 DEF LanesAreApart
    <3>3. i \in Nat /\ h \in Nat
      BY <1>4, LenProperties
    <3> QED BY <3>2, <3>3
  <2>3. ASSUME NEW l \in Pacing!Lane
        PROVE  /\ op'[l].pc = "browser" => \E i \in DOMAIN queue' : queue'[i].lane = l /\ queue'[i].live
               /\ op'[l].pc # "idle" => op'[l].kind \in KindsOf(l)
               /\ op'[l].pc = "answered" => op'[l].answer \in Pacing!Outcome(op'[l].kind)
               /\ op'[l].pc = "gap" => l = "send"
    <3>1. op[l].pc # "idle" => op[l].kind \in KindsOf(l)
      BY <1>2 DEF LanesAreApart
    <3>2. ASSUME op'[l].pc = "browser" PROVE \E i \in DOMAIN queue' : queue'[i].lane = l /\ queue'[i].live
      <4>1. op'[l] = op[l] /\ ~(j.live /\ l = j.lane)
        BY <1>5, <3>2
      <4>2. PICK h \in DOMAIN queue : queue[h].lane = l /\ queue[h].live
        BY <1>2, <3>2, <4>1 DEF LanesAreApart
      <4>3. h # 1 /\ h \in Nat
        BY <4>1, <4>2, QueueIs DEF j
      <4>4. h - 1 \in DOMAIN queue' /\ (h - 1) + 1 = h
        BY <1>4, <4>2, <4>3
      <4>5. queue'[h - 1] = queue[h]
        BY <1>4, <4>4 DEF MovedUp
      <4> QED BY <4>2, <4>4, <4>5
    <3>3. CASE op'[l] = op[l]
      BY <1>2, <3>2, <3>3 DEF LanesAreApart
    <3>4. CASE j.live /\ l = j.lane /\ op'[l].pc = "answered" /\ op'[l].answer = j.out /\ op'[l].kind = op[l].kind
      BY <1>3, <3>1, <3>4
    <3> QED BY <1>5, <3>3, <3>4
  <2> QED BY <2>1, <2>2, <2>3 DEF LanesAreApart
<1>10. PacersRest'
  <2>1. /\ op'["send"].pc = "gap" => op["send"].pc = "gap"
        /\ op'["send"].pc \in {"browser", "answered"} => op["send"].pc \in {"browser", "answered"}
    BY <1>3, <1>5, <1>7
  <2> QED BY <1>2, <1>6, <1>7, <2>1 DEF PacersRest
<1>11. SendsAreCharged'
  <2>1. ASSUME NEW m \in Sent, Owed(m)' PROVE Owed(m)
    <3>1. \A i \in DOMAIN queue' : queue'[i].out \notin Refundable
      BY <1>4 DEF MovedUp, Refundable
    <3>2. op'["send"].pc = "answered" /\ op'["send"].answer \in Refundable /\ op'["send"].kind = m
      BY <2>1, <3>1 DEF Owed
    <3>3. op["send"].kind = m
      BY <1>6, <1>7, <3>2
    <3>4. CASE op'["send"] = op["send"]
      BY <3>2, <3>4 DEF Owed
    <3>5. CASE j.live /\ "send" = j.lane /\ op'["send"].answer = j.out
      BY <1>1, <3>2, <3>3, <3>5 DEF Owed, j
    <3> QED BY <1>5, <1>7, <3>4, <3>5
  <2>2. ASSUME NEW m \in Sent
        PROVE  /\ clicked'[m] + Cardinality(Waiting(queue, m)') + (IF Owed(m)' THEN 1 ELSE 0) <= disk'.used[m]
               /\ disk'.used[m] <= SendCap
    <3>1. /\ clicked[m] + Cardinality(Waiting(queue, m)) + (IF Owed(m) THEN 1 ELSE 0) <= disk.used[m]
          /\ disk.used[m] <= SendCap /\ disk' = disk /\ clicked' = clicked
      BY <1>1, <1>2 DEF SendsAreCharged
    <3>2. clicked[m] \in Nat /\ disk.used[m] \in Nat /\ Cardinality(Waiting(queue, m)) \in Nat
      BY <1>2, QueueIs, WaitingIsFinite, Constants DEF Charges, PacingType
    <3>3. Cardinality(Waiting(queue', m)) <= Cardinality(Waiting(queue, m)) /\ Cardinality(Waiting(queue', m)) \in Nat
      BY <1>4, FewerWait, WaitingIsFinite
    <3>4. Waiting(queue, m)' = Waiting(queue', m)
      BY DEF Waiting
    <3> QED BY <2>1, <3>1, <3>2, <3>3, <3>4
  <2>3. op'["send"].pc = "gap" => disk'.used[op'["send"].kind] < SendCap
    BY <1>1, <1>2, <1>6, <1>7 DEF SendsAreCharged
  <2> QED BY <2>2, <2>3 DEF SendsAreCharged
<1>12. ReadsAreBounded'
  <2>1. Views' = Views /\ PageSaw' = PageSaw /\ SweepSaw' = SweepSaw /\ Unpaid' = Unpaid
    BY <1>1, <1>6, <1>7 DEF Views, PageSaw, SweepSaw, Unpaid
  <2>2. /\ op'["discover"].pc # "idle" => op["discover"].pc # "idle"
        /\ op'["sync"].pc # "idle" => op["sync"].pc # "idle"
    BY <1>6, <1>7
  <2>3. ASSUME op'["discover"].pc = "answered" PROVE op'["discover"].count <= ViewCap - PageSaw
    <3>1. CASE op'["discover"] = op["discover"]
      BY <1>2, <2>3, <3>1 DEF ReadsAreBounded
    <3>2. CASE j.live /\ "discover" = j.lane /\ op'["discover"].count = j.count
      BY <1>1, <1>2, <3>2 DEF ReadsAreBounded, j
    <3> QED BY <1>5, <1>7, <3>1, <3>2
  <2>4. \A i \in DOMAIN queue' : queue'[i].live /\ queue'[i].lane = "discover" =>
          queue'[i].limit <= ViewCap - PageSaw /\ queue'[i].count <= ViewCap - PageSaw
    BY <1>2, <1>4 DEF ReadsAreBounded, MovedUp
  <2> QED BY <1>2, <2>1, <2>2, <2>3, <2>4 DEF ReadsAreBounded
<1>13. StopIsKnown'
  <2> SUFFICES ASSUME throttled, ~disk.paused, ~deserted
               PROVE  \E l \in Pacing!Lane : op'[l].pc = "answered" /\ op'[l].answer \in Refusals
    BY <1>1 DEF StopIsKnown
  <2>1. CASE \E i \in DOMAIN queue : queue[i].out \in Refusals
    <3>1. PICK i \in DOMAIN queue : queue[i].out \in Refusals
      BY <2>1
    <3>2. i = 1
      <4>1. i \in Nat /\ i >= 1 /\ queue[i].out # "todo"
        BY <3>1, QueueIs DEF Refusals
      <4>2. ~(i > 1)
        BY <1>2, <4>1 DEF LanesAreApart
      <4> QED BY <4>1, <4>2
    <3>3. j.live /\ j.out \in Refusals
      BY <1>3, <3>1, <3>2 DEF j
    <3> QED BY <1>3, <1>5, <3>3
  <2>2. CASE \E l \in Pacing!Lane : op[l].pc = "answered" /\ op[l].answer \in Refusals
    BY <1>6, <2>2
  <2> QED BY <1>2, <2>1, <2>2 DEF StopIsKnown
<1>14. ReadsArePaid'
  <2>1. Unpaid' = Unpaid /\ due' = due /\ deserted' = deserted
    BY <1>1, <1>6, <1>7 DEF Unpaid
  <2>2. op'["sync"].pc = "idle" <=> op["sync"].pc = "idle"
    BY <1>6, <1>7
  <2>3. \A i \in DOMAIN queue' : i + 1 \in DOMAIN queue /\ queue'[i] = queue[i + 1]
    BY <1>4 DEF MovedUp
  <2> QED BY <1>2, <2>1, <2>2, <2>3 DEF ReadsArePaid
<1> QED
  BY <1>8, <1>9, <1>10, <1>11, <1>12, <1>13, <1>14 DEF PacingInv

LEMMA PacingStep == ASSUME PacingInv, [Pacing!Next]_Pacing!vars PROVE PacingInv'
<1>1. ASSUME UNCHANGED Pacing!vars PROVE PacingInv'
  <2>1. UNCHANGED <<disk, op, queue, clicked, throttled, due, deserted>>
    BY <1>1 DEF Pacing!vars
  <2>2. PacingType' /\ LanesAreApart'
    BY <2>1 DEF PacingInv, PacingType, LanesAreApart
  <2>3. PacersRest'
    BY <2>1 DEF PacingInv, PacersRest
  <2>4. SendsAreCharged'
    BY <2>1 DEF PacingInv, SendsAreCharged, Waiting, Owed
  <2>5. ReadsAreBounded' /\ StopIsKnown' /\ ReadsArePaid'
    BY <2>1 DEF PacingInv, ReadsAreBounded, StopIsKnown, ReadsArePaid, Views, PageSaw, SweepSaw, Unpaid
  <2> QED BY <2>2, <2>3, <2>4, <2>5 DEF PacingInv
<1> QED
  BY <1>1, ReachKeeps, ChargeKeeps, SettleKeeps, DiscoverKeeps, ListedKeeps, SweepKeeps, ProbedKeeps,
     BeginKeeps, FinishKeeps, GiveUpKeeps, ResumeKeeps, CrashKeeps DEF Pacing!Next

(* Only a message goes astray.                                               *)
LEMMA AstrayStep ==
  ASSUME PacingInv, astray \subseteq Sent, [Pacing!Next]_Pacing!vars
  PROVE  astray' \subseteq Sent
<1>1. CASE Pacing!Begin
  <2>1. 1 \in DOMAIN queue /\ Head(queue) = queue[1]
    <3>1. queue # <<>> /\ Len(queue) \in Nat /\ Len(queue) # 0
      BY <1>1, QueueIs DEF Pacing!Begin
    <3> QED BY <3>1, QueueIs
  <2>2. queue[1].kind \in KindsOf(queue[1].lane) /\ queue[1].lane \in Pacing!Lane
    BY <2>1, QueueIs DEF PacingInv, LanesAreApart, JobRow
  <2>3. "unsent" \in Pacing!Outcome(queue[1].kind) => queue[1].kind = "dms"
    BY <2>2, Constants DEF Pacing!Outcome, KindsOf
  <2>4. queue[1].kind = "dms" => queue[1].kind \in Sent
    BY <2>2, Constants DEF KindsOf, Pacing!Lane
  <2>5. astray' \in {astray, astray \cup {queue[1].kind}}
        /\ (astray' # astray => "unsent" \in Pacing!Outcome(queue[1].kind))
    BY <1>1, <2>1 DEF Pacing!Begin
  <2> QED BY <2>3, <2>4, <2>5
<1>2. CASE ~Pacing!Begin
  BY <1>2 DEF Pacing!Next, Pacing!vars, Pacing!Reach, Pacing!Charge, Pacing!Settle, Pacing!Discover, Pacing!Listed,
      Pacing!Sweep, Pacing!Probed, Pacing!Finish, Pacing!GiveUp, Pacing!Resume, Pacing!Crash
<1> QED
  BY <1>1, <1>2

LEMMA PacingTells == PacingInv /\ astray \subseteq Sent => LedgerIsTrue
<1> SUFFICES ASSUME PacingInv, astray \subseteq Sent PROVE LedgerIsTrue
  OBVIOUS
<1>1. /\ PacingType /\ LanesAreApart /\ SendsAreCharged /\ ReadsAreBounded /\ StopIsKnown /\ ReadsArePaid
      /\ disk.used \in Charges /\ clicked \in [Sent -> Nat] /\ op \in [Pacing!Lane -> OpRow]
      /\ disk \in [used : [Pacing!Meter -> Nat], paused : BOOLEAN]
  BY DEF PacingInv, PacingType, Ledger, Charges
<1>2. "send" \in Pacing!Lane /\ "sync" \in Pacing!Lane /\ \A m \in Sent : m \in Pacing!Meter /\ m # "views"
  BY Constants
<1>3. Pacing!TypeOK
  <2>1. ASSUME NEW l \in Pacing!Lane
        PROVE  /\ op[l].pc \in {"idle", "gap", "browser", "answered"}
               /\ op[l].pacer.seen \in [used : [Pacing!Meter -> Nat], paused : BOOLEAN]
               /\ {op[l].pacer.pending, op[l].pacer.mine, op[l].pacer.refunds} \subseteq [Pacing!Meter -> Nat]
               /\ op[l].left \in 0 .. MaxProbes
               /\ op[l].pc = "browser" => \E i \in DOMAIN queue : queue[i].lane = l /\ queue[i].live
    <3>1. op[l] \in OpRow
      BY <1>1
    <3>2. op[l].pacer \in PacerRow /\ op[l].pc \in {"idle", "gap", "browser", "answered"} /\ op[l].left \in 0 .. MaxProbes
      BY <3>1 DEF OpRow
    <3> QED BY <1>1, <3>2 DEF PacerRow, Ledger, Charges, LanesAreApart
  <2>2. DOMAIN op = Pacing!Lane /\ \A i \in DOMAIN queue : i > 1 => queue[i].out = "todo"
    BY <1>1 DEF LanesAreApart
  <2>3. throttled \in BOOLEAN /\ due \in [Pacing!Lane -> 0 .. MaxDue] /\ deserted \in BOOLEAN
    BY <1>1 DEF PacingType
  <2> QED BY <1>1, <2>1, <2>2, <2>3 DEF Pacing!TypeOK
<1>4. Pacing!SendsCharged
  <2>1. ASSUME NEW m \in Sent PROVE clicked[m] <= disk.used[m] /\ disk.used[m] <= Pacing!Cap[m]
    <3>1. clicked[m] \in Nat /\ disk.used[m] \in Nat /\ Cardinality(Waiting(queue, m)) \in Nat
      BY <1>1, <1>2, QueueIs, WaitingIsFinite DEF Charges
    <3>2. Pacing!Cap[m] = SendCap
      BY <1>2 DEF Pacing!Cap
    <3> QED BY <1>1, <3>1, <3>2 DEF SendsAreCharged
  <2> QED BY <2>1 DEF Pacing!SendsCharged
<1>5. Pacing!ReadOvershootBounded
  BY <1>1 DEF Pacing!ReadOvershootBounded, ReadsAreBounded, Views
<1>6. Pacing!ThrottleEntersBackoff
  <2> SUFFICES ASSUME queue = <<>>, \A l \in Pacing!Lane : op[l].pc = "idle", throttled PROVE disk.paused \/ deserted
    BY DEF Pacing!ThrottleEntersBackoff, Pacing!AtRest
  <2>1. DOMAIN queue = {}
    OBVIOUS
  <2> QED BY <1>1, <2>1 DEF StopIsKnown
<1>7. Pacing!SweepReadsCharged
  BY <1>1 DEF Pacing!SweepReadsCharged, ReadsArePaid
<1> QED
  BY <1>3, <1>4, <1>5, <1>6, <1>7 DEF LedgerIsTrue

(* The ledger file and what happens on LinkedIn agree but for a message that  *)
(* was answered as not sent, for any caps and bounds, however the lanes'      *)
(* operations interleave, end, are given up or die (LedgerIsTrue, pacing.py). *)
THEOREM LedgerStaysTrue == Pacing!Spec => []LedgerIsTrue
<1> DEFINE Kept == PacingInv /\ astray \subseteq Sent
<1>1. Kept /\ [Pacing!Next]_Pacing!vars => Kept'
  BY PacingStep, AstrayStep
<1>2. Pacing!Init => Kept
  BY PacingInit DEF Pacing!Init
<1>3. Kept => LedgerIsTrue
  BY PacingTells
<1> QED
  BY <1>1, <1>2, <1>3, PTL DEF Pacing!Spec

LEMMA MergeKeepsPause == ASSUME NEW p, disk' = Pacing!Merged(p), disk.paused PROVE disk'.paused
BY DEF Pacing!Merged

(* Whatever an operation saves, the pause it finds on the ledger is on it      *)
(* afterwards: the user's resume alone takes it off (PauseOutlivesOthers, save). *)
THEOREM PausesOutlive == Pacing!Spec => PauseOutlivesOthers
<1>1. ASSUME Pacing!Next PROVE disk.paused /\ ~disk'.paused => op' = op /\ throttled' = FALSE
  <2> SUFFICES ASSUME disk.paused, ~disk'.paused PROVE op' = op /\ throttled' = FALSE
    OBVIOUS
  <2>1. \A p : disk' # Pacing!Merged(p)
    BY MergeKeepsPause
  <2>2. \A l, p : ~Pacing!Leave(l, p)
    BY <2>1 DEF Pacing!Leave
  <2>3. disk' # disk
    OBVIOUS
  <2>4. ASSUME NEW p, NEW left PROVE ~Pacing!Probe(p, left)
    BY <2>2, <2>3 DEF Pacing!Probe
  <2>5. \A threads, probes : ~Pacing!Sweep(threads, probes)
    BY <2>3, <2>4 DEF Pacing!Sweep
  <2>6. ~Pacing!Probed
    BY <2>2, <2>4 DEF Pacing!Probed
  <2>7. ~Pacing!Charge /\ ~Pacing!Discover /\ \A m : ~Pacing!Reach(m)
    BY <2>1, <2>3 DEF Pacing!Charge, Pacing!Discover, Pacing!Reach
  <2>8. ~Pacing!Settle /\ ~Pacing!Listed /\ \A l : ~Pacing!GiveUp(l)
    BY <2>2 DEF Pacing!Settle, Pacing!Listed, Pacing!GiveUp
  <2>9. ~Pacing!Begin /\ ~Pacing!Finish /\ ~Pacing!Crash
    BY <2>3 DEF Pacing!Begin, Pacing!Finish, Pacing!Crash
  <2>10. Pacing!Resume
    BY <1>1, <2>5, <2>6, <2>7, <2>8, <2>9 DEF Pacing!Next
  <2> QED BY <2>10 DEF Pacing!Resume
<1> QED
  BY <1>1, PTL DEF Pacing!Spec, PauseOutlivesOthers, Pacing!PauseOutlivesOthers

-----------------------------------------------------------------------------
(* The sends of a job (ReachOut).                                            *)

SendRow  == [contact : Contacts, batch : 1 .. MaxClicks, beside : SUBSET (1 .. MaxClicks), state : Reach!Active \cup {"done", "failed", "cancelled"}]
LogRow   == {"none", "sent", "failed"}
LaneRow  == [op : Nat, at : {"none", "browser", "sent", "unsent", "raised", "escaped", "recorded", "blamed"}]
ReqRow   == [todo : SUBSET Contacts, inflight : SUBSET Contacts, batch : 0 .. MaxClicks, beside : SUBSET (1 .. MaxClicks)]

ReachType ==
  /\ request \in [Threads -> ReqRow]
  /\ \A t \in Threads : request[t].todo # {} => request[t].batch \in 1 .. MaxClicks
  /\ sends \in Seq(SendRow) /\ log \in Seq(LogRow) /\ Len(log) = Len(sends)
  /\ lane \in LaneRow /\ lane.op \in {0} \cup DOMAIN sends
  /\ lane.op = 0 <=> lane.at = "none"
  /\ \A i \in DOMAIN sends : sends[i].state = "running" <=> lane.op = i
  /\ tried \subseteq DOMAIN sends
  /\ card \in {"saved", "seeking_referral"} /\ clicks \in 0 .. MaxClicks

(* A row of the log is of a send that has begun, and at its end.              *)
LogIsLate ==
  \A i \in DOMAIN sends : log[i] # "none" =>
    /\ sends[i].state # "queued"
    /\ sends[i].state = "running" => lane.at \in {"recorded", "blamed"}

(* A batch of which one was sent and every row is written has moved the card. *)
BatchHasMoved ==
  \A i \in DOMAIN sends : log[i] = "sent" =>
    \/ card = "seeking_referral"
    \/ \E j \in DOMAIN sends : sends[j].batch = sends[i].batch /\ log[j] = "none"

(* Of two clicks, or what they enqueued, one was not over when the other read. *)
Beside(x, y) == x.batch \in y.beside \/ y.batch \in x.beside

(* A click that still has sends to enqueue has seen whatever is in flight,    *)
(* but for what a request beside it has enqueued.                            *)
ClickHasSeen ==
  \A t \in Threads : request[t].todo # {} =>
    \A i \in DOMAIN sends : sends[i].state \in Reach!Active =>
      \/ sends[i].contact \in request[t].inflight
      \/ Beside(sends[i], request[t])

(* Two requests under way are beside each other.                             *)
ClicksAreBeside ==
  \A t, u \in Threads : t # u /\ request[t].todo # {} /\ request[u].todo # {} =>
    Beside(request[t], request[u])

ReachInv == ReachType /\ LogIsLate /\ BatchHasMoved /\ ClickHasSeen /\ ClicksAreBeside /\ Reach!OnlyOverlapDoubles

LEMMA ReachInit == Reach!Init => ReachInv
<1> SUFFICES ASSUME Reach!Init PROVE ReachInv
  OBVIOUS
<1>1. sends = <<>> /\ log = <<>> /\ sends \in Seq(SendRow) /\ log \in Seq(LogRow) /\ DOMAIN sends = {}
  BY DEF Reach!Init
<1>2. request \in [Threads -> ReqRow] /\ (\A t \in Threads : request[t].todo = {})
      /\ lane \in LaneRow /\ lane.op = 0 /\ lane.at = "none"
      /\ tried = {} /\ card = "saved" /\ clicks \in 0 .. MaxClicks
  BY OutreachAssumption DEF Reach!Init, Reach!Quiet, Reach!None, ReqRow, LaneRow
<1>3. ReachType
  BY <1>1, <1>2 DEF ReachType
<1> QED
  BY <1>1, <1>2, <1>3 DEF ReachInv, LogIsLate, BatchHasMoved, ClickHasSeen, ClicksAreBeside, Reach!OnlyOverlapDoubles, Reach!UnderWay

LEMMA SendsAre ==
  ASSUME ReachInv
  PROVE  /\ DOMAIN sends = 1 .. Len(sends) /\ DOMAIN log = 1 .. Len(sends) /\ Len(sends) \in Nat
         /\ \A i \in DOMAIN sends : sends[i] \in SendRow /\ log[i] \in LogRow
         /\ sends \in Seq(SendRow) /\ log \in Seq(LogRow) /\ Len(log) = Len(sends)
BY LenProperties, ElementOfSeq DEF ReachInv, ReachType

(* A step that only changes where some sends stand.                          *)
LEMMA RestatedSends ==
  ASSUME ReachInv,
         sends' \in Seq(SendRow), Len(sends') = Len(sends),
         \A i \in DOMAIN sends :
           /\ sends'[i].contact = sends[i].contact /\ sends'[i].batch = sends[i].batch
           /\ sends'[i].beside = sends[i].beside
           /\ sends'[i].state \in Reach!Active => sends[i].state \in Reach!Active
           /\ sends'[i].state = "running" <=> lane'.op = i
           /\ log[i] # "none" => /\ sends'[i].state # "queued"
                                 /\ sends'[i].state = "running" => lane'.at \in {"recorded", "blamed"},
         lane' \in LaneRow, lane'.op \in {0} \cup DOMAIN sends, lane'.op = 0 <=> lane'.at = "none",
         request' \in [Threads -> ReqRow],
         \A t \in Threads : request'[t].todo # {} => request'[t] = request[t],
         tried' \subseteq DOMAIN sends,
         UNCHANGED <<log, card, clicks>>
  PROVE  ReachInv'
<1>1. /\ DOMAIN sends = 1 .. Len(sends) /\ DOMAIN sends' = DOMAIN sends
      /\ ReachType /\ LogIsLate /\ BatchHasMoved /\ ClickHasSeen /\ ClicksAreBeside /\ Reach!OnlyOverlapDoubles
  BY SendsAre, LenProperties DEF ReachInv
<1>2. ReachType'
  <2>1. \A t \in Threads : request'[t].todo # {} => request'[t].batch \in 1 .. MaxClicks
    BY <1>1 DEF ReachType
  <2>2. /\ Len(log') = Len(sends') /\ log' \in Seq(LogRow) /\ card' \in {"saved", "seeking_referral"}
        /\ clicks' \in 0 .. MaxClicks /\ tried' \subseteq DOMAIN sends' /\ lane'.op \in {0} \cup DOMAIN sends'
    BY <1>1 DEF ReachType
  <2>3. \A i \in DOMAIN sends' : sends'[i].state = "running" <=> lane'.op = i
    BY <1>1
  <2> QED BY <2>1, <2>2, <2>3 DEF ReachType
<1>3. LogIsLate'
  BY <1>1 DEF LogIsLate
<1>4. BatchHasMoved'
  BY <1>1 DEF BatchHasMoved
<1>5. ClickHasSeen' /\ ClicksAreBeside'
  <2>1. \A i \in DOMAIN sends, t \in Threads :
           request'[t].todo # {} => (Beside(sends'[i], request'[t]) <=> Beside(sends[i], request[t]))
    BY DEF Beside
  <2> QED BY <1>1, <2>1 DEF ClickHasSeen, ClicksAreBeside, Beside
<1>6. Reach!OnlyOverlapDoubles'
  BY <1>1 DEF Reach!OnlyOverlapDoubles, Reach!UnderWay
<1> QED
  BY <1>2, <1>3, <1>4, <1>5, <1>6 DEF ReachInv

LEMMA StateWritten ==
  ASSUME sends \in Seq(SendRow), NEW i \in DOMAIN sends,
         NEW st \in Reach!Active \cup {"done", "failed", "cancelled"}, sends' = [sends EXCEPT ![i].state = st]
  PROVE  /\ sends' \in Seq(SendRow) /\ Len(sends') = Len(sends)
         /\ \A j \in DOMAIN sends : /\ sends'[j].contact = sends[j].contact /\ sends'[j].batch = sends[j].batch /\ sends'[j].beside = sends[j].beside
                                    /\ sends'[j].state = IF j = i THEN st ELSE sends[j].state
<1>1. DOMAIN sends = 1 .. Len(sends) /\ \A j \in DOMAIN sends : sends[j] \in SendRow
  BY LenProperties, ElementOfSeq
<1> DEFINE r == [sends[i] EXCEPT !.state = st]
<1>2. r \in SendRow /\ r.contact = sends[i].contact /\ r.batch = sends[i].batch /\ r.beside = sends[i].beside /\ r.state = st
  BY <1>1 DEF SendRow
<1>3. sends' = [sends EXCEPT ![i] = r]
  OBVIOUS
<1> HIDE DEF r
<1>4. /\ sends' \in Seq(SendRow) /\ Len(sends') = Len(sends)
      /\ \A j \in 1 .. Len(sends) : sends'[j] = IF j = i THEN r ELSE sends[j]
  BY <1>1, <1>2, <1>3, ExceptSeq
<1> QED
  BY <1>1, <1>2, <1>4

LEMMA ClickReach ==
  ASSUME ReachInv, NEW t \in Threads, NEW picked \in SUBSET Contacts, Reach!Click(t, picked)
  PROVE  ReachInv'
<1> DEFINE r == [todo |-> picked, inflight |-> Reach!InFlight(sends), batch |-> clicks + 1,
                 beside |-> {request[u].batch : u \in {v \in Threads : request[v].todo # {}}}]
<1>1. /\ request' = [request EXCEPT ![t] = r] /\ clicks' = clicks + 1 /\ clicks < MaxClicks /\ request[t].todo = {}
      /\ UNCHANGED <<sends, lane, log, tried, card>>
  BY DEF Reach!Click
<1>2. /\ request \in [Threads -> ReqRow] /\ clicks \in 0 .. MaxClicks
      /\ ReachType /\ LogIsLate /\ BatchHasMoved /\ ClickHasSeen /\ ClicksAreBeside /\ Reach!OnlyOverlapDoubles
  BY DEF ReachInv, ReachType
<1>3. /\ r.todo \in SUBSET Contacts /\ r.batch \in 1 .. MaxClicks /\ clicks + 1 \in 0 .. MaxClicks
      /\ \A i \in DOMAIN sends : sends[i].state \in Reach!Active => sends[i].contact \in r.inflight
      /\ r.inflight \subseteq Contacts
  BY <1>1, <1>2, SendsAre, OutreachAssumption DEF Reach!InFlight, SendRow
<1>a. /\ r.beside \subseteq 1 .. MaxClicks
      /\ \A u \in Threads : request[u].todo # {} => request[u].batch \in r.beside
  BY <1>2 DEF ReachType
<1>4. r \in ReqRow
  BY <1>3, <1>a, OutreachAssumption DEF ReqRow
<1> HIDE DEF r
<1>5. /\ request' \in [Threads -> ReqRow] /\ request'[t] = r
      /\ \A u \in Threads \ {t} : request'[u] = request[u]
  BY <1>1, <1>2, <1>4
<1>6. ReachType'
  BY <1>1, <1>2, <1>3, <1>5 DEF ReachType
<1>7. ClickHasSeen'
  BY <1>1, <1>2, <1>3, <1>5 DEF ClickHasSeen, Beside
<1>8. ClicksAreBeside'
  BY <1>1, <1>2, <1>3, <1>a, <1>5 DEF ClicksAreBeside, Beside
<1>9. LogIsLate' /\ BatchHasMoved' /\ Reach!OnlyOverlapDoubles'
  BY <1>1, <1>2 DEF LogIsLate, BatchHasMoved, Reach!OnlyOverlapDoubles, Reach!UnderWay
<1> QED
  BY <1>6, <1>7, <1>8, <1>9 DEF ReachInv

(* The one place where a contact gets a send: what it did not see is of a     *)
(* request beside it.                                                        *)
LEMMA SubmitReach ==
  ASSUME ReachInv, NEW t \in Threads, NEW c \in Contacts, Reach!Submit(t, c)
  PROVE  ReachInv'
<1> DEFINE r == [todo |-> request[t].todo \ {c}, inflight |-> request[t].inflight \cup {c},
                 batch |-> request[t].batch, beside |-> request[t].beside]
           new == [contact |-> c, batch |-> request[t].batch, beside |-> request[t].beside, state |-> "queued"]
<1>1. /\ c \in request[t].todo /\ UNCHANGED <<lane, tried, card, clicks>>
      /\ request' = [request EXCEPT ![t].todo = @ \ {c}, ![t].inflight = @ \cup {c}]
      /\ IF c \in request[t].inflight THEN UNCHANGED <<sends, log>>
         ELSE sends' = Append(sends, new) /\ log' = Append(log, "none")
  BY DEF Reach!Submit
<1>2. /\ request \in [Threads -> ReqRow] /\ request[t] \in ReqRow /\ request[t].batch \in 1 .. MaxClicks
      /\ ReachType /\ LogIsLate /\ BatchHasMoved /\ ClickHasSeen /\ ClicksAreBeside /\ Reach!OnlyOverlapDoubles
  BY <1>1 DEF ReachInv, ReachType
<1>3. /\ request'[t] = r /\ r \in ReqRow /\ request' \in [Threads -> ReqRow]
      /\ \A u \in Threads \ {t} : request'[u] = request[u]
  BY <1>1, <1>2 DEF ReqRow
<1>a. /\ r.batch = request[t].batch /\ r.beside = request[t].beside
      /\ r.todo \subseteq request[t].todo /\ r.inflight = request[t].inflight \cup {c}
  OBVIOUS
<1> HIDE DEF r
<1>b. ClicksAreBeside'
  BY <1>2, <1>3, <1>a, <1>1 DEF ClicksAreBeside, Beside
<1>4. CASE c \in request[t].inflight
  <2>1. UNCHANGED <<sends, log>>
    BY <1>1, <1>4
  <2>2. ReachType' /\ ClickHasSeen'
    BY <1>1, <1>2, <1>3, <1>a, <2>1 DEF ReachType, ClickHasSeen, Beside
  <2>3. LogIsLate' /\ BatchHasMoved' /\ Reach!OnlyOverlapDoubles'
    BY <1>1, <1>2, <2>1 DEF LogIsLate, BatchHasMoved, Reach!OnlyOverlapDoubles, Reach!UnderWay
  <2> QED BY <1>b, <2>2, <2>3 DEF ReachInv
<1>5. CASE c \notin request[t].inflight
  <2>1. /\ sends' = Append(sends, new) /\ log' = Append(log, "none")
        /\ sends \in Seq(SendRow) /\ log \in Seq(LogRow) /\ Len(log) = Len(sends)
    BY <1>1, <1>5, SendsAre
  <2>2. new \in SendRow /\ "none" \in LogRow
    BY <1>2 DEF SendRow, LogRow, ReqRow, Reach!Active
  <2> HIDE DEF new
  <2>3. /\ sends' \in Seq(SendRow) /\ log' \in Seq(LogRow)
        /\ Len(sends') = Len(sends) + 1 /\ Len(log') = Len(sends) + 1
        /\ DOMAIN sends' = 1 .. Len(sends) + 1 /\ DOMAIN sends = 1 .. Len(sends) /\ Len(sends) \in Nat
        /\ sends'[Len(sends) + 1] = new /\ log'[Len(sends) + 1] = "none"
        /\ \A i \in DOMAIN sends : sends'[i] = sends[i] /\ log'[i] = log[i]
    BY <2>1, <2>2, SendsAre
  <2>4. /\ new.state = "queued" /\ new.contact = c /\ new.state \in Reach!Active
        /\ new.batch = request[t].batch /\ new.beside = request[t].beside
    BY DEF new, Reach!Active
  <2>5. \A i \in DOMAIN sends' : i \in DOMAIN sends \/ i = Len(sends) + 1
    BY <2>3
  <2>6. lane.op # Len(sends) + 1
    BY <1>2, <2>3 DEF ReachType
  <2>7. ReachType'
    BY <1>1, <1>2, <1>3, <1>a, <2>3, <2>4, <2>5, <2>6 DEF ReachType
  <2>8. LogIsLate'
    BY <1>1, <1>2, <2>3, <2>5 DEF LogIsLate
  <2>9. BatchHasMoved'
    <3> SUFFICES ASSUME NEW i \in DOMAIN sends', log'[i] = "sent", card' # "seeking_referral"
                 PROVE  \E j \in DOMAIN sends' : sends'[j].batch = sends'[i].batch /\ log'[j] = "none"
      BY DEF BatchHasMoved
    <3>1. i \in DOMAIN sends /\ log[i] = "sent" /\ card # "seeking_referral"
      BY <1>1, <2>3, <2>5
    <3>2. PICK j \in DOMAIN sends : sends[j].batch = sends[i].batch /\ log[j] = "none"
      BY <1>2, <3>1 DEF BatchHasMoved
    <3>3. j \in DOMAIN sends' /\ sends'[j] = sends[j] /\ log'[j] = log[j] /\ sends'[i] = sends[i]
      BY <2>3, <3>1
    <3> QED BY <3>2, <3>3
  <2>10. ClickHasSeen'
    <3> SUFFICES ASSUME NEW u \in Threads, request'[u].todo # {},
                        NEW i \in DOMAIN sends', sends'[i].state \in Reach!Active
                 PROVE  sends'[i].contact \in request'[u].inflight \/ Beside(sends'[i], request'[u])
      BY DEF ClickHasSeen
    <3>1. /\ request[u].todo # {} /\ request[u].inflight \subseteq request'[u].inflight
          /\ request'[u].batch = request[u].batch /\ request'[u].beside = request[u].beside
      BY <1>1, <1>3, <1>a
    <3>2. CASE i \in DOMAIN sends
      <4>1. sends[i].contact \in request[u].inflight \/ Beside(sends[i], request[u])
        BY <1>2, <2>3, <3>1, <3>2 DEF ClickHasSeen
      <4> QED BY <2>3, <3>1, <3>2, <4>1 DEF Beside
    <3>3. CASE i = Len(sends) + 1 /\ u = t
      BY <1>3, <1>a, <2>3, <2>4, <3>3
    <3>4. CASE i = Len(sends) + 1 /\ u # t
      <4>1. Beside(request[t], request[u])
        BY <1>1, <1>2, <3>1, <3>4 DEF ClicksAreBeside
      <4> QED BY <2>3, <2>4, <3>1, <3>4, <4>1 DEF Beside
    <3> QED BY <2>5, <3>2, <3>3, <3>4
  <2>11. Reach!OnlyOverlapDoubles'
    <3>1. \A i \in DOMAIN sends :
             sends[i].state \in Reach!Active /\ sends[i].contact = c => Beside(sends[i], new)
      BY <1>1, <1>2, <1>5, <2>4 DEF ClickHasSeen, Beside
    <3>2. \A i \in DOMAIN sends : i # Len(sends) + 1
      BY <2>3
    <3> QED BY <1>2, <2>3, <2>4, <2>5, <3>1, <3>2 DEF Reach!OnlyOverlapDoubles, Reach!UnderWay, Beside
  <2> QED BY <1>b, <2>7, <2>8, <2>9, <2>10, <2>11 DEF ReachInv
<1> QED
  BY <1>4, <1>5

LEMMA DispatchReach == ASSUME ReachInv, Reach!Dispatch PROVE ReachInv'
<1>1. PICK i \in DOMAIN sends :
        sends[i].state = "queued" /\ sends' = [sends EXCEPT ![i].state = "running"] /\ lane' = [op |-> i, at |-> "browser"]
  BY DEF Reach!Dispatch
<1>2. lane.op = 0 /\ UNCHANGED <<request, log, tried, card, clicks>>
  BY DEF Reach!Dispatch, Reach!None
<1>3. /\ request \in [Threads -> ReqRow] /\ tried \subseteq DOMAIN sends
      /\ \A j \in DOMAIN sends : sends[j].state # "running"
      /\ sends \in Seq(SendRow) /\ DOMAIN sends = 1 .. Len(sends)
      /\ \A j \in DOMAIN sends : log[j] # "none" => sends[j].state # "queued"
  BY <1>2, SendsAre DEF ReachInv, ReachType, LogIsLate
<1>4. /\ sends' \in Seq(SendRow) /\ Len(sends') = Len(sends)
      /\ \A j \in DOMAIN sends :
           /\ sends'[j].contact = sends[j].contact /\ sends'[j].batch = sends[j].batch /\ sends'[j].beside = sends[j].beside
           /\ sends'[j].state = IF j = i THEN "running" ELSE sends[j].state
  BY <1>1, <1>3, StateWritten DEF Reach!Active
<1>5. lane' \in LaneRow /\ lane'.op \in DOMAIN sends /\ lane'.op # 0 /\ lane'.at = "browser" /\ lane'.op = i
  BY <1>1, <1>3 DEF LaneRow
<1> QED
  BY <1>1, <1>2, <1>3, <1>4, <1>5, RestatedSends DEF Reach!Active

LEMMA DriveReach == ASSUME ReachInv, Reach!Drive PROVE ReachInv'
<1>1. /\ lane.at = "browser" /\ UNCHANGED <<request, sends, log, card, clicks>>
      /\ tried' = tried \cup {lane.op}
      /\ \E out \in {"sent", "unsent", "raised", "escaped"} : lane' = [lane EXCEPT !.at = out]
  BY DEF Reach!Drive
<1>2. /\ request \in [Threads -> ReqRow] /\ tried \subseteq DOMAIN sends
      /\ lane \in LaneRow /\ lane.op \in DOMAIN sends /\ lane.op # 0
      /\ \A j \in DOMAIN sends : sends[j].state = "running" <=> lane.op = j
      /\ \A j \in DOMAIN sends : log[j] # "none" => sends[j].state # "queued" /\ sends[j].state # "running"
  BY <1>1 DEF ReachInv, ReachType, LogIsLate
<1>3. lane' \in LaneRow /\ lane'.op = lane.op /\ lane'.at # "none"
  BY <1>1, <1>2 DEF LaneRow
<1>4. tried' \subseteq DOMAIN sends
  BY <1>1, <1>2
<1>5. sends' \in Seq(SendRow)
  BY <1>1, SendsAre
<1> QED
  BY <1>1, <1>2, <1>3, <1>4, <1>5, RestatedSends

LEMMA FinishReach == ASSUME ReachInv, Reach!Finish PROVE ReachInv'
<1>1. PICK st \in {"done", "failed"} : sends' = [sends EXCEPT ![lane.op].state = st]
  BY DEF Reach!Finish
<1>2. /\ lane.at \in {"recorded", "blamed", "escaped"} /\ lane' = [op |-> 0, at |-> "none"]
      /\ UNCHANGED <<request, log, tried, card, clicks>>
  BY DEF Reach!Finish, Reach!None
<1>3. /\ request \in [Threads -> ReqRow] /\ tried \subseteq DOMAIN sends
      /\ lane.op \in DOMAIN sends /\ sends \in Seq(SendRow) /\ DOMAIN sends = 1 .. Len(sends)
      /\ \A j \in DOMAIN sends : sends[j].state = "running" <=> lane.op = j
      /\ \A j \in DOMAIN sends : log[j] # "none" => sends[j].state # "queued"
  BY <1>2, SendsAre DEF ReachInv, ReachType, LogIsLate
<1>4. /\ sends' \in Seq(SendRow) /\ Len(sends') = Len(sends)
      /\ \A j \in DOMAIN sends :
           /\ sends'[j].contact = sends[j].contact /\ sends'[j].batch = sends[j].batch /\ sends'[j].beside = sends[j].beside
           /\ sends'[j].state = IF j = lane.op THEN st ELSE sends[j].state
  <2> DEFINE i == lane.op
  <2>1. /\ sends \in Seq(SendRow) /\ i \in DOMAIN sends /\ sends' = [sends EXCEPT ![i].state = st]
        /\ st \in Reach!Active \cup {"done", "failed", "cancelled"}
    BY <1>1, <1>3
  <2> HIDE DEF i
  <2>2. /\ sends' \in Seq(SendRow) /\ Len(sends') = Len(sends)
        /\ \A j \in DOMAIN sends : /\ sends'[j].contact = sends[j].contact /\ sends'[j].batch = sends[j].batch /\ sends'[j].beside = sends[j].beside
                                   /\ sends'[j].state = IF j = i THEN st ELSE sends[j].state
    BY <2>1, StateWritten
  <2> QED BY <2>2 DEF i
<1>5. lane' \in LaneRow /\ lane'.op = 0 /\ lane'.at = "none"
  BY <1>2 DEF LaneRow
<1> QED
  BY <1>2, <1>3, <1>4, <1>5, RestatedSends DEF Reach!Active

LEMMA CancelReach == ASSUME ReachInv, NEW i \in DOMAIN sends, Reach!Cancel(i) PROVE ReachInv'
<1>1. /\ sends[i].state = "queued" /\ sends' = [sends EXCEPT ![i].state = "cancelled"]
      /\ UNCHANGED <<request, lane, log, tried, card, clicks>>
  BY DEF Reach!Cancel
<1>2. /\ request \in [Threads -> ReqRow] /\ tried \subseteq DOMAIN sends
      /\ lane \in LaneRow /\ lane.op \in {0} \cup DOMAIN sends /\ (lane.op = 0 <=> lane.at = "none")
      /\ sends \in Seq(SendRow)
      /\ \A j \in DOMAIN sends : sends[j].state = "running" <=> lane.op = j
      /\ \A j \in DOMAIN sends : log[j] # "none" => /\ sends[j].state # "queued"
                                                    /\ sends[j].state = "running" => lane.at \in {"recorded", "blamed"}
  BY SendsAre DEF ReachInv, ReachType, LogIsLate
<1>3. /\ sends' \in Seq(SendRow) /\ Len(sends') = Len(sends)
      /\ \A j \in DOMAIN sends :
           /\ sends'[j].contact = sends[j].contact /\ sends'[j].batch = sends[j].batch /\ sends'[j].beside = sends[j].beside
           /\ sends'[j].state = IF j = i THEN "cancelled" ELSE sends[j].state
  <2> DEFINE st == "cancelled"
  <2>1. st \in Reach!Active \cup {"done", "failed", "cancelled"} /\ sends' = [sends EXCEPT ![i].state = st]
        /\ sends \in Seq(SendRow)
    BY <1>1, <1>2
  <2> HIDE DEF st
  <2>2. /\ sends' \in Seq(SendRow) /\ Len(sends') = Len(sends)
        /\ \A j \in DOMAIN sends : /\ sends'[j].contact = sends[j].contact /\ sends'[j].batch = sends[j].batch /\ sends'[j].beside = sends[j].beside
                                   /\ sends'[j].state = IF j = i THEN st ELSE sends[j].state
    BY <2>1, StateWritten
  <2> QED BY <2>2 DEF st
<1> QED
  BY <1>1, <1>2, <1>3, RestatedSends DEF Reach!Active

LEMMA CrashReach == ASSUME ReachInv, Reach!Crash PROVE ReachInv'
<1> DEFINE Failed(i) == IF i = lane.op THEN [sends[i] EXCEPT !.state = "failed"] ELSE sends[i]
<1>1. /\ request' = [t \in Threads |-> Reach!Quiet] /\ lane' = [op |-> 0, at |-> "none"]
      /\ sends' = [i \in DOMAIN sends |-> Failed(i)]
      /\ UNCHANGED <<log, tried, card, clicks>>
  BY DEF Reach!Crash, Reach!None
<1>2. /\ tried \subseteq DOMAIN sends
      /\ DOMAIN sends = 1 .. Len(sends) /\ Len(sends) \in Nat
      /\ \A j \in DOMAIN sends : sends[j] \in SendRow /\ (sends[j].state = "running" <=> lane.op = j)
      /\ \A j \in DOMAIN sends : log[j] # "none" => sends[j].state # "queued"
  BY SendsAre DEF ReachInv, ReachType, LogIsLate
<1>3. \A i \in DOMAIN sends : /\ Failed(i) \in SendRow
                              /\ Failed(i).contact = sends[i].contact /\ Failed(i).batch = sends[i].batch /\ Failed(i).beside = sends[i].beside
                              /\ Failed(i).state = IF i = lane.op THEN "failed" ELSE sends[i].state
  BY <1>2 DEF SendRow
<1> HIDE DEF Failed
<1>4. sends' \in [1 .. Len(sends) -> SendRow] /\ \A i \in DOMAIN sends : sends'[i] = Failed(i)
  BY <1>1, <1>2, <1>3
<1>5. sends' \in Seq(SendRow) /\ Len(sends') = Len(sends)
  BY <1>2, <1>4, SeqDef
<1>6. /\ request' \in [Threads -> ReqRow] /\ \A t \in Threads : request'[t].todo = {}
      /\ lane' \in LaneRow /\ lane'.op = 0 /\ lane'.at = "none"
  BY <1>1, OutreachAssumption DEF ReqRow, LaneRow, Reach!Quiet
<1> QED
  BY <1>1, <1>2, <1>3, <1>4, <1>5, <1>6, RestatedSends DEF Reach!Active

(* The last row of a batch is written by a send that no other is behind.      *)
LEMMA RecordReach == ASSUME ReachInv, Reach!Record PROVE ReachInv'
<1>1. PICK what \in {"sent", "failed"}, stage \in {"recorded", "blamed"} :
        log' = [log EXCEPT ![lane.op] = what] /\ lane' = [lane EXCEPT !.at = stage]
  BY DEF Reach!Record, Reach!Logged
<1>2. /\ lane.at \in {"sent", "unsent", "raised"} /\ UNCHANGED <<request, sends, tried, clicks>>
      /\ card' = Reach!Moved(lane.op, log')
  BY DEF Reach!Record
<1>3. /\ ReachType /\ LogIsLate /\ BatchHasMoved /\ ClickHasSeen /\ ClicksAreBeside /\ Reach!OnlyOverlapDoubles
      /\ lane \in LaneRow /\ lane.op \in DOMAIN sends /\ lane.op # 0
      /\ DOMAIN sends = 1 .. Len(sends) /\ log \in Seq(LogRow) /\ Len(log) = Len(sends)
      /\ card \in {"saved", "seeking_referral"}
  BY <1>2, SendsAre DEF ReachInv, ReachType
<1>4. lane' \in LaneRow /\ lane'.op = lane.op /\ lane'.at = stage
  BY <1>1, <1>3 DEF LaneRow
<1>5. /\ log' \in Seq(LogRow) /\ Len(log') = Len(sends)
      /\ \A i \in DOMAIN sends : log'[i] = IF i = lane.op THEN what ELSE log[i]
  BY <1>1, <1>3, ExceptSeq DEF LogRow
<1>6. card' \in {card, "seeking_referral"}
  BY <1>2 DEF Reach!Moved
<1>7. ReachType'
  BY <1>1, <1>2, <1>3, <1>4, <1>5, <1>6 DEF ReachType
<1>8. LogIsLate'
  <2>1. sends[lane.op].state = "running"
    BY <1>3 DEF ReachType
  <2> QED BY <1>1, <1>2, <1>3, <1>4, <1>5, <2>1 DEF LogIsLate
<1>9. BatchHasMoved'
  <2> SUFFICES ASSUME NEW i \in DOMAIN sends, log'[i] = "sent",
                      \A j \in DOMAIN sends : sends[j].batch = sends[i].batch => log'[j] # "none"
               PROVE  card' = "seeking_referral"
    BY <1>2 DEF BatchHasMoved
  <2>1. CASE sends[lane.op].batch = sends[i].batch
    <3>1. \A j \in DOMAIN sends \ {lane.op} : sends[j].batch = sends[i].batch => log[j] # "none"
      BY <1>5
    <3>2. \A j \in DOMAIN sends \ {lane.op} : sends[j].state # "running"
      BY <1>3 DEF ReachType
    <3>3. Reach!Settled(lane.op)
      BY <1>3, <2>1, <3>1, <3>2 DEF Reach!Settled, LogIsLate, Reach!Active
    <3> QED BY <1>2, <2>1, <3>3 DEF Reach!Moved
  <2>2. CASE sends[lane.op].batch # sends[i].batch
    <3>1. log[i] = "sent" /\ \A j \in DOMAIN sends : sends[j].batch = sends[i].batch => log[j] # "none"
      BY <1>5, <2>2
    <3>2. card = "seeking_referral"
      BY <1>3, <3>1 DEF BatchHasMoved
    <3> QED BY <1>6, <3>2
  <2> QED BY <2>1, <2>2
<1>10. ClickHasSeen' /\ ClicksAreBeside' /\ Reach!OnlyOverlapDoubles'
  BY <1>2, <1>3 DEF ClickHasSeen, ClicksAreBeside, Reach!OnlyOverlapDoubles, Reach!UnderWay
<1> QED
  BY <1>7, <1>8, <1>9, <1>10 DEF ReachInv

LEMMA ReachStep ==
  ASSUME ReachInv, [Reach!Next]_(Reach!vars) PROVE ReachInv'
<1>1. CASE UNCHANGED Reach!vars
  BY <1>1 DEF Reach!vars, ReachInv, ReachType, LogIsLate, BatchHasMoved, ClickHasSeen, ClicksAreBeside, Reach!OnlyOverlapDoubles, Reach!UnderWay
<1>2. ASSUME NEW u \in Threads, NEW picked \in SUBSET Contacts, Reach!Click(u, picked) PROVE ReachInv'
  BY <1>2, ClickReach
<1>3. ASSUME NEW u \in Threads, NEW c \in Contacts, Reach!Submit(u, c) PROVE ReachInv'
  BY <1>3, SubmitReach
<1>4. ASSUME NEW i \in DOMAIN sends, Reach!Cancel(i) PROVE ReachInv'
  BY <1>4, CancelReach
<1> QED
  BY <1>1, <1>2, <1>3, <1>4, DispatchReach, DriveReach, RecordReach, FinishReach, CrashReach DEF Reach!Next

LEMMA ReachTells == ReachInv => BatchIsAccounted
<1> SUFFICES ASSUME ReachInv PROVE BatchIsAccounted
  OBVIOUS
<1>1. Reach!TypeOK
  BY SendsAre DEF ReachInv, ReachType, Reach!TypeOK, SendRow, LogRow, LaneRow, ReqRow, Reach!None
<1>2. Reach!LoggedBatchMoves
  BY DEF ReachInv, BatchHasMoved, Reach!LoggedBatchMoves
<1> QED
  BY <1>1, <1>2 DEF ReachInv, BatchIsAccounted

(* On however many threads the requests run, whatever is picked, fails, is     *)
(* cancelled or dies: a contact has two sends under way only by two requests  *)
(* that overlapped, and the card has moved once the logged batch is over       *)
(* (reach_out, _maybe_move_on_batch_settle).                                  *)
THEOREM BatchesAreAccounted == Reach!Spec => []BatchIsAccounted
<1>1. ReachInv /\ [Reach!Next]_(Reach!vars) => ReachInv'
  BY ReachStep
<1> QED
  BY <1>1, ReachInit, ReachTells, PTL DEF Reach!Spec

-----------------------------------------------------------------------------
(* The contact board (ContactSync).                                          *)

CardRow == [status : Board!Status, manual : BOOLEAN, replied : BOOLEAN, first : BOOLEAN, urn : BOOLEAN]
Lasts   == {"none", "me", "them"}
LinkRow == [degree : BOOLEAN, last : Lasts]

(* The type, with what a sweep has read of each of its contacts.             *)
BoardType ==
  /\ row \in [Card -> CardRow] /\ link \in [Card -> LinkRow]
  /\ sweep = [pc |-> sweep.pc, snap |-> sweep.snap, inbox |-> sweep.inbox, answer |-> sweep.answer]
  /\ sweep.pc \in {"idle", "probing", "applying"}
  /\ DOMAIN sweep.snap \subseteq Card /\ DOMAIN sweep.answer \subseteq DOMAIN sweep.snap
  /\ \A c \in DOMAIN sweep.snap : sweep.snap[c].status \in Board!Synced /\ sweep.snap[c].thread \in BOOLEAN
  /\ \A c \in DOMAIN sweep.answer : sweep.answer[c] \in [ok : BOOLEAN, urn : BOOLEAN, last : Lasts, degree : BOOLEAN]
  /\ sweep.inbox = Board!Unread \/ sweep.inbox \in [Card -> Lasts]
  /\ sweep.pc = "idle" => DOMAIN sweep.snap = {}
  /\ sweep.pc = "applying" => DOMAIN sweep.answer = DOMAIN sweep.snap
  /\ sending \in [to : Card \cup {Board!Null}, dm : BOOLEAN, out : BOOLEAN]
  /\ sending # Board!Unsent => sending.to \in Card
  /\ quiet \subseteq Card /\ held \subseteq Card

(* Only who is connected to us has a thread with us.                         *)
ThreadsAreOfFriends ==
  /\ \A c \in Card : row[c].first \/ link[c].last # "none" => link[c].degree
  /\ sending.dm => link[sending.to].degree
  /\ \A c \in DOMAIN sweep.answer : sweep.answer[c].degree => link[c].degree

(* What the sweep has decided from is still so: that a contact had replied,    *)
(* that a held one is only shown, and of a quiet one all it has read.         *)
SweepIsFresh ==
  /\ \A c \in DOMAIN sweep.snap :
       /\ sweep.snap[c].replied = row[c].replied
       /\ c \in held => sweep.snap[c].show
       /\ sweep.snap[c].thread => sweep.snap[c].status # "sent"
       /\ c \in quiet => sweep.snap[c].status = row[c].status
  /\ sweep.inbox = Board!Unread \/ \A c \in quiet : sweep.inbox[c] = link[c].last
  /\ \A c \in DOMAIN sweep.answer : c \in quiet =>
       sweep.answer[c].last \in {link[c].last, "none"} /\ sweep.answer[c].degree = link[c].degree

BoardInv == BoardType /\ ThreadsAreOfFriends /\ SweepIsFresh

LEMMA BoardInit == Board!Init => BoardInv
<1> SUFFICES ASSUME Board!Init PROVE BoardInv
  OBVIOUS
<1>1. row \in [Card -> CardRow] /\ link \in [Card -> LinkRow]
  BY DEF Board!Init, CardRow, LinkRow, Lasts, Board!Status
<1>2. sweep = Board!Resting /\ sending = Board!Unsent /\ quiet = {} /\ held = {}
  BY DEF Board!Init
<1>3. BoardType
  BY <1>1, <1>2 DEF BoardType, Board!Resting, Board!Unread, Board!Unsent, Board!Null
<1>4. ThreadsAreOfFriends
  BY DEF Board!Init, ThreadsAreOfFriends, Board!Unsent, Board!Resting
<1>5. SweepIsFresh
  BY <1>2 DEF SweepIsFresh, Board!Resting, Board!Unread
<1> QED
  BY <1>3, <1>4, <1>5 DEF BoardInv

LEMMA PartitionBoard == ASSUME BoardInv, Board!Partition PROVE BoardInv'
<1>1. PICK batch \in SUBSET Card :
        /\ batch = {c \in Card : Board!Eligible(row[c])}
        /\ sweep' = [pc |-> "probing", inbox |-> Board!Unread, answer |-> <<>>,
                     snap |-> [c \in batch |-> [status |-> row[c].status, replied |-> row[c].replied,
                                                thread |-> Board!ThreadOnly(row[c]), show |-> Board!DisplayOnly(row[c])]]]
  BY DEF Board!Partition
<1>2. held' = {c \in Card : row[c].manual} /\ quiet' = Card /\ UNCHANGED <<row, link, sending, mover>>
  BY DEF Board!Partition
<1>6. ASSUME NEW c \in DOMAIN sweep'.snap
      PROVE  /\ sweep'.snap[c].status \in Board!Synced /\ sweep'.snap[c].thread \in BOOLEAN
             /\ c \in Card
  <2>1. c \in Card /\ Board!Eligible(row[c])
    BY <1>1
  <2>2. sweep'.snap[c].status = row[c].status /\ sweep'.snap[c].thread = Board!ThreadOnly(row[c])
    BY <1>1
  <2> QED BY <2>1, <2>2 DEF Board!Eligible, Board!ThreadOnly
<1>3. BoardType'
  <2>1. sweep' = [pc |-> sweep'.pc, snap |-> sweep'.snap, inbox |-> sweep'.inbox, answer |-> sweep'.answer]
        /\ sweep'.pc = "probing" /\ sweep'.inbox = Board!Unread /\ DOMAIN sweep'.answer = {}
    BY <1>1
  <2> QED BY <1>2, <1>6, <2>1 DEF BoardInv, BoardType
<1>4. ThreadsAreOfFriends'
  BY <1>1, <1>2 DEF BoardInv, ThreadsAreOfFriends
<1>5. SweepIsFresh'
  <2>1. ASSUME NEW c \in DOMAIN sweep'.snap
        PROVE  /\ sweep'.snap[c].replied = row[c].replied /\ sweep'.snap[c].status = row[c].status
               /\ sweep'.snap[c].show = row[c].manual /\ sweep'.snap[c].thread = Board!ThreadOnly(row[c])
    BY <1>1 DEF Board!DisplayOnly
  <2>2. \A c \in Card : Board!ThreadOnly(row[c]) => row[c].status # "sent"
    BY DEF Board!ThreadOnly, Board!Engaged
  <2>3. DOMAIN sweep'.snap \subseteq Card /\ sweep'.inbox = Board!Unread /\ DOMAIN sweep'.answer = {}
    BY <1>1
  <2> QED BY <1>2, <2>1, <2>2, <2>3 DEF SweepIsFresh
<1> QED
  BY <1>3, <1>4, <1>5 DEF BoardInv

LEMMA ProbeBoard == ASSUME BoardInv, NEW c \in Card, Board!Probe(c) PROVE BoardInv'
<1> DEFINE box == IF sweep.inbox = Board!Unread THEN [d \in Card |-> link[d].last] ELSE sweep.inbox
           kept(read) == IF read THEN box ELSE sweep.inbox
           Heard(ok, urn, read, last) ==
             [sweep EXCEPT !.inbox = IF read THEN box ELSE @,
                           !.answer = [d \in DOMAIN @ \cup {c} |->
                             IF d = c THEN [ok |-> ok, urn |-> urn, last |-> last, degree |-> link[c].degree]
                             ELSE @[d]]]
<1>1. PICK ok \in BOOLEAN, urn \in BOOLEAN, read \in BOOLEAN, last \in {box[c], "none"} :
        sweep' = Heard(ok, urn, read, last)
  <2>1. \E ok, urn, read \in BOOLEAN, last \in {box[c], "none"} :
          /\ (sweep.snap[c].thread => urn) /\ (read => urn) /\ (~read => last = "none")
          /\ sweep' = Heard(ok, urn, read, last)
    BY DEF Board!Probe
  <2> HIDE DEF box, Heard
  <2> QED BY <2>1
<1>2. UNCHANGED <<row, link, sending, mover, held, quiet>> /\ sweep.pc = "probing"
      /\ c \in DOMAIN sweep.snap /\ c \notin DOMAIN sweep.answer
  BY DEF Board!Probe, Board!Unprobed
<1> DEFINE got == [ok |-> ok, urn |-> urn, last |-> last, degree |-> link[c].degree]
           all == [d \in DOMAIN sweep.answer \cup {c} |-> IF d = c THEN got ELSE sweep.answer[d]]
<1>3. /\ DOMAIN all = {c} \cup DOMAIN sweep.answer
      /\ all[c] = got /\ \A d \in DOMAIN sweep.answer : all[d] = sweep.answer[d]
  BY <1>2
<1>4. sweep' = [pc |-> "probing", snap |-> sweep.snap, inbox |-> kept(read), answer |-> all]
  BY <1>1, <1>2 DEF BoardInv, BoardType
<1> HIDE DEF all
<1>5. BoardType'
  <2>1. box \in [Card -> Lasts] /\ link[c].degree \in BOOLEAN
    BY DEF BoardInv, BoardType, LinkRow
  <2>2. got \in [ok : BOOLEAN, urn : BOOLEAN, last : Lasts, degree : BOOLEAN]
    BY <2>1 DEF Lasts
  <2>3. kept(read) = Board!Unread \/ kept(read) \in [Card -> Lasts]
    BY <2>1 DEF BoardInv, BoardType
  <2> HIDE DEF box, kept, got
  <2> QED BY <1>2, <1>3, <1>4, <2>2, <2>3 DEF BoardInv, BoardType
<1>6. ThreadsAreOfFriends'
  BY <1>2, <1>3, <1>4 DEF BoardInv, ThreadsAreOfFriends
<1>7. \A d \in quiet : box[d] = link[d].last
  BY DEF BoardInv, BoardType, SweepIsFresh
<1>8. SweepIsFresh'
  <2>1. kept(read) = Board!Unread \/ \A d \in quiet : kept(read)[d] = link[d].last
    BY <1>7 DEF BoardInv, SweepIsFresh
  <2>2. c \in quiet => last \in {link[c].last, "none"}
    BY <1>7
  <2> HIDE DEF box, kept
  <2> QED BY <1>2, <1>3, <1>4, <2>1, <2>2 DEF BoardInv, SweepIsFresh
<1> QED
  BY <1>5, <1>6, <1>8 DEF BoardInv

LEMMA ProbedBoard == ASSUME BoardInv, Board!Probed PROVE BoardInv'
<1>1. /\ sweep' = [pc |-> "applying", snap |-> [c \in DOMAIN sweep.answer |-> sweep.snap[c]],
                   inbox |-> sweep.inbox, answer |-> sweep.answer]
      /\ UNCHANGED <<row, link, sending, mover, held, quiet>>
  BY DEF Board!Probed, BoardInv, BoardType
<1>2. BoardType'
  BY <1>1 DEF BoardInv, BoardType
<1>3. ThreadsAreOfFriends' /\ SweepIsFresh'
  BY <1>1 DEF BoardInv, BoardType, ThreadsAreOfFriends, SweepIsFresh
<1> QED
  BY <1>2, <1>3 DEF BoardInv

LEMMA DecidedColumn ==
  ASSUME NEW now \in Board!Synced, NEW first, NEW last, NEW replied, NEW aged
  PROVE  Board!Decided(now, first, last, replied, aged) \in Board!Column
BY DEF Board!Decided, Board!Synced, Board!Column

(* What a sweep writes about one contact: `to` is the column it decided on.   *)
LEMMA ApplyWrites ==
  ASSUME BoardInv, NEW c \in Card, Board!Apply(c)
  PROVE  /\ c \in DOMAIN sweep.snap /\ c \in DOMAIN sweep.answer /\ sweep.pc = "applying"
         /\ DOMAIN sweep.answer = DOMAIN sweep.snap
         /\ row' \in [Card -> CardRow] /\ \A d \in Card \ {c} : row'[d] = row[d]
         /\ row'[c].first => row[c].first \/ sweep.answer[c].degree
         /\ \E aged \in BOOLEAN, to \in Board!Column, moved \in BOOLEAN :
              LET s == sweep.snap[c]
                  a == sweep.answer[c]
              IN /\ to = IF s.show THEN s.status
                         ELSE Board!Decided(s.status, ~s.thread /\ a.degree, a.last, s.replied, aged)
                 /\ moved = (a.ok /\ to # s.status)
                 /\ row'[c].status = IF moved THEN to ELSE row[c].status
                 /\ row'[c].replied = (row[c].replied \/ (moved /\ to = "ours"))
                 /\ mover' = IF moved THEN [mover EXCEPT ![c] = "sync"] ELSE mover
<1> DEFINE s == sweep.snap[c]
           a == sweep.answer[c]
           To(aged) == IF s.show THEN s.status
                       ELSE Board!Decided(s.status, ~s.thread /\ a.degree, a.last, s.replied, aged)
           Moved(aged) == a.ok /\ To(aged) # s.status
           New(aged) == IF ~a.ok THEN row[c]
                        ELSE [status  |-> IF Moved(aged) THEN To(aged) ELSE row[c].status,
                              manual  |-> IF Moved(aged) THEN FALSE ELSE row[c].manual,
                              replied |-> row[c].replied \/ (Moved(aged) /\ To(aged) = "ours"),
                              first   |-> IF s.thread THEN row[c].first ELSE a.degree,
                              urn     |-> row[c].urn \/ a.urn]
<1>1. PICK aged \in BOOLEAN :
        /\ row' = [row EXCEPT ![c] = New(aged)]
        /\ mover' = IF Moved(aged) THEN [mover EXCEPT ![c] = "sync"] ELSE mover
  BY DEF Board!Apply
<1>2. c \in DOMAIN sweep.snap /\ c \in DOMAIN sweep.answer /\ sweep.pc = "applying"
      /\ DOMAIN sweep.answer = DOMAIN sweep.snap
  BY DEF Board!Apply, BoardInv, BoardType
<1>3. /\ row \in [Card -> CardRow] /\ row[c] \in CardRow /\ s.status \in Board!Synced /\ s.thread \in BOOLEAN
      /\ a.ok \in BOOLEAN /\ a.urn \in BOOLEAN /\ a.degree \in BOOLEAN
  BY <1>2 DEF BoardInv, BoardType
<1>4. To(aged) \in Board!Column
  BY <1>3, DecidedColumn DEF Board!Column
<1>5. Moved(aged) \in BOOLEAN
  OBVIOUS
<1> HIDE DEF To, Moved
<1>6. New(aged) \in CardRow
  BY <1>3, <1>4, <1>5 DEF CardRow, Board!Status
<1>7. /\ New(aged).status = IF Moved(aged) THEN To(aged) ELSE row[c].status
      /\ New(aged).replied = (row[c].replied \/ (Moved(aged) /\ To(aged) = "ours"))
      /\ New(aged).first => row[c].first \/ a.degree
  BY <1>3 DEF Moved, CardRow
<1> HIDE DEF New
<1>8. row'[c] = New(aged) /\ row' \in [Card -> CardRow] /\ \A d \in Card \ {c} : row'[d] = row[d]
  BY <1>1, <1>3, <1>6
<1>9. /\ To(aged) = IF s.show THEN s.status
                    ELSE Board!Decided(s.status, ~s.thread /\ a.degree, a.last, s.replied, aged)
      /\ Moved(aged) = (a.ok /\ To(aged) # s.status)
  BY DEF To, Moved
<1>10. \E to \in Board!Column, moved \in BOOLEAN :
         /\ to = IF s.show THEN s.status
                 ELSE Board!Decided(s.status, ~s.thread /\ a.degree, a.last, s.replied, aged)
         /\ moved = (a.ok /\ to # s.status)
         /\ row'[c].status = IF moved THEN to ELSE row[c].status
         /\ row'[c].replied = (row[c].replied \/ (moved /\ to = "ours"))
         /\ mover' = IF moved THEN [mover EXCEPT ![c] = "sync"] ELSE mover
  <2> WITNESS To(aged) \in Board!Column, Moved(aged) \in BOOLEAN
  <2>1. /\ row'[c].status = IF Moved(aged) THEN To(aged) ELSE row[c].status
        /\ row'[c].replied = (row[c].replied \/ (Moved(aged) /\ To(aged) = "ours"))
    BY <1>7, <1>8
  <2> QED BY <1>1, <1>9, <2>1
<1>11. row'[c].first => row[c].first \/ a.degree
  BY <1>7, <1>8
<1> QED
  BY <1>2, <1>8, <1>10, <1>11

LEMMA ApplyBoard == ASSUME BoardInv, NEW c \in Card, Board!Apply(c) PROVE BoardInv'
<1> DEFINE rest == DOMAIN sweep.snap \ {c}
<1>1. /\ UNCHANGED <<link, sending, held, quiet>> /\ sweep.pc = "applying"
      /\ sweep' = IF rest = {} THEN Board!Resting
                  ELSE [sweep EXCEPT !.snap = [d \in rest |-> sweep.snap[d]],
                                     !.answer = [d \in rest |-> sweep.answer[d]]]
  BY DEF Board!Apply
<1>2. /\ c \in DOMAIN sweep.snap /\ c \in DOMAIN sweep.answer /\ DOMAIN sweep.answer = DOMAIN sweep.snap
      /\ DOMAIN sweep.snap \subseteq Card /\ sweep.snap[c].status \in Board!Synced
      /\ sweep.snap[c].thread => sweep.snap[c].status # "sent"
  BY <1>1, ApplyWrites DEF BoardInv, BoardType, SweepIsFresh
<1>3. sweep' = Board!Resting
      \/ sweep' = [pc |-> "applying", snap |-> [d \in rest |-> sweep.snap[d]], inbox |-> sweep.inbox,
                   answer |-> [d \in rest |-> sweep.answer[d]]]
  BY <1>1 DEF BoardInv, BoardType
<1>4. /\ \A d \in DOMAIN sweep'.snap :
           d \in rest /\ sweep'.snap[d] = sweep.snap[d] /\ sweep'.answer[d] = sweep.answer[d]
      /\ DOMAIN sweep'.answer = DOMAIN sweep'.snap
      /\ sweep'.inbox = Board!Unread \/ sweep'.inbox = sweep.inbox
      /\ sweep' = [pc |-> sweep'.pc, snap |-> sweep'.snap, inbox |-> sweep'.inbox, answer |-> sweep'.answer]
      /\ sweep'.pc \in {"idle", "applying"} /\ (sweep'.pc = "idle" => DOMAIN sweep'.snap = {})
  BY <1>3 DEF Board!Resting, Board!Unread
<1>5. row' \in [Card -> CardRow] /\ (row'[c].first => row[c].first \/ sweep.answer[c].degree)
  BY ApplyWrites
<1>6. BoardType'
  BY <1>1, <1>2, <1>4, <1>5 DEF BoardInv, BoardType
<1>8. ThreadsAreOfFriends'
  <2>1. \A d \in Card : row'[d].first => row[d].first \/ (d = c /\ sweep.answer[c].degree)
    BY <1>5, ApplyWrites
  <2> QED BY <1>1, <1>2, <1>4, <2>1 DEF BoardInv, ThreadsAreOfFriends
<1>7. SweepIsFresh'
  <2>1. \A d \in DOMAIN sweep'.snap : row'[d] = row[d]
    BY <1>2, <1>4, ApplyWrites
  <2>2. \A d \in DOMAIN sweep'.snap : d \in DOMAIN sweep.snap /\ sweep'.snap[d] = sweep.snap[d]
                                     /\ d \in DOMAIN sweep.answer /\ sweep'.answer[d] = sweep.answer[d]
    BY <1>2, <1>4
  <2>3. ASSUME NEW d \in DOMAIN sweep'.snap
        PROVE
          /\ sweep'.snap[d].replied = row'[d].replied
          /\ d \in held' => sweep'.snap[d].show
          /\ sweep'.snap[d].thread => sweep'.snap[d].status # "sent"
          /\ d \in quiet' => sweep'.snap[d].status = row'[d].status
    <3>1. /\ sweep.snap[d].replied = row[d].replied
          /\ d \in held => sweep.snap[d].show
          /\ sweep.snap[d].thread => sweep.snap[d].status # "sent"
          /\ d \in quiet => sweep.snap[d].status = row[d].status
      BY <2>2 DEF BoardInv, SweepIsFresh
    <3> QED BY <1>1, <2>1, <2>2, <3>1
  <2>4. ASSUME NEW d \in DOMAIN sweep'.answer, d \in quiet'
        PROVE  sweep'.answer[d].last \in {link'[d].last, "none"} /\ sweep'.answer[d].degree = link'[d].degree
    <3>1. d \in DOMAIN sweep.answer /\ d \in quiet /\ sweep'.answer[d] = sweep.answer[d]
      BY <1>1, <1>4, <2>2, <2>4
    <3>2. sweep.answer[d].last \in {link[d].last, "none"} /\ sweep.answer[d].degree = link[d].degree
      BY <3>1 DEF BoardInv, SweepIsFresh
    <3> QED BY <1>1, <3>1, <3>2
  <2>5. sweep'.inbox = Board!Unread \/ \A d \in quiet' : sweep'.inbox[d] = link'[d].last
    BY <1>1, <1>4 DEF BoardInv, SweepIsFresh
  <2> QED BY <2>3, <2>4, <2>5 DEF SweepIsFresh
<1> QED
  BY <1>6, <1>7, <1>8 DEF BoardInv

LEMMA StoppedBoard == ASSUME BoardInv, Board!Stopped PROVE BoardInv'
<1>1. /\ sweep' = Board!Resting /\ UNCHANGED <<row, link, sending, mover, held, quiet>>
  BY DEF Board!Stopped
<1>2. BoardType'
  BY <1>1 DEF BoardInv, BoardType, Board!Resting, Board!Unread
<1>3. ThreadsAreOfFriends' /\ SweepIsFresh'
  BY <1>1 DEF BoardInv, ThreadsAreOfFriends, SweepIsFresh, Board!Resting, Board!Unread
<1> QED
  BY <1>2, <1>3 DEF BoardInv

(* What else happens to a contact leaves the sweep alone, and the contact is   *)
(* quiet no more; nothing of the row but its column and stamp is written.     *)
LEMMA CrossingKeeps ==
  ASSUME BoardInv, NEW c \in Card, UNCHANGED sweep,
         row' \in [Card -> CardRow], link' \in [Card -> LinkRow],
         sending' \in [to : Card \cup {Board!Null}, dm : BOOLEAN, out : BOOLEAN],
         sending' # Board!Unsent => sending'.to \in Card,
         held' \subseteq held, quiet' = quiet \ {c},
         \A d \in Card \ {c} : row'[d] = row[d] /\ link'[d] = link[d],
         row'[c].replied = row[c].replied, row'[c].first = row[c].first,
         \A d \in Card : link[d].degree => link'[d].degree,
         link'[c].last # "none" => link'[c].degree,
         sending'.dm => link'[sending'.to].degree
  PROVE  BoardInv'
<1>1. BoardType'
  BY DEF BoardInv, BoardType
<1>2. ThreadsAreOfFriends'
  <2>1. ASSUME NEW d \in Card, row'[d].first \/ link'[d].last # "none" PROVE link'[d].degree
    BY <2>1 DEF BoardInv, ThreadsAreOfFriends
  <2>2. \A d \in DOMAIN sweep.answer : d \in Card
    BY DEF BoardInv, BoardType
  <2> QED BY <2>1, <2>2 DEF BoardInv, ThreadsAreOfFriends
<1>3. SweepIsFresh'
  <2>1. DOMAIN sweep.snap \subseteq Card /\ DOMAIN sweep.answer \subseteq Card /\ quiet \subseteq Card
    BY DEF BoardInv, BoardType
  <2>2. \A d \in Card : row'[d].replied = row[d].replied
    OBVIOUS
  <2>3. \A d \in quiet' : d \in quiet /\ row'[d] = row[d] /\ link'[d] = link[d]
    BY <2>1
  <2>4. SweepIsFresh
    BY DEF BoardInv
  <2> QED BY <2>1, <2>2, <2>3, <2>4 DEF SweepIsFresh
<1> QED
  BY <1>1, <1>2, <1>3 DEF BoardInv

LEMMA DraggedRow ==
  ASSUME NEW r \in CardRow, NEW to \in Board!Column
  PROVE  LET new == [r EXCEPT !.status = to, !.manual = TRUE]
         IN new \in CardRow /\ new.replied = r.replied /\ new.first = r.first
BY DEF CardRow, Board!Status

LEMMA CrossingBoard ==
  ASSUME BoardInv,
         \/ \E c \in Card : Board!Cooled(c) \/ Board!Outside(c) \/ \E to \in Board!Column : Board!Drag(c, to)
         \/ Board!SendEnds
  PROVE  BoardInv'
<1>1. /\ row \in [Card -> CardRow] /\ link \in [Card -> LinkRow]
      /\ sending \in [to : Card \cup {Board!Null}, dm : BOOLEAN, out : BOOLEAN]
      /\ sending # Board!Unsent => sending.to \in Card
      /\ \A c \in Card : row[c].first \/ link[c].last # "none" => link[c].degree
      /\ sending.dm => link[sending.to].degree
  BY DEF BoardInv, BoardType, ThreadsAreOfFriends
<1>2. ASSUME NEW c \in Card, NEW to \in Board!Column, Board!Drag(c, to) PROVE BoardInv'
  <2>1. /\ row' = [row EXCEPT ![c].status = to, ![c].manual = TRUE]
        /\ quiet' = quiet \ {c} /\ UNCHANGED <<link, sweep, sending, held>>
    BY <1>2 DEF Board!Drag
  <2> DEFINE new == [row[c] EXCEPT !.status = to, !.manual = TRUE]
  <2>2. new \in CardRow /\ new.replied = row[c].replied /\ new.first = row[c].first
    BY <1>1, DraggedRow
  <2>3. row' = [row EXCEPT ![c] = new]
    BY <1>1, <2>1
  <2> HIDE DEF new
  <2>4. row' \in [Card -> CardRow] /\ row'[c] = new /\ \A d \in Card \ {c} : row'[d] = row[d]
    BY <1>1, <2>2, <2>3
  <2> QED BY <1>1, <2>1, <2>2, <2>4, CrossingKeeps
<1>3. ASSUME NEW c \in Card, Board!Cooled(c) PROVE BoardInv'
  <2>1. /\ row' = [row EXCEPT ![c].manual = FALSE]
        /\ held' = held \ {c} /\ quiet' = quiet \ {c} /\ UNCHANGED <<link, sweep, sending>>
    BY <1>3 DEF Board!Cooled
  <2>2. row' \in [Card -> CardRow]
    BY <1>1, <2>1 DEF CardRow
  <2> QED BY <1>1, <2>1, <2>2, CrossingKeeps DEF CardRow
<1>4. ASSUME NEW c \in Card, Board!Outside(c) PROVE BoardInv'
  <2>1. /\ \/ link' = [link EXCEPT ![c].degree = TRUE]
           \/ link[c].degree /\ \E who \in {"me", "them"} : link' = [link EXCEPT ![c].last = who]
        /\ quiet' = quiet \ {c} /\ UNCHANGED <<row, sweep, sending, held>>
    BY <1>4 DEF Board!Outside
  <2>2. PICK new \in LinkRow : /\ link' = [link EXCEPT ![c] = new]
                              /\ new.degree
    <3>1. CASE link' = [link EXCEPT ![c].degree = TRUE]
      <4> DEFINE n == [link[c] EXCEPT !.degree = TRUE]
      <4>1. n \in LinkRow /\ n.degree
        BY <1>1 DEF LinkRow
      <4>2. link' = [link EXCEPT ![c] = n]
        BY <1>1, <3>1
      <4> QED BY <4>1, <4>2
    <3>2. ASSUME link[c].degree, NEW who \in {"me", "them"}, link' = [link EXCEPT ![c].last = who]
          PROVE  \E new \in LinkRow : link' = [link EXCEPT ![c] = new] /\ new.degree
      <4> DEFINE n == [link[c] EXCEPT !.last = who]
      <4>1. n \in LinkRow /\ n.degree
        BY <1>1, <3>2 DEF LinkRow, Lasts
      <4>2. link' = [link EXCEPT ![c] = n]
        BY <1>1, <3>2
      <4> QED BY <4>1, <4>2
    <3> QED BY <2>1, <3>1, <3>2
  <2>3. /\ link' \in [Card -> LinkRow] /\ \A d \in Card \ {c} : link'[d] = link[d]
        /\ link'[c].degree
    BY <1>1, <2>2
  <2>4. sending.dm => sending.to \in Card
    BY <1>1 DEF Board!Unsent
  <2>5. /\ row' = row /\ sending' = sending /\ held' = held /\ quiet' = quiet \ {c} /\ sweep' = sweep
        /\ \A d \in Card : link[d].degree => link'[d].degree
    BY <2>1, <2>3
  <2>6. sending'.dm => link'[sending'.to].degree
    BY <1>1, <2>4, <2>5
  <2> QED BY <1>1, <2>3, <2>5, <2>6, CrossingKeeps
<1>5. CASE Board!SendEnds
  <2> DEFINE c == sending.to
  <2>1. /\ sending.out /\ sending' = Board!Unsent /\ quiet' = quiet \ {c} /\ UNCHANGED <<link, sweep, held>>
        /\ row' = [row EXCEPT ![c].status = IF sending.dm THEN Board!AfterDm(row[c]) ELSE "sent"]
    BY <1>5 DEF Board!SendEnds
  <2>2. c \in Card
    BY <1>1, <2>1 DEF Board!Unsent
  <2>3. row' \in [Card -> CardRow]
    BY <1>1, <2>1, <2>2 DEF CardRow, Board!AfterDm, Board!Status, Board!Column, Board!Synced
  <2>4. sending'.dm = FALSE /\ sending' \in [to : Card \cup {Board!Null}, dm : BOOLEAN, out : BOOLEAN]
    BY <2>1 DEF Board!Unsent
  <2> HIDE DEF c
  <2>5. row'[c].replied = row[c].replied /\ row'[c].first = row[c].first /\ \A d \in Card \ {c} : row'[d] = row[d]
    BY <1>1, <2>1, <2>2 DEF CardRow
  <2> QED BY <1>1, <2>1, <2>2, <2>3, <2>4, <2>5, CrossingKeeps
<1> QED
  BY <1>2, <1>3, <1>4, <1>5

LEMMA SendBoard == ASSUME BoardInv, NEW c \in Card, Board!Send(c) PROVE BoardInv'
<1>1. /\ sending' = [to |-> c, dm |-> row[c].first, out |-> FALSE]
      /\ UNCHANGED <<row, link, sweep, mover, held, quiet>>
  BY DEF Board!Send
<1>2. row[c].first \in BOOLEAN /\ (row[c].first => link[c].degree)
  BY DEF BoardInv, BoardType, CardRow, ThreadsAreOfFriends
<1>3. BoardType'
  BY <1>1, <1>2 DEF BoardInv, BoardType
<1>4. ThreadsAreOfFriends' /\ SweepIsFresh'
  BY <1>1, <1>2 DEF BoardInv, ThreadsAreOfFriends, SweepIsFresh
<1> QED
  BY <1>3, <1>4 DEF BoardInv

LEMMA GoesBoard == ASSUME BoardInv, Board!Goes PROVE BoardInv'
<1>1. /\ row \in [Card -> CardRow] /\ link \in [Card -> LinkRow] /\ sending.to \in Card
      /\ sending \in [to : Card \cup {Board!Null}, dm : BOOLEAN, out : BOOLEAN]
      /\ \A c \in Card : row[c].first \/ link[c].last # "none" => link[c].degree
      /\ sending.dm => link[sending.to].degree
  BY DEF BoardInv, BoardType, ThreadsAreOfFriends, Board!Goes
<1>2. UNCHANGED <<row, sweep, mover, held>>
  BY DEF Board!Goes
<1>3. CASE /\ sending' = [sending EXCEPT !.out = TRUE]
           /\ link' = IF sending.dm THEN [link EXCEPT ![sending.to].last = "me"] ELSE link
           /\ quiet' = quiet \ {sending.to}
  <2>1. /\ sending'.to = sending.to /\ sending'.dm = sending.dm
        /\ sending' \in [to : Card \cup {Board!Null}, dm : BOOLEAN, out : BOOLEAN]
    BY <1>1, <1>3
  <2> DEFINE n == [link[sending.to] EXCEPT !.last = "me"]
  <2>2. n \in LinkRow /\ n.degree = link[sending.to].degree
    BY <1>1 DEF LinkRow, Lasts
  <2>3. link' = link \/ (sending.dm /\ link' = [link EXCEPT ![sending.to] = n])
    BY <1>1, <1>3
  <2> HIDE DEF n
  <2>4. /\ link' \in [Card -> LinkRow] /\ \A d \in Card \ {sending.to} : link'[d] = link[d]
        /\ \A d \in Card : link[d].degree => link'[d].degree
        /\ link'[sending.to].last # "none" => link'[sending.to].degree
    BY <1>1, <2>2, <2>3
  <2> QED BY <1>1, <1>2, <1>3, <2>1, <2>4, CrossingKeeps
<1>4. CASE sending' = Board!Unsent /\ UNCHANGED <<link, quiet>>
  <2>1. BoardType'
    BY <1>2, <1>4 DEF BoardInv, BoardType, Board!Unsent
  <2>2. ThreadsAreOfFriends' /\ SweepIsFresh'
    BY <1>2, <1>4 DEF BoardInv, ThreadsAreOfFriends, SweepIsFresh, Board!Unsent
  <2> QED BY <2>1, <2>2 DEF BoardInv
<1> QED
  BY <1>3, <1>4 DEF Board!Goes

LEMMA BoardStep == BoardInv /\ [Board!Next]_(Board!vars) => BoardInv'
<1> SUFFICES ASSUME BoardInv, [Board!Next]_(Board!vars) PROVE BoardInv'
  OBVIOUS
<1>1. CASE UNCHANGED Board!vars
  BY <1>1 DEF Board!vars, BoardInv, BoardType, ThreadsAreOfFriends, SweepIsFresh
<1>2. CASE Board!Partition \/ Board!Probed \/ Board!Stopped
  BY <1>2, PartitionBoard, ProbedBoard, StoppedBoard
<1>3. ASSUME NEW c \in Card, Board!Probe(c) \/ Board!Apply(c) PROVE BoardInv'
  BY <1>3, ProbeBoard, ApplyBoard
<1>4. CASE \/ \E c \in Card : Board!Cooled(c) \/ Board!Outside(c) \/ \E to \in Board!Column : Board!Drag(c, to)
           \/ Board!SendEnds
  BY <1>4, CrossingBoard
<1>5. CASE Board!Goes \/ \E c \in Card : Board!Send(c)
  BY <1>5, GoesBoard, SendBoard
<1> QED
  BY <1>1, <1>2, <1>3, <1>4, <1>5 DEF Board!Next

(* What BoardKept says of one step.                                          *)
LEMMA RepliesSeen ==
  ASSUME BoardInv, [Board!Next]_(Board!vars), NEW c \in quiet, Board!Written(c), Board!Read(c)
  PROVE  /\ link[c].last = "them" => row'[c].status = "ours"
         /\ link[c].last = "me" => row'[c].status # "ours"
<1>1. c \in Card /\ c \in DOMAIN sweep.snap /\ sweep.answer[c].ok /\ ~sweep.snap[c].show
      /\ sweep.pc = "applying" /\ c \notin DOMAIN sweep'.snap /\ c \in DOMAIN sweep.answer
  BY DEF Board!Written, BoardInv, BoardType
<1>2. Board!Apply(c)
  <2>1. ~(UNCHANGED sweep)
    BY <1>1
  <2>2. ~Board!Partition /\ ~Board!Probed /\ ~Board!Stopped /\ \A d \in Card : ~Board!Probe(d)
    BY <1>1 DEF Board!Partition, Board!Probed, Board!Stopped, Board!Probe
  <2>3. \A d \in Card : Board!Apply(d) => d = c
    <3> SUFFICES ASSUME NEW d \in Card, Board!Apply(d), d # c PROVE FALSE
      OBVIOUS
    <3>1. sweep' = [sweep EXCEPT !.snap = [e \in DOMAIN sweep.snap \ {d} |-> sweep.snap[e]],
                                 !.answer = [e \in DOMAIN sweep.snap \ {d} |-> sweep.answer[e]]]
      BY <1>1 DEF Board!Apply
    <3>2. sweep'.snap = [e \in DOMAIN sweep.snap \ {d} |-> sweep.snap[e]]
      BY <3>1 DEF BoardInv, BoardType
    <3> QED BY <1>1, <3>2
  <2>4. /\ \A d \in Card : Board!Cooled(d) \/ Board!Send(d) \/ Board!Outside(d) => UNCHANGED sweep
        /\ \A d \in Card, to \in Board!Column : Board!Drag(d, to) => UNCHANGED sweep
        /\ Board!Goes \/ Board!SendEnds => UNCHANGED sweep
    BY DEF Board!Cooled, Board!Send, Board!Outside, Board!Drag, Board!Goes, Board!SendEnds
  <2> QED BY <2>1, <2>2, <2>3, <2>4 DEF Board!Next, Board!vars
<1>3. PICK aged \in BOOLEAN, to \in Board!Column, moved \in BOOLEAN :
        LET s == sweep.snap[c]
            a == sweep.answer[c]
        IN /\ to = IF s.show THEN s.status
                   ELSE Board!Decided(s.status, ~s.thread /\ a.degree, a.last, s.replied, aged)
           /\ moved = (a.ok /\ to # s.status)
           /\ row'[c].status = IF moved THEN to ELSE row[c].status
  BY <1>1, <1>2, ApplyWrites
<1> DEFINE s == sweep.snap[c]
           a == sweep.answer[c]
<1>4. /\ s.status = row[c].status /\ s.status \in Board!Synced /\ a.last = link[c].last
      /\ a.degree = link[c].degree /\ (s.thread => s.status # "sent") /\ (link[c].last # "none" => link[c].degree)
      /\ s.thread \in BOOLEAN /\ a.degree \in BOOLEAN
  BY <1>1 DEF BoardInv, BoardType, SweepIsFresh, ThreadsAreOfFriends, Board!Read, LinkRow
<1>5. row'[c].status = Board!Decided(s.status, ~s.thread /\ a.degree, a.last, s.replied, aged)
  BY <1>1, <1>3, <1>4
<1>6. s.status = "sent" /\ link[c].last # "none" => ~s.thread /\ a.degree
  BY <1>4
<1> HIDE DEF s, a
<1> QED
  BY <1>4, <1>5, <1>6 DEF Board!Decided, Board!Synced

(* The history of who moved a contact last.                                  *)
Movers == {"user", "sync", "send", "none"}

LEMMA MoverStep ==
  ASSUME BoardInv, mover \in [Card -> Movers], [Board!Next]_(Board!vars)
  PROVE  mover' \in [Card -> Movers]
<1>1. CASE UNCHANGED mover
  BY <1>1
<1>2. ASSUME NEW c \in Card, Board!Apply(c) PROVE mover' \in [Card -> Movers]
  BY <1>2, ApplyWrites DEF Movers
<1>3. ASSUME NEW c \in Card, NEW to \in Board!Column, Board!Drag(c, to) PROVE mover' \in [Card -> Movers]
  BY <1>3 DEF Board!Drag, Movers
<1>4. CASE Board!SendEnds
  BY <1>4 DEF Board!SendEnds, Movers
<1> QED
  BY <1>1, <1>2, <1>3, <1>4
  DEF Board!Next, Board!vars, Board!Partition, Board!Probed, Board!Stopped, Board!Probe, Board!Cooled, Board!Send,
      Board!Outside, Board!Goes

(* Who can have changed the column of a contact.                             *)
LEMMA ColumnWriters ==
  ASSUME BoardInv, [Board!Next]_(Board!vars), NEW c \in Card, row'[c].status # row[c].status
  PROVE  \/ Board!Apply(c)
         \/ \E to \in Board!Column : Board!Drag(c, to)
         \/ Board!SendEnds /\ sending.to = c
<1>1. row \in [Card -> CardRow]
  BY DEF BoardInv, BoardType
<1>2. ~UNCHANGED row
  OBVIOUS
<1>3. /\ ~Board!Partition /\ ~Board!Probed /\ ~Board!Stopped /\ ~Board!Goes
      /\ \A d \in Card : ~Board!Probe(d) /\ ~Board!Send(d) /\ ~Board!Outside(d)
  BY <1>2 DEF Board!Partition, Board!Probed, Board!Stopped, Board!Goes, Board!Probe, Board!Send, Board!Outside
<1>4. ASSUME NEW d \in Card, Board!Cooled(d) PROVE FALSE
  <2>1. row' = [row EXCEPT ![d].manual = FALSE]
    BY <1>4 DEF Board!Cooled
  <2> QED BY <1>1, <2>1 DEF CardRow
<1>5. ASSUME NEW d \in Card, Board!Apply(d) PROVE d = c
  BY <1>5, ApplyWrites
<1>6. ASSUME NEW d \in Card, NEW to \in Board!Column, Board!Drag(d, to) PROVE d = c
  <2>1. row' = [row EXCEPT ![d].status = to, ![d].manual = TRUE]
    BY <1>6 DEF Board!Drag
  <2> QED BY <1>1, <2>1
<1>7. ASSUME Board!SendEnds PROVE sending.to = c
  BY <1>1, <1>7 DEF Board!SendEnds
<1> QED
  BY <1>2, <1>3, <1>4, <1>5, <1>6, <1>7 DEF Board!Next, Board!vars

LEMMA AnsweredStays ==
  ASSUME BoardInv, mover \in [Card -> Movers], [Board!Next]_(Board!vars), NEW c \in Card,
         row[c].replied, row[c].status # "accepted", row'[c].status = "accepted"
  PROVE  mover'[c] = "user"
<1>1. row \in [Card -> CardRow]
  BY DEF BoardInv, BoardType
<1>2. CASE Board!Apply(c)
  <2>1. PICK aged \in BOOLEAN, to \in Board!Column, moved \in BOOLEAN :
          LET s == sweep.snap[c]
              a == sweep.answer[c]
          IN /\ to = IF s.show THEN s.status
                     ELSE Board!Decided(s.status, ~s.thread /\ a.degree, a.last, s.replied, aged)
             /\ moved = (a.ok /\ to # s.status)
             /\ row'[c].status = IF moved THEN to ELSE row[c].status
    BY <1>2, ApplyWrites
  <2> DEFINE s == sweep.snap[c]
             a == sweep.answer[c]
  <2>2. s.status \in Board!Synced /\ s.replied
    BY <1>2, ApplyWrites DEF BoardInv, BoardType, SweepIsFresh
  <2>3. /\ ~s.show /\ s.status # "accepted"
        /\ Board!Decided(s.status, ~s.thread /\ a.degree, a.last, s.replied, aged) = "accepted"
    BY <2>1
  <2> HIDE DEF s, a
  <2> QED BY <2>2, <2>3 DEF Board!Decided, Board!Synced
<1>3. ASSUME NEW to \in Board!Column, Board!Drag(c, to) PROVE mover'[c] = "user"
  BY <1>3 DEF Board!Drag
<1>4. CASE Board!SendEnds /\ sending.to = c
  <2>1. row'[c].status = IF sending.dm THEN Board!AfterDm(row[c]) ELSE "sent"
    BY <1>1, <1>4 DEF Board!SendEnds, CardRow
  <2> QED BY <2>1 DEF Board!AfterDm
<1> QED
  BY <1>2, <1>3, <1>4, ColumnWriters

LEMMA HeldStay ==
  ASSUME BoardInv, mover \in [Card -> Movers], [Board!Next]_(Board!vars), NEW c \in held,
         row[c].manual, row'[c].status # row[c].status
  PROVE  mover'[c] # "sync"
<1>1. c \in Card
  BY DEF BoardInv, BoardType
<1>2. ~Board!Apply(c)
  <2> SUFFICES ASSUME Board!Apply(c) PROVE FALSE
    OBVIOUS
  <2>1. c \in DOMAIN sweep.snap /\ sweep.snap[c].show
    BY <1>1, ApplyWrites DEF BoardInv, SweepIsFresh
  <2> QED BY <1>1, <2>1, ApplyWrites
<1>3. ASSUME NEW to \in Board!Column, Board!Drag(c, to) PROVE mover'[c] = "user"
  BY <1>1, <1>3 DEF Board!Drag
<1>4. CASE Board!SendEnds /\ sending.to = c
  BY <1>1, <1>4 DEF Board!SendEnds
<1> QED
  BY <1>1, <1>2, <1>3, <1>4, ColumnWriters

(* For any number of contacts under sweeps, drags, sends and LinkedIn, a sweep  *)
(* that nothing crossed shows the reply it read, nobody who wrote back falls    *)
(* to "accepted" but by the user, and a drag made before the sweep stands      *)
(* (contact_sync_entrypoint).                                                 *)
THEOREM BoardIsKept == Board!Spec => BoardKept
<1> DEFINE Kept  == BoardInv /\ mover \in [Card -> Movers]
           Seen  == \A c \in quiet : Board!Written(c) /\ Board!Read(c) =>
                      /\ link[c].last = "them" => row'[c].status = "ours"
                      /\ link[c].last = "me" => row'[c].status # "ours"
           Stays == \A c \in Card : row[c].replied /\ row[c].status # "accepted" /\ row'[c].status = "accepted"
                                      => mover'[c] = "user"
           Held  == \A c \in held : row[c].manual /\ row'[c].status # row[c].status => mover'[c] # "sync"
<1>1. Board!Init => Kept
  BY BoardInit DEF Board!Init, Movers
<1>2. Kept /\ [Board!Next]_(Board!vars) => Kept'
  BY BoardStep, MoverStep
<1>3. Kept /\ [Board!Next]_(Board!vars) => Seen
  BY RepliesSeen
<1>4. Kept /\ [Board!Next]_(Board!vars) => Stays
  BY AnsweredStays
<1>5. Kept /\ [Board!Next]_(Board!vars) => Held
  BY HeldStay
<1> QED
  <2>1. Board!Spec => [][Seen]_(Board!vars) /\ [][Stays]_(Board!vars) /\ [][Held]_(Board!vars)
    BY <1>1, <1>2, <1>3, <1>4, <1>5, PTL DEF Board!Spec
  <2> QED BY <2>1 DEF BoardKept, Board!ReplyIsSeen, Board!AnsweredNotDemoted, Board!HeldStands
=============================================================================
