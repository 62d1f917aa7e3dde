------------------------ MODULE OperationRunnerProofs -----------------------
(***************************************************************************)
(* Proofs about OperationRunner, for every set of operations, every lane   *)
(* table, every pool size and every bound.                                 *)
(***************************************************************************)
EXTENDS OperationRunner, FiniteSetTheorems, TLAPS

(* The bounds are only ever consumed below their maximum.                  *)
LEMMA BudgetType ==
  ASSUME used \in Budget,
         \/ used.boots < MaxBoots /\ used' = [used EXCEPT !.boots = @ + 1]
         \/ used.settings < MaxSettings /\ used' = [used EXCEPT !.settings = @ + 1]
         \/ used.faults < MaxFaults /\ used' = [used EXCEPT !.faults = @ + 1]
  PROVE  used' \in Budget
<1>1. CASE used.boots < MaxBoots /\ used' = [used EXCEPT !.boots = @ + 1]
  BY <1>1, RunnerAssumption DEF Budget
<1>2. CASE used.settings < MaxSettings /\ used' = [used EXCEPT !.settings = @ + 1]
  BY <1>2, RunnerAssumption DEF Budget
<1>3. CASE used.faults < MaxFaults /\ used' = [used EXCEPT !.faults = @ + 1]
  BY <1>3, RunnerAssumption DEF Budget
<1> QED
  BY <1>1, <1>2, <1>3

(* A batch only names operations, so enqueueing keeps the types of the     *)
(* queue variables.                                                        *)
LEMMA CreateType ==
  ASSUME TypeOK, NEW batch \in Seq(Ops), Create(batch)
  PROVE  /\ row' \in [Ops -> RowStates]
         /\ older' \in SUBSET (Ops \X Ops)
         /\ calls' \in [Ops -> Nat]
         /\ owed' \in BOOLEAN
<1>1. Range(batch) \subseteq Ops
  BY DEF Range
<1>2. InOrder(batch) \subseteq Ops \X Ops
  BY <1>1 DEF InOrder
<1>3. Queued \subseteq Ops
  BY DEF Queued
<1>4. older' \in SUBSET (Ops \X Ops)
  BY <1>1, <1>2, <1>3 DEF Create, TypeOK
<1>5. row' \in [Ops -> RowStates] /\ calls' \in [Ops -> Nat] /\ owed' \in BOOLEAN
  BY DEF Create, TypeOK, Set, RowStates
<1> QED
  BY <1>4, <1>5

(* A dispatch pass keeps the types, whatever else its thread does.         *)
LEMMA PumpType ==
  ASSUME TypeOK, NEW next \in [Ops -> Stages], PumpBody(next)
  PROVE  /\ row' \in [Ops -> RowStates]
         /\ older' \in SUBSET (Ops \X Ops)
         /\ inflight' \in SUBSET Ops
         /\ token' \in [Ops -> {"none", "clear", "set"}]
         /\ stage' \in [Ops -> Stages]
<1>1. Window \subseteq Ops
  BY DEF Window, Queued
<1>2. CASE proc \in {"draining", "shut"}
  BY <1>2 DEF PumpBody, TypeOK
<1>3. CASE proc = "up"
  <2>1. PICK S \in SUBSET Window : Claim(S) /\ stage' = Set(next, S, "claimed")
    BY <1>3 DEF PumpBody
  <2> QED
    BY <1>1, <2>1 DEF Claim, Dequeue, Set, TypeOK, RowStates, Stages
<1> QED
  BY <1>2, <1>3 DEF PumpBody

LEMMA FailedClaimType ==
  ASSUME TypeOK, NEW next \in [Ops -> Stages], FailedClaim(next)
  PROVE  /\ inflight' \in SUBSET Ops
         /\ token' \in [Ops -> {"none", "clear", "set"}]
         /\ stage' \in [Ops -> Stages]
         /\ used' \in Budget
         /\ UNCHANGED <<row, older, calls, proc, policy>>
<1>1. Window \subseteq Ops
  BY DEF Window, Queued
<1>2. PICK S \in SUBSET Window : /\ inflight' = inflight \cup S
                                 /\ token' = Set(token, S, "clear")
  BY DEF FailedClaim
<1>3. used' \in Budget
  BY BudgetType DEF FailedClaim, TypeOK
<1> QED
  BY <1>1, <1>2, <1>3 DEF FailedClaim, Set, TypeOK

(* Every variable of the runner keeps its type in every reachable state.   *)
THEOREM TypeCorrect == Spec => []TypeOK
<1>1. Init => TypeOK
  <2> SUFFICES ASSUME Init
               PROVE  TypeOK
    OBVIOUS
  <2>1. used \in Budget
    BY RunnerAssumption DEF Init, Budget
  <2> QED
    BY <2>1 DEF Init, TypeOK, RowStates, Stages
<1>2. TypeOK /\ [Next]_vars => TypeOK'
  <2> SUFFICES ASSUME TypeOK, [Next]_vars
               PROVE  TypeOK'
    OBVIOUS
  <2>1. ASSUME NEW o \in Ops, Submit(o)
        PROVE  TypeOK'
    <3>1. <<o>> \in Seq(Ops)
      OBVIOUS
    <3>2. Create(<<o>>) /\ UNCHANGED <<inflight, token, stage, proc, policy, used>>
      BY <2>1 DEF Submit, memory
    <3> QED
      BY <3>1, <3>2, CreateType DEF TypeOK
  <2>2. ASSUME NEW batch \in Batches, SubmitMany(batch)
        PROVE  TypeOK'
    BY <2>2, CreateType, RunnerAssumption DEF SubmitMany, memory, TypeOK
  <2>3. CASE Pump
    BY <2>3, PumpType DEF Pump, TypeOK
  <2>4. CASE PumpFails
    <3>1. CASE FailedClaim(stage) /\ owed' = FALSE
      BY <3>1, FailedClaimType DEF TypeOK
    <3>2. ASSUME NEW o \in Ops, FailedClaim([stage EXCEPT ![o] = "idle"]), UNCHANGED owed
          PROVE  TypeOK'
      <4>1. [stage EXCEPT ![o] = "idle"] \in [Ops -> Stages]
        BY DEF TypeOK, Stages
      <4> QED
        BY <3>2, <4>1, FailedClaimType DEF TypeOK
    <3> QED
      BY <2>4, <3>1, <3>2 DEF PumpFails, At
  <2>5. ASSUME NEW o \in Ops, WorkerPump(o)
        PROVE  TypeOK'
    <3>1. [stage EXCEPT ![o] = "idle"] \in [Ops -> Stages]
      BY DEF TypeOK, Stages
    <3> QED
      BY <2>5, <3>1, PumpType DEF WorkerPump, TypeOK
  <2>6. ASSUME NEW o \in Ops, HandOff(o) \/ TakeThread(o) \/ Call(o) \/ Pop(o)
        PROVE  TypeOK'
    BY <2>6 DEF HandOff, TakeThread, Call, Pop, Step, TypeOK, Stages
  <2>7. ASSUME NEW o \in Ops, Reject(o) \/ Succeed(o) \/ Fail(o) \/ StopSeen(o)
        PROVE  TypeOK'
    BY <2>7 DEF Reject, Succeed, Fail, StopSeen, Settle, TypeOK, Stages, RowStates, Terminal
  <2>8. ASSUME NEW o \in Ops, SettleFails(o)
        PROVE  TypeOK'
    BY <2>8, BudgetType DEF SettleFails, Step, TypeOK, Stages
  <2>9. ASSUME NEW o \in Ops, ChainHook(o)
        PROVE  TypeOK'
    <3>1. stage' \in [Ops -> Stages]
      BY <2>9 DEF ChainHook, Step, TypeOK, Stages
    <3>2. CASE \E batch \in Batches : Create(batch)
      BY <2>9, <3>1, <3>2, CreateType, RunnerAssumption DEF ChainHook, TypeOK
    <3>3. CASE UNCHANGED <<row, older, calls, owed>>
      BY <2>9, <3>1, <3>3 DEF ChainHook, TypeOK
    <3> QED
      BY <2>9, <3>2, <3>3 DEF ChainHook
  <2>10. ASSUME NEW o \in Ops, CancelQueued(o) \/ CancelRunning(o)
         PROVE  TypeOK'
    BY <2>10 DEF CancelQueued, CancelRunning, Dequeue, memory, TypeOK, RowStates, Terminal
  <2>11. CASE Settings
    BY <2>11, BudgetType DEF Settings, memory, TypeOK, Policies
  <2>12. CASE Shutdown \/ PoolShutdown \/ Crash \/ Boot
    <3>1. CASE Shutdown \/ PoolShutdown \/ Crash
      <4>1. CASE Shutdown
        BY <4>1 DEF Shutdown, memory, TypeOK
      <4>2. CASE PoolShutdown
        BY <4>2 DEF PoolShutdown, Set, TypeOK, Stages
      <4>3. CASE Crash
        BY <4>3 DEF Crash, TypeOK, Stages
      <4> QED
        BY <3>1, <4>1, <4>2, <4>3
    <3>2. CASE Boot
      BY <3>2, BudgetType DEF Boot, Reboot, memory, TypeOK, RowStates, Terminal
    <3> QED
      BY <2>12, <3>1, <3>2
  <2>13. CASE UNCHANGED vars
    BY <2>13 DEF vars, TypeOK
  <2> QED
    BY <2>1, <2>2, <2>3, <2>4, <2>5, <2>6, <2>7, <2>8, <2>9, <2>10, <2>11, <2>12, <2>13
       DEF Next, Worker
<1> QED
  BY <1>1, <1>2, PTL DEF Spec

-----------------------------------------------------------------------------
(* The greedy pick is consistent: whatever it claims clashes neither with  *)
(* what is in flight nor with anything else it claims.  Two picked         *)
(* operations are comparable in the dispatch order, and the later of them  *)
(* was checked against the earlier.                                        *)
LEMMA PickDoesNotClash ==
  ASSUME TypeOK, QueueTotal, NoClashInFlight,
         NEW S \in SUBSET Window, GreedyPick(S)
  PROVE  \A a, b \in inflight \cup S : a # b => ~Clashes(a, b)
<1>1. Window \subseteq Queued /\ Queued \subseteq Ops
  BY DEF Window, Queued
<1>2. ASSUME NEW a \in S, NEW b \in inflight \cup S,
             b \in S => Before(b, a)
      PROVE  ~Clashes(a, b) /\ ~Clashes(b, a)
  <2> DEFINE beside == inflight \cup {p \in S : Before(p, a)}
  <2>1. b \in beside /\ CanStart(a, beside, FitToPool(policy))
    BY <1>2 DEF GreedyPick, Admits
  <2>2. ~Exclusive(b) /\ ~Exclusive(a) /\ ~ViewClash(a, b)
    BY <2>1 DEF CanStart
  <2> QED
    BY <2>2 DEF Clashes, ViewClash
<1>3. ASSUME NEW a \in S, NEW b \in S, a # b
      PROVE  Before(a, b) \/ Before(b, a)
  <2>1. Urgency(a) \in Int /\ Urgency(b) \in Int
    BY DEF Urgency, DispatchPriority
  <2> QED
    BY <1>1, <1>3, <2>1 DEF QueueTotal, Before
<1> QED
  BY <1>2, <1>3 DEF NoClashInFlight

(* Enqueueing writes exactly the rows of the batch, and only rows whose    *)
(* worker is gone.                                                         *)
LEMMA CreateWrites ==
  ASSUME TypeOK, \A o \in Ops : StageOK(o),
         NEW batch \in Seq(Ops), Range(batch) \subseteq Fresh, Create(batch),
         NEW o \in Ops
  PROVE  /\ o \in Range(batch) =>
              row'[o] = "queued" /\ calls'[o] = 0 /\ stage[o] = "idle"
         /\ o \notin Range(batch) => row'[o] = row[o] /\ calls'[o] = calls[o]
<1>1. /\ row' = [p \in Ops |-> IF p \in Range(batch) THEN "queued" ELSE row[p]]
      /\ calls' = [p \in Ops |-> IF p \in Range(batch) THEN 0 ELSE calls[p]]
  BY DEF Create, Set, TypeOK
<1>2. o \in Range(batch) => stage[o] = "idle"
  BY DEF Fresh, StageOK
<1> QED
  BY <1>1, <1>2

(* The queue order stays total when a batch is appended to it.             *)
LEMMA CreateKeepsOrder ==
  ASSUME TypeOK, QueueTotal, NEW batch \in Seq(Ops), Create(batch)
  PROVE  QueueTotal'
<1>1. row' = [p \in Ops |-> IF p \in Range(batch) THEN "queued" ELSE row[p]]
  BY DEF Create, Set, TypeOK
<1>2. \A a, b \in Range(batch) : a # b =>
        <<a, b>> \in InOrder(batch) \/ <<b, a>> \in InOrder(batch)
  <2> SUFFICES ASSUME NEW i \in DOMAIN batch, NEW j \in DOMAIN batch, batch[i] # batch[j]
               PROVE  \/ <<batch[i], batch[j]>> \in InOrder(batch)
                      \/ <<batch[j], batch[i]>> \in InOrder(batch)
    BY DEF Range
  <2>1. i \in Int /\ j \in Int /\ i # j
    OBVIOUS
  <2>2. batch[i] \in Range(batch) /\ batch[j] \in Range(batch)
    BY DEF Range
  <2>3. CASE i < j
    BY <2>2, <2>3 DEF InOrder
  <2>4. CASE j < i
    BY <2>2, <2>4 DEF InOrder
  <2> QED
    BY <2>1, <2>3, <2>4
<1>3. ASSUME NEW a \in Queued', NEW b \in Queued', a # b
      PROVE  <<a, b>> \in older' \/ <<b, a>> \in older'
  <2>1. /\ a \in Queued \/ a \in Range(batch)
        /\ b \in Queued \/ b \in Range(batch)
    BY <1>1 DEF Queued
  <2>2. older \subseteq older' /\ Queued \X Range(batch) \subseteq older'
        /\ InOrder(batch) \subseteq older'
    BY DEF Create
  <2> QED
    BY <1>2, <1>3, <2>1, <2>2 DEF QueueTotal
<1> QED
  BY <1>3 DEF QueueTotal

(* Enqueueing, by an API thread or by a worker's success hook, keeps the   *)
(* invariant.                                                              *)
LEMMA CreateKeeps ==
  ASSUME IInv, TypeOK', Alive,
         NEW batch \in Seq(Ops), Range(batch) \subseteq Fresh, Create(batch),
         \A p \in Ops : stage'[p] = stage[p] \/ (stage[p] = "hook" /\ stage'[p] = "written"),
         UNCHANGED <<inflight, proc>>
  PROVE  IInv'
<1>1. QueueTotal'
  BY CreateKeepsOrder DEF IInv
<1>2. ASSUME NEW p \in Ops
      PROVE  StageOK(p)'
  <2>1. /\ p \in Range(batch) => row'[p] = "queued" /\ calls'[p] = 0 /\ stage[p] = "idle"
        /\ p \notin Range(batch) => row'[p] = row[p] /\ calls'[p] = calls[p]
    BY CreateWrites DEF IInv
  <2> QED
    BY <2>1 DEF IInv, StageOK
<1> QED
  BY <1>1, <1>2 DEF IInv, NothingWhenDown, NoClashInFlight, Alive

(* One worker giving up its thread leaves a well-typed stage function.     *)
LEMMA StageExcept ==
  ASSUME TypeOK, NEW o \in Ops, NEW s \in Stages
  PROVE  /\ [stage EXCEPT ![o] = s] \in [Ops -> Stages]
         /\ \A p \in Ops : [stage EXCEPT ![o] = s][p] = IF p = o THEN s ELSE stage[p]
BY DEF TypeOK

(* A dispatch pass, by whichever thread, keeps the invariant.              *)
LEMMA PumpKeeps ==
  ASSUME IInv, NEW next \in [Ops -> Stages], PumpBody(next),
         \A o \in Ops : next[o] = stage[o] \/ (stage[o] = "popped" /\ next[o] = "idle"),
         UNCHANGED <<calls, proc, policy, used>>,
         TypeOK'
  PROVE  IInv'
<1>1. CASE proc \in {"draining", "shut"}
  <2>1. stage' = next /\ UNCHANGED <<row, older, inflight, token>>
    BY <1>1 DEF PumpBody
  <2> QED
    BY <1>1, <2>1 DEF IInv, QueueTotal, Queued, StageOK, NothingWhenDown, NoClashInFlight
<1>2. CASE proc = "up"
  <2>1. PICK S \in SUBSET Window :
          GreedyPick(S) /\ Claim(S) /\ stage' = Set(next, S, "claimed")
    BY <1>2 DEF PumpBody
  <2>2. S \subseteq Queued /\ Queued \subseteq Ops
    BY DEF Window, Queued
  <2>3. /\ row' = [o \in Ops |-> IF o \in S THEN "running" ELSE row[o]]
        /\ stage' = [o \in Ops |-> IF o \in S THEN "claimed" ELSE next[o]]
        /\ older' = {e \in older : e[1] \notin S /\ e[2] \notin S}
        /\ inflight' = inflight \cup S
    BY <2>1 DEF Claim, Set, Dequeue, IInv, TypeOK
  <2>4. NoClashInFlight'
    <3>1. \A a, b \in inflight \cup S : a # b => ~Clashes(a, b)
      BY <2>1, PickDoesNotClash DEF IInv
    <3> QED
      BY <2>3, <3>1 DEF NoClashInFlight, Clashes, Exclusive, ViewClash
  <2>5. QueueTotal'
    BY <2>3 DEF IInv, QueueTotal, Queued
  <2>6. ASSUME NEW o \in Ops
        PROVE  StageOK(o)'
    BY <2>2, <2>3 DEF IInv, StageOK, Queued
  <2> QED
    BY <1>2, <2>4, <2>5, <2>6 DEF IInv, NothingWhenDown
<1> QED
  BY <1>1, <1>2 DEF PumpBody

(* A worker step that only settles or moves its own operation keeps the    *)
(* invariant.                                                              *)
LEMMA WorkerKeeps ==
  ASSUME IInv, TypeOK', NEW o \in Ops,
         \/ HandOff(o) \/ TakeThread(o) \/ Reject(o) \/ Call(o) \/ Succeed(o)
         \/ Fail(o) \/ StopSeen(o) \/ SettleFails(o) \/ Pop(o)
  PROVE  IInv'
<1>1. /\ \A p \in Ops : p # o => stage'[p] = stage[p] /\ row'[p] = row[p] /\ calls'[p] = calls[p]
      /\ older' = older /\ proc' = proc /\ inflight' \subseteq inflight
  BY DEF HandOff, TakeThread, Reject, Call, Succeed, Fail, StopSeen, SettleFails, Pop,
         Settle, Step, IInv, TypeOK
<1>2. StageOK(o)' /\ row'[o] # "queued" /\ stage[o] # "idle"
  BY DEF HandOff, TakeThread, Reject, Call, Succeed, Fail, StopSeen, SettleFails, Pop,
         Settle, Step, IInv, TypeOK, StageOK
<1>3. \A p \in Ops : StageOK(p)'
  BY <1>1, <1>2 DEF IInv, StageOK
<1>4. QueueTotal'
  BY <1>1, <1>2 DEF IInv, QueueTotal, Queued
<1>5. NothingWhenDown' /\ NoClashInFlight'
  BY <1>1, <1>2 DEF IInv, NothingWhenDown, NoClashInFlight
<1> QED
  BY <1>3, <1>4, <1>5 DEF IInv

LEMMA InitInv == Init => IInv
<1> SUFFICES ASSUME Init
             PROVE  IInv
  OBVIOUS
<1>1. TypeOK
  <2>1. used \in Budget
    BY RunnerAssumption DEF Init, Budget
  <2> QED
    BY <2>1 DEF Init, TypeOK, RowStates, Stages
<1> QED
  BY <1>1 DEF Init, IInv, QueueTotal, Queued, StageOK, NothingWhenDown, NoClashInFlight

LEMMA NextInv ==
  ASSUME IInv, TypeOK', [Next]_vars
  PROVE  IInv'
<1>1. TypeOK
  BY DEF IInv
<1>2. ASSUME NEW o \in Ops, Submit(o)
      PROVE  IInv'
  <2>1. <<o>> \in Seq(Ops) /\ Range(<<o>>) \subseteq Fresh
    BY <1>2 DEF Submit, Range
  <2>2. Create(<<o>>) /\ Alive /\ UNCHANGED <<inflight, stage, proc>>
    BY <1>2 DEF Submit, memory
  <2> QED
    BY <2>1, <2>2, CreateKeeps
<1>3. ASSUME NEW batch \in Batches, SubmitMany(batch)
      PROVE  IInv'
  <2>1. batch \in Seq(Ops)
    BY RunnerAssumption
  <2>2. Create(batch) /\ Range(batch) \subseteq Fresh /\ Alive /\ UNCHANGED <<inflight, stage, proc>>
    BY <1>3 DEF SubmitMany, memory
  <2> QED
    BY <2>1, <2>2, CreateKeeps
<1>4. CASE Pump
  <2>1. PumpBody(stage) /\ UNCHANGED <<calls, proc, policy, used>>
    BY <1>4 DEF Pump
  <2>2. stage \in [Ops -> Stages]
    BY <1>1 DEF TypeOK
  <2> QED
    BY <2>1, <2>2, PumpKeeps
<1>5. ASSUME NEW o \in Ops, WorkerPump(o)
      PROVE  IInv'
  <2> DEFINE next == [stage EXCEPT ![o] = "idle"]
  <2>1. PumpBody(next) /\ UNCHANGED <<calls, proc, policy, used>> /\ stage[o] = "popped"
    BY <1>5 DEF WorkerPump
  <2>2. "idle" \in Stages
    BY DEF Stages
  <2>3. /\ next \in [Ops -> Stages]
        /\ \A p \in Ops : next[p] = stage[p] \/ (stage[p] = "popped" /\ next[p] = "idle")
    BY <1>1, <2>1, <2>2, StageExcept
  <2> HIDE DEF next
  <2> QED
    BY <2>1, <2>3, PumpKeeps
<1>6. CASE PumpFails
  <2>1. PICK next \in [Ops -> Stages] :
          /\ FailedClaim(next)
          /\ \A p \in Ops : next[p] = stage[p] \/ (stage[p] = "popped" /\ next[p] = "idle")
    <3>1. CASE FailedClaim(stage)
      <4>1. stage \in [Ops -> Stages]
        BY <1>1 DEF TypeOK
      <4> QED
        BY <3>1, <4>1
    <3>2. ASSUME NEW o \in At("popped"), FailedClaim([stage EXCEPT ![o] = "idle"])
          PROVE  \E next \in [Ops -> Stages] :
                   /\ FailedClaim(next)
                   /\ \A p \in Ops : next[p] = stage[p] \/ (stage[p] = "popped" /\ next[p] = "idle")
      <4> DEFINE next == [stage EXCEPT ![o] = "idle"]
      <4>1. o \in Ops /\ stage[o] = "popped" /\ "idle" \in Stages
        BY DEF At, Stages
      <4>2. /\ next \in [Ops -> Stages]
            /\ \A p \in Ops : next[p] = stage[p] \/ (stage[p] = "popped" /\ next[p] = "idle")
        BY <1>1, <4>1, StageExcept
      <4> QED
        BY <3>2, <4>2
    <3> QED
      BY <1>6, <3>1, <3>2 DEF PumpFails
  <2>2. PICK S \in SUBSET Window : GreedyPick(S) /\ inflight' = inflight \cup S
    BY <2>1 DEF FailedClaim
  <2>3. proc = "up" /\ stage' = next /\ UNCHANGED <<row, older, calls, proc>>
    BY <2>1 DEF FailedClaim
  <2>4. NoClashInFlight'
    <3>1. \A a, b \in inflight \cup S : a # b => ~Clashes(a, b)
      BY <2>2, PickDoesNotClash DEF IInv
    <3> QED
      BY <2>2, <3>1 DEF NoClashInFlight
  <2> QED
    BY <2>1, <2>3, <2>4 DEF IInv, QueueTotal, Queued, StageOK, NothingWhenDown
<1>7. ASSUME NEW o \in Ops, ChainHook(o)
      PROVE  IInv'
  <2>1. /\ stage[o] = "hook" /\ stage' = [stage EXCEPT ![o] = "written"]
        /\ UNCHANGED <<inflight, proc>>
    BY <1>7 DEF ChainHook, Step
  <2>2. CASE \E batch \in Batches : Range(batch) \subseteq Fresh /\ Create(batch)
    <3>1. Alive
      BY <2>1 DEF IInv, NothingWhenDown, Alive
    <3>2. PICK batch \in Batches : Range(batch) \subseteq Fresh /\ Create(batch)
      BY <2>2
    <3>3. batch \in Seq(Ops)
      BY RunnerAssumption
    <3> QED
      <4>1. \A p \in Ops : stage'[p] = stage[p] \/ (stage[p] = "hook" /\ stage'[p] = "written")
        BY <1>1, <2>1 DEF TypeOK
      <4> QED
        BY <2>1, <3>1, <3>2, <3>3, <4>1, CreateKeeps
  <2>3. CASE UNCHANGED <<row, older, calls, owed>>
    BY <2>1, <2>3 DEF IInv, QueueTotal, Queued, StageOK, NothingWhenDown, NoClashInFlight, TypeOK
  <2> QED
    BY <1>7, <2>2, <2>3 DEF ChainHook
<1>8. ASSUME NEW o \in Ops, CancelQueued(o)
      PROVE  IInv'
  BY <1>8 DEF CancelQueued, Dequeue, memory, Alive, IInv, QueueTotal, Queued, StageOK,
              NothingWhenDown, NoClashInFlight, TypeOK
<1>9. ASSUME NEW o \in Ops, CancelRunning(o)
      PROVE  IInv'
  BY <1>9 DEF CancelRunning, IInv, QueueTotal, Queued, StageOK, NothingWhenDown, NoClashInFlight
<1>10. CASE Settings \/ Shutdown
  BY <1>10 DEF Settings, Shutdown, memory, IInv, QueueTotal, Queued, StageOK, NothingWhenDown,
               NoClashInFlight
<1>11. CASE PoolShutdown
  BY <1>11 DEF PoolShutdown, Set, At, IInv, QueueTotal, Queued, StageOK, NothingWhenDown,
               NoClashInFlight, TypeOK
<1>12. CASE Crash
  BY <1>12 DEF Crash, IInv, QueueTotal, Queued, StageOK, NothingWhenDown, NoClashInFlight
<1>13. CASE Boot
  BY <1>13 DEF Boot, Reboot, memory, IInv, QueueTotal, Queued, StageOK, NothingWhenDown,
               NoClashInFlight, TypeOK
<1>14. CASE UNCHANGED vars
  BY <1>14 DEF vars, IInv, QueueTotal, Queued, StageOK, NothingWhenDown, NoClashInFlight
<1> QED
  BY <1>2, <1>3, <1>4, <1>5, <1>6, <1>7, <1>8, <1>9, <1>10, <1>11, <1>12, <1>13, <1>14,
     WorkerKeeps DEF Next, Worker

THEOREM InductiveInvariant == Spec => []IInv
<1>1. IInv /\ TypeOK' /\ [Next]_vars => IInv'
  BY NextInv
<1> QED
  BY <1>1, InitInv, TypeCorrect, PTL DEF Spec

(* No two operations that exclude each other are ever in flight together,  *)
(* for any policy, pool size, number of reboots and failed commits.        *)
THEOREM Exclusion == Spec => []NoClashInFlight
<1>1. IInv => NoClashInFlight
  BY DEF IInv
<1> QED
  BY <1>1, InductiveInvariant, PTL

(* No row's entrypoint is called twice, whatever crashes, failed commits   *)
(* and concurrent pumps do.                                                *)
THEOREM AtMostOnce == Spec => []AtMostOneCall
<1>1. IInv => AtMostOneCall
  BY DEF IInv, StageOK, AtMostOneCall
<1> QED
  BY <1>1, InductiveInvariant, PTL

-----------------------------------------------------------------------------
(* Where a row stands while the process lives and no commit has failed:    *)
(* every running row and every dispatch under way has its entry in         *)
(* `_running`, an entry is never of a row still in the queue, and a worker *)
(* past its call has written the row it is about to pop.                   *)
OwnedRow(o) ==
  /\ row[o] = "running" => o \in inflight
  /\ stage[o] \in {"hook", "written"} => row[o] # "running"
  /\ o \in inflight => row[o] \notin {"absent", "queued"}

Owned == Alive /\ used.faults = 0 => \A o \in Ops : OwnedRow(o)

(* A failed commit ends the time for which ownership is claimed.           *)
LEMMA FaultEnds ==
  ASSUME TypeOK, used' = [used EXCEPT !.faults = @ + 1]
  PROVE  used'.faults # 0
BY RunnerAssumption DEF TypeOK, Budget

(* Enqueueing disturbs nobody's ownership: its rows were never dispatched. *)
LEMMA CreateOwned ==
  ASSUME IInv, Owned, NEW batch \in Seq(Ops), Range(batch) \subseteq Fresh, Create(batch),
         \A p \in Ops : stage'[p] = stage[p] \/ (stage[p] = "hook" /\ stage'[p] = "written"),
         UNCHANGED <<inflight, proc, used>>
  PROVE  Owned'
<1>1. ASSUME NEW p \in Ops, OwnedRow(p)
      PROVE  OwnedRow(p)'
  <2>1. /\ p \in Range(batch) => row[p] = "absent" /\ row'[p] = "queued" /\ stage[p] = "idle"
        /\ p \notin Range(batch) => row'[p] = row[p]
    BY CreateWrites DEF IInv, Fresh
  <2> QED
    BY <1>1, <2>1 DEF OwnedRow
<1> QED
  BY <1>1 DEF Owned, Alive

(* A dispatch pass enters what it claims into `_running`.                  *)
LEMMA PumpOwned ==
  ASSUME IInv, Owned, NEW next \in [Ops -> Stages], PumpBody(next),
         \A o \in Ops : next[o] = stage[o] \/ (stage[o] = "popped" /\ next[o] = "idle"),
         UNCHANGED <<proc, used>>
  PROVE  Owned'
<1>1. CASE proc \in {"draining", "shut"}
  <2>1. stage' = next /\ UNCHANGED <<row, inflight>>
    BY <1>1 DEF PumpBody
  <2> QED
    BY <2>1 DEF Owned, OwnedRow, Alive
<1>2. CASE proc = "up"
  <2>1. PICK S \in SUBSET Window : Claim(S) /\ stage' = Set(next, S, "claimed")
    BY <1>2 DEF PumpBody
  <2>2. /\ row' = [o \in Ops |-> IF o \in S THEN "running" ELSE row[o]]
        /\ stage' = [o \in Ops |-> IF o \in S THEN "claimed" ELSE next[o]]
        /\ inflight' = inflight \cup S
    BY <2>1 DEF Claim, Set, IInv, TypeOK
  <2> QED
    BY <1>2, <2>2 DEF Owned, OwnedRow, Alive
<1> QED
  BY <1>1, <1>2 DEF PumpBody

LEMMA OwnedNext ==
  ASSUME IInv, Owned, [Next]_vars
  PROVE  Owned'
<1>1. TypeOK
  BY DEF IInv
<1>2. ASSUME NEW o \in Ops, Submit(o)
      PROVE  Owned'
  <2>1. <<o>> \in Seq(Ops) /\ Range(<<o>>) \subseteq Fresh
    BY <1>2 DEF Submit, Range
  <2>2. Create(<<o>>) /\ UNCHANGED <<inflight, stage, proc, used>>
    BY <1>2 DEF Submit, memory
  <2> QED
    BY <2>1, <2>2, CreateOwned
<1>3. ASSUME NEW batch \in Batches, SubmitMany(batch)
      PROVE  Owned'
  <2>1. batch \in Seq(Ops)
    BY RunnerAssumption
  <2>2. Create(batch) /\ Range(batch) \subseteq Fresh /\ UNCHANGED <<inflight, stage, proc, used>>
    BY <1>3 DEF SubmitMany, memory
  <2> QED
    BY <2>1, <2>2, CreateOwned
<1>4. CASE Pump
  <2>1. PumpBody(stage) /\ UNCHANGED <<proc, used>> /\ stage \in [Ops -> Stages]
    BY <1>1, <1>4 DEF Pump, TypeOK
  <2> QED
    BY <2>1, PumpOwned
<1>5. ASSUME NEW o \in Ops, WorkerPump(o)
      PROVE  Owned'
  <2> DEFINE next == [stage EXCEPT ![o] = "idle"]
  <2>1. PumpBody(next) /\ UNCHANGED <<proc, used>> /\ stage[o] = "popped" /\ "idle" \in Stages
    BY <1>5 DEF WorkerPump, Stages
  <2>2. /\ next \in [Ops -> Stages]
        /\ \A p \in Ops : next[p] = stage[p] \/ (stage[p] = "popped" /\ next[p] = "idle")
    BY <1>1, <2>1, StageExcept
  <2> HIDE DEF next
  <2> QED
    BY <2>1, <2>2, PumpOwned
<1>6. CASE PumpFails \/ \E o \in Ops : SettleFails(o)
  <2>1. used' = [used EXCEPT !.faults = @ + 1]
    BY <1>6 DEF PumpFails, FailedClaim, SettleFails
  <2> QED
    BY <1>1, <2>1, FaultEnds DEF Owned
<1>7. ASSUME NEW o \in Ops, ChainHook(o)
      PROVE  Owned'
  <2>1. /\ stage[o] = "hook" /\ stage' = [stage EXCEPT ![o] = "written"]
        /\ UNCHANGED <<inflight, proc, used>>
    BY <1>7 DEF ChainHook, Step
  <2>2. \A p \in Ops : stage'[p] = stage[p] \/ (stage[p] = "hook" /\ stage'[p] = "written")
    BY <1>1, <2>1 DEF TypeOK
  <2>3. CASE \E batch \in Batches : Range(batch) \subseteq Fresh /\ Create(batch)
    <3>1. PICK batch \in Seq(Ops) : Range(batch) \subseteq Fresh /\ Create(batch)
      BY <2>3, RunnerAssumption
    <3> QED
      BY <2>1, <2>2, <3>1, CreateOwned
  <2>4. CASE UNCHANGED <<row, older, calls, owed>>
    BY <2>1, <2>2, <2>4 DEF Owned, OwnedRow, Alive
  <2> QED
    BY <1>7, <2>3, <2>4 DEF ChainHook
<1>8. ASSUME NEW o \in Ops, HandOff(o) \/ TakeThread(o) \/ Call(o)
      PROVE  Owned'
  BY <1>1, <1>8 DEF HandOff, TakeThread, Call, Step, TypeOK, Owned, OwnedRow, Alive
<1>9. ASSUME NEW o \in Ops, Reject(o) \/ Succeed(o) \/ Fail(o) \/ StopSeen(o)
      PROVE  Owned'
  BY <1>1, <1>9
     DEF Reject, Succeed, Fail, StopSeen, Settle, TypeOK, Owned, OwnedRow, Alive
<1>10. ASSUME NEW o \in Ops, Pop(o)
       PROVE  Owned'
  BY <1>1, <1>10 DEF Pop, Step, TypeOK, Owned, OwnedRow, Alive
<1>11. ASSUME NEW o \in Ops, CancelQueued(o) \/ CancelRunning(o)
       PROVE  Owned'
  BY <1>1, <1>11 DEF CancelQueued, CancelRunning, memory, TypeOK, Owned, OwnedRow, Alive
<1>12. CASE Settings
  <2>1. used'.faults = used.faults
    BY <1>1, <1>12 DEF Settings, TypeOK, Budget
  <2> QED
    BY <1>12, <2>1 DEF Settings, memory, Owned, OwnedRow, Alive
<1>13. CASE Shutdown \/ PoolShutdown
  BY <1>1, <1>13 DEF Shutdown, PoolShutdown, Set, At, memory, TypeOK, Owned, OwnedRow, Alive
<1>14. CASE Crash
  BY <1>14 DEF Crash, Owned, Alive
<1>15. CASE Boot
  BY <1>1, <1>15
     DEF Boot, Reboot, memory, IInv, NothingWhenDown, TypeOK, Owned, OwnedRow
<1>16. CASE UNCHANGED vars
  BY <1>16 DEF vars, Owned, OwnedRow, Alive
<1> QED
  BY <1>2, <1>3, <1>4, <1>5, <1>6, <1>7, <1>8, <1>9, <1>10, <1>11, <1>12, <1>13, <1>14,
     <1>15, <1>16 DEF Next, Worker

(* Whatever the pumps, settles, settings changes and restarts do, a row    *)
(* that says `running` while the process is up is one a worker of this     *)
(* process will settle, as long as every commit has gone through.          *)
THEOREM RunningIsOwned == Spec => []RunningRowsOwned
<1>1. Init => Owned
  BY DEF Init, Owned, Alive
<1>2. IInv /\ Owned /\ [Next]_vars => Owned'
  BY OwnedNext
<1>3. IInv /\ Owned => RunningRowsOwned
  BY DEF IInv, TypeOK, Owned, OwnedRow, Alive, RunningRowsOwned
<1> QED
  BY <1>1, <1>2, <1>3, InductiveInvariant, PTL DEF Spec

-----------------------------------------------------------------------------
(* The queue is in order: what is enqueued goes behind all that is queued, *)
(* and a claim or a cancel only takes rows out.                            *)
LEMMA CreateOrder ==
  ASSUME IInv, QueueOrder, NEW batch \in Seq(Ops), Range(batch) \subseteq Fresh, Create(batch),
         \A i, j \in DOMAIN batch : batch[i] = batch[j] => i = j
  PROVE  QueueOrder'
<1> DEFINE R == Range(batch)
<1>1. R \subseteq Ops /\ Queued \subseteq Ops /\ R \cap Queued = {}
  BY DEF Range, Fresh, Queued
<1>2. Queued' = Queued \cup R
  BY CreateWrites DEF IInv, Queued, Range
<1>3. older' = older \cup (Queued \X R) \cup InOrder(batch)
  BY DEF Create
<1>4. InOrder(batch) \subseteq R \X R
  BY DEF InOrder
<1>5. \A a \in R : <<a, a>> \notin InOrder(batch)
  <2> SUFFICES ASSUME NEW i \in DOMAIN batch, NEW j \in DOMAIN batch, i < j, batch[i] = batch[j]
               PROVE  FALSE
    BY DEF InOrder
  <2> QED
    BY SMT
<1>6. ASSUME NEW a, NEW b, NEW c, <<a, b>> \in InOrder(batch), <<b, c>> \in InOrder(batch)
      PROVE  <<a, c>> \in InOrder(batch)
  <2>1. PICK i, j \in DOMAIN batch : i < j /\ a = batch[i] /\ b = batch[j]
    BY <1>6 DEF InOrder
  <2>2. PICK k, l \in DOMAIN batch : k < l /\ b = batch[k] /\ c = batch[l]
    BY <1>6 DEF InOrder
  <2>3. j = k
    BY <2>1, <2>2
  <2>4. i < l
    BY <2>1, <2>2, <2>3
  <2>5. a \in R /\ c \in R
    BY <2>1, <2>2 DEF Range
  <2> QED
    BY <2>1, <2>2, <2>4, <2>5 DEF InOrder
<1> HIDE DEF R
<1>7. older' \subseteq Queued' \X Queued'
  BY <1>2, <1>3, <1>4 DEF QueueOrder
<1>8. \A a \in Queued' : <<a, a>> \notin older'
  BY <1>1, <1>2, <1>3, <1>4, <1>5 DEF QueueOrder
<1>9. ASSUME NEW a \in Queued', NEW b \in Queued', NEW c \in Queued',
             <<a, b>> \in older', <<b, c>> \in older'
      PROVE  <<a, c>> \in older'
  <2>1. CASE <<a, b>> \in older /\ <<b, c>> \in older
    BY <1>3, <2>1 DEF QueueOrder
  <2>2. CASE a \in Queued /\ c \in R
    BY <1>3, <2>2
  <2>3. CASE <<a, b>> \in InOrder(batch) /\ <<b, c>> \in InOrder(batch)
    BY <1>3, <1>6, <2>3
  <2> QED
    BY <1>1, <1>3, <1>4, <1>9, <2>1, <2>2, <2>3 DEF QueueOrder
<1> QED
  BY <1>7, <1>8, <1>9 DEF QueueOrder

LEMMA DequeueOrder ==
  ASSUME QueueOrder, NEW S, Dequeue(S), Queued' = Queued \ S
  PROVE  QueueOrder'
BY DEF QueueOrder, Dequeue

LEMMA OrderStep ==
  ASSUME IInv, QueueOrder, [Next]_vars
  PROVE  QueueOrder'
<1> USE DEF IInv
<1>1. ASSUME UNCHANGED older, Queued' = Queued
      PROVE  QueueOrder'
  BY <1>1 DEF QueueOrder
<1>2. ASSUME NEW o \in Ops, Submit(o)
      PROVE  QueueOrder'
  <2>1. <<o>> \in Seq(Ops) /\ Range(<<o>>) \subseteq Fresh /\ Create(<<o>>)
    BY <1>2 DEF Submit, Range
  <2>2. \A i, j \in DOMAIN <<o>> : i = j
    BY DOMAIN <<o>> = {1}
  <2> QED
    BY <2>1, <2>2, CreateOrder
<1>3. ASSUME NEW batch \in Batches, Range(batch) \subseteq Fresh, Create(batch)
      PROVE  QueueOrder'
  BY <1>3, CreateOrder, RunnerAssumption
<1>4. ASSUME NEW next, PumpBody(next)
      PROVE  QueueOrder'
  <2>1. CASE proc = "up"
    <3>1. PICK S \in SUBSET Window : Claim(S)
      BY <1>4, <2>1 DEF PumpBody
    <3>2. Queued' = Queued \ S /\ Dequeue(S)
      BY <3>1 DEF Claim, Set, Queued, Window, TypeOK
    <3> QED
      BY <3>2, DequeueOrder
  <2>2. CASE proc \in {"draining", "shut"}
    BY <1>1, <1>4, <2>2 DEF PumpBody, Queued
  <2> QED
    BY <1>4, <2>1, <2>2 DEF PumpBody
<1>5. ASSUME NEW o \in Ops, CancelQueued(o)
      PROVE  QueueOrder'
  <2>1. Queued' = Queued \ {o} /\ Dequeue({o})
    BY <1>5 DEF CancelQueued, Queued, TypeOK
  <2> QED
    BY <2>1, DequeueOrder
<1>6. ASSUME NEW o \in Ops, Reject(o) \/ Succeed(o) \/ Fail(o) \/ StopSeen(o)
      PROVE  QueueOrder'
  <2>1. row[o] = "running"
    BY <1>6 DEF Reject, Succeed, Fail, StopSeen, StageOK
  <2>2. UNCHANGED older /\ Queued' = Queued
    BY <1>6, <2>1 DEF Reject, Succeed, Fail, StopSeen, Settle, TypeOK, Queued
  <2> QED
    BY <1>1, <2>2
<1>7. ASSUME UNCHANGED <<row, older>>
      PROVE  QueueOrder'
  BY <1>1, <1>7 DEF Queued
<1>8. CASE Boot
  BY <1>1, <1>8 DEF Boot, Reboot, Queued
<1>9. ASSUME NEW o \in Ops, HandOff(o) \/ TakeThread(o) \/ Call(o) \/ SettleFails(o) \/ Pop(o) \/ CancelRunning(o)
      PROVE  UNCHANGED <<row, older>>
  BY <1>9 DEF HandOff, TakeThread, Call, SettleFails, Pop, CancelRunning
<1>10. CASE PumpFails \/ Settings \/ Shutdown \/ PoolShutdown \/ Crash
  BY <1>7, <1>10 DEF PumpFails, FailedClaim, Settings, Shutdown, PoolShutdown, Crash
<1>11. ASSUME NEW o \in Ops, ChainHook(o)
       PROVE  QueueOrder'
  BY <1>3, <1>7, <1>11 DEF ChainHook
<1>12. CASE UNCHANGED vars
  BY <1>7, <1>12 DEF vars
<1> QED
  BY <1>2, <1>3, <1>4, <1>5, <1>6, <1>7, <1>8, <1>9, <1>10, <1>11, <1>12
     DEF Next, Worker, SubmitMany, Pump, WorkerPump

-----------------------------------------------------------------------------
(* The dispatch order is a strict total order on the queue.                *)
LEMMA DispatchOrder ==
  ASSUME TypeOK, QueueTotal, QueueOrder
  PROVE  /\ \A a \in Queued : ~Before(a, a)
         /\ \A a, b, c \in Queued : Before(a, b) /\ Before(b, c) => Before(a, c)
         /\ \A a, b \in Queued : a = b \/ Before(a, b) \/ Before(b, a)
<1>1. \A a \in Queued : Urgency(a) \in Int
  BY DEF Urgency, DispatchPriority
<1>2. ASSUME NEW a \in Queued
      PROVE  ~Before(a, a)
  <2>1. ~(Urgency(a) < Urgency(a)) /\ <<a, a>> \notin older
    BY <1>1 DEF QueueOrder
  <2> QED
    BY <2>1 DEF Before
<1>3. ASSUME NEW a \in Queued, NEW b \in Queued, NEW c \in Queued, Before(a, b), Before(b, c)
      PROVE  Before(a, c)
  <2>1. Urgency(a) <= Urgency(b) /\ Urgency(b) <= Urgency(c)
    BY <1>1, <1>3 DEF Before
  <2>2. CASE Urgency(a) < Urgency(c)
    BY <2>2 DEF Before
  <2>3. CASE Urgency(a) = Urgency(b) /\ Urgency(b) = Urgency(c)
    <3>1. <<a, b>> \in older /\ <<b, c>> \in older
      BY <1>1, <1>3, <2>3 DEF Before
    <3>2. <<a, c>> \in older
      BY <3>1 DEF QueueOrder
    <3> QED
      BY <2>3, <3>2 DEF Before
  <2> QED
    BY <1>1, <2>1, <2>2, <2>3
<1>4. ASSUME NEW a \in Queued, NEW b \in Queued, a # b
      PROVE  Before(a, b) \/ Before(b, a)
  BY <1>1, <1>4 DEF Before, QueueTotal
<1> QED
  BY <1>2, <1>3, <1>4

LEMMA FiniteOps ==
  ASSUME NEW S \in SUBSET Ops
  PROVE  IsFiniteSet(S) /\ Cardinality(S) \in Nat
BY PolicyAssumption, FS_Subset, FS_CardinalityType

(* A pass that reads as many rows as there are reads the whole queue.      *)
LEMMA WindowIsQueue ==
  ASSUME TypeOK, QueueTotal, QueueOrder, Cardinality(Queued) <= ScanLimit
  PROVE  Window = Queued
<1> SUFFICES ASSUME NEW o \in Queued
             PROVE  Cardinality({p \in Queued : Before(p, o)}) < ScanLimit
  BY DEF Window
<1> DEFINE P == {p \in Queued : Before(p, o)}
<1>1. Queued \subseteq Ops
  BY DEF Queued
<1>2. P \subseteq Queued /\ o \notin P
  BY DispatchOrder
<1>3. IsFiniteSet(Queued) /\ Cardinality(Queued) \in Nat /\ Cardinality(P) \in Nat
  BY <1>1, <1>2, FiniteOps
<1>4. Cardinality(P) <= Cardinality(Queued) /\ Cardinality(P) # Cardinality(Queued)
  BY <1>2, <1>3, FS_Subset
<1> QED
  BY <1>3, <1>4, RunnerAssumption

(* Among any queued rows one comes last in the dispatch order.             *)
LEMMA LastOfQueued ==
  ASSUME TypeOK, QueueTotal, QueueOrder, NEW L \in SUBSET Queued, L # {}
  PROVE  \E o \in L : \A p \in L : p = o \/ Before(p, o)
<1> DEFINE After(o) == {p \in L : Before(o, p)}
           T == {After(o) : o \in L}
<1>1. L \subseteq Ops
  BY DEF Queued
<1>2. T \subseteq FiniteSubsetsOf(Ops)
  BY <1>1, FiniteOps DEF FiniteSubsetsOf
<1>3. PICK o \in L : \A p \in L : <<After(p), After(o)>> \notin StrictSubsetOrdering(Ops)
  <2>1. IsWellFoundedOn(StrictSubsetOrdering(Ops), FiniteSubsetsOf(Ops)) /\ T # {}
    BY FS_StrictSubsetOrderingWellFounded
  <2>2. PICK x \in T : \A y \in T : <<y, x>> \notin StrictSubsetOrdering(Ops)
    BY <1>2, <2>1, WFMin
  <2> QED
    BY <2>2
<1>4. ASSUME NEW p \in After(o)
      PROVE  FALSE
  <2>1. p \in L /\ Before(o, p) /\ ~Before(p, p)
    BY DispatchOrder
  <2>2. After(p) \subseteq After(o)
    BY <2>1, DispatchOrder
  <2>3. p \in After(o) /\ p \notin After(p)
    BY <2>1
  <2>4. After(p) \in SUBSET Ops /\ After(o) \in SUBSET Ops
    BY <1>1
  <2> QED
    BY <1>3, <2>1, <2>2, <2>3, <2>4 DEF StrictSubsetOrdering
<1> QED
  BY <1>4, DispatchOrder

-----------------------------------------------------------------------------
(* What the lanes are wide.                                                *)
LEMMA ImageFinite ==
  ASSUME NEW S, IsFiniteSet(S), NEW f, S \subseteq DOMAIN f
  PROVE  IsFiniteSet({f[x] : x \in S})
<1> DEFINE T == {f[x] : x \in S}
           g == [x \in S |-> f[x]]
<1>1. g \in Surjection(S, T)
  BY DEF Surjection
<1> HIDE DEF g, T
<1>2. IsFiniteSet(T)
  BY <1>1, FS_Surjection
<1> QED
  BY <1>2 DEF T

LEMMA GroupsFinite ==
  ASSUME NEW p \in Policies
  PROVE  IsFiniteSet(OtherGroups(p))
<1> DEFINE K == Kinds \X {"app", "user"}
           f == [x \in K |-> GroupFor(x[1], x[2], p.mode)]
<1>1. IsFiniteSet(K)
  <2>1. IsFiniteSet({"app"}) /\ {"app", "user"} = {"app"} \cup {"user"}
    BY FS_Singleton
  <2>2. IsFiniteSet({"app", "user"})
    BY <2>1, FS_AddElement
  <2> QED
    BY <2>2, PolicyAssumption, FS_Product
<1>2. IsFiniteSet({f[x] : x \in K})
  <2> HIDE DEF f, K
  <2>1. K \subseteq DOMAIN f
    BY DEF f
  <2> QED
    BY <1>1, <2>1, ImageFinite
<1>3. OtherGroups(p) \subseteq {f[x] : x \in K}
  <2> DEFINE Image == {f[x] : x \in K}
  <2>1. ASSUME NEW k \in Kinds, NEW by \in {"app", "user"}
        PROVE  GroupFor(k, by, p.mode) \in Image
    <3>1. <<k, by>> \in K /\ f[<<k, by>>] = GroupFor(k, by, p.mode)
      OBVIOUS
    <3> QED
      BY <3>1
  <2> HIDE DEF Image, f, K
  <2>2. OtherGroups(p) \subseteq Image
    BY <2>1 DEF OtherGroups
  <2> QED
    BY <2>2 DEF Image
<1> QED
  BY <1>2, <1>3, FS_Subset

LEMMA GroupLimit ==
  ASSUME NEW p \in Policies, NEW g, g # "llm"
  PROVE  LimitForGroup(p, g) \in Nat \ {0}
BY PolicyAssumption DEF LimitForGroup

LEMMA LlmLimit ==
  ASSUME NEW p \in Policies
  PROVE  p.llm \in Nat \ {0}
BY RunnerAssumption DEF Policies, LlmLimits, LlmConcurrencyFrom, Larger, Smaller, Unlimited

LEMMA ThreadsFinite ==
  ASSUME NEW p \in Policies
  PROVE  IsFiniteSet(OtherThreads(p)) /\ Reserved(p) \in Nat
<1> DEFINE G == OtherGroups(p)
           f == [g \in G |-> {g} \X (1 .. LimitForGroup(p, g))]
<1>1. IsFiniteSet({f[g] : g \in G})
  <2>1. IsFiniteSet(G) /\ G \subseteq DOMAIN f
    BY GroupsFinite
  <2> HIDE DEF f, G
  <2> QED
    BY <2>1, ImageFinite
<1>2. \A T \in {f[g] : g \in G} : IsFiniteSet(T)
  <2> SUFFICES ASSUME NEW g \in G
               PROVE  IsFiniteSet({g} \X (1 .. LimitForGroup(p, g)))
    OBVIOUS
  <2>1. LimitForGroup(p, g) \in Nat
    BY GroupLimit DEF OtherGroups
  <2>2. IsFiniteSet({g}) /\ IsFiniteSet(1 .. LimitForGroup(p, g))
    <3>1. 1 \in Int /\ LimitForGroup(p, g) \in Int
      BY <2>1
    <3>2. IsFiniteSet(1 .. LimitForGroup(p, g))
      BY <3>1, FS_Interval
    <3> QED
      BY <3>2, FS_Singleton
  <2> QED
    BY <2>2, FS_Product
<1>3. OtherThreads(p) = UNION {f[g] : g \in G}
  BY DEF OtherThreads
<1> QED
  BY <1>1, <1>2, <1>3, FS_UNION, FS_CardinalityType DEF Reserved

(* fit_to_pool changes the scoring lane's cap alone, never to more than    *)
(* what the other lanes leave.                                             *)
LEMMA FitsPool ==
  ASSUME NEW p \in Policies
  PROVE  /\ FitToPool(p).mode = p.mode
         /\ FitToPool(p).llm \in Nat
         /\ FitToPool(p).llm <= Larger(1, MaxWorkers - Reserved(p))
         /\ \A o : Lane(o, FitToPool(p)) = Lane(o, p)
         /\ \A g, R : InLane(g, R, FitToPool(p)) = InLane(g, R, p)
         /\ \A g : g # "llm" => LimitForGroup(FitToPool(p), g) = LimitForGroup(p, g)
         /\ \A g : LimitForGroup(FitToPool(p), g) \in Nat
<1>1. p.llm \in Nat /\ Reserved(p) \in Nat /\ MaxWorkers \in Nat /\ p = [llm |-> p.llm, mode |-> p.mode]
  BY LlmLimit, ThreadsFinite, PolicyAssumption DEF Policies
<1>2. FitToPool(p) = [llm |-> Smaller(p.llm, Larger(1, MaxWorkers - Reserved(p))), mode |-> p.mode]
  BY <1>1 DEF FitToPool
<1>3. /\ FitToPool(p).mode = p.mode
      /\ FitToPool(p).llm \in Nat
      /\ FitToPool(p).llm <= Larger(1, MaxWorkers - Reserved(p))
  BY <1>1, <1>2 DEF Smaller, Larger
<1>4. /\ \A o : Lane(o, FitToPool(p)) = Lane(o, p)
      /\ \A g, R : InLane(g, R, FitToPool(p)) = InLane(g, R, p)
  BY <1>3 DEF Lane, InLane
<1>5. /\ \A g : g # "llm" => LimitForGroup(FitToPool(p), g) = LimitForGroup(p, g)
      /\ \A g : LimitForGroup(FitToPool(p), g) \in Nat
  BY <1>3, GroupLimit DEF LimitForGroup
<1> QED
  BY <1>3, <1>4, <1>5

-----------------------------------------------------------------------------
(* No lost wakeup.  Whoever is admitted beside more would be admitted      *)
(* beside less...                                                          *)
LEMMA AdmitsBesideLess ==
  ASSUME TypeOK, NEW o, NEW B \in SUBSET Ops, NEW A \in SUBSET B,
         Admits(o, B, FitToPool(policy))
  PROVE  Admits(o, A, FitToPool(policy))
<1> DEFINE fit == FitToPool(policy)
           g == Lane(o, fit)
<1>1. IsFiniteSet(B) /\ Cardinality(A) <= Cardinality(B) /\ Cardinality(A) \in Nat /\ Cardinality(B) \in Nat
  BY FiniteOps, FS_Subset
<1>2. Cardinality(A) < MaxWorkers
  BY <1>1, PolicyAssumption DEF Admits
<1>3. LaneHasRoom(o, B, fit) => LaneHasRoom(o, A, fit)
  <2> DEFINE LA == InLane(g, A, fit)
             LB == InLane(g, B, fit)
  <2>1. LA \subseteq LB /\ LB \subseteq Ops
    BY DEF InLane
  <2> HIDE DEF LA, LB
  <2>2. Cardinality(LA) <= Cardinality(LB) /\ Cardinality(LA) \in Nat /\ Cardinality(LB) \in Nat
    BY <2>1, FiniteOps, FS_Subset
  <2>3. LimitForGroup(fit, g) \in Nat
    BY FitsPool DEF TypeOK
  <2> QED
    BY <2>2, <2>3 DEF LaneHasRoom, LA, LB
<1>4. CanStart(o, A, fit)
  BY <1>3 DEF Admits, CanStart
<1> QED
  BY <1>2, <1>4 DEF Admits

(* ... so what a pass over the whole queue leaves there, nobody admits     *)
(* beside what it claimed.                                                 *)
LEMMA PickDrains ==
  ASSUME TypeOK, Window = Queued, inflight \cap Queued = {},
         NEW S \in SUBSET Window, GreedyPick(S)
  PROVE  \A o \in Queued \ S : ~Admits(o, inflight \cup S, FitToPool(policy))
<1> SUFFICES ASSUME NEW o \in Queued \ S, Admits(o, inflight \cup S, FitToPool(policy))
             PROVE  FALSE
  OBVIOUS
<1> DEFINE beside == inflight \cup {p \in S : Before(p, o)}
<1>1. inflight \cup S \subseteq Ops
  BY DEF TypeOK, Queued
<1>2. beside \subseteq inflight \cup S
  OBVIOUS
<1>3. Admits(o, beside, FitToPool(policy))
  <2> HIDE DEF beside
  <2> QED
    BY <1>1, <1>2, AdmitsBesideLess
<1> QED
  BY <1>3 DEF GreedyPick

LEMMA PumpDrains ==
  ASSUME IInv, QueueOrder, Owned, Cardinality(Queued) <= ScanLimit,
         used.faults = 0, proc = "up", NEW next, PumpBody(next), UNCHANGED policy
  PROVE  \A o \in Queued' : ~Admits(o, inflight', FitToPool(policy'))
<1>1. Window = Queued
  BY WindowIsQueue DEF IInv
<1>2. inflight \cap Queued = {}
  BY DEF Owned, OwnedRow, Alive, Queued
<1>3. PICK S \in SUBSET Window : GreedyPick(S) /\ Claim(S)
  BY DEF PumpBody
<1>4. Queued' = Queued \ S /\ inflight' = inflight \cup S
  BY <1>3 DEF IInv, TypeOK, Claim, Set, Queued, Window
<1> QED
  BY <1>1, <1>2, <1>3, <1>4, PickDrains DEF IInv

LEMMA StrandedStep ==
  ASSUME IInv, QueueOrder, Owned, Cardinality(Queued) <= ScanLimit, NothingStranded, [Next]_vars
  PROVE  NothingStranded'
<1> SUFFICES ASSUME proc' = "up", used'.faults = 0, ~owed', At("popped")' = {}
             PROVE  \A o \in Queued' : ~Admits(o, inflight', FitToPool(policy'))
  BY DEF NothingStranded
<1>1. TypeOK
  BY DEF IInv
<1>2. ASSUME UNCHANGED <<inflight, policy, proc, used, owed>>, Queued' \subseteq Queued, At("popped") = {}
      PROVE  \A o \in Queued' : ~Admits(o, inflight', FitToPool(policy'))
  BY <1>2 DEF NothingStranded
<1>3. ASSUME NEW batch, Create(batch)
      PROVE  FALSE
  BY <1>3 DEF Create
<1>4. CASE Pump
  BY <1>4, PumpDrains DEF Pump
<1>5. ASSUME NEW o \in Ops, WorkerPump(o)
      PROVE  \A p \in Queued' : ~Admits(p, inflight', FitToPool(policy'))
  BY <1>5, PumpDrains DEF WorkerPump
<1>6. CASE PumpFails \/ \E o \in Ops : SettleFails(o)
  <2>1. used' = [used EXCEPT !.faults = @ + 1]
    BY <1>6 DEF PumpFails, FailedClaim, SettleFails
  <2> QED
    BY <1>1, <2>1, FaultEnds
<1>7. ASSUME NEW o \in Ops, HandOff(o) \/ TakeThread(o) \/ Call(o) \/ CancelRunning(o)
      PROVE  \A p \in Queued' : ~Admits(p, inflight', FitToPool(policy'))
  <2>1. UNCHANGED <<inflight, policy, proc, used, owed>> /\ Queued' = Queued
    BY <1>7 DEF HandOff, TakeThread, Call, CancelRunning, Queued
  <2>2. At("popped") = {}
    BY <1>1, <1>7 DEF HandOff, TakeThread, Call, CancelRunning, Step, TypeOK, At
  <2> QED
    BY <1>2, <2>1, <2>2
<1>8. ASSUME NEW o \in Ops, Reject(o) \/ Succeed(o) \/ Fail(o) \/ StopSeen(o)
      PROVE  \A p \in Queued' : ~Admits(p, inflight', FitToPool(policy'))
  <2>1. UNCHANGED <<inflight, policy, proc, used, owed>> /\ Queued' \subseteq Queued
    BY <1>1, <1>8 DEF Reject, Succeed, Fail, StopSeen, Settle, Queued, TypeOK
  <2>2. At("popped") = {}
    BY <1>1, <1>8 DEF Reject, Succeed, Fail, StopSeen, Settle, TypeOK, At
  <2> QED
    BY <1>2, <2>1, <2>2
<1>9. ASSUME NEW o \in Ops, Pop(o)
      PROVE  FALSE
  BY <1>1, <1>9 DEF Pop, Step, TypeOK, At
<1>10. ASSUME NEW o \in Ops, ChainHook(o)
       PROVE  \A p \in Queued' : ~Admits(p, inflight', FitToPool(policy'))
  <2>1. UNCHANGED <<inflight, policy, proc, used, owed>> /\ Queued' = Queued
    BY <1>3, <1>10 DEF ChainHook, Queued
  <2>2. At("popped") = {}
    BY <1>1, <1>10 DEF ChainHook, Step, TypeOK, At
  <2> QED
    BY <1>2, <2>1, <2>2
<1>11. ASSUME NEW o \in Ops, CancelQueued(o)
       PROVE  \A p \in Queued' : ~Admits(p, inflight', FitToPool(policy'))
  BY <1>1, <1>2, <1>11 DEF CancelQueued, memory, Queued, At, TypeOK
<1>12. CASE Settings
  BY <1>12 DEF Settings, Alive
<1>13. CASE Shutdown \/ PoolShutdown \/ Crash \/ Boot
  BY <1>13 DEF Shutdown, PoolShutdown, Crash, Boot
<1>14. CASE UNCHANGED vars
  BY <1>2, <1>14 DEF vars, Queued, At
<1> QED
  BY <1>3, <1>4, <1>5, <1>6, <1>7, <1>8, <1>9, <1>10, <1>11, <1>12, <1>13, <1>14
     DEF Next, Worker, Submit, SubmitMany

(* As long as the queue fits one pass (DISPATCH_SCAN_LIMIT), no row that    *)
(* the policy admits is left waiting once everybody who has something to    *)
(* pump for has pumped: for any lanes, pool size, settings and restarts.   *)
THEOREM NoLostWakeup == Spec /\ [](Cardinality(Queued) <= ScanLimit) => []NothingStranded
<1> DEFINE J == QueueOrder /\ Owned /\ NothingStranded
<1>1. Init => J
  BY DEF Init, QueueOrder, Queued, Owned, Alive, NothingStranded
<1>2. IInv /\ J /\ Cardinality(Queued) <= ScanLimit /\ [Next]_vars => J'
  BY OrderStep, OwnedNext, StrandedStep
<1> QED
  BY <1>1, <1>2, InductiveInvariant, PTL DEF Spec

-----------------------------------------------------------------------------
(* A click has a thread.  One pass never fills a lane past its width: the  *)
(* last row it takes for a lane found room beside all the others.          *)
LEMMA LaneOfOp ==
  ASSUME TypeOK, NEW o \in Ops
  PROVE  Lane(o, policy) \in OtherGroups(policy) \cup {"llm"}
BY PolicyAssumption DEF Lane, OtherGroups

LEMMA WidthType ==
  ASSUME TypeOK, NEW g
  PROVE  /\ Width(g) \in Nat \ {0}
         /\ LimitForGroup(FitToPool(policy), g) <= Width(g)
<1>1. policy \in Policies
  BY DEF TypeOK
<1>2. Reserved(policy) \in Nat /\ MaxWorkers \in Nat
  BY <1>1, ThreadsFinite, PolicyAssumption
<1>3. CASE g = "llm"
  <2>1. FitToPool(policy).llm <= Larger(1, MaxWorkers - Reserved(policy))
    BY <1>1, FitsPool
  <2> QED
    BY <1>2, <1>3, <2>1 DEF Width, LimitForGroup, Larger
<1>4. CASE g # "llm"
  <2>1. LimitForGroup(FitToPool(policy), g) = LimitForGroup(policy, g)
    BY <1>1, <1>4, FitsPool
  <2> QED
    BY <1>1, <1>4, <2>1, GroupLimit DEF Width
<1> QED
  BY <1>3, <1>4

LEMMA PickFits ==
  ASSUME TypeOK, QueueTotal, QueueOrder, NoLaneOver,
         NEW S \in SUBSET Window, GreedyPick(S),
         NEW g \in OtherGroups(policy) \cup {"llm"}
  PROVE  Cardinality(InLane(g, inflight \cup S, policy)) <= Width(g)
<1> DEFINE L == {p \in S : Lane(p, policy) = g}
<1>1. S \subseteq Queued /\ S \subseteq Ops /\ inflight \subseteq Ops
  BY DEF Window, Queued, TypeOK
<1>2. CASE L = {}
  <2>1. InLane(g, inflight \cup S, policy) = InLane(g, inflight, policy)
    BY <1>2 DEF InLane
  <2> QED
    BY <2>1 DEF NoLaneOver
<1>3. CASE L # {}
  <2>1. PICK o \in L : \A p \in L : p = o \/ Before(p, o)
    BY <1>1, <1>3, LastOfQueued
  <2> DEFINE beside == inflight \cup {p \in S : Before(p, o)}
             held == InLane(g, beside, policy)
             fit == FitToPool(policy)
  <2>2. CanStart(o, beside, fit) /\ Lane(o, fit) = g
    BY <2>1, FitsPool DEF GreedyPick, Admits, TypeOK
  <2>3. held \subseteq Ops /\ IsFiniteSet(held) /\ Cardinality(held) \in Nat
    <3>1. held \subseteq Ops
      BY <1>1 DEF InLane
    <3> HIDE DEF held
    <3> QED
      BY <3>1, FiniteOps
  <2>4. InLane(g, inflight \cup S, policy) \subseteq held \cup {o}
    BY <2>1 DEF InLane
  <2>5. Cardinality(InLane(g, inflight \cup S, policy)) <= Cardinality(held) + 1
    <3> HIDE DEF held
    <3>1. /\ IsFiniteSet(held \cup {o})
          /\ Cardinality(held \cup {o}) \in {Cardinality(held), Cardinality(held) + 1}
      BY <2>3, FS_AddElement
    <3>2. /\ Cardinality(InLane(g, inflight \cup S, policy)) <= Cardinality(held \cup {o})
          /\ Cardinality(InLane(g, inflight \cup S, policy)) \in Nat
      BY <2>4, <3>1, FS_Subset, FS_CardinalityType
    <3> QED
      BY <2>3, <3>1, <3>2
  <2>6. Cardinality(held) < Width(g)
    <3>1. CASE Exclusive(o)
      <4>1. held = {}
        BY <2>2, <3>1 DEF CanStart, InLane
      <4> HIDE DEF held
      <4>2. Cardinality(held) = 0
        BY <4>1, FS_EmptySet
      <4> QED
        BY <4>2, WidthType
    <3>2. CASE ~Exclusive(o)
      <4>1. Cardinality(InLane(g, beside, fit)) < LimitForGroup(fit, g)
        BY <2>2, <3>2 DEF CanStart, LaneHasRoom
      <4>2. InLane(g, beside, fit) = held
        BY FitsPool DEF TypeOK
      <4>3. LimitForGroup(fit, g) \in Nat /\ LimitForGroup(fit, g) <= Width(g) /\ Width(g) \in Nat
        BY FitsPool, WidthType DEF TypeOK
      <4> HIDE DEF held, fit, beside
      <4> QED
        BY <2>3, <4>1, <4>2, <4>3
    <3> QED
      BY <3>1, <3>2
  <2> HIDE DEF held
  <2>7. Cardinality(InLane(g, inflight \cup S, policy)) \in Nat
    <3>1. InLane(g, inflight \cup S, policy) \in SUBSET Ops
      BY <1>1 DEF InLane
    <3> QED
      BY <3>1, FiniteOps
  <2> QED
    BY <2>3, <2>5, <2>6, <2>7, WidthType
<1> QED
  BY <1>2, <1>3

(* Whatever leaves `_running` leaves the lanes no fuller.                  *)
LEMMA FewerFit ==
  ASSUME TypeOK, NoLaneOver, inflight' \subseteq inflight, UNCHANGED policy
  PROVE  NoLaneOver'
<1> SUFFICES ASSUME NEW g \in OtherGroups(policy) \cup {"llm"}
             PROVE  Cardinality(InLane(g, inflight', policy)) <= Width(g)
  BY DEF NoLaneOver, Width
<1> DEFINE A == InLane(g, inflight', policy)
           B == InLane(g, inflight, policy)
<1>1. A \subseteq B /\ B \subseteq Ops
  BY DEF InLane, TypeOK
<1>2. Cardinality(B) <= Width(g)
  BY DEF NoLaneOver
<1> HIDE DEF A, B
<1>3. Cardinality(A) <= Cardinality(B) /\ Cardinality(A) \in Nat /\ Cardinality(B) \in Nat
  BY <1>1, FiniteOps, FS_Subset
<1>4. Cardinality(A) <= Width(g)
  BY <1>2, <1>3, WidthType
<1> QED
  BY <1>4 DEF A

(* The lanes and their widths depend on the queue mode alone.              *)
LEMMA SameModeSameLanes ==
  ASSUME TypeOK, TypeOK', policy'.mode = policy.mode
  PROVE  /\ OtherGroups(policy') = OtherGroups(policy)
         /\ \A g, R : InLane(g, R, policy') = InLane(g, R, policy)
         /\ \A g : Width(g)' = Width(g)
<1>1. OtherGroups(policy') = OtherGroups(policy)
  BY DEF OtherGroups
<1>2. \A g, R : InLane(g, R, policy') = InLane(g, R, policy)
  BY DEF InLane, Lane
<1>3. \A g : g # "llm" => LimitForGroup(policy', g) = LimitForGroup(policy, g)
  BY DEF LimitForGroup
<1>4. OtherThreads(policy') = OtherThreads(policy)
  <2>1. \A g \in OtherGroups(policy) : LimitForGroup(policy', g) = LimitForGroup(policy, g)
    BY <1>3 DEF OtherGroups
  <2> QED
    BY <1>1, <2>1 DEF OtherThreads
<1>5. Reserved(policy') = Reserved(policy)
  BY <1>4 DEF Reserved
<1> QED
  BY <1>1, <1>2, <1>3, <1>5 DEF Width

LEMMA LaneStep ==
  ASSUME IInv, TypeOK', QueueOrder, ModeKept => NoLaneOver, [Next]_vars, ModeKept'
  PROVE  NoLaneOver'
<1>1. TypeOK /\ QueueTotal
  BY DEF IInv
<1>2. NoLaneOver
  <2>1. \/ used' = used
        \/ used' = [used EXCEPT !.boots = @ + 1]
        \/ used' = [used EXCEPT !.settings = @ + 1]
        \/ used' = [used EXCEPT !.faults = @ + 1]
    BY DEF Next, vars, Worker, Submit, SubmitMany, CancelQueued, CancelRunning, Pump, PumpFails,
           FailedClaim, HandOff, TakeThread, Reject, Call, Succeed, Fail, StopSeen, SettleFails,
           ChainHook, Pop, WorkerPump, Settle, Settings, Shutdown, PoolShutdown, Crash, Boot, Reboot
  <2>2. used.settings \in Nat /\ (used'.settings = 0 => used.settings = 0)
    BY <1>1, <2>1 DEF TypeOK, Budget
  <2> QED
    BY <2>2 DEF ModeKept
<1>3. ASSUME inflight' \subseteq inflight, UNCHANGED policy
      PROVE  NoLaneOver'
  BY <1>1, <1>2, <1>3, FewerFit
<1>4. ASSUME NEW S \in SUBSET Window, GreedyPick(S), inflight' = inflight \cup S, UNCHANGED policy
      PROVE  NoLaneOver'
  <2>1. \A g \in OtherGroups(policy) \cup {"llm"} :
          Cardinality(InLane(g, inflight \cup S, policy)) <= Width(g)
    BY <1>1, <1>2, <1>4, PickFits
  <2> QED
    BY <1>4, <2>1 DEF NoLaneOver, Width
<1>5. ASSUME NEW next, PumpBody(next), UNCHANGED policy
      PROVE  NoLaneOver'
  BY <1>3, <1>4, <1>5 DEF PumpBody, Claim
<1>6. CASE PumpFails
  <2>1. PICK next : FailedClaim(next)
    BY <1>6 DEF PumpFails
  <2> QED
    BY <1>4, <2>1 DEF FailedClaim
<1>7. CASE Settings
  <2>1. \/ \E limit \in LlmLimits : policy' = [policy EXCEPT !.llm = limit]
        \/ \E mode \in Modes : policy' = [policy EXCEPT !.mode = mode]
    BY <1>7 DEF Settings
  <2>2. used'.settings # 0
    BY <1>1, <1>7 DEF Settings, TypeOK, Budget
  <2>3. policy'.mode = policy.mode
    BY <1>1, <2>1, <2>2 DEF ModeKept, TypeOK, Policies
  <2>4. inflight' = inflight
    BY <1>7 DEF Settings, memory
  <2> QED
    BY <1>1, <1>2, <2>3, <2>4, SameModeSameLanes DEF NoLaneOver
<1>8. ASSUME NEW o \in Ops, Submit(o) \/ CancelQueued(o) \/ CancelRunning(o) \/ HandOff(o)
               \/ TakeThread(o) \/ Reject(o) \/ Call(o) \/ Succeed(o) \/ Fail(o) \/ StopSeen(o)
               \/ SettleFails(o) \/ ChainHook(o) \/ Pop(o)
      PROVE  inflight' \subseteq inflight /\ UNCHANGED policy
  BY <1>8 DEF Submit, CancelQueued, CancelRunning, HandOff, TakeThread, Reject, Call, Succeed,
              Fail, StopSeen, SettleFails, ChainHook, Pop, Settle, memory
<1>9. ASSUME NEW batch \in Batches, SubmitMany(batch)
      PROVE  inflight' \subseteq inflight /\ UNCHANGED policy
  BY <1>9 DEF SubmitMany, memory
<1>10. CASE Shutdown \/ PoolShutdown \/ Crash \/ Boot \/ UNCHANGED vars
  BY <1>3, <1>10 DEF Shutdown, PoolShutdown, Crash, Boot, memory, vars
<1> QED
  BY <1>3, <1>5, <1>6, <1>7, <1>8, <1>9, <1>10 DEF Next, Worker, Pump, WorkerPump

(* Of the lanes beside scoring, one that is not full leaves one of the     *)
(* reserved threads unused.                                                *)
LEMMA ReservedHolds ==
  ASSUME TypeOK, NoLaneOver, NEW h \in OtherGroups(policy),
         Cardinality(InLane(h, inflight, policy)) < LimitForGroup(policy, h)
  PROVE  Cardinality({r \in inflight : Lane(r, policy) # "llm"}) < Reserved(policy)
<1> DEFINE A == {r \in inflight : Lane(r, policy) # "llm"}
           Held(g) == InLane(g, inflight, policy)
           n(g) == Cardinality(Held(g))
           num == [g \in OtherGroups(policy) |-> CHOOSE b : b \in Bijection(1 .. n(g), Held(g))]
           T == {t \in OtherThreads(policy) : t[2] <= n(t[1])}
           f == [t \in T |-> num[t[1]][t[2]]]
<1>1. ASSUME NEW g \in OtherGroups(policy)
      PROVE  /\ n(g) \in Nat /\ LimitForGroup(policy, g) \in Nat /\ n(g) <= LimitForGroup(policy, g)
             /\ num[g] \in Bijection(1 .. n(g), Held(g))
  <2>1. Held(g) \in SUBSET Ops /\ g # "llm"
    BY DEF InLane, TypeOK, OtherGroups
  <2>2. LimitForGroup(policy, g) \in Nat
    BY <2>1, GroupLimit DEF TypeOK
  <2>3. n(g) <= LimitForGroup(policy, g)
    BY <2>1 DEF NoLaneOver, Width
  <2>4. n(g) \in Nat /\ IsFiniteSet(Held(g))
    <3> HIDE DEF Held
    <3> QED
      BY <2>1, FiniteOps
  <2>5. ExistsBijection(1 .. n(g), Held(g))
    <3> HIDE DEF Held
    <3> QED
      BY <2>4, FS_CardinalityType
  <2> QED
    BY <2>2, <2>3, <2>4, <2>5 DEF ExistsBijection
<1> HIDE DEF num
<1>2. \A t \in T : t[1] \in OtherGroups(policy) /\ t[2] \in 1 .. n(t[1])
  BY <1>1 DEF OtherThreads
<1>3. f \in Surjection(T, A)
  <2>1. ASSUME NEW t \in T
        PROVE  f[t] \in A
    <3>1. f[t] = num[t[1]][t[2]] /\ num[t[1]] \in [1 .. n(t[1]) -> Held(t[1])]
      BY <1>1, <1>2 DEF Bijection, Injection
    <3>2. f[t] \in Held(t[1])
      BY <1>2, <3>1
    <3> QED
      BY <1>2, <3>2 DEF InLane, OtherGroups
  <2>2. ASSUME NEW r \in A
        PROVE  \E t \in T : f[t] = r
    <3> DEFINE g == Lane(r, policy)
    <3>1. g \in OtherGroups(policy) /\ r \in Held(g)
      BY LaneOfOp DEF InLane, TypeOK
    <3>2. PICK i \in 1 .. n(g) : num[g][i] = r
      BY <1>1, <3>1 DEF Bijection, Surjection
    <3>3. <<g, i>> \in OtherThreads(policy)
      <4>1. i \in 1 .. LimitForGroup(policy, g)
        BY <1>1, <3>1, <3>2
      <4> HIDE DEF g
      <4> QED
        BY <3>1, <4>1 DEF OtherThreads
    <3>4. <<g, i>> \in T /\ f[<<g, i>>] = r
      BY <3>2, <3>3
    <3> QED
      BY <3>4
  <2> QED
    BY <2>1, <2>2 DEF Surjection
<1>4. T \subseteq OtherThreads(policy) /\ <<h, LimitForGroup(policy, h)>> \in OtherThreads(policy) \ T
  <2>1. LimitForGroup(policy, h) \in 1 .. LimitForGroup(policy, h)
    BY <1>1, GroupLimit DEF TypeOK, OtherGroups
  <2>2. ~(LimitForGroup(policy, h) <= n(h))
    BY <1>1
  <2> QED
    BY <2>1, <2>2 DEF OtherThreads
<1>5. IsFiniteSet(OtherThreads(policy)) /\ Reserved(policy) \in Nat
  BY ThreadsFinite DEF TypeOK
<1> HIDE DEF T, f, A
<1>6. IsFiniteSet(T) /\ Cardinality(T) \in Nat /\ Cardinality(T) < Reserved(policy)
  BY <1>4, <1>5, FS_Subset, FS_CardinalityType DEF Reserved
<1>7. Cardinality(A) <= Cardinality(T) /\ IsFiniteSet(A)
  BY <1>3, <1>6, FS_Surjection
<1>8. Cardinality(A) \in Nat
  BY <1>7, FS_CardinalityType
<1>9. Cardinality(A) < Reserved(policy)
  BY <1>5, <1>6, <1>7, <1>8
<1> QED
  BY <1>9 DEF A

LEMMA LanesLeaveThread ==
  ASSUME TypeOK, NoLaneOver
  PROVE  ClickHasThread
<1> SUFFICES ASSUME Reserved(policy) < MaxWorkers, NEW o \in Queued,
                    Lane(o, policy) # "llm", LaneHasRoom(o, inflight, FitToPool(policy))
             PROVE  Cardinality(inflight) < MaxWorkers
  BY DEF ClickHasThread
<1> DEFINE h == Lane(o, policy)
           A == {r \in inflight : Lane(r, policy) # "llm"}
           B == InLane("llm", inflight, policy)
<1>1. o \in Ops /\ policy \in Policies /\ A \subseteq Ops /\ B \subseteq Ops
  BY DEF Queued, TypeOK, InLane
<1>2. h \in OtherGroups(policy)
  BY <1>1, LaneOfOp
<1>3. Cardinality(InLane(h, inflight, policy)) < LimitForGroup(policy, h)
  <2>1. /\ Lane(o, FitToPool(policy)) = h
        /\ InLane(h, inflight, FitToPool(policy)) = InLane(h, inflight, policy)
        /\ LimitForGroup(FitToPool(policy), h) = LimitForGroup(policy, h)
    BY <1>1, FitsPool
  <2> QED
    BY <2>1 DEF LaneHasRoom
<1>4. Cardinality(A) < Reserved(policy)
  BY <1>2, <1>3, ReservedHolds
<1>5. Cardinality(B) <= MaxWorkers - Reserved(policy)
  <2>1. Reserved(policy) \in Nat /\ MaxWorkers \in Nat
    BY <1>1, ThreadsFinite, PolicyAssumption
  <2>2. Width("llm") = MaxWorkers - Reserved(policy)
    BY <2>1 DEF Width, Larger
  <2> QED
    BY <2>2 DEF NoLaneOver
<1>6. inflight = A \cup B
  BY DEF InLane
<1>7. /\ IsFiniteSet(A) /\ IsFiniteSet(B) /\ Cardinality(A) \in Nat /\ Cardinality(B) \in Nat
      /\ Reserved(policy) \in Nat /\ MaxWorkers \in Nat
  <2> HIDE DEF A, B
  <2> QED
    BY <1>1, FiniteOps, ThreadsFinite, PolicyAssumption
<1> HIDE DEF A, B
<1>8. Cardinality(A \cap B) \in Nat
  BY <1>7, FS_Intersection, FS_CardinalityType
<1>9. Cardinality(A \cup B) = Cardinality(A) + Cardinality(B) - Cardinality(A \cap B)
  BY <1>7, FS_Union
<1> QED
  BY <1>4, <1>5, <1>6, <1>7, <1>8, <1>9

(* As long as the queue mode is not switched under running operations, a   *)
(* row of any lane but scoring that its own cap admits has a thread, however *)
(* large the saved "Parallel AI calls": for every lane table and pool that *)
(* is larger than what the other lanes reserve.                            *)
THEOREM ClicksHaveThreads == Spec => []ClickHasThread
<1> DEFINE J == QueueOrder /\ (ModeKept => NoLaneOver)
<1>1. ASSUME Init
      PROVE  J
  <2>1. TypeOK
    BY <1>1, InitInv DEF IInv
  <2>2. \A g : Cardinality(InLane(g, inflight, policy)) = 0
    BY <1>1, FS_EmptySet DEF Init, InLane
  <2>3. \A g : Width(g) \in Nat
    BY <2>1, WidthType
  <2> QED
    BY <1>1, <2>2, <2>3 DEF Init, QueueOrder, Queued, NoLaneOver
<1>2. IInv /\ TypeOK' /\ J /\ [Next]_vars => J'
  BY OrderStep, LaneStep
<1>3. IInv /\ J => ClickHasThread
  BY LanesLeaveThread DEF IInv, ClickHasThread
<1> QED
  BY <1>1, <1>2, <1>3, InductiveInvariant, TypeCorrect, PTL DEF Spec

-----------------------------------------------------------------------------
(* The runner implements the ledger.  What the mapping needs beside the    *)
(* invariants above: a row not yet created has no call to its name, and a  *)
(* worker that is in its call has been counted.                            *)
Counted ==
  \A o \in Ops : /\ row[o] = "absent" => calls[o] = 0
                 /\ stage[o] = "call" => calls[o] = 1

LEMMA CountedStep ==
  ASSUME IInv, Counted, [Next]_vars
  PROVE  Counted'
<1>1. TypeOK
  BY DEF IInv
<1>2. ASSUME NEW batch \in Seq(Ops), Range(batch) \subseteq Fresh, Create(batch),
             \A p \in Ops : stage'[p] = stage[p] \/ stage'[p] = "written"
      PROVE  Counted'
  <2> SUFFICES ASSUME NEW p \in Ops
               PROVE  /\ row'[p] = "absent" => calls'[p] = 0
                      /\ stage'[p] = "call" => calls'[p] = 1
    BY DEF Counted
  <2>1. /\ p \in Range(batch) => row'[p] = "queued" /\ stage[p] = "idle"
        /\ p \notin Range(batch) => row'[p] = row[p] /\ calls'[p] = calls[p]
    BY <1>2, CreateWrites DEF IInv
  <2> QED
    BY <1>2, <2>1 DEF Counted
<1>3. ASSUME UNCHANGED calls, \A p \in Ops : row'[p] = "absent" => row[p] = "absent",
             \A p \in Ops : stage'[p] = "call" => stage[p] = "call"
      PROVE  Counted'
  BY <1>3 DEF Counted
<1>4. ASSUME NEW o \in Ops, Submit(o)
      PROVE  Counted'
  <2>1. <<o>> \in Seq(Ops) /\ Range(<<o>>) \subseteq Fresh /\ Create(<<o>>) /\ stage' = stage
    BY <1>4 DEF Submit, Range, memory
  <2> QED
    BY <1>2, <2>1
<1>5. ASSUME NEW batch \in Batches, SubmitMany(batch)
      PROVE  Counted'
  BY <1>2, <1>5, RunnerAssumption DEF SubmitMany, memory
<1>6. ASSUME NEW next, PumpBody(next), UNCHANGED calls,
             \A p \in Ops : next[p] = "call" => stage[p] = "call",
             DOMAIN next = Ops
      PROVE  Counted'
  <2>1. CASE proc \in {"draining", "shut"}
    BY <1>3, <1>6, <2>1 DEF PumpBody
  <2>2. CASE proc = "up"
    <3>1. PICK S \in SUBSET Window : Claim(S) /\ stage' = Set(next, S, "claimed")
      BY <1>6, <2>2 DEF PumpBody
    <3> QED
      BY <1>1, <1>3, <1>6, <3>1 DEF Claim, Set, TypeOK
  <2> QED
    BY <1>6, <2>1, <2>2 DEF PumpBody
<1>7. CASE Pump
  BY <1>1, <1>6, <1>7 DEF Pump, TypeOK
<1>8. ASSUME NEW o \in Ops, WorkerPump(o)
      PROVE  Counted'
  <2> DEFINE next == [stage EXCEPT ![o] = "idle"]
  <2>1. DOMAIN next = Ops /\ \A p \in Ops : next[p] = "call" => stage[p] = "call"
    BY <1>1 DEF TypeOK
  <2>2. PumpBody(next) /\ UNCHANGED calls
    BY <1>8 DEF WorkerPump
  <2> HIDE DEF next
  <2> QED
    BY <1>6, <2>1, <2>2
<1>9. CASE PumpFails
  <2>1. UNCHANGED <<row, calls>> /\ \A p \in Ops : stage'[p] = "call" => stage[p] = "call"
    BY <1>1, <1>9 DEF PumpFails, FailedClaim, TypeOK, At
  <2> QED
    BY <1>3, <2>1
<1>10. ASSUME NEW o \in Ops, Call(o)
       PROVE  Counted'
  BY <1>1, <1>10 DEF Call, Step, IInv, StageOK, TypeOK, Counted
<1>11. ASSUME NEW o \in Ops, HandOff(o) \/ TakeThread(o) \/ Reject(o) \/ Succeed(o) \/ Fail(o)
                \/ StopSeen(o) \/ SettleFails(o) \/ Pop(o)
       PROVE  Counted'
  BY <1>1, <1>3, <1>11 DEF HandOff, TakeThread, Reject, Succeed, Fail, StopSeen, SettleFails, Pop,
                           Settle, Step, TypeOK
<1>12. ASSUME NEW o \in Ops, ChainHook(o)
       PROVE  Counted'
  <2>1. \A p \in Ops : stage'[p] = stage[p] \/ stage'[p] = "written"
    BY <1>1, <1>12 DEF ChainHook, Step, TypeOK
  <2>2. CASE \E batch \in Batches : Range(batch) \subseteq Fresh /\ Create(batch)
    BY <1>2, <2>1, <2>2, RunnerAssumption
  <2>3. CASE UNCHANGED <<row, older, calls, owed>>
    BY <1>3, <2>1, <2>3
  <2> QED
    BY <1>12, <2>2, <2>3 DEF ChainHook
<1>13. ASSUME NEW o \in Ops, CancelQueued(o) \/ CancelRunning(o)
       PROVE  Counted'
  BY <1>1, <1>3, <1>13 DEF CancelQueued, CancelRunning, memory, TypeOK
<1>14. CASE Settings \/ Shutdown \/ PoolShutdown \/ Crash \/ Boot \/ UNCHANGED vars
  BY <1>1, <1>3, <1>14 DEF Settings, Shutdown, PoolShutdown, Crash, Boot, Reboot, Set, memory,
                           TypeOK, vars
<1> QED
  BY <1>4, <1>5, <1>7, <1>8, <1>9, <1>10, <1>11, <1>12, <1>13, <1>14 DEF Next, Worker

(* A step that leaves row and calls alone is invisible in the ledger.      *)
LEMMA LedgerStutters ==
  ASSUME UNCHANGED <<row, calls>>
  PROVE  UNCHANGED Ledger!ledgerVars
BY DEF Ledger!ledgerVars

LEMMA LedgerEnqueue ==
  ASSUME IInv, Counted, NEW batch \in Seq(Ops), batch # <<>>,
         Range(batch) \subseteq Fresh, Create(batch)
  PROVE  Ledger!Next
<1> DEFINE R == Range(batch)
<1>1. R \in SUBSET Ops /\ R # {} /\ \A o \in R : row[o] = "absent"
  <2>1. 1 \in DOMAIN batch
    OBVIOUS
  <2> QED
    BY <2>1 DEF Range, Fresh
<1>2. row' = [o \in Ops |-> IF o \in R THEN "queued" ELSE row[o]]
  BY DEF Create, Set, IInv, TypeOK
<1>3. {o \in Ops : calls'[o] > 0} = {o \in Ops : calls[o] > 0}
  BY <1>1, CreateWrites DEF IInv, Counted
<1>4. Ledger!Enqueue(R)
  BY <1>1, <1>2, <1>3 DEF Ledger!Enqueue, Ledger!Move, Ledger!In
<1> QED
  BY <1>1, <1>4 DEF Ledger!Next

(* A pass of the pump starts what it claims beside nothing that clashes.   *)
LEMMA LedgerStart ==
  ASSUME IInv, Owned, used.faults = 0, NEW next, PumpBody(next), UNCHANGED calls
  PROVE  Ledger!Next \/ UNCHANGED Ledger!ledgerVars
<1>1. CASE proc \in {"draining", "shut"}
  BY <1>1, LedgerStutters DEF PumpBody
<1>2. CASE proc = "up"
  <2>1. PICK S \in SUBSET Window : GreedyPick(S) /\ Claim(S)
    BY <1>2 DEF PumpBody
  <2>2. S \in SUBSET Ops /\ S \subseteq Queued
    BY DEF Window, Queued
  <2>3. row' = [o \in Ops |-> IF o \in S THEN "running" ELSE row[o]]
    BY <2>1 DEF Claim, Set, IInv, TypeOK
  <2>4. \A o \in Ops : row[o] = "running" => o \in inflight
    BY <1>2 DEF Owned, OwnedRow, Alive
  <2>5. \A a, b \in inflight \cup S : a # b => ~Clashes(a, b)
    BY <2>1, PickDoesNotClash DEF IInv
  <2>6. CASE S = {}
    <3>1. row' = row
      BY <2>3, <2>6 DEF IInv, TypeOK
    <3> QED
      BY <3>1, LedgerStutters
  <2>7. CASE S # {}
    <3>1. \A o \in S, p \in S \cup Ledger!In("running") : o # p => ~Clashes(o, p)
      BY <2>4, <2>5 DEF Ledger!In
    <3>2. S \subseteq Ledger!In("queued")
      BY <2>2 DEF Ledger!In, Queued
    <3>3. Ledger!Start(S)
      BY <2>3, <2>7, <3>1, <3>2 DEF Ledger!Start, Ledger!Move
    <3> QED
      BY <2>2, <3>3 DEF Ledger!Next
  <2> QED
    BY <2>6, <2>7
<1> QED
  BY <1>1, <1>2 DEF PumpBody

LEMMA LedgerStep ==
  ASSUME IInv, Owned, Counted, used.faults = 0, used'.faults = 0, [Next]_vars
  PROVE  [Ledger!Next]_(Ledger!ledgerVars)
<1>1. TypeOK
  BY DEF IInv
<1>2. ASSUME NEW o \in Ops, Submit(o)
      PROVE  Ledger!Next
  <2>1. <<o>> \in Seq(Ops) /\ <<o>> # <<>> /\ Range(<<o>>) \subseteq Fresh /\ Create(<<o>>)
    BY <1>2 DEF Submit, Range
  <2> QED
    BY <2>1, LedgerEnqueue
<1>3. ASSUME NEW batch \in Batches, Range(batch) \subseteq Fresh, Create(batch)
      PROVE  Ledger!Next
  BY <1>3, LedgerEnqueue, RunnerAssumption
<1>4. CASE Pump \/ \E o \in Ops : WorkerPump(o)
  BY <1>4, LedgerStart DEF Pump, WorkerPump
<1>5. CASE PumpFails \/ \E o \in Ops : SettleFails(o)
  <2>1. used' = [used EXCEPT !.faults = @ + 1]
    BY <1>5 DEF PumpFails, FailedClaim, SettleFails
  <2> QED
    BY <1>1, <2>1, FaultEnds
<1>6. ASSUME NEW o \in Ops, Call(o)
      PROVE  Ledger!Next
  <2>1. row[o] = "running" /\ calls[o] = 0
    BY <1>6 DEF Call, Step, IInv, StageOK
  <2>2. calls' = [calls EXCEPT ![o] = @ + 1] /\ row' = row
    BY <1>6 DEF Call
  <2>3. {p \in Ops : calls'[p] > 0} = {p \in Ops : calls[p] > 0} \cup {o}
    BY <1>1, <2>1, <2>2 DEF TypeOK
  <2>4. Ledger!Work(o)
    BY <2>1, <2>2, <2>3 DEF Ledger!Work
  <2> QED
    BY <2>4 DEF Ledger!Next
<1>7. ASSUME NEW o \in Ops, NEW outcome \in Terminal, NEW to, Settle(o, outcome, to),
             row[o] = "running", outcome = "succeeded" => calls[o] = 1
      PROVE  Ledger!Next
  <2>1. row' = [p \in Ops |-> IF p \in {o} THEN outcome ELSE row[p]] /\ calls' = calls
    BY <1>1, <1>7 DEF Settle, TypeOK
  <2>2. Ledger!Finish(o, outcome)
    BY <1>7, <2>1 DEF Ledger!Finish, Ledger!Move
  <2>3. outcome \in Ledger!Terminal
    BY DEF Terminal, Ledger!Terminal
  <2> QED
    BY <2>2, <2>3 DEF Ledger!Next
<1>8. ASSUME NEW o \in Ops, Reject(o) \/ Succeed(o) \/ Fail(o) \/ StopSeen(o)
      PROVE  Ledger!Next
  <2>1. row[o] = "running" /\ (stage[o] = "call" => calls[o] = 1)
    BY <1>8 DEF Reject, Succeed, Fail, StopSeen, IInv, StageOK, Counted
  <2> QED
    BY <1>7, <1>8, <2>1 DEF Reject, Succeed, Fail, StopSeen, Terminal
<1>9. ASSUME NEW o \in Ops, ChainHook(o)
      PROVE  Ledger!Next \/ UNCHANGED Ledger!ledgerVars
  BY <1>3, <1>9, LedgerStutters DEF ChainHook
<1>10. ASSUME NEW o \in Ops, CancelQueued(o)
       PROVE  Ledger!Next
  <2>1. row' = [p \in Ops |-> IF p \in {o} THEN "cancelled" ELSE row[p]] /\ calls' = calls
    BY <1>1, <1>10 DEF CancelQueued, TypeOK
  <2>2. Ledger!Withdraw(o)
    BY <1>10, <2>1 DEF CancelQueued, Ledger!Withdraw, Ledger!Move
  <2> QED
    BY <2>2 DEF Ledger!Next
<1>11. CASE Boot
  <2>1. Ledger!Restart
    BY <1>1, <1>11 DEF Boot, TypeOK, Ledger!Restart, Ledger!Move, Ledger!In
  <2> QED
    BY <2>1 DEF Ledger!Next
<1>12. ASSUME NEW o \in Ops, HandOff(o) \/ TakeThread(o) \/ Pop(o) \/ CancelRunning(o)
       PROVE  UNCHANGED Ledger!ledgerVars
  BY <1>12, LedgerStutters DEF HandOff, TakeThread, Pop, CancelRunning
<1>13. CASE Settings \/ Shutdown \/ PoolShutdown \/ Crash \/ UNCHANGED vars
  BY <1>13, LedgerStutters DEF Settings, Shutdown, PoolShutdown, Crash, memory, vars
<1> QED
  BY <1>2, <1>3, <1>4, <1>5, <1>6, <1>8, <1>9, <1>10, <1>11, <1>12, <1>13
     DEF Next, Worker, SubmitMany

(* As long as no commit fails, the runner - its pumps, workers, cancels,   *)
(* settings, shutdowns, crashes and boots - implements the ledger: a row is *)
(* queued once, started at most once and beside nothing it clashes with,   *)
(* and its terminal state is final.                                        *)
THEOREM RunnerImplementsLedger == Spec /\ [](used.faults = 0) => ImplementsLedger
<1>1. ASSUME Init
      PROVE  Owned /\ Counted /\ Ledger!Init
  <2>1. {o \in Ops : calls[o] > 0} = {}
    BY <1>1 DEF Init
  <2> QED
    BY <1>1, <2>1 DEF Init, Owned, Alive, Counted, Ledger!Init
<1>2. IInv /\ Owned /\ Counted /\ [Next]_vars => Owned' /\ Counted'
  BY OwnedNext, CountedStep
<1>3. IInv /\ Owned /\ Counted /\ used.faults = 0 /\ (used.faults = 0)' /\ [Next]_vars
        => [Ledger!Next]_(Ledger!ledgerVars)
  BY LedgerStep
<1> QED
  BY <1>1, <1>2, <1>3, InductiveInvariant, PTL DEF Spec, ImplementsLedger, Ledger!Spec

-----------------------------------------------------------------------------
(* Every token belongs to an entry of `_running`, which no dispatch pass   *)
(* claims again.                                                           *)
TokenHeld == \A o \in Ops : token[o] # "none" => o \in inflight

LEMMA TokenStep ==
  ASSUME TypeOK, TokenHeld, [Next]_vars
  PROVE  /\ TokenHeld'
         /\ \A o \in Ops : token[o] = "set" =>
              token'[o] = "set" \/ stage[o] = "written" \/ proc' = "down"
<1>1. ASSUME UNCHANGED <<inflight, token>>
      PROVE  TokenHeld' /\ \A o \in Ops : token[o] = "set" => token'[o] = "set"
  BY <1>1 DEF TokenHeld
<1>2. ASSUME NEW S \in SUBSET Window, GreedyPick(S), inflight' = inflight \cup S,
             token' = Set(token, S, "clear")
      PROVE  TokenHeld' /\ \A o \in Ops : token[o] = "set" => token'[o] = "set"
  <2>1. \A o \in S : o \in Ops /\ o \notin inflight
    BY <1>2 DEF GreedyPick, Window, Queued
  <2>2. token' = [o \in Ops |-> IF o \in S THEN "clear" ELSE token[o]]
    BY <1>2 DEF Set, TypeOK
  <2> QED
    BY <1>2, <2>1, <2>2 DEF TokenHeld
<1>3. ASSUME NEW next, PumpBody(next) \/ FailedClaim(next)
      PROVE  TokenHeld' /\ \A o \in Ops : token[o] = "set" => token'[o] = "set"
  BY <1>1, <1>2, <1>3 DEF PumpBody, Claim, FailedClaim
<1>4. CASE Pump \/ PumpFails \/ \E o \in Ops : WorkerPump(o)
  BY <1>3, <1>4 DEF Pump, PumpFails, WorkerPump
<1>5. ASSUME NEW o \in Ops, Pop(o) \/ CancelRunning(o)
      PROVE  /\ TokenHeld'
             /\ \A p \in Ops : token[p] = "set" => token'[p] = "set" \/ stage[p] = "written"
  BY <1>5 DEF Pop, Step, CancelRunning, TypeOK, TokenHeld
<1>6. CASE Crash
  BY <1>6 DEF Crash, TokenHeld
<1>7. ASSUME NEW o \in Ops, Submit(o) \/ CancelQueued(o) \/ HandOff(o) \/ TakeThread(o)
               \/ Reject(o) \/ Call(o) \/ Succeed(o) \/ Fail(o) \/ StopSeen(o) \/ SettleFails(o)
               \/ ChainHook(o)
      PROVE  UNCHANGED <<inflight, token>>
  BY <1>7 DEF Submit, CancelQueued, HandOff, TakeThread, Reject, Call, Succeed, Fail, StopSeen,
              SettleFails, ChainHook, Settle, memory
<1>8. CASE Settings \/ Shutdown \/ PoolShutdown \/ Boot \/ UNCHANGED vars
           \/ \E batch \in Batches : SubmitMany(batch)
  BY <1>1, <1>8 DEF Settings, Shutdown, PoolShutdown, Boot, SubmitMany, memory, vars
<1> QED
  BY <1>1, <1>4, <1>5, <1>6, <1>7, <1>8 DEF Next, Worker

(* A Stop the runner accepted stays in force until the worker is done with *)
(* it: no pump, failed commit, second Stop or restart clears the token     *)
(* under the entrypoint that polls it.                                     *)
THEOREM StopsStay == Spec => StopStays
<1>1. Init => TokenHeld
  BY DEF Init, TokenHeld
<1>2. TypeOK /\ TokenHeld /\ [Next]_vars =>
        /\ TokenHeld'
        /\ [\A o \in Ops : token[o] = "set" =>
              token'[o] = "set" \/ stage[o] = "written" \/ proc' = "down"]_vars
  BY TokenStep
<1> QED
  BY <1>1, <1>2, TypeCorrect, PTL DEF Spec, StopStays
=============================================================================
