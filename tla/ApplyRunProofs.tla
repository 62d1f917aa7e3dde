--------------------------- MODULE ApplyRunProofs ---------------------------
(***************************************************************************)
(* The safety of apply runs for any number of runs, API threads, Submit    *)
(* clicks and restarts.  Four invariants are proved one on top of the      *)
(* other: types, the card, the clicks, and who owns an active run.         *)
(***************************************************************************)
EXTENDS ApplyRun, TLAPS

-----------------------------------------------------------------------------
(* Types                                                                   *)

RunRecord    == [status : Statuses, ready : BOOLEAN, evidence : Evidence, linked : BOOLEAN]
Control      == [live : BOOLEAN, cancelled : BOOLEAN, ask : BOOLEAN]
Results      == Statuses \cup OpStates
WorkerRecord == [at : Stages, result : Results, confirmed : BOOLEAN]
StarterRecord == [at : {"idle", "checked", "created", "submitted"}, run : Runs \cup {None}]

(* The words the actions write are in the sets the types name, which the   *)
(* proofs below then leave folded.                                         *)
LEMMA StatusWords ==
  /\ "queued" \in Statuses /\ "waiting_for_packet" \in Statuses /\ "running" \in Statuses
  /\ "interrupted" \in Statuses /\ "blocked" \in Statuses /\ "failed" \in Statuses
  /\ "ready_for_human" \in Statuses /\ "submitted" \in Statuses /\ "absent" \in Statuses
BY DEF Statuses, ActiveStatuses, HandedOff

LEMMA OpWords ==
  /\ "none" \in OpStates /\ "queued" \in OpStates /\ "running" \in OpStates
  /\ "succeeded" \in OpStates /\ "failed" \in OpStates /\ "cancelled" \in OpStates
BY DEF OpStates

LEMMA StageWords ==
  /\ "idle" \in Stages /\ "gate" \in Stages /\ "adopt" \in Stages /\ "packet" \in Stages
  /\ "waiting" \in Stages /\ "fill" \in Stages /\ "review" \in Stages /\ "asleep" \in Stages
  /\ "click" \in Stages /\ "told" \in Stages /\ "close" \in Stages /\ "fin" \in Stages
  /\ "leave" \in Stages /\ "settle" \in Stages
BY DEF Stages

LEMMA EvidenceWords ==
  /\ "none" \in Evidence /\ "confirmation_detected" \in Evidence
  /\ "user_submitted" \in Evidence /\ "user_attested" \in Evidence
BY DEF Evidence

RunsType    == run \in [Runs -> RunRecord]
WorkersType == worker \in [Runs -> WorkerRecord]
OthersType  ==
  /\ op \in [Runs -> OpStates]
  /\ card \in {"open", "applied"}
  /\ latest \in Runs \cup {None}
  /\ control \in [Runs -> Control]
  /\ starter \in [Starters -> StarterRecord]
  /\ landing \in SUBSET Runs
  /\ up \in BOOLEAN
  /\ asked \in [Runs -> Nat] /\ clicks \in [Runs -> Nat]
  /\ boots \in Nat

LEMMA TypeParts == TypeOK <=> RunsType /\ WorkersType /\ OthersType
BY DEF TypeOK, RunsType, WorkersType, OthersType, RunRecord, Control, Results, WorkerRecord,
       StarterRecord

LEMMA LandedType ==
  ASSUME RunsType, NEW r \in Runs, NEW status \in Statuses
  PROVE  Landed(r, status) \in [Runs -> RunRecord]
BY DEF Landed, RunsType, RunRecord

LEMMA InitType == Init => TypeOK
<1>. SUFFICES ASSUME Init PROVE RunsType /\ WorkersType /\ OthersType
  BY TypeParts
<1>1. RunsType
  BY StatusWords, EvidenceWords DEF Init, RunsType, RunRecord
<1>2. WorkersType
  BY OpWords, StageWords DEF Init, WorkersType, WorkerRecord, Results, AtRest
<1>3. OthersType
  BY OpWords DEF Init, OthersType, Control, StarterRecord, NoControl
<1>. QED
  BY <1>1, <1>2, <1>3

(* What moves the runs.                                                    *)
LEMMA RunsStep ==
  ASSUME RunsType, WorkersType, OthersType, [Next]_vars,
         \A r \in Runs : worker[r].at = "fin" => worker[r].result \in Statuses
  PROVE  RunsType'
<1>. USE DEF RunsType, RunRecord
<1>1. CASE UNCHANGED run
  BY <1>1
<1>2. ASSUME NEW s \in Starters, StarterStep(s) PROVE RunsType'
  <2>1. CASE StartCreate(s)
    BY <2>1, StatusWords DEF StartCreate
  <2>2. CASE StartFails(s)
    BY <2>2, StatusWords DEF StartFails
  <2>3. CASE StartAttach(s)
    BY <2>3 DEF StartAttach
  <2>. QED
    BY <1>2, <1>1, <2>1, <2>2, <2>3 DEF StarterStep, StartCheck, StartEnqueue
<1>3. ASSUME NEW r \in Runs, Filling(r) PROVE RunsType'
  <2>1. CASE PacketStopped(r)
    <3>1. Landed(r, "interrupted") \in [Runs -> RunRecord]
      BY LandedType, StatusWords
    <3>. QED
      BY <2>1, <3>1 DEF PacketStopped
  <2>2. CASE Adopt(r)
    BY <2>2 DEF Adopt
  <2>3. CASE AwaitPacket(r)
    BY <2>3, StatusWords DEF AwaitPacket
  <2>4. CASE PacketReady(r)
    BY <2>4, StatusWords DEF PacketReady
  <2>5. CASE Filled(r)
    BY <2>5 DEF Filled
  <2>. QED
    BY <1>3, <1>1, <2>1, <2>2, <2>3, <2>4, <2>5 DEF Filling, Dispatch, Reject, Register, Refuse, NotFilled
<1>4. ASSUME NEW r \in Runs, Reviewing(r) PROVE RunsType'
  <2>1. CASE Confirmed(r) \/ Detected(r)
    BY <2>1, StatusWords, EvidenceWords DEF Confirmed, Detected
  <2>. QED
    BY <1>4, <1>1, <2>1 DEF Reviewing, ReviewSleep, ReviewOver, TakeRequest, Click,
         NotConfirmed, StillWaiting
<1>5. ASSUME NEW r \in Runs, Ending(r) PROVE RunsType'
  <2>1. CASE FinalizeWrite(r)
    BY <2>1 DEF FinalizeWrite, WorkerEnds
  <2>2. CASE Raise(r)
    BY <2>2, LandedType, StatusWords DEF Raise
  <2>. QED
    BY <1>5, <1>1, <2>1, <2>2 DEF Ending, FinalizeRead, Leave, Settle
<1>6. ASSUME NEW r \in Runs, User(r) PROVE RunsType'
  <2>1. CASE Land(r)
    BY <2>1, LandedType, StatusWords DEF Land
  <2>2. CASE Attest(r)
    BY <2>2, StatusWords, EvidenceWords DEF Attest
  <2>. QED
    BY <1>6, <1>1, <2>1, <2>2 DEF User, StopLive, StopQueued, AskSubmit
<1>7. CASE Boot
  BY <1>7, StatusWords DEF Boot
<1>8. CASE Crash \/ UNCHANGED vars
  BY <1>8, <1>1 DEF Crash, vars
<1>. QED
  BY <1>2, <1>3, <1>4, <1>5, <1>6, <1>7, <1>8 DEF Next


(* What moves the workers.                                                 *)
LEMMA WorkerMoves ==
  ASSUME WorkersType, NEW r \in Runs, NEW at \in Stages,
         worker' = [worker EXCEPT ![r].at = at]
  PROVE  WorkersType'
BY DEF WorkersType, WorkerRecord

LEMMA WorkerHolds ==
  ASSUME WorkersType, NEW r \in Runs, NEW at \in Stages, NEW result \in Results,
         worker' = [worker EXCEPT ![r].at = at, ![r].result = result]
  PROVE  WorkersType'
BY DEF WorkersType, WorkerRecord

LEMMA WorkerTells ==
  ASSUME WorkersType, NEW r \in Runs, NEW at \in Stages, NEW confirmed \in BOOLEAN,
         worker' = [worker EXCEPT ![r].at = at, ![r].confirmed = confirmed]
  PROVE  WorkersType'
BY DEF WorkersType, WorkerRecord

LEMMA WorkerLeaves ==
  ASSUME WorkersType, NEW r \in Runs, NEW at \in Stages, NEW result \in Results,
         worker' = [worker EXCEPT ![r] = [AtRest EXCEPT !.at = at, !.result = result]]
  PROVE  WorkersType'
BY DEF WorkersType, WorkerRecord, AtRest

LEMMA ResultWords ==
  \A w : w \in Statuses \/ w \in OpStates => w \in Results
BY DEF Results

LEMMA WorkersStep ==
  ASSUME WorkersType, [Next]_vars
  PROVE  WorkersType'
<1>1. CASE UNCHANGED worker
  BY <1>1 DEF WorkersType
<1>2. ASSUME NEW s \in Starters, StarterStep(s) PROVE WorkersType'
  BY <1>2, <1>1 DEF StarterStep, StartCheck, StartCreate, StartEnqueue, StartFails, StartAttach
<1>3. ASSUME NEW r \in Runs, Filling(r) PROVE WorkersType'
  <2>. USE StageWords
  <2>1. CASE Reject(r)
    BY <2>1, WorkerLeaves, ResultWords, OpWords DEF Reject
  <2>2. CASE Refuse(r)
    BY <2>2, WorkerLeaves, ResultWords, OpWords DEF Refuse, WorkerEnds
  <2>3. CASE PacketStopped(r)
    BY <2>3, WorkerLeaves, ResultWords, OpWords DEF PacketStopped, WorkerEnds
  <2>4. CASE NotFilled(r)
    BY <2>4, WorkerHolds, ResultWords, StatusWords DEF NotFilled
  <2>5. CASE Dispatch(r) \/ Register(r) \/ Adopt(r) \/ AwaitPacket(r) \/ PacketReady(r) \/ Filled(r)
    BY <2>5, WorkerMoves DEF Dispatch, Register, Adopt, AwaitPacket, PacketReady, Filled, WorkerGoes
  <2>. QED
    BY <1>3, <2>1, <2>2, <2>3, <2>4, <2>5 DEF Filling
<1>4. ASSUME NEW r \in Runs, Reviewing(r) PROVE WorkersType'
  <2>. USE StageWords
  <2>1. CASE Click(r)
    BY <2>1, WorkerMoves, WorkerTells DEF Click
  <2>2. CASE Confirmed(r)
    BY <2>2, StatusWords DEF Confirmed, Hold, WorkersType, WorkerRecord, Results
  <2>3. CASE ReviewOver(r) \/ Detected(r)
    BY <2>3, WorkerHolds, ResultWords, StatusWords DEF ReviewOver, Detected, Hold
  <2>4. CASE ReviewSleep(r) \/ TakeRequest(r) \/ NotConfirmed(r) \/ StillWaiting(r)
    BY <2>4, WorkerMoves DEF ReviewSleep, TakeRequest, NotConfirmed, StillWaiting, WorkerGoes
  <2>. QED
    BY <1>4, <2>1, <2>2, <2>3, <2>4 DEF Reviewing
<1>5. ASSUME NEW r \in Runs, Ending(r) PROVE WorkersType'
  <2>. USE StageWords
  <2>1. CASE FinalizeRead(r)
    <3>1. PICK result \in {worker[r].result, "submitted"}, confirmed \in BOOLEAN :
            worker' = [worker EXCEPT ![r].at = "fin", ![r].result = result, ![r].confirmed = confirmed]
      BY <2>1 DEF FinalizeRead
    <3>2. result \in Results
      BY StatusWords DEF WorkersType, WorkerRecord, Results
    <3>. QED
      BY <3>1, <3>2 DEF WorkersType, WorkerRecord
  <2>2. CASE FinalizeWrite(r)
    BY <2>2, WorkerLeaves, ResultWords, OpWords DEF FinalizeWrite, WorkerEnds
  <2>3. CASE Raise(r)
    BY <2>3, WorkerLeaves, ResultWords, OpWords DEF Raise, WorkerEnds
  <2>4. CASE Leave(r)
    BY <2>4, WorkerMoves DEF Leave, WorkerGoes
  <2>5. CASE Settle(r)
    BY <2>5, OpWords DEF Settle, AtRest, WorkersType, WorkerRecord, Results
  <2>. QED
    BY <1>5, <2>1, <2>2, <2>3, <2>4, <2>5 DEF Ending
<1>6. ASSUME NEW r \in Runs, User(r) PROVE WorkersType'
  BY <1>6, <1>1 DEF User, StopLive, StopQueued, Land, AskSubmit, Attest
<1>7. CASE Crash
  BY <1>7, StageWords, OpWords DEF Crash, AtRest, WorkersType, WorkerRecord, Results
<1>8. CASE Boot \/ UNCHANGED vars
  BY <1>8, <1>1 DEF Boot, vars
<1>. QED
  BY <1>2, <1>3, <1>4, <1>5, <1>6, <1>7, <1>8 DEF Next


(* The other variables.  An operation ends in the state its worker holds.  *)
LEMMA OthersStep ==
  ASSUME OthersType, [Next]_vars,
         \A r \in Runs : worker[r].at = "settle" => worker[r].result \in OpStates
  PROVE  OthersType'
<1>1. CASE UNCHANGED <<op, card, latest, control, starter, landing, up, asked, clicks, boots>>
  BY <1>1 DEF OthersType
<1>2. ASSUME NEW s \in Starters, StarterStep(s) PROVE OthersType'
  <2>. USE DEF OthersType, StarterRecord, StarterGoes, Resting, history
  <2>1. CASE StartCheck(s)
    BY <2>1 DEF StartCheck
  <2>2. CASE StartCreate(s)
    <3>1. PICK r \in Runs :
            /\ latest' = r
            /\ starter' = [starter EXCEPT ![s] = [at |-> "created", run |-> r]]
            /\ UNCHANGED <<op, card, control, landing, up, asked, clicks, boots>>
      BY <2>2 DEF StartCreate
    <3>. QED
      BY <3>1
  <2>3. CASE StartEnqueue(s)
    BY <2>3, OpWords DEF StartEnqueue
  <2>4. CASE StartFails(s)
    BY <2>4 DEF StartFails
  <2>5. CASE StartAttach(s)
    BY <2>5 DEF StartAttach
  <2>. QED
    BY <1>2, <2>1, <2>2, <2>3, <2>4, <2>5 DEF StarterStep
<1>3. ASSUME NEW r \in Runs, Filling(r) PROVE OthersType'
  <2>. USE DEF threads, history
  <2>1. CASE Dispatch(r)
    BY <2>1, OpWords DEF Dispatch, OthersType
  <2>2. CASE Register(r)
    BY <2>2 DEF Register, OthersType, NoControl, Control
  <2>. QED
    BY <1>3, <1>1, <2>1, <2>2 DEF Filling, Reject, Refuse, Adopt, AwaitPacket, PacketReady,
       PacketStopped, Filled, NotFilled
<1>4. ASSUME NEW r \in Runs, Reviewing(r) PROVE OthersType'
  <2>. USE DEF threads, history
  <2>1. CASE TakeRequest(r)
    BY <2>1 DEF TakeRequest, OthersType, Control
  <2>2. CASE Click(r)
    BY <2>2 DEF Click, OthersType
  <2>3. CASE Confirmed(r)
    BY <2>3 DEF Confirmed, OthersType
  <2>. QED
    BY <1>4, <1>1, <2>1, <2>2, <2>3 DEF Reviewing, ReviewSleep, ReviewOver, NotConfirmed,
       StillWaiting, Detected
<1>5. ASSUME NEW r \in Runs, Ending(r) PROVE OthersType'
  <2>. USE DEF threads, history
  <2>1. CASE FinalizeWrite(r)
    BY <2>1 DEF FinalizeWrite, OthersType
  <2>2. CASE Leave(r)
    BY <2>2 DEF Leave, OthersType, NoControl, Control
  <2>3. CASE Settle(r)
    BY <2>3 DEF Settle, OthersType
  <2>. QED
    BY <1>5, <1>1, <2>1, <2>2, <2>3 DEF Ending, FinalizeRead, Raise
<1>6. ASSUME NEW r \in Runs, User(r) PROVE OthersType'
  <2>. USE DEF threads, history, OthersType
  <2>1. CASE StopLive(r)
    BY <2>1 DEF StopLive, Control
  <2>2. CASE StopQueued(r)
    BY <2>2, OpWords DEF StopQueued
  <2>3. CASE Land(r)
    BY <2>3 DEF Land
  <2>4. CASE AskSubmit(r)
    <3>1. asked' \in [Runs -> Nat]
      BY <2>4 DEF AskSubmit
    <3>2. control' \in [Runs -> Control]
      BY <2>4 DEF AskSubmit, Control
    <3>. QED
      BY <2>4, <3>1, <3>2 DEF AskSubmit
  <2>5. CASE Attest(r)
    BY <2>5 DEF Attest
  <2>. QED
    BY <1>6, <2>1, <2>2, <2>3, <2>4, <2>5 DEF User
<1>7. CASE Crash
  <2>1. control' \in [Runs -> Control]
    BY <1>7 DEF Crash, NoControl, Control
  <2>2. starter' \in [Starters -> StarterRecord]
    BY <1>7 DEF Crash, StarterRecord, Resting
  <2>3. boots' \in Nat
    BY <1>7 DEF Crash, OthersType
  <2>. QED
    BY <1>7, <2>1, <2>2, <2>3 DEF Crash, OthersType
<1>8. CASE Boot
  BY <1>8, OpWords DEF Boot, OthersType, threads, history
<1>9. CASE UNCHANGED vars
  BY <1>9, <1>1 DEF vars
<1>. QED
  BY <1>2, <1>3, <1>4, <1>5, <1>6, <1>7, <1>8, <1>9 DEF Next


-----------------------------------------------------------------------------
(* What a worker holds fits what it will write with it: a run status that  *)
(* ends the run, or the operation's end.                                   *)
EndStatuses == HandedOff \cup {"ready_for_human", "failed", "submitted"}

ResultFits ==
  \A r \in Runs :
    /\ worker[r].at \in {"close", "fin"} => worker[r].result \in EndStatuses
    /\ worker[r].at \in {"leave", "settle"} =>
         worker[r].result \in {"succeeded", "failed", "cancelled"}

TInv == TypeOK /\ ResultFits

LEMMA FitsType ==
  ASSUME ResultFits
  PROVE  \A r \in Runs :
           /\ worker[r].at = "fin" => worker[r].result \in Statuses
           /\ worker[r].at = "settle" => worker[r].result \in OpStates
BY DEF ResultFits, EndStatuses, Statuses, OpStates

LEMMA FitsStep ==
  ASSUME WorkersType, ResultFits, [Next]_vars
  PROVE  ResultFits'
<1>. USE DEF WorkersType, WorkerRecord, ResultFits
<1>1. CASE UNCHANGED worker
  BY <1>1
<1>2. ASSUME NEW s \in Starters, StarterStep(s) PROVE ResultFits'
  BY <1>2, <1>1 DEF StarterStep, StartCheck, StartCreate, StartEnqueue, StartFails, StartAttach
<1>3. ASSUME NEW r \in Runs, Filling(r) PROVE ResultFits'
  <2>1. CASE Reject(r)
    BY <2>1 DEF Reject, AtRest
  <2>2. CASE Refuse(r)
    BY <2>2 DEF Refuse, WorkerEnds, AtRest
  <2>3. CASE PacketStopped(r)
    BY <2>3 DEF PacketStopped, WorkerEnds, AtRest
  <2>4. CASE NotFilled(r)
    BY <2>4 DEF NotFilled, EndStatuses, HandedOff
  <2>5. CASE Dispatch(r) \/ Register(r) \/ Adopt(r) \/ AwaitPacket(r) \/ PacketReady(r) \/ Filled(r)
    BY <2>5 DEF Dispatch, Register, Adopt, AwaitPacket, PacketReady, Filled, WorkerGoes
  <2>. QED
    BY <1>3, <2>1, <2>2, <2>3, <2>4, <2>5 DEF Filling
<1>4. ASSUME NEW r \in Runs, Reviewing(r) PROVE ResultFits'
  <2>1. CASE Click(r)
    BY <2>1 DEF Click
  <2>2. CASE Confirmed(r)
    BY <2>2 DEF Confirmed, Hold, EndStatuses
  <2>3. CASE ReviewOver(r) \/ Detected(r)
    BY <2>3 DEF ReviewOver, Detected, Hold, EndStatuses
  <2>4. CASE ReviewSleep(r) \/ TakeRequest(r) \/ NotConfirmed(r) \/ StillWaiting(r)
    BY <2>4 DEF ReviewSleep, TakeRequest, NotConfirmed, StillWaiting, WorkerGoes
  <2>. QED
    BY <1>4, <2>1, <2>2, <2>3, <2>4 DEF Reviewing
<1>5. ASSUME NEW r \in Runs, Ending(r) PROVE ResultFits'
  <2>1. CASE FinalizeRead(r)
    <3>1. PICK result \in {worker[r].result, "submitted"}, confirmed \in BOOLEAN :
            /\ worker[r].at = "close"
            /\ worker' = [worker EXCEPT ![r].at = "fin", ![r].result = result, ![r].confirmed = confirmed]
      BY <2>1 DEF FinalizeRead
    <3>2. result \in EndStatuses
      BY <3>1 DEF EndStatuses
    <3>. QED
      BY <3>1, <3>2
  <2>2. CASE FinalizeWrite(r)
    BY <2>2 DEF FinalizeWrite, WorkerEnds, AtRest
  <2>3. CASE Raise(r)
    BY <2>3 DEF Raise, WorkerEnds, AtRest
  <2>4. CASE Leave(r)
    BY <2>4 DEF Leave, WorkerGoes
  <2>5. CASE Settle(r)
    BY <2>5 DEF Settle, AtRest
  <2>. QED
    BY <1>5, <2>1, <2>2, <2>3, <2>4, <2>5 DEF Ending
<1>6. ASSUME NEW r \in Runs, User(r) PROVE ResultFits'
  BY <1>6, <1>1 DEF User, StopLive, StopQueued, Land, AskSubmit, Attest
<1>7. CASE Crash
  BY <1>7 DEF Crash, AtRest
<1>8. CASE Boot \/ UNCHANGED vars
  BY <1>8, <1>1 DEF Boot, vars
<1>. QED
  BY <1>2, <1>3, <1>4, <1>5, <1>6, <1>7, <1>8 DEF Next

LEMMA TInvStep == TInv /\ [Next]_vars => TInv'
<1>. SUFFICES ASSUME TInv, [Next]_vars PROVE TInv'
  OBVIOUS
<1>1. RunsType /\ WorkersType /\ OthersType /\ ResultFits
  BY TypeParts DEF TInv
<1>2. RunsType' /\ WorkersType' /\ OthersType'
  BY <1>1, FitsType, RunsStep, WorkersStep, OthersStep
<1>3. TypeOK'
  BY <1>2, TypeParts, PTL
<1>4. ResultFits'
  BY <1>1, FitsStep
<1>. QED
  BY <1>3, <1>4 DEF TInv

(* Every variable keeps its type, for every set of runs and API threads.   *)
THEOREM TypeCorrect == Spec => []TypeOK
<1>1. Init => TInv
  BY InitType DEF Init, TInv, ResultFits, AtRest
<1>2. TInv /\ [Next]_vars => TInv'
  BY TInvStep
<1>3. TInv => TypeOK
  BY DEF TInv
<1>. QED
  BY <1>1, <1>2, <1>3, PTL DEF Spec


-----------------------------------------------------------------------------
(* The card.  CardFollowsRun is not inductive: _finalize writes a status   *)
(* it decided on in an earlier step.  It stays true because a worker that  *)
(* is about to write `submitted` either moves the card in the same         *)
(* transaction or has read a row whose writer had moved it.                *)
SubmittedHeld ==
  \A r \in Runs : worker[r].result = "submitted" =>
    worker[r].at = "fin" /\ (worker[r].confirmed \/ card = "applied")

CardInv == CardFollowsRun /\ SubmittedHeld

LEMMA LandedNotSubmitted ==
  ASSUME RunsType, NEW r \in Runs, NEW status, status # "submitted",
         run' = Landed(r, status), card' = card, CardFollowsRun
  PROVE  CardFollowsRun'
BY DEF RunsType, RunRecord, Landed, CardFollowsRun

LEMMA CardStep ==
  ASSUME RunsType, WorkersType, CardInv, [Next]_vars
  PROVE  CardInv'
<1>. USE DEF RunsType, RunRecord, WorkersType, WorkerRecord, CardInv, CardFollowsRun, SubmittedHeld
<1>1. CASE UNCHANGED <<run, worker, card>>
  BY <1>1
<1>2. ASSUME NEW s \in Starters, StarterStep(s) PROVE CardInv'
  <2>1. CASE StartCreate(s)
    BY <2>1 DEF StartCreate
  <2>2. CASE StartFails(s)
    BY <2>2 DEF StartFails
  <2>3. CASE StartAttach(s)
    BY <2>3 DEF StartAttach
  <2>. QED
    BY <1>2, <1>1, <2>1, <2>2, <2>3 DEF StarterStep, StartCheck, StartEnqueue
<1>3. ASSUME NEW r \in Runs, Filling(r) PROVE CardInv'
  <2>1. CASE Reject(r)
    BY <2>1 DEF Reject, AtRest
  <2>2. CASE Refuse(r)
    BY <2>2 DEF Refuse, WorkerEnds, AtRest
  <2>3. CASE PacketStopped(r)
    <3>1. CardFollowsRun'
      BY <2>3, LandedNotSubmitted DEF PacketStopped
    <3>2. SubmittedHeld'
      BY <2>3 DEF PacketStopped, WorkerEnds, AtRest
    <3>. QED
      BY <3>1, <3>2
  <2>4. CASE NotFilled(r)
    BY <2>4 DEF NotFilled
  <2>5. CASE Dispatch(r) \/ Register(r)
    <3>1. UNCHANGED <<run, card>> /\ \E to : worker' = [worker EXCEPT ![r].at = to] /\ to # "fin"
          /\ worker[r].at # "fin"
      BY <2>5 DEF Dispatch, Register, WorkerGoes
    <3>. QED
      BY <3>1
  <2>6. CASE Adopt(r)
    BY <2>6 DEF Adopt, WorkerGoes
  <2>7. CASE AwaitPacket(r)
    BY <2>7 DEF AwaitPacket, WorkerGoes
  <2>8. CASE PacketReady(r)
    <3>1. CardFollowsRun'
      BY <2>8 DEF PacketReady
    <3>2. SubmittedHeld'
      BY <2>8 DEF PacketReady, WorkerGoes
    <3>. QED
      BY <3>1, <3>2
  <2>9. CASE Filled(r)
    BY <2>9 DEF Filled, WorkerGoes
  <2>. QED
    BY <1>3, <2>1, <2>2, <2>3, <2>4, <2>5, <2>6, <2>7, <2>8, <2>9 DEF Filling
<1>4. ASSUME NEW r \in Runs, Reviewing(r) PROVE CardInv'
  <2>1. CASE Click(r)
    <3>1. /\ UNCHANGED <<run, card>> /\ worker[r].at = "click"
          /\ \A q \in Runs \ {r} : worker'[q] = worker[q]
      BY <2>1 DEF Click
    <3>2. worker'[r].result = worker[r].result
      BY <2>1 DEF Click
    <3>. QED
      BY <3>1, <3>2
  <2>2. CASE Confirmed(r)
    BY <2>2 DEF Confirmed, Hold
  <2>3. CASE ReviewOver(r)
    BY <2>3 DEF ReviewOver, Hold
  <2>4. CASE Detected(r)
    <3>1. CardFollowsRun'
      BY <2>4 DEF Detected
    <3>2. SubmittedHeld'
      BY <2>4 DEF Detected, Hold
    <3>. QED
      BY <3>1, <3>2
  <2>5. CASE ReviewSleep(r) \/ TakeRequest(r) \/ NotConfirmed(r) \/ StillWaiting(r)
    BY <2>5 DEF ReviewSleep, TakeRequest, NotConfirmed, StillWaiting, WorkerGoes
  <2>. QED
    BY <1>4, <2>1, <2>2, <2>3, <2>4, <2>5 DEF Reviewing
<1>5. ASSUME NEW r \in Runs, Ending(r) PROVE CardInv'
  <2>1. CASE FinalizeRead(r)
    <3>1. PICK result \in {worker[r].result, "submitted"}, confirmed \in BOOLEAN :
            /\ worker[r].at = "close"
            /\ worker' = [worker EXCEPT ![r].at = "fin", ![r].result = result, ![r].confirmed = confirmed]
            /\ result = "submitted" =>
                 confirmed \/ run[r].status = "submitted" \/ worker[r].result = "submitted"
      BY <2>1 DEF FinalizeRead
    <3>2. UNCHANGED <<run, card>>
      BY <2>1 DEF FinalizeRead
    <3>. QED
      BY <3>1, <3>2
  <2>2. CASE FinalizeWrite(r)
    <3>1. run' = [run EXCEPT ![r].status = worker[r].result] /\ worker[r].at = "fin"
      BY <2>2 DEF FinalizeWrite, WorkerEnds
    <3>2. card' = IF worker[r].confirmed THEN "applied" ELSE card
      BY <2>2 DEF FinalizeWrite
    <3>3. CardFollowsRun'
      BY <3>1, <3>2
    <3>4. \E outcome \in {"succeeded", "failed"} :
            worker' = [worker EXCEPT ![r] = [AtRest EXCEPT !.at = "leave", !.result = outcome]]
      BY <2>2 DEF FinalizeWrite, WorkerEnds
    <3>5. SubmittedHeld'
      BY <3>2, <3>4 DEF AtRest
    <3>. QED
      BY <3>3, <3>5
  <2>3. CASE Raise(r)
    <3>1. CardFollowsRun'
      BY <2>3, LandedNotSubmitted DEF Raise
    <3>2. SubmittedHeld'
      BY <2>3 DEF Raise, WorkerEnds, AtRest
    <3>. QED
      BY <3>1, <3>2
  <2>4. CASE Leave(r)
    BY <2>4 DEF Leave, WorkerGoes
  <2>5. CASE Settle(r)
    BY <2>5 DEF Settle, AtRest
  <2>. QED
    BY <1>5, <2>1, <2>2, <2>3, <2>4, <2>5 DEF Ending
<1>6. ASSUME NEW r \in Runs, User(r) PROVE CardInv'
  <2>1. CASE Land(r)
    <3>1. CardFollowsRun'
      BY <2>1, LandedNotSubmitted DEF Land
    <3>. QED
      BY <2>1, <3>1 DEF Land
  <2>2. CASE Attest(r)
    BY <2>2 DEF Attest
  <2>. QED
    BY <1>6, <1>1, <2>1, <2>2 DEF User, StopLive, StopQueued, AskSubmit
<1>7. CASE Crash
  BY <1>7 DEF Crash, AtRest
<1>8. CASE Boot
  BY <1>8 DEF Boot, threads
<1>9. CASE UNCHANGED vars
  BY <1>9, <1>1 DEF vars
<1>. QED
  BY <1>2, <1>3, <1>4, <1>5, <1>6, <1>7, <1>8, <1>9 DEF Next

(* A card is Applied as soon as one of its runs is submitted, whoever wrote*)
(* it, and however the transactions of API threads, workers and boots fall.*)
THEOREM CardIsApplied == Spec => []CardFollowsRun
<1>1. Init => TInv /\ CardInv
  BY InitType DEF Init, TInv, ResultFits, AtRest, CardInv, CardFollowsRun, SubmittedHeld
<1>2. TInv /\ CardInv /\ [Next]_vars => TInv' /\ CardInv'
  BY TInvStep, CardStep, TypeParts DEF TInv
<1>3. CardInv => CardFollowsRun
  BY DEF CardInv
<1>. QED
  BY <1>1, <1>2, <1>3, PTL DEF Spec

-----------------------------------------------------------------------------
(* The clicks.  A request is owed a click from the moment it is accepted   *)
(* until the worker has clicked: while it waits in the control, and after  *)
(* the worker has taken it.                                                *)
One(b) == IF b THEN 1 ELSE 0

ClickInv ==
  \A r \in Runs :
    clicks[r] + One(control[r].ask) + One(worker[r].at = "click") <= asked[r]

LEMMA ClickStep ==
  ASSUME WorkersType, OthersType, ClickInv, [Next]_vars
  PROVE  ClickInv'
<1>. USE DEF WorkersType, WorkerRecord, OthersType, Control, ClickInv, One
<1>1. CASE UNCHANGED <<worker, control, clicks, asked>>
  BY <1>1
<1>2. ASSUME NEW s \in Starters, StarterStep(s) PROVE ClickInv'
  BY <1>2, <1>1 DEF StarterStep, StartCheck, StartCreate, StartEnqueue, StartFails, StartAttach, history
<1>3. ASSUME NEW r \in Runs, Filling(r) PROVE ClickInv'
  <2>. USE DEF history
  <2>1. CASE Register(r)
    BY <2>1 DEF Register, WorkerGoes, NoControl
  <2>2. CASE Reject(r)
    BY <2>2 DEF Reject, AtRest
  <2>3. CASE Refuse(r) \/ PacketStopped(r)
    BY <2>3 DEF Refuse, PacketStopped, WorkerEnds, AtRest
  <2>4. CASE NotFilled(r)
    BY <2>4 DEF NotFilled
  <2>5. CASE Dispatch(r) \/ Adopt(r) \/ AwaitPacket(r)
    BY <2>5 DEF Dispatch, Adopt, AwaitPacket, WorkerGoes
  <2>6. CASE PacketReady(r) \/ Filled(r)
    <3>1. /\ UNCHANGED <<control, clicks, asked>>
          /\ \E to \in {"fill", "review"} : worker' = [worker EXCEPT ![r].at = to]
      BY <2>6 DEF PacketReady, Filled, WorkerGoes
    <3>. QED
      BY <3>1
  <2>. QED
    BY <1>3, <2>1, <2>2, <2>3, <2>4, <2>5, <2>6 DEF Filling
<1>4. ASSUME NEW r \in Runs, Reviewing(r) PROVE ClickInv'
  <2>. USE DEF history
  <2>1. CASE TakeRequest(r)
    BY <2>1 DEF TakeRequest, WorkerGoes
  <2>2. CASE Click(r)
    <3>1. /\ worker[r].at = "click"
          /\ UNCHANGED <<control, asked>>
          /\ \E confirmed \in BOOLEAN :
               worker' = [worker EXCEPT ![r].at = "told", ![r].confirmed = confirmed]
          /\ UNCHANGED clicks \/ clicks' = [clicks EXCEPT ![r] = @ + 1]
      <4>1. [worker EXCEPT ![r].at = "told"]
              = [worker EXCEPT ![r].at = "told", ![r].confirmed = worker[r].confirmed]
        OBVIOUS
      <4>. QED
        BY <2>2, <4>1 DEF Click
    <3>. QED
      BY <3>1
  <2>3. CASE Confirmed(r)
    BY <2>3 DEF Confirmed, Hold
  <2>4. CASE ReviewOver(r) \/ Detected(r)
    <3>1. UNCHANGED <<control, clicks, asked>> /\ worker' = Hold(r, "close")
      BY <2>4 DEF ReviewOver, Detected
    <3>2. \A q \in Runs : worker'[q].at = worker[q].at \/ worker'[q].at = "close"
      BY <3>1 DEF Hold
    <3>. QED
      BY <3>1, <3>2
  <2>5. CASE ReviewSleep(r) \/ NotConfirmed(r) \/ StillWaiting(r)
    BY <2>5 DEF ReviewSleep, NotConfirmed, StillWaiting, WorkerGoes
  <2>. QED
    BY <1>4, <2>1, <2>2, <2>3, <2>4, <2>5 DEF Reviewing
<1>5. ASSUME NEW r \in Runs, Ending(r) PROVE ClickInv'
  <2>. USE DEF history
  <2>1. CASE FinalizeRead(r)
    BY <2>1 DEF FinalizeRead
  <2>2. CASE FinalizeWrite(r) \/ Raise(r)
    <3>1. /\ UNCHANGED <<control, clicks, asked>>
          /\ \E outcome \in {"succeeded", "failed"} :
               worker' = [worker EXCEPT ![r] = [AtRest EXCEPT !.at = "leave", !.result = outcome]]
      BY <2>2 DEF FinalizeWrite, Raise, WorkerEnds
    <3>. QED
      BY <3>1 DEF AtRest
  <2>3. CASE Leave(r)
    BY <2>3 DEF Leave, WorkerGoes, NoControl
  <2>4. CASE Settle(r)
    BY <2>4 DEF Settle, AtRest
  <2>. QED
    BY <1>5, <2>1, <2>2, <2>3, <2>4 DEF Ending
<1>6. ASSUME NEW r \in Runs, User(r) PROVE ClickInv'
  <2>. USE DEF history
  <2>1. CASE StopLive(r)
    BY <2>1 DEF StopLive
  <2>2. CASE AskSubmit(r)
    BY <2>2 DEF AskSubmit
  <2>. QED
    BY <1>6, <1>1, <2>1, <2>2 DEF User, StopQueued, Land, Attest
<1>7. CASE Crash
  <2>. SUFFICES ASSUME NEW r \in Runs
                PROVE  clicks'[r] + One(control'[r].ask) + One(worker'[r].at = "click") <= asked'[r]
    OBVIOUS
  <2>1. control'[r].ask = FALSE /\ worker'[r].at = "idle" /\ UNCHANGED <<clicks, asked>>
    BY <1>7 DEF Crash, AtRest, NoControl
  <2>2. clicks[r] <= asked[r] /\ clicks[r] \in Nat /\ asked[r] \in Nat
    <3>1. clicks[r] \in Nat /\ asked[r] \in Nat
      OBVIOUS
    <3>2. clicks[r] + One(control[r].ask) + One(worker[r].at = "click") <= asked[r]
      OBVIOUS
    <3>3. One(control[r].ask) \in {0, 1} /\ One(worker[r].at = "click") \in {0, 1}
      OBVIOUS
    <3>. QED
      BY <3>1, <3>2, <3>3
  <2>. QED
    BY <2>1, <2>2
<1>8. CASE Boot
  <2>1. UNCHANGED <<worker, control, clicks, asked>>
    BY <1>8 DEF Boot, history
  <2>. QED
    BY <2>1, <1>1
<1>9. CASE UNCHANGED vars
  <2>1. UNCHANGED <<worker, control, clicks, asked>>
    BY <1>9 DEF vars
  <2>. QED
    BY <2>1, <1>1
<1>. QED
  BY <1>2, <1>3, <1>4, <1>5, <1>6, <1>7, <1>8, <1>9 DEF Next

(* The form is never clicked more often than the user asked for, counting  *)
(* a request still waiting: one click per request, taken once.             *)
THEOREM OneClickPerRequest == Spec => []ClicksAsked
<1>1. Init => TInv /\ ClickInv
  BY InitType DEF Init, TInv, ResultFits, AtRest, ClickInv, One, NoControl
<1>2. TInv /\ ClickInv /\ [Next]_vars => TInv' /\ ClickInv'
  <2>. SUFFICES ASSUME TInv, ClickInv, [Next]_vars PROVE TInv' /\ ClickInv'
    OBVIOUS
  <2>1. TInv'
    BY TInvStep
  <2>2. WorkersType /\ OthersType
    BY TypeParts DEF TInv
  <2>. QED
    BY <2>1, <2>2, ClickStep
<1>3. TInv /\ ClickInv => ClicksAsked
  <2>. SUFFICES ASSUME OthersType, ClickInv, NEW r \in Runs
                PROVE  clicks[r] + (IF control[r].ask THEN 1 ELSE 0) <= asked[r]
    BY TypeParts DEF TInv, ClicksAsked
  <2>1. clicks[r] \in Nat /\ asked[r] \in Nat
    BY DEF OthersType
  <2>2. clicks[r] + One(control[r].ask) + One(worker[r].at = "click") <= asked[r]
    BY DEF ClickInv
  <2>3. One(worker[r].at = "click") \in {0, 1}
        /\ One(control[r].ask) = (IF control[r].ask THEN 1 ELSE 0)
    BY DEF One
  <2>. QED
    BY <2>1, <2>2, <2>3
<1>. QED
  BY <1>1, <1>2, <1>3, PTL DEF Spec

-----------------------------------------------------------------------------
(* Who ends an active run.  The invariant ties the three places that speak *)
(* of a run: the API thread that creates it, the row of its operation, and *)
(* the stage of its worker.                                                *)

(* A run that was created and not enqueued yet belongs to one API thread.  *)
StartersHold ==
  \A s \in Starters : starter[s].at = "created" =>
    /\ up
    /\ starter[s].run \in Runs
    /\ op[starter[s].run] = "none" /\ run[starter[s].run].status # "absent"
    /\ \A t \in Starters : starter[t] = starter[s] => t = s

(* A worker exists exactly while its operation says running, a Stop that   *)
(* is landing its run has cancelled the operation, and both die with the   *)
(* process.                                                                *)
WorkerRuns(r) ==
  /\ worker[r].at # "idle" => up /\ op[r] = "running"
  /\ up /\ op[r] = "running" => worker[r].at # "idle"
  /\ r \in landing => up /\ op[r] = "cancelled"

(* Before the worker has adopted its run, nobody has taken the run up.     *)
NotTakenUp(r) ==
  /\ op[r] \in {"none", "queued"} \/ worker[r].at \in {"gate", "adopt"}
       => run[r].status \notin {"waiting_for_packet", "running"}
  /\ run[r].status = "absent" => op[r] = "none"

(* A worker on its way out has left the row as its result says.            *)
WayOut(r) ==
  worker[r].at \in {"leave", "settle"} =>
    /\ worker[r].result = "succeeded" => run[r].status \in {"ready_for_human", "submitted"}
    /\ Active(r) => run[r].status = "queued" /\ worker[r].result = "failed"

(* ActiveRunOwned and LedgerTellsRun, for one run.                         *)
Ends(r) ==
  /\ up /\ Active(r) => Owned(r) \/ (run[r].status = "queued" /\ op[r] = "failed")
  /\ op[r] = "succeeded" => run[r].status \in {"ready_for_human", "submitted"}

RunInv(r) == WorkerRuns(r) /\ NotTakenUp(r) /\ WayOut(r) /\ Ends(r)
OwnInv    == StartersHold /\ \A r \in Runs : RunInv(r)

(* A step about one run leaves the others and the API threads alone.       *)
Only(r) ==
  /\ starter' = starter /\ up' = up
  /\ \A q \in Runs \ {r} :
       /\ run'[q] = run[q] /\ op'[q] = op[q] /\ worker'[q] = worker[q]
       /\ q \in landing' <=> q \in landing
  /\ op[r] = "none" => op'[r] = "none"
  /\ run[r].status # "absent" => run'[r].status # "absent"

LEMMA OneRun ==
  ASSUME OwnInv, NEW r \in Runs, Only(r), RunInv(r)'
  PROVE  OwnInv'
<1>1. StartersHold'
  BY DEF OwnInv, StartersHold, Only
<1>2. ASSUME NEW q \in Runs, q # r PROVE RunInv(q)'
  <2>1. RunInv(q)
    BY DEF OwnInv
  <2>2. run'[q] = run[q] /\ op'[q] = op[q] /\ worker'[q] = worker[q]
        /\ (q \in landing' <=> q \in landing) /\ starter' = starter /\ up' = up
    BY <1>2 DEF Only
  <2>. QED
    BY <2>1, <2>2 DEF RunInv, WorkerRuns, NotTakenUp, WayOut, Ends, Active, Owned
<1>. QED
  BY <1>1, <1>2 DEF OwnInv

LEMMA FillingOwn ==
  ASSUME TInv, OwnInv, NEW r \in Runs, Filling(r)
  PROVE  OwnInv'
<1>. USE DEF RunsType, RunRecord, WorkersType, WorkerRecord
<1>1. RunsType /\ WorkersType /\ op \in [Runs -> OpStates]
  BY TypeParts DEF TInv, OthersType
<1>2. RunInv(r)
  BY DEF OwnInv
<1>. SUFFICES Only(r) /\ RunInv(r)'
  BY OneRun
<1>. USE <1>1, <1>2 DEF RunInv, WorkerRuns, NotTakenUp, WayOut, Ends, Active, ActiveStatuses, Owned
<1>3. CASE Dispatch(r)
  BY <1>3 DEF Dispatch, WorkerGoes, threads, Only
<1>4. CASE Reject(r)
  BY <1>4 DEF Reject, AtRest, threads, Only
<1>5. CASE Register(r)
  BY <1>5 DEF Register, WorkerGoes, threads, Only
<1>6. CASE Refuse(r)
  BY <1>6 DEF Refuse, WorkerEnds, AtRest, threads, Only
<1>7. CASE Adopt(r)
  BY <1>7 DEF Adopt, WorkerGoes, threads, Only
<1>8. CASE AwaitPacket(r)
  BY <1>8 DEF AwaitPacket, WorkerGoes, threads, Only
<1>9. CASE PacketReady(r)
  BY <1>9 DEF PacketReady, WorkerGoes, threads, Only
<1>10. CASE PacketStopped(r)
  BY <1>10 DEF PacketStopped, WorkerEnds, AtRest, Landed, threads, Only
<1>11. CASE Filled(r)
  BY <1>11 DEF Filled, WorkerGoes, threads, Only
<1>12. CASE NotFilled(r)
  BY <1>12 DEF NotFilled, threads, Only
<1>. QED
  BY <1>3, <1>4, <1>5, <1>6, <1>7, <1>8, <1>9, <1>10, <1>11, <1>12 DEF Filling

LEMMA ReviewingOwn ==
  ASSUME TInv, OwnInv, NEW r \in Runs, Reviewing(r)
  PROVE  OwnInv'
<1>. USE DEF RunsType, RunRecord, WorkersType, WorkerRecord
<1>1. RunsType /\ WorkersType /\ op \in [Runs -> OpStates]
  BY TypeParts DEF TInv, OthersType
<1>2. RunInv(r)
  BY DEF OwnInv
<1>. SUFFICES Only(r) /\ RunInv(r)'
  BY OneRun
<1>. USE <1>1, <1>2 DEF RunInv, WorkerRuns, NotTakenUp, WayOut, Ends, Active, ActiveStatuses, Owned
<1>3. CASE ReviewSleep(r)
  BY <1>3 DEF ReviewSleep, WorkerGoes, threads, Only
<1>4. CASE ReviewOver(r)
  BY <1>4 DEF ReviewOver, Hold, threads, Only
<1>5. CASE TakeRequest(r)
  BY <1>5 DEF TakeRequest, WorkerGoes, threads, Only
<1>6. CASE Click(r)
  BY <1>6 DEF Click, threads, Only
<1>7. CASE Confirmed(r)
  BY <1>7 DEF Confirmed, Hold, threads, Only
<1>8. CASE NotConfirmed(r)
  BY <1>8 DEF NotConfirmed, WorkerGoes, threads, Only
<1>9. CASE StillWaiting(r)
  BY <1>9 DEF StillWaiting, WorkerGoes, threads, Only
<1>10. CASE Detected(r)
  BY <1>10 DEF Detected, Hold, threads, Only
<1>. QED
  BY <1>3, <1>4, <1>5, <1>6, <1>7, <1>8, <1>9, <1>10 DEF Reviewing

LEMMA EndingOwn ==
  ASSUME TInv, OwnInv, NEW r \in Runs, Ending(r)
  PROVE  OwnInv'
<1>. USE DEF RunsType, RunRecord, WorkersType, WorkerRecord
<1>1. RunsType /\ WorkersType /\ op \in [Runs -> OpStates]
  BY TypeParts DEF TInv, OthersType
<1>2. RunInv(r)
  BY DEF OwnInv
<1>. SUFFICES Only(r) /\ RunInv(r)'
  BY OneRun
<1>. USE <1>1, <1>2 DEF RunInv, WorkerRuns, NotTakenUp, WayOut, Ends, Active, ActiveStatuses, Owned
<1>3. CASE FinalizeRead(r)
  BY <1>3 DEF FinalizeRead, threads, Only
<1>4. CASE FinalizeWrite(r)
  BY <1>4 DEF FinalizeWrite, WorkerEnds, AtRest, TInv, ResultFits, EndStatuses, HandedOff, threads, Only
<1>5. CASE Raise(r)
  BY <1>5 DEF Raise, WorkerEnds, AtRest, Guarded, Landed, threads, Only
<1>6. CASE Leave(r)
  BY <1>6 DEF Leave, WorkerGoes, threads, Only
<1>7. CASE Settle(r)
  BY <1>7 DEF Settle, AtRest, TInv, ResultFits, threads, Only
<1>. QED
  BY <1>3, <1>4, <1>5, <1>6, <1>7 DEF Ending

LEMMA UserOwn ==
  ASSUME TInv, OwnInv, NEW r \in Runs, User(r)
  PROVE  OwnInv'
<1>. USE DEF RunsType, RunRecord, WorkersType, WorkerRecord
<1>1. RunsType /\ WorkersType /\ op \in [Runs -> OpStates]
  BY TypeParts DEF TInv, OthersType
<1>2. RunInv(r)
  BY DEF OwnInv
<1>. SUFFICES Only(r) /\ RunInv(r)'
  BY OneRun
<1>. USE <1>1, <1>2 DEF RunInv, WorkerRuns, NotTakenUp, WayOut, Ends, Active, ActiveStatuses, Owned
<1>3. CASE StopLive(r)
  BY <1>3 DEF StopLive, threads, Only
<1>4. CASE StopQueued(r)
  BY <1>4 DEF StopQueued, threads, Only
<1>5. CASE Land(r)
  BY <1>5 DEF Land, Landed, threads, Only
<1>6. CASE AskSubmit(r)
  BY <1>6 DEF AskSubmit, threads, Only
<1>7. CASE Attest(r)
  BY <1>7 DEF Attest, InReview, HandedOff, threads, Only
<1>. QED
  BY <1>3, <1>4, <1>5, <1>6, <1>7 DEF User

LEMMA StarterOwn ==
  ASSUME TInv, OwnInv, NEW s \in Starters, StarterStep(s)
  PROVE  OwnInv'
<1>1. RunsType /\ starter \in [Starters -> StarterRecord] /\ op \in [Runs -> OpStates]
  BY TypeParts DEF TInv, OthersType
<1>. USE <1>1 DEF RunsType, RunRecord, StarterRecord, OwnInv
<1>2. CASE StartCheck(s)
  BY <1>2 DEF StartCheck, StarterGoes, StartersHold, RunInv, WorkerRuns, NotTakenUp, WayOut, Ends, Active, Owned
<1>3. CASE StartCreate(s)
  <2>1. PICK r \in Runs : /\ run[r].status = "absent"
                          /\ run' = [run EXCEPT ![r].status = "queued"]
                          /\ StarterGoes(s, "checked", [at |-> "created", run |-> r])
                          /\ UNCHANGED <<op, worker, landing, up>>
    BY <1>3 DEF StartCreate
  <2>2. StartersHold'
    BY <2>1 DEF StarterGoes, StartersHold, RunInv, NotTakenUp
  <2>3. RunInv(r)'
    BY <2>1 DEF StarterGoes, RunInv, WorkerRuns, NotTakenUp, WayOut, Ends, Active, Owned
  <2>4. ASSUME NEW q \in Runs, q # r PROVE RunInv(q)'
    BY <2>1, <2>4 DEF StarterGoes, RunInv, WorkerRuns, NotTakenUp, WayOut, Ends, Active, Owned
  <2>. QED
    BY <2>2, <2>3, <2>4
<1>4. CASE StartEnqueue(s)
  BY <1>4 DEF StartEnqueue, StarterGoes, StartersHold, RunInv, WorkerRuns, NotTakenUp, WayOut, Ends, Active, Owned
<1>5. CASE StartFails(s)
  BY <1>5 DEF StartFails, Resting, StarterGoes, StartersHold, RunInv, WorkerRuns, NotTakenUp, WayOut, Ends, Active, ActiveStatuses, Owned
<1>6. CASE StartAttach(s)
  BY <1>6 DEF StartAttach, Resting, StarterGoes, StartersHold, RunInv, WorkerRuns, NotTakenUp, WayOut, Ends, Active, Owned
<1>. QED
  BY <1>2, <1>3, <1>4, <1>5, <1>6 DEF StarterStep

LEMMA ProcessOwn ==
  ASSUME TInv, OwnInv, Crash \/ Boot
  PROVE  OwnInv'
<1>1. RunsType /\ WorkersType /\ op \in [Runs -> OpStates]
  BY TypeParts DEF TInv, OthersType
<1>. USE <1>1 DEF RunsType, RunRecord, WorkersType, WorkerRecord, OwnInv, RunInv, WorkerRuns,
        NotTakenUp, WayOut, Ends, Active, ActiveStatuses, Owned
<1>2. CASE Crash
  BY <1>2 DEF Crash, AtRest, Resting, StartersHold
<1>3. CASE Boot
  BY <1>3 DEF Boot, threads, Orphaned, StartersHold
<1>. QED
  BY <1>2, <1>3

(* While the process is up every active run has someone who will end it,   *)
(* but for a run refused before it was adopted, and a run whose operation  *)
(* succeeded is ready for the human or submitted: for any number of runs,  *)
(* API threads and restarts.                                               *)
THEOREM RunsAreOwned == Spec => [](ActiveRunOwned /\ LedgerTellsRun)
<1>1. Init => TInv /\ OwnInv
  BY InitType DEF Init, TInv, ResultFits, AtRest, OwnInv, StartersHold, RunInv, WorkerRuns, NotTakenUp,
       WayOut, Ends, Active, ActiveStatuses, Owned
<1>2. TInv /\ OwnInv /\ [Next]_vars => TInv' /\ OwnInv'
  <2>. SUFFICES ASSUME TInv, OwnInv, [Next]_vars PROVE TInv' /\ OwnInv'
    OBVIOUS
  <2>1. ASSUME UNCHANGED vars PROVE OwnInv'
    BY <2>1 DEF vars, OwnInv, StartersHold, RunInv, WorkerRuns, NotTakenUp, WayOut, Ends, Active, Owned
  <2>. QED
    BY <2>1, TInvStep, StarterOwn, FillingOwn, ReviewingOwn, EndingOwn, UserOwn, ProcessOwn DEF Next
<1>3. OwnInv => ActiveRunOwned /\ LedgerTellsRun
  BY DEF OwnInv, RunInv, Ends, ActiveRunOwned, LedgerTellsRun
<1>. QED
  BY <1>1, <1>2, <1>3, PTL DEF Spec

(***************************************************************************)
(* What the ledger tells of an apply run is true: an operation that the    *)
(* runner recorded as succeeded left a run ready for the human, or one the *)
(* human then submitted, whatever Stop, failure or boot came in between.   *)
(***************************************************************************)
THEOREM LedgerTellsTheRun == Spec => []LedgerTellsRun
<1>1. ActiveRunOwned /\ LedgerTellsRun => LedgerTellsRun
  OBVIOUS
<1> QED
  BY <1>1, RunsAreOwned, PTL
=============================================================================
