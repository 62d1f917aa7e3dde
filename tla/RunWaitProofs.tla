----------------------------- MODULE RunWaitProofs -----------------------------
(* That one request never leaves two runs with the same sidecar and that a     *)
(* wait ends its run, for any number of deaths and broken connections; and     *)
(* that a shell never has two sidecars, for any number of starts and faults.   *)
EXTENDS MCRunWait, SequenceTheorems, TLAPS

States == {"queued", "running", "succeeded", "failed", "cancelled"}
Row == [state : States, stop : BOOLEAN, by : Nat]
Info == [port : Nat, token : Nat]
Ats == {"none", "ask", "half", "sent", "answered", "done"}
SidecarType == [id : Nat, up : BOOLEAN]

(* The type of the answer is left open.                                     *)
CallType(answer) ==
  [what : {"none", "submit", "read", "cancel"}, at : Ats, first : Info, info : Info,
   answer : {answer}]

TypeOK ==
  /\ sidecar \in SidecarType
  /\ shell \in Nat
  /\ rows \in Seq(Row)
  /\ infoP \in Info
  /\ call \in CallType(call.answer)

(* The runs are still the same runs.                                        *)
SameRuns ==
  /\ Len(rows') = Len(rows)
  /\ \A i \in DOMAIN rows : rows'[i].by = rows[i].by

(* The request on its way, and what its first attempt can have left behind.  *)
Asking == call.at \in {"ask", "half", "sent"}

(* The pair names the sidecar of the only run there is, if there is one.    *)
LeftBy(pair) ==
  /\ Len(rows) <= 1
  /\ Len(rows) = 1 => rows[1].by = pair.port /\ pair.port = pair.token

(* What makes OncePerSidecar inductive: the first attempt finds no run; the  *)
(* retry at most the one the first attempt made, with the sidecar of the pair *)
(* it was sent with; and a retry is sent with another pair.                  *)
FirstFindsNone == call.what = "submit" /\ call.first = NoInfo /\ Asking => rows = <<>>
RetryFindsFirst == call.what = "submit" /\ call.first # NoInfo /\ Asking => LeftBy(call.first)
AnswerNamesRun ==
  call.what = "submit" /\ call.first = NoInfo /\ call.at = "answered" => LeftBy(call.info)
RetryElsewhere ==
  /\ call.at \in {"sent", "answered"} => call.info # call.first
  /\ call.first # NoInfo /\ call.at \in {"ask", "half"} => infoP = NoInfo
OneSubmit ==
  /\ stage = "idle" => rows = <<>>
  /\ call.what = "submit" <=> stage = "submitting"

Trail == FirstFindsNone /\ RetryFindsFirst /\ AnswerNamesRun /\ RetryElsewhere /\ OneSubmit

IInv == TypeOK /\ Trail /\ OncePerSidecar

-----------------------------------------------------------------------------
(* Moving a run on, or stopping it, leaves the runs what they are.          *)
LEMMA RowChange ==
  ASSUME NEW r \in Row, NEW s \in States
  PROVE  /\ [r EXCEPT !.state = s] \in Row /\ [r EXCEPT !.state = s].by = r.by
         /\ Cancelled(r) \in Row /\ Cancelled(r).by = r.by
<1>1. [r EXCEPT !.state = s] \in Row /\ [r EXCEPT !.state = s].by = r.by
  BY DEF Row
<1>2. CASE r.state = "queued"
  BY <1>2 DEF Row, Cancelled, States
<1>3. CASE r.state # "queued"
  BY <1>3 DEF Row, Cancelled, States
<1> QED BY <1>1, <1>2, <1>3

LEMMA ChangeOne ==
  ASSUME rows \in Seq(Row), NEW i, NEW row, rows' = [rows EXCEPT ![i] = row],
         i \in DOMAIN rows => row \in Row /\ row.by = rows[i].by
  PROVE  rows' \in Seq(Row) /\ SameRuns
<1>1. CASE i \in DOMAIN rows
  <2>1. i \in 1 .. Len(rows) /\ row \in Row /\ row.by = rows[i].by /\ DOMAIN rows = 1 .. Len(rows)
    BY <1>1, LenProperties
  <2>2. /\ rows' \in Seq(Row) /\ Len(rows') = Len(rows)
        /\ \A j \in 1 .. Len(rows) : rows'[j] = IF j = i THEN row ELSE rows[j]
    BY <2>1, ExceptSeq
  <2> QED BY <2>1, <2>2 DEF SameRuns
<1>2. CASE i \notin DOMAIN rows
  <2>1. rows' = rows
    BY <1>2
  <2> QED BY <2>1 DEF SameRuns
<1> QED BY <1>1, <1>2

LEMMA SameDomain ==
  ASSUME rows \in Seq(Row), rows' \in Seq(Row), SameRuns
  PROVE  DOMAIN rows' = DOMAIN rows /\ (rows = <<>> <=> rows' = <<>>)
<1>1. DOMAIN rows = 1 .. Len(rows) /\ DOMAIN rows' = 1 .. Len(rows')
  BY LenProperties
<1>2. rows = <<>> <=> Len(rows) = 0
  BY EmptySeq
<1>3. rows' = <<>> <=> Len(rows') = 0
  BY EmptySeq
<1> QED BY <1>1, <1>2, <1>3 DEF SameRuns

(* Whatever happens to the runs, the request stays where it is.             *)
LEMMA RunsMove ==
  ASSUME TypeOK, Trail, OncePerSidecar, TypeOK', SameRuns, UNCHANGED <<infoP, call, stage>>
  PROVE  Trail' /\ OncePerSidecar'
<1>1. DOMAIN rows' = DOMAIN rows /\ (rows = <<>> <=> rows' = <<>>)
  BY SameDomain DEF TypeOK
<1>2. OncePerSidecar'
  BY <1>1 DEF SameRuns, OncePerSidecar
<1>3. ASSUME NEW pair, LeftBy(pair)
      PROVE  Len(rows') <= 1 /\ (Len(rows') = 1 => rows'[1].by = pair.port /\ pair.port = pair.token)
  <2>1. Len(rows) = 1 => 1 \in DOMAIN rows
    BY LenProperties DEF TypeOK
  <2> QED BY <1>3, <2>1 DEF LeftBy, SameRuns
<1>4. RetryFindsFirst' /\ AnswerNamesRun'
  BY <1>3 DEF Trail, RetryFindsFirst, AnswerNamesRun, LeftBy, Asking
<1> QED
  BY <1>1, <1>2, <1>4 DEF Trail, FirstFindsNone, RetryElsewhere, OneSubmit, Asking

LEMMA WatchedChange ==
  ASSUME rows \in Seq(Row), UNCHANGED rows \/ rows' = [rows EXCEPT ![Len(rows)] = Cancelled(rows[Len(rows)])]
  PROVE  rows' \in Seq(Row) /\ SameRuns
<1> DEFINE n == Len(rows)
<1>1. n \in DOMAIN rows => Cancelled(rows[n]) \in Row /\ Cancelled(rows[n]).by = rows[n].by
  BY RowChange, ElementOfSeq, LenProperties DEF States
<1>2. CASE UNCHANGED rows
  BY <1>2 DEF SameRuns
<1>3. CASE rows' = [rows EXCEPT ![n] = Cancelled(rows[n])]
  <2> HIDE DEF n
  <2> QED BY <1>1, <1>3, ChangeOne
<1> QED BY <1>2, <1>3

-----------------------------------------------------------------------------
(* What the sidecar does leaves the request alone, and the runs the same.   *)
LEMMA SidecarSteps ==
  ASSUME TypeOK, \/ Die \/ Respawn \/ Publish \/ UserStops
                 \/ \E i \in DOMAIN rows : Start(i) \/ Finish(i) \/ StopSeen(i)
  PROVE  TypeOK' /\ SameRuns /\ UNCHANGED <<infoP, call, stage>>
<1> USE DEF world, page
<1>1. sidecar \in SidecarType /\ shell \in Nat /\ rows \in Seq(Row)
  BY DEF TypeOK
<1>2. ASSUME rows' \in Seq(Row), SameRuns, sidecar' \in SidecarType, shell' \in Nat,
             UNCHANGED <<infoP, call, stage>>
      PROVE  TypeOK'
  BY <1>2 DEF TypeOK
<1>3. CASE Die \/ Publish
  <2>1. UNCHANGED <<rows, infoP, call, stage>>
    BY <1>3 DEF Die, Publish
  <2>2. sidecar' \in SidecarType /\ shell' \in Nat
    BY <1>1, <1>3 DEF Die, Publish, SidecarType
  <2>3. rows' \in Seq(Row) /\ SameRuns
    BY <1>1, <2>1 DEF SameRuns
  <2> QED BY <1>2, <2>1, <2>2, <2>3
<1>4. CASE Respawn
  <2>1. UNCHANGED <<shell, infoP, call, stage>> /\ sidecar' \in SidecarType
    BY <1>1, <1>4 DEF Respawn, SidecarType
  <2>2. rows' = [i \in DOMAIN rows |->
          IF rows[i].state = "running" THEN [rows[i] EXCEPT !.state = "failed"] ELSE rows[i]]
    BY <1>4 DEF Respawn
  <2>3. DOMAIN rows = 1 .. Len(rows) /\ Len(rows) \in Nat
    BY <1>1, LenProperties
  <2>4. \A i \in 1 .. Len(rows) : rows[i] \in Row
    BY <1>1, ElementOfSeq
  <2>5. \A i \in 1 .. Len(rows) : rows'[i] \in Row /\ rows'[i].by = rows[i].by
    BY <2>2, <2>3, <2>4, RowChange DEF States
  <2>6. rows' \in [1 .. Len(rows) -> Row]
    BY <2>2, <2>3, <2>5
  <2>7. rows' \in Seq(Row) /\ Len(rows') = Len(rows)
    BY <2>3, <2>6
  <2>8. SameRuns
    BY <2>3, <2>5, <2>7 DEF SameRuns
  <2> QED BY <1>1, <1>2, <2>1, <2>7, <2>8
<1>5. CASE UserStops
  <2>1. rows' = [rows EXCEPT ![Len(rows)] = Cancelled(rows[Len(rows)])]
        /\ UNCHANGED <<sidecar, shell, infoP, call, stage>>
    BY <1>5 DEF UserStops
  <2>2. rows' \in Seq(Row) /\ SameRuns
    BY <1>1, <2>1, WatchedChange
  <2> QED BY <1>1, <1>2, <2>1, <2>2
<1>6. ASSUME NEW i \in DOMAIN rows, Start(i) \/ Finish(i) \/ StopSeen(i)
      PROVE  TypeOK' /\ SameRuns /\ UNCHANGED <<infoP, call, stage>>
  <2>1. PICK s \in States : Step(i, s)
    BY <1>6 DEF Start, Finish, StopSeen, States
  <2>2. rows' = [rows EXCEPT ![i] = [rows[i] EXCEPT !.state = s]] /\ UNCHANGED <<sidecar, shell, infoP, call, stage>>
    BY <2>1 DEF Step
  <2>3. rows[i] \in Row
    BY <1>1, ElementOfSeq, LenProperties
  <2>4. [rows[i] EXCEPT !.state = s] \in Row /\ [rows[i] EXCEPT !.state = s].by = rows[i].by
    BY <2>3, RowChange
  <2>5. rows' \in Seq(Row) /\ SameRuns
    BY <1>1, <2>2, <2>4, ChangeOne
  <2> QED BY <1>1, <1>2, <2>2, <2>5
<1> QED BY <1>3, <1>4, <1>5, <1>6

(* What the answered request leaves.                                        *)
LEMMA ServeStep ==
  ASSUME TypeOK, Trail, OncePerSidecar, Serve
  PROVE  TypeOK' /\ Trail' /\ OncePerSidecar'
<1> USE DEF world, page
<1>1. /\ sidecar \in SidecarType /\ rows \in Seq(Row) /\ infoP \in Info
      /\ call \in CallType(call.answer) /\ call.info \in Info /\ call.first \in Info
  BY DEF TypeOK, CallType
<1>2. /\ call.at = "sent" /\ call.info.port = sidecar.id /\ call.info.token = sidecar.id
      /\ UNCHANGED <<sidecar, shell, infoP, stage>>
  BY DEF Serve, Reachable
<1>3. PICK answer : call' = [call EXCEPT !.at = "answered", !.answer = answer]
  BY DEF Serve, Answered
<1>4. /\ call'.at = "answered" /\ call'.what = call.what
      /\ call'.first = call.first /\ call'.info = call.info /\ call' \in CallType(call'.answer)
  BY <1>1, <1>3 DEF CallType, Ats
<1>5. sidecar.id \in Nat
  BY <1>1 DEF SidecarType
<1>6. RetryElsewhere'
  BY <1>2, <1>4 DEF Trail, RetryElsewhere
<1>7. ASSUME rows' \in Seq(Row) PROVE TypeOK'
  BY <1>2, <1>4, <1>7 DEF TypeOK
<1>8. CASE call.what = "submit"
  <2> DEFINE row == [state |-> "queued", stop |-> FALSE, by |-> sidecar.id]
  <2>1. rows' = Append(rows, row)
    BY <1>8 DEF Serve
  <2>2. row \in Row
    BY <1>5 DEF Row, States
  <2>3. /\ rows' \in Seq(Row) /\ Len(rows') = Len(rows) + 1 /\ rows'[Len(rows) + 1] = row
        /\ \A i \in 1 .. Len(rows) : rows'[i] = rows[i]
        /\ DOMAIN rows' = 1 .. Len(rows) + 1 /\ Len(rows) \in Nat
    <3> HIDE DEF row
    <3> QED BY <1>1, <2>1, <2>2
  <2>4. rows'[Len(rows) + 1].by = sidecar.id
    BY <2>3
  <2>5. stage = "submitting" /\ stage' = "submitting"
    BY <1>2, <1>8 DEF Trail, OneSubmit
  <2> HIDE DEF row
  <2>6. CASE call.first = NoInfo
    <3>1. rows = <<>>
      BY <1>2, <1>8, <2>6 DEF Trail, FirstFindsNone, Asking
    <3>2. Len(rows) = 0
      BY <3>1
    <3>3. Len(rows') = 1 /\ rows'[1].by = sidecar.id /\ DOMAIN rows' = 1 .. 1
      BY <2>3, <2>4, <3>2
    <3>4. OncePerSidecar'
      BY <3>3 DEF OncePerSidecar
    <3>5. FirstFindsNone' /\ RetryFindsFirst' /\ AnswerNamesRun' /\ OneSubmit'
      BY <1>2, <1>4, <1>8, <2>5, <2>6, <3>3 DEF FirstFindsNone, RetryFindsFirst, AnswerNamesRun, OneSubmit,
         Asking, LeftBy
    <3> QED BY <1>6, <1>7, <2>3, <3>4, <3>5 DEF Trail
  <2>7. CASE call.first # NoInfo
    <3>1. LeftBy(call.first)
      BY <1>2, <1>8, <2>7 DEF Trail, RetryFindsFirst, Asking
    <3>2. call.info # call.first
      BY <1>2 DEF Trail, RetryElsewhere
    <3>3. Len(rows) = 1 => rows[1].by # sidecar.id
      BY <1>1, <1>2, <3>1, <3>2 DEF LeftBy, Info
    <3>4. OncePerSidecar'
      <4>1. CASE Len(rows) = 0
        BY <2>3, <4>1 DEF OncePerSidecar
      <4>2. CASE Len(rows) = 1
        <5>1. DOMAIN rows' = {1, 2} /\ rows'[1].by = rows[1].by /\ rows'[2].by = sidecar.id
          BY <2>3, <2>4, <4>2
        <5> QED BY <3>3, <4>2, <5>1 DEF OncePerSidecar
      <4>3. Len(rows) \in Nat /\ Len(rows) <= 1
        BY <1>1, <3>1, LenProperties DEF LeftBy
      <4>4. \A n \in Nat : n <= 1 => n = 0 \/ n = 1
        OBVIOUS
      <4> QED BY <4>1, <4>2, <4>3, <4>4
    <3>5. FirstFindsNone' /\ RetryFindsFirst' /\ AnswerNamesRun' /\ OneSubmit'
      BY <1>2, <1>4, <1>8, <2>5, <2>7 DEF FirstFindsNone, RetryFindsFirst, AnswerNamesRun, OneSubmit, Asking
    <3> QED BY <1>6, <1>7, <2>3, <3>4, <3>5 DEF Trail
  <2> QED BY <2>6, <2>7
<1>9. CASE call.what # "submit"
  <2>1. UNCHANGED rows \/ rows' = [rows EXCEPT ![Len(rows)] = Cancelled(rows[Len(rows)])]
    BY <1>9 DEF Serve
  <2>2. rows' \in Seq(Row) /\ SameRuns
    BY <1>1, <2>1, WatchedChange
  <2>3. DOMAIN rows' = DOMAIN rows /\ (rows = <<>> <=> rows' = <<>>)
    BY <1>1, <2>2, SameDomain
  <2>4. OncePerSidecar'
    BY <2>2, <2>3 DEF SameRuns, OncePerSidecar
  <2>5. FirstFindsNone' /\ RetryFindsFirst' /\ AnswerNamesRun' /\ OneSubmit'
    BY <1>2, <1>4, <1>9, <2>3 DEF Trail, FirstFindsNone, RetryFindsFirst, AnswerNamesRun, OneSubmit
  <2> QED BY <1>6, <1>7, <2>2, <2>4, <2>5 DEF Trail
<1> QED BY <1>8, <1>9

(* The rest of the transport and the mutation leave the runs alone.         *)
LEMMA PageSteps ==
  ASSUME TypeOK, Trail,
         UseCached \/ AskFirst \/ AskSecond \/ Refuse \/ Deliver \/ Fails \/ Submit \/ LimitPasses \/ Mutation
  PROVE  TypeOK' /\ Trail' /\ UNCHANGED rows
<1> USE DEF world, page
<1>1. /\ shell \in Nat /\ infoP \in Info /\ NoInfo \in Info
      /\ call \in CallType(call.answer) /\ call.info \in Info /\ call.first \in Info
  BY DEF TypeOK, CallType, NoInfo, Info
<1>2. FirstFindsNone /\ RetryFindsFirst /\ AnswerNamesRun /\ RetryElsewhere /\ OneSubmit
  BY DEF Trail
<1>3. UNCHANGED <<sidecar, shell, rows>>
  BY DEF UseCached, AskFirst, AskSecond, Refuse, Deliver, Fails, Submit, LimitPasses, Mutation,
         Submitted, Poll, Read, TimedOut
<1>4. ASSUME infoP' \in Info, call' \in CallType(call'.answer), Trail' PROVE TypeOK' /\ Trail' /\ UNCHANGED rows
  BY <1>3, <1>4 DEF TypeOK
<1> USE DEF Trail, FirstFindsNone, RetryFindsFirst, AnswerNamesRun, RetryElsewhere, OneSubmit, Asking, LeftBy
<1>5. CASE UseCached
  <2>1. /\ call.at = "ask" /\ infoP # NoInfo /\ UNCHANGED <<infoP, stage>>
        /\ call' = [call EXCEPT !.at = "sent", !.info = infoP]
    BY <1>5 DEF UseCached
  <2>2. /\ call' \in CallType(call'.answer) /\ call'.what = call.what /\ call'.first = call.first
        /\ call'.at = "sent" /\ call'.info = infoP
    BY <1>1, <2>1 DEF CallType, Ats
  <2>3. call.first = NoInfo
    BY <1>2, <2>1
  <2> QED BY <1>1, <1>2, <1>3, <1>4, <2>1, <2>2, <2>3
<1>6. CASE AskFirst
  <2>1. PICK pair \in {[NoInfo EXCEPT !.port = shell], [NoInfo EXCEPT !.token = shell]} :
          call' = [call EXCEPT !.at = "half", !.info = pair]
    BY <1>6 DEF AskFirst
  <2>2. pair \in Info /\ call.at = "ask" /\ UNCHANGED <<infoP, stage>>
    BY <1>1, <1>6 DEF AskFirst, NoInfo, Info
  <2>3. /\ call' \in CallType(call'.answer) /\ call'.what = call.what /\ call'.first = call.first
        /\ call'.at = "half"
    BY <1>1, <2>1, <2>2 DEF CallType, Ats
  <2> QED BY <1>1, <1>2, <1>3, <1>4, <2>1, <2>2, <2>3
<1>7. CASE AskSecond
  <2>1. call.at = "half" /\ infoP' = Completed /\ UNCHANGED stage
    BY <1>7 DEF AskSecond
  <2>2. infoP' \in Info
    BY <1>1, <2>1 DEF Completed, Info
  <2>3. CASE infoP' = call.first
    <3>1. call' = [call EXCEPT !.at = "done", !.answer = "error"]
      BY <1>7, <2>3 DEF AskSecond, Throw
    <3>2. /\ call' \in CallType(call'.answer) /\ call'.what = call.what /\ call'.first = call.first
          /\ call'.at = "done"
      BY <1>1, <3>1 DEF CallType, Ats
    <3> QED BY <1>2, <1>3, <1>4, <2>1, <2>2, <3>2
  <2>4. CASE infoP' # call.first
    <3>1. call' = [call EXCEPT !.at = "sent", !.info = infoP']
      BY <1>7, <2>4 DEF AskSecond
    <3>2. /\ call' \in CallType(call'.answer) /\ call'.what = call.what /\ call'.first = call.first
          /\ call'.at = "sent" /\ call'.info = infoP'
      BY <1>1, <2>2, <3>1 DEF CallType, Ats
    <3> QED BY <1>2, <1>3, <1>4, <2>1, <2>2, <2>4, <3>2
  <2> QED BY <2>3, <2>4
<1>8. CASE Refuse
  <2>1. /\ call.at = "sent" /\ UNCHANGED <<infoP, stage>>
        /\ call' = [call EXCEPT !.at = "answered", !.answer = "error"]
    BY <1>8 DEF Refuse, Answered
  <2>2. /\ call' \in CallType(call'.answer) /\ call'.what = call.what /\ call'.first = call.first
        /\ call'.at = "answered" /\ call'.info = call.info
    BY <1>1, <2>1 DEF CallType, Ats
  <2>3. rows = <<>> => Len(rows) = 0
    OBVIOUS
  <2> QED BY <1>1, <1>2, <1>3, <1>4, <2>1, <2>2, <2>3
<1>9. CASE Deliver
  <2>1. UNCHANGED <<infoP, stage>> /\ call' = [call EXCEPT !.at = "done"]
    BY <1>9 DEF Deliver
  <2>2. /\ call' \in CallType(call'.answer) /\ call'.what = call.what /\ call'.first = call.first
        /\ call'.at = "done"
    BY <1>1, <2>1 DEF CallType, Ats
  <2> QED BY <1>1, <1>2, <1>3, <1>4, <2>1, <2>2
<1>10. CASE Fails
  <2>1. call.at \in {"sent", "answered"} /\ UNCHANGED stage
    BY <1>10 DEF Fails
  <2>2. CASE call.first = NoInfo
    <3>1. call' = [call EXCEPT !.at = "ask", !.first = call.info, !.answer = "none"] /\ infoP' = NoInfo
      BY <1>10, <2>2 DEF Fails
    <3>2. /\ call' \in CallType(call'.answer) /\ call'.what = call.what /\ call'.first = call.info
          /\ call'.at = "ask"
      BY <1>1, <3>1 DEF CallType, Ats
    <3>3. call.info # NoInfo
      BY <1>2, <2>1, <2>2
    <3>4. rows = <<>> => Len(rows) = 0
      OBVIOUS
    <3>5. Trail'
      BY <1>1, <1>2, <1>3, <2>1, <2>2, <3>1, <3>2, <3>3, <3>4
    <3> QED BY <1>1, <1>4, <3>1, <3>2, <3>5
  <2>3. CASE call.first # NoInfo
    <3>1. call' = [call EXCEPT !.at = "done", !.answer = "error"] /\ UNCHANGED infoP
      BY <1>10, <2>3 DEF Fails, Throw
    <3>2. /\ call' \in CallType(call'.answer) /\ call'.what = call.what /\ call'.first = call.first
          /\ call'.at = "done"
      BY <1>1, <3>1 DEF CallType, Ats
    <3> QED BY <1>1, <1>2, <1>3, <1>4, <2>1, <3>1, <3>2
  <2> QED BY <2>2, <2>3
<1>11. CASE Submit
  <2>1. /\ UNCHANGED infoP /\ stage = "idle" /\ stage' = "submitting"
        /\ call' = [NoCall EXCEPT !.what = "submit", !.at = "ask"]
    BY <1>11 DEF Submit, Request
  <2>2. /\ call'.what = "submit" /\ call'.at = "ask" /\ call'.first = NoInfo
        /\ call' \in CallType(call'.answer)
    BY <1>1, <2>1 DEF NoCall, CallType, Ats
  <2> QED BY <1>1, <1>2, <1>3, <1>4, <2>1, <2>2
<1>12. CASE LimitPasses \/ Mutation
  <2>1. /\ UNCHANGED infoP /\ stage # "idle" /\ stage' # "idle"
        /\ \/ UNCHANGED <<call, stage>>
           \/ stage' # "submitting" /\ call' = NoCall
           \/ stage' # "submitting" /\ Request("read")
           \/ stage' # "submitting" /\ Request("cancel")
    <3>1. CASE LimitPasses
      BY <3>1 DEF LimitPasses
    <3>2. CASE Submitted
      BY <3>2 DEF Submitted, End
    <3>3. CASE Poll
      BY <3>3 DEF Poll
    <3>4. CASE Read
      BY <3>4 DEF Read, End
    <3>5. CASE TimedOut
      BY <3>5 DEF TimedOut, End
    <3> QED BY <1>12, <3>1, <3>2, <3>3, <3>4, <3>5 DEF Mutation
  <2>2. CASE UNCHANGED <<call, stage>>
    BY <1>1, <1>2, <1>3, <1>4, <2>1, <2>2
  <2>3. ASSUME stage' # "submitting", call' = NoCall \/ Request("read") \/ Request("cancel")
        PROVE  TypeOK' /\ Trail' /\ UNCHANGED rows
    <3>1. /\ call'.what # "submit" /\ call'.at \in {"none", "ask"} /\ call'.first = NoInfo
          /\ call' \in CallType(call'.answer)
      <4>1. CASE call' = NoCall
        BY <1>1, <4>1 DEF NoCall, CallType, Ats
      <4>2. CASE Request("read")
        BY <1>1, <4>2 DEF NoCall, Request, CallType, Ats
      <4>3. CASE Request("cancel")
        BY <1>1, <4>3 DEF NoCall, Request, CallType, Ats
      <4> QED BY <2>3, <4>1, <4>2, <4>3
    <3> QED BY <1>1, <1>3, <1>4, <2>1, <2>3, <3>1
  <2> QED BY <2>1, <2>2, <2>3
<1> QED
  BY <1>5, <1>6, <1>7, <1>8, <1>9, <1>10, <1>11, <1>12

-----------------------------------------------------------------------------
LEMMA InvStep == IInv /\ [Next]_vars => IInv'
<1> SUFFICES ASSUME IInv, [Next]_vars PROVE IInv'
  OBVIOUS
<1>1. TypeOK /\ Trail /\ OncePerSidecar
  BY DEF IInv
<1>2. CASE \/ Die \/ Respawn \/ Publish \/ UserStops
           \/ \E i \in DOMAIN rows : Start(i) \/ Finish(i) \/ StopSeen(i)
  <2>1. TypeOK' /\ SameRuns /\ UNCHANGED <<infoP, call, stage>>
    BY <1>1, <1>2, SidecarSteps
  <2> QED BY <1>1, <2>1, RunsMove DEF IInv
<1>3. CASE Serve
  BY <1>1, <1>3, ServeStep DEF IInv
<1>4. CASE \/ UseCached \/ AskFirst \/ AskSecond \/ Refuse \/ Deliver \/ Fails
           \/ Submit \/ LimitPasses \/ Mutation
  <2>1. TypeOK' /\ Trail' /\ UNCHANGED rows
    BY <1>1, <1>4, PageSteps
  <2> QED BY <1>1, <2>1 DEF IInv, OncePerSidecar
<1>5. CASE UNCHANGED vars
  BY <1>1, <1>5 DEF vars, IInv, TypeOK, Trail, OncePerSidecar, FirstFindsNone, RetryFindsFirst,
     AnswerNamesRun, RetryElsewhere, OneSubmit, Asking, LeftBy
<1> QED
  BY <1>2, <1>3, <1>4, <1>5 DEF Next, Transport

(* However often the sidecar dies and connections break, one request leaves  *)
(* at most one run with each sidecar.                                        *)
THEOREM OneRunEach == Spec => []OncePerSidecar
<1>1. Init => TypeOK
  BY DEF Init, TypeOK, CallType, SidecarType, NoCall, NoInfo, Info, Ats
<1>2. Init => Trail /\ OncePerSidecar
  BY DEF Init, Trail, FirstFindsNone, RetryFindsFirst, AnswerNamesRun, RetryElsewhere,
         OneSubmit, OncePerSidecar, Asking, NoCall
<1>3. IInv => OncePerSidecar
  BY DEF IInv
<1>4. Init => IInv
  BY <1>1, <1>2 DEF IInv
<1> QED
  BY <1>3, <1>4, InvStep, PTL DEF Spec

-----------------------------------------------------------------------------
(* What becomes of the run that was waited for.  A run that has ended, or    *)
(* was told to stop, stays so...                                             *)
EndsKept ==
  \A i \in DOMAIN rows :
    /\ rows[i].state \in Terminal => rows'[i].state \in Terminal
    /\ rows[i].stop => rows'[i].stop

LEMMA OneChangedKept ==
  ASSUME rows \in Seq(Row), NEW i, NEW row, rows' = [rows EXCEPT ![i] = row],
         i \in DOMAIN rows => /\ rows[i].state \in Terminal => row.state \in Terminal
                              /\ rows[i].stop => row.stop
  PROVE  EndsKept
BY DEF EndsKept

LEMMA CancelKeeps ==
  ASSUME NEW r \in Row
  PROVE  /\ r.state \in Terminal => Cancelled(r).state \in Terminal
         /\ Cancelled(r).stop
<1>1. CASE r.state = "queued"
  BY <1>1 DEF Row, Cancelled, Terminal
<1>2. CASE r.state # "queued"
  BY <1>2 DEF Row, Cancelled
<1> QED BY <1>1, <1>2

LEMMA WatchedCancelKeeps ==
  ASSUME rows \in Seq(Row), UNCHANGED rows \/ rows' = [rows EXCEPT ![Len(rows)] = Cancelled(rows[Len(rows)])]
  PROVE  EndsKept
<1>1. CASE UNCHANGED rows
  BY <1>1 DEF EndsKept
<1>2. CASE rows' = [rows EXCEPT ![Len(rows)] = Cancelled(rows[Len(rows)])]
  <2> DEFINE n == Len(rows)
             row == Cancelled(rows[n])
  <2>1. n \in DOMAIN rows => rows[n] \in Row
    BY ElementOfSeq, LenProperties
  <2>2. n \in DOMAIN rows => /\ rows[n].state \in Terminal => row.state \in Terminal
                             /\ rows[n].stop => row.stop
    BY <2>1, CancelKeeps
  <2>3. rows' = [rows EXCEPT ![n] = row]
    BY <1>2
  <2> HIDE DEF n, row
  <2> QED BY <2>2, <2>3, OneChangedKept
<1> QED BY <1>1, <1>2

LEMMA SidecarKeepsEnds ==
  ASSUME TypeOK, \/ Die \/ Respawn \/ Publish \/ UserStops
                 \/ \E i \in DOMAIN rows : Start(i) \/ Finish(i) \/ StopSeen(i)
  PROVE  EndsKept
<1>1. rows \in Seq(Row)
  BY DEF TypeOK
<1>2. CASE Die \/ Publish
  BY <1>2 DEF Die, Publish, EndsKept
<1>3. CASE Respawn
  <2>1. \A i \in DOMAIN rows : rows'[i] =
          IF rows[i].state = "running" THEN [rows[i] EXCEPT !.state = "failed"] ELSE rows[i]
    BY <1>3 DEF Respawn
  <2>2. \A i \in DOMAIN rows : rows[i] \in Row
    BY <1>1, ElementOfSeq, LenProperties
  <2> QED BY <2>1, <2>2 DEF EndsKept, Row, Terminal
<1>4. CASE UserStops
  BY <1>1, <1>4, WatchedCancelKeeps DEF UserStops
<1>5. ASSUME NEW i \in DOMAIN rows, Start(i) \/ Finish(i) \/ StopSeen(i)
      PROVE  EndsKept
  <2>1. PICK s \in States : Step(i, s) /\ rows[i].state \notin Terminal
    BY <1>5 DEF Start, Finish, StopSeen, States, Terminal
  <2> DEFINE row == [rows[i] EXCEPT !.state = s]
  <2>2. rows[i] \in Row
    BY <1>1, ElementOfSeq, LenProperties
  <2>3. rows[i].stop => row.stop
    BY <2>2 DEF Row
  <2>4. rows' = [rows EXCEPT ![i] = row]
    BY <2>1 DEF Step
  <2> HIDE DEF row
  <2> QED BY <1>1, <2>1, <2>3, <2>4, OneChangedKept
<1> QED BY <1>2, <1>3, <1>4, <1>5

(* ... and what an answer tells the page about the run is still true when    *)
(* the page reads it.                                                        *)
ErrorIsCut == call.at = "done" /\ call.answer = "error" => cut
AnswerHolds ==
  rows # <<>> /\ call.at \in {"answered", "done"} =>
    /\ call.what = "read" /\ call.answer \in Terminal => Watched.state \in Terminal
    /\ call.what = "cancel" /\ call.answer # "error" => Watched.stop
AskedFor ==
  /\ stage = "reading" => call.what = "read"
  /\ stage = "cancelling" => call.what = "cancel"

Told == ErrorIsCut /\ AnswerHolds /\ AskedFor /\ NobodySpendsUnwatched

(* As long as only the runs move, what was told stays true.                  *)
LEMMA TellingKept ==
  ASSUME TypeOK, TypeOK', Told, SameRuns, EndsKept, UNCHANGED <<call, stage, cut>>
  PROVE  Told'
<1>1. (rows = <<>> <=> rows' = <<>>) /\ Len(rows') = Len(rows)
  BY SameDomain DEF TypeOK, SameRuns
<1>2. rows # <<>> => Len(rows) \in DOMAIN rows
  BY LenProperties, EmptySeq DEF TypeOK
<1>3. rows # <<>> => /\ Watched.state \in Terminal => Watched'.state \in Terminal
                     /\ Watched.stop => Watched'.stop
  BY <1>1, <1>2 DEF EndsKept, Watched
<1> QED
  BY <1>1, <1>3 DEF Told, ErrorIsCut, AnswerHolds, AskedFor, NobodySpendsUnwatched

LEMMA ServeTells ==
  ASSUME TypeOK, Trail, TypeOK', Told, Serve
  PROVE  Told'
<1>1. /\ call.at = "sent" /\ UNCHANGED <<stage, cut>> /\ rows \in Seq(Row)
      /\ call \in CallType(call.answer)
  BY DEF Serve, page, TypeOK
<1>2. PICK answer : call' = [call EXCEPT !.at = "answered", !.answer = answer]
  BY DEF Serve, Answered
<1>3. call'.at = "answered" /\ call'.what = call.what /\ call'.answer = answer
  BY <1>1, <1>2 DEF CallType
<1>4. ErrorIsCut' /\ AskedFor'
  BY <1>1, <1>3 DEF Told, ErrorIsCut, AskedFor
<1>5. CASE call.what = "submit"
  <2>1. stage = "submitting"
    BY <1>5 DEF Trail, OneSubmit
  <2> QED BY <1>1, <1>3, <1>4, <1>5, <2>1 DEF Told, AnswerHolds, NobodySpendsUnwatched
<1>6. CASE call.what = "read"
  <2>1. UNCHANGED rows /\ call' = [call EXCEPT !.at = "answered", !.answer = Watched.state]
    BY <1>6 DEF Serve, Answered
  <2>2. call'.answer = Watched.state
    BY <1>1, <2>1 DEF CallType
  <2> QED BY <1>1, <1>3, <1>4, <1>6, <2>1, <2>2 DEF Told, AnswerHolds, NobodySpendsUnwatched, Watched
<1>7. CASE call.what \notin {"submit", "read"}
  <2>1. CASE Watched.state \in Terminal
    <3>1. UNCHANGED rows /\ call' = [call EXCEPT !.at = "answered", !.answer = "error"]
      BY <1>7, <2>1 DEF Serve, Answered
    <3>2. call'.answer = "error"
      BY <1>1, <3>1 DEF CallType
    <3> QED BY <1>1, <1>3, <1>4, <1>7, <3>1, <3>2 DEF Told, AnswerHolds, NobodySpendsUnwatched, Watched
  <2>2. CASE Watched.state \notin Terminal
    <3> DEFINE n == Len(rows)
               row == Cancelled(rows[n])
    <3>1. rows' = [rows EXCEPT ![n] = row]
      BY <1>7, <2>2 DEF Serve, Watched
    <3>2. rows' \in Seq(Row) /\ SameRuns /\ EndsKept
      BY <1>1, <3>1, WatchedChange, WatchedCancelKeeps
    <3>3. rows' # <<>> => rows # <<>> /\ n \in DOMAIN rows /\ Len(rows') = n
      BY <1>1, <3>2, SameDomain, LenProperties, EmptySeq DEF SameRuns
    <3>4. rows' # <<>> => rows[n] \in Row /\ rows'[n] = row
      BY <1>1, <3>1, <3>3, ElementOfSeq, LenProperties
    <3>5. rows' # <<>> => Watched'.stop
      BY <3>3, <3>4, CancelKeeps DEF Watched
    <3> HIDE DEF n, row
    <3>6. AnswerHolds' /\ NobodySpendsUnwatched'
      BY <1>3, <1>7, <3>5 DEF AnswerHolds, NobodySpendsUnwatched
    <3> QED BY <1>4, <3>6 DEF Told
  <2> QED BY <2>1, <2>2
<1> QED BY <1>5, <1>6, <1>7

(* The page ends its wait on what it was told.                               *)
LEMMA PageTells ==
  ASSUME TypeOK, Trail, Told, UNCHANGED rows,
         UseCached \/ AskFirst \/ AskSecond \/ Refuse \/ Deliver \/ Fails \/ Submit \/ LimitPasses \/ Mutation
  PROVE  Told'
<1> USE DEF page, Told, ErrorIsCut, AnswerHolds, AskedFor, NobodySpendsUnwatched, Watched
<1>1. call \in CallType(call.answer)
  BY DEF TypeOK
<1>2. CASE UseCached \/ AskFirst
  <2>1. PICK at \in {"sent", "half"} : \E i : call' = [call EXCEPT !.at = at, !.info = i]
    BY <1>2 DEF UseCached, AskFirst
  <2>2. call'.at = at /\ call'.what = call.what /\ UNCHANGED <<stage, cut>>
    BY <1>1, <1>2, <2>1 DEF CallType, UseCached, AskFirst
  <2> QED BY <2>2
<1>3. CASE AskSecond
  <2>1. UNCHANGED stage /\ (cut => cut')
    BY <1>3 DEF AskSecond, Throw
  <2>2. CASE infoP' = call.first
    <3>1. call' = [call EXCEPT !.at = "done", !.answer = "error"] /\ cut'
      BY <1>3, <2>2 DEF AskSecond, Throw
    <3>2. call'.at = "done" /\ call'.answer = "error" /\ call'.what = call.what
      BY <1>1, <3>1 DEF CallType
    <3> QED BY <2>1, <3>1, <3>2 DEF Terminal
  <2>3. CASE infoP' # call.first
    <3>1. call' = [call EXCEPT !.at = "sent", !.info = infoP']
      BY <1>3, <2>3 DEF AskSecond
    <3>2. call'.at = "sent" /\ call'.what = call.what
      BY <1>1, <3>1 DEF CallType
    <3> QED BY <2>1, <3>2
  <2> QED BY <2>2, <2>3
<1>4. CASE Refuse
  <2>1. call' = [call EXCEPT !.at = "answered", !.answer = "error"] /\ UNCHANGED <<stage, cut>>
    BY <1>4 DEF Refuse, Answered
  <2>2. call'.at = "answered" /\ call'.answer = "error" /\ call'.what = call.what
    BY <1>1, <2>1 DEF CallType
  <2> QED BY <2>1, <2>2 DEF Terminal
<1>5. CASE Fails
  <2>1. UNCHANGED stage /\ (cut => cut')
    BY <1>5 DEF Fails, Throw
  <2>2. CASE call.first = NoInfo
    <3>1. call' = [call EXCEPT !.at = "ask", !.first = call.info, !.answer = "none"]
      BY <1>5, <2>2 DEF Fails
    <3>2. call'.at = "ask" /\ call'.what = call.what
      BY <1>1, <3>1 DEF CallType
    <3> QED BY <2>1, <3>2
  <2>3. CASE call.first # NoInfo
    <3>1. call' = [call EXCEPT !.at = "done", !.answer = "error"] /\ cut'
      BY <1>5, <2>3 DEF Fails, Throw
    <3>2. call'.at = "done" /\ call'.answer = "error" /\ call'.what = call.what
      BY <1>1, <3>1 DEF CallType
    <3> QED BY <2>1, <3>1, <3>2 DEF Terminal
  <2> QED BY <2>2, <2>3
<1>6. CASE Deliver
  <2>1. /\ call.at = "answered" /\ call' = [call EXCEPT !.at = "done"]
        /\ cut' = (cut \/ call.answer = "error") /\ UNCHANGED stage
    BY <1>6 DEF Deliver
  <2>2. call'.at = "done" /\ call'.answer = call.answer /\ call'.what = call.what
    BY <1>1, <2>1 DEF CallType
  <2> QED BY <2>1, <2>2
<1>7. CASE Submit
  <2>1. stage' = "submitting" /\ call' = [NoCall EXCEPT !.what = "submit", !.at = "ask"]
    BY <1>7 DEF Submit, Request
  <2>2. call'.at = "ask"
    BY <2>1 DEF NoCall
  <2> QED BY <2>1, <2>2
<1>8. CASE LimitPasses
  BY <1>8 DEF LimitPasses
<1>9. CASE Submitted
  <2>1. call.at = "done" /\ call' = NoCall /\ UNCHANGED cut
        /\ ((stage' = "done" /\ call.answer = "error") \/ stage' = "waiting")
    BY <1>9 DEF Submitted, Answer, End
  <2> QED BY <2>1 DEF NoCall
<1>10. CASE Poll
  <2>1. /\ UNCHANGED cut
        /\ \/ stage' = "cancelling" /\ call' = [NoCall EXCEPT !.what = "cancel", !.at = "ask"]
           \/ stage' = "reading" /\ call' = [NoCall EXCEPT !.what = "read", !.at = "ask"]
    BY <1>10 DEF Poll, Request
  <2>2. /\ call'.at = "ask"
        /\ \/ stage' = "cancelling" /\ call'.what = "cancel"
           \/ stage' = "reading" /\ call'.what = "read"
    BY <2>1 DEF NoCall
  <2> QED BY <2>1, <2>2
<1>11. CASE Read
  <2>1. /\ call.at = "done" /\ call.what = "read" /\ call' = NoCall /\ UNCHANGED cut
        /\ \/ stage' = "done" /\ call.answer \in {"error", "cancelled", "succeeded", "failed"}
           \/ stage' = "waiting"
    BY <1>11 DEF Read, Answer, End
  <2> QED BY <2>1 DEF NoCall, Terminal
<1>12. CASE TimedOut
  <2>1. call.at = "done" /\ call.what = "cancel" /\ call' = NoCall /\ UNCHANGED cut /\ stage' = "done"
    BY <1>12 DEF TimedOut, Answer, End
  <2> QED BY <2>1 DEF NoCall
<1> QED
  BY <1>2, <1>3, <1>4, <1>5, <1>6, <1>7, <1>8, <1>9, <1>10, <1>11, <1>12 DEF Mutation

LEMMA ToldStep == IInv /\ Told /\ [Next]_vars => Told'
<1> SUFFICES ASSUME IInv, Told, [Next]_vars PROVE Told'
  OBVIOUS
<1>1. TypeOK /\ Trail /\ TypeOK'
  BY InvStep DEF IInv
<1>2. CASE \/ Die \/ Respawn \/ Publish \/ UserStops
           \/ \E i \in DOMAIN rows : Start(i) \/ Finish(i) \/ StopSeen(i)
  <2>1. SameRuns /\ EndsKept /\ UNCHANGED <<call, stage>>
    BY <1>1, <1>2, SidecarSteps, SidecarKeepsEnds
  <2>2. UNCHANGED cut
    BY <1>2 DEF Die, Respawn, Publish, UserStops, Start, Finish, StopSeen, Step, page
  <2> QED BY <1>1, <2>1, <2>2, TellingKept
<1>3. CASE Serve
  BY <1>1, <1>3, ServeTells
<1>4. CASE \/ UseCached \/ AskFirst \/ AskSecond \/ Refuse \/ Deliver \/ Fails
           \/ Submit \/ LimitPasses \/ Mutation
  BY <1>1, <1>4, PageSteps, PageTells
<1>5. CASE UNCHANGED vars
  BY <1>5 DEF vars, Told, ErrorIsCut, AnswerHolds, AskedFor, NobodySpendsUnwatched, Watched
<1> QED
  BY <1>2, <1>3, <1>4, <1>5 DEF Next, Transport

(* However often the sidecar dies, connections break and the limit passes:  *)
(* a wait that ends without a failed request leaves no run behind that is   *)
(* neither over nor told to stop.                                           *)
THEOREM NobodySpends == Spec => []NobodySpendsUnwatched
<1>1. Init => IInv
  <2>1. Init => TypeOK
    BY DEF Init, TypeOK, CallType, SidecarType, NoCall, NoInfo, Info, Ats
  <2>2. Init => Trail /\ OncePerSidecar
    BY DEF Init, Trail, FirstFindsNone, RetryFindsFirst, AnswerNamesRun, RetryElsewhere,
           OneSubmit, OncePerSidecar, Asking, NoCall
  <2> QED BY <2>1, <2>2 DEF IInv
<1>2. Init => Told
  BY DEF Init, Told, ErrorIsCut, AnswerHolds, AskedFor, NobodySpendsUnwatched, NoCall
<1>3. Told => NobodySpendsUnwatched
  BY DEF Told
<1> QED
  BY <1>1, <1>2, <1>3, InvStep, ToldStep, PTL DEF Spec

-----------------------------------------------------------------------------
(* The shell and its sidecars (SidecarSupervisor, as MCRunWait composes it).   *)

Outcomes == {"unknown", "clean", "gave_up"}

(* The counters of the supervisor and the boot history are in their bounds.   *)
ShellCounts ==
  /\ Shell!TypeOK
  /\ records \in Seq(Outcomes) /\ (main # "off" => records # <<>>)
  /\ boots \in 0 .. MaxBoots /\ faults \in Nat
  /\ inRow <= boots
  /\ sup \in {"grace", "poll", "backoff", "respawn"} => failures < MaxFailures
  /\ main = "setup" => failures = 0

(* The supervisor runs only in a shell that is up, and has a child.           *)
Supervised ==
  /\ main = "off" => sup = "none"
  /\ main = "setup" => sup = "none" /\ child # Shell!None
  /\ sup # "none" => child # Shell!None

(* Of the sidecars of this start of the shell only its child is alive.        *)
OnlyChild ==
  /\ \A g \in Shell!Sidecar : shellOf[g] <= boots
  /\ main # "off" => \A g \in Shell!Sidecar : Shell!Alive(g) /\ shellOf[g] = boots => g = child
  /\ Shell!OneSidecarPerShell

(* A child that boots while it is polled has had its grace.                   *)
GraceIsOver ==
  sup \in {"poll", "backoff"} /\ ~stopping /\ state[child] = "booting" => child \in patient

ShellInv == ShellCounts /\ Supervised /\ OnlyChild /\ GraceIsOver

LEMMA ShellConstants ==
  /\ MaxSpawns \in Nat /\ MaxBoots \in Nat /\ MaxFaults \in Nat
  /\ MaxFailures \in Nat /\ MaxFailures > 0 /\ BusyTolerance \in Nat /\ BusyTolerance > 0
  /\ DegradedAfter \in Nat /\ DegradedAfter > 0 /\ HistoryLen \in Nat /\ HistoryLen > 0
  BY ShellAssumption

LEMMA SidecarsArePositive == \A g \in Shell!Sidecar : g \in Nat /\ g # 0
  BY ShellAssumption DEF Shell!Sidecar

(* close_boot_record writes the last record over.                            *)
LEMMA CloseKeeps ==
  ASSUME ShellCounts, main # "off", NEW outcome \in Outcomes
  PROVE  Shell!Close(outcome) \in Seq(Outcomes) /\ Len(Shell!Close(outcome)) = Len(records)
         /\ Shell!Close(outcome) # <<>>
<1>1. records \in Seq(Outcomes) /\ records # <<>>
  BY DEF ShellCounts
<1>2. Len(records) \in 1 .. Len(records) /\ Len(records) \in Nat
  BY <1>1, EmptySeq, LenProperties
<1>3. /\ Shell!Close(outcome) \in Seq(Outcomes)
      /\ Len(Shell!Close(outcome)) = Len(records)
  BY <1>1, <1>2, ExceptSeq DEF Shell!Close
<1> QED
  BY <1>1, <1>2, <1>3, EmptySeq

LEMMA HandshakeShell == ASSUME ShellInv, Shell!Handshake PROVE ShellInv'
<1>1. ShellCounts'
  BY ShellConstants DEF Shell!TypeOK, ShellInv, ShellCounts, Shell!Handshake, Shell!loop, Shell!past
<1>2. Supervised'
  BY DEF ShellInv, Supervised, Shell!Handshake
<1>3. OnlyChild'
  BY DEF Shell!Alive, ShellInv, OnlyChild, Shell!OneSidecarPerShell, Shell!Handshake
<1>4. GraceIsOver'
  BY DEF ShellInv, GraceIsOver, Shell!Handshake
<1> QED BY <1>1, <1>2, <1>3, <1>4 DEF ShellInv

LEMMA BootFailsShell == ASSUME ShellInv, Shell!BootFails PROVE ShellInv'
<1>1. ShellCounts'
  <2>1. main # "off" /\ records' = Shell!Close("clean")
    BY DEF Shell!BootFails, Shell!Leaving
  <2>2. records' \in Seq(Outcomes) /\ Len(records') = Len(records) /\ records' # <<>>
    BY <2>1, CloseKeeps DEF ShellInv, Outcomes
  <2>3. {stopping, fatal, degraded, gaveUp, late}' \subseteq BOOLEAN
    BY DEF ShellInv, ShellCounts, Shell!TypeOK, Shell!BootFails, Shell!Leaving, Shell!past
  <2>4. failures' \in 0 .. MaxFailures /\ busy' \in 0 .. BusyTolerance
        /\ (sup' \in {"grace", "poll", "backoff", "respawn"} => failures' < MaxFailures)
        /\ (main' = "setup" => failures' = 0)
    BY DEF ShellInv, ShellCounts, Shell!TypeOK, Shell!BootFails, Shell!loop
  <2>5. /\ main' \in {"off", "setup", "up", "post", "drain", "kill", "exit"}
        /\ {info, pid, leaving, child}' \subseteq Shell!Sidecar \cup {Shell!None}
        /\ sup' \in {"none", "grace", "poll", "backoff", "respawn", "over"}
        /\ window' \in {"none", "open", "past"} /\ healthy' \in {"none", "some", "long"}
    BY DEF ShellInv, ShellCounts, Shell!TypeOK, Shell!BootFails, Shell!Leaving, Shell!loop
  <2>6. state' \in [Shell!Sidecar -> {"unborn", "booting", "serving", "hung", "draining", "dead"}]
    BY DEF ShellInv, ShellCounts, Shell!TypeOK, Shell!BootFails, Shell!Killed
  <2>7. UNCHANGED <<inRow, shellOf, patient, boots>> /\ faults' \in Nat
    BY DEF ShellInv, ShellCounts, Shell!BootFails, Shell!Fault, Shell!past
  <2>8. \A i \in DOMAIN records' : records'[i] \in {"unknown", "clean", "gave_up"}
    BY <2>2, ElementOfSeq, LenProperties DEF Outcomes
  <2> QED BY <2>2, <2>3, <2>4, <2>5, <2>6, <2>7, <2>8 DEF ShellInv, ShellCounts, Shell!TypeOK
<1>2. Supervised'
  BY DEF ShellInv, Supervised, Shell!BootFails, Shell!Leaving
<1>3. OnlyChild'
  BY DEF Shell!Alive, ShellInv, OnlyChild, Shell!OneSidecarPerShell, Shell!BootFails, Shell!Killed
<1>4. GraceIsOver'
  BY DEF ShellInv, GraceIsOver, Shell!BootFails, Shell!Leaving
<1> QED BY <1>1, <1>2, <1>3, <1>4 DEF ShellInv

LEMMA QuitShell == ASSUME ShellInv, Shell!Quit PROVE ShellInv'
<1>1. ShellCounts'
  <2>1. main # "off" /\ records' = Shell!Close("clean")
    BY DEF Shell!Quit, Shell!Leaving
  <2>2. records' \in Seq(Outcomes) /\ Len(records') = Len(records) /\ records' # <<>>
    BY <2>1, CloseKeeps DEF ShellInv, Outcomes
  <2>3. {stopping, fatal, degraded, gaveUp, late}' \subseteq BOOLEAN
    BY DEF ShellInv, ShellCounts, Shell!TypeOK, Shell!Quit, Shell!Leaving, Shell!past
  <2>4. failures' \in 0 .. MaxFailures /\ busy' \in 0 .. BusyTolerance
        /\ (sup' \in {"grace", "poll", "backoff", "respawn"} => failures' < MaxFailures)
        /\ (main' = "setup" => failures' = 0)
    BY DEF ShellInv, ShellCounts, Shell!TypeOK, Shell!Quit, Shell!Leaving, Shell!loop
  <2>5. /\ main' \in {"off", "setup", "up", "post", "drain", "kill", "exit"}
        /\ {info, pid, leaving, child}' \subseteq Shell!Sidecar \cup {Shell!None}
        /\ sup' \in {"none", "grace", "poll", "backoff", "respawn", "over"}
        /\ window' \in {"none", "open", "past"} /\ healthy' \in {"none", "some", "long"}
    BY DEF ShellInv, ShellCounts, Shell!TypeOK, Shell!Quit, Shell!Leaving, Shell!loop
  <2>6. state' \in [Shell!Sidecar -> {"unborn", "booting", "serving", "hung", "draining", "dead"}]
    BY DEF ShellInv, ShellCounts, Shell!TypeOK, Shell!Quit
  <2>7. UNCHANGED <<inRow, shellOf, patient, boots>> /\ faults' \in Nat
    BY DEF ShellInv, ShellCounts, Shell!Quit, Shell!past
  <2>8. \A i \in DOMAIN records' : records'[i] \in {"unknown", "clean", "gave_up"}
    BY <2>2, ElementOfSeq, LenProperties DEF Outcomes
  <2> QED BY <2>2, <2>3, <2>4, <2>5, <2>6, <2>7, <2>8 DEF ShellInv, ShellCounts, Shell!TypeOK
<1>2. Supervised'
  BY DEF ShellInv, Supervised, Shell!Quit, Shell!Leaving
<1>3. OnlyChild'
  BY DEF Shell!Alive, ShellInv, OnlyChild, Shell!OneSidecarPerShell, Shell!Quit
<1>4. GraceIsOver'
  BY DEF ShellInv, GraceIsOver, Shell!Quit, Shell!Leaving
<1> QED BY <1>1, <1>2, <1>3, <1>4 DEF ShellInv

LEMMA PostShell == ASSUME ShellInv, Shell!Post PROVE ShellInv'
<1>1. ShellCounts'
  BY DEF Shell!TypeOK, ShellInv, ShellCounts, Shell!Post, Shell!inner, Shell!loop, Shell!past
<1>2. Supervised'
  BY DEF ShellInv, Supervised, Shell!Post
<1>3. OnlyChild'
  BY DEF Shell!Alive, ShellInv, OnlyChild, Shell!OneSidecarPerShell, Shell!Post, Shell!Answers
<1>4. GraceIsOver'
  BY DEF ShellInv, GraceIsOver, Shell!Post, Shell!inner
<1> QED BY <1>1, <1>2, <1>3, <1>4 DEF ShellInv

LEMMA DrainedShell == ASSUME ShellInv, Shell!Drained PROVE ShellInv'
<1>1. ShellCounts'
  <2>2. records' \in Seq(Outcomes) /\ Len(records') = Len(records) /\ (main' # "off" => records' # <<>>)
    BY DEF ShellInv, ShellCounts, Shell!Drained
  <2>3. {stopping, fatal, degraded, gaveUp, late}' \subseteq BOOLEAN
    BY DEF ShellInv, ShellCounts, Shell!TypeOK, Shell!Drained, Shell!inner, Shell!past
  <2>4. failures' \in 0 .. MaxFailures /\ busy' \in 0 .. BusyTolerance
        /\ (sup' \in {"grace", "poll", "backoff", "respawn"} => failures' < MaxFailures)
        /\ (main' = "setup" => failures' = 0)
    BY DEF ShellInv, ShellCounts, Shell!TypeOK, Shell!Drained, Shell!loop
  <2>5. /\ main' \in {"off", "setup", "up", "post", "drain", "kill", "exit"}
        /\ {info, pid, leaving, child}' \subseteq Shell!Sidecar \cup {Shell!None}
        /\ sup' \in {"none", "grace", "poll", "backoff", "respawn", "over"}
        /\ window' \in {"none", "open", "past"} /\ healthy' \in {"none", "some", "long"}
    BY DEF ShellInv, ShellCounts, Shell!TypeOK, Shell!Drained, Shell!inner, Shell!loop
  <2>6. state' \in [Shell!Sidecar -> {"unborn", "booting", "serving", "hung", "draining", "dead"}]
    BY DEF ShellInv, ShellCounts, Shell!TypeOK, Shell!Drained
  <2>7. UNCHANGED <<inRow, shellOf, patient, boots>> /\ faults' \in Nat
    BY DEF ShellInv, ShellCounts, Shell!Drained, Shell!past
  <2>8. \A i \in DOMAIN records' : records'[i] \in {"unknown", "clean", "gave_up"}
    BY <2>2, ElementOfSeq, LenProperties DEF Outcomes
  <2> QED BY <2>2, <2>3, <2>4, <2>5, <2>6, <2>7, <2>8 DEF ShellInv, ShellCounts, Shell!TypeOK
<1>2. Supervised'
  BY DEF ShellInv, Supervised, Shell!Drained
<1>3. OnlyChild'
  BY DEF Shell!Alive, ShellInv, OnlyChild, Shell!OneSidecarPerShell, Shell!Drained
<1>4. GraceIsOver'
  BY DEF ShellInv, GraceIsOver, Shell!Drained, Shell!inner
<1> QED BY <1>1, <1>2, <1>3, <1>4 DEF ShellInv

LEMMA ForceKillShell == ASSUME ShellInv, Shell!ForceKill PROVE ShellInv'
<1>1. ShellCounts'
  BY DEF Shell!TypeOK, ShellInv, ShellCounts, Shell!ForceKill, Shell!Killed, Shell!inner, Shell!loop, Shell!past
<1>2. Supervised'
  BY DEF ShellInv, Supervised, Shell!ForceKill
<1>3. OnlyChild'
  BY DEF Shell!Alive, ShellInv, OnlyChild, Shell!OneSidecarPerShell, Shell!ForceKill, Shell!Killed
<1>4. GraceIsOver'
  BY DEF Shell!TypeOK, ShellInv, GraceIsOver, Supervised, Shell!ForceKill, Shell!Killed, Shell!inner,
     ShellCounts
<1> QED BY <1>1, <1>2, <1>3, <1>4 DEF ShellInv

LEMMA ExitShell == ASSUME ShellInv, Shell!Exit PROVE ShellInv'
<1>1. ShellCounts'
  BY DEF Shell!TypeOK, ShellInv, ShellCounts, Shell!Exit, Shell!Ends, Shell!inner, Shell!loop, Shell!past
<1>2. Supervised'
  BY DEF ShellInv, Supervised, Shell!Exit, Shell!Ends
<1>3. OnlyChild'
  BY DEF Shell!Alive, ShellInv, OnlyChild, Shell!OneSidecarPerShell, Shell!Exit, Shell!Ends
<1>4. GraceIsOver'
  BY DEF ShellInv, GraceIsOver, Shell!Exit, Shell!Ends
<1> QED BY <1>1, <1>2, <1>3, <1>4 DEF ShellInv

LEMMA HardKillShell == ASSUME ShellInv, Shell!HardKill PROVE ShellInv'
<1>1. ShellCounts'
  BY DEF Shell!TypeOK, ShellInv, ShellCounts, Shell!HardKill, Shell!Ends, Shell!Fault, Shell!inner,
     Shell!loop, Shell!past
<1>2. Supervised'
  BY DEF ShellInv, Supervised, Shell!HardKill, Shell!Ends
<1>3. OnlyChild'
  BY DEF Shell!Alive, ShellInv, OnlyChild, Shell!OneSidecarPerShell, Shell!HardKill, Shell!Ends
<1>4. GraceIsOver'
  BY DEF ShellInv, GraceIsOver, Shell!HardKill, Shell!Ends
<1> QED BY <1>1, <1>2, <1>3, <1>4 DEF ShellInv

LEMMA GraceShell == ASSUME ShellInv, Shell!Grace PROVE ShellInv'
<1>1. ShellCounts'
  BY DEF Shell!TypeOK, ShellInv, ShellCounts, Shell!Grace, Shell!inner, Shell!loop, Shell!past, Supervised
<1>2. Supervised'
  BY DEF ShellInv, Supervised, Shell!Grace
<1>3. OnlyChild'
  BY DEF Shell!Alive, ShellInv, OnlyChild, Shell!OneSidecarPerShell, Shell!Grace
<1>4. GraceIsOver'
  BY DEF Shell!Alive, ShellInv, GraceIsOver, Shell!Grace, Shell!Answers, Shell!inner
<1> QED BY <1>1, <1>2, <1>3, <1>4 DEF ShellInv

LEMMA StopsShell == ASSUME ShellInv, Shell!Stops PROVE ShellInv'
<1>1. ShellCounts'
  BY DEF Shell!TypeOK, ShellInv, ShellCounts, Shell!Stops, Shell!inner, Shell!loop, Shell!past
<1>2. Supervised'
  BY DEF ShellInv, Supervised, Shell!Stops
<1>3. OnlyChild'
  BY DEF Shell!Alive, ShellInv, OnlyChild, Shell!OneSidecarPerShell, Shell!Stops
<1>4. GraceIsOver'
  BY DEF ShellInv, GraceIsOver, Shell!Stops
<1> QED BY <1>1, <1>2, <1>3, <1>4 DEF ShellInv

LEMMA HealthyShell == ASSUME ShellInv, Shell!Healthy PROVE ShellInv'
<1>1. ShellCounts'
  <2>2. records' \in Seq(Outcomes) /\ Len(records') = Len(records) /\ (main' # "off" => records' # <<>>)
    BY DEF ShellInv, ShellCounts, Shell!Healthy
  <2>3. {stopping, fatal, degraded, gaveUp, late}' \subseteq BOOLEAN
    BY DEF ShellInv, ShellCounts, Shell!TypeOK, Shell!Healthy, Shell!inner, Shell!past
  <2>4. failures' \in 0 .. MaxFailures /\ busy' \in 0 .. BusyTolerance
        /\ (sup' \in {"grace", "poll", "backoff", "respawn"} => failures' < MaxFailures)
        /\ (main' = "setup" => failures' = 0)
    BY ShellConstants DEF ShellInv, ShellCounts, Shell!TypeOK, Shell!Healthy
  <2>5. /\ main' \in {"off", "setup", "up", "post", "drain", "kill", "exit"}
        /\ {info, pid, leaving, child}' \subseteq Shell!Sidecar \cup {Shell!None}
        /\ sup' \in {"none", "grace", "poll", "backoff", "respawn", "over"}
        /\ window' \in {"none", "open", "past"} /\ healthy' \in {"none", "some", "long"}
    BY DEF ShellInv, ShellCounts, Shell!TypeOK, Shell!Healthy, Shell!inner
  <2>6. state' \in [Shell!Sidecar -> {"unborn", "booting", "serving", "hung", "draining", "dead"}]
    BY DEF ShellInv, ShellCounts, Shell!TypeOK, Shell!Healthy
  <2>7. UNCHANGED <<inRow, shellOf, patient, boots>> /\ faults' \in Nat
    BY DEF ShellInv, ShellCounts, Shell!Healthy, Shell!past
  <2>8. \A i \in DOMAIN records' : records'[i] \in {"unknown", "clean", "gave_up"}
    BY <2>2, ElementOfSeq, LenProperties DEF Outcomes
  <2> QED BY <2>2, <2>3, <2>4, <2>5, <2>6, <2>7, <2>8 DEF ShellInv, ShellCounts, Shell!TypeOK
<1>2. Supervised'
  BY DEF ShellInv, Supervised, Shell!Healthy
<1>3. OnlyChild'
  BY DEF Shell!Alive, ShellInv, OnlyChild, Shell!OneSidecarPerShell, Shell!Healthy
<1>4. GraceIsOver'
  BY DEF ShellInv, GraceIsOver, Shell!Healthy
<1> QED BY <1>1, <1>2, <1>3, <1>4 DEF ShellInv

LEMMA BusyShell == ASSUME ShellInv, Shell!Busy PROVE ShellInv'
<1>1. ShellCounts'
  <2>2. records' \in Seq(Outcomes) /\ Len(records') = Len(records) /\ (main' # "off" => records' # <<>>)
    BY DEF ShellInv, ShellCounts, Shell!Busy
  <2>3. {stopping, fatal, degraded, gaveUp, late}' \subseteq BOOLEAN
    BY DEF ShellInv, ShellCounts, Shell!TypeOK, Shell!Busy, Shell!inner, Shell!past
  <2>4. failures' \in 0 .. MaxFailures /\ busy' \in 0 .. BusyTolerance
        /\ (sup' \in {"grace", "poll", "backoff", "respawn"} => failures' < MaxFailures)
        /\ (main' = "setup" => failures' = 0)
    BY ShellConstants DEF ShellInv, ShellCounts, Shell!TypeOK, Shell!Busy
  <2>5. /\ main' \in {"off", "setup", "up", "post", "drain", "kill", "exit"}
        /\ {info, pid, leaving, child}' \subseteq Shell!Sidecar \cup {Shell!None}
        /\ sup' \in {"none", "grace", "poll", "backoff", "respawn", "over"}
        /\ window' \in {"none", "open", "past"} /\ healthy' \in {"none", "some", "long"}
    BY DEF ShellInv, ShellCounts, Shell!TypeOK, Shell!Busy, Shell!inner
  <2>6. state' \in [Shell!Sidecar -> {"unborn", "booting", "serving", "hung", "draining", "dead"}]
    BY DEF ShellInv, ShellCounts, Shell!TypeOK, Shell!Busy
  <2>7. UNCHANGED <<inRow, shellOf, patient, boots>> /\ faults' \in Nat
    BY DEF ShellInv, ShellCounts, Shell!Busy, Shell!past
  <2>8. \A i \in DOMAIN records' : records'[i] \in {"unknown", "clean", "gave_up"}
    BY <2>2, ElementOfSeq, LenProperties DEF Outcomes
  <2> QED BY <2>2, <2>3, <2>4, <2>5, <2>6, <2>7, <2>8 DEF ShellInv, ShellCounts, Shell!TypeOK
<1>2. Supervised'
  BY DEF ShellInv, Supervised, Shell!Busy
<1>3. OnlyChild'
  BY DEF Shell!Alive, ShellInv, OnlyChild, Shell!OneSidecarPerShell, Shell!Busy
<1>4. GraceIsOver'
  BY DEF ShellInv, GraceIsOver, Shell!Busy
<1> QED BY <1>1, <1>2, <1>3, <1>4 DEF ShellInv

LEMMA FailsShell == ASSUME ShellInv, Shell!Fails PROVE ShellInv'
<1>1. ShellCounts'
  <2>1. records' = records \/ records' = Shell!Close("gave_up")
    BY DEF Shell!Fails, Shell!past
  <2>2. records' \in Seq(Outcomes) /\ Len(records') = Len(records) /\ records' # <<>>
    <3>1. main # "off"
      BY DEF ShellInv, Supervised, Shell!Fails
    <3> QED BY <2>1, <3>1, CloseKeeps DEF ShellInv, ShellCounts, Outcomes
  <2>3. {stopping, fatal, degraded, gaveUp, late}' \subseteq BOOLEAN
    BY DEF ShellInv, ShellCounts, Shell!TypeOK, Shell!Fails, Shell!inner, Shell!past
  <2>4. failures' \in 0 .. MaxFailures /\ busy' \in 0 .. BusyTolerance
        /\ (sup' \in {"grace", "poll", "backoff", "respawn"} => failures' < MaxFailures)
        /\ (main' = "setup" => failures' = 0)
    BY ShellConstants DEF ShellInv, ShellCounts, Supervised, Shell!TypeOK, Shell!Fails, Shell!Counted,
       Shell!past
  <2>5. /\ main' \in {"off", "setup", "up", "post", "drain", "kill", "exit"}
        /\ {info, pid, leaving, child}' \subseteq Shell!Sidecar \cup {Shell!None}
        /\ sup' \in {"none", "grace", "poll", "backoff", "respawn", "over"}
        /\ window' \in {"none", "open", "past"} /\ healthy' \in {"none", "some", "long"}
    BY DEF ShellInv, ShellCounts, Shell!TypeOK, Shell!Fails, Shell!inner, Shell!past
  <2>6. state' \in [Shell!Sidecar -> {"unborn", "booting", "serving", "hung", "draining", "dead"}]
    BY DEF ShellInv, ShellCounts, Shell!TypeOK, Shell!Fails, Shell!Killed, Shell!past
  <2>7. UNCHANGED <<inRow, shellOf, patient, boots>> /\ faults' \in Nat
    BY DEF ShellInv, ShellCounts, Shell!Fails, Shell!past
  <2>8. \A i \in DOMAIN records' : records'[i] \in {"unknown", "clean", "gave_up"}
    BY <2>2, ElementOfSeq, LenProperties DEF Outcomes
  <2> QED BY <2>2, <2>3, <2>4, <2>5, <2>6, <2>7, <2>8 DEF ShellInv, ShellCounts, Shell!TypeOK
<1>2. Supervised'
  BY DEF ShellInv, Supervised, Shell!Fails, Shell!past
<1>3. OnlyChild'
  BY DEF Shell!Alive, ShellInv, OnlyChild, Shell!OneSidecarPerShell, Shell!Fails, Shell!Killed, Shell!past
<1>4. GraceIsOver'
  BY DEF ShellInv, GraceIsOver, Shell!Fails, Shell!past
<1> QED BY <1>1, <1>2, <1>3, <1>4 DEF ShellInv

LEMMA RespawnedShell == ASSUME ShellInv, Shell!Respawned PROVE ShellInv'
<1>1. ShellCounts'
  BY DEF Shell!TypeOK, ShellInv, ShellCounts, Shell!Respawned, Shell!loop, Shell!past
<1>2. Supervised'
  BY DEF ShellInv, Supervised, Shell!Respawned
<1>3. OnlyChild'
  BY DEF Shell!Alive, ShellInv, OnlyChild, Shell!OneSidecarPerShell, Shell!Respawned
<1>4. GraceIsOver'
  BY DEF ShellInv, GraceIsOver, Shell!Respawned
<1> QED BY <1>1, <1>2, <1>3, <1>4 DEF ShellInv

LEMMA RespawnFailsShell == ASSUME ShellInv, Shell!RespawnFails PROVE ShellInv'
<1>1. ShellCounts'
  <2>2. records' \in Seq(Outcomes) /\ Len(records') = Len(records) /\ (main' # "off" => records' # <<>>)
    BY DEF ShellInv, ShellCounts, Shell!RespawnFails
  <2>3. {stopping, fatal, degraded, gaveUp, late}' \subseteq BOOLEAN
    BY DEF ShellInv, ShellCounts, Shell!TypeOK, Shell!RespawnFails, Shell!inner, Shell!past
  <2>4. failures' \in 0 .. MaxFailures /\ busy' \in 0 .. BusyTolerance
        /\ (sup' \in {"grace", "poll", "backoff", "respawn"} => failures' < MaxFailures)
        /\ (main' = "setup" => failures' = 0)
    BY DEF ShellInv, ShellCounts, Shell!TypeOK, Shell!RespawnFails, Shell!loop
  <2>5. /\ main' \in {"off", "setup", "up", "post", "drain", "kill", "exit"}
        /\ {info, pid, leaving, child}' \subseteq Shell!Sidecar \cup {Shell!None}
        /\ sup' \in {"none", "grace", "poll", "backoff", "respawn", "over"}
        /\ window' \in {"none", "open", "past"} /\ healthy' \in {"none", "some", "long"}
    BY DEF ShellInv, ShellCounts, Shell!TypeOK, Shell!RespawnFails, Shell!inner, Shell!loop
  <2>6. state' \in [Shell!Sidecar -> {"unborn", "booting", "serving", "hung", "draining", "dead"}]
    BY DEF ShellInv, ShellCounts, Shell!TypeOK, Shell!RespawnFails, Shell!Killed
  <2>7. UNCHANGED <<inRow, shellOf, patient, boots>> /\ faults' \in Nat
    BY DEF ShellInv, ShellCounts, Shell!RespawnFails, Shell!Fault, Shell!past
  <2>8. \A i \in DOMAIN records' : records'[i] \in {"unknown", "clean", "gave_up"}
    BY <2>2, ElementOfSeq, LenProperties DEF Outcomes
  <2> QED BY <2>2, <2>3, <2>4, <2>5, <2>6, <2>7, <2>8 DEF ShellInv, ShellCounts, Shell!TypeOK
<1>2. Supervised'
  BY DEF ShellInv, Supervised, Shell!RespawnFails
<1>3. OnlyChild'
  BY DEF Shell!Alive, ShellInv, OnlyChild, Shell!OneSidecarPerShell, Shell!RespawnFails, Shell!Killed
<1>4. GraceIsOver'
  BY DEF ShellInv, GraceIsOver, Shell!RespawnFails
<1> QED BY <1>1, <1>2, <1>3, <1>4 DEF ShellInv

LEMMA WindowPassesShell == ASSUME ShellInv, Shell!WindowPasses PROVE ShellInv'
<1>1. ShellCounts'
  BY DEF Shell!TypeOK, ShellInv, ShellCounts, Shell!WindowPasses, Shell!inner, Shell!past
<1>2. Supervised'
  BY DEF ShellInv, Supervised, Shell!WindowPasses
<1>3. OnlyChild'
  BY DEF Shell!Alive, ShellInv, OnlyChild, Shell!OneSidecarPerShell, Shell!WindowPasses
<1>4. GraceIsOver'
  BY DEF ShellInv, GraceIsOver, Shell!WindowPasses, Shell!inner
<1> QED BY <1>1, <1>2, <1>3, <1>4 DEF ShellInv

LEMMA HealthyLongShell == ASSUME ShellInv, Shell!HealthyLong PROVE ShellInv'
<1>1. ShellCounts'
  BY DEF Shell!TypeOK, ShellInv, ShellCounts, Shell!HealthyLong, Shell!inner, Shell!past
<1>2. Supervised'
  BY DEF ShellInv, Supervised, Shell!HealthyLong
<1>3. OnlyChild'
  BY DEF Shell!Alive, ShellInv, OnlyChild, Shell!OneSidecarPerShell, Shell!HealthyLong
<1>4. GraceIsOver'
  BY DEF ShellInv, GraceIsOver, Shell!HealthyLong, Shell!inner
<1> QED BY <1>1, <1>2, <1>3, <1>4 DEF ShellInv

LEMMA SidecarShell ==
  ASSUME ShellInv, NEW g \in Shell!Sidecar, NEW s \in {"serving", "hung", "draining", "dead"},
         Shell!Alive(g), Shell!Becomes(g, s), faults' \in Nat
  PROVE  ShellInv'
<1>1. /\ state' = [state EXCEPT ![g] = s]
      /\ UNCHANGED <<main, stopping, info, pid, leaving, sup, child, failures, window, healthy, busy,
                     shellOf, patient, records, degraded, gaveUp, inRow, late, fatal, boots>>
  BY DEF Shell!Becomes, Shell!inner, Shell!loop, Shell!past
<1>2. state' \in [Shell!Sidecar -> {"unborn", "booting", "serving", "hung", "draining", "dead"}]
  BY <1>1 DEF ShellInv, ShellCounts, Shell!TypeOK
<1>3. ShellCounts'
  BY <1>1, <1>2 DEF ShellInv, ShellCounts, Shell!TypeOK
<1>4. Supervised'
  BY <1>1 DEF ShellInv, Supervised
<1>5. \A h \in Shell!Sidecar : Shell!Alive(h)' => Shell!Alive(h)
  BY <1>1, <1>2 DEF ShellInv, ShellCounts, Shell!TypeOK, Shell!Alive
<1>6. OnlyChild'
  BY <1>1, <1>5 DEF ShellInv, OnlyChild, Shell!OneSidecarPerShell
<1>7. GraceIsOver'
  BY <1>1 DEF ShellInv, ShellCounts, GraceIsOver, Shell!TypeOK
<1> QED
  BY <1>3, <1>4, <1>6, <1>7 DEF ShellInv

(* A new sidecar takes the place of the old one.                             *)
LEMMA SpawnedShell ==
  ASSUME ShellInv, NEW g \in Shell!Next1, NEW old \in Shell!Sidecar \cup {Shell!None}, NEW boot \in 0 .. MaxBoots,
         Shell!Spawned(g, old, boot)
  PROVE  /\ g \in Shell!Sidecar /\ state[g] = "unborn"
         /\ state' \in [Shell!Sidecar -> {"unborn", "booting", "serving", "hung", "draining", "dead"}]
         /\ shellOf' \in [Shell!Sidecar -> 0 .. MaxBoots]
         /\ state'[g] = "booting" /\ shellOf'[g] = boot
         /\ \A h \in Shell!Sidecar \ {g} :
              shellOf'[h] = shellOf[h] /\ (state'[h] = state[h] \/ (h = old /\ state'[h] = "dead"))
              /\ (h = old => state'[h] = "dead")
  BY DEF Shell!Next1, Shell!Spawned, ShellInv, ShellCounts, Shell!TypeOK

LEMMA BootShell == ASSUME ShellInv, Shell!Boot PROVE ShellInv'
<1>1. PICK g \in Shell!Next1 : Shell!Spawned(g, Shell!None, boots + 1) /\ child' = g
  BY DEF Shell!Boot
<1>2. boots + 1 \in 0 .. MaxBoots /\ boots' = boots + 1 /\ boots \in Nat
  BY ShellConstants DEF Shell!Boot, ShellInv, ShellCounts
<1>3. /\ g \in Shell!Sidecar /\ state[g] = "unborn"
      /\ state' \in [Shell!Sidecar -> {"unborn", "booting", "serving", "hung", "draining", "dead"}]
      /\ shellOf' \in [Shell!Sidecar -> 0 .. MaxBoots]
      /\ state'[g] = "booting" /\ shellOf'[g] = boots + 1
      /\ \A h \in Shell!Sidecar \ {g} : shellOf'[h] = shellOf[h] /\ state'[h] = state[h]
  <2>1. Shell!None \notin Shell!Sidecar
    BY SidecarsArePositive DEF Shell!None
  <2> QED BY <1>1, <1>2, <2>1, SpawnedShell
<1>4. /\ records' \in Seq(Outcomes) /\ records' # <<>> /\ Len(records') <= HistoryLen
      /\ \A i \in DOMAIN records' : records'[i] \in Outcomes
  <2> DEFINE r == Append(records, "unknown")
  <2>1. /\ r \in Seq(Outcomes) /\ Len(r) = Len(records) + 1 /\ Len(records) \in Nat /\ r # <<>>
        /\ Len(records) <= HistoryLen
    <3>1. records \in Seq(Outcomes) /\ Len(records) <= HistoryLen
      BY DEF ShellInv, ShellCounts, Shell!TypeOK
    <3>2. "unknown" \in Outcomes
      BY DEF Outcomes
    <3>3. r \in Seq(Outcomes) /\ Len(r) = Len(records) + 1 /\ r # <<>>
      BY <3>1, <3>2, AppendProperties
    <3>4. Len(records) \in Nat
      BY <3>1, LenProperties
    <3> QED BY <3>1, <3>3, <3>4
  <2>2. records' = IF Len(r) > HistoryLen THEN Tail(r) ELSE r
    BY DEF Shell!Boot, Shell!Trimmed
  <2> HIDE DEF r
  <2>3. Tail(r) \in Seq(Outcomes) /\ Len(Tail(r)) = Len(r) - 1
    BY <2>1, HeadTailProperties
  <2>4. records' \in Seq(Outcomes) /\ Len(records') <= HistoryLen /\ Len(records') > 0
    BY <2>1, <2>2, <2>3, ShellConstants
  <2> QED BY <2>4, EmptySeq, ElementOfSeq, LenProperties
<1>5. ShellCounts'
  <2>1. {stopping, fatal, degraded, gaveUp, late}' \subseteq BOOLEAN
    <3>1. degraded' \in BOOLEAN
      BY DEF Shell!Boot, Shell!Degraded
    <3> QED BY <3>1 DEF Shell!Boot
  <2>2. inRow' \in 0 .. MaxBoots /\ inRow' <= boots'
    BY <1>2, ShellConstants DEF Shell!Boot, ShellInv, ShellCounts, Shell!TypeOK
  <2>3. {info, pid, leaving, child}' \subseteq Shell!Sidecar \cup {Shell!None}
    BY <1>1, <1>3 DEF Shell!Boot
  <2>4. /\ main' = "setup" /\ failures' = 0 /\ window' = "none" /\ healthy' = "none" /\ busy' = 0
        /\ UNCHANGED <<sup, patient, faults>>
    BY DEF Shell!Boot
  <2>5. main = "off" /\ sup' = "none"
    BY DEF Shell!Boot, ShellInv, Supervised
  <2>6. patient' \subseteq Shell!Sidecar /\ faults' \in Nat
    BY <2>4 DEF ShellInv, ShellCounts, Shell!TypeOK
  <2>7. failures' \in 0 .. MaxFailures /\ busy' \in 0 .. BusyTolerance /\ failures' < MaxFailures
        /\ boots' \in 0 .. MaxBoots
    BY <1>2, <2>4, ShellConstants
  <2>8. Shell!TypeOK'
    BY <1>3, <1>4, <2>1, <2>2, <2>3, <2>4, <2>5, <2>6, <2>7 DEF Shell!TypeOK, Outcomes
  <2> QED BY <1>4, <2>2, <2>4, <2>6, <2>7, <2>8 DEF ShellCounts
<1>6. Supervised'
  BY <1>1, <1>3, SidecarsArePositive DEF Shell!Boot, ShellInv, Supervised, Shell!None
<1>7. OnlyChild'
  <2>1. \A h \in Shell!Sidecar : shellOf[h] <= boots /\ shellOf[h] \in Nat
    BY <1>2 DEF ShellInv, ShellCounts, OnlyChild, Shell!TypeOK
  <2>2. \A h \in Shell!Sidecar \ {g} : shellOf'[h] # boots + 1 /\ (Shell!Alive(h)' <=> Shell!Alive(h))
    BY <1>2, <1>3, <2>1 DEF Shell!Alive
  <2>3. \A h \in Shell!Sidecar : shellOf'[h] <= boots'
    BY <1>2, <1>3, <2>1
  <2>4. Shell!OneSidecarPerShell'
    BY <1>3, <2>2 DEF ShellInv, OnlyChild, Shell!OneSidecarPerShell
  <2> QED BY <1>1, <1>2, <1>3, <2>2, <2>3, <2>4 DEF OnlyChild
<1>8. GraceIsOver'
  BY DEF Shell!Boot, ShellInv, Supervised, GraceIsOver
<1> QED
  BY <1>5, <1>6, <1>7, <1>8 DEF ShellInv

LEMMA RestartShell == ASSUME ShellInv, Shell!Restart PROVE ShellInv'
<1>1. PICK g \in Shell!Next1 : Shell!Spawned(g, child, boots) /\ child' = g
  BY DEF Shell!Restart
<1>2. /\ sup = "backoff" /\ sup' = "respawn" /\ main # "off" /\ child \in Shell!Sidecar /\ boots \in 0 .. MaxBoots
      /\ UNCHANGED <<main, stopping, info, pid, leaving, failures, window, healthy, busy, patient, records,
                     degraded, gaveUp, inRow, late, fatal, boots, faults>>
  BY DEF Shell!Restart, ShellInv, ShellCounts, Supervised, Shell!TypeOK, Shell!inner, Shell!loop, Shell!past
<1>3. /\ g \in Shell!Sidecar /\ state[g] = "unborn"
      /\ state' \in [Shell!Sidecar -> {"unborn", "booting", "serving", "hung", "draining", "dead"}]
      /\ shellOf' \in [Shell!Sidecar -> 0 .. MaxBoots]
      /\ state'[g] = "booting" /\ shellOf'[g] = boots
      /\ \A h \in Shell!Sidecar \ {g} :
           shellOf'[h] = shellOf[h] /\ (state'[h] = state[h] \/ state'[h] = "dead")
           /\ (h = child => state'[h] = "dead")
  BY <1>1, <1>2, SpawnedShell
<1>4. ShellCounts'
  BY <1>1, <1>2, <1>3 DEF ShellInv, ShellCounts, Shell!TypeOK
<1>5. Supervised'
  BY <1>1, <1>2, <1>3, SidecarsArePositive DEF ShellInv, Supervised, Shell!None
<1>6. OnlyChild'
  <2>1. \A h \in Shell!Sidecar \ {g} : Shell!Alive(h)' => Shell!Alive(h) /\ shellOf'[h] # boots
    BY <1>2, <1>3 DEF ShellInv, OnlyChild, Shell!Alive
  <2>2. \A h \in Shell!Sidecar : shellOf'[h] <= boots'
    BY <1>2, <1>3 DEF ShellInv, ShellCounts, OnlyChild
  <2>3. Shell!OneSidecarPerShell'
    BY <1>3, <2>1 DEF ShellInv, OnlyChild, Shell!OneSidecarPerShell
  <2> QED BY <1>1, <1>2, <2>1, <2>2, <2>3 DEF OnlyChild
<1>7. GraceIsOver'
  BY <1>2 DEF GraceIsOver
<1> QED
  BY <1>4, <1>5, <1>6, <1>7 DEF ShellInv

LEMMA ShellInit == Shell!Init => ShellInv
<1> SUFFICES ASSUME Shell!Init PROVE ShellInv
  OBVIOUS
<1>1. /\ main = "off" /\ stopping = FALSE /\ info = Shell!None /\ pid = Shell!None /\ leaving = Shell!None
      /\ sup = "none" /\ child = Shell!None
      /\ failures = 0 /\ window = "none" /\ healthy = "none" /\ busy = 0
      /\ state = [g \in Shell!Sidecar |-> "unborn"] /\ shellOf = [g \in Shell!Sidecar |-> 0]
      /\ patient = {} /\ records = <<>> /\ degraded = FALSE /\ gaveUp = FALSE /\ inRow = 0
      /\ late = FALSE /\ fatal = FALSE /\ boots = 0 /\ faults = 0
  BY DEF Shell!Init
<1>2. /\ records \in Seq(Outcomes) /\ Len(records) <= HistoryLen
      /\ \A i \in DOMAIN records : records[i] \in {"unknown", "clean", "gave_up"}
  BY <1>1, ShellConstants
<1>3. {stopping, fatal, degraded, gaveUp, late} \subseteq BOOLEAN
  BY <1>1
<1>4. /\ inRow \in 0 .. MaxBoots /\ boots \in 0 .. MaxBoots /\ failures \in 0 .. MaxFailures
      /\ busy \in 0 .. BusyTolerance /\ faults \in Nat /\ inRow <= boots
  BY <1>1, ShellConstants
<1>5. /\ shellOf \in [Shell!Sidecar -> 0 .. MaxBoots]
      /\ state \in [Shell!Sidecar -> {"unborn", "booting", "serving", "hung", "draining", "dead"}]
  BY <1>1, ShellConstants
<1>6. Shell!TypeOK
  BY <1>1, <1>2, <1>3, <1>4, <1>5 DEF Shell!TypeOK
<1>7. ShellCounts
  BY <1>1, <1>2, <1>4, <1>6 DEF ShellCounts
<1>8. Supervised /\ GraceIsOver
  BY <1>1 DEF Supervised, GraceIsOver
<1>9. OnlyChild
  BY <1>1 DEF OnlyChild, Shell!OneSidecarPerShell, Shell!Alive
<1> QED
  BY <1>7, <1>8, <1>9 DEF ShellInv

LEMMA ShellStep == ShellInv /\ [Shell!Next]_(Shell!vars) => ShellInv'
<1> SUFFICES ASSUME ShellInv, [Shell!Next]_(Shell!vars) PROVE ShellInv'
  OBVIOUS
<1>1. CASE UNCHANGED Shell!vars
  <2>1. UNCHANGED <<main, stopping, info, pid, leaving, sup, child, failures, window, healthy, busy,
                    state, shellOf, patient, records, degraded, gaveUp, inRow, late, fatal, boots, faults>>
    BY <1>1 DEF Shell!vars
  <2>2. ShellCounts'
    BY <2>1 DEF ShellInv, ShellCounts, Shell!TypeOK
  <2>3. Supervised' /\ OnlyChild' /\ GraceIsOver'
    BY <2>1 DEF ShellInv, Supervised, OnlyChild, GraceIsOver, Shell!OneSidecarPerShell, Shell!Alive
  <2> QED BY <2>2, <2>3 DEF ShellInv
<1>2. ASSUME NEW g \in Shell!Sidecar,
             Shell!Serves(g) \/ Shell!Crashes(g) \/ Shell!Hangs(g) \/ Shell!Recovers(g) \/ Shell!Finishes(g)
             \/ Shell!Watchdog(g)
      PROVE  ShellInv'
  <2>1. PICK s \in {"serving", "hung", "draining", "dead"} : Shell!Becomes(g, s)
    BY <1>2 DEF Shell!Serves, Shell!Crashes, Shell!Hangs, Shell!Recovers, Shell!Finishes, Shell!Watchdog
  <2>2. Shell!Alive(g)
    BY <1>2 DEF Shell!Serves, Shell!Crashes, Shell!Hangs, Shell!Recovers, Shell!Finishes, Shell!Watchdog,
                Shell!Alive
  <2>3. faults' \in Nat
    BY <1>2 DEF Shell!Serves, Shell!Crashes, Shell!Hangs, Shell!Recovers, Shell!Finishes, Shell!Watchdog,
                Shell!Fault, ShellInv, ShellCounts
  <2> QED BY <2>1, <2>2, <2>3, SidecarShell
<1> QED
  BY <1>1, <1>2, BootShell, HandshakeShell, BootFailsShell, QuitShell, PostShell, DrainedShell, ForceKillShell,
     ExitShell, HardKillShell, GraceShell, StopsShell, HealthyShell, BusyShell, FailsShell, RestartShell,
     RespawnedShell, RespawnFailsShell, WindowPassesShell, HealthyLongShell
     DEF Shell!Next

(* What kills a sidecar that boots: a fault, the end of a quit, or a supervisor *)
(* whose grace for it is over.                                               *)
LEMMA BootingSpared ==
  ASSUME ShellInv, [Shell!Next]_(Shell!vars), NEW g \in Shell!Sidecar, state[g] = "booting", state'[g] = "dead"
  PROVE  g \in patient \/ faults' # faults \/ main = "kill"
<1> SUFFICES ASSUME g \notin patient, faults' = faults, main # "kill" PROVE FALSE
  OBVIOUS
<1>1. /\ state \in [Shell!Sidecar -> {"unborn", "booting", "serving", "hung", "draining", "dead"}]
      /\ faults \in Nat /\ Shell!None \notin Shell!Sidecar
  BY SidecarsArePositive DEF ShellInv, ShellCounts, Shell!TypeOK, Shell!None
<1>2. Shell!Alive(g)
  BY DEF Shell!Alive
<1>3. main # "off" /\ shellOf[g] = boots => g = child
  BY <1>2 DEF ShellInv, OnlyChild
<1>4. state' # state
  BY <1>1
<1>5. CASE Shell!Boot
  <2>1. PICK h \in Shell!Next1 : Shell!Spawned(h, Shell!None, boots + 1)
    BY <1>5 DEF Shell!Boot
  <2> QED BY <1>1, <2>1 DEF Shell!Spawned, Shell!Next1
<1>6. CASE Shell!BootFails
  <2>1. g = child
    BY <1>1, <1>6 DEF Shell!BootFails, Shell!Killed
  <2> QED BY <1>1, <1>2, <1>6, <2>1 DEF Shell!BootFails, Shell!Fault
<1>7. CASE Shell!Post
  BY <1>1, <1>7 DEF Shell!Post, Shell!Answers
<1>8. CASE Shell!Fails
  <2>1. g = child /\ sup = "poll" /\ ~stopping
    BY <1>1, <1>8 DEF Shell!Fails, Shell!Killed
  <2> QED BY <2>1 DEF ShellInv, GraceIsOver
<1>9. CASE Shell!Restart
  <2>1. PICK h \in Shell!Next1 : Shell!Spawned(h, child, boots)
    BY <1>9 DEF Shell!Restart
  <2>2. g = child /\ sup = "backoff" /\ ~stopping
    BY <1>1, <1>9, <2>1 DEF Shell!Restart, Shell!Spawned, Shell!Next1
  <2> QED BY <2>2 DEF ShellInv, GraceIsOver
<1>10. CASE Shell!RespawnFails
  <2>1. g = child
    BY <1>1, <1>10 DEF Shell!RespawnFails, Shell!Killed
  <2> QED BY <1>1, <1>2, <1>10, <2>1 DEF Shell!RespawnFails, Shell!Fault
<1>11. ASSUME NEW h \in Shell!Sidecar,
              Shell!Serves(h) \/ Shell!Crashes(h) \/ Shell!Hangs(h) \/ Shell!Recovers(h) \/ Shell!Finishes(h)
              \/ Shell!Watchdog(h)
       PROVE  FALSE
  BY <1>1, <1>11 DEF Shell!Serves, Shell!Crashes, Shell!Hangs, Shell!Recovers, Shell!Finishes, Shell!Watchdog,
                     Shell!Becomes, Shell!Fault
<1>12. UNCHANGED state
       \/ Shell!Boot \/ Shell!BootFails \/ Shell!Post \/ Shell!ForceKill \/ Shell!Fails \/ Shell!Restart
       \/ Shell!RespawnFails
       \/ \E h \in Shell!Sidecar : Shell!Serves(h) \/ Shell!Crashes(h) \/ Shell!Hangs(h) \/ Shell!Recovers(h)
                                  \/ Shell!Finishes(h) \/ Shell!Watchdog(h)
  BY DEF Shell!Next, Shell!vars, Shell!Handshake, Shell!Quit, Shell!Drained, Shell!Exit, Shell!HardKill,
     Shell!Ends,
         Shell!Grace, Shell!Stops, Shell!Healthy, Shell!Busy, Shell!Respawned, Shell!WindowPasses,
         Shell!HealthyLong
<1> QED
  BY <1>4, <1>5, <1>6, <1>7, <1>8, <1>9, <1>10, <1>11, <1>12 DEF Shell!ForceKill

(* One run of the shell has at most one sidecar alive, and none is killed for  *)
(* its long boot before its startup grace is over, for any number of starts,   *)
(* sidecars and faults (supervise, STARTUP_GRACE).                           *)
THEOREM SupervisorKeepsOne == Shell!Spec => ShellKeepsOne
<1>1. Shell!Init => ShellInv
  BY ShellInit
<1>2. ShellInv /\ [Shell!Next]_(Shell!vars) => ShellInv'
  BY ShellStep
<1>3. ShellInv => Shell!TypeOK /\ Shell!OneSidecarPerShell
  BY DEF ShellInv, ShellCounts, OnlyChild
<1>4. ShellInv /\ [Shell!Next]_(Shell!vars)
      => [\A g \in Shell!Sidecar : state[g] = "booting" /\ state'[g] = "dead" =>
            g \in patient \/ faults' # faults \/ main = "kill"]_(Shell!vars)
  BY BootingSpared
<1> QED
  BY <1>1, <1>2, <1>3, <1>4, PTL DEF Shell!Spec, ShellKeepsOne, Shell!BootingIsSpared
=============================================================================
