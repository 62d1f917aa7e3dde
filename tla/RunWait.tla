------------------------------- MODULE RunWait -------------------------------
(* A run the page starts and waits for (usePromptTest, useTriageScore): the   *)
(* request, the polls and the cancel at the limit (waitForOperation,          *)
(* api/queries.ts), each over the transport that follows a restarted sidecar  *)
(* (Transport.req, api/real/transport.ts).                                    *)
(*                                                                            *)
(* Every start of the sidecar has its own port and token, named by its        *)
(* number.  The two are read by two commands, so a handshake is a pair.  The  *)
(* page's other requests share its cache but start no runs; they are left out. *)
EXTENDS Integers, Sequences

CONSTANTS
  MaxDeaths,  \* bound: deaths of the sidecar
  MaxBreaks   \* bound: connections that break although it lives

ASSUME WaitAssumption == {MaxDeaths, MaxBreaks} \subseteq Nat

VARIABLES
  sidecar,   \* number of the last start, and whether it is up
  shell,     \* the start whose port and token the shell hands out
  breaks,
  rows,      \* the operations the request has created
  infoP,     \* the cached handshake
  call,      \* the request under way
  stage,     \* where the mutation stands
  since,     \* runningSince: unset, set, or RUN_LIMIT_MS ago
  result,    \* what the mutation ended with
  cut        \* history: a request of this wait failed

world == <<sidecar, shell, breaks, rows>>
page  == <<stage, since, result, cut>>
vars  == <<sidecar, shell, breaks, rows, infoP, call, stage, since, result, cut>>

NoInfo == [port |-> 0, token |-> 0]
NoCall == [what |-> "none", at |-> "none", first |-> NoInfo, info |-> NoInfo, answer |-> "none"]
Terminal == {"succeeded", "failed", "cancelled"}
Watched == rows[Len(rows)]

Init ==
  /\ sidecar = [id |-> 1, up |-> TRUE]
  /\ shell = 1
  /\ breaks = 0
  /\ rows = <<>>
  /\ infoP = NoInfo
  /\ call = NoCall
  /\ stage = "idle" /\ since = "unset" /\ result = "none" /\ cut = FALSE

-----------------------------------------------------------------------------
(* The sidecar and its rows                                                 *)

Die ==
  /\ sidecar.up
  /\ sidecar.id <= MaxDeaths
  /\ sidecar' = [sidecar EXCEPT !.up = FALSE]
  /\ UNCHANGED <<shell, breaks, rows, infoP, call, page>>

(* The supervisor starts it again; the boot fails what was running.         *)
Respawn ==
  /\ ~sidecar.up
  /\ sidecar' = [id |-> sidecar.id + 1, up |-> TRUE]
  /\ rows' = [i \in DOMAIN rows |->
                IF rows[i].state = "running" THEN [rows[i] EXCEPT !.state = "failed"] ELSE rows[i]]
  /\ UNCHANGED <<shell, breaks, infoP, call, page>>

(* The new handshake is published once it has been read off its stdout.     *)
Publish ==
  /\ sidecar.up /\ shell # sidecar.id
  /\ shell' = sidecar.id
  /\ UNCHANGED <<sidecar, breaks, rows, infoP, call, page>>

Step(i, state) ==
  /\ sidecar.up
  /\ rows' = [rows EXCEPT ![i].state = state]
  /\ UNCHANGED <<sidecar, shell, breaks, infoP, call, page>>

Start(i) == rows[i].state = "queued" /\ Step(i, "running")

(* A model call may hang for ever: nothing makes this happen.               *)
Finish(i) == rows[i].state = "running" /\ \E s \in {"succeeded", "failed"} : Step(i, s)

(* The run polls its Stop.                                                  *)
StopSeen(i) == rows[i].state = "running" /\ rows[i].stop /\ Step(i, "cancelled")

Cancelled(row) ==
  IF row.state = "queued" THEN [row EXCEPT !.state = "cancelled", !.stop = TRUE]
  ELSE [row EXCEPT !.stop = TRUE]

(* The user's Stop, while the page shows the run.                           *)
UserStops ==
  /\ sidecar.up
  /\ stage \in {"waiting", "reading"} /\ Watched.state \notin Terminal /\ ~Watched.stop
  /\ rows' = [rows EXCEPT ![Len(rows)] = Cancelled(@)]
  /\ UNCHANGED <<sidecar, shell, breaks, infoP, call, page>>

-----------------------------------------------------------------------------
(* Transport.req                                                            *)

Request(what) == call' = [NoCall EXCEPT !.what = what, !.at = "ask"]

(* info(): the cached pair, or a fresh one.                                 *)
UseCached ==
  /\ call.at = "ask" /\ infoP # NoInfo
  /\ call' = [call EXCEPT !.at = "sent", !.info = infoP]
  /\ UNCHANGED <<world, infoP, page>>

(* The two commands of the handshake go out together and are answered in    *)
(* either order; a respawn may be published in between.                     *)
AskFirst ==
  /\ call.at = "ask" /\ infoP = NoInfo
  /\ \E pair \in {[NoInfo EXCEPT !.port = shell], [NoInfo EXCEPT !.token = shell]} :
       call' = [call EXCEPT !.at = "half", !.info = pair]
  /\ UNCHANGED <<world, infoP, page>>

Completed ==
  [port  |-> IF call.info.port = 0 THEN shell ELSE call.info.port,
   token |-> IF call.info.token = 0 THEN shell ELSE call.info.token]

Throw == call' = [call EXCEPT !.at = "done", !.answer = "error"] /\ cut' = TRUE

(* Mutant: the retry does not ask whether the sidecar is a new one.         *)
AskSecondRetryAnyway ==
  /\ call.at = "half"
  /\ infoP' = Completed
  /\ call' = [call EXCEPT !.at = "sent", !.info = infoP']
  /\ UNCHANGED <<world, page>>

(* The retry is sent only to another sidecar than the first attempt.        *)
AskSecond ==
  /\ call.at = "half"
  /\ infoP' = Completed
  /\ IF infoP' = call.first THEN Throw
     ELSE call' = [call EXCEPT !.at = "sent", !.info = infoP'] /\ UNCHANGED cut
  /\ UNCHANGED <<world, stage, since, result>>

Reachable == sidecar.up /\ call.info.port = sidecar.id

Answered(answer) == call' = [call EXCEPT !.at = "answered", !.answer = answer]

(* A handshake torn by a restart reaches the port with the other token.     *)
Refuse ==
  /\ call.at = "sent" /\ Reachable /\ call.info.token # sidecar.id
  /\ Answered("error")
  /\ UNCHANGED <<world, infoP, page>>

Serve ==
  /\ call.at = "sent" /\ Reachable /\ call.info.token = sidecar.id
  /\ CASE call.what = "submit" ->
            /\ rows' = Append(rows, [state |-> "queued", stop |-> FALSE, by |-> sidecar.id])
            /\ Answered("created")
       [] call.what = "read" -> Answered(Watched.state) /\ UNCHANGED rows
       [] OTHER ->
            IF Watched.state \in Terminal
            THEN Answered("error") /\ UNCHANGED rows
            ELSE rows' = [rows EXCEPT ![Len(rows)] = Cancelled(@)] /\ Answered("accepted")
  /\ UNCHANGED <<sidecar, shell, breaks, infoP, page>>

(* The connection fails: nobody listens, or it breaks before the answer.    *)
(* The first time the handshake is dropped and asked for again.             *)
Fails ==
  /\ call.at \in {"sent", "answered"}
  /\ IF Reachable THEN breaks < MaxBreaks /\ breaks' = breaks + 1 ELSE UNCHANGED breaks
  /\ IF call.first = NoInfo
     THEN /\ call' = [call EXCEPT !.at = "ask", !.first = call.info, !.answer = "none"]
          /\ infoP' = NoInfo
          /\ UNCHANGED cut
     ELSE Throw /\ UNCHANGED infoP
  /\ UNCHANGED <<sidecar, shell, rows, stage, since, result>>

Deliver ==
  /\ call.at = "answered"
  /\ call' = [call EXCEPT !.at = "done"]
  /\ cut' = (cut \/ call.answer = "error")
  /\ UNCHANGED <<world, infoP, stage, since, result>>

-----------------------------------------------------------------------------
(* The mutation                                                             *)

Idle == call.at = "none"
Answer == IF call.at = "done" THEN call.answer ELSE "none"
End(how) == stage' = "done" /\ result' = how /\ call' = NoCall

Submit ==
  /\ stage = "idle"
  /\ stage' = "submitting"
  /\ Request("submit")
  /\ UNCHANGED <<world, infoP, since, result, cut>>

Submitted ==
  /\ stage = "submitting" /\ Answer # "none"
  /\ IF Answer = "error" THEN End("error")
     ELSE stage' = "waiting" /\ call' = NoCall /\ UNCHANGED result
  /\ UNCHANGED <<world, infoP, since, cut>>

LimitPasses ==
  /\ stage \in {"waiting", "reading"} /\ since = "set"
  /\ since' = "over"
  /\ UNCHANGED <<world, infoP, call, stage, result, cut>>

(* Mutant: at the limit the run is left to itself.                          *)
PollAbandons ==
  /\ stage = "waiting"
  /\ IF since = "over" THEN End("timeout")
     ELSE stage' = "reading" /\ Request("read") /\ UNCHANGED result
  /\ UNCHANGED <<world, infoP, since, cut>>

(* Half a second later: the limit is looked at, then the operation.         *)
Poll ==
  /\ stage = "waiting"
  /\ IF since = "over" THEN stage' = "cancelling" /\ Request("cancel")
     ELSE stage' = "reading" /\ Request("read")
  /\ UNCHANGED <<world, infoP, since, result, cut>>

Read ==
  /\ stage = "reading" /\ Answer # "none"
  /\ IF Answer = "error" THEN End("error")
     ELSE IF Answer = "cancelled" THEN End("stopped")
     ELSE IF Answer \in {"succeeded", "failed"} THEN End(Answer)
     ELSE stage' = "waiting" /\ call' = NoCall /\ UNCHANGED result
  /\ since' = IF Answer = "running" /\ since = "unset" THEN "set" ELSE since
  /\ UNCHANGED <<world, infoP, cut>>

(* The answer to the cancel is not looked at.                               *)
TimedOut ==
  /\ stage = "cancelling" /\ Answer # "none"
  /\ End("timeout")
  /\ UNCHANGED <<world, infoP, since, cut>>

-----------------------------------------------------------------------------
Transport == UseCached \/ AskFirst \/ AskSecond \/ Refuse \/ Serve \/ Fails \/ Deliver
Mutation == Submitted \/ Poll \/ Read \/ TimedOut

Next ==
  \/ Die \/ Respawn \/ Publish \/ UserStops
  \/ \E i \in DOMAIN rows : Start(i) \/ Finish(i) \/ StopSeen(i)
  \/ Transport \/ Submit \/ LimitPasses \/ Mutation

Spec == Init /\ [][Next]_vars

(* The supervisor restarts, the lanes serve their queue and polled Stops,   *)
(* the page's timers fire and its requests end.                             *)
Fairness ==
  /\ WF_vars(Respawn) /\ WF_vars(Publish)
  /\ \A i \in 1 .. MaxDeaths + 1 :
       /\ WF_vars(i \in DOMAIN rows /\ Start(i))
       /\ WF_vars(i \in DOMAIN rows /\ StopSeen(i))
  /\ WF_vars(Transport) /\ WF_vars(Mutation) /\ WF_vars(LimitPasses)

FairSpec == Spec /\ Fairness

-----------------------------------------------------------------------------
(* One request never leaves two runs with the same sidecar: a broken         *)
(* connection is retried only against a new one.  (The run the dead one had  *)
(* queued is still in the database, so two runs there can be.)               *)
OncePerSidecar == \A i, j \in DOMAIN rows : rows[i].by = rows[j].by => i = j

(* The run that was waited for has ended or has been told to stop when the    *)
(* wait is over: at the limit it is cancelled, not abandoned.  Only a request *)
(* of this wait that failed leaves it behind, spending.  (Of an earlier run,  *)
(* left in the queue of a sidecar that died, the page never hears.)           *)
NobodySpendsUnwatched ==
  stage = "done" /\ rows # <<>> => Watched.state \in Terminal \/ Watched.stop \/ cut

(* Whatever hangs, breaks or restarts, the wait ends: the run ends, the limit *)
(* passes, or an error is thrown.                                            *)
WaitEnds == stage = "submitting" ~> stage = "done"
=============================================================================
