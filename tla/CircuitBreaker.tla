--------------------------- MODULE CircuitBreaker ---------------------------
(***************************************************************************)
(* The per-service circuit breaker (sidecar/app/runner/circuit.py) as the  *)
(* runner's workers drive it (runner.py _run): each worker is gated by the *)
(* service its operation is expected to call, calls whatever the scoring   *)
(* mode says by then, or nobody, and feeds the outcome back.               *)
(*                                                                         *)
(* Time is abstracted to whether a circuit's cooldown has elapsed.  Each   *)
(* critical section of the breaker's lock is one step.                     *)
(***************************************************************************)
EXTENDS Integers, FiniteSets

CONSTANTS
  Workers,      \* pool threads
  Routed,       \* the engine the AI kinds are routed to
  Decisions,    \* the service Jev scoring calls whatever the routing says
  Threshold,    \* FAILURE_THRESHOLD
  MaxSwitches   \* bound: how often the scoring mode is changed

ASSUME BreakerAssumption ==
  /\ Threshold \in Nat \ {0}
  /\ MaxSwitches \in Nat
  /\ "none" \notin {Routed, Decisions}

Services == {Routed, Decisions}
Modes    == {"llm", "jev", "keyword"}

VARIABLES
  circuit,   \* per service: consecutive failures, open or not, probe lease out
  cooled,    \* open circuits whose cooldown has elapsed
  at,        \* where each worker stands
  service,   \* the breaker key its operation was gated by
  callee,    \* the service it really calls, "none" when it calls nobody
  lease,     \* probe_engine: the lease it holds
  down,      \* providers that are failing
  mode,      \* the saved scoring mode
  switches

vars == <<circuit, cooled, at, service, callee, lease, down, mode, switches>>

Closed == [fails |-> 0, open |-> FALSE, probing |-> FALSE]

TypeOK ==
  /\ circuit \in [Services -> [fails : 0..Threshold, open : BOOLEAN, probing : BOOLEAN]]
  /\ cooled \in SUBSET Services
  /\ at \in [Workers -> {"idle", "entry", "call", "abandon"}]
  /\ service \in [Workers -> Services \cup {"none"}]
  /\ callee \in [Workers -> Services \cup {"none"}]
  /\ lease \in [Workers -> Services \cup {"none"}]
  /\ down \in SUBSET Services
  /\ mode \in Modes
  /\ switches \in 0..MaxSwitches

Init ==
  /\ circuit = [s \in Services |-> Closed]
  /\ cooled = {}
  /\ at = [w \in Workers |-> "idle"]
  /\ service = [w \in Workers |-> "none"]
  /\ callee = [w \in Workers |-> "none"]
  /\ lease = [w \in Workers |-> "none"]
  /\ down \in SUBSET Services
  /\ mode \in Modes
  /\ switches = 0

-----------------------------------------------------------------------------
(* The breaker                                                             *)

Refuses(s) == circuit[s].open /\ (s \notin cooled \/ circuit[s].probing)

(* record_success: the circuit is forgotten.                               *)
RecordSuccess(s) ==
  IF s = "none"
    THEN UNCHANGED <<circuit, cooled>>
    ELSE /\ circuit' = [circuit EXCEPT ![s] = Closed]
         /\ cooled' = cooled \ {s}

(* Mutant: an open circuit starts its count afresh on the next failure.    *)
RecordFailureAfresh(s) ==
  IF s = "none"
    THEN UNCHANGED <<circuit, cooled>>
    ELSE LET n == IF circuit[s].open THEN 1 ELSE circuit[s].fails + 1
         IN  IF n >= Threshold
               THEN /\ circuit' = [circuit EXCEPT ![s] =
                          [fails |-> Threshold, open |-> TRUE, probing |-> FALSE]]
                    /\ cooled' = cooled \ {s}
               ELSE /\ circuit' = [circuit EXCEPT ![s] = [Closed EXCEPT !.fails = n]]
                    /\ cooled' = cooled \ {s}

(* record_failure: from the threshold on, every failure opens the circuit  *)
(* anew, restarts its cooldown and takes the lease back.  Only "threshold  *)
(* reached" is observable, so the count stops there.                       *)
RecordFailure(s) ==
  IF s = "none"
    THEN UNCHANGED <<circuit, cooled>>
    ELSE IF circuit[s].fails + 1 >= Threshold
      THEN /\ circuit' = [circuit EXCEPT ![s] =
                 [fails |-> Threshold, open |-> TRUE, probing |-> FALSE]]
           /\ cooled' = cooled \ {s}
      ELSE /\ circuit' = [circuit EXCEPT ![s].fails = @ + 1]
           /\ UNCHANGED cooled

Abandon(s) ==
  /\ circuit' = IF s = "none" THEN circuit ELSE [circuit EXCEPT ![s].probing = FALSE]
  /\ UNCHANGED cooled

(* The cooldown of an open circuit runs out.                               *)
Elapse(s) ==
  /\ circuit[s].open
  /\ s \notin cooled
  /\ cooled' = cooled \cup {s}
  /\ UNCHANGED <<circuit, at, service, callee, lease, down, mode, switches>>

-----------------------------------------------------------------------------
(* A worker                                                                *)

(* score_service: which service a score operation is expected to call.     *)
ScoreService(m) ==
  CASE m = "jev"     -> Decisions
    [] m = "keyword" -> "none"
    [] OTHER         -> Routed

(* What an operation asks by: a score of the saved mode, or a mode forced  *)
(* by its request.  "llm" stands for every other AI kind too, which takes  *)
(* the routed engine.                                                      *)
Asks == {"setting"} \cup Modes

Expected(ask) == ScoreService(IF ask = "setting" THEN mode ELSE ask)

(* service_for and check.  A refused operation fails at once and is gone.  *)
(* A bare operation will call nobody whatever it is gated by: the score of *)
(* a posting under MIN_JD_CHARS, an apply run blocked before its first call.*)
Gate(w, ask, bare) ==
  LET s == Expected(ask) IN
  /\ at[w] = "idle"
  /\ s # "none" => ~Refuses(s)
  /\ service' = [service EXCEPT ![w] = s]
  /\ at' = [at EXCEPT ![w] = IF ask = "setting" THEN "entry" ELSE "call"]
  /\ callee' = [callee EXCEPT ![w] = IF ask = "setting" \/ bare THEN "none" ELSE s]
  /\ IF s # "none" /\ circuit[s].open
       THEN /\ lease' = [lease EXCEPT ![w] = s]
            /\ circuit' = [circuit EXCEPT ![s].probing = TRUE]
       ELSE UNCHANGED <<lease, circuit>>
  /\ UNCHANGED <<cooled, down, mode, switches>>

(* score_entrypoint reads the mode for itself before it calls, and scores  *)
(* a thin posting by keyword in every mode.                                *)
Enter(w, thin) ==
  /\ at[w] = "entry"
  /\ at' = [at EXCEPT ![w] = "call"]
  /\ callee' = [callee EXCEPT ![w] = IF thin THEN "none" ELSE ScoreService(mode)]
  /\ UNCHANGED <<circuit, cooled, service, lease, down, mode, switches>>

Leave(w) ==
  /\ at' = [at EXCEPT ![w] = "idle"]
  /\ service' = [service EXCEPT ![w] = "none"]
  /\ callee' = [callee EXCEPT ![w] = "none"]
  /\ lease' = [lease EXCEPT ![w] = "none"]

(* The entrypoint returned: a success of the service it was gated by, also *)
(* when it called another one or nobody.                                   *)
Succeed(w) ==
  /\ at[w] = "call"
  /\ callee[w] \notin down
  /\ RecordSuccess(service[w])
  /\ Leave(w)
  /\ UNCHANGED <<down, mode, switches>>

(* An EngineError.  Only the decisions client names its provider; any      *)
(* other failure is charged to the key the worker was gated by.            *)
Charged(w) == IF callee[w] = Decisions THEN Decisions ELSE service[w]

(* Mutant: the lease of another service is forgotten, not given up.        *)
FailKeepsLease(w) ==
  /\ at[w] = "call"
  /\ callee[w] \in down
  /\ RecordFailure(Charged(w))
  /\ Leave(w)
  /\ UNCHANGED <<down, mode, switches>>

Fail(w) ==
  /\ at[w] = "call"
  /\ callee[w] \in down
  /\ RecordFailure(Charged(w))
  /\ IF lease[w] \in {"none", Charged(w)}
       THEN Leave(w)
       ELSE /\ at' = [at EXCEPT ![w] = "abandon"]
            /\ UNCHANGED <<service, callee, lease>>
  /\ UNCHANGED <<down, mode, switches>>

(* Mutant: a Stop or a bug in the entrypoint leaves the lease out.         *)
NoVerdictKeepsLease(w) ==
  /\ at[w] \in {"entry", "call", "abandon"}
  /\ UNCHANGED <<circuit, cooled>>
  /\ Leave(w)
  /\ UNCHANGED <<down, mode, switches>>

(* A Stop, an exception that is not an EngineError, an exception that      *)
(* escapes the handlers, or the second half of Fail.                       *)
NoVerdict(w) ==
  /\ at[w] \in {"entry", "call", "abandon"}
  /\ Abandon(lease[w])
  /\ Leave(w)
  /\ UNCHANGED <<down, mode, switches>>

-----------------------------------------------------------------------------
(* The environment                                                         *)

SwitchMode ==
  /\ switches < MaxSwitches
  /\ mode' \in Modes \ {mode}
  /\ switches' = switches + 1
  /\ UNCHANGED <<circuit, cooled, at, service, callee, lease, down>>

ProviderRecovers(s) ==
  /\ s \in down
  /\ down' = down \ {s}
  /\ UNCHANGED <<circuit, cooled, at, service, callee, lease, mode, switches>>

Next ==
  \/ \E w \in Workers, ask \in Asks, bare \in BOOLEAN : Gate(w, ask, bare)
  \/ \E w \in Workers, thin \in BOOLEAN : Enter(w, thin)
  \/ \E w \in Workers : Succeed(w) \/ Fail(w) \/ NoVerdict(w)
  \/ \E s \in Services : Elapse(s) \/ ProviderRecovers(s)
  \/ SwitchMode

Spec == Init /\ [][Next]_vars

(* Time passes, scores by the saved mode and operations of the routed      *)
(* engine keep coming, and an operation given the chance again and again   *)
(* eventually gets through.  Nobody need force a mode.                     *)
Fairness ==
  /\ \A s \in Services : WF_vars(Elapse(s)) /\ SF_vars(\E w \in Workers : service[w] = s /\ Succeed(w))
  /\ \A ask \in {"setting", "llm"} :
       SF_vars(\E w \in Workers, bare \in BOOLEAN : Gate(w, ask, bare))
  /\ SF_vars(\E w \in Workers, thin \in BOOLEAN : Enter(w, thin))
  /\ \A w \in Workers : WF_vars(Succeed(w) \/ Fail(w) \/ NoVerdict(w))

-----------------------------------------------------------------------------
(* What a worker's lease and a circuit's flags may be: the lease is for    *)
(* the key the worker was gated by and is gone with the operation; a       *)
(* circuit is open exactly from the threshold on, and probed only open.    *)
LeaseOK(w) ==
  /\ lease[w] \in {"none", service[w]}
  /\ at[w] = "idle" => lease[w] = "none"
CircuitOK(s) ==
  /\ circuit[s].open <=> circuit[s].fails = Threshold
  /\ circuit[s].probing => circuit[s].open

(* No wedge: while the half-open lease of a circuit is out, some worker    *)
(* holds it and will settle it.  A lease that outlives its worker would    *)
(* keep the circuit open forever.                                          *)
LeaseHasHolder ==
  \A s \in Services : circuit[s].probing => \E w \in Workers : lease[w] = s

(* The inductive strengthening of LeaseHasHolder.                          *)
IInv ==
  /\ TypeOK
  /\ \A w \in Workers : LeaseOK(w)
  /\ \A s \in Services : CircuitOK(s)
  /\ LeaseHasHolder

(* An open circuit closes only when the service it is for has answered: a  *)
(* success is recorded because "the engine answered" (runner.py:396), and  *)
(* one probe's outcome decides (circuit.py:57).  Stated until the mode is  *)
(* changed under an operation; it is not true of the code, which records   *)
(* the success of an operation that asked nobody as the service's own.     *)
ClosedByItsAnswer ==
  [][\A s \in Services :
       switches = 0 /\ circuit[s].open /\ ~circuit'[s].open =>
         \E w \in Workers : callee[w] = s /\ s \notin down /\ at[w] = "call" /\ at'[w] = "idle"]_vars

(* Until the mode is changed under an operation, an open circuit closes    *)
(* only at the end of an operation it had let through, one that its own    *)
(* service answered or that asked nobody: never on the strength of a       *)
(* failure, a Stop, or an answer of another service.                       *)
ClosedByItsOperation ==
  [][\A s \in Services :
       switches = 0 /\ circuit[s].open /\ ~circuit'[s].open =>
         \E w \in Workers :
           /\ service[w] = s
           /\ callee[w] \in {s, "none"} \ down
           /\ at[w] = "call" /\ at'[w] = "idle"]_vars

(* Once a provider is healthy again its circuit closes, whatever was in    *)
(* flight when it opened and however many probes were derailed, unless     *)
(* the scoring mode by then leaves nobody to ask for it.                   *)
HealthyProviderResumes ==
  \A s \in Services :
    s \notin down ~> ~circuit[s].open \/ (s # Routed /\ ScoreService(mode) # s)
=============================================================================
