--------------------------- MODULE OperationLedger --------------------------
(***************************************************************************)
(* What the operations table promises the rest of the application, with no *)
(* threads, locks or lanes: an operation is enqueued once, starts at most  *)
(* once, and ends in one terminal state that never changes; the operations *)
(* that are running never clash with each other; a restart fails whatever  *)
(* was running and leaves the queue alone.                                 *)
(***************************************************************************)
EXTENDS FiniteSets

CONSTANTS
  Ops,            \* operation ids
  Clash(_, _)     \* two operations that may never run side by side

VARIABLES
  state,          \* the state column of each row; "absent" before it exists
  tried           \* the operations whose entrypoint has been called

ledgerVars == <<state, tried>>

Terminal == {"succeeded", "failed", "cancelled"}
RowStates == {"absent", "queued", "running"} \cup Terminal

In(s) == {o \in Ops : state[o] = s}
Move(S, s) == state' = [o \in Ops |-> IF o \in S THEN s ELSE state[o]]

Init ==
  /\ state = [o \in Ops |-> "absent"]
  /\ tried = {}

Enqueue(S) ==
  /\ S # {} /\ S \subseteq In("absent")
  /\ Move(S, "queued")
  /\ UNCHANGED tried

(* Any batch may start together as long as nothing clashes afterwards.     *)
Start(S) ==
  /\ S # {} /\ S \subseteq In("queued")
  /\ \A o \in S, p \in S \cup In("running") : o # p => ~Clash(o, p)
  /\ Move(S, "running")
  /\ UNCHANGED tried

Work(o) ==
  /\ state[o] = "running" /\ o \notin tried
  /\ tried' = tried \cup {o}
  /\ UNCHANGED state

Finish(o, outcome) ==
  /\ state[o] = "running"
  /\ outcome = "succeeded" => o \in tried
  /\ Move({o}, outcome)
  /\ UNCHANGED tried

Withdraw(o) ==
  /\ state[o] = "queued"
  /\ Move({o}, "cancelled")
  /\ UNCHANGED tried

Restart ==
  /\ Move(In("running"), "failed")
  /\ UNCHANGED tried

Next ==
  \/ \E S \in SUBSET Ops : Enqueue(S) \/ Start(S)
  \/ \E o \in Ops : Work(o) \/ Withdraw(o) \/ \E t \in Terminal : Finish(o, t)
  \/ Restart

Spec == Init /\ [][Next]_ledgerVars
=============================================================================
