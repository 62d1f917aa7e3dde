------------------------------- MODULE MCRunWait -------------------------------
(* Two sides of a sidecar that dies, for TLC: the request that waits for its    *)
(* run (RunWait), and the shell that supervises it (SidecarSupervisor).  What   *)
(* they share - a start of the sidecar, the handshake it hands out - each has   *)
(* in a detail of its own; one run takes one after the other: `part` says      *)
(* which, and the other rests.                                               *)
EXTENDS RunWait

CONSTANTS MaxSpawns, MaxBoots, MaxFaults, MaxFailures, BusyTolerance, DegradedAfter, HistoryLen

ASSUME ShellAssumption ==
  /\ {MaxSpawns, MaxBoots, MaxFaults} \subseteq Nat
  /\ {MaxFailures, BusyTolerance, DegradedAfter, HistoryLen} \subseteq Nat \ {0}

VARIABLES
  part,
  main,  \* `shell` of SidecarSupervisor
  stopping, info, pid, leaving, sup, child, failures, window, healthy, busy, state, shellOf,
  patient, records, degraded, gaveUp, inRow, late, fatal, boots, faults

supervisor ==
  <<main, stopping, info, pid, leaving, sup, child, failures, window, healthy, busy, state, shellOf,
    patient, records, degraded, gaveUp, inRow, late, fatal, boots, faults>>

Shell == INSTANCE SidecarSupervisor WITH shell <- main

PartsInit == part \in {"wait", "shell"} /\ Init /\ Shell!Init

PartsNext ==
  \/ part = "wait"  /\ Next       /\ UNCHANGED <<part, supervisor>>
  \/ part = "shell" /\ Shell!Next /\ UNCHANGED <<part, vars>>

(* Each part under its own fairness.                                         *)
PartsSpec ==
  /\ PartsInit /\ [][PartsNext]_<<part, vars, supervisor>>
  /\ part = "wait" => Fairness
  /\ part = "shell" => Shell!Fairness

-----------------------------------------------------------------------------
(* One run of the shell never has two sidecars at once, on one database and   *)
(* one set of Chrome profiles, and it kills none for its long boot before its *)
(* startup grace is over, whatever crashes, hangs or restarts went before     *)
(* (supervise, STARTUP_GRACE).                                               *)
ShellKeepsOne == [](Shell!TypeOK /\ Shell!OneSidecarPerShell) /\ Shell!BootingIsSpared

(* Whatever dies, what it leaves behind comes to an end: the page's wait, a    *)
(* sidecar without its shell (watch_parent), and a running shell without its  *)
(* sidecar, which gets another one or tells the user (supervise).            *)
DeathIsSettled == WaitEnds /\ Shell!NoOrphanForever /\ Shell!DeadIsReplaced
=============================================================================
