--------------------------- MODULE SidecarSupervisor ---------------------------
(* The shell and its sidecars (src-tauri/src/sidecar.rs, lib.rs): the boot     *)
(* record, the supervisor thread with its health polls and restarts, the quit  *)
(* on the main thread, and the sidecar's own orphan watchdog.  The shell can   *)
(* be started, quit and killed again and again; of the clock a step sees only  *)
(* which of the code's intervals are over.                                     *)
EXTENDS Integers, Sequences

CONSTANTS
  MaxSpawns,     \* bound: sidecars ever spawned
  MaxBoots,      \* bound: starts of the shell
  MaxFaults,     \* bound: sidecars that crash or hang, handshakes that fail, shells killed
  MaxFailures,   \* MAX_FAILURES
  BusyTolerance, \* BUSY_TOLERANCE
  DegradedAfter, \* DEGRADED_AFTER
  HistoryLen     \* BOOT_HISTORY_LEN

Sidecar == 1 .. MaxSpawns
None == 0

VARIABLES
  shell,     \* the main thread: off, in setup, running, or where shutdown() stands
  stopping, info, pid,  \* Inner: stopping, the sidecar of info, and of child_pid
  leaving,   \* what shutdown() took out of Inner
  sup,       \* the supervisor thread
  child,     \* its Child handle
  failures, window,  \* failures, and whether first_failure_at is set and within RESTART_WINDOW
  healthy,   \* healthy_since: none, some, or HEALTHY_RESET ago
  busy,      \* busy_polls
  state,     \* what each sidecar is doing
  shellOf,   \* the start of the shell it was spawned in
  patient,   \* history: sidecars whose startup grace has expired
  records,   \* boot_history.json: the outcomes, oldest first
  degraded,  \* DEGRADED_BOOT: the sidecars start without their scheduler
  gaveUp, inRow, \* history: this run gave up; how many runs before it did, in a row
  late,      \* history: the drain's ten seconds are over
  fatal,     \* sidecar://fatal was emitted
  boots, faults

inner == <<stopping, info, pid>>
loop  == <<failures, window, healthy, busy>>
past  == <<degraded, gaveUp, inRow>>
vars  == <<shell, stopping, info, pid, leaving, sup, child, failures, window, healthy, busy,
           state, shellOf, patient, records, degraded, gaveUp, inRow, late, fatal, boots, faults>>

Alive(g) == state[g] \in {"booting", "serving", "hung", "draining"}

(* /healthz answers.                                                         *)
Answers(g) == g # None /\ state[g] = "serving"

TypeOK ==
  /\ shell \in {"off", "setup", "up", "post", "drain", "kill", "exit"}
  /\ {stopping, fatal, degraded, gaveUp, late} \subseteq BOOLEAN /\ inRow \in 0 .. MaxBoots
  /\ {info, pid, leaving, child} \subseteq Sidecar \cup {None}
  /\ sup \in {"none", "grace", "poll", "backoff", "respawn", "over"}
  /\ failures \in 0 .. MaxFailures /\ busy \in 0 .. BusyTolerance
  /\ window \in {"none", "open", "past"} /\ healthy \in {"none", "some", "long"}
  /\ state \in [Sidecar -> {"unborn", "booting", "serving", "hung", "draining", "dead"}]
  /\ shellOf \in [Sidecar -> 0 .. MaxBoots]
  /\ patient \subseteq Sidecar
  /\ Len(records) <= HistoryLen
  /\ \A i \in DOMAIN records : records[i] \in {"unknown", "clean", "gave_up"}

Init ==
  /\ shell = "off" /\ stopping = FALSE /\ info = None /\ pid = None /\ leaving = None
  /\ sup = "none" /\ child = None
  /\ failures = 0 /\ window = "none" /\ healthy = "none" /\ busy = 0
  /\ state = [g \in Sidecar |-> "unborn"] /\ shellOf = [g \in Sidecar |-> 0]
  /\ patient = {} /\ records = <<>> /\ degraded = FALSE /\ gaveUp = FALSE /\ inRow = 0
  /\ late = FALSE /\ fatal = FALSE /\ boots = 0 /\ faults = 0

-----------------------------------------------------------------------------
Fault == faults < MaxFaults /\ faults' = faults + 1

(* A new sidecar, with its own port: from here on `child` of the caller.     *)
Next1 == {g \in Sidecar : state[g] = "unborn" /\ \A h \in Sidecar : h < g => state[h] # "unborn"}

Spawned(g, old, boot) ==
  /\ state' = [h \in Sidecar |-> IF h = g THEN "booting" ELSE IF h = old THEN "dead" ELSE state[h]]
  /\ shellOf' = [shellOf EXCEPT ![g] = boot]

Killed(g) == state' = [h \in Sidecar |-> IF h = g THEN "dead" ELSE state[h]]

(* is_degraded                                                               *)
Degraded(r) ==
  /\ Len(r) >= DegradedAfter
  /\ LET bad == r[Len(r)] IN
       bad # "clean" /\ \A i \in Len(r) - DegradedAfter + 1 .. Len(r) : r[i] = bad

(* close_boot_record                                                         *)
Close(outcome) == [records EXCEPT ![Len(records)] = outcome]

-----------------------------------------------------------------------------
(* setup: record_boot, and the first spawn                                   *)

Trimmed(r) == IF Len(r) > HistoryLen THEN Tail(r) ELSE r

Boot ==
  /\ shell = "off" /\ boots < MaxBoots
  /\ boots' = boots + 1
  /\ records' = Trimmed(Append(records, "unknown"))
  /\ degraded' = Degraded(records)
  /\ inRow' = IF gaveUp THEN inRow + 1 ELSE 0
  /\ gaveUp' = FALSE /\ late' = FALSE
  /\ shell' = "setup"
  /\ stopping' = FALSE /\ info' = None /\ pid' = None /\ fatal' = FALSE /\ leaving' = None
  /\ failures' = 0 /\ window' = "none" /\ healthy' = "none" /\ busy' = 0
  /\ \E g \in Next1 : Spawned(g, None, boots + 1) /\ child' = g
  /\ UNCHANGED <<sup, patient, faults>>

Handshake ==
  /\ shell = "setup" /\ Alive(child)
  /\ info' = child /\ pid' = child
  /\ shell' = "up" /\ sup' = "grace"
  /\ UNCHANGED <<stopping, leaving, child, loop, state, shellOf, patient, records, past, late, fatal, boots, faults>>

(* shutdown(), up to where it has taken pid and info out of Inner.           *)
Leaving ==
  /\ records' = Close("clean")
  /\ stopping' = TRUE
  /\ leaving' = pid
  /\ shell' = IF info = None THEN "kill" ELSE "post"

(* The handshake timed out: the dialog, and exit(1), which is a quit as well. *)
BootFails ==
  /\ shell = "setup"
  /\ IF Alive(child) THEN Fault ELSE UNCHANGED faults
  /\ Killed(child) /\ child' = None
  /\ Leaving
  /\ UNCHANGED <<info, pid, sup, loop, shellOf, patient, past, late, fatal, boots>>

-----------------------------------------------------------------------------
(* shutdown(), on the main thread                                            *)

Quit ==
  /\ shell = "up"
  /\ Leaving
  /\ UNCHANGED <<info, pid, sup, child, loop, state, shellOf, patient, past, late, fatal, boots, faults>>

(* POST /shutdown: the server closes its socket, then waits for its streams,  *)
(* and only then runs the lifespan's drain.                                  *)
Post ==
  /\ shell = "post"
  /\ state' = IF Answers(leaving) THEN [state EXCEPT ![leaving] = "draining"] ELSE state
  /\ shell' = "drain"
  /\ UNCHANGED <<inner, leaving, sup, child, loop, shellOf, patient, records, past, late, fatal, boots, faults>>

(* The wait ends when /healthz does not answer, or after SHUTDOWN_DRAIN.      *)
Drained ==
  /\ shell = "drain"
  /\ (~Answers(leaving) /\ UNCHANGED late) \/ late' = TRUE
  /\ shell' = "kill"
  /\ UNCHANGED <<inner, leaving, sup, child, loop, state, shellOf, patient, records, past, fatal, boots, faults>>

ForceKill ==
  /\ shell = "kill"
  /\ IF leaving = None THEN UNCHANGED state ELSE Killed(leaving)
  /\ shell' = "exit"
  /\ UNCHANGED <<inner, leaving, sup, child, loop, shellOf, patient, records, past, late, fatal, boots, faults>>

(* The process ends, and its threads with it: after a quit, or killed.       *)
Ends ==
  /\ shell' = "off" /\ sup' = "none" /\ child' = None
  /\ UNCHANGED <<inner, leaving, loop, state, shellOf, patient, records, past, late, fatal, boots>>

Exit == shell = "exit" /\ Ends /\ UNCHANGED faults
HardKill == shell \in {"setup", "up"} /\ Ends /\ Fault

-----------------------------------------------------------------------------
(* supervise(), on its thread                                                *)

(* wait_until_healthy: an answer, the end of the process or of the app, or    *)
(* STARTUP_GRACE.                                                            *)
Grace ==
  /\ sup = "grace"
  /\ \/ (Answers(child) \/ stopping \/ ~Alive(child)) /\ UNCHANGED patient
     \/ Alive(child) /\ ~Answers(child) /\ patient' = patient \cup {child}
  /\ sup' = "poll"
  /\ UNCHANGED <<shell, inner, leaving, child, loop, state, shellOf, records, past, late, fatal, boots, faults>>

(* child.wait(), and the thread returns.                                     *)
Stops ==
  /\ sup \in {"poll", "backoff"} /\ stopping /\ ~Alive(child)
  /\ sup' = "over"
  /\ UNCHANGED <<shell, inner, leaving, child, loop, state, shellOf, patient, records, past, late, fatal, boots, faults>>

Healthy ==
  /\ sup = "poll" /\ ~stopping /\ Answers(child)
  /\ busy' = 0
  /\ healthy' = IF healthy = "none" THEN "some" ELSE healthy
  /\ IF healthy = "long" THEN failures' = 0 /\ window' = "none" ELSE UNCHANGED <<failures, window>>
  /\ UNCHANGED <<shell, inner, leaving, sup, child, state, shellOf, patient, records, past, late, fatal, boots, faults>>

(* Alive without an answer: so far only busy.                                *)
Busy ==
  /\ sup = "poll" /\ ~stopping /\ ~Answers(child) /\ Alive(child)
  /\ busy + 1 < BusyTolerance
  /\ busy' = busy + 1 /\ healthy' = "none"
  /\ UNCHANGED <<shell, inner, leaving, sup, child, failures, window, state, shellOf, patient, records, past, late, fatal, boots, faults>>

Counted == IF window = "open" THEN failures + 1 ELSE 1

(* An exited sidecar fails at once, a busy one when tolerance is exhausted.  *)
Fails ==
  /\ sup = "poll" /\ ~stopping /\ ~Answers(child)
  /\ Alive(child) => busy + 1 >= BusyTolerance
  /\ busy' = 0 /\ healthy' = "none" /\ window' = "open"
  /\ failures' = Counted
  /\ IF Counted >= MaxFailures
     THEN /\ records' = Close("gave_up") /\ fatal' = TRUE /\ gaveUp' = TRUE
          /\ Killed(child) /\ sup' = "over"
     ELSE sup' = "backoff" /\ UNCHANGED <<records, fatal, gaveUp, state>>
  /\ UNCHANGED <<shell, inner, leaving, child, shellOf, patient, degraded, inRow, late, boots, faults>>

(* kill_group, wait, and the start of spawn_once.                            *)
Restart ==
  /\ sup = "backoff" /\ ~stopping
  /\ \E g \in Next1 : Spawned(g, child, boots) /\ child' = g
  /\ sup' = "respawn"
  /\ UNCHANGED <<shell, inner, leaving, loop, patient, records, past, late, fatal, boots, faults>>

(* Mutant: only the first sidecar has a startup grace.                       *)
RespawnedHurried ==
  /\ sup = "respawn" /\ Alive(child)
  /\ info' = child /\ pid' = child
  /\ sup' = "poll"
  /\ UNCHANGED <<shell, stopping, leaving, child, loop, state, shellOf, patient, records, past, late, fatal, boots, faults>>

Respawned ==
  /\ sup = "respawn" /\ Alive(child)
  /\ info' = child /\ pid' = child
  /\ sup' = "grace"
  /\ UNCHANGED <<shell, stopping, leaving, child, loop, state, shellOf, patient, records, past, late, fatal, boots, faults>>

(* No handshake: the thread says so and returns.                             *)
RespawnFails ==
  /\ sup = "respawn"
  /\ IF Alive(child) THEN Fault ELSE UNCHANGED faults
  /\ Killed(child)
  /\ fatal' = TRUE /\ sup' = "over"
  /\ UNCHANGED <<shell, inner, leaving, child, loop, shellOf, patient, records, past, late, boots>>

WindowPasses ==
  /\ window = "open" /\ window' = "past"
  /\ UNCHANGED <<shell, inner, leaving, sup, child, failures, healthy, busy, state, shellOf, patient, records, past, late, fatal, boots, faults>>

HealthyLong ==
  /\ healthy = "some" /\ healthy' = "long"
  /\ UNCHANGED <<shell, inner, leaving, sup, child, failures, window, busy, state, shellOf, patient, records, past, late, fatal, boots, faults>>

-----------------------------------------------------------------------------
(* The sidecars                                                              *)

Becomes(g, s) ==
  /\ state' = [state EXCEPT ![g] = s]
  /\ UNCHANGED <<shell, inner, leaving, sup, child, loop, shellOf, patient, records, past, late, fatal, boots>>

Serves(g) == state[g] = "booting" /\ Becomes(g, "serving") /\ UNCHANGED faults
Crashes(g) == Alive(g) /\ Becomes(g, "dead") /\ Fault
Hangs(g) == state[g] = "serving" /\ Becomes(g, "hung") /\ Fault
Recovers(g) == state[g] = "hung" /\ Becomes(g, "serving") /\ UNCHANGED faults
Finishes(g) == state[g] = "draining" /\ Becomes(g, "dead") /\ UNCHANGED faults

(* watch_parent runs once the sidecar serves, and finds its shell gone.      *)
Shellless(g) == shellOf[g] < boots \/ shell = "off"

(* Mutant: only the parent is looked at, and it is a wrapper that stays.      *)
OrphanOfParent(g) == FALSE

Orphan(g) == Shellless(g)

Watchdog(g) == state[g] = "serving" /\ Orphan(g) /\ Becomes(g, "draining") /\ UNCHANGED faults

Next ==
  \/ Boot \/ Handshake \/ BootFails
  \/ Quit \/ Post \/ Drained \/ ForceKill \/ Exit \/ HardKill
  \/ Grace \/ Stops \/ Healthy \/ Busy \/ Fails \/ Restart \/ Respawned \/ RespawnFails
  \/ WindowPasses \/ HealthyLong
  \/ \E g \in Sidecar :
       Serves(g) \/ Crashes(g) \/ Hangs(g) \/ Recovers(g) \/ Finishes(g) \/ Watchdog(g)

Spec == Init /\ [][Next]_vars

(* Threads run, a boot ends, a hung sidecar answers again in the end, a drain *)
(* ends.  Nobody has to quit, start the app again, or crash.                 *)
Fairness ==
  /\ WF_vars(Handshake \/ BootFails)
  /\ WF_vars(Post) /\ WF_vars(Drained) /\ WF_vars(ForceKill) /\ WF_vars(Exit)
  /\ WF_vars(Grace) /\ WF_vars(Healthy \/ Busy \/ Fails) /\ WF_vars(Restart)
  /\ WF_vars(Respawned \/ RespawnFails)
  /\ \A g \in Sidecar :
       WF_vars(Serves(g)) /\ WF_vars(Recovers(g)) /\ WF_vars(Finishes(g)) /\ WF_vars(Watchdog(g))

FairSpec == Spec /\ Fairness

-----------------------------------------------------------------------------
(* One run of the shell never has two sidecars at once, on one database and   *)
(* one set of Chrome profiles (supervise: the old group is killed first).    *)
OneSidecarPerShell ==
  \A g, h \in Sidecar : Alive(g) /\ Alive(h) /\ shellOf[g] = shellOf[h] => g = h

(* A sidecar that still boots is never killed before its startup grace is     *)
(* over, but by a quit, whatever polls and restarts went before              *)
(* (STARTUP_GRACE).                                                          *)
BootingIsSpared ==
  [][\A g \in Sidecar : state[g] = "booting" /\ state'[g] = "dead" =>
       g \in patient \/ faults' # faults \/ shell = "kill"]_vars

(* When the sidecar of a running shell is dead, a new one comes up or the     *)
(* user is told (supervise).                                                 *)
AllSpawned == state[MaxSpawns] # "unborn"
DeadIsReplaced ==
  sup # "none" /\ shell = "up" /\ ~Alive(child) ~> fatal \/ shell # "up" \/ Alive(child) \/ AllSpawned

(* A sidecar without its shell ends, however the shell ended and whatever the *)
(* sidecar was doing then (watch_parent).                                    *)
NoOrphanForever ==
  \A g \in Sidecar : Alive(g) /\ Shellless(g) ~> ~Alive(g)

(* A quit leaves no sidecar of the run behind (shutdown).                    *)
QuitLeavesNothing ==
  [][shell = "exit" /\ shell' = "off" => \A g \in Sidecar : shellOf[g] = boots => ~Alive(g)]_vars

(* A quit kills a sidecar that drains only when its ten seconds are over      *)
(* (SHUTDOWN_DRAIN).                                                         *)
QuitLetsDrain ==
  [][shell = "kill" /\ leaving # None /\ state[leaving] = "draining" => late]_vars

(* After DegradedAfter runs in a row in which the supervisor gave up, the     *)
(* next starts without the scheduler (BOOT_HISTORY_LEN, DEGRADED_AFTER).     *)
LoopDegrades == inRow >= DegradedAfter => degraded
=============================================================================
