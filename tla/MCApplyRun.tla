------------------------------ MODULE MCApplyRun ------------------------------
(* An apply run and the two things it holds while it runs, for TLC: the runs   *)
(* of a card (ApplyRun), the Applier's window with a tab for each run that is   *)
(* under way (ApplierWindow), and the broker's browser surfaces (BrowserBroker).*)
(* They keep their state apart - the database, one asyncio loop, the broker's   *)
(* map - and one run takes one after another: `part` says which, and the       *)
(* others rest.                                                               *)
EXTENDS ApplyRun

CONSTANTS
  Run, Page, Win, Closer, MaxFaults, MaxUser, MaxFired,  \* ApplierWindow
  Slug, Caller, Surf, Reaper, MaxSurfaces, MaxQuits,     \* BrowserBroker
  r1, r2, p1, p2, p3, w1, w2, linkedin, worker1, s1, s2

VARIABLES
  part,
  context, cdp, profile, pw, spare, tabs, tabLock, timer, opened, shownIn, opener, at, own, heard,
  fired, dying, early, stranded, broken, user,
  map, slugLock, slugOf, thread, stopping, viewer, inflight, aged, pc, want, got, prey, todo,
  quitting, quits, faults, loose

window ==
  <<context, cdp, profile, pw, spare, tabs, tabLock, timer, opened, shownIn, opener, at, own, heard,
    fired, dying, early, stranded, broken, user>>
surfaces ==
  <<map, slugLock, slugOf, thread, stopping, viewer, inflight, aged, pc, want, got, prey, todo,
    quitting, quits, faults, loose>>

Window == INSTANCE ApplierWindow WITH lock <- tabLock, up <- opened, faults <- broken
Broker == INSTANCE BrowserBroker WITH lock <- slugLock

PartsInit == part \in {"runs", "window", "broker"} /\ Init /\ Window!Init /\ Broker!Init

PartsNext ==
  \/ part = "runs"   /\ Next        /\ UNCHANGED <<part, window, surfaces>>
  \/ part = "window" /\ Window!Next /\ UNCHANGED <<part, vars, surfaces>>
  \/ part = "broker" /\ Broker!Next /\ UNCHANGED <<part, vars, window>>

(* Each part under its own fairness.                                         *)
PartsSpec ==
  /\ PartsInit /\ [][PartsNext]_<<part, vars, window, surfaces>>
  /\ \/ part = "runs"   /\ Fairness
     \/ part = "window" /\ Window!Fairness
     \/ part = "broker" /\ Broker!Fairness

-----------------------------------------------------------------------------
(* A window without a tab closes, or a run takes it, except after a run that  *)
(* could not open its tab (CLOSE_GRACE_S).                                   *)
IdleWindowCloses == part = "window" => Window!IdleWindowCloses

(* A surface nobody watches or drives is closed, or somebody takes it: a     *)
(* command that was given up, or cancelled, does not keep its Chrome alive.  *)
IdleIsReclaimed == part = "broker" => Broker!IdleIsReclaimed
=============================================================================
