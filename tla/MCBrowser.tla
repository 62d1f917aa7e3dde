------------------------------- MODULE MCBrowser -------------------------------
(* The app's two holders of Chrome, for TLC: the broker's surfaces              *)
(* (BrowserBroker) and the Applier's window (ApplierWindow).  Each has profile  *)
(* directories, threads and locks of its own, and one run takes one after the   *)
(* other: `part` says which, and the other rests.                             *)
EXTENDS BrowserBroker, TLC

CONSTANTS
  Run, Page, Win, Closer, MaxFailures, MaxUser, MaxFired,  \* ApplierWindow
  linkedin, default, page, worker, s1, s2, r1, r2, p1, p2, p3, p4, w1, w2

(* The windows, pages and runs of the Applier are no values that stand for    *)
(* "none", and the loop's own turn at the tab lock is no run's.                *)
ASSUME WindowAssumption ==
  None \notin Win \cup Page \cup Run /\ Closer \notin Run \cup {None}

VARIABLES
  part,
  context, cdp, profile, pw, spare, tabs, tabLock, timer, up, shownIn, opener, at, own, heard,
  fired, dying, early, stranded, failed, user

window ==
  <<context, cdp, profile, pw, spare, tabs, tabLock, timer, up, shownIn, opener, at, own, heard,
    fired, dying, early, stranded, failed, user>>

Window == INSTANCE ApplierWindow WITH lock <- tabLock, faults <- failed, MaxFaults <- MaxFailures

PartsInit == part \in {"broker", "window"} /\ Init /\ Window!Init

PartsNext ==
  \/ part = "broker" /\ Next        /\ UNCHANGED <<part, window>>
  \/ part = "window" /\ Window!Next /\ UNCHANGED <<part, vars>>

PartsSpec == PartsInit /\ [][PartsNext]_<<part, vars, window>>

(* Of the surfaces only: the group of all the sets would cost more than it saves. *)
Symmetry ==
  UNION {Permutations(S) : S \in {Surf, Slug, Caller}}

-----------------------------------------------------------------------------
(* A Chrome of the Applier that is up has its profile directory and its        *)
(* Playwright and is the only one, so no run gets a window that an idle close   *)
(* takes apart (_close_if_idle), and no two runs drive one page (open_tab).   *)
WindowIsWhole == Window!TypeOK /\ Window!WindowStandsWhole /\ Window!OneRunPerTab
=============================================================================
