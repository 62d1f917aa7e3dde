----------------------------- MODULE ApplierWindow -----------------------------
(* The Applier's window (app/registry/applier_window.py): one Chrome window    *)
(* shared by every apply run, each in its own tab, on one asyncio loop.  What  *)
(* lies between two awaits is one action.  Runs are slots: a run that ended    *)
(* leaves its slot to the next.  A window and a page are taken again once      *)
(* nothing refers to them.                                                     *)
EXTENDS FiniteSets, Integers

CONSTANTS Run, Page, Win, None,
  Closer,     \* the holder of the tab lock when it is no run
  MaxFaults,  \* bound: failed launches, sessions and tabs
  MaxUser,    \* bound: tabs and windows the user closes, tabs a site opens
  MaxFired    \* bound: idle closes that wait for the lock at once

VARIABLES
  context,  \* _context
  cdp,      \* _cdp is set
  profile,  \* _profile: the window whose directory it is
  pw,       \* _pw is set
  spare,    \* _spare
  tabs,     \* _tabs
  lock,     \* _lock
  timer,    \* _close_timer is set
  up,       \* the windows whose Chrome is up
  shownIn,  \* the window an open page is in
  opener,   \* history: who opened a page, the app or a site
  at,       \* where a run's open_tab or close_tab stands
  own,      \* the page a run is opening, or done with
  heard,    \* the next `page` event a run waits for has come
  fired,    \* _close_if_idle tasks that wait for the lock
  dying,    \* the window _close_window is closing
  early,    \* history: a tab was done with since the timer was set
  stranded, \* history: an open_tab failed since the timer was set
  faults, user

win   == <<context, cdp, profile, pw, dying>>
pages == <<up, shownIn, opener>>
runs  == <<at, own, heard>>
past  == <<early, stranded>>
vars  == <<context, cdp, profile, pw, spare, tabs, lock, timer, up, shownIn, opener, at, own, heard,
           fired, dying, early, stranded, faults, user>>

Stages == {"away", "asking", "launching", "attaching", "paging", "tab", "blanking", "leaving", "last"}

TypeOK ==
  /\ context \in Win \cup {None} /\ profile \in Win \cup {None} /\ dying \in Win \cup {None}
  /\ {cdp, pw, timer, early, stranded} \subseteq BOOLEAN
  /\ spare \in Page \cup {None}
  /\ tabs \in [Run -> Page \cup {None}]
  /\ lock \in Run \cup {Closer, None}
  /\ up \subseteq Win
  /\ shownIn \in [Page -> Win \cup {None}]
  /\ opener \in [Page -> {"app", "site"}]
  /\ at \in [Run -> Stages]
  /\ own \in [Run -> Page \cup {None}] /\ heard \in [Run -> Page \cup {None}]
  /\ {fired, faults, user} \subseteq Nat
  /\ \A r \in Run : lock = r <=> at[r] \in {"launching", "attaching", "paging"}

Init ==
  /\ context = None /\ profile = None /\ dying = None /\ spare = None /\ lock = None
  /\ cdp = FALSE /\ pw = FALSE /\ timer = FALSE /\ early = FALSE /\ stranded = FALSE
  /\ up = {} /\ fired = 0 /\ faults = 0 /\ user = 0
  /\ shownIn = [p \in Page |-> None] /\ opener = [p \in Page |-> "app"]
  /\ at = [r \in Run |-> "away"] /\ tabs = [r \in Run |-> None]
  /\ own = [r \in Run |-> None] /\ heard = [r \in Run |-> None]

-----------------------------------------------------------------------------
Fault == faults < MaxFaults /\ faults' = faults + 1
User  == user < MaxUser /\ user' = user + 1

Closed(p) == shownIn[p] = None

FreshPage(p) ==
  Closed(p) /\ p # spare /\ \A r \in Run : p \notin {tabs[r], own[r], heard[r]}
FreshWin(w) == w \notin up /\ w \notin {context, profile, dying}

NoTabs == \A r \in Run : tabs[r] = None

(* A page opens in w; a run that waits for the next page of it takes notice. *)
PageOpens(p, w, by) ==
  /\ FreshPage(p)
  /\ shownIn' = [shownIn EXCEPT ![p] = w]
  /\ opener' = [opener EXCEPT ![p] = by]
  /\ heard' = [r \in Run |-> IF at[r] = "paging" /\ heard[r] = None THEN p ELSE heard[r]]

WindowGone(w) ==
  /\ up' = up \ {w}
  /\ shownIn' = [p \in Page |-> IF shownIn[p] = w THEN None ELSE shownIn[p]]

-----------------------------------------------------------------------------
(* open_tab, and _launch                                                     *)

Ask(r) ==
  /\ at[r] = "away"
  /\ at' = [at EXCEPT ![r] = "asking"]
  /\ UNCHANGED <<win, pages, past, spare, tabs, lock, timer, own, heard, fired, faults, user>>

(* The page goes to the run, and the lock to the next.                       *)
Hand(r, p) ==
  /\ tabs' = [tabs EXCEPT ![r] = p]
  /\ at' = [at EXCEPT ![r] = "tab"]
  /\ own' = [own EXCEPT ![r] = None] /\ heard' = [heard EXCEPT ![r] = None]
  /\ lock' = None

HandSpare(r, p) == Hand(r, p) /\ spare' = None

ExpectPage(r, kept) ==
  /\ at' = [at EXCEPT ![r] = "paging"]
  /\ lock' = r
  /\ spare' = kept
  /\ UNCHANGED <<tabs, own, heard>>

Enter(r) ==
  /\ at[r] = "asking" /\ lock = None
  /\ timer' = FALSE
  /\ IF context = None
     THEN /\ \E w \in Win : FreshWin(w) /\ profile' = w
          /\ pw' = TRUE
          /\ at' = [at EXCEPT ![r] = "launching"]
          /\ lock' = r
          /\ UNCHANGED <<tabs, spare, own, heard>>
     ELSE /\ IF spare # None /\ ~Closed(spare) THEN HandSpare(r, spare) ELSE ExpectPage(r, spare)
          /\ UNCHANGED <<pw, profile>>
  /\ UNCHANGED <<context, cdp, dying, pages, past, fired, faults, user>>

(* Nobody sets the timer again for a run that got no tab.                    *)
Fails(r) ==
  /\ at' = [at EXCEPT ![r] = "away"]
  /\ own' = [own EXCEPT ![r] = None] /\ heard' = [heard EXCEPT ![r] = None]
  /\ lock' = None
  /\ stranded' = TRUE

LaunchFails(r) ==
  /\ at[r] = "launching" /\ Fault
  /\ Fails(r)
  /\ profile' = None
  /\ UNCHANGED <<context, cdp, pw, dying, pages, early, spare, tabs, timer, fired, user>>

Launched(r) ==
  /\ at[r] = "launching"
  /\ up' = up \cup {profile}
  /\ context' = profile
  /\ \E p \in Page : PageOpens(p, profile, "app")
  /\ at' = [at EXCEPT ![r] = "attaching"]
  /\ UNCHANGED <<cdp, profile, pw, dying, past, spare, tabs, lock, timer, own, fired, faults, user>>

Attached(r) ==
  /\ at[r] = "attaching" /\ profile \in up
  /\ cdp' = TRUE
  /\ \/ \E p \in Page : shownIn[p] = profile /\ HandSpare(r, p)
     \/ /\ \A p \in Page : shownIn[p] # profile
        /\ ExpectPage(r, None)
  /\ UNCHANGED <<context, profile, pw, dying, pages, past, timer, fired, faults, user>>

AttachFails(r) ==
  /\ at[r] = "attaching"
  /\ IF profile \in up THEN Fault ELSE UNCHANGED faults
  /\ Fails(r)
  /\ UNCHANGED <<win, pages, early, spare, tabs, timer, fired, user>>

(* Target.createTarget has opened a page for the run.                        *)
TargetOpens(r) ==
  /\ at[r] = "paging" /\ own[r] = None
  /\ cdp /\ context \in up
  /\ \E p \in Page : PageOpens(p, context, "app") /\ own' = [own EXCEPT ![r] = p]
  /\ UNCHANGED <<win, up, past, spare, tabs, lock, timer, at, fired, faults, user>>

(* The run's page is the one of the next event, whoever opened it.           *)
Paged(r) ==
  /\ at[r] = "paging" /\ own[r] # None /\ heard[r] # None
  /\ Hand(r, heard[r])
  /\ UNCHANGED <<win, pages, past, spare, timer, fired, faults, user>>

(* No browser session, or no window any more; or the wait for the page ends. *)
PageFails(r) ==
  /\ at[r] = "paging"
  /\ IF cdp /\ context \in up THEN Fault ELSE UNCHANGED faults
  /\ Fails(r)
  /\ UNCHANGED <<win, pages, early, spare, tabs, timer, fired, user>>

-----------------------------------------------------------------------------
(* close_tab                                                                 *)

OthersHaveTabs(r) == \E q \in Run \ {r} : tabs[q] # None

(* Mutant: the grace begins only when there is a tab to keep.                *)
SetTimerForSpare(kept) ==
  IF context # None /\ ~timer /\ kept # None
  THEN timer' = TRUE /\ early' = FALSE /\ stranded' = FALSE
  ELSE early' = TRUE /\ UNCHANGED <<timer, stranded>>

(* The end of close_tab for the last tab: the grace begins, unless the timer  *)
(* is already set.                                                           *)
SetTimer(kept) ==
  IF context # None /\ ~timer
  THEN timer' = TRUE /\ early' = FALSE /\ stranded' = FALSE
  ELSE early' = TRUE /\ UNCHANGED <<timer, stranded>>

Back(r) == at' = [at EXCEPT ![r] = "away"] /\ own' = [own EXCEPT ![r] = None]

(* A run ends many turns of the loop after it got its tab: an idle close that *)
(* can have the lock has run by then.                                        *)
Done(r) ==
  /\ at[r] = "tab" /\ (fired = 0 \/ lock # None)
  /\ tabs' = [tabs EXCEPT ![r] = None]
  /\ IF Closed(tabs[r])
     THEN /\ Back(r)
          /\ IF OthersHaveTabs(r) THEN early' = TRUE /\ UNCHANGED <<timer, stranded>>
             ELSE SetTimer(spare)
     ELSE /\ own' = [own EXCEPT ![r] = tabs[r]]
          /\ at' = [at EXCEPT ![r] = IF OthersHaveTabs(r) THEN "leaving"
                                     ELSE IF spare = None THEN "blanking" ELSE "last"]
          /\ early' = TRUE
          /\ UNCHANGED <<timer, stranded>>
  /\ UNCHANGED <<win, pages, spare, lock, heard, fired, faults, user>>

(* The tab is blank, and becomes the spare one; not if it was closed under   *)
(* the navigation.                                                           *)
Blanked(r) ==
  /\ at[r] = "blanking"
  /\ spare' = own[r] \/ (Closed(own[r]) /\ UNCHANGED spare)
  /\ SetTimer(spare')
  /\ Back(r)
  /\ UNCHANGED <<win, pages, tabs, lock, heard, fired, faults, user>>

PageClosed(r) ==
  /\ at[r] \in {"leaving", "last"}
  /\ shownIn' = [shownIn EXCEPT ![own[r]] = None]
  /\ IF at[r] = "last" THEN SetTimer(spare) ELSE UNCHANGED <<timer, early, stranded>>
  /\ Back(r)
  /\ UNCHANGED <<win, up, opener, spare, tabs, lock, heard, fired, faults, user>>

-----------------------------------------------------------------------------
(* _close_if_idle, and _close_window                                         *)

Fire ==
  /\ timer /\ fired < MaxFired
  /\ timer' = FALSE /\ fired' = fired + 1
  /\ UNCHANGED <<win, pages, runs, past, spare, tabs, lock, faults, user>>

(* Mutant: the idle close does not take the tab lock.                        *)
LockForCloseNot == UNCHANGED lock

LockForClose == lock = None /\ lock' = Closer

(* Under the tab lock, so that no run starts in between.                     *)
CloseIfIdle ==
  /\ fired > 0 /\ dying = None
  /\ fired' = fired - 1
  /\ \/ /\ NoTabs /\ {context, profile} # {None}
        /\ LockForClose
        /\ dying' = IF context = None THEN profile ELSE context
        /\ context' = None /\ cdp' = FALSE /\ spare' = None
        /\ UNCHANGED <<profile, pw>>
     \/ /\ NoTabs /\ {context, profile} = {None} /\ lock = None
        /\ cdp' = FALSE /\ spare' = None /\ pw' = FALSE
        /\ UNCHANGED <<context, profile, dying, lock>>
     \/ ~NoTabs /\ lock = None /\ UNCHANGED <<win, spare, lock>>
  /\ UNCHANGED <<pages, runs, past, tabs, timer, faults, user>>

(* Chrome has closed, and the directory and Playwright go.                   *)
CloseDone ==
  /\ dying # None
  /\ WindowGone(dying)
  /\ dying' = None /\ profile' = None /\ pw' = FALSE
  /\ lock' = IF lock = Closer THEN None ELSE lock
  /\ UNCHANGED <<context, cdp, opener, runs, past, spare, tabs, timer, fired, faults, user>>

-----------------------------------------------------------------------------
(* The window is the user's too, and a form may open pages of its own.       *)

SiteOpens(w) ==
  /\ w \in up /\ User
  /\ \E r \in Run : tabs[r] # None /\ shownIn[tabs[r]] = w
  /\ \E p \in Page : PageOpens(p, w, "site")
  /\ UNCHANGED <<win, up, past, spare, tabs, lock, timer, at, own, fired, faults>>

ClosesTab(p) ==
  /\ ~Closed(p) /\ User
  /\ shownIn' = [shownIn EXCEPT ![p] = None]
  /\ UNCHANGED <<win, up, opener, runs, past, spare, tabs, lock, timer, fired, faults>>

Quits(w) ==
  /\ w \in up /\ w # dying /\ User
  /\ WindowGone(w)
  /\ UNCHANGED <<win, opener, runs, past, spare, tabs, lock, timer, fired, faults>>

(* _forget_context, the event that tells the loop.                           *)
Forget ==
  /\ context # None /\ context \notin up
  /\ context' = None /\ cdp' = FALSE /\ spare' = None
  /\ UNCHANGED <<profile, pw, dying, pages, runs, past, tabs, lock, timer, fired, faults, user>>

Opening(r) == Enter(r) \/ LaunchFails(r) \/ Launched(r) \/ Attached(r) \/ AttachFails(r)
              \/ TargetOpens(r) \/ Paged(r) \/ PageFails(r)
Ending(r) == Blanked(r) \/ PageClosed(r)

Next ==
  \/ \E r \in Run : Ask(r) \/ Opening(r) \/ Done(r) \/ Ending(r)
  \/ Fire \/ CloseIfIdle \/ CloseDone \/ Forget
  \/ \E w \in Win : SiteOpens(w) \/ Quits(w)
  \/ \E p \in Page : ClosesTab(p)

Spec == Init /\ [][Next]_vars

(* The loop runs, Chrome answers or the call fails, timers fire.  Runs need   *)
(* not come, nor end.                                                        *)
Fairness ==
  /\ \A r \in Run : WF_vars(Opening(r)) /\ WF_vars(Ending(r))
  /\ WF_vars(Fire) /\ WF_vars(CloseIfIdle) /\ WF_vars(CloseDone) /\ WF_vars(Forget)

FairSpec == Spec /\ Fairness

-----------------------------------------------------------------------------
(* A Chrome that is up has its profile directory and its Playwright, and it   *)
(* is the only one: a run that starts while the idle close is under way never *)
(* gets a window that close then takes apart (_close_if_idle).               *)
WindowStandsWhole == up \subseteq {profile} /\ (up # {} => pw)

(* No two runs drive one page, and the tab kept for the next run is nobody's. *)
OneRunPerTab ==
  \A r \in Run : tabs[r] # None /\ ~Closed(tabs[r]) =>
    tabs[r] # spare /\ \A q \in Run \ {r} : tabs[q] # tabs[r]

Idle == context # None /\ NoTabs /\ \A r \in Run : at[r] \notin {"asking", "launching", "attaching", "paging"}

(* A window without a tab closes, or a run takes it, except after a run that  *)
(* could not open its tab (CLOSE_GRACE_S).                                   *)
IdleWindowCloses == Idle /\ ~stranded ~> ~Idle

(* The same without the exception.                                           *)
EveryIdleWindowCloses == Idle ~> ~Idle

(* The window stays the whole grace after the last run's tab.                *)
GraceIsWhole == [][dying = None /\ dying' # None /\ context # None => ~early]_vars

(* A run's tab is a page the app opened (open_tab).                          *)
TabIsOwn == \A r \in Run : tabs[r] # None /\ ~Closed(tabs[r]) => opener[tabs[r]] = "app"
=============================================================================
