-------------------------------- MODULE MCPage --------------------------------
(* What the page keeps of the sidecar's state, for TLC: the settings it saves  *)
(* (PreferenceBlob), the board's list (BoardFeed) and the panel of the        *)
(* LinkedIn lane (BrowserOpFeed).  They share no state; one run takes one part *)
(* after another: `part` says which, and the others rest.                     *)
EXTENDS PreferenceBlob, TLC

CONSTANTS
  Jobs, PageSize, MaxChanges, MaxSaves, MaxPages,  \* BoardFeed
  Ops, Syncs, Sends, MaxGaps, MaxReads, MaxWire    \* BrowserOpFeed

(* Operations are numbered in the order of their submission, without a gap.   *)
ASSUME PanelAssumption ==
  IsFiniteSet(Ops) /\ Ops = 1 .. Cardinality(Ops) /\ Syncs \subseteq Ops /\ Sends \subseteq Ops

(* _BOARD_PAGE_SIZE is a positive constant.                                   *)
ASSUME BoardAssumption == PageSize \in Nat \ {0}

VARIABLES
  part,
  feed, changes, saves, hint, posted, saving, stored, pages, fetch, disturbed,
  row, unsaid, routed, refused, wire, gaps, missed, overtaken, active, cur, settled, unsent,
  asked, answers, onScreen, sync, seed

board == <<feed, changes, saves, hint, posted, saving, stored, pages, fetch, disturbed>>
panel == <<row, unsaid, routed, refused, wire, gaps, missed, overtaken, active, cur, settled, unsent,
           asked, answers, onScreen, sync, seed>>

Board == INSTANCE BoardFeed
Panel == INSTANCE BrowserOpFeed

(* Three saves of the page: the cap, a toggle kept in ui_state, and both.      *)
PatchOf == 1 :> {"cap"} @@ 2 :> {"toggle"} @@ 3 :> {"cap", "toggle"}
InThresholds == {"cap", "stats", "brave"}

PageInit ==
  /\ part \in {"settings", "board", "panel"}
  /\ Init /\ Board!Init /\ Panel!Init
  /\ part # "board" => feed = <<>>
  /\ part # "panel" => row = [o \in Ops |-> "absent"]

PageNext ==
  \/ part = "settings" /\ Next        /\ UNCHANGED <<part, board, panel>>
  \/ part = "board"    /\ Board!Next  /\ UNCHANGED <<part, vars, panel>>
  \/ part = "panel"    /\ Panel!Next  /\ UNCHANGED <<part, vars, board>>

PageSpec == PageInit /\ [][PageNext]_<<part, vars, board, panel>>

-----------------------------------------------------------------------------
(* When nothing is under way the board is the top of the feed, complete and   *)
(* in its order, but for the three ways BoardFeed names (useBoard).          *)
ListIsFeed == Board!ListIsFeed

(* The panel and the Sync button tell of the lane what is so, as long as no    *)
(* event was lost or overtaken: nothing that ended keeps them busy, nothing   *)
(* that works is missing, and no refused send is shown as sent (useBrowserOps, *)
(* useContactSyncInFlight).                                                  *)
PanelIsTrue == Panel!BusyIsTrue /\ Panel!LaneIsListed /\ Panel!DoneMeansSent
=============================================================================
