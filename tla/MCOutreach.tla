------------------------------ MODULE MCOutreach ------------------------------
(* The three parts of outreach, for TLC.  They keep their state apart - the    *)
(* ledger file, the operations and their log, the contacts' rows - and one run *)
(* takes one part after another: `part` says which, and the others rest.       *)
EXTENDS Integers, Sequences

CONSTANTS
  Sent, SendCap, ViewCap, Page, MaxProbes, MaxQueue, MaxDue,  \* PacingLedger
  Contacts, Threads, MaxClicks,                               \* ReachOut
  Card,                                                       \* ContactSync: its contacts
  c1, c2, t1, t2

(* There are invites and direct messages, a page of discovery is not empty,    *)
(* no contact is the value that stands for nobody, and bounds are numbers.     *)
ASSUME OutreachAssumption ==
  /\ Sent \subseteq {"invites", "dms"}
  /\ {SendCap, ViewCap, MaxProbes, MaxQueue, MaxDue, MaxClicks} \subseteq Nat
  /\ Page \in Nat \ {0}
  /\ "null" \notin Card

VARIABLES
  part,
  disk, op, queue, clicked, astray, throttled, due, deserted,
  request, sends, lane, log, tried, card, clicks,
  row, link, sweep, sending, mover, held, quiet

pacing == <<disk, op, queue, clicked, astray, throttled, due, deserted>>
reach  == <<request, sends, lane, log, tried, card, clicks>>
board  == <<row, link, sweep, sending, mover, held, quiet>>

Pacing == INSTANCE PacingLedger
Reach  == INSTANCE ReachOut
Board  == INSTANCE ContactSync WITH Contacts <- Card

OutreachInit ==
  part \in {"pacing", "reach", "board"} /\ Pacing!Init /\ Reach!Init /\ Board!Init

OutreachNext ==
  \/ part = "pacing" /\ Pacing!Next /\ UNCHANGED <<part, reach, board>>
  \/ part = "reach"  /\ Reach!Next  /\ UNCHANGED <<part, pacing, board>>
  \/ part = "board"  /\ Board!Next  /\ UNCHANGED <<part, pacing, reach>>

OutreachSpec == OutreachInit /\ [][OutreachNext]_<<part, pacing, reach, board>>

-----------------------------------------------------------------------------
(* The ledger file and what happens on LinkedIn agree (pacing.py): every      *)
(* message but one answered as not sent is charged, reads overshoot their cap *)
(* by one window at most, and when all is over a throttle is a pause and a    *)
(* sweep's reads are paid for.                                               *)
LedgerIsTrue ==
  /\ Pacing!TypeOK
  /\ Pacing!SendsCharged /\ Pacing!ReadOvershootBounded
  /\ Pacing!ThrottleEntersBackoff /\ Pacing!SweepReadsCharged

(* A pause on the ledger goes away by the user's resume alone, never by the   *)
(* save of an operation that loaded the ledger before it (save).             *)
PauseOutlivesOthers == Pacing!PauseOutlivesOthers

(* A contact has two sends under way by overlapping requests alone            *)
(* (reach_out), and the card moves when the last send of a logged batch is    *)
(* over (_maybe_move_on_batch_settle).                                       *)
BatchIsAccounted == Reach!TypeOK /\ Reach!OnlyOverlapDoubles /\ Reach!LoggedBatchMoves

(* A sweep shows the reply it read, takes nobody who wrote back for one who    *)
(* never did, and leaves the cards alone that the user had moved before it    *)
(* (contact_sync_entrypoint).                                                *)
BoardKept == Board!ReplyIsSeen /\ Board!AnsweredNotDemoted /\ Board!HeldStands
=============================================================================
