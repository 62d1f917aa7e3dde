------------------------------- MODULE ContactSync -------------------------------
(* The contact board (app/registry/contact_sync_op.py, networker_ops.py,       *)
(* app/api/networking.py): the sweep that reads LinkedIn and moves contacts    *)
(* between columns, the user who drags them, and the send that moves the one   *)
(* it went to.  Every session of the database is a step; the sweep decides     *)
(* from what it read before its probes and writes after them.                  *)
CONSTANT Contacts

Synced  == {"sent", "accepted", "ours", "theirs"}  \* ours, theirs: pending_our_response, pending_their_response
Engaged == {"ours", "theirs"}
Column  == Synced \cup {"ghosted", "converted"}
Status  == Column \cup {"candidate"}

VARIABLES
  row,      \* per contact: its column, a manual stamp within the cooldown, first_replied_at,
            \* is_first_degree, whether its urn is cached
  link,     \* LinkedIn: whether they are connected, whose message is the last
  sweep,    \* the running sweep: partitioned or applying, its eligible rows, inbox and answers
  sending,  \* the send on its lane: to whom, as a DM or an invite, and whether it went out
  mover,    \* history: who moved the contact last
  held,     \* history: contacts frozen since before the sweep
  quiet     \* history: contacts nothing happened to since the sweep read their row

vars == <<row, link, sweep, sending, mover, held, quiet>>

Null   == "null"
Unread == <<>>
Resting == [pc |-> "idle", snap |-> <<>>, inbox |-> Unread, answer |-> <<>>]
Unsent == [to |-> Null, dm |-> FALSE, out |-> FALSE]

TypeOK ==
  /\ row \in [Contacts -> [status : Status, manual : BOOLEAN, replied : BOOLEAN, first : BOOLEAN, urn : BOOLEAN]]
  /\ link \in [Contacts -> [degree : BOOLEAN, last : {"none", "me", "them"}]]
  /\ sweep.pc \in {"idle", "probing", "applying"}
  /\ DOMAIN sweep.snap \subseteq Contacts /\ DOMAIN sweep.answer \subseteq DOMAIN sweep.snap
  /\ \A c \in DOMAIN sweep.snap :
       sweep.snap[c].status \in Synced /\ (sweep.snap[c].show => sweep.snap[c].thread)
  /\ sending.to \in Contacts \cup {Null} /\ sending.dm \in BOOLEAN /\ sending.out \in BOOLEAN
  /\ mover \in [Contacts -> {"user", "sync", "send", "none"}]
  /\ held \subseteq Contacts /\ quiet \subseteq Contacts

Init ==
  /\ row = [c \in Contacts |-> [status |-> "candidate", manual |-> FALSE, replied |-> FALSE, first |-> FALSE, urn |-> FALSE]]
  /\ link = [c \in Contacts |-> [degree |-> FALSE, last |-> "none"]]
  /\ sweep = Resting /\ sending = Unsent
  /\ mover = [c \in Contacts |-> "none"] /\ held = {} /\ quiet = {}

-----------------------------------------------------------------------------
(* decide_transition                                                         *)

(* Mutant: a pending card ages before its thread is read.                    *)
AgedFirst(now, first, last, replied, aged) ==
  CASE now = "sent" /\ first ->
         IF last = "them" THEN "ours" ELSE IF replied THEN "theirs" ELSE "accepted"
    [] now = "sent" /\ ~first -> IF aged THEN "ghosted" ELSE now
    [] now = "accepted" ->
         IF last = "them" THEN "ours" ELSE IF replied THEN "theirs" ELSE IF aged THEN "ghosted" ELSE now
    [] now = "ours" -> IF last = "me" THEN "theirs" ELSE now
    [] OTHER -> IF aged THEN "ghosted" ELSE IF last = "them" THEN "ours" ELSE now

Decided(now, first, last, replied, aged) ==
  CASE now = "sent" /\ first ->
         IF last = "them" THEN "ours" ELSE IF replied THEN "theirs" ELSE "accepted"
    [] now = "sent" /\ ~first -> IF aged THEN "ghosted" ELSE now
    [] now = "accepted" ->
         IF last = "them" THEN "ours" ELSE IF replied THEN "theirs" ELSE IF aged THEN "ghosted" ELSE now
    [] now = "ours" -> IF last = "me" THEN "theirs" ELSE now
    [] OTHER -> IF last = "them" THEN "ours" ELSE IF aged THEN "ghosted" ELSE now

-----------------------------------------------------------------------------
(* contact_sync_entrypoint                                                   *)

ThreadOnly(r) == r.urn /\ r.status \in {"accepted"} \cup Engaged

DisplayOnly(r) == r.manual

(* A frozen row that would cost a profile read is passed over.               *)
Eligible(r) == r.status \in Synced /\ (r.manual => ThreadOnly(r))

Partition ==
  /\ sweep.pc = "idle"
  /\ LET batch == {c \in Contacts : Eligible(row[c])} IN
       /\ batch # {}
       /\ sweep' = [pc |-> "probing", inbox |-> Unread, answer |-> <<>>,
                    snap |-> [c \in batch |-> [status |-> row[c].status, replied |-> row[c].replied,
                                               thread |-> ThreadOnly(row[c]), show |-> DisplayOnly(row[c])]]]
  /\ held' = {c \in Contacts : row[c].manual} /\ quiet' = Contacts
  /\ UNCHANGED <<row, link, sending, mover>>

Unprobed == DOMAIN sweep.snap \ DOMAIN sweep.answer

(* One probe, the thread-only ones first.  A full probe reads the profile,    *)
(* which may name no urn, and without one the inbox is not asked.  The inbox  *)
(* is kept by the first read that succeeds, and a thread that could not be    *)
(* read is as one that is not there.                                         *)
Probe(c) ==
  /\ sweep.pc = "probing" /\ c \in Unprobed
  /\ sweep.snap[c].thread \/ \A d \in Unprobed : ~sweep.snap[d].thread
  /\ LET box == IF sweep.inbox = Unread THEN [d \in Contacts |-> link[d].last] ELSE sweep.inbox
     IN \E ok, urn, read \in BOOLEAN, last \in {box[c], "none"} :
          /\ (sweep.snap[c].thread => urn) /\ (read => urn) /\ (~read => last = "none")
          /\ sweep' = [sweep EXCEPT !.inbox = IF read THEN box ELSE @,
                                    !.answer = [d \in DOMAIN @ \cup {c} |->
                                      IF d = c THEN [ok |-> ok, urn |-> urn, last |-> last, degree |-> link[c].degree]
                                      ELSE @[d]]]
  /\ UNCHANGED <<row, link, sending, mover, held, quiet>>

(* Every row has its answer, or a refusal stopped the sweep: the unprobed     *)
(* tail is left alone.                                                       *)
Probed ==
  /\ sweep.pc = "probing"
  /\ sweep' = [sweep EXCEPT !.pc = "applying", !.snap = [c \in DOMAIN sweep.answer |-> sweep.snap[c]]]
  /\ UNCHANGED <<row, link, sending, mover, held, quiet>>

(* The row is read again and written; the decision is of the partition's.     *)
Apply(c) ==
  /\ sweep.pc = "applying" /\ c \in DOMAIN sweep.snap
  /\ LET s == sweep.snap[c]
         a == sweep.answer[c]
         rest == DOMAIN sweep.snap \ {c}
     IN
       /\ \E aged \in BOOLEAN :
            LET to == IF s.show THEN s.status ELSE Decided(s.status, ~s.thread /\ a.degree, a.last, s.replied, aged)
                moved == a.ok /\ to # s.status
            IN /\ row' = [row EXCEPT ![c] =
                    IF ~a.ok THEN @
                    ELSE [status  |-> IF moved THEN to ELSE @.status,
                          manual  |-> IF moved THEN FALSE ELSE @.manual,
                          replied |-> @.replied \/ (moved /\ to = "ours"),
                          first   |-> IF s.thread THEN @.first ELSE a.degree,
                          urn     |-> @.urn \/ a.urn]]
               /\ mover' = IF moved THEN [mover EXCEPT ![c] = "sync"] ELSE mover
       /\ sweep' = IF rest = {} THEN Resting
                   ELSE [sweep EXCEPT !.snap = [d \in rest |-> sweep.snap[d]], !.answer = [d \in rest |-> sweep.answer[d]]]
  /\ UNCHANGED <<link, sending, held, quiet>>

Stopped ==
  /\ sweep.pc = "applying" /\ DOMAIN sweep.snap = {}
  /\ sweep' = Resting
  /\ UNCHANGED <<row, link, sending, mover, held, quiet>>

-----------------------------------------------------------------------------
(* update_contact: a drag, with its stamp.                                   *)
Drag(c, to) ==
  /\ row[c].status \notin {"candidate", to}
  /\ row' = [row EXCEPT ![c].status = to, ![c].manual = TRUE]
  /\ mover' = [mover EXCEPT ![c] = "user"] /\ quiet' = quiet \ {c}
  /\ UNCHANGED <<link, sweep, sending, held>>

(* MANUAL_OVERRIDE_COOLDOWN_DAYS are over.                                   *)
Cooled(c) ==
  /\ row[c].manual
  /\ row' = [row EXCEPT ![c].manual = FALSE]
  /\ held' = held \ {c} /\ quiet' = quiet \ {c}
  /\ UNCHANGED <<link, sweep, sending, mover>>

(* send_entrypoint: the channel is chosen from the row, the browser drives it, *)
(* and the row is written by what it then holds.                             *)
Send(c) ==
  /\ sending = Unsent
  /\ sending' = [to |-> c, dm |-> row[c].first, out |-> FALSE]
  /\ UNCHANGED <<row, link, sweep, mover, held, quiet>>

Goes ==
  /\ sending # Unsent /\ ~sending.out
  /\ \/ /\ sending' = [sending EXCEPT !.out = TRUE]
        /\ link' = IF sending.dm THEN [link EXCEPT ![sending.to].last = "me"] ELSE link
        /\ quiet' = quiet \ {sending.to}
     \/ sending' = Unsent /\ UNCHANGED <<link, quiet>>
  /\ UNCHANGED <<row, sweep, mover, held>>

AfterDm(r) == IF r.replied \/ r.status \in Engaged THEN "theirs" ELSE "accepted"

SendEnds ==
  /\ sending.out
  /\ LET c == sending.to IN
       /\ row' = [row EXCEPT ![c].status = IF sending.dm THEN AfterDm(row[c]) ELSE "sent"]
       /\ mover' = [mover EXCEPT ![c] = "send"] /\ quiet' = quiet \ {c}
  /\ sending' = Unsent
  /\ UNCHANGED <<link, sweep, held>>

(* The other side of LinkedIn, and the user's own hand there.                *)
Outside(c) ==
  /\ \/ ~link[c].degree /\ link' = [link EXCEPT ![c].degree = TRUE]
     \/ link[c].degree /\ \E who \in {"me", "them"} : link[c].last # who /\ link' = [link EXCEPT ![c].last = who]
  /\ quiet' = quiet \ {c}
  /\ UNCHANGED <<row, sweep, sending, mover, held>>

Next ==
  \/ Partition \/ Probed \/ Stopped
  \/ \E c \in Contacts : Probe(c) \/ Apply(c)
  \/ \E c \in Contacts, to \in Column : Drag(c, to)
  \/ \E c \in Contacts : Cooled(c) \/ Send(c) \/ Outside(c)
  \/ Goes \/ SendEnds

Spec == Init /\ [][Next]_vars

-----------------------------------------------------------------------------
(* Properties                                                                *)

(* c's row has just been written from a probe that answered.                 *)
Written(c) ==
  /\ sweep.pc = "applying" /\ c \in DOMAIN sweep.snap /\ c \notin DOMAIN sweep'.snap
  /\ sweep.answer[c].ok /\ ~sweep.snap[c].show

Read(c) == sweep.answer[c].last # "none"

(* A sweep that nothing crossed and that read the thread leaves a contact who *)
(* wrote last in the column that asks for our answer, and one we answered     *)
(* last out of it.                                                           *)
ReplyIsSeen ==
  [][\A c \in quiet : Written(c) /\ Read(c) =>
       /\ link[c].last = "them" => row'[c].status = "ours"
       /\ link[c].last = "me" => row'[c].status # "ours"]_vars

(* A thread that could not be read moves nobody to "ghosted", the column that *)
(* no later sweep looks at.                                                  *)
UnreadNeverGhosts ==
  [][\A c \in quiet : Written(c) /\ ~Read(c) /\ link[c].last # "none" => row'[c].status # "ghosted"]_vars

(* Only the user brings a contact who has written back to "accepted", the     *)
(* column of those who never did: no sweep does and no send does.            *)
AnsweredNotDemoted ==
  [][\A c \in Contacts :
       row[c].replied /\ row[c].status # "accepted" /\ row'[c].status = "accepted" => mover'[c] = "user"]_vars

(* A drag that was there when the sweep began stands until its cooldown ends. *)
HeldStands ==
  [][\A c \in held : row[c].manual /\ row'[c].status # row[c].status => mover'[c] # "sync"]_vars

(* So does one made while the sweep is running.                              *)
ManualWins ==
  [][\A c \in Contacts : row[c].manual /\ row'[c].status # row[c].status => mover'[c] # "sync"]_vars

(* A frozen contact was moved last by the user.                              *)
FrozenByHand == \A c \in Contacts : row[c].manual => mover[c] = "user"
=============================================================================
