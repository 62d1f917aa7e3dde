------------------------- MODULE PreferenceBlobProofs -------------------------
(* That no writer of the preference row loses another's field unless it wrote *)
(* back a column it had read too early, and that the runner ends up with the  *)
(* saved cap unless a handler was overtaken: for any number of saves, scores, *)
(* scans and restarts and any split of the keys.  And that the LinkedIn panel *)
(* tells what the lane does, for any number of operations and outages, and     *)
(* that the board's list is the top of the feed, for any feed and page size.  *)
EXTENDS MCPage, SequenceTheorems, FiniteSetTheorems, WellFoundedInduction, TLAPS

Values == [Keys -> Nat]
SaveType == [at : {"unmade", "read", "committed", "done"}, read : Values, before : SUBSET Saves]
ScanType == [at : {"idle", "read"}, read : Values]

TypeOK ==
  /\ col \in Values /\ want \in Values
  /\ limit \in Nat
  /\ save \in [Saves -> SaveType]
  /\ scan \in ScanType
  /\ {scores, scans, restarts} \subseteq Nat
  /\ stale \in BOOLEAN /\ adrift \in BOOLEAN

(* The keys the page owns.                                                  *)
PageKeys == Keys \ Counters

(* The page makes its saves in order.                                       *)
MadeInOrder == \A n, m \in Saves : save[n].at = "unmade" /\ n < m => save[m].at = "unmade"

(* What is in the columns, or was read from them, is of saves already made.  *)
FromMade ==
  \A n \in Saves : save[n].at = "unmade" =>
    \A k \in PageKeys : /\ col[k] < n /\ scan.read[k] < n
                        /\ \A m \in Saves : save[m].read[k] < n

(* So a save is newer than what it read of the keys it sets.                *)
ReadOlder ==
  \A n \in Saves : save[n].at = "read" => \A k \in Patch[n] : save[n].read[k] < n

-----------------------------------------------------------------------------
LEMMA KeyFacts ==
  /\ "stats" \in Keys /\ "brave" \in Keys /\ "cap" \in Keys
  /\ "brave" \in Thresholds
  /\ \A n \in Saves : n \in Nat /\ Patch[n] \subseteq PageKeys
  /\ Thresholds \subseteq Keys
<1>1. \A n \in Saves : n \in Nat /\ Patch[n] \subseteq Keys \ Counters
  BY BlobAssumption
<1>2. "cap" \in Thresholds /\ "stats" \in Thresholds /\ "brave" \in Thresholds
  BY BlobAssumption DEF Counters
<1>3. Thresholds \subseteq Keys
  BY DEF Keys
<1> QED
  BY <1>1, <1>2, <1>3 DEF PageKeys

LEMMA MergedType ==
  ASSUME TypeOK, NEW n \in Saves
  PROVE  /\ Merged(n) \in Values
         /\ \A k \in Keys : /\ k \in Patch[n] => Merged(n)[k] = n
                            /\ k \notin Patch[n] => Merged(n)[k] \in {save[n].read[k], col[k]}
<1>1. save[n].read \in Values /\ col \in Values /\ n \in Nat
  BY KeyFacts DEF TypeOK, SaveType
<1> QED
  BY <1>1 DEF Merged, Values

LEMMA SaveUpdate ==
  ASSUME NEW r \in SaveType, NEW a \in {"unmade", "read", "committed", "done"},
         NEW b \in SUBSET Saves
  PROVE  [r EXCEPT !.at = a, !.before = b] \in SaveType
  BY DEF SaveType

LEMMA TypeStep == TypeOK /\ [Next]_vars => TypeOK'
<1> SUFFICES ASSUME TypeOK, [Next]_vars PROVE TypeOK'
  OBVIOUS
<1> USE DEF counts
<1>1. ASSUME NEW n \in Saves, Get(n) PROVE TypeOK'
  <2>1. save' \in [Saves -> SaveType]
    <3> DEFINE s == [save[n] EXCEPT !.at = "read", !.read = col]
    <3>1. save' = [save EXCEPT ![n] = s]
      BY <1>1 DEF Get
    <3>2. s \in SaveType
      <4>1. save[n] \in SaveType /\ col \in Values
        BY DEF TypeOK
      <4> QED BY <4>1 DEF SaveType
    <3> HIDE DEF s
    <3> QED BY <3>1, <3>2 DEF TypeOK
  <2> QED BY <1>1, <2>1 DEF Get, TypeOK
<1>2. ASSUME NEW n \in Saves, Post(n) PROVE TypeOK'
  <2>1. col' \in Values
    BY <1>2, MergedType DEF Post
  <2>2. want' \in Values
    BY <1>2, KeyFacts DEF Post, TypeOK, Values
  <2>3. save' \in [Saves -> SaveType]
    <3> DEFINE at == IF n \in Capped THEN "committed" ELSE "done"
               s  == [save[n] EXCEPT !.at = at, !.before = Commits]
    <3>1. save' = [save EXCEPT ![n] = s]
      BY <1>2 DEF Post
    <3>2. at \in {"committed", "done"} /\ Commits \in SUBSET Saves
      BY DEF Commits
    <3>3. s \in SaveType
      <4>1. save[n] \in SaveType
        BY DEF TypeOK
      <4> HIDE DEF at
      <4> QED BY <3>2, <4>1, SaveUpdate
    <3> HIDE DEF s
    <3> QED BY <3>1, <3>3 DEF TypeOK
  <2>4. stale' \in BOOLEAN
    BY <1>2 DEF Post
  <2> QED BY <1>2, <2>1, <2>2, <2>3, <2>4 DEF Post, TypeOK
<1>3. ASSUME NEW n \in Saves, Apply(n) PROVE TypeOK'
  <2>1. save[n].read["cap"] \in Nat
    BY KeyFacts DEF TypeOK, SaveType, Values
  <2>2. limit' \in Nat
    BY <1>3, <2>1, KeyFacts DEF Apply, CapOf
  <2>3. save' \in [Saves -> SaveType] /\ adrift' \in BOOLEAN
    BY <1>3 DEF Apply, TypeOK, SaveType
  <2> QED BY <1>3, <2>2, <2>3 DEF Apply, TypeOK
<1>4. CASE Score
  BY <1>4, KeyFacts DEF Score, TypeOK, Values
<1>5. CASE ScanReads
  BY <1>5 DEF ScanReads, TypeOK, ScanType
<1>6. CASE ScanWrites
  <2>1. scan.read \in Values
    BY DEF TypeOK, ScanType
  <2>2. col' \in Values
    BY <1>6, <2>1 DEF ScanWrites, TypeOK, Values
  <2>3. want' \in Values
    BY <1>6, KeyFacts DEF ScanWrites, TypeOK, Values
  <2>4. scan' \in ScanType
    BY <1>6, <2>1 DEF ScanWrites, TypeOK, ScanType
  <2> QED BY <1>6, <2>2, <2>3, <2>4 DEF ScanWrites, TypeOK
<1>7. CASE Restart
  <2>1. limit' \in Nat
    BY <1>7, KeyFacts DEF Restart, TypeOK, Values
  <2>2. save' \in [Saves -> SaveType]
    BY <1>7 DEF Restart, TypeOK, SaveType
  <2>3. scan' \in ScanType
    BY <1>7 DEF Restart, TypeOK, ScanType
  <2>4. {scores, scans, restarts}' \subseteq Nat
    BY <1>7 DEF Restart, TypeOK
  <2>5. UNCHANGED <<col, want, stale>> /\ adrift' = FALSE
    BY <1>7 DEF Restart
  <2> QED BY <2>1, <2>2, <2>3, <2>4, <2>5 DEF TypeOK
<1>8. CASE UNCHANGED vars
  BY <1>8 DEF vars, TypeOK
<1> QED
  BY <1>1, <1>2, <1>3, <1>4, <1>5, <1>6, <1>7, <1>8 DEF Next

LEMMA InitType == Init => TypeOK
<1> SUFFICES ASSUME Init PROVE TypeOK
  OBVIOUS
<1>1. Fresh \in Values
  BY DEF Fresh, Values
<1>2. save \in [Saves -> SaveType] /\ scan \in ScanType
  BY <1>1 DEF Init, SaveType, ScanType
<1>3. col \in Values /\ want \in Values /\ limit \in Nat
  BY <1>1 DEF Init
<1>4. scores \in Nat /\ scans \in Nat /\ restarts \in Nat
  BY DEF Init
<1>5. stale \in BOOLEAN /\ adrift \in BOOLEAN
  BY DEF Init
<1> QED
  BY <1>2, <1>3, <1>4, <1>5 DEF TypeOK

(* Every variable keeps its type, for every set of saves and keys.          *)
THEOREM TypeCorrect == Spec => []TypeOK
<1>1. Init => TypeOK
  BY InitType
<1> QED
  BY <1>1, TypeStep, PTL DEF Spec

-----------------------------------------------------------------------------
(* The order of the page's saves.                                           *)
Ordered == MadeInOrder /\ FromMade /\ ReadOlder

LEMMA OrderedStep == TypeOK /\ Ordered /\ [Next]_vars => Ordered'
<1> SUFFICES ASSUME TypeOK, Ordered, [Next]_vars PROVE Ordered'
  OBVIOUS
<1> USE DEF counts
<1>a. MadeInOrder /\ FromMade /\ ReadOlder
  BY DEF Ordered
<1>b. /\ \A n \in Saves : n \in Nat /\ Patch[n] \subseteq PageKeys
      /\ PageKeys \subseteq Keys
  BY KeyFacts DEF PageKeys
(* Steps that make no save and put nothing newer anywhere.                  *)
<1>1. ASSUME \A n \in Saves : /\ save'[n].read = save[n].read
                              /\ (save'[n].at = "unmade") <=> (save[n].at = "unmade")
                              /\ save'[n].at = "read" => save[n].at = "read",
             \A k \in PageKeys : \/ col'[k] \in {col[k], scan.read[k]}
                                 \/ \E m \in Saves : save[m].at # "unmade" /\ col'[k] \in {m, save[m].read[k]},
             \A k \in PageKeys : scan'.read[k] \in {scan.read[k], col[k]}
      PROVE  Ordered'
  <2>1. MadeInOrder'
    BY <1>a, <1>1 DEF MadeInOrder
  <2>2. ReadOlder'
    BY <1>a, <1>1 DEF ReadOlder
  <2>3. FromMade'
    <3> SUFFICES ASSUME NEW n \in Saves, save[n].at = "unmade", NEW k \in PageKeys
                 PROVE  /\ col'[k] < n /\ scan'.read[k] < n
                        /\ \A m \in Saves : save[m].read[k] < n
      BY <1>1 DEF FromMade
    <3>1. col[k] < n /\ scan.read[k] < n /\ \A m \in Saves : save[m].read[k] < n
      BY <1>a DEF FromMade
    <3>2. ASSUME NEW m \in Saves, save[m].at # "unmade" PROVE m < n
      BY <1>a, <1>b, <3>2 DEF MadeInOrder
    <3> QED BY <1>1, <3>1, <3>2
  <2> QED BY <2>1, <2>2, <2>3 DEF Ordered
<1>2. ASSUME NEW n \in Saves, Get(n) PROVE Ordered'
  <2>1. save[n].at = "unmade" /\ Earlier(n) /\ UNCHANGED <<col, scan>>
    BY <1>2 DEF Get
  <2>2. /\ save'[n].at = "read" /\ save'[n].read = col
        /\ \A m \in Saves \ {n} : save'[m] = save[m]
    BY <1>2 DEF Get, TypeOK, SaveType
  <2>3. MadeInOrder'
    BY <1>a, <1>b, <2>1, <2>2 DEF MadeInOrder, Earlier
  <2>4. FromMade'
    BY <1>a, <2>1, <2>2 DEF FromMade
  <2>5. ReadOlder'
    BY <1>a, <1>b, <2>1, <2>2 DEF ReadOlder, FromMade
  <2> QED BY <2>3, <2>4, <2>5 DEF Ordered
<1>3. ASSUME NEW n \in Saves, Post(n) PROVE Ordered'
  <2>1. /\ save[n].at = "read" /\ UNCHANGED scan
        /\ save'[n].at \in {"committed", "done"} /\ save'[n].read = save[n].read
        /\ \A m \in Saves \ {n} : save'[m] = save[m]
    BY <1>3 DEF Post, TypeOK, SaveType
  <2>2. \A k \in PageKeys : col'[k] \in {n, save[n].read[k], col[k]}
    BY <1>b, <1>3, MergedType DEF Post
  <2> QED BY <1>1, <2>1, <2>2
<1>4. ASSUME NEW n \in Saves, Apply(n) PROVE Ordered'
  <2>1. /\ UNCHANGED <<col, scan>> /\ save[n].at = "committed" /\ save'[n].at = "done"
        /\ save'[n].read = save[n].read /\ \A m \in Saves \ {n} : save'[m] = save[m]
    BY <1>4 DEF Apply, TypeOK, SaveType
  <2> QED BY <1>1, <2>1
<1>5. CASE Score
  <2>1. UNCHANGED <<save, scan>> /\ \A k \in PageKeys : col'[k] = col[k]
    BY <1>5 DEF Score, TypeOK, Values, PageKeys, Counters
  <2> QED BY <1>1, <2>1
<1>6. CASE ScanReads
  <2>1. UNCHANGED <<save, col>> /\ scan'.read = col
    BY <1>6 DEF ScanReads
  <2> QED BY <1>1, <2>1
<1>7. CASE ScanWrites
  <2>1. UNCHANGED save /\ scan'.read = scan.read
    BY <1>7 DEF ScanWrites, TypeOK, ScanType
  <2>2. \A k \in PageKeys : col'[k] \in {scan.read[k], col[k]}
    BY <1>7 DEF ScanWrites, PageKeys, Counters
  <2> QED BY <1>1, <2>1, <2>2
<1>8. CASE Restart
  <2>1. UNCHANGED col /\ scan'.read = scan.read
    BY <1>8 DEF Restart, TypeOK, ScanType
  <2>2. \A n \in Saves : /\ save'[n].read = save[n].read
                         /\ (save'[n].at = "unmade") <=> (save[n].at = "unmade")
                         /\ save'[n].at = "read" => save[n].at = "read"
    BY <1>8 DEF Restart, TypeOK, SaveType
  <2> QED BY <1>1, <2>1, <2>2
<1>9. CASE UNCHANGED vars
  BY <1>1, <1>9 DEF vars
<1> QED
  BY <1>2, <1>3, <1>4, <1>5, <1>6, <1>7, <1>8, <1>9 DEF Next

-----------------------------------------------------------------------------
LEMMA KeptStep == TypeOK /\ Ordered /\ FieldsKept /\ [Next]_vars => FieldsKept'
<1> SUFFICES ASSUME TypeOK, Ordered, FieldsKept, [Next]_vars PROVE FieldsKept'
  OBVIOUS
<1> USE DEF counts
<1>1. ASSUME UNCHANGED <<col, want>>, ~stale' => ~stale PROVE FieldsKept'
  BY <1>1 DEF FieldsKept
<1>2. ASSUME NEW n \in Saves, Post(n) PROVE FieldsKept'
  <2> SUFFICES ASSUME ~stale' PROVE col' = want'
    BY DEF FieldsKept
  <2>1. ~stale /\ ~Outdated(save[n].read, Patch[n]) /\ save[n].at = "read"
    BY <1>2 DEF Post
  <2>2. col = want /\ col \in Values
    BY <2>1 DEF FieldsKept, TypeOK
  <2>3. \A k \in Columns(Patch[n]) : save[n].read[k] = col[k]
    BY <2>1 DEF Outdated
  <2>4. Patch[n] \subseteq Columns(Patch[n])
    BY KeyFacts DEF Columns, PageKeys
  <2>5. \A k \in Patch[n] : col[k] < n
    BY <2>1, <2>3, <2>4 DEF Ordered, ReadOlder
  <2>6. col' = Merged(n) /\ want' = [k \in Keys |-> IF k \in Patch[n] /\ want[k] < n THEN n ELSE want[k]]
    BY <1>2 DEF Post
  <2>7. \A k \in Keys : col'[k] = want'[k]
    BY <2>2, <2>3, <2>5, <2>6 DEF Merged
  <2> QED BY <2>6, <2>7 DEF Merged
<1>3. CASE Score
  BY <1>3 DEF Score, FieldsKept
<1>4. CASE ScanWrites
  <2> SUFFICES ASSUME ~stale' PROVE col' = want'
    BY DEF FieldsKept
  <2>1. ~stale /\ ~Outdated(scan.read, {"brave"})
    BY <1>4 DEF ScanWrites
  <2>2. col = want /\ col \in Values
    BY <2>1 DEF FieldsKept, TypeOK
  <2>3. \A k \in Thresholds : scan.read[k] = col[k]
    BY <2>1, KeyFacts DEF Outdated, Columns
  <2>4. /\ col' = [k \in Keys |-> IF k = "brave" THEN scan.read[k] + 1
                                  ELSE IF k \in Thresholds THEN scan.read[k] ELSE col[k]]
        /\ want' = [want EXCEPT !["brave"] = @ + 1]
    BY <1>4 DEF ScanWrites
  <2>5. \A k \in Keys : col'[k] = want'[k]
    BY <2>2, <2>3, <2>4, KeyFacts DEF Values
  <2> QED BY <2>2, <2>4, <2>5 DEF Values
<1>5. CASE \E n \in Saves : Get(n) \/ Apply(n)
  BY <1>1, <1>5 DEF Get, Apply
<1>6. CASE ScanReads \/ Restart \/ UNCHANGED vars
  BY <1>1, <1>6 DEF ScanReads, Restart, vars
<1> QED
  BY <1>2, <1>3, <1>4, <1>5, <1>6 DEF Next

(* However saves, scores, scans and restarts fall, every key holds its        *)
(* owner's latest write as long as no column was written back from a read     *)
(* that was no longer true.                                                   *)
THEOREM NoFieldLost == Spec => []FieldsKept
<1>1. Init => TypeOK
  BY InitType
<1>2. Init => Ordered /\ FieldsKept
  <2> SUFFICES ASSUME Init PROVE Ordered /\ FieldsKept
    OBVIOUS
  <2>1. /\ \A k \in Keys : col[k] = 0 /\ scan.read[k] = 0
        /\ \A n \in Saves : save[n].at = "unmade" /\ \A k \in Keys : save[n].read[k] = 0
    BY DEF Init, Fresh
  <2>2. \A n \in Saves : 0 < n
    BY BlobAssumption
  <2> QED BY <2>1, <2>2 DEF Init, Ordered, MadeInOrder, FromMade, ReadOlder, FieldsKept, PageKeys
<1>3. TypeOK /\ Ordered /\ FieldsKept /\ [Next]_vars => (TypeOK /\ Ordered /\ FieldsKept)'
  BY TypeStep, OrderedStep, KeptStep
<1> QED
  BY <1>1, <1>2, <1>3, PTL DEF Spec

-----------------------------------------------------------------------------
(* The cap.  Commits are totally ordered, each after those it says were      *)
(* before it; and either the newest handler has yet to hand its cap over, and *)
(* that cap is the saved one, or the runner has it and every handler still to *)
(* come is overtaken.                                                        *)
CommitOrder ==
  /\ \A n \in Saves : save[n].before \subseteq Commits
  /\ \A n, m \in Commits : n # m => n \in save[m].before \/ m \in save[n].before

Pending == {n \in Saves : save[n].at = "committed"}
OnlyCapped == Pending \subseteq Capped
Newest(n) == \A m \in Capped : n \notin save[m].before
NewestPending == \E n \in Pending : Newest(n) /\ CapOf(n) = col["cap"]
HandedOver == limit = col["cap"] /\ \A n \in Pending : Overtaken(n)

CapInv == CommitOrder /\ OnlyCapped /\ (~adrift => NewestPending \/ HandedOver)

LEMMA CapStep == TypeOK /\ CapInv /\ [Next]_vars => CapInv'
<1> SUFFICES ASSUME TypeOK, CapInv, [Next]_vars PROVE CapInv'
  OBVIOUS
<1> USE DEF counts
<1>a. CommitOrder /\ OnlyCapped /\ (~adrift => NewestPending \/ HandedOver)
  BY DEF CapInv
(* Steps that leave the saves' stages and order alone.                      *)
<1>1. ASSUME \A n \in Saves : /\ save'[n].before = save[n].before
                              /\ save'[n].at \in {"committed", "done"} <=> save[n].at \in {"committed", "done"}
                              /\ save'[n].at = "committed" <=> save[n].at = "committed"
                              /\ save[n].at = "committed" => save'[n].read = save[n].read,
             limit' = limit, adrift \/ col'["cap"] = col["cap"] \/ adrift',
             adrift => adrift'
      PROVE  CapInv'
  <2>1. Commits' = Commits /\ Pending' = Pending
    BY <1>1 DEF Commits, Pending
  <2>2. CommitOrder'
    BY <1>a, <1>1, <2>1 DEF CommitOrder, Commits
  <2>3. \A n \in Saves : (Overtaken(n) => Overtaken(n)') /\ (Newest(n) => Newest(n)')
    BY <1>1 DEF Overtaken, Newest, Capped
  <2>4. \A n \in Pending : CapOf(n)' = CapOf(n)
    BY <1>1 DEF CapOf, Pending
  <2>5. ASSUME ~adrift' PROVE NewestPending' \/ HandedOver'
    <3>1. col'["cap"] = col["cap"] /\ (NewestPending \/ HandedOver)
      BY <1>a, <1>1, <2>5
    <3>2. \A n \in Pending : n \in Saves
      BY DEF Pending
    <3> QED BY <1>1, <2>1, <2>3, <2>4, <3>1, <3>2 DEF NewestPending, HandedOver
  <2> QED BY <1>a, <2>1, <2>2, <2>5 DEF CapInv, OnlyCapped, Capped
<1>2. ASSUME NEW n \in Saves, Get(n) PROVE CapInv'
  <2>1. \A m \in Saves : /\ save'[m].before = save[m].before
                         /\ m # n => save'[m] = save[m]
    BY <1>2 DEF Get, TypeOK, SaveType
  <2>2. save[n].at = "unmade" /\ save'[n].at = "read" /\ UNCHANGED <<limit, col, adrift>>
    BY <1>2 DEF Get, TypeOK, SaveType
  <2> QED BY <1>1, <2>1, <2>2
<1>3. ASSUME NEW n \in Saves, Post(n) PROVE CapInv'
  <2>1. /\ save[n].at = "read" /\ save'[n].before = Commits /\ save'[n].read = save[n].read
        /\ save'[n].at = IF n \in Capped THEN "committed" ELSE "done"
        /\ \A m \in Saves \ {n} : save'[m] = save[m]
        /\ UNCHANGED <<limit, adrift>> /\ col' = Merged(n)
    BY <1>3 DEF Post, TypeOK, SaveType
  <2>2. Commits' = Commits \cup {n} /\ n \notin Commits
    BY <2>1 DEF Commits
  <2>3. CommitOrder'
    BY <1>a, <2>1, <2>2 DEF CommitOrder, Commits
  <2>4. \A m \in Saves : n \notin save[m].before
    BY <1>a, <2>2 DEF CommitOrder
  <2>5. CASE n \in Capped
    <3>1. Pending' = Pending \cup {n} /\ n \in Pending'
      BY <2>1, <2>5 DEF Pending
    <3>2. CapOf(n)' = col'["cap"]
      <4>1. n \in Saves /\ \E k \in Patch[n] : k \in Thresholds
        BY <2>5 DEF Capped
      <4>2. "cap" \in Columns(Patch[n]) /\ "cap" \in Keys
        BY <4>1, KeyFacts, BlobAssumption DEF Columns
      <4>3. col'["cap"] = IF "cap" \in Patch[n] THEN n ELSE save[n].read["cap"]
        BY <2>1, <4>2 DEF Merged
      <4> QED BY <2>1, <4>3 DEF CapOf
    <3>3. Newest(n)'
      BY <2>1, <2>2, <2>4 DEF Newest, Capped
    <3>4. NewestPending'
      BY <3>1, <3>2, <3>3 DEF NewestPending
    <3> QED BY <1>a, <2>3, <2>5, <3>1, <3>4 DEF CapInv, OnlyCapped, Capped
  <2>6. CASE n \notin Capped
    <3>1. Pending' = Pending /\ n \notin Pending
      BY <2>1, <2>6 DEF Pending
    <3>2. col'["cap"] = col["cap"]
      <4>1. "cap" \notin Columns(Patch[n]) /\ "cap" \notin Patch[n] /\ "cap" \in Keys
        BY <2>6, KeyFacts, BlobAssumption DEF Capped, Columns
      <4> QED BY <2>1, <4>1 DEF Merged
    <3>3. \A m \in Saves : (Overtaken(m) => Overtaken(m)') /\ (Newest(m) => Newest(m)')
      BY <2>1, <2>6 DEF Overtaken, Newest, Capped
    <3>4. \A m \in Pending : CapOf(m)' = CapOf(m) /\ m \in Saves
      BY <2>1, <3>1 DEF CapOf, Pending
    <3>5. ~adrift' => NewestPending' \/ HandedOver'
      BY <1>a, <2>1, <3>1, <3>2, <3>3, <3>4 DEF NewestPending, HandedOver
    <3> QED BY <1>a, <2>3, <3>1, <3>5 DEF CapInv, OnlyCapped, Capped
  <2> QED BY <2>5, <2>6
<1>4. ASSUME NEW n \in Saves, Apply(n) PROVE CapInv'
  <2>1. /\ save[n].at = "committed" /\ save'[n].at = "done"
        /\ \A m \in Saves : save'[m].before = save[m].before /\ save'[m].read = save[m].read
        /\ \A m \in Saves \ {n} : save'[m].at = save[m].at
        /\ limit' = CapOf(n) /\ UNCHANGED col /\ (adrift' <=> adrift \/ Overtaken(n))
    BY <1>4 DEF Apply, TypeOK, SaveType
  <2>2. Commits' = Commits /\ Pending' = Pending \ {n} /\ n \in Pending
    BY <2>1 DEF Commits, Pending
  <2>3. CommitOrder'
    BY <1>a, <2>1, <2>2 DEF CommitOrder, Commits
  <2>4. \A m \in Saves : (Overtaken(m) => Overtaken(m)') /\ (Newest(m) => Newest(m)')
    BY <2>1 DEF Overtaken, Newest, Capped
  <2>5. ASSUME ~adrift' PROVE NewestPending' \/ HandedOver'
    <3>1. ~adrift /\ ~Overtaken(n) /\ NewestPending
      BY <1>a, <2>1, <2>2, <2>5 DEF HandedOver
    <3>2. PICK top \in Pending : Newest(top) /\ CapOf(top) = col["cap"]
      BY <3>1 DEF NewestPending
    <3>3. top \in Saves /\ top \in Commits /\ Pending \subseteq Commits
      BY DEF Pending, Commits
    <3>4. CASE top # n
      <4>1. top \in Pending' /\ CapOf(top)' = CapOf(top)
        BY <2>1, <2>2, <3>3, <3>4 DEF CapOf
      <4> QED BY <2>1, <2>4, <3>2, <3>3, <4>1 DEF NewestPending
    <3>5. CASE top = n
      <4>1. limit' = col'["cap"]
        BY <2>1, <3>2, <3>5
      <4>2. ASSUME NEW m \in Pending' PROVE Overtaken(m)'
        <5>1. m \in Capped /\ m \in Commits /\ n \in Capped /\ m # n
          BY <1>a, <2>2, <3>3 DEF OnlyCapped
        <5>2. n \notin save[m].before
          BY <3>2, <3>5, <5>1 DEF Newest
        <5>3. m \in save[n].before
          BY <1>a, <3>3, <3>5, <5>1, <5>2 DEF CommitOrder
        <5> QED BY <2>1, <5>1, <5>3 DEF Overtaken, Capped
      <4> QED BY <4>1, <4>2 DEF HandedOver
    <3> QED BY <3>4, <3>5
  <2> QED BY <1>a, <2>2, <2>3, <2>5 DEF CapInv, OnlyCapped, Capped
<1>5. CASE Score
  <2>1. col'["cap"] = col["cap"] /\ UNCHANGED <<save, limit, adrift>>
    BY <1>5, KeyFacts DEF Score, TypeOK, Values
  <2> QED BY <1>1, <2>1
<1>6. CASE ScanReads \/ UNCHANGED vars
  BY <1>1, <1>6 DEF ScanReads, vars
<1>7. CASE ScanWrites
  <2>1. UNCHANGED <<save, limit>> /\ (adrift' <=> adrift \/ scan.read["cap"] # col["cap"])
    BY <1>7 DEF ScanWrites
  <2>2. col'["cap"] = scan.read["cap"]
    BY <1>7, KeyFacts, BlobAssumption DEF ScanWrites
  <2> QED BY <1>1, <2>1, <2>2
<1>8. CASE Restart
  <2>1. /\ limit' = col["cap"] /\ UNCHANGED col
        /\ \A n \in Saves : save'[n].before = save[n].before /\ save'[n].at # "committed"
        /\ Commits' = Commits
    BY <1>8 DEF Restart, TypeOK, SaveType, Commits
  <2>2. Pending' = {}
    BY <2>1 DEF Pending
  <2>3. CommitOrder'
    BY <1>a, <2>1 DEF CommitOrder, Commits
  <2> QED BY <2>1, <2>2, <2>3 DEF CapInv, OnlyCapped, HandedOver
<1> QED
  BY <1>2, <1>3, <1>4, <1>5, <1>6, <1>7, <1>8 DEF Next

(* However the handlers' hand-overs fall among commits, scans and restarts,  *)
(* the runner works with the saved cap as soon as the last handler is done,  *)
(* but for the two exceptions adrift names.                                  *)
THEOREM CapReachesRunner == Spec => []RunnerHasSavedCap
<1>1. Init => TypeOK /\ CapInv
  <2>1. Init => CapInv
    BY KeyFacts DEF Init, CapInv, CommitOrder, OnlyCapped, Commits, Pending, HandedOver, Fresh
  <2> QED BY <2>1, InitType
<1>2. TypeOK /\ CapInv /\ [Next]_vars => (TypeOK /\ CapInv)'
  BY TypeStep, CapStep
<1>3. CapInv => RunnerHasSavedCap
  BY DEF CapInv, RunnerHasSavedCap, NewestPending, HandedOver, Pending
<1> QED
  BY <1>1, <1>2, <1>3, PTL DEF Spec

-----------------------------------------------------------------------------
(* The panel of the LinkedIn lane (BrowserOpFeed, as MCPage composes it).      *)

Whats == {"queued", "running", "sending", "refused", "ended"}
Event(o, what) == [id |-> o, what |-> what]
Events == [id : Ops, what : Whats]

PanelType ==
  /\ row \in [Ops -> {"absent", "queued", "running", "ended"}]
  /\ unsaid \in [Ops -> Seq(Events)]
  /\ \A o \in Ops : \A i \in DOMAIN unsaid[o] : unsaid[o][i].id = o
  /\ routed \subseteq Ops /\ refused \subseteq Ops /\ unsent \subseteq Ops /\ active \subseteq Ops
  /\ wire \in [up : BOOLEAN, events : Seq(Events)]
  /\ missed \in BOOLEAN /\ overtaken \in BOOLEAN /\ asked \in BOOLEAN /\ onScreen \in BOOLEAN
  /\ cur \in {Panel!None} \cup [id : Ops, state : {"queued", "running", "ended"}]
  /\ settled \in [Ops -> {"no", "done", "not_sent"}]
  /\ answers \subseteq SUBSET Ops
  /\ sync \in {Panel!None} \cup [id : Syncs, state : Whats]
  /\ seed \in [at : {"none", "asked", "answered"}, live : SUBSET Syncs]

(* An event of an operation is on its way to the page, or not published yet.  *)
Carries(s, o, what) == \E i \in DOMAIN s : s[i] = Event(o, what)
InFlight(o, what) == Carries(wire.events, o, what) \/ Carries(unsaid[o], o, what)

(* What is said, read or shown is of operations that were submitted.          *)
OfRows ==
  /\ \A o \in Ops : unsaid[o] # <<>> => row[o] # "absent"
  /\ \A i \in DOMAIN wire.events : row[wire.events[i].id] # "absent"
  /\ \A read \in answers : \A o \in read : row[o] # "absent"
  /\ cur # Panel!None => row[cur.id] # "absent"
  /\ sync # Panel!None => row[sync.id] # "absent"
  /\ \A o \in seed.live : row[o] # "absent"

(* The end of an operation is heard once it has ended, and is not forgotten.  *)
EndIsTold ==
  \A o \in Ops :
    /\ settled[o] # "no" \/ InFlight(o, "ended") => row[o] = "ended"
    /\ ~missed /\ row[o] = "ended" => settled[o] # "no" \/ InFlight(o, "ended")

(* Nothing is said of an operation after its end, and unless an event was     *)
(* overtaken, nothing is heard of it either.                                 *)
SaidLast == \A o \in Ops : \A i \in DOMAIN unsaid[o] : unsaid[o][i].what = "ended" => i = Len(unsaid[o])
Over(o) == unsaid[o] = <<>> /\ \A j \in DOMAIN wire.events : wire.events[j].id # o
HeardLast ==
  ~overtaken =>
    /\ \A o \in Ops : settled[o] # "no" => Over(o)
    /\ \A i \in DOMAIN wire.events : wire.events[i].what = "ended" =>
         /\ unsaid[wire.events[i].id] = <<>>
         /\ \A j \in DOMAIN wire.events : i < j => wire.events[j].id # wire.events[i].id

(* So what the panel and the button are busy with has not been heard to end.  *)
BusyUnsettled ==
  /\ cur = Panel!None => \A o \in Ops : settled[o] = "no"
  /\ cur.state = "ended" => settled[cur.id] # "no"
  /\ ~overtaken /\ Panel!Busy(cur) => settled[cur.id] = "no"
  /\ ~overtaken /\ Panel!Busy(sync) => settled[sync.id] = "no"
  /\ sync # Panel!None \/ seed.at # "none" => onScreen
  /\ seed.at = "answered" /\ sync = Panel!None => \A o \in seed.live : settled[o] = "no"

(* An operation of the lane is listed, or the page will hear or read of it.   *)
LaneIsTold ==
  ~missed => \A o \in Panel!LiveOps :
    o \in active \/ InFlight(o, "queued") \/ InFlight(o, "running")
      \/ asked \/ \E read \in answers : o \in read

(* A refusal is heard before the end of its send.                            *)
Ahead(s, o) == \E i \in DOMAIN s : s[i] = Event(o, "refused") /\ \A j \in 1 .. i - 1 : s[j] # Event(o, "ended")
RefusalIsTold ==
  ~missed => \A o \in refused :
    /\ settled[o] # "done"
    /\ o \in unsent \/ Ahead(wire.events, o)
         \/ (~Carries(wire.events, o, "ended") /\ Ahead(unsaid[o], o))

PanelInv ==
  PanelType /\ OfRows /\ EndIsTold /\ SaidLast /\ HeardLast /\ BusyUnsettled /\ LaneIsTold /\ RefusalIsTold

-----------------------------------------------------------------------------
(* A sequence without its i-th element.                                      *)
Dropped(s, i) == SubSeq(s, 1, i - 1) \o SubSeq(s, i + 1, Len(s))

LEMMA DroppedIs ==
  ASSUME NEW S, NEW s \in Seq(S), NEW i \in DOMAIN s
  PROVE  /\ Dropped(s, i) \in Seq(S)
         /\ Len(Dropped(s, i)) = Len(s) - 1
         /\ \A j \in 1 .. Len(s) - 1 : Dropped(s, i)[j] = IF j < i THEN s[j] ELSE s[j + 1]
<1>1. Len(s) \in Nat /\ i \in 1 .. Len(s) /\ \A j \in 1 .. Len(s) : s[j] \in S
  OBVIOUS
<1>2. /\ SubSeq(s, 1, i - 1) \in Seq(S) /\ Len(SubSeq(s, 1, i - 1)) = i - 1
      /\ \A j \in 1 .. i - 1 : SubSeq(s, 1, i - 1)[j] = s[j]
  BY <1>1, SubSeqProperties
<1>3. /\ SubSeq(s, i + 1, Len(s)) \in Seq(S) /\ Len(SubSeq(s, i + 1, Len(s))) = Len(s) - i
      /\ \A j \in 1 .. Len(s) - i : SubSeq(s, i + 1, Len(s))[j] = s[i + j]
  <2>1. \A j \in i + 1 .. Len(s) : s[j] \in S
    BY <1>1
  <2>2. i + 1 \in Int /\ Len(s) \in Int
    BY <1>1
  <2>3. /\ SubSeq(s, i + 1, Len(s)) \in Seq(S)
        /\ Len(SubSeq(s, i + 1, Len(s))) = IF i + 1 <= Len(s) THEN Len(s) - (i + 1) + 1 ELSE 0
        /\ \A j \in 1 .. Len(s) - (i + 1) + 1 : SubSeq(s, i + 1, Len(s))[j] = s[(i + 1) + j - 1]
    BY <2>1, <2>2, SubSeqProperties
  <2> QED
    BY <1>1, <2>3
<1>4. /\ Dropped(s, i) \in Seq(S)
      /\ Len(Dropped(s, i)) = (i - 1) + (Len(s) - i)
      /\ \A j \in 1 .. (i - 1) + (Len(s) - i) :
           Dropped(s, i)[j] = IF j <= i - 1 THEN SubSeq(s, 1, i - 1)[j] ELSE SubSeq(s, i + 1, Len(s))[j - (i - 1)]
  <2> DEFINE a == SubSeq(s, 1, i - 1)
             b == SubSeq(s, i + 1, Len(s))
  <2>1. a \in Seq(S) /\ b \in Seq(S) /\ Len(a) = i - 1 /\ Len(b) = Len(s) - i
    BY <1>2, <1>3
  <2>2. Dropped(s, i) = a \o b
    BY DEF Dropped
  <2> HIDE DEF a, b
  <2>3. /\ a \o b \in Seq(S) /\ Len(a \o b) = Len(a) + Len(b)
        /\ \A j \in 1 .. Len(a) + Len(b) : (a \o b)[j] = IF j <= Len(a) THEN a[j] ELSE b[j - Len(a)]
    BY <2>1, ConcatProperties
  <2>4. Dropped(s, i) \in Seq(S) /\ Len(Dropped(s, i)) = (i - 1) + (Len(s) - i)
    BY <2>1, <2>2, <2>3
  <2>5. ASSUME NEW j \in 1 .. (i - 1) + (Len(s) - i)
        PROVE  Dropped(s, i)[j] = IF j <= i - 1 THEN a[j] ELSE b[j - (i - 1)]
    <3>1. j \in 1 .. Len(a) + Len(b)
      BY <2>1
    <3>2. (a \o b)[j] = IF j <= Len(a) THEN a[j] ELSE b[j - Len(a)]
      BY <2>3, <3>1
    <3>3. Len(a) = i - 1
      BY <2>1
    <3> QED BY <2>2, <3>2, <3>3, Zenon
  <2> QED BY <2>4, <2>5 DEF a, b
<1>5. ASSUME NEW j \in 1 .. Len(s) - 1
      PROVE  Dropped(s, i)[j] = IF j < i THEN s[j] ELSE s[j + 1]
  <2>1. CASE j < i
    <3>1. j \in 1 .. i - 1 /\ j \in 1 .. (i - 1) + (Len(s) - i)
      BY <1>1, <2>1
    <3>2. Dropped(s, i)[j] = SubSeq(s, 1, i - 1)[j]
      BY <1>4, <3>1
    <3> QED BY <1>2, <2>1, <3>1, <3>2
  <2>2. CASE ~(j < i)
    <3>1. j - (i - 1) \in 1 .. Len(s) - i /\ i + (j - (i - 1)) = j + 1 /\ j \in 1 .. (i - 1) + (Len(s) - i)
      BY <1>1, <2>2
    <3>2. SubSeq(s, i + 1, Len(s))[j - (i - 1)] = s[i + (j - (i - 1))]
      BY <1>3, <3>1
    <3>3. Dropped(s, i)[j] = SubSeq(s, i + 1, Len(s))[j - (i - 1)]
      BY <1>1, <1>4, <2>2, <3>1
    <3> QED BY <2>2, <3>1, <3>2, <3>3
  <2> QED BY <2>1, <2>2
<1> QED
  BY <1>1, <1>4, <1>5

(* What a sequence of events carries after one more, one less, without its     *)
(* first.                                                                    *)
LEMMA AppendCarries ==
  ASSUME NEW s \in Seq(Events), NEW e \in Events, NEW o \in Ops
  PROVE  /\ \A what : Carries(Append(s, e), o, what) <=> Carries(s, o, what) \/ e = Event(o, what)
         /\ Ahead(s, o) => Ahead(Append(s, e), o)
         /\ e = Event(o, "refused") /\ ~Carries(s, o, "ended") => Ahead(Append(s, e), o)
<1>1. /\ DOMAIN s = 1 .. Len(s) /\ Len(s) \in Nat
      /\ DOMAIN Append(s, e) = 1 .. Len(s) + 1
      /\ \A i \in 1 .. Len(s) : Append(s, e)[i] = s[i]
      /\ Append(s, e)[Len(s) + 1] = e
  BY AppendProperties, LenProperties
<1>2. \A what : Carries(Append(s, e), o, what) <=> Carries(s, o, what) \/ e = Event(o, what)
  BY <1>1 DEF Carries
<1>3. Ahead(s, o) => Ahead(Append(s, e), o)
  BY <1>1 DEF Ahead
<1>4. e = Event(o, "refused") /\ ~Carries(s, o, "ended") => Ahead(Append(s, e), o)
  BY <1>1 DEF Ahead, Carries
<1> QED
  BY <1>2, <1>3, <1>4

LEMMA TailCarries ==
  ASSUME NEW s \in Seq(Events), s # <<>>, NEW o \in Ops
  PROVE  /\ \A what : Carries(s, o, what) <=> Carries(Tail(s), o, what) \/ Head(s) = Event(o, what)
         /\ Ahead(s, o) => Head(s) = Event(o, "refused") \/ (Head(s) # Event(o, "ended") /\ Ahead(Tail(s), o))
<1>1. /\ DOMAIN s = 1 .. Len(s) /\ Len(s) \in Nat /\ Len(s) > 0
      /\ DOMAIN Tail(s) = 1 .. Len(s) - 1
      /\ \A i \in 1 .. Len(s) - 1 : Tail(s)[i] = s[i + 1]
      /\ Head(s) = s[1]
  BY HeadTailProperties, LenProperties, EmptySeq
<1>2. \A what : Carries(s, o, what) <=> Carries(Tail(s), o, what) \/ Head(s) = Event(o, what)
  <2> TAKE what
  <2>1. Carries(s, o, what) => Carries(Tail(s), o, what) \/ Head(s) = Event(o, what)
    <3> SUFFICES ASSUME NEW i \in 1 .. Len(s), s[i] = Event(o, what), i # 1
                 PROVE  Carries(Tail(s), o, what)
      BY <1>1 DEF Carries
    <3>1. i - 1 \in 1 .. Len(s) - 1 /\ Tail(s)[i - 1] = s[i]
      BY <1>1
    <3> QED BY <1>1, <3>1 DEF Carries
  <2>2. Carries(Tail(s), o, what) \/ Head(s) = Event(o, what) => Carries(s, o, what)
    BY <1>1 DEF Carries
  <2> QED BY <2>1, <2>2
<1>3. ASSUME Ahead(s, o), Head(s) # Event(o, "refused")
      PROVE  Head(s) # Event(o, "ended") /\ Ahead(Tail(s), o)
  <2>1. PICK i \in 1 .. Len(s) : s[i] = Event(o, "refused") /\ \A j \in 1 .. i - 1 : s[j] # Event(o, "ended")
    BY <1>1, <1>3 DEF Ahead
  <2>2. i > 1
    BY <1>1, <1>3, <2>1
  <2>3. i - 1 \in 1 .. Len(s) - 1 /\ Tail(s)[i - 1] = Event(o, "refused")
    BY <1>1, <2>1, <2>2
  <2>4. \A j \in 1 .. (i - 1) - 1 : Tail(s)[j] # Event(o, "ended")
    BY <1>1, <2>1, <2>2
  <2>5. Head(s) # Event(o, "ended")
    BY <1>1, <2>1, <2>2
  <2>6. i - 1 \in DOMAIN Tail(s)
    BY <1>1, <2>3
  <2>7. Ahead(Tail(s), o)
    BY <2>3, <2>4, <2>6 DEF Ahead
  <2> QED BY <2>5, <2>7
<1> QED
  BY <1>2, <1>3

LEMMA DroppedCarries ==
  ASSUME NEW s \in Seq(Events), NEW i \in DOMAIN s, NEW o \in Ops
  PROVE  /\ \A what : Carries(s, o, what) <=> Carries(Dropped(s, i), o, what) \/ s[i] = Event(o, what)
         /\ Ahead(s, o) /\ s[i] # Event(o, "refused") => Ahead(Dropped(s, i), o)
<1>1. /\ DOMAIN s = 1 .. Len(s) /\ Len(s) \in Nat /\ i \in 1 .. Len(s)
      /\ DOMAIN Dropped(s, i) = 1 .. Len(s) - 1
      /\ \A j \in 1 .. Len(s) - 1 : Dropped(s, i)[j] = IF j < i THEN s[j] ELSE s[j + 1]
  BY DroppedIs, LenProperties
<1>2. ASSUME NEW k \in 1 .. Len(s)
      PROVE  /\ k < i => k \in 1 .. Len(s) - 1 /\ Dropped(s, i)[k] = s[k]
             /\ k > i => k - 1 \in 1 .. Len(s) - 1 /\ Dropped(s, i)[k - 1] = s[k]
  <2>1. k < i => k \in 1 .. Len(s) - 1
    BY <1>1
  <2>2. k > i => k - 1 \in 1 .. Len(s) - 1 /\ ~(k - 1 < i) /\ (k - 1) + 1 = k
    BY <1>1
  <2> QED BY <1>1, <2>1, <2>2
<1>3. \A what : Carries(s, o, what) <=> Carries(Dropped(s, i), o, what) \/ s[i] = Event(o, what)
  <2> TAKE what
  <2>1. Carries(s, o, what) => Carries(Dropped(s, i), o, what) \/ s[i] = Event(o, what)
    <3> SUFFICES ASSUME NEW k \in 1 .. Len(s), s[k] = Event(o, what), k # i
                 PROVE  Carries(Dropped(s, i), o, what)
      BY <1>1 DEF Carries
    <3>1. k < i \/ k > i
      BY <1>1
    <3> QED BY <1>1, <1>2, <3>1 DEF Carries
  <2>2. Carries(Dropped(s, i), o, what) => Carries(s, o, what)
    BY <1>1 DEF Carries
  <2>3. s[i] = Event(o, what) => Carries(s, o, what)
    BY <1>1 DEF Carries
  <2> QED BY <2>1, <2>2, <2>3
<1>4. ASSUME Ahead(s, o), s[i] # Event(o, "refused")
      PROVE  Ahead(Dropped(s, i), o)
  <2>1. PICK k \in 1 .. Len(s) : s[k] = Event(o, "refused") /\ \A j \in 1 .. k - 1 : s[j] # Event(o, "ended")
    BY <1>1, <1>4 DEF Ahead
  <2> DEFINE m == IF k < i THEN k ELSE k - 1
  <2>2. m \in 1 .. Len(s) - 1 /\ Dropped(s, i)[m] = Event(o, "refused")
    <3>1. k < i \/ k > i
      BY <1>1, <1>4, <2>1
    <3> QED BY <1>1, <1>2, <2>1, <3>1
  <2>3. \A j \in 1 .. m - 1 : Dropped(s, i)[j] # Event(o, "ended")
    BY <1>1, <2>1
  <2> QED BY <1>1, <2>2, <2>3 DEF Ahead
<1> QED
  BY <1>3, <1>4

LEMMA AheadCarries ==
  ASSUME NEW s, NEW o, Ahead(s, o)
  PROVE  Carries(s, o, "refused")
  BY DEF Ahead, Carries

-----------------------------------------------------------------------------
LEMMA EventsOfOps ==
  ASSUME NEW s \in Seq(Events)
  PROVE  \A i \in DOMAIN s : s[i] \in Events /\ s[i].id \in Ops /\ s[i] = Event(s[i].id, s[i].what)
<1>1. \A i \in DOMAIN s : s[i] \in Events
  BY LenProperties, ElementOfSeq
<1> QED
  BY <1>1 DEF Events, Event

(* A commit on the lane, with the event it says.                             *)
LEMMA Said ==
  ASSUME PanelType, NEW o \in Ops, NEW what \in Whats, Panel!Say(o, what)
  PROVE  /\ unsaid' \in [Ops -> Seq(Events)]
         /\ unsaid'[o] = Append(unsaid[o], Event(o, what))
         /\ \A p \in Ops \ {o} : unsaid'[p] = unsaid[p]
         /\ \A p \in Ops : \A i \in DOMAIN unsaid'[p] : unsaid'[p][i].id = p
         /\ Len(unsaid'[o]) = Len(unsaid[o]) + 1 /\ Len(unsaid[o]) \in Nat /\ unsaid'[o] # <<>>
         /\ unsaid'[o][Len(unsaid[o]) + 1] = Event(o, what)
         /\ \A i \in 1 .. Len(unsaid[o]) : unsaid'[o][i] = unsaid[o][i]
         /\ \A p \in Ops : \A w : Carries(unsaid'[p], p, w) <=>
              Carries(unsaid[p], p, w) \/ (p = o /\ w = what)
         /\ \A p \in Ops : Ahead(unsaid[p], p) => Ahead(unsaid'[p], p)
         /\ what = "refused" /\ ~Carries(unsaid[o], o, "ended") => Ahead(unsaid'[o], o)
<1>1. unsaid \in [Ops -> Seq(Events)] /\ unsaid[o] \in Seq(Events) /\ Event(o, what) \in Events
  BY DEF PanelType, Event, Events
<1>2. unsaid' = [unsaid EXCEPT ![o] = Append(unsaid[o], Event(o, what))]
  BY DEF Panel!Say, Event
<1>3. /\ Append(unsaid[o], Event(o, what)) \in Seq(Events)
      /\ Append(unsaid[o], Event(o, what)) # <<>>
      /\ Len(Append(unsaid[o], Event(o, what))) = Len(unsaid[o]) + 1 /\ Len(unsaid[o]) \in Nat
      /\ \A i \in 1 .. Len(unsaid[o]) : Append(unsaid[o], Event(o, what))[i] = unsaid[o][i]
      /\ Append(unsaid[o], Event(o, what))[Len(unsaid[o]) + 1] = Event(o, what)
  BY <1>1, AppendProperties, LenProperties
<1>4. unsaid'[o] = Append(unsaid[o], Event(o, what)) /\ \A p \in Ops \ {o} : unsaid'[p] = unsaid[p]
  BY <1>1, <1>2
<1>5. \A p \in Ops : \A i \in DOMAIN unsaid'[p] : unsaid'[p][i].id = p
  <2> TAKE p \in Ops
  <2> TAKE i \in DOMAIN unsaid'[p]
  <2>1. CASE p # o
    BY <1>4, <2>1 DEF PanelType
  <2>2. CASE p = o
    <3>1. i \in 1 .. Len(unsaid[o]) + 1 /\ DOMAIN unsaid[o] = 1 .. Len(unsaid[o])
      BY <1>1, <1>3, <1>4, <2>2, LenProperties
    <3>2. CASE i \in 1 .. Len(unsaid[o])
      BY <1>3, <1>4, <2>2, <3>1, <3>2 DEF PanelType
    <3>3. CASE i = Len(unsaid[o]) + 1
      BY <1>3, <1>4, <2>2, <3>3 DEF Event
    <3> QED BY <1>3, <3>1, <3>2, <3>3
  <2> QED BY <2>1, <2>2
<1>6. \A p \in Ops : \A w : Carries(unsaid'[p], p, w) <=> Carries(unsaid[p], p, w) \/ (p = o /\ w = what)
  <2> TAKE p \in Ops
  <2> TAKE w
  <2>1. CASE p # o
    BY <1>4, <2>1
  <2>2. CASE p = o
    <3>1. Event(o, what) = Event(o, w) <=> w = what
      BY DEF Event
    <3>2. Carries(Append(unsaid[o], Event(o, what)), o, w) <=>
            Carries(unsaid[o], o, w) \/ Event(o, what) = Event(o, w)
      BY <1>1, AppendCarries
    <3> QED BY <1>4, <2>2, <3>1, <3>2
  <2> QED BY <2>1, <2>2
<1>7. \A p \in Ops : Ahead(unsaid[p], p) => Ahead(unsaid'[p], p)
  <2>1. Ahead(unsaid[o], o) => Ahead(Append(unsaid[o], Event(o, what)), o)
    BY <1>1, AppendCarries
  <2>2. \A p \in Ops \ {o} : unsaid'[p] = unsaid[p]
    BY <1>4
  <2>3. Ahead(unsaid[o], o) => Ahead(unsaid'[o], o)
    BY <1>4, <2>1
  <2> QED BY <2>2, <2>3
<1>8. what = "refused" /\ ~Carries(unsaid[o], o, "ended") => Ahead(unsaid'[o], o)
  BY <1>1, <1>4, AppendCarries
<1>9. unsaid' \in [Ops -> Seq(Events)]
  BY <1>1, <1>2, <1>3
<1> QED
  BY <1>3, <1>4, <1>5, <1>6, <1>7, <1>8, <1>9

LEMMA SayKeeps ==
  ASSUME PanelInv, NEW o \in Ops, NEW what \in Whats, Panel!Say(o, what),
         row' \in [Ops -> {"absent", "queued", "running", "ended"}],
         \A p \in Ops \ {o} : row'[p] = row[p],
         row[o] # "ended", row'[o] # "absent", row'[o] = "ended" <=> what = "ended",
         row[o] = "absent" => what = "queued",
         routed' \subseteq Ops, refused' = IF what = "refused" THEN refused \cup {o} ELSE refused,
         UNCHANGED <<Panel!hist, Panel!panel, Panel!btn, wire>>
  PROVE  PanelInv'
<1> DEFINE Same == UNCHANGED <<missed, overtaken, gaps, active, cur, settled, unsent, asked, answers,
                               onScreen, sync, seed, wire>>
<1>1. Same
  BY DEF Panel!hist, Panel!panel, Panel!btn
<1>2. PanelType /\ OfRows /\ EndIsTold /\ SaidLast /\ HeardLast /\ BusyUnsettled /\ LaneIsTold /\ RefusalIsTold
  BY DEF PanelInv
<1>3. PanelType'
  BY <1>1, <1>2, Said DEF PanelType
<1>4. OfRows'
  <2>1. \A p \in Ops : row[p] # "absent" => row'[p] # "absent"
    OBVIOUS
  <2>2. \A p \in Ops : unsaid'[p] # <<>> => row'[p] # "absent"
    <3>1. \A p \in Ops \ {o} : unsaid'[p] = unsaid[p]
      BY <1>2, Said
    <3>2. \A p \in Ops : unsaid[p] # <<>> => row[p] # "absent"
      BY <1>2 DEF OfRows
    <3> QED BY <2>1, <3>1, <3>2
  <2>3. \A i \in DOMAIN wire.events : wire.events[i].id \in Ops
    BY <1>2, EventsOfOps DEF PanelType
  <2>4. /\ cur # Panel!None => cur.id \in Ops
        /\ sync # Panel!None => sync.id \in Ops
        /\ seed.live \subseteq Ops /\ \A read \in answers : read \subseteq Ops
    BY <1>2, PanelAssumption DEF PanelType
  <2> QED BY <1>1, <1>2, <2>1, <2>2, <2>3, <2>4 DEF OfRows
<1>5. settled[o] = "no" /\ ~InFlight(o, "ended")
  BY <1>2 DEF EndIsTold
<1>6. \A p \in Ops : \A w : InFlight(p, w)' <=> InFlight(p, w) \/ (p = o /\ w = what)
  <2>1. \A p \in Ops : \A w : Carries(unsaid'[p], p, w) <=>
          Carries(unsaid[p], p, w) \/ (p = o /\ w = what)
    BY <1>2, Said
  <2> QED BY <1>1, <2>1 DEF InFlight
<1>7. EndIsTold'
  BY <1>1, <1>2, <1>5, <1>6 DEF EndIsTold, PanelType
<1>8. SaidLast'
  <2> SUFFICES ASSUME NEW p \in Ops, NEW i \in DOMAIN unsaid'[p], unsaid'[p][i].what = "ended"
               PROVE  i = Len(unsaid'[p])
    BY DEF SaidLast
  <2>1. CASE p # o
    <3>1. unsaid'[p] = unsaid[p]
      BY <1>2, <2>1, Said
    <3> QED BY <1>2, <3>1 DEF SaidLast
  <2>2. CASE p = o
    <3>1. unsaid[o] \in Seq(Events) /\ DOMAIN unsaid[o] = 1 .. Len(unsaid[o])
          /\ DOMAIN unsaid'[o] = 1 .. Len(unsaid[o]) + 1
      BY <1>2, Said, LenProperties DEF PanelType
    <3>2. CASE i \in 1 .. Len(unsaid[o])
      <4>1. unsaid[o][i] \in Events /\ unsaid[o][i].id = o /\ unsaid[o][i].what = "ended"
        BY <1>2, <2>2, <3>1, <3>2, Said, ElementOfSeq DEF PanelType
      <4>2. unsaid[o][i] = Event(o, "ended")
        BY <4>1 DEF Events, Event
      <4> QED BY <1>5, <3>1, <3>2, <4>2 DEF InFlight, Carries
    <3>3. CASE i = Len(unsaid[o]) + 1
      BY <1>2, <2>2, <3>3, Said
    <3> QED BY <2>2, <3>1, <3>2, <3>3
  <2> QED BY <2>1, <2>2
<1>9. HeardLast'
  <2>1. ~overtaken => \A j \in DOMAIN wire.events : wire.events[j].what = "ended" => wire.events[j].id # o
    <3> SUFFICES ASSUME NEW j \in DOMAIN wire.events, wire.events[j].what = "ended", wire.events[j].id = o
                 PROVE  FALSE
      OBVIOUS
    <3>1. wire.events[j] = Event(o, "ended")
      BY <1>2, EventsOfOps DEF PanelType
    <3> QED BY <1>5, <3>1 DEF InFlight, Carries
  <2>2. \A j \in DOMAIN wire.events : wire.events[j].id \in Ops
    BY <1>2, EventsOfOps DEF PanelType
  <2>3. \A p \in Ops : settled[p] # "no" => p # o
    BY <1>5
  <2> SUFFICES ASSUME ~overtaken PROVE HeardLast'
    BY <1>1 DEF HeardLast
  <2>4. \A p \in Ops \ {o} : unsaid'[p] = unsaid[p]
    BY <1>2, Said
  <2>5. \A p \in Ops : settled[p] # "no" => Over(p)'
    BY <1>1, <1>2, <2>3, <2>4 DEF HeardLast, Over
  <2>6. \A i \in DOMAIN wire.events : wire.events[i].what = "ended" => unsaid'[wire.events[i].id] = <<>>
    BY <1>2, <2>1, <2>2, <2>4 DEF HeardLast
  <2> QED BY <1>1, <1>2, <2>5, <2>6 DEF HeardLast
<1>10. BusyUnsettled'
  BY <1>1, <1>2 DEF BusyUnsettled, Panel!Busy
<1>11. LaneIsTold'
  <2>1. \A p \in Panel!LiveOps' : p \in Panel!LiveOps \/ (p = o /\ what = "queued")
    BY <1>2 DEF Panel!LiveOps, Panel!Live, PanelType
  <2>2. Panel!LiveOps' \subseteq Ops
    BY DEF Panel!LiveOps
  <2> QED BY <1>1, <1>2, <1>6, <2>1, <2>2 DEF LaneIsTold
<1>12. RefusalIsTold'
  <2>1. refused' \subseteq refused \cup {o} /\ (o \in refused' => o \in refused \/ what = "refused")
    OBVIOUS
  <2>2. ~Carries(wire.events, o, "ended") /\ ~Carries(unsaid[o], o, "ended")
    BY <1>5 DEF InFlight
  <2> QED BY <1>1, <1>2, <1>5, <2>1, <2>2, Said DEF RefusalIsTold, PanelType
<1> QED
  BY <1>3, <1>4, <1>7, <1>8, <1>9, <1>10, <1>11, <1>12 DEF PanelInv

LEMMA LaneKeeps ==
  ASSUME PanelInv, NEW o \in Ops,
         Panel!Submit(o) \/ Panel!Start(o) \/ Panel!ReportSending(o) \/ Panel!ReportRefusal(o) \/ Panel!Finish(o)
  PROVE  PanelInv'
<1>1. row \in [Ops -> {"absent", "queued", "running", "ended"}] /\ routed \subseteq Ops /\ refused \subseteq Ops
  BY DEF PanelInv, PanelType
<1>2. CASE Panel!Submit(o)
  <2>1. row[o] = "absent" /\ row' = [row EXCEPT ![o] = "queued"]
    BY <1>2 DEF Panel!Submit
  <2>2. Panel!Say(o, "queued") /\ UNCHANGED <<routed, refused, wire, Panel!hist, Panel!panel, Panel!btn>>
    BY <1>2 DEF Panel!Submit
  <2> QED BY <1>1, <2>1, <2>2, SayKeeps DEF Whats
<1>3. CASE Panel!Start(o)
  <2>1. row[o] = "queued" /\ row' = [row EXCEPT ![o] = "running"]
    BY <1>3 DEF Panel!Start
  <2>2. Panel!Say(o, "running") /\ UNCHANGED <<routed, refused, wire, Panel!hist, Panel!panel, Panel!btn>>
    BY <1>3 DEF Panel!Start
  <2> QED BY <1>1, <2>1, <2>2, SayKeeps DEF Whats
<1>4. CASE Panel!ReportSending(o)
  <2>1. row[o] = "running" /\ routed' = routed \cup {o} /\ UNCHANGED row
    BY <1>4 DEF Panel!ReportSending, Panel!HandedOver
  <2>2. Panel!Say(o, "sending") /\ UNCHANGED <<refused, wire, Panel!hist, Panel!panel, Panel!btn>>
    BY <1>4 DEF Panel!ReportSending
  <2> QED BY <1>1, <2>1, <2>2, SayKeeps DEF Whats
<1>5. CASE Panel!ReportRefusal(o)
  <2>1. row[o] = "running" /\ refused' = refused \cup {o} /\ UNCHANGED row
    BY <1>5 DEF Panel!ReportRefusal, Panel!HandedOver
  <2>2. Panel!Say(o, "refused") /\ UNCHANGED <<routed, wire, Panel!hist, Panel!panel, Panel!btn>>
    BY <1>5 DEF Panel!ReportRefusal
  <2> QED BY <1>1, <2>1, <2>2, SayKeeps DEF Whats
<1>6. CASE Panel!Finish(o)
  <2>1. row[o] \in {"queued", "running"} /\ row' = [row EXCEPT ![o] = "ended"]
    BY <1>6 DEF Panel!Finish, Panel!HandedOver
  <2>2. Panel!Say(o, "ended") /\ UNCHANGED <<routed, refused, wire, Panel!hist, Panel!panel, Panel!btn>>
    BY <1>6 DEF Panel!Finish
  <2> QED BY <1>1, <2>1, <2>2, SayKeeps DEF Whats
<1> QED
  BY <1>2, <1>3, <1>4, <1>5, <1>6

(* An event is published: to the page, or to nobody.                         *)
LEMMA PublishKeeps ==
  ASSUME PanelInv, NEW o \in Ops, Panel!Publish(o)
  PROVE  PanelInv'
<1>1. PanelType /\ OfRows /\ EndIsTold /\ SaidLast /\ HeardLast /\ BusyUnsettled /\ LaneIsTold /\ RefusalIsTold
  BY DEF PanelInv
<1>2. UNCHANGED <<row, routed, refused, gaps, active, cur, settled, unsent, asked, answers, onScreen, sync, seed>>
  BY DEF Panel!Publish, Panel!panel, Panel!btn
<1>3. PICK i \in Panel!Publishable(o) :
        /\ unsaid' = [unsaid EXCEPT ![o] = Dropped(unsaid[o], i)]
        /\ IF wire.up THEN wire' = [wire EXCEPT !.events = Append(wire.events, unsaid[o][i])] /\ UNCHANGED missed
                      ELSE missed' = TRUE /\ UNCHANGED wire
        /\ overtaken' = (overtaken \/ (unsaid[o][i].what = "ended" /\ i > 1))
  BY DEF Panel!Publish, Dropped
<1> DEFINE ev == unsaid[o][i]
           after == Dropped(unsaid[o], i)
<1>4. /\ unsaid \in [Ops -> Seq(Events)] /\ unsaid[o] \in Seq(Events) /\ Len(unsaid[o]) \in Nat
      /\ DOMAIN unsaid[o] = 1 .. Len(unsaid[o]) /\ i \in 1 .. Len(unsaid[o])
      /\ wire.events \in Seq(Events) /\ DOMAIN wire.events = 1 .. Len(wire.events) /\ Len(wire.events) \in Nat
  BY <1>1, LenProperties DEF PanelType, Panel!Publishable
<1>5. ev \in Events /\ ev.id = o /\ ev = Event(o, ev.what)
  <2>1. ev \in Events /\ ev.id = o
    BY <1>1, <1>4, ElementOfSeq DEF PanelType
  <2> QED BY <2>1 DEF Events, Event
<1>6. /\ after \in Seq(Events) /\ Len(after) = Len(unsaid[o]) - 1 /\ DOMAIN after = 1 .. Len(unsaid[o]) - 1
      /\ \A j \in 1 .. Len(unsaid[o]) - 1 : after[j] = IF j < i THEN unsaid[o][j] ELSE unsaid[o][j + 1]
  <2>1. /\ after \in Seq(Events) /\ Len(after) = Len(unsaid[o]) - 1
        /\ \A j \in 1 .. Len(unsaid[o]) - 1 : after[j] = IF j < i THEN unsaid[o][j] ELSE unsaid[o][j + 1]
    BY <1>4, DroppedIs
  <2> HIDE DEF after
  <2>2. DOMAIN after = 1 .. Len(after)
    BY <2>1, LenProperties
  <2> QED BY <2>1, <2>2
<1>7. unsaid'[o] = after /\ unsaid' \in [Ops -> Seq(Events)] /\ \A p \in Ops \ {o} : unsaid'[p] = unsaid[p]
  <2> HIDE DEF after
  <2>1. unsaid' = [unsaid EXCEPT ![o] = after]
    BY <1>3 DEF after
  <2> QED BY <1>4, <1>6, <2>1
<1>81. /\ \A w : Carries(unsaid[o], o, w) <=> Carries(after, o, w) \/ ev = Event(o, w)
       /\ Ahead(unsaid[o], o) /\ ev # Event(o, "refused") => Ahead(after, o)
  BY <1>4, DroppedCarries
<1>8. \A w : Carries(unsaid[o], o, w) <=> Carries(unsaid'[o], o, w) \/ ev = Event(o, w)
  BY <1>7, <1>81
<1>9. Ahead(unsaid[o], o) /\ ev # Event(o, "refused") => Ahead(unsaid'[o], o)
  BY <1>7, <1>81
<1>10. wire.up => \A p \in Ops : /\ \A w : Carries(wire'.events, p, w) <=> Carries(wire.events, p, w) \/ ev = Event(p, w)
                                 /\ Ahead(wire.events, p) => Ahead(wire'.events, p)
                                 /\ ev = Event(p, "refused") /\ ~Carries(wire.events, p, "ended") => Ahead(wire'.events, p)
  <2> HIDE DEF ev
  <2>1. wire.up => wire'.events = Append(wire.events, ev)
    BY <1>1, <1>3 DEF ev, PanelType
  <2>2. \A p \in Ops :
          /\ \A w : Carries(Append(wire.events, ev), p, w) <=> Carries(wire.events, p, w) \/ ev = Event(p, w)
          /\ Ahead(wire.events, p) => Ahead(Append(wire.events, ev), p)
          /\ ev = Event(p, "refused") /\ ~Carries(wire.events, p, "ended") => Ahead(Append(wire.events, ev), p)
    BY <1>4, <1>5, AppendCarries
  <2> QED BY <2>1, <2>2
<1>11. wire.up => /\ wire'.events \in Seq(Events) /\ Len(wire'.events) = Len(wire.events) + 1
                  /\ DOMAIN wire'.events = 1 .. Len(wire.events) + 1
                  /\ \A j \in 1 .. Len(wire.events) : wire'.events[j] = wire.events[j]
                  /\ wire'.events[Len(wire.events) + 1] = ev
  <2> HIDE DEF ev
  <2>1. wire.up => wire'.events = Append(wire.events, ev)
    BY <1>1, <1>3 DEF ev, PanelType
  <2>2. /\ Append(wire.events, ev) \in Seq(Events)
        /\ Len(Append(wire.events, ev)) = Len(wire.events) + 1
        /\ \A j \in 1 .. Len(wire.events) : Append(wire.events, ev)[j] = wire.events[j]
        /\ Append(wire.events, ev)[Len(wire.events) + 1] = ev
    BY <1>4, <1>5, AppendProperties
  <2>3. DOMAIN Append(wire.events, ev) = 1 .. Len(wire.events) + 1
    BY <2>2, LenProperties
  <2> QED BY <2>1, <2>2, <2>3
<1>12. (wire.up /\ missed' = missed) \/ (missed' = TRUE /\ UNCHANGED wire)
  <2>1. CASE wire.up
    <3>1. UNCHANGED missed
      BY <1>3, <2>1
    <3> QED BY <2>1, <3>1
  <2>2. CASE ~wire.up
    <3>1. missed' = TRUE /\ UNCHANGED wire
      BY <1>3, <2>2
    <3> QED BY <3>1
  <2> QED BY <2>1, <2>2
<1>23. \A j \in DOMAIN wire'.events :
        \/ j \in DOMAIN wire.events /\ wire'.events[j] = wire.events[j]
        \/ j = Len(wire.events) + 1 /\ wire'.events[j] = ev
  <2> HIDE DEF ev
  <2>1. CASE wire.up
    <3>1. ASSUME NEW j \in DOMAIN wire'.events
          PROVE  j \in 1 .. Len(wire.events) \/ j = Len(wire.events) + 1
      BY <1>4, <1>11, <2>1
    <3> QED BY <1>4, <1>11, <2>1, <3>1
  <2>2. CASE UNCHANGED wire
    BY <2>2
  <2> QED BY <1>12, <2>1, <2>2
<1>13. \A p \in Ops : \A w : /\ InFlight(p, w)' => InFlight(p, w)
                             /\ ~missed' /\ InFlight(p, w) => InFlight(p, w)'
  <2> TAKE p \in Ops
  <2> TAKE w
  <2>1. CASE p # o
    <3>1. ev # Event(p, w)
      BY <1>5, <2>1 DEF Event
    <3> QED BY <1>7, <1>10, <1>12, <2>1, <3>1 DEF InFlight
  <2>2. CASE p = o
    BY <1>8, <1>10, <1>12, <2>2 DEF InFlight
  <2> QED BY <2>1, <2>2
<1> HIDE DEF ev, after
<1>14. PanelType'
  <2>1. wire' \in [up : BOOLEAN, events : Seq(Events)]
    BY <1>1, <1>3, <1>11 DEF PanelType
  <2>2. missed' \in BOOLEAN /\ overtaken' \in BOOLEAN
    BY <1>1, <1>3, <1>12 DEF PanelType
  <2>3. \A p \in Ops : \A j \in DOMAIN unsaid'[p] : unsaid'[p][j].id = p
    <3> SUFFICES ASSUME NEW p \in Ops, NEW j \in DOMAIN unsaid'[p] PROVE unsaid'[p][j].id = p
      OBVIOUS
    <3>1. CASE p = o
      <4>1. j \in 1 .. Len(unsaid[o]) - 1 /\ unsaid'[o][j] \in {unsaid[o][j], unsaid[o][j + 1]}
        BY <1>6, <1>7, <3>1
      <4>2. j \in DOMAIN unsaid[o] /\ j + 1 \in DOMAIN unsaid[o]
        BY <1>4, <4>1
      <4> QED BY <1>1, <3>1, <4>1, <4>2 DEF PanelType
    <3>2. CASE p # o
      BY <1>1, <1>7, <3>2 DEF PanelType
    <3> QED BY <3>1, <3>2
  <2> QED BY <1>1, <1>2, <1>7, <2>1, <2>2, <2>3 DEF PanelType
<1>15. row[o] # "absent"
  BY <1>1, <1>4, EmptySeq DEF OfRows
<1>16. OfRows'
  <2>1. \A p \in Ops : unsaid'[p] # <<>> => row[p] # "absent"
    BY <1>1, <1>7, <1>15 DEF OfRows
  <2>2. \A j \in DOMAIN wire'.events : row[wire'.events[j].id] # "absent"
    BY <1>1, <1>2, <1>5, <1>15, <1>23 DEF OfRows
  <2> QED BY <1>1, <1>2, <2>1, <2>2 DEF OfRows
<1>17. EndIsTold'
  BY <1>1, <1>2, <1>12, <1>13 DEF EndIsTold
<1>18. SaidLast'
  <2> SUFFICES ASSUME NEW p \in Ops, NEW j \in DOMAIN unsaid'[p], unsaid'[p][j].what = "ended"
               PROVE  j = Len(unsaid'[p])
    BY DEF SaidLast
  <2>1. CASE p = o
    <3>1. j \in 1 .. Len(unsaid[o]) - 1 /\ unsaid'[o][j] = IF j < i THEN unsaid[o][j] ELSE unsaid[o][j + 1]
      BY <1>6, <1>7, <2>1
    <3>2. j \in DOMAIN unsaid[o] /\ j + 1 \in DOMAIN unsaid[o]
      BY <1>4, <3>1
    <3>3. CASE j < i
      <4>1. unsaid[o][j].what = "ended"
        BY <2>1, <3>1, <3>3
      <4> QED BY <1>1, <1>4, <3>1, <3>2, <4>1 DEF SaidLast
    <3>4. CASE ~(j < i)
      <4>1. unsaid[o][j + 1].what = "ended"
        BY <2>1, <3>1, <3>4
      <4>2. j + 1 = Len(unsaid[o])
        BY <1>1, <3>2, <4>1 DEF SaidLast
      <4> QED BY <1>4, <1>6, <1>7, <2>1, <4>2
    <3> QED BY <3>3, <3>4
  <2>2. CASE p # o
    BY <1>1, <1>7, <2>2 DEF SaidLast
  <2> QED BY <2>1, <2>2
<1>19. HeardLast'
  <2> SUFFICES ASSUME ~overtaken' PROVE HeardLast'
    BY DEF HeardLast
  <2>1. ~overtaken /\ (ev.what = "ended" => i = 1)
    <3>1. ~(overtaken \/ (ev.what = "ended" /\ i > 1))
      BY <1>3 DEF ev
    <3> QED BY <1>4, <3>1
  <2>2. ev.what = "ended" => unsaid'[o] = <<>>
    <3> SUFFICES ASSUME ev.what = "ended" PROVE unsaid'[o] = <<>>
      OBVIOUS
    <3>1. i = 1 /\ i = Len(unsaid[o])
      BY <1>1, <1>4, <2>1 DEF SaidLast, ev
    <3> QED BY <1>6, <1>7, <3>1, EmptySeq
  <2>3. settled[o] = "no" /\ unsaid[o] # <<>>
    BY <1>1, <1>4, <2>1, EmptySeq DEF HeardLast, Over
  <2>4. \A p \in Ops : settled[p] # "no" => Over(p)'
    <3> SUFFICES ASSUME NEW p \in Ops, settled[p] # "no" PROVE Over(p)'
      OBVIOUS
    <3>1. p # o /\ Over(p)
      BY <1>1, <2>1, <2>3 DEF HeardLast
    <3> QED BY <1>5, <1>7, <1>23, <3>1 DEF Over
  <2>5. \A k \in DOMAIN wire.events : wire.events[k].what = "ended" => wire.events[k].id # o
    BY <1>1, <2>1, <2>3 DEF HeardLast
  <2>6. \A k \in DOMAIN wire.events : wire.events[k].id \in Ops
    BY <1>1, EventsOfOps DEF PanelType
  <2>7. \A k \in DOMAIN wire'.events : wire'.events[k].what = "ended" =>
          /\ unsaid'[wire'.events[k].id] = <<>>
          /\ \A j \in DOMAIN wire'.events : k < j => wire'.events[j].id # wire'.events[k].id
    <3> SUFFICES ASSUME NEW k \in DOMAIN wire'.events, wire'.events[k].what = "ended"
                 PROVE  /\ unsaid'[wire'.events[k].id] = <<>>
                        /\ \A j \in DOMAIN wire'.events : k < j => wire'.events[j].id # wire'.events[k].id
      OBVIOUS
    <3>1. CASE k \in DOMAIN wire.events
      <4>1. wire'.events[k] = wire.events[k]
        BY <1>4, <1>23, <3>1
      <4>2. wire.events[k].id # o /\ wire.events[k].id \in Ops
        BY <2>5, <2>6, <3>1, <4>1
      <4>3. /\ unsaid[wire.events[k].id] = <<>>
            /\ \A j \in DOMAIN wire.events : k < j => wire.events[j].id # wire.events[k].id
        BY <1>1, <2>1, <3>1, <4>1 DEF HeardLast
      <4> QED BY <1>5, <1>7, <1>23, <4>1, <4>2, <4>3
    <3>2. CASE k \notin DOMAIN wire.events
      BY <1>4, <1>5, <1>11, <1>12, <2>2, <3>2
    <3> QED BY <3>1, <3>2
  <2> QED BY <1>2, <2>4, <2>7 DEF HeardLast
<1>20. BusyUnsettled'
  BY <1>1, <1>2, <1>3 DEF BusyUnsettled, Panel!Busy
<1>21. LaneIsTold'
  <2>1. Panel!LiveOps' = Panel!LiveOps /\ Panel!LiveOps \subseteq Ops
    BY <1>2 DEF Panel!LiveOps
  <2> QED BY <1>1, <1>2, <1>12, <1>13, <2>1 DEF LaneIsTold
<1>22. RefusalIsTold'
  <2> SUFFICES ASSUME ~missed', NEW p \in refused
               PROVE  /\ settled[p] # "done"
                      /\ p \in unsent \/ Ahead(wire'.events, p)
                           \/ (~Carries(wire'.events, p, "ended") /\ Ahead(unsaid'[p], p))
    BY <1>2 DEF RefusalIsTold
  <2>1. ~missed /\ wire.up /\ p \in Ops
    BY <1>1, <1>12 DEF PanelType
  <2>2. CASE p \in unsent \/ Ahead(wire.events, p)
    BY <1>1, <1>10, <2>1, <2>2 DEF RefusalIsTold
  <2>3. CASE ~Carries(wire.events, p, "ended") /\ Ahead(unsaid[p], p)
    <3>1. CASE p # o
      <4>1. ev # Event(p, "ended")
        BY <1>5, <3>1 DEF Event
      <4> QED BY <1>1, <1>7, <1>10, <2>1, <2>3, <3>1, <4>1 DEF RefusalIsTold
    <3>2. CASE p = o /\ ev = Event(o, "refused")
      BY <1>1, <1>10, <2>1, <2>3, <3>2 DEF RefusalIsTold
    <3>3. CASE p = o /\ ev # Event(o, "refused")
      <4>1. ev # Event(o, "ended")
        <5>1. PICK k \in DOMAIN unsaid[o] :
                unsaid[o][k] = Event(o, "refused") /\ \A j \in 1 .. k - 1 : unsaid[o][j] # Event(o, "ended")
          BY <2>3, <3>3 DEF Ahead
        <5>2. k # i
          BY <3>3, <5>1 DEF ev
        <5>3. CASE k < i
          <6>1. unsaid[o][k].what = "refused"
            BY <5>1 DEF Event
          <6>2. ev.what = "queued"
            BY <1>3, <1>4, <5>3, <6>1 DEF Panel!Publishable, ev
          <6> QED BY <6>2 DEF Event
        <5>4. CASE i < k
          BY <1>4, <5>1, <5>4 DEF ev
        <5> QED BY <1>4, <5>2, <5>3, <5>4
      <4> QED BY <1>1, <1>9, <1>10, <2>1, <2>3, <3>3, <4>1 DEF RefusalIsTold
    <3> QED BY <3>1, <3>2, <3>3
  <2> QED BY <1>1, <2>1, <2>2, <2>3 DEF RefusalIsTold
<1> QED
  BY <1>14, <1>16, <1>17, <1>18, <1>19, <1>20, <1>21, <1>22 DEF PanelInv

(* The oldest and the newest of some operations are among them.               *)
LEMMA LeastIs ==
  ASSUME NEW S, S \subseteq Nat, S # {}
  PROVE  \E n \in S : \A m \in S : n <= m
<1> DEFINE Below == {e \in Nat \X Nat : e[1] < e[2]}
<1>1. IsWellFoundedOn(Below, Nat)
  BY NatLessThanWellFounded DEF OpToRel
<1>2. PICK n \in S : \A m \in S : <<m, n>> \notin Below
  BY <1>1, WFMin
<1>3. \A m \in S : m \in Nat /\ n \in Nat /\ ~(m < n)
  BY <1>2
<1>4. \A m \in S : n <= m
  BY <1>3
<1> QED
  BY <1>4

LEMMA OldestIs ==
  ASSUME NEW S \in SUBSET Ops, S # {}
  PROVE  Panel!Oldest(S) \in S
<1>1. S \subseteq Nat
  BY PanelAssumption, FS_CardinalityType
<1>2. PICK n \in S : \A m \in S : n <= m
  BY <1>1, LeastIs
<1> QED
  BY <1>2 DEF Panel!Oldest

LEMMA NewestIs ==
  ASSUME NEW S \in SUBSET Ops, S # {}
  PROVE  Panel!Newest(S) \in S
<1> DEFINE N == Cardinality(Ops)
           T == {N - o : o \in S}
<1>1. N \in Nat /\ \A o \in S : o \in 1 .. N
  BY PanelAssumption, FS_CardinalityType
<1>2. T \subseteq Nat /\ T # {}
  BY <1>1
<1>3. PICK d \in T : \A e \in T : d <= e
  BY <1>2, LeastIs
<1>4. PICK o \in S : d = N - o
  OBVIOUS
<1>5. \A p \in S : o >= p
  <2> SUFFICES ASSUME NEW p \in S PROVE o >= p
    OBVIOUS
  <2>1. d <= N - p
    BY <1>3
  <2> QED BY <1>1, <1>4, <2>1
<1> QED
  BY <1>5 DEF Panel!Newest

-----------------------------------------------------------------------------
(* The stream breaks and comes back; the ledger is read.                      *)
LEMMA StreamKeeps ==
  ASSUME PanelInv, Panel!Gap \/ Panel!Reopen
  PROVE  PanelInv'
<1>1. PanelType /\ OfRows /\ EndIsTold /\ SaidLast /\ HeardLast /\ BusyUnsettled /\ LaneIsTold /\ RefusalIsTold
  BY DEF PanelInv
<1>2. UNCHANGED <<row, unsaid, routed, refused, overtaken, active, cur, settled, unsent, asked, answers,
                  onScreen, sync, seed>>
  BY DEF Panel!Gap, Panel!Reopen, Panel!lane, Panel!hist, Panel!panel, Panel!btn
<1>3. (wire'.events = wire.events /\ (missed' => missed \/ wire.events # <<>>) /\ (missed => missed'))
      \/ (wire'.events = <<>> /\ missed' = TRUE)
  <2>1. CASE Panel!Reopen
    BY <1>1, <2>1 DEF Panel!Reopen, Panel!hist, PanelType
  <2>2. CASE Panel!Gap /\ wire.events = <<>>
    BY <1>1, <2>2 DEF Panel!Gap, PanelType
  <2>3. CASE Panel!Gap /\ wire.events # <<>>
    BY <1>1, <2>3 DEF Panel!Gap, PanelType
  <2> QED BY <2>1, <2>2, <2>3
<1>4. wire' \in [up : BOOLEAN, events : Seq(Events)] /\ missed' \in BOOLEAN
  <2>1. CASE Panel!Reopen
    BY <1>1, <2>1 DEF Panel!Reopen, Panel!hist, PanelType
  <2>2. CASE Panel!Gap
    <3>1. <<>> \in Seq(Events)
      OBVIOUS
    <3>2. wire' = [up |-> FALSE, events |-> <<>>] /\ missed' = (missed \/ wire.events # <<>>)
      BY <2>2 DEF Panel!Gap
    <3> QED BY <3>1, <3>2
  <2> QED BY <2>1, <2>2
<1>5. /\ \A p \in Ops : \A w : InFlight(p, w)' => InFlight(p, w)
      /\ ~missed' => \A p \in Ops : \A w : InFlight(p, w)' <=> InFlight(p, w)
  <2>1. \A p \in Ops : \A w : ~Carries(<<>>, p, w)
    BY EmptySeq DEF Carries
  <2> QED BY <1>2, <1>3, <2>1 DEF InFlight
<1>6. ~missed' => ~missed /\ wire'.events = wire.events
  BY <1>3
<1>7. wire'.events = wire.events \/ DOMAIN wire'.events = {}
  BY <1>3, EmptySeq
<1>8. PanelType' /\ OfRows' /\ EndIsTold' /\ SaidLast'
  <2>1. PanelType'
    BY <1>1, <1>2, <1>4 DEF PanelType
  <2>2. OfRows'
    BY <1>1, <1>2, <1>7 DEF OfRows
  <2>3. EndIsTold'
    BY <1>1, <1>2, <1>5, <1>6 DEF EndIsTold
  <2>4. SaidLast'
    BY <1>1, <1>2 DEF SaidLast
  <2> QED BY <2>1, <2>2, <2>3, <2>4
<1>9. HeardLast'
  BY <1>1, <1>2, <1>7 DEF HeardLast, Over
<1>10. BusyUnsettled'
  BY <1>1, <1>2 DEF BusyUnsettled, Panel!Busy
<1>11. LaneIsTold'
  <2>1. Panel!LiveOps' = Panel!LiveOps /\ Panel!LiveOps \subseteq Ops
    BY <1>2 DEF Panel!LiveOps
  <2> QED BY <1>1, <1>2, <1>5, <1>6, <2>1 DEF LaneIsTold
<1>12. RefusalIsTold'
  BY <1>1, <1>2, <1>6 DEF RefusalIsTold
<1> QED
  BY <1>8, <1>9, <1>10, <1>11, <1>12 DEF PanelInv

LEMMA LedgerKeeps ==
  ASSUME PanelInv, Panel!AnswerLedger \/ Panel!LedgerFails
  PROVE  PanelInv'
<1>1. PanelType /\ OfRows /\ EndIsTold /\ SaidLast /\ HeardLast /\ BusyUnsettled /\ LaneIsTold /\ RefusalIsTold
  BY DEF PanelInv
<1>2. /\ UNCHANGED <<row, unsaid, routed, refused, wire, overtaken, active, cur, settled, unsent, onScreen, sync, seed>>
      /\ asked' \in BOOLEAN
  BY DEF Panel!AnswerLedger, Panel!LedgerFails, Panel!lane, Panel!hist, Panel!btn
<1>3. \/ answers' = answers \cup {Panel!LiveOps} /\ UNCHANGED missed
      \/ UNCHANGED answers /\ missed' = TRUE
  BY DEF Panel!AnswerLedger, Panel!LedgerFails, Panel!hist
<1>4. Panel!LiveOps' = Panel!LiveOps /\ Panel!LiveOps \subseteq Ops
      /\ \A o \in Panel!LiveOps : row[o] # "absent"
  BY <1>2 DEF Panel!LiveOps, Panel!Live
<1>5. \A p \in Ops : \A w : InFlight(p, w)' <=> InFlight(p, w)
  BY <1>2 DEF InFlight
<1>6. ~missed' => ~missed /\ Panel!LiveOps \in answers'
  BY <1>3
<1>7. PanelType'
  <2>1. answers \subseteq SUBSET Ops /\ missed \in BOOLEAN
    BY <1>1 DEF PanelType
  <2>2. {Panel!LiveOps} \subseteq SUBSET Ops
    BY <1>4
  <2>3. answers' \subseteq SUBSET Ops /\ missed' \in BOOLEAN
    BY <1>3, <2>1, <2>2
  <2> QED BY <1>1, <1>2, <2>3 DEF PanelType
<1>8. OfRows'
  BY <1>1, <1>2, <1>3, <1>4 DEF OfRows
<1>9. EndIsTold'
  BY <1>1, <1>2, <1>5, <1>6 DEF EndIsTold
<1>10. SaidLast' /\ HeardLast'
  BY <1>1, <1>2 DEF SaidLast, HeardLast, Over
<1>11. BusyUnsettled'
  BY <1>1, <1>2 DEF BusyUnsettled, Panel!Busy
<1>12. LaneIsTold'
  BY <1>4, <1>6 DEF LaneIsTold
<1>13. RefusalIsTold'
  BY <1>1, <1>2, <1>6 DEF RefusalIsTold
<1> QED
  BY <1>7, <1>8, <1>9, <1>10, <1>11, <1>12, <1>13 DEF PanelInv

LEMMA LandKeeps ==
  ASSUME PanelInv, NEW read \in answers, Panel!Land(read)
  PROVE  PanelInv'
<1>1. PanelType /\ OfRows /\ EndIsTold /\ SaidLast /\ HeardLast /\ BusyUnsettled /\ LaneIsTold /\ RefusalIsTold
  BY DEF PanelInv
<1>2. /\ UNCHANGED <<row, unsaid, routed, refused, wire, missed, overtaken, gaps, settled, unsent, asked,
                     onScreen, sync, seed>>
      /\ answers' = answers \ {read} /\ active' = active \cup read
      /\ cur' = IF cur = Panel!None /\ read # {} THEN [id |-> Panel!Oldest(read), state |-> "running"] ELSE cur
  BY DEF Panel!Land, Panel!lane, Panel!hist, Panel!btn
<1>3. read \subseteq Ops /\ \A o \in read : row[o] # "absent"
  BY <1>1 DEF PanelType, OfRows
<1>4. \/ UNCHANGED cur
      \/ cur = Panel!None /\ \E o \in read : cur' = [id |-> o, state |-> "running"]
  BY <1>2, <1>3, OldestIs
<1>5. PanelType'
  <2>1. cur' \in {Panel!None} \cup [id : Ops, state : {"queued", "running", "ended"}]
    BY <1>1, <1>3, <1>4 DEF PanelType
  <2>2. active' \subseteq Ops /\ answers' \subseteq SUBSET Ops
    BY <1>1, <1>2, <1>3 DEF PanelType
  <2> QED BY <1>1, <1>2, <2>1, <2>2 DEF PanelType
<1>6. OfRows'
  <2>1. cur' # Panel!None => row[cur'.id] # "absent"
    BY <1>1, <1>3, <1>4 DEF OfRows
  <2> QED BY <1>1, <1>2, <2>1 DEF OfRows
<1>7. EndIsTold'
  BY <1>1, <1>2 DEF EndIsTold, InFlight
<1>8. SaidLast' /\ HeardLast'
  BY <1>1, <1>2 DEF SaidLast, HeardLast, Over
<1>9. BusyUnsettled'
  <2>1. CASE UNCHANGED cur
    BY <1>1, <1>2, <2>1 DEF BusyUnsettled, Panel!Busy
  <2>2. CASE cur = Panel!None /\ \E o \in read : cur' = [id |-> o, state |-> "running"]
    <3>1. PICK o \in read : cur' = [id |-> o, state |-> "running"]
      BY <2>2
    <3>2. cur'.id = o /\ cur'.state = "running" /\ settled[o] = "no" /\ cur' # Panel!None
      <4>1. o # 0
        BY <1>3, PanelAssumption, FS_CardinalityType
      <4> QED BY <1>1, <1>3, <2>2, <3>1, <4>1 DEF BusyUnsettled, Panel!None
    <3> QED BY <1>1, <1>2, <3>2 DEF BusyUnsettled, Panel!Busy
  <2> QED BY <1>4, <2>1, <2>2
<1>10. LaneIsTold'
  BY <1>1, <1>2 DEF LaneIsTold, InFlight, Panel!LiveOps
<1>11. RefusalIsTold'
  BY <1>1, <1>2 DEF RefusalIsTold
<1> QED
  BY <1>5, <1>6, <1>7, <1>8, <1>9, <1>10, <1>11 DEF PanelInv

(* The Sync button comes and goes, and seeds itself.                          *)
LEMMA ButtonKeeps ==
  ASSUME PanelInv, Panel!Show \/ Panel!Leave \/ Panel!AnswerSeed \/ Panel!LandSeed
  PROVE  PanelInv'
<1>1. PanelType /\ OfRows /\ EndIsTold /\ SaidLast /\ HeardLast /\ BusyUnsettled /\ LaneIsTold /\ RefusalIsTold
  BY DEF PanelInv
<1>2. UNCHANGED <<row, unsaid, routed, refused, wire, missed, overtaken, gaps, active, cur, settled, unsent,
                  asked, answers>>
  BY DEF Panel!Show, Panel!Leave, Panel!AnswerSeed, Panel!LandSeed, Panel!lane, Panel!hist, Panel!panel
<1>3. EndIsTold' /\ SaidLast' /\ HeardLast'
  BY <1>1, <1>2 DEF EndIsTold, InFlight, SaidLast, HeardLast, Over
<1>4. LaneIsTold' /\ RefusalIsTold'
  BY <1>1, <1>2 DEF LaneIsTold, InFlight, Panel!LiveOps, RefusalIsTold
<1>5. Syncs \subseteq Ops /\ 0 \notin Ops
  BY PanelAssumption, FS_CardinalityType
<1>6. PanelType' /\ OfRows' /\ BusyUnsettled'
  <2>1. CASE Panel!Show
    <3>1. sync = Panel!None
      BY <1>1, <2>1 DEF BusyUnsettled, Panel!Show
    <3> QED BY <1>1, <1>2, <2>1, <3>1 DEF PanelType, OfRows, BusyUnsettled, Panel!Busy, Panel!Show
  <2>2. CASE Panel!Leave
    <3>1. ~Panel!Busy(Panel!None)
      BY DEF Panel!Busy, Panel!Live, Panel!None
    <3>2. PanelType'
      BY <1>1, <1>2, <2>2 DEF PanelType, Panel!Leave
    <3>3. OfRows'
      BY <1>1, <1>2, <2>2 DEF OfRows, Panel!Leave
    <3> QED BY <1>1, <1>2, <2>2, <3>1, <3>2, <3>3 DEF BusyUnsettled, Panel!Busy, Panel!Leave
  <2>3. CASE Panel!AnswerSeed
    <3>1. \A o \in Panel!LiveOps : o \in Ops /\ row[o] # "absent" /\ row[o] # "ended"
      BY DEF Panel!LiveOps, Panel!Live
    <3>2. \A o \in Panel!LiveOps : settled[o] = "no"
      BY <1>1, <3>1 DEF EndIsTold
    <3> QED BY <1>1, <1>2, <2>3, <3>1, <3>2
            DEF PanelType, OfRows, BusyUnsettled, Panel!Busy, Panel!AnswerSeed
  <2>4. CASE Panel!LandSeed /\ ~(sync = Panel!None /\ seed.live # {})
    BY <1>1, <1>2, <2>4 DEF PanelType, OfRows, BusyUnsettled, Panel!Busy, Panel!LandSeed
  <2>5. CASE Panel!LandSeed /\ sync = Panel!None /\ seed.live # {}
    <3>1. seed.live \subseteq Syncs
      BY <1>1 DEF PanelType
    <3>2. PICK o \in seed.live : sync' = [id |-> o, state |-> "running"]
      BY <1>5, <2>5, <3>1, NewestIs DEF Panel!LandSeed
    <3>3. o \in Syncs /\ o \in Ops /\ row[o] # "absent" /\ settled[o] = "no" /\ onScreen
      BY <1>1, <1>5, <2>5, <3>1 DEF OfRows, BusyUnsettled, Panel!LandSeed
    <3>4. sync' # Panel!None /\ sync'.id = o /\ sync' \in [id : Syncs, state : Whats]
      BY <1>5, <3>2, <3>3 DEF Panel!None, Whats
    <3>5. UNCHANGED onScreen /\ seed' = [at |-> "none", live |-> {}]
      BY <2>5 DEF Panel!LandSeed
    <3> QED BY <1>1, <1>2, <3>3, <3>4, <3>5 DEF PanelType, OfRows, BusyUnsettled, Panel!Busy
  <2> QED BY <2>1, <2>2, <2>3, <2>4, <2>5
<1> QED
  BY <1>3, <1>4, <1>6 DEF PanelInv

(* The page hears an event.                                                  *)
LEMMA HearKeeps ==
  ASSUME PanelInv, Panel!Hear
  PROVE  PanelInv'
<1>1. PanelType /\ OfRows /\ EndIsTold /\ SaidLast /\ HeardLast /\ BusyUnsettled /\ LaneIsTold /\ RefusalIsTold
  BY DEF PanelInv
<1>2. UNCHANGED <<row, unsaid, routed, refused, missed, overtaken, gaps, answers, onScreen, seed>>
  BY DEF Panel!Hear, Panel!lane, Panel!hist
<1>3. /\ wire.events \in Seq(Events) /\ wire.events # <<>> /\ Len(wire.events) \in Nat /\ Len(wire.events) > 0
      /\ DOMAIN wire.events = 1 .. Len(wire.events) /\ Head(wire.events) = wire.events[1]
  BY <1>1, LenProperties, EmptySeq DEF PanelType, Panel!Hear
<1>26. PICK ev \in Events : ev = wire.events[1]
  BY <1>3, EventsOfOps
<1> DEFINE o == ev.id
<1>4. o \in Ops /\ ev.what \in Whats /\ ev = Event(o, ev.what) /\ row[o] # "absent"
  <2>1. o \in Ops /\ ev = Event(o, ev.what) /\ row[o] # "absent"
    BY <1>1, <1>3, <1>26, EventsOfOps DEF OfRows
  <2> QED BY <2>1 DEF Events
<1>5. /\ wire' \in [up : BOOLEAN, events : Seq(Events)] /\ wire'.events = Tail(wire.events)
      /\ DOMAIN wire'.events = 1 .. Len(wire.events) - 1
      /\ \A j \in 1 .. Len(wire.events) - 1 : wire'.events[j] = wire.events[j + 1]
  <2>1. wire' = [wire EXCEPT !.events = Tail(wire.events)]
    BY DEF Panel!Hear
  <2>2. /\ Tail(wire.events) \in Seq(Events) /\ Len(Tail(wire.events)) = Len(wire.events) - 1
        /\ \A j \in 1 .. Len(Tail(wire.events)) : Tail(wire.events)[j] = wire.events[j + 1]
    BY <1>3, HeadTailProperties
  <2>3. DOMAIN Tail(wire.events) = 1 .. Len(Tail(wire.events))
    BY <2>2, LenProperties
  <2>4. wire' \in [up : BOOLEAN, events : Seq(Events)] /\ wire'.events = Tail(wire.events)
    BY <1>1, <2>1, <2>2 DEF PanelType
  <2> QED BY <2>2, <2>3, <2>4
<1>6. \A p \in Ops : /\ \A w : Carries(wire.events, p, w) <=> Carries(wire'.events, p, w) \/ ev = Event(p, w)
                     /\ Ahead(wire.events, p) =>
                          ev = Event(p, "refused") \/ (ev # Event(p, "ended") /\ Ahead(wire'.events, p))
  BY <1>3, <1>5, <1>26, TailCarries
<1>7. /\ ev.what \in {"queued", "running"} =>
           /\ active' = active \cup {o} /\ cur' = Panel!TakeOver(o, ev.what) /\ asked' \in {asked, TRUE}
           /\ UNCHANGED <<settled, unsent>>
      /\ ev.what = "ended" =>
           /\ active' = active \ {o} /\ settled' = [settled EXCEPT ![o] = Panel!Outcome(o)]
           /\ cur' = Panel!TakeOver(o, "ended") /\ asked' \in {asked, TRUE} /\ UNCHANGED unsent
      /\ ev.what = "sending" =>
           /\ cur' = IF cur.id = o THEN cur ELSE [id |-> o, state |-> "running"]
           /\ UNCHANGED <<active, settled, unsent, asked>>
      /\ ev.what = "refused" =>
           unsent' = unsent \cup {o} /\ UNCHANGED <<active, settled, cur, asked>>
  BY <1>3, <1>26 DEF Panel!Hear, Panel!PanelHears, Panel!Enrich, Panel!Live
<1>8. sync' = IF onScreen /\ o \in Syncs THEN [id |-> o, state |-> ev.what] ELSE sync
  BY <1>3, <1>26 DEF Panel!Hear, Panel!ButtonHears
<1>9. ev.what \in {"queued", "running"} \/ ev.what = "ended" \/ ev.what = "sending" \/ ev.what = "refused"
  BY <1>4 DEF Whats
<1>10. \/ UNCHANGED cur
       \/ cur' = [id |-> o, state |-> "ended"] /\ ev.what = "ended"
       \/ cur' = [id |-> o, state |-> ev.what] /\ ev.what \in {"queued", "running"}
       \/ cur' = [id |-> o, state |-> "running"] /\ ev.what = "sending"
  BY <1>7, <1>9 DEF Panel!TakeOver
<1>11. settled' = (IF ev.what = "ended" THEN [settled EXCEPT ![o] = Panel!Outcome(o)] ELSE settled)
       /\ active' \subseteq active \cup {o} /\ unsent \subseteq unsent' /\ unsent' \subseteq unsent \cup {o}
       /\ asked' \in {asked, TRUE}
  BY <1>7, <1>9
<1>12. Panel!Outcome(o) \in {"done", "not_sent"}
  BY DEF Panel!Outcome
<1>13. \A p \in Ops : \A w : InFlight(p, w) <=> InFlight(p, w)' \/ ev = Event(p, w)
  BY <1>2, <1>6 DEF InFlight
<1>14. PanelType'
  <2>1. cur' \in {Panel!None} \cup [id : Ops, state : {"queued", "running", "ended"}]
    BY <1>1, <1>4, <1>10 DEF PanelType
  <2>2. settled' \in [Ops -> {"no", "done", "not_sent"}]
    BY <1>1, <1>4, <1>11, <1>12 DEF PanelType
  <2>3. sync' \in {Panel!None} \cup [id : Syncs, state : Whats]
    BY <1>1, <1>4, <1>8 DEF PanelType
  <2>4. active' \subseteq Ops /\ unsent' \subseteq Ops /\ asked' \in BOOLEAN
    BY <1>1, <1>4, <1>11 DEF PanelType
  <2> QED BY <1>1, <1>2, <1>5, <2>1, <2>2, <2>3, <2>4 DEF PanelType
<1>15. OfRows'
  <2>1. cur' # Panel!None => row[cur'.id] # "absent"
    BY <1>1, <1>4, <1>10 DEF OfRows
  <2>2. sync' # Panel!None => row[sync'.id] # "absent"
    BY <1>1, <1>4, <1>8 DEF OfRows
  <2>3. ASSUME NEW j \in DOMAIN wire'.events PROVE row[wire'.events[j].id] # "absent"
    <3>1. j + 1 \in DOMAIN wire.events /\ wire'.events[j] = wire.events[j + 1]
      BY <1>3, <1>5
    <3> QED BY <1>1, <3>1 DEF OfRows
  <2> QED BY <1>1, <1>2, <2>1, <2>2, <2>3 DEF OfRows
<1>16. ev.what = "ended" => row[o] = "ended" /\ settled'[o] # "no"
  <2> SUFFICES ASSUME ev.what = "ended" PROVE row[o] = "ended" /\ settled'[o] # "no"
    OBVIOUS
  <2>1. InFlight(o, "ended")
    BY <1>4, <1>13
  <2> QED BY <1>1, <1>4, <1>11, <1>12, <2>1 DEF EndIsTold, PanelType
<1>17. \A p \in Ops : /\ settled'[p] = settled[p] \/ (p = o /\ ev.what = "ended")
                      /\ settled[p] # "no" => settled'[p] # "no"
  BY <1>1, <1>4, <1>11, <1>12 DEF PanelType
<1>18. EndIsTold'
  <2>1. \A p \in Ops : ev = Event(p, "ended") => p = o /\ ev.what = "ended"
    BY DEF Event
  <2> QED BY <1>1, <1>2, <1>13, <1>16, <1>17, <2>1 DEF EndIsTold
<1>19. SaidLast'
  BY <1>1, <1>2 DEF SaidLast
<1>20. ~overtaken => settled[o] = "no" /\ (ev.what = "ended" => Over(o)')
  <2> SUFFICES ASSUME ~overtaken PROVE settled[o] = "no" /\ (ev.what = "ended" => Over(o)')
    OBVIOUS
  <2>1. settled[o] = "no"
    BY <1>1, <1>3, <1>4, <1>26 DEF HeardLast, Over
  <2>2. ASSUME ev.what = "ended" PROVE Over(o)'
    <3>1. 1 \in DOMAIN wire.events /\ wire.events[1].what = "ended" /\ wire.events[1].id = o
      BY <1>3, <1>26, <2>2
    <3>2. unsaid[o] = <<>> /\ \A j \in DOMAIN wire.events : 1 < j => wire.events[j].id # o
      BY <1>1, <3>1 DEF HeardLast
    <3>3. \A j \in DOMAIN wire'.events : j + 1 \in DOMAIN wire.events /\ 1 < j + 1
                                           /\ wire'.events[j] = wire.events[j + 1]
      BY <1>3, <1>5
    <3> QED BY <1>2, <3>2, <3>3 DEF Over
  <2> QED BY <2>1, <2>2
<1>21. HeardLast'
  <2> SUFFICES ASSUME ~overtaken PROVE HeardLast'
    BY <1>2 DEF HeardLast
  <2>1. \A p \in Ops : settled'[p] # "no" => Over(p)'
    <3> SUFFICES ASSUME NEW p \in Ops, settled'[p] # "no" PROVE Over(p)'
      OBVIOUS
    <3>1. CASE p = o /\ ev.what = "ended"
      BY <1>20, <3>1
    <3>2. CASE settled'[p] = settled[p]
      <4>1. Over(p)
        BY <1>1, <3>2 DEF HeardLast
      <4>2. \A j \in DOMAIN wire'.events : j + 1 \in DOMAIN wire.events
                                             /\ wire'.events[j] = wire.events[j + 1]
        BY <1>3, <1>5
      <4> QED BY <1>2, <4>1, <4>2 DEF Over
    <3> QED BY <1>17, <3>1, <3>2
  <2>2. \A i \in DOMAIN wire'.events : wire'.events[i].what = "ended" =>
          /\ unsaid'[wire'.events[i].id] = <<>>
          /\ \A j \in DOMAIN wire'.events : i < j => wire'.events[j].id # wire'.events[i].id
    <3> SUFFICES ASSUME NEW i \in DOMAIN wire'.events, wire'.events[i].what = "ended"
                 PROVE  /\ unsaid'[wire'.events[i].id] = <<>>
                        /\ \A j \in DOMAIN wire'.events : i < j => wire'.events[j].id # wire'.events[i].id
      OBVIOUS
    <3>1. i + 1 \in DOMAIN wire.events /\ wire'.events[i] = wire.events[i + 1]
      BY <1>3, <1>5
    <3>2. /\ unsaid[wire.events[i + 1].id] = <<>>
          /\ \A j \in DOMAIN wire.events : i + 1 < j => wire.events[j].id # wire.events[i + 1].id
      BY <1>1, <3>1 DEF HeardLast
    <3>3. ASSUME NEW j \in DOMAIN wire'.events, i < j PROVE wire'.events[j].id # wire'.events[i].id
      <4>1. j + 1 \in DOMAIN wire.events /\ wire'.events[j] = wire.events[j + 1] /\ i + 1 < j + 1
        BY <1>3, <1>5, <3>3
      <4> QED BY <3>1, <3>2, <4>1
    <3> QED BY <1>2, <3>1, <3>2, <3>3
  <2> QED BY <2>1, <2>2 DEF HeardLast
<1>22. Syncs \subseteq Ops /\ 0 \notin Ops
  BY PanelAssumption, FS_CardinalityType
<1>23. BusyUnsettled'
  <2>1. cur' = Panel!None => \A p \in Ops : settled'[p] = "no"
    <3> SUFFICES ASSUME cur' = Panel!None PROVE \A p \in Ops : settled'[p] = "no"
      OBVIOUS
    <3>1. UNCHANGED cur /\ cur = Panel!None
      BY <1>4, <1>10, <1>22 DEF Panel!None
    <3>2. ev.what # "ended"
      <4>1. cur.state = "none" /\ cur'.id # o
        BY <1>4, <1>22, <3>1 DEF Panel!None
      <4>2. ev.what = "ended" => cur' = [id |-> o, state |-> "ended"]
        BY <1>7, <4>1 DEF Panel!TakeOver
      <4> QED BY <4>1, <4>2
    <3> QED BY <1>1, <1>17, <3>1, <3>2 DEF BusyUnsettled
  <2>2. cur'.state = "ended" => settled'[cur'.id] # "no"
    <3>1. cur.state = "ended" => cur.id \in Ops
      BY <1>1 DEF PanelType, Panel!None
    <3> QED BY <1>1, <1>10, <1>16, <1>17, <3>1 DEF BusyUnsettled
  <2>3. ~overtaken /\ Panel!Busy(cur') => settled'[cur'.id] = "no"
    <3> SUFFICES ASSUME ~overtaken, Panel!Busy(cur') PROVE settled'[cur'.id] = "no"
      OBVIOUS
    <3>1. CASE UNCHANGED cur
      <4>1. cur.id \in Ops /\ settled[cur.id] = "no"
        BY <1>1, <3>1 DEF PanelType, BusyUnsettled, Panel!Busy, Panel!Live, Panel!None
      <4>2. ~(cur.id = o /\ ev.what = "ended")
        <5> SUFFICES ASSUME cur.id = o, ev.what = "ended" PROVE FALSE
          OBVIOUS
        <5>1. cur'.state = "ended"
          BY <1>7 DEF Panel!TakeOver
        <5> QED BY <5>1 DEF Panel!Busy, Panel!Live
      <4> QED BY <1>17, <3>1, <4>1, <4>2
    <3>2. CASE cur'.id = o /\ ev.what # "ended"
      BY <1>4, <1>17, <1>20, <3>2
    <3>3. CASE cur' = [id |-> o, state |-> "ended"]
      BY <3>3 DEF Panel!Busy, Panel!Live
    <3> QED BY <1>10, <3>1, <3>2, <3>3
  <2>4. ~overtaken /\ Panel!Busy(sync') => settled'[sync'.id] = "no"
    <3> SUFFICES ASSUME ~overtaken, Panel!Busy(sync') PROVE settled'[sync'.id] = "no"
      OBVIOUS
    <3>1. CASE onScreen /\ o \in Syncs
      <4>1. sync'.id = o /\ ev.what # "ended"
        BY <1>8, <3>1 DEF Panel!Busy, Panel!Live
      <4> QED BY <1>4, <1>17, <1>20, <4>1
    <3>2. CASE ~(onScreen /\ o \in Syncs)
      <4>1. sync' = sync /\ sync # Panel!None /\ settled[sync.id] = "no"
        BY <1>1, <1>8, <3>2 DEF BusyUnsettled, Panel!Busy, Panel!Live, Panel!None
      <4>2. sync.id \in Syncs /\ sync.id # o
        BY <1>1, <3>2, <4>1 DEF BusyUnsettled, PanelType
      <4> QED BY <1>17, <1>22, <4>1, <4>2
    <3> QED BY <3>1, <3>2
  <2>5. sync' # Panel!None \/ seed'.at # "none" => onScreen'
    BY <1>1, <1>2, <1>8 DEF BusyUnsettled
  <2>6. seed'.at = "answered" /\ sync' = Panel!None => \A p \in seed'.live : settled'[p] = "no"
    <3> SUFFICES ASSUME seed.at = "answered", sync' = Panel!None, NEW p \in seed.live PROVE settled'[p] = "no"
      BY <1>2
    <3>1. onScreen /\ o \notin Syncs /\ sync = Panel!None
      BY <1>1, <1>4, <1>8, <1>22 DEF BusyUnsettled, Panel!None
    <3>2. p \in Syncs /\ p \in Ops /\ settled[p] = "no"
      BY <1>1, <1>22, <3>1 DEF BusyUnsettled, PanelType
    <3> QED BY <1>17, <3>1, <3>2
  <2> QED BY <1>2, <2>1, <2>2, <2>3, <2>4, <2>5, <2>6 DEF BusyUnsettled, Panel!Busy
<1>24. LaneIsTold'
  <2> SUFFICES ASSUME ~missed, NEW p \in Panel!LiveOps
               PROVE  p \in active' \/ InFlight(p, "queued")' \/ InFlight(p, "running")' \/ asked'
                        \/ \E read \in answers' : p \in read
    BY <1>2 DEF LaneIsTold, Panel!LiveOps
  <2>1. p \in Ops /\ row[p] # "ended"
    BY DEF Panel!LiveOps, Panel!Live
  <2>2. p \in active => p \in active'
    BY <1>7, <1>9, <1>16, <2>1
  <2>3. (ev = Event(p, "queued") \/ ev = Event(p, "running")) => p \in active'
    <3>1. ev = Event(p, "queued") \/ ev = Event(p, "running") => o = p /\ ev.what \in {"queued", "running"}
      BY DEF Event
    <3> QED BY <1>7, <3>1
  <2>4. asked => asked'
    BY <1>11
  <2> QED BY <1>1, <1>2, <1>13, <2>1, <2>2, <2>3, <2>4 DEF LaneIsTold
<1>25. RefusalIsTold'
  <2> SUFFICES ASSUME ~missed, NEW p \in refused
               PROVE  /\ settled'[p] # "done"
                      /\ p \in unsent' \/ Ahead(wire'.events, p)
                           \/ (~Carries(wire'.events, p, "ended") /\ Ahead(unsaid[p], p))
    BY <1>2 DEF RefusalIsTold
  <2>1. /\ p \in Ops /\ settled[p] # "done"
        /\ p \in unsent \/ Ahead(wire.events, p)
             \/ (~Carries(wire.events, p, "ended") /\ Ahead(unsaid[p], p))
    BY <1>1 DEF RefusalIsTold, PanelType
  <2>2. ev = Event(p, "refused") => p \in unsent'
    BY <1>7 DEF Event
  <2>3. ev = Event(p, "ended") => p \in unsent
    <3>1. Event(p, "ended") # Event(p, "refused")
      BY DEF Event
    <3> QED BY <1>6, <2>1, <3>1
  <2>4. settled'[p] # "done"
    <3>1. CASE p = o /\ ev.what = "ended"
      <4>1. p \in unsent
        BY <1>4, <2>3, <3>1
      <4>2. settled'[p] = "not_sent"
        BY <1>1, <1>4, <1>11, <3>1, <4>1 DEF Panel!Outcome, PanelType
      <4> QED BY <4>2
    <3>2. CASE settled'[p] = settled[p]
      BY <2>1, <3>2
    <3> QED BY <1>17, <2>1, <3>1, <3>2
  <2> QED BY <1>6, <1>11, <2>1, <2>2, <2>4
<1> QED
  BY <1>14, <1>15, <1>18, <1>19, <1>21, <1>23, <1>24, <1>25 DEF PanelInv

-----------------------------------------------------------------------------
LEMMA PanelStart == Panel!Init => PanelInv
<1> SUFFICES ASSUME Panel!Init PROVE PanelInv
  OBVIOUS
<1>1. <<>> \in Seq(Events)
  OBVIOUS
<1>2. /\ row \in [Ops -> {"absent", "running"}] /\ unsaid = [o \in Ops |-> <<>>]
      /\ routed = {} /\ refused = {} /\ wire = [up |-> TRUE, events |-> <<>>]
      /\ missed = FALSE /\ overtaken = FALSE /\ active = {} /\ cur = Panel!None
      /\ settled = [o \in Ops |-> "no"] /\ unsent = {} /\ asked = TRUE /\ answers = {}
      /\ onScreen = FALSE /\ sync = Panel!None /\ seed = [at |-> "none", live |-> {}]
  BY DEF Panel!Init
<1>3. \A o \in Ops : unsaid[o] = <<>> /\ DOMAIN unsaid[o] = {} /\ settled[o] = "no"
  BY <1>2, EmptySeq
<1>4. wire.events = <<>> /\ DOMAIN wire.events = {}
  BY <1>2, EmptySeq
<1>5. \A o \in Ops : \A w : ~InFlight(o, w)
  BY <1>3, <1>4 DEF InFlight, Carries
<1>6. Panel!LiveOps \subseteq Ops
  BY DEF Panel!LiveOps
<1>7. PanelType
  BY <1>1, <1>2, <1>3 DEF PanelType
<1>8. OfRows /\ EndIsTold /\ SaidLast
  BY <1>2, <1>3, <1>4, <1>5 DEF OfRows, EndIsTold, SaidLast
<1>9. HeardLast /\ BusyUnsettled
  BY <1>2, <1>3, <1>4 DEF HeardLast, BusyUnsettled, Panel!Busy, Panel!Live, Panel!None
<1>10. LaneIsTold /\ RefusalIsTold
  BY <1>2, <1>6 DEF LaneIsTold, RefusalIsTold
<1> QED
  BY <1>7, <1>8, <1>9, <1>10 DEF PanelInv

LEMMA PanelStep == PanelInv /\ [Panel!Next]_(Panel!vars) => PanelInv'
<1> SUFFICES ASSUME PanelInv, [Panel!Next]_(Panel!vars) PROVE PanelInv'
  OBVIOUS
<1>1. CASE UNCHANGED Panel!vars
  BY <1>1 DEF Panel!vars, PanelInv, PanelType, OfRows, EndIsTold, InFlight, SaidLast, HeardLast, Over,
              BusyUnsettled, Panel!Busy, LaneIsTold, Panel!LiveOps, RefusalIsTold
<1> QED
  BY <1>1, LaneKeeps, PublishKeeps, StreamKeeps, HearKeeps, LedgerKeeps, LandKeeps, ButtonKeeps
     DEF Panel!Next

LEMMA PanelTells == PanelInv => PanelIsTrue
<1> SUFFICES ASSUME PanelInv PROVE PanelIsTrue
  OBVIOUS
<1>1. PanelType /\ OfRows /\ EndIsTold /\ SaidLast /\ HeardLast /\ BusyUnsettled /\ LaneIsTold /\ RefusalIsTold
  BY DEF PanelInv
<1>2. Panel!Quiet => \A o \in Ops : \A w : ~InFlight(o, w)
  BY EmptySeq DEF Panel!Quiet, InFlight, Carries
<1>3. ASSUME Panel!Quiet, ~missed, NEW o \in Ops, settled[o] = "no", row[o] # "absent"
      PROVE  row[o] \in Panel!Live
  <2>1. row[o] # "ended"
    BY <1>1, <1>2, <1>3 DEF EndIsTold
  <2> QED BY <1>1, <1>3, <2>1 DEF PanelType, Panel!Live
<1>4. Panel!BusyIsTrue
  <2> SUFFICES ASSUME Panel!Quiet, ~missed, ~overtaken
               PROVE  /\ Panel!Busy(cur) => row[cur.id] \in Panel!Live
                      /\ Panel!Busy(sync) => row[sync.id] \in Panel!Live
    BY DEF Panel!BusyIsTrue
  <2>1. Panel!Busy(cur) => cur # Panel!None /\ cur.id \in Ops
    BY <1>1 DEF Panel!Busy, Panel!Live, Panel!None, PanelType
  <2>2. Panel!Busy(sync) => sync # Panel!None /\ sync.id \in Ops
    BY <1>1, PanelAssumption DEF Panel!Busy, Panel!Live, Panel!None, PanelType
  <2> QED BY <1>1, <1>3, <2>1, <2>2 DEF BusyUnsettled, OfRows
<1>5. Panel!LaneIsListed
  <2> SUFFICES ASSUME Panel!Quiet, ~missed, NEW o \in Panel!LiveOps
               PROVE  o \in Panel!Waiting \/ (cur.id = o /\ Panel!Busy(cur))
    BY DEF Panel!LaneIsListed
  <2>1. o \in Ops /\ row[o] # "ended"
    BY DEF Panel!LiveOps, Panel!Live
  <2>2. o \in active
    BY <1>1, <1>2, <2>1 DEF LaneIsTold, Panel!Quiet
  <2>3. cur.id = o => Panel!Busy(cur)
    <3> SUFFICES ASSUME cur.id = o PROVE Panel!Busy(cur)
      OBVIOUS
    <3>1. cur \in [id : Ops, state : {"queued", "running", "ended"}]
      BY <1>1, <2>1, PanelAssumption, FS_CardinalityType DEF PanelType, Panel!None
    <3>2. cur.state # "ended"
      BY <1>1, <2>1 DEF BusyUnsettled, EndIsTold
    <3> QED BY <3>1, <3>2 DEF Panel!Busy, Panel!Live
  <2> QED BY <2>2, <2>3 DEF Panel!Waiting
<1>6. Panel!DoneMeansSent
  BY <1>1 DEF RefusalIsTold, Panel!DoneMeansSent
<1> QED
  BY <1>4, <1>5, <1>6 DEF PanelIsTrue

(* The panel of the LinkedIn lane and the Sync button are true, for any number *)
(* of operations, outages, ledger reads and events on their way: nothing that  *)
(* ended keeps them busy, nothing that works is missing, and no refused send   *)
(* is shown as sent.                                                         *)
THEOREM PanelTellsTheLane == Panel!Spec => []PanelIsTrue
  BY PanelStart, PanelStep, PanelTells, PTL DEF Panel!Spec

-----------------------------------------------------------------------------
(* The board's list (BoardFeed, as MCPage composes it).                       *)

(* A set of sequences that has the empty one and every extension of its own by *)
(* an element has them all: induction over sequences, for a set.             *)
LEMMA SequencesGrow ==
  ASSUME NEW S, NEW T, T \subseteq Seq(S), << >> \in T,
         \A s \in T, x \in S : Append(s, x) \in T
  PROVE  T = Seq(S)
<1> SUFFICES ASSUME NEW bad \in Seq(S), bad \notin T
             PROVE  FALSE
  OBVIOUS
<1> DEFINE Bad == {s \in Seq(S) : s \notin T}
           L == {Len(s) : s \in Bad}
<1>1. L \subseteq Nat /\ L # {}
  <2>1. \A s \in Bad : Len(s) \in Nat
    BY LenProperties
  <2>2. bad \in Bad
    OBVIOUS
  <2> HIDE DEF Bad
  <2> QED BY <2>1, <2>2
<1>2. PICK n \in L : \A m \in L : n <= m
  <2> HIDE DEF L
  <2> QED BY <1>1, LeastIs
<1>3. PICK s \in Bad : Len(s) = n
  OBVIOUS
<1>4. PICK t \in Seq(S), x \in S : s = Append(t, x)
  BY <1>3, SequenceEmptyOrAppend
<1>5. Len(s) = Len(t) + 1 /\ Len(t) \in Nat
  BY <1>4, AppendProperties, LenProperties
<1>6. t \in T
  <2>1. t \in Bad => Len(t) \in L
    OBVIOUS
  <2> HIDE DEF L
  <2> QED BY <1>2, <1>3, <1>4, <1>5, <2>1
<1> QED
  BY <1>3, <1>4, <1>6

(* The partial concatenations of a sequence of sequences, up to the n-th.     *)
Parts(s, n, g) == g = [i \in 1 .. n |-> IF i = 1 THEN s[i] ELSE g[i - 1] \o s[i]]

(* They depend on nothing beyond.                                            *)
LEMMA PartsAgree ==
  ASSUME NEW n \in Nat, NEW m \in Nat, n <= m, NEW s, NEW t, NEW g, NEW h,
         Parts(s, n, g), Parts(t, m, h), \A i \in 1 .. n : s[i] = t[i]
  PROVE  \A i \in 1 .. n : g[i] = h[i]
<1> DEFINE D == {i \in 1 .. n : g[i] # h[i]}
<1> SUFFICES ASSUME D # {}
             PROVE  FALSE
  OBVIOUS
<1>1. PICK k \in D : \A i \in D : k <= i
  <2>1. D \subseteq Nat
    OBVIOUS
  <2> HIDE DEF D
  <2> QED BY <2>1, LeastIs
<1>2. \A i \in 1 .. n : g[i] = IF i = 1 THEN s[i] ELSE g[i - 1] \o s[i]
  BY DEF Parts
<1>3. \A i \in 1 .. m : h[i] = IF i = 1 THEN t[i] ELSE h[i - 1] \o t[i]
  BY DEF Parts
<1>4. k # 1 => g[k - 1] = h[k - 1]
  BY <1>1
<1>5. k \in 1 .. n /\ k \in 1 .. m /\ s[k] = t[k]
  OBVIOUS
<1> QED
  BY <1>2, <1>3, <1>4, <1>5

(* Every sequence has them, which the recursive definition alone does not say. *)
LEMMA PartsExist ==
  ASSUME NEW s, NEW n \in Nat, n # 0
  PROVE  \E g : Parts(s, n, g)
<1> DEFINE D == {i \in Nat \ {0} : \A g : ~Parts(s, i, g)}
<1> SUFFICES ASSUME D # {}
             PROVE  FALSE
  OBVIOUS
<1>1. PICK k \in D : \A i \in D : k <= i
  <2>1. D \subseteq Nat
    OBVIOUS
  <2> HIDE DEF D
  <2> QED BY <2>1, LeastIs
<1>2. k # 1
  <2>1. Parts(s, 1, [i \in 1 .. 1 |-> s[1]])
    BY DEF Parts
  <2> QED BY <2>1
<1>3. PICK g : Parts(s, k - 1, g)
  BY <1>1, <1>2
<1> DEFINE h == [i \in 1 .. k |-> IF i = k THEN g[k - 1] \o s[k] ELSE g[i]]
<1>4. \A i \in 1 .. k - 1 : g[i] = IF i = 1 THEN s[i] ELSE g[i - 1] \o s[i]
  BY <1>3 DEF Parts
<1>5. \A i \in 1 .. k : h[i] = IF i = 1 THEN s[i] ELSE h[i - 1] \o s[i]
  <2> SUFFICES ASSUME NEW i \in 1 .. k
               PROVE  h[i] = IF i = 1 THEN s[i] ELSE h[i - 1] \o s[i]
    OBVIOUS
  <2>1. CASE i = k
    <3>1. k - 1 \in 1 .. k /\ k - 1 # k /\ k \in 1 .. k
      BY <1>2
    <3>2. h[k - 1] = g[k - 1]
      BY <3>1
    <3>3. h[k] = g[k - 1] \o s[k]
      BY <3>1
    <3> QED BY <1>2, <2>1, <3>2, <3>3
  <2>2. CASE i # k
    BY <1>4, <2>2
  <2> QED BY <2>1, <2>2
<1>6. Parts(s, k, h)
  BY <1>5, Zenon DEF Parts
<1> QED
  BY <1>6

(* FlattenSeq is the last of them.                                           *)
LEMMA FlattenIs ==
  ASSUME NEW s, Len(s) \in Nat, Len(s) # 0, NEW g, Parts(s, Len(s), g)
  PROVE  Board!FlattenSeq(s) = g[Len(s)]
<1>1. \A h : Parts(s, Len(s), h) => h = g
  <2> SUFFICES ASSUME NEW h, Parts(s, Len(s), h)
               PROVE  h = g
    OBVIOUS
  <2>1. \A i \in 1 .. Len(s) : h[i] = g[i]
    BY PartsAgree
  <2>2. h = [i \in 1 .. Len(s) |-> h[i]] /\ g = [i \in 1 .. Len(s) |-> g[i]]
    BY DEF Parts
  <2> QED BY <2>1, <2>2
<1> QED
  BY <1>1, Zenon DEF Board!FlattenSeq, Parts

(* What Board!FlattenSeq does with one more sequence.                              *)
LEMMA FlattenAppend ==
  ASSUME NEW X, NEW s \in Seq(Seq(X)), NEW x \in Seq(X), Board!FlattenSeq(s) \in Seq(X)
  PROVE  Board!FlattenSeq(Append(s, x)) = Board!FlattenSeq(s) \o x
<1> DEFINE t == Append(s, x)
           n == Len(s)
<1>1. n \in Nat /\ Len(t) = n + 1 /\ t[n + 1] = x /\ \A i \in 1 .. n : t[i] = s[i]
  BY LenProperties, AppendProperties
<1> HIDE DEF t, n
<1>2. PICK h : Parts(t, n + 1, h)
  <2>1. n + 1 \in Nat /\ n + 1 # 0
    BY <1>1
  <2> QED BY <2>1, PartsExist
<1>3. Board!FlattenSeq(t) = h[n + 1]
  BY <1>1, <1>2, FlattenIs
<1>4. h[n + 1] = IF n + 1 = 1 THEN t[n + 1] ELSE h[n] \o t[n + 1]
  <2>1. n + 1 \in 1 .. n + 1 /\ (n + 1) - 1 = n
    BY <1>1
  <2> QED BY <1>2, <2>1 DEF Parts
<1> SUFFICES Board!FlattenSeq(t) = Board!FlattenSeq(s) \o x
  BY DEF t
<1>5. CASE n = 0
  <2>1. Board!FlattenSeq(s) = << >>
    BY <1>5 DEF Board!FlattenSeq, n
  <2>2. Board!FlattenSeq(t) = x
    BY <1>1, <1>3, <1>4, <1>5
  <2> QED BY <2>1, <2>2, ConcatEmptySeq
<1>6. CASE n # 0
  <2>1. PICK g : Parts(s, n, g)
    BY <1>1, <1>6, PartsExist
  <2>2. Board!FlattenSeq(s) = g[n]
    BY <1>1, <1>6, <2>1, FlattenIs DEF n
  <2>3. g[n] = h[n]
    <3>1. \A i \in 1 .. n : g[i] = h[i]
      <4>1. n + 1 \in Nat /\ n <= n + 1 /\ \A i \in 1 .. n : s[i] = t[i]
        BY <1>1
      <4> QED BY <1>1, <1>2, <2>1, <4>1, PartsAgree
    <3> QED BY <1>1, <1>6, <3>1
  <2> QED BY <1>1, <1>3, <1>4, <1>6, <2>2, <2>3
<1> QED
  BY <1>5, <1>6

LEMMA FlattenType ==
  ASSUME NEW X, NEW s \in Seq(Seq(X))
  PROVE  Board!FlattenSeq(s) \in Seq(X)
<1> DEFINE T == {t \in Seq(Seq(X)) : Board!FlattenSeq(t) \in Seq(X)}
<1>1. << >> \in T
  BY DEF Board!FlattenSeq
<1>2. \A t \in T, x \in Seq(X) : Append(t, x) \in T
  <2> SUFFICES ASSUME NEW t \in T, NEW x \in Seq(X)
               PROVE  Append(t, x) \in T
    OBVIOUS
  <2>1. Board!FlattenSeq(Append(t, x)) = Board!FlattenSeq(t) \o x
    BY FlattenAppend
  <2> QED BY <2>1, ConcatProperties, AppendProperties
<1> HIDE DEF T
<1>3. T = Seq(Seq(X))
  <2>1. T \subseteq Seq(Seq(X))
    BY DEF T
  <2> QED BY <1>1, <1>2, <2>1, SequencesGrow
<1> QED
  BY <1>3 DEF T

PageRec == [jobs : Seq(Jobs), total : Nat]

(* The rows of one more page come after the rows there were.                  *)
LEMMA RowsAppend ==
  /\ Board!Rows(<< >>) = << >>
  /\ \A ps \in Seq(PageRec) :
       /\ Board!Rows(ps) \in Seq(Jobs)
       /\ \A p \in PageRec : Board!Rows(Append(ps, p)) = Board!Rows(ps) \o p.jobs
<1> DEFINE J(ps) == [i \in DOMAIN ps |-> ps[i].jobs]
<1>1. \A ps : Board!Rows(ps) = Board!FlattenSeq(J(ps))
  BY DEF Board!Rows
<1>2. Board!Rows(<< >>) = << >>
  <2>1. J(<< >>) = << >>
    OBVIOUS
  <2>2. Board!FlattenSeq(<< >>) = << >>
    BY DEF Board!FlattenSeq
  <2> HIDE DEF J
  <2> QED BY <1>1, <2>1, <2>2
<1>3. ASSUME NEW ps \in Seq(PageRec)
      PROVE  J(ps) \in Seq(Seq(Jobs)) /\ Len(J(ps)) = Len(ps)
  <2>1. Len(ps) \in Nat /\ DOMAIN ps = 1 .. Len(ps) /\ \A i \in 1 .. Len(ps) : ps[i].jobs \in Seq(Jobs)
    <3>1. \A i \in 1 .. Len(ps) : ps[i] \in PageRec
      BY ElementOfSeq
    <3> QED BY <3>1, LenProperties DEF PageRec
  <2> QED BY <2>1
<1>4. ASSUME NEW ps \in Seq(PageRec), NEW p \in PageRec
      PROVE  J(Append(ps, p)) = Append(J(ps), p.jobs)
  <2>1. Append(ps, p) \in Seq(PageRec) /\ p.jobs \in Seq(Jobs)
    BY AppendProperties DEF PageRec
  <2>2. J(ps) \in Seq(Seq(Jobs)) /\ J(Append(ps, p)) \in Seq(Seq(Jobs))
    BY <1>3, <2>1
  <2>3. Len(J(ps)) = Len(ps) /\ Len(J(Append(ps, p))) = Len(ps) + 1 /\ Len(ps) \in Nat
    BY <1>3, <2>1, AppendProperties, LenProperties
  <2> DEFINE L == J(Append(ps, p))
             R == Append(J(ps), p.jobs)
  <2>4. Len(R) = Len(ps) + 1 /\ R \in Seq(Seq(Jobs))
    BY <2>1, <2>2, <2>3, AppendProperties
  <2>5. ASSUME NEW i \in 1 .. Len(ps) + 1
        PROVE  L[i] = R[i]
    <3>1. DOMAIN Append(ps, p) = 1 .. Len(ps) + 1 /\ DOMAIN ps = 1 .. Len(ps)
      BY <2>1, AppendProperties, LenProperties
    <3>2. L[i] = Append(ps, p)[i].jobs
      BY <3>1
    <3>3. CASE i \in 1 .. Len(ps)
      <4>1. Append(ps, p)[i] = ps[i]
        BY <3>3, AppendProperties
      <4>2. J(ps)[i] = ps[i].jobs
        BY <3>1, <3>3
      <4>3. R[i] = J(ps)[i]
        <5> HIDE DEF J
        <5> QED BY <2>1, <2>2, <2>3, <3>3, AppendProperties
      <4> QED BY <3>2, <4>1, <4>2, <4>3
    <3>4. CASE i = Len(ps) + 1
      <4>1. Append(ps, p)[i] = p
        BY <3>4, AppendProperties
      <4>2. R[i] = p.jobs
        <5> HIDE DEF J
        <5> QED BY <2>1, <2>2, <2>3, <3>4, AppendProperties
      <4> QED BY <3>2, <4>1, <4>2
    <3> QED BY <2>3, <3>3, <3>4
  <2> HIDE DEF L, R
  <2>6. L = R
    <3>1. L \in Seq(Seq(Jobs)) /\ Len(L) = Len(ps) + 1
      BY <2>2, <2>3 DEF L
    <3> QED BY <2>4, <2>5, <3>1, SeqEqual
  <2> QED BY <2>6 DEF L, R
<1>5. ASSUME NEW ps \in Seq(PageRec), NEW p \in PageRec
      PROVE  Board!Rows(Append(ps, p)) = Board!Rows(ps) \o p.jobs
  <2> HIDE DEF J
  <2>1. p.jobs \in Seq(Jobs) /\ J(ps) \in Seq(Seq(Jobs))
    BY <1>3 DEF PageRec
  <2>2. Board!FlattenSeq(Append(J(ps), p.jobs)) = Board!FlattenSeq(J(ps)) \o p.jobs
    BY <2>1, FlattenAppend, FlattenType
  <2> QED BY <1>1, <1>4, <2>2
<1> HIDE DEF J
<1>6. ASSUME NEW ps \in Seq(PageRec)
      PROVE  Board!Rows(ps) \in Seq(Jobs)
  BY <1>1, <1>3, FlattenType
<1> QED BY <1>2, <1>5, <1>6

-----------------------------------------------------------------------------
(* Taking a job out of rows it is in once.                                    *)
LEMMA LessIs ==
  ASSUME NEW X, NEW s \in Seq(X), Board!IsInjective(s), NEW p \in 1 .. Len(s)
  PROVE  /\ Board!Less(s, s[p]) = SubSeq(s, 1, p - 1) \o SubSeq(s, p + 1, Len(s))
         /\ Board!Less(s, s[p]) \in Seq(X)
         /\ Len(Board!Less(s, s[p])) = Len(s) - 1
         /\ \A i \in 1 .. Len(s) - 1 : Board!Less(s, s[p])[i] = IF i < p THEN s[i] ELSE s[i + 1]
<1>1. Len(s) \in Nat /\ DOMAIN s = 1 .. Len(s) /\ \A i \in 1 .. Len(s) : s[i] \in X
  BY LenProperties, ElementOfSeq
<1>2. (CHOOSE i \in DOMAIN s : s[i] = s[p]) = p
  BY <1>1 DEF Board!IsInjective
<1>3. s[p] \in Board!Range(s)
  BY <1>1 DEF Board!Range
<1>4. Board!Less(s, s[p]) = SubSeq(s, 1, p - 1) \o SubSeq(s, p + 1, Len(s))
  BY <1>2, <1>3, Zenon DEF Board!Less, Board!RemoveAt
<1> DEFINE a == SubSeq(s, 1, p - 1)
           b == SubSeq(s, p + 1, Len(s))
<1>5. a \in Seq(X) /\ Len(a) = p - 1 /\ \A i \in 1 .. p - 1 : a[i] = s[i]
  <2>1. 1 \in Int /\ p - 1 \in Int /\ \A i \in 1 .. p - 1 : s[i] \in X
    BY <1>1
  <2>2. /\ a \in Seq(X) /\ Len(a) = IF 1 <= p - 1 THEN (p - 1) - 1 + 1 ELSE 0
        /\ \A i \in 1 .. (p - 1) - 1 + 1 : a[i] = s[1 + i - 1]
    BY <2>1, SubSeqProperties
  <2> HIDE DEF a
  <2>3. p - 1 \in Nat /\ (p - 1) - 1 + 1 = p - 1 /\ \A i \in 1 .. p - 1 : 1 + i - 1 = i
    BY <1>1
  <2>4. Len(a) = p - 1
    BY <2>2, <2>3
  <2>5. \A i \in 1 .. p - 1 : a[i] = s[i]
    BY <2>2, <2>3
  <2> QED BY <2>2, <2>4, <2>5
<1>6. b \in Seq(X) /\ Len(b) = Len(s) - p /\ \A i \in 1 .. Len(s) - p : b[i] = s[p + i]
  <2>1. p + 1 \in Int /\ Len(s) \in Int /\ \A i \in p + 1 .. Len(s) : s[i] \in X
    BY <1>1
  <2>2. /\ b \in Seq(X) /\ Len(b) = IF p + 1 <= Len(s) THEN Len(s) - (p + 1) + 1 ELSE 0
        /\ \A i \in 1 .. Len(s) - (p + 1) + 1 : b[i] = s[(p + 1) + i - 1]
    BY <2>1, SubSeqProperties
  <2> HIDE DEF b
  <2>3. Len(s) - (p + 1) + 1 = Len(s) - p /\ \A i \in 1 .. Len(s) - p : (p + 1) + i - 1 = p + i
    BY <1>1
  <2>4. Len(b) = Len(s) - p
    <3>1. Len(b) = IF p + 1 <= Len(s) THEN Len(s) - (p + 1) + 1 ELSE 0
      BY <2>2
    <3>2. Len(s) \in Nat /\ p \in 1 .. Len(s)
      BY <1>1
    <3> QED BY <3>1, <3>2
  <2>5. ASSUME NEW i \in 1 .. Len(s) - p PROVE b[i] = s[p + i]
    BY <2>2, <2>3
  <2> QED BY <2>2, <2>4, <2>5
<1> HIDE DEF a, b
<1>7. /\ a \o b \in Seq(X) /\ Len(a \o b) = Len(s) - 1
      /\ \A i \in 1 .. Len(s) - 1 : (a \o b)[i] = IF i <= p - 1 THEN a[i] ELSE b[i - (p - 1)]
  <2>1. /\ a \o b \in Seq(X) /\ Len(a \o b) = Len(a) + Len(b)
        /\ \A i \in 1 .. Len(a) + Len(b) : (a \o b)[i] = IF i <= Len(a) THEN a[i] ELSE b[i - Len(a)]
    BY <1>5, <1>6, ConcatProperties
  <2>2. Len(a) + Len(b) = Len(s) - 1
    BY <1>1, <1>5, <1>6
  <2> QED BY <1>1, <1>5, <2>1, <2>2
<1>8. \A i \in 1 .. Len(s) - 1 : (a \o b)[i] = IF i < p THEN s[i] ELSE s[i + 1]
  <2> SUFFICES ASSUME NEW i \in 1 .. Len(s) - 1
               PROVE  (a \o b)[i] = IF i < p THEN s[i] ELSE s[i + 1]
    OBVIOUS
  <2>1. CASE i < p
    BY <1>1, <1>5, <1>7, <2>1
  <2>2. CASE ~(i < p)
    <3>1. i - (p - 1) \in 1 .. Len(s) - p /\ p + (i - (p - 1)) = i + 1
      BY <1>1, <2>2
    <3> QED BY <1>1, <1>6, <1>7, <2>2, <3>1
  <2> QED BY <2>1, <2>2
<1> QED BY <1>4, <1>7, <1>8 DEF a, b

(* Rows without the job stay as they are.                                     *)
LEMMA LessNone ==
  ASSUME NEW s, NEW j, j \notin Board!Range(s)
  PROVE  Board!Less(s, j) = s
BY DEF Board!Less

(* What is left is without the job and has every other row once.              *)
LEMMA LessType ==
  ASSUME NEW X, NEW s \in Seq(X), Board!IsInjective(s), NEW j
  PROVE  /\ Board!Less(s, j) \in Seq(X)
         /\ Board!IsInjective(Board!Less(s, j))
         /\ Board!Range(Board!Less(s, j)) = Board!Range(s) \ {j}
         /\ Len(Board!Less(s, j)) = IF j \in Board!Range(s) THEN Len(s) - 1 ELSE Len(s)
<1>1. Len(s) \in Nat /\ DOMAIN s = 1 .. Len(s) /\ \A i \in 1 .. Len(s) : s[i] \in X
  BY LenProperties, ElementOfSeq
<1>2. CASE j \notin Board!Range(s)
  BY <1>2, LessNone
<1>3. CASE j \in Board!Range(s)
  <2>1. PICK p \in 1 .. Len(s) : s[p] = j
    BY <1>1, <1>3 DEF Board!Range
  <2> DEFINE l == Board!Less(s, j)
  <2>2. l \in Seq(X) /\ Len(l) = Len(s) - 1 /\ \A i \in 1 .. Len(s) - 1 : l[i] = IF i < p THEN s[i] ELSE s[i + 1]
    BY <2>1, LessIs
  <2> HIDE DEF l
  <2>3. DOMAIN l = 1 .. Len(s) - 1
    BY <2>2, LenProperties
  <2>4. Board!IsInjective(l)
    <3> DEFINE at(i) == IF i < p THEN i ELSE i + 1
    <3>1. \A i \in 1 .. Len(s) - 1 : at(i) \in 1 .. Len(s) /\ l[i] = s[at(i)]
      BY <1>1, <2>2
    <3>2. \A i, k \in 1 .. Len(s) - 1 : at(i) = at(k) => i = k
      BY <1>1
    <3> HIDE DEF at
    <3>3. \A i, k \in 1 .. Len(s) - 1 : l[i] = l[k] => i = k
      BY <1>1, <3>1, <3>2 DEF Board!IsInjective
    <3> QED BY <2>3, <3>3 DEF Board!IsInjective
  <2>5. Board!Range(l) = Board!Range(s) \ {j}
    <3>1. \A i \in DOMAIN l : l[i] \in Board!Range(s) \ {j}
      BY <1>1, <2>1, <2>2, <2>3 DEF Board!IsInjective, Board!Range
    <3>2. ASSUME NEW i \in 1 .. Len(s), i # p
          PROVE  s[i] \in Board!Range(l)
      <4>1. CASE i < p
        <5>1. i \in DOMAIN l /\ l[i] = s[i]
          BY <1>1, <2>2, <2>3, <4>1
        <5> QED BY <5>1 DEF Board!Range
      <4>2. CASE i > p
        <5>1. i - 1 \in DOMAIN l /\ l[i - 1] = s[i]
          BY <1>1, <2>2, <2>3, <4>2
        <5> QED BY <5>1 DEF Board!Range
      <4> QED BY <1>1, <3>2, <4>1, <4>2
    <3> QED BY <1>1, <2>1, <3>1, <3>2 DEF Board!Range
  <2> QED BY <1>3, <2>2, <2>4, <2>5 DEF l
<1> QED BY <1>2, <1>3

(* Whatever the rows, none is added.                                          *)
LEMMA LessSeq ==
  ASSUME NEW X, NEW s \in Seq(X), NEW j
  PROVE  Board!Less(s, j) \in Seq(X) /\ Len(Board!Less(s, j)) <= Len(s)
<1>1. Len(s) \in Nat /\ DOMAIN s = 1 .. Len(s) /\ \A i \in 1 .. Len(s) : s[i] \in X
  BY LenProperties, ElementOfSeq
<1>2. CASE j \notin Board!Range(s)
  BY <1>1, <1>2, LessNone
<1>3. CASE j \in Board!Range(s)
  <2> DEFINE p == CHOOSE i \in DOMAIN s : s[i] = j
  <2>1. p \in 1 .. Len(s)
    BY <1>1, <1>3 DEF Board!Range
  <2>2. Board!Less(s, j) = SubSeq(s, 1, p - 1) \o SubSeq(s, p + 1, Len(s))
    BY <1>3 DEF Board!Less, Board!RemoveAt
  <2> HIDE DEF p
  <2>3. SubSeq(s, 1, p - 1) \in Seq(X) /\ Len(SubSeq(s, 1, p - 1)) = p - 1
    <3>1. /\ SubSeq(s, 1, p - 1) \in Seq(X)
          /\ Len(SubSeq(s, 1, p - 1)) = IF 1 <= p - 1 THEN (p - 1) - 1 + 1 ELSE 0
      <4>1. 1 \in Int /\ p - 1 \in Int /\ \A i \in 1 .. p - 1 : s[i] \in X
        BY <1>1, <2>1
      <4> QED BY <4>1, SubSeqProperties
    <3> QED BY <2>1, <3>1
  <2>4. SubSeq(s, p + 1, Len(s)) \in Seq(X) /\ Len(SubSeq(s, p + 1, Len(s))) = Len(s) - p
    <3>1. /\ SubSeq(s, p + 1, Len(s)) \in Seq(X)
          /\ Len(SubSeq(s, p + 1, Len(s))) = IF p + 1 <= Len(s) THEN Len(s) - (p + 1) + 1 ELSE 0
      <4>1. p + 1 \in Int /\ Len(s) \in Int /\ \A i \in p + 1 .. Len(s) : s[i] \in X
        BY <1>1, <2>1
      <4> QED BY <4>1, SubSeqProperties
    <3>2. Len(SubSeq(s, p + 1, Len(s))) = Len(s) - p
      <4>1. Len(s) \in Nat /\ p \in 1 .. Len(s)
        BY <1>1, <2>1
      <4>2. Len(SubSeq(s, p + 1, Len(s))) = IF p + 1 <= Len(s) THEN Len(s) - (p + 1) + 1 ELSE 0
        BY <3>1
      <4> HIDE DEF p
      <4> QED BY <4>1, <4>2
    <3> QED BY <3>1, <3>2
  <2> DEFINE x == SubSeq(s, 1, p - 1)
             y == SubSeq(s, p + 1, Len(s))
  <2>5. x \o y \in Seq(X) /\ Len(x \o y) = Len(x) + Len(y)
    <3> HIDE DEF x, y
    <3>1. x \in Seq(X) /\ y \in Seq(X)
      BY <2>3, <2>4 DEF x, y
    <3> QED BY <3>1, ConcatProperties
  <2>6. Len(x \o y) = (p - 1) + (Len(s) - p)
    BY <2>3, <2>4, <2>5
  <2>7. Len(s) \in Nat /\ p \in 1 .. Len(s)
    BY <1>1, <2>1
  <2>8. Len(x \o y) <= Len(s)
    <3> HIDE DEF p, x, y
    <3> QED BY <2>6, <2>7
  <2> QED BY <2>2, <2>5, <2>8
<1> QED BY <1>2, <1>3

(* Rows that are different in two lists put together are so in each of them.  *)
LEMMA ApartIs ==
  ASSUME NEW X, NEW a \in Seq(X), NEW b \in Seq(X), Board!IsInjective(a \o b)
  PROVE  /\ Board!IsInjective(a) /\ Board!IsInjective(b)
         /\ Board!Range(a) \cap Board!Range(b) = {}
         /\ Board!Range(a \o b) = Board!Range(a) \cup Board!Range(b)
<1> DEFINE c == a \o b
<1>1. Len(a) \in Nat /\ DOMAIN a = 1 .. Len(a) /\ Len(b) \in Nat /\ DOMAIN b = 1 .. Len(b)
  BY LenProperties
<1>2. /\ c \in Seq(X) /\ Len(c) = Len(a) + Len(b)
      /\ \A i \in 1 .. Len(a) + Len(b) : c[i] = IF i <= Len(a) THEN a[i] ELSE b[i - Len(a)]
  BY ConcatProperties
<1>3. DOMAIN c = 1 .. Len(a) + Len(b)
  BY <1>2, LenProperties
<1> HIDE DEF c
<1>4. \A i \in DOMAIN a : i \in DOMAIN c /\ c[i] = a[i]
  BY <1>1, <1>2, <1>3
<1>5. \A i \in DOMAIN b : Len(a) + i \in DOMAIN c /\ c[Len(a) + i] = b[i]
  <2> SUFFICES ASSUME NEW i \in DOMAIN b
               PROVE  Len(a) + i \in DOMAIN c /\ c[Len(a) + i] = b[i]
    OBVIOUS
  <2>1. Len(a) + i \in 1 .. Len(a) + Len(b) /\ ~(Len(a) + i <= Len(a)) /\ (Len(a) + i) - Len(a) = i
    BY <1>1
  <2> QED BY <1>2, <1>3, <2>1
<1>6. Board!IsInjective(c)
  BY DEF c
<1>7. Board!IsInjective(a)
  BY <1>4, <1>6 DEF Board!IsInjective
<1>8. Board!IsInjective(b)
  <2> SUFFICES ASSUME NEW i \in DOMAIN b, NEW k \in DOMAIN b, b[i] = b[k]
               PROVE  i = k
    BY DEF Board!IsInjective
  <2>1. Len(a) + i = Len(a) + k
    BY <1>5, <1>6 DEF Board!IsInjective
  <2> QED BY <1>1, <2>1
<1>9. Board!Range(a) \cap Board!Range(b) = {}
  <2> SUFFICES ASSUME NEW i \in DOMAIN a, NEW k \in DOMAIN b, a[i] = b[k]
               PROVE  FALSE
    BY DEF Board!Range
  <2>1. i = Len(a) + k
    BY <1>4, <1>5, <1>6 DEF Board!IsInjective
  <2> QED BY <1>1, <2>1
<1>10. Board!Range(c) = Board!Range(a) \cup Board!Range(b)
  <2>1. \A i \in DOMAIN c : c[i] \in Board!Range(a) \cup Board!Range(b)
    <3> SUFFICES ASSUME NEW i \in DOMAIN c
                 PROVE  c[i] \in Board!Range(a) \cup Board!Range(b)
      OBVIOUS
    <3>1. CASE i <= Len(a)
      <4>1. i \in DOMAIN a /\ c[i] = a[i]
        BY <1>1, <1>2, <1>3, <3>1
      <4> QED BY <4>1 DEF Board!Range
    <3>2. CASE ~(i <= Len(a))
      <4>1. i - Len(a) \in DOMAIN b /\ c[i] = b[i - Len(a)]
        BY <1>1, <1>2, <1>3, <3>2
      <4> QED BY <4>1 DEF Board!Range
    <3> QED BY <3>1, <3>2
  <2> QED BY <1>4, <1>5, <2>1 DEF Board!Range
<1> QED BY <1>7, <1>8, <1>9, <1>10 DEF c

(* A job leaves two lists put together as it leaves each of them.             *)
LEMMA LessCat ==
  ASSUME NEW X, NEW a \in Seq(X), NEW b \in Seq(X), Board!IsInjective(a \o b), NEW j
  PROVE  Board!Less(a \o b, j) = Board!Less(a, j) \o Board!Less(b, j)
<1>1. Len(a) \in Nat /\ DOMAIN a = 1 .. Len(a) /\ Len(b) \in Nat /\ DOMAIN b = 1 .. Len(b)
  BY LenProperties
<1>2. /\ Board!IsInjective(a) /\ Board!IsInjective(b)
      /\ Board!Range(a) \cap Board!Range(b) = {}
      /\ Board!Range(a \o b) = Board!Range(a) \cup Board!Range(b)
  BY ApartIs
<1> DEFINE c == a \o b
<1>3. /\ c \in Seq(X) /\ Len(c) = Len(a) + Len(b)
      /\ \A i \in 1 .. Len(a) + Len(b) : c[i] = IF i <= Len(a) THEN a[i] ELSE b[i - Len(a)]
  BY ConcatProperties
<1>4. Board!IsInjective(c)
  OBVIOUS
<1> DEFINE la == Board!Less(a, j)
           lb == Board!Less(b, j)
           lc == Board!Less(c, j)
<1>5. la \in Seq(X) /\ lb \in Seq(X) /\ lc \in Seq(X)
  BY <1>3, LessSeq
<1> HIDE DEF c
<1>6. CASE j \notin Board!Range(a) /\ j \notin Board!Range(b)
  BY <1>2, <1>6, LessNone DEF c
<1>7. CASE j \in Board!Range(a)
  <2>1. PICK p \in 1 .. Len(a) : a[p] = j
    BY <1>1, <1>7 DEF Board!Range
  <2>2. lb = b
    BY <1>2, <1>7, LessNone
  <2>3. Len(la) = Len(a) - 1 /\ \A i \in 1 .. Len(a) - 1 : la[i] = IF i < p THEN a[i] ELSE a[i + 1]
    BY <1>2, <2>1, LessIs
  <2>4. p \in 1 .. Len(c) /\ c[p] = j
    BY <1>1, <1>3, <2>1
  <2>5. Len(lc) = Len(c) - 1 /\ \A i \in 1 .. Len(c) - 1 : lc[i] = IF i < p THEN c[i] ELSE c[i + 1]
    BY <1>3, <1>4, <2>4, LessIs
  <2> HIDE DEF la, lb, lc
  <2>6. /\ la \o b \in Seq(X) /\ Len(la \o b) = Len(a) - 1 + Len(b)
        /\ \A i \in 1 .. Len(a) - 1 + Len(b) :
             (la \o b)[i] = IF i <= Len(a) - 1 THEN la[i] ELSE b[i - (Len(a) - 1)]
    <3>1. /\ la \o b \in Seq(X) /\ Len(la \o b) = Len(la) + Len(b)
          /\ \A i \in 1 .. Len(la) + Len(b) : (la \o b)[i] = IF i <= Len(la) THEN la[i] ELSE b[i - Len(la)]
      BY <1>5, ConcatProperties
    <3>2. Len(la) = Len(a) - 1
      BY <2>3
    <3> QED BY <3>1, <3>2
  <2>7. ASSUME NEW i \in 1 .. Len(a) - 1 + Len(b)
        PROVE  lc[i] = (la \o b)[i]
    <3>1. i \in 1 .. Len(c) - 1
      BY <1>1, <1>3
    <3>2. CASE i <= Len(a) - 1
      <4>1. i \in 1 .. Len(a) - 1 /\ (la \o b)[i] = la[i] /\ c[i] = a[i] /\ c[i + 1] = a[i + 1]
        BY <1>1, <1>3, <2>6, <3>2
      <4> QED BY <2>3, <2>5, <3>1, <4>1
    <3>3. CASE ~(i <= Len(a) - 1)
      <4>1. ~(i < p) /\ i + 1 \in 1 .. Len(a) + Len(b) /\ ~(i + 1 <= Len(a))
            /\ i + 1 - Len(a) = i - (Len(a) - 1)
        BY <1>1, <2>1, <3>3
      <4>2. lc[i] = c[i + 1] /\ c[i + 1] = b[i + 1 - Len(a)] /\ (la \o b)[i] = b[i - (Len(a) - 1)]
        BY <1>3, <2>5, <2>6, <3>1, <3>3, <4>1
      <4> QED BY <4>1, <4>2
    <3> QED BY <3>2, <3>3
  <2>8. Len(lc) = Len(la \o b)
    BY <1>1, <1>3, <2>5, <2>6
  <2>9. lc = la \o b
    BY <1>1, <1>3, <1>5, <2>5, <2>6, <2>7, <2>8, SeqEqual
  <2> QED BY <2>2, <2>9 DEF la, lb, lc, c
<1>8. CASE j \in Board!Range(b)
  <2>1. PICK p \in 1 .. Len(b) : b[p] = j
    BY <1>1, <1>8 DEF Board!Range
  <2>2. la = a
    BY <1>2, <1>8, LessNone
  <2>3. Len(lb) = Len(b) - 1 /\ \A i \in 1 .. Len(b) - 1 : lb[i] = IF i < p THEN b[i] ELSE b[i + 1]
    BY <1>2, <2>1, LessIs
  <2> DEFINE q == Len(a) + p
  <2>4. q \in 1 .. Len(c) /\ c[q] = j
    <3>1. q \in 1 .. Len(c) /\ ~(q <= Len(a)) /\ q - Len(a) = p
      BY <1>1, <1>3, <2>1
    <3> QED BY <1>3, <2>1, <3>1
  <2>5. Len(lc) = Len(c) - 1 /\ \A i \in 1 .. Len(c) - 1 : lc[i] = IF i < q THEN c[i] ELSE c[i + 1]
    BY <1>3, <1>4, <2>4, LessIs
  <2> HIDE DEF la, lb, lc
  <2>6. /\ a \o lb \in Seq(X) /\ Len(a \o lb) = Len(a) + (Len(b) - 1)
        /\ \A i \in 1 .. Len(a) + (Len(b) - 1) :
             (a \o lb)[i] = IF i <= Len(a) THEN a[i] ELSE lb[i - Len(a)]
    <3>1. /\ a \o lb \in Seq(X) /\ Len(a \o lb) = Len(a) + Len(lb)
          /\ \A i \in 1 .. Len(a) + Len(lb) : (a \o lb)[i] = IF i <= Len(a) THEN a[i] ELSE lb[i - Len(a)]
      BY <1>5, ConcatProperties
    <3>2. Len(lb) = Len(b) - 1
      BY <2>3
    <3> QED BY <3>1, <3>2
  <2>7. ASSUME NEW i \in 1 .. Len(a) + (Len(b) - 1)
        PROVE  lc[i] = (a \o lb)[i]
    <3>1. i \in 1 .. Len(c) - 1
      BY <1>1, <1>3
    <3>2. CASE i <= Len(a)
      <4>1. i < q /\ i \in 1 .. Len(a) + Len(b)
        BY <1>1, <2>1, <3>2
      <4>2. c[i] = a[i] /\ (a \o lb)[i] = a[i]
        BY <1>3, <2>6, <3>2, <4>1
      <4> QED BY <2>5, <3>1, <4>1, <4>2
    <3>3. CASE ~(i <= Len(a))
      <4> DEFINE k == i - Len(a)
      <4>1. k \in 1 .. Len(b) - 1 /\ (i < q <=> k < p) /\ (i + 1) - Len(a) = k + 1 /\ ~(i + 1 <= Len(a))
        BY <1>1, <2>1, <3>3
      <4>2. (a \o lb)[i] = lb[k] /\ lb[k] = IF k < p THEN b[k] ELSE b[k + 1]
        BY <2>3, <2>6, <3>3, <4>1
      <4>3. c[i] = b[k] /\ c[i + 1] = b[k + 1]
        <5>1. /\ i \in 1 .. Len(a) + Len(b) /\ i + 1 \in 1 .. Len(a) + Len(b)
              /\ i - Len(a) = k /\ i + 1 - Len(a) = k + 1
          BY <1>1, <1>3, <3>1
        <5> HIDE DEF k
        <5> QED BY <1>3, <3>3, <4>1, <5>1
      <4> QED BY <2>5, <3>1, <4>1, <4>2, <4>3
    <3> QED BY <3>2, <3>3
  <2>8. Len(lc) = Len(a \o lb)
    BY <1>1, <1>3, <2>5, <2>6
  <2>9. lc = a \o lb
    BY <1>1, <1>3, <1>5, <2>5, <2>6, <2>7, <2>8, SeqEqual
  <2> QED BY <2>2, <2>9 DEF la, lb, lc, c
<1> QED BY <1>6, <1>7, <1>8

(* One page after a save of the job.                                         *)
Cut(p, j) == [jobs |-> Board!Less(p.jobs, j), total |-> IF p.total > 0 THEN p.total - 1 ELSE 0]

LEMMA CutType ==
  ASSUME NEW p \in PageRec, NEW j
  PROVE  Cut(p, j) \in PageRec /\ Len(Cut(p, j).jobs) <= Len(p.jobs)
<1>1. p.jobs \in Seq(Jobs) /\ p.total \in Nat
  BY DEF PageRec
<1>2. Board!Less(p.jobs, j) \in Seq(Jobs) /\ Len(Board!Less(p.jobs, j)) <= Len(p.jobs)
  BY <1>1, LessSeq
<1>3. (IF p.total > 0 THEN p.total - 1 ELSE 0) \in Nat
  BY <1>1
<1> QED BY <1>2, <1>3 DEF PageRec, Cut

LEMMA WithoutIs ==
  ASSUME NEW ps \in Seq(PageRec), NEW j
  PROVE  /\ Board!Without(ps, j) \in Seq(PageRec)
         /\ Len(Board!Without(ps, j)) = Len(ps)
         /\ \A i \in 1 .. Len(ps) : Board!Without(ps, j)[i] = Cut(ps[i], j)
<1>1. Len(ps) \in Nat /\ DOMAIN ps = 1 .. Len(ps) /\ \A i \in 1 .. Len(ps) : ps[i] \in PageRec
  BY LenProperties, ElementOfSeq
<1>2. Board!Without(ps, j) = [i \in 1 .. Len(ps) |-> Cut(ps[i], j)]
  BY <1>1 DEF Board!Without, Cut
<1>3. \A i \in 1 .. Len(ps) : Cut(ps[i], j) \in PageRec
  BY <1>1, CutType
<1> QED BY <1>1, <1>2, <1>3

LEMMA WithoutAppend ==
  ASSUME NEW ps \in Seq(PageRec), NEW p \in PageRec, NEW j
  PROVE  Board!Without(Append(ps, p), j) = Append(Board!Without(ps, j), Cut(p, j))
<1> DEFINE q == Append(ps, p)
           L == Board!Without(q, j)
           w == Board!Without(ps, j)
           c == Cut(p, j)
           R == Append(w, c)
<1>1. /\ q \in Seq(PageRec) /\ Len(q) = Len(ps) + 1 /\ Len(ps) \in Nat
      /\ \A i \in 1 .. Len(ps) : q[i] = ps[i]
      /\ q[Len(ps) + 1] = p
  BY AppendProperties, LenProperties
<1>2. w \in Seq(PageRec) /\ Len(w) = Len(ps) /\ \A i \in 1 .. Len(ps) : w[i] = Cut(ps[i], j)
  BY WithoutIs
<1> HIDE DEF q
<1>3. L \in Seq(PageRec) /\ Len(L) = Len(ps) + 1 /\ \A i \in 1 .. Len(ps) + 1 : L[i] = Cut(q[i], j)
  BY <1>1, WithoutIs
<1>4. c \in PageRec
  BY CutType
<1> HIDE DEF L, w, c
<1>5. /\ R \in Seq(PageRec) /\ Len(R) = Len(w) + 1
      /\ \A i \in 1 .. Len(w) : R[i] = w[i]
      /\ R[Len(w) + 1] = c
  BY <1>2, <1>4, AppendProperties
<1> HIDE DEF R
<1>6. ASSUME NEW i \in 1 .. Len(L)
      PROVE  L[i] = R[i]
  <2>1. CASE i \in 1 .. Len(ps)
    BY <1>1, <1>2, <1>3, <1>5, <2>1
  <2>2. CASE i = Len(ps) + 1
    BY <1>1, <1>2, <1>3, <1>5, <2>2 DEF c
  <2> QED BY <1>1, <1>3, <2>1, <2>2
<1>7. Len(L) = Len(R)
  BY <1>2, <1>3, <1>5
<1>8. L = R
  BY <1>3, <1>5, <1>6, <1>7, SeqEqual
<1> QED BY <1>8 DEF L, R, w, c, q

(* onMutate takes the row out of the pages as filter takes it out of the list. *)
LEMMA RowsWithout ==
  ASSUME NEW ps \in Seq(PageRec), NEW j, Board!IsInjective(Board!Rows(ps))
  PROVE  Board!Rows(Board!Without(ps, j)) = Board!Less(Board!Rows(ps), j)
<1> DEFINE P(qs) == Board!IsInjective(Board!Rows(qs)) =>
                      Board!Rows(Board!Without(qs, j)) = Board!Less(Board!Rows(qs), j)
           T == {qs \in Seq(PageRec) : P(qs)}
<1>1. << >> \in T
  <2>1. << >> \in Seq(PageRec) /\ Board!Without(<< >>, j) = << >> /\ Board!Rows(<< >>) = << >>
    BY RowsAppend, EmptySeq DEF Board!Without
  <2>2. Board!Less(<< >>, j) = << >>
    BY DEF Board!Less, Board!Range
  <2> QED BY <2>1, <2>2
<1>2. ASSUME NEW qs \in T, NEW p \in PageRec
      PROVE  Append(qs, p) \in T
  <2>1. qs \in Seq(PageRec) /\ P(qs)
    OBVIOUS
  <2>2. Append(qs, p) \in Seq(PageRec)
    BY <2>1, AppendProperties
  <2> SUFFICES ASSUME Board!IsInjective(Board!Rows(Append(qs, p)))
               PROVE  Board!Rows(Board!Without(Append(qs, p), j)) = Board!Less(Board!Rows(Append(qs, p)), j)
    BY <2>2
  <2> DEFINE a == Board!Rows(qs)
             b == p.jobs
             w == Board!Without(qs, j)
             c == Cut(p, j)
  <2>3. a \in Seq(Jobs) /\ b \in Seq(Jobs) /\ Board!Rows(Append(qs, p)) = a \o b
    BY <2>1, RowsAppend DEF PageRec
  <2>4. Board!IsInjective(a) /\ Board!Less(a \o b, j) = Board!Less(a, j) \o Board!Less(b, j)
    BY <2>3, ApartIs, LessCat
  <2>5. Board!Without(Append(qs, p), j) = Append(w, c)
    BY <2>1, WithoutAppend
  <2>6. w \in Seq(PageRec) /\ c \in PageRec
    BY <2>1, WithoutIs, CutType
  <2>7. Board!Rows(w) = Board!Less(a, j) /\ c.jobs = Board!Less(b, j)
    BY <2>1, <2>4 DEF Cut
  <2> HIDE DEF a, b, w, c, T
  <2>8. Board!Rows(Append(w, c)) = Board!Rows(w) \o c.jobs
    BY <2>6, RowsAppend
  <2> QED BY <2>3, <2>4, <2>5, <2>7, <2>8
<1>3. T \subseteq Seq(PageRec)
  OBVIOUS
<1> HIDE DEF T, P
<1>4. T = Seq(PageRec)
  BY <1>1, <1>2, <1>3, SequencesGrow
<1> QED BY <1>4 DEF T, P

-----------------------------------------------------------------------------
(* How much of the feed n pages hold.                                        *)
Upto(n) == IF n * PageSize < Len(feed) THEN n * PageSize ELSE Len(feed)

(* What GET /api/board answers for page n.                                    *)
LEMMA PageIs ==
  ASSUME feed \in Seq(Jobs), NEW n \in Nat
  PROVE  /\ Board!Page(n) \in PageRec
         /\ Board!Page(n).jobs = SubSeq(feed, n * PageSize + 1, Upto(n + 1))
         /\ Board!Page(n).total = Len(feed)
         /\ Len(Board!Page(n).jobs) <= PageSize
         /\ Upto(n) \in 0 .. Len(feed) /\ Upto(n + 1) \in Upto(n) .. Len(feed)
         /\ SubSeq(feed, n * PageSize + 1, Upto(n + 1)) = SubSeq(feed, Upto(n) + 1, Upto(n + 1))
<1>1. PageSize \in Nat /\ n * PageSize \in Nat /\ (n + 1) * PageSize = n * PageSize + PageSize
  BY BoardAssumption
<1>2. Len(feed) \in Nat /\ \A i \in 1 .. Len(feed) : feed[i] \in Jobs
  BY LenProperties, ElementOfSeq
<1> DEFINE m == n * PageSize
           u == Upto(n + 1)
<1>3. m \in Nat /\ u = IF m + PageSize < Len(feed) THEN m + PageSize ELSE Len(feed)
  BY <1>1 DEF Upto
<1>4. Upto(n) = IF m < Len(feed) THEN m ELSE Len(feed)
  BY DEF Upto
<1>5. Board!Page(n) = [jobs |-> SubSeq(feed, m + 1, u), total |-> Len(feed)]
  BY DEF Board!Page, Upto
<1>12. Board!Page(n).jobs = SubSeq(feed, m + 1, u) /\ Board!Page(n).total = Len(feed)
  BY DEF Board!Page, Upto
<1> HIDE DEF m, u
<1>6. u \in 0 .. Len(feed) /\ u - m <= PageSize
  BY <1>1, <1>2, <1>3
<1>7. /\ SubSeq(feed, m + 1, u) \in Seq(Jobs)
      /\ Len(SubSeq(feed, m + 1, u)) = IF m + 1 <= u THEN u - (m + 1) + 1 ELSE 0
  <2>1. m + 1 \in Int /\ u \in Int /\ \A i \in m + 1 .. u : feed[i] \in Jobs
    BY <1>2, <1>3, <1>6
  <2> QED BY <2>1, SubSeqProperties
<1>8. Len(SubSeq(feed, m + 1, u)) <= PageSize
  BY <1>1, <1>3, <1>6, <1>7
<1>9. Upto(n) \in 0 .. Len(feed) /\ u \in Upto(n) .. Len(feed)
  BY <1>1, <1>2, <1>3, <1>4
<1>10. SubSeq(feed, m + 1, u) = SubSeq(feed, Upto(n) + 1, u)
  <2>1. CASE m < Len(feed)
    BY <1>4, <2>1
  <2>2. CASE ~(m < Len(feed))
    <3>1. u < m + 1 /\ u < Upto(n) + 1
      BY <1>1, <1>2, <1>3, <1>4, <2>2
    <3>2. m + 1 \in Int /\ Upto(n) + 1 \in Int /\ u \in Int
      BY <1>2, <1>3, <1>6, <1>9
    <3> QED BY <3>1, <3>2, SubSeqEmpty
  <2> QED BY <2>1, <2>2
<1>11. Board!Page(n) \in PageRec
  BY <1>2, <1>5, <1>7 DEF PageRec
<1>13. Len(Board!Page(n).jobs) <= PageSize
  BY <1>8, <1>12
<1> QED BY <1>9, <1>10, <1>11, <1>12, <1>13 DEF m, u

(* Pages read from offset 0 on are the top of the feed.                       *)
LEMMA RowsOfFeed ==
  ASSUME feed \in Seq(Jobs), NEW ps \in Seq(PageRec), \A i \in 1 .. Len(ps) : ps[i] = Board!Page(i - 1)
  PROVE  Board!Rows(ps) = SubSeq(feed, 1, Upto(Len(ps)))
<1> DEFINE Read(qs) == \A i \in 1 .. Len(qs) : qs[i] = Board!Page(i - 1)
           P(qs) == Read(qs) => Board!Rows(qs) = SubSeq(feed, 1, Upto(Len(qs)))
           T == {qs \in Seq(PageRec) : P(qs)}
<1>1. << >> \in T
  <2>1. Upto(0) = 0
    <3>1. 0 * PageSize = 0 /\ Len(feed) \in Nat
      BY BoardAssumption, LenProperties
    <3> QED BY <3>1 DEF Upto
  <2>2. << >> \in Seq(PageRec) /\ Len(<< >>) = 0 /\ Board!Rows(<< >>) = << >>
    BY RowsAppend, EmptySeq
  <2>3. SubSeq(feed, 1, 0) = << >>
    BY SubSeqEmpty
  <2> QED BY <2>1, <2>2, <2>3
<1>2. ASSUME NEW qs \in T, NEW p \in PageRec
      PROVE  Append(qs, p) \in T
  <2>1. qs \in Seq(PageRec) /\ P(qs)
    OBVIOUS
  <2> DEFINE q == Append(qs, p)
             n == Len(qs)
  <2>2. /\ q \in Seq(PageRec) /\ Len(q) = n + 1 /\ n \in Nat
        /\ \A i \in 1 .. n : q[i] = qs[i]
        /\ q[n + 1] = p
    BY <2>1, AppendProperties, LenProperties
  <2> SUFFICES ASSUME Read(q)
               PROVE  Board!Rows(q) = SubSeq(feed, 1, Upto(n + 1))
    BY <2>2
  <2>3. Read(qs) /\ p = Board!Page(n)
    <3> HIDE DEF q
    <3>1. \A i \in 1 .. n : qs[i] = Board!Page(i - 1)
      BY <2>2
    <3>2. q[n + 1] = Board!Page((n + 1) - 1)
      BY <2>2
    <3> QED BY <2>2, <3>1, <3>2
  <2>4. Board!Rows(q) = Board!Rows(qs) \o p.jobs
    BY <2>1, RowsAppend
  <2>5. Board!Rows(qs) = SubSeq(feed, 1, Upto(n))
    BY <2>1, <2>3
  <2> HIDE DEF q, n
  <2>6. /\ p.jobs = SubSeq(feed, Upto(n) + 1, Upto(n + 1))
        /\ Upto(n) \in 0 .. Len(feed) /\ Upto(n + 1) \in Upto(n) .. Len(feed)
    BY <2>2, <2>3, PageIs
  <2>7. SubSeq(feed, 1, Upto(n)) \o SubSeq(feed, Upto(n) + 1, Upto(n + 1)) = SubSeq(feed, 1, Upto(n + 1))
    <3>1. Len(feed) \in Nat
      BY LenProperties
    <3>2. 1 \in 1 .. Len(feed) + 1 /\ Upto(n) \in 1 - 1 .. Len(feed)
      BY <2>6, <3>1
    <3> QED BY <2>6, <3>2, ConcatAdjacentSubSeq
  <2> QED BY <2>4, <2>5, <2>6, <2>7
<1>3. T \subseteq Seq(PageRec)
  OBVIOUS
<1>4. T = Seq(PageRec)
  <2> HIDE DEF T
  <2> QED BY <1>1, <1>2, <1>3, SequencesGrow
<1> QED BY <1>4

(* A list none of whose pages is short ends where the next page begins.       *)
LEMMA RowsOfFull ==
  ASSUME NEW ps \in Seq(PageRec), \A i \in 1 .. Len(ps) : Len(ps[i].jobs) = PageSize
  PROVE  Len(Board!Rows(ps)) = Len(ps) * PageSize
<1> DEFINE Full(qs) == \A i \in 1 .. Len(qs) : Len(qs[i].jobs) = PageSize
           P(qs) == Full(qs) => Len(Board!Rows(qs)) = Len(qs) * PageSize
           T == {qs \in Seq(PageRec) : P(qs)}
<1>1. << >> \in T
  <2>1. << >> \in Seq(PageRec) /\ Len(<< >>) = 0 /\ Board!Rows(<< >>) = << >> /\ 0 * PageSize = 0
    BY RowsAppend, EmptySeq, BoardAssumption
  <2> QED BY <2>1
<1>2. ASSUME NEW qs \in T, NEW p \in PageRec
      PROVE  Append(qs, p) \in T
  <2>1. qs \in Seq(PageRec) /\ P(qs)
    OBVIOUS
  <2> DEFINE q == Append(qs, p)
             n == Len(qs)
  <2>2. /\ q \in Seq(PageRec) /\ Len(q) = n + 1 /\ n \in Nat
        /\ \A i \in 1 .. n : q[i] = qs[i]
        /\ q[n + 1] = p
    BY <2>1, AppendProperties, LenProperties
  <2> SUFFICES ASSUME Full(q)
               PROVE  Len(Board!Rows(q)) = (n + 1) * PageSize
    BY <2>2
  <2>3. Full(qs) /\ Len(p.jobs) = PageSize
    <3> HIDE DEF q
    <3>1. \A i \in 1 .. n : Len(qs[i].jobs) = PageSize
      BY <2>2
    <3>2. Len(q[n + 1].jobs) = PageSize
      BY <2>2
    <3> QED BY <2>2, <3>1, <3>2
  <2>4. Board!Rows(q) = Board!Rows(qs) \o p.jobs /\ Board!Rows(qs) \in Seq(Jobs) /\ p.jobs \in Seq(Jobs)
    BY <2>1, RowsAppend DEF PageRec
  <2>5. Len(Board!Rows(qs)) = n * PageSize
    BY <2>1, <2>3
  <2> HIDE DEF q, n
  <2>6. Len(Board!Rows(q)) = Len(Board!Rows(qs)) + Len(p.jobs)
    BY <2>4, ConcatProperties
  <2>7. n * PageSize + PageSize = (n + 1) * PageSize
    BY <2>2, BoardAssumption
  <2> QED BY <2>3, <2>5, <2>6, <2>7
<1>3. T \subseteq Seq(PageRec)
  OBVIOUS
<1>4. T = Seq(PageRec)
  <2> HIDE DEF T
  <2> QED BY <1>1, <1>2, <1>3, SequencesGrow
<1> QED BY <1>4

(* The list shows the feed's rows at places `at`, in order, and skips none but *)
(* those of S before the last it shows.                                       *)
Skips(rows, f, S, at) ==
  /\ at \in [1 .. Len(rows) -> 1 .. Len(f)]
  /\ \A i \in 1 .. Len(rows) : rows[i] = f[at[i]] /\ rows[i] \notin S
  /\ \A i, k \in 1 .. Len(rows) : i < k => at[i] < at[k]
  /\ \A p \in 1 .. Len(f) : f[p] \notin S =>
       \/ \E i \in 1 .. Len(rows) : at[i] = p
       \/ \A i \in 1 .. Len(rows) : at[i] < p

Fits(rows, f, S) == \E at \in [1 .. Len(rows) -> 1 .. Len(f)] : Skips(rows, f, S, at)

LEMMA TopFits ==
  ASSUME NEW f \in Seq(Jobs), NEW u \in 0 .. Len(f)
  PROVE  Fits(SubSeq(f, 1, u), f, {})
<1> DEFINE r == SubSeq(f, 1, u)
           at == [i \in 1 .. u |-> i]
<1>1. Len(f) \in Nat /\ \A i \in 1 .. Len(f) : f[i] \in Jobs
  BY LenProperties, ElementOfSeq
<1>2. Len(r) = u /\ \A i \in 1 .. u : r[i] = f[i]
  <2>1. 1 \in Int /\ u \in Int /\ \A i \in 1 .. u : f[i] \in Jobs
    BY <1>1
  <2>2. Len(r) = (IF 1 <= u THEN u - 1 + 1 ELSE 0) /\ \A i \in 1 .. u - 1 + 1 : r[i] = f[1 + i - 1]
    BY <2>1, SubSeqProperties
  <2> HIDE DEF r
  <2>3. Len(r) = u
    BY <1>1, <2>2
  <2>4. u - 1 + 1 = u /\ \A i \in 1 .. u : 1 + i - 1 = i
    BY <1>1
  <2> QED BY <2>2, <2>3, <2>4
<1> HIDE DEF r
<1>3. at \in [1 .. Len(r) -> 1 .. Len(f)]
  BY <1>1, <1>2
<1>4. \A p \in 1 .. Len(f) :
        (\E i \in 1 .. Len(r) : at[i] = p) \/ \A i \in 1 .. Len(r) : at[i] < p
  BY <1>1, <1>2
<1>5. Skips(r, f, {}, at)
  BY <1>1, <1>2, <1>3, <1>4 DEF Skips
<1> QED BY <1>3, <1>5 DEF Fits, r

(* A list that skips nothing is the top of the feed.                          *)
LEMMA FitsExactly ==
  ASSUME NEW r \in Seq(Jobs), NEW f \in Seq(Jobs), Fits(r, f, {})
  PROVE  Len(r) <= Len(f) /\ r = SubSeq(f, 1, Len(r))
<1>1. Len(r) \in Nat /\ Len(f) \in Nat /\ \A i \in 1 .. Len(f) : f[i] \in Jobs
  BY LenProperties, ElementOfSeq
<1>2. PICK at \in [1 .. Len(r) -> 1 .. Len(f)] : Skips(r, f, {}, at)
  BY DEF Fits
<1>3. /\ \A i \in 1 .. Len(r) : r[i] = f[at[i]]
      /\ \A i, k \in 1 .. Len(r) : i < k => at[i] < at[k]
      /\ \A p \in 1 .. Len(f) : (\E i \in 1 .. Len(r) : at[i] = p) \/ \A i \in 1 .. Len(r) : at[i] < p
  BY <1>2 DEF Skips
<1> DEFINE D == {i \in 1 .. Len(r) : at[i] # i}
<1>4. D = {}
  <2> SUFFICES ASSUME D # {}
               PROVE  FALSE
    OBVIOUS
  <2>1. PICK k \in D : \A i \in D : k <= i
    <3>1. D \subseteq Nat
      OBVIOUS
    <3> HIDE DEF D
    <3> QED BY <3>1, LeastIs
  <2>2. \A i \in 1 .. k - 1 : at[i] = i
    BY <1>1, <2>1
  <2>3. at[k] > k
    <3>1. CASE k = 1
      BY <1>1, <3>1
    <3>2. CASE k # 1
      <4>1. at[k - 1] = k - 1 /\ at[k - 1] < at[k]
        BY <1>1, <1>3, <2>2, <3>2
      <4> QED BY <1>1, <4>1
    <3> QED BY <3>1, <3>2
  <2>4. k \in 1 .. Len(f) /\ ~(at[k] < k)
    BY <1>1, <2>3
  <2>5. PICK i \in 1 .. Len(r) : at[i] = k
    BY <1>3, <2>4
  <2>6. CASE i < k
    BY <1>1, <2>2, <2>5, <2>6
  <2>7. CASE i = k
    BY <2>5, <2>7
  <2>8. CASE i > k
    <3>1. at[k] < at[i]
      BY <1>3, <2>8
    <3> QED BY <1>1, <2>3, <2>5, <3>1
  <2> QED BY <1>1, <2>6, <2>7, <2>8
<1>5. \A i \in 1 .. Len(r) : r[i] = f[i] /\ i \in 1 .. Len(f)
  BY <1>3, <1>4
<1>6. Len(r) <= Len(f)
  <2>1. CASE Len(r) = 0
    BY <1>1, <2>1
  <2>2. CASE Len(r) # 0
    BY <1>1, <1>5, <2>2
  <2> QED BY <2>1, <2>2
<1> DEFINE s == SubSeq(f, 1, Len(r))
<1>7. s \in Seq(Jobs) /\ Len(s) = Len(r) /\ \A i \in 1 .. Len(r) : s[i] = f[i]
  <2>1. 1 \in Int /\ Len(r) \in Int /\ \A i \in 1 .. Len(r) : f[i] \in Jobs
    BY <1>1, <1>6
  <2>2. /\ s \in Seq(Jobs) /\ Len(s) = IF 1 <= Len(r) THEN Len(r) - 1 + 1 ELSE 0
        /\ \A i \in 1 .. Len(r) - 1 + 1 : s[i] = f[1 + i - 1]
    BY <2>1, SubSeqProperties
  <2> HIDE DEF s
  <2>3. Len(s) = Len(r)
    <3>1. Len(s) = IF 1 <= Len(r) THEN Len(r) - 1 + 1 ELSE 0
      BY <2>2
    <3> QED BY <1>1, <3>1
  <2>4. Len(r) - 1 + 1 = Len(r) /\ \A i \in 1 .. Len(r) : 1 + i - 1 = i
    BY <1>1
  <2> QED BY <2>2, <2>3, <2>4
<1> HIDE DEF s
<1>8. r = s
  BY <1>5, <1>7, SeqEqual
<1> QED BY <1>6, <1>8 DEF s

(* Such a list shows every row once and none that is being saved.             *)
LEMMA FitsApart ==
  ASSUME NEW r \in Seq(Jobs), NEW f \in Seq(Jobs), NEW S, Board!IsInjective(f), Fits(r, f, S)
  PROVE  /\ Board!IsInjective(r)
         /\ Board!Range(r) \subseteq Board!Range(f) \ S
<1>1. Len(r) \in Nat /\ Len(f) \in Nat /\ DOMAIN r = 1 .. Len(r) /\ DOMAIN f = 1 .. Len(f)
  BY LenProperties
<1>2. PICK at \in [1 .. Len(r) -> 1 .. Len(f)] : Skips(r, f, S, at)
  BY DEF Fits
<1>3. \A i \in 1 .. Len(r) : r[i] = f[at[i]] /\ r[i] \notin S /\ at[i] \in 1 .. Len(f)
  BY <1>2 DEF Skips
<1>4. \A i, k \in 1 .. Len(r) : i < k => at[i] < at[k]
  BY <1>2 DEF Skips
<1>5. Board!IsInjective(r)
  <2> SUFFICES ASSUME NEW i \in 1 .. Len(r), NEW k \in 1 .. Len(r), r[i] = r[k]
               PROVE  i = k
    BY <1>1 DEF Board!IsInjective
  <2>1. at[i] = at[k]
    BY <1>1, <1>3 DEF Board!IsInjective
  <2>2. ~(i < k) /\ ~(k < i)
    BY <1>3, <1>4, <2>1
  <2> QED BY <1>1, <2>2
<1>6. Board!Range(r) \subseteq Board!Range(f) \ S
  BY <1>1, <1>3 DEF Board!Range
<1> QED BY <1>5, <1>6

(* A save takes its row out of the list before it is taken out of the feed.   *)
LEMMA FitsSave ==
  ASSUME NEW r \in Seq(Jobs), NEW f \in Seq(Jobs), NEW S, Board!IsInjective(f), Fits(r, f, S),
         NEW j \in Board!Range(r)
  PROVE  Fits(Board!Less(r, j), f, S \cup {j})
<1>1. Len(r) \in Nat /\ Len(f) \in Nat /\ DOMAIN r = 1 .. Len(r) /\ DOMAIN f = 1 .. Len(f)
  BY LenProperties
<1>2. Board!IsInjective(r)
  BY FitsApart
<1>3. PICK p \in 1 .. Len(r) : r[p] = j
  BY <1>1 DEF Board!Range
<1> DEFINE l == Board!Less(r, j)
<1>4. Len(l) = Len(r) - 1 /\ \A i \in 1 .. Len(r) - 1 : l[i] = IF i < p THEN r[i] ELSE r[i + 1]
  BY <1>2, <1>3, LessIs
<1> HIDE DEF l
<1>5. PICK at \in [1 .. Len(r) -> 1 .. Len(f)] : Skips(r, f, S, at)
  BY DEF Fits
<1>6. /\ \A i \in 1 .. Len(r) : r[i] = f[at[i]] /\ r[i] \notin S /\ at[i] \in 1 .. Len(f)
      /\ \A i, k \in 1 .. Len(r) : i < k => at[i] < at[k]
  BY <1>5 DEF Skips
<1> DEFINE n == Len(r) - 1
           to == [i \in 1 .. n |-> IF i < p THEN at[i] ELSE at[i + 1]]
<1>7. /\ n \in Nat
      /\ \A i \in 1 .. n : i \in 1 .. Len(r) /\ i + 1 \in 1 .. Len(r)
  BY <1>1, <1>3
<1>8. to \in [1 .. n -> 1 .. Len(f)] /\ \A i \in 1 .. n : to[i] = IF i < p THEN at[i] ELSE at[i + 1]
  BY <1>6, <1>7
<1> HIDE DEF to
<1>9. \A i \in 1 .. n : l[i] = f[to[i]] /\ l[i] \notin S \cup {j}
  <2> SUFFICES ASSUME NEW i \in 1 .. n
               PROVE  l[i] = f[to[i]] /\ l[i] \notin S \cup {j}
    OBVIOUS
  <2>1. CASE i < p
    <3>1. l[i] = r[i] /\ to[i] = at[i] /\ i # p
      BY <1>1, <1>4, <1>8, <2>1
    <3> QED BY <1>1, <1>2, <1>3, <1>6, <1>7, <3>1 DEF Board!IsInjective
  <2>2. CASE ~(i < p)
    <3>1. l[i] = r[i + 1] /\ to[i] = at[i + 1] /\ i + 1 # p
      BY <1>1, <1>4, <1>8, <2>2
    <3> QED BY <1>1, <1>2, <1>3, <1>6, <1>7, <3>1 DEF Board!IsInjective
  <2> QED BY <2>1, <2>2
<1>10. \A i, k \in 1 .. n : i < k => to[i] < to[k]
  <2> SUFFICES ASSUME NEW i \in 1 .. n, NEW k \in 1 .. n, i < k
               PROVE  to[i] < to[k]
    OBVIOUS
  <2>1. CASE k < p
    BY <1>1, <1>6, <1>7, <1>8, <2>1
  <2>2. CASE ~(k < p) /\ i < p
    <3>1. to[i] = at[i] /\ to[k] = at[k + 1] /\ i < k + 1
      BY <1>1, <1>8, <2>2
    <3> QED BY <1>6, <1>7, <3>1
  <2>3. CASE ~(i < p)
    <3>1. to[i] = at[i + 1] /\ to[k] = at[k + 1] /\ i + 1 < k + 1
      BY <1>1, <1>8, <2>3
    <3> QED BY <1>6, <1>7, <3>1
  <2> QED BY <2>1, <2>2, <2>3
<1>11. ASSUME NEW q \in 1 .. Len(f), f[q] \notin S \cup {j}
       PROVE  (\E i \in 1 .. n : to[i] = q) \/ \A i \in 1 .. n : to[i] < q
  <2>1. (\E i \in 1 .. Len(r) : at[i] = q) \/ \A i \in 1 .. Len(r) : at[i] < q
    BY <1>5, <1>11 DEF Skips
  <2>2. CASE \A i \in 1 .. Len(r) : at[i] < q
    BY <1>7, <1>8, <2>2
  <2>3. ASSUME NEW i \in 1 .. Len(r), at[i] = q
        PROVE  \E k \in 1 .. n : to[k] = q
    <3>1. i # p
      BY <1>3, <1>6, <1>11, <2>3
    <3>2. CASE i < p
      <4>1. i \in 1 .. n /\ to[i] = at[i]
        BY <1>1, <1>8, <3>2
      <4> QED BY <2>3, <4>1
    <3>3. CASE i > p
      <4>1. i - 1 \in 1 .. n /\ ~(i - 1 < p) /\ (i - 1) + 1 = i
        BY <1>1, <3>3
      <4>2. to[i - 1] = at[i]
        BY <1>8, <4>1
      <4> QED BY <2>3, <4>1, <4>2
    <3> QED BY <1>1, <3>1, <3>2, <3>3
  <2> QED BY <2>1, <2>2, <2>3
<1>12. Len(l) = n
  BY <1>4
<1>13. Skips(l, f, S \cup {j}, to)
  <2> HIDE DEF n
  <2> QED BY <1>8, <1>9, <1>10, <1>11, <1>12 DEF Skips
<1>14. to \in [1 .. Len(l) -> 1 .. Len(f)]
  BY <1>8, <1>12
<1> QED BY <1>13, <1>14 DEF Fits, l

(* When the save is committed the feed loses the row the list has lost.       *)
LEMMA FitsCommit ==
  ASSUME NEW r \in Seq(Jobs), NEW f \in Seq(Jobs), NEW S, Board!IsInjective(f), Fits(r, f, S), NEW j \in S
  PROVE  Fits(r, Board!Less(f, j), S \ {j})
<1>1. Len(r) \in Nat /\ Len(f) \in Nat /\ DOMAIN r = 1 .. Len(r) /\ DOMAIN f = 1 .. Len(f)
  BY LenProperties
<1>2. PICK at \in [1 .. Len(r) -> 1 .. Len(f)] : Skips(r, f, S, at)
  BY DEF Fits
<1>3. /\ \A i \in 1 .. Len(r) : r[i] = f[at[i]] /\ r[i] \notin S /\ at[i] \in 1 .. Len(f)
      /\ \A i, k \in 1 .. Len(r) : i < k => at[i] < at[k]
  BY <1>2 DEF Skips
<1>4. CASE j \notin Board!Range(f)
  <2>1. \A q \in 1 .. Len(f) : f[q] # j
    BY <1>1, <1>4 DEF Board!Range
  <2>2. Skips(r, f, S \ {j}, at)
    BY <1>2, <2>1 DEF Skips
  <2>3. Board!Less(f, j) = f
    BY <1>4, LessNone
  <2> QED BY <2>2, <2>3 DEF Fits
<1>5. CASE j \in Board!Range(f)
  <2>1. PICK p \in 1 .. Len(f) : f[p] = j
    BY <1>1, <1>5 DEF Board!Range
  <2> DEFINE g == Board!Less(f, j)
  <2>2. Len(g) = Len(f) - 1 /\ \A i \in 1 .. Len(f) - 1 : g[i] = IF i < p THEN f[i] ELSE f[i + 1]
    BY <2>1, LessIs
  <2> HIDE DEF g
  <2> DEFINE n == Len(f) - 1
             to == [i \in 1 .. Len(r) |-> IF at[i] < p THEN at[i] ELSE at[i] - 1]
  <2>3. \A i \in 1 .. Len(r) : at[i] # p
    BY <1>3, <2>1
  <2>4. \A i \in 1 .. Len(r) : IF at[i] < p THEN at[i] \in 1 .. n ELSE at[i] - 1 \in 1 .. n /\ at[i] - 1 >= p
    BY <1>1, <1>3, <2>1, <2>3
  <2>5. to \in [1 .. Len(r) -> 1 .. n] /\ \A i \in 1 .. Len(r) : to[i] = IF at[i] < p THEN at[i] ELSE at[i] - 1
    BY <2>4
  <2> HIDE DEF to
  <2>6. \A i \in 1 .. Len(r) : r[i] = g[to[i]] /\ r[i] \notin S \ {j}
    <3> SUFFICES ASSUME NEW i \in 1 .. Len(r)
                 PROVE  r[i] = g[to[i]]
      BY <1>3
    <3>1. CASE at[i] < p
      BY <1>3, <2>2, <2>4, <2>5, <3>1
    <3>2. CASE ~(at[i] < p)
      <4>1. to[i] = at[i] - 1 /\ at[i] - 1 \in 1 .. n /\ ~(at[i] - 1 < p) /\ (at[i] - 1) + 1 = at[i]
        BY <1>1, <1>3, <2>4, <2>5, <3>2
      <4> QED BY <1>3, <2>2, <4>1
    <3> QED BY <3>1, <3>2
  <2>7. \A i, k \in 1 .. Len(r) : i < k => to[i] < to[k]
    <3> SUFFICES ASSUME NEW i \in 1 .. Len(r), NEW k \in 1 .. Len(r), i < k
                 PROVE  to[i] < to[k]
      OBVIOUS
    <3>1. at[i] < at[k] /\ at[i] \in 1 .. Len(f) /\ at[k] \in 1 .. Len(f)
      BY <1>3
    <3>2. at[i] # p /\ at[k] # p /\ p \in Nat
      BY <2>1, <2>3
    <3> QED BY <1>1, <2>5, <3>1, <3>2
  <2>8. ASSUME NEW q \in 1 .. n, g[q] \notin S \ {j}
        PROVE  (\E i \in 1 .. Len(r) : to[i] = q) \/ \A i \in 1 .. Len(r) : to[i] < q
    <3> DEFINE h == IF q < p THEN q ELSE q + 1
    <3>1. h \in 1 .. Len(f) /\ h # p /\ g[q] = f[h]
      BY <1>1, <2>1, <2>2
    <3>2. f[h] # j
      BY <1>1, <2>1, <3>1 DEF Board!IsInjective
    <3>3. (\E i \in 1 .. Len(r) : at[i] = h) \/ \A i \in 1 .. Len(r) : at[i] < h
      <4> HIDE DEF h
      <4> QED BY <1>2, <2>8, <3>1, <3>2 DEF Skips
    <3>4. ASSUME NEW i \in 1 .. Len(r), at[i] = h
          PROVE  to[i] = q
      BY <1>1, <1>3, <2>1, <2>5, <3>4
    <3>5. ASSUME NEW i \in 1 .. Len(r), at[i] < h
          PROVE  to[i] < q
      <4>1. at[i] # p /\ at[i] \in 1 .. Len(f) /\ p \in 1 .. Len(f) /\ Len(f) \in Nat
        BY <1>1, <1>3, <2>3
      <4>2. to[i] = IF at[i] < p THEN at[i] ELSE at[i] - 1
        BY <2>5
      <4> QED BY <3>5, <4>1, <4>2
    <3> QED BY <3>3, <3>4, <3>5
  <2>9. Len(g) = n
    BY <2>2
  <2>10. Skips(r, g, S \ {j}, to)
    <3> HIDE DEF n
    <3> QED BY <2>5, <2>6, <2>7, <2>8, <2>9 DEF Skips
  <2>11. to \in [1 .. Len(r) -> 1 .. Len(g)]
    BY <2>5, <2>9
  <2> QED BY <2>10, <2>11 DEF Fits, g
<1> QED BY <1>4, <1>5

FeedType ==
  /\ feed \in Seq(Jobs) /\ Board!IsInjective(feed)
  /\ {changes, saves, posted} \subseteq Nat
  /\ hint \in BOOLEAN /\ disturbed \in BOOLEAN
  /\ saving \subseteq Jobs /\ IsFiniteSet(saving) /\ stored \subseteq Jobs
  /\ pages \in Seq(PageRec) /\ pages # << >>
  /\ \A i \in 1 .. Len(pages) : Len(pages[i].jobs) <= PageSize
  /\ fetch \in [kind : {"none", "next", "all"}, want : Nat, got : Seq(PageRec), early : BOOLEAN]
  /\ \A i \in 1 .. Len(fetch.got) : Len(fetch.got[i].jobs) <= PageSize
  /\ fetch.kind = "all" => fetch.want > 0
  /\ fetch.kind = "next" => fetch.want = 1 /\ Len(fetch.got) <= 1

(* The page the first one of a fetch is.                                      *)
First == IF fetch.kind = "next" THEN Len(pages) ELSE 0

(* What a fetch has read is the feed's, unless it read too early.             *)
ReadIsFeed ==
  fetch.kind # "none" /\ fetch.got # << >> /\ ~fetch.early =>
    /\ saving = {}
    /\ ~hint /\ posted = 0 =>
         \A i \in 1 .. Len(fetch.got) : fetch.got[i] = Board!Page(First + i - 1)

(* No refetch is owed, and none of the three ways has spoilt the list.        *)
Settled == ~hint /\ posted = 0 /\ fetch.kind # "all" /\ ~disturbed

(* Then it lacks what is being saved, and nothing else.                       *)
PagesFit ==
  Settled =>
    /\ Fits(Board!Rows(pages), feed, saving)
    /\ Board!Last(pages).total = Len(feed) - Cardinality(saving \cap Board!Range(feed))

FeedInv == FeedType /\ ReadIsFeed /\ PagesFit

(* A job put into a feed without it is in it once.                            *)
LEMMA PutIn ==
  ASSUME NEW X, NEW s \in Seq(X), Board!IsInjective(s), NEW j \in X, j \notin Board!Range(s),
         NEW p \in 1 .. Len(s) + 1
  PROVE  Board!InsertAt(s, p, j) \in Seq(X) /\ Board!IsInjective(Board!InsertAt(s, p, j))
<1>1. Len(s) \in Nat /\ DOMAIN s = 1 .. Len(s) /\ \A i \in 1 .. Len(s) : s[i] \in X
  BY LenProperties, ElementOfSeq
<1> DEFINE a == SubSeq(s, 1, p - 1)
           b == SubSeq(s, p, Len(s))
           c == a \o << j >>
<1>2. Board!InsertAt(s, p, j) = c \o b
  BY DEF Board!InsertAt
<1>3. a \in Seq(X) /\ Len(a) = p - 1 /\ \A i \in 1 .. p - 1 : a[i] = s[i]
  <2>1. 1 \in Int /\ p - 1 \in Int /\ \A i \in 1 .. p - 1 : s[i] \in X
    BY <1>1
  <2>2. /\ a \in Seq(X) /\ Len(a) = IF 1 <= p - 1 THEN (p - 1) - 1 + 1 ELSE 0
        /\ \A i \in 1 .. (p - 1) - 1 + 1 : a[i] = s[1 + i - 1]
    BY <2>1, SubSeqProperties
  <2> HIDE DEF a
  <2>3. p - 1 \in Nat /\ (p - 1) - 1 + 1 = p - 1 /\ \A i \in 1 .. p - 1 : 1 + i - 1 = i
    BY <1>1
  <2>4. Len(a) = p - 1
    BY <2>2, <2>3
  <2>5. \A i \in 1 .. p - 1 : a[i] = s[i]
    BY <2>2, <2>3
  <2> QED BY <2>2, <2>4, <2>5
<1>4. b \in Seq(X) /\ Len(b) = Len(s) - p + 1 /\ \A i \in 1 .. Len(s) - p + 1 : b[i] = s[p + i - 1]
  <2>1. p \in Int /\ Len(s) \in Int /\ \A i \in p .. Len(s) : s[i] \in X
    BY <1>1
  <2>2. /\ b \in Seq(X) /\ Len(b) = IF p <= Len(s) THEN Len(s) - p + 1 ELSE 0
        /\ \A i \in 1 .. Len(s) - p + 1 : b[i] = s[p + i - 1]
    BY <2>1, SubSeqProperties
  <2> HIDE DEF b
  <2>3. Len(b) = IF p <= Len(s) THEN Len(s) - p + 1 ELSE 0
    BY <2>2
  <2>4. Len(b) = Len(s) - p + 1
    BY <1>1, <2>3
  <2> QED BY <2>2, <2>4
<1> HIDE DEF a, b
<1>5. /\ c \in Seq(X) /\ Len(c) = p
      /\ \A i \in 1 .. p - 1 : c[i] = s[i]
      /\ c[p] = j
  <2>1. c = Append(a, j)
    BY <1>3, AppendIsConcat
  <2>2. /\ Append(a, j) \in Seq(X) /\ Len(Append(a, j)) = Len(a) + 1
        /\ \A i \in 1 .. Len(a) : Append(a, j)[i] = a[i]
        /\ Append(a, j)[Len(a) + 1] = j
    BY <1>3, AppendProperties
  <2> HIDE DEF c
  <2>3. Len(a) + 1 = p
    BY <1>1, <1>3
  <2> QED BY <1>3, <2>1, <2>2, <2>3
<1> HIDE DEF c
<1> DEFINE r == c \o b
<1>6. /\ r \in Seq(X) /\ Len(r) = Len(c) + Len(b)
      /\ \A i \in 1 .. Len(c) + Len(b) : r[i] = IF i <= Len(c) THEN c[i] ELSE b[i - Len(c)]
  BY <1>4, <1>5, ConcatProperties
<1> HIDE DEF r
<1>7. Len(r) = Len(s) + 1 /\ DOMAIN r = 1 .. Len(s) + 1
  <2>1. Len(r) = Len(s) + 1
    BY <1>1, <1>4, <1>5, <1>6
  <2> QED BY <1>6, <2>1, LenProperties
<1>8. ASSUME NEW i \in 1 .. Len(s) + 1
      PROVE  r[i] = IF i < p THEN s[i] ELSE IF i = p THEN j ELSE s[i - 1]
  <2>1. r[i] = IF i <= p THEN c[i] ELSE b[i - p]
    BY <1>1, <1>4, <1>5, <1>6, <1>7
  <2>2. CASE i <= p
    BY <1>1, <1>5, <2>1, <2>2
  <2>3. CASE ~(i <= p)
    <3>1. i - p \in 1 .. Len(s) - p + 1 /\ p + (i - p) - 1 = i - 1 /\ ~(i < p) /\ i # p
      BY <1>1, <2>3
    <3>2. b[i - p] = s[i - 1]
      BY <1>4, <3>1
    <3> QED BY <2>1, <2>3, <3>1, <3>2
  <2> QED BY <2>2, <2>3
<1>9. \A i \in 1 .. Len(s) : s[i] # j
  BY <1>1 DEF Board!Range
<1>10. Board!IsInjective(r)
  <2> SUFFICES ASSUME NEW i \in 1 .. Len(s) + 1, NEW k \in 1 .. Len(s) + 1, i < k
               PROVE  r[i] # r[k]
    <3>1. ASSUME \A i, k \in 1 .. Len(s) + 1 : i < k => r[i] # r[k],
                 NEW i \in 1 .. Len(s) + 1, NEW k \in 1 .. Len(s) + 1, r[i] = r[k]
          PROVE  i = k
      <4>1. ~(i < k) /\ ~(k < i)
        BY <3>1
      <4> QED BY <1>1, <4>1
    <3> QED BY <1>7, <3>1 DEF Board!IsInjective
  <2>1. CASE i < p /\ k < p
    BY <1>1, <1>8, <2>1 DEF Board!IsInjective
  <2>2. CASE i < p /\ k = p
    BY <1>1, <1>8, <1>9, <2>2
  <2>3. CASE i < p /\ k > p
    <3>1. r[i] = s[i] /\ r[k] = s[k - 1] /\ i # k - 1 /\ i \in DOMAIN s /\ k - 1 \in DOMAIN s
      BY <1>1, <1>8, <2>3
    <3> QED BY <3>1 DEF Board!IsInjective
  <2>4. CASE i = p
    BY <1>1, <1>8, <1>9, <2>4
  <2>5. CASE i > p
    <3>1. r[i] = s[i - 1] /\ r[k] = s[k - 1] /\ i - 1 # k - 1 /\ i - 1 \in DOMAIN s /\ k - 1 \in DOMAIN s
      BY <1>1, <1>8, <2>5
    <3> QED BY <3>1 DEF Board!IsInjective
  <2> QED BY <1>1, <2>1, <2>2, <2>3, <2>4, <2>5
<1> QED BY <1>2, <1>6, <1>10 DEF r

-----------------------------------------------------------------------------
LEMMA BoardStart == Board!Init => FeedInv
<1> SUFFICES ASSUME Board!Init
             PROVE  FeedInv
  OBVIOUS
<1>1. feed \in Seq(Jobs) /\ Board!IsInjective(feed)
  BY DEF Board!Init
<1>2. /\ Board!Page(0) \in PageRec
      /\ Board!Page(0).total = Len(feed)
      /\ Len(Board!Page(0).jobs) <= PageSize
      /\ Upto(0) \in 0 .. Len(feed) /\ Upto(0 + 1) \in Upto(0) .. Len(feed)
  BY <1>1, PageIs
<1>3. pages \in Seq(PageRec) /\ pages # << >> /\ Len(pages) = 1 /\ pages[1] = Board!Page(0)
  BY <1>2 DEF Board!Init
<1>4. fetch = [kind |-> "none", want |-> 0, got |-> << >>, early |-> FALSE]
  BY DEF Board!Init, Board!Idle
<1>5. FeedType
  <2>1. /\ changes = 0 /\ saves = 0 /\ posted = 0 /\ hint = FALSE /\ disturbed = FALSE
        /\ saving = {} /\ stored = {}
    BY DEF Board!Init
  <2>2. << >> \in Seq(PageRec) /\ Len(<< >>) = 0
    BY EmptySeq
  <2>3. \A i \in 1 .. Len(pages) : Len(pages[i].jobs) <= PageSize
    BY <1>2, <1>3
  <2>4. /\ fetch \in [kind : {"none", "next", "all"}, want : Nat, got : Seq(PageRec), early : BOOLEAN]
        /\ fetch.kind = "none" /\ fetch.got = << >>
    BY <1>4, <2>2
  <2>5. \A i \in 1 .. Len(fetch.got) : Len(fetch.got[i].jobs) <= PageSize
    BY <2>2, <2>4
  <2>6. {changes, saves, posted} \subseteq Nat
    BY <2>1
  <2>9. hint \in BOOLEAN /\ disturbed \in BOOLEAN
    BY <2>1, Zenon
  <2>7. saving \subseteq Jobs /\ IsFiniteSet(saving) /\ stored \subseteq Jobs
    BY <2>1, FS_EmptySet
  <2>8. fetch.kind # "next" /\ fetch.kind # "all"
    BY <2>4
  <2> QED BY <1>1, <1>3, <2>3, <2>4, <2>5, <2>6, <2>7, <2>8, <2>9 DEF FeedType
<1>6. ReadIsFeed
  BY <1>4 DEF ReadIsFeed
<1>7. Board!Rows(pages) = SubSeq(feed, 1, Upto(1))
  <2>1. \A i \in 1 .. Len(pages) : pages[i] = Board!Page(i - 1)
    BY <1>3
  <2> QED BY <1>1, <1>3, <2>1, RowsOfFeed
<1>8. Upto(1) \in 0 .. Len(feed)
  BY <1>1, <1>2, LenProperties
<1>9. Fits(Board!Rows(pages), feed, {})
  BY <1>1, <1>7, <1>8, TopFits
<1>10. saving = {} /\ Board!Last(pages).total = Len(feed)
  BY <1>2, <1>3 DEF Board!Init, Board!Last
<1>11. Len(feed) - Cardinality(saving \cap Board!Range(feed)) = Len(feed)
  <2>1. saving \cap Board!Range(feed) = {}
    BY <1>10
  <2> QED BY <1>1, <2>1, FS_EmptySet, LenProperties
<1> QED BY <1>5, <1>6, <1>9, <1>10, <1>11 DEF FeedInv, PagesFit

(* A change of the feed is followed by a hint, or by the answer of the Trash.  *)
LEMMA RankKeeps ==
  ASSUME FeedInv, NEW j \in Jobs, Board!Rank(j)
  PROVE  FeedInv'
<1>1. FeedType /\ ReadIsFeed
  BY DEF FeedInv
<1>2. /\ hint' = TRUE /\ changes' = changes + 1
      /\ UNCHANGED <<saves, posted, saving, stored, pages, fetch, disturbed>>
  BY DEF Board!Rank, Board!Change
<1> DEFINE others == Board!Less(feed, j)
<1>3. others \in Seq(Jobs) /\ Board!IsInjective(others) /\ j \notin Board!Range(others)
  BY <1>1, LessType DEF FeedType
<1>4. PICK p \in 1 .. Len(others) + 1 : feed' = Board!InsertAt(others, p, j)
  BY DEF Board!Rank
<1> HIDE DEF others
<1>5. feed' \in Seq(Jobs) /\ Board!IsInjective(feed')
  BY <1>3, <1>4, PutIn
<1>6. FeedType'
  BY <1>1, <1>2, <1>5 DEF FeedType
<1> QED BY <1>1, <1>2, <1>6 DEF FeedInv, ReadIsFeed, PagesFit, Settled

LEMMA TrashKeeps ==
  ASSUME FeedInv, NEW j \in Jobs, Board!Trash(j)
  PROVE  FeedInv'
<1>1. FeedType /\ ReadIsFeed
  BY DEF FeedInv
<1>2. /\ posted' = posted + 1 /\ changes' = changes + 1 /\ feed' = Board!Less(feed, j)
      /\ UNCHANGED <<saves, hint, saving, stored, pages, fetch, disturbed>>
  BY DEF Board!Trash, Board!Change
<1>3. feed' \in Seq(Jobs) /\ Board!IsInjective(feed')
  BY <1>1, <1>2, LessType DEF FeedType
<1>4. posted' \in Nat /\ posted' # 0
  BY <1>1, <1>2 DEF FeedType
<1>5. FeedType'
  BY <1>1, <1>2, <1>3, <1>4 DEF FeedType
<1> QED BY <1>1, <1>2, <1>4, <1>5 DEF FeedInv, ReadIsFeed, PagesFit, Settled

(* A refetch begins: the list is not spoken of until it has landed.           *)
LEMMA RefetchIs ==
  ASSUME FeedType, Board!Invalidate
  PROVE  fetch' = [kind |-> "all", want |-> Len(pages), got |-> << >>, early |-> FALSE] /\ Len(pages) \in Nat \ {0}
<1>1. fetch' = [kind |-> "all", want |-> Len(pages), got |-> << >>, early |-> FALSE]
  BY DEF Board!Invalidate, Board!Refetch, Board!Idle
<1>2. Len(pages) \in Nat \ {0}
  BY EmptySeq DEF FeedType
<1> QED BY <1>1, <1>2

LEMMA InvalidateKeeps ==
  ASSUME FeedInv, Board!Hint \/ Board!Trashed \/ \E j \in Jobs : Board!SaveFails(j)
  PROVE  FeedInv'
<1>1. FeedType
  BY DEF FeedInv
<1>2. Board!Invalidate /\ UNCHANGED <<feed, changes, saves, pages, disturbed>>
  BY DEF Board!Hint, Board!Trashed, Board!SaveFails, Board!server
<1>3. fetch' = [kind |-> "all", want |-> Len(pages), got |-> << >>, early |-> FALSE] /\ Len(pages) \in Nat \ {0}
  BY <1>1, <1>2, RefetchIs
<1>4. hint' \in BOOLEAN /\ posted' \in Nat /\ saving' \subseteq Jobs /\ IsFiniteSet(saving') /\ stored' \subseteq Jobs
  <2>1. CASE Board!Hint
    BY <1>1, <2>1 DEF Board!Hint, FeedType
  <2>2. CASE Board!Trashed
    BY <1>1, <2>2 DEF Board!Trashed, FeedType
  <2>3. ASSUME NEW j \in Jobs, Board!SaveFails(j)
        PROVE  hint' \in BOOLEAN /\ posted' \in Nat /\ saving' \subseteq Jobs /\ IsFiniteSet(saving') /\ stored' \subseteq Jobs
    BY <1>1, <2>3, FS_RemoveElement DEF Board!SaveFails, FeedType
  <2> QED BY <2>1, <2>2, <2>3
<1>5. FeedType'
  <2>1. << >> \in Seq(PageRec) /\ Len(<< >>) = 0
    BY EmptySeq
  <2> QED BY <1>1, <1>2, <1>3, <1>4, <2>1 DEF FeedType
<1> QED BY <1>3, <1>5 DEF FeedInv, ReadIsFeed, PagesFit, Settled

(* A scroll drops a refetch, and then the list is disturbed.                  *)
LEMMA FetchNextKeeps ==
  ASSUME FeedInv, Board!FetchNext
  PROVE  FeedInv'
<1>1. FeedType /\ PagesFit
  BY DEF FeedInv
<1>2. /\ fetch' = [kind |-> "next", want |-> 1, got |-> << >>, early |-> FALSE]
      /\ disturbed' = (disturbed \/ fetch.kind = "all")
      /\ UNCHANGED <<feed, changes, saves, hint, posted, saving, stored, pages>>
  BY DEF Board!FetchNext, Board!Idle, Board!server
<1>3. FeedType'
  <2>1. << >> \in Seq(PageRec) /\ Len(<< >>) = 0
    BY EmptySeq
  <2> QED BY <1>1, <1>2, <2>1 DEF FeedType
<1>4. ReadIsFeed'
  BY <1>2 DEF ReadIsFeed
<1>5. PagesFit'
  <2>1. Settled' => Settled
    BY <1>2 DEF Settled
  <2>2. Board!Rows(pages)' = Board!Rows(pages) /\ Board!Last(pages)' = Board!Last(pages)
    BY <1>2
  <2> QED BY <1>1, <1>2, <2>1, <2>2 DEF PagesFit
<1> QED BY <1>3, <1>4, <1>5 DEF FeedInv

LEMMA ReadPageKeeps ==
  ASSUME FeedInv, Board!ReadPage
  PROVE  FeedInv'
<1>1. FeedType /\ ReadIsFeed /\ PagesFit
  BY DEF FeedInv
<1> DEFINE n == IF fetch.kind = "next" THEN Len(pages) ELSE Len(fetch.got)
           p == Board!Page(n)
<1>2. /\ fetch' = [fetch EXCEPT !.got = Append(@, p), !.early = @ \/ saving # {}]
      /\ UNCHANGED <<feed, changes, saves, hint, posted, saving, stored, pages, disturbed>>
      /\ fetch.kind # "none" /\ Len(fetch.got) # fetch.want
  BY DEF Board!ReadPage, Board!server, Board!Complete
<1>3. /\ fetch.kind \in {"next", "all"} /\ fetch.want \in Nat /\ fetch.got \in Seq(PageRec)
      /\ fetch.early \in BOOLEAN /\ Len(fetch.got) \in Nat /\ Len(pages) \in Nat /\ n \in Nat
  <2>1. fetch.got \in Seq(PageRec) /\ pages \in Seq(PageRec)
    BY <1>1 DEF FeedType
  <2>2. Len(fetch.got) \in Nat /\ Len(pages) \in Nat
    BY <2>1, LenProperties
  <2> QED BY <1>1, <1>2, <2>1, <2>2 DEF FeedType
<1>4. p \in PageRec /\ Len(p.jobs) <= PageSize
  BY <1>1, <1>3, PageIs DEF FeedType
<1> HIDE DEF p
<1> DEFINE g == fetch.got
           h == fetch'.got
<1>5. /\ fetch'.kind = fetch.kind /\ fetch'.want = fetch.want /\ h = Append(g, p)
      /\ fetch'.early = (fetch.early \/ saving # {})
      /\ fetch' \in [kind : {"none", "next", "all"}, want : Nat, got : Seq(PageRec), early : BOOLEAN]
  <2>1. Append(fetch.got, p) \in Seq(PageRec)
    BY <1>3, <1>4, AppendProperties
  <2> QED BY <1>1, <1>2, <1>3, <2>1 DEF FeedType
<1>6. /\ Len(h) = Len(g) + 1 /\ h[Len(g) + 1] = p /\ \A i \in 1 .. Len(g) : h[i] = g[i]
  BY <1>3, <1>4, <1>5, AppendProperties
<1>7. fetch.kind = "next" => g = << >> /\ Len(g) = 0
  <2>1. fetch.kind = "next" => Len(g) = 0
    BY <1>1, <1>2, <1>3 DEF FeedType
  <2> QED BY <1>3, <2>1, EmptySeq
<1> HIDE DEF n
<1>8. FeedType'
  <2>1. \A i \in 1 .. Len(h) : Len(h[i].jobs) <= PageSize
    <3> SUFFICES ASSUME NEW i \in 1 .. Len(h)
                 PROVE  Len(h[i].jobs) <= PageSize
      OBVIOUS
    <3>1. CASE i \in 1 .. Len(g)
      BY <1>1, <1>6, <3>1 DEF FeedType
    <3>2. CASE i = Len(g) + 1
      BY <1>4, <1>6, <3>2
    <3>3. i \in 1 .. Len(g) \/ i = Len(g) + 1
      BY <1>3, <1>6
    <3> QED BY <3>1, <3>2, <3>3
  <2>2. fetch'.kind = "next" => Len(h) <= 1
    BY <1>5, <1>6, <1>7
  <2> HIDE DEF h
  <2>3. /\ fetch'.kind = "all" => fetch'.want > 0
        /\ fetch'.kind = "next" => fetch'.want = 1
    BY <1>1, <1>5 DEF FeedType
  <2>4. \A i \in 1 .. Len(fetch'.got) : Len(fetch'.got[i].jobs) <= PageSize
    BY <2>1 DEF h
  <2>5. fetch'.kind = "next" => Len(fetch'.got) <= 1
    BY <2>2 DEF h
  <2>6. /\ feed' \in Seq(Jobs) /\ Board!IsInjective(feed)'
        /\ {changes', saves', posted'} \subseteq Nat
        /\ hint' \in BOOLEAN /\ disturbed' \in BOOLEAN
        /\ saving' \subseteq Jobs /\ IsFiniteSet(saving') /\ stored' \subseteq Jobs
        /\ pages' \in Seq(PageRec) /\ pages' # << >>
        /\ \A i \in 1 .. Len(pages') : Len(pages'[i].jobs) <= PageSize
    BY <1>1, <1>2 DEF FeedType
  <2> QED BY <1>5, <2>3, <2>4, <2>5, <2>6 DEF FeedType
<1>9. ReadIsFeed'
  <2> SUFFICES ASSUME ~fetch'.early
               PROVE  /\ saving' = {}
                      /\ ~hint' /\ posted' = 0 =>
                           \A i \in 1 .. Len(fetch'.got) : fetch'.got[i] = Board!Page((First + i - 1))'
    BY DEF ReadIsFeed
  <2>1. saving = {} /\ ~fetch.early
    BY <1>5
  <2> SUFFICES ASSUME ~hint, posted = 0, NEW i \in 1 .. Len(h)
               PROVE  h[i] = Board!Page((First + i - 1))'
    BY <1>2, <2>1
  <2>2. (First + i - 1)' = First + i - 1
    BY <1>2, <1>5 DEF First
  <2>3. Board!Page((First + i - 1))' = Board!Page(First + i - 1)
    BY <1>2, <2>2 DEF Board!Page
  <2>4. CASE i \in 1 .. Len(g)
    <3>1. g # << >>
      BY <1>3, <2>4, EmptySeq
    <3>2. g[i] = Board!Page(First + i - 1)
      BY <1>1, <1>2, <2>1, <2>4, <3>1 DEF ReadIsFeed
    <3> QED BY <1>6, <2>3, <2>4, <3>2
  <2>5. CASE i = Len(g) + 1
    <3>1. n = First + i - 1
      <4>1. CASE fetch.kind = "next"
        <5>1. n = Len(pages) /\ First = Len(pages) /\ i = 1
          BY <1>7, <2>5, <4>1 DEF First, n
        <5> QED BY <1>3, <5>1
      <4>2. CASE fetch.kind = "all"
        <5>1. n = Len(g) /\ First = 0 /\ i = Len(g) + 1
          BY <2>5, <4>2 DEF First, n
        <5> QED BY <1>3, <5>1
      <4> QED BY <1>3, <4>1, <4>2
    <3>2. h[i] = Board!Page(n)
      BY <1>6, <2>5 DEF p
    <3> QED BY <2>3, <3>1, <3>2
  <2>6. i \in 1 .. Len(g) \/ i = Len(g) + 1
    BY <1>3, <1>6
  <2> QED BY <2>4, <2>5, <2>6
<1>10. PagesFit'
  <2>1. Settled' => Settled
    BY <1>2, <1>5 DEF Settled
  <2>2. Board!Rows(pages)' = Board!Rows(pages) /\ Board!Last(pages)' = Board!Last(pages)
    BY <1>2
  <2> QED BY <1>1, <1>2, <2>1, <2>2 DEF PagesFit
<1> QED BY <1>8, <1>9, <1>10 DEF FeedInv

(* What has landed is the top of the feed: read from its first page on, or     *)
(* the next page of a list none of whose pages is short.                     *)
LEMMA FetchLands ==
  ASSUME FeedInv, Board!Land
  PROVE  FeedInv'
<1>1. FeedType /\ ReadIsFeed /\ PagesFit
  BY DEF FeedInv
<1>2. /\ fetch.kind # "none" /\ Board!Complete
      /\ pages' = IF fetch.kind = "next" THEN pages \o fetch.got ELSE fetch.got
      /\ disturbed' = IF fetch.kind = "all" THEN fetch.early
                      ELSE disturbed \/ fetch.early \/ Board!Shifted(pages)
      /\ fetch' = [kind |-> "none", want |-> 0, got |-> << >>, early |-> FALSE]
      /\ UNCHANGED <<feed, changes, saves, hint, posted, saving, stored>>
  BY DEF Board!Land, Board!Idle, Board!server
<1> DEFINE g == fetch.got
<1>3. /\ fetch.kind \in {"next", "all"} /\ fetch.want \in Nat /\ g \in Seq(PageRec) /\ pages \in Seq(PageRec)
      /\ fetch.early \in BOOLEAN /\ Len(g) \in Nat /\ Len(pages) \in Nat \ {0}
      /\ feed \in Seq(Jobs) /\ Len(feed) \in Nat
  <2>1. g \in Seq(PageRec) /\ pages \in Seq(PageRec) /\ feed \in Seq(Jobs) /\ pages # << >>
    BY <1>1 DEF FeedType
  <2>2. Len(g) \in Nat /\ Len(pages) \in Nat \ {0} /\ Len(feed) \in Nat
    BY <2>1, LenProperties, EmptySeq
  <2> QED BY <1>1, <1>2, <2>1, <2>2 DEF FeedType
<1>4. g # << >>
  <2>1. Len(g) = fetch.want \/ g # << >>
    BY <1>2 DEF Board!Complete
  <2>2. fetch.want > 0
    BY <1>1, <1>3 DEF FeedType
  <2> QED BY <1>3, <2>1, <2>2, EmptySeq
<1>5. fetch.kind = "next" => Len(g) = 1 /\ g = << g[1] >> /\ g[1] \in PageRec
  <2>1. fetch.kind = "next" => Len(g) <= 1
    BY <1>1 DEF FeedType
  <2>2. Len(g) # 0
    BY <1>3, <1>4, EmptySeq
  <2>3. fetch.kind = "next" => Len(g) = 1
    <3> SUFFICES ASSUME fetch.kind = "next"
                 PROVE  Len(g) = 1
      OBVIOUS
    <3>1. Len(g) \in Nat /\ Len(g) <= 1 /\ Len(g) # 0
      BY <1>3, <2>1, <2>2
    <3>2. \A n \in Nat : n <= 1 /\ n # 0 => n = 1
      OBVIOUS
    <3> QED BY <3>1, <3>2, Zenon
  <2>4. Len(g) = 1 => g[1] \in PageRec /\ g = << g[1] >>
    BY <1>3, ElementOfSeq
  <2> QED BY <2>3, <2>4
<1> DEFINE q == Append(pages, g[1])
<1>6. fetch.kind = "next" =>
        /\ pages' = q /\ q \in Seq(PageRec) /\ Len(q) = Len(pages) + 1
        /\ q[Len(pages) + 1] = g[1] /\ \A i \in 1 .. Len(pages) : q[i] = pages[i]
  <2> SUFFICES ASSUME fetch.kind = "next"
               PROVE  /\ pages' = q /\ q \in Seq(PageRec) /\ Len(q) = Len(pages) + 1
                      /\ q[Len(pages) + 1] = g[1] /\ \A i \in 1 .. Len(pages) : q[i] = pages[i]
    OBVIOUS
  <2>1. g[1] \in PageRec /\ pages' = pages \o << g[1] >>
    BY <1>2, <1>5
  <2> HIDE DEF g
  <2> QED BY <1>3, <2>1, AppendProperties, AppendIsConcat
<1> HIDE DEF q
<1>7. pages' \in Seq(PageRec) /\ pages' # << >> /\ \A i \in 1 .. Len(pages') : Len(pages'[i].jobs) <= PageSize
  <2>1. CASE fetch.kind = "all"
    BY <1>1, <1>2, <1>3, <1>4, <2>1 DEF FeedType
  <2>2. CASE fetch.kind = "next"
    <3>1. Len(g[1].jobs) <= PageSize
      BY <1>1, <1>5, <2>2 DEF FeedType
    <3>2. \A i \in 1 .. Len(pages) : Len(pages[i].jobs) <= PageSize
      BY <1>1 DEF FeedType
    <3>3. \A i \in 1 .. Len(pages) + 1 : Len(q[i].jobs) <= PageSize
      <4> SUFFICES ASSUME NEW i \in 1 .. Len(pages) + 1
                   PROVE  Len(q[i].jobs) <= PageSize
        OBVIOUS
      <4>1. i \in 1 .. Len(pages) \/ i = Len(pages) + 1
        BY <1>3
      <4>2. CASE i \in 1 .. Len(pages)
        <5>1. q[i] = pages[i]
          BY <1>6, <2>2, <4>2
        <5> QED BY <3>2, <4>2, <5>1
      <4>3. CASE i = Len(pages) + 1
        <5>1. q[i] = g[1]
          BY <1>6, <2>2, <4>3
        <5> QED BY <3>1, <5>1
      <4> QED BY <4>1, <4>2, <4>3
    <3>4. q # << >>
      BY <1>3, <1>6, <2>2, EmptySeq
    <3> QED BY <1>6, <2>2, <3>3, <3>4
  <2> QED BY <1>3, <2>1, <2>2
<1>8. FeedType'
  <2>1. << >> \in Seq(PageRec) /\ Len(<< >>) = 0
    BY EmptySeq
  <2>2. disturbed' \in BOOLEAN
    BY <1>1, <1>2, <1>3 DEF FeedType, Board!Shifted
  <2>3. /\ feed' \in Seq(Jobs) /\ Board!IsInjective(feed)'
        /\ {changes', saves', posted'} \subseteq Nat
        /\ hint' \in BOOLEAN
        /\ saving' \subseteq Jobs /\ IsFiniteSet(saving') /\ stored' \subseteq Jobs
    BY <1>1, <1>2 DEF FeedType
  <2>4. /\ fetch' \in [kind : {"none", "next", "all"}, want : Nat, got : Seq(PageRec), early : BOOLEAN]
        /\ fetch'.kind = "none" /\ fetch'.got = << >>
    BY <1>2, <2>1
  <2> QED BY <1>7, <2>1, <2>2, <2>3, <2>4 DEF FeedType
<1>9. ReadIsFeed'
  BY <1>2 DEF ReadIsFeed
<1>10. PagesFit'
  <2> SUFFICES ASSUME ~hint, posted = 0, ~disturbed'
               PROVE  /\ Fits(Board!Rows(pages'), feed, saving)
                      /\ Board!Last(pages').total = Len(feed) - Cardinality(saving \cap Board!Range(feed))
    BY <1>2 DEF PagesFit, Settled
  <2>1. ~fetch.early
    BY <1>2, <1>3
  <2>2. saving = {} /\ \A i \in 1 .. Len(g) : g[i] = Board!Page(First + i - 1)
    BY <1>1, <1>2, <1>4, <2>1 DEF ReadIsFeed
  <2>3. Cardinality(saving \cap Board!Range(feed)) = 0
    <3>1. saving \cap Board!Range(feed) = {}
      BY <2>2
    <3> QED BY <3>1, FS_EmptySet
  <2> SUFFICES \E u \in 0 .. Len(feed) : Board!Rows(pages') = SubSeq(feed, 1, u) /\ Board!Last(pages').total = Len(feed)
    BY <1>3, <2>2, <2>3, TopFits
  <2>4. CASE fetch.kind = "all"
    <3>1. \A i \in 1 .. Len(g) : g[i] = Board!Page(i - 1)
      <4> SUFFICES ASSUME NEW i \in 1 .. Len(g)
                   PROVE  g[i] = Board!Page(i - 1)
        OBVIOUS
      <4>1. First + i - 1 = i - 1
        BY <2>4 DEF First
      <4> QED BY <2>2, <4>1
    <3>2. Board!Rows(g) = SubSeq(feed, 1, Upto(Len(g)))
      BY <1>3, <3>1, RowsOfFeed
    <3>3. Upto(Len(g)) \in 0 .. Len(feed)
      BY <1>3, PageIs
    <3>4. Len(g) # 0
      BY <1>3, <1>4, EmptySeq
    <3>5. g[Len(g)] = Board!Page(Len(g) - 1) /\ Len(g) - 1 \in Nat
      <4>1. Len(g) \in Nat
        BY <1>3
      <4>2. \A n \in Nat \ {0} : n \in 1 .. n /\ n - 1 \in Nat
        OBVIOUS
      <4>3. Len(g) \in 1 .. Len(g) /\ Len(g) - 1 \in Nat
        BY <3>4, <4>1, <4>2, Zenon
      <4> QED BY <3>1, <4>3, Zenon
    <3>6. Board!Last(g).total = Len(feed)
      BY <1>3, <3>5, PageIs DEF Board!Last
    <3>7. pages' = g
      BY <1>2, <2>4
    <3> HIDE DEF g
    <3> QED BY <3>2, <3>3, <3>6, <3>7
  <2>5. CASE fetch.kind = "next"
    <3> DEFINE m == Len(pages)
    <3>1. ~disturbed /\ ~Board!Shifted(pages)
      BY <1>2, <2>5
    <3>2. \A i \in 1 .. m : Len(pages[i].jobs) = PageSize
      <4> SUFFICES ASSUME NEW i \in 1 .. m
                   PROVE  Len(pages[i].jobs) = PageSize
        OBVIOUS
      <4>1. i \in DOMAIN pages /\ pages[i] \in PageRec
        BY <1>3, LenProperties, ElementOfSeq
      <4>2. ~(Len(pages[i].jobs) < PageSize) /\ Len(pages[i].jobs) <= PageSize
        BY <1>1, <3>1, <4>1 DEF Board!Shifted, FeedType
      <4>3. Len(pages[i].jobs) \in Nat
        BY <4>1, LenProperties DEF PageRec
      <4> QED BY <4>2, <4>3, BoardAssumption
    <3>3. Len(Board!Rows(pages)) = m * PageSize
      BY <1>3, <3>2, RowsOfFull
    <3>4. Board!Rows(pages) \in Seq(Jobs) /\ Fits(Board!Rows(pages), feed, {})
      BY <1>1, <1>3, <2>2, <2>5, <3>1, RowsAppend DEF PagesFit, Settled
    <3>5. Len(Board!Rows(pages)) <= Len(feed) /\ Board!Rows(pages) = SubSeq(feed, 1, Len(Board!Rows(pages)))
      BY <1>3, <3>4, FitsExactly
    <3>6. Upto(m) = m * PageSize
      <4>1. m * PageSize <= Len(feed) /\ m * PageSize \in Nat
        BY <1>3, <3>3, <3>5, BoardAssumption
      <4> QED BY <1>3, <4>1 DEF Upto
    <3>7. g[1] = Board!Page(m)
      <4>1. First + 1 - 1 = m
        BY <1>3, <2>5 DEF First
      <4>2. 1 \in 1 .. Len(g)
        BY <1>5, <2>5
      <4> QED BY <2>2, <4>1, <4>2
    <3>8. Board!Rows(q) = Board!Rows(pages) \o g[1].jobs
      BY <1>3, <1>5, <2>5, RowsAppend DEF q
    <3>9. /\ g[1].jobs = SubSeq(feed, Upto(m) + 1, Upto(m + 1)) /\ g[1].total = Len(feed)
          /\ Upto(m) \in 0 .. Len(feed) /\ Upto(m + 1) \in Upto(m) .. Len(feed)
      BY <1>3, <3>7, PageIs
    <3>10. SubSeq(feed, 1, Upto(m)) \o SubSeq(feed, Upto(m) + 1, Upto(m + 1)) = SubSeq(feed, 1, Upto(m + 1))
      <4>1. 1 \in 1 .. Len(feed) + 1 /\ Upto(m) \in 1 - 1 .. Len(feed)
        BY <1>3, <3>9
      <4> QED BY <1>3, <3>9, <4>1, ConcatAdjacentSubSeq
    <3>11. Board!Rows(q) = SubSeq(feed, 1, Upto(m + 1))
      BY <3>3, <3>5, <3>6, <3>8, <3>9, <3>10
    <3>12. Board!Last(q).total = Len(feed)
      BY <1>6, <2>5, <3>9 DEF Board!Last
    <3>13. Upto(m + 1) \in 0 .. Len(feed)
      BY <1>3, <3>9
    <3>14. pages' = q
      BY <1>6, <2>5
    <3> QED BY <3>11, <3>12, <3>13, <3>14
  <2> QED BY <1>3, <2>4, <2>5
<1> QED BY <1>8, <1>9, <1>10 DEF FeedInv

(* A saved row leaves the list and waits among the saving ones.               *)
LEMMA SaveKeeps ==
  ASSUME FeedInv, NEW j \in Jobs, Board!Save(j)
  PROVE  FeedInv'
<1>1. FeedType /\ ReadIsFeed /\ PagesFit
  BY DEF FeedInv
<1>2. /\ j \in Board!Range(Board!Rows(pages))
      /\ saves' = saves + 1 /\ saving' = saving \cup {j} /\ pages' = Board!Without(pages, j)
      /\ fetch' = [kind |-> "none", want |-> 0, got |-> << >>, early |-> FALSE]
      /\ disturbed' = (disturbed \/ fetch.kind = "all")
      /\ UNCHANGED <<feed, changes, hint, posted, stored>>
  BY DEF Board!Save, Board!Idle
<1>3. /\ feed \in Seq(Jobs) /\ Board!IsInjective(feed) /\ Len(feed) \in Nat
      /\ pages \in Seq(PageRec) /\ Len(pages) \in Nat \ {0}
      /\ saving \subseteq Jobs /\ IsFiniteSet(saving)
  <2>1. feed \in Seq(Jobs) /\ pages \in Seq(PageRec) /\ pages # << >>
    BY <1>1 DEF FeedType
  <2>2. Len(pages) \in Nat \ {0} /\ Len(feed) \in Nat
    BY <2>1, LenProperties, EmptySeq
  <2> QED BY <1>1, <2>1, <2>2 DEF FeedType
<1>4. /\ pages' \in Seq(PageRec) /\ Len(pages') = Len(pages)
      /\ \A i \in 1 .. Len(pages) : pages'[i] = Cut(pages[i], j)
  BY <1>2, <1>3, WithoutIs
<1>5. \A i \in 1 .. Len(pages) : Len(pages'[i].jobs) <= PageSize
  <2> SUFFICES ASSUME NEW i \in 1 .. Len(pages)
               PROVE  Len(pages'[i].jobs) <= PageSize
    OBVIOUS
  <2>1. pages[i] \in PageRec /\ pages'[i] \in PageRec
    BY <1>3, <1>4, ElementOfSeq
  <2>2. Len(pages'[i].jobs) <= Len(pages[i].jobs)
    BY <1>4, <2>1, CutType
  <2>3. Len(pages[i].jobs) <= PageSize
    BY <1>1 DEF FeedType
  <2>4. Len(pages[i].jobs) \in Nat /\ Len(pages'[i].jobs) \in Nat
    BY <2>1, LenProperties DEF PageRec
  <2> QED BY <2>2, <2>3, <2>4, BoardAssumption
<1>6. FeedType'
  <2>1. << >> \in Seq(PageRec) /\ Len(<< >>) = 0
    BY EmptySeq
  <2>2. /\ fetch' \in [kind : {"none", "next", "all"}, want : Nat, got : Seq(PageRec), early : BOOLEAN]
        /\ fetch'.kind = "none" /\ fetch'.got = << >>
    BY <1>2, <2>1
  <2>3. \A i \in 1 .. Len(fetch'.got) : Len(fetch'.got[i].jobs) <= PageSize
    BY <2>1, <2>2
  <2>4. fetch'.kind # "next" /\ fetch'.kind # "all"
    BY <2>2
  <2>5. disturbed' \in BOOLEAN
    BY <1>1, <1>2, Zenon DEF FeedType
  <2>6. saving' \subseteq Jobs /\ IsFiniteSet(saving')
    BY <1>2, <1>3, FS_AddElement
  <2>7. pages' # << >>
    BY <1>3, <1>4, EmptySeq
  <2>8. {changes', saves', posted'} \subseteq Nat
    BY <1>1, <1>2 DEF FeedType
  <2>9. feed' \in Seq(Jobs) /\ Board!IsInjective(feed)' /\ hint' \in BOOLEAN /\ stored' \subseteq Jobs
    BY <1>1, <1>2 DEF FeedType
  <2>10. \A i \in 1 .. Len(pages') : Len(pages'[i].jobs) <= PageSize
    BY <1>4, <1>5
  <2> QED BY <1>4, <2>2, <2>3, <2>4, <2>5, <2>6, <2>7, <2>8, <2>9, <2>10 DEF FeedType
<1>7. ReadIsFeed'
  BY <1>2 DEF ReadIsFeed
<1>8. PagesFit'
  <2> DEFINE rows == Board!Rows(pages)
             S == saving \cap Board!Range(feed)
             T == (saving \cup {j}) \cap Board!Range(feed)
  <2> SUFFICES ASSUME ~hint, posted = 0, ~disturbed, fetch.kind # "all"
               PROVE  /\ Fits(Board!Rows(pages'), feed, saving \cup {j})
                      /\ Board!Last(pages').total = Len(feed) - Cardinality(T)
    BY <1>2 DEF PagesFit, Settled
  <2>1. Fits(rows, feed, saving) /\ Board!Last(pages).total = Len(feed) - Cardinality(S)
    BY <1>1 DEF PagesFit, Settled
  <2>2. rows \in Seq(Jobs)
    BY <1>3, RowsAppend
  <2>3. Board!IsInjective(rows) /\ j \in Board!Range(feed) /\ j \notin saving
    BY <1>2, <1>3, <2>1, <2>2, FitsApart
  <2>4. Board!Rows(pages') = Board!Less(rows, j)
    BY <1>2, <1>3, <2>3, RowsWithout
  <2>5. Fits(Board!Less(rows, j), feed, saving \cup {j})
    BY <1>2, <1>3, <2>1, <2>2, FitsSave
  <2>6. T = S \cup {j} /\ j \notin S /\ IsFiniteSet(S)
    <3>1. IsFiniteSet(S)
      BY <1>3, FS_Intersection
    <3> QED BY <2>3, <3>1
  <2>7. Cardinality(T) = Cardinality(S) + 1 /\ Cardinality(S) \in Nat
    <3> HIDE DEF S, T
    <3> QED BY <2>6, FS_AddElement, FS_CardinalityType
  <2>8. Cardinality(T) <= Len(feed)
    <3>1. feed \in Surjection(1 .. Len(feed), Board!Range(feed))
      <4>1. feed \in [1 .. Len(feed) -> Jobs] /\ DOMAIN feed = 1 .. Len(feed)
        BY <1>3, LenProperties, SeqDef
      <4> QED BY <4>1 DEF Board!Range, Surjection
    <3>2. IsFiniteSet(1 .. Len(feed)) /\ Cardinality(1 .. Len(feed)) = Len(feed)
      <4>1. /\ 1 \in Int /\ Len(feed) \in Int
            /\ IF 1 > Len(feed) THEN Len(feed) = 0 ELSE Len(feed) - 1 + 1 = Len(feed)
        BY <1>3
      <4> QED BY <4>1, FS_Interval
    <3>3. IsFiniteSet(Board!Range(feed)) /\ Cardinality(Board!Range(feed)) <= Len(feed)
      BY <3>1, <3>2, FS_Surjection
    <3>4. T \subseteq Board!Range(feed)
      OBVIOUS
    <3>5. Cardinality(T) <= Cardinality(Board!Range(feed)) /\ Cardinality(T) \in Nat
      BY <3>3, <3>4, FS_Subset, FS_CardinalityType
    <3>6. Cardinality(Board!Range(feed)) \in Nat
      BY <3>3, FS_CardinalityType
    <3> HIDE DEF T
    <3> QED BY <1>3, <3>3, <3>5, <3>6
  <2>9. Board!Last(pages') = Cut(Board!Last(pages), j)
    BY <1>3, <1>4 DEF Board!Last
  <2>10. Board!Last(pages').total = IF Board!Last(pages).total > 0 THEN Board!Last(pages).total - 1 ELSE 0
    BY <2>9 DEF Cut
  <2>11. Board!Last(pages').total = Len(feed) - Cardinality(T)
    <3> HIDE DEF S, T
    <3> QED BY <1>3, <2>1, <2>7, <2>8, <2>10
  <2> QED BY <2>4, <2>5, <2>11
<1> QED BY <1>6, <1>7, <1>8 DEF FeedInv

(* A save that is committed takes the row out of the feed, too.               *)
LEMMA SaveCommitsKeeps ==
  ASSUME FeedInv, NEW j \in Jobs, Board!SaveCommits(j)
  PROVE  FeedInv'
<1>1. FeedType /\ ReadIsFeed /\ PagesFit
  BY DEF FeedInv
<1>2. /\ j \in saving /\ saving' = saving \ {j} /\ stored' = stored \cup {j}
      /\ feed' = Board!Less(feed, j)
      /\ UNCHANGED <<changes, saves, hint, posted, pages, fetch, disturbed>>
  BY DEF Board!SaveCommits
<1>3. /\ feed \in Seq(Jobs) /\ Board!IsInjective(feed) /\ Len(feed) \in Nat
      /\ pages \in Seq(PageRec) /\ IsFiniteSet(saving)
  BY <1>1, LenProperties DEF FeedType
<1>4. /\ feed' \in Seq(Jobs) /\ Board!IsInjective(feed')
      /\ Board!Range(feed') = Board!Range(feed) \ {j}
      /\ Len(feed') = IF j \in Board!Range(feed) THEN Len(feed) - 1 ELSE Len(feed)
  BY <1>2, <1>3, LessType
<1>5. FeedType'
  <2>1. saving' \subseteq Jobs /\ IsFiniteSet(saving') /\ stored' \subseteq Jobs
    BY <1>1, <1>2, FS_RemoveElement DEF FeedType
  <2>2. Board!IsInjective(feed)'
    BY <1>4
  <2> QED BY <1>1, <1>2, <1>4, <2>1, <2>2 DEF FeedType
<1>6. ReadIsFeed'
  <2>1. ~(fetch.kind # "none" /\ fetch.got # << >> /\ ~fetch.early)
    BY <1>1, <1>2 DEF ReadIsFeed
  <2> QED BY <1>2, <2>1 DEF ReadIsFeed
<1>7. PagesFit'
  <2> DEFINE rows == Board!Rows(pages)
             S == saving \cap Board!Range(feed)
             T == saving' \cap Board!Range(feed')
  <2> SUFFICES ASSUME Settled
               PROVE  /\ Fits(rows, feed', saving \ {j})
                      /\ Board!Last(pages).total = Len(feed') - Cardinality(T)
    BY <1>2 DEF PagesFit, Settled
  <2>1. Fits(rows, feed, saving) /\ Board!Last(pages).total = Len(feed) - Cardinality(S)
    BY <1>1 DEF PagesFit
  <2>2. rows \in Seq(Jobs)
    BY <1>3, RowsAppend
  <2>3. Fits(rows, feed', saving \ {j})
    BY <1>2, <1>3, <2>1, <2>2, FitsCommit
  <2>4. IsFiniteSet(S) /\ Cardinality(S) \in Nat
    BY <1>3, FS_Intersection, FS_CardinalityType
  <2>5. Len(feed) - Cardinality(S) = Len(feed') - Cardinality(T)
    <3>1. T = S \ {j}
      BY <1>2, <1>4
    <3>2. j \in S <=> j \in Board!Range(feed)
      BY <1>2
    <3> HIDE DEF S, T
    <3>3. Cardinality(T) = IF j \in S THEN Cardinality(S) - 1 ELSE Cardinality(S)
      BY <2>4, <3>1, FS_RemoveElement
    <3> QED BY <1>3, <1>4, <2>4, <3>2, <3>3
  <2> QED BY <2>1, <2>3, <2>5
<1> QED BY <1>5, <1>6, <1>7 DEF FeedInv

(* The answer of a save that succeeded changes neither list.                  *)
LEMMA SaveSucceedsKeeps ==
  ASSUME FeedInv, NEW j \in Jobs, Board!SaveSucceeds(j)
  PROVE  FeedInv'
<1>1. FeedType /\ ReadIsFeed /\ PagesFit
  BY DEF FeedInv
<1>2. /\ stored' \subseteq stored
      /\ UNCHANGED <<feed, changes, saves, hint, posted, saving, pages, fetch, disturbed>>
  BY DEF Board!SaveSucceeds, Board!server
<1>3. FeedType'
  BY <1>1, <1>2 DEF FeedType
<1>4. ReadIsFeed'
  BY <1>1, <1>2 DEF ReadIsFeed, First, Board!Page
<1>5. PagesFit'
  BY <1>1, <1>2 DEF PagesFit, Settled
<1> QED BY <1>3, <1>4, <1>5 DEF FeedInv

(* Every step of the board keeps the invariant.                               *)
LEMMA BoardStep == FeedInv /\ [Board!Next]_(Board!vars) => FeedInv'
<1> SUFFICES ASSUME FeedInv, [Board!Next]_(Board!vars)
             PROVE  FeedInv'
  OBVIOUS
<1>1. ASSUME NEW j \in Jobs, Board!Rank(j)
      PROVE  FeedInv'
  BY <1>1, RankKeeps
<1>2. ASSUME NEW j \in Jobs, Board!Trash(j)
      PROVE  FeedInv'
  BY <1>2, TrashKeeps
<1>3. ASSUME NEW j \in Jobs, Board!Save(j)
      PROVE  FeedInv'
  BY <1>3, SaveKeeps
<1>4. ASSUME NEW j \in Jobs, Board!SaveCommits(j)
      PROVE  FeedInv'
  BY <1>4, SaveCommitsKeeps
<1>5. ASSUME NEW j \in Jobs, Board!SaveSucceeds(j)
      PROVE  FeedInv'
  BY <1>5, SaveSucceedsKeeps
<1>6. CASE Board!Hint \/ Board!Trashed \/ \E j \in Jobs : Board!SaveFails(j)
  BY <1>6, InvalidateKeeps
<1>7. CASE Board!FetchNext
  BY <1>7, FetchNextKeeps
<1>8. CASE Board!ReadPage
  BY <1>8, ReadPageKeeps
<1>9. CASE Board!Land
  BY <1>9, FetchLands
<1>10. CASE UNCHANGED Board!vars
  <2>1. UNCHANGED <<feed, changes, saves, hint, posted, saving, stored, pages, fetch, disturbed>>
    BY <1>10 DEF Board!vars
  <2>2. FeedType'
    BY <2>1 DEF FeedInv, FeedType
  <2>3. ReadIsFeed'
    BY <2>1 DEF FeedInv, ReadIsFeed, First, Board!Page
  <2>4. PagesFit'
    BY <2>1 DEF FeedInv, PagesFit, Settled
  <2> QED BY <2>2, <2>3, <2>4 DEF FeedInv
<1> QED BY <1>1, <1>2, <1>3, <1>4, <1>5, <1>6, <1>7, <1>8, <1>9, <1>10 DEF Board!Next

(* A list at rest that lacks nothing is the top of the feed.                  *)
LEMMA BoardTells == FeedInv => ListIsFeed
<1> SUFFICES ASSUME FeedInv, Board!Quiet, ~disturbed
             PROVE  /\ Board!IsPrefix(Board!Rows(pages), feed)
                    /\ Board!Last(pages).total = Len(feed)
                    /\ Board!More(pages) \/ Board!Rows(pages) = feed
  BY DEF ListIsFeed, Board!ListIsFeed
<1> DEFINE r == Board!Rows(pages)
<1>1. Settled /\ saving = {}
  BY DEF Board!Quiet, Board!Idle, Settled
<1>2. feed \in Seq(Jobs) /\ r \in Seq(Jobs) /\ Len(feed) \in Nat /\ Len(r) \in Nat
  <2>1. feed \in Seq(Jobs) /\ pages \in Seq(PageRec)
    BY DEF FeedInv, FeedType
  <2>2. r \in Seq(Jobs)
    BY <2>1, RowsAppend
  <2> QED BY <2>1, <2>2, LenProperties
<1>3. Fits(r, feed, {}) /\ Board!Last(pages).total = Len(feed) - Cardinality(saving \cap Board!Range(feed))
  BY <1>1 DEF FeedInv, PagesFit
<1>4. Board!Last(pages).total = Len(feed)
  <2>1. saving \cap Board!Range(feed) = {}
    BY <1>1
  <2>2. Cardinality(saving \cap Board!Range(feed)) = 0
    BY <2>1, FS_EmptySet
  <2> QED BY <1>2, <1>3, <2>2
<1>5. Len(r) <= Len(feed) /\ r = SubSeq(feed, 1, Len(r))
  BY <1>2, <1>3, FitsExactly
<1>6. Board!IsPrefix(r, feed)
  BY <1>5 DEF Board!IsPrefix
<1>7. Board!More(pages) \/ r = feed
  <2> SUFFICES ASSUME ~Board!More(pages)
               PROVE  r = feed
    OBVIOUS
  <2>1. ~(Len(r) < Len(feed))
    BY <1>4 DEF Board!More
  <2> HIDE DEF r
  <2>2. Len(r) = Len(feed)
    BY <1>2, <1>5, <2>1
  <2>3. SubSeq(feed, 1, Len(feed)) = feed
    BY <1>2, SubSeqFull
  <2> QED BY <1>5, <2>2, <2>3
<1> QED BY <1>4, <1>6, <1>7

(* At rest the board's list is the top of the feed, in its order, the total is  *)
(* the feed's and a list with no more pages is all of it, but for the three ways *)
(* ListIsFeed names: for any number of jobs, saves, scores and scans, any page  *)
(* size and any interleaving of fetches with them (useBoard, useSaveJob).     *)
THEOREM BoardShowsTheFeed == Board!Spec => []ListIsFeed
<1> QED BY BoardStart, BoardStep, BoardTells, PTL DEF Board!Spec
=============================================================================
