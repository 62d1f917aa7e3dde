---------------------------- MODULE PreferenceBlob ----------------------------
(* The preference row's JSON columns and their four writers.  The page reads   *)
(* the settings, merges its patch and posts the whole column back             *)
(* (updateSettings, savePreferences, api/real/settings.ts); a score adds to   *)
(* its statistics (_persist_score) and a scan to the Brave ledger             *)
(* (record_brave_usage) by rewriting the column too; a commit is followed by  *)
(* the handler handing the cap to the runner (update_settings).               *)
(*                                                                            *)
(* Every key has an owner, and a value is the number of its owner's write.    *)
EXTENDS Integers, FiniteSets

CONSTANTS
  Saves,      \* the page's saves, numbered in the order the user makes them
  Patch,      \* the keys each of them sets
  Thresholds, \* keys of the thresholds column; the others are in ui_state
  MaxScores,  \* bound: scores that feed the statistics
  MaxScans,   \* bound: scans that spend Brave queries
  MaxRestarts \* bound: restarts of the sidecar

Counters == {"stats", "brave"}
Keys == (UNION {Patch[n] : n \in Saves}) \cup Thresholds

ASSUME BlobAssumption ==
  /\ Saves \subseteq Nat \ {0} /\ IsFiniteSet(Saves)
  /\ Patch \in [Saves -> (SUBSET (Keys \ Counters)) \ {{}}]
  /\ {"cap"} \cup Counters \subseteq Thresholds
  /\ {MaxScores, MaxScans, MaxRestarts} \subseteq Nat

VARIABLES
  col,       \* the columns, key by key
  limit,     \* the runner's llm limit
  save,      \* each save: its stage, what it read, which committed before it
  scan,      \* the scan that records its Brave calls: stage and what it read
  scores, scans, restarts,
  want,      \* history: each owner's latest committed write
  stale,     \* history: a column was written back over a newer one
  adrift     \* history: the runner was left with another cap, see below

vars == <<col, limit, save, scan, scores, scans, restarts, want, stale, adrift>>
counts == <<scores, scans, restarts>>

(* The columns these keys live in, whole.                                   *)
Columns(keys) ==
  {k \in Keys : \E l \in keys : (k \in Thresholds) = (l \in Thresholds)}

(* What a writer of these columns read is no longer what it overwrites.     *)
Outdated(read, keys) == \E k \in Columns(keys) : read[k] # col[k]

Fresh == [k \in Keys |-> 0]

Init ==
  /\ col = Fresh /\ want = Fresh
  /\ limit = 0
  /\ save = [n \in Saves |-> [at |-> "unmade", read |-> Fresh, before |-> {}]]
  /\ scan = [at |-> "idle", read |-> Fresh]
  /\ scores = 0 /\ scans = 0 /\ restarts = 0
  /\ stale = FALSE /\ adrift = FALSE

-----------------------------------------------------------------------------
(* The page                                                                 *)

Earlier(n) == \A m \in Saves : m < n => save[m].at # "unmade"

(* GET /api/settings.                                                       *)
Get(n) ==
  /\ save[n].at = "unmade" /\ Earlier(n)
  /\ save' = [save EXCEPT ![n].at = "read", ![n].read = col]
  /\ UNCHANGED <<col, limit, scan, counts, want, stale, adrift>>

(* Mutant: the body carries the patch alone.                                *)
MergedPatchOnly(n) ==
  [k \in Keys |-> IF k \in Patch[n] THEN n
                  ELSE IF k \in Columns(Patch[n]) THEN 0 ELSE col[k]]

(* The columns the patch touches, as read, with the patch over them.        *)
Merged(n) ==
  [k \in Keys |-> IF k \in Patch[n] THEN n
                  ELSE IF k \in Columns(Patch[n]) THEN save[n].read[k] ELSE col[k]]

Commits == {n \in Saves : save[n].at \in {"committed", "done"}}

(* Those that write the thresholds: their handler hands the cap over.       *)
Capped == {n \in Saves : Patch[n] \cap Thresholds # {}}

(* POST /api/settings, its transaction.                                     *)
Post(n) ==
  /\ save[n].at = "read"
  /\ col' = Merged(n)
  /\ want' = [k \in Keys |-> IF k \in Patch[n] /\ want[k] < n THEN n ELSE want[k]]
  /\ stale' = (stale \/ Outdated(save[n].read, Patch[n]))
  /\ save' = [save EXCEPT ![n].at = IF n \in Capped THEN "committed" ELSE "done",
                          ![n].before = Commits]
  /\ UNCHANGED <<limit, scan, counts, adrift>>

CapOf(n) == IF "cap" \in Patch[n] THEN n ELSE save[n].read["cap"]

(* One that committed later has already handed its cap over.               *)
Overtaken(n) == \E m \in Capped : save[m].at = "done" /\ n \in save[m].before

(* Mutant: the runner is handed the settings as they were read.             *)
ApplyAsRead(n) ==
  /\ save[n].at = "committed"
  /\ limit' = save[n].read["cap"]
  /\ save' = [save EXCEPT ![n].at = "done"]
  /\ adrift' = (adrift \/ Overtaken(n))
  /\ UNCHANGED <<col, scan, counts, want, stale>>

(* The handler goes on after the commit: set_llm_limit, set_queue_mode.     *)
Apply(n) ==
  /\ save[n].at = "committed"
  /\ limit' = CapOf(n)
  /\ save' = [save EXCEPT ![n].at = "done"]
  /\ adrift' = (adrift \/ Overtaken(n))
  /\ UNCHANGED <<col, scan, counts, want, stale>>

-----------------------------------------------------------------------------
(* The sidecar's own writers                                                *)

(* set_score has taken the write lock when the statistics are read.         *)
Score ==
  /\ scores < MaxScores
  /\ scores' = scores + 1
  /\ col' = [col EXCEPT !["stats"] = @ + 1]
  /\ want' = [want EXCEPT !["stats"] = @ + 1]
  /\ UNCHANGED <<limit, save, scan, scans, restarts, stale, adrift>>

(* record_brave_usage reads the row before it has the lock; there is one    *)
(* scan at a time.                                                          *)
ScanReads ==
  /\ scan.at = "idle" /\ scans < MaxScans
  /\ scan' = [at |-> "read", read |-> col]
  /\ scans' = scans + 1
  /\ UNCHANGED <<col, limit, save, scores, restarts, want, stale, adrift>>

ScanWrites ==
  /\ scan.at = "read"
  /\ scan' = [scan EXCEPT !.at = "idle"]
  /\ col' = [k \in Keys |-> IF k = "brave" THEN scan.read[k] + 1
                            ELSE IF k \in Thresholds THEN scan.read[k] ELSE col[k]]
  /\ want' = [want EXCEPT !["brave"] = @ + 1]
  /\ stale' = (stale \/ Outdated(scan.read, {"brave"}))
  /\ adrift' = (adrift \/ scan.read["cap"] # col["cap"])
  /\ UNCHANGED <<limit, save, counts>>

(* The boot reads the saved cap; the page's requests go on with it.         *)
Restart ==
  /\ restarts < MaxRestarts
  /\ restarts' = restarts + 1
  /\ limit' = col["cap"]
  /\ save' = [n \in Saves |-> IF save[n].at = "committed" THEN [save[n] EXCEPT !.at = "done"] ELSE save[n]]
  /\ scan' = [scan EXCEPT !.at = "idle"]
  /\ adrift' = FALSE
  /\ UNCHANGED <<col, scores, scans, want, stale>>

-----------------------------------------------------------------------------
Next ==
  \/ \E n \in Saves : Get(n) \/ Post(n) \/ Apply(n)
  \/ Score \/ ScanReads \/ ScanWrites \/ Restart

Spec == Init /\ [][Next]_vars

-----------------------------------------------------------------------------
(* Each key holds its owner's latest write: saves of different settings, the  *)
(* score statistics, the Brave ledger and the lifecycle never wipe one another *)
(* out - as long as no column was written back over a newer one.  A score's   *)
(* own rewrite never does that.                                               *)
FieldsKept == ~stale => col = want

(* When every handler has finished, the runner works with the cap that is     *)
(* saved, also when saves overlapped and lost fields to each other: unless a  *)
(* handler was overtaken by one that committed after it, or a scan put back   *)
(* an older cap behind the runner's back.  A restart mends both.              *)
RunnerHasSavedCap ==
  (\A n \in Saves : save[n].at # "committed") /\ ~adrift => limit = col["cap"]
=============================================================================
