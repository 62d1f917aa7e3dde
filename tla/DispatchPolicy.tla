--------------------------- MODULE DispatchPolicy ---------------------------
(***************************************************************************)
(* The per-kind concurrency policy of the operation runner                 *)
(* (sidecar/app/runner/policy.py).  Everything here is a pure decision:    *)
(* which lane an operation waits in, how wide each lane is, and whether an *)
(* operation may start beside those in flight.                             *)
(*                                                                         *)
(* An operation is an element of Ops with a fixed kind and a fixed         *)
(* requester ("app" or "user"); the multiset of (kind, requested_by) pairs *)
(* the code keeps in `_running` is the set of operations in flight.        *)
(* A policy is a record [llm, mode]: the two settings the app changes at   *)
(* run time.  The other lane widths are the constant GroupLimits.          *)
(***************************************************************************)
EXTENDS Integers, FiniteSets

CONSTANTS
  Ops,          \* operation ids
  KindOf,       \* the kind of each operation
  ByOf,         \* who asked for it: "app" or "user"
  Kinds,        \* the kinds the registry knows (OperationRegistry.kinds)
  GroupLimits,  \* ConcurrencyPolicy.group_limits without the llm entry
  MaxWorkers    \* size of the thread pool

ASSUME PolicyAssumption ==
  /\ IsFiniteSet(Ops)
  /\ IsFiniteSet(Kinds)
  /\ KindOf \in [Ops -> Kinds]
  /\ ByOf \in [Ops -> {"app", "user"}]
  /\ \A g \in DOMAIN GroupLimits : GroupLimits[g] \in Nat \ {0}
  /\ MaxWorkers \in Nat \ {0}

AIKinds        == {"score", "tailor", "cover", "draft", "extract"}
WritingKinds   == {"tailor", "cover", "draft"}
ExclusiveKinds == {"linkedin_login"}
BrowserLaneKinds ==
  {"send", "discover", "contact_sync", "linkedin_search", "linkedin_login", "view_page"}
QueueModes == {"per_kind", "shared"}

(* The kind -> group table of DEFAULT_POLICY; a kind it misses is a lane   *)
(* of its own.                                                             *)
GroupTable(kind) ==
  CASE kind = "discover" -> "networker_discover"
    [] kind = "send"     -> "networker_send"
    [] OTHER             -> kind

(* The lane an operation waits in under a queue mode.                      *)
GroupFor(kind, by, mode) ==
  IF kind \notin AIKinds         THEN GroupTable(kind)
  ELSE IF mode = "shared"       THEN "llm"
  ELSE IF kind \in WritingKinds THEN "ai_writing"
  ELSE IF by = "user"           THEN "ai_requests"
  ELSE IF kind = "score"        THEN "llm"
  ELSE kind

LimitForGroup(policy, group) ==
  IF group = "llm"                     THEN policy.llm
  ELSE IF group \in DOMAIN GroupLimits THEN GroupLimits[group]
  ELSE 1

(* The lanes beside scoring, and the threads they take when each is at its *)
(* cap.                                                                    *)
OtherGroups(policy) ==
  {GroupFor(k, by, policy.mode) : k \in Kinds, by \in {"app", "user"}} \ {"llm"}
OtherThreads(policy) ==
  UNION {{g} \X (1 .. LimitForGroup(policy, g)) : g \in OtherGroups(policy)}
Reserved(policy) == Cardinality(OtherThreads(policy))

Smaller(a, b) == IF a < b THEN a ELSE b
Larger(a, b)  == IF a > b THEN a ELSE b

(* Mutant: the scoring cap is used as saved.                               *)
FitToPoolAsSaved(policy) == policy

(* Cap scoring at the threads every other lane leaves free.                *)
FitToPool(policy) ==
  [policy EXCEPT !.llm = Smaller(policy.llm, Larger(1, MaxWorkers - Reserved(policy)))]

Lane(op, policy) == GroupFor(KindOf[op], ByOf[op], policy.mode)

InLane(group, running, policy) == {r \in running : Lane(r, policy) = group}

Exclusive(op) == KindOf[op] \in ExclusiveKinds

(* Rule 3 of can_start: a page view and any other browser kind never meet. *)
ViewClash(a, b) ==
  \/ KindOf[a] = "view_page" /\ KindOf[b] \in BrowserLaneKinds
  \/ KindOf[b] = "view_page" /\ KindOf[a] \in BrowserLaneKinds

LaneHasRoom(op, running, policy) ==
  Cardinality(InLane(Lane(op, policy), running, policy))
    < LimitForGroup(policy, Lane(op, policy))

(* Mutant: a page view only looks for another page view.                   *)
CanStartBesideView(op, running, policy) ==
  /\ \A r \in running : ~Exclusive(r)
  /\ IF Exclusive(op) THEN running = {} ELSE LaneHasRoom(op, running, policy)

CanStart(op, running, policy) ==
  /\ \A r \in running : ~Exclusive(r)
  /\ IF Exclusive(op)
       THEN running = {}
       ELSE /\ \A r \in running : ~ViewClash(op, r)
            /\ LaneHasRoom(op, running, policy)

(* Lower dispatches first (DISPATCH_PRIORITY).                             *)
DispatchPriority(kind) ==
  CASE kind \in {"apply", "linkedin_login"} -> 0
    [] kind \in {"tailor", "cover"}         -> 1
    [] kind \in {"draft", "send"}           -> 2
    [] kind \in {"extract", "discover"}     -> 3
    [] kind = "score"                       -> 8
    [] kind = "scan"                        -> 9
    [] OTHER                                -> 5

(* The first two keys of list_queued_for_dispatch as one number: whatever  *)
(* a user asked for first, then the kind's priority.                       *)
Urgency(op) ==
  (IF ByOf[op] = "user" THEN 0 ELSE 10) + DispatchPriority(KindOf[op])

(* The saved "Parallel AI calls": 0 is unlimited, else clamped to 1..20.   *)
Unlimited == 1000000
LlmConcurrencyFrom(raw) ==
  IF raw = 0 THEN Unlimited ELSE Larger(1, Smaller(20, raw))

=============================================================================
