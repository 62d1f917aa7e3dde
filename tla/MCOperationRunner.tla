------------------------- MODULE MCOperationRunner --------------------------
(* Small instances of OperationRunner.  Ids are strings that name the kind. *)
EXTENDS OperationRunner, TLC

MCKind(o) ==
  CASE o \in {"s1", "s2", "su"} -> "score"
    [] o = "vw" -> "view_page"
    [] o = "d1" -> "discover"
    [] o = "sc" -> "scan"

MCKindOf == [o \in Ops |-> MCKind(o)]
MCByOf   == [o \in Ops |-> IF o \in {"vw", "su"} THEN "user" ELSE "app"]
MCKinds  == {MCKind(o) : o \in Ops}

(* Lane widths of 1 reach every "lane full" case.                           *)
MCGroupLimits == [g \in {"ai_writing", "ai_requests", "scan", "networker_discover",
                         "linkedin_login", "view_page"} |-> 1]

NoBatches    == {}
ScorePair    == {<<"s1", "s2">>}
PerKind      == {"per_kind"}
BothModes    == {"per_kind", "shared"}

-----------------------------------------------------------------------------
(* What the runner accepted it does not forget: a Stop stays in force until *)
(* its worker is done (cancel), and a queued row is settled in the end      *)
(* (_pump, recover).                                                        *)
AcceptedIsHonoured == StopStays /\ QueuedIsSettled
=============================================================================
