---------------------------- MODULE MCScoreQueue ----------------------------
(* A small instance of ScoreQueue: one trigger of Run now or of the hook,  *)
(* one crash, and either one Retry or two of: a Stop, a Rescore, a floor   *)
(* pass.                                                                   *)
EXTENDS ScoreQueue

RaceUses == [s \in Sources |-> 1]

FewBesides == used["stops"] + used["rescores"] + used["floors"] + 2 * used["retries"] <= 2
=============================================================================
