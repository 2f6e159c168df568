------------------------- MODULE MCAssessmentPolling -------------------------
(***************************************************************************)
(* AssessmentPolling with two sessions one after the other, on both        *)
(* platforms.                                                              *)
(***************************************************************************)
EXTENDS AssessmentPolling
=============================================================================
