-------------------------- MODULE MCAnalysisJobs ---------------------------
(***************************************************************************)
(* AnalysisJobs with two workers and two sessions, so that a job can be    *)
(* claimed twice over while another waits behind it in the queue.          *)
(***************************************************************************)
EXTENDS AnalysisJobs
=============================================================================
