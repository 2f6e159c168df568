----------------------- MODULE MCCallLeaseController -----------------------
(***************************************************************************)
(* CallLeaseController over a clock of a few heartbeats: a lease lives two *)
(* of them, so that a renewal, an expiry and a second claim all fit.       *)
(***************************************************************************)
EXTENDS CallLeaseController
=============================================================================
