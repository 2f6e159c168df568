---------------------------- MODULE MCCallLease ----------------------------
(***************************************************************************)
(* CallLease with two sessions and two devices.  The unit of time is the   *)
(* Cloud timeout: a lease and a refreshed token live two of them, a token  *)
(* one, and the cutoff reaches two ahead.                                  *)
(***************************************************************************)
EXTENDS CallLease
=============================================================================
