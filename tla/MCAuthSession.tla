--------------------------- MODULE MCAuthSession ---------------------------
(***************************************************************************)
(* AuthSession with two users and one request, which is made again and     *)
(* again: requests meet only in the page they share.                       *)
(***************************************************************************)
EXTENDS AuthSession
=============================================================================
