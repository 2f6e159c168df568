---------------------------- MODULE MCDashboard ----------------------------
(***************************************************************************)
(* Three sessions of one account, on pages of one, and another account.    *)
(*                                                                         *)
(* The daily view reads all three, the oldest completed from the start.    *)
(* The active view has two sessions to end and to resume, and the third,   *)
(* session 1, is never created; or it has all three, and then its rows are *)
(* read, created and ended elsewhere while no panel is open: what a user   *)
(* does with one row does not depend on how many others there are.         *)
(***************************************************************************)
EXTENDS Dashboard, TLC

CONSTANTS ann, bob

MCUsers == {ann, bob}
MCOwner == 1 :> ann @@ 2 :> ann @@ 3 :> ann

TwoSessions == status[1] = "none"
OnlyRead == a.endPanel = 0 /\ a.resPanel = 0 /\ conv = "idle"

MCInit ==
  /\ Init
  /\ shown = "daily" => status[1] = "completed"
  /\ shown = "active" /\ TwoSessions => status[2] = "active" /\ status[3] = "active"

MCNext ==
  /\ Next
  /\ shown = "active" => IF TwoSessions THEN TwoSessions' ELSE OnlyRead'

MCSpec == MCInit /\ [][MCNext]_vars /\ Fairness
=============================================================================
