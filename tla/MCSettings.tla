----------------------------- MODULE MCSettings -----------------------------
(***************************************************************************)
(* The settings with two accounts, two loads and a save, and two themes    *)
(* chosen: one at the server, or given up, and one that waits for it.  Two *)
(* requests may be left unanswered by a renewal or a sign-out: a load and  *)
(* the theme's PUT, or two loads.  Accounts and loads are alike: nothing   *)
(* but invariants is checked, so they may be exchanged.                    *)
(***************************************************************************)
EXTENDS SettingsDrawer, TLC

Alike == Permutations(Accounts) \cup Permutations(Gets)
=============================================================================
