--------------------------- MODULE MCSessionSetup ---------------------------
(***************************************************************************)
(* SessionSetup with three requests under one key, of which one has other  *)
(* content, and one request without a key; three end or dispatch requests. *)
(***************************************************************************)
EXTENDS SessionSetup, TLC

CONSTANTS r1, r2, r3, r4, c1, c2, c3, k, talk, exam

MCKeyOf == r1 :> k @@ r2 :> k @@ r3 :> k @@ r4 :> NoKey
MCBodyOf == r1 :> talk @@ r2 :> talk @@ r3 :> exam @@ r4 :> talk
MCCreates == {r1, r2, r3, r4}
MCCalls == {c1, c2, c3}
MCSymmetry == Permutations(MCCalls) \cup Permutations({r1, r2})
=============================================================================
