--------------------------- MODULE CallExclusion ---------------------------
(***************************************************************************)
(* What the call-lease service promises one account, without the database  *)
(* row, the row lock, the clock or the LiveKit Cloud calls it is made of:  *)
(*                                                                         *)
(*   - a call has at most one owner, a (session, device) pair that carries *)
(*     a generation no earlier owner had;                                  *)
(*   - only the owner may be in the call or able to enter it;              *)
(*   - ownership changes hands only while nobody is in the call and nobody *)
(*     is able to enter it.                                                *)
(*                                                                         *)
(* CallLease implements this module: see CallLease!Exclusion.              *)
(***************************************************************************)
EXTENDS Naturals

CONSTANTS Sessions,   \* the account's practice sessions (LiveKit rooms)
          Devices     \* the account's devices

VARIABLES owner,      \* the set of owners: empty, or one ownership record
          generation, \* generation of the last ownership granted
          capable     \* participants in the call or able to enter it

vars == <<owner, generation, capable>>

(* A LiveKit participant: its room and the generation in its identity. *)
Participant(o) == [session |-> o.session, generation |-> o.generation]

Init ==
  /\ owner = {}
  /\ generation = 0
  /\ capable = {}

(* Give the call to a new owner; nobody may be left able to use it. *)
Grant(s, d) ==
  /\ capable = {}
  /\ generation' = generation + 1
  /\ owner' = {[session |-> s, device |-> d, generation |-> generation + 1]}
  /\ UNCHANGED capable

(* The call is given back: again nobody may be left able to use it. *)
Vacate ==
  /\ capable = {}
  /\ owner' = {}
  /\ UNCHANGED <<generation, capable>>

(* The owner gains the ability to be in the call. *)
Admit ==
  /\ \E o \in owner : capable' = capable \cup {Participant(o)}
  /\ UNCHANGED <<owner, generation>>

(* Participants leave, are removed, or their tokens lapse. *)
Expel ==
  /\ capable' \in SUBSET capable
  /\ UNCHANGED <<owner, generation>>

Next ==
  \/ \E s \in Sessions, d \in Devices : Grant(s, d)
  \/ Vacate
  \/ Admit
  \/ Expel

Spec == Init /\ [][Next]_vars
=============================================================================
