-------------------------- MODULE CallLeaseProofs --------------------------
(***************************************************************************)
(* The safety of CallLease for any sets of sessions and devices and any    *)
(* durations with RevokeSkew > CloudTimeout.                               *)
(*                                                                         *)
(* Inv is inductive: one lemma for each action, with one step for each     *)
(* conjunct.  The argument is that of TxConsistent: while the User row is  *)
(* locked no token is issued, a confirmed removal has a cutoff later than  *)
(* the end of its timeout and so later than every token in existence, and  *)
(* with nobody in the room the Cloud refreshes none.  The commit therefore *)
(* finds an empty call, which is also what CallExclusion asks of a step    *)
(* that changes the owner.                                                 *)
(***************************************************************************)
EXTENDS CallLease, TLAPS

USE DEF Held, Holder, Participant, Usable, Generations, Participants

(* Raising one entry of a table of numbers to at least n. *)
LEMMA RaiseAt ==
  ASSUME NEW P, NEW f \in [P -> Nat], NEW q \in P, NEW n \in Nat, NEW h,
         h = [f EXCEPT ![q] = IF @ < n THEN n ELSE @]
  PROVE  \A p \in P : /\ h[p] >= f[p] /\ h[p] \in Nat /\ f[p] \in Nat
                      /\ p = q => h[p] >= n
OBVIOUS

(* The account starts with a free lease, no token and nobody in a room. *)
LEMMA InitInv == Init => Inv
<1> SUFFICES ASSUME Init PROVE Inv
  OBVIOUS
<1> USE TimeAssumption, NullAssumption DEF Init
<1>1. TypeOK
  BY DEF TypeOK, Idle
<1>2. Grounded /\ TxConsistent /\ OnlyHolderCapable
  BY DEF Grounded, TxConsistent, OnlyHolderCapable, Idle
<1>3. EndAllOrNothing /\ NextOwnerUnharmed
  BY DEF EndAllOrNothing, NextOwnerUnharmed
<1> QED BY <1>1, <1>2, <1>3 DEF Inv

(* A claim of a free lease: nobody is capable, as nobody holds it. *)
LEMMA ClaimFreeInv ==
  ASSUME Inv, NEW s \in Sessions, NEW d \in Devices, ClaimFree(s, d)
  PROVE  Inv'
<1> USE TimeAssumption, NullAssumption, SkewAssumption
    DEF Inv, TypeOK, ClaimFree, Grant, Active, cloud
<1>1. TypeOK'
  BY DEF Grounded, TxConsistent
<1>2. Grounded'
  BY DEF Grounded, TxConsistent
<1>3. TxConsistent'
  BY DEF Grounded, TxConsistent, OnlyHolderCapable, Idle
<1>4. OnlyHolderCapable'
  BY DEF OnlyHolderCapable, TxConsistent
<1>5. EndAllOrNothing'
  BY DEF EndAllOrNothing, TxConsistent
<1>6. NextOwnerUnharmed'
  BY DEF NextOwnerUnharmed, TxConsistent
<1> QED BY <1>1, <1>2, <1>3, <1>4, <1>5, <1>6

(* A claim by the holder only moves the expiry. *)
LEMMA ClaimAgainInv ==
  ASSUME Inv, NEW s \in Sessions, NEW d \in Devices, ClaimAgain(s, d)
  PROVE  Inv'
<1> USE TimeAssumption, NullAssumption, SkewAssumption
    DEF Inv, TypeOK, ClaimAgain, HeldBy, Active, cloud
<1>1. TypeOK'
  BY DEF Grounded, TxConsistent
<1>2. Grounded'
  BY DEF Grounded, TxConsistent
<1>3. TxConsistent'
  BY DEF Grounded, TxConsistent, OnlyHolderCapable, Idle
<1>4. OnlyHolderCapable'
  BY DEF OnlyHolderCapable, TxConsistent
<1>5. EndAllOrNothing'
  BY DEF EndAllOrNothing, TxConsistent
<1>6. NextOwnerUnharmed'
  BY DEF NextOwnerUnharmed, TxConsistent
<1> QED BY <1>1, <1>2, <1>3, <1>4, <1>5, <1>6

(* A takeover begins: the request it sends names the present holder. *)
LEMMA BeginTakeoverInv ==
  ASSUME Inv, NEW s \in Sessions, NEW d \in Devices, BeginTakeover(s, d)
  PROVE  Inv'
<1> USE TimeAssumption, NullAssumption, SkewAssumption
    DEF Inv, TypeOK, BeginTakeover, HeldBy, BeginRevoke, RevokeRequest, Active
<1>1. TypeOK'
  BY DEF Grounded, TxConsistent
<1>2. Grounded'
  BY DEF Grounded, TxConsistent
<1>3. TxConsistent'
  BY DEF Grounded, TxConsistent, OnlyHolderCapable, Idle
<1>4. OnlyHolderCapable'
  BY DEF OnlyHolderCapable, TxConsistent
<1>5. EndAllOrNothing'
  BY DEF EndAllOrNothing, TxConsistent
<1>6. NextOwnerUnharmed'
  BY DEF NextOwnerUnharmed, TxConsistent
<1> QED BY <1>1, <1>2, <1>3, <1>4, <1>5, <1>6

(* A takeover commits: the confirmed removal left nobody capable. *)
LEMMA CommitTakeoverInv ==
  ASSUME Inv, CommitTakeover
  PROVE  Inv'
<1> USE TimeAssumption, NullAssumption, SkewAssumption
    DEF Inv, TypeOK, CommitTakeover, Grant, Active, cloud, Idle
<1>1. TypeOK'
  BY DEF Grounded, TxConsistent
<1>2. Grounded'
  BY DEF Grounded, TxConsistent
<1>3. TxConsistent'
  BY DEF Grounded, TxConsistent, OnlyHolderCapable, Idle
<1>4. OnlyHolderCapable'
  BY DEF OnlyHolderCapable, TxConsistent
<1>5. EndAllOrNothing'
  BY DEF EndAllOrNothing, TxConsistent
<1>6. NextOwnerUnharmed'
  BY DEF NextOwnerUnharmed, TxConsistent
<1> QED BY <1>1, <1>2, <1>3, <1>4, <1>5, <1>6

(* A heartbeat only moves the expiry. *)
LEMMA HeartbeatInv ==
  ASSUME Inv, NEW s \in Sessions, NEW d \in Devices, NEW g \in Generations, Heartbeat(s, d, g)
  PROVE  Inv'
<1> USE TimeAssumption, NullAssumption, SkewAssumption
    DEF Inv, TypeOK, Heartbeat, Owns, HeldBy, Active, cloud
<1>1. TypeOK'
  BY DEF Grounded, TxConsistent
<1>2. Grounded'
  BY DEF Grounded, TxConsistent
<1>3. TxConsistent'
  BY DEF Grounded, TxConsistent, OnlyHolderCapable, Idle
<1>4. OnlyHolderCapable'
  BY DEF OnlyHolderCapable, TxConsistent
<1>5. EndAllOrNothing'
  BY DEF EndAllOrNothing, TxConsistent
<1>6. NextOwnerUnharmed'
  BY DEF NextOwnerUnharmed, TxConsistent
<1> QED BY <1>1, <1>2, <1>3, <1>4, <1>5, <1>6

(* A release begins. *)
LEMMA BeginReleaseInv ==
  ASSUME Inv, NEW s \in Sessions, NEW d \in Devices, NEW g \in Generations, BeginRelease(s, d, g)
  PROVE  Inv'
<1> USE TimeAssumption, NullAssumption, SkewAssumption
    DEF Inv, TypeOK, BeginRelease, Owns, HeldBy, BeginRevoke, RevokeRequest, Active
<1>1. TypeOK'
  BY DEF Grounded, TxConsistent
<1>2. Grounded'
  BY DEF Grounded, TxConsistent
<1>3. TxConsistent'
  BY DEF Grounded, TxConsistent, OnlyHolderCapable, Idle
<1>4. OnlyHolderCapable'
  BY DEF OnlyHolderCapable, TxConsistent
<1>5. EndAllOrNothing'
  BY DEF EndAllOrNothing, TxConsistent
<1>6. NextOwnerUnharmed'
  BY DEF NextOwnerUnharmed, TxConsistent
<1> QED BY <1>1, <1>2, <1>3, <1>4, <1>5, <1>6

(* A release commits: nobody is left capable under the freed lease. *)
LEMMA CommitReleaseInv ==
  ASSUME Inv, CommitRelease
  PROVE  Inv'
<1> USE TimeAssumption, NullAssumption, SkewAssumption
    DEF Inv, TypeOK, CommitRelease, Free, Active, cloud, Idle
<1>1. TypeOK'
  BY DEF Grounded, TxConsistent
<1>2. Grounded'
  BY DEF Grounded, TxConsistent
<1>3. TxConsistent'
  BY DEF Grounded, TxConsistent, OnlyHolderCapable, Idle
<1>4. OnlyHolderCapable'
  BY DEF OnlyHolderCapable, TxConsistent
<1>5. EndAllOrNothing'
  BY DEF EndAllOrNothing, TxConsistent
<1>6. NextOwnerUnharmed'
  BY DEF NextOwnerUnharmed, TxConsistent
<1> QED BY <1>1, <1>2, <1>3, <1>4, <1>5, <1>6

(* A session without the lease ends. *)
LEMMA EndUnheldInv ==
  ASSUME Inv, NEW s \in Sessions, EndUnheld(s)
  PROVE  Inv'
<1> USE TimeAssumption, NullAssumption, SkewAssumption
    DEF Inv, TypeOK, EndUnheld, Active, cloud
<1>1. TypeOK'
  BY DEF Grounded, TxConsistent
<1>2. Grounded'
  BY DEF Grounded, TxConsistent
<1>3. TxConsistent'
  BY DEF Grounded, TxConsistent, OnlyHolderCapable, Idle
<1>4. OnlyHolderCapable'
  BY DEF OnlyHolderCapable, TxConsistent
<1>5. EndAllOrNothing'
  BY DEF EndAllOrNothing, TxConsistent
<1>6. NextOwnerUnharmed'
  BY DEF NextOwnerUnharmed, TxConsistent
<1> QED BY <1>1, <1>2, <1>3, <1>4, <1>5, <1>6

(* The end of the holding session begins. *)
LEMMA BeginEndInv ==
  ASSUME Inv, NEW s \in Sessions, BeginEnd(s)
  PROVE  Inv'
<1> USE TimeAssumption, NullAssumption, SkewAssumption
    DEF Inv, TypeOK, BeginEnd, BeginRevoke, RevokeRequest, Active
<1>1. TypeOK'
  BY DEF Grounded, TxConsistent
<1>2. Grounded'
  BY DEF Grounded, TxConsistent
<1>3. TxConsistent'
  BY DEF Grounded, TxConsistent, OnlyHolderCapable, Idle
<1>4. OnlyHolderCapable'
  BY DEF OnlyHolderCapable, TxConsistent
<1>5. EndAllOrNothing'
  BY DEF EndAllOrNothing, TxConsistent
<1>6. NextOwnerUnharmed'
  BY DEF NextOwnerUnharmed, TxConsistent
<1> QED BY <1>1, <1>2, <1>3, <1>4, <1>5, <1>6

(* The end commits: the session loses the lease as it completes. *)
LEMMA CommitEndInv ==
  ASSUME Inv, CommitEnd
  PROVE  Inv'
<1> USE TimeAssumption, NullAssumption, SkewAssumption
    DEF Inv, TypeOK, CommitEnd, Free, Active, cloud, Idle
<1>1. TypeOK'
  BY DEF Grounded, TxConsistent
<1>2. Grounded'
  BY DEF Grounded, TxConsistent
<1>3. TxConsistent'
  BY DEF Grounded, TxConsistent, OnlyHolderCapable, Idle
<1>4. OnlyHolderCapable'
  BY DEF OnlyHolderCapable, TxConsistent
<1>5. EndAllOrNothing'
  BY DEF EndAllOrNothing, TxConsistent
<1>6. NextOwnerUnharmed'
  BY DEF NextOwnerUnharmed, TxConsistent
<1> QED BY <1>1, <1>2, <1>3, <1>4, <1>5, <1>6

(* An operation rolls back, by itself or at its timeout. *)
LEMMA AbortInv ==
  ASSUME Inv, Abort
  PROVE  Inv'
<1> USE TimeAssumption, NullAssumption, SkewAssumption
    DEF Inv, TypeOK, Abort, Active, cloud, Idle
<1>1. TypeOK'
  BY DEF Grounded, TxConsistent
<1>2. Grounded'
  BY DEF Grounded, TxConsistent
<1>3. TxConsistent'
  BY DEF Grounded, TxConsistent, OnlyHolderCapable, Idle
<1>4. OnlyHolderCapable'
  BY DEF OnlyHolderCapable, TxConsistent
<1>5. EndAllOrNothing'
  BY DEF EndAllOrNothing, TxConsistent
<1>6. NextOwnerUnharmed'
  BY DEF NextOwnerUnharmed, TxConsistent
<1> QED BY <1>1, <1>2, <1>3, <1>4, <1>5, <1>6

(* A token is issued, and only to the holder. *)
LEMMA IssueTokenInv ==
  ASSUME Inv, NEW s \in Sessions, NEW d \in Devices, NEW g \in Generations, IssueToken(s, d, g)
  PROVE  Inv'
<1> USE TimeAssumption, NullAssumption, SkewAssumption
    DEF Inv, TypeOK, IssueToken, Owns, HeldBy, Active, Idle
<1>1. TypeOK'
  BY DEF Grounded, TxConsistent
<1>2. Grounded'
  BY DEF Grounded, TxConsistent
<1>3. TxConsistent'
  BY DEF Grounded, TxConsistent, OnlyHolderCapable, Idle
<1>4. OnlyHolderCapable'
  BY DEF OnlyHolderCapable, TxConsistent
<1>5. EndAllOrNothing'
  BY DEF EndAllOrNothing, TxConsistent
<1>6. NextOwnerUnharmed'
  BY DEF NextOwnerUnharmed, TxConsistent
<1> QED BY <1>1, <1>2, <1>3, <1>4, <1>5, <1>6

(* The Cloud removes a participant; if the operation under way hears of it,
   the cutoff is past every token, so the call is empty. *)
LEMMA CloudRemoveInv ==
  ASSUME Inv, NEW r \in flight, NEW heard \in BOOLEAN, CloudRemove(r, heard)
  PROVE  Inv'
<1> USE TimeAssumption, NullAssumption, SkewAssumption
    DEF Inv, TypeOK, CloudRemove, RevokeRequest, Active, Idle
<1>1. TypeOK'
  BY DEF Grounded, TxConsistent
<1>2. Grounded'
  BY DEF Grounded, TxConsistent
<1>7. /\ r.who \in Participants /\ r.before \in Nat
      /\ cutoff \in [Participants -> Nat]
      /\ cutoff' = [cutoff EXCEPT ![r.who] = IF @ < r.before THEN r.before ELSE @]
  OBVIOUS
<1>8. \A p \in Participants :
        /\ cutoff'[p] >= cutoff[p] /\ cutoff'[p] \in Nat /\ cutoff[p] \in Nat
        /\ p = r.who => cutoff'[p] >= r.before
  BY ONLY <1>7, RaiseAt, Zenon
<1>9. \A t \in tokens : Participant(t) \in Participants /\ t.issued \in Nat
  OBVIOUS
<1>10. \A t \in tokens : Usable(t)' => Usable(t)
  BY <1>8, <1>9
<1>3. TxConsistent'
  <2>1. CASE tx.phase = "revoking" /\ r = RevokeRequest(tx.at)
                /\ tx' = [tx EXCEPT !.phase = "revoked"]
    <3>1. Held /\ Holder \in Participants
      BY <2>1 DEF TxConsistent, Grounded, Idle
    <3>2. cutoff'[Holder] >= tx.at + RevokeSkew
      BY <2>1, <3>1, <1>8 DEF RevokeRequest
    <3>3. \A t \in tokens : t.issued < tx.at + RevokeSkew
      BY <2>1 DEF TxConsistent, Grounded
    <3>4. \A t \in tokens : ~Usable(t)'
      <4> SUFFICES ASSUME NEW t \in tokens, Usable(t)' PROVE FALSE
        OBVIOUS
      <4>1. Usable(t)
        BY <1>10
      <4>2. Participant(t) = Holder
        BY <4>1 DEF OnlyHolderCapable
      <4> QED BY <3>1, <3>2, <3>3, <4>2, <1>8, <1>9
    <3>5. connected' = {}
      BY <2>1 DEF OnlyHolderCapable
    <3> QED BY <2>1, <3>1, <3>4, <3>5 DEF TxConsistent, Idle
  <2>2. CASE UNCHANGED tx
    <3>1. tx.phase = "revoked" => \A t \in tokens : ~Usable(t)'
      BY <1>10 DEF TxConsistent
    <3> QED BY <2>2, <3>1 DEF TxConsistent, Idle
  <2> QED BY <2>1, <2>2
<1>4. OnlyHolderCapable'
  BY DEF OnlyHolderCapable, TxConsistent
<1>5. EndAllOrNothing'
  BY DEF EndAllOrNothing, TxConsistent
<1>6. NextOwnerUnharmed'
  BY DEF NextOwnerUnharmed, TxConsistent
<1> QED BY <1>1, <1>2, <1>3, <1>4, <1>5, <1>6

(* A client joins with a usable token, which only the holder can have. *)
LEMMA JoinInv ==
  ASSUME Inv, NEW t \in tokens, Join(t)
  PROVE  Inv'
<1> USE TimeAssumption, NullAssumption, SkewAssumption
    DEF Inv, TypeOK, Join, Active
<1>1. TypeOK'
  BY DEF Grounded, TxConsistent
<1>2. Grounded'
  BY DEF Grounded, TxConsistent
<1>3. TxConsistent'
  BY DEF Grounded, TxConsistent, OnlyHolderCapable, Idle
<1>4. OnlyHolderCapable'
  BY DEF OnlyHolderCapable, TxConsistent
<1>5. EndAllOrNothing'
  BY DEF EndAllOrNothing, TxConsistent
<1>6. NextOwnerUnharmed'
  BY DEF NextOwnerUnharmed, TxConsistent
<1> QED BY <1>1, <1>2, <1>3, <1>4, <1>5, <1>6

(* A participant leaves. *)
LEMMA LeaveInv ==
  ASSUME Inv, NEW p \in connected, Leave(p)
  PROVE  Inv'
<1> USE TimeAssumption, NullAssumption, SkewAssumption
    DEF Inv, TypeOK, Leave, Active
<1>1. TypeOK'
  BY DEF Grounded, TxConsistent
<1>2. Grounded'
  BY DEF Grounded, TxConsistent
<1>3. TxConsistent'
  BY DEF Grounded, TxConsistent, OnlyHolderCapable, Idle
<1>4. OnlyHolderCapable'
  BY DEF OnlyHolderCapable, TxConsistent
<1>5. EndAllOrNothing'
  BY DEF EndAllOrNothing, TxConsistent
<1>6. NextOwnerUnharmed'
  BY DEF NextOwnerUnharmed, TxConsistent
<1> QED BY <1>1, <1>2, <1>3, <1>4, <1>5, <1>6

(* The Cloud refreshes the token of a participant, who is the holder. *)
LEMMA RefreshInv ==
  ASSUME Inv, NEW p \in connected, Refresh(p)
  PROVE  Inv'
<1> USE TimeAssumption, NullAssumption, SkewAssumption
    DEF Inv, TypeOK, Refresh, Active, Idle
<1>1. TypeOK'
  BY DEF Grounded, TxConsistent
<1>2. Grounded'
  BY DEF Grounded, TxConsistent
<1>3. TxConsistent'
  BY DEF Grounded, TxConsistent, OnlyHolderCapable, Idle
<1>4. OnlyHolderCapable'
  BY DEF OnlyHolderCapable, TxConsistent
<1>5. EndAllOrNothing'
  BY DEF EndAllOrNothing, TxConsistent
<1>6. NextOwnerUnharmed'
  BY DEF NextOwnerUnharmed, TxConsistent
<1> QED BY <1>1, <1>2, <1>3, <1>4, <1>5, <1>6

(* Time passes, within the timeout of a removal. *)
LEMMA TickInv ==
  ASSUME Inv, Tick
  PROVE  Inv'
<1> USE TimeAssumption, NullAssumption, SkewAssumption
    DEF Inv, TypeOK, Tick, Active
<1>1. TypeOK'
  BY DEF Grounded, TxConsistent
<1>2. Grounded'
  BY DEF Grounded, TxConsistent
<1>3. TxConsistent'
  BY DEF Grounded, TxConsistent, OnlyHolderCapable, Idle
<1>4. OnlyHolderCapable'
  BY DEF OnlyHolderCapable, TxConsistent
<1>5. EndAllOrNothing'
  BY DEF EndAllOrNothing, TxConsistent
<1>6. NextOwnerUnharmed'
  BY DEF NextOwnerUnharmed, TxConsistent
<1> QED BY <1>1, <1>2, <1>3, <1>4, <1>5, <1>6

-----------------------------------------------------------------------------
(* Every step of the specification preserves the inductive invariant. *)
LEMMA NextInv == Inv /\ [Next]_vars => Inv'
<1> SUFFICES ASSUME Inv, [Next]_vars PROVE Inv'
  OBVIOUS
<1>1. CASE Next
  BY <1>1, ClaimFreeInv, ClaimAgainInv, BeginTakeoverInv, CommitTakeoverInv,
     HeartbeatInv, BeginReleaseInv, CommitReleaseInv, EndUnheldInv, BeginEndInv,
     CommitEndInv, AbortInv, IssueTokenInv, CloudRemoveInv, JoinInv, LeaveInv,
     RefreshInv, TickInv DEF Next, Timeout
<1>2. CASE UNCHANGED vars
  BY <1>2 DEF vars, Inv, TypeOK, Grounded, TxConsistent, OnlyHolderCapable,
     EndAllOrNothing, NextOwnerUnharmed, Idle, Active
<1> QED BY <1>1, <1>2

(* The inductive invariant holds in every reachable state. *)
THEOREM Invariance == Spec => []Inv
BY InitInv, NextInv, PTL DEF Spec

(* Every variable keeps its type. *)
THEOREM TypeCorrect == Spec => []TypeOK
<1>1. Inv => TypeOK
  BY DEF Inv
<1> QED BY <1>1, Invariance, PTL

(* One call at a time: the Cloud lets in nobody but the present holder. *)
THEOREM SingleCall == Spec => []OnlyHolderCapable
<1>1. Inv => OnlyHolderCapable
  BY DEF Inv
<1> QED BY <1>1, Invariance, PTL

(* Ending a session is all or nothing. *)
THEOREM EndAtomic == Spec => []EndAllOrNothing
<1>1. Inv => EndAllOrNothing
  BY DEF Inv
<1> QED BY <1>1, Invariance, PTL

(* A removal never names a generation that is yet to be granted. *)
THEOREM NoFutureRemoval == Spec => []NextOwnerUnharmed
<1>1. Inv => NextOwnerUnharmed
  BY DEF Inv
<1> QED BY <1>1, Invariance, PTL

(* Generations fence off superseded and released tuples. *)
THEOREM Fencing == Spec => GenerationsFence
<1>1. Inv /\ [Next]_vars =>
        [/\ lease'.generation >= lease.generation
         /\ lease'.generation = lease.generation =>
              /\ lease'.session = lease.session /\ lease'.device = lease.device
              /\ lease'.state = "held" => Held]_vars
  <2> SUFFICES ASSUME Inv, [Next]_vars
      PROVE  \/ /\ lease'.generation >= lease.generation
                /\ lease'.generation = lease.generation =>
                     /\ lease'.session = lease.session
                     /\ lease'.device = lease.device
                     /\ lease'.state = "held" => Held
             \/ UNCHANGED vars
    OBVIOUS
  <2>1. lease \in [state : {"free", "held"}, session : Sessions \cup {NoSession},
                   device : Devices \cup {NoDevice}, generation : Nat,
                   expires : Nat]
    BY TimeAssumption DEF Inv, TypeOK
  <2>2. \/ UNCHANGED lease
        \/ \E s, d, now : Grant(s, d, now)
        \/ Free
        \/ Held /\ lease' = [lease EXCEPT !.expires = clock + Ttl]
    BY DEF Next, ClaimFree, ClaimAgain, BeginTakeover, CommitTakeover, Heartbeat,
       BeginRelease, CommitRelease, EndUnheld, BeginEnd, CommitEnd, Abort, Timeout,
       IssueToken, CloudRemove, Join, Leave, Refresh, Tick, BeginRevoke, HeldBy,
       Owns, vars
  <2>3. CASE UNCHANGED lease
    BY <2>1, <2>3
  <2>4. CASE \E s, d, now : Grant(s, d, now)
    BY <2>1, <2>4 DEF Grant
  <2>5. CASE Free
    BY <2>1, <2>5 DEF Free
  <2>6. CASE Held /\ lease' = [lease EXCEPT !.expires = clock + Ttl]
    BY <2>1, <2>6
  <2> QED BY <2>2, <2>3, <2>4, <2>5, <2>6
<1> QED BY <1>1, Invariance, PTL DEF Spec, GenerationsFence

-----------------------------------------------------------------------------
(* CallLease implements CallExclusion.                                     *)

(* Nobody but the holder is capable, and nobody at all without one. *)
LEMMA CapableBound ==
  ASSUME Inv
  PROVE  Capable = {} \/ (Held /\ Capable = {Holder})
<1>1. \A p \in Capable : Held /\ p = Holder
  BY DEF Inv, OnlyHolderCapable, Capable
<1> QED BY <1>1

(* With the same owner, whatever becomes of the call is the admission of   *)
(* the owner or the expulsion of somebody.                                 *)
LEMMA SameOwner ==
  ASSUME Inv, Inv', Owners' = Owners, lease'.generation = lease.generation,
         Held' = Held, Holder' = Holder
  PROVE  Exclusion!Next
<1>1. CASE Capable' = {}
  BY <1>1 DEF Exclusion!Next, Exclusion!Expel
<1>2. CASE Held' /\ Capable' = {Holder'}
  <2>1. Capable' = Capable \cup {Holder}
    BY <1>2, CapableBound
  <2>2. \E o \in Owners : Exclusion!Participant(o) = Holder
    BY <1>2 DEF Owners, Exclusion!Participant
  <2> QED BY <2>1, <2>2 DEF Exclusion!Next, Exclusion!Admit
<1>3. Capable' = {} \/ (Held' /\ Capable' = {Holder'})
  <2>1. \A p \in Capable' : Held' /\ p = Holder'
    BY DEF Inv, OnlyHolderCapable, Capable
  <2> QED BY <2>1
<1> QED BY <1>1, <1>2, <1>3

(* The commits find the call empty and leave it so. *)
LEMMA CommitEmpty ==
  ASSUME Inv, UNCHANGED cloud, ~Held \/ tx.phase = "revoked"
  PROVE  Capable = {} /\ Capable' = {}
<1>1. connected = {} /\ \A t \in tokens : ~Usable(t)
  BY DEF Inv, OnlyHolderCapable, TxConsistent
<1> QED BY <1>1 DEF Capable, cloud

(* A grant of the empty call is a grant of the abstract call. *)
LEMMA GrantStep ==
  ASSUME Inv, UNCHANGED cloud, ~Held \/ tx.phase = "revoked",
         NEW s \in Sessions, NEW d \in Devices, NEW now, Grant(s, d, now)
  PROVE  Exclusion!Next
<1>1. Capable = {} /\ Capable' = {}
  BY CommitEmpty
<1>2. Owners' = {[session |-> s, device |-> d, generation |-> lease.generation + 1]}
  BY DEF Grant, Owners
<1>3. lease'.generation = lease.generation + 1
  BY DEF Grant
<1> QED BY <1>1, <1>2, <1>3 DEF Exclusion!Next, Exclusion!Grant

(* Freeing the empty call vacates the abstract call. *)
LEMMA FreeStep ==
  ASSUME Inv, UNCHANGED cloud, tx.phase = "revoked", Free
  PROVE  Exclusion!Next
<1>1. Capable = {} /\ Capable' = {}
  BY CommitEmpty
<1>2. Owners' = {} /\ lease'.generation = lease.generation
  BY DEF Free, Owners, Inv, TypeOK
<1> QED BY <1>1, <1>2 DEF Exclusion!Next, Exclusion!Vacate

(* Every step of the lease is a step of the exclusion or leaves it alone. *)
LEMMA StepRefines ==
  ASSUME Inv, Inv', [Next]_vars
  PROVE  [Exclusion!Next]_(Exclusion!vars)
<1>1. CASE UNCHANGED lease
  <2>1. Owners' = Owners /\ Held' = Held /\ Holder' = Holder
    BY <1>1 DEF Owners
  <2> QED BY <1>1, <2>1, SameOwner
<1>2. CASE Held /\ lease' = [lease EXCEPT !.expires = clock + Ttl]
  <2>1. /\ lease'.state = lease.state /\ lease'.session = lease.session
        /\ lease'.device = lease.device /\ lease'.generation = lease.generation
    BY <1>2 DEF Inv, TypeOK
  <2>2. Owners' = Owners /\ Held' = Held /\ Holder' = Holder
    BY <2>1 DEF Owners
  <2> QED BY <2>1, <2>2, SameOwner
<1>3. ASSUME NEW s \in Sessions, NEW d \in Devices, ClaimFree(s, d)
      PROVE  Exclusion!Next
  BY <1>3, GrantStep DEF ClaimFree, cloud
<1>4. CASE CommitTakeover
  <2>1. tx.session \in Sessions /\ tx.device \in Devices
    BY <1>4 DEF CommitTakeover, Inv, TxConsistent, Idle
  <2> QED BY <1>4, <2>1, GrantStep DEF CommitTakeover, cloud
<1>5. CASE CommitRelease \/ CommitEnd
  BY <1>5, FreeStep DEF CommitRelease, CommitEnd, cloud
<1>6. \/ UNCHANGED lease
      \/ Held /\ lease' = [lease EXCEPT !.expires = clock + Ttl]
      \/ \E s \in Sessions, d \in Devices : ClaimFree(s, d)
      \/ CommitTakeover \/ CommitRelease \/ CommitEnd
  BY DEF Next, ClaimAgain, BeginTakeover, Heartbeat, BeginRelease, EndUnheld,
     BeginEnd, Abort, Timeout, IssueToken, CloudRemove, Join, Leave, Refresh,
     Tick, BeginRevoke, HeldBy, Owns, vars
<1> QED BY <1>1, <1>2, <1>3, <1>4, <1>5, <1>6

(* The lease service implements the abstract single-owner call. *)
THEOREM Refinement == Spec => ImplementsExclusion
<1>1. Init => Exclusion!Init
  BY DEF Init, Exclusion!Init, Owners, Capable
<1>2. Inv /\ Inv' /\ [Next]_vars => [Exclusion!Next]_(Exclusion!vars)
  BY StepRefines
<1> QED BY <1>1, <1>2, Invariance, PTL DEF Spec, ImplementsExclusion, Exclusion!Spec

=============================================================================
