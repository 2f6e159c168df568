--------------------------- MODULE AccountProofs ---------------------------
(***************************************************************************)
(* What belongs to an account: its credential and its requests             *)
(* (AuthSession), and its settings (SettingsDrawer).                       *)
(*                                                                         *)
(* That the credential stored is the shown user's (Inv) and that requests  *)
(* go out and sign out as the user they were made for (RequestAsItself),   *)
(* proved for any set of users and requests and any number of revisions.   *)
(* A start-up operation owns the page only in its first revision, while    *)
(* nothing has been published, and no two own it at once: so what the      *)
(* owner has read or written is still what is stored when it publishes.    *)
(* A request whose revision is the present one was begun by the user shown *)
(* now, since every snapshot has a revision of its own.                    *)
(*                                                                         *)
(* That what the settings show, wait for and send is the account's         *)
(* (SettingsInv) and that no load takes back the theme chosen last         *)
(* (LocalFirst), for any accounts, loads, saves and number of choices.     *)
(* The theme that waits is the last one and has not been sent (ThemeTurns);*)
(* so what the server has carried out of this sign-in came in the order of *)
(* the choices (LastStored); and a load that may still replace the theme   *)
(* began when the last choice had been confirmed, and brings it if it was  *)
(* committed by then (LoadsHarmless).                                      *)
(***************************************************************************)
EXTENDS AuthSession, SettingsDrawer, TLAPS

Active == {"exchange", "exchanged", "clearing", "lookup", "looked"}

\* The user shown is the one stored, in an entry no removal is meant for.
ShownStored == snap \in Users => stored.user = snap /\ (target > 0 => stored.rev > target)

\* The first revision is the one of the loading screen, and of no sign-out.
FirstRevision ==
  /\ snap = "loading" <=> rev = 1
  /\ target < rev
  /\ target = 0 => removals = 0

\* Once the removals are carried out nothing they were meant for is left.
Removed == target > 0 /\ removals = 0 /\ stored.user # None => stored.rev > target

\* Operations in flight began in the first revision, each with its sequence;
\* one that clears the storage has not been answered with a user.
OpsOrdered ==
  \A i \in Ops : op[i].pc \in Active =>
    /\ op[i].rev = 1 /\ op[i].seq <= seq
    /\ op[i].pc = "clearing" => op[i].user \notin Users
    /\ \A j \in Ops \ {i} : op[j].pc \in Active => op[j].seq # op[i].seq

\* What the operation that owns the page has read is what is stored.
OwnerStored ==
  \A i \in Ops :
    Owns(i) /\ op[i].pc \in {"exchanged", "looked"} /\ op[i].user \in Users =>
      stored.user = op[i].user

\* A request of the present revision is the present user's.
RequestsOwned ==
  \A q \in Reqs : req[q].pc # "idle" =>
    /\ req[q].rev <= rev
    /\ req[q].rev = rev => req[q].who = snap /\ snap \in Users
    /\ req[q].rev = rev /\ req[q].pc = "read" => req[q].token \in {req[q].who, None}

IInv == /\ TypeOK /\ ShownStored /\ FirstRevision /\ Removed
        /\ OpsOrdered /\ OwnerStored /\ RequestsOwned

-----------------------------------------------------------------------------
(* Every step keeps the types. *)
LEMMA TypeStep == IInv /\ [Next]_vars => TypeOK'
<1> SUFFICES ASSUME IInv, [Next]_vars PROVE TypeOK'
  OBVIOUS
<1> USE UsersAssumption DEF IInv, States, TypeOK, OpRec, CredRec, ReqRec, Owners
<1>1. CASE Load
  BY <1>1 DEF Load, NoOp, NoReq
<1>2. ASSUME NEW i \in Ops, Mount(i) PROVE TypeOK'
  BY <1>2 DEF Mount, Begin
<1>3. ASSUME NEW i \in Ops, ExchangeFails(i) PROVE TypeOK'
  BY <1>3 DEF ExchangeFails, Done, NoOp, Publish, Owns
<1>4. ASSUME NEW i \in Ops, Exchanged(i) PROVE TypeOK'
  <2>1. [NoOp EXCEPT !.pc = "done"] \in OpRec /\ [op[i] EXCEPT !.pc = "clearing"] \in OpRec
    BY DEF NoOp
  <2>2. op' \in [Ops -> OpRec]
    BY <1>4, <2>1 DEF Exchanged, Done
  <2>3. NoCred \in CredRec
    BY DEF NoCred
  <2>4. stored' \in CredRec
    BY <1>4, <2>3 DEF Exchanged, Remove
  <2> QED
    BY <1>4, <2>2, <2>4 DEF Exchanged, Publish
<1>5. ASSUME NEW i \in Ops, Cleared(i) PROVE TypeOK'
  BY <1>5 DEF Cleared, Done, NoOp, Publish, Owns, SnapshotOf
<1>6. ASSUME NEW i \in Ops, NEW expired \in BOOLEAN, Exchange(i, expired) PROVE TypeOK'
  <2>1. [op[i] EXCEPT !.pc = "exchanged"] \in OpRec
    OBVIOUS
  <2>2. \A t \in OpRec, u \in Owners : [t EXCEPT !.user = u] \in OpRec
    OBVIOUS
  <2>3. PICK u \in Owners : op' = [op EXCEPT ![i] = [[op[i] EXCEPT !.pc = "exchanged"] EXCEPT !.user = u]]
    BY <1>6 DEF Exchange
  <2>4. op' \in [Ops -> OpRec]
    BY <2>1, <2>2, <2>3
  <2>5. stored' \in CredRec
    BY <1>6 DEF Exchange
  <2> QED
    BY <1>6, <2>4, <2>5 DEF Exchange
<1>7. ASSUME NEW i \in Ops, Lookup(i) PROVE TypeOK'
  <2>1. [op[i] EXCEPT !.pc = "looked"] \in OpRec
    OBVIOUS
  <2>2. \A t \in OpRec, u \in Owners : [t EXCEPT !.user = u] \in OpRec
    OBVIOUS
  <2>3. PICK u \in Owners : op' = [op EXCEPT ![i] = [[op[i] EXCEPT !.pc = "looked"] EXCEPT !.user = u]]
    BY <1>7 DEF Lookup
  <2>4. op' \in [Ops -> OpRec]
    BY <2>1, <2>2, <2>3
  <2> QED
    BY <1>7, <2>4 DEF Lookup
<1>8. ASSUME NEW i \in Ops, Looked(i) PROVE TypeOK'
  BY <1>8 DEF Looked, Done, NoOp, Publish, Owns, SnapshotOf
<1>9. CASE Removal
  BY <1>9 DEF Removal, Remove, NoCred
<1>10. ASSUME NEW u \in Users \cup {Nameless}, UserLoaded(u) PROVE TypeOK'
  BY <1>10 DEF UserLoaded, Publish, SnapshotOf
<1>11. CASE Expire
  BY <1>11 DEF Expire
<1>12. CASE AccessTokenExpired
  BY <1>12 DEF AccessTokenExpired, Publish
<1>13. CASE Logout
  BY <1>13 DEF Logout, Invalidate, Publish
<1>14. ASSUME NEW q \in Reqs, Request(q) PROVE TypeOK'
  BY <1>14 DEF Request
<1>15. ASSUME NEW q \in Reqs, GetAccessToken(q) PROVE TypeOK'
  <2>1. [req[q] EXCEPT !.pc = "read"] \in ReqRec
    OBVIOUS
  <2>2. \A t \in ReqRec, u \in Owners : [t EXCEPT !.token = u] \in ReqRec
    OBVIOUS
  <2>3. PICK u \in Owners : req' = [req EXCEPT ![q] = [[req[q] EXCEPT !.pc = "read"] EXCEPT !.token = u]]
    BY <1>15 DEF GetAccessToken
  <2>4. req' \in [Reqs -> ReqRec]
    BY <2>1, <2>2, <2>3
  <2> QED
    BY <1>15, <2>4 DEF GetAccessToken
<1>16. ASSUME NEW q \in Reqs, Fetch(q) PROVE TypeOK'
  BY <1>16 DEF Fetch, NoReq
<1>17. ASSUME NEW q \in Reqs, Answered(q) PROVE TypeOK'
  BY <1>17 DEF Answered, NoReq
<1>18. ASSUME NEW q \in Reqs, Unauthorised(q) PROVE TypeOK'
  BY <1>18 DEF Unauthorised, NoReq, Invalidate, Publish
<1>19. CASE UNCHANGED vars
  BY <1>19 DEF vars
<1> QED
  BY <1>1, <1>2, <1>3, <1>4, <1>5, <1>6, <1>7, <1>8, <1>9, <1>10, <1>11, <1>12, <1>13, <1>14, <1>15, <1>16, <1>17, <1>18, <1>19 DEF Next, Startup

(* The user shown is stored before and after every step. *)
LEMMA ShownStep == IInv /\ [Next]_vars => ShownStored'
<1> SUFFICES ASSUME IInv, [Next]_vars PROVE ShownStored'
  OBVIOUS
<1> USE UsersAssumption DEF IInv, States, TypeOK, OpRec, CredRec, ReqRec, Owners, ShownStored, FirstRevision, OpsOrdered, OwnerStored, Active, Ops
<1>1. CASE Load
  BY <1>1 DEF Load, NoOp, NoReq, Owns
<1>2. ASSUME NEW i \in Ops, Mount(i) PROVE ShownStored'
  BY <1>2 DEF Mount, Begin, Owns
<1>3. ASSUME NEW i \in Ops, ExchangeFails(i) PROVE ShownStored'
  BY <1>3 DEF ExchangeFails, Done, NoOp, Publish, Owns
<1>4. ASSUME NEW i \in Ops, Exchanged(i) PROVE ShownStored'
  BY <1>4 DEF Exchanged, Done, NoOp, Publish, Owns, Remove, NoCred
<1>5. ASSUME NEW i \in Ops, Cleared(i) PROVE ShownStored'
  BY <1>5 DEF Cleared, Done, NoOp, Publish, Owns, SnapshotOf
<1>6. ASSUME NEW i \in Ops, NEW expired \in BOOLEAN, Exchange(i, expired) PROVE ShownStored'
  BY <1>6 DEF Exchange, Owns
<1>7. ASSUME NEW i \in Ops, Lookup(i) PROVE ShownStored'
  BY <1>7 DEF Lookup, Owns
<1>8. ASSUME NEW i \in Ops, Looked(i) PROVE ShownStored'
  BY <1>8 DEF Looked, Done, NoOp, Publish, Owns, SnapshotOf
<1>9. CASE Removal
  BY <1>9 DEF Removal, Remove, NoCred, Owns
<1>10. ASSUME NEW u \in Users \cup {Nameless}, UserLoaded(u) PROVE ShownStored'
  BY <1>10 DEF UserLoaded, Publish, SnapshotOf, Owns
<1>11. CASE Expire
  BY <1>11 DEF Expire, Owns
<1>12. CASE AccessTokenExpired
  BY <1>12 DEF AccessTokenExpired, Publish, Owns
<1>13. CASE Logout
  BY <1>13 DEF Logout, Invalidate, Publish, Owns
<1>14. ASSUME NEW q \in Reqs, Request(q) PROVE ShownStored'
  BY <1>14 DEF Request, Owns
<1>15. ASSUME NEW q \in Reqs, GetAccessToken(q) PROVE ShownStored'
  BY <1>15 DEF GetAccessToken, Owns
<1>16. ASSUME NEW q \in Reqs, Fetch(q) PROVE ShownStored'
  BY <1>16 DEF Fetch, NoReq, Owns
<1>17. ASSUME NEW q \in Reqs, Answered(q) PROVE ShownStored'
  BY <1>17 DEF Answered, NoReq, Owns
<1>18. ASSUME NEW q \in Reqs, Unauthorised(q) PROVE ShownStored'
  BY <1>18 DEF Unauthorised, NoReq, Invalidate, Publish, Owns
<1>19. CASE UNCHANGED vars
  BY <1>19 DEF vars, Owns
<1> QED
  BY <1>1, <1>2, <1>3, <1>4, <1>5, <1>6, <1>7, <1>8, <1>9, <1>10, <1>11, <1>12, <1>13, <1>14, <1>15, <1>16, <1>17, <1>18, <1>19 DEF Next, Startup

(* Every snapshot published takes the page out of its first revision. *)
LEMMA FirstStep == IInv /\ [Next]_vars => FirstRevision'
<1> SUFFICES ASSUME IInv, [Next]_vars PROVE FirstRevision'
  OBVIOUS
<1> USE UsersAssumption DEF IInv, States, TypeOK, OpRec, CredRec, ReqRec, Owners, FirstRevision
<1>1. CASE Load
  BY <1>1 DEF Load, NoOp, NoReq
<1>2. ASSUME NEW i \in Ops, Mount(i) PROVE FirstRevision'
  BY <1>2 DEF Mount, Begin
<1>3. ASSUME NEW i \in Ops, ExchangeFails(i) PROVE FirstRevision'
  BY <1>3 DEF ExchangeFails, Done, NoOp, Publish, Owns
<1>4. ASSUME NEW i \in Ops, Exchanged(i) PROVE FirstRevision'
  BY <1>4 DEF Exchanged, Done, NoOp, Publish, Owns, Remove, NoCred
<1>5. ASSUME NEW i \in Ops, Cleared(i) PROVE FirstRevision'
  BY <1>5 DEF Cleared, Done, NoOp, Publish, Owns, SnapshotOf
<1>6. ASSUME NEW i \in Ops, NEW expired \in BOOLEAN, Exchange(i, expired) PROVE FirstRevision'
  BY <1>6 DEF Exchange, Owns
<1>7. ASSUME NEW i \in Ops, Lookup(i) PROVE FirstRevision'
  BY <1>7 DEF Lookup
<1>8. ASSUME NEW i \in Ops, Looked(i) PROVE FirstRevision'
  BY <1>8 DEF Looked, Done, NoOp, Publish, Owns, SnapshotOf
<1>9. CASE Removal
  BY <1>9 DEF Removal, Remove, NoCred
<1>10. ASSUME NEW u \in Users \cup {Nameless}, UserLoaded(u) PROVE FirstRevision'
  BY <1>10 DEF UserLoaded, Publish, SnapshotOf
<1>11. CASE Expire
  BY <1>11 DEF Expire
<1>12. CASE AccessTokenExpired
  BY <1>12 DEF AccessTokenExpired, Publish
<1>13. CASE Logout
  BY <1>13 DEF Logout, Invalidate, Publish
<1>14. ASSUME NEW q \in Reqs, Request(q) PROVE FirstRevision'
  BY <1>14 DEF Request
<1>15. ASSUME NEW q \in Reqs, GetAccessToken(q) PROVE FirstRevision'
  BY <1>15 DEF GetAccessToken
<1>16. ASSUME NEW q \in Reqs, Fetch(q) PROVE FirstRevision'
  BY <1>16 DEF Fetch, NoReq
<1>17. ASSUME NEW q \in Reqs, Answered(q) PROVE FirstRevision'
  BY <1>17 DEF Answered, NoReq
<1>18. ASSUME NEW q \in Reqs, Unauthorised(q) PROVE FirstRevision'
  BY <1>18 DEF Unauthorised, NoReq, Invalidate, Publish
<1>19. CASE UNCHANGED vars
  BY <1>19 DEF vars
<1> QED
  BY <1>1, <1>2, <1>3, <1>4, <1>5, <1>6, <1>7, <1>8, <1>9, <1>10, <1>11, <1>12, <1>13, <1>14, <1>15, <1>16, <1>17, <1>18, <1>19 DEF Next, Startup

(* The last removal leaves only what is newer than its sign-out. *)
LEMMA RemovedStep == IInv /\ [Next]_vars => Removed'
<1> SUFFICES ASSUME IInv, [Next]_vars PROVE Removed'
  OBVIOUS
<1> USE UsersAssumption DEF IInv, States, TypeOK, OpRec, CredRec, ReqRec, Owners, Removed, FirstRevision, OpsOrdered, Active
<1>1. CASE Load
  BY <1>1 DEF Load, NoOp, NoReq, Owns
<1>2. ASSUME NEW i \in Ops, Mount(i) PROVE Removed'
  BY <1>2 DEF Mount, Begin, Owns
<1>3. ASSUME NEW i \in Ops, ExchangeFails(i) PROVE Removed'
  BY <1>3 DEF ExchangeFails, Done, NoOp, Publish, Owns
<1>4. ASSUME NEW i \in Ops, Exchanged(i) PROVE Removed'
  BY <1>4 DEF Exchanged, Done, NoOp, Publish, Owns, Remove, NoCred
<1>5. ASSUME NEW i \in Ops, Cleared(i) PROVE Removed'
  BY <1>5 DEF Cleared, Done, NoOp, Publish, Owns, SnapshotOf
<1>6. ASSUME NEW i \in Ops, NEW expired \in BOOLEAN, Exchange(i, expired) PROVE Removed'
  BY <1>6 DEF Exchange, Owns
<1>7. ASSUME NEW i \in Ops, Lookup(i) PROVE Removed'
  BY <1>7 DEF Lookup, Owns
<1>8. ASSUME NEW i \in Ops, Looked(i) PROVE Removed'
  BY <1>8 DEF Looked, Done, NoOp, Publish, Owns, SnapshotOf
<1>9. CASE Removal
  BY <1>9 DEF Removal, Remove, NoCred, Owns
<1>10. ASSUME NEW u \in Users \cup {Nameless}, UserLoaded(u) PROVE Removed'
  BY <1>10 DEF UserLoaded, Publish, SnapshotOf, Owns
<1>11. CASE Expire
  BY <1>11 DEF Expire, Owns
<1>12. CASE AccessTokenExpired
  BY <1>12 DEF AccessTokenExpired, Publish, Owns
<1>13. CASE Logout
  BY <1>13 DEF Logout, Invalidate, Publish, Owns
<1>14. ASSUME NEW q \in Reqs, Request(q) PROVE Removed'
  BY <1>14 DEF Request, Owns
<1>15. ASSUME NEW q \in Reqs, GetAccessToken(q) PROVE Removed'
  BY <1>15 DEF GetAccessToken, Owns
<1>16. ASSUME NEW q \in Reqs, Fetch(q) PROVE Removed'
  BY <1>16 DEF Fetch, NoReq, Owns
<1>17. ASSUME NEW q \in Reqs, Answered(q) PROVE Removed'
  BY <1>17 DEF Answered, NoReq, Owns
<1>18. ASSUME NEW q \in Reqs, Unauthorised(q) PROVE Removed'
  BY <1>18 DEF Unauthorised, NoReq, Invalidate, Publish, Owns
<1>19. CASE UNCHANGED vars
  BY <1>19 DEF vars, Owns
<1> QED
  BY <1>1, <1>2, <1>3, <1>4, <1>5, <1>6, <1>7, <1>8, <1>9, <1>10, <1>11, <1>12, <1>13, <1>14, <1>15, <1>16, <1>17, <1>18, <1>19 DEF Next, Startup

(* A new operation takes the next sequence. *)
LEMMA OpsStep == IInv /\ [Next]_vars => OpsOrdered'
<1> SUFFICES ASSUME IInv, [Next]_vars PROVE OpsOrdered'
  OBVIOUS
<1> USE UsersAssumption DEF IInv, States, TypeOK, OpRec, CredRec, ReqRec, Owners, OpsOrdered, FirstRevision, Active
<1>1. CASE Load
  BY <1>1 DEF Load, NoOp, NoReq
<1>2. ASSUME NEW i \in Ops, Mount(i) PROVE OpsOrdered'
  BY <1>2 DEF Mount, Begin
<1>3. ASSUME NEW i \in Ops, ExchangeFails(i) PROVE OpsOrdered'
  BY <1>3 DEF ExchangeFails, Done, NoOp, Publish, Owns
<1>4. ASSUME NEW i \in Ops, Exchanged(i) PROVE OpsOrdered'
  BY <1>4 DEF Exchanged, Done, NoOp, Publish, Owns, Remove, NoCred
<1>5. ASSUME NEW i \in Ops, Cleared(i) PROVE OpsOrdered'
  BY <1>5 DEF Cleared, Done, NoOp, Publish, Owns, SnapshotOf
<1>6. ASSUME NEW i \in Ops, NEW expired \in BOOLEAN, Exchange(i, expired) PROVE OpsOrdered'
  BY <1>6 DEF Exchange, Owns
<1>7. ASSUME NEW i \in Ops, Lookup(i) PROVE OpsOrdered'
  BY <1>7 DEF Lookup
<1>8. ASSUME NEW i \in Ops, Looked(i) PROVE OpsOrdered'
  BY <1>8 DEF Looked, Done, NoOp, Publish, Owns, SnapshotOf
<1>9. CASE Removal
  BY <1>9 DEF Removal, Remove, NoCred
<1>10. ASSUME NEW u \in Users \cup {Nameless}, UserLoaded(u) PROVE OpsOrdered'
  BY <1>10 DEF UserLoaded, Publish, SnapshotOf
<1>11. CASE Expire
  BY <1>11 DEF Expire
<1>12. CASE AccessTokenExpired
  BY <1>12 DEF AccessTokenExpired, Publish
<1>13. CASE Logout
  BY <1>13 DEF Logout, Invalidate, Publish
<1>14. ASSUME NEW q \in Reqs, Request(q) PROVE OpsOrdered'
  BY <1>14 DEF Request
<1>15. ASSUME NEW q \in Reqs, GetAccessToken(q) PROVE OpsOrdered'
  BY <1>15 DEF GetAccessToken
<1>16. ASSUME NEW q \in Reqs, Fetch(q) PROVE OpsOrdered'
  BY <1>16 DEF Fetch, NoReq
<1>17. ASSUME NEW q \in Reqs, Answered(q) PROVE OpsOrdered'
  BY <1>17 DEF Answered, NoReq
<1>18. ASSUME NEW q \in Reqs, Unauthorised(q) PROVE OpsOrdered'
  BY <1>18 DEF Unauthorised, NoReq, Invalidate, Publish
<1>19. CASE UNCHANGED vars
  BY <1>19 DEF vars
<1> QED
  BY <1>1, <1>2, <1>3, <1>4, <1>5, <1>6, <1>7, <1>8, <1>9, <1>10, <1>11, <1>12, <1>13, <1>14, <1>15, <1>16, <1>17, <1>18, <1>19 DEF Next, Startup

(* Nobody but the owner writes what the owner has read. *)
LEMMA OwnerStep == IInv /\ [Next]_vars => OwnerStored'
<1> SUFFICES ASSUME IInv, [Next]_vars PROVE OwnerStored'
  OBVIOUS
<1> USE UsersAssumption DEF IInv, States, TypeOK, OpRec, CredRec, ReqRec, Owners, OwnerStored, OpsOrdered, FirstRevision, Active
<1>1. CASE Load
  BY <1>1 DEF Load, NoOp, NoReq, Owns
<1>2. ASSUME NEW i \in Ops, Mount(i) PROVE OwnerStored'
  BY <1>2 DEF Mount, Begin, Owns
<1>3. ASSUME NEW i \in Ops, ExchangeFails(i) PROVE OwnerStored'
  BY <1>3 DEF ExchangeFails, Done, NoOp, Publish, Owns
<1>4. ASSUME NEW i \in Ops, Exchanged(i) PROVE OwnerStored'
  BY <1>4 DEF Exchanged, Done, NoOp, Publish, Owns, Remove, NoCred
<1>5. ASSUME NEW i \in Ops, Cleared(i) PROVE OwnerStored'
  BY <1>5 DEF Cleared, Done, NoOp, Publish, Owns, SnapshotOf
<1>6. ASSUME NEW i \in Ops, NEW expired \in BOOLEAN, Exchange(i, expired) PROVE OwnerStored'
  BY <1>6 DEF Exchange, Owns
<1>7. ASSUME NEW i \in Ops, Lookup(i) PROVE OwnerStored'
  BY <1>7 DEF Lookup, Owns
<1>8. ASSUME NEW i \in Ops, Looked(i) PROVE OwnerStored'
  BY <1>8 DEF Looked, Done, NoOp, Publish, Owns, SnapshotOf
<1>9. CASE Removal
  BY <1>9 DEF Removal, Remove, NoCred, Owns
<1>10. ASSUME NEW u \in Users \cup {Nameless}, UserLoaded(u) PROVE OwnerStored'
  BY <1>10 DEF UserLoaded, Publish, SnapshotOf, Owns
<1>11. CASE Expire
  BY <1>11 DEF Expire, Owns
<1>12. CASE AccessTokenExpired
  BY <1>12 DEF AccessTokenExpired, Publish, Owns
<1>13. CASE Logout
  BY <1>13 DEF Logout, Invalidate, Publish, Owns
<1>14. ASSUME NEW q \in Reqs, Request(q) PROVE OwnerStored'
  BY <1>14 DEF Request, Owns
<1>15. ASSUME NEW q \in Reqs, GetAccessToken(q) PROVE OwnerStored'
  BY <1>15 DEF GetAccessToken, Owns
<1>16. ASSUME NEW q \in Reqs, Fetch(q) PROVE OwnerStored'
  BY <1>16 DEF Fetch, NoReq, Owns
<1>17. ASSUME NEW q \in Reqs, Answered(q) PROVE OwnerStored'
  BY <1>17 DEF Answered, NoReq, Owns
<1>18. ASSUME NEW q \in Reqs, Unauthorised(q) PROVE OwnerStored'
  BY <1>18 DEF Unauthorised, NoReq, Invalidate, Publish, Owns
<1>19. CASE UNCHANGED vars
  BY <1>19 DEF vars, Owns
<1> QED
  BY <1>1, <1>2, <1>3, <1>4, <1>5, <1>6, <1>7, <1>8, <1>9, <1>10, <1>11, <1>12, <1>13, <1>14, <1>15, <1>16, <1>17, <1>18, <1>19 DEF Next, Startup

(* A new snapshot leaves every request behind. *)
LEMMA RequestStep == IInv /\ [Next]_vars => RequestsOwned'
<1> SUFFICES ASSUME IInv, [Next]_vars PROVE RequestsOwned'
  OBVIOUS
<1> USE UsersAssumption DEF IInv, States, TypeOK, OpRec, CredRec, ReqRec, Owners, RequestsOwned, ShownStored
<1>1. CASE Load
  BY <1>1 DEF Load, NoOp, NoReq
<1>2. ASSUME NEW i \in Ops, Mount(i) PROVE RequestsOwned'
  BY <1>2 DEF Mount, Begin
<1>3. ASSUME NEW i \in Ops, ExchangeFails(i) PROVE RequestsOwned'
  BY <1>3 DEF ExchangeFails, Done, NoOp, Publish, Owns
<1>4. ASSUME NEW i \in Ops, Exchanged(i) PROVE RequestsOwned'
  BY <1>4 DEF Exchanged, Done, NoOp, Publish, Owns, Remove, NoCred
<1>5. ASSUME NEW i \in Ops, Cleared(i) PROVE RequestsOwned'
  BY <1>5 DEF Cleared, Done, NoOp, Publish, Owns, SnapshotOf
<1>6. ASSUME NEW i \in Ops, NEW expired \in BOOLEAN, Exchange(i, expired) PROVE RequestsOwned'
  BY <1>6 DEF Exchange, Owns
<1>7. ASSUME NEW i \in Ops, Lookup(i) PROVE RequestsOwned'
  BY <1>7 DEF Lookup
<1>8. ASSUME NEW i \in Ops, Looked(i) PROVE RequestsOwned'
  BY <1>8 DEF Looked, Done, NoOp, Publish, Owns, SnapshotOf
<1>9. CASE Removal
  BY <1>9 DEF Removal, Remove, NoCred
<1>10. ASSUME NEW u \in Users \cup {Nameless}, UserLoaded(u) PROVE RequestsOwned'
  BY <1>10 DEF UserLoaded, Publish, SnapshotOf
<1>11. CASE Expire
  BY <1>11 DEF Expire
<1>12. CASE AccessTokenExpired
  BY <1>12 DEF AccessTokenExpired, Publish
<1>13. CASE Logout
  BY <1>13 DEF Logout, Invalidate, Publish
<1>14. ASSUME NEW q \in Reqs, Request(q) PROVE RequestsOwned'
  BY <1>14 DEF Request
<1>15. ASSUME NEW q \in Reqs, GetAccessToken(q) PROVE RequestsOwned'
  BY <1>15 DEF GetAccessToken
<1>16. ASSUME NEW q \in Reqs, Fetch(q) PROVE RequestsOwned'
  BY <1>16 DEF Fetch, NoReq
<1>17. ASSUME NEW q \in Reqs, Answered(q) PROVE RequestsOwned'
  BY <1>17 DEF Answered, NoReq
<1>18. ASSUME NEW q \in Reqs, Unauthorised(q) PROVE RequestsOwned'
  BY <1>18 DEF Unauthorised, NoReq, Invalidate, Publish
<1>19. CASE UNCHANGED vars
  BY <1>19 DEF vars
<1> QED
  BY <1>1, <1>2, <1>3, <1>4, <1>5, <1>6, <1>7, <1>8, <1>9, <1>10, <1>11, <1>12, <1>13, <1>14, <1>15, <1>16, <1>17, <1>18, <1>19 DEF Next, Startup

-----------------------------------------------------------------------------
(* The invariant holds when the page is loaded. *)
LEMMA InitInv == Init => IInv
<1> SUFFICES ASSUME Init PROVE IInv
  OBVIOUS
<1> USE UsersAssumption DEF Init, Fresh, NoOp, NoReq, NoCred, States
<1>1. TypeOK
  <2>1. NoCred \in CredRec /\ NoOp \in OpRec /\ NoReq \in ReqRec
    BY DEF CredRec, OpRec, ReqRec, Owners
  <2>2. stored \in CredRec
    BY <2>1 DEF CredRec, Owners
  <2>3. op \in [Ops -> OpRec] /\ req \in [Reqs -> ReqRec]
    BY <2>1
  <2> QED
    BY <2>2, <2>3 DEF TypeOK, Owners
<1>2. ShownStored /\ FirstRevision /\ Removed
  BY DEF ShownStored, FirstRevision, Removed
<1>3. OpsOrdered /\ OwnerStored /\ RequestsOwned
  BY DEF OpsOrdered, OwnerStored, RequestsOwned, Active
<1> QED
  BY <1>1, <1>2, <1>3 DEF IInv

(* And is kept by every step. *)
LEMMA StepInv == IInv /\ [Next]_vars => IInv'
BY TypeStep, ShownStep, FirstStep, RemovedStep, OpsStep, OwnerStep, RequestStep DEF IInv

(* The user shown is the one whose credential is stored, and no sign-out    *)
(* leaves behind what it was to remove, for any users, requests and number  *)
(* of revisions (auth.ts:43-104, 255-280, 491-510).                         *)
THEOREM CredentialOwned == Spec => []Inv
<1>1. IInv => Inv
  BY DEF IInv, Inv, OwnCredential, ShownStored, Removed
<1> QED
  BY InitInv, StepInv, <1>1, PTL DEF Spec

(* A step that sends a request, or signs out for one, is for its user. *)
LEMMA RequestKept ==
  IInv /\ [Next]_vars =>
    [\A q \in Reqs :
       /\ req[q].pc = "read" /\ req'[q].pc = "sent" =>
            snap = req[q].who /\ req[q].token \in {req[q].who, None}
       /\ req[q].pc = "sent" /\ req'[q].pc = "idle" /\ snap \in Users /\ snap' = "anonymous" =>
            snap = req[q].who]_vars
<1> DEFINE A == \A q \in Reqs :
       /\ req[q].pc = "read" /\ req'[q].pc = "sent" =>
            snap = req[q].who /\ req[q].token \in {req[q].who, None}
       /\ req[q].pc = "sent" /\ req'[q].pc = "idle" /\ snap \in Users /\ snap' = "anonymous" =>
            snap = req[q].who
<1> SUFFICES ASSUME IInv, [Next]_vars PROVE [A]_vars
  OBVIOUS
<1> USE UsersAssumption DEF IInv, TypeOK, OpRec, CredRec, ReqRec, Owners, States, RequestsOwned
<1>1. CASE UNCHANGED req
  BY <1>1
<1>2. CASE Load
  BY <1>2 DEF Load, NoReq
<1>3. ASSUME NEW q \in Reqs, Request(q) PROVE A
  BY <1>3 DEF Request
<1>4. ASSUME NEW q \in Reqs, GetAccessToken(q) PROVE A
  BY <1>4 DEF GetAccessToken
<1>5. ASSUME NEW q \in Reqs, Fetch(q) PROVE A
  BY <1>5 DEF Fetch, NoReq
<1>6. ASSUME NEW q \in Reqs, Answered(q) PROVE A
  BY <1>6 DEF Answered, NoReq
<1>7. ASSUME NEW q \in Reqs, Unauthorised(q) PROVE A
  BY <1>7 DEF Unauthorised, NoReq, Invalidate, Publish
<1>8. Removal \/ Startup \/ (\E u \in Users \cup {Nameless} : UserLoaded(u)) \/ Expire
        \/ AccessTokenExpired \/ Logout => UNCHANGED req
  BY DEF Removal, Startup, Mount, ExchangeFails, Exchanged, Cleared, Exchange, Lookup, Looked,
     UserLoaded, Expire, AccessTokenExpired, Logout
<1> HIDE DEF A
<1> QED
  BY <1>1, <1>2, <1>3, <1>4, <1>5, <1>6, <1>7, <1>8 DEF Next, vars

(* A request goes out as the user it was begun for and signs out nobody     *)
(* else, for any users, requests and number of revisions (api.ts:52-58, 86; *)
(* auth.ts:491-494).                                                        *)
THEOREM OwnRequests == Spec => RequestAsItself
<1>1. Spec => []IInv
  BY InitInv, StepInv, PTL DEF Spec
<1> QED
  BY <1>1, RequestKept, PTL DEF Spec, RequestAsItself

-----------------------------------------------------------------------------
(* The settings: their types, *)

Numbers == 0..MaxChoices
Somebody == Accounts \cup {NoAccount}
PutStates == {"none", "sent", "applied", "done", "lost", "told", "late"}
ChoiceRec == [who : Somebody, ctx : Contexts]
GetRec == [st : {"idle", "sent", "read"}, who : Somebody, ctx : Contexts,
           conflict : BOOLEAN, start : Numbers, read : Numbers]
SaveRec == [st : {"idle", "sent"}, who : Somebody, ctx : Contexts]
Intents == [seq : Numbers, ready : BOOLEAN]
Trackers == [latest : Numbers, synced : Numbers]
Pages == [settings : Somebody, loading : BOOLEAN, saving : BOOLEAN]

StoreTypes ==
  /\ user \in Somebody
  /\ chosen \in Numbers /\ theme \in Numbers /\ timer \in Numbers /\ slot \in Numbers
  /\ choice \in [Choices -> ChoiceRec] /\ put \in [Choices -> PutStates]
  /\ pending \in Intents /\ tracker \in Trackers
  /\ get \in [Gets -> GetRec] /\ loader \in Gets \cup {NoCall}
  /\ save \in [Saves -> SaveRec] /\ saver \in Saves \cup {NoCall}
  /\ page \in Pages /\ server \in [Accounts -> Numbers]

FormTypes ==
  /\ open \in BOOLEAN /\ edited \in BOOLEAN
  /\ asked \in Saves \cup {NoCall} /\ notice \in {"none", "saved", "error"}

\* What has not been chosen has left no trace, and what may still be heard of
\* is the account's.
SettingsKnown ==
  /\ \A n \in Choices : n > chosen => put[n] = "none"
  /\ \A n \in Choices : choice[n].ctx # "dead" => choice[n].who = user /\ user # NoAccount
  /\ \A f \in Gets : get[f].ctx = "live" => get[f].who = user /\ user # NoAccount
  /\ \A f \in Gets : get[f].st = "sent" => get[f].ctx = "live"
  /\ theme <= chosen
  /\ \A u \in Accounts : server[u] <= chosen
  /\ \A f \in Gets : get[f].read <= chosen /\ get[f].start <= chosen

\* The theme that waits is the last one chosen, and has not been sent; nor
\* has the last one while another's PUT is waited for.
ThemeTurns ==
  /\ pending.seq # 0 => pending.seq = chosen /\ put[chosen] = "none"
  /\ slot # 0 /\ slot # chosen => put[chosen] = "none"

\* What the tracker says of the last choice.
TrackerTrue ==
  /\ tracker.latest > 0 => tracker.latest = chosen /\ choice[chosen].ctx = "live"
  /\ tracker.synced <= tracker.latest
  /\ tracker.latest > 0 /\ tracker.synced = tracker.latest => put[chosen] \in {"done", "told", "late"}

\* The last choice, once the server has it, is replaced there by nothing but
\* a PUT that was given up.
LastStored ==
  \A n \in Choices :
    n = chosen /\ choice[n].ctx # "dead" /\ put[n] \in {"applied", "done"} =>
      server[user] = n \/ Abandoned(server[user])

LastShown ==
  tracker.latest > 0 =>
    \/ theme = tracker.latest
    \/ tracker.synced = tracker.latest /\ (Abandoned(theme) \/ Abandoned(tracker.latest))

\* A load that may yet replace the theme began when the last choice was
\* confirmed, and brings it if it was committed by then.
LoadsHarmless ==
  \A f \in Gets :
    get[f].ctx = "live" /\ ~get[f].conflict /\ tracker.latest > 0 /\ get[f].start = tracker.latest =>
      /\ tracker.synced = tracker.latest
      /\ get[f].st = "read" =>
           get[f].read = tracker.latest \/ Abandoned(get[f].read) \/ Abandoned(tracker.latest)

SettingsIInv ==
  /\ StoreTypes /\ FormTypes /\ SlotsMeanWork /\ OneWriter /\ NobodyForgets /\ NoticesAsked
  /\ SettingsKnown /\ ThemeTurns /\ TrackerTrue
  /\ LastStored /\ LastShown /\ LoadsHarmless

LoadStep == \E f \in Gets : FetchSettings(f) \/ GetRead(f) \/ GetAnswered(f) \/ GetFails(f)
SaveStep == \E s \in Saves : UpdateSettings(s) \/ \E a \in BOOLEAN : SaveSettles(s, a)
ThemeStep == SetTheme \/ DebounceEnds \/ \E n \in Choices : PutApplied(n) \/ PutAnswered(n) \/ PutFails(n)
AccountStep == Renew \/ SignOut \/ \E u \in Accounts, f \in Gets : SignIn(u, f)

(* The drawer does nothing to the store but by its operations. *)
LEMMA StoreStep ==
  [DrawerNext]_drawerVars =>
    AccountStep \/ ThemeStep \/ LoadStep \/ SaveStep \/ UNCHANGED settingsVars
BY DEF DrawerNext, drawerVars, AccountStep, ThemeStep, LoadStep, SaveStep, Depart, RenewToken, CloseDrawer,
   PickTheme, Edit, NoticeEnds, Paused, Arrive, OpenDrawer, GetEnds, PutEnds, Save, SaveEnds

(* The drawer's own variables keep their types. *)
LEMMA FormStep == FormTypes /\ [DrawerNext]_drawerVars => FormTypes'
BY DEF FormTypes, DrawerNext, drawerVars, formVars, Depart, RenewToken, CloseDrawer, PickTheme, Edit,
   NoticeEnds, Paused, Arrive, OpenDrawer, GetEnds, PutEnds, Save, SaveEnds, Unmounted, Hydrated, HydratedIf

(* The store gives up a save when it settles and when its account leaves, *)
(* and the drawer then asks for it no longer.                             *)
LEMMA NoticesStep ==
  ASSUME FormTypes, NoticesAsked, [DrawerNext]_drawerVars PROVE NoticesAsked'
<1> USE DEF NoticesAsked
<1>1. ASSUME Unmounted PROVE NoticesAsked'
  BY <1>1 DEF Unmounted
<1>2. ASSUME UNCHANGED <<saver, open, asked>>, notice' \in {notice, "none"} PROVE NoticesAsked'
  BY <1>2
<1>3. ASSUME NEW c, UNCHANGED saver, HydratedIf(c) PROVE NoticesAsked'
  BY <1>2, <1>3 DEF HydratedIf, Hydrated, formVars
<1>4. CASE Depart \/ \E u \in Accounts, f \in Gets : Arrive(u, f)
  BY <1>1, <1>4 DEF Depart, Arrive
<1>5. CASE RenewToken \/ PickTheme \/ Edit \/ NoticeEnds \/ Paused \/ UNCHANGED drawerVars
  BY <1>2, <1>5 DEF RenewToken, PickTheme, Edit, NoticeEnds, Paused, Renew, SetTheme, DebounceEnds,
     drawerVars, settingsVars, formVars
<1>6. CASE CloseDrawer \/ \E f \in Gets : OpenDrawer(f)
  BY <1>6 DEF CloseDrawer, OpenDrawer
<1>7. ASSUME NEW f \in Gets, GetEnds(f) \/ (GetRead(f) /\ UNCHANGED formVars) PROVE NoticesAsked'
  BY <1>2, <1>3, <1>7 DEF GetEnds, GetRead, GetAnswered, GetFails, Loaded, formVars
<1>8. ASSUME NEW n \in Choices, PutEnds(n) \/ (PutApplied(n) /\ UNCHANGED formVars) PROVE NoticesAsked'
  BY <1>2, <1>3, <1>8 DEF PutEnds, PutApplied, PutAnswered, PutFails, formVars
<1>9. ASSUME NEW s \in Saves, Save(s) PROVE NoticesAsked'
  BY <1>9 DEF Save, UpdateSettings
<1>10. ASSUME NEW s \in Saves, NEW a \in BOOLEAN, NEW v \in BOOLEAN, SaveEnds(s, a, v) PROVE NoticesAsked'
  BY <1>10, SettingsRequests DEF SaveEnds, SaveSettles, SaveCounts
<1> QED
  BY <1>4, <1>5, <1>6, <1>7, <1>8, <1>9, <1>10 DEF DrawerNext

(* What is dispatched is the theme that waited, and only if it is live. *)
LEMMA Dispatched ==
  ASSUME NEW sl, NEW pd, NEW pt, Dispatch(sl, pd, pt)
  PROVE \/ slot' = sl /\ pending' = pd /\ put' = pt /\ (sl # 0 \/ pd.seq = 0 \/ ~pd.ready)
        \/ /\ sl = 0 /\ pd.seq # 0 /\ pending' = NoIntent
           /\ \/ choice[pd.seq].ctx = "live" /\ slot' = pd.seq /\ put' = [pt EXCEPT ![pd.seq] = "sent"]
              \/ choice[pd.seq].ctx # "live" /\ slot' = 0 /\ put' = pt
BY DEF Dispatch

(* What waits takes the slot or leaves it as it was. *)
LEMMA DispatchedTypes ==
  ASSUME NEW sl \in Numbers, NEW pd \in Intents, NEW pt \in [Choices -> PutStates],
         Dispatch(sl, pd, pt)
  PROVE slot' \in Numbers /\ pending' \in Intents /\ put' \in [Choices -> PutStates]
<1>1. NoIntent \in Intents /\ 0 \in Numbers /\ pd.seq \in Numbers
  BY SettingsChoices DEF NoIntent, Intents, Numbers
<1>2. [pt EXCEPT ![pd.seq] = "sent"] \in [Choices -> PutStates]
  BY DEF PutStates
<1> QED
  BY <1>1, <1>2 DEF Dispatch

(* The records the store begins with. *)
LEMMA BlankTypes ==
  /\ 0 \in Numbers /\ NoIntent \in Intents /\ NoTracker \in Trackers /\ NoGet \in GetRec
  /\ NoSave \in SaveRec /\ Blank \in Pages /\ NoAccount \in Somebody
BY SettingsChoices DEF NoIntent, Intents, Numbers, NoTracker, Trackers, NoGet, GetRec, NoSave,
   SaveRec, Blank, Pages, Somebody, Contexts

(* A context that ages keeps its record's type. *)
LEMMA AgedTypes ==
  ASSUME NEW c \in Contexts
  PROVE /\ \A r \in ChoiceRec : [r EXCEPT !.ctx = c] \in ChoiceRec
        /\ \A r \in SaveRec : [r EXCEPT !.ctx = c] \in SaveRec
        /\ \A f \in Gets : get[f] \in GetRec => Stale(f, c) \in GetRec
<1>1. \A r \in ChoiceRec : [r EXCEPT !.ctx = c] \in ChoiceRec
  BY DEF ChoiceRec
<1>2. \A r \in SaveRec : [r EXCEPT !.ctx = c] \in SaveRec
  BY DEF SaveRec
<1>3. ASSUME NEW f \in Gets, get[f] \in GetRec PROVE Stale(f, c) \in GetRec
  BY <1>3, BlankTypes DEF Stale, GetRec, NoGet
<1> QED
  BY <1>1, <1>2, <1>3

(* Every step of the store keeps its types. *)
LEMMA StoreTypesStep ==
  ASSUME StoreTypes, SettingsKnown, AccountStep \/ ThemeStep \/ LoadStep \/ SaveStep \/ UNCHANGED settingsVars
  PROVE StoreTypes'
<1> USE SettingsChoices, BlankTypes DEF StoreTypes
<1>0. "live" \in Contexts /\ "renewed" \in Contexts /\ "dead" \in Contexts
  BY DEF Contexts
<1>1. CASE Renew
  <2>1. choice' \in [Choices -> ChoiceRec] /\ save' \in [Saves -> SaveRec]
    BY <1>0, <1>1, AgedTypes DEF Renew, Aged
  <2>2. get' \in [Gets -> GetRec]
    BY <1>0, <1>1, AgedTypes DEF Renew
  <2> QED
    BY <1>1, <2>1, <2>2 DEF Renew
<1>2. Reset => /\ choice' \in [Choices -> ChoiceRec] /\ save' \in [Saves -> SaveRec]
               /\ pending' \in Intents /\ slot' \in Numbers /\ tracker' \in Trackers
               /\ timer' \in Numbers /\ saver' \in Saves \cup {NoCall}
               /\ UNCHANGED <<chosen, theme, put, server>>
  BY <1>0, AgedTypes DEF Reset, Dead
<1>3. CASE SignOut
  <2>1. get' \in [Gets -> GetRec]
    BY <1>0, <1>3, AgedTypes DEF SignOut
  <2> QED
    BY <1>2, <1>3, <2>1 DEF SignOut
<1>4. ASSUME NEW u \in Accounts, NEW f \in Gets, SignIn(u, f) PROVE StoreTypes'
  <2>1. u \in Somebody
    BY DEF Somebody
  <2>2. [NoGet EXCEPT !.st = "sent", !.who = u, !.ctx = "live"] \in GetRec
    BY <1>0, <2>1 DEF NoGet, GetRec
  <2>3. get' \in [Gets -> GetRec]
    BY <1>0, <1>4, <2>2, AgedTypes DEF SignIn
  <2>4. [Blank EXCEPT !.loading = TRUE] \in Pages
    BY DEF Blank, Pages
  <2> QED
    BY <1>2, <1>4, <2>1, <2>3, <2>4 DEF SignIn
<1>5. CASE SetTheme
  <2>1. chosen + 1 \in Numbers /\ chosen + 1 \in Choices
    BY <1>5 DEF SetTheme, Choices, Numbers
  <2>2. [who |-> user, ctx |-> "live"] \in ChoiceRec /\ [seq |-> chosen + 1, ready |-> FALSE] \in Intents
        /\ [tracker EXCEPT !.latest = chosen + 1] \in Trackers
    BY <1>0, <2>1 DEF ChoiceRec, Intents, Trackers
  <2> QED
    BY <1>5, <2>1, <2>2 DEF SetTheme
<1>6. CASE DebounceEnds
  <2>1. [pending EXCEPT !.ready = TRUE] \in Intents
    BY DEF Intents
  <2>2. slot' \in Numbers /\ pending' \in Intents /\ put' \in [Choices -> PutStates]
    BY <1>6, <2>1, DispatchedTypes DEF DebounceEnds
  <2> QED
    BY <1>6, <2>2 DEF DebounceEnds
<1>7. ASSUME NEW n \in Choices, PutApplied(n) PROVE StoreTypes'
  <2>1. n \in Numbers
    BY DEF Choices, Numbers
  <2>2. put' \in [Choices -> PutStates]
    BY <1>7 DEF PutApplied, PutStates
  <2> QED
    BY <1>7, <2>1, <2>2 DEF PutApplied
<1>8. ASSUME NEW n \in Choices, PutAnswered(n) \/ PutFails(n) PROVE StoreTypes'
  <2>1. n \in Numbers
    BY DEF Choices, Numbers
  <2>2. PICK p \in PutStates : Released(n, [put EXCEPT ![n] = p])
    BY <1>8 DEF PutAnswered, PutFails, PutStates
  <2>3. slot' \in Numbers /\ pending' \in Intents /\ put' \in [Choices -> PutStates]
    BY <2>2, DispatchedTypes DEF Released
  <2>4. tracker' \in Trackers
    BY <1>8, <2>1 DEF PutAnswered, PutFails, Trackers
  <2>5. page' \in Pages
    <3>1. choice[n].who \in Somebody
      BY DEF ChoiceRec
    <3> QED
      BY <1>8, <3>1 DEF PutAnswered, PutFails, Pages
  <2> QED
    BY <1>8, <2>3, <2>4, <2>5 DEF PutAnswered, PutFails
<1>9. ASSUME NEW f \in Gets, FetchSettings(f) PROVE StoreTypes'
  <2>1. tracker.latest \in Numbers /\ (tracker.latest > tracker.synced \/ Unsettled) \in BOOLEAN
    BY DEF Trackers, Unsettled
  <2>2. \A c \in BOOLEAN : [NoGet EXCEPT !.st = "sent", !.who = user, !.ctx = "live",
                                          !.conflict = c, !.start = tracker.latest] \in GetRec
    BY <1>0, <2>1 DEF NoGet, GetRec
  <2>3. get' \in [Gets -> GetRec]
    BY <1>9, <2>1, <2>2 DEF FetchSettings
  <2>4. page' \in Pages
    BY <1>9 DEF FetchSettings, Pages
  <2> QED
    BY <1>9, <2>3, <2>4 DEF FetchSettings, themeVars
<1>10. ASSUME NEW f \in Gets, GetRead(f) PROVE StoreTypes'
  <2>1. get[f].who \in Accounts
    BY <1>10 DEF GetRead, SettingsKnown, Somebody
  <2>2. \A r \in GetRec, v \in Numbers : [[r EXCEPT !.st = "read"] EXCEPT !.read = v] \in GetRec
    BY DEF GetRec
  <2>3. get' = [get EXCEPT ![f] = [[get[f] EXCEPT !.st = "read"] EXCEPT !.read = server[get[f].who]]]
    BY <1>10 DEF GetRead
  <2>4. [[get[f] EXCEPT !.st = "read"] EXCEPT !.read = server[get[f].who]] \in GetRec
    BY <2>1, <2>2
  <2>5. get' \in [Gets -> GetRec]
    BY <2>3, <2>4
  <2> QED
    BY <1>10, <2>5 DEF GetRead, themeVars
<1>11. ASSUME NEW f \in Gets, GetAnswered(f) \/ GetFails(f) PROVE StoreTypes'
  <2>1. get[f].read \in Numbers /\ get[f].who \in Somebody /\ page.settings \in Somebody
    BY DEF GetRec, Pages
  <2>2. theme' \in Numbers
    BY <1>11, <2>1 DEF GetAnswered, GetFails
  <2>3. PICK x \in Somebody : Loaded(f, x)
    BY <1>11, <2>1 DEF GetAnswered, GetFails
  <2>4. page' \in Pages
    BY <2>3 DEF Loaded, Pages
  <2> QED
    BY <2>2, <2>3, <2>4 DEF Loaded, themeVars
<1>12. ASSUME NEW s \in Saves, UpdateSettings(s) PROVE StoreTypes'
  <2>1. [st |-> "sent", who |-> user, ctx |-> "live"] \in SaveRec
    BY <1>0 DEF SaveRec
  <2>2. [page EXCEPT !.saving = TRUE] \in Pages
    BY DEF Pages
  <2> QED
    BY <1>12, <2>1, <2>2 DEF UpdateSettings, themeVars
<1>13. ASSUME NEW s \in Saves, NEW a \in BOOLEAN, SaveSettles(s, a) PROVE StoreTypes'
  <2>1. page' \in Pages
    BY <1>13 DEF SaveSettles, Pages, SaveRec
  <2> QED
    BY <1>13, <2>1 DEF SaveSettles, themeVars
<1>14. CASE UNCHANGED settingsVars
  BY <1>14 DEF settingsVars, themeVars
<1> QED
  BY <1>1, <1>3, <1>4, <1>5, <1>6, <1>7, <1>8, <1>9, <1>10, <1>11, <1>12, <1>13, <1>14
     DEF AccountStep, ThemeStep, LoadStep, SaveStep

(* Choices are numbered from 1; 0 is no choice. *)
LEMMA ChoiceNumbers ==
  /\ \A n \in Choices : n \in Numbers /\ n \in Nat /\ n # 0
  /\ \A n \in Numbers : n \in Nat /\ (n # 0 => n \in Choices)
BY SettingsChoices DEF Choices, Numbers

\* When a PUT ends, the slot was another's, or is free, or is the next one's.
FreedBy(n, p) ==
  \/ slot # n /\ UNCHANGED <<slot, pending>> /\ put' = [put EXCEPT ![n] = p]
  \/ /\ slot = n /\ slot' = 0 /\ put' = [put EXCEPT ![n] = p]
     /\ pending' = NoIntent \/ (pending' = pending /\ (pending.seq = 0 \/ ~pending.ready))
  \/ /\ slot = n /\ chosen # n /\ chosen \in Choices /\ pending.seq = chosen
     /\ put[chosen] = "none" /\ choice[chosen].ctx = "live"
     /\ slot' = chosen /\ pending' = NoIntent /\ put' = [put EXCEPT ![n] = p, ![chosen] = "sent"]

(* Released after a PUT's end does one of the three. *)
LEMMA Freed ==
  ASSUME StoreTypes, ThemeTurns, NEW n \in Choices, put[n] \in {"sent", "applied"}, NEW p,
         Released(n, [put EXCEPT ![n] = p])
  PROVE FreedBy(n, p)
<1> USE DEF FreedBy
<1>1. CASE slot # n
  BY <1>1 DEF Released
<1>2. CASE slot = n /\ (pending.seq = 0 \/ ~pending.ready)
  BY <1>2 DEF Released, Dispatch
<1>3. CASE slot = n /\ pending.seq # 0 /\ pending.ready
  <2>1. pending.seq = chosen /\ put[chosen] = "none" /\ chosen \in Choices /\ chosen # n
    BY <1>3, ChoiceNumbers DEF ThemeTurns, StoreTypes
  <2> QED
    BY <1>3, <2>1 DEF Released, Dispatch
<1> QED
  BY <1>1, <1>2, <1>3

(* An end of a PUT, answered or not. *)
LEMMA PutOver ==
  ASSUME StoreTypes, ThemeTurns, NEW n \in Choices, PutAnswered(n) \/ PutFails(n)
  PROVE /\ put[n] \in {"sent", "applied"}
        /\ \E p \in {"done", "lost", "told"} :
             FreedBy(n, p) /\ (p # "done" <=> put[n] = "sent") /\ (PutAnswered(n) \/ p # "told")
        /\ UNCHANGED <<user, chosen, choice, theme, timer, get, loader, save, saver, server>>
<1>1. put[n] \in {"sent", "applied"}
  BY DEF PutAnswered, PutFails
<1>2. PICK p \in {"done", "lost", "told"} :
        /\ Released(n, [put EXCEPT ![n] = p]) /\ (p # "done" <=> put[n] = "sent")
        /\ PutAnswered(n) \/ p # "told"
  BY DEF PutAnswered, PutFails
<1>3. FreedBy(n, p)
  BY <1>1, <1>2, Freed
<1> QED
  BY <1>1, <1>2, <1>3 DEF PutAnswered, PutFails

\* When the pause ends, the theme that waited is forgotten, waits for the PUT
\* in flight or takes the slot.
WokenBy ==
  \/ UNCHANGED <<slot, put>> /\ pending' = NoIntent
  \/ UNCHANGED <<slot, put, pending>> /\ pending.seq # timer
  \/ UNCHANGED <<slot, put>> /\ slot # 0 /\ pending.seq = timer /\ pending'.seq = timer /\ pending'.ready
  \/ /\ slot = 0 /\ chosen = timer /\ pending.seq = chosen
     /\ put[chosen] = "none" /\ choice[chosen].ctx = "live"
     /\ slot' = chosen /\ pending' = NoIntent /\ put' = [put EXCEPT ![chosen] = "sent"]

(* What the debounce's timer may do when it fires. *)
LEMMA Woken ==
  ASSUME StoreTypes, ThemeTurns, DebounceEnds
  PROVE /\ timer \in Choices /\ timer' = 0 /\ WokenBy
        /\ UNCHANGED <<user, chosen, choice, theme, tracker, get, loader, save, saver, page, server>>
<1>1. timer \in Choices
  BY ChoiceNumbers DEF DebounceEnds, StoreTypes
<1>2. CASE choice[timer].ctx # "live" \/ pending.seq # timer
  BY <1>1, <1>2 DEF DebounceEnds, WokenBy
<1>3. CASE choice[timer].ctx = "live" /\ pending.seq = timer
  <2>1. chosen = timer /\ put[chosen] = "none"
    BY <1>1, <1>3 DEF ThemeTurns, DebounceEnds
  <2>2. DEFINE pd == [pending EXCEPT !.ready = TRUE]
  <2>3. pd.seq = timer /\ pd.ready /\ timer # 0
    BY <1>1, <1>3, ChoiceNumbers DEF StoreTypes, Intents
  <2>4. Dispatch(slot, pd, put)
    BY <1>3 DEF DebounceEnds
  <2> HIDE DEF pd
  <2>5. slot # 0 => WokenBy
    BY <1>3, <2>3, <2>4 DEF Dispatch, WokenBy
  <2>6. slot = 0 => WokenBy
    BY <1>3, <2>1, <2>3, <2>4 DEF Dispatch, WokenBy
  <2> QED
    BY <1>1, <2>5, <2>6 DEF DebounceEnds
<1> QED
  BY <1>1, <1>2, <1>3 DEF DebounceEnds

(* Loads and saves leave the theme's turns alone. *)
LEMMA OthersKeepTurns ==
  LoadStep \/ SaveStep \/ UNCHANGED settingsVars =>
    UNCHANGED <<user, chosen, choice, timer, pending, slot, put, tracker, server>>
BY DEF LoadStep, SaveStep, FetchSettings, GetRead, GetAnswered, GetFails, Loaded, UpdateSettings, SaveSettles,
   settingsVars, themeVars

StepOfStore == AccountStep \/ ThemeStep \/ LoadStep \/ SaveStep \/ UNCHANGED settingsVars

(* The next choice has left no trace. *)
LEMMA NextChoice ==
  ASSUME StoreTypes, SettingsKnown, SetTheme
  PROVE /\ chosen + 1 \in Choices /\ chosen \in Nat /\ chosen' = chosen + 1
        /\ put[chosen + 1] = "none"
        /\ \A n \in Choices : n # chosen + 1 => choice'[n] = choice[n]
        /\ choice'[chosen + 1] = [who |-> user, ctx |-> "live"]
<1>1. chosen + 1 \in Choices /\ chosen \in Nat /\ chosen + 1 > chosen
  BY SettingsChoices DEF SetTheme, StoreTypes, Numbers, Choices
<1> QED
  BY <1>1 DEF SetTheme, StoreTypes, SettingsKnown

(* A renewal leaves nothing live, a sign-out or a sign-in everything dead. *)
LEMMA RenewedChoice ==
  ASSUME StoreTypes, Renew, NEW n \in Choices
  PROVE choice'[n].who = choice[n].who /\ choice'[n].ctx # "live"
        /\ (choice'[n].ctx = "dead" <=> choice[n].ctx = "dead")
<1>1. choice[n] \in ChoiceRec /\ choice'[n] = IF choice[n].ctx = "live" THEN [choice[n] EXCEPT !.ctx = "renewed"]
                                              ELSE choice[n]
  BY DEF Renew, Aged, StoreTypes
<1> QED
  BY <1>1 DEF ChoiceRec

(* A reset leaves every choice dead, and whose it was. *)
LEMMA DeadChoice ==
  ASSUME StoreTypes, Reset, NEW n \in Choices
  PROVE choice'[n].ctx = "dead" /\ choice'[n].who = choice[n].who
<1>1. choice[n] \in ChoiceRec /\ choice'[n] = [choice[n] EXCEPT !.ctx = "dead"]
  BY DEF Reset, Dead, StoreTypes
<1> QED
  BY <1>1 DEF ChoiceRec

Leaves == SignOut \/ \E u \in Accounts, f \in Gets : SignIn(u, f)

(* Whoever comes or goes, the store is reset. *)
LEMMA Left ==
  ASSUME Leaves PROVE Reset
BY DEF Leaves, SignOut, SignIn

(* A theme goes out when none is out, and a PUT of this sign-in keeps the slot. *)
LEMMA OneWriterStep ==
  ASSUME SettingsIInv, StepOfStore PROVE OneWriter'
<1> USE ChoiceNumbers DEF SettingsIInv, StoreTypes, OneWriter
<1>1. CASE Renew
  BY <1>1, RenewedChoice DEF Renew
<1>2. CASE Leaves
  BY <1>2, Left, DeadChoice
<1>3. CASE SetTheme
  BY <1>3, NextChoice DEF SetTheme
<1>4. CASE DebounceEnds
  BY <1>4, Woken DEF WokenBy
<1>5. ASSUME NEW n \in Choices, PutApplied(n) PROVE OneWriter'
  BY <1>5 DEF PutApplied
<1>6. ASSUME NEW n \in Choices, PutAnswered(n) \/ PutFails(n) PROVE OneWriter'
  BY <1>6, PutOver DEF FreedBy
<1>7. CASE LoadStep \/ SaveStep \/ UNCHANGED settingsVars
  BY <1>7, OthersKeepTurns
<1> QED
  BY <1>1, <1>2, <1>3, <1>4, <1>5, <1>6, <1>7 DEF StepOfStore, AccountStep, ThemeStep, Leaves

(* The slot is given back by the end of its PUT, which sends what waits. *)
LEMMA NobodyForgetsStep ==
  ASSUME SettingsIInv, StepOfStore PROVE NobodyForgets'
<1> USE ChoiceNumbers DEF SettingsIInv, StoreTypes, NobodyForgets
<1>1. CASE Renew
  BY <1>1, RenewedChoice DEF Renew
<1>2. CASE Leaves
  BY <1>2, Left DEF Reset, NoIntent
<1>3. CASE SetTheme
  BY <1>3, NextChoice DEF SetTheme
<1>4. CASE DebounceEnds
  BY <1>4, Woken DEF WokenBy, NoIntent
<1>5. ASSUME NEW n \in Choices, PutApplied(n) PROVE NobodyForgets'
  BY <1>5 DEF PutApplied
<1>6. ASSUME NEW n \in Choices, PutAnswered(n) \/ PutFails(n) PROVE NobodyForgets'
  BY <1>6, PutOver DEF FreedBy, NoIntent
<1>7. CASE LoadStep \/ SaveStep \/ UNCHANGED settingsVars
  BY <1>7, OthersKeepTurns
<1> QED
  BY <1>1, <1>2, <1>3, <1>4, <1>5, <1>6, <1>7 DEF StepOfStore, AccountStep, ThemeStep, Leaves

(* What waits is the last choice, which has not been sent. *)
LEMMA TurnsStep ==
  ASSUME SettingsIInv, StepOfStore PROVE ThemeTurns'
<1> USE ChoiceNumbers DEF SettingsIInv, StoreTypes, ThemeTurns
<1>1. CASE Renew
  BY <1>1 DEF Renew
<1>2. CASE Leaves
  BY <1>2, Left DEF Reset, NoIntent
<1>3. CASE SetTheme
  BY <1>3, NextChoice DEF SetTheme
<1>4. CASE DebounceEnds
  BY <1>4, Woken DEF WokenBy, NoIntent
<1>5. ASSUME NEW n \in Choices, PutApplied(n) PROVE ThemeTurns'
  BY <1>5 DEF PutApplied
<1>6. ASSUME NEW n \in Choices, PutAnswered(n) \/ PutFails(n) PROVE ThemeTurns'
  <2>1. PICK p \in {"done", "lost", "told"} : FreedBy(n, p)
    BY <1>6, PutOver
  <2>2. put[n] \in {"sent", "applied"} /\ UNCHANGED chosen
    BY <1>6, PutOver
  <2>3. slot # 0 => chosen \in Choices
    BY DEF NobodyForgets, SettingsKnown
  <2>4. CASE slot # n
    BY <2>1, <2>2, <2>3, <2>4 DEF FreedBy
  <2>5. CASE slot = n
    BY <2>1, <2>2, <2>5 DEF FreedBy, NoIntent
  <2> QED
    BY <2>4, <2>5
<1>7. CASE LoadStep \/ SaveStep \/ UNCHANGED settingsVars
  BY <1>7, OthersKeepTurns
<1> QED
  BY <1>1, <1>2, <1>3, <1>4, <1>5, <1>6, <1>7 DEF StepOfStore, AccountStep, ThemeStep, Leaves

(* What the tracker says of the last choice stays true. *)
LEMMA TrackerStep ==
  ASSUME SettingsIInv, StepOfStore PROVE TrackerTrue'
<1> USE ChoiceNumbers DEF SettingsIInv, StoreTypes, TrackerTrue
<1>0. tracker.latest \in Nat /\ tracker.synced \in Nat
  BY DEF Trackers
<1>1. CASE Renew \/ Leaves
  BY <1>1, Left DEF Renew, Reset, NoTracker
<1>2. CASE SetTheme
  <2>1. tracker'.latest = chosen + 1 /\ tracker'.synced = tracker.synced
    BY <1>2 DEF SetTheme, Trackers
  <2>2. tracker.synced <= chosen
    BY <1>0
  <2> QED
    BY <1>0, <1>2, <2>1, <2>2, NextChoice
<1>3. CASE DebounceEnds
  BY <1>0, <1>3, Woken DEF WokenBy
<1>4. ASSUME NEW n \in Choices, PutApplied(n) PROVE TrackerTrue'
  BY <1>0, <1>4 DEF PutApplied
<1>5. ASSUME NEW n \in Choices, PutAnswered(n) \/ PutFails(n) PROVE TrackerTrue'
  <2>1. PICK p \in {"done", "lost", "told"} : FreedBy(n, p) /\ (p # "done" <=> put[n] = "sent")
    BY <1>5, PutOver
  <2>2. put[n] \in {"sent", "applied"} /\ UNCHANGED <<chosen, choice>>
    BY <1>5, PutOver
  <2>3. CASE UNCHANGED tracker
    BY <1>0, <2>1, <2>2, <2>3 DEF FreedBy
  <2>4. CASE tracker' # tracker
    <3>1. PutAnswered(n) /\ PutShows(n) /\ tracker.latest > 0
      BY <1>5, <2>4 DEF PutAnswered, PutFails
    <3>2. tracker'.latest = tracker.latest /\ tracker'.synced = n /\ n = chosen
      BY <3>1 DEF PutAnswered, PutShows, Trackers
    <3>3. put'[n] \in {"done", "told"}
      BY <3>1, <3>2 DEF PutAnswered, Released, Dispatch
    <3> QED
      BY <1>0, <2>2, <3>1, <3>2, <3>3
  <2> QED
    BY <2>3, <2>4
<1>6. CASE LoadStep \/ SaveStep \/ UNCHANGED settingsVars
  BY <1>6, OthersKeepTurns
<1> QED
  BY <1>1, <1>2, <1>3, <1>4, <1>5, <1>6 DEF StepOfStore, AccountStep, ThemeStep, Leaves

(* A choice that was given up stays so. *)
LEMMA AbandonedStays ==
  ASSUME SettingsIInv, StepOfStore, NEW x \in Numbers, x <= chosen, Abandoned(x)
  PROVE Abandoned(x)'
<1> USE ChoiceNumbers DEF SettingsIInv, StoreTypes, Abandoned
<1>1. CASE Renew
  BY <1>1, RenewedChoice DEF Renew
<1>2. CASE Leaves
  BY <1>2, Left, DeadChoice DEF Reset
<1>3. CASE SetTheme
  <2>1. x # chosen + 1 /\ UNCHANGED put
    BY <1>3, NextChoice DEF SetTheme
  <2> QED
    BY <1>3, <2>1, NextChoice
<1>4. CASE DebounceEnds
  BY <1>4, Woken DEF WokenBy
<1>5. ASSUME NEW n \in Choices, PutApplied(n) PROVE Abandoned(x)'
  BY <1>5 DEF PutApplied
<1>6. ASSUME NEW n \in Choices, PutAnswered(n) \/ PutFails(n) PROVE Abandoned(x)'
  <2>1. PICK p \in {"done", "lost", "told"} : FreedBy(n, p)
    BY <1>6, PutOver
  <2>2. put[n] \in {"sent", "applied"} /\ UNCHANGED choice
    BY <1>6, PutOver
  <2> QED
    BY <2>1, <2>2 DEF FreedBy
<1>7. CASE LoadStep \/ SaveStep \/ UNCHANGED settingsVars
  <2>1. UNCHANGED <<choice, put>>
    BY <1>7, OthersKeepTurns
  <2> QED
    BY <2>1
<1> QED
  BY <1>1, <1>2, <1>3, <1>4, <1>5, <1>6, <1>7 DEF StepOfStore, AccountStep, ThemeStep, Leaves

(* The last choice that the server has carried out is what it has. *)
LEMMA StoredStep ==
  ASSUME SettingsIInv, StepOfStore PROVE LastStored'
<1> USE ChoiceNumbers DEF SettingsIInv, StoreTypes
<1>0. user \in Accounts => server[user] \in Numbers /\ server[user] <= chosen
  BY DEF SettingsKnown
<1>1. CASE Renew
  <2>1. UNCHANGED <<user, chosen, put, server>>
    BY <1>1 DEF Renew
  <2> QED
    BY <1>1, <2>1, RenewedChoice DEF LastStored, Abandoned
<1>2. CASE Leaves
  BY <1>2, Left, DeadChoice DEF LastStored
<1>3. CASE SetTheme
  BY <1>3, NextChoice DEF SetTheme, LastStored
<1>4. CASE DebounceEnds
  <2>1. UNCHANGED <<user, chosen, choice, server>>
    BY <1>4, Woken
  <2> QED
    BY <1>4, <2>1, Woken DEF WokenBy, LastStored, Abandoned
<1>5. ASSUME NEW m \in Choices, PutApplied(m) PROVE LastStored'
  <2>1. SUFFICES ASSUME chosen \in Choices, choice[chosen].ctx # "dead", put'[chosen] \in {"applied", "done"}
                 PROVE server'[user] = chosen \/ Abandoned(server[user])'
    <3>1. UNCHANGED <<user, chosen, choice>>
      BY <1>5 DEF PutApplied
    <3> QED
      BY <3>1 DEF LastStored
  <2>2. user \in Accounts
    BY <2>1 DEF SettingsKnown, Somebody
  <2>3. CASE choice[m].who # user
    <3>1. m # chosen
      BY <2>1, <2>3 DEF SettingsKnown
    <3>2. server'[user] = server[user] /\ put[chosen] \in {"applied", "done"} /\ UNCHANGED <<user, chosen, choice>>
      BY <1>5, <2>1, <2>2, <2>3, <3>1 DEF PutApplied
    <3>3. server[user] = chosen \/ Abandoned(server[user])
      BY <2>1, <3>2 DEF LastStored
    <3> QED
      BY <1>5, <3>2, <3>3 DEF Abandoned, PutApplied
  <2>4. CASE choice[m].who = user
    <3>1. server'[user] = m /\ user' = user /\ UNCHANGED choice
      BY <1>5, <2>2, <2>4 DEF PutApplied
    <3>2. CASE m = chosen
      BY <3>1, <3>2
    <3>3. CASE m # chosen /\ put[m] = "sent"
      <4>1. put'[chosen] = put[chosen]
        BY <1>5, <3>3 DEF PutApplied
      <4>2. choice[m].ctx = "dead"
        BY <2>1, <3>3, <4>1 DEF OneWriter, ThemeTurns
      <4> QED
        BY <3>1, <4>2 DEF Abandoned
    <3>4. CASE put[m] \in {"lost", "told"}
      BY <1>5, <3>1, <3>4 DEF Abandoned, PutApplied
    <3> QED
      BY <1>5, <3>2, <3>3, <3>4 DEF PutApplied
  <2> QED
    BY <2>3, <2>4
<1>6. ASSUME NEW n \in Choices, PutAnswered(n) \/ PutFails(n) PROVE LastStored'
  <2>1. PICK p \in {"done", "lost", "told"} : FreedBy(n, p) /\ (p # "done" <=> put[n] = "sent")
    BY <1>6, PutOver
  <2>2. put[n] \in {"sent", "applied"} /\ UNCHANGED <<user, chosen, choice, server>>
    BY <1>6, PutOver
  <2>3. chosen \in Choices /\ put'[chosen] \in {"applied", "done"} => put[chosen] \in {"applied", "done"}
    BY <2>1, <2>2 DEF FreedBy
  <2>4. \A x \in Numbers : x <= chosen /\ Abandoned(x) => Abandoned(x)'
    BY <1>6, AbandonedStays DEF StepOfStore, ThemeStep
  <2>5. \A x \in Choices : choice[x].ctx # "dead" => user \in Accounts
    BY DEF SettingsKnown, Somebody
  <2> QED
    BY <1>0, <2>2, <2>3, <2>4, <2>5 DEF LastStored
<1>7. CASE LoadStep \/ SaveStep \/ UNCHANGED settingsVars
  <2>1. UNCHANGED <<user, chosen, choice, put, server>>
    BY <1>7, OthersKeepTurns
  <2> QED
    BY <2>1 DEF LastStored, Abandoned
<1> QED
  BY <1>1, <1>2, <1>3, <1>4, <1>5, <1>6, <1>7 DEF StepOfStore, AccountStep, ThemeStep, Leaves

(* A load that is made stale keeps its owner and says nothing more. *)
LEMMA Staled ==
  ASSUME StoreTypes, NEW f \in Gets, NEW c \in Contexts
  PROVE /\ Stale(f, c).who = get[f].who /\ Stale(f, c).ctx = c
        /\ Stale(f, c).st # "sent" /\ (Stale(f, c).st = "idle" <=> get[f].st = "idle")
        /\ Stale(f, c).read = 0 /\ Stale(f, c).start = 0
BY DEF Stale, NoGet, StoreTypes, GetRec

(* No load is live after a renewal or a sign-out. *)
LEMMA RenewedGet ==
  ASSUME StoreTypes, SettingsKnown, Renew, NEW f \in Gets
  PROVE /\ get'[f].who = get[f].who /\ get'[f].ctx # "live" /\ get'[f].st # "sent"
        /\ (get'[f].st = "idle" <=> get[f].st = "idle")
        /\ get'[f].read <= chosen /\ get'[f].start <= chosen
<1>1. CASE get[f].ctx = "live"
  <2>1. get'[f] = Stale(f, "renewed")
    BY <1>1 DEF Renew
  <2> QED
    BY <2>1, Staled, ChoiceNumbers DEF Contexts, StoreTypes
<1>2. CASE get[f].ctx # "live"
  <2>1. get'[f] = get[f]
    BY <1>2 DEF Renew
  <2> QED
    BY <1>2, <2>1 DEF SettingsKnown
<1> QED
  BY <1>1, <1>2

(* After a sign-out there is no live load, after a sign-in just the new user's. *)
LEMMA LeftGet ==
  ASSUME StoreTypes, Leaves, NEW f \in Gets
  PROVE /\ get'[f].ctx = "live" => get'[f].who = user' /\ user' # NoAccount
        /\ get'[f].st = "sent" => get'[f].ctx = "live"
        /\ get'[f].read <= chosen /\ get'[f].start <= chosen
<1>1. get'[f] = Stale(f, "dead") \/ (SignOut \/ \E u \in Accounts : SignIn(u, f))
  BY DEF Leaves, SignIn
<1>2. CASE get'[f] = Stale(f, "dead")
  BY <1>2, Staled, ChoiceNumbers DEF Contexts, StoreTypes
<1>3. CASE SignOut
  <2>1. get'[f] = Stale(f, "dead")
    BY <1>3 DEF SignOut
  <2> QED
    BY <1>2, <2>1
<1>4. ASSUME NEW u \in Accounts, SignIn(u, f)
      PROVE /\ get'[f].ctx = "live" => get'[f].who = user' /\ user' # NoAccount
            /\ get'[f].st = "sent" => get'[f].ctx = "live"
            /\ get'[f].read <= chosen /\ get'[f].start <= chosen
  <2>1. get'[f] = [NoGet EXCEPT !.st = "sent", !.who = u, !.ctx = "live"] /\ user' = u
    BY <1>4 DEF SignIn
  <2> QED
    BY <2>1, SettingsAccounts, ChoiceNumbers DEF NoGet, StoreTypes
<1> QED
  BY <1>1, <1>2, <1>3, <1>4

(* Themes leave the loads and saves alone. *)
LEMMA ThemesKeepLoads ==
  ThemeStep => UNCHANGED <<user, get, loader, save, saver>>
BY DEF ThemeStep, SetTheme, DebounceEnds, PutApplied, PutAnswered, PutFails

(* Saves leave the loads and the theme alone. *)
LEMMA SavesKeepLoads ==
  SaveStep \/ UNCHANGED settingsVars => UNCHANGED <<user, theme, get, loader>>
BY DEF SaveStep, UpdateSettings, SaveSettles, settingsVars

(* A load's record after it begins. *)
LEMMA Begun ==
  ASSUME StoreTypes, NEW f \in Gets, FetchSettings(f), NEW g \in Gets
  PROVE \/ get'[g] = get[g]
        \/ /\ g = f /\ get'[g].st = "sent" /\ get'[g].who = user /\ get'[g].ctx = "live" /\ user # NoAccount
           /\ get'[g].start = tracker.latest /\ get'[g].read = 0
           /\ (~get'[g].conflict => ~(tracker.latest > tracker.synced))
<1>1. CASE get' = get
  BY <1>1
<1>2. CASE get' # get /\ g # f
  BY <1>2 DEF FetchSettings, StoreTypes
<1>3. CASE get' # get /\ g = f
  <2>1. user # NoAccount /\ get'[f] = [NoGet EXCEPT !.st = "sent", !.who = user, !.ctx = "live",
                               !.conflict = tracker.latest > tracker.synced \/ Unsettled,
                               !.start = tracker.latest]
    BY <1>3 DEF FetchSettings, StoreTypes
  <2>2. /\ get'[f].st = "sent" /\ get'[f].who = user /\ get'[f].ctx = "live"
        /\ get'[f].start = tracker.latest /\ get'[f].read = 0
    BY <2>1 DEF NoGet
  <2>3. get'[f].conflict = (tracker.latest > tracker.synced \/ Unsettled)
    BY <2>1 DEF NoGet
  <2> QED
    BY <1>3, <2>1, <2>2, <2>3
<1> QED
  BY <1>1, <1>2, <1>3

(* A load read at the server, and one that is over. *)
LEMMA ReadOrOver ==
  ASSUME StoreTypes, NEW f \in Gets, GetRead(f) \/ GetAnswered(f) \/ GetFails(f), NEW g \in Gets
  PROVE \/ get'[g] = get[g]
        \/ get'[g] = NoGet /\ g = f /\ ~GetRead(f)
        \/ /\ g = f /\ GetRead(f) /\ get[g].st = "sent" /\ get'[g].st = "read"
           /\ get'[g].who = get[g].who /\ get'[g].ctx = get[g].ctx /\ get'[g].start = get[g].start
           /\ get'[g].conflict = get[g].conflict /\ get'[g].read = server[get[g].who]
<1>1. CASE g # f
  BY <1>1 DEF GetRead, GetAnswered, GetFails, Loaded, StoreTypes
<1>2. CASE g = f /\ ~GetRead(f)
  BY <1>2 DEF GetAnswered, GetFails, Loaded, StoreTypes
<1>3. CASE g = f /\ GetRead(f)
  <2>1. get[f] \in GetRec /\ get[f].st = "sent"
        /\ get'[f] = [[get[f] EXCEPT !.st = "read"] EXCEPT !.read = server[get[f].who]]
    BY <1>3 DEF GetRead, StoreTypes
  <2> QED
    BY <1>3, <2>1 DEF GetRec
<1> QED
  BY <1>1, <1>2, <1>3

(* What is not chosen leaves no trace, and what is live is the user's. *)
LEMMA KnownStep ==
  ASSUME SettingsIInv, StepOfStore PROVE SettingsKnown'
<1> USE ChoiceNumbers DEF SettingsIInv, StoreTypes
<1> DEFINE Sent == \A n \in Choices : n > chosen => put[n] = "none"
           Owned == \A n \in Choices : choice[n].ctx # "dead" => choice[n].who = user /\ user # NoAccount
           Shown == theme <= chosen /\ \A u \in Accounts : server[u] <= chosen
           Loads == \A f \in Gets :
                      /\ get[f].ctx = "live" => get[f].who = user /\ user # NoAccount
                      /\ get[f].st = "sent" => get[f].ctx = "live"
                      /\ get[f].read <= chosen /\ get[f].start <= chosen
<1>0. Sent /\ Owned /\ Shown /\ Loads
  BY DEF SettingsKnown
<1>1. CASE Renew
  <2>1. UNCHANGED <<user, chosen, theme, put, server>>
    BY <1>1 DEF Renew
  <2>2. Owned'
    BY <1>0, <1>1, <2>1, RenewedChoice
  <2>3. Loads'
    BY <1>0, <1>1, <2>1, RenewedGet
  <2> QED
    BY <1>0, <2>1, <2>2, <2>3 DEF SettingsKnown
<1>2. CASE Leaves
  <2>1. UNCHANGED <<chosen, theme, put, server>>
    BY <1>2, Left DEF Reset
  <2>2. Owned'
    BY <1>2, Left, DeadChoice
  <2>3. Loads'
    BY <1>2, <2>1, LeftGet
  <2> QED
    BY <1>0, <2>1, <2>2, <2>3 DEF SettingsKnown
<1>3. CASE SetTheme
  <2>1. UNCHANGED <<user, get, put, server>> /\ theme' = chosen + 1 /\ chosen' = chosen + 1 /\ user # NoAccount
    BY <1>3 DEF SetTheme
  <2>2. Owned'
    BY <1>0, <1>3, <2>1, NextChoice
  <2>3. Loads'
    BY <1>0, <2>1 DEF GetRec
  <2>4. Sent' /\ Shown'
    BY <1>0, <2>1
  <2> QED
    BY <2>2, <2>3, <2>4 DEF SettingsKnown
<1>4. CASE DebounceEnds
  <2>1. Sent'
    BY <1>0, <1>4, Woken DEF WokenBy
  <2>2. UNCHANGED <<user, chosen, choice, theme, get, server>>
    BY <1>4, Woken
  <2> QED
    BY <1>0, <2>1, <2>2 DEF SettingsKnown
<1>5. ASSUME NEW n \in Choices, PutApplied(n) PROVE SettingsKnown'
  <2>1. UNCHANGED <<user, chosen, choice, theme, get>> /\ n <= chosen
    BY <1>0, <1>5 DEF PutApplied
  <2>2. Sent' /\ Shown'
    BY <1>0, <1>5, <2>1 DEF PutApplied
  <2> QED
    BY <1>0, <2>1, <2>2 DEF SettingsKnown
<1>6. ASSUME NEW n \in Choices, PutAnswered(n) \/ PutFails(n) PROVE SettingsKnown'
  <2>1. UNCHANGED <<user, chosen, choice, theme, get, server>> /\ put[n] \in {"sent", "applied"}
    BY <1>6, PutOver
  <2>2. PICK p \in {"done", "lost", "told"} : FreedBy(n, p)
    BY <1>6, PutOver
  <2>3. Sent'
    BY <1>0, <2>1, <2>2 DEF FreedBy
  <2> QED
    BY <1>0, <2>1, <2>3 DEF SettingsKnown
<1>7. ASSUME NEW f \in Gets, FetchSettings(f) PROVE SettingsKnown'
  <2>1. UNCHANGED <<user, chosen, choice, put, theme, server>>
    BY <1>7 DEF FetchSettings, themeVars
  <2>2. tracker.latest <= chosen /\ 0 <= chosen
    BY DEF TrackerTrue, Trackers
  <2>3. Loads'
    BY <1>0, <1>7, <2>1, <2>2, Begun
  <2> QED
    BY <1>0, <2>1, <2>3 DEF SettingsKnown
<1>8. ASSUME NEW f \in Gets, GetRead(f) \/ GetAnswered(f) \/ GetFails(f) PROVE SettingsKnown'
  <2>1. UNCHANGED <<user, chosen, choice, put, server>> /\ theme' \in {theme, get[f].read}
    BY <1>8 DEF GetRead, GetAnswered, GetFails, Loaded, themeVars
  <2>2. get[f].st = "sent" => get[f].who \in Accounts
    BY <1>0 DEF Somebody
  <2>3. NoGet.st = "idle" /\ NoGet.ctx = "dead" /\ NoGet.read = 0 /\ NoGet.start = 0 /\ 0 <= chosen
    BY DEF NoGet
  <2>4. Loads'
    BY <1>0, <1>8, <2>1, <2>2, <2>3, ReadOrOver
  <2> QED
    BY <1>0, <2>1, <2>4 DEF SettingsKnown
<1>9. CASE SaveStep \/ UNCHANGED settingsVars
  <2>1. UNCHANGED <<user, chosen, choice, put, theme, get, server>>
    BY <1>9, SavesKeepLoads, OthersKeepTurns
  <2> QED
    BY <1>0, <2>1 DEF SettingsKnown
<1> QED
  BY <1>1, <1>2, <1>3, <1>4, <1>5, <1>6, <1>7, <1>8, <1>9
     DEF StepOfStore, AccountStep, ThemeStep, LoadStep, Leaves

(* A load that may replace the theme brings what the server had since. *)
LEMMA LoadsStep ==
  ASSUME SettingsIInv, StepOfStore PROVE LoadsHarmless'
<1> USE ChoiceNumbers DEF SettingsIInv, StoreTypes
<1>0. tracker.latest \in Nat /\ tracker.synced \in Nat /\ tracker.latest <= chosen
  BY DEF Trackers, TrackerTrue
<1>1. CASE Renew \/ Leaves
  <2>1. tracker' = NoTracker
    BY <1>1, Left DEF Renew, Reset
  <2> QED
    BY <2>1 DEF NoTracker, LoadsHarmless
<1>2. CASE SetTheme
  <2>1. tracker'.latest = chosen + 1 /\ UNCHANGED get
    BY <1>2 DEF SetTheme, Trackers
  <2>2. \A f \in Gets : get[f].start # chosen + 1
    BY DEF SettingsKnown, GetRec
  <2> QED
    BY <2>1, <2>2 DEF LoadsHarmless
<1>3. ASSUME ThemeStep, ~SetTheme PROVE LoadsHarmless'
  <2>1. UNCHANGED get
    BY <1>3, ThemesKeepLoads
  <2>2. tracker'.latest = tracker.latest /\ (tracker.synced = tracker.latest /\ tracker.latest > 0 => tracker' = tracker)
    <3>1. CASE UNCHANGED tracker
      BY <3>1
    <3>2. CASE tracker' # tracker
      <4>1. PICK n \in Choices : PutAnswered(n) /\ PutShows(n) /\ tracker.latest > 0
        BY <1>3, <3>2 DEF ThemeStep, DebounceEnds, PutApplied, PutAnswered, PutFails
      <4>2. n = chosen
        BY <4>1 DEF PutAnswered, PutShows
      <4> QED
        BY <4>1, <4>2 DEF PutAnswered, Trackers, TrackerTrue
    <3> QED
      BY <3>1, <3>2
  <2>3. \A f \in Gets : get[f].read \in Numbers /\ get[f].read <= chosen
    BY DEF SettingsKnown, GetRec
  <2>4. \A x \in Numbers : x <= chosen /\ Abandoned(x) => Abandoned(x)'
    BY <1>3, AbandonedStays DEF StepOfStore
  <2>5. tracker.latest \in Numbers
    BY DEF Trackers
  <2> QED
    BY <1>0, <2>1, <2>2, <2>3, <2>4, <2>5 DEF LoadsHarmless
<1>4. ASSUME NEW f \in Gets, FetchSettings(f) PROVE LoadsHarmless'
  <2>1. UNCHANGED <<tracker, choice, put>>
    BY <1>4 DEF FetchSettings, themeVars
  <2>2. tracker.synced <= tracker.latest
    BY DEF TrackerTrue
  <2> QED
    BY <1>0, <1>4, <2>1, <2>2, Begun DEF LoadsHarmless, Abandoned
<1>5. ASSUME NEW f \in Gets, GetRead(f) \/ GetAnswered(f) \/ GetFails(f) PROVE LoadsHarmless'
  <2>1. UNCHANGED <<tracker, choice, put>>
    BY <1>5 DEF GetRead, GetAnswered, GetFails, Loaded, themeVars
  <2>2. ASSUME get[f].st = "sent", tracker.latest > 0, tracker.synced = tracker.latest
        PROVE \/ server[get[f].who] = tracker.latest \/ Abandoned(server[get[f].who])
              \/ Abandoned(tracker.latest)
    <3>1. get[f].who = user /\ tracker.latest = chosen /\ choice[chosen].ctx = "live"
          /\ put[chosen] \in {"done", "told", "late"} /\ chosen \in Choices
      BY <1>0, <2>2 DEF SettingsKnown, TrackerTrue
    <3>2. CASE put[chosen] = "done"
      BY <1>0, <2>2, <3>1, <3>2 DEF LastStored
    <3>3. CASE put[chosen] # "done"
      BY <3>1, <3>3 DEF Abandoned
    <3> QED
      BY <3>2, <3>3
  <2>3. NoGet.ctx = "dead"
    BY DEF NoGet
  <2> QED
    BY <1>5, <2>1, <2>2, <2>3, ReadOrOver DEF LoadsHarmless, Abandoned
<1>6. CASE SaveStep \/ UNCHANGED settingsVars
  <2>1. UNCHANGED <<tracker, choice, put, get>>
    BY <1>6, OthersKeepTurns, SavesKeepLoads
  <2> QED
    BY <2>1 DEF LoadsHarmless, Abandoned
<1> QED
  BY <1>1, <1>2, <1>3, <1>4, <1>5, <1>6 DEF StepOfStore, AccountStep, LoadStep, Leaves

(* No load takes the last choice back, nor does an answer to another's PUT. *)
LEMMA ShownThemeStep ==
  ASSUME SettingsIInv, StepOfStore PROVE LastShown'
<1> USE ChoiceNumbers DEF SettingsIInv, StoreTypes
<1>0. /\ tracker.latest \in Nat /\ tracker.synced \in Nat /\ theme \in Numbers /\ theme <= chosen
      /\ tracker.latest \in Numbers /\ (tracker.latest > 0 => tracker.latest <= chosen)
  BY DEF Trackers, SettingsKnown, TrackerTrue
<1>1. CASE Renew \/ Leaves
  <2>1. tracker' = NoTracker
    BY <1>1, Left DEF Renew, Reset
  <2> QED
    BY <2>1 DEF NoTracker, LastShown
<1>2. CASE SetTheme
  BY <1>2 DEF SetTheme, Trackers, LastShown
<1>3. \A x \in Numbers : x <= chosen /\ Abandoned(x) => Abandoned(x)'
  BY AbandonedStays
<1>4. ASSUME UNCHANGED <<theme, tracker>> PROVE LastShown'
  BY <1>0, <1>3, <1>4 DEF LastShown
<1>5. CASE DebounceEnds \/ \E n \in Choices : PutApplied(n)
  BY <1>4, <1>5 DEF DebounceEnds, PutApplied
<1>6. ASSUME NEW n \in Choices, PutAnswered(n) \/ PutFails(n) PROVE LastShown'
  <2>1. CASE tracker' # tracker
    <3>1. PutShows(n) /\ put[n] \in {"sent", "applied"} /\ tracker.latest > 0 /\ UNCHANGED theme
          /\ tracker' = [tracker EXCEPT !.synced = n]
      BY <1>6, <2>1 DEF PutAnswered, PutFails
    <3>2. n = chosen /\ tracker.latest = chosen /\ tracker.synced # chosen
      BY <3>1 DEF PutShows, TrackerTrue
    <3>3. theme = chosen
      BY <3>1, <3>2 DEF LastShown
    <3> QED
      BY <3>1, <3>2, <3>3 DEF LastShown, Trackers
  <2>2. CASE UNCHANGED tracker
    BY <1>4, <1>6, <2>2, PutOver
  <2> QED
    BY <2>1, <2>2
<1>7. ASSUME NEW f \in Gets, FetchSettings(f) \/ GetRead(f) \/ GetFails(f) PROVE LastShown'
  BY <1>4, <1>7 DEF FetchSettings, GetRead, GetFails, Loaded, themeVars
<1>8. ASSUME NEW f \in Gets, GetAnswered(f) PROVE LastShown'
  <2>1. UNCHANGED <<tracker, choice, put>>
    BY <1>8 DEF GetAnswered, Loaded, themeVars
  <2>2. CASE UNCHANGED theme
    BY <1>4, <2>1, <2>2
  <2>3. CASE theme' # theme
    <3>1. get[f].st = "read" /\ theme' = get[f].read /\ get[f].ctx = "live" /\ ~Conflict(f)
      BY <1>8, <2>3 DEF GetAnswered, GetShows
    <3>2. ~get[f].conflict /\ tracker.latest = get[f].start
      BY <3>1 DEF Conflict
    <3> QED
      BY <2>1, <3>1, <3>2 DEF LoadsHarmless, LastShown, Abandoned
  <2> QED
    BY <2>2, <2>3
<1>9. CASE SaveStep \/ UNCHANGED settingsVars
  <2>1. UNCHANGED <<theme, tracker>>
    BY <1>9, OthersKeepTurns, SavesKeepLoads
  <2> QED
    BY <1>4, <2>1
<1> QED
  BY <1>1, <1>2, <1>5, <1>6, <1>7, <1>8, <1>9 DEF StepOfStore, AccountStep, ThemeStep, LoadStep, Leaves

(* What is shown as under way is, and is the user's. *)
LEMMA SlotsStep ==
  ASSUME SettingsIInv, StepOfStore PROVE SlotsMeanWork'
<1> USE SettingsRequests DEF SettingsIInv, StoreTypes, SlotsMeanWork
<1>1. CASE Renew
  <2>1. UNCHANGED <<user, loader, saver, page>>
    BY <1>1 DEF Renew
  <2>2. \A s \in Saves : save'[s].st = save[s].st /\ save'[s].who = save[s].who
    BY <1>1 DEF Renew, Aged, SaveRec
  <2> QED
    BY <1>1, <2>1, <2>2, RenewedGet
<1>2. CASE SignOut
  BY <1>2 DEF SignOut, Reset, Blank
<1>3. ASSUME NEW u \in Accounts, NEW f \in Gets, SignIn(u, f) PROVE SlotsMeanWork'
  <2>1. get'[f].st = "sent" /\ get'[f].who = u
    BY <1>3 DEF SignIn, NoGet
  <2>2. page'.settings = NoAccount /\ page'.loading /\ ~page'.saving
    BY <1>3 DEF SignIn, Blank
  <2> QED
    BY <1>3, <2>1, <2>2 DEF SignIn, Reset
<1>4. CASE ThemeStep
  <2>1. UNCHANGED <<user, get, loader, save, saver>>
    BY <1>4, ThemesKeepLoads
  <2>2. page'.settings \in {page.settings, user} /\ page'.loading = page.loading /\ page'.saving = page.saving
    <3>1. CASE UNCHANGED page
      BY <3>1
    <3>2. CASE page' # page
      <4>1. PICK n \in Choices : PutAnswered(n) /\ PutShows(n)
        BY <1>4, <3>2 DEF ThemeStep, SetTheme, DebounceEnds, PutApplied, PutAnswered, PutFails
      <4>2. choice[n].who = user /\ page' = [page EXCEPT !.settings = choice[n].who]
        BY <4>1 DEF PutAnswered, PutShows, SettingsKnown
      <4> QED
        BY <4>2 DEF Pages
    <3> QED
      BY <3>1, <3>2
  <2> QED
    BY <2>1, <2>2
<1>5. ASSUME NEW f \in Gets, FetchSettings(f) PROVE SlotsMeanWork'
  <2>1. CASE loader # NoCall /\ get[loader].ctx = "live"
    BY <1>5, <2>1 DEF FetchSettings
  <2>2. CASE ~(loader # NoCall /\ get[loader].ctx = "live")
    <3>1. loader' = f /\ get'[f].st = "sent" /\ get'[f].who = user
      <4>1. loader' = f /\ get[f].st = "idle" /\ get'[f].st = "sent"
        <5>1. PICK c : get' = [get EXCEPT ![f] = [NoGet EXCEPT !.st = "sent", !.who = user, !.ctx = "live",
                                                             !.conflict = c, !.start = tracker.latest]]
          BY <1>5, <2>2 DEF FetchSettings
        <5> QED
          BY <1>5, <2>2, <5>1 DEF FetchSettings, NoGet
      <4> QED
        BY <1>5, <4>1, Begun
    <3>2. page'.loading /\ page'.settings = page.settings /\ page'.saving = page.saving
      BY <1>5, <2>2 DEF FetchSettings, Pages
    <3> QED
      BY <1>5, <3>1, <3>2 DEF FetchSettings
  <2> QED
    BY <2>1, <2>2
<1>6. ASSUME NEW f \in Gets, GetRead(f) PROVE SlotsMeanWork'
  <2>1. UNCHANGED <<user, loader, save, saver, page>>
    BY <1>6 DEF GetRead, themeVars
  <2> QED
    BY <1>6, <2>1, ReadOrOver
<1>7. ASSUME NEW f \in Gets, GetAnswered(f) \/ GetFails(f) PROVE SlotsMeanWork'
  <2>1. PICK x \in {page.settings, user} : Loaded(f, x)
    BY <1>7 DEF GetAnswered, GetFails, GetShows, SettingsKnown
  <2>2. UNCHANGED <<user, save, saver>> /\ loader' = IF loader = f THEN NoCall ELSE loader
    BY <2>1 DEF Loaded
  <2>3. page'.settings = x /\ page'.loading = (page.loading /\ loader # f) /\ page'.saving = page.saving
    BY <2>1 DEF Loaded, Pages
  <2>4. \A g \in Gets : g # f => get'[g] = get[g]
    BY <2>1 DEF Loaded
  <2> QED
    BY <2>2, <2>3, <2>4
<1>8. ASSUME NEW s \in Saves, UpdateSettings(s) PROVE SlotsMeanWork'
  <2>1. page'.saving /\ page'.settings = page.settings /\ page'.loading = page.loading
    BY <1>8 DEF UpdateSettings, Pages
  <2> QED
    BY <1>8, <2>1 DEF UpdateSettings
<1>9. ASSUME NEW s \in Saves, NEW a \in BOOLEAN, SaveSettles(s, a) PROVE SlotsMeanWork'
  <2>1. page'.settings \in {page.settings, user} /\ page'.loading = page.loading
        /\ page'.saving = (page.saving /\ saver # s)
    BY <1>9 DEF SaveSettles, SaveCounts, Pages
  <2>2. UNCHANGED <<user, get, loader>> /\ saver' = IF saver = s THEN NoCall ELSE saver
    BY <1>9 DEF SaveSettles
  <2>3. \A t \in Saves : t # s => save'[t] = save[t]
    BY <1>9 DEF SaveSettles
  <2> QED
    BY <2>1, <2>2, <2>3
<1>10. CASE UNCHANGED settingsVars
  BY <1>10 DEF settingsVars
<1> QED
  BY <1>1, <1>2, <1>3, <1>4, <1>5, <1>6, <1>7, <1>8, <1>9, <1>10 DEF StepOfStore, AccountStep, LoadStep, SaveStep

-----------------------------------------------------------------------------
(* Before anybody has signed in. *)
LEMMA SettingsInitInv == DrawerInit => SettingsIInv
<1> SUFFICES ASSUME DrawerInit PROVE SettingsIInv
  OBVIOUS
<1> USE BlankTypes, ChoiceNumbers DEF DrawerInit, SettingsInit
<1>1. StoreTypes
  <2>1. [who |-> NoAccount, ctx |-> "dead"] \in ChoiceRec /\ "none" \in PutStates
    BY DEF ChoiceRec, PutStates, Contexts
  <2> QED
    BY <2>1 DEF StoreTypes
<1>2. FormTypes /\ NoticesAsked
  BY DEF FormInit, FormTypes, NoticesAsked
<1>3. SlotsMeanWork /\ OneWriter /\ NobodyForgets
  BY DEF SlotsMeanWork, OneWriter, NobodyForgets, Blank, NoIntent
<1>4. SettingsKnown /\ ThemeTurns
  BY DEF SettingsKnown, ThemeTurns, NoGet, NoIntent
<1>5. TrackerTrue /\ LastStored /\ LastShown /\ LoadsHarmless
  BY DEF TrackerTrue, LastStored, LastShown, LoadsHarmless, NoTracker
<1> QED
  BY <1>1, <1>2, <1>3, <1>4, <1>5 DEF SettingsIInv

(* Every step of the drawer keeps the invariant. *)
LEMMA SettingsStepInv == SettingsIInv /\ [DrawerNext]_drawerVars => SettingsIInv'
<1> SUFFICES ASSUME SettingsIInv, [DrawerNext]_drawerVars PROVE SettingsIInv'
  OBVIOUS
<1>1. StepOfStore
  BY StoreStep DEF StepOfStore
<1>2. StoreTypes'
  BY <1>1, StoreTypesStep DEF SettingsIInv, StepOfStore
<1>3. FormTypes' /\ NoticesAsked'
  BY FormStep, NoticesStep DEF SettingsIInv
<1> QED
  BY <1>1, <1>2, <1>3, OneWriterStep, NobodyForgetsStep, TurnsStep, TrackerStep, StoredStep, KnownStep,
     LoadsStep, ShownThemeStep, SlotsStep DEF SettingsIInv

(* The theme held to be on the server is the choice LastStored is about. *)
LEMMA NoLoadTakesBack == SettingsIInv => LocalFirst
<1> SUFFICES ASSUME SettingsIInv, tracker.latest > 0 PROVE LocalFirst
  BY DEF LocalFirst
<1> USE ChoiceNumbers DEF SettingsIInv
<1>1. tracker.latest = chosen /\ chosen \in Choices /\ choice[chosen].ctx = "live"
  BY DEF TrackerTrue, StoreTypes, Trackers
<1>2. ASSUME tracker.synced = tracker.latest
      PROVE server[user] = chosen \/ Abandoned(server[user]) \/ Abandoned(chosen)
  <2>1. put[chosen] \in {"done", "told", "late"}
    BY <1>2 DEF TrackerTrue
  <2> QED
    BY <1>1, <2>1 DEF LastStored, Abandoned
<1> QED
  BY <1>1, <1>2 DEF LocalFirst, LastShown

(* For any accounts, loads, saves and choices, and however sign-outs,       *)
(* renewals and late answers fall: what is shown, waited for or sent is     *)
(* the present account's, nothing waits for an answer that has come, a save *)
(* is answered to the drawer that asked, and no load takes back the theme   *)
(* chosen last (settings.ts:82-207, 325-570; useSettingsForm.ts:79-181).    *)
THEOREM SettingsSound == DrawerSpec => []SettingsInv
<1>1. SettingsIInv => SettingsTypeOK
  BY DEF SettingsIInv, SettingsTypeOK, StoreTypes, FormTypes, Numbers, Somebody, PutStates, ChoiceRec,
     GetRec, SaveRec, Intents, Trackers, Pages
<1>2. SettingsIInv => SettingsInv
  BY <1>1, NoLoadTakesBack DEF SettingsIInv, SettingsInv
<1> QED
  BY SettingsInitInv, SettingsStepInv, <1>2, PTL DEF DrawerSpec

(* For any number of choices, loads and renewals: the theme chosen last is  *)
(* not taken back by an older load; and once it is confirmed, and had been  *)
(* committed by then, it is on the server and shown, unless a PUT nobody    *)
(* waits for got there after it (settings.ts:145-177, 421-454).             *)
THEOREM LocalChoiceStands == DrawerSpec => []LocalFirst
  BY SettingsInitInv, SettingsStepInv, NoLoadTakesBack, PTL DEF DrawerSpec
=============================================================================
