---------------------------- MODULE AuthSession ----------------------------
(***************************************************************************)
(* Who is signed in, in one page of the client (lib/auth.ts), and the      *)
(* requests made in their name (request in lib/api.ts).  The snapshot the  *)
(* page shows, the credential in the session storage and the revision that *)
(* ties work in flight to them are changed by the start-up lookup, by the  *)
(* exchange of a redirect's code, by events of the OIDC library, by        *)
(* sign-outs and refused requests, and by removals of the credential that  *)
(* the library carries out later.  Loading the page again keeps the        *)
(* storage and starts everything else afresh.                              *)
(*                                                                         *)
(* The mode is "oidc"; the other modes publish one snapshot and stop.      *)
(***************************************************************************)
EXTENDS Naturals

CONSTANTS
  Users,      \* the identities a credential can be for
  Nameless,   \* a credential whose profile has no issuer or no subject
  Reqs,       \* the requests of the API client
  None,       \* no user, no token
  MaxRev      \* bound on the revision at which the library may sign in

States == {"loading", "anonymous", "misconfigured"}  \* snapshots without a principal

ASSUME UsersAssumption ==
  /\ Nameless \notin Users /\ None \notin Users \cup {Nameless}
  /\ Users \cap States = {}
ASSUME MaxRevAssumption == MaxRev \in Nat

VARIABLES
  snap,      \* currentSnapshot: a state without a principal, or the user
  rev,       \* currentRevision
  seq,       \* activeInitSequence
  op,        \* op[i]: [pc, seq, rev, user], the start-up operations
  code,      \* the user whose code is in the page's address, or None
  used,      \* its state has been consumed
  stored,    \* [user, expired, rev]: the credential and its keyRevision
  target,    \* activeCleanupRevision
  removals,  \* storeUser(null) calls not carried out yet
  req        \* req[q]: [pc, rev, who, token]

vars == <<snap, rev, seq, op, code, used, stored, target, removals, req>>

Ops == 1..2     \* StrictMode mounts the gate twice

NoCred == [user |-> None, expired |-> FALSE, rev |-> 0]
NoOp == [pc |-> "none", seq |-> 0, rev |-> 0, user |-> None]
NoReq == [pc |-> "idle", rev |-> 0, who |-> None, token |-> None]

\* The page is loaded, with or without a redirect's code in its address; one
\* loaded again in the middle of an exchange has a code already consumed.
Fresh ==
  /\ snap = "loading" /\ rev = 1 /\ seq = 0
  /\ op = [i \in Ops |-> NoOp]
  /\ code \in Users \cup {Nameless, None} /\ used \in BOOLEAN
  /\ target = 0 /\ removals = 0
  /\ req = [q \in Reqs |-> NoReq]

Init == Fresh /\ stored \in {NoCred} \cup [user : Users, expired : BOOLEAN, rev : {0}]

\* The page may be loaded again before a removal is carried out, which is lost
\* with it: the credential stays.
Load ==
  /\ snap' = "loading" /\ rev' = 1 /\ seq' = 0
  /\ op' = [i \in Ops |-> NoOp]
  /\ code' \in Users \cup {Nameless, None} /\ used' \in BOOLEAN
  /\ target' = 0 /\ removals' = 0
  /\ req' = [q \in Reqs |-> NoReq]
  /\ stored' = [stored EXCEPT !.rev = 0]

\* Every snapshot published ends the ownership of all work in flight.
Publish(s) == snap' = s /\ rev' = rev + 1 /\ seq' = seq + 1

\* extractPrincipalFromUser of a credential, and the snapshot it makes.
SnapshotOf(user, expired) ==
  IF user = None \/ expired THEN "anonymous"
  ELSE IF user = Nameless THEN "misconfigured" ELSE user

-----------------------------------------------------------------------------
(* AtomicWebStorageStore *)

RemoveAny == stored' = NoCred  \* mutant: the revision of the entry is not compared

\* An entry written after the sign-out a removal belongs to is kept.
Remove == stored' = IF target > 0 /\ stored.rev > target THEN stored ELSE NoCred

Removal ==
  /\ removals > 0
  /\ removals' = removals - 1
  /\ Remove
  /\ UNCHANGED <<snap, rev, seq, op, code, used, target, req>>

-----------------------------------------------------------------------------
(* initializeAuthSnapshot *)

InFlight == \E i \in Ops : op[i].pc \in {"exchange", "exchanged", "clearing"}

Owns(i) == op[i].seq = seq /\ op[i].rev = rev

Done(i) == op' = [op EXCEPT ![i] = [NoOp EXCEPT !.pc = "done"]]

Begin(i, pc) ==
  /\ seq' = seq + 1
  /\ op' = [op EXCEPT ![i] = [pc |-> pc, seq |-> seq + 1, rev |-> rev, user |-> None]]

\* mutant: the sequence is taken before the shared exchange is looked for
MountSupersedes(i) ==
  /\ op[i].pc = "none" /\ snap = "loading"
  /\ \A j \in Ops : j < i => op[j].pc # "none"
  /\ IF code # None
       THEN IF InFlight
              THEN op' = [op EXCEPT ![i].pc = "shared"] /\ seq' = seq + 1
              ELSE Begin(i, "exchange")
       ELSE Begin(i, "lookup")
  /\ UNCHANGED <<snap, rev, code, used, stored, target, removals, req>>

\* The gate is mounted: an exchange of the same code is shared, any other
\* operation in flight is superseded.
Mount(i) ==
  /\ op[i].pc = "none" /\ snap = "loading"
  /\ \A j \in Ops : j < i => op[j].pc # "none"
  /\ IF code # None
       THEN IF InFlight
              THEN op' = [op EXCEPT ![i].pc = "shared"] /\ UNCHANGED seq
              ELSE Begin(i, "exchange")
       ELSE Begin(i, "lookup")
  /\ UNCHANGED <<snap, rev, code, used, stored, target, removals, req>>

\* signinRedirectCallback answers with a user, which its operation's store
\* has written if the operation still owned the page.
Exchange(i, expired) ==
  /\ op[i].pc = "exchange" /\ ~used
  /\ used' = TRUE
  /\ op' = [op EXCEPT ![i].pc = "exchanged", ![i].user = IF expired THEN None ELSE code]
  /\ stored' = IF Owns(i) THEN [user |-> code, expired |-> expired, rev |-> rev] ELSE stored
  /\ UNCHANGED <<snap, rev, seq, code, target, removals, req>>

\* It fails: the network, the provider, or a state consumed before.
ExchangeFails(i) ==
  /\ op[i].pc = "exchange"
  /\ used' = TRUE
  /\ Done(i)
  /\ IF Owns(i)
       THEN Publish("misconfigured") /\ code' = None
       ELSE UNCHANGED <<snap, rev, seq, code>>
  /\ UNCHANGED <<stored, target, removals, req>>

\* The page is left alone unless the operation still owns it; a user that is
\* expired or nameless is first taken out of the storage.
Exchanged(i) ==
  /\ op[i].pc = "exchanged"
  /\ IF ~Owns(i)
       THEN Done(i) /\ UNCHANGED <<snap, rev, seq, code, stored>>
       ELSE /\ code' = None
            /\ IF op[i].user \in Users
                 THEN /\ Done(i)
                      /\ Publish(op[i].user)
                      /\ UNCHANGED stored
                 ELSE /\ op' = [op EXCEPT ![i].pc = "clearing"]
                      /\ Remove
                      /\ UNCHANGED <<snap, rev, seq>>
  /\ UNCHANGED <<used, target, removals, req>>

Cleared(i) ==
  /\ op[i].pc = "clearing"
  /\ Done(i)
  /\ IF Owns(i)
       THEN Publish(SnapshotOf(op[i].user, FALSE))
       ELSE UNCHANGED <<snap, rev, seq>>
  /\ UNCHANGED <<code, used, stored, target, removals, req>>

\* getUser reads the storage; its answer, or its failure, comes later.
Lookup(i) ==
  /\ op[i].pc = "lookup"
  /\ op' = [op EXCEPT ![i].pc = "looked", ![i].user = IF stored.expired THEN None ELSE stored.user]
  /\ UNCHANGED <<snap, rev, seq, code, used, stored, target, removals, req>>

Looked(i) ==
  /\ op[i].pc = "looked"
  /\ Done(i)
  /\ IF Owns(i)
       THEN \E s \in {SnapshotOf(op[i].user, FALSE), "misconfigured"} : Publish(s)
       ELSE UNCHANGED <<snap, rev, seq>>
  /\ UNCHANGED <<code, used, stored, target, removals, req>>

-----------------------------------------------------------------------------
(* Events of the OIDC library *)

\* The library has a new user, stores it and tells of it.
UserLoaded(u) ==
  /\ rev < MaxRev /\ op[1].pc # "none"
  /\ stored' = [user |-> u, expired |-> FALSE, rev |-> rev]
  /\ Publish(SnapshotOf(u, FALSE))
  /\ UNCHANGED <<op, code, used, target, removals, req>>

Expire ==
  /\ stored.user # None /\ ~stored.expired
  /\ stored' = [stored EXCEPT !.expired = TRUE]
  /\ UNCHANGED <<snap, rev, seq, op, code, used, target, removals, req>>

AccessTokenExpired ==
  /\ stored.user # None /\ stored.expired
  /\ snap \in Users
  /\ Publish("anonymous")
  /\ UNCHANGED <<op, code, used, stored, target, removals, req>>

-----------------------------------------------------------------------------
(* Sign-outs and requests *)

\* invalidateAuthSession of the current revision.
Invalidate ==
  /\ Publish("anonymous")
  /\ target' = rev
  /\ removals' = removals + 1

\* beginLogout from the settings page.
Logout ==
  /\ snap \in Users
  /\ Invalidate
  /\ UNCHANGED <<op, code, used, stored, req>>

Request(q) ==
  /\ req[q].pc = "idle" /\ snap \in Users
  /\ req' = [req EXCEPT ![q] = [pc |-> "token", rev |-> rev, who |-> snap, token |-> None]]
  /\ UNCHANGED <<snap, rev, seq, op, code, used, stored, target, removals>>

GetAccessToken(q) ==
  /\ req[q].pc = "token"
  /\ req' = [req EXCEPT ![q].pc = "read",
                        ![q].token = IF stored.expired THEN None ELSE stored.user]
  /\ UNCHANGED <<snap, rev, seq, op, code, used, stored, target, removals>>

FetchAnyway(q) ==  \* mutant: the revision is not compared after the token
  /\ req[q].pc = "read"
  /\ req' = [req EXCEPT ![q].pc = "sent"]
  /\ UNCHANGED <<snap, rev, seq, op, code, used, stored, target, removals>>

Fetch(q) ==
  /\ req[q].pc = "read"
  /\ req' = [req EXCEPT ![q] = IF req[q].rev = rev THEN [@ EXCEPT !.pc = "sent"] ELSE NoReq]
  /\ UNCHANGED <<snap, rev, seq, op, code, used, stored, target, removals>>

Answered(q) ==
  /\ req[q].pc = "sent"
  /\ req' = [req EXCEPT ![q] = NoReq]
  /\ UNCHANGED <<snap, rev, seq, op, code, used, stored, target, removals>>

\* A 401 signs out the revision the request was made in, and no other.
Unauthorised(q) ==
  /\ req[q].pc = "sent"
  /\ req' = [req EXCEPT ![q] = NoReq]
  /\ IF req[q].rev = rev
       THEN Invalidate
       ELSE UNCHANGED <<snap, rev, seq, target, removals>>
  /\ UNCHANGED <<op, code, used, stored>>

Startup ==
  \/ \E i \in Ops : Mount(i) \/ ExchangeFails(i) \/ Exchanged(i) \/ Cleared(i)
  \/ \E i \in Ops, expired \in BOOLEAN : Exchange(i, expired)
  \/ \E i \in Ops : Lookup(i) \/ Looked(i)

Next ==
  \/ Load
  \/ Startup
  \/ Removal
  \/ \E u \in Users \cup {Nameless} : UserLoaded(u)
  \/ Expire \/ AccessTokenExpired
  \/ Logout
  \/ \E q \in Reqs : Request(q) \/ GetAccessToken(q) \/ Fetch(q)
  \/ \E q \in Reqs : Answered(q) \/ Unauthorised(q)

\* The gate is mounted when the page is loaded, and the library answers: a
\* start-up operation in flight is settled one way or the other.
Spec == Init /\ [][Next]_vars /\ WF_vars(Startup)

-----------------------------------------------------------------------------
Owners == Users \cup {Nameless, None}
OpRec == [pc : {"none", "shared", "exchange", "exchanged", "clearing", "lookup", "looked", "done"},
          seq : Nat, rev : Nat, user : Owners]
CredRec == [user : Owners, expired : BOOLEAN, rev : Nat]
ReqRec == [pc : {"idle", "token", "read", "sent"}, rev : Nat,
           who : Users \cup {None}, token : Owners]

TypeOK ==
  /\ snap \in States \cup Users
  /\ rev \in Nat \ {0} /\ seq \in Nat
  /\ op \in [Ops -> OpRec]
  /\ code \in Owners /\ used \in BOOLEAN
  /\ stored \in CredRec
  /\ target \in Nat /\ removals \in Nat
  /\ req \in [Reqs -> ReqRec]

(* The credential in the storage is that of the user the page shows: a late *)
(* exchange has not replaced it and a late removal of an earlier user's has *)
(* not deleted it.  And once its removals are carried out, nothing that a   *)
(* sign-out of this page was to remove is left (auth.ts:43-104, 255-280,    *)
(* 491-510).                                                                *)
OwnCredential ==
  /\ snap \in Users => stored.user = snap
  /\ target > 0 /\ removals = 0 /\ stored.user # None => stored.rev > target

(* The two together, as the run checks them. *)
Inv == TypeOK /\ OwnCredential

(* A request goes out with the token of the user it was begun for and while *)
(* that user is still signed in, or with none; and when it comes back with  *)
(* a 401 it signs out nobody else (api.ts:52-58, 86; auth.ts:491-494).      *)
RequestAsItself ==
  [][\A q \in Reqs :
       /\ req[q].pc = "read" /\ req'[q].pc = "sent" =>
            snap = req[q].who /\ req[q].token \in {req[q].who, None}
       /\ req[q].pc = "sent" /\ req'[q].pc = "idle" /\ snap \in Users /\ snap' = "anonymous" =>
            snap = req[q].who]_vars

(* A page does not stay on its loading screen: the operation that owns it   *)
(* settles, or one that took the page from it does, unless the page is      *)
(* loaded again (auth.ts:289-464).                                          *)
LoadingEnds ==
  (snap = "loading" /\ op[1].pc # "none") ~> (snap # "loading" \/ op[1].pc = "none")
=============================================================================
