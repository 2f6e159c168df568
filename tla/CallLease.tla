----------------------------- MODULE CallLease -----------------------------
(***************************************************************************)
(* The call lease of one account, with CALL_LEASE_MODE = livekit_cloud:    *)
(* the row of call_leases, the transactions that change it under the       *)
(* account's User row lock, and LiveKit Cloud as they use it.              *)
(*                                                                         *)
(* Source: backend/services/call_leases.py and the endpoints claim,        *)
(* heartbeat, release, end and token of backend/routers/sessions.py.       *)
(*                                                                         *)
(* Every operation first takes the User row FOR UPDATE NOWAIT.  One that   *)
(* awaits nothing outside the database is therefore a single action,       *)
(* enabled while no other operation holds the lock; the 409 call_lease_busy*)
(* answer, like every other refusal, changes nothing and is not an action. *)
(* An operation that has to remove a participant at the Cloud holds the    *)
(* lock across that await: it is a Begin action, what the Cloud does, and  *)
(* a Commit action, with Abort for an error, a timeout, a cancelled        *)
(* request, a failed commit or a crash in between.                         *)
(*                                                                         *)
(* Requests are not messages here: any device may present any tuple it was *)
(* ever given, at any time, which covers late, repeated and reordered      *)
(* requests.                                                               *)
(***************************************************************************)
EXTENDS Naturals, FiniteSets

CONSTANTS
  Sessions,      \* sessions of the account
  Devices,       \* devices of the account
  NoSession,     \* NULL session_id
  NoDevice,      \* NULL device_id
  Ttl,           \* LEASE_TTL_SECONDS
  TokenTtl,      \* the 60 s cap on a token's life
  RefreshTtl,    \* life of the token the Cloud refreshes a participant with
  RevokeSkew,    \* the 30 s added to now in revoke_token_ts
  CloudTimeout,  \* CLOUD_TIMEOUT_SECONDS
  MaxClock,      \* bound: last instant of a behaviour
  MaxGeneration  \* bound: grants in a behaviour

ASSUME NullAssumption == NoSession \notin Sessions /\ NoDevice \notin Devices
ASSUME TimeAssumption ==
  /\ Ttl \in Nat /\ TokenTtl \in Nat /\ RefreshTtl \in Nat
  /\ RevokeSkew \in Nat /\ CloudTimeout \in Nat
  /\ MaxClock \in Nat /\ MaxGeneration \in Nat

(* The contract's premise: the cutoff reaches past the end of the revoke   *)
(* request, so that it covers every token issued while the request ran.    *)
ASSUME SkewAssumption == RevokeSkew > CloudTimeout

Generations == 0..MaxGeneration
Participants == [session : Sessions, generation : Generations]

VARIABLES
  lease,      \* the account's row of call_leases
  status,     \* sessions.status of each session
  jobs,       \* sessions whose analysis job exists
  tx,         \* the operation that holds the User row lock across an await
  clock,      \* the backend's (and the Cloud's) UTC clock
  tokens,     \* Cloud: join tokens that have not reached their expiry
  cutoff,     \* Cloud: per participant, tokens issued before it are refused
  connected,  \* Cloud: participants in a room
  flight      \* Cloud: RemoveParticipant requests it has not carried out

cloud == <<tokens, cutoff, connected, flight>>
vars == <<lease, status, jobs, tx, clock, tokens, cutoff, connected, flight>>

Idle == [op |-> "none", phase |-> "idle", session |-> NoSession,
         device |-> NoDevice, at |-> 0]

Held == lease.state = "held"
Active(s) == status[s] = "active"

(* The lease is held by exactly this session and device. *)
HeldBy(s, d) == Held /\ lease.session = s /\ lease.device = d

(* ... and under this generation: the tuple check of every operation.      *)
Owns(s, d, g) == HeldBy(s, d) /\ lease.generation = g

(* The participant identity "<user>:<generation>" in the lease's room.     *)
Holder == [session |-> lease.session, generation |-> lease.generation]

Participant(t) == [session |-> t.session, generation |-> t.generation]
Usable(t) == t.issued >= cutoff[Participant(t)]

(* Defects: the cutoff without the skew; the identity of the generation    *)
(* about to be granted.                                                    *)
RevokeRequestNoSkew(at) == [who |-> Holder, before |-> at]
RevokeRequestEarlyBump(at) ==
  [who |-> [Holder EXCEPT !.generation = @ + 1], before |-> at + RevokeSkew]

(* RoomParticipantIdentity(room, identity, revoke_token_ts). *)
RevokeRequest(at) == [who |-> Holder, before |-> at + RevokeSkew]

TypeOK ==
  /\ lease \in [state : {"free", "held"}, session : Sessions \cup {NoSession},
                device : Devices \cup {NoDevice}, generation : Generations,
                expires : Nat]
  /\ status \in [Sessions -> {"active", "completed"}]
  /\ jobs \subseteq Sessions
  /\ tx \in [op : {"none", "claim", "release", "end"},
             phase : {"idle", "revoking", "revoked"},
             session : Sessions \cup {NoSession},
             device : Devices \cup {NoDevice}, at : Nat]
  /\ clock \in Nat
  /\ tokens \subseteq [session : Sessions, generation : Generations,
                       issued : Nat, expires : Nat]
  /\ cutoff \in [Participants -> Nat]
  /\ connected \subseteq Participants
  /\ flight \subseteq [who : Participants, before : Nat]

Init ==
  /\ lease = [state |-> "free", session |-> NoSession, device |-> NoDevice,
              generation |-> 0, expires |-> 0]
  /\ status = [s \in Sessions |-> "active"]
  /\ jobs = {}
  /\ tx = Idle
  /\ clock = 0
  /\ tokens = {}
  /\ cutoff = [p \in Participants |-> 0]
  /\ connected = {}
  /\ flight = {}

-----------------------------------------------------------------------------
(* Defect: the device that had the lease last gets its old generation back.*)
GrantSameGeneration(s, d, now) ==
  /\ lease.generation < MaxGeneration
  /\ lease' = [state |-> "held", session |-> s, device |-> d,
               generation |-> IF d = lease.device THEN lease.generation
                              ELSE lease.generation + 1,
               expires |-> now + Ttl]

(* Grant the lease under the next generation, with a TTL counted from now. *)
Grant(s, d, now) ==
  /\ lease.generation < MaxGeneration
  /\ lease' = [state |-> "held", session |-> s, device |-> d,
               generation |-> lease.generation + 1, expires |-> now + Ttl]

(* Mark the lease free; the row keeps the last tuple. *)
Free == lease' = [lease EXCEPT !.state = "free", !.expires = 0]

(* Start to remove the present owner's participant, keeping the lock.      *)
(* Bound: an operation begins only if its timeout is within MaxClock.      *)
BeginRevoke(op, s, d) ==
  /\ clock + CloudTimeout <= MaxClock
  /\ tx' = [op |-> op, phase |-> "revoking", session |-> s, device |-> d,
            at |-> clock]
  /\ flight' = flight \cup {RevokeRequest(clock)}
  /\ UNCHANGED <<lease, status, jobs, clock, tokens, cutoff, connected>>

(* POST call/claim on a lease nobody holds. *)
ClaimFree(s, d) ==
  /\ tx = Idle /\ Active(s) /\ ~Held
  /\ Grant(s, d, clock)
  /\ UNCHANGED <<status, jobs, tx, clock, cloud>>

(* POST call/claim by the session and device that hold it, even expired. *)
ClaimAgain(s, d) ==
  /\ tx = Idle /\ Active(s) /\ HeldBy(s, d)
  /\ lease' = [lease EXCEPT !.expires = clock + Ttl]
  /\ UNCHANGED <<status, jobs, tx, clock, cloud>>

(* Defect: an expired owner is replaced without removing it first. *)
BeginTakeoverExpiredFree(s, d) ==
  /\ tx = Idle /\ Active(s) /\ Held /\ ~HeldBy(s, d)
  /\ IF lease.expires <= clock
       THEN Grant(s, d, clock) /\ UNCHANGED <<status, jobs, tx, clock, cloud>>
       ELSE lease.generation < MaxGeneration /\ BeginRevoke("claim", s, d)

(* POST call/claim with takeover = true on another's lease, even expired.  *)
(* Without takeover the answer is 409 call_in_use.                         *)
BeginTakeover(s, d) ==
  /\ tx = Idle /\ Active(s) /\ Held /\ ~HeldBy(s, d)
  /\ lease.generation < MaxGeneration
  /\ BeginRevoke("claim", s, d)

CommitTakeover ==
  /\ tx.op = "claim" /\ tx.phase = "revoked"
  /\ Grant(tx.session, tx.device, tx.at)
  /\ tx' = Idle
  /\ UNCHANGED <<status, jobs, clock, cloud>>

(* POST call/heartbeat. *)
Heartbeat(s, d, g) ==
  /\ tx = Idle /\ Active(s) /\ Owns(s, d, g)
  /\ lease.expires > clock
  /\ lease' = [lease EXCEPT !.expires = clock + Ttl]
  /\ UNCHANGED <<status, jobs, tx, clock, cloud>>

(* POST call/release by the owner; on a free lease it changes nothing. *)
BeginRelease(s, d, g) ==
  /\ tx = Idle /\ Owns(s, d, g)
  /\ BeginRevoke("release", s, d)

CommitRelease ==
  /\ tx.op = "release" /\ tx.phase = "revoked"
  /\ Free
  /\ tx' = Idle
  /\ UNCHANGED <<status, jobs, clock, cloud>>

(* Defect: any active session ends without a look at the lease. *)
EndUnheldUnchecked(s) ==
  /\ tx = Idle /\ Active(s)
  /\ status' = [status EXCEPT ![s] = "completed"]
  /\ jobs' = jobs \cup {s}
  /\ UNCHANGED <<lease, tx, clock, cloud>>

(* Defect: ... or without waiting for the User row lock. *)
EndUnheldUnlocked(s) ==
  /\ Active(s) /\ ~(Held /\ lease.session = s)
  /\ status' = [status EXCEPT ![s] = "completed"]
  /\ jobs' = jobs \cup {s}
  /\ UNCHANGED <<lease, tx, clock, cloud>>

(* POST end of a session that does not hold the lease. *)
EndUnheld(s) ==
  /\ tx = Idle /\ Active(s) /\ ~(Held /\ lease.session = s)
  /\ status' = [status EXCEPT ![s] = "completed"]
  /\ jobs' = jobs \cup {s}
  /\ UNCHANGED <<lease, tx, clock, cloud>>

(* POST end of the session that holds it: remove the participant first. *)
BeginEnd(s) ==
  /\ tx = Idle /\ Active(s) /\ Held /\ lease.session = s
  /\ BeginRevoke("end", s, NoDevice)

CommitEnd ==
  /\ tx.op = "end" /\ tx.phase = "revoked"
  /\ Free
  /\ status' = [status EXCEPT ![tx.session] = "completed"]
  /\ jobs' = jobs \cup {tx.session}
  /\ tx' = Idle
  /\ UNCHANGED <<clock, cloud>>

(* The removal failed, the request was cancelled, the commit failed or the *)
(* process died: the transaction rolls back and the lock goes.  The Cloud  *)
(* may carry out the removal all the same, now or later.                   *)
Abort ==
  /\ tx # Idle
  /\ tx' = Idle
  /\ UNCHANGED <<lease, status, jobs, clock, cloud>>

(* Defect: the removal is awaited without a timeout. *)
TimeoutMissing == FALSE /\ UNCHANGED vars

(* asyncio.timeout ends a removal the Cloud has not answered in time. *)
Timeout ==
  /\ tx.phase = "revoking" /\ clock >= tx.at + CloudTimeout
  /\ Abort

(* GET token for the owner's room and identity. *)
IssueToken(s, d, g) ==
  /\ tx = Idle /\ Active(s) /\ Owns(s, d, g)
  /\ lease.expires >= clock + 1
  /\ LET remaining == lease.expires - clock
         ttl == IF remaining < TokenTtl THEN remaining ELSE TokenTtl
     IN  tokens' = tokens \cup {[session |-> s, generation |-> g,
                                 issued |-> clock, expires |-> clock + ttl]}
  /\ UNCHANGED <<lease, status, jobs, tx, clock, cutoff, connected, flight>>

-----------------------------------------------------------------------------
(* LiveKit Cloud carries out a removal: the participant is disconnected    *)
(* and its tokens issued before the cutoff are refused from then on.  The  *)
(* operation awaiting it may or may not hear of it.                        *)
CloudRemove(r, heard) ==
  /\ r \in flight
  /\ flight' = flight \ {r}
  /\ connected' = connected \ {r.who}
  /\ cutoff' = [cutoff EXCEPT ![r.who] = IF @ < r.before THEN r.before ELSE @]
  /\ \/ /\ heard
        /\ tx.phase = "revoking" /\ r = RevokeRequest(tx.at)
        /\ tx' = [tx EXCEPT !.phase = "revoked"]
     \/ ~heard /\ UNCHANGED tx
  /\ UNCHANGED <<lease, status, jobs, clock, tokens>>

(* A client enters the room with a token the Cloud still accepts. *)
Join(t) ==
  /\ t \in tokens /\ Usable(t)
  /\ connected' = connected \cup {Participant(t)}
  /\ UNCHANGED <<lease, status, jobs, tx, clock, tokens, cutoff, flight>>

(* A client leaves the room or loses its connection. *)
Leave(p) ==
  /\ p \in connected
  /\ connected' = connected \ {p}
  /\ UNCHANGED <<lease, status, jobs, tx, clock, tokens, cutoff, flight>>

(* The Cloud hands a connected participant a fresh token to reconnect with.*)
Refresh(p) ==
  /\ p \in connected
  /\ tokens' = tokens \cup {[session |-> p.session, generation |-> p.generation,
                             issued |-> clock, expires |-> clock + RefreshTtl]}
  /\ UNCHANGED <<lease, status, jobs, tx, clock, cutoff, connected, flight>>

(* Time passes; a removal is never awaited beyond its timeout. *)
Tick ==
  /\ clock < MaxClock
  /\ tx.phase = "revoking" => clock < tx.at + CloudTimeout
  /\ clock' = clock + 1
  /\ tokens' = {t \in tokens : t.expires > clock'}
  /\ UNCHANGED <<lease, status, jobs, tx, cutoff, connected, flight>>

-----------------------------------------------------------------------------
Next ==
  \/ \E s \in Sessions, d \in Devices :
        ClaimFree(s, d) \/ ClaimAgain(s, d) \/ BeginTakeover(s, d)
  \/ \E s \in Sessions, d \in Devices, g \in Generations :
        Heartbeat(s, d, g) \/ BeginRelease(s, d, g) \/ IssueToken(s, d, g)
  \/ \E s \in Sessions : EndUnheld(s) \/ BeginEnd(s)
  \/ CommitTakeover \/ CommitRelease \/ CommitEnd \/ Abort \/ Timeout
  \/ \E r \in flight, heard \in BOOLEAN : CloudRemove(r, heard)
  \/ \E t \in tokens : Join(t)
  \/ \E p \in connected : Leave(p) \/ Refresh(p)
  \/ Tick

Spec == Init /\ [][Next]_vars

(* Time passes, a deadline that has passed ends its await, and a           *)
(* transaction that has heard from the Cloud has nothing left to wait for. *)
(* Nothing is asked of the Cloud, which may never answer, nor of clients.  *)
Fairness ==
  /\ WF_vars(Tick)
  /\ WF_vars(Timeout)
  /\ WF_vars(CommitTakeover) /\ WF_vars(CommitRelease) /\ WF_vars(CommitEnd)

FairSpec == Spec /\ Fairness

-----------------------------------------------------------------------------
(* One call at a time: whoever is in a room, and whatever token the Cloud  *)
(* would still accept, belongs to the lease's present holder.  It is what  *)
(* "remove first, then grant" is for, and has to survive failed, late and  *)
(* half-heard removals, crashes before the commit and refreshed tokens.    *)
OnlyHolderCapable ==
  /\ \A p \in connected : Held /\ p = Holder
  /\ \A t \in tokens : Usable(t) => Held /\ Participant(t) = Holder

(* The operation under way is consistent with the row it has locked, and   *)
(* once the Cloud has confirmed the removal the call is empty and stays so *)
(* until the commit, however long that takes.                              *)
TxConsistent ==
  /\ tx.op = "none" <=> tx = Idle
  /\ tx.phase = "idle" <=> tx = Idle
  /\ tx # Idle => Held /\ tx.session \in Sessions
  /\ tx.op = "claim" => /\ tx.device \in Devices /\ Active(tx.session)
                        /\ lease.generation < MaxGeneration
  /\ tx.op = "end" => tx.session = lease.session
  /\ tx.phase = "revoking" => clock <= tx.at + CloudTimeout
  /\ tx.phase = "revoked" => /\ connected = {}
                             /\ \A t \in tokens : ~Usable(t)

(* A held row names an owner, and every token was issued in the past. *)
Grounded ==
  /\ Held => lease.session \in Sessions /\ lease.device \in Devices
  /\ \A t \in tokens : t.issued <= clock

(* Ending a session is all or nothing: it is completed exactly when it has *)
(* its analysis job, and a completed session never holds the lease, no     *)
(* matter how end, claim and takeover interleave with failing removals.    *)
EndAllOrNothing ==
  \A s \in Sessions :
    /\ status[s] = "completed" <=> s \in jobs
    /\ status[s] = "completed" => ~(Held /\ lease.session = s)

(* A removal meant for an old owner never reaches a later one: no removal  *)
(* in flight and no cutoff in force names a generation not yet granted.    *)
NextOwnerUnharmed ==
  \A p \in Participants : p.generation > lease.generation =>
    cutoff[p] = 0 /\ \A r \in flight : r.who # p

(* Generations fence: they never go back, and as long as one lasts its     *)
(* session and device stay and a released lease stays released, so that a  *)
(* tuple that was superseded or released never passes the tuple check      *)
(* again, whatever late request presents it.                               *)
GenerationsFence ==
  [][/\ lease'.generation >= lease.generation
     /\ lease'.generation = lease.generation =>
          /\ lease'.session = lease.session /\ lease'.device = lease.device
          /\ lease'.state = "held" => Held]_vars

(* The account never stays locked: whatever the Cloud does or fails to do, *)
(* an operation that holds the User row lock across its removal lets go.   *)
LockReleased == tx # Idle ~> tx = Idle

(* The lease implements the abstract exclusion: a participant is capable   *)
(* while it is in its room or has a token that the Cloud accepts.  So the  *)
(* lease changes hands, and is given back, only when the Cloud would let   *)
(* nobody in and nobody is left inside.                                    *)
Owners == IF Held THEN {[session |-> lease.session, device |-> lease.device,
                         generation |-> lease.generation]}
                  ELSE {}
Capable == connected \cup {Participant(t) : t \in {u \in tokens : Usable(u)}}

Exclusion == INSTANCE CallExclusion WITH
  owner <- Owners, generation <- lease.generation, capable <- Capable

ImplementsExclusion == Exclusion!Spec

(* The inductive invariant: the properties above and what they rest on.    *)
(* The account's row, the lock and the Cloud agree in every state a crash, *)
(* a late removal or a slow commit can leave behind.                       *)
Inv ==
  /\ TypeOK
  /\ Grounded
  /\ TxConsistent
  /\ OnlyHolderCapable
  /\ EndAllOrNothing
  /\ NextOwnerUnharmed
=============================================================================
