---------------------------- MODULE SessionSetup ----------------------------
(***************************************************************************)
(* Creating a session, sending an agent into its room and ending it, as    *)
(* the requests of one account do it at the same time (routers/sessions.py *)
(* over database.get_db): create_session with and without an idempotency   *)
(* key, dispatch_agent and end_session, in both call lease modes.          *)
(*                                                                         *)
(* A session is named by the create request whose row it is.  PostgreSQL   *)
(* runs at READ COMMITTED: a select sees committed rows only, and an       *)
(* insert waits for an uncommitted row of the same (user, key).  get_db    *)
(* commits when the response has already gone out (FastAPI 0.141.1 leaves  *)
(* a dependency's context after the response), so what a client was told   *)
(* may still be taken back.  The lease check of the cloud mode is the      *)
(* module CallLease; here a refused request is one that is not made.       *)
(***************************************************************************)
EXTENDS Naturals, FiniteSets

CONSTANTS
  Creates,   \* the create requests of the account
  Calls,     \* its end and dispatch requests
  KeyOf,     \* [Creates -> keys]: the parsed Idempotency-Key, or NoKey
  NoKey,
  BodyOf,    \* [Creates -> fingerprints of the request bodies]
  Modes,     \* the values of CALL_LEASE_MODE to explore
  None       \* no request, no session

ASSUME CreatesAssumption == None \notin Creates \cup Calls
ASSUME ModesAssumption == Modes \subseteq {"disabled", "livekit_cloud"}

VARIABLES
  mode,      \* settings.CALL_LEASE_MODE
  row,       \* row[s]: the session's row in the database
  create,    \* create[r]: [pc, code, sid], the request and its answer
  call,      \* call[c]: [pc, sid], an end or dispatch request
  userLock,  \* the request that holds the User row (cloud mode)
  rowLock,   \* rowLock[s]: the request that holds the Session row
  jobs,      \* jobs[s]: committed analysis jobs of s
  agents,    \* agents[s]: dispatches made by a request that saw it happen
  late,      \* late[s]: creations still on their way whose request has gone
  strays     \* strays[s]: dispatches that such a creation has made

vars == <<mode, row, create, call, userLock, rowLock, jobs, agents, late, strays>>

Init ==
  /\ mode \in Modes
  /\ row = [s \in Creates |-> "none"]
  /\ create = [r \in Creates |-> [pc |-> "new", code |-> 0, sid |-> None]]
  /\ call = [c \in Calls |-> [pc |-> "idle", sid |-> None]]
  /\ userLock = None
  /\ rowLock = [s \in Creates |-> None]
  /\ jobs = [s \in Creates |-> 0]
  /\ agents = [s \in Creates |-> 0]
  /\ late = [s \in Creates |-> 0]
  /\ strays = [s \in Creates |-> 0]

Committed == {s \in Creates : row[s] \in {"active", "completed"}}

SameKey(r) == {s \in Creates \ {r} : KeyOf[r] # NoKey /\ KeyOf[s] = KeyOf[r]}

-----------------------------------------------------------------------------
(* create_session *)

Answer(r, pc, code, s) ==
  create' = [create EXCEPT ![r] = [pc |-> pc, code |-> code, sid |-> s]]

ReplayAnyContent(r, s) == Answer(r, "done", 200, s)  \* mutant: fingerprints not compared

\* The session found under the key is the answer, unless the fingerprints of
\* the two bodies differ.
Replay(r, s) == Answer(r, "done", IF BodyOf[s] = BodyOf[r] THEN 200 ELSE 409, s)

Lookup(r) ==
  /\ create[r].pc = "new" /\ KeyOf[r] # NoKey
  /\ \/ \E s \in SameKey(r) \cap Committed : Replay(r, s)
     \/ SameKey(r) \cap Committed = {} /\ Answer(r, "insert", 0, None)
  /\ UNCHANGED <<mode, row, call, userLock, rowLock, jobs, agents, late, strays>>

\* The rows' foreign key to users makes an insert and a lock of the User row
\* exclude each other: the insert waits, the lock (NOWAIT) is refused.
UserFree == userLock = None /\ (mode = "livekit_cloud" => \A s \in Creates : row[s] # "pending")

\* uq_sessions_user_idempotency_key: the insert waits for an open transaction
\* that has inserted the same key, and fails once one has committed.
Insert(r) ==
  /\ userLock = None
  /\ create[r].pc = (IF KeyOf[r] = NoKey THEN "new" ELSE "insert")
  /\ \A s \in SameKey(r) : row[s] # "pending"
  /\ IF SameKey(r) \cap Committed # {}
       THEN Answer(r, "conflict", 0, None) /\ UNCHANGED row
       ELSE Answer(r, "answered", 200, r) /\ row' = [row EXCEPT ![r] = "pending"]
  /\ UNCHANGED <<mode, call, userLock, rowLock, jobs, agents, late, strays>>

\* After the unique violation the savepoint is undone and the query repeated.
Requery(r) ==
  /\ create[r].pc = "conflict"
  /\ \E s \in SameKey(r) \cap Committed : Replay(r, s)
  /\ UNCHANGED <<mode, row, call, userLock, rowLock, jobs, agents, late, strays>>

Commit(r) ==
  /\ create[r].pc = "answered"
  /\ create' = [create EXCEPT ![r].pc = "done"]
  /\ row' = [row EXCEPT ![r] = "active"]
  /\ UNCHANGED <<mode, call, userLock, rowLock, jobs, agents, late, strays>>

\* An error, a lost connection or the death of the process: get_db rolls back,
\* whatever the client has been told.
Rollback(r) ==
  /\ create[r].pc \in {"insert", "conflict", "answered"}
  /\ create' = [create EXCEPT ![r].pc = "failed"]
  /\ row' = [row EXCEPT ![r] = IF @ = "pending" THEN "gone" ELSE @]
  /\ UNCHANGED <<mode, call, userLock, rowLock, jobs, agents, late, strays>>

\* The sessions a client can name: those an answer has named.
Named == {create[r].sid : r \in {q \in Creates : create[q].code = 200}}

-----------------------------------------------------------------------------
(* end_session *)

Set(c, pc, s) == call' = [call EXCEPT ![c] = [pc |-> pc, sid |-> s]]

\* mutant: the session is read without FOR UPDATE
EndSessionUnlocked(c, s) ==
  /\ call[c].pc = "idle" /\ s \in Named
  /\ UserFree /\ row[s] = "active"
  /\ Set(c, "ending", s)
  /\ userLock' = IF mode = "livekit_cloud" THEN c ELSE None
  /\ UNCHANGED <<mode, row, create, rowLock, jobs, agents, late, strays>>

\* mutant: the cloud mode ends a session without the account's lock
EndSessionNoUserLock(c, s) ==
  /\ call[c].pc = "idle" /\ s \in Named
  /\ rowLock[s] = None /\ row[s] = "active"
  /\ Set(c, "ending", s)
  /\ rowLock' = [rowLock EXCEPT ![s] = c]
  /\ UNCHANGED <<mode, row, create, userLock, jobs, agents, late, strays>>

\* Cloud mode: the User row NOWAIT (a refusal changes nothing), then the
\* Session row.  Disabled mode: the Session row alone, waited for.  A session
\* that is not active is answered without a change.
EndSession(c, s) ==
  /\ call[c].pc = "idle" /\ s \in Named
  /\ UserFree /\ rowLock[s] = None /\ row[s] = "active"
  /\ Set(c, "ending", s)
  /\ rowLock' = [rowLock EXCEPT ![s] = c]
  /\ userLock' = IF mode = "livekit_cloud" THEN c ELSE None
  /\ UNCHANGED <<mode, row, create, jobs, agents, late, strays>>

Unlock(c) ==
  /\ userLock' = IF userLock = c THEN None ELSE userLock
  /\ rowLock' = [s \in Creates |-> IF rowLock[s] = c THEN None ELSE rowLock[s]]

\* Status and analysis job in one transaction: committed by the endpoint in
\* cloud mode, by get_db after the answer in disabled mode.
CommitEnd(c) ==
  /\ call[c].pc = (IF mode = "livekit_cloud" THEN "ending" ELSE "told")
  /\ Set(c, "done", call[c].sid)
  /\ row' = [row EXCEPT ![call[c].sid] = "completed"]
  /\ jobs' = [jobs EXCEPT ![call[c].sid] = @ + 1]
  /\ Unlock(c)
  /\ UNCHANGED <<mode, create, agents, late, strays>>

TellEnd(c) ==
  /\ mode = "disabled" /\ call[c].pc = "ending"
  /\ Set(c, "told", call[c].sid)
  /\ UNCHANGED <<mode, row, create, userLock, rowLock, jobs, agents, late, strays>>

RollbackEnd(c) ==
  /\ call[c].pc \in {"ending", "told"}
  /\ Set(c, "done", call[c].sid)
  /\ Unlock(c)
  /\ UNCHANGED <<mode, row, create, jobs, agents, late, strays>>

-----------------------------------------------------------------------------
(* dispatch_agent *)

DispatchAgent(c, s) ==
  /\ call[c].pc = "idle" /\ s \in Named
  /\ UserFree /\ row[s] = "active"
  /\ Set(c, "list", s)
  /\ userLock' = IF mode = "livekit_cloud" THEN c ELSE None
  /\ UNCHANGED <<mode, row, create, rowLock, jobs, agents, late, strays>>

ListDispatch(c) ==
  /\ call[c].pc = "list"
  /\ IF agents[call[c].sid] + strays[call[c].sid] = 0
       THEN Set(c, "create", call[c].sid) /\ UNCHANGED <<userLock, rowLock>>
       ELSE Set(c, "done", call[c].sid) /\ Unlock(c)
  /\ UNCHANGED <<mode, row, create, jobs, agents, late, strays>>

CreateDispatch(c) ==
  /\ call[c].pc = "create"
  /\ Set(c, "done", call[c].sid)
  /\ agents' = [agents EXCEPT ![call[c].sid] = @ + 1]
  /\ Unlock(c)
  /\ UNCHANGED <<mode, row, create, jobs, late, strays>>

\* A transport error, a dead process or, in cloud mode, three seconds: 502.
\* A creation that was already sent may still be carried out.
FailDispatch(c) ==
  /\ call[c].pc \in {"list", "create"}
  /\ Set(c, "done", call[c].sid)
  /\ \/ UNCHANGED late
     \/ /\ call[c].pc = "create"
        /\ late' = [late EXCEPT ![call[c].sid] = @ + 1]
  /\ Unlock(c)
  /\ UNCHANGED <<mode, row, create, jobs, agents, strays>>

LateDispatch(s) ==
  /\ late[s] > 0
  /\ late' = [late EXCEPT ![s] = @ - 1]
  /\ strays' = [strays EXCEPT ![s] = @ + 1]
  /\ UNCHANGED <<mode, row, create, call, userLock, rowLock, jobs, agents>>

Next ==
  \/ \E r \in Creates : Lookup(r) \/ Insert(r) \/ Requery(r) \/ Commit(r) \/ Rollback(r)
  \/ \E c \in Calls, s \in Creates : EndSession(c, s) \/ DispatchAgent(c, s)
  \/ \E c \in Calls : CommitEnd(c) \/ TellEnd(c) \/ RollbackEnd(c)
  \/ \E c \in Calls : ListDispatch(c) \/ CreateDispatch(c) \/ FailDispatch(c)
  \/ \E s \in Creates : LateDispatch(s)

Spec == Init /\ [][Next]_vars

-----------------------------------------------------------------------------
RowStatus == {"none", "pending", "active", "completed", "gone"}
CreateRec == [pc : {"new", "insert", "conflict", "answered", "done", "failed"},
              code : {0, 200, 409}, sid : Creates \cup {None}]
CallRec == [pc : {"idle", "ending", "told", "list", "create", "done"},
            sid : Creates \cup {None}]

TypeOK ==
  /\ mode \in {"disabled", "livekit_cloud"}
  /\ row \in [Creates -> RowStatus]
  /\ create \in [Creates -> CreateRec]
  /\ call \in [Calls -> CallRec]
  /\ userLock \in Calls \cup {None}
  /\ rowLock \in [Creates -> Calls \cup {None}]
  /\ jobs \in [Creates -> Nat] /\ agents \in [Creates -> Nat]
  /\ late \in [Creates -> Nat] /\ strays \in [Creates -> Nat]

(* One key, one session, whatever order the requests of that key take and   *)
(* whichever of them fail: at most one row of a key is ever committed, a    *)
(* replay is only ever of a committed row with the same content, a refusal  *)
(* of one with other content, and a request that is told of a session of    *)
(* its own has that row, or has lost it in a rollback (sessions.py:138-197).*)
IdempotentCreate ==
  \A r \in Creates :
    /\ r \in Committed => SameKey(r) \cap Committed = {}
    /\ create[r].pc = "done" => create[r].sid \in Committed
    /\ create[r].code = 200 /\ create[r].sid # r =>
         create[r].sid \in SameKey(r) /\ BodyOf[create[r].sid] = BodyOf[r]
    /\ create[r].code = 409 =>
         create[r].sid \in SameKey(r) /\ BodyOf[create[r].sid] # BodyOf[r]

(* A session that has ended has exactly one analysis job and one that has   *)
(* not has none, however often and from wherever it is ended at once, and   *)
(* whichever of those requests is rolled back (sessions.py:384-440).        *)
EndedOnce == \A s \in Creates : jobs[s] = (IF row[s] = "completed" THEN 1 ELSE 0)

(* In cloud mode an agent is sent only into a session that is still active, *)
(* and every agent beyond the first is one whose request had failed before  *)
(* LiveKit carried it out (sessions.py:676-707).                            *)
AgentsAccounted ==
  mode = "livekit_cloud" =>
    /\ \A s \in Creates : agents[s] <= 1
    /\ \A c \in Calls : call[c].pc \in {"list", "create"} => row[call[c].sid] = "active"
=============================================================================
