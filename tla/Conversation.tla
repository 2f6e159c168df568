---------------------------- MODULE Conversation ----------------------------
(***************************************************************************)
(* The client's conversation: the store with its session state machine     *)
(* (store/conversation.ts, conversationState.ts) and the room that React   *)
(* mounts from it (RoomSession.tsx, useRoomAuthOwnership.ts,               *)
(* ActiveConversation.tsx), under the auth gate (AuthGate.tsx).            *)
(*                                                                         *)
(* JavaScript runs a handler to its next await without interruption, so a  *)
(* step of the model is one such stretch: a user's action, the settling of *)
(* one awaited call, one auth or lifecycle event with the subscribers it   *)
(* notifies (the gate first), or one React commit with its effects.        *)
(*                                                                         *)
(* A startup (start, resume or the recheck of the readiness) owns a        *)
(* generation.  It is cancelled by disposing its tracker and moving the    *)
(* generation on, but its awaited call still comes back.  A session is     *)
(* named by the generation of the startup that created it; its token is    *)
(* represented by the account that it was issued to.                       *)
(***************************************************************************)
EXTENDS Naturals, FiniteSets

CONSTANTS
  Users,   \* principals (issuer and subject)
  None,    \* nobody signed in, no token, no room, no watch
  MaxGen,  \* bound: no startup begins above this generation
  MaxRev   \* bound: auth revisions

ASSUME BoundsAssumption == MaxGen \in Nat \ {0} /\ MaxRev \in Nat \ {0}

VARIABLES
  native,  \* isNativeIos: the lifecycle has to be awaited
  auth,    \* the auth snapshot: [user, rev]
  fore,    \* visible and online
  st,      \* the store
  watch,   \* the readiness watch: [user, rev, gen] or None
  tracker, \* generation of currentStartupTracker, or 0
  runs,    \* startups whose awaited call has not come back
  ends,    \* apiEndSession calls under way
  room,    \* the mounted RoomSession, or None
  calls,   \* dispatchAgent calls under way
  mark,    \* <<dispatchedSessionId, dispatchedGen>>
  server   \* the sessions the server has: [status, user]

vars == <<native, auth, fore, st, watch, tracker, runs, ends, room, calls, mark, server>>

Starting == {"checking_health", "creating_session", "fetching_token"}
RoomPhases == {"credentials_ready", "active"}
ConnectingOrActive == (Starting \ {"checking_health"}) \cup RoomPhases
Failures == {"dispatch_failed", "connection_failed"}
Phases == Starting \cup RoomPhases \cup Failures \cup {"idle", "ending", "end_failed", "ended"}
Sids == 1..(MaxGen + 1)  \* the generations a startup can own

Store == [phase : Phases, sid : Sids \cup {0}, token : Users \cup {None}, gen : Nat,
          view : {"dashboard", "session", "doc-chat-setup"},
          issue : BOOLEAN, notice : BOOLEAN, busy : BOOLEAN, agentError : BOOLEAN]
Run == [gen : Sids, kind : {"start", "resume", "recheck"}, user : Users, rev : Nat, sid : Sids \cup {0},
        at : {"gate", "capabilities", "detail", "health", "create", "created", "token"}]
Watch == [user : Users, rev : 0..MaxRev, gen : Sids]
End == [gen : Nat, sid : Sids, done : BOOLEAN]
Room == [gen : Nat, sid : Sids, user : Users, seen : 0..MaxRev, open : BOOLEAN, linked : BOOLEAN]
Call == [gen : Nat, sid : Sids, rev : 0..MaxRev]

ASSUME NobodyAssumption == None \notin Users \cup Watch

Init ==
  /\ native \in BOOLEAN
  /\ auth = [user |-> None, rev |-> 0]
  /\ fore = TRUE
  /\ st = [phase |-> "idle", sid |-> 0, token |-> None, gen |-> 0, view |-> "dashboard",
           issue |-> FALSE, notice |-> FALSE, busy |-> FALSE, agentError |-> FALSE]
  /\ watch = None /\ tracker = 0 /\ room = None /\ mark = <<0, 0>>
  /\ runs = {} /\ ends = {} /\ calls = {}
  /\ server = [s \in Sids |-> [status |-> "none", user |-> None]]

-----------------------------------------------------------------------------
(* The session state machine, conversationState.ts *)

From == [begin_checking |-> {"idle"}, begin_connecting |-> {"checking_health"},
         session_created |-> {"creating_session"}, credentials_ready |-> Starting,
         activate |-> {"credentials_ready"}, fail_dispatch |-> ConnectingOrActive,
         fail_connection |-> ConnectingOrActive,
         begin_end |-> Phases \ {"idle", "ended", "ending"}, finish_end |-> {"ending"},
         fail_end |-> {"ending"}, agent_error |-> Phases, reset |-> Phases]

To == [begin_checking |-> "checking_health", begin_connecting |-> "creating_session",
       session_created |-> "fetching_token", credentials_ready |-> "credentials_ready",
       activate |-> "active", fail_dispatch |-> "dispatch_failed",
       fail_connection |-> "connection_failed", begin_end |-> "ending", finish_end |-> "ended",
       fail_end |-> "end_failed", agent_error |-> "ended", reset |-> "idle"]

\* An event that its phase does not expect changes nothing; the session id
\* is kept to the end, the token only while there is a room.
Reduce(s, event, sid, user) ==
  IF s.phase \notin From[event] THEN s
  ELSE [s EXCEPT
    !.phase = IF event = "begin_end" /\ s.sid = 0 THEN "ended" ELSE To[event],
    !.sid = IF event \in {"session_created", "credentials_ready"} THEN sid
            ELSE IF event = "reset" THEN 0 ELSE @,
    !.token = IF event = "credentials_ready" THEN user
              ELSE IF event = "activate" THEN @ ELSE None]

\* The flat fields that the store shows for a state ...
Project(s) ==
  [connection |-> CASE s.phase \in {"creating_session", "fetching_token", "credentials_ready"} -> "connecting"
                    [] OTHER -> s.phase,
   sid |-> s.sid, token |-> s.token]

\* mutant: a session id is taken for complete credentials
FromProjectionPromoting(p) ==
  [phase |-> CASE p.connection \in {"connecting", "active"} ->
                    IF p.sid = 0 THEN "creating_session"
                    ELSE IF p.connection = "active" THEN "active" ELSE "credentials_ready"
               [] OTHER -> p.connection,
   sid |-> p.sid, token |-> p.token]

\* ... and the state for flat fields: incomplete credentials are never a room.
FromProjection(p) ==
  [phase |-> CASE p.connection \in {"connecting", "active"} ->
                    IF p.sid = 0 THEN "creating_session"
                    ELSE IF p.token = None THEN "fetching_token"
                    ELSE IF p.connection = "active" THEN "active" ELSE "credentials_ready"
               [] p.connection \in {"ending", "end_failed"} /\ p.sid = 0 -> "ended"
               [] OTHER -> p.connection,
   sid |-> IF p.connection \in {"idle", "checking_health"} THEN 0 ELSE p.sid,
   token |-> IF p.connection \in {"connecting", "active"} /\ p.sid # 0 THEN p.token ELSE None]

-----------------------------------------------------------------------------
(* What the store's actions do to it *)

Plain(s, event) == Reduce(s, event, 0, None)

ResetStore(s) ==
  [Plain(s, "reset") EXCEPT !.gen = @ + 1, !.issue = FALSE, !.notice = FALSE,
                            !.busy = FALSE, !.agentError = FALSE]
HomeStore(s) == [ResetStore(s) EXCEPT !.view = "dashboard"]

\* resetStartup and resetResume: the generation of the cancelled run is spent
CancelStore(s) == [Plain(s, "reset") EXCEPT !.gen = @ + 1, !.view = "dashboard", !.busy = FALSE]

\* a startup that has failed by itself keeps its generation
ReleaseStore(s) == [Plain(s, "reset") EXCEPT !.view = "dashboard", !.busy = FALSE]

\* mutant: the adapter and the subscriptions are left behind
ResetKeepsTracker(store) == st' = store /\ watch' = None /\ tracker' = tracker /\ mark' = <<0, 0>>

Reset(store) == st' = store /\ watch' = None /\ tracker' = 0 /\ mark' = <<0, 0>>

FailConnection == st' = Plain(st, "fail_connection") /\ tracker' = 0

\* What a room may do to the store holds for its session and generation only.
FailDispatch(sid, gen) ==
  IF st.sid = sid /\ st.gen = gen THEN Plain(st, "fail_dispatch") ELSE st

Activate(sid, gen) ==
  /\ st.sid = sid /\ st.gen = gen /\ st.phase = "credentials_ready"
  /\ st' = Plain(st, "activate")

-----------------------------------------------------------------------------
(* Starting, resuming and rechecking *)

Live(r) == st.gen = r.gen /\ tracker = r.gen
Authorised(r) == auth.user = r.user /\ auth.rev = r.rev

\* From the guard to the first await: the slot is taken, the tracker of an
\* earlier startup disposed, adapter and subscriptions made.  On the web the
\* gate is a check of the snapshot; an adapter may be unavailable anywhere.
Begin(base, kind, s) ==
  LET g == base.gen + 1
      begun == [Plain(base, "begin_checking") EXCEPT
                  !.gen = g, !.issue = FALSE, !.notice = FALSE, !.busy = (kind = "recheck")]
  IN /\ base.phase = "idle" /\ g \in Sids
     /\ watch' = None /\ mark' = IF st.busy THEN <<0, 0>> ELSE mark
     /\ \/ /\ native \/ fore
           /\ st' = begun /\ tracker' = g
           /\ runs' = runs \cup {[gen |-> g, kind |-> kind, user |-> auth.user, rev |-> auth.rev,
                                  sid |-> s, at |-> IF native THEN "gate" ELSE "capabilities"]}
        \/ st' = CancelStore(begun) /\ tracker' = 0 /\ UNCHANGED runs
     /\ UNCHANGED <<native, auth, fore, ends, room, calls, server>>

\* A new intent replaces a recheck, no other startup.
Freed == IF st.busy THEN ResetStore(st) ELSE st

Start == auth.user # None /\ st.view # "session" /\ Begin(Freed, "start", 0)

Resume(s) ==
  /\ auth.user # None /\ st.view = "dashboard"
  /\ server[s].user = auth.user
  /\ Begin(Freed, "resume", s)

Recheck == auth.user # None /\ st.issue /\ ~st.busy /\ Begin(st, "recheck", 0)

\* createSession reaches the server, whether or not its answer comes back.
ServerCreates(r) ==
  /\ r.at = "create"
  /\ server' = [server EXCEPT ![r.gen] = [status |-> "active", user |-> r.user]]
  /\ runs' = (runs \ {r}) \cup {[r EXCEPT !.at = "created"]}
  /\ UNCHANGED <<native, auth, fore, st, watch, tracker, ends, room, calls, mark>>

Step(r, at) == runs' = (runs \ {r}) \cup {at}
Leave(r) == runs' = runs \ {r} /\ tracker' = IF tracker = r.gen THEN 0 ELSE tracker
NoWatch(r) == watch' = None  \* mutant
WatchReadiness(r) == watch' = [user |-> r.user, rev |-> r.rev, gen |-> r.gen]
Active(s, user) == server[s].status = "active" /\ server[s].user = user

\* mutant: the store is reset for a startup that no longer owns it
StaleCancels(r) ==
  /\ ~Live(r)
  /\ Leave(r) /\ st' = CancelStore(st) /\ UNCHANGED watch

\* checkOrRelease after an await
Stale(r) ==
  /\ ~Live(r)
  /\ Leave(r) /\ UNCHANGED <<st, watch>>
Revoked(r) ==
  /\ Live(r) /\ (~Authorised(r) \/ ~fore)
  /\ Leave(r) /\ st' = CancelStore(st) /\ UNCHANGED watch
Current(r) == Live(r) /\ Authorised(r) /\ fore

\* The native gate fails when the adapter does or ten seconds have passed.
GateFails(r) ==
  /\ Current(r) /\ r.at = "gate"
  /\ Leave(r) /\ st' = CancelStore(st) /\ UNCHANGED watch

\* mutant: the slot is not given back
RefusedSilently(r) ==
  /\ Current(r) /\ r.at \in {"capabilities", "detail", "create", "created", "token"}
  /\ Leave(r) /\ UNCHANGED <<st, watch>>

Refused(r) ==
  /\ Current(r) /\ r.at \in {"capabilities", "detail", "create", "created", "token"}
  /\ Leave(r) /\ st' = ReleaseStore(st) /\ UNCHANGED watch

NotReady(r) ==
  /\ Current(r) /\ r.at = "health"
  /\ Leave(r) /\ st' = [ReleaseStore(st) EXCEPT !.issue = TRUE]
  /\ WatchReadiness(r)

Granted(r) ==
  /\ Current(r)
  /\ \/ /\ r.at = "gate" /\ Step(r, [r EXCEPT !.at = "capabilities"])
        /\ UNCHANGED <<st, watch, tracker>>
     \/ /\ r.at = "capabilities"
        /\ Step(r, [r EXCEPT !.at = IF r.kind = "resume" THEN "detail" ELSE "health"])
        /\ UNCHANGED <<st, watch, tracker>>
     \/ /\ r.at = "detail" /\ Active(r.sid, r.user)
        /\ Step(r, [r EXCEPT !.at = "health"])
        /\ UNCHANGED <<st, watch, tracker>>
     \/ /\ r.at = "health" /\ r.kind = "recheck"
        /\ Leave(r) /\ st' = [ReleaseStore(st) EXCEPT !.notice = TRUE]
        /\ WatchReadiness(r)
     \/ /\ r.at = "health" /\ r.kind = "start"
        /\ Step(r, [r EXCEPT !.at = "create"])
        /\ st' = [Plain(st, "begin_connecting") EXCEPT !.view = "session"]
        /\ UNCHANGED <<watch, tracker>>
     \/ /\ r.at = "health" /\ r.kind = "resume"
        /\ Step(r, [r EXCEPT !.at = "token"])
        /\ UNCHANGED <<st, watch, tracker>>
     \/ /\ r.at = "created"
        /\ Step(r, [r EXCEPT !.at = "token", !.sid = r.gen])
        /\ st' = Reduce(st, "session_created", r.gen, None)
        /\ UNCHANGED <<watch, tracker>>
     \/ /\ r.at = "token" /\ Active(r.sid, r.user)
        /\ Leave(r)
        /\ st' = [Reduce(st, "credentials_ready", r.sid, r.user) EXCEPT !.view = "session"]
        /\ UNCHANGED watch

Settle(r) ==
  /\ Stale(r) \/ Revoked(r) \/ GateFails(r) \/ Refused(r) \/ NotReady(r) \/ Granted(r)
  /\ UNCHANGED <<native, auth, fore, ends, room, calls, mark, server>>

-----------------------------------------------------------------------------
(* Ending and leaving *)

EndSession ==
  /\ st.phase \notin {"idle", "ended", "ending"} /\ st.gen <= MaxGen + 1
  /\ st' = IF st.sid = 0
             THEN [Plain(st, "begin_end") EXCEPT !.gen = @ + 1, !.busy = FALSE,
                                                 !.issue = FALSE, !.notice = FALSE]
             ELSE [Plain(st, "begin_end") EXCEPT !.gen = @ + 1]
  /\ tracker' = 0
  /\ ends' = IF st.sid = 0 THEN ends
             ELSE ends \cup {[gen |-> st.gen + 1, sid |-> st.sid, done |-> FALSE]}
  /\ UNCHANGED <<native, auth, fore, watch, runs, room, calls, mark, server>>

ServerEnds(e) ==
  /\ ~e.done
  /\ server' = [server EXCEPT ![e.sid].status = "ended"]
  /\ ends' = (ends \ {e}) \cup {[e EXCEPT !.done = TRUE]}
  /\ UNCHANGED <<native, auth, fore, st, watch, tracker, runs, room, calls, mark>>

\* mutant: an error is taken for the end
EndSettlesAnyhow(e, ok) ==
  /\ ok => e.done
  /\ ends' = ends \ {e}
  /\ st' = IF st.gen = e.gen /\ st.sid = e.sid THEN Plain(st, "finish_end") ELSE st
  /\ UNCHANGED <<native, auth, fore, watch, tracker, runs, room, calls, mark, server>>

EndSettles(e, ok) ==
  /\ ok => e.done
  /\ ends' = ends \ {e}
  /\ st' = IF st.gen = e.gen /\ st.sid = e.sid
             THEN Plain(st, IF ok THEN "finish_end" ELSE "fail_end") ELSE st
  /\ UNCHANGED <<native, auth, fore, watch, tracker, runs, room, calls, mark, server>>

GoHome ==
  /\ st.view = "doc-chat-setup" \/ st.phase \in Failures \cup {"ending", "end_failed", "ended"}
  /\ Reset(HomeStore(st))
  /\ UNCHANGED <<native, auth, fore, runs, ends, room, calls, server>>

OpenDocChat ==
  /\ auth.user # None /\ st.view = "dashboard" /\ st.gen < MaxGen
  /\ Reset([ResetStore(st) EXCEPT !.view = "doc-chat-setup"])
  /\ UNCHANGED <<native, auth, fore, runs, ends, room, calls, server>>

-----------------------------------------------------------------------------
(* The room *)

\* useRoomAuthOwnership: the revision the room's callbacks were rendered with
\* is the present one of the principal it is bound to.
Owned == room # None /\ room.user = auth.user /\ room.seen = auth.rev
Bound == room # None /\ st.gen = room.gen /\ st.sid = room.sid /\ st.phase \in RoomPhases

\* The microphone opens at once on the web, after the native gate on iOS.
NewRoom == [gen |-> st.gen, sid |-> st.sid, user |-> auth.user, seen |-> auth.rev,
            open |-> ~native /\ fore, linked |-> FALSE]

\* A page that is not in front on the web gets no room at all.
InitialBlockedHandler ==
  IF native \/ fore THEN UNCHANGED <<st, tracker>> ELSE FailConnection

Mount ==
  /\ room = None /\ st.view = "session" /\ st.phase \in RoomPhases
  /\ room' = NewRoom
  /\ InitialBlockedHandler
  /\ UNCHANGED <<native, auth, fore, watch, runs, ends, calls, mark, server>>

Unmount ==
  /\ room # None /\ ~Bound
  /\ room' = None
  /\ UNCHANGED <<native, auth, fore, st, watch, tracker, runs, ends, calls, mark, server>>

\* mutant: the snapshot is not read again
RerenderOnly ==
  /\ Bound /\ room.user = auth.user /\ room.seen # auth.rev
  /\ room' = [room EXCEPT !.seen = auth.rev]
  /\ UNCHANGED <<native, auth, fore, st, watch, tracker, runs, ends, calls, mark, server>>

\* A new revision of the same principal is rendered; the fresh listener reads
\* the snapshot that the one before may have missed.
Rerender ==
  /\ Bound /\ room.user = auth.user /\ room.seen # auth.rev
  /\ room' = [room EXCEPT !.seen = auth.rev]
  /\ IF fore \/ ~room.open THEN UNCHANGED <<st, tracker>> ELSE FailConnection
  /\ UNCHANGED <<native, auth, fore, watch, runs, ends, calls, mark, server>>

\* whenReady has resolved, or its ten seconds are over.
GateSettles(ready) ==
  /\ Bound /\ Owned /\ ~room.open
  /\ IF ready /\ fore
       THEN room' = [room EXCEPT !.open = TRUE] /\ UNCHANGED <<st, tracker>>
       ELSE FailConnection /\ UNCHANGED room
  /\ UNCHANGED <<native, auth, fore, watch, runs, ends, calls, mark, server>>

\* markDispatched has been told of this room before.
Dispatched == mark = <<room.sid, room.gen>>

\* LiveKit has connected: onConnected sends the agent, once for a session and
\* a generation, unless the store or the account has moved on.
Connected ==
  /\ room # None /\ room.open /\ ~room.linked
  /\ room' = [room EXCEPT !.linked = TRUE]
  /\ IF Owned /\ Bound /\ ~Dispatched
       THEN /\ mark' = <<room.sid, room.gen>>
            /\ calls' = calls \cup {[gen |-> room.gen, sid |-> room.sid, rev |-> auth.rev]}
       ELSE UNCHANGED <<mark, calls>>
  /\ UNCHANGED <<native, auth, fore, st, watch, tracker, runs, ends, server>>

SetActive ==
  /\ room # None /\ room.linked /\ Owned
  /\ Activate(room.sid, room.gen)
  /\ UNCHANGED <<native, auth, fore, watch, tracker, runs, ends, room, calls, mark, server>>

DispatchSettles(c, ok) ==
  /\ calls' = calls \ {c}
  /\ st' = IF /\ ~ok /\ Bound /\ Owned
              /\ room.gen = c.gen /\ room.sid = c.sid /\ auth.rev = c.rev
             THEN FailDispatch(c.sid, c.gen) ELSE st
  /\ UNCHANGED <<native, auth, fore, watch, tracker, runs, ends, room, mark, server>>

\* onError and onDisconnected
RoomFails ==
  /\ room # None /\ room.open /\ Owned /\ Bound
  /\ FailConnection
  /\ UNCHANGED <<native, auth, fore, watch, runs, ends, room, calls, mark, server>>

AgentError ==
  /\ room # None /\ room.linked /\ Owned /\ Bound /\ st.view = "session"
  /\ st' = [Plain(st, "agent_error") EXCEPT !.gen = @ + 1, !.agentError = TRUE]
  /\ tracker' = 0
  /\ UNCHANGED <<native, auth, fore, watch, runs, ends, room, calls, mark, server>>

-----------------------------------------------------------------------------
(* What happens around it *)

Alive == {r \in runs : Live(r) /\ st.phase \in Starting}

\* The gate clears the account's data when the principal changes; otherwise
\* the startup's own subscription cancels it, or the readiness watch resets.
AuthEvent(user) ==
  /\ auth.rev < MaxRev
  /\ auth' = [user |-> user, rev |-> auth.rev + 1]
  /\ IF auth.user # None /\ user # auth.user THEN Reset(HomeStore(st))
     ELSE IF Alive # {} THEN st' = CancelStore(st) /\ tracker' = 0 /\ UNCHANGED <<watch, mark>>
     ELSE IF watch # None /\ watch.gen = st.gen THEN Reset(ResetStore(st))
     ELSE UNCHANGED <<st, watch, tracker, mark>>
  /\ UNCHANGED <<native, fore, runs, ends, room, calls, server>>

\* Hidden, suspended or offline.  Before the native gate is through, being
\* hidden alone does not cancel a startup.
Background ==
  /\ fore /\ fore' = FALSE
  /\ IF Alive # {}
       THEN \/ st' = CancelStore(st) /\ tracker' = 0
            \/ (\A r \in Alive : r.at = "gate") /\ UNCHANGED <<st, tracker>>
       ELSE IF Owned /\ Bound THEN FailConnection ELSE UNCHANGED <<st, tracker>>
  /\ UNCHANGED <<native, auth, watch, runs, ends, room, calls, mark, server>>

Foreground ==
  /\ ~fore /\ fore' = TRUE
  /\ UNCHANGED <<native, auth, st, watch, tracker, runs, ends, room, calls, mark, server>>

Next ==
  \/ Start \/ Recheck \/ \E s \in Sids : Resume(s)
  \/ \E r \in runs : ServerCreates(r) \/ Settle(r)
  \/ EndSession \/ GoHome \/ OpenDocChat
  \/ \E e \in ends : ServerEnds(e) \/ \E ok \in BOOLEAN : EndSettles(e, ok)
  \/ Mount \/ Unmount \/ Rerender \/ Connected \/ SetActive \/ RoomFails \/ AgentError
  \/ \E ready \in BOOLEAN : GateSettles(ready)
  \/ \E c \in calls, ok \in BOOLEAN : DispatchSettles(c, ok)
  \/ \E user \in Users \cup {None} : AuthEvent(user)
  \/ Background \/ Foreground

\* Every request gives up after ten seconds and so does the native gate.
Fairness ==
  /\ \A g \in Sids : WF_vars(\E r \in runs : r.gen = g /\ Settle(r))
  /\ \A s \in Sids : WF_vars(\E e \in ends, ok \in BOOLEAN : e.sid = s /\ EndSettles(e, ok))

Spec == Init /\ [][Next]_vars /\ Fairness

-----------------------------------------------------------------------------
TypeOK ==
  /\ native \in BOOLEAN /\ fore \in BOOLEAN
  /\ auth \in [user : Users \cup {None}, rev : 0..MaxRev]
  /\ st \in Store
  /\ watch \in Watch \cup {None} /\ room \in Room \cup {None}
  /\ runs \subseteq Run /\ ends \subseteq End /\ calls \subseteq Call
  /\ tracker \in Sids \cup {0}
  /\ server \in [Sids -> [status : {"none", "active", "ended"}, user : Users \cup {None}]]

(* The start slot is neither lost nor leaked: while the store shows a       *)
(* startup, the one run that owns its generation is still coming back, with *)
(* its tracker in place; a tracker, with its adapter and its subscriptions, *)
(* never outlives that; a recheck is shown only while one is under way, and *)
(* the readiness watch belongs to the present generation                    *)
(* (conversation.ts:323-409, 763-772).                                      *)
Inv ==
  /\ TypeOK
  /\ st.phase \in Starting => \E r \in runs : Live(r)
  /\ tracker # 0 => st.phase \in Starting /\ tracker = st.gen
  /\ st.busy => \E r \in runs : Live(r) /\ r.kind = "recheck"
  /\ watch # None => watch.gen = st.gen /\ st.phase = "idle"
  /\ \A r, q \in runs : r.gen = q.gen => r = q

(* What the store shows is the present account's: its room's credentials,   *)
(* its session and its readiness, the last only for the very auth revision  *)
(* that it was found in (conversation.ts:264-289, AuthGate.tsx:44-69).      *)
ShownIsOwned ==
  /\ st.token # None => st.token = auth.user
  /\ st.sid # 0 => server[st.sid].user = auth.user
  /\ st.issue \/ st.notice => /\ watch # None
                              /\ watch.user = auth.user /\ watch.rev = auth.rev
  /\ st.view = "session" => st.phase # "idle"

(* A room that may use the microphone is in the foreground: whatever event  *)
(* was missed between a new auth revision and its rendering is made up for  *)
(* (RoomSession.tsx:225-285).                                               *)
NoHiddenRoom == Owned /\ Bound /\ room.open => fore

(* The end of a conversation is shown only when the server has ended that   *)
(* session, or the agent has given it up (conversation.ts:1246-1269).       *)
EndedIsEnded ==
  st.phase = "ended" /\ st.sid # 0 /\ ~st.agentError => server[st.sid].status = "ended"

(* The flat fields and the state say the same: no view of the store can be  *)
(* turned back into another state (conversationState.ts:208-336).           *)
RoundTrip ==
  FromProjection(Project(st)) = [phase |-> st.phase, sid |-> st.sid, token |-> st.token]

Returned(before, after) == {x \in before : \A y \in after : y.gen # x.gen}

(* Whatever comes back after its generation has passed - a startup, an end, *)
(* a dispatch - touches nothing (conversation.ts:473-495, 1248-1264).       *)
StaleNoTouch ==
  [][\A x \in Returned(runs, runs') \cup Returned(ends, ends') \cup Returned(calls, calls') :
       x.gen # st.gen => UNCHANGED <<st, watch, tracker>>]_vars

(* Starting and ending do not last for ever.  Every call gives up after ten *)
(* seconds (apiRequestTimeout.ts) and so does the gate, which is the        *)
(* fairness assumed.                                                        *)
Settles ==
  st.phase \in Starting \cup {"ending"} ~> st.phase \notin Starting \cup {"ending"}
=============================================================================
