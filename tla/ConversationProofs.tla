------------------------- MODULE ConversationProofs -------------------------
(***************************************************************************)
(* The conversation of the client, proved for any set of accounts and any  *)
(* bounds: that the start slot is neither lost nor leaked, that what is    *)
(* shown is the present account's, that no hidden room is open, that an    *)
(* end shown is an end on the server, and that stale answers touch         *)
(* nothing.                                                                *)
(***************************************************************************)
EXTENDS Conversation, TLAPS

\* The session id and the token that go with a phase; only somebody who is
\* signed in has a session.
Shape ==
  /\ st.phase \in {"idle", "checking_health", "creating_session"} => st.sid = 0
  /\ st.phase \in {"fetching_token", "ending", "end_failed"} \cup RoomPhases => st.sid # 0
  /\ st.token # None <=> st.phase \in RoomPhases
  /\ st.sid # 0 => auth.user # None

\* The phase that a startup shows while it waits for an answer.
PhaseOf(r) ==
  IF r.at \in {"create", "created"} THEN "creating_session"
  ELSE IF r.at = "token" /\ r.kind = "start" THEN "fetching_token"
  ELSE "checking_health"

\* What a startup waits for fits its kind, and the server has the session
\* that it works on: the one it resumes, or its own once it is created.
RunFits(r) ==
  /\ r.gen <= st.gen
  /\ r.at \in {"create", "created"} => r.kind = "start"
  /\ r.at = "detail" => r.kind = "resume"
  /\ r.kind = "recheck" => r.at \in {"gate", "capabilities", "health"}
  /\ r.kind = "resume" \/ r.at = "token" => r.sid # 0 /\ server[r.sid].user = r.user
  /\ r.at = "created" => server[r.gen].user = r.user
  /\ r.at \notin {"created", "token"} => server[r.gen].user = None
  /\ Live(r) => st.phase = PhaseOf(r)
RunsFit == \A r \in runs : RunFits(r)

\* No session is of a generation to come.
ServerPast == \A s \in Sids : s > st.gen => server[s].user = None

\* Only a session that there is, is ended.
EndsFit ==
  \A e \in ends : server[e.sid].user # None /\ (e.done => server[e.sid].status = "ended")

\* The mounted room is not ahead of the store or of the account, and there
\* is none of the generation that a startup owns.
RoomFits ==
  room # None => /\ room.gen <= st.gen /\ room.seen <= auth.rev
                 /\ room.gen = st.gen => st.phase \notin Starting

IInv ==
  /\ Inv /\ ShownIsOwned /\ NoHiddenRoom /\ EndedIsEnded
  /\ Shape /\ RunsFit /\ ServerPast /\ EndsFit /\ RoomFits

-----------------------------------------------------------------------------
(* What the store's operations return, field by field. *)

Kept(s, t) == /\ t.view = s.view /\ t.issue = s.issue /\ t.notice = s.notice
              /\ t.busy = s.busy /\ t.agentError = s.agentError

LEMMA StoreFields ==
  ASSUME NEW s \in Store
  PROVE  /\ s.phase \in Phases /\ s.sid \in Sids \cup {0} /\ s.token \in Users \cup {None}
         /\ s.gen \in Nat /\ s.view \in {"dashboard", "session", "doc-chat-setup"}
         /\ s.issue \in BOOLEAN /\ s.notice \in BOOLEAN /\ s.busy \in BOOLEAN
         /\ s.agentError \in BOOLEAN
BY DEF Store

\* An event from a phase that expects it moves on to the phase it names.
LEMMA ReduceIs ==
  ASSUME NEW s \in Store, NEW event \in DOMAIN To, NEW sid \in Sids \cup {0},
         NEW user \in Users \cup {None}, s.phase \in From[event]
  PROVE  LET t == Reduce(s, event, sid, user) IN
         /\ t \in Store /\ Kept(s, t) /\ t.gen = s.gen
         /\ t.phase = IF event = "begin_end" /\ s.sid = 0 THEN "ended" ELSE To[event]
         /\ t.sid = IF event \in {"session_created", "credentials_ready"} THEN sid
                    ELSE IF event = "reset" THEN 0 ELSE s.sid
         /\ t.token = IF event = "credentials_ready" THEN user
                      ELSE IF event = "activate" THEN s.token ELSE None
<1> DEFINE phase == IF event = "begin_end" /\ s.sid = 0 THEN "ended" ELSE To[event]
           newSid == IF event \in {"session_created", "credentials_ready"} THEN sid
                     ELSE IF event = "reset" THEN 0 ELSE s.sid
           token == IF event = "credentials_ready" THEN user
                    ELSE IF event = "activate" THEN s.token ELSE None
<1>1. Reduce(s, event, sid, user) = [s EXCEPT !.phase = phase, !.sid = newSid, !.token = token]
  BY DEF Reduce
<1>2. phase \in Phases
  BY DEF To, Phases, Starting, RoomPhases, Failures
<1>3. newSid \in Sids \cup {0} /\ token \in Users \cup {None}
  BY StoreFields
<1> HIDE DEF phase, newSid, token
<1>4. [s EXCEPT !.phase = phase, !.sid = newSid, !.token = token] \in Store
  BY <1>2, <1>3 DEF Store
<1>5. Kept(s, [s EXCEPT !.phase = phase, !.sid = newSid, !.token = token])
  BY DEF Store, Kept
<1>6. LET t == [s EXCEPT !.phase = phase, !.sid = newSid, !.token = token]
      IN  t.gen = s.gen /\ t.phase = phase /\ t.sid = newSid /\ t.token = token
  BY DEF Store
<1> QED BY <1>1, <1>4, <1>5, <1>6 DEF phase, newSid, token

LEMMA ReduceNot ==
  ASSUME NEW s, NEW event, NEW sid, NEW user, s.phase \notin From[event]
  PROVE  Reduce(s, event, sid, user) = s
BY DEF Reduce

\* Back to idle, for whatever reason.
Idle(s) == s \in Store /\ s.phase = "idle" /\ s.sid = 0 /\ s.token = None

LEMMA PlainReset ==
  ASSUME NEW s \in Store
  PROVE  Idle(Plain(s, "reset")) /\ Kept(s, Plain(s, "reset")) /\ Plain(s, "reset").gen = s.gen
<1>1. s.phase \in From["reset"] /\ "reset" \in DOMAIN To /\ To["reset"] = "idle"
  BY StoreFields DEF From, To
<1> QED BY <1>1, ReduceIs DEF Plain, Idle

LEMMA ResetStoreIs ==
  ASSUME NEW s \in Store
  PROVE  LET t == ResetStore(s) IN
         /\ Idle(t) /\ t.gen = s.gen + 1 /\ t.view = s.view
         /\ ~t.issue /\ ~t.notice /\ ~t.busy /\ ~t.agentError
<1> DEFINE p == Plain(s, "reset")
<1>1. Idle(p) /\ p.gen + 1 \in Nat /\ p.gen = s.gen /\ p.view = s.view
  BY PlainReset, StoreFields DEF Kept
<1> DEFINE t == [p EXCEPT !.gen = @ + 1, !.issue = FALSE, !.notice = FALSE,
                          !.busy = FALSE, !.agentError = FALSE]
<1>2. ResetStore(s) = t
  BY DEF ResetStore
<1>3. p \in Store /\ p.gen + 1 \in Nat /\ FALSE \in BOOLEAN
  BY <1>1 DEF Idle
<1> HIDE DEF p
<1>4. t \in Store
  BY <1>3 DEF Store
<1>5. /\ t.phase = "idle" /\ t.sid = 0 /\ t.token = None /\ t.gen = s.gen + 1
      /\ t.view = s.view /\ ~t.issue /\ ~t.notice /\ ~t.busy /\ ~t.agentError
  BY <1>1 DEF Idle, Store
<1> QED BY <1>2, <1>4, <1>5 DEF Idle

LEMMA HomeStoreIs ==
  ASSUME NEW s \in Store
  PROVE  LET t == HomeStore(s) IN
         /\ Idle(t) /\ t.gen = s.gen + 1 /\ t.view = "dashboard"
         /\ ~t.issue /\ ~t.notice /\ ~t.busy /\ ~t.agentError
<1> DEFINE p == ResetStore(s)
<1>1. /\ Idle(p) /\ p.gen = s.gen + 1
      /\ ~p.issue /\ ~p.notice /\ ~p.busy /\ ~p.agentError
  BY ResetStoreIs
<1> HIDE DEF p
<1> QED BY <1>1 DEF HomeStore, Idle, Store, p

LEMMA CancelStoreIs ==
  ASSUME NEW s \in Store
  PROVE  LET t == CancelStore(s) IN
         /\ Idle(t) /\ t.gen = s.gen + 1 /\ t.view = "dashboard" /\ ~t.busy
         /\ t.issue = s.issue /\ t.notice = s.notice /\ t.agentError = s.agentError
<1> DEFINE p == Plain(s, "reset")
<1>1. /\ Idle(p) /\ p.gen + 1 \in Nat /\ p.gen = s.gen
      /\ p.issue = s.issue /\ p.notice = s.notice /\ p.agentError = s.agentError
  BY PlainReset, StoreFields DEF Kept
<1> HIDE DEF p
<1> QED BY <1>1 DEF CancelStore, Idle, Store, p

LEMMA ReleaseStoreIs ==
  ASSUME NEW s \in Store
  PROVE  LET t == ReleaseStore(s) IN
         /\ Idle(t) /\ t.gen = s.gen /\ t.view = "dashboard" /\ ~t.busy
         /\ t.issue = s.issue /\ t.notice = s.notice /\ t.agentError = s.agentError
<1> DEFINE p == Plain(s, "reset")
<1>1. /\ Idle(p) /\ p.gen = s.gen
      /\ p.issue = s.issue /\ p.notice = s.notice /\ p.agentError = s.agentError
  BY PlainReset DEF Kept
<1> HIDE DEF p
<1> QED BY <1>1 DEF ReleaseStore, Idle, Store, p

\* Any other event that is expected: only the phase moves, the token is gone.
LEMMA PlainIs ==
  ASSUME NEW s \in Store,
         NEW event \in {"begin_checking", "begin_connecting", "fail_dispatch",
                        "fail_connection", "finish_end", "fail_end", "agent_error"},
         s.phase \in From[event]
  PROVE  LET t == Plain(s, event) IN
         /\ t \in Store /\ Kept(s, t) /\ t.gen = s.gen
         /\ t.phase = To[event] /\ t.sid = s.sid /\ t.token = None
<1>1. event \in DOMAIN To /\ event \notin {"begin_end", "session_created", "credentials_ready",
                                           "reset", "activate"}
  BY DEF To
<1>2. 0 \in Sids \cup {0} /\ None \in Users \cup {None}
  OBVIOUS
<1> QED BY <1>1, <1>2, ReduceIs DEF Plain

\* A room's session fails.
LEMMA PlainFails ==
  ASSUME NEW s \in Store, s.phase \in RoomPhases,
         NEW event \in {"fail_connection", "fail_dispatch"}
  PROVE  LET t == Plain(s, event) IN
         /\ t \in Store /\ Kept(s, t) /\ t.gen = s.gen
         /\ t.phase \in Failures /\ t.sid = s.sid /\ t.token = None
<1>1. s.phase \in From[event] /\ To[event] \in Failures
  BY DEF From, To, ConnectingOrActive, RoomPhases, Failures
<1> QED BY <1>1, PlainIs

LEMMA PlainEnds ==
  ASSUME NEW s \in Store, s.phase \notin {"idle", "ended", "ending"}
  PROVE  LET t == Plain(s, "begin_end") IN
         /\ t \in Store /\ Kept(s, t) /\ t.gen = s.gen
         /\ t.phase = IF s.sid = 0 THEN "ended" ELSE "ending"
         /\ t.sid = s.sid /\ t.token = None
<1>1. s.phase \in From["begin_end"] /\ To["begin_end"] = "ending" /\ "begin_end" \in DOMAIN To
  BY StoreFields DEF From, To
<1>2. 0 \in Sids \cup {0} /\ None \in Users \cup {None}
  OBVIOUS
<1> QED BY <1>1, <1>2, ReduceIs DEF Plain

-----------------------------------------------------------------------------
(* The steps, by what they do to the state. *)

\* The store is put back to idle: the startup, if there is one, has let go.
Cleared ==
  /\ Idle(st') /\ st'.gen \in {st.gen, st.gen + 1} /\ ~st'.busy /\ st'.view # "session"
  /\ tracker' = 0 /\ runs' \subseteq runs
  /\ auth' \in [user : Users \cup {None}, rev : 0..MaxRev] /\ auth'.rev >= auth.rev
  /\ fore' \in BOOLEAN
  /\ \/ watch' = None /\ ~st'.issue /\ ~st'.notice
     \/ /\ watch' \in Watch /\ watch'.gen = st'.gen
        /\ watch'.user = auth'.user /\ watch'.rev = auth'.rev
  /\ UNCHANGED <<native, ends, room, calls, server>>

\* The session of the room fails.
Failed ==
  /\ st.phase \in RoomPhases
  /\ st' \in Store /\ Kept(st, st') /\ st'.gen = st.gen
  /\ st'.phase \in Failures /\ st'.sid = st.sid /\ st'.token = None
  /\ tracker' \in {0, tracker}
  /\ room' \in Room \cup {None} /\ calls' \subseteq calls /\ fore' \in BOOLEAN
  /\ room' # None => room'.gen <= st.gen /\ room'.seen <= auth.rev
  /\ UNCHANGED <<native, auth, watch, runs, ends, server>>

\* Only the room, its calls and the surroundings change.
Quiet ==
  /\ room' \in Room \cup {None} /\ calls' \subseteq Call /\ fore' \in BOOLEAN
  /\ UNCHANGED <<native, auth, st, watch, tracker, runs, ends, server>>

\* A startup gets on, with nothing to show for it yet.
Onward(r, q) ==
  /\ q \in Run /\ q.gen = r.gen /\ q.kind = r.kind
  /\ runs' = (runs \ {r}) \cup {q}
  /\ UNCHANGED <<native, auth, fore, st, watch, tracker, ends, room, calls, server>>

LEMMA Facts ==
  ASSUME IInv
  PROVE  /\ TypeOK /\ native \in BOOLEAN /\ fore \in BOOLEAN
         /\ auth \in [user : Users \cup {None}, rev : 0..MaxRev]
         /\ st \in Store /\ st.gen \in Nat /\ st.gen + 1 \in Nat
         /\ auth.user \in Users \cup {None} /\ auth.rev \in 0..MaxRev /\ auth.rev \in Nat
         /\ watch \in Watch \cup {None} /\ room \in Room \cup {None}
         /\ watch # None => watch \in Watch
         /\ room # None => room \in Room
         /\ \A r \in runs : r \in Run /\ r.gen \in Nat \ {0} /\ r.user # None
         /\ \A e \in ends : e \in End
         /\ None \notin Users /\ None \notin Watch
         /\ 0 \notin Sids /\ Sids \subseteq Nat
<1>1. TypeOK
  BY DEF IInv, Inv
<1>2. st.gen \in Nat
  BY <1>1, StoreFields DEF TypeOK
<1>3. MaxRev \in Nat
  BY BoundsAssumption
<1>4. auth.user \in Users \cup {None} /\ auth.rev \in 0..MaxRev /\ auth.rev \in Nat
  BY <1>1, <1>3 DEF TypeOK
<1>5. 0 \notin Sids /\ Sids \subseteq Nat
  BY BoundsAssumption DEF Sids
<1>6. None \notin Users /\ None \notin Watch
  BY NobodyAssumption
<1>7. \A r \in runs : r \in Run /\ r.gen \in Nat \ {0} /\ r.user # None
  BY <1>1, <1>5, <1>6 DEF TypeOK, Run
<1>8. \A e \in ends : e \in End
  BY <1>1 DEF TypeOK
<1> QED BY <1>1, <1>2, <1>4, <1>5, <1>6, <1>7, <1>8 DEF TypeOK

\* A startup that owns the slot: what the store shows then.
LEMMA LiveFacts ==
  ASSUME IInv, NEW r \in runs, Live(r)
  PROVE  /\ st.phase \in Starting /\ st.phase = PhaseOf(r) /\ watch = None
         /\ ~st.issue /\ ~st.notice
         /\ \A q \in runs : Live(q) => q = r
         /\ tracker = r.gen /\ st.gen = r.gen
<1>1. st.phase \in Starting /\ tracker = r.gen /\ st.gen = r.gen /\ st.phase = PhaseOf(r)
  BY Facts DEF IInv, Inv, Live, RunsFit, RunFits
<1>2. st.phase # "idle"
  BY <1>1 DEF Starting
<1>3. watch = None
  BY <1>2 DEF IInv, Inv
<1>4. ~st.issue /\ ~st.notice
  BY <1>3 DEF IInv, ShownIsOwned
<1>5. \A q \in runs : Live(q) => q = r
  BY <1>1 DEF Live, IInv, Inv
<1> QED BY <1>1, <1>3, <1>4, <1>5

LEMMA ClearedKeeps ==
  ASSUME IInv, Cleared
  PROVE  IInv'
<1>1. /\ st' \in Store /\ st'.phase = "idle" /\ st'.sid = 0 /\ st'.token = None
      /\ tracker' = 0 /\ ~st'.busy
      /\ st'.gen \in Nat /\ st.gen \in Nat /\ st.gen <= st'.gen
  BY Facts DEF Cleared, Idle
<1>2. \A r \in runs' : r \in runs /\ ~Live(r)'
  BY <1>1, Facts DEF Cleared, Live
<1>3. TypeOK'
  BY <1>1, Facts DEF Cleared, TypeOK
<1>4. Inv'
  <2>1. st'.phase \notin Starting
    BY <1>1 DEF Starting
  <2>2. watch' # None => watch'.gen = st'.gen
    BY Facts DEF Cleared
  <2>3. \A r, q \in runs' : r.gen = q.gen => r = q
    BY <1>2 DEF IInv, Inv
  <2> QED BY <1>1, <1>3, <2>1, <2>2, <2>3 DEF Inv
<1>5. ShownIsOwned'
  BY <1>1, Facts DEF Cleared, ShownIsOwned
<1>6. NoHiddenRoom' /\ EndedIsEnded' /\ Shape'
  BY <1>1 DEF NoHiddenRoom, Bound, RoomPhases, EndedIsEnded, Shape
<1>7. RunsFit'
  <2> SUFFICES ASSUME NEW r \in runs' PROVE RunFits(r)'
    BY DEF RunsFit
  <2>1. r \in runs /\ ~Live(r)' /\ server' = server /\ r.gen \in Nat
    BY <1>2, Facts DEF Cleared
  <2> QED BY <1>1, <2>1 DEF IInv, RunsFit, RunFits
<1>8. ServerPast' /\ EndsFit'
  <2>1. server' = server /\ ends' = ends
    BY DEF Cleared
  <2> QED BY <1>1, <2>1, Facts DEF IInv, ServerPast, EndsFit
<1>9. RoomFits'
  <2>1. SUFFICES ASSUME room # None
                 PROVE  room.gen <= st'.gen /\ room.seen <= auth'.rev /\ st'.phase \notin Starting
    BY DEF RoomFits, Cleared
  <2>2. room.gen \in Nat /\ room.seen \in Nat /\ auth'.rev \in Nat
    BY <2>1, Facts, BoundsAssumption DEF Room, Cleared
  <2>3. room.gen <= st.gen /\ room.seen <= auth.rev /\ auth.rev <= auth'.rev
    BY <2>1, Facts DEF IInv, RoomFits, Cleared
  <2> QED BY <1>1, <2>2, <2>3, Facts DEF Starting
<1> QED BY <1>4, <1>5, <1>6, <1>7, <1>8, <1>9 DEF IInv

LEMMA FailedKeeps ==
  ASSUME IInv, Failed
  PROVE  IInv'
<1>1. /\ st' \in Store /\ st'.phase \in Failures /\ st'.sid = st.sid /\ st'.token = None
      /\ st'.gen = st.gen /\ st.gen \in Nat /\ Kept(st, st')
      /\ st.phase \notin Starting /\ st.phase # "idle" /\ st'.phase \notin Starting
      /\ st'.phase \notin RoomPhases /\ st'.phase # "ended" /\ st'.phase # "idle"
  BY Facts DEF Failed, Failures, Starting, RoomPhases
<1>2. tracker = 0 /\ tracker' = 0 /\ watch = None /\ watch' = None
  BY <1>1 DEF Failed, IInv, Inv
<1>3. TypeOK'
  BY <1>1, <1>2, Facts DEF Failed, TypeOK
<1>4. ~st.busy /\ ~st'.busy
  <2>1. \A r \in runs : ~Live(r)
    BY <1>2, Facts DEF Live
  <2> QED BY <1>1, <2>1 DEF IInv, Inv, Kept
<1>5. Inv'
  BY <1>1, <1>2, <1>3, <1>4 DEF Failed, IInv, Inv
<1>6. ShownIsOwned'
  BY <1>1, <1>2 DEF Failed, IInv, ShownIsOwned, Kept
<1>7. NoHiddenRoom' /\ EndedIsEnded'
  BY <1>1 DEF NoHiddenRoom, Bound, EndedIsEnded
<1>8. Shape'
  BY <1>1 DEF Failed, IInv, Shape, Failures
<1>9. RunsFit'
  <2> SUFFICES ASSUME NEW r \in runs PROVE RunFits(r)'
    BY DEF RunsFit, Failed
  <2>1. ~Live(r)' /\ server' = server
    BY <1>2, Facts DEF Failed, Live
  <2> QED BY <1>1, <2>1 DEF IInv, RunsFit, RunFits
<1>10. ServerPast' /\ EndsFit'
  BY <1>1 DEF Failed, IInv, ServerPast, EndsFit
<1>11. RoomFits'
  BY <1>1 DEF Failed, RoomFits
<1> QED BY <1>5, <1>6, <1>7, <1>8, <1>9, <1>10, <1>11 DEF IInv

LEMMA QuietKeeps ==
  ASSUME IInv, Quiet, NoHiddenRoom', RoomFits'
  PROVE  IInv'
<1>1. TypeOK'
  BY Facts DEF Quiet, TypeOK
<1>2. Inv'
  BY <1>1 DEF Quiet, IInv, Inv, Live
<1>3. ShownIsOwned' /\ EndedIsEnded' /\ Shape' /\ ServerPast' /\ EndsFit'
  BY DEF Quiet, IInv, ShownIsOwned, EndedIsEnded, Shape, ServerPast, EndsFit
<1>4. RunsFit'
  BY DEF Quiet, IInv, RunsFit, RunFits, Live
<1> QED BY <1>2, <1>3, <1>4 DEF IInv

LEMMA OnwardKeeps ==
  ASSUME IInv, NEW r \in runs, NEW q, Onward(r, q), RunFits(q)'
  PROVE  IInv'
<1>1. TypeOK'
  BY Facts DEF Onward, TypeOK
<1>2. (Live(q)' <=> Live(r)) /\ q \in runs' /\ q.gen = r.gen /\ q.kind = r.kind
  BY DEF Onward, Live
<1>3. \A p \in runs : p # r => p \in runs' /\ (Live(p)' <=> Live(p))
  BY DEF Onward, Live
<1>4. Inv'
  <2>1. (\E p \in runs : Live(p)) => \E p \in runs' : Live(p)'
    BY <1>2, <1>3
  <2>2. (\E p \in runs : Live(p) /\ p.kind = "recheck")
           => \E p \in runs' : Live(p)' /\ p.kind = "recheck"
    BY <1>2, <1>3
  <2>3. \A p, o \in runs' : p.gen = o.gen => p = o
    BY <1>2 DEF Onward, IInv, Inv
  <2> QED BY <1>1, <2>1, <2>2, <2>3 DEF Onward, IInv, Inv
<1>5. ShownIsOwned' /\ EndedIsEnded' /\ Shape' /\ ServerPast' /\ EndsFit' /\ RoomFits'
  BY DEF Onward, IInv, ShownIsOwned, EndedIsEnded, Shape, ServerPast, EndsFit, RoomFits
<1>6. NoHiddenRoom'
  BY DEF Onward, IInv, NoHiddenRoom, Owned, Bound
<1>7. RunsFit'
  <2> SUFFICES ASSUME NEW p \in runs', p # q PROVE RunFits(p)'
    BY DEF RunsFit
  <2>1. p \in runs /\ st' = st /\ server' = server /\ tracker' = tracker
    BY DEF Onward
  <2> QED BY <2>1 DEF IInv, RunsFit, RunFits, Live
<1> QED BY <1>4, <1>5, <1>6, <1>7 DEF IInv

-----------------------------------------------------------------------------
(* Starting, resuming and rechecking. *)

\* What Begin comes to: the slot is taken for a generation that is new to
\* everybody, or the adapter is unavailable and it is given back at once.
Begun(kind, s) ==
  \E g \in Sids :
    /\ g > st.gen /\ watch' = None
    /\ \/ /\ st' \in Store /\ st'.phase = "checking_health" /\ st'.sid = 0 /\ st'.token = None
          /\ st'.gen = g /\ ~st'.issue /\ ~st'.notice /\ st'.busy = (kind = "recheck")
          /\ tracker' = g
          /\ \E at \in {"gate", "capabilities"} :
               runs' = runs \cup {[gen |-> g, kind |-> kind, user |-> auth.user,
                                   rev |-> auth.rev, sid |-> s, at |-> at]}
       \/ /\ Idle(st') /\ st'.gen = g + 1 /\ st'.view = "dashboard" /\ ~st'.busy
          /\ ~st'.issue /\ ~st'.notice
          /\ tracker' = 0 /\ runs' = runs
    /\ UNCHANGED <<native, auth, fore, ends, room, calls, server>>

LEMMA BeginDoes ==
  ASSUME IInv, NEW base \in Store, NEW kind, NEW s,
         base.gen \in {st.gen, st.gen + 1}, base.sid = 0, Begin(base, kind, s)
  PROVE  Begun(kind, s)
<1> DEFINE g == base.gen + 1
           p == Plain(base, "begin_checking")
           begun == [p EXCEPT !.gen = g, !.issue = FALSE, !.notice = FALSE,
                              !.busy = (kind = "recheck")]
<1>1. /\ base.phase = "idle" /\ g \in Sids /\ watch' = None
      /\ UNCHANGED <<native, auth, fore, ends, room, calls, server>>
      /\ \/ /\ st' = begun /\ tracker' = g
            /\ runs' = runs \cup {[gen |-> g, kind |-> kind, user |-> auth.user, rev |-> auth.rev,
                                   sid |-> s, at |-> IF native THEN "gate" ELSE "capabilities"]}
         \/ st' = CancelStore(begun) /\ tracker' = 0 /\ runs' = runs
  BY DEF Begin
<1>2. g > st.gen /\ g \in Nat
  BY Facts, <1>1
<1>3. /\ p \in Store /\ p.phase = "checking_health" /\ p.sid = 0 /\ p.token = None
  <2>1. base.phase \in From["begin_checking"] /\ To["begin_checking"] = "checking_health"
    BY <1>1 DEF From, To
  <2> QED BY <2>1, PlainIs
<1>4. (kind = "recheck") \in BOOLEAN
  OBVIOUS
<1> HIDE DEF p, g
<1>5. /\ begun \in Store /\ begun.phase = "checking_health" /\ begun.sid = 0
      /\ begun.token = None /\ begun.gen = g /\ ~begun.issue /\ ~begun.notice
      /\ begun.busy = (kind = "recheck")
  BY <1>2, <1>3, <1>4 DEF Store
<1> HIDE DEF begun
<1>6. LET c == CancelStore(begun) IN
        /\ Idle(c) /\ c.gen = g + 1 /\ c.view = "dashboard" /\ ~c.busy
        /\ ~c.issue /\ ~c.notice
  BY <1>5, CancelStoreIs
<1>7. (IF native THEN "gate" ELSE "capabilities") \in {"gate", "capabilities"}
  OBVIOUS
<1> QED BY <1>1, <1>2, <1>5, <1>6, <1>7 DEF Begun

LEMMA BegunKeeps ==
  ASSUME IInv, NEW kind \in {"start", "resume", "recheck"}, NEW s \in Sids \cup {0},
         auth.user # None, kind = "resume" => s # 0 /\ server[s].user = auth.user,
         st'.view # "session" \/ st'.phase # "idle",
         Begun(kind, s)
  PROVE  IInv'
<1>1. PICK g \in Sids :
        /\ g > st.gen /\ watch' = None
        /\ \/ /\ st' \in Store /\ st'.phase = "checking_health" /\ st'.sid = 0
              /\ st'.token = None
              /\ st'.gen = g /\ ~st'.issue /\ ~st'.notice /\ st'.busy = (kind = "recheck")
              /\ tracker' = g
              /\ \E at \in {"gate", "capabilities"} :
                   runs' = runs \cup {[gen |-> g, kind |-> kind, user |-> auth.user,
                                       rev |-> auth.rev, sid |-> s, at |-> at]}
           \/ /\ Idle(st') /\ st'.gen = g + 1 /\ st'.view = "dashboard" /\ ~st'.busy
              /\ ~st'.issue /\ ~st'.notice
              /\ tracker' = 0 /\ runs' = runs
        /\ UNCHANGED <<native, auth, fore, ends, room, calls, server>>
  BY DEF Begun
<1>2. g \in Nat \ {0} /\ g > st.gen /\ st.gen \in Nat
  BY Facts, <1>1
<1>3. /\ st' \in Store /\ st'.sid = 0 /\ st'.token = None /\ st'.gen \in Nat /\ st'.gen > st.gen
      /\ st'.phase \in {"idle", "checking_health"} /\ ~st'.issue /\ ~st'.notice
      /\ tracker' \in {0, g}
  BY <1>1, <1>2 DEF Idle
<1>4. server[g].user = None
  BY <1>1 DEF IInv, ServerPast
<1>5. \A r \in runs : r.gen \in Nat \ {0} /\ r.gen < g /\ ~Live(r)'
  <2> TAKE r \in runs
  <2>1. r.gen \in Nat \ {0} /\ r.gen <= st.gen
    BY Facts DEF IInv, RunsFit, RunFits
  <2> QED BY <1>2, <1>3, <2>1 DEF Live
<1>6. NoHiddenRoom' /\ EndedIsEnded' /\ Shape'
  BY <1>3 DEF NoHiddenRoom, Bound, RoomPhases, EndedIsEnded, Shape
<1>7. ShownIsOwned'
  <2>1. st'.view = "session" => st'.phase # "idle"
    OBVIOUS
  <2> QED BY <1>3, <2>1 DEF ShownIsOwned
<1>8. ServerPast' /\ EndsFit'
  BY <1>1, <1>2, <1>3, Facts DEF IInv, ServerPast, EndsFit
<1>9. RoomFits'
  <2>1. SUFFICES ASSUME room # None
                 PROVE  room.gen < st'.gen /\ room.seen <= auth.rev
    BY <1>1, <1>3, Facts DEF RoomFits, Room
  <2>2. room.gen \in Nat /\ room.gen <= st.gen /\ room.seen <= auth.rev
    BY <2>1, Facts DEF Room, IInv, RoomFits
  <2> QED BY <1>2, <1>3, <2>2
<1>10. CASE runs' = runs /\ tracker' = 0 /\ Idle(st') /\ ~st'.busy
  <2>1. TypeOK'
    BY <1>1, <1>3, <1>10, Facts DEF TypeOK
  <2>2. Inv'
    BY <1>1, <1>10, <2>1 DEF IInv, Inv, Idle, Starting
  <2>3. RunsFit'
    <3> SUFFICES ASSUME NEW r \in runs PROVE RunFits(r)'
      BY <1>10 DEF RunsFit
    <3>1. r.gen <= st'.gen /\ ~Live(r)' /\ server' = server
      BY <1>1, <1>2, <1>3, <1>5
    <3> QED BY <3>1 DEF IInv, RunsFit, RunFits
  <2> QED BY <1>6, <1>7, <1>8, <1>9, <2>2, <2>3 DEF IInv
<1>11. CASE /\ st'.phase = "checking_health" /\ st'.gen = g /\ tracker' = g
            /\ st'.busy = (kind = "recheck")
            /\ \E at \in {"gate", "capabilities"} :
                 runs' = runs \cup {[gen |-> g, kind |-> kind, user |-> auth.user,
                                     rev |-> auth.rev, sid |-> s, at |-> at]}
  <2>1. PICK q \in Run :
          /\ q.gen = g /\ q.kind = kind /\ q.user = auth.user /\ q.sid = s
          /\ q.at \in {"gate", "capabilities"} /\ runs' = runs \cup {q}
    <3>1. PICK at \in {"gate", "capabilities"} :
            runs' = runs \cup {[gen |-> g, kind |-> kind, user |-> auth.user,
                                rev |-> auth.rev, sid |-> s, at |-> at]}
      BY <1>11
    <3> DEFINE new == [gen |-> g, kind |-> kind, user |-> auth.user, rev |-> auth.rev,
                       sid |-> s, at |-> at]
    <3>2. /\ new \in Run /\ new.gen = g /\ new.kind = kind /\ new.user = auth.user
          /\ new.sid = s /\ new.at \in {"gate", "capabilities"}
      BY Facts DEF Run
    <3> QED BY <3>1, <3>2
  <2>2. Live(q)' /\ PhaseOf(q) = "checking_health"
    BY <1>11, <2>1 DEF Live, PhaseOf
  <2>3. TypeOK'
    BY <1>1, <1>3, <2>1, Facts DEF TypeOK
  <2>4. Inv'
    <3>1. \A r, o \in runs' : r.gen = o.gen => r = o
      BY <1>2, <1>5, <2>1 DEF IInv, Inv
    <3>2. st'.phase \in Starting
      BY <1>11 DEF Starting
    <3> QED BY <1>1, <1>11, <2>1, <2>2, <2>3, <3>1, <3>2 DEF Inv
  <2>5. RunsFit'
    <3>1. RunFits(q)'
      BY <1>1, <1>4, <1>11, <2>1, <2>2, Facts DEF RunFits
    <3>2. ASSUME NEW r \in runs PROVE RunFits(r)'
      <4>1. r.gen <= st'.gen /\ ~Live(r)' /\ server' = server
        BY <1>1, <1>2, <1>3, <1>5
      <4> QED BY <4>1 DEF IInv, RunsFit, RunFits
    <3> QED BY <2>1, <3>1, <3>2 DEF RunsFit
  <2> QED BY <1>6, <1>7, <1>8, <1>9, <2>4, <2>5 DEF IInv
<1> QED BY <1>1, <1>10, <1>11

LEMMA FreedIs ==
  ASSUME IInv, Freed.phase = "idle"
  PROVE  /\ Freed \in Store /\ Freed.gen \in {st.gen, st.gen + 1} /\ Freed.sid = 0
         /\ Freed.view = st.view
<1>1. CASE st.busy
  BY <1>1, Facts, ResetStoreIs DEF Freed, Idle
<1>2. CASE ~st.busy
  BY <1>2, Facts DEF Freed, IInv, Shape
<1> QED BY <1>1, <1>2

\* A startup of which the store's view is the session does not begin.
LEMMA BegunView ==
  ASSUME NEW kind, NEW s, Begun(kind, s)
  PROVE  st'.view # "session" \/ st'.phase # "idle"
BY DEF Begun

LEMMA StartKeeps ==
  ASSUME IInv, Start
  PROVE  IInv'
<1>1. auth.user # None /\ Begin(Freed, "start", 0) /\ Freed.phase = "idle"
  BY DEF Start, Begin
<1>2. Begun("start", 0)
  BY <1>1, FreedIs, BeginDoes
<1> QED BY <1>1, <1>2, BegunView, BegunKeeps

LEMMA ResumeKeeps ==
  ASSUME IInv, NEW s \in Sids, Resume(s)
  PROVE  IInv'
<1>1. /\ auth.user # None /\ Begin(Freed, "resume", s) /\ Freed.phase = "idle"
      /\ server[s].user = auth.user /\ s # 0
  BY Facts DEF Resume, Begin
<1>2. Begun("resume", s)
  BY <1>1, FreedIs, BeginDoes
<1> QED BY <1>1, <1>2, BegunView, BegunKeeps

LEMMA RecheckKeeps ==
  ASSUME IInv, Recheck
  PROVE  IInv'
<1>1. auth.user # None /\ Begin(st, "recheck", 0) /\ st.phase = "idle"
  BY DEF Recheck, Begin
<1>2. Begun("recheck", 0)
  BY <1>1, Facts, BeginDoes DEF IInv, Shape
<1> QED BY <1>1, <1>2, BegunView, BegunKeeps

LEMMA ServerCreatesKeeps ==
  ASSUME IInv, NEW r \in runs, ServerCreates(r)
  PROVE  IInv'
<1> DEFINE q == [r EXCEPT !.at = "created"]
<1>1. /\ r \in Run /\ r.gen \in Nat /\ r.gen \in Sids /\ r.user # None /\ r.user \in Users
      /\ r.at = "create"
      /\ r.kind = "start" /\ server[r.gen].user = None /\ r.gen <= st.gen
      /\ (Live(r) => st.phase = "creating_session")
  BY Facts DEF ServerCreates, IInv, RunsFit, RunFits, Run, PhaseOf
<1>2. /\ server' = [server EXCEPT ![r.gen] = [status |-> "active", user |-> r.user]]
      /\ runs' = (runs \ {r}) \cup {q}
      /\ UNCHANGED <<native, auth, fore, st, watch, tracker, ends, room, calls, mark>>
  BY DEF ServerCreates
<1>3. q \in Run /\ q.gen = r.gen /\ q.kind = r.kind /\ q.user = r.user /\ q.at = "created"
      /\ (Live(q)' <=> Live(r))
  BY <1>1, <1>2 DEF Run, Live
<1> HIDE DEF q
<1>4. server \in [Sids -> [status : {"none", "active", "ended"}, user : Users \cup {None}]]
  BY Facts DEF TypeOK
<1>5. /\ server' \in [Sids -> [status : {"none", "active", "ended"}, user : Users \cup {None}]]
      /\ server'[r.gen].user = r.user
      /\ \A s \in Sids : s # r.gen => server'[s] = server[s]
  BY <1>1, <1>2, <1>4
<1>6. \A s \in Sids : server[s].user # None => s # r.gen /\ server'[s] = server[s]
  BY <1>1, <1>5
<1>7. TypeOK'
  BY <1>2, <1>3, <1>5, Facts DEF TypeOK
<1>8. \A p \in runs : p # r => p \in runs' /\ (Live(p)' <=> Live(p)) /\ p.gen # r.gen
  BY <1>2 DEF Live, IInv, Inv
<1>9. Inv'
  <2>1. (\E p \in runs : Live(p)) => \E p \in runs' : Live(p)'
    BY <1>2, <1>3, <1>8
  <2>2. (\E p \in runs : Live(p) /\ p.kind = "recheck")
           => \E p \in runs' : Live(p)' /\ p.kind = "recheck"
    BY <1>2, <1>3, <1>8
  <2>3. \A p, o \in runs' : p.gen = o.gen => p = o
    BY <1>2, <1>3 DEF IInv, Inv
  <2> QED BY <1>2, <1>7, <2>1, <2>2, <2>3 DEF IInv, Inv
<1>10. ShownIsOwned' /\ EndedIsEnded' /\ Shape'
  <2>1. st.sid # 0 => st.sid \in Sids /\ server[st.sid].user # None
    BY Facts, StoreFields DEF IInv, ShownIsOwned, Shape
  <2>2. st.sid # 0 => server'[st.sid] = server[st.sid]
    BY <1>6, <2>1
  <2> QED BY <1>2, <2>2 DEF IInv, ShownIsOwned, EndedIsEnded, Shape
<1>11. NoHiddenRoom' /\ RoomFits'
  BY <1>2 DEF IInv, NoHiddenRoom, Owned, Bound, RoomFits
<1>12. ServerPast'
  BY <1>1, <1>2, <1>5, Facts DEF IInv, ServerPast
<1>13. EndsFit'
  BY <1>2, <1>6, Facts DEF IInv, EndsFit, End
<1>14. RunsFit'
  <2>1. RunFits(q)'
    BY <1>1, <1>2, <1>3, <1>5 DEF RunFits, PhaseOf
  <2>2. ASSUME NEW p \in runs, p # r PROVE RunFits(p)'
    <3>1. p.gen # r.gen /\ p.gen \in Sids /\ p.sid \in Sids \cup {0} /\ p.user # None
      BY <1>8, <2>2, Facts DEF Run
    <3>2. server'[p.gen] = server[p.gen]
      BY <1>5, <3>1
    <3>3. p.kind = "resume" \/ p.at = "token" => p.sid # 0 /\ server'[p.sid].user = p.user
      BY <1>6, <3>1 DEF IInv, RunsFit, RunFits
    <3> QED BY <1>2, <1>8, <2>2, <3>2, <3>3 DEF IInv, RunsFit, RunFits
  <2> QED BY <1>2, <2>1, <2>2 DEF RunsFit
<1> QED BY <1>9, <1>10, <1>11, <1>12, <1>13, <1>14 DEF IInv

-----------------------------------------------------------------------------
(* What comes back to a startup. *)

Rest == UNCHANGED <<native, auth, fore, ends, room, calls, mark, server>>

LEMMA StaleKeeps ==
  ASSUME IInv, NEW r \in runs, Stale(r), Rest
  PROVE  IInv' /\ tracker' = tracker
<1>1. ~Live(r) /\ runs' = runs \ {r} /\ st' = st /\ watch' = watch
      /\ tracker' = IF tracker = r.gen THEN 0 ELSE tracker
  BY DEF Stale, Leave
<1>2. tracker' = tracker
  <2>1. tracker # 0 => tracker = st.gen
    BY DEF IInv, Inv
  <2> QED BY <1>1, <2>1, Facts DEF Live
<1>3. TypeOK'
  BY <1>1, <1>2, Facts DEF Rest, TypeOK
<1>4. \A p \in runs : Live(p) => p \in runs' /\ Live(p)'
  BY <1>1, <1>2 DEF Live
<1>5. Inv'
  BY <1>1, <1>2, <1>3, <1>4 DEF IInv, Inv
<1>6. ShownIsOwned' /\ EndedIsEnded' /\ Shape' /\ ServerPast' /\ EndsFit' /\ RoomFits'
  BY <1>1 DEF Rest, IInv, ShownIsOwned, EndedIsEnded, Shape, ServerPast, EndsFit, RoomFits
<1>7. NoHiddenRoom'
  BY <1>1 DEF Rest, IInv, NoHiddenRoom, Owned, Bound
<1>8. RunsFit'
  BY <1>1, <1>2 DEF Rest, IInv, RunsFit, RunFits, Live
<1> QED BY <1>2, <1>5, <1>6, <1>7, <1>8 DEF IInv

LEMMA RevokedKeeps ==
  ASSUME IInv, NEW r \in runs, Revoked(r) \/ GateFails(r), Rest
  PROVE  IInv'
<1>1. /\ Live(r) /\ runs' = runs \ {r} /\ tracker' = IF tracker = r.gen THEN 0 ELSE tracker
      /\ st' = CancelStore(st) /\ watch' = watch
  BY DEF Revoked, GateFails, Current, Leave
<1>2. tracker' = 0 /\ watch' = None /\ ~st.issue /\ ~st.notice
  BY <1>1, LiveFacts
<1>3. Idle(st') /\ st'.gen = st.gen + 1 /\ st'.view # "session" /\ ~st'.busy
      /\ ~st'.issue /\ ~st'.notice
  BY <1>1, <1>2, Facts, CancelStoreIs
<1>4. Cleared
  BY <1>1, <1>2, <1>3, Facts DEF Cleared, Rest
<1> QED BY <1>4, ClearedKeeps

LEMMA RefusedKeeps ==
  ASSUME IInv, NEW r \in runs, Refused(r), Rest
  PROVE  IInv'
<1>1. /\ Live(r) /\ runs' = runs \ {r} /\ tracker' = IF tracker = r.gen THEN 0 ELSE tracker
      /\ st' = ReleaseStore(st) /\ watch' = watch
  BY DEF Refused, Current, Leave
<1>2. tracker' = 0 /\ watch' = None /\ ~st.issue /\ ~st.notice
  BY <1>1, LiveFacts
<1>3. Idle(st') /\ st'.gen = st.gen /\ st'.view # "session" /\ ~st'.busy
      /\ ~st'.issue /\ ~st'.notice
  BY <1>1, <1>2, Facts, ReleaseStoreIs
<1>4. Cleared
  BY <1>1, <1>2, <1>3, Facts DEF Cleared, Rest
<1> QED BY <1>4, ClearedKeeps

\* The readiness that a startup or a recheck has found is shown, and watched.
Found(r) ==
  /\ Current(r) /\ Leave(r) /\ WatchReadiness(r)
  /\ \/ st' = [ReleaseStore(st) EXCEPT !.issue = TRUE]
     \/ st' = [ReleaseStore(st) EXCEPT !.notice = TRUE]

LEMMA FoundKeeps ==
  ASSUME IInv, NEW r \in runs, Found(r), Rest
  PROVE  IInv'
<1> DEFINE p == ReleaseStore(st)
<1>1. /\ Live(r) /\ Authorised(r) /\ runs' = runs \ {r}
      /\ tracker' = IF tracker = r.gen THEN 0 ELSE tracker
      /\ watch' = [user |-> r.user, rev |-> r.rev, gen |-> r.gen]
      /\ st' = [p EXCEPT !.issue = TRUE] \/ st' = [p EXCEPT !.notice = TRUE]
  BY DEF Found, Current, Leave, WatchReadiness
<1>2. tracker' = 0 /\ r.gen = st.gen
  BY <1>1, LiveFacts
<1>3. Idle(p) /\ p.gen = st.gen /\ p.view = "dashboard" /\ ~p.busy
  BY Facts, ReleaseStoreIs
<1> HIDE DEF p
<1>4. Idle(st') /\ st'.gen = st.gen /\ st'.view # "session" /\ ~st'.busy
  BY <1>1, <1>3 DEF Idle, Store
<1>5. /\ watch' \in Watch /\ watch'.gen = st'.gen
      /\ watch'.user = auth.user /\ watch'.rev = auth.rev
  <2>1. r.user \in Users /\ r.gen \in Sids /\ r.rev = auth.rev /\ r.user = auth.user
    BY <1>1, Facts DEF Run, Authorised
  <2> QED BY <1>1, <1>2, <1>4, <2>1, Facts DEF Watch
<1>6. Cleared
  BY <1>1, <1>2, <1>4, <1>5, Facts DEF Cleared, Rest
<1> QED BY <1>6, ClearedKeeps

\* An answer that only lets the startup make its next call.
LEMMA OnwardStepKeeps ==
  ASSUME IInv, NEW r \in runs, NEW at,
         \/ r.at = "gate" /\ at = "capabilities"
         \/ r.at = "capabilities" /\ at = IF r.kind = "resume" THEN "detail" ELSE "health"
         \/ r.at = "detail" /\ at = "health"
         \/ r.at = "health" /\ r.kind = "resume" /\ at = "token",
         Step(r, [r EXCEPT !.at = at]), UNCHANGED <<st, watch, tracker>>, Rest
  PROVE  IInv'
<1> DEFINE q == [r EXCEPT !.at = at]
<1>1. r \in Run /\ RunFits(r)
  BY Facts DEF IInv, RunsFit
<1>2. /\ q \in Run /\ q.gen = r.gen /\ q.kind = r.kind /\ q.sid = r.sid
      /\ q.user = r.user /\ q.at = at
  BY <1>1 DEF Run
<1>3. runs' = (runs \ {r}) \cup {q}
  BY DEF Step
<1> HIDE DEF q
<1>4. Onward(r, q)
  BY <1>2, <1>3 DEF Onward, Rest
<1>5. RunFits(q)'
  <2>1. (Live(q)' <=> Live(r)) /\ st' = st /\ server' = server
    BY <1>2 DEF Live, Rest
  <2>2. PhaseOf(q) = PhaseOf(r)
    BY <1>2 DEF PhaseOf
  <2> QED BY <1>1, <1>2, <2>1, <2>2 DEF RunFits
<1> QED BY <1>4, <1>5, OnwardKeeps

\* An answer with which the startup shows its next phase.
LEMMA ShowingKeeps ==
  ASSUME IInv, NEW r \in runs, NEW q \in Run, Live(r), Authorised(r),
         q.gen = r.gen, q.kind = "start", r.kind = "start", Step(r, q),
         st' \in Store, st'.gen = st.gen, st'.busy = st.busy,
         st'.issue = st.issue, st'.notice = st.notice,
         st'.phase \in {"creating_session", "fetching_token"}, st'.token = None,
         st'.sid = IF st'.phase = "fetching_token" THEN r.gen ELSE 0,
         st'.phase = "fetching_token" => server[r.gen].user = r.user,
         RunFits(q)', UNCHANGED <<watch, tracker>>, Rest
  PROVE  IInv'
<1>1. /\ st.phase \in Starting /\ watch = None /\ watch' = None /\ ~st'.issue /\ ~st'.notice
      /\ tracker = r.gen /\ st.gen = r.gen
      /\ st'.phase \in Starting /\ st'.phase \notin RoomPhases
      /\ st'.phase # "idle" /\ st'.phase # "ended"
  BY LiveFacts DEF Starting, RoomPhases
<1>2. /\ runs' = (runs \ {r}) \cup {q}
      /\ UNCHANGED <<native, auth, fore, ends, room, calls, server>>
  BY DEF Step, Rest
<1>3. r \in Run /\ r.user # None /\ auth.user = r.user /\ r.gen # 0
  BY Facts DEF Authorised
<1>4. Live(q)' /\ q \in runs'
  BY <1>1, <1>2 DEF Live
<1>5. ~st.busy
  <2>1. \A p \in runs : Live(p) => p.kind # "recheck"
    BY LiveFacts
  <2> QED BY <2>1 DEF IInv, Inv
<1>6. TypeOK'
  BY <1>2, Facts DEF TypeOK
<1>7. Inv'
  <2>1. \A p, o \in runs' : p.gen = o.gen => p = o
    BY <1>2 DEF IInv, Inv
  <2> QED BY <1>1, <1>2, <1>4, <1>5, <1>6, <2>1 DEF Inv
<1>8. ShownIsOwned'
  BY <1>1, <1>2, <1>3 DEF ShownIsOwned
<1>9. NoHiddenRoom' /\ EndedIsEnded'
  BY <1>1 DEF NoHiddenRoom, Bound, EndedIsEnded
<1>10. Shape'
  BY <1>1, <1>2, <1>3 DEF Shape
<1>11. RunsFit'
  <2> SUFFICES ASSUME NEW p \in runs, p # r PROVE RunFits(p)'
    BY <1>2 DEF RunsFit
  <2>1. ~Live(p) /\ ~Live(p)'
    BY LiveFacts DEF Live
  <2> QED BY <1>2, <2>1 DEF IInv, RunsFit, RunFits
<1>12. ServerPast' /\ EndsFit'
  BY <1>2 DEF IInv, ServerPast, EndsFit
<1>13. RoomFits'
  BY <1>1, <1>2 DEF IInv, RoomFits
<1> QED BY <1>7, <1>8, <1>9, <1>10, <1>11, <1>12, <1>13 DEF IInv

LEMMA HealthyKeeps ==
  ASSUME IInv, NEW r \in runs, Current(r), r.at = "health", r.kind = "start",
         Step(r, [r EXCEPT !.at = "create"]),
         st' = [Plain(st, "begin_connecting") EXCEPT !.view = "session"],
         UNCHANGED <<watch, tracker>>, Rest
  PROVE  IInv'
<1> DEFINE q == [r EXCEPT !.at = "create"]
           p == Plain(st, "begin_connecting")
<1>1. Live(r) /\ Authorised(r) /\ r \in Run /\ RunFits(r) /\ st.gen = r.gen
  BY Facts DEF Current, Live, IInv, RunsFit
<1>2. /\ q \in Run /\ q.gen = r.gen /\ q.kind = r.kind /\ q.sid = r.sid
      /\ q.user = r.user /\ q.at = "create"
  BY <1>1 DEF Run
<1>3. st.phase = "checking_health"
  BY <1>1, LiveFacts DEF PhaseOf
<1>4. /\ p \in Store /\ Kept(st, p) /\ p.gen = st.gen /\ p.phase = "creating_session"
      /\ p.sid = st.sid /\ p.token = None
  <2>1. st.phase \in From["begin_connecting"] /\ To["begin_connecting"] = "creating_session"
    BY <1>3 DEF From, To
  <2> QED BY <2>1, Facts, PlainIs
<1>5. st.sid = 0
  BY <1>3 DEF IInv, Shape
<1> HIDE DEF q, p
<1>6. /\ st' \in Store /\ st'.gen = st.gen /\ st'.busy = st.busy
      /\ st'.issue = st.issue /\ st'.notice = st.notice
      /\ st'.phase = "creating_session" /\ st'.token = None /\ st'.sid = 0
  BY <1>4, <1>5 DEF Store, Kept, p
<1>7. RunFits(q)'
  BY <1>1, <1>2, <1>6 DEF RunFits, PhaseOf, Rest
<1>8. Step(r, q)
  BY DEF q
<1> QED BY <1>1, <1>2, <1>6, <1>7, <1>8, ShowingKeeps

LEMMA CreatedKeeps ==
  ASSUME IInv, NEW r \in runs, Current(r), r.at = "created",
         Step(r, [r EXCEPT !.at = "token", !.sid = r.gen]),
         st' = Reduce(st, "session_created", r.gen, None),
         UNCHANGED <<watch, tracker>>, Rest
  PROVE  IInv'
<1> DEFINE q == [r EXCEPT !.at = "token", !.sid = r.gen]
<1>1. /\ Live(r) /\ Authorised(r) /\ r \in Run /\ RunFits(r) /\ st.gen = r.gen
      /\ r.gen \in Sids /\ r.gen # 0 /\ r.kind = "start" /\ server[r.gen].user = r.user
  BY Facts DEF Current, Live, IInv, RunsFit, RunFits, Run
<1>2. /\ q \in Run /\ q.gen = r.gen /\ q.kind = r.kind /\ q.sid = r.gen
      /\ q.user = r.user /\ q.at = "token"
  BY <1>1 DEF Run
<1>3. st.phase = "creating_session"
  BY <1>1, LiveFacts DEF PhaseOf
<1>4. /\ st' \in Store /\ Kept(st, st') /\ st'.gen = st.gen /\ st'.phase = "fetching_token"
      /\ st'.sid = r.gen /\ st'.token = None
  <2>1. /\ st.phase \in From["session_created"] /\ To["session_created"] = "fetching_token"
        /\ "session_created" \in DOMAIN To
    BY <1>3 DEF From, To
  <2>2. r.gen \in Sids \cup {0} /\ None \in Users \cup {None}
    BY <1>1
  <2> QED BY <2>1, <2>2, Facts, ReduceIs
<1> HIDE DEF q
<1>5. RunFits(q)'
  BY <1>1, <1>2, <1>4 DEF RunFits, PhaseOf, Rest
<1>6. Step(r, q)
  BY DEF q
<1>7. st'.busy = st.busy /\ st'.issue = st.issue /\ st'.notice = st.notice
  BY <1>4 DEF Kept
<1> QED BY <1>1, <1>2, <1>4, <1>5, <1>6, <1>7, ShowingKeeps

\* The token opens the room: the startup is over.
LEMMA TokenKeeps ==
  ASSUME IInv, NEW r \in runs, Current(r), r.at = "token", Active(r.sid, r.user), Leave(r),
         st' = [Reduce(st, "credentials_ready", r.sid, r.user) EXCEPT !.view = "session"],
         UNCHANGED watch, Rest
  PROVE  IInv'
<1> DEFINE p == Reduce(st, "credentials_ready", r.sid, r.user)
<1>1. /\ Live(r) /\ r \in Run /\ r.kind # "recheck"
      /\ r.sid \in Sids /\ r.sid # 0 /\ r.user \in Users /\ r.user # None
      /\ auth.user = r.user /\ server[r.sid].user = r.user
      /\ runs' = runs \ {r}
      /\ tracker' = IF tracker = r.gen THEN 0 ELSE tracker
  BY Facts DEF Current, Authorised, Active, Leave, IInv, RunsFit, RunFits, Run
<1>2. /\ st.phase \in Starting /\ tracker = r.gen /\ st.gen = r.gen /\ watch = None
      /\ ~st.issue /\ ~st.notice /\ tracker' = 0 /\ watch' = None
  BY <1>1, LiveFacts
<1>3. ~st.busy
  <2>1. \A o \in runs : Live(o) => o.kind # "recheck"
    BY <1>1, LiveFacts
  <2> QED BY <2>1 DEF IInv, Inv
<1>4. /\ p \in Store /\ Kept(st, p) /\ p.gen = st.gen /\ p.phase = "credentials_ready"
      /\ p.sid = r.sid /\ p.token = r.user
  <2>1. /\ st.phase \in From["credentials_ready"]
        /\ To["credentials_ready"] = "credentials_ready" /\ "credentials_ready" \in DOMAIN To
    BY <1>2 DEF From, To
  <2>2. r.sid \in Sids \cup {0} /\ r.user \in Users \cup {None}
    BY <1>1
  <2> QED BY <2>1, <2>2, Facts, ReduceIs
<1>5. st' = [p EXCEPT !.view = "session"]
  OBVIOUS
<1> HIDE DEF p
<1>6. /\ st' \in Store /\ st'.gen = st.gen /\ ~st'.busy /\ ~st'.issue /\ ~st'.notice
      /\ st'.phase = "credentials_ready" /\ st'.token = r.user /\ st'.sid = r.sid
      /\ st'.phase \in RoomPhases /\ st'.phase \notin Starting
  BY <1>2, <1>3, <1>4, <1>5 DEF Store, Kept, RoomPhases, Starting
<1>7. UNCHANGED <<native, auth, fore, ends, room, calls, server>>
  BY DEF Rest
<1>8. TypeOK'
  BY <1>1, <1>2, <1>6, <1>7, Facts DEF TypeOK
<1>9. \A o \in runs' : o \in runs /\ ~Live(o)'
  BY <1>1, <1>2, Facts DEF Live
<1>10. Inv'
  BY <1>1, <1>2, <1>6, <1>8 DEF IInv, Inv
<1>11. ShownIsOwned' /\ EndedIsEnded' /\ Shape'
  BY <1>1, <1>6, <1>7 DEF ShownIsOwned, EndedIsEnded, Shape
<1>12. ~Bound'
  BY <1>2, <1>6, <1>7 DEF IInv, RoomFits, Bound
<1>13. NoHiddenRoom' /\ RoomFits'
  BY <1>6, <1>7, <1>12 DEF NoHiddenRoom, IInv, RoomFits
<1>14. RunsFit'
  BY <1>6, <1>7, <1>9 DEF IInv, RunsFit, RunFits
<1>15. ServerPast' /\ EndsFit'
  BY <1>6, <1>7 DEF IInv, ServerPast, EndsFit
<1> QED BY <1>10, <1>11, <1>13, <1>14, <1>15 DEF IInv

LEMMA SettleKeeps ==
  ASSUME IInv, NEW r \in runs, Settle(r)
  PROVE  IInv'
<1>1. Rest /\ (Stale(r) \/ Revoked(r) \/ GateFails(r) \/ Refused(r) \/ NotReady(r) \/ Granted(r))
  BY DEF Settle, Rest
<1>2. CASE Stale(r)
  BY <1>1, <1>2, StaleKeeps
<1>3. CASE Revoked(r) \/ GateFails(r)
  BY <1>1, <1>3, RevokedKeeps
<1>4. CASE Refused(r)
  BY <1>1, <1>4, RefusedKeeps
<1>5. CASE NotReady(r)
  BY <1>1, <1>5, FoundKeeps DEF NotReady, Found
<1>6. CASE Granted(r)
  <2>1. CASE r.at = "gate" /\ Step(r, [r EXCEPT !.at = "capabilities"])
             /\ UNCHANGED <<st, watch, tracker>>
    BY <1>1, <2>1, OnwardStepKeeps
  <2>2. CASE /\ r.at = "capabilities"
             /\ Step(r, [r EXCEPT !.at = IF r.kind = "resume" THEN "detail" ELSE "health"])
             /\ UNCHANGED <<st, watch, tracker>>
    BY <1>1, <2>2, OnwardStepKeeps
  <2>3. CASE r.at = "detail" /\ Step(r, [r EXCEPT !.at = "health"])
             /\ UNCHANGED <<st, watch, tracker>>
    BY <1>1, <2>3, OnwardStepKeeps
  <2>4. CASE /\ Leave(r) /\ st' = [ReleaseStore(st) EXCEPT !.notice = TRUE]
             /\ WatchReadiness(r)
    BY <1>1, <1>6, <2>4, FoundKeeps DEF Found, Granted
  <2>5. CASE /\ r.at = "health" /\ r.kind = "start" /\ Step(r, [r EXCEPT !.at = "create"])
             /\ st' = [Plain(st, "begin_connecting") EXCEPT !.view = "session"]
             /\ UNCHANGED <<watch, tracker>>
    BY <1>1, <1>6, <2>5, HealthyKeeps DEF Granted
  <2>6. CASE r.at = "health" /\ r.kind = "resume" /\ Step(r, [r EXCEPT !.at = "token"])
             /\ UNCHANGED <<st, watch, tracker>>
    BY <1>1, <2>6, OnwardStepKeeps
  <2>7. CASE /\ r.at = "created" /\ Step(r, [r EXCEPT !.at = "token", !.sid = r.gen])
             /\ st' = Reduce(st, "session_created", r.gen, None)
             /\ UNCHANGED <<watch, tracker>>
    BY <1>1, <1>6, <2>7, CreatedKeeps DEF Granted
  <2>8. CASE /\ r.at = "token" /\ Active(r.sid, r.user) /\ Leave(r)
             /\ st' = [Reduce(st, "credentials_ready", r.sid, r.user) EXCEPT !.view = "session"]
             /\ UNCHANGED watch
    BY <1>1, <1>6, <2>8, TokenKeeps DEF Granted
  <2> QED BY <1>6, <2>1, <2>2, <2>3, <2>4, <2>5, <2>6, <2>7, <2>8 DEF Granted
<1> QED BY <1>1, <1>2, <1>3, <1>4, <1>5, <1>6

-----------------------------------------------------------------------------
(* Ending and leaving. *)

LEMMA EndSessionKeeps ==
  ASSUME IInv, EndSession
  PROVE  IInv'
<1> DEFINE p == Plain(st, "begin_end")
<1>1. /\ st.phase \notin {"idle", "ended", "ending"} /\ tracker' = 0
      /\ st' = IF st.sid = 0
                 THEN [p EXCEPT !.gen = @ + 1, !.busy = FALSE, !.issue = FALSE, !.notice = FALSE]
                 ELSE [p EXCEPT !.gen = @ + 1]
      /\ ends' = IF st.sid = 0 THEN ends
                 ELSE ends \cup {[gen |-> st.gen + 1, sid |-> st.sid, done |-> FALSE]}
      /\ UNCHANGED <<native, auth, fore, watch, runs, room, calls, server>>
  BY DEF EndSession
<1>2. watch = None /\ ~st.issue /\ ~st.notice
  BY <1>1 DEF IInv, Inv, ShownIsOwned
<1>3. st.sid # 0 => ~st.busy
  <2>1. \A r \in runs : Live(r) /\ r.kind = "recheck" => st.phase = "checking_health"
    BY DEF IInv, RunsFit, RunFits, PhaseOf
  <2> QED BY <2>1 DEF IInv, Inv, Shape
<1>4. /\ p \in Store /\ Kept(st, p) /\ p.gen = st.gen
      /\ p.phase = IF st.sid = 0 THEN "ended" ELSE "ending"
      /\ p.sid = st.sid /\ p.token = None
  BY <1>1, Facts, PlainEnds
<1>5. p.gen + 1 = st.gen + 1 /\ st.gen + 1 \in Nat /\ st.gen \in Nat
  BY <1>4, Facts
<1> HIDE DEF p
<1>6. /\ st' \in Store /\ st'.gen = st.gen + 1 /\ st'.sid = st.sid /\ st'.token = None
      /\ st'.phase = IF st.sid = 0 THEN "ended" ELSE "ending"
      /\ ~st'.busy /\ ~st'.issue /\ ~st'.notice
  BY <1>1, <1>2, <1>3, <1>4, <1>5 DEF Store, Kept
<1>7. /\ st'.phase \notin Starting /\ st'.phase \notin RoomPhases /\ st'.phase # "idle"
      /\ st'.phase = "ended" => st'.sid = 0
  BY <1>6 DEF Starting, RoomPhases
<1>8. st.sid # 0 => st.sid \in Sids /\ server[st.sid].user # None /\ auth.user # None
  BY Facts, StoreFields DEF IInv, Shape, ShownIsOwned
<1>9. TypeOK'
  <2>1. ends' \subseteq End
    <3>1. st.sid # 0 => [gen |-> st.gen + 1, sid |-> st.sid, done |-> FALSE] \in End
      BY <1>5, <1>8 DEF End
    <3>2. \A e \in ends' : e \in ends \/ e \in End
      BY <1>1, <3>1
    <3> QED BY <3>2, Facts
  <2> QED BY <1>1, <1>6, <2>1, Facts DEF TypeOK
<1>10. Inv'
  BY <1>1, <1>2, <1>6, <1>7, <1>9 DEF IInv, Inv
<1>11. ShownIsOwned'
  BY <1>1, <1>6, <1>7 DEF IInv, ShownIsOwned
<1>12. NoHiddenRoom' /\ EndedIsEnded'
  BY <1>7 DEF NoHiddenRoom, Bound, EndedIsEnded
<1>13. Shape'
  BY <1>1, <1>6, <1>7, <1>8 DEF Shape
<1>14. RunsFit'
  <2> SUFFICES ASSUME NEW r \in runs PROVE RunFits(r)'
    BY <1>1 DEF RunsFit
  <2>1. r.gen \in Nat /\ r.gen <= st.gen
    BY Facts DEF IInv, RunsFit, RunFits
  <2>2. r.gen <= st'.gen /\ ~Live(r)'
    BY <1>5, <1>6, <2>1 DEF Live
  <2> QED BY <1>1, <2>2 DEF IInv, RunsFit, RunFits
<1>15. ServerPast'
  BY <1>1, <1>5, <1>6, Facts DEF IInv, ServerPast
<1>16. EndsFit'
  BY <1>1, <1>8 DEF IInv, EndsFit
<1>17. RoomFits'
  <2>1. room # None => room.gen \in Nat
    BY Facts DEF Room
  <2> QED BY <1>1, <1>5, <1>6, <1>7, <2>1 DEF IInv, RoomFits
<1> QED BY <1>10, <1>11, <1>12, <1>13, <1>14, <1>15, <1>16, <1>17 DEF IInv

LEMMA ServerEndsKeeps ==
  ASSUME IInv, NEW e \in ends, ServerEnds(e)
  PROVE  IInv'
<1> DEFINE d == [e EXCEPT !.done = TRUE]
<1>1. /\ server' = [server EXCEPT ![e.sid].status = "ended"]
      /\ ends' = (ends \ {e}) \cup {d}
      /\ UNCHANGED <<native, auth, fore, st, watch, tracker, runs, room, calls>>
  BY DEF ServerEnds
<1>2. e \in End /\ e.sid \in Sids /\ server[e.sid].user # None
  BY Facts DEF IInv, EndsFit, End
<1>3. d \in End /\ d.sid = e.sid
  BY <1>2 DEF End
<1> HIDE DEF d
<1>4. server \in [Sids -> [status : {"none", "active", "ended"}, user : Users \cup {None}]]
  BY Facts DEF TypeOK
<1>5. /\ server' \in [Sids -> [status : {"none", "active", "ended"}, user : Users \cup {None}]]
      /\ \A s \in Sids : server'[s].user = server[s].user
      /\ \A s \in Sids : server[s].status = "ended" => server'[s].status = "ended"
      /\ server'[e.sid].status = "ended"
  BY <1>1, <1>2, <1>4
<1>6. TypeOK'
  BY <1>1, <1>3, <1>5, Facts DEF TypeOK
<1>7. Inv'
  BY <1>1, <1>6 DEF IInv, Inv, Live
<1>8. st.sid # 0 => st.sid \in Sids
  BY Facts, StoreFields
<1>9. ShownIsOwned' /\ EndedIsEnded' /\ Shape'
  BY <1>1, <1>5, <1>8 DEF IInv, ShownIsOwned, EndedIsEnded, Shape
<1>10. NoHiddenRoom' /\ RoomFits'
  BY <1>1 DEF IInv, NoHiddenRoom, Owned, Bound, RoomFits
<1>11. RunsFit'
  <2> SUFFICES ASSUME NEW r \in runs PROVE RunFits(r)'
    BY <1>1 DEF RunsFit
  <2>1. r.gen \in Sids /\ r.sid \in Sids \cup {0}
    BY Facts DEF Run
  <2> QED BY <1>1, <1>5, <2>1 DEF IInv, RunsFit, RunFits, Live
<1>12. ServerPast'
  BY <1>1, <1>5 DEF IInv, ServerPast
<1>13. EndsFit'
  <2>1. \A o \in ends : o.sid \in Sids
    BY Facts DEF End
  <2> QED BY <1>1, <1>2, <1>3, <1>5, <2>1 DEF IInv, EndsFit
<1> QED BY <1>7, <1>9, <1>10, <1>11, <1>12, <1>13 DEF IInv

LEMMA EndSettlesKeeps ==
  ASSUME IInv, NEW e \in ends, NEW ok \in BOOLEAN, EndSettles(e, ok)
  PROVE  IInv'
<1>1. /\ ok => e.done
      /\ ends' = ends \ {e}
      /\ st' = IF st.gen = e.gen /\ st.sid = e.sid
                 THEN Plain(st, IF ok THEN "finish_end" ELSE "fail_end") ELSE st
      /\ UNCHANGED <<native, auth, fore, watch, tracker, runs, room, calls, server>>
  BY DEF EndSettles
<1>2. e.sid \in Sids /\ e.sid # 0 /\ (e.done => server[e.sid].status = "ended")
  BY Facts DEF IInv, EndsFit, End
<1>3. \/ st' = st
      \/ /\ st.phase = "ending" /\ st' \in Store /\ Kept(st, st') /\ st'.gen = st.gen
         /\ st'.sid = st.sid /\ st'.sid # 0 /\ st'.token = None
         /\ \/ st'.phase = "end_failed"
            \/ st'.phase = "ended" /\ server[st.sid].status = "ended"
  <2>1. CASE ~(st.gen = e.gen /\ st.sid = e.sid)
    BY <1>1, <2>1
  <2>2. CASE st.gen = e.gen /\ st.sid = e.sid /\ st.phase # "ending"
    BY <1>1, <2>2, ReduceNot DEF From, Plain
  <2>3. CASE st.gen = e.gen /\ st.sid = e.sid /\ st.phase = "ending" /\ ok
    <3>1. st.phase \in From["finish_end"] /\ To["finish_end"] = "ended"
      BY <2>3 DEF From, To
    <3> QED BY <1>1, <1>2, <2>3, <3>1, Facts, PlainIs
  <2>4. CASE st.gen = e.gen /\ st.sid = e.sid /\ st.phase = "ending" /\ ~ok
    <3>1. st.phase \in From["fail_end"] /\ To["fail_end"] = "end_failed"
      BY <2>4 DEF From, To
    <3> QED BY <1>1, <1>2, <2>4, <3>1, Facts, PlainIs
  <2> QED BY <2>1, <2>2, <2>3, <2>4
<1>4. CASE st' = st
  <2>1. TypeOK'
    BY <1>1, <1>4, Facts DEF TypeOK
  <2>2. Inv'
    BY <1>1, <1>4, <2>1 DEF IInv, Inv, Live
  <2>3. ShownIsOwned' /\ EndedIsEnded' /\ Shape' /\ ServerPast' /\ EndsFit' /\ RoomFits'
    BY <1>1, <1>4 DEF IInv, ShownIsOwned, EndedIsEnded, Shape, ServerPast, EndsFit, RoomFits
  <2>4. NoHiddenRoom' /\ RunsFit'
    BY <1>1, <1>4 DEF IInv, NoHiddenRoom, Owned, Bound, RunsFit, RunFits, Live
  <2> QED BY <2>2, <2>3, <2>4 DEF IInv
<1>5. CASE /\ st.phase = "ending" /\ st' \in Store /\ Kept(st, st') /\ st'.gen = st.gen
           /\ st'.sid = st.sid /\ st'.sid # 0 /\ st'.token = None
           /\ \/ st'.phase = "end_failed"
              \/ st'.phase = "ended" /\ server[st.sid].status = "ended"
  <2>1. /\ st'.phase \notin Starting /\ st'.phase \notin RoomPhases /\ st'.phase # "idle"
        /\ st.phase \notin Starting
    BY <1>5 DEF Starting, RoomPhases
  <2>2. tracker = 0 /\ watch = None
    BY <1>5, <2>1 DEF IInv, Inv
  <2>3. ~st'.busy
    <3>1. \A r \in runs : ~Live(r)
      BY <2>2, Facts DEF Live
    <3> QED BY <1>5, <3>1 DEF IInv, Inv, Kept
  <2>4. TypeOK'
    BY <1>1, <1>5, Facts DEF TypeOK
  <2>5. Inv'
    BY <1>1, <1>5, <2>1, <2>2, <2>3, <2>4 DEF IInv, Inv
  <2>6. ShownIsOwned'
    BY <1>1, <1>5, <2>1, <2>2 DEF IInv, ShownIsOwned, Kept
  <2>7. NoHiddenRoom' /\ EndedIsEnded'
    BY <1>1, <1>5, <2>1 DEF NoHiddenRoom, Bound, EndedIsEnded
  <2>8. Shape'
    BY <1>1, <1>5, <2>1 DEF IInv, Shape
  <2>9. RunsFit'
    <3> SUFFICES ASSUME NEW r \in runs PROVE RunFits(r)'
      BY <1>1 DEF RunsFit
    <3>1. ~Live(r)'
      BY <1>1, <2>2, Facts DEF Live
    <3> QED BY <1>1, <1>5, <3>1 DEF IInv, RunsFit, RunFits
  <2>10. ServerPast' /\ EndsFit' /\ RoomFits'
    BY <1>1, <1>5, <2>1 DEF IInv, ServerPast, EndsFit, RoomFits
  <2> QED BY <2>5, <2>6, <2>7, <2>8, <2>9, <2>10 DEF IInv
<1> QED BY <1>3, <1>4, <1>5

LEMMA GoHomeKeeps ==
  ASSUME IInv, GoHome
  PROVE  IInv'
<1>1. /\ st' = HomeStore(st) /\ watch' = None /\ tracker' = 0
      /\ UNCHANGED <<native, auth, fore, runs, ends, room, calls, server>>
  BY DEF GoHome, Reset
<1>2. Cleared
  BY <1>1, Facts, HomeStoreIs DEF Cleared
<1> QED BY <1>2, ClearedKeeps

LEMMA OpenDocChatKeeps ==
  ASSUME IInv, OpenDocChat
  PROVE  IInv'
<1> DEFINE p == ResetStore(st)
<1>1. /\ st' = [p EXCEPT !.view = "doc-chat-setup"] /\ watch' = None /\ tracker' = 0
      /\ UNCHANGED <<native, auth, fore, runs, ends, room, calls, server>>
  BY DEF OpenDocChat, Reset
<1>2. Idle(p) /\ p.gen = st.gen + 1 /\ ~p.issue /\ ~p.notice /\ ~p.busy
  BY Facts, ResetStoreIs
<1> HIDE DEF p
<1>3. /\ Idle(st') /\ st'.gen = st.gen + 1 /\ ~st'.issue /\ ~st'.notice /\ ~st'.busy
      /\ st'.view # "session"
  BY <1>1, <1>2 DEF Idle, Store
<1>4. Cleared
  BY <1>1, <1>3, Facts DEF Cleared
<1> QED BY <1>4, ClearedKeeps

-----------------------------------------------------------------------------
(* The room. *)

\* A room whose session the store still shows: no startup, no readiness.
LEMMA FailConnectionFails ==
  ASSUME IInv, st.phase \in RoomPhases, FailConnection,
         room' \in Room \cup {None}, room' # None => room'.gen <= st.gen /\ room'.seen <= auth.rev,
         fore' \in BOOLEAN, UNCHANGED <<native, auth, watch, runs, ends, calls, server>>
  PROVE  IInv'
<1>1. Failed
  BY Facts, PlainFails DEF FailConnection, Failed
<1> QED BY <1>1, FailedKeeps

LEMMA MountKeeps ==
  ASSUME IInv, Mount
  PROVE  IInv'
<1>1. /\ st.phase \in RoomPhases /\ st.phase \notin Starting
      /\ room' = [gen |-> st.gen, sid |-> st.sid, user |-> auth.user, seen |-> auth.rev,
                  open |-> ~native /\ fore, linked |-> FALSE]
      /\ IF native \/ fore THEN UNCHANGED <<st, tracker>> ELSE FailConnection
      /\ UNCHANGED <<native, auth, fore, watch, runs, ends, calls, server>>
  BY DEF Mount, NewRoom, InitialBlockedHandler, RoomPhases, Starting
<1>2. st.sid \in Sids /\ auth.user \in Users
  BY <1>1, Facts, StoreFields DEF IInv, Shape
<1>3. room' \in Room /\ room'.gen = st.gen /\ room'.seen = auth.rev
      /\ (room'.open => fore)
  BY <1>1, <1>2, Facts DEF Room
<1>4. room'.gen <= st.gen /\ room'.seen <= auth.rev
  BY <1>3, Facts
<1>5. CASE native \/ fore
  <2>1. Quiet
    BY <1>1, <1>3, <1>5, Facts DEF Quiet, TypeOK
  <2>2. NoHiddenRoom' /\ RoomFits'
    BY <1>1, <1>3, <1>4, <1>5 DEF NoHiddenRoom, RoomFits
  <2> QED BY <2>1, <2>2, QuietKeeps
<1>6. CASE ~(native \/ fore)
  BY <1>1, <1>3, <1>4, <1>6, Facts, FailConnectionFails
<1> QED BY <1>5, <1>6

LEMMA UnmountKeeps ==
  ASSUME IInv, Unmount
  PROVE  IInv'
<1>1. Quiet
  BY Facts DEF Unmount, Quiet, TypeOK
<1>2. NoHiddenRoom' /\ RoomFits'
  BY DEF Unmount, NoHiddenRoom, Owned, RoomFits
<1> QED BY <1>1, <1>2, QuietKeeps

LEMMA RoomFacts ==
  ASSUME IInv, room # None
  PROVE  /\ room \in Room /\ room.gen \in Nat /\ room.seen \in Nat
         /\ room.gen <= st.gen /\ room.seen <= auth.rev
         /\ room.gen = st.gen => st.phase \notin Starting
BY Facts, BoundsAssumption DEF IInv, RoomFits, Room

LEMMA RerenderKeeps ==
  ASSUME IInv, Rerender
  PROVE  IInv'
<1>1. /\ Bound /\ room # None /\ st.phase \in RoomPhases
      /\ room' = [room EXCEPT !.seen = auth.rev]
      /\ IF fore \/ ~room.open THEN UNCHANGED <<st, tracker>> ELSE FailConnection
      /\ UNCHANGED <<native, auth, fore, watch, runs, ends, calls, server>>
  BY DEF Rerender, Bound
<1>2. /\ room' \in Room /\ room'.gen = room.gen /\ room'.seen = auth.rev
      /\ room'.open = room.open /\ room'.gen <= st.gen /\ room'.seen <= auth.rev
  BY <1>1, Facts, RoomFacts DEF Room
<1>3. CASE fore \/ ~room.open
  <2>1. Quiet
    BY <1>1, <1>2, <1>3, Facts DEF Quiet, TypeOK
  <2>2. NoHiddenRoom' /\ RoomFits'
    BY <1>1, <1>2, <1>3, RoomFacts DEF NoHiddenRoom, RoomFits
  <2> QED BY <2>1, <2>2, QuietKeeps
<1>4. CASE ~(fore \/ ~room.open)
  BY <1>1, <1>2, <1>4, Facts, FailConnectionFails
<1> QED BY <1>3, <1>4

LEMMA GateSettlesKeeps ==
  ASSUME IInv, NEW ready \in BOOLEAN, GateSettles(ready)
  PROVE  IInv'
<1>1. /\ room # None /\ st.phase \in RoomPhases
      /\ UNCHANGED <<native, auth, fore, watch, runs, ends, calls, server>>
      /\ \/ fore /\ room' = [room EXCEPT !.open = TRUE] /\ UNCHANGED <<st, tracker>>
         \/ FailConnection /\ room' = room
  BY DEF GateSettles, Bound
<1>2. CASE fore /\ room' = [room EXCEPT !.open = TRUE] /\ UNCHANGED <<st, tracker>>
  <2>1. /\ room' \in Room /\ room'.gen = room.gen /\ room'.seen = room.seen
    BY <1>1, <1>2, RoomFacts DEF Room
  <2>2. Quiet
    BY <1>1, <1>2, <2>1, Facts DEF Quiet, TypeOK
  <2>3. NoHiddenRoom' /\ RoomFits'
    BY <1>1, <1>2, <2>1, RoomFacts DEF NoHiddenRoom, RoomFits
  <2> QED BY <2>2, <2>3, QuietKeeps
<1>3. CASE FailConnection /\ room' = room
  BY <1>1, <1>3, Facts, RoomFacts, FailConnectionFails
<1> QED BY <1>1, <1>2, <1>3

LEMMA ConnectedKeeps ==
  ASSUME IInv, Connected
  PROVE  IInv'
<1>1. /\ room # None /\ room' = [room EXCEPT !.linked = TRUE]
      /\ \/ Owned /\ Bound
            /\ calls' = calls \cup {[gen |-> room.gen, sid |-> room.sid, rev |-> auth.rev]}
         \/ calls' = calls
      /\ UNCHANGED <<native, auth, fore, st, watch, tracker, runs, ends, server>>
  BY DEF Connected
<1>2. /\ room' \in Room /\ room'.gen = room.gen /\ room'.seen = room.seen /\ room'.sid = room.sid
      /\ room'.user = room.user /\ room'.open = room.open
  BY <1>1, RoomFacts DEF Room
<1>3. calls' \subseteq Call
  <2>1. [gen |-> room.gen, sid |-> room.sid, rev |-> auth.rev] \in Call
    BY <1>1, Facts, RoomFacts DEF Call, Room
  <2> QED BY <1>1, <2>1, Facts DEF TypeOK
<1>4. Quiet
  BY <1>1, <1>2, <1>3, Facts DEF Quiet
<1>5. NoHiddenRoom' /\ RoomFits'
  BY <1>1, <1>2, RoomFacts DEF IInv, NoHiddenRoom, Owned, Bound, RoomFits
<1> QED BY <1>4, <1>5, QuietKeeps

LEMMA RoomFailsKeeps ==
  ASSUME IInv, RoomFails
  PROVE  IInv'
<1>1. /\ room # None /\ st.phase \in RoomPhases /\ FailConnection
      /\ UNCHANGED <<native, auth, fore, watch, runs, ends, room, calls, server>>
  BY DEF RoomFails, Bound
<1> QED BY <1>1, Facts, RoomFacts, FailConnectionFails

LEMMA DispatchSettlesKeeps ==
  ASSUME IInv, NEW c \in calls, NEW ok \in BOOLEAN, DispatchSettles(c, ok)
  PROVE  IInv'
<1>1. /\ calls' = calls \ {c}
      /\ UNCHANGED <<native, auth, fore, watch, tracker, runs, ends, room, server>>
      /\ st' = st \/ (Bound /\ st' = Plain(st, "fail_dispatch"))
  BY DEF DispatchSettles, FailDispatch
<1>2. CASE st' = st
  <2>1. Quiet
    BY <1>1, <1>2, Facts DEF Quiet, TypeOK
  <2>2. NoHiddenRoom' /\ RoomFits'
    BY <1>1, <1>2 DEF IInv, NoHiddenRoom, Owned, Bound, RoomFits
  <2> QED BY <2>1, <2>2, QuietKeeps
<1>3. CASE Bound /\ st' = Plain(st, "fail_dispatch")
  <2>1. room # None /\ st.phase \in RoomPhases
    BY <1>3 DEF Bound
  <2>2. Failed
    BY <1>1, <1>3, <2>1, Facts, RoomFacts, PlainFails DEF Failed
  <2> QED BY <2>2, FailedKeeps
<1> QED BY <1>1, <1>2, <1>3

LEMMA SetActiveKeeps ==
  ASSUME IInv, SetActive
  PROVE  IInv'
<1>1. /\ room # None /\ st.gen = room.gen /\ st.sid = room.sid
      /\ st.phase = "credentials_ready" /\ st' = Plain(st, "activate")
      /\ UNCHANGED <<native, auth, fore, watch, tracker, runs, ends, room, calls, server>>
  BY DEF SetActive, Activate
<1>2. /\ st' \in Store /\ Kept(st, st') /\ st'.gen = st.gen /\ st'.phase = "active"
      /\ st'.sid = st.sid /\ st'.token = st.token
  <2>1. /\ st.phase \in From["activate"] /\ To["activate"] = "active" /\ "activate" \in DOMAIN To
    BY <1>1 DEF From, To
  <2>2. 0 \in Sids \cup {0} /\ None \in Users \cup {None}
    OBVIOUS
  <2> QED BY <1>1, <2>1, <2>2, Facts, ReduceIs DEF Plain
<1>3. /\ st.phase \in RoomPhases /\ st'.phase \in RoomPhases /\ st'.phase \notin Starting
      /\ st.phase \notin Starting
  BY <1>1, <1>2 DEF RoomPhases, Starting
<1>4. tracker = 0 /\ watch = None
  BY <1>1, <1>3 DEF IInv, Inv
<1>5. \A r \in runs : ~Live(r) /\ ~Live(r)'
  BY <1>1, <1>4, Facts DEF Live
<1>6. TypeOK'
  BY <1>1, <1>2, Facts DEF TypeOK
<1>7. Inv'
  BY <1>1, <1>2, <1>3, <1>4, <1>5, <1>6 DEF IInv, Inv, Kept
<1>8. ShownIsOwned' /\ EndedIsEnded' /\ Shape'
  BY <1>1, <1>2, <1>3 DEF IInv, ShownIsOwned, EndedIsEnded, Shape, Kept
<1>9. NoHiddenRoom' /\ RoomFits'
  BY <1>1, <1>2, <1>3 DEF IInv, NoHiddenRoom, Owned, Bound, RoomFits
<1>10. RunsFit'
  BY <1>1, <1>2, <1>5 DEF IInv, RunsFit, RunFits
<1>11. ServerPast' /\ EndsFit'
  BY <1>1, <1>2 DEF IInv, ServerPast, EndsFit
<1> QED BY <1>7, <1>8, <1>9, <1>10, <1>11 DEF IInv

LEMMA AgentErrorKeeps ==
  ASSUME IInv, AgentError
  PROVE  IInv'
<1> DEFINE p == Plain(st, "agent_error")
<1>1. /\ st.phase \in RoomPhases /\ tracker' = 0
      /\ st' = [p EXCEPT !.gen = @ + 1, !.agentError = TRUE]
      /\ UNCHANGED <<native, auth, fore, watch, runs, ends, room, calls, server>>
  BY DEF AgentError, Bound
<1>2. st.phase \notin Starting /\ st.phase # "idle"
  BY <1>1 DEF RoomPhases, Starting
<1>3. tracker = 0 /\ watch = None
  BY <1>2 DEF IInv, Inv
<1>4. ~st.busy /\ ~st.issue /\ ~st.notice
  <2>1. \A r \in runs : ~Live(r)
    BY <1>3, Facts DEF Live
  <2> QED BY <1>3, <2>1 DEF IInv, Inv, ShownIsOwned
<1>5. /\ p \in Store /\ Kept(st, p) /\ p.gen = st.gen /\ p.phase = "ended"
      /\ p.sid = st.sid /\ p.token = None
  <2>1. st.phase \in From["agent_error"] /\ To["agent_error"] = "ended"
    BY Facts, StoreFields DEF From, To
  <2> QED BY <2>1, Facts, PlainIs
<1>6. p.gen + 1 = st.gen + 1 /\ st.gen + 1 \in Nat /\ st.gen \in Nat
  BY <1>5, Facts
<1> HIDE DEF p
<1>7. /\ st' \in Store /\ st'.gen = st.gen + 1 /\ st'.phase = "ended" /\ st'.sid = st.sid
      /\ st'.token = None /\ st'.agentError /\ ~st'.busy /\ ~st'.issue /\ ~st'.notice
  BY <1>1, <1>4, <1>5, <1>6 DEF Store, Kept
<1>8. st'.phase \notin Starting /\ st'.phase \notin RoomPhases /\ st'.phase # "idle"
  BY <1>7 DEF RoomPhases, Starting
<1>9. TypeOK'
  BY <1>1, <1>7, Facts DEF TypeOK
<1>10. Inv'
  BY <1>1, <1>3, <1>7, <1>8, <1>9 DEF IInv, Inv
<1>11. ShownIsOwned' /\ EndedIsEnded'
  BY <1>1, <1>7, <1>8 DEF IInv, ShownIsOwned, EndedIsEnded
<1>12. Shape'
  BY <1>1, <1>7, <1>8 DEF IInv, Shape
<1>13. NoHiddenRoom' /\ RoomFits'
  <2>1. room # None => room.gen \in Nat /\ room.gen <= st.gen /\ room.seen <= auth.rev
    BY RoomFacts
  <2> QED BY <1>1, <1>6, <1>7, <1>8, <2>1 DEF NoHiddenRoom, Bound, RoomFits
<1>14. RunsFit'
  <2> SUFFICES ASSUME NEW r \in runs PROVE RunFits(r)'
    BY <1>1 DEF RunsFit
  <2>1. r.gen \in Nat /\ r.gen <= st.gen /\ ~Live(r)'
    BY <1>1, Facts DEF Live, IInv, RunsFit, RunFits
  <2>2. r.gen <= st'.gen
    BY <1>6, <1>7, <2>1
  <2> QED BY <1>1, <2>1, <2>2 DEF IInv, RunsFit, RunFits
<1>15. ServerPast' /\ EndsFit'
  BY <1>1, <1>6, <1>7, Facts DEF IInv, ServerPast, EndsFit
<1> QED BY <1>10, <1>11, <1>12, <1>13, <1>14, <1>15 DEF IInv

-----------------------------------------------------------------------------
(* What happens around it. *)

\* A new revision that nobody has to react to: there is no startup and no
\* readiness, and who was signed in still is.
LEMMA AuthUnnoticed ==
  ASSUME IInv, NEW user \in Users \cup {None}, auth.rev < MaxRev,
         auth' = [user |-> user, rev |-> auth.rev + 1],
         auth.user = None \/ user = auth.user, watch = None,
         UNCHANGED <<native, fore, st, watch, tracker, runs, ends, room, calls, server>>
  PROVE  IInv'
<1>1. /\ auth' \in [user : Users \cup {None}, rev : 0..MaxRev]
      /\ auth'.user = user /\ auth'.rev = auth.rev + 1 /\ auth'.rev > auth.rev
      /\ auth'.rev \in Nat
  BY Facts, BoundsAssumption
<1>2. TypeOK'
  BY <1>1, Facts DEF TypeOK
<1>3. Inv'
  BY <1>2 DEF IInv, Inv, Live
<1>4. ShownIsOwned' /\ Shape'
  BY <1>1 DEF IInv, ShownIsOwned, Shape
<1>5. EndedIsEnded' /\ ServerPast' /\ EndsFit'
  BY DEF IInv, EndedIsEnded, ServerPast, EndsFit
<1>6. NoHiddenRoom' /\ RoomFits'
  <2>1. room # None => /\ room.seen \in Nat /\ room.seen < auth'.rev /\ room.gen <= st.gen
                       /\ (room.gen = st.gen => st.phase \notin Starting)
                       /\ room.seen <= auth'.rev /\ room.seen # auth'.rev
    BY <1>1, Facts, RoomFacts
  <2> QED BY <2>1 DEF NoHiddenRoom, Owned, RoomFits
<1>7. RunsFit'
  BY DEF IInv, RunsFit, RunFits, Live
<1> QED BY <1>3, <1>4, <1>5, <1>6, <1>7 DEF IInv

LEMMA AuthEventKeeps ==
  ASSUME IInv, NEW user \in Users \cup {None}, AuthEvent(user)
  PROVE  IInv'
<1>1. /\ auth.rev < MaxRev
      /\ auth' = [user |-> user, rev |-> auth.rev + 1]
      /\ UNCHANGED <<native, fore, runs, ends, room, calls, server>>
  BY DEF AuthEvent
<1>2. auth' \in [user : Users \cup {None}, rev : 0..MaxRev] /\ auth'.rev >= auth.rev
  BY <1>1, Facts, BoundsAssumption
<1>3. CASE Reset(HomeStore(st))
  <2>1. Cleared
    BY <1>1, <1>2, <1>3, Facts, HomeStoreIs DEF Cleared, Reset
  <2> QED BY <2>1, ClearedKeeps
<1>4. CASE Alive # {} /\ st' = CancelStore(st) /\ tracker' = 0 /\ UNCHANGED <<watch, mark>>
  <2>1. watch' = None /\ ~st.issue /\ ~st.notice
    BY <1>4, LiveFacts DEF Alive
  <2>2. Cleared
    BY <1>1, <1>2, <1>4, <2>1, Facts, CancelStoreIs DEF Cleared
  <2> QED BY <2>2, ClearedKeeps
<1>5. CASE watch # None /\ Reset(ResetStore(st))
  <2>1. st.view # "session"
    BY <1>5 DEF IInv, Inv, ShownIsOwned
  <2>2. Cleared
    BY <1>1, <1>2, <1>5, <2>1, Facts, ResetStoreIs DEF Cleared, Reset
  <2> QED BY <2>2, ClearedKeeps
<1>6. CASE /\ auth.user = None \/ user = auth.user
           /\ ~(watch # None /\ watch.gen = st.gen)
           /\ UNCHANGED <<st, watch, tracker, mark>>
  <2>1. watch = None
    BY <1>6 DEF IInv, Inv
  <2> QED BY <1>1, <1>6, <2>1, AuthUnnoticed
<1> QED BY <1>3, <1>4, <1>5, <1>6 DEF AuthEvent

LEMMA BackgroundKeeps ==
  ASSUME IInv, Background
  PROVE  IInv'
<1>1. /\ fore' = FALSE
      /\ UNCHANGED <<native, auth, watch, runs, ends, room, calls, server>>
  BY DEF Background
<1>2. CASE Alive # {} /\ st' = CancelStore(st) /\ tracker' = 0
  <2>1. watch' = None /\ ~st.issue /\ ~st.notice
    BY <1>1, <1>2, LiveFacts DEF Alive
  <2>2. /\ Idle(st') /\ st'.gen = st.gen + 1 /\ ~st'.busy /\ st'.view # "session"
        /\ ~st'.issue /\ ~st'.notice
    BY <1>2, <2>1, Facts, CancelStoreIs
  <2>3. /\ auth' \in [user : Users \cup {None}, rev : 0..MaxRev] /\ auth'.rev >= auth.rev
        /\ fore' \in BOOLEAN
    <3>1. auth' = auth /\ fore' \in BOOLEAN
      BY <1>1
    <3>2. auth.rev >= auth.rev
      BY Facts
    <3> QED BY <3>1, <3>2, Facts
  <2>4. Cleared
    BY <1>1, <1>2, <2>1, <2>2, <2>3 DEF Cleared
  <2> QED BY <2>4, ClearedKeeps
<1>3. CASE Owned /\ Bound /\ FailConnection
  <2>1. room # None /\ st.phase \in RoomPhases
    BY <1>3 DEF Bound
  <2> QED BY <1>1, <1>3, <2>1, Facts, RoomFacts, FailConnectionFails
<1>4. CASE /\ Alive # {} \/ ~(Owned /\ Bound)
           /\ UNCHANGED <<st, tracker>>
  <2>1. ~(Owned /\ Bound)
    <3>1. Alive # {} => st.phase \in Starting
      BY DEF Alive
    <3>2. Bound => st.phase \notin Starting
      BY DEF Bound, RoomPhases, Starting
    <3> QED BY <1>4, <3>1, <3>2
  <2>2. Quiet
    BY <1>1, <1>4, Facts DEF Quiet, TypeOK
  <2>3. NoHiddenRoom' /\ RoomFits'
    BY <1>1, <1>4, <2>1 DEF NoHiddenRoom, Owned, Bound, IInv, RoomFits
  <2> QED BY <2>2, <2>3, QuietKeeps
<1> QED BY <1>2, <1>3, <1>4 DEF Background

LEMMA ForegroundKeeps ==
  ASSUME IInv, Foreground
  PROVE  IInv'
<1>1. Quiet
  BY Facts DEF Foreground, Quiet, TypeOK
<1>2. NoHiddenRoom' /\ RoomFits'
  BY DEF Foreground, NoHiddenRoom, IInv, RoomFits
<1> QED BY <1>1, <1>2, QuietKeeps

-----------------------------------------------------------------------------
(* The invariant. *)

LEMMA InitIInv == Init => IInv
<1> SUFFICES ASSUME Init PROVE IInv
  OBVIOUS
<1>1. /\ native \in BOOLEAN /\ fore = TRUE /\ auth = [user |-> None, rev |-> 0]
      /\ watch = None /\ tracker = 0 /\ room = None
      /\ runs = {} /\ ends = {} /\ calls = {}
      /\ server = [s \in Sids |-> [status |-> "none", user |-> None]]
  BY DEF Init
<1>2. /\ st \in Store /\ st.phase = "idle" /\ st.sid = 0 /\ st.token = None /\ st.gen = 0
      /\ st.view = "dashboard" /\ ~st.issue /\ ~st.notice /\ ~st.busy
  BY DEF Init, Store, Phases
<1>3. TypeOK
  BY <1>1, <1>2, BoundsAssumption DEF TypeOK
<1>4. Inv
  BY <1>1, <1>2, <1>3 DEF Inv, Starting
<1> QED BY <1>1, <1>2, <1>4 DEF IInv, ShownIsOwned, NoHiddenRoom, Owned, EndedIsEnded, Shape,
           RoomPhases, RunsFit, ServerPast, EndsFit, RoomFits

LEMMA NextIInv == IInv /\ [Next]_vars => IInv'
<1> SUFFICES ASSUME IInv, [Next]_vars PROVE IInv'
  OBVIOUS
<1>1. CASE Start \/ Recheck \/ \E s \in Sids : Resume(s)
  BY <1>1, StartKeeps, RecheckKeeps, ResumeKeeps
<1>2. CASE \E r \in runs : ServerCreates(r) \/ Settle(r)
  BY <1>2, ServerCreatesKeeps, SettleKeeps
<1>3. CASE EndSession \/ GoHome \/ OpenDocChat
  BY <1>3, EndSessionKeeps, GoHomeKeeps, OpenDocChatKeeps
<1>4. CASE \E e \in ends : ServerEnds(e) \/ \E ok \in BOOLEAN : EndSettles(e, ok)
  BY <1>4, ServerEndsKeeps, EndSettlesKeeps
<1>5. CASE Mount \/ Unmount \/ Rerender \/ Connected
  BY <1>5, MountKeeps, UnmountKeeps, RerenderKeeps, ConnectedKeeps
<1>6. CASE SetActive \/ RoomFails \/ AgentError
  BY <1>6, SetActiveKeeps, RoomFailsKeeps, AgentErrorKeeps
<1>7. CASE \E ready \in BOOLEAN : GateSettles(ready)
  BY <1>7, GateSettlesKeeps
<1>8. CASE \E c \in calls, ok \in BOOLEAN : DispatchSettles(c, ok)
  BY <1>8, DispatchSettlesKeeps
<1>9. CASE \E user \in Users \cup {None} : AuthEvent(user)
  BY <1>9, AuthEventKeeps
<1>10. CASE Background \/ Foreground
  BY <1>10, BackgroundKeeps, ForegroundKeeps
<1>11. CASE UNCHANGED vars
  <2>1. Quiet
    BY <1>11, Facts DEF vars, Quiet, TypeOK
  <2>2. NoHiddenRoom' /\ RoomFits'
    BY <1>11 DEF vars, IInv, NoHiddenRoom, Owned, Bound, RoomFits
  <2> QED BY <2>1, <2>2, QuietKeeps
<1> QED BY <1>1, <1>2, <1>3, <1>4, <1>5, <1>6, <1>7, <1>8, <1>9, <1>10, <1>11 DEF Next

(* The inductive invariant of the conversation: with the checked ones, that *)
(* the session id and the token fit the phase, that each startup waits for  *)
(* something its kind can wait for and shows the phase that goes with it,   *)
(* and that neither sessions, ends nor rooms are ahead of the generation.   *)
THEOREM Inductive == Spec => []IInv
<1>1. Init => IInv
  BY InitIInv
<1>2. IInv /\ [Next]_vars => IInv'
  BY NextIInv
<1> QED BY <1>1, <1>2, PTL DEF Spec

(* The start slot is neither lost nor leaked: a startup that is shown is    *)
(* still coming back and holds its tracker, a tracker never outlives it, a  *)
(* recheck is shown only while one is under way, and the readiness watch is *)
(* of the present generation (conversation.ts:323-409, 763-772).            *)
THEOREM SlotOwned == Spec => []Inv
<1>1. IInv => Inv
  BY DEF IInv
<1> QED BY <1>1, Inductive, PTL

(* What the store shows, its credentials, its session and its readiness, is *)
(* the present account's (conversation.ts:264-289, AuthGate.tsx:44-69).     *)
THEOREM AccountOwned == Spec => []ShownIsOwned
<1>1. IInv => ShownIsOwned
  BY DEF IInv
<1> QED BY <1>1, Inductive, PTL

(* A room that may use the microphone is in the foreground                  *)
(* (RoomSession.tsx:225-285).                                               *)
THEOREM RoomInSight == Spec => []NoHiddenRoom
<1>1. IInv => NoHiddenRoom
  BY DEF IInv
<1> QED BY <1>1, Inductive, PTL

(* The end of a conversation is shown only when the server has ended it, or *)
(* the agent has given it up (conversation.ts:1246-1269).                   *)
THEOREM EndHonest == Spec => []EndedIsEnded
<1>1. IInv => EndedIsEnded
  BY DEF IInv
<1> QED BY <1>1, Inductive, PTL

(* No state is lost in the flat fields that the store shows for it          *)
(* (conversationState.ts:208-336).                                          *)
THEOREM Faithful == Spec => []RoundTrip
<1>1. ASSUME IInv PROVE RoundTrip
  <2>1. st.phase \in Phases
    BY <1>1, Facts, StoreFields
  <2>2. CASE st.phase \in {"idle", "checking_health"}
    BY <1>1, <2>2 DEF IInv, Shape, RoundTrip, FromProjection, Project, RoomPhases
  <2>3. CASE st.phase = "creating_session"
    BY <1>1, <2>3 DEF IInv, Shape, RoundTrip, FromProjection, Project, RoomPhases
  <2>4. CASE st.phase \in {"fetching_token", "credentials_ready", "active"}
    BY <1>1, <2>4 DEF IInv, Shape, RoundTrip, FromProjection, Project, RoomPhases
  <2>5. CASE st.phase \in {"ending", "end_failed"}
    BY <1>1, <2>5 DEF IInv, Shape, RoundTrip, FromProjection, Project, RoomPhases
  <2>6. CASE st.phase \in Failures \cup {"ended"}
    BY <1>1, <2>6 DEF IInv, Shape, RoundTrip, FromProjection, Project, RoomPhases, Failures
  <2> QED BY <2>1, <2>2, <2>3, <2>4, <2>5, <2>6 DEF Phases, Starting, RoomPhases, Failures
<1> QED BY <1>1, Inductive, PTL

-----------------------------------------------------------------------------
(* What comes back too late. *)

Late ==
  \A x \in Returned(runs, runs') \cup Returned(ends, ends') \cup Returned(calls, calls') :
    x.gen # st.gen => UNCHANGED <<st, watch, tracker>>

\* Nothing has come back where nothing is taken away.
LEMMA NoneReturned ==
  ASSUME NEW before, NEW after, before \subseteq after
  PROVE  Returned(before, after) = {}
BY DEF Returned

\* Only what is taken away can have come back.
LEMMA OneReturned ==
  ASSUME NEW before, NEW after, NEW x, before \ {x} \subseteq after
  PROVE  Returned(before, after) \subseteq {x}
BY DEF Returned

LEMMA SettleLate ==
  ASSUME IInv, NEW r \in runs, Settle(r)
  PROVE  Late
<1>1. Returned(runs, runs') \subseteq {r}
  <2>1. runs \ {r} \subseteq runs'
    BY DEF Settle, Stale, Revoked, GateFails, Refused, NotReady, Granted, Leave, Step
  <2> QED BY <2>1, OneReturned
<1>2. Returned(ends, ends') = {} /\ Returned(calls, calls') = {}
  <2>1. ends' = ends /\ calls' = calls
    BY DEF Settle
  <2> QED BY <2>1, NoneReturned
<1>3. r.gen # st.gen => UNCHANGED <<st, watch, tracker>>
  <2>1. SUFFICES ASSUME ~Live(r) PROVE UNCHANGED <<st, watch, tracker>>
    BY DEF Live
  <2>2. Stale(r) /\ Rest
    BY <2>1 DEF Settle, Rest, Revoked, GateFails, Refused, NotReady, Granted, Current
  <2> QED BY <2>2, StaleKeeps DEF Stale
<1> QED BY <1>1, <1>2, <1>3 DEF Late

LEMMA NextLate == IInv /\ [Next]_vars => Late
<1> SUFFICES ASSUME IInv, [Next]_vars PROVE Late
  OBVIOUS
<1>1. CASE runs \subseteq runs' /\ ends \subseteq ends' /\ calls \subseteq calls'
  BY <1>1, NoneReturned DEF Late
<1>2. ASSUME NEW r \in runs, Settle(r) PROVE Late
  BY <1>2, SettleLate
<1>3. ASSUME NEW r \in runs, ServerCreates(r) PROVE Late
  BY <1>3 DEF ServerCreates, Late
<1>4. ASSUME NEW e \in ends, ServerEnds(e) PROVE Late
  BY <1>4 DEF ServerEnds, Late
<1>5. ASSUME NEW e \in ends, NEW ok \in BOOLEAN, EndSettles(e, ok) PROVE Late
  <2>1. /\ runs' = runs /\ calls' = calls /\ ends \ {e} \subseteq ends'
        /\ e.gen # st.gen => st' = st
        /\ UNCHANGED <<watch, tracker>>
    BY <1>5 DEF EndSettles
  <2>2. Returned(runs, runs') = {} /\ Returned(calls, calls') = {}
    BY <2>1, NoneReturned
  <2>3. Returned(ends, ends') \subseteq {e}
    BY <2>1, OneReturned
  <2> QED BY <2>1, <2>2, <2>3 DEF Late
<1>6. ASSUME NEW c \in calls, NEW ok \in BOOLEAN, DispatchSettles(c, ok) PROVE Late
  <2>1. /\ runs' = runs /\ ends' = ends /\ calls \ {c} \subseteq calls'
        /\ c.gen # st.gen => st' = st
        /\ UNCHANGED <<watch, tracker>>
    BY <1>6 DEF DispatchSettles, FailDispatch
  <2>2. Returned(runs, runs') = {} /\ Returned(ends, ends') = {}
    BY <2>1, NoneReturned
  <2>3. Returned(calls, calls') \subseteq {c}
    BY <2>1, OneReturned
  <2> QED BY <2>1, <2>2, <2>3 DEF Late
<1>7. CASE Start \/ Recheck \/ \E s \in Sids : Resume(s)
  <2>1. runs \subseteq runs' /\ ends \subseteq ends' /\ calls \subseteq calls'
    BY <1>7 DEF Start, Recheck, Resume, Begin
  <2> QED BY <1>1, <2>1
<1>8. CASE EndSession \/ GoHome \/ OpenDocChat
  BY <1>1, <1>8 DEF EndSession, GoHome, OpenDocChat
<1>9. CASE Mount \/ Unmount \/ Rerender \/ SetActive \/ RoomFails \/ AgentError
  BY <1>1, <1>9 DEF Mount, Unmount, Rerender, SetActive, RoomFails, AgentError
<1>10. CASE Connected \/ \E ready \in BOOLEAN : GateSettles(ready)
  BY <1>1, <1>10 DEF Connected, GateSettles
<1>11. CASE \/ \E user \in Users \cup {None} : AuthEvent(user)
            \/ Background \/ Foreground \/ UNCHANGED vars
  BY <1>1, <1>11 DEF AuthEvent, Background, Foreground, vars
<1> QED BY <1>2, <1>3, <1>4, <1>5, <1>6, <1>7, <1>8, <1>9, <1>10, <1>11 DEF Next

(* Whatever comes back after its generation has passed touches neither the  *)
(* store nor its tracker nor the watch (conversation.ts:473-495,            *)
(* 1248-1264).                                                              *)
THEOREM LateTouchesNothing == Spec => StaleNoTouch
<1>1. IInv /\ [Next]_vars => [Late]_vars
  BY NextLate
<1> QED BY <1>1, Inductive, PTL DEF Spec, StaleNoTouch, Late
=============================================================================
