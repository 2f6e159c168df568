-------------------------- MODULE AssessmentPolling --------------------------
(***************************************************************************)
(* The view of an ended session and the polling of its analysis: the hook  *)
(* (hooks/usePollingAssessment.ts), the store it writes to                 *)
(* (store/assessment.ts) and the lifecycle adapter that tells it when the  *)
(* page is in front and online (platform/webLifecycle.ts for browsers,     *)
(* platform/lifecycle.ts over it for iOS).                                 *)
(*                                                                         *)
(* The number of a cycle and the store's generation only ever say whether  *)
(* an answer still counts: an attempt of an earlier cycle is counted in    *)
(* poll.stale, and a request of an earlier generation is marked.  The      *)
(* server's job is the module AnalysisJobs; its pending and running are    *)
(* one here.                                                               *)
(***************************************************************************)
EXTENDS Naturals

CONSTANTS
  Sessions,   \* the sessions whose end the client comes to
  NoSession,  \* no session
  MaxStale,   \* bound on the attempts of earlier cycles still unanswered
  MaxPosts    \* bound on the retries in flight at once

ASSUME NoSessionAssumption == NoSession \notin Sessions
ASSUME PollingBounds == MaxStale \in Nat /\ MaxPosts \in Nat

VARIABLES
  platform,  \* "web" or "ios"
  web,       \* [doc, vis, online]: document.visibilityState, the adapter's own
  native,    \* [reg, active, ready, failed, asked]: the iOS adapter
  view,      \* the ended session on screen
  poll,      \* the effect: [on, bound, timer, inFlight, att, current, stale]
  dirty,     \* pollVersion has changed since the effect was created
  store,     \* [load, shown]
  posts,     \* retries in flight that still count
  job        \* job[s]: the analysis on the server

pollingVars == <<platform, web, native, view, poll, dirty, store, posts, job>>
lifecycle == <<platform, web, native>>

Fresh == [reg |-> "pending", active |-> "unknown", ready |-> FALSE, failed |-> FALSE,
          asked |-> FALSE]
Off == [on |-> FALSE, bound |-> FALSE, timer |-> FALSE, inFlight |-> FALSE,
        att |-> "none", current |-> FALSE, stale |-> 0]
Empty == [load |-> "idle", shown |-> NoSession]

PollingInit ==
  /\ platform \in {"web", "ios"}
  /\ \E v \in {"visible", "hidden"}, b \in BOOLEAN : web = [doc |-> v, vis |-> v, online |-> b]
  /\ native = Fresh
  /\ view = NoSession /\ poll = Off /\ dirty = FALSE
  /\ store = Empty /\ posts = 0
  /\ job = [s \in Sessions |-> "pending"]

-----------------------------------------------------------------------------
(* The adapter's snapshot *)

\* computeVisibility: iOS shows nothing before the native side is known.
Visible(w, n) ==
  /\ w.vis = "visible"
  /\ platform = "ios" => n.ready /\ n.active = "yes" /\ n.reg # "failed" /\ ~n.failed

Eligible(w, n) == Visible(w, n) /\ w.online

-----------------------------------------------------------------------------
(* The polling loop *)

\* mutant: the slot of the attempt given up is not released
InvalidateKeepsSlot(p) ==
  [p EXCEPT !.timer = FALSE, !.att = "none",
            !.stale = IF p.att = "none" THEN @ ELSE @ + 1]

\* invalidateCycle: the attempt in flight becomes one of an earlier cycle.
Invalidate(p) ==
  [p EXCEPT !.timer = FALSE, !.inFlight = FALSE, !.att = "none",
            !.stale = IF p.att = "none" THEN @ ELSE @ + 1]

Attempt(p) == [p EXCEPT !.inFlight = TRUE, !.att = "status", !.current = TRUE]

\* Reads while one is in flight are merged into it.
TriggerRead(p) == IF p.inFlight THEN p ELSE Attempt([p EXCEPT !.timer = FALSE])

Listening == poll.on /\ poll.bound

\* The store has been reset and React takes the view down: before the next
\* task, so answers may still come in, events and timers may not.
Leaving == view = NoSession /\ poll.on

\* The effect's listener: what it makes of an event and the new snapshot.
Heard(event, w, n) ==
  poll' =
    IF ~Listening \/ event = "none" THEN poll
    ELSE IF event = "suspend" \/ (event = "connectivity" /\ ~w.online) THEN Invalidate(poll)
    ELSE IF Eligible(w, n) THEN TriggerRead(poll)
    ELSE poll

\* syncStateAndNotify of the iOS adapter: an event where something changed.
Synced(w, n) ==
  Heard(IF Visible(w, n) # Visible(web, native)
          THEN IF Visible(w, n) THEN "resume" ELSE "suspend"
          ELSE IF w.online # web.online THEN "connectivity" ELSE "none", w, n)

Notify(event, w) ==
  /\ ~Leaving /\ poll.stale < MaxStale
  /\ web' = w
  /\ IF platform = "ios" THEN Synced(w, native) ELSE Heard(event, w, native)
  /\ UNCHANGED <<platform, native, view, dirty, store, posts, job>>

VisibilityChange(v) ==
  /\ web.doc # v
  /\ Notify(IF v = web.vis THEN "none" ELSE IF v = "visible" THEN "resume" ELSE "suspend",
            [web EXCEPT !.doc = v, !.vis = v])

Connectivity == Notify("connectivity", [web EXCEPT !.online = ~@])

\* pageshow is told whatever the page looks like; pagehide counts as hidden
\* although the document may still be visible.
PageShow == Notify("resume", [web EXCEPT !.vis = web.doc])
PageHide == Notify("suspend", [web EXCEPT !.vis = "hidden"])

Native(n) ==
  /\ platform = "ios" /\ poll.on /\ ~Leaving /\ poll.stale < MaxStale
  /\ native' = n
  /\ Synced(web, n)
  /\ UNCHANGED <<platform, web, view, dirty, store, posts, job>>

\* The listener is installed; a state heard of in the meantime counts, and
\* the state is asked for.
Registered ==
  /\ native.reg = "pending"
  /\ Native([native EXCEPT !.reg = "ok", !.asked = TRUE, !.ready = native.active # "unknown"])

RegistrationFails ==
  /\ native.reg = "pending"
  /\ Native([native EXCEPT !.reg = "failed"])

\* An event is newer than any question asked before it.
AppStateChange(a) ==
  Native([native EXCEPT !.active = a, !.asked = FALSE,
                        !.ready = @ \/ native.reg = "ok",
                        !.failed = IF native.reg = "ok" THEN FALSE ELSE @])

GotState ==
  /\ native.asked
  /\ \/ \E a \in {"yes", "no"} :
          Native([native EXCEPT !.active = a, !.ready = TRUE, !.failed = FALSE, !.asked = FALSE])
     \/ Native([native EXCEPT !.failed = TRUE, !.asked = FALSE])

-----------------------------------------------------------------------------
(* The attempt in flight, and its store action refreshAnalysis *)

Finish == poll' = [poll EXCEPT !.att = "none", !.inFlight = FALSE]

\* Answers of an earlier generation change nothing in the store.
Write(load, shown) ==
  store' = IF poll.current THEN [load |-> load, shown |-> shown] ELSE store

\* The predicate asked before every write.  What would make it false has ended
\* the cycle already.
IsCurrent == Listening /\ Eligible(web, native)

Status(s) ==
  /\ poll.att = "status" /\ IsCurrent
  /\ CASE job[s] = "pending" ->
            /\ Write("pending", store.shown)
            /\ poll' = [poll EXCEPT !.att = "none", !.inFlight = FALSE, !.timer = TRUE]
       [] job[s] = "failed" -> Write("failed", store.shown) /\ Finish
       [] OTHER -> poll' = [poll EXCEPT !.att = "results"] /\ UNCHANGED store
  /\ UNCHANGED <<lifecycle, view, dirty, posts, job>>

Results(s) ==
  /\ poll.att = "results" /\ IsCurrent
  /\ Write("loaded", s)
  /\ poll' = [poll EXCEPT !.att = "knowledge"]
  /\ UNCHANGED <<lifecycle, view, dirty, posts, job>>

\* The knowledge states are fetched in silence, whatever comes of it.
Knowledge ==
  /\ poll.att = "knowledge"
  /\ Finish
  /\ UNCHANGED <<lifecycle, view, dirty, store, posts, job>>

\* An error is shown, and ends the polling until something starts it again.
AttemptFails ==
  /\ poll.att \in {"status", "results"} /\ IsCurrent
  /\ Write("error", store.shown)
  /\ Finish
  /\ UNCHANGED <<lifecycle, view, dirty, posts, job>>

\* An attempt of an earlier cycle settles: the slot is not its own.
StaleSettles ==
  /\ poll.stale > 0
  /\ poll' = [poll EXCEPT !.stale = @ - 1]
  /\ UNCHANGED <<lifecycle, view, dirty, store, posts, job>>

TimerFires ==
  /\ poll.timer /\ ~Leaving
  /\ poll' = IF Listening /\ ~poll.inFlight
               THEN Attempt([poll EXCEPT !.timer = FALSE])
               ELSE [poll EXCEPT !.timer = FALSE]
  /\ UNCHANGED <<lifecycle, view, dirty, store, posts, job>>

-----------------------------------------------------------------------------
(* The view *)

\* A new adapter listens, and has read what the page looks like.
Attached(w) == [w EXCEPT !.vis = w.doc]

\* The effect: an adapter of its own, and a first read if the page is in
\* front already.
Mounted ==
  /\ web' = Attached(web) /\ native' = Fresh
  /\ poll' = LET p == [Off EXCEPT !.on = TRUE, !.bound = TRUE]
             IN IF Eligible(Attached(web), Fresh) THEN TriggerRead(p) ELSE p
  /\ dirty' = FALSE
  /\ UNCHANGED platform

Enter(s) ==
  /\ view = NoSession /\ ~poll.on
  /\ view' = s
  /\ Mounted
  /\ UNCHANGED <<store, posts, job>>

\* After a retry the effect is created anew.
Rerun ==
  /\ view # NoSession /\ dirty
  /\ Mounted
  /\ UNCHANGED <<view, store, posts, job>>

\* reset: what is in flight belongs to an earlier generation from now on.
Reset == store' = Empty /\ posts' = 0

GoHome ==
  /\ view # NoSession
  /\ view' = NoSession
  /\ Reset
  /\ poll' = [poll EXCEPT !.current = FALSE]
  /\ UNCHANGED <<lifecycle, dirty, job>>

Unmount ==
  /\ Leaving
  /\ poll' = Off
  /\ UNCHANGED <<lifecycle, view, dirty, store, posts, job>>

\* A new auth revision: the same account's renewal, or the end of the account,
\* whose data is cleared.
AuthChange(same) ==
  /\ view # NoSession /\ poll.stale < MaxStale
  /\ IF same
       THEN /\ poll' = [Invalidate(poll) EXCEPT !.bound = FALSE]
            /\ UNCHANGED <<view, store, posts>>
       ELSE /\ poll' = [Invalidate(poll) EXCEPT !.bound = FALSE, !.current = FALSE]
            /\ view' = NoSession
            /\ Reset
  /\ UNCHANGED <<lifecycle, dirty, job>>

RetryAnalysis ==
  /\ view # NoSession /\ store.load \in {"failed", "error"}
  /\ posts < MaxPosts
  /\ posts' = posts + 1
  /\ UNCHANGED <<lifecycle, view, poll, dirty, store, job>>

\* Accepted for a failed job; refused, or lost, otherwise.
RetryAnswers(accepted) ==
  /\ posts > 0
  /\ posts' = posts - 1
  /\ IF accepted
       THEN /\ job[view] = "failed"
            /\ job' = [job EXCEPT ![view] = "pending"]
            /\ store' = [store EXCEPT !.load = "pending"]
            /\ dirty' = TRUE
       ELSE /\ store' = [store EXCEPT !.load = "error"]
            /\ UNCHANGED <<job, dirty>>
  /\ UNCHANGED <<lifecycle, view, poll>>

JobEnds(s) ==
  /\ job[s] = "pending"
  /\ \E r \in {"succeeded", "failed"} : job' = [job EXCEPT ![s] = r]
  /\ UNCHANGED <<lifecycle, view, poll, dirty, store, posts>>

\* An answer is for the session of its effect; the view has not changed while
\* its effect is on, or is gone and the answer is not written.
Answered == \E s \in Sessions : (view # NoSession => s = view) /\ (Status(s) \/ Results(s))

PollingNext ==
  \/ \E v \in {"visible", "hidden"} : VisibilityChange(v)
  \/ Connectivity \/ PageShow \/ PageHide
  \/ Registered \/ RegistrationFails \/ GotState
  \/ \E a \in {"yes", "no"} : AppStateChange(a)
  \/ Answered \/ Knowledge \/ AttemptFails \/ StaleSettles \/ TimerFires
  \/ \E s \in Sessions : Enter(s) \/ JobEnds(s)
  \/ Rerun \/ GoHome \/ Unmount \/ RetryAnalysis
  \/ \E b \in BOOLEAN : AuthChange(b) \/ RetryAnswers(b)

PollingSpec == PollingInit /\ [][PollingNext]_pollingVars

-----------------------------------------------------------------------------
PollingTypeOK ==
  /\ web \in [doc : {"visible", "hidden"}, vis : {"visible", "hidden"}, online : BOOLEAN]
  /\ native \in [reg : {"pending", "ok", "failed"}, active : {"unknown", "yes", "no"},
                 ready : BOOLEAN, failed : BOOLEAN, asked : BOOLEAN]
  /\ view \in Sessions \cup {NoSession}
  /\ poll \in [on : BOOLEAN, bound : BOOLEAN, timer : BOOLEAN, inFlight : BOOLEAN,
               att : {"none", "status", "results", "knowledge"}, current : BOOLEAN,
               stale : 0..MaxStale]
  /\ dirty \in BOOLEAN /\ posts \in 0..MaxPosts
  /\ store \in [load : {"idle", "pending", "failed", "loaded", "error"},
                shown : Sessions \cup {NoSession}]
  /\ job \in [Sessions -> {"pending", "succeeded", "failed"}]

\* Results on screen are those of the session on screen, which is analysed.
ShownIsOurs ==
  /\ store.shown # NoSession => store.shown = view /\ job[view] = "succeeded"
  /\ store.load = "loaded" => store.shown # NoSession

\* There is one attempt or one timer, never two loops, and the slot is taken
\* exactly while the attempt that took it is in flight.
OneLoop ==
  /\ poll.inFlight <=> poll.att # "none"
  /\ ~(poll.timer /\ poll.inFlight)

\* While the page is in front and online and shows an analysis under way, it
\* is being asked for.
NeverStalls ==
  Listening /\ view # NoSession /\ ~dirty /\ Eligible(web, native) /\ store.load \in {"idle", "pending"}
    => poll.timer \/ poll.inFlight

(* The polling survives what the page goes through: with every order of     *)
(* lifecycle events, late answers, retries and leaving, there is one loop,  *)
(* it does not die while there is something to wait for, and it writes no   *)
(* other session's results (usePollingAssessment.ts:89-219,                 *)
(* assessment.ts:73-217).                                                   *)
PollingInv == PollingTypeOK /\ ShownIsOurs /\ OneLoop /\ NeverStalls
=============================================================================
