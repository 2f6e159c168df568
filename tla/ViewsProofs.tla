----------------------------- MODULE ViewsProofs -----------------------------
(***************************************************************************)
(* The client's views.                                                     *)
(*                                                                         *)
(* That one loop polls the analysis of the session on screen, never stalls *)
(* while the page could read, and shows only what is that session's; that  *)
(* the lists of the dashboard are of one account and day, wait for what    *)
(* they show as under way, and lose no session between two pages.  Proved  *)
(* for any sessions, owners, accounts, page sizes and bounds.              *)
(***************************************************************************)
EXTENDS Dashboard, AssessmentPolling, FiniteSetTheorems, WellFoundedInduction, TLAPS

-----------------------------------------------------------------------------
(* The polling of an analysis. *)

\* An attempt in flight writes while its session is on screen.
AttemptOurs == poll.att # "none" => (poll.current <=> view # NoSession)

\* An attempt that has gone past the status has found the analysis done, and
\* one that has shown the results leaves no other state to wait for.
AttemptAnalysed ==
  view # NoSession =>
    /\ poll.att \in {"results", "knowledge"} => job[view] = "succeeded"
    /\ poll.att = "knowledge" => store.load \in {"loaded", "error"}

\* Nothing is kept of a session that is not on screen.
NothingKept == view = NoSession => store = Empty /\ posts = 0

PollingIInv == PollingInv /\ AttemptOurs /\ AttemptAnalysed /\ NothingKept

Poll ==
  [on : BOOLEAN, bound : BOOLEAN, timer : BOOLEAN, inFlight : BOOLEAN,
   att : {"none", "status", "results", "knowledge"}, current : BOOLEAN,
   stale : 0..MaxStale]
Web == [doc : {"visible", "hidden"}, vis : {"visible", "hidden"}, online : BOOLEAN]
NativeState ==
  [reg : {"pending", "ok", "failed"}, active : {"unknown", "yes", "no"},
   ready : BOOLEAN, failed : BOOLEAN, asked : BOOLEAN]
Analysis ==
  [load : {"idle", "pending", "failed", "loaded", "error"}, shown : Sessions \cup {NoSession}]

LEMMA PollFacts ==
  ASSUME PollingTypeOK
  PROVE  /\ poll \in Poll /\ web \in Web /\ native \in NativeState /\ store \in Analysis
         /\ view \in Sessions \cup {NoSession}
         /\ job \in [Sessions -> {"pending", "succeeded", "failed"}]
         /\ dirty \in BOOLEAN /\ posts \in 0..MaxPosts
BY DEF PollingTypeOK, Poll, Web, NativeState, Analysis

\* The loop is one: what OneLoop says, of any state of the effect.
Single(p) == (p.inFlight <=> p.att # "none") /\ ~(p.timer /\ p.inFlight)

LEMMA InvalidateIs ==
  ASSUME NEW p \in Poll, p.stale < MaxStale
  PROVE  LET q == Invalidate(p) IN
         /\ q \in Poll /\ ~q.timer /\ ~q.inFlight /\ q.att = "none"
         /\ q.on = p.on /\ q.bound = p.bound /\ q.current = p.current
<1>1. p.stale + 1 \in 0..MaxStale /\ p.stale \in 0..MaxStale
  BY PollingBounds DEF Poll
<1> DEFINE stale == IF p.att = "none" THEN p.stale ELSE p.stale + 1
<1>2. stale \in 0..MaxStale
  BY <1>1
<1>3. Invalidate(p) = [p EXCEPT !.timer = FALSE, !.inFlight = FALSE, !.att = "none", !.stale = stale]
  BY DEF Invalidate, Poll
<1> HIDE DEF stale
<1> QED BY <1>2, <1>3 DEF Poll

\* A read is begun, unless one is in flight.
LEMMA TriggerReadIs ==
  ASSUME NEW p \in Poll, Single(p)
  PROVE  LET q == TriggerRead(p) IN
         /\ q \in Poll /\ Single(q) /\ q.inFlight
         /\ q.on = p.on /\ q.bound = p.bound
         /\ q = p \/ (q.current /\ q.att = "status" /\ p.att = "none")
BY DEF Poll, Single, TriggerRead, Attempt

-----------------------------------------------------------------------------
\* A step of the lifecycle: only the adapters and the effect's loop change.
OnlyLoop == UNCHANGED <<view, dirty, store, posts, job>>

\* What the effect makes of an event: the loop goes on, is given up for a page
\* that is not in front and online, or begins if it is.
LEMMA HeardDoes ==
  ASSUME PollingIInv, ~Leaving, poll.stale < MaxStale, NEW event, NEW w, NEW n, Heard(event, w, n),
         event = "suspend" => ~Eligible(w, n)
  PROVE  /\ poll' \in Poll /\ Single(poll')
         /\ poll'.on = poll.on /\ poll'.bound = poll.bound
         /\ \/ poll' = poll
            \/ poll'.att = "none" /\ Listening /\ ~Eligible(w, n)
            \/ poll'.att = "status" /\ poll'.current /\ poll.att = "none" /\ Listening
         /\ event # "none" /\ Listening /\ Eligible(w, n) => poll'.inFlight
<1>1. poll \in Poll /\ Single(poll)
  BY PollFacts DEF PollingIInv, PollingInv, OneLoop, Single
<1>2. CASE ~Listening \/ event = "none"
  <2>1. poll' = poll
    BY <1>2 DEF Heard
  <2>2. ~(event # "none" /\ Listening /\ Eligible(w, n))
    BY <1>2
  <2> QED BY <1>1, <2>1, <2>2
<1>3. CASE Listening /\ event # "none" /\ (event = "suspend" \/ (event = "connectivity" /\ ~w.online))
  <2>1. poll' = Invalidate(poll)
    BY <1>3 DEF Heard
  <2>2. ~Eligible(w, n)
    BY <1>3 DEF Eligible
  <2> QED BY <1>1, <1>3, <2>1, <2>2, InvalidateIs DEF Single
<1>4. CASE Listening /\ event # "none" /\ ~(event = "suspend" \/ (event = "connectivity" /\ ~w.online))
  <2>1. poll' = IF Eligible(w, n) THEN TriggerRead(poll) ELSE poll
    BY <1>4 DEF Heard
  <2> QED BY <1>1, <1>4, <2>1, TriggerReadIs
<1> QED BY <1>2, <1>3, <1>4

\* Such a step keeps the invariant if the page comes in front, or online, only
\* with an event.
LEMMA LoopKeeps ==
  ASSUME PollingIInv, ~Leaving, poll.stale < MaxStale, OnlyLoop, platform' = platform,
         web' \in Web, native' \in NativeState,
         NEW event, Heard(event, web', native'),
         event = "suspend" => ~Eligible(web', native'),
         event = "none" /\ Eligible(web', native') => Eligible(web, native)
  PROVE  PollingIInv'
<1>1. /\ poll' \in Poll /\ Single(poll')
      /\ poll'.on = poll.on /\ poll'.bound = poll.bound
      /\ \/ poll' = poll
         \/ poll'.att = "none" /\ Listening /\ ~Eligible(web', native')
         \/ poll'.att = "status" /\ poll'.current /\ poll.att = "none" /\ Listening
      /\ event # "none" /\ Listening /\ Eligible(web', native') => poll'.inFlight
  BY HeardDoes
<1>2. Listening => view # NoSession
  BY DEF Listening, Leaving
<1>3. PollingTypeOK'
  BY <1>1 DEF PollingIInv, PollingInv, PollingTypeOK, OnlyLoop, Poll, Web, NativeState
<1>4. ShownIsOurs' /\ NothingKept'
  BY DEF PollingIInv, PollingInv, ShownIsOurs, NothingKept, OnlyLoop
<1>5. OneLoop'
  BY <1>1 DEF OneLoop, Single
<1>6. AttemptOurs' /\ AttemptAnalysed'
  BY <1>1, <1>2 DEF PollingIInv, AttemptOurs, AttemptAnalysed, OnlyLoop
<1>7. NeverStalls'
  <2>1. (Listening' <=> Listening) /\ (Eligible(web, native)' <=> Eligible(web', native'))
    BY <1>1 DEF Listening, Eligible, Visible
  <2>2. CASE event # "none"
    BY <1>1, <2>1, <2>2 DEF NeverStalls
  <2>3. CASE event = "none"
    <3>1. poll' = poll
      BY <2>3 DEF Heard
    <3> QED BY <2>1, <2>3, <3>1 DEF PollingIInv, PollingInv, NeverStalls, OnlyLoop
  <2> QED BY <2>2, <2>3
<1> QED BY <1>3, <1>4, <1>5, <1>6, <1>7 DEF PollingIInv, PollingInv

LEMMA SyncedKeeps ==
  ASSUME PollingIInv, ~Leaving, poll.stale < MaxStale, OnlyLoop, platform' = platform,
         web' \in Web, native' \in NativeState, Synced(web', native')
  PROVE  PollingIInv'
<1> DEFINE event == IF Visible(web', native') # Visible(web, native)
                      THEN IF Visible(web', native') THEN "resume" ELSE "suspend"
                      ELSE IF web'.online # web.online THEN "connectivity" ELSE "none"
<1>1. Heard(event, web', native')
  BY DEF Synced
<1>2. event = "suspend" => ~Eligible(web', native')
  BY DEF Eligible
<1>3. event = "none" /\ Eligible(web', native') => Eligible(web, native)
  <2> SUFFICES ASSUME event = "none", Eligible(web', native') PROVE Eligible(web, native)
    OBVIOUS
  <2>1. Visible(web', native') = Visible(web, native) /\ web'.online = web.online
    OBVIOUS
  <2> QED BY <2>1 DEF Eligible
<1> HIDE DEF event
<1> QED BY <1>1, <1>2, <1>3, LoopKeeps

LEMMA NotifyKeeps ==
  ASSUME PollingIInv, NEW event, NEW w \in Web, Notify(event, w),
         platform # "ios" => /\ event = "suspend" => w.vis # "visible"
                             /\ event = "none" => w.vis = web.vis /\ w.online = web.online
  PROVE  PollingIInv'
<1>1. /\ ~Leaving /\ poll.stale < MaxStale /\ OnlyLoop /\ platform' = platform
      /\ web' = w /\ native' = native /\ native \in NativeState
  BY PollFacts DEF Notify, OnlyLoop, PollingIInv, PollingInv
<1>2. CASE platform = "ios"
  BY <1>1, <1>2, SyncedKeeps DEF Notify
<1>3. CASE platform # "ios"
  <2>1. Heard(event, web', native')
    BY <1>1, <1>3 DEF Notify
  <2>2. event = "suspend" => ~Eligible(web', native')
    BY <1>1, <1>3 DEF Eligible, Visible
  <2>3. event = "none" /\ Eligible(web', native') => Eligible(web, native)
    BY <1>1, <1>3 DEF Eligible, Visible
  <2> QED BY <1>1, <2>1, <2>2, <2>3, LoopKeeps
<1> QED BY <1>2, <1>3

LEMMA PageKeeps ==
  ASSUME PollingIInv,
         \/ \E v \in {"visible", "hidden"} : VisibilityChange(v)
         \/ Connectivity \/ PageShow \/ PageHide
  PROVE  PollingIInv'
<1>0. web \in Web
  BY PollFacts DEF PollingIInv, PollingInv
<1>1. ASSUME NEW v \in {"visible", "hidden"}, VisibilityChange(v) PROVE PollingIInv'
  <2> DEFINE event == IF v = web.vis THEN "none" ELSE IF v = "visible" THEN "resume" ELSE "suspend"
             w == [web EXCEPT !.doc = v, !.vis = v]
  <2>1. Notify(event, w)
    BY <1>1 DEF VisibilityChange
  <2>2. /\ w \in Web
        /\ event = "suspend" => w.vis # "visible"
        /\ event = "none" => w.vis = web.vis /\ w.online = web.online
    BY <1>0 DEF Web
  <2> HIDE DEF event, w
  <2> QED BY <2>1, <2>2, NotifyKeeps
<1>2. CASE Connectivity
  <2>1. [web EXCEPT !.online = ~@] \in Web
    BY <1>0 DEF Web
  <2> QED BY <1>2, <2>1, NotifyKeeps DEF Connectivity
<1>3. CASE PageShow
  <2>1. [web EXCEPT !.vis = web.doc] \in Web
    BY <1>0 DEF Web
  <2> QED BY <1>3, <2>1, NotifyKeeps DEF PageShow
<1>4. CASE PageHide
  <2>1. [web EXCEPT !.vis = "hidden"] \in Web /\ [web EXCEPT !.vis = "hidden"].vis = "hidden"
    BY <1>0 DEF Web
  <2> QED BY <1>4, <2>1, NotifyKeeps DEF PageHide
<1> QED BY <1>1, <1>2, <1>3, <1>4

LEMMA NativeKeeps ==
  ASSUME PollingIInv, NEW n \in NativeState, Native(n)
  PROVE  PollingIInv'
<1>1. /\ ~Leaving /\ poll.stale < MaxStale /\ OnlyLoop /\ platform' = platform
      /\ web' = web /\ native' = n /\ web \in Web /\ Synced(web', native')
  BY PollFacts DEF Native, OnlyLoop, PollingIInv, PollingInv
<1> QED BY <1>1, SyncedKeeps

LEMMA AdapterKeeps ==
  ASSUME PollingIInv,
         Registered \/ RegistrationFails \/ GotState \/ \E x \in {"yes", "no"} : AppStateChange(x)
  PROVE  PollingIInv'
<1>0. native \in NativeState
  BY PollFacts DEF PollingIInv, PollingInv
<1>1. CASE Registered
  <2>1. [native EXCEPT !.reg = "ok", !.asked = TRUE, !.ready = native.active # "unknown"] \in NativeState
    BY <1>0 DEF NativeState
  <2> QED BY <1>1, <2>1, NativeKeeps DEF Registered
<1>2. CASE RegistrationFails
  <2>1. [native EXCEPT !.reg = "failed"] \in NativeState
    BY <1>0 DEF NativeState
  <2> QED BY <1>2, <2>1, NativeKeeps DEF RegistrationFails
<1>3. CASE GotState
  <2>1. ASSUME NEW x \in {"yes", "no"}
        PROVE  [native EXCEPT !.active = x, !.ready = TRUE, !.failed = FALSE, !.asked = FALSE]
                 \in NativeState
    BY <1>0 DEF NativeState
  <2>2. [native EXCEPT !.failed = TRUE, !.asked = FALSE] \in NativeState
    BY <1>0 DEF NativeState
  <2> QED BY <1>3, <2>1, <2>2, NativeKeeps DEF GotState
<1>4. ASSUME NEW x \in {"yes", "no"}, AppStateChange(x) PROVE PollingIInv'
  <2> DEFINE n == [native EXCEPT !.active = x, !.asked = FALSE,
                                 !.ready = @ \/ native.reg = "ok",
                                 !.failed = IF native.reg = "ok" THEN FALSE ELSE @]
  <2>1. n \in NativeState
    BY <1>0 DEF NativeState
  <2>2. Native(n)
    BY <1>4 DEF AppStateChange
  <2> HIDE DEF n
  <2> QED BY <2>1, <2>2, NativeKeeps
<1> QED BY <1>1, <1>2, <1>3, <1>4

-----------------------------------------------------------------------------
\* The attempt in flight.
LEMMA AttemptKeeps ==
  ASSUME PollingIInv, Answered \/ Knowledge \/ AttemptFails \/ StaleSettles \/ TimerFires
  PROVE  PollingIInv'
<1>0. /\ poll \in Poll /\ store \in Analysis /\ view \in Sessions \cup {NoSession}
      /\ job \in [Sessions -> {"pending", "succeeded", "failed"}]
      /\ poll.inFlight <=> poll.att # "none"
      /\ ~(poll.timer /\ poll.inFlight)
      /\ poll.att # "none" => (poll.current <=> view # NoSession)
  BY PollFacts DEF PollingIInv, PollingInv, OneLoop, AttemptOurs
<1> DEFINE Same == UNCHANGED <<lifecycle, view, dirty, posts, job>>
\* A step of the attempt: its slot, and what it writes.
<1>1. ASSUME Same, poll' \in Poll, store' \in Analysis, Single(poll'),
             poll'.on = poll.on /\ poll'.bound = poll.bound,
             poll'.att # "none" => (poll'.current <=> view # NoSession),
             view # NoSession =>
               /\ poll'.att \in {"results", "knowledge"} => job[view] = "succeeded"
               /\ poll'.att = "knowledge" => store'.load \in {"loaded", "error"}
               /\ store'.shown # NoSession => store'.shown = view /\ job[view] = "succeeded"
               /\ store'.load = "loaded" => store'.shown # NoSession
               /\ store'.load \in {"idle", "pending"} =>
                    poll'.timer \/ poll'.inFlight \/ (store' = store /\ ~poll.timer /\ ~poll.inFlight),
             view = NoSession => store' = store
      PROVE  PollingIInv'
  <2>1. PollingTypeOK'
    BY <1>1 DEF PollingIInv, PollingInv, PollingTypeOK, Poll, Analysis, lifecycle
  <2>2. ShownIsOurs' /\ NothingKept' /\ AttemptOurs' /\ AttemptAnalysed'
    BY <1>1 DEF PollingIInv, PollingInv, ShownIsOurs, NothingKept, AttemptOurs, AttemptAnalysed, lifecycle
  <2>3. OneLoop'
    BY <1>1 DEF OneLoop, Single
  <2>4. NeverStalls'
    <3>1. Listening' <=> Listening
      BY <1>1 DEF Listening
    <3>2. Eligible(web, native)' <=> Eligible(web, native)
      BY <1>1 DEF Eligible, Visible, lifecycle
    <3> QED BY <1>1, <3>1, <3>2 DEF PollingIInv, PollingInv, NeverStalls
  <2> QED BY <2>1, <2>2, <2>3, <2>4 DEF PollingIInv, PollingInv
<1>2. /\ view # NoSession =>
           /\ poll.att \in {"results", "knowledge"} => job[view] = "succeeded"
           /\ poll.att = "knowledge" => store.load \in {"loaded", "error"}
           /\ store.shown # NoSession => store.shown = view /\ job[view] = "succeeded"
           /\ store.load = "loaded" => store.shown # NoSession
  BY DEF PollingIInv, PollingInv, ShownIsOurs, AttemptAnalysed
<1> HIDE DEF Same
<1>3. ASSUME NEW x \in Sessions, view # NoSession => x = view, Status(x) PROVE PollingIInv'
  <2>1. Same /\ poll.att = "status" /\ (poll.current <=> view # NoSession)
    BY <1>0, <1>3 DEF Status, Same
  <2>2. CASE job[x] = "pending"
    <3>1. /\ poll' = [poll EXCEPT !.att = "none", !.inFlight = FALSE, !.timer = TRUE]
          /\ store' = IF poll.current THEN [load |-> "pending", shown |-> store.shown] ELSE store
      BY <1>3, <2>2 DEF Status, Write
    <3>2. /\ poll' \in Poll /\ Single(poll') /\ poll'.att = "none" /\ poll'.timer
          /\ poll'.on = poll.on /\ poll'.bound = poll.bound
      BY <1>0, <3>1 DEF Poll, Single
    <3>3. /\ store' \in Analysis /\ store'.shown = store.shown
          /\ view = NoSession => store' = store
          /\ view # NoSession => store'.load = "pending"
      BY <1>0, <2>1, <3>1 DEF Analysis
    <3> QED BY <1>1, <1>2, <2>1, <3>2, <3>3
  <2>3. CASE job[x] = "failed"
    <3>1. /\ poll' = [poll EXCEPT !.att = "none", !.inFlight = FALSE]
          /\ store' = IF poll.current THEN [load |-> "failed", shown |-> store.shown] ELSE store
      BY <1>3, <2>3 DEF Status, Write, Finish
    <3>2. /\ poll' \in Poll /\ Single(poll') /\ poll'.att = "none"
          /\ poll'.on = poll.on /\ poll'.bound = poll.bound
      BY <1>0, <3>1 DEF Poll, Single
    <3>3. /\ store' \in Analysis /\ store'.shown = store.shown
          /\ view = NoSession => store' = store
          /\ view # NoSession => store'.load = "failed"
      BY <1>0, <2>1, <3>1 DEF Analysis
    <3> QED BY <1>1, <1>2, <2>1, <3>2, <3>3
  <2>4. CASE job[x] \notin {"pending", "failed"}
    <3>1. job[x] = "succeeded" /\ poll' = [poll EXCEPT !.att = "results"] /\ store' = store
      BY <1>0, <1>3, <2>4 DEF Status
    <3>2. /\ poll' \in Poll /\ Single(poll') /\ poll'.att = "results" /\ poll'.inFlight
          /\ poll'.on = poll.on /\ poll'.bound = poll.bound /\ poll'.current = poll.current
      BY <1>0, <2>1, <3>1 DEF Poll, Single
    <3> QED BY <1>0, <1>1, <1>2, <1>3, <2>1, <3>1, <3>2
  <2> QED BY <2>2, <2>3, <2>4
<1>4. ASSUME NEW x \in Sessions, view # NoSession => x = view, Results(x) PROVE PollingIInv'
  <2>1. /\ Same /\ poll.att = "results" /\ (poll.current <=> view # NoSession)
        /\ poll' = [poll EXCEPT !.att = "knowledge"]
        /\ store' = IF poll.current THEN [load |-> "loaded", shown |-> x] ELSE store
    BY <1>0, <1>4 DEF Results, Write, Same
  <2>2. /\ poll' \in Poll /\ Single(poll') /\ poll'.att = "knowledge" /\ poll'.inFlight
        /\ poll'.on = poll.on /\ poll'.bound = poll.bound /\ poll'.current = poll.current
    BY <1>0, <2>1 DEF Poll, Single
  <2>3. /\ store' \in Analysis
        /\ view = NoSession => store' = store
        /\ view # NoSession => store'.load = "loaded" /\ store'.shown = view
    BY <1>0, <1>4, <2>1 DEF Analysis
  <2> QED BY <1>0, <1>1, <1>2, <2>1, <2>2, <2>3
<1>5. CASE Knowledge
  <2>1. /\ Same /\ poll.att = "knowledge" /\ store' = store
        /\ poll' = [poll EXCEPT !.att = "none", !.inFlight = FALSE]
    BY <1>5 DEF Knowledge, Finish, Same
  <2>2. /\ poll' \in Poll /\ Single(poll') /\ poll'.att = "none"
        /\ poll'.on = poll.on /\ poll'.bound = poll.bound
    BY <1>0, <2>1 DEF Poll, Single
  <2> QED BY <1>0, <1>1, <1>2, <2>1, <2>2
<1>6. CASE AttemptFails
  <2>1. /\ Same /\ poll.att # "none" /\ (poll.current <=> view # NoSession)
        /\ poll' = [poll EXCEPT !.att = "none", !.inFlight = FALSE]
        /\ store' = IF poll.current THEN [load |-> "error", shown |-> store.shown] ELSE store
    BY <1>0, <1>6 DEF AttemptFails, Finish, Write, Same
  <2>2. /\ poll' \in Poll /\ Single(poll') /\ poll'.att = "none"
        /\ poll'.on = poll.on /\ poll'.bound = poll.bound
    BY <1>0, <2>1 DEF Poll, Single
  <2>3. /\ store' \in Analysis /\ store'.shown = store.shown
        /\ view = NoSession => store' = store
        /\ view # NoSession => store'.load = "error"
    BY <1>0, <2>1 DEF Analysis
  <2> QED BY <1>1, <1>2, <2>1, <2>2, <2>3
<1>7. CASE StaleSettles
  <2>1. /\ Same /\ poll.stale > 0 /\ store' = store
        /\ poll' = [poll EXCEPT !.stale = @ - 1]
    BY <1>7 DEF StaleSettles, Same
  <2>2. poll.stale - 1 \in 0..MaxStale
    BY <1>0, <2>1, PollingBounds DEF Poll
  <2>3. /\ poll' \in Poll /\ Single(poll') /\ poll'.att = poll.att
        /\ poll'.on = poll.on /\ poll'.bound = poll.bound /\ poll'.current = poll.current
        /\ poll'.timer = poll.timer /\ poll'.inFlight = poll.inFlight
    BY <1>0, <2>1, <2>2 DEF Poll, Single
  <2> QED BY <1>0, <1>1, <1>2, <2>1, <2>3
<1>8. CASE TimerFires
  <2>1. /\ Same /\ store' = store /\ poll.timer /\ ~poll.inFlight /\ ~Leaving
        /\ poll' = IF Listening THEN Attempt([poll EXCEPT !.timer = FALSE])
                   ELSE [poll EXCEPT !.timer = FALSE]
    BY <1>0, <1>8 DEF TimerFires, Same
  <2>2. CASE Listening
    <3>1. view # NoSession
      BY <2>1, <2>2 DEF Listening, Leaving
    <3>2. /\ poll' \in Poll /\ Single(poll') /\ poll'.att = "status" /\ poll'.inFlight
          /\ poll'.on = poll.on /\ poll'.bound = poll.bound /\ poll'.current
      BY <1>0, <2>1, <2>2 DEF Poll, Single, Attempt
    <3> QED BY <1>0, <1>1, <1>2, <2>1, <3>1, <3>2
  <2>3. CASE ~Listening
    <3>1. /\ poll' \in Poll /\ Single(poll') /\ poll'.att = "none" /\ poll.att = "none"
          /\ poll'.on = poll.on /\ poll'.bound = poll.bound /\ ~poll'.timer
      BY <1>0, <2>1, <2>3 DEF Poll, Single
    <3>2. ~Listening'
      BY <2>3, <3>1 DEF Listening
    <3>3. PollingTypeOK' /\ OneLoop'
      BY <2>1, <3>1 DEF PollingIInv, PollingInv, PollingTypeOK, OneLoop, Single, Poll, Same, lifecycle
    <3>4. ShownIsOurs' /\ NothingKept' /\ AttemptOurs' /\ AttemptAnalysed'
      BY <2>1, <3>1 DEF PollingIInv, PollingInv, ShownIsOurs, NothingKept, AttemptOurs,
                        AttemptAnalysed, Same, lifecycle
    <3> QED BY <3>2, <3>3, <3>4 DEF PollingIInv, PollingInv, NeverStalls
  <2> QED BY <2>2, <2>3
<1> QED BY <1>3, <1>4, <1>5, <1>6, <1>7, <1>8 DEF Answered

-----------------------------------------------------------------------------
\* The view.
LEMMA MountedIs ==
  ASSUME PollingIInv, Mounted
  PROVE  /\ poll' \in Poll /\ Single(poll') /\ native' \in NativeState /\ dirty' = FALSE
         /\ poll'.att # "none" => poll'.att = "status" /\ poll'.current
         /\ Eligible(web, native)' => poll'.inFlight
         /\ web' \in [doc : {"visible", "hidden"}, vis : {"visible", "hidden"}, online : BOOLEAN]
<1> DEFINE p == [Off EXCEPT !.on = TRUE, !.bound = TRUE]
<1>1. p \in Poll /\ Single(p) /\ p.att = "none"
  <2>1. 0 \in 0..MaxStale
    BY PollingBounds
  <2> QED BY <2>1 DEF Off, Poll, Single
<1>2. Eligible(web, native)' <=> Eligible(Attached(web), Fresh)
  BY DEF Mounted, Eligible, Visible
<1>3. native' \in NativeState /\ dirty' = FALSE
  BY DEF Mounted, Fresh, NativeState
<1>4. poll' = IF Eligible(Attached(web), Fresh) THEN TriggerRead(p) ELSE p
  BY DEF Mounted
<1>5. web' \in [doc : {"visible", "hidden"}, vis : {"visible", "hidden"}, online : BOOLEAN]
  BY DEF Mounted, Attached, PollingIInv, PollingInv, PollingTypeOK
<1> HIDE DEF p
<1> QED BY <1>1, <1>2, <1>3, <1>4, <1>5, TriggerReadIs

LEMMA EnterKeeps == ASSUME PollingIInv, NEW x \in Sessions, Enter(x) PROVE PollingIInv'
<1>1. /\ view = NoSession /\ view' = x /\ Mounted /\ UNCHANGED <<store, posts, job>>
      /\ store = Empty /\ posts = 0 /\ x # NoSession
  BY NoSessionAssumption DEF Enter, Mounted, PollingIInv, NothingKept
<1>2. /\ poll' \in Poll /\ Single(poll') /\ native' \in NativeState /\ dirty' = FALSE
      /\ poll'.att # "none" => poll'.att = "status" /\ poll'.current
      /\ Eligible(web, native)' => poll'.inFlight
      /\ web' \in [doc : {"visible", "hidden"}, vis : {"visible", "hidden"}, online : BOOLEAN]
  BY <1>1, MountedIs
<1>3. PollingTypeOK' /\ OneLoop'
  BY <1>1, <1>2 DEF PollingIInv, PollingInv, PollingTypeOK, OneLoop, Single, Poll, NativeState
<1>4. ShownIsOurs' /\ NothingKept' /\ AttemptOurs' /\ AttemptAnalysed'
  BY <1>1, <1>2 DEF ShownIsOurs, NothingKept, AttemptOurs, AttemptAnalysed, Empty
<1>5. NeverStalls'
  BY <1>2 DEF NeverStalls
<1> QED BY <1>3, <1>4, <1>5 DEF PollingIInv, PollingInv

LEMMA RerunKeeps == ASSUME PollingIInv, Rerun PROVE PollingIInv'
<1>1. view # NoSession /\ Mounted /\ UNCHANGED <<view, store, posts, job>>
  BY DEF Rerun, Mounted
<1>2. /\ poll' \in Poll /\ Single(poll') /\ native' \in NativeState /\ dirty' = FALSE
      /\ poll'.att # "none" => poll'.att = "status" /\ poll'.current
      /\ Eligible(web, native)' => poll'.inFlight
      /\ web' \in [doc : {"visible", "hidden"}, vis : {"visible", "hidden"}, online : BOOLEAN]
  BY <1>1, MountedIs
<1>3. PollingTypeOK' /\ OneLoop'
  BY <1>1, <1>2 DEF PollingIInv, PollingInv, PollingTypeOK, OneLoop, Single, Poll, NativeState
<1>4. ShownIsOurs' /\ NothingKept' /\ AttemptOurs' /\ AttemptAnalysed'
  BY <1>1, <1>2 DEF PollingIInv, PollingInv, ShownIsOurs, NothingKept, AttemptOurs, AttemptAnalysed
<1>5. NeverStalls'
  BY <1>2 DEF NeverStalls
<1> QED BY <1>3, <1>4, <1>5 DEF PollingIInv, PollingInv

LEMMA LeavingKeeps ==
  ASSUME PollingIInv, GoHome \/ Unmount \/ \E same \in BOOLEAN : AuthChange(same)
  PROVE  PollingIInv'
<1>0. /\ poll \in Poll /\ Single(poll) /\ 0 \in 0..MaxStale /\ 0 \in 0..MaxPosts
  BY PollFacts, PollingBounds DEF PollingIInv, PollingInv, OneLoop, Single
\* The view is taken down with all it shows.
<1>1. ASSUME view' = NoSession, store' = Empty, posts' = 0, poll' \in Poll, Single(poll'),
             poll'.att # "none" => ~poll'.current, UNCHANGED <<lifecycle, dirty, job>>
      PROVE  PollingIInv'
  <2>1. PollingTypeOK' /\ OneLoop'
    BY <1>0, <1>1 DEF PollingIInv, PollingInv, PollingTypeOK, OneLoop, Single, Poll, Empty, lifecycle
  <2>2. ShownIsOurs' /\ NothingKept' /\ AttemptOurs' /\ AttemptAnalysed' /\ NeverStalls'
    BY <1>1 DEF ShownIsOurs, NothingKept, AttemptOurs, AttemptAnalysed, NeverStalls, Empty
  <2> QED BY <2>1, <2>2 DEF PollingIInv, PollingInv
<1>2. CASE GoHome
  <2>1. poll' = [poll EXCEPT !.current = FALSE]
    BY <1>2 DEF GoHome
  <2>2. poll' \in Poll /\ Single(poll') /\ ~poll'.current
    BY <1>0, <2>1 DEF Poll, Single
  <2> QED BY <1>1, <1>2, <2>2 DEF GoHome, Reset
<1>3. CASE Unmount
  <2>1. poll' \in Poll /\ Single(poll') /\ poll'.att = "none"
    BY <1>0, <1>3 DEF Unmount, Off, Poll, Single
  <2> QED BY <1>1, <1>3, <2>1 DEF Unmount, Leaving, PollingIInv, NothingKept
<1>4. ASSUME NEW same \in BOOLEAN, AuthChange(same) PROVE PollingIInv'
  <2>1. LET q == Invalidate(poll) IN q \in Poll /\ ~q.timer /\ ~q.inFlight /\ q.att = "none"
    BY <1>0, <1>4, InvalidateIs DEF AuthChange
  <2>2. poll' \in Poll /\ Single(poll') /\ poll'.att = "none" /\ ~poll'.bound
    BY <1>4, <2>1 DEF AuthChange, Poll, Single
  <2>3. CASE ~same
    BY <1>1, <1>4, <2>2, <2>3 DEF AuthChange, Reset
  <2>4. CASE same
    <3>1. UNCHANGED <<lifecycle, view, dirty, store, posts, job>>
      BY <1>4, <2>4 DEF AuthChange
    <3>2. PollingTypeOK' /\ OneLoop'
      BY <2>2, <3>1 DEF PollingIInv, PollingInv, PollingTypeOK, OneLoop, Single, Poll, lifecycle
    <3>3. ShownIsOurs' /\ NothingKept' /\ AttemptOurs' /\ AttemptAnalysed' /\ NeverStalls'
      BY <2>2, <3>1 DEF PollingIInv, PollingInv, ShownIsOurs, NothingKept, AttemptOurs,
                        AttemptAnalysed, NeverStalls, Listening
    <3> QED BY <3>2, <3>3 DEF PollingIInv, PollingInv
  <2> QED BY <2>3, <2>4
<1> QED BY <1>2, <1>3, <1>4

LEMMA RetryKeeps == ASSUME PollingIInv, RetryAnalysis PROVE PollingIInv'
<1>1. /\ view # NoSession /\ posts' = posts + 1 /\ posts' \in 0..MaxPosts
      /\ UNCHANGED <<lifecycle, view, poll, dirty, store, job>>
  BY PollFacts, PollingBounds DEF PollingIInv, PollingInv, RetryAnalysis
<1>2. PollingTypeOK' /\ OneLoop' /\ ShownIsOurs'
  BY <1>1 DEF PollingIInv, PollingInv, PollingTypeOK, OneLoop, ShownIsOurs, lifecycle
<1>3. NothingKept' /\ AttemptOurs' /\ AttemptAnalysed'
  BY <1>1 DEF PollingIInv, NothingKept, AttemptOurs, AttemptAnalysed
<1>4. NeverStalls'
  BY <1>1 DEF PollingIInv, PollingInv, NeverStalls, Listening, Eligible, Visible, lifecycle
<1> QED BY <1>2, <1>3, <1>4 DEF PollingIInv, PollingInv

LEMMA RetryAnswersKeeps ==
  ASSUME PollingIInv, NEW accepted \in BOOLEAN, RetryAnswers(accepted)
  PROVE  PollingIInv'
<1>0. /\ store \in Analysis /\ job \in [Sessions -> {"pending", "succeeded", "failed"}]
      /\ posts' \in 0..MaxPosts /\ view \in Sessions
  BY PollFacts, PollingBounds DEF PollingIInv, PollingInv, RetryAnswers, NothingKept
<1>1. UNCHANGED <<lifecycle, view, poll>> /\ view # NoSession
  BY <1>0, NoSessionAssumption DEF RetryAnswers
<1>2. CASE accepted
  <2>1. /\ job[view] = "failed" /\ job' = [job EXCEPT ![view] = "pending"]
        /\ store' = [store EXCEPT !.load = "pending"] /\ dirty' = TRUE
    BY <1>2 DEF RetryAnswers
  <2>2. store' \in Analysis /\ store'.load = "pending" /\ store'.shown = store.shown
    BY <1>0, <2>1 DEF Analysis
  <2>3. PollingTypeOK' /\ OneLoop'
    BY <1>0, <1>1, <2>1, <2>2 DEF PollingIInv, PollingInv, PollingTypeOK, OneLoop, Analysis, lifecycle
  <2>4. ShownIsOurs' /\ NothingKept' /\ AttemptOurs' /\ AttemptAnalysed' /\ NeverStalls'
    BY <1>1, <2>1, <2>2 DEF PollingIInv, PollingInv, ShownIsOurs, NothingKept, AttemptOurs,
                            AttemptAnalysed, NeverStalls
  <2> QED BY <2>3, <2>4 DEF PollingIInv, PollingInv
<1>3. CASE ~accepted
  <2>1. store' = [store EXCEPT !.load = "error"] /\ job' = job /\ dirty' = dirty
    BY <1>3 DEF RetryAnswers
  <2>2. store' \in Analysis /\ store'.load = "error" /\ store'.shown = store.shown
    BY <1>0, <2>1 DEF Analysis
  <2>3. PollingTypeOK' /\ OneLoop'
    BY <1>0, <1>1, <2>1, <2>2 DEF PollingIInv, PollingInv, PollingTypeOK, OneLoop, Analysis, lifecycle
  <2>4. ShownIsOurs' /\ NothingKept' /\ AttemptOurs' /\ AttemptAnalysed' /\ NeverStalls'
    BY <1>1, <2>1, <2>2 DEF PollingIInv, PollingInv, ShownIsOurs, NothingKept, AttemptOurs,
                            AttemptAnalysed, NeverStalls
  <2> QED BY <2>3, <2>4 DEF PollingIInv, PollingInv
<1> QED BY <1>2, <1>3

LEMMA JobEndsKeeps == ASSUME PollingIInv, NEW x \in Sessions, JobEnds(x) PROVE PollingIInv'
<1>0. job \in [Sessions -> {"pending", "succeeded", "failed"}] /\ view \in Sessions \cup {NoSession}
  BY PollFacts DEF PollingIInv, PollingInv
<1>1. PICK r \in {"succeeded", "failed"} :
        job[x] = "pending" /\ job' = [job EXCEPT ![x] = r]
        /\ UNCHANGED <<lifecycle, view, poll, dirty, store, posts>>
  BY DEF JobEnds
<1>2. \A y \in Sessions : job[y] = "succeeded" => job'[y] = "succeeded"
  BY <1>0, <1>1
<1>3. PollingTypeOK' /\ OneLoop'
  BY <1>0, <1>1 DEF PollingIInv, PollingInv, PollingTypeOK, OneLoop, lifecycle
<1>4. AttemptOurs' /\ AttemptAnalysed' /\ NothingKept'
  BY <1>0, <1>1, <1>2 DEF PollingIInv, AttemptOurs, AttemptAnalysed, NothingKept
<1>5. ShownIsOurs'
  <2>1. store.shown # NoSession => view # NoSession
    BY DEF PollingIInv, NothingKept, Empty
  <2> QED BY <1>0, <1>1, <1>2, <2>1 DEF PollingIInv, PollingInv, ShownIsOurs
<1>6. NeverStalls'
  BY <1>1 DEF PollingIInv, PollingInv, NeverStalls, Listening, Eligible, Visible, lifecycle
<1> QED BY <1>3, <1>4, <1>5, <1>6 DEF PollingIInv, PollingInv

LEMMA InitPollingIInv == PollingInit => PollingIInv
<1> SUFFICES ASSUME PollingInit PROVE PollingIInv
  OBVIOUS
<1>1. PollingTypeOK /\ OneLoop
  <2>1. 0 \in 0..MaxStale /\ 0 \in 0..MaxPosts
    BY PollingBounds
  <2>2. web \in Web
    BY DEF PollingInit, Web
  <2> QED BY <2>1, <2>2 DEF PollingInit, PollingTypeOK, OneLoop, Off, Fresh, Empty, Web
<1>2. ShownIsOurs /\ NothingKept /\ AttemptOurs /\ AttemptAnalysed /\ NeverStalls
  BY DEF PollingInit, ShownIsOurs, NothingKept, AttemptOurs, AttemptAnalysed, NeverStalls, Off,
         Empty
<1> QED BY <1>1, <1>2 DEF PollingIInv, PollingInv

LEMMA NextPollingIInv == PollingIInv /\ [PollingNext]_pollingVars => PollingIInv'
<1> SUFFICES ASSUME PollingIInv, [PollingNext]_pollingVars PROVE PollingIInv'
  OBVIOUS
<1>1. CASE UNCHANGED pollingVars
  <2>1. PollingTypeOK' /\ OneLoop' /\ ShownIsOurs'
    BY <1>1 DEF PollingIInv, PollingInv, PollingTypeOK, OneLoop, ShownIsOurs, pollingVars
  <2>2. NothingKept' /\ AttemptOurs' /\ AttemptAnalysed'
    BY <1>1 DEF PollingIInv, NothingKept, AttemptOurs, AttemptAnalysed, pollingVars
  <2>3. NeverStalls'
    BY <1>1 DEF PollingIInv, PollingInv, NeverStalls, Listening, Eligible, Visible, pollingVars
  <2> QED BY <2>1, <2>2, <2>3 DEF PollingIInv, PollingInv
<1> QED BY <1>1, PageKeeps, AdapterKeeps, AttemptKeeps, EnterKeeps, RerunKeeps, LeavingKeeps,
           RetryKeeps, RetryAnswersKeeps, JobEndsKeeps DEF PollingNext

(* The polling survives what the page goes through: with every order of     *)
(* lifecycle events, late answers, retries and leaving, there is one loop,  *)
(* it does not die while there is something to wait for, and it writes no   *)
(* other session's results (usePollingAssessment.ts:89-219,                 *)
(* assessment.ts:73-217).                                                   *)
THEOREM OneLoopLives == PollingSpec => []PollingInv
<1>1. PollingIInv => PollingInv
  BY DEF PollingIInv
<1> QED BY <1>1, InitPollingIInv, NextPollingIInv, PTL DEF PollingSpec

-----------------------------------------------------------------------------
(* The lists of the dashboard. *)

\* The requests that still count; whether one of a kind does; those of other
\* kinds.
Cur(f) == {r \in f : r.cur}
Waits(C, kind) == \E r \in C : r.kind = kind
Without(C, kinds) == {r \in C : r.kind \notin kinds}

\* What is listed is not before the cursor.
Above(S, cursor) == cursor # NoCursor => \A s \in S : cursor.at <= s

\* A page that was read: it is what its request's cursor leads to, and nothing
\* of that is missing but what its own cursor leads to.
PageFits(r) ==
  /\ r.items \subseteq r.base
  /\ \A s \in r.base : Owner[s] = r.user
  /\ r.next # NoCursor => r.next.user = r.user /\ r.next.w = r.w
  /\ \A s \in r.base \ r.items :
       r.cursor = NoCursor \/ s < r.cursor.at => r.next # NoCursor /\ s < r.next.at
  /\ Above(r.items, r.next)
  /\ r.cursor # NoCursor =>
       /\ \A s \in r.items : s < r.cursor.at
       /\ r.next # NoCursor => r.next.at < r.cursor.at

\* What counts was asked by this account, of this window, once of a kind.
RequestFits(r, id, w) ==
  /\ r.cur /\ r.user = id.user /\ r.rev = id.rev /\ r.w = w /\ ~Refused(r)
  /\ r.kind = "first" => r.cursor = NoCursor
  /\ r.kind \in Lists /\ r.st = "served" => PageFits(r)

Fit(C, id, w) ==
  /\ C \subseteq Requests
  /\ \A r \in C : RequestFits(r, id, w)
  /\ \A q, r \in C : q.kind = r.kind => q = r

\* What is in flight; also an end that no longer counts is of a session.
InFlight(f, id, w) ==
  /\ f \subseteq Requests
  /\ \A r \in f : r.kind = "end" => r.sid \in Sids
  /\ Fit(Cur(f), id, w)

CursorFits(cursor, user, w) == cursor # NoCursor => cursor.user = user /\ cursor.w = w

\* SlotsMatch and EndedGone of the active list's state by itself, and what
\* OwnLists says of it.
ActiveSlots(v, C) ==
  /\ (v.inFlight <=> v.loading) /\ (v.moreInFlight <=> v.loadingMore)
  /\ (v.endInFlight <=> v.isEnding) /\ (v.resInFlight <=> v.isResuming)
  /\ Waits(C, "first") <=> v.inFlight
  /\ Waits(C, "more") <=> v.moreInFlight
  /\ Waits(C, "end") <=> v.endInFlight
  /\ Waits(C, "resume") <=> v.resInFlight

EndedStays(v) ==
  /\ v.list \cap v.ended = {}
  /\ ~(v.endInFlight /\ v.resInFlight)
  /\ v.endInFlight \/ v.resInFlight => ~v.inFlight /\ ~v.moreInFlight
  /\ v.isEnding => v.endPanel \in v.list /\ v.endPanel = v.endIntent.sid

ActiveFits(v, C, id) ==
  /\ v \in ActiveTypes /\ (~v.on => v = Blank)
  /\ ActiveSlots(v, C) /\ EndedStays(v)
  /\ \A s \in v.list : Owner[s] = id.user
  /\ CursorFits(v.cursor, id.user, 0)

ActiveIs(v, f, id) == InFlight(f, id, 0) /\ ActiveFits(v, Cur(f), id)

\* These sessions are the account's, and will be of that day for ever.
OfDay(S, user, w) ==
  \A s \in S : Owner[s] = user /\ day[s] = w /\ status[s] = "completed"

\* The daily list's state, whatever timer is set; li is the page's lifecycle.
DailySlots(v, C) ==
  /\ v.moreInFlight <=> v.loadingMore
  /\ Waits(C, "first") <=> v.inFlight
  /\ Waits(C, "more") <=> v.moreInFlight
  /\ \A r \in C : r.kind \in Lists

DailyData(v, C, id) ==
  /\ OfDay(v.list, id.user, v.window) /\ OfDay(v.base, id.user, v.window)
  /\ CursorFits(v.cursor, id.user, v.window) /\ Above(v.list, v.cursor)
  /\ \A r \in C :
       /\ r.st = "served" => OfDay(r.base, id.user, v.window)
       /\ r.kind = "more" =>
            /\ r.cursor = v.cursor /\ v.cursor # NoCursor
            /\ r.st = "served" => v.base \subseteq r.base

DailyPhase(v, li) ==
  /\ v.moreInFlight => v.stats /\ ~v.inFlight /\ ~v.error /\ li
  /\ v.inFlight => li

DailyTimer(v, id) ==
  /\ v.timer # 0 => v.timer = v.window
  /\ v.on => v.window # 0 /\ (v.inFlight <=> v.loading)
  /\ v.on /\ id.user # None => v.timer # 0

\* What NothingMissing says of the daily list.
DailyWhole(v, li) ==
  v.on /\ v.stats /\ ~v.inFlight /\ ~v.error /\ li =>
    Ahead(v.base \ v.list, v.cursor)

DailyFits(v, C, id, li) ==
  /\ v \in DailyTypes /\ (~v.on => v = Idle)
  /\ DailySlots(v, C) /\ DailyData(v, C, id) /\ DailyPhase(v, li)
  /\ DailyTimer(v, id) /\ DailyWhole(v, li)

DailyIs(v, f, id, li) == InFlight(f, id, v.window) /\ DailyFits(v, Cur(f), id, li)

EnvTypes ==
  /\ status \in [Sids -> {"none", "active", "completed"}]
  /\ day \in [Sids -> Nat] /\ ending \subseteq Sids /\ today \in Nat \ {0}
  /\ auth \in [user : Users \cup {None}, rev : Nat]
  /\ shows \in BOOLEAN /\ leaving \in BOOLEAN
  /\ conv \in {"idle", "starting", "session"} /\ shown \in {"active", "daily"}

IInv ==
  /\ EnvTypes
  /\ shown = "active" => ActiveIs(a, flight, auth) /\ d = Idle
  /\ shown = "daily" => DailyIs(d, flight, auth, shows) /\ a = Blank /\ conv = "idle"
-----------------------------------------------------------------------------
(* What a page holds. *)

LEMMA LeastOf ==
  ASSUME NEW S \in SUBSET Nat, S # {}
  PROVE  \E x \in S : \A y \in S : x <= y
<1>1. PICK x \in S : \A y \in S : <<y, x>> \notin OpToRel(<, Nat)
  BY NatLessThanWellFounded, WFMin
<1>2. \A y \in S : ~(y < x)
  BY <1>1 DEF OpToRel
<1> QED BY <1>2

\* The newest of some rows are all of them, or as many as asked for; no other
\* row is newer than one of them.
LEMMA NewestAre ==
  ASSUME NEW rows \in SUBSET Sids, NEW n \in Nat \ {0}
  PROVE  /\ Newest(n, rows) \subseteq rows
         /\ Cardinality(rows) <= n => Newest(n, rows) = rows
         /\ rows # {} => Newest(n, rows) # {}
         /\ \A x \in rows \ Newest(n, rows) : \A y \in Newest(n, rows) : x < y
<1> DEFINE above(x) == {t \in rows : t > x}
<1>0. rows \subseteq Nat /\ IsFiniteSet(rows) /\ Cardinality(rows) \in Nat
  BY OwnerAssumption, FS_Subset, FS_CardinalityType
<1>1. \A x : IsFiniteSet(above(x)) /\ Cardinality(above(x)) \in Nat
  BY <1>0, FS_Subset, FS_CardinalityType
<1>2. Newest(n, rows) = {x \in rows : Cardinality(above(x)) < n}
  BY DEF Newest
<1>3. ASSUME NEW x \in rows, NEW y \in rows, x <= y
      PROVE  Cardinality(above(y)) <= Cardinality(above(x))
  <2>1. ASSUME NEW t \in above(y) PROVE t \in above(x)
    <3>1. t \in rows /\ t > y /\ t \in Nat /\ x \in Nat /\ y \in Nat
      BY <1>0, <1>3, <2>1
    <3> QED BY <1>3, <3>1
  <2> HIDE DEF above
  <2> QED BY <1>1, <2>1, FS_Subset
<1>4. ASSUME NEW x \in rows PROVE Cardinality(above(x)) < Cardinality(rows)
  <2>1. above(x) \subseteq rows \ {x}
    BY <1>0
  <2> HIDE DEF above
  <2>2. Cardinality(rows \ {x}) = Cardinality(rows) - 1 /\ IsFiniteSet(rows \ {x})
    BY <1>0, <1>4, FS_RemoveElement
  <2>3. Cardinality(above(x)) <= Cardinality(rows \ {x})
    BY <2>1, <2>2, FS_Subset
  <2> QED BY <1>0, <1>1, <2>2, <2>3
<1>5. ASSUME rows # {} PROVE \E x \in rows : Cardinality(above(x)) < n
  <2> DEFINE sizes == {Cardinality(above(x)) : x \in rows}
  <2>1. sizes \subseteq Nat /\ sizes # {}
    BY <1>1, <1>5
  <2>2. PICK least \in sizes : \A m \in sizes : least <= m
    <3> HIDE DEF sizes
    <3> QED BY <2>1, LeastOf
  <2>3. PICK x \in rows : least = Cardinality(above(x))
    OBVIOUS
  <2>4. above(x) = {}
    <3> SUFFICES ASSUME above(x) # {} PROVE FALSE
      OBVIOUS
    <3>1. PICK y \in above(x) : TRUE
      OBVIOUS
    <3>2. y \in rows /\ y > x
      BY <3>1
    <3>3. ASSUME NEW t \in above(y) PROVE t \in above(x) \ {y}
      <4>1. t \in rows /\ t > y /\ t \in Nat /\ x \in Nat /\ y \in Nat
        BY <1>0, <2>3, <3>2, <3>3
      <4> QED BY <3>2, <4>1
    <3>4. Cardinality(above(x)) <= Cardinality(above(y))
      BY <2>2, <2>3, <3>2
    <3> HIDE DEF above, sizes
    <3>5. Cardinality(above(y)) <= Cardinality(above(x) \ {y})
      BY <1>1, <3>3, FS_Subset, FS_RemoveElement
    <3>6. Cardinality(above(x) \ {y}) = Cardinality(above(x)) - 1
      BY <1>1, <3>1, FS_RemoveElement
    <3> QED BY <1>1, <3>4, <3>5, <3>6
  <2>5. Cardinality(above(x)) = 0
    <3> HIDE DEF above
    <3> QED BY <2>4, FS_EmptySet
  <2> QED BY <2>5
<1> HIDE DEF above
<1>6. Cardinality(rows) <= n => Newest(n, rows) = rows
  <2>1. ASSUME Cardinality(rows) <= n, NEW x \in rows PROVE Cardinality(above(x)) < n
    BY <1>0, <1>1, <1>4, <2>1
  <2> QED BY <1>2, <2>1
<1>7. ASSUME NEW x \in rows \ Newest(n, rows), NEW y \in Newest(n, rows) PROVE x < y
  <2>1. x \in rows /\ y \in rows /\ ~(Cardinality(above(x)) < n) /\ Cardinality(above(y)) < n
    BY <1>2
  <2>2. ~(y <= x)
    BY <1>1, <1>3, <2>1
  <2> QED BY <1>0, <2>1, <2>2
<1> QED BY <1>2, <1>5, <1>6, <1>7

LEMMA PageIs ==
  ASSUME NEW user \in Users, NEW st, NEW w \in Nat, NEW cursor
  PROVE  LET g == Page(user, st, w, cursor) IN
         /\ g.base = Rows(user, st, w) /\ g.items \subseteq g.base /\ g.next \in Cursors
         /\ g.next # NoCursor => g.next.user = user /\ g.next.w = w
         /\ \A s \in g.base \ g.items :
              cursor = NoCursor \/ s < cursor.at => g.next # NoCursor /\ s < g.next.at
         /\ Above(g.items, g.next)
         /\ cursor # NoCursor =>
              /\ \A s \in g.items : s < cursor.at
              /\ g.next # NoCursor => g.next.at < cursor.at
<1> DEFINE rows == {s \in Rows(user, st, w) : cursor = NoCursor \/ s < cursor.at}
           items == Newest(Limit, rows)
           more == [user |-> user, w |-> w, at |-> Min(items)]
           g == Page(user, st, w, cursor)
<1>1. /\ g.base = Rows(user, st, w) /\ g.items = items
      /\ g.next = IF Cardinality(rows) > Limit THEN more ELSE NoCursor
  BY DEF Page
<1>2. Rows(user, st, w) \subseteq Sids /\ rows \subseteq Rows(user, st, w) /\ rows \in SUBSET Sids
  BY DEF Rows
<1>3. IsFiniteSet(rows) /\ Cardinality(rows) \in Nat /\ Limit \in Nat \ {0}
  <2> HIDE DEF rows
  <2> QED BY <1>2, OwnerAssumption, LimitAssumption, FS_Subset, FS_CardinalityType
<1>4. /\ items \subseteq rows
      /\ Cardinality(rows) <= Limit => items = rows
      /\ rows # {} => items # {}
      /\ \A x \in rows \ items : \A y \in items : x < y
  <2> HIDE DEF rows
  <2> QED BY <1>2, <1>3, NewestAre
<1>5. NoCursor \in Cursors /\ NoCursor.user = None
  BY DEF NoCursor, Cursors
<1> HIDE DEF items
<1>6. CASE Cardinality(rows) <= Limit
  <2>1. ~(Cardinality(rows) > Limit)
    BY <1>3, <1>6
  <2>2. g.next = NoCursor /\ g.items = rows
    BY <1>1, <1>4, <1>6, <2>1
  <2>3. \A s \in rows : cursor # NoCursor => s < cursor.at
    OBVIOUS
  <2> QED BY <1>1, <1>2, <1>5, <2>2, <2>3 DEF Above
<1>7. CASE Cardinality(rows) > Limit
  <2>1. items # {} /\ items \in SUBSET Nat
    <3>1. rows # {}
      <4> HIDE DEF rows
      <4> QED BY <1>3, <1>7, FS_EmptySet
    <3> HIDE DEF rows
    <3> QED BY <3>1, <1>2, <1>4, OwnerAssumption
  <2>2. Min(items) \in items /\ \A y \in items : Min(items) <= y
    <3>1. \E x \in items : \A y \in items : x <= y
      BY <2>1, LeastOf
    <3> QED BY <3>1 DEF Min
  <2>3. g.next = more
    BY <1>1, <1>7
  <2>4. more \in Cursors /\ more # NoCursor /\ more.user = user /\ more.w = w /\ more.at = Min(items)
    <3>1. more.user # NoCursor.user
      BY <1>5, NoneAssumption
    <3> QED BY <2>1, <2>2, <3>1 DEF Cursors
  <2>5. ASSUME NEW s \in g.base \ g.items, cursor = NoCursor \/ s < cursor.at
        PROVE  s < Min(items)
    <3>1. s \in rows \ items
      BY <1>1, <2>5
    <3> QED BY <1>4, <2>2, <3>1
  <2>6. g.items \subseteq g.base
    BY <1>1, <1>2, <1>4
  <2>9. /\ \A s \in items : more.at <= s /\ (cursor # NoCursor => s < cursor.at)
        /\ cursor # NoCursor => more.at < cursor.at
    BY <1>4, <2>2, <2>4
  <2> HIDE DEF more, g, rows
  <2>7. g.next \in Cursors /\ g.next # NoCursor /\ g.next.user = user /\ g.next.w = w
    BY <2>3, <2>4
  <2>8. \A s \in g.base \ g.items :
          cursor = NoCursor \/ s < cursor.at => g.next # NoCursor /\ s < g.next.at
    BY <2>3, <2>4, <2>5
  <2>10. /\ Above(g.items, g.next)
         /\ cursor # NoCursor => (\A s \in g.items : s < cursor.at) /\ g.next.at < cursor.at
    BY <1>1, <2>3, <2>9 DEF Above
  <2> QED BY <1>1, <2>6, <2>7, <2>8, <2>10 DEF g
<1> QED BY <1>3, <1>6, <1>7
-----------------------------------------------------------------------------
(* Requests. *)

LEMMA NoCursorIs == NoCursor \in Cursors /\ NoCursor.user = None
BY DEF NoCursor, Cursors

\* Fewer requests fit where more did.
LEMMA FitFewer ==
  ASSUME NEW C, NEW D \in SUBSET C, NEW id, NEW w, Fit(C, id, w)
  PROVE  Fit(D, id, w)
BY DEF Fit

\* A request is made, of a kind that none was of.
LEMMA RequestIs ==
  ASSUME NEW id, id.user \in Users, id.rev \in Nat,
         NEW kind \in All, NEW w \in Nat, NEW cursor \in Cursors, NEW sid \in Nat
  PROVE  LET q == Request(id, kind, w, cursor, sid) IN
         /\ q \in Requests /\ q.kind = kind /\ q.cur /\ q.user = id.user /\ q.rev = id.rev
         /\ q.w = w /\ q.cursor = cursor /\ q.sid = sid /\ q.st = "sent"
<1>1. {} \in SUBSET Sids
  OBVIOUS
<1> QED BY <1>1, NoCursorIs DEF Request, Requests, All

LEMMA FitSent ==
  ASSUME NEW C, NEW id, NEW w, Fit(C, id, w),
         NEW q \in Requests, RequestFits(q, id, w), ~Waits(C, q.kind)
  PROVE  /\ Fit(C \cup {q}, id, w)
         /\ \A k : Waits(C \cup {q}, k) <=> Waits(C, k) \/ k = q.kind
BY DEF Fit, Waits

\* One is answered, or forgotten.
LEMMA FitWithout ==
  ASSUME NEW C, NEW id, NEW w, Fit(C, id, w), NEW r \in C
  PROVE  /\ Fit(C \ {r}, id, w)
         /\ \A k : Waits(C \ {r}, k) <=> Waits(C, k) /\ k # r.kind
BY DEF Fit, Waits

\* What a page adds to its request.
Served(r, g) == [r EXCEPT !.st = "served", !.items = g.items, !.base = g.base, !.next = g.next]

LEMMA ServedIs ==
  ASSUME NEW r \in Requests, NEW st, NEW id, NEW w, RequestFits(r, id, w)
  PROVE  LET q == Served(r, Page(r.user, st, r.w, r.cursor)) IN
         /\ q \in Requests /\ RequestFits(q, id, w)
         /\ q.kind = r.kind /\ q.cur /\ q.cursor = r.cursor /\ q.base = Rows(r.user, st, r.w)
<1> DEFINE g == Page(r.user, st, r.w, r.cursor)
           q == Served(r, g)
<1>0. r.user \in Users /\ r.w \in Nat
  BY DEF Requests
<1>1. /\ g.base = Rows(r.user, st, r.w) /\ g.items \subseteq g.base /\ g.next \in Cursors
      /\ g.next # NoCursor => g.next.user = r.user /\ g.next.w = r.w
      /\ \A s \in g.base \ g.items :
           r.cursor = NoCursor \/ s < r.cursor.at => g.next # NoCursor /\ s < g.next.at
      /\ Above(g.items, g.next)
      /\ r.cursor # NoCursor =>
           /\ \A s \in g.items : s < r.cursor.at
           /\ g.next # NoCursor => g.next.at < r.cursor.at
  BY <1>0, PageIs
<1>2. g.base \subseteq Sids /\ \A s \in g.base : Owner[s] = r.user
  BY <1>1 DEF Rows
<1> HIDE DEF g
<1>3. /\ q \in Requests /\ q.kind = r.kind /\ q.cur = r.cur /\ q.user = r.user /\ q.rev = r.rev
      /\ q.w = r.w /\ q.cursor = r.cursor /\ q.st = "served"
      /\ q.items = g.items /\ q.base = g.base /\ q.next = g.next
  BY <1>1, <1>2 DEF Served, Requests
<1> HIDE DEF q
<1>4. PageFits(q)
  BY <1>1, <1>2, <1>3 DEF PageFits
<1>5. RequestFits(q, id, w) /\ q.cur
  BY <1>3, <1>4 DEF RequestFits, Refused
<1>6. q.base = Rows(r.user, st, r.w)
  BY <1>1, <1>3
<1> QED BY <1>3, <1>5, <1>6 DEF q, g

\* The numbers of some kinds are advanced: what counted is without them.
LEMMA DropIs ==
  ASSUME NEW f \in SUBSET Requests, NEW kinds, \A r \in f : r.kind = "end" => r.sid \in Sids
  PROVE  /\ Drop(f, kinds) \subseteq Requests
         /\ \A r \in Drop(f, kinds) : r.kind = "end" => r.sid \in Sids
         /\ Cur(Drop(f, kinds)) = Without(Cur(f), kinds)
<1> DEFINE bare(r) == Request(r, r.kind, 0, NoCursor, IF r.kind = "end" THEN r.sid ELSE 0)
           st(r) == IF r.kind = "end" THEN r.st ELSE "sent"
           gone(r) == [bare(r) EXCEPT !.cur = FALSE, !.st = st(r)]
           drop(r) == IF r.kind \notin kinds THEN r ELSE gone(r)
<1>1. ASSUME NEW r \in f
      PROVE  gone(r) \in Requests /\ ~gone(r).cur /\ (gone(r).kind = "end" => gone(r).sid \in Sids)
  <2>1. /\ r.user \in Users /\ r.rev \in Nat /\ r.kind \in All /\ r.sid \in Nat
        /\ r.st \in {"sent", "served"}
    BY DEF Requests
  <2>2. bare(r) \in Requests /\ bare(r).kind = r.kind /\ (r.kind = "end" => bare(r).sid = r.sid)
    BY <2>1, NoCursorIs, RequestIs
  <2> HIDE DEF bare
  <2>3. st(r) \in {"sent", "served"}
    BY <2>1
  <2> HIDE DEF st
  <2> QED BY <2>1, <2>2, <2>3 DEF Requests
<1>2. Drop(f, kinds) = {drop(r) : r \in f}
  BY DEF Drop
<1> HIDE DEF gone
<1>3. \A r \in f : drop(r) \in Requests /\ (drop(r).kind = "end" => drop(r).sid \in Sids)
                   /\ (drop(r).cur <=> r.cur /\ r.kind \notin kinds)
                   /\ (drop(r).cur => drop(r) = r)
  BY <1>1
<1> HIDE DEF drop
<1>4. Cur(Drop(f, kinds)) = Without(Cur(f), kinds)
  BY <1>2, <1>3 DEF Cur, Without
<1> QED BY <1>2, <1>3, <1>4

LEMMA VoidIs ==
  ASSUME NEW f \in SUBSET Requests, NEW kinds, \A r \in f : r.kind = "end" => r.sid \in Sids
  PROVE  /\ Void(f, kinds) \subseteq Requests
         /\ \A r \in Void(f, kinds) : r.kind = "end" => r.sid \in Sids
         /\ Cur(Void(f, kinds)) = Without(Cur(f), kinds)
<1> DEFINE void(r) == IF r.kind \in kinds THEN [r EXCEPT !.cur = FALSE] ELSE r
<1>1. Void(f, kinds) = {void(r) : r \in f}
  BY DEF Void
<1>2. \A r \in f : void(r) \in Requests /\ (void(r).kind = "end" => void(r).sid \in Sids)
                   /\ (void(r).cur <=> r.cur /\ r.kind \notin kinds)
                   /\ (void(r).cur => void(r) = r)
  BY DEF Requests
<1> HIDE DEF void
<1>3. Cur(Void(f, kinds)) = Without(Cur(f), kinds)
  BY <1>1, <1>2 DEF Cur, Without
<1> QED BY <1>1, <1>2, <1>3

LEMMA WithoutIs ==
  ASSUME NEW C, NEW kinds
  PROVE  /\ Without(C, kinds) \subseteq C
         /\ \A k : Waits(Without(C, kinds), k) <=> Waits(C, k) /\ k \notin kinds
BY DEF Without, Waits

\* What counts, of the requests with one more, or one less.
LEMMA CurIs ==
  ASSUME NEW f, NEW q
  PROVE  /\ Cur(f \ {q}) = Cur(f) \ {q} /\ Cur(f) \subseteq f
         /\ q.cur => Cur(f \cup {q}) = Cur(f) \cup {q} /\ (q \in f => q \in Cur(f))
         /\ ~q.cur => Cur(f \cup {q}) = Cur(f) /\ Cur(f \ {q}) = Cur(f)
BY DEF Cur

\* Nobody is signed in: no request counts.
LEMMA NobodyAsks ==
  ASSUME NEW C, NEW id, NEW w, Fit(C, id, w), id.user = None
  PROVE  C = {}
BY NoneAssumption DEF Fit, RequestFits, Requests

\* What is in flight when some kinds are given up, one is sent or answered.
LEMMA DroppedIs ==
  ASSUME NEW f, NEW id, NEW w, InFlight(f, id, w), NEW kinds
  PROVE  /\ InFlight(Drop(f, kinds), id, w)
         /\ \A k : Waits(Cur(Drop(f, kinds)), k) <=> Waits(Cur(f), k) /\ k \notin kinds
<1>1. /\ Drop(f, kinds) \subseteq Requests
      /\ \A r \in Drop(f, kinds) : r.kind = "end" => r.sid \in Sids
      /\ Cur(Drop(f, kinds)) = Without(Cur(f), kinds)
  BY DropIs DEF InFlight
<1>2. Fit(Without(Cur(f), kinds), id, w)
  BY WithoutIs, FitFewer DEF InFlight
<1> QED BY <1>1, <1>2, WithoutIs DEF InFlight

LEMMA VoidedIs ==
  ASSUME NEW f, NEW id, NEW w, InFlight(f, id, w), NEW kinds
  PROVE  /\ InFlight(Void(f, kinds), id, w)
         /\ \A k : Waits(Cur(Void(f, kinds)), k) <=> Waits(Cur(f), k) /\ k \notin kinds
         /\ Cur(Void(f, kinds)) = Without(Cur(f), kinds)
<1>1. /\ Void(f, kinds) \subseteq Requests
      /\ \A r \in Void(f, kinds) : r.kind = "end" => r.sid \in Sids
      /\ Cur(Void(f, kinds)) = Without(Cur(f), kinds)
  BY VoidIs DEF InFlight
<1>2. Fit(Without(Cur(f), kinds), id, w)
  BY WithoutIs, FitFewer DEF InFlight
<1> QED BY <1>1, <1>2, WithoutIs DEF InFlight

LEMMA AddedIs ==
  ASSUME NEW f, NEW id, NEW w, InFlight(f, id, w),
         NEW q \in Requests, RequestFits(q, id, w), ~Waits(Cur(f), q.kind),
         q.kind = "end" => q.sid \in Sids
  PROVE  /\ InFlight(f \cup {q}, id, w)
         /\ \A k : Waits(Cur(f \cup {q}), k) <=> Waits(Cur(f), k) \/ k = q.kind
         /\ Cur(f \cup {q}) = Cur(f) \cup {q}
<1>1. /\ Fit(Cur(f) \cup {q}, id, w)
      /\ \A k : Waits(Cur(f) \cup {q}, k) <=> Waits(Cur(f), k) \/ k = q.kind
  BY FitSent DEF InFlight
<1>2. Cur(f \cup {q}) = Cur(f) \cup {q}
  BY CurIs DEF RequestFits
<1> QED BY <1>1, <1>2 DEF InFlight

LEMMA AnsweredIs ==
  ASSUME NEW f, NEW id, NEW w, InFlight(f, id, w), NEW r \in f
  PROVE  /\ InFlight(f \ {r}, id, w)
         /\ Cur(f \ {r}) = IF r.cur THEN Cur(f) \ {r} ELSE Cur(f)
         /\ \A k : Waits(Cur(f \ {r}), k) <=> Waits(Cur(f), k) /\ ~(r.cur /\ k = r.kind)
         /\ r.cur => Waits(Cur(f), r.kind) /\ RequestFits(r, id, w)
<1>1. CASE r.cur
  <2>1. r \in Cur(f) /\ Cur(f \ {r}) = Cur(f) \ {r}
    BY <1>1, CurIs
  <2>2. RequestFits(r, id, w) /\ Waits(Cur(f), r.kind)
    BY <2>1 DEF InFlight, Fit, Waits
  <2>3. /\ Fit(Cur(f) \ {r}, id, w)
        /\ \A k : Waits(Cur(f) \ {r}, k) <=> Waits(Cur(f), k) /\ k # r.kind
    BY <2>1, FitWithout DEF InFlight
  <2> QED BY <1>1, <2>1, <2>2, <2>3 DEF InFlight
<1>2. CASE ~r.cur
  <2>1. Cur(f \ {r}) = Cur(f)
    BY <1>2, CurIs
  <2> QED BY <1>2, <2>1 DEF InFlight
<1> QED BY <1>1, <1>2

LEMMA ReplacedIs ==
  ASSUME NEW f, NEW id, NEW w, InFlight(f, id, w), NEW r \in f, NEW q \in Requests,
         q.kind = r.kind, q.sid = r.sid, q.cur <=> r.cur, r.cur => RequestFits(q, id, w)
  PROVE  LET g == (f \ {r}) \cup {q} IN
         /\ InFlight(g, id, w)
         /\ Cur(g) = IF r.cur THEN (Cur(f) \ {r}) \cup {q} ELSE Cur(f)
         /\ \A k : Waits(Cur(g), k) <=> Waits(Cur(f), k)
<1> DEFINE e == f \ {r}
           g == e \cup {q}
<1>1. /\ InFlight(e, id, w)
      /\ Cur(e) = IF r.cur THEN Cur(f) \ {r} ELSE Cur(f)
      /\ \A k : Waits(Cur(e), k) <=> Waits(Cur(f), k) /\ ~(r.cur /\ k = r.kind)
      /\ r.cur => Waits(Cur(f), r.kind)
  BY AnsweredIs
<1>2. r.kind = "end" => r.sid \in Sids
  BY DEF InFlight
<1> HIDE DEF e
<1>3. CASE r.cur
  <2>1. /\ InFlight(g, id, w) /\ Cur(g) = Cur(e) \cup {q}
        /\ \A k : Waits(Cur(g), k) <=> Waits(Cur(e), k) \/ k = q.kind
    <3>1. InFlight(e, id, w) /\ ~Waits(Cur(e), q.kind) /\ RequestFits(q, id, w)
      BY <1>1, <1>3
    <3>2. q.kind = "end" => q.sid \in Sids
      BY <1>2
    <3> QED BY <3>1, <3>2, AddedIs
  <2> HIDE DEF g
  <2>2. Cur(g) = (Cur(f) \ {r}) \cup {q}
    BY <1>1, <1>3, <2>1
  <2>3. \A k : Waits(Cur(g), k) <=> Waits(Cur(f), k)
    BY <1>1, <1>3, <2>1
  <2> QED BY <1>3, <2>1, <2>2, <2>3 DEF g, e
<1>4. CASE ~r.cur
  <2>1. Cur(g) = Cur(f)
    <3>1. ~q.cur /\ Cur(e) = Cur(f)
      BY <1>1, <1>4
    <3> QED BY <3>1, CurIs
  <2>2. InFlight(g, id, w)
    BY <1>1, <1>2, <1>4, <2>1 DEF InFlight
  <2> QED BY <1>4, <2>1, <2>2 DEF g, e
<1> QED BY <1>3, <1>4

\* Only who asks and when matters of an identity.
LEMMA SameAsks ==
  ASSUME NEW id, NEW jd, jd.user = id.user, jd.rev = id.rev
  PROVE  /\ \A f, w : InFlight(f, id, w) <=> InFlight(f, jd, w)
         /\ \A kind, w, cursor, sid :
              Request(jd, kind, w, cursor, sid) = Request(id, kind, w, cursor, sid)
BY DEF InFlight, Fit, RequestFits, Request

LEMMA NobodyWaits ==
  ASSUME NEW f, NEW id, NEW w, InFlight(f, id, w), id.user = None
  PROVE  Cur(f) = {} /\ \A k : ~Waits(Cur(f), k)
BY NobodyAsks DEF InFlight, Waits

\* With nothing that counts, any identity and window will do.
LEMMA NothingCounts ==
  ASSUME NEW f, NEW id, NEW w, InFlight(f, id, w), NEW jd, NEW x,
         \A k : ~Waits(Cur(f), k)
  PROVE  Cur(f) = {} /\ InFlight(f, jd, x)
<1>1. Cur(f) = {}
  BY DEF Waits
<1> QED BY <1>1 DEF InFlight, Fit

-----------------------------------------------------------------------------
(* The active list. *)

\* Each of its handlers ends with what is a list's of this account.
OnIs(p, id) == p.v.on /\ ActiveIs(p.v, p.f, id)

LEMMA BlankIs ==
  ASSUME NEW f, NEW id, InFlight(f, id, 0), \A k : ~Waits(Cur(f), k)
  PROVE  /\ ActiveIs(Blank, f, id)
         /\ OnIs(Pair([Blank EXCEPT !.on = TRUE], f), id)
<1> DEFINE on == [Blank EXCEPT !.on = TRUE]
<1>1. {} \in SUBSET Sids /\ NoIntent \in Intents
  BY DEF NoIntent, Intents
<1>2. Blank \in ActiveTypes /\ on \in ActiveTypes
  BY <1>1, NoCursorIs DEF Blank, ActiveTypes
<1>3. ActiveFits(Blank, Cur(f), id) /\ ActiveFits(on, Cur(f), id) /\ on.on
  BY <1>2 DEF Blank, ActiveFits, ActiveSlots, EndedStays, CursorFits
<1>4. Pair(on, f).v = on /\ Pair(on, f).f = f
  BY DEF Pair
<1> QED BY <1>3, <1>4 DEF ActiveIs, OnIs

LEMMA VoidListsIs ==
  ASSUME NEW v, NEW f, NEW id, v.on, ActiveIs(v, f, id)
  PROVE  LET p == VoidLists(v, f) IN
         /\ OnIs(p, id) /\ ~p.v.inFlight /\ ~p.v.moreInFlight
         /\ p.v.endInFlight = v.endInFlight /\ p.v.resInFlight = v.resInFlight
         /\ p.v.endPanel = v.endPanel /\ p.v.list = v.list /\ p.v.endIntent = v.endIntent
<1> DEFINE u == [v EXCEPT !.inFlight = FALSE, !.loading = FALSE,
                          !.moreInFlight = FALSE, !.loadingMore = FALSE]
           g == Drop(f, {"first", "more"})
<1>1. VoidLists(v, f).v = u /\ VoidLists(v, f).f = g
  BY DEF VoidLists, Pair
<1>2. /\ InFlight(g, id, 0)
      /\ \A k : Waits(Cur(g), k) <=> Waits(Cur(f), k) /\ k \notin {"first", "more"}
  BY DroppedIs DEF ActiveIs
<1>3. v \in ActiveTypes
  BY DEF ActiveIs, ActiveFits
<1>4. /\ u \in ActiveTypes /\ u.on /\ ~u.inFlight /\ ~u.loading /\ ~u.moreInFlight /\ ~u.loadingMore
      /\ u.endInFlight = v.endInFlight /\ u.isEnding = v.isEnding
      /\ u.resInFlight = v.resInFlight /\ u.isResuming = v.isResuming
      /\ u.endPanel = v.endPanel /\ u.endIntent = v.endIntent
      /\ u.list = v.list /\ u.ended = v.ended /\ u.cursor = v.cursor
  BY <1>3 DEF ActiveTypes
<1> HIDE DEF u, g
<1>5. ActiveFits(u, Cur(g), id)
  BY <1>2, <1>4 DEF ActiveIs, ActiveFits, ActiveSlots, EndedStays
<1> QED BY <1>1, <1>2, <1>4, <1>5 DEF ActiveIs, OnIs

LEMMA ReleaseIs ==
  ASSUME NEW p, NEW id, OnIs(p, id)
  PROVE  OnIs(Release(p), id)
<1> DEFINE u == [p.v EXCEPT !.resInFlight = FALSE, !.isResuming = FALSE]
           g == Drop(p.f, {"resume"})
<1>1. CASE ~p.v.resInFlight
  BY <1>1 DEF Release
<1>2. CASE p.v.resInFlight
  <2>1. Release(p).v = u /\ Release(p).f = g
    BY <1>2 DEF Release, Pair
  <2>2. InFlight(g, id, 0) /\ \A k : Waits(Cur(g), k) <=> Waits(Cur(p.f), k) /\ k \notin {"resume"}
    BY DroppedIs DEF ActiveIs, OnIs
  <2>3. p.v \in ActiveTypes
    BY DEF ActiveIs, ActiveFits, OnIs
  <2>4. /\ u \in ActiveTypes /\ u.on = p.v.on /\ ~u.resInFlight /\ ~u.isResuming
        /\ u.inFlight = p.v.inFlight /\ u.moreInFlight = p.v.moreInFlight
        /\ u.loading = p.v.loading /\ u.loadingMore = p.v.loadingMore
        /\ u.endInFlight = p.v.endInFlight /\ u.isEnding = p.v.isEnding
        /\ u.endPanel = p.v.endPanel /\ u.endIntent = p.v.endIntent
        /\ u.list = p.v.list /\ u.ended = p.v.ended /\ u.cursor = p.v.cursor
    BY <2>3 DEF ActiveTypes
  <2> HIDE DEF u, g
  <2>5. ActiveFits(u, Cur(g), id)
    BY <2>2, <2>4 DEF ActiveIs, ActiveFits, ActiveSlots, EndedStays, OnIs
  <2> QED BY <2>1, <2>2, <2>4, <2>5 DEF ActiveIs, OnIs
<1> QED BY <1>1, <1>2

\* A fetch that is sent gives its list a fresh start, whatever was under way.
LEMMA FetchSends ==
  ASSUME NEW v \in ActiveTypes, NEW f, NEW id, v.on, InFlight(f, id, 0),
         id.user \in Users, id.rev \in Nat,
         ~v.endInFlight, ~v.isEnding, ~v.resInFlight, ~v.isResuming,
         ~Waits(Cur(f), "end"), ~Waits(Cur(f), "resume"),
         v.list \cap v.ended = {}, \A s \in v.list : Owner[s] = id.user
  PROVE  OnIs(Pair([v EXCEPT !.moreInFlight = FALSE, !.loadingMore = FALSE,
                             !.cursor = NoCursor, !.base = {},
                             !.inFlight = TRUE, !.loading = TRUE, !.error = FALSE],
                   Drop(f, {"first", "more"}) \cup {Request(id, "first", 0, NoCursor, 0)}), id)
<1> DEFINE u == [v EXCEPT !.moreInFlight = FALSE, !.loadingMore = FALSE, !.cursor = NoCursor,
                          !.base = {}, !.inFlight = TRUE, !.loading = TRUE, !.error = FALSE]
           e == Drop(f, {"first", "more"})
           q == Request(id, "first", 0, NoCursor, 0)
           g == e \cup {q}
<1>1. /\ u \in ActiveTypes /\ u.on /\ u.inFlight /\ u.loading /\ ~u.moreInFlight /\ ~u.loadingMore
      /\ ~u.endInFlight /\ ~u.isEnding /\ ~u.resInFlight /\ ~u.isResuming
      /\ u.list = v.list /\ u.ended = v.ended /\ u.cursor = NoCursor
  BY NoCursorIs DEF ActiveTypes
<1>2. InFlight(e, id, 0) /\ \A k : Waits(Cur(e), k) <=> Waits(Cur(f), k) /\ k \notin {"first", "more"}
  BY DroppedIs
<1> HIDE DEF e, u
<1>3. InFlight(g, id, 0) /\ \A k : Waits(Cur(g), k) <=> Waits(Cur(e), k) \/ k = "first"
  <2>1. q \in Requests /\ q.kind = "first" /\ RequestFits(q, id, 0)
    BY NoCursorIs, RequestIs DEF All, RequestFits, Refused
  <2> HIDE DEF q
  <2>2. InFlight(e, id, 0) /\ ~Waits(Cur(e), q.kind) /\ q.kind # "end"
    BY <1>2, <2>1
  <2>3. InFlight(g, id, 0) /\ \A k : Waits(Cur(g), k) <=> Waits(Cur(e), k) \/ k = q.kind
    BY <2>1, <2>2, AddedIs
  <2> QED BY <2>1, <2>3
<1> HIDE DEF g
<1>4. ActiveFits(u, Cur(g), id)
  BY <1>1, <1>2, <1>3 DEF ActiveFits, ActiveSlots, EndedStays, CursorFits
<1>5. Pair(u, g).v = u /\ Pair(u, g).f = g
  BY DEF Pair
<1> QED BY <1>1, <1>3, <1>4, <1>5 DEF ActiveIs, OnIs, u, g, e, q

LEMMA FetchIs ==
  ASSUME NEW p, NEW id \in [user : Users \cup {None}, rev : Nat], NEW li, NEW c, OnIs(p, id)
  PROVE  OnIs(Fetch(p, id, li, c), id)
<1> DEFINE v == p.v
           out == [v EXCEPT !.list = {}, !.error = FALSE, !.loading = FALSE]
<1>0. v \in ActiveTypes /\ v.on /\ ActiveFits(v, Cur(p.f), id) /\ InFlight(p.f, id, 0)
  BY DEF OnIs, ActiveIs, ActiveFits
<1>1. CASE v.endInFlight \/ v.resInFlight \/ c = "starting"
  BY <1>1 DEF Fetch
<1>2. CASE ~(v.endInFlight \/ v.resInFlight \/ c = "starting") /\ id.user = None
  <2>1. Fetch(p, id, li, c).v = out /\ Fetch(p, id, li, c).f = p.f
    BY <1>2 DEF Fetch, Pair
  <2>2. \A k : ~Waits(Cur(p.f), k)
    BY <1>0, <1>2, NobodyWaits
  <2>3. {} \in SUBSET Sids
    OBVIOUS
  <2>4. /\ out \in ActiveTypes /\ out.on /\ ~out.loading /\ out.inFlight = v.inFlight
        /\ out.moreInFlight = v.moreInFlight /\ out.loadingMore = v.loadingMore
        /\ out.endInFlight = v.endInFlight /\ out.isEnding = v.isEnding
        /\ out.resInFlight = v.resInFlight /\ out.isResuming = v.isResuming
        /\ out.list = {} /\ out.cursor = v.cursor
    BY <1>0, <2>3 DEF ActiveTypes
  <2>5. ~v.inFlight /\ out.inFlight \in BOOLEAN /\ out.loading \in BOOLEAN
    BY <1>0, <2>2, <2>4 DEF ActiveFits, ActiveSlots, ActiveTypes
  <2>6. ~v.endInFlight /\ ~v.resInFlight
    BY <1>2
  <2> HIDE DEF v, out
  <2>7. ActiveFits(out, Cur(p.f), id)
    BY <1>0, <2>2, <2>4, <2>5, <2>6 DEF ActiveFits, ActiveSlots, EndedStays
  <2> QED BY <1>0, <2>1, <2>4, <2>7 DEF ActiveIs, OnIs
<1>3. CASE ~(v.endInFlight \/ v.resInFlight \/ c = "starting") /\ id.user # None
           /\ (~li \/ v.inFlight)
  BY <1>3 DEF Fetch
<1>4. CASE ~(v.endInFlight \/ v.resInFlight \/ c = "starting") /\ id.user # None
           /\ ~(~li \/ v.inFlight)
  <2>1. Fetch(p, id, li, c) =
          Pair([v EXCEPT !.moreInFlight = FALSE, !.loadingMore = FALSE,
                         !.cursor = NoCursor, !.base = {},
                         !.inFlight = TRUE, !.loading = TRUE, !.error = FALSE],
               Drop(p.f, {"first", "more"}) \cup {Request(id, "first", 0, NoCursor, 0)})
    BY <1>4 DEF Fetch
  <2>2. /\ ~v.endInFlight /\ ~v.isEnding /\ ~v.resInFlight /\ ~v.isResuming
        /\ ~Waits(Cur(p.f), "end") /\ ~Waits(Cur(p.f), "resume")
        /\ v.list \cap v.ended = {} /\ \A s \in v.list : Owner[s] = id.user
    BY <1>0, <1>4 DEF ActiveFits, ActiveSlots, EndedStays
  <2>3. id.user \in Users /\ id.rev \in Nat
    BY <1>4
  <2> HIDE DEF v
  <2> QED BY <1>0, <2>1, <2>2, <2>3, FetchSends
<1> QED BY <1>1, <1>2, <1>3, <1>4

-----------------------------------------------------------------------------
(* The steps of the active list. *)

LEMMA ActiveStep ==
  ASSUME IInv, shown = "active", UNCHANGED <<d, shown>>, EnvTypes',
         ActiveIs(a', flight', auth')
  PROVE  IInv'
BY DEF IInv

LEMMA TakeIs ==
  ASSUME NEW p, NEW id, OnIs(p, id), Take(p)
  PROVE  a'.on /\ ActiveIs(a', flight', id)
BY DEF Take, OnIs

\* What the handlers find.
LEMMA ActiveHas ==
  ASSUME IInv, shown = "active"
  PROVE  /\ EnvTypes /\ ActiveIs(a, flight, auth) /\ InFlight(flight, auth, 0)
         /\ a \in ActiveTypes /\ ActiveFits(a, Cur(flight), auth)
         /\ a.on => OnIs(Pair(a, flight), auth)
         /\ auth \in [user : Users \cup {None}, rev : Nat]
<1>1. Pair(a, flight).v = a /\ Pair(a, flight).f = flight
  BY DEF Pair
<1> QED BY <1>1 DEF IInv, ActiveIs, ActiveFits, OnIs, EnvTypes

LEMMA RetryFetchKeeps ==
  ASSUME IInv, shown = "active", UNCHANGED <<d, shown>>, Retry PROVE IInv'
<1>1. OnIs(Fetch(Pair(a, flight), auth, shows, conv), auth)
  BY ActiveHas, FetchIs DEF Retry, Clickable
<1>2. ActiveIs(a', flight', auth) /\ EnvTypes' /\ auth' = auth
  BY <1>1, ActiveHas, TakeIs DEF Retry, EnvTypes, server, page
<1> QED BY <1>2, ActiveStep

LEMMA MoreSends ==
  ASSUME NEW v, NEW f, NEW id \in [user : Users \cup {None}, rev : Nat], v.on, ActiveIs(v, f, id),
         id.user # None, ~v.inFlight, ~v.endInFlight, ~v.resInFlight
  PROVE  OnIs(Pair([v EXCEPT !.moreInFlight = TRUE, !.loadingMore = TRUE],
                   Drop(f, {"more"}) \cup {Request(id, "more", 0, v.cursor, 0)}), id)
<1> DEFINE u == [v EXCEPT !.moreInFlight = TRUE, !.loadingMore = TRUE]
           e == Drop(f, {"more"})
           from == v.cursor
           q == Request(id, "more", 0, from, 0)
           g == e \cup {q}
<1>1. /\ v \in ActiveTypes /\ ActiveFits(v, Cur(f), id) /\ InFlight(f, id, 0)
      /\ id.user \in Users /\ id.rev \in Nat
  BY DEF ActiveIs, ActiveFits
<1>2. InFlight(e, id, 0) /\ \A k : Waits(Cur(e), k) <=> Waits(Cur(f), k) /\ k \notin {"more"}
  BY <1>1, DroppedIs
<1>3. from \in Cursors /\ CursorFits(from, id.user, 0)
  BY <1>1 DEF ActiveTypes, ActiveFits
<1>4. /\ u \in ActiveTypes /\ u.on = v.on /\ u.moreInFlight /\ u.loadingMore
      /\ u.inFlight = v.inFlight /\ u.loading = v.loading
      /\ u.endInFlight = v.endInFlight /\ u.isEnding = v.isEnding
      /\ u.resInFlight = v.resInFlight /\ u.isResuming = v.isResuming
      /\ u.list = v.list /\ u.ended = v.ended /\ u.cursor = v.cursor
  BY <1>1 DEF ActiveTypes
<1> HIDE DEF e, u, from
<1>5. InFlight(g, id, 0) /\ \A k : Waits(Cur(g), k) <=> Waits(Cur(e), k) \/ k = "more"
  <2>1. q \in Requests /\ q.kind = "more" /\ RequestFits(q, id, 0)
    BY <1>1, <1>3, RequestIs DEF All, RequestFits, Refused, CursorFits
  <2> HIDE DEF q
  <2> QED BY <1>2, <2>1, AddedIs
<1> HIDE DEF g
<1>6. ActiveFits(u, Cur(g), id)
  BY <1>1, <1>2, <1>4, <1>5 DEF ActiveFits, ActiveSlots, EndedStays
<1>7. Pair(u, g).v = u /\ Pair(u, g).f = g
  BY DEF Pair
<1> QED BY <1>4, <1>5, <1>6, <1>7 DEF ActiveIs, OnIs, u, g, e, q, from

LEMMA LoadMoreKeeps ==
  ASSUME IInv, shown = "active", UNCHANGED <<d, shown>>, LoadMore PROVE IInv'
<1>1. OnIs(Pair([a EXCEPT !.moreInFlight = TRUE, !.loadingMore = TRUE],
                Drop(flight, {"more"}) \cup {Request(auth, "more", 0, a.cursor, 0)}), auth)
  BY ActiveHas, MoreSends DEF LoadMore, MoreButton, Clickable
<1>2. ActiveIs(a', flight', auth) /\ EnvTypes' /\ auth' = auth
  BY <1>1, ActiveHas, TakeIs DEF LoadMore, MoreButton, EnvTypes, server, page
<1> QED BY <1>2, ActiveStep

\* A page of the list arrives.
LEMMA ListedIs ==
  ASSUME NEW r, ActiveIs(a, flight, auth), r \in flight, r.cur,
         r.kind \in Lists, r.st = "served"
  PROVE  LET u == Listed(a, r) IN
         /\ u \in ActiveTypes /\ u = [a EXCEPT !.list = u.list, !.base = u.base, !.cursor = u.cursor]
         /\ u.list \subseteq Sids /\ u.list \cap a.ended = {}
         /\ \A s \in u.list : Owner[s] = auth.user
         /\ u.cursor \in Cursors /\ CursorFits(u.cursor, auth.user, 0)
<1> DEFINE list == (IF r.kind = "first" THEN {} ELSE a.list) \cup (r.items \ a.ended)
           base == IF r.kind = "first" THEN r.base ELSE a.base
           u == [a EXCEPT !.list = list, !.base = base, !.cursor = r.next]
<1>1. RequestFits(r, auth, 0) /\ r \in Requests /\ a \in ActiveTypes
  BY AnsweredIs DEF ActiveIs, ActiveFits, InFlight
<1>2. PageFits(r) /\ r.user = auth.user /\ r.w = 0
  BY <1>1 DEF RequestFits
<1>3. r.items \in SUBSET Sids /\ r.next \in Cursors
  BY <1>1 DEF Requests
<1>4. a.list \subseteq Sids
  BY <1>1 DEF ActiveTypes
<1>5. list \subseteq Sids /\ list \cap a.ended = {} /\ \A s \in list : Owner[s] = auth.user
  BY <1>2, <1>3, <1>4 DEF PageFits, ActiveIs, ActiveFits, EndedStays
<1>6. CursorFits(r.next, auth.user, 0)
  BY <1>2 DEF PageFits, CursorFits
<1>7. Listed(a, r) = u
  BY <1>1 DEF Listed, ActiveTypes
<1>9. base \in SUBSET Sids
  BY <1>1 DEF Requests, ActiveTypes
<1> HIDE DEF list, base
<1>8. u \in ActiveTypes /\ u.list = list /\ u.base = base /\ u.cursor = r.next
  BY <1>1, <1>3, <1>5, <1>9 DEF ActiveTypes
<1> QED BY <1>3, <1>5, <1>6, <1>7, <1>8

LEMMA SettleListKeeps ==
  ASSUME IInv, shown = "active", UNCHANGED <<d, shown>>, NEW r \in flight, NEW ok \in BOOLEAN,
         SettleFirst(r, ok) \/ SettleMore(r, ok)
  PROVE  IInv'
<1>0. /\ ActiveIs(a, flight, auth) /\ a \in ActiveTypes /\ ActiveFits(a, Cur(flight), auth)
      /\ InFlight(flight, auth, 0) /\ EnvTypes
  BY ActiveHas
<1>1. /\ flight' = flight \ {r} /\ UNCHANGED <<server, page, conv>>
      /\ r.kind \in Lists /\ (ok => r.st = "served")
  BY DEF SettleFirst, SettleMore, Lists
<1>2. /\ InFlight(flight', auth, 0)
      /\ \A k : Waits(Cur(flight'), k) <=> Waits(Cur(flight), k) /\ ~(r.cur /\ k = r.kind)
      /\ r.cur => Waits(Cur(flight), r.kind) /\ RequestFits(r, auth, 0)
  <2>1. InFlight(flight, auth, 0)
    BY <1>0
  <2>2. /\ InFlight(flight \ {r}, auth, 0)
        /\ \A k : Waits(Cur(flight \ {r}), k) <=> Waits(Cur(flight), k) /\ ~(r.cur /\ k = r.kind)
        /\ r.cur => Waits(Cur(flight), r.kind) /\ RequestFits(r, auth, 0)
    BY <2>1, AnsweredIs
  <2> QED BY <1>1, <2>2
<1>3. CASE ~r.cur
  <2>1. ~Counts(r)
    BY <1>3 DEF Counts
  <2>2. a' = a
    BY <1>3, <2>1 DEF SettleFirst, SettleMore
  <2>3. ActiveFits(a', Cur(flight'), auth)
    BY <1>0, <1>2, <1>3, <2>2 DEF ActiveFits, ActiveSlots
  <2> QED BY <1>0, <1>1, <1>2, <2>3, ActiveStep DEF ActiveIs, EnvTypes, server, page
<1>4. CASE r.cur
  <2>1. Counts(r) /\ a.on
    <3>1. Counts(r)
      BY <1>2, <1>4 DEF Counts, RequestFits
    <3>2. a.inFlight \/ a.moreInFlight
      BY <1>0, <1>1, <1>2, <1>4 DEF ActiveFits, ActiveSlots, Lists
    <3>3. a # Blank
      BY <3>2 DEF Blank
    <3> QED BY <1>0, <3>1, <3>3 DEF ActiveFits
  <2> DEFINE l == IF ok THEN Listed(a, r) ELSE a
  <2>2. /\ l \in ActiveTypes /\ l = [a EXCEPT !.list = l.list, !.base = l.base, !.cursor = l.cursor]
        /\ l.list \subseteq Sids /\ l.list \cap a.ended = {}
        /\ \A s \in l.list : Owner[s] = auth.user
        /\ CursorFits(l.cursor, auth.user, 0)
        /\ ~ok => l = a
    <3>1. CASE ok
      BY <1>0, <1>1, <1>4, <3>1, ListedIs
    <3>2. CASE ~ok
      <4>1. a = [a EXCEPT !.list = a.list, !.base = a.base, !.cursor = a.cursor]
        BY <1>0 DEF ActiveTypes
      <4>2. a.list \subseteq Sids
        BY <1>0 DEF ActiveTypes
      <4> QED BY <1>0, <3>2, <4>1, <4>2 DEF ActiveFits, EndedStays
    <3> QED BY <3>1, <3>2
  <2> HIDE DEF l
  <2>3. /\ l.on = a.on /\ l.inFlight = a.inFlight /\ l.loading = a.loading
        /\ l.moreInFlight = a.moreInFlight /\ l.loadingMore = a.loadingMore
        /\ l.endInFlight = a.endInFlight /\ l.isEnding = a.isEnding
        /\ l.resInFlight = a.resInFlight /\ l.isResuming = a.isResuming
        /\ l.ended = a.ended
    BY <1>0, <2>2 DEF ActiveTypes
  <2>4. /\ a' \in ActiveTypes /\ a'.on = l.on /\ a'.list = l.list /\ a'.ended = l.ended
        /\ a'.cursor = l.cursor
        /\ a'.endInFlight = l.endInFlight /\ a'.isEnding = l.isEnding
        /\ a'.resInFlight = l.resInFlight /\ a'.isResuming = l.isResuming
    <3>1. CASE SettleFirst(r, ok)
      <4>1. a' = [[[l EXCEPT !.error = ~ok] EXCEPT !.inFlight = FALSE] EXCEPT !.loading = FALSE]
        BY <1>4, <2>1, <2>2, <3>1 DEF SettleFirst, l
      <4> DEFINE m == [l EXCEPT !.error = ~ok]
      <4>2. /\ m \in ActiveTypes /\ m.on = l.on /\ m.list = l.list /\ m.ended = l.ended
            /\ m.cursor = l.cursor
            /\ m.endInFlight = l.endInFlight /\ m.isEnding = l.isEnding
            /\ m.resInFlight = l.resInFlight /\ m.isResuming = l.isResuming
        <5>1. l \in ActiveTypes
          BY <2>2
        <5> QED BY <5>1 DEF ActiveTypes
      <4>3. a' = [[m EXCEPT !.inFlight = FALSE] EXCEPT !.loading = FALSE]
        BY <4>1
      <4> HIDE DEF m
      <4> QED BY <4>2, <4>3 DEF ActiveTypes
    <3>2. CASE SettleMore(r, ok)
      <4>1. a' = [[l EXCEPT !.moreInFlight = FALSE] EXCEPT !.loadingMore = FALSE]
        BY <1>4, <2>1, <2>2, <3>2 DEF SettleMore, l
      <4>2. l \in ActiveTypes
        BY <2>2
      <4> QED BY <4>1, <4>2 DEF ActiveTypes
    <3> QED BY <3>1, <3>2
  <2>5. ~a.endInFlight /\ ~a.resInFlight /\ ~a.isEnding
    BY <1>0, <1>1, <1>2, <1>4 DEF ActiveFits, ActiveSlots, EndedStays, Lists
  <2>6. /\ r.kind = "first" => ~a'.inFlight /\ ~a'.loading
             /\ a'.moreInFlight = l.moreInFlight /\ a'.loadingMore = l.loadingMore
        /\ r.kind = "more" => ~a'.moreInFlight /\ ~a'.loadingMore
             /\ a'.inFlight = l.inFlight /\ a'.loading = l.loading
    <3>1. CASE SettleFirst(r, ok)
      <4>1. a' = [[[l EXCEPT !.error = ~ok] EXCEPT !.inFlight = FALSE] EXCEPT !.loading = FALSE]
        BY <1>4, <2>1, <2>2, <3>1 DEF SettleFirst, l
      <4>2. r.kind = "first"
        BY <3>1 DEF SettleFirst
      <4> QED BY <2>2, <4>1, <4>2 DEF ActiveTypes
    <3>2. CASE SettleMore(r, ok)
      <4>1. a' = [[l EXCEPT !.moreInFlight = FALSE] EXCEPT !.loadingMore = FALSE]
        BY <1>4, <2>1, <2>2, <3>2 DEF SettleMore, l
      <4>2. r.kind = "more"
        BY <3>2 DEF SettleMore
      <4> QED BY <2>2, <4>1, <4>2 DEF ActiveTypes
    <3> QED BY <3>1, <3>2
  <2>7. ActiveSlots(a', Cur(flight'))
    <3>1. CASE r.kind = "first"
      BY <1>0, <1>2, <1>4, <2>3, <2>4, <2>6, <3>1 DEF ActiveFits, ActiveSlots
    <3>2. CASE r.kind = "more"
      BY <1>0, <1>2, <1>4, <2>3, <2>4, <2>6, <3>2 DEF ActiveFits, ActiveSlots
    <3> QED BY <1>1, <3>1, <3>2 DEF Lists
  <2>8. ActiveFits(a', Cur(flight'), auth)
    BY <2>1, <2>2, <2>3, <2>4, <2>5, <2>7 DEF ActiveFits, EndedStays
  <2> QED BY <1>0, <1>1, <1>2, <2>8, ActiveStep DEF ActiveIs, EnvTypes, server, page
<1> QED BY <1>3, <1>4

\* An answer nobody waits for.
LEMMA LateKeeps ==
  ASSUME IInv, shown = "active", UNCHANGED <<d, shown, server, page, conv, a>>,
         NEW r \in flight, ~r.cur, flight' = flight \ {r}
  PROVE  IInv'
<1>1. /\ InFlight(flight \ {r}, auth, 0)
      /\ \A k : Waits(Cur(flight \ {r}), k) <=> Waits(Cur(flight), k)
  BY ActiveHas, AnsweredIs
<1>2. ActiveFits(a, Cur(flight \ {r}), auth)
  BY <1>1, ActiveHas DEF ActiveFits, ActiveSlots
<1> QED BY <1>1, <1>2, ActiveHas, ActiveStep DEF ActiveIs, EnvTypes, server, page

\* A panel is opened or closed: nothing that is under way changes.
LEMMA PanelKeeps ==
  ASSUME IInv, shown = "active", UNCHANGED <<d, shown, server, page, conv>>,
         a' \in ActiveTypes, a.on, a'.on,
         a'.inFlight = a.inFlight, a'.loading = a.loading,
         a'.moreInFlight = a.moreInFlight, a'.loadingMore = a.loadingMore,
         a'.endInFlight = a.endInFlight, a'.isEnding = a.isEnding,
         a'.resInFlight = a.resInFlight, a'.isResuming = a.isResuming,
         a'.list = a.list, a'.ended = a.ended, a'.cursor = a.cursor,
         a.isEnding => a'.endPanel = a.endPanel /\ a'.endIntent = a.endIntent,
         flight' = flight \/ (~a.resInFlight /\ flight' = Drop(flight, {"resume"}))
  PROVE  IInv'
<1>1. ActiveFits(a, Cur(flight), auth) /\ InFlight(flight, auth, 0) /\ EnvTypes
  BY ActiveHas
<1>2. ~a.resInFlight => ~Waits(Cur(flight), "resume")
  BY <1>1 DEF ActiveFits, ActiveSlots
<1>3. /\ InFlight(flight', auth, 0)
      /\ \A k : Waits(Cur(flight'), k) <=> Waits(Cur(flight), k)
  <2>1. CASE flight' = flight
    BY <1>1, <2>1
  <2>2. CASE ~a.resInFlight /\ flight' = Drop(flight, {"resume"})
    BY <1>1, <1>2, <2>2, DroppedIs
  <2> QED BY <2>1, <2>2
<1>4. ActiveFits(a', Cur(flight'), auth)
  BY <1>1, <1>3 DEF ActiveFits, ActiveSlots, EndedStays
<1> QED BY <1>1, <1>3, <1>4, ActiveStep DEF ActiveIs, EnvTypes, server, page

LEMMA ConfirmKeeps ==
  ASSUME IInv, shown = "active", UNCHANGED <<d, shown>>, NEW s \in Sids,
         StartConfirm(s) \/ CancelConfirm \/ StartResumeConfirm(s) \/ CancelResume
  PROVE  IInv'
<1>0. a \in ActiveTypes /\ auth \in [user : Users \cup {None}, rev : Nat]
  BY ActiveHas
<1>1. Intent(s) \in Intents /\ NoIntent \in Intents
  BY <1>0 DEF Intent, NoIntent, Intents
<1>2. a.on /\ UNCHANGED <<server, page, conv>>
  BY DEF StartConfirm, CancelConfirm, StartResumeConfirm, CancelResume,
     RowButtons, EndPanel, ResumePanel, Clickable
<1>3. CASE StartConfirm(s)
  <2>1. /\ a' = [a EXCEPT !.resIntent = NoIntent, !.endIntent = Intent(s),
                          !.endPanel = s, !.resPanel = 0]
        /\ flight' = Drop(flight, {"resume"}) /\ ~a.isEnding /\ ~a.resInFlight
    BY <1>3 DEF StartConfirm, RowButtons, Busy
  <2> QED BY <1>0, <1>1, <1>2, <2>1, PanelKeeps DEF ActiveTypes
<1>4. CASE CancelConfirm
  <2>1. /\ a' = [a EXCEPT !.endIntent = NoIntent, !.endPanel = 0]
        /\ flight' = flight /\ ~a.isEnding
    BY <1>4 DEF CancelConfirm, EndPanel
  <2> QED BY <1>0, <1>1, <1>2, <2>1, PanelKeeps DEF ActiveTypes
<1>5. CASE StartResumeConfirm(s)
  <2>1. /\ a' = [a EXCEPT !.resIntent = Intent(s), !.resPanel = s, !.endPanel = 0]
        /\ flight' = Drop(flight, {"resume"}) /\ ~a.isEnding /\ ~a.resInFlight
    BY <1>5 DEF StartResumeConfirm, RowButtons, Busy
  <2> QED BY <1>0, <1>1, <1>2, <2>1, PanelKeeps DEF ActiveTypes
<1>6. CASE CancelResume
  <2>1. /\ a' = [a EXCEPT !.resIntent = NoIntent, !.resPanel = 0]
        /\ flight' = Drop(flight, {"resume"}) /\ ~a.resInFlight
    BY <1>6 DEF CancelResume, ResumePanel
  <2> QED BY <1>0, <1>1, <1>2, <2>1, PanelKeeps DEF ActiveTypes
<1> QED BY <1>3, <1>4, <1>5, <1>6

\* An end, or a resume, is sent.
LEMMA EndSends ==
  ASSUME NEW v, NEW f, NEW id, NEW jd, NEW s \in Sids, v.on, ActiveIs(v, f, id),
         id.user \in Users, id.rev \in Nat, jd.user = id.user, jd.rev = id.rev,
         ~v.inFlight, ~v.moreInFlight, ~v.endInFlight, ~v.resInFlight,
         v.endPanel = s, s \in v.list, v.endIntent.sid = s
  PROVE  OnIs(Pair([v EXCEPT !.endInFlight = TRUE, !.isEnding = TRUE],
                   Drop(f, {"end"}) \cup {Request(jd, "end", 0, NoCursor, s)}), id)
<1> DEFINE u == [v EXCEPT !.endInFlight = TRUE, !.isEnding = TRUE]
           e == Drop(f, {"end"})
           q == Request(jd, "end", 0, NoCursor, s)
           g == e \cup {q}
<1>1. v \in ActiveTypes /\ ActiveFits(v, Cur(f), id) /\ InFlight(f, id, 0)
  BY DEF ActiveIs, ActiveFits
<1>2. InFlight(e, id, 0) /\ \A k : Waits(Cur(e), k) <=> Waits(Cur(f), k) /\ k \notin {"end"}
  BY <1>1, DroppedIs
<1>3. s \in Nat
  BY OwnerAssumption
<1>4. q \in Requests /\ q.kind = "end" /\ q.sid = s /\ RequestFits(q, id, 0)
  BY <1>3, NoCursorIs, RequestIs DEF All, RequestFits, Refused, Lists
<1>5. /\ u \in ActiveTypes /\ u.on = v.on /\ u.endInFlight /\ u.isEnding
      /\ u.inFlight = v.inFlight /\ u.loading = v.loading
      /\ u.moreInFlight = v.moreInFlight /\ u.loadingMore = v.loadingMore
      /\ u.resInFlight = v.resInFlight /\ u.isResuming = v.isResuming
      /\ u.endPanel = v.endPanel /\ u.endIntent = v.endIntent
      /\ u.list = v.list /\ u.ended = v.ended /\ u.cursor = v.cursor
  BY <1>1 DEF ActiveTypes
<1> HIDE DEF u, e, q
<1>6. InFlight(g, id, 0) /\ \A k : Waits(Cur(g), k) <=> Waits(Cur(e), k) \/ k = "end"
  <2>1. InFlight(e, id, 0) /\ ~Waits(Cur(e), q.kind) /\ (q.kind = "end" => q.sid \in Sids)
    BY <1>2, <1>4
  <2>2. InFlight(g, id, 0) /\ \A k : Waits(Cur(g), k) <=> Waits(Cur(e), k) \/ k = q.kind
    BY <1>4, <2>1, AddedIs
  <2> QED BY <1>4, <2>2
<1> HIDE DEF g
<1>7. ActiveFits(u, Cur(g), id)
  BY <1>1, <1>2, <1>5, <1>6 DEF ActiveFits, ActiveSlots, EndedStays
<1>8. Pair(u, g).v = u /\ Pair(u, g).f = g
  BY DEF Pair
<1> QED BY <1>5, <1>6, <1>7, <1>8 DEF ActiveIs, OnIs, u, g, e, q

LEMMA ResumeSends ==
  ASSUME NEW v, NEW f, NEW id, NEW jd, NEW s \in Sids, v.on, ActiveIs(v, f, id),
         id.user \in Users, id.rev \in Nat, jd.user = id.user, jd.rev = id.rev,
         ~v.inFlight, ~v.moreInFlight, ~v.endInFlight, ~v.resInFlight
  PROVE  OnIs(Pair([v EXCEPT !.resInFlight = TRUE, !.isResuming = TRUE],
                   Drop(f, {"resume"}) \cup {Request(jd, "resume", 0, NoCursor, s)}), id)
<1> DEFINE u == [v EXCEPT !.resInFlight = TRUE, !.isResuming = TRUE]
           e == Drop(f, {"resume"})
           q == Request(jd, "resume", 0, NoCursor, s)
           g == e \cup {q}
<1>1. v \in ActiveTypes /\ ActiveFits(v, Cur(f), id) /\ InFlight(f, id, 0)
  BY DEF ActiveIs, ActiveFits
<1>2. InFlight(e, id, 0) /\ \A k : Waits(Cur(e), k) <=> Waits(Cur(f), k) /\ k \notin {"resume"}
  BY <1>1, DroppedIs
<1>3. s \in Nat
  BY OwnerAssumption
<1>4. q \in Requests /\ q.kind = "resume" /\ RequestFits(q, id, 0)
  BY <1>3, NoCursorIs, RequestIs DEF All, RequestFits, Refused, Lists
<1>5. /\ u \in ActiveTypes /\ u.on = v.on /\ u.resInFlight /\ u.isResuming
      /\ u.inFlight = v.inFlight /\ u.loading = v.loading
      /\ u.moreInFlight = v.moreInFlight /\ u.loadingMore = v.loadingMore
      /\ u.endInFlight = v.endInFlight /\ u.isEnding = v.isEnding
      /\ u.endPanel = v.endPanel /\ u.endIntent = v.endIntent
      /\ u.list = v.list /\ u.ended = v.ended /\ u.cursor = v.cursor
  BY <1>1 DEF ActiveTypes
<1> HIDE DEF u, e, q
<1>6. InFlight(g, id, 0) /\ \A k : Waits(Cur(g), k) <=> Waits(Cur(e), k) \/ k = "resume"
  <2>1. InFlight(e, id, 0) /\ ~Waits(Cur(e), q.kind) /\ (q.kind = "end" => q.sid \in Sids)
    BY <1>2, <1>4
  <2>2. InFlight(g, id, 0) /\ \A k : Waits(Cur(g), k) <=> Waits(Cur(e), k) \/ k = q.kind
    BY <1>4, <2>1, AddedIs
  <2> QED BY <1>4, <2>2
<1> HIDE DEF g
<1>7. ActiveFits(u, Cur(g), id)
  BY <1>1, <1>2, <1>5, <1>6 DEF ActiveFits, ActiveSlots, EndedStays
<1>8. Pair(u, g).v = u /\ Pair(u, g).f = g
  BY DEF Pair
<1> QED BY <1>5, <1>6, <1>7, <1>8 DEF ActiveIs, OnIs, u, g, e, q

\* Who owns a session that is listed is signed in.
LEMMA ListedOwned ==
  ASSUME IInv, shown = "active", NEW s \in a.list
  PROVE  s \in Sids /\ auth.user \in Users /\ auth.rev \in Nat
<1>1. a.list \subseteq Sids /\ Owner[s] = auth.user /\ auth.rev \in Nat
  BY ActiveHas DEF ActiveTypes, ActiveFits
<1> QED BY <1>1, OwnerAssumption

LEMMA ConfirmEndKeeps ==
  ASSUME IInv, shown = "active", UNCHANGED <<d, shown>>, NEW s \in Sids, ConfirmEnd(s)
  PROVE  IInv'
<1> DEFINE p == VoidLists(a, flight)
           t == Pair([p.v EXCEPT !.endInFlight = TRUE, !.isEnding = TRUE],
                     Drop(p.f, {"end"}) \cup {Request(a.endIntent, "end", 0, NoCursor, s)})
<1>1. /\ a.on /\ s = a.endPanel /\ s \in a.list /\ ~a.endInFlight /\ ~a.resInFlight
      /\ a.endIntent.sid = s /\ auth.user = a.endIntent.user /\ auth.rev = a.endIntent.rev
      /\ Take(t) /\ UNCHANGED <<server, page, conv>>
  BY DEF ConfirmEnd, EndPanel, Clickable, SameIdentity
<1>2. ActiveIs(a, flight, auth) /\ EnvTypes /\ auth.user \in Users /\ auth.rev \in Nat
  BY <1>1, ActiveHas, ListedOwned
<1>3. /\ OnIs(p, auth) /\ ~p.v.inFlight /\ ~p.v.moreInFlight
      /\ p.v.endInFlight = a.endInFlight /\ p.v.resInFlight = a.resInFlight
      /\ p.v.endPanel = a.endPanel /\ p.v.list = a.list /\ p.v.endIntent = a.endIntent
  BY <1>1, <1>2, VoidListsIs
<1> HIDE DEF p
<1>4. OnIs(t, auth)
  BY <1>1, <1>2, <1>3, EndSends DEF OnIs
<1> HIDE DEF t
<1>5. ActiveIs(a', flight', auth) /\ EnvTypes' /\ auth' = auth
  BY <1>1, <1>2, <1>4, TakeIs DEF EnvTypes, server, page
<1> QED BY <1>5, ActiveStep

LEMMA ConfirmResumeKeeps ==
  ASSUME IInv, shown = "active", UNCHANGED <<d, shown>>, NEW s \in Sids, ConfirmResume(s)
  PROVE  IInv'
<1> DEFINE p == VoidLists(a, flight)
           t == Pair([p.v EXCEPT !.resInFlight = TRUE, !.isResuming = TRUE],
                     Drop(p.f, {"resume"}) \cup {Request(a.resIntent, "resume", 0, NoCursor, s)})
<1>1. /\ a.on /\ s \in a.list /\ ~a.endInFlight /\ ~a.resInFlight
      /\ auth.user = a.resIntent.user /\ auth.rev = a.resIntent.rev
      /\ Take(t) /\ UNCHANGED <<server, page>> /\ conv' \in {"idle", "starting"}
  BY DEF ConfirmResume, ResumePanel, Clickable, SameIdentity
<1>2. ActiveIs(a, flight, auth) /\ EnvTypes /\ auth.user \in Users /\ auth.rev \in Nat
  BY <1>1, ActiveHas, ListedOwned
<1>3. /\ OnIs(p, auth) /\ ~p.v.inFlight /\ ~p.v.moreInFlight
      /\ p.v.endInFlight = a.endInFlight /\ p.v.resInFlight = a.resInFlight
  BY <1>1, <1>2, VoidListsIs
<1> HIDE DEF p
<1>4. OnIs(t, auth)
  BY <1>1, <1>2, <1>3, ResumeSends DEF OnIs
<1> HIDE DEF t
<1>5. ActiveIs(a', flight', auth) /\ EnvTypes' /\ auth' = auth
  BY <1>1, <1>2, <1>4, TakeIs DEF EnvTypes, server, page
<1> QED BY <1>5, ActiveStep

LEMMA SettleEndKeeps ==
  ASSUME IInv, shown = "active", UNCHANGED <<d, shown>>, NEW r \in flight, NEW ok \in BOOLEAN,
         SettleEnd(r, ok)
  PROVE  IInv'
<1>0. /\ a \in ActiveTypes /\ ActiveFits(a, Cur(flight), auth)
      /\ InFlight(flight, auth, 0) /\ EnvTypes
  BY ActiveHas
<1>1. flight' = flight \ {r} /\ UNCHANGED <<server, page, conv>> /\ r.kind = "end"
  BY DEF SettleEnd
<1>2. /\ InFlight(flight \ {r}, auth, 0)
      /\ \A k : Waits(Cur(flight \ {r}), k) <=> Waits(Cur(flight), k) /\ ~(r.cur /\ k = r.kind)
      /\ r.cur => Waits(Cur(flight), r.kind) /\ RequestFits(r, auth, 0)
  BY <1>0, AnsweredIs
<1>3. CASE ~r.cur
  <2>1. a' = a
    BY <1>3 DEF SettleEnd, Counts
  <2> QED BY <1>1, <1>3, <2>1, LateKeeps
<1>4. CASE r.cur
  <2>1. Counts(r) /\ r.sid \in Sids
    BY <1>0, <1>1, <1>2, <1>4 DEF Counts, RequestFits, InFlight
  <2>2. a.endInFlight /\ ~a.resInFlight /\ ~a.inFlight /\ ~a.moreInFlight /\ a.on
    <3>1. a.endInFlight
      BY <1>0, <1>1, <1>2, <1>4 DEF ActiveFits, ActiveSlots
    <3>2. a # Blank
      BY <3>1 DEF Blank
    <3> QED BY <1>0, <3>1, <3>2 DEF ActiveFits, EndedStays
  <2> DEFINE l == IF ok THEN [a EXCEPT !.ended = @ \cup {r.sid}, !.list = @ \ {r.sid},
                                       !.endIntent = NoIntent, !.endPanel = 0]
                  ELSE a
  <2>3. a' = [[l EXCEPT !.endInFlight = FALSE] EXCEPT !.isEnding = FALSE]
    BY <1>4, <2>1 DEF SettleEnd
  <2>4. NoIntent \in Intents /\ a.list \subseteq Sids /\ a.ended \subseteq Sids
    BY <1>0 DEF NoIntent, Intents, ActiveTypes
  <2>5. /\ l \in ActiveTypes /\ l.on = a.on /\ l.cursor = a.cursor
        /\ l.inFlight = a.inFlight /\ l.loading = a.loading
        /\ l.moreInFlight = a.moreInFlight /\ l.loadingMore = a.loadingMore
        /\ l.resInFlight = a.resInFlight /\ l.isResuming = a.isResuming
        /\ l.list = IF ok THEN a.list \ {r.sid} ELSE a.list
        /\ l.ended = IF ok THEN a.ended \cup {r.sid} ELSE a.ended
    <3>1. CASE ok
      <4>1. l = [a EXCEPT !.ended = a.ended \cup {r.sid}, !.list = a.list \ {r.sid},
                          !.endIntent = NoIntent, !.endPanel = 0]
        BY <1>0, <3>1 DEF ActiveTypes
      <4>2. a.ended \cup {r.sid} \in SUBSET Sids /\ a.list \ {r.sid} \in SUBSET Sids
        BY <2>1, <2>4
      <4> HIDE DEF l
      <4> QED BY <1>0, <2>4, <3>1, <4>1, <4>2 DEF ActiveTypes
    <3>2. CASE ~ok
      BY <1>0, <3>2
    <3> QED BY <3>1, <3>2
  <2> HIDE DEF l
  <2>6. /\ a' \in ActiveTypes /\ a'.on = l.on /\ a'.cursor = l.cursor
        /\ ~a'.endInFlight /\ ~a'.isEnding
        /\ a'.inFlight = l.inFlight /\ a'.loading = l.loading
        /\ a'.moreInFlight = l.moreInFlight /\ a'.loadingMore = l.loadingMore
        /\ a'.resInFlight = l.resInFlight /\ a'.isResuming = l.isResuming
        /\ a'.list = l.list /\ a'.ended = l.ended
    BY <2>3, <2>5 DEF ActiveTypes
  <2>7. ActiveSlots(a', Cur(flight'))
    BY <1>0, <1>1, <1>2, <1>4, <2>5, <2>6 DEF ActiveFits, ActiveSlots
  <2>8. a'.list \subseteq a.list /\ a'.list \cap a'.ended = {}
    BY <1>0, <2>5, <2>6 DEF ActiveFits, EndedStays
  <2>9. ActiveFits(a', Cur(flight'), auth)
    BY <1>0, <2>2, <2>5, <2>6, <2>7, <2>8 DEF ActiveFits, EndedStays
  <2> QED BY <1>0, <1>1, <1>2, <2>9, ActiveStep DEF ActiveIs, EnvTypes, server, page
<1> QED BY <1>3, <1>4

LEMMA SettleResumeKeeps ==
  ASSUME IInv, shown = "active", UNCHANGED <<d, shown>>, NEW r \in flight, NEW ok \in BOOLEAN,
         SettleResume(r, ok)
  PROVE  IInv'
<1>0. /\ a \in ActiveTypes /\ ActiveFits(a, Cur(flight), auth)
      /\ InFlight(flight, auth, 0) /\ EnvTypes
  BY ActiveHas
<1>1. flight' = flight \ {r} /\ UNCHANGED <<server, page, conv>> /\ r.kind = "resume"
  BY DEF SettleResume
<1>2. /\ InFlight(flight \ {r}, auth, 0)
      /\ \A k : Waits(Cur(flight \ {r}), k) <=> Waits(Cur(flight), k) /\ ~(r.cur /\ k = r.kind)
      /\ r.cur => Waits(Cur(flight), r.kind) /\ RequestFits(r, auth, 0)
  BY <1>0, AnsweredIs
<1>3. CASE ~r.cur
  <2>1. a' = a
    BY <1>3 DEF SettleResume, Counts
  <2> QED BY <1>1, <1>3, <2>1, LateKeeps
<1>4. CASE r.cur
  <2>1. Counts(r)
    BY <1>2, <1>4 DEF Counts, RequestFits
  <2>2. a.resInFlight /\ ~a.endInFlight /\ ~a.isEnding /\ ~a.inFlight /\ ~a.moreInFlight /\ a.on
    <3>1. a.resInFlight
      BY <1>0, <1>1, <1>2, <1>4 DEF ActiveFits, ActiveSlots
    <3>2. a # Blank
      BY <3>1 DEF Blank
    <3> QED BY <1>0, <3>1, <3>2 DEF ActiveFits, ActiveSlots, EndedStays
  <2> DEFINE l == IF ok THEN [a EXCEPT !.resIntent = NoIntent, !.resPanel = 0] ELSE a
  <2>3. a' = [[l EXCEPT !.resInFlight = FALSE] EXCEPT !.isResuming = FALSE]
    BY <1>4, <2>1 DEF SettleResume
  <2>4. NoIntent \in Intents
    BY DEF NoIntent, Intents
  <2>5. /\ l \in ActiveTypes /\ l.on = a.on /\ l.cursor = a.cursor
        /\ l.inFlight = a.inFlight /\ l.loading = a.loading
        /\ l.moreInFlight = a.moreInFlight /\ l.loadingMore = a.loadingMore
        /\ l.endInFlight = a.endInFlight /\ l.isEnding = a.isEnding
        /\ l.list = a.list /\ l.ended = a.ended
    <3>1. CASE ok
      BY <1>0, <2>4, <3>1 DEF ActiveTypes
    <3>2. CASE ~ok
      BY <1>0, <3>2
    <3> QED BY <3>1, <3>2
  <2> HIDE DEF l
  <2>6. /\ a' \in ActiveTypes /\ a'.on = l.on /\ a'.cursor = l.cursor
        /\ ~a'.resInFlight /\ ~a'.isResuming
        /\ a'.inFlight = l.inFlight /\ a'.loading = l.loading
        /\ a'.moreInFlight = l.moreInFlight /\ a'.loadingMore = l.loadingMore
        /\ a'.endInFlight = l.endInFlight /\ a'.isEnding = l.isEnding
        /\ a'.list = l.list /\ a'.ended = l.ended
    BY <2>3, <2>5 DEF ActiveTypes
  <2>7. ActiveSlots(a', Cur(flight'))
    BY <1>0, <1>1, <1>2, <1>4, <2>5, <2>6 DEF ActiveFits, ActiveSlots
  <2>8. ActiveFits(a', Cur(flight'), auth)
    BY <1>0, <2>2, <2>5, <2>6, <2>7 DEF ActiveFits, EndedStays
  <2> QED BY <1>0, <1>1, <1>2, <2>8, ActiveStep DEF ActiveIs, EnvTypes, server, page
<1> QED BY <1>3, <1>4

LEMMA StoreActsKeeps ==
  ASSUME IInv, shown = "active", UNCHANGED <<d, shown>>, StoreActs PROVE IInv'
<1>0. ActiveIs(a, flight, auth) /\ EnvTypes
  BY ActiveHas
<1>1. CASE StoreStarts \/ StoreEnds \/ StoreHome
  <2>1. UNCHANGED <<a, flight, auth>> /\ EnvTypes'
    BY <1>0, <1>1 DEF StoreStarts, StoreEnds, StoreHome, EnvTypes, server, page
  <2> QED BY <1>0, <2>1, ActiveStep
<1>2. CASE StoreCancels
  <2>1. a.on /\ Take(Release(Pair(a, flight))) /\ auth' = auth /\ EnvTypes'
    BY <1>0, <1>2 DEF StoreCancels, Clickable, EnvTypes, server, page
  <2>2. OnIs(Release(Pair(a, flight)), auth)
    BY <2>1, ActiveHas, ReleaseIs
  <2> QED BY <2>1, <2>2, TakeIs, ActiveStep
<1> QED BY <1>1, <1>2 DEF StoreActs

LEMMA ActiveServerKeeps ==
  ASSUME IInv, shown = "active", UNCHANGED <<d, shown, conv, a>>,
         ServeList("active") \/ ServeEnd \/ CommitEnd \/ Elsewhere
  PROVE  IInv'
<1>0. /\ ActiveIs(a, flight, auth) /\ EnvTypes /\ InFlight(flight, auth, 0)
      /\ ActiveFits(a, Cur(flight), auth) /\ flight \subseteq Requests
  BY ActiveHas DEF InFlight
<1>1. CASE ServeList("active")
  <2>1. PICK r \in flight :
          /\ r.kind \in {"first", "more"} /\ r.st = "sent" /\ r.cur
          /\ flight' = (flight \ {r}) \cup {Served(r, Page(r.user, "active", r.w, r.cursor))}
          /\ UNCHANGED <<server, page>>
    BY <1>1 DEF ServeList, Served
  <2> DEFINE q == Served(r, Page(r.user, "active", r.w, r.cursor))
             g == (flight \ {r}) \cup {q}
  <2>2. r \in Requests /\ RequestFits(r, auth, 0)
    BY <1>0, <2>1, AnsweredIs
  <2>3. q \in Requests /\ RequestFits(q, auth, 0) /\ q.kind = r.kind /\ q.cur
    BY <2>2, ServedIs
  <2>4. q.sid = r.sid
    BY <2>2 DEF Served, Requests
  <2> HIDE DEF q
  <2>5. InFlight(g, auth, 0) /\ \A k : Waits(Cur(g), k) <=> Waits(Cur(flight), k)
    <3>1. q.cur <=> r.cur
      BY <2>1, <2>3
    <3> QED BY <1>0, <2>3, <2>4, <3>1, ReplacedIs
  <2>6. flight' = g
    BY <2>1 DEF q
  <2> HIDE DEF g
  <2>7. ActiveFits(a, Cur(g), auth)
    BY <1>0, <2>5 DEF ActiveFits, ActiveSlots
  <2> QED BY <1>0, <2>1, <2>5, <2>6, <2>7, ActiveStep DEF ActiveIs, EnvTypes, server, page
<1>2. CASE ServeEnd
  <2>1. PICK r \in flight :
          /\ r.kind = "end" /\ r.st = "sent"
          /\ flight' = (flight \ {r}) \cup {[r EXCEPT !.st = "served"]}
          /\ ending' = IF status[r.sid] = "active" THEN ending \cup {r.sid} ELSE ending
          /\ UNCHANGED <<status, day, today, page>>
    BY <1>2 DEF ServeEnd
  <2> DEFINE q == [r EXCEPT !.st = "served"]
             g == (flight \ {r}) \cup {q}
  <2>2. r \in Requests /\ r.sid \in Sids /\ (r.cur => RequestFits(r, auth, 0))
    BY <1>0, <2>1, AnsweredIs DEF InFlight
  <2>3. /\ q \in Requests /\ q.kind = r.kind /\ q.cur = r.cur /\ q.sid = r.sid
        /\ q.user = r.user /\ q.rev = r.rev /\ q.w = r.w /\ q.cursor = r.cursor
    BY <2>2 DEF Requests
  <2> HIDE DEF q
  <2>4. r.cur => RequestFits(q, auth, 0)
    BY <2>1, <2>2, <2>3 DEF RequestFits, Refused, Lists
  <2>5. InFlight(g, auth, 0) /\ \A k : Waits(Cur(g), k) <=> Waits(Cur(flight), k)
    BY <1>0, <2>3, <2>4, ReplacedIs
  <2>6. flight' = g
    BY <2>1 DEF q
  <2> HIDE DEF g
  <2>7. ActiveFits(a, Cur(g), auth)
    BY <1>0, <2>5 DEF ActiveFits, ActiveSlots
  <2>8. EnvTypes'
    BY <1>0, <2>1, <2>2 DEF EnvTypes, page
  <2>9. a' = a /\ auth' = auth
    BY <2>1 DEF page
  <2> QED BY <2>5, <2>6, <2>7, <2>8, <2>9, ActiveStep DEF ActiveIs
<1>3. CASE CommitEnd \/ Elsewhere
  <2>1. UNCHANGED <<page, flight>> /\ EnvTypes'
    BY <1>0, <1>3 DEF CommitEnd, Elsewhere, Create, EndElsewhere, EnvTypes, page
  <2> QED BY <1>0, <2>1, ActiveStep DEF page
<1> QED BY <1>1, <1>2, <1>3

LEMMA SuspendedIs ==
  ASSUME NEW v, NEW f, NEW id, v.on, ActiveIs(v, f, id)
  PROVE  OnIs(Suspended(v, f), id)
<1> DEFINE p == VoidLists(v, f)
           u == [p.v EXCEPT !.cursor = NoCursor, !.base = {}]
<1>1. OnIs(p, id)
  BY VoidListsIs
<1> HIDE DEF p
<1>2. p.v \in ActiveTypes /\ ActiveFits(p.v, Cur(p.f), id) /\ InFlight(p.f, id, 0) /\ p.v.on
  BY <1>1 DEF OnIs, ActiveIs, ActiveFits
<1>3. /\ u \in ActiveTypes /\ u.on = p.v.on /\ u.cursor = NoCursor
      /\ u.inFlight = p.v.inFlight /\ u.loading = p.v.loading
      /\ u.moreInFlight = p.v.moreInFlight /\ u.loadingMore = p.v.loadingMore
      /\ u.endInFlight = p.v.endInFlight /\ u.isEnding = p.v.isEnding
      /\ u.resInFlight = p.v.resInFlight /\ u.isResuming = p.v.isResuming
      /\ u.endPanel = p.v.endPanel /\ u.endIntent = p.v.endIntent
      /\ u.list = p.v.list /\ u.ended = p.v.ended
  BY <1>2, NoCursorIs DEF ActiveTypes
<1> HIDE DEF u
<1>4. ActiveFits(u, Cur(p.f), id)
  BY <1>2, <1>3 DEF ActiveFits, ActiveSlots, EndedStays, CursorFits
<1>5. Pair(u, p.f).v = u /\ Pair(u, p.f).f = p.f
  BY DEF Pair
<1>6. OnIs(Pair(u, p.f), id)
  BY <1>2, <1>3, <1>4, <1>5 DEF OnIs, ActiveIs
<1>7. Suspended(v, f) = Release(Pair(u, p.f))
  BY DEF Suspended, p, u
<1> QED BY <1>6, <1>7, ReleaseIs

LEMMA ActiveLifecycleKeeps ==
  ASSUME IInv, shown = "active", UNCHANGED <<d, shown>>, ActiveLifecycle PROVE IInv'
<1>0. /\ ActiveIs(a, flight, auth) /\ EnvTypes /\ auth \in [user : Users \cup {None}, rev : Nat]
      /\ a.on /\ OnIs(Pair(a, flight), auth)
  BY ActiveHas DEF ActiveLifecycle
<1>1. OnIs(Fetch(Pair(a, flight), auth, TRUE, conv), auth)
  BY <1>0, FetchIs
<1>2. OnIs(Suspended(a, flight), auth)
  BY <1>0, SuspendedIs
<1>3. ActiveIs(a', flight', auth)
  BY <1>1, <1>2, TakeIs DEF ActiveLifecycle
<1>4. EnvTypes' /\ auth' = auth
  BY <1>0 DEF ActiveLifecycle, EnvTypes, server
<1> QED BY <1>3, <1>4, ActiveStep

\* All requests are given up: nothing of them is left for the next identity.
LEMMA DropAll ==
  ASSUME NEW f, NEW id, NEW w, InFlight(f, id, w), NEW jd, NEW x
  PROVE  InFlight(Drop(f, All), jd, x) /\ \A k : ~Waits(Cur(Drop(f, All)), k)
<1>1. /\ InFlight(Drop(f, All), id, w)
      /\ \A k : Waits(Cur(Drop(f, All)), k) <=> Waits(Cur(f), k) /\ k \notin All
  BY DroppedIs
<1>2. \A k : Waits(Cur(f), k) => k \in All
  BY DEF InFlight, Fit, Waits, Requests
<1>3. \A k : ~Waits(Cur(Drop(f, All)), k)
  BY <1>1, <1>2
<1> QED BY <1>1, <1>3, NothingCounts

LEMMA ActiveAuthKeeps ==
  ASSUME IInv, shown = "active", UNCHANGED <<d, shown>>, ActiveAuth PROVE IInv'
<1>0. /\ ActiveIs(a, flight, auth) /\ EnvTypes /\ InFlight(flight, auth, 0)
      /\ ActiveFits(a, Cur(flight), auth)
  BY ActiveHas
<1>1. PICK u \in Users \cup {None} :
        LET id == [user |-> u, rev |-> auth.rev + 1]
            c == IF u = auth.user THEN conv ELSE "idle"
        IN /\ auth' = id
           /\ IF a.on
                THEN Take(Fetch(Pair([Blank EXCEPT !.on = TRUE], Drop(flight, All)), id, shows, c))
                ELSE UNCHANGED <<a, flight>>
           /\ leaving' = (leaving \/ (a.on /\ u # auth.user))
           /\ conv' = IF c = "starting" THEN "idle" ELSE c
  BY DEF ActiveAuth
<1>2. UNCHANGED <<server, shows>>
  BY DEF ActiveAuth
<1> DEFINE id == [user |-> u, rev |-> auth.rev + 1]
           c == IF u = auth.user THEN conv ELSE "idle"
<1>3. auth.rev \in Nat /\ id \in [user : Users \cup {None}, rev : Nat] /\ auth' = id
  BY <1>0, <1>1 DEF EnvTypes
<1>4. EnvTypes'
  <2>1. conv' \in {"idle", "starting", "session"} /\ leaving' \in BOOLEAN
    BY <1>0, <1>1 DEF EnvTypes
  <2> QED BY <1>0, <1>2, <1>3, <2>1 DEF EnvTypes, server
<1>5. CASE a.on
  <2>1. Take(Fetch(Pair([Blank EXCEPT !.on = TRUE], Drop(flight, All)), id, shows, c))
    BY <1>1, <1>5
  <2>2. InFlight(Drop(flight, All), id, 0) /\ \A k : ~Waits(Cur(Drop(flight, All)), k)
    BY <1>0, DropAll
  <2> HIDE DEF id, c
  <2>3. OnIs(Pair([Blank EXCEPT !.on = TRUE], Drop(flight, All)), id)
    BY <2>2, BlankIs
  <2>4. OnIs(Fetch(Pair([Blank EXCEPT !.on = TRUE], Drop(flight, All)), id, shows, c), id)
    BY <1>3, <2>3, FetchIs
  <2>5. ActiveIs(a', flight', id)
    BY <2>1, <2>4, TakeIs
  <2> QED BY <1>3, <1>4, <2>5, ActiveStep
<1>6. CASE ~a.on
  <2>1. a' = Blank /\ a = Blank /\ flight' = flight
    BY <1>0, <1>1, <1>6 DEF ActiveFits
  <2>2. \A k : ~Waits(Cur(flight), k)
    <3>1. \A k : Waits(Cur(flight), k) => k \in All
      BY <1>0 DEF InFlight, Fit, Waits, Requests
    <3> QED BY <1>0, <2>1, <3>1 DEF ActiveFits, ActiveSlots, Blank, All
  <2> HIDE DEF id
  <2>3. InFlight(flight, id, 0)
    BY <1>0, <2>2, NothingCounts
  <2>4. ActiveIs(Blank, flight, id)
    BY <2>2, <2>3, BlankIs
  <2> QED BY <1>3, <1>4, <2>1, <2>4, ActiveStep
<1> QED BY <1>5, <1>6

\* Before the view is mounted, and after, nothing counts.
LEMMA AwayWaits ==
  ASSUME IInv, shown = "active", ~a.on
  PROVE  a = Blank /\ InFlight(flight, auth, 0) /\ \A k : ~Waits(Cur(flight), k)
<1>1. a = Blank /\ InFlight(flight, auth, 0) /\ ActiveFits(a, Cur(flight), auth)
  BY ActiveHas DEF ActiveFits
<1>2. \A k : Waits(Cur(flight), k) => k \in All
  BY <1>1 DEF InFlight, Fit, Waits, Requests
<1> QED BY <1>1, <1>2 DEF ActiveFits, ActiveSlots, Blank, All

LEMMA ActiveMountKeeps ==
  ASSUME IInv, shown = "active", UNCHANGED <<d, shown>>, ActiveMount PROVE IInv'
<1> DEFINE blank == [Blank EXCEPT !.on = TRUE]
           p == Pair(blank, flight)
           first == Fetch(p, auth, shows, conv)
           g == Drop(first.f, All)
           v == [first.v EXCEPT !.inFlight = FALSE]
           again == Fetch(Pair(v, g), auth, shows, conv)
<1>0. /\ ~a.on /\ auth.user # None /\ UNCHANGED <<server, page, conv>>
      /\ Take(first) \/ Take(again)
  BY DEF ActiveMount
<1>1. EnvTypes /\ auth \in [user : Users \cup {None}, rev : Nat]
  BY ActiveHas
<1>2. InFlight(flight, auth, 0) /\ \A k : ~Waits(Cur(flight), k)
  BY <1>0, AwayWaits
<1>3. OnIs(p, auth) /\ p.v = blank /\ p.f = flight
  BY <1>2, BlankIs DEF Pair
<1>4. OnIs(first, auth)
  BY <1>1, <1>3, FetchIs
<1>5. InFlight(g, auth, 0) /\ \A k : ~Waits(Cur(g), k)
  <2> HIDE DEF first
  <2> QED BY <1>4, DropAll DEF OnIs, ActiveIs
<1>6. OnIs(again, auth)
  <2>0. /\ blank.on /\ ~blank.endInFlight /\ ~blank.resInFlight /\ ~blank.inFlight
        /\ ~blank.isEnding /\ ~blank.isResuming /\ blank.list = {}
    BY DEF Blank
  <2>9. blank \in ActiveTypes
    BY <1>3 DEF OnIs, ActiveIs, ActiveFits
  <2> HIDE DEF blank
  <2>10. [blank EXCEPT !.inFlight = FALSE] = blank
    BY <2>0, <2>9 DEF ActiveTypes
  <2>1. CASE first = p
    <3>1. v = blank
      BY <1>3, <2>1, <2>10
    <3>2. OnIs(Pair(v, g), auth)
      <4> HIDE DEF v, g
      <4> QED BY <1>5, <3>1, BlankIs DEF blank
    <3> HIDE DEF v, g
    <3> QED BY <1>1, <3>2, FetchIs
  <2>2. CASE first # p
    <3> DEFINE sent == [blank EXCEPT !.moreInFlight = FALSE, !.loadingMore = FALSE,
                                     !.cursor = NoCursor, !.base = {},
                                     !.inFlight = TRUE, !.loading = TRUE, !.error = FALSE]
    <3>1. conv # "starting" /\ shows
          /\ first = Pair(sent, Drop(flight, {"first", "more"})
                                  \cup {Request(auth, "first", 0, NoCursor, 0)})
      BY <1>0, <1>3, <2>0, <2>2 DEF Fetch
    <3>2. first.v = sent
      <4> HIDE DEF sent, first
      <4> QED BY <3>1 DEF Pair
    <3>3. v = [sent EXCEPT !.inFlight = FALSE]
      BY <3>2
    <3>9. /\ sent \in ActiveTypes /\ sent.on = blank.on /\ sent.list = blank.list
          /\ sent.endInFlight = blank.endInFlight /\ sent.isEnding = blank.isEnding
          /\ sent.resInFlight = blank.resInFlight /\ sent.isResuming = blank.isResuming
      BY <2>9, NoCursorIs DEF ActiveTypes
    <3> HIDE DEF sent
    <3>10. /\ [sent EXCEPT !.inFlight = FALSE] \in ActiveTypes
           /\ [sent EXCEPT !.inFlight = FALSE].inFlight = FALSE
           /\ [sent EXCEPT !.inFlight = FALSE].on = sent.on
           /\ [sent EXCEPT !.inFlight = FALSE].list = sent.list
           /\ [sent EXCEPT !.inFlight = FALSE].endInFlight = sent.endInFlight
           /\ [sent EXCEPT !.inFlight = FALSE].isEnding = sent.isEnding
           /\ [sent EXCEPT !.inFlight = FALSE].resInFlight = sent.resInFlight
           /\ [sent EXCEPT !.inFlight = FALSE].isResuming = sent.isResuming
      BY <3>9 DEF ActiveTypes
    <3> HIDE DEF v
    <3>4. /\ v.on /\ ~v.endInFlight /\ ~v.isEnding /\ ~v.resInFlight /\ ~v.isResuming
          /\ ~v.inFlight /\ v.list = {}
      BY <2>0, <3>3, <3>9, <3>10
    <3>5. v \in ActiveTypes
      BY <3>3, <3>10
    <3> HIDE DEF g, first
    <3>6. again = Pair([v EXCEPT !.moreInFlight = FALSE, !.loadingMore = FALSE,
                                 !.cursor = NoCursor, !.base = {},
                                 !.inFlight = TRUE, !.loading = TRUE, !.error = FALSE],
                       Drop(g, {"first", "more"}) \cup {Request(auth, "first", 0, NoCursor, 0)})
      <4>1. Pair(v, g).v = v /\ Pair(v, g).f = g
        BY DEF Pair
      <4> QED BY <1>0, <3>1, <3>4, <4>1 DEF Fetch
    <3>7. auth.user \in Users /\ auth.rev \in Nat
      BY <1>0, <1>1
    <3>8. v.list \cap v.ended = {} /\ \A s \in v.list : Owner[s] = auth.user
      BY <3>4
    <3> HIDE DEF again
    <3> QED BY <1>5, <3>4, <3>5, <3>6, <3>7, <3>8, FetchSends
  <2> QED BY <2>1, <2>2
<1> HIDE DEF first, again
<1>7. ActiveIs(a', flight', auth)
  BY <1>0, <1>4, <1>6, TakeIs
<1> QED BY <1>0, <1>1, <1>7, ActiveStep DEF EnvTypes, server, page

LEMMA ActiveGoneKeeps ==
  ASSUME IInv, shown = "active", UNCHANGED <<d, shown>>, ActiveUnmount \/ ActiveAway PROVE IInv'
<1>0. EnvTypes /\ InFlight(flight, auth, 0)
  BY ActiveHas
<1>1. CASE ActiveUnmount
  <2>1. /\ a' = Blank /\ flight' = Drop(flight, All) /\ auth' = auth /\ EnvTypes'
    BY <1>0, <1>1 DEF ActiveUnmount, EnvTypes, server
  <2>2. InFlight(Drop(flight, All), auth, 0) /\ \A k : ~Waits(Cur(Drop(flight, All)), k)
    BY <1>0, DropAll
  <2>3. ActiveIs(Blank, Drop(flight, All), auth)
    BY <2>2, BlankIs
  <2> QED BY <2>1, <2>3, ActiveStep
<1>2. CASE ActiveAway
  <2>1. UNCHANGED <<a, flight, auth>> /\ EnvTypes'
    BY <1>0, <1>2 DEF ActiveAway, EnvTypes, server
  <2> QED BY <2>1, ActiveHas, ActiveStep
<1> QED BY <1>1, <1>2

LEMMA ActiveKeeps ==
  ASSUME IInv, shown = "active", UNCHANGED <<d, shown>>, ActiveNext PROVE IInv'
<1>1. CASE Click
  BY <1>1, RetryFetchKeeps, LoadMoreKeeps, ConfirmKeeps, ConfirmEndKeeps, ConfirmResumeKeeps,
     OwnerAssumption DEF Click
<1>2. CASE \E r \in flight : SettleActive(r)
  BY <1>2, SettleListKeeps, SettleEndKeeps, SettleResumeKeeps DEF SettleActive
<1>3. CASE StoreActs
  BY <1>3, StoreActsKeeps
<1>4. CASE (ServeList("active") \/ ServeEnd \/ CommitEnd \/ Elsewhere) /\ UNCHANGED <<conv, a>>
  BY <1>4, ActiveServerKeeps
<1>5. CASE ActiveLifecycle \/ ActiveAuth \/ ActiveMount \/ ActiveUnmount \/ ActiveAway
  BY <1>5, ActiveLifecycleKeeps, ActiveAuthKeeps, ActiveMountKeeps, ActiveGoneKeeps
<1> QED BY <1>1, <1>2, <1>3, <1>4, <1>5 DEF ActiveNext

-----------------------------------------------------------------------------
(* The daily list. *)

\* What a fetch finds, whatever is shown and whatever timer is set.
Ready(v, f, id, li) ==
  /\ v \in DailyTypes /\ v.on /\ InFlight(f, id, v.window)
  /\ DailySlots(v, Cur(f)) /\ DailyData(v, Cur(f), id) /\ DailyPhase(v, li)

\* All the list's requests are given up.
LEMMA VoidLeavesNothing ==
  ASSUME NEW f, NEW id, NEW w, InFlight(f, id, w), \A r \in Cur(f) : r.kind \in Lists,
         NEW jd, NEW x
  PROVE  Cur(Void(f, Lists)) = {} /\ InFlight(Void(f, Lists), jd, x)
<1>1. InFlight(Void(f, Lists), id, w) /\ Cur(Void(f, Lists)) = Without(Cur(f), Lists)
  BY VoidedIs
<1>2. Cur(Void(f, Lists)) = {}
  BY <1>1 DEF Without
<1>3. \A k : ~Waits(Cur(Void(f, Lists)), k)
  BY <1>2 DEF Waits
<1> QED BY <1>1, <1>2, <1>3, NothingCounts

\* With nothing in flight that counts, an empty list is any account's.
LEMMA ForgetIs ==
  ASSUME NEW v \in DailyTypes, NEW id, NEW li
  PROVE  LET u == Forget(v) IN
         /\ u \in DailyTypes /\ u.on = v.on /\ u.window = v.window /\ u.timer = v.timer
         /\ u.loading = v.loading /\ ~u.stats /\ ~u.inFlight
         /\ u.list = {} /\ u.base = {} /\ u.cursor = NoCursor
         /\ DailySlots(u, {}) /\ DailyData(u, {}, id) /\ DailyPhase(u, li)
<1> DEFINE u == Forget(v)
<1>1. {} \in SUBSET Sids
  OBVIOUS
<1>2. /\ u \in DailyTypes /\ u.on = v.on /\ u.window = v.window /\ u.timer = v.timer
      /\ u.loading = v.loading /\ ~u.stats /\ ~u.inFlight /\ ~u.moreInFlight /\ ~u.loadingMore
      /\ u.list = {} /\ u.base = {} /\ u.cursor = NoCursor
  BY <1>1, NoCursorIs DEF Forget, DailyTypes
<1> HIDE DEF u
<1>3. DailySlots(u, {}) /\ DailyData(u, {}, id) /\ DailyPhase(u, li)
  BY <1>2 DEF DailySlots, DailyData, DailyPhase, OfDay, CursorFits, Above, Waits
<1> QED BY <1>2, <1>3 DEF u

LEMMA SetWindowIs ==
  ASSUME NEW v, NEW f, NEW id, NEW li, Ready(v, f, id, li), today \in Nat \ {0}
  PROVE  LET w == SetWindow(v)
             g == IF v.window # today THEN Void(f, Lists) ELSE f
         IN Ready(w, g, id, li) /\ w.window = today /\ w.timer = today
<1> DEFINE u == Forget(v)
<1>0. v \in DailyTypes
  BY DEF Ready
<1>1. CASE v.window = today
  <2>1. SetWindow(v) = [v EXCEPT !.window = today, !.timer = today]
    BY <1>1 DEF SetWindow
  <2> DEFINE w == [v EXCEPT !.window = today, !.timer = today]
  <2>2. /\ w \in DailyTypes /\ w.on = v.on /\ w.window = today /\ w.timer = today
        /\ w.inFlight = v.inFlight /\ w.moreInFlight = v.moreInFlight
        /\ w.loadingMore = v.loadingMore /\ w.stats = v.stats /\ w.error = v.error
        /\ w.list = v.list /\ w.base = v.base /\ w.cursor = v.cursor
    BY <1>0 DEF DailyTypes
  <2> HIDE DEF w
  <2>3. DailySlots(w, Cur(f)) /\ DailyData(w, Cur(f), id) /\ DailyPhase(w, li)
    BY <1>1, <2>2 DEF Ready, DailySlots, DailyData, DailyPhase
  <2> QED BY <1>1, <2>1, <2>2, <2>3 DEF Ready, w
<1>2. CASE v.window # today
  <2>1. SetWindow(v) = [u EXCEPT !.window = today, !.timer = today]
    BY <1>2 DEF SetWindow
  <2> DEFINE w == [u EXCEPT !.window = today, !.timer = today]
             g == Void(f, Lists)
  <2>2. /\ u \in DailyTypes /\ u.on
        /\ DailySlots(u, {}) /\ DailyPhase(u, li) /\ u.list = {} /\ u.base = {} /\ u.cursor = NoCursor
    BY <1>0, ForgetIs DEF Ready
  <2>3. Cur(g) = {} /\ InFlight(g, id, today)
    BY VoidLeavesNothing DEF Ready, DailySlots
  <2> HIDE DEF u, g
  <2>4. /\ w \in DailyTypes /\ w.on = u.on /\ w.window = today /\ w.timer = today
        /\ w.inFlight = u.inFlight /\ w.moreInFlight = u.moreInFlight
        /\ w.loadingMore = u.loadingMore /\ w.stats = u.stats /\ w.error = u.error
        /\ w.list = u.list /\ w.base = u.base /\ w.cursor = u.cursor
    BY <2>2 DEF DailyTypes
  <2> HIDE DEF w
  <2>5. DailySlots(w, {}) /\ DailyData(w, {}, id) /\ DailyPhase(w, li)
    BY <2>2, <2>4 DEF DailySlots, DailyData, DailyPhase, OfDay, CursorFits, Above
  <2> QED BY <1>2, <2>1, <2>2, <2>3, <2>4, <2>5 DEF Ready, w, g, u
<1> QED BY <1>1, <1>2

\* A fetch supersedes what was under way.
LEMMA FetchDailySends ==
  ASSUME NEW w, NEW g, NEW id, NEW li, Ready(w, g, id, li), li, today \in Nat \ {0},
         w.window = today, w.timer = today, id.user \in Users, id.rev \in Nat
  PROVE  DailyIs([w EXCEPT !.inFlight = TRUE, !.loading = TRUE, !.error = FALSE,
                           !.moreInFlight = FALSE, !.loadingMore = FALSE],
                 Void(g, Lists) \cup {Request(id, "first", today, NoCursor, 0)}, id, li)
<1> DEFINE u == [w EXCEPT !.inFlight = TRUE, !.loading = TRUE, !.error = FALSE,
                          !.moreInFlight = FALSE, !.loadingMore = FALSE]
           e == Void(g, Lists)
           q == Request(id, "first", today, NoCursor, 0)
           h == e \cup {q}
<1>1. /\ u \in DailyTypes /\ u.on /\ u.inFlight /\ u.loading /\ ~u.moreInFlight /\ ~u.loadingMore
      /\ u.window = today /\ u.timer = today
      /\ u.list = w.list /\ u.base = w.base /\ u.cursor = w.cursor
  BY DEF Ready, DailyTypes
<1>2. Cur(e) = {} /\ InFlight(e, id, today)
  BY VoidLeavesNothing DEF Ready, DailySlots
<1>3. q \in Requests /\ q.kind = "first" /\ q.st = "sent" /\ RequestFits(q, id, today)
  BY NoCursorIs, RequestIs DEF All, RequestFits, Refused
<1> HIDE DEF u, e, q
<1>4. InFlight(h, id, today) /\ Cur(h) = Cur(e) \cup {q}
  <2>1. ~Waits(Cur(e), q.kind) /\ q.kind # "end"
    BY <1>2, <1>3 DEF Waits
  <2> QED BY <1>2, <1>3, <2>1, AddedIs
<1>5. Cur(h) = {q}
  BY <1>2, <1>4
<1> HIDE DEF h
<1>6. DailySlots(u, {q})
  BY <1>1, <1>3 DEF DailySlots, Waits, Lists
<1>7. DailyData(u, {q}, id)
  BY <1>1, <1>3 DEF DailyData, Ready
<1>8. DailyPhase(u, li) /\ DailyTimer(u, id) /\ DailyWhole(u, li)
  BY <1>1 DEF DailyPhase, DailyTimer, DailyWhole
<1> QED BY <1>1, <1>4, <1>5, <1>6, <1>7, <1>8 DEF DailyIs, DailyFits, u, h, e, q

LEMMA FetchDailyIs ==
  ASSUME NEW v, NEW f, NEW id \in [user : Users \cup {None}, rev : Nat], NEW li,
         Ready(v, f, id, li), today \in Nat \ {0}, v.window # 0 \/ id.user # None,
         FetchDaily(v, f, id, li)
  PROVE  d'.on /\ DailyIs(d', flight', id, li)
<1> DEFINE w == SetWindow(v)
           g == IF v.window # today THEN Void(f, Lists) ELSE f
<1>1. Ready(w, g, id, li) /\ w.window = today /\ w.timer = today
  BY SetWindowIs
<1>2. CASE id.user = None
  <2> DEFINE z == Forget(v)
             u == [z EXCEPT !.inFlight = v.inFlight, !.moreInFlight = v.moreInFlight,
                            !.loading = FALSE, !.timer = 0]
  <2>1. d' = u /\ flight' = f
    BY <1>2 DEF FetchDaily
  <2>2. Cur(f) = {} /\ ~v.inFlight /\ ~v.moreInFlight /\ v.inFlight \in BOOLEAN
        /\ v.moreInFlight \in BOOLEAN /\ v \in DailyTypes /\ v.on /\ v.window # 0
    <3>1. Cur(f) = {} /\ \A k : ~Waits(Cur(f), k)
      BY <1>2, NobodyWaits DEF Ready
    <3>2. v.loadingMore \in BOOLEAN /\ v.moreInFlight \in BOOLEAN /\ v.inFlight \in BOOLEAN
      BY DEF Ready, DailyTypes
    <3> QED BY <1>2, <3>1, <3>2 DEF Ready, DailySlots
  <2>3. /\ z \in DailyTypes /\ z.on = v.on /\ z.window = v.window /\ ~z.stats /\ ~z.inFlight
        /\ DailySlots(z, {}) /\ DailyData(z, {}, id) /\ DailyPhase(z, li)
    BY <2>2, ForgetIs
  <2> HIDE DEF z
  <2>4. /\ u \in DailyTypes /\ u.on = z.on /\ u.window = z.window /\ u.timer = 0
        /\ ~u.inFlight /\ ~u.moreInFlight /\ ~u.loading /\ u.loadingMore = z.loadingMore
        /\ u.stats = z.stats /\ u.error = z.error
        /\ u.list = z.list /\ u.base = z.base /\ u.cursor = z.cursor
    BY <2>2, <2>3 DEF DailyTypes
  <2> HIDE DEF u
  <2>5. DailySlots(u, {}) /\ DailyData(u, {}, id) /\ DailyPhase(u, li)
    BY <2>3, <2>4 DEF DailySlots, DailyData, DailyPhase, Waits
  <2>6. DailyTimer(u, id) /\ DailyWhole(u, li)
    BY <1>2, <2>2, <2>3, <2>4 DEF DailyTimer, DailyWhole
  <2>7. InFlight(f, id, u.window)
    BY <2>3, <2>4 DEF Ready
  <2> QED BY <2>1, <2>2, <2>3, <2>4, <2>5, <2>6, <2>7 DEF DailyIs, DailyFits
<1>3. CASE id.user # None /\ ~li
  <2> HIDE DEF w
  <2> DEFINE u == [w EXCEPT !.loading = FALSE]
  <2>1. d' = u /\ flight' = g
    BY <1>3 DEF FetchDaily, w
  <2> HIDE DEF g
  <2>2. w \in DailyTypes /\ w.on /\ ~w.inFlight /\ ~w.moreInFlight
    BY <1>1, <1>3 DEF Ready, DailyPhase
  <2>3. /\ u \in DailyTypes /\ u.on = w.on /\ u.window = today /\ u.timer = today
        /\ u.inFlight = w.inFlight /\ u.moreInFlight = w.moreInFlight /\ ~u.loading
        /\ u.loadingMore = w.loadingMore /\ u.stats = w.stats /\ u.error = w.error
        /\ u.list = w.list /\ u.base = w.base /\ u.cursor = w.cursor
    BY <1>1, <2>2 DEF DailyTypes
  <2> HIDE DEF u
  <2>4. DailySlots(u, Cur(g)) /\ DailyData(u, Cur(g), id) /\ DailyPhase(u, li)
    BY <1>1, <2>3 DEF Ready, DailySlots, DailyData, DailyPhase
  <2>5. DailyTimer(u, id) /\ DailyWhole(u, li)
    BY <1>3, <2>2, <2>3 DEF DailyTimer, DailyWhole
  <2>6. InFlight(g, id, u.window)
    BY <1>1, <2>3 DEF Ready
  <2> QED BY <2>1, <2>2, <2>3, <2>4, <2>5, <2>6 DEF DailyIs, DailyFits
<1>4. CASE id.user # None /\ li
  <2> DEFINE u == [w EXCEPT !.inFlight = TRUE, !.loading = TRUE, !.error = FALSE,
                            !.moreInFlight = FALSE, !.loadingMore = FALSE]
             h == Void(g, Lists) \cup {Request(id, "first", today, NoCursor, 0)}
  <2>1. d' = u /\ flight' = h
    BY <1>4 DEF FetchDaily
  <2> HIDE DEF w, g
  <2>2. DailyIs(u, h, id, li)
    BY <1>1, <1>4, FetchDailySends
  <2>3. u.on
    BY <1>1 DEF Ready, DailyTypes
  <2> QED BY <2>1, <2>2, <2>3
<1> QED BY <1>2, <1>3, <1>4

LEMMA DailyStep ==
  ASSUME IInv, shown = "daily", UNCHANGED <<conv, a, shown, status, day>>, EnvTypes',
         DailyIs(d', flight', auth', shows')
  PROVE  IInv'
<1>1. DailyIs(d, flight, auth, shows)'
  BY DEF DailyIs, DailyFits, DailyData, OfDay
<1> QED BY <1>1 DEF IInv

LEMMA DailyHas ==
  ASSUME IInv, shown = "daily"
  PROVE  /\ EnvTypes /\ DailyIs(d, flight, auth, shows) /\ InFlight(flight, auth, d.window)
         /\ d \in DailyTypes /\ DailyFits(d, Cur(flight), auth, shows)
         /\ d.on => Ready(d, flight, auth, shows) /\ d.window # 0
         /\ today \in Nat \ {0} /\ auth \in [user : Users \cup {None}, rev : Nat]
BY DEF IInv, DailyIs, DailyFits, DailyTimer, Ready, EnvTypes

LEMMA FetchedKeeps ==
  ASSUME IInv, shown = "daily", UNCHANGED <<conv, a, shown>>, UNCHANGED <<server, page>>,
         d.on, NEW timer \in Nat, FetchDaily([d EXCEPT !.timer = timer], flight, auth, shows)
  PROVE  IInv'
<1> DEFINE v == [d EXCEPT !.timer = timer]
<1>0. EnvTypes /\ d \in DailyTypes /\ Ready(d, flight, auth, shows) /\ d.window # 0
      /\ today \in Nat \ {0} /\ auth \in [user : Users \cup {None}, rev : Nat]
  BY DailyHas
<1>1. /\ v \in DailyTypes /\ v.on = d.on /\ v.window = d.window
      /\ v.inFlight = d.inFlight /\ v.moreInFlight = d.moreInFlight
      /\ v.loadingMore = d.loadingMore /\ v.stats = d.stats /\ v.error = d.error
      /\ v.list = d.list /\ v.base = d.base /\ v.cursor = d.cursor
  BY <1>0 DEF DailyTypes
<1> HIDE DEF v
<1>2. Ready(v, flight, auth, shows)
  BY <1>0, <1>1 DEF Ready, DailySlots, DailyData, DailyPhase
<1>3. DailyIs(d', flight', auth, shows)
  BY <1>0, <1>1, <1>2, FetchDailyIs DEF v
<1>4. EnvTypes' /\ auth' = auth /\ shows' = shows
  BY <1>0 DEF EnvTypes, server, page
<1> QED BY <1>3, <1>4, DailyStep DEF server

LEMMA RefetchKeeps ==
  ASSUME IInv, shown = "daily", UNCHANGED <<conv, a, shown>>, RetryDaily \/ Midnight
  PROVE  IInv'
<1>1. CASE Midnight
  BY <1>1, FetchedKeeps DEF Midnight
<1>2. CASE RetryDaily
  <2>1. d.timer \in Nat /\ d = [d EXCEPT !.timer = d.timer]
    BY DailyHas DEF DailyTypes
  <2>2. FetchDaily([d EXCEPT !.timer = d.timer], flight, auth, shows)
    BY <1>2, <2>1 DEF RetryDaily
  <2> QED BY <1>2, <2>1, <2>2, FetchedKeeps DEF RetryDaily
<1> QED BY <1>1, <1>2

LEMMA MoreDailyKeeps ==
  ASSUME IInv, shown = "daily", UNCHANGED <<conv, a, shown>>, MoreDaily PROVE IInv'
<1> DEFINE u == [d EXCEPT !.moreInFlight = TRUE, !.loadingMore = TRUE]
           e == Void(flight, {"more"})
           q == Request(auth, "more", d.window, d.cursor, 0)
           g == e \cup {q}
<1>0. /\ d.on /\ d.stats /\ ~d.error /\ ~d.inFlight /\ ~d.moreInFlight /\ d.cursor # NoCursor
      /\ auth.user # None /\ shows /\ d' = u /\ flight' = g /\ UNCHANGED <<server, page>>
  BY DEF MoreDaily, MoreDailyButton
<1>1. /\ EnvTypes /\ InFlight(flight, auth, d.window) /\ d \in DailyTypes
      /\ DailyFits(d, Cur(flight), auth, shows) /\ auth.user \in Users /\ auth.rev \in Nat
  BY <1>0, DailyHas
<1>2. /\ u \in DailyTypes /\ u.on = d.on /\ u.moreInFlight /\ u.loadingMore
      /\ u.inFlight = d.inFlight /\ u.loading = d.loading /\ u.stats = d.stats
      /\ u.error = d.error /\ u.window = d.window /\ u.timer = d.timer
      /\ u.list = d.list /\ u.base = d.base /\ u.cursor = d.cursor
  BY <1>1 DEF DailyTypes
<1>3. InFlight(e, auth, d.window) /\ Cur(e) = Without(Cur(flight), {"more"})
  BY <1>1, VoidedIs
<1>4. Cur(e) = {}
  <2>1. \A r \in Cur(flight) : r.kind = "more"
    BY <1>0, <1>1 DEF DailyFits, DailySlots, Waits, Lists
  <2> QED BY <1>3, <2>1 DEF Without
<1>5. q \in Requests /\ q.kind = "more" /\ q.st = "sent" /\ q.cursor = d.cursor
      /\ RequestFits(q, auth, d.window)
  <2>1. d.window \in Nat /\ d.cursor \in Cursors /\ CursorFits(d.cursor, auth.user, d.window)
    BY <1>1 DEF DailyTypes, DailyFits, DailyData
  <2> QED BY <1>1, <2>1, RequestIs DEF All, RequestFits, Refused, CursorFits
<1> HIDE DEF u, e, q
<1>6. InFlight(g, auth, d.window) /\ Cur(g) = {q}
  <2>1. ~Waits(Cur(e), q.kind) /\ q.kind # "end"
    BY <1>4, <1>5 DEF Waits
  <2>2. InFlight(g, auth, d.window) /\ Cur(g) = Cur(e) \cup {q}
    BY <1>3, <1>5, <2>1, AddedIs
  <2> QED BY <1>4, <2>2
<1> HIDE DEF g
<1>7. DailySlots(u, {q})
  BY <1>0, <1>2, <1>5 DEF DailySlots, Waits, Lists
<1>8. DailyData(u, {q}, auth)
  BY <1>0, <1>1, <1>2, <1>5 DEF DailyFits, DailyData
<1>9. DailyPhase(u, shows) /\ DailyTimer(u, auth) /\ DailyWhole(u, shows)
  BY <1>0, <1>1, <1>2 DEF DailyFits, DailyPhase, DailyTimer, DailyWhole
<1>10. DailyIs(u, g, auth, shows)
  BY <1>0, <1>2, <1>6, <1>7, <1>8, <1>9 DEF DailyIs, DailyFits
<1>11. EnvTypes' /\ auth' = auth /\ shows' = shows
  BY <1>0, <1>1 DEF EnvTypes, server, page
<1> QED BY <1>0, <1>10, <1>11, DailyStep DEF server

\* An answer nobody waits for.
LEMMA LateDailyKeeps ==
  ASSUME IInv, shown = "daily", UNCHANGED <<conv, a, shown, server, page, d>>,
         NEW r \in flight, ~r.cur, flight' = flight \ {r}
  PROVE  IInv'
<1>1. InFlight(flight \ {r}, auth, d.window) /\ Cur(flight \ {r}) = Cur(flight)
  BY DailyHas, AnsweredIs
<1>2. DailyIs(d, flight \ {r}, auth, shows)
  BY <1>1, DailyHas DEF DailyIs
<1> QED BY <1>2, DailyHas, DailyStep DEF EnvTypes, server, page

\* What the answer that counts finds.
LEMMA DailyAnswered ==
  ASSUME IInv, shown = "daily", NEW r \in flight, r.cur
  PROVE  /\ InFlight(flight \ {r}, auth, d.window) /\ Cur(flight \ {r}) = {} /\ d.on /\ Counts(r)
         /\ r \in Requests /\ RequestFits(r, auth, d.window)
         /\ r.kind = "first" => d.inFlight /\ ~d.moreInFlight
         /\ r.kind = "more" => d.moreInFlight /\ ~d.inFlight
         /\ r \in Cur(flight)
<1>0. InFlight(flight, auth, d.window) /\ d \in DailyTypes /\ DailyFits(d, Cur(flight), auth, shows)
  BY DailyHas
<1>1. /\ InFlight(flight \ {r}, auth, d.window) /\ Cur(flight \ {r}) = Cur(flight) \ {r}
      /\ \A k : Waits(Cur(flight \ {r}), k) <=> Waits(Cur(flight), k) /\ k # r.kind
      /\ Waits(Cur(flight), r.kind) /\ RequestFits(r, auth, d.window)
  BY <1>0, AnsweredIs
<1>2. r \in Cur(flight) /\ r \in Requests
  BY <1>0 DEF Cur, InFlight
<1>3. r.kind \in Lists /\ \A q \in Cur(flight) : q.kind \in Lists
  BY <1>0, <1>2 DEF DailyFits, DailySlots
<1>4. /\ r.kind = "first" => d.inFlight /\ ~d.moreInFlight
      /\ r.kind = "more" => d.moreInFlight /\ ~d.inFlight
  BY <1>0, <1>1 DEF DailyFits, DailySlots, DailyPhase
<1>5. Cur(flight \ {r}) = {}
  <2>1. \A k : ~Waits(Cur(flight \ {r}), k)
    <3>1. \A k : Waits(Cur(flight), k) => k \in Lists
      BY <1>3 DEF Waits
    <3>2. /\ Waits(Cur(flight), "first") <=> d.inFlight
          /\ Waits(Cur(flight), "more") <=> d.moreInFlight
      BY <1>0 DEF DailyFits, DailySlots
    <3> QED BY <1>1, <1>3, <1>4, <3>1, <3>2 DEF Lists
  <2> QED BY <2>1 DEF Waits
<1>6. d.on
  <2>1. d # Idle
    BY <1>3, <1>4 DEF Idle, Lists
  <2> QED BY <1>0, <2>1 DEF DailyFits
<1> QED BY <1>1, <1>2, <1>4, <1>5, <1>6 DEF Counts, RequestFits

LEMMA SettleFirstDailyKeeps ==
  ASSUME IInv, shown = "daily", UNCHANGED <<conv, a, shown>>, NEW r \in flight,
         NEW ok \in BOOLEAN, SettleFirstDaily(r, ok)
  PROVE  IInv'
<1>0. flight' = flight \ {r} /\ UNCHANGED <<server, page>> /\ r.kind = "first"
      /\ (ok => r.st = "served")
  BY DEF SettleFirstDaily
<1>1. EnvTypes /\ d \in DailyTypes /\ DailyFits(d, Cur(flight), auth, shows)
  BY DailyHas
<1>2. CASE ~r.cur
  <2>1. d' = d
    BY <1>2 DEF SettleFirstDaily, Counts
  <2> QED BY <1>0, <1>2, <2>1, LateDailyKeeps
<1>3. CASE r.cur
  <2>1. /\ InFlight(flight \ {r}, auth, d.window) /\ Cur(flight \ {r}) = {} /\ d.on /\ Counts(r)
        /\ r \in Requests /\ RequestFits(r, auth, d.window) /\ ~d.moreInFlight
        /\ r \in Cur(flight)
    BY <1>0, <1>3, DailyAnswered
  <2> DEFINE l == IF ok THEN [d EXCEPT !.list = r.items, !.base = r.base, !.cursor = r.next,
                                       !.stats = TRUE, !.error = FALSE]
                  ELSE [d EXCEPT !.error = TRUE]
  <2>2. d' = [[l EXCEPT !.inFlight = FALSE] EXCEPT !.loading = FALSE]
    BY <1>3, <2>1 DEF SettleFirstDaily
  <2>3. r.items \in SUBSET Sids /\ r.base \in SUBSET Sids /\ r.next \in Cursors
    BY <2>1 DEF Requests
  <2>4. /\ l \in DailyTypes /\ l.on = d.on /\ l.window = d.window /\ l.timer = d.timer
        /\ l.moreInFlight = d.moreInFlight /\ l.loadingMore = d.loadingMore
        /\ l.list = (IF ok THEN r.items ELSE d.list) /\ l.base = (IF ok THEN r.base ELSE d.base)
        /\ l.cursor = (IF ok THEN r.next ELSE d.cursor) /\ (~ok => l.error)
    <3>1. CASE ok
      BY <1>1, <2>3, <3>1 DEF DailyTypes
    <3>2. CASE ~ok
      BY <1>1, <3>2 DEF DailyTypes
    <3> QED BY <3>1, <3>2
  <2> HIDE DEF l
  <2>5. /\ d' \in DailyTypes /\ d'.on = d.on /\ d'.window = d.window /\ d'.timer = d.timer
        /\ ~d'.inFlight /\ ~d'.loading
        /\ d'.moreInFlight = d.moreInFlight /\ d'.loadingMore = d.loadingMore
        /\ d'.list = l.list /\ d'.base = l.base /\ d'.cursor = l.cursor /\ d'.error = l.error
    BY <2>2, <2>4 DEF DailyTypes
  <2>6. ok => /\ OfDay(r.items, auth.user, d.window) /\ OfDay(r.base, auth.user, d.window)
              /\ CursorFits(r.next, auth.user, d.window)
              /\ Ahead(r.base \ r.items, r.next) /\ Above(r.items, r.next)
    <3>1. ASSUME ok PROVE PageFits(r) /\ r.user = auth.user /\ r.w = d.window /\ r.cursor = NoCursor
      BY <1>0, <2>1, <3>1 DEF RequestFits, Lists
    <3>2. ASSUME ok PROVE OfDay(r.base, auth.user, d.window)
      BY <1>0, <1>1, <2>1, <3>2 DEF DailyFits, DailyData
    <3> QED BY <3>1, <3>2 DEF PageFits, OfDay, CursorFits, Ahead
  <2>7. DailySlots(d', {})
    BY <1>1, <2>1, <2>5 DEF DailyFits, DailySlots, Waits
  <2>8. DailyData(d', {}, auth)
    BY <1>1, <2>4, <2>5, <2>6 DEF DailyFits, DailyData
  <2>9. DailyPhase(d', shows) /\ DailyTimer(d', auth)
    BY <1>1, <2>1, <2>5 DEF DailyFits, DailyPhase, DailyTimer
  <2>10. DailyWhole(d', shows)
    BY <2>4, <2>5, <2>6 DEF DailyWhole
  <2>11. DailyIs(d', flight', auth, shows)
    BY <1>0, <2>1, <2>5, <2>7, <2>8, <2>9, <2>10 DEF DailyIs, DailyFits
  <2>12. EnvTypes' /\ auth' = auth /\ shows' = shows
    BY <1>0, <1>1 DEF EnvTypes, server, page
  <2> QED BY <1>0, <2>11, <2>12, DailyStep DEF server
<1> QED BY <1>2, <1>3

LEMMA SettleMoreDailyKeeps ==
  ASSUME IInv, shown = "daily", UNCHANGED <<conv, a, shown>>, NEW r \in flight,
         NEW ok \in BOOLEAN, SettleMoreDaily(r, ok)
  PROVE  IInv'
<1>0. flight' = flight \ {r} /\ UNCHANGED <<server, page>> /\ r.kind = "more"
      /\ (ok => r.st = "served")
  BY DEF SettleMoreDaily
<1>1. EnvTypes /\ d \in DailyTypes /\ DailyFits(d, Cur(flight), auth, shows)
  BY DailyHas
<1>2. CASE ~r.cur
  <2>1. d' = d
    BY <1>2 DEF SettleMoreDaily, Counts
  <2> QED BY <1>0, <1>2, <2>1, LateDailyKeeps
<1>3. CASE r.cur
  <2>1. /\ InFlight(flight \ {r}, auth, d.window) /\ Cur(flight \ {r}) = {} /\ d.on /\ Counts(r)
        /\ r \in Requests /\ RequestFits(r, auth, d.window) /\ d.moreInFlight /\ ~d.inFlight
        /\ r \in Cur(flight)
    BY <1>0, <1>3, DailyAnswered
  <2> DEFINE l == IF ok THEN [d EXCEPT !.list = @ \cup r.items, !.cursor = r.next] ELSE d
             list == IF ok THEN d.list \cup r.items ELSE d.list
  <2>2. d' = [[l EXCEPT !.moreInFlight = FALSE] EXCEPT !.loadingMore = FALSE]
    BY <1>3, <2>1 DEF SettleMoreDaily
  <2>3. list \in SUBSET Sids /\ r.next \in Cursors
    BY <1>1, <2>1 DEF Requests, DailyTypes
  <2>4. /\ l \in DailyTypes /\ l.on = d.on /\ l.window = d.window /\ l.timer = d.timer
        /\ l.inFlight = d.inFlight /\ l.loading = d.loading /\ l.error = d.error
        /\ l.stats = d.stats /\ l.list = list /\ l.base = d.base
        /\ l.cursor = (IF ok THEN r.next ELSE d.cursor)
    <3>1. CASE ok
      <4>1. l = [d EXCEPT !.list = list, !.cursor = r.next]
        BY <1>1, <3>1 DEF DailyTypes
      <4> HIDE DEF l, list
      <4> QED BY <1>1, <2>3, <3>1, <4>1 DEF DailyTypes
    <3>2. CASE ~ok
      BY <1>1, <3>2
    <3> QED BY <3>1, <3>2
  <2> HIDE DEF l
  <2>5. /\ d' \in DailyTypes /\ d'.on = d.on /\ d'.window = d.window /\ d'.timer = d.timer
        /\ d'.inFlight = d.inFlight /\ d'.loading = d.loading
        /\ ~d'.moreInFlight /\ ~d'.loadingMore
        /\ d'.list = list /\ d'.base = d.base /\ d'.cursor = l.cursor /\ d'.error = d.error
    BY <2>2, <2>4 DEF DailyTypes
  <2>6. ok => /\ OfDay(list, auth.user, d.window) /\ CursorFits(r.next, auth.user, d.window)
              /\ \A s \in d.base \ list : s < d.cursor.at => r.next # NoCursor /\ s < r.next.at
              /\ Above(list, r.next)
    <3>1. ASSUME ok
          PROVE  /\ PageFits(r) /\ r.user = auth.user /\ r.w = d.window
                 /\ r.cursor = d.cursor /\ d.base \subseteq r.base
                 /\ OfDay(r.base, auth.user, d.window) /\ OfDay(d.list, auth.user, d.window)
      BY <1>0, <1>1, <2>1, <3>1 DEF RequestFits, Lists, DailyFits, DailyData
    <3>2. ASSUME ok PROVE OfDay(list, auth.user, d.window)
      BY <3>1, <3>2 DEF PageFits, OfDay
    <3>3. ASSUME ok, NEW s \in d.base \ list PROVE s \in r.base \ r.items
      BY <3>1, <3>3
    <3>4. ASSUME ok, r.next # NoCursor, NEW s \in list PROVE r.next.at <= s
      <4>1. /\ \A t \in r.items : r.next.at <= t
            /\ r.next.at < d.cursor.at /\ r.cursor = d.cursor /\ d.cursor # NoCursor
            /\ \A t \in d.list : d.cursor.at <= t
        BY <1>0, <1>1, <2>1, <3>1, <3>4 DEF PageFits, Above, DailyFits, DailyData
      <4>2. s \in Nat /\ r.next.at \in Nat /\ d.cursor.at \in Nat
        BY <1>1, <2>3, OwnerAssumption DEF Cursors, DailyTypes
      <4> QED BY <3>4, <4>1, <4>2
    <3> HIDE DEF list
    <3> QED BY <3>1, <3>2, <3>3, <3>4 DEF PageFits, CursorFits, Above
  <2>7. /\ d.stats /\ ~d.error /\ shows /\ d.on
        /\ \A s \in d.base \ d.list : d.cursor # NoCursor /\ s < d.cursor.at
    BY <1>1, <2>1 DEF DailyFits, DailyPhase, DailyWhole, Ahead
  <2>8. DailySlots(d', {})
    BY <2>1, <2>5 DEF DailySlots, Waits
  <2>9. DailyData(d', {}, auth)
    BY <1>1, <2>4, <2>5, <2>6 DEF DailyFits, DailyData
  <2>10. DailyPhase(d', shows) /\ DailyTimer(d', auth)
    BY <1>1, <2>1, <2>5 DEF DailyFits, DailyPhase, DailyTimer
  <2>11. DailyWhole(d', shows)
    <3>1. d.list \subseteq list /\ (~ok => list = d.list)
      OBVIOUS
    <3> HIDE DEF list
    <3> QED BY <2>4, <2>5, <2>6, <2>7, <3>1 DEF DailyWhole, Ahead
  <2>12. DailyIs(d', flight', auth, shows)
    BY <1>0, <2>1, <2>5, <2>8, <2>9, <2>10, <2>11 DEF DailyIs, DailyFits
  <2>13. EnvTypes' /\ auth' = auth /\ shows' = shows
    BY <1>0, <1>1 DEF EnvTypes, server, page
  <2> QED BY <1>0, <2>12, <2>13, DailyStep DEF server
<1> QED BY <1>2, <1>3

LEMMA IdleIs ==
  ASSUME NEW f, NEW id, InFlight(f, id, 0), Cur(f) = {}, NEW li
  PROVE  /\ DailyIs(Idle, f, id, li)
         /\ \A w \in Nat : Ready([Idle EXCEPT !.on = TRUE, !.window = w], f, id, li)
<1>0. {} \in SUBSET Sids
  OBVIOUS
<1>1. Idle \in DailyTypes
  BY <1>0, NoCursorIs DEF Idle, DailyTypes
<1>2. /\ ~Idle.on /\ Idle.window = 0 /\ Idle.timer = 0 /\ ~Idle.inFlight /\ ~Idle.moreInFlight
      /\ ~Idle.loadingMore /\ ~Idle.stats /\ Idle.list = {} /\ Idle.base = {}
      /\ Idle.cursor = NoCursor
  BY DEF Idle
<1>3. DailyIs(Idle, f, id, li)
  BY <1>1, <1>2 DEF DailyIs, DailyFits, DailySlots, DailyData, DailyPhase, DailyTimer, DailyWhole,
     OfDay, CursorFits, Above, Waits
<1>4. ASSUME NEW w \in Nat PROVE Ready([Idle EXCEPT !.on = TRUE, !.window = w], f, id, li)
  <2> DEFINE u == [Idle EXCEPT !.on = TRUE, !.window = w]
  <2>1. /\ u \in DailyTypes /\ u.on /\ u.window = w /\ u.inFlight = Idle.inFlight
        /\ u.moreInFlight = Idle.moreInFlight /\ u.loadingMore = Idle.loadingMore
        /\ u.stats = Idle.stats /\ u.list = Idle.list /\ u.base = Idle.base
        /\ u.cursor = Idle.cursor
    BY <1>1 DEF DailyTypes
  <2> HIDE DEF u
  <2>2. DailySlots(u, {}) /\ DailyData(u, {}, id) /\ DailyPhase(u, li)
    BY <1>2, <2>1 DEF DailySlots, DailyData, DailyPhase, OfDay, CursorFits, Above, Waits
  <2>3. InFlight(f, id, w)
    BY NothingCounts DEF Waits
  <2> QED BY <2>1, <2>2, <2>3 DEF Ready, u
<1> QED BY <1>3, <1>4

\* Before the view is mounted, and after, nothing counts, whoever signs in.
LEMMA DailyAwayWaits ==
  ASSUME IInv, shown = "daily", ~d.on, NEW id
  PROVE  d = Idle /\ Cur(flight) = {} /\ InFlight(flight, id, 0)
<1>1. /\ d = Idle /\ InFlight(flight, auth, d.window) /\ DailyFits(d, Cur(flight), auth, shows)
  BY DailyHas DEF DailyFits
<1>2. Cur(flight) = {}
  <2>1. ~d.inFlight /\ ~d.moreInFlight
    BY <1>1 DEF Idle
  <2> QED BY <1>1, <2>1 DEF DailyFits, DailySlots, Waits, Lists
<1>3. \A k : ~Waits(Cur(flight), k)
  BY <1>2 DEF Waits
<1> QED BY <1>1, <1>2, <1>3, NothingCounts

LEMMA DailyLifecycleKeeps ==
  ASSUME IInv, shown = "daily", UNCHANGED <<conv, a, shown>>, DailyLifecycle PROVE IInv'
<1>0. /\ EnvTypes /\ d.on /\ Ready(d, flight, auth, shows) /\ d.window # 0 /\ today \in Nat \ {0}
      /\ auth \in [user : Users \cup {None}, rev : Nat]
      /\ d \in DailyTypes /\ DailyFits(d, Cur(flight), auth, shows)
  BY DailyHas DEF DailyLifecycle
<1>1. UNCHANGED <<server, auth, leaving>>
  BY DEF DailyLifecycle
<1>2. CASE shows' = TRUE /\ FetchDaily(d, flight, auth, TRUE)
  <2>1. Ready(d, flight, auth, TRUE)
    BY <1>0 DEF Ready, DailyPhase
  <2>2. DailyIs(d', flight', auth, TRUE)
    BY <1>0, <1>2, <2>1, FetchDailyIs
  <2>3. EnvTypes'
    BY <1>0, <1>1, <1>2 DEF EnvTypes, server
  <2> QED BY <1>1, <1>2, <2>2, <2>3, DailyStep DEF server
<1>3. CASE shows' = FALSE /\ d' = GiveUp(d) /\ flight' = Void(flight, Lists)
  <2> DEFINE u == GiveUp(d)
             g == Void(flight, Lists)
  <2>1. Cur(g) = {} /\ InFlight(g, auth, d.window)
    BY <1>0, VoidLeavesNothing DEF Ready, DailySlots
  <2>2. d.inFlight <=> d.loading
    BY <1>0 DEF DailyFits, DailyTimer
  <2>3. /\ u \in DailyTypes /\ u.on = d.on /\ u.window = d.window /\ u.timer = d.timer
        /\ ~u.inFlight /\ ~u.moreInFlight /\ ~u.loadingMore /\ ~u.loading
        /\ u.list = d.list /\ u.base = d.base /\ u.cursor = NoCursor
    BY <1>0, <2>2, NoCursorIs DEF GiveUp, DailyTypes
  <2> HIDE DEF u, g
  <2>4. DailySlots(u, {}) /\ DailyData(u, {}, auth)
    BY <1>0, <2>3 DEF DailyFits, DailySlots, DailyData, CursorFits, Above, Waits
  <2>5. DailyPhase(u, FALSE) /\ DailyTimer(u, auth) /\ DailyWhole(u, FALSE)
    BY <1>0, <2>3 DEF DailyFits, DailyPhase, DailyTimer, DailyWhole
  <2>6. DailyIs(u, g, auth, FALSE)
    BY <1>0, <2>1, <2>3, <2>4, <2>5 DEF DailyIs, DailyFits
  <2>7. d' = u /\ flight' = g
    BY <1>3 DEF u, g
  <2>8. EnvTypes'
    BY <1>0, <1>1, <1>3 DEF EnvTypes, server
  <2> QED BY <1>1, <1>3, <2>6, <2>7, <2>8, DailyStep DEF server
<1> QED BY <1>2, <1>3 DEF DailyLifecycle

LEMMA DailyAuthKeeps ==
  ASSUME IInv, shown = "daily", UNCHANGED <<conv, a, shown>>, DailyAuth PROVE IInv'
<1>0. /\ EnvTypes /\ d \in DailyTypes /\ DailyFits(d, Cur(flight), auth, shows)
      /\ InFlight(flight, auth, d.window) /\ today \in Nat \ {0}
      /\ (d.on => Ready(d, flight, auth, shows) /\ d.window # 0)
  BY DailyHas
<1>1. PICK u \in Users \cup {None} :
        LET id == [user |-> u, rev |-> auth.rev + 1]
            v == [Forget(d) EXCEPT !.loading = FALSE]
        IN /\ auth' = id
           /\ leaving' = (leaving \/ (d.on /\ u # auth.user))
           /\ IF ~d.on THEN UNCHANGED <<d, flight>>
              ELSE IF u = None THEN d' = [v EXCEPT !.timer = 0] /\ flight' = Void(flight, Lists)
              ELSE FetchDaily(v, Void(flight, Lists), id, shows)
  BY DEF DailyAuth
<1>2. UNCHANGED <<server, shows>>
  BY DEF DailyAuth
<1> DEFINE id == [user |-> u, rev |-> auth.rev + 1]
           z == Forget(d)
           v == [z EXCEPT !.loading = FALSE]
           g == Void(flight, Lists)
<1>3. auth.rev \in Nat /\ id \in [user : Users \cup {None}, rev : Nat] /\ auth' = id /\ id.user = u
  BY <1>0, <1>1 DEF EnvTypes
<1>4. EnvTypes'
  <2>1. leaving' \in BOOLEAN
    BY <1>0, <1>1 DEF EnvTypes
  <2> QED BY <1>0, <1>2, <1>3, <2>1 DEF EnvTypes, server
<1>5. CASE ~d.on
  <2>1. UNCHANGED <<d, flight>>
    BY <1>1, <1>5
  <2> HIDE DEF id
  <2>2. DailyIs(Idle, flight, id, shows) /\ d = Idle
    BY <1>5, DailyAwayWaits, IdleIs
  <2> QED BY <1>2, <1>3, <1>4, <2>1, <2>2, DailyStep DEF server
<1>6. CASE d.on
  <2>1. Cur(g) = {} /\ InFlight(g, id, d.window)
    <3> HIDE DEF id
    <3> QED BY <1>0, <1>6, VoidLeavesNothing DEF Ready, DailySlots
  <2>2. /\ z \in DailyTypes /\ z.on = d.on /\ z.window = d.window /\ z.timer = d.timer
        /\ z.loading = d.loading /\ ~z.stats /\ ~z.inFlight
        /\ DailySlots(z, {}) /\ DailyData(z, {}, id) /\ DailyPhase(z, shows)
    <3> HIDE DEF id
    <3> QED BY <1>0, ForgetIs
  <2> HIDE DEF z
  <2>3. /\ v \in DailyTypes /\ v.on = z.on /\ v.window = z.window /\ v.timer = z.timer /\ ~v.loading
        /\ v.inFlight = z.inFlight /\ v.moreInFlight = z.moreInFlight
        /\ v.loadingMore = z.loadingMore /\ v.stats = z.stats /\ v.error = z.error
        /\ v.list = z.list /\ v.base = z.base /\ v.cursor = z.cursor
    BY <2>2 DEF DailyTypes
  <2> HIDE DEF v, g
  <2>4. CASE u = None
    <3> DEFINE t == [v EXCEPT !.timer = 0]
    <3>1. d' = t /\ flight' = g
      BY <1>1, <1>6, <2>4 DEF v, z, g
    <3>2. /\ t \in DailyTypes /\ t.on = v.on /\ t.window = v.window /\ t.timer = 0
          /\ t.loading = v.loading
          /\ t.inFlight = v.inFlight /\ t.moreInFlight = v.moreInFlight
          /\ t.loadingMore = v.loadingMore /\ t.stats = v.stats /\ t.error = v.error
          /\ t.list = v.list /\ t.base = v.base /\ t.cursor = v.cursor
      BY <2>3 DEF DailyTypes
    <3> HIDE DEF t, id
    <3>3. DailySlots(t, {}) /\ DailyData(t, {}, id) /\ DailyPhase(t, shows)
      BY <2>2, <2>3, <3>2 DEF DailySlots, DailyData, DailyPhase
    <3>4. DailyTimer(t, id) /\ DailyWhole(t, shows)
      BY <1>0, <1>3, <1>6, <2>2, <2>3, <2>4, <3>2 DEF DailyTimer, DailyWhole
    <3>5. DailyIs(t, g, id, shows)
      BY <1>6, <2>1, <2>2, <2>3, <3>2, <3>3, <3>4 DEF DailyIs, DailyFits
    <3> QED BY <1>2, <1>3, <1>4, <3>1, <3>5, DailyStep DEF server
  <2>5. CASE u # None
    <3>1. FetchDaily(v, g, id, shows)
      BY <1>1, <1>6, <2>5 DEF v, z, g
    <3> HIDE DEF id
    <3>2. DailySlots(v, {}) /\ DailyData(v, {}, id) /\ DailyPhase(v, shows)
      BY <2>2, <2>3 DEF DailySlots, DailyData, DailyPhase
    <3>3. Ready(v, g, id, shows)
      BY <1>6, <2>1, <2>2, <2>3, <3>2 DEF Ready
    <3>4. DailyIs(d', flight', id, shows)
      BY <1>0, <1>3, <2>5, <3>1, <3>3, FetchDailyIs
    <3> QED BY <1>2, <1>3, <1>4, <3>4, DailyStep DEF server
  <2> QED BY <2>4, <2>5
<1> QED BY <1>5, <1>6

LEMMA DailyMountKeeps ==
  ASSUME IInv, shown = "daily", UNCHANGED <<conv, a, shown>>, DailyMount PROVE IInv'
<1> DEFINE late == [Request(auth, "first", today, NoCursor, 0) EXCEPT !.cur = FALSE]
<1>0. PICK strict \in BOOLEAN :
        FetchDaily([Idle EXCEPT !.on = TRUE, !.window = IF strict THEN today ELSE 0],
                   IF strict /\ shows THEN flight \cup {late} ELSE flight, auth, shows)
  BY DEF DailyMount
<1> DEFINE w == IF strict THEN today ELSE 0
           f == IF strict /\ shows THEN flight \cup {late} ELSE flight
<1>1. /\ EnvTypes /\ auth \in [user : Users \cup {None}, rev : Nat] /\ today \in Nat \ {0}
      /\ ~d.on /\ auth.user # None /\ UNCHANGED <<server, page>>
  BY DailyHas DEF DailyMount
<1>2. Cur(flight) = {} /\ InFlight(flight, auth, 0)
  BY <1>1, DailyAwayWaits
<1>3. late \in Requests /\ ~late.cur /\ late.kind = "first"
  <2> DEFINE q == Request(auth, "first", today, NoCursor, 0)
  <2>1. q \in Requests /\ q.kind = "first"
    BY <1>1, NoCursorIs, RequestIs DEF All
  <2> HIDE DEF q
  <2>2. [q EXCEPT !.cur = FALSE] \in Requests /\ ~[q EXCEPT !.cur = FALSE].cur
        /\ [q EXCEPT !.cur = FALSE].kind = "first"
    BY <2>1 DEF Requests
  <2> QED BY <2>2 DEF q
<1> HIDE DEF late
<1>4. Cur(f) = {} /\ InFlight(f, auth, 0)
  <2>1. Cur(flight \cup {late}) = {}
    BY <1>2, <1>3, CurIs
  <2>2. InFlight(flight \cup {late}, auth, 0)
    BY <1>2, <1>3, <2>1 DEF InFlight
  <2> QED BY <1>2, <2>1, <2>2
<1>5. w \in Nat
  BY <1>1
<1>6. FetchDaily([Idle EXCEPT !.on = TRUE, !.window = w], f, auth, shows)
  BY <1>0
<1> HIDE DEF w, f
<1>7. Ready([Idle EXCEPT !.on = TRUE, !.window = w], f, auth, shows)
  BY <1>4, <1>5, IdleIs
<1>8. DailyIs(d', flight', auth, shows)
  BY <1>1, <1>6, <1>7, FetchDailyIs
<1>9. EnvTypes' /\ auth' = auth /\ shows' = shows
  BY <1>1 DEF EnvTypes, server, page
<1> QED BY <1>1, <1>8, <1>9, DailyStep DEF server

LEMMA DailyGoneKeeps ==
  ASSUME IInv, shown = "daily", UNCHANGED <<conv, a, shown>>,
         DailyLeave \/ DailyUnmount \/ DailyAway
  PROVE  IInv'
<1>0. /\ EnvTypes /\ DailyIs(d, flight, auth, shows) /\ InFlight(flight, auth, d.window)
      /\ (d.on => Ready(d, flight, auth, shows))
  BY DailyHas
<1>1. CASE DailyLeave
  <2>1. UNCHANGED <<d, flight, auth, shows, server>> /\ EnvTypes'
    BY <1>0, <1>1 DEF DailyLeave, EnvTypes, server
  <2> QED BY <1>0, <2>1, DailyStep DEF server
<1>2. CASE DailyUnmount
  <2>1. /\ d.on /\ d' = Idle /\ flight' = Void(flight, Lists) /\ UNCHANGED <<auth, shows, server>>
        /\ EnvTypes'
    BY <1>0, <1>2 DEF DailyUnmount, EnvTypes, server
  <2>2. Cur(Void(flight, Lists)) = {} /\ InFlight(Void(flight, Lists), auth, 0)
    BY <1>0, <2>1, VoidLeavesNothing DEF Ready, DailySlots
  <2>3. DailyIs(Idle, Void(flight, Lists), auth, shows)
    BY <2>2, IdleIs
  <2> QED BY <2>1, <2>3, DailyStep DEF server
<1>3. CASE DailyAway
  <2>1. ~d.on /\ UNCHANGED <<d, flight, auth, server>> /\ EnvTypes' /\ shows' = ~shows
    BY <1>0, <1>3 DEF DailyAway, EnvTypes, server
  <2>2. d = Idle /\ Cur(flight) = {} /\ InFlight(flight, auth, 0)
    BY <2>1, DailyAwayWaits
  <2>3. DailyIs(Idle, flight, auth, ~shows)
    BY <2>2, IdleIs
  <2> QED BY <2>1, <2>2, <2>3, DailyStep DEF server
<1> QED BY <1>1, <1>2, <1>3

LEMMA ServeDailyKeeps ==
  ASSUME IInv, shown = "daily", UNCHANGED <<conv, a, shown, d>>, ServeList("completed")
  PROVE  IInv'
<1>0. /\ EnvTypes /\ InFlight(flight, auth, d.window) /\ d \in DailyTypes
      /\ DailyFits(d, Cur(flight), auth, shows)
  BY DailyHas
<1>1. PICK r \in flight :
        /\ r.kind \in {"first", "more"} /\ r.st = "sent" /\ r.cur
        /\ flight' = (flight \ {r}) \cup {Served(r, Page(r.user, "completed", r.w, r.cursor))}
        /\ UNCHANGED <<server, page>>
  BY DEF ServeList, Served
<1> DEFINE q == Served(r, Page(r.user, "completed", r.w, r.cursor))
           g == (flight \ {r}) \cup {q}
<1>2. /\ InFlight(flight \ {r}, auth, d.window) /\ Cur(flight \ {r}) = {} /\ d.on
      /\ r \in Requests /\ RequestFits(r, auth, d.window) /\ r \in Cur(flight)
  BY <1>1, DailyAnswered
<1>3. /\ q \in Requests /\ RequestFits(q, auth, d.window) /\ q.kind = r.kind /\ q.cur
      /\ q.cursor = r.cursor /\ q.base = Rows(r.user, "completed", r.w)
  BY <1>2, ServedIs
<1>4. q.kind # "end"
  BY <1>1, <1>3
<1> HIDE DEF q
<1>5. InFlight(g, auth, d.window) /\ Cur(g) = {q}
  <2> DEFINE e == flight \ {r}
  <2>1. InFlight(e, auth, d.window) /\ Cur(e) = {} /\ ~Waits(Cur(e), q.kind)
    BY <1>2 DEF Waits
  <2> HIDE DEF e
  <2>2. q \in Requests /\ RequestFits(q, auth, d.window) /\ q.kind # "end"
    BY <1>3, <1>4
  <2>3. InFlight(e \cup {q}, auth, d.window) /\ Cur(e \cup {q}) = Cur(e) \cup {q}
    BY <2>1, <2>2, AddedIs
  <2> QED BY <2>1, <2>3 DEF e
<1>6. flight' = g
  BY <1>1 DEF q
<1> HIDE DEF g
<1>7. r.user = auth.user /\ r.w = d.window /\ d.window # 0 /\ d.base \subseteq Sids
      /\ OfDay(d.base, auth.user, d.window)
  BY <1>0, <1>2 DEF RequestFits, DailyFits, DailyData, DailyTimer, DailyTypes
<1>8. OfDay(q.base, auth.user, d.window) /\ d.base \subseteq q.base
  BY <1>3, <1>7 DEF Rows, OfDay
<1>9. Cur(flight) = {r}
  <2>1. Cur(flight \ {r}) = Cur(flight) \ {r}
    BY CurIs
  <2> QED BY <1>2, <2>1
<1>10. DailySlots(d, {q}) /\ DailyData(d, {q}, auth)
  BY <1>0, <1>3, <1>8, <1>9 DEF DailyFits, DailySlots, DailyData, Waits
<1>11. DailyIs(d, g, auth, shows)
  BY <1>0, <1>5, <1>10 DEF DailyIs, DailyFits
<1>12. EnvTypes' /\ auth' = auth /\ shows' = shows
  BY <1>0, <1>1 DEF EnvTypes, server, page
<1> QED BY <1>1, <1>6, <1>11, <1>12, DailyStep DEF server

\* What is completed stays so, and of its day.
LEMMA ElsewhereKeeps ==
  ASSUME IInv, shown = "daily", UNCHANGED <<conv, a, shown, d>>, Elsewhere \/ DayPasses
  PROVE  IInv'
<1>0. /\ EnvTypes /\ InFlight(flight, auth, d.window) /\ d \in DailyTypes
      /\ DailyIs(d, flight, auth, shows)
  BY DailyHas
<1>1. UNCHANGED <<page, flight>> /\ EnvTypes'
  BY <1>0 DEF Elsewhere, Create, EndElsewhere, DayPasses, EnvTypes, page
<1>2. ASSUME NEW s \in Sids, status[s] = "completed" PROVE status'[s] = "completed" /\ day'[s] = day[s]
  BY <1>0, <1>2 DEF Elsewhere, Create, EndElsewhere, DayPasses, EnvTypes
<1>3. ASSUME NEW S \in SUBSET Sids, NEW user, NEW w, OfDay(S, user, w)
      PROVE  \A s \in S : Owner[s] = user /\ day'[s] = w /\ status'[s] = "completed"
  BY <1>2, <1>3 DEF OfDay
<1>4. /\ d.list \in SUBSET Sids /\ d.base \in SUBSET Sids
      /\ \A r \in Cur(flight) : r.base \in SUBSET Sids
  BY <1>0 DEF DailyTypes, InFlight, Cur, Requests
<1>5. UNCHANGED <<auth, shows>>
  BY <1>1 DEF page
<1>6. DailyData(d, Cur(flight), auth)
  BY <1>0 DEF DailyIs, DailyFits
<1>7. DailyData(d, Cur(flight), auth)'
  <2>1. /\ \A s \in d.list : Owner[s] = auth.user /\ day'[s] = d.window /\ status'[s] = "completed"
        /\ \A s \in d.base : Owner[s] = auth.user /\ day'[s] = d.window /\ status'[s] = "completed"
    BY <1>3, <1>4, <1>6 DEF DailyData
  <2>2. \A r \in Cur(flight) : r.st = "served" =>
          \A s \in r.base : Owner[s] = auth.user /\ day'[s] = d.window /\ status'[s] = "completed"
    BY <1>3, <1>4, <1>6 DEF DailyData
  <2> QED BY <1>1, <1>5, <1>6, <2>1, <2>2 DEF DailyData, OfDay
<1>8. DailyIs(d, flight, auth, shows)'
  BY <1>0, <1>1, <1>5, <1>7 DEF DailyIs, DailyFits
<1> QED BY <1>1, <1>8 DEF IInv

LEMMA DailyKeeps ==
  ASSUME IInv, shown = "daily", UNCHANGED <<conv, a, shown>>, DailyNext PROVE IInv'
<1>1. CASE RetryDaily \/ Midnight \/ MoreDaily
  BY <1>1, RefetchKeeps, MoreDailyKeeps
<1>2. CASE \E r \in flight : SettleDaily(r)
  BY <1>2, SettleFirstDailyKeeps, SettleMoreDailyKeeps DEF SettleDaily
<1>3. CASE (ServeList("completed") \/ Elsewhere \/ DayPasses) /\ UNCHANGED d
  BY <1>3, ServeDailyKeeps, ElsewhereKeeps
<1>4. CASE DailyLifecycle \/ DailyAuth \/ DailyMount \/ DailyLeave \/ DailyUnmount \/ DailyAway
  BY <1>4, DailyLifecycleKeeps, DailyAuthKeeps, DailyMountKeeps, DailyGoneKeeps
<1> QED BY <1>1, <1>2, <1>3, <1>4 DEF DailyNext

-----------------------------------------------------------------------------
(* What the active list has still to read.  IInv says nothing of the       *)
(* sessions' statuses there; this is what stays so while sessions are      *)
(* created and end between two pages.                                      *)

\* What the first page could have had and is neither listed nor over.
Unread(v, st) == {s \in v.base : st[s] = "active"} \ (v.list \cup v.ended)

\* It is still to come with the cursor; a request for more was made with that
\* cursor, and its answer was read where all of it was.  Before the first page
\* there is no cursor.
Reads(v, C, id, st) ==
  /\ \A s \in v.base : Owner[s] = id.user /\ st[s] # "none"
  /\ Above(v.list, v.cursor) /\ Ahead(Unread(v, st), v.cursor)
  /\ \A r \in C : r.kind \in Lists =>
       /\ r.st = "served" => \A s \in r.base : st[s] # "none"
       /\ r.kind = "first" => v.cursor = NoCursor
       /\ r.kind = "more" =>
            /\ r.cursor = v.cursor /\ v.cursor # NoCursor
            /\ r.st = "served" => \A s \in v.base : st[s] = "active" => s \in r.base

Reading == shown = "active" => Reads(a, Cur(flight), auth, status)

\* The list is left alone, or loses what is over; fewer of its requests count.
LEMMA ReadsFewer ==
  ASSUME NEW v, NEW u, NEW C, NEW D, NEW id, NEW st, Reads(v, C, id, st),
         u.base = v.base, u.cursor = v.cursor, u.list \subseteq v.list,
         v.list \cup v.ended \subseteq u.list \cup u.ended,
         \A r \in D : r.kind \in Lists => r \in C
  PROVE  Reads(u, D, id, st)
<1>1. Unread(u, st) \subseteq Unread(v, st)
  BY DEF Unread
<1> QED BY <1>1 DEF Reads, Above, Ahead

\* Nothing has been read, and the first page at most is asked for.
LEMMA ReadsFresh ==
  ASSUME NEW u, NEW D, NEW id, NEW st, u.base = {}, u.cursor = NoCursor,
         \A r \in D : r.kind \in Lists => r.kind = "first" /\ r.st = "sent"
  PROVE  Reads(u, D, id, st)
BY DEF Reads, Above, Ahead, Unread

\* Sessions start and end, and do not start again.
LEMMA ReadsLater ==
  ASSUME NEW v, NEW C, NEW id, NEW st, NEW new, Reads(v, C, id, st),
         v.base \subseteq Sids, \A r \in C : r.base \subseteq Sids,
         \A s \in Sids : st[s] # "none" => new[s] # "none" /\ (new[s] = "active" => st[s] = "active")
  PROVE  Reads(v, C, id, new)
<1>1. Unread(v, new) \subseteq Unread(v, st)
  BY DEF Unread, Reads
<1> QED BY <1>1 DEF Reads, Ahead

LEMMA CurDrop ==
  ASSUME NEW f, NEW id, NEW w, InFlight(f, id, w), NEW kinds
  PROVE  \A r \in Cur(Drop(f, kinds)) : r \in Cur(f) /\ r.kind \notin kinds
<1>1. Cur(Drop(f, kinds)) = Without(Cur(f), kinds)
  BY DropIs DEF InFlight
<1> QED BY <1>1 DEF Without

LEMMA CurAdd ==
  ASSUME NEW f, NEW q
  PROVE  \A r \in Cur(f \cup {q}) : r \in Cur(f) \/ r = q
BY DEF Cur

LEMMA FetchReads ==
  ASSUME NEW p, NEW id \in [user : Users \cup {None}, rev : Nat], NEW li, NEW c, NEW st,
         p.v \in ActiveTypes, InFlight(p.f, id, 0), Reads(p.v, Cur(p.f), id, st)
  PROVE  LET t == Fetch(p, id, li, c) IN Reads(t.v, Cur(t.f), id, st)
<1> DEFINE v == p.v
           t == Fetch(p, id, li, c)
           q == Request(id, "first", 0, NoCursor, 0)
           e == Drop(p.f, {"first", "more"})
           out == [v EXCEPT !.list = {}, !.error = FALSE, !.loading = FALSE]
           u == [v EXCEPT !.moreInFlight = FALSE, !.loadingMore = FALSE,
                          !.cursor = NoCursor, !.base = {},
                          !.inFlight = TRUE, !.loading = TRUE, !.error = FALSE]
<1>0. v \in ActiveTypes /\ InFlight(p.f, id, 0)
  OBVIOUS
<1>1. CASE t = p
  BY <1>1
<1>2. CASE t = Pair(out, p.f) /\ id.user = None
  <2>1. t.v = out /\ t.f = p.f
    BY <1>2 DEF Pair
  <2>2. Cur(p.f) = {}
    BY <1>0, <1>2, NobodyWaits
  <2>3. v.base = {}
    BY <1>0, <1>2, OwnerAssumption, NoneAssumption DEF Reads, ActiveTypes
  <2>4. out.base = v.base /\ out.list = {} /\ out.cursor = v.cursor
    BY <1>0 DEF ActiveTypes
  <2> HIDE DEF out, t, v
  <2>5. Reads(out, {}, id, st)
    BY <2>3, <2>4 DEF Reads, Above, Ahead, Unread
  <2> QED BY <2>1, <2>2, <2>5 DEF t
<1>3. CASE t = Pair(u, e \cup {q}) /\ id.user # None
  <2>1. t.v = u /\ t.f = e \cup {q}
    BY <1>3 DEF Pair
  <2>2. u.base = {} /\ u.cursor = NoCursor
    BY <1>0 DEF ActiveTypes
  <2>3. q.kind = "first" /\ q.st = "sent"
    BY DEF Request
  <2> HIDE DEF t, u, q
  <2>6. \A r \in Cur(e) : r.kind \notin {"first", "more"}
    BY <1>0, CurDrop
  <2> HIDE DEF e
  <2>7. \A r \in Cur(e \cup {q}) : r \in Cur(e) \/ r = q
    BY CurAdd
  <2>4. \A r \in Cur(e \cup {q}) : r.kind \in Lists => r.kind = "first" /\ r.st = "sent"
    BY <2>3, <2>6, <2>7 DEF Lists
  <2>5. Reads(u, Cur(e \cup {q}), id, st)
    BY <2>2, <2>4, ReadsFresh
  <2> QED BY <2>1, <2>5 DEF t
<1>4. t = p \/ (t = Pair(out, p.f) /\ id.user = None)
            \/ (t = Pair(u, e \cup {q}) /\ id.user # None)
  BY DEF Fetch
<1> QED BY <1>1, <1>2, <1>3, <1>4

LEMMA ReleaseReads ==
  ASSUME NEW p, NEW id, NEW st, OnIs(p, id), Reads(p.v, Cur(p.f), id, st)
  PROVE  LET t == Release(p) IN Reads(t.v, Cur(t.f), id, st)
<1> DEFINE u == [p.v EXCEPT !.resInFlight = FALSE, !.isResuming = FALSE]
           g == Drop(p.f, {"resume"})
           t == Release(p)
<1>1. CASE ~p.v.resInFlight
  BY <1>1 DEF Release
<1>2. CASE p.v.resInFlight
  <2>1. t.v = u /\ t.f = g
    BY <1>2 DEF Release, Pair
  <2>2. p.v \in ActiveTypes /\ InFlight(p.f, id, 0)
    BY DEF OnIs, ActiveIs, ActiveFits
  <2>3. u.base = p.v.base /\ u.cursor = p.v.cursor /\ u.list = p.v.list /\ u.ended = p.v.ended
    BY <2>2 DEF ActiveTypes
  <2>4. \A r \in Cur(g) : r.kind \in Lists => r \in Cur(p.f)
    BY <2>2, CurDrop
  <2> HIDE DEF u, g, t
  <2>5. Reads(u, Cur(g), id, st)
    BY <2>3, <2>4, ReadsFewer
  <2> QED BY <2>1, <2>5 DEF t
<1> QED BY <1>1, <1>2

-----------------------------------------------------------------------------
LEMMA ReadingStep ==
  ASSUME UNCHANGED shown, shown = "active" => Reads(a', Cur(flight'), auth', status')
  PROVE  Reading'
BY DEF Reading

\* What a handler hands over is what the list has then.
LEMMA TakeReads ==
  ASSUME NEW p, NEW id, NEW st, Take(p), Reads(p.v, Cur(p.f), id, st)
  PROVE  Reads(a', Cur(flight'), id, st)
BY DEF Take

\* What each of the steps finds.
LEMMA ReadsNow ==
  ASSUME IInv, Reading, shown = "active"
  PROVE  /\ Reads(a, Cur(flight), auth, status) /\ a \in ActiveTypes /\ InFlight(flight, auth, 0)
         /\ Reads(Pair(a, flight).v, Cur(Pair(a, flight).f), auth, status)
         /\ Pair(a, flight).v \in ActiveTypes /\ InFlight(Pair(a, flight).f, auth, 0)
         /\ a.on => OnIs(Pair(a, flight), auth)
         /\ auth \in [user : Users \cup {None}, rev : Nat]
<1>1. Pair(a, flight).v = a /\ Pair(a, flight).f = flight
  BY DEF Pair
<1> QED BY <1>1, ActiveHas DEF Reading

LEMMA RetryReads ==
  ASSUME IInv, Reading, shown = "active", Retry
  PROVE  Reads(a', Cur(flight'), auth', status')
<1> DEFINE t == Fetch(Pair(a, flight), auth, shows, conv)
<1>1. Take(t) /\ a.on /\ auth' = auth /\ status' = status
  BY DEF Retry, Clickable, server, page
<1>2. Reads(t.v, Cur(t.f), auth, status)
  BY <1>1, ReadsNow, FetchReads
<1> HIDE DEF t
<1> QED BY <1>1, <1>2, TakeReads

LEMMA LoadMoreReads ==
  ASSUME IInv, Reading, shown = "active", LoadMore
  PROVE  Reads(a', Cur(flight'), auth', status')
<1> DEFINE u == [a EXCEPT !.moreInFlight = TRUE, !.loadingMore = TRUE]
           e == Drop(flight, {"more"})
           q == Request(auth, "more", 0, a.cursor, 0)
<1>1. a' = u /\ flight' = e \cup {q} /\ a.cursor # NoCursor /\ auth' = auth /\ status' = status
  BY DEF LoadMore, MoreButton, Take, Pair, server, page
<1>2. u.base = a.base /\ u.cursor = a.cursor /\ u.list = a.list /\ u.ended = a.ended
  BY ReadsNow DEF ActiveTypes
<1>3. q.kind = "more" /\ q.st = "sent" /\ q.cursor = a.cursor
  BY DEF Request
<1>4. \A r \in Cur(e) : r \in Cur(flight) /\ r.kind # "more"
  BY ReadsNow, CurDrop
<1>5. Reads(u, Cur(e), auth, status)
  <2> HIDE DEF u, e
  <2> QED BY <1>2, <1>4, ReadsNow, ReadsFewer
<1> HIDE DEF u, e, q
<1>6. \A r \in Cur(e \cup {q}) : r \in Cur(e) \/ r = q
  BY CurAdd
<1>7. Reads(u, Cur(e \cup {q}), auth, status)
  BY <1>1, <1>2, <1>3, <1>5, <1>6 DEF Reads
<1> QED BY <1>1, <1>7

\* The list stands still.
LEMMA StillReads ==
  ASSUME IInv, Reading, shown = "active", auth' = auth, status' = status,
         a'.base = a.base, a'.cursor = a.cursor, a'.list = a.list, a'.ended = a.ended,
         \A r \in Cur(flight') : r.kind \in Lists => r \in Cur(flight)
  PROVE  Reads(a', Cur(flight'), auth', status')
BY ReadsNow, ReadsFewer

LEMMA ConfirmReads ==
  ASSUME IInv, Reading, shown = "active", NEW s \in Sids,
         \/ StartConfirm(s) \/ CancelConfirm \/ StartResumeConfirm(s) \/ CancelResume
         \/ ConfirmEnd(s) \/ ConfirmResume(s)
  PROVE  Reads(a', Cur(flight'), auth', status')
<1>0. a \in ActiveTypes /\ InFlight(flight, auth, 0)
  BY ReadsNow
<1>1. auth' = auth /\ status' = status
  BY DEF StartConfirm, CancelConfirm, StartResumeConfirm, CancelResume, ConfirmEnd, ConfirmResume,
     server, page
<1>2. CASE StartConfirm(s) \/ CancelConfirm \/ StartResumeConfirm(s) \/ CancelResume
  <2>1. a'.base = a.base /\ a'.cursor = a.cursor /\ a'.list = a.list /\ a'.ended = a.ended
    BY <1>0, <1>2 DEF StartConfirm, CancelConfirm, StartResumeConfirm, CancelResume, ActiveTypes
  <2>2. flight' = flight \/ flight' = Drop(flight, {"resume"})
    BY <1>2 DEF StartConfirm, CancelConfirm, StartResumeConfirm, CancelResume
  <2>3. \A r \in Cur(flight') : r \in Cur(flight)
    BY <1>0, <2>2, CurDrop
  <2> QED BY <1>1, <2>1, <2>3, StillReads
<1>3. CASE ConfirmEnd(s) \/ ConfirmResume(s)
  <2> DEFINE v == [a EXCEPT !.inFlight = FALSE, !.loading = FALSE,
                            !.moreInFlight = FALSE, !.loadingMore = FALSE]
             e == Drop(flight, {"first", "more"})
  <2>1. PICK kind \in {"end", "resume"}, q \in flight' :
          /\ q.kind = kind /\ flight' = Drop(e, {kind}) \cup {q}
          /\ \/ a' = [v EXCEPT !.endInFlight = TRUE, !.isEnding = TRUE]
             \/ a' = [v EXCEPT !.resInFlight = TRUE, !.isResuming = TRUE]
    <3>1. VoidLists(a, flight).v = v /\ VoidLists(a, flight).f = e
      BY DEF VoidLists, Pair
    <3> DEFINE qe == Request(a.endIntent, "end", 0, NoCursor, s)
               qr == Request(a.resIntent, "resume", 0, NoCursor, s)
    <3>2. qe.kind = "end" /\ qr.kind = "resume"
      BY DEF Request
    <3> HIDE DEF v, e, qe, qr
    <3>3. CASE ConfirmEnd(s)
      <4>1. a' = [v EXCEPT !.endInFlight = TRUE, !.isEnding = TRUE]
            /\ flight' = Drop(e, {"end"}) \cup {qe}
        BY <3>1, <3>3 DEF ConfirmEnd, Take, Pair, qe
      <4> QED BY <3>2, <4>1
    <3>4. CASE ConfirmResume(s)
      <4>1. a' = [v EXCEPT !.resInFlight = TRUE, !.isResuming = TRUE]
            /\ flight' = Drop(e, {"resume"}) \cup {qr}
        BY <3>1, <3>4 DEF ConfirmResume, Take, Pair, qr
      <4> QED BY <3>2, <4>1
    <3> QED BY <1>3, <3>3, <3>4
  <2>2. /\ v \in ActiveTypes /\ v.base = a.base /\ v.cursor = a.cursor /\ v.list = a.list
        /\ v.ended = a.ended
    BY <1>0 DEF ActiveTypes
  <2> HIDE DEF v, e
  <2>3. a'.base = a.base /\ a'.cursor = a.cursor /\ a'.list = a.list /\ a'.ended = a.ended
    BY <2>1, <2>2 DEF ActiveTypes
  <2>4. InFlight(e, auth, 0) /\ \A r \in Cur(e) : r \in Cur(flight)
    BY <1>0, DroppedIs, CurDrop DEF e
  <2>5. \A r \in Cur(flight') : r.kind \in Lists => r \in Cur(flight)
    <3> DEFINE g == Drop(e, {kind})
    <3>1. \A r \in Cur(g) : r \in Cur(e)
      BY <2>4, CurDrop
    <3>2. flight' = g \cup {q} /\ q.kind \notin Lists
      BY <2>1 DEF Lists
    <3> HIDE DEF g
    <3>3. \A r \in Cur(g \cup {q}) : r \in Cur(g) \/ r = q
      BY CurAdd
    <3> QED BY <2>4, <3>1, <3>2, <3>3
  <2> QED BY <1>1, <2>3, <2>5, StillReads
<1> QED BY <1>2, <1>3

\* An answer that is none of a page.
LEMMA SettleOtherReads ==
  ASSUME IInv, Reading, shown = "active", NEW r \in flight, NEW ok \in BOOLEAN,
         SettleEnd(r, ok) \/ SettleResume(r, ok)
  PROVE  Reads(a', Cur(flight'), auth', status')
<1>0. a \in ActiveTypes /\ InFlight(flight, auth, 0)
  BY ReadsNow
<1>1. auth' = auth /\ status' = status /\ flight' = flight \ {r}
  BY DEF SettleEnd, SettleResume, server, page
<1>2. \A q \in Cur(flight') : q \in Cur(flight)
  BY <1>1 DEF Cur
<1>3. CASE SettleResume(r, ok)
  <2>1. a'.base = a.base /\ a'.cursor = a.cursor /\ a'.list = a.list /\ a'.ended = a.ended
    BY <1>0, <1>3 DEF SettleResume, ActiveTypes
  <2> QED BY <1>1, <1>2, <2>1, StillReads
<1>4. CASE SettleEnd(r, ok)
  <2>1. /\ a'.base = a.base /\ a'.cursor = a.cursor
        /\ \/ a'.list = a.list /\ a'.ended = a.ended
           \/ a'.list = a.list \ {r.sid} /\ a'.ended = a.ended \cup {r.sid}
    BY <1>0, <1>4 DEF SettleEnd, ActiveTypes
  <2>2. a'.list \subseteq a.list /\ a.list \cup a.ended \subseteq a'.list \cup a'.ended
    BY <2>1
  <2>3. Reads(a, Cur(flight), auth, status) /\ a'.base = a.base /\ a'.cursor = a.cursor
    BY <2>1, ReadsNow
  <2>4. Reads(a', Cur(flight'), auth, status)
    BY <1>2, <2>2, <2>3, ReadsFewer
  <2> QED BY <1>1, <2>4
<1> QED BY <1>3, <1>4

-----------------------------------------------------------------------------
\* A page arrives that was waited for: the next one, as the cursor of the list
\* and of its request is the same, and nothing else of the list is on its way.
LEMMA ListedReads ==
  ASSUME IInv, Reading, shown = "active", NEW r \in flight, r.cur, r.kind \in Lists, r.st = "served"
  PROVE  Reads(Listed(a, r), Cur(flight \ {r}), auth, status)
<1> DEFINE list == (IF r.kind = "first" THEN {} ELSE a.list) \cup (r.items \ a.ended)
           base == IF r.kind = "first" THEN r.base ELSE a.base
           u == Listed(a, r)
           D == Cur(flight \ {r})
<1>0. Reads(a, Cur(flight), auth, status) /\ a \in ActiveTypes /\ Fit(Cur(flight), auth, 0)
  BY ReadsNow DEF InFlight
<1>1. r \in Cur(flight) /\ D = Cur(flight) \ {r}
  BY CurIs DEF Cur
<1>2. RequestFits(r, auth, 0) /\ r \in Requests /\ PageFits(r) /\ r.user = auth.user
  BY <1>0, <1>1 DEF Fit, RequestFits
<1>3. u.list = list /\ u.base = base /\ u.cursor = r.next /\ u.ended = a.ended
  BY <1>0 DEF Listed, ActiveTypes
<1>4. list \subseteq Sids /\ r.next \in Cursors /\ a.cursor \in Cursors
  BY <1>0, <1>2 DEF Requests, ActiveTypes
<1> HIDE DEF u, D
<1>5. \A q \in D : q.kind \notin Lists
  <2>1. ASSUME NEW q \in D, q.kind \in Lists PROVE FALSE
    <3>1. q \in Cur(flight) /\ q # r
      BY <1>1, <2>1
    <3>2. q.kind # r.kind
      BY <1>0, <1>1, <3>1 DEF Fit
    <3> QED BY <1>0, <1>1, <2>1, <3>1, <3>2 DEF Reads, Lists
  <2> QED BY <2>1
<1>6. CASE r.kind = "first"
  <2>1. r.cursor = NoCursor /\ \A s \in r.base : Owner[s] = auth.user /\ status[s] # "none"
    BY <1>0, <1>1, <1>2, <1>6 DEF RequestFits, PageFits, Reads
  <2>2. u.base = r.base /\ u.list = r.items \ a.ended
    BY <1>3, <1>6
  <2>3. Above(u.list, u.cursor)
    BY <1>2, <1>3, <2>2 DEF PageFits, Above
  <2>4. Unread(u, status) \subseteq r.base \ r.items
    BY <1>3, <2>2 DEF Unread
  <2>5. Ahead(Unread(u, status), u.cursor)
    BY <1>2, <1>3, <2>1, <2>4 DEF PageFits, Ahead
  <2> QED BY <1>5, <2>1, <2>2, <2>3, <2>5 DEF Reads, u, D
<1>7. CASE r.kind = "more"
  <2>1. /\ \A s \in a.base : Owner[s] = auth.user /\ status[s] # "none"
        /\ Above(a.list, a.cursor) /\ Ahead(Unread(a, status), a.cursor)
        /\ r.cursor = a.cursor /\ a.cursor # NoCursor
        /\ \A s \in a.base : status[s] = "active" => s \in r.base
    BY <1>0, <1>1, <1>7 DEF Reads
  <2>2. u.base = a.base /\ u.list = a.list \cup (r.items \ a.ended)
    BY <1>3, <1>7
  <2>3. ASSUME r.next # NoCursor, NEW s \in u.list PROVE r.next.at <= s
    <3>1. /\ \A t \in r.items : r.next.at <= t
          /\ r.next.at < a.cursor.at
          /\ \A t \in a.list : a.cursor.at <= t
      BY <1>2, <2>1, <2>3 DEF PageFits, Above
    <3>2. s \in Nat /\ r.next.at \in Nat /\ a.cursor.at \in Nat
      BY <1>3, <1>4, <2>3, OwnerAssumption DEF Cursors
    <3> QED BY <2>2, <2>3, <3>1, <3>2
  <2>4. ASSUME NEW s \in Unread(u, status) PROVE s \in Unread(a, status) /\ s \in r.base \ r.items
    BY <1>3, <2>1, <2>2, <2>4 DEF Unread
  <2>5. Ahead(Unread(u, status), u.cursor)
    <3>1. ASSUME NEW s \in Unread(u, status) PROVE r.next # NoCursor /\ s < r.next.at
      BY <1>2, <2>1, <2>4, <3>1 DEF PageFits, Ahead
    <3> QED BY <1>3, <3>1 DEF Ahead
  <2>6. Above(u.list, u.cursor)
    BY <1>3, <2>3 DEF Above
  <2> QED BY <1>5, <2>1, <2>2, <2>5, <2>6 DEF Reads, u, D
<1> QED BY <1>6, <1>7 DEF Lists

LEMMA SettleListReads ==
  ASSUME IInv, Reading, shown = "active", NEW r \in flight, NEW ok \in BOOLEAN,
         SettleFirst(r, ok) \/ SettleMore(r, ok)
  PROVE  Reads(a', Cur(flight'), auth', status')
<1>0. /\ a \in ActiveTypes /\ auth' = auth /\ status' = status /\ flight' = flight \ {r}
      /\ r.kind \in Lists /\ (ok => r.st = "served")
  BY ReadsNow DEF SettleFirst, SettleMore, server, page, Lists
<1> DEFINE l == Listed(a, r)
<1>1. CASE Counts(r) /\ ok
  <2>1. Reads(l, Cur(flight'), auth, status)
    BY <1>0, <1>1, ListedReads DEF Counts
  <2>2. r.cur
    BY <1>1 DEF Counts
  <2>3. l \in ActiveTypes
    <3>1. ActiveIs(a, flight, auth) /\ r.st = "served"
      BY <1>0, <1>1, ActiveHas
    <3>2. LET u == Listed(a, r) IN u \in ActiveTypes
      BY <1>0, <2>2, <3>1, ListedIs
    <3> QED BY <3>2
  <2> HIDE DEF l
  <2>4. \/ a' = [[[l EXCEPT !.error = FALSE] EXCEPT !.inFlight = FALSE] EXCEPT !.loading = FALSE]
        \/ a' = [[l EXCEPT !.moreInFlight = FALSE] EXCEPT !.loadingMore = FALSE]
    BY <1>1, <2>2 DEF SettleFirst, SettleMore, l
  <2>5. a'.base = l.base /\ a'.cursor = l.cursor /\ a'.list = l.list /\ a'.ended = l.ended
    BY <2>3, <2>4 DEF ActiveTypes
  <2>6. Reads(a', Cur(flight'), auth, status)
    BY <2>1, <2>5, ReadsFewer
  <2> QED BY <1>0, <2>6
<1>2. CASE ~(Counts(r) /\ ok)
  <2>1. a'.base = a.base /\ a'.cursor = a.cursor /\ a'.list = a.list /\ a'.ended = a.ended
    BY <1>0, <1>2 DEF SettleFirst, SettleMore, ActiveTypes
  <2>2. \A q \in Cur(flight') : q \in Cur(flight)
    BY <1>0 DEF Cur
  <2> QED BY <1>0, <2>1, <2>2, StillReads
<1> QED BY <1>1, <1>2

-----------------------------------------------------------------------------
\* A page is read while nothing of what was there has become active again.
LEMMA ServeReads ==
  ASSUME IInv, Reading, shown = "active", ServeList("active"), a' = a
  PROVE  Reads(a', Cur(flight'), auth', status')
<1>0. Reads(a, Cur(flight), auth, status) /\ a \in ActiveTypes /\ InFlight(flight, auth, 0)
  BY ReadsNow
<1>1. PICK r \in flight :
        /\ r.kind \in {"first", "more"} /\ r.cur
        /\ flight' = (flight \ {r}) \cup {Served(r, Page(r.user, "active", r.w, r.cursor))}
        /\ UNCHANGED <<server, page>>
  BY DEF ServeList, Served
<1> DEFINE q == Served(r, Page(r.user, "active", r.w, r.cursor))
<1>2. r \in Cur(flight) /\ r \in Requests /\ RequestFits(r, auth, 0)
  BY <1>0, <1>1 DEF InFlight, Fit, Cur
<1>3. /\ q.kind = r.kind /\ q.cursor = r.cursor
      /\ q.base = Rows(r.user, "active", r.w)
  BY <1>2, ServedIs
<1>4. r.user = auth.user /\ r.w = 0
  BY <1>2 DEF RequestFits
<1> HIDE DEF q
<1>5. \A s \in q.base : status[s] # "none"
  BY <1>3 DEF Rows
<1>6. \A s \in a.base : status[s] = "active" => s \in q.base
  BY <1>0, <1>3, <1>4 DEF Rows, Reads, ActiveTypes
<1>7. \A x \in Cur(flight') : x \in Cur(flight) \/ x = q
  BY <1>1 DEF Cur, q
<1>8. /\ q.kind = "first" => a.cursor = NoCursor
      /\ q.kind = "more" => q.cursor = a.cursor /\ a.cursor # NoCursor
  BY <1>0, <1>1, <1>2, <1>3 DEF Reads, Lists
<1>9. auth' = auth /\ status' = status
  BY <1>1 DEF server, page
<1>10. Reads(a, Cur(flight'), auth, status)
  BY <1>0, <1>5, <1>6, <1>7, <1>8 DEF Reads
<1> QED BY <1>9, <1>10

LEMMA ElseReads ==
  ASSUME IInv, Reading, shown = "active", ServeEnd \/ CommitEnd \/ Elsewhere, a' = a
  PROVE  Reads(a', Cur(flight'), auth', status')
<1>0. /\ Reads(a, Cur(flight), auth, status) /\ a \in ActiveTypes /\ flight \subseteq Requests
      /\ EnvTypes
  BY ReadsNow, ActiveHas DEF InFlight
<1>1. CASE ServeEnd
  <2>1. PICK r \in flight :
          /\ r.kind = "end" /\ flight' = (flight \ {r}) \cup {[r EXCEPT !.st = "served"]}
          /\ UNCHANGED <<status, page>>
    BY <1>1 DEF ServeEnd
  <2> DEFINE q == [r EXCEPT !.st = "served"]
  <2>2. q.kind \notin Lists
    BY <1>0, <2>1 DEF Requests, Lists
  <2> HIDE DEF q
  <2>3. \A x \in Cur(flight') : x.kind \in Lists => x \in Cur(flight)
    BY <2>1, <2>2 DEF Cur, q
  <2> QED BY <2>1, <2>3, StillReads DEF page
<1>2. CASE CommitEnd \/ Elsewhere
  <2>1. auth' = auth /\ flight' = flight
    BY <1>2 DEF CommitEnd, Elsewhere, Create, EndElsewhere, page
  <2>2. \A s \in Sids :
          status[s] # "none" => status'[s] # "none" /\ (status'[s] = "active" => status[s] = "active")
    BY <1>0, <1>2 DEF CommitEnd, Elsewhere, Create, EndElsewhere, EnvTypes
  <2>3. a.base \subseteq Sids /\ \A r \in Cur(flight) : r.base \subseteq Sids
    BY <1>0 DEF ActiveTypes, Requests, Cur
  <2>4. Reads(a, Cur(flight), auth, status')
    BY <1>0, <2>2, <2>3, ReadsLater
  <2> QED BY <2>1, <2>4
<1> QED BY <1>1, <1>2

LEMMA StoreReads ==
  ASSUME IInv, Reading, shown = "active", StoreActs
  PROVE  Reads(a', Cur(flight'), auth', status')
<1>1. CASE StoreStarts \/ StoreEnds \/ StoreHome
  <2>1. a' = a /\ flight' = flight /\ auth' = auth /\ status' = status
    BY <1>1 DEF StoreStarts, StoreEnds, StoreHome, server, page
  <2> QED BY <2>1, StillReads
<1>2. CASE StoreCancels
  <2>1. a.on /\ Take(Release(Pair(a, flight))) /\ auth' = auth /\ status' = status
    BY <1>2 DEF StoreCancels, Clickable, server, page
  <2> DEFINE t == Release(Pair(a, flight))
  <2>2. Reads(t.v, Cur(t.f), auth, status)
    BY <2>1, ReadsNow, ReleaseReads
  <2> HIDE DEF t
  <2> QED BY <2>1, <2>2, TakeReads DEF t
<1> QED BY <1>1, <1>2 DEF StoreActs

-----------------------------------------------------------------------------
LEMMA LifecycleReads ==
  ASSUME IInv, Reading, shown = "active", ActiveLifecycle
  PROVE  Reads(a', Cur(flight'), auth', status')
<1>0. /\ a.on /\ auth' = auth /\ status' = status /\ ActiveIs(a, flight, auth)
      /\ a \in ActiveTypes /\ InFlight(flight, auth, 0)
  BY ReadsNow, ActiveHas DEF ActiveLifecycle, server
<1> DEFINE t == Fetch(Pair(a, flight), auth, TRUE, conv)
           s == Suspended(a, flight)
           p == VoidLists(a, flight)
           u == [p.v EXCEPT !.cursor = NoCursor, !.base = {}]
<1>1. Take(t) \/ Take(s)
  BY DEF ActiveLifecycle
<1>2. Reads(t.v, Cur(t.f), auth, status)
  BY ReadsNow, FetchReads
<1>3. Reads(s.v, Cur(s.f), auth, status)
  <2>1. s = Release(Pair(u, p.f)) /\ p.f = Drop(flight, {"first", "more"})
    BY DEF Suspended, VoidLists, Pair
  <2>2. OnIs(p, auth)
    BY <1>0, VoidListsIs
  <2>3. \A r \in Cur(p.f) : r.kind \notin {"first", "more"}
    BY <1>0, <2>1, CurDrop
  <2> HIDE DEF p
  <2>4. /\ u \in ActiveTypes /\ u.cursor = NoCursor /\ u.base = {}
        /\ u.on = p.v.on /\ u.inFlight = p.v.inFlight /\ u.loading = p.v.loading
        /\ u.moreInFlight = p.v.moreInFlight /\ u.loadingMore = p.v.loadingMore
        /\ u.endInFlight = p.v.endInFlight /\ u.isEnding = p.v.isEnding
        /\ u.resInFlight = p.v.resInFlight /\ u.isResuming = p.v.isResuming
        /\ u.endPanel = p.v.endPanel /\ u.endIntent = p.v.endIntent
        /\ u.list = p.v.list /\ u.ended = p.v.ended
    BY <2>2, NoCursorIs DEF ActiveTypes, OnIs, ActiveIs, ActiveFits
  <2> HIDE DEF u
  <2>5. Pair(u, p.f).v = u /\ Pair(u, p.f).f = p.f
    BY DEF Pair
  <2>6. OnIs(Pair(u, p.f), auth)
    BY <2>2, <2>4, <2>5 DEF OnIs, ActiveIs, ActiveFits, ActiveSlots, EndedStays, CursorFits
  <2>7. Reads(u, Cur(p.f), auth, status)
    BY <2>3, <2>4, ReadsFresh DEF Lists
  <2> HIDE DEF s
  <2> QED BY <2>1, <2>5, <2>6, <2>7, ReleaseReads
<1> HIDE DEF t, s
<1> QED BY <1>0, <1>1, <1>2, <1>3, TakeReads

\* All requests are given up.
LEMMA NothingReads ==
  ASSUME NEW f, NEW id, NEW w, InFlight(f, id, w)
  PROVE  Cur(Drop(f, All)) = {}
<1>1. \A r \in Cur(Drop(f, All)) : r \in Cur(f) /\ r.kind \notin All
  BY CurDrop
<1>2. \A r \in Cur(f) : r.kind \in All
  BY DEF InFlight, Cur, Requests
<1> QED BY <1>1, <1>2

LEMMA AuthReads ==
  ASSUME IInv, Reading, shown = "active", ActiveAuth
  PROVE  Reads(a', Cur(flight'), auth', status')
<1>0. EnvTypes /\ InFlight(flight, auth, 0)
  BY ActiveHas
<1>1. PICK id, c :
        /\ auth' = id /\ id \in [user : Users \cup {None}, rev : Nat]
        /\ IF a.on
             THEN Take(Fetch(Pair([Blank EXCEPT !.on = TRUE], Drop(flight, All)), id, shows, c))
             ELSE UNCHANGED <<a, flight>>
  <2>1. PICK u \in Users \cup {None} :
          LET id == [user |-> u, rev |-> auth.rev + 1]
              c == IF u = auth.user THEN conv ELSE "idle"
          IN /\ auth' = id
             /\ IF a.on
                  THEN Take(Fetch(Pair([Blank EXCEPT !.on = TRUE], Drop(flight, All)), id, shows, c))
                  ELSE UNCHANGED <<a, flight>>
    BY DEF ActiveAuth
  <2> DEFINE id == [user |-> u, rev |-> auth.rev + 1]
  <2>2. auth' = id /\ id \in [user : Users \cup {None}, rev : Nat]
    BY <1>0, <2>1 DEF EnvTypes
  <2> HIDE DEF id
  <2> QED BY <2>1, <2>2 DEF id
<1>2. status' = status
  BY DEF ActiveAuth, server
<1> DEFINE v == [Blank EXCEPT !.on = TRUE]
           f == Drop(flight, All)
           t == Fetch(Pair(v, f), id, shows, c)
<1>3. CASE a.on
  <2>1. Take(t)
    BY <1>1, <1>3
  <2>2. InFlight(f, id, 0) /\ \A k : ~Waits(Cur(f), k)
    BY <1>0, DropAll
  <2>3. Cur(f) = {}
    BY <1>0, NothingReads
  <2>4. v.base = {} /\ v.cursor = NoCursor
    BY DEF Blank
  <2>5. OnIs(Pair(v, f), id) /\ Pair(v, f).v = v /\ Pair(v, f).f = f
    BY <2>2, BlankIs DEF Pair
  <2> HIDE DEF v, f
  <2>6. Reads(v, Cur(f), id, status)
    BY <2>3, <2>4, ReadsFresh
  <2>7. Pair(v, f).v \in ActiveTypes /\ InFlight(Pair(v, f).f, id, 0)
    BY <2>5 DEF OnIs, ActiveIs, ActiveFits
  <2>8. Reads(t.v, Cur(t.f), id, status)
    BY <1>1, <2>5, <2>6, <2>7, FetchReads
  <2> HIDE DEF t
  <2> QED BY <1>1, <1>2, <2>1, <2>8, TakeReads
<1>4. CASE ~a.on
  <2>1. a' = Blank /\ flight' = flight
    BY <1>1, <1>4, AwayWaits
  <2>2. \A r \in Cur(flight) : FALSE
    BY <1>4, AwayWaits DEF Waits
  <2>3. Blank.base = {} /\ Blank.cursor = NoCursor
    BY DEF Blank
  <2>4. Reads(Blank, Cur(flight), auth', status)
    BY <2>2, <2>3, ReadsFresh
  <2> QED BY <1>2, <2>1, <2>4
<1> QED BY <1>3, <1>4

LEMMA MountReads ==
  ASSUME IInv, Reading, shown = "active", ActiveMount
  PROVE  Reads(a', Cur(flight'), auth', status')
<1> DEFINE blank == [Blank EXCEPT !.on = TRUE]
           p == Pair(blank, flight)
           first == Fetch(p, auth, shows, conv)
           g == Drop(first.f, All)
           v == [first.v EXCEPT !.inFlight = FALSE]
           again == Fetch(Pair(v, g), auth, shows, conv)
<1>0. /\ ~a.on /\ auth' = auth /\ status' = status
      /\ Take(first) \/ Take(again)
  BY DEF ActiveMount, server, page
<1>1. auth \in [user : Users \cup {None}, rev : Nat]
  BY ActiveHas
<1>2. InFlight(flight, auth, 0) /\ (\A k : ~Waits(Cur(flight), k)) /\ Cur(flight) = {}
  BY <1>0, AwayWaits DEF Waits
<1>3. OnIs(p, auth) /\ p.v = blank /\ p.f = flight /\ blank.base = {} /\ blank.cursor = NoCursor
  BY <1>2, BlankIs DEF Pair, Blank
<1>4. OnIs(first, auth)
  BY <1>1, <1>3, FetchIs
<1> HIDE DEF blank, p
<1>5. Reads(p.v, Cur(p.f), auth, status) /\ p.v \in ActiveTypes /\ InFlight(p.f, auth, 0)
  BY <1>2, <1>3, ReadsFresh DEF OnIs, ActiveIs, ActiveFits
<1>6. Reads(first.v, Cur(first.f), auth, status)
  BY <1>1, <1>5, FetchReads
<1> HIDE DEF first
<1>7. first.v \in ActiveTypes /\ InFlight(first.f, auth, 0)
  BY <1>4 DEF OnIs, ActiveIs, ActiveFits
<1>8. Cur(g) = {} /\ InFlight(g, auth, 0)
  BY <1>7, NothingReads, DropAll
<1>9. /\ v \in ActiveTypes /\ v.base = first.v.base /\ v.cursor = first.v.cursor
      /\ v.list = first.v.list /\ v.ended = first.v.ended
  BY <1>7 DEF ActiveTypes
<1> HIDE DEF v, g
<1>10. Reads(v, Cur(g), auth, status)
  BY <1>6, <1>8, <1>9, ReadsFewer
<1>11. Pair(v, g).v = v /\ Pair(v, g).f = g
  BY DEF Pair
<1>12. Reads(again.v, Cur(again.f), auth, status)
  BY <1>1, <1>8, <1>9, <1>10, <1>11, FetchReads
<1> HIDE DEF again
<1> QED BY <1>0, <1>6, <1>12, TakeReads

LEMMA GoneReads ==
  ASSUME IInv, Reading, shown = "active", ActiveUnmount \/ ActiveAway
  PROVE  Reads(a', Cur(flight'), auth', status')
<1>1. CASE ActiveUnmount
  <2>1. a' = Blank /\ flight' = Drop(flight, All) /\ auth' = auth /\ status' = status
    BY <1>1 DEF ActiveUnmount, server
  <2>2. Cur(Drop(flight, All)) = {}
    BY ReadsNow, NothingReads
  <2>3. Blank.base = {} /\ Blank.cursor = NoCursor
    BY DEF Blank
  <2>4. Reads(Blank, {}, auth, status)
    BY <2>3, ReadsFresh
  <2> QED BY <2>1, <2>2, <2>4
<1>2. CASE ActiveAway
  <2>1. a' = a /\ flight' = flight /\ auth' = auth /\ status' = status
    BY <1>2 DEF ActiveAway, server
  <2> QED BY <2>1, StillReads
<1> QED BY <1>1, <1>2

LEMMA ActiveReads ==
  ASSUME IInv, Reading, shown = "active", ActiveNext
  PROVE  Reads(a', Cur(flight'), auth', status')
<1>1. CASE Click
  BY <1>1, RetryReads, LoadMoreReads, ConfirmReads, OwnerAssumption DEF Click
<1>2. CASE \E r \in flight : SettleActive(r)
  BY <1>2, SettleListReads, SettleOtherReads DEF SettleActive
<1>3. CASE StoreActs
  BY <1>3, StoreReads
<1>4. CASE (ServeList("active") \/ ServeEnd \/ CommitEnd \/ Elsewhere) /\ UNCHANGED <<conv, a>>
  BY <1>4, ServeReads, ElseReads
<1>5. CASE ActiveLifecycle \/ ActiveAuth \/ ActiveMount \/ ActiveUnmount \/ ActiveAway
  BY <1>5, LifecycleReads, AuthReads, MountReads, GoneReads
<1> QED BY <1>1, <1>2, <1>3, <1>4, <1>5 DEF ActiveNext

-----------------------------------------------------------------------------
(* The specification. *)

LEMMA InitIInv == Init => IInv
<1> SUFFICES ASSUME Init PROVE IInv
  OBVIOUS
<1>1. EnvTypes
  <2>1. Owner[1] \in Users
    BY OwnerAssumption
  <2>2. auth \in [user : Users \cup {None}, rev : Nat]
    BY <2>1 DEF Init, EnvInit
  <2>3. day \in [Sids -> Nat] /\ ending \subseteq Sids /\ today \in Nat \ {0}
    BY DEF Init, EnvInit
  <2>4. /\ status \in [Sids -> {"none", "active", "completed"}]
        /\ shows \in BOOLEAN /\ leaving \in BOOLEAN
        /\ conv \in {"idle", "starting", "session"} /\ shown \in {"active", "daily"}
    BY DEF Init, EnvInit
  <2> QED BY <2>2, <2>3, <2>4 DEF EnvTypes
<1>2. /\ flight = {} /\ a = Blank /\ d = Idle /\ conv = "idle"
  BY DEF Init, EnvInit
<1>3. Cur(flight) = {} /\ InFlight(flight, auth, 0) /\ \A k : ~Waits(Cur(flight), k)
  BY <1>2 DEF Cur, InFlight, Fit, Waits
<1>4. ActiveIs(a, flight, auth) /\ DailyIs(d, flight, auth, shows)
  BY <1>2, <1>3, BlankIs, IdleIs
<1> QED BY <1>1, <1>2, <1>4 DEF IInv

LEMMA NextIInv == IInv /\ [Next]_vars => IInv'
<1> SUFFICES ASSUME IInv, [Next]_vars PROVE IInv'
  OBVIOUS
<1>1. CASE shown = "active" /\ ActiveNext /\ UNCHANGED <<d, shown>>
  BY <1>1, ActiveKeeps
<1>2. CASE shown = "daily" /\ DailyNext /\ UNCHANGED <<conv, a, shown>>
  BY <1>2, DailyKeeps
<1>3. CASE UNCHANGED vars
  BY <1>3 DEF vars, server, page, IInv, EnvTypes, ActiveIs, DailyIs, DailyFits, DailyData, OfDay
<1> QED BY <1>1, <1>2, <1>3 DEF Next

\* What is not shown is as it was before.
LEMMA IdleFits == Idle \in DailyTypes /\ Blank \in ActiveTypes
<1>1. {} \in SUBSET Sids /\ NoIntent \in Intents
  BY DEF NoIntent, Intents
<1> QED BY <1>1, NoCursorIs DEF Idle, DailyTypes, Blank, ActiveTypes

LEMMA TypesHold == IInv => TypeOK
BY IdleFits DEF IInv, EnvTypes, ActiveIs, ActiveFits, DailyIs, DailyFits, InFlight, TypeOK

LEMMA SlotsHold == IInv => SlotsMatch
<1> SUFFICES ASSUME IInv PROVE SlotsMatch
  OBVIOUS
<1>1. \A kind : Waiting(kind) <=> Waits(Cur(flight), kind)
  BY DEF Waiting, Waits, Cur
<1>2. a \in ActiveTypes /\ d \in DailyTypes
  BY TypesHold DEF TypeOK
<1>3. \E id, w : Fit(Cur(flight), id, w)
  BY DEF IInv, EnvTypes, ActiveIs, DailyIs, InFlight
<1>4. ASSUME NEW kind \in All
      PROVE  Cardinality({r \in flight : r.kind = kind /\ r.cur}) <= 1
  <2> DEFINE S == {r \in flight : r.kind = kind /\ r.cur}
  <2>1. \A q, r \in S : q = r
    BY <1>3 DEF Fit, Cur
  <2>2. S = {} \/ \E r \in S : S = {r}
    BY <2>1
  <2> HIDE DEF S
  <2>3. Cardinality(S) \in {0, 1}
    BY <2>2, FS_EmptySet, FS_Singleton
  <2> QED BY <2>3 DEF S
<1>5. CASE shown = "active"
  <2>1. ActiveSlots(a, Cur(flight)) /\ d = Idle
    BY <1>5 DEF IInv, ActiveIs, ActiveFits
  <2>2. ~d.inFlight /\ ~d.moreInFlight /\ d.moreInFlight = d.loadingMore /\ ~d.on
    BY <2>1 DEF Idle
  <2>3. /\ a.inFlight = a.loading /\ a.moreInFlight = a.loadingMore
        /\ a.endInFlight = a.isEnding /\ a.resInFlight = a.isResuming
    BY <1>2, <2>1 DEF ActiveSlots, ActiveTypes
  <2> QED BY <1>1, <1>4, <2>1, <2>2, <2>3 DEF SlotsMatch, ActiveSlots
<1>6. CASE shown = "daily"
  <2>1. DailyFits(d, Cur(flight), auth, shows) /\ a = Blank
    BY <1>6 DEF IInv, DailyIs
  <2>2. /\ ~a.inFlight /\ ~a.moreInFlight /\ ~a.endInFlight /\ ~a.resInFlight
        /\ a.inFlight = a.loading /\ a.moreInFlight = a.loadingMore
        /\ a.endInFlight = a.isEnding /\ a.resInFlight = a.isResuming
    BY <2>1 DEF Blank
  <2>3. d.moreInFlight = d.loadingMore /\ (d.on => d.inFlight = d.loading)
    BY <1>2, <2>1 DEF DailyFits, DailySlots, DailyTimer, DailyTypes
  <2>4. ~Waits(Cur(flight), "end") /\ ~Waits(Cur(flight), "resume")
    BY <2>1 DEF DailyFits, DailySlots, Waits, Lists
  <2> QED BY <1>1, <1>4, <2>1, <2>2, <2>3, <2>4 DEF SlotsMatch, DailyFits, DailySlots
<1> QED BY <1>5, <1>6 DEF IInv, EnvTypes

LEMMA EndedHolds == IInv => EndedGone
BY DEF IInv, EnvTypes, ActiveIs, ActiveFits, EndedStays, EndedGone, Blank

LEMMA OwnHolds == IInv => OwnLists
<1> SUFFICES ASSUME IInv PROVE OwnLists
  OBVIOUS
<1>1. \A r \in flight : r.cur => ~Refused(r)
  BY DEF IInv, EnvTypes, ActiveIs, DailyIs, InFlight, Fit, Cur, RequestFits
<1>2. CASE shown = "active"
  <2>1. d.list = {} /\ d.timer = 0 /\ ~d.on /\ \A s \in a.list : Owner[s] = auth.user
    BY <1>2 DEF IInv, ActiveIs, ActiveFits, Idle
  <2> QED BY <1>1, <2>1 DEF OwnLists
<1>3. CASE shown = "daily"
  <2>1. a.list = {} /\ OfDay(d.list, auth.user, d.window) /\ DailyTimer(d, auth)
    BY <1>3 DEF IInv, DailyIs, DailyFits, DailyData, Blank
  <2> QED BY <1>1, <2>1 DEF OwnLists, OfDay, DailyTimer
<1> QED BY <1>2, <1>3 DEF IInv, EnvTypes

\* A page on its way misses nothing of what its list has still to read, and
\* repeats nothing of what it has.
LEMMA WholeHolds == IInv /\ Reading => NothingMissing
<1> SUFFICES ASSUME IInv, Reading PROVE NothingMissing
  OBVIOUS
<1>0. /\ TypeOK /\ Cur(flight) \subseteq Requests
      /\ \A r \in flight : r.cur => r \in Cur(flight)
  BY TypesHold DEF TypeOK, Cur
<1>1. Unlisted = Unread(a, status)
  BY DEF Unlisted, Unread
\* The page that r brings, to the list that it continues.
<1>2. ASSUME NEW r \in Requests, PageFits(r), NEW list \in SUBSET Sids, NEW S,
             Above(list, r.cursor), r.cursor # NoCursor, S \subseteq r.base, Ahead(S, r.cursor)
      PROVE  Ahead(S \ r.items, r.next) /\ r.items \cap list = {}
  <2>1. Ahead(S \ r.items, r.next)
    BY <1>2 DEF PageFits, Ahead
  <2>2. ASSUME NEW s \in r.items \cap list PROVE FALSE
    <3>1. s \in Nat /\ r.cursor.at \in Nat
      BY <2>2, OwnerAssumption DEF Requests, Cursors
    <3>2. s < r.cursor.at /\ r.cursor.at <= s
      BY <1>2, <2>2 DEF PageFits, Above
    <3> QED BY <3>1, <3>2
  <2> QED BY <2>1, <2>2
<1>3. CASE shown = "active"
  <2>1. /\ d.list = {} /\ ~d.on /\ a.list \subseteq Sids /\ Fit(Cur(flight), auth, 0)
        /\ Reads(a, Cur(flight), auth, status)
    BY <1>0, <1>3 DEF IInv, ActiveIs, InFlight, Idle, TypeOK, ActiveTypes, Reading
  <2>2. Ahead(Unlisted, a.cursor)
    BY <1>1, <2>1 DEF Reads
  <2>3. ASSUME NEW r \in flight, r.kind = "more", r.cur, r.st = "served"
        PROVE  Ahead(Unlisted \ r.items, r.next) /\ r.items \cap (a.list \cup d.list) = {}
    <3>1. r \in Cur(flight) /\ r \in Requests /\ PageFits(r)
      BY <1>0, <2>1, <2>3 DEF Fit, RequestFits, Lists
    <3>2. r.cursor = a.cursor /\ r.cursor # NoCursor /\ Unlisted \subseteq r.base
      BY <2>1, <2>3, <3>1 DEF Reads, Lists, Unlisted
    <3>3. Above(a.list, r.cursor)
      BY <2>1, <3>2 DEF Reads
    <3> QED BY <1>2, <2>1, <2>2, <3>1, <3>2, <3>3
  <2> QED BY <2>1, <2>2, <2>3 DEF NothingMissing
<1>4. CASE shown = "daily"
  <2>1. /\ DailyWhole(d, shows) /\ DailyData(d, Cur(flight), auth) /\ Fit(Cur(flight), auth, d.window)
        /\ a = Blank /\ d.list \subseteq Sids
    BY <1>0, <1>4 DEF IInv, DailyIs, DailyFits, InFlight, TypeOK, DailyTypes
  <2>2. Unlisted = {} /\ a.list = {}
    BY <2>1 DEF Unlisted, Blank
  <2>3. ASSUME NEW r \in flight, r.kind = "more", r.cur, r.st = "served"
        PROVE  Ahead(Unlisted \ r.items, r.next) /\ r.items \cap (a.list \cup d.list) = {}
    <3>1. r \in Cur(flight) /\ r \in Requests /\ PageFits(r)
      BY <1>0, <2>1, <2>3 DEF Fit, RequestFits, Lists
    <3>2. r.cursor # NoCursor /\ Above(d.list, r.cursor)
      BY <2>1, <2>3, <3>1 DEF DailyData
    <3>3. Ahead({}, r.cursor) /\ {} \subseteq r.base
      BY DEF Ahead
    <3> QED BY <1>2, <2>1, <2>2, <3>1, <3>2, <3>3
  <2> QED BY <2>1, <2>2, <2>3 DEF NothingMissing, DailyWhole, Ahead
<1> QED BY <1>3, <1>4 DEF IInv, EnvTypes

LEMMA SpecIInv == Spec => []IInv
<1> QED BY InitIInv, NextIInv, PTL DEF Spec

LEMMA InitReading == Init => Reading
<1> SUFFICES ASSUME Init PROVE Reading
  OBVIOUS
<1>1. a = Blank /\ Cur(flight) = {}
  BY DEF Init, EnvInit, Cur
<1>2. Blank.base = {} /\ Blank.cursor = NoCursor
  BY DEF Blank
<1>3. Reads(Blank, {}, auth, status)
  BY <1>2, ReadsFresh
<1> QED BY <1>1, <1>3 DEF Reading

LEMMA NextReading == IInv /\ Reading /\ [Next]_vars => Reading'
<1> SUFFICES ASSUME IInv, Reading, [Next]_vars PROVE Reading'
  OBVIOUS
<1>1. CASE shown = "active" /\ ActiveNext /\ UNCHANGED shown
  BY <1>1, ActiveReads, ReadingStep
<1>2. CASE shown = "daily" /\ UNCHANGED shown
  BY <1>2 DEF Reading
<1>3. CASE UNCHANGED vars
  BY <1>3 DEF vars, server, page, Reading
<1> QED BY <1>1, <1>2, <1>3 DEF Next

LEMMA SpecReading == Spec => [](IInv /\ Reading)
<1> QED BY SpecIInv, InitReading, NextReading, PTL DEF Spec

(* Whatever was clicked, given up, answered late or not at all: what a     *)
(* list of ActiveSessions.tsx or DailyProgress.tsx shows as under way is   *)
(* what its handlers take to be under way and one request that still       *)
(* counts, and a session that was ended here is not listed again.          *)
THEOREM ListsSound == Spec => []Inv
BY SpecIInv, TypesHold, SlotsHold, EndedHolds, PTL DEF Inv

(* Whoever signs in and however many days pass: the lists are the present  *)
(* account's, the daily one also of the day of its window, whose end its   *)
(* timer waits for, and no request that counts is one that decode_cursor   *)
(* of session_queries.py refuses.                                          *)
THEOREM ListsOwned == Spec => []OwnLists
BY SpecIInv, OwnHolds, PTL

(* However sessions start and end, here or elsewhere, between two pages    *)
(* that paginate_sessions cuts: none that the first page could have had is *)
(* passed over by the cursor that the handleLoadMore of either list sends  *)
(* back, whether the next page has arrived or is on its way, and what is   *)
(* listed is not repeated by it.                                           *)
THEOREM NothingLost == Spec => []NothingMissing
BY SpecReading, WholeHolds, PTL
=============================================================================
