---------------------------- MODULE DailyProgress ----------------------------
(***************************************************************************)
(* The sessions completed today and the progress towards the day's goal    *)
(* (DailyProgress.tsx).  The window is the local day the data are of; a    *)
(* timer set for its end fetches those of the next.  The two requests of a *)
(* fetch are one: their answers are used together or not at all.  The      *)
(* figures themselves are left out.                                        *)
(***************************************************************************)
EXTENDS SessionPages

VARIABLE
  d   \* the component, see Idle

Idle ==
  [on |-> FALSE, list |-> {}, cursor |-> NoCursor, stats |-> FALSE, base |-> {},
   window |-> 0, timer |-> 0,
   inFlight |-> FALSE, loading |-> TRUE, error |-> FALSE,
   moreInFlight |-> FALSE, loadingMore |-> FALSE]

\* What is shown is forgotten.
Forget(v) ==
  [v EXCEPT !.inFlight = FALSE, !.moreInFlight = FALSE, !.stats = FALSE, !.list = {},
            !.base = {}, !.cursor = NoCursor, !.error = FALSE, !.loadingMore = FALSE]

Lists == {"first", "more"}

\* mutant: the window is taken over, what it was of is kept
SetWindowKeeps(v) == [v EXCEPT !.window = today, !.timer = today]

\* mutant: a timer is set only with a new window
SetWindowOnce(v) ==
  IF v.window # today THEN [Forget(v) EXCEPT !.window = today, !.timer = today] ELSE v

\* The window of today and a timer for its end; data of another day go.
SetWindow(v) ==
  [(IF v.window # today THEN Forget(v) ELSE v) EXCEPT !.window = today, !.timer = today]

\* fetchDailyData: what it does to the component and to the requests.  Unlike
\* the list of active sessions it supersedes a fetch in flight.
FetchDaily(v, f, id, li) ==
  LET w == SetWindow(v)
      g == IF v.window # today THEN Void(f, Lists) ELSE f
  IN /\ IF id.user = None
          THEN /\ d' = [Forget(v) EXCEPT !.inFlight = v.inFlight, !.moreInFlight = v.moreInFlight,
                                         !.loading = FALSE, !.timer = 0]
               /\ flight' = f
          ELSE IF ~li
          THEN d' = [w EXCEPT !.loading = FALSE] /\ flight' = g
          ELSE /\ d' = [w EXCEPT !.inFlight = TRUE, !.loading = TRUE, !.error = FALSE,
                                 !.moreInFlight = FALSE, !.loadingMore = FALSE]
               /\ flight' = Void(g, Lists) \cup {Request(id, "first", today, NoCursor, 0)}
     /\ Cardinality(flight') <= MaxFlight

-----------------------------------------------------------------------------
\* The retry under an error.
RetryDaily ==
  /\ d.on /\ ~leaving /\ d.error /\ ~d.loading
  /\ FetchDaily(d, flight, auth, shows)
  /\ UNCHANGED <<server, page>>

\* The timer fires when its day is over, or early; it is set anew either way.
Midnight ==
  /\ d.on /\ ~leaving /\ d.timer # 0
  /\ FetchDaily([d EXCEPT !.timer = 0], flight, auth, shows)
  /\ UNCHANGED <<server, page>>

\* handleLoadMore; the button is under a list that is shown and not empty.
\* The button under the list, which is rendered with the day's figures.
MoreDailyButton ==
  /\ d.on /\ ~leaving /\ d.stats /\ ~d.loading /\ ~d.error
  /\ d.list # {} /\ d.cursor # NoCursor /\ ~d.loadingMore

MoreDaily ==
  /\ MoreDailyButton /\ ~d.inFlight /\ ~d.moreInFlight
  /\ auth.user # None /\ shows
  /\ d' = [d EXCEPT !.moreInFlight = TRUE, !.loadingMore = TRUE]
  /\ flight' = Void(flight, {"more"}) \cup {Request(auth, "more", d.window, d.cursor, 0)}
  /\ Cardinality(flight') <= MaxFlight
  /\ UNCHANGED <<server, page>>

SettleFirstDaily(r, ok) ==
  /\ r.kind = "first" /\ (ok => r.st = "served")
  /\ flight' = flight \ {r}
  /\ LET v1 == IF ~Counts(r) THEN d
               ELSE IF ok THEN [d EXCEPT !.list = r.items, !.base = r.base, !.cursor = r.next,
                                         !.stats = TRUE, !.error = FALSE]
               ELSE [d EXCEPT !.error = TRUE]
         v2 == IF r.cur THEN [v1 EXCEPT !.inFlight = FALSE] ELSE v1
     IN d' = IF Counts(r) THEN [v2 EXCEPT !.loading = FALSE] ELSE v2
  /\ UNCHANGED <<server, page>>

SettleMoreDaily(r, ok) ==
  /\ r.kind = "more" /\ (ok => r.st = "served")
  /\ flight' = flight \ {r}
  /\ LET v1 == IF ~Counts(r) THEN d
               ELSE IF ok THEN [d EXCEPT !.list = @ \cup r.items, !.cursor = r.next]
               ELSE d
         v2 == IF r.cur THEN [v1 EXCEPT !.moreInFlight = FALSE] ELSE v1
     IN d' = IF Counts(r) THEN [v2 EXCEPT !.loadingMore = FALSE] ELSE v2
  /\ UNCHANGED <<server, page>>

-----------------------------------------------------------------------------
(* Lifecycle, identity, mounting *)

\* A page that goes away or offline gives its requests up and the cursor.
GiveUp(v) ==
  [v EXCEPT !.inFlight = FALSE, !.loading = IF v.inFlight THEN FALSE ELSE @,
            !.moreInFlight = FALSE, !.loadingMore = FALSE,
            !.cursor = NoCursor]

DailyLifecycle ==
  /\ d.on /\ ~leaving
  /\ \/ /\ shows' = TRUE
        /\ FetchDaily(d, flight, auth, TRUE)
     \/ /\ shows' = FALSE
        /\ d' = GiveUp(d) /\ flight' = Void(flight, Lists)
  /\ UNCHANGED <<server, auth, leaving>>

DailyAuth ==
  /\ auth.rev < MaxRev
  /\ \E u \in Users \cup {None} :
       LET id == [user |-> u, rev |-> auth.rev + 1]
           v == [Forget(d) EXCEPT !.loading = FALSE]
       IN /\ auth' = id
          /\ leaving' = (leaving \/ (d.on /\ u # auth.user))
          /\ IF ~d.on THEN UNCHANGED <<d, flight>>
             ELSE IF u = None THEN d' = [v EXCEPT !.timer = 0] /\ flight' = Void(flight, Lists)
             ELSE FetchDaily(v, Void(flight, Lists), id, shows)
  /\ UNCHANGED <<server, shows>>

\* In StrictMode the effect is run, cleaned up and run again: the first
\* fetch, if any, is one that no longer counts.
DailyMount ==
  /\ ~d.on /\ auth.user # None
  /\ \E strict \in BOOLEAN :
       FetchDaily([Idle EXCEPT !.on = TRUE, !.window = IF strict THEN today ELSE 0],
                  IF strict /\ shows
                    THEN flight \cup {[Request(auth, "first", today, NoCursor, 0) EXCEPT !.cur = FALSE]}
                    ELSE flight,
                  auth, shows)
  /\ UNCHANGED <<server, page>>

\* The dashboard gives way to another view.
DailyLeave ==
  /\ d.on /\ ~leaving
  /\ leaving' = TRUE
  /\ UNCHANGED <<server, auth, shows, d, flight>>

DailyUnmount ==
  /\ d.on /\ leaving
  /\ leaving' = FALSE
  /\ d' = Idle /\ flight' = Void(flight, Lists)
  /\ UNCHANGED <<server, auth, shows>>

DailyAway ==
  /\ ~d.on
  /\ shows' = ~shows
  /\ UNCHANGED <<server, auth, leaving, d, flight>>

SettleDaily(r) == \E ok \in BOOLEAN : SettleFirstDaily(r, ok) \/ SettleMoreDaily(r, ok)

DailyNext ==
  \/ RetryDaily \/ Midnight \/ MoreDaily
  \/ \E r \in flight : SettleDaily(r)
  \/ ServeList("completed") /\ UNCHANGED d
  \/ (Elsewhere \/ DayPasses) /\ UNCHANGED d
  \/ DailyLifecycle \/ DailyAuth \/ DailyMount \/ DailyLeave \/ DailyUnmount \/ DailyAway
=============================================================================
