--------------------------- MODULE ActiveSessions ---------------------------
(***************************************************************************)
(* The account's active sessions on the dashboard, with the ending and the *)
(* resuming of one of them (ActiveSessions.tsx).  What it shows and what   *)
(* it is doing are kept twice, in React state for the view and in refs for *)
(* the handlers; both are here.  Of the error notices only the list's is,  *)
(* whose retry is a fetch of its own.  One part of a is not of the code:   *)
(* base, what could be read when the first page was, for as long as the    *)
(* list can be continued from it.                                          *)
(*                                                                         *)
(* The conversation store is external to it: conv says whether a start is  *)
(* in flight there (the module Conversation models the store).             *)
(***************************************************************************)
EXTENDS SessionPages

VARIABLES
  conv,   \* "idle", "starting" or "session"
  a       \* the component, see Blank

NoIntent == [sid |-> 0, user |-> None, rev |-> 0]

Blank ==
  [on |-> FALSE, list |-> {}, cursor |-> NoCursor, base |-> {},
   inFlight |-> FALSE, loading |-> FALSE, error |-> FALSE,
   moreInFlight |-> FALSE, loadingMore |-> FALSE,
   endPanel |-> 0, endIntent |-> NoIntent, endInFlight |-> FALSE, isEnding |-> FALSE,
   ended |-> {},
   resPanel |-> 0, resIntent |-> NoIntent, resInFlight |-> FALSE, isResuming |-> FALSE]

All == {"first", "more", "end", "resume"}

\* A component and its requests, as one handler hands them to the next.
Pair(v, f) == [v |-> v, f |-> f]

\* The numbers of these kinds of request are advanced: their answers are not
\* looked at, so only what an end may still do on the server is kept.
Drop(f, kinds) ==
  {IF r.kind \notin kinds THEN r
   ELSE [Request(r, r.kind, 0, NoCursor, IF r.kind = "end" THEN r.sid ELSE 0)
           EXCEPT !.cur = FALSE, !.st = IF r.kind = "end" THEN r.st ELSE "sent"] : r \in f}

\* What ending and resuming do first: the list's requests no longer count.
VoidLists(v, f) ==
  Pair([v EXCEPT !.inFlight = FALSE, !.loading = FALSE,
                 !.moreInFlight = FALSE, !.loadingMore = FALSE],
       Drop(f, {"first", "more"}))

\* fetchActiveSessions
Fetch(p, id, li, c) ==
  LET v == p.v IN
    IF v.endInFlight \/ v.resInFlight \/ c = "starting" THEN p
    ELSE IF id.user = None
      THEN Pair([v EXCEPT !.list = {}, !.error = FALSE, !.loading = FALSE], p.f)
    ELSE IF ~li \/ v.inFlight THEN p
    ELSE Pair([v EXCEPT !.moreInFlight = FALSE, !.loadingMore = FALSE,
                        !.cursor = NoCursor, !.base = {},
                        !.inFlight = TRUE, !.loading = TRUE, !.error = FALSE],
              Drop(p.f, {"first", "more"}) \cup {Request(id, "first", 0, NoCursor, 0)})

Take(p) == a' = p.v /\ flight' = p.f /\ Cardinality(flight') <= MaxFlight

\* The user can click: the view is mounted and not being taken down.
Clickable == a.on /\ ~leaving
Busy == a.isEnding \/ a.isResuming \/ conv = "starting"

\* What the view offers: the two buttons of a row, the panel that asks again
\* before an end or a resumption, and the button under the list.
RowButtons(s) == Clickable /\ ~Busy /\ s \in a.list \ {a.endPanel, a.resPanel}
EndPanel(s) == Clickable /\ s \in a.list /\ s = a.endPanel /\ ~a.isEnding
ResumePanel(s) == Clickable /\ s \in a.list /\ s = a.resPanel /\ ~a.isResuming
MoreButton == Clickable /\ a.list # {} /\ a.cursor # NoCursor /\ ~a.loadingMore /\ ~Busy

-----------------------------------------------------------------------------
(* The list *)

Retry ==
  /\ Clickable /\ a.error /\ ~a.loading
  /\ Take(Fetch(Pair(a, flight), auth, shows, conv))
  /\ UNCHANGED <<server, page, conv>>

\* handleLoadMore
LoadMore ==
  /\ MoreButton
  /\ ~a.endInFlight /\ ~a.resInFlight /\ ~a.inFlight /\ ~a.moreInFlight
  /\ auth.user # None /\ shows
  /\ Take(Pair([a EXCEPT !.moreInFlight = TRUE, !.loadingMore = TRUE],
               Drop(flight, {"more"}) \cup {Request(auth, "more", 0, a.cursor, 0)}))
  /\ UNCHANGED <<server, page, conv>>

\* mutant: what has been ended meanwhile is listed again
ListedRevived(v, r) ==
  [v EXCEPT !.list = IF r.kind = "first" THEN r.items ELSE v.list \cup r.items,
            !.cursor = r.next]

\* A page arrives: what was ended here is not listed again.
Listed(v, r) ==
  [v EXCEPT !.list = (IF r.kind = "first" THEN {} ELSE v.list) \cup (r.items \ v.ended),
            !.base = IF r.kind = "first" THEN r.base ELSE @,
            !.cursor = r.next]

\* The answer of a list request, or its failure, and its finally.
SettleFirst(r, ok) ==
  /\ r.kind = "first" /\ (ok => r.st = "served")
  /\ flight' = flight \ {r}
  /\ LET v1 == IF ~Counts(r) THEN a
               ELSE IF ok THEN [Listed(a, r) EXCEPT !.error = FALSE]
               ELSE [a EXCEPT !.error = TRUE]
         v2 == IF r.cur THEN [v1 EXCEPT !.inFlight = FALSE] ELSE v1
     IN a' = IF Counts(r) THEN [v2 EXCEPT !.loading = FALSE] ELSE v2
  /\ UNCHANGED <<server, page, conv>>

SettleMore(r, ok) ==
  /\ r.kind = "more" /\ (ok => r.st = "served")
  /\ flight' = flight \ {r}
  /\ LET v1 == IF ~Counts(r) THEN a
               ELSE IF ok THEN Listed(a, r) ELSE a
         v2 == IF r.cur THEN [v1 EXCEPT !.moreInFlight = FALSE] ELSE v1
     IN a' = IF Counts(r) THEN [v2 EXCEPT !.loadingMore = FALSE] ELSE v2
  /\ UNCHANGED <<server, page, conv>>

-----------------------------------------------------------------------------
(* Ending a session *)

Intent(s) == [sid |-> s, user |-> auth.user, rev |-> auth.rev]

\* The identity is the one the intent was formed under.
SameIdentity(intent) == auth.user = intent.user /\ auth.rev = intent.rev

StartConfirm(s) ==
  /\ RowButtons(s)
  /\ ~a.endInFlight /\ ~a.resInFlight /\ auth.user # None
  /\ a' = [a EXCEPT !.resIntent = NoIntent, !.endIntent = Intent(s),
                    !.endPanel = s, !.resPanel = 0]
  /\ flight' = Drop(flight, {"resume"})
  /\ UNCHANGED <<server, page, conv>>

CancelConfirm ==
  /\ EndPanel(a.endPanel) /\ ~a.endInFlight
  /\ a' = [a EXCEPT !.endIntent = NoIntent, !.endPanel = 0]
  /\ UNCHANGED <<server, page, conv, flight>>

\* handleConfirmEnd, also the retry after an error
ConfirmEnd(s) ==
  /\ EndPanel(s)
  /\ ~a.endInFlight /\ ~a.resInFlight /\ conv # "starting"
  /\ a.endIntent.sid = s /\ SameIdentity(a.endIntent) /\ shows
  /\ LET p == VoidLists(a, flight)
     IN Take(Pair([p.v EXCEPT !.endInFlight = TRUE, !.isEnding = TRUE],
                  Drop(p.f, {"end"}) \cup {Request(a.endIntent, "end", 0, NoCursor, s)}))
  /\ UNCHANGED <<server, page, conv>>

SettleEnd(r, ok) ==
  /\ r.kind = "end" /\ (ok => r.st = "served")
  /\ flight' = flight \ {r}
  /\ LET v1 == IF ~Counts(r) THEN a
               ELSE IF ok THEN [a EXCEPT !.ended = @ \cup {r.sid}, !.list = @ \ {r.sid},
                                         !.endIntent = NoIntent, !.endPanel = 0]
               ELSE a
         v2 == IF r.cur THEN [v1 EXCEPT !.endInFlight = FALSE] ELSE v1
     IN a' = IF Counts(r) THEN [v2 EXCEPT !.isEnding = FALSE] ELSE v2
  /\ UNCHANGED <<server, page, conv>>

-----------------------------------------------------------------------------
(* Resuming a session, and the store's starts *)

StartResumeConfirm(s) ==
  /\ RowButtons(s)
  /\ ~a.endInFlight /\ ~a.resInFlight /\ auth.user # None
  /\ a' = [a EXCEPT !.resIntent = Intent(s), !.resPanel = s, !.endPanel = 0]
  /\ flight' = Drop(flight, {"resume"})
  /\ UNCHANGED <<server, page, conv>>

CancelResume ==
  /\ ResumePanel(a.resPanel) /\ ~a.resInFlight
  /\ a' = [a EXCEPT !.resIntent = NoIntent, !.resPanel = 0]
  /\ flight' = Drop(flight, {"resume"})
  /\ UNCHANGED <<server, page, conv>>

\* handleConfirmResume up to the call of the store, which takes the slot for
\* starts unless it refuses.
ConfirmResume(s) ==
  /\ ResumePanel(s)
  /\ ~a.resInFlight /\ ~a.endInFlight /\ conv = "idle"
  /\ a.resIntent.sid = s /\ SameIdentity(a.resIntent) /\ shows
  /\ LET p == VoidLists(a, flight)
     IN Take(Pair([p.v EXCEPT !.resInFlight = TRUE, !.isResuming = TRUE],
                  Drop(p.f, {"resume"}) \cup {Request(a.resIntent, "resume", 0, NoCursor, s)}))
  /\ conv' \in {"idle", "starting"}
  /\ UNCHANGED <<server, page>>

\* The store's promise settles once the start is over.
SettleResume(r, ok) ==
  /\ r.kind = "resume"
  /\ r.cur => IF ok THEN conv = "session" ELSE conv = "idle"
  /\ flight' = flight \ {r}
  /\ LET v1 == IF ~Counts(r) THEN a
               ELSE IF ok THEN [a EXCEPT !.resIntent = NoIntent, !.resPanel = 0]
               ELSE a
         v2 == IF r.cur THEN [v1 EXCEPT !.resInFlight = FALSE] ELSE v1
     IN a' = IF Counts(r) THEN [v2 EXCEPT !.isResuming = FALSE] ELSE v2
  /\ UNCHANGED <<server, page, conv>>

\* A practice is started from elsewhere on the dashboard.
StoreStarts ==
  /\ Clickable /\ conv = "idle" /\ ~a.resInFlight
  /\ conv' = "starting"
  /\ UNCHANGED <<server, page, a, flight>>

\* The start gets as far as its credentials and the dashboard gives way, or
\* it fails.
StoreEnds ==
  /\ conv = "starting" /\ ~leaving
  /\ \/ conv' = "session" /\ leaving' = TRUE
     \/ conv' = "idle" /\ UNCHANGED leaving
  /\ UNCHANGED <<server, auth, shows, a, flight>>

\* The subscription to the store, told that it is idle in a new generation.
Release(p) ==
  IF p.v.resInFlight
    THEN Pair([p.v EXCEPT !.resInFlight = FALSE, !.isResuming = FALSE], Drop(p.f, {"resume"}))
    ELSE p

\* reset and goHome
StoreCancels ==
  /\ conv = "starting" /\ Clickable
  /\ conv' = "idle"
  /\ Take(Release(Pair(a, flight)))
  /\ UNCHANGED <<server, page>>

StoreHome ==
  /\ conv = "session" /\ ~leaving
  /\ conv' = "idle"
  /\ UNCHANGED <<server, page, a, flight>>

-----------------------------------------------------------------------------
(* Lifecycle, identity, mounting *)

\* What a page that goes away or offline gives up at once; an end that was
\* sent is not given up.
Suspended(v, f) ==
  LET p == VoidLists(v, f) IN Release(Pair([p.v EXCEPT !.cursor = NoCursor, !.base = {}], p.f))

\* handleLifecycleEvent: the page is shown and online, also when it was
\* before, or it is not.  The handler's own isStarting is that of the mount,
\* FALSE; the fetch asks the store.  The store's own listener comes later and
\* cancels a start when the page is hidden or offline.
ActiveLifecycle ==
  /\ a.on /\ ~leaving
  /\ \/ /\ shows' = TRUE
        /\ Take(Fetch(Pair(a, flight), auth, TRUE, conv))
        /\ UNCHANGED conv
     \/ /\ shows' = FALSE
        /\ Take(Suspended(a, flight))
        /\ conv' = IF conv = "starting" THEN "idle" ELSE conv
  /\ UNCHANGED <<server, auth, leaving>>

\* handleSnapshotChange.  The gate resets the store before it for another
\* account and takes the view down after it; for the same account the store
\* cancels a start after it.
ActiveAuth ==
  /\ auth.rev < MaxRev
  /\ \E u \in Users \cup {None} :
       LET id == [user |-> u, rev |-> auth.rev + 1]
           c == IF u = auth.user THEN conv ELSE "idle"
       IN /\ auth' = id
          /\ IF a.on
               THEN Take(Fetch(Pair([Blank EXCEPT !.on = TRUE], Drop(flight, All)), id, shows, c))
               ELSE UNCHANGED <<a, flight>>
          /\ leaving' = (leaving \/ (a.on /\ u # auth.user))
          /\ conv' = IF c = "starting" THEN "idle" ELSE c
  /\ UNCHANGED <<server, shows>>

\* Every way to the dashboard leaves the store idle.  In StrictMode the effect
\* is run, cleaned up and run again.
ActiveMount ==
  /\ ~a.on /\ auth.user # None /\ conv = "idle"
  /\ \E strict \in BOOLEAN :
       LET first == Fetch(Pair([Blank EXCEPT !.on = TRUE], flight), auth, shows, conv)
           again == Fetch(Pair([first.v EXCEPT !.inFlight = FALSE], Drop(first.f, All)),
                          auth, shows, conv)
       IN Take(IF strict THEN again ELSE first)
  /\ UNCHANGED <<server, page, conv>>

ActiveUnmount ==
  /\ a.on /\ leaving
  /\ leaving' = FALSE
  /\ a' = Blank /\ flight' = Drop(flight, All)
  /\ UNCHANGED <<server, auth, shows, conv>>

\* The page's lifecycle goes on without the view.
ActiveAway ==
  /\ ~a.on
  /\ shows' = ~shows
  /\ UNCHANGED <<server, auth, leaving, conv, a, flight>>

Click ==
  \/ Retry \/ LoadMore \/ CancelConfirm \/ CancelResume
  \/ \E s \in Sids : StartConfirm(s) \/ ConfirmEnd(s) \/ StartResumeConfirm(s) \/ ConfirmResume(s)

SettleActive(r) ==
  \E ok \in BOOLEAN :
    SettleFirst(r, ok) \/ SettleMore(r, ok) \/ SettleEnd(r, ok) \/ SettleResume(r, ok)

StoreActs == StoreStarts \/ StoreEnds \/ StoreCancels \/ StoreHome

ActiveNext ==
  \/ Click \/ StoreActs
  \/ \E r \in flight : SettleActive(r)
  \/ ServeList("active") /\ UNCHANGED <<conv, a>>
  \/ (ServeEnd \/ CommitEnd \/ Elsewhere) /\ UNCHANGED <<conv, a>>
  \/ ActiveLifecycle \/ ActiveAuth \/ ActiveMount \/ ActiveUnmount \/ ActiveAway
=============================================================================
