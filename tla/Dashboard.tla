------------------------------ MODULE Dashboard ------------------------------
(***************************************************************************)
(* The two lists of sessions on the dashboard, over one server.  They do   *)
(* not share any state of the page beyond its identity and its lifecycle,  *)
(* which no list changes: a behaviour shows one of them.                   *)
(***************************************************************************)
EXTENDS ActiveSessions, DailyProgress

VARIABLE shown   \* "active" or "daily"

vars == <<server, page, flight, conv, a, d, shown>>

Init ==
  /\ EnvInit
  /\ conv = "idle" /\ a = Blank /\ d = Idle
  /\ shown \in {"active", "daily"}

Next ==
  /\ \/ shown = "active" /\ ActiveNext /\ UNCHANGED d
     \/ shown = "daily" /\ DailyNext /\ UNCHANGED <<conv, a>>
  /\ UNCHANGED shown

\* A request is answered or fails within the client's limit of ten seconds;
\* a start in the store is over after its own limits; a timer fires when it is
\* due; React takes down what is to go.
Fairness ==
  /\ WF_vars(shown = "active" /\ (\E r \in flight : r.cur /\ SettleActive(r))
             /\ UNCHANGED <<d, shown>>)
  /\ WF_vars(shown = "active" /\ StoreEnds /\ UNCHANGED <<d, shown>>)
  /\ WF_vars(shown = "daily" /\ (\E r \in flight : ~r.cur /\ SettleDaily(r))
             /\ UNCHANGED <<conv, a, shown>>)
  /\ WF_vars(shown = "daily" /\ d.timer < today /\ Midnight /\ UNCHANGED <<conv, a, shown>>)
  /\ WF_vars(shown = "daily" /\ DailyUnmount /\ UNCHANGED <<conv, a, shown>>)

Spec == Init /\ [][Next]_vars /\ Fairness

-----------------------------------------------------------------------------
Cursors == [user : Users \cup {None}, w : Nat, at : Nat]

Requests ==
  [kind : All, cur : BOOLEAN, user : Users, rev : Nat, w : Nat, cursor : Cursors,
   sid : Nat, st : {"sent", "served"}, items : SUBSET Sids, base : SUBSET Sids,
   next : Cursors]

Intents == [sid : Sids \cup {0}, user : Users \cup {None}, rev : Nat]

ActiveTypes ==
  [on : BOOLEAN, list : SUBSET Sids, cursor : Cursors, base : SUBSET Sids,
   inFlight : BOOLEAN, loading : BOOLEAN, error : BOOLEAN,
   moreInFlight : BOOLEAN, loadingMore : BOOLEAN,
   endPanel : Sids \cup {0}, endIntent : Intents, endInFlight : BOOLEAN, isEnding : BOOLEAN,
   ended : SUBSET Sids,
   resPanel : Sids \cup {0}, resIntent : Intents, resInFlight : BOOLEAN, isResuming : BOOLEAN]

DailyTypes ==
  [on : BOOLEAN, list : SUBSET Sids, cursor : Cursors, stats : BOOLEAN, base : SUBSET Sids,
   window : Nat, timer : Nat, inFlight : BOOLEAN, loading : BOOLEAN, error : BOOLEAN,
   moreInFlight : BOOLEAN, loadingMore : BOOLEAN]

TypeOK ==
  /\ status \in [Sids -> {"none", "active", "completed"}]
  /\ day \in [Sids -> Nat] /\ ending \subseteq Sids /\ today \in Nat \ {0}
  /\ auth \in [user : Users \cup {None}, rev : Nat]
  /\ shows \in BOOLEAN /\ leaving \in BOOLEAN
  /\ conv \in {"idle", "starting", "session"} /\ shown \in {"active", "daily"}
  /\ flight \subseteq Requests
  /\ a \in ActiveTypes /\ d \in DailyTypes

\* Whether a request of the kind still counts.
Waiting(kind) == \E r \in flight : r.kind = kind /\ r.cur

(* What the view shows as under way is what the handlers take to be under  *)
(* way, and that is one request that still counts: no slot is taken by an  *)
(* answer that nobody will look at, whatever was given up in between, and  *)
(* no two answers to one slot can both be used.                            *)
SlotsMatch ==
  /\ a.inFlight = a.loading /\ a.moreInFlight = a.loadingMore
  /\ a.endInFlight = a.isEnding /\ a.resInFlight = a.isResuming
  /\ d.moreInFlight = d.loadingMore /\ (d.on => d.inFlight = d.loading)
  /\ Waiting("first") <=> a.inFlight \/ d.inFlight
  /\ Waiting("more") <=> a.moreInFlight \/ d.moreInFlight
  /\ Waiting("end") <=> a.endInFlight
  /\ Waiting("resume") <=> a.resInFlight
  /\ \A kind \in All : Cardinality({r \in flight : r.kind = kind /\ r.cur}) <= 1

(* A session that was ended here is not listed again, although the server  *)
(* may go on listing it until the end is committed and pages read before   *)
(* are still on their way; and while a session is being ended or resumed   *)
(* the list it was chosen from stands still.                               *)
EndedGone ==
  /\ a.list \cap a.ended = {}
  /\ ~(a.endInFlight /\ a.resInFlight)
  /\ a.endInFlight \/ a.resInFlight => ~a.inFlight /\ ~a.moreInFlight
  /\ a.isEnding => a.endPanel \in a.list /\ a.endPanel = a.endIntent.sid

Inv == TypeOK /\ SlotsMatch /\ EndedGone

(* Each list is the present account's and, on the daily view, of the day   *)
(* its window says, whichever answers are late, whoever signed in and      *)
(* however often the day changed meanwhile; the timer that replaces the    *)
(* window is set for that day; and no page is asked for with a cursor of   *)
(* another account or day, which the server refuses.                       *)
OwnLists ==
  /\ \A s \in a.list \cup d.list : Owner[s] = auth.user
  /\ \A s \in d.list : day[s] = d.window /\ status[s] = "completed"
  /\ d.timer # 0 => d.timer = d.window
  /\ d.on /\ auth.user # None => d.timer # 0
  /\ \A r \in flight : r.cur => ~Refused(r)

\* What has still to be read is before the cursor.
Ahead(S, cursor) == \A s \in S : cursor # NoCursor /\ s < cursor.at

\* What could be read with the first page and is neither shown nor over.
Unlisted == {s \in a.base : status[s] = "active"} \ (a.list \cup a.ended)

(* Pages are read one by one while other devices create sessions and end   *)
(* them, so that the rows a page is cut from are not those of the page     *)
(* before: a row may have left the active sessions, or come in between two *)
(* of the completed ones.  What was there when the first page was read and *)
(* is not shown is still to come with the cursor, or is in the page that   *)
(* is on its way or after it; and that page repeats nothing that is shown. *)
NothingMissing ==
  /\ Ahead(Unlisted, a.cursor)
  /\ d.on /\ d.stats /\ ~d.inFlight /\ ~d.error /\ shows => Ahead(d.base \ d.list, d.cursor)
  /\ \A r \in flight : r.kind = "more" /\ r.cur /\ r.st = "served" =>
       /\ Ahead(Unlisted \ r.items, r.next)
       /\ r.items \cap (a.list \cup d.list) = {}

(* A resume does not stay under way for ever, also when the store gives it *)
(* up, and a day that is over is not shown for ever to a user who stays,   *)
(* however early or often the timer and the lifecycle bring a new fetch.   *)
Settles ==
  /\ a.isResuming ~> ~a.isResuming
  /\ (d.on /\ auth.user # None /\ d.window # today)
       ~> (~d.on \/ auth.user = None \/ d.window = today)
=============================================================================
