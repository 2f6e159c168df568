---------------------------- MODULE SessionPages ----------------------------
(***************************************************************************)
(* What the lists on the dashboard share: the sessions on the server, read *)
(* page by page with a keyset cursor (session_queries.py), the identity    *)
(* and the lifecycle of the page, and the requests in flight.              *)
(*                                                                         *)
(* A session is its place in the order of started_at and id.  A request's  *)
(* number only says whether its answer still counts, so a request carries  *)
(* that: cur.  Statuses other than active and completed are left out, and  *)
(* so is what a page that does not fit its cursor's form is refused for.   *)
(***************************************************************************)
EXTENDS FiniteSetsExt, Naturals

CONSTANTS
  Users,      \* the accounts that sign in
  None,       \* nobody is signed in
  Owner,      \* Owner[s]: whose session s is
  Limit,      \* sessions per page
  MaxDay,     \* bound on the days that pass
  MaxRev,     \* bound on the auth revision
  MaxFlight   \* bound on the requests in flight

Sids == DOMAIN Owner

ASSUME OwnerAssumption ==
  1 \in Sids /\ Sids \subseteq Nat \ {0} /\ IsFiniteSet(Sids) /\ Owner \in [Sids -> Users]
ASSUME NoneAssumption == None \notin Users
ASSUME LimitAssumption == Limit \in Nat \ {0}
ASSUME BoundsAssumption == {MaxDay, MaxRev, MaxFlight} \subseteq Nat \ {0}

VARIABLES
  status,   \* status[s]: "none", "active" or "completed"
  day,      \* day[s]: the local day it was started on
  ending,   \* sessions whose end is written but not committed
  today,    \* the local day
  auth,     \* [user, rev]: the snapshot's principal and its revision
  shows,    \* the lifecycle adapter's snapshot: visible and online
  leaving,  \* React is about to take the view down
  flight    \* the requests in flight

server == <<status, day, ending, today>>
page == <<auth, shows, leaving>>

NoCursor == [user |-> None, w |-> 0, at |-> 0]

EnvInit ==
  /\ status \in [Sids -> {"none", "active", "completed"}]
  /\ day = [s \in Sids |-> 1]
  /\ ending = {} /\ today = 1
  /\ auth = [user |-> Owner[1], rev |-> 1]
  /\ shows \in BOOLEAN
  /\ leaving = FALSE
  /\ flight = {}

-----------------------------------------------------------------------------
(* Reading a page *)

\* The rows of one user and status; day 0 stands for no window.
Rows(user, st, w) ==
  {s \in Sids : Owner[s] = user /\ status[s] = st /\ w \in {0, day[s]}}

Newest(n, S) == {s \in S : Cardinality({t \in S : t > s}) < n}

\* mutant: the cursor is how many rows have been read, counted down from the
\* newest session there can be
PageByOffset(user, st, w, cursor) ==
  LET top == Max(Sids) + 1
      skip == IF cursor = NoCursor THEN 0 ELSE top - cursor.at
      rows == Rows(user, st, w)
      rest == rows \ Newest(skip, rows)
      items == Newest(Limit, rest)
  IN [items |-> items, base |-> rows,
      next |-> IF Cardinality(rest) > Limit
                 THEN [user |-> user, w |-> w, at |-> top - (skip + Cardinality(items))]
                 ELSE NoCursor]

\* paginate_sessions: one row more than the limit is asked for, to know
\* whether there is another page; base is what could be read.
Page(user, st, w, cursor) ==
  LET rows == {s \in Rows(user, st, w) : cursor = NoCursor \/ s < cursor.at}
      items == Newest(Limit, rows)
  IN [items |-> items, base |-> Rows(user, st, w),
      next |-> IF Cardinality(rows) > Limit THEN [user |-> user, w |-> w, at |-> Min(items)]
               ELSE NoCursor]

\* decode_cursor: a cursor is for one user and one window.
Refused(r) ==
  r.cursor # NoCursor /\ (r.cursor.user # r.user \/ r.cursor.w # r.w)

-----------------------------------------------------------------------------
(* Requests *)

Request(id, kind, w, cursor, sid) ==
  [kind |-> kind, cur |-> TRUE, user |-> id.user, rev |-> id.rev, w |-> w,
   cursor |-> cursor, sid |-> sid, st |-> "sent", items |-> {}, base |-> {},
   next |-> NoCursor]

\* The numbers of these kinds of request are advanced.
Void(f, kinds) == {IF r.kind \in kinds THEN [r EXCEPT !.cur = FALSE] ELSE r : r \in f}

\* The request is the last of its kind, for the identity of now.
Counts(r) == r.cur /\ r.user = auth.user /\ r.rev = auth.rev

\* One that no longer counts may go unanswered.
ServeList(st) ==
  \E r \in flight :
    /\ r.kind \in {"first", "more"} /\ r.st = "sent" /\ r.cur /\ ~Refused(r)
    /\ LET p == Page(r.user, st, r.w, r.cursor)
       IN flight' = (flight \ {r}) \cup
            {[r EXCEPT !.st = "served", !.items = p.items, !.base = p.base, !.next = p.next]}
    /\ UNCHANGED <<server, page>>

\* end_session: the row is locked until the commit, which may come after the
\* answer or not at all.
ServeEnd ==
  \E r \in flight :
    /\ r.kind = "end" /\ r.st = "sent" /\ r.sid \notin ending
    /\ flight' = (flight \ {r}) \cup {[r EXCEPT !.st = "served"]}
    /\ ending' = IF status[r.sid] = "active" THEN ending \cup {r.sid} ELSE ending
    /\ UNCHANGED <<status, day, today, page>>

CommitEnd ==
  \E s \in ending, committed \in BOOLEAN :
    /\ ending' = ending \ {s}
    /\ status' = IF committed THEN [status EXCEPT ![s] = "completed"] ELSE status
    /\ UNCHANGED <<day, today, page, flight>>

\* Other devices create sessions, which may be committed out of order, and
\* end them.
Create ==
  \E s \in Sids :
    /\ status[s] = "none"
    /\ \A t \in Sids : t > s /\ status[t] # "none" => day[t] = today
    /\ status' = [status EXCEPT ![s] = "active"]
    /\ day' = [day EXCEPT ![s] = today]
    /\ UNCHANGED <<ending, today, page, flight>>

EndElsewhere ==
  \E s \in Sids \ ending :
    /\ status[s] = "active"
    /\ status' = [status EXCEPT ![s] = "completed"]
    /\ UNCHANGED <<ending, day, today, page, flight>>

DayPasses ==
  /\ today < MaxDay
  /\ today' = today + 1
  /\ UNCHANGED <<status, day, ending, page, flight>>

Elsewhere == Create \/ EndElsewhere

=============================================================================
