------------------------------ MODULE Settings ------------------------------
(***************************************************************************)
(* The user's settings in the client (store/settings.ts): the theme, which *)
(* is applied at once and sent to the server after a pause, one PUT at a   *)
(* time; the settings as a whole, which are loaded and saved; and what the *)
(* answers of requests made before a token renewal or by an earlier        *)
(* account may still touch.                                                *)
(*                                                                         *)
(* A theme is known by the choice that made it: its number in              *)
(* themeSyncSequence, 0 for the one the page started with.  The context a  *)
(* request or an intent carries (generation, principal, revision) is only  *)
(* ever compared with the present one: it is live, renewed (the account's  *)
(* token has changed since) or dead (the store has been reset since).      *)
(* The store's subscribers are React's, which render later: the checks     *)
(* after a notification find what was there before it.  The server commits *)
(* a PUT after it has answered (database.py, get_db), so a load may read   *)
(* the rows from before it.  Of the settings only their owner is kept; the *)
(* store's error text is left out.                                         *)
(***************************************************************************)
EXTENDS Naturals, FiniteSets

CONSTANTS
  Accounts,   \* the accounts
  NoAccount,  \* nobody is signed in; no settings
  Gets,       \* the loads of settings that can be unanswered at once
  Saves,      \* the saves, likewise
  NoCall,     \* no load, no save
  MaxChoices, \* bound on the themes chosen
  MaxLeft     \* bound on the requests that a renewal or a sign-out leaves unanswered

ASSUME SettingsAccounts == NoAccount \notin Accounts
ASSUME SettingsRequests == NoCall \notin Gets \cup Saves
ASSUME SettingsChoices == MaxChoices \in Nat /\ MaxLeft \in Nat

Choices == 1..MaxChoices

VARIABLES
  user,       \* whom the auth snapshot names
  chosen,     \* themeSyncSequence
  choice,     \* choice[n]: [who, ctx], whose it is and what has become of its context
  theme,      \* the theme on the page
  timer,      \* the choice whose debounce runs, or 0
  pending,    \* pendingIntent: [seq, ready]
  slot,       \* inFlightSync: the choice whose PUT is waited for, or 0
  put,        \* put[n]: where the PUT of choice n has got to; "told" or "lost" when its
              \* answer, or the giving up of it, came before its commit, then "late"
  tracker,    \* currentOwnerThemeTracker: [latest, synced]; 0, 0 without a valid one
  get,        \* get[f]: [st, who, ctx, conflict, start, read], the loads
  loader,     \* inFlightFetch
  save,       \* save[s]: [st, who, ctx], the saves
  saver,      \* inFlightUpdate
  page,       \* [settings, loading, saving]: what the store shows, settings by their owner
  server      \* server[u]: the theme the server has for u

themeVars == <<chosen, choice, timer, pending, slot, put, tracker>>
settingsVars == <<user, themeVars, theme, get, loader, save, saver, page, server>>

Contexts == {"live", "renewed", "dead"}
NoIntent == [seq |-> 0, ready |-> FALSE]
NoTracker == [latest |-> 0, synced |-> 0]
NoGet == [st |-> "idle", who |-> NoAccount, ctx |-> "dead", conflict |-> FALSE, start |-> 0, read |-> 0]
NoSave == [st |-> "idle", who |-> NoAccount, ctx |-> "dead"]
Blank == [settings |-> NoAccount, loading |-> FALSE, saving |-> FALSE]

SettingsInit ==
  /\ user = NoAccount
  /\ chosen = 0 /\ choice = [n \in Choices |-> [who |-> NoAccount, ctx |-> "dead"]]
  /\ theme = 0 /\ timer = 0 /\ pending = NoIntent
  /\ slot = 0 /\ put = [n \in Choices |-> "none"] /\ tracker = NoTracker
  /\ get = [f \in Gets |-> NoGet] /\ loader = NoCall
  /\ save = [s \in Saves |-> NoSave] /\ saver = NoCall
  /\ page = Blank
  /\ server = [u \in Accounts |-> 0]

-----------------------------------------------------------------------------
(* Who is signed in *)

Aged(f) == [i \in DOMAIN f |-> IF f[i].ctx = "live" THEN [f[i] EXCEPT !.ctx = "renewed"] ELSE f[i]]

Unanswered == {f \in Gets : get[f].st # "idle"} \cup {s \in Saves : save[s].st # "idle"}
                \cup {n \in Choices : put[n] \in {"sent", "applied"}}

FewLeft == Cardinality(Unanswered) <= MaxLeft

\* A load whose answer will not count, whatever is in it.
Stale(f, ctx) == [NoGet EXCEPT !.st = IF get[f].st = "idle" THEN "idle" ELSE "read",
                               !.who = get[f].who, !.ctx = ctx]

\* The same account under a new revision.  A tracker that is not valid is
\* never looked at again.
Renew ==
  /\ user # NoAccount /\ FewLeft
  /\ choice' = Aged(choice)
  /\ get' = [f \in Gets |-> IF get[f].ctx = "live" THEN Stale(f, "renewed") ELSE get[f]]
  /\ save' = Aged(save)
  /\ tracker' = NoTracker
  /\ UNCHANGED <<user, chosen, theme, timer, pending, slot, put, loader, saver, page, server>>

Dead(f) == [i \in DOMAIN f |-> [f[i] EXCEPT !.ctx = "dead"]]

\* reset, called for every account that leaves: the theme on the page stays.
Reset ==
  /\ choice' = Dead(choice) /\ save' = Dead(save)
  /\ timer' = 0 /\ pending' = NoIntent /\ slot' = 0 /\ tracker' = NoTracker
  /\ saver' = NoCall
  /\ UNCHANGED <<chosen, theme, put, server>>

SignOut ==
  /\ user # NoAccount /\ FewLeft
  /\ user' = NoAccount
  /\ Reset
  /\ get' = [f \in Gets |-> Stale(f, "dead")] /\ loader' = NoCall
  /\ page' = Blank

\* The account of another user, or the first; App is mounted anew and loads
\* the settings.
SignIn(u, f) ==
  /\ u # user /\ get[f].st = "idle" /\ FewLeft
  /\ user' = u
  /\ Reset
  /\ get' = [g \in Gets |-> IF g = f THEN [NoGet EXCEPT !.st = "sent", !.who = u, !.ctx = "live"]
                                    ELSE Stale(g, "dead")]
  /\ loader' = f
  /\ page' = [Blank EXCEPT !.loading = TRUE]

-----------------------------------------------------------------------------
(* The theme *)

\* setTheme of a user who is signed in: only they are shown the drawer.
SetTheme ==
  /\ user # NoAccount /\ chosen < MaxChoices
  /\ chosen' = chosen + 1
  /\ choice' = [choice EXCEPT ![chosen + 1] = [who |-> user, ctx |-> "live"]]
  /\ theme' = chosen + 1
  /\ tracker' = [tracker EXCEPT !.latest = chosen + 1]
  /\ pending' = [seq |-> chosen + 1, ready |-> FALSE]
  /\ timer' = chosen + 1
  /\ UNCHANGED <<user, slot, put, get, loader, save, saver, page, server>>

\* tryDispatchNextThemeSync: both gates, the debounce's and that of a single
\* PUT in flight, which a renewal of the token does not open.
Dispatch(sl, pd, pt) ==
  IF sl # 0 \/ pd.seq = 0 \/ ~pd.ready
    THEN slot' = sl /\ pending' = pd /\ put' = pt
    ELSE /\ pending' = NoIntent
         /\ IF choice[pd.seq].ctx = "live"
              THEN slot' = pd.seq /\ put' = [pt EXCEPT ![pd.seq] = "sent"]
              ELSE slot' = 0 /\ put' = pt

DebounceEnds ==
  /\ timer # 0
  /\ timer' = 0
  /\ IF choice[timer].ctx # "live"
       THEN /\ pending' = IF pending.seq = timer THEN NoIntent ELSE pending
            /\ UNCHANGED <<slot, put>>
       ELSE IF pending.seq = timer
              THEN Dispatch(slot, [pending EXCEPT !.ready = TRUE], put)
              ELSE UNCHANGED <<pending, slot, put>>
  /\ UNCHANGED <<user, chosen, choice, theme, tracker, get, loader, save, saver, page, server>>

\* get_db commits a PUT, even one the client no longer waits for, and after
\* the answer has gone out: one that was answered first may fall behind the
\* next, which writes nothing where it finds its own theme.
PutApplied(n) ==
  /\ put[n] \in {"sent", "lost", "told"}
  /\ put' = [put EXCEPT ![n] = IF @ = "sent" THEN "applied" ELSE "late"]
  /\ server' = [server EXCEPT ![choice[n].who] = n]
  /\ UNCHANGED <<user, chosen, choice, theme, timer, pending, slot, tracker, get, loader, save,
                 saver, page>>

\* The finally: a slot that is no longer its own is left alone.
Released(n, pt) ==
  IF slot = n THEN Dispatch(0, pending, pt) ELSE put' = pt /\ UNCHANGED <<slot, pending>>

\* The answer counts when nothing has been chosen since; the store has a new
\* settings object then.
PutShows(n) == choice[n].ctx = "live" /\ n = chosen

PutAnswered(n) ==
  /\ put[n] \in {"sent", "applied"}
  /\ Released(n, [put EXCEPT ![n] = IF @ = "sent" THEN "told" ELSE "done"])
  /\ IF PutShows(n)
       THEN /\ tracker' = IF tracker.latest > 0 THEN [tracker EXCEPT !.synced = n] ELSE tracker
            /\ page' = [page EXCEPT !.settings = choice[n].who]
       ELSE UNCHANGED <<tracker, page>>
  /\ UNCHANGED <<user, chosen, choice, theme, timer, get, loader, save, saver, server>>

\* An error, a time limit or an answer lost on the way: the theme stays.
PutFails(n) ==
  /\ put[n] \in {"sent", "applied"}
  /\ Released(n, [put EXCEPT ![n] = IF @ = "sent" THEN "lost" ELSE "done"])
  /\ UNCHANGED <<user, chosen, choice, theme, timer, tracker, get, loader, save, saver, page, server>>

-----------------------------------------------------------------------------
(* Loading the settings *)

\* A choice waits for its pause, for its turn or for its answer.
Unsettled ==
  \/ timer # 0 /\ choice[timer].ctx = "live"
  \/ slot # 0 /\ choice[slot].ctx = "live"

\* fetchSettings: the same revision's load under way is enough.
FetchSettings(f) ==
  /\ user # NoAccount
  /\ IF loader # NoCall /\ get[loader].ctx = "live"
       THEN UNCHANGED <<get, loader, page>>
       ELSE /\ get[f].st = "idle"
            /\ get' = [get EXCEPT ![f] =
                 [NoGet EXCEPT !.st = "sent", !.who = user, !.ctx = "live",
                               !.conflict = tracker.latest > tracker.synced \/ Unsettled,
                               !.start = tracker.latest]]
            /\ loader' = f
            /\ page' = [page EXCEPT !.loading = TRUE]
  /\ UNCHANGED <<user, themeVars, theme, save, saver, server>>

GetRead(f) ==
  /\ get[f].st = "sent"
  /\ get' = [get EXCEPT ![f].st = "read", ![f].read = server[get[f].who]]
  /\ UNCHANGED <<user, themeVars, theme, loader, save, saver, page, server>>

GetShows(f) == loader = f /\ get[f].ctx = "live"

(* Defect: what was unsettled when the load began is forgotten. *)
ConflictNow(f) ==
  tracker.latest # get[f].start \/ Unsettled

Conflict(f) == get[f].conflict \/ tracker.latest # get[f].start \/ Unsettled

\* The finally of a load, shown the settings or not.
Loaded(f, settings) ==
  /\ get' = [get EXCEPT ![f] = NoGet]
  /\ loader' = IF loader = f THEN NoCall ELSE loader
  /\ page' = [page EXCEPT !.settings = settings, !.loading = @ /\ loader # f]
  /\ UNCHANGED <<user, themeVars, save, saver, server>>

\* The server's theme takes the place of the local one unless that may be newer.
GetAnswered(f) ==
  /\ get[f].st = "read"
  /\ theme' = IF GetShows(f) /\ ~Conflict(f) THEN get[f].read ELSE theme
  /\ Loaded(f, IF GetShows(f) THEN get[f].who ELSE page.settings)

GetFails(f) ==
  /\ get[f].st \in {"sent", "read"}
  /\ Loaded(f, page.settings)
  /\ UNCHANGED theme

-----------------------------------------------------------------------------
(* Saving them *)

\* updateSettings; the button is disabled while the store saves.
UpdateSettings(s) ==
  /\ user # NoAccount /\ ~page.saving /\ save[s].st = "idle"
  /\ save' = [save EXCEPT ![s] = [st |-> "sent", who |-> user, ctx |-> "live"]]
  /\ saver' = s
  /\ page' = [page EXCEPT !.saving = TRUE]
  /\ UNCHANGED <<user, themeVars, theme, get, loader, server>>

\* The answer is the operation's own: it is not "stale".
SaveCounts(s) == saver = s /\ save[s].ctx = "live"

\* An answer, the keys it sent verified or not, or an error, which shows nothing.
SaveSettles(s, answered) ==
  /\ save[s].st = "sent"
  /\ save' = [save EXCEPT ![s] = NoSave]
  /\ saver' = IF saver = s THEN NoCall ELSE saver
  /\ page' = [page EXCEPT !.settings = IF answered /\ SaveCounts(s) THEN save[s].who ELSE @,
                          !.saving = @ /\ saver # s]
  /\ UNCHANGED <<user, themeVars, theme, get, loader, server>>
=============================================================================
