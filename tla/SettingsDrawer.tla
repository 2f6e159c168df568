--------------------------- MODULE SettingsDrawer ---------------------------
(***************************************************************************)
(* The settings drawer over the store of Settings: its draft of the        *)
(* provider settings, explicit saves and their notices                     *)
(* (components/settings/useSettingsForm.ts), and the drawer's opening,     *)
(* which loads the settings (SettingsDrawer.tsx, useSettingsDialog.ts).    *)
(* The drawer stays mounted while it is closed, and is taken down with the *)
(* account.  A new settings object in the store replaces the draft.        *)
(*                                                                         *)
(* Of the draft only matters whether it holds edits; of the cycle of       *)
(* openings and the number of the operation, whether a save under way is   *)
(* still the present operation of the present opening.  What the sign-out  *)
(* button tells when it fails is left out.                                 *)
(***************************************************************************)
EXTENDS Settings

VARIABLES
  open,       \* the drawer is open
  edited,     \* the draft holds edits that are not in the store
  asked,      \* the save whose outcome is told, or NoCall
  notice      \* "none", "saved" or "error"

formVars == <<open, edited, asked, notice>>
drawerVars == <<settingsVars, formVars>>

FormInit == open = FALSE /\ edited = FALSE /\ asked = NoCall /\ notice = "none"

DrawerInit == SettingsInit /\ FormInit

\* The drawer goes with the account it was for.
Unmounted == open' = FALSE /\ edited' = FALSE /\ asked' = NoCall /\ notice' = "none"

\* The effect on a new settings object: the draft is what the server has.
Hydrated ==
  /\ edited' = FALSE
  /\ notice' = IF notice = "saved" THEN "none" ELSE notice
  /\ UNCHANGED <<open, asked>>

HydratedIf(shown) == IF shown THEN Hydrated ELSE UNCHANGED formVars

-----------------------------------------------------------------------------
Arrive(u, f) == SignIn(u, f) /\ Unmounted

\* The drawer's button, a refused request or the end of the session elsewhere.
Depart == SignOut /\ Unmounted

RenewToken == Renew /\ UNCHANGED formVars

OpenDrawer(f) ==
  /\ ~open
  /\ open' = TRUE /\ asked' = NoCall
  /\ FetchSettings(f)
  /\ UNCHANGED <<edited, notice>>

\* Its button, Escape or a click beside it: notices end with the opening,
\* edits do not.
CloseDrawer ==
  /\ open
  /\ open' = FALSE /\ asked' = NoCall /\ notice' = "none"
  /\ UNCHANGED <<settingsVars, edited>>

PickTheme == open /\ SetTheme /\ UNCHANGED formVars

\* The fields are there once the settings are loaded.
Edit ==
  /\ open /\ ~page.loading
  /\ edited' = TRUE
  /\ UNCHANGED <<settingsVars, open, asked, notice>>

Save(s) ==
  /\ open /\ ~page.loading
  /\ UpdateSettings(s)
  /\ asked' = s /\ notice' = "none"
  /\ UNCHANGED <<open, edited>>

\* The outcome is told to the opening that asked for it; a stale one to nobody.
SaveEnds(s, answered, verified) ==
  /\ SaveSettles(s, answered)
  /\ LET told == asked = s /\ SaveCounts(s)
     IN /\ notice' = IF told THEN IF answered /\ verified THEN "saved" ELSE "error"
                     ELSE IF answered /\ SaveCounts(s) /\ notice = "saved" THEN "none" ELSE notice
        /\ asked' = IF asked = s THEN NoCall ELSE asked
  /\ edited' = (edited /\ ~(answered /\ SaveCounts(s)))
  /\ UNCHANGED open

NoticeEnds ==
  /\ notice # "none"
  /\ notice' = "none"
  /\ UNCHANGED <<settingsVars, open, edited, asked>>

GetEnds(f) ==
  \/ GetAnswered(f) /\ HydratedIf(GetShows(f))
  \/ GetFails(f) /\ UNCHANGED formVars

PutEnds(n) ==
  \/ PutAnswered(n) /\ HydratedIf(PutShows(n))
  \/ PutFails(n) /\ UNCHANGED formVars

Paused == DebounceEnds /\ UNCHANGED formVars

DrawerNext ==
  \/ Depart \/ RenewToken \/ CloseDrawer \/ PickTheme \/ Edit \/ NoticeEnds \/ Paused
  \/ \E u \in Accounts, f \in Gets : Arrive(u, f)
  \/ \E f \in Gets : OpenDrawer(f) \/ GetEnds(f) \/ (GetRead(f) /\ UNCHANGED formVars)
  \/ \E n \in Choices : PutEnds(n) \/ (PutApplied(n) /\ UNCHANGED formVars)
  \/ \E s \in Saves : Save(s)
  \/ \E s \in Saves, a, v \in BOOLEAN : SaveEnds(s, a, v)

DrawerSpec == DrawerInit /\ [][DrawerNext]_drawerVars

-----------------------------------------------------------------------------
SettingsTypeOK ==
  /\ user \in Accounts \cup {NoAccount}
  /\ chosen \in 0..MaxChoices
  /\ choice \in [Choices -> [who : Accounts \cup {NoAccount}, ctx : Contexts]]
  /\ theme \in 0..MaxChoices /\ timer \in 0..MaxChoices /\ slot \in 0..MaxChoices
  /\ pending \in [seq : 0..MaxChoices, ready : BOOLEAN]
  /\ put \in [Choices -> {"none", "sent", "applied", "done", "lost", "told", "late"}]
  /\ tracker \in [latest : 0..MaxChoices, synced : 0..MaxChoices]
  /\ get \in [Gets -> [st : {"idle", "sent", "read"}, who : Accounts \cup {NoAccount}, ctx : Contexts,
                       conflict : BOOLEAN, start : 0..MaxChoices, read : 0..MaxChoices]]
  /\ loader \in Gets \cup {NoCall} /\ saver \in Saves \cup {NoCall}
  /\ save \in [Saves -> [st : {"idle", "sent"}, who : Accounts \cup {NoAccount}, ctx : Contexts]]
  /\ page \in [settings : Accounts \cup {NoAccount}, loading : BOOLEAN, saving : BOOLEAN]
  /\ server \in [Accounts -> 0..MaxChoices]
  /\ open \in BOOLEAN /\ edited \in BOOLEAN
  /\ asked \in Saves \cup {NoCall} /\ notice \in {"none", "saved", "error"}

\* The settings shown are the account's own; the spinner and the disabled
\* button stand for a request of its own that will take them away.
SlotsMeanWork ==
  /\ page.settings \in {user, NoAccount}
  /\ page.loading <=> loader # NoCall
  /\ page.saving <=> saver # NoCall
  /\ loader # NoCall => get[loader].st # "idle" /\ get[loader].who = user
  /\ saver # NoCall => save[saver].st = "sent" /\ save[saver].who = user

\* Of one sign-in the server is never given a theme while it has another of
\* them to answer, whatever becomes of the token.
OneWriter ==
  \A n \in Choices :
    choice[n].ctx # "dead" /\ put[n] \in {"sent", "applied"} => slot = n

\* A theme that waits is sent by its pause or by the answer before it: the
\* slot is never taken by a PUT that is over.
NobodyForgets ==
  /\ pending.seq # 0 => timer = pending.seq \/ (pending.ready /\ slot # 0)
  /\ slot # 0 => put[slot] \in {"sent", "applied"} /\ choice[slot].ctx # "dead"

\* The outcome of a save is told to the opening that asked for it.
NoticesAsked ==
  /\ asked # NoCall => open /\ saver = asked
  /\ notice # "none" => open

\* Nobody waited for it any longer when the server committed it, if it did or does.
Abandoned(n) == n \in Choices /\ (choice[n].ctx = "dead" \/ put[n] \in {"lost", "told", "late"})

\* The theme chosen last is not taken back by a load that is older than it.
\* Once it is confirmed, and was committed by then, it is on the server; and
\* it is shown, or what a PUT nobody waits for has made of it there.
LocalFirst ==
  tracker.latest > 0 =>
    LET confirmed == tracker.synced = tracker.latest
    IN /\ confirmed => \/ server[user] = tracker.latest \/ Abandoned(server[user])
                       \/ Abandoned(tracker.latest)
       /\ theme = tracker.latest \/ (confirmed /\ (Abandoned(theme) \/ Abandoned(tracker.latest)))

(* However sign-outs, renewals and late answers fall: nothing of one        *)
(* account, loaded, saved or in flight, is shown to or waited for by the    *)
(* next; PUTs of themes do not overtake each other; no theme, spinner or    *)
(* disabled button is left waiting for an answer that has come; a save is   *)
(* answered to the drawer that asked; and no load takes back the theme      *)
(* chosen last (settings.ts:82-207, 325-570; useSettingsForm.ts:79-181).    *)
SettingsInv ==
  /\ SettingsTypeOK /\ SlotsMeanWork /\ OneWriter /\ NobodyForgets /\ NoticesAsked
  /\ LocalFirst
=============================================================================
