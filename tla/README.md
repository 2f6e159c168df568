# EchoTalk: a TLA+ model of its coordination code

EchoTalk is an English speaking practice application. A FastAPI backend keeps users,
sessions, call leases, transcripts and analysis jobs in PostgreSQL. A LiveKit agent process
joins each session's room and stores what is said. A worker process analyses sessions that
have ended. A React client, also packaged for desktop and mobile shells, drives all of it.

The specifications here are about what these parts promise each other while requests are
cancelled, answers come late, workers die and the cloud does or does not do what it was
asked. They are translated from the source; a definition's lines are in `PROJECT.json`
under `map`. Paths below are relative to `src/`.

## Inventory

| Component | State | Operations | Hard part | Correct when |
|---|---|---|---|---|
| Call lease service (`backend/services/call_leases.py`, `backend/routers/sessions.py`) | one row of `call_leases` per account, `sessions.status`, the cloud's tokens and participants | claim, takeover, heartbeat, release, end, token | the account's row is locked across a network call that may time out and still take effect | one capable participant at a time; generations fence; ending is all or nothing |
| Call lease controller (`lib/callLeaseController.ts` of the client) | status, lease, operation id, two timers, requests in flight | claim, release, invalidate, dispose, timers, settlements | late answers, a re-entrant observer, a sleeping device | the lease shown is the current operation's and runs out |
| Analysis jobs (`backend/services/analysis_jobs.py`, `backend/workers/analysis_worker.py`) | rows of `analysis_jobs`, what each worker has claimed | create, claim, recover, execute, fail, retry | claims without a token, slow and dead workers | each analysis takes effect once, attempts are bounded, every job settles |
| Transcript sink (`backend/livekit_agent/transcript_sink.py`) | queue, counters, worker, notification and close tasks | submit, write with retries, notify, close | two drains at once, a close from inside the notification, writes that outlive their timeout | nothing acknowledged is lost, the books add up, close ends |
| Transcript persistence (`backend/services/transcript_service.py`) | rows of `transcripts` | idempotent insert by event id | replays, conflicts, late inserts | one row per event |
| Session creation and dispatch (`backend/routers/sessions.py`, `backend/services/session_idempotency.py`, `backend/database.py`) | sessions with idempotency keys, LiveKit dispatches | create, dispatch | response before commit, list-then-create | one session per key, one agent per room |
| Agent job orchestrator (`backend/livekit_agent/job_orchestrator.py`, `error_delivery.py`) | error tasks, closing flags, drain deadline | run, error callback, close | close called by tasks that close waits for | close ends, its result is the sink's |
| Conversation store (`store/conversation.ts`) | session, generation, start/resume/end in flight | start, resume, end, reset, lease and room events | identity or generation changes at each await | a stale answer changes nothing and leaves no session behind |
| Authentication (`lib/auth.ts`, `lib/api.ts`) | snapshot, revision | init, sign in, sign out, events, 401 | order of initial lookup and events | the newest identity wins |
| Room session and lifecycle (`RoomSession.tsx`, `platform/lifecycle.ts`, `platform/webLifecycle.ts`) | listeners, ownership | subscribe, cleanup, resume | listeners registered asynchronously | no listener survives its owner |
| Assessment polling (`usePollingAssessment.ts`, `store/assessment.ts`) | cycle, timer, result | poll, retry, reset | stale answers | the result is the current session's |
| Settings (`store/settings.ts`, `components/settings/`, `user_settings_service.py`) | the theme on the page, its pause, the PUT in flight and the choice that waits, the last choice and the last one confirmed, loads and saves in flight, the drawer's draft and notice | choose a theme, load, save, open and close the drawer, reset with the account | a token renewed or an account changed under a request, a commit after its answer | the theme chosen last is not taken back, PUTs do not overtake each other, nothing of one account reaches the next |
| Learning algorithms (`analysis_service.py`, `bkt_model.py`, `phoneme_aligner.py`, `emotion_analyzer.py`) | assessments, knowledge rows | scoring | numeric | the reference figures |
| Session queries and progress (`session_queries.py`, `ActiveSessions.tsx`, `DailyProgress.tsx`) | lists, cursor, day window and its timer, requests in flight | page, load more, end, resume, midnight | ends committed after their answer, late pages, a new day or account | a list is the account's and the day's, nothing ended comes back, no page is skipped |
| Providers, credentials, native probes | none of their own | lookups | — | — |

How they interact:

- The client claims the lease over HTTP before it asks for a token, joins the room and then
  asks for a dispatch. It renews the lease every 20 s and releases it, or ends the session.
- Ending a session commits, in one transaction, the session's status, the freed lease and the
  session's analysis job. Jobs are the only channel between the API and the workers.
- The agent submits each utterance to its sink, synchronously. The sink's failure callback
  deletes the room, and the agent's shutdown closes the sink.
- Within the client, components share stores; every store tags its asynchronous work with a
  generation or revision and compares it after each await.

The hazards of this code, at their lines and with the properties that would catch them, are
listed in `PROJECT.json` under `hazards`.

## Modules

| Module | Models | Kind |
|---|---|---|
| `CallExclusion` | what a call lease promises: an owner changes only with nobody capable of the call | abstract specification |
| `CallLease` | the lease service, its transactions and LiveKit Cloud | component; refines `CallExclusion` |
| `CallLeaseProofs` | theorems about `CallLease` | proofs |
| `CallLeaseController` | the client's controller | component |
| `CallLeaseControllerProofs` | theorems about `CallLeaseController` | proofs |
| `AnalysisJobs` | jobs and workers | component |
| `AnalysisJobsProofs` | theorems about `AnalysisJobs` | proofs |
| `TranscriptSink` | sink, writer and `transcripts` rows | component |
| `SessionSetup` | creation with idempotency keys, dispatch, end, the commit after the response | component |
| `SessionSetupProofs` | theorems about `SessionSetup` | proofs |
| `Conversation` | the client's store with its session state machine, the room, the auth gate | composition of the client's parts |
| `ConversationProofs` | theorems about `Conversation` | proofs |
| `AuthSession` | snapshot, revision, stored credential, requests and their 401s | component |
| `Settings` | the settings store and the rows of the server: themes, loads, saves | component |
| `SettingsDrawer` | the drawer over that store: draft, explicit saves, notices | composition, with the properties |
| `AccountProofs` | theorems about `AuthSession` and `SettingsDrawer` | proofs |
| `JobOrchestrator` | an agent's job: run, error tasks, close, over the sink's phases | component |
| `AgentProofs` | theorems about `TranscriptSink` and `JobOrchestrator`, and that the one does what the other assumes of it | proofs |
| `AssessmentPolling` | the polling hook, its store and the lifecycle adapters | composition of the three |
| `SessionPages` | keyset pages, cursors, identity and requests of the dashboard | shared by the next two |
| `ActiveSessions` | the list of active sessions, ending and resuming one | component |
| `DailyProgress` | the day's completed sessions and the midnight timer | component |
| `Dashboard` | the two over one server | composition, with the properties |
| `ViewsProofs` | theorems about `AssessmentPolling` and `Dashboard` | proofs |
| `MC*` | the symmetries and model values of the runs | model checking |

### CallLease

The state is one account's row (`lease`), its sessions' `status` and `jobs`, the operation
that holds the account's `User` row lock across an await (`tx`), the `clock`, and the cloud:
`tokens`, `cutoff`, `connected`, `flight`.

All operations take the lock `FOR UPDATE NOWAIT`. One that awaits only the database is one
action. One that removes a participant is split: `BeginTakeover`, `BeginRelease` and
`BeginEnd` send the removal and keep the lock; `CloudRemove` carries a removal out, and the
operation may or may not hear of it; `CommitTakeover`, `CommitRelease` and `CommitEnd` write
and commit; `Abort` is any error, cancellation, failed commit or crash, and `Timeout` the one
that is certain to come. A removal that was given up stays in `flight` and may be carried out
at any time, also after the next owner was granted. Requests are not messages: a device may
present any tuple at any moment. Refusals change nothing and are not actions. The dispatch
endpoint changes no state of this module.

Clock and cutoffs are whole units. In the code the lease lasts 90 s, a token 60 s, the removal
may take 3 s and the cutoff lies 30 s ahead. `SkewAssumption` is all that the design needs of
these numbers: the cutoff reaches past the removal's timeout. The theorems hold for all of
them; the run uses the smallest that keep the cases apart.

The cloud's part is external. It is modelled as the code and its contract
(`docs/CROSS_PLATFORM_CALL_LEASE.md`) use it: removing disconnects the participant and
refuses its tokens issued before the cutoff; a connected participant gets fresh tokens.

### CallLeaseController

`c` is the record of the controller's variables, with timers as (operation, due time) pairs
and each request in flight as (kind, operation). Every method, timer and settlement is one
action up to its next await. `notify()` calls an observer that may call the controller back:
`Observed` is the set of states such an observer can leave behind. It is applied where the code
goes on after `notify()`; at the other calls it is the last thing done, so that what the observer
does there is the next action. `current` is the caller's `isCurrent()`, which changes at will.
`Early` is how far the wall clock may read behind a timer that fires, because it was set back; the run
and the theorem about timers have 0.

### AnalysisJobs

A worker takes up to three transactions per job, `Poll` (recover stale jobs and claim the
oldest that is due), `BeginExecute` to `CommitExecute` or `FailExecute` (row locked), and
`RecordFailure`, and may crash between any two. `due` and `stale` are the two questions the
code asks of timestamps. `applied` counts committed executions. Recovery and claim are one
transaction of `run_forever` and one action; a row locked by an execution is skipped by it
(`SKIP LOCKED`) and waited for by every other transaction. Rows locked by another short transaction
are skipped too, which can only make a worker take a younger job first; the model keeps
short transactions serial, and the jobs of different sessions share nothing.

### TranscriptSink

`s` holds the counters and flags; `queue`, `worker`, `notify` and `closing` are the tasks with
the await each has reached; `rows` and `sent` are the database and the inserts it may yet carry
out. `wait_for` cancels the writer and waits for it, so a timed out attempt first sets
`interrupt` and fails in its own time. The worker, the shared close and the notification, which
may close the sink itself, interleave at every await. `overrun` records that a worker outlived
the 0.5 s of grace.

Left out: malformed submissions and the `rejected` counter, which touch nothing else; a worker
cancelled or crashed by something that is not the sink; a sink built without a running loop.

### SessionSetup

A session is named by the create request whose row it is; `row`, `jobs` are the database at READ
COMMITTED, with the unique index on (user, key) as the wait of `Insert` for an uncommitted row of
the same key. `get_db` yields the session to the endpoint and commits after it: with the FastAPI
version the repository locks, the response has gone out by then, so `Answer` precedes `Commit` or
`Rollback`, and a client may hold the id of a session that is rolled back. `EndSession`, `CommitEnd`,
`TellEnd` are end_session in the two lease modes: in cloud mode it commits before it answers. A
dispatch lists, then creates; a creation whose request failed may still be carried out
(`LateDispatch`), and what it makes is counted apart (`strays`).

### Conversation

One action is one stretch of JavaScript between awaits. `st` is the store: the machine's phase,
the session, the token's account, the generation, the view. `runs`, `ends` and `calls` are the awaited
calls of startups, ends and dispatches; `room` is what React has mounted, with the auth revision it was
last rendered with; a cancelled startup stays in `runs` until its call comes back. `AuthEvent` runs
the subscribers in their order: the gate, then the store's startup. `server` has the sessions that
were created, also those nobody waited for. `Project` and `FromProjection` are the flat fields that
legacy code reads and writes.

### AuthSession

`snap`, `rev` and `seq` are the module variables of `auth.ts`; `op` the start-up operations (StrictMode
mounts twice); `stored` the credential in the session storage, tagged with the revision that wrote it;
`target` and `removals` the library's removals that are still to be carried out. `Load` is a new page
over the same storage, at any moment: the removals of the page before that were still to come do not
happen, so that its credential may be found again; what `OwnCredential` says of removals is of one page. A request reads its revision, awaits its token, compares, and is sent.

### Settings

A theme is known by the choice that made it, its number in `themeSyncSequence`. What a request or a waiting
choice carries (generation, principal, revision) is only ever compared with the present, so it is
`live`, `renewed` (the token has changed since) or `dead` (the store was reset since). `timer`,
`pending` and `slot` are the pause, the choice that waits and the one PUT in flight; `tracker` is the
last choice and the last confirmed one of the present owner. `put[n]` is where the PUT of a choice has
got to: the server applies it, answers it or both, in either order, since `get_db` commits after the answer
has gone out, and it may carry out one whose client has given it up. A load is read at one moment and
answered at another. Of settings only the owner is kept, of the draft only whether it holds edits.

`Abandoned` themes are those whose PUT nobody waits for any more: made before a sign-out, failed,
or answered before they were committed. `LocalFirst` excepts them by name, since they may reach the
server after the theme chosen last; the section on documentation says what the user may see.

### JobOrchestrator

`pc[t]` is where each task is: the job's entry point, the shutdown callback, the sink's
notification and the error tasks all run the same `close`, whose awaits are its steps.
`Targets` is whom a call of close waits for: the live error tasks that are not in close
themselves. `deadline` is the drain deadline all calls share. The sink is reduced to open, draining,
drained and closed; `TranscriptSink` models what happens inside, and `SinkKeepsToJob` (below) shows
that it is what the job assumes.

### AssessmentPolling

`poll` is the effect with its cycle, timer and slot, `store` the assessment store, `web` and
`native` the two lifecycle adapters: on iOS the listener's registration, the first state query
and app events arrive in any order; a new web adapter reads the page anew (`Attached`). `view` is the ended session on screen, `dirty` a change the effect
has not been re-run for yet. `AuthChange` is a renewal of the same account or a change to another, on any
step of the polling.

### Dashboard

A session is its place in the order of `started_at` and id, `Page` is `paginate_sessions`, and a
cursor carries the account and window it is for. A request's number only decides whether its answer
still counts, so a request in flight carries that (`cur`). `ActiveSessions` takes a component and its
requests to a component and its requests (`Pair`), because handlers of the code call each other;
`DailyProgress` has one such function. Both keep the React state next to the refs it repeats. `base` is not
of the code: it is what could be read when a list's first page was, which `NothingMissing` compares with
what is shown since. An end is
written (`ServeEnd`), answered, and committed later or not at all (`CommitEnd`). A behaviour of
`Dashboard` shows one of the two lists: they share nothing that either of them changes.

`ActiveLifecycle` takes the handler's own `isStarting` (`ActiveSessions.tsx:698`) for `FALSE`: the subscription is
that of the mount, and the view is not mounted while a start is under way. What it calls
asks the store again (`:126`).

Visible and online are one fact, `shows`; error notices that only show a text are left out; the daily
figures, which are fetched beside the first page, are left out with the question whether they
agree with the list, which the code does not promise.

What the model shows and the code's contract accepts: the active list keeps what it has when the page
goes away or a session is ended, while its cursor or its page is given up, so that it may be partial
until the next return to the page; and if all sessions of the first page are ended, the view says
there are none although the next page has some (the button for more is under a non-empty list).

## Runs

| Run | Checks | Bounds |
|---|---|---|
| `CallLease` | `Inv`, `OnlyHolderCapable`, `EndAllOrNothing`, `NextOwnerUnharmed`, `GenerationsFence`, `ImplementsExclusion`, `LockReleased` | 2 sessions, 2 devices, 2 grants, 4 instants |
| `CallLeaseController` | `Inv` (types, `LeaseIsCurrent`, `NoOrphanWait`), `HeldIsGuarded`, `DisposedIsFinal`, `HeldRunsOut` | 4 operations, 6 instants, TTL 2, heartbeat after 1 |
| `AnalysisJobs` | `Inv` (with `AttemptBudget`), `AppliedOnce`, `OutcomeIsFinal`, `JobSettles` | 2 jobs, 2 workers, 2 attempts, 1 manual retry |
| `TranscriptSink` | `Inv` (types, `Accounting`), `StoredAsTold` (`AckedStored`, `CloseHonest`), `ClosedIsFinal`, `CloseFinishes` | 2 events, 2 payloads, capacity 1, 2 attempts, 3 submissions |
| `TranscriptSinkIdentity` | `SnapshotIdentity`, violated | 1 event, 1 submission |
| `SessionSetup` | `IdempotentCreate`, `EndedOnce`, `AgentsAccounted` | 4 create requests, 3 of one key and one of them with other content, 3 end or dispatch requests, both modes |
| `Conversation` | `Inv`, `ShownIsOwned`, `NoHiddenRoom`, `EndedIsEnded`, `RoundTrip`, `StaleNoTouch`, `Settles` | 2 accounts, startups up to generation 3, 2 auth revisions |
| `AuthSession` | `Inv`, `RequestAsItself`, `LoadingEnds` | 2 users and a nameless one, 1 request, 4 revisions |
| `JobOrchestrator` | `JobInv`, `JobCloseEnds` | 2 error tasks and the 3 others |
| `AssessmentPolling` | `PollingInv` (`ShownIsOurs`, `OneLoop`, `NeverStalls`) | 2 sessions, 2 stale attempts, 2 retries in flight, both platforms |
| `Dashboard` | `Inv` (`SlotsMatch`, `EndedGone`), `OwnLists`, `NothingMissing`, `Settles` | 3 sessions on pages of one, 2 accounts, 2 days, 2 auth revisions, 2 requests in flight; see below |
| `Settings` | `SettingsInv` (types, `SlotsMeanWork`, `OneWriter`, `NobodyForgets`, `NoticesAsked`, `LocalFirst`) | 2 accounts, 2 themes chosen, 2 loads, 1 save, 2 requests left unanswered by a renewal or a sign-out |

Why the bounds are enough to meet the interesting cases: two grants make an old and a new
owner, with the first one's removal still in flight; four instants let a removal start, time out
and take effect when the second owner's token is out. Four operation ids let a claim be superseded
twice while its answer is in flight. Two workers with two attempts cover a worker that comes back
to a job another has failed, requeued by hand and claimed. A queue of one is full with one item
in hand and a third refused; two payloads make a replay that conflicts. Three requests of one key
make a race of two and a third of other content. Three generations make a startup that is stale
twice over while another holds the slot. One request suffices for `AuthSession`, since requests
meet only in the page they share. Two error tasks are what it takes for two calls of close that
could wait for each other. Three sessions on pages of one give a first page, a
cursor, and one session that is created or ends while the next page is being asked for, in between or on either
side; two requests in flight give one that counts and one that is late. Of the three the daily
view has the oldest completed from the start. The active view has either all three, read,
created and ended elsewhere while no panel is open, or two with which the user does what can be done: what is
done with one row does not depend on how many others there are (`MCDashboard`). It is the largest of the
runs, with 495,832 states in about three minutes; with paging by offset instead of by key,
`NothingMissing` fails in either view, after a session has ended between two pages. Two themes are one at the server, or
given up, and one that waits for it; two loads are one that no longer counts and one that does.

`SessionSetup` and `Settings` exchange values that are alike to the module (symmetry); they check no
liveness.

Deadlock is checked for the controller. It is not for the others, which really stop: a lease
history is bounded by its clock, all jobs end, and a sink is closed.

### Fairness

- `CallLease`: time passes, a deadline that has passed ends its await, and an operation that has
  heard from the cloud commits. Nothing is asked of the cloud, which need never answer.
- `CallLeaseController`: time passes and due timers fire. Requests may hang.
- `AnalysisJobs`: timestamps come due, a worker process is restarted when it dies and keeps taking
  its next step; an execution ends, with either outcome, since its provider calls have time
  limits. Crashes and failures may happen without limit; attempts are limited, which is why jobs
  settle all the same.
- `TranscriptSink`: time limits of the close run out. Nothing is asked of the writer, the worker,
  the database or the callback.
- `SessionSetup`, `AssessmentPolling`, `Settings`: none; their properties are about safety.
- `Conversation`: an awaited call comes back, as an answer or as the error of the 10 s request timeout
  (`apiRequestTimeout.ts`) or of the 10 s native gate. Users, React and the server need do nothing.
- `AuthSession`: the start-up operations of a page take their next step; the library's calls
  answer or fail.
- `JobOrchestrator`: a task in close takes its next step, the shared deadline passes, and the sink
  drains and closes, which `TranscriptSink` shows it does. The notifications may hang for ever.
- `Dashboard`: a request that still counts is answered or fails (10 s), a start of the store comes to
  its end, a timer that is due fires, late answers of the daily view come in, and React takes
  down a view that is to go. Whether the daily view stops loading is not asked: a page that is shown anew
  again and again replaces its fetch every time.

### Where code and documentation differ

One has a run that shows it:

- `TranscriptSinkIdentity`. The docstring (`transcript_sink.py:9`) states
  accepted = succeeded + failed + pending + inflight. A writer that does not end within 0.5 s of its
  worker's cancellation is counted as failed by the drain (line 382) and again by the worker
  (line 406). `Accounting` is the identity with that one exception.

Others, seen while modelling, have no run of their own.

- `docs/CROSS_PLATFORM_CALL_LEASE.md:88` has an independent watchdog on `expires_at` so that a hanging
  network cannot show *held* for ever. The watchdog (`callLeaseController.ts:195-209`) compares
  `Date.now()` when it fires and, if the clock reads earlier than the expiry, because it was set back
  meanwhile, is spent without being armed again. The heartbeat that hangs then leaves nothing to end
  *held*: with `Early` = 1 in `CallLeaseController.cfg`, `HeldRunsOut` fails. The application's API layer limits
  requests to 10 s (`apiRequestTimeout.ts:1`), which covers the case without being part of the
  controller's contract. With clocks that do not go back the property holds.
- In disabled mode `dispatch_agent` lists the room's dispatches and creates one if there is none, without
  a lock in between (`routers/sessions.py:731`), so that two requests at once send two agents;
  `docs/archive/PHASE_2_BACKEND_TECH_STACK.md:290` says that the listing keeps network retries from
  doing so. `AgentsAccounted` states what holds: in cloud mode, under the account's lock, answered
  requests send one.
- `docs/verification/cross-platform/RF-08-PAGINATION-DAILY-PROGRESS.md:68` has the confirmation of an end clear the
  cursor of the active list, which `handleConfirmEnd` does not.
- `docs/verification/cross-platform/CP-05-THEME-SYNC.md:20` says that a load must never overwrite a local choice
  that has not been synchronised. A token renewed between the choice and its sync makes the choice
  void (`settings.ts:131`), and with it the record that there was one: the next load shows the server's
  theme. A PUT may also be committed after its answer, and a load sent in between brings the theme
  from before it. `LocalFirst` states what holds: as long as the token is the same, and with the PUTs
  nobody waits for excepted.
- `components/settings/useSettingsForm.ts:99` says that a theme does not reset the draft of the provider settings. The answer to a
  theme's PUT puts a new settings object in the store (`settings.ts:164-172`), and the effect below that
  comment then replaces the draft, edits included.

And what no document speaks of: a load read before a save was committed and answered after it shows the
settings from before it; and the theme on the page outlives the account that chose it until the
next account's settings are loaded.

## Proofs

`CallLeaseProofs` proves for every number of sessions, devices, generations and instants, and all
timings that satisfy the assumptions of `CallLease` (`NullAssumption`, `TimeAssumption`,
`SkewAssumption`), the safety properties that the run `CallLease` checks on its instance.

The argument. `OnlyHolderCapable` is not inductive: between the removal and the commit the
lease still names the old owner, and nothing in `OnlyHolderCapable` says that the owner cannot
come back before the new one is granted. `TxConsistent` adds that a confirmed removal leaves the call empty and
every token refused, and it needs in turn that tokens are issued in the past (`Grounded`) and that
a removal is heard of within its timeout, so that its cutoff, `RevokeSkew` ahead of its start, lies
past every token issued until then: `SkewAssumption`. `NextOwnerUnharmed` adds that no removal in
flight names a later generation, so that the next owner's tokens are never refused by an old
removal. `Inv` is the conjunction; `InitInv` and one lemma per action (`ClaimFreeInv`, ...,
`TickInv`) combine to `NextInv`.

| Theorem | States |
|---|---|
| `Invariance`, `TypeCorrect` | `Inv`, `TypeOK` |
| `SingleCall` | `OnlyHolderCapable` |
| `EndAtomic` | `EndAllOrNothing` |
| `NoFutureRemoval` | `NextOwnerUnharmed` |
| `Fencing` | `GenerationsFence` |
| `Refinement` | `ImplementsExclusion`: every step is a step of `CallExclusion` or a stutter |

`AnalysisJobsProofs` proves, for any numbers of jobs, workers, attempts and manual retries
(`AttemptAssumption`), the safety properties that the run `AnalysisJobs` checks. `AppliedOnce` and
`AttemptBudget` are not inductive: that a commit finds a job to which nothing was applied rests on
the row lock, and that a claim does not exceed the budget rests on what every requeueing leaves.
`ExecutionHoldsRow` says that an execution has its row to itself and that the row stays running
meanwhile, because recovery skips a locked row and all other transactions wait for it;
`AttemptLeft` says that a waiting job has an attempt to use. `Inv` adds the two.

| Theorem | States |
|---|---|
| `Invariance` | `Inv` |
| `ExactlyOnce` | `AppliedOnce` |
| `BoundedAttempts` | `AttemptBudget` |
| `FinalOutcome` | `OutcomeIsFinal` |

`SessionSetupProofs`: for any number of requests, keys and contents. That a key names one session rests on
the index, but also on who was told of which row, since a row may be rolled back after its answer:
`IInv` adds to the types that rows and requests agree (`RowFollows`), that a key is taken at most
once (`KeyTaken`), that what was told is or was a row of that key (`Told`), who holds which lock while
ending (`Ending`), `EndedOnce`, and that a dispatch under way in cloud mode has the account's lock and
an active session (`Dispatching`).

| Theorem | States |
|---|---|
| `Idempotent` | `IdempotentCreate` |
| `OneJob` | `EndedOnce` |
| `OneAgentSent` | `AgentsAccounted` |

`AccountProofs`, the credential: for any users, requests and revisions, `CredentialOwned` and
`OwnRequests`. That a removal spares the next user's credential rests on the order of
revisions: `ShownStored`, `FirstRevision` and `Removed` relate the entry's revision to the page's and the
removals', `OpsOrdered` and `OwnerStored` do so for start-up operations, and `RequestsOwned` says a
request past its check carries the token of the user it was begun for.

`AccountProofs`, the settings: for any accounts, loads, saves and number of choices (`SettingsAccounts`,
`SettingsRequests`, `SettingsChoices`), `SettingsInv`. `LocalFirst` is the part that is far from inductive. That
the theme chosen last is not taken back rests on the order in which PUTs are sent:
`ThemeTurns` says that the choice that waits is the last one and that nothing of it has been sent while
another's PUT is waited for, so with `OneWriter` what the server carries out of one sign-in comes in
the order of the choices, but for what was given up. `LastStored` is what this gives for the server's row,
and `TrackerTrue` ties it to what the store has recorded. A load carries a snapshot of that record;
`LoadsHarmless` says that one that may still replace the theme began when the last choice was
confirmed, and has read it if it was committed by then; and `LastShown` follows. `SettingsKnown` says that
what has not been chosen yet has left no trace anywhere, so that a new number is the largest. The lemmas
are one per part of the invariant, each over the kinds of steps (`AccountStep`, `ThemeStep`, `LoadStep`,
`SaveStep`), and a few for what `Dispatch` and `Released` leave behind (`Dispatched`, `Freed`, `Woken`).

| Theorem | States |
|---|---|
| `CredentialOwned` | `Inv`, of `AuthSession` |
| `OwnRequests` | `RequestAsItself`, of `AuthSession` |
| `SettingsSound` | `SettingsInv` |
| `LocalChoiceStands` | `LocalFirst` |

`CallLeaseControllerProofs`: for every timing and any number of operations. The invariant is a statement
about a controller rather than about a state, since an observer acts in the middle of an
operation: `Sound` holds also there, `Settled` between the callbacks, and the lemmas say of each
operator of the module that it leads from the one to the other (`ObserverSettles`: an observer leaves the
controller as it was, but for its authentication, or settles it). What makes it inductive is
`Explained`: a claim or release of the current operation in flight means that the status still waits for
it, so that no answer meets a status that has moved on. `Guarded` adds the timers, under the
assumption `Early = 0` that a timer does not fire before the wall clock reads its due time; without it
the watchdog, once spent, is not armed again (see above, where code and documentation differ).

| Theorem | States |
|---|---|
| `LeaseSafe` | `Inv`: types, `LeaseIsCurrent`, `NoOrphanWait` |
| `DisposedFinal` | `DisposedIsFinal` |
| `HeldGuarded` | `HeldIsGuarded`, if `Early = 0` |

`AgentProofs`, the sink: for any capacity, number of attempts, events and submissions
(`SinkAssumption`). The books are not inductive by themselves: a drain counts what is queued and in
flight as failed and sets both to zero, so whoever touches an item afterwards could count it
again. `Hand` says that the item in hand is the one in flight until a drain has counted it, and
`Overran` that a worker which outlived its grace has been cancelled, so all it can still do is die
(`Spent`), and that an item was counted as failed, so no verdict can be True. `Closing` says that a close
that waits or has answered has drained, and `Kept` that until an item has failed each accepted one
is acknowledged, queued or in hand; with both counts zero only the first is left, and `AckedStored`
gives `CloseHonest`; the two are `StoredAsTold`. What a queue holds is a cardinality (`Queued`), and `QueuedAppend` and
`QueuedTail` say what the queue's operations do to it. The actions that differ only in who drains or
who is cancelled are first shown to be one of a few steps (`DrainStep`, `SentinelStep`,
`CancelStep`, ...), and each of those to keep the invariant.

| Theorem | States |
|---|---|
| `BooksAddUp` | `Inv`: types, `Accounting` |
| `StoredIsTold` | `StoredAsTold`: what counts as succeeded is stored, and a close answers True only if everything is |
| `ClosedAtRest` | `ClosedIsFinal` |
| `SinkKeepsToJob` | `SinkAsAssumed`: every step of the sink is, in the job's four phases, one that `JobOrchestrator` has of it |
| `NoNotificationOutlivesClose` | `JobInv`, of `JobOrchestrator` |

The job: for any number of error tasks, `NoNotificationOutlivesClose`. A call
of close does not wait for tasks that are in close themselves, so the invariant has to follow those:
`InCloseIsClosing` and `ClosingSet` tie `_in_close_tasks` and the flags to the program counters,
and `WaitsForTelling` says that a call of close that drains waits for whoever is telling the client, and
that later nobody is.

`JobOrchestrator` takes two things from its sink: that a notification outliving its budget is cancelled
before the sink has closed, and that none begins once it has drained. `SinkKeepsToJob` proves both of
`TranscriptSink`; `GraceCancels` is what it needs beside the sink's own invariant.

`ViewsProofs`, the polling: for any sessions and bounds, `OneLoopLives` (`PollingInv` of `AssessmentPolling`). That an
answer shows only what is the session's on screen rests on the effect being torn down in the same
task as its view: `AttemptOurs` says that the attempt in flight may write exactly while a session is on
screen, `AttemptAnalysed` what an attempt that is past the status has found out about that
session's job, and `NothingKept` that the store is empty without one. `Single` is `OneLoop` of an
effect's state by itself, which each operator of the hook keeps (`InvalidateIs`, `TriggerReadIs`, ...),
and `NeverStalls` is kept because whatever makes a page readable goes through the listener.

`ViewsProofs`, the dashboard: for any finite set of sessions, any owners, accounts, page size and bounds
(`OwnerAssumption`, `NoneAssumption`, `LimitAssumption`, `BoundsAssumption`), the safety properties that the
run `Dashboard` checks. They are not inductive, since what is listed next is in the answers on their
way: `IInv` says of each state of a list what is in flight beside it. `RequestFits`
says that a request which counts was asked by this account, at this revision and for this window, and
`Fit` that there is one of a kind at most; `PageFits` that of the rows that could be read nothing is
left out but what the page's own cursor leads to. `ActiveFits` adds `EndedGone` and the slots of the
active list. For the daily one `DailyData` says that what is listed, and what the answers hold, is
completed and of the window's day, which no later event changes, that a further page is asked for with the
cursor the list still has; and that it is read from rows that include those of the first page
(`base`), because completed sessions stay completed. With that and `PageFits`, adding it keeps
`DailyWhole`, which is `NothingMissing` of the daily list. `DailyPhase` says when such a request may be under way at
all: not beside a fetch, after an error, or on a page that is away. The active list's rows do not stay
what they are, so that `Reading` is about those that do: of what could be read with the first page, what is
still active and neither listed nor ended here (`Unread`) is before the list's cursor, and was there to be
read when a further page was. It is inductive beside `IInv` (`NextReading`), and the two give
`NothingMissing` (`WholeHolds`). Lemmas about the
operators carry the proof: `NewestAre` and `PageIs` say what a page and its cursor are (the newest rows
by counting; it needs that there are finitely many), `DropIs`, `VoidIs`, `AddedIs`, `AnsweredIs` and
`ReplacedIs` what giving up, sending, answering and serving do to the requests in flight, and `FetchIs`,
`VoidListsIs`, `ReleaseIs`, `SuspendedIs` and `FetchDailyIs` what the handlers return, whoever calls them.

| Theorem | States |
|---|---|
| `OneLoopLives` | `PollingInv`, of `AssessmentPolling` |
| `ListsSound` | `Inv`: types, `SlotsMatch`, `EndedGone` |
| `ListsOwned` | `OwnLists` |
| `NothingLost` | `NothingMissing` |

`ConversationProofs`: for any accounts, generations and revisions (`BoundsAssumption`,
`NobodyAssumption`), the safety properties that the run `Conversation` checks. That the start slot is owned by a
live startup, that what is shown belongs to whoever is signed in and that an end shown is an end on
the server each rest on the others, and on what the awaited calls may still do when they come back.
`Shape` says which session id and token go with a phase. `RunsFit` says what a startup waits
for, whose session it works on, and that a live one shows the phase of its wait: so an answer that
is still wanted always meets the phase its event expects, and is never dropped by `Reduce`.
`ServerPast` says that no session has a generation to come, so a new one is free, `EndsFit` that
only a session that there is, is being ended, and `RoomFits` that a mounted room is neither ahead of the
store nor of the generation that a startup still owns, so no late room event can be taken for
the new session's. `IInv` is the conjunction; it is inductive without bounds. A lemma per operator of
the store says what it returns field by field (`ReduceIs`, `ResetStoreIs`, ...); the
actions are first shown to be steps of a few kinds, which clear the store, fail it, leave it, carry
its startup onward, begin one or end it (`ClearedKeeps`, `FailedKeeps`, `QuietKeeps`, `OnwardKeeps`,
`BegunKeeps`, `FoundKeeps`), and each kind to keep `IInv`.

| Theorem | States |
|---|---|
| `Inductive` | `IInv` |
| `SlotOwned` | `Inv` |
| `AccountOwned` | `ShownIsOwned` |
| `RoomInSight` | `NoHiddenRoom` |
| `EndHonest` | `EndedIsEnded` |
| `Faithful` | `RoundTrip` |
| `LateTouchesNothing` | `StaleNoTouch` |

Only model-checked: every liveness property (`LockReleased`, `HeldRunsOut`, `JobSettles`,
`CloseFinishes`, the `Settles` of `Conversation` and of `Dashboard`, `LoadingEnds`, `JobCloseEnds`), since
liveness under fairness is beyond the prover. Every safety property that a passing run checks is
also proved.

## Not modelled

Of the modelled components:

- `Conversation`: store subscribers that re-enter the store synchronously, a start while nobody is
  signed in, the second delivery of a snapshot through the gate's promise, error texts.
- `AuthSession`: the dev mode, which publishes one snapshot; the second removal of a sign-out by
  redirect; request timeouts and aborts.
- `AssessmentPolling`: the removal of an iOS listener whose registration ends after the adapter was
  disposed (`lifecycle.ts:269-281`), an effect that nothing in the page can see.
- `JobOrchestrator`: the setup of providers and the mapping of errors to codes, which have no state.
- `Settings`: what the provider settings are and the check of their keys on the server; the store's error
  text and the notice of a failed sign-out; themes of a visitor who is not signed in, who has no drawer.
- `SessionPages`: malformed cursors and windows, which are refused and which the client never sends.

Components left out:

- Learning algorithms: floating-point scoring has no counterpart in TLA+. The read-modify-write of the
  knowledge rows is not reached: all that the analysis produces is marked synthetic
  (`analysis_service.py:150`, `:229`), and for synthetic results the update is skipped (`:284`).
- Providers, credentials, prompts, native shells and probes: no state that several actors share.

What a next step would be, in order: the composition of the end of a
session, the sink's drain and the worker, where the code relates nothing (`analysis_jobs.py:169`);
and the composition of `CallLeaseController` with `CallLease`.
