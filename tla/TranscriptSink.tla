--------------------------- MODULE TranscriptSink ---------------------------
(***************************************************************************)
(* The bounded queue between the voice agent and the transcripts table:    *)
(* one worker task that writes with retries, one failure notification, and *)
(* a close that drains within a budget, each an asyncio task of one loop.  *)
(*                                                                         *)
(* Source: backend/livekit_agent/transcript_sink.py, with the idempotent   *)
(* path of backend/services/transcript_service.py as its writer.           *)
(*                                                                         *)
(* A task runs undisturbed from one await to the next, so that is what an  *)
(* action is.  Every time limit (2 s an attempt, 0.25 and 1 s of backoff,  *)
(* 8 s of drain, 0.5 s of grace after a cancellation) may run out at any   *)
(* moment: the writer may be arbitrarily slow, also in giving up when it   *)
(* is cancelled, and what it sent to the database may take effect after    *)
(* the attempt that sent it has failed.                                    *)
(***************************************************************************)
EXTENDS Naturals, Sequences, FiniteSets

CONSTANTS
  Events,      \* event ids, derived from the SDK's message ids
  Payloads,    \* what a transcript says: text and emotion_state
  Sentinel,    \* what ends the worker
  NoItem,      \* no item in hand
  Capacity,    \* the 256 pending items
  MaxAttempts, \* writes of one item
  MaxSubmits   \* bound: items accepted

Items == [event : Events, payload : Payloads]

ASSUME SentinelAssumption == Sentinel \notin Items /\ NoItem \notin Items
ASSUME SinkAssumption ==
  Capacity \in Nat \ {0} /\ MaxAttempts \in Nat \ {0} /\ MaxSubmits \in Nat

VARIABLES
  s,        \* flags and counts of the sink
  queue,    \* the asyncio.Queue, items and sentinels
  worker,   \* the worker task
  notify,   \* the failure notification task
  closing,  \* the shared close task and, once it has ended, its result
  rows,     \* the transcripts of each event in the database
  sent,     \* inserts that may still take effect in the database
  taken,    \* history: items accepted
  acked,    \* history: items whose write was counted as succeeded
  overrun   \* history: a grace ran out with the worker still alive

vars == <<s, queue, worker, notify, closing, rows, sent, taken, acked, overrun>>
database == <<rows, sent>>

Drainers == {"close", "notify"}

TypeOK ==
  /\ s \in [accepting : BOOLEAN, closed : BOOLEAN, triggered : BOOLEAN,
            status : {"active", "failed", "closing", "closed"},
            accepted : 0..MaxSubmits, succeeded : 0..MaxSubmits, failed : Nat,
            pending : 0..Capacity, inflight : 0..1]
  /\ queue \in Seq(Items \cup {Sentinel})
  /\ worker \in [phase : {"get", "write", "backoff", "done"},
                 item : Items \cup {NoItem}, attempt : 0..MaxAttempts,
                 interrupt : {"none", "timeout", "cancel"}]
  /\ notify \in [phase : {"none", "calling", "drain", "grace", "returning", "done"},
                 cancelled : BOOLEAN]
  /\ closing \in [phase : {"none", "created", "drain", "grace", "await",
                           "notifyGrace", "done"}, result : BOOLEAN]
  /\ rows \in [Events -> Seq(Payloads)]
  /\ sent \subseteq Items /\ taken \subseteq Items /\ acked \subseteq Items
  /\ overrun \in BOOLEAN

Waiting == [phase |-> "get", item |-> NoItem, attempt |-> 0, interrupt |-> "none"]
Ended == [Waiting EXCEPT !.phase = "done"]

Init ==
  /\ s = [accepting |-> TRUE, closed |-> FALSE, triggered |-> FALSE,
          status |-> "active", accepted |-> 0, succeeded |-> 0, failed |-> 0,
          pending |-> 0, inflight |-> 0]
  /\ queue = <<>>
  /\ worker = Waiting
  /\ notify = [phase |-> "none", cancelled |-> FALSE]
  /\ closing = [phase |-> "none", result |-> FALSE]
  /\ rows = [e \in Events |-> <<>>]
  /\ sent = {} /\ taken = {} /\ acked = {}
  /\ overrun = FALSE

-----------------------------------------------------------------------------
Queued(q) == Cardinality({n \in DOMAIN q : q[n] # Sentinel})
Larger(m, n) == IF m > n THEN m ELSE n
Alive(task) == task.phase \notin {"none", "done"}

(* _trigger_failure: at most once, and with it the notification task. *)
Triggered(x) == [x EXCEPT !.triggered = TRUE, !.accepting = FALSE,
                          !.status = IF x.triggered THEN @ ELSE "failed"]
NotifyIfFirst ==
  notify' = IF s.triggered THEN notify ELSE [notify EXCEPT !.phase = "calling"]

(* _drain_remaining_queue_as_failed, which also empties the queue. *)
Drained(x, q) ==
  [x EXCEPT !.failed = @ + Larger(Queued(q), x.pending) + x.inflight,
            !.pending = 0, !.inflight = 0]

(* submit of a well-formed event; the SDK may repeat one, and compute its  *)
(* emotion_state anew.  Refusals of anything else change nothing here.     *)
Submit(i) ==
  /\ s.accepting /\ ~s.closed /\ s.accepted < MaxSubmits
  /\ s.pending < Capacity
  /\ s' = [s EXCEPT !.accepted = @ + 1, !.pending = @ + 1]
  /\ queue' = Append(queue, i)
  /\ taken' = taken \cup {i}
  /\ UNCHANGED <<worker, notify, closing, database, acked, overrun>>

(* submit with a full queue ends the session. *)
SubmitToFull ==
  /\ s.accepting /\ ~s.closed /\ s.pending >= Capacity
  /\ s' = Triggered(s)
  /\ NotifyIfFirst
  /\ UNCHANGED <<queue, worker, closing, database, taken, acked, overrun>>

-----------------------------------------------------------------------------
(* The worker takes what is first in the queue and starts its first write, *)
(* or ends with a sentinel.                                                *)
Take ==
  /\ worker.phase = "get" /\ queue # <<>>
  /\ queue' = Tail(queue)
  /\ IF Head(queue) = Sentinel
       THEN worker' = Ended /\ UNCHANGED <<s, sent>>
       ELSE /\ worker' = [Waiting EXCEPT !.phase = "write", !.item = Head(queue),
                                         !.attempt = 1]
            /\ s' = [s EXCEPT !.pending = @ - 1, !.inflight = 1]
            /\ sent' = sent \cup {Head(queue)}
  /\ UNCHANGED <<notify, closing, rows, taken, acked, overrun>>

(* Defect: any row of the event is taken for a replay of this item. *)
WriteSucceedsUnmatched ==
  /\ worker.phase = "write" /\ worker.interrupt = "none"
  /\ rows[worker.item.event] # <<>>
  /\ s' = [s EXCEPT !.succeeded = @ + 1, !.inflight = 0]
  /\ worker' = Waiting
  /\ acked' = acked \cup {worker.item}
  /\ UNCHANGED <<queue, notify, closing, database, taken, overrun>>

(* save_transcript answers with the row it wrote, or with the one of an    *)
(* earlier attempt or submission if that says the same.                    *)
WriteSucceeds ==
  /\ worker.phase = "write" /\ worker.interrupt = "none"
  /\ rows[worker.item.event] = <<worker.item.payload>>
  /\ s' = [s EXCEPT !.succeeded = @ + 1, !.inflight = 0]
  /\ worker' = Waiting
  /\ acked' = acked \cup {worker.item}
  /\ UNCHANGED <<queue, notify, closing, database, taken, overrun>>

(* The attempt's 2 s are over: wait_for cancels the writer and waits for it*)
WriteTimesOut ==
  /\ worker.phase = "write" /\ worker.interrupt = "none"
  /\ worker' = [worker EXCEPT !.interrupt = "timeout"]
  /\ UNCHANGED <<s, queue, notify, closing, database, taken, acked, overrun>>

(* An attempt fails, with an error, a conflicting row or its timeout: back *)
(* off, or give the item up and end the session.                           *)
WriteFails ==
  /\ worker.phase = "write" /\ worker.interrupt # "cancel"
  /\ IF worker.attempt < MaxAttempts
       THEN /\ worker' = [worker EXCEPT !.phase = "backoff", !.interrupt = "none"]
            /\ UNCHANGED <<s, notify>>
       ELSE /\ worker' = Waiting
            /\ s' = Triggered([s EXCEPT !.failed = @ + 1, !.inflight = 0])
            /\ NotifyIfFirst
  /\ UNCHANGED <<queue, closing, database, taken, acked, overrun>>

Retry ==
  /\ worker.phase = "backoff"
  /\ worker' = [worker EXCEPT !.phase = "write", !.attempt = @ + 1]
  /\ sent' = sent \cup {worker.item}
  /\ UNCHANGED <<s, queue, notify, closing, rows, taken, acked, overrun>>

(* Defect: the item in hand is forgotten when the worker is cancelled. *)
WorkerDiesUncounted ==
  /\ s' = [s EXCEPT !.inflight = 0]
  /\ worker' = Ended
  /\ UNCHANGED queue

(* The end of a worker cancelled with an item in hand; that of a failed    *)
(* sink also drains the queue.                                             *)
WorkerDies ==
  LET x == [s EXCEPT !.failed = @ + 1, !.inflight = 0]
      drains == ~s.closed /\ s.status # "closing"
  IN  /\ s' = IF drains THEN Drained(x, queue) ELSE x
      /\ queue' = IF drains THEN <<>> ELSE queue
      /\ worker' = Ended

(* The writer gives up after the worker was cancelled. *)
WriteCancelled ==
  /\ worker.phase = "write" /\ worker.interrupt = "cancel"
  /\ WorkerDies
  /\ UNCHANGED <<notify, closing, database, taken, acked, overrun>>

(* worker.cancel(): a worker that waits for its queue or for a backoff     *)
(* ends at once, a writer takes its time.                                  *)
CancelWorker ==
  CASE worker.phase = "write" ->
         worker' = [worker EXCEPT !.interrupt = "cancel"] /\ UNCHANGED <<s, queue>>
    [] worker.phase = "backoff" ->
         WorkerDies
    [] OTHER -> worker' = Ended /\ UNCHANGED <<s, queue>>

(* PostgreSQL carries out an insert, ON CONFLICT DO NOTHING, or loses it.  *)
DbInsert(i) ==
  /\ i \in sent
  /\ sent' = sent \ {i}
  /\ \/ /\ rows[i.event] = <<>>
        /\ rows' = [rows EXCEPT ![i.event] = <<i.payload>>]
     \/ UNCHANGED rows
  /\ UNCHANGED <<s, queue, worker, notify, closing, taken, acked, overrun>>

-----------------------------------------------------------------------------
Verdict(x) == x.accepted = x.succeeded /\ x.failed = 0

(* The shared close is left with a drained sink x: it waits for a running  *)
(* notification or finishes.                                               *)
Finished(x) == [x EXCEPT !.closed = TRUE, !.status = "closed"]
AfterDrain(x) ==
  IF Alive(notify)
    THEN s' = x /\ closing' = [closing EXCEPT !.phase = "await"]
    ELSE s' = Finished(x) /\ closing' = [phase |-> "done", result |-> Verdict(x)]

(* A drain ends, for the shared close or for a notification that has       *)
(* called close() itself and may not wait for the close that waits for it. *)
EndDrain(d) ==
  /\ queue' = <<>>
  /\ IF d = "close"
       THEN AfterDrain(Drained(s, queue)) /\ UNCHANGED notify
       ELSE /\ s' = Drained(s, queue)
            /\ notify' = [notify EXCEPT !.phase =
                            IF notify.cancelled THEN "done" ELSE "returning"]
            /\ UNCHANGED closing

(* close() by the job's shutdown. *)
Close ==
  /\ closing.phase = "none"
  /\ s' = [s EXCEPT !.accepting = FALSE]
  /\ closing' = [closing EXCEPT !.phase = "created"]
  /\ UNCHANGED <<queue, worker, notify, database, taken, acked, overrun>>

(* The shared close starts: its sentinel lets the worker finish the queue. *)
CloseStarts ==
  /\ closing.phase = "created"
  /\ LET x == [s EXCEPT !.accepting = FALSE,
                        !.status = IF @ = "failed" THEN @ ELSE "closing"]
     IN  IF Alive(worker)
           THEN /\ s' = x
                /\ queue' = Append(queue, Sentinel)
                /\ closing' = [closing EXCEPT !.phase = "drain"]
           ELSE AfterDrain(Drained(x, queue)) /\ queue' = <<>>
  /\ UNCHANGED <<worker, notify, database, taken, acked, overrun>>

(* close() by the failure callback, inside the notification task. *)
CloseInNotify ==
  /\ notify.phase = "calling" /\ ~notify.cancelled
  /\ closing' = IF closing.phase = "none"
                  THEN [closing EXCEPT !.phase = "created"] ELSE closing
  /\ LET x == [s EXCEPT !.accepting = FALSE]
     IN  IF Alive(worker)
           THEN /\ s' = x
                /\ queue' = Append(queue, Sentinel)
                /\ notify' = [notify EXCEPT !.phase = "drain"]
           ELSE /\ s' = Drained(x, queue)
                /\ queue' = <<>>
                /\ notify' = [notify EXCEPT !.phase = "returning"]
  /\ UNCHANGED <<worker, database, taken, acked, overrun>>

Phase(d) == IF d = "close" THEN closing.phase ELSE notify.phase
EnterGrace(d) ==
  IF d = "close" THEN closing' = [closing EXCEPT !.phase = "grace"] /\ UNCHANGED notify
                 ELSE notify' = [notify EXCEPT !.phase = "grace"] /\ UNCHANGED closing

(* The worker has ended, in time or within the grace. *)
DrainEnds(d) ==
  /\ Phase(d) \in {"drain", "grace"} /\ ~Alive(worker)
  /\ EndDrain(d)
  /\ UNCHANGED <<worker, database, taken, acked, overrun>>

(* Defects: the drain has no time limit; the worker is left running. *)
DrainTimesOutNever(d) == d \notin Drainers /\ UNCHANGED vars
DrainTimesOutUncancelled(d) ==
  /\ Phase(d) = "drain" /\ Alive(worker)
  /\ EnterGrace(d)
  /\ UNCHANGED <<s, queue, worker, database, taken, acked, overrun>>

(* The 8 s are over: cancel the worker. *)
DrainTimesOut(d) ==
  /\ Phase(d) = "drain" /\ Alive(worker)
  /\ CancelWorker
  /\ EnterGrace(d)
  /\ UNCHANGED <<database, taken, acked, overrun>>

(* So are the 0.5 s of grace, and the writer has still not given up. *)
GraceOver(d) ==
  /\ Phase(d) = "grace" /\ Alive(worker)
  /\ EndDrain(d)
  /\ overrun' = TRUE
  /\ UNCHANGED <<worker, database, taken, acked>>

(* The failure callback returns or raises. *)
NotifyEnds ==
  /\ notify.phase \in {"calling", "returning"}
  /\ notify' = [notify EXCEPT !.phase = "done"]
  /\ UNCHANGED <<s, queue, worker, closing, database, taken, acked, overrun>>

(* The close has waited long enough for the notification: cancel it, and   *)
(* if it is draining it cancels the worker in turn.                        *)
AwaitTimesOut ==
  /\ closing.phase = "await" /\ Alive(notify)
  /\ closing' = [closing EXCEPT !.phase = "notifyGrace"]
  /\ IF notify.phase = "drain"
       THEN /\ notify' = [phase |-> "grace", cancelled |-> TRUE]
            /\ IF Alive(worker) THEN CancelWorker ELSE UNCHANGED <<s, queue, worker>>
       ELSE /\ notify' = [notify EXCEPT !.cancelled = TRUE]
            /\ UNCHANGED <<s, queue, worker>>
  /\ UNCHANGED <<database, taken, acked, overrun>>

(* The notification has ended or has outlived its grace. *)
CloseEnds ==
  /\ \/ closing.phase = "await" /\ ~Alive(notify)
     \/ closing.phase = "notifyGrace"
  /\ s' = Finished(s)
  /\ closing' = [phase |-> "done", result |-> Verdict(s)]
  /\ UNCHANGED <<queue, worker, notify, database, taken, acked, overrun>>

-----------------------------------------------------------------------------
Next ==
  \/ \E i \in Items : Submit(i) \/ DbInsert(i)
  \/ SubmitToFull
  \/ Take \/ WriteSucceeds \/ WriteTimesOut \/ WriteFails \/ Retry \/ WriteCancelled
  \/ Close \/ CloseStarts \/ CloseInNotify
  \/ \E d \in Drainers : DrainEnds(d) \/ DrainTimesOut(d) \/ GraceOver(d)
  \/ NotifyEnds \/ AwaitTimesOut \/ CloseEnds

(* The loop runs what is ready and time limits run out.  Nothing is asked  *)
(* of the writer, the database or the failure callback.                    *)
Spec ==
  /\ Init /\ [][Next]_vars
  /\ WF_vars(CloseStarts) /\ WF_vars(AwaitTimesOut) /\ WF_vars(CloseEnds)
  /\ \A d \in Drainers :
       WF_vars(DrainEnds(d)) /\ WF_vars(DrainTimesOut(d)) /\ WF_vars(GraceOver(d))

-----------------------------------------------------------------------------
(* The accounting is exact at every await: each accepted item is counted   *)
(* once as succeeded, failed, pending or in flight, pending being what the *)
(* queue holds, through retries, cancellations and two concurrent drains.  *)
(* The one exception is a worker that outlives its grace: the drain counts *)
(* its item as failed, and the worker, when it dies, does so again.        *)
Accounting ==
  /\ s.pending = Queued(queue)
  /\ ~overrun => s.accepted = s.succeeded + s.failed + s.pending + s.inflight
  /\ s.accepted <= s.succeeded + s.failed + s.pending + s.inflight

Inv == TypeOK /\ Accounting

(* The identity as the module's docstring states it, without exception.    *)
SnapshotIdentity == s.accepted = s.succeeded + s.failed + s.pending + s.inflight

(* What was counted as succeeded is in the database. *)
AckedStored == \A i \in acked : rows[i.event] = <<i.payload>>

(* close() answers True only if every accepted item is in the database.    *)
CloseHonest ==
  closing.result => \A i \in taken : rows[i.event] = <<i.payload>>

(* What the sink says is stored, of an item or, in its verdict, of all that *)
(* it accepted, is in the database, once and as it was said, whatever       *)
(* attempts timed out, took effect late or were repeated.                   *)
StoredAsTold == AckedStored /\ CloseHonest

(* A closed sink is at rest: it takes nothing more, no write is counted as *)
(* succeeded after the verdict, nothing is queued, nobody is notified and  *)
(* the verdict stands, even while a worker that would not die lingers on.  *)
ClosedIsFinal ==
  [][s.closed => /\ s'.closed /\ s'.accepted = s.accepted
                 /\ s'.succeeded = s.succeeded
                 /\ s'.pending = 0 /\ s'.inflight = 0
                 /\ closing' = closing
                 /\ notify.phase = "none" => notify' = notify]_vars

(* Closing ends, although the writer may hang, the callback may hang, and  *)
(* the callback may itself be waiting for a close.                         *)
CloseFinishes == closing.phase # "none" ~> s.closed
=============================================================================
