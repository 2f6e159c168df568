----------------------------- MODULE AgentProofs -----------------------------
(***************************************************************************)
(* The agent's side of a session.                                          *)
(*                                                                         *)
(* The books of the transcript sink, proved for any capacity, number of    *)
(* attempts and number of events: its accounting, that what it counts as   *)
(* succeeded is stored, that close() answers True only if everything is,   *)
(* and that a closed sink is at rest.                                      *)
(*                                                                         *)
(* The accounting is exact as long as no grace has run out.  A worker that *)
(* outlives its grace has been cancelled and its item counted: all it can  *)
(* still do is die.  This is what Overran and the uses of Spent say.       *)
(*                                                                         *)
(* That no notification outlives the job's close (NoLateNotice), proved    *)
(* for any number of error tasks.  The invariant is about the calls of     *)
(* close that are still going on: each waits for every task that is still  *)
(* telling the client or leaving, or is past that wait, when there is      *)
(* none; and no such task is made any more.                                *)
(***************************************************************************)
EXTENDS TranscriptSink, JobOrchestrator, SequenceTheorems, FiniteSetTheorems, TLAPS

\* The worker has an item in hand.
Holding == worker.phase \in {"write", "backoff"}

\* The worker has ended, or has been cancelled and has only to die.
Spent == worker.phase = "done" \/ (worker.phase = "write" /\ worker.interrupt = "cancel")

\* The item in hand is the one in flight, until a drain has counted it.
Hand ==
  /\ IF Holding THEN worker.item \in Items ELSE worker.item = NoItem
  /\ s.inflight = IF Holding /\ ~overrun THEN 1 ELSE 0
  /\ worker.phase = "backoff" => worker.attempt < MaxAttempts
  /\ worker.interrupt # "none" => worker.phase = "write"

\* A grace begins with the worker cancelled, and one that has run out has
\* counted an item as failed.
Overran ==
  /\ closing.phase = "grace" \/ notify.phase = "grace" => Spent
  /\ overrun => Spent /\ s.failed # 0

\* A close takes nothing more, and has drained before it waits or answers.
Closing ==
  /\ closing.phase # "none" => ~s.accepting
  /\ closing.phase \in {"await", "notifyGrace", "done"} =>
       s.pending = 0 /\ s.inflight = 0 /\ Spent
  /\ s.closed \/ closing.result => closing.phase = "done"

\* Until an item has failed, each is acknowledged, queued or in hand.
Kept ==
  s.failed = 0 =>
    \A i \in taken : i \in acked \/ (\E n \in DOMAIN queue : queue[n] = i)
                     \/ i = worker.item

IInv ==
  /\ TypeOK /\ Accounting /\ s.succeeded <= s.accepted
  /\ Hand /\ Overran /\ Closing /\ Kept /\ AckedStored /\ CloseHonest

-----------------------------------------------------------------------------
(* What Queued counts. *)

LEMMA QueuedNat ==
  ASSUME NEW S, NEW q \in Seq(S)
  PROVE  /\ Queued(q) \in Nat
         /\ IsFiniteSet({n \in DOMAIN q : q[n] # Sentinel})
         /\ Queued(q) = 0 => \A n \in DOMAIN q : q[n] = Sentinel
<1> DEFINE items == {n \in DOMAIN q : q[n] # Sentinel}
<1>1. IsFiniteSet(1..Len(q)) /\ DOMAIN q = 1..Len(q)
  BY FS_Interval, LenProperties
<1>2. IsFiniteSet(items)
  BY <1>1, FS_Subset
<1>3. Cardinality(items) \in Nat /\ (Cardinality(items) = 0 => items = {})
  <2> HIDE DEF items
  <2> QED BY <1>2, FS_CardinalityType, FS_EmptySet
<1> QED BY <1>2, <1>3 DEF Queued

LEMMA QueuedEmpty == Queued(<<>>) = 0
<1>1. {n \in DOMAIN <<>> : <<>>[n] # Sentinel} = {}
  OBVIOUS
<1> QED BY <1>1, FS_EmptySet DEF Queued

LEMMA QueuedAppend ==
  ASSUME NEW S, NEW q \in Seq(S), NEW i \in S
  PROVE  Queued(Append(q, i)) = IF i = Sentinel THEN Queued(q) ELSE Queued(q) + 1
<1> DEFINE a == Append(q, i)
           before == {n \in DOMAIN q : q[n] # Sentinel}
           after == {n \in DOMAIN a : a[n] # Sentinel}
<1>1. /\ a \in Seq(S) /\ Len(q) \in Nat
      /\ DOMAIN q = 1..Len(q) /\ DOMAIN a = 1..(Len(q) + 1)
      /\ \A n \in 1..Len(q) : a[n] = q[n]
      /\ a[Len(q) + 1] = i
  BY AppendProperties, LenProperties
<1>2. IsFiniteSet(before)
  BY QueuedNat
<1>3. after = IF i = Sentinel THEN before ELSE before \cup {Len(q) + 1}
  BY <1>1
<1>4. Len(q) + 1 \notin before
  BY <1>1
<1> HIDE DEF a, before, after
<1>5. Cardinality(before \cup {Len(q) + 1}) = Cardinality(before) + 1
  BY <1>2, <1>4, FS_AddElement
<1> QED BY <1>3, <1>5 DEF Queued, a, before, after

LEMMA QueuedTail ==
  ASSUME NEW S, NEW q \in Seq(S), q # <<>>
  PROVE  Queued(Tail(q)) = IF Head(q) = Sentinel THEN Queued(q) ELSE Queued(q) - 1
<1> DEFINE t == Tail(q)
           before == {n \in DOMAIN q : q[n] # Sentinel}
           after == {n \in DOMAIN t : t[n] # Sentinel}
           shift == [n \in before \ {1} |-> n - 1]
<1>1. /\ Len(q) \in Nat \ {0} /\ DOMAIN q = 1..Len(q)
      /\ DOMAIN t = 1..(Len(q) - 1)
      /\ \A n \in 1..(Len(q) - 1) : t[n] = q[n + 1]
      /\ Head(q) = q[1]
  BY HeadTailProperties, LenProperties, EmptySeq
<1>2. IsFiniteSet(before)
  BY QueuedNat
<1>3. shift \in Bijection(before \ {1}, after)
  <2>1. shift \in [before \ {1} -> after]
    BY <1>1
  <2>2. \A m, n \in before \ {1} : shift[m] = shift[n] => m = n
    BY <1>1
  <2>3. \A n \in after : n + 1 \in before \ {1} /\ shift[n + 1] = n
    BY <1>1
  <2> HIDE DEF shift, before, after
  <2> QED BY <2>1, <2>2, <2>3 DEF Bijection, Injection, Surjection, IsInjective
<1> HIDE DEF t, before, after, shift
<1>4. IsFiniteSet(before \ {1})
      /\ Cardinality(before \ {1}) =
           IF 1 \in before THEN Cardinality(before) - 1 ELSE Cardinality(before)
  BY <1>2, FS_RemoveElement
<1>5. Cardinality(after) = Cardinality(before \ {1})
  BY <1>3, <1>4, FS_Bijection DEF ExistsBijection
<1>6. 1 \in before <=> Head(q) # Sentinel
  BY <1>1 DEF before
<1> QED BY <1>4, <1>5, <1>6 DEF Queued, t, before, after

-----------------------------------------------------------------------------
(* What the composite actions come to: a drain, a sentinel, a cancelled    *)
(* worker.                                                                 *)

SinkState ==
  [accepting : BOOLEAN, closed : BOOLEAN, triggered : BOOLEAN,
   status : {"active", "failed", "closing", "closed"},
   accepted : 0..MaxSubmits, succeeded : 0..MaxSubmits, failed : Nat,
   pending : 0..Capacity, inflight : 0..1]
NotifyState ==
  [phase : {"none", "calling", "drain", "grace", "returning", "done"},
   cancelled : BOOLEAN]
WorkerState ==
  [phase : {"get", "write", "backoff", "done"}, item : Items \cup {NoItem},
   attempt : 0..MaxAttempts, interrupt : {"none", "timeout", "cancel"}]
ClosingState ==
  [phase : {"none", "created", "drain", "grace", "await", "notifyGrace", "done"},
   result : BOOLEAN]

\* What stays as it is, in a drain and when a worker dies.
Steady == s'.accepted = s.accepted /\ s'.succeeded = s.succeeded
          /\ (~s.accepting => ~s'.accepting)

\* close() by the callback creates the shared close if nobody has yet.
Created == \/ closing' = closing
           \/ /\ closing.phase = "none" /\ ~s'.accepting
              /\ closing' = [closing EXCEPT !.phase = "created"]

\* A drain ends, for the shared close with its answer or before its wait for
\* the notification.
DrainStep ==
  /\ s' \in SinkState /\ Steady /\ queue' = <<>>
  /\ s'.failed = s.failed + s.pending + s.inflight
  /\ s'.pending = 0 /\ s'.inflight = 0
  /\ Spent /\ UNCHANGED <<worker, database, taken, acked>>
  /\ \/ overrun' = overrun /\ ~Alive(worker)
     \/ overrun' = TRUE /\ Alive(worker)
  /\ notify' \in NotifyState /\ (notify' = notify \/ notify'.phase # "grace")
  /\ \/ s'.closed = s.closed /\ Created
     \/ /\ closing.phase \in {"created", "drain", "grace"}
        /\ \/ s'.closed = s.closed /\ closing' = [closing EXCEPT !.phase = "await"]
           \/ closing' = [phase |-> "done", result |-> Verdict(s')]

\* A sentinel is queued.
SentinelStep ==
  /\ s' \in SinkState /\ Steady /\ s'.failed = s.failed /\ s'.closed = s.closed
  /\ s'.pending = s.pending /\ s'.inflight = s.inflight
  /\ queue' = Append(queue, Sentinel)
  /\ UNCHANGED <<worker, database, taken, acked, overrun>>
  /\ notify' \in NotifyState /\ (notify' = notify \/ notify'.phase = "drain")
  /\ \/ Created
     \/ closing.phase = "created" /\ closing' = [closing EXCEPT !.phase = "drain"]

\* The worker dies with an item in hand.
Dies ==
  /\ s' \in SinkState /\ Steady /\ s'.closed = s.closed /\ s'.inflight = 0
  /\ Holding /\ worker' = Ended
  /\ \/ queue' = queue /\ s'.pending = s.pending /\ s'.failed = s.failed + 1
     \/ queue' = <<>> /\ s'.pending = 0 /\ s'.failed = s.failed + 1 + s.pending

\* A cancellation reaches the worker.
Cancelled ==
  \/ ~overrun /\ Dies
  \/ UNCHANGED <<s, queue>> /\ worker.phase = "get" /\ worker' = Ended
  \/ /\ UNCHANGED <<s, queue>> /\ worker.phase = "write"
     /\ worker' = [worker EXCEPT !.interrupt = "cancel"]
  \/ UNCHANGED <<s, queue, worker>> /\ ~Alive(worker)

\* A drain runs out of time, or the wait for the notification does.
CancelStep ==
  /\ UNCHANGED <<database, taken, acked, overrun>>
  /\ \/ Cancelled
     \/ /\ UNCHANGED <<s, queue, worker>>
        /\ closing'.phase = "grace" => closing.phase = "grace"
        /\ notify'.phase = "grace" => notify.phase = "grace"
  /\ notify' \in NotifyState
  /\ \/ closing' = closing
     \/ closing.phase = "drain" /\ closing' = [closing EXCEPT !.phase = "grace"]
     \/ closing.phase = "await" /\ closing' = [closing EXCEPT !.phase = "notifyGrace"]

LEMMA Types ==
  TypeOK <=>
    /\ s \in SinkState /\ queue \in Seq(Items \cup {Sentinel})
    /\ worker \in WorkerState /\ notify \in NotifyState /\ closing \in ClosingState
    /\ rows \in [Events -> Seq(Payloads)]
    /\ sent \subseteq Items /\ taken \subseteq Items /\ acked \subseteq Items
    /\ overrun \in BOOLEAN
  BY DEF TypeOK, SinkState, WorkerState, NotifyState, ClosingState

LEMMA TypesNext ==
  TypeOK' <=>
    /\ s' \in SinkState /\ queue' \in Seq(Items \cup {Sentinel})
    /\ worker' \in WorkerState /\ notify' \in NotifyState /\ closing' \in ClosingState
    /\ rows' \in [Events -> Seq(Payloads)]
    /\ sent' \subseteq Items /\ taken' \subseteq Items /\ acked' \subseteq Items
    /\ overrun' \in BOOLEAN
  BY DEF TypeOK, SinkState, WorkerState, NotifyState, ClosingState

LEMMA DrainedIs ==
  ASSUME NEW x \in SinkState, NEW q, x.pending = Queued(q), NEW y, y = Drained(x, q)
  PROVE  /\ y \in SinkState /\ y.pending = 0 /\ y.inflight = 0
         /\ y.failed = x.failed + x.pending + x.inflight
         /\ y.accepted = x.accepted /\ y.succeeded = x.succeeded
         /\ y.accepting = x.accepting /\ y.closed = x.closed
<1> DEFINE sum == x.failed + x.pending + x.inflight
<1>1. y = [x EXCEPT !.failed = sum, !.pending = 0, !.inflight = 0]
  BY DEF Drained, Larger, SinkState
<1>2. sum \in Nat /\ 0 \in 0..Capacity /\ 0 \in 0..1
  BY SinkAssumption DEF SinkState
<1> HIDE DEF sum
<1>3. y \in SinkState
  BY <1>1, <1>2 DEF SinkState
<1>4. /\ y.pending = 0 /\ y.inflight = 0 /\ y.failed = sum
      /\ y.accepted = x.accepted /\ y.succeeded = x.succeeded
      /\ y.accepting = x.accepting /\ y.closed = x.closed
  BY <1>1 DEF SinkState
<1> QED BY <1>3, <1>4 DEF sum

LEMMA FinishedIs ==
  ASSUME NEW x \in SinkState
  PROVE  /\ Finished(x) \in SinkState /\ Verdict(Finished(x)) = Verdict(x)
         /\ Finished(x) = [x EXCEPT !.closed = TRUE, !.status = "closed"]
  BY DEF Finished, Verdict, SinkState

(* The shared close leaves its drain of the sink x. *)
LEMMA AfterDrainIs ==
  ASSUME IInv, NEW x \in SinkState, x.pending = Queued(queue),
         x.accepted = s.accepted, x.succeeded = s.succeeded, x.failed = s.failed,
         x.pending = s.pending, x.inflight = s.inflight, x.closed = s.closed,
         ~s.accepting => ~x.accepting,
         AfterDrain(Drained(x, queue))
  PROVE  /\ s' \in SinkState /\ Steady
         /\ s'.failed = s.failed + s.pending + s.inflight
         /\ s'.pending = 0 /\ s'.inflight = 0
         /\ \/ s'.closed = s.closed /\ closing' = [closing EXCEPT !.phase = "await"]
            \/ closing' = [phase |-> "done", result |-> Verdict(s')]
<1> DEFINE y == Drained(x, queue)
<1>0. y = Drained(x, queue)
  OBVIOUS
<1> HIDE DEF y
<1>1. /\ y \in SinkState /\ y.accepted = s.accepted /\ y.succeeded = s.succeeded
      /\ y.failed = s.failed + s.pending + s.inflight
      /\ y.pending = 0 /\ y.inflight = 0 /\ y.closed = s.closed
      /\ ~s.accepting => ~y.accepting
  <2>1. /\ y \in SinkState /\ y.pending = 0 /\ y.inflight = 0
        /\ y.failed = x.failed + x.pending + x.inflight
        /\ y.accepted = x.accepted /\ y.succeeded = x.succeeded
        /\ y.accepting = x.accepting /\ y.closed = x.closed
    <3>1. x \in SinkState /\ x.pending = Queued(queue)
      OBVIOUS
    <3> QED BY ONLY <1>0, <3>1, DrainedIs
  <2> QED BY <2>1
<1>2. CASE s' = y /\ closing' = [closing EXCEPT !.phase = "await"]
  BY <1>1, <1>2 DEF Steady
<1>3. CASE s' = Finished(y) /\ closing' = [phase |-> "done", result |-> Verdict(y)]
  <2>1. s' \in SinkState /\ Verdict(s') = Verdict(y)
    BY <1>1, <1>3, FinishedIs
  <2>2. s' = [y EXCEPT !.closed = TRUE, !.status = "closed"]
    BY <1>1, <1>3, FinishedIs
  <2> QED BY <1>1, <1>3, <2>1, <2>2 DEF Steady, SinkState
<1> QED BY <1>0, <1>2, <1>3 DEF AfterDrain

LEMMA CloseStartsDoes == IInv /\ CloseStarts => DrainStep \/ SentinelStep
<1> SUFFICES ASSUME IInv, CloseStarts PROVE DrainStep \/ SentinelStep
  OBVIOUS
<1> DEFINE x == [s EXCEPT !.accepting = FALSE,
                          !.status = IF @ = "failed" THEN @ ELSE "closing"]
<1>1. /\ s \in SinkState /\ s.pending = Queued(queue) /\ notify \in NotifyState
      /\ closing \in ClosingState /\ overrun \in BOOLEAN
  BY Types DEF IInv, Accounting
<1>2. /\ x \in SinkState /\ ~x.accepting /\ x.closed = s.closed
      /\ x.accepted = s.accepted /\ x.succeeded = s.succeeded /\ x.failed = s.failed
      /\ x.pending = s.pending /\ x.inflight = s.inflight
  BY <1>1 DEF SinkState
<1>3. closing.phase = "created" /\ UNCHANGED <<worker, notify, database, taken, acked, overrun>>
  BY DEF CloseStarts
<1>4. \/ /\ Alive(worker) /\ s' = x /\ queue' = Append(queue, Sentinel)
         /\ closing' = [closing EXCEPT !.phase = "drain"]
      \/ ~Alive(worker) /\ AfterDrain(Drained(x, queue)) /\ queue' = <<>>
  BY DEF CloseStarts
<1> HIDE DEF x
<1>5. CASE ~Alive(worker) /\ AfterDrain(Drained(x, queue)) /\ queue' = <<>>
  <2>1. Spent
    BY <1>1, <1>5, Types DEF Alive, Spent, IInv, WorkerState
  <2> QED BY <1>1, <1>2, <1>3, <1>5, <2>1, AfterDrainIs DEF DrainStep
<1>6. CASE /\ s' = x /\ queue' = Append(queue, Sentinel)
           /\ closing' = [closing EXCEPT !.phase = "drain"]
  BY <1>1, <1>2, <1>3, <1>6 DEF SentinelStep, Steady
<1> QED BY <1>4, <1>5, <1>6

LEMMA CloseInNotifyDoes == IInv /\ CloseInNotify => DrainStep \/ SentinelStep
<1> SUFFICES ASSUME IInv, CloseInNotify PROVE DrainStep \/ SentinelStep
  OBVIOUS
<1> DEFINE x == [s EXCEPT !.accepting = FALSE]
<1>1. /\ s \in SinkState /\ s.pending = Queued(queue) /\ notify \in NotifyState
      /\ closing \in ClosingState /\ overrun \in BOOLEAN
  BY Types DEF IInv, Accounting
<1>2. /\ x \in SinkState /\ ~x.accepting /\ x.closed = s.closed
      /\ x.accepted = s.accepted /\ x.succeeded = s.succeeded /\ x.failed = s.failed
      /\ x.pending = s.pending /\ x.inflight = s.inflight
  BY <1>1 DEF SinkState
<1>3. /\ UNCHANGED <<worker, database, taken, acked, overrun>>
      /\ closing' = IF closing.phase = "none"
                      THEN [closing EXCEPT !.phase = "created"] ELSE closing
  BY DEF CloseInNotify
<1>4. \/ /\ s' = x /\ queue' = Append(queue, Sentinel)
         /\ notify' = [notify EXCEPT !.phase = "drain"]
      \/ /\ ~Alive(worker) /\ s' = Drained(x, queue) /\ queue' = <<>>
         /\ notify' = [notify EXCEPT !.phase = "returning"]
  BY <1>1 DEF CloseInNotify, SinkState
<1> HIDE DEF x
<1>5. CASE /\ ~Alive(worker) /\ s' = Drained(x, queue) /\ queue' = <<>>
           /\ notify' = [notify EXCEPT !.phase = "returning"]
  <2>1. Spent
    BY <1>1, <1>5, Types DEF Alive, Spent, IInv, WorkerState
  <2>2. /\ s' \in SinkState /\ ~s'.accepting /\ s'.closed = s.closed
        /\ s'.accepted = s.accepted /\ s'.succeeded = s.succeeded
        /\ s'.failed = s.failed + s.pending + s.inflight
        /\ s'.pending = 0 /\ s'.inflight = 0
    BY <1>1, <1>2, <1>5, DrainedIs
  <2>3. notify' \in NotifyState /\ notify'.phase # "grace"
    BY <1>1, <1>5 DEF NotifyState
  <2> QED BY <1>3, <1>5, <2>1, <2>2, <2>3 DEF DrainStep, Steady, Created
<1>6. CASE /\ s' = x /\ queue' = Append(queue, Sentinel)
           /\ notify' = [notify EXCEPT !.phase = "drain"]
  <2>1. notify' \in NotifyState /\ notify'.phase = "drain"
    BY <1>1, <1>6 DEF NotifyState
  <2> QED BY <1>2, <1>3, <1>6, <2>1 DEF SentinelStep, Steady, Created
<1> QED BY <1>4, <1>5, <1>6

LEMMA EndDrainDoes ==
  ASSUME IInv, NEW d \in Drainers, Phase(d) \in {"drain", "grace"}, EndDrain(d), Spent,
         UNCHANGED <<worker, database, taken, acked>>,
         \/ overrun' = overrun /\ ~Alive(worker)
         \/ overrun' = TRUE /\ Alive(worker)
  PROVE  DrainStep
<1>1. /\ s \in SinkState /\ s.pending = Queued(queue) /\ notify \in NotifyState
      /\ queue' = <<>>
  BY Types DEF IInv, Accounting, EndDrain
<1>2. CASE d = "close"
  <2>1. AfterDrain(Drained(s, queue)) /\ notify' = notify
        /\ closing.phase \in {"created", "drain", "grace"}
    BY <1>2 DEF EndDrain, Phase
  <2> QED BY <1>1, <2>1, AfterDrainIs DEF DrainStep
<1>3. CASE d = "notify"
  <2>1. /\ s' = Drained(s, queue) /\ closing' = closing
        /\ notify' = [notify EXCEPT !.phase = IF notify.cancelled THEN "done" ELSE "returning"]
    BY <1>3 DEF EndDrain
  <2>2. /\ s' \in SinkState /\ s'.closed = s.closed /\ s'.accepting = s.accepting
        /\ s'.accepted = s.accepted /\ s'.succeeded = s.succeeded
        /\ s'.failed = s.failed + s.pending + s.inflight
        /\ s'.pending = 0 /\ s'.inflight = 0
    BY <1>1, <2>1, DrainedIs
  <2>3. notify' \in NotifyState /\ notify'.phase # "grace"
    BY <1>1, <2>1 DEF NotifyState
  <2> QED BY <1>1, <2>1, <2>2, <2>3 DEF DrainStep, Steady, Created
<1> QED BY <1>2, <1>3 DEF Drainers

LEMMA DrainEndsDoes ==
  ASSUME IInv, NEW d \in Drainers, DrainEnds(d) \/ GraceOver(d)
  PROVE  DrainStep
<1>1. CASE DrainEnds(d)
  <2>1. ~Alive(worker) /\ Spent
    BY <1>1, Types DEF DrainEnds, Alive, Spent, IInv, WorkerState
  <2> QED BY <1>1, <2>1, EndDrainDoes DEF DrainEnds
<1>2. CASE GraceOver(d)
  <2>1. Alive(worker) /\ Spent
    BY <1>2 DEF GraceOver, Phase, IInv, Overran, Drainers
  <2> QED BY <1>2, <2>1, EndDrainDoes DEF GraceOver
<1> QED BY <1>1, <1>2

LEMMA WorkerDiesDoes == ASSUME IInv, WorkerDies, Holding PROVE Dies
<1> DEFINE x == [s EXCEPT !.failed = @ + 1, !.inflight = 0]
<1>1. s \in SinkState /\ s.pending = Queued(queue)
  BY Types DEF IInv, Accounting
<1>2. /\ x \in SinkState /\ x.accepting = s.accepting /\ x.closed = s.closed
      /\ x.accepted = s.accepted /\ x.succeeded = s.succeeded
      /\ x.failed = s.failed + 1 /\ x.pending = s.pending /\ x.inflight = 0
  <2>1. s.failed + 1 \in Nat /\ 0 \in 0..1
    BY <1>1 DEF SinkState
  <2> QED BY <1>1, <2>1 DEF SinkState
<1>3. \/ s' = x /\ queue' = queue
      \/ s' = Drained(x, queue) /\ queue' = <<>>
  BY DEF WorkerDies
<1>4. worker' = Ended
  BY DEF WorkerDies
<1> HIDE DEF x
<1>5. CASE s' = x /\ queue' = queue
  BY <1>2, <1>4, <1>5 DEF Dies, Steady
<1>6. CASE s' = Drained(x, queue) /\ queue' = <<>>
  <2>1. /\ s' \in SinkState /\ s'.accepting = x.accepting /\ s'.closed = x.closed
        /\ s'.accepted = x.accepted /\ s'.succeeded = x.succeeded
        /\ s'.failed = x.failed + x.pending + x.inflight
        /\ s'.pending = 0 /\ s'.inflight = 0
    BY <1>1, <1>2, <1>6, DrainedIs
  <2>2. s'.failed = s.failed + 1 + s.pending
    BY <1>1, <1>2, <2>1 DEF SinkState
  <2> QED BY <1>2, <1>4, <1>6, <2>1, <2>2 DEF Dies, Steady
<1> QED BY <1>3, <1>5, <1>6

LEMMA CancelWorkerDoes ==
  ASSUME IInv, CancelWorker, Alive(worker)
  PROVE  Cancelled
<1>1. worker.phase \in {"get", "write", "backoff"}
  BY Types DEF IInv, Alive, WorkerState
<1>2. CASE worker.phase = "backoff"
  BY <1>2, WorkerDiesDoes DEF CancelWorker, Cancelled, Holding, IInv, Overran, Spent
<1>3. CASE worker.phase = "write"
  BY <1>3 DEF CancelWorker, Cancelled
<1>4. CASE worker.phase = "get"
  BY <1>4 DEF CancelWorker, Cancelled
<1> QED BY <1>1, <1>2, <1>3, <1>4

LEMMA TimeoutDoes ==
  ASSUME IInv, AwaitTimesOut \/ (\E d \in Drainers : DrainTimesOut(d))
  PROVE  CancelStep
<1>1. notify \in NotifyState /\ closing \in ClosingState
  BY Types DEF IInv
<1>2. CASE AwaitTimesOut
  <2>1. /\ closing.phase = "await" /\ closing' = [closing EXCEPT !.phase = "notifyGrace"]
        /\ UNCHANGED <<database, taken, acked, overrun>>
    BY <1>2 DEF AwaitTimesOut
  <2>2. CASE notify.phase = "drain"
    <3>1. notify' = [phase |-> "grace", cancelled |-> TRUE]
          /\ (IF Alive(worker) THEN CancelWorker ELSE UNCHANGED <<s, queue, worker>>)
      BY <1>2, <2>2 DEF AwaitTimesOut
    <3>2. Cancelled
      BY <3>1, CancelWorkerDoes DEF Cancelled
    <3> QED BY <2>1, <3>1, <3>2 DEF CancelStep, NotifyState
  <2>3. CASE notify.phase # "drain"
    <3>1. notify' = [notify EXCEPT !.cancelled = TRUE] /\ UNCHANGED <<s, queue, worker>>
      BY <1>2, <2>3 DEF AwaitTimesOut
    <3>2. closing'.phase # "grace" /\ notify'.phase = notify.phase /\ notify' \in NotifyState
      BY <1>1, <2>1, <3>1 DEF ClosingState, NotifyState
    <3> QED BY <2>1, <3>1, <3>2 DEF CancelStep
  <2> QED BY <2>2, <2>3
<1>3. ASSUME NEW d \in Drainers, DrainTimesOut(d) PROVE CancelStep
  <2>1. Cancelled /\ UNCHANGED <<database, taken, acked, overrun>>
    BY <1>3, CancelWorkerDoes DEF DrainTimesOut
  <2>2. CASE d = "close"
    BY <1>1, <1>3, <2>1, <2>2 DEF DrainTimesOut, Phase, EnterGrace, CancelStep
  <2>3. CASE d = "notify"
    <3>1. notify' = [notify EXCEPT !.phase = "grace"] /\ closing' = closing
      BY <1>3, <2>3 DEF DrainTimesOut, EnterGrace
    <3> QED BY <1>1, <2>1, <3>1 DEF CancelStep, NotifyState
  <2> QED BY <2>2, <2>3 DEF Drainers
<1> QED BY <1>2, <1>3
\* An item is given up: the session fails.
GivenUp ==
  /\ s' \in SinkState /\ Steady /\ s'.closed = s.closed
  /\ s'.failed = s.failed + 1 /\ s'.inflight = 0 /\ s'.pending = s.pending
  /\ worker' = Waiting
  /\ notify' \in NotifyState /\ (notify'.phase = "grace" => notify.phase = "grace")

\* An attempt fails; there may be another.
FailStep ==
  /\ ~overrun /\ worker.phase = "write" /\ worker.interrupt # "cancel"
  /\ UNCHANGED <<queue, closing, database, taken, acked, overrun>>
  /\ \/ GivenUp
     \/ /\ worker.attempt < MaxAttempts /\ UNCHANGED <<s, notify>>
        /\ worker' = [worker EXCEPT !.phase = "backoff", !.interrupt = "none"]

LEMMA WriteFailsDoes == ASSUME IInv, WriteFails PROVE FailStep
<1>1. /\ s \in SinkState /\ notify \in NotifyState
      /\ worker.phase = "write" /\ worker.interrupt # "cancel" /\ ~overrun
      /\ UNCHANGED <<queue, closing, database, taken, acked, overrun>>
  BY Types DEF IInv, WriteFails, Overran, Spent
<1>2. CASE worker.attempt < MaxAttempts
  BY <1>1, <1>2 DEF WriteFails, FailStep
<1>3. CASE ~(worker.attempt < MaxAttempts)
  <2> DEFINE x == [s EXCEPT !.failed = @ + 1, !.inflight = 0]
  <2>1. x \in SinkState
    <3>1. s.failed + 1 \in Nat /\ 0 \in 0..1
      BY <1>1 DEF SinkState
    <3> QED BY <1>1, <3>1 DEF SinkState
  <2>2. /\ x.failed = s.failed + 1 /\ x.inflight = 0 /\ x.pending = s.pending
        /\ x.accepted = s.accepted /\ x.succeeded = s.succeeded /\ x.closed = s.closed
    BY <1>1 DEF SinkState
  <2>3. s' = Triggered(x) /\ worker' = Waiting /\ NotifyIfFirst
    BY <1>3 DEF WriteFails
  <2> HIDE DEF x
  <2>4. /\ s' \in SinkState /\ s'.accepting = FALSE /\ s'.closed = x.closed
        /\ s'.failed = x.failed /\ s'.inflight = x.inflight /\ s'.pending = x.pending
        /\ s'.accepted = x.accepted /\ s'.succeeded = x.succeeded
    BY <2>1, <2>3 DEF Triggered, SinkState
  <2>5. notify' \in NotifyState /\ (notify'.phase = "grace" => notify.phase = "grace")
    BY <1>1, <2>3 DEF NotifyIfFirst, NotifyState
  <2> QED BY <1>1, <2>2, <2>3, <2>4, <2>5 DEF FailStep, GivenUp, Steady
<1> QED BY <1>2, <1>3

\* The worker takes an item, or ends with a sentinel.
TakeStep ==
  /\ ~overrun /\ worker.phase = "get" /\ queue # <<>> /\ queue' = Tail(queue)
  /\ UNCHANGED <<notify, closing, rows, taken, acked, overrun>>
  /\ \/ /\ Head(queue) = Sentinel /\ worker' = Ended
        /\ Queued(queue') = Queued(queue) /\ UNCHANGED <<s, sent>>
     \/ /\ Head(queue) \in Items /\ Queued(queue') = Queued(queue) - 1
        /\ worker' = [phase |-> "write", item |-> Head(queue), attempt |-> 1,
                      interrupt |-> "none"]
        /\ s' \in SinkState /\ Steady /\ s'.closed = s.closed /\ s'.failed = s.failed
        /\ s.pending > 0 /\ s'.pending = s.pending - 1 /\ s'.inflight = 1
        /\ sent' = sent \cup {Head(queue)}

LEMMA TakeDoes == ASSUME IInv, Take PROVE TakeStep
<1>1. /\ s \in SinkState /\ queue \in Seq(Items \cup {Sentinel})
      /\ worker.phase = "get" /\ queue # <<>> /\ ~overrun /\ s.pending = Queued(queue)
      /\ queue' = Tail(queue) /\ UNCHANGED <<notify, closing, rows, taken, acked, overrun>>
  BY Types DEF IInv, Take, Overran, Spent, Accounting
<1>2. Head(queue) \in Items \cup {Sentinel}
  BY <1>1, HeadTailProperties
<1>3. Queued(queue') = IF Head(queue) = Sentinel THEN Queued(queue) ELSE Queued(queue) - 1
  BY <1>1, QueuedTail
<1>4. CASE Head(queue) = Sentinel
  BY <1>1, <1>3, <1>4 DEF Take, TakeStep
<1>5. CASE Head(queue) # Sentinel
  <2>1. s.pending > 0 /\ s.pending - 1 \in 0..Capacity
    <3>1. queue' \in Seq(Items \cup {Sentinel})
      BY <1>1, HeadTailProperties
    <3>2. Queued(queue') \in Nat /\ s.pending \in 0..Capacity
      BY <1>1, <3>1, QueuedNat DEF SinkState
    <3> QED BY <1>1, <1>3, <1>5, <3>2, SinkAssumption
  <2>2. s' = [s EXCEPT !.pending = @ - 1, !.inflight = 1] /\ 1 \in 0..1
        /\ sent' = sent \cup {Head(queue)}
    BY <1>5 DEF Take
  <2>3. worker' = [phase |-> "write", item |-> Head(queue), attempt |-> 1,
                   interrupt |-> "none"]
    BY <1>5 DEF Take, Waiting
  <2>4. /\ s' \in SinkState /\ Steady /\ s'.closed = s.closed /\ s'.failed = s.failed
        /\ s'.pending = s.pending - 1 /\ s'.inflight = 1
    BY <1>1, <2>1, <2>2 DEF SinkState, Steady
  <2> QED BY <1>1, <1>2, <1>3, <1>5, <2>1, <2>2, <2>3, <2>4 DEF TakeStep
<1> QED BY <1>4, <1>5

-----------------------------------------------------------------------------
(* Every step keeps each part of the invariant. *)

LEMMA TypeFacts ==
  ASSUME IInv
  PROVE  /\ s \in SinkState /\ queue \in Seq(Items \cup {Sentinel})
         /\ worker \in WorkerState /\ notify \in NotifyState /\ closing \in ClosingState
         /\ rows \in [Events -> Seq(Payloads)] /\ overrun \in BOOLEAN
         /\ sent \subseteq Items /\ taken \subseteq Items /\ acked \subseteq Items
  BY Types DEF IInv

LEMMA Books ==
  ASSUME IInv
  PROVE  /\ s.accepted \in Nat /\ s.succeeded \in Nat /\ s.failed \in Nat
         /\ s.pending \in Nat /\ s.inflight \in Nat /\ s.succeeded <= s.accepted
         /\ s.pending = Queued(queue)
         /\ ~overrun => s.accepted = s.succeeded + s.failed + s.pending + s.inflight
         /\ s.accepted <= s.succeeded + s.failed + s.pending + s.inflight
         /\ s.inflight = IF Holding /\ ~overrun THEN 1 ELSE 0
  BY DEF IInv, TypeOK, Accounting, Hand

LEMMA SubmitKeeps ==
  ASSUME IInv, NEW i \in Items, Submit(i)
  PROVE  IInv'
<1>1. TypeOK'
  <2>1. s.accepted + 1 \in 0..MaxSubmits /\ s.pending + 1 \in 0..Capacity
    BY TypeFacts, SinkAssumption DEF Submit, SinkState
  <2>2. s' \in SinkState
    BY TypeFacts, <2>1 DEF Submit, SinkState
  <2>3. queue' \in Seq(Items \cup {Sentinel})
    BY TypeFacts, AppendProperties DEF Submit
  <2> QED BY TypeFacts, TypesNext, <2>1, <2>2, <2>3
          DEF Submit, database
<1>2. Accounting' /\ s'.succeeded <= s'.accepted
  <2>1. /\ s'.accepted = s.accepted + 1 /\ s'.pending = s.pending + 1
        /\ s'.succeeded = s.succeeded /\ s'.failed = s.failed
        /\ s'.inflight = s.inflight /\ overrun' = overrun
    BY TypeFacts DEF Submit, SinkState
  <2>2. Queued(queue') = Queued(queue) + 1
    BY TypeFacts, QueuedAppend, SentinelAssumption DEF Submit
  <2> QED BY Books, <2>1, <2>2 DEF Accounting
<1>3. Hand' /\ Overran' /\ Closing'
  BY SentinelAssumption, SinkAssumption
  DEF IInv, TypeOK, Hand, Holding, Overran, Spent, Closing, Accounting,
      Submit, database
<1>4. AckedStored' /\ CloseHonest'
  BY SentinelAssumption, SinkAssumption
  DEF IInv, TypeOK, AckedStored, Hand, Holding, Items, CloseHonest, Closing,
      Kept, Accounting, Submit, database
<1>5. Kept'
  <2>1. /\ taken' = taken \cup {i} /\ acked' = acked /\ worker' = worker
        /\ queue' = Append(queue, i) /\ s'.failed = s.failed
    BY TypeFacts DEF Submit, SinkState
  <2>2. \A n \in DOMAIN queue : n \in DOMAIN queue' /\ queue'[n] = queue[n]
    BY TypeFacts, <2>1, AppendProperties, LenProperties
  <2>3. Len(queue) + 1 \in DOMAIN queue' /\ queue'[Len(queue) + 1] = i
    BY TypeFacts, <2>1, AppendProperties, LenProperties
  <2> QED BY <2>1, <2>2, <2>3 DEF IInv, Kept
<1> QED BY <1>1, <1>2, <1>3, <1>4, <1>5 DEF IInv

LEMMA DbInsertKeeps ==
  ASSUME IInv, NEW i \in Items, DbInsert(i)
  PROVE  IInv'
<1>1. TypeOK'
  <2>1. i.event \in Events /\ i.payload \in Payloads
    BY DEF Items
  <2>2. <<i.payload>> \in Seq(Payloads)
    BY <2>1
  <2>3. rows' \in [Events -> Seq(Payloads)] /\ sent' \subseteq Items
    BY TypeFacts, <2>1, <2>2 DEF DbInsert
  <2> QED BY TypeFacts, TypesNext, <2>1, <2>2, <2>3
          DEF DbInsert, database
<1>2. Accounting' /\ s'.succeeded <= s'.accepted
  BY SentinelAssumption, SinkAssumption
  DEF IInv, TypeOK, Accounting, Hand, Holding, Overran, Spent, DbInsert,
      database
<1>3. Hand' /\ Overran' /\ Closing'
  BY SentinelAssumption, SinkAssumption
  DEF IInv, TypeOK, Hand, Holding, Overran, Spent, Closing, Accounting,
      DbInsert, database
<1>4. Kept'
  BY SentinelAssumption, SinkAssumption
  DEF IInv, TypeOK, Kept, Hand, Holding, Spent, Overran, Accounting, DbInsert,
      database
<1>5. AckedStored'
  <2>1. \A e \in Events : rows[e] # <<>> => rows'[e] = rows[e]
    BY TypeFacts DEF DbInsert
  <2>2. ASSUME NEW j \in acked PROVE rows'[j.event] = <<j.payload>>
    <3>1. j.event \in Events /\ rows[j.event] = <<j.payload>>
      BY TypeFacts DEF IInv, AckedStored, Items
    <3>2. <<j.payload>> # <<>>
      OBVIOUS
    <3> QED BY <2>1, <3>1, <3>2
  <2> QED BY <2>2 DEF DbInsert, AckedStored
<1>6. CloseHonest'
  <2>1. \A e \in Events : rows[e] # <<>> => rows'[e] = rows[e]
    BY TypeFacts DEF DbInsert
  <2>2. ASSUME closing.result, NEW j \in taken PROVE rows'[j.event] = <<j.payload>>
    <3>1. j.event \in Events /\ rows[j.event] = <<j.payload>>
      BY TypeFacts, <2>2 DEF IInv, CloseHonest, Items
    <3>2. <<j.payload>> # <<>>
      OBVIOUS
    <3> QED BY <2>1, <3>1, <3>2
  <2> QED BY <2>2 DEF DbInsert, CloseHonest
<1> QED BY <1>1, <1>2, <1>3, <1>4, <1>5, <1>6 DEF IInv

LEMMA SubmitToFullKeeps ==
  ASSUME IInv, SubmitToFull
  PROVE  IInv'
<1>1. TypeOK'
  <2>1. s' \in SinkState /\ notify' \in NotifyState
    BY TypeFacts DEF SubmitToFull, Triggered, NotifyIfFirst, SinkState, NotifyState
  <2> QED BY TypeFacts, TypesNext, <2>1
          DEF SubmitToFull, Triggered, NotifyIfFirst, database
<1>2. Accounting' /\ s'.succeeded <= s'.accepted
  BY SentinelAssumption, SinkAssumption
  DEF IInv, TypeOK, Accounting, Hand, Holding, Overran, Spent, SubmitToFull,
      Triggered, NotifyIfFirst, database
<1>3. Hand' /\ Overran' /\ Closing'
  BY SentinelAssumption, SinkAssumption
  DEF IInv, TypeOK, Hand, Holding, Overran, Spent, Closing, Accounting,
      SubmitToFull, Triggered, NotifyIfFirst, database
<1>4. Kept' /\ AckedStored' /\ CloseHonest'
  BY SentinelAssumption, SinkAssumption
  DEF IInv, TypeOK, Kept, Hand, Holding, Spent, Overran, Accounting,
      AckedStored, Items, CloseHonest, Closing, SubmitToFull, Triggered,
      NotifyIfFirst, database
<1> QED BY <1>1, <1>2, <1>3, <1>4 DEF IInv

LEMMA TakeKeeps ==
  ASSUME IInv, TakeStep
  PROVE  IInv'
<1>1. TypeOK'
  <2>1. queue' \in Seq(Items \cup {Sentinel})
    BY TypeFacts, HeadTailProperties DEF TakeStep
  <2>2. worker' \in WorkerState
    BY SinkAssumption DEF TakeStep, Ended, Waiting, WorkerState
  <2>3. s' \in SinkState /\ sent' \subseteq Items
    BY TypeFacts DEF TakeStep
  <2> QED BY TypeFacts, TypesNext, <2>1, <2>2, <2>3
          DEF TakeStep, database
<1>2. Accounting' /\ s'.succeeded <= s'.accepted
  <2>1. /\ s'.accepted = s.accepted /\ s'.succeeded = s.succeeded
        /\ s'.failed = s.failed /\ overrun' = overrun
        /\ \/ /\ s'.pending = s.pending /\ s'.inflight = s.inflight
              /\ Queued(queue') = Queued(queue)
           \/ /\ s'.pending = s.pending - 1 /\ s'.inflight = 1
              /\ Queued(queue') = Queued(queue) - 1
    BY DEF TakeStep, Steady
  <2>2. ~Holding
    BY DEF TakeStep, Holding
  <2> QED BY Books, <2>1, <2>2 DEF Accounting
<1>3. Hand' /\ Overran' /\ Closing'
  <2>1. worker'.phase \in {"done", "write"} /\ worker'.interrupt = "none"
        /\ ~overrun' /\ ~Spent
    BY DEF TakeStep, Ended, Waiting, Spent
  <2>2. Hand'
    BY <2>1, Books DEF TakeStep, Hand, Holding, Ended, Waiting
  <2>3. Overran' /\ Closing'
    BY <2>1 DEF IInv, Overran, Closing, TakeStep, Steady
  <2> QED BY <2>2, <2>3
<1>4. AckedStored' /\ CloseHonest'
  BY SentinelAssumption, SinkAssumption
  DEF IInv, TypeOK, AckedStored, Hand, Holding, Items, CloseHonest, Closing,
      Kept, Accounting, TakeStep, Steady, Ended, Waiting, database
<1>5. Kept'
  <2>1. /\ taken' = taken /\ acked' = acked /\ s'.failed = s.failed
        /\ queue' = Tail(queue) /\ queue # <<>> /\ worker.item = NoItem
    BY DEF TakeStep, IInv, Hand, Holding
  <2>2. Head(queue) = Sentinel \/ worker'.item = Head(queue)
    BY DEF TakeStep
  <2>3. \A n \in DOMAIN queue :
          queue[n] = Head(queue) \/ (\E m \in DOMAIN queue' : queue'[m] = queue[n])
    <3>1. /\ Len(queue) \in Nat /\ DOMAIN queue = 1..Len(queue)
          /\ DOMAIN queue' = 1..(Len(queue) - 1) /\ Head(queue) = queue[1]
          /\ \A m \in 1..(Len(queue) - 1) : queue'[m] = queue[m + 1]
      BY TypeFacts, <2>1, HeadTailProperties, LenProperties
    <3>2. ASSUME NEW n \in DOMAIN queue, n # 1
          PROVE  n - 1 \in DOMAIN queue' /\ queue'[n - 1] = queue[n]
      BY <3>1, <3>2
    <3> QED BY <3>1, <3>2
  <2>4. \A j \in taken : j # Sentinel /\ j # NoItem
    BY TypeFacts, SentinelAssumption
  <2> QED BY <2>1, <2>2, <2>3, <2>4 DEF IInv, Kept
<1> QED BY <1>1, <1>2, <1>3, <1>4, <1>5 DEF IInv

LEMMA WriteSucceedsKeeps ==
  ASSUME IInv, WriteSucceeds
  PROVE  IInv'
<1>1. TypeOK'
  <2>1. worker' \in WorkerState /\ acked' \subseteq Items
    BY TypeFacts, SinkAssumption DEF WriteSucceeds, Waiting, WorkerState, IInv, Hand, Holding
  <2>2. ~overrun /\ s.inflight = 1 /\ s.accepted = s.succeeded + s.failed + s.pending + s.inflight
    BY DEF WriteSucceeds, IInv, Accounting, Hand, Holding, Overran, Spent
  <2>3. s.succeeded + 1 \in 0..MaxSubmits /\ 0 \in 0..1
    BY TypeFacts, <2>2, SinkAssumption DEF SinkState
  <2>4. s' \in SinkState
    BY TypeFacts, <2>3 DEF WriteSucceeds, SinkState
  <2> QED BY TypeFacts, TypesNext, <2>1, <2>2, <2>3, <2>4
          DEF WriteSucceeds, database
<1>2. Accounting' /\ s'.succeeded <= s'.accepted
  <2>1. /\ s'.accepted = s.accepted /\ s'.pending = s.pending /\ queue' = queue
        /\ s'.succeeded = s.succeeded + 1 /\ s'.failed = s.failed
        /\ s'.inflight = 0 /\ overrun' = overrun
    BY TypeFacts DEF WriteSucceeds, SinkState
  <2>2. ~overrun /\ Holding
    BY DEF WriteSucceeds, Holding, IInv, Overran, Spent
  <2> QED BY Books, <2>1, <2>2 DEF Accounting
<1>3. Hand' /\ Overran' /\ Closing'
  BY SentinelAssumption, SinkAssumption
  DEF IInv, TypeOK, Hand, Holding, Overran, Spent, Closing, Accounting,
      WriteSucceeds, Waiting, database
<1>4. Kept' /\ AckedStored' /\ CloseHonest'
  BY SentinelAssumption, SinkAssumption
  DEF IInv, TypeOK, Kept, Hand, Holding, Spent, Overran, Accounting,
      AckedStored, Items, CloseHonest, Closing, WriteSucceeds, Waiting,
      database
<1> QED BY <1>1, <1>2, <1>3, <1>4 DEF IInv

LEMMA WriteTimesOutKeeps ==
  ASSUME IInv, WriteTimesOut
  PROVE  IInv'
<1>1. TypeOK'
  <2>1. worker' \in WorkerState
    BY TypeFacts DEF WriteTimesOut, WorkerState
  <2> QED BY TypeFacts, TypesNext, <2>1 DEF WriteTimesOut, database
<1>2. Accounting' /\ s'.succeeded <= s'.accepted
  BY SentinelAssumption, SinkAssumption
  DEF IInv, TypeOK, Accounting, Hand, Holding, Overran, Spent, WriteTimesOut,
      database
<1>3. Hand' /\ Overran' /\ Closing'
  BY SentinelAssumption, SinkAssumption
  DEF IInv, TypeOK, Hand, Holding, Overran, Spent, Closing, Accounting,
      WriteTimesOut, database
<1>4. Kept' /\ AckedStored' /\ CloseHonest'
  BY SentinelAssumption, SinkAssumption
  DEF IInv, TypeOK, Kept, Hand, Holding, Spent, Overran, Accounting,
      AckedStored, Items, CloseHonest, Closing, WriteTimesOut, database
<1> QED BY <1>1, <1>2, <1>3, <1>4 DEF IInv

LEMMA WriteFailsKeeps ==
  ASSUME IInv, FailStep
  PROVE  IInv'
<1>1. TypeOK'
  <2>1. Waiting \in WorkerState
    BY SinkAssumption DEF Waiting, WorkerState
  <2>2. [worker EXCEPT !.phase = "backoff", !.interrupt = "none"] \in WorkerState
    BY TypeFacts DEF WorkerState
  <2>3. worker' \in WorkerState
    BY <2>1, <2>2 DEF FailStep, GivenUp
  <2>4. s' \in SinkState /\ notify' \in NotifyState
    BY TypeFacts DEF FailStep, GivenUp
  <2> QED BY TypeFacts, TypesNext, <2>1, <2>2, <2>3, <2>4
          DEF FailStep, database
<1>2. Accounting' /\ s'.succeeded <= s'.accepted
  <2>1. /\ s'.accepted = s.accepted /\ s'.pending = s.pending /\ queue' = queue
        /\ s'.succeeded = s.succeeded /\ overrun' = overrun
        /\ \/ s'.failed = s.failed + 1 /\ s'.inflight = 0
           \/ s'.failed = s.failed /\ s'.inflight = s.inflight
    BY TypeFacts DEF FailStep, GivenUp, Steady
  <2>2. ~overrun /\ Holding
    BY DEF FailStep, Holding
  <2> QED BY Books, <2>1, <2>2 DEF Accounting
<1>3. Overran' /\ Closing'
  BY SentinelAssumption, SinkAssumption
  DEF IInv, TypeOK, Overran, Hand, Holding, Spent, Closing, Accounting,
      FailStep, GivenUp, Steady, Waiting, database
<1>4. Hand'
  <2>1. Holding /\ ~overrun /\ worker.item \in Items
    BY DEF FailStep, Holding, IInv, Hand
  <2>2. CASE GivenUp
    BY <2>1, <2>2 DEF FailStep, GivenUp, Waiting, Hand, Holding
  <2>3. CASE worker' = [worker EXCEPT !.phase = "backoff", !.interrupt = "none"]
             /\ s' = s /\ worker.attempt < MaxAttempts
    <3>1. /\ worker'.phase = "backoff" /\ worker'.interrupt = "none"
          /\ worker'.item = worker.item /\ worker'.attempt = worker.attempt
      BY TypeFacts, <2>3 DEF WorkerState
    <3> QED BY <2>1, <2>3, <3>1 DEF FailStep, Hand, Holding, IInv
  <2> QED BY <2>2, <2>3 DEF FailStep
<1>5. AckedStored' /\ CloseHonest'
  BY SentinelAssumption, SinkAssumption
  DEF IInv, TypeOK, AckedStored, Hand, Holding, Items, CloseHonest, Closing,
      Kept, Accounting, FailStep, GivenUp, Steady, Waiting, database
<1>6. Kept'
  <2>1. CASE GivenUp
    <3>1. s'.failed # 0
      BY <2>1, Books DEF GivenUp
    <3> QED BY <3>1 DEF Kept
  <2>2. CASE UNCHANGED s /\ worker' = [worker EXCEPT !.phase = "backoff", !.interrupt = "none"]
    <3>1. worker'.item = worker.item
      BY TypeFacts, <2>2 DEF WorkerState
    <3> QED BY <2>2, <3>1 DEF FailStep, IInv, Kept
  <2> QED BY <2>1, <2>2 DEF FailStep
<1> QED BY <1>1, <1>2, <1>3, <1>4, <1>5, <1>6 DEF IInv

LEMMA RetryKeeps ==
  ASSUME IInv, Retry
  PROVE  IInv'
<1>1. TypeOK'
  <2>1. worker.attempt + 1 \in 0..MaxAttempts /\ worker.item \in Items
    BY TypeFacts, SinkAssumption DEF Retry, WorkerState, IInv, Hand, Holding
  <2>2. worker' \in WorkerState
    BY TypeFacts, <2>1 DEF Retry, WorkerState
  <2> QED BY TypeFacts, TypesNext, <2>1, <2>2
          DEF Retry, database
<1>2. Accounting' /\ s'.succeeded <= s'.accepted
  BY SentinelAssumption, SinkAssumption
  DEF IInv, TypeOK, Accounting, Hand, Holding, Overran, Spent, Retry, database
<1>3. Hand' /\ Overran' /\ Closing'
  BY SentinelAssumption, SinkAssumption
  DEF IInv, TypeOK, Hand, Holding, Overran, Spent, Closing, Accounting, Retry,
      database
<1>4. Kept' /\ AckedStored' /\ CloseHonest'
  BY SentinelAssumption, SinkAssumption
  DEF IInv, TypeOK, Kept, Hand, Holding, Spent, Overran, Accounting,
      AckedStored, Items, CloseHonest, Closing, Retry, database
<1> QED BY <1>1, <1>2, <1>3, <1>4 DEF IInv

LEMMA DiesBooks ==
  ASSUME IInv, Dies, overrun' = overrun
  PROVE  Accounting' /\ s'.succeeded <= s'.accepted
<1>1. s'.pending = Queued(queue')
  BY Books, QueuedEmpty DEF Dies
<1>2. ~overrun => s.inflight = 1
  BY Books DEF Dies
<1>3. /\ s'.accepted = s.accepted /\ s'.succeeded = s.succeeded /\ s'.inflight = 0
      /\ s'.failed \in Nat /\ s'.pending \in Nat
      /\ s'.failed + s'.pending = s.failed + 1 + s.pending
  BY Books DEF Dies, Steady
<1> QED BY Books, <1>1, <1>2, <1>3 DEF Accounting

LEMMA DiesKeeps ==
  ASSUME IInv, Dies, UNCHANGED <<notify, closing, database, taken, acked, overrun>>
  PROVE  IInv'
<1>1. TypeOK'
  <2>1. worker' \in WorkerState
    BY SinkAssumption DEF Dies, Ended, Waiting, WorkerState
  <2>2. queue' \in Seq(Items \cup {Sentinel}) /\ s' \in SinkState
    BY TypeFacts, EmptySeq DEF Dies
  <2> QED BY TypeFacts, TypesNext, <2>1, <2>2
          DEF database
<1>2. Accounting' /\ s'.succeeded <= s'.accepted
  BY DiesBooks
<1>3. Hand' /\ Overran' /\ Closing'
  <2>1. /\ worker'.phase = "done" /\ worker'.item = NoItem
        /\ worker'.interrupt = "none" /\ s'.failed # 0
    BY Books DEF Dies, Ended, Waiting
  <2>2. Hand'
    BY <2>1 DEF Dies, Hand, Holding
  <2>3. Overran' /\ Closing'
    BY <2>1 DEF IInv, Overran, Closing, Spent, Dies, Steady
  <2> QED BY <2>2, <2>3
<1>4. Kept'
  BY Books DEF Dies, Kept
<1>5. AckedStored' /\ CloseHonest'
  BY DEF IInv, AckedStored, CloseHonest, database
<1> QED BY <1>1, <1>2, <1>3, <1>4, <1>5 DEF IInv

LEMMA CloseKeeps ==
  ASSUME IInv, Close
  PROVE  IInv'
<1>1. TypeOK'
  <2>1. s' \in SinkState /\ closing' \in ClosingState
    BY TypeFacts DEF Close, SinkState, ClosingState
  <2> QED BY TypeFacts, TypesNext, <2>1 DEF Close, database
<1>2. Accounting' /\ s'.succeeded <= s'.accepted
  BY SentinelAssumption, SinkAssumption
  DEF IInv, TypeOK, Accounting, Hand, Holding, Overran, Spent, Close, database
<1>3. Hand' /\ Overran' /\ Closing'
  BY SentinelAssumption, SinkAssumption
  DEF IInv, TypeOK, Hand, Holding, Overran, Spent, Closing, Accounting, Close,
      database
<1>4. Kept' /\ AckedStored' /\ CloseHonest'
  BY SentinelAssumption, SinkAssumption
  DEF IInv, TypeOK, Kept, Hand, Holding, Spent, Overran, Accounting,
      AckedStored, Items, CloseHonest, Closing, Close, database
<1> QED BY <1>1, <1>2, <1>3, <1>4 DEF IInv

LEMMA NotifyEndsKeeps ==
  ASSUME IInv, NotifyEnds
  PROVE  IInv'
<1>1. TypeOK'
  BY SinkAssumption
  DEF IInv, TypeOK, SinkState, WorkerState, NotifyState, ClosingState,
      NotifyEnds, database
<1>2. Accounting' /\ s'.succeeded <= s'.accepted
  BY SentinelAssumption, SinkAssumption
  DEF IInv, TypeOK, Accounting, Hand, Holding, Overran, Spent, NotifyEnds,
      database
<1>3. Hand' /\ Overran' /\ Closing'
  BY SentinelAssumption, SinkAssumption
  DEF IInv, TypeOK, Hand, Holding, Overran, Spent, Closing, Accounting,
      NotifyEnds, database
<1>4. Kept' /\ AckedStored' /\ CloseHonest'
  BY SentinelAssumption, SinkAssumption
  DEF IInv, TypeOK, Kept, Hand, Holding, Spent, Overran, Accounting,
      AckedStored, Items, CloseHonest, Closing, NotifyEnds, database
<1> QED BY <1>1, <1>2, <1>3, <1>4 DEF IInv

LEMMA CloseEndsKeeps ==
  ASSUME IInv, CloseEnds
  PROVE  IInv'
<1>1. TypeOK'
  <2>1. s' \in SinkState
    BY TypeFacts DEF CloseEnds, Finished, SinkState
  <2>2. closing' \in ClosingState
    BY DEF CloseEnds, Verdict, ClosingState
  <2> QED BY TypeFacts, TypesNext, <2>1, <2>2
          DEF CloseEnds, database
<1>2. Accounting' /\ s'.succeeded <= s'.accepted
  BY SentinelAssumption, SinkAssumption
  DEF IInv, TypeOK, Accounting, Hand, Holding, Overran, Spent, CloseEnds,
      Finished, Verdict, Alive, database
<1>3. Hand' /\ Overran' /\ Closing'
  BY SentinelAssumption, SinkAssumption
  DEF IInv, TypeOK, Hand, Holding, Overran, Spent, Closing, Accounting,
      CloseEnds, Finished, Verdict, Alive, database
<1>4. Kept' /\ AckedStored'
  BY SentinelAssumption, SinkAssumption
  DEF IInv, TypeOK, Kept, Hand, Holding, Spent, Overran, Accounting,
      AckedStored, Items, CloseEnds, Finished, Verdict, Alive, database
<1>5. CloseHonest'
  <2>1. /\ s.pending = 0 /\ s.inflight = 0
    BY TypeFacts DEF CloseEnds, IInv, Closing
  <2>2. /\ closing' = [phase |-> "done", result |-> Verdict(s)]
        /\ UNCHANGED <<taken, acked, queue, worker, rows>>
    BY DEF CloseEnds, database
  <2>3. \A n \in DOMAIN queue : queue[n] = Sentinel
    BY TypeFacts, <2>1, Books, QueuedNat
  <2>4. CASE Verdict(s)
    <3>1. s.failed = 0 /\ ~Holding
      BY <2>1, <2>4, Books DEF Verdict, IInv, Overran
    <3>2. taken \subseteq acked
      BY TypeFacts, <2>3, <3>1, SentinelAssumption DEF IInv, Kept, Hand
    <3> QED BY <2>2, <3>2 DEF IInv, AckedStored, CloseHonest
  <2>5. CASE ~Verdict(s)
    <3>1. ~closing'.result
      BY <2>2, <2>5
    <3> QED BY <3>1 DEF CloseHonest
  <2> QED BY <2>4, <2>5
<1> QED BY <1>1, <1>2, <1>3, <1>4, <1>5 DEF IInv

LEMMA DrainKeeps ==
  ASSUME IInv, DrainStep
  PROVE  IInv'
<1>1. TypeOK'
  <2>1. Verdict(s') \in BOOLEAN
    BY DEF Verdict
  <2>2. [phase |-> "done", result |-> Verdict(s')] \in ClosingState
    BY <2>1 DEF ClosingState
  <2>3. /\ [closing EXCEPT !.phase = "created"] \in ClosingState
        /\ [closing EXCEPT !.phase = "await"] \in ClosingState
    BY TypeFacts DEF ClosingState
  <2>4. closing' \in ClosingState
    BY TypeFacts, <2>2, <2>3 DEF DrainStep, Created
  <2>5. queue' \in Seq(Items \cup {Sentinel}) /\ overrun' \in BOOLEAN
    BY TypeFacts, EmptySeq DEF DrainStep
  <2> QED BY TypeFacts, TypesNext, <2>1, <2>2, <2>3, <2>4, <2>5
          DEF DrainStep, database
<1>2. Accounting' /\ s'.succeeded <= s'.accepted
  <2>1. /\ s'.accepted = s.accepted /\ s'.succeeded = s.succeeded
        /\ s'.pending = 0 /\ s'.inflight = 0 /\ queue' = <<>>
        /\ s'.failed = s.failed + s.pending + s.inflight
        /\ (overrun' = overrun \/ overrun' = TRUE)
    BY DEF DrainStep, Steady
  <2>2. Queued(<<>>) = 0
    BY QueuedEmpty
  <2> QED BY Books, <2>1, <2>2 DEF Accounting
<1>3. Hand' /\ Overran' /\ Closing'
  <2>1. worker' = worker /\ s'.inflight = 0 /\ s'.pending = 0 /\ Spent /\ Spent'
    BY DEF DrainStep, Spent
  <2>2. Hand'
    BY <2>1, TypeFacts DEF IInv, Hand, Holding, DrainStep, Alive, Spent, WorkerState
  <2>3. overrun' => s'.failed # 0
    <3>1. s'.failed = s.failed + s.pending + s.inflight /\ (overrun => s.failed # 0)
      BY DEF DrainStep, IInv, Overran
    <3>2. overrun' => overrun \/ s.inflight = 1
      BY <2>1, Books DEF DrainStep, Spent, Alive, Holding
    <3> QED BY <3>1, <3>2, Books
  <2>4. Closing'
    BY <2>1, TypeFacts DEF IInv, Closing, DrainStep, Steady, Created, ClosingState
  <2> QED BY <2>1, <2>2, <2>3, <2>4 DEF Overran
<1>4. AckedStored'
  BY SentinelAssumption, SinkAssumption
  DEF IInv, TypeOK, AckedStored, Hand, Holding, Items, DrainStep, Steady,
      Created, Alive, Verdict, database
<1>5. Kept'
  <2>1. /\ taken' = taken /\ acked' = acked /\ worker' = worker
        /\ s'.failed = s.failed + s.pending + s.inflight
    BY DEF DrainStep
  <2>2. ASSUME s'.failed = 0 PROVE \A j \in taken : j \in acked \/ j = worker.item
    <3>1. s.failed = 0 /\ s.pending = 0
      BY <2>1, <2>2, Books
    <3>2. \A n \in DOMAIN queue : queue[n] = Sentinel
      BY TypeFacts, <3>1, Books, QueuedNat
    <3> QED BY TypeFacts, <3>1, <3>2, SentinelAssumption DEF IInv, Kept
  <2> QED BY <2>1, <2>2 DEF Kept
<1>6. CloseHonest'
  <2>1. CASE closing'.result = closing.result
    <3>1. UNCHANGED <<rows, taken>>
      BY DEF DrainStep, database
    <3> QED BY <2>1, <3>1 DEF IInv, CloseHonest
  <2>2. CASE closing' = [phase |-> "done", result |-> Verdict(s')]
    <3>1. /\ s'.pending = 0 /\ s'.inflight = 0 /\ queue' = <<>>
          /\ UNCHANGED <<taken, acked, worker, rows>>
      BY DEF DrainStep, database
    <3>2. CASE Verdict(s')
      <4>1. s'.failed = 0
        BY <3>2 DEF Verdict
      <4>2. ~Holding'
        BY <1>3, <1>3, <3>1, <4>1 DEF Hand, Overran
      <4>3. taken' \subseteq acked'
        BY TypeFacts, <1>3, <1>5, <3>1, <4>1, <4>2, SentinelAssumption DEF Kept, Hand
      <4> QED BY <1>4, <4>3 DEF AckedStored, CloseHonest
    <3>3. CASE ~Verdict(s')
      <4>1. ~closing'.result
        BY <2>2, <3>3
      <4> QED BY <4>1 DEF CloseHonest
    <3> QED BY <3>2, <3>3
  <2>3. closing'.result = closing.result \/ closing' = [phase |-> "done", result |-> Verdict(s')]
    BY TypeFacts DEF DrainStep, Created, ClosingState
  <2> QED BY <2>1, <2>2, <2>3
<1> QED BY <1>1, <1>2, <1>3, <1>4, <1>5, <1>6 DEF IInv

LEMMA SentinelKeeps ==
  ASSUME IInv, SentinelStep
  PROVE  IInv'
<1>1. TypeOK'
  <2>1. closing' \in ClosingState
    BY TypeFacts DEF SentinelStep, Created, ClosingState
  <2>2. queue' \in Seq(Items \cup {Sentinel})
    BY TypeFacts, AppendProperties DEF SentinelStep
  <2> QED BY TypeFacts, TypesNext, <2>1, <2>2
          DEF SentinelStep, database
<1>2. Accounting' /\ s'.succeeded <= s'.accepted
  <2>1. /\ s'.accepted = s.accepted /\ s'.succeeded = s.succeeded
        /\ s'.pending = s.pending /\ s'.inflight = s.inflight
        /\ s'.failed = s.failed /\ overrun' = overrun
    BY DEF SentinelStep, Steady
  <2>2. Queued(queue') = Queued(queue)
    BY TypeFacts, QueuedAppend DEF SentinelStep
  <2> QED BY Books, <2>1, <2>2 DEF Accounting
<1>3. Hand'
  BY SentinelAssumption, SinkAssumption
  DEF IInv, TypeOK, Hand, Holding, Overran, Spent, SentinelStep, Steady,
      Created, database
<1>4. Overran'
  BY SentinelAssumption, SinkAssumption
  DEF IInv, TypeOK, Overran, Hand, Holding, Spent, SentinelStep, Steady,
      Created, database
<1>5. Closing'
  BY SentinelAssumption, SinkAssumption
  DEF IInv, TypeOK, Closing, Hand, Holding, Spent, Overran, Accounting,
      SentinelStep, Steady, Created, database
<1>6. Kept'
  <2>1. /\ taken' = taken /\ acked' = acked /\ worker' = worker
        /\ queue' = Append(queue, Sentinel) /\ s'.failed = s.failed
    BY DEF SentinelStep
  <2>2. \A n \in DOMAIN queue : n \in DOMAIN queue' /\ queue'[n] = queue[n]
    BY TypeFacts, <2>1, AppendProperties, LenProperties
  <2> QED BY <2>1, <2>2 DEF IInv, Kept
<1>7. AckedStored'
  BY SentinelAssumption, SinkAssumption
  DEF IInv, TypeOK, AckedStored, Hand, Holding, Items, SentinelStep, Steady,
      Created, database
<1>8. CloseHonest'
  BY SentinelAssumption, SinkAssumption
  DEF IInv, TypeOK, CloseHonest, Closing, AckedStored, Kept, Accounting, Hand,
      Holding, Items, SentinelStep, Steady, Created, database
<1> QED BY <1>1, <1>2, <1>3, <1>4, <1>5, <1>6, <1>7, <1>8 DEF IInv

LEMMA CancelKeeps ==
  ASSUME IInv, CancelStep
  PROVE  IInv'
<1>1. TypeOK'
  <2>1. closing' \in ClosingState
    BY TypeFacts DEF CancelStep, ClosingState
  <2>2. Ended \in WorkerState
    BY SinkAssumption DEF Ended, Waiting, WorkerState
  <2>3. [worker EXCEPT !.interrupt = "cancel"] \in WorkerState
    BY TypeFacts DEF WorkerState
  <2>4. worker' \in WorkerState
    BY TypeFacts, <2>2, <2>3 DEF CancelStep, Cancelled, Dies
  <2>5. queue' \in Seq(Items \cup {Sentinel})
    BY TypeFacts, EmptySeq DEF CancelStep, Cancelled, Dies
  <2>6. s' \in SinkState
    BY TypeFacts DEF CancelStep, Cancelled, Dies
  <2> QED BY TypeFacts, TypesNext, <2>1, <2>2, <2>3, <2>4, <2>5, <2>6
          DEF CancelStep, database
<1>2. Accounting' /\ s'.succeeded <= s'.accepted
  <2>1. s'.accepted = s.accepted /\ s'.succeeded = s.succeeded /\ overrun' = overrun
    BY DEF CancelStep, Cancelled, Dies, Steady
  <2>2. CASE UNCHANGED <<s, queue>>
    BY Books, <2>1, <2>2 DEF Accounting
  <2>3. CASE Dies
    BY <2>1, <2>3, DiesBooks
  <2> QED BY <2>2, <2>3 DEF CancelStep, Cancelled
<1>3. Hand'
  BY SentinelAssumption, SinkAssumption
  DEF IInv, TypeOK, Hand, Holding, Overran, Spent, CancelStep, Cancelled,
      Dies, Steady, Ended, Waiting, Alive, database
<1>4. Overran'
  <2>1. CASE Cancelled
    <3>1. Spent'
      BY <2>1, TypeFacts
      DEF Cancelled, Dies, Ended, Waiting, Spent, Alive, WorkerState
    <3>2. overrun' = overrun /\ (overrun => s' = s)
      BY <2>1 DEF CancelStep, Cancelled
    <3> QED BY <3>1, <3>2 DEF IInv, Overran
  <2>2. CASE /\ UNCHANGED <<s, queue, worker>>
             /\ closing'.phase = "grace" => closing.phase = "grace"
             /\ notify'.phase = "grace" => notify.phase = "grace"
    BY <2>2 DEF IInv, Overran, CancelStep, Spent
  <2> QED BY <2>1, <2>2 DEF CancelStep
<1>5. Closing'
  BY SentinelAssumption, SinkAssumption
  DEF IInv, TypeOK, Closing, Hand, Holding, Spent, Overran, Accounting,
      CancelStep, Cancelled, Dies, Steady, Ended, Waiting, Alive, database
<1>6. Kept'
  <2>1. CASE Dies
    BY <2>1, Books DEF Dies, Kept
  <2>2. CASE UNCHANGED <<s, queue>> /\ worker'.item = worker.item
    BY <2>2 DEF IInv, Kept, CancelStep
  <2> QED BY <2>1, <2>2, TypeFacts
          DEF CancelStep, Cancelled, Ended, Waiting, IInv, Hand, Holding, WorkerState
<1>7. AckedStored'
  BY DEF IInv, AckedStored, CancelStep, database
<1>8. CloseHonest'
  BY TypeFacts DEF IInv, CloseHonest, CancelStep, ClosingState, database
<1> QED BY <1>1, <1>2, <1>3, <1>4, <1>5, <1>6, <1>7, <1>8 DEF IInv

LEMMA InitIInv == Init => IInv
<1> SUFFICES ASSUME Init PROVE IInv
  OBVIOUS
<1>1. TypeOK
  <2>1. s \in SinkState /\ notify \in NotifyState /\ closing \in ClosingState
    BY SinkAssumption DEF Init, SinkState, NotifyState, ClosingState
  <2>2. worker \in WorkerState
    BY SinkAssumption DEF Init, Waiting, WorkerState
  <2>3. queue \in Seq(Items \cup {Sentinel})
    BY EmptySeq DEF Init
  <2>4. rows \in [Events -> Seq(Payloads)]
    BY EmptySeq DEF Init
  <2>5. sent = {} /\ taken = {} /\ acked = {} /\ overrun = FALSE
    BY DEF Init
  <2> QED BY <2>1, <2>2, <2>3, <2>4, <2>5
          DEF TypeOK, SinkState, WorkerState, NotifyState, ClosingState
<1>2. Accounting
  BY QueuedEmpty DEF Init, Accounting
<1>3. Hand /\ Overran /\ Closing
  BY DEF Init, Waiting, Hand, Overran, Closing, Holding
<1>4. Kept /\ AckedStored /\ CloseHonest /\ s.succeeded <= s.accepted
  BY DEF Init, Kept, AckedStored, CloseHonest
<1> QED BY <1>1, <1>2, <1>3, <1>4 DEF IInv

LEMMA UnchangedKeeps == ASSUME IInv, UNCHANGED vars PROVE IInv'
<1>1. TypeOK' /\ Accounting' /\ s'.succeeded <= s'.accepted
  BY DEF IInv, vars, TypeOK, Accounting
<1>2. Hand' /\ Overran' /\ Closing'
  BY DEF IInv, vars, Hand, Overran, Closing, Holding, Spent
<1>3. Kept' /\ AckedStored' /\ CloseHonest'
  BY DEF IInv, vars, Kept, AckedStored, CloseHonest
<1> QED BY <1>1, <1>2, <1>3 DEF IInv

LEMMA NextIInv == IInv /\ [Next]_vars => IInv'
<1> SUFFICES ASSUME IInv, [Next]_vars PROVE IInv'
  OBVIOUS
<1>1. ASSUME NEW i \in Items, Submit(i) \/ DbInsert(i) PROVE IInv'
  BY <1>1, SubmitKeeps, DbInsertKeeps
<1>2. CASE SubmitToFull
  BY <1>2, SubmitToFullKeeps
<1>3. CASE Take
  BY <1>3, TakeDoes, TakeKeeps
<1>4. CASE WriteSucceeds \/ WriteTimesOut \/ Retry
  BY <1>4, WriteSucceedsKeeps, WriteTimesOutKeeps, RetryKeeps
<1>5. CASE WriteFails
  BY <1>5, WriteFailsDoes, WriteFailsKeeps
<1>6. CASE WriteCancelled
  <2>1. WorkerDies /\ Holding
    BY <1>6 DEF WriteCancelled, Holding
  <2>2. UNCHANGED <<notify, closing, database, taken, acked, overrun>>
    BY <1>6 DEF WriteCancelled
  <2> QED BY <2>1, <2>2, WorkerDiesDoes, DiesKeeps
<1>7. CASE Close \/ NotifyEnds \/ CloseEnds
  BY <1>7, CloseKeeps, NotifyEndsKeeps, CloseEndsKeeps
<1>8. CASE CloseStarts \/ CloseInNotify
  BY <1>8, CloseStartsDoes, CloseInNotifyDoes, DrainKeeps, SentinelKeeps
<1>9. ASSUME NEW d \in Drainers, DrainEnds(d) \/ GraceOver(d) PROVE IInv'
  BY <1>9, DrainEndsDoes, DrainKeeps
<1>10. CASE AwaitTimesOut \/ (\E d \in Drainers : DrainTimesOut(d))
  BY <1>10, TimeoutDoes, CancelKeeps
<1>11. CASE UNCHANGED vars
  BY <1>11, UnchangedKeeps
<1> QED BY <1>1, <1>2, <1>3, <1>4, <1>5, <1>6, <1>7, <1>8, <1>9, <1>10, <1>11 DEF Next

-----------------------------------------------------------------------------
LEMMA Invariance == Spec => []IInv
  BY InitIInv, NextIInv, PTL DEF Spec

(* Each accepted item is counted once as succeeded, failed, pending or in  *)
(* flight, and pending is what the queue holds, but for a worker that      *)
(* outlived its grace.                                                     *)
THEOREM BooksAddUp == Spec => []Inv
<1>1. IInv => Inv
  BY DEF IInv, Inv
<1> QED BY <1>1, Invariance, PTL

(* Whatever attempts timed out, took effect late or were repeated, and      *)
(* however close()'s drain, the notification's and the worker interleave:   *)
(* what was counted as succeeded is in the database as it was said, and     *)
(* close() answers True only if all that was accepted is there              *)
(* (transcript_sink.py).                                                    *)
THEOREM StoredIsTold == Spec => []StoredAsTold
<1>1. IInv => StoredAsTold
  BY DEF IInv, StoredAsTold
<1> QED BY <1>1, Invariance, PTL

(* A closed sink is at rest, and its verdict stands. *)
THEOREM ClosedAtRest == Spec => ClosedIsFinal
<1> DEFINE AtRest == /\ s'.closed /\ s'.accepted = s.accepted /\ s'.succeeded = s.succeeded
                     /\ s'.pending = 0 /\ s'.inflight = 0 /\ closing' = closing
                     /\ notify.phase = "none" => notify' = notify
<1>1. ASSUME IInv, IInv', Next, s.closed PROVE AtRest
  <2>1. /\ s \in SinkState /\ notify \in NotifyState /\ closing \in ClosingState
        /\ closing.phase = "done" /\ ~s.accepting /\ Spent /\ worker.phase # "backoff"
    BY <1>1, TypeFacts DEF IInv, Closing, Spent
  <2>2. /\ s'.closed => s'.pending = 0 /\ s'.inflight = 0
    BY <1>1 DEF IInv, Closing
  <2>3. ASSUME NEW i \in Items, Submit(i) \/ DbInsert(i) PROVE AtRest
    BY <1>1, <2>1, <2>2, <2>3 DEF Submit, DbInsert
  <2>4. CASE Take \/ WriteTimesOut \/ NotifyEnds
    BY <1>1, <2>1, <2>2, <2>4
    DEF Take, WriteTimesOut, NotifyEnds, Spent, NotifyState
  <2>5. ~SubmitToFull /\ ~WriteSucceeds /\ ~WriteFails /\ ~Retry /\ ~Close
        /\ ~CloseStarts /\ ~AwaitTimesOut /\ ~CloseEnds
    BY <2>1 DEF SubmitToFull, WriteSucceeds, WriteFails, Retry, Close, CloseStarts,
                AwaitTimesOut, CloseEnds, Spent
  <2>6. CASE WriteCancelled
    <3>1. Dies /\ UNCHANGED <<notify, closing>>
      BY <1>1, <2>6, WorkerDiesDoes DEF WriteCancelled, Holding
    <3> QED BY <1>1, <2>2, <3>1 DEF Dies, Steady
  <2>7. CASE CloseInNotify
    <3>1. notify.phase # "none" /\ closing' = closing
      BY <2>1, <2>7 DEF CloseInNotify
    <3>2. Steady /\ s'.closed = s.closed
      <4>1. CASE SentinelStep
        BY <4>1 DEF SentinelStep
      <4>2. CASE DrainStep
        BY <2>1, <3>1, <4>2 DEF DrainStep
      <4> QED BY <1>1, <2>7, <4>1, <4>2, CloseInNotifyDoes
    <3> QED BY <1>1, <2>2, <3>1, <3>2 DEF Steady
  <2>8. ASSUME NEW d \in Drainers, DrainEnds(d) \/ GraceOver(d) PROVE AtRest
    <3>1. DrainStep /\ Phase(d) \in {"drain", "grace"}
      BY <1>1, <2>8, DrainEndsDoes DEF DrainEnds, GraceOver
    <3>2. d = "notify" /\ notify.phase # "none"
      BY <2>1, <3>1 DEF Phase, Drainers
    <3>3. closing' = closing /\ s'.closed = s.closed
      BY <2>1, <3>1 DEF DrainStep, Created
    <3> QED BY <1>1, <2>2, <3>1, <3>2, <3>3 DEF DrainStep, Steady
  <2>9. ASSUME NEW d \in Drainers, DrainTimesOut(d) PROVE AtRest
    <3>1. d = "notify" /\ notify.phase # "none" /\ closing' = closing
      BY <2>1, <2>9 DEF DrainTimesOut, Phase, Drainers, EnterGrace
    <3>2. Steady /\ s'.closed = s.closed
      BY <1>1, <2>9, TimeoutDoes DEF CancelStep, Cancelled, Dies, Steady
    <3> QED BY <1>1, <2>2, <3>1, <3>2 DEF Steady
  <2> QED BY <1>1, <2>3, <2>4, <2>5, <2>6, <2>7, <2>8, <2>9 DEF Next
<1>2. IInv /\ IInv' /\ [Next]_vars =>
        [s.closed => /\ s'.closed /\ s'.accepted = s.accepted
                     /\ s'.succeeded = s.succeeded
                     /\ s'.pending = 0 /\ s'.inflight = 0
                     /\ closing' = closing
                     /\ notify.phase = "none" => notify' = notify]_vars
  BY <1>1
<1> QED BY <1>2, Invariance, PTL DEF Spec, ClosedIsFinal

-----------------------------------------------------------------------------
(* The sink as the job sees it. *)

\* How far the shared close is, in the words of JobOrchestrator.
SinkPhase ==
  CASE closing.phase = "none" -> "open"
    [] closing.phase \in {"created", "drain", "grace"} -> "closing"
    [] closing.phase \in {"await", "notifyGrace"} -> "drained"
    [] OTHER -> "closed"

\* What the job lets its sink do: go through its phases in their order, where
\* a close without a notification to wait for passes over one, cancel a
\* notification that is still going before it closes, and begin one only
\* before it has drained.
SinkMove ==
  /\ \/ SinkPhase' = SinkPhase
     \/ SinkPhase = "open" /\ SinkPhase' = "closing"
     \/ SinkPhase = "closing" /\ SinkPhase' \in {"drained", "closed"}
     \/ SinkPhase = "drained" /\ SinkPhase' = "closed"
  /\ SinkPhase # "closed" /\ SinkPhase' = "closed" /\ Alive(notify) => notify.cancelled
  /\ notify.phase = "none" /\ notify' # notify => SinkPhase \in {"open", "closing"}

SinkAsAssumed == [][SinkMove]_vars

GraceCancels == closing.phase = "notifyGrace" /\ Alive(notify) => notify.cancelled

LEMMA SinkSteps == IInv /\ GraceCancels /\ [Next]_vars => SinkMove /\ GraceCancels'
<1> SUFFICES ASSUME IInv, GraceCancels, [Next]_vars PROVE SinkMove /\ GraceCancels'
  OBVIOUS
<1> DEFINE Fine == SinkMove /\ GraceCancels'
<1>0. /\ notify \in NotifyState /\ closing \in ClosingState
      /\ closing.phase # "none" => ~s.accepting
      /\ closing.phase \in {"await", "notifyGrace", "done"} => Spent
  BY TypeFacts DEF IInv, Closing
\* Who leaves both as they are, or only ends or starts a notification.
<1>1. CASE closing' = closing /\ notify' = notify
  BY <1>1 DEF SinkMove, SinkPhase, GraceCancels
<1>2. ASSUME closing' = closing, notify'.cancelled = notify.cancelled,
             notify.phase = "none" => closing.phase \in {"none", "created", "drain", "grace"},
             closing.phase = "notifyGrace" /\ Alive(notify') => Alive(notify)
      PROVE  Fine
  BY <1>0, <1>2 DEF SinkMove, SinkPhase, GraceCancels, Alive, NotifyState
<1>3. ASSUME NotifyIfFirst, closing' = closing,
             closing.phase \in {"none", "created", "drain", "grace"}
      PROVE  Fine
  BY <1>0, <1>2, <1>3 DEF NotifyIfFirst, NotifyState
<1>4. CASE SubmitToFull
  <2>1. closing.phase = "none"
    BY <1>0, <1>4 DEF SubmitToFull
  <2> QED BY <1>3, <1>4, <2>1 DEF SubmitToFull
<1>5. CASE WriteFails
  <2>1. closing.phase \in {"none", "created", "drain", "grace"}
    BY <1>0, <1>5 DEF WriteFails, Spent, ClosingState
  <2> QED BY <1>1, <1>3, <1>5, <2>1 DEF WriteFails
<1>6. CASE \/ \E i \in Items : Submit(i) \/ DbInsert(i)
           \/ Take \/ WriteSucceeds \/ WriteTimesOut \/ Retry \/ WriteCancelled
           \/ UNCHANGED vars
  BY <1>1, <1>6 DEF Submit, DbInsert, Take, WriteSucceeds, WriteTimesOut, Retry,
                    WriteCancelled, vars
<1>7. CASE Close
  BY <1>0, <1>7 DEF Close, SinkMove, SinkPhase, GraceCancels, ClosingState
<1>8. CASE CloseStarts
  <2>1. /\ closing.phase = "created" /\ notify' = notify
        /\ closing'.phase \in {"drain", "await"} \/ (closing'.phase = "done" /\ ~Alive(notify))
    BY <1>0, <1>8 DEF CloseStarts, AfterDrain, ClosingState
  <2> QED BY <2>1 DEF SinkMove, SinkPhase, GraceCancels
<1>9. CASE CloseInNotify
  <2>1. /\ notify.phase = "calling" /\ notify'.cancelled = notify.cancelled
        /\ \/ closing' = closing
           \/ closing.phase = "none" /\ closing'.phase = "created"
    BY <1>0, <1>9 DEF CloseInNotify, NotifyState, ClosingState
  <2> QED BY <1>2, <2>1 DEF Alive, SinkMove, SinkPhase, GraceCancels
<1>10. ASSUME NEW who \in Drainers, DrainEnds(who) \/ GraceOver(who) PROVE Fine
  <2>1. EndDrain(who) /\ Phase(who) \in {"drain", "grace"}
    BY <1>10 DEF DrainEnds, GraceOver
  <2>2. CASE who = "close"
    <3>1. /\ closing.phase \in {"drain", "grace"} /\ notify' = notify
          /\ closing'.phase = "await" \/ (closing'.phase = "done" /\ ~Alive(notify))
      BY <1>0, <2>1, <2>2 DEF EndDrain, AfterDrain, Phase, ClosingState
    <3> QED BY <3>1 DEF SinkMove, SinkPhase, GraceCancels
  <2>3. CASE who = "notify"
    BY <1>0, <1>2, <2>1, <2>3 DEF EndDrain, Phase, NotifyState, Alive
  <2> QED BY <2>2, <2>3 DEF Drainers
<1>11. ASSUME NEW who \in Drainers, DrainTimesOut(who) PROVE Fine
  <2>1. EnterGrace(who) /\ Phase(who) = "drain"
    BY <1>11 DEF DrainTimesOut
  <2>2. CASE who = "close"
    <3>1. closing.phase = "drain" /\ closing'.phase = "grace" /\ notify' = notify
      BY <1>0, <2>1, <2>2 DEF EnterGrace, Phase, ClosingState
    <3> QED BY <3>1 DEF SinkMove, SinkPhase, GraceCancels
  <2>3. CASE who = "notify"
    BY <1>0, <1>2, <2>1, <2>3 DEF EnterGrace, Phase, NotifyState, Alive
  <2> QED BY <2>2, <2>3 DEF Drainers
<1>12. CASE NotifyEnds
  BY <1>0, <1>2, <1>12 DEF NotifyEnds, NotifyState, Alive
<1>13. CASE AwaitTimesOut
  <2>1. /\ closing.phase = "await" /\ closing'.phase = "notifyGrace"
        /\ Alive(notify) /\ notify'.cancelled
    BY <1>0, <1>13 DEF AwaitTimesOut, NotifyState, ClosingState
  <2> QED BY <2>1 DEF SinkMove, SinkPhase, GraceCancels, Alive
<1>14. CASE CloseEnds
  <2>1. /\ closing.phase \in {"await", "notifyGrace"} /\ closing'.phase = "done"
        /\ notify' = notify /\ (closing.phase = "await" => ~Alive(notify))
    BY <1>14 DEF CloseEnds
  <2> QED BY <2>1 DEF SinkMove, SinkPhase, GraceCancels
<1> QED BY <1>4, <1>5, <1>6, <1>7, <1>8, <1>9, <1>10, <1>11, <1>12, <1>13, <1>14 DEF Next

(* The sink does to the job what JobOrchestrator assumes of it: it closes   *)
(* phase by phase, whichever task asked for it, cancels a notification that *)
(* outlives its budget before it closes, and notifies nobody once it has    *)
(* drained (transcript_sink.py:425-499, job_orchestrator.py:271-297).       *)
THEOREM SinkKeepsToJob == Spec => SinkAsAssumed
<1>1. Init => GraceCancels
  BY DEF Init, GraceCancels
<1>2. IInv /\ GraceCancels /\ [Next]_vars => GraceCancels' /\ [SinkMove]_vars
  BY SinkSteps
<1> QED BY <1>1, <1>2, Invariance, PTL DEF Spec, SinkAsAssumed

-----------------------------------------------------------------------------
(* The job. *)

Telling == {"send", "leave"}

Quiet == \A e \in Errors : pc[e] \notin Telling

\* The error tasks in close() are those of _in_close_tasks.
InCloseIsClosing == \A e \in Errors : e \in inClose <=> pc[e] \in InClosing

\* Nobody is in close, or has been, before the job is closing.
ClosingSet == closed \/ (\E t \in Tasks : pc[t] \in InClosing) => jobClosing

\* A call of close waits for whoever is telling, or nobody is any more.
WaitsForTelling ==
  \A t \in Tasks :
    /\ pc[t] \in {"drain", "reap"} => \A e \in Errors : pc[e] \in Telling => e \in waits[t]
    /\ pc[t] \in {"sink", "yield", "drain2", "reap2"} => Quiet

JobIInv == JobTypeOK /\ InCloseIsClosing /\ ClosingSet /\ WaitsForTelling /\ NoLateNotice

-----------------------------------------------------------------------------
(* Every step keeps the types. *)
LEMMA JobTypeStep == JobIInv /\ [JobNext]_jobVars => JobTypeOK'
<1> SUFFICES ASSUME JobIInv, [JobNext]_jobVars PROVE JobTypeOK'
  OBVIOUS
<1> USE TasksAssumption DEF JobIInv, Tasks, InClosing, Telling, Go, JobTypeOK
<1>1. CASE Setup
  BY <1>1 DEF Setup
<1>2. CASE Start
  BY <1>2 DEF Start
<1>3. CASE CancelRun
  BY <1>3 DEF CancelRun, Live
<1>4. ASSUME NEW e \in Errors, Spawn(e) PROVE JobTypeOK'
  BY <1>4 DEF Spawn
<1>5. CASE SinkFails
  BY <1>5 DEF SinkFails
<1>6. ASSUME NEW t \in Tasks, Publish(t) PROVE JobTypeOK'
  BY <1>6 DEF Publish
<1>7. ASSUME NEW t \in Tasks, Left(t) PROVE JobTypeOK'
  BY <1>7 DEF Left, AfterLeaving
<1>8. ASSUME NEW t \in Tasks, CloseJob(t) PROVE JobTypeOK'
  <2>1. inClose' \subseteq Errors
    BY <1>8 DEF CloseJob
  <2>2. Targets(t, inClose') \subseteq Errors
    BY DEF Targets
  <2>3. waits' \in [Tasks -> SUBSET Errors] /\ cancelled' \subseteq Tasks
    <3>1. CASE Targets(t, inClose') = {}
      BY <1>8, <3>1 DEF CloseJob, Drain
    <3>2. CASE Targets(t, inClose') # {}
      <4>1. waits' = [waits EXCEPT ![t] = Targets(t, inClose')]
        BY <1>8, <3>2 DEF CloseJob, Drain
      <4>2. cancelled' = cancelled \/ cancelled' = cancelled \cup Targets(t, inClose')
        BY <1>8, <3>2 DEF CloseJob, Drain
      <4> QED
        BY <2>2, <4>1, <4>2
    <3> QED
      BY <3>1, <3>2
  <2>4. \E p \in {"drain", "reap", "sink"} : pc' = [pc EXCEPT ![t] = p]
    BY <1>8 DEF CloseJob, Drain
  <2>5. deadline' \in {"unset", "ahead", "past"} /\ again' \in BOOLEAN
    BY <1>8 DEF CloseJob
  <2> QED
    BY <1>8, <2>1, <2>3, <2>4, <2>5 DEF CloseJob
<1>9. ASSUME NEW t \in Tasks, TaskCancelled(t) PROVE JobTypeOK'
  BY <1>9 DEF TaskCancelled, AfterLeaving
<1>10. ASSUME NEW t \in Tasks, TargetsOver(t) PROVE JobTypeOK'
  BY <1>10 DEF TargetsOver, Return, Live
<1>11. ASSUME NEW t \in Tasks, CancelTargets(t) PROVE JobTypeOK'
  BY <1>11 DEF CancelTargets, Live
<1>12. ASSUME NEW t \in Tasks, CloseSink(t) PROVE JobTypeOK'
  BY <1>12 DEF CloseSink
<1>13. ASSUME NEW t \in Tasks, SinkClosed(t) PROVE JobTypeOK'
  BY <1>13 DEF SinkClosed, Return, Live
<1>14. ASSUME NEW t \in Tasks, DrainAgain(t) PROVE JobTypeOK'
  <2>1. Targets(t, inClose) \subseteq Errors
    BY DEF Targets
  <2>2. waits' \in [Tasks -> SUBSET Errors] /\ cancelled' \subseteq Tasks
    BY <1>14, <2>1 DEF DrainAgain, Drain
  <2>3. \E p \in {"done", "back", "drain2", "reap2"} : pc' = [pc EXCEPT ![t] = p]
    BY <1>14 DEF DrainAgain, Drain, Return
  <2>4. inClose' \subseteq Errors /\ closed' \in BOOLEAN
    BY <1>14 DEF DrainAgain, Drain, Return
  <2> QED
    BY <1>14, <2>2, <2>3, <2>4 DEF DrainAgain
<1>15. CASE DeadlinePasses
  BY <1>15 DEF DeadlinePasses
<1>16. CASE SinkDrains
  BY <1>16 DEF SinkDrains
<1>17. CASE SinkCloses
  BY <1>17 DEF SinkCloses, Live
<1>18. CASE UNCHANGED jobVars
  BY <1>18 DEF jobVars
<1> QED
  BY <1>1, <1>2, <1>3, <1>4, <1>5, <1>6, <1>7, <1>8, <1>9, <1>10, <1>11, <1>12, <1>13, <1>14, <1>15, <1>16, <1>17, <1>18 DEF JobNext, Closer

(* A task enters and leaves _in_close_tasks with close itself. *)
LEMMA InCloseStep == JobIInv /\ [JobNext]_jobVars => InCloseIsClosing'
<1> SUFFICES ASSUME JobIInv, [JobNext]_jobVars PROVE InCloseIsClosing'
  OBVIOUS
<1> USE TasksAssumption DEF JobIInv, Tasks, InClosing, Telling, Go, JobTypeOK, InCloseIsClosing
<1>1. CASE Setup
  BY <1>1 DEF Setup
<1>2. CASE Start
  BY <1>2 DEF Start
<1>3. CASE CancelRun
  BY <1>3 DEF CancelRun, Live
<1>4. ASSUME NEW e \in Errors, Spawn(e) PROVE InCloseIsClosing'
  BY <1>4 DEF Spawn
<1>5. CASE SinkFails
  BY <1>5 DEF SinkFails
<1>6. ASSUME NEW t \in Tasks, Publish(t) PROVE InCloseIsClosing'
  BY <1>6 DEF Publish
<1>7. ASSUME NEW t \in Tasks, Left(t) PROVE InCloseIsClosing'
  BY <1>7 DEF Left, AfterLeaving
<1>8. ASSUME NEW t \in Tasks, CloseJob(t) PROVE InCloseIsClosing'
  BY <1>8 DEF CloseJob, Drain, Targets, Live
<1>9. ASSUME NEW t \in Tasks, TaskCancelled(t) PROVE InCloseIsClosing'
  BY <1>9 DEF TaskCancelled, AfterLeaving
<1>10. ASSUME NEW t \in Tasks, TargetsOver(t) PROVE InCloseIsClosing'
  BY <1>10 DEF TargetsOver, Return, Live
<1>11. ASSUME NEW t \in Tasks, CancelTargets(t) PROVE InCloseIsClosing'
  BY <1>11 DEF CancelTargets, Live
<1>12. ASSUME NEW t \in Tasks, CloseSink(t) PROVE InCloseIsClosing'
  BY <1>12 DEF CloseSink
<1>13. ASSUME NEW t \in Tasks, SinkClosed(t) PROVE InCloseIsClosing'
  BY <1>13 DEF SinkClosed, Return, Live
<1>14. ASSUME NEW t \in Tasks, DrainAgain(t) PROVE InCloseIsClosing'
  BY <1>14 DEF DrainAgain, Return, Drain, Targets, Live
<1>15. CASE DeadlinePasses
  BY <1>15 DEF DeadlinePasses
<1>16. CASE SinkDrains
  BY <1>16 DEF SinkDrains
<1>17. CASE SinkCloses
  BY <1>17 DEF SinkCloses, Live
<1>18. CASE UNCHANGED jobVars
  BY <1>18 DEF jobVars
<1> QED
  BY <1>1, <1>2, <1>3, <1>4, <1>5, <1>6, <1>7, <1>8, <1>9, <1>10, <1>11, <1>12, <1>13, <1>14, <1>15, <1>16, <1>17, <1>18 DEF JobNext, Closer

(* closing is set first, and for good. *)
LEMMA ClosingStep == JobIInv /\ [JobNext]_jobVars => ClosingSet'
<1> SUFFICES ASSUME JobIInv, [JobNext]_jobVars PROVE ClosingSet'
  OBVIOUS
<1> USE TasksAssumption DEF JobIInv, Tasks, InClosing, Telling, Go, JobTypeOK, ClosingSet
<1>1. CASE Setup
  BY <1>1 DEF Setup
<1>2. CASE Start
  BY <1>2 DEF Start
<1>3. CASE CancelRun
  BY <1>3 DEF CancelRun, Live
<1>4. ASSUME NEW e \in Errors, Spawn(e) PROVE ClosingSet'
  BY <1>4 DEF Spawn
<1>5. CASE SinkFails
  BY <1>5 DEF SinkFails
<1>6. ASSUME NEW t \in Tasks, Publish(t) PROVE ClosingSet'
  BY <1>6 DEF Publish
<1>7. ASSUME NEW t \in Tasks, Left(t) PROVE ClosingSet'
  BY <1>7 DEF Left, AfterLeaving
<1>8. ASSUME NEW t \in Tasks, CloseJob(t) PROVE ClosingSet'
  BY <1>8 DEF CloseJob, Drain, Targets, Live
<1>9. ASSUME NEW t \in Tasks, TaskCancelled(t) PROVE ClosingSet'
  BY <1>9 DEF TaskCancelled, AfterLeaving
<1>10. ASSUME NEW t \in Tasks, TargetsOver(t) PROVE ClosingSet'
  BY <1>10 DEF TargetsOver, Return, Live
<1>11. ASSUME NEW t \in Tasks, CancelTargets(t) PROVE ClosingSet'
  BY <1>11 DEF CancelTargets, Live
<1>12. ASSUME NEW t \in Tasks, CloseSink(t) PROVE ClosingSet'
  BY <1>12 DEF CloseSink
<1>13. ASSUME NEW t \in Tasks, SinkClosed(t) PROVE ClosingSet'
  BY <1>13 DEF SinkClosed, Return, Live
<1>14. ASSUME NEW t \in Tasks, DrainAgain(t) PROVE ClosingSet'
  BY <1>14 DEF DrainAgain, Return, Drain, Targets, Live
<1>15. CASE DeadlinePasses
  BY <1>15 DEF DeadlinePasses
<1>16. CASE SinkDrains
  BY <1>16 DEF SinkDrains
<1>17. CASE SinkCloses
  BY <1>17 DEF SinkCloses, Live
<1>18. CASE UNCHANGED jobVars
  BY <1>18 DEF jobVars
<1> QED
  BY <1>1, <1>2, <1>3, <1>4, <1>5, <1>6, <1>7, <1>8, <1>9, <1>10, <1>11, <1>12, <1>13, <1>14, <1>15, <1>16, <1>17, <1>18 DEF JobNext, Closer

(* Whoever still tells the client is waited for. *)
LEMMA WaitsStep == JobIInv /\ [JobNext]_jobVars => WaitsForTelling'
<1> SUFFICES ASSUME JobIInv, [JobNext]_jobVars PROVE WaitsForTelling'
  OBVIOUS
<1> USE TasksAssumption DEF JobIInv, Tasks, InClosing, Telling, Go, JobTypeOK, InCloseIsClosing, ClosingSet, WaitsForTelling, Quiet
<1>1. CASE Setup
  BY <1>1 DEF Setup
<1>2. CASE Start
  BY <1>2 DEF Start
<1>3. CASE CancelRun
  BY <1>3 DEF CancelRun, Live
<1>4. ASSUME NEW e \in Errors, Spawn(e) PROVE WaitsForTelling'
  BY <1>4 DEF Spawn
<1>5. CASE SinkFails
  BY <1>5 DEF SinkFails
<1>6. ASSUME NEW t \in Tasks, Publish(t) PROVE WaitsForTelling'
  BY <1>6 DEF Publish
<1>7. ASSUME NEW t \in Tasks, Left(t) PROVE WaitsForTelling'
  BY <1>7 DEF Left, AfterLeaving
<1>8. ASSUME NEW t \in Tasks, CloseJob(t) PROVE WaitsForTelling'
  BY <1>8 DEF CloseJob, Drain, Targets, Live
<1>9. ASSUME NEW t \in Tasks, TaskCancelled(t) PROVE WaitsForTelling'
  BY <1>9 DEF TaskCancelled, AfterLeaving
<1>10. ASSUME NEW t \in Tasks, TargetsOver(t) PROVE WaitsForTelling'
  BY <1>10 DEF TargetsOver, Return, Live
<1>11. ASSUME NEW t \in Tasks, CancelTargets(t) PROVE WaitsForTelling'
  BY <1>11 DEF CancelTargets, Live
<1>12. ASSUME NEW t \in Tasks, CloseSink(t) PROVE WaitsForTelling'
  BY <1>12 DEF CloseSink
<1>13. ASSUME NEW t \in Tasks, SinkClosed(t) PROVE WaitsForTelling'
  BY <1>13 DEF SinkClosed, Return, Live
<1>14. ASSUME NEW t \in Tasks, DrainAgain(t) PROVE WaitsForTelling'
  BY <1>14 DEF DrainAgain, Return, Drain, Targets, Live
<1>15. CASE DeadlinePasses
  BY <1>15 DEF DeadlinePasses
<1>16. CASE SinkDrains
  BY <1>16 DEF SinkDrains
<1>17. CASE SinkCloses
  BY <1>17 DEF SinkCloses, Live
<1>18. CASE UNCHANGED jobVars
  BY <1>18 DEF jobVars
<1> QED
  BY <1>1, <1>2, <1>3, <1>4, <1>5, <1>6, <1>7, <1>8, <1>9, <1>10, <1>11, <1>12, <1>13, <1>14, <1>15, <1>16, <1>17, <1>18 DEF JobNext, Closer

(* A call of close returns when nobody tells any more. *)
LEMMA NoticeStep == JobIInv /\ [JobNext]_jobVars => NoLateNotice'
<1> SUFFICES ASSUME JobIInv, [JobNext]_jobVars PROVE NoLateNotice'
  OBVIOUS
<1> USE TasksAssumption DEF JobIInv, Tasks, InClosing, Telling, Go, JobTypeOK, ClosingSet, WaitsForTelling, NoLateNotice, Quiet
<1>1. CASE Setup
  BY <1>1 DEF Setup
<1>2. CASE Start
  BY <1>2 DEF Start
<1>3. CASE CancelRun
  BY <1>3 DEF CancelRun, Live
<1>4. ASSUME NEW e \in Errors, Spawn(e) PROVE NoLateNotice'
  BY <1>4 DEF Spawn
<1>5. CASE SinkFails
  BY <1>5 DEF SinkFails
<1>6. ASSUME NEW t \in Tasks, Publish(t) PROVE NoLateNotice'
  BY <1>6 DEF Publish
<1>7. ASSUME NEW t \in Tasks, Left(t) PROVE NoLateNotice'
  BY <1>7 DEF Left, AfterLeaving
<1>8. ASSUME NEW t \in Tasks, CloseJob(t) PROVE NoLateNotice'
  BY <1>8 DEF CloseJob, Drain, Targets, Live
<1>9. ASSUME NEW t \in Tasks, TaskCancelled(t) PROVE NoLateNotice'
  BY <1>9 DEF TaskCancelled, AfterLeaving
<1>10. ASSUME NEW t \in Tasks, TargetsOver(t) PROVE NoLateNotice'
  <2>1. pc[t] \in {"drain", "drain2", "reap", "reap2"} /\ \A e \in waits[t] : ~Live(e)
    BY <1>10 DEF TargetsOver
  <2>2. Quiet
    BY <2>1 DEF Live
  <2>3. \E p \in {"done", "back", "sink"} : pc' = [pc EXCEPT ![t] = p]
    BY <1>10 DEF TargetsOver, Return
  <2> QED
    BY <2>2, <2>3
<1>11. ASSUME NEW t \in Tasks, CancelTargets(t) PROVE NoLateNotice'
  BY <1>11 DEF CancelTargets, Live
<1>12. ASSUME NEW t \in Tasks, CloseSink(t) PROVE NoLateNotice'
  BY <1>12 DEF CloseSink
<1>13. ASSUME NEW t \in Tasks, SinkClosed(t) PROVE NoLateNotice'
  <2>1. Quiet
    BY <1>13 DEF SinkClosed
  <2>2. \E p \in {"done", "back", "yield"} : pc' = [pc EXCEPT ![t] = p]
    BY <1>13 DEF SinkClosed, Return
  <2> QED
    BY <2>1, <2>2
<1>14. ASSUME NEW t \in Tasks, DrainAgain(t) PROVE NoLateNotice'
  <2>1. Quiet
    BY <1>14 DEF DrainAgain
  <2>2. \E p \in {"done", "back", "drain2", "reap2"} : pc' = [pc EXCEPT ![t] = p]
    BY <1>14 DEF DrainAgain, Drain, Return
  <2> QED
    BY <2>1, <2>2
<1>15. CASE DeadlinePasses
  BY <1>15 DEF DeadlinePasses
<1>16. CASE SinkDrains
  BY <1>16 DEF SinkDrains
<1>17. CASE SinkCloses
  BY <1>17 DEF SinkCloses, Live
<1>18. CASE UNCHANGED jobVars
  BY <1>18 DEF jobVars
<1> QED
  BY <1>1, <1>2, <1>3, <1>4, <1>5, <1>6, <1>7, <1>8, <1>9, <1>10, <1>11, <1>12, <1>13, <1>14, <1>15, <1>16, <1>17, <1>18 DEF JobNext, Closer

-----------------------------------------------------------------------------
(* The invariant holds at the start: every task but run is yet to be made. *)
LEMMA JobInitInv == JobInit => JobIInv
BY TasksAssumption DEF JobInit, JobIInv, JobTypeOK, InCloseIsClosing, ClosingSet, WaitsForTelling,
   Quiet, NoLateNotice, Tasks, InClosing, Telling

(* And is kept by every step. *)
LEMMA JobStepInv == JobIInv /\ [JobNext]_jobVars => JobIInv'
BY JobTypeStep, InCloseStep, ClosingStep, WaitsStep, NoticeStep DEF JobIInv

(* Of every run of the job: the types hold, and when a call of close has    *)
(* returned no error task is still telling the client or leaving the room,  *)
(* whatever the number of error tasks (job_orchestrator.py:175-182,         *)
(* 204-270, 299-333).                                                       *)
THEOREM NoNotificationOutlivesClose == JobSpec => []JobInv
<1>1. JobIInv => JobInv
  BY DEF JobIInv, JobInv
<1> QED
  BY JobInitInv, JobStepInv, <1>1, PTL DEF JobSpec
=============================================================================
