------------------------- MODULE AnalysisJobsProofs -------------------------
(***************************************************************************)
(* The safety of AnalysisJobs for any numbers of jobs, workers, attempts   *)
(* and manual retries.                                                     *)
(*                                                                         *)
(* Inv is inductive: one lemma for each action, with one step for each     *)
(* conjunct.  The argument is that of ExecutionHoldsRow: a claim is no     *)
(* token, and its worker may come back late, but an execution starts only  *)
(* on a running job and from then on holds its row, which recovery skips   *)
(* and every other transaction waits for.  So whoever commits finds a      *)
(* running job, to which nothing has been applied yet.                     *)
(***************************************************************************)
EXTENDS AnalysisJobs, TLAPS

-----------------------------------------------------------------------------
(* What the writes of the code make of a row. *)
LEMMA RequeuedRow ==
  ASSUME NEW r \in Rows, NEW due \in BOOLEAN,
         NEW code \in {"none", "transient", "final", "worker_timeout"}
  PROVE  /\ Requeued(r, due, code) \in Rows
         /\ Requeued(r, due, code).status = "pending"
         /\ Requeued(r, due, code).attempts = r.attempts
BY DEF Requeued, Rows

LEMMA FailedRow ==
  ASSUME NEW r \in Rows,
         NEW code \in {"none", "transient", "final", "worker_timeout"}
  PROVE  /\ Failed(r, code) \in Rows
         /\ Failed(r, code).status = "failed"
         /\ Failed(r, code).code = code
         /\ Failed(r, code).attempts = r.attempts
BY DEF Failed, Rows

LEMMA RunningRow ==
  ASSUME NEW r \in Rows, r.attempts < MaxAttempts + MaxManual
  PROVE  /\ Running(r) \in Rows
         /\ Running(r).status = "running"
         /\ Running(r).attempts = r.attempts + 1
<1>1. r.attempts \in Nat /\ r.attempts + 1 \in 0..(MaxAttempts + MaxManual)
  BY AttemptAssumption DEF Rows
<1> QED BY <1>1 DEF Running, Rows

(* The attempts of a job are numbers, and so are the bounds. *)
LEMMA Numbers ==
  ASSUME TypeOK, NEW j \in Jobs
  PROVE  /\ job[j].attempts \in Nat /\ manual[j] \in Nat /\ manual[j] <= MaxManual
         /\ MaxAttempts \in Nat /\ MaxAttempts > 0 /\ MaxManual \in Nat
BY AttemptAssumption DEF TypeOK, Rows

(* A transaction that writes one row which nobody is executing preserves   *)
(* the invariant if the row it writes is within the job's budget.          *)
LEMMA WriteInv ==
  ASSUME Inv, NEW j \in Jobs, ~Locked(j), NEW row \in Rows,
         job' = [job EXCEPT ![j] = row], UNCHANGED <<created, applied, manual>>,
         worker' \in [Workers -> Hands],
         \A w \in Workers : worker'[w].phase # "idle" => worker'[w].job \in Jobs,
         \A w \in Workers :
           worker'[w].phase = "executing" => worker'[w] = worker[w],
         row.status = "succeeded" <=> job[j].status = "succeeded",
         row.attempts <= MaxAttempts + manual[j],
         row.status = "failed" => row.attempts >= MaxAttempts \/ row.code = "final",
         row.status = "pending" => row.attempts < MaxAttempts + manual[j]
  PROVE  Inv'
<1> USE DEF Inv
<1>1. TypeOK'
  BY DEF TypeOK
<1>2. AppliedOnce'
  BY DEF AppliedOnce, TypeOK
<1>3. AttemptBudget'
  BY DEF AttemptBudget, TypeOK
<1>4. ExecutionHoldsRow'
  BY DEF ExecutionHoldsRow, Locked, TypeOK
<1>5. AttemptLeft'
  BY DEF AttemptLeft, TypeOK
<1> QED BY <1>1, <1>2, <1>3, <1>4, <1>5

(* A worker that goes on without writing preserves it too, if it executes  *)
(* only a running row that nobody else does.                               *)
LEMMA WorkerInv ==
  ASSUME Inv, NEW w \in Workers, NEW hand \in Hands,
         worker' = [worker EXCEPT ![w] = hand],
         UNCHANGED <<job, created, applied, manual>>,
         hand.phase # "idle" => hand.job \in Jobs,
         hand.phase = "executing" =>
           job[hand.job].status = "running" /\ ~Locked(hand.job)
  PROVE  Inv'
<1> USE DEF Inv
<1>1. TypeOK'
  BY DEF TypeOK
<1>2. AppliedOnce' /\ AttemptBudget' /\ AttemptLeft'
  BY DEF AppliedOnce, AttemptBudget, AttemptLeft
<1>3. ExecutionHoldsRow'
  BY DEF ExecutionHoldsRow, Locked, TypeOK
<1> QED BY <1>1, <1>2, <1>3

-----------------------------------------------------------------------------
(* There are no jobs and nothing has been applied. *)
LEMMA InitInv == Init => Inv
<1> SUFFICES ASSUME Init PROVE Inv
  OBVIOUS
<1> USE AttemptAssumption DEF Init, Idle, Absent
<1>1. TypeOK
  BY DEF TypeOK, Rows, Hands
<1>2. AppliedOnce /\ AttemptBudget
  BY DEF AppliedOnce, AttemptBudget
<1>3. ExecutionHoldsRow /\ AttemptLeft
  BY DEF ExecutionHoldsRow, AttemptLeft
<1> QED BY <1>1, <1>2, <1>3 DEF Inv

(* A job is created with its whole budget. *)
LEMMA EndSessionInv ==
  ASSUME Inv, NEW j \in Jobs, EndSession(j)
  PROVE  Inv'
<1> DEFINE row == [Absent EXCEPT !.status = "pending", !.due = TRUE]
<1> USE AttemptAssumption DEF Inv, EndSession
<1>1. /\ row \in Rows /\ row.status = "pending" /\ row.attempts = 0
      /\ job[j].status = "absent"
  <2>1. 0 \in 0..(MaxAttempts + MaxManual)
    OBVIOUS
  <2>2. /\ Absent \in Rows /\ Absent.attempts = 0
        /\ Absent.status = "absent"
    BY <2>1 DEF Absent, Rows
  <2> QED BY <2>2 DEF Rows
<1>2. job' = [job EXCEPT ![j] = row]
  OBVIOUS
<1> HIDE DEF row
<1>3. TypeOK'
  <2>1. job' \in [Jobs -> Rows]
    BY <1>1, <1>2 DEF TypeOK
  <2>2. created' \in Seq(Jobs)
    BY DEF TypeOK
  <2> QED BY <2>1, <2>2 DEF TypeOK
<1>4. AppliedOnce'
  BY <1>1, <1>2 DEF AppliedOnce, TypeOK
<1>5. AttemptBudget' /\ AttemptLeft'
  <2>1. row.attempts < MaxAttempts + manual[j]
    BY <1>1, Numbers
  <2>2. row.attempts <= MaxAttempts + manual[j]
    BY <1>1, Numbers
  <2> QED BY <1>1, <1>2, <2>1, <2>2 DEF AttemptBudget, AttemptLeft, TypeOK
<1>6. ExecutionHoldsRow'
  BY <1>1, <1>2 DEF ExecutionHoldsRow, TypeOK
<1> QED BY <1>3, <1>4, <1>5, <1>6

(* A manual retry adds one attempt to the budget it requeues under. *)
LEMMA RetryAnalysisInv ==
  ASSUME Inv, NEW j \in Jobs, RetryAnalysis(j)
  PROVE  Inv'
<1> DEFINE row == Requeued(job[j], TRUE, "none")
<1> USE DEF Inv, RetryAnalysis
<1>1. row \in Rows /\ row.status = "pending" /\ row.attempts = job[j].attempts
  BY RequeuedRow DEF TypeOK
<1>2. job' = [job EXCEPT ![j] = row] /\ job[j].status \in {"failed", "running"}
  OBVIOUS
<1>3. manual' = [manual EXCEPT ![j] = manual[j] + 1] /\ manual[j] < MaxManual
  BY DEF TypeOK
<1> HIDE DEF row
<1>4. TypeOK'
  <2>1. manual[j] + 1 \in 0..MaxManual
    BY <1>3, Numbers
  <2> QED BY <1>1, <1>2, <1>3, <2>1 DEF TypeOK
<1>5. AppliedOnce'
  BY <1>1, <1>2 DEF AppliedOnce, TypeOK
<1>6. AttemptBudget' /\ AttemptLeft'
  <2>1. job[j].attempts <= MaxAttempts + manual[j]
    BY DEF AttemptBudget
  <2>2. /\ row.attempts < MaxAttempts + (manual[j] + 1)
        /\ row.attempts <= MaxAttempts + (manual[j] + 1)
    BY <1>1, <2>1, Numbers
  <2> QED BY <1>1, <1>2, <1>3, <2>2 DEF AttemptBudget, AttemptLeft, TypeOK
<1>7. ExecutionHoldsRow'
  BY <1>1, <1>2, ZenonT(30) DEF ExecutionHoldsRow, Locked, TypeOK
<1> QED BY <1>4, <1>5, <1>6, <1>7

(* The passing of time writes no more than a flag, even of a locked row. *)
LEMMA TimeInv ==
  ASSUME Inv, NEW j \in Jobs, BackoffEnds(j) \/ GrowsStale(j)
  PROVE  Inv'
<1> USE DEF Inv
<1>1. PICK row \in Rows :
        /\ job' = [job EXCEPT ![j] = row] /\ row.status = job[j].status
        /\ row.attempts = job[j].attempts /\ row.code = job[j].code
  <2>1. CASE BackoffEnds(j)
    <3>1. [job[j] EXCEPT !.due = TRUE] \in Rows
      BY DEF TypeOK, Rows
    <3> QED BY <2>1, <3>1 DEF BackoffEnds, TypeOK, Rows
  <2>2. CASE GrowsStale(j)
    <3>1. [job[j] EXCEPT !.stale = TRUE] \in Rows
      BY DEF TypeOK, Rows
    <3> QED BY <2>2, <3>1 DEF GrowsStale, TypeOK, Rows
  <2> QED BY <2>1, <2>2
<1>2. UNCHANGED <<worker, created, applied, manual>>
  BY DEF BackoffEnds, GrowsStale
<1>3. TypeOK' /\ AppliedOnce'
  BY <1>1, <1>2 DEF TypeOK, AppliedOnce
<1>4. AttemptBudget' /\ AttemptLeft'
  BY <1>1, <1>2 DEF AttemptBudget, AttemptLeft, TypeOK
<1>5. ExecutionHoldsRow'
  BY <1>1, <1>2 DEF ExecutionHoldsRow, TypeOK
<1> QED BY <1>3, <1>4, <1>5

-----------------------------------------------------------------------------
(* An execution begins on a running row that nobody else executes. *)
LEMMA BeginExecuteInv ==
  ASSUME Inv, NEW w \in Workers, BeginExecute(w)
  PROVE  Inv'
<1> DEFINE j == worker[w].job
           hand == IF job[j].status = "running"
                     THEN [worker[w] EXCEPT !.phase = "executing"]
                     ELSE [worker[w] EXCEPT !.phase = "failing", !.error = "transient"]
<1>1. worker[w] \in Hands /\ j \in Jobs
  BY DEF Inv, TypeOK, ExecutionHoldsRow, BeginExecute
<1>2. /\ hand \in Hands /\ hand.job \in Jobs
      /\ hand.phase = "executing" =>
           job[hand.job].status = "running" /\ ~Locked(hand.job)
  BY <1>1 DEF Hands, BeginExecute
<1>3. worker' = [worker EXCEPT ![w] = hand]
  BY DEF Inv, TypeOK, BeginExecute
<1> QED BY <1>2, <1>3, WorkerInv DEF BeginExecute

(* A failed execution leaves its row to be failed later. *)
LEMMA FailExecuteInv ==
  ASSUME Inv, NEW w \in Workers, NEW e \in {"transient", "final"},
         FailExecute(w, e)
  PROVE  Inv'
<1> DEFINE hand == [worker[w] EXCEPT !.phase = "failing", !.error = e]
<1>1. worker[w] \in Hands /\ worker[w].job \in Jobs
  BY DEF Inv, TypeOK, ExecutionHoldsRow, FailExecute
<1>2. hand \in Hands /\ hand.job \in Jobs /\ hand.phase = "failing"
  BY <1>1 DEF Hands
<1>3. worker' = [worker EXCEPT ![w] = hand]
  BY DEF Inv, TypeOK, FailExecute
<1> QED BY <1>2, <1>3, WorkerInv DEF FailExecute

(* A dead worker executes nothing. *)
LEMMA CrashInv ==
  ASSUME Inv, NEW w \in Workers, Crash(w)
  PROVE  Inv'
<1>1. Idle \in Hands /\ Idle.phase = "idle"
  BY DEF Idle, Hands
<1> QED BY <1>1, WorkerInv DEF Crash

(* An execution commits on its own row, which is running: nothing has been *)
(* applied before.                                                         *)
LEMMA CommitExecuteInv ==
  ASSUME Inv, NEW w \in Workers, CommitExecute(w)
  PROVE  Inv'
<1> DEFINE j == worker[w].job
           row == [job[j] EXCEPT !.status = "succeeded", !.due = FALSE,
                                 !.stale = FALSE, !.code = "none"]
<1> USE DEF Inv
<1>1. j \in Jobs /\ job[j].status = "running" /\ worker[w].phase = "executing"
  BY DEF ExecutionHoldsRow, CommitExecute
<1>2. row \in Rows /\ row.status = "succeeded" /\ row.attempts = job[j].attempts
  BY <1>1 DEF TypeOK, Rows
<1>3. /\ job' = [job EXCEPT ![j] = row] /\ worker' = [worker EXCEPT ![w] = Idle]
      /\ applied' = [applied EXCEPT ![j] = applied[j] + 1]
      /\ UNCHANGED <<created, manual>>
  BY <1>1 DEF CommitExecute, TypeOK
<1>4. Idle \in Hands /\ Idle.phase = "idle"
  BY DEF Idle, Hands
<1> HIDE DEF row
<1>5. TypeOK'
  BY <1>1, <1>2, <1>3, <1>4 DEF TypeOK
<1>6. AppliedOnce'
  BY <1>1, <1>2, <1>3 DEF AppliedOnce, TypeOK
<1>7. AttemptBudget' /\ AttemptLeft'
  BY <1>1, <1>2, <1>3 DEF AttemptBudget, AttemptLeft, TypeOK
<1>8. ExecutionHoldsRow'
  BY <1>1, <1>2, <1>3, <1>4 DEF ExecutionHoldsRow, TypeOK
<1> QED BY <1>5, <1>6, <1>7, <1>8

(* A late worker may fail a job that somebody else has claimed meanwhile:  *)
(* that costs the job an attempt, but never more than it has.              *)
LEMMA RecordFailureInv ==
  ASSUME Inv, NEW w \in Workers, RecordFailure(w)
  PROVE  Inv'
<1> DEFINE j == worker[w].job
           row == IF job[j].status # "running" THEN job[j]
                  ELSE IF job[j].attempts >= MaxAttempts \/ worker[w].error = "final"
                    THEN Failed(job[j], worker[w].error)
                    ELSE Requeued(job[j], FALSE, worker[w].error)
<1>1. /\ worker[w] \in Hands /\ j \in Jobs /\ job[j] \in Rows /\ ~Locked(j)
      /\ worker[w].error \in {"none", "transient", "final"}
  BY DEF Inv, TypeOK, ExecutionHoldsRow, RecordFailure, Hands
<1>2. job' = [job EXCEPT ![j] = row]
  BY <1>1 DEF RecordFailure, Inv, TypeOK
<1>3. row \in Rows
  BY <1>1, RequeuedRow, FailedRow
<1>4. /\ row.status = "succeeded" <=> job[j].status = "succeeded"
      /\ row.attempts = job[j].attempts
      /\ row.status = "failed" => row.attempts >= MaxAttempts \/ row.code = "final"
      /\ row.status = "pending" => row.attempts < MaxAttempts + manual[j]
  <2>1. CASE job[j].status # "running"
    BY <1>1, <2>1 DEF Inv, AttemptBudget, AttemptLeft
  <2>2. CASE job[j].status = "running"
    <3>1. job[j].attempts < MaxAttempts => job[j].attempts < MaxAttempts + manual[j]
      BY <1>1, Numbers DEF Inv
    <3>2. job[j].attempts >= MaxAttempts \/ job[j].attempts < MaxAttempts
      BY <1>1, Numbers DEF Inv
    <3>3. CASE job[j].attempts >= MaxAttempts \/ worker[w].error = "final"
      <4>1. row = Failed(job[j], worker[w].error)
        BY <2>2, <3>3
      <4> HIDE DEF row
      <4> QED BY <1>1, <2>2, <3>3, <4>1, FailedRow
    <3>4. CASE ~(job[j].attempts >= MaxAttempts \/ worker[w].error = "final")
      <4>1. row = Requeued(job[j], FALSE, worker[w].error)
        BY <2>2, <3>4
      <4>2. row.status = "pending" /\ row.attempts = job[j].attempts
        BY <1>1, <4>1 DEF Requeued, Rows
      <4> HIDE DEF row
      <4> QED BY <2>2, <3>1, <3>2, <3>4, <4>2
    <3> QED BY <3>3, <3>4
  <2> QED BY <2>1, <2>2
<1>5. /\ worker' = [worker EXCEPT ![w] = Idle] /\ Idle \in Hands
      /\ Idle.phase = "idle" /\ UNCHANGED <<created, applied, manual>>
  BY DEF RecordFailure, Idle, Hands
<1>6. /\ worker' \in [Workers -> Hands]
      /\ \A v \in Workers : worker'[v] = worker[v] \/ worker'[v].phase = "idle"
  BY <1>5 DEF Inv, TypeOK
<1>7. row.attempts <= MaxAttempts + manual[j]
  BY <1>1, <1>4 DEF Inv, AttemptBudget
<1> HIDE DEF row
<1> QED BY <1>1, <1>2, <1>3, <1>4, <1>5, <1>6, <1>7, WriteInv
     DEF Inv, ExecutionHoldsRow
-----------------------------------------------------------------------------
(* Recovery leaves a row that is being executed alone, and any other row   *)
(* within its budget.                                                      *)
LEMMA RecoveredRow ==
  ASSUME Inv, NEW j \in Jobs
  PROVE  /\ Recovered(j) \in Rows
         /\ Recovered(j).attempts = job[j].attempts
         /\ Recovered(j) # job[j] =>
              job[j].status = "running" /\ ~Locked(j)
         /\ Recovered(j).status = "succeeded" <=> job[j].status = "succeeded"
         /\ Recovered(j).status = "failed" =>
              Recovered(j).attempts >= MaxAttempts \/ Recovered(j).code = "final"
         /\ Recovered(j).status = "pending" =>
              Recovered(j).attempts < MaxAttempts + manual[j]
<1>1. job[j] \in Rows
  BY DEF Inv, TypeOK
<1>2. CASE ~(job[j].status = "running" /\ job[j].stale /\ ~Locked(j))
  <2>1. Recovered(j) = job[j]
    BY <1>2 DEF Recovered
  <2> QED BY <1>1, <2>1 DEF Inv, AttemptBudget, AttemptLeft
<1>3. CASE job[j].status = "running" /\ job[j].stale /\ ~Locked(j)
  <2>1. CASE job[j].attempts >= MaxAttempts
    <3>1. Recovered(j) = Failed(job[j], "worker_timeout")
      BY <1>3, <2>1 DEF Recovered
    <3> QED BY <1>1, <1>3, <2>1, <3>1, FailedRow
  <2>2. CASE ~(job[j].attempts >= MaxAttempts)
    <3>1. Recovered(j) = Requeued(job[j], TRUE, "worker_timeout")
      BY <1>3, <2>2 DEF Recovered
    <3>2. /\ Recovered(j) \in Rows /\ Recovered(j).status = "pending"
          /\ Recovered(j).attempts = job[j].attempts
      BY <1>1, <3>1 DEF Requeued, Rows
    <3>3. job[j].attempts < MaxAttempts + manual[j]
      BY <2>2, Numbers DEF Inv
    <3> QED BY <1>3, <3>2, <3>3
  <2> QED BY <2>1, <2>2
<1> QED BY <1>2, <1>3

(* A claim takes a waiting job, which has an attempt left; the rows it     *)
(* recovers and the one it claims are not being executed.                  *)
LEMMA PollInv ==
  ASSUME Inv, NEW w \in Workers, Poll(w)
  PROVE  Inv'
<1> DEFINE rows == [j \in Jobs |-> Recovered(j)]
<1>1. \/ job' = rows /\ UNCHANGED worker
      \/ \E k \in Jobs :
           /\ rows[k].status = "pending"
           /\ job' = [rows EXCEPT ![k] = Running(rows[k])]
           /\ worker' = [worker EXCEPT ![w] = [Idle EXCEPT !.phase = "claimed",
                                                           !.job = k]]
  <2>1. \A i \in DOMAIN created : created[i] \in Jobs
    BY DEF Inv, TypeOK
  <2> QED BY <2>1 DEF Poll
<1>2. UNCHANGED <<created, applied, manual>>
  BY DEF Poll
<1>3. CASE job' = rows /\ UNCHANGED worker
  <2>1. TypeOK' /\ AppliedOnce' /\ AttemptBudget' /\ AttemptLeft'
    BY <1>2, <1>3, RecoveredRow
       DEF Inv, TypeOK, AppliedOnce, AttemptBudget, AttemptLeft
  <2>2. ExecutionHoldsRow'
    BY <1>3, RecoveredRow DEF Inv, ExecutionHoldsRow, Locked
  <2> QED BY <2>1, <2>2 DEF Inv
<1>4. CASE \E k \in Jobs :
             /\ rows[k].status = "pending"
             /\ job' = [rows EXCEPT ![k] = Running(rows[k])]
             /\ worker' = [worker EXCEPT ![w] = [Idle EXCEPT !.phase = "claimed",
                                                             !.job = k]]
  <2>1. PICK k \in Jobs :
             /\ rows[k].status = "pending"
             /\ job' = [rows EXCEPT ![k] = Running(rows[k])]
             /\ worker' = [worker EXCEPT ![w] = [Idle EXCEPT !.phase = "claimed",
                                                             !.job = k]]
    BY <1>4
  <2> DEFINE hand == [Idle EXCEPT !.phase = "claimed", !.job = k]
             row == Running(Recovered(k))
  <2>2. hand \in Hands /\ hand.phase = "claimed" /\ hand.job \in Jobs
    BY DEF Idle, Hands
  <2>3. /\ Recovered(k) \in Rows /\ Recovered(k).status = "pending"
        /\ Recovered(k).attempts = job[k].attempts
        /\ Recovered(k).attempts < MaxAttempts + manual[k]
    BY <2>1, RecoveredRow
  <2>4. /\ Recovered(k).attempts < MaxAttempts + MaxManual
        /\ Recovered(k).attempts + 1 <= MaxAttempts + manual[k]
    BY <2>3, Numbers DEF Inv
  <2>5. row \in Rows /\ row.status = "running" /\ row.attempts <= MaxAttempts + manual[k]
    BY <2>3, <2>4, RunningRow
  <2>6. job' = [j \in Jobs |-> IF j = k THEN row ELSE Recovered(j)]
    BY <2>1
  <2>7. worker' = [worker EXCEPT ![w] = hand]
    BY <2>1
  <2>8. job[k].status \in {"pending", "running"} /\ ~Locked(k)
    <3>1. CASE Recovered(k) = job[k]
      BY <2>3, <3>1 DEF Locked, Inv, ExecutionHoldsRow
    <3>2. CASE Recovered(k) # job[k]
      BY <3>2, RecoveredRow
    <3> QED BY <3>1, <3>2
  <2> HIDE DEF hand, row, rows
  <2>9. TypeOK'
    BY <1>2, <2>2, <2>5, <2>6, <2>7, RecoveredRow DEF Inv, TypeOK
  <2>10. AppliedOnce'
    BY <1>2, <2>5, <2>6, <2>8, RecoveredRow DEF Inv, AppliedOnce
  <2>11. AttemptBudget' /\ AttemptLeft'
    BY <1>2, <2>5, <2>6, RecoveredRow DEF Inv, AttemptBudget, AttemptLeft
  <2>12. ExecutionHoldsRow'
    <3>1. \A v \in Workers :
            worker'[v].phase = "executing" =>
              /\ worker'[v] = worker[v] /\ worker[v].job \in Jobs
              /\ worker[v].job # k /\ job'[worker[v].job] = job[worker[v].job]
      <4> SUFFICES ASSUME NEW v \in Workers, worker'[v].phase = "executing"
                   PROVE  /\ worker'[v] = worker[v] /\ worker[v].job \in Jobs
                          /\ worker[v].job # k
                          /\ job'[worker[v].job] = job[worker[v].job]
        OBVIOUS
      <4>1. worker'[v] = worker[v]
        BY <2>2, <2>7 DEF Inv, TypeOK
      <4>2. worker[v].job \in Jobs /\ Locked(worker[v].job)
        BY <4>1 DEF Inv, ExecutionHoldsRow, Locked
      <4>3. Recovered(worker[v].job) = job[worker[v].job]
        BY <4>2, RecoveredRow
      <4> QED BY <2>6, <2>8, <4>1, <4>2, <4>3
    <3>2. \A v \in Workers : worker'[v].phase # "idle" => worker'[v].job \in Jobs
      BY <2>2, <2>7 DEF Inv, TypeOK, ExecutionHoldsRow
    <3> QED BY <3>1, <3>2 DEF Inv, ExecutionHoldsRow
  <2> QED BY <2>9, <2>10, <2>11, <2>12 DEF Inv
<1> QED BY <1>1, <1>3, <1>4

-----------------------------------------------------------------------------
(* Every step of the specification preserves the inductive invariant. *)
LEMMA NextInv == Inv /\ [Next]_vars => Inv'
<1> SUFFICES ASSUME Inv, [Next]_vars PROVE Inv'
  OBVIOUS
<1>1. CASE Next
  BY <1>1, EndSessionInv, RetryAnalysisInv, TimeInv, PollInv, BeginExecuteInv,
     CommitExecuteInv, FailExecuteInv, RecordFailureInv, CrashInv DEF Next
<1>2. CASE UNCHANGED vars
  BY <1>2 DEF vars, Inv, TypeOK, AppliedOnce, AttemptBudget, ExecutionHoldsRow,
     AttemptLeft
<1> QED BY <1>1, <1>2

(* The inductive invariant holds in every reachable state. *)
THEOREM Invariance == Spec => []Inv
BY InitInv, NextInv, PTL DEF Spec

(* The analysis of a session takes effect exactly once, when its job       *)
(* succeeds.                                                               *)
THEOREM ExactlyOnce == Spec => []AppliedOnce
<1>1. Inv => AppliedOnce
  BY DEF Inv
<1> QED BY <1>1, Invariance, PTL

(* Attempts stay within the budget, and no job fails before using it up    *)
(* except for a reason that no retry can mend.                             *)
THEOREM BoundedAttempts == Spec => []AttemptBudget
<1>1. Inv => AttemptBudget
  BY DEF Inv
<1> QED BY <1>1, Invariance, PTL

(* A success and a final failure are never undone. *)
THEOREM FinalOutcome == Spec => OutcomeIsFinal
<1>1. Inv /\ [Next]_vars =>
        [\A j \in Jobs :
           job[j].status = "succeeded"
           \/ (job[j].status = "failed" /\ job[j].code = "final")
             => job'[j] = job[j]]_vars
  <2> SUFFICES ASSUME Inv, Next, NEW j \in Jobs,
                      \/ job[j].status = "succeeded"
                      \/ job[j].status = "failed" /\ job[j].code = "final"
               PROVE  job'[j] = job[j]
    OBVIOUS
  <2> USE DEF Inv, TypeOK
  <2>1. ASSUME NEW k \in Jobs,
               EndSession(k) \/ RetryAnalysis(k) \/ BackoffEnds(k) \/ GrowsStale(k)
        PROVE  job'[j] = job[j]
    <3>1. CASE EndSession(k)
      <4>1. job[k].status = "absent"
        BY <3>1 DEF EndSession, Absent
      <4> QED BY <3>1, <4>1 DEF EndSession
    <3>2. CASE RetryAnalysis(k)
      BY <3>2 DEF RetryAnalysis
    <3>3. CASE BackoffEnds(k)
      BY <3>3 DEF BackoffEnds
    <3>4. CASE GrowsStale(k)
      BY <3>4 DEF GrowsStale
    <3> QED BY <2>1, <3>1, <3>2, <3>3, <3>4
  <2>2. ASSUME NEW w \in Workers, CommitExecute(w)
        PROVE  job'[j] = job[j]
    BY <2>2 DEF CommitExecute, ExecutionHoldsRow
  <2>3. ASSUME NEW w \in Workers, RecordFailure(w)
        PROVE  job'[j] = job[j]
    BY <2>3 DEF RecordFailure
  <2>4. ASSUME NEW w \in Workers, Poll(w)
        PROVE  job'[j] = job[j]
    <3>1. Recovered(j) = job[j]
      BY RecoveredRow
    <3>2. \A i \in DOMAIN created : created[i] \in Jobs
      OBVIOUS
    <3> QED BY <2>4, <3>1, <3>2 DEF Poll
  <2>5. ASSUME NEW w \in Workers,
               \/ BeginExecute(w) \/ Crash(w)
               \/ \E e \in {"transient", "final"} : FailExecute(w, e)
        PROVE  job'[j] = job[j]
    BY <2>5 DEF BeginExecute, Crash, FailExecute
  <2> QED BY <2>1, <2>2, <2>3, <2>4, <2>5 DEF Next
<1> QED BY <1>1, Invariance, PTL DEF Spec, OutcomeIsFinal
=============================================================================
