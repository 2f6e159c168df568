---------------------------- MODULE AnalysisJobs ----------------------------
(***************************************************************************)
(* The durable analysis job of each completed session, and the workers     *)
(* that run it from PostgreSQL.                                            *)
(*                                                                         *)
(* Source: backend/services/analysis_jobs.py, workers/analysis_worker.py,  *)
(* and the retry endpoint of routers/sessions.py.                          *)
(*                                                                         *)
(* A worker takes three transactions over a job: one that recovers stale   *)
(* jobs and claims the next, one that executes the claim with the row      *)
(* locked, and, when that rolled back, one that records the failure.  It   *)
(* may be slow or die between any two of them.  A claim carries no token,  *)
(* so that a slow worker may come back to a job that others have recovered,*)
(* claimed, retried or finished meanwhile.                                 *)
(*                                                                         *)
(* Of the timestamps the model keeps what the code asks of them: whether   *)
(* next_retry_at has come (due) and whether started_at is at least         *)
(* STALE_AFTER ago (stale).                                                *)
(***************************************************************************)
EXTENDS Naturals, Sequences

CONSTANTS
  Jobs,        \* sessions, each with at most one job
  Workers,     \* worker processes
  MaxAttempts, \* MAX_ATTEMPTS
  MaxManual    \* bound: manual retries of a job

ASSUME AttemptAssumption == MaxAttempts \in Nat \ {0} /\ MaxManual \in Nat
ASSUME NoneAssumption == "none" \notin Jobs

VARIABLES
  job,     \* the row of analysis_jobs
  worker,  \* what each worker is doing, and for which job
  created, \* jobs in the order of created_at
  applied, \* committed executions: assessment, grammar and knowledge writes
  manual   \* manual retries so far

vars == <<job, worker, created, applied, manual>>

Idle == [phase |-> "idle", job |-> "none", error |-> "none"]
Absent == [status |-> "absent", attempts |-> 0, due |-> FALSE, stale |-> FALSE,
           code |-> "none"]

Rows ==
  [status : {"absent", "pending", "running", "succeeded", "failed"},
   attempts : 0..(MaxAttempts + MaxManual), due : BOOLEAN, stale : BOOLEAN,
   code : {"none", "transient", "final", "worker_timeout"}]
Hands ==
  [phase : {"idle", "claimed", "executing", "failing"},
   job : Jobs \cup {"none"}, error : {"none", "transient", "final"}]

TypeOK ==
  /\ job \in [Jobs -> Rows]
  /\ worker \in [Workers -> Hands]
  /\ created \in Seq(Jobs)
  /\ applied \in [Jobs -> Nat]
  /\ manual \in [Jobs -> 0..MaxManual]

Init ==
  /\ job = [j \in Jobs |-> Absent]
  /\ worker = [w \in Workers |-> Idle]
  /\ created = <<>>
  /\ applied = [j \in Jobs |-> 0]
  /\ manual = [j \in Jobs |-> 0]

-----------------------------------------------------------------------------
(* The row is locked: the transaction that executes the job is open. *)
Locked(j) == \E w \in Workers : worker[w].phase = "executing" /\ worker[w].job = j

(* transition_job: a job becomes pending, to be retried now or later. *)
Requeued(row, due, code) ==
  [row EXCEPT !.status = "pending", !.due = due, !.stale = FALSE, !.code = code]

(* ... or fails for good. *)
Failed(row, code) ==
  [row EXCEPT !.status = "failed", !.due = FALSE, !.stale = FALSE, !.code = code]

Running(row) ==
  [row EXCEPT !.status = "running", !.attempts = @ + 1, !.due = FALSE,
              !.stale = FALSE]

(* Defect: a stale job is requeued however often it was tried. *)
RecoveredForEver(j) ==
  IF job[j].status = "running" /\ job[j].stale /\ ~Locked(j)
    THEN Requeued([job[j] EXCEPT !.attempts = 0], TRUE, "worker_timeout")
    ELSE job[j]

(* recover_stale_jobs, for the row of one job (SKIP LOCKED). *)
Recovered(j) ==
  IF job[j].status = "running" /\ job[j].stale /\ ~Locked(j)
    THEN IF job[j].attempts >= MaxAttempts
           THEN Failed(job[j], "worker_timeout")
           ELSE Requeued(job[j], TRUE, "worker_timeout")
    ELSE job[j]

(* The end of the session creates its job. *)
EndSession(j) ==
  /\ job[j] = Absent
  /\ job' = [job EXCEPT ![j] = [Absent EXCEPT !.status = "pending", !.due = TRUE]]
  /\ created' = Append(created, j)
  /\ UNCHANGED <<worker, applied, manual>>

(* One round of run_forever: recover the stale jobs, then claim the oldest *)
(* one that is due.                                                        *)
Poll(w) ==
  /\ worker[w] = Idle
  /\ LET rows == [j \in Jobs |-> Recovered(j)]
         Claimable(i) == rows[created[i]].status = "pending" /\ rows[created[i]].due
         first == {i \in DOMAIN created :
                     Claimable(i) /\ \A k \in 1..(i - 1) : ~Claimable(k)}
     IN  \/ first = {} /\ job' = rows /\ UNCHANGED worker
         \/ \E i \in first :
              /\ job' = [rows EXCEPT ![created[i]] = Running(@)]
              /\ worker' = [worker EXCEPT ![w] =
                              [Idle EXCEPT !.phase = "claimed", !.job = created[i]]]
  /\ UNCHANGED <<created, applied, manual>>

(* Defect: the claim is executed without another look at the row. *)
BeginExecuteUnchecked(w) ==
  /\ worker[w].phase = "claimed" /\ ~Locked(worker[w].job)
  /\ worker' = [worker EXCEPT ![w].phase = "executing"]
  /\ UNCHANGED <<job, created, applied, manual>>

(* execute_claimed_job locks the row; a job that is no longer running is   *)
(* refused with InvalidAnalysisTransition, which counts as retryable.      *)
BeginExecute(w) ==
  /\ worker[w].phase = "claimed" /\ ~Locked(worker[w].job)
  /\ worker' = [worker EXCEPT ![w] =
       IF job[worker[w].job].status = "running"
         THEN [@ EXCEPT !.phase = "executing"]
         ELSE [@ EXCEPT !.phase = "failing", !.error = "transient"]]
  /\ UNCHANGED <<job, created, applied, manual>>

(* The execution commits with all its writes. *)
CommitExecute(w) ==
  /\ worker[w].phase = "executing"
  /\ LET j == worker[w].job
     IN  /\ job' = [job EXCEPT ![j].status = "succeeded", ![j].due = FALSE,
                               ![j].stale = FALSE, ![j].code = "none"]
         /\ applied' = [applied EXCEPT ![j] = @ + 1]
  /\ worker' = [worker EXCEPT ![w] = Idle]
  /\ UNCHANGED <<created, manual>>

(* The execution raises and rolls back: analysis_unsupported,              *)
(* no_user_transcript and session_missing are final, all else is retryable.*)
FailExecute(w, error) ==
  /\ worker[w].phase = "executing"
  /\ worker' = [worker EXCEPT ![w].phase = "failing", ![w].error = error]
  /\ UNCHANGED <<job, created, applied, manual>>

(* Defect: a failed attempt is requeued one time too many. *)
RecordFailureOffByOne(w) ==
  /\ worker[w].phase = "failing" /\ ~Locked(worker[w].job)
  /\ LET j == worker[w].job
         row == job[j]
     IN  job' = IF row.status # "running" THEN job
                ELSE [job EXCEPT ![j] =
                        IF row.attempts > MaxAttempts \/ worker[w].error = "final"
                          THEN Failed(row, worker[w].error)
                          ELSE Requeued(row, FALSE, worker[w].error)]
  /\ worker' = [worker EXCEPT ![w] = Idle]
  /\ UNCHANGED <<created, applied, manual>>

(* record_job_failure: only a running job fails, whoever is running it. *)
RecordFailure(w) ==
  /\ worker[w].phase = "failing" /\ ~Locked(worker[w].job)
  /\ LET j == worker[w].job
         row == job[j]
     IN  job' = IF row.status # "running" THEN job
                ELSE [job EXCEPT ![j] =
                        IF row.attempts >= MaxAttempts \/ worker[w].error = "final"
                          THEN Failed(row, worker[w].error)
                          ELSE Requeued(row, FALSE, worker[w].error)]
  /\ worker' = [worker EXCEPT ![w] = Idle]
  /\ UNCHANGED <<created, applied, manual>>

(* A worker dies with a job in hand, an open transaction rolls back, and   *)
(* the process starts again.                                               *)
Crash(w) ==
  /\ worker[w] # Idle
  /\ worker' = [worker EXCEPT ![w] = Idle]
  /\ UNCHANGED <<job, created, applied, manual>>

(* Defect: any failed job may be retried. *)
RetryAnalysisAny(j) ==
  /\ ~Locked(j) /\ manual[j] < MaxManual
  /\ \/ job[j].status = "failed"
     \/ job[j].status = "running" /\ job[j].stale
  /\ job' = [job EXCEPT ![j] = Requeued(@, TRUE, "none")]
  /\ manual' = [manual EXCEPT ![j] = @ + 1]
  /\ UNCHANGED <<worker, created, applied>>

(* POST analysis-retry, with can_retry_job.  The attempts are not reset. *)
RetryAnalysis(j) ==
  /\ ~Locked(j) /\ manual[j] < MaxManual
  /\ \/ job[j].status = "failed" /\ job[j].code # "final"
     \/ job[j].status = "running" /\ job[j].stale
  /\ job' = [job EXCEPT ![j] = Requeued(@, TRUE, "none")]
  /\ manual' = [manual EXCEPT ![j] = @ + 1]
  /\ UNCHANGED <<worker, created, applied>>

(* next_retry_at comes, 5 or 30 seconds after a failure. *)
BackoffEnds(j) ==
  /\ job[j].status = "pending" /\ ~job[j].due
  /\ job' = [job EXCEPT ![j].due = TRUE]
  /\ UNCHANGED <<worker, created, applied, manual>>

(* STALE_AFTER has passed since the job was claimed, whether its worker is *)
(* dead, slow or still executing.                                          *)
GrowsStale(j) ==
  /\ job[j].status = "running" /\ ~job[j].stale
  /\ job' = [job EXCEPT ![j].stale = TRUE]
  /\ UNCHANGED <<worker, created, applied, manual>>

-----------------------------------------------------------------------------
Next ==
  \/ \E j \in Jobs :
       EndSession(j) \/ RetryAnalysis(j) \/ BackoffEnds(j) \/ GrowsStale(j)
  \/ \E w \in Workers :
       \/ Poll(w) \/ BeginExecute(w) \/ CommitExecute(w)
       \/ \E error \in {"transient", "final"} : FailExecute(w, error)
       \/ RecordFailure(w) \/ Crash(w)

(* Time passes, and a worker process, which is restarted when it dies,     *)
(* keeps taking its next step.  Nothing makes an execution succeed, and    *)
(* nothing prevents a crash.                                               *)
Fairness ==
  /\ \A w \in Workers :
       /\ WF_vars(Poll(w)) /\ WF_vars(BeginExecute(w)) /\ WF_vars(RecordFailure(w))
       /\ WF_vars(CommitExecute(w) \/ \E e \in {"transient", "final"} : FailExecute(w, e))
  /\ \A j \in Jobs : WF_vars(BackoffEnds(j)) /\ WF_vars(GrowsStale(j))

Spec == Init /\ [][Next]_vars /\ Fairness

-----------------------------------------------------------------------------
(* The analysis of a session takes effect exactly once, and exactly when   *)
(* its job succeeds: never twice, however many workers claimed it because  *)
(* of crashes, stale claims and retries, and never without being recorded. *)
AppliedOnce ==
  \A j \in Jobs : applied[j] = IF job[j].status = "succeeded" THEN 1 ELSE 0

(* Attempts are bounded and are used up: each job has MaxAttempts and one  *)
(* more for every manual retry, and it fails for good only with its        *)
(* attempts exhausted or with an error that no retry can mend.             *)
AttemptBudget ==
  \A j \in Jobs :
    /\ job[j].attempts <= MaxAttempts + manual[j]
    /\ job[j].status = "failed" =>
         job[j].attempts >= MaxAttempts \/ job[j].code = "final"

(* What the bounds rest on: at most one execution at a time holds a row,   *)
(* that row stays running meanwhile, although a claim is no token and its  *)
(* worker may be late, and a job that waits has an attempt left to use.    *)
ExecutionHoldsRow ==
  \A w \in Workers :
    /\ worker[w].phase # "idle" => worker[w].job \in Jobs
    /\ worker[w].phase = "executing" =>
         /\ job[worker[w].job].status = "running"
         /\ \A v \in Workers :
              worker[v].phase = "executing" /\ worker[v].job = worker[w].job => v = w
AttemptLeft ==
  \A j \in Jobs :
    job[j].status = "pending" => job[j].attempts < MaxAttempts + manual[j]

(* The inductive invariant. *)
Inv ==
  /\ TypeOK
  /\ AppliedOnce
  /\ AttemptBudget
  /\ ExecutionHoldsRow
  /\ AttemptLeft

(* Success, and failure for a reason that retrying cannot mend, are final: *)
(* no stale worker and no retry brings such a job back.                    *)
OutcomeIsFinal ==
  [][\A j \in Jobs :
       job[j].status = "succeeded"
       \/ (job[j].status = "failed" /\ job[j].code = "final")
         => job'[j] = job[j]]_vars

(* Every job reaches an outcome: a crash, an abandoned claim or a slow     *)
(* worker's late report can delay it, but never leave it waiting for ever. *)
JobSettles ==
  \A j \in Jobs :
    job[j].status \in {"pending", "running"} ~> job[j].status \in {"succeeded", "failed"}
=============================================================================
