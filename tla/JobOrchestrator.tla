-------------------------- MODULE JobOrchestrator --------------------------
(***************************************************************************)
(* One job of the voice agent (livekit_agent/job_orchestrator.py): run,    *)
(* the tasks that tell the client of a runtime error and leave the room    *)
(* (error_delivery.py), and close, which any of the job's tasks may find   *)
(* itself in: the framework calls it as the shutdown callback, run in its  *)
(* finally, and leaving the room may bring an error task, or the sink's    *)
(* failure notification, back into it.                                     *)
(*                                                                         *)
(* asyncio runs one task at a time, from one await to the next: a step     *)
(* here is such a piece.  A cancelled task sees it at its next await.  The *)
(* sink is the module TranscriptSink; here it is open, closing (its queue  *)
(* being drained), drained, or closed.                                     *)
(***************************************************************************)
EXTENDS FiniteSets

CONSTANTS
  Errors,     \* the tasks that runtime errors may create
  Run,        \* the task of the job's entry point
  Shutdown,   \* the framework's task for the shutdown callback
  Notify      \* the sink's failure notification task

Tasks == Errors \cup {Run, Shutdown, Notify}

ASSUME TasksAssumption ==
  /\ Run \notin Errors /\ Shutdown \notin Errors /\ Notify \notin Errors
  /\ Run # Shutdown /\ Run # Notify /\ Shutdown # Notify

VARIABLES
  pc,         \* pc[t]: where a task is; in close() from "drain" to "reap2"
  waits,      \* waits[t]: the error tasks it waits for while draining
  cancelled,  \* the tasks that have been cancelled
  again,      \* the close run is in was reached from its own leaving
  jobClosing, closed,
  inClose,    \* _in_close_tasks
  deadline,   \* the shared drain deadline: "unset", "ahead", "past"
  sink

jobVars == <<pc, waits, cancelled, again, jobClosing, closed, inClose, deadline, sink>>

JobInit ==
  /\ pc = [t \in Tasks |-> IF t = Run THEN "setup" ELSE "idle"]
  /\ waits = [t \in Tasks |-> {}]
  /\ cancelled = {} /\ again = FALSE
  /\ jobClosing = FALSE /\ closed = FALSE
  /\ inClose = {} /\ deadline = "unset" /\ sink = "open"

InClosing == {"drain", "reap", "sink", "yield", "drain2", "reap2"}

Live(t) == pc[t] \notin {"idle", "done"}

Go(t, p) == pc' = [pc EXCEPT ![t] = p]

-----------------------------------------------------------------------------
(* run *)

\* setup_fn: an agent to start, or nothing, or an exception.
Setup ==
  /\ pc[Run] = "setup"
  /\ \E p \in {"start", "finally"} : Go(Run, p)
  /\ UNCHANGED <<waits, cancelled, again, jobClosing, closed, inClose, deadline, sink>>

\* agent_session.start: a failure is told to the client before the finally.
Start ==
  /\ pc[Run] = "start"
  /\ \E p \in {"done", "send"} : Go(Run, p)
  /\ UNCHANGED <<waits, cancelled, again, jobClosing, closed, inClose, deadline, sink>>

\* The framework cancels the entry point.
CancelRun ==
  /\ Live(Run)
  /\ cancelled' = cancelled \cup {Run}
  /\ UNCHANGED <<pc, waits, again, jobClosing, closed, inClose, deadline, sink>>

-----------------------------------------------------------------------------
(* on_agent_error and the notifications *)

SpawnLate(e) ==  \* mutant: an error is not refused once the job is closing
  /\ pc[e] = "idle"
  /\ pc[Run] \notin {"setup", "finally"}
  /\ Go(e, "send")
  /\ UNCHANGED <<waits, cancelled, again, jobClosing, closed, inClose, deadline, sink>>

\* An error of the custom mode that is not recoverable, once the agent session
\* is there to report it.
Spawn(e) ==
  /\ ~jobClosing /\ ~closed
  /\ pc[e] = "idle"
  /\ pc[Run] \notin {"setup", "finally"}
  /\ Go(e, "send")
  /\ UNCHANGED <<waits, cancelled, again, jobClosing, closed, inClose, deadline, sink>>

\* The sink gives up: its notification task runs _on_sink_failure.
SinkFails ==
  /\ pc[Notify] = "idle" /\ sink \in {"open", "closing"}
  /\ Go(Notify, "send")
  /\ UNCHANGED <<waits, cancelled, again, jobClosing, closed, inClose, deadline, sink>>

\* send_error_and_disconnect: publish, whose failure is ignored, then leave.
Publish(t) ==
  /\ pc[t] = "send" /\ t \notin cancelled
  /\ Go(t, "leave")
  /\ UNCHANGED <<waits, cancelled, again, jobClosing, closed, inClose, deadline, sink>>

AfterLeaving(t) == IF t = Run THEN "finally" ELSE "done"

Left(t) ==
  /\ pc[t] \in {"leave", "back"} /\ t \notin cancelled
  /\ Go(t, AfterLeaving(t))
  /\ UNCHANGED <<waits, cancelled, again, jobClosing, closed, inClose, deadline, sink>>

\* A cancellation ends a notification, and sends run to its finally.
TaskCancelled(t) ==
  /\ t \in cancelled /\ pc[t] \in {"setup", "start", "send", "leave", "back"}
  /\ Go(t, AfterLeaving(t))
  /\ UNCHANGED <<waits, cancelled, again, jobClosing, closed, inClose, deadline, sink>>

-----------------------------------------------------------------------------
(* close *)

AllOthers(t, inside) == {e \in Errors \ {t} : Live(e)}  \* mutant: re-entrant closers are waited for

\* What _drain_error_tasks waits for: not itself, and not those in close().
Targets(t, inside) == {e \in Errors \ (inside \cup {t}) : Live(e)}

\* Wait for the targets until the deadline, cancel them after it; with none
\* left go on to p.
Drain(t, targets, wait, reap, p) ==
  IF targets = {}
    THEN Go(t, p) /\ UNCHANGED <<waits, cancelled>>
    ELSE /\ waits' = [waits EXCEPT ![t] = targets]
         /\ IF deadline = "past"
              THEN Go(t, reap) /\ cancelled' = cancelled \cup targets
              ELSE Go(t, wait) /\ UNCHANGED cancelled

\* Leaving the room may call close(), as may the framework at any time; run
\* calls it in its finally.
CloseJob(t) ==
  /\ \/ (pc[t] = "leave" /\ t \notin cancelled)
     \/ (t = Run /\ pc[t] = "finally")
     \/ (t = Shutdown /\ pc[t] = "idle")
  /\ jobClosing' = TRUE
  /\ deadline' = IF deadline = "unset" THEN "ahead" ELSE deadline
  /\ inClose' = inClose \cup ({t} \cap Errors)
  /\ again' = IF t = Run THEN pc[t] = "leave" ELSE again
  /\ Drain(t, Targets(t, inClose'), "drain", "reap", "sink")
  /\ UNCHANGED <<closed, sink>>

DeadlinePasses ==
  /\ deadline = "ahead"
  /\ deadline' = "past"
  /\ UNCHANGED <<pc, waits, cancelled, again, jobClosing, closed, inClose, sink>>

Return(t) ==
  /\ Go(t, CASE t = Shutdown -> "done"
             [] t = Run -> IF again THEN "back" ELSE "done"
             [] OTHER -> IF t \in cancelled THEN "done" ELSE "back")
  /\ inClose' = inClose \ {t}
  /\ closed' = TRUE

\* The tasks waited for are over, before the deadline or cancelled after it.
TargetsOver(t) ==
  /\ pc[t] \in {"drain", "drain2", "reap", "reap2"}
  /\ \A e \in waits[t] : ~Live(e)
  /\ waits' = [waits EXCEPT ![t] = {}]
  /\ IF pc[t] \in {"drain", "reap"}
       THEN Go(t, "sink") /\ UNCHANGED <<closed, inClose>>
       ELSE Return(t)
  /\ UNCHANGED <<cancelled, again, jobClosing, deadline, sink>>

\* The deadline, or a cancellation of the closer itself.
CancelTargets(t) ==
  /\ pc[t] \in {"drain", "drain2"}
  /\ deadline = "past" \/ t \in cancelled
  /\ Go(t, IF pc[t] = "drain" THEN "reap" ELSE "reap2")
  /\ cancelled' = cancelled \cup {e \in waits[t] : Live(e)}
  /\ UNCHANGED <<waits, again, jobClosing, closed, inClose, deadline, sink>>

\* _close_sink starts the sink's one close.
CloseSink(t) ==
  /\ pc[t] = "sink" /\ sink = "open"
  /\ sink' = "closing"
  /\ UNCHANGED <<pc, waits, cancelled, again, jobClosing, closed, inClose, deadline>>

\* The notification task waits for the queue only: the sink's close waits for
\* it.  A closer that error tasks did not lead to looks at them once more.
SinkClosed(t) ==
  /\ pc[t] = "sink"
  /\ sink = "closed" \/ (t = Notify /\ sink = "drained")
  /\ \/ /\ t \in Errors \/ t \in cancelled \/ \A e \in Errors : ~Live(e)
        /\ Return(t)
     \/ /\ t \notin Errors /\ \E e \in Errors : Live(e)
        /\ Go(t, "yield")
        /\ UNCHANGED <<closed, inClose>>
  /\ UNCHANGED <<waits, cancelled, again, jobClosing, deadline, sink>>

DrainAgain(t) ==
  /\ pc[t] = "yield"
  /\ \/ /\ t \in cancelled \/ Targets(t, inClose) = {}
        /\ Return(t)
        /\ UNCHANGED <<waits, cancelled>>
     \/ /\ Targets(t, inClose) # {}
        /\ Drain(t, Targets(t, inClose), "drain2", "reap2", "yield")
        /\ UNCHANGED <<closed, inClose>>
  /\ UNCHANGED <<again, jobClosing, deadline, sink>>

-----------------------------------------------------------------------------
(* The sink's own close *)

SinkDrains ==
  /\ sink = "closing"
  /\ sink' = "drained"
  /\ UNCHANGED <<pc, waits, cancelled, again, jobClosing, closed, inClose, deadline>>

\* After its budget the sink cancels a notification that is still going.
SinkCloses ==
  /\ sink = "drained"
  /\ sink' = "closed"
  /\ cancelled' = IF Live(Notify) THEN cancelled \cup {Notify} ELSE cancelled
  /\ UNCHANGED <<pc, waits, again, jobClosing, closed, inClose, deadline>>

Closer(t) ==
  \/ TaskCancelled(t) \/ TargetsOver(t) \/ CancelTargets(t)
  \/ CloseSink(t) \/ SinkClosed(t) \/ DrainAgain(t)

JobNext ==
  \/ Setup \/ Start \/ CancelRun
  \/ \E e \in Errors : Spawn(e)
  \/ SinkFails
  \/ \E t \in Tasks : Publish(t) \/ Left(t) \/ CloseJob(t) \/ Closer(t)
  \/ DeadlinePasses \/ SinkDrains \/ SinkCloses

\* The event loop runs what can run and time passes; the network owes nothing,
\* so a notification may hang until it is cancelled.
Fairness ==
  /\ \A t \in Tasks : WF_jobVars(Closer(t))
  /\ WF_jobVars(DeadlinePasses) /\ WF_jobVars(SinkDrains) /\ WF_jobVars(SinkCloses)

JobSpec == JobInit /\ [][JobNext]_jobVars /\ Fairness

-----------------------------------------------------------------------------
JobTypeOK ==
  /\ pc \in [Tasks -> {"idle", "setup", "start", "send", "leave", "back", "finally", "done"}
                      \cup InClosing]
  /\ waits \in [Tasks -> SUBSET Errors] /\ cancelled \subseteq Tasks
  /\ again \in BOOLEAN /\ jobClosing \in BOOLEAN /\ closed \in BOOLEAN
  /\ inClose \subseteq Errors
  /\ deadline \in {"unset", "ahead", "past"}
  /\ sink \in {"open", "closing", "drained", "closed"}

(* When a call of close has returned, whichever task it was in and however  *)
(* it was cancelled, no error task is still telling the client or leaving   *)
(* the room: it has ended, or its leaving has got to close() itself         *)
(* (job_orchestrator.py:175-182, 204-270, 299-333).                         *)
NoLateNotice == closed => \A e \in Errors : pc[e] \notin {"send", "leave"}

(* The two together, as the run checks them. *)
JobInv == JobTypeOK /\ NoLateNotice

(* Every call of close ends, although error tasks that call it are among    *)
(* the tasks it waits for and the network never answers: no two calls wait  *)
(* for each other (job_orchestrator.py:309-321).                            *)
JobCloseEnds == (\E t \in Tasks : pc[t] \in InClosing) ~> (\A t \in Tasks : pc[t] \notin InClosing)
=============================================================================
