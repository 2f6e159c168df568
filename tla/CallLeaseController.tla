------------------------ MODULE CallLeaseController ------------------------
(***************************************************************************)
(* The client's half of the call lease: the state machine that             *)
(* createCallLeaseController makes of claims, 20-second heartbeats, an     *)
(* expiry watchdog and releases.                                           *)
(*                                                                         *)
(* Source: apps/vite-app/src/lib/callLeaseController.ts.                   *)
(*                                                                         *)
(* JavaScript runs one callback to its end before the next, so a call of   *)
(* the controller, the firing of a timer and the settling of a request are *)
(* one action each.  What makes it hard is inside them: notify() calls the *)
(* observer back in the middle of an operation, and the observer may       *)
(* invalidate or dispose the controller, claim anew, release, or end the   *)
(* authentication that isCurrent() speaks for.  Operators below therefore  *)
(* take a controller to a controller, or, where code follows a notify(),   *)
(* to the set of controllers its observer can leave.                       *)
(***************************************************************************)
EXTENDS Naturals

CONSTANTS
  Ttl,            \* life of a lease granted or renewed by the server
  HeartbeatAfter, \* the 20 s between a renewal and the next heartbeat
  Early,          \* how long before its due time a timer may fire
  MaxNow,         \* bound: last instant of a behaviour
  MaxOp           \* bound: operations claimed or invalidated

ASSUME ControllerAssumption ==
  /\ Ttl \in Nat \ {0} /\ HeartbeatAfter \in Nat \ {0} /\ Early \in Nat
  /\ MaxNow \in Nat /\ MaxOp \in Nat

VARIABLES
  c,    \* the controller
  now   \* its clock, Date.now()

vars == <<c, now>>

None == 0
NoLease == [op |-> None, expires |-> 0]
NoTimer == [op |-> None, due |-> 0]
Kinds == {"claim", "heartbeat", "release"}
Statuses == {"idle", "claiming", "held", "releasing", "release_failed", "lost"}
Reasons == {"none", "claim_failed", "heartbeat_failed", "release_failed",
            "invalidated", "expired"}

TypeOK ==
  /\ c \in [status : Statuses, reason : Reasons,
            lease : [op : Nat, expires : Nat],      \* currentLease
            op : Nat,                               \* currentOpId
            disposed : BOOLEAN,
            current : BOOLEAN,                      \* isCurrent()
            beating : Nat,                          \* inFlightHeartbeatOpId
            heartbeat : [op : Nat, due : Nat],      \* heartbeatTimerHandle
            watchdog : [op : Nat, due : Nat],       \* watchdogTimerHandle
            \* unsettled requests, each of an operation begun:
            calls : SUBSET [kind : Kinds, op : 1..c.op]]
  /\ now \in Nat

Init ==
  /\ c = [status |-> "idle", reason |-> "none", lease |-> NoLease, op |-> 0,
          disposed |-> FALSE, current |-> TRUE, beating |-> None,
          heartbeat |-> NoTimer, watchdog |-> NoTimer, calls |-> {}]
  /\ now = 0

-----------------------------------------------------------------------------
(* Defect: the watchdog is left armed. *)
ClearTimersHalf(x) == [x EXCEPT !.heartbeat = NoTimer]

ClearTimers(x) == [x EXCEPT !.heartbeat = NoTimer, !.watchdog = NoTimer]

(* Give the lease up and stop the timers. *)
Drop(x, status, why) ==
  [ClearTimers(x) EXCEPT !.status = status, !.reason = why, !.lease = NoLease]

(* ... and disown what is in flight. *)
Disown(x, why) == [Drop(x, "lost", why) EXCEPT !.op = @ + 1, !.beating = None]

Invalidate(x) == IF x.disposed THEN x ELSE Disown(x, "invalidated")

(* Defect: the controller is marked disposed with its lease still held. *)
DisposeHeld(x) == IF x.disposed THEN x
                  ELSE [x EXCEPT !.disposed = TRUE, !.op = @ + 1]

Dispose(x) == IF x.disposed THEN x
              ELSE [Disown(x, "invalidated") EXCEPT !.disposed = TRUE]

Send(x, kind) == [x EXCEPT !.calls = @ \cup {[kind |-> kind, op |-> x.op]}]

(* claim() and release() up to their notify(). *)
StartClaim(x) ==
  [Drop(x, "claiming", "none") EXCEPT !.op = @ + 1]
StartRelease(x) ==
  [ClearTimers(x) EXCEPT !.status = "releasing", !.reason = "none"]

(* After it: send the request unless the observer ended operation op. *)
Finish(x, op, kind) ==
  IF x.disposed \/ x.op # op THEN x
  ELSE IF ~x.current THEN Drop(x, "lost", "none")
  ELSE Send(x, kind)

(* What the observer of a notify() may leave behind.  The notifications of *)
(* the calls it makes itself are not observed in turn.                     *)
Observed(x) ==
  LET anew == StartClaim(Invalidate(x))
  IN  {x, Invalidate(x), Dispose(x), [x EXCEPT !.current = FALSE]}
      \cup (IF x.disposed \/ ~x.current \/ anew.op > MaxOp THEN {}
            ELSE {Finish(anew, anew.op, "claim")})
      \cup (IF x.status # "held" \/ ~x.current THEN {}
            ELSE {Finish(StartRelease(x), x.op, "release")})

(* scheduleTimers(op). *)
Schedule(x, op) ==
  IF x.disposed \/ x.op # op \/ x.status # "held" THEN ClearTimers(x)
  ELSE IF x.lease.expires <= now THEN Drop(x, "lost", "expired")
  ELSE [x EXCEPT !.watchdog = [op |-> op, due |-> x.lease.expires],
                 !.heartbeat = [op |-> op, due |-> now + HeartbeatAfter]]

(* Take a valid lease from the server, tell the observer, set the timers. *)
Take(x) ==
  {Schedule(z, x.op) : z \in Observed(
     [x EXCEPT !.status = "held", !.reason = "none",
               !.lease = [op |-> x.op, expires |-> now + Ttl]])}

-----------------------------------------------------------------------------
Claim ==
  /\ ~c.disposed /\ c.status \in {"idle", "lost"} /\ c.op < MaxOp
  /\ \/ ~c.current /\ c' = Drop(c, "lost", "none")
     \/ c.current /\ c' = Drop(c, "idle", "claim_failed") \* invalid arguments
     \/ /\ c.current
        /\ \E z \in Observed(StartClaim(c)) : c' = Finish(z, c.op + 1, "claim")
  /\ UNCHANGED now

Release ==
  /\ ~c.disposed /\ c.status \in {"held", "release_failed"} /\ c.lease # NoLease
  /\ \/ ~c.current /\ c' = Drop(c, "lost", "none")
     \/ /\ c.current
        /\ \E z \in Observed(StartRelease(c)) : c' = Finish(z, c.op, "release")
  /\ UNCHANGED now

InvalidateCall ==
  /\ c.op < MaxOp
  /\ c' = Invalidate(c)
  /\ UNCHANGED now

DisposeCall ==
  /\ ~c.disposed
  /\ c' = Dispose(c)
  /\ UNCHANGED now

(* The heartbeat timer fires: renew, unless the lease is no longer ours or *)
(* has expired while the timer, or the whole device, slept.                *)
HeartbeatTimer ==
  /\ c.heartbeat # NoTimer /\ c.heartbeat.due <= now + Early
  /\ LET x == [c EXCEPT !.heartbeat = NoTimer]
         op == c.heartbeat.op
     IN  c' = IF x.disposed \/ x.op # op \/ x.status # "held" THEN x
              ELSE IF ~x.current THEN Drop(x, "lost", "none")
              ELSE IF now >= x.lease.expires THEN Disown(x, "expired")
              ELSE IF x.beating = op THEN x
              ELSE Send([x EXCEPT !.beating = op], "heartbeat")
  /\ UNCHANGED now

(* Defect: a watchdog that fires exactly on time finds nothing expired. *)
WatchdogTimerOffByOne ==
  /\ c.watchdog # NoTimer /\ c.watchdog.due <= now + Early
  /\ LET x == [c EXCEPT !.watchdog = NoTimer]
     IN  c' = IF x.disposed \/ x.op # c.watchdog.op \/ x.status # "held" THEN x
              ELSE IF now > x.lease.expires THEN Disown(x, "expired")
              ELSE x
  /\ UNCHANGED now

(* The watchdog fires: by then the lease should have expired. *)
WatchdogTimer ==
  /\ c.watchdog # NoTimer /\ c.watchdog.due <= now + Early
  /\ LET x == [c EXCEPT !.watchdog = NoTimer]
     IN  c' = IF x.disposed \/ x.op # c.watchdog.op \/ x.status # "held" THEN x
              ELSE IF now >= x.lease.expires THEN Disown(x, "expired")
              ELSE x
  /\ UNCHANGED now

(* A request settles: with a valid answer, with one that fails validation, *)
(* or with an error.  Bound: a lease ends within MaxNow.                   *)
Outcomes == {"invalid", "error"} \cup IF now + Ttl <= MaxNow THEN {"valid"} ELSE {}

ClaimSettles(k, outcome) ==
  /\ k \in c.calls /\ k.kind = "claim"
  /\ LET x == [c EXCEPT !.calls = @ \ {k}]
     IN  IF x.disposed \/ x.op # k.op THEN c' = x
         ELSE IF ~x.current THEN c' = Drop(x, "lost", "none")
         ELSE IF outcome = "valid" THEN c' \in Take(x)
         ELSE c' = Drop(x, "idle", "claim_failed")
  /\ UNCHANGED now

(* Defect: only the operation is compared, not the status, so that a       *)
(* heartbeat answered during a release takes the lease back.               *)
HeartbeatSettlesAnyStatus(k, outcome) ==
  /\ k \in c.calls /\ k.kind = "heartbeat"
  /\ LET x == [c EXCEPT !.calls = @ \ {k},
                        !.beating = IF @ = k.op THEN None ELSE @]
     IN  IF x.disposed \/ x.op # k.op THEN c' = x
         ELSE IF outcome = "valid" THEN c' \in Take(x)
         ELSE c' = Drop(x, "lost", "heartbeat_failed")
  /\ UNCHANGED now

HeartbeatSettles(k, outcome) ==
  /\ k \in c.calls /\ k.kind = "heartbeat"
  /\ LET x == [c EXCEPT !.calls = @ \ {k},
                        !.beating = IF @ = k.op THEN None ELSE @]
     IN  IF x.disposed \/ x.op # k.op \/ x.status # "held" THEN c' = x
         ELSE IF ~x.current /\ outcome # "error" THEN c' = Drop(x, "lost", "none")
         ELSE IF outcome = "valid" THEN c' \in Take(x)
         ELSE c' = Drop(x, "lost", "heartbeat_failed")
  /\ UNCHANGED now

ReleaseSettles(k, outcome) ==
  /\ k \in c.calls /\ k.kind = "release"
  /\ LET x == [c EXCEPT !.calls = @ \ {k}]
     IN  c' = IF x.disposed \/ x.op # k.op THEN x
              ELSE IF ~x.current THEN Drop(x, "lost", "none")
              ELSE IF outcome = "valid" THEN Drop(x, "idle", "none")
              ELSE [x EXCEPT !.status = "release_failed",
                             !.reason = "release_failed"]
  /\ UNCHANGED now

(* The caller's authentication, or its claim to the operation, changes. *)
CurrentChanges ==
  /\ c' = [c EXCEPT !.current = ~@]
  /\ UNCHANGED now

(* Time passes; timers and answers may be as late as they like. *)
Tick ==
  /\ now < MaxNow
  /\ now' = now + 1
  /\ UNCHANGED c

-----------------------------------------------------------------------------
Next ==
  \/ Claim \/ Release \/ InvalidateCall \/ DisposeCall
  \/ HeartbeatTimer \/ WatchdogTimer
  \/ \E k \in c.calls :
        \/ \E outcome \in Outcomes : ClaimSettles(k, outcome)
        \/ \E outcome \in Outcomes : HeartbeatSettles(k, outcome)
        \/ \E outcome \in {"valid", "error"} : ReleaseSettles(k, outcome)
  \/ CurrentChanges
  \/ Tick

(* Timers fire once they are due.  Nothing is asked of the network: a      *)
(* request may hang for ever.                                              *)
Spec == Init /\ [][Next]_vars /\ WF_vars(Tick) /\ WF_vars(WatchdogTimer)
             /\ WF_vars(HeartbeatTimer)

-----------------------------------------------------------------------------
(* A lease is the current operation's: the controller has one exactly      *)
(* while it is held, being released or waiting for a second release, and   *)
(* then it is the one the current claim obtained.  Late answers, repeated  *)
(* claims and re-entrant observers must not attach another's.              *)
LeaseIsCurrent ==
  IF c.status \in {"held", "releasing", "release_failed"}
    THEN c.lease.op = c.op ELSE c.lease = NoLease

(* No wait is for nothing: whoever waits for a claim or a release has such *)
(* a request of the current operation in flight to end the wait, also when *)
(* the observer of its own notification has ended the operation.           *)
NoOrphanWait ==
  /\ c.status = "claiming" => [kind |-> "claim", op |-> c.op] \in c.calls
  /\ c.status = "releasing" => [kind |-> "release", op |-> c.op] \in c.calls

Inv == TypeOK /\ LeaseIsCurrent /\ NoOrphanWait

(* A held lease is guarded: its watchdog is armed for its expiry and it is *)
(* about to send, or has sent, a heartbeat; without a held lease no timer  *)
(* is left to act on somebody else's.                                      *)
HeldIsGuarded ==
  IF c.status = "held"
    THEN /\ c.watchdog = [op |-> c.op, due |-> c.lease.expires]
         /\ \/ c.heartbeat.op = c.op
            \/ [kind |-> "heartbeat", op |-> c.op] \in c.calls
    ELSE c.heartbeat = NoTimer /\ c.watchdog = NoTimer

(* Disposal is final: whatever settles or fires later, the controller      *)
(* keeps its status, sends nothing more and owns nothing.                  *)
DisposedIsFinal ==
  [][c.disposed => /\ c'.disposed /\ c'.status = c.status
                   /\ c'.lease = NoLease /\ c'.calls \subseteq c.calls]_vars

(* A lease that runs out is not shown as held for ever, even if the        *)
(* network hangs: it is renewed or given up.  The contract asks it of the  *)
(* watchdog (docs/CROSS_PLATFORM_CALL_LEASE.md, section 10).               *)
HeldRunsOut ==
  (c.status = "held" /\ c.lease.expires <= now)
     ~> (c.status # "held" \/ c.lease.expires > now)
=============================================================================
