--------------------- MODULE CallLeaseControllerProofs ---------------------
(***************************************************************************)
(* The safety of the client's lease controller, proved for every timing    *)
(* and any number of operations: a lease is the current operation's, no    *)
(* wait is for nothing, disposal is final, and, with timers that do not    *)
(* fire early, a held lease is guarded.                                    *)
(*                                                                         *)
(* An operation is not one step to another: notify() lets its observer act *)
(* in the middle of it.  The invariant is therefore a statement about a    *)
(* controller, in two strengths: Sound holds also in the middle of an      *)
(* operation, Settled between the callbacks.                               *)
(***************************************************************************)
EXTENDS CallLeaseController, TLAPS

Controller ==
  [status : Statuses, reason : Reasons,
   lease : [op : Nat, expires : Nat],
   op : Nat,
   disposed : BOOLEAN,
   current : BOOLEAN,
   beating : Nat,
   heartbeat : [op : Nat, due : Nat],
   watchdog : [op : Nat, due : Nat],
   calls : SUBSET [kind : Kinds, op : Nat]]

\* The lease is the current operation's.
Owned(x) ==
  IF x.status \in {"held", "releasing", "release_failed"}
    THEN x.lease.op = x.op ELSE x.lease = NoLease

\* A request of the current operation in flight accounts for the status.
\* Without it an answer could come when the status has moved on.
Explained(x) ==
  /\ [kind |-> "claim", op |-> x.op] \in x.calls => x.status = "claiming"
  /\ [kind |-> "release", op |-> x.op] \in x.calls => x.status = "releasing"
  /\ x.beating # None => [kind |-> "heartbeat", op |-> x.beating] \in x.calls
  /\ \A k \in x.calls : k.op \in 1..x.op

Sound(x) ==
  /\ x \in Controller /\ Owned(x) /\ Explained(x)
  /\ x.status \notin {"idle", "lost"} => x.op # 0 /\ ~x.disposed
  /\ x.disposed => x.status = "lost"

Waits(x) ==
  /\ x.status = "claiming" => [kind |-> "claim", op |-> x.op] \in x.calls
  /\ x.status = "releasing" => [kind |-> "release", op |-> x.op] \in x.calls

Settled(x) == Sound(x) /\ Waits(x)

IInv == Settled(c) /\ now \in Nat

-----------------------------------------------------------------------------
(* The invariant holds at the start and implies the three invariants.      *)
LEMMA InitIInv == Init => IInv
  BY ControllerAssumption
  DEF Init, IInv, Settled, Sound, Waits, Controller, Owned, Explained, NoLease,
      NoTimer, None, Statuses, Reasons, Kinds

LEMMA IInvInv == IInv => Inv
<1> SUFFICES ASSUME IInv PROVE Inv
  OBVIOUS
<1>1. c.calls \in SUBSET [kind : Kinds, op : 1..c.op]
  <2> SUFFICES ASSUME NEW k \in c.calls PROVE k \in [kind : Kinds, op : 1..c.op]
    OBVIOUS
  <2>1. k \in [kind : Kinds, op : Nat] /\ k.op \in 1..c.op
    BY DEF IInv, Settled, Sound, Explained, Controller
  <2> QED BY <2>1
<1>2. TypeOK
  BY <1>1 DEF IInv, Settled, Sound, Controller, TypeOK
<1>3. LeaseIsCurrent /\ NoOrphanWait
  BY DEF IInv, Settled, Sound, Waits, Owned, LeaseIsCurrent, NoOrphanWait
<1> QED BY <1>2, <1>3 DEF Inv

-----------------------------------------------------------------------------
(* What the operations make of a controller. *)

(* Giving the lease up settles a sound controller. *)
LEMMA DropSettles ==
  ASSUME NEW x, Sound(x), NEW status \in {"idle", "lost"}, NEW why \in Reasons,
         x.disposed => status = "lost",
         [kind |-> "claim", op |-> x.op] \notin x.calls,
         [kind |-> "release", op |-> x.op] \notin x.calls
  PROVE  Settled(Drop(x, status, why))
  BY DEF Drop, ClearTimers, Settled, Sound, Waits, Controller, Owned, Explained,
         NoLease, NoTimer, None, Statuses, Reasons

(* The operation after the current one has nothing in flight. *)
LEMMA NextIsFresh ==
  ASSUME NEW x, Sound(x)
  PROVE  /\ \A kind : [kind |-> kind, op |-> x.op + 1] \notin x.calls
         /\ \A k \in x.calls : k.op \in 1..(x.op + 1)
<1>1. x.op \in Nat /\ \A k \in x.calls : k.op \in 1..x.op
  BY DEF Sound, Controller, Explained
<1>2. ASSUME NEW kind, [kind |-> kind, op |-> x.op + 1] \in x.calls PROVE FALSE
  <2>1. [kind |-> kind, op |-> x.op + 1].op \in 1..x.op
    BY <1>1, <1>2
  <2> QED BY <2>1, <1>1
<1> QED BY <1>1, <1>2

(* Disowning settles with requests in flight, for it begins an operation.  *)
LEMMA DisownSettles ==
  ASSUME NEW x, Sound(x), ~x.disposed, NEW why \in Reasons
  PROVE  /\ Settled(Disown(x, why))
         /\ Settled([Disown(x, why) EXCEPT !.disposed = TRUE])
<1> DEFINE y == [x EXCEPT !.heartbeat = NoTimer, !.watchdog = NoTimer,
                          !.status = "lost", !.reason = why, !.lease = NoLease,
                          !.op = x.op + 1, !.beating = None]
<1>1. x \in Controller
  BY DEF Sound
<1>2. y = Disown(x, why)
  BY <1>1 DEF Disown, Drop, ClearTimers, Controller
<1>3. y \in Controller
  <2>1. "lost" \in Statuses /\ NoTimer \in [op : Nat, due : Nat]
        /\ NoLease \in [op : Nat, expires : Nat] /\ None \in Nat
    BY DEF Statuses, NoTimer, NoLease, None
  <2>2. x.op \in Nat /\ x.op + 1 \in Nat
    BY <1>1 DEF Controller
  <2> QED BY <1>1, <2>1, <2>2 DEF Controller
<1>6. [y EXCEPT !.disposed = TRUE] \in Controller
  <2> HIDE DEF y
  <2> QED BY <1>3 DEF Controller
<1>4. Settled(y)
  BY <1>1, <1>3, NextIsFresh DEF Settled, Sound, Waits, Owned, Explained, Controller
<1>5. Settled([y EXCEPT !.disposed = TRUE])
  BY <1>1, <1>6, NextIsFresh DEF Settled, Sound, Waits, Owned, Explained, Controller
<1> QED BY <1>2, <1>4, <1>5

LEMMA CurrentSound ==
  ASSUME NEW x, NEW b \in BOOLEAN
  PROVE  /\ Sound(x) => Sound([x EXCEPT !.current = b])
         /\ Settled(x) => Settled([x EXCEPT !.current = b])
  BY DEF Settled, Sound, Waits, Controller, Owned, Explained

(* claim() and release() up to their notify(). *)
LEMMA StartClaimSound ==
  ASSUME NEW x, Sound(x), ~x.disposed
  PROVE  Sound(StartClaim(x)) /\ StartClaim(x).op = x.op + 1
         /\ StartClaim(x).status = "claiming" /\ ~StartClaim(x).disposed
<1> DEFINE y == [x EXCEPT !.heartbeat = NoTimer, !.watchdog = NoTimer,
                          !.status = "claiming", !.reason = "none",
                          !.lease = NoLease, !.op = x.op + 1]
<1>1. x \in Controller
  BY DEF Sound
<1>2. y = StartClaim(x)
  BY <1>1 DEF StartClaim, Drop, ClearTimers, Controller
<1>3. y \in Controller
  <2>1. "claiming" \in Statuses /\ "none" \in Reasons
        /\ NoTimer \in [op : Nat, due : Nat] /\ NoLease \in [op : Nat, expires : Nat]
    BY DEF Statuses, Reasons, NoTimer, NoLease, None
  <2>2. x.op \in Nat /\ x.op + 1 \in Nat
    BY <1>1 DEF Controller
  <2> QED BY <1>1, <2>1, <2>2 DEF Controller
<1>4. Sound(y)
  BY <1>1, <1>3, NextIsFresh DEF Sound, Owned, Explained, Controller
<1> QED BY <1>1, <1>2, <1>4 DEF Controller

LEMMA StartReleaseSound ==
  ASSUME NEW x, Sound(x), x.status \in {"held", "release_failed"}
  PROVE  Sound(StartRelease(x)) /\ StartRelease(x).op = x.op
         /\ StartRelease(x).status = "releasing" /\ ~StartRelease(x).disposed
  BY DEF StartRelease, ClearTimers, Sound, Controller, Owned, Explained,
         NoLease, NoTimer, None, Statuses, Reasons

\* Nothing is in flight that the current operation waits for.
Unasked(x) ==
  \A kind \in {"claim", "release"} : [kind |-> kind, op |-> x.op] \notin x.calls

LEMMA SendSettles ==
  ASSUME NEW x, Sound(x), NEW kind,
         \/ kind = "claim" /\ x.status = "claiming"
         \/ kind = "release" /\ x.status = "releasing"
  PROVE  Settled(Send(x, kind))
<1> DEFINE k == [kind |-> kind, op |-> x.op]
           y == [x EXCEPT !.calls = x.calls \cup {k}]
<1>1. x \in Controller /\ x.op \in Nat /\ x.op # 0
  BY DEF Sound, Controller
<1>2. k \in [kind : Kinds, op : Nat]
  BY <1>1 DEF Kinds
<1>3. y \in Controller
  BY <1>1, <1>2 DEF Controller
<1>4. y = Send(x, kind)
  BY <1>1 DEF Send, Controller
<1>5. Settled(y)
  BY <1>1, <1>2, <1>3 DEF Settled, Sound, Waits, Owned, Explained, Controller
<1> QED BY <1>4, <1>5

(* The end of claim() and release(). *)
LEMMA FinishSettles ==
  ASSUME NEW x, Sound(x), Unasked(x), NEW kind,
         \/ kind = "claim" /\ x.status = "claiming"
         \/ kind = "release" /\ x.status = "releasing"
  PROVE  Settled(Finish(x, x.op, kind))
<1>1. ~x.disposed
  BY DEF Sound
<1>2. Settled(Drop(x, "lost", "none"))
  BY <1>1, DropSettles DEF Unasked, Reasons
<1> QED BY <1>1, <1>2, SendSettles DEF Finish

(* An observer leaves the controller as it was, but for its authentication,*)
(* or settles it.                                                          *)
LEMMA ObserverSettles ==
  ASSUME NEW x, Sound(x), ~x.disposed, NEW z \in Observed(x)
  PROVE  \/ z \in {x, [x EXCEPT !.current = FALSE]}
         \/ Settled(z) /\ (x.status # "held" => z.op # x.op)
<1> DEFINE y == Invalidate(x)
           anew == StartClaim(y)
<1>1. Settled(y) /\ ~y.disposed /\ y.op = x.op + 1 /\ x.op \in Nat
  BY DisownSettles
  DEF Invalidate, Disown, Drop, ClearTimers, Sound, Controller, Reasons
<1>2. Settled(Dispose(x)) /\ Dispose(x).op = x.op + 1
  BY DisownSettles
  DEF Dispose, Disown, Drop, ClearTimers, Sound, Controller, Reasons
<1>3. Sound(anew) /\ anew.op = x.op + 2 /\ anew.status = "claiming"
  BY <1>1, StartClaimSound DEF Settled
<1>4. Unasked(anew)
  <2>1. anew.calls = y.calls
    BY <1>1 DEF StartClaim, Drop, ClearTimers, Settled, Sound, Controller
  <2> QED BY <1>1, <1>3, <2>1, NextIsFresh DEF Unasked, Settled
<1>5. Settled(Finish(anew, anew.op, "claim"))
  BY <1>3, <1>4, FinishSettles
<1>6. Finish(anew, anew.op, "claim").op = x.op + 2
  BY <1>3 DEF Finish, Drop, ClearTimers, Send, Sound, Controller
<1>7. CASE x.status # "held"
  BY <1>1, <1>2, <1>5, <1>6, <1>7 DEF Observed
<1>8. CASE x.status = "held"
  <2>1. Sound(StartRelease(x)) /\ StartRelease(x).status = "releasing"
        /\ StartRelease(x).op = x.op
    BY <1>8, StartReleaseSound
  <2>2. StartRelease(x).calls = x.calls
    BY DEF StartRelease, ClearTimers, Sound, Controller
  <2>3. Unasked(StartRelease(x))
    BY <1>8, <2>1, <2>2 DEF Unasked, Sound, Explained
  <2>4. Settled(Finish(StartRelease(x), x.op, "release"))
    BY <2>1, <2>3, FinishSettles
  <2> QED BY <1>1, <1>2, <1>5, <1>8, <2>4 DEF Observed
<1> QED BY <1>7, <1>8

(* So a claim or a release settles, whatever its observer did. *)
LEMMA OperationSettles ==
  ASSUME NEW x, Sound(x), Unasked(x), NEW z \in Observed(x), NEW kind,
         \/ kind = "claim" /\ x.status = "claiming"
         \/ kind = "release" /\ x.status = "releasing"
  PROVE  Settled(Finish(z, x.op, kind))
<1>1. ~x.disposed /\ x.status # "held" /\ x \in Controller
  BY DEF Sound
<1>2. CASE z = x
  BY <1>2, FinishSettles
<1>3. CASE z = [x EXCEPT !.current = FALSE]
  <2>1. Sound(z) /\ z.op = x.op /\ z.calls = x.calls /\ z.status = x.status
    BY <1>1, <1>3, CurrentSound DEF Controller
  <2> QED BY <2>1, FinishSettles DEF Unasked
<1>4. CASE Settled(z) /\ z.op # x.op
  BY <1>4 DEF Finish
<1> QED BY <1>1, <1>2, <1>3, <1>4, ObserverSettles

LEMMA ScheduleSettles ==
  ASSUME NEW x, Settled(x), NEW op, now \in Nat
  PROVE  Settled(Schedule(x, op))
<1>1. Settled(ClearTimers(x))
  BY DEF ClearTimers, NoTimer, None, Settled, Sound, Waits, Controller, Owned, Explained
<1>2. ASSUME x.status = "held" PROVE Settled(Drop(x, "lost", "expired"))
  BY <1>2, DropSettles DEF Settled, Sound, Explained, Reasons
<1>3. ASSUME x.status = "held", x.op = op
      PROVE  Settled([x EXCEPT !.watchdog = [op |-> op, due |-> x.lease.expires],
                               !.heartbeat = [op |-> op, due |-> now + HeartbeatAfter]])
  <2> DEFINE w == [op |-> op, due |-> x.lease.expires]
             h == [op |-> op, due |-> now + HeartbeatAfter]
  <2>1. x \in Controller /\ op \in Nat /\ x.lease.expires \in Nat
        /\ now + HeartbeatAfter \in Nat
    BY <1>3, ControllerAssumption DEF Settled, Sound, Controller
  <2>2. w \in [op : Nat, due : Nat] /\ h \in [op : Nat, due : Nat]
    BY <2>1
  <2> HIDE DEF w, h
  <2> QED BY <2>1, <2>2 DEF Settled, Sound, Waits, Controller, Owned, Explained
<1> QED BY <1>1, <1>2, <1>3 DEF Schedule

LEMMA TakeSettles ==
  ASSUME NEW x, Sound(x), Unasked(x), ~x.disposed, x.op # 0, now \in Nat,
         NEW z \in Take(x)
  PROVE  Settled(z)
<1> DEFINE y == [x EXCEPT !.status = "held", !.reason = "none",
                          !.lease = [op |-> x.op, expires |-> now + Ttl]]
<1>1. Settled(y) /\ ~y.disposed
  <2>1. x \in Controller /\ now + Ttl \in Nat
    BY ControllerAssumption DEF Sound
  <2>2. y \in Controller
    BY <2>1 DEF Controller, Statuses, Reasons
  <2> QED BY <2>1, <2>2
          DEF Settled, Sound, Waits, Controller, Owned, Explained, Unasked
<1>2. PICK w \in Observed(y) : z = Schedule(w, x.op)
  BY DEF Take
<1>3. Settled(w)
  <2> HIDE DEF y
  <2> QED BY <1>1, ObserverSettles, CurrentSound DEF Settled
<1> QED BY <1>2, <1>3, ScheduleSettles
-----------------------------------------------------------------------------
(* What an answer and a timer find. *)

LEMMA AnswerSound ==
  ASSUME NEW x, Settled(x), NEW k \in x.calls, k.kind \in {"claim", "release"}
  PROVE  /\ Sound([x EXCEPT !.calls = @ \ {k}])
         /\ k.op # x.op => Settled([x EXCEPT !.calls = @ \ {k}])
         /\ k.op = x.op =>
              /\ Unasked([x EXCEPT !.calls = @ \ {k}])
              /\ x.status = IF k.kind = "claim" THEN "claiming" ELSE "releasing"
<1> DEFINE y == [x EXCEPT !.calls = @ \ {k}]
<1>1. x \in Controller /\ k \in [kind : Kinds, op : Nat]
  BY DEF Settled, Sound, Controller
<1>2. k = [kind |-> k.kind, op |-> k.op]
  BY <1>1
<1>3. y \in Controller
  BY <1>1 DEF Controller
<1>4. Sound(y)
  <2>1. x.beating # None => [kind |-> "heartbeat", op |-> x.beating] # k
    OBVIOUS
  <2> QED BY <1>1, <1>3, <2>1 DEF Settled, Sound, Owned, Explained, Controller
<1>5. ASSUME k.op # x.op PROVE Settled(y)
  <2>1. \A kind : [kind |-> kind, op |-> x.op] # k
    BY <1>5
  <2> QED BY <1>1, <1>4, <2>1 DEF Settled, Waits, Controller
<1>6. ASSUME k.op = x.op
      PROVE  /\ Unasked(y)
             /\ x.status = IF k.kind = "claim" THEN "claiming" ELSE "releasing"
  <2>1. x.status = IF k.kind = "claim" THEN "claiming" ELSE "releasing"
    BY <1>2, <1>6 DEF Settled, Sound, Explained
  <2>2. \A kind \in {"claim", "release"} :
          [kind |-> kind, op |-> x.op] \in x.calls => kind = k.kind
    BY <2>1 DEF Settled, Sound, Explained
  <2> QED BY <1>1, <1>2, <1>6, <2>1, <2>2 DEF Unasked, Controller
<1> QED BY <1>4, <1>5, <1>6

LEMMA HeartbeatAnswerSettles ==
  ASSUME NEW x, Settled(x), NEW k \in x.calls, k.kind = "heartbeat"
  PROVE  Settled([x EXCEPT !.calls = @ \ {k},
                           !.beating = IF @ = k.op THEN None ELSE @])
<1> DEFINE b == IF x.beating = k.op THEN None ELSE x.beating
           y == [x EXCEPT !.calls = x.calls \ {k}, !.beating = b]
<1>1. x \in Controller /\ b \in Nat
  BY DEF Settled, Sound, Controller, None
<1>2. y \in Controller
  <2> HIDE DEF b
  <2> QED BY <1>1 DEF Controller
<1>3. b # None => [kind |-> "heartbeat", op |-> b] \in x.calls \ {k}
  BY DEF Settled, Sound, Explained
<1>4. \A op : [kind |-> "claim", op |-> op] # k /\ [kind |-> "release", op |-> op] # k
  OBVIOUS
<1>5. Settled(y)
  <2> HIDE DEF b
  <2> QED BY <1>1, <1>2, <1>3, <1>4
          DEF Settled, Sound, Waits, Owned, Explained, Controller
<1> QED BY <1>1, <1>5 DEF Controller

LEMMA TimerSettles ==
  ASSUME NEW x, Settled(x)
  PROVE  /\ Settled([x EXCEPT !.heartbeat = NoTimer])
         /\ Settled([x EXCEPT !.watchdog = NoTimer])
  BY DEF NoTimer, None, Settled, Sound, Waits, Controller, Owned, Explained

LEMMA BeatSettles ==
  ASSUME NEW x, Settled(x), x.status = "held"
  PROVE  Settled(Send([x EXCEPT !.beating = x.op], "heartbeat"))
<1> DEFINE k == [kind |-> "heartbeat", op |-> x.op]
           y == [x EXCEPT !.beating = x.op, !.calls = x.calls \cup {k}]
<1>1. x \in Controller /\ x.op \in Nat /\ x.op # 0
  BY DEF Settled, Sound, Controller
<1>2. k \in [kind : Kinds, op : Nat]
  BY <1>1 DEF Kinds
<1>3. y \in Controller
  BY <1>1, <1>2 DEF Controller
<1>4. y = Send([x EXCEPT !.beating = x.op], "heartbeat")
  BY <1>1 DEF Send, Controller
<1>5. Settled(y)
  BY <1>1, <1>2, <1>3 DEF Settled, Sound, Waits, Owned, Explained, Controller
<1> QED BY <1>4, <1>5

-----------------------------------------------------------------------------
(* Every step settles the controller. *)
LEMMA NextIInv == IInv /\ [Next]_vars => IInv'
<1> SUFFICES ASSUME IInv, [Next]_vars PROVE IInv'
  OBVIOUS
<1>1. Settled(c) /\ Sound(c) /\ now \in Nat /\ c \in Controller /\ c.op \in Nat
  BY DEF IInv, Settled, Sound, Controller
<1>2. c.status \notin {"claiming", "releasing"} => Unasked(c)
  BY <1>1 DEF Unasked, Sound, Explained
<1>3. ASSUME c.status \notin {"claiming", "releasing"}, ~c.disposed,
             NEW status \in {"idle", "lost"}, NEW why \in Reasons
      PROVE  Settled(Drop(c, status, why))
  BY <1>1, <1>2, <1>3, DropSettles DEF Unasked
<1>4. CASE Claim
  <2>1. c.status \in {"idle", "lost"} /\ ~c.disposed /\ now' = now
    BY <1>4 DEF Claim
  <2>2. CASE c' \in {Drop(c, "lost", "none"), Drop(c, "idle", "claim_failed")}
    BY <1>1, <1>3, <2>1, <2>2 DEF IInv, Reasons
  <2>3. ASSUME NEW z \in Observed(StartClaim(c)), c' = Finish(z, c.op + 1, "claim")
        PROVE  IInv'
    <3>1. Sound(StartClaim(c)) /\ StartClaim(c).op = c.op + 1
          /\ StartClaim(c).status = "claiming"
      BY <1>1, <2>1, StartClaimSound
    <3>2. StartClaim(c).calls = c.calls
      BY <1>1 DEF StartClaim, Drop, ClearTimers, Controller
    <3>3. Unasked(StartClaim(c))
      BY <1>1, <3>1, <3>2, NextIsFresh DEF Unasked
    <3> QED BY <1>1, <2>1, <2>3, <3>1, <3>3, OperationSettles DEF IInv
  <2> QED BY <1>4, <2>2, <2>3 DEF Claim
<1>5. CASE Release
  <2>1. c.status \in {"held", "release_failed"} /\ ~c.disposed /\ now' = now
    BY <1>5 DEF Release
  <2>2. CASE c' = Drop(c, "lost", "none")
    BY <1>1, <1>3, <2>1, <2>2 DEF IInv, Reasons
  <2>3. ASSUME NEW z \in Observed(StartRelease(c)), c' = Finish(z, c.op, "release")
        PROVE  IInv'
    <3>1. Sound(StartRelease(c)) /\ StartRelease(c).op = c.op
          /\ StartRelease(c).status = "releasing"
      BY <1>1, <2>1, StartReleaseSound
    <3>2. StartRelease(c).calls = c.calls
      BY <1>1 DEF StartRelease, ClearTimers, Controller
    <3>3. Unasked(StartRelease(c))
      BY <1>2, <2>1, <3>1, <3>2 DEF Unasked
    <3> QED BY <1>1, <2>1, <2>3, <3>1, <3>3, OperationSettles DEF IInv
  <2> QED BY <1>5, <2>2, <2>3 DEF Release
<1>6. CASE InvalidateCall
  BY <1>1, <1>6, DisownSettles DEF InvalidateCall, Invalidate, IInv, Reasons
<1>7. CASE DisposeCall
  BY <1>1, <1>7, DisownSettles DEF DisposeCall, Dispose, IInv, Reasons
<1>8. CASE HeartbeatTimer
  <2> DEFINE x == [c EXCEPT !.heartbeat = NoTimer]
  <2>1. Settled(x) /\ Sound(x) /\ now' = now
    BY <1>1, <1>8, TimerSettles DEF HeartbeatTimer, Settled
  <2>2. \/ c' = x
        \/ ~x.disposed /\ x.status = "held" /\ c' = Drop(x, "lost", "none")
        \/ ~x.disposed /\ c' = Disown(x, "expired")
        \/ x.status = "held" /\ c' = Send([x EXCEPT !.beating = x.op], "heartbeat")
    BY <1>8 DEF HeartbeatTimer
  <2>3. ASSUME ~x.disposed, x.status = "held" PROVE Settled(Drop(x, "lost", "none"))
    BY <2>1, <2>3, DropSettles DEF Sound, Explained, Reasons
  <2> HIDE DEF x
  <2>4. ~x.disposed => Settled(Disown(x, "expired"))
    BY <2>1, DisownSettles DEF Reasons
  <2>5. x.status = "held" => Settled(Send([x EXCEPT !.beating = x.op], "heartbeat"))
    BY <2>1, BeatSettles
  <2> QED BY <1>1, <2>1, <2>2, <2>3, <2>4, <2>5 DEF IInv
<1>9. CASE WatchdogTimer
  <2> DEFINE x == [c EXCEPT !.watchdog = NoTimer]
  <2>1. Settled(x) /\ Sound(x) /\ now' = now
    BY <1>1, <1>9, TimerSettles DEF WatchdogTimer, Settled
  <2>2. c' = x \/ (~x.disposed /\ c' = Disown(x, "expired"))
    BY <1>9 DEF WatchdogTimer
  <2> HIDE DEF x
  <2> QED BY <1>1, <2>1, <2>2, DisownSettles DEF IInv, Reasons
<1>10. ASSUME NEW k \in c.calls, NEW outcome \in Outcomes, ClaimSettles(k, outcome)
       PROVE  IInv'
  <2> DEFINE x == [c EXCEPT !.calls = @ \ {k}]
  <2>1. k.kind = "claim" /\ now' = now /\ x.op = c.op
    BY <1>1, <1>10 DEF ClaimSettles, Controller
  <2>2. Sound(x) /\ (k.op # c.op => Settled(x)) /\ (k.op = c.op => Unasked(x))
        /\ (k.op = c.op => x.status = "claiming")
    BY <1>1, <2>1, AnswerSound DEF Controller
  <2>3. \/ c' = x /\ (x.disposed \/ x.op # k.op)
        \/ ~x.disposed /\ x.op = k.op
            /\ (c' \in {Drop(x, "lost", "none"), Drop(x, "idle", "claim_failed")}
                \/ c' \in Take(x))
    BY <1>10 DEF ClaimSettles
  <2> HIDE DEF x
  <2>4. CASE c' = x /\ (x.disposed \/ x.op # k.op)
    BY <1>1, <2>1, <2>2, <2>4 DEF IInv, Sound
  <2>5. CASE ~x.disposed /\ x.op = k.op /\ c' \in Take(x)
    BY <1>1, <2>1, <2>2, <2>5, TakeSettles DEF IInv, Sound
  <2>6. CASE /\ ~x.disposed /\ x.op = k.op
             /\ c' \in {Drop(x, "lost", "none"), Drop(x, "idle", "claim_failed")}
    BY <1>1, <2>1, <2>2, <2>6, DropSettles DEF IInv, Unasked, Reasons
  <2> QED BY <2>3, <2>4, <2>5, <2>6
<1>11. ASSUME NEW k \in c.calls, NEW outcome \in Outcomes, HeartbeatSettles(k, outcome)
       PROVE  IInv'
  <2> DEFINE x == [c EXCEPT !.calls = @ \ {k}, !.beating = IF @ = k.op THEN None ELSE @]
  <2>1. k.kind = "heartbeat" /\ now' = now
    BY <1>11 DEF HeartbeatSettles
  <2>2. Settled(x) /\ Sound(x)
    BY <1>1, <2>1, HeartbeatAnswerSettles DEF Settled
  <2>3. \/ c' = x
        \/ ~x.disposed /\ x.status = "held"
            /\ (c' \in {Drop(x, "lost", "none"), Drop(x, "lost", "heartbeat_failed")}
                \/ c' \in Take(x))
    BY <1>11 DEF HeartbeatSettles
  <2> HIDE DEF x
  <2>4. x.status = "held" => Unasked(x) /\ x.op # 0
    BY <2>2 DEF Unasked, Sound, Explained
  <2>5. CASE ~x.disposed /\ x.status = "held" /\ c' \in Take(x)
    BY <1>1, <2>1, <2>2, <2>4, <2>5, TakeSettles DEF IInv
  <2>6. CASE /\ ~x.disposed /\ x.status = "held"
             /\ c' \in {Drop(x, "lost", "none"), Drop(x, "lost", "heartbeat_failed")}
    BY <1>1, <2>1, <2>2, <2>4, <2>6, DropSettles DEF IInv, Unasked, Reasons
  <2> QED BY <1>1, <2>1, <2>2, <2>3, <2>5, <2>6 DEF IInv
<1>12. ASSUME NEW k \in c.calls, NEW outcome \in {"valid", "error"},
              ReleaseSettles(k, outcome)
       PROVE  IInv'
  <2> DEFINE x == [c EXCEPT !.calls = @ \ {k}]
             y == [x EXCEPT !.status = "release_failed", !.reason = "release_failed"]
  <2>1. k.kind = "release" /\ now' = now /\ x.op = c.op
    BY <1>1, <1>12 DEF ReleaseSettles, Controller
  <2>2. Sound(x) /\ (k.op # c.op => Settled(x)) /\ (k.op = c.op => Unasked(x))
        /\ (k.op = c.op => x.status = "releasing")
    BY <1>1, <2>1, AnswerSound DEF Controller
  <2>3. \/ c' = x /\ (x.disposed \/ x.op # k.op)
        \/ ~x.disposed /\ x.op = k.op
            /\ c' \in {Drop(x, "lost", "none"), Drop(x, "idle", "none"), y}
    BY <1>12 DEF ReleaseSettles
  <2> HIDE DEF x
  <2>4. CASE c' = x /\ (x.disposed \/ x.op # k.op)
    BY <1>1, <2>1, <2>2, <2>4 DEF IInv, Sound
  <2>5. ASSUME ~x.disposed, x.op = k.op PROVE Settled(y)
    <3>1. x \in Controller /\ Unasked(x) /\ x.status = "releasing"
      BY <2>1, <2>2, <2>5 DEF Sound
    <3>2. y \in Controller
      BY <3>1 DEF Controller, Statuses, Reasons
    <3> QED BY <2>2, <3>1, <3>2
            DEF Settled, Sound, Waits, Owned, Explained, Unasked, Controller
  <2>6. CASE /\ ~x.disposed /\ x.op = k.op
             /\ c' \in {Drop(x, "lost", "none"), Drop(x, "idle", "none")}
    BY <1>1, <2>1, <2>2, <2>6, DropSettles DEF IInv, Unasked, Reasons
  <2> QED BY <1>1, <2>1, <2>3, <2>4, <2>5, <2>6 DEF IInv
<1>13. CASE CurrentChanges
  BY <1>1, <1>13, CurrentSound DEF CurrentChanges, IInv, Controller
<1>14. CASE Tick
  BY <1>1, <1>14 DEF Tick, IInv
<1>15. CASE UNCHANGED vars
  BY <1>1, <1>15 DEF vars, IInv
<1> QED BY <1>4, <1>5, <1>6, <1>7, <1>8, <1>9, <1>10, <1>11, <1>12, <1>13, <1>14,
           <1>15 DEF Next

(* A lease is the current operation's, and no wait is for nothing. *)
THEOREM LeaseSafe == Spec => []Inv
<1>1. Spec => []IInv
  BY InitIInv, NextIInv, PTL DEF Spec
<1> QED BY <1>1, IInvInv, PTL

(* Disposal is final, whatever settles or fires later. *)
THEOREM DisposedFinal == Spec => DisposedIsFinal
<1>1. ASSUME IInv, [Next]_vars
      PROVE  [c.disposed => /\ c'.disposed /\ c'.status = c.status
                            /\ c'.lease = NoLease /\ c'.calls \subseteq c.calls]_vars
  <2> SUFFICES ASSUME Next, c.disposed
               PROVE  /\ c'.disposed /\ c'.status = c.status
                      /\ c'.lease = NoLease /\ c'.calls \subseteq c.calls
    BY <1>1
  <2>1. c \in Controller /\ c.status = "lost" /\ c.lease = NoLease
    BY <1>1 DEF IInv, Settled, Sound, Owned
  <2>2. CASE HeartbeatTimer \/ WatchdogTimer
    BY <2>1, <2>2 DEF HeartbeatTimer, WatchdogTimer, Controller
  <2>3. ASSUME NEW k \in c.calls, NEW outcome,
               \/ ClaimSettles(k, outcome) \/ HeartbeatSettles(k, outcome)
               \/ ReleaseSettles(k, outcome)
        PROVE  /\ c'.disposed /\ c'.status = c.status
               /\ c'.lease = NoLease /\ c'.calls \subseteq c.calls
    <3>1. CASE ClaimSettles(k, outcome)
      BY <2>1, <3>1 DEF ClaimSettles, Controller
    <3>2. CASE HeartbeatSettles(k, outcome)
      <4> DEFINE b == IF c.beating = k.op THEN None ELSE c.beating
      <4>1. c' = [c EXCEPT !.calls = c.calls \ {k}, !.beating = b]
        BY <2>1, <3>2 DEF HeartbeatSettles, Controller
      <4> HIDE DEF b
      <4> QED BY <2>1, <4>1 DEF Controller
    <3>3. CASE ReleaseSettles(k, outcome)
      BY <2>1, <3>3 DEF ReleaseSettles, Controller
    <3> QED BY <2>3, <3>1, <3>2, <3>3
  <2>4. CASE InvalidateCall \/ CurrentChanges \/ Tick
    BY <2>1, <2>4 DEF InvalidateCall, Invalidate, CurrentChanges, Tick, Controller
  <2>5. ~Claim /\ ~Release /\ ~DisposeCall
    BY DEF Claim, Release, DisposeCall
  <2> QED BY <2>2, <2>3, <2>4, <2>5 DEF Next
<1>2. Spec => []IInv
  BY InitIInv, NextIInv, PTL DEF Spec
<1> QED BY <1>1, <1>2, PTL DEF Spec, DisposedIsFinal

-----------------------------------------------------------------------------
(* With timers that do not fire early a held lease is guarded: a watchdog  *)
(* that fires finds the lease expired.                                     *)

Guarded(x) ==
  IF x.status = "held"
    THEN /\ x.watchdog = [op |-> x.op, due |-> x.lease.expires]
         /\ \/ x.heartbeat.op = x.op
            \/ [kind |-> "heartbeat", op |-> x.op] \in x.calls
    ELSE x.heartbeat = NoTimer /\ x.watchdog = NoTimer

LEMMA EndedGuarded ==
  ASSUME NEW x, x \in Controller, NEW status \in {"idle", "lost"}, NEW why
  PROVE  Guarded(Drop(x, status, why)) /\ Guarded(Disown(x, why))
  BY DEF Guarded, Drop, Disown, ClearTimers, Controller

LEMMA StartGuarded ==
  ASSUME NEW x, x \in Controller
  PROVE  Guarded(StartClaim(x)) /\ Guarded(StartRelease(x))
  BY DEF Guarded, StartClaim, StartRelease, Drop, ClearTimers, Controller

LEMMA FinishGuarded ==
  ASSUME NEW x, x \in Controller, Guarded(x), NEW op, NEW kind
  PROVE  Guarded(Finish(x, op, kind))
<1>1. Guarded(Send(x, kind))
  BY DEF Guarded, Send, Controller
<1> QED BY <1>1, EndedGuarded DEF Finish

(* An observer leaves a controller without a held lease and without a      *)
(* timer, or as held as it was.                                            *)
LEMMA ObserverGuarded ==
  ASSUME NEW x, Sound(x), ~x.disposed, x.status = "held" \/ Guarded(x),
         NEW z \in Observed(x)
  PROVE  \/ Guarded(z) /\ z.status # "held"
         \/ z.status = "held" /\ x.status = "held" /\ z.op = x.op /\ ~z.disposed
<1> DEFINE anew == StartClaim(Invalidate(x))
<1>1. x \in Controller
  BY DEF Sound
<1>2. Sound(Invalidate(x)) /\ ~Invalidate(x).disposed
  <2>1. Sound(Disown(x, "invalidated"))
    BY DisownSettles DEF Settled, Reasons
  <2> QED BY <1>1, <2>1 DEF Invalidate, Disown, Drop, ClearTimers, Controller
<1>3. /\ Guarded(Invalidate(x)) /\ Invalidate(x).status = "lost"
      /\ Guarded(Dispose(x)) /\ Dispose(x).status = "lost"
  BY <1>1 DEF Invalidate, Dispose, Guarded, Disown, Drop, ClearTimers, Controller
<1>4. anew \in Controller /\ Guarded(anew) /\ anew.status = "claiming"
  <2>1. Invalidate(x) \in Controller
    BY <1>2 DEF Sound
  <2> QED BY <1>2, <2>1, StartClaimSound, StartGuarded DEF Sound
<1>5. Guarded(Finish(anew, anew.op, "claim"))
      /\ Finish(anew, anew.op, "claim").status # "held"
  <2> HIDE DEF anew
  <2> QED BY <1>4, FinishGuarded DEF Finish, Drop, ClearTimers, Send, Controller
<1>6. x.status = "held" =>
        /\ Guarded(Finish(StartRelease(x), x.op, "release"))
        /\ Finish(StartRelease(x), x.op, "release").status # "held"
  <2> SUFFICES ASSUME x.status = "held"
               PROVE  /\ Guarded(Finish(StartRelease(x), x.op, "release"))
                      /\ Finish(StartRelease(x), x.op, "release").status # "held"
    OBVIOUS
  <2>1. StartRelease(x) \in Controller /\ Guarded(StartRelease(x))
        /\ StartRelease(x).status = "releasing"
    BY <1>1, StartReleaseSound, StartGuarded DEF Sound
  <2>2. ASSUME NEW y, y \in Controller, Guarded(y), y.status = "releasing"
        PROVE  /\ Guarded(Finish(y, x.op, "release"))
               /\ Finish(y, x.op, "release").status # "held"
    BY <2>2, FinishGuarded DEF Finish, Drop, ClearTimers, Send, Controller
  <2> QED BY <2>1, <2>2
<1>7. Guarded(x) => Guarded([x EXCEPT !.current = FALSE])
  BY <1>1 DEF Guarded, Controller
<1>8. [x EXCEPT !.current = FALSE].status = x.status
      /\ [x EXCEPT !.current = FALSE].op = x.op
      /\ [x EXCEPT !.current = FALSE].disposed = x.disposed
  BY <1>1 DEF Controller
<1>9. CASE z \in {x, [x EXCEPT !.current = FALSE]}
  BY <1>7, <1>8, <1>9
<1>10. CASE z \notin {x, [x EXCEPT !.current = FALSE]}
  BY <1>3, <1>5, <1>6, <1>10 DEF Observed
<1> QED BY <1>9, <1>10

LEMMA TakeGuarded ==
  ASSUME NEW x, Sound(x), Unasked(x), ~x.disposed, x.op # 0, now \in Nat,
         NEW z \in Take(x)
  PROVE  Guarded(z)
<1> DEFINE y == [x EXCEPT !.status = "held", !.reason = "none",
                          !.lease = [op |-> x.op, expires |-> now + Ttl]]
<1>1. Settled(y) /\ Sound(y) /\ ~y.disposed /\ y.status = "held" /\ y.op = x.op
  <2>1. x \in Controller /\ now + Ttl \in Nat
    BY ControllerAssumption DEF Sound
  <2>2. y \in Controller
    BY <2>1 DEF Controller, Statuses, Reasons
  <2> QED BY <2>1, <2>2
          DEF Settled, Sound, Waits, Controller, Owned, Explained, Unasked
<1>2. PICK w \in Observed(y) : z = Schedule(w, x.op)
  BY DEF Take
<1> HIDE DEF y
<1>3. w \in Controller
  BY <1>1, ObserverSettles, CurrentSound DEF Settled, Sound
<1>4. \/ Guarded(w) /\ w.status # "held"
      \/ w.status = "held" /\ w.op = x.op /\ ~w.disposed
  BY <1>1, ObserverGuarded
<1>5. CASE w.status = "held" /\ w.op = x.op /\ ~w.disposed
  <2>1. Guarded(Drop(w, "lost", "expired"))
    BY <1>3, EndedGuarded
  <2>2. Guarded([w EXCEPT !.watchdog = [op |-> x.op, due |-> w.lease.expires],
                          !.heartbeat = [op |-> x.op, due |-> now + HeartbeatAfter]])
    BY <1>3, <1>5 DEF Guarded, Controller
  <2> QED BY <1>2, <1>5, <2>1, <2>2 DEF Schedule
<1>6. CASE Guarded(w) /\ w.status # "held"
  BY <1>2, <1>3, <1>6 DEF Schedule, Guarded, ClearTimers, Controller
<1> QED BY <1>4, <1>5, <1>6

LEMMA NextGuarded ==
  ASSUME Early = 0, IInv, Guarded(c), [Next]_vars
  PROVE  Guarded(c)'
<1>1. Settled(c) /\ Sound(c) /\ now \in Nat /\ c \in Controller /\ c.op \in Nat
  BY DEF IInv, Settled, Sound, Controller
<1>2. ASSUME NEW z, Guarded(z), c' = z PROVE Guarded(c)'
  BY <1>2 DEF Guarded
<1>3. CASE Claim
  <2>1. c.status \in {"idle", "lost"} /\ ~c.disposed
    BY <1>3 DEF Claim
  <2>2. CASE c' \in {Drop(c, "lost", "none"), Drop(c, "idle", "claim_failed")}
    BY <1>1, <1>2, <2>2, EndedGuarded
  <2>3. ASSUME NEW z \in Observed(StartClaim(c)), c' = Finish(z, c.op + 1, "claim")
        PROVE  Guarded(c)'
    <3>1. Sound(StartClaim(c)) /\ Guarded(StartClaim(c)) /\ ~StartClaim(c).disposed
          /\ StartClaim(c).status = "claiming"
      BY <1>1, <2>1, StartClaimSound, StartGuarded
    <3>2. Guarded(z) /\ z \in Controller
      BY <3>1, ObserverGuarded, ObserverSettles, CurrentSound DEF Settled, Sound
    <3> QED BY <1>2, <2>3, <3>2, FinishGuarded
  <2> QED BY <1>3, <2>2, <2>3 DEF Claim
<1>4. CASE Release
  <2>1. c.status \in {"held", "release_failed"} /\ ~c.disposed
    BY <1>4 DEF Release
  <2>2. CASE c' = Drop(c, "lost", "none")
    BY <1>1, <1>2, <2>2, EndedGuarded
  <2>3. ASSUME NEW z \in Observed(StartRelease(c)), c' = Finish(z, c.op, "release")
        PROVE  Guarded(c)'
    <3>1. Sound(StartRelease(c)) /\ Guarded(StartRelease(c)) /\ ~StartRelease(c).disposed
          /\ StartRelease(c).status = "releasing"
      BY <1>1, <2>1, StartReleaseSound, StartGuarded
    <3>2. Guarded(z) /\ z \in Controller
      BY <3>1, ObserverGuarded, ObserverSettles, CurrentSound DEF Settled, Sound
    <3> QED BY <1>2, <2>3, <3>2, FinishGuarded
  <2> QED BY <1>4, <2>2, <2>3 DEF Release
<1>5. CASE InvalidateCall
  BY <1>1, <1>2, <1>5, EndedGuarded DEF InvalidateCall, Invalidate
<1>6. CASE DisposeCall
  <2>1. Guarded([Disown(c, "invalidated") EXCEPT !.disposed = TRUE])
    BY <1>1 DEF Guarded, Disown, Drop, ClearTimers, Controller
  <2> QED BY <1>2, <1>6, <2>1 DEF DisposeCall, Dispose
<1>7. CASE HeartbeatTimer
  <2> DEFINE x == [c EXCEPT !.heartbeat = NoTimer]
             y == [x EXCEPT !.beating = x.op]
  <2>1. c.status = "held" /\ ~c.disposed
    BY <1>1, <1>7 DEF HeartbeatTimer, Guarded, Sound
  <2>2. x \in Controller /\ y \in Controller
    BY <1>1, TimerSettles DEF Settled, Sound, Controller
  <2>3. CASE c' \in {Drop(x, "lost", "none"), Disown(x, "expired")}
    BY <1>2, <2>2, <2>3, EndedGuarded
  <2>4. CASE c' = Send(y, "heartbeat")
    <3>1. Guarded(Send(y, "heartbeat"))
      BY <1>1, <2>1 DEF Guarded, Send, Controller
    <3> QED BY <1>2, <2>4, <3>1
  <2>5. CASE c' = x /\ (c.heartbeat.op # c.op \/ c.beating = c.op)
    <3>1. [kind |-> "heartbeat", op |-> c.op] \in c.calls
      <4>1. c.op # 0 /\ (c.beating = c.op => [kind |-> "heartbeat", op |-> c.op] \in c.calls)
        BY <1>1, <2>1 DEF Sound, Explained, None
      <4>2. c.heartbeat.op # c.op => [kind |-> "heartbeat", op |-> c.op] \in c.calls
        BY <2>1 DEF Guarded
      <4> QED BY <2>5, <4>1, <4>2
    <3>2. Guarded(x)
      BY <1>1, <2>1, <3>1 DEF Guarded, Controller
    <3> QED BY <1>2, <2>5, <3>2
  <2> QED BY <1>1, <1>7, <2>1, <2>3, <2>4, <2>5 DEF HeartbeatTimer, Controller
<1>8. CASE WatchdogTimer
  <2>1. c.status = "held" /\ ~c.disposed
    BY <1>1, <1>8 DEF WatchdogTimer, Guarded, Sound
  <2>2. now >= c.lease.expires /\ c.watchdog.op = c.op
    BY <1>1, <1>8, <2>1 DEF WatchdogTimer, Guarded, Controller
  <2>3. c' = Disown([c EXCEPT !.watchdog = NoTimer], "expired")
    BY <1>1, <1>8, <2>1, <2>2 DEF WatchdogTimer, Controller
  <2> QED BY <1>1, <1>2, <2>3, TimerSettles, EndedGuarded DEF Settled, Sound
<1>9. ASSUME NEW k \in c.calls, NEW outcome \in Outcomes, ClaimSettles(k, outcome)
      PROVE  Guarded(c)'
  <2> DEFINE x == [c EXCEPT !.calls = @ \ {k}]
  <2>1. k.kind = "claim" /\ x.op = c.op /\ x.disposed = c.disposed
    BY <1>1, <1>9 DEF ClaimSettles, Controller
  <2>2. Sound(x) /\ (k.op = c.op => Unasked(x) /\ c.status = "claiming")
    BY <1>1, <2>1, AnswerSound
  <2>3. CASE c' = x
    <3>1. \A op : [kind |-> "heartbeat", op |-> op] # k
      BY <2>1
    <3>2. Guarded(x)
      BY <1>1, <3>1 DEF Guarded, Controller
    <3> QED BY <1>2, <2>3, <3>2
  <2>4. CASE c' \in {Drop(x, "lost", "none"), Drop(x, "idle", "claim_failed")}
    BY <1>2, <2>2, <2>4, EndedGuarded DEF Sound
  <2>5. CASE ~x.disposed /\ x.op = k.op /\ c' \in Take(x)
    <3> HIDE DEF x
    <3>1. Unasked(x) /\ c.op # 0
      BY <1>1, <2>1, <2>2, <2>5 DEF Sound
    <3> QED BY <1>1, <1>2, <2>1, <2>2, <2>5, <3>1, TakeGuarded
  <2> QED BY <1>9, <2>3, <2>4, <2>5 DEF ClaimSettles
<1>10. ASSUME NEW k \in c.calls, NEW outcome \in Outcomes, HeartbeatSettles(k, outcome)
       PROVE  Guarded(c)'
  <2> DEFINE b == IF c.beating = k.op THEN None ELSE c.beating
             x == [c EXCEPT !.calls = c.calls \ {k}, !.beating = b]
  <2>1. k.kind = "heartbeat"
    BY <1>10 DEF HeartbeatSettles
  <2>2. x = [c EXCEPT !.calls = @ \ {k}, !.beating = IF @ = k.op THEN None ELSE @]
    BY <1>1 DEF Controller
  <2>3. Settled(x) /\ Sound(x)
    BY <1>1, <2>1, <2>2, HeartbeatAnswerSettles DEF Settled
  <2> HIDE DEF b
  <2>4. x.op = c.op /\ x.status = c.status /\ x.heartbeat = c.heartbeat
        /\ x.watchdog = c.watchdog /\ x.lease = c.lease /\ x.calls = c.calls \ {k}
    BY <1>1 DEF Controller
  <2> HIDE DEF x
  <2>5. CASE c' = x /\ (x.op # k.op \/ x.status # "held")
    <3>1. k.op # c.op => [kind |-> "heartbeat", op |-> c.op] # k
      OBVIOUS
    <3>2. Guarded(x)
      BY <2>4, <2>5, <3>1 DEF Guarded
    <3> QED BY <1>2, <2>5, <3>2
  <2>6. CASE c' \in {Drop(x, "lost", "none"), Drop(x, "lost", "heartbeat_failed")}
    BY <1>2, <2>3, <2>6, EndedGuarded DEF Sound
  <2>7. CASE ~x.disposed /\ x.status = "held" /\ c' \in Take(x)
    <3>1. Unasked(x) /\ x.op # 0
      BY <2>3, <2>7 DEF Unasked, Sound, Explained
    <3> QED BY <1>1, <1>2, <2>3, <2>7, <3>1, TakeGuarded
  <2>8. x.disposed => x.status # "held"
    BY <2>3 DEF Sound
  <2> QED BY <1>10, <2>2, <2>5, <2>6, <2>7, <2>8 DEF HeartbeatSettles
<1>11. ASSUME NEW k \in c.calls, NEW outcome \in {"valid", "error"},
              ReleaseSettles(k, outcome)
       PROVE  Guarded(c)'
  <2> DEFINE x == [c EXCEPT !.calls = @ \ {k}]
             y == [x EXCEPT !.status = "release_failed", !.reason = "release_failed"]
  <2>1. k.kind = "release" /\ x.op = c.op /\ x \in Controller
    BY <1>1, <1>11 DEF ReleaseSettles, Controller
  <2>2. k.op = c.op => c.status = "releasing"
    BY <1>1, <2>1, AnswerSound
  <2>3. Guarded(x)
    <3>1. \A op : [kind |-> "heartbeat", op |-> op] # k
      BY <2>1
    <3> QED BY <1>1, <3>1 DEF Guarded, Controller
  <2>4. CASE c' \in {Drop(x, "lost", "none"), Drop(x, "idle", "none")}
    BY <1>2, <2>1, <2>4, EndedGuarded
  <2>5. CASE c' = y /\ k.op = x.op
    <3>1. Guarded(y)
      BY <1>1, <2>1, <2>2, <2>5 DEF Guarded, Controller
    <3> QED BY <1>2, <2>5, <3>1
  <2> QED BY <1>2, <1>11, <2>3, <2>4, <2>5 DEF ReleaseSettles
<1>12. CASE CurrentChanges
  BY <1>1, <1>12 DEF CurrentChanges, Guarded, Controller
<1>13. CASE Tick \/ UNCHANGED vars
  BY <1>13 DEF Tick, vars, Guarded
<1> QED BY <1>3, <1>4, <1>5, <1>6, <1>7, <1>8, <1>9, <1>10, <1>11, <1>12, <1>13
        DEF Next

(* A held lease has its watchdog armed and a heartbeat coming or sent.     *)
(* A timer that fires early disproves it: the watchdog is not set again.   *)
THEOREM HeldGuarded == ASSUME Early = 0 PROVE Spec => []HeldIsGuarded
<1>1. Init => Guarded(c)
  BY DEF Init, Guarded
<1>2. IInv /\ Guarded(c) /\ [Next]_vars => Guarded(c)'
  BY NextGuarded
<1>3. Guarded(c) => HeldIsGuarded
  BY DEF Guarded, HeldIsGuarded
<1> QED BY <1>1, <1>2, <1>3, InitIInv, NextIInv, PTL DEF Spec
=============================================================================
