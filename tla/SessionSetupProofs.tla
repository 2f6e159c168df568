------------------------- MODULE SessionSetupProofs -------------------------
(***************************************************************************)
(* The safety properties of SessionSetup, proved for any number of         *)
(* requests, keys and contents.                                            *)
(*                                                                         *)
(* None of the three is inductive: that a key has one committed row rests  *)
(* on the row a request has still pending, that a session is ended once on *)
(* who holds its row, and that one agent is sent on who holds the user's.  *)
(* IInv says so.                                                           *)
(***************************************************************************)
EXTENDS SessionSetup, TLAPS

\* A row follows its request: pending between the answer and the commit, and
\* then committed for good.
RowFollows ==
  \A r \in Creates :
    /\ row[r] = "pending" <=> create[r].pc = "answered"
    /\ row[r] \in {"active", "completed"} => create[r].pc = "done"
    /\ create[r].pc \in {"new", "insert", "conflict"} => row[r] = "none" /\ create[r].code = 0
    /\ create[r].pc = "answered" => create[r].sid = r /\ create[r].code = 200

\* Of the rows of one key at most one is pending or committed.
KeyTaken ==
  \A r \in Creates : \A s \in SameKey(r) :
    row[r] \in {"pending", "active", "completed"} =>
      row[s] \notin {"pending", "active", "completed"}

\* What a request has been told holds.
Told ==
  \A r \in Creates :
    /\ create[r].pc = "done" => create[r].sid \in Committed
    /\ create[r].code = 200 /\ create[r].sid # r =>
         create[r].sid \in SameKey(r) /\ BodyOf[create[r].sid] = BodyOf[r]
    /\ create[r].code = 409 =>
         create[r].sid \in SameKey(r) /\ BodyOf[create[r].sid] # BodyOf[r]

\* A request that ends a session holds its row, and the row is still active.
Ending ==
  \A c \in Calls : call[c].pc \in {"ending", "told"} =>
    /\ call[c].sid \in Creates
    /\ row[call[c].sid] = "active"
    /\ rowLock[call[c].sid] = c

\* In cloud mode ending and dispatching hold the User row, so a session to be
\* dispatched to stays active and without a second agent.
Dispatching ==
  /\ \A c \in Calls : call[c].pc \in {"list", "create"} => call[c].sid \in Creates
  /\ mode = "livekit_cloud" =>
       /\ \A c \in Calls : call[c].pc \in {"ending", "list", "create"} => userLock = c
       /\ \A c \in Calls : call[c].pc # "told"
       /\ \A c \in Calls : call[c].pc \in {"list", "create"} => row[call[c].sid] = "active"
       /\ \A c \in Calls : call[c].pc = "create" => agents[call[c].sid] = 0
       /\ \A s \in Creates : agents[s] <= 1

IInv ==
  /\ TypeOK /\ RowFollows /\ KeyTaken /\ Told /\ Ending /\ EndedOnce /\ Dispatching

-----------------------------------------------------------------------------
(* Every step keeps the types. *)
LEMMA TypeStep == IInv /\ [Next]_vars => TypeOK'
<1> SUFFICES ASSUME IInv, [Next]_vars PROVE TypeOK'
  OBVIOUS
<1> USE CreatesAssumption DEF IInv, TypeOK
<1>1. ASSUME NEW r \in Creates, Lookup(r) PROVE TypeOK'
  BY <1>1 DEF Lookup, Replay, Answer, CreateRec, CallRec, RowStatus, Committed, SameKey, Named
<1>2. ASSUME NEW r \in Creates, Insert(r) PROVE TypeOK'
  BY <1>2, SMTT(30) DEF Insert, Answer, CreateRec, CallRec, RowStatus, Committed, SameKey, Named
<1>3. ASSUME NEW r \in Creates, Requery(r) PROVE TypeOK'
  BY <1>3 DEF Requery, Replay, Answer, CreateRec, CallRec, RowStatus, Committed, SameKey, Named
<1>4. ASSUME NEW r \in Creates, Commit(r) PROVE TypeOK'
  BY <1>4 DEF Commit, CreateRec, CallRec, RowStatus, Committed, SameKey, Named
<1>5. ASSUME NEW r \in Creates, Rollback(r) PROVE TypeOK'
  <2>1. create' \in [Creates -> CreateRec]
    <3>1. [create[r] EXCEPT !.pc = "failed"] \in CreateRec
      BY DEF CreateRec
    <3> QED
      BY <1>5, <3>1 DEF Rollback
  <2>2. row' \in [Creates -> RowStatus]
    BY <1>5 DEF Rollback, RowStatus
  <2> QED
    BY <1>5, <2>1, <2>2 DEF Rollback
<1>6. ASSUME NEW c \in Calls, NEW s \in Creates, EndSession(c, s) PROVE TypeOK'
  BY <1>6 DEF EndSession, Set, UserFree, CreateRec, CallRec, RowStatus, Committed, SameKey, Named
<1>7. ASSUME NEW c \in Calls, NEW s \in Creates, DispatchAgent(c, s) PROVE TypeOK'
  BY <1>7 DEF DispatchAgent, Set, UserFree, CreateRec, CallRec, RowStatus, Committed, SameKey, Named
<1>8. ASSUME NEW c \in Calls, CommitEnd(c) PROVE TypeOK'
  <2>1. call[c].sid \in Creates /\ jobs[call[c].sid] + 1 \in Nat
    BY <1>8 DEF CommitEnd, Ending, CallRec
  <2>2. call' \in [Calls -> CallRec] /\ row' \in [Creates -> RowStatus]
    BY <1>8, <2>1 DEF CommitEnd, Set, CallRec, RowStatus
  <2>3. jobs' \in [Creates -> Nat]
    BY <1>8, <2>1 DEF CommitEnd
  <2> QED
    BY <1>8, <2>2, <2>3 DEF CommitEnd, Unlock
<1>9. ASSUME NEW c \in Calls, TellEnd(c) PROVE TypeOK'
  BY <1>9 DEF TellEnd, Set, CreateRec, CallRec, RowStatus, Committed, SameKey, Named
<1>10. ASSUME NEW c \in Calls, RollbackEnd(c) PROVE TypeOK'
  BY <1>10 DEF RollbackEnd, Set, Unlock, CreateRec, CallRec, RowStatus, Committed, SameKey, Named
<1>11. ASSUME NEW c \in Calls, ListDispatch(c) PROVE TypeOK'
  BY <1>11 DEF ListDispatch, Set, Unlock, CreateRec, CallRec, RowStatus, Committed, SameKey, Named
<1>12. ASSUME NEW c \in Calls, CreateDispatch(c) PROVE TypeOK'
  <2>1. call[c].sid \in Creates /\ agents[call[c].sid] + 1 \in Nat
    BY <1>12 DEF CreateDispatch, Dispatching, CallRec
  <2>2. call' \in [Calls -> CallRec]
    BY <1>12, <2>1 DEF CreateDispatch, Set, CallRec
  <2>3. agents' \in [Creates -> Nat]
    BY <1>12, <2>1 DEF CreateDispatch
  <2> QED
    BY <1>12, <2>2, <2>3 DEF CreateDispatch, Unlock
<1>13. ASSUME NEW c \in Calls, FailDispatch(c) PROVE TypeOK'
  BY <1>13 DEF FailDispatch, Set, Unlock, CreateRec, CallRec, RowStatus, Committed, SameKey, Named
<1>14. ASSUME NEW s \in Creates, LateDispatch(s) PROVE TypeOK'
  BY <1>14 DEF LateDispatch, CreateRec, CallRec, RowStatus, Committed, SameKey, Named
<1>15. CASE UNCHANGED vars
  BY <1>15 DEF vars, CreateRec, CallRec, RowStatus, Committed, SameKey, Named
<1> QED
  BY <1>1, <1>2, <1>3, <1>4, <1>5, <1>6, <1>7, <1>8, <1>9, <1>10, <1>11, <1>12, <1>13, <1>14, <1>15 DEF Next

(* A row follows its request through every step. *)
LEMMA RowStep == IInv /\ [Next]_vars => RowFollows'
<1> SUFFICES ASSUME IInv, [Next]_vars PROVE RowFollows'
  OBVIOUS
<1> USE CreatesAssumption DEF IInv, TypeOK, RowFollows, Ending
<1>1. ASSUME NEW r \in Creates, Lookup(r) PROVE RowFollows'
  <2>1. /\ \A q \in Creates \ {r} : create'[q] = create[q]
        /\ create'[r].pc = "done" \/ (create'[r].pc = "insert" /\ create'[r].code = 0)
    BY <1>1 DEF Lookup, Replay, Answer
  <2>2. row[r] = "none" /\ UNCHANGED row
    BY <1>1 DEF Lookup, CreateRec
  <2> QED
    BY <2>1, <2>2 DEF CreateRec, RowStatus
<1>2. ASSUME NEW r \in Creates, Insert(r) PROVE RowFollows'
  BY <1>2 DEF Insert, Answer, CreateRec, CallRec, RowStatus, Committed, SameKey
<1>3. ASSUME NEW r \in Creates, Requery(r) PROVE RowFollows'
  BY <1>3 DEF Requery, Replay, Answer, CreateRec, CallRec, RowStatus, Committed, SameKey
<1>4. ASSUME NEW r \in Creates, Commit(r) PROVE RowFollows'
  BY <1>4 DEF Commit, CreateRec, CallRec, RowStatus, Committed, SameKey
<1>5. ASSUME NEW r \in Creates, Rollback(r) PROVE RowFollows'
  BY <1>5 DEF Rollback, CreateRec, CallRec, RowStatus, Committed, SameKey
<1>6. ASSUME NEW c \in Calls, NEW s \in Creates, EndSession(c, s) PROVE RowFollows'
  BY <1>6 DEF EndSession, Set, UserFree, CreateRec, CallRec, RowStatus, Committed, SameKey
<1>7. ASSUME NEW c \in Calls, NEW s \in Creates, DispatchAgent(c, s) PROVE RowFollows'
  BY <1>7 DEF DispatchAgent, Set, UserFree, CreateRec, CallRec, RowStatus, Committed, SameKey
<1>8. ASSUME NEW c \in Calls, CommitEnd(c) PROVE RowFollows'
  BY <1>8 DEF CommitEnd, Set, Unlock, CreateRec, CallRec, RowStatus, Committed, SameKey
<1>9. ASSUME NEW c \in Calls, TellEnd(c) PROVE RowFollows'
  BY <1>9 DEF TellEnd, Set, CreateRec, CallRec, RowStatus, Committed, SameKey
<1>10. ASSUME NEW c \in Calls, RollbackEnd(c) PROVE RowFollows'
  BY <1>10 DEF RollbackEnd, Set, Unlock, CreateRec, CallRec, RowStatus, Committed, SameKey
<1>11. ASSUME NEW c \in Calls, ListDispatch(c) PROVE RowFollows'
  BY <1>11 DEF ListDispatch, Set, Unlock, CreateRec, CallRec, RowStatus, Committed, SameKey
<1>12. ASSUME NEW c \in Calls, CreateDispatch(c) PROVE RowFollows'
  BY <1>12 DEF CreateDispatch, Set, Unlock, CreateRec, CallRec, RowStatus, Committed, SameKey
<1>13. ASSUME NEW c \in Calls, FailDispatch(c) PROVE RowFollows'
  BY <1>13 DEF FailDispatch, Set, Unlock, CreateRec, CallRec, RowStatus, Committed, SameKey
<1>14. ASSUME NEW s \in Creates, LateDispatch(s) PROVE RowFollows'
  BY <1>14 DEF LateDispatch, CreateRec, CallRec, RowStatus, Committed, SameKey
<1>15. CASE UNCHANGED vars
  BY <1>15 DEF vars, CreateRec, CallRec, RowStatus, Committed, SameKey
<1> QED
  BY <1>1, <1>2, <1>3, <1>4, <1>5, <1>6, <1>7, <1>8, <1>9, <1>10, <1>11, <1>12, <1>13, <1>14, <1>15 DEF Next

(* An insert is made only under a key that is free. *)
LEMMA KeyStep == IInv /\ [Next]_vars => KeyTaken'
<1> SUFFICES ASSUME IInv, [Next]_vars PROVE KeyTaken'
  OBVIOUS
<1> USE CreatesAssumption DEF IInv, TypeOK, RowFollows, KeyTaken, Ending
<1>1. ASSUME NEW r \in Creates, Lookup(r) PROVE KeyTaken'
  BY <1>1 DEF Lookup, Replay, Answer, CreateRec, CallRec, RowStatus, Committed, SameKey
<1>2. ASSUME NEW r \in Creates, Insert(r) PROVE KeyTaken'
  BY <1>2 DEF Insert, Answer, CreateRec, CallRec, RowStatus, Committed, SameKey
<1>3. ASSUME NEW r \in Creates, Requery(r) PROVE KeyTaken'
  BY <1>3 DEF Requery, Replay, Answer, CreateRec, CallRec, RowStatus, Committed, SameKey
<1>4. ASSUME NEW r \in Creates, Commit(r) PROVE KeyTaken'
  BY <1>4 DEF Commit, CreateRec, CallRec, RowStatus, Committed, SameKey
<1>5. ASSUME NEW r \in Creates, Rollback(r) PROVE KeyTaken'
  BY <1>5 DEF Rollback, CreateRec, CallRec, RowStatus, Committed, SameKey
<1>6. ASSUME NEW c \in Calls, NEW s \in Creates, EndSession(c, s) PROVE KeyTaken'
  BY <1>6 DEF EndSession, Set, UserFree, CreateRec, CallRec, RowStatus, Committed, SameKey
<1>7. ASSUME NEW c \in Calls, NEW s \in Creates, DispatchAgent(c, s) PROVE KeyTaken'
  BY <1>7 DEF DispatchAgent, Set, UserFree, CreateRec, CallRec, RowStatus, Committed, SameKey
<1>8. ASSUME NEW c \in Calls, CommitEnd(c) PROVE KeyTaken'
  BY <1>8 DEF CommitEnd, Set, Unlock, CreateRec, CallRec, RowStatus, Committed, SameKey
<1>9. ASSUME NEW c \in Calls, TellEnd(c) PROVE KeyTaken'
  BY <1>9 DEF TellEnd, Set, CreateRec, CallRec, RowStatus, Committed, SameKey
<1>10. ASSUME NEW c \in Calls, RollbackEnd(c) PROVE KeyTaken'
  BY <1>10 DEF RollbackEnd, Set, Unlock, CreateRec, CallRec, RowStatus, Committed, SameKey
<1>11. ASSUME NEW c \in Calls, ListDispatch(c) PROVE KeyTaken'
  BY <1>11 DEF ListDispatch, Set, Unlock, CreateRec, CallRec, RowStatus, Committed, SameKey
<1>12. ASSUME NEW c \in Calls, CreateDispatch(c) PROVE KeyTaken'
  BY <1>12 DEF CreateDispatch, Set, Unlock, CreateRec, CallRec, RowStatus, Committed, SameKey
<1>13. ASSUME NEW c \in Calls, FailDispatch(c) PROVE KeyTaken'
  BY <1>13 DEF FailDispatch, Set, Unlock, CreateRec, CallRec, RowStatus, Committed, SameKey
<1>14. ASSUME NEW s \in Creates, LateDispatch(s) PROVE KeyTaken'
  BY <1>14 DEF LateDispatch, CreateRec, CallRec, RowStatus, Committed, SameKey
<1>15. CASE UNCHANGED vars
  BY <1>15 DEF vars, CreateRec, CallRec, RowStatus, Committed, SameKey
<1> QED
  BY <1>1, <1>2, <1>3, <1>4, <1>5, <1>6, <1>7, <1>8, <1>9, <1>10, <1>11, <1>12, <1>13, <1>14, <1>15 DEF Next

(* Answers stay true. *)
LEMMA ToldStep == IInv /\ [Next]_vars => Told'
<1> SUFFICES ASSUME IInv, [Next]_vars PROVE Told'
  OBVIOUS
<1> USE CreatesAssumption DEF IInv, TypeOK, RowFollows, Told, Ending
<1>1. ASSUME NEW r \in Creates, Lookup(r) PROVE Told'
  BY <1>1, SMTT(30) DEF Lookup, Replay, Answer, CreateRec, CallRec, RowStatus, Committed, SameKey
<1>2. ASSUME NEW r \in Creates, Insert(r) PROVE Told'
  BY <1>2 DEF Insert, Answer, CreateRec, CallRec, RowStatus, Committed, SameKey
<1>3. ASSUME NEW r \in Creates, Requery(r) PROVE Told'
  BY <1>3 DEF Requery, Replay, Answer, CreateRec, CallRec, RowStatus, Committed, SameKey
<1>4. ASSUME NEW r \in Creates, Commit(r) PROVE Told'
  BY <1>4 DEF Commit, CreateRec, CallRec, RowStatus, Committed, SameKey
<1>5. ASSUME NEW r \in Creates, Rollback(r) PROVE Told'
  BY <1>5 DEF Rollback, CreateRec, CallRec, RowStatus, Committed, SameKey
<1>6. ASSUME NEW c \in Calls, NEW s \in Creates, EndSession(c, s) PROVE Told'
  BY <1>6 DEF EndSession, Set, UserFree, CreateRec, CallRec, RowStatus, Committed, SameKey
<1>7. ASSUME NEW c \in Calls, NEW s \in Creates, DispatchAgent(c, s) PROVE Told'
  BY <1>7 DEF DispatchAgent, Set, UserFree, CreateRec, CallRec, RowStatus, Committed, SameKey
<1>8. ASSUME NEW c \in Calls, CommitEnd(c) PROVE Told'
  BY <1>8 DEF CommitEnd, Set, Unlock, CreateRec, CallRec, RowStatus, Committed, SameKey
<1>9. ASSUME NEW c \in Calls, TellEnd(c) PROVE Told'
  BY <1>9 DEF TellEnd, Set, CreateRec, CallRec, RowStatus, Committed, SameKey
<1>10. ASSUME NEW c \in Calls, RollbackEnd(c) PROVE Told'
  BY <1>10 DEF RollbackEnd, Set, Unlock, CreateRec, CallRec, RowStatus, Committed, SameKey
<1>11. ASSUME NEW c \in Calls, ListDispatch(c) PROVE Told'
  BY <1>11 DEF ListDispatch, Set, Unlock, CreateRec, CallRec, RowStatus, Committed, SameKey
<1>12. ASSUME NEW c \in Calls, CreateDispatch(c) PROVE Told'
  BY <1>12 DEF CreateDispatch, Set, Unlock, CreateRec, CallRec, RowStatus, Committed, SameKey
<1>13. ASSUME NEW c \in Calls, FailDispatch(c) PROVE Told'
  BY <1>13 DEF FailDispatch, Set, Unlock, CreateRec, CallRec, RowStatus, Committed, SameKey
<1>14. ASSUME NEW s \in Creates, LateDispatch(s) PROVE Told'
  BY <1>14 DEF LateDispatch, CreateRec, CallRec, RowStatus, Committed, SameKey
<1>15. CASE UNCHANGED vars
  BY <1>15 DEF vars, CreateRec, CallRec, RowStatus, Committed, SameKey
<1> QED
  BY <1>1, <1>2, <1>3, <1>4, <1>5, <1>6, <1>7, <1>8, <1>9, <1>10, <1>11, <1>12, <1>13, <1>14, <1>15 DEF Next

(* A session being ended stays active until its holder commits. *)
LEMMA EndingStep == IInv /\ [Next]_vars => Ending'
<1> SUFFICES ASSUME IInv, [Next]_vars PROVE Ending'
  OBVIOUS
<1> USE CreatesAssumption DEF IInv, TypeOK, RowFollows, Ending
<1>1. ASSUME NEW r \in Creates, Lookup(r) PROVE Ending'
  BY <1>1 DEF Lookup, Replay, Answer, CreateRec, CallRec, RowStatus
<1>2. ASSUME NEW r \in Creates, Insert(r) PROVE Ending'
  BY <1>2 DEF Insert, Answer, CreateRec, CallRec, RowStatus
<1>3. ASSUME NEW r \in Creates, Requery(r) PROVE Ending'
  BY <1>3 DEF Requery, Replay, Answer, CreateRec, CallRec, RowStatus
<1>4. ASSUME NEW r \in Creates, Commit(r) PROVE Ending'
  BY <1>4 DEF Commit, CreateRec, CallRec, RowStatus
<1>5. ASSUME NEW r \in Creates, Rollback(r) PROVE Ending'
  BY <1>5 DEF Rollback, CreateRec, CallRec, RowStatus
<1>6. ASSUME NEW c \in Calls, NEW s \in Creates, EndSession(c, s) PROVE Ending'
  BY <1>6 DEF EndSession, Set, UserFree, CreateRec, CallRec, RowStatus
<1>7. ASSUME NEW c \in Calls, NEW s \in Creates, DispatchAgent(c, s) PROVE Ending'
  BY <1>7 DEF DispatchAgent, Set, UserFree, CreateRec, CallRec, RowStatus
<1>8. ASSUME NEW c \in Calls, CommitEnd(c) PROVE Ending'
  BY <1>8 DEF CommitEnd, Set, Unlock, CreateRec, CallRec, RowStatus
<1>9. ASSUME NEW c \in Calls, TellEnd(c) PROVE Ending'
  BY <1>9 DEF TellEnd, Set, CreateRec, CallRec, RowStatus
<1>10. ASSUME NEW c \in Calls, RollbackEnd(c) PROVE Ending'
  BY <1>10 DEF RollbackEnd, Set, Unlock, CreateRec, CallRec, RowStatus
<1>11. ASSUME NEW c \in Calls, ListDispatch(c) PROVE Ending'
  <2>1. PICK p \in {"create", "done"} :
           call' = [call EXCEPT ![c] = [pc |-> p, sid |-> call[c].sid]]
    BY <1>11 DEF ListDispatch, Set
  <2>2. \A d \in Calls : call'[d].pc \in {"ending", "told"} => d # c /\ call'[d] = call[d]
    BY <2>1
  <2>3. \A s \in Creates : rowLock[s] # c => rowLock'[s] = rowLock[s]
    BY <1>11 DEF ListDispatch, Unlock
  <2> QED
    BY <1>11, <2>2, <2>3 DEF ListDispatch, CallRec
<1>12. ASSUME NEW c \in Calls, CreateDispatch(c) PROVE Ending'
  BY <1>12 DEF CreateDispatch, Set, Unlock, CreateRec, CallRec, RowStatus
<1>13. ASSUME NEW c \in Calls, FailDispatch(c) PROVE Ending'
  BY <1>13 DEF FailDispatch, Set, Unlock, CreateRec, CallRec, RowStatus
<1>14. ASSUME NEW s \in Creates, LateDispatch(s) PROVE Ending'
  BY <1>14 DEF LateDispatch, CreateRec, CallRec, RowStatus
<1>15. CASE UNCHANGED vars
  BY <1>15 DEF vars, CreateRec, CallRec, RowStatus
<1> QED
  BY <1>1, <1>2, <1>3, <1>4, <1>5, <1>6, <1>7, <1>8, <1>9, <1>10, <1>11, <1>12, <1>13, <1>14, <1>15 DEF Next

(* A job is made with the change to completed, and only then. *)
LEMMA EndedStep == IInv /\ [Next]_vars => EndedOnce'
<1> SUFFICES ASSUME IInv, [Next]_vars PROVE EndedOnce'
  OBVIOUS
<1> USE CreatesAssumption DEF IInv, TypeOK, RowFollows, Ending, EndedOnce
<1>1. ASSUME NEW r \in Creates, Lookup(r) PROVE EndedOnce'
  BY <1>1 DEF Lookup, Replay, Answer, CreateRec, CallRec, RowStatus
<1>2. ASSUME NEW r \in Creates, Insert(r) PROVE EndedOnce'
  BY <1>2 DEF Insert, Answer, CreateRec, CallRec, RowStatus
<1>3. ASSUME NEW r \in Creates, Requery(r) PROVE EndedOnce'
  BY <1>3 DEF Requery, Replay, Answer, CreateRec, CallRec, RowStatus
<1>4. ASSUME NEW r \in Creates, Commit(r) PROVE EndedOnce'
  BY <1>4 DEF Commit, CreateRec, CallRec, RowStatus
<1>5. ASSUME NEW r \in Creates, Rollback(r) PROVE EndedOnce'
  BY <1>5 DEF Rollback, CreateRec, CallRec, RowStatus
<1>6. ASSUME NEW c \in Calls, NEW s \in Creates, EndSession(c, s) PROVE EndedOnce'
  BY <1>6 DEF EndSession, Set, UserFree, CreateRec, CallRec, RowStatus
<1>7. ASSUME NEW c \in Calls, NEW s \in Creates, DispatchAgent(c, s) PROVE EndedOnce'
  BY <1>7 DEF DispatchAgent, Set, UserFree, CreateRec, CallRec, RowStatus
<1>8. ASSUME NEW c \in Calls, CommitEnd(c) PROVE EndedOnce'
  BY <1>8 DEF CommitEnd, Set, Unlock, CreateRec, CallRec, RowStatus
<1>9. ASSUME NEW c \in Calls, TellEnd(c) PROVE EndedOnce'
  BY <1>9 DEF TellEnd, Set, CreateRec, CallRec, RowStatus
<1>10. ASSUME NEW c \in Calls, RollbackEnd(c) PROVE EndedOnce'
  BY <1>10 DEF RollbackEnd, Set, Unlock, CreateRec, CallRec, RowStatus
<1>11. ASSUME NEW c \in Calls, ListDispatch(c) PROVE EndedOnce'
  BY <1>11 DEF ListDispatch, Set, Unlock, CreateRec, CallRec, RowStatus
<1>12. ASSUME NEW c \in Calls, CreateDispatch(c) PROVE EndedOnce'
  BY <1>12 DEF CreateDispatch, Set, Unlock, CreateRec, CallRec, RowStatus
<1>13. ASSUME NEW c \in Calls, FailDispatch(c) PROVE EndedOnce'
  BY <1>13 DEF FailDispatch, Set, Unlock, CreateRec, CallRec, RowStatus
<1>14. ASSUME NEW s \in Creates, LateDispatch(s) PROVE EndedOnce'
  BY <1>14 DEF LateDispatch, CreateRec, CallRec, RowStatus
<1>15. CASE UNCHANGED vars
  BY <1>15 DEF vars, CreateRec, CallRec, RowStatus
<1> QED
  BY <1>1, <1>2, <1>3, <1>4, <1>5, <1>6, <1>7, <1>8, <1>9, <1>10, <1>11, <1>12, <1>13, <1>14, <1>15 DEF Next

(* What the User row is held for stays true while it is held. *)
LEMMA DispatchStep == IInv /\ [Next]_vars => Dispatching'
<1> SUFFICES ASSUME IInv, [Next]_vars PROVE Dispatching'
  OBVIOUS
<1> USE CreatesAssumption DEF IInv, TypeOK, RowFollows, Ending, Dispatching
<1>1. ASSUME NEW r \in Creates, Lookup(r) PROVE Dispatching'
  BY <1>1 DEF Lookup, Replay, Answer, CreateRec, CallRec, RowStatus
<1>2. ASSUME NEW r \in Creates, Insert(r) PROVE Dispatching'
  BY <1>2 DEF Insert, Answer, CreateRec, CallRec, RowStatus
<1>3. ASSUME NEW r \in Creates, Requery(r) PROVE Dispatching'
  BY <1>3 DEF Requery, Replay, Answer, CreateRec, CallRec, RowStatus
<1>4. ASSUME NEW r \in Creates, Commit(r) PROVE Dispatching'
  BY <1>4 DEF Commit, CreateRec, CallRec, RowStatus
<1>5. ASSUME NEW r \in Creates, Rollback(r) PROVE Dispatching'
  BY <1>5 DEF Rollback, CreateRec, CallRec, RowStatus
<1>6. ASSUME NEW c \in Calls, NEW s \in Creates, EndSession(c, s) PROVE Dispatching'
  BY <1>6 DEF EndSession, Set, UserFree, CreateRec, CallRec, RowStatus
<1>7. ASSUME NEW c \in Calls, NEW s \in Creates, DispatchAgent(c, s) PROVE Dispatching'
  BY <1>7 DEF DispatchAgent, Set, UserFree, CreateRec, CallRec, RowStatus
<1>8. ASSUME NEW c \in Calls, CommitEnd(c) PROVE Dispatching'
  BY <1>8 DEF CommitEnd, Set, Unlock, CreateRec, CallRec, RowStatus
<1>9. ASSUME NEW c \in Calls, TellEnd(c) PROVE Dispatching'
  BY <1>9 DEF TellEnd, Set, CreateRec, CallRec, RowStatus
<1>10. ASSUME NEW c \in Calls, RollbackEnd(c) PROVE Dispatching'
  BY <1>10 DEF RollbackEnd, Set, Unlock, CreateRec, CallRec, RowStatus
<1>11. ASSUME NEW c \in Calls, ListDispatch(c) PROVE Dispatching'
  <2>1. CASE agents[call[c].sid] + strays[call[c].sid] = 0
    <3>1. call[c].sid \in Creates /\ agents[call[c].sid] = 0
      BY <1>11, <2>1 DEF ListDispatch, CallRec
    <3>2. /\ \A d \in Calls \ {c} : call'[d] = call[d]
          /\ call'[c].pc = "create" /\ call'[c].sid = call[c].sid
      BY <1>11, <2>1 DEF ListDispatch, Set
    <3>3. UNCHANGED <<mode, row, agents, userLock>> /\ call[c].pc = "list"
      BY <1>11, <2>1 DEF ListDispatch
    <3> QED
      BY <3>1, <3>2, <3>3
  <2>2. CASE agents[call[c].sid] + strays[call[c].sid] # 0
    <3>1. /\ \A d \in Calls \ {c} : call'[d] = call[d]
          /\ call'[c].pc = "done"
      BY <1>11, <2>2 DEF ListDispatch, Set
    <3>2. /\ UNCHANGED <<mode, row, agents>> /\ call[c].pc = "list"
          /\ userLock # c => userLock' = userLock
      BY <1>11, <2>2 DEF ListDispatch, Unlock
    <3> QED
      BY <3>1, <3>2
  <2> QED
    BY <2>1, <2>2
<1>12. ASSUME NEW c \in Calls, CreateDispatch(c) PROVE Dispatching'
  BY <1>12 DEF CreateDispatch, Set, Unlock, CreateRec, CallRec, RowStatus
<1>13. ASSUME NEW c \in Calls, FailDispatch(c) PROVE Dispatching'
  BY <1>13 DEF FailDispatch, Set, Unlock, CreateRec, CallRec, RowStatus
<1>14. ASSUME NEW s \in Creates, LateDispatch(s) PROVE Dispatching'
  BY <1>14 DEF LateDispatch, CreateRec, CallRec, RowStatus
<1>15. CASE UNCHANGED vars
  BY <1>15 DEF vars, CreateRec, CallRec, RowStatus
<1> QED
  BY <1>1, <1>2, <1>3, <1>4, <1>5, <1>6, <1>7, <1>8, <1>9, <1>10, <1>11, <1>12, <1>13, <1>14, <1>15 DEF Next

-----------------------------------------------------------------------------
(* IInv holds of every state the requests can reach. *)
LEMMA Invariance == Spec => []IInv
<1>1. Init => IInv
  BY CreatesAssumption, ModesAssumption
  DEF Init, IInv, TypeOK, RowFollows, KeyTaken, Told, Ending, EndedOnce, Dispatching,
      RowStatus, CreateRec, CallRec, SameKey, Committed
<1>2. IInv /\ [Next]_vars => IInv'
  BY TypeStep, RowStep, KeyStep, ToldStep, EndingStep, EndedStep, DispatchStep DEF IInv
<1> QED
  BY <1>1, <1>2, PTL DEF Spec

(* The rows, requests and locks keep their types, whatever the requests do. *)
THEOREM TypeCorrect == Spec => []TypeOK
<1>1. IInv => TypeOK
  BY DEF IInv
<1> QED
  BY <1>1, Invariance, PTL

(* A key never has two committed sessions and every replay or refusal is    *)
(* right, for any number of requests, keys and contents                     *)
(* (sessions.py:138-197).                                                   *)
THEOREM Idempotent == Spec => []IdempotentCreate
<1>1. IInv => IdempotentCreate
  BY DEF IInv, KeyTaken, Told, IdempotentCreate, Committed, SameKey
<1> QED
  BY <1>1, Invariance, PTL

(* However many requests end it, a session is ended once: it has a job if   *)
(* and only if it is completed (sessions.py:384-440).                       *)
THEOREM OneJob == Spec => []EndedOnce
<1>1. IInv => EndedOnce
  BY DEF IInv
<1> QED
  BY <1>1, Invariance, PTL

(* In cloud mode no number of dispatch requests that live to see their      *)
(* creation send a second agent, or one into a session that has ended       *)
(* (sessions.py:676-707).                                                   *)
THEOREM OneAgentSent == Spec => []AgentsAccounted
<1>1. IInv => AgentsAccounted
  BY DEF IInv, Dispatching, AgentsAccounted
<1> QED
  BY <1>1, Invariance, PTL
=============================================================================
