------------------------- MODULE TransactionProofs -------------------------
(* The transaction's invariants for any number of calls, keys and answers. *)
EXTENDS Transaction, TLAPS

\* The type of every piece, for the facts below.
LEMMA Typed == ASSUME TypeOK PROVE
  /\ tx \in Handles /\ DOMAIN call = Calls
  /\ \A x \in Calls : call[x] \in Phases \cup Commits
  BY DEF TypeOK

\* A call moves on: the other calls stay where they are.
LEMMA MovesOn ==
  ASSUME TypeOK, NEW x \in Calls, NEW p, p \in Phases \cup Commits, Goto(x, p)
  PROVE  /\ call' \in [Calls -> Phases \cup Commits]
         /\ call'[x] = p /\ \A y \in Calls \ {x} : call'[y] = call[y]
  BY DEF TypeOK, Goto

\* abort() begins.
LEMMA AbortBegunType ==
  ASSUME NEW t \in Handles
  PROVE  /\ AbortBegun(t) \in Handles
         /\ AbortBegun(t).commitPromise = t.commitPromise /\ AbortBegun(t).commit = t.commit
         /\ AbortBegun(t).attempt = t.attempt
  BY DEF AbortBegun, RolledBack, Handles, PromiseStates

\* The synchronous part of an abort.
LEMMA AbortBodyType ==
  ASSUME TypeOK, NEW x \in Calls, NEW t \in Handles, AbortBody(x, t),
         t.commitPromise = tx.commitPromise, t.commit = tx.commit, t.attempt = tx.attempt,
         UNCHANGED <<db, cached, lost>>
  PROVE  TypeOK'
<1>1. call' \in [Calls -> Phases \cup Commits]
  BY MovesOn DEF AbortBody, Phases
<1>2. tx' \in Handles /\ tx'.commitPromise = tx.commitPromise /\ tx'.commit = tx.commit
     /\ tx'.attempt = tx.attempt
  BY AbortBegunType DEF AbortBody
<1> QED BY <1>1, <1>2 DEF TypeOK

\* The synchronous part of end().
LEMMA EndBodyType ==
  ASSUME TypeOK, NEW x \in Calls, NEW t \in Handles, EndBody(x, t),
         t.commitPromise = tx.commitPromise, t.commit = tx.commit, t.attempt = tx.attempt,
         UNCHANGED <<db, cached, lost>>
  PROVE  TypeOK'
<1>1. call' \in [Calls -> Phases \cup Commits]
  BY MovesOn DEF EndBody, Phases
<1>2. tx' \in Handles /\ tx'.commitPromise = tx.commitPromise /\ tx'.commit = tx.commit
     /\ tx'.attempt = tx.attempt
  BY AbortBegunType DEF EndBody
<1> QED BY <1>1, <1>2 DEF TypeOK

\* A transaction that accepts no more writes.
LEMMA ClosedType ==
  ASSUME TypeOK
  PROVE  /\ Closed(tx) \in Handles
         /\ Closed(tx).commitPromise = tx.commitPromise /\ Closed(tx).commit = tx.commit
         /\ Closed(tx).attempt = tx.attempt
  BY DEF TypeOK, Closed, Handles

\* A rolled-back handle: aborted, with no lock, and otherwise as it was.
LEMMA RolledBackIs ==
  ASSUME NEW t \in Handles
  PROVE  /\ RolledBack(t) \in Handles
         /\ RolledBack(t).state = "aborted" /\ RolledBack(t).locks = {}
         /\ RolledBack(t).intents = {} /\ RolledBack(t).abortPromise = "settled"
         /\ \A f \in {"accepting", "overdue", "commitPromise", "endPromise", "unknown", "commit",
                      "attempt", "left"} : RolledBack(t)[f] = t[f]
BY DEF RolledBack, Handles, PromiseStates

\* A commit is settled.
LEMMA SettleType ==
  ASSUME TypeOK, NEW t \in Handles, NEW p \in Phases, Settle(t, p),
         tx.commitPromise # None
  PROVE  /\ tx' \in Handles /\ tx'.commitPromise = None /\ tx'.commit = "none"
         /\ call' \in [Calls -> Phases \cup Commits]
<1>1. tx.commitPromise \in Calls
  BY DEF TypeOK, Handles, Calls
<1>2. call' \in [Calls -> Phases \cup Commits]
  BY <1>1, MovesOn DEF Settle
<1> QED BY <1>2 DEF Settle, Handles

\* The first state has its types.
LEMMA InitTypeOK == Init => TypeOK
<1> SUFFICES ASSUME Init PROVE TypeOK
  OBVIOUS
<1>1. tx \in Handles
  BY DEF Init, Handles, PromiseStates, MaxAttempts
<1>2. call \in [Calls -> Phases \cup Commits]
  BY DEF Init, Phases
<1> QED BY <1>1, <1>2 DEF Init, TypeOK

\* Every step keeps the types.
LEMMA NextTypeOK == TypeOK /\ [Next]_vars => TypeOK'
<1> SUFFICES ASSUME TypeOK, [Next]_vars PROVE TypeOK'
  OBVIOUS
<1>0. CASE UNCHANGED vars
  BY <1>0 DEF vars, TypeOK
<1>1. CASE Start
  BY <1>1 DEF Start, Started, TypeOK, Handles
<1>2. CASE DeadlinePasses
  BY <1>2 DEF DeadlinePasses, TypeOK, Handles
<1>3. CASE AbortAnswered
  <2>1. tx' \in Handles /\ tx'.commitPromise = tx.commitPromise /\ tx'.commit = tx.commit
        /\ tx'.attempt = tx.attempt
    BY <1>3, RolledBackIs DEF AbortAnswered, TypeOK
  <2> QED BY <1>3, <2>1 DEF AbortAnswered, TypeOK
<1>4. CASE \E x \in Calls : AfterAbort(x)
  BY <1>4, MovesOn DEF AfterAbort, TypeOK, Phases
<1>5. ASSUME NEW k \in Keys, WorkStep(k) PROVE TypeOK'
  <2>1. CASE Write(k)
    BY <2>1 DEF Write, TypeOK
  <2>2. CASE WriteDone(k)
    <3>1. CASE Record(k)
      <4>1. tx' \in Handles /\ UNCHANGED <<tx.commitPromise, tx.commit, tx.attempt>>
        BY <3>1 DEF Record, TypeOK, Handles
      <4> QED BY <2>2, <4>1 DEF WriteDone, Landed, TypeOK
    <3>2. CASE UNCHANGED tx
      BY <2>2, <3>2 DEF WriteDone, Landed, TypeOK
    <3> QED BY <2>2, <3>1, <3>2 DEF WriteDone
  <2>3. CASE WriteFails(k)
    BY <2>3 DEF WriteFails, TypeOK
  <2>4. CASE Fill(k)
    BY <2>4 DEF Fill, TypeOK
  <2>5. CASE LockExpires(k)
    BY <2>5 DEF LockExpires, TypeOK, Handles
  <2> QED BY <1>5, <2>1, <2>2, <2>3, <2>4, <2>5 DEF WorkStep
<1>6. ASSUME NEW c \in Commits, CommitStep(c) PROVE TypeOK'
  <2>0. c \in Calls
    BY DEF Calls
  <2>1. CASE CommitJoins(c)
    <3>1. tx.commitPromise \in Commits
      BY <2>1 DEF CommitJoins, TypeOK, Handles
    <3> QED BY <2>0, <2>1, <3>1, MovesOn DEF CommitJoins, TypeOK
  <2>2. CASE CommitJoined(c)
    <3>1. call[call[c]] \in Phases
      BY <2>2 DEF CommitJoined, Awaited, Phases
    <3> QED BY <2>0, <2>2, <3>1, MovesOn DEF CommitJoined, TypeOK
  <2>3. CASE CommitRefused(c)
    BY <2>0, <2>3, MovesOn DEF CommitRefused, TypeOK, Phases
  <2>4. CASE CommitTooLate(c)
    BY <2>0, <2>4, AbortBodyType, ClosedType DEF CommitTooLate
  <2>5. CASE CommitSends(c)
    <3>1. call' \in [Calls -> Phases \cup Commits]
      BY <2>0, <2>5, MovesOn DEF CommitSends, Phases
    <3>2. tx' \in Handles /\ tx'.commitPromise = c /\ tx'.commit = "sending"
      <4> DEFINE t == Closed(tx)
      <4>1. t \in Handles
        BY ClosedType
      <4>2. tx' = [t EXCEPT !.timer = FALSE, !.commitPromise = c, !.commit = "sending",
                            !.attempt = 1]
        BY <2>5 DEF CommitSends
      <4> HIDE DEF t
      <4>3. 1 \in 0..MaxAttempts
        BY DEF MaxAttempts
      <4> QED BY <4>1, <4>2, <4>3 DEF Handles
    <3> QED BY <2>5, <3>1, <3>2, ConstantsAssumption DEF CommitSends, TypeOK
  <2> QED BY <1>6, <2>1, <2>2, <2>3, <2>4, <2>5 DEF CommitStep
<1>7. CASE CommitOnce
  <2>1. CASE ServerCommits
    BY <2>1 DEF ServerCommits, TypeOK
  <2>2. CASE CommitAnswered
    BY <2>2 DEF CommitAnswered, LeftTransaction, TypeOK, Handles
  <2>3. CASE CommitUnclear
    BY <2>3 DEF CommitUnclear, LeftTransaction, TypeOK, Handles
  <2>4. CASE CommitAgain
    <3>1. tx.attempt + 1 \in 0..MaxAttempts
      BY <2>4 DEF CommitAgain, TypeOK, Handles, MaxAttempts
    <3> QED BY <2>4, <3>1 DEF CommitAgain, TypeOK, Handles
  <2>5. CASE CommitUnknown
    BY <2>5 DEF CommitUnknown, LeftTransaction, TypeOK, Handles
  <2>6. CASE CommitFails
    <3> DEFINE t == [tx EXCEPT !.unknown = FALSE]
    <3>1. t \in Handles
      BY DEF TypeOK, Handles
    <3>2. Settle(t, "failed") /\ tx.commitPromise # None
      BY <2>6 DEF CommitFails, DefiniteError, TypeOK
    <3>3. db' \in [server : {"none", "open", "committed", "aborted"}, inTx : BOOLEAN,
                   inflight : SUBSET Keys, written : SUBSET Keys]
      <4>1. PICK s \in {"none", "open", "committed", "aborted"} :
              db' = [db EXCEPT !.inTx = FALSE, !.server = s]
        BY <2>6 DEF CommitFails, DefiniteError, TypeOK
      <4> QED BY <4>1 DEF TypeOK
    <3> HIDE DEF t
    <3> QED BY <3>1, <3>2, <3>3, SettleType DEF Settle, TypeOK, Phases
  <2>7. CASE \E k \in Keys : FlushKey(k)
    BY <2>7 DEF FlushKey, Flushing, TypeOK, Handles
  <2>8. CASE FlushFails
    BY <2>8 DEF FlushFails, Flushing, TypeOK, Handles
  <2>9. CASE Finish
    <3> DEFINE t == [tx EXCEPT !.intents = {}, !.locks = {}, !.timer = FALSE]
    <3>1. t \in Handles
      BY DEF TypeOK, Handles
    <3>2. Settle(t, "done") /\ tx.commitPromise # None
      BY <2>9 DEF Finish, TypeOK
    <3> HIDE DEF t
    <3> QED BY <2>9, <3>1, <3>2, SettleType DEF Finish, Settle, TypeOK, Phases
  <2>10. CASE ThrowUnknown
    <3>1. tx \in Handles /\ Settle(tx, "failed") /\ tx.commitPromise # None
      BY <2>10 DEF ThrowUnknown, TypeOK
    <3> QED BY <2>10, <3>1, SettleType DEF ThrowUnknown, Settle, TypeOK, Phases
  <2> QED BY <1>7, <2>1, <2>2, <2>3, <2>4, <2>5, <2>6, <2>7, <2>8, <2>9, <2>10 DEF CommitOnce
<1>8. ASSUME NEW x \in Aborts, AbortStep(x) PROVE TypeOK'
  <2>0. x \in Calls
    BY DEF Calls
  <2>1. CASE AbortCall(x) /\ tx.commitPromise # None
    <3>1. tx.commitPromise \in Commits
      BY <2>1 DEF TypeOK, Handles
    <3> QED BY <2>0, <2>1, <3>1, MovesOn, ClosedType DEF AbortCall, TypeOK
  <2>2. CASE AbortCall(x) /\ tx.commitPromise = None
    BY <2>0, <2>2, AbortBodyType, ClosedType DEF AbortCall
  <2>3. CASE AbortResume(x)
    BY <2>0, <2>3, AbortBodyType, Typed DEF AbortResume
  <2> QED BY <1>8, <2>1, <2>2, <2>3 DEF AbortStep
<1>9. ASSUME NEW e \in Ends, EndStep(e) PROVE TypeOK'
  <2>0. e \in Calls
    BY DEF Calls
  <2>1. CASE EndCall(e)
    <3> DEFINE t == [Closed(tx) EXCEPT !.endPromise = "pending"]
    <3>1. /\ t \in Handles /\ t.commitPromise = tx.commitPromise
          /\ t.commit = tx.commit /\ t.attempt = tx.attempt
      BY ClosedType DEF Handles, PromiseStates
    <3>2. IF tx.commitPromise # None THEN tx' = t /\ Goto(e, tx.commitPromise)
                                     ELSE EndBody(e, t)
      BY <2>1 DEF EndCall
    <3>3. UNCHANGED <<db, cached, lost>>
      BY <2>1 DEF EndCall
    <3> HIDE DEF t
    <3>4. CASE tx.commitPromise # None
      <4>1. tx.commitPromise \in Commits
        BY <3>4 DEF TypeOK, Handles
      <4> QED BY <2>0, <3>1, <3>2, <3>3, <3>4, <4>1, MovesOn DEF TypeOK
    <3>5. CASE tx.commitPromise = None
      BY <2>0, <3>1, <3>2, <3>3, <3>5, EndBodyType
    <3> QED BY <3>4, <3>5
  <2>2. CASE EndResume(e)
    BY <2>0, <2>2, EndBodyType, Typed DEF EndResume
  <2>3. CASE EndReleases(e)
    BY <2>0, <2>3, MovesOn DEF EndReleases, TypeOK, Handles, Phases
  <2>4. CASE EndAnswered(e)
    <3>1. tx' \in Handles /\ UNCHANGED <<tx.commitPromise, tx.commit, tx.attempt>>
      BY <2>4 DEF EndAnswered, TypeOK, Handles, PromiseStates
    <3> QED BY <2>0, <2>4, <3>1, MovesOn DEF EndAnswered, TypeOK, Phases
  <2>5. CASE EndJoins(e) \/ EndJoined(e)
    BY <2>0, <2>5, MovesOn DEF EndJoins, EndJoined, TypeOK, Phases
  <2> QED BY <1>9, <2>1, <2>2, <2>3, <2>4, <2>5 DEF EndStep
<1> QED BY <1>0, <1>1, <1>2, <1>3, <1>4, <1>5, <1>6, <1>7, <1>8, <1>9 DEF Next

\* Types hold, for any number of calls and keys and whatever the server answers.
THEOREM TypeCorrect == Spec => []TypeOK
  BY InitTypeOK, NextTypeOK, PTL DEF Spec

-----------------------------------------------------------------------------
(* Serialization.                                                          *)

Over(c) == call[c] \in {"done", "failed"}

OnlyCurrent == \A x \in Calls : call[x] \in Commits => call[x] = tx.commitPromise

\* Who awaits a commit awaits the current one or one that is over; while the
\* session is in its transaction, or the outcome of the only attempts so far is
\* open, nobody awaits an earlier one.
Waiting ==
  /\ \A x \in Calls : call[x] \in Commits => call[x] = tx.commitPromise \/ Over(call[x])
  /\ tx.commitPromise # None => call[tx.commitPromise] = "commit"
  /\ db.inTx => OnlyCurrent
  /\ tx.commit \in {"sending", "backoff"} => tx.unknown \/ OnlyCurrent
  /\ tx.state = "pending" => OnlyCurrent

\* What commitOnce has found out shows in the handle.
Phase ==
  /\ tx.commit \in {"backoff", "flushing", "uncertain"} => ~db.inTx
  /\ tx.commit = "uncertain" => tx.unknown
  /\ tx.commit = "flushing" => tx.state = "committed"
  /\ tx.state = "pending" => tx.commitPromise = None /\ ~tx.unknown

SInv == TypeOK /\ Waiting /\ Phase /\ CommitAbortSerialized

\* A call that starts or resumes abort() keeps the invariant: either no commit is
\* in progress, or the one it awaited is over and the next began with the outcome
\* unknown.
LEMMA BodyKeeps ==
  ASSUME SInv, TypeOK', NEW x \in Calls, NEW t \in Handles,
         AbortBody(x, t) \/ EndBody(x, t),
         tx.commitPromise = None \/ Awaited(x),
         call[x] # "commit", ~Over(x),
         t.commitPromise = tx.commitPromise, t.commit = tx.commit, t.state = tx.state,
         t.unknown = tx.unknown, t.abortPromise = tx.abortPromise,
         UNCHANGED db
  PROVE  SInv'
<1>1. PICK p \in {"done", "afterAbort", "release"} : Goto(x, p)
  BY DEF AbortBody, EndBody
<1>2. /\ call'[x] = p /\ \A y \in Calls \ {x} : call'[y] = call[y]
  BY <1>1, MovesOn DEF SInv, Phases
<1>3. p \notin Commits
  BY ConstantsAssumption DEF Phases
<1>4. /\ tx'.commitPromise = tx.commitPromise /\ tx'.commit = tx.commit
      /\ tx'.unknown = tx.unknown
      /\ tx'.state = tx.state \/ (tx.state = "pending" /\ tx'.state = "aborted")
      /\ tx'.abortPromise = "pending"
           => tx.abortPromise = "pending" \/ (tx.state = "active" /\ ~tx.unknown)
  <2>1. tx' = t \/ (tx' = AbortBegun(t) /\ ~t.unknown)
    BY DEF AbortBody, EndBody
  <2>2. CASE tx' = t
    BY <2>2
  <2>3. CASE tx' = RolledBack(t) /\ t.state = "pending"
    BY <2>3, RolledBackIs
  <2>4. CASE tx' = AbortBegun(t) /\ ~t.unknown /\ t.state # "pending"
    <3>1. /\ tx'.commitPromise = t.commitPromise /\ tx'.commit = t.commit
          /\ tx'.unknown = t.unknown /\ tx'.state = t.state
          /\ tx'.abortPromise = "pending" => t.state = "active"
      BY <2>4 DEF AbortBegun, Handles
    <3> QED BY <2>4, <3>1
  <2> QED BY <2>1, <2>2, <2>3, <2>4 DEF AbortBegun
<1>5. tx.commitPromise # None => tx.unknown \/ tx.state = "committed"
  <2> SUFFICES ASSUME tx.commitPromise # None PROVE tx.unknown \/ tx.state = "committed"
    OBVIOUS
  <2>1. call[x] # tx.commitPromise
    BY DEF Awaited, SInv, Waiting
  <2>2. ~OnlyCurrent
    BY <2>1 DEF Awaited, OnlyCurrent
  <2>3. tx.commit \in {"sending", "backoff", "flushing", "uncertain"}
    BY DEF SInv, TypeOK, Handles
  <2> QED BY <2>2, <2>3 DEF SInv, Waiting, Phase
<1>6. Waiting'
  BY <1>2, <1>3, <1>4 DEF SInv, Waiting, OnlyCurrent, Over, Calls, TypeOK, Handles
<1>7. Phase' /\ CommitAbortSerialized'
  BY <1>4, <1>5 DEF SInv, Phase, CommitAbortSerialized
<1> QED BY <1>6, <1>7 DEF SInv

\* A commit promise is settled: who awaited it awaits one that is over.
LEMMA SettleKeeps ==
  ASSUME SInv, TypeOK', NEW t \in Handles, NEW p \in {"done", "failed"}, Settle(t, p),
         tx.commitPromise # None, ~db'.inTx,
         t.state = tx.state, t.abortPromise = tx.abortPromise, tx.state # "pending"
  PROVE  SInv'
<1>1. tx.commitPromise \in Commits /\ tx.commitPromise \in Calls
  BY DEF SInv, TypeOK, Handles, Calls
<1>2. /\ call'[tx.commitPromise] = p
      /\ \A y \in Calls \ {tx.commitPromise} : call'[y] = call[y]
  BY <1>1, MovesOn DEF Settle, SInv, Phases
<1>3. p \notin Commits
  BY ConstantsAssumption DEF Phases
<1>4. /\ tx'.commitPromise = None /\ tx'.commit = "none"
      /\ tx'.state = tx.state /\ tx'.abortPromise = tx.abortPromise
  BY DEF Settle, Handles
<1>5. Waiting'
  BY <1>1, <1>2, <1>3, <1>4 DEF SInv, Waiting, Over, Calls
<1>6. Phase' /\ CommitAbortSerialized'
  BY <1>4 DEF SInv, Phase, CommitAbortSerialized
<1> QED BY <1>5, <1>6 DEF SInv

\* A call that neither awaited a commit nor ran one moves to a phase of its own.
LEMMA MoveKeeps ==
  ASSUME SInv, TypeOK', NEW x \in Calls, NEW p \in Phases \ {"commit"}, Goto(x, p),
         call[x] # "commit", ~Over(x),
         UNCHANGED <<tx.commitPromise, tx.commit, tx.unknown, tx.state, tx.abortPromise>>,
         db'.inTx => db.inTx
  PROVE  SInv'
<1>1. call'[x] = p /\ \A y \in Calls \ {x} : call'[y] = call[y]
  BY MovesOn DEF SInv
<1>2. p \notin Commits
  BY ConstantsAssumption
<1>3. Waiting'
  BY <1>1, <1>2 DEF SInv, Waiting, OnlyCurrent, Over, Calls, TypeOK, Handles
<1>4. Phase' /\ CommitAbortSerialized'
  BY DEF SInv, Phase, CommitAbortSerialized
<1> QED BY <1>3, <1>4 DEF SInv

\* A call that finds a commit in progress joins the ones that await it.
LEMMA AwaitKeeps ==
  ASSUME SInv, TypeOK', NEW x \in Calls, tx.commitPromise # None, Goto(x, tx.commitPromise),
         call[x] = "idle",
         UNCHANGED <<tx.commitPromise, tx.commit, tx.unknown, tx.state, tx.abortPromise, db>>
  PROVE  SInv'
<1>1. tx.commitPromise \in Commits
  BY DEF SInv, TypeOK, Handles
<1>2. call'[x] = tx.commitPromise /\ \A y \in Calls \ {x} : call'[y] = call[y]
  BY <1>1, MovesOn DEF SInv
<1>3. Waiting'
  BY <1>1, <1>2 DEF SInv, Waiting, OnlyCurrent, Over, Calls
<1>4. Phase' /\ CommitAbortSerialized'
  BY DEF SInv, Phase, CommitAbortSerialized
<1> QED BY <1>3, <1>4 DEF SInv

\* Nobody has called at first.
LEMMA InitSInv == Init => SInv
  BY InitTypeOK, ConstantsAssumption
     DEF Init, SInv, Waiting, OnlyCurrent, Phase, CommitAbortSerialized, Phases

\* A step that moves no call and leaves the serialized fields alone.
LEMMA FieldsKeep ==
  ASSUME SInv, TypeOK', UNCHANGED call, db'.inTx => db.inTx,
         UNCHANGED <<tx.commitPromise, tx.commit, tx.unknown, tx.state, tx.abortPromise>>
  PROVE  SInv'
  BY DEF SInv, Waiting, OnlyCurrent, Over, Phase, CommitAbortSerialized

\* Every step keeps the calls serialized.
LEMMA NextSInv == ~MayRecommit /\ SInv /\ [Next]_vars => SInv'
<1> SUFFICES ASSUME ~MayRecommit, SInv, [Next]_vars PROVE SInv'
  OBVIOUS
<1> USE DEF SInv
<1>t. TypeOK'
  BY NextTypeOK
<1>0. CASE UNCHANGED vars
  BY <1>0, <1>t, FieldsKeep DEF vars
<1>1. CASE Start
  <2>1. /\ tx'.commitPromise = None /\ tx'.state = "active" /\ tx'.commit = "none"
        /\ tx'.abortPromise = "none" /\ tx.commitPromise = None
        /\ OnlyCurrent /\ UNCHANGED call
    BY <1>1 DEF Start, Started, Waiting, Phase, TypeOK, Handles
  <2> QED BY <1>t, <2>1 DEF Waiting, OnlyCurrent, Over, Phase, CommitAbortSerialized
<1>2. CASE DeadlinePasses
  BY <1>2, <1>t, FieldsKeep DEF DeadlinePasses, TypeOK, Handles
<1>3. CASE AbortAnswered
  <2>1. /\ tx'.commitPromise = tx.commitPromise /\ tx'.commit = tx.commit
        /\ tx'.state = "aborted" /\ tx'.abortPromise = "settled"
        /\ tx.commitPromise = None /\ UNCHANGED call
    BY <1>3 DEF AbortAnswered, RolledBack, CommitAbortSerialized, TypeOK, Handles
  <2>2. ~db'.inTx
    BY <1>3 DEF AbortAnswered, TypeOK
  <2> QED BY <1>t, <2>1, <2>2 DEF Waiting, Over, Phase, CommitAbortSerialized, TypeOK
<1>4. ASSUME NEW x \in Calls, AfterAbort(x) PROVE SInv'
  BY <1>4, <1>t, MoveKeeps DEF AfterAbort, Over, Phases
<1>5. ASSUME NEW k \in Keys, WorkStep(k) PROVE SInv'
  <2>1. UNCHANGED <<tx.commitPromise, tx.commit, tx.unknown, tx.state, tx.abortPromise, call>>
    BY <1>5 DEF WorkStep, Write, WriteDone, Landed, Record, WriteFails, Fill, LockExpires,
                TypeOK, Handles
  <2>2. db'.inTx => db.inTx
    BY <1>5 DEF WorkStep, Write, WriteDone, Landed, WriteFails, Fill, LockExpires, TypeOK
  <2> QED BY <1>t, <2>1, <2>2, FieldsKeep
<1>6. ASSUME NEW c \in Commits, CommitStep(c) PROVE SInv'
  <2>0. c \in Calls
    BY DEF Calls
  <2>1. CASE CommitJoins(c)
    BY <1>t, <2>0, <2>1, AwaitKeeps DEF CommitJoins
  <2>2. CASE CommitJoined(c)
    <3>1. call[c] # "commit" /\ ~Over(c) /\ call[call[c]] \in Phases \ {"commit"}
      BY <2>2, ConstantsAssumption DEF CommitJoined, Awaited, Over, Phases
    <3> QED BY <1>t, <2>0, <2>2, <3>1, MoveKeeps DEF CommitJoined
  <2>3. CASE CommitRefused(c)
    BY <1>t, <2>0, <2>3, MoveKeeps DEF CommitRefused, Over, Phases
  <2>4. CASE CommitTooLate(c)
    BY <1>t, <2>0, <2>4, BodyKeeps, ClosedType
       DEF CommitTooLate, MayCommit, Over, Closed, Handles, TypeOK
  <2>5. CASE CommitSends(c)
    <3>1. call'[c] = "commit" /\ \A y \in Calls \ {c} : call'[y] = call[y]
      BY <2>0, <2>5, MovesOn DEF CommitSends, Phases
    <3>2. /\ tx'.commitPromise = c /\ tx'.commit = "sending"
          /\ tx'.unknown = tx.unknown /\ tx'.state = "active"
          /\ tx'.abortPromise = "none" /\ UNCHANGED db
      BY <2>5, ClosedType DEF CommitSends, MayCommit, Committable, Closed, TypeOK, Handles
    <3>3. /\ tx.commitPromise = None /\ call[c] = "idle" /\ (db.inTx \/ tx.unknown)
      BY <2>5 DEF CommitSends, MayCommit
    <3>4. None \notin Commits /\ "commit" \notin Commits
      BY ConstantsAssumption DEF Phases
    <3>5. Waiting'
      BY <2>0, <3>1, <3>2, <3>3, <3>4 DEF Waiting, OnlyCurrent, Over, Calls, TypeOK
    <3> QED BY <1>t, <3>2, <3>4, <3>5 DEF Phase, CommitAbortSerialized
  <2> QED BY <1>6, <2>1, <2>2, <2>3, <2>4, <2>5 DEF CommitStep
<1>7. CASE CommitOnce
  <2>1. CASE ServerCommits
    BY <1>t, <2>1, FieldsKeep DEF ServerCommits, TypeOK
  <2>2. CASE CommitAnswered
    <3>1. /\ tx'.commitPromise = tx.commitPromise /\ tx'.commit = "flushing"
          /\ tx'.state = "committed" /\ tx'.abortPromise = tx.abortPromise
          /\ UNCHANGED call /\ ~db'.inTx
      BY <2>2 DEF CommitAnswered, LeftTransaction, TypeOK, Handles
    <3> QED BY <1>t, <3>1 DEF Waiting, Over, Phase, CommitAbortSerialized
  <2>3. CASE CommitUnclear \/ CommitAgain
    <3>1. /\ tx'.commitPromise = tx.commitPromise /\ tx'.commit \in {"backoff", "sending"}
          /\ tx'.commit = "backoff" => ~db'.inTx
          /\ tx'.state = tx.state /\ tx'.abortPromise = tx.abortPromise
          /\ tx'.unknown = tx.unknown /\ tx.commit \in {"backoff", "sending"}
          /\ UNCHANGED call /\ (db'.inTx => db.inTx)
      BY <2>3 DEF CommitUnclear, CommitAgain, LeftTransaction, TypeOK, Handles
    <3> QED BY <1>t, <3>1 DEF Waiting, OnlyCurrent, Over, Phase, CommitAbortSerialized
  <2>4. CASE CommitUnknown
    <3>1. /\ tx'.commitPromise = tx.commitPromise /\ tx'.commit = "uncertain"
          /\ tx'.state = tx.state /\ tx'.abortPromise = tx.abortPromise
          /\ tx'.unknown /\ tx.commit = "sending"
          /\ UNCHANGED call /\ ~db'.inTx
      BY <2>4 DEF CommitUnknown, LeftTransaction, TypeOK, Handles
    <3> QED BY <1>t, <3>1 DEF Waiting, OnlyCurrent, Over, Phase, CommitAbortSerialized, TypeOK
  <2>5. CASE CommitFails
    <3> DEFINE t == [tx EXCEPT !.unknown = FALSE]
    <3>1. /\ t \in Handles /\ t.state = tx.state /\ t.abortPromise = tx.abortPromise
          /\ Settle(t, "failed") /\ tx.commitPromise # None
      BY <2>5 DEF CommitFails, DefiniteError, TypeOK, Handles
    <3>2. ~db'.inTx
      BY <2>5 DEF CommitFails, DefiniteError, TypeOK
    <3> HIDE DEF t
    <3> QED BY <1>t, <3>1, <3>2, SettleKeeps DEF Phase
  <2>6. CASE \E k \in Keys : FlushKey(k)
    BY <1>t, <2>6, FieldsKeep DEF FlushKey, TypeOK, Handles
  <2>7. CASE FlushFails
    BY <1>t, <2>7, FieldsKeep DEF FlushFails, TypeOK, Handles
  <2>8. CASE Finish
    <3> DEFINE t == [tx EXCEPT !.intents = {}, !.locks = {}, !.timer = FALSE]
    <3>1. /\ t \in Handles /\ t.state = tx.state /\ t.abortPromise = tx.abortPromise
          /\ Settle(t, "done") /\ tx.commitPromise # None /\ UNCHANGED db
          /\ tx.commit = "flushing"
      BY <2>8 DEF Finish, TypeOK, Handles
    <3> HIDE DEF t
    <3> QED BY <1>t, <3>1, SettleKeeps DEF Phase
  <2>9. CASE ThrowUnknown
    <3>1. /\ tx \in Handles /\ Settle(tx, "failed") /\ tx.commitPromise # None
          /\ UNCHANGED db /\ tx.commit = "uncertain"
      BY <2>9 DEF ThrowUnknown, TypeOK
    <3> QED BY <1>t, <3>1, SettleKeeps DEF Phase
  <2> QED BY <1>7, <2>1, <2>2, <2>3, <2>4, <2>5, <2>6, <2>7, <2>8, <2>9 DEF CommitOnce
<1>8. ASSUME NEW x \in Aborts, AbortStep(x) PROVE SInv'
  <2>0. x \in Calls
    BY DEF Calls
  <2> DEFINE t == Closed(tx)
  <2>1. /\ t \in Handles /\ t.commitPromise = tx.commitPromise /\ t.commit = tx.commit
        /\ t.state = tx.state /\ t.unknown = tx.unknown /\ t.abortPromise = tx.abortPromise
    BY ClosedType DEF Closed, TypeOK, Handles
  <2>2. CASE AbortCall(x)
    <3>1. /\ call[x] = "idle" /\ UNCHANGED db
          /\ IF tx.commitPromise # None THEN tx' = t /\ Goto(x, tx.commitPromise)
                                        ELSE AbortBody(x, t)
      BY <2>2 DEF AbortCall, MayAbort
    <3> HIDE DEF t
    <3>2. CASE tx.commitPromise # None
      BY <1>t, <2>0, <2>1, <3>1, <3>2, AwaitKeeps
    <3>3. CASE tx.commitPromise = None
      BY <1>t, <2>0, <2>1, <3>1, <3>3, BodyKeeps DEF Over
    <3> QED BY <3>2, <3>3
  <2>3. CASE AbortResume(x)
    <3>1. call[x] # "commit" /\ ~Over(x) /\ tx \in Handles
      BY <2>3, ConstantsAssumption DEF AbortResume, Awaited, Over, Phases, TypeOK
    <3> QED BY <1>t, <2>0, <2>3, <3>1, BodyKeeps DEF AbortResume
  <2> QED BY <1>8, <2>2, <2>3 DEF AbortStep
<1>9. ASSUME NEW e \in Ends, EndStep(e) PROVE SInv'
  <2>0. e \in Calls
    BY DEF Calls
  <2>1. CASE EndCall(e)
    <3> DEFINE t == [Closed(tx) EXCEPT !.endPromise = "pending"]
    <3>1. /\ t \in Handles /\ t.commitPromise = tx.commitPromise /\ t.commit = tx.commit
          /\ t.state = tx.state /\ t.unknown = tx.unknown
          /\ t.abortPromise = tx.abortPromise
      BY ClosedType DEF Closed, TypeOK, Handles, PromiseStates
    <3>2. /\ call[e] = "idle" /\ UNCHANGED db
          /\ IF tx.commitPromise # None THEN tx' = t /\ Goto(e, tx.commitPromise)
                                        ELSE EndBody(e, t)
      BY <2>1 DEF EndCall
    <3> HIDE DEF t
    <3>3. CASE tx.commitPromise # None
      BY <1>t, <2>0, <3>1, <3>2, <3>3, AwaitKeeps
    <3>4. CASE tx.commitPromise = None
      BY <1>t, <2>0, <3>1, <3>2, <3>4, BodyKeeps DEF Over
    <3> QED BY <3>3, <3>4
  <2>2. CASE EndResume(e)
    <3>1. call[e] # "commit" /\ ~Over(e) /\ tx \in Handles
      BY <2>2, ConstantsAssumption DEF EndResume, Awaited, Over, Phases, TypeOK
    <3> QED BY <1>t, <2>0, <2>2, <3>1, BodyKeeps DEF EndResume
  <2>3. CASE EndReleases(e) \/ EndAnswered(e) \/ EndJoins(e) \/ EndJoined(e)
    <3>1. PICK p \in Phases \ {"commit"} : Goto(e, p)
      BY <2>3 DEF EndReleases, EndAnswered, EndJoins, EndJoined, Phases
    <3>2. /\ call[e] # "commit" /\ ~Over(e) /\ (db'.inTx => db.inTx)
          /\ UNCHANGED <<tx.commitPromise, tx.commit, tx.unknown, tx.state, tx.abortPromise>>
      BY <2>3 DEF EndReleases, EndAnswered, EndJoins, EndJoined, Over, TypeOK, Handles
    <3> QED BY <1>t, <2>0, <3>1, <3>2, MoveKeeps
  <2> QED BY <1>9, <2>1, <2>2, <2>3 DEF EndStep
<1> QED BY <1>0, <1>1, <1>2, <1>3, <1>4, <1>5, <1>6, <1>7, <1>8, <1>9 DEF Next

\* "Commit, abort and session end are serialized", provided that commit() is not
\* called again after it has failed for certain.
THEOREM Serialized == ~MayRecommit => (Spec => []CommitAbortSerialized)
<1> SUFFICES ASSUME ~MayRecommit PROVE Spec => []CommitAbortSerialized
  OBVIOUS
<1>1. SInv /\ [Next]_vars => SInv'
  BY NextSInv
<1>2. SInv => CommitAbortSerialized
  BY DEF SInv
<1> QED BY InitSInv, <1>1, <1>2, PTL DEF Spec

-----------------------------------------------------------------------------
(* Writes and locks.                                                       *)

\* Before start() nothing has happened, and no abort() has been called.
NotBegun == tx.state = "pending" =>
  /\ ~db.inTx /\ db.server = "none" /\ db.inflight = {} /\ db.written = {}
  /\ tx.intents = {} /\ tx.locks = {} /\ ~tx.accepting /\ tx.abortPromise = "none"
  /\ \A x \in Aborts : call[x] = "idle"

\* While writes are accepted the transaction is open and nobody has asked for its end.
Accepts == tx.accepting =>
  /\ tx.state = "active" /\ db.server = "open" /\ tx.commit = "none" /\ ~tx.unknown
  /\ tx.abortPromise = "none" /\ tx.endPromise = "none"
  /\ \A x \in Aborts : call[x] = "idle"

\* The session is in a transaction as long as the handle is active, its outcome has
\* not been open, and no rollback and no end() have gone past it.
InSession == db.inTx =>
  /\ tx.state = "active" /\ ~tx.unknown /\ tx.abortPromise # "settled"
  /\ tx.endPromise # "settled"
  /\ \A e \in Ends : call[e] \notin {"release", "closing"}

\* A rollback under way is of a transaction whose outcome is not open.
Aborting == tx.abortPromise = "pending" => tx.state = "active" /\ ~tx.unknown

\* end() runs once, and holds no lock once it has released them: its session cannot
\* record another one.
Ending ==
  /\ tx.endPromise = "none" => \A e \in Ends : call[e] = "idle"
  /\ \A e \in Ends : call[e] = "closing" => tx.locks = {}

\* Where the locks go with the state.
Unlocked ==
  /\ tx.commit \in {"sending", "backoff", "uncertain"} => tx.state = "active"
  /\ tx.state = "aborted" => tx.locks = {}
  /\ tx.state = "committed" /\ tx.commitPromise = None => tx.locks = {}
  /\ tx.endPromise = "settled" => tx.locks = {}

\* Every write that may be committed has its key among the intents, and no write is
\* in flight once a commit has begun.
Intended ==
  /\ db.inTx => db.written \subseteq tx.intents
  /\ tx.commit = "flushing" => ~tx.unknown
  /\ tx.commit # "none" \/ tx.unknown => db.inflight = {}
  /\ tx.commit \in {"sending", "backoff", "uncertain"} \/ tx.unknown
       => db.written \subseteq tx.intents

HInv == SInv /\ NotBegun /\ Accepts /\ InSession /\ Aborting /\ Ending /\ Unlocked /\ Intended

\* No lock is held at first.
LEMMA InitHInv == Init => HInv
  BY InitSInv
     DEF Init, HInv, NotBegun, Accepts, InSession, Aborting, Ending, Unlocked, Intended, Calls

\* What is left of a handle by a call that starts or resumes abort() or end().
LEMMA Left ==
  ASSUME TypeOK, NEW x \in Calls, NEW t \in Handles,
         AbortBody(x, t) \/ (x \in Ends /\ EndBody(x, t))
  PROVE  /\ tx'.commitPromise = t.commitPromise /\ tx'.commit = t.commit
         /\ tx'.unknown = t.unknown /\ tx'.accepting = t.accepting
         /\ tx'.endPromise = t.endPromise /\ tx'.left = t.left
         /\ tx'.state = t.state \/ (t.state = "pending" /\ tx'.state = "aborted")
         /\ tx'.state = t.state => tx'.intents = t.intents /\ tx'.locks = t.locks
         /\ tx'.state # t.state => tx'.intents = {} /\ tx'.locks = {}
         /\ tx'.state = "pending" => x \in Ends \/ t.abortPromise # "none" \/ t.unknown
         /\ \/ tx'.abortPromise = t.abortPromise
            \/ tx'.abortPromise = "pending" /\ t.state = "active" /\ ~t.unknown
            \/ tx'.abortPromise = "settled" /\ tx'.state \in {"committed", "aborted"}
         /\ \E p \in {"done", "afterAbort", "release"} :
              /\ call'[x] = p /\ \A y \in Calls \ {x} : call'[y] = call[y]
              /\ p = "release" => x \in Ends /\ (t.state # "active" \/ t.unknown)
<1>1. CASE AbortBody(x, t)
  <2>1. PICK p \in {"done", "afterAbort"} : Goto(x, p)
    BY <1>1 DEF AbortBody
  <2>2. call'[x] = p /\ \A y \in Calls \ {x} : call'[y] = call[y]
    BY <2>1, MovesOn DEF Phases
  <2> QED BY <1>1, <2>2 DEF AbortBody, AbortBegun, RolledBack, Handles
<1>2. CASE x \in Ends /\ EndBody(x, t)
  <2>1. PICK p \in {"afterAbort", "release"} :
          Goto(x, p) /\ (p = "release" => t.state # "active" \/ t.unknown)
    BY <1>2 DEF EndBody
  <2>2. call'[x] = p /\ \A y \in Calls \ {x} : call'[y] = call[y]
    BY <2>1, MovesOn DEF Phases
  <2> QED BY <1>2, <2>1, <2>2 DEF EndBody, AbortBegun, RolledBack, Handles
<1> QED BY <1>1, <1>2

\* The synchronous part of abort() and end() takes and gives back no lock.
LEMMA BodyKeepsLocks ==
  ASSUME HInv, SInv', NEW x \in Calls, NEW t \in Handles,
         AbortBody(x, t) \/ (x \in Ends /\ EndBody(x, t)), UNCHANGED db,
         t.commitPromise = tx.commitPromise, t.commit = tx.commit, t.state = tx.state,
         t.unknown = tx.unknown, t.abortPromise = tx.abortPromise, t.intents = tx.intents,
         t.locks = tx.locks, ~t.accepting,
         t.endPromise = tx.endPromise \/ (t.endPromise = "pending" /\ x \in Ends),
         x \in Ends => t.endPromise # "none" /\ call[x] # "closing"
  PROVE HInv'
<1> USE DEF HInv, SInv
<1>1. PICK p \in {"done", "afterAbort", "release"} :
        /\ call'[x] = p /\ \A y \in Calls \ {x} : call'[y] = call[y]
        /\ p = "release" => x \in Ends /\ (t.state # "active" \/ t.unknown)
  BY Left
<1>2. Aborts \cap Ends = {} /\ Aborts \subseteq Calls /\ Ends \subseteq Calls
  BY ConstantsAssumption DEF Calls
<1>3. NotBegun'
  <2> SUFFICES ASSUME tx'.state = "pending" PROVE NotBegun'
    BY DEF NotBegun
  <2>1. tx.state = "pending" /\ tx.abortPromise = "none" /\ ~tx.unknown /\ x \in Ends
    BY Left DEF NotBegun, Phase
  <2>2. /\ tx'.intents = tx.intents /\ tx'.locks = tx.locks /\ ~tx'.accepting
        /\ tx'.abortPromise = "none"
    BY <2>1, Left
  <2> QED BY <1>1, <1>2, <2>1, <2>2 DEF NotBegun
<1>4. Accepts'
  BY Left DEF Accepts
<1>5. InSession'
  BY <1>1, <1>2, Left DEF InSession, TypeOK, Handles
<1>a. Aborting'
  BY Left DEF Aborting
<1>6. Ending'
  <2>1. tx'.endPromise = "none" => tx.endPromise = "none" /\ x \notin Ends
    BY Left
  <2>2. tx.locks = {} => tx'.locks = {}
    BY Left
  <2> QED BY <1>1, <1>2, <2>1, <2>2 DEF Ending
<1>7. Unlocked'
  BY Left DEF Unlocked, Handles, TypeOK
<1>8. Intended'
  BY Left DEF Intended, Phase, InSession, Handles, TypeOK
<1> QED BY <1>3, <1>4, <1>5, <1>6, <1>7, <1>8, <1>a

\* A step that neither begins nor ends anything: at most locks expire, writes fail
\* and calls of commit() move.
LEMMA QuietKeepsLocks ==
  ASSUME HInv, SInv',
         UNCHANGED <<tx.state, tx.accepting, tx.commit, tx.commitPromise, tx.unknown,
                     tx.abortPromise, tx.endPromise, tx.intents>>,
         tx'.locks \subseteq tx.locks,
         UNCHANGED <<db.server, db.inTx, db.written>>, db'.inflight \subseteq db.inflight,
         \A y \in Aborts \cup Ends : call'[y] = call[y]
  PROVE HInv'
  BY DEF HInv, SInv, NotBegun, Accepts, InSession, Aborting, Ending, Unlocked, Intended

\* A call that finds a commit in progress awaits it.
LEMMA JoinKeepsLocks ==
  ASSUME HInv, SInv', NEW x \in Aborts \cup Ends, NEW t \in Handles, tx' = t, UNCHANGED db,
         tx.commitPromise # None, Goto(x, tx.commitPromise), call[x] = "idle",
         t.commitPromise = tx.commitPromise, t.commit = tx.commit, t.state = tx.state,
         t.unknown = tx.unknown, t.abortPromise = tx.abortPromise, t.intents = tx.intents,
         t.locks = tx.locks, ~t.accepting,
         IF x \in Ends THEN t.endPromise = "pending" ELSE t.endPromise = tx.endPromise
  PROVE HInv'
<1>1. tx.commitPromise \in Commits /\ x \in Calls /\ TypeOK
  BY DEF HInv, SInv, TypeOK, Handles, Calls
<1>2. /\ call'[x] \in Commits /\ \A y \in Calls \ {x} : call'[y] = call[y]
  BY <1>1, MovesOn
<1>3. /\ tx.state # "pending"
      /\ Aborts \cap Ends = {} /\ Aborts \subseteq Calls /\ Ends \subseteq Calls
      /\ Commits \cap Phases = {}
  BY ConstantsAssumption DEF HInv, SInv, Phase, Calls
<1> QED BY <1>1, <1>2, <1>3
        DEF HInv, NotBegun, Accepts, InSession, Aborting, Ending, Unlocked, Intended, Phases

\* Every step keeps the locks accounted for.
LEMMA NextHInv == ~MayRecommit /\ HInv /\ [Next]_vars => HInv'
<1> SUFFICES ASSUME ~MayRecommit, HInv, [Next]_vars PROVE HInv'
  OBVIOUS
<1> USE DEF HInv
<1>s. SInv'
  BY NextSInv
<1>t. TypeOK /\ TypeOK' /\ DOMAIN call = Calls
  BY <1>s DEF SInv, TypeOK
<1>c. Aborts \cap Ends = {} /\ Aborts \subseteq Calls /\ Ends \subseteq Calls
      /\ Commits \subseteq Calls /\ Commits \cap (Aborts \cup Ends) = {}
      /\ Commits \cap Phases = {} /\ None \notin Commits
  BY ConstantsAssumption DEF Calls
<1>0. CASE UNCHANGED vars
  BY <1>0, <1>s, QuietKeepsLocks DEF vars
<1>1. CASE Start
  <2>1. /\ tx'.state = "active" /\ tx'.commit = "none" /\ ~tx'.unknown
        /\ tx'.abortPromise = "none" /\ tx'.endPromise = "none" /\ tx.endPromise = "none"
        /\ tx'.commitPromise = None /\ tx.commit = "none"
        /\ tx'.intents = {} /\ tx'.locks = {} /\ tx.state = "pending"
    BY <1>1, <1>t DEF Start, Started, SInv, Phase, NotBegun, TypeOK, Handles
  <2>2. /\ db'.server = "open" /\ db'.inflight = {} /\ db'.written = {} /\ UNCHANGED call
    BY <1>1, <1>t, <2>1 DEF Start, Started, NotBegun, TypeOK
  <2> QED BY <1>s, <2>1, <2>2 DEF NotBegun, Accepts, InSession, Aborting, Ending, Unlocked, Intended
<1>2. CASE DeadlinePasses
  BY <1>2, <1>s, <1>t, QuietKeepsLocks DEF DeadlinePasses, TypeOK, Handles
<1>3. CASE AbortAnswered
  <2>1. /\ tx'.state = "aborted" /\ tx'.locks = {} /\ tx'.commit = "none"
        /\ tx'.commitPromise = None /\ tx'.unknown = tx.unknown /\ tx'.accepting = tx.accepting
        /\ tx'.endPromise = tx.endPromise /\ UNCHANGED call /\ tx.abortPromise = "pending"
        /\ tx'.abortPromise = "settled"
    <3>1. tx \in Handles /\ tx' = RolledBack(tx) /\ UNCHANGED call /\ tx.abortPromise = "pending"
      BY <1>3, <1>t DEF AbortAnswered, TypeOK
    <3>2. tx.commit = "none" /\ tx.commitPromise = None
      BY <1>t, <3>1 DEF SInv, CommitAbortSerialized, TypeOK
    <3> QED BY <3>1, <3>2, RolledBackIs
  <2>2. ~db'.inTx
    BY <1>3, <1>t DEF AbortAnswered, TypeOK
  <2> QED BY <1>s, <2>1, <2>2 DEF NotBegun, Accepts, InSession, Aborting, Ending, Unlocked, Intended
<1>4. ASSUME NEW x \in Calls, AfterAbort(x) PROVE HInv'
  <2>1. PICK p \in {"failed", "done", "release"} : Goto(x, p) /\ (p = "release" => x \in Ends)
    BY <1>4, <1>c DEF AfterAbort, Calls
  <2>2. /\ call'[x] = p /\ \A y \in Calls \ {x} : call'[y] = call[y]
        /\ UNCHANGED <<tx, db>> /\ tx.abortPromise = "settled" /\ call[x] = "afterAbort"
    BY <1>4, <1>t, <2>1, MovesOn DEF AfterAbort, Phases
  <2> QED BY <1>s, <1>c, <2>1, <2>2
          DEF NotBegun, Accepts, InSession, Aborting, Ending, Unlocked, Intended
<1>5. ASSUME NEW k \in Keys, WorkStep(k) PROVE HInv'
  <2>1. CASE Write(k)
    <3>1. UNCHANGED <<db.server, db.inTx, db.written>> /\ UNCHANGED <<tx, call>> /\ tx.accepting
      BY <2>1, <1>t DEF Write, TypeOK
    <3> QED BY <1>s, <3>1 DEF NotBegun, Accepts, InSession, Aborting, Ending, Unlocked, Intended
  <2>2. CASE WriteDone(k)
    <3>1. /\ UNCHANGED <<db.server, db.inTx>> /\ db'.written = db.written \cup {k}
          /\ db.inflight # {} /\ UNCHANGED call /\ db'.inflight \subseteq db.inflight
      BY <2>2, <1>t DEF WriteDone, Landed, TypeOK
    <3>2. CASE db.inTx
      <4>1. /\ tx'.intents = tx.intents \cup {k}
            /\ UNCHANGED <<tx.state, tx.accepting, tx.commit, tx.commitPromise, tx.unknown,
                           tx.abortPromise, tx.endPromise>>
        <5>1. Record(k)
          BY <2>2, <3>2 DEF WriteDone
        <5> QED BY <5>1, <1>t DEF Record, TypeOK, Handles
      <4> QED BY <1>s, <3>1, <3>2, <4>1
              DEF NotBegun, Accepts, InSession, Aborting, Ending, Unlocked, Intended
    <3>3. CASE ~db.inTx
      <4>1. UNCHANGED tx
        BY <2>2, <3>3 DEF WriteDone
      <4> QED BY <1>s, <3>1, <3>3, <4>1
              DEF NotBegun, Accepts, InSession, Aborting, Ending, Unlocked, Intended
    <3> QED BY <3>2, <3>3
  <2>3. CASE WriteFails(k)
    BY <2>3, <1>s, <1>t, QuietKeepsLocks DEF WriteFails, TypeOK
  <2>4. CASE Fill(k)
    BY <2>4, <1>s, QuietKeepsLocks DEF Fill
  <2>5. CASE LockExpires(k)
    BY <2>5, <1>s, <1>t, QuietKeepsLocks DEF LockExpires, TypeOK, Handles
  <2> QED BY <1>5, <2>1, <2>2, <2>3, <2>4, <2>5 DEF WorkStep
<1>6. ASSUME NEW c \in Commits, CommitStep(c) PROVE HInv'
  <2>0. c \in Calls /\ \A p : Goto(c, p) => \A y \in Aborts \cup Ends : call'[y] = call[y]
    BY <1>c, <1>t DEF Goto
  <2>1. CASE CommitJoins(c) \/ CommitJoined(c) \/ CommitRefused(c)
    BY <2>0, <2>1, <1>s, QuietKeepsLocks DEF CommitJoins, CommitJoined, CommitRefused
  <2>2. CASE CommitTooLate(c)
    <3> DEFINE t == Closed(tx)
    <3>1. /\ t \in Handles /\ t.commitPromise = tx.commitPromise /\ t.commit = tx.commit
          /\ t.state = tx.state /\ t.unknown = tx.unknown /\ t.abortPromise = tx.abortPromise
          /\ t.intents = tx.intents /\ t.locks = tx.locks /\ ~t.accepting
          /\ t.endPromise = tx.endPromise
      BY <1>t DEF Closed, TypeOK, Handles
    <3>2. AbortBody(c, t) /\ UNCHANGED db
      BY <2>2 DEF CommitTooLate
    <3> HIDE DEF t
    <3> QED BY <1>s, <1>c, <2>0, <3>1, <3>2, BodyKeepsLocks
  <2>3. CASE CommitSends(c)
    <3>1. /\ tx'.commit = "sending" /\ tx'.commitPromise = c /\ ~tx'.accepting
          /\ UNCHANGED <<tx.state, tx.unknown, tx.abortPromise, tx.endPromise, tx.intents,
                         tx.locks>>
      BY <2>3, <1>t DEF CommitSends, Closed, TypeOK, Handles
    <3>2. /\ tx.state = "active" /\ tx.abortPromise = "none" /\ tx.endPromise = "none"
          /\ db.inflight = {} /\ (db.inTx \/ tx.unknown) /\ UNCHANGED db
      BY <2>3 DEF CommitSends, MayCommit, Committable
    <3>3. \A y \in Aborts \cup Ends : call'[y] = call[y]
      BY <2>0, <2>3 DEF CommitSends
    <3> QED BY <1>s, <1>c, <3>1, <3>2, <3>3
            DEF NotBegun, Accepts, InSession, Aborting, Ending, Unlocked, Intended
  <2> QED BY <1>6, <2>1, <2>2, <2>3 DEF CommitStep
<1>7. CASE CommitOnce
  <2>1. CASE ServerCommits
    BY <2>1, <1>s, <1>t
       DEF ServerCommits, TypeOK, SInv, Phase, NotBegun, Accepts, InSession, Aborting, Ending,
           Unlocked, Intended
  <2>2. CASE CommitAnswered
    <3>1. /\ tx'.commit = "flushing" /\ tx'.state = "committed" /\ ~tx'.unknown /\ ~db'.inTx
          /\ UNCHANGED <<tx.accepting, tx.commitPromise, tx.abortPromise, tx.endPromise,
                         tx.intents, tx.locks, call, db.inflight>>
          /\ tx.commit = "sending"
      BY <2>2, <1>t DEF CommitAnswered, LeftTransaction, TypeOK, Handles
    <3>2. tx'.commitPromise # None
      BY <3>1, <1>s DEF SInv, TypeOK
    <3>3. tx.abortPromise # "pending"
      BY <3>1, <3>2 DEF SInv, CommitAbortSerialized
    <3> QED BY <1>s, <3>1, <3>2, <3>3
            DEF NotBegun, Accepts, InSession, Aborting, Ending, Unlocked, Intended
  <2>3. CASE CommitUnclear \/ CommitAgain \/ CommitUnknown
    <3>1. /\ tx.commit \in {"sending", "backoff"} 
          /\ tx'.commit \in {"sending", "backoff", "uncertain"}
          /\ UNCHANGED <<tx.state, tx.accepting, tx.commitPromise, tx.abortPromise, tx.endPromise,
                         tx.intents, tx.locks, call, db.inflight, db.written, db.server>>
          /\ (db'.inTx => db.inTx /\ tx'.unknown = tx.unknown)
      <4>1. CASE CommitUnclear
        BY <4>1, <1>t DEF CommitUnclear, LeftTransaction, TypeOK, Handles
      <4>2. CASE CommitAgain
        BY <4>2, <1>t DEF CommitAgain, TypeOK, Handles
      <4>3. CASE CommitUnknown
        BY <4>3, <1>t DEF CommitUnknown, LeftTransaction, TypeOK, Handles
      <4> QED BY <2>3, <4>1, <4>2, <4>3
    <3>2. tx.abortPromise # "pending" /\ tx.commitPromise # None
      BY <3>1, <1>t DEF SInv, CommitAbortSerialized, TypeOK
    <3> QED BY <1>s, <3>1, <3>2
            DEF NotBegun, Accepts, InSession, Aborting, Ending, Unlocked, Intended
  <2>4. CASE CommitFails \/ Finish \/ ThrowUnknown
    <3>1. /\ tx.commit # "none" /\ tx'.commit = "none" /\ tx'.commitPromise = None
          /\ tx'.unknown => tx.unknown \/ tx.commit = "uncertain"
          /\ UNCHANGED <<tx.state, tx.accepting, tx.abortPromise, tx.endPromise>>
          /\ tx'.locks \subseteq tx.locks /\ (tx.state = "committed" => tx'.locks = {})
      <4>1. CASE CommitFails
        BY <4>1, <1>t DEF CommitFails, DefiniteError, Settle, TypeOK, Handles, Unlocked
      <4>2. CASE Finish
        BY <4>2, <1>t DEF Finish, Settle, TypeOK, Handles
      <4>3. CASE ThrowUnknown
        BY <4>3, <1>t DEF ThrowUnknown, Settle, TypeOK, Handles, Unlocked
      <4> QED BY <2>4, <4>1, <4>2, <4>3
    <3>2. tx.state # "pending" /\ ~tx.accepting /\ db.inflight = {}
      BY <3>1, <1>t DEF Intended, Accepts, SInv, Phase, TypeOK
    <3>3. /\ UNCHANGED <<db.inflight, db.written>> /\ ~db'.inTx
      <4>1. CASE CommitFails
        BY <4>1, <1>t DEF CommitFails, DefiniteError, TypeOK
      <4>2. CASE Finish \/ ThrowUnknown
        BY <4>2, <1>t DEF Finish, ThrowUnknown, SInv, Phase
      <4> QED BY <2>4, <4>1, <4>2
    <3>4. tx'.unknown => tx'.intents = tx.intents
      <4>1. CASE CommitFails
        BY <4>1, <1>t DEF CommitFails, Settle, TypeOK, Handles
      <4>2. CASE Finish
        BY <4>2, <1>t DEF Finish, Settle, TypeOK, Handles, Intended
      <4>3. CASE ThrowUnknown
        BY <4>3, <1>t DEF ThrowUnknown, Settle, TypeOK, Handles
      <4> QED BY <2>4, <4>1, <4>2, <4>3
    <3>5. \A y \in Aborts \cup Ends : call'[y] = call[y]
      <4>1. tx.commitPromise \in Commits
        BY <3>1, <1>t DEF TypeOK, Handles
      <4> QED BY <2>4, <4>1, <1>c, <1>t DEF CommitFails, Finish, ThrowUnknown, Settle, Goto
    <3>6. tx.abortPromise # "pending"
      BY <3>1, <1>t DEF SInv, CommitAbortSerialized, TypeOK
    <3> QED BY <1>s, <3>1, <3>2, <3>3, <3>4, <3>5, <3>6
            DEF NotBegun, Accepts, InSession, Aborting, Ending, Unlocked, Intended
  <2>5. CASE FlushFails \/ \E k \in Keys : FlushKey(k)
    <3>1. /\ UNCHANGED <<tx.state, tx.accepting, tx.commit, tx.commitPromise, tx.unknown,
                         tx.abortPromise, tx.endPromise, tx.intents, tx.locks, call, db>>
      BY <2>5, <1>t DEF FlushFails, FlushKey, TypeOK, Handles
    <3> QED BY <3>1, <1>s, QuietKeepsLocks
  <2> QED BY <1>7, <2>1, <2>2, <2>3, <2>4, <2>5 DEF CommitOnce
<1>8. ASSUME NEW x \in Aborts, AbortStep(x) PROVE HInv'
  <2> DEFINE t == Closed(tx)
  <2>1. /\ t \in Handles /\ t.commitPromise = tx.commitPromise /\ t.commit = tx.commit
        /\ t.state = tx.state /\ t.unknown = tx.unknown /\ t.abortPromise = tx.abortPromise
        /\ t.intents = tx.intents /\ t.locks = tx.locks /\ ~t.accepting
        /\ t.endPromise = tx.endPromise
    BY <1>t DEF Closed, TypeOK, Handles
  <2>2. CASE AbortCall(x)
    <3>1. /\ call[x] = "idle" /\ UNCHANGED db
          /\ IF tx.commitPromise # None THEN tx' = t /\ Goto(x, tx.commitPromise)
                                        ELSE AbortBody(x, t)
      BY <2>2 DEF AbortCall, MayAbort
    <3> HIDE DEF t
    <3>2. CASE tx.commitPromise # None
      BY <1>s, <1>c, <1>t, <2>1, <3>1, <3>2, JoinKeepsLocks
    <3>3. CASE tx.commitPromise = None
      BY <1>s, <1>c, <2>1, <3>1, <3>3, BodyKeepsLocks
    <3> QED BY <3>2, <3>3
  <2>3. CASE AbortResume(x)
    <3>1. call[x] # "idle" /\ AbortBody(x, tx) /\ tx \in Handles /\ UNCHANGED db
      BY <2>3, <1>c, <1>t DEF AbortResume, Awaited, Phases, TypeOK
    <3>2. ~tx.accepting
      BY <3>1 DEF Accepts
    <3> QED BY <1>s, <1>c, <3>1, <3>2, BodyKeepsLocks
  <2> QED BY <1>8, <2>2, <2>3 DEF AbortStep
<1>9. ASSUME NEW e \in Ends, EndStep(e) PROVE HInv'
  <2>0. e \in Calls
    BY <1>c
  <2>1. CASE EndCall(e)
    <3> DEFINE t == [Closed(tx) EXCEPT !.endPromise = "pending"]
    <3>1. /\ t \in Handles /\ t.commitPromise = tx.commitPromise /\ t.commit = tx.commit
          /\ t.state = tx.state /\ t.unknown = tx.unknown /\ t.abortPromise = tx.abortPromise
          /\ t.intents = tx.intents /\ t.locks = tx.locks /\ ~t.accepting
          /\ t.endPromise = "pending"
      BY <1>t DEF Closed, TypeOK, Handles, PromiseStates
    <3>2. /\ call[e] = "idle" /\ UNCHANGED db
          /\ IF tx.commitPromise # None THEN tx' = t /\ Goto(e, tx.commitPromise)
                                        ELSE EndBody(e, t)
      BY <2>1 DEF EndCall
    <3> HIDE DEF t
    <3>3. CASE tx.commitPromise # None
      BY <1>s, <1>c, <1>t, <2>0, <3>1, <3>2, <3>3, JoinKeepsLocks
    <3>4. CASE tx.commitPromise = None
      BY <1>s, <2>0, <3>1, <3>2, <3>4, BodyKeepsLocks
    <3> QED BY <3>3, <3>4
  <2>2. CASE EndResume(e)
    <3>1. call[e] \notin {"idle", "closing"} /\ EndBody(e, tx) /\ tx \in Handles /\ UNCHANGED db
      BY <2>2, <1>c, <1>t DEF EndResume, Awaited, Phases, TypeOK
    <3>2. ~tx.accepting /\ tx.endPromise # "none"
      BY <3>1 DEF Accepts, Ending
    <3> QED BY <1>s, <2>0, <3>1, <3>2, BodyKeepsLocks
  <2>3. CASE EndReleases(e)
    <3>1. /\ tx'.locks = {} /\ UNCHANGED db /\ call[e] = "release"
          /\ UNCHANGED <<tx.state, tx.accepting, tx.commit, tx.commitPromise, tx.unknown,
                         tx.abortPromise, tx.endPromise, tx.intents>>
      BY <2>3, <1>t DEF EndReleases, TypeOK, Handles
    <3>2. call'[e] = "closing" /\ \A y \in Calls \ {e} : call'[y] = call[y]
      BY <2>3, <2>0, <1>t, MovesOn DEF EndReleases, Phases
    <3> QED BY <1>s, <1>c, <3>1, <3>2
            DEF NotBegun, Accepts, InSession, Aborting, Ending, Unlocked, Intended
  <2>4. CASE EndAnswered(e)
    <3>1. /\ tx'.endPromise = "settled" /\ call[e] = "closing"
          /\ UNCHANGED <<tx.state, tx.accepting, tx.commit, tx.commitPromise, tx.unknown,
                         tx.abortPromise, tx.locks, tx.intents>>
      BY <2>4, <1>t DEF EndAnswered, TypeOK, Handles
    <3>2. call'[e] = "done" /\ \A y \in Calls \ {e} : call'[y] = call[y]
      BY <2>4, <2>0, <1>t, MovesOn DEF EndAnswered, Phases
    <3>3. /\ ~db'.inTx /\ UNCHANGED <<db.inflight, db.written>>
          /\ (db.server # "open" => db'.server = db.server)
      BY <2>4, <1>t DEF EndAnswered, TypeOK
    <3>4. ~tx.accepting
      BY <3>1, <2>0 DEF Accepts, Ending
    <3> QED BY <1>s, <1>c, <3>1, <3>2, <3>3, <3>4
            DEF NotBegun, Accepts, InSession, Aborting, Ending, Unlocked, Intended
  <2>5. CASE EndJoins(e) \/ EndJoined(e)
    <3>1. PICK p \in {"afterEnd", "done"} : Goto(e, p)
      BY <2>5 DEF EndJoins, EndJoined
    <3>2. call'[e] = p /\ \A y \in Calls \ {e} : call'[y] = call[y]
      BY <3>1, <2>0, <1>t, MovesOn DEF Phases
    <3>3. UNCHANGED <<tx, db>> /\ tx.endPromise # "none" /\ call[e] # "closing"
      BY <2>5 DEF EndJoins, EndJoined
    <3> QED BY <1>s, <1>c, <3>1, <3>2, <3>3
            DEF NotBegun, Accepts, InSession, Aborting, Ending, Unlocked, Intended
  <2> QED BY <1>9, <2>1, <2>2, <2>3, <2>4, <2>5 DEF EndStep
<1> QED BY <1>0, <1>1, <1>2, <1>3, <1>4, <1>5, <1>6, <1>7, <1>8, <1>9 DEF Next

\* "Managed transaction writes stop being accepted as soon as commit or abort
\* begins", whatever is called again, and no lock outlives the transaction's outcome
\* or its end.
THEOREM EndsAreClean == ~MayRecommit => (Spec => []EndIsClean)
<1> SUFFICES ASSUME ~MayRecommit PROVE Spec => []EndIsClean
  OBVIOUS
<1>1. HInv /\ [Next]_vars => HInv'
  BY NextHInv
<1>2. HInv => WritesStop
  BY DEF HInv, SInv, TypeOK, Accepts, Ending, WritesStop
<1>3. HInv => LocksReleased
  BY DEF HInv, Unlocked, LocksReleased
<1>4. HInv => EndIsClean
  BY <1>2, <1>3 DEF EndIsClean
<1> QED BY InitHInv, <1>1, <1>4, PTL DEF Spec

-----------------------------------------------------------------------------
(* The outcome and the caches.                                             *)

\* A rollback begins only where the server has not committed, and a commit that is
\* over is known, or known to be unknown.
Decided ==
  /\ NoSplitOutcome
  /\ tx.abortPromise = "pending" => db.server # "committed"
  /\ db.server = "committed" /\ tx.commit = "none" => tx.unknown \/ tx.state = "committed"

\* What shows the content from before a commit is still to be deleted.
Flushed ==
  db.server = "committed" /\ ~lost =>
    \A k \in db.written : cached[k] = "old" =>
      \/ tx.commit \in {"sending", "backoff"}
      \/ tx.commit \in {"flushing", "uncertain"} /\ k \in tx.left

OInv == HInv /\ Decided /\ Flushed

\* The outcome is open at first.
LEMMA InitOInv == Init => OInv
  BY InitHInv DEF Init, OInv, Decided, Flushed, NoSplitOutcome

\* A step that leaves what the server keeps, the caches and the commit alone.
LEMMA SameOutcome ==
  ASSUME OInv, HInv',
         UNCHANGED <<tx.state, tx.commit, tx.unknown, tx.abortPromise, tx.left>>,
         UNCHANGED <<db.server, db.written, cached, lost>>
  PROVE  OInv'
  BY DEF OInv, Decided, Flushed, NoSplitOutcome

\* The synchronous part of abort() and end() decides nothing the server has decided.
LEMMA BodyKeepsOutcome ==
  ASSUME OInv, HInv', NEW x \in Calls, NEW t \in Handles,
         AbortBody(x, t) \/ (x \in Ends /\ EndBody(x, t)), UNCHANGED <<db, cached, lost>>,
         tx.commitPromise = None \/ Awaited(x),
         t.commitPromise = tx.commitPromise, t.commit = tx.commit, t.state = tx.state,
         t.unknown = tx.unknown, t.abortPromise = tx.abortPromise, t.left = tx.left
  PROVE  OInv'
<1> USE DEF OInv, HInv, SInv
<1>1. /\ tx'.commit = tx.commit /\ tx'.unknown = tx.unknown /\ tx'.left = tx.left
      /\ tx'.state = tx.state \/ (tx.state = "pending" /\ tx'.state = "aborted")
      /\ \/ tx'.abortPromise = tx.abortPromise
         \/ tx'.abortPromise = "pending" /\ tx.state = "active" /\ ~tx.unknown
         \/ tx'.abortPromise = "settled"
  BY Left
<1>2. tx'.abortPromise = "pending" => db.server # "committed"
  <2> SUFFICES ASSUME tx'.abortPromise = "pending", tx.abortPromise # "pending"
               PROVE  db.server # "committed"
    BY DEF Decided
  <2>1. tx.state = "active" /\ ~tx.unknown
    BY <1>1
  <2>2. tx'.commitPromise = None
    BY DEF CommitAbortSerialized
  <2>3. tx.commit = "none"
    BY <1>1, <2>2 DEF TypeOK
  <2> QED BY <2>1, <2>3 DEF Decided
<1>3. Decided'
  BY <1>1, <1>2 DEF Decided, NoSplitOutcome, NotBegun
<1>4. Flushed'
  BY <1>1 DEF Flushed
<1> QED BY <1>3, <1>4

\* Every step keeps what is reported in step with the server.
LEMMA NextOInv == ~MayRecommit /\ ~MayForget /\ OInv /\ [Next]_vars => OInv'
<1> SUFFICES ASSUME ~MayRecommit, ~MayForget, OInv, [Next]_vars PROVE OInv'
  OBVIOUS
<1> USE DEF OInv
<1>h. HInv'
  BY NextHInv
<1>t. TypeOK /\ TypeOK' /\ SInv
  BY <1>h DEF HInv, SInv
<1>0. CASE UNCHANGED vars
  BY <1>0, <1>h, SameOutcome DEF vars
<1>1. CASE Start
  BY <1>1, <1>h, <1>t DEF Start, Started, TypeOK, Handles, Decided, Flushed, NoSplitOutcome
<1>2. CASE DeadlinePasses
  BY <1>2, <1>h, <1>t, SameOutcome DEF DeadlinePasses, TypeOK, Handles
<1>3. CASE AbortAnswered
  <2>1. db.server # "committed" /\ db'.server # "committed"
    BY <1>3, <1>t DEF AbortAnswered, Decided, TypeOK
  <2>2. tx'.state = "aborted" /\ tx'.abortPromise = "settled"
    <3>1. tx' = RolledBack(tx)
      BY <1>3 DEF AbortAnswered
    <3> QED BY <3>1, <1>t DEF RolledBack, TypeOK, Handles
  <2> QED BY <1>h, <2>1, <2>2 DEF Decided, Flushed, NoSplitOutcome
<1>4. ASSUME NEW x \in Calls, AfterAbort(x) PROVE OInv'
  BY <1>4, <1>h, SameOutcome DEF AfterAbort
<1>5. ASSUME NEW k \in Keys, WorkStep(k) PROVE OInv'
  <2>1. CASE Write(k) \/ WriteFails(k)
    BY <2>1, <1>h, <1>t, SameOutcome DEF Write, WriteFails, TypeOK
  <2>2. CASE WriteDone(k)
    <3>1. db'.server = "open" /\ db.server = "open"
      BY <2>2, <1>t DEF WriteDone, Landed, TypeOK
    <3>2. tx'.state = tx.state
      <4>1. Record(k) \/ UNCHANGED tx
        BY <2>2 DEF WriteDone
      <4> QED BY <4>1, <1>t DEF Record, TypeOK, Handles
    <3> QED BY <1>h, <3>1, <3>2 DEF Decided, Flushed, NoSplitOutcome
  <2>3. CASE Fill(k)
    <3>1. UNCHANGED <<tx, db, lost>>
      BY <2>3 DEF Fill
    <3>2. \A j \in Keys : cached'[j] = "old" =>
             cached[j] = "old" \/ ~(db.server = "committed" /\ j \in db.written)
      BY <2>3, <1>t DEF Fill, TypeOK
    <3>3. db.written \subseteq Keys
      BY <1>t DEF TypeOK
    <3> QED BY <1>h, <3>1, <3>2, <3>3 DEF Decided, Flushed, NoSplitOutcome
  <2>4. CASE LockExpires(k)
    BY <2>4, <1>h, <1>t, SameOutcome DEF LockExpires, TypeOK, Handles
  <2> QED BY <1>5, <2>1, <2>2, <2>3, <2>4 DEF WorkStep
<1>6. ASSUME NEW c \in Commits, CommitStep(c) PROVE OInv'
  <2>1. CASE CommitJoins(c) \/ CommitJoined(c) \/ CommitRefused(c)
    BY <2>1, <1>h, SameOutcome DEF CommitJoins, CommitJoined, CommitRefused
  <2>2. CASE CommitTooLate(c)
    <3> DEFINE t == Closed(tx)
    <3>1. /\ t \in Handles /\ t.commitPromise = tx.commitPromise /\ t.commit = tx.commit
          /\ t.state = tx.state /\ t.unknown = tx.unknown /\ t.abortPromise = tx.abortPromise
          /\ t.left = tx.left
      BY <1>t DEF Closed, TypeOK, Handles
    <3>2. /\ AbortBody(c, t) /\ UNCHANGED <<db, cached, lost>>
          /\ tx.commitPromise = None /\ c \in Calls
      BY <2>2 DEF CommitTooLate, MayCommit, Calls
    <3> HIDE DEF t
    <3> QED BY <1>h, <3>1, <3>2, BodyKeepsOutcome
  <2>3. CASE CommitSends(c)
    <3>1. /\ tx'.commit = "sending" /\ UNCHANGED <<tx.state, tx.unknown, tx.abortPromise>>
          /\ UNCHANGED <<db, cached, lost>>
      BY <2>3, <1>t DEF CommitSends, Closed, TypeOK, Handles
    <3> QED BY <1>h, <3>1 DEF Decided, Flushed, NoSplitOutcome
  <2> QED BY <1>6, <2>1, <2>2, <2>3 DEF CommitStep
<1>7. CASE CommitOnce
  <2>1. CASE ServerCommits
    <3>1. /\ tx.commit = "sending" /\ UNCHANGED tx /\ db'.server = "committed"
      BY <2>1, <1>t DEF ServerCommits, TypeOK
    <3>2. tx.state = "active" /\ tx.commitPromise # None /\ tx.abortPromise # "pending"
      BY <3>1, <1>t DEF HInv, SInv, Unlocked, CommitAbortSerialized, TypeOK
    <3> QED BY <1>h, <3>1, <3>2 DEF Decided, Flushed, NoSplitOutcome
  <2>2. CASE CommitAnswered \/ CommitUnknown
    <3>1. /\ tx.commit = "sending" /\ tx'.left = tx.intents
          /\ UNCHANGED <<tx.abortPromise, tx.commitPromise, db.server, db.written, cached, lost>>
          /\ \/ tx'.commit = "flushing" /\ tx'.state = "committed" /\ db.server = "committed"
             \/ tx'.commit = "uncertain" /\ tx'.state = tx.state
      <4>1. CASE CommitAnswered
        BY <4>1, <1>t DEF CommitAnswered, LeftTransaction, TypeOK, Handles
      <4>2. CASE CommitUnknown
        BY <4>2, <1>t DEF CommitUnknown, LeftTransaction, TypeOK, Handles
      <4> QED BY <2>2, <4>1, <4>2
    <3>2. db.written \subseteq tx.intents
      BY <3>1 DEF HInv, Intended
    <3>3. tx.abortPromise # "pending"
      BY <3>1, <1>t DEF SInv, CommitAbortSerialized, TypeOK
    <3> QED BY <1>h, <3>1, <3>2, <3>3 DEF Decided, Flushed, NoSplitOutcome
  <2>3. CASE CommitUnclear \/ CommitAgain
    <3>1. /\ tx.commit \in {"sending", "backoff"} /\ tx'.commit \in {"sending", "backoff"}
          /\ UNCHANGED <<tx.state, tx.abortPromise, db.server, db.written, cached, lost>>
      <4>1. CASE CommitUnclear
        BY <4>1, <1>t DEF CommitUnclear, LeftTransaction, TypeOK, Handles
      <4>2. CASE CommitAgain
        BY <4>2, <1>t DEF CommitAgain, TypeOK, Handles
      <4> QED BY <2>3, <4>1, <4>2
    <3> QED BY <1>h, <3>1 DEF Decided, Flushed, NoSplitOutcome
  <2>4. CASE CommitFails
    <3>1. db.server # "committed" /\ db'.server # "committed"
      BY <2>4, <1>t DEF CommitFails, DefiniteError, TypeOK
    <3>2. tx'.state = tx.state /\ tx.state = "active" /\ tx'.abortPromise = tx.abortPromise
      BY <2>4, <1>t DEF CommitFails, DefiniteError, Settle, TypeOK, Handles, HInv, Unlocked
    <3> QED BY <1>h, <3>1, <3>2 DEF Decided, Flushed, NoSplitOutcome
  <2>5. CASE Finish \/ ThrowUnknown
    <3>1. /\ tx.commit \in {"flushing", "uncertain"} /\ tx.left = {} /\ tx'.commit = "none"
          /\ UNCHANGED <<tx.state, tx.unknown, tx.abortPromise, db, cached, lost>>
      <4>1. CASE Finish
        BY <4>1, <1>t DEF Finish, Settle, TypeOK, Handles
      <4>2. CASE ThrowUnknown
        BY <4>2, <1>t DEF ThrowUnknown, Settle, TypeOK, Handles
      <4> QED BY <2>5, <4>1, <4>2
    <3>2. tx.unknown \/ tx.state = "committed"
      BY <3>1, <1>t DEF SInv, Phase
    <3> QED BY <1>h, <3>1, <3>2 DEF Decided, Flushed, NoSplitOutcome
  <2>6. CASE FlushFails
    <3>1. /\ lost' /\ UNCHANGED <<tx.state, tx.commit, tx.unknown, tx.abortPromise, db>>
      BY <2>6, <1>t DEF FlushFails, TypeOK, Handles
    <3> QED BY <1>h, <3>1 DEF Decided, Flushed, NoSplitOutcome
  <2>7. ASSUME NEW k \in Keys, FlushKey(k) PROVE OInv'
    <3>1. /\ UNCHANGED <<tx.state, tx.commit, tx.unknown, tx.abortPromise, db, lost>>
          /\ tx'.left = tx.left \ {k}
      BY <2>7, <1>t DEF FlushKey, TypeOK, Handles
    <3>2. \A j \in Keys : cached'[j] = "old" => j # k /\ cached[j] = "old"
      BY <2>7, <1>t DEF FlushKey, TypeOK
    <3>3. db.written \subseteq Keys
      BY <1>t DEF TypeOK
    <3> QED BY <1>h, <3>1, <3>2, <3>3 DEF Decided, Flushed, NoSplitOutcome
  <2> QED BY <1>7, <2>1, <2>2, <2>3, <2>4, <2>5, <2>6, <2>7 DEF CommitOnce
<1>8. ASSUME NEW x \in Aborts, AbortStep(x) PROVE OInv'
  <2>0. x \in Calls
    BY DEF Calls
  <2>1. CASE AbortCall(x) /\ tx.commitPromise # None
    BY <2>1, <1>h, <1>t, SameOutcome DEF AbortCall, Closed, TypeOK, Handles
  <2>2. CASE AbortCall(x) /\ tx.commitPromise = None
    <3> DEFINE t == Closed(tx)
    <3>1. /\ t \in Handles /\ t.commitPromise = tx.commitPromise /\ t.commit = tx.commit
          /\ t.state = tx.state /\ t.unknown = tx.unknown /\ t.abortPromise = tx.abortPromise
          /\ t.left = tx.left
      BY <1>t DEF Closed, TypeOK, Handles
    <3>2. AbortBody(x, t) /\ UNCHANGED <<db, cached, lost>> /\ tx.commitPromise = None
      BY <2>2 DEF AbortCall
    <3> HIDE DEF t
    <3> QED BY <1>h, <2>0, <3>1, <3>2, BodyKeepsOutcome
  <2>3. CASE AbortResume(x)
    BY <2>0, <2>3, <1>h, <1>t, BodyKeepsOutcome, Typed DEF AbortResume
  <2> QED BY <1>8, <2>1, <2>2, <2>3 DEF AbortStep
<1>9. ASSUME NEW e \in Ends, EndStep(e) PROVE OInv'
  <2>0. e \in Calls
    BY DEF Calls
  <2>1. CASE EndCall(e)
    <3> DEFINE t == [Closed(tx) EXCEPT !.endPromise = "pending"]
    <3>1. /\ t \in Handles /\ t.commitPromise = tx.commitPromise /\ t.commit = tx.commit
          /\ t.state = tx.state /\ t.unknown = tx.unknown /\ t.abortPromise = tx.abortPromise
          /\ t.left = tx.left
      BY <1>t DEF Closed, TypeOK, Handles, PromiseStates
    <3>2. /\ UNCHANGED <<db, cached, lost>>
          /\ IF tx.commitPromise # None THEN tx' = t /\ Goto(e, tx.commitPromise)
                                        ELSE EndBody(e, t)
      BY <2>1 DEF EndCall
    <3> HIDE DEF t
    <3>3. CASE tx.commitPromise # None
      BY <1>h, <3>1, <3>2, <3>3, SameOutcome
    <3>4. CASE tx.commitPromise = None
      BY <1>h, <2>0, <3>1, <3>2, <3>4, BodyKeepsOutcome
    <3> QED BY <3>3, <3>4
  <2>2. CASE EndResume(e)
    BY <2>0, <2>2, <1>h, <1>t, BodyKeepsOutcome, Typed DEF EndResume
  <2>3. CASE EndReleases(e)
    BY <2>3, <1>h, <1>t, SameOutcome DEF EndReleases, TypeOK, Handles
  <2>4. CASE EndAnswered(e)
    <3>1. /\ UNCHANGED <<tx.state, tx.commit, tx.unknown, tx.abortPromise, tx.left, cached, lost>>
          /\ UNCHANGED db.written
          /\ (db'.server = "committed" <=> db.server = "committed")
      BY <2>4, <1>t DEF EndAnswered, TypeOK, Handles
    <3> QED BY <1>h, <3>1 DEF Decided, Flushed, NoSplitOutcome
  <2>5. CASE EndJoins(e) \/ EndJoined(e)
    BY <2>5, <1>h, SameOutcome DEF EndJoins, EndJoined
  <2> QED BY <1>9, <2>1, <2>2, <2>3, <2>4, <2>5 DEF EndStep
<1> QED BY <1>0, <1>1, <1>2, <1>3, <1>4, <1>5, <1>6, <1>7, <1>8, <1>9 DEF Next

\* Commit and abort never overlap, and what the program is shown is what the server
\* kept, provided that commit() is not called again after a definite failure and that
\* the server gives no definite error for a commit it has applied.
THEOREM OneOutcome == ~MayRecommit /\ ~MayForget => (Spec => []OutcomeIsOne)
<1> SUFFICES ASSUME ~MayRecommit, ~MayForget PROVE Spec => []OutcomeIsOne
  OBVIOUS
<1>1. OInv /\ [Next]_vars => OInv'
  BY NextOInv
<1>2. OInv => OutcomeIsOne
  BY DEF OInv, HInv, SInv, Decided, OutcomeIsOne
<1> QED BY InitOInv, <1>1, <1>2, PTL DEF Spec

\* Once a commit has been answered, even by "unknown", no cached entry shows the
\* content from before it, under the same two conditions.
THEOREM CachesFollow == ~MayRecommit /\ ~MayForget => (Spec => []NothingStaleLeft)
<1> SUFFICES ASSUME ~MayRecommit, ~MayForget PROVE Spec => []NothingStaleLeft
  OBVIOUS
<1>1. OInv /\ [Next]_vars => OInv'
  BY NextOInv
<1>2. OInv => NothingStaleLeft
  BY DEF OInv, HInv, SInv, TypeOK, Flushed, NothingStaleLeft
<1> QED BY InitOInv, <1>1, <1>2, PTL DEF Spec

=============================================================================
