----------------------------- MODULE Transaction -----------------------------
(***************************************************************************)
(* One managed transaction (capabilities/transaction/index.ts): start,     *)
(* commit, abort and end may be called by anybody, at any time, and each   *)
(* call suspends where the code awaits.  The timeout is one more caller of *)
(* abort.                                                                  *)
(*                                                                         *)
(* External: the server, which keeps the transaction's outcome, and the    *)
(* driver's session, which says whether it is in a transaction.  A commit  *)
(* request is applied while it is in flight or not at all.  The query      *)
(* cache is seen through the contract CacheCoordination implements: a      *)
(* query outside the transaction fills a key with the committed content,   *)
(* and no fill older than an invalidation outlives it.                     *)
(*                                                                         *)
(* The program is assumed to await its writes before it commits: MongoDB   *)
(* runs no two operations of one transaction at the same time.             *)
(***************************************************************************)
EXTENDS Integers

CONSTANTS Commits, Aborts, Ends,  \* calls of commit(), abort() and end()
          Timer,                  \* the abort() of the work timeout
          Keys,                   \* cache keys the writes make stale
          MayRecommit,            \* commit() is called again after it failed for certain
          MayForget,              \* a retry of an applied commit may get a definite error
          None                    \* no call

Phases == {"idle", "commit", "afterAbort", "release", "closing", "afterEnd",
           "done", "failed"}

Calls == Commits \cup Aborts \cup Ends

ASSUME ConstantsAssumption ==
  /\ Commits \cap Aborts = {} /\ Commits \cap Ends = {} /\ Aborts \cap Ends = {}
  /\ Commits \cap Phases = {} /\ None \notin Commits
  /\ Timer \in Aborts
  /\ MayRecommit \in BOOLEAN /\ MayForget \in BOOLEAN

VARIABLES tx,      \* the fields of the Transaction, and what commitOnce is doing
          call,    \* where each call is: a phase, or the commit it awaits
          db,      \* the server's outcome, session.inTransaction(), the writes
          cached,  \* cached[k]: "none", "old" or "new" content
          lost     \* a cache deletion has failed

vars == <<tx, call, db, cached, lost>>

MaxAttempts == 3

Init ==
  /\ tx = [state |-> "pending", accepting |-> FALSE,
           timer |-> FALSE, overdue |-> FALSE,
           commitPromise |-> None, abortPromise |-> "none", endPromise |-> "none",
           unknown |-> FALSE,               \* commitOutcomeUnknown
           commit |-> "none", attempt |-> 0,
           intents |-> {}, locks |-> {},    \* locks held by this id
           left |-> {}]                     \* keys the flush has still to delete
  /\ call = [x \in Calls |-> "idle"]
  /\ db = [server |-> "none", inTx |-> FALSE, inflight |-> {}, written |-> {}]
  /\ cached = [k \in Keys |-> "none"]
  /\ lost = FALSE

Goto(x, phase) == call' = [call EXCEPT ![x] = phase]

\* x awaits a commit() that has settled.
Awaited(x) == call[x] \in Commits /\ call[call[x]] \in {"done", "failed"}

-----------------------------------------------------------------------------
(* start() and the work of the transaction.                                *)

Started == /\ db' = [db EXCEPT !.server = "open", !.inTx = TRUE]
           /\ tx' = [tx EXCEPT !.state = "active", !.accepting = TRUE, !.timer = TRUE]
           /\ UNCHANGED <<call, cached, lost>>

\* Mutated form of Start: end() on a pending transaction does not stop it.
StartEnded == tx.state = "pending" /\ Started

Start == /\ tx.endPromise = "none" /\ tx.abortPromise = "none"
         /\ tx.state = "pending"
         /\ Started

\* getDuration() reaches the timeout.
DeadlinePasses ==
  /\ tx.state = "active" /\ ~tx.overdue
  /\ tx' = [tx EXCEPT !.overdue = TRUE]
  /\ UNCHANGED <<call, db, cached, lost>>

\* assertAcceptingWrites, then the driver sends the write.
Write(k) ==
  /\ tx.state = "active" /\ tx.accepting
  /\ k \notin db.inflight \cup db.written
  /\ db' = [db EXCEPT !.inflight = @ \cup {k}]
  /\ UNCHANGED <<tx, call, cached, lost>>

Record(k) == tx' = [tx EXCEPT !.intents = @ \cup {k}, !.locks = @ \cup {k}]

Landed(k) ==
  /\ k \in db.inflight /\ db.server = "open"
  /\ db' = [db EXCEPT !.inflight = @ \ {k}, !.written = @ \cup {k}]
  /\ UNCHANGED <<call, cached, lost>>

\* Mutated form of WriteDone: the session is not asked whether it is in a
\* transaction.
WriteDoneAlways(k) == Landed(k) /\ Record(k)

\* The server has done the write: recordCacheInvalidation, which also locks,
\* unless the session has left its transaction meanwhile.
WriteDone(k) == Landed(k) /\ IF db.inTx THEN Record(k) ELSE UNCHANGED tx

WriteFails(k) ==
  /\ k \in db.inflight
  /\ db' = [db EXCEPT !.inflight = @ \ {k}]
  /\ UNCHANGED <<tx, call, cached, lost>>

\* A query outside the transaction misses and fills the key.
Fill(k) ==
  /\ cached[k] = "none"
  /\ cached' = [cached EXCEPT ![k] =
                  IF db.server = "committed" /\ k \in db.written THEN "new" ELSE "old"]
  /\ UNCHANGED <<tx, call, db, lost>>

\* CacheLockManager.cleanupExpiredLocks.
LockExpires(k) ==
  /\ k \in tx.locks
  /\ tx' = [tx EXCEPT !.locks = @ \ {k}]
  /\ UNCHANGED <<call, db, cached, lost>>

-----------------------------------------------------------------------------
(* abort(), from its check of commitOutcomeUnknown on, on a handle t.      *)

RolledBack(t) == [t EXCEPT !.state = "aborted", !.timer = FALSE,
                           !.intents = {}, !.locks = {}, !.abortPromise = "settled"]

\* abortOnce, up to its first await.
AbortBegun(t) ==
  CASE t.state = "active"  -> [t EXCEPT !.abortPromise = "pending"]
    [] t.state = "pending" -> RolledBack(t)
    [] OTHER               -> [t EXCEPT !.abortPromise = "settled"]

AbortBody(x, t) ==
  IF t.unknown THEN tx' = t /\ Goto(x, "done")
  ELSE /\ tx' = IF t.abortPromise = "none" THEN AbortBegun(t) ELSE t
       /\ Goto(x, "afterAbort")

Closed(t) == [t EXCEPT !.accepting = FALSE]

\* The timer's callback looks at the state before it calls abort().
MayAbort(x) == call[x] = "idle" /\ (x = Timer => tx.timer /\ tx.overdue /\ tx.state = "active")

AbortCall(x) ==
  /\ MayAbort(x)
  /\ IF tx.commitPromise # None
     THEN tx' = Closed(tx) /\ Goto(x, tx.commitPromise)
     ELSE AbortBody(x, Closed(tx))
  /\ UNCHANGED <<db, cached, lost>>

\* ... goes on once the commit it found in progress is settled, without
\* looking whether another has begun.
AbortResume(x) ==
  /\ Awaited(x)
  /\ AbortBody(x, tx)
  /\ UNCHANGED <<db, cached, lost>>

\* session.abortTransaction() succeeds, or fails and is logged: the finally.
AbortAnswered ==
  /\ tx.abortPromise = "pending"
  /\ tx' = RolledBack(tx)
  /\ db' \in {[db EXCEPT !.inTx = FALSE, !.server = s] :
                s \in IF db.server = "open" /\ db.inTx THEN {"open", "aborted"}
                                                     ELSE {db.server}}
  /\ UNCHANGED <<call, cached, lost>>

AfterAbort(x) ==
  /\ call[x] = "afterAbort" /\ tx.abortPromise = "settled"
  /\ Goto(x, IF x \in Commits THEN "failed" ELSE IF x \in Aborts THEN "done" ELSE "release")
  /\ UNCHANGED <<tx, db, cached, lost>>

-----------------------------------------------------------------------------
(* commit() and commitOnce().                                              *)

\* commit() while another is in progress returns the same promise.
CommitJoins(c) ==
  /\ call[c] = "idle" /\ tx.commitPromise # None
  /\ Goto(c, tx.commitPromise)
  /\ UNCHANGED <<tx, db, cached, lost>>

CommitJoined(c) ==
  /\ Awaited(c)
  /\ Goto(c, call[call[c]])
  /\ UNCHANGED <<tx, db, cached, lost>>

\* Mutated form of Committable: an abort in progress is not looked at.
CommittableAborting == tx.endPromise = "none" /\ tx.state = "active"

Committable == /\ tx.endPromise = "none" /\ tx.abortPromise = "none"
               /\ tx.state = "active"

CommitRefused(c) ==
  /\ call[c] = "idle" /\ tx.commitPromise = None /\ ~Committable
  /\ Goto(c, "failed")
  /\ UNCHANGED <<tx, db, cached, lost>>

\* The program awaits its writes, and after a definite failure (which has ended
\* the session's transaction) it calls commit() again or not.
MayCommit(c) ==
  /\ call[c] = "idle" /\ tx.commitPromise = None /\ Committable
  /\ db.inflight = {}
  /\ MayRecommit \/ db.inTx \/ tx.unknown

TooLate == ~tx.unknown /\ tx.overdue

\* The deadline has passed: commit() aborts instead.
CommitTooLate(c) ==
  /\ MayCommit(c) /\ TooLate
  /\ AbortBody(c, Closed(tx))
  /\ UNCHANGED <<db, cached, lost>>

CommitSends(c) ==
  /\ MayCommit(c) /\ ~TooLate
  /\ tx' = [Closed(tx) EXCEPT !.timer = FALSE, !.commitPromise = c,
                              !.commit = "sending", !.attempt = 1]
  /\ Goto(c, "commit")
  /\ UNCHANGED <<db, cached, lost>>

\* The server applies the request; its answer is still to come.
ServerCommits ==
  /\ tx.commit = "sending" /\ db.server = "open"
  /\ db' = [db EXCEPT !.server = "committed"]
  /\ UNCHANGED <<tx, call, cached, lost>>

LeftTransaction == db' = [db EXCEPT !.inTx = FALSE] /\ UNCHANGED <<cached, lost>>

CommitAnswered ==
  /\ tx.commit = "sending" /\ db.server = "committed"
  /\ tx' = [tx EXCEPT !.unknown = FALSE, !.state = "committed",
                      !.commit = "flushing", !.left = tx.intents]
  /\ LeftTransaction /\ UNCHANGED call

\* UnknownTransactionCommitResult, with attempts left: sleep and send again.
CommitUnclear ==
  /\ tx.commit = "sending" /\ tx.attempt < MaxAttempts
  /\ tx' = [tx EXCEPT !.commit = "backoff"]
  /\ LeftTransaction /\ UNCHANGED call

\* Mutated form of CommitAgain: the attempts are not counted.
CommitAgainUncounted ==
  /\ tx.commit = "backoff"
  /\ tx' = [tx EXCEPT !.commit = "sending"]
  /\ UNCHANGED <<call, db, cached, lost>>

CommitAgain ==
  /\ tx.commit = "backoff"
  /\ tx' = [tx EXCEPT !.commit = "sending", !.attempt = @ + 1]
  /\ UNCHANGED <<call, db, cached, lost>>

\* Mutated form of CommitUnknown: the caches are left alone.
CommitUnknownUnflushed ==
  /\ tx.commit = "sending" /\ tx.attempt = MaxAttempts
  /\ tx' = [tx EXCEPT !.unknown = TRUE, !.commit = "uncertain"]
  /\ LeftTransaction /\ UNCHANGED call

\* ... and with none left: the caches are invalidated before the error is thrown.
CommitUnknown ==
  /\ tx.commit = "sending" /\ tx.attempt = MaxAttempts
  /\ tx' = [tx EXCEPT !.unknown = TRUE, !.commit = "uncertain", !.left = tx.intents]
  /\ LeftTransaction /\ UNCHANGED call

\* The finally of commit(): its promise is settled and forgotten.
Settle(t, outcome) ==
  /\ tx' = [t EXCEPT !.commit = "none", !.commitPromise = None]
  /\ Goto(tx.commitPromise, outcome)
  /\ UNCHANGED <<cached, lost>>

DefiniteError ==
  /\ tx.commit = "sending"
  /\ db.server = "committed" => MayForget /\ (tx.attempt > 1 \/ tx.unknown)
  /\ db' \in {[db EXCEPT !.inTx = FALSE, !.server = s] :
                s \in IF db.server = "open" THEN {"open", "aborted"} ELSE {db.server}}

\* Any other error is final, whatever an earlier attempt reported.  The state
\* stays "active" and nothing is released.
CommitFails == DefiniteError /\ Settle([tx EXCEPT !.unknown = FALSE], "failed")

Flushing == tx.commit \in {"flushing", "uncertain"}

FlushKey(k) ==
  /\ Flushing /\ k \in tx.left
  /\ cached' = [cached EXCEPT ![k] = "none"]
  /\ tx' = [tx EXCEPT !.left = @ \ {k}]
  /\ UNCHANGED <<call, db, lost>>

\* A deletion throws: the rest is skipped, and the error only logged.
FlushFails ==
  /\ Flushing /\ tx.left # {}
  /\ tx' = [tx EXCEPT !.left = {}]
  /\ lost' = TRUE
  /\ UNCHANGED <<call, db, cached>>

\* The finally of commitOnce.  No barrier is ever set in the cache, so clearing
\* the barriers changes nothing.
Finish ==
  /\ tx.commit = "flushing" /\ tx.left = {}
  /\ Settle([tx EXCEPT !.intents = {}, !.locks = {}, !.timer = FALSE], "done")
  /\ UNCHANGED db

ThrowUnknown ==
  /\ tx.commit = "uncertain" /\ tx.left = {}
  /\ Settle(tx, "failed")
  /\ UNCHANGED db

-----------------------------------------------------------------------------
(* end() and endOnce().                                                    *)

EndBody(e, t) ==
  IF t.abortPromise = "none" /\ (t.state # "active" \/ t.unknown)
  THEN tx' = t /\ Goto(e, "release")
  ELSE /\ tx' = IF t.abortPromise = "none" THEN AbortBegun(t) ELSE t
       /\ Goto(e, "afterAbort")

EndCall(e) ==
  /\ call[e] = "idle" /\ tx.endPromise = "none"
  /\ LET t == [Closed(tx) EXCEPT !.endPromise = "pending"]
     IN IF tx.commitPromise # None THEN tx' = t /\ Goto(e, tx.commitPromise)
                                   ELSE EndBody(e, t)
  /\ UNCHANGED <<db, cached, lost>>

EndResume(e) ==
  /\ Awaited(e)
  /\ EndBody(e, tx)
  /\ UNCHANGED <<db, cached, lost>>

\* Everything is released, and session.endSession() is on its way.
EndReleases(e) ==
  /\ call[e] = "release"
  /\ tx' = [tx EXCEPT !.timer = FALSE, !.locks = {}]
  /\ Goto(e, "closing")
  /\ UNCHANGED <<db, cached, lost>>

\* The driver aborts what is still open in the session it ends.
EndAnswered(e) ==
  /\ call[e] = "closing"
  /\ tx' = [tx EXCEPT !.endPromise = "settled"]
  /\ db' = [db EXCEPT !.inTx = FALSE,
                      !.server = IF @ = "open" /\ db.inTx THEN "aborted" ELSE @]
  /\ Goto(e, "done")
  /\ UNCHANGED <<cached, lost>>

\* end() once more returns the same promise.
EndJoins(e) ==
  /\ call[e] = "idle" /\ tx.endPromise # "none"
  /\ Goto(e, "afterEnd")
  /\ UNCHANGED <<tx, db, cached, lost>>

EndJoined(e) ==
  /\ call[e] = "afterEnd" /\ tx.endPromise = "settled"
  /\ Goto(e, "done")
  /\ UNCHANGED <<tx, db, cached, lost>>

-----------------------------------------------------------------------------
WorkStep(k) == Write(k) \/ WriteDone(k) \/ WriteFails(k) \/ Fill(k) \/ LockExpires(k)

CommitStep(c) == \/ CommitJoins(c) \/ CommitJoined(c) \/ CommitRefused(c)
                 \/ CommitTooLate(c) \/ CommitSends(c)

CommitOnce == \/ ServerCommits \/ CommitAnswered \/ CommitUnclear \/ CommitAgain
              \/ CommitUnknown \/ CommitFails \/ FlushFails \/ Finish \/ ThrowUnknown
              \/ \E k \in Keys : FlushKey(k)

AbortStep(x) == AbortCall(x) \/ AbortResume(x)

EndStep(e) == \/ EndCall(e) \/ EndResume(e) \/ EndReleases(e) \/ EndAnswered(e)
              \/ EndJoins(e) \/ EndJoined(e)

Next == \/ Start \/ DeadlinePasses \/ AbortAnswered \/ CommitOnce
        \/ \E k \in Keys : WorkStep(k)
        \/ \E c \in Commits : CommitStep(c)
        \/ \E x \in Aborts : AbortStep(x)
        \/ \E e \in Ends : EndStep(e)
        \/ \E x \in Calls : AfterAbort(x)

Spec == Init /\ [][Next]_vars

\* Promises continue, and the server, the driver and the cache answer with a
\* result or an error.  Nobody has to call anything.
Fairness ==
  /\ WF_vars(AbortAnswered)
  /\ WF_vars(CommitAnswered \/ CommitUnclear \/ CommitUnknown \/ CommitFails)
  /\ WF_vars(CommitAgain)
  /\ WF_vars(FlushFails \/ Finish \/ ThrowUnknown \/ \E k \in Keys : FlushKey(k))
  /\ \A x \in Calls : WF_vars(AfterAbort(x))
  /\ \A c \in Commits : WF_vars(CommitJoined(c))
  /\ \A x \in Aborts : WF_vars(AbortResume(x))
  /\ \A e \in Ends : WF_vars(EndResume(e) \/ EndReleases(e) \/ EndAnswered(e) \/ EndJoined(e))

FairSpec == Spec /\ Fairness

-----------------------------------------------------------------------------
PromiseStates == {"none", "pending", "settled"}

Handles == [state : {"pending", "active", "committed", "aborted"}, accepting : BOOLEAN,
            timer : BOOLEAN, overdue : BOOLEAN, commitPromise : Commits \cup {None},
            abortPromise : PromiseStates, endPromise : PromiseStates, unknown : BOOLEAN,
            commit : {"none", "sending", "backoff", "flushing", "uncertain"},
            attempt : 0..MaxAttempts, intents : SUBSET Keys, locks : SUBSET Keys,
            left : SUBSET Keys]

\* Types, and: commitPromise is set exactly while commitOnce runs, which waits
\* for another attempt only while one is left.
TypeOK ==
  /\ tx \in Handles
  /\ tx.commitPromise = None <=> tx.commit = "none"
  /\ tx.commit = "backoff" => tx.attempt < MaxAttempts
  /\ call \in [Calls -> Phases \cup Commits]
  /\ db \in [server : {"none", "open", "committed", "aborted"}, inTx : BOOLEAN,
             inflight : SUBSET Keys, written : SUBSET Keys]
  /\ cached \in [Keys -> {"none", "old", "new"}]
  /\ lost \in BOOLEAN

\* "Commit, abort and session end are serialized": abortTransaction is never on
\* its way while a commit is.
CommitAbortSerialized == ~(tx.commitPromise # None /\ tx.abortPromise = "pending")

\* The state the program is shown never contradicts what the server kept.
NoSplitOutcome ==
  /\ tx.state = "aborted" => db.server # "committed"
  /\ tx.state = "committed" => db.server = "committed"

\* One outcome: commit and abort never overlap, and what the program is shown
\* is what the server kept.
OutcomeIsOne == CommitAbortSerialized /\ NoSplitOutcome

\* Once a commit that the server applied has been answered, even by "unknown",
\* no cached entry shows the content from before it, unless a deletion failed.
NothingStaleLeft ==
  db.server = "committed" /\ tx.commitPromise = None /\ ~lost
    => \A k \in db.written : cached[k] # "old"

\* Locks never outlive the transaction: neither its outcome nor its end, nor by
\* a write answered after either.
LocksReleased ==
  (\/ tx.state = "aborted"
   \/ tx.state = "committed" /\ tx.commitPromise = None
   \/ tx.endPromise = "settled") => tx.locks = {}

\* "Managed transaction writes stop being accepted as soon as commit or abort
\* begins", and no start() brings them back.
WritesStop ==
  tx.accepting => /\ db.server = "open" /\ tx.commitPromise = None
                  /\ \A x \in Aborts \cup Ends : call[x] = "idle"

\* A transaction that is over holds no lock, and takes no more writes.
EndIsClean == LocksReleased /\ WritesStop

\* Again and again no call of commit(), abort() or end() is under way: none waits
\* for ever, for another that waits for it.
EveryCallSettles == []<>(\A x \in Calls : call[x] \in {"idle", "done", "failed"})
=============================================================================
