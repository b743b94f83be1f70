-------------------------- MODULE TransactionManager --------------------------
(***************************************************************************)
(* withTransaction: attempts, each with a transaction of its own, retried  *)
(* after transient errors, with abortAll() and the timeout aborting them   *)
(* from outside.  What goes on inside one transaction is the business of   *)
(* module Transaction; here its commit and abort are single steps.         *)
(***************************************************************************)
EXTENDS Integers, FiniteSets

CONSTANTS Works,       \* the calls of withTransaction
          MaxRetries, AbortAlls

ASSUME ManagerAssumption == MaxRetries \in Nat

Attempts == 0..MaxRetries
Transactions == Works \X Attempts

VARIABLES
  calls,    \* where each call is
  attempt,  \* its attempt
  failure,  \* lastError: "none", "transient", "unknown" or "other"
  answers,  \* what the call has answered: "none", "resolved" or "rejected"
  status,   \* the state of each transaction
  fate,   \* what has become of it: "open", "committed" or "gone"
  closing,  \* the transactions that abort() or end() has been called on
  active,   \* activeTransactions
  sweeps    \* what each abortAll() still has to abort

managerVars == <<calls, attempt, failure, answers, status, fate, closing, active, sweeps>>

Now(c) == <<c, attempt[c]>>
Unknown == {t \in Transactions : attempt[t[1]] = t[2] /\ failure[t[1]] = "unknown"}
Move(c, from, to) == calls[c] = from /\ calls' = [calls EXCEPT ![c] = to]
Fails(c, from, kind) == Move(c, from, "aborting") /\ failure' = [failure EXCEPT ![c] = kind]

ManagerTypeOK ==
  /\ calls \in [Works -> {"idle", "begin", "working", "committing", "aborting", "pausing", "ending", "done"}]
  /\ attempt \in [Works -> Attempts] /\ failure \in [Works -> {"none", "transient", "unknown", "other"}]
  /\ answers \in [Works -> {"none", "resolved", "rejected"}]
  /\ status \in [Transactions -> {"none", "pending", "active", "committed", "aborted"}]
  /\ fate \in [Transactions -> {"open", "committed", "gone"}]
  /\ closing \subseteq Transactions /\ active \subseteq Transactions
  /\ sweeps \in [AbortAlls -> SUBSET Transactions]

ManagerInit ==
  /\ calls = [c \in Works |-> "idle"] /\ attempt = [c \in Works |-> 0]
  /\ failure = [c \in Works |-> "none"] /\ answers = [c \in Works |-> "none"]
  /\ status = [t \in Transactions |-> "none"] /\ fate = [t \in Transactions |-> "open"]
  /\ closing = {} /\ active = {} /\ sweeps = [a \in AbortAlls |-> {}]

-----------------------------------------------------------------------------
(* One attempt.                                                            *)

StartSession(c) ==
  /\ Move(c, "idle", "begin")
  /\ status' = [status EXCEPT ![Now(c)] = "pending"] /\ active' = active \cup {Now(c)}
  /\ UNCHANGED <<attempt, failure, answers, fate, closing, sweeps>>

\* A transaction that is being aborted or ended does not start.
Begin(c) ==
  /\ IF Now(c) \in closing
     THEN Fails(c, "begin", "other") /\ UNCHANGED status
     ELSE /\ Move(c, "begin", "working") /\ status' = [status EXCEPT ![Now(c)] = "active"]
          /\ UNCHANGED failure
  /\ UNCHANGED <<attempt, answers, fate, closing, active, sweeps>>

\* The callback commits the transaction it was given.
CallbackCommits(c) ==
  /\ calls[c] = "working" /\ status[Now(c)] = "active" /\ Now(c) \notin closing
  /\ status' = [status EXCEPT ![Now(c)] = "committed"]
  /\ fate' = [fate EXCEPT ![Now(c)] = "committed"]
  /\ UNCHANGED <<calls, attempt, failure, answers, closing, active, sweeps>>

CallbackFails(c) ==
  /\ \E kind \in {"transient", "other"} : Fails(c, "working", kind)
  /\ UNCHANGED <<attempt, answers, status, fate, closing, active, sweeps>>

\* commit() refuses a transaction that is not active any more.
CallbackReturns(c) ==
  /\ IF status[Now(c)] = "active" /\ Now(c) \notin closing
     THEN Move(c, "working", "committing") /\ UNCHANGED failure
     ELSE Fails(c, "working", "other")
  /\ UNCHANGED <<attempt, answers, status, fate, closing, active, sweeps>>

WorkCommits(c) ==
  /\ Move(c, "committing", "ending")
  /\ fate' = [fate EXCEPT ![Now(c)] = "committed"]
  /\ status' = [status EXCEPT ![Now(c)] = "committed"]
  /\ answers' = [answers EXCEPT ![c] = "resolved"]
  /\ UNCHANGED <<attempt, failure, closing, active, sweeps>>

\* It fails and is not committed, or after all attempts nobody knows.
WorkCommitFails(c) ==
  /\ \E kind \in {"transient", "unknown", "other"}, what \in {"committed", "gone"} :
       /\ kind = "unknown" \/ what = "gone"
       /\ Fails(c, "committing", kind) /\ fate' = [fate EXCEPT ![Now(c)] = what]
  /\ UNCHANGED <<attempt, answers, status, closing, active, sweeps>>

-----------------------------------------------------------------------------
(* Abortion, and the end of an attempt.                                    *)

\* abort() of a transaction: an unknown outcome is left as it is.
AbortOf(t) ==
  IF t \in Unknown THEN UNCHANGED <<status, fate, closing>>
  ELSE /\ closing' = closing \cup {t}
       /\ IF status[t] \in {"pending", "active"}
          THEN /\ status' = [status EXCEPT ![t] = "aborted"]
               /\ fate' = [fate EXCEPT ![t] = IF @ = "open" THEN "gone" ELSE @]
          ELSE UNCHANGED <<status, fate>>

\* Mutated form: an unknown commit counts as transient.
RetriesUnknown(c) == failure[c] \in {"transient", "unknown"} /\ attempt[c] < MaxRetries

Retriable(c) == failure[c] = "transient" /\ attempt[c] < MaxRetries

\* The catch clause: what is committed is not aborted, and never tried again.
Catches(c) ==
  /\ IF status[Now(c)] # "committed" /\ Retriable(c)
     THEN Move(c, "aborting", "pausing") /\ UNCHANGED answers
     ELSE Move(c, "aborting", "ending") /\ answers' = [answers EXCEPT ![c] = "rejected"]
  /\ IF status[Now(c)] = "committed" THEN UNCHANGED <<status, fate, closing>> ELSE AbortOf(Now(c))
  /\ UNCHANGED <<attempt, failure, active, sweeps>>

\* end(), after the pause if there is to be another attempt.
WorkEnds(c) ==
  /\ \/ Move(c, "ending", "done") /\ UNCHANGED <<attempt, failure>>
     \/ /\ Move(c, "pausing", "idle") /\ attempt' = [attempt EXCEPT ![c] = @ + 1]
        /\ failure' = [failure EXCEPT ![c] = "none"]
  /\ closing' = closing \cup {Now(c)} /\ active' = active \ {Now(c)}
  /\ UNCHANGED <<answers, status, fate, sweeps>>

-----------------------------------------------------------------------------
(* From outside: abort() waits for a commit that is in flight.             *)

Abortable(t) == ~(attempt[t[1]] = t[2] /\ calls[t[1]] = "committing")

TimesOut(c) ==
  /\ status[Now(c)] = "active" /\ Abortable(Now(c)) /\ AbortOf(Now(c))
  /\ UNCHANGED <<calls, attempt, failure, answers, active, sweeps>>

AbortAll(a) ==
  /\ sweeps[a] = {} /\ active # {} /\ sweeps' = [sweeps EXCEPT ![a] = active]
  /\ UNCHANGED <<calls, attempt, failure, answers, status, fate, closing, active>>

AbortsNext(a) ==
  /\ \E t \in sweeps[a] :
       /\ Abortable(t) /\ AbortOf(t)
       /\ active' = active \ {t} /\ sweeps' = [sweeps EXCEPT ![a] = @ \ {t}]
  /\ UNCHANGED <<calls, attempt, failure, answers>>

ManagerNext ==
  \/ \E c \in Works : \/ StartSession(c) \/ Begin(c) \/ CallbackCommits(c) \/ CallbackFails(c)
                       \/ CallbackReturns(c) \/ WorkCommits(c) \/ WorkCommitFails(c) \/ Catches(c)
                       \/ WorkEnds(c) \/ TimesOut(c)
  \/ \E a \in AbortAlls : AbortAll(a) \/ AbortsNext(a)

ManagerSpec == ManagerInit /\ [][ManagerNext]_managerVars

-----------------------------------------------------------------------------
(* Properties.                                                             *)

Committed(c) == {n \in Attempts : fate[<<c, n>>] = "committed"}

(* However often the work is retried, it is committed once at most, and    *)
(* exactly once if the call resolves.                                      *)
AppliedOnce == \A c \in Works :
  /\ Cardinality(Committed(c)) <= 1 /\ Committed(c) \subseteq {attempt[c]}
  /\ answers[c] = "resolved" => attempt[c] \in Committed(c)

(* A call that is over has left no transaction open and none listed as     *)
(* active, whoever aborted what in between.                                *)
NothingLeftActive == \A t \in Transactions :
  /\ t \in active => attempt[t[1]] = t[2] /\ calls[t[1]] \notin {"idle", "done"}
  /\ calls[t[1]] = "done" \/ t[2] < attempt[t[1]] => status[t] = "none" \/ fate[t] # "open"

ManagerCorrect == ManagerTypeOK /\ AppliedOnce /\ NothingLeftActive
=============================================================================
