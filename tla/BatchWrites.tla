----------------------------- MODULE BatchWrites -----------------------------
(***************************************************************************)
(* One insertBatch, updateBatch or deleteBatch call: the documents cut     *)
(* into batches, the workers that send them, requests that fail as a       *)
(* whole, in part or after they were executed, retries, the report and the *)
(* invalidation of the cached queries of the collection.                   *)
(***************************************************************************)
EXTENDS Integers, FiniteSets, FiniteSetsExt

CONSTANTS Docs,            \* the number of documents, numbered from 1
          BatchSize, RetryAttempts,
          Modes,           \* the calls: [kind, ordered, onError, concurrency, replayable]
          Poisoned,        \* the documents the server may refuse to insert
          MaxLost,         \* bounds the answers that are lost and the callbacks that throw
          LosesMany        \* whether an answer to updateMany / deleteMany may be

ASSUME BatchAssumption ==
  /\ {Docs, BatchSize} \subseteq Nat \ {0} /\ {RetryAttempts, MaxLost} \subseteq Nat
  /\ Poisoned \subseteq 1..Docs /\ LosesMany \in BOOLEAN
  /\ Modes \subseteq [kind : {"insert", "update", "delete"}, ordered : BOOLEAN,
                      onError : {"stop", "collect", "retry"}, concurrency : Nat \ {0},
                      replayable : BOOLEAN]   \* the update has only operators that may be repeated

Batches == 1..((Docs + BatchSize - 1) \div BatchSize)
BatchOf(b) == {d \in 1..Docs : (d - 1) \div BatchSize + 1 = b}

VARIABLES
  mode,       \* the call
  applied,    \* the documents the server has inserted, updated or deleted
  phase,      \* of each batch: waiting, ready, sent, answered, pause, done
  pending,    \* the documents of each batch still to be sent
  answer,     \* what the request in flight comes back with
  attempts,   \* the retries of each batch
  confirmed,  \* result.insertedIds (insert), or what the counts are made of
  count,      \* result.insertedCount, modifiedCount or deletedCount
  counted,    \* history: the documents that count stands for
  errors,     \* the batches recorded in result.errors
  fatal,      \* stopAcquiring
  outcome,    \* of the call: "none", "resolved" or "rejected"
  cached,     \* {} or {the set of documents the cached query was computed from}
  lost        \* the answers lost and the callbacks that threw so far

batchVars == <<mode, applied, phase, pending, answer, attempts, confirmed, count, counted,
               errors, fatal, outcome, cached, lost>>
\* What no request and no answer changes before it is handled.
reportVars == <<confirmed, count, counted, errors>>

Lost == [ok |-> FALSE, done |-> {}, failed |-> {}]
\* Everything is stored, but not by as many members as the write concern asks for.
Unconfirmed(docs) == [ok |-> FALSE, done |-> docs, failed |-> {}]

BatchTypeOK ==
  /\ mode \in Modes /\ applied \subseteq 1..Docs /\ confirmed \cup counted \subseteq 1..Docs
  /\ phase \in [Batches -> {"waiting", "ready", "sent", "answered", "pause", "done"}]
  /\ \A b \in Batches : pending[b] \subseteq BatchOf(b)
  /\ attempts \in [Batches -> 0..RetryAttempts] /\ count \in Nat /\ errors \subseteq Batches
  /\ fatal \in BOOLEAN /\ outcome \in {"none", "resolved", "rejected"} /\ lost \in 0..MaxLost
  /\ \A b \in Batches : answer[b].done \cup answer[b].failed \subseteq BatchOf(b)

\* Mutated form: the operators are not looked at.
AcceptedAny(m) == m \in Modes

\* An update is retried only if its operators may be repeated.
Accepted(m) == m.kind = "update" /\ m.onError = "retry" => m.replayable

\* Every call starts from a cached query: what may be left stale.
BatchInit ==
  /\ mode \in Modes /\ Accepted(mode) /\ applied = {} /\ phase = [b \in Batches |-> "waiting"]
  /\ pending = [b \in Batches |-> BatchOf(b)] /\ answer = [b \in Batches |-> Lost]
  /\ attempts = [b \in Batches |-> 0] /\ confirmed = {} /\ count = 0
  /\ counted = {} /\ errors = {}
  /\ fatal = FALSE /\ outcome = "none" /\ cached = {{}} /\ lost = 0

Phase(b, from, to) == phase[b] = from /\ phase' = [phase EXCEPT ![b] = to]
Working == {b \in Batches : phase[b] \notin {"waiting", "done"}}

-----------------------------------------------------------------------------
(* The workers and the requests.                                           *)

\* Batches are taken in order; only an unordered insert has several workers.
Workers == IF mode.kind # "insert" \/ mode.ordered THEN 1 ELSE mode.concurrency

Acquire(b) ==
  /\ ~fatal /\ Cardinality(Working) < Workers
  /\ \A c \in 1..(b - 1) : phase[c] # "waiting"
  /\ Phase(b, "waiting", "ready")
  /\ UNCHANGED <<mode, applied, pending, answer, attempts, reportVars, fatal, outcome,
                 cached, lost>>

Request(b) ==
  /\ Phase(b, "ready", "sent")
  /\ UNCHANGED <<mode, applied, pending, answer, attempts, reportVars, fatal, outcome,
                 cached, lost>>

\* What an insert of these documents stores, and what it is refused for, when
\* the server objects to bad: an ordered one ends at the first refusal.
Inserted(docs, bad) == IF mode.ordered /\ bad # {} THEN {d \in docs : d < Min(bad)}
                       ELSE docs \ bad
RefusedOf(bad) == IF mode.ordered /\ bad # {} THEN {Min(bad)} ELSE bad

\* insertMany, which objects to what an earlier attempt stored, having sent the
\* same _id; or updateMany / deleteMany of the ids, which change nothing twice.
Executes(b) == \E refused \in SUBSET Poisoned :
  LET bad == IF mode.kind = "insert" THEN pending[b] \cap (refused \cup applied) ELSE {}
      now == IF mode.kind = "insert" THEN Inserted(pending[b], bad) ELSE pending[b] \ applied
  IN /\ Phase(b, "sent", "answered")
     /\ applied' = applied \cup now
     /\ \/ /\ answer' = [answer EXCEPT ![b] = [ok |-> bad = {}, done |-> now, failed |-> RefusedOf(bad)]]
           /\ UNCHANGED lost
        \/ /\ lost < MaxLost /\ (mode.kind = "insert" \/ LosesMany)
           /\ answer' = [answer EXCEPT ![b] = Lost] /\ lost' = lost + 1
        \/ /\ lost < MaxLost /\ mode.kind = "insert" /\ bad = {}
           /\ answer' = [answer EXCEPT ![b] = Unconfirmed(now)] /\ lost' = lost + 1
     /\ UNCHANGED <<mode, pending, attempts, reportVars, fatal, outcome, cached>>

\* The request fails before anything is executed.
Unreached(b) ==
  /\ Phase(b, "sent", "answered") /\ lost < MaxLost /\ lost' = lost + 1
  /\ answer' = [answer EXCEPT ![b] = Lost]
  /\ UNCHANGED <<mode, applied, pending, attempts, reportVars, fatal, outcome, cached>>

\* updateMany or deleteMany fails after some of the documents.
FailsPartly(b) == \E now \in SUBSET (pending[b] \ applied) :
  /\ mode.kind # "insert" /\ now # pending[b] \ applied
  /\ Phase(b, "sent", "answered") /\ lost < MaxLost /\ lost' = lost + 1
  /\ applied' = applied \cup now /\ answer' = [answer EXCEPT ![b] = Lost]
  /\ UNCHANGED <<mode, pending, attempts, reportVars, fatal, outcome, cached>>

\* The cursor that hands out the ids of an update or delete fails.
CursorFails ==
  /\ mode.kind # "insert" /\ ~fatal /\ Working = {} /\ outcome = "none"
  /\ \E b \in Batches : phase[b] = "waiting"
  /\ lost < MaxLost /\ lost' = lost + 1 /\ fatal' = TRUE
  /\ UNCHANGED <<mode, applied, phase, pending, answer, attempts, reportVars, outcome, cached>>

-----------------------------------------------------------------------------
(* The answer.                                                             *)

\* An error says how many it has stored; which these are it says only where it
\* says which ones failed.
Confirms(b) ==
  /\ confirmed' = IF answer[b].ok \/ answer[b].failed # {} THEN confirmed \cup answer[b].done
                  ELSE confirmed
  /\ count' = count + Cardinality(answer[b].done) /\ counted' = counted \cup answer[b].done

Succeeds(b) ==
  /\ answer[b].ok /\ Phase(b, "answered", "done") /\ Confirms(b)
  /\ UNCHANGED <<mode, applied, pending, answer, attempts, errors, fatal, outcome, cached, lost>>

\* onProgress throws, which is then taken for a failure of the request.
ProgressThrows(b) ==
  /\ answer[b].ok /\ phase[b] = "answered" /\ Confirms(b)
  /\ lost < MaxLost /\ lost' = lost + 1 /\ answer' = [answer EXCEPT ![b] = Lost]
  /\ UNCHANGED <<mode, applied, phase, pending, attempts, errors, fatal, outcome, cached>>

MayRetry(b) == mode.onError = "retry" /\ attempts[b] < RetryAttempts

\* What is sent again: everything if the error names no document, else the
\* failed ones, and in an ordered batch all that follow the failed one.
Retried(b) == IF answer[b].failed = {} THEN pending[b]
              ELSE IF mode.ordered THEN {d \in pending[b] : d >= Min(answer[b].failed)}
              ELSE answer[b].failed

Retries(b) ==
  /\ ~answer[b].ok /\ MayRetry(b) /\ Phase(b, "answered", "pause") /\ Confirms(b)
  /\ pending' = [pending EXCEPT ![b] = Retried(b)]
  /\ attempts' = [attempts EXCEPT ![b] = @ + 1]
  /\ UNCHANGED <<mode, applied, answer, errors, fatal, outcome, cached, lost>>

Resumes(b) ==
  /\ Phase(b, "pause", "ready")
  /\ UNCHANGED <<mode, applied, pending, answer, attempts, reportVars, fatal, outcome,
                 cached, lost>>

GivesUp(b) ==
  /\ ~answer[b].ok /\ ~MayRetry(b) /\ Phase(b, "answered", "done") /\ Confirms(b)
  /\ errors' = errors \cup {b} /\ fatal' = (fatal \/ mode.onError = "stop")
  /\ UNCHANGED <<mode, applied, pending, answer, attempts, outcome, cached, lost>>

\* The transaction the batch belongs to is over, before the request or when it has
\* failed; or a callback throws while a failure is handled.
WorkerThrows(b) ==
  /\ \/ Phase(b, "ready", "done") /\ UNCHANGED reportVars
     \/ /\ ~answer[b].ok /\ Phase(b, "answered", "done") /\ Confirms(b)
        /\ \/ UNCHANGED errors
           \/ mode.kind = "insert" /\ ~MayRetry(b) /\ errors' = errors \cup {b}
  /\ fatal' = TRUE
  /\ UNCHANGED <<mode, applied, pending, answer, attempts, outcome, cached, lost>>

-----------------------------------------------------------------------------
(* The end of the call, and the readers.                                   *)

\* Mutated form: the first failure rejects the call while others work.
AllEndedOrFatal == fatal \/ \A b \in Batches : phase[b] = "done"

\* All workers have ended: those in flight when one failed go on to the end.
AllEnded == IF fatal THEN Working = {} ELSE \A b \in Batches : phase[b] = "done"

\* An insert always clears the cached queries, an update or delete if it was
\* rejected, counted a change or recorded an error.
Invalidates == mode.kind = "insert" \/ fatal \/ count > 0 \/ errors # {}

CallEnds ==
  /\ outcome = "none" /\ AllEnded
  /\ outcome' = IF fatal THEN "rejected" ELSE "resolved"
  /\ cached' = IF Invalidates THEN {} ELSE cached
  /\ UNCHANGED <<mode, applied, phase, pending, answer, attempts, reportVars, fatal, lost>>

CachedRead ==
  /\ cached = {} /\ cached' = {applied}
  /\ UNCHANGED <<mode, applied, phase, pending, answer, attempts, reportVars, fatal, outcome, lost>>

Worker(b) == \/ Request(b) \/ Executes(b) \/ Unreached(b) \/ FailsPartly(b)
             \/ Succeeds(b) \/ ProgressThrows(b) \/ Retries(b) \/ Resumes(b)
             \/ GivesUp(b) \/ WorkerThrows(b)

\* The loop is the same in the three functions; only an insert learns which
\* documents failed, and confirms those of a request that failed in part.
InsertWorker(b) == mode.kind = "insert" /\ Worker(b)
UpdateWorker(b) == mode.kind = "update" /\ Worker(b)
DeleteWorker(b) == mode.kind = "delete" /\ Worker(b)

BatchNext ==
  \/ \E b \in Batches : Acquire(b) \/ InsertWorker(b) \/ UpdateWorker(b) \/ DeleteWorker(b)
  \/ CursorFails \/ CallEnds \/ CachedRead

BatchSpec == BatchInit /\ [][BatchNext]_batchVars

-----------------------------------------------------------------------------
(* Properties.                                                             *)

(* A call that resolves has stored every document of the batches it does   *)
(* not report an error for, however often each was sent.                   *)
NothingSilentlyMissing ==
  outcome = "resolved" => \A b \in Batches \ errors : BatchOf(b) \subseteq applied

(* What the result counts is in the database and is counted once, however   *)
(* often it was sent; what it names has been counted, and if nothing went   *)
(* wrong with a request or a callback it names all of it.                   *)
ReportedIsStored ==
  /\ confirmed \subseteq counted /\ counted \subseteq applied /\ count = Cardinality(counted)
  /\ lost = 0 => confirmed = counted

(* A call that has settled sends nothing any more.                         *)
QuietWhenSettled == outcome # "none" => Working = {}

(* What an update with $inc, $push and the like is still to be sent for has *)
(* not been changed by it before, even if a request failed half-way.        *)
ChangesOnce == mode.kind = "update" /\ ~mode.replayable =>
  \A b \in Batches : phase[b] \notin {"answered", "done"} => pending[b] \cap applied = {}

BatchAccounted ==
  NothingSilentlyMissing /\ ReportedIsStored /\ QuietWhenSettled /\ ChangesOnce

(* A cached query read after the call has settled shows what the call did. *)
CacheShowsBatch == outcome # "none" => cached \subseteq {applied}

(* Neither the report nor the cache is at odds with the database.           *)
BatchReported == BatchTypeOK /\ BatchAccounted /\ CacheShowsBatch
=============================================================================
