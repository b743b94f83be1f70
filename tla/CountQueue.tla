----------------------------- MODULE CountQueue -----------------------------
(***************************************************************************)
(* The concurrency gate in front of countDocuments                         *)
(* (capabilities/count-queue/index.ts).                                    *)
(*                                                                         *)
(* A call of execute() either takes a slot at once, waits in a bounded     *)
(* FIFO queue, or is refused.  A slot is never given back before the count *)
(* it was taken for has settled: a caller whose execution timer or abort   *)
(* signal fires is answered early, its count keeps the slot.  On release   *)
(* the slot is handed to the head of the queue without touching the        *)
(* counter.  The woken call only continues in a later microtask, so its    *)
(* signal may be aborted in between; it then hands the slot on.            *)
(*                                                                         *)
(* phase[r] follows one call:                                              *)
(*   idle      - not called yet                                            *)
(*   waiting   - its entry is in the queue, its wait timer runs            *)
(*   woken     - _wakeNext resolved its entry, execute() not yet resumed   *)
(*   executing - the count runs, the caller awaits the race                *)
(*   cancelled - the caller was rejected, the count still runs             *)
(*   fulfilled, rejected - the caller is answered, no count runs           *)
(* A count that throws is "fulfilled" too: only the release matters here.  *)
(***************************************************************************)
EXTENDS Naturals, Sequences, FiniteSets

CONSTANTS Requests,      \* the calls of execute()
          Concurrency,   \* the cap on running counts
          MaxQueueSize   \* the cap on queued calls

\* constructor: a positive and a non-negative integer.
ASSUME ConfigAssumption == /\ Concurrency \in Nat \ {0}
                           /\ MaxQueueSize \in Nat

VARIABLES running,   \* this.running
          queue,     \* this.queue, the calls in arrival order
          phase,     \* where each call is
          aborted    \* the calls whose options.signal is aborted

vars == <<running, queue, phase, aborted>>

Phases == {"idle", "waiting", "woken", "executing", "cancelled",
           "fulfilled", "rejected"}

Init == /\ running = 0
        /\ queue = <<>>
        /\ phase = [r \in Requests |-> "idle"]
        /\ aborted = {}

-----------------------------------------------------------------------------
Put(r, p) == phase' = [phase EXCEPT ![r] = p]

Queued == {queue[i] : i \in DOMAIN queue}

\* The guard `index !== -1` and queue.splice(index, 1).
Splice(r) ==
  \E i \in DOMAIN queue :
    /\ queue[i] = r
    /\ queue' = SubSeq(queue, 1, i - 1) \o SubSeq(queue, i + 1, Len(queue))

\* Mutated form of WakeNext: queue.pop() for queue.shift().
WakeNextLast(r, p) ==
  \/ /\ queue # <<>>
     /\ queue' = SubSeq(queue, 1, Len(queue) - 1)
     /\ phase' = [phase EXCEPT ![r] = p, ![queue[Len(queue)]] = "woken"]
     /\ UNCHANGED running
  \/ queue = <<>> /\ running' = running - 1 /\ Put(r, p) /\ UNCHANGED queue

\* _wakeNext, called by r which leaves in phase p: the slot goes to the head of
\* the queue, or the counter is decremented.
WakeNext(r, p) ==
  \/ /\ queue # <<>>
     /\ queue' = Tail(queue)
     /\ phase' = [phase EXCEPT ![r] = p, ![Head(queue)] = "woken"]
     /\ UNCHANGED running
  \/ /\ queue = <<>>
     /\ running' = running - 1
     /\ Put(r, p)
     /\ UNCHANGED queue

\* execute(), up to its first suspension.
Refuse(r) ==
  /\ phase[r] = "idle"
  /\ \/ r \in aborted
     \/ running >= Concurrency /\ Len(queue) >= MaxQueueSize
  /\ Put(r, "rejected")
  /\ UNCHANGED <<running, queue, aborted>>

Enqueue(r) ==
  /\ phase[r] = "idle" /\ r \notin aborted
  /\ running >= Concurrency /\ Len(queue) < MaxQueueSize
  /\ queue' = Append(queue, r)
  /\ Put(r, "waiting")
  /\ UNCHANGED <<running, aborted>>

Start(r) ==
  /\ phase[r] = "idle" /\ r \notin aborted
  /\ running < Concurrency
  /\ running' = running + 1
  /\ Put(r, "executing")
  /\ UNCHANGED <<queue, aborted>>

\* Mutated form of ResumeAborted: the late abort throws without handing on.
ResumeAbortedLeaky(r) ==
  /\ phase[r] = "woken" /\ r \in aborted
  /\ Put(r, "rejected")
  /\ UNCHANGED <<running, queue, aborted>>

\* execute() after `await this._waitInQueue(...)`.
ResumeAborted(r) ==
  /\ phase[r] = "woken" /\ r \in aborted
  /\ WakeNext(r, "rejected")
  /\ UNCHANGED aborted

ResumeRunning(r) ==
  /\ phase[r] = "woken" /\ r \notin aborted
  /\ Put(r, "executing")
  /\ UNCHANGED <<running, queue, aborted>>

\* The timer of _waitInQueue; _wakeNext and clear() disarm it.
WaitTimeout(r) ==
  /\ phase[r] = "waiting"
  /\ Splice(r)
  /\ Put(r, "rejected")
  /\ UNCHANGED <<running, aborted>>

\* Mutated form of ExecuteTimeout: only an aborted signal ends the race.
ExecuteTimeoutUnarmed(r) ==
  /\ phase[r] = "executing" /\ r \in aborted
  /\ Put(r, "cancelled")
  /\ UNCHANGED <<running, queue, aborted>>

\* The timer of _executeWithTimeout: the caller is answered, fn keeps running.
ExecuteTimeout(r) ==
  /\ phase[r] = "executing"
  /\ Put(r, "cancelled")
  /\ UNCHANGED <<running, queue, aborted>>

\* The caller's AbortSignal fires, wherever the call is.
Abort(r) ==
  /\ r \notin aborted
  /\ aborted' = aborted \cup {r}
  /\ \/ /\ phase[r] = "waiting"
        /\ Splice(r)
        /\ Put(r, "rejected")
     \/ /\ phase[r] = "executing"
        /\ Put(r, "cancelled")
        /\ UNCHANGED queue
     \/ /\ phase[r] \notin {"waiting", "executing"}
        /\ UNCHANGED <<queue, phase>>
  /\ UNCHANGED running

\* fn's promise settles: `taskPromise.then(release, release)`.
Settle(r) ==
  /\ \/ phase[r] = "executing" /\ WakeNext(r, "fulfilled")
     \/ phase[r] = "cancelled" /\ WakeNext(r, "rejected")
  /\ UNCHANGED aborted

\* clear(): every queued call is rejected.
Clear ==
  /\ queue # <<>>
  /\ queue' = <<>>
  /\ phase' = [r \in Requests |-> IF r \in Queued THEN "rejected" ELSE phase[r]]
  /\ UNCHANGED <<running, aborted>>

Next == \/ \E r \in Requests : \/ Refuse(r) \/ Enqueue(r) \/ Start(r)
                               \/ ResumeAborted(r) \/ ResumeRunning(r)
                               \/ WaitTimeout(r) \/ ExecuteTimeout(r)
                               \/ Abort(r) \/ Settle(r)
        \/ Clear

Spec == Init /\ [][Next]_vars

\* Timers fire and resolved promises continue; nothing forces a count to settle.
TimerFairness == \A r \in Requests : /\ WF_vars(ResumeAborted(r) \/ ResumeRunning(r))
                                     /\ WF_vars(WaitTimeout(r))
                                     /\ WF_vars(ExecuteTimeout(r))

-----------------------------------------------------------------------------
TypeOK == /\ running \in Nat
          /\ queue \in Seq(Requests)
          /\ phase \in [Requests -> Phases]
          /\ aborted \in SUBSET Requests

\* The calls that own a slot: granted ones, and every count still running,
\* the counts whose caller has given up included.
Holders == {r \in Requests : phase[r] \in {"woken", "executing", "cancelled"}}

\* The counter is exact: one unit of `running` per slot owner, whatever mix of
\* hand-overs, aborts, timeouts and clear() led here.
SlotConservation == running = Cardinality(Holders)

\* "Caps the maximum concurrency of countDocuments operations": the counts that
\* really run, abandoned ones included, never exceed the cap.
ConcurrencyCap ==
  Cardinality({r \in Requests : phase[r] \in {"executing", "cancelled"}}) <= Concurrency

\* The queue never holds a call while a slot is free, and holds each waiting
\* call exactly once: no abort, timeout or hand-over strands an entry.
QueueExact == /\ queue # <<>> => running = Concurrency
              /\ Queued = {r \in Requests : phase[r] = "waiting"}
              /\ \A i, j \in DOMAIN queue : queue[i] = queue[j] => i = j
              /\ Len(queue) <= MaxQueueSize

\* All three: no slot is lost, none is granted twice, none is free in vain.
SlotsAccounted == SlotConservation /\ ConcurrencyCap /\ QueueExact

\* A slot handed over goes to the call that has waited longest.
HandOverInOrder ==
  [][\A i, j \in DOMAIN queue :
       i < j /\ phase'[queue[j]] = "woken" => phase'[queue[i]] # "waiting"]_vars

\* Again and again no caller waits, even if no count ever settles: the wait timer
\* and the execution timer between them cover the whole call.
CallersAnswered == []<>(\A r \in Requests : phase[r] \notin {"waiting", "woken", "executing"})
=============================================================================
