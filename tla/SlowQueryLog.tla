----------------------------- MODULE SlowQueryLog -----------------------------
(***************************************************************************)
(* The slow-query log: the manager that accepts entries, the batch queue   *)
(* that holds them, and the storage with its own client.                   *)
(*                                                                         *)
(* close() seals the manager, waits for the calls it has accepted, drains  *)
(* the queue and closes the storage; when that fails the manager stays     *)
(* sealed until another close() succeeds, after which it may be used again.*)
(***************************************************************************)
EXTENDS Naturals, Sequences, FiniteSets

CONSTANTS Logs,       \* the entries, each saved by one call
          BatchSize, MaxBufferSize,
          LogCloses   \* bound: the calls of close()

ASSUME LogAssumption == /\ IsFiniteSet(Logs) /\ LogCloses \in Nat
                        /\ BatchSize \in Nat \ {0} /\ MaxBufferSize \in Nat \ {0}

VARIABLES
  saves,    \* the calls of save(): "accepted" until initialized, "flush" while
            \* they await the flush they started or joined
  buffer,   \* buffer
  batch,    \* payload: what the flush under way has taken
  flush,    \* flushPromise: none, registered, or with flushing = true
  logTimer, \* timer of the queue
  seal,     \* closingPromise and cleanupPending
  store,    \* the storage: its client, its initialization and collectionRef
  gone,     \* history: the entries saved, lost with their batch, or dropped
  closes    \* bound: the closes so far

logVars == <<saves, buffer, batch, flush, logTimer, seal, store, gone, closes>>

Elems(s) == {s[i] : i \in DOMAIN s}
Fates == {"saved", "lost", "dropped"}
Pending == {e \in Logs : saves[e] \in {"accepted", "flush"}}

LogTypeOK ==
  /\ saves \in [Logs -> {"new", "accepted", "flush", "done", "refused", "failed"}]
  /\ Elems(buffer) \subseteq Logs /\ Elems(batch) \subseteq Logs
  /\ Len(buffer) <= MaxBufferSize
  /\ flush \in {"none", "queued", "saving"} /\ logTimer \in BOOLEAN
  /\ seal \in {"open", "settle", "drain", "storage", "stuck"}
  /\ store \in [client : BOOLEAN, at : {"none", "client", "indexes", "ready"}]
  /\ gone \in [Fates -> SUBSET Logs] /\ closes \in 0..LogCloses

LogInit == /\ saves = [e \in Logs |-> "new"] /\ buffer = <<>> /\ batch = <<>>
           /\ flush = "none" /\ logTimer = FALSE /\ seal = "open"
           /\ store = [client |-> FALSE, at |-> "none"]
           /\ gone = [f \in Fates |-> {}] /\ closes = 0

-----------------------------------------------------------------------------
(* The manager and the storage.                                            *)

Save(e) ==
  /\ saves[e] = "new"
  /\ saves' = [saves EXCEPT ![e] = IF seal = "open" THEN "accepted" ELSE "refused"]
  /\ UNCHANGED <<buffer, batch, flush, logTimer, seal, store, gone, closes>>

\* The first accepted call initializes the storage, the others join it.
InitializeStorage ==
  /\ store.at = "none" /\ \E e \in Logs : saves[e] = "accepted"
  /\ store' = [store EXCEPT !.at = IF store.client THEN "indexes" ELSE "client"]
  /\ UNCHANGED <<saves, buffer, batch, flush, logTimer, seal, gone, closes>>

ClientOpens ==
  /\ store.at = "client" /\ store' = [client |-> TRUE, at |-> "indexes"]
  /\ UNCHANGED <<saves, buffer, batch, flush, logTimer, seal, gone, closes>>

IndexesCreated ==
  /\ store.at = "indexes" /\ store' = [store EXCEPT !.at = "ready"]
  /\ UNCHANGED <<saves, buffer, batch, flush, logTimer, seal, gone, closes>>

\* The calls that wait fail; a client that was opened is kept for the next.
InitializationFails ==
  /\ store.at \in {"client", "indexes"} /\ store' = [store EXCEPT !.at = "none"]
  /\ saves' = [e \in Logs |-> IF saves[e] = "accepted" THEN "failed" ELSE saves[e]]
  /\ UNCHANGED <<buffer, batch, flush, logTimer, seal, gone, closes>>

-----------------------------------------------------------------------------
(* The queue.                                                              *)

\* flush(): joins the flush there is, or registers one.
Flushed(buf) == IF flush = "none" /\ buf # <<>> THEN "queued" ELSE flush

\* Beyond its size the buffer drops its oldest entries.
Kept(buf) == IF Len(buf) > MaxBufferSize
             THEN SubSeq(buf, Len(buf) - MaxBufferSize + 1, Len(buf)) ELSE buf
Full(buf) == Len(buf) >= MaxBufferSize \/ Len(buf) >= BatchSize

Add(e) ==
  LET all == Append(buffer, e)
  IN /\ saves[e] = "accepted" /\ store.at = "ready"
     /\ buffer' = Kept(all)
     /\ gone' = [gone EXCEPT !["dropped"] = @ \cup (Elems(all) \ Elems(Kept(all)))]
     /\ IF Full(Kept(all))
        THEN /\ flush' = Flushed(Kept(all)) /\ UNCHANGED logTimer
             /\ saves' = [saves EXCEPT ![e] = IF flush = "saving" THEN "done" ELSE "flush"]
        ELSE /\ logTimer' = TRUE /\ UNCHANGED flush
             /\ saves' = [saves EXCEPT ![e] = "done"]
     /\ UNCHANGED <<batch, seal, store, closes>>

TimerFires ==
  /\ logTimer /\ logTimer' = FALSE /\ flush' = Flushed(buffer)
  /\ UNCHANGED <<saves, buffer, batch, seal, store, gone, closes>>

\* flushOnce() takes the whole buffer before it waits for the storage.
FlushBegins ==
  /\ flush = "queued" /\ flush' = "saving"
  /\ batch' = buffer /\ buffer' = <<>> /\ logTimer' = FALSE
  /\ UNCHANGED <<saves, seal, store, gone, closes>>

\* Mutated form: the buffer is emptied once the batch has been saved.
FlushEndsEmptying(saved) ==
  /\ flush = "saving"
  /\ gone' = [gone EXCEPT !["saved"] = @ \cup saved, !["lost"] = @ \cup (Elems(batch) \ saved)]
  /\ batch' = <<>> /\ buffer' = <<>> /\ flush' = "none" /\ logTimer' = logTimer
  /\ saves' = [e \in Logs |-> IF saves[e] = "flush" THEN "done" ELSE saves[e]]
  /\ UNCHANGED <<seal, store, closes>>

\* Mutated form: what was added meanwhile waits for the next entry.
FlushEndsIdle(saved) ==
  /\ flush = "saving" /\ saved \subseteq Elems(batch)
  /\ gone' = [gone EXCEPT !["saved"] = @ \cup saved, !["lost"] = @ \cup (Elems(batch) \ saved)]
  /\ batch' = <<>> /\ flush' = "none"
  /\ saves' = [e \in Logs |-> IF saves[e] = "flush" THEN "done" ELSE saves[e]]
  /\ UNCHANGED <<buffer, logTimer, seal, store, closes>>

\* The batch is saved or fails, then some of it may have been saved; what was
\* added meanwhile gets a flush or a timer of its own.
FlushEnds(saved) ==
  /\ flush = "saving" /\ saved \subseteq Elems(batch)
  /\ gone' = [gone EXCEPT !["saved"] = @ \cup saved, !["lost"] = @ \cup (Elems(batch) \ saved)]
  /\ batch' = <<>>
  /\ saves' = [e \in Logs |-> IF saves[e] = "flush" THEN "done" ELSE saves[e]]
  /\ flush' = IF Len(buffer) >= BatchSize THEN "queued" ELSE "none"
  /\ logTimer' = (logTimer \/ Len(buffer) \in 1..(BatchSize - 1))
  /\ UNCHANGED <<buffer, seal, store, closes>>

-----------------------------------------------------------------------------
(* close().                                                                *)

CloseLog ==
  /\ seal \in {"open", "stuck"} /\ closes < LogCloses
  /\ closes' = closes + 1 /\ seal' = "settle"
  /\ UNCHANGED <<saves, buffer, batch, flush, logTimer, store, gone>>

CallsSettled ==
  /\ seal = "settle" /\ Pending = {}
  /\ seal' = "drain" /\ logTimer' = FALSE
  /\ UNCHANGED <<saves, buffer, batch, flush, store, gone, closes>>

\* The loop of the queue's close(): flush until nothing is left.
Drain ==
  /\ seal = "drain" /\ flush = "none"
  /\ flush' = Flushed(buffer)
  /\ seal' = IF buffer = <<>> THEN "storage" ELSE seal
  /\ UNCHANGED <<saves, buffer, batch, logTimer, store, gone, closes>>

StorageCloses ==
  /\ seal = "storage" /\ seal' = "open"
  /\ store' = [client |-> FALSE, at |-> "none"]
  /\ UNCHANGED <<saves, buffer, batch, flush, logTimer, gone, closes>>

StorageCloseFails ==
  /\ seal = "storage" /\ store.client /\ seal' = "stuck"
  /\ store' = [store EXCEPT !.at = "none"]
  /\ UNCHANGED <<saves, buffer, batch, flush, logTimer, gone, closes>>

Queue == TimerFires \/ FlushBegins \/ \E saved \in SUBSET Elems(batch) : FlushEnds(saved)

LogNext == \/ \E e \in Logs : Save(e) \/ Add(e)
           \/ InitializeStorage \/ ClientOpens \/ IndexesCreated \/ InitializationFails
           \/ Queue
           \/ CloseLog \/ CallsSettled \/ Drain \/ StorageCloses \/ StorageCloseFails

\* Timers fire and the storage answers.
LogFairness == WF_logVars(Queue) /\ WF_logVars(Drain)

LogSpec == LogInit /\ [][LogNext]_logVars

-----------------------------------------------------------------------------
(* Properties.                                                             *)

(* An entry that save() has handed to the queue is in exactly one place:    *)
(* in the buffer, in the batch under way, or saved, lost with its batch or  *)
(* dropped; none slips out between an add and a flush and none is saved     *)
(* twice.                                                                   *)
EntriesAccounted ==
  LET places(e) == {p \in Fates : e \in gone[p]}
  IN \A e \in Logs :
       LET copies == Cardinality({i \in DOMAIN buffer : buffer[i] = e})
                     + Cardinality({i \in DOMAIN batch : batch[i] = e})
                     + Cardinality(places(e))
       IN copies = IF saves[e] \in {"flush", "done"} THEN 1 ELSE 0

(* While the storage is being closed, and after, nothing is left that would *)
(* write to it and so open its client again: no accepted call, no entry, no *)
(* flush and no timer.                                                      *)
ClosedIsQuiet == store.at # "ready" =>
  buffer = <<>> /\ batch = <<>> /\ flush = "none" /\ ~logTimer

(* Again and again the buffer is empty: every entry is taken out of it,     *)
(* although add() starts no timer while a flush is under way.               *)
EntriesLeave == []<>(buffer = <<>>)

(* No entry is lost between an add and a flush, or behind a close().        *)
LogAccounted == LogTypeOK /\ EntriesAccounted /\ ClosedIsQuiet
=============================================================================
