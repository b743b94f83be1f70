-------------------------- MODULE ChangeStreamSync --------------------------
(***************************************************************************)
(* ChangeStreamSyncManager (capabilities/sync/index.ts) over the life of   *)
(* several processes: start() and stop() may be called by anybody and      *)
(* overlap, the stream delivers events into a queue, one handler at a time *)
(* applies an event to the targets and then stores its token; the stream,  *)
(* a target, the token store and the process may fail at any point.        *)
(*                                                                         *)
(* An event is its position in the source's log.  A stream, and the list   *)
(* of targets resolved with it, is known by the generation of its start(). *)
(* The token store is strict (the default): a save that fails stops the    *)
(* manager.  A save is atomic; one reported failed may have been done.     *)
(***************************************************************************)
EXTENDS Integers, Sequences

CONSTANTS Starts, Stops,  \* calls of start() and stop()
          Targets,        \* sync targets
          Wants,          \* Wants[t]: events that pass the target's collections filter
          MarkMode,       \* idempotency: "off", "success" or "start"
          MaxEvents, MaxCrashes,
          Nil

SyncPhases == {"idle", "settle", "closeOld", "resolve", "load", "hello", "anchor", "probe",
           "unwind", "awaitQueue", "awaitClose", "closeTargets", "done", "failed"}

\* An event being handled.
Handlers == [gen : Nat, event : 1..MaxEvents, err : BOOLEAN,
             at : {"next", "mark", "apply", "applied", "save"},
             target : Targets \cup {Nil}, todo : SUBSET Targets]

ASSUME SyncAssumption ==
  /\ Starts \cap Stops = {} /\ (Starts \cup Stops) \cap SyncPhases = {}
  /\ MaxEvents \in Nat /\ MaxCrashes \in Nat
  /\ Wants \in [Targets -> SUBSET (1..MaxEvents)]
  /\ MarkMode \in {"off", "success", "start"}
  /\ Nil \notin Int /\ Nil \notin Starts \cup Stops /\ Nil \notin Handlers

VARIABLES log, token, applied,
          marks,    \* idempotency store: pairs of a target and an event
          m,        \* fields of the manager
          call,     \* where each call is: a phase, or the call it awaits
          changeQueue,    \* changeQueue: events waiting, each with its generation
          handler,  \* the event being handled, or None
          open,     \* generations whose stream the driver holds open
          cursor,   \* cursor[g]: the last event stream g has emitted
          alive,    \* generations whose targets hold connections
          crashes

outside == <<log, token, applied, marks>>
resources == <<open, cursor, alive>>
syncVars == <<outside, m, call, changeQueue, handler, resources, crashes>>

Calls == Starts \cup Stops

Fresh == [gen |-> 0, running |-> FALSE, stopping |-> FALSE, fatal |-> FALSE,
          stream |-> Nil, closing |-> Nil,   \* changeStream, closingStreamPromise
          startP |-> Nil, stopP |-> Nil,     \* startPromise, stopPromise
          up |-> 0, from |-> 0,                \* the startup's generation and position
          targets |-> {}, staged |-> {}, cleanup |-> {}]

SyncInit ==
  /\ log = 0 /\ token = Nil /\ applied = [t \in Targets |-> {}] /\ marks = {}
  /\ m = Fresh
  /\ call = [x \in Calls |-> "idle"]
  /\ changeQueue = <<>> /\ handler = Nil
  /\ open = {} /\ cursor = [g \in {} |-> 0] /\ alive = {}
  /\ crashes = 0

Goto(x, phase) == call' = [call EXCEPT ![x] = phase]
Over(x) == call[x] \in {"done", "failed"}

\* Those who await a settled promise go on before anybody makes a new call.
Resumed == \A x \in Calls : call[x] \in Calls => ~Over(call[x])

Produce ==
  /\ log < MaxEvents
  /\ log' = log + 1
  /\ UNCHANGED <<token, applied, marks, m, call, changeQueue, handler, resources, crashes>>

-----------------------------------------------------------------------------
(* start().                                                                *)

\* What start() does after it has waited for a stop() in progress.
StartBody(s) ==
  IF m.running THEN Goto(s, "done") /\ UNCHANGED m
  ELSE IF m.startP # Nil THEN Goto(s, m.startP) /\ UNCHANGED m
  ELSE /\ m' = [m EXCEPT !.gen = @ + 1, !.up = m.gen + 1, !.startP = s]
       /\ Goto(s, "settle")

StartCall(s) ==
  /\ call[s] = "idle" /\ Resumed
  /\ IF m.stopP # Nil THEN Goto(s, m.stopP) /\ UNCHANGED m ELSE StartBody(s)
  /\ UNCHANGED <<outside, changeQueue, handler, resources, crashes>>

\* The stop() it awaited is over; a failed one fails start() too.
StartAfterStop(s) ==
  /\ call[s] \in Stops /\ Over(call[s])
  /\ IF call[call[s]] = "failed" THEN Goto(s, "failed") /\ UNCHANGED m ELSE StartBody(s)
  /\ UNCHANGED <<outside, changeQueue, handler, resources, crashes>>

StartJoined(s) ==
  /\ call[s] \in Starts /\ Over(call[s])
  /\ Goto(s, call[call[s]])
  /\ UNCHANGED <<outside, m, changeQueue, handler, resources, crashes>>

\* startPromise is settled and forgotten.
EndStartup(s, t, outcome) == m' = [t EXCEPT !.startP = Nil] /\ Goto(s, outcome)

\* assertCurrentGeneration
Current == m.up = m.gen

\* The startup goes on to its next await, or throws into its catch block.
Proceed(s, t, phase) == m' = t /\ Goto(s, IF Current THEN phase ELSE "unwind")

\* The previous stream is closed and its events are handled.
Settled(s) ==
  /\ call[s] = "settle" /\ m.closing = Nil /\ changeQueue = <<>> /\ handler = Nil
  /\ IF ~Current THEN EndStartup(s, m, "failed")
     ELSE IF m.running THEN EndStartup(s, m, "done")
     ELSE m' = [m EXCEPT !.fatal = FALSE] /\ Goto(s, "closeOld")
  /\ UNCHANGED <<outside, changeQueue, handler, resources, crashes>>

\* closeTargets: the targets that cannot be closed are kept for the next time.
Close(all, failing, t) == /\ alive' = alive \ (all \ failing)
                          /\ m' = [t EXCEPT !.targets = @ \ all, !.staged = @ \ all,
                                            !.cleanup = (@ \ all) \cup failing]

CloseOld(s) ==
  /\ call[s] = "closeOld"
  /\ LET all == m.targets \cup m.cleanup
     IN \E failing \in SUBSET all :
          IF failing = {} THEN Close(all, {}, m) /\ Goto(s, "resolve")
          ELSE Close(all, failing, [m EXCEPT !.startP = Nil]) /\ Goto(s, "failed")
  /\ UNCHANGED <<outside, changeQueue, handler, open, cursor, crashes>>

\* initializeTargets
Resolve(s) ==
  /\ call[s] = "resolve"
  /\ alive' = alive \cup {m.up}
  /\ Proceed(s, [m EXCEPT !.staged = {m.up}], "load")
  /\ UNCHANGED <<outside, changeQueue, handler, open, cursor, crashes>>

\* One target of the list cannot be opened: those before it are closed again.
ResolveFails(s) ==
  /\ call[s] = "resolve"
  /\ \/ EndStartup(s, m, "failed") /\ UNCHANGED alive
     \/ /\ alive' = alive \cup {m.up}
        /\ EndStartup(s, [m EXCEPT !.cleanup = @ \cup {m.up}], "failed")
  /\ UNCHANGED <<outside, changeQueue, handler, open, cursor, crashes>>

\* loadResumeOptions: the stored token, or the server's present as an anchor that
\* is saved before the stream is opened.
Load(s) ==
  /\ call[s] = "load"
  /\ IF token = Nil THEN Proceed(s, m, "hello")
     ELSE Proceed(s, [m EXCEPT !.from = token], "probe")
  /\ UNCHANGED <<outside, changeQueue, handler, resources, crashes>>

Hello(s) ==
  /\ call[s] = "hello"
  /\ Proceed(s, [m EXCEPT !.from = log], "anchor")
  /\ UNCHANGED <<outside, changeQueue, handler, resources, crashes>>

SaveAnchor(s) ==
  /\ call[s] = "anchor"
  /\ token' = m.from
  /\ Proceed(s, m, "probe")
  /\ UNCHANGED <<log, applied, marks, changeQueue, handler, resources, crashes>>

\* The load, the hello, the save or the probe throws.
StartupFails(s) ==
  /\ call[s] \in {"load", "hello", "anchor", "probe"}
  /\ token' \in IF call[s] = "anchor" THEN {token, m.from} ELSE {token}
  /\ Goto(s, "unwind")
  /\ UNCHANGED <<log, applied, marks, m, changeQueue, handler, resources, crashes>>

\* The probe is answered; the stream is opened and everything published at once.
GoLive(s) ==
  /\ call[s] = "probe"
  /\ IF Current
     THEN /\ EndStartup(s, [m EXCEPT !.targets = @ \cup m.staged, !.staged = {},
                                     !.stream = m.up, !.running = TRUE], "done")
          /\ open' = open \cup {m.up}
          /\ cursor' = [g \in open' |-> IF g = m.up THEN m.from ELSE cursor[g]]
     ELSE Goto(s, "unwind") /\ UNCHANGED <<m, open, cursor>>
  /\ UNCHANGED <<outside, changeQueue, handler, alive, crashes>>

\* Mutated form of Unwind: staged targets are forgotten.
UnwindLeaking(s) ==
  /\ call[s] = "unwind"
  /\ EndStartup(s, [m EXCEPT !.staged = {}], "failed")
  /\ UNCHANGED <<outside, changeQueue, handler, resources, crashes>>

\* The catch block; closeTargets(staged) also retries the ones kept.
Unwind(s) ==
  /\ call[s] = "unwind"
  /\ LET all == m.staged \cup m.cleanup
     IN \E failing \in SUBSET all : Close(all, failing, [m EXCEPT !.startP = Nil])
  /\ Goto(s, "failed")
  /\ UNCHANGED <<outside, changeQueue, handler, open, cursor, crashes>>

-----------------------------------------------------------------------------
(* stop().                                                                 *)

StopCall(p) ==
  /\ call[p] = "idle" /\ Resumed
  /\ IF m.stopP # Nil THEN Goto(p, m.stopP) /\ UNCHANGED m
     ELSE /\ m' = [m EXCEPT !.stopP = p, !.stopping = TRUE,
                            !.gen = IF m.startP # Nil /\ ~m.running THEN @ + 1 ELSE @]
          /\ Goto(p, IF m.startP # Nil THEN m.startP ELSE "awaitQueue")
  /\ UNCHANGED <<outside, changeQueue, handler, resources, crashes>>

StopAfterStart(p) ==
  /\ call[p] \in Starts /\ Over(call[p])
  /\ Goto(p, "awaitQueue")
  /\ UNCHANGED <<outside, m, changeQueue, handler, resources, crashes>>

StopJoined(p) ==
  /\ call[p] \in Stops /\ Over(call[p])
  /\ Goto(p, call[call[p]])
  /\ UNCHANGED <<outside, m, changeQueue, handler, resources, crashes>>

Halt(p) ==
  /\ m' = [m EXCEPT !.gen = @ + 1, !.running = FALSE, !.stream = Nil,
                    !.closing = IF m.stream # Nil THEN m.stream ELSE @]
  /\ Goto(p, "awaitClose")
  /\ UNCHANGED <<outside, changeQueue, handler, resources, crashes>>

\* The events accepted before are handled first.
StopHalts(p) == call[p] = "awaitQueue" /\ changeQueue = <<>> /\ handler = Nil /\ Halt(p)

StopClosed(p) ==
  /\ call[p] = "awaitClose" /\ m.closing = Nil
  /\ Goto(p, "closeTargets")
  /\ UNCHANGED <<outside, m, changeQueue, handler, resources, crashes>>

StopEnds(p) ==
  /\ call[p] = "closeTargets"
  /\ LET all == m.targets \cup m.cleanup
     IN \E failing \in SUBSET all :
          /\ Close(all, failing, [m EXCEPT !.stopP = Nil, !.stopping = FALSE])
          /\ Goto(p, IF failing = {} THEN "done" ELSE "failed")
  /\ UNCHANGED <<outside, changeQueue, handler, open, cursor, crashes>>

\* The driver has closed the stream (it is taken never to fail).
StreamClosed ==
  /\ m.closing # Nil
  /\ open' = open \ {m.closing} /\ cursor' = [g \in open' |-> cursor[g]]
  /\ m' = [m EXCEPT !.closing = Nil]
  /\ UNCHANGED <<outside, call, changeQueue, handler, alive, crashes>>

-----------------------------------------------------------------------------
(* The stream and the queue.                                               *)

\* stopAfterFatalSyncError, for the generation g.
Fatal(g) ==
  m' = IF g # m.gen THEN m
       ELSE [m EXCEPT !.fatal = TRUE, !.running = FALSE, !.stream = Nil,
                      !.closing = IF m.stream # Nil THEN m.stream ELSE @]

Stale(g) == g # m.gen \/ ~m.running \/ m.fatal

\* The stream emits its next event: enqueueChange.
Emit(g) ==
  /\ g \in open /\ cursor[g] < log
  /\ cursor' = [cursor EXCEPT ![g] = @ + 1]
  /\ changeQueue' = IF Stale(g) \/ m.stopping THEN changeQueue
              ELSE Append(changeQueue, [gen |-> g, event |-> cursor[g] + 1])
  /\ UNCHANGED <<outside, m, call, handler, open, alive, crashes>>

\* 'error', or 'close' without being asked.
StreamBreaks(g) ==
  /\ g \in open /\ g = m.stream
  /\ Fatal(g)
  /\ UNCHANGED <<outside, call, changeQueue, handler, resources, crashes>>

-----------------------------------------------------------------------------
(* handleChange.                                                           *)

\* Mutated form of Take: events of a stream that has failed stay in the changeQueue.
TakeLive ==
  /\ handler = Nil /\ changeQueue # <<>>
  /\ ~Stale(Head(changeQueue).gen)
  /\ changeQueue' = Tail(changeQueue)
  /\ LET h == Head(changeQueue)
     IN handler' = [gen |-> h.gen, event |-> h.event, at |-> "next", err |-> FALSE,
                    target |-> Nil, todo |-> {x \in Targets : h.event \in Wants[x]}]
  /\ UNCHANGED <<outside, m, call, resources, crashes>>

Take ==
  /\ handler = Nil /\ changeQueue # <<>>
  /\ changeQueue' = Tail(changeQueue)
  /\ LET h == Head(changeQueue)
     IN handler' = IF Stale(h.gen) THEN Nil
                   ELSE [gen |-> h.gen, event |-> h.event, at |-> "next", err |-> FALSE,
                         target |-> Nil, todo |-> {t \in Targets : h.event \in Wants[t]}]
  /\ UNCHANGED <<outside, m, call, resources, crashes>>

HandlerAt(phase) == handler # Nil /\ handler.at = phase

GiveUp == handler' = Nil /\ UNCHANGED <<marks, m>>

\* The next target: has it applied the event already (an await, when
\* idempotency is on)?
NextTarget ==
  /\ HandlerAt("next") /\ handler.todo # {}
  /\ IF Stale(handler.gen) THEN GiveUp
     ELSE \E t \in handler.todo :
            /\ handler' = [handler EXCEPT !.todo = @ \ {t}, !.target = t,
                             !.at = IF <<t, handler.event>> \in marks THEN "next" ELSE "mark"]
            /\ UNCHANGED <<marks, m>>
  /\ UNCHANGED <<log, token, applied, call, changeQueue, resources, crashes>>

Mark == marks' = marks \cup {<<handler.target, handler.event>>}

\* markMode "start" marks before it looks whether to go on and applies.
Send ==
  /\ HandlerAt("mark")
  /\ handler' = IF Stale(handler.gen) THEN Nil ELSE [handler EXCEPT !.at = "apply"]
  /\ IF MarkMode = "start" THEN Mark ELSE UNCHANGED marks
  /\ UNCHANGED <<log, token, applied, m, call, changeQueue, resources, crashes>>

TargetApplies == applied' = [applied EXCEPT ![handler.target] = @ \cup {handler.event}]

Applied ==
  /\ HandlerAt("apply")
  /\ TargetApplies
  /\ handler' = [handler EXCEPT !.at = IF MarkMode = "success" THEN "applied" ELSE "next"]
  /\ UNCHANGED <<log, token, marks, m, call, changeQueue, resources, crashes>>

\* markMode "success": marked once it is applied.
MarkApplied ==
  /\ HandlerAt("applied")
  /\ IF Stale(handler.gen) THEN GiveUp
     ELSE Mark /\ handler' = [handler EXCEPT !.at = "next"] /\ UNCHANGED m
  /\ UNCHANGED <<log, token, applied, call, changeQueue, resources, crashes>>

\* The lookup of a mark, the target or the storing of a mark rejects; what it was
\* asked to do may have been done.
Rejected ==
  /\ \/ HandlerAt("apply")
     \/ MarkMode # "off" /\ (HandlerAt("mark") \/ (HandlerAt("applied") /\ ~Stale(handler.gen)))
  /\ IF HandlerAt("apply") THEN UNCHANGED applied \/ TargetApplies ELSE UNCHANGED applied
  /\ IF HandlerAt("applied") \/ (HandlerAt("mark") /\ MarkMode = "start")
     THEN UNCHANGED marks \/ Mark ELSE UNCHANGED marks
  /\ UNCHANGED <<log, token, m, call, changeQueue, resources, crashes>>

\* Mutated form of TargetFails: the error is forgotten.
TargetFailsQuietly ==
  /\ Rejected
  /\ handler' = [handler EXCEPT !.at = "next"]

\* The other targets are still served.
TargetFails ==
  /\ Rejected
  /\ handler' = [handler EXCEPT !.at = "next", !.err = TRUE]

AllServed ==
  /\ HandlerAt("next") /\ handler.todo = {}
  /\ IF handler.err THEN Fatal(handler.gen) /\ handler' = Nil
     ELSE /\ handler' = IF Stale(handler.gen) THEN Nil ELSE [handler EXCEPT !.at = "save"]
          /\ UNCHANGED m
  /\ UNCHANGED <<outside, call, changeQueue, resources, crashes>>

SaveToken ==
  /\ HandlerAt("save")
  /\ token' = handler.event
  /\ handler' = Nil
  /\ UNCHANGED <<log, applied, marks, m, call, changeQueue, resources, crashes>>

SaveFails ==
  /\ HandlerAt("save")
  /\ token' \in {token, handler.event}
  /\ Fatal(handler.gen)
  /\ handler' = Nil
  /\ UNCHANGED <<log, applied, marks, call, changeQueue, resources, crashes>>

-----------------------------------------------------------------------------
\* The process dies and another takes its place; what is stored stays.
ProcessDies ==
  /\ crashes < MaxCrashes
  /\ crashes' = crashes + 1
  /\ m' = Fresh
  /\ call' = [x \in Calls |-> IF call[x] = "idle" THEN "idle" ELSE "failed"]
  /\ changeQueue' = <<>> /\ handler' = Nil
  /\ open' = {} /\ cursor' = [g \in {} |-> 0] /\ alive' = {}
  /\ UNCHANGED outside

StartStep(s) ==
  \/ StartCall(s) \/ StartAfterStop(s) \/ StartJoined(s) \/ Settled(s) \/ CloseOld(s)
  \/ Resolve(s) \/ ResolveFails(s) \/ Load(s) \/ Hello(s) \/ SaveAnchor(s)
  \/ StartupFails(s) \/ GoLive(s) \/ Unwind(s)

StopStep(p) ==
  \/ StopCall(p) \/ StopAfterStart(p) \/ StopJoined(p) \/ StopHalts(p) \/ StopClosed(p)
  \/ StopEnds(p)

Handle == \/ Take \/ NextTarget \/ Send \/ Applied \/ MarkApplied \/ TargetFails
          \/ AllServed \/ SaveToken \/ SaveFails

SyncNext == \/ Produce \/ StreamClosed \/ Handle \/ ProcessDies
        \/ \E s \in Starts : StartStep(s)
        \/ \E p \in Stops : StopStep(p)
        \/ \E g \in open : Emit(g) \/ StreamBreaks(g)

SyncSpec == SyncInit /\ [][SyncNext]_syncVars

\* Promises continue; the driver, the targets and the stores answer with a result
\* or an error.  Nobody has to call start() or stop().
SyncFairness ==
  /\ WF_syncVars(StreamClosed) /\ WF_syncVars(Handle)
  /\ WF_syncVars(\E g \in open : Emit(g))
  /\ \A s \in Starts : WF_syncVars(StartStep(s) /\ call[s] # "idle")
  /\ \A p \in Stops : WF_syncVars(StopStep(p) /\ call[p] # "idle")

SyncFairSpec == SyncSpec /\ SyncFairness

-----------------------------------------------------------------------------
Managers == [gen : Nat, running : BOOLEAN, stopping : BOOLEAN, fatal : BOOLEAN,
             stream : Nat \cup {Nil}, closing : Nat \cup {Nil},
             startP : Starts \cup {Nil}, stopP : Stops \cup {Nil}, up : Nat,
             from : 0..MaxEvents, targets : SUBSET Nat, staged : SUBSET Nat,
             cleanup : SUBSET Nat]

\* Types, and: a manager that runs has its stream and its targets.
SyncTypeOK ==
  /\ log \in 0..MaxEvents
  /\ token \in 0..MaxEvents \cup {Nil}
  /\ applied \in [Targets -> SUBSET (1..MaxEvents)]
  /\ marks \subseteq Targets \X (1..MaxEvents)
  /\ m \in Managers
  /\ m.running <=> m.stream # Nil
  /\ call \in [Calls -> SyncPhases \cup Calls]
  /\ changeQueue \in Seq([gen : Nat, event : 1..MaxEvents])
  /\ handler \in Handlers \cup {Nil}
  /\ open \subseteq Nat /\ alive \subseteq Nat
  /\ cursor \in [open -> 0..MaxEvents]
  /\ crashes \in 0..MaxCrashes

\* However start(), stop() and failures overlap, no connection is orphaned: an open
\* stream is the current one or being closed, and targets with connections are
\* published, staged by a startup, or kept for the next cleanup.
NothingOrphaned ==
  /\ open \subseteq {m.stream, m.closing}
  /\ alive \subseteq m.targets \cup m.staged \cup m.cleanup

\* No target is closed while an event is being applied to it.
TargetsStayOpen == HandlerAt("apply") => handler.gen \in alive

\* The stored token moves one event at a time, past events applied everywhere:
\* "this is an at-least-once contract".
DeliveryContract == INSTANCE AtLeastOnce WITH None <- Nil

AtLeastOnceDelivery == DeliveryContract!Spec

\* Streams and targets are neither lost nor closed in use.
ConnectionsKept == SyncTypeOK /\ NothingOrphaned /\ TargetsStayOpen

\* A manager that runs has applied the events it is to see.
EventsApplied == m.running =>
  \A t \in Targets : \A e \in Wants[t] : token < e /\ e <= log => e \in applied[t]

\* Again and again no call of start() or stop() is under way and every event has
\* been applied: neither calls nor events wait for ever.
SyncGoesOn == []<>(EventsApplied /\ \A x \in Calls : call[x] = "idle" \/ Over(x))
=============================================================================
