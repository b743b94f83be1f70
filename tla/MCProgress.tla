------------------------------ MODULE MCProgress ------------------------------
(* What must go on, in small instances: every step that somebody waits for  *)
(* is taken.  The initial state chooses the part that moves, and the others *)
(* stay where they start.                                                   *)
EXTENDS RuntimeLifecycle, PoolHealth, SlowQueryLog, TLC

VARIABLE part

CONSTANT Parts   \* those that a run looks at

CONSTANTS Requests, Concurrency, MaxQueueSize,        \* counts
          Keys, Readers, Writers, NoEntry,            \* queries
          Starts, Stops, Targets, MaxEvents, Nil,     \* streams
          Hosts, MaxFailures, MaxDropped, MaxRedefined,
          x1, x2, x3, x4, x5, x6, k1, k2, t1, t2      \* who acts, on what

VARIABLES running, queue, phase, aborted,
          db, cache, reader, value, ticket, tail, writer, since, left,
          log, token, applied, marks, m, call, changeQueue, handler, open, cursor, alive, crashes,
          declared, tasks, at, missing, conflicts, broken, indexes, failures, dropped, redefined

countsVars  == <<running, queue, phase, aborted>>
queriesVars == <<db, cache, reader, value, ticket, tail, writer, since, left>>
streamsVars == <<log, token, applied, marks, m, call, changeQueue, handler, open, cursor, alive,
                 crashes>>
indexesVars == <<declared, tasks, at, missing, conflicts, broken, indexes, failures, dropped,
                 redefined>>
allVars == <<part, countsVars, queriesVars, streamsVars, indexesVars, lifecycleVars, healthVars,
             logVars>>

Counts == INSTANCE CountQueue

\* A findPage with totals, and two writes that match its page and its totals.
PageKeyOf  == x1 :> k1 @@ x2 :> k2
PageNested == x1 :> x2 @@ x2 :> NoEntry
BothKeys   == [w \in Writers |-> Keys]
Queries == INSTANCE CacheCoordination WITH
  KeyOf <- PageKeyOf, Nested <- PageNested, Intents <- BothKeys, None <- NoEntry

\* The second target is concerned by the second event only.
TwoWants == t1 :> 1..MaxEvents @@ t2 :> {2}
Streams == INSTANCE ChangeStreamSync WITH
  Wants <- TwoWants, MarkMode <- "off", MaxCrashes <- 0

\* A deployment changes the options of one index and drops another.
IndexOf(n, k, o) == [name |-> n, key |-> k, options |-> o]
SomeIndexes == {IndexOf("a", "x", "unique"), IndexOf("a", "x", "plain"), IndexOf("b", "y", "plain")}
TwoDeclarations == {{IndexOf("a", "x", "unique"), IndexOf("b", "y", "plain")},
                    {IndexOf("a", "x", "plain")}}
Indexes == INSTANCE ModelIndexes WITH
  Runtimes <- Hosts, Indexes <- SomeIndexes, Declarations <- TwoDeclarations, server <- indexes

\* A runtime is connected twice and closed once.
TwoConnects == [r \in Runtimes |-> 2]
OneClose    == [r \in Runtimes |-> 1]

-----------------------------------------------------------------------------
ProgressInit ==
  /\ part \in Parts
  /\ Counts!Init /\ Queries!Init /\ Streams!SyncInit /\ Indexes!IndexInit
  /\ LifecycleInit /\ HealthInit /\ LogInit

Others(p) ==
  /\ IF p = "counts" THEN TRUE ELSE UNCHANGED countsVars
  /\ IF p = "queries" THEN TRUE ELSE UNCHANGED queriesVars
  /\ IF p = "streams" THEN TRUE ELSE UNCHANGED streamsVars
  /\ IF p = "indexes" THEN TRUE ELSE UNCHANGED indexesVars
  /\ IF p = "lifecycle" THEN TRUE ELSE UNCHANGED lifecycleVars
  /\ IF p = "health" THEN TRUE ELSE UNCHANGED healthVars
  /\ IF p = "log" THEN TRUE ELSE UNCHANGED logVars

ProgressNext ==
  /\ \/ part = "counts" /\ Counts!Next
     \/ part = "queries" /\ Queries!Next
     \/ part = "streams" /\ Streams!SyncNext
     \/ part = "indexes" /\ Indexes!IndexNext
     \/ part = "lifecycle" /\ LifecycleNext
     \/ part = "health" /\ HealthNext
     \/ part = "log" /\ LogNext
  /\ Others(part) /\ UNCHANGED part

\* The fairness each component assumes.  The part never changes, so steps of
\* different parts may share a name; so may steps that exclude each other.
CountStep(r) ==
  \/ Counts!ResumeAborted(r) \/ Counts!ResumeRunning(r)
  \/ Counts!WaitTimeout(r) \/ Counts!ExecuteTimeout(r)

StreamStep(i) ==
  \/ i \in Starts /\ call[i] # "idle" /\ Streams!StartStep(i)
  \/ i \in Stops /\ call[i] # "idle" /\ Streams!StopStep(i)
  \/ i = x4 /\ Streams!StreamClosed
  \/ i = x5 /\ Streams!Handle
  \/ i = x6 /\ \E g \in open : Streams!Emit(g)

IndexStep(i) ==
  \/ i = x1 /\ \E h \in Hosts : Indexes!Use(h)
  \/ i \in {x2, x3} /\ \E t \in Indexes!Tasks :
       (i = x2) = (Cardinality(t[2]) = 2) /\ Indexes!TaskStep(t)

LifecycleStep(i) ==
  \/ i = x1 /\ \E r \in Runtimes : ConnectResumes(r)
  \/ i = x2 /\ Drained /\ \E r \in Runtimes : Startup(r)
  \/ i = x3 /\ Drained /\ \E r \in Runtimes : ReleaseStep(r)
  \/ i = x4 /\ Drained /\ Server

Fair(i) ==
  /\ \/ part = "counts" /\ i \in Requests /\ CountStep(i)
     \/ part = "queries" /\ i \in Readers /\ (Queries!QueryStep(i) \/ Queries!NestedBegins(i))
     \/ part = "queries" /\ i \in Writers /\ Queries!WriteStep(i)
     \/ part = "streams" /\ StreamStep(i)
     \/ part = "indexes" /\ IndexStep(i)
     \/ part = "lifecycle" /\ LifecycleStep(i)
     \/ part = "health" /\ i \in Clients /\ PingTimesOut(i)
     \/ part = "health" /\ i = x4 /\ IntervalFires
     \/ part = "log" /\ i = x1 /\ Queue
     \/ part = "log" /\ i = x2 /\ Drain
  /\ UNCHANGED part

\* The variables of the part that moves.
Moving == CASE part = "counts" -> countsVars
            [] part = "queries" -> queriesVars
            [] part = "streams" -> streamsVars
            [] part = "indexes" -> indexesVars
            [] part = "lifecycle" -> lifecycleVars
            [] part = "health" -> healthVars
            [] part = "log" -> logVars

ProgressSpec == /\ ProgressInit /\ [][ProgressNext]_allVars
                /\ \A i \in {x1, x2, x3, x4, x5, x6} : WF_Moving(Fair(i))

-----------------------------------------------------------------------------
(* Every caller of a count is answered, even if no count ever settles.      *)
CountsAnswered == Counts!CallersAnswered

(* Every query and every write with its invalidation is answered.           *)
QueriesAnswered == Queries!EveryCallAnswered

(* start() and stop() end, and a running manager applies its events.        *)
SyncProceeds == Streams!SyncGoesOn

(* A declaration that stays in use is ensured at last.                      *)
IndexesEnsured == part = "indexes" => Indexes!EnsuredAtLast
=============================================================================
