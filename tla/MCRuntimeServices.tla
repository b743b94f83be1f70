------------------------- MODULE MCRuntimeServices -------------------------
(* The services of a runtime, each on its own: the initial state chooses the *)
(* part that moves, and the others stay where they start.                    *)
EXTENDS CountQueue, RuntimeLifecycle, ConnectionPools, PoolHealth, SlowQueryLog,
        Saga, ChangeStreamSync, ResumableUpload, TLC

VARIABLE part

CONSTANTS Parts,                  \* those that a run looks at
          r1, r2,                 \* runtimes that share the memory server
          a1, a2, a3, c1, c2, c3, \* addPool() calls, and clients of one pool
          s1, s2, p1, t1, t2,     \* start(), stop() and targets
          ap1, ap2, ap3           \* the appends of an upload

\* One runtime is connected twice, so that a connect() can meet the release of an
\* earlier one, while the other connects, fails or stays.
ConnectsOf == r1 :> 2 @@ r2 :> 1
ClosesOf   == r1 :> 1 @@ r2 :> 1
\* Two calls name the same pool, and one has a factory of the caller's.
PoolNames  == a1 :> "p" @@ a2 :> "p" @@ a3 :> "q"
\* The second target is concerned by the second event only.
TwoWants   == t1 :> 1..MaxEvents @@ t2 :> {2}
OneRetry   == [s \in 1..Steps |-> 1]
\* Two appends overlap, of which one sends other bytes.
Froms  == ap1 :> 0 @@ ap2 :> 0 @@ ap3 :> 1
Counts == ap1 :> 2 @@ ap2 :> 1 @@ ap3 :> 1
Goods  == ap1 :> TRUE @@ ap2 :> FALSE @@ ap3 :> TRUE

ServicesInit ==
  /\ part \in Parts
  /\ Init /\ LifecycleInit /\ PoolsInit /\ HealthInit /\ LogInit /\ SagaInit /\ SyncInit
  /\ UploadInit

Others(p) ==
  /\ IF p = "counts" THEN TRUE ELSE UNCHANGED vars
  /\ IF p = "lifecycle" THEN TRUE ELSE UNCHANGED lifecycleVars
  /\ IF p = "pools" THEN TRUE ELSE UNCHANGED poolVars
  /\ IF p = "health" THEN TRUE ELSE UNCHANGED healthVars
  /\ IF p = "log" THEN TRUE ELSE UNCHANGED logVars
  /\ IF p = "saga" THEN TRUE ELSE UNCHANGED sagaVars
  /\ IF p = "sync" THEN TRUE ELSE UNCHANGED syncVars
  /\ IF p = "upload" THEN TRUE ELSE UNCHANGED uploadVars

ServicesNext ==
  /\ \/ part = "counts" /\ Next
     \/ part = "lifecycle" /\ LifecycleNext
     \/ part = "pools" /\ PoolsNext
     \/ part = "health" /\ HealthNext
     \/ part = "log" /\ LogNext
     \/ part = "saga" /\ SagaNext
     \/ part = "sync" /\ SyncNext
     \/ part = "upload" /\ UploadNext
  /\ Others(part) /\ UNCHANGED part

ServicesSpec == ServicesInit /\ [][ServicesNext]_<<part, vars, lifecycleVars, poolVars,
                                                    healthVars, logVars, sagaVars, syncVars,
                                                    uploadVars>>
=============================================================================
