---------------------------- MODULE RuntimeProofs ----------------------------
(***************************************************************************)
(* What a runtime opens and closes, for any calls: a pool is found down by *)
(* its own checks only, close() finds every client that is open, and an    *)
(* entry of the slow-query log is in one place, of which close() leaves    *)
(* none behind; and connect() and close() leave nothing open unnamed.      *)
(***************************************************************************)
EXTENDS RuntimeLifecycle, ConnectionPools, PoolHealth, SlowQueryLog, FiniteSetTheorems, TLAPS

(***************************************************************************)
(* Health.  What was counted for the pool is what its present client has   *)
(* failed, since no check of another one is current.                       *)
(***************************************************************************)
HealthIInv ==
  /\ HealthTypeOK
  /\ \A c \in Clients : /\ check[c] = "current" => c = client
                        /\ c \notin used => failed[c] = 0
  /\ client # NoClient => client \in used /\ status.failures = failed[client]
  /\ status.down => status.failures = PingRetries

\* The failures of a health check are counted up to the limit.
LEMMA IncCounts ==
  ASSUME NEW n \in 0..PingRetries
  PROVE  /\ Inc(n) \in 0..PingRetries
         /\ Inc(n) >= PingRetries => Inc(n) = PingRetries
         /\ n = PingRetries => Inc(n) = PingRetries
  BY HealthAssumption DEF Inc

\* What ends counts, unless it was superseded, for the present client.
LEMMA CheckEndsCounts ==
  ASSUME HealthIInv, NEW c \in Clients, NEW ok \in BOOLEAN, check[c] # "none", CheckEnds(c, ok),
         UNCHANGED <<client, used, removing, timer>>,
         pinging' \subseteq Clients, inProgress' \in Clients \cup {NoClient}
  PROVE  HealthIInv'
<1>1. /\ check \in [Clients -> {"none", "current", "superseded"}]
      /\ failed \in [Clients -> 0..PingRetries] /\ 0 \in 0..PingRetries
      /\ status \in [failures : 0..PingRetries, down : BOOLEAN]
      /\ check' = [check EXCEPT ![c] = "none"]
  BY HealthAssumption DEF HealthIInv, HealthTypeOK, CheckEnds
<1>2. CASE check[c] = "superseded"
  <2>1. UNCHANGED <<status, failed>>
    BY <1>2 DEF CheckEnds
  <2> QED
    BY <1>1, <2>1 DEF HealthIInv, HealthTypeOK
<1>3. CASE check[c] # "superseded"
  <2>1. /\ c = client /\ client # NoClient /\ c \in used /\ status.failures = failed[c]
        /\ status.failures \in 0..PingRetries
    BY <1>1, <1>3, HealthAssumption DEF HealthIInv
  <2>2. /\ failed' = [failed EXCEPT ![c] = IF ok THEN 0 ELSE Inc(@)]
        /\ status' = IF ok THEN Healthy
                     ELSE [failures |-> Inc(status.failures),
                           down |-> status.down \/ Inc(status.failures) >= PingRetries]
    BY <1>3 DEF CheckEnds
  <2>3. HealthTypeOK'
    BY <1>1, <2>1, <2>2, IncCounts DEF HealthIInv, HealthTypeOK, Healthy
  <2>4. status'.failures = failed'[c] /\ (status'.down => status'.failures = PingRetries)
    BY <1>1, <2>1, <2>2, IncCounts DEF HealthIInv, Healthy
  <2> QED
    BY <1>1, <2>1, <2>2, <2>3, <2>4 DEF HealthIInv
<1> QED
  BY <1>2, <1>3

\* A check that starts is one of the present client; the others keep their
\* state or are superseded.
LEMMA CheckedKeeps ==
  ASSUME HealthIInv, client # NoClient, NEW states \in {check, AllSuperseded}, Checked(states),
         timer' \in BOOLEAN, UNCHANGED <<client, used, removing, status, failed>>
  PROVE  HealthIInv'
<1>1. /\ client \in Clients /\ check \in [Clients -> {"none", "current", "superseded"}]
      /\ pinging \subseteq Clients
  BY DEF HealthIInv, HealthTypeOK
<1>2. /\ states \in [Clients -> {"none", "current", "superseded"}]
      /\ \A c \in Clients : states[c] = "current" => c = client
  BY <1>1 DEF HealthIInv, AllSuperseded
<1>3. /\ check' \in [Clients -> {"none", "current", "superseded"}]
      /\ \A c \in Clients : check'[c] = "current" => c = client
      /\ pinging' \subseteq Clients /\ inProgress' \in Clients \cup {NoClient}
  BY <1>1, <1>2 DEF Checked, HealthIInv, HealthTypeOK
<1> QED
  BY <1>3 DEF HealthIInv, HealthTypeOK

\* No check is under way at first.
LEMMA HealthStarts == HealthInit => HealthIInv
<1> SUFFICES ASSUME HealthInit PROVE HealthIInv
  OBVIOUS
<1>1. /\ 0 \in 0..PingRetries /\ PingRetries # 0
      /\ status = [failures |-> 0, down |-> FALSE]
  BY HealthAssumption DEF HealthInit, Healthy
<1>2. HealthTypeOK
  <2>1. /\ check \in [Clients -> {"none", "current", "superseded"}]
        /\ failed \in [Clients -> 0..PingRetries]
        /\ status \in [failures : 0..PingRetries, down : BOOLEAN]
    BY <1>1 DEF HealthInit
  <2>2. /\ client \in Clients \cup {NoClient} /\ used \subseteq Clients
        /\ pinging \subseteq Clients /\ inProgress \in Clients \cup {NoClient}
    BY DEF HealthInit
  <2>3. removing \in BOOLEAN /\ timer \in BOOLEAN
    BY Zenon DEF HealthInit
  <2> QED
    BY <2>1, <2>2, <2>3 DEF HealthTypeOK
<1> QED
  BY <1>1, <1>2 DEF HealthInit, HealthIInv

\* Every step of the health checks keeps the invariant.
LEMMA HealthStep == HealthIInv /\ [HealthNext]_healthVars => HealthIInv'
<1> SUFFICES ASSUME HealthIInv, [HealthNext]_healthVars PROVE HealthIInv'
  OBVIOUS
<1>1. /\ AllSuperseded \in [Clients -> {"none", "current", "superseded"}]
      /\ \A c \in Clients : AllSuperseded[c] # "current"
      /\ Healthy \in [failures : 0..PingRetries, down : BOOLEAN]
      /\ Healthy.failures = 0 /\ ~Healthy.down
  BY HealthAssumption DEF HealthIInv, HealthTypeOK, AllSuperseded, Healthy
<1>2. ASSUME NEW c \in Clients, Register(c) PROVE HealthIInv'
  BY <1>1, <1>2 DEF Register, HealthIInv, HealthTypeOK
<1>3. ASSUME NEW c \in Clients, PingTimesOut(c) PROVE HealthIInv'
  BY <1>3, CheckEndsCounts DEF PingTimesOut, HealthIInv, HealthTypeOK
<1>4. ASSUME NEW c \in Clients, NEW ok \in BOOLEAN, PingAnswers(c, ok) PROVE HealthIInv'
  <2>1. /\ pinging' \subseteq Clients /\ inProgress' \in Clients \cup {NoClient}
        /\ UNCHANGED <<client, used, removing, timer>>
    BY <1>4 DEF PingAnswers, HealthIInv, HealthTypeOK
  <2>2. CASE check[c] = "none"
    BY <1>4, <2>1, <2>2 DEF PingAnswers, HealthIInv, HealthTypeOK
  <2>3. CASE check[c] # "none"
    BY <1>4, <2>1, <2>3, CheckEndsCounts DEF PingAnswers
  <2> QED
    BY <2>2, <2>3
<1>5. ASSUME NEW remove \in BOOLEAN, Stop(remove) PROVE HealthIInv'
  BY <1>1, <1>5 DEF Stop, HealthIInv, HealthTypeOK
<1>6. ASSUME NEW ok \in BOOLEAN, RemoveEnds(ok) PROVE HealthIInv'
  BY <1>1, <1>6 DEF RemoveEnds, HealthIInv, HealthTypeOK
<1>7. CASE StartHealthCheck
  BY <1>7, CheckedKeeps DEF StartHealthCheck
<1>8. CASE IntervalFires
  BY <1>8, CheckedKeeps DEF IntervalFires, HealthIInv, HealthTypeOK
<1>9. CASE UNCHANGED healthVars
  BY <1>9 DEF healthVars, HealthIInv, HealthTypeOK
<1> QED
  BY <1>2, <1>3, <1>4, <1>5, <1>6, <1>7, <1>8, <1>9 DEF HealthNext

(* For any clients and number of retries, no late answer or timeout of an   *)
(* earlier client, or of checks that were stopped, takes a pool for down.   *)
THEOREM DownByItsOwn == HealthSpec => []DownIsItsOwn
<1>1. HealthIInv => DownIsItsOwn
  BY DEF HealthIInv, DownIsItsOwn
<1> QED
  BY <1>1, HealthStarts, HealthStep, PTL DEF HealthSpec

-----------------------------------------------------------------------------
(***************************************************************************)
(* Pools.  An addPool() that still connects has its name to itself, so     *)
(* that what it registers replaces no other client; once close() has       *)
(* passed them, none connects any more, and what a loop of close() has     *)
(* visited without an error is not held any more.                          *)
(***************************************************************************)
NamesApart == \A a \in Adds : adds[a] = "connecting" =>
  /\ pools[NameOf[a]] = NoPool
  /\ \A b \in Adds : adds[b] = "connecting" /\ NameOf[a] = NameOf[b] => a = b

Shutting ==
  /\ shutdown.at # "none" => managerClosed
  /\ shutdown.at \in {"pools", "spare", "done", "failed"} => Connecting = {}
  /\ shutdown.at = "adds" => shutdown.visited = {}
  /\ shutdown.at = "pools" /\ ~shutdown.errors =>
       Registered \cap shutdown.visited \subseteq {shutdown.current}
  /\ shutdown.at = "spare" /\ ~shutdown.errors =>
       Registered = {} /\ spare \cap shutdown.visited \subseteq {shutdown.current}
  /\ shutdown.at = "done" => Registered = {} /\ spare = {}

PoolsIInv == PoolsTypeOK /\ NamesApart /\ EveryClientOwned /\ Shutting

\* There are no clients at first.
LEMMA PoolsStart == PoolsInit => PoolsIInv
<1> SUFFICES ASSUME PoolsInit PROVE PoolsIInv
  OBVIOUS
<1>1. PoolsTypeOK
  BY DEF PoolsInit, PoolsTypeOK, PoolPhases
<1>2. NamesApart
  BY DEF PoolsInit, NamesApart
<1>3. EveryClientOwned /\ Shutting
  BY DEF PoolsInit, EveryClientOwned, Shutting
<1> QED
  BY <1>1, <1>2, <1>3 DEF PoolsIInv

\* What the fields of shutdown and the sets of clients are.
LEMMA PoolsTyped ==
  ASSUME PoolsTypeOK
  PROVE  /\ Registered \subseteq Adds /\ NoPool \notin Registered /\ NoPool \notin spare
         /\ \A a \in Adds : NameOf[a] \in Names
         /\ \A n \in Names : pools[n] # NoPool => pools[n] \in Registered
         /\ \A c \in Registered : \E n \in Names : pools[n] = c
         /\ shutdown.current \in Adds \cup {NoPool} /\ shutdown.visited \subseteq Adds
         /\ shutdown.at \in PoolPhases /\ shutdown.errors \in BOOLEAN /\ shutdown.runs \in Nat
         /\ Connecting = {} <=> \A a \in Adds : adds[a] # "connecting"
  BY PoolsAssumption DEF PoolsTypeOK, Registered, Names, Connecting

\* Which clients are registered, and which are connecting.
LEMMA SameClients ==
  /\ UNCHANGED pools => Registered' = Registered
  /\ UNCHANGED adds => Connecting' = Connecting
  /\ \A a \in Adds : PoolsTypeOK /\ adds' = [adds EXCEPT ![a] = "failed"] => Connecting' \subseteq Connecting
  BY DEF Registered, Connecting, Names, PoolsTypeOK

\* addPool() is refused, or creates a client.
LEMMA AddCallKeeps == ASSUME PoolsIInv, NEW a \in Adds, AddCall(a) PROVE PoolsIInv'
<1>1. CASE AddRefused(a)
  <2>1. /\ adds' = [adds EXCEPT ![a] = "failed"]
        /\ UNCHANGED <<pools, spare, openClients, removes, shutdown, managerClosed>>
    BY <1>1 DEF AddCall
  <2>2. PoolsTypeOK' /\ NamesApart' /\ EveryClientOwned'
    BY <2>1 DEF PoolsIInv, PoolsTypeOK, NamesApart, EveryClientOwned, Registered, Names
  <2>3. Shutting'
    BY <2>1, SameClients DEF PoolsIInv, Shutting
  <2> QED
    BY <2>2, <2>3 DEF PoolsIInv
<1>2. CASE ~AddRefused(a)
  <2>1. /\ adds' = [adds EXCEPT ![a] = "connecting"]
        /\ spare' = spare \cup ({a} \ Unreported)
        /\ openClients' = openClients \cup ({a} \ Unreported)
        /\ UNCHANGED <<pools, removes, shutdown, managerClosed>>
    BY <1>2 DEF AddCall
  <2>2. /\ ~managerClosed /\ pools[NameOf[a]] = NoPool
        /\ \A b \in Adds : adds[b] = "connecting" => NameOf[b] # NameOf[a]
    BY <1>2 DEF AddRefused, Connecting
  <2>3. PoolsTypeOK' /\ NamesApart' /\ EveryClientOwned'
    BY <2>1, <2>2 DEF PoolsIInv, PoolsTypeOK, NamesApart, EveryClientOwned, Registered, Names
  <2>4. Shutting'
    BY <2>1, <2>2 DEF PoolsIInv, Shutting
  <2> QED
    BY <2>3, <2>4 DEF PoolsIInv
<1> QED
  BY <1>1, <1>2

\* The client has connected: it is registered, or to be closed if the manager is closed.
LEMMA AddConnectsKeeps == ASSUME PoolsIInv, NEW a \in Adds, AddConnects(a) PROVE PoolsIInv'
<1>1. /\ adds[a] = "connecting" /\ openClients' = openClients \cup {a}
      /\ UNCHANGED <<removes, shutdown, managerClosed>>
      /\ Connecting # {}
  BY DEF AddConnects, Connecting
<1>2. shutdown.at \in {"none", "adds"}
  BY <1>1, PoolsTyped DEF PoolsIInv, Shutting, PoolPhases
<1>3. CASE managerClosed
  <2>1. /\ adds' = [adds EXCEPT ![a] = "failed"] /\ spare' = spare \cup {a} /\ UNCHANGED pools
    BY <1>3 DEF AddConnects
  <2>2. PoolsTypeOK' /\ NamesApart' /\ EveryClientOwned'
    BY <1>1, <2>1 DEF PoolsIInv, PoolsTypeOK, NamesApart, EveryClientOwned, Registered, Names
  <2> QED
    BY <1>1, <1>2, <2>2 DEF PoolsIInv, Shutting
<1>4. CASE ~managerClosed
  <2>1. /\ adds' = [adds EXCEPT ![a] = "added"]
        /\ pools' = [pools EXCEPT ![NameOf[a]] = a] /\ spare' = spare \ {a}
    BY <1>4 DEF AddConnects
  <2>2. pools \in [Names -> Adds \cup {NoPool}] /\ NameOf[a] \in Names /\ pools[NameOf[a]] = NoPool
    BY <1>1, PoolsTyped DEF PoolsIInv, NamesApart, PoolsTypeOK
  <2>3. PoolsTypeOK'
    BY <1>1, <2>1, <2>2 DEF PoolsIInv, PoolsTypeOK
  <2>4. NamesApart'
    BY <1>1, <2>1, <2>2, PoolsTyped DEF PoolsIInv, NamesApart, PoolsTypeOK
  <2>5. Registered' = Registered \cup {a}
    BY <2>1, <2>2, PoolsAssumption DEF Registered
  <2>6. EveryClientOwned'
    BY <1>1, <2>1, <2>5 DEF PoolsIInv, EveryClientOwned
  <2> QED
    BY <1>1, <1>2, <2>3, <2>4, <2>6 DEF PoolsIInv, Shutting
<1> QED
  BY <1>3, <1>4

\* A client is closed.
LEMMA ClientClosesKeeps == ASSUME PoolsIInv, NEW c \in Adds, ClientCloses(c) PROVE PoolsIInv'
<1>1. /\ openClients' = openClients \ {c} /\ spare' = spare \ {c}
      /\ pools' = [n \in Names |-> IF pools[n] = c THEN NoPool ELSE pools[n]]
      /\ removes' = [m \in Removes |-> IF m \in Waits(c) THEN "done" ELSE removes[m]]
      /\ shutdown' = [shutdown EXCEPT !.current = IF @ = c THEN NoPool ELSE @]
      /\ UNCHANGED <<adds, managerClosed>>
  BY DEF ClientCloses
<1>2. Registered' = Registered \ {c}
  BY <1>1, PoolsAssumption DEF Registered, PoolsIInv, PoolsTypeOK
<1>3. /\ shutdown'.at = shutdown.at /\ shutdown'.visited = shutdown.visited
      /\ shutdown'.errors = shutdown.errors
      /\ shutdown'.current = IF shutdown.current = c THEN NoPool ELSE shutdown.current
  BY <1>1 DEF PoolsIInv, PoolsTypeOK
<1>4. PoolsTypeOK'
  BY <1>1 DEF PoolsIInv, PoolsTypeOK
<1>5. NamesApart'
  BY <1>1, PoolsTyped DEF PoolsIInv, NamesApart, PoolsTypeOK
<1>6. EveryClientOwned'
  BY <1>1, <1>2 DEF PoolsIInv, EveryClientOwned
<1>7. Shutting'
  BY <1>1, <1>2, <1>3 DEF PoolsIInv, Shutting, Connecting
<1> QED
  BY <1>4, <1>5, <1>6, <1>7 DEF PoolsIInv

\* A client fails to close: whoever waits for it fails.
LEMMA ClientCloseFailsKeeps ==
  ASSUME PoolsIInv, NEW c \in Adds, ClientCloseFails(c) PROVE PoolsIInv'
<1>1. /\ removes' = [m \in Removes |-> IF m \in Waits(c) THEN "failed" ELSE removes[m]]
      /\ shutdown' = IF shutdown.current = c
                     THEN [shutdown EXCEPT !.current = NoPool, !.errors = TRUE] ELSE shutdown
      /\ UNCHANGED <<adds, pools, spare, openClients, managerClosed>>
  BY DEF ClientCloseFails
<1>2. shutdown'.at = shutdown.at /\ (~shutdown'.errors => shutdown' = shutdown)
  BY <1>1 DEF PoolsIInv, PoolsTypeOK
<1>3. PoolsTypeOK' /\ NamesApart' /\ EveryClientOwned'
  <2>1. PoolsTypeOK'
    BY <1>1 DEF PoolsIInv, PoolsTypeOK
  <2> QED
    BY <1>1, <2>1, SameClients DEF PoolsIInv, NamesApart, EveryClientOwned
<1>5. Shutting'
  BY <1>1, <1>2, SameClients DEF PoolsIInv, Shutting
<1> QED
  BY <1>3, <1>5 DEF PoolsIInv

\* close() comes to the next client.
LEMMA CloseNextKeeps == ASSUME PoolsIInv, CloseNext PROVE PoolsIInv'
<1>1. /\ shutdown.at \in {"pools", "spare"} /\ shutdown.current = NoPool
      /\ UNCHANGED <<adds, pools, spare, openClients, removes, managerClosed>>
  BY DEF CloseNext
<1>2. NamesApart' /\ EveryClientOwned' /\ Registered' = Registered /\ Connecting' = Connecting
  BY <1>1 DEF PoolsIInv, NamesApart, EveryClientOwned, Registered, Names, Connecting
<1>3. /\ Connecting = {} /\ managerClosed
      /\ Registered \subseteq Adds /\ spare \subseteq Adds
      /\ NoPool \notin Registered /\ NoPool \notin spare
  BY <1>1, PoolsTyped DEF PoolsIInv, Shutting, PoolsTypeOK
<1>4. CASE ToClose # {}
  <2>1. PICK c \in ToClose : shutdown' = [shutdown EXCEPT !.current = c, !.visited = @ \cup {c}]
    BY <1>4 DEF CloseNext
  <2>2. c \in Adds
    BY <1>3 DEF ToClose
  <2>3. PoolsTypeOK'
    BY <1>1, <2>1, <2>2 DEF PoolsIInv, PoolsTypeOK
  <2>4. /\ shutdown'.at = shutdown.at /\ shutdown'.errors = shutdown.errors
        /\ shutdown'.visited = shutdown.visited \cup {c} /\ shutdown'.current = c
    BY <2>1 DEF PoolsIInv, PoolsTypeOK
  <2>5. Shutting'
    BY <1>1, <1>2, <1>3, <2>4 DEF PoolsIInv, Shutting
  <2> QED
    BY <1>2, <2>3, <2>5 DEF PoolsIInv
<1>5. CASE ToClose = {}
  <2>1. shutdown' = [shutdown EXCEPT !.visited = {},
                       !.at = IF @ = "pools" THEN "spare"
                              ELSE IF shutdown.errors THEN "failed" ELSE "done"]
    BY <1>5 DEF CloseNext
  <2>2. PoolsTypeOK'
    BY <1>1, <2>1 DEF PoolsIInv, PoolsTypeOK, PoolPhases
  <2>3. /\ shutdown'.visited = {} /\ shutdown'.errors = shutdown.errors
        /\ shutdown'.at = IF shutdown.at = "pools" THEN "spare"
                          ELSE IF shutdown.errors THEN "failed" ELSE "done"
    BY <2>1 DEF PoolsIInv, PoolsTypeOK
  <2>4. shutdown.at = "pools" /\ ~shutdown.errors => Registered = {}
    BY <1>1, <1>3, <1>5 DEF PoolsIInv, Shutting, ToClose
  <2>5. shutdown.at = "spare" /\ ~shutdown.errors => Registered = {} /\ spare = {}
    BY <1>1, <1>3, <1>5 DEF PoolsIInv, Shutting, ToClose
  <2>6. Shutting'
    BY <1>1, <1>2, <1>3, <2>3, <2>4, <2>5 DEF Shutting
  <2> QED
    BY <1>2, <2>2, <2>6 DEF PoolsIInv
<1> QED
  BY <1>4, <1>5

\* Every step of the pools keeps the invariant.
LEMMA PoolsStep == PoolsIInv /\ [PoolsNext]_poolVars => PoolsIInv'
<1> SUFFICES ASSUME PoolsIInv, [PoolsNext]_poolVars PROVE PoolsIInv'
  OBVIOUS
<1>1. ASSUME NEW a \in Adds, AddFails(a) PROVE PoolsIInv'
  <2>1. /\ adds' = [adds EXCEPT ![a] = "failed"]
        /\ UNCHANGED <<pools, spare, openClients, removes, shutdown, managerClosed>>
    BY <1>1 DEF AddFails
  <2>2. PoolsTypeOK' /\ NamesApart' /\ EveryClientOwned'
    BY <2>1 DEF PoolsIInv, PoolsTypeOK, NamesApart, EveryClientOwned, Registered, Names
  <2>3. Shutting'
    BY <2>1, SameClients DEF PoolsIInv, Shutting
  <2> QED
    BY <2>2, <2>3 DEF PoolsIInv
<1>2. ASSUME NEW m \in Removes, NEW n \in Names, RemoveCall(m, n) PROVE PoolsIInv'
  <2>1. /\ removes' = [removes EXCEPT ![m] = IF pools[n] = NoPool THEN "failed" ELSE pools[n]]
        /\ UNCHANGED <<adds, pools, spare, openClients, shutdown, managerClosed>>
    BY <1>2 DEF RemoveCall
  <2>2. PoolsTypeOK'
    BY <2>1 DEF PoolsIInv, PoolsTypeOK
  <2>3. NamesApart' /\ EveryClientOwned' /\ Shutting'
    BY <2>1 DEF PoolsIInv, NamesApart, EveryClientOwned, Shutting, Registered, Connecting, Names
  <2> QED
    BY <2>2, <2>3 DEF PoolsIInv
<1>3. CASE PoolsCloseCall
  <2>1. /\ managerClosed' = TRUE
        /\ shutdown' = [at |-> "adds", visited |-> {}, current |-> NoPool, errors |-> FALSE,
                        runs |-> shutdown.runs + 1]
        /\ UNCHANGED <<adds, pools, spare, openClients, removes>>
    BY <1>3 DEF PoolsCloseCall
  <2>2. PoolsTypeOK'
    BY <2>1 DEF PoolsIInv, PoolsTypeOK, PoolPhases
  <2>3. NamesApart' /\ EveryClientOwned' /\ Shutting'
    BY <2>1 DEF PoolsIInv, NamesApart, EveryClientOwned, Shutting, Registered, Names
  <2> QED
    BY <2>2, <2>3 DEF PoolsIInv
<1>4. CASE AddsSettled
  <2>1. /\ shutdown.at = "adds" /\ Connecting = {} /\ shutdown' = [shutdown EXCEPT !.at = "pools"]
        /\ UNCHANGED <<adds, pools, spare, openClients, removes, managerClosed>>
    BY <1>4 DEF AddsSettled
  <2>2. PoolsTypeOK'
    BY <2>1 DEF PoolsIInv, PoolsTypeOK, PoolPhases
  <2> QED
    <3>1. /\ shutdown'.at = "pools" /\ shutdown'.visited = shutdown.visited
          /\ shutdown'.errors = shutdown.errors /\ shutdown'.current = shutdown.current
      BY <2>1 DEF PoolsIInv, PoolsTypeOK
    <3>2. NamesApart' /\ EveryClientOwned'
      BY <2>1, SameClients DEF PoolsIInv, NamesApart, EveryClientOwned
    <3>3. Shutting'
      BY <2>1, <3>1, SameClients DEF PoolsIInv, Shutting
    <3> QED
      BY <2>2, <3>2, <3>3 DEF PoolsIInv
<1>5. CASE UNCHANGED poolVars
  <2>1. UNCHANGED <<adds, pools, spare, openClients, removes, shutdown, managerClosed>>
    BY <1>5 DEF poolVars
  <2>2. PoolsTypeOK'
    BY <2>1 DEF PoolsIInv, PoolsTypeOK
  <2> QED
    BY <2>1, <2>2, SameClients DEF PoolsIInv, NamesApart, EveryClientOwned, Shutting
<1> QED
  BY <1>1, <1>2, <1>3, <1>4, <1>5, AddCallKeeps, AddConnectsKeeps, ClientClosesKeeps,
     ClientCloseFailsKeeps, CloseNextKeeps DEF PoolsNext

(* For any calls of addPool(), removePool() and close(), whatever fails in  *)
(* them: an open client is held by its pool or among the spare ones, and a  *)
(* close() that ends without an error has closed all of them.               *)
THEOREM NoClientLeaks == PoolsSpec => []ClientsAccounted
<1>1. PoolsIInv => ClientsAccounted
  BY DEF PoolsIInv, ClientsAccounted, CloseClosesAll, EveryClientOwned, Shutting
<1> QED
  BY <1>1, PoolsStart, PoolsStep, PTL DEF PoolsSpec

-----------------------------------------------------------------------------
(***************************************************************************)
(* Slow-query log.  No entry is twice in the buffer or the batch, and the  *)
(* entries handed to the queue are shared out among the buffer, the batch  *)
(* and the fates.  A close() that drains the queue has no call left that   *)
(* could add to it, and passes on only when nothing is left.               *)
(***************************************************************************)
Distinct(s) == \A i, j \in 1..Len(s) : s[i] = s[j] => i = j
Handed(e) == saves[e] \in {"flush", "done"}
InQueue == Elems(buffer) \cup Elems(batch)
Gone == gone["saved"] \cup gone["lost"] \cup gone["dropped"]

SharedOut ==
  /\ buffer \in Seq(Logs) /\ batch \in Seq(Logs) /\ Distinct(buffer) /\ Distinct(batch)
  /\ Elems(buffer) \cap Elems(batch) = {} /\ InQueue \cap Gone = {}
  /\ gone["saved"] \cap gone["lost"] = {} /\ gone["saved"] \cap gone["dropped"] = {}
  /\ gone["lost"] \cap gone["dropped"] = {}
  /\ \A e \in Logs : Handed(e) <=> e \in InQueue \cup Gone
  /\ flush # "saving" => batch = <<>>

Idle == buffer = <<>> /\ flush = "none" /\ ~logTimer

Sealed ==
  /\ store.at # "ready" => Idle
  /\ seal \in {"drain", "storage"} => Pending = {}
  /\ seal = "drain" /\ logTimer => buffer # <<>>
  /\ seal = "storage" => Idle

LogIInv == LogTypeOK /\ SharedOut /\ Sealed

\* The elements of a sequence.
LEMMA ElemsAre ==
  ASSUME NEW s \in Seq(Logs)
  PROVE  Elems(s) = {s[i] : i \in 1..Len(s)} /\ Elems(s) \subseteq Logs
  BY DEF Elems

\* The empty batch.
LEMMA ElemsOfEmpty == Elems(<<>>) = {} /\ Distinct(<<>>) /\ <<>> \in Seq(Logs) /\ Len(<<>>) = 0
  BY DEF Elems, Distinct

\* An entry is appended that was not there.
LEMMA Appended ==
  ASSUME NEW s \in Seq(Logs), NEW e \in Logs, Distinct(s), e \notin Elems(s)
  PROVE  /\ Append(s, e) \in Seq(Logs) /\ Distinct(Append(s, e))
         /\ Elems(Append(s, e)) = Elems(s) \cup {e} /\ Len(Append(s, e)) = Len(s) + 1
<1>1. /\ Append(s, e) \in Seq(Logs) /\ Len(Append(s, e)) = Len(s) + 1 /\ Len(s) \in Nat
      /\ \A i \in 1..Len(s) : Append(s, e)[i] = s[i] /\ s[i] \in Elems(s)
      /\ Append(s, e)[Len(s) + 1] = e
  BY DEF Elems
<1>2. Distinct(Append(s, e))
  BY <1>1 DEF Distinct
<1>3. Elems(Append(s, e)) = Elems(s) \cup {e}
  <2>1. Elems(Append(s, e)) = {Append(s, e)[i] : i \in 1..(Len(s) + 1)}
    BY <1>1 DEF Elems
  <2>2. \A i \in 1..(Len(s) + 1) : i \in 1..Len(s) \/ i = Len(s) + 1
    BY <1>1
  <2>3. Elems(Append(s, e)) \subseteq Elems(s) \cup {e}
    BY <1>1, <2>1, <2>2
  <2>4. ASSUME NEW x \in Elems(s) PROVE x \in Elems(Append(s, e))
    <3>1. PICK i \in 1..Len(s) : x = s[i]
      BY <2>4, ElemsAre
    <3>2. i \in 1..(Len(s) + 1) /\ Append(s, e)[i] = x
      BY <1>1, <3>1
    <3> QED
      BY <2>1, <3>2
  <2>5. e \in Elems(Append(s, e))
    <3>1. Len(s) + 1 \in 1..(Len(s) + 1)
      BY <1>1
    <3> QED
      BY <1>1, <2>1, <3>1
  <2> QED
    BY <2>3, <2>4, <2>5
<1> QED
  BY <1>1, <1>2, <1>3

\* At most the oldest entry is dropped.
LEMMA KeptAre ==
  ASSUME NEW s \in Seq(Logs), Distinct(s), Len(s) <= MaxBufferSize + 1
  PROVE  /\ Kept(s) \in Seq(Logs) /\ Distinct(Kept(s)) /\ Len(Kept(s)) <= MaxBufferSize
         /\ Elems(Kept(s)) \subseteq Elems(s)
<1>1. MaxBufferSize \in Nat /\ MaxBufferSize >= 1 /\ Len(s) \in Nat
  BY LogAssumption
<1>2. CASE Len(s) <= MaxBufferSize
  BY <1>1, <1>2 DEF Kept
<1>3. CASE Len(s) > MaxBufferSize
  <2>1. Len(s) = MaxBufferSize + 1 /\ Kept(s) = SubSeq(s, 2, Len(s))
    BY <1>1, <1>3 DEF Kept
  <2>2. /\ Kept(s) \in Seq(Logs) /\ Len(Kept(s)) = Len(s) - 1
        /\ \A i \in 1..(Len(s) - 1) : Kept(s)[i] = s[i + 1]
    BY <1>1, <2>1
  <2>3. Distinct(Kept(s))
    BY <1>1, <2>2 DEF Distinct
  <2>4. Elems(Kept(s)) \subseteq Elems(s)
    BY <1>1, <2>2, ElemsAre
  <2> QED
    BY <1>1, <2>1, <2>2, <2>3, <2>4
<1> QED
  BY <1>1, <1>2, <1>3

\* How often an entry is in a sequence without repetitions.
LEMMA CopiesAre ==
  ASSUME NEW s \in Seq(Logs), Distinct(s), NEW e
  PROVE  Cardinality({i \in DOMAIN s : s[i] = e}) = IF e \in Elems(s) THEN 1 ELSE 0
<1>1. CASE e \in Elems(s)
  <2>1. PICK i \in 1..Len(s) : s[i] = e
    BY <1>1, ElemsAre
  <2>2. {j \in DOMAIN s : s[j] = e} = {i}
    BY <2>1 DEF Distinct
  <2> QED
    BY <1>1, <2>2, FS_Singleton
<1>2. CASE e \notin Elems(s)
  <2>1. {j \in DOMAIN s : s[j] = e} = {}
    BY <1>2 DEF Elems
  <2> QED
    BY <1>2, <2>1, FS_EmptySet
<1> QED
  BY <1>1, <1>2

\* The log is empty at first.
LEMMA LogStarts == LogInit => LogIInv
<1> SUFFICES ASSUME LogInit PROVE LogIInv
  OBVIOUS
<1>1. /\ gone \in [Fates -> SUBSET Logs] /\ Gone = {} /\ InQueue = {}
      /\ \A f \in Fates : gone[f] = {}
  BY ElemsOfEmpty DEF LogInit, Gone, InQueue, Fates
<1>2. LogTypeOK
  <2>1. /\ logTimer \in BOOLEAN /\ ~logTimer
        /\ store \in [client : BOOLEAN, at : {"none", "client", "indexes", "ready"}]
    BY DEF LogInit
  <2> QED
    BY <1>1, <2>1, ElemsOfEmpty, LogAssumption DEF LogInit, LogTypeOK
<1>3. SharedOut
  BY <1>1, ElemsOfEmpty DEF LogInit, SharedOut, Handed, Fates
<1>4. Sealed
  BY DEF LogInit, Sealed, Idle
<1> QED
  BY <1>2, <1>3, <1>4 DEF LogIInv

\* Steps that leave the queue and its fates alone, and hand nothing over.
LEMMA SharedOutStays ==
  ASSUME SharedOut, UNCHANGED <<buffer, batch, gone>>, flush' = flush \/ flush # "saving",
         \A e \in Logs : Handed(e)' <=> Handed(e)
  PROVE  SharedOut'
<1>1. Elems(buffer)' = Elems(buffer) /\ Elems(batch)' = Elems(batch)
  BY DEF Elems
<1>2. Distinct(buffer)' /\ Distinct(batch)' /\ Gone' = Gone /\ InQueue' = InQueue
  BY <1>1 DEF SharedOut, Distinct, Gone, InQueue
<1>3. flush' # "saving" => batch' = <<>>
  BY DEF SharedOut
<1> QED
  BY <1>1, <1>2, <1>3 DEF SharedOut

\* An entry is buffered, which may drop the oldest or begin a flush.
LEMMA AddKeeps == ASSUME LogIInv, NEW e \in Logs, Add(e) PROVE LogIInv'
<1> DEFINE all == Append(buffer, e)
<1>1. /\ saves[e] = "accepted" /\ store.at = "ready" /\ buffer' = Kept(all)
      /\ gone' = [gone EXCEPT !["dropped"] = @ \cup (Elems(all) \ Elems(Kept(all)))]
      /\ saves' = [saves EXCEPT ![e] = "done"] \/ saves' = [saves EXCEPT ![e] = "flush"]
      /\ flush' \in {flush, "queued"} /\ (flush' = "queued" => flush # "saving")
      /\ UNCHANGED <<batch, seal, store, closes>> /\ logTimer' \in BOOLEAN
  BY DEF Add, Flushed, LogIInv, LogTypeOK
<1>2. /\ e \notin Elems(buffer) /\ e \notin InQueue \cup Gone
      /\ buffer \in Seq(Logs) /\ Distinct(buffer) /\ Len(buffer) <= MaxBufferSize
      /\ Len(buffer) \in Nat /\ MaxBufferSize \in Nat
      /\ gone \in [Fates -> SUBSET Logs]
      /\ saves \in [Logs -> {"new", "accepted", "flush", "done", "refused", "failed"}]
  BY <1>1, LogAssumption DEF LogIInv, LogTypeOK, SharedOut, Handed, InQueue
<1>3. /\ all \in Seq(Logs) /\ Distinct(all) /\ Elems(all) = Elems(buffer) \cup {e}
      /\ Len(all) <= MaxBufferSize + 1
  BY <1>2, Appended
<1> HIDE DEF all
<1>4. /\ Kept(all) \in Seq(Logs) /\ Distinct(Kept(all)) /\ Len(Kept(all)) <= MaxBufferSize
      /\ Elems(Kept(all)) \subseteq Elems(all) /\ Elems(Kept(all)) \subseteq Logs
      /\ Elems(all) \subseteq Logs
  BY <1>3, KeptAre, ElemsAre
<1> DEFINE out == Elems(all) \ Elems(Kept(all))
<1>5. /\ gone' \in [Fates -> SUBSET Logs]
      /\ gone'["saved"] = gone["saved"] /\ gone'["lost"] = gone["lost"]
      /\ gone'["dropped"] = gone["dropped"] \cup out
  <2>1. out \subseteq Logs /\ gone' = [gone EXCEPT !["dropped"] = @ \cup out]
    BY <1>1, <1>4
  <2> QED
    BY <1>2, <2>1 DEF Fates
<1>6. /\ saves' \in [Logs -> {"new", "accepted", "flush", "done", "refused", "failed"}]
      /\ Handed(e)' /\ \A x \in Logs : x # e => (Handed(x)' <=> Handed(x))
      /\ \A x \in Logs : x # e => saves'[x] = saves[x]
  BY <1>1, <1>2 DEF Handed
<1>7. /\ Elems(buffer)' = Elems(Kept(all)) /\ Elems(batch)' = Elems(batch)
      /\ Distinct(buffer)' /\ (Distinct(batch) => Distinct(batch)')
  BY <1>1, <1>4 DEF Elems, Distinct
<1>8. LogTypeOK'
  <2>1. seal' = seal /\ store' = store /\ closes' = closes /\ batch' = batch
    BY <1>1
  <2>2. Elems(buffer') \subseteq Logs /\ Elems(batch') \subseteq Logs /\ Len(buffer') <= MaxBufferSize
    BY <1>1, <1>4, <2>1 DEF LogIInv, LogTypeOK
  <2>3. flush' \in {"none", "queued", "saving"} /\ logTimer' \in BOOLEAN
    BY <1>1 DEF LogIInv, LogTypeOK
  <2>4. /\ seal' \in {"open", "settle", "drain", "storage", "stuck"} /\ closes' \in 0..LogCloses
    BY <2>1 DEF LogIInv, LogTypeOK
  <2>5. store' \in [client : BOOLEAN, at : {"none", "client", "indexes", "ready"}]
    BY <2>1 DEF LogIInv, LogTypeOK
  <2> QED
    BY <1>5, <1>6, <2>2, <2>3, <2>4, <2>5 DEF LogTypeOK
<1>9. SharedOut'
  <2>1. /\ out \cup Elems(Kept(all)) = Elems(buffer) \cup {e} /\ out \cap Elems(Kept(all)) = {}
    BY <1>3, <1>4
  <2>2. Gone' = Gone \cup out /\ InQueue' = Elems(Kept(all)) \cup Elems(batch)
    BY <1>5, <1>7 DEF Gone, InQueue
  <2>3. flush' # "saving" => batch' = <<>>
    BY <1>1 DEF LogIInv, SharedOut
  <2> HIDE DEF out
  <2>4. /\ Elems(buffer) \cap Elems(batch) = {} /\ InQueue \cap Gone = {}
        /\ InQueue = Elems(buffer) \cup Elems(batch)
        /\ \A x \in Logs : Handed(x) <=> x \in InQueue \cup Gone
        /\ Gone = gone["saved"] \cup gone["lost"] \cup gone["dropped"]
        /\ gone["saved"] \cap gone["lost"] = {} /\ gone["saved"] \cap gone["dropped"] = {}
        /\ gone["lost"] \cap gone["dropped"] = {}
    BY DEF LogIInv, SharedOut, InQueue, Gone
  <2>5. Elems(Kept(all)) \cap Elems(batch) = {} /\ InQueue' \cap Gone' = {}
    BY <1>2, <2>1, <2>2, <2>4
  <2>6. /\ gone'["saved"] \cap gone'["lost"] = {} /\ gone'["saved"] \cap gone'["dropped"] = {}
        /\ gone'["lost"] \cap gone'["dropped"] = {}
    BY <1>2, <1>5, <2>1, <2>4
  <2>7. InQueue' \cup Gone' = InQueue \cup Gone \cup {e}
    BY <2>1, <2>2, <2>4
  <2>8. \A x \in Logs : Handed(x)' <=> x \in InQueue' \cup Gone'
    BY <1>6, <2>4, <2>7
  <2> QED
    BY <1>1, <1>4, <1>7, <2>3, <2>5, <2>6, <2>8 DEF SharedOut, LogIInv
<1>10. Sealed'
  <2>1. seal \notin {"drain", "storage"}
    BY <1>1 DEF LogIInv, Sealed, Pending
  <2> QED
    BY <1>1, <2>1 DEF Sealed
<1> QED
  BY <1>8, <1>9, <1>10 DEF LogIInv

\* A flush takes the buffer.
LEMMA FlushBeginsKeeps == ASSUME LogIInv, FlushBegins PROVE LogIInv'
<1>1. /\ flush = "queued" /\ flush' = "saving" /\ batch' = buffer /\ buffer' = <<>>
      /\ logTimer' = FALSE /\ batch = <<>>
      /\ UNCHANGED <<saves, seal, store, gone, closes>>
  BY DEF FlushBegins, LogIInv, SharedOut
<1>2. /\ Elems(buffer)' = {} /\ Elems(batch)' = Elems(buffer) /\ Elems(batch) = {}
      /\ Distinct(buffer)' /\ (Distinct(buffer) => Distinct(batch)')
  BY <1>1, ElemsOfEmpty DEF Elems, Distinct
<1>3. Gone' = Gone /\ InQueue' = InQueue /\ Pending' = Pending
  BY <1>1, <1>2 DEF Gone, InQueue, Pending
<1>4. LogTypeOK'
  <2>1. Len(buffer') <= MaxBufferSize
    BY <1>1, LogAssumption, ElemsOfEmpty
  <2>2. logTimer' \in BOOLEAN
    BY <1>1, Zenon
  <2>3. Elems(buffer') \subseteq Logs /\ Elems(batch') \subseteq Logs
    BY <1>1, <1>2 DEF LogIInv, LogTypeOK
  <2> QED
    BY <1>1, <2>1, <2>2, <2>3 DEF LogIInv, LogTypeOK
<1>5. SharedOut'
  BY <1>1, <1>2, <1>3, ElemsOfEmpty DEF LogIInv, SharedOut, Handed
<1>6. store.at = "ready" /\ seal # "storage"
  BY <1>1 DEF LogIInv, Sealed, Idle
<1>7. Sealed'
  BY <1>1, <1>3, <1>6 DEF LogIInv, Sealed
<1> QED
  BY <1>4, <1>5, <1>7 DEF LogIInv

\* A flush ends: some of its entries are stored and the others lost.
LEMMA FlushEndsKeeps == ASSUME LogIInv, NEW saved \in SUBSET Elems(batch), FlushEnds(saved) PROVE LogIInv'
<1>1. /\ flush = "saving" /\ batch' = <<>>
      /\ gone' = [gone EXCEPT !["saved"] = @ \cup saved, !["lost"] = @ \cup (Elems(batch) \ saved)]
      /\ saves' = [e \in Logs |-> IF saves[e] = "flush" THEN "done" ELSE saves[e]]
      /\ flush' = IF Len(buffer) >= BatchSize THEN "queued" ELSE "none"
      /\ logTimer' = (logTimer \/ Len(buffer) \in 1..(BatchSize - 1))
      /\ UNCHANGED <<buffer, seal, store, closes>>
  BY DEF FlushEnds
<1>2. /\ Elems(batch)' = {} /\ Elems(buffer)' = Elems(buffer)
      /\ (Distinct(buffer) => Distinct(buffer)') /\ Distinct(batch)'
  BY <1>1, ElemsOfEmpty DEF Elems, Distinct
<1>3. /\ gone \in [Fates -> SUBSET Logs] /\ Elems(batch) \subseteq Logs
      /\ saves \in [Logs -> {"new", "accepted", "flush", "done", "refused", "failed"}]
  BY DEF LogIInv, LogTypeOK
<1>4. /\ gone' \in [Fates -> SUBSET Logs] /\ gone'["saved"] = gone["saved"] \cup saved
      /\ gone'["lost"] = gone["lost"] \cup (Elems(batch) \ saved)
      /\ gone'["dropped"] = gone["dropped"]
  BY <1>1, <1>3 DEF Fates
<1>5. /\ \A e \in Logs : Handed(e)' <=> Handed(e)
      /\ saves' \in [Logs -> {"new", "accepted", "flush", "done", "refused", "failed"}]
      /\ Pending' \subseteq Pending
  BY <1>1, <1>3 DEF Handed, Pending
<1>6. LogTypeOK'
  BY <1>1, <1>2, <1>4, <1>5 DEF LogIInv, LogTypeOK
<1>7. SharedOut'
  <2>1. Gone' = Gone \cup Elems(batch) /\ InQueue' = Elems(buffer)
        /\ InQueue = Elems(buffer) \cup Elems(batch)
    BY <1>2, <1>4 DEF Gone, InQueue
  <2>2. InQueue' \cap Gone' = {} /\ InQueue' \cup Gone' = InQueue \cup Gone
    BY <2>1 DEF LogIInv, SharedOut
  <2>3. /\ gone'["saved"] \cap gone'["lost"] = {} /\ gone'["saved"] \cap gone'["dropped"] = {}
        /\ gone'["lost"] \cap gone'["dropped"] = {}
    <3>1. /\ Elems(batch) \cap gone["saved"] = {} /\ Elems(batch) \cap gone["lost"] = {}
          /\ Elems(batch) \cap gone["dropped"] = {}
      BY DEF LogIInv, SharedOut, InQueue, Gone
    <3> QED
      BY <1>4, <3>1 DEF LogIInv, SharedOut
  <2> QED
    BY <1>1, <1>2, <1>5, <2>1, <2>2, <2>3, ElemsOfEmpty DEF LogIInv, SharedOut
<1>8. Sealed'
  <2>1. store.at = "ready" /\ seal # "storage"
    BY <1>1 DEF LogIInv, Sealed, Idle
  <2>2. Len(buffer) \in 1..(BatchSize - 1) => buffer # <<>>
    BY ElemsOfEmpty
  <2> QED
    BY <1>1, <1>5, <2>1, <2>2 DEF LogIInv, Sealed
<1> QED
  BY <1>6, <1>7, <1>8 DEF LogIInv

\* Every step of the log keeps the invariant.
LEMMA LogStep == LogIInv /\ [LogNext]_logVars => LogIInv'
<1> SUFFICES ASSUME LogIInv, [LogNext]_logVars PROVE LogIInv'
  OBVIOUS
<1> DEFINE Words == {"new", "accepted", "flush", "done", "refused", "failed"}
<1>1. /\ saves \in [Logs -> Words] /\ store \in [client : BOOLEAN, at : {"none", "client", "indexes", "ready"}]
      /\ closes \in 0..LogCloses /\ LogCloses \in Nat /\ logTimer \in BOOLEAN
      /\ flush \in {"none", "queued", "saving"}
  BY LogAssumption DEF LogIInv, LogTypeOK
<1>2. ASSUME UNCHANGED <<buffer, batch, gone>>, saves' \in [Logs -> Words],
             flush' = flush \/ (flush # "saving" /\ flush' = "queued"), logTimer' \in BOOLEAN,
             seal' \in {"open", "settle", "drain", "storage", "stuck"},
             store' \in [client : BOOLEAN, at : {"none", "client", "indexes", "ready"}],
             closes' \in 0..LogCloses, \A e \in Logs : Handed(e)' <=> Handed(e), Sealed'
      PROVE  LogIInv'
  <2>1. LogTypeOK'
    BY <1>1, <1>2 DEF LogIInv, LogTypeOK, Elems
  <2> QED
    BY <1>2, <2>1, SharedOutStays DEF LogIInv
<1>3. ASSUME NEW e \in Logs, Save(e) PROVE LogIInv'
  <2>1. /\ saves[e] = "new"
        /\ saves' = [saves EXCEPT ![e] = IF seal = "open" THEN "accepted" ELSE "refused"]
        /\ UNCHANGED <<buffer, batch, flush, logTimer, seal, store, gone, closes>>
    BY <1>3 DEF Save
  <2>2. saves' \in [Logs -> Words] /\ \A x \in Logs : Handed(x)' <=> Handed(x)
    BY <1>1, <2>1 DEF Handed
  <2>3. seal \in {"drain", "storage"} => Pending' = Pending
    BY <1>1, <2>1 DEF Pending
  <2>4. Sealed'
    BY <2>1, <2>3 DEF LogIInv, Sealed, Idle
  <2> QED
    BY <1>1, <1>2, <2>1, <2>2, <2>4 DEF LogIInv, LogTypeOK
<1>4. CASE InitializeStorage \/ ClientOpens \/ IndexesCreated
  <2>1. /\ store' \in [client : BOOLEAN, at : {"none", "client", "indexes", "ready"}]
        /\ store.at # "ready"
        /\ UNCHANGED <<saves, buffer, batch, flush, logTimer, seal, gone, closes>>
    <3>1. CASE InitializeStorage
      BY <1>1, <3>1 DEF InitializeStorage
    <3>2. CASE ClientOpens
      BY <1>1, <3>2 DEF ClientOpens
    <3>3. CASE IndexesCreated
      BY <1>1, <3>3 DEF IndexesCreated
    <3> QED
      BY <1>4, <3>1, <3>2, <3>3
  <2>2. Sealed' /\ \A x \in Logs : Handed(x)' <=> Handed(x)
    BY <2>1 DEF LogIInv, Sealed, Idle, Handed, Pending
  <2> QED
    BY <1>1, <1>2, <2>1, <2>2 DEF LogIInv, LogTypeOK
<1>5. CASE InitializationFails
  <2>1. /\ store.at \in {"client", "indexes"} /\ store' = [store EXCEPT !.at = "none"]
        /\ saves' = [e \in Logs |-> IF saves[e] = "accepted" THEN "failed" ELSE saves[e]]
        /\ UNCHANGED <<buffer, batch, flush, logTimer, seal, gone, closes>>
    BY <1>5 DEF InitializationFails
  <2>2. /\ saves' \in [Logs -> Words] /\ \A x \in Logs : Handed(x)' <=> Handed(x)
        /\ Pending' \subseteq Pending
        /\ store' \in [client : BOOLEAN, at : {"none", "client", "indexes", "ready"}]
    BY <1>1, <2>1 DEF Handed, Pending
  <2>3. Sealed'
    BY <2>1, <2>2 DEF LogIInv, Sealed, Idle
  <2> QED
    BY <1>1, <1>2, <2>1, <2>2, <2>3 DEF LogIInv, LogTypeOK
<1>6. CASE TimerFires
  <2>1. /\ logTimer /\ logTimer' = FALSE /\ flush' = Flushed(buffer)
        /\ UNCHANGED <<buffer, batch, saves, seal, store, gone, closes>>
    BY <1>6 DEF TimerFires
  <2>2. flush' = flush \/ (flush # "saving" /\ flush' = "queued")
    BY <2>1 DEF Flushed
  <2>3. Sealed' /\ \A x \in Logs : Handed(x)' <=> Handed(x)
    BY <2>1 DEF LogIInv, Sealed, Idle, Handed, Pending
  <2> QED
    BY <1>1, <1>2, <2>1, <2>2, <2>3 DEF LogIInv, LogTypeOK
<1>7. CASE CloseLog
  <2>1. /\ seal' = "settle" /\ closes < LogCloses /\ closes' = closes + 1
        /\ UNCHANGED <<saves, buffer, batch, flush, logTimer, store, gone>>
    BY <1>7 DEF CloseLog
  <2>2. Sealed' /\ closes' \in 0..LogCloses /\ \A x \in Logs : Handed(x)' <=> Handed(x)
    BY <1>1, <2>1 DEF LogIInv, Sealed, Idle, Handed
  <2> QED
    BY <1>1, <1>2, <2>1, <2>2
<1>8. CASE CallsSettled
  <2>1. /\ Pending = {} /\ seal' = "drain" /\ logTimer' = FALSE
        /\ UNCHANGED <<saves, buffer, batch, flush, store, gone, closes>>
    BY <1>8 DEF CallsSettled
  <2>2. Sealed' /\ \A x \in Logs : Handed(x)' <=> Handed(x)
    BY <2>1 DEF LogIInv, Sealed, Idle, Handed, Pending
  <2> QED
    BY <1>1, <1>2, <2>1, <2>2
<1>9. CASE Drain
  <2>1. /\ seal = "drain" /\ flush = "none" /\ flush' = Flushed(buffer)
        /\ seal' = IF buffer = <<>> THEN "storage" ELSE seal
        /\ UNCHANGED <<saves, buffer, batch, logTimer, store, gone, closes>>
    BY <1>9 DEF Drain
  <2>2. /\ Pending' = Pending /\ \A x \in Logs : Handed(x)' <=> Handed(x)
        /\ flush' = IF buffer = <<>> THEN "none" ELSE "queued"
    BY <2>1 DEF Handed, Pending, Flushed
  <2>3. Sealed'
    BY <2>1, <2>2 DEF LogIInv, Sealed, Idle
  <2> QED
    BY <1>1, <1>2, <2>1, <2>2, <2>3
<1>10. CASE StorageCloses \/ StorageCloseFails
  <2>1. /\ seal = "storage" /\ seal' \in {"open", "stuck"}
        /\ store' \in [client : BOOLEAN, at : {"none", "client", "indexes", "ready"}]
        /\ UNCHANGED <<saves, buffer, batch, flush, logTimer, gone, closes>>
    <3>1. CASE StorageCloses
      BY <1>1, <3>1 DEF StorageCloses
    <3>2. CASE StorageCloseFails
      BY <1>1, <3>2 DEF StorageCloseFails
    <3> QED
      BY <1>10, <3>1, <3>2
  <2>2. Sealed' /\ \A x \in Logs : Handed(x)' <=> Handed(x)
    BY <2>1 DEF LogIInv, Sealed, Idle, Handed
  <2> QED
    BY <1>1, <1>2, <2>1, <2>2
<1>11. CASE UNCHANGED logVars
  <2>1. UNCHANGED <<saves, buffer, batch, flush, logTimer, seal, store, gone, closes>>
    BY <1>11 DEF logVars
  <2>2. Sealed' /\ \A x \in Logs : Handed(x)' <=> Handed(x)
    BY <2>1 DEF LogIInv, Sealed, Idle, Handed, Pending
  <2> QED
    BY <1>1, <1>2, <2>1, <2>2 DEF LogIInv, LogTypeOK
<1> QED
  BY <1>3, <1>4, <1>5, <1>6, <1>7, <1>8, <1>9, <1>10, <1>11, AddKeeps, FlushBeginsKeeps, FlushEndsKeeps
  DEF LogNext, Queue

(* For any entries and sizes: an entry handed to the queue is in exactly one *)
(* place, and a closed storage has nothing left that would write to it.      *)
THEOREM NoEntrySlips == LogSpec => []LogAccounted
<1>1. LogIInv => LogAccounted
  <2> SUFFICES ASSUME LogIInv PROVE LogAccounted
    OBVIOUS
  <2>1. ASSUME NEW e \in Logs
        PROVE  Cardinality({i \in DOMAIN buffer : buffer[i] = e})
               + Cardinality({i \in DOMAIN batch : batch[i] = e})
               + Cardinality({p \in Fates : e \in gone[p]})
               = IF saves[e] \in {"flush", "done"} THEN 1 ELSE 0
    <3>1. /\ Cardinality({i \in DOMAIN buffer : buffer[i] = e}) = IF e \in Elems(buffer) THEN 1 ELSE 0
          /\ Cardinality({i \in DOMAIN batch : batch[i] = e}) = IF e \in Elems(batch) THEN 1 ELSE 0
      BY CopiesAre DEF LogIInv, SharedOut
    <3>2. Cardinality({p \in Fates : e \in gone[p]}) = IF e \in Gone THEN 1 ELSE 0
      <4>1. CASE e \notin Gone
        <5>1. {p \in Fates : e \in gone[p]} = {}
          BY <4>1 DEF Gone, Fates
        <5> QED
          BY <4>1, <5>1, FS_EmptySet
      <4>2. CASE e \in Gone
        <5>1. PICK f \in Fates : e \in gone[f]
          BY <4>2 DEF Gone, Fates
        <5>2. {p \in Fates : e \in gone[p]} = {f}
          BY <5>1 DEF LogIInv, SharedOut, Fates
        <5> QED
          BY <4>2, <5>2, FS_Singleton
      <4> QED
        BY <4>1, <4>2
    <3>3. /\ ~(e \in Elems(buffer) /\ e \in Elems(batch)) /\ ~(e \in InQueue /\ e \in Gone)
          /\ e \in InQueue <=> e \in Elems(buffer) \/ e \in Elems(batch)
          /\ saves[e] \in {"flush", "done"} <=> e \in InQueue \/ e \in Gone
      BY DEF LogIInv, SharedOut, InQueue, Handed
    <3> QED
      BY <3>1, <3>2, <3>3
  <2>2. EntriesAccounted
    BY <2>1 DEF EntriesAccounted
  <2>3. ClosedIsQuiet
    BY DEF LogIInv, SharedOut, Sealed, Idle, ClosedIsQuiet
  <2> QED
    BY <2>2, <2>3 DEF LogIInv, LogAccounted
<1> QED
  BY <1>1, LogStarts, LogStep, PTL DEF LogSpec

-----------------------------------------------------------------------------

(***************************************************************************)
(* Connecting and closing.  The invariant is that of every runtime by      *)
(* itself, Local, and one of the server they share: a release under way    *)
(* has in its snapshot whatever is open, or what is open belongs to a      *)
(* startup with a greater number than any the snapshot holds.              *)
(***************************************************************************)

IsOpen(r, k, n) == <<r, k, n>> \in opened
IsRefused(r, k, n) == <<r, k, n>> \in refused
Numbers == Nat \ {0}

\* What a startup has opened when it is at one of these stages.
OpeningStages == {"tunnel", "reserve", "server", "stop", "client", "pool", "sync", "models"}
Have(at) == (IF at = "tunnel" THEN {} ELSE {"tunnel"})
            \cup (IF at \in {"client", "pool", "sync", "models"} THEN {"client"} ELSE {})
            \cup (IF at \in {"pool", "sync", "models"} THEN {"pool"} ELSE {})
            \cup (IF at = "models" THEN {"sync"} ELSE {})

\* What a release has gone past.
Past(at) == (IF at \in {"client", "stop", "tunnel"} THEN {"pool", "sync"} ELSE {})
            \cup (IF at \in {"stop", "tunnel"} THEN {"client"} ELSE {})

ReleasesRun(r) ==
  /\ release[r]["startup"].at # "none" <=> startup[r].at \in {"release", "unwind"}
  /\ release[r]["close"].at # "none" <=> closing[r] = "release"

\* What a release has gone past is closed, or the release knows that it failed.
PastFailed(r) == \A a \in Actors : \A k \in Past(release[r][a].at) :
  IsOpen(r, k, release[r][a].snap[k]) =>
    k \in release[r][a].failed /\ IsRefused(r, k, release[r][a].snap[k])

\* Every startup has a number of its own, greater than any before.
Last(r) == IF waiting[r] = "no" THEN calls[r].connect ELSE calls[r].connect - 1
Numbered(r) ==
  /\ Last(r) \in Nat
  /\ \A k \in Kinds : fields[r][k] <= Last(r) /\ release[r]["close"].snap[k] <= Last(r)
  /\ startup[r].at # "none" => startup[r].n \in 1..Last(r)

\* A startup opens its resources in order, beside nothing older.
OpensInOrder(r) == startup[r].at \in OpeningStages =>
  /\ \A k \in Kinds, n \in Numbers : IsOpen(r, k, n) => k \in Have(startup[r].at)
  /\ \A k \in Have(startup[r].at) : fields[r][k] = startup[r].n /\ IsOpen(r, k, startup[r].n)

\* A release at either end of a startup finds everything that is open.
UnwindCovers(r) == startup[r].at \in {"release", "unwind"} =>
  \A k \in Kinds, n \in Numbers : IsOpen(r, k, n) => release[r]["startup"].snap[k] = n

\* The release of close() does too, unless a startup came in between.
CloseCovers(r) == closing[r] = "release" /\ startup[r].at = "none" /\ ~connected[r] =>
  \A k \in Kinds, n \in Numbers : IsOpen(r, k, n) =>
    IsRefused(r, k, n) \/ release[r]["close"].snap[k] = n

\* The release of close() concerns nothing of a startup that came in between.
CloseIsOlder(r) == closing[r] = "release" => \A k \in Kinds :
  /\ startup[r].at # "none" => release[r]["close"].snap[k] < startup[r].n
  /\ connected[r] => release[r]["close"].snap[k] < fields[r][k]

\* A close() that awaits a startup has superseded it.
Generations(r) ==
  /\ startup[r].gen <= gen[r]
  /\ closing[r] = "await" => startup[r].at # "none" /\ startup[r].gen # gen[r]
  /\ connected[r] => startup[r].at = "none"

Owned(r) == \A k \in Kinds, n \in Numbers : IsOpen(r, k, n) => fields[r][k] = n
Whole(r) == connected[r] => \A k \in Kinds : IsOpen(r, k, fields[r][k])
Clean(r) == startup[r].at = "none" /\ closing[r] \in {"none", "cache"} /\ ~connected[r] =>
  \A k \in Kinds, n \in Numbers : IsOpen(r, k, n) => IsRefused(r, k, n)

Local(r) == /\ ReleasesRun(r) /\ PastFailed(r) /\ Numbered(r) /\ OpensInOrder(r)
            /\ UnwindCovers(r) /\ CloseCovers(r) /\ CloseIsOlder(r) /\ Generations(r)
            /\ Owned(r) /\ Whole(r) /\ Clean(r)

ServerInv ==
  /\ pending = {r \in Runtimes : startup[r].at = "server"}
  /\ \A r \in Runtimes, n \in Numbers : IsOpen(r, "client", n) => <<r, n>> \in clients
  /\ server = "down" => clients = {} /\ pending = {}
  /\ server = "starting" => clients = {} /\ pending # {}
  /\ server = "up" => clients # {} \/ pending # {}
  /\ server \in {"stopping", "left"} => clients = {} /\ pending = {}

LifeInv == LifecycleTypeOK /\ (\A r \in Runtimes : Local(r)) /\ ServerInv

Releases == [at : {"none", "services", "client", "stop", "tunnel"}, snap : [Kinds -> Nat],
             failed : SUBSET Kinds]

\* Nothing of r changes, calls that arrive or that wait aside.
Frozen(r) ==
  /\ connected'[r] = connected[r] /\ gen'[r] = gen[r] /\ fields'[r] = fields[r]
  /\ startup'[r] = startup[r] /\ closing'[r] = closing[r] /\ release'[r] = release[r]
  /\ \A k \in Kinds, n \in Numbers :
       /\ IsOpen(r, k, n)' <=> IsOpen(r, k, n)
       /\ IsRefused(r, k, n) /\ IsOpen(r, k, n) => IsRefused(r, k, n)'
Same(r) == Frozen(r) /\ waiting'[r] = waiting[r] /\ calls'[r] = calls[r]

\* Number 0 stands for no resource.
LEMMA NoZero == ASSUME LifecycleTypeOK, NEW r, NEW k PROVE ~IsOpen(r, k, 0)
  BY DEF LifecycleTypeOK, Resources, IsOpen

\* The same of the next state.
LEMMA NoZeroNext == ASSUME LifecycleTypeOK', NEW r, NEW k PROVE ~IsOpen(r, k, 0)'
  BY DEF LifecycleTypeOK, Resources, IsOpen

\* The release of one actor has its type.
LEMMA RelTyped == ASSUME LifecycleTypeOK, NEW r \in Runtimes, NEW a \in Actors
  PROVE /\ release[r][a] \in Releases /\ release[r] \in [Actors -> Releases]
        /\ release \in [Runtimes -> [Actors -> Releases]]
  BY DEF LifecycleTypeOK, Releases

\* A runtime of which only the calls have changed.
LEMMA FrozenKeeps ==
  ASSUME LifecycleTypeOK, LifecycleTypeOK', NEW r \in Runtimes, Local(r), Frozen(r),
         Last(r)' \in Nat, Last(r) <= Last(r)'
  PROVE  Local(r)'
<1>1. \A a \in Actors, k \in Kinds : release[r][a].snap[k] \in Nat
  BY RelTyped DEF Releases
<1>2. \A k \in Kinds : /\ ~IsOpen(r, k, 0) /\ ~IsOpen(r, k, 0)'
  BY NoZero, NoZeroNext
<1>3. PastFailed(r)'
  <2>1. \A k \in Kinds, n \in Nat : IsOpen(r, k, n)' => IsOpen(r, k, n) /\ n \in Numbers
    BY <1>2 DEF Frozen, Numbers
  <2>2. \A at : Past(at) \subseteq Kinds
    BY DEF Past, Kinds
  <2> QED BY <1>1, <2>1, <2>2 DEF Local, PastFailed, Frozen
<1>4. ReleasesRun(r)' /\ Generations(r)' /\ CloseIsOlder(r)'
  BY DEF Local, Frozen, ReleasesRun, Generations, CloseIsOlder
<1>8. Numbered(r)'
  <2>1. \A k \in Kinds : fields[r][k] \in Nat
    BY DEF LifecycleTypeOK
  <2>2. startup[r].at # "none" => startup[r].n \in Nat
    BY DEF Local, Numbered
  <2> QED BY <1>1, <2>1, <2>2, Last(r) \in Nat DEF Local, Frozen, Numbered, Actors
<1>5. OpensInOrder(r)'
  <2>1. startup[r].at # "none" => startup[r].n \in Numbers
    BY DEF Local, Numbered, Numbers
  <2>2. \A at : Have(at) \subseteq Kinds
    BY DEF Have, Kinds
  <2> QED BY <2>1, <2>2 DEF Local, Frozen, OpensInOrder, OpeningStages
<1>6. UnwindCovers(r)' /\ CloseCovers(r)' /\ Owned(r)' /\ Clean(r)'
  BY DEF Local, Frozen, UnwindCovers, CloseCovers, Owned, Clean
<1>7. Whole(r)'
  <2>1. \A k \in Kinds : fields[r][k] \in Nat
    BY DEF LifecycleTypeOK
  <2>2. connected[r] => \A k \in Kinds : fields[r][k] \in Numbers
    BY <1>2, <2>1 DEF Local, Whole, Numbers
  <2> QED BY <2>2 DEF Local, Frozen, Whole
<1> QED BY <1>3, <1>4, <1>5, <1>6, <1>7, <1>8 DEF Local

\* A runtime that did not move.
LEMMA SameKeeps ==
  ASSUME LifecycleTypeOK, LifecycleTypeOK', NEW r \in Runtimes, Local(r), Same(r)
  PROVE  Local(r)'
<1>1. Last(r)' = Last(r) /\ Last(r) \in Nat
  BY DEF Last, Same, Local, Numbered
<1> QED BY <1>1, FrozenKeeps DEF Same

\* What a release may do to r, its last step aside: it closes what is in its snapshot.
Releasing(r) ==
  /\ connected'[r] = connected[r] /\ gen'[r] = gen[r] /\ fields'[r] = fields[r]
  /\ startup'[r] = startup[r] /\ closing'[r] = closing[r]
  /\ waiting'[r] = waiting[r] /\ calls'[r] = calls[r]
  /\ \A a \in Actors : /\ release'[r][a].at = "none" <=> release[r][a].at = "none"
                       /\ release'[r][a].snap = release[r][a].snap
  /\ \A k \in Kinds, n \in Numbers :
       /\ IsOpen(r, k, n)' => IsOpen(r, k, n)
       /\ (IsOpen(r, k, n) /\ ~IsOpen(r, k, n)') =>
            \E a \in Actors : release[r][a].at # "none" /\ release[r][a].snap[k] = n
       /\ (IsRefused(r, k, n) /\ IsOpen(r, k, n)') => IsRefused(r, k, n)'
  /\ PastFailed(r)'

\* A runtime that gives up resources, and keeps note of what it could not.
LEMMA ReleasingKeeps ==
  ASSUME LifecycleTypeOK, LifecycleTypeOK', NEW r \in Runtimes, Local(r), Releasing(r)
  PROVE  Local(r)'
<1>1. \A a \in Actors, k \in Kinds : release[r][a].snap[k] \in Nat
  BY RelTyped DEF Releases
<1>2. \A k \in Kinds : ~IsOpen(r, k, 0)
  BY NoZero
<1>3. \A k \in Kinds : fields[r][k] \in Nat
  BY DEF LifecycleTypeOK
<1>4. "startup" \in Actors /\ "close" \in Actors /\ \A a \in Actors : a \in {"startup", "close"}
  BY DEF Actors
<1>5. startup[r].at # "none" => startup[r].n \in Numbers
  BY DEF Local, Numbered, Numbers
<1>6. ReleasesRun(r)' /\ Numbered(r)' /\ Generations(r)' /\ CloseIsOlder(r)'
  BY <1>4 DEF Local, Releasing, ReleasesRun, Numbered, Last, Generations, CloseIsOlder
<1>7. \A k \in Kinds, n \in Numbers :
        (/\ startup[r].at \notin {"release", "unwind"}
         /\ IsOpen(r, k, n) /\ ~IsOpen(r, k, n)')
          => closing[r] = "release" /\ release[r]["close"].snap[k] = n
  BY <1>4 DEF Local, Releasing, ReleasesRun
<1>8. OpensInOrder(r)'
  <2> SUFFICES ASSUME startup[r].at \in OpeningStages PROVE OpensInOrder(r)'
    BY DEF Releasing, OpensInOrder
  <2>1. startup[r].at \notin {"release", "unwind", "none"}
    BY DEF OpeningStages
  <2>2. \A k \in Have(startup[r].at) : k \in Kinds
    BY DEF Have, Kinds
  <2>3. \A k \in Have(startup[r].at) : IsOpen(r, k, startup[r].n)'
    BY <1>1, <1>5, <1>7, <2>1, <2>2 DEF Local, Releasing, OpensInOrder, CloseIsOlder, Numbers
  <2> QED BY <2>1, <2>3 DEF Local, Releasing, OpensInOrder
<1>9. UnwindCovers(r)' /\ Owned(r)'
  BY <1>4 DEF Local, Releasing, UnwindCovers, Owned
<1>10. CloseCovers(r)' /\ Clean(r)'
  BY <1>4 DEF Local, Releasing, CloseCovers, Clean
<1>11. Whole(r)'
  <2> SUFFICES ASSUME connected[r] PROVE \A k \in Kinds : IsOpen(r, k, fields[r][k])'
    BY DEF Releasing, Whole
  <2>1. startup[r].at = "none"
    BY DEF Local, Generations
  <2>2. \A k \in Kinds : fields[r][k] \in Numbers /\ IsOpen(r, k, fields[r][k])
    BY <1>2, <1>3 DEF Local, Whole, Numbers
  <2> QED BY <1>1, <1>7, <2>1, <2>2 DEF Local, Releasing, CloseIsOlder, Numbers
<1> QED BY <1>6, <1>8, <1>9, <1>10, <1>11 DEF Local, Releasing

-----------------------------------------------------------------------------
(* Types.                                                                  *)

Startups == [at : {"none", "release", "tunnel", "reserve", "server", "stop", "client", "pool",
                   "sync", "models", "unwind"}, gen : Nat, n : Nat]
StartupsOK == startup \in [Runtimes -> Startups]
ReleasesOK == release \in [Runtimes -> [Actors -> Releases]]

\* A release begins with what the runtime holds.
LEMMA ReleaseRecord == ASSUME NEW f \in [Kinds -> Nat]
  PROVE  [at |-> "services", snap |-> f, failed |-> {}] \in Releases
<1>1. {} \in SUBSET Kinds
  OBVIOUS
<1> QED BY <1>1 DEF Releases

\* A snapshot is the beginning of a release.
LEMMA SnapshotTyped == ASSUME LifecycleTypeOK, NEW r \in Runtimes
  PROVE  Snapshot(r) \in Releases
<1>1. fields[r] \in [Kinds -> Nat]
  BY DEF LifecycleTypeOK
<1> QED BY <1>1, ReleaseRecord DEF Snapshot

\* A snapshot of other fields.
LEMMA SnapshotOf == ASSUME NEW r, NEW f
  PROVE  [Snapshot(r) EXCEPT !.snap = f] = [at |-> "services", snap |-> f, failed |-> {}]
  BY DEF Snapshot

\* A startup that is there has a number.
LEMMA StartupTyped == ASSUME LifeInv, NEW r \in Runtimes
  PROVE  startup[r].at # "none" => startup[r].n \in Numbers
  BY DEF LifeInv, Local, Numbered, Numbers

\* A startup turns to unwinding.
LEMMA UnwindTyped ==
  ASSUME LifecycleTypeOK, NEW r \in Runtimes, NEW f \in [Kinds -> Nat],
         startup' = [startup EXCEPT ![r].at = "unwind"],
         release' = [release EXCEPT ![r]["startup"] = [Snapshot(r) EXCEPT !.snap = f]]
  PROVE  StartupsOK' /\ ReleasesOK'
<1>1. [Snapshot(r) EXCEPT !.snap = f] \in Releases
  BY SnapshotOf, ReleaseRecord
<1>2. StartupsOK /\ ReleasesOK
  BY DEF LifecycleTypeOK, StartupsOK, ReleasesOK, Startups, Releases
<1>3. StartupsOK'
  BY <1>2 DEF StartupsOK, Startups
<1> QED BY <1>1, <1>2, <1>3 DEF ReleasesOK, Actors

\* One release moves on, and may note a failure.
LEMMA ReleaseMoves ==
  ASSUME LifecycleTypeOK, NEW r \in Runtimes, NEW a \in Actors, NEW f \in SUBSET Kinds,
         NEW p \in {"none", "services", "client", "stop", "tunnel"},
         release' = [release EXCEPT ![r][a].at = p, ![r][a].failed = f]
  PROVE  /\ ReleasesOK'
         /\ release'[r][a] = [at |-> p, snap |-> release[r][a].snap, failed |-> f]
         /\ \A b \in Actors \ {a} : release'[r][b] = release[r][b]
         /\ \A q \in Runtimes \ {r} : release'[q] = release[q]
<1>1. ReleasesOK /\ release[r][a] \in Releases
  BY RelTyped DEF ReleasesOK
<1> QED BY <1>1 DEF ReleasesOK, Releases

\* One release moves on.
LEMMA ReleaseMovesOn ==
  ASSUME LifecycleTypeOK, NEW r \in Runtimes, NEW a \in Actors,
         NEW p \in {"none", "services", "client", "stop", "tunnel"},
         release' = [release EXCEPT ![r][a].at = p]
  PROVE  /\ ReleasesOK'
         /\ release'[r][a] = [at |-> p, snap |-> release[r][a].snap,
                              failed |-> release[r][a].failed]
         /\ \A b \in Actors \ {a} : release'[r][b] = release[r][b]
         /\ \A q \in Runtimes \ {r} : release'[q] = release[q]
<1>1. ReleasesOK /\ release[r][a] \in Releases
  BY RelTyped DEF ReleasesOK
<1> QED BY <1>1 DEF ReleasesOK, Releases

-----------------------------------------------------------------------------
(* Releases.                                                               *)

\* Who releases: an unwinding startup, or close().
LEMMA ActorsAre == /\ "startup" \in Actors /\ "close" \in Actors
                   /\ \A a \in Actors : a \in {"startup", "close"}
  BY DEF Actors

\* What is released.
LEMMA KindsAre == /\ "tunnel" \in Kinds /\ "client" \in Kinds
                  /\ "pool" \in Kinds /\ "sync" \in Kinds
                  /\ \A k \in Kinds : k \in {"tunnel", "client", "pool", "sync"}
  BY DEF Kinds

\* The resources a release is to close.
LEMMA OfAre == \A r, a, ks, q, k, n : <<q, k, n>> \in Of(r, a, ks) <=>
                 q = r /\ k \in ks /\ n = release[r][a].snap[k]
  BY DEF Of

\* Everything but the types of the next state is shown runtime by runtime.
LEMMA LocalNext ==
  ASSUME LifeInv, LifecycleTypeOK', NEW r \in Runtimes, \A q \in Runtimes \ {r} : Same(q),
         Releasing(r) \/ Local(r)'
  PROVE  \A q \in Runtimes : Local(q)'
<1>1. \A q \in Runtimes : Local(q) /\ LifecycleTypeOK
  BY DEF LifeInv
<1>2. \A q \in Runtimes : Same(q) => Local(q)'
  BY <1>1, SameKeeps
<1>3. Releasing(r) => Local(r)'
  BY <1>1, ReleasingKeeps
<1> QED BY <1>2, <1>3

\* The services are stopped.
LEMMA ReleaseServicesKeeps ==
  ASSUME LifeInv, NEW r \in Runtimes, NEW a \in Actors, ReleaseServices(r, a)
  PROVE  LifeInv'
<1>1. PICK bad \in SUBSET (Held(r, a) \cap {"pool", "sync"}) :
        /\ release' = [release EXCEPT ![r][a].at = "client", ![r][a].failed = bad]
        /\ opened' = opened \ Of(r, a, {"pool", "sync"} \ bad)
        /\ refused' = (refused \cup Of(r, a, bad)) \cap opened'
  BY DEF ReleaseServices
<1>2. LifecycleTypeOK /\ bad \in SUBSET Kinds
  BY <1>1 DEF LifeInv, Held
<1>3. /\ ReleasesOK'
      /\ release'[r][a] = [at |-> "client", snap |-> release[r][a].snap, failed |-> bad]
      /\ \A b \in Actors \ {a} : release'[r][b] = release[r][b]
      /\ \A q \in Runtimes \ {r} : release'[q] = release[q]
  BY <1>1, <1>2, ReleaseMoves
<1>4. release[r][a].at = "services"
  BY DEF ReleaseServices
<1>5. UNCHANGED <<ownVars, fields, startup, serverVars>>
  BY DEF ReleaseServices
<1>6. LifecycleTypeOK'
  BY <1>1, <1>2, <1>3, <1>5 DEF LifecycleTypeOK, ReleasesOK, Releases, ownVars, serverVars
<1>7. \A q, k, n :
        /\ IsOpen(q, k, n)' <=> /\ IsOpen(q, k, n)
                               /\ ~(/\ q = r /\ k \in {"pool", "sync"} \ bad
                                    /\ n = release[r][a].snap[k])
        /\ IsRefused(q, k, n)' <=> /\ IsOpen(q, k, n)'
                                  /\ \/ IsRefused(q, k, n)
                                     \/ q = r /\ k \in bad /\ n = release[r][a].snap[k]
  <2>1. \A q, k, n : <<q, k, n>> \in Of(r, a, {"pool", "sync"} \ bad)
          <=> q = r /\ k \in {"pool", "sync"} \ bad /\ n = release[r][a].snap[k]
    BY DEF Of
  <2>2. \A q, k, n : <<q, k, n>> \in Of(r, a, bad)
          <=> q = r /\ k \in bad /\ n = release[r][a].snap[k]
    BY OfAre
  <2>3. \A x : (x \in opened' <=> x \in opened /\ x \notin Of(r, a, {"pool", "sync"} \ bad))
             /\ (x \in refused' <=> (x \in refused \/ x \in Of(r, a, bad)) /\ x \in opened')
    BY <1>1
  <2> QED BY <2>1, <2>2, <2>3 DEF IsOpen, IsRefused
<1>8. \A q \in Runtimes \ {r} : Same(q)
  BY <1>3, <1>5, <1>7 DEF Same, Frozen, ownVars
<1>9. PastFailed(r)'
  <2>1. \A k \in Past(release'[r][a].at) : k \in {"pool", "sync"}
    BY <1>3 DEF Past
  <2>2. \A k \in Past(release'[r][a].at) : \A n : (IsOpen(r, k, n)' /\ n = release[r][a].snap[k]) =>
          k \in bad /\ IsRefused(r, k, n)'
    BY <1>7, <2>1
  <2>3. \A b \in Actors \ {a} : \A n : \A k \in Past(release[r][b].at) :
          (IsOpen(r, k, n)' /\ n = release[r][b].snap[k]) =>
             k \in release[r][b].failed /\ IsRefused(r, k, n)'
    BY <1>7 DEF LifeInv, Local, PastFailed
  <2> QED BY <1>3, <2>2, <2>3 DEF PastFailed
<1>10. Releasing(r)
  BY <1>3, <1>4, <1>5, <1>7, <1>9 DEF Releasing, ownVars
<1>11. ServerInv'
  <2>1. UNCHANGED <<startup, server, clients, pending>>
    BY <1>5 DEF serverVars
  <2>2. \A q \in Runtimes, n \in Numbers : IsOpen(q, "client", n)' => IsOpen(q, "client", n)
    BY <1>7
  <2>3. \A q \in Runtimes, b \in Actors :
             release[q][b].at = "stop" => release'[q][b] = release[q][b]
    BY <1>3, <1>4
  <2> QED BY <2>1, <2>2, <2>3 DEF LifeInv, ServerInv
<1> QED BY <1>6, <1>8, <1>10, <1>11, LocalNext DEF LifeInv

\* There is no client to close.
LEMMA ReleaseNoClientKeeps ==
  ASSUME LifeInv, NEW r \in Runtimes, NEW a \in Actors, ReleaseNoClient(r, a)
  PROVE  LifeInv'
<1> DEFINE f == release[r][a].failed
<1>1. PICK p \in {"stop", "tunnel"} :
        /\ release' = [release EXCEPT ![r][a].at = p]
        /\ server' = server \/ (clients = {} /\ pending = {} /\ server' = "stopping")
  BY Zenon DEF ReleaseNoClient, StopServer
<1>2. LifecycleTypeOK /\ f \in SUBSET Kinds
  BY RelTyped DEF LifeInv, Releases
<1>3. /\ ReleasesOK'
      /\ release'[r][a] = [at |-> p, snap |-> release[r][a].snap, failed |-> f]
      /\ \A b \in Actors \ {a} : release'[r][b] = release[r][b]
      /\ \A q \in Runtimes \ {r} : release'[q] = release[q]
  BY <1>1, <1>2, ReleaseMovesOn
<1>4. /\ release[r][a].at = "client" /\ release[r][a].snap["client"] = 0
      /\ UNCHANGED <<ownVars, openVars, startup, clients, pending>>
  BY DEF ReleaseNoClient
<1>5. server' \in {"down", "starting", "up", "stopping", "left"}
  BY <1>1, <1>2 DEF LifecycleTypeOK
<1>6. LifecycleTypeOK'
  BY <1>2, <1>3, <1>4, <1>5 DEF LifecycleTypeOK, ReleasesOK, Releases, ownVars, openVars
<1>7. \A q, k, n : (IsOpen(q, k, n)' <=> IsOpen(q, k, n))
                   /\ (IsRefused(q, k, n)' <=> IsRefused(q, k, n))
  BY <1>4 DEF openVars, IsOpen, IsRefused
<1>8. \A q \in Runtimes \ {r} : Same(q)
  BY <1>3, <1>4, <1>7 DEF Same, Frozen, ownVars, openVars
<1>9. PastFailed(r)'
  <2>1. \A k \in Past(release'[r][a].at) : k = "client" \/ k \in Past(release[r][a].at)
    BY <1>3, <1>4 DEF Past
  <2>2. \A k, n : (IsOpen(r, k, n) /\ k = "client") => n # release[r][a].snap[k]
    BY <1>2, <1>4, NoZero
  <2>3. \A b \in Actors : \A n : \A k \in Past(release[r][b].at) :
          (IsOpen(r, k, n)' /\ n = release[r][b].snap[k]) =>
             k \in release[r][b].failed /\ IsRefused(r, k, n)'
    BY <1>7 DEF LifeInv, Local, PastFailed
  <2> QED BY <1>3, <1>7, <2>1, <2>2, <2>3 DEF PastFailed
<1>10. Releasing(r)
  BY <1>3, <1>4, <1>7, <1>9 DEF Releasing, ownVars, openVars
<1>11. ServerInv'
  BY <1>1, <1>4, <1>7 DEF LifeInv, ServerInv
<1> QED BY <1>6, <1>8, <1>10, <1>11, LocalNext DEF LifeInv

\* The client is closed.
LEMMA ReleaseClientKeeps ==
  ASSUME LifeInv, NEW r \in Runtimes, NEW a \in Actors, ReleaseClient(r, a)
  PROVE  LifeInv'
<1> DEFINE f == release[r][a].failed
           n0 == release[r][a].snap["client"]
<1>1. PICK p \in {"stop", "tunnel"} :
        /\ release' = [release EXCEPT ![r][a].at = p]
        /\ IF /\ <<r, n0>> \in clients /\ clients' = {}
              /\ pending = {} /\ server \in {"up", "stopping", "left"}
           THEN server' = "stopping" /\ p = "stop"
           ELSE server' = server
  BY Zenon DEF ReleaseClient, StopServer
<1>2. LifecycleTypeOK /\ f \in SUBSET Kinds
  BY RelTyped DEF LifeInv, Releases
<1>3. /\ ReleasesOK'
      /\ release'[r][a] = [at |-> p, snap |-> release[r][a].snap, failed |-> f]
      /\ \A b \in Actors \ {a} : release'[r][b] = release[r][b]
      /\ \A q \in Runtimes \ {r} : release'[q] = release[q]
  BY <1>1, <1>2, ReleaseMovesOn
<1>4. /\ release[r][a].at = "client" /\ n0 # 0
      /\ clients' = clients \ {<<r, n0>>}
      /\ UNCHANGED <<ownVars, fields, startup, pending>>
  BY DEF ReleaseClient
<1>5. server' \in {"down", "starting", "up", "stopping", "left"}
  BY <1>1, <1>2 DEF LifecycleTypeOK
<1>6. /\ opened' = opened \ Of(r, a, {"client"})
      /\ refused' = refused \cap opened'
  BY DEF ReleaseClient
<1>7. LifecycleTypeOK'
  BY <1>2, <1>3, <1>4, <1>5, <1>6 DEF LifecycleTypeOK, ReleasesOK, Releases, ownVars
<1>8. \A q, k, n :
        /\ IsOpen(q, k, n)' <=> IsOpen(q, k, n) /\ ~(q = r /\ k = "client" /\ n = n0)
        /\ IsRefused(q, k, n)' <=> IsRefused(q, k, n) /\ IsOpen(q, k, n)'
  <2>1. \A q, k, n : <<q, k, n>> \in Of(r, a, {"client"}) <=> q = r /\ k = "client" /\ n = n0
    BY DEF Of
  <2>2. \A x : (x \in opened' <=> x \in opened /\ x \notin Of(r, a, {"client"}))
             /\ (x \in refused' <=> x \in refused /\ x \in opened')
    BY <1>6
  <2> QED BY <2>1, <2>2 DEF IsOpen, IsRefused
<1>9. \A q \in Runtimes \ {r} : Same(q)
  BY <1>3, <1>4, <1>8 DEF Same, Frozen, ownVars
<1>10. PastFailed(r)'
  <2>1. \A k \in Past(release'[r][a].at) : k = "client" \/ k \in Past(release[r][a].at)
    BY <1>3, <1>4 DEF Past
  <2>2. \A k, n : (IsOpen(r, k, n)' /\ k = "client") => n # release[r][a].snap[k]
    BY <1>8
  <2>3. \A b \in Actors : \A n : \A k \in Past(release[r][b].at) :
          (IsOpen(r, k, n)' /\ n = release[r][b].snap[k]) =>
             k \in release[r][b].failed /\ IsRefused(r, k, n)'
    BY <1>8 DEF LifeInv, Local, PastFailed
  <2> QED BY <1>3, <2>1, <2>2, <2>3 DEF PastFailed
<1>11. Releasing(r)
  BY <1>3, <1>4, <1>8, <1>10 DEF Releasing, ownVars
<1>12. ServerInv'
  <2>2. \A q \in Runtimes, n \in Numbers : IsOpen(q, "client", n)' => <<q, n>> \in clients'
    BY <1>4, <1>8 DEF LifeInv, ServerInv
  <2>3. pending' = {q \in Runtimes : startup'[q].at = "server"}
    BY <1>4 DEF LifeInv, ServerInv
  <2>4. CASE server' = server
    <3>1. server = "up" => clients' # {} \/ pending # {}
      BY <1>1, <1>4, <2>4 DEF LifeInv, ServerInv
    <3>2. server # "up" => clients = {} /\ clients' = {}
      BY <1>2, <1>4 DEF LifeInv, ServerInv, LifecycleTypeOK
    <3> QED BY <1>4, <2>2, <2>3, <2>4, <3>1, <3>2 DEF LifeInv, ServerInv
  <2>5. CASE server' # server
    <3>1. server' = "stopping" /\ clients' = {} /\ pending = {}
      BY <1>1, <2>5
    <3> QED BY <1>4, <2>2, <2>3, <3>1 DEF ServerInv
  <2> QED BY <2>4, <2>5
<1> QED BY <1>7, <1>9, <1>11, <1>12, LocalNext DEF LifeInv

\* The client cannot be closed, and is noted.
LEMMA ReleaseClientFailsKeeps ==
  ASSUME LifeInv, NEW r \in Runtimes, NEW a \in Actors, ReleaseClientFails(r, a)
  PROVE  LifeInv'
<1> DEFINE f == release[r][a].failed \cup {"client"}
           n0 == release[r][a].snap["client"]
<1>1. release' = [release EXCEPT ![r][a].at = "tunnel", ![r][a].failed = f]
  <2>1. release[r][a] \in Releases
    BY RelTyped DEF LifeInv
  <2> QED BY <2>1 DEF ReleaseClientFails, Releases
<1>2. LifecycleTypeOK /\ f \in SUBSET Kinds
  BY RelTyped, KindsAre DEF LifeInv, Releases
<1>3. /\ ReleasesOK'
      /\ release'[r][a] = [at |-> "tunnel", snap |-> release[r][a].snap, failed |-> f]
      /\ \A b \in Actors \ {a} : release'[r][b] = release[r][b]
      /\ \A q \in Runtimes \ {r} : release'[q] = release[q]
  BY <1>1, <1>2, ReleaseMoves
<1>4. /\ release[r][a].at = "client" /\ n0 # 0
      /\ refused' = refused \cup Of(r, a, {"client"})
      /\ UNCHANGED <<ownVars, fields, opened, startup, serverVars>>
  BY DEF ReleaseClientFails
<1>5. \A q, k, n :
        /\ IsOpen(q, k, n)' <=> IsOpen(q, k, n)
        /\ IsRefused(q, k, n)' <=> IsRefused(q, k, n) \/ (q = r /\ k = "client" /\ n = n0)
  <2>1. \A q, k, n : <<q, k, n>> \in Of(r, a, {"client"}) <=> q = r /\ k = "client" /\ n = n0
    BY DEF Of
  <2> QED BY <1>4, <2>1 DEF IsOpen, IsRefused
<1>6. LifecycleTypeOK'
  <2>1. Of(r, a, {"client"}) \subseteq Resources
    BY <1>2, <1>4, RelTyped, KindsAre DEF Of, Resources, Releases
  <2> QED BY <1>2, <1>3, <1>4, <2>1 DEF LifecycleTypeOK, ReleasesOK, Releases, ownVars, serverVars
<1>7. \A q \in Runtimes \ {r} : Same(q)
  BY <1>3, <1>4, <1>5 DEF Same, Frozen, ownVars
<1>8. PastFailed(r)'
  <2>1. \A k \in Past(release'[r][a].at) : k = "client" \/ k \in Past(release[r][a].at)
    BY <1>3, <1>4 DEF Past
  <2>2. \A k, n : (k = "client" /\ n = release[r][a].snap[k]) => k \in f /\ IsRefused(r, k, n)'
    BY <1>5
  <2>3. \A b \in Actors : \A n : \A k \in Past(release[r][b].at) :
          (IsOpen(r, k, n)' /\ n = release[r][b].snap[k]) =>
             k \in release[r][b].failed /\ IsRefused(r, k, n)'
    BY <1>5 DEF LifeInv, Local, PastFailed
  <2> QED BY <1>3, <2>1, <2>2, <2>3 DEF PastFailed
<1>9. Releasing(r)
  BY <1>3, <1>4, <1>5, <1>8 DEF Releasing, ownVars
<1>10. ServerInv'
  <2>1. \A q \in Runtimes, b \in Actors :
             release[q][b].at = "stop" => release'[q][b] = release[q][b]
    BY <1>3, <1>4
  <2> QED BY <1>4, <1>5, <2>1 DEF LifeInv, ServerInv, serverVars
<1> QED BY <1>6, <1>7, <1>9, <1>10, LocalNext DEF LifeInv

-----------------------------------------------------------------------------
(* A startup.                                                              *)

\* A startup goes on, or fails, with what it has just opened.
Advances(r, new, to) ==
  /\ connected'[r] = connected[r] /\ gen'[r] = gen[r] /\ closing'[r] = closing[r]
  /\ waiting'[r] = waiting[r] /\ calls'[r] = calls[r]
  /\ startup[r].at \in OpeningStages
  /\ startup'[r].at = to /\ startup'[r].gen = startup[r].gen /\ startup'[r].n = startup[r].n
  /\ new \in SUBSET (Kinds \ Have(startup[r].at))
  /\ \A k \in Kinds : fields'[r][k] = IF k \in new THEN startup[r].n ELSE fields[r][k]
  /\ \A k \in Kinds, m \in Numbers :
       /\ IsOpen(r, k, m)' <=> IsOpen(r, k, m) \/ (k \in new /\ m = startup[r].n)
       /\ IsRefused(r, k, m) => IsRefused(r, k, m)'
  /\ release'[r]["close"].snap = release[r]["close"].snap
  /\ release[r]["close"].failed \subseteq release'[r]["close"].failed
  /\ Past(release'[r]["close"].at) = Past(release[r]["close"].at)
  /\ release'[r]["close"].at = "none" <=> release[r]["close"].at = "none"
  /\ \/ /\ to \in OpeningStages /\ Have(to) = Have(startup[r].at) \cup new
        /\ release'[r]["startup"].at = "none"
     \/ /\ to = "unwind" /\ release'[r]["startup"].at = "services"
        /\ release'[r]["startup"].snap = fields'[r]

\* What a startup has opened by a stage is a set of kinds.
LEMMA HaveAre == \A at : Have(at) \subseteq Kinds
  BY DEF Have, Kinds

\* What a release has dealt with by a stage is a set of kinds.
LEMMA PastAre == /\ \A at : Past(at) \subseteq Kinds
                 /\ Past("none") = {} /\ Past("services") = {} /\ Past("stop") = Past("tunnel")
  BY DEF Past, Kinds

\* A startup goes on to its next stage, or to unwinding.
LEMMA AdvancesKeeps ==
  ASSUME LifecycleTypeOK, LifecycleTypeOK', NEW r \in Runtimes, Local(r),
         NEW new, NEW to, Advances(r, new, to)
  PROVE  Local(r)'
<1> DEFINE n0 == startup[r].n
<1>1. \A a \in Actors, k \in Kinds : release[r][a].snap[k] \in Nat
  BY RelTyped DEF Releases
<1>2. \A k \in Kinds : ~IsOpen(r, k, 0) /\ ~IsOpen(r, k, 0)' /\ fields[r][k] \in Nat
  BY NoZero, NoZeroNext DEF LifecycleTypeOK
<1>3. /\ startup[r].at # "none" /\ startup[r].at \notin {"release", "unwind"}
      /\ n0 \in Numbers /\ n0 <= Last(r) /\ Last(r) \in Nat /\ ~connected[r]
  BY DEF Advances, OpeningStages, Local, Numbered, Numbers, Generations
<1>4. \A k \in Kinds : closing[r] = "release" => release[r]["close"].snap[k] < n0
  BY <1>3 DEF Local, CloseIsOlder
<1>5. to # "none" /\ (to \in {"release", "unwind"} <=> to = "unwind")
  BY DEF Advances, OpeningStages
<1>6. PastFailed(r)'
  <2>1. \A k \in Past(release'[r]["startup"].at) : FALSE
    BY PastAre DEF Advances
  <2>2. \A k \in Past(release'[r]["close"].at) : k \in Kinds /\ k \in Past(release[r]["close"].at)
    BY PastAre DEF Advances
  <2>3. release[r]["close"].at # "none" <=> closing[r] = "release"
    BY DEF Local, ReleasesRun
  <2>4. \A k \in Past(release'[r]["close"].at) :
             \A m : (m = release[r]["close"].snap[k] /\ IsOpen(r, k, m)')
           => m \in Numbers /\ IsOpen(r, k, m)
    <3> SUFFICES ASSUME NEW k \in Past(release'[r]["close"].at), NEW m,
                        m = release[r]["close"].snap[k], IsOpen(r, k, m)'
                 PROVE  m \in Numbers /\ IsOpen(r, k, m)
      OBVIOUS
    <3>1. k \in Kinds /\ release[r]["close"].at # "none"
      BY <2>2, PastAre
    <3>2. m \in Nat /\ m < n0
      BY <3>1, <2>3, <1>1, <1>4, ActorsAre
    <3>3. m \in Numbers
      BY <3>1, <3>2, <1>2 DEF Numbers
    <3> QED BY <3>1, <3>2, <3>3, <1>3 DEF Advances, Numbers
  <2>5. \A k \in Past(release'[r]["close"].at) :
             \A m : (m = release[r]["close"].snap[k] /\ IsOpen(r, k, m)')
           => k \in release'[r]["close"].failed /\ IsRefused(r, k, m)'
    BY <2>2, <2>4, ActorsAre DEF Local, PastFailed, Advances
  <2>6. release'[r]["close"].snap = release[r]["close"].snap
    BY DEF Advances
  <2> QED BY <2>1, <2>5, <2>6, ActorsAre DEF PastFailed
<1>7. ReleasesRun(r)'
  BY <1>3, <1>5 DEF Advances, Local, ReleasesRun, OpeningStages
<1>8. Numbered(r)' /\ Generations(r)' /\ CloseIsOlder(r)'
  <2>1. Last(r)' = Last(r)
    BY DEF Last, Advances
  <2>2. Numbered(r)'
    BY <1>3, <2>1 DEF Local, Numbered, Advances, Numbers
  <2>3. CloseIsOlder(r)'
    BY <1>3 DEF Local, CloseIsOlder, Advances
  <2> QED BY <1>3, <1>5, <2>2, <2>3 DEF Local, Generations, Advances
<1>9. Owned(r)'
  <2>1. \A k \in new, m \in Numbers : ~IsOpen(r, k, m)
    BY DEF Local, OpensInOrder, Advances
  <2> QED BY <2>1 DEF Local, Owned, Advances
<1>10. OpensInOrder(r)'
  <2> SUFFICES ASSUME to \in OpeningStages PROVE OpensInOrder(r)'
    BY DEF OpensInOrder, Advances
  <2>1. Have(to) = Have(startup[r].at) \cup new /\ Have(to) \subseteq Kinds
    BY HaveAre DEF Advances, OpeningStages
  <2>2. \A k \in Kinds, m \in Numbers : IsOpen(r, k, m)' => k \in Have(to)
    BY <2>1 DEF Local, OpensInOrder, Advances
  <2>3. \A k \in Have(to) : fields'[r][k] = n0 /\ \A m : m = n0 => IsOpen(r, k, m)'
    BY <1>3, <2>1 DEF Local, OpensInOrder, Advances
  <2> QED BY <2>2, <2>3 DEF OpensInOrder, Advances
<1>11. UnwindCovers(r)'
  <2>1. to = "unwind" => release'[r]["startup"].snap = fields'[r]
    BY DEF Advances, OpeningStages
  <2> QED BY <1>5, <1>9, <2>1 DEF UnwindCovers, Owned, Advances
<1>12. CloseCovers(r)' /\ Whole(r)' /\ Clean(r)'
  BY <1>3, <1>5 DEF CloseCovers, Whole, Clean, Advances
<1> QED BY <1>6, <1>7, <1>8, <1>9, <1>10, <1>11, <1>12 DEF Local

\* A failure sends the startup to unwinding with all it has opened.
LEMMA FailureAdvances ==
  ASSUME NEW r, startup[r].at \in OpeningStages,
         UNCHANGED <<connected, gen, closing, waiting, calls>>, UNCHANGED openVars,
         startup'[r].at = "unwind", startup'[r].gen = startup[r].gen, startup'[r].n = startup[r].n,
         release'[r]["startup"].at = "services", release'[r]["startup"].snap = fields[r],
         release'[r]["close"].snap = release[r]["close"].snap,
         release[r]["close"].failed \subseteq release'[r]["close"].failed,
         Past(release'[r]["close"].at) = Past(release[r]["close"].at),
         release'[r]["close"].at = "none" <=> release[r]["close"].at = "none"
  PROVE  Advances(r, {}, "unwind")
<1>1. \A k, m : (IsOpen(r, k, m)' <=> IsOpen(r, k, m))
                /\ (IsRefused(r, k, m)' <=> IsRefused(r, k, m))
  BY DEF openVars, IsOpen, IsRefused
<1>2. fields' = fields
  BY DEF openVars
<1> QED BY <1>1, <1>2 DEF Advances

-----------------------------------------------------------------------------
(* The memory server.                                                      *)

\* The shared memory server has started.
LEMMA ServerStartsKeeps ==
  ASSUME LifeInv, ServerStarts
  PROVE  LifeInv'
<1>1. /\ LifecycleTypeOK /\ server = "starting" /\ server' = "up"
      /\ UNCHANGED <<ownVars, openVars, startup, release, clients, pending>>
  BY DEF ServerStarts, LifeInv
<1>2. LifecycleTypeOK'
  BY <1>1 DEF LifecycleTypeOK, ownVars, openVars
<1>3. \A q \in Runtimes : Same(q)
  BY <1>1 DEF Same, Frozen, ownVars, openVars, IsOpen, IsRefused
<1>4. ServerInv'
  BY <1>1 DEF LifeInv, ServerInv, openVars, IsOpen
<1> QED BY <1>1, <1>2, <1>3, <1>4, SameKeeps DEF LifeInv

\* A stop of the memory server ends: the startups in waits fail, and the releases that
\* await it go on to the tunnel, knowing of the failures in bad.
LEMMA StopEndsKeeps ==
  ASSUME LifeInv, NEW bad \in SUBSET {"client"},
         NEW waits \in SUBSET {q \in Runtimes : startup[q].at \in {"reserve", "stop"}},
         startup' = [q \in Runtimes |->
           IF q \in waits THEN [startup[q] EXCEPT !.at = "unwind"] ELSE startup[q]],
         release' = [q \in Runtimes |-> [a \in Actors |-> release'[q][a]]],
         \A q \in Runtimes, a \in Actors :
           /\ release[q][a].at = "stop" =>
                release'[q][a] = [at |-> "tunnel", snap |-> release[q][a].snap,
                                  failed |-> release[q][a].failed \cup bad]
           /\ release[q][a].at # "stop" =>
                release'[q][a] = IF q \in waits /\ a = "startup" THEN Snapshot(q)
                                 ELSE release[q][a],
         clients' \subseteq Runtimes \X (Nat \ {0}), clients \subseteq clients',
         server' \in {"down", "up", "left"},
         UNCHANGED <<ownVars, openVars, pending>>
  PROVE  /\ LifecycleTypeOK' /\ \A q \in Runtimes : Local(q)'
         /\ pending' = {q \in Runtimes : startup'[q].at = "server"}
         /\ \A q \in Runtimes, n \in Numbers : IsOpen(q, "client", n)' => <<q, n>> \in clients'
<1>1. /\ LifecycleTypeOK /\ UNCHANGED <<connected, gen, closing, waiting, calls>>
      /\ UNCHANGED openVars /\ pending' = pending
      /\ release' = [q \in Runtimes |-> [a \in Actors |-> release'[q][a]]]
  BY DEF LifeInv, ownVars
<1>2. \A q \in waits : /\ q \in Runtimes /\ startup[q].at \in {"reserve", "stop"}
                       /\ release[q]["startup"].at = "none"
  BY ActorsAre DEF LifeInv, Local, ReleasesRun
<1>3. ASSUME NEW q \in Runtimes, NEW a \in Actors
      PROVE  /\ q \in waits /\ a = "startup" =>
                  release'[q][a] = [at |-> "services", snap |-> fields[q], failed |-> {}]
             /\ release[q][a].at # "stop" /\ ~(q \in waits /\ a = "startup") =>
                  release'[q][a] = release[q][a]
             /\ release'[q][a] \in Releases
  <2>1. release[q][a] \in Releases /\ Snapshot(q) \in Releases
    BY <1>1, RelTyped, SnapshotTyped
  <2>2. CASE release[q][a].at = "stop"
    <3>1. release'[q][a] = [at |-> "tunnel", snap |-> release[q][a].snap,
                            failed |-> release[q][a].failed \cup bad]
      BY <2>2
    <3>2. release[q][a].failed \cup bad \in SUBSET Kinds /\ release[q][a].snap \in [Kinds -> Nat]
      BY <2>1, KindsAre DEF Releases
    <3>3. ~(q \in waits /\ a = "startup")
      BY <1>2, <2>2
    <3> QED BY <2>2, <3>1, <3>2, <3>3 DEF Releases
  <2>3. CASE release[q][a].at # "stop"
    <3>1. release'[q][a] = IF q \in waits /\ a = "startup" THEN Snapshot(q) ELSE release[q][a]
      BY <2>3
    <3> QED BY <2>1, <2>3, <3>1 DEF Snapshot
  <2> QED BY <2>2, <2>3
<1>4. ASSUME NEW q \in Runtimes
      PROVE  /\ q \in waits =>
                  startup'[q] = [at |-> "unwind", gen |-> startup[q].gen, n |-> startup[q].n]
             /\ q \notin waits => startup'[q] = startup[q]
             /\ startup'[q] \in Startups
  <2>1. startup[q] \in Startups
    BY <1>1 DEF LifecycleTypeOK, Startups
  <2>2. startup'[q] = IF q \in waits THEN [startup[q] EXCEPT !.at = "unwind"] ELSE startup[q]
    OBVIOUS
  <2> QED BY <2>1, <2>2 DEF Startups
<1>5. LifecycleTypeOK'
  <2>1. StartupsOK'
    BY <1>4 DEF StartupsOK
  <2>2. ReleasesOK'
    <3>1. \A q \in Runtimes, a \in Actors : release'[q][a] \in Releases
      BY <1>3
    <3>2. \A q \in Runtimes : release'[q] = [a \in Actors |-> release'[q][a]]
      BY <1>1
    <3>3. \A q \in Runtimes : release'[q] \in [Actors -> Releases]
      BY <3>1, <3>2
    <3>4. release' = [q \in Runtimes |-> release'[q]]
      BY <1>1
    <3> QED BY <3>3, <3>4 DEF ReleasesOK
  <2> QED BY <1>1, <2>1, <2>2
          DEF LifecycleTypeOK, StartupsOK, ReleasesOK, Startups, Releases, ownVars, openVars
<1>6. \A q, k, n : (IsOpen(q, k, n)' <=> IsOpen(q, k, n))
                   /\ (IsRefused(q, k, n)' <=> IsRefused(q, k, n))
  BY DEF openVars, IsOpen, IsRefused
<1>7. \A q \in Runtimes, a \in Actors : ~(q \in waits /\ a = "startup") =>
        /\ Past(release'[q][a].at) = Past(release[q][a].at)
        /\ release'[q][a].at = "none" <=> release[q][a].at = "none"
        /\ release'[q][a].snap = release[q][a].snap
        /\ release[q][a].failed \subseteq release'[q][a].failed
  <2> SUFFICES ASSUME NEW q \in Runtimes, NEW a \in Actors, ~(q \in waits /\ a = "startup")
      PROVE  /\ Past(release'[q][a].at) = Past(release[q][a].at)
             /\ release'[q][a].at = "none" <=> release[q][a].at = "none"
             /\ release'[q][a].snap = release[q][a].snap
             /\ release[q][a].failed \subseteq release'[q][a].failed
    OBVIOUS
  <2>1. CASE release[q][a].at = "stop"
    <3>1. release'[q][a] = [at |-> "tunnel", snap |-> release[q][a].snap,
                            failed |-> release[q][a].failed \cup bad]
      BY <2>1
    <3> QED BY <2>1, <3>1, PastAre
  <2>2. CASE release[q][a].at # "stop"
    <3>1. release'[q][a] = release[q][a]
      BY <1>3, <2>2
    <3> QED BY <3>1
  <2> QED BY <2>1, <2>2
<1>8. \A q \in Runtimes : Local(q)'
  <2> SUFFICES ASSUME NEW q \in Runtimes PROVE Local(q)'
    OBVIOUS
  <2>1. CASE q \in waits
    <3>1. startup[q].at \in OpeningStages
      BY <1>2, <2>1 DEF OpeningStages
    <3>2. /\ release'[q]["startup"].at = "services" /\ release'[q]["startup"].snap = fields[q]
      <4>1. release'[q]["startup"] = [at |-> "services", snap |-> fields[q], failed |-> {}]
        BY <1>3, <2>1, ActorsAre
      <4> QED BY <4>1
    <3>3. /\ startup'[q].at = "unwind" /\ startup'[q].gen = startup[q].gen
          /\ startup'[q].n = startup[q].n
      <4>1. startup'[q] = [at |-> "unwind", gen |-> startup[q].gen, n |-> startup[q].n]
        BY <1>4, <2>1
      <4> QED BY <4>1
    <3>4. Advances(q, {}, "unwind")
      <4>1. /\ release'[q]["close"].snap = release[q]["close"].snap
            /\ release[q]["close"].failed \subseteq release'[q]["close"].failed
            /\ Past(release'[q]["close"].at) = Past(release[q]["close"].at)
            /\ release'[q]["close"].at = "none" <=> release[q]["close"].at = "none"
        BY <1>7, ActorsAre
      <4> QED BY <1>1, <3>1, <3>2, <3>3, <4>1, FailureAdvances
    <3> QED BY <1>1, <1>5, <3>4, AdvancesKeeps DEF LifeInv
  <2>2. CASE q \notin waits
    <3>1. \A b \in Actors : \A n : \A k \in Past(release[q][b].at) :
            (IsOpen(q, k, n)' /\ n = release[q][b].snap[k]) =>
               k \in release[q][b].failed /\ IsRefused(q, k, n)'
      BY <1>6 DEF LifeInv, Local, PastFailed
    <3>2. PastFailed(q)'
      <4> SUFFICES ASSUME NEW b \in Actors, NEW k \in Past(release'[q][b].at),
                          IsOpen(q, k, release[q][b].snap[k])'
                   PROVE  (k \in release[q][b].failed /\ IsRefused(q, k, release[q][b].snap[k]))'
        BY DEF PastFailed
      <4>1. /\ k \in Past(release[q][b].at) /\ release'[q][b].snap = release[q][b].snap
            /\ release[q][b].failed \subseteq release'[q][b].failed
        BY <1>7, <2>2
      <4> QED BY <3>1, <4>1 DEF IsOpen, IsRefused
    <3>3. fields' = fields /\ startup'[q] = startup[q]
      BY <1>1, <1>4, <2>2 DEF openVars
    <3>4. \A a \in Actors : /\ Past(release'[q][a].at) = Past(release[q][a].at)
                            /\ release'[q][a].at = "none" <=> release[q][a].at = "none"
                            /\ release'[q][a].snap = release[q][a].snap
                            /\ release[q][a].failed \subseteq release'[q][a].failed
      BY <1>7, <2>2
    <3>5. Releasing(q)
      BY <1>1, <1>6, <3>2, <3>3, <3>4 DEF Releasing
    <3> QED BY <1>1, <1>5, <3>5, ReleasingKeeps DEF LifeInv
  <2> QED BY <2>1, <2>2
<1>9. pending' = {q \in Runtimes : startup'[q].at = "server"}
  <2>1. ASSUME NEW q \in Runtimes PROVE startup'[q].at = "server" <=> startup[q].at = "server"
    <3>1. CASE q \in waits
      <4>1. startup'[q] = [at |-> "unwind", gen |-> startup[q].gen, n |-> startup[q].n]
        BY <1>4, <3>1
      <4> QED BY <1>2, <3>1, <4>1
    <3>2. CASE q \notin waits
      BY <1>4, <3>2
    <3> QED BY <3>1, <3>2
  <2> QED BY <2>1 DEF LifeInv, ServerInv
<1>10. \A q \in Runtimes, n \in Numbers : IsOpen(q, "client", n)' => <<q, n>> \in clients'
  BY <1>6 DEF LifeInv, ServerInv
<1> QED BY <1>5, <1>8, <1>9, <1>10

\* The shared memory server has stopped.
LEMMA ServerStoppedKeeps ==
  ASSUME LifeInv, ServerStopped
  PROVE  LifeInv'
<1> DEFINE waits == {q \in Runtimes : startup[q].at = "stop"}
<1>1. /\ LifecycleTypeOK /\ server = "stopping" /\ server' = "down"
      /\ UNCHANGED <<ownVars, openVars, clients, pending>>
      /\ startup' = [q \in Runtimes |->
           IF q \in waits THEN [startup[q] EXCEPT !.at = "unwind"] ELSE startup[q]]
      /\ release' = [q \in Runtimes |-> [a \in Actors |->
           IF <<q, a>> \in Stopping THEN [release[q][a] EXCEPT !.at = "tunnel"]
           ELSE IF q \in waits /\ a = "startup" THEN Snapshot(q) ELSE release[q][a]]]
  BY DEF ServerStopped, LifeInv
<1>2. waits \in SUBSET {q \in Runtimes : startup[q].at \in {"reserve", "stop"}}
  OBVIOUS
<1> HIDE DEF waits
<1>3. ASSUME NEW q \in Runtimes, NEW a \in Actors
      PROVE  /\ release[q][a].at = "stop" =>
                  release'[q][a] = [at |-> "tunnel", snap |-> release[q][a].snap,
                                    failed |-> release[q][a].failed \cup {}]
             /\ release[q][a].at # "stop" =>
                  release'[q][a] = IF q \in waits /\ a = "startup" THEN Snapshot(q)
                                   ELSE release[q][a]
  <2>1. release[q][a] \in Releases
    BY <1>1, RelTyped
  <2>2. <<q, a>> \in Stopping <=> release[q][a].at = "stop"
    BY DEF Stopping
  <2>3. release'[q][a] = IF release[q][a].at = "stop" THEN [release[q][a] EXCEPT !.at = "tunnel"]
                         ELSE IF q \in waits /\ a = "startup" THEN Snapshot(q) ELSE release[q][a]
    BY <1>1, <2>2
  <2> QED BY <2>1, <2>3 DEF Releases
<1>4. release' = [q \in Runtimes |-> [a \in Actors |-> release'[q][a]]]
  BY <1>1
<1>5. clients' \subseteq Runtimes \X (Nat \ {0}) /\ clients \subseteq clients'
      /\ clients' = {} /\ pending' = {}
  BY <1>1 DEF LifecycleTypeOK, LifeInv, ServerInv
<1>6. /\ LifecycleTypeOK' /\ \A q \in Runtimes : Local(q)'
      /\ pending' = {q \in Runtimes : startup'[q].at = "server"}
      /\ \A q \in Runtimes, n \in Numbers : IsOpen(q, "client", n)' => <<q, n>> \in clients'
  <2>1. {} \in SUBSET {"client"} /\ server' \in {"down", "up", "left"}
    BY <1>1
  <2> QED BY <1>1, <1>2, <1>3, <1>4, <1>5, <2>1, StopEndsKeeps
<1> QED BY <1>1, <1>5, <1>6 DEF LifeInv, ServerInv

\* The shared memory server fails to start.
LEMMA ServerStartFailsKeeps ==
  ASSUME LifeInv, ServerStartFails
  PROVE  LifeInv'
<1>1. /\ LifecycleTypeOK /\ server = "starting" /\ server' = "down" /\ pending' = {}
      /\ UNCHANGED <<ownVars, openVars, clients>>
  BY DEF ServerStartFails, LifeInv
<1>2. \A q \in Runtimes : q \in pending <=> startup[q].at = "server"
  BY DEF LifeInv, ServerInv
<1>3. /\ startup' = [q \in Runtimes |->
           IF q \in pending THEN [startup[q] EXCEPT !.at = "unwind"] ELSE startup[q]]
      /\ release' = [q \in Runtimes |->
           IF q \in pending THEN [release[q] EXCEPT !["startup"] = Snapshot(q)] ELSE release[q]]
  BY DEF ServerStartFails
<1>4. ASSUME NEW q \in Runtimes, q \in pending
      PROVE  /\ startup'[q] = [at |-> "unwind", gen |-> startup[q].gen, n |-> startup[q].n]
             /\ release'[q]["startup"] = [at |-> "services", snap |-> fields[q], failed |-> {}]
             /\ release'[q]["close"] = release[q]["close"]
             /\ startup'[q].at = "unwind"
             /\ startup'[q] \in Startups /\ release'[q] \in [Actors -> Releases]
  <2>1. release[q] \in [Actors -> Releases] /\ Snapshot(q) \in Releases /\ startup[q] \in Startups
    BY <1>1, RelTyped, SnapshotTyped DEF LifecycleTypeOK, Startups
  <2>2. /\ startup'[q] = [startup[q] EXCEPT !.at = "unwind"]
        /\ release'[q] = [release[q] EXCEPT !["startup"] = Snapshot(q)]
    BY <1>3, <1>4
  <2>3. startup'[q] = [at |-> "unwind", gen |-> startup[q].gen, n |-> startup[q].n]
        /\ startup'[q] \in Startups
    BY <2>1, <2>2 DEF Startups
  <2> QED BY <2>1, <2>2, <2>3 DEF Actors, Snapshot
<1>10. ASSUME NEW q \in Runtimes, q \notin pending
       PROVE  /\ startup'[q] = startup[q] /\ release'[q] = release[q]
              /\ startup'[q] \in Startups /\ release'[q] \in [Actors -> Releases]
  <2>1. release[q] \in [Actors -> Releases] /\ startup[q] \in Startups
    BY <1>1, RelTyped DEF LifecycleTypeOK, Startups
  <2>2. startup'[q] = startup[q] /\ release'[q] = release[q]
    BY <1>3, <1>10
  <2> QED BY <2>1, <2>2
<1>5. LifecycleTypeOK'
  <2>1. StartupsOK'
    BY <1>3, <1>4, <1>10 DEF StartupsOK
  <2>2. ReleasesOK'
    BY <1>3, <1>4, <1>10 DEF ReleasesOK
  <2> QED BY <1>1, <2>1, <2>2
             DEF LifecycleTypeOK, StartupsOK, ReleasesOK, Startups, Releases, ownVars, openVars
<1>6. \A q, k, n : (IsOpen(q, k, n)' <=> IsOpen(q, k, n))
                   /\ (IsRefused(q, k, n)' <=> IsRefused(q, k, n))
  BY <1>1 DEF openVars, IsOpen, IsRefused
<1>7. \A q \in Runtimes : Local(q)'
  <2> SUFFICES ASSUME NEW q \in Runtimes PROVE Local(q)'
    OBVIOUS
  <2>1. CASE q \in pending
    <3>1. startup[q].at \in OpeningStages
      BY <1>2, <2>1 DEF OpeningStages
    <3>2. /\ startup'[q].at = "unwind" /\ startup'[q].gen = startup[q].gen
          /\ startup'[q].n = startup[q].n /\ release'[q]["startup"].at = "services"
          /\ release'[q]["startup"].snap = fields[q] /\ release'[q]["close"] = release[q]["close"]
      <4>1. /\ startup'[q] = [at |-> "unwind", gen |-> startup[q].gen, n |-> startup[q].n]
            /\ release'[q]["startup"] = [at |-> "services", snap |-> fields[q], failed |-> {}]
            /\ release'[q]["close"] = release[q]["close"]
        BY <1>4, <2>1
      <4> QED BY <4>1
    <3>3. Advances(q, {}, "unwind")
      BY <1>1, <3>1, <3>2, FailureAdvances DEF ownVars
    <3> QED BY <1>1, <1>5, <3>3, AdvancesKeeps DEF LifeInv
  <2>2. CASE q \notin pending
    <3>1. Same(q)
      BY <1>1, <1>10, <1>6, <2>2 DEF Same, Frozen, ownVars, openVars
    <3> QED BY <1>1, <1>5, <3>1, SameKeeps DEF LifeInv
  <2> QED BY <2>1, <2>2
<1>8. ServerInv'
  <2>1. \A q \in Runtimes : startup'[q].at # "server"
    <3>1. \A q \in pending : q \in Runtimes => startup'[q].at = "unwind"
      BY <1>4
    <3>2. \A q \in Runtimes \ pending : startup'[q] = startup[q]
      BY <1>10
    <3> QED BY <1>2, <3>1, <3>2
  <2>2. clients' = {}
    BY <1>1 DEF LifeInv, ServerInv
  <2> QED BY <1>1, <1>6, <2>1, <2>2 DEF LifeInv, ServerInv
<1> QED BY <1>5, <1>7, <1>8 DEF LifeInv

\* The shared memory server fails to stop.
LEMMA ServerStopFailsKeeps ==
  ASSUME LifeInv, ServerStopFails
  PROVE  LifeInv'
<1> DEFINE waits == {q \in Runtimes : startup[q].at \in {"reserve", "stop"}}
           back == {<<ra[1], release[ra[1]][ra[2]].snap["client"]>> :
                      ra \in {x \in Stopping : release[x[1]][x[2]].snap["client"] # 0}}
<1>1. /\ LifecycleTypeOK /\ server = "stopping" /\ server' = IF clients' = {} THEN "left" ELSE "up"
      /\ UNCHANGED <<ownVars, openVars, pending>>
      /\ startup' = [q \in Runtimes |->
           IF q \in waits THEN [startup[q] EXCEPT !.at = "unwind"] ELSE startup[q]]
      /\ release' = [q \in Runtimes |-> [a \in Actors |->
           IF <<q, a>> \in Stopping
           THEN [release[q][a] EXCEPT !.at = "tunnel", !.failed = @ \cup {"client"}]
           ELSE IF q \in waits /\ a = "startup" THEN Snapshot(q) ELSE release[q][a]]]
      /\ clients' = clients \cup back
  BY DEF ServerStopFails, LifeInv
<1>2. waits \in SUBSET {q \in Runtimes : startup[q].at \in {"reserve", "stop"}}
  OBVIOUS
<1>3. back \subseteq Runtimes \X (Nat \ {0})
  <2>1. ASSUME NEW x \in Stopping PROVE x[1] \in Runtimes /\ release[x[1]][x[2]].snap["client"] \in Nat
    <3>1. x[1] \in Runtimes /\ x[2] \in Actors
      BY DEF Stopping
    <3>2. release[x[1]][x[2]] \in Releases
      BY <1>1, <3>1, RelTyped
    <3> QED BY <3>1, <3>2, KindsAre DEF Releases
  <2>2. \A n \in Nat : n # 0 => n \in Nat \ {0}
    OBVIOUS
  <2> QED BY <2>1, <2>2
<1> HIDE DEF waits, back
<1>4. ASSUME NEW q \in Runtimes, NEW a \in Actors
      PROVE  /\ release[q][a].at = "stop" =>
                  release'[q][a] = [at |-> "tunnel", snap |-> release[q][a].snap,
                                    failed |-> release[q][a].failed \cup {"client"}]
             /\ release[q][a].at # "stop" =>
                  release'[q][a] = IF q \in waits /\ a = "startup" THEN Snapshot(q)
                                   ELSE release[q][a]
  <2>1. release[q][a] \in Releases
    BY <1>1, RelTyped
  <2>2. <<q, a>> \in Stopping <=> release[q][a].at = "stop"
    BY DEF Stopping
  <2>3. CASE release[q][a].at = "stop"
    <3>1. release'[q][a] = [release[q][a] EXCEPT !.at = "tunnel", !.failed = @ \cup {"client"}]
      BY <1>1, <2>2, <2>3
    <3> QED BY <2>1, <2>3, <3>1 DEF Releases
  <2>4. CASE release[q][a].at # "stop"
    BY <1>1, <2>2, <2>4
  <2> QED BY <2>3, <2>4
<1>5. release' = [q \in Runtimes |-> [a \in Actors |-> release'[q][a]]]
  BY <1>1
<1>6. clients' \subseteq Runtimes \X (Nat \ {0}) /\ clients \subseteq clients' /\ pending' = {}
  BY <1>1, <1>3 DEF LifecycleTypeOK, LifeInv, ServerInv
<1>7. /\ LifecycleTypeOK' /\ \A q \in Runtimes : Local(q)'
      /\ pending' = {q \in Runtimes : startup'[q].at = "server"}
      /\ \A q \in Runtimes, n \in Numbers : IsOpen(q, "client", n)' => <<q, n>> \in clients'
  <2>1. {"client"} \in SUBSET {"client"} /\ server' \in {"down", "up", "left"}
    BY <1>1
  <2> QED BY <1>1, <1>2, <1>4, <1>5, <1>6, <2>1, StopEndsKeeps
<1> QED BY <1>1, <1>6, <1>7 DEF LifeInv, ServerInv

-----------------------------------------------------------------------------
(* The steps of a startup.                                                 *)

\* A step of the startup: it opens nothing or one resource, and goes on or fails.
Opens(r, new) == \/ new = {} /\ UNCHANGED openVars
                 \/ \E k \in Kinds \ Have(startup[r].at) : new = {k} /\ Opened(r, k)
GoesOn(r, to) == startup' = [startup EXCEPT ![r].at = to] /\ UNCHANGED release
Fails(r) == /\ startup' = [startup EXCEPT ![r].at = "unwind"]
            /\ release' = [release EXCEPT ![r]["startup"] =
                            [Snapshot(r) EXCEPT !.snap = fields'[r]]]

\* A startup opens the resources of one stage, under its own number.
LEMMA OpensWhat ==
  ASSUME LifeInv, NEW r \in Runtimes, NEW new, Opens(r, new), startup[r].at \in OpeningStages
  PROVE  /\ fields' \in [Runtimes -> [Kinds -> Nat]] /\ opened' \subseteq Resources
         /\ UNCHANGED refused
         /\ new \in SUBSET (Kinds \ Have(startup[r].at))
         /\ \A k \in Kinds : fields'[r][k] = IF k \in new THEN startup[r].n ELSE fields[r][k]
         /\ \A q \in Runtimes \ {r} : fields'[q] = fields[q]
         /\ \A q, k, m : IsOpen(q, k, m)' <=> IsOpen(q, k, m)
                                              \/ (q = r /\ k \in new /\ m = startup[r].n)
<1>1. fields \in [Runtimes -> [Kinds -> Nat]] /\ opened \subseteq Resources
  BY DEF LifeInv, LifecycleTypeOK
<1>2. startup[r].n \in Numbers
  BY StartupTyped DEF OpeningStages
<1>3. CASE new = {} /\ UNCHANGED openVars
  BY <1>1, <1>3 DEF openVars, IsOpen
<1>4. CASE \E k \in Kinds \ Have(startup[r].at) : new = {k} /\ Opened(r, k)
  <2>1. PICK k \in Kinds \ Have(startup[r].at) :
          /\ new = {k} /\ fields' = [fields EXCEPT ![r][k] = startup[r].n]
          /\ opened' = opened \cup {<<r, k, startup[r].n>>} /\ UNCHANGED refused
    BY <1>4 DEF Opened
  <2>2. <<r, k, startup[r].n>> \in Resources
    BY <1>2 DEF Resources, Numbers
  <2>3. \A q, j, m : IsOpen(q, j, m)' <=> IsOpen(q, j, m)
                                          \/ (q = r /\ j \in new /\ m = startup[r].n)
    BY <2>1 DEF IsOpen
  <2> QED BY <1>1, <1>2, <2>1, <2>2, <2>3 DEF Numbers
<1> QED BY <1>3, <1>4 DEF Opens

\* One stage of a startup, and what follows it.
LEMMA StageStep ==
  ASSUME LifeInv, NEW r \in Runtimes, NEW new, NEW to \in OpeningStages, Opens(r, new),
         startup[r].at \in OpeningStages, Have(to) = Have(startup[r].at) \cup new,
         GoesOn(r, to) \/ Fails(r), UNCHANGED ownVars
  PROVE  /\ StartupsOK' /\ ReleasesOK'
         /\ \A q \in Runtimes \ {r} : Same(q)
         /\ Advances(r, new, to) \/ Advances(r, new, "unwind")
         /\ startup'[r].at = "unwind" \/ (startup'[r].at = to /\ GoesOn(r, to))
         /\ \A q \in Runtimes, a \in Actors :
              release[q][a].at = "stop" => release'[q][a] = release[q][a]
<1>1. /\ fields' \in [Runtimes -> [Kinds -> Nat]] /\ opened' \subseteq Resources
      /\ UNCHANGED refused
      /\ new \in SUBSET (Kinds \ Have(startup[r].at))
      /\ \A k \in Kinds : fields'[r][k] = IF k \in new THEN startup[r].n ELSE fields[r][k]
      /\ \A q \in Runtimes \ {r} : fields'[q] = fields[q]
      /\ \A q, k, m : IsOpen(q, k, m)' <=> IsOpen(q, k, m)
                                           \/ (q = r /\ k \in new /\ m = startup[r].n)
  BY OpensWhat
<1>2. /\ StartupsOK /\ ReleasesOK /\ release[r]["startup"].at = "none" /\ LifecycleTypeOK
      /\ startup[r] \in Startups
  BY DEF LifeInv, LifecycleTypeOK, StartupsOK, ReleasesOK, Startups, Releases, Local, ReleasesRun,
         OpeningStages
<1>3. \A q, k, m : IsRefused(q, k, m)' <=> IsRefused(q, k, m)
  BY <1>1 DEF IsRefused
<1>4. CASE GoesOn(r, to)
  <2>1. startup' = [startup EXCEPT ![r].at = to] /\ release' = release
    BY <1>4 DEF GoesOn
  <2>2. /\ startup'[r] = [at |-> to, gen |-> startup[r].gen, n |-> startup[r].n]
        /\ StartupsOK' /\ \A q \in Runtimes \ {r} : startup'[q] = startup[q]
    BY <1>2, <2>1 DEF StartupsOK, Startups, OpeningStages
  <2>3. startup'[r].at = to /\ startup'[r].gen = startup[r].gen /\ startup'[r].n = startup[r].n
    BY <2>2
  <2>4. Advances(r, new, to)
    BY <1>1, <1>2, <1>3, <2>1, <2>3 DEF Advances, ownVars
  <2>5. \A q \in Runtimes \ {r} : Same(q)
    BY <1>1, <1>3, <2>1, <2>2 DEF Same, Frozen, ownVars
  <2>6. ReleasesOK'
    BY <1>2, <2>1 DEF ReleasesOK
  <2> QED BY <1>4, <2>1, <2>2, <2>3, <2>4, <2>5, <2>6
<1>5. CASE Fails(r)
  <2>1. /\ startup' = [startup EXCEPT ![r].at = "unwind"]
        /\ release' = [release EXCEPT ![r]["startup"] =
                         [at |-> "services", snap |-> fields'[r], failed |-> {}]]
    BY <1>5, SnapshotOf DEF Fails
  <2>2. /\ startup'[r] = [at |-> "unwind", gen |-> startup[r].gen, n |-> startup[r].n]
        /\ StartupsOK' /\ \A q \in Runtimes \ {r} : startup'[q] = startup[q]
    BY <1>2, <2>1 DEF StartupsOK, Startups
  <2>3. startup'[r].at = "unwind" /\ startup'[r].gen = startup[r].gen
          /\ startup'[r].n = startup[r].n
    BY <2>2
  <2>4. [at |-> "services", snap |-> fields'[r], failed |-> {}] \in Releases
    BY <1>1, ReleaseRecord
  <2>5. /\ ReleasesOK' /\ release'[r]["close"] = release[r]["close"]
        /\ release'[r]["startup"] = [at |-> "services", snap |-> fields'[r], failed |-> {}]
        /\ \A q \in Runtimes \ {r} : release'[q] = release[q]
    BY <1>2, <2>1, <2>4, ActorsAre DEF ReleasesOK
  <2>6. release'[r]["startup"].at = "services" /\ release'[r]["startup"].snap = fields'[r]
    BY <2>5
  <2>7. Advances(r, new, "unwind")
    BY <1>1, <1>2, <1>3, <2>3, <2>5, <2>6 DEF Advances, ownVars
  <2>8. \A q \in Runtimes \ {r} : Same(q)
    BY <1>1, <1>3, <2>2, <2>5 DEF Same, Frozen, ownVars
  <2>9. \A q \in Runtimes, a \in Actors :
          release[q][a].at = "stop" => release'[q][a] = release[q][a]
    BY <1>2, <2>5, ActorsAre
  <2> QED BY <2>2, <2>3, <2>5, <2>7, <2>8, <2>9
<1> QED BY <1>4, <1>5

\* A step of a startup that leaves the memory server alone.
LEMMA StageKeeps ==
  ASSUME LifeInv, NEW r \in Runtimes, NEW new, NEW to \in OpeningStages, Opens(r, new),
         startup[r].at \in OpeningStages, Have(to) = Have(startup[r].at) \cup new,
         GoesOn(r, to) \/ Fails(r), UNCHANGED ownVars, UNCHANGED serverVars,
         "client" \notin new, startup[r].at # "server", to # "server"
  PROVE  LifeInv'
<1>1. /\ StartupsOK' /\ ReleasesOK'
      /\ \A q \in Runtimes \ {r} : Same(q)
      /\ Advances(r, new, to) \/ Advances(r, new, "unwind")
      /\ startup'[r].at \in {"unwind", to}
      /\ \A q \in Runtimes, a \in Actors :
           release[q][a].at = "stop" => release'[q][a] = release[q][a]
  BY StageStep
<1>2. /\ fields' \in [Runtimes -> [Kinds -> Nat]] /\ opened' \subseteq Resources
      /\ UNCHANGED refused
      /\ \A q, k, m : IsOpen(q, k, m)' <=> IsOpen(q, k, m)
                                           \/ (q = r /\ k \in new /\ m = startup[r].n)
  BY OpensWhat
<1>3. LifecycleTypeOK'
  BY <1>1, <1>2
     DEF LifeInv, LifecycleTypeOK, StartupsOK, ReleasesOK, Startups, Releases, ownVars, serverVars
<1>4. Local(r)'
  BY <1>1, <1>3, AdvancesKeeps DEF LifeInv
<1>5. ServerInv'
  <2>1. \A q \in Runtimes : startup'[q].at = "server" <=> startup[q].at = "server"
    BY <1>1 DEF Same, Frozen
  <2>2. \A q, n : IsOpen(q, "client", n)' <=> IsOpen(q, "client", n)
    BY <1>2
  <2> QED BY <1>1, <2>1, <2>2 DEF LifeInv, ServerInv, serverVars
<1> QED BY <1>1, <1>3, <1>4, <1>5, LocalNext DEF LifeInv

\* A startup goes on, unless a close() has superseded it.
LEMMA ContinueIs == ASSUME NEW r, NEW to, Continue(r, to) PROVE GoesOn(r, to) \/ Fails(r)
  BY DEF Continue, GoesOn, Fails

\* A failed stage has opened nothing.
LEMMA UnwindIs == ASSUME NEW r, UnwindStartup(r), UNCHANGED fields PROVE Fails(r)
  BY DEF UnwindStartup, Fails, Snapshot

\* What has been opened by each stage.
LEMMA StagesAre ==
  /\ Have("tunnel") = {} /\ Have("reserve") = {"tunnel"} /\ Have("server") = {"tunnel"}
  /\ Have("stop") = {"tunnel"}
  /\ Have("client") = {"tunnel", "client"} /\ Have("pool") = {"tunnel", "client", "pool"}
  /\ Have("sync") = {"tunnel", "client", "pool"} /\ Have("models") = Kinds
  BY DEF Have, Kinds

\* The SSH tunnel is open.
LEMMA TunnelOpensKeeps ==
  ASSUME LifeInv, NEW r \in Runtimes, TunnelOpens(r) PROVE LifeInv'
<1>1. /\ startup[r].at = "tunnel" /\ Opened(r, "tunnel") /\ Continue(r, "reserve")
      /\ UNCHANGED ownVars /\ UNCHANGED serverVars
  BY DEF TunnelOpens, StartupAt
<1>2. Opens(r, {"tunnel"}) /\ Have("reserve") = Have(startup[r].at) \cup {"tunnel"}
  BY <1>1, StagesAre, KindsAre DEF Opens
<1>3. "reserve" \in OpeningStages /\ startup[r].at \in OpeningStages
  BY <1>1 DEF OpeningStages
<1> QED BY <1>1, <1>2, <1>3, ContinueIs, StageKeeps

\* The client has connected.
LEMMA ClientConnectsKeeps ==
  ASSUME LifeInv, NEW r \in Runtimes, ClientConnects(r) PROVE LifeInv'
<1>1. /\ startup[r].at = "client" /\ Continue(r, "pool")
      /\ IF Superseded(r) THEN UNCHANGED openVars ELSE Opened(r, "pool")
      /\ UNCHANGED ownVars /\ UNCHANGED serverVars
  BY DEF ClientConnects, StartupAt
<1>2. "pool" \in OpeningStages /\ "client" \in OpeningStages /\ "pool" # "server"
  BY DEF OpeningStages
<1>3. CASE ~Superseded(r)
  <2>1. Opens(r, {"pool"}) /\ Have("pool") = Have(startup[r].at) \cup {"pool"}
    BY <1>1, <1>3, StagesAre, KindsAre DEF Opens
  <2> QED BY <1>1, <1>2, <2>1, ContinueIs, StageKeeps
<1>4. CASE Superseded(r)
  <2>1. Fails(r) /\ Opens(r, {})
    BY <1>1, <1>4 DEF Continue, Fails, Opens
  <2> QED BY <1>1, <1>2, <2>1, StageKeeps
<1> QED BY <1>3, <1>4

\* The pools are there.
LEMMA PoolsReadyKeeps ==
  ASSUME LifeInv, NEW r \in Runtimes, PoolsReady(r) PROVE LifeInv'
<1>1. /\ startup[r].at = "pool" /\ UNCHANGED openVars /\ Continue(r, "sync")
      /\ UNCHANGED ownVars /\ UNCHANGED serverVars
  BY DEF PoolsReady, StartupAt
<1>2. Opens(r, {}) /\ Have("sync") = Have(startup[r].at) \cup {}
  BY <1>1, StagesAre DEF Opens
<1>3. "sync" \in OpeningStages /\ startup[r].at \in OpeningStages
  BY <1>1 DEF OpeningStages
<1> QED BY <1>1, <1>2, <1>3, ContinueIs, StageKeeps

\* The sync has started, or there is none.
LEMMA SyncReadyKeeps ==
  ASSUME LifeInv, NEW r \in Runtimes, SyncReady(r) PROVE LifeInv'
<1>1. /\ startup[r].at = "sync" /\ Opened(r, "sync") /\ Continue(r, "models")
      /\ UNCHANGED ownVars /\ UNCHANGED serverVars
  BY DEF SyncReady, StartupAt
<1>2. Opens(r, {"sync"}) /\ Have("models") = Have(startup[r].at) \cup {"sync"}
  BY <1>1, StagesAre, KindsAre DEF Opens, Kinds
<1>3. "models" \in OpeningStages /\ startup[r].at \in OpeningStages
  BY <1>1 DEF OpeningStages
<1> QED BY <1>1, <1>2, <1>3, ContinueIs, StageKeeps

\* A stage fails.
LEMMA StartupRejectsKeeps ==
  ASSUME LifeInv, NEW r \in Runtimes, StartupRejects(r) PROVE LifeInv'
<1>1. /\ startup[r].at \in {"tunnel", "client", "pool", "models"} /\ UnwindStartup(r)
      /\ UNCHANGED openVars /\ UNCHANGED ownVars /\ UNCHANGED serverVars
  BY DEF StartupRejects
<1>2. Fails(r) /\ Opens(r, {}) /\ Have(startup[r].at) = Have(startup[r].at) \cup {}
  BY <1>1, UnwindIs DEF Opens, openVars
<1>3. startup[r].at \in OpeningStages /\ startup[r].at # "server"
  BY <1>1 DEF OpeningStages
<1> QED BY <1>1, <1>2, <1>3, StageKeeps

\* The startup reserves the memory server, and starts it if it is down.
LEMMA ReserveKeeps ==
  ASSUME LifeInv, NEW r \in Runtimes, Reserve(r) PROVE LifeInv'
<1>1. /\ startup[r].at = "reserve" /\ server # "stopping" /\ pending' = pending \cup {r}
      /\ server' = IF server = "down" THEN "starting" ELSE IF server = "left" THEN "up" ELSE server
      /\ startup' = [startup EXCEPT ![r].at = "server"]
      /\ UNCHANGED ownVars /\ UNCHANGED openVars /\ UNCHANGED release /\ UNCHANGED clients
  BY DEF Reserve, StartupAt
<1>2. Opens(r, {}) /\ GoesOn(r, "server") /\ Have("server") = Have(startup[r].at) \cup {}
  BY <1>1, StagesAre DEF Opens, GoesOn
<1>3. "server" \in OpeningStages /\ startup[r].at \in OpeningStages
  BY <1>1 DEF OpeningStages
<1>4. /\ StartupsOK' /\ ReleasesOK'
      /\ \A q \in Runtimes \ {r} : Same(q)
      /\ Advances(r, {}, "server") \/ Advances(r, {}, "unwind")
  BY <1>1, <1>2, <1>3, StageStep
<1>5. LifecycleTypeOK'
  BY <1>1, <1>4
     DEF LifeInv, LifecycleTypeOK, StartupsOK, ReleasesOK, Startups, Releases, ownVars, openVars
<1>6. Local(r)'
  BY <1>4, <1>5, AdvancesKeeps DEF LifeInv
<1>7. ServerInv'
  <2>1. startup'[r].at = "server" /\ \A q \in Runtimes \ {r} : startup'[q] = startup[q]
    BY <1>1 DEF LifeInv, LifecycleTypeOK
  <2>2. pending' = {q \in Runtimes : startup'[q].at = "server"}
    BY <1>1, <2>1 DEF LifeInv, ServerInv
  <2>3. \A q, n : IsOpen(q, "client", n)' <=> IsOpen(q, "client", n)
    BY <1>1 DEF IsOpen, openVars
  <2>4. pending' # {}
    BY <1>1
  <2>5. server' \notin {"down", "stopping", "left"}
    BY <1>1 DEF LifeInv
  <2>6. server' = "starting" => clients' = {}
    BY <1>1 DEF LifeInv, ServerInv
  <2> QED BY <1>1, <2>2, <2>3, <2>4, <2>5, <2>6 DEF LifeInv, ServerInv
<1> QED BY <1>4, <1>5, <1>6, <1>7, LocalNext DEF LifeInv

\* The client has been created, and counts as one of the memory server's.
LEMMA ClientCreatedKeeps ==
  ASSUME LifeInv, NEW r \in Runtimes, ClientCreated(r) PROVE LifeInv'
<1>1. /\ startup[r].at = "server" /\ server # "starting" /\ Opened(r, "client")
      /\ clients' = clients \cup {<<r, startup[r].n>>} /\ pending' = pending \ {r}
      /\ startup' = [startup EXCEPT ![r].at = "client"]
      /\ UNCHANGED ownVars /\ UNCHANGED release /\ UNCHANGED server
  BY DEF ClientCreated, StartupAt
<1>2. /\ Opens(r, {"client"}) /\ GoesOn(r, "client")
      /\ Have("client") = Have(startup[r].at) \cup {"client"}
  BY <1>1, StagesAre, KindsAre DEF Opens, GoesOn
<1>3. "client" \in OpeningStages /\ startup[r].at \in OpeningStages
  BY <1>1 DEF OpeningStages
<1>4. /\ StartupsOK' /\ ReleasesOK'
      /\ \A q \in Runtimes \ {r} : Same(q)
      /\ Advances(r, {"client"}, "client") \/ Advances(r, {"client"}, "unwind")
  BY <1>1, <1>2, <1>3, StageStep
<1>5. /\ fields' \in [Runtimes -> [Kinds -> Nat]] /\ opened' \subseteq Resources
      /\ UNCHANGED refused
      /\ \A q, k, m : IsOpen(q, k, m)' <=>
                        IsOpen(q, k, m) \/ (q = r /\ k \in {"client"} /\ m = startup[r].n)
  BY <1>2, <1>3, OpensWhat
<1>6. clients' \subseteq Runtimes \X (Nat \ {0})
  BY <1>1, StartupTyped DEF LifeInv, LifecycleTypeOK, Numbers
<1>7. LifecycleTypeOK'
  BY <1>1, <1>4, <1>5, <1>6
     DEF LifeInv, LifecycleTypeOK, StartupsOK, ReleasesOK, Startups, Releases, ownVars
<1>8. Local(r)'
  BY <1>4, <1>7, AdvancesKeeps DEF LifeInv
<1>9. ServerInv'
  <2>1. startup'[r].at = "client" /\ \A q \in Runtimes \ {r} : startup'[q] = startup[q]
    BY <1>1 DEF LifeInv, LifecycleTypeOK
  <2>2. pending' = {q \in Runtimes : startup'[q].at = "server"}
    BY <1>1, <2>1 DEF LifeInv, ServerInv
  <2>3. \A q \in Runtimes, n \in Numbers : IsOpen(q, "client", n)' => <<q, n>> \in clients'
    BY <1>1, <1>5 DEF LifeInv, ServerInv
  <2>4. server = "up"
    <3>1. r \in pending
      BY <1>1 DEF LifeInv, ServerInv
    <3> QED BY <1>1, <3>1 DEF LifeInv, ServerInv, LifecycleTypeOK
  <2>5. clients' # {}
    BY <1>1
  <2> QED BY <1>1, <2>2, <2>3, <2>4, <2>5 DEF ServerInv
<1> QED BY <1>4, <1>7, <1>8, <1>9, LocalNext DEF LifeInv

\* There is no client: the startup fails, or stops the memory server first.
LEMMA ClientRefusedKeeps ==
  ASSUME LifeInv, NEW r \in Runtimes, ClientRefused(r) PROVE LifeInv'
<1>1. /\ startup[r].at = "server" /\ server # "starting" /\ pending' = pending \ {r}
      /\ IF clients = {} /\ pending' = {}
         THEN /\ server' = "stopping" /\ startup' = [startup EXCEPT ![r].at = "stop"]
              /\ UNCHANGED release
         ELSE UnwindStartup(r) /\ UNCHANGED server
      /\ UNCHANGED ownVars /\ UNCHANGED openVars /\ UNCHANGED clients
  BY DEF ClientRefused, StartupAt
<1>2. Opens(r, {}) /\ fields' = fields
  BY <1>1 DEF Opens, openVars
<1>3. /\ "stop" \in OpeningStages /\ startup[r].at \in OpeningStages
      /\ Have("stop") = Have(startup[r].at) \cup {}
  BY <1>1, StagesAre DEF OpeningStages
<1>4. GoesOn(r, "stop") \/ Fails(r)
  <2>1. CASE clients = {} /\ pending' = {}
    BY <1>1, <2>1 DEF GoesOn
  <2>2. CASE ~(clients = {} /\ pending' = {})
    BY <1>1, <1>2, <2>2, UnwindIs
  <2> QED BY <2>1, <2>2
<1>5. server' \in {server, "stopping"} /\ (server' # server => clients = {} /\ pending' = {})
  BY <1>1
<1>6. /\ StartupsOK' /\ ReleasesOK'
      /\ \A q \in Runtimes \ {r} : Same(q)
      /\ Advances(r, {}, "stop") \/ Advances(r, {}, "unwind")
  BY <1>1, <1>2, <1>3, <1>4, StageStep
<1>7. LifecycleTypeOK'
  BY <1>1, <1>5, <1>6
     DEF LifeInv, LifecycleTypeOK, StartupsOK, ReleasesOK, Startups, Releases, ownVars, openVars
<1>8. Local(r)'
  BY <1>6, <1>7, AdvancesKeeps DEF LifeInv
<1>9. ServerInv'
  <2>1. /\ startup'[r].at # "server" /\ \A q \in Runtimes \ {r} : startup'[q] = startup[q]
    BY <1>4 DEF GoesOn, Fails, LifeInv, LifecycleTypeOK
  <2>2. pending' = {q \in Runtimes : startup'[q].at = "server"}
    BY <1>1, <2>1 DEF LifeInv, ServerInv
  <2>3. \A q, n : IsOpen(q, "client", n)' <=> IsOpen(q, "client", n)
    BY <1>1 DEF IsOpen, openVars
  <2>4. server = "up"
    <3>1. r \in pending
      BY <1>1 DEF LifeInv, ServerInv
    <3> QED BY <1>1, <3>1 DEF LifeInv, ServerInv, LifecycleTypeOK
  <2> QED BY <1>1, <1>5, <2>2, <2>3, <2>4 DEF LifeInv, ServerInv
<1> QED BY <1>6, <1>7, <1>8, <1>9, LocalNext DEF LifeInv

\* The startup is over: the runtime is connected.
LEMMA ModelsLoadedKeeps ==
  ASSUME LifeInv, NEW r \in Runtimes, ModelsLoaded(r) PROVE LifeInv'
<1>1. /\ startup[r].at = "models"
      /\ gen' = gen /\ closing' = closing /\ waiting' = waiting /\ calls' = calls
      /\ UNCHANGED openVars /\ UNCHANGED serverVars
      /\ IF Superseded(r) THEN UnwindStartup(r) /\ UNCHANGED connected
         ELSE /\ connected' = [connected EXCEPT ![r] = TRUE]
              /\ startup' = [startup EXCEPT ![r] = NoStartup] /\ UNCHANGED release
  BY DEF ModelsLoaded, StartupAt
<1>2. CASE Superseded(r)
  <2>1. Fails(r) /\ Opens(r, {}) /\ Have(startup[r].at) = Have(startup[r].at) \cup {}
    BY <1>1, <1>2, UnwindIs DEF Opens, openVars
  <2>2. startup[r].at \in OpeningStages /\ startup[r].at # "server"
    BY <1>1 DEF OpeningStages
  <2>3. UNCHANGED ownVars
    BY <1>1, <1>2 DEF ownVars
  <2> QED BY <1>1, <2>1, <2>2, <2>3, StageKeeps
<1>3. CASE ~Superseded(r)
  <2>1. /\ connected' = [connected EXCEPT ![r] = TRUE]
        /\ startup' = [startup EXCEPT ![r] = NoStartup]
        /\ UNCHANGED release
    BY <1>1, <1>3
  <2>2. LifecycleTypeOK /\ NoStartup \in Startups
    BY DEF LifeInv, NoStartup, Startups
  <2>3. StartupsOK' /\ \A q \in Runtimes \ {r} : startup'[q] = startup[q]
    BY <2>1, <2>2 DEF LifecycleTypeOK, StartupsOK, Startups
  <2>4. /\ startup'[r].at = "none" /\ startup'[r].gen = 0 /\ connected'[r]
        /\ \A q \in Runtimes \ {r} : connected'[q] = connected[q]
    BY <2>1, <2>2 DEF LifecycleTypeOK, NoStartup
  <2>5. LifecycleTypeOK'
    BY <1>1, <2>1, <2>2, <2>3 DEF LifecycleTypeOK, StartupsOK, Startups, openVars, serverVars
  <2>6. \A q, k, n : (IsOpen(q, k, n)' <=> IsOpen(q, k, n))
                     /\ (IsRefused(q, k, n)' <=> IsRefused(q, k, n))
    BY <1>1 DEF openVars, IsOpen, IsRefused
  <2>7. \A q \in Runtimes \ {r} : Same(q)
    BY <1>1, <2>1, <2>3, <2>4, <2>6 DEF Same, Frozen, openVars
  <2>8. Local(r)'
    <3>1. /\ Local(r) /\ startup[r].gen = gen[r] /\ gen[r] \in Nat
          /\ startup[r].at \in OpeningStages
      BY <1>1, <1>3, <2>2 DEF LifeInv, Superseded, OpeningStages, LifecycleTypeOK
    <3>2. \A k \in Kinds : fields[r][k] = startup[r].n /\ IsOpen(r, k, fields[r][k])
      BY <1>1, <3>1, StagesAre DEF Local, OpensInOrder
    <3>3. PastFailed(r)'
      <4>1. \A b \in Actors : \A n : \A k \in Past(release[r][b].at) :
              (IsOpen(r, k, n)' /\ n = release[r][b].snap[k]) =>
                 k \in release[r][b].failed /\ IsRefused(r, k, n)'
        BY <2>6, <3>1 DEF Local, PastFailed
      <4> QED BY <2>1, <4>1 DEF PastFailed
    <3>4. Whole(r)'
      BY <1>1, <2>6, <3>2 DEF Whole, openVars
    <3>5. ReleasesRun(r)' /\ Numbered(r)' /\ Generations(r)'
      BY <1>1, <2>1, <2>4, <3>1 DEF Local, ReleasesRun, Numbered, Generations, Last, openVars
    <3>6. CloseIsOlder(r)'
      BY <1>1, <2>1, <2>4, <3>1, <3>2 DEF Local, CloseIsOlder, openVars
    <3>7. OpensInOrder(r)' /\ UnwindCovers(r)' /\ CloseCovers(r)' /\ Clean(r)'
      BY <2>4 DEF OpensInOrder, UnwindCovers, CloseCovers, Clean, OpeningStages
    <3>8. Owned(r)'
      BY <1>1, <2>6, <3>1 DEF Local, Owned, openVars
    <3> QED BY <3>3, <3>4, <3>5, <3>6, <3>7, <3>8 DEF Local
  <2>9. ServerInv'
    <3>1. \A q \in Runtimes : startup'[q].at = "server" <=> startup[q].at = "server"
      BY <1>1, <2>3, <2>4
    <3> QED BY <1>1, <2>1, <2>6, <3>1 DEF LifeInv, ServerInv, serverVars
  <2> QED BY <2>5, <2>7, <2>8, <2>9, LocalNext DEF LifeInv
<1> QED BY <1>2, <1>3

-----------------------------------------------------------------------------
(* Calls.                                                                  *)

\* connect() is called or resumes: it begins a startup, or it changes nothing.
LEMMA CallsCounted ==
  ASSUME LifecycleTypeOK, NEW r \in Runtimes, NEW c \in {"connect", "close"},
         \/ c = "connect" /\ calls' = [calls EXCEPT ![r].connect = @ + 1]
         \/ c = "close" /\ calls' = [calls EXCEPT ![r].close = @ + 1]
  PROVE  /\ calls' \in [Runtimes -> [connect : Nat, close : Nat]]
         /\ calls'[r].connect = IF c = "connect" THEN calls[r].connect + 1 ELSE calls[r].connect
         /\ \A q \in Runtimes \ {r} : calls'[q] = calls[q]
<1> DEFINE Counts == [connect : Nat, close : Nat]
<1>1. calls \in [Runtimes -> Counts] /\ calls[r] \in Counts
  BY DEF LifecycleTypeOK
<1>2. calls[r].connect \in Nat /\ calls[r].close \in Nat
  BY <1>1
<1>3. CASE c = "connect" /\ calls' = [calls EXCEPT ![r].connect = @ + 1]
  <2>1. calls'[r] = [connect |-> calls[r].connect + 1, close |-> calls[r].close]
    BY <1>1, <1>3
  <2>2. calls'[r] \in Counts
    BY <1>2, <2>1
  <2> QED BY <1>1, <1>3, <2>1, <2>2
<1>4. CASE c = "close" /\ calls' = [calls EXCEPT ![r].close = @ + 1]
  <2>1. calls'[r] = [connect |-> calls[r].connect, close |-> calls[r].close + 1]
    BY <1>1, <1>4
  <2>2. calls'[r] \in Counts
    BY <1>2, <2>1
  <2> QED BY <1>1, <1>4, <2>1, <2>2
<1> QED BY <1>3, <1>4

\* connect() returns at once, joins the startup under way, or begins one.
LEMMA ConnectBodyKeeps ==
  ASSUME LifeInv, NEW r \in Runtimes, ConnectBody(r), LifecycleTypeOK',
         UNCHANGED <<connected, gen, closing>>, UNCHANGED openVars, UNCHANGED serverVars,
         \A q \in Runtimes \ {r} : waiting'[q] = waiting[q] /\ calls'[q] = calls[q],
         Last(r)' = Last(r) + 1, Last(r)' = calls'[r].connect
  PROVE  LifeInv'
<1>1. Local(r) /\ LifecycleTypeOK /\ Last(r) \in Nat
  BY DEF LifeInv, Local, Numbered
<1>2. \A q, k, n : (IsOpen(q, k, n)' <=> IsOpen(q, k, n))
                   /\ (IsRefused(q, k, n)' <=> IsRefused(q, k, n))
  BY DEF openVars, IsOpen, IsRefused
<1>3. CASE UNCHANGED <<startup, release>>
  <2>1. \A q \in Runtimes : Frozen(q)
    BY <1>2, <1>3 DEF Frozen, openVars
  <2>2. Local(r)'
    BY <1>1, <2>1, FrozenKeeps
  <2>3. \A q \in Runtimes \ {r} : Same(q)
    BY <2>1 DEF Same
  <2>4. ServerInv'
    BY <1>2, <1>3 DEF LifeInv, ServerInv, serverVars
  <2> QED BY <2>2, <2>3, <2>4, LocalNext DEF LifeInv
<1>4. CASE ~UNCHANGED <<startup, release>>
  <2> DEFINE n0 == calls'[r].connect
  <2>1. /\ ~connected[r] /\ startup[r].at = "none"
        /\ startup' = [startup EXCEPT ![r] = [at |-> "release", gen |-> gen[r], n |-> n0]]
        /\ release' = [release EXCEPT ![r]["startup"] = Snapshot(r)]
    BY <1>4 DEF ConnectBody, StartupAt
  <2>2. /\ startup'[r] = [at |-> "release", gen |-> gen[r], n |-> n0]
        /\ \A q \in Runtimes \ {r} : startup'[q] = startup[q]
    BY <1>1, <2>1 DEF LifecycleTypeOK
  <2>3. /\ release'[r]["startup"] = [at |-> "services", snap |-> fields[r], failed |-> {}]
        /\ release'[r]["close"] = release[r]["close"]
        /\ \A q \in Runtimes \ {r} : release'[q] = release[q]
    BY <1>1, <2>1, ActorsAre DEF LifecycleTypeOK, Snapshot
  <2>4. /\ startup'[r].at = "release" /\ startup'[r].gen = gen[r] /\ startup'[r].n = n0
        /\ release'[r]["startup"].at = "services" /\ release'[r]["startup"].snap = fields[r]
        /\ connected' = connected /\ gen' = gen /\ closing' = closing /\ fields' = fields
    BY <2>2, <2>3 DEF openVars
  <2> HIDE DEF n0
  <2>5. gen[r] \in Nat /\ n0 = Last(r) + 1 /\ Last(r)' = n0
    BY <1>1 DEF LifecycleTypeOK, n0
  <2>6. \A q \in Runtimes \ {r} : Same(q)
    BY <1>2, <2>2, <2>3, <2>4 DEF Same, Frozen
  <2>7. Local(r)'
    <3>1. PastFailed(r)'
      <4>1. \A n : \A k \in Past(release[r]["close"].at) :
              (IsOpen(r, k, n)' /\ n = release[r]["close"].snap[k]) =>
                 k \in release[r]["close"].failed /\ IsRefused(r, k, n)'
        BY <1>1, <1>2, ActorsAre DEF Local, PastFailed
      <4>2. Past(release'[r]["startup"].at) = {}
        BY <2>4, PastAre
      <4> QED BY <2>3, <4>1, <4>2, ActorsAre DEF PastFailed
    <3>2. ReleasesRun(r)'
      BY <1>1, <2>3, <2>4 DEF Local, ReleasesRun
    <3>3. \A k \in Kinds : /\ fields[r][k] \in Nat /\ fields[r][k] <= Last(r)
                           /\ release[r]["close"].snap[k] \in Nat
                           /\ release[r]["close"].snap[k] <= Last(r)
      BY <1>1, RelTyped, ActorsAre DEF Local, Numbered, Releases, LifecycleTypeOK
    <3>4. Numbered(r)'
      BY <1>1, <2>3, <2>4, <2>5, <3>3 DEF Numbered
    <3>5. CloseIsOlder(r)'
      BY <1>1, <2>1, <2>3, <2>4, <2>5, <3>3 DEF CloseIsOlder
    <3>6. Generations(r)'
      BY <1>1, <2>1, <2>4, <2>5 DEF Local, Generations
    <3>7. Owned(r)'
      BY <1>1, <1>2, <2>4 DEF Local, Owned
    <3>8. UnwindCovers(r)'
      BY <1>1, <1>2, <2>4 DEF Local, Owned, UnwindCovers
    <3>9. OpensInOrder(r)' /\ CloseCovers(r)' /\ Whole(r)' /\ Clean(r)'
      BY <2>1, <2>4 DEF OpensInOrder, OpeningStages, CloseCovers, Whole, Clean
    <3> QED BY <3>1, <3>2, <3>4, <3>5, <3>6, <3>7, <3>8, <3>9 DEF Local
  <2>8. ServerInv'
    <3>1. \A q \in Runtimes : startup'[q].at = "server" <=> startup[q].at = "server"
      BY <2>1, <2>2, <2>4
    <3>2. release[r]["startup"].at = "none"
      BY <1>1, <2>1 DEF Local, ReleasesRun
    <3>3. \A q \in Runtimes, a \in Actors :
               release[q][a].at = "stop" => release'[q][a] = release[q][a]
      BY <2>3, <3>2, ActorsAre
    <3> QED BY <1>2, <3>1, <3>3 DEF LifeInv, ServerInv, serverVars
  <2> QED BY <2>6, <2>7, <2>8, LocalNext DEF LifeInv
<1> QED BY <1>3, <1>4

\* The types after connect().
LEMMA ConnectBodyTyped ==
  ASSUME LifecycleTypeOK, NEW r \in Runtimes, ConnectBody(r), calls'[r].connect \in Nat
  PROVE  StartupsOK' /\ ReleasesOK'
<1>1. StartupsOK /\ ReleasesOK /\ gen[r] \in Nat /\ Snapshot(r) \in Releases
  BY SnapshotTyped DEF LifecycleTypeOK, StartupsOK, ReleasesOK, Startups, Releases
<1>2. CASE UNCHANGED <<startup, release>>
  BY <1>1, <1>2 DEF StartupsOK, ReleasesOK
<1>3. CASE /\ startup' = [startup EXCEPT ![r] = [at |-> "release", gen |-> gen[r],
                                                 n |-> calls'[r].connect]]
           /\ release' = [release EXCEPT ![r]["startup"] = Snapshot(r)]
  <2>1. [at |-> "release", gen |-> gen[r], n |-> calls'[r].connect] \in Startups
    BY <1>1 DEF Startups
  <2> QED BY <1>1, <1>3, <2>1, ActorsAre DEF StartupsOK, ReleasesOK
<1> QED BY <1>2, <1>3 DEF ConnectBody

\* connect() is called, and waits for a close() that is under way.
LEMMA ConnectCallKeeps ==
  ASSUME LifeInv, NEW r \in Runtimes, ConnectCall(r) PROVE LifeInv'
<1>1. /\ waiting[r] = "no" /\ calls' = [calls EXCEPT ![r].connect = @ + 1]
      /\ \/ closing[r] = "none" /\ ConnectBody(r) /\ UNCHANGED waiting
         \/ waiting' = [waiting EXCEPT ![r] = "waiting"] /\ UNCHANGED <<startup, release>>
      /\ UNCHANGED <<connected, gen, closing>> /\ UNCHANGED openVars /\ UNCHANGED serverVars
  BY DEF ConnectCall
<1>2. /\ LifecycleTypeOK /\ Local(r) /\ Last(r) \in Nat
      /\ StartupsOK /\ ReleasesOK /\ calls[r].connect \in Nat
  BY DEF LifeInv, LifecycleTypeOK, StartupsOK, ReleasesOK, Startups, Releases, Local, Numbered
<1>3. /\ calls'[r].connect = calls[r].connect + 1
      /\ calls' \in [Runtimes -> [connect : Nat, close : Nat]]
      /\ \A q \in Runtimes \ {r} : calls'[q] = calls[q]
  BY <1>1, <1>2, CallsCounted
<1>4. CASE closing[r] = "none" /\ ConnectBody(r) /\ UNCHANGED waiting
  <2>1. StartupsOK' /\ ReleasesOK'
    BY <1>2, <1>3, <1>4, ConnectBodyTyped
  <2>2. LifecycleTypeOK'
    BY <1>1, <1>2, <1>3, <1>4, <2>1
       DEF LifecycleTypeOK, StartupsOK, ReleasesOK, Startups, Releases, openVars, serverVars
  <2>3. Last(r)' = Last(r) + 1 /\ Last(r)' = calls'[r].connect
    BY <1>1, <1>3, <1>4 DEF Last
  <2> QED BY <1>1, <1>3, <1>4, <2>2, <2>3, ConnectBodyKeeps
<1>5. CASE waiting' = [waiting EXCEPT ![r] = "waiting"] /\ UNCHANGED <<startup, release>>
  <2>1. /\ waiting' \in [Runtimes -> {"no", "waiting", "resolved"}] /\ waiting'[r] = "waiting"
        /\ \A q \in Runtimes \ {r} : waiting'[q] = waiting[q]
    BY <1>2, <1>5 DEF LifecycleTypeOK
  <2>2. LifecycleTypeOK'
    BY <1>1, <1>2, <1>3, <1>5, <2>1 DEF LifecycleTypeOK, openVars, serverVars
  <2>3. \A q, k, n : (IsOpen(q, k, n)' <=> IsOpen(q, k, n))
                     /\ (IsRefused(q, k, n)' <=> IsRefused(q, k, n))
    BY <1>1 DEF openVars, IsOpen, IsRefused
  <2>4. \A q \in Runtimes : Frozen(q)
    BY <1>1, <1>5, <2>3 DEF Frozen, openVars
  <2>5. Last(r)' = Last(r)
    BY <1>1, <1>2, <1>3, <2>1 DEF Last
  <2>6. Local(r)'
    BY <1>2, <2>2, <2>4, <2>5, FrozenKeeps
  <2>7. \A q \in Runtimes \ {r} : Same(q)
    BY <1>3, <2>1, <2>4 DEF Same
  <2>8. ServerInv'
    BY <1>1, <1>5, <2>3 DEF LifeInv, ServerInv, serverVars
  <2> QED BY <2>2, <2>6, <2>7, <2>8, LocalNext DEF LifeInv
<1> QED BY <1>1, <1>4, <1>5

\* connect() goes on when that close() has ended.
LEMMA ConnectResumesKeeps ==
  ASSUME LifeInv, NEW r \in Runtimes, ConnectResumes(r) PROVE LifeInv'
<1>1. /\ waiting[r] = "resolved" /\ waiting' = [waiting EXCEPT ![r] = "no"]
      /\ calls' = calls /\ ConnectBody(r)
      /\ UNCHANGED <<connected, gen, closing>> /\ UNCHANGED openVars /\ UNCHANGED serverVars
  BY DEF ConnectResumes
<1>2. LifecycleTypeOK /\ Last(r) \in Nat /\ calls[r].connect \in Nat
  BY DEF LifeInv, LifecycleTypeOK, Local, Numbered
<1>3. /\ waiting' \in [Runtimes -> {"no", "waiting", "resolved"}] /\ waiting'[r] = "no"
      /\ \A q \in Runtimes \ {r} : waiting'[q] = waiting[q]
  BY <1>1, <1>2 DEF LifecycleTypeOK
<1>4. StartupsOK' /\ ReleasesOK'
  BY <1>1, <1>2, ConnectBodyTyped
<1>5. LifecycleTypeOK'
  BY <1>1, <1>2, <1>3, <1>4
     DEF LifecycleTypeOK, StartupsOK, ReleasesOK, Startups, Releases, openVars, serverVars
<1>6. Last(r)' = Last(r) + 1 /\ Last(r)' = calls'[r].connect
  BY <1>1, <1>2, <1>3 DEF Last
<1> QED BY <1>1, <1>3, <1>5, <1>6, ConnectBodyKeeps

\* close() has ended.
LEMMA CloseEndsKeeps ==
  ASSUME LifeInv, NEW r \in Runtimes, CloseEnds(r) PROVE LifeInv'
<1>1. /\ closing[r] = "cache" /\ closing' = [closing EXCEPT ![r] = "none"]
      /\ waiting' = [waiting EXCEPT ![r] = IF @ = "waiting" THEN "resolved" ELSE @]
      /\ connected' = connected /\ gen' = gen /\ calls' = calls /\ startup' = startup
      /\ release' = release /\ UNCHANGED openVars /\ UNCHANGED serverVars
  BY DEF CloseEnds
<1>2. LifecycleTypeOK /\ Local(r)
  BY DEF LifeInv
<1>3. /\ waiting' \in [Runtimes -> {"no", "waiting", "resolved"}]
      /\ waiting'[r] = "no" <=> waiting[r] = "no"
      /\ \A q \in Runtimes \ {r} : waiting'[q] = waiting[q]
  BY <1>1, <1>2 DEF LifecycleTypeOK
<1>4. /\ closing' \in [Runtimes -> {"none", "await", "release", "cache"}] /\ closing'[r] = "none"
      /\ \A q \in Runtimes \ {r} : closing'[q] = closing[q]
  BY <1>1, <1>2 DEF LifecycleTypeOK
<1>5. LifecycleTypeOK'
  BY <1>1, <1>2, <1>3, <1>4 DEF LifecycleTypeOK, openVars, serverVars
<1>6. \A q, k, n : (IsOpen(q, k, n)' <=> IsOpen(q, k, n))
                   /\ (IsRefused(q, k, n)' <=> IsRefused(q, k, n))
  BY <1>1 DEF openVars, IsOpen, IsRefused
<1>7. \A q \in Runtimes \ {r} : Same(q)
  BY <1>1, <1>3, <1>4, <1>6 DEF Same, Frozen, openVars
<1>8. Local(r)'
  <2>1. Last(r)' = Last(r) /\ fields' = fields
    BY <1>1, <1>3 DEF Last, openVars
  <2>2. PastFailed(r)'
    <3>1. \A b \in Actors : \A n : \A k \in Past(release[r][b].at) :
            (IsOpen(r, k, n)' /\ n = release[r][b].snap[k]) =>
               k \in release[r][b].failed /\ IsRefused(r, k, n)'
      BY <1>2, <1>6 DEF Local, PastFailed
    <3> QED BY <1>1, <3>1 DEF PastFailed
  <2>3. ReleasesRun(r)' /\ Numbered(r)' /\ Generations(r)' /\ CloseIsOlder(r)'
    BY <1>1, <1>2, <1>4, <2>1 DEF Local, ReleasesRun, Numbered, Generations, CloseIsOlder
  <2>4. OpensInOrder(r)'
    <3>1. \A k \in Have(startup[r].at) : \A n : IsOpen(r, k, n)' <=> IsOpen(r, k, n)
      BY <1>6
    <3> QED BY <1>1, <1>2, <1>6, <2>1, <3>1 DEF Local, OpensInOrder
  <2>5. UnwindCovers(r)' /\ CloseCovers(r)' /\ Owned(r)' /\ Clean(r)'
    BY <1>1, <1>2, <1>4, <1>6, <2>1 DEF Local, UnwindCovers, CloseCovers, Owned, Clean
  <2>6. Whole(r)'
    BY <1>1, <1>2, <1>6, <2>1 DEF Local, Whole
  <2> QED BY <2>2, <2>3, <2>4, <2>5, <2>6 DEF Local
<1>9. ServerInv'
  BY <1>1, <1>6 DEF LifeInv, ServerInv, serverVars
<1> QED BY <1>5, <1>7, <1>8, <1>9, LocalNext DEF LifeInv

\* close() is called.
LEMMA RuntimeCloseCallKeeps ==
  ASSUME LifeInv, NEW r \in Runtimes, RuntimeCloseCall(r) PROVE LifeInv'
<1>1. /\ closing[r] = "none" /\ calls' = [calls EXCEPT ![r].close = @ + 1]
      /\ connected' = [connected EXCEPT ![r] = FALSE] /\ gen' = [gen EXCEPT ![r] = @ + 1]
      /\ \/ /\ startup[r].at = "none" /\ closing' = [closing EXCEPT ![r] = "release"]
            /\ release' = [release EXCEPT ![r]["close"] = Snapshot(r)]
         \/ /\ startup[r].at # "none" /\ closing' = [closing EXCEPT ![r] = "await"]
            /\ release' = release
      /\ startup' = startup /\ waiting' = waiting /\ UNCHANGED openVars /\ UNCHANGED serverVars
  BY DEF RuntimeCloseCall, StartupAt
<1>2. /\ LifecycleTypeOK /\ Local(r) /\ Snapshot(r) \in Releases /\ ReleasesOK
      /\ gen[r] \in Nat /\ startup[r].gen \in Nat
  BY SnapshotTyped DEF LifeInv, LifecycleTypeOK, ReleasesOK, Releases
<1>3. /\ calls' \in [Runtimes -> [connect : Nat, close : Nat]]
      /\ calls'[r].connect = calls[r].connect
      /\ \A q \in Runtimes \ {r} : calls'[q] = calls[q]
  BY <1>1, <1>2, CallsCounted
<1>4. /\ connected' \in [Runtimes -> BOOLEAN] /\ ~connected'[r]
      /\ gen' \in [Runtimes -> Nat] /\ gen'[r] = gen[r] + 1
      /\ \A q \in Runtimes \ {r} : connected'[q] = connected[q] /\ gen'[q] = gen[q]
  BY <1>1, <1>2 DEF LifecycleTypeOK
<1>5. /\ closing' \in [Runtimes -> {"none", "await", "release", "cache"}]
      /\ closing'[r] = IF startup[r].at = "none" THEN "release" ELSE "await"
      /\ \A q \in Runtimes \ {r} : closing'[q] = closing[q]
  BY <1>1, <1>2 DEF LifecycleTypeOK
<1>6. /\ ReleasesOK' /\ release'[r]["startup"] = release[r]["startup"]
      /\ \A q \in Runtimes \ {r} : release'[q] = release[q]
      /\ release'[r]["close"] = IF startup[r].at = "none"
                                THEN [at |-> "services", snap |-> fields[r], failed |-> {}]
                                ELSE release[r]["close"]
  <2>1. CASE startup[r].at = "none"
    <3>1. release' = [release EXCEPT ![r]["close"] = Snapshot(r)]
      BY <1>1, <2>1
    <3> QED BY <1>2, <2>1, <3>1, ActorsAre DEF ReleasesOK, Snapshot
  <2>2. CASE startup[r].at # "none"
    BY <1>1, <1>2, <2>2 DEF ReleasesOK
  <2> QED BY <2>1, <2>2
<1>7. LifecycleTypeOK'
  BY <1>1, <1>2, <1>3, <1>4, <1>5, <1>6
     DEF LifecycleTypeOK, ReleasesOK, Releases, openVars, serverVars
<1>8. \A q, k, n : (IsOpen(q, k, n)' <=> IsOpen(q, k, n))
                   /\ (IsRefused(q, k, n)' <=> IsRefused(q, k, n))
  BY <1>1 DEF openVars, IsOpen, IsRefused
<1>9. \A q \in Runtimes \ {r} : Same(q)
  BY <1>1, <1>3, <1>4, <1>5, <1>6, <1>8 DEF Same, Frozen, openVars
<1>10. release[r]["close"].at = "none"
  BY <1>1, <1>2 DEF Local, ReleasesRun
<1>11. Local(r)'
  <2>1. Last(r)' = Last(r) /\ fields' = fields /\ startup' = startup
    BY <1>1, <1>3 DEF Last, openVars
  <2>2. Owned(r)'
    BY <1>2, <1>8, <2>1 DEF Local, Owned
  <2>3. OpensInOrder(r)'
    <3>1. \A k \in Have(startup[r].at) : \A n : IsOpen(r, k, n)' <=> IsOpen(r, k, n)
      BY <1>8
    <3> QED BY <1>2, <1>8, <2>1, <3>1 DEF Local, OpensInOrder
  <2>4. UnwindCovers(r)'
    BY <1>2, <1>6, <1>8, <2>1 DEF Local, UnwindCovers
  <2>5. Whole(r)' /\ Clean(r)'
    BY <1>4, <1>5, <2>1 DEF Whole, Clean
  <2>6. \A n : \A k \in Past(release[r]["startup"].at) :
          (IsOpen(r, k, n)' /\ n = release[r]["startup"].snap[k]) =>
             k \in release[r]["startup"].failed /\ IsRefused(r, k, n)'
    BY <1>2, <1>8, ActorsAre DEF Local, PastFailed
  <2>7. CASE startup[r].at = "none"
    <3>1. /\ release'[r]["close"] = [at |-> "services", snap |-> fields[r], failed |-> {}]
          /\ closing'[r] = "release"
      BY <1>5, <1>6, <2>7
    <3>2. release'[r]["close"].at = "services" /\ release'[r]["close"].snap = fields[r]
      BY <3>1
    <3>3. Past(release'[r]["close"].at) = {}
      BY <3>2, PastAre
    <3>4. PastFailed(r)'
      BY <1>6, <2>6, <3>3, ActorsAre DEF PastFailed
    <3>5. ReleasesRun(r)' /\ Numbered(r)' /\ Generations(r)' /\ CloseIsOlder(r)'
      BY <1>2, <1>4, <1>6, <2>1, <2>7, <3>1, <3>2
         DEF Local, ReleasesRun, Numbered, Generations, CloseIsOlder
    <3>6. CloseCovers(r)'
      BY <2>1, <2>2, <3>2 DEF CloseCovers, Owned
    <3> QED BY <2>2, <2>3, <2>4, <2>5, <3>4, <3>5, <3>6 DEF Local
  <2>8. CASE startup[r].at # "none"
    <3>1. release'[r]["close"] = release[r]["close"] /\ closing'[r] = "await"
      BY <1>5, <1>6, <2>8
    <3>2. Past(release'[r]["close"].at) = {}
      BY <1>10, <3>1, PastAre
    <3>3. PastFailed(r)'
      BY <1>6, <2>6, <3>2, ActorsAre DEF PastFailed
    <3>4. ReleasesRun(r)' /\ Numbered(r)' /\ CloseIsOlder(r)' /\ CloseCovers(r)'
      BY <1>2, <1>6, <1>10, <2>1, <3>1
         DEF Local, ReleasesRun, Numbered, CloseIsOlder, CloseCovers
    <3>5. Generations(r)'
      BY <1>2, <1>4, <2>1, <2>8, <3>1 DEF Local, Generations
    <3> QED BY <2>2, <2>3, <2>4, <2>5, <3>3, <3>4, <3>5 DEF Local
  <2> QED BY <2>7, <2>8
<1>12. ServerInv'
  <2>1. \A q \in Runtimes, a \in Actors :
             release[q][a].at = "stop" => release'[q][a] = release[q][a]
    BY <1>6, <1>10, ActorsAre
  <2> QED BY <1>1, <1>8, <2>1 DEF LifeInv, ServerInv, serverVars
<1> QED BY <1>7, <1>9, <1>11, <1>12, LocalNext DEF LifeInv

-----------------------------------------------------------------------------
(* The end of a release.                                                   *)

\* What is left open of a snapshot is what its release has failed to close.
LEMMA TunnelReleases ==
  ASSUME LifeInv, NEW r \in Runtimes, NEW a \in Actors, TunnelReleased(r, a)
  PROVE  /\ fields' \in [Runtimes -> [Kinds -> Nat]] /\ opened' \subseteq Resources
         /\ refused' \subseteq Resources /\ opened' \subseteq opened
         /\ \A q \in Runtimes \ {r} : fields'[q] = fields[q]
         /\ \A k \in Kinds : fields'[r][k] =
              IF k \notin release[r][a].failed /\ fields[r][k] = release[r][a].snap[k]
              THEN 0 ELSE fields[r][k]
         /\ \A q, k, n :
              /\ IsOpen(q, k, n)' <=> IsOpen(q, k, n)
                   /\ ~(q = r /\ k = "tunnel" /\ n = release[r][a].snap["tunnel"])
              /\ IsRefused(q, k, n)' <=> IsRefused(q, k, n) /\ IsOpen(q, k, n)'
         /\ \A k \in Kinds : \A n : (IsOpen(r, k, n)' /\ n = release[r][a].snap[k]) =>
              k \in release[r][a].failed /\ IsRefused(r, k, n)'
         /\ Owned(r)'
<1>1. /\ release[r][a].at = "tunnel" /\ fields' = [fields EXCEPT ![r] = Emptied(r, a)]
      /\ opened' = opened \ Of(r, a, {"tunnel"}) /\ refused' = refused \cap opened'
  BY DEF TunnelReleased
<1>2. /\ fields \in [Runtimes -> [Kinds -> Nat]] /\ opened \subseteq Resources
      /\ refused \subseteq Resources /\ Local(r) /\ LifecycleTypeOK
  BY DEF LifeInv, LifecycleTypeOK
<1>3. /\ fields' \in [Runtimes -> [Kinds -> Nat]]
      /\ \A q \in Runtimes \ {r} : fields'[q] = fields[q]
      /\ \A k \in Kinds : fields'[r][k] =
           IF k \notin release[r][a].failed /\ fields[r][k] = release[r][a].snap[k]
           THEN 0 ELSE fields[r][k]
  <2>1. Emptied(r, a) \in [Kinds -> Nat]
    BY <1>2 DEF Emptied
  <2> QED BY <1>1, <1>2, <2>1 DEF Emptied
<1>4. \A q, k, n :
        /\ IsOpen(q, k, n)' <=> IsOpen(q, k, n)
             /\ ~(q = r /\ k = "tunnel" /\ n = release[r][a].snap["tunnel"])
        /\ IsRefused(q, k, n)' <=> IsRefused(q, k, n) /\ IsOpen(q, k, n)'
  <2>1. \A q, k, n : <<q, k, n>> \in Of(r, a, {"tunnel"})
          <=> q = r /\ k = "tunnel" /\ n = release[r][a].snap["tunnel"]
    BY DEF Of
  <2>2. \A x : (x \in opened' <=> x \in opened /\ x \notin Of(r, a, {"tunnel"}))
             /\ (x \in refused' <=> x \in refused /\ x \in opened')
    BY <1>1
  <2> QED BY <2>1, <2>2 DEF IsOpen, IsRefused
<1>5. \A k \in Kinds : \A n : (IsOpen(r, k, n)' /\ n = release[r][a].snap[k]) =>
        k \in release[r][a].failed /\ IsRefused(r, k, n)'
  <2>1. \A k \in Kinds : k = "tunnel" \/ k \in Past(release[r][a].at)
    BY <1>1 DEF Past, Kinds
  <2>2. \A k \in Past(release[r][a].at) : \A n : (IsOpen(r, k, n) /\ n = release[r][a].snap[k]) =>
          k \in release[r][a].failed /\ IsRefused(r, k, n)
    BY <1>2 DEF Local, PastFailed
  <2> QED BY <1>4, <2>1, <2>2
<1>6. Owned(r)'
  <2> SUFFICES ASSUME NEW k \in Kinds, NEW n \in Numbers, IsOpen(r, k, n)'
               PROVE  fields'[r][k] = n
    BY DEF Owned
  <2>1. IsOpen(r, k, n) /\ fields[r][k] = n
    BY <1>2, <1>4 DEF Local, Owned
  <2> QED BY <1>3, <1>5, <2>1
<1> QED BY <1>1, <1>2, <1>3, <1>4, <1>5, <1>6

\* What another release has gone past stays so.
LEMMA PastStays ==
  ASSUME LifeInv, NEW r \in Runtimes, NEW a \in Actors, NEW b \in Actors, TunnelReleased(r, a)
  PROVE  \A n : \A k \in Past(release[r][b].at) : (IsOpen(r, k, n)' /\ n = release[r][b].snap[k]) =>
           k \in release[r][b].failed /\ IsRefused(r, k, n)'
<1>1. \A q, k, n :
        /\ IsOpen(q, k, n)' <=> IsOpen(q, k, n)
             /\ ~(q = r /\ k = "tunnel" /\ n = release[r][a].snap["tunnel"])
        /\ IsRefused(q, k, n)' <=> IsRefused(q, k, n) /\ IsOpen(q, k, n)'
  BY TunnelReleases
<1> QED BY <1>1 DEF LifeInv, Local, PastFailed

\* No release is a release too.
LEMMA NoReleaseTyped == NoRelease \in Releases /\ NoRelease.at = "none"
<1>1. {} \in SUBSET Kinds /\ [k \in Kinds |-> 0] \in [Kinds -> Nat]
  OBVIOUS
<1> QED BY <1>1 DEF NoRelease, Releases

\* Steps that do not concern the memory server.
LEMMA ServerKept ==
  ASSUME LifeInv, UNCHANGED serverVars, opened' \subseteq opened,
         \A q \in Runtimes : startup'[q].at = "server" <=> startup[q].at = "server",
         \A q \in Runtimes, a \in Actors :
              release[q][a].at = "stop" => release'[q][a] = release[q][a]
  PROVE  ServerInv'
<1>1. \A q, n : IsOpen(q, "client", n)' => IsOpen(q, "client", n)
  BY DEF IsOpen
<1> QED BY <1>1 DEF LifeInv, ServerInv, serverVars

\* close() has released all it found, and forgets it.
LEMMA CloseReleasedKeeps ==
  ASSUME LifeInv, NEW r \in Runtimes, CloseReleased(r) PROVE LifeInv'
<1>1. /\ closing[r] = "release" /\ TunnelReleased(r, "close") /\ release[r]["close"].at = "tunnel"
      /\ release' = [release EXCEPT ![r]["close"] = NoRelease]
      /\ closing' = [closing EXCEPT ![r] = "cache"]
      /\ UNCHANGED <<connected, gen, waiting, calls, startup>> /\ UNCHANGED serverVars
  BY DEF CloseReleased, TunnelReleased
<1>2. LifecycleTypeOK /\ Local(r) /\ ReleasesOK
  BY DEF LifeInv, LifecycleTypeOK, ReleasesOK, Releases
<1> DEFINE snap == release[r]["close"].snap
<1>3. /\ fields' \in [Runtimes -> [Kinds -> Nat]] /\ opened' \subseteq Resources
      /\ refused' \subseteq Resources /\ opened' \subseteq opened
      /\ \A q \in Runtimes \ {r} : fields'[q] = fields[q]
      /\ \A k \in Kinds : fields'[r][k] =
           IF k \notin release[r]["close"].failed /\ fields[r][k] = snap[k] THEN 0 ELSE fields[r][k]
      /\ \A q, k, n :
           /\ IsOpen(q, k, n)' <=> IsOpen(q, k, n) /\ ~(q = r /\ k = "tunnel" /\ n = snap["tunnel"])
           /\ IsRefused(q, k, n)' <=> IsRefused(q, k, n) /\ IsOpen(q, k, n)'
      /\ \A k \in Kinds : \A n : (IsOpen(r, k, n)' /\ n = snap[k]) => IsRefused(r, k, n)'
      /\ Owned(r)'
  BY <1>1, ActorsAre, TunnelReleases
<1>4. /\ ReleasesOK' /\ release'[r]["startup"] = release[r]["startup"]
      /\ release'[r]["close"].at = "none"
      /\ \A q \in Runtimes \ {r} : release'[q] = release[q]
  <2>1. release'[r]["close"] = NoRelease
    BY <1>1, <1>2, ActorsAre DEF ReleasesOK
  <2> QED BY <1>1, <1>2, <2>1, NoReleaseTyped, ActorsAre DEF ReleasesOK
<1>5. /\ closing' \in [Runtimes -> {"none", "await", "release", "cache"}] /\ closing'[r] = "cache"
      /\ \A q \in Runtimes \ {r} : closing'[q] = closing[q]
  BY <1>1, <1>2 DEF LifecycleTypeOK
<1>6. LifecycleTypeOK'
  BY <1>1, <1>2, <1>3, <1>4, <1>5 DEF LifecycleTypeOK, ReleasesOK, Releases, serverVars
<1>7. \A q \in Runtimes \ {r} : Same(q)
  BY <1>1, <1>3, <1>4, <1>5 DEF Same, Frozen
<1>8. /\ \A k \in Kinds : /\ snap[k] \in Nat /\ fields[r][k] \in Nat /\ fields'[r][k] \in Nat
                          /\ ~IsOpen(r, k, 0) /\ fields'[r][k] <= fields[r][k]
      /\ Last(r) \in Nat /\ Last(r)' = Last(r)
  <2>1. \A k \in Kinds : snap[k] \in Nat /\ fields[r][k] \in Nat /\ ~IsOpen(r, k, 0)
    BY <1>2, RelTyped, ActorsAre, NoZero DEF Releases, LifecycleTypeOK
  <2> QED BY <1>1, <1>2, <1>3, <2>1 DEF Local, Numbered, Last
<1> HIDE DEF snap
<1>9. \A k \in Kinds : /\ startup[r].at # "none" => snap[k] < startup[r].n
                       /\ connected[r] => snap[k] < fields[r][k]
  BY <1>1, <1>2 DEF Local, CloseIsOlder, snap
<1>10. startup[r].at # "none" => startup[r].n \in Numbers
  BY StartupTyped
<1>11. Local(r)'
  <2>1. PastFailed(r)'
    <3>1. Past(release'[r]["close"].at) = {}
      BY <1>4, PastAre
    <3>2. \A n : \A k \in Past(release[r]["startup"].at) :
            (IsOpen(r, k, n)' /\ n = release[r]["startup"].snap[k]) =>
               k \in release[r]["startup"].failed /\ IsRefused(r, k, n)'
      BY <1>1, PastStays, ActorsAre
    <3> QED BY <1>4, <3>1, <3>2, ActorsAre DEF PastFailed
  <2>2. ReleasesRun(r)' /\ Generations(r)' /\ CloseIsOlder(r)' /\ CloseCovers(r)'
    BY <1>1, <1>2, <1>4, <1>5 DEF Local, ReleasesRun, Generations, CloseIsOlder, CloseCovers
  <2>3. Numbered(r)'
    <3>1. \A k \in Kinds : fields'[r][k] <= Last(r)
      BY <1>2, <1>3, <1>8 DEF Local, Numbered
    <3>2. \A k \in Kinds : release'[r]["close"].snap[k] <= Last(r)
      <4>1. release'[r]["close"] = NoRelease
        BY <1>1, <1>2, ActorsAre DEF ReleasesOK
      <4>2. \A k \in Kinds : release'[r]["close"].snap[k] = 0
        BY <4>1 DEF NoRelease
      <4> QED BY <1>8, <4>2
    <3> QED BY <1>1, <1>2, <1>8, <3>1, <3>2 DEF Local, Numbered
  <2>4. OpensInOrder(r)'
    <3> SUFFICES ASSUME startup[r].at \in OpeningStages PROVE OpensInOrder(r)'
      BY <1>1 DEF OpensInOrder
    <3>1. startup[r].at # "none" /\ Have(startup[r].at) \subseteq Kinds
      BY HaveAre DEF OpeningStages
    <3>2. \A k \in Have(startup[r].at) : fields[r][k] = startup[r].n /\ IsOpen(r, k, startup[r].n)
      BY <1>2 DEF Local, OpensInOrder
    <3>3. \A k \in Have(startup[r].at) : snap[k] # startup[r].n
      BY <1>8, <1>9, <1>10, <3>1 DEF Numbers
    <3>4. \A k \in Have(startup[r].at) :
               \A m : m = startup[r].n => fields'[r][k] = m /\ IsOpen(r, k, m)'
      BY <1>3, <3>1, <3>2, <3>3
    <3>5. \A k \in Kinds, n \in Numbers : IsOpen(r, k, n)' => k \in Have(startup[r].at)
      BY <1>2, <1>3 DEF Local, OpensInOrder
    <3> QED BY <1>1, <3>4, <3>5 DEF OpensInOrder
  <2>5. UnwindCovers(r)'
    BY <1>1, <1>2, <1>3, <1>4 DEF Local, UnwindCovers
  <2>6. Whole(r)'
    <3> SUFFICES ASSUME connected[r], NEW k \in Kinds, NEW m, m = fields'[r][k]
        PROVE IsOpen(r, k, m)'
      BY <1>1 DEF Whole
    <3>1. IsOpen(r, k, fields[r][k]) /\ fields[r][k] # snap[k]
      BY <1>2, <1>8, <1>9 DEF Local, Whole
    <3>2. m = fields[r][k]
      BY <1>3, <3>1
    <3> QED BY <1>3, <3>1, <3>2
  <2>7. Clean(r)'
    <3>1. startup[r].at = "none" /\ ~connected[r] => \A k \in Kinds, n \in Numbers :
            IsOpen(r, k, n) => IsRefused(r, k, n) \/ n = snap[k]
      BY <1>1, <1>2 DEF Local, CloseCovers, snap
    <3> QED BY <1>1, <1>3, <3>1 DEF Clean
  <2> QED BY <1>3, <2>1, <2>2, <2>3, <2>4, <2>5, <2>6, <2>7 DEF Local
<1>12. ServerInv'
  <2>1. \A q \in Runtimes, a \in Actors :
             release[q][a].at = "stop" => release'[q][a] = release[q][a]
    BY <1>1, <1>4, ActorsAre
  <2> QED BY <1>1, <1>3, <2>1, ServerKept
<1> QED BY <1>6, <1>7, <1>11, <1>12, LocalNext DEF LifeInv

\* An unwinding startup has released all it opened.
LEMMA StartupReleasedKeeps ==
  ASSUME LifeInv, NEW r \in Runtimes, StartupReleased(r) PROVE LifeInv'
<1>1. /\ startup[r].at = "release" /\ TunnelReleased(r, "startup")
      /\ release[r]["startup"].at = "tunnel"
      /\ \/ /\ startup' = [startup EXCEPT ![r].at = "unwind"]
            /\ release' = [release EXCEPT ![r]["startup"] =
                            [Snapshot(r) EXCEPT !.snap = fields'[r]]]
         \/ /\ release[r]["startup"].failed = {}
            /\ startup' = [startup EXCEPT ![r].at = "tunnel"]
            /\ release' = [release EXCEPT ![r]["startup"] = NoRelease]
      /\ UNCHANGED ownVars /\ UNCHANGED serverVars
  BY DEF StartupReleased, TunnelReleased
<1>2. LifecycleTypeOK /\ Local(r) /\ ReleasesOK /\ StartupsOK /\ startup[r] \in Startups
  BY DEF LifeInv, LifecycleTypeOK, ReleasesOK, Releases, StartupsOK, Startups
<1> DEFINE snap == release[r]["startup"].snap
<1>3. /\ fields' \in [Runtimes -> [Kinds -> Nat]] /\ opened' \subseteq Resources
      /\ refused' \subseteq Resources /\ opened' \subseteq opened
      /\ \A q \in Runtimes \ {r} : fields'[q] = fields[q]
      /\ \A k \in Kinds : fields'[r][k] =
           IF k \notin release[r]["startup"].failed /\ fields[r][k] = snap[k]
           THEN 0 ELSE fields[r][k]
      /\ \A q, k, n :
           /\ IsOpen(q, k, n)' <=> IsOpen(q, k, n) /\ ~(q = r /\ k = "tunnel" /\ n = snap["tunnel"])
           /\ IsRefused(q, k, n)' <=> IsRefused(q, k, n) /\ IsOpen(q, k, n)'
      /\ \A k \in Kinds : \A n : (IsOpen(r, k, n)' /\ n = snap[k]) =>
           k \in release[r]["startup"].failed
      /\ Owned(r)'
  BY <1>1, ActorsAre, TunnelReleases
<1>4. \E to \in {"unwind", "tunnel"} :
        /\ startup'[r].at = to /\ startup'[r].gen = startup[r].gen /\ startup'[r].n = startup[r].n
        /\ StartupsOK' /\ \A q \in Runtimes \ {r} : startup'[q] = startup[q]
  <2>1. ASSUME NEW to \in {"unwind", "tunnel"}, startup' = [startup EXCEPT ![r].at = to]
        PROVE  /\ startup'[r].at = to /\ startup'[r].gen = startup[r].gen
               /\ startup'[r].n = startup[r].n
               /\ StartupsOK' /\ \A q \in Runtimes \ {r} : startup'[q] = startup[q]
    <3>1. startup'[r] = [at |-> to, gen |-> startup[r].gen, n |-> startup[r].n]
          /\ StartupsOK' /\ \A q \in Runtimes \ {r} : startup'[q] = startup[q]
      BY <1>2, <2>1 DEF StartupsOK, Startups
    <3> QED BY <3>1
  <2> QED BY <1>1, <2>1
<1>5. \E rel \in Releases :
        /\ release' = [release EXCEPT ![r]["startup"] = rel]
        /\ \/ startup'[r].at = "unwind" /\ rel.at = "services" /\ rel.snap = fields'[r]
           \/ startup'[r].at = "tunnel" /\ rel.at = "none" /\ release[r]["startup"].failed = {}
  <2>1. CASE /\ startup' = [startup EXCEPT ![r].at = "unwind"]
             /\ release' = [release EXCEPT ![r]["startup"] =
                             [Snapshot(r) EXCEPT !.snap = fields'[r]]]
    <3> DEFINE rel == [at |-> "services", snap |-> fields'[r], failed |-> {}]
    <3>1. rel \in Releases /\ rel.at = "services" /\ rel.snap = fields'[r]
      BY <1>3, ReleaseRecord
    <3>2. release' = [release EXCEPT ![r]["startup"] = rel]
      BY <2>1, SnapshotOf
    <3>3. startup'[r].at = "unwind"
      BY <1>2, <2>1 DEF StartupsOK, Startups
    <3> QED BY <3>1, <3>2, <3>3
  <2>2. CASE /\ release[r]["startup"].failed = {}
             /\ startup' = [startup EXCEPT ![r].at = "tunnel"]
             /\ release' = [release EXCEPT ![r]["startup"] = NoRelease]
    <3>1. startup'[r].at = "tunnel"
      BY <1>2, <2>2 DEF StartupsOK, Startups
    <3> QED BY <2>2, <3>1, NoReleaseTyped
  <2> QED BY <1>1, <2>1, <2>2
<1>6. PICK rel \in Releases :
        /\ release' = [release EXCEPT ![r]["startup"] = rel]
        /\ \/ startup'[r].at = "unwind" /\ rel.at = "services" /\ rel.snap = fields'[r]
           \/ startup'[r].at = "tunnel" /\ rel.at = "none" /\ release[r]["startup"].failed = {}
  BY <1>5
<1>7. /\ ReleasesOK' /\ release'[r]["close"] = release[r]["close"]
      /\ release'[r]["startup"] = rel
      /\ \A q \in Runtimes \ {r} : release'[q] = release[q]
  BY <1>2, <1>6, ActorsAre DEF ReleasesOK
<1>8. LifecycleTypeOK'
  BY <1>1, <1>2, <1>3, <1>4, <1>7
     DEF LifecycleTypeOK, ReleasesOK, Releases, StartupsOK, Startups, serverVars, ownVars
<1>9. \A q \in Runtimes \ {r} : Same(q)
  BY <1>1, <1>3, <1>4, <1>7 DEF Same, Frozen, ownVars
<1>10. Local(r)'
  <2>1. \A k \in Kinds : /\ fields[r][k] \in Nat /\ fields'[r][k] \in Nat
                         /\ fields'[r][k] <= fields[r][k]
    BY <1>2, <1>3 DEF LifecycleTypeOK
  <2>2. Last(r) \in Nat /\ Last(r)' = Last(r) /\ ~connected[r]
    BY <1>1, <1>2 DEF Local, Numbered, Generations, Last, ownVars
  <2>3. PastFailed(r)'
    <3>1. Past(release'[r]["startup"].at) = {}
      BY <1>6, <1>7, PastAre
    <3>2. \A n : \A k \in Past(release[r]["close"].at) :
            (IsOpen(r, k, n)' /\ n = release[r]["close"].snap[k]) =>
               k \in release[r]["close"].failed /\ IsRefused(r, k, n)'
      BY <1>1, PastStays, ActorsAre
    <3> QED BY <1>7, <3>1, <3>2, ActorsAre DEF PastFailed
  <2>4. ReleasesRun(r)'
    BY <1>1, <1>2, <1>6, <1>7 DEF Local, ReleasesRun, ownVars
  <2>5. Numbered(r)'
    <3>1. \A k \in Kinds : fields'[r][k] <= Last(r)
      BY <1>2, <2>1, <2>2 DEF Local, Numbered
    <3> QED BY <1>1, <1>2, <1>4, <1>7, <2>2, <3>1 DEF Local, Numbered
  <2>6. CloseIsOlder(r)' /\ Generations(r)'
    BY <1>1, <1>2, <1>4, <1>7, <2>2 DEF Local, CloseIsOlder, Generations, ownVars
  <2>7. UnwindCovers(r)'
    BY <1>3, <1>6, <1>7 DEF UnwindCovers, Owned
  <2>8. OpensInOrder(r)'
    <3> SUFFICES ASSUME startup'[r].at \in OpeningStages PROVE OpensInOrder(r)'
      BY DEF OpensInOrder
    <3>1. startup'[r].at = "tunnel" /\ release[r]["startup"].failed = {}
      BY <1>6 DEF OpeningStages
    <3>2. \A k \in Kinds, n \in Numbers : ~IsOpen(r, k, n)'
      BY <1>1, <1>2, <1>3, <3>1 DEF Local, UnwindCovers
    <3> QED BY <3>1, <3>2, StagesAre DEF OpensInOrder
  <2>9. CloseCovers(r)' /\ Whole(r)' /\ Clean(r)'
    BY <1>1, <1>4, <2>2 DEF CloseCovers, Whole, Clean, ownVars
  <2> QED BY <1>3, <2>3, <2>4, <2>5, <2>6, <2>7, <2>8, <2>9 DEF Local
<1>11. ServerInv'
  <2>1. \A q \in Runtimes, a \in Actors :
             release[q][a].at = "stop" => release'[q][a] = release[q][a]
    BY <1>1, <1>7, ActorsAre
  <2>2. \A q \in Runtimes : startup'[q].at = "server" <=> startup[q].at = "server"
    BY <1>1, <1>4
  <2> QED BY <1>1, <1>3, <2>1, <2>2, ServerKept
<1> QED BY <1>8, <1>9, <1>10, <1>11, LocalNext DEF LifeInv

\* An unwound startup rejects its connect().
LEMMA StartupUnwoundKeeps ==
  ASSUME LifeInv, NEW r \in Runtimes, StartupUnwound(r) PROVE LifeInv'
<1> DEFINE snap == release[r]["startup"].snap
           rec == [at |-> "services", snap |-> fields'[r], failed |-> {}]
           rel == IF closing[r] = "await" THEN rec ELSE release[r]["close"]
<1>1. /\ startup[r].at = "unwind" /\ TunnelReleased(r, "startup")
      /\ release[r]["startup"].at = "tunnel"
      /\ startup' = [startup EXCEPT ![r] = NoStartup]
      /\ connected' = [connected EXCEPT ![r] = FALSE]
      /\ closing' = [closing EXCEPT ![r] = IF @ = "await" THEN "release" ELSE @]
      /\ UNCHANGED <<gen, waiting, calls>> /\ UNCHANGED serverVars
  BY DEF StartupUnwound, TunnelReleased
<1>2. LifecycleTypeOK /\ Local(r) /\ ReleasesOK /\ StartupsOK /\ release[r] \in [Actors -> Releases]
  BY DEF LifeInv, LifecycleTypeOK, ReleasesOK, Releases, StartupsOK, Startups
<1>3. /\ fields' \in [Runtimes -> [Kinds -> Nat]] /\ opened' \subseteq Resources
      /\ refused' \subseteq Resources /\ opened' \subseteq opened
      /\ \A q \in Runtimes \ {r} : fields'[q] = fields[q]
      /\ \A k \in Kinds : fields'[r][k] =
           IF k \notin release[r]["startup"].failed /\ fields[r][k] = snap[k]
           THEN 0 ELSE fields[r][k]
      /\ \A q, k, n :
           /\ IsOpen(q, k, n)' <=> IsOpen(q, k, n) /\ ~(q = r /\ k = "tunnel" /\ n = snap["tunnel"])
           /\ IsRefused(q, k, n)' <=> IsRefused(q, k, n) /\ IsOpen(q, k, n)'
      /\ \A k \in Kinds : \A n : (IsOpen(r, k, n)' /\ n = snap[k]) => IsRefused(r, k, n)'
      /\ Owned(r)'
  BY <1>1, ActorsAre, TunnelReleases
<1>4. /\ startup'[r].at = "none" /\ startup'[r].gen = 0 /\ StartupsOK'
      /\ \A q \in Runtimes \ {r} : startup'[q] = startup[q]
  <2>1. NoStartup \in Startups /\ NoStartup.at = "none" /\ NoStartup.gen = 0
    BY DEF NoStartup, Startups
  <2>2. startup'[r] = NoStartup
    BY <1>1, <1>2 DEF StartupsOK
  <2> QED BY <1>1, <1>2, <2>1, <2>2 DEF StartupsOK
<1>5. rec \in Releases
  BY <1>3, ReleaseRecord
<1>6. /\ ReleasesOK' /\ release'[r]["startup"].at = "none"
      /\ release'[r]["close"] = rel
      /\ \A q \in Runtimes \ {r} : release'[q] = release[q]
  <2>1. release' = [release EXCEPT ![r]["startup"] = NoRelease,
                      ![r]["close"] = IF closing[r] = "await"
                                      THEN [Snapshot(r) EXCEPT !.snap = fields'[r]] ELSE @]
    BY DEF StartupUnwound
  <2>2. release'[r] = [release[r] EXCEPT !["startup"] = NoRelease, !["close"] = rel]
        /\ \A q \in Runtimes \ {r} : release'[q] = release[q]
    BY <1>2, <2>1, SnapshotOf, ActorsAre DEF ReleasesOK
  <2>3. rel \in Releases
    BY <1>2, <1>5, ActorsAre
  <2> HIDE DEF rel
  <2>4. /\ release'[r]["startup"] = NoRelease /\ release'[r]["close"] = rel
        /\ release'[r] \in [Actors -> Releases]
    BY <1>2, <2>2, <2>3, NoReleaseTyped DEF Actors
  <2>5. ReleasesOK'
    BY <1>2, <2>1, <2>2, <2>4 DEF ReleasesOK
  <2> QED BY <2>2, <2>4, <2>5, NoReleaseTyped
<1>7. /\ closing' \in [Runtimes -> {"none", "await", "release", "cache"}]
      /\ closing'[r] = IF closing[r] = "await" THEN "release" ELSE closing[r]
      /\ \A q \in Runtimes \ {r} : closing'[q] = closing[q]
  BY <1>1, <1>2 DEF LifecycleTypeOK
<1>8. /\ connected' \in [Runtimes -> BOOLEAN] /\ ~connected'[r]
      /\ \A q \in Runtimes \ {r} : connected'[q] = connected[q]
  BY <1>1, <1>2 DEF LifecycleTypeOK
<1>9. LifecycleTypeOK'
  BY <1>1, <1>2, <1>3, <1>4, <1>6, <1>7, <1>8
     DEF LifecycleTypeOK, ReleasesOK, Releases, StartupsOK, Startups, serverVars
<1>10. \A q \in Runtimes \ {r} : Same(q)
  BY <1>1, <1>3, <1>4, <1>6, <1>7, <1>8 DEF Same, Frozen
<1>11. Local(r)'
  <2>1. \A k \in Kinds : /\ fields[r][k] \in Nat /\ fields'[r][k] \in Nat
                         /\ fields'[r][k] <= fields[r][k]
    BY <1>2, <1>3 DEF LifecycleTypeOK
  <2>2. Last(r) \in Nat /\ Last(r)' = Last(r) /\ gen'[r] = gen[r] /\ gen[r] \in Nat
    BY <1>1, <1>2 DEF Local, Numbered, Last, LifecycleTypeOK
  <2>3. closing[r] = "await" => rel.at = "services" /\ rel.snap = fields'[r]
    OBVIOUS
  <2>4. closing[r] # "await" => rel = release[r]["close"]
    OBVIOUS
  <2> HIDE DEF rel, rec
  <2>5. PastFailed(r)'
    <3>1. Past(release'[r]["startup"].at) = {}
      BY <1>6, PastAre
    <3>2. \A n : \A k \in Past(release[r]["close"].at) :
            (IsOpen(r, k, n)' /\ n = release[r]["close"].snap[k]) =>
               k \in release[r]["close"].failed /\ IsRefused(r, k, n)'
      BY <1>1, PastStays, ActorsAre
    <3>3. CASE closing[r] = "await"
      <4>1. Past(release'[r]["close"].at) = {}
        BY <1>6, <2>3, <3>3, PastAre
      <4> QED BY <3>1, <4>1, ActorsAre DEF PastFailed
    <3>4. CASE closing[r] # "await"
      BY <1>6, <2>4, <3>1, <3>2, <3>4, ActorsAre DEF PastFailed
    <3> QED BY <3>3, <3>4
  <2>6. ReleasesRun(r)'
    BY <1>2, <1>4, <1>6, <1>7, <2>3, <2>4 DEF Local, ReleasesRun
  <2>7. Numbered(r)'
    <3>1. \A k \in Kinds : fields'[r][k] <= Last(r)
      BY <1>2, <2>1, <2>2 DEF Local, Numbered
    <3>2. \A k \in Kinds : release'[r]["close"].snap[k] <= Last(r)
      BY <1>2, <1>6, <2>3, <2>4, <3>1 DEF Local, Numbered
    <3> QED BY <1>4, <2>2, <3>1, <3>2 DEF Numbered
  <2>8. CloseIsOlder(r)' /\ Generations(r)' /\ OpensInOrder(r)' /\ UnwindCovers(r)' /\ Whole(r)'
    BY <1>4, <1>7, <1>8, <2>2
       DEF CloseIsOlder, Generations, OpensInOrder, OpeningStages, UnwindCovers, Whole
  <2>9. \A k \in Kinds, n \in Numbers : IsOpen(r, k, n)' => IsRefused(r, k, n)'
    BY <1>1, <1>2, <1>3 DEF Local, UnwindCovers
  <2>10. CloseCovers(r)' /\ Clean(r)'
    BY <2>9 DEF CloseCovers, Clean
  <2> QED BY <1>3, <2>5, <2>6, <2>7, <2>8, <2>10 DEF Local
<1>12. ServerInv'
  <2>1. release[r]["close"].at = "stop" => closing[r] = "release"
    BY <1>2 DEF Local, ReleasesRun
  <2>2. \A q \in Runtimes, a \in Actors :
             release[q][a].at = "stop" => release'[q][a] = release[q][a]
    BY <1>1, <1>6, <2>1, ActorsAre
  <2>3. \A q \in Runtimes : startup'[q].at = "server" <=> startup[q].at = "server"
    BY <1>1, <1>4
  <2> QED BY <1>1, <1>3, <2>2, <2>3, ServerKept
<1> QED BY <1>9, <1>10, <1>11, <1>12, LocalNext DEF LifeInv

-----------------------------------------------------------------------------

\* Nothing is open at first.
LEMMA LifeInit == LifecycleInit => LifeInv
<1> SUFFICES ASSUME LifecycleInit PROVE LifeInv
  OBVIOUS
<1>1. NoStartup \in Startups /\ NoStartup.at = "none" /\ NoStartup.gen = 0
  BY DEF NoStartup, Startups
<1>2. \A r \in Runtimes, a \in Actors : release[r][a] = NoRelease
  BY DEF LifecycleInit
<1>3. \A r \in Runtimes, a \in Actors : release[r][a].at = "none"
  BY <1>2, NoReleaseTyped
<1>4. \A r \in Runtimes, a \in Actors, k \in Kinds : release[r][a].snap[k] = 0
  BY <1>2 DEF NoRelease
<1>5. \A r \in Runtimes : /\ ~connected[r] /\ gen[r] = 0 /\ startup[r].at = "none"
                          /\ startup[r].gen = 0 /\ closing[r] = "none" /\ waiting[r] = "no"
                          /\ \A k \in Kinds : fields[r][k] = 0
  BY <1>1 DEF LifecycleInit
<1>6. \A r \in Runtimes : calls[r].connect = 0
  BY DEF LifecycleInit
<1>7. \A r, k, n : ~IsOpen(r, k, n)
  BY DEF LifecycleInit, IsOpen
<1>8. LifecycleTypeOK
  <2>1. StartupsOK /\ ReleasesOK
    BY <1>1, NoReleaseTyped DEF LifecycleInit, StartupsOK, ReleasesOK
  <2>2. calls \in [Runtimes -> [connect : Nat, close : Nat]]
    BY DEF LifecycleInit
  <2> QED BY <2>1, <2>2
             DEF LifecycleInit, LifecycleTypeOK, StartupsOK, ReleasesOK, Startups, Releases
<1>9. \A r \in Runtimes : Local(r)
  <2> SUFFICES ASSUME NEW r \in Runtimes PROVE Local(r)
    OBVIOUS
  <2>1. PastFailed(r) /\ Owned(r) /\ Whole(r) /\ Clean(r)
    BY <1>3, <1>5, <1>7, PastAre DEF PastFailed, Owned, Whole, Clean
  <2>2. ReleasesRun(r) /\ OpensInOrder(r) /\ UnwindCovers(r) /\ CloseCovers(r) /\ CloseIsOlder(r)
    BY <1>3, <1>5, ActorsAre
       DEF ReleasesRun, OpensInOrder, OpeningStages, UnwindCovers, CloseCovers, CloseIsOlder
  <2>3. Numbered(r)
    BY <1>4, <1>5, <1>6, ActorsAre DEF Numbered, Last
  <2>4. Generations(r)
    BY <1>5 DEF Generations
  <2> QED BY <2>1, <2>2, <2>3, <2>4 DEF Local
<1>10. ServerInv
  BY <1>5, <1>7 DEF LifecycleInit, ServerInv
<1> QED BY <1>8, <1>9, <1>10 DEF LifeInv

\* Every step of every runtime keeps the invariant.
LEMMA LifeNext == LifeInv /\ [LifecycleNext]_lifecycleVars => LifeInv'
<1> SUFFICES ASSUME LifeInv, [LifecycleNext]_lifecycleVars PROVE LifeInv'
  OBVIOUS
<1>1. CASE UNCHANGED lifecycleVars
  <2>1. LifecycleTypeOK'
    BY <1>1 DEF LifeInv, LifecycleTypeOK, lifecycleVars
  <2>2. \A r \in Runtimes : Same(r)
    BY <1>1 DEF Same, Frozen, lifecycleVars, IsOpen, IsRefused
  <2>3. ServerInv'
    BY <1>1 DEF LifeInv, ServerInv, lifecycleVars, IsOpen
  <2> QED BY <2>1, <2>2, <2>3, SameKeeps DEF LifeInv
<1>2. ASSUME NEW r \in Runtimes, ConnectCall(r) \/ ConnectResumes(r) \/ RuntimeCloseCall(r)
      PROVE  LifeInv'
  BY <1>2, ConnectCallKeeps, ConnectResumesKeeps, RuntimeCloseCallKeeps
<1>3. ASSUME NEW r \in Runtimes, Startup(r) PROVE LifeInv'
  BY <1>3, TunnelOpensKeeps, ReserveKeeps, ClientCreatedKeeps, ClientRefusedKeeps,
     ClientConnectsKeeps, PoolsReadyKeeps, SyncReadyKeeps, ModelsLoadedKeeps, StartupRejectsKeeps DEF Startup
<1>4. ASSUME NEW r \in Runtimes, ReleaseStep(r) PROVE LifeInv'
  BY <1>4, ReleaseServicesKeeps, ReleaseNoClientKeeps, ReleaseClientKeeps, ReleaseClientFailsKeeps,
     StartupReleasedKeeps, StartupUnwoundKeeps, CloseReleasedKeeps, CloseEndsKeeps DEF ReleaseStep
<1>5. ASSUME Server PROVE LifeInv'
  BY <1>5, ServerStoppedKeeps, ServerStopFailsKeeps, ServerStartsKeeps,
     ServerStartFailsKeeps
     DEF Server
<1> QED BY <1>1, <1>2, <1>3, <1>4, <1>5 DEF LifecycleNext

\* The invariant says that every open resource has one runtime that answers for it.
LEMMA LifeImplies == LifeInv => RuntimeOwned
<1> SUFFICES ASSUME LifeInv PROVE RuntimeOwned
  OBVIOUS
<1>1. LifecycleTypeOK /\ (\A r \in Runtimes : Local(r)) /\ ServerInv
  BY DEF LifeInv
<1>2. ASSUME NEW x \in opened
      PROVE  /\ x[1] \in Runtimes /\ x[2] \in Kinds /\ x[3] \in Numbers
             /\ x = <<x[1], x[2], x[3]>> /\ IsOpen(x[1], x[2], x[3])
  <2>1. x \in Runtimes \X Kinds \X (Nat \ {0})
    BY <1>1 DEF LifecycleTypeOK, Resources
  <2>2. PICK r \in Runtimes, k \in Kinds, n \in Nat \ {0} : x = <<r, k, n>>
    BY <2>1
  <2> QED BY <2>2 DEF IsOpen, Numbers
<1>3. EverythingOwned
  BY <1>1, <1>2 DEF EverythingOwned, Local, Owned
<1>4. NothingLeaks
  <2> SUFFICES ASSUME NEW r \in Runtimes, startup[r].at = "none", closing[r] \in {"none", "cache"},
                      ~connected[r], NEW x \in opened, x[1] = r
               PROVE  x \in refused
    BY DEF NothingLeaks, StartupAt
  <2> QED BY <1>1, <1>2 DEF Local, Clean, IsRefused
<1>5. ConnectedIsWhole
  BY <1>1 DEF ConnectedIsWhole, Local, Whole, IsOpen
<1>6. ServerFollowsClients
  <2>1. ASSUME NEW x \in opened, x[2] = "client" PROVE server = "up"
    <3>1. <<x[1], x[3]>> \in clients
      BY <1>1, <1>2, <2>1 DEF ServerInv
    <3> QED BY <1>1, <3>1 DEF ServerInv, LifecycleTypeOK
  <2>2. (\A r \in Runtimes : AtRest(r)) /\ server = "up" => clients # {}
    <3>1. (\A r \in Runtimes : AtRest(r)) => pending = {}
      BY <1>1 DEF AtRest, StartupAt, ServerInv
    <3> QED BY <1>1, <3>1 DEF ServerInv
  <2> QED BY <2>1, <2>2 DEF ServerFollowsClients
<1> QED BY <1>1, <1>3, <1>4, <1>5, <1>6 DEF RuntimeOwned

(* What is open is named by its field and will be released, what a connected *)
(* runtime has is taken away by nobody else's release, and the memory server *)
(* follows the clients that are open: connect() and close() of any runtimes, *)
(* called any number of times.                                               *)
THEOREM RuntimeStaysOwned == LifecycleSpec => []RuntimeOwned
<1>1. LifecycleSpec => []LifeInv
  BY LifeInit, LifeNext, PTL DEF LifecycleSpec
<1> QED BY <1>1, LifeImplies, PTL
=============================================================================
