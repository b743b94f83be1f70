------------------------------ MODULE PoolHealth ------------------------------
(***************************************************************************)
(* The health of one named pool while the pool is removed and added again  *)
(* with another client, and its checks are stopped and started.            *)
(*                                                                         *)
(* The code numbers the checks of a name with an epoch and compares it     *)
(* after the await; here a check is marked superseded by what increments   *)
(* the epoch.  The manager's status follows the checker's under the same   *)
(* conditions and is not kept apart.                                       *)
(***************************************************************************)
EXTENDS Naturals

CONSTANTS Clients,  \* the clients the pool has, one after the other
          PingRetries,  \* healthCheck.retries
          NoClient

ASSUME HealthAssumption == PingRetries \in Nat \ {0} /\ NoClient \notin Clients

VARIABLES
  client,     \* the client registered under the name
  used,       \* the clients the pool has had
  removing,   \* a removePool() waits for the driver
  timer,      \* intervals has the name
  status,     \* _healthStatus of the name: the failures counted, and "down"
  check,      \* the _checkPool() that waits for the ping of a client
  pinging,    \* the pings that have no answer
  inProgress, \* _inProgress: the client whose ping is kept for the name
  failed      \* history: the failed checks of each client since its last success

healthVars == <<client, used, removing, timer, status, check, pinging, inProgress, failed>>

Healthy == [failures |-> 0, down |-> FALSE]

HealthTypeOK ==
  /\ client \in Clients \cup {NoClient} /\ used \subseteq Clients
  /\ removing \in BOOLEAN /\ timer \in BOOLEAN
  /\ status \in [failures : 0..PingRetries, down : BOOLEAN]
  /\ check \in [Clients -> {"none", "current", "superseded"}]
  /\ pinging \subseteq Clients /\ inProgress \in Clients \cup {NoClient}
  /\ failed \in [Clients -> 0..PingRetries]

HealthInit == /\ client = NoClient /\ used = {} /\ removing = FALSE /\ timer = FALSE
              /\ status = Healthy /\ check = [c \in Clients |-> "none"]
              /\ pinging = {} /\ inProgress = NoClient /\ failed = [c \in Clients |-> 0]

\* The counters matter up to Retries only.
Inc(n) == IF n < PingRetries THEN n + 1 ELSE n

\* Every increment of the epoch: what is waiting will not count.
AllSuperseded == [c \in Clients |-> IF check[c] = "none" THEN "none" ELSE "superseded"]

-----------------------------------------------------------------------------

Register(c) ==
  /\ client = NoClient /\ c \notin used
  /\ client' = c /\ used' = used \cup {c}
  /\ status' = Healthy /\ check' = AllSuperseded
  /\ UNCHANGED <<removing, timer, pinging, inProgress, failed>>

\* stopHealthCheck(), by itself or at the start of removePool() and close().
Stop(remove) ==
  /\ client # NoClient \/ timer
  /\ remove => client # NoClient /\ ~removing
  /\ removing' = (removing \/ remove) /\ timer' = FALSE /\ check' = AllSuperseded
  /\ UNCHANGED <<client, used, status, pinging, inProgress, failed>>

\* The client is closed: the pool is gone, or stays when that failed.
RemoveEnds(ok) ==
  /\ removing /\ removing' = FALSE
  /\ IF ok THEN client' = NoClient /\ status' = Healthy /\ check' = AllSuperseded
     ELSE UNCHANGED <<client, status, check>>
  /\ UNCHANGED <<used, timer, pinging, inProgress, failed>>

\* Mutated form: a ping whose wait timed out is not waited for again.
CheckedOnce(states) ==
  IF inProgress = client THEN check' = states /\ UNCHANGED <<pinging, inProgress>>
  ELSE /\ check' = [states EXCEPT ![client] = "current"]
       /\ pinging' = pinging \cup {client} /\ inProgress' = client

\* One ping at a time: a check that waits owns it; once its wait has timed
\* out the next check waits for the same ping.
Checked(states) ==
  IF inProgress = client /\ check[client] # "none"
  THEN check' = states /\ UNCHANGED <<pinging, inProgress>>
  ELSE /\ check' = [states EXCEPT ![client] = "current"]
       /\ pinging' = IF inProgress = client THEN pinging ELSE pinging \cup {client}
       /\ inProgress' = client

StartHealthCheck ==
  /\ client # NoClient /\ timer' = TRUE /\ Checked(AllSuperseded)
  /\ UNCHANGED <<client, used, removing, status, failed>>

IntervalFires ==
  /\ timer /\ client # NoClient /\ Checked(check)
  /\ UNCHANGED <<client, used, removing, timer, status, failed>>

\* Mutated form: what was superseded during the await is not noticed.
CheckEndsUnguarded(c, ok) ==
  /\ check' = [check EXCEPT ![c] = "none"]
  /\ failed' = [failed EXCEPT ![c] = IF ok THEN 0 ELSE Inc(@)]
  /\ status' = IF ok THEN Healthy
               ELSE [failures |-> Inc(status.failures),
                     down |-> status.down \/ Inc(status.failures) >= PingRetries]

CheckEnds(c, ok) ==
  /\ check' = [check EXCEPT ![c] = "none"]
  /\ IF check[c] = "superseded" THEN UNCHANGED <<status, failed>>
     ELSE /\ failed' = [failed EXCEPT ![c] = IF ok THEN 0 ELSE Inc(@)]
          /\ status' = IF ok THEN Healthy
                       ELSE [failures |-> Inc(status.failures),
                             down |-> status.down \/ Inc(status.failures) >= PingRetries]

\* The ping of c answers; a check that still waits takes the answer.
PingAnswers(c, ok) ==
  /\ c \in pinging /\ pinging' = pinging \ {c}
  /\ inProgress' = IF inProgress = c THEN NoClient ELSE inProgress
  /\ IF check[c] = "none" THEN UNCHANGED <<check, status, failed>> ELSE CheckEnds(c, ok)
  /\ UNCHANGED <<client, used, removing, timer>>

PingTimesOut(c) ==
  /\ c \in pinging /\ check[c] # "none" /\ CheckEnds(c, FALSE)
  /\ UNCHANGED <<client, used, removing, timer, pinging, inProgress>>

HealthNext == \/ \E c \in Clients : Register(c) \/ PingTimesOut(c)
              \/ \E c \in Clients, ok \in BOOLEAN : PingAnswers(c, ok)
              \/ \E remove \in BOOLEAN : Stop(remove)
              \/ \E ok \in BOOLEAN : RemoveEnds(ok)
              \/ StartHealthCheck \/ IntervalFires

\* The interval and the timeouts fire, and a client that is closed answers.
HealthFairness == /\ WF_healthVars(IntervalFires)
                  /\ \A c \in Clients : WF_healthVars(PingTimesOut(c))

HealthSpec == HealthInit /\ [][HealthNext]_healthVars
HealthFairSpec == HealthSpec /\ HealthFairness

-----------------------------------------------------------------------------
(* Properties.                                                             *)

(* A pool is taken for down only after Retries failed checks in a row of    *)
(* its own client: no late answer or timeout of the client it had before,   *)
(* or of checks that were stopped, counts.                                  *)
DownIsItsOwn ==
  /\ HealthTypeOK
  /\ client # NoClient /\ status.down => failed[client] = PingRetries

(* A client that never answers is found: while its checks go on and are     *)
(* not started again and again, a ping that hangs for ever ends in the pool *)
(* being down, although only one ping is sent.                              *)
HungIsFound == \A c \in Clients :
  <>[](/\ client = c /\ timer
       /\ c \in pinging /\ check[c] # "superseded") => <>[]status.down
=============================================================================
