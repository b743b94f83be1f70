------------------------- MODULE RuntimeLifecycle -------------------------
(***************************************************************************)
(* connect() and close() of the runtimes of one process, and the memory    *)
(* server they share.                                                      *)
(*                                                                         *)
(* A startup opens one resource after the other and records each in a      *)
(* field of the runtime as soon as it exists; after every await it checks  *)
(* that no close() has superseded it.  A release takes a snapshot of the   *)
(* fields, closes what it finds and empties the fields it could close.     *)
(* The memory server is a singleton of the module: the first connection    *)
(* starts it and the last client that closes stops it.                     *)
(*                                                                         *)
(* Of the services a runtime owns, "pool" stands for those created by a    *)
(* statement of connect() (pools, slow-query log, saga, invalidator) and   *)
(* "sync" for the one that is assigned only after an await.                *)
(***************************************************************************)
EXTENDS Naturals, FiniteSets

CONSTANTS Runtimes,
          MaxConnects, MaxCloses  \* bounds: the calls on each runtime

ASSUME RuntimesAssumption ==
  /\ IsFiniteSet(Runtimes)
  /\ MaxConnects \in [Runtimes -> Nat] /\ MaxCloses \in [Runtimes -> Nat]

VARIABLES
  connected,  \* _connected
  gen,        \* _connectionGeneration
  fields,     \* what each field of the runtime holds: the startup that made it, or 0
  opened,      \* the resources that are physically open
  startup,    \* _connectionPromise: where the startup is, and what it captured
  closing,    \* _closePromise
  release,    \* the release of the startup, and the one of close()
  waiting,    \* a connect() that awaits _closePromise
  server,     \* the memory server; "left" when its stop failed and no client is left
  clients,    \* _memoryServerClients
  pending,    \* _memoryServerPendingConnections: who holds a reservation
  refused,    \* history: the open resources that a release failed to close
  calls       \* bound: the calls of connect() and close() so far

lifecycleVars == <<connected, gen, fields, opened, startup, closing, release, waiting,
          server, clients, pending, refused, calls>>
ownVars == <<connected, gen, closing, waiting, calls>>
serverVars == <<server, clients, pending>>
openVars == <<fields, opened, refused>>

Kinds == {"tunnel", "client", "pool", "sync"}
Actors == {"startup", "close"}
Resources == Runtimes \X Kinds \X (Nat \ {0})
NoRelease == [at |-> "none", snap |-> [k \in Kinds |-> 0], failed |-> {}]
NoStartup == [at |-> "none", gen |-> 0, n |-> 0]

LifecycleTypeOK ==
  /\ connected \in [Runtimes -> BOOLEAN] /\ gen \in [Runtimes -> Nat]
  /\ fields \in [Runtimes -> [Kinds -> Nat]]
  /\ opened \subseteq Resources /\ refused \subseteq Resources
  /\ startup \in [Runtimes -> [at : {"none", "release", "tunnel", "reserve", "server", "stop",
                                     "client", "pool", "sync", "models", "unwind"},
                               gen : Nat, n : Nat]]
  /\ closing \in [Runtimes -> {"none", "await", "release", "cache"}]
  /\ release \in [Runtimes -> [Actors -> [at : {"none", "services", "client", "stop", "tunnel"},
                                          snap : [Kinds -> Nat],
                                          failed : SUBSET Kinds]]]
  /\ waiting \in [Runtimes -> {"no", "waiting", "resolved"}]
  /\ server \in {"down", "starting", "up", "stopping", "left"}
  /\ clients \subseteq Runtimes \X (Nat \ {0}) /\ pending \subseteq Runtimes
  /\ calls \in [Runtimes -> [connect : Nat, close : Nat]]

LifecycleInit == /\ connected = [r \in Runtimes |-> FALSE] /\ gen = [r \in Runtimes |-> 0]
                 /\ fields = [r \in Runtimes |-> [k \in Kinds |-> 0]] /\ opened = {} /\ refused = {}
                 /\ startup = [r \in Runtimes |-> NoStartup] /\ closing = [r \in Runtimes |-> "none"]
                 /\ release = [r \in Runtimes |-> [a \in Actors |-> NoRelease]]
                 /\ waiting = [r \in Runtimes |-> "no"]
                 /\ server = "down" /\ clients = {} /\ pending = {}
                 /\ calls = [r \in Runtimes |-> [connect |-> 0, close |-> 0]]

-----------------------------------------------------------------------------
(* Releases.                                                               *)

Snapshot(r) == [at |-> "services", snap |-> fields[r], failed |-> {}]

\* A failure in the startup of r: it is rejected once everything is released.
UnwindStartup(r) == /\ startup' = [startup EXCEPT ![r].at = "unwind"]
                    /\ release' = [release EXCEPT ![r]["startup"] = Snapshot(r)]

Held(r, a) == {k \in Kinds : release[r][a].snap[k] # 0}
Of(r, a, ks) == {<<r, k, release[r][a].snap[k]>> : k \in ks}

\* The services are closed beside each other, and one that fails stops no other.
ReleaseServices(r, a) ==
  /\ release[r][a].at = "services"
  /\ \E bad \in SUBSET (Held(r, a) \cap {"pool", "sync"}) :
       /\ release' = [release EXCEPT ![r][a].at = "client", ![r][a].failed = bad]
       /\ opened' = opened \ Of(r, a, {"pool", "sync"} \ bad)
       /\ refused' = (refused \cup Of(r, a, bad)) \cap opened'
  /\ UNCHANGED <<ownVars, fields, startup, serverVars>>

\* stopMemoryServer(), for a release whose client was the last.
StopServer(r, a) ==
  IF pending = {} /\ server \in {"up", "stopping", "left"}
  THEN server' = "stopping" /\ release' = [release EXCEPT ![r][a].at = "stop"]
  ELSE server' = server /\ release' = [release EXCEPT ![r][a].at = "tunnel"]

\* closeMongo(null): a startup makes sure that nothing is left of an earlier one.
ReleaseNoClient(r, a) ==
  /\ release[r][a].at = "client" /\ release[r][a].snap["client"] = 0
  /\ IF clients = {} THEN StopServer(r, a)
     ELSE release' = [release EXCEPT ![r][a].at = "tunnel"] /\ UNCHANGED server
  /\ UNCHANGED <<ownVars, openVars, startup, clients, pending>>

ReleaseClient(r, a) ==
  LET c == <<r, release[r][a].snap["client"]>>
  IN /\ release[r][a].at = "client" /\ c[2] # 0
     /\ opened' = opened \ Of(r, a, {"client"}) /\ clients' = clients \ {c}
     /\ refused' = refused \cap opened'
     /\ IF c \in clients /\ clients' = {} THEN StopServer(r, a)
        ELSE release' = [release EXCEPT ![r][a].at = "tunnel"] /\ UNCHANGED server
     /\ UNCHANGED <<ownVars, fields, startup, pending>>

ReleaseClientFails(r, a) ==
  /\ release[r][a].at = "client" /\ release[r][a].snap["client"] # 0
  /\ release' = [release EXCEPT ![r][a].at = "tunnel", ![r][a].failed = @ \cup {"client"}]
  /\ refused' = refused \cup Of(r, a, {"client"})
  /\ UNCHANGED <<ownVars, fields, opened, startup, serverVars>>

\* The fields that were released and still hold what the snapshot held.
Emptied(r, a) == [k \in Kinds |->
  IF k \notin release[r][a].failed /\ fields[r][k] = release[r][a].snap[k]
  THEN 0 ELSE fields[r][k]]

Superseded(r) == startup[r].gen # gen[r]

\* The tunnel comes last.
TunnelReleased(r, a) ==
  /\ release[r][a].at = "tunnel"
  /\ opened' = opened \ Of(r, a, {"tunnel"}) /\ refused' = refused \cap opened'
  /\ fields' = [fields EXCEPT ![r] = Emptied(r, a)]

\* What an earlier connection left is released before the startup opens anything.
StartupReleased(r) ==
  /\ startup[r].at = "release" /\ TunnelReleased(r, "startup")
  /\ IF release[r]["startup"].failed # {} \/ Superseded(r)
     THEN /\ startup' = [startup EXCEPT ![r].at = "unwind"]
          /\ release' = [release EXCEPT ![r]["startup"] =
                           [Snapshot(r) EXCEPT !.snap = fields'[r]]]
     ELSE /\ startup' = [startup EXCEPT ![r].at = "tunnel"]
          /\ release' = [release EXCEPT ![r]["startup"] = NoRelease]
  /\ UNCHANGED <<ownVars, serverVars>>

\* Mutated form: a close() that awaits the startup hears of its success only.
StartupUnwoundUnheard(r) ==
  /\ startup[r].at = "unwind" /\ TunnelReleased(r, "startup")
  /\ startup' = [startup EXCEPT ![r] = NoStartup]
  /\ connected' = [connected EXCEPT ![r] = FALSE]
  /\ release' = [release EXCEPT ![r]["startup"] = NoRelease]
  /\ UNCHANGED <<gen, closing, waiting, calls, serverVars>>

\* The startup is rejected; a close() that awaits it goes on.
StartupUnwound(r) ==
  /\ startup[r].at = "unwind" /\ TunnelReleased(r, "startup")
  /\ startup' = [startup EXCEPT ![r] = NoStartup]
  /\ connected' = [connected EXCEPT ![r] = FALSE]
  /\ release' = [release EXCEPT ![r]["startup"] = NoRelease,
                   ![r]["close"] = IF closing[r] = "await"
                                   THEN [Snapshot(r) EXCEPT !.snap = fields'[r]] ELSE @]
  /\ closing' = [closing EXCEPT ![r] = IF @ = "await" THEN "release" ELSE @]
  /\ UNCHANGED <<gen, waiting, calls, serverVars>>

CloseReleased(r) ==
  /\ closing[r] = "release" /\ TunnelReleased(r, "close")
  /\ release' = [release EXCEPT ![r]["close"] = NoRelease]
  /\ closing' = [closing EXCEPT ![r] = "cache"]
  /\ UNCHANGED <<connected, gen, waiting, calls, startup, serverVars>>

-----------------------------------------------------------------------------
(* The memory server.                                                      *)

Stopping == {ra \in Runtimes \X Actors : release[ra[1]][ra[2]].at = "stop"}

\* A startup that stops the server fails however the stop ends.
ServerStopped ==
  LET waits == {r \in Runtimes : startup[r].at = "stop"}
  IN /\ server = "stopping" /\ server' = "down"
     /\ startup' = [r \in Runtimes |->
          IF r \in waits THEN [startup[r] EXCEPT !.at = "unwind"] ELSE startup[r]]
     /\ release' = [r \in Runtimes |-> [a \in Actors |->
          IF <<r, a>> \in Stopping THEN [release[r][a] EXCEPT !.at = "tunnel"]
          ELSE IF r \in waits /\ a = "startup" THEN Snapshot(r) ELSE release[r][a]]]
     /\ UNCHANGED <<ownVars, openVars, clients, pending>>

\* The stop fails: so do all that await it, the connections that wait for its
\* end as well, and the client counts again, for a later release.
ServerStopFails ==
  LET waits == {r \in Runtimes : startup[r].at \in {"reserve", "stop"}}
      Failed(rel) == [rel EXCEPT !.at = "tunnel", !.failed = @ \cup {"client"}]
  IN /\ server = "stopping"
     /\ startup' = [r \in Runtimes |->
          IF r \in waits THEN [startup[r] EXCEPT !.at = "unwind"] ELSE startup[r]]
     /\ release' = [r \in Runtimes |-> [a \in Actors |->
          IF <<r, a>> \in Stopping THEN Failed(release[r][a])
          ELSE IF r \in waits /\ a = "startup" THEN Snapshot(r) ELSE release[r][a]]]
     /\ clients' = clients \cup {<<ra[1], release[ra[1]][ra[2]].snap["client"]>> :
          ra \in {x \in Stopping : release[x[1]][x[2]].snap["client"] # 0}}
     /\ server' = IF clients' = {} THEN "left" ELSE "up"
     /\ UNCHANGED <<ownVars, openVars, pending>>

ServerStarts ==
  /\ server = "starting" /\ server' = "up"
  /\ UNCHANGED <<ownVars, openVars, startup, release, clients, pending>>

\* All that awaited the start give their reservation back and fail.
ServerStartFails ==
  /\ server = "starting" /\ server' = "down" /\ pending' = {}
  /\ startup' = [r \in Runtimes |->
       IF r \in pending THEN [startup[r] EXCEPT !.at = "unwind"] ELSE startup[r]]
  /\ release' = [r \in Runtimes |->
       IF r \in pending THEN [release[r] EXCEPT !["startup"] = Snapshot(r)] ELSE release[r]]
  /\ UNCHANGED <<ownVars, openVars, clients>>

-----------------------------------------------------------------------------
(* connect().                                                              *)

Opened(r, k) == /\ fields' = [fields EXCEPT ![r][k] = startup[r].n]
                /\ opened' = opened \cup {<<r, k, startup[r].n>>}
                /\ UNCHANGED refused

StartupAt(r, from) == startup[r].at = from
\* assertCurrent() after an await.
Continue(r, to) == IF Superseded(r)
                   THEN /\ startup' = [startup EXCEPT ![r].at = "unwind"]
                        /\ release' = [release EXCEPT ![r]["startup"] =
                                         [Snapshot(r) EXCEPT !.snap = fields'[r]]]
                   ELSE /\ startup' = [startup EXCEPT ![r].at = to]
                        /\ UNCHANGED release

\* A connected runtime is returned, a startup under way is joined.
ConnectBody(r) ==
  IF connected[r] \/ ~StartupAt(r, "none") THEN UNCHANGED <<startup, release>>
  ELSE /\ startup' = [startup EXCEPT ![r] = [at |-> "release", gen |-> gen[r],
                                             n |-> calls'[r].connect]]
       /\ release' = [release EXCEPT ![r]["startup"] = Snapshot(r)]

ConnectCall(r) ==
  /\ calls[r].connect < MaxConnects[r] /\ waiting[r] = "no"
  /\ calls' = [calls EXCEPT ![r].connect = @ + 1]
  /\ IF closing[r] = "none" THEN ConnectBody(r) /\ UNCHANGED waiting
     ELSE waiting' = [waiting EXCEPT ![r] = "waiting"] /\ UNCHANGED <<startup, release>>
  /\ UNCHANGED <<connected, gen, closing, openVars, serverVars>>

\* It does not look for another close() that came in between.
ConnectResumes(r) ==
  /\ waiting[r] = "resolved"
  /\ waiting' = [waiting EXCEPT ![r] = "no"]
  /\ UNCHANGED calls /\ ConnectBody(r)
  /\ UNCHANGED <<connected, gen, closing, openVars, serverVars>>

\* Mutated form: the startup is checked before the tunnel is recorded.
TunnelOpensUnrecorded(r) ==
  /\ StartupAt(r, "tunnel")
  /\ IF Superseded(r)
     THEN /\ opened' = opened \cup {<<r, "tunnel", startup[r].n>>} /\ UNCHANGED <<fields, refused>>
     ELSE Opened(r, "tunnel")
  /\ Continue(r, "reserve")
  /\ UNCHANGED <<ownVars, serverVars>>

TunnelOpens(r) ==
  /\ StartupAt(r, "tunnel") /\ Opened(r, "tunnel") /\ Continue(r, "reserve")
  /\ UNCHANGED <<ownVars, serverVars>>

\* A reservation, once no stop is under way; the first starts the server, or takes
\* over what is left of it.
Reserve(r) ==
  /\ StartupAt(r, "reserve") /\ server # "stopping"
  /\ pending' = pending \cup {r}
  /\ server' = CASE server = "down" -> "starting" [] server = "left" -> "up" [] OTHER -> server
  /\ startup' = [startup EXCEPT ![r].at = "server"]
  /\ UNCHANGED <<ownVars, openVars, release, clients>>

ClientCreated(r) ==
  /\ StartupAt(r, "server") /\ server # "starting"
  /\ Opened(r, "client")
  /\ clients' = clients \cup {<<r, startup[r].n>>} /\ pending' = pending \ {r}
  /\ startup' = [startup EXCEPT ![r].at = "client"]
  /\ UNCHANGED <<ownVars, release, server>>

\* new MongoClient() throws: the reservation is given back, and if nobody else has
\* one or a client the startup stops the server before it fails.
ClientRefused(r) ==
  /\ StartupAt(r, "server") /\ server # "starting" /\ pending' = pending \ {r}
  /\ IF clients = {} /\ pending' = {}
     THEN /\ server' = "stopping" /\ startup' = [startup EXCEPT ![r].at = "stop"]
          /\ UNCHANGED release
     ELSE UnwindStartup(r) /\ UNCHANGED server
  /\ UNCHANGED <<ownVars, openVars, clients>>

ClientConnects(r) ==
  /\ StartupAt(r, "client")
  /\ IF Superseded(r) THEN UNCHANGED openVars ELSE Opened(r, "pool")
  /\ Continue(r, "pool")
  /\ UNCHANGED <<ownVars, serverVars>>

PoolsReady(r) ==
  /\ StartupAt(r, "pool") /\ UNCHANGED openVars /\ Continue(r, "sync")
  /\ UNCHANGED <<ownVars, serverVars>>

SyncReady(r) ==
  /\ StartupAt(r, "sync") /\ Opened(r, "sync") /\ Continue(r, "models")
  /\ UNCHANGED <<ownVars, serverVars>>

ModelsLoaded(r) ==
  /\ StartupAt(r, "models")
  /\ IF Superseded(r) THEN UnwindStartup(r) /\ UNCHANGED connected
     ELSE /\ connected' = [connected EXCEPT ![r] = TRUE]
          /\ startup' = [startup EXCEPT ![r] = NoStartup] /\ UNCHANGED release
  /\ UNCHANGED <<gen, closing, waiting, calls, openVars, serverVars>>

\* The tunnel (which closes itself), the driver, a pool or a model file fails.
StartupRejects(r) ==
  /\ startup[r].at \in {"tunnel", "client", "pool", "models"} /\ UnwindStartup(r)
  /\ UNCHANGED <<ownVars, openVars, serverVars>>

-----------------------------------------------------------------------------
(* close().                                                                *)

RuntimeCloseCall(r) ==
  /\ closing[r] = "none" /\ calls[r].close < MaxCloses[r]
  /\ calls' = [calls EXCEPT ![r].close = @ + 1]
  /\ connected' = [connected EXCEPT ![r] = FALSE]
  /\ gen' = [gen EXCEPT ![r] = @ + 1]
  /\ IF StartupAt(r, "none")
     THEN /\ closing' = [closing EXCEPT ![r] = "release"]
          /\ release' = [release EXCEPT ![r]["close"] = Snapshot(r)]
     ELSE closing' = [closing EXCEPT ![r] = "await"] /\ UNCHANGED release
  /\ UNCHANGED <<openVars, startup, waiting, serverVars>>

\* The cache is closed, and the promise settles.
CloseEnds(r) ==
  /\ closing[r] = "cache"
  /\ closing' = [closing EXCEPT ![r] = "none"]
  /\ waiting' = [waiting EXCEPT ![r] = IF @ = "waiting" THEN "resolved" ELSE @]
  /\ UNCHANGED <<connected, gen, calls, openVars, startup, release, serverVars>>

ReleaseStep(r) ==
  \/ \E a \in Actors : \/ ReleaseServices(r, a) \/ ReleaseNoClient(r, a)
                       \/ ReleaseClient(r, a) \/ ReleaseClientFails(r, a)
  \/ StartupReleased(r) \/ StartupUnwound(r) \/ CloseReleased(r) \/ CloseEnds(r)
Startup(r) == \/ TunnelOpens(r) \/ Reserve(r) \/ ClientCreated(r) \/ ClientRefused(r)
              \/ ClientConnects(r) \/ PoolsReady(r) \/ SyncReady(r) \/ ModelsLoaded(r) \/ StartupRejects(r)
Server == ServerStopped \/ ServerStopFails \/ ServerStarts \/ ServerStartFails

\* A continuation runs before any answer from outside, but not before other ones.
Drained == \A r \in Runtimes : waiting[r] # "resolved"

LifecycleNext == \/ \E r \in Runtimes : \/ ConnectCall(r) \/ ConnectResumes(r) \/ RuntimeCloseCall(r)
                                        \/ Drained /\ Startup(r)
                                        \/ Drained /\ ReleaseStep(r)
                 \/ Drained /\ Server

LifecycleFairness == /\ \A r \in Runtimes : /\ WF_lifecycleVars(ConnectResumes(r))
                                            /\ WF_lifecycleVars(Drained /\ Startup(r))
                                            /\ WF_lifecycleVars(Drained /\ ReleaseStep(r))
                     /\ WF_lifecycleVars(Drained /\ Server)

LifecycleSpec == LifecycleInit /\ [][LifecycleNext]_lifecycleVars
LifecycleFairSpec == LifecycleSpec /\ LifecycleFairness

-----------------------------------------------------------------------------
(* Properties.                                                             *)

AtRest(r) == StartupAt(r, "none") /\ closing[r] = "none"

(* Every open resource is held by its field, so that some release finds it: *)
(* a startup that close() supersedes, or that fails, leaves nothing open    *)
(* that no field names, and no release empties the field of a later one.    *)
EverythingOwned == \A x \in opened : fields[x[1]][x[2]] = x[3]

(* A connected runtime has all of its resources: no release that still runs *)
(* takes one away from a later startup.                                     *)
ConnectedIsWhole == \A r \in Runtimes : connected[r] =>
  \A k \in Kinds : <<r, k, fields[r][k]>> \in opened

(* Once close() has released, or a startup has failed, a runtime that is    *)
(* not connected holds nothing open but what a release failed to close.     *)
NothingLeaks == \A r \in Runtimes :
  StartupAt(r, "none") /\ closing[r] \in {"none", "cache"} /\ ~connected[r]
    => \A x \in opened : x[1] = r => x \in refused

(* The memory server is up while a client of a runtime is open, whatever    *)
(* the other runtimes close, and it is not left running without a client    *)
(* unless a stop of it has failed.                                          *)
ServerFollowsClients ==
  /\ (\E x \in opened : x[2] = "client") => server = "up"
  /\ (\A r \in Runtimes : AtRest(r)) /\ server = "up" => clients # {}

(* Again and again no startup and no close() is under way: none waits for   *)
(* ever for the other, for a server that stops, or for another runtime's    *)
(* reservation.                                                             *)
CallsSettle == []<>(\A r \in Runtimes : StartupAt(r, "none") /\ closing[r] = "none")

(* What is open is found by some release and released, and what is in use   *)
(* is not taken away by anybody else's release.                             *)
RuntimeOwned ==
  LifecycleTypeOK /\ EverythingOwned /\ NothingLeaks /\ ConnectedIsWhole /\ ServerFollowsClients
=============================================================================
