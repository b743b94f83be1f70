--------------------------- MODULE ConnectionPools ---------------------------
(***************************************************************************)
(* The connection pool manager: pools are added and removed while close()  *)
(* may start at any time, fail and be called again.                        *)
(*                                                                         *)
(* A client is open from the moment the factory creates it.  Until its     *)
(* pool is registered it is held by _pendingCloseClients, so that a        *)
(* close() finds it although addPool() has failed or is still waiting; a   *)
(* clientFactory given by the caller shows its client only once it has     *)
(* connected.  A client is named by the call of addPool() that creates it. *)
(***************************************************************************)
EXTENDS Naturals, FiniteSets

CONSTANTS Adds,       \* the calls of addPool()
          NameOf,     \* the pool each of them names
          Unreported, \* those whose client the caller's factory makes
          Removes,    \* the calls of removePool()
          MaxPools,   \* maxPoolsCount
          MaxPoolCloses,  \* bound: the runs of _closeAllPools()
          NoPool

ASSUME PoolsAssumption ==
  /\ IsFiniteSet(Adds) /\ DOMAIN NameOf = Adds /\ NoPool \notin Adds /\ Unreported \subseteq Adds
  /\ MaxPools \in Nat \ {0} /\ MaxPoolCloses \in Nat

VARIABLES
  adds,         \* where each addPool() is; "connecting" is _pendingAdds
  pools,        \* pools: the client registered under each name
  spare,        \* _pendingCloseClients
  openClients,  \* the clients the driver has not closed
  removes,      \* the client that each removePool() waits for, or a word
  shutdown,     \* the run of _closeAllPools()
  managerClosed \* _closed

poolVars == <<adds, pools, spare, openClients, removes, shutdown, managerClosed>>

Names == {NameOf[a] : a \in Adds}
Registered == {pools[n] : n \in Names} \ {NoPool}
Connecting == {a \in Adds : adds[a] = "connecting"}
PoolPhases == {"none", "adds", "pools", "spare", "done", "failed"}

PoolsTypeOK ==
  /\ adds \in [Adds -> {"idle", "connecting", "added", "failed"}]
  /\ pools \in [Names -> Adds \cup {NoPool}]
  /\ spare \subseteq Adds /\ openClients \subseteq Adds
  /\ removes \in [Removes -> Adds \cup {"idle", "done", "failed"}]
  /\ shutdown \in [at : PoolPhases, visited : SUBSET Adds, current : Adds \cup {NoPool},
                   errors : BOOLEAN, runs : Nat]
  /\ managerClosed \in BOOLEAN

PoolsInit ==
  /\ adds = [a \in Adds |-> "idle"] /\ pools = [n \in Names |-> NoPool]
  /\ spare = {} /\ openClients = {} /\ removes = [m \in Removes |-> "idle"]
  /\ shutdown = [at |-> "none", visited |-> {}, current |-> NoPool, errors |-> FALSE, runs |-> 0]
  /\ managerClosed = FALSE

-----------------------------------------------------------------------------
(* addPool().                                                              *)

AddRefused(a) == \/ managerClosed
              \/ pools[NameOf[a]] # NoPool
              \/ \E b \in Connecting : NameOf[b] = NameOf[a]
              \/ Cardinality(Registered) + Cardinality(Connecting) >= MaxPools

\* The default factory makes the client, has it recorded, and starts to connect.
AddCall(a) ==
  /\ adds[a] = "idle"
  /\ IF AddRefused(a)
     THEN adds' = [adds EXCEPT ![a] = "failed"] /\ UNCHANGED <<spare, openClients>>
     ELSE /\ adds' = [adds EXCEPT ![a] = "connecting"]
          /\ spare' = spare \cup ({a} \ Unreported)
          /\ openClients' = openClients \cup ({a} \ Unreported)
  /\ UNCHANGED <<pools, removes, shutdown, managerClosed>>

\* Mutated form: a client that arrives after close() is given up.
AddConnectsForgetful(a) ==
  /\ adds[a] = "connecting"
  /\ spare' = spare \ {a}
  /\ IF managerClosed
     THEN adds' = [adds EXCEPT ![a] = "failed"] /\ UNCHANGED pools
     ELSE /\ adds' = [adds EXCEPT ![a] = "added"]
          /\ pools' = [pools EXCEPT ![NameOf[a]] = a]
  /\ openClients' = openClients \cup {a}
  /\ UNCHANGED <<removes, shutdown, managerClosed>>

\* After close() the client stays where close() looks for it.
AddConnects(a) ==
  /\ adds[a] = "connecting"
  /\ IF managerClosed
     THEN /\ adds' = [adds EXCEPT ![a] = "failed"]
          /\ spare' = spare \cup {a} /\ UNCHANGED pools
     ELSE /\ adds' = [adds EXCEPT ![a] = "added"]
          /\ pools' = [pools EXCEPT ![NameOf[a]] = a]
          /\ spare' = spare \ {a}
  /\ openClients' = openClients \cup {a}
  /\ UNCHANGED <<removes, shutdown, managerClosed>>

AddFails(a) ==
  /\ adds[a] = "connecting"
  /\ adds' = [adds EXCEPT ![a] = "failed"]
  /\ UNCHANGED <<pools, spare, openClients, removes, shutdown, managerClosed>>

-----------------------------------------------------------------------------
(* removePool() and close() wait for the driver to close a client.         *)

RemoveCall(m, n) ==
  /\ removes[m] = "idle"
  /\ removes' = [removes EXCEPT ![m] = IF pools[n] = NoPool THEN "failed" ELSE pools[n]]
  /\ UNCHANGED <<adds, pools, spare, openClients, shutdown, managerClosed>>

PoolsCloseCall ==
  /\ shutdown.at \in {"none", "done", "failed"} /\ shutdown.runs < MaxPoolCloses
  /\ managerClosed' = TRUE
  /\ shutdown' = [at |-> "adds", visited |-> {}, current |-> NoPool, errors |-> FALSE,
                  runs |-> shutdown.runs + 1]
  /\ UNCHANGED <<adds, pools, spare, openClients, removes>>

\* allSettled(_pendingAddTasks).
AddsSettled ==
  /\ shutdown.at = "adds" /\ Connecting = {}
  /\ shutdown' = [shutdown EXCEPT !.at = "pools"]
  /\ UNCHANGED <<adds, pools, spare, openClients, removes, managerClosed>>

\* The loop over the pools, then the loop over what is left besides.
ToClose == (IF shutdown.at = "pools" THEN Registered ELSE spare) \ shutdown.visited

CloseNext ==
  /\ shutdown.at \in {"pools", "spare"} /\ shutdown.current = NoPool
  /\ IF ToClose # {}
     THEN \E c \in ToClose :
            shutdown' = [shutdown EXCEPT !.current = c, !.visited = @ \cup {c}]
     ELSE shutdown' = [shutdown EXCEPT !.visited = {},
                         !.at = IF @ = "pools" THEN "spare"
                                ELSE IF shutdown.errors THEN "failed" ELSE "done"]
  /\ UNCHANGED <<adds, pools, spare, openClients, removes, managerClosed>>

Waits(c) == {m \in Removes : removes[m] = c}
Awaited(c) == Waits(c) # {} \/ shutdown.current = c

\* All that wait for the client resume together and take it out of the maps.
ClientCloses(c) ==
  /\ Awaited(c)
  /\ openClients' = openClients \ {c} /\ spare' = spare \ {c}
  /\ pools' = [n \in Names |-> IF pools[n] = c THEN NoPool ELSE pools[n]]
  /\ removes' = [m \in Removes |-> IF m \in Waits(c) THEN "done" ELSE removes[m]]
  /\ shutdown' = [shutdown EXCEPT !.current = IF @ = c THEN NoPool ELSE @]
  /\ UNCHANGED <<adds, managerClosed>>

\* The client keeps its owner; close() goes on to the next and reports it.
ClientCloseFails(c) ==
  /\ Awaited(c)
  /\ removes' = [m \in Removes |-> IF m \in Waits(c) THEN "failed" ELSE removes[m]]
  /\ shutdown' = IF shutdown.current = c
                 THEN [shutdown EXCEPT !.current = NoPool, !.errors = TRUE] ELSE shutdown
  /\ UNCHANGED <<adds, pools, spare, openClients, managerClosed>>

PoolsNext == \/ \E a \in Adds : \/ AddCall(a) \/ AddConnects(a) \/ AddFails(a)
                                \/ ClientCloses(a) \/ ClientCloseFails(a)
             \/ \E m \in Removes, n \in Names : RemoveCall(m, n)
             \/ PoolsCloseCall \/ AddsSettled \/ CloseNext

PoolsSpec == PoolsInit /\ [][PoolsNext]_poolVars

-----------------------------------------------------------------------------
(* Properties.                                                             *)

(* No client is open that neither its pool nor the list of spare clients    *)
(* holds: whatever fails in addPool(), removePool() or close(), a later     *)
(* close() finds what is left.                                              *)
EveryClientOwned == openClients \subseteq Registered \cup spare

(* A close() that ends without an error has closed every client there is,   *)
(* those of an addPool() that was still connecting included.                *)
CloseClosesAll == shutdown.at = "done" => openClients = {} /\ Registered = {}

(* Every client that is open is found by close(), and closed.               *)
ClientsAccounted == PoolsTypeOK /\ EveryClientOwned /\ CloseClosesAll
=============================================================================
