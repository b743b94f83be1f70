------------------------ MODULE DistributedInvalidation ------------------------
(***************************************************************************)
(* One cache key in several processes: each has a local level of its own,  *)
(* they may share a remote level, and the deletion a write makes in its    *)
(* own process is published to the others, which delete the key as well.   *)
(*                                                                         *)
(* An entry is the number of writes its content takes in.  Inside a        *)
(* process the tickets, tails and holds of CacheCoordination and the fence *)
(* of BackfillFence appear as what they come to: an invalidation revokes   *)
(* the queries under way and waits for what they have begun to store.      *)
(***************************************************************************)
EXTENDS Integers, FiniteSets

CONSTANTS Instances,  \* the processes
          Queries,    \* cached queries of the key
          Writes,     \* writes, each with its invalidation
          HomeOf,     \* the process of each query and write
          MaxUnheard, \* bounds the messages that are lost
          NoEntry

ASSUME SharingAssumption ==
  /\ HomeOf \in [Queries \cup Writes -> Instances] /\ Queries \cap Writes = {}
  /\ MaxUnheard \in Nat /\ NoEntry \notin Nat

Levels == {"local", "remote"}

VARIABLES
  shared,   \* whether there is a remote level
  version,  \* the writes the database has taken in
  local,    \* the entry of each process, or None
  remote,   \* the shared entry, or None
  query,    \* where each query is
  result,   \* what it has read, or None
  filling,  \* the queries whose ticket is valid
  refilling,\* those whose backfill the fence lets through
  number,   \* the version each write has made
  handling, \* where the invalidation of a write by a process is
  todo      \* what an invalidation has still to do

sharingVars == <<shared, version, local, remote, query, result, filling, refilling,
                 number, handling, todo>>
queryPart == <<query, result>>
writePart == <<version, number>>

SharingTypeOK ==
  /\ shared \in BOOLEAN /\ version \in Nat
  /\ local \in [Instances -> 0..version \cup {NoEntry}] /\ remote \in 0..version \cup {NoEntry}
  /\ query \in [Queries -> {"idle", "local", "remote", "refill", "fetch", "fetched",
                            "storing", "over"}]
  /\ result \in [Queries -> 0..version \cup {NoEntry}]
  /\ filling \subseteq Queries /\ refilling \subseteq Queries
  /\ number \in [Writes -> 0..version]
  /\ handling \in [Writes \X Instances -> {"none", "sent", "lost", "waiting", "deleting", "done"}]
  /\ todo \in [Writes \X Instances -> SUBSET (Levels \cup {"publish"})]

SharingInit ==
  /\ shared \in BOOLEAN /\ version = 0 /\ local = [i \in Instances |-> NoEntry] /\ remote = NoEntry
  /\ query = [q \in Queries |-> "idle"] /\ result = [q \in Queries |-> NoEntry]
  /\ filling = {} /\ refilling = {} /\ number = [w \in Writes |-> 0]
  /\ handling = [x \in Writes \X Instances |-> "none"]
  /\ todo = [x \in Writes \X Instances |-> {}]

Here(i) == {q \in Queries : HomeOf[q] = i}

-----------------------------------------------------------------------------
(* A query: the local level, the remote one, the database.                 *)

Goes(q, from, to) ==
  /\ query[q] = from /\ query' = [query EXCEPT ![q] = to] /\ UNCHANGED <<filling, refilling>>

\* The `finally` of withCacheReads, and the end of the fence's read().
Settles(q, from) ==
  /\ query[q] = from /\ query' = [query EXCEPT ![q] = "over"]
  /\ result' = [result EXCEPT ![q] = NoEntry]
  /\ filling' = filling \ {q} /\ refilling' = refilling \ {q}

\* The fence does not let a get() refill that began while a deletion runs.
LooksUp(q) ==
  /\ query[q] = "idle" /\ query' = [query EXCEPT ![q] = "local"]
  /\ filling' = filling \cup {q}
  /\ refilling' = IF \E w \in Writes : handling[<<w, HomeOf[q]>>] = "deleting"
                  THEN refilling ELSE refilling \cup {q}
  /\ UNCHANGED <<shared, local, remote, result, handling, todo, writePart>>

LocalAnswers(q) ==
  /\ IF local[HomeOf[q]] # NoEntry THEN Settles(q, "local")
     ELSE Goes(q, "local", IF shared THEN "remote" ELSE "fetch") /\ UNCHANGED result
  /\ UNCHANGED <<shared, local, remote, handling, todo, writePart>>

RemoteAnswers(q) ==
  /\ Goes(q, "remote", IF remote = NoEntry THEN "fetch" ELSE "refill")
  /\ result' = [result EXCEPT ![q] = remote]
  /\ UNCHANGED <<shared, local, remote, handling, todo, writePart>>

\* A hit of the remote level is copied to the local one.
Refills(q) ==
  /\ Settles(q, "refill")
  /\ local' = IF q \in refilling THEN [local EXCEPT ![HomeOf[q]] = result[q]] ELSE local
  /\ UNCHANGED <<shared, remote, handling, todo, writePart>>

Fetches(q) ==
  /\ Goes(q, "fetch", "fetched") /\ result' = [result EXCEPT ![q] = version]
  /\ UNCHANGED <<shared, local, remote, handling, todo, writePart>>

\* set(): the local level, then the remote one if there is one.
Stores(q) ==
  /\ q \in filling
  /\ IF shared THEN Goes(q, "fetched", "storing") /\ UNCHANGED result ELSE Settles(q, "fetched")
  /\ local' = [local EXCEPT ![HomeOf[q]] = result[q]]
  /\ UNCHANGED <<shared, remote, handling, todo, writePart>>

StoresNot(q) ==
  /\ q \notin filling /\ Settles(q, "fetched")
  /\ UNCHANGED <<shared, local, remote, handling, todo, writePart>>

StoresRemotely(q) ==
  /\ Settles(q, "storing") /\ remote' = result[q]
  /\ UNCHANGED <<shared, local, handling, todo, writePart>>

-----------------------------------------------------------------------------
(* A write and its invalidation at home.                                   *)

Writing(w) ==
  /\ number[w] = 0 /\ version' = version + 1 /\ number' = [number EXCEPT ![w] = version + 1]
  /\ UNCHANGED <<shared, local, remote, filling, refilling, handling, todo, queryPart>>

\* coordinateInvalidation revokes the tickets in the step that begins it.
Revokes(w, i) ==
  /\ filling' = filling \ Here(i) /\ handling' = [handling EXCEPT ![<<w, i>>] = "waiting"]

InvalidatesAtHome(w) ==
  /\ number[w] > 0 /\ handling[<<w, HomeOf[w]>>] = "none" /\ Revokes(w, HomeOf[w])
  /\ UNCHANGED <<shared, local, remote, refilling, todo, queryPart, writePart>>

\* Mutated form: another process deletes its own level alone.
WorkOwnLevel(w, i) == IF HomeOf[w] = i THEN Levels \cup {"publish"} ELSE {"local"}

\* What the deletion consists of; only at home is it published.
Work(w, i) == IF HomeOf[w] = i THEN Levels \cup {"publish"} ELSE Levels

\* What was being stored when the tickets were revoked has been stored; the
\* fence revokes the refills that have not been made.
Deletes(w, i) ==
  /\ handling[<<w, i>>] = "waiting"
  /\ \A q \in Here(i) : query[q] = "storing" => q \in filling
  /\ handling' = [handling EXCEPT ![<<w, i>>] = "deleting"]
  /\ todo' = [todo EXCEPT ![<<w, i>>] = Work(w, i)]
  /\ refilling' = refilling \ Here(i)
  /\ UNCHANGED <<shared, local, remote, filling, queryPart, writePart>>

\* del() at home, in no particular order; elsewhere the local level first.
DeletesLevel(w, i) == \E l \in Levels \cap todo[<<w, i>>] :
  /\ HomeOf[w] = i \/ l = "local" \/ "local" \notin todo[<<w, i>>]
  /\ todo' = [todo EXCEPT ![<<w, i>>] = @ \ {l}]
  /\ local' = IF l = "local" THEN [local EXCEPT ![i] = NoEntry] ELSE local
  /\ remote' = IF l = "remote" THEN NoEntry ELSE remote
  /\ UNCHANGED <<shared, filling, refilling, handling, queryPart, writePart>>

DeletionEnds(w, i) ==
  /\ handling[<<w, i>>] = "deleting" /\ todo[<<w, i>>] = {}
  /\ handling' = [handling EXCEPT ![<<w, i>>] = "done"]
  /\ UNCHANGED <<shared, local, remote, filling, refilling, todo, queryPart, writePart>>

-----------------------------------------------------------------------------
(* Messages: each reaches a process once, late or never.                   *)

Unheard == Cardinality({x \in Writes \X Instances : handling[x] = "lost"})

\* The process that publishes ignores what it hears from itself.
Publishes(w) == \E missed \in SUBSET (Instances \ {HomeOf[w]}) :
  /\ "publish" \in todo[<<w, HomeOf[w]>>] /\ Unheard + Cardinality(missed) <= MaxUnheard
  /\ todo' = [todo EXCEPT ![<<w, HomeOf[w]>>] = @ \ {"publish"}]
  /\ handling' = [x \in DOMAIN handling |->
                    IF x[1] # w \/ x[2] = HomeOf[w] THEN handling[x]
                    ELSE IF x[2] \in missed THEN "lost" ELSE "sent"]
  /\ UNCHANGED <<shared, local, remote, filling, refilling, queryPart, writePart>>

Hears(w, i) ==
  /\ handling[<<w, i>>] = "sent" /\ Revokes(w, i)
  /\ UNCHANGED <<shared, local, remote, refilling, todo, queryPart, writePart>>

SharingNext ==
  \/ \E q \in Queries : \/ LooksUp(q) \/ LocalAnswers(q) \/ RemoteAnswers(q) \/ Refills(q)
                        \/ Fetches(q) \/ Stores(q) \/ StoresNot(q)
                        \/ StoresRemotely(q)
  \/ \E w \in Writes : Writing(w) \/ InvalidatesAtHome(w) \/ Publishes(w)
  \/ \E w \in Writes, i \in Instances :
       Deletes(w, i) \/ DeletesLevel(w, i) \/ DeletionEnds(w, i) \/ Hears(w, i)

SharingSpec == SharingInit /\ [][SharingNext]_sharingVars

-----------------------------------------------------------------------------
(* Properties.                                                             *)

Handled(w, i) == handling[<<w, i>>] = "done"
Includes(entry, w) == entry = NoEntry \/ entry >= number[w]

(* A process that has handled the invalidation of a write has no entry     *)
(* from before it, whatever its queries were doing meanwhile.              *)
HandledIsForgotten == \A w \in Writes, i \in Instances : Handled(w, i) => Includes(local[i], w)

(* Once every process has, the shared entry is not from before it either.  *)
RemoteIsClean == \A w \in Writes :
  (\A i \in Instances : Handled(w, i)) => Includes(remote, w)

(* The first holds of processes that share no remote level, the second of  *)
(* those that do: a refill from a level another process stores into late   *)
(* brings an old entry back.                                               *)
InvalidationReaches == SharingTypeOK /\ (shared \/ HandledIsForgotten) /\ RemoteIsClean
=============================================================================
