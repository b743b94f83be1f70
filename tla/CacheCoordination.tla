-------------------------- MODULE CacheCoordination --------------------------
(***************************************************************************)
(* Read-through caching against concurrent invalidation inside one process *)
(* (core/cache-coordination.ts and its callers).                           *)
(*                                                                         *)
(* A query registers a ticket before it looks its key up, and fills the    *)
(* key afterwards only through the key's tail, a chain of promises.  A     *)
(* writer that has changed the collection revokes every matching ticket,   *)
(* appends a hold to each matching tail and waits for the jobs in front of *)
(* its holds, all before its first suspension; then it deletes the keys    *)
(* one after the other, and lets go of the holds.                          *)
(*                                                                         *)
(* Everything cached is a function of one collection, whose content is its *)
(* version number: an entry is the version it was computed from.  A find,  *)
(* a count or a page is a reader of its own; findPage with totals is a     *)
(* reader whose result also takes in the totals a nested reader returns.   *)
(*                                                                         *)
(* A tail is removed here in the step that settles its last job; the code  *)
(* does so some microtasks later, when a match can only add a hold.        *)
(***************************************************************************)
EXTENDS Integers, Sequences, Functions

CONSTANTS Keys,       \* cache keys
          Readers,    \* cached queries
          Writers,    \* writes, each with its invalidation
          KeyOf,      \* KeyOf[r]: the key a reader looks up and fills
          Nested,     \* Nested[r]: the reader whose result r includes, or None
          Intents,    \* Intents[w]: the keys the intents of a write match
          None        \* no entry, no reader

ASSUME ConstantsAssumption ==
  /\ Readers \cap Writers = {}
  /\ KeyOf \in [Readers -> Keys]
  /\ Nested \in [Readers -> Readers \cup {None}]
  /\ Intents \in [Writers -> SUBSET Keys]
  /\ None \notin Readers
  /\ None \notin Int

VARIABLES db,      \* version of the collection
          cache,   \* cache[k]: version of entry k, or None
          reader,  \* reader[r]: how far a query is
          value,   \* value[r]: version of the result a query holds, or None
          ticket,  \* ticket[r]: "none", or registered and "valid" or "revoked"
          tail,    \* tail[k]: the unsettled jobs chained on k, oldest first
          writer,  \* writer[w]: how far a write is
          since,   \* since[w]: version at the moment w revoked its tickets
          left     \* left[w]: keys w has still to delete

vars == <<db, cache, reader, value, ticket, tail, writer, since, left>>
queryVars == <<reader, value, ticket>>
writeVars == <<writer, since, left>>

ReaderPhases == {"idle", "lookup", "fetch", "nested", "fetched", "queued",
                 "storing", "done", "failed"}
WriterPhases == {"idle", "written", "waiting", "deleting", "done", "failed"}

Init == /\ db = 0
        /\ cache = [k \in Keys |-> None]
        /\ reader = [r \in Readers |-> "idle"]
        /\ value = [r \in Readers |-> None]
        /\ ticket = [r \in Readers |-> "none"]
        /\ tail = [k \in Keys |-> <<>>]
        /\ writer = [w \in Writers |-> "idle"]
        /\ since = [w \in Writers |-> 0]
        /\ left = [w \in Writers |-> {}]

-----------------------------------------------------------------------------
(* Queries: readThroughCache under withCacheReads.                         *)

Holder(r) == {p \in Readers : Nested[p] = r}

\* ticketFor(key), then cache.get(key) is on its way.  A nested query is
\* started by the query that needs it.
Begin(r) ==
  /\ reader[r] = "idle"
  /\ \A p \in Holder(r) : reader[p] = "nested"
  /\ reader' = [reader EXCEPT ![r] = "lookup"]
  /\ ticket' = [ticket EXCEPT ![r] = "valid"]
  /\ UNCHANGED <<db, cache, value, tail, writeVars>>

\* The answer of a query, and the `finally` that forgets its ticket.
Answer(r, v, outcome) ==
  /\ reader' = [reader EXCEPT ![r] = outcome]
  /\ value' = [value EXCEPT ![r] = v]
  /\ ticket' = [ticket EXCEPT ![r] = "none"]

Hit(r) ==
  /\ reader[r] = "lookup" /\ cache[KeyOf[r]] # None
  /\ Answer(r, cache[KeyOf[r]], "done")
  /\ UNCHANGED <<db, cache, tail, writeVars>>

Miss(r) ==
  /\ reader[r] = "lookup" /\ cache[KeyOf[r]] = None
  /\ reader' = [reader EXCEPT ![r] = "fetch"]
  /\ UNCHANGED <<db, cache, value, ticket, tail, writeVars>>

\* The database answers from its current content.
Fetch(r) ==
  /\ reader[r] = "fetch"
  /\ value' = [value EXCEPT ![r] = db]
  /\ reader' = [reader EXCEPT ![r] = IF Nested[r] = None THEN "fetched" ELSE "nested"]
  /\ UNCHANGED <<db, cache, ticket, tail, writeVars>>

Oldest(a, b) == IF a < b THEN a ELSE b

\* findPage takes the totals in: its result is as old as its oldest part.
TakeNested(r) ==
  /\ reader[r] = "nested" /\ reader[Nested[r]] = "done"
  /\ value' = [value EXCEPT ![r] = Oldest(@, value[Nested[r]])]
  /\ reader' = [reader EXCEPT ![r] = "fetched"]
  /\ UNCHANGED <<db, cache, ticket, tail, writeVars>>

\* Mutated form of FetchFails: a page does not hear that its totals failed.
FetchFailsAlone(r) ==
  /\ reader[r] = "fetch"
  /\ Answer(r, None, "failed")
  /\ UNCHANGED <<db, cache, tail, writeVars>>

\* The fetch throws, or what it awaits does.
FetchFails(r) ==
  /\ \/ reader[r] = "fetch"
     \/ reader[r] = "nested" /\ reader[Nested[r]] = "failed"
  /\ Answer(r, None, "failed")
  /\ UNCHANGED <<db, cache, tail, writeVars>>

\* guarded.set: chain the fill on the key's tail.
Chain(r) ==
  /\ reader[r] = "fetched"
  /\ tail' = [tail EXCEPT ![KeyOf[r]] = Append(@, r)]
  /\ reader' = [reader EXCEPT ![r] = "queued"]
  /\ UNCHANGED <<db, cache, value, ticket, writeVars>>

AtHead(job, k) == tail[k] # <<>> /\ Head(tail[k]) = job

Settle(k) == tail' = [tail EXCEPT ![k] = Tail(@)]

\* The fill's turn: `if (!ticket.valid) return false`.
SkipFill(r) ==
  /\ reader[r] = "queued" /\ AtHead(r, KeyOf[r])
  /\ ticket[r] = "revoked"
  /\ Answer(r, value[r], "done")
  /\ Settle(KeyOf[r])
  /\ UNCHANGED <<db, cache, writeVars>>

\* Mutated form of SendFill: the ticket is not looked at again.
SendFillUnchecked(r) ==
  /\ reader[r] = "queued" /\ AtHead(r, KeyOf[r])
  /\ reader' = [reader EXCEPT ![r] = "storing"]
  /\ UNCHANGED <<db, cache, value, ticket, tail, writeVars>>

\* ... else cache.set is sent; it takes effect later.
SendFill(r) ==
  /\ reader[r] = "queued" /\ AtHead(r, KeyOf[r])
  /\ ticket[r] = "valid"
  /\ reader' = [reader EXCEPT ![r] = "storing"]
  /\ UNCHANGED <<db, cache, value, ticket, tail, writeVars>>

Stored(r) ==
  /\ reader[r] = "storing"
  /\ cache' = [cache EXCEPT ![KeyOf[r]] = value[r]]
  /\ Answer(r, value[r], "done")
  /\ Settle(KeyOf[r])
  /\ UNCHANGED <<db, writeVars>>

\* cache.set rejects; the tail goes on (`.catch(() => undefined)`).
StoreFails(r) ==
  /\ reader[r] = "storing"
  /\ Answer(r, None, "failed")
  /\ Settle(KeyOf[r])
  /\ UNCHANGED <<db, cache, writeVars>>

-----------------------------------------------------------------------------
(* Writes and their invalidation: coordinateInvalidation.                  *)

Write(w) ==
  /\ writer[w] = "idle"
  /\ db' = db + 1
  /\ writer' = [writer EXCEPT ![w] = "written"]
  /\ UNCHANGED <<cache, queryVars, tail, since, left>>

\* tails.keys() that match an intent: only keys with a chain are held.
Reserved(w) == {k \in Intents[w] : tail[k] # <<>>}

\* Mutated form of Revoke: no tickets are revoked.
RevokeNothing(w) ==
  /\ writer[w] = "written"
  /\ tail' = [k \in Keys |-> IF k \in Reserved(w) THEN Append(tail[k], w) ELSE tail[k]]
  /\ writer' = [writer EXCEPT ![w] = "waiting"]
  /\ since' = [since EXCEPT ![w] = db]
  /\ left' = [left EXCEPT ![w] = Intents[w]]
  /\ UNCHANGED <<db, cache, queryVars>>

\* The part of coordinateInvalidation before its first await.
Revoke(w) ==
  /\ writer[w] = "written"
  /\ ticket' = [r \in Readers |-> IF ticket[r] = "valid" /\ KeyOf[r] \in Intents[w]
                                  THEN "revoked" ELSE ticket[r]]
  /\ tail' = [k \in Keys |-> IF k \in Reserved(w) THEN Append(tail[k], w) ELSE tail[k]]
  /\ writer' = [writer EXCEPT ![w] = "waiting"]
  /\ since' = [since EXCEPT ![w] = db]
  /\ left' = [left EXCEPT ![w] = Intents[w]]
  /\ UNCHANGED <<db, cache, reader, value>>

Held(w) == {k \in Keys : w \in Range(tail[k])}

\* Promise.allSettled(previous): every job chained before a hold is settled.
Drained(w) ==
  /\ writer[w] = "waiting"
  /\ \A k \in Held(w) : AtHead(w, k)
  /\ writer' = [writer EXCEPT ![w] = "deleting"]
  /\ UNCHANGED <<db, cache, queryVars, tail, since, left>>

Delete(w, k) ==
  /\ writer[w] = "deleting" /\ k \in left[w]
  /\ cache' = [cache EXCEPT ![k] = None]
  /\ left' = [left EXCEPT ![w] = @ \ {k}]
  /\ UNCHANGED <<db, queryVars, tail, writer, since>>

LetGo(w, outcome) ==
  /\ tail' = [k \in Keys |-> IF AtHead(w, k) THEN Tail(tail[k]) ELSE tail[k]]
  /\ writer' = [writer EXCEPT ![w] = outcome]
  /\ UNCHANGED <<db, cache, queryVars, since, left>>

\* finish(), after the last deletion or after one that threw.
Finish(w) == writer[w] = "deleting" /\ left[w] = {} /\ LetGo(w, "done")

DeleteFails(w) == writer[w] = "deleting" /\ left[w] # {} /\ LetGo(w, "failed")

\* An entry's ttl runs out.
Expire(k) ==
  /\ cache[k] # None
  /\ cache' = [cache EXCEPT ![k] = None]
  /\ UNCHANGED <<db, queryVars, tail, writeVars>>

-----------------------------------------------------------------------------
ReaderNext(r) ==
  \/ Begin(r) \/ Hit(r) \/ Miss(r) \/ Fetch(r) \/ TakeNested(r) \/ FetchFails(r)
  \/ Chain(r) \/ SkipFill(r) \/ SendFill(r) \/ Stored(r) \/ StoreFails(r)

WriterNext(w) ==
  \/ Write(w) \/ Revoke(w) \/ Drained(w) \/ Finish(w) \/ DeleteFails(w)
  \/ \E k \in Keys : Delete(w, k)

Next == \/ \E r \in Readers : ReaderNext(r)
        \/ \E w \in Writers : WriterNext(w)
        \/ \E k \in Keys : Expire(k)

Spec == Init /\ [][Next]_vars

\* Promises continue and the cache and the database answer, with a result or
\* an error; nobody has to start a query or a write.
QueryStep(r) == \/ Hit(r) \/ Miss(r) \/ Fetch(r) \/ TakeNested(r) \/ FetchFails(r) \/ Chain(r)
                \/ SkipFill(r) \/ SendFill(r) \/ Stored(r) \/ StoreFails(r)
NestedBegins(r) == Begin(r) /\ Holder(r) # {}
WriteStep(w) == \/ Revoke(w) \/ Drained(w) \/ Finish(w) \/ DeleteFails(w)
                \/ \E k \in Keys : Delete(w, k)

Fairness ==
  /\ \A r \in Readers : WF_vars(QueryStep(r)) /\ WF_vars(NestedBegins(r))
  /\ \A w \in Writers : WF_vars(WriteStep(w))

FairSpec == Spec /\ Fairness

-----------------------------------------------------------------------------
Version == Nat \cup {None}

\* Types, and: a ticket is registered exactly while its query is open.
TypeOK ==
  /\ db \in Nat
  /\ cache \in [Keys -> Version]
  /\ reader \in [Readers -> ReaderPhases]
  /\ value \in [Readers -> Version]
  /\ ticket \in [Readers -> {"none", "valid", "revoked"}]
  /\ \A r \in Readers : ticket[r] = "none" <=> reader[r] \in {"idle", "done", "failed"}
  /\ tail \in [Keys -> Seq(Readers \cup Writers)]
  /\ writer \in [Writers -> WriterPhases]
  /\ since \in [Writers -> Nat]
  /\ left \in [Writers -> SUBSET Keys]

\* "Within a process, invalidation revokes pending fills": once a write's
\* invalidation has completed, no entry it matched shows an older version, then
\* or ever after, however late a query fills it.
FreshIn(K) ==
  \A w \in Writers, k \in K :
    writer[w] = "done" /\ k \in Intents[w] /\ cache[k] # None => cache[k] >= since[w]

NoStaleEntry == FreshIn(Keys)

\* The keys of queries that take in no other query's result.
PlainKeys == {k \in Keys : \A r \in Readers : KeyOf[r] = k => Nested[r] = None}

\* While a write deletes, no fill of a plain key it has matched can be on its way
\* with an older version: nothing dispatched may land behind the deletion.
NoStaleInFlight ==
  \A w \in Writers, r \in Readers :
    /\ writer[w] \in {"deleting", "done", "failed"}
    /\ KeyOf[r] \in Intents[w] \cap PlainKeys
    /\ reader[r] = "storing"
    => value[r] >= since[w]

\* Nothing from before a write is in the cache, or on its way into it, under the
\* key of a query that is computed from the database alone.
NothingStale == FreshIn(PlainKeys) /\ NoStaleInFlight

\* Again and again no query and no write is under way: two invalidations that
\* overlap on several keys never wait for each other, and no query is left behind
\* a hold.
EveryCallAnswered ==
  []<>(/\ \A w \in Writers : writer[w] \in {"idle", "done", "failed"}
       /\ \A r \in Readers : reader[r] \in {"idle", "done", "failed"})

\* The version below which a plain entry k may not fall, and the promise kept.
Acknowledged(k) == {since[w] : w \in {x \in Writers : writer[x] = "done" /\ k \in Intents[x]}}

Floor == [k \in PlainKeys |->
            IF Acknowledged(k) = {} THEN 0
            ELSE CHOOSE v \in Acknowledged(k) : \A u \in Acknowledged(k) : u <= v]

Contract == INSTANCE CacheContract WITH
  Keys <- PlainKeys, cache <- Restrict(cache, PlainKeys), floor <- Floor

ImplementsContract == Contract!Spec
=============================================================================
