---------------------------- MODULE QueryCaching ----------------------------
(* Which cached query results a write has removed: the keys the reads fill  *)
(* on every route to a database, the intents a write resolves its cache     *)
(* options to, and whether a write invalidates at all.  Resolved touch each  *)
(* entry on its own, so one entry at a time stands for any number.  A read, *)
(* and a write with its invalidation, are single steps here: how they       *)
(* overlap is the matter of CacheCoordination.                              *)
EXTENDS FiniteSets

CONSTANTS Routes,      \* ways to a database: the client and pool of a runtime on one cache
          SourceOf,    \* SourceOf[r]: the hosts the driver's options name, or Unknown
          ServerOf,    \* ServerOf[r]: the server they lead to
          Unknown,
          Collections,
          Queries,     \* what a read asks, with the options its key is made of
          NoQuery,
          Controls,    \* the cache options of writes
          Sources      \* bound: where writes come from, [route, coll, via]

ASSUME RoutesAreKnown ==
  \A r, s \in Routes : SourceOf[r] = SourceOf[s] /\ SourceOf[r] # Unknown => ServerOf[r] = ServerOf[s]

\* What a write may ask of the cache: nothing, no invalidation, one of everything, or of
\* what descriptors name.
Descriptors == [op : STRING, query : Queries \cup {NoQuery}, malformed : BOOLEAN]

ASSUME WritesAreKnown ==
  /\ NoQuery \notin Queries
  /\ Sources \subseteq [route : Routes, coll : Collections, via : {"raw", "model", "unclear"}]
  /\ Controls \subseteq [kind : {"silent", "off", "auto", "all", "list"}, list : SUBSET Descriptors]

Operations == {"find", "findOne", "count", "findOneById", "findByIds", "findPage", "aggregate", "distinct"}
Families == Operations \cup {"findPageTotals", "bookmark"}

\* A key of its own for what a soft-delete Model reads by the same descriptor.
Shapes(f) == IF f \in {"findByIds", "findPage", "aggregate"} THEN {"raw", "model"} ELSE {"raw"}

\* Prefetched pages and totals are told apart by the query alone.
Entries == UNION {[route : Routes, coll : Collections, family : {f}, query : Queries, shape : Shapes(f)] :
                    f \in Families}

VARIABLES
  registered,  \* the routes that have made a scope on the cache
  automatic,   \* whether the runtime has cache.autoInvalidate
  cached,      \* the results in the cache: at most one
  tx,          \* the managed transaction, the intents it has recorded and, for the history, what asked for them
  missed,      \* history: what the last invalidation should have removed and did not
  overreached, \* history: what it removed of other collections or other servers
  leaked       \* history: results read inside the transaction that got into the cache

cachingVars == <<registered, automatic, cached, tx, missed, overreached, leaked>>

NoTx == [state |-> "none", intents |-> {}, asked |-> {}]

CachingInit ==
  /\ registered = {} /\ automatic \in BOOLEAN /\ cached = {} /\ tx = NoTx
  /\ missed = {} /\ overreached = {} /\ leaked = {}

\* A runtime or a pool makes the defaults of its accessors.  None does while a
\* transaction is open, a bound: its intents would miss the new route.
Register(r) ==
  /\ r \notin registered /\ tx.state = "none"
  /\ registered' = registered \cup {r}
  /\ UNCHANGED <<automatic, cached, tx, missed, overreached, leaked>>

\* The scopes invalidated together with r's own.
Linked(r) ==
  IF SourceOf[r] = Unknown THEN registered
  ELSE {s \in registered : SourceOf[s] \in {SourceOf[r], Unknown}}

-----------------------------------------------------------------------------
(* Reads.                                                                   *)

\* What a read is like: within a session, explained, streamed, of BSON options that no
\* key can hold, put in the order of its ids by fields it does not project, or a
\* pipeline that writes.  Whatever its ttl, some reads are never stored.
Ways == [session : BOOLEAN, explain : BOOLEAN, stream : BOOLEAN, unstable : BOOLEAN,
         reordered : BOOLEAN, writes : BOOLEAN]
Storable(way) == ~way.session /\ ~way.unstable

FindStored(way) == Storable(way) /\ ~way.explain
FindOneStored(way) == Storable(way) /\ ~way.explain
CountStored(way) == Storable(way) /\ ~way.explain
ByIdStored(way) == Storable(way)                     \* explain is not looked at
ByIdsStored(way) == Storable(way) /\ ~way.reordered
DistinctStored(way) == Storable(way)
AggregateStored(way) == Storable(way) /\ ~way.explain /\ ~way.stream /\ ~way.writes
PageStored(way) == Storable(way) /\ ~way.explain /\ ~way.stream
TotalsStored(way) == ~way.session /\ ~way.stream      \* with a ttl of their own
BookmarkStored(way) == ~way.session                  \* by prewarmBookmarks alone

KeepsIn(f, way) ==
  CASE f = "find" -> FindStored(way)
    [] f = "findOne" -> FindOneStored(way)
    [] f = "count" -> CountStored(way)
    [] f = "findOneById" -> ByIdStored(way)
    [] f = "findByIds" -> ByIdsStored(way)
    [] f = "distinct" -> DistinctStored(way)
    [] f = "aggregate" -> AggregateStored(way)
    [] f = "findPage" -> PageStored(way)
    [] f = "findPageTotals" -> TotalsStored(way)
    [] f = "bookmark" -> BookmarkStored(way)

\* The families a read can store, and whether within a session.
StoredReads == {<<x[1], x[2].session>> : x \in {y \in Families \X Ways : KeepsIn(y[1], y[2])}}

Read(e, session) ==
  /\ e.route \in registered
  /\ cached = {}
  /\ <<e.family, session>> \in StoredReads
  /\ session => tx.state = "open"
  /\ cached' = {e}
  /\ leaked' = IF session THEN {e} ELSE {}
  /\ UNCHANGED <<registered, automatic, tx, missed, overreached>>

EntryExpires ==
  /\ cached # {} /\ cached' = {}
  /\ UNCHANGED <<registered, automatic, tx, missed, overreached, leaked>>

-----------------------------------------------------------------------------
(* From cache options to intents.                                           *)

\* An intent: the keys of these families and shapes on the linked scopes, with
\* one query or with any.
FamiliesOf(op) ==
  CASE op = "findPage" -> {"findPage", "findPageTotals", "bookmark"}
    [] op \in Operations \ {"findPage"} -> {op}
    [] OTHER -> Families

Pattern(w, op) ==
  [routes |-> Linked(w.route), coll |-> w.coll, families |-> FamiliesOf(op),
   queries |-> Queries, shapes |-> {"raw", "model"}]
Key(w, op, q, shapes) ==
  [routes |-> Linked(w.route), coll |-> w.coll, families |-> {op}, queries |-> {q}, shapes |-> shapes]

Resolved(w, d) ==
  IF d.malformed THEN {}
  ELSE IF d.query = NoQuery \/ d.op \notin Operations THEN {Pattern(w, d.op)}
  ELSE CASE d.op = "findByIds" -> {Key(w, d.op, d.query, {"raw", "model"})}
         [] d.op \in {"findPage", "aggregate"} ->
              IF w.via = "raw" THEN {Key(w, d.op, d.query, {"raw"})}
              ELSE IF w.via = "model" THEN {Key(w, d.op, d.query, {"raw"}), Key(w, d.op, d.query, {"model"})}
              ELSE {Pattern(w, d.op)}                 \* a Model whose visibility is unknown
         [] OTHER -> {Key(w, d.op, d.query, {"raw"})}

WriteIntents(w, c) ==
  CASE c.kind = "off" -> {}
    [] c.kind = "all" -> {Pattern(w, "all")}
    [] c.kind = "list" -> UNION {Resolved(w, d) : d \in c.list}
    [] OTHER -> IF c.kind = "auto" \/ automatic THEN {Pattern(w, "all")} ELSE {}

Touches(i, e) ==
  /\ e.route \in i.routes /\ e.coll = i.coll /\ e.family \in i.families
  /\ e.query \in i.queries /\ e.shape \in i.shapes

\* apply() or commit(): what the intents touch goes.
Removed(intents) == {e \in cached : \E i \in intents : Touches(i, e)}

-----------------------------------------------------------------------------
(* Whether a write invalidates: its effect on the collection, and whether   *)
(* the answer arrived.                                                      *)

WriteOps == {"insertOne", "insertMany", "updateOne", "updateMany", "replaceOne", "findOneAndReplace",
             "findOneAndUpdate", "findOneAndDelete", "upsertOne", "deleteOne", "deleteMany",
             "incrementOne", "aggregateOut"}
Effects == {"none", "matched", "changed", "created"}
Changes(effect) == effect \in {"changed", "created"}

\* Effects an operation can have.
Possible(op, effect, upsert, ok) ==
  CASE op \in {"insertOne", "insertMany"} -> ~upsert /\ effect \in (IF ok THEN {"created"} ELSE {"none", "created"})
    [] op \in {"findOneAndDelete", "deleteOne", "deleteMany"} -> ~upsert /\ effect \in {"none", "changed"}
    [] op = "aggregateOut" -> ~upsert /\ effect \in {"none", "changed"}
    [] op = "upsertOne" -> upsert /\ (ok => effect # "none")
    [] OTHER -> IF upsert THEN ok => effect # "none" ELSE effect # "created"

\* Mutated form: a lookup that found nothing counts as no change.
ByCountsOnly(op, effect, upsert, ok) ==
  CASE op \in {"updateOne", "deleteOne", "deleteMany", "findOneAndDelete"} -> ok /\ Changes(effect)
    [] op = "incrementOne" -> ok /\ effect # "none"
    [] op = "updateMany" -> ~ok \/ Changes(effect)
    [] op \in {"findOneAndReplace", "findOneAndUpdate"} -> ok /\ effect \in {"matched", "changed"}
    [] op = "insertMany" -> TRUE
    [] OTHER -> ok

\* updateOne and its like go by the counts of the answer; findOneAnd* see only the
\* document, and insertMany and updateMany invalidate after an error as well.
ByCounts(op, effect, upsert, ok) ==
  CASE op \in {"updateOne", "deleteOne", "deleteMany", "findOneAndDelete"} -> ok /\ Changes(effect)
    [] op = "incrementOne" -> ok /\ effect # "none"
    [] op = "updateMany" -> ~ok \/ Changes(effect)
    [] op \in {"findOneAndReplace", "findOneAndUpdate"} -> ok /\ (effect \in {"matched", "changed"} \/ upsert)
    [] op = "insertMany" -> TRUE
    [] OTHER -> ok

\* A write of several documents that fails half-way is accounted for; a lost answer
\* of any other write is not, nor a failed deleteMany or aggregate.
Excused(op, ok) == ~ok /\ op \notin {"insertMany", "updateMany"}

\* How a write can turn out, as far as the cache is concerned.
Outcomes ==
  {[invalidates |-> ByCounts(x[1], x[2], x[3], x[4]),
    owes |-> Changes(x[2]) /\ ~Excused(x[1], x[4])] :
     x \in {y \in WriteOps \X Effects \X BOOLEAN \X BOOLEAN : Possible(y[1], y[2], y[3], y[4])}}

-----------------------------------------------------------------------------
(* What the documentation promises: which results a write may not leave.    *)

Asks(d, w, e) ==
  /\ ~d.malformed
  /\ IF d.op \notin Operations THEN TRUE
     ELSE IF d.query = NoQuery THEN
       e.family = d.op \/ (d.op = "findPage" /\ e.family \in {"findPageTotals", "bookmark"})
     ELSE e.family = d.op /\ e.query = d.query
          /\ (e.shape = "raw" \/ w.via # "raw" \/ d.op = "findByIds")

Wished(w, c, e) ==
  /\ e.coll = w.coll
  /\ ServerOf[e.route] = ServerOf[w.route]
  /\ SourceOf[e.route] = Unknown \/ SourceOf[w.route] = Unknown \/ SourceOf[e.route] = SourceOf[w.route]
  /\ CASE c.kind = "silent" -> automatic
       [] c.kind = "off" -> FALSE
       [] c.kind = "list" -> \E d \in c.list : Asks(d, w, e)
       [] OTHER -> TRUE

\* An invalidation may go beyond its own server only where one of the two is unknown.
Foreign(w, e) ==
  \/ e.coll # w.coll
  \/ SourceOf[e.route] # Unknown /\ SourceOf[w.route] # Unknown /\ SourceOf[e.route] # SourceOf[w.route]

-----------------------------------------------------------------------------
(* Writes outside and inside a managed transaction.                         *)

\* While a transaction is open nothing else writes: a bound.
CachedWrite(w, c, outcome) ==
  /\ w.route \in registered /\ tx.state # "open" /\ cached # {}
  /\ LET gone == IF outcome.invalidates THEN Removed(WriteIntents(w, c)) ELSE {}
     IN /\ cached' = cached \ gone
        /\ overreached' = {e \in gone : Foreign(w, e)}
        /\ missed' = {e \in cached \ gone : outcome.owes /\ Wished(w, c, e)}
  /\ UNCHANGED <<registered, automatic, tx, leaked>>

\* Its intents wait for the commit, with the scopes that are linked now.
TxWrite(w, c) ==
  /\ w.route \in registered /\ tx.state = "none"
  /\ tx' = [state |-> "open", intents |-> WriteIntents(w, c),
            asked |-> {<<w, c>>}]
  /\ UNCHANGED <<registered, automatic, cached, missed, overreached, leaked>>

TxCommit ==
  /\ tx.state = "open"
  /\ cached' = cached \ Removed(tx.intents)
  /\ missed' = {e \in cached' : \E a \in tx.asked : Wished(a[1], a[2], e)}
  /\ tx' = NoTx
  /\ UNCHANGED <<registered, automatic, overreached, leaked>>

TxAbort ==
  /\ tx.state = "open" /\ tx' = NoTx
  /\ UNCHANGED <<registered, automatic, cached, missed, overreached, leaked>>

\* accessor.invalidate(op), and clearBookmarks(): this route's bookmarks alone.
Invalidate(w, op) ==
  /\ w.route \in registered
  /\ cached' = cached \ Removed({Pattern(w, op)})
  /\ overreached' = {e \in cached \ cached' : Foreign(w, e)}
  /\ missed' = {e \in cached' : Wished(w, [kind |-> "list", list |-> {[op |-> op, query |-> NoQuery, malformed |-> FALSE]}], e)}
  /\ UNCHANGED <<registered, automatic, tx, leaked>>

ClearBookmarks(w) ==
  /\ cached' = {e \in cached : ~(e.route = w.route /\ e.coll = w.coll /\ e.family = "bookmark")}
  /\ UNCHANGED <<registered, automatic, tx, missed, overreached, leaked>>

CachingNext ==
  \/ \E r \in Routes : Register(r)
  \/ \E e \in Entries, session \in BOOLEAN : Read(e, session)
  \/ EntryExpires
  \/ \E w \in Sources, c \in Controls :
       \/ \E outcome \in Outcomes : CachedWrite(w, c, outcome)
       \/ TxWrite(w, c)
  \/ TxCommit \/ TxAbort
  \/ \E w \in {x \in Sources : x.via = "raw"} :
       ClearBookmarks(w) \/ \E op \in Operations \cup {"all"} : Invalidate(w, op)

CachingSpec == CachingInit /\ [][CachingNext]_cachingVars

-----------------------------------------------------------------------------
CachingTypeOK ==
  /\ registered \subseteq Routes /\ automatic \in BOOLEAN
  /\ cached \subseteq Entries /\ \A e \in cached : e.route \in registered
  /\ tx.state \in {"none", "open"}

(* A write that changed the collection, or the commit of a transaction that *)
(* did, leaves no result in the cache that its options ask to be removed -  *)
(* on any route to the same data, in the shape a Model reads as well -      *)
(* removes none of another collection or another known server, and nothing  *)
(* read inside a transaction is served outside of it.                       *)
InvalidationFollows == missed = {} /\ overreached = {} /\ leaked = {}

(* A write removes the results it has to, and no others.                    *)
RemovalsAreRight == CachingTypeOK /\ InvalidationFollows
=============================================================================
