--------------------------- MODULE MCCachedReads ---------------------------
(* What reads find in the cache and what they ask the database, each part   *)
(* on its own: late fills against invalidations, which entries a write      *)
(* removes, the pages of a walk, and what a program hands over:             *)
(* expressions, functions, and filters with options.  The initial state     *)
(* chooses the part that moves, and the others stay where they start.       *)
EXTENDS CacheCoordination, QueryCaching, PageWalk, Expressions, FunctionSources,
        ReadKeys

VARIABLE part

CONSTANTS Parts,                                          \* those that a run looks at
          r1, r2, r3, w1, w2, k1, k2,                  \* queries, writes and keys
          east, eastToo, other, custom, hostA, hostB,  \* routes to databases
          q1

\* r1 is the page, on k1; r2 and r3 ask for the totals, on k2, r3 for the page.
PageKeyOf == [r \in Readers |-> IF r = r1 THEN k1 ELSE k2]
PageNested == [r \in Readers |-> IF r = r1 THEN r3 ELSE None]
BothKeys == [w \in Writers |-> Keys]
Alike == Permutations(Writers)

\* Two pools of one server, one of another, and a client whose hosts are not told.
Sources4 == east :> hostA @@ eastToo :> hostA @@ other :> hostB @@ custom :> Unknown
Servers4 == east :> hostA @@ eastToo :> hostA @@ other :> hostB @@ custom :> hostA

Descriptor(op, query) == [op |-> op, query |-> query, malformed |-> FALSE]
Malformed == [op |-> "count", query |-> q1, malformed |-> TRUE]
List(entries) == [kind |-> "list", list |-> entries]
FewControls ==
  {[kind |-> k, list |-> {}] : k \in {"silent", "off", "auto", "all"}}
  \cup {List({Descriptor("findPage", NoQuery)}), List({Descriptor("findPage", q1)}),
        List({Descriptor("aggregate", q1)}), List({Descriptor("findByIds", q1), Malformed}),
        List({Descriptor("count", q1), Descriptor("find", NoQuery)})}

From(r, via) == [route |-> r, coll |-> "users", via |-> via]
FewSources == {From(east, "raw"), From(east, "model"), From(east, "unclear"), From(custom, "raw")}

\* The two directions differ; that every walk is exact, whatever they are, is proved.
MixedSort == {[f |-> -1, id |-> 1]}

\* Filters: identifiers as values, in lists, under operators and deeper, in fields that a
\* setting excludes, with undefined fields, and objects with a converter.
Field(name, x) == Document(<< <<name, x>> >>)
One == Number(1)
Around(x) == {Field("a", x), Field("a", Items(<<x, Text>>)), Field("a", Field("b", x)),
              Field("a", Field("$in", Items(<<x, Text>>))), Field("a", Field("$ne", x)),
              Field("a", Field("$elemMatch", Field("b", x))), Field("$or", Items(<<Field("a", x)>>)),
              Field("code", x), Field("code", Field("$in", Items(<<x>>))), Field("code", Field("b", x))}
Filters == Around(Hex(1)) \cup
  {Undefined, Everything, Field("a", ObjectId(1)), Field("a", Undefined), Field("a", NullValue),
   Document(<< <<"a", One>>, <<"b", Undefined>> >>), Document(<< <<"b", Undefined>>, <<"a", One>> >>),
   Field("$expr", Field("$in", Items(<<Hex(1), Hex(2)>>))), Field("a", Field("$not", Field("$eq", Hex(1)))),
   Field("a", Converter(Hex(1))), Field("a", Converter(Converter(Field("b", One)))), Field("id", Hex(1)),
   Field("a", Items(<<Items(<<Hex(1)>>)>>)), Field("a", Field("b", Field("c", Hex(1))))}

Setting(enabled, excluded, maxDepth) ==
  [enabled |-> enabled, excluded |-> excluded, maxDepth |-> maxDepth, identifiers |-> {"id"}]
Off == Setting(FALSE, {}, 10)
Settings == {Off, Setting(TRUE, {}, 10), Setting(TRUE, {<<"code">>}, 10),
             Setting(TRUE, {<<"a", "b">>}, 10), Setting(TRUE, {}, 1)}

\* Options: each that decides a result, in both orders of two fields.
Cached == "cache" :> Number(9)
BothOrders == {Document(<< <<"a", One>>, <<"b", One>> >>), Document(<< <<"b", One>>, <<"a", One>> >>)}
OptionSets ==
  {n :> v @@ Cached : n \in {"sort", "hint", "projection", "project", "collation"}, v \in BothOrders}
  \cup {n :> v @@ Cached : n \in {"limit", "skip"}, v \in {One, Undefined}}
  \cup {n :> v @@ Cached : n \in {"ignoreUndefined", "raw"}, v \in {True, NullValue}}
  \cup {"projection" :> Items(names) @@ Cached : names \in {<<>>, <<Name("a"), Name("b")>>}}
  \cup {<< >>, "cache" :> Number(0), "limit" :> Number(9) @@ Cached, "skip" :> Number(9) @@ Cached, "session" :> Text @@ Cached,
         "readConcern" :> Field("level", Text) @@ Cached, "comment" :> Text @@ Cached,
         "ignoreUndefined" :> True @@ "limit" :> One @@ Cached}
IdLists == {Items(<<Hex(1)>>), Items(<<ObjectId(1)>>), Items(<<Text>>), Items(<<Hex(2), Hex(1), ObjectId(2)>>)}

Handing(filters, options, settings) ==
  {[filter |-> f, options |-> o, conversion |-> s] : f \in filters, o \in options, s \in settings}
FewPrograms == Handing(Filters, {Cached}, Settings)
               \cup Handing({Everything, Field("a", Undefined)}, OptionSets, {Off})
               \cup Handing(IdLists, {Cached, "projection" :> Items(<<Name("a")>>) @@ Cached}, {Off})

-----------------------------------------------------------------------------
\* What is proved is about every state: a part that does not move stays in one of its
\* initial states.
ReadsInit ==
  /\ part \in Parts
  /\ Init
  /\ CachingInit /\ (part = "caching" \/ ~automatic)
  /\ PageInit
  /\ part = "pages" \/ ((\A i \in Ids : docs[i] = Null) /\ limit = 1)
  /\ ExpressionInit /\ (part = "expressions" \/ binders = Uses({}, {}))
  /\ FunctionInit /\ (part = "functions" \/ written = << >>)
  /\ ReadInit /\ (part = "reads" \/ (given = [filter |-> Everything, options |-> << >>] /\ conversion = Off))

Others(p) ==
  /\ IF p = "coordination" THEN TRUE ELSE UNCHANGED vars
  /\ IF p = "caching" THEN TRUE ELSE UNCHANGED cachingVars
  /\ IF p = "pages" THEN TRUE ELSE UNCHANGED pageVars
  /\ IF p = "expressions" THEN TRUE ELSE UNCHANGED expressionVars
  /\ IF p = "functions" THEN TRUE ELSE UNCHANGED functionVars
  /\ IF p = "reads" THEN TRUE ELSE UNCHANGED readVars

ReadsNext ==
  /\ \/ part = "coordination" /\ Next
     \/ part = "caching" /\ CachingNext
     \/ part = "pages" /\ PageNext
     \/ part = "expressions" /\ ExpressionNext
     \/ part = "functions" /\ FunctionNext
     \/ part = "reads" /\ ReadNext
  /\ Others(part) /\ UNCHANGED part

ReadsSpec ==
  ReadsInit /\ [][ReadsNext]_<<part, vars, cachingVars, pageVars, expressionVars, functionVars, readVars>>

-----------------------------------------------------------------------------
(* What a program hands over is taken for what it says: an expression      *)
(* keeps its meaning, a function that depends on its surroundings is told  *)
(* from others of its source, an extension is registered once, and once it *)
(* is remembered it is there (compileScopedExpression,                     *)
(* isClosureSensitiveFunctionSource, registerRuntimeExtensions); a read is *)
(* keyed and answered by what it asks, as it was when the library took it  *)
(* (documentReadKey, executeResult).  Looked at while its part moves.      *)
TextsUnderstood ==
  /\ part = "expressions" => ExpressionsKeepMeaning
  /\ part = "functions" => ClosuresAreSeen /\ RegisteredIsKept
  /\ part = "reads" => ReadsAreTheirOwn
=============================================================================
