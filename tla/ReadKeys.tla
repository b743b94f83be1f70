------------------------------- MODULE ReadKeys -------------------------------
(***************************************************************************)
(* What a read asks the database, and the key that its result is cached    *)
(* under.  A program hands over a filter and options, objects of its own   *)
(* that it may change while the read waits for the invalidation barrier.   *)
(* The library turns the hex strings of identifiers into ObjectIds, takes  *)
(* a copy, and builds the key and the command.  A chain of find() keeps    *)
(* what it was built with, and may be awaited again.                       *)
(*                                                                         *)
(* A filter is a tree of <<kind, content>> pairs; one string stands for    *)
(* all hex strings with its number.  A key is the text of such trees, and  *)
(* the text says the tree: it is modelled as the tree itself.  How BSON    *)
(* encodes a value, and which options decide a result, are external.  An   *)
(* object that contains itself is no tree, and is refused by the snapshot. *)
(***************************************************************************)
EXTENDS Integers, Sequences, FiniteSets, SequencesExt, TLC

CONSTANTS Programs,     \* a filter or a list of ids, options, and autoConvertObjectId
          FindLimit,    \* the defaults findLimit, findMaxLimit and findMaxSkip
          FindMaxLimit,
          FindMaxSkip

VARIABLES given,      \* the program's objects, as they are
          conversion, \* the setting of this runtime
          read,       \* the read under way, or the chain
          filled,     \* the entry that a read has stored: its key and what was asked
          handed      \* history: the objects as they were when the library took them

readVars == <<given, conversion, read, filled, handed>>

-----------------------------------------------------------------------------
(* Values.                                                                 *)

Hex(n) == <<"hex", n>>
ObjectId(n) == <<"id", n>>
Number(n) == <<"number", n>>
Text == <<"text", 0>>
True == <<"true", 0>>
False == <<"false", 0>>
NullValue == <<"null", 0>>
Undefined == <<"undefined", 0>>
Document(pairs) == <<"document", pairs>>        \* pairs of a key and a value, in order
Items(items) == <<"items", items>>
Converter(value) == <<"converter", value>>      \* an object whose toBSON returns the value
Name(n) == <<"name", n>>                        \* a text that names a field
Everything == Document(<<>>)

EachPair(t, F(_, _)) ==
  Document([i \in DOMAIN t[2] |-> <<t[2][i][1], F(t[2][i][1], t[2][i][2])>>])
EachItem(t, F(_)) == Items([i \in DOMAIN t[2] |-> F(t[2][i])])
IdOf(t) == IF t[1] = "hex" THEN ObjectId(t[2]) ELSE t
OrElse(t, default) == IF t \in {Undefined, NullValue} THEN default ELSE t

ListOperators == {"$in", "$nin", "$all"}
ScalarOperators == {"$eq", "$ne", "$gt", "$gte", "$lt", "$lte"}
Logical == {"$and", "$or", "$nor"}
SpecialOperators == {"$expr", "$function", "$where", "$accumulator"}
AllOperators == ListOperators \cup ScalarOperators \cup Logical \cup SpecialOperators
                \cup {"$elemMatch", "$not", "$match"}
HasOperators(t) == \E i \in DOMAIN t[2] : t[2][i][1] \in AllOperators

-----------------------------------------------------------------------------
(* Identifiers.  A setting has excluded fields, each a path, the deepest   *)
(* level, and the names it takes for identifiers.                          *)

\* Mutated form: an exclusion is looked for at the end of the path only.
ExcludesLast(path, s) == \E p \in s.excluded : p = path \/ p = <<path[Len(path)]>>

Excludes(path, s) == \E p \in s.excluded : p = path \/ \E i \in DOMAIN path : p = <<path[i]>>
MayConvert(path, depth, s) == s.enabled /\ depth <= s.maxDepth /\ ~Excludes(path, s)

\* The filter of a chain: operators are no part of a path.
RECURSIVE Normalized(_, _, _, _)
NormalizedItem(x, s, path, depth) ==
  IF x[1] = "hex" THEN (IF MayConvert(path, depth, s) THEN IdOf(x) ELSE x)
  ELSE IF x[1] = "document" THEN Normalized(x, s, path, depth + 1) ELSE x
NormalizedOperand(op, x, s, path, depth, allowed) ==
  IF allowed /\ op \in ListOperators /\ x[1] = "items" THEN EachItem(x, IdOf)
  ELSE IF allowed /\ op \in ScalarOperators THEN IdOf(x)
  ELSE IF op = "$elemMatch" /\ x[1] = "document" THEN Normalized(x, s, path, depth + 1) ELSE x
NormalizedValue(x, s, path, depth, allowed) ==
  CASE x[1] = "hex" /\ allowed -> IdOf(x)
    [] x[1] = "items" /\ allowed ->
       EachItem(x, LAMBDA y : NormalizedItem(y, s, path, depth + 1))
    [] x[1] = "document" ->
       IF HasOperators(x)
       THEN EachPair(x, LAMBDA op, y : NormalizedOperand(op, y, s, path, depth, allowed))
       ELSE Normalized(x, s, path, depth + 1)
    [] OTHER -> x
NormalizedPair(key, x, s, path, depth) ==
  IF key \in Logical
  THEN IF x[1] # "items" THEN x
       ELSE EachItem(x, LAMBDA y : IF y[1] = "document" THEN Normalized(y, s, path, depth + 1)
                                   ELSE y)
  ELSE NormalizedValue(x, s, Append(path, key), depth, MayConvert(Append(path, key), depth, s))
Normalized(t, s, path, depth) ==
  IF ~s.enabled \/ depth > s.maxDepth THEN t
  ELSE EachPair(t, LAMBDA key, x : NormalizedPair(key, x, s, path, depth))

\* The filter of the other reads, and the stages of a pipeline: any hex string at a path
\* that is not excluded, operators included; one named like an identifier a level deeper.
RECURSIVE Converted(_, _, _, _)
ConvertedPair(key, x, s, path, depth) ==
  IF key \in SpecialOperators THEN x
  ELSE IF x[1] = "hex" /\ key \in s.identifiers THEN (IF MayConvert(path, depth, s) THEN IdOf(x) ELSE x)
  ELSE Converted(x, s, path, depth + 1)
Converted(t, s, path, depth) ==
  CASE depth > s.maxDepth -> t
    [] t[1] = "hex" -> IF MayConvert(path, depth, s) THEN IdOf(t) ELSE t
    [] t[1] = "items" -> EachItem(t, LAMBDA x : Converted(x, s, path, depth + 1))
    [] t[1] = "document" ->
       EachPair(t, LAMBDA key, x : ConvertedPair(key, x, s, Append(path, key), depth))
    [] OTHER -> t

\* A copy that later changes do not reach, with what toBSON returns in place of its object.
RECURSIVE Snapshot(_)
Snapshot(t) ==
  CASE t[1] = "converter" -> Snapshot(t[2])
    [] t[1] = "document" -> EachPair(t, LAMBDA key, x : Snapshot(x))
    [] t[1] = "items" -> EachItem(t, Snapshot)
    [] OTHER -> t

-----------------------------------------------------------------------------
(* Options, a function of their names.                                     *)

Get(options, name) == IF name \in DOMAIN options THEN options[name] ELSE Undefined
Only(options, names) ==
  [n \in {m \in DOMAIN options \cap names : options[m] # Undefined} |-> options[n]]
Without(options, names) == [n \in DOMAIN options \ names |-> options[n]]

\* The options in the key of a result, and those that the driver is not told.
ResultFields == {"projection", "sort", "skip", "limit", "hint", "collation", "readConcern"}
ControlOptions == {"cache", "explain", "meta", "stream", "preserveOrder", "withDeleted"}
CountOptions == {"limit", "skip", "hint", "maxTimeMS", "collation", "comment", "session",
                 "readConcern", "ignoreUndefined", "raw"}
BsonFlags == {"ignoreUndefined", "raw"}

\* A list of names means one of each; an empty one means everything.
Shown(p) ==
  IF p[1] # "items" THEN p
  ELSE IF p[2] = <<>> THEN Undefined ELSE Document([i \in DOMAIN p[2] |-> <<p[2][i][2], Number(1)>>])
Projection(options) ==
  LET shown == Shown(OrElse(Get(options, "projection"), Get(options, "project")))
      rest == Without(options, {"projection", "project"})
  IN IF shown \in {Undefined, NullValue} THEN rest ELSE "projection" :> shown @@ rest

\* What decides a result is copied, and the flags of BSON are made explicit.
CopiedOptions(options) ==
  [n \in DOMAIN options \cup BsonFlags |->
     IF n \in BsonFlags THEN OrElse(Get(options, n), False) ELSE Snapshot(options[n])]

\* Options of a chain with the defaults of the runtime; one that asks for too much, or
\* passes over too much, is refused.
WithDefaults(options) == options @@ ("limit" :> Number(FindLimit))
Refuses(options) == Get(options, "limit")[2] > FindMaxLimit \/ Get(options, "skip")[2] > FindMaxSkip

ShapedReads == {"find", "findOne", "findOneById", "findByIds"}
PreparedOptions(op, options) == CopiedOptions(IF op \in ShapedReads THEN Projection(options) ELSE options)

\* Results in an unusual decoding are not cached, nor those of a session.
Cacheable(op, options) ==
  /\ Get(options, "cache")[2] > 0 /\ Get(options, "session") = Undefined
  /\ options["raw"] = False
  /\ op = "aggregate" => options["ignoreUndefined"] = False

-----------------------------------------------------------------------------
(* Keys.                                                                   *)

\* Mutated form: the fields of a sort may come in any order.
OrderedFieldsUnsorted == {"hint", "projection"}

OrderedFields == {"sort", "hint", "projection"}

\* The fields of an option come in any order, unless their order has a meaning.
RECURSIVE Unordered(_)
Unordered(t) ==
  IF t[1] # "document" THEN t
  ELSE <<"fields", {<<t[2][i][1], Unordered(t[2][i][2])>> :
                      i \in {j \in DOMAIN t[2] : t[2][j][2] # Undefined}}>>
KeyValue(name, value) == IF name \in OrderedFields THEN value ELSE Unordered(value)
KeyOptions(options) ==
  LET deciding == Only(options, ResultFields \cup BsonFlags)
  IN [n \in DOMAIN deciding |-> KeyValue(n, deciding[n])]

\* Mutated form: the filter of a prepared query is converted once more.
ReadKeyTwice(op, filter, options) ==
  [op |-> op, options |-> KeyOptions(options),
   filter |-> IF op \in {"findOne", "distinct"}
              THEN Normalized(OrElse(filter, Everything), conversion, <<>>, 0)
              ELSE OrElse(filter, Everything)]

ReadKey(op, filter, options) ==
  [op |-> op, filter |-> OrElse(filter, Everything), options |-> KeyOptions(options)]

\* The ids of a read by id, each once, in the order they come in.
ByIds == {"findOneById", "findByIds"}
IdsOf(t) == Items(FoldLeft(LAMBDA ids, x : IF IdOf(x) \in Range(ids) THEN ids ELSE Append(ids, IdOf(x)),
                           <<>>, t[2]))
ValidIds(t) == \A i \in DOMAIN t[2] : t[2][i][1] \in {"hex", "id"}

\* The filter of a read as the library takes it: a chain's, a pipeline's, or another's.
Pipeline(filter) == Items(<<Document(<< <<"$match", filter>> >>)>>)
ChainFilter(filter) == Normalized(OrElse(filter, Everything), conversion, <<>>, 0)
TakenFilter(op, filter) ==
  CASE op \in ByIds -> IdsOf(filter)
    [] op = "aggregate" ->
       EachItem(Snapshot(Pipeline(OrElse(filter, Everything))), LAMBDA x : Converted(x, conversion, <<>>, 0))
    [] OTHER -> Snapshot(Converted(filter, conversion, <<>>, 0))

\* The key that the descriptor of a read names, to remove its result.  That of a read by
\* one id takes its options as they are.
DescribedKey(op, filter, options) ==
  ReadKey(op,
    IF op \in ByIds \cup {"aggregate"} THEN TakenFilter(op, filter) ELSE Snapshot(ChainFilter(filter)),
    IF op = "findOneById" THEN CopiedOptions(options)
    ELSE PreparedOptions(op, IF op = "find" THEN WithDefaults(options) ELSE options))

-----------------------------------------------------------------------------
(* Commands, and what the server is told that decides the result.          *)

DriverOptions(op, options) ==
  LET plain == Without(options, ControlOptions)
  IN IF op = "count" THEN Only(plain, CountOptions) ELSE plain

\* Mutated form: a limit is no reason to count exactly.
ExactWithoutLimit == {"collation", "hint", "skip", "readConcern", "session"}

\* An empty filter is counted by the metadata of the collection, without options.
Exact == {"collation", "hint", "skip", "limit", "readConcern", "session"}
Estimates(op, filter, options) ==
  op = "count" /\ filter = Everything /\ \A n \in Exact : Get(options, n) = Undefined

\* What BSON makes of a value: an undefined field is null, or is left out.
RECURSIVE Encoded(_, _)
Encoded(t, ignore) ==
  CASE t = Undefined -> NullValue
    [] t[1] = "items" -> EachItem(t, LAMBDA x : Encoded(x, ignore))
    [] t[1] = "document" ->
       EachPair(Document(SelectSeq(t[2], LAMBDA pair : ~(ignore /\ pair[2] = Undefined))),
                LAMBDA key, x : Encoded(x, ignore))
    [] OTHER -> t

\* Of the options, the order of the fields of a collation says nothing.
Meaning(name, value) == IF name \in {"collation", "readConcern"} THEN Unordered(value) ELSE value
Told(op, asked, options) ==
  LET filter == OrElse(asked, Everything) IN
  IF Estimates(op, filter, options) THEN [filter |-> Everything, options |-> << >>, how |-> "estimate"]
  ELSE LET sent == Only(DriverOptions(op, options), ResultFields)
       IN [filter |-> Encoded(filter, options["ignoreUndefined"] = True),
           options |-> [n \in DOMAIN sent |-> Meaning(n, sent[n])], how |-> op]

-----------------------------------------------------------------------------
(* Reads.  A chain is built, may be refined, and is executed when it is    *)
(* awaited; other reads are executed at once.                              *)

Nothing == [op |-> "none", filter |-> Undefined, options |-> << >>]
NotAsked == [filter |-> Undefined, options |-> << >>, how |-> "none"]
NoRead == [at |-> "idle", op |-> "none", filter |-> Undefined, live |-> FALSE, options |-> << >>,
           query |-> Undefined, sent |-> << >>, key |-> Nothing, got |-> NotAsked, executed |-> FALSE]
NoEntry == [key |-> Nothing, told |-> NotAsked]

ReadInit ==
  /\ \E p \in Programs : /\ given = [filter |-> p.filter, options |-> p.options]
                         /\ conversion = p.conversion
  /\ read = NoRead /\ filled = NoEntry /\ handed = given

\* A program reads once more only what it has read: the bound of the runs.
Starts(op) == read.at = "idle" \/ (read.at = "answered" /\ read.op = op)

\* find() converts the filter into a copy of its own, or keeps the program's object;
\* aggregate() takes copies.
BuildChain(op) ==
  /\ Starts(op) /\ given.filter[1] # "items"
  /\ read' = IF op = "find"
             THEN [NoRead EXCEPT !.at = "built", !.op = op, !.filter = ChainFilter(given.filter),
                                 !.live = ~conversion.enabled /\ given.filter # Undefined,
                                 !.options = given.options]
             ELSE [NoRead EXCEPT !.at = "built", !.op = op, !.filter = TakenFilter(op, given.filter),
                                 !.options = PreparedOptions(op, given.options)]
  /\ handed' = given /\ UNCHANGED <<given, conversion, filled>>

\* limit(), sort() and the others of the one chain, hint() and the others of the other;
\* one of them, before the program goes on, is the bound of the runs.
SecondFirst == Document(<< <<"b", Number(1)>>, <<"a", Number(1)>> >>)
Refinements(op) == IF op = "find" THEN {"limit" :> Number(FindMaxLimit), "sort" :> SecondFirst}
                   ELSE {"hint" :> Snapshot(SecondFirst)}
Refine ==
  /\ read.at = "built" /\ handed = given
  /\ \E refinement \in Refinements(read.op) :
       /\ read' = [read EXCEPT !.options = refinement @@ @]
       /\ handed' = [handed EXCEPT !.options = refinement @@ @]
  /\ UNCHANGED <<given, conversion, filled>>

\* A read that may be cached looks at the barrier first, with what it will ask in hand.
Prepared(r, query, sent) ==
  [r EXCEPT !.at = IF Cacheable(r.op, sent) THEN "barrier" ELSE "asking",
            !.query = query, !.sent = sent, !.key = Nothing, !.got = NotAsked]

Await ==
  /\ read.op \in {"find", "aggregate"} /\ read.at \in {"built", "answered"}
  /\ LET filter == IF read.live THEN given.filter ELSE read.filter
         options == WithDefaults(read.options)
     IN /\ read' = IF read.op = "aggregate" THEN Prepared(read, read.filter, read.options)
                   ELSE IF Refuses(options) THEN [read EXCEPT !.at = "refused"]
                   ELSE Prepared(read, Snapshot(filter), PreparedOptions("find", options))
        /\ handed' = IF read.live THEN [handed EXCEPT !.filter = given.filter] ELSE handed
  /\ UNCHANGED <<given, conversion, filled>>

\* toArray() looks first whether the chain was executed.
ToArrayAgain ==
  /\ read.at = "answered" /\ read.executed /\ read.op \in {"find", "aggregate"}
  /\ read' = [read EXCEPT !.at = "refused"]
  /\ UNCHANGED <<given, conversion, filled, handed>>

\* An empty list of ids asks nothing, and is left out.
Call(op) ==
  /\ Starts(op)
  /\ (op \in ByIds) = (given.filter[1] = "items")
  /\ op \in ByIds => given.filter[2] # <<>>
  /\ op = "findOneById" => Len(given.filter[2]) = 1
  /\ read' = IF op \in ByIds /\ ~ValidIds(given.filter) THEN [NoRead EXCEPT !.at = "refused", !.op = op]
             ELSE Prepared([NoRead EXCEPT !.op = op], TakenFilter(op, given.filter),
                           PreparedOptions(op, given.options))
  /\ handed' = given /\ UNCHANGED <<given, conversion, filled>>

\* Mutated form: after the barrier, the key is made from the program's objects as they are.
PassBarrierLive ==
  /\ read.at = "barrier"
  /\ LET key == ReadKey(read.op, TakenFilter(read.op, given.filter), read.sent)
     IN read' = IF filled.key = key
                THEN [read EXCEPT !.at = "answered", !.key = key, !.got = filled.told]
                ELSE [read EXCEPT !.at = "asking", !.key = key]
  /\ UNCHANGED <<given, conversion, filled, handed>>

\* While the barrier of an invalidation stands, a read goes past the cache.
PassBarrier ==
  /\ read.at = "barrier"
  /\ \/ read' = [read EXCEPT !.at = "asking"]
     \/ LET key == ReadKey(read.op, read.query, read.sent)
        IN read' = IF filled.key = key
                   THEN [read EXCEPT !.at = "answered", !.key = key, !.got = filled.told]
                   ELSE [read EXCEPT !.at = "asking", !.key = key]
  /\ UNCHANGED <<given, conversion, filled, handed>>

\* A chain asks once; awaited again, it is answered from the cache or refused.
Ask ==
  /\ read.at = "asking"
  /\ IF read.executed THEN read' = [read EXCEPT !.at = "refused"] /\ UNCHANGED filled
     ELSE LET told == Told(read.op, read.query, read.sent)
          IN /\ read' = [read EXCEPT !.at = "answered", !.got = told, !.executed = TRUE]
             /\ filled' = IF read.key = Nothing THEN filled ELSE [key |-> read.key, told |-> told]
  /\ UNCHANGED <<given, conversion, handed>>

\* The program goes on with its objects, once.
Later == <<"later", Text>>
GoOn ==
  /\ read.at \notin {"idle", "refused"} /\ given.filter[1] = "document"
  /\ ~\E i \in DOMAIN given.filter[2] : given.filter[2][i] = Later
  /\ given' = [filter |-> Document(Append(given.filter[2], Later)),
               options |-> "limit" :> Number(1) @@ given.options]
  /\ UNCHANGED <<conversion, read, filled, handed>>

ReadNext ==
  \/ \E op \in {"find", "aggregate"} : BuildChain(op)
  \/ \E op \in {"findOne", "count", "distinct"} \cup ByIds : Call(op)
  \/ Refine \/ Await \/ ToArrayAgain \/ PassBarrier \/ Ask \/ GoOn

-----------------------------------------------------------------------------
(* What a filter of the usual kind is: fields, nested or with lists of     *)
(* documents, the comparisons, $elemMatch, and the logical operators.      *)

IsLeaf(t) == t[1] \notin {"document", "items", "converter"}
RECURSIVE Ordinary(_)
OrdinaryOperand(op, x) ==
  \/ op \in ScalarOperators /\ IsLeaf(x)
  \/ op \in ListOperators /\ x[1] = "items" /\ \A i \in DOMAIN x[2] : IsLeaf(x[2][i])
  \/ op = "$elemMatch" /\ Ordinary(x)
OrdinaryValue(x) ==
  \/ IsLeaf(x)
  \/ x[1] = "items" /\ \A i \in DOMAIN x[2] : IsLeaf(x[2][i]) \/ Ordinary(x[2][i])
  \/ x[1] = "document" /\ \A i \in DOMAIN x[2] : OrdinaryOperand(x[2][i][1], x[2][i][2])
  \/ Ordinary(x)
OrdinaryPair(key, x) ==
  IF key \in Logical THEN x[1] = "items" /\ \A i \in DOMAIN x[2] : Ordinary(x[2][i])
  ELSE key \notin AllOperators /\ OrdinaryValue(x)
Ordinary(t) == t[1] = "document" /\ \A i \in DOMAIN t[2] : OrdinaryPair(t[2][i][1], t[2][i][2])

\* The leaves of a tree, each with the fields and positions that lead to it.
RECURSIVE Leaves(_, _)
Leaves(t, where) ==
  CASE t[1] = "document" -> UNION {Leaves(t[2][i][2], Append(where, <<t[2][i][1], 0>>)) : i \in DOMAIN t[2]}
    [] t[1] = "items" -> UNION {Leaves(t[2][i], Append(where, <<"", i>>)) : i \in DOMAIN t[2]}
    [] OTHER -> {<<where, t>>}
Fields(where) == SelectSeq([i \in DOMAIN where |-> where[i][1]], LAMBDA name : name # "")

-----------------------------------------------------------------------------
(* What the reads keep.                                                    *)

\* What a key says is asked, whoever has built it.
Named(key) ==
  IF key.op = "count" /\ key.filter = Everything
     /\ DOMAIN key.options \cap CountOptions \subseteq BsonFlags
  THEN [filter |-> Everything, options |-> << >>, how |-> "estimate"]
  ELSE [filter |-> Encoded(key.filter, key.options["ignoreUndefined"] = True),
        options |-> Only(key.options, ResultFields \cap (IF key.op = "count" THEN CountOptions ELSE ResultFields)),
        how |-> key.op]

(* A key tells what its read asks of the database, all that decides the    *)
(* result, so two reads share an entry only when they ask the same         *)
(* (documentReadKey, buildResultCacheKeyOptions, stableCacheKeyString).    *)
KeysTell == read.key # Nothing => Named(read.key) = Told(read.op, read.query, read.sent)

(* A read is answered with what it has asked itself, also from the cache,  *)
(* and also a chain awaited again after its program went on with the       *)
(* objects it was built from (executeResult, readThroughCache).            *)
AnswersAreOwn == read.at = "answered" => read.got = Told(read.op, read.query, read.sent)

\* Descriptors that name a read exactly: where the two conversions agree.
OneNameEach == \A p \in conversion.excluded : Len(p) = 1
Usual == Ordinary(OrElse(handed.filter, Everything)) /\ conversion.maxDepth = 10 /\ OneNameEach
Described ==
  CASE read.op = "findOneById" -> Projection(handed.options) = handed.options
    [] read.op \in {"find", "aggregate", "findByIds"} -> TRUE
    [] OTHER -> ~conversion.enabled \/ Usual

(* A descriptor with the filter and the options of a read names the key    *)
(* of its result, although the read was keyed from what it had prepared    *)
(* and the descriptor is prepared when a write is done (entryToIntents).   *)
DescriptorsName ==
  read.key # Nothing /\ Described => read.key = DescribedKey(read.op, handed.filter, handed.options)

\* Places that the setting excludes: by a name on the way, or by the fields as a path.
Excluded(where) ==
  \E p \in conversion.excluded : p = Fields(where) \/ \E i \in DOMAIN where : p = <<where[i][1]>>

(* Hex strings in excluded fields are asked for as they are, at any depth  *)
(* below them; in a usual filter every other one is asked for as an        *)
(* ObjectId (shouldConvertObjectIdPath).                                   *)
IdsAreConverted ==
  read.at \in {"barrier", "asking", "answered"} /\ read.op \notin ByIds =>
    LET filter == OrElse(handed.filter, Everything)
        before == Leaves(Snapshot(IF read.op = "aggregate" THEN Pipeline(filter) ELSE filter), <<>>)
        after == Leaves(OrElse(read.query, Everything), <<>>)
    IN /\ \A leaf \in before : leaf[2][1] = "hex" /\ Excluded(leaf[1]) => leaf \in after
       /\ conversion.enabled /\ Usual =>
            \A leaf \in after : leaf[2][1] = "hex" => Excluded(leaf[1])

ReadsAreTheirOwn == KeysTell /\ AnswersAreOwn /\ DescriptorsName /\ IdsAreConverted
=============================================================================
