------------------------------ MODULE Expressions ------------------------------
(***************************************************************************)
(* The text of an expr(...) and the aggregation expression it becomes.     *)
(*                                                                         *)
(* Operators: an expression is a tree; written down it is a sequence of    *)
(* tokens (a name, an operator or a parenthesis, never a character), and   *)
(* Compile reads it the way the compiler does, by splitting the text at    *)
(* the operators outside parentheses, the loosest first.                   *)
(*                                                                         *)
(* Variables: a lambda, LET or a native JSON operator binds names.  The    *)
(* compiler renames what MongoDB would confuse.  MongoDB's own scoping is  *)
(* external: the variables of an operator hide outer ones of their names.  *)
(***************************************************************************)
EXTENDS Integers, Sequences, FiniteSets, SequencesExt, Functions, TLC

CONSTANTS Names,     \* names a program gives to variables, "value" and "this" too
          Wanted,    \* sets of names that an expression uses
          MaxGrowth, \* bound: how often a tree of operators grows
          MaxBinders \* bound: binders around one another

VARIABLES tree,      \* an expression of operators
          binders,   \* an expression of binders around uses of names
          growth     \* the steps it has grown

expressionVars == <<tree, binders, growth>>

-----------------------------------------------------------------------------
(* Reading operators.                                                      *)

Node(op, args) == [op |-> op, args |-> args]
Leaf(name) == Node(name, <<>>)
Failure == Leaf("error")                                  \* INVALID_EXPRESSION

Comparisons == {"===", "<"}
Signs == {"+", "-"}
Factors == {"*", "%"}
Callable == {"NOT", "UPPER", "CONCAT", "COND", "IF_NULL", "SWITCH"}
Signal == Comparisons \cup Signs \cup Factors \cup {"?", ":", "??", "||", "&&", ","}

\* The operators whose rightmost occurrence splits the text.
Rightmost == {Signs, Factors}

\* The depth a token stands at, a closing parenthesis outside what it closes.
Depth(s, i) == Cardinality({j \in 1..i - 1 : s[j] = "("})
               - Cardinality({j \in 1..i : s[j] = ")"})
Positions(s) == {i \in 1..Len(s) : s[i] \notin {"(", ")"} /\ Depth(s, i) = 0}
Where(s, tokens) == {i \in Positions(s) : s[i] \in tokens}
Leftmost(S) == CHOOSE i \in S : \A j \in S : i <= j
LastOf(S) == CHOOSE i \in S : \A j \in S : i >= j

Wrapped(s) == /\ Len(s) > 1 /\ s[1] = "(" /\ s[Len(s)] = ")"
              /\ \A i \in 2..Len(s) - 1 : Depth(s, i) > 0
RECURSIVE Strip(_)
Strip(s) == IF Wrapped(s) THEN Strip(SubSeq(s, 2, Len(s) - 1)) ELSE s

Split(s, separator) ==
  LET cuts == <<0>> \o SetToSortSeq(Where(s, {separator}), <) \o <<Len(s) + 1>>
  IN [k \in 1..Len(cuts) - 1 |-> SubSeq(s, cuts[k] + 1, cuts[k + 1] - 1)]

\* The colons with as many `?` as `:` between the first `?` and themselves.
Colons(s) ==
  LET question == Leftmost(Where(s, {"?"}))
      Between(i, token) == Cardinality({j \in Where(s, {token}) : question < j /\ j < i})
  IN {i \in Where(s, {":"}) : i > question /\ Between(i, "?") = Between(i, ":")}

\* Where the operators of a group may split the text: a sign needs an operand before it.
Splits(s, group) == {i \in Where(s, group) :
                       s[i] \in Signs => i > 1 /\ s[i - 1] \notin Signal}
SplitPoint(s, group) == IF group \in Rightmost THEN LastOf(Splits(s, group))
                        ELSE Leftmost(Splits(s, group))

IsCall(s) == Len(s) > 2 /\ s[1] \in Callable /\ s[2] = "(" /\ s[Len(s)] = ")"

\* The arguments that are compiled as expressions; the others are values.
Conditions(name, n) == IF name = "SWITCH" THEN {i \in 1..n - 1 : i % 2 = 1}
                       ELSE IF name \in {"NOT", "COND"} THEN {1} ELSE {}
Suits(name, n) == /\ name = "COND" => n = 3
                  /\ name = "IF_NULL" => n = 2
                  /\ name = "SWITCH" => n >= 2
OperatorOf(name) == IF name = "COND" THEN "?" ELSE IF name = "IF_NULL" THEN "??" ELSE name

RECURSIVE Compile(_)
CompileAll(parts) == [i \in 1..Len(parts) |-> Compile(parts[i])]

\* A value is an expression when it is wrapped, a call, or has an operator outside
\* parentheses; `===` has none of the characters that are looked for.
Value(s) ==
  IF Strip(s) # s \/ IsCall(s) \/ Where(s, Signal \ {"===", ":", ","}) # {}
  THEN Compile(Strip(s))
  ELSE IF Len(s) = 1 THEN Leaf(s[1]) ELSE Node("path", s)

Dispatch(name, parts) ==
  IF ~Suits(name, Len(parts)) THEN Failure
  ELSE Node(OperatorOf(name), [i \in 1..Len(parts) |->
         IF i \in Conditions(name, Len(parts)) THEN Compile(parts[i]) ELSE Value(parts[i])])

Binary(s, group) ==
  LET at == SplitPoint(s, group)
  IN Node(s[at], CompileAll(<<SubSeq(s, 1, at - 1), SubSeq(s, at + 1, Len(s))>>))

Conditional(s) ==
  LET q == Leftmost(Where(s, {"?"}))
      c == Leftmost(Colons(s))
  IN IF Colons(s) = {} THEN Failure
     ELSE Node("?", CompileAll(<<SubSeq(s, 1, q - 1), SubSeq(s, q + 1, c - 1),
                                 SubSeq(s, c + 1, Len(s))>>))

Compile(s) ==
  CASE s = <<>> -> Failure
    [] Wrapped(s) -> Compile(Strip(s))
    [] OTHER ->
       IF Where(s, {"?"}) # {} THEN Conditional(s)
       ELSE IF Where(s, {"??"}) # {} THEN
         LET parts == CompileAll(Split(s, "??"))
         IN FoldLeft(LAMBDA l, r : Node("??", <<l, r>>), Head(parts), Tail(parts))
       ELSE IF Where(s, {"||"}) # {} THEN Node("||", CompileAll(Split(s, "||")))
       ELSE IF Where(s, {"&&"}) # {} THEN Node("&&", CompileAll(Split(s, "&&")))
       ELSE IF Splits(s, Comparisons) # {} THEN Binary(s, Comparisons)
       ELSE IF Splits(s, Signs) # {} THEN Binary(s, Signs)
       ELSE IF Splits(s, Factors) # {} THEN Binary(s, Factors)
       ELSE IF s[1] = "-" THEN Node("-1", CompileAll(<<Tail(s)>>))
       ELSE IF IsCall(s) THEN Dispatch(s[1], Split(SubSeq(s, 3, Len(s) - 1), ","))
       ELSE Value(s)

-----------------------------------------------------------------------------
(* Variables.  An expression is uses of names inside binders, each with an *)
(* initial expression outside its scope: a list, or the value of LET.      *)

Uses(dsl, native) == [kind |-> "uses", dsl |-> dsl, native |-> native]
Bind(kind, names, init, body) == [kind |-> kind, names |-> names, init |-> init, body |-> body]
\* MAP stands for FILTER too, and "$map" for "$filter".
Lambdas == {"MAP", "REDUCE"}
Native == {"$map", "$reduce", "$let"}

\* The names that the compiler makes up, in its order.
Variables == <<"v0", "v1", "v2", "v3", "v4">>
Captures == <<"c0", "c1", "c2", "c3", "c4">>
Fresh(made, taken) == made[Leftmost({i \in 1..Len(made) : made[i] \notin taken})]

RECURSIVE Words(_)
Words(e) == IF e.kind = "uses" THEN e.dsl \cup e.native
            ELSE ToSet(e.names) \cup Words(e.init) \cup Words(e.body)

NoScope == [dsl |-> << >>, native |-> << >>]
With(f, name, target) == [n \in DOMAIN f \cup {name} |-> IF n = name THEN target ELSE f[n]]
Taken(scope, words) ==
  DOMAIN scope.dsl \cup Range(scope.dsl) \cup Range(scope.native) \cup words

\* Mutated form: a variable always keeps its name.
MongoNameKept(scope, name, words, lambda) == name

\* What the variable is called, so that it hides no variable of an outer lambda.
MongoName(scope, name, words, lambda) ==
  IF \E key \in DOMAIN scope.dsl : (lambda => key # name) /\ scope.dsl[key] = name
  THEN Fresh(Variables, Taken(scope, words)) ELSE name

BindVariable(scope, name, words, lambda) ==
  LET target == MongoName(scope, name, words, lambda)
  IN [dsl |-> IF lambda THEN With(scope.dsl, name, target) ELSE scope.dsl,
      native |-> With(scope.native, name, target)]

\* Variables of outer lambdas that a $reduce would hide.
Hidden(scope, names) == {n \in DOMAIN scope.dsl \ ToSet(names) :
                           scope.dsl[n] \in {"value", "this"}}

\* A name of its own for each of them, the first made-up names nobody uses.
Aliases(scope, names, words) ==
  LET free == SelectSeq(Captures, LAMBDA c : c \notin Taken(scope, words))
      hidden == SetToSeq(Hidden(scope, names))
  IN [n \in ToSet(hidden) |-> free[CHOOSE i \in 1..Len(hidden) : hidden[i] = n]]

ReduceScope(scope, names, aliases) ==
  [dsl |-> With(With(aliases @@ scope.dsl, names[1], "value"), names[2], "this"),
   native |-> With(With(scope.native, "value", "value"), "this", "this")]

Bound(f, name) == IF name \in DOMAIN f THEN f[name] ELSE name

RECURSIVE Translate(_, _)
Translate(e, scope) ==
  LET words == Words(e) IN
  CASE e.kind = "uses" ->
         [kind |-> "uses",
          dsl |-> [n \in e.dsl |-> IF n \in DOMAIN scope.dsl THEN scope.dsl[n] ELSE "field"],
          native |-> [n \in e.native |-> Bound(scope.native, n)]]
    [] e.kind \in {"MAP", "$map"} ->
         LET inner == BindVariable(scope, e.names[1], words, e.kind = "MAP")
         IN Bind(e.kind, <<inner.native[e.names[1]]>>, Translate(e.init, scope),
                 Translate(e.body, inner))
    [] e.kind = "REDUCE" ->
         LET aliases == Aliases(scope, e.names, words)
         IN [kind |-> "capture", captured |-> [a \in Range(aliases) |->
                scope.dsl[CHOOSE n \in DOMAIN aliases : aliases[n] = a]],
             body |-> Bind("REDUCE", <<"value", "this">>, Translate(e.init, scope),
                           Translate(e.body, ReduceScope(scope, e.names, aliases)))]
    [] e.kind = "$reduce" ->
         Bind("$reduce", e.names, Translate(e.init, scope),
              Translate(e.body, [scope EXCEPT !.native =
                                   With(With(@, "value", "value"), "this", "this")]))
    [] e.kind \in {"LET", "$let"} ->
         LET Scoped[i \in 0..Len(e.names)] ==
               IF i = 0 THEN scope ELSE BindVariable(Scoped[i - 1], e.names[i], words, FALSE)
             inner == Scoped[Len(e.names)]
         IN Bind(e.kind, [i \in 1..Len(e.names) |-> inner.native[e.names[i]]],
                 Translate(e.init, scope), Translate(e.body, inner))

-----------------------------------------------------------------------------
(* What an expression says, and what MongoDB makes of its translation: for *)
(* each use the binder it refers to, as <<its depth, its role>>.           *)

Slots(e, d) == [i \in 1..Len(e.names) |-> <<d, i>>]
Seen(f, name) == IF name \in DOMAIN f THEN f[name] ELSE <<0, name>>
BindAll(f, names, slots) ==
  [n \in DOMAIN f \cup ToSet(names) |->
     IF n \in ToSet(names) THEN slots[LastOf({i \in 1..Len(names) : names[i] = n})] ELSE f[n]]

\* A native name of REDUCE is the accumulator or the item, as in MongoDB.
NativeNames(e) == IF e.kind = "REDUCE" THEN <<"value", "this">> ELSE e.names

RECURSIVE Meant(_, _, _, _)
Meant(e, dsl, native, d) ==
  IF e.kind = "uses"
  THEN <<[n \in e.dsl |-> IF n \in DOMAIN dsl THEN dsl[n] ELSE <<0, "field">>],
         [n \in e.native |-> Seen(native, n)]>>
  ELSE Meant(e.init, dsl, native, d + 1)
       \o Meant(e.body, IF e.kind \in Lambdas THEN BindAll(dsl, e.names, Slots(e, d)) ELSE dsl,
                BindAll(native, NativeNames(e), Slots(e, d)), d + 1)

RECURSIVE Done(_, _, _)
Done(c, env, d) ==
  CASE c.kind = "uses" ->
         <<[n \in DOMAIN c.dsl |-> IF c.dsl[n] = "field" THEN <<0, "field">>
                                   ELSE Seen(env, c.dsl[n])],
           [n \in DOMAIN c.native |-> Seen(env, c.native[n])]>>
    [] c.kind = "capture" ->
         Done(c.body, [a \in DOMAIN c.captured |-> Seen(env, c.captured[a])] @@ env, d)
    [] OTHER -> Done(c.init, env, d + 1)
                \o Done(c.body, BindAll(env, c.names, Slots(c, d)), d + 1)

-----------------------------------------------------------------------------
(* Writing an expression: with the parentheses that precedence asks for,   *)
(* or with all of them.                                                    *)

Level(op) ==
  LET Loosest == <<{"?"}, {"??"}, {"||"}, {"&&"}, Comparisons, Signs, Factors, {"-1"}>>
      levels == {i \in 1..Len(Loosest) : op \in Loosest[i]}
  IN IF levels = {} THEN 9 ELSE Leftmost(levels)

\* How tightly the i-th operand must bind to stand without parentheses.
Tightness(t, i) ==
  CASE t.op = "?" -> IF i = 1 THEN 2 ELSE 1
    [] t.op \in Callable -> IF t.args[i].op = "===" /\ i \notin Conditions(t.op, Len(t.args))
                            THEN 9 ELSE 1
    [] t.op = "-1" -> 8
    [] t.op \in {"||", "&&"} \cup Comparisons -> Level(t.op) + 1
    [] OTHER -> Level(t.op) + (i - 1)

RECURSIVE Written(_, _, _)
Written(t, level, all) ==
  LET n == Len(t.args)
      Pieces == [i \in 1..n |-> Written(t.args[i], Tightness(t, i), all)]
      Join(separator) == FoldLeft(LAMBDA l, r : l \o <<separator>> \o r, Head(Pieces), Tail(Pieces))
      text == IF n = 0 THEN <<t.op>>
              ELSE IF t.op = "-1" THEN <<"-">> \o Pieces[1]
              ELSE IF t.op = "?" THEN Pieces[1] \o <<"?">> \o Pieces[2] \o <<":">> \o Pieces[3]
              ELSE IF t.op \in Callable THEN <<t.op, "(">> \o Join(",") \o <<")">>
              ELSE Join(t.op)
  IN IF all \/ Level(t.op) < level THEN <<"(">> \o text \o <<")">> ELSE text

RECURSIVE Says(_)
Says(t) == Node(OperatorOf(t.op), [i \in 1..Len(t.args) |-> Says(t.args[i])])

-----------------------------------------------------------------------------
(* Every expression, grown from a name.                                    *)

BinaryOps == {"??", "||", "&&", "===", "<", "+", "-", "*"}
Small == {Leaf("b"), Node("-1", <<Leaf("b")>>)}
         \cup {Node(op, <<Leaf("b"), Leaf("c")>>) : op \in {"??", "&&", "<", "-", "*"}}
Placed(op, n, t) == {Node(op, [i \in 1..n |-> IF i = at THEN t ELSE Leaf("d")]) : at \in 1..n}

GrowTree ==
  /\ growth < MaxGrowth /\ binders = Uses({}, {}) /\ growth' = growth + 1
  /\ tree' \in UNION {{Node(op, <<tree, t>>), Node(op, <<t, tree>>)} : op \in BinaryOps, t \in Small}
               \cup Placed("-1", 1, tree) \cup Placed("NOT", 1, tree) \cup Placed("UPPER", 1, tree)
               \cup Placed("IF_NULL", 2, tree) \cup Placed("CONCAT", 2, tree)
               \cup UNION {Placed(op, 3, tree) : op \in {"?", "||", "COND", "SWITCH"}}
  /\ UNCHANGED binders

RECURSIVE JsonOnly(_)
JsonOnly(e) == IF e.kind = "uses" THEN e.dsl = {}
               ELSE e.kind \in Native /\ JsonOnly(e.init) /\ JsonOnly(e.body)

\* The same names are used outside the binder as inside.
Surround(kind, names) ==
  /\ growth < MaxBinders /\ tree = Leaf("a") /\ growth' = growth + 1
  /\ kind \in Native => JsonOnly(binders)
  /\ LET used == Words(binders) \cap UNION Wanted
     IN binders' = Bind(kind, names, Uses(IF kind \in Native THEN {} ELSE used, used), binders)
  /\ UNCHANGED tree

ExpressionInit ==
  /\ tree = Leaf("a") /\ growth = 0
  /\ binders \in {Uses(d, n) : d \in Wanted \cup {{}}, n \in Wanted \cup {{}}}

ExpressionNext ==
  \/ GrowTree
  \/ \E n \in Names : \E kind \in {"MAP", "$map"} : Surround(kind, <<n>>)
  \/ \E m, n \in Names : \/ Surround("REDUCE", <<m, n>>)
                         \/ m # n /\ \E kind \in {"LET", "$let"} : Surround(kind, <<m, n>>)
  \/ Surround("$reduce", <<"value", "this">>)

-----------------------------------------------------------------------------
(* Properties.                                                             *)

(* Operators bind as precedence says, wherever an expression stands: with  *)
(* the parentheses precedence asks for, and with all of them, the compiled *)
(* expression is the one that was written (compileScopedExpression).       *)
OperatorsBind == \A all \in BOOLEAN : Compile(Written(tree, 1, all)) = Says(tree)

(* A name refers to the innermost lambda that binds it, and a $$ name to   *)
(* what MongoDB would make of it: renaming neither captures nor loses one  *)
(* (bindVariable, the captures of REDUCE).                                 *)
VariablesStay == Done(Translate(binders, NoScope), << >>, 1) = Meant(binders, << >>, << >>, 1)

(* What an expression compiles to says what was written: its operators and  *)
(* its variables.                                                           *)
ExpressionsKeepMeaning == OperatorsBind /\ VariablesStay
=============================================================================
