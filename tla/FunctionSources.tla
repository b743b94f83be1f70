--------------------------- MODULE FunctionSources ---------------------------
(***************************************************************************)
(* Extensions of a schema runtime that the program owns, and may share     *)
(* between instances: each is registered once.  Two functions with the     *)
(* same source are one extension unless the source uses a name that it     *)
(* does not bind, which is looked for in the text.                         *)
(*                                                                         *)
(* A text is a sequence of tokens (a word, a sign, a literal, a blank or   *)
(* an end of line, never a character), and a position is one of a token.   *)
(* Position 0 stands for the code's -1.  Without a token of its own stands *)
(* whatever the code looks at in blanks and literals only.                 *)
(***************************************************************************)
EXTENDS Integers, Sequences, FiniteSets, SequencesExt

CONSTANTS Idents,         \* names that a function binds and uses
          Objects,        \* functions made from one source, each with values of its own
          MaxNesting,     \* bound: how often a body grows
          MaxRegistered   \* bound: registrations in one runtime

VARIABLES body,           \* the statements of a function
          nesting,        \* the steps it has grown
          written,        \* of extensions: the parameter and the key of each; else empty
          remembered,     \* keys of the extensions registered in a runtime, as we know it
          installed,      \* the extensions registered in it, in that order
          doubtful        \* whether a call on the runtime failed that did something or ought to

functionVars == <<body, nesting, written, remembered, installed, doubtful>>

-----------------------------------------------------------------------------
(* Tokens.                                                                 *)

Blanks == {" ", "nl"}
Openers == {"(", "[", "{"}
Closers == {")", "]", "}"}
Literals == {"0"}
Punctuation == Openers \cup Closers \cup
               {";", ",", "=", "=>", ":", ".", "...", "*", "?", "template", "${"}
Declarers == {"const", "let", "var"}
BoundaryWords == Declarers \cup
                 {"break", "catch", "class", "for", "function", "if", "return", "try"}
ReservedWords == BoundaryWords \cup {"arguments", "await", "extends", "in", "static", "this"}
Modifiers == {"static", "async", "get", "set"}

NoWords == Blanks \cup Literals \cup Punctuation
IsWord(t) == t \notin NoWords
Token(s, i) == IF i \in 1..Len(s) THEN s[i] ELSE "none"
Lowest(S) == IF S = {} THEN 0 ELSE CHOOSE i \in S : \A j \in S : i <= j
Highest(S) == IF S = {} THEN 0 ELSE CHOOSE i \in S : \A j \in S : i >= j

\* The first token from i on, or back, that is not blank.
RECURSIVE Solid(_, _)
Solid(s, i) == IF i > Len(s) THEN 0 ELSE IF Token(s, i) \in Blanks THEN Solid(s, i + 1) ELSE i
RECURSIVE SolidBefore(_, _)
SolidBefore(s, i) ==
  IF i <= 0 THEN 0 ELSE IF Token(s, i) \in Blanks THEN SolidBefore(s, i - 1) ELSE i
Trimmed(s) == IF Solid(s, 1) = 0 THEN << >> ELSE SubSeq(s, Solid(s, 1), SolidBefore(s, Len(s)))

\* Only brackets of the same kind count.
RECURSIVE PartnerFrom(_, _, _, _, _, _)
PartnerFrom(s, i, way, open, close, depth) ==
  IF i \notin 1..Len(s) THEN 0
  ELSE LET now == IF s[i] = open THEN depth + 1 ELSE IF s[i] = close THEN depth - 1 ELSE depth
       IN IF s[i] = close /\ now = 0 THEN i ELSE PartnerFrom(s, i + way, way, open, close, now)
Partner(s, i, open, close) == PartnerFrom(s, i, 1, open, close, 0)
PartnerBefore(s, i, open, close) == PartnerFrom(s, i, -1, close, open, 0)

\* Positions outside brackets; a closing bracket too many does not count.
RECURSIVE OutsideFrom(_, _, _)
OutsideFrom(s, i, depth) ==
  CASE i > Len(s) -> {}
    [] s[i] \in Openers -> OutsideFrom(s, i + 1, depth + 1)
    [] s[i] \in Closers -> OutsideFrom(s, i + 1, IF depth = 0 THEN 0 ELSE depth - 1)
    [] OTHER -> (IF depth = 0 THEN {i} ELSE {}) \cup OutsideFrom(s, i + 1, depth)
Outside(s) == OutsideFrom(s, 1, 0)
FirstOutside(s, tokens) == Lowest({i \in Outside(s) : s[i] \in tokens})

\* The parts between commas.
CommaParts(s) ==
  LET cuts == {0, Len(s) + 1} \cup {i \in Outside(s) : s[i] = ","}
  IN {SubSeq(s, c + 1, Lowest({d \in cuts : d > c}) - 1) : c \in cuts \ {Len(s) + 1}}

\* Literals become `shownAs`; a template becomes a list of its expressions.  `open` holds
\* what is open around position i: a template, or a brace inside one of its expressions.
RECURSIVE Masking(_, _, _, _)
Masking(s, i, shownAs, open) ==
  LET top == IF open = << >> THEN "none" ELSE Head(open)
      put(t, rest) == <<t>> \o Masking(s, i + 1, shownAs, rest)
  IN CASE i > Len(s) -> << >>
       [] top = "template" -> CASE s[i] = "template" -> put("]", Tail(open))
                         [] s[i] = "${" -> put("(", <<"${">> \o open)
                         [] OTHER -> put(" ", open)
       [] s[i] = "template" -> put("[", <<"template">> \o open)
       [] s[i] = "{" /\ open # << >> -> put("{", <<"{">> \o open)
       [] s[i] = "}" /\ open # << >> -> put(IF top = "${" THEN ")" ELSE "}", Tail(open))
       [] OTHER -> put(IF s[i] \in Literals THEN shownAs ELSE s[i], open)
Masked(s, shownAs) == Masking(s, 1, shownAs, << >>)

-----------------------------------------------------------------------------
(* The names that a pattern binds.                                         *)

NoDefault(p) == LET eq == FirstOutside(p, {"="})
                IN Trimmed(IF eq > 0 THEN SubSeq(p, 1, eq - 1) ELSE p)

NoSpread(p) == IF Token(p, 1) = "..." THEN Trimmed(Tail(p)) ELSE p
PropertyTarget(q) ==
  LET colon == FirstOutside(q, {":"})
  IN IF colon > 0 /\ Token(Trimmed(q), 1) # "..." THEN SubSeq(q, colon + 1, Len(q)) ELSE q

RECURSIVE NamesInPattern(_)
BindingNames(p) == NamesInPattern(NoSpread(NoDefault(p)))
NamesInPattern(b) ==
  LET inner == CommaParts(SubSeq(b, 2, Len(b) - 1))
  IN CASE b = << >> -> {}
       [] Len(b) = 1 /\ IsWord(b[1]) -> {b[1]}
       [] b[1] = "{" /\ b[Len(b)] = "}" -> UNION {BindingNames(PropertyTarget(q)) : q \in inner}
       [] b[1] = "[" /\ b[Len(b)] = "]" -> UNION {BindingNames(q) : q \in inner}
       [] OTHER -> {b[i] : i \in {j \in 1..Len(b) : IsWord(b[j])}}
ParameterNames(parameters) == UNION {BindingNames(q) : q \in CommaParts(parameters)}

\* A declarator without its initializer, or what a loop goes over.
Declarator(d) ==
  LET end == Lowest({i \in Outside(d) : d[i] = "=" \/ (i > 1 /\ d[i] \in {"of", "in"})})
  IN Trimmed(IF end > 0 THEN SubSeq(d, 1, end - 1) ELSE d)

-----------------------------------------------------------------------------
(* Local declarations and the ranges they bind in.                         *)

\* A newline ends a declaration unless a comma, or the rest of an initializer, follows.
Initialized(s, from, i) ==
  LET part == SubSeq(s, from, i - 1)
  IN Highest({j \in Outside(part) : part[j] = "="}) > Highest({j \in Outside(part) : part[j] = ","})
EndsAtLine(s, from, i) ==
  LET next == Solid(s, i + 1) IN
  \/ next = 0
  \/ /\ s[next] # "," /\ Token(s, SolidBefore(s, i - 1)) # ","
     /\ \/ ~Initialized(s, from, i)
        \/ /\ IsWord(s[next])
           /\ (Token(s, Solid(s, next + 1)) = ":" \/ s[next] \in BoundaryWords)

RECURSIVE DeclarationEnd(_, _, _, _)
DeclarationEnd(s, from, i, depth) ==
  CASE i > Len(s) -> i
    [] s[i] \in Openers -> DeclarationEnd(s, from, i + 1, depth + 1)
    [] s[i] \in Closers -> DeclarationEnd(s, from, i + 1, IF depth = 0 THEN 0 ELSE depth - 1)
    [] s[i] = ";" /\ depth = 0 -> i
    [] s[i] = "nl" /\ depth = 0 /\ EndsAtLine(s, from, i) -> i
    [] OTHER -> DeclarationEnd(s, from, i + 1, depth)

\* Where a binding holds: in the whole function, in a range, or nowhere that is proven.
WholeFunction == [is |-> "function", start |-> 0, end |-> 0]
Unproven == [is |-> "none", start |-> 0, end |-> 0]
RangeOf(start, end) == IF end = 0 THEN Unproven ELSE [is |-> "range", start |-> start, end |-> end]

OpenBefore(s, start, index, open, close) ==
  {i \in start..index - 1 : s[i] = open /\ Partner(SubSeq(s, 1, index - 1), i, open, close) = 0}

\* The `for` of a parenthesis.
ForBefore(s, start, paren) ==
  LET one == SolidBefore(s, paren - 1)
      word == IF Token(s, one) = "await" THEN SolidBefore(s, one - 1) ELSE one
  IN IF word >= start /\ Token(s, word) = "for" THEN word ELSE 0

LoopScope(s, start, loop) ==
  LET close == Partner(s, loop, "(", ")")
      block == Solid(s, close + 1)
  IN IF close = 0 \/ Token(s, block) # "{" THEN Unproven
     ELSE RangeOf(ForBefore(s, start, loop), Partner(s, block, "{", "}"))
BraceScope(s, braces) ==
  IF Cardinality(braces) <= 1 THEN WholeFunction
  ELSE RangeOf(Highest(braces), Partner(s, Highest(braces), "{", "}"))

\* Mutated form: a declaration in a block binds in the whole function.
BindingScopeHoisted(s, start, index) == WholeFunction

BindingScope(s, start, index) ==
  LET loops == {i \in OpenBefore(s, start, index, "(", ")") : ForBefore(s, start, i) > 0}
  IN IF loops = {} THEN BraceScope(s, OpenBefore(s, start, index, "{", "}"))
     ELSE LoopScope(s, start, Highest(loops))

Declaration(kind, pattern, index, scope) ==
  [kind |-> kind, pattern |-> pattern, index |-> index, scope |-> scope]

\* const, let and var from position i on; what a declaration has been read to is not
\* read again.
RECURSIVE DeclaredFrom(_, _, _, _, _)
DeclaredFrom(s, start, end, i, excluded) ==
  LET text == SubSeq(s, 1, end)
      from == Solid(text, i + 1)
      to == DeclarationEnd(text, from, from, 0)
  IN IF i > end THEN {}
     ELSE IF \/ s[i] \notin Declarers \/ (\E r \in excluded : i \in r.start..r.end) \/ from = 0
             \/ Token(s, SolidBefore(s, i - 1)) = "."
             \/ ~(IsWord(s[from]) \/ s[from] \in {"{", "["})
     THEN DeclaredFrom(s, start, end, i + 1, excluded)
     ELSE {Declaration(s[i], SubSeq(s, from, to - 1), i,
                       IF s[i] = "var" THEN WholeFunction ELSE BindingScope(s, start, i))}
          \cup DeclaredFrom(s, start, end, to, excluded)

LocalBindings(s, start, end, excluded) ==
  LET Here(word) == {i \in start..end : s[i] = word /\ ~\E r \in excluded : i \in r.start..r.end}
      Name(i) == Solid(s, i + 1)
      Paren(i) == Lowest({j \in i..Len(s) : s[j] = ")"})
      Caught(i) == Solid(s, Paren(i) + 1)
  IN DeclaredFrom(s, start, end, start, excluded)
     \cup {Declaration("class", <<s[Name(i)]>>, i, BindingScope(s, start, i)) :
              i \in {j \in Here("class") : IsWord(Token(s, Name(j))) /\ Name(j) <= end}}
     \cup {Declaration("catch", SubSeq(s, i + 2, Paren(i) - 1), i,
                        IF Token(s, Caught(i)) = "{"
                        THEN RangeOf(i, Partner(s, Caught(i), "{", "}")) ELSE Unproven) :
              i \in {j \in Here("catch") : Token(s, j + 1) = "("}}

\* The scopes of a function: from its head on, with its parameters; of its body, its blocks
\* and loops; and the positions of the names of members, which refer to nothing.
FunctionScope(kind, name, start, bodyStart, end, bound) ==
  [kind |-> kind, name |-> name, start |-> start, bodyStart |-> bodyStart, end |-> end,
   bound |-> bound]
BlockScope(start, end, bound) == FunctionScope("block", "none", start, start, end, bound)
MemberName(s, i) == FunctionScope("member", "none", i, i, i, {s[i]})

\* An expression that is a class binds its name inside only.
IsDeclaration(s, i) == Token(s, SolidBefore(s, i - 1)) \in {"none", "{", "}", ";"}

NamesOf(binding) ==
  UNION {BindingNames(d) : d \in IF binding.kind \in {"class", "catch"} THEN {binding.pattern}
                                 ELSE {Declarator(d) : d \in CommaParts(binding.pattern)}}

\* The scopes of bindings, those of the whole function in one from `start` to `end`.
ScopesOf(all, start, end) ==
  {BlockScope(start, end, UNION {NamesOf(b) : b \in {c \in all : c.scope.is = "function"}})}
  \cup {BlockScope(b.scope.start, b.scope.end, NamesOf(b)) :
           b \in {c \in all : c.scope.is = "range"}}
LocalScopes(s, start, end, excluded) ==
  ScopesOf({b \in LocalBindings(s, start, end, excluded) :
              b.kind = "class" => IsDeclaration(s, b.index)}, start, end)

-----------------------------------------------------------------------------
(* Where functions are.                                                    *)

NoHeader == [name |-> "none", open |-> 0, close |-> 0, bodyStart |-> 0, at |-> 0]
Skip(s, i, tokens) == IF Token(s, i) \in tokens THEN Solid(s, i + 1) ELSE i

\* Parameters from `open` on, and a body; named by the word at position `name`, if any.
Headed(s, at, name, open) ==
  LET close == Partner(s, open, "(", ")")
      bodyStart == Solid(s, close + 1)
  IN IF Token(s, open) # "(" \/ close = 0 \/ Token(s, bodyStart) # "{" THEN NoHeader
     ELSE [name |-> Token(s, name), open |-> open, close |-> close, bodyStart |-> bodyStart,
           at |-> at]
NamedHead(s, at, name) ==
  IF name > 0 /\ IsWord(Token(s, name)) THEN Headed(s, at, name, Solid(s, name + 1))
  ELSE Headed(s, at, 0, name)

\* `function` or a method at position i, with its parameters and a body.
HeadFrom(s, at, method) ==
  IF method THEN NamedHead(s, at, Skip(s, Skip(s, at, {"get", "set"}), {"*"}))
  ELSE IF Token(s, at) = "function" THEN NamedHead(s, at, Skip(s, Solid(s, at + 1), {"*"}))
  ELSE NoHeader
HeadOf(s, i, method) == HeadFrom(s, Skip(s, Solid(s, i), {"async"}), method)
Within(s, from, to) == SubSeq(s, from + 1, to - 1)

ArrowStart(s, arrow) ==
  LET last == SolidBefore(s, arrow - 1)
      before == SolidBefore(s, last - 1)
  IN IF last = 0 THEN 0
     ELSE IF s[last] = ")" THEN PartnerBefore(s, last, "(", ")")
     ELSE IF ~IsWord(s[last]) THEN 0
     ELSE IF Token(s, before) = "async" THEN before ELSE last

RECURSIVE ArrowEnd(_, _, _)
ArrowEnd(s, i, depth) ==
  CASE i > Len(s) -> Len(s)
    [] s[i] \in Openers -> ArrowEnd(s, i + 1, depth + 1)
    [] s[i] \in Closers -> IF depth = 0 THEN i - 1 ELSE ArrowEnd(s, i + 1, depth - 1)
    [] s[i] \in {";", ","} /\ depth = 0 -> i - 1
    [] OTHER -> ArrowEnd(s, i + 1, depth)

NoAsync(p) == IF p[1] = "async" /\ Len(p) > 1 THEN Trimmed(Tail(p)) ELSE p
NoParentheses(p) ==
  IF p[1] = "(" THEN SubSeq(p, 2, Highest({i \in 1..Len(p) : p[i] = ")"}) - 1) ELSE p
ArrowNames(s, start, arrow) ==
  ParameterNames(NoParentheses(NoAsync(Trimmed(SubSeq(s, start, arrow - 1)))))

\* Nested functions and arrows with a body.  A body of a single character would be none; a
\* word stands for a longer one.
HeadNames(s, h) == ({h.name} \ {"none"}) \cup ParameterNames(Within(s, h.open, h.close))
FunctionAt(s, i, h) ==
  FunctionScope("function", h.name, i, h.bodyStart, Partner(s, h.bodyStart, "{", "}"),
                HeadNames(s, h))
ArrowAt(s, i) ==
  LET bodyStart == Solid(s, i + 1)
      end == IF Token(s, bodyStart) = "{" THEN Partner(s, bodyStart, "{", "}")
             ELSE ArrowEnd(s, bodyStart, 0)
      start == ArrowStart(s, i)
  IN FunctionScope("arrow", "none", start, bodyStart, end, ArrowNames(s, start, i))

PlainFunctions(s, rootFunction, rootArrow) ==
  {FunctionAt(s, i, HeadOf(s, i, FALSE)) :
     i \in {j \in 1..Len(s) : s[j] = "function" /\ j # rootFunction
                              /\ HeadOf(s, j, FALSE) # NoHeader}}
  \cup {ArrowAt(s, i) : i \in {j \in 1..Len(s) : s[j] = "=>" /\ j # rootArrow
                                               /\ ArrowStart(s, j) > 0}}

-----------------------------------------------------------------------------
(* Members of classes and object literals.                                 *)

IsModifier(s, i) == Token(s, i) \in Modifiers /\ Token(s, Solid(s, i + 1)) # "("

RECURSIVE Unmodified(_, _)
Unmodified(s, i) == IF IsModifier(s, i) THEN Unmodified(s, Solid(s, i + 1)) ELSE Skip(s, i, {"*"})

\* Modifiers and the name of a method that starts at position i.
MethodNames(s, i) ==
  LET name == Unmodified(s, i)
      modifiers == {j \in i..name - 1 : s[j] \in Modifiers}
  IN {MemberName(s, j) : j \in modifiers}
     \cup (IF IsWord(Token(s, name)) /\ Token(s, Solid(s, name + 1)) = "("
           THEN {MemberName(s, name)} ELSE {})

IsMethodHeader(s, i) ==
  LET name == Unmodified(s, i)
  IN Token(s, name) = "[" \/ (IsWord(Token(s, name)) /\ Token(s, Solid(s, name + 1)) = "(")

\* The last parameter list before position `to`, if it starts after `from`.
ParameterList(s, from, to) ==
  LET close == Highest({i \in 1..to : s[i] = ")"})
      open == PartnerBefore(s, close, "(", ")")
  IN IF close >= from /\ open >= from THEN <<open, close>> ELSE << >>

\* The name of a field in from..to, and its initializer, which knows the name of the class.
FieldScopes(s, from, to, class) ==
  LET text == SubSeq(s, 1, to)
      name == Skip(text, Solid(text, from), {"static"})
      eq == FirstOutside(SubSeq(s, from, to), {"="})
  IN (IF IsWord(Token(text, name)) THEN {MemberName(s, name)} ELSE {})
     \cup (IF class # "none" /\ eq > 0 /\ from + eq <= to
           THEN {FunctionScope("field", "none", from + eq, from + eq, to, {class})} ELSE {})

\* Fields without semicolons, a line each.
LineScopes(s, from, to, class) ==
  LET cuts == {from - 1, to + 1} \cup {i \in from..to : s[i] = "nl"}
      Line(c) == Lowest({d \in cuts : d > c}) - 1
  IN UNION {FieldScopes(s, c + 1, Line(c), class) :
              c \in {d \in cuts \ {to + 1} : Trimmed(SubSeq(s, d + 1, Line(d))) # << >>}}

\* The last line that starts a method after fields.
MethodLine(s, from, to) ==
  Highest({i + 1 : i \in {j \in from..to - 1 : s[j] = "nl" /\ IsMethodHeader(s, Solid(s, j + 1))
                                             /\ Solid(s, j + 1) < to}})

ParametersIn(s, list) == IF list = << >> THEN {} ELSE ParameterNames(Within(s, list[1], list[2]))
MethodScope(s, start, bodyStart, class) ==
  FunctionScope("method", "none", start, bodyStart, Partner(s, bodyStart, "{", "}"),
                ParametersIn(s, ParameterList(s, start, bodyStart)) \cup ({class} \ {"none"}))

\* The members from `start` to the end of the body, read up to position i.
RECURSIVE MembersFrom(_, _, _, _, _, _)
MembersFrom(s, class, start, i, depth, end) ==
  LET first == Lowest({j \in start..end - 1 : s[j] \notin Blanks \cup {";"}})
      again(j, d) == MembersFrom(s, class, start, j, d, end)
      next(j) == MembersFrom(s, class, j, j, 0, end)
      static == Trimmed(SubSeq(s, first, i - 1)) = <<"static">>
      parameters == ParameterList(s, first, i) # << >>
      line == MethodLine(s, first, i)
      close == Partner(s, i, "{", "}")
      method == static \/ (parameters /\ IsMethodHeader(s, first))
  IN CASE first = 0 -> {}
       [] i < first -> again(first, 0)
       [] i >= end -> FieldScopes(s, first, end - 1, class)
       [] s[i] \in {"(", "["} -> again(i + 1, depth + 1)
       [] s[i] \in {")", "]"} -> again(i + 1, IF depth = 0 THEN 0 ELSE depth - 1)
       [] s[i] = ";" /\ depth = 0 -> FieldScopes(s, first, i - 1, class) \cup next(i + 1)
       [] s[i] = "{" /\ depth = 0 /\ method ->
            MethodNames(s, first) \cup {MethodScope(s, first, i, class)} \cup next(close + 1)
       [] s[i] = "{" /\ depth = 0 /\ ~method /\ parameters /\ line > 0 ->
            LineScopes(s, first, line - 1, class) \cup MethodNames(s, Solid(s, line))
            \cup {MethodScope(s, line, i, class)} \cup next(close + 1)
       [] s[i] = "{" /\ depth = 0 -> again(close + 1, depth)
       [] OTHER -> again(i + 1, depth)

\* The body of a class; classes in what it extends are passed over.
RECURSIVE ClassBody(_, _, _)
ClassBody(s, i, depth) ==
  CASE i > Len(s) -> 0
    [] s[i] = "class" /\ depth = 0 /\ ClassBody(s, i + 1, 0) > 0 ->
         ClassBody(s, Partner(s, ClassBody(s, i + 1, 0), "{", "}") + 1, depth)
    [] s[i] \in {"(", "["} -> ClassBody(s, i + 1, depth + 1)
    [] s[i] \in {")", "]"} -> ClassBody(s, i + 1, IF depth = 0 THEN 0 ELSE depth - 1)
    [] s[i] = "{" /\ depth = 0 -> i
    [] OTHER -> ClassBody(s, i + 1, depth)

ClassScopes(s) ==
  UNION {LET name == Solid(s, i + 1)
             named == IsWord(Token(s, name))
             start == ClassBody(s, i + 1, 0)
         IN (IF named THEN {MemberName(s, name)} ELSE {})
            \cup (IF start = 0 THEN {}
                  ELSE MembersFrom(s, IF named THEN s[name] ELSE "none", start + 1, start + 1, 0,
                               Partner(s, start, "{", "}"))) :
         i \in {j \in 1..Len(s) : s[j] = "class"}}

\* Back over what may stand before the name of a method.
RECURSIVE WithModifiers(_, _)
WithModifiers(s, i) ==
  LET before == SolidBefore(s, i - 1)
      start == IF Token(s, before) = "*" THEN before ELSE i
      word == SolidBefore(s, start - 1)
  IN IF Token(s, word) \in Modifiers \ {"static"} THEN WithModifiers(s, word) ELSE start

\* Where a method of an object literal starts whose parameters open at `paren`.
ObjectMethodStart(s, paren) ==
  LET last == SolidBefore(s, paren - 1)
      name == IF Token(s, last) = "]" THEN PartnerBefore(s, last, "[", "]")
              ELSE IF IsWord(Token(s, last)) THEN last ELSE 0
      start == WithModifiers(s, name)
  IN IF last = 0 THEN 0
     ELSE IF s[last] \in {"{", ","} THEN last + 1
     ELSE IF name > 0 /\ Token(s, SolidBefore(s, start - 1)) \in {"none", "{", ","} THEN start
     ELSE 0

IsObjectMethod(s, start) ==
  LET name == Unmodified(s, Solid(s, start))
  IN /\ ~(Token(s, name) \in {"if", "for", "while", "switch", "catch", "with"})
     /\ \/ Token(s, name) \in {"(", "["}
        \/ IsWord(Token(s, name)) /\ Token(s, Solid(s, name + 1)) = "("

\* Those inside the body of another are not looked for.
RECURSIVE ObjectScopes(_, _)
ObjectScopes(s, i) ==
  LET close == SolidBefore(s, i - 1)
      paren == PartnerBefore(s, close, "(", ")")
      start == ObjectMethodStart(s, paren)
      end == Partner(s, i, "{", "}")
  IN IF i > Len(s) THEN {}
     ELSE IF /\ s[i] = "{" /\ Token(s, close) = ")" /\ paren > 0
             /\ start > 0 /\ IsObjectMethod(s, start) /\ end > 0
     THEN MethodNames(s, Solid(s, start)) \cup {MethodScope(s, start, i, "none")}
          \cup ObjectScopes(s, end + 1)
     ELSE ObjectScopes(s, i + 1)

-----------------------------------------------------------------------------
(* All scopes of a text.                                                   *)

\* A function declared as a statement binds its name around itself.  On a new line a
\* statement starts if an expression could end before it.
NeedsOperand == {"const", "let", "var", "new", "throw", "case", "delete", "typeof", "void",
                 "instanceof", "in", "of", "await", "yield", "extends"}
IsStatement(shown, start, at) ==
  LET async == IF Token(shown, at - 1) = "async" THEN at - 1 ELSE at
      last == SolidBefore(shown, async - 1)
      Opened(open, close) == Cardinality({i \in start..last : shown[i] = open})
                             - Cardinality({i \in start..last : shown[i] = close})
  IN /\ \/ last < start \/ shown[last] \in {"{", "}", ";"}
        \/ /\ \E i \in last..at - 1 : shown[i] = "nl"
           /\ (IsWord(shown[last]) \/ shown[last] \in Literals \cup {"]", ")"})
           /\ shown[last] \notin NeedsOperand
     /\ Opened("(", ")") = 0 /\ Opened("[", "]") = 0

ScopeOfName(name, scope, start, end) ==
  CASE scope.is = "none" -> {}
    [] scope.is = "function" -> {BlockScope(start, end, {name})}
    [] OTHER -> {BlockScope(scope.start, scope.end, {name})}
DeclaredName(s, shown, start, end, f) ==
  IF ~IsStatement(shown, start, f.start) THEN {}
  ELSE ScopeOfName(f.name, BindingScope(s, start, f.start), start, end)

IsInside(f, g) == g.start < f.start /\ f.end <= g.end
Size(f) == f.end - f.start
\* The innermost scopes of `all` around f.
Innermost(f, all) == LET around == {g \in all : IsInside(f, g)}
                     IN {g \in around : \A h \in around : Size(g) <= Size(h)}

NamedIn(f, g, all) ==
  f.kind = "function" /\ f.name # "none" /\ g \in Innermost(f, all) /\ f.start >= g.bodyStart

InnerScopes(s, shown, all, g) ==
  LocalScopes(s, g.bodyStart, g.end, {f \in all : IsInside(f, g)})
  \cup UNION {DeclaredName(s, shown, g.bodyStart, g.end, f) : f \in {h \in all : NamedIn(h, g, all)}}
WithInner(s, shown, all) ==
  all \cup UNION {InnerScopes(s, shown, all, g) : g \in {f \in all : f.kind # "member"}}
NestedScopes(s, shown, rootFunction, rootArrow) ==
  WithInner(s, shown, PlainFunctions(s, rootFunction, rootArrow)
                      \cup ClassScopes(s) \cup ObjectScopes(s, 1))

RootArrow(s) ==
  Lowest({i \in 1..Len(s) :
            /\ s[i] = "=>" /\ ArrowStart(s, i) > 0
            /\ Trimmed(SubSeq(s, 1, ArrowStart(s, i) - 1)) \in {<< >>, <<"async">>}})

\* `root` is the head of a function, `method` that of a method.
RootNames(s, root, arrow, method) ==
  IF root = NoHeader /\ arrow > 0 THEN ArrowNames(s, ArrowStart(s, arrow), arrow)
  ELSE UNION {HeadNames(s, h) : h \in IF root # NoHeader THEN {root}
                                      ELSE {[method EXCEPT !.name = "none"]} \ {NoHeader}}

RootStart(s, root, arrow, method) ==
  CASE root # NoHeader -> root.bodyStart
    [] root = NoHeader /\ method # NoHeader -> method.bodyStart
    [] OTHER -> IF arrow > 0 THEN Solid(s, arrow + 1) ELSE 0
ScopesFrom(s, shown, start, nested) ==
  LET end == IF Token(s, start) = "{" THEN Partner(s, start, "{", "}") ELSE Len(s)
      functions == {f \in nested : f.kind # "block"}
  IN IF start = 0 THEN {}
     ELSE LocalScopes(s, start, end, nested)
          \cup UNION {DeclaredName(s, shown, start, end, f) :
                        f \in {h \in functions : /\ h.kind = "function" /\ h.name # "none"
                                                 /\ h.start \in start..end
                                                 /\ Innermost(h, functions) = {}}}

-----------------------------------------------------------------------------
(* Words that refer to nothing where they stand.                           *)

AsyncBefore(shown, i) ==
  LET at == Highest({j \in 1..i - 1 : shown[j] # " "})
  IN IF Token(shown, at) = "async" THEN {at} ELSE {}

\* A name with its members.
RECURSIVE IsMember(_, _)
IsMember(s, i) ==
  \/ Solid(s, i) = 0
  \/ /\ Token(s, Solid(s, i)) = "[" /\ Partner(s, Solid(s, i), "[", "]") > 0
     /\ IsMember(s, Partner(s, Solid(s, i), "[", "]") + 1)
  \/ /\ Token(s, Solid(s, i)) = "." /\ IsWord(Token(s, Solid(s, Solid(s, i) + 1)))
     /\ IsMember(s, Solid(s, Solid(s, i) + 1) + 1)

IsTarget(left) ==
  \/ IsWord(Token(left, 1)) /\ IsMember(left, 2)
  \/ Token(left, 1) = "[" /\ Partner(left, 1, "[", "]") = Len(left)
  \/ Token(left, 1) = "{" /\ Partner(left, 1, "{", "}") = Len(left)

\* The `of` of a loop.
LoopWord(s, for) ==
  LET open == Skip(s, Solid(s, for + 1), {"await"})
      close == Partner(s, open, "(", ")")
      header == Within(s, open, close)
      Left(i) == LET left == Trimmed(SubSeq(header, 1, i - 1))
                 IN IF Token(left, 1) \in Declarers /\ Len(left) > 1
                    THEN Trimmed(Tail(left)) ELSE left
  IN IF \/ Token(s, SolidBefore(s, for - 1)) = "." \/ Token(s, open) # "(" \/ close = 0
        \/ FirstOutside(header, {";"}) > 0
     THEN {}
     ELSE {open + i : i \in {Lowest({j \in Outside(header) :
              /\ header[j] = "of" /\ Left(j) # << >> /\ Solid(header, j + 1) > 0
              /\ Left(j) \notin {<<d>> : d \in Declarers} /\ IsTarget(Left(j))})} \ {0}}

SyntaxPositions(s, shown) ==
  LET ofArrow(i) == LET start == ArrowStart(s, i) IN
        IF Token(s, start) = "(" THEN AsyncBefore(shown, start)
        ELSE IF /\ Token(s, start) = "async" /\ IsWord(Token(s, Solid(s, start + 1)))
                /\ \A j \in start..i : shown[j] # "nl" THEN {start} ELSE {}
  IN UNION {AsyncBefore(shown, i) : i \in {j \in 1..Len(s) : s[j] = "function"}}
     \cup UNION {LoopWord(s, i) : i \in {j \in 1..Len(s) : s[j] = "for"}}
     \cup UNION {ofArrow(i) : i \in {j \in 1..Len(s) : s[j] = "=>" /\ ArrowStart(s, j) > 0}}

IsKey(s, i) == Token(s, Solid(s, i + 1)) = ":" /\ Token(s, SolidBefore(s, i - 1)) \in {"{", ","}

\* A word that starts a line, a block or a statement is a label.
IsLabel(s, i) ==
  /\ Token(s, Solid(s, i + 1)) = ":"
  /\ \/ Token(s, Highest({j \in 1..i - 1 : s[j] # " "})) \in {"nl", "none"}
     \/ Token(s, SolidBefore(s, i - 1)) \in {"none", "{", "}", ";"}
IsLabelReference(s, i) == Token(s, SolidBefore(s, i - 1)) \in {"break", "continue"}

RefersOutside(s, i, names, scopes) ==
  /\ IsWord(s[i]) /\ s[i] \notin names
  /\ ~\E f \in scopes : i \in f.start..f.end /\ s[i] \in f.bound
  /\ Token(s, SolidBefore(s, i - 1)) # "."
  /\ ~IsLabel(s, i) /\ ~IsLabelReference(s, i) /\ ~IsKey(s, i)

\* A text with its literals masked, and shown.
Sensitive(s, shown, root, arrow, method) ==
  \E nested \in {NestedScopes(s, shown, root.at, arrow)} :
  \E scopes \in {nested \cup ScopesFrom(s, shown, RootStart(s, root, arrow, method), nested)} :
  \E names \in {ReservedWords \cup RootNames(s, root, arrow, method)} :
  \E i \in (1..Len(s)) \ SyntaxPositions(s, shown) : RefersOutside(s, i, names, scopes)
SensitiveMasked(s, shown) ==
  Sensitive(s, shown, HeadOf(s, 1, FALSE), RootArrow(s), HeadOf(s, 1, TRUE))
ClosureSensitive(text) == SensitiveMasked(Masked(text, " "), Masked(text, "0"))

-----------------------------------------------------------------------------
(* Functions of a program: the statements of a body, each with the name it *)
(* binds, a name it uses (or the parameter it has) and a body of its own.  *)

Statement(kind, x, y, inner) == [kind |-> kind, x |-> x, y |-> y, inner |-> inner]
Plain == {"use", "line", "member", "key", "template", "lambda", "let", "bare", "var", "renamed",
          "defaulted", "listed"}
Enclosing == {"block", "if", "for", "loop", "catch", "label", "function", "named", "arrow",
              "async", "class", "field", "method"}
\* Only one of the two names matters.
OfOneName == {"use", "line", "template", "bare", "var", "block", "if", "arrow", "async", "method"}
OfFunctions == {"function", "named", "arrow", "async", "class", "method"}

RECURSIVE TextOfAll(_)
TextOf(t) ==
  LET x == t.x   y == t.y   inner == TextOfAll(t.inner) IN
  CASE t.kind = "use" -> <<y, ";">>
    [] t.kind = "line" -> <<y, "nl">>
    [] t.kind = "member" -> <<y, ".", x, ";">>
    [] t.kind = "key" -> <<"(", "{", x, ":", y, "}", ")", ";">>
    [] t.kind = "template" -> <<"template", "raw", "${", y, "}", "template", ";">>
    [] t.kind = "lambda" -> <<x, "=>", y, ";">>
    [] t.kind = "let" -> <<"let", x, "=", y, ";">>
    [] t.kind = "bare" -> <<"let", x, "nl">>
    [] t.kind = "var" -> <<"var", x, "=", "0", "nl">>
    [] t.kind = "renamed" -> <<"const", "{", y, ":", x, "}", "=", "0", ";">>
    [] t.kind = "defaulted" -> <<"let", "{", x, "=", y, "}", "=", "0", ";">>
    [] t.kind = "listed" -> <<"let", x, "=", "0", ",", y, ";">>
    [] t.kind = "block" -> <<"{">> \o inner \o <<"}">>
    [] t.kind = "if" -> <<"if", "(", y, ")", "{">> \o inner \o <<"}">>
    [] t.kind = "for" -> <<"for", "(", "const", x, "of", y, ")", "{">> \o inner \o <<"}">>
    [] t.kind = "loop" -> <<"for", "(", "let", x, "=", "0", ";", y, ";", ")", "{">>
                          \o inner \o <<"}">>
    [] t.kind = "catch" -> <<"try", "{", y, "}", "catch", "(", x, ")", "{">> \o inner \o <<"}">>
    [] t.kind = "label" -> <<x, ":", "{">> \o inner \o <<"break", x, ";", "}">>
    [] t.kind = "function" -> <<"function", x, "(", y, ")", "{">> \o inner \o <<"}">>
    [] t.kind = "named" -> <<"(", "function", x, "(", y, ")", "{">> \o inner \o <<"}", ")", ";">>
    [] t.kind = "arrow" -> <<"(", y, ")", "=>", "{">> \o inner \o <<"}", ";">>
    [] t.kind = "async" -> <<"async", y, "=>", "{">> \o inner \o <<"}", ";">>
    [] t.kind = "class" -> <<"class", x, "{", "async", "run", "(", y, ")", "{">>
                           \o inner \o <<"}", "}">>
    [] t.kind = "field" -> <<"class", x, "{", "made", "=", y, "nl",
                             "static", "run", "(", ")", "{">>
                           \o inner \o <<"}", "}">>
    [] t.kind = "method" -> <<"(", "{", "run", "(", y, ")", "{">> \o inner \o <<"}", "}", ")", ";">>
TextOfAll(stmts) == FlattenSeq([i \in 1..Len(stmts) |-> TextOf(stmts[i])])

\* The three forms of an extension, each with a parameter.
Forms(p, stmts) ==
  {<<"function", "made", "(", p, ")", "{">> \o TextOfAll(stmts) \o <<"}">>,
   <<"(", p, ")", "=>", "{">> \o TextOfAll(stmts) \o <<"}">>,
   <<"run", "(", p, ")", "{">> \o TextOfAll(stmts) \o <<"}">>}

-----------------------------------------------------------------------------
(* What the language says: the names a function uses and nothing in it     *)
(* binds.                                                                  *)

\* Bound by the statements of a block, and by `var` anywhere in a function.
BlockNames(stmts) ==
  {stmts[i].x : i \in {j \in 1..Len(stmts) : stmts[j].kind \in
     {"let", "bare", "renamed", "defaulted", "listed", "function", "class", "field"}}}
  \cup {stmts[i].y : i \in {j \in 1..Len(stmts) : stmts[j].kind = "listed"}}

RECURSIVE VarNames(_)
VarNames(stmts) ==
  UNION {IF stmts[i].kind = "var" THEN {stmts[i].x}
         ELSE IF stmts[i].kind \in OfFunctions \cup {"field"} \cup Plain THEN {}
         ELSE VarNames(stmts[i].inner) : i \in 1..Len(stmts)}

RECURSIVE FreeNames(_, _)
FreeNames(stmts, outer) ==
  LET bound == outer \cup BlockNames(stmts)
      Own(t) == IF t.kind \in {"lambda", "for", "loop", "catch", "field"} THEN {t.x} ELSE {}
      Inside(t) ==
        CASE t.kind \in OfFunctions ->
               {t.y} \cup VarNames(t.inner) \cup (IF t.kind = "named" THEN {t.x} ELSE {})
          [] t.kind = "field" -> VarNames(t.inner)
          [] OTHER -> Own(t)
      Used(t) ==
        CASE t.kind \in {"bare", "var", "renamed", "listed", "block", "label"} -> {}
          [] t.kind \in OfFunctions -> {}
          [] t.kind = "catch" -> {t.y} \ bound
          [] OTHER -> {t.y} \ (bound \cup Own(t))
  IN UNION {Used(stmts[i]) \cup FreeNames(stmts[i].inner, bound \cup Inside(stmts[i])) :
              i \in 1..Len(stmts)}

Captured(p, stmts) == FreeNames(stmts, {p} \cup VarNames(stmts))

-----------------------------------------------------------------------------
(* Every body, grown from nothing.                                         *)

\* A statement before or after the others, or one around them, with a use behind it or not.
\* Nothing tells names apart: the first one may be any.
GrowBody ==
  /\ written = << >> /\ nesting < MaxNesting /\ nesting' = nesting + 1
  /\ \E kind \in Plain \cup Enclosing, x, y \in Idents :
       /\ body = << >> => x = CHOOSE n \in Idents : TRUE
       /\ kind \in OfOneName => x = y
       /\ \/ /\ kind \in Plain
             /\ \E t \in {Statement(kind, x, y, << >>)} : body' \in {<<t>> \o body, Append(body, t)}
          \/ /\ kind \in Enclosing
             /\ \E rest \in {<< >>, <<Statement("use", y, y, << >>)>>} :
                  body' = <<Statement(kind, x, y, body)>> \o rest
  /\ UNCHANGED <<written, remembered, installed, doubtful>>

-----------------------------------------------------------------------------
(* Functions of one source, made with the values that the names it does    *)
(* not bind have in each, as extensions of a runtime.                      *)

\* What tells an extension from others: its source, and itself if its names matter.
\* Mutated form: only its source.
ExtensionKeyBySource(text, o) == "source"
ExtensionKey(text, o) == IF ClosureSensitive(text) THEN o ELSE "source"

\* Extensions that use a name they bind, or one they do not, or none.
Extension(p, text) == [parameter |-> p, keys |-> [o \in Objects |-> ExtensionKey(text, o)]]
Extended == {<< >>} \cup {<<Statement("use", y, y, << >>)>> : y \in Idents}

\* Not remembered, and not twice in one list.
NotYet(list) ==
  LET key(i) == written.keys[list[i]]
  IN {i \in 1..Len(list) : key(i) \notin remembered /\ \A j \in 1..i - 1 : key(j) # key(i)}
KeysOf(list, S) == {written.keys[list[i]] : i \in S}
At(list, S) == LET order == SetToSortSeq(S, <) IN [i \in 1..Len(order) |-> list[order[i]]]

\* Mutated form: nothing is remembered of a list that fails.
LearnAtEnd(list, until) ==
  remembered' = remembered \cup IF until > Len(list) THEN KeysOf(list, NotYet(list)) ELSE {}
Learn(list, until) ==
  remembered' = remembered \cup KeysOf(list, {i \in NotYet(list) : i < until})

\* One by one, up to the one that throws; the runtime may have taken that in.
RegisterAll(list, until) ==
  /\ written # << >> /\ Len(installed) + Len(list) <= MaxRegistered
  /\ until <= Len(list) => until \in NotYet(list)
  /\ Learn(list, until)
  /\ LET done == installed \o At(list, {i \in NotYet(list) : i < until})
     IN \/ installed' = done /\ UNCHANGED doubtful
        \/ until <= Len(list) /\ installed' = Append(done, list[until]) /\ doubtful' = TRUE
  /\ UNCHANGED <<body, nesting, written>>

\* configure() with mode reset or replace, and dispose().
\* Mutated form: one that throws leaves everything remembered.
ForgetUnlessThrown(throws) == remembered' = IF throws THEN remembered ELSE {}
Forget(throws) == remembered' = {}

\* One that throws may have cleared the runtime or not.
Reset ==
  /\ written # << >>
  /\ \E clears, throws \in BOOLEAN :
       /\ clears \/ throws
       /\ Forget(throws)
       /\ installed' = IF clears THEN << >> ELSE installed
       /\ doubtful' = ~clears
  /\ UNCHANGED <<body, nesting, written>>

FunctionInit ==
  /\ nesting = 0
  /\ \/ body = << >> /\ written = << >>
     \/ \E p \in Idents : /\ body \in Extended
                          /\ written \in {Extension(p, text) : text \in Forms(p, body)}
  /\ remembered = {} /\ installed = << >> /\ doubtful = FALSE

FunctionNext ==
  \/ GrowBody
  \/ \E list \in {<<o>> : o \in Objects} \cup {<<o, q>> : o, q \in Objects} :
       \E until \in 1..Len(list) + 1 : RegisterAll(list, until)
  \/ Reset

-----------------------------------------------------------------------------
(* Properties.                                                             *)

(* A function that uses a name it does not bind is told from others of its *)
(* source.  One that binds all it uses is not, as long as its statements   *)
(* hold no others: what is not proven bound counts as used                 *)
(* (isClosureSensitiveFunctionSource).                                     *)
ClosuresAreSeen == written = << >> => \A p \in Idents : \A text \in Forms(p, body) :
  \E seen \in {ClosureSensitive(text)} :
    IF Captured(p, body) # {} THEN seen
    ELSE (\A i \in 1..Len(body) : body[i].kind \in Plain) => ~seen

(* What is remembered as registered does in the runtime what the extension *)
(* would do, and unless a call failed half-way nothing is registered twice *)
(* (registerRuntimeExtensions).                                            *)
RegisteredIsKept ==
  LET Meaning(o) == IF Captured(written.parameter, body) # {} THEN o ELSE "source"
  IN written # << >> =>
       /\ \A o \in Objects : written.keys[o] \in remembered =>
            \E i \in 1..Len(installed) : Meaning(installed[i]) = Meaning(o)
       /\ ~doubtful => \A i \in 1..Len(installed) : \A j \in 1..i - 1 :
                         written.keys[installed[i]] # written.keys[installed[j]]
=============================================================================
