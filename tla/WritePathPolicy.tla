---------------------------- MODULE WritePathPolicy ----------------------------
(***************************************************************************)
(* What a policy blocks, decided in two ways that have to agree: for one   *)
(* collection, by the most specific rule there is for it; for a whole      *)
(* database or the client, by every rule that may concern it.              *)
(*                                                                         *)
(* A key is the record of what its text names, instead of the text.  Of a  *)
(* collection's name it only matters what stands before its first dot.     *)
(***************************************************************************)
EXTENDS Naturals, FiniteSets

CONSTANTS Databases, Pools, Collections,
          PrefixOf,   \* what stands before the first dot of a name, or NoName
          RulesGiven, \* the rules a policy is made of
          MaxKeys, NoName

Settings == {"inherit", "allow", "block"}
Rules == [mode : {"allow-both", "model-only"}, raw : Settings, management : Settings,
          gridfs : Settings, onViolation : {"throw", "warn"}]

ASSUME PolicyAssumption ==
  /\ NoName \notin Databases \cup Pools /\ DOMAIN PrefixOf = Collections /\ RulesGiven \subseteq Rules

Namespaces == [pool : Pools \cup {NoName}, db : Databases, collection : Collections]

Key(form, pool, db, collection) ==
  [form |-> form, pool |-> pool, db |-> db, collection |-> collection]

\* The candidates for a namespace, the most specific first: the internal key,
\* pool:db.collection, db.collection, and the collection alone.
Candidates(n) ==
  << Key("internal", n.pool, n.db, n.collection), Key("pooled", n.pool, n.db, n.collection),
     Key("qualified", NoName, n.db, n.collection), Key("bare", NoName, NoName, n.collection) >>

Keys == {k \in UNION {{Candidates(n)[i] : i \in 1..4} : n \in Namespaces} :
           k.form = "pooled" => k.pool # NoName}

VARIABLES default, rules   \* the fallback rule, and those of the keys

policyVars == <<default, rules>>

PolicyTypeOK == default \in Rules /\ DOMAIN rules \subseteq Keys
                /\ \A k \in DOMAIN rules : rules[k] \in Rules

\* The policy is normalised one key after the other.
PolicyInit == default \in RulesGiven /\ rules = [k \in {} |-> default]

AddRule(k, rule) ==
  /\ Cardinality(DOMAIN rules) < MaxKeys /\ k \notin DOMAIN rules
  /\ rules' = [x \in DOMAIN rules \cup {k} |-> IF x = k THEN rule ELSE rules[x]]
  /\ UNCHANGED default

PolicyNext == \E k \in Keys, rule \in RulesGiven : AddRule(k, rule)
PolicySpec == PolicyInit /\ [][PolicyNext]_policyVars

-----------------------------------------------------------------------------
(* One collection.                                                         *)

Found(n) == LET keys == Candidates(n) IN {i \in 1..4 : keys[i] \in DOMAIN rules}
First(S) == CHOOSE i \in S : \A j \in S : i <= j
RuleFor(n) == IF Found(n) = {} THEN default ELSE rules[Candidates(n)[First(Found(n))]]

Inherits(choice, inherited) == IF choice = "inherit" THEN inherited ELSE choice = "allow"

\* isAllowed: a model may manage and write what is closed to others.
Allowed(rule, source, category) ==
  LET open == rule.mode = "allow-both"
  IN CASE category = "raw" -> Inherits(rule.raw, open)
       [] category = "management" -> Inherits(rule.management, open \/ source = "model")
       [] category = "gridfs" -> Inherits(rule.gridfs, open)
       [] OTHER -> open \/ source = "model"

Outcome(rule) == IF rule.onViolation = "warn" THEN "warned" ELSE "refused"

OnCollection(n, source, category) ==
  LET rule == RuleFor(n) IN IF Allowed(rule, source, category) THEN "allowed" ELSE Outcome(rule)

-----------------------------------------------------------------------------
(* A database, or the client.                                              *)

\* Mutated form: a rule for a name alone concerns no database.
ConcernsNamed(k, db) == k.db = db

\* A key with a dot is taken to name its database before it, one without a dot
\* between colons; a name alone concerns every database.
Concerns(k, db) ==
  IF k.form \in {"pooled", "qualified"} \/ k.pool # NoName THEN k.db = db
  ELSE IF PrefixOf[k.collection] # NoName THEN PrefixOf[k.collection] = db
  ELSE k.form = "bare" \/ k.db = db

Closes(rule, category) ==
  IF rule.mode = "model-only" THEN rule[category] # "allow" ELSE rule[category] = "block"

\* A rule that refuses goes before one that warns.
Chosen(S) == CHOOSE r \in S : r.onViolation = "throw" \/ ~ \E x \in S : x.onViolation = "throw"

Decided(S, category) ==
  LET closing == {r \in S : Closes(r, category)}
  IN IF closing = {} THEN "allowed" ELSE Outcome(Chosen(closing))

OnDatabase(db, category) ==
  Decided({default} \cup {rules[k] : k \in {x \in DOMAIN rules : Concerns(x, db)}}, category)

OnClient == Decided({default} \cup {rules[k] : k \in DOMAIN rules}, "raw")

-----------------------------------------------------------------------------
(* Properties.                                                             *)

\* Keys that name a collection with a dot, and no database in front of a dot.
Misread(k) == PrefixOf[k.collection] # NoName /\ k.form \in {"internal", "bare"} /\ k.pool = NoName

(* What a database does not refuse is refused on none of its collections,  *)
(* but by a rule whose key is misread, and what the client does not refuse *)
(* is refused on no database: the screening of a database finds every rule *)
(* that refuses something in it, whatever else warns or is inherited.      *)
ScreeningAgrees == \A db \in Databases :
  /\ \A category \in {"raw", "management"} : OnDatabase(db, category) # "refused" =>
       \A n \in Namespaces : n.db = db /\ OnCollection(n, "collection", category) = "refused" =>
         Found(n) # {} /\ Misread(Candidates(n)[First(Found(n))])
  /\ OnDatabase(db, "raw") = "refused" => OnClient = "refused"

(* A policy decides alike for a collection, its database and the client.   *)
PolicyConsistent == PolicyTypeOK /\ ScreeningAgrees
=============================================================================
