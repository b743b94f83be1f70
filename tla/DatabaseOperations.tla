--------------------------- MODULE DatabaseOperations ---------------------------
(***************************************************************************)
(* The operations that write to a collection, manage it, or hand out       *)
(* something that can: each asks the policy, on behalf of whoever calls,   *)
(* for all it is about to touch, then looks at its arguments, and then     *)
(* asks the server.  A model is a source of its own: what is called while  *)
(* one of its writes runs, in a hook say, counts as the model's.           *)
(***************************************************************************)
EXTENDS WritePathPolicy

CONSTANTS Callers,
          Production,  \* the process runs in production
          KeysInUse    \* a bound: the policies that operations are tried with

ASSUME OperationAssumption == NoName \notin Collections /\ KeysInUse \in Nat

VARIABLES open,    \* the runtime has been constructed, with its policy
          inside,  \* the callers that a write of a model is running for
          asked,   \* what a call that has not returned asked the server to touch
          reply    \* and how it ends

operationVars == <<open, inside, asked, reply>>

Paths == {"accessor", "model", "legacy", "database", "client"}
Sources == {"collection", "model", "legacy", "db", "client"}
Categories == {"write", "batch", "raw", "management"}
Touches == [on : Namespaces, source : Sources, category : Categories, path : Paths, by : Callers]

OperationTypeOK ==
  /\ PolicyTypeOK /\ open \in BOOLEAN /\ inside \subseteq Callers /\ asked \subseteq Touches
  /\ reply \in {"none", "refused", "invalid", "asked"}

OperationInit ==
  PolicyInit /\ open = FALSE /\ inside = {} /\ asked = {} /\ reply = "none"

Normalise == ~open /\ PolicyNext /\ UNCHANGED operationVars

Construct ==
  /\ ~open /\ Cardinality(DOMAIN rules) <= KeysInUse
  /\ open' = TRUE /\ UNCHANGED <<policyVars, inside, asked, reply>>

-----------------------------------------------------------------------------
(* One call.                                                               *)

Named(n, name) == IF name = NoName THEN n ELSE [n EXCEPT !.collection = name]

Touching(targets, source, category, path, c) ==
  {[on |-> n, source |-> source, category |-> category, path |-> path, by |-> c] : n \in targets}

\* A call looks at the policy and asks the server at once, so one runs at a time.
Return ==
  /\ reply # "none" /\ reply' = "none" /\ asked' = {}
  /\ UNCHANGED <<policyVars, open, inside>>

\* The policy goes before the arguments, and both before the server.
Answered(refused, sound, touches) ==
  /\ open /\ reply = "none"
  /\ reply' = IF refused THEN "refused" ELSE IF sound THEN "asked" ELSE "invalid"
  /\ asked' = IF ~refused /\ sound THEN touches ELSE {}
  /\ UNCHANGED <<policyVars, open, inside>>

Refused(targets, source, category) ==
  \E n \in targets : OnCollection(n, source, category) = "refused"

\* The source is that of the model write that runs, or the collection's own.
Source(c) == IF c \in inside THEN "model" ELSE "collection"

ByAccessor(c, checked, category, sound, touched) ==
  Answered(Refused(checked, Source(c), category), sound,
           Touching(touched, Source(c), category, "accessor", c))

\* Mutated form: only its own collection is asked for.
ManagementTargetsOwn(n, name) == {n}

\* What a management operation asks for: its own collection, then one it names.
ManagementTargets(n, name) == {n, Named(n, name)}

\* A pipeline writes where its last stage says, if it is $out or $merge: to a name
\* in the same database, or in the one that it says.
WriteTarget(n, into, db) ==
  IF into = NoName THEN {}
  ELSE {[n EXCEPT !.collection = into, !.db = IF db = NoName THEN n.db ELSE db]}

Raw(c, n) == ByAccessor(c, {n}, "raw", TRUE, {n})

Write(c, n) == \E sound \in BOOLEAN : ByAccessor(c, {n}, "write", sound, {n})

BatchWrite(c, n) == \E sound \in BOOLEAN : ByAccessor(c, {n}, "batch", sound, {n})

Aggregate(c, n) == \E into \in Collections \cup {NoName}, db \in Databases \cup {NoName} :
  ByAccessor(c, WriteTarget(n, into, db), "write", TRUE, WriteTarget(n, into, db))

\* Keys without a direction, and an empty list, are invalid.
CreateIndexes(c, n) == \E sound \in BOOLEAN : ByAccessor(c, {n}, "management", sound, {n})

\* So are no name, and the name of the index of _id.
DropIndexes(c, n) == \E sound \in BOOLEAN : ByAccessor(c, {n}, "management", sound, {n})

IndexWrite(c, n) == CreateIndexes(c, n) \/ DropIndexes(c, n)

SearchIndexWrite(c, n) == \E sound \in BOOLEAN : ByAccessor(c, {n}, "management", sound, {n})

Drop(c, n) == ByAccessor(c, {n}, "management", TRUE, {n})

Create(c, n, name) ==
  ByAccessor(c, ManagementTargets(n, name), "management", TRUE, {Named(n, name)})

\* A view without a name is for the server to refuse.
CreateView(c, n, name) ==
  ByAccessor(c, ManagementTargets(n, name), "management", TRUE, {Named(n, name)})

\* A new name for a collection needs a name.
Rename(c, n, name) ==
  ByAccessor(c, ManagementTargets(n, name), "management", name # NoName, {n, Named(n, name)})

\* A validator is an object, levels and actions are those of the server.
SetValidator(c, n) == \E sound \in BOOLEAN : ByAccessor(c, {n}, "management", sound, {n})

\* The modifications are an object that names no other collection, a size is positive.
CollMod(c, n) == \E sound \in BOOLEAN : ByAccessor(c, {n}, "management", sound, {n})

ConvertToCapped(c, n) == \E sound \in BOOLEAN : ByAccessor(c, {n}, "management", sound, {n})

Modify(c, n) == SetValidator(c, n) \/ CollMod(c, n) \/ ConvertToCapped(c, n)

-----------------------------------------------------------------------------
(* Through a model.                                                        *)

EnterModel(c) ==
  /\ open /\ reply = "none" /\ c \notin inside /\ inside' = inside \cup {c}
  /\ UNCHANGED <<policyVars, open, asked, reply>>

LeaveModel(c) ==
  /\ c \in inside /\ reply = "none" /\ inside' = inside \ {c}
  /\ UNCHANGED <<policyVars, open, asked, reply>>

\* Management by a model runs nothing else in between.
ModelManages(c, n, name) == \E sound \in BOOLEAN :
  Answered(Refused(ManagementTargets(n, name), "model", "management"), sound,
           Touching(ManagementTargets(n, name), "model", "management", "model", c))

ModelAggregates(c, n) == \E into \in Collections \cup {NoName}, db \in Databases \cup {NoName} :
  Answered(Refused(WriteTarget(n, into, db), "model", "write"), TRUE,
           Touching(WriteTarget(n, into, db), "model", "write", "model", c))

-----------------------------------------------------------------------------
(* Through the bridge for adapters, which knows no pools and no models.    *)

ByLegacy(c, targets, category) ==
  Answered(Refused(targets, "legacy", category), TRUE,
           Touching(targets, "legacy", category, "legacy", c))

LegacyWrite(c, n) == n.pool = NoName /\ ByLegacy(c, {n}, "write")

LegacyAggregate(c, n) == n.pool = NoName /\
  \E into \in Collections \cup {NoName}, db \in Databases \cup {NoName} :
    ByLegacy(c, WriteTarget(n, into, db), "write")

LegacyDrop(c, n) == n.pool = NoName /\ ByLegacy(c, {n}, "management")

-----------------------------------------------------------------------------
(* Through a database of the default client, or the client.                *)

InDatabase(db) == {n \in Namespaces : n.db = db /\ n.pool = NoName}

ByDatabase(c, db, category, sound) ==
  Answered(OnDatabase(db, category) = "refused", sound,
           Touching(InDatabase(db), "db", category, "database", c))

DbRaw(c, db) == ByDatabase(c, db, "raw", TRUE)

RunCommand(c, db) == ByDatabase(c, db, "raw", TRUE)

DropDatabase(c, db) == \E confirm \in BOOLEAN, allowProduction \in BOOLEAN :
  ByDatabase(c, db, "management", confirm /\ (Production => allowProduction))

\* The bridge looks at the name, and at the command, before the policy does.
BridgeInvalid ==
  open /\ reply = "none" /\ reply' = "invalid" /\ UNCHANGED <<policyVars, open, inside, asked>>

ClientAccess(c) ==
  Answered(OnClient = "refused", TRUE, Touching(Namespaces, "client", "raw", "client", c))

-----------------------------------------------------------------------------
OnNamespace(c, n) ==
  \/ Raw(c, n) \/ Write(c, n) \/ BatchWrite(c, n) \/ Aggregate(c, n)
  \/ IndexWrite(c, n) \/ SearchIndexWrite(c, n) \/ Drop(c, n) \/ Modify(c, n)
  \/ \E name \in Collections \cup {NoName} :
       Create(c, n, name) \/ CreateView(c, n, name) \/ Rename(c, n, name) \/ ModelManages(c, n, name)
  \/ ModelAggregates(c, n) \/ LegacyWrite(c, n) \/ LegacyAggregate(c, n) \/ LegacyDrop(c, n)

Called(c) ==
  \/ EnterModel(c) \/ LeaveModel(c) \/ ClientAccess(c)
  \/ \E n \in Namespaces : OnNamespace(c, n)
  \/ \E db \in Databases : DbRaw(c, db) \/ RunCommand(c, db) \/ DropDatabase(c, db)

OperationNext ==
  \/ Normalise \/ Construct \/ Return
  \/ reply = "none" /\ (BridgeInvalid \/ \E c \in Callers : Called(c))

OperationSpec == OperationInit /\ [][OperationNext]_<<policyVars, operationVars>>

-----------------------------------------------------------------------------
(* Properties.                                                             *)

(* Whatever a call asks the server to touch, directly, by a name in its    *)
(* arguments, in the last stage of a pipeline, or as a part of a database  *)
(* or of everything, is nothing that the policy refuses to the source of   *)
(* the call; and only a call of a model, or one that is made while a write *)
(* of a model runs for the same caller, has the model for its source.  The *)
(* screening of a database misreads some keys, as ScreeningAgrees says.    *)
PathsObeyed == \A t \in asked :
  /\ OnCollection(t.on, t.source, t.category) = "refused" =>
       /\ t.path = "database" /\ Found(t.on) # {}
       /\ Misread(Candidates(t.on)[First(Found(t.on))])
  /\ t.source = "model" => t.path = "model" \/ (t.path = "accessor" /\ t.by \in inside)

(* A policy decides alike everywhere, and every operation obeys it.        *)
PolicyHolds == OperationTypeOK /\ PolicyConsistent /\ PathsObeyed
=============================================================================
