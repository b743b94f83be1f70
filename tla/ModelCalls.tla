----------------------------- MODULE ModelCalls -----------------------------
(***************************************************************************)
(* The calls of a Model that has soft delete: hooks, the validation of     *)
(* whole documents, the visibility condition, and the server that handles  *)
(* a call document by document, among the protected deletes of the same    *)
(* collection.  Time stamps and defaults are left out; ModelVersions has   *)
(* the versions.                                                           *)
(***************************************************************************)
EXTENDS ProtectedDelete, Naturals

CONSTANTS Calls,   \* those that call, each one call at a time
          Asks,    \* the calls there are
          AsksOf,  \* of each caller, those it may make
          Styles,  \* how the Model may be defined
          NoAsk

\* lookup: by id; populate: the documents that relations of others lead to; put: a
\* replacement that inserts what it does not find.
ReadOps == {"find", "lookup", "populate"}
WholeOps == {"insert", "replace", "put", "save"}
UpdateOps == {"patch", "upsert"}
RemovalOps == {"remove", "restore", "purge"}
CallOps == ReadOps \cup WholeOps \cup UpdateOps \cup RemovalOps

AskType ==
  [op : CallOps,
   size : {"one", "many", "batch"},
   bad : BOOLEAN,     \* what is given breaks the schema
   mark : {"kept", "set", "unset"},  \* what is given does to the deletion mark
   shows : BOOLEAN,   \* deleted documents are asked for, or the query names the mark
   forced : BOOLEAN,  \* _forceDelete
   checking : {"default", "skips", "forces"}]  \* skipValidation, validate: true

StyleType ==
  [hooks : {"none", "standard", "v1"}, checks : BOOLEAN, schema : {"none", "good", "broken"}]

ASSUME CallAssumption ==
  /\ Asks \subseteq AskType /\ NoAsk \notin AskType
  /\ AsksOf \in [Calls -> SUBSET Asks] /\ Styles \subseteq StyleType

VARIABLES
  style,    \* how the Model is defined
  calls,    \* where each call is, and what has become of it
  fitting,    \* the documents that the schema allows
  vouched,  \* history: those whose last change was a whole document that had to be checked
  claims,   \* history: of each document, the deletions reported since it was last there
  lasting   \* history: of each call, the documents that are deleted ever since it began

callVars == <<style, calls, fitting, vouched, claims, lasting>>

Over == {"idle", "resolved", "rejected"}
CallType ==
  [at : {"hooking", "sent", "served"} \cup Over, ask : Asks \cup {NoAsk},
   hides : BOOLEAN,           \* the query has the visibility condition
   replaced : BOOLEAN,        \* a find whose hook has put its own query in the place of the given one
   left : SUBSET Documents,   \* what the server has not come to
   took : SUBSET Documents]   \* what a read has found

CallTypeOK ==
  /\ style \in Styles /\ calls \in [Calls -> CallType]
  /\ \A c \in Calls : calls[c].at \notin Over => calls[c].ask \in Asks
  /\ fitting \subseteq Documents /\ vouched \subseteq Documents
  /\ claims \in [Documents -> Nat] /\ lasting \in [Calls -> SUBSET Documents]

Finished(how) == [at |-> how, ask |-> NoAsk, hides |-> FALSE, replaced |-> FALSE, left |-> {}, took |-> {}]

CallInit ==
  /\ style \in Styles /\ calls = [c \in Calls |-> Finished("idle")]
  /\ fitting = Documents /\ vouched = {}
  /\ claims = [d \in Documents |-> 0] /\ lasting = [c \in Calls |-> {}]

-----------------------------------------------------------------------------
\* save, restore and purge run no hooks; a standard hook is not run for a lookup.
Hooked(op) ==
  \/ style.hooks = "v1" /\ op \notin {"save", "restore", "purge", "populate"}
  \/ style.hooks = "standard" /\ op \notin {"save", "restore", "purge", "populate", "lookup"}

\* What a hook may make of the arguments: a v1 hook returns others, a standard one changes
\* the objects it is given, never the options.
Rewritten(a) ==
  {b \in Asks : /\ b.op = a.op /\ b.size = a.size
                /\ style.hooks = "standard" => b.forced = a.forced /\ b.checking = a.checking}

\* Which whole documents are validated.
MustCheck(a) ==
  /\ a.op \in WholeOps /\ style.schema # "none" /\ a.checking # "skips"
  /\ style.checks \/ a.checking = "forces"

Invalid(a) == a.bad \/ style.schema = "broken"

\* Mutated form: what is validated is what the hook was given.
RejectsUnhooked(a, b) == MustCheck(b) /\ Invalid(a)

\* Validation comes after the before hook, and before anything is sent.
Rejects(a, b) == MustCheck(b) /\ Invalid(b)

\* Mutated form: a delete is sent with the caller's filter.
HidesReads(a) == a.op \in ReadOps /\ ~a.shows

\* The visibility condition is added unless the query names the mark itself;
\* deleteMany adds it whatever the query says.
Hides(a) ==
  \/ a.op \in ReadOps /\ ~a.shows
  \/ a.op = "remove" /\ ~a.forced /\ (a.size = "many" \/ ~a.shows)

\* Mutated form: every read gets the condition before the hook, which may drop it.
ConditionBeforeHook(a, b, replaced) == Hides(b) /\ ~(b.op \in ReadOps /\ replaced)

\* A find gets it before the hook, which may drop it; other calls after.
Condition(a, b, replaced) == Hides(b) /\ ~(b.op = "find" /\ replaced)

\* What the server may come to: an insert fails on what is there; save, put and
\* upsert insert what is not.
Targets(c) ==
  LET a == calls[c].ask
  IN CASE a.op = "insert" -> erased
       [] a.op \in {"save", "put", "upsert"} -> Documents
       [] a.op = "restore" -> (Documents \ erased) \cap (IF a.shows THEN Documents ELSE marked)
       [] OTHER -> (Documents \ erased) \ (IF calls[c].hides THEN marked ELSE {})

-----------------------------------------------------------------------------
\* Steps of a call.
Begin(c) == \E a \in AsksOf[c] :
  /\ calls[c].at \in Over
  /\ calls' = [calls EXCEPT ![c] = [Finished("hooking") EXCEPT !.ask = a]]
  /\ lasting' = [lasting EXCEPT ![c] = marked]
  /\ UNCHANGED <<style, fitting, vouched, claims, marked, erased>>

EndsCall(c, how) ==
  /\ calls' = [calls EXCEPT ![c] = Finished(how)] /\ lasting' = [lasting EXCEPT ![c] = {}]
  /\ UNCHANGED <<style, fitting, vouched, claims, marked, erased>>

\* The before hook throws.
HookThrows(c) == calls[c].at = "hooking" /\ Hooked(calls[c].ask.op) /\ EndsCall(c, "rejected")

\* The hook is done: what it has made of the call is validated and sent.
Send(c) ==
  LET a == calls[c].ask
  IN /\ calls[c].at = "hooking"
     /\ \E replaced \in IF Hooked(a.op) THEN BOOLEAN ELSE {FALSE} :
        \E b \in IF replaced THEN Rewritten(a) ELSE {a} :
          IF Rejects(a, b) THEN EndsCall(c, "rejected")
          ELSE /\ calls' = [calls EXCEPT ![c] =
                    [at |-> "sent", ask |-> b, hides |-> Condition(a, b, replaced),
                     replaced |-> replaced /\ b.op = "find", left |-> Documents, took |-> {}]]
               /\ UNCHANGED <<style, fitting, vouched, claims, lasting, marked, erased>>

\* The server comes to a document of a call.
Sent(c, ops) == calls[c].at = "sent" /\ calls[c].ask.op \in ops

Comes(c, d) ==
  /\ d \in calls[c].left \cap Targets(c)
  /\ calls' = [calls EXCEPT
       ![c].left = IF calls[c].ask.size = "one" THEN {} ELSE @ \ {d},
       ![c].took = IF calls[c].ask.op \in ReadOps THEN @ \cup {d} ELSE @]

\* Deleted is now what m says, and the claims on d are n.
Marks(m, d, n) ==
  /\ marked' = m /\ lasting' = [x \in Calls |-> lasting[x] \cap m]
  /\ claims' = [claims EXCEPT ![d] = n]

Finds(c, d) ==
  /\ Sent(c, {"find", "lookup"}) /\ Comes(c, d)
  /\ UNCHANGED <<style, fitting, vouched, claims, lasting, marked, erased>>

\* The documents that relations lead to are read in batches of keys.
Populates(c, d) ==
  /\ Sent(c, {"populate"}) /\ Comes(c, d)
  /\ UNCHANGED <<style, fitting, vouched, claims, lasting, marked, erased>>

\* A whole document is stored, with the mark or without; an upsert may insert one.
Stores(c, d) ==
  /\ Sent(c, WholeOps \cup {"upsert"}) /\ Comes(c, d)
  /\ calls[c].ask.op = "upsert" => d \in erased
  /\ LET a == calls[c].ask
     IN /\ fitting' = IF a.bad THEN fitting \ {d} ELSE fitting \cup {d}
        /\ vouched' = IF MustCheck(a) THEN vouched \cup {d} ELSE vouched \ {d}
        /\ IF a.mark = "set" THEN Marks(marked \cup {d}, d, IF d \in marked THEN claims[d] ELSE 0)
           ELSE Marks(marked \ {d}, d, 0)
  /\ erased' = erased \ {d} /\ UNCHANGED style

\* An update is not validated, and what it does not name stays as it is.
Updates(c, d) ==
  /\ Sent(c, UpdateOps) /\ d \notin erased /\ Comes(c, d)
  /\ LET a == calls[c].ask
     IN /\ fitting' = IF a.bad THEN fitting \ {d} ELSE fitting
        /\ CASE a.mark = "set" -> Marks(marked \cup {d}, d, claims[d])
             [] a.mark = "unset" -> Marks(marked \ {d}, d, 0)
             [] a.mark = "kept" -> Marks(marked, d, claims[d])
  /\ vouched' = vouched \ {d} /\ UNCHANGED <<style, erased>>

\* The deletion is reported; it is a second one only if deleted documents were asked for.
SoftDeletes(c, d) ==
  /\ Sent(c, {"remove"}) /\ ~calls[c].ask.forced /\ Comes(c, d)
  /\ Marks(marked \cup {d}, d,
           IF calls[c].ask.shows /\ d \in marked THEN claims[d] ELSE claims[d] + 1)
  /\ UNCHANGED <<style, fitting, vouched, erased>>

Erases(c, d) ==
  /\ Sent(c, {"remove", "purge"}) /\ (calls[c].ask.op = "remove" => calls[c].ask.forced)
  /\ Comes(c, d) /\ Marks(marked \ {d}, d, 0)
  /\ erased' = erased \cup {d} /\ fitting' = fitting \cup {d} /\ vouched' = vouched \ {d}
  /\ UNCHANGED style

Restores(c, d) ==
  /\ Sent(c, {"restore"}) /\ Comes(c, d) /\ Marks(marked \ {d}, d, 0)
  /\ UNCHANGED <<style, fitting, vouched, erased>>

\* The server answers: the query matches nothing more.
ServerAnswers(c) ==
  /\ calls[c].at = "sent" /\ calls' = [calls EXCEPT ![c].at = "served", ![c].left = {}]
  /\ UNCHANGED <<style, fitting, vouched, claims, lasting, marked, erased>>

\* The call fails at the server, with what it has done, or its answer is lost.
CallFails(c) == calls[c].at = "sent" /\ EndsCall(c, "rejected")

\* The after hook: what a standard one throws rejects the call, though its work is done.
Resolves(c) ==
  /\ calls[c].at = "served"
  /\ \/ EndsCall(c, "resolved")
     \/ style.hooks = "standard" /\ Hooked(calls[c].ask.op) /\ EndsCall(c, "rejected")

CallStep ==
  /\ \E c \in Calls :
       \/ Begin(c) \/ HookThrows(c) \/ Send(c) \/ ServerAnswers(c) \/ CallFails(c) \/ Resolves(c)
       \/ \E d \in Documents : \/ Finds(c, d) \/ Populates(c, d) \/ Stores(c, d) \/ Updates(c, d)
                               \/ SoftDeletes(c, d) \/ Erases(c, d) \/ Restores(c, d)
  /\ UNCHANGED <<matched, refs, deletes, chosen, scanned, held, victims>>

\* A protected delete, or what moves around it.
GuardedStep ==
  /\ ProtectedNext
  /\ claims' = [d \in Documents |-> IF d \in marked' \ marked THEN claims[d] + 1 ELSE claims[d]]
  /\ lasting' = [x \in Calls |-> lasting[x] \cap marked']
  /\ UNCHANGED <<style, calls, fitting, vouched>>

ModelNext == CallStep \/ GuardedStep
ModelSpec == ProtectedInit /\ CallInit /\ [][ModelNext]_<<protectedVars, callVars>>

-----------------------------------------------------------------------------
(* Properties.                                                             *)

(* What the Model had to check is as the schema says, until an update or an *)
(* unchecked write changes it, whatever its hooks make of the documents.    *)
ChecksHold == vouched \ erased \subseteq fitting

(* A soft deletion is reported to one call only, unless the document has    *)
(* been restored, by an update as well, or written anew since: of two       *)
(* deletes, protected or not, one reports that it has deleted nothing.      *)
ClaimedOnce == \A d \in Documents : claims[d] =< 1

(* A read that did not ask for deleted documents returns none that has been *)
(* deleted ever since it began, whatever a hook has made of it, unless the  *)
(* hook has replaced the query of a find.                                   *)
DeletedUnseen == \A c \in Calls :
  calls[c].ask # NoAsk /\ calls[c].took # {} /\ ~calls[c].ask.shows /\ ~calls[c].replaced
    => calls[c].took \cap lasting[c] = {}

(* The calls of a Model and its protected deletes together: nothing they do *)
(* to the same documents breaks what either of them promises.               *)
ModelsHold == UsedIsSpared /\ CallTypeOK /\ ChecksHold /\ ClaimedOnce /\ DeletedUnseen
=============================================================================
