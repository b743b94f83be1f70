---------------------------- MODULE MCDataPaths ----------------------------
(* The paths that data takes through the library, each on its own: the      *)
(* initial state chooses the part that moves, and the others stay where     *)
(* they start.                                                              *)
EXTENDS BackfillFence, BatchWrites, ModelCalls, DatabaseOperations, TLC

VARIABLE part

CONSTANT Parts   \* those that a run looks at

CONSTANTS rd1, rd2, op1, op2, own1, own2,           \* the calls of a cache
          east, users, daily, shop, logs,           \* the names of a policy
          m1, m2                                    \* the callers of a Model

\* Two wrappers of one local level: a read and a tag invalidation of the first,
\* a read and a clear of the second.
OwnersOf == rd1 :> own1 @@ op1 :> own1 @@ rd2 :> own2 @@ op2 :> own2
KindOfOp == op1 :> "tag" @@ op2 :> "clear"

OnErrors == {"stop", "collect", "retry"}
BatchModes ==
  {m \in [kind : {"insert"}, ordered : BOOLEAN, onError : OnErrors, concurrency : {1, 2},
          replayable : {FALSE}] : ~(m.ordered /\ m.concurrency = 2)}
  \cup [kind : {"update"}, ordered : {FALSE}, onError : OnErrors, concurrency : {1}, replayable : BOOLEAN]
  \cup [kind : {"delete"}, ordered : {FALSE}, onError : OnErrors, concurrency : {1}, replayable : {FALSE}]

PolicyPrefixes == users :> NoName @@ daily :> logs
Rule(rulesMode, raw, management, onViolation) ==
  [mode |-> rulesMode, raw |-> raw, management |-> management, gridfs |-> "inherit",
   onViolation |-> onViolation]
\* Each category is open by one of them, refused by another; raw access and management
\* by rules of their own as well.
FewRules == {Rule("model-only", "inherit", "inherit", "throw"),
             Rule("allow-both", "inherit", "block", "throw"),
             Rule("model-only", "inherit", "allow", "warn")}

Plain(op, size) == [op |-> op, size |-> size, bad |-> FALSE, mark |-> "kept", shows |-> FALSE,
                    forced |-> FALSE, checking |-> "default"]
SomeAsks ==
  {Plain(op, "one") : op \in {"replace", "upsert", "remove", "restore", "lookup"}}
  \cup {Plain(op, "many") : op \in {"insert", "remove", "find", "populate"}}
  \cup {[Plain(op, "one") EXCEPT !.bad = TRUE] : op \in {"put", "save"}}
  \cup {[Plain("insert", "many") EXCEPT !.bad = TRUE, !.checking = "skips"],
        [Plain("put", "one") EXCEPT !.mark = "set", !.checking = "forces"],
        [Plain("patch", "many") EXCEPT !.mark = "unset"],
        [Plain("patch", "many") EXCEPT !.bad = TRUE],
        [Plain("remove", "batch") EXCEPT !.shows = TRUE],
        [Plain("remove", "one") EXCEPT !.forced = TRUE],
        [Plain("lookup", "one") EXCEPT !.shows = TRUE]}
AsksOfCallers == m1 :> SomeAsks @@ m2 :> {Plain("remove", "many")}
FewStyles == {[hooks |-> "standard", checks |-> TRUE, schema |-> "good"],
              [hooks |-> "v1", checks |-> TRUE, schema |-> "good"]}

\* Nothing tells the documents of a protected delete, or its relations, from each other.
Alike == Permutations(Documents) \cup Permutations(Relations)

-----------------------------------------------------------------------------
\* What is proved is about every state: a part that does not move stays in one of its
\* initial states.
DataInit ==
  /\ part \in Parts
  /\ CallInit /\ (part = "models" \/ style = CHOOSE s \in Styles : TRUE)
  /\ ProtectedInit /\ (part = "protected" \/ (matched = Documents /\ \A r \in Relations : refs[r] = {}))
  /\ Init
  /\ BatchInit /\ (part = "batch" \/ mode = CHOOSE m \in Modes : Accepted(m))
  /\ OperationInit /\ (part = "policy" \/ default = CHOOSE r \in RulesGiven : Closes(r, "raw") /\ r.onViolation = "throw")

Others(p) ==
  /\ IF p = "fence" THEN TRUE ELSE UNCHANGED fenceVars
  /\ IF p = "batch" THEN TRUE ELSE UNCHANGED batchVars
  /\ IF p \in {"protected", "models", "guarded"} THEN TRUE ELSE UNCHANGED <<protectedVars, callVars>>
  /\ IF p = "policy" THEN TRUE ELSE UNCHANGED <<policyVars, operationVars>>

DataNext ==
  /\ \/ part = "fence" /\ Next
     \/ part = "batch" /\ BatchNext
     \/ part = "protected" /\ GuardedStep
     \/ part = "models" /\ CallStep
     \/ part = "guarded" /\ (CallStep \/ GuardedStep) /\ UNCHANGED <<matched, refs>>
                         /\ calls'[m2] = calls[m2] /\ \A x \in Forced : deletes'[x] = "idle"
                         /\ (calls'[m1].at = "sent" => calls'[m1].ask.op \notin ReadOps)
     \/ part = "policy" /\ OperationNext
  /\ Others(part) /\ UNCHANGED part

DataSpec == DataInit /\ [][DataNext]_<<part, fenceVars, batchVars, protectedVars, callVars, policyVars, operationVars>>
=============================================================================
