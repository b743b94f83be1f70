--------------------------- MODULE MCDataTaskJob ---------------------------
(* Manifests: two documents and an index, batches of two, three operations  *)
(* in a row and one write of another program.  Plans: two keys and two      *)
(* values; alone on any source and target of two documents, or two planners *)
(* and another program on a few.                                            *)
EXTENDS DataTaskPlan, TLC

VARIABLE part

CONSTANTS Parts, d1, d2, i1, x1, x2, x3, p1, p2

Job(mode, by, strategy, declared, verify) ==
  [mode |-> mode, identity |-> IF mode = "fields" THEN {"k"} ELSE {}, conflictBy |-> by,
   projection |-> Fields, rename |-> [f \in Fields |-> Void], set |-> [f \in Fields |-> Void],
   unset |-> {}, strategy |-> strategy, declared |-> declared, maxDocuments |-> 2,
   verify |-> verify]

ByKey == Job("fields", {}, "upsert", {{"k"}}, "sample")
ById == Job("source-id", {"k"}, "upsert", {{"v"}}, "full")
Renaming == [Job("fields", {}, "upsert", {}, "full") EXCEPT !.rename["v"] = "w"]
Adding == Job("fields", {}, "insert", {{"k"}}, "sample")
Clearing == [Job("source-id", {}, "upsert", {}, "sample") EXCEPT !.unset = {"v"}, !.set["w"] = "a",
                                                              !.projection = {"k"}]
SomeJobs == {ByKey, ById, Renaming, Adding, Clearing}
FieldNames == {"k", "v", "w"}
UniqueKeys == {{"k"}, {"v"}}
SparseKeys == {{"v"}}

Symmetry == Permutations(Docs)

D(k, v, w) == "k" :> k @@ "v" :> v @@ "w" :> w
FewImages == {D(k, v, Void) : k \in Values, v \in Values}
Small(docs) == Cardinality(Present(docs)) <= 2 /\ \A i \in Present(docs) : docs[i] \in FewImages

-----------------------------------------------------------------------------
TaskInit ==
  /\ part \in Parts
  /\ JobInit /\ (part = "job" \/ doc = [d \in Docs |-> Void])
  /\ approvals = {} /\ expired = {} /\ meddled = 0
  /\ planners = [p \in Planners |-> Rest]
  /\ \/ part = "job" /\ origin = NoDocuments /\ target = NoDocuments
                     /\ built = [key \in Uniques |-> "missing"]
     \/ part = "alone"
        /\ origin \in [Ids -> FewImages \cup {Void}] /\ Present(origin) \in {{}, {x1}, {x1, x2}}
        /\ target \in [Ids -> FewImages \cup {Void}] /\ Small(target)
        /\ built \in [Uniques -> {"missing", "unique"}] /\ Enforced(target, built)
     \/ part = "raced"
        /\ origin = x1 :> D("a", "a", Void) @@ x2 :> Void @@ x3 :> Void
        /\ target \in {NoDocuments, x2 :> D("a", "b", Void) @@ x1 :> Void @@ x3 :> Void}
        /\ built = {"k"} :> "unique" @@ {"v"} :> "missing"

\* A preview, and what it allows.
OneJob(p) ==
  planners[p].at = "idle" /\ planners'[p].at = "indexes" =>
    IF approvals = {} THEN planners'[p].approval = Void
    ELSE planners'[p].approval # Void /\ planners'[p].job = planners'[p].approval.job

TaskNext ==
  /\ \/ part = "job" /\ JobNext /\ UNCHANGED planVars
     \/ part = "alone" /\ PlannerStep(p1) /\ OneJob(p1) /\ UNCHANGED jobVars
     \/ part = "raced" /\ PlanNext /\ (\A p \in Planners : OneJob(p)) /\ UNCHANGED jobVars
                       /\ (approvals = {} \/ meddled' > 0 => planners'[p2] = Rest)
                       /\ (meddled' # meddled => \A i \in Ids :
                             {origin'[i], target'[i]} \subseteq FewImages \cup {Void, target[i]})
  /\ UNCHANGED part

TaskSpec == TaskInit /\ [][TaskNext]_<<part, jobVars, planVars>>
=============================================================================
