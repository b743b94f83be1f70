---------------------------- MODULE DataTaskPlan ----------------------------
(***************************************************************************)
(* The plan of a data task, for one collection.  preview() reads the       *)
(* indexes of the target, the documents of the source, the documents of    *)
(* the target that have their identities, and what unique indexes need; it *)
(* writes nothing and issues an approval of the changes it found.          *)
(* apply() plans again and writes only if it finds the changes that the    *)
(* approval names.  Every read is an await: other programs, and other      *)
(* tasks of a job without a lock, write source, target and indexes between *)
(* any two.                                                                *)
(*                                                                         *)
(* A check that does not pass is RefuseTask, which is possible everywhere: *)
(* any of the calls may fail.  DataTaskJob has the manifest of what        *)
(* apply() does, and restore().                                            *)
(***************************************************************************)
EXTENDS DataTaskJob

CONSTANTS Planners,   \* those that call preview() and apply()
          TaskJobs,   \* the jobs given
          Ids, Fields, Values,
          Uniques,    \* the keys of unique indexes: sets of fields
          Sparse,     \* those whose indexes are sparse
          MaxScan,    \* MAX_MISSING_UNIQUE_INDEX_SCAN_DOCUMENTS
          MaxMeddling

Image == [Fields -> Values \cup {Void}]   \* a document; Void: it does not have the field
MaybeImage == Image \cup {Void}
Collection == [Ids -> MaybeImage]
NoDocuments == [i \in Ids |-> Void]
Present(docs) == {i \in Ids : docs[i] # Void}

JobType ==
  [mode : {"fields", "source-id"}, identity : SUBSET Fields, conflictBy : SUBSET Fields,
   projection : SUBSET Fields, rename : [Fields -> Fields \cup {Void}],
   set : [Fields -> Values \cup {Void}], unset : SUBSET Fields,
   strategy : {"upsert", "insert"}, declared : SUBSET Uniques,
   maxDocuments : Nat, verify : {"full", "sample"}]

IndexStates == {"missing", "unique", "other"}   \* other: the same key with other options

ASSUME PlanConstants ==
  /\ IsFiniteSet(Ids) /\ Void \notin Ids \cup Fields \cup Values \cup Image
  /\ TaskJobs \subseteq JobType /\ Uniques \subseteq SUBSET Fields
  /\ MaxScan \in Nat /\ MaxMeddling \in Nat

VARIABLES
  origin, target,   \* the source, as far as the filter of the job matches; the target
  built,            \* the indexes of the target
  approvals,        \* issued by preview()
  expired,
  planners,         \* where each call is, and what it has read
  meddled           \* the number of writes of other programs

planVars == <<origin, target, built, approvals, expired, planners, meddled>>

-----------------------------------------------------------------------------
(* A job.                                                                  *)

Renamed(j) == {f \in Fields : j.rename[f] # Void}
Destinations(j) == {j.rename[f] : f \in Renamed(j)}
Given(j) == {f \in Fields : j.set[f] # Void}
IdentityFields(j) == j.identity \cup j.conflictBy

\* No two entries of a patch touch the same field, and none an identity.
PatchAllowed(j) ==
  /\ \A f, g \in Renamed(j) : j.rename[f] = j.rename[g] => f = g
  /\ Renamed(j) \cap Destinations(j) = {}
  /\ (Renamed(j) \cup Destinations(j)) \cap (Given(j) \cup j.unset) = {}
  /\ Given(j) \cap j.unset = {}
  /\ (Renamed(j) \cup Destinations(j) \cup Given(j) \cup j.unset) \cap IdentityFields(j) = {}
  /\ IdentityFields(j) \cup Renamed(j) \subseteq j.projection

JobAllowed(j) ==
  /\ IF j.mode = "fields" THEN j.identity # {} /\ j.conflictBy = {} ELSE j.identity = {}
  /\ PatchAllowed(j)
  /\ j.maxDocuments >= 1

\* What is read of a document of the source.
Projected(j, image) == [f \in Fields |-> IF f \in j.projection THEN image[f] ELSE Void]

\* A renamed field never overwrites another value.
RenameFits(j, image) ==
  \A f \in Renamed(j) : image[f] # Void => image[j.rename[f]] \in {Void, image[f]}

Unsets(j, image) == j.unset \cup {f \in Renamed(j) : image[f] # Void}

Patched(j, image) ==
  [f \in Fields |->
     IF j.set[f] # Void THEN j.set[f]
     ELSE IF f \in Unsets(j, image) THEN Void
     ELSE IF \E g \in Renamed(j) : j.rename[g] = f /\ image[g] # Void
       THEN image[CHOOSE g \in Renamed(j) : j.rename[g] = f /\ image[g] # Void]
     ELSE image[f]]

\* A patched document of the source.
Item(j, i, image) == [id |-> i, payload |-> Patched(j, image), unset |-> Unsets(j, image)]

SameOn(fields, a, b) == \A f \in fields : a[f] = b[f]

\* Document i of the target has the identity of the item.
Fits(j, item, i, image) ==
  IF j.mode = "source-id" THEN i = item.id ELSE SameOn(j.identity, item.payload, image)

Matching(j, item, docs) == {i \in Present(docs) : Fits(j, item, i, docs[i])}

\* The target keeps the fields that the source does not have.
After(item, before) ==
  [f \in Fields |->
     IF f \in item.unset THEN Void
     ELSE IF item.payload[f] # Void \/ before = Void THEN item.payload[f] ELSE before[f]]

-----------------------------------------------------------------------------
(* Unique indexes.                                                         *)

\* A field that is not there counts as null; a sparse index has no document without fields.
Indexed(key, image) == key \in Sparse => \E f \in key : image[f] # Void
Collide(key, a, b) == Indexed(key, a) /\ SameOn(key, a, b)

Distinct(key, docs) ==
  \A i, k \in Present(docs) : Collide(key, docs[i], docs[k]) => i = k

\* What the server sees to.
Enforced(docs, indexes) == \A key \in Uniques : indexes[key] = "unique" => Distinct(key, docs)

-----------------------------------------------------------------------------
(* Planning.                                                               *)

Rest == [at |-> "idle", job |-> Void, approval |-> Void, seen |-> Void, read |-> {},
         found |-> NoDocuments, changes |-> {}, left |-> {}, scanned |-> NoDocuments,
         key |-> Void, todo |-> {}, on |-> Void,
         quiet |-> FALSE,           \* history: nobody else has written the target since the beginning
         start |-> NoDocuments]     \* history: the target at the beginning, if so

Put(p, r) == planners' = [planners EXCEPT ![p] = r]

Disturbed(h) == [h EXCEPT !.quiet = FALSE, !.start = NoDocuments]

\* p has written the target: the others have not been alone with it.
PutWriting(p, r) ==
  planners' = [q \in Planners |-> IF q = p THEN r ELSE Disturbed(planners[q])]

PlanInit ==
  /\ origin \in Collection /\ target \in Collection
  /\ built \in [Uniques -> IndexStates] /\ Enforced(target, built)
  /\ approvals = {} /\ expired = {} /\ meddled = 0
  /\ planners = [p \in Planners |-> Rest]

BeginTask(p, j, a) ==
  /\ planners[p].at = "idle" /\ JobAllowed(j)
  /\ Put(p, [Rest EXCEPT !.at = "indexes", !.job = j, !.approval = a, !.quiet = TRUE,
                         !.start = target])
  /\ UNCHANGED <<origin, target, built, approvals, expired, meddled>>

Preview(p) == \E j \in TaskJobs : BeginTask(p, j, Void)
ApplyApproved(p) == \E j \in TaskJobs, a \in approvals : BeginTask(p, j, a)

\* Identities that are fields need a unique index, there or declared.
Covered(j) ==
  j.mode = "fields" =>
    /\ j.identity \in Uniques
    /\ j.identity \in j.declared \/ built[j.identity] = "unique"

ReadIndexes(p) ==
  LET h == planners[p]
  IN /\ h.at = "indexes"
     /\ \A key \in h.job.declared : built[key] # "other"
     /\ Covered(h.job)
     /\ Put(p, [h EXCEPT !.at = "source", !.seen = built])
     /\ UNCHANGED <<origin, target, built, approvals, expired, meddled>>

\* At most maxDocuments; identities there, each once.
ReadOrigin(p) ==
  LET h == planners[p]
      j == h.job
      view(i) == Projected(j, origin[i])
  IN /\ h.at = "source"
     /\ Cardinality(Present(origin)) <= j.maxDocuments
     /\ \A i \in Present(origin) :
          /\ \A f \in j.identity : origin[i][f] # Void
          /\ RenameFits(j, view(i))
          /\ SameOn(j.identity, Patched(j, view(i)), origin[i])
     /\ \A i, k \in Present(origin) :
          j.mode = "fields" /\ SameOn(j.identity, origin[i], origin[k]) => i = k
     /\ Put(p, [h EXCEPT !.at = "match", !.read = {Item(j, i, view(i)) : i \in Present(origin)}])
     /\ UNCHANGED <<origin, target, built, approvals, expired, meddled>>

\* What find() with a limit may return.
Limited(ids, limit) ==
  {some \in SUBSET ids : \/ Cardinality(some) = limit
                         \/ some = ids /\ Cardinality(ids) < limit}

\* No identity may be that of two documents: if there are more documents than identities,
\* one more than there are identities shows it.
MatchTarget(p) ==
  LET h == planners[p]
      all == UNION {Matching(h.job, item, target) : item \in h.read}
  IN /\ h.at = "match"
     /\ \E some \in Limited(all, Cardinality(h.read) + 1) :
          /\ \A item \in h.read : \A i, k \in some :
               Fits(h.job, item, i, target[i]) /\ Fits(h.job, item, k, target[k]) => i = k
          /\ h.job.strategy = "insert" => some = {}
          /\ Put(p, [h EXCEPT !.at = "conflicts",
                              !.found = [i \in Ids |-> IF i \in some THEN target[i] ELSE Void]])
     /\ UNCHANGED <<origin, target, built, approvals, expired, meddled>>

ChangeOf(h, item) ==
  LET matches == Matching(h.job, item, h.found)
  IN IF matches = {}
     THEN [from |-> item, id |-> IF h.job.mode = "source-id" THEN item.id ELSE Void,
           before |-> Void, after |-> After(item, Void)]
     ELSE LET i == CHOOSE x \in matches : TRUE
          IN [from |-> item, id |-> i, before |-> h.found[i], after |-> After(item, h.found[i])]

Changes(h) == {c \in {ChangeOf(h, item) : item \in h.read} : c.before # c.after}
Updated(changes) == {c.id : c \in {x \in changes : x.before # Void}}

\* The unique indexes to look at: those to be built, and those whose keys change.
Affected(h, changes) ==
  {key \in Uniques :
     \/ key \in h.job.declared /\ h.seen[key] = "missing"
     \/ /\ h.seen[key] = "unique"
        /\ \E c \in changes : c.before = Void \/ ~SameOn(key, c.before, c.after)}

\* Mutated form of MatchConflicts: one document for each of the source is all that is asked for.
MatchConflictsShort(p) ==
  LET h == planners[p]
      by == h.job.conflictBy
      all == {i \in Present(target) : \E item \in h.read : SameOn(by, item.payload, target[i])}
      changes == Changes(h)
  IN /\ h.at = "conflicts"
     /\ by # {} =>
          /\ \A item \in h.read : \A f \in by : item.payload[f] # Void
          /\ \E some \in Limited(all, Cardinality(h.read)) :
               \A i \in some : \A item \in h.read :
                 SameOn(by, item.payload, target[i]) => i = item.id
     /\ Put(p, [h EXCEPT !.at = "unique", !.changes = changes, !.left = Affected(h, changes)])
     /\ UNCHANGED <<origin, target, built, approvals, expired, meddled>>

\* No business identity may be there under another _id.  Of those that have one, at most
\* one has the right _id: one document more than twice as many shows another.
MatchConflicts(p) ==
  LET h == planners[p]
      by == h.job.conflictBy
      all == {i \in Present(target) : \E item \in h.read : SameOn(by, item.payload, target[i])}
      changes == Changes(h)
  IN /\ h.at = "conflicts"
     /\ by # {} =>
          /\ \A item \in h.read : \A f \in by : item.payload[f] # Void
          /\ \E some \in Limited(all, 2 * Cardinality(h.read) + 1) :
               \A i \in some : \A item \in h.read :
                 SameOn(by, item.payload, target[i]) => i = item.id
     /\ Put(p, [h EXCEPT !.at = "unique", !.changes = changes, !.left = Affected(h, changes)])
     /\ UNCHANGED <<origin, target, built, approvals, expired, meddled>>

\* Mutated form of CheckExisting: only the changes are compared.
CheckPlanned(p, key) ==
  LET h == planners[p]
  IN /\ h.at = "unique" /\ key \in h.left /\ h.seen[key] = "unique"
     /\ \A c, e \in h.changes : Collide(key, c.after, e.after) => c = e
     /\ Put(p, [h EXCEPT !.left = @ \ {key}])
     /\ UNCHANGED <<origin, target, built, approvals, expired, meddled>>

\* An index that is there: no two documents to be written get the same key, and no document
\* that is not among them has such a key.
CheckExisting(p, key) ==
  LET h == planners[p]
      keyed == {c \in h.changes : Indexed(key, c.after)}
      all == {i \in Present(target) : \E c \in keyed : Collide(key, c.after, target[i])}
  IN /\ h.at = "unique" /\ key \in h.left /\ h.seen[key] = "unique"
     /\ \A c, e \in keyed : Collide(key, c.after, e.after) => c = e
     /\ \E some \in Limited(all, Cardinality(keyed) + 1) : some \subseteq Updated(h.changes)
     /\ Put(p, [h EXCEPT !.left = @ \ {key}])
     /\ UNCHANGED <<origin, target, built, approvals, expired, meddled>>

\* An index to be built: the whole target is read, up to the limit, after its documents
\* were counted.
ScanTarget(p, key) ==
  LET h == planners[p]
  IN /\ h.at = "unique" /\ key \in h.left /\ h.seen[key] = "missing"
     /\ \E some \in Limited(Present(target), MaxScan) :
          Put(p, [h EXCEPT !.at = "scanned", !.key = key,
                           !.scanned = [i \in Ids |-> IF i \in some THEN target[i] ELSE Void]])
     /\ UNCHANGED <<origin, target, built, approvals, expired, meddled>>

\* The documents as the changes would leave them.
Planned(docs, changes) ==
  [i \in Ids |-> IF i \in Updated(changes)
                 THEN (CHOOSE c \in changes : c.id = i /\ c.before # Void).after
                 ELSE docs[i]]
Inserted(changes) == {c \in changes : c.before = Void}

WouldBeDistinct(key, docs, changes) ==
  /\ Distinct(key, Planned(docs, changes))
  /\ \A c, e \in Inserted(changes) : Collide(key, c.after, e.after) => c = e
  /\ \A c \in Inserted(changes) : \A i \in Present(Planned(docs, changes)) :
       ~Collide(key, c.after, Planned(docs, changes)[i])

\* The target must still have as many documents as were read.
CheckScanned(p) ==
  LET h == planners[p]
  IN /\ h.at = "scanned"
     /\ Cardinality(Present(target)) <= MaxScan
     /\ Cardinality(Present(h.scanned)) = Cardinality(Present(target))
     /\ Updated(h.changes) \subseteq Present(h.scanned)
     /\ WouldBeDistinct(h.key, h.scanned, h.changes)
     /\ Put(p, [h EXCEPT !.at = "unique", !.left = @ \ {h.key}, !.key = Void, !.scanned = NoDocuments])
     /\ UNCHANGED <<origin, target, built, approvals, expired, meddled>>

\* What the hashes stand for.
ApprovalOf(h) ==
  [job |-> h.job, seen |-> h.seen,
   changes |-> {[id |-> c.id, before |-> c.before, after |-> c.after] : c \in h.changes}]

PlanReady(p) == planners[p].at = "unique" /\ planners[p].left = {}

Issue(p) ==
  /\ PlanReady(p) /\ planners[p].approval = Void
  /\ approvals' = approvals \cup {ApprovalOf(planners[p])}
  /\ expired' = expired \ {ApprovalOf(planners[p])}
  /\ Put(p, Rest)
  /\ UNCHANGED <<origin, target, built, meddled>>

ExpireApproval(a) ==
  /\ a \in approvals \ expired /\ expired' = expired \cup {a}
  /\ UNCHANGED <<origin, target, built, approvals, planners, meddled>>

\* Mutated form of Approved: the images that the target had are not compared.
ApprovedUnseen(h) ==
  /\ h.approval \in approvals \ expired
  /\ h.approval.job = h.job /\ h.approval.seen = h.seen
  /\ {[id |-> c.id, after |-> c.after] : c \in h.approval.changes}
       = {[id |-> c.id, after |-> c.after] : c \in h.changes}

\* jobHash, sourceHash, targetHash and indexHash.
Approved(h) == h.approval \in approvals \ expired /\ h.approval = ApprovalOf(h)

Indexing(h) == {key \in h.job.declared : h.seen[key] = "missing"}

BeginWriting(p) ==
  LET h == planners[p]
  IN /\ PlanReady(p) /\ h.approval # Void /\ Approved(h)
     /\ Put(p, [h EXCEPT !.at = "write", !.left = Indexing(h), !.todo = h.changes])
     /\ UNCHANGED <<origin, target, built, approvals, expired, meddled>>

-----------------------------------------------------------------------------
(* Writing.                                                                *)

MayBuild(key) == built[key] # "other" /\ Distinct(key, target)

BuildIndex(p, key) ==
  LET h == planners[p]
  IN /\ h.at = "write" /\ key \in h.left /\ MayBuild(key)
     /\ built' = [built EXCEPT ![key] = "unique"]
     /\ PutWriting(p, [h EXCEPT !.left = @ \ {key}])
     /\ UNCHANGED <<origin, target, approvals, expired, meddled>>

\* Where a change goes: an update to its document, an insert to its id or to a new one.
Places(h, c) ==
  IF c.id # Void THEN {c.id} ELSE {i \in Ids : target[i] = Void}

\* The server writes c at i: the document is as the plan found it, and no unique index is
\* against it.
Writable(h, c, i) ==
  /\ target[i] = c.before
  /\ c.before = Void /\ h.job.mode = "fields" /\ h.job.strategy = "upsert"
       => Matching(h.job, c.from, target) = {}
  /\ Enforced([target EXCEPT ![i] = c.after], built)

\* Mutated form of WriteChange: any document that has the identity is updated.
WriteUnguarded(p, c) ==
  LET h == planners[p]
  IN /\ h.at = "write" /\ h.left = {} /\ c \in h.todo
     /\ \E i \in Places(h, c) :
          /\ (target[i] = Void) = (c.before = Void)
          /\ Enforced([target EXCEPT ![i] = c.after], built)
          /\ target' = [target EXCEPT ![i] = c.after]
     /\ PutWriting(p, [h EXCEPT !.at = "confirm", !.on = c])
     /\ UNCHANGED <<origin, built, approvals, expired, meddled>>

WriteChange(p, c) ==
  LET h == planners[p]
  IN /\ h.at = "write" /\ h.left = {} /\ c \in h.todo
     /\ \E i \in Places(h, c) :
          /\ Writable(h, c, i)
          /\ target' = [target EXCEPT ![i] = c.after]
     /\ PutWriting(p, [h EXCEPT !.at = "confirm", !.on = c])
     /\ UNCHANGED <<origin, built, approvals, expired, meddled>>

\* The identity leads to one document, which is what was written.
Confirmed(h) ==
  \E i \in Ids : Matching(h.job, h.on.from, target) = {i} /\ target[i] = h.on.after

ConfirmChange(p) ==
  LET h == planners[p]
  IN /\ h.at = "confirm" /\ Confirmed(h)
     /\ Put(p, [h EXCEPT !.at = "write", !.todo = @ \ {h.on}, !.on = Void])
     /\ UNCHANGED <<origin, target, built, approvals, expired, meddled>>

InPlace(h, c) ==
  \E i \in Ids :
    /\ Matching(h.job, c.from, target) = {i}
    /\ \A f \in Fields : c.after[f] # Void => target[i][f] = c.after[f]
    /\ \A f \in c.from.unset : target[i][f] = Void

VerifyPlan(p) ==
  LET h == planners[p]
  IN /\ h.at = "write" /\ h.left = {} /\ h.todo = {}
     /\ \A key \in h.job.declared : built[key] = "unique"
     /\ \E sample \in SUBSET h.changes :
          /\ h.job.verify = "full" => sample = h.changes
          /\ h.changes # {} => sample # {}
          /\ \A c \in sample : InPlace(h, c)
     /\ Put(p, [h EXCEPT !.at = "passed"])
     /\ UNCHANGED <<origin, target, built, approvals, expired, meddled>>

FinishTask(p) ==
  /\ planners[p].at = "passed" /\ Put(p, Rest)
  /\ UNCHANGED <<origin, target, built, approvals, expired, meddled>>

RefuseTask(p) ==
  /\ planners[p].at \notin {"idle", "passed"} /\ Put(p, Rest)
  /\ UNCHANGED <<origin, target, built, approvals, expired, meddled>>

PlannerStep(p) ==
  \/ Preview(p) \/ ApplyApproved(p) \/ ReadIndexes(p) \/ ReadOrigin(p) \/ MatchTarget(p)
  \/ MatchConflicts(p)
  \/ (\E key \in Uniques : CheckExisting(p, key) \/ ScanTarget(p, key) \/ BuildIndex(p, key))
  \/ CheckScanned(p) \/ Issue(p) \/ BeginWriting(p)
  \/ (\E c \in planners[p].todo : WriteChange(p, c)) \/ ConfirmChange(p) \/ VerifyPlan(p)
  \/ FinishTask(p) \/ RefuseTask(p)

-----------------------------------------------------------------------------
(* Other programs.                                                         *)

Meddle == meddled < MaxMeddling /\ meddled' = meddled + 1
AllDisturbed == planners' = [p \in Planners |-> Disturbed(planners[p])]

MeddleOrigin(i) ==
  /\ Meddle /\ \E image \in MaybeImage : origin' = [origin EXCEPT ![i] = image]
  /\ UNCHANGED <<target, built, approvals, expired, planners>>

MeddleTarget(i) ==
  /\ Meddle /\ \E image \in MaybeImage : target' = [target EXCEPT ![i] = image]
  /\ Enforced(target', built) /\ AllDisturbed
  /\ UNCHANGED <<origin, built, approvals, expired>>

MeddleIndex(key) ==
  /\ Meddle /\ \E state \in IndexStates : built' = [built EXCEPT ![key] = state]
  /\ Enforced(target, built') /\ AllDisturbed
  /\ UNCHANGED <<origin, target, approvals, expired>>

MeddlerStep ==
  \/ (\E i \in Ids : MeddleOrigin(i) \/ MeddleTarget(i))
  \/ (\E key \in Uniques : MeddleIndex(key))

PlanNext ==
  (\E p \in Planners : PlannerStep(p)) \/ MeddlerStep \/ (\E a \in approvals : ExpireApproval(a))

PlanSpec == PlanInit /\ [][PlanNext]_planVars

\* Manifests and plans are looked at side by side: no step is of both.
TasksNext == (JobNext /\ UNCHANGED planVars) \/ (PlanNext /\ UNCHANGED jobVars)

TasksSpec == JobInit /\ PlanInit /\ [][TasksNext]_<<jobVars, planVars>>

-----------------------------------------------------------------------------
ItemType == [id : Ids, payload : Image, unset : SUBSET Fields]
ShownType == [id : Ids \cup {Void}, before : MaybeImage, after : Image]
ChangeType == [from : ItemType, id : Ids \cup {Void}, before : MaybeImage, after : Image]
ApprovalType ==
  [job : TaskJobs, seen : [Uniques -> IndexStates], changes : SUBSET ShownType]
PlannerType ==
  [at : {"idle", "indexes", "source", "match", "conflicts", "unique", "scanned", "write",
         "confirm", "passed"},
   job : TaskJobs \cup {Void}, approval : ApprovalType \cup {Void},
   seen : [Uniques -> IndexStates] \cup {Void}, read : SUBSET ItemType, found : Collection,
   changes : SUBSET ChangeType, left : SUBSET Uniques, scanned : Collection,
   key : Uniques \cup {Void}, todo : SUBSET ChangeType, on : ChangeType \cup {Void},
   quiet : BOOLEAN, start : Collection]

\* Types; the server keeps its unique indexes; only an approval that was issued leads to
\* a write.
PlanTypeOK ==
  /\ origin \in Collection /\ target \in Collection
  /\ built \in [Uniques -> IndexStates] /\ Enforced(target, built)
  /\ approvals \subseteq ApprovalType /\ expired \subseteq approvals
  /\ planners \in [Planners -> PlannerType] /\ meddled \in 0..MaxMeddling
  /\ \A p \in Planners :
       planners[p].at \in {"write", "confirm", "passed"} => planners[p].approval \in approvals

\* A unique value that another document of the same plan has until it is written.
Exchanged(h, c) ==
  \E e \in h.todo \ {c} : \E key \in Uniques :
    built[key] = "unique" /\ e.before # Void /\ Collide(key, c.after, e.before)

\* Documents that are alike before the plan is carried out and not after it.
Repaired(h, key) ==
  \E i, k \in Present(target) :
    i # k /\ Collide(key, target[i], target[k]) /\ {i, k} \cap Updated(h.changes) # {}

\* As long as nobody else writes, an apply() whose plan passed fails, if its calls do not,
\* for one of two reasons only: the writes, made one by one, would exchange a unique value,
\* or the index to be built waits for documents that the plan would repair.
QuietProceeds ==
  \A p \in Planners :
    LET h == planners[p]
    IN h.quiet /\ h.at \in {"write", "confirm"} =>
         /\ h.at = "confirm" => Confirmed(h)
         /\ \A key \in h.left : MayBuild(key) \/ Repaired(h, key)
         /\ h.at = "write" /\ h.left = {} =>
              \A c \in h.todo : \A i \in Places(h, c) : Writable(h, c, i) \/ Exchanged(h, c)
         /\ h.at = "write" /\ h.left = {} /\ h.todo = {} => \A c \in h.changes : InPlace(h, c)

\* An apply() that passed, with nobody else writing the target, has left exactly the source
\* in it: each document it read once, merged with what was there, every other document as
\* it was, and the declared indexes; no business identity was there under another _id.
SyncIsExact ==
  \A p \in Planners :
    LET h == planners[p]
    IN h.quiet /\ h.at = "passed" =>
         /\ \A item \in h.read : \E i \in Ids :
              /\ Matching(h.job, item, target) = {i}
              /\ target[i] = After(item, h.start[i])
         /\ \A i \in Ids : (\A item \in h.read : i \notin Matching(h.job, item, target))
                             => target[i] = h.start[i]
         /\ \A key \in h.job.declared : built[key] = "unique"
         /\ h.job.conflictBy # {} =>
              \A item \in h.read : \A i \in Present(h.start) :
                SameOn(h.job.conflictBy, item.payload, h.start[i]) => i = item.id

\* What a task writes over a document is what an approval shows, from the same image.
WritesAreApproved ==
  [][\A i \in Ids : target'[i] # target[i] /\ meddled' = meddled =>
       \E a \in approvals : \E c \in a.changes :
         c.id \in {i, Void} /\ c.before = target[i] /\ c.after = target'[i]]_planVars

\* The invariants of data tasks, for the manifests and for the plans.
TasksHold == UndoIsWhole /\ PlanTypeOK /\ QuietProceeds /\ SyncIsExact

\* No task writes over another program, and none writes what was not approved.
TasksWriteWithCare == LaterWritesKept /\ WritesAreApproved
=============================================================================
