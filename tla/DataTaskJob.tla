---------------------------- MODULE DataTaskJob ----------------------------
(***************************************************************************)
(* Data tasks: apply() moves documents and indexes of a target to planned  *)
(* states, restore(backup) moves them back, and other programs write the   *)
(* same target at any time.  A backup holds the images of the documents    *)
(* and a manifest, on disk, in which every write is announced before it is *)
(* made and recorded after it.                                             *)
(*                                                                         *)
(* Both operations execute a backup: apply() the one it makes of its plan, *)
(* restore() the safety backup it makes of what it is about to undo.  The  *)
(* lease lets one run at a time; a run may fail or die between any steps.  *)
(***************************************************************************)
EXTENDS Naturals, FiniteSets, Sequences

CONSTANTS Docs, Indexes,
          New,          \* the image a task gives a document
          Void,         \* no document; no run
          BatchSize, MaxBackups, MaxOthers

ASSUME JobConstants ==
  /\ IsFiniteSet(Docs) /\ IsFiniteSet(Indexes) /\ Docs \cap Indexes = {}
  /\ BatchSize \in Nat \ {0} /\ MaxBackups \in Nat /\ MaxOthers \in Nat
  /\ New # Void /\ New \notin Nat /\ Void \notin Nat \cup Docs \cup Indexes

VARIABLES doc, index,   \* the target: images; indexes are absent, ours or of another definition
          backups,      \* on disk, in the order they were made
          run,          \* the operation in progress
          others,       \* history: what other programs wrote since a task planned on it
          clock         \* the number of their writes: each writes a new image

jobVars == <<doc, index, backups, run, others, clock>>

JobInit == /\ doc \in [Docs -> {Void, 0}]
           /\ index = [i \in Indexes |-> "absent"]
           /\ backups = <<>> /\ run = Void /\ others = {} /\ clock = 0

-----------------------------------------------------------------------------
(* Backups.                                                                *)

EmptyManifest == [status |-> "prepared", pending |-> {}, applied |-> {},
                  creating |-> {}, dropping |-> {}, created |-> {}, dropped |-> {}]

Top == Len(backups)
Scope(b) == DOMAIN backups[b].entries
Drifted(d, image) == doc[d] # image

\* Of the announced writes of b, those that turn out to have been made.
Recovered(b) == {d \in backups[b].man.pending : /\ doc[d] # backups[b].entries[d].before
                                                /\ doc[d] = backups[b].entries[d].after}

Undone(b) == backups[b].man.applied \cup Recovered(b)

\* An update that found no document cannot be taken back.
Irreversible(b, d) == /\ backups[b].entries[d].op # "insert"
                      /\ backups[b].entries[d].before = Void

ToDrop(b) == backups[b].man.created
               \cup {i \in backups[b].man.creating : index[i] = "ours"}
ToCreate(b) == backups[b].man.dropped
               \cup {i \in backups[b].man.dropping : index[i] = "absent"}

\* Mutated form of Passes: the images of applied documents are not compared.
PassesUnseen(b) ==
  LET m == backups[b].man  e == backups[b].entries
  IN /\ \A d \in m.pending : doc[d] \in {e[d].before, e[d].after}
     /\ \A d \in Undone(b) : ~Irreversible(b, d)
     /\ \A i \in m.creating \cup m.dropping : index[i] # "other"
     /\ \A i \in ToDrop(b) : index[i] = "ours"
     /\ \A i \in ToCreate(b) : index[i] = "absent"

\* The plan to restore b finds nothing that someone changed.
Passes(b) ==
  LET m == backups[b].man  e == backups[b].entries
  IN /\ \A d \in m.pending \ m.applied : doc[d] \in {e[d].before, e[d].after}
     /\ \A d \in m.applied : ~Drifted(d, e[d].after)
     /\ \A d \in Undone(b) : ~Irreversible(b, d)
     /\ \A i \in m.creating \cup m.dropping : index[i] # "other"
     /\ \A i \in ToDrop(b) : index[i] = "ours"
     /\ \A i \in ToCreate(b) : index[i] = "absent"

\* The images before and after the restore of b.
SafetyEntries(b) ==
  [d \in Undone(b) |->
     LET e == backups[b].entries[d]
     IN [op |-> IF e.op = "insert" THEN "delete" ELSE "update",
         before |-> doc[d], after |-> IF e.op = "insert" THEN Void ELSE e.before]]

PlannedEntries ==
  [d \in {x \in Docs : doc[x] # New} |->
     [op |-> IF doc[d] = Void THEN "insert" ELSE "update", before |-> doc[d], after |-> New]]

-----------------------------------------------------------------------------
(* The beginning of a run.                                                 *)

\* The backup is on disk, checked, before the first write.
Begin(kind, on, entries, create, drop) ==
  /\ run = Void /\ Top < MaxBackups
  /\ backups' = Append(backups, [kind |-> kind, on |-> on, entries |-> entries,
                                 indexes |-> index, man |-> EmptyManifest])
  /\ run' = [man |-> EmptyManifest, docs |-> DOMAIN entries, create |-> create, drop |-> drop,
             batch |-> {}, written |-> {}, index |-> Void, counted |-> FALSE, failing |-> FALSE]
  /\ UNCHANGED <<doc, index, clock>>

Apply ==
  /\ \A i \in Indexes : index[i] # "other"
  /\ Begin("apply", 0, PlannedEntries, {i \in Indexes : index[i] = "absent"}, {})
  /\ others' = {}

Restore(b) ==
  /\ Passes(b)
  /\ Begin("restore", b, SafetyEntries(b), ToCreate(b), ToDrop(b))
  /\ UNCHANGED others

-----------------------------------------------------------------------------
(* The steps of a run.  The manifest changes in memory and is then saved.  *)

Active == run # Void /\ ~run.failing /\ run.man.status \in {"prepared", "running"}
Started == Active /\ run.man.status = "running"
Current == backups[Top]
Between == Started /\ run.batch = {} /\ run.index = Void

\* apply() makes its indexes first, restore() its documents; it drops before it creates.
MayWriteDocs == Current.kind = "restore" \/ run.create = {}
MayDrop == run.docs = {}
MayCreate == Current.kind = "apply" \/ (run.docs = {} /\ run.drop = {})

OnDisk(m) == backups' = [backups EXCEPT ![Top].man = m]

Save(r) ==
  /\ \/ OnDisk(r.man) /\ run' = r
     \/ UNCHANGED backups /\ run' = [run EXCEPT !.man = r.man, !.failing = TRUE]
  /\ UNCHANGED <<doc, index, others, clock>>

MarkRunning == Active /\ run.man.status = "prepared"
               /\ Save([run EXCEPT !.man.status = "running"])

\* Mutated form of AnnounceBatch: announced in memory, saved with the record.
AnnounceBatchUnsaved ==
  /\ Between /\ MayWriteDocs
  /\ \E B \in (SUBSET run.docs) \ {{}} :
    /\ Cardinality(B) <= BatchSize
    /\ run' = [run EXCEPT !.batch = B, !.man.pending = @ \cup B]
    /\ UNCHANGED <<doc, index, backups, others, clock>>

\* Batches of BatchSize, of one document for restore(); their order is left open.
AnnounceBatch ==
  /\ Between /\ MayWriteDocs
  /\ \E B \in (SUBSET run.docs) \ {{}} :
    /\ LET size == IF Current.kind = "apply" THEN BatchSize ELSE 1
       IN Cardinality(B) = size \/ (Cardinality(B) < size /\ B = run.docs)
    /\ Save([run EXCEPT !.batch = B, !.man.pending = @ \cup B])

\* The document must have exactly the image the plan found.  The answer may be lost.
WriteDocument(d) ==
  /\ Started /\ d \in run.batch \ run.written
  /\ ~Drifted(d, Current.entries[d].before)
  /\ doc' = [doc EXCEPT ![d] = Current.entries[d].after]
  /\ \/ run' = [run EXCEPT !.written = @ \cup {d}, !.counted = TRUE]
     \/ run' = [run EXCEPT !.failing = TRUE]
  /\ UNCHANGED <<index, backups, others, clock>>

RecordBatch ==
  /\ Started /\ run.batch # {} /\ run.batch = run.written
  /\ Save([run EXCEPT !.docs = @ \ run.batch, !.batch = {}, !.written = {},
                      !.man.pending = @ \ run.batch, !.man.applied = @ \cup run.batch])

AnnounceIndex(i) ==
  /\ Between
  /\ \/ MayCreate /\ i \in run.create
        /\ Save([run EXCEPT !.index = i, !.man.creating = @ \cup {i}])
     \/ MayDrop /\ i \in run.drop
        /\ Save([run EXCEPT !.index = i, !.man.dropping = @ \cup {i}])

\* createIndex finds the name free or the same definition; dropIndex goes by the name.
WriteIndex ==
  /\ Started /\ run.index # Void
  /\ \/ run.index \in run.man.creating /\ index[run.index] # "other"
        /\ index' = [index EXCEPT ![run.index] = "ours"]
     \/ run.index \in run.man.dropping /\ index[run.index] # "absent"
        /\ index' = [index EXCEPT ![run.index] = "absent"]
  /\ \/ run' = [run EXCEPT !.create = @ \ {run.index}, !.drop = @ \ {run.index},
                           !.written = {run.index}]
     \/ run' = [run EXCEPT !.failing = TRUE]
  /\ UNCHANGED <<doc, backups, others, clock>>

RecordIndex ==
  /\ Started /\ run.index # Void /\ run.written = {run.index}
  /\ LET i == run.index
         r == [run EXCEPT !.index = Void, !.written = {}, !.counted = TRUE]
     IN Save(IF i \in run.man.creating
             THEN [r EXCEPT !.man.creating = @ \ {i}, !.man.created = @ \cup {i}]
             ELSE [r EXCEPT !.man.dropping = @ \ {i}, !.man.dropped = @ \cup {i}])

\* Everything is read back; anything that differs is an error.
Verified ==
  /\ \A d \in Scope(Top) : doc[d] = Current.entries[d].after
  /\ \A i \in run.man.created : index[i] = "ours"
  /\ \A i \in run.man.dropped : index[i] = "absent"

Pass ==
  /\ Between /\ run.docs \cup run.create \cup run.drop = {} /\ Verified
  /\ Save([run EXCEPT !.man.status = "passed"])

\* restore() marks the backup it restored, apply() is done.
Return ==
  /\ run # Void /\ ~run.failing /\ run.man.status = "passed"
  /\ \/ /\ backups' = IF Current.kind = "apply" THEN backups
                      ELSE [backups EXCEPT ![Current.on].man.status = "restored"]
        /\ run' = Void
     \/ /\ Current.kind = "restore"
        /\ run' = [run EXCEPT !.failing = TRUE] /\ UNCHANGED backups
  /\ UNCHANGED <<doc, index, others, clock>>

\* The lease is lost, a document or index is not as expected, the target answers an error.
Throw ==
  /\ Active
  /\ run' = [run EXCEPT !.failing = TRUE]
  /\ UNCHANGED <<doc, index, backups, others, clock>>

Partial ==
  IF Current.kind = "restore" THEN run.counted
  ELSE run.counted \/ run.man.created \cup run.man.pending \cup run.man.creating # {}

\* The error is reported; so is it in the manifest, if that can be saved.
Report ==
  /\ run # Void /\ run.failing
  /\ \/ OnDisk([run.man EXCEPT !.status = IF Partial THEN "partial" ELSE "failed"])
     \/ UNCHANGED backups
  /\ run' = Void
  /\ UNCHANGED <<doc, index, others, clock>>

Crashes == /\ run # Void /\ run' = Void
           /\ UNCHANGED <<doc, index, backups, others, clock>>

-----------------------------------------------------------------------------
(* Other programs.                                                         *)

WriteElsewhere(d) ==
  /\ clock < MaxOthers /\ clock' = clock + 1
  /\ doc' = [doc EXCEPT ![d] = clock + 1]
  /\ others' = others \cup {d}
  /\ UNCHANGED <<index, backups, run>>

IndexElsewhere(i) ==
  /\ clock < MaxOthers /\ clock' = clock + 1
  /\ \E x \in {"absent", "ours", "other"} \ {index[i]} : index' = [index EXCEPT ![i] = x]
  /\ others' = others \cup {i}
  /\ UNCHANGED <<doc, backups, run>>

TaskStep ==
  \/ Apply \/ \E b \in 1..Top : Restore(b)
  \/ MarkRunning \/ AnnounceBatch \/ (\E d \in Docs : WriteDocument(d)) \/ RecordBatch
  \/ (\E i \in Indexes : AnnounceIndex(i)) \/ WriteIndex \/ RecordIndex
  \/ Pass \/ Return \/ Throw \/ Report \/ Crashes

JobNext == TaskStep \/ (\E d \in Docs : WriteElsewhere(d)) \/ (\E i \in Indexes : IndexElsewhere(i))

JobSpec == JobInit /\ [][JobNext]_jobVars

-----------------------------------------------------------------------------
Images == {Void, New} \cup (0..MaxOthers)
Entry == [op : {"insert", "update", "delete"}, before : Images, after : Images]
Manifests == [status : {"prepared", "running", "passed", "partial", "failed", "restored"},
              pending : SUBSET Docs, applied : SUBSET Docs, creating : SUBSET Indexes,
              dropping : SUBSET Indexes, created : SUBSET Indexes, dropped : SUBSET Indexes]

\* Types; a manifest announces and records only what its backup has images of, and no
\* write twice.
JobTypeOK ==
  /\ doc \in [Docs -> Images] /\ index \in [Indexes -> {"absent", "ours", "other"}]
  /\ Top <= MaxBackups
  /\ \A b \in 1..Top :
       /\ Scope(b) \subseteq Docs /\ \A d \in Scope(b) : backups[b].entries[d] \in Entry
       /\ backups[b].man \in Manifests
       /\ backups[b].man.pending \cup backups[b].man.applied \subseteq Scope(b)
       /\ backups[b].man.pending \cap backups[b].man.applied = {}
  /\ others \subseteq Docs \cup Indexes /\ clock \in 0..MaxOthers

\* What restoring b now would leave.
DocAfter(b, d) == IF d \in Undone(b) THEN backups[b].entries[d].before ELSE doc[d]
IndexAfter(b, i) ==
  IF i \in ToDrop(b) THEN "absent" ELSE IF i \in ToCreate(b) THEN "ours" ELSE index[i]

Undoable(b) ==
  /\ Passes(b)
  /\ \A d \in Scope(b) : DocAfter(b, d) = backups[b].entries[d].before
  /\ \A i \in Indexes : IndexAfter(b, i) = backups[b].indexes[i]

\* Wherever the last run stopped, its backup restores the target to what it was before
\* that run, as long as no other program has written to it.
RestoreUndoes ==
  run = Void /\ Top > 0 /\ others \cap (Scope(Top) \cup Indexes) = {}
    /\ (\A d \in Scope(Top) : ~Irreversible(Top, d))
  => Undoable(Top)

\* "The safety backup can itself be previewed and restored to undo a restore."
RestoreIsReversible ==
  run = Void /\ Top > 0 /\ others \cap (Scope(Top) \cup Indexes) = {}
    /\ Current.kind = "restore"
  => Undoable(Top)

\* No task overwrites a document that another program wrote after the task's plan, or
\* after the apply() it restores.
LaterWritesKept ==
  [][TaskStep => \A d \in Docs : doc'[d] # doc[d] => d \notin others]_jobVars

\* An apply() that says it failed, and not partly, has changed nothing.
FailedIsUntouched ==
  Top > 0 /\ Current.kind = "apply" /\ Current.man.status = "failed" =>
    /\ \A d \in Scope(Top) \ others : doc[d] = Current.entries[d].before
    /\ \A i \in Indexes \ others : index[i] = Current.indexes[i]

\* A run that failed has left nothing that its backup does not undo.
UndoIsWhole == JobTypeOK /\ RestoreUndoes /\ FailedIsUntouched
=============================================================================
