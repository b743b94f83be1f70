---------------------------- MODULE ModelVersions ----------------------------
(***************************************************************************)
(* The versioned writes of a Model: calls that read a document and write   *)
(* it back under the version they read, calls that write without reading,  *)
(* soft delete and restore, and the strict updateMany / updateBatch that   *)
(* visits every candidate of a filter.  The filter of the calls that have  *)
(* one selects the documents that are not "out".                           *)
(***************************************************************************)
EXTENDS Integers, Sequences, FiniteSets

CONSTANTS DocumentCount,  \* how many documents, numbered in the order of their _id
          Calls, KindOf,
          Mixes,      \* which of the calls are made together
          TargetOf,   \* the document a call with an _id filter names
          MovesOut,   \* the calls whose update moves the document out of the filter
          Unborn,     \* the documents that do not exist at first
          CandidateBatch, NoVersion, Gone

\* A document: its version, whether it has left the filter, whether it is soft-deleted.
Documents == [ver : Nat \cup {NoVersion}, out : BOOLEAN, deleted : BOOLEAN]

Kinds == {"save", "patch", "auto", "counter", "off", "strict", "increment", "upsert",
          "delete", "restore", "purge", "insert"}

ASSUME VersionAssumption ==
  /\ {DocumentCount, CandidateBatch} \subseteq Nat \ {0} /\ Unborn \subseteq 1..DocumentCount
  /\ KindOf \in [Calls -> Kinds] /\ TargetOf \in [Calls -> 1..DocumentCount]
  /\ MovesOut \subseteq Calls /\ Mixes \subseteq SUBSET Calls
  /\ NoVersion \notin Nat /\ Gone \notin Documents

VARIABLES
  doc,     \* each document, or Gone
  writes,  \* history: the calls that changed it, with how many changes each had seen
  pc,      \* where each call is
  seen,    \* the document as a call read it, and the number of its changes then
  next,    \* the document a multi-document call comes to next
  batch,   \* the candidates a strict call has read and not yet written
  report   \* what a strict call reports: matched, conflicted and skipped documents

versionVars == <<doc, writes, pc, seen, next, batch, report>>

DocumentIds == 1..DocumentCount
Fresh == [ver |-> 0, out |-> FALSE, deleted |-> FALSE]
Is(c, kinds) == KindOf[c] \in kinds
Exists(d) == doc[d] # Gone
Matches(d) == Exists(d) /\ ~doc[d].out
Goto(c, from, to) == pc[c] = from /\ pc' = [pc EXCEPT ![c] = to]

VersionTypeOK ==
  /\ doc \in [DocumentIds -> Documents \cup {Gone}]
  /\ pc \in [Calls -> {"unmade", "idle", "loaded", "found", "reading", "writing", "looking", "done", "failed"}]
  /\ next \in [Calls -> 1..(DocumentCount + 1)]
  /\ \A c \in Calls : Len(batch[c]) <= CandidateBatch

VersionInit ==
  /\ doc = [d \in DocumentIds |-> IF d \in Unborn THEN Gone ELSE Fresh]
  /\ writes = [d \in DocumentIds |-> <<>>]
  /\ \E made \in Mixes : pc = [c \in Calls |-> IF c \in made THEN "idle" ELSE "unmade"]
  /\ seen = [c \in Calls |-> [d \in DocumentIds |-> [doc |-> Gone, changes |-> 0]]]
  /\ next = [c \in Calls |-> 1] /\ batch = [c \in Calls |-> <<>>]
  /\ report = [c \in Calls |-> [matched |-> {}, conflicted |-> {}, skipped |-> {}]]

-----------------------------------------------------------------------------
(* One write to one document.                                              *)

Puts(c, d, to, changes) ==
  /\ doc' = [doc EXCEPT ![d] = [to EXCEPT !.out = @ \/ c \in MovesOut]]
  /\ writes' = [writes EXCEPT ![d] = Append(@, [by |-> c, saw |-> changes])]

\* $inc of the version, which creates it where there is none.
Bumped(d) == [doc[d] EXCEPT !.ver = IF @ = NoVersion THEN 1 ELSE @ + 1]

Sees(c, d) == seen' = [seen EXCEPT ![c][d] = [doc |-> doc[d], changes |-> Len(writes[d])]]

\* A write that names no version knows the document as it finds it.
Blind(c, d, to) == Puts(c, d, to, Len(writes[d]))

\* The filter of a write under the version that was read.
Unchanged(c, d) == Exists(d) /\ doc[d].ver = seen[c][d].doc.ver

-----------------------------------------------------------------------------
(* save(), replaceOne, updateOne, findOneAndUpdate, findOneAndReplace.     *)

\* The application has found the document: a query shows no soft-deleted one.
Load(c) ==
  LET d == TargetOf[c] IN
  /\ Is(c, {"save", "patch"}) /\ Exists(d) /\ ~doc[d].deleted
  /\ Goto(c, "idle", "loaded") /\ Sees(c, d)
  /\ UNCHANGED <<doc, writes, next, batch, report>>

Expected(c) == seen[c][TargetOf[c]].doc.ver

\* No expectedVersion is given, or that of a document which was read without one.
Unexpected(c) == \/ Is(c, {"auto"}) /\ pc[c] = "idle"
                 \/ Is(c, {"patch"}) /\ pc[c] = "loaded" /\ Expected(c) = NoVersion

\* The version is then looked up: soft-deleted documents count.
Lookup(c) ==
  LET d == TargetOf[c] IN
  /\ Unexpected(c) /\ pc' = [pc EXCEPT ![c] = IF Exists(d) THEN "found" ELSE "failed"]
  /\ Sees(c, d)
  /\ UNCHANGED <<doc, writes, next, batch, report>>

Prepared(c) == pc[c] \in {"loaded", "found"} /\ ~Unexpected(c)

\* Mutated form: the version an application read is not part of the filter.
SaveAnyVersion(c) ==
  LET d == TargetOf[c] IN
  /\ Is(c, {"save"}) /\ pc[c] = "loaded" /\ Expected(c) # NoVersion /\ Exists(d)
  /\ Goto(c, "loaded", "done")
  /\ Puts(c, d, [seen[c][d].doc EXCEPT !.ver = @ + 1], seen[c][d].changes)
  /\ UNCHANGED <<seen, next, batch, report>>

\* The whole document as it was read, with the next version.
Save(c) ==
  LET d == TargetOf[c] IN
  /\ Is(c, {"save"}) /\ pc[c] = "loaded" /\ Expected(c) # NoVersion /\ Unchanged(c, d)
  /\ Goto(c, "loaded", "done")
  /\ Puts(c, d, [seen[c][d].doc EXCEPT !.ver = @ + 1], seen[c][d].changes)
  /\ UNCHANGED <<seen, next, batch, report>>

\* An update of single fields, under the version read or looked up.
Patch(c) ==
  LET d == TargetOf[c] IN
  /\ Is(c, {"patch", "auto"}) /\ Prepared(c) /\ Expected(c) # NoVersion /\ Unchanged(c, d)
  /\ pc' = [pc EXCEPT ![c] = "done"] /\ Puts(c, d, Bumped(d), seen[c][d].changes)
  /\ UNCHANGED <<seen, next, batch, report>>

\* WRITE_CONFLICT, or INVALID_ARGUMENT where the version is not a number.
CallRefused(c) ==
  /\ Is(c, {"save", "patch", "auto"}) /\ Prepared(c)
  /\ Expected(c) = NoVersion \/ ~Unchanged(c, TargetOf[c])
  /\ pc' = [pc EXCEPT ![c] = "failed"]
  /\ UNCHANGED <<doc, writes, seen, next, batch, report>>

-----------------------------------------------------------------------------
(* insertOne, upsertOne, incrementOne, and the deletions.                  *)

Insert(c) ==
  LET d == TargetOf[c] IN
  /\ Is(c, {"insert"}) /\ Goto(c, "idle", IF Exists(d) THEN "failed" ELSE "done")
  /\ doc' = IF Exists(d) THEN doc ELSE [doc EXCEPT ![d] = Fresh]
  /\ UNCHANGED <<writes, seen, next, batch, report>>

\* Neither an inserted nor an updated document is given a version.
Upsert(c) ==
  LET d == TargetOf[c] IN
  /\ Is(c, {"upsert"}) /\ Goto(c, "idle", "done")
  /\ Blind(c, d, IF Exists(d) THEN doc[d] ELSE [Fresh EXCEPT !.ver = NoVersion])
  /\ UNCHANGED <<seen, next, batch, report>>

Increment(c) ==
  LET d == TargetOf[c] IN
  /\ Is(c, {"increment"}) /\ Exists(d) /\ Goto(c, "idle", "done") /\ Blind(c, d, Bumped(d))
  /\ UNCHANGED <<seen, next, batch, report>>

SoftDelete(c) ==
  LET d == TargetOf[c] IN
  /\ Is(c, {"delete"}) /\ Exists(d) /\ ~doc[d].deleted /\ Goto(c, "idle", "done")
  /\ Blind(c, d, [Bumped(d) EXCEPT !.deleted = TRUE])
  /\ UNCHANGED <<seen, next, batch, report>>

Restore(c) ==
  LET d == TargetOf[c] IN
  /\ Is(c, {"restore"}) /\ Exists(d) /\ doc[d].deleted /\ Goto(c, "idle", "done")
  /\ Blind(c, d, [Bumped(d) EXCEPT !.deleted = FALSE])
  /\ UNCHANGED <<seen, next, batch, report>>

\* forceDelete, and deleteOne where there is no soft delete.
Purge(c) ==
  /\ Is(c, {"purge"}) /\ Goto(c, "idle", "done")
  /\ doc' = [doc EXCEPT ![TargetOf[c]] = Gone]
  /\ UNCHANGED <<writes, seen, next, batch, report>>

-----------------------------------------------------------------------------
(* updateMany and updateBatch: the server, or the strict loop, visits the  *)
(* documents in order.                                                     *)

Passes(c) == next' = [next EXCEPT ![c] = @ + 1]

\* versionMode "counter" and "off".
BulkWrites(c) ==
  LET d == next[c] IN
  /\ Is(c, {"counter", "off"}) /\ d \in DocumentIds /\ Goto(c, "idle", IF d = DocumentCount THEN "done" ELSE "idle")
  /\ Passes(c)
  /\ IF Matches(d) THEN Blind(c, d, IF Is(c, {"counter"}) THEN Bumped(d) ELSE doc[d])
     ELSE UNCHANGED <<doc, writes>>
  /\ UNCHANGED <<seen, batch, report>>

\* The stream of candidates hands over the next one, with its version.
StrictReads(c) ==
  LET d == next[c] IN
  /\ Is(c, {"strict"}) /\ pc[c] \in {"idle", "reading"} /\ d \in DocumentIds /\ Len(batch[c]) < CandidateBatch
  /\ pc' = [pc EXCEPT ![c] = "reading"] /\ Passes(c)
  /\ IF Matches(d) THEN Sees(c, d) /\ batch' = [batch EXCEPT ![c] = Append(@, d)]
     ELSE UNCHANGED <<seen, batch>>
  /\ UNCHANGED <<doc, writes, report>>

\* A full batch, or the last one, is written.
StrictTurns(c) ==
  /\ Len(batch[c]) = CandidateBatch \/ next[c] > DocumentCount
  /\ Goto(c, "reading", "writing")
  /\ UNCHANGED <<doc, writes, seen, next, batch, report>>

NextInBatch(c) == batch' = [batch EXCEPT ![c] = Tail(@)]
Reports(c, what) == report' = [report EXCEPT ![c][what] = @ \cup {Head(batch[c])}]

\* updateOne of {filter, _id, version}; a version that is none rejects the call.
StrictWrites(c) ==
  LET d == Head(batch[c]) IN
  /\ pc[c] = "writing" /\ batch[c] # <<>>
  /\ IF seen[c][d].doc.ver = NoVersion
     THEN Goto(c, "writing", "failed") /\ UNCHANGED <<doc, writes, batch, report>>
     ELSE IF Matches(d) /\ Unchanged(c, d)
     THEN Puts(c, d, Bumped(d), seen[c][d].changes) /\ NextInBatch(c) /\ Reports(c, "matched")
          /\ UNCHANGED pc
     ELSE Goto(c, "writing", "looking") /\ UNCHANGED <<doc, writes, batch, report>>
  /\ UNCHANGED <<seen, next>>

\* isModelVersionConflict: it still matches the filter, with another version.
Conflict(c, d) == Matches(d) /\ doc[d].ver # seen[c][d].doc.ver

StrictLooks(c) ==
  /\ Goto(c, "looking", "writing") /\ NextInBatch(c)
  /\ Reports(c, IF Conflict(c, Head(batch[c])) THEN "conflicted" ELSE "skipped")
  /\ UNCHANGED <<doc, writes, seen, next>>

StrictEnds(c) ==
  /\ batch[c] = <<>> /\ Goto(c, "writing", IF next[c] > DocumentCount THEN "done" ELSE "reading")
  /\ UNCHANGED <<doc, writes, seen, next, batch, report>>

VersionNext == \E c \in Calls :
  \/ Load(c) \/ Lookup(c) \/ Save(c) \/ Patch(c) \/ CallRefused(c)
  \/ Insert(c) \/ Upsert(c) \/ Increment(c) \/ SoftDelete(c) \/ Restore(c) \/ Purge(c)
  \/ BulkWrites(c) \/ StrictReads(c) \/ StrictTurns(c) \/ StrictWrites(c) \/ StrictLooks(c) \/ StrictEnds(c)

VersionSpec == VersionInit /\ [][VersionNext]_versionVars

-----------------------------------------------------------------------------
(* Properties.                                                             *)

Unversioned(c) == Is(c, {"upsert", "off"})

(* Whoever writes a document under the version it read overwrites what it  *)
(* read: no other versioned change is lost, no deletion undone by a stale  *)
(* save.                                                                   *)
NoLostUpdate == \A d \in DocumentIds : \A i \in DOMAIN writes[d] :
  \A j \in (writes[d][i].saw + 1)..(i - 1) : Unversioned(writes[d][j].by)

(* The version of a document counts its versioned changes.                 *)
VersionCountsChanges == \A d \in DocumentIds :
  Exists(d) => doc[d].ver \in {NoVersion, Cardinality({i \in DOMAIN writes[d] : ~Unversioned(writes[d][i].by)})}

Since(c, d) == SubSeq(writes[d], seen[c][d].changes + 1, Len(writes[d]))

(* A strict update reports each candidate once: as matched what it has      *)
(* written, as conflicted what another call changed within the filter, as   *)
(* skipped only what has left the filter or is gone.                        *)
StrictReportsTruly == \A c \in Calls : Is(c, {"strict"}) /\ pc[c] = "done" =>
  LET r == report[c] IN
  /\ r.matched = {d \in DocumentIds : \E i \in DOMAIN writes[d] : writes[d][i].by = c}
  /\ \A d \in r.conflicted : d \notin r.matched /\ Since(c, d) # <<>> /\ Since(c, d)[1].by \notin MovesOut
  /\ \A d \in r.skipped : d \notin r.matched \cup r.conflicted /\ ~Matches(d)
  /\ \A d \in DocumentIds : seen[c][d].doc # Gone => d \in r.matched \cup r.conflicted \cup r.skipped

(* Versions do what optimistic locking needs of them.                       *)
VersionsHold == VersionTypeOK /\ NoLostUpdate /\ VersionCountsChanges /\ StrictReportsTruly
=============================================================================
