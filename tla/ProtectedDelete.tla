--------------------------- MODULE ProtectedDelete ---------------------------
(***************************************************************************)
(* deleteOneWithRelations and forceDeleteWithRelations: the target is      *)
(* found, every declared relation is scanned for references to it, and it  *)
(* is deleted, while other programs change what the filter matches and     *)
(* what refers to what.                                                    *)
(***************************************************************************)
EXTENDS FiniteSets

CONSTANTS Documents,  \* the documents the filter may match
          Relations,  \* the relations declared to the Model
          Deletes,    \* the protected deletes
          Forced,     \* those that are forceDeleteWithRelations
          NoDocument

ASSUME ProtectedAssumption == Forced \subseteq Deletes /\ NoDocument \notin Documents

VARIABLES
  matched,  \* the documents the filter matches
  marked,   \* the documents that are soft-deleted
  erased,   \* the documents that are not in the collection any more
  refs,     \* of each relation, the documents some source document refers to
  deletes,  \* where each delete is
  chosen,   \* the target each delete has found
  scanned,  \* the relations it has scanned
  held,     \* history: <<relation, document>> referred to ever since it began
  victims   \* history: the documents each delete has deleted

protectedVars == <<matched, marked, erased, refs, deletes, chosen, scanned, held, victims>>

Pairs == Relations \X Documents
Held(referred) == {p \in Pairs : p[2] \in referred[p[1]]}

ProtectedTypeOK ==
  /\ matched \subseteq Documents /\ marked \subseteq Documents /\ erased \subseteq Documents
  /\ refs \in [Relations -> SUBSET Documents] /\ chosen \in [Deletes -> Documents \cup {NoDocument}]
  /\ deletes \in [Deletes -> {"idle", "scanning", "clear", "done", "refused"}]
  /\ scanned \in [Deletes -> SUBSET Relations]
  /\ held \in [Deletes -> SUBSET Pairs] /\ victims \in [Deletes -> SUBSET Documents]

ProtectedInit ==
  /\ matched \in SUBSET Documents /\ marked = {} /\ erased = {}
  /\ refs \in [Relations -> SUBSET Documents]
  /\ deletes = [c \in Deletes |-> "idle"] /\ chosen = [c \in Deletes |-> NoDocument]
  /\ scanned = [c \in Deletes |-> {}] /\ held = [c \in Deletes |-> {}]
  /\ victims = [c \in Deletes |-> {}]

\* What the filter selects: an ordinary delete adds the visibility condition.
Selected(c) == (matched \ erased) \ (IF c \in Forced THEN {} ELSE marked)

Step(c, from, to) == deletes[c] = from /\ deletes' = [deletes EXCEPT ![c] = to]

-----------------------------------------------------------------------------
\* findOne of the filter, after the before hook.
Resolve(c) ==
  /\ Step(c, "idle", "scanning")
  /\ IF Selected(c) = {} THEN chosen' = chosen
     ELSE \E d \in Selected(c) : chosen' = [chosen EXCEPT ![c] = d]
  /\ held' = [held EXCEPT ![c] = Held(refs)]
  /\ UNCHANGED <<matched, marked, erased, refs, scanned, victims>>

\* The target could not be read.
ResolveFails(c) ==
  /\ Step(c, "idle", "refused")
  /\ UNCHANGED <<matched, marked, erased, refs, chosen, scanned, held, victims>>

\* One relation is counted: any reference refuses the deletion.
Scan(c) == \E r \in Relations \ scanned[c] :
  /\ deletes[c] = "scanning" /\ scanned' = [scanned EXCEPT ![c] = @ \cup {r}]
  /\ IF chosen[c] \in refs[r] THEN Step(c, "scanning", "refused") ELSE UNCHANGED deletes
  /\ UNCHANGED <<matched, marked, erased, refs, chosen, held, victims>>

\* A relation that cannot be read makes the coverage incomplete.
ScanFails(c) == \E r \in Relations \ scanned[c] :
  /\ Step(c, "scanning", "refused") /\ scanned' = [scanned EXCEPT ![c] = @ \cup {r}]
  /\ UNCHANGED <<matched, marked, erased, refs, chosen, held, victims>>

ScanEnds(c) ==
  /\ scanned[c] = Relations /\ Step(c, "scanning", "clear")
  /\ UNCHANGED <<matched, marked, erased, refs, chosen, scanned, held, victims>>

\* Mutated form: what the filter matches by now is deleted.
VictimsByFilter(c) == Selected(c)

\* The write keeps the filter and adds the _id that was checked.
Victims(c) == Selected(c) \cap {chosen[c]}

\* Soft, or physical where it is forced.
Delete(c) ==
  /\ Step(c, "clear", "done")
  /\ \/ Victims(c) = {} /\ UNCHANGED <<marked, erased, victims>>
     \/ \E d \in Victims(c) :
          /\ victims' = [victims EXCEPT ![c] = @ \cup {d}]
          /\ IF c \in Forced THEN erased' = erased \cup {d} /\ UNCHANGED marked
             ELSE marked' = marked \cup {d} /\ UNCHANGED erased
  /\ UNCHANGED <<matched, refs, chosen, scanned, held>>

\* Other programs: a document starts or stops to match, a reference to it is
\* made or removed.
Drift ==
  /\ \E d \in Documents : matched' = IF d \in matched THEN matched \ {d} ELSE matched \cup {d}
  /\ UNCHANGED <<marked, erased, refs, deletes, chosen, scanned, held, victims>>

Refer ==
  /\ \E r \in Relations, d \in Documents :
       refs' = [refs EXCEPT ![r] = IF d \in @ THEN @ \ {d} ELSE @ \cup {d}]
  /\ held' = [c \in Deletes |-> held[c] \cap Held(refs')]
  /\ UNCHANGED <<matched, marked, erased, deletes, chosen, scanned, victims>>

ProtectedNext ==
  \/ \E c \in Deletes : \/ Resolve(c) \/ ResolveFails(c) \/ Scan(c) \/ ScanFails(c)
                        \/ ScanEnds(c) \/ Delete(c)
  \/ Drift \/ Refer

ProtectedSpec == ProtectedInit /\ [][ProtectedNext]_protectedVars

-----------------------------------------------------------------------------
(* Properties.                                                             *)

(* A document that something has referred to ever since a protected delete  *)
(* resolved its target is never deleted by it, whatever its filter comes    *)
(* to match and whichever relation could not be read.                       *)
UsedIsSpared ==
  /\ ProtectedTypeOK
  /\ \A c \in Deletes, r \in Relations : \A d \in victims[c] : <<r, d>> \notin held[c]
=============================================================================
