--------------------------- MODULE DataPathProofs ---------------------------
(***************************************************************************)
(* For any calls and any data: no read refills a local level after it was  *)
(* invalidated, a protected delete spares what is referred to, the report  *)
(* of a batch write is true, and a policy decides alike at every level.    *)
(***************************************************************************)
EXTENDS BackfillFence, ModelCalls, BatchWrites, DatabaseOperations,
        FiniteSetTheorems, WellFoundedInduction, TLAPS

(***************************************************************************)
(* Protected delete.  Of the relations that were scanned none has held a   *)
(* reference to the target ever since, and only what all of them clear is  *)
(* deleted.                                                                *)
(***************************************************************************)
Protects(c) ==
  /\ deletes[c] = "idle" => scanned[c] = {}
  /\ held[c] \subseteq Held(refs)
  /\ deletes[c] \in {"scanning", "clear", "done"} =>
       \A r \in scanned[c] : <<r, chosen[c]>> \notin held[c]
  /\ deletes[c] \in {"clear", "done"} => scanned[c] = Relations
  /\ victims[c] \subseteq {chosen[c]}
  /\ victims[c] # {} => deletes[c] = "done"

ProtectedIInv == ProtectedTypeOK /\ \A c \in Deletes : Protects(c)

\* No delete is under way at first.
LEMMA ProtectedStarts == ProtectedInit => ProtectedIInv
  BY DEF ProtectedInit, ProtectedIInv, ProtectedTypeOK, Protects

\* What Held is.
LEMMA HeldIs ==
  /\ Held(refs) \subseteq Pairs
  /\ \A r \in Relations, d \in Documents : <<r, d>> \in Held(refs) => d \in refs[r]
  /\ \A p \in Pairs : \E r \in Relations, d \in Documents : p = <<r, d>>
  BY DEF Held, Pairs

\* A step of delete c concerns no other.
LEMMA OnlyOne ==
  ASSUME ProtectedIInv, NEW c \in Deletes, ProtectedTypeOK', UNCHANGED refs, Protects(c)',
         \A b \in Deletes : b # c => /\ deletes'[b] = deletes[b] /\ scanned'[b] = scanned[b]
                                     /\ held'[b] = held[b] /\ chosen'[b] = chosen[b]
                                     /\ victims'[b] = victims[b]
  PROVE  ProtectedIInv'
<1>1. ASSUME NEW b \in Deletes, b # c PROVE Protects(b)'
  <2>1. Protects(b) /\ Held(refs)' = Held(refs)
    BY DEF ProtectedIInv, Held, Pairs
  <2> QED
    BY <1>1, <2>1 DEF Protects
<1> QED
  BY <1>1 DEF ProtectedIInv

\* Every step of a protected delete, and of others, keeps the invariant.
LEMMA ProtectedStep == ProtectedIInv /\ [ProtectedNext]_protectedVars => ProtectedIInv'
<1> SUFFICES ASSUME ProtectedIInv, [ProtectedNext]_protectedVars PROVE ProtectedIInv'
  OBVIOUS
<1>1. ASSUME NEW c \in Deletes, Resolve(c) PROVE ProtectedIInv'
  <2>1. /\ deletes[c] = "idle" /\ deletes' = [deletes EXCEPT ![c] = "scanning"]
        /\ held' = [held EXCEPT ![c] = Held(refs)]
        /\ UNCHANGED <<matched, marked, erased, refs, scanned, victims>>
        /\ scanned[c] = {} /\ victims[c] = {}
    BY <1>1 DEF Resolve, Step, ProtectedIInv, Protects
  <2>2. \E d \in Documents \cup {NoDocument} : chosen' = [chosen EXCEPT ![c] = d]
    <3>1. Selected(c) \subseteq Documents /\ chosen = [chosen EXCEPT ![c] = chosen[c]]
      BY DEF Selected, ProtectedIInv, ProtectedTypeOK
    <3> QED
      BY <1>1, <3>1 DEF Resolve, ProtectedIInv, ProtectedTypeOK
  <2>3. ProtectedTypeOK'
    BY <2>1, <2>2, HeldIs DEF ProtectedIInv, ProtectedTypeOK
  <2>4. Protects(c)'
    <3>1. Held(refs)' = Held(refs) /\ held'[c] = Held(refs) /\ deletes'[c] = "scanning"
      BY <2>1 DEF Held, ProtectedIInv, ProtectedTypeOK
    <3> QED
      BY <2>1, <3>1 DEF Protects
  <2> QED
    BY <2>1, <2>2, <2>3, <2>4, OnlyOne DEF ProtectedIInv, ProtectedTypeOK
<1>2. ASSUME NEW c \in Deletes, ResolveFails(c) PROVE ProtectedIInv'
  <2>1. /\ deletes[c] = "idle" /\ deletes' = [deletes EXCEPT ![c] = "refused"]
        /\ UNCHANGED <<matched, marked, erased, refs, chosen, scanned, held, victims>>
    BY <1>2 DEF ResolveFails, Step
  <2>2. ProtectedTypeOK' /\ deletes'[c] = "refused"
    BY <2>1 DEF ProtectedIInv, ProtectedTypeOK
  <2>3. Protects(c)'
    <3>1. Protects(c) /\ Held(refs)' = Held(refs)
      BY <2>1 DEF ProtectedIInv, Held
    <3> QED
      BY <2>1, <2>2, <3>1 DEF Protects
  <2> QED
    BY <2>1, <2>2, <2>3, OnlyOne DEF ProtectedIInv, ProtectedTypeOK
<1>3. ASSUME NEW c \in Deletes, Scan(c) PROVE ProtectedIInv'
  <2>1. PICK r \in Relations \ scanned[c] :
          /\ deletes[c] = "scanning" /\ scanned' = [scanned EXCEPT ![c] = @ \cup {r}]
          /\ IF chosen[c] \in refs[r] THEN deletes' = [deletes EXCEPT ![c] = "refused"]
             ELSE deletes' = deletes
          /\ UNCHANGED <<matched, marked, erased, refs, chosen, held, victims>>
    BY <1>3 DEF Scan, Step
  <2>2. ProtectedTypeOK'
    BY <2>1 DEF ProtectedIInv, ProtectedTypeOK
  <2>3. Protects(c) /\ Held(refs)' = Held(refs)
    BY <2>1 DEF ProtectedIInv, Held
  <2>4. deletes'[c] = "scanning" => <<r, chosen[c]>> \notin held[c]
    <3>1. deletes'[c] = "scanning" => chosen[c] \notin refs[r]
      BY <2>1 DEF ProtectedIInv, ProtectedTypeOK
    <3>2. <<r, chosen[c]>> \in held[c] => chosen[c] \in refs[r]
      BY <2>3, HeldIs DEF Protects, Held, Pairs
    <3> QED
      BY <3>1, <3>2
  <2>5. /\ scanned'[c] = scanned[c] \cup {r} /\ deletes'[c] \in {"scanning", "refused"}
        /\ chosen'[c] = chosen[c] /\ held'[c] = held[c] /\ victims'[c] = victims[c]
    BY <2>1 DEF ProtectedIInv, ProtectedTypeOK
  <2>6. Protects(c)'
    BY <2>1, <2>3, <2>4, <2>5 DEF Protects
  <2> QED
    BY <2>1, <2>2, <2>6, OnlyOne DEF ProtectedIInv, ProtectedTypeOK
<1>4. ASSUME NEW c \in Deletes, ScanFails(c) PROVE ProtectedIInv'
  <2>1. PICK r \in Relations \ scanned[c] :
          /\ deletes[c] = "scanning" /\ deletes' = [deletes EXCEPT ![c] = "refused"]
          /\ scanned' = [scanned EXCEPT ![c] = @ \cup {r}]
          /\ UNCHANGED <<matched, marked, erased, refs, chosen, held, victims>>
    BY <1>4 DEF ScanFails, Step
  <2>2. ProtectedTypeOK' /\ deletes'[c] = "refused"
    BY <2>1 DEF ProtectedIInv, ProtectedTypeOK
  <2>3. Protects(c)'
    <3>1. Protects(c) /\ Held(refs)' = Held(refs)
      BY <2>1 DEF ProtectedIInv, Held
    <3> QED
      BY <2>1, <2>2, <3>1 DEF Protects
  <2> QED
    BY <2>1, <2>2, <2>3, OnlyOne DEF ProtectedIInv, ProtectedTypeOK
<1>5. ASSUME NEW c \in Deletes, ScanEnds(c) PROVE ProtectedIInv'
  <2>1. /\ scanned[c] = Relations /\ deletes[c] = "scanning"
        /\ deletes' = [deletes EXCEPT ![c] = "clear"]
        /\ UNCHANGED <<matched, marked, erased, refs, chosen, scanned, held, victims>>
    BY <1>5 DEF ScanEnds, Step
  <2>2. ProtectedTypeOK' /\ deletes'[c] = "clear"
    BY <2>1 DEF ProtectedIInv, ProtectedTypeOK
  <2>3. Protects(c)'
    <3>1. Protects(c) /\ Held(refs)' = Held(refs)
      BY <2>1 DEF ProtectedIInv, Held
    <3> QED
      BY <2>1, <2>2, <3>1 DEF Protects
  <2> QED
    BY <2>1, <2>2, <2>3, OnlyOne DEF ProtectedIInv, ProtectedTypeOK
<1>6. ASSUME NEW c \in Deletes, Delete(c) PROVE ProtectedIInv'
  <2>1. /\ deletes[c] = "clear" /\ deletes' = [deletes EXCEPT ![c] = "done"]
        /\ UNCHANGED <<matched, refs, chosen, scanned, held>>
    BY <1>6 DEF Delete, Step
  <2>2. /\ victims' \in [Deletes -> SUBSET Documents] /\ victims'[c] \subseteq {chosen[c]}
        /\ \A b \in Deletes : b # c => victims'[b] = victims[b]
        /\ marked' \subseteq Documents /\ erased' \subseteq Documents
    <3>1. /\ victims \in [Deletes -> SUBSET Documents] /\ victims[c] \subseteq {chosen[c]}
          /\ marked \subseteq Documents /\ erased \subseteq Documents
          /\ Victims(c) \subseteq Documents /\ Victims(c) \subseteq {chosen[c]}
      BY DEF ProtectedIInv, ProtectedTypeOK, Protects, Victims, Selected
    <3>2. CASE UNCHANGED <<marked, erased, victims>>
      BY <3>1, <3>2
    <3>3. CASE \E d \in Victims(c) :
                 /\ victims' = [victims EXCEPT ![c] = @ \cup {d}]
                 /\ IF c \in Forced THEN erased' = erased \cup {d} /\ UNCHANGED marked
                    ELSE marked' = marked \cup {d} /\ UNCHANGED erased
      BY <3>1, <3>3
    <3> QED
      BY <1>6, <3>2, <3>3 DEF Delete
  <2>3. ProtectedTypeOK' /\ deletes'[c] = "done"
    BY <2>1, <2>2 DEF ProtectedIInv, ProtectedTypeOK
  <2>4. Protects(c)'
    <3>1. Protects(c) /\ Held(refs)' = Held(refs)
      BY <2>1 DEF ProtectedIInv, Held
    <3> QED
      BY <2>1, <2>2, <2>3, <3>1 DEF Protects
  <2> QED
    BY <2>1, <2>2, <2>3, <2>4, OnlyOne DEF ProtectedIInv, ProtectedTypeOK
<1>7. CASE Drift
  <2>1. /\ matched' \subseteq Documents
        /\ UNCHANGED <<marked, erased, refs, deletes, chosen, scanned, held, victims>>
    BY <1>7 DEF Drift, ProtectedIInv, ProtectedTypeOK
  <2>2. ProtectedTypeOK' /\ Held(refs)' = Held(refs)
    BY <2>1 DEF ProtectedIInv, ProtectedTypeOK, Held
  <2> QED
    BY <2>1, <2>2 DEF ProtectedIInv, Protects
<1>8. CASE Refer
  <2>1. /\ refs' \in [Relations -> SUBSET Documents]
        /\ held' = [c \in Deletes |-> held[c] \cap Held(refs')]
        /\ UNCHANGED <<matched, marked, erased, deletes, chosen, scanned, victims>>
    BY <1>8 DEF Refer, ProtectedIInv, ProtectedTypeOK
  <2>2. ProtectedTypeOK' /\ \A c \in Deletes : held'[c] = held[c] \cap Held(refs')
    BY <2>1 DEF ProtectedIInv, ProtectedTypeOK
  <2>3. ASSUME NEW c \in Deletes PROVE Protects(c)'
    BY <2>1, <2>2 DEF ProtectedIInv, Protects
  <2> QED
    BY <2>2, <2>3 DEF ProtectedIInv
<1>9. CASE UNCHANGED protectedVars
  <2>1. UNCHANGED <<matched, marked, erased, refs, deletes, chosen, scanned, held, victims>>
    BY <1>9 DEF protectedVars
  <2>2. ProtectedTypeOK' /\ Held(refs)' = Held(refs)
    BY <2>1 DEF ProtectedIInv, ProtectedTypeOK, Held
  <2> QED
    BY <2>1, <2>2 DEF ProtectedIInv, Protects
<1> QED
  BY <1>1, <1>2, <1>3, <1>4, <1>5, <1>6, <1>7, <1>8, <1>9 DEF ProtectedNext

(* For any documents, relations and deletes: what some relation has referred *)
(* to ever since a protected delete began is not deleted by it.              *)
THEOREM UsedStays == ProtectedSpec => []UsedIsSpared
<1>1. ProtectedIInv => UsedIsSpared
  BY DEF ProtectedIInv, Protects, UsedIsSpared
<1> QED
  BY <1>1, ProtectedStarts, ProtectedStep, PTL DEF ProtectedSpec

(***************************************************************************)
(* Calls.  What is sent has been validated and has the condition it needs, *)
(* so that a read takes, and a deletion claims, only what is not deleted   *)
(* when the server comes to it.                                            *)
(***************************************************************************)
Unasked(c) == ~calls[c].ask.shows /\ ~calls[c].replaced

CallKept(c) ==
  /\ lasting[c] \subseteq marked
  /\ calls[c].at = "sent" => /\ MustCheck(calls[c].ask) => ~Invalid(calls[c].ask)
                             /\ calls[c].ask.op \in ReadOps /\ Unasked(c) => calls[c].hides
                             /\ calls[c].ask.op = "remove" /\ ~calls[c].ask.forced
                                /\ ~calls[c].ask.shows => calls[c].hides
  /\ calls[c].took # {} => calls[c].ask \in Asks
  /\ calls[c].took # {} /\ Unasked(c) => calls[c].took \cap lasting[c] = {}

ClaimsKept == \A d \in Documents : claims[d] =< (IF d \in marked THEN 1 ELSE 0)

ModelIInv ==
  /\ ProtectedIInv /\ CallTypeOK /\ ClaimsKept /\ vouched \subseteq fitting
  /\ \A c \in Calls : CallKept(c)

\* The invariant holds at first.
LEMMA ModelStarts == ProtectedInit /\ CallInit => ModelIInv
<1> SUFFICES ASSUME ProtectedInit, CallInit PROVE ModelIInv
  OBVIOUS
<1>1. CallTypeOK
  <2>1. Finished("idle") \in CallType
    BY DEF Finished, CallType, Over
  <2> QED
    BY <2>1 DEF CallInit, CallTypeOK, Finished, Over
<1>2. \A c \in Calls : CallKept(c)
  BY DEF CallInit, CallKept, Finished
<1> QED
  BY <1>1, <1>2, ProtectedStarts DEF ModelIInv, ClaimsKept, CallInit

\* Calls leave what concerns the protected deletes alone.
LEMMA ProtectedUnmoved ==
  ASSUME ProtectedIInv, marked' \subseteq Documents, erased' \subseteq Documents,
         UNCHANGED <<matched, refs, deletes, chosen, scanned, held, victims>>
  PROVE  ProtectedIInv'
<1>1. Held(refs)' = Held(refs)
  BY DEF Held, Pairs
<1>2. ProtectedTypeOK'
  BY DEF ProtectedIInv, ProtectedTypeOK, Pairs
<1> QED
  BY <1>1, <1>2 DEF ProtectedIInv, Protects

\* A call that does not move is kept, whatever becomes deleted or restored.
LEMMA OthersKept ==
  ASSUME NEW b \in Calls, CallKept(b), style' = style, calls'[b] = calls[b],
         \/ lasting'[b] = lasting[b] \cap marked'
         \/ lasting'[b] = lasting[b] /\ marked' = marked
  PROVE  CallKept(b)'
  BY DEF CallKept, Unasked, MustCheck, Invalid

\* What a step must show when call c moves alone.
LEMMA OneCall ==
  ASSUME ModelIInv, NEW c \in Calls, style' = style, marked' \subseteq Documents,
         erased' \subseteq Documents, fitting' \subseteq Documents, vouched' \subseteq fitting',
         claims' \in [Documents -> Nat], ClaimsKept', lasting' \in [Calls -> SUBSET Documents],
         UNCHANGED <<matched, refs, deletes, chosen, scanned, held, victims>>,
         NEW r \in CallType, calls' = [calls EXCEPT ![c] = r],
         r.at \notin Over => r.ask \in Asks, CallKept(c)',
         \A b \in Calls \ {c} : \/ lasting'[b] = lasting[b] \cap marked'
                                \/ lasting'[b] = lasting[b] /\ marked' = marked
  PROVE  ModelIInv'
<1>1. ProtectedIInv'
  BY ProtectedUnmoved DEF ModelIInv
<1>2. CallTypeOK'
  BY DEF ModelIInv, CallTypeOK
<1>3. ASSUME NEW b \in Calls, b # c PROVE CallKept(b)'
  <2>1. calls'[b] = calls[b]
    BY <1>3 DEF ModelIInv, CallTypeOK
  <2> QED
    BY <1>3, <2>1, OthersKept DEF ModelIInv
<1> QED
  BY <1>1, <1>2, <1>3 DEF ModelIInv

\* A call ends.
LEMMA EndsKeeps ==
  ASSUME ModelIInv, NEW c \in Calls, NEW how \in Over, EndsCall(c, how),
         UNCHANGED <<matched, refs, deletes, chosen, scanned, held, victims>>
  PROVE  ModelIInv'
<1>1. Finished(how) \in CallType /\ Finished(how).at \in Over /\ Finished(how).took = {}
  BY DEF Finished, CallType, Over
<1>2. calls' = [calls EXCEPT ![c] = Finished(how)] /\ calls'[c] = Finished(how)
  BY DEF EndsCall, ModelIInv, CallTypeOK
<1>3. /\ lasting' \in [Calls -> SUBSET Documents] /\ lasting'[c] = {}
      /\ \A b \in Calls \ {c} : lasting'[b] = lasting[b]
  BY DEF EndsCall, ModelIInv, CallTypeOK
<1>4. CallKept(c)'
  <2>1. Finished(how).at # "sent"
    BY <1>1 DEF Over
  <2> QED
    BY <1>1, <1>2, <1>3, <2>1 DEF CallKept
<1> QED
  <2>1. UNCHANGED <<style, fitting, vouched, claims, marked, erased>> /\ ClaimsKept'
    BY DEF EndsCall, ModelIInv, ClaimsKept
  <2>2. marked \subseteq Documents /\ erased \subseteq Documents
    BY DEF ModelIInv, ProtectedIInv, ProtectedTypeOK
  <2> QED
    BY <1>1, <1>2, <1>3, <1>4, <2>1, <2>2, OneCall DEF ModelIInv, CallTypeOK

\* A call begins.
LEMMA BeginKeeps ==
  ASSUME ModelIInv, NEW c \in Calls, Begin(c),
         UNCHANGED <<matched, refs, deletes, chosen, scanned, held, victims>>
  PROVE  ModelIInv'
<1>1. PICK a \in AsksOf[c] : calls' = [calls EXCEPT ![c] = [Finished("hooking") EXCEPT !.ask = a]]
  BY DEF Begin
<1> DEFINE r == [Finished("hooking") EXCEPT !.ask = a]
<1>2. r \in CallType /\ r.ask \in Asks /\ r.at = "hooking" /\ r.took = {}
  <2>1. a \in Asks
    BY CallAssumption
  <2> QED
    BY <2>1 DEF Finished, CallType
<1>3. /\ UNCHANGED <<style, fitting, vouched, claims, marked, erased>>
      /\ lasting' = [lasting EXCEPT ![c] = marked] /\ marked \subseteq Documents
      /\ erased \subseteq Documents /\ calls'[c] = r
  BY <1>1 DEF Begin, ModelIInv, CallTypeOK, ProtectedIInv, ProtectedTypeOK
<1>4. lasting' \in [Calls -> SUBSET Documents] /\ lasting'[c] = marked
  BY <1>3 DEF ModelIInv, CallTypeOK
<1>5. CallKept(c)' /\ ClaimsKept'
  BY <1>2, <1>3, <1>4 DEF CallKept, ClaimsKept, ModelIInv
<1>6. \A b \in Calls \ {c} : lasting'[b] = lasting[b]
  BY <1>3 DEF ModelIInv, CallTypeOK
<1> HIDE DEF r
<1> QED
  BY <1>1, <1>2, <1>3, <1>4, <1>5, <1>6, OneCall DEF ModelIInv, CallTypeOK, r

\* A call is sent.
LEMMA SendKeeps ==
  ASSUME ModelIInv, NEW c \in Calls, Send(c),
         UNCHANGED <<matched, refs, deletes, chosen, scanned, held, victims>>
  PROVE  ModelIInv'
<1> DEFINE a == calls[c].ask
<1>0. PICK replaced \in BOOLEAN : \E b \in IF replaced THEN Rewritten(a) ELSE {a} :
        IF Rejects(a, b) THEN EndsCall(c, "rejected")
        ELSE /\ calls' = [calls EXCEPT ![c] =
                  [at |-> "sent", ask |-> b, hides |-> Condition(a, b, replaced),
                   replaced |-> replaced /\ b.op = "find", left |-> Documents, took |-> {}]]
             /\ UNCHANGED <<style, fitting, vouched, claims, lasting, marked, erased>>
  BY DEF Send
<1>1. PICK b \in IF replaced THEN Rewritten(a) ELSE {a} :
        IF Rejects(a, b) THEN EndsCall(c, "rejected")
        ELSE /\ calls' = [calls EXCEPT ![c] =
                  [at |-> "sent", ask |-> b, hides |-> Condition(a, b, replaced),
                   replaced |-> replaced /\ b.op = "find", left |-> Documents, took |-> {}]]
             /\ UNCHANGED <<style, fitting, vouched, claims, lasting, marked, erased>>
  BY <1>0
<1>2. CASE Rejects(a, b)
  BY <1>1, <1>2, EndsKeeps DEF Over
<1>3. CASE ~Rejects(a, b)
  <2>1. calls[c].at = "hooking" /\ a \in Asks
    BY DEF Send, ModelIInv, CallTypeOK, Over
  <2>2. b \in Asks
    BY <2>1 DEF Rewritten
  <2> DEFINE r == [at |-> "sent", ask |-> b, hides |-> Condition(a, b, replaced),
                   replaced |-> replaced /\ b.op = "find", left |-> Documents, took |-> {}]
  <2>3. Condition(a, b, replaced) \in BOOLEAN /\ (replaced /\ b.op = "find") \in BOOLEAN
    BY DEF Condition
  <2>4. /\ r \in CallType /\ r.at = "sent" /\ r.ask = b /\ r.took = {}
        /\ r.hides = Condition(a, b, replaced) /\ r.replaced = (replaced /\ b.op = "find")
    BY <2>2, <2>3 DEF CallType
  <2>5. /\ calls' = [calls EXCEPT ![c] = r]
        /\ UNCHANGED <<style, fitting, vouched, claims, lasting, marked, erased>>
    BY <1>1, <1>3
  <2>6. calls'[c] = r
    BY <2>5 DEF ModelIInv, CallTypeOK
  <2> HIDE DEF r, a
  <2>7. CallKept(c)' /\ ClaimsKept'
    <3>1. MustCheck(b) => ~Invalid(b)
      BY <1>3 DEF Rejects
    <3>2. (MustCheck(b) => ~Invalid(b))'
      BY <2>5, <3>1 DEF MustCheck, Invalid
    <3>3. b.op \in ReadOps /\ ~b.shows /\ ~(replaced /\ b.op = "find") => Condition(a, b, replaced)
      BY DEF Condition, Hides
    <3>4. b.op = "remove" /\ ~b.forced /\ ~b.shows => Condition(a, b, replaced)
      BY DEF Condition, Hides
    <3>5. lasting[c] \subseteq marked
      BY DEF ModelIInv, CallKept
    <3> QED
      BY <2>4, <2>5, <2>6, <3>2, <3>3, <3>4, <3>5 DEF CallKept, ClaimsKept, Unasked, ModelIInv
  <2> QED
    BY <2>2, <2>4, <2>5, <2>7, OneCall DEF ModelIInv, CallTypeOK, ProtectedIInv, ProtectedTypeOK
<1> QED
  BY <1>2, <1>3

\* The server answers.
LEMMA ServedKeeps ==
  ASSUME ModelIInv, NEW c \in Calls, ServerAnswers(c),
         UNCHANGED <<matched, refs, deletes, chosen, scanned, held, victims>>
  PROVE  ModelIInv'
<1> DEFINE r == [calls[c] EXCEPT !.at = "served", !.left = {}]
<1>1. calls[c] \in CallType /\ calls[c].at = "sent"
  BY DEF ServerAnswers, ModelIInv, CallTypeOK
<1>2. /\ r \in CallType /\ r.at = "served" /\ r.ask = calls[c].ask /\ r.took = calls[c].took
      /\ r.replaced = calls[c].replaced
  BY <1>1 DEF CallType
<1>3. /\ calls' = [calls EXCEPT ![c] = r]
      /\ UNCHANGED <<style, fitting, vouched, claims, lasting, marked, erased>>
  BY <1>1 DEF ServerAnswers, ModelIInv, CallTypeOK, CallType
<1>4. calls'[c] = r /\ calls[c].ask \in Asks
  BY <1>1, <1>3 DEF ModelIInv, CallTypeOK, Over
<1> HIDE DEF r
<1>5. CallKept(c)' /\ ClaimsKept'
  BY <1>2, <1>3, <1>4 DEF CallKept, ClaimsKept, Unasked, ModelIInv
<1> QED
  BY <1>2, <1>3, <1>4, <1>5, OneCall DEF ModelIInv, CallTypeOK, ProtectedIInv, ProtectedTypeOK

\* What a call becomes when the server comes to a document.
Came(c, d) ==
  [calls[c] EXCEPT !.left = IF calls[c].ask.size = "one" THEN {} ELSE @ \ {d},
                   !.took = IF calls[c].ask.op \in ReadOps THEN @ \cup {d} ELSE @]

\* The server comes only to what the query shows, and what it leaves deleted was not shown.
LEMMA ComesTo ==
  ASSUME ModelIInv, NEW c \in Calls, NEW d \in Documents, Comes(c, d), calls[c].at = "sent"
  PROVE  /\ Came(c, d) \in CallType /\ Came(c, d).at = "sent" /\ Came(c, d).ask = calls[c].ask
         /\ Came(c, d).hides = calls[c].hides /\ Came(c, d).replaced = calls[c].replaced
         /\ Came(c, d).took = IF calls[c].ask.op \in ReadOps THEN calls[c].took \cup {d} ELSE calls[c].took
         /\ calls' = [calls EXCEPT ![c] = Came(c, d)] /\ calls'[c] = Came(c, d)
         /\ calls[c].ask \in Asks
         /\ calls[c].ask.op \in ReadOps \cup {"remove"} /\ calls[c].hides => d \notin marked
<1>1. calls[c] \in CallType /\ calls[c].ask \in Asks
  BY DEF ModelIInv, CallTypeOK, Over
<1>2. calls' = [calls EXCEPT ![c] = Came(c, d)]
  BY <1>1 DEF Comes, Came, ModelIInv, CallTypeOK, CallType
<1>3. ASSUME calls[c].ask.op \in ReadOps \cup {"remove"}, calls[c].hides PROVE d \notin marked
  <2>1. d \in Targets(c)
    BY DEF Comes
  <2>2. /\ calls[c].ask.op # "insert" /\ calls[c].ask.op \notin {"save", "put", "upsert"}
        /\ calls[c].ask.op # "restore"
    BY <1>3 DEF ReadOps
  <2> QED
    BY <1>3, <2>1, <2>2 DEF Targets
<1>4. calls[c].left \subseteq Documents /\ calls[c].took \subseteq Documents
  BY <1>1 DEF CallType
<1> QED
  BY <1>1, <1>2, <1>3, <1>4 DEF Came, CallType, ModelIInv, CallTypeOK

\* The call that the server has come to is kept, when what it has taken was not deleted.
LEMMA CameKept ==
  ASSUME ModelIInv, NEW c \in Calls, NEW d \in Documents, Comes(c, d), calls[c].at = "sent",
         style' = style,
         \/ lasting'[c] = lasting[c] \cap marked'
         \/ lasting'[c] = lasting[c] /\ marked' = marked
  PROVE  CallKept(c)'
<1> DEFINE r == Came(c, d)
           a == calls[c].ask
<1>1. /\ r.at = "sent" /\ r.ask = a /\ r.hides = calls[c].hides /\ r.replaced = calls[c].replaced
      /\ r.took = IF a.op \in ReadOps THEN calls[c].took \cup {d} ELSE calls[c].took
      /\ calls'[c] = r /\ a \in Asks
      /\ a.op \in ReadOps \cup {"remove"} /\ calls[c].hides => d \notin marked
  BY ComesTo
<1>2. CallKept(c)
  BY DEF ModelIInv
<1> HIDE DEF r, a
<1>3. lasting'[c] \subseteq lasting[c] /\ lasting'[c] \subseteq marked' /\ lasting[c] \subseteq marked
  BY <1>2 DEF CallKept
<1>4. ASSUME ~a.shows, ~calls[c].replaced PROVE r.took \cap lasting'[c] = {}
  <2>1. calls[c].took \cap lasting[c] = {}
    BY <1>2, <1>4 DEF CallKept, Unasked, a
  <2>2. a.op \in ReadOps => d \notin marked
    BY <1>1, <1>2, <1>4 DEF CallKept, Unasked, a
  <2> QED
    BY <1>1, <1>3, <2>1, <2>2
<1>5. (MustCheck(a) => ~Invalid(a)) /\ (MustCheck(a)' <=> MustCheck(a)) /\ (Invalid(a)' <=> Invalid(a))
  BY <1>1, <1>2 DEF CallKept, MustCheck, Invalid, a
<1> QED
  BY <1>1, <1>2, <1>3, <1>4, <1>5 DEF CallKept, Unasked, MustCheck, Invalid, a

\* A step at a document keeps the invariant, when it keeps the deletions and their claims.
LEMMA DocumentStep ==
  ASSUME ModelIInv, NEW c \in Calls, NEW d \in Documents, Comes(c, d), calls[c].at = "sent",
         style' = style, erased' \subseteq Documents, fitting' \subseteq Documents,
         vouched' \subseteq fitting',
         \/ UNCHANGED <<claims, lasting, marked>>
         \/ \E m \in SUBSET Documents, n \in Nat :
              /\ marked' = m /\ lasting' = [x \in Calls |-> lasting[x] \cap m]
              /\ claims' = [claims EXCEPT ![d] = n]
              /\ \A x \in Documents \ {d} : x \in m <=> x \in marked
              /\ n =< (IF d \in m THEN 1 ELSE 0),
         UNCHANGED <<matched, refs, deletes, chosen, scanned, held, victims>>
  PROVE  ModelIInv'
<1>1. marked' \subseteq Documents /\ claims' \in [Documents -> Nat] /\ ClaimsKept'
  BY DEF ModelIInv, CallTypeOK, ClaimsKept, ProtectedIInv, ProtectedTypeOK
<1>2. /\ lasting' \in [Calls -> SUBSET Documents]
      /\ \A b \in Calls : \/ lasting'[b] = lasting[b] \cap marked'
                          \/ lasting'[b] = lasting[b] /\ marked' = marked
  BY DEF ModelIInv, CallTypeOK
<1>3. CallKept(c)'
  BY <1>2, CameKept
<1>4. Came(c, d) \in CallType /\ Came(c, d).ask \in Asks /\ calls' = [calls EXCEPT ![c] = Came(c, d)]
  BY ComesTo
<1> QED
  BY <1>1, <1>2, <1>3, <1>4, OneCall

\* What the server does to the documents of the calls keeps the invariant.
LEMMA HandlingKeeps ==
  ASSUME ModelIInv, NEW c \in Calls, NEW d \in Documents,
         \/ Finds(c, d) \/ Populates(c, d) \/ Stores(c, d) \/ Updates(c, d)
         \/ SoftDeletes(c, d) \/ Erases(c, d) \/ Restores(c, d),
         UNCHANGED <<matched, refs, deletes, chosen, scanned, held, victims>>
  PROVE  ModelIInv'
<1> DEFINE a == calls[c].ask
<1>1. /\ marked \subseteq Documents /\ erased \subseteq Documents /\ fitting \subseteq Documents
      /\ vouched \subseteq fitting /\ claims \in [Documents -> Nat]
      /\ claims[d] \in Nat /\ claims[d] =< (IF d \in marked THEN 1 ELSE 0)
  BY DEF ModelIInv, CallTypeOK, ClaimsKept, ProtectedIInv, ProtectedTypeOK
<1>10. /\ marked \ {d} \in SUBSET Documents /\ 0 \in Nat /\ 0 =< (IF d \in marked \ {d} THEN 1 ELSE 0)
       /\ \A x \in Documents \ {d} : x \in marked \ {d} <=> x \in marked
  BY <1>1
<1>2. CASE Finds(c, d) \/ Populates(c, d)
  BY <1>1, <1>2, DocumentStep DEF Finds, Populates, Sent
<1>3. CASE Stores(c, d)
  <2>1. calls[c].at = "sent" /\ Comes(c, d) /\ style' = style /\ erased' = erased \ {d}
    BY <1>3 DEF Stores, Sent
  <2>2. MustCheck(a) => ~a.bad
    BY <2>1 DEF ModelIInv, CallKept, Invalid
  <2>3. fitting' \subseteq Documents /\ vouched' \subseteq fitting'
    BY <1>1, <1>3, <2>2 DEF Stores
  <2>4. CASE a.mark = "set"
    <3> DEFINE n == IF d \in marked THEN claims[d] ELSE 0
    <3>1. Marks(marked \cup {d}, d, n)
      BY <1>3, <2>4 DEF Stores
    <3>2. n \in Nat /\ n =< 1
      BY <1>1
    <3> HIDE DEF n
    <3>3. /\ marked \cup {d} \in SUBSET Documents /\ n =< (IF d \in marked \cup {d} THEN 1 ELSE 0)
          /\ \A x \in Documents \ {d} : x \in marked \cup {d} <=> x \in marked
      BY <1>1, <3>2
    <3> QED
      BY <1>1, <2>1, <2>3, <3>1, <3>2, <3>3, DocumentStep DEF Marks
  <2>5. CASE a.mark # "set"
    <3>1. Marks(marked \ {d}, d, 0)
      BY <1>3, <2>5 DEF Stores
    <3> QED
      BY <1>1, <2>1, <2>3, <3>1, <1>10, DocumentStep DEF Marks
  <2> QED
    BY <2>4, <2>5
<1>4. CASE Updates(c, d)
  <2>1. calls[c].at = "sent" /\ Comes(c, d) /\ style' = style /\ erased' = erased
    BY <1>4 DEF Updates, Sent
  <2>2. fitting' \subseteq Documents /\ vouched' \subseteq fitting'
    BY <1>1, <1>4 DEF Updates
  <2>3. PICK m \in SUBSET Documents, n \in Nat :
          /\ Marks(m, d, n) /\ n =< (IF d \in m THEN 1 ELSE 0)
          /\ \A x \in Documents \ {d} : x \in m <=> x \in marked
    <3>1. a.mark \in {"kept", "set", "unset"}
      BY <2>1, CallAssumption DEF ModelIInv, CallTypeOK, Over, AskType
    <3>2. CASE a.mark = "set"
      <4>1. Marks(marked \cup {d}, d, claims[d])
        BY <1>4, <3>2 DEF Updates
      <4> QED BY <1>1, <4>1
    <3>3. CASE a.mark = "unset"
      <4>1. Marks(marked \ {d}, d, 0)
        BY <1>4, <3>3 DEF Updates
      <4> QED BY <1>1, <1>10, <4>1
    <3>4. CASE a.mark = "kept"
      <4>1. Marks(marked, d, claims[d])
        BY <1>4, <3>4 DEF Updates
      <4> QED BY <1>1, <4>1
    <3> QED BY <3>1, <3>2, <3>3, <3>4
  <2> QED
    BY <1>1, <2>1, <2>2, <2>3, DocumentStep DEF Marks
<1>5. CASE SoftDeletes(c, d)
  <2>1. /\ calls[c].at = "sent" /\ Comes(c, d) /\ UNCHANGED <<style, fitting, vouched, erased>>
        /\ a.op = "remove" /\ ~a.forced
    BY <1>5 DEF SoftDeletes, Sent
  <2> DEFINE n == IF a.shows /\ d \in marked THEN claims[d] ELSE claims[d] + 1
  <2>2. Marks(marked \cup {d}, d, n)
    BY <1>5 DEF SoftDeletes
  <2>3. ~a.shows => d \notin marked
    BY <2>1, ComesTo DEF ModelIInv, CallKept
  <2>4. n \in Nat /\ n =< 1
    BY <1>1, <2>3
  <2> HIDE DEF n
  <2>5. /\ marked \cup {d} \in SUBSET Documents /\ n =< (IF d \in marked \cup {d} THEN 1 ELSE 0)
        /\ \A x \in Documents \ {d} : x \in marked \cup {d} <=> x \in marked
    BY <1>1, <2>4
  <2> QED
    BY <1>1, <2>1, <2>2, <2>4, <2>5, DocumentStep DEF Marks
<1>6. CASE Erases(c, d)
  <2>1. /\ calls[c].at = "sent" /\ Comes(c, d) /\ style' = style /\ Marks(marked \ {d}, d, 0)
        /\ erased' = erased \cup {d} /\ fitting' = fitting \cup {d} /\ vouched' = vouched \ {d}
    BY <1>6 DEF Erases, Sent
  <2> QED
    BY <1>1, <1>10, <2>1, DocumentStep DEF Marks
<1>7. CASE Restores(c, d)
  <2>1. /\ calls[c].at = "sent" /\ Comes(c, d) /\ Marks(marked \ {d}, d, 0)
        /\ UNCHANGED <<style, fitting, vouched, erased>>
    BY <1>7 DEF Restores, Sent
  <2> QED
    BY <1>1, <1>10, <2>1, DocumentStep DEF Marks
<1> QED
  BY <1>2, <1>3, <1>4, <1>5, <1>6, <1>7

\* Every step of a call keeps the invariant.
LEMMA CallStepKeeps == ModelIInv /\ CallStep => ModelIInv'
<1> SUFFICES ASSUME ModelIInv, CallStep PROVE ModelIInv'
  OBVIOUS
<1>1. UNCHANGED <<matched, refs, deletes, chosen, scanned, held, victims>>
  BY DEF CallStep
<1>2. PICK c \in Calls :
        \/ Begin(c) \/ HookThrows(c) \/ Send(c) \/ ServerAnswers(c) \/ CallFails(c) \/ Resolves(c)
        \/ \E d \in Documents : \/ Finds(c, d) \/ Populates(c, d) \/ Stores(c, d) \/ Updates(c, d)
                                \/ SoftDeletes(c, d) \/ Erases(c, d) \/ Restores(c, d)
  BY DEF CallStep
<1>3. CASE Begin(c)
  BY <1>1, <1>3, BeginKeeps
<1>4. CASE HookThrows(c) \/ CallFails(c) \/ Resolves(c)
  <2>1. PICK how \in Over : EndsCall(c, how)
    BY <1>4 DEF HookThrows, CallFails, Resolves, Over
  <2> QED
    BY <1>1, <2>1, EndsKeeps
<1>5. CASE Send(c)
  BY <1>1, <1>5, SendKeeps
<1>6. CASE ServerAnswers(c)
  BY <1>1, <1>6, ServedKeeps
<1>7. CASE \E d \in Documents : \/ Finds(c, d) \/ Populates(c, d) \/ Stores(c, d) \/ Updates(c, d)
                                \/ SoftDeletes(c, d) \/ Erases(c, d) \/ Restores(c, d)
  BY <1>1, <1>7, HandlingKeeps
<1> QED
  BY <1>2, <1>3, <1>4, <1>5, <1>6, <1>7

\* A protected delete never restores, and erases without restoring.
LEMMA GuardedMarks ==
  ASSUME ProtectedIInv, ProtectedNext
  PROVE  marked \subseteq marked'
<1>1. ASSUME NEW c \in Deletes, Delete(c) PROVE marked \subseteq marked'
  BY <1>1 DEF Delete
<1> QED
  BY <1>1 DEF ProtectedNext, Resolve, ResolveFails, Scan, ScanFails, ScanEnds, Drift, Refer

\* Every step of a protected delete, and of what moves around it, keeps the invariant.
LEMMA GuardedStepKeeps == ModelIInv /\ GuardedStep => ModelIInv'
<1> SUFFICES ASSUME ModelIInv, GuardedStep PROVE ModelIInv'
  OBVIOUS
<1>1. /\ ProtectedNext /\ UNCHANGED <<style, calls, fitting, vouched>>
      /\ claims' = [d \in Documents |-> IF d \in marked' \ marked THEN claims[d] + 1 ELSE claims[d]]
      /\ lasting' = [x \in Calls |-> lasting[x] \cap marked']
  BY DEF GuardedStep
<1>2. ProtectedIInv' /\ marked \subseteq marked'
  BY <1>1, ProtectedStep, GuardedMarks DEF ModelIInv
<1>3. CallTypeOK'
  BY <1>1 DEF ModelIInv, CallTypeOK
<1>4. ClaimsKept'
  BY <1>1, <1>2 DEF ModelIInv, ClaimsKept, CallTypeOK
<1>5. ASSUME NEW c \in Calls PROVE CallKept(c)'
  BY <1>1, OthersKept DEF ModelIInv
<1> QED
  BY <1>1, <1>2, <1>3, <1>4, <1>5 DEF ModelIInv

(* For any documents, callers, calls and kinds of Model, with any protected  *)
(* deletes among them: what had to be checked is as the schema says, a soft  *)
(* deletion is reported once, no read shows what is deleted, and what is     *)
(* referred to is spared.                                                    *)
THEOREM ModelsAgree == ModelSpec => []ModelsHold
<1>1. ModelIInv => ModelsHold
  <2> SUFFICES ASSUME ModelIInv PROVE ModelsHold
    OBVIOUS
  <2>1. UsedIsSpared
    BY DEF ModelIInv, ProtectedIInv, Protects, UsedIsSpared
  <2>2. ClaimedOnce
    BY DEF ModelIInv, ClaimsKept, CallTypeOK, ClaimedOnce
  <2>3. ChecksHold /\ CallTypeOK
    BY DEF ModelIInv, ChecksHold
  <2>4. DeletedUnseen
    BY DEF ModelIInv, CallKept, Unasked, DeletedUnseen
  <2> QED
    BY <2>1, <2>2, <2>3, <2>4 DEF ModelsHold
<1>2. ModelIInv /\ [ModelNext]_<<protectedVars, callVars>> => ModelIInv'
  <2>1. ASSUME ModelIInv, UNCHANGED <<protectedVars, callVars>> PROVE ModelIInv'
    <3>1. ProtectedIInv'
      BY <2>1, ProtectedStep DEF ModelIInv
    <3>2. UNCHANGED <<marked, style, calls, fitting, vouched, claims, lasting>>
      BY <2>1 DEF protectedVars, callVars
    <3>3. CallTypeOK' /\ ClaimsKept'
      BY <2>1, <3>2 DEF ModelIInv, CallTypeOK, ClaimsKept
    <3>4. ASSUME NEW c \in Calls PROVE CallKept(c)'
      BY <2>1, <3>2, OthersKept DEF ModelIInv
    <3> QED
      BY <2>1, <3>1, <3>2, <3>3, <3>4 DEF ModelIInv
  <2> QED
    BY <2>1, CallStepKeeps, GuardedStepKeeps DEF ModelNext
<1> QED
  BY <1>1, <1>2, ModelStarts, PTL DEF ModelSpec

-----------------------------------------------------------------------------
(***************************************************************************)
(* Fence.  While an operation is under way no ticket is valid, so that the *)
(* setters there are can only become fewer; once they have been drained    *)
(* there are none.  A read that began before the operation ended has no    *)
(* ticket and no setter any more, and what it may have left in the entry   *)
(* is hidden.                                                              *)
(***************************************************************************)
OfOwner(o) == {r \in Setting : OwnerOf[r] = o}

Fenced(i) ==
  /\ UnderWay(i) => fresh = {}
  /\ ops[i] = "drain" => Setting \subseteq draining[i]
  /\ ops[i] \in {"remote", "local"} => Setting = {}
  /\ ops[i] \notin {"done", "failed"} => before[i] = {}
  /\ \A r \in before[i] : r \notin fresh /\ r \notin Setting /\ reads[r] # "idle"
  /\ entry \in before[i] => dirty

Alone(o) == /\ owners[o].at = "drain" => OfOwner(o) \subseteq draining[o]
            /\ owners[o].at = "run" => OfOwner(o) = {}
            /\ owners[o].at # "none" => \A r \in fresh : OwnerOf[r] # o

FenceIInv == /\ FenceTypeOK
             /\ \A i \in Ops : Fenced(i)
             /\ \A o \in Owners : Alone(o)

\* Nothing is cached or under way at first.
LEMMA FenceStarts == Init => FenceIInv
<1> SUFFICES ASSUME Init PROVE FenceIInv
  OBVIOUS
<1>1. FenceTypeOK
  <2>1. dirty \in BOOLEAN
    BY Zenon DEF Init
  <2> QED
    BY <2>1 DEF Init, FenceTypeOK
<1> QED
  BY <1>1, FenceAssumption DEF Init, FenceIInv, Fenced, Alone, UnderWay, Setting, OfOwner

\* A ticket is valid only while no operation is under way and its owner is free.
LEMMA ValidIs ==
  ASSUME NEW r \in Reads, Valid(r)
  PROVE  /\ r \in fresh /\ \A i \in Ops : ~UnderWay(i)
         /\ owners[OwnerOf[r]].at = "none" /\ OwnerOf[r] \in Owners
  BY FenceAssumption DEF Valid, Invalidating, OwnerFree

\* What FenceTypeOK says of reads and operations.
LEMMA FenceTyped ==
  ASSUME FenceTypeOK
  PROVE  /\ Setting \subseteq Reads
         /\ \A r \in Reads : r \in Setting <=> reads[r] \in {"registered", "dispatched"}
         /\ \A i \in Ops : draining[i] \subseteq Reads \cup Ops
         /\ \A o \in Owners : draining[o] \subseteq Reads \cup Ops
         /\ \A r \in Reads : OwnerOf[r] \in Owners
         /\ Empty \notin Reads
  BY FenceAssumption DEF FenceTypeOK, Setting

\* A get() changes its own state; it takes a ticket when it starts, becomes a
\* setter with a valid one, and is waited for until it is none.
LEMMA ReadKeeps ==
  ASSUME FenceIInv, NEW r \in Reads,
         NEW to \in {"remote", "registered", "dispatched", "over"},
         reads' = [reads EXCEPT ![r] = to],
         UNCHANGED <<dirty, ops, tail, owners, before>>,
         fresh' = fresh \/ (/\ fresh' = fresh \cup {r} /\ reads[r] = "idle" /\ ~Invalidating
                           /\ OwnerFree(OwnerOf[r])),
         to \in {"registered", "dispatched"} => Valid(r) /\ draining' = draining,
         draining' = draining \/ ReadSettled(r),
         entry' = entry \/ (entry' = r /\ r \in Setting)
  PROVE  FenceIInv'
<1>1. /\ reads \in [Reads -> {"idle", "remote", "registered", "dispatched", "over"}]
      /\ reads'[r] = to /\ \A q \in Reads : q # r => reads'[q] = reads[q]
      /\ draining \in [Ops \cup Owners -> SUBSET (Reads \cup Ops)]
  BY DEF FenceIInv, FenceTypeOK
<1>2. /\ Setting' \subseteq Setting \cup {r} /\ Setting \ {r} \subseteq Setting'
      /\ r \in Setting' => Valid(r) /\ draining' = draining
      /\ UNCHANGED <<dirty, ops, tail, owners, before>>
  BY <1>1 DEF Setting
<1>3. /\ draining' \in [Ops \cup Owners -> SUBSET (Reads \cup Ops)]
      /\ \A x \in Ops \cup Owners : draining[x] \ {r} \subseteq draining'[x]
  BY <1>1 DEF ReadSettled
<1>4. FenceTypeOK'
  BY <1>1, <1>2, <1>3, FenceTyped DEF FenceIInv, FenceTypeOK
<1>5. ASSUME NEW i \in Ops PROVE Fenced(i)'
  <2>1. Fenced(i) /\ UnderWay(i)' = UnderWay(i) /\ draining[i] \ {r} \subseteq draining'[i]
    BY <1>2, <1>3 DEF FenceIInv, UnderWay
  <2>2. UnderWay(i) => fresh' = {} /\ r \notin Setting'
    BY <1>2, <2>1, ValidIs DEF Fenced, Invalidating
  <2>3. ops[i] = "drain" => Setting' \subseteq draining'[i]
    BY <1>2, <2>1, <2>2 DEF Fenced, UnderWay
  <2>4. ops[i] \in {"remote", "local"} => Setting' = {}
    BY <1>2, <2>1, <2>2 DEF Fenced, UnderWay
  <2>5. \A q \in before[i] : q \notin fresh' /\ q \notin Setting' /\ reads'[q] # "idle"
    <3>1. SUFFICES ASSUME NEW q \in before[i]
                   PROVE  q \notin fresh' /\ q \notin Setting' /\ reads'[q] # "idle"
      OBVIOUS
    <3>2. q \in Reads /\ q \notin fresh /\ q \notin Setting /\ reads[q] # "idle"
      BY <2>1 DEF Fenced, FenceIInv, FenceTypeOK
    <3>3. CASE q = r
      BY <1>1, <1>2, <3>2, <3>3, ValidIs
    <3>4. CASE q # r
      BY <1>1, <1>2, <3>2, <3>4
    <3> QED
      BY <3>3, <3>4
  <2>6. entry' \in before[i] => dirty
    BY <2>1 DEF Fenced
  <2> QED
    BY <1>2, <2>1, <2>2, <2>3, <2>4, <2>5, <2>6 DEF Fenced
<1>6. ASSUME NEW o \in Owners PROVE Alone(o)'
  <2>1. Alone(o) /\ draining[o] \ {r} \subseteq draining'[o]
    BY <1>3 DEF FenceIInv
  <2>2. owners[o].at # "none" /\ OwnerOf[r] = o => r \notin Setting' /\ (r \notin fresh => r \notin fresh')
    BY <1>2, ValidIs DEF OwnerFree
  <2>3. OfOwner(o)' \subseteq OfOwner(o) \cup {r}
    BY <1>2 DEF OfOwner
  <2>4. owners[o].at # "none" => r \notin OfOwner(o)'
    BY <2>2 DEF OfOwner
  <2> QED
    BY <1>2, <2>1, <2>2, <2>3, <2>4 DEF Alone
<1> QED
  BY <1>4, <1>5, <1>6 DEF FenceIInv

\* The steps of a read and its refill.
LEMMA ReadsKeep ==
  ASSUME FenceIInv, NEW r \in Reads, NEW ok \in BOOLEAN,
         Get(r) \/ RemoteAnswers(r, ok) \/ SetterDispatched(r) \/ SetterLands(r, ok)
  PROVE  FenceIInv'
<1>1. CASE Get(r)
  BY <1>1, ReadKeeps DEF Get, Bypass
<1>2. CASE RemoteAnswers(r, ok)
  BY <1>2, ReadKeeps DEF RemoteAnswers
<1>3. CASE SetterDispatched(r)
  BY <1>3, ReadKeeps DEF SetterDispatched
<1>4. CASE SetterLands(r, ok)
  BY <1>4, ReadKeeps, FenceTyped DEF SetterLands, FenceIInv
<1> QED
  BY <1>1, <1>2, <1>3, <1>4

\* An operation moves; the reads stay where they are.
LEMMA OpKeeps ==
  ASSUME FenceIInv, NEW i \in Ops,
         \/ OpCall(i) \/ OpTurn(i) \/ OpDrained(i) \/ OpRemote(i)
         \/ OpLocal(i) \/ OpLocalFails(i)
  PROVE  FenceIInv'
<1>1. /\ UNCHANGED <<reads, owners>> /\ Setting' = Setting
      /\ fresh' \subseteq fresh /\ i \notin Owners /\ i \notin Reads /\ i \in Ops \cup Owners
      /\ draining \in [Ops \cup Owners -> SUBSET (Reads \cup Ops)]
      /\ ops \in [Ops -> {"idle", "tail", "drain", "remote", "local", "done", "failed"}]
      /\ tail \in [Ops -> Nat] /\ before \in [Ops -> SUBSET Reads]
      /\ Fenced(i) /\ Setting \subseteq Reads
  BY FenceAssumption, FenceTyped
  DEF OpCall, OpTurn, OpDrained, OpRemote, OpLocal, OpLocalFails, Setting, FenceIInv, FenceTypeOK
<1>2. /\ draining' \in [Ops \cup Owners -> SUBSET (Reads \cup Ops)]
      /\ \A x \in Ops \cup Owners : x # i => draining[x] \cap Reads \subseteq draining'[x]
  BY <1>1 DEF OpCall, OpTurn, OpDrained, OpRemote, OpLocal, OpLocalFails, Ended
<1>3. /\ ops' \in [Ops -> {"idle", "tail", "drain", "remote", "local", "done", "failed"}]
      /\ \A j \in Ops : j # i => ops'[j] = ops[j] /\ before'[j] = before[j]
      /\ before' \in [Ops -> SUBSET Reads]
  BY <1>1 DEF OpCall, OpTurn, OpDrained, OpRemote, OpLocal, OpLocalFails, Promised
<1>4. tail' \in [Ops -> Nat]
  <2>1. Cardinality({j \in Ops : ops[j] # "idle"}) \in Nat
    BY FenceAssumption, FS_Subset, FS_CardinalityType
  <2> QED
    BY <1>1, <2>1 DEF OpCall, OpTurn, OpDrained, OpRemote, OpLocal, OpLocalFails
<1>5. /\ dirty' \in BOOLEAN /\ entry' \in {entry, Empty}
      /\ dirty /\ ~dirty' => entry' = Empty
  BY DEF OpCall, OpTurn, OpDrained, OpRemote, OpLocal, OpLocalFails, FenceIInv, FenceTypeOK
<1>6. FenceTypeOK'
  BY <1>1, <1>2, <1>3, <1>4, <1>5 DEF FenceIInv, FenceTypeOK
<1>7. ASSUME NEW j \in Ops, j # i PROVE Fenced(j)'
  <2>1. /\ Fenced(j) /\ ops'[j] = ops[j] /\ before'[j] = before[j]
        /\ draining[j] \cap Reads \subseteq draining'[j] /\ before[j] \subseteq Reads
        /\ Empty \notin before[j]
    BY <1>1, <1>2, <1>3, <1>7, FenceAssumption DEF FenceIInv
  <2>2. entry' \in before[j] => dirty'
    BY <1>5, <2>1 DEF Fenced
  <2>3. ops[j] = "drain" => Setting \subseteq draining'[j]
    BY <1>1, <2>1 DEF Fenced
  <2> QED
    BY <1>1, <2>1, <2>2, <2>3 DEF Fenced, UnderWay
<1>8. Fenced(i)'
  <2>1. CASE OpCall(i)
    <3>1. /\ ops[i] = "idle" /\ ops'[i] \in {"tail", "drain"} /\ fresh' = {}
          /\ ops'[i] = "drain" => draining'[i] = Setting
          /\ UNCHANGED <<before, entry, dirty>>
      BY <1>1, <2>1 DEF OpCall
    <3> QED
      BY <1>1, <3>1 DEF Fenced
  <2>2. CASE OpTurn(i)
    <3>1. /\ ops[i] = "tail" /\ ops'[i] = "drain" /\ draining'[i] = Setting
          /\ UNCHANGED <<before, entry, dirty, fresh>>
      BY <1>1, <2>2 DEF OpTurn
    <3> QED
      BY <1>1, <3>1 DEF Fenced, UnderWay
  <2>3. CASE OpDrained(i) \/ OpRemote(i)
    <3>1. /\ ops'[i] \in {"remote", "local"} /\ UnderWay(i) /\ Setting = {}
          /\ ops[i] \notin {"done", "failed"}
          /\ UNCHANGED <<before, entry, dirty, fresh>>
      BY <1>1, <2>3 DEF OpDrained, OpRemote, Fenced, UnderWay
    <3> QED
      BY <1>1, <3>1 DEF Fenced
  <2>4. CASE OpLocal(i)
    <3>1. /\ ops[i] = "local" /\ ops'[i] = "done" /\ fresh' = {} /\ Setting = {}
          /\ before'[i] = {r \in Reads : reads[r] # "idle"} /\ entry' = Empty
      BY <1>1, <2>4 DEF OpLocal, Fenced, UnderWay, Promised
    <3> QED
      BY <1>1, <3>1, FenceAssumption DEF Fenced, UnderWay
  <2>5. CASE OpLocalFails(i)
    <3>1. /\ ops[i] = "local" /\ ops'[i] = "failed" /\ fresh' = {} /\ Setting = {}
          /\ \/ before'[i] = before[i] /\ before[i] = {}
             \/ before'[i] = {r \in Reads : reads[r] # "idle"} /\ dirty'
      BY <1>1, <2>5 DEF OpLocalFails, Fenced, UnderWay, Promised
    <3> QED
      BY <1>1, <3>1 DEF Fenced, UnderWay
  <2> QED
    BY <2>1, <2>2, <2>3, <2>4, <2>5
<1>9. ASSUME NEW o \in Owners PROVE Alone(o)'
  <2>1. /\ Alone(o) /\ OfOwner(o)' = OfOwner(o) /\ OfOwner(o) \subseteq Reads
        /\ draining[o] \cap Reads \subseteq draining'[o]
    BY <1>1, <1>2 DEF FenceIInv, OfOwner
  <2> QED
    BY <1>1, <2>1 DEF Alone
<1> QED
  BY <1>6, <1>7, <1>8, <1>9 DEF FenceIInv

\* The steps of an owner that cleans up.
LEMMA OwnerKeeps ==
  ASSUME FenceIInv, NEW o \in Owners, NEW ok \in BOOLEAN,
         CleanupCall(o) \/ CleanupDrained(o) \/ Destroy(o) \/ CleanupEnds(o, ok)
  PROVE  FenceIInv'
<1>1. /\ UNCHANGED <<reads, entry, dirty, ops, tail, before>> /\ Setting' = Setting
      /\ fresh' \subseteq fresh /\ o \notin Ops
      /\ draining \in [Ops \cup Owners -> SUBSET (Reads \cup Ops)]
      /\ owners \in [Owners -> [at : {"none", "drain", "run"}, failed : BOOLEAN, destroyed : BOOLEAN]]
      /\ OfOwner(o)' = OfOwner(o) /\ Setting \subseteq Reads /\ Alone(o)
  BY FenceAssumption, FenceTyped
  DEF CleanupCall, CleanupDrained, Destroy, CleanupEnds, Setting, FenceIInv, FenceTypeOK, OfOwner, OwnerRevoked
<1>2. /\ draining' \in [Ops \cup Owners -> SUBSET (Reads \cup Ops)]
      /\ \A x \in Ops \cup Owners : x # o => draining'[x] = draining[x]
  <2>1. {x \in Setting \cup {i \in Ops : UnderWay(i)} : OwnerOf[x] = o} \in SUBSET (Reads \cup Ops)
    BY <1>1
  <2> QED
    BY <1>1, <2>1 DEF CleanupCall, CleanupDrained, Destroy, CleanupEnds
<1>3. /\ owners' \in [Owners -> [at : {"none", "drain", "run"}, failed : BOOLEAN, destroyed : BOOLEAN]]
      /\ \A p \in Owners : p # o => owners'[p] = owners[p]
  <2>1. CASE CleanupCall(o)
    BY <1>1, <2>1 DEF CleanupCall
  <2>2. CASE CleanupDrained(o)
    BY <1>1, <2>2 DEF CleanupDrained
  <2>3. CASE Destroy(o)
    BY <1>1, <2>3 DEF Destroy
  <2>4. CASE CleanupEnds(o, ok)
    BY <1>1, <2>4 DEF CleanupEnds
  <2> QED
    BY <2>1, <2>2, <2>3, <2>4
<1>4. FenceTypeOK'
  BY <1>1, <1>2, <1>3 DEF FenceIInv, FenceTypeOK
<1>5. ASSUME NEW i \in Ops PROVE Fenced(i)'
  BY <1>1, <1>2 DEF FenceIInv, Fenced, UnderWay
<1>6. ASSUME NEW p \in Owners, p # o PROVE Alone(p)'
  BY <1>1, <1>2, <1>3, <1>6 DEF FenceIInv, Alone, OfOwner
<1>7. Alone(o)'
  <2>1. CASE CleanupCall(o)
    <3>1. /\ owners'[o].at = "drain" /\ fresh' = OwnerRevoked(o)
          /\ draining'[o] = {x \in Setting \cup {i \in Ops : UnderWay(i)} : OwnerOf[x] = o}
      BY <1>1, <2>1 DEF CleanupCall
    <3> QED
      BY <1>1, <3>1 DEF Alone, OfOwner, OwnerRevoked
  <2>2. CASE CleanupDrained(o)
    <3>1. /\ owners[o].at = "drain" /\ owners'[o].at = "run" /\ draining[o] = {} /\ fresh' = fresh
      BY <1>1, <2>2 DEF CleanupDrained
    <3> QED
      BY <1>1, <3>1 DEF Alone
  <2>3. CASE Destroy(o)
    <3>1. owners'[o].at = owners[o].at /\ draining' = draining
      BY <1>1, <2>3 DEF Destroy
    <3> QED
      BY <1>1, <3>1 DEF Alone
  <2>4. CASE CleanupEnds(o, ok)
    <3>1. owners'[o].at = "none"
      BY <1>1, <2>4 DEF CleanupEnds
    <3> QED
      BY <3>1 DEF Alone
  <2> QED
    BY <2>1, <2>2, <2>3, <2>4
<1> QED
  BY <1>4, <1>5, <1>6, <1>7 DEF FenceIInv

\* Every step of the fence keeps the invariant.
LEMMA FenceStep == FenceIInv /\ [Next]_fenceVars => FenceIInv'
<1> SUFFICES ASSUME FenceIInv, [Next]_fenceVars PROVE FenceIInv'
  OBVIOUS
<1>1. CASE UNCHANGED fenceVars
  BY <1>1 DEF fenceVars, FenceIInv, FenceTypeOK, Fenced, Alone, UnderWay, Setting, OfOwner
<1> QED
  BY <1>1, ReadsKeep, OpKeeps, OwnerKeeps DEF Next

(* For any wrappers, reads and operations: a read that began before an      *)
(* operation ended never refills the local level, and no setter is under    *)
(* way while the adapters of its wrapper are closed.                        *)
THEOREM NoReadComesLate == Spec => []FenceHolds
<1>1. FenceIInv => FenceHolds
  BY DEF FenceIInv, FenceHolds, NoLateRefill, CleanupIsAlone, Fenced, Alone, OfOwner
<1> QED
  BY <1>1, FenceStarts, FenceStep, PTL DEF Spec

-----------------------------------------------------------------------------
\* Numbers are well-founded.
LEMMA LessWellFounded == IsWellFoundedOn({ss \in Nat \X Nat : ss[1] < ss[2]}, Nat)
  BY Zenon, NatLessThanWellFounded DEF OpToRel

\* A set of numbers that is not empty has a least one.
LEMMA Least ==
  ASSUME NEW S, S \subseteq Nat, S # {}
  PROVE  \E n \in S : \A k \in S : n <= k
<1>1. PICK n \in S : \A k \in S : ~(<<k, n>> \in {ss \in Nat \X Nat : ss[1] < ss[2]})
  BY LessWellFounded, WFMin
<1>2. ASSUME NEW k \in S PROVE n <= k
  <2>1. ~(<<k, n>> \in {ss \in Nat \X Nat : ss[1] < ss[2]})
    BY <1>1
  <2>2. k \in Nat /\ n \in Nat
    OBVIOUS
  <2> QED
    BY <2>1, <2>2
<1> QED
  BY <1>2

(***************************************************************************)
(* Batch writes.  What an answer says was done is in the database and not  *)
(* counted yet; what is not sent again is there; and unless answers to     *)
(* updates are lost, all that was done is counted or about to be.          *)
(***************************************************************************)
BatchIds == 1..Docs
Answers == [ok : BOOLEAN, done : SUBSET BatchIds, failed : SUBSET BatchIds]

\* What BatchTypeOK leaves open.
BatchShape ==
  /\ answer \in [Batches -> Answers] /\ pending \in [Batches -> SUBSET BatchIds]
  /\ \A c \in cached : c \subseteq applied

\* An answer that has not been handled.
AnswerIs(b) == phase[b] = "answered" =>
  /\ answer[b].done \subseteq applied /\ answer[b].done \cap counted = {}
  /\ lost = 0 => answer[b].ok \/ answer[b].failed # {} \/ answer[b].done = {}
  /\ answer[b].ok => pending[b] \subseteq applied
  /\ pending[b] \ Retried(b) \subseteq applied

\* What is not to be sent is stored, and so is a batch that is done without an error,
\* unless its worker was stopped.
PendingIs(b) ==
  /\ BatchOf(b) \ pending[b] \subseteq applied
  /\ phase[b] = "done" /\ b \notin errors /\ ~fatal => BatchOf(b) \subseteq applied

\* Some of the batch has been counted, or there is nothing to count.
Shown(b) == BatchOf(b) = {} \/ BatchOf(b) \cap counted # {}

\* An update or delete has left something of a batch to do until its answer says so, and
\* has then counted some of it, or has an error for it or for the call.
ChangeIs(b) ==
  /\ pending[b] = BatchOf(b) /\ answer[b].failed = {}
  /\ phase[b] = "answered" /\ answer[b].ok => Shown(b) \/ answer[b].done # {}
  /\ phase[b] # "done" /\ ~(phase[b] = "answered" /\ answer[b].ok) =>
       Shown(b) \/ ~(BatchOf(b) \subseteq applied)
  /\ phase[b] = "done" => Shown(b) \/ b \in errors \/ fatal

ChangesConfirmed == mode.kind # "insert" =>
  /\ applied \subseteq UNION {BatchOf(b) : b \in Batches}
  /\ \A b \in Batches : ChangeIs(b)

\* A call that has settled stays as it is.
SettledIs == outcome # "none" =>
  /\ Working = {} /\ (fatal \/ \A b \in Batches : phase[b] = "done")
  /\ outcome = "resolved" => ~fatal
  /\ cached \subseteq {applied}

BatchIInv ==
  /\ BatchTypeOK /\ BatchShape /\ ReportedIsStored /\ ChangesConfirmed /\ SettledIs
  /\ Accepted(mode) /\ ChangesOnce
  /\ \A b \in Batches : AnswerIs(b) /\ PendingIs(b)

\* A document is in one batch.
LEMMA BatchesApart ==
  /\ \A b \in Batches : BatchOf(b) \subseteq BatchIds
  /\ \A b, c \in Batches : b # c => BatchOf(b) \cap BatchOf(c) = {}
BY DEF BatchOf, BatchIds

\* What the least refused document is.
LEMMA LeastRefused ==
  ASSUME NEW bad \in SUBSET BatchIds, bad # {}
  PROVE  /\ Min(bad) \in bad /\ \A d \in bad : Min(bad) <= d
         /\ Min({Min(bad)}) = Min(bad)
<1>1. bad \subseteq Nat
  BY BatchAssumption DEF BatchIds
<1>2. Min(bad) \in bad /\ \A d \in bad : Min(bad) <= d
  BY <1>1, Least DEF Min
<1>3. Min({Min(bad)}) = Min(bad)
  BY <1>1, <1>2 DEF Min
<1> QED BY <1>2, <1>3

\* Before the first batch is sent nothing is stored.
LEMMA BatchStarts == BatchInit => BatchIInv
<1> SUFFICES ASSUME BatchInit PROVE BatchIInv
  OBVIOUS
<1>0. /\ \A b \in Batches : pending[b] = BatchOf(b) /\ answer[b] = Lost
      /\ Lost \in Answers /\ Lost.done \cup Lost.failed = {}
  BY DEF BatchInit, Lost, Answers
<1>1. BatchTypeOK /\ BatchShape
  <2>1. 0 \in 0..RetryAttempts /\ 0 \in 0..MaxLost /\ attempts \in [Batches -> 0..RetryAttempts]
    BY BatchAssumption DEF BatchInit
  <2>2. BatchTypeOK
    BY <1>0, <2>1 DEF BatchInit, BatchTypeOK
  <2>3. answer \in [Batches -> Answers] /\ pending \in [Batches -> SUBSET BatchIds]
    BY <1>0, BatchesApart DEF BatchInit
  <2> QED BY <2>2, <2>3 DEF BatchShape, BatchInit
<1>2. ReportedIsStored
  BY FS_EmptySet DEF BatchInit, ReportedIsStored
<1>3. SettledIs /\ Accepted(mode) /\ ChangesOnce
      /\ \A b \in Batches : AnswerIs(b) /\ PendingIs(b)
  BY <1>0 DEF BatchInit, SettledIs, AnswerIs, PendingIs, ChangesOnce
<1>4. ChangesConfirmed
  <2>1. \A b \in Batches : phase[b] = "waiting" /\ answer[b].failed = {}
    BY <1>0 DEF BatchInit, Lost
  <2>2. applied = {}
    BY DEF BatchInit
  <2> QED BY <1>0, <2>1, <2>2 DEF ChangesConfirmed, ChangeIs, Shown, BatchInit
<1> QED BY <1>1, <1>2, <1>3, <1>4 DEF BatchIInv

USE DEF reportVars

\* Steps that only move a batch on, to a phase that says nothing of it.
LEMMA PhaseKeeps ==
  ASSUME BatchIInv, NEW b \in Batches, outcome = "none",
         NEW q \in {"ready", "sent"}, phase' = [phase EXCEPT ![b] = q],
         phase[b] \notin {"answered", "done"},
         UNCHANGED <<mode, applied, pending, answer, attempts, reportVars, fatal, outcome,
                     cached, lost>>
  PROVE  BatchIInv'
<1>1. /\ BatchTypeOK /\ phase'[b] = q /\ \A c \in Batches \ {b} : phase'[c] = phase[c]
  BY DEF BatchIInv, BatchTypeOK
<1>2. BatchTypeOK' /\ BatchShape' /\ ReportedIsStored'
  BY <1>1 DEF BatchIInv, BatchTypeOK, BatchShape, ReportedIsStored
<1>3. ChangesConfirmed'
  BY <1>1 DEF BatchIInv, ChangesConfirmed, ChangeIs, Shown
<1>4. SettledIs' /\ Accepted(mode)' /\ ChangesOnce'
  BY <1>1 DEF BatchIInv, SettledIs, Accepted, ChangesOnce
<1>5. \A c \in Batches : AnswerIs(c)' /\ PendingIs(c)'
  BY <1>1 DEF BatchIInv, AnswerIs, PendingIs, Retried
<1> QED BY <1>2, <1>3, <1>4, <1>5 DEF BatchIInv

\* A settled call has no batch under way.
LEMMA SettledRests ==
  ASSUME BatchIInv, NEW b \in Batches, outcome # "none"
  PROVE  phase[b] \in {"waiting", "done"} /\ (~fatal => phase[b] = "done")
BY DEF BatchIInv, SettledIs, Working

\* The request comes back, executed or not.
LEMMA ComesBack ==
  ASSUME BatchIInv, NEW b \in Batches, Phase(b, "sent", "answered"),
         NEW now \in SUBSET (BatchOf(b) \ applied), applied' = applied \cup now,
         NEW a \in Answers, answer' = [answer EXCEPT ![b] = a],
         a.done \cup a.failed \subseteq BatchOf(b),
         a.done = now \/ a.done = {},
         mode.kind # "insert" => /\ a.failed = {}
                                 /\ \/ Shown(b)
                                    \/ IF a.ok THEN a.done # {} ELSE ~(BatchOf(b) \subseteq applied \cup now),
         a.ok => pending[b] \subseteq applied \cup now,
         \A d \in pending[b] : d \in applied \cup now \/ d \in Retried(b)',
         lost' \in 0..MaxLost, lost' = 0 => lost = 0 /\ (a.ok \/ a.failed # {} \/ a.done = {}),
         UNCHANGED <<mode, pending, attempts, reportVars, fatal, outcome, cached>>
  PROVE  BatchIInv'
<1>1. /\ BatchTypeOK /\ BatchShape /\ phase[b] = "sent" /\ phase'[b] = "answered" /\ answer'[b] = a
      /\ \A c \in Batches \ {b} : phase'[c] = phase[c] /\ answer'[c] = answer[c]
  BY DEF BatchIInv, BatchTypeOK, BatchShape, Phase
<1>2. now \subseteq BatchIds
  BY BatchesApart
<1>3. BatchTypeOK'
  BY <1>1, <1>2 DEF BatchTypeOK, Phase, BatchIds
<1>4. BatchShape'
  BY <1>1 DEF BatchShape
<1>5. ReportedIsStored'
  BY DEF BatchIInv, ReportedIsStored
<1>6. counted \subseteq applied
  BY DEF BatchIInv, ReportedIsStored
<1>7. outcome = "none"
  BY <1>1, SettledRests
<1>8. SettledIs'
  BY <1>7 DEF SettledIs
<1>9. ChangesConfirmed'
  <2>1. ASSUME NEW c \in Batches \ {b} PROVE BatchOf(c) \cap now = {}
    BY BatchesApart
  <2> QED BY <1>1, <2>1 DEF BatchIInv, ChangesConfirmed, ChangeIs, Shown
<1>10. AnswerIs(b)'
  BY <1>1, <1>6 DEF AnswerIs
<1>11. ASSUME NEW c \in Batches \ {b} PROVE AnswerIs(c)'
  BY <1>1 DEF BatchIInv, AnswerIs, Retried
<1>12. \A c \in Batches : PendingIs(c)'
  BY <1>1 DEF BatchIInv, PendingIs
<1>13. Accepted(mode)' /\ ChangesOnce'
  <2>1. ASSUME NEW c \in Batches \ {b} PROVE pending[c] \cap now = {}
    BY <1>1, BatchesApart DEF BatchTypeOK
  <2> QED BY <1>1, <2>1 DEF BatchIInv, Accepted, ChangesOnce
<1> QED BY <1>3, <1>4, <1>5, <1>8, <1>9, <1>10, <1>11, <1>12, <1>13 DEF BatchIInv

\* The server executes a request, and its answer arrives or is lost.
LEMMA ExecutesKeeps ==
  ASSUME BatchIInv, ~LosesMany, NEW b \in Batches, Executes(b) PROVE BatchIInv'
<1>1. PICK refused \in SUBSET Poisoned :
        LET bad == IF mode.kind = "insert" THEN pending[b] \cap (refused \cup applied) ELSE {}
            now == IF mode.kind = "insert" THEN Inserted(pending[b], bad) ELSE pending[b] \ applied
        IN /\ Phase(b, "sent", "answered")
           /\ applied' = applied \cup now
           /\ \/ /\ answer' = [answer EXCEPT ![b] = [ok |-> bad = {}, done |-> now, failed |-> RefusedOf(bad)]]
                 /\ UNCHANGED lost
              \/ /\ lost < MaxLost /\ (mode.kind = "insert" \/ LosesMany)
                 /\ answer' = [answer EXCEPT ![b] = Lost] /\ lost' = lost + 1
              \/ /\ lost < MaxLost /\ mode.kind = "insert" /\ bad = {}
                 /\ answer' = [answer EXCEPT ![b] = Unconfirmed(now)] /\ lost' = lost + 1
           /\ UNCHANGED <<mode, pending, attempts, reportVars, fatal, outcome, cached>>
  BY DEF Executes
<1> DEFINE bad == IF mode.kind = "insert" THEN pending[b] \cap (refused \cup applied) ELSE {}
           now == IF mode.kind = "insert" THEN Inserted(pending[b], bad) ELSE pending[b] \ applied
<1>2. /\ BatchTypeOK /\ BatchShape /\ mode \in Modes /\ pending[b] \subseteq BatchOf(b)
      /\ pending[b] \subseteq BatchIds
  BY DEF BatchIInv, BatchTypeOK, BatchShape
<1>3. /\ bad \subseteq pending[b] /\ bad \in SUBSET BatchIds /\ pending[b] \subseteq Nat
      /\ (mode.kind = "insert" => pending[b] \cap applied \subseteq bad)
      /\ (mode.kind # "insert" => bad = {})
  BY <1>2 DEF BatchIds
<1>3a. now = IF mode.kind = "insert" THEN Inserted(pending[b], bad) ELSE pending[b] \ applied
  OBVIOUS
<1>3b. bad # {} => /\ Min(bad) \in bad /\ \A d \in bad : Min(bad) <= d
                   /\ Min({Min(bad)}) = Min(bad)
  BY <1>3, LeastRefused
<1>3c. \A d \in pending[b] : d \in Nat
  BY <1>3
<1> HIDE DEF bad, now
<1>4. now \subseteq pending[b] \ applied /\ (bad = {} => pending[b] \subseteq applied \cup now)
  <2>1. CASE mode.kind = "insert" /\ mode.ordered /\ bad # {}
    BY <1>3, <1>3a, <1>3b, <1>3c, <2>1 DEF Inserted
  <2>2. CASE ~(mode.kind = "insert" /\ mode.ordered /\ bad # {})
    BY <1>3, <1>3a, <2>2 DEF Inserted
  <2> QED BY <2>1, <2>2
<1>5. RefusedOf(bad) \subseteq bad
  BY <1>3, <1>3b DEF RefusedOf
<1>6. ASSUME NEW d \in pending[b], d \notin applied \cup now, bad # {}
      PROVE  /\ RefusedOf(bad) # {}
             /\ IF mode.ordered THEN d >= Min(RefusedOf(bad)) ELSE d \in RefusedOf(bad)
  <2>1. mode.kind = "insert" /\ d \in Nat
    BY <1>3, <1>6
  <2>2. CASE mode.ordered
    BY <1>3a, <1>3b, <1>3c, <1>3, <1>6, <2>1, <2>2 DEF RefusedOf, Inserted
  <2>3. CASE ~mode.ordered
    BY <1>3, <1>3a, <1>6, <2>1, <2>3 DEF RefusedOf, Inserted
  <2> QED BY <2>2, <2>3
<1> DEFINE a == [ok |-> bad = {}, done |-> now, failed |-> RefusedOf(bad)]
<1>7. a \in Answers /\ Lost \in Answers
  BY <1>2, <1>3, <1>4, <1>5 DEF Answers, Lost
<1>8. /\ Phase(b, "sent", "answered") /\ applied' = applied \cup now
      /\ UNCHANGED <<mode, pending, attempts, reportVars, fatal, outcome, cached>>
      /\ now \in SUBSET (BatchOf(b) \ applied)
  BY <1>1, <1>2, <1>4 DEF bad, now
<1>9. CASE answer' = [answer EXCEPT ![b] = a] /\ UNCHANGED lost
  <2>1. answer'[b] = a /\ a.ok = (bad = {}) /\ a.done = now /\ a.failed = RefusedOf(bad)
    BY <1>2, <1>9 DEF BatchShape
  <2>2. \A d \in pending[b] : d \in applied \cup now \/ d \in Retried(b)'
    BY <1>4, <1>6, <1>8, <2>1 DEF Retried
  <2>3. lost' \in 0..MaxLost
    BY <1>2, <1>9 DEF BatchTypeOK
  <2>4. a.ok => pending[b] \subseteq applied \cup now
    BY <1>4, <2>1
  <2>5. a.done \cup a.failed \subseteq BatchOf(b)
    BY <1>2, <1>3, <1>5, <1>8, <2>1
  <2>6. ASSUME mode.kind # "insert"
        PROVE  a.failed = {} /\ a.ok /\ (Shown(b) \/ a.done # {})
    <3>1. bad = {} /\ now = pending[b] \ applied
      BY <1>3, <1>3a, <2>6
    <3>2. a.failed = {} /\ a.ok
      BY <1>5, <2>1, <3>1
    <3>3. phase[b] = "sent"
      BY <1>8 DEF Phase
    <3>4. pending[b] = BatchOf(b) /\ (Shown(b) \/ ~(BatchOf(b) \subseteq applied))
      BY <2>6, <3>3 DEF BatchIInv, ChangesConfirmed, ChangeIs
    <3> QED BY <2>1, <3>1, <3>2, <3>4
  <2>7. lost' = 0 => lost = 0 /\ (a.ok \/ a.failed # {} \/ a.done = {})
    BY <1>3, <1>3b, <1>9, <2>1 DEF RefusedOf
  <2> HIDE DEF a
  <2> QED BY <1>7, <1>8, <1>9, <2>1, <2>2, <2>3, <2>4, <2>5, <2>6, <2>7, ComesBack
<1>10. CASE /\ lost < MaxLost /\ (mode.kind = "insert" \/ LosesMany)
            /\ answer' = [answer EXCEPT ![b] = Lost] /\ lost' = lost + 1
  <2>1. answer'[b] = Lost /\ Lost.ok = FALSE /\ Lost.done = {} /\ Lost.failed = {}
    BY <1>2, <1>10 DEF BatchShape, Lost
  <2>2. \A d \in pending[b] : d \in Retried(b)'
    BY <1>8, <2>1 DEF Retried
  <2>3. lost' \in 0..MaxLost /\ lost' # 0
    BY <1>2, <1>10, BatchAssumption DEF BatchTypeOK
  <2>4. mode.kind = "insert"
    BY <1>10
  <2> QED BY <1>7, <1>8, <1>10, <2>1, <2>2, <2>3, <2>4, ComesBack
<1>11. CASE /\ lost < MaxLost /\ mode.kind = "insert" /\ bad = {}
            /\ answer' = [answer EXCEPT ![b] = Unconfirmed(now)] /\ lost' = lost + 1
  <2> DEFINE u == Unconfirmed(now)
  <2>0. now \subseteq BatchOf(b)
    BY <1>8
  <2>1. u = [ok |-> FALSE, done |-> now, failed |-> {}]
    BY DEF Unconfirmed
  <2>2. u \in Answers /\ answer'[b] = u /\ u.ok = FALSE /\ u.done = now /\ u.failed = {}
    BY <1>2, <1>4, <1>11, <2>1 DEF BatchShape, Answers
  <2> HIDE DEF u
  <2>3. \A d \in pending[b] : d \in Retried(b)'
    BY <1>8, <2>2 DEF Retried
  <2>4. lost' \in 0..MaxLost /\ lost' # 0
    BY <1>2, <1>11, BatchAssumption DEF BatchTypeOK
  <2> QED BY <1>8, <1>11, <2>0, <2>2, <2>3, <2>4, ComesBack DEF u
<1> QED BY <1>1, <1>9, <1>10, <1>11 DEF bad, now

\* A request that does not reach the server.
LEMMA UnreachedKeeps == ASSUME BatchIInv, NEW b \in Batches, Unreached(b) PROVE BatchIInv'
<1>1. /\ Phase(b, "sent", "answered") /\ lost < MaxLost /\ lost' = lost + 1
      /\ answer' = [answer EXCEPT ![b] = Lost]
      /\ UNCHANGED <<mode, applied, pending, attempts, reportVars, fatal, outcome, cached>>
  BY DEF Unreached
<1>2. BatchTypeOK /\ BatchShape
  BY DEF BatchIInv
<1>3. Lost \in Answers /\ Lost.ok = FALSE /\ Lost.done = {} /\ Lost.failed = {}
  BY DEF Answers, Lost
<1>4. answer'[b] = Lost
  BY <1>1, <1>2 DEF BatchShape
<1>5. \A d \in pending[b] : d \in Retried(b)'
  BY <1>1, <1>3, <1>4 DEF Retried
<1>6. lost' \in 0..MaxLost /\ lost' # 0
  BY <1>1, <1>2, BatchAssumption DEF BatchTypeOK
<1>7. {} \in SUBSET (BatchOf(b) \ applied) /\ applied' = applied \cup {}
  BY <1>1
<1>8. mode.kind # "insert" => Shown(b) \/ ~(BatchOf(b) \subseteq applied \cup {})
  BY <1>1 DEF BatchIInv, ChangesConfirmed, ChangeIs, Phase
<1> QED BY <1>1, <1>3, <1>5, <1>6, <1>7, <1>8, ComesBack

\* An updateMany or deleteMany that fails half-way.
LEMMA FailsPartlyKeeps == ASSUME BatchIInv, NEW b \in Batches, FailsPartly(b) PROVE BatchIInv'
<1>1. PICK now \in SUBSET (pending[b] \ applied) :
        /\ mode.kind # "insert" /\ now # pending[b] \ applied
        /\ Phase(b, "sent", "answered") /\ lost < MaxLost /\ lost' = lost + 1
        /\ applied' = applied \cup now /\ answer' = [answer EXCEPT ![b] = Lost]
        /\ UNCHANGED <<mode, pending, attempts, reportVars, fatal, outcome, cached>>
  BY DEF FailsPartly
<1>2. BatchTypeOK /\ BatchShape
  BY DEF BatchIInv
<1>3. Lost \in Answers /\ Lost.ok = FALSE /\ Lost.done = {} /\ Lost.failed = {}
  BY DEF Answers, Lost
<1>4. answer'[b] = Lost
  BY <1>1, <1>2 DEF BatchShape
<1>5. \A d \in pending[b] : d \in Retried(b)'
  BY <1>1, <1>3, <1>4 DEF Retried
<1>6. lost' \in 0..MaxLost /\ lost' # 0
  BY <1>1, <1>2, BatchAssumption DEF BatchTypeOK
<1>7. now \in SUBSET (BatchOf(b) \ applied)
  BY <1>2 DEF BatchTypeOK
<1>8. ~(BatchOf(b) \subseteq applied \cup now)
  BY <1>1, <1>2 DEF BatchTypeOK
<1> QED BY <1>1, <1>3, <1>5, <1>6, <1>7, <1>8, ComesBack

\* What an answer reports is counted once, and named if it says what failed.
LEMMA ConfirmsOnce ==
  ASSUME BatchIInv, NEW b \in Batches, phase[b] = "answered", Confirms(b),
         lost' = 0 => lost = 0, UNCHANGED applied
  PROVE  /\ ReportedIsStored' /\ confirmed' \cup counted' \subseteq BatchIds /\ count' \in Nat
         /\ counted' = counted \cup answer[b].done
         /\ \A c \in Batches \ {b} : answer[c].done \cap answer[b].done = {}
<1>1. /\ BatchTypeOK /\ ReportedIsStored /\ AnswerIs(b) /\ BatchShape
      /\ count' = count + Cardinality(answer[b].done) /\ counted' = counted \cup answer[b].done
      /\ confirmed' \in {confirmed, confirmed \cup answer[b].done}
      /\ answer[b].ok \/ answer[b].failed # {} => confirmed' = confirmed \cup answer[b].done
  BY DEF BatchIInv, Confirms
<1>0. IsFiniteSet(BatchIds)
  <2>1. Docs \in Int /\ 1 \in Int
    BY BatchAssumption
  <2>2. IsFiniteSet(1..Docs)
    BY <2>1, FS_Interval
  <2> QED BY <2>2 DEF BatchIds
<1>2. /\ IsFiniteSet(BatchIds) /\ confirmed \subseteq BatchIds /\ counted \subseteq BatchIds
      /\ answer[b].done \subseteq BatchIds
  BY <1>0, <1>1 DEF BatchIds, BatchTypeOK, BatchShape, Answers
<1>3. /\ IsFiniteSet(counted) /\ IsFiniteSet(answer[b].done)
      /\ Cardinality(counted) \in Nat /\ Cardinality(answer[b].done) \in Nat
  BY <1>2, FS_Subset, FS_CardinalityType
<1>4. counted \cap answer[b].done = {} /\ answer[b].done \subseteq applied
  BY <1>1 DEF AnswerIs
<1>5. Cardinality(counted \cup answer[b].done) = Cardinality(counted) + Cardinality(answer[b].done)
  <2>1. Cardinality(counted \cap answer[b].done) = 0
    BY <1>4, FS_EmptySet
  <2>2. IsFiniteSet(counted) /\ IsFiniteSet(answer[b].done)
    BY <1>3
  <2>3. Cardinality(counted \cup answer[b].done)
          = Cardinality(counted) + Cardinality(answer[b].done) - Cardinality(counted \cap answer[b].done)
    BY ONLY <2>2, FS_Union
  <2> QED BY <1>3, <2>1, <2>3
<1>6. /\ confirmed' \subseteq counted' /\ counted' \subseteq applied'
      /\ confirmed' \cup counted' \subseteq BatchIds
      /\ count' = Cardinality(counted') /\ count' \in Nat
  <2>1. confirmed \subseteq counted /\ counted \subseteq applied /\ count = Cardinality(counted)
    BY <1>1 DEF ReportedIsStored
  <2>2. /\ confirmed' \subseteq counted' /\ counted' \subseteq applied'
        /\ confirmed' \cup counted' \subseteq BatchIds
    BY <1>1, <1>2, <1>4, <2>1
  <2>3. count' = Cardinality(counted') /\ count' \in Nat
    BY <1>1, <1>3, <1>5, <2>1
  <2> QED BY <2>2, <2>3
<1>7. lost' = 0 => confirmed' = counted'
  BY <1>1 DEF AnswerIs, ReportedIsStored
<1>8. ASSUME NEW c \in Batches \ {b} PROVE answer[c].done \cap answer[b].done = {}
  BY <1>1, BatchesApart DEF BatchTypeOK
<1> QED BY <1>1, <1>6, <1>7, <1>8 DEF ReportedIsStored

\* An answer is handled: the batch is done, or part of it is sent again.
LEMMA AnswerKeeps ==
  ASSUME BatchIInv, NEW b \in Batches, phase[b] = "answered",
         NEW q \in {"done", "pause"}, phase' = [phase EXCEPT ![b] = q], Confirms(b),
         NEW p \in {pending[b], Retried(b)}, pending' = [pending EXCEPT ![b] = p],
         NEW n \in 0..RetryAttempts, attempts' = [attempts EXCEPT ![b] = n],
         errors \subseteq errors', errors' \subseteq errors \cup {b},
         fatal' \in BOOLEAN, fatal => fatal',
         q = "done" => b \in errors' \/ answer[b].ok \/ fatal',
         q = "pause" => MayRetry(b) /\ ~answer[b].ok,
         UNCHANGED <<mode, applied, answer, outcome, cached, lost>>
  PROVE  BatchIInv'
<1>1. /\ BatchTypeOK /\ BatchShape /\ AnswerIs(b) /\ PendingIs(b)
      /\ phase'[b] = q /\ \A c \in Batches \ {b} : phase'[c] = phase[c]
      /\ pending'[b] = p /\ \A c \in Batches \ {b} : pending'[c] = pending[c]
  BY DEF BatchIInv, BatchTypeOK, BatchShape
<1>2. /\ ReportedIsStored' /\ confirmed' \cup counted' \subseteq BatchIds /\ count' \in Nat
      /\ counted' = counted \cup answer[b].done
      /\ \A c \in Batches \ {b} : answer[c].done \cap answer[b].done = {}
  BY ConfirmsOnce
<1>3. Retried(b) \subseteq BatchOf(b) /\ p \subseteq BatchOf(b) /\ pending[b] \ p \subseteq applied
  <2>1. Retried(b) \subseteq BatchOf(b)
    BY <1>1 DEF Retried, BatchTypeOK
  <2> QED BY <1>1, <2>1 DEF AnswerIs, BatchTypeOK
<1>4. BatchTypeOK'
  BY <1>1, <1>2, <1>3 DEF BatchTypeOK, BatchIds
<1>5. BatchShape'
  BY <1>1, <1>3, BatchesApart DEF BatchShape
<1>6. SettledIs'
  <2>1. outcome = "none"
    BY SettledRests
  <2> QED BY <2>1 DEF SettledIs
<1>7. ChangesConfirmed'
  <2> SUFFICES ASSUME mode.kind # "insert"
               PROVE  /\ applied \subseteq UNION {BatchOf(c) : c \in Batches}
                      /\ \A c \in Batches : ChangeIs(c)'
    BY DEF ChangesConfirmed
  <2>1. /\ applied \subseteq UNION {BatchOf(c) : c \in Batches}
        /\ \A c \in Batches : ChangeIs(c)
    BY DEF BatchIInv, ChangesConfirmed
  <2>2. p = BatchOf(b)
    BY <2>1 DEF Retried, ChangeIs
  <2>3. \A c \in Batches : Shown(c) => Shown(c)'
    BY <1>2 DEF Shown
  <2>4. ASSUME NEW c \in Batches \ {b} PROVE ChangeIs(c)'
    BY <1>1, <2>1, <2>3 DEF ChangeIs
  <2>5. answer[b].done # {} => Shown(b)'
    BY <1>1, <1>2 DEF Shown, BatchTypeOK
  <2>6. ChangeIs(b)'
    BY <1>1, <2>1, <2>2, <2>3, <2>5 DEF ChangeIs
  <2> QED BY <2>1, <2>4, <2>6
<1>8. ASSUME NEW c \in Batches PROVE AnswerIs(c)'
  <2>1. CASE c = b
    BY <1>1, <2>1 DEF AnswerIs
  <2>2. CASE c # b
    <3>1. AnswerIs(c)
      BY DEF BatchIInv
    <3> QED BY <1>1, <1>2, <2>2, <3>1 DEF AnswerIs, Retried
  <2> QED BY <2>1, <2>2
<1>9. ASSUME NEW c \in Batches PROVE PendingIs(c)'
  <2>1. CASE c = b
    <3>1. BatchOf(b) \ p \subseteq applied
      BY <1>1, <1>3 DEF PendingIs
    <3>2. answer[b].ok => BatchOf(b) \subseteq applied
      BY <1>1 DEF AnswerIs, PendingIs
    <3> QED BY <1>1, <2>1, <3>1, <3>2 DEF PendingIs
  <2>2. CASE c # b
    <3>1. PendingIs(c)
      BY DEF BatchIInv
    <3> QED BY <1>1, <2>2, <3>1 DEF PendingIs
  <2> QED BY <2>1, <2>2
<1>10. Accepted(mode)' /\ ChangesOnce'
  BY <1>1 DEF BatchIInv, Accepted, ChangesOnce, MayRetry
<1> QED BY <1>2, <1>4, <1>5, <1>6, <1>7, <1>8, <1>9, <1>10 DEF BatchIInv

\* A callback that throws leaves what was stored counted, and the batch to be handled as
\* one whose request has failed.
LEMMA ProgressThrowsKeeps ==
  ASSUME BatchIInv, NEW b \in Batches, ProgressThrows(b) PROVE BatchIInv'
<1>1. /\ BatchTypeOK /\ BatchShape /\ AnswerIs(b) /\ answer[b].ok /\ phase[b] = "answered"
      /\ Confirms(b) /\ lost < MaxLost /\ lost' = lost + 1
      /\ UNCHANGED <<mode, applied, phase, pending, attempts, errors, fatal, outcome, cached>>
  BY DEF BatchIInv, ProgressThrows
<1>2. /\ answer'[b] = Lost /\ \A c \in Batches \ {b} : answer'[c] = answer[c]
      /\ answer' \in [Batches -> Answers]
      /\ Lost.ok = FALSE /\ Lost.done = {} /\ Lost.failed = {}
  BY DEF ProgressThrows, BatchIInv, BatchShape, Lost, Answers
<1>3. lost' \in 0..MaxLost /\ lost' # 0
  BY <1>1, BatchAssumption DEF BatchTypeOK
<1>4. /\ ReportedIsStored' /\ confirmed' \cup counted' \subseteq BatchIds /\ count' \in Nat
      /\ counted' = counted \cup answer[b].done
      /\ \A c \in Batches \ {b} : answer[c].done \cap answer[b].done = {}
  BY <1>1, <1>3, ConfirmsOnce
<1>5. BatchTypeOK' /\ BatchShape'
  BY <1>1, <1>2, <1>3, <1>4 DEF BatchTypeOK, BatchShape, BatchIds
<1>6. SettledIs' /\ Accepted(mode)' /\ ChangesOnce'
  BY <1>1 DEF BatchIInv, SettledIs, Working, Accepted, ChangesOnce
<1>7. ChangesConfirmed'
  <2> SUFFICES ASSUME mode.kind # "insert", NEW c \in Batches PROVE ChangeIs(c)'
    BY <1>1 DEF BatchIInv, ChangesConfirmed
  <2>1. ChangeIs(c) /\ (Shown(c) => Shown(c)')
    BY <1>4 DEF BatchIInv, ChangesConfirmed, Shown
  <2>2. answer[b].done # {} => Shown(b)'
    BY <1>1, <1>4 DEF Shown, BatchTypeOK
  <2> QED BY <1>1, <1>2, <2>1, <2>2 DEF ChangeIs
<1>8. ASSUME NEW c \in Batches PROVE AnswerIs(c)' /\ PendingIs(c)'
  <2>1. AnswerIs(c) /\ PendingIs(c)
    BY DEF BatchIInv
  <2>2. PendingIs(c)'
    BY <1>1, <2>1 DEF PendingIs
  <2>3. CASE c = b
    BY <1>1, <1>2, <1>3, <2>2, <2>3 DEF AnswerIs, Retried
  <2>4. CASE c # b
    BY <1>1, <1>2, <1>3, <1>4, <2>1, <2>2, <2>4 DEF AnswerIs, Retried
  <2> QED BY <2>3, <2>4
<1> QED BY <1>4, <1>5, <1>6, <1>7, <1>8 DEF BatchIInv

\* A worker that is stopped leaves its batch as it is, and the call rejected.
LEMMA WorkerThrowsKeeps ==
  ASSUME BatchIInv, NEW b \in Batches, WorkerThrows(b) PROVE BatchIInv'
<1>1. /\ BatchTypeOK /\ BatchShape /\ fatal' = TRUE /\ phase' = [phase EXCEPT ![b] = "done"]
      /\ UNCHANGED <<mode, applied, pending, answer, attempts, outcome, cached, lost>>
  BY DEF BatchIInv, WorkerThrows, Phase
<1>2. CASE phase[b] = "ready" /\ UNCHANGED reportVars
  <2>1. phase'[b] = "done" /\ \A c \in Batches \ {b} : phase'[c] = phase[c]
    BY <1>1 DEF BatchTypeOK
  <2>2. outcome = "none"
    BY <1>2, SettledRests
  <2>3. BatchTypeOK' /\ BatchShape' /\ ReportedIsStored'
    BY <1>1, <1>2, <2>1 DEF BatchIInv, BatchTypeOK, BatchShape, ReportedIsStored
  <2>4. ChangesConfirmed' /\ SettledIs'
    BY <1>1, <1>2, <2>1, <2>2 DEF BatchIInv, ChangesConfirmed, ChangeIs, Shown, SettledIs
  <2>5. Accepted(mode)' /\ ChangesOnce' /\ \A c \in Batches : AnswerIs(c)' /\ PendingIs(c)'
    BY <1>1, <1>2, <2>1 DEF BatchIInv, AnswerIs, PendingIs, Retried, Accepted, ChangesOnce
  <2> QED BY <2>3, <2>4, <2>5 DEF BatchIInv
<1>3. CASE phase[b] = "answered" /\ Confirms(b) /\ errors' \in {errors, errors \cup {b}}
  <2>1. attempts' = [attempts EXCEPT ![b] = attempts[b]] /\ attempts[b] \in 0..RetryAttempts
        /\ pending' = [pending EXCEPT ![b] = pending[b]]
    BY <1>1 DEF BatchTypeOK, BatchShape
  <2> QED BY <1>1, <1>3, <2>1, AnswerKeeps
<1> QED BY <1>2, <1>3 DEF WorkerThrows, Phase

\* The call settles, and the cached queries that may show less than was done are gone.
LEMMA CallEndsKeeps == ASSUME BatchIInv, ~LosesMany, CallEnds PROVE BatchIInv'
<1>1. /\ BatchTypeOK /\ BatchShape /\ outcome = "none" /\ AllEnded
      /\ outcome' = IF fatal THEN "rejected" ELSE "resolved"
      /\ cached' = IF Invalidates THEN {} ELSE cached
      /\ UNCHANGED <<mode, applied, phase, pending, answer, attempts, reportVars, fatal, lost>>
  BY DEF CallEnds, BatchIInv
<1>2. BatchTypeOK' /\ BatchShape' /\ ReportedIsStored' /\ ChangesConfirmed'
  BY <1>1 DEF BatchIInv, BatchTypeOK, BatchShape, ReportedIsStored, ChangesConfirmed, ChangeIs, Shown
<1>3. Accepted(mode)' /\ ChangesOnce' /\ \A c \in Batches : AnswerIs(c)' /\ PendingIs(c)'
  BY <1>1 DEF BatchIInv, AnswerIs, PendingIs, Retried, Accepted, ChangesOnce
<1>4. Working = {} /\ (fatal \/ \A b \in Batches : phase[b] = "done")
  BY <1>1 DEF AllEnded, Working
<1>5. cached' \subseteq {applied}
  <2>1. CASE Invalidates
    BY <1>1, <2>1
  <2>2. CASE ~Invalidates
    <3>1. mode.kind # "insert" /\ count = 0
      BY <1>1, <2>2, BatchAssumption DEF Invalidates, BatchTypeOK
    <3>2. counted = {}
      <4>0. IsFiniteSet(1..Docs)
        BY FS_Interval, BatchAssumption
      <4>1. IsFiniteSet(counted)
        BY <1>1, <4>0, FS_Subset DEF BatchTypeOK
      <4> QED BY <3>1, <4>1, FS_EmptySet DEF BatchIInv, ReportedIsStored
    <3>3. ~fatal /\ \A b \in Batches : phase[b] = "done" /\ b \notin errors
      BY <1>4, <2>2 DEF Invalidates
    <3>4. \A b \in Batches : BatchOf(b) = {}
      BY <3>1, <3>2, <3>3 DEF BatchIInv, ChangesConfirmed, ChangeIs, Shown
    <3>5. applied = {}
      BY <3>1, <3>4 DEF BatchIInv, ChangesConfirmed, ChangeIs, Shown
    <3> QED BY <1>1, <2>2, <3>5 DEF BatchShape
  <2> QED BY <2>1, <2>2
<1>6. SettledIs'
  BY <1>1, <1>4, <1>5 DEF SettledIs, Working
<1> QED BY <1>2, <1>3, <1>6 DEF BatchIInv

\* A cached read, and a cursor that fails.
LEMMA CachedReadKeeps == ASSUME BatchIInv, CachedRead \/ CursorFails PROVE BatchIInv'
<1>1. CASE CachedRead
  <2>1. /\ cached' = {applied}
        /\ UNCHANGED <<mode, applied, phase, pending, answer, attempts, reportVars, fatal,
                       outcome, lost>>
    BY <1>1 DEF CachedRead
  <2>2. BatchTypeOK' /\ BatchShape' /\ ReportedIsStored' /\ ChangesConfirmed' /\ SettledIs'
    BY <2>1 DEF BatchIInv, BatchTypeOK, BatchShape, ReportedIsStored, ChangesConfirmed, ChangeIs,
                Shown, SettledIs, Working
  <2>3. Accepted(mode)' /\ ChangesOnce' /\ \A c \in Batches : AnswerIs(c)' /\ PendingIs(c)'
    BY <2>1 DEF BatchIInv, AnswerIs, PendingIs, Retried, Accepted, ChangesOnce
  <2> QED BY <2>2, <2>3 DEF BatchIInv
<1>2. CASE CursorFails
  <2>1. /\ outcome = "none" /\ fatal' = TRUE /\ lost' \in 0..MaxLost /\ lost' # 0
        /\ UNCHANGED <<mode, applied, phase, pending, answer, attempts, reportVars,
                       outcome, cached>>
    BY <1>2, BatchAssumption DEF CursorFails, BatchIInv, BatchTypeOK
  <2>2. BatchTypeOK' /\ BatchShape' /\ ReportedIsStored' /\ ChangesConfirmed' /\ SettledIs'
    BY <2>1 DEF BatchIInv, BatchTypeOK, BatchShape, ReportedIsStored, ChangesConfirmed,
                ChangeIs, Shown, SettledIs
  <2>3. Accepted(mode)' /\ ChangesOnce' /\ \A c \in Batches : AnswerIs(c)' /\ PendingIs(c)'
    BY <2>1 DEF BatchIInv, AnswerIs, PendingIs, Retried, Accepted, ChangesOnce
  <2> QED BY <2>2, <2>3 DEF BatchIInv
<1> QED BY <1>1, <1>2

\* The invariant says that a batch write reports what it did, and that no cached query
\* hides it.
LEMMA BatchSound == BatchIInv => BatchReported
<1> SUFFICES ASSUME BatchIInv PROVE BatchReported
  OBVIOUS
<1>1. ASSUME outcome = "resolved", NEW b \in Batches \ errors PROVE BatchOf(b) \subseteq applied
  BY <1>1 DEF BatchIInv, SettledIs, PendingIs
<1> QED BY <1>1 DEF BatchIInv, SettledIs, BatchReported, BatchAccounted, CacheShowsBatch,
                    NothingSilentlyMissing, QuietWhenSettled

\* A batch write that resolves has stored all it reports no error for, reports what is stored
\* and once, sends nothing after it has settled, and leaves no cached query that does not show
\* what it did: for any documents, batches, workers, retries and failures, unless the answer
\* to an updateMany or deleteMany of a batch is lost (insertBatch, updateBatch, deleteBatch).
THEOREM BatchIsReported == ASSUME ~LosesMany PROVE BatchSpec => []BatchReported
<1>1. BatchIInv /\ [BatchNext]_batchVars => BatchIInv'
  <2> SUFFICES ASSUME BatchIInv, [BatchNext]_batchVars PROVE BatchIInv'
    OBVIOUS
  <2>1. CASE UNCHANGED batchVars
    <3>1. /\ BatchTypeOK' /\ BatchShape' /\ ReportedIsStored' /\ ChangesConfirmed' /\ SettledIs'
      BY <2>1 DEF batchVars, BatchIInv, BatchTypeOK, BatchShape, ReportedIsStored,
                  ChangesConfirmed, ChangeIs, Shown, SettledIs, Working
    <3>2. Accepted(mode)' /\ ChangesOnce' /\ \A c \in Batches : AnswerIs(c)' /\ PendingIs(c)'
      BY <2>1 DEF batchVars, BatchIInv, AnswerIs, PendingIs, Retried, Accepted, ChangesOnce
    <3> QED BY <3>1, <3>2 DEF BatchIInv
  <2>2. ASSUME NEW b \in Batches, Acquire(b) \/ Request(b) \/ Resumes(b) PROVE BatchIInv'
    <3>1. outcome = "none"
      BY <2>2, SettledRests DEF Acquire, Request, Resumes, Phase
    <3>2. /\ \E q \in {"ready", "sent"} : phase' = [phase EXCEPT ![b] = q]
          /\ phase[b] \notin {"answered", "done"}
          /\ UNCHANGED <<mode, applied, pending, answer, attempts, reportVars, fatal, outcome,
                         cached, lost>>
      BY <2>2 DEF Acquire, Request, Resumes, Phase
    <3> QED BY <3>1, <3>2, PhaseKeeps
  <2>3. ASSUME NEW b \in Batches, Succeeds(b) PROVE BatchIInv'
    <3>1. attempts' = [attempts EXCEPT ![b] = attempts[b]] /\ attempts[b] \in 0..RetryAttempts
          /\ pending' = [pending EXCEPT ![b] = pending[b]] /\ fatal' \in BOOLEAN
      BY <2>3 DEF Succeeds, BatchIInv, BatchTypeOK, BatchShape
    <3> QED BY <2>3, <3>1, AnswerKeeps DEF Succeeds, Phase
  <2>4. ASSUME NEW b \in Batches, Retries(b) PROVE BatchIInv'
    <3>1. /\ attempts' = [attempts EXCEPT ![b] = attempts[b] + 1]
          /\ attempts[b] + 1 \in 0..RetryAttempts /\ fatal' \in BOOLEAN
      BY <2>4, BatchAssumption DEF Retries, MayRetry, BatchIInv, BatchTypeOK
    <3> QED BY <2>4, <3>1, AnswerKeeps DEF Retries, Phase
  <2>5. ASSUME NEW b \in Batches, GivesUp(b) PROVE BatchIInv'
    <3>1. attempts' = [attempts EXCEPT ![b] = attempts[b]] /\ attempts[b] \in 0..RetryAttempts
          /\ pending' = [pending EXCEPT ![b] = pending[b]] /\ fatal' \in BOOLEAN
      BY <2>5 DEF GivesUp, BatchIInv, BatchTypeOK, BatchShape
    <3> QED BY <2>5, <3>1, AnswerKeeps DEF GivesUp, Phase
  <2> QED BY <2>1, <2>2, <2>3, <2>4, <2>5, ExecutesKeeps, UnreachedKeeps, FailsPartlyKeeps,
             ProgressThrowsKeeps, WorkerThrowsKeeps, CallEndsKeeps, CachedReadKeeps
          DEF BatchNext, InsertWorker, UpdateWorker, DeleteWorker, Worker
<1> QED BY <1>1, BatchStarts, BatchSound, PTL DEF BatchSpec

HIDE DEF reportVars

-----------------------------------------------------------------------------
(***************************************************************************)
(* Write-path policy.  A decision is a state predicate of the rules: the   *)
(* same for a collection, its database and the client.                     *)
(***************************************************************************)
\* One more rule keeps the types of a policy.
LEMMA PolicyTyped == PolicySpec => []PolicyTypeOK
<1>1. PolicyInit => PolicyTypeOK
  BY PolicyAssumption DEF PolicyInit, PolicyTypeOK
<1>2. PolicyTypeOK /\ [PolicyNext]_policyVars => PolicyTypeOK'
  <2> SUFFICES ASSUME PolicyTypeOK, [PolicyNext]_policyVars PROVE PolicyTypeOK'
    OBVIOUS
  <2>1. CASE UNCHANGED policyVars
    BY <2>1 DEF policyVars, PolicyTypeOK
  <2>2. ASSUME NEW k \in Keys, NEW rule \in RulesGiven, AddRule(k, rule) PROVE PolicyTypeOK'
    BY <2>2, PolicyAssumption DEF AddRule, PolicyTypeOK
  <2> QED BY <2>1, <2>2 DEF PolicyNext
<1> QED BY <1>1, <1>2, PTL DEF PolicySpec

\* Among rules that close a category, one that refuses is chosen before one that warns.
LEMMA ChosenRefuses ==
  ASSUME NEW S, NEW r \in S, r.onViolation = "throw"
  PROVE  Chosen(S) \in S /\ Chosen(S).onViolation = "throw"
BY DEF Chosen

\* A rule that is refused is decided on refusal, whatever else is there.
LEMMA OneDecides ==
  ASSUME NEW S \in SUBSET Rules, NEW category, NEW r \in S, Closes(r, category),
         r.onViolation = "throw"
  PROVE  Decided(S, category) = "refused"
<1> DEFINE closing == {x \in S : Closes(x, category)}
<1>1. r \in closing
  OBVIOUS
<1>2. Chosen(closing).onViolation = "throw"
  BY <1>1, ChosenRefuses
<1> QED BY <1>1, <1>2 DEF Decided, Outcome

\* And what is decided on refusal has such a rule.
LEMMA DecidedBy ==
  ASSUME NEW S \in SUBSET Rules, NEW category, Decided(S, category) = "refused"
  PROVE  \E r \in S : Closes(r, category) /\ r.onViolation = "throw"
<1> DEFINE closing == {x \in S : Closes(x, category)}
<1>1. closing # {} /\ Chosen(closing).onViolation # "warn"
  BY DEF Decided, Outcome
<1>2. Chosen(closing) \in closing
  BY <1>1 DEF Chosen
<1> QED BY <1>1, <1>2 DEF Rules

\* What is found for a collection concerns its database, unless it is misread.
LEMMA FoundConcerns ==
  ASSUME NEW n \in Namespaces, NEW i \in Found(n), ~Misread(Candidates(n)[i])
  PROVE  /\ Candidates(n)[i] \in DOMAIN rules
         /\ Concerns(Candidates(n)[i], n.db)
<1>1. i \in 1..4 /\ Candidates(n)[i] \in DOMAIN rules
  BY DEF Found
<1>2. i = 1 \/ i = 2 \/ i = 3 \/ i = 4
  BY <1>1
<1>3. Concerns(Candidates(n)[i], n.db)
  BY <1>2 DEF Concerns, Candidates, Key, Misread
<1> QED BY <1>1, <1>3

\* The rule of a collection, and that its database takes it into account.
LEMMA RuleCounts ==
  ASSUME PolicyTypeOK, NEW n \in Namespaces,
         Found(n) = {} \/ ~Misread(Candidates(n)[First(Found(n))])
  PROVE  RuleFor(n) \in {default} \cup {rules[k] : k \in {x \in DOMAIN rules : Concerns(x, n.db)}}
<1>1. CASE Found(n) = {}
  BY <1>1 DEF RuleFor
<1>2. CASE Found(n) # {}
  <2>1. First(Found(n)) \in Found(n)
    <3>1. Found(n) \subseteq 1..4
      BY DEF Found
    <3>2. \E i \in Found(n) : \A j \in Found(n) : i <= j
      BY <1>2, <3>1
    <3> QED BY <3>2 DEF First
  <2> QED BY <1>2, <2>1, FoundConcerns DEF RuleFor
<1> QED BY <1>1, <1>2

\* What a rule refuses to a collection, it closes for the database.
LEMMA RefusedIsClosed ==
  ASSUME NEW rule \in Rules, NEW category \in {"raw", "management"},
         ~Allowed(rule, "collection", category)
  PROVE  Closes(rule, category)
BY DEF Allowed, Inherits, Closes, Rules, Settings

\* Levels agree wherever the rules are typed.
LEMMA TypedAgrees == PolicyTypeOK => PolicyConsistent
<1> SUFFICES ASSUME PolicyTypeOK, NEW db \in Databases
             PROVE  /\ \A category \in {"raw", "management"} : OnDatabase(db, category) # "refused" =>
                         \A n \in Namespaces :
                           n.db = db /\ OnCollection(n, "collection", category) = "refused" =>
                             Found(n) # {} /\ Misread(Candidates(n)[First(Found(n))])
                    /\ OnDatabase(db, "raw") = "refused" => OnClient = "refused"
  BY DEF PolicyConsistent, ScreeningAgrees
<1> DEFINE ofDb == {default} \cup {rules[k] : k \in {x \in DOMAIN rules : Concerns(x, db)}}
           all == {default} \cup {rules[k] : k \in DOMAIN rules}
<1>1. ofDb \subseteq Rules /\ all \subseteq Rules /\ ofDb \subseteq all
  BY DEF PolicyTypeOK
<1>2. ASSUME NEW category \in {"raw", "management"}, NEW n \in Namespaces, n.db = db,
             OnCollection(n, "collection", category) = "refused",
             Found(n) = {} \/ ~Misread(Candidates(n)[First(Found(n))])
      PROVE  OnDatabase(db, category) = "refused"
  <2>1. RuleFor(n) \in ofDb
    BY <1>2, RuleCounts
  <2>2. RuleFor(n) \in Rules /\ ~Allowed(RuleFor(n), "collection", category)
        /\ RuleFor(n).onViolation = "throw"
    BY <1>1, <1>2, <2>1 DEF OnCollection, Outcome, Rules
  <2> QED BY <1>1, <2>1, <2>2, RefusedIsClosed, OneDecides DEF OnDatabase
<1>3. ASSUME OnDatabase(db, "raw") = "refused" PROVE OnClient = "refused"
  <2>1. PICK r \in ofDb : Closes(r, "raw") /\ r.onViolation = "throw"
    BY <1>1, <1>3, DecidedBy DEF OnDatabase
  <2> QED BY <1>1, <2>1, OneDecides DEF OnClient
<1> QED BY <1>2, <1>3

\* Whatever is refused on a collection is refused on its database, and what is refused on
\* a database is refused on the client (assertWritePathAllowed, assertDbLevelWritePathAllowed,
\* assertClientLevelWritePathAllowed), but for keys that name a collection with a dot and no
\* database: for any databases, pools, collections and rules.
THEOREM PolicyAgrees == PolicySpec => []PolicyConsistent
BY TypedAgrees, PolicyTyped, PTL

(***************************************************************************)
(* The operations.  A call touches only what it asked the policy for, or   *)
(* what the screening of its database, or of the client, stands for.       *)
(***************************************************************************)
OperationIInv ==
  /\ OperationTypeOK /\ PathsObeyed
  /\ reply # "asked" => asked = {}   \* so that nothing is asked while a write of a model ends,
  /\ ~open => reply = "none"         \* nor while rules are added

\* A database and the client have no source of their own: what is refused to them is what
\* is refused to a collection.
LEMMA SourcesAlike ==
  ASSUME NEW n, NEW category, NEW source, source # "model"
  PROVE  OnCollection(n, source, category) = OnCollection(n, "collection", category)
BY DEF OnCollection, Allowed

\* What is refused raw on a collection is refused on the client, misread or not.
LEMMA ClientScreens ==
  ASSUME PolicyTypeOK, NEW n \in Namespaces, OnCollection(n, "collection", "raw") = "refused"
  PROVE  OnClient = "refused"
<1> DEFINE all == {default} \cup {rules[k] : k \in DOMAIN rules}
<1>1. all \subseteq Rules
  BY DEF PolicyTypeOK
<1>2. RuleFor(n) \in all
  <2>1. CASE Found(n) = {}
    BY <2>1 DEF RuleFor
  <2>2. CASE Found(n) # {}
    <3>1. Found(n) \subseteq 1..4
      BY DEF Found
    <3>2. \E i \in Found(n) : \A j \in Found(n) : i <= j
      BY <2>2, <3>1
    <3>3. First(Found(n)) \in Found(n)
      BY <3>2 DEF First
    <3> QED BY <2>2, <3>3 DEF RuleFor, Found
  <2> QED BY <2>1, <2>2
<1>3. RuleFor(n) \in Rules /\ ~Allowed(RuleFor(n), "collection", "raw")
      /\ RuleFor(n).onViolation = "throw"
  BY <1>1, <1>2 DEF OnCollection, Outcome, Rules
<1> QED BY <1>1, <1>2, <1>3, RefusedIsClosed, OneDecides DEF OnClient

\* A call keeps the invariant if what it touches, when it is not refused, is touched
\* by right.
LEMMA AnsweredKeeps ==
  ASSUME OperationIInv, NEW refused \in BOOLEAN, NEW sound \in BOOLEAN, NEW touches,
         Answered(refused, sound, touches), touches \subseteq Touches,
         ~refused => \A t \in touches :
           /\ OnCollection(t.on, t.source, t.category) = "refused" =>
                /\ t.path = "database" /\ Found(t.on) # {}
                /\ Misread(Candidates(t.on)[First(Found(t.on))])
           /\ t.source = "model" => t.path = "model" \/ (t.path = "accessor" /\ t.by \in inside)
  PROVE  OperationIInv'
<1>1. UNCHANGED <<default, rules, open, inside>>
  BY DEF Answered, policyVars
<1>2. asked' = {} \/ (~refused /\ asked' = touches)
  BY DEF Answered
<1>3. OperationTypeOK'
  <2>1. PolicyTypeOK'
    BY <1>1 DEF OperationIInv, OperationTypeOK, PolicyTypeOK
  <2>2. reply' \in {"none", "refused", "invalid", "asked"}
    BY DEF Answered
  <2> QED BY <1>1, <1>2, <2>1, <2>2 DEF OperationIInv, OperationTypeOK
<1>4. PathsObeyed'
  <2> SUFFICES ASSUME NEW t \in asked'
               PROVE  /\ OnCollection(t.on, t.source, t.category)' = "refused" =>
                           /\ t.path = "database" /\ Found(t.on)' # {}
                           /\ Misread(Candidates(t.on)[First(Found(t.on)')])
                      /\ t.source = "model" =>
                           t.path = "model" \/ (t.path = "accessor" /\ t.by \in inside')
    BY DEF PathsObeyed
  <2>1. t \in touches /\ ~refused
    BY <1>2
  <2>2. Found(t.on)' = Found(t.on)
    BY <1>1 DEF Found
  <2>3. OnCollection(t.on, t.source, t.category)' = OnCollection(t.on, t.source, t.category)
    BY <1>1, <2>2 DEF OnCollection, RuleFor
  <2> QED BY <1>1, <2>1, <2>2, <2>3
<1>5. open' /\ (reply' # "asked" => asked' = {})
  BY <1>1 DEF Answered
<1> QED BY <1>3, <1>4, <1>5 DEF OperationIInv

\* Whatever is named stays among the namespaces.
LEMMA TargetsAreNamespaces ==
  ASSUME NEW n \in Namespaces, NEW name \in Collections \cup {NoName},
         NEW db \in Databases \cup {NoName}
  PROVE  /\ Named(n, name) \in Namespaces /\ ManagementTargets(n, name) \subseteq Namespaces
         /\ WriteTarget(n, name, db) \subseteq Namespaces
BY DEF Named, ManagementTargets, WriteTarget, Namespaces

\* Calls that ask the policy for every collection they touch.
LEMMA CollectionsKeep ==
  ASSUME OperationIInv, NEW c \in Callers, NEW checked \in SUBSET Namespaces,
         NEW touched \in SUBSET checked, NEW source \in Sources, NEW category \in Categories,
         NEW path \in {"accessor", "model", "legacy"}, NEW sound \in BOOLEAN,
         source = "model" => path = "model" \/ (path = "accessor" /\ c \in inside),
         Answered(Refused(checked, source, category), sound,
                  Touching(touched, source, category, path, c))
  PROVE  OperationIInv'
<1> DEFINE touches == Touching(touched, source, category, path, c)
           refused == Refused(checked, source, category)
<1>1. touches \subseteq Touches
  BY DEF Touching, Touches, Paths
<1>2. refused \in BOOLEAN
  BY DEF Refused
<1>3. ASSUME ~refused, NEW t \in touches
      PROVE  /\ OnCollection(t.on, t.source, t.category) # "refused"
             /\ t.source = "model" => t.path = "model" \/ (t.path = "accessor" /\ t.by \in inside)
  <2>1. /\ t.on \in checked /\ t.source = source /\ t.category = category
        /\ t.path = path /\ t.by = c
    BY DEF Touching
  <2> QED BY <1>3, <2>1 DEF Refused
<1> HIDE DEF touches, refused
<1>4. Answered(refused, sound, touches)
  BY DEF touches, refused
<1> QED BY <1>1, <1>2, <1>3, <1>4, AnsweredKeeps

\* Operations of a collection, on behalf of whoever calls.
LEMMA AccessorKeeps ==
  ASSUME OperationIInv, NEW c \in Callers, NEW checked \in SUBSET Namespaces,
         NEW touched \in SUBSET checked, NEW category \in Categories, NEW sound \in BOOLEAN,
         ByAccessor(c, checked, category, sound, touched)
  PROVE  OperationIInv'
<1>1. Source(c) \in Sources /\ (Source(c) = "model" => c \in inside)
  BY DEF Source, Sources
<1> QED BY <1>1, CollectionsKeep DEF ByAccessor

\* Operations of a database, which asks for all of it.
LEMMA DatabaseKeeps ==
  ASSUME OperationIInv, NEW c \in Callers, NEW db \in Databases,
         NEW category \in {"raw", "management"}, NEW sound \in BOOLEAN,
         ByDatabase(c, db, category, sound)
  PROVE  OperationIInv'
<1> DEFINE touches == Touching(InDatabase(db), "db", category, "database", c)
           refused == OnDatabase(db, category) = "refused"
<1>1. touches \subseteq Touches
  BY DEF Touching, Touches, Paths, Sources, Categories, InDatabase
<1>2. ASSUME ~refused, NEW t \in touches
      PROVE  /\ OnCollection(t.on, t.source, t.category) = "refused" =>
                  /\ t.path = "database" /\ Found(t.on) # {}
                  /\ Misread(Candidates(t.on)[First(Found(t.on))])
             /\ t.source # "model"
  <2>1. /\ t.on \in Namespaces /\ t.on.db = db /\ t.source = "db" /\ t.category = category
        /\ t.path = "database"
    BY DEF Touching, InDatabase
  <2>2. OnCollection(t.on, "db", category) = OnCollection(t.on, "collection", category)
    BY SourcesAlike
  <2>3. PolicyConsistent
    BY TypedAgrees DEF OperationIInv, OperationTypeOK
  <2> QED BY <1>2, <2>1, <2>2, <2>3 DEF PolicyConsistent, ScreeningAgrees
<1> HIDE DEF touches, refused
<1>3. Answered(refused, sound, touches) /\ refused \in BOOLEAN
  BY DEF ByDatabase, touches, refused
<1> QED BY <1>1, <1>2, <1>3, AnsweredKeeps

\* And of the client, which asks for everything.
LEMMA ClientKeeps ==
  ASSUME OperationIInv, NEW c \in Callers, ClientAccess(c)
  PROVE  OperationIInv'
<1> DEFINE touches == Touching(Namespaces, "client", "raw", "client", c)
           refused == OnClient = "refused"
<1>1. touches \subseteq Touches
  BY DEF Touching, Touches, Paths, Sources, Categories
<1>2. ASSUME ~refused, NEW t \in touches
      PROVE  OnCollection(t.on, t.source, t.category) # "refused" /\ t.source # "model"
  <2>1. t.on \in Namespaces /\ t.source = "client" /\ t.category = "raw"
    BY DEF Touching
  <2>2. OnCollection(t.on, "client", "raw") = OnCollection(t.on, "collection", "raw")
    BY SourcesAlike
  <2> QED BY <1>2, <2>1, <2>2, ClientScreens DEF OperationIInv, OperationTypeOK
<1> HIDE DEF touches, refused
<1>3. Answered(refused, TRUE, touches) /\ refused \in BOOLEAN
  BY DEF ClientAccess, touches, refused
<1> QED BY <1>1, <1>2, <1>3, AnsweredKeeps

\* Every operation on a namespace.
LEMMA NamespaceKeeps ==
  ASSUME OperationIInv, NEW c \in Callers, NEW n \in Namespaces, OnNamespace(c, n)
  PROVE  OperationIInv'
<1>1. ASSUME NEW category \in Categories, NEW sound \in BOOLEAN,
             ByAccessor(c, {n}, category, sound, {n})
      PROVE  OperationIInv'
  BY <1>1, AccessorKeeps
<1>2. CASE Raw(c, n) \/ Write(c, n) \/ BatchWrite(c, n) \/ IndexWrite(c, n)
           \/ SearchIndexWrite(c, n) \/ Drop(c, n) \/ Modify(c, n)
  BY <1>1, <1>2 DEF Raw, Write, BatchWrite, IndexWrite, CreateIndexes, DropIndexes,
     SearchIndexWrite, Drop, Modify, SetValidator, CollMod, ConvertToCapped, Categories
<1>3. CASE Aggregate(c, n)
  <2>1. PICK into \in Collections \cup {NoName}, db \in Databases \cup {NoName} :
          ByAccessor(c, WriteTarget(n, into, db), "write", TRUE, WriteTarget(n, into, db))
    BY <1>3 DEF Aggregate
  <2> QED BY <2>1, TargetsAreNamespaces, AccessorKeeps DEF Categories
<1>4. ASSUME NEW name \in Collections \cup {NoName},
             Create(c, n, name) \/ CreateView(c, n, name) \/ Rename(c, n, name)
      PROVE  OperationIInv'
  <2>1. \A touched \in SUBSET ManagementTargets(n, name), sound \in BOOLEAN :
          ByAccessor(c, ManagementTargets(n, name), "management", sound, touched) => OperationIInv'
    BY TargetsAreNamespaces, AccessorKeeps DEF Categories
  <2>2. {Named(n, name)} \subseteq ManagementTargets(n, name)
        /\ {n, Named(n, name)} \subseteq ManagementTargets(n, name)
    BY DEF ManagementTargets
  <2> QED BY <1>4, <2>1, <2>2 DEF Create, CreateView, Rename
<1>5. ASSUME NEW name \in Collections \cup {NoName}, ModelManages(c, n, name)
      PROVE  OperationIInv'
  BY <1>5, TargetsAreNamespaces, CollectionsKeep DEF ModelManages, Categories, Sources
<1>6. CASE ModelAggregates(c, n)
  BY <1>6, TargetsAreNamespaces, CollectionsKeep DEF ModelAggregates, Categories, Sources
<1>7. CASE LegacyWrite(c, n) \/ LegacyDrop(c, n)
  BY <1>7, CollectionsKeep DEF LegacyWrite, LegacyDrop, ByLegacy, Categories, Sources
<1>8. CASE LegacyAggregate(c, n)
  <2>1. PICK into \in Collections \cup {NoName}, db \in Databases \cup {NoName} :
          ByLegacy(c, WriteTarget(n, into, db), "write")
    BY <1>8 DEF LegacyAggregate
  <2>2. WriteTarget(n, into, db) \in SUBSET Namespaces
    BY TargetsAreNamespaces
  <2> QED BY <2>1, <2>2, CollectionsKeep DEF ByLegacy, Categories, Sources
<1> QED BY <1>2, <1>3, <1>4, <1>5, <1>6, <1>7, <1>8 DEF OnNamespace

\* A collection accessor, a model, the bridge, a database and the client touch nothing that
\* the policy refuses to whom they act for, and nobody passes for a model that no model
\* write runs for (assertWritePath, assertManagementWriteTargets, resolveAggregateWriteTarget,
\* assertDbWritePath, runWithModelWriteSource): for any callers, names and rules.
THEOREM OperationsObey == OperationSpec => []PolicyHolds
<1>1. OperationInit => OperationIInv
  BY PolicyAssumption DEF OperationInit, PolicyInit, OperationIInv, OperationTypeOK, PolicyTypeOK,
     PathsObeyed
<1>2. OperationIInv /\ [OperationNext]_<<policyVars, operationVars>> => OperationIInv'
  <2> SUFFICES ASSUME OperationIInv, [OperationNext]_<<policyVars, operationVars>>
               PROVE  OperationIInv'
    OBVIOUS
  <2>1. CASE UNCHANGED <<policyVars, operationVars>>
    BY <2>1 DEF policyVars, operationVars, OperationIInv, OperationTypeOK, PolicyTypeOK, PathsObeyed,
       OnCollection, RuleFor, Found
  <2>2. CASE Normalise
    <3>1. asked' = {} /\ UNCHANGED <<open, inside, reply>> /\ ~open /\ PolicyTypeOK'
      <4>1. PICK k \in Keys, rule \in RulesGiven : AddRule(k, rule)
        BY <2>2 DEF Normalise, PolicyNext
      <4>2. PolicyTypeOK'
        BY <4>1, PolicyAssumption DEF OperationIInv, OperationTypeOK, AddRule, PolicyTypeOK
      <4> QED BY <2>2, <4>2 DEF Normalise, operationVars, OperationIInv
    <3> QED BY <3>1 DEF OperationIInv, OperationTypeOK, PathsObeyed
  <2>3. CASE Construct
    BY <2>3 DEF Construct, policyVars, OperationIInv, OperationTypeOK, PolicyTypeOK, PathsObeyed
  <2>4. CASE Return
    BY <2>4 DEF Return, policyVars, OperationIInv, OperationTypeOK, PolicyTypeOK, PathsObeyed
  <2>5. CASE BridgeInvalid
    BY <2>5 DEF BridgeInvalid, policyVars, OperationIInv, OperationTypeOK, PolicyTypeOK, PathsObeyed
  <2>6. ASSUME NEW c \in Callers, EnterModel(c) \/ LeaveModel(c) PROVE OperationIInv'
    BY <2>6 DEF EnterModel, LeaveModel, policyVars, OperationIInv, OperationTypeOK, PolicyTypeOK,
       PathsObeyed
  <2>7. ASSUME NEW c \in Callers, NEW db \in Databases,
               DbRaw(c, db) \/ RunCommand(c, db) \/ DropDatabase(c, db)
        PROVE  OperationIInv'
    <3>1. PICK category \in {"raw", "management"}, sound \in BOOLEAN :
            ByDatabase(c, db, category, sound)
      BY <2>7 DEF DbRaw, RunCommand, DropDatabase
    <3> QED BY <3>1, DatabaseKeeps
  <2> QED BY <2>1, <2>2, <2>3, <2>4, <2>5, <2>6, <2>7, ClientKeeps, NamespaceKeeps
     DEF OperationNext, Called
<1>3. OperationIInv => PolicyHolds
  BY TypedAgrees DEF OperationIInv, OperationTypeOK, PolicyHolds
<1> QED BY <1>1, <1>2, <1>3, PTL DEF OperationSpec

=============================================================================
