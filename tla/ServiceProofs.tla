---------------------------- MODULE ServiceProofs ----------------------------
(***************************************************************************)
(* For any number of steps and retries, a saga reports what it has done;   *)
(* for any calls on a resumable upload, what is visible is whole and what  *)
(* was acknowledged is stored; for any calls of start() and stop(), targets *)
(* and crashes, synchronization loses no connection and skips no event.    *)
(***************************************************************************)
EXTENDS Saga, ResumableUpload, ChangeStreamSync, WellFoundedInduction, TLAPS

(***************************************************************************)
(* Every set of numbers that is not empty has a least element.             *)
(***************************************************************************)
LEMMA LessWellFounded == IsWellFoundedOn({ss \in Nat \X Nat : ss[1] < ss[2]}, Nat)
  BY Zenon, NatLessThanWellFounded DEF OpToRel

\* A set of numbers that is not empty has a least one.
LEMMA Least ==
  ASSUME NEW S, S \subseteq Nat, S # {}
  PROVE  \E n \in S : \A k \in S : n <= k
<1>1. PICK n \in S : \A k \in S : ~(<<k, n>> \in {ss \in Nat \X Nat : ss[1] < ss[2]})
  BY LessWellFounded, WFMin
<1>2. ASSUME NEW k \in S PROVE n <= k
  <2>1. ~(<<k, n>> \in {ss \in Nat \X Nat : ss[1] < ss[2]})
    BY <1>1
  <2>2. k \in Nat /\ n \in Nat
    OBVIOUS
  <2> QED
    BY <2>1, <2>2
<1> QED
  BY <1>2

(***************************************************************************)
(* Saga.  The steps before the present one have taken effect once, and     *)
(* those after it not at all; once one has failed for good, only that one  *)
(* may have an execution under way.                                        *)
(***************************************************************************)
Untouched(s) == effects[s] = 0 /\ late[s] = 0

Executing ==
  /\ step \in 1..Steps /\ completed = step - 1
  /\ \A s \in 1..Steps : /\ outcome[s] = "none"
                         /\ s < step => effects[s] = 1 /\ late[s] = 0
                         /\ s >= step => Untouched(s)

\* The compensation has come down to step.
Compensating ==
  /\ completed < Steps /\ step <= completed
  /\ \A s \in 1..Steps :
       /\ s <= completed => late[s] = 0
       /\ s <= step => effects[s] = 1 /\ outcome[s] = "none"
       /\ s > step /\ s <= completed =>
            /\ effects[s] = IF outcome[s] = "undone" THEN 0 ELSE 1
            /\ outcome[s] # "none" /\ (outcome[s] = "no_compensate" <=> s \notin Compensable)
       /\ s = completed + 1 => effects[s] + late[s] <= 1
       /\ s > completed + 1 => Untouched(s)

SagaIInv ==
  /\ SagaTypeOK
  /\ sagaAt = "execute" => Executing
  /\ sagaAt = "success" => \A s \in 1..Steps : effects[s] = 1 /\ late[s] = 0
  /\ sagaAt \in {"compensate", "failure"} => Compensating
  /\ sagaAt = "failure" => step = 0

\* A saga has done nothing at first.
LEMMA SagaStarts == SagaInit => SagaIInv
<1> SUFFICES ASSUME SagaInit PROVE SagaIInv
  OBVIOUS
<1>1. SagaTypeOK
  BY SagaAssumption DEF SagaInit, SagaTypeOK
<1> QED
  BY <1>1, SagaAssumption DEF SagaInit, SagaIInv, Executing, Untouched

\* The step that fails for good has no effect yet, and at most one execution
\* is under way: that of the timeout.
LEMMA SagaGivesUp ==
  ASSUME SagaIInv, sagaAt = "execute", Compensate, UNCHANGED <<completed, effects, outcome>>,
         late' = late \/ late' = [late EXCEPT ![step] = @ + 1]
  PROVE  SagaIInv'
<1>1. /\ step \in 1..Steps /\ step \in Nat /\ completed = step - 1 /\ sagaAt' = "compensate"
      /\ step' = completed /\ attempt' = attempt /\ late[step] = 0 /\ Steps \in Nat
      /\ late \in [1..Steps -> Nat]
  BY SagaAssumption DEF SagaIInv, SagaTypeOK, Executing, Untouched, Compensate
<1>2. /\ late' \in [1..Steps -> Nat] /\ late'[step] <= 1
      /\ \A s \in 1..Steps : s # step => late'[s] = late[s]
  BY <1>1
<1>3. SagaTypeOK'
  BY <1>1, <1>2 DEF SagaIInv, SagaTypeOK
<1>4. Compensating'
  BY <1>1, <1>2 DEF SagaIInv, SagaTypeOK, Executing, Compensating, Untouched
<1> QED
  BY <1>1, <1>3, <1>4 DEF SagaIInv

\* A step that is tried again.
LEMMA SagaRetries ==
  ASSUME SagaIInv, sagaAt = "execute", attempt' = attempt + 1,
         UNCHANGED <<sagaAt, step, completed, late, effects, outcome>>
  PROVE  SagaIInv'
  BY DEF SagaIInv, SagaTypeOK, Executing, Untouched

\* Every step of a saga keeps the invariant.
LEMMA SagaStepKeeps == SagaIInv /\ [SagaNext]_sagaVars => SagaIInv'
<1> SUFFICES ASSUME SagaIInv, [SagaNext]_sagaVars PROVE SagaIInv'
  OBVIOUS
<1>1. /\ Steps \in Nat /\ Steps >= 1 /\ step \in Nat /\ completed \in Nat /\ attempt \in Nat
      /\ late \in [1..Steps -> Nat] /\ effects \in [1..Steps -> Nat]
      /\ outcome \in [1..Steps -> {"none", "undone", "failed", "no_compensate"}]
  BY SagaAssumption DEF SagaIInv, SagaTypeOK
<1>2. CASE StepSucceeds
  <2>1. /\ sagaAt = "execute" /\ step \in 1..Steps /\ completed = step - 1 /\ completed' = step
        /\ effects' = [effects EXCEPT ![step] = @ + 1] /\ UNCHANGED <<late, outcome>>
        /\ effects[step] = 0
    BY <1>2 DEF StepSucceeds, SagaIInv, Executing, Untouched
  <2>2. /\ effects' \in [1..Steps -> Nat] /\ effects'[step] = 1
        /\ \A s \in 1..Steps : s # step => effects'[s] = effects[s]
    BY <1>1, <2>1
  <2>3. CASE step = Steps
    <3>1. sagaAt' = "success" /\ UNCHANGED <<step, attempt>>
      BY <1>2, <2>3 DEF StepSucceeds
    <3> QED
      BY <1>1, <2>1, <2>2, <2>3, <3>1 DEF SagaIInv, SagaTypeOK, Executing, Untouched
  <2>4. CASE step # Steps
    <3>1. sagaAt' = "execute" /\ step' = step + 1 /\ attempt' = 0
      BY <1>2, <2>1, <2>4 DEF StepSucceeds
    <3>2. Executing'
      BY <1>1, <2>1, <2>2, <2>4, <3>1 DEF SagaIInv, Executing, Untouched
    <3> QED
      BY <1>1, <2>1, <2>2, <2>4, <3>1, <3>2 DEF SagaIInv, SagaTypeOK
  <2> QED
    BY <2>3, <2>4
<1>3. CASE StepRejects
  <2>1. CASE attempt >= Retries[step]
    BY <1>3, <2>1, SagaGivesUp DEF StepRejects
  <2>2. CASE ~(attempt >= Retries[step])
    BY <1>3, <2>2, SagaRetries DEF StepRejects
  <2> QED
    BY <2>1, <2>2
<1>4. CASE StepTimesOut
  BY <1>4, SagaGivesUp DEF StepTimesOut
<1>5. ASSUME NEW s \in 1..Steps, LateExecution(s) PROVE SagaIInv'
  <2>1. PICK took \in {0, 1} : effects' = [effects EXCEPT ![s] = @ + took]
    BY <1>5 DEF LateExecution
  <2>2. /\ late[s] > 0 /\ late' = [late EXCEPT ![s] = @ - 1]
        /\ UNCHANGED <<sagaAt, step, attempt, completed, outcome>>
    BY <1>5 DEF LateExecution
  <2>3. /\ sagaAt \in {"compensate", "failure"} /\ Compensating /\ s = completed + 1
        /\ effects[s] + late[s] <= 1
    BY <1>1, <2>2 DEF SagaIInv, SagaTypeOK, Executing, Compensating, Untouched
  <2>4. /\ late' \in [1..Steps -> Nat] /\ effects' \in [1..Steps -> Nat]
        /\ effects'[s] + late'[s] <= 1
        /\ \A t \in 1..Steps : t # s => effects'[t] = effects[t] /\ late'[t] = late[t]
    <3>1. /\ effects'[s] = effects[s] + took /\ late'[s] = late[s] - 1
          /\ took \in {0, 1} /\ effects[s] \in Nat /\ late[s] \in Nat
          /\ \A t \in 1..Steps : t # s => effects'[t] = effects[t] /\ late'[t] = late[t]
      BY <1>1, <2>1, <2>2
    <3>2. effects[s] + took \in Nat /\ late[s] - 1 \in Nat
      BY <3>1, <2>2
    <3>3. late' \in [1..Steps -> Nat] /\ effects' \in [1..Steps -> Nat]
      BY <1>1, <2>1, <2>2, <3>2
    <3>4. took <= 1 /\ took \in Nat /\ late[s] > 0 /\ effects[s] + late[s] <= 1
      BY <2>2, <2>3, <3>1
    <3>5. effects'[s] + late'[s] <= 1
      BY <3>1, <3>4
    <3> QED
      BY <3>1, <3>3, <3>5
  <2>5. Compensating'
    BY <1>1, <2>2, <2>3, <2>4 DEF Compensating, Untouched
  <2>6. SagaTypeOK'
    BY <2>2, <2>4 DEF SagaIInv, SagaTypeOK
  <2> QED
    BY <2>2, <2>3, <2>5, <2>6 DEF SagaIInv
<1>6. CASE CompensateStep
  <2>1. PICK how \in IF step \in Compensable THEN {"undone", "failed"} ELSE {"no_compensate"} :
          /\ outcome' = [outcome EXCEPT ![step] = how]
          /\ effects' = IF how = "undone" THEN [effects EXCEPT ![step] = @ - 1] ELSE effects
    BY <1>6 DEF CompensateStep
  <2>2. /\ sagaAt = "compensate" /\ step > 0 /\ step' = step - 1 /\ Compensating
        /\ UNCHANGED <<sagaAt, attempt, completed, late>>
    BY <1>6 DEF CompensateStep, SagaIInv
  <2>3. /\ step \in 1..Steps /\ effects[step] = 1
        /\ how \in {"undone", "failed", "no_compensate"}
        /\ how = "no_compensate" <=> step \notin Compensable
    BY <1>1, <2>1, <2>2 DEF Compensating
  <2>4. /\ outcome' \in [1..Steps -> {"none", "undone", "failed", "no_compensate"}]
        /\ effects' \in [1..Steps -> Nat] /\ outcome'[step] = how
        /\ effects'[step] = IF how = "undone" THEN 0 ELSE 1
        /\ \A s \in 1..Steps : s # step => effects'[s] = effects[s] /\ outcome'[s] = outcome[s]
    BY <1>1, <2>1, <2>3
  <2>5. Compensating'
    BY <1>1, <2>2, <2>3, <2>4 DEF Compensating, Untouched
  <2>6. SagaTypeOK'
    BY <1>1, <2>2, <2>3, <2>4 DEF SagaIInv, SagaTypeOK
  <2> QED
    BY <2>2, <2>5, <2>6 DEF SagaIInv
<1>7. CASE CompensationEnds
  BY <1>7 DEF CompensationEnds, SagaIInv, SagaTypeOK, Compensating, Untouched
<1>8. CASE UNCHANGED sagaVars
  BY <1>8 DEF sagaVars, SagaIInv, SagaTypeOK, Executing, Compensating, Untouched
<1> QED
  BY <1>2, <1>3, <1>4, <1>5, <1>6, <1>7, <1>8 DEF SagaNext

(* For any steps, retries and compensations: no step takes effect twice,    *)
(* and when a saga reports a failure what remains of it is what the         *)
(* compensation results say.                                                *)
THEOREM SagaTellsTruth == SagaSpec => []SagaAccounted
<1>1. SagaIInv => SagaAccounted
  <2> SUFFICES ASSUME SagaIInv PROVE SagaAccounted
    OBVIOUS
  <2>1. /\ Steps \in Nat /\ step \in Nat /\ completed \in Nat
        /\ late \in [1..Steps -> Nat] /\ effects \in [1..Steps -> Nat] /\ SagaTypeOK
        /\ sagaAt \in {"execute", "compensate", "success", "failure"}
    BY SagaAssumption DEF SagaIInv, SagaTypeOK
  <2>2. EffectsOnce
    BY <2>1 DEF SagaIInv, EffectsOnce, Executing, Compensating, Untouched
  <2>3. FailureAccounted
    BY <2>1 DEF SagaIInv, FailureAccounted, Compensating, Untouched
  <2> QED
    BY <2>1, <2>2, <2>3 DEF SagaAccounted
<1> QED
  BY <1>1, SagaStarts, SagaStepKeeps, PTL DEF SagaSpec

-----------------------------------------------------------------------------
(***************************************************************************)
(* Resumable upload.  An append that writes has stored what it has passed, *)
(* behind a prefix without a hole.  Where no abort overlaps a finalize, the*)
(* chunks a finalize has read stay until the file is visible, and an abort *)
(* that is about to clear them has seen no file.                           *)
(***************************************************************************)
UploadCalls == Begins \cup Appends \cup Finalizes \cup Aborts
Places == {"idle", "pending", "write", "unseen", "read", "clear", "drop", "done", "failed"}
AllGood == \A i \in Index : stored[i] = "good"

\* What append a has passed is stored as it sent it, after a prefix.
HasStored(a) == /\ \A i \in FromOf[a]..(pos[a] - 1) : stored[i] = BytesOf(a)
                /\ \A i \in 0..(prefix[a] - 1) : stored[i] # "none"

Writers == \A a \in Appends :
  /\ pos[a] \in FromOf[a]..(LastOf(a) + 1)
  /\ uploading[a] \in {"idle", "pending"} => pos[a] = FromOf[a]
  /\ uploading[a] \in {"write", "done"} /\ a \notin cleared => HasStored(a)
  /\ uploading[a] = "write" /\ a \notin cleared => FromOf[a] <= prefix[a]
  /\ uploading[a] = "done" /\ a \notin cleared => pos[a] > LastOf(a) /\ prefix[a] > LastOf(a)

Apart == /\ ~(Finalizing /\ Aborting)
         /\ \A b \in Aborts : uploading[b] = "clear" => ~visible
         /\ \A f \in Finalizes : uploading[f] = "read" => AllGood
         /\ visible => AllGood

UploadIInv == UploadTypeOK /\ Writers /\ (~MayOverlap => Apart)

\* What is assumed of the chunks and of the calls.
LEMMA UploadNumbers ==
  /\ Chunks \in Nat /\ Chunks >= 1
  /\ \A a \in Appends :
       /\ FromOf[a] \in Nat /\ CountOf[a] \in Nat /\ CountOf[a] >= 1
       /\ FromOf[a] + CountOf[a] <= Chunks /\ LastOf(a) = FromOf[a] + CountOf[a] - 1
       /\ LastOf(a) \in Nat /\ LastOf(a) \in Index /\ BytesOf(a) \in {"good", "bad"}
  BY UploadAssumption DEF LastOf, Index, BytesOf

\* The contiguous prefix ends at the first chunk that is missing.
LEMMA PrefixIs ==
  ASSUME UploadTypeOK
  PROVE  /\ Contiguous \in 0..Chunks
         /\ \A i \in 0..(Contiguous - 1) : stored[i] # "none"
         /\ Contiguous = Chunks \/ stored[Contiguous] = "none"
<1> DEFINE Holes == {n \in 0..Chunks : n = Chunks \/ stored[n] = "none"}
<1>1. Holes \subseteq Nat /\ Holes # {}
  BY UploadNumbers
<1>2. PICK n \in Holes : \A k \in Holes : n <= k
  BY <1>1, Least
<1>3. n \in 0..Chunks /\ \A i \in 0..(n - 1) : stored[i] # "none"
  <2>1. n \in 0..Chunks /\ Chunks \in Nat
    BY UploadNumbers
  <2>2. ASSUME NEW i \in 0..(n - 1), stored[i] = "none" PROVE FALSE
    <3>1. i \in 0..Chunks /\ i < n
      BY <2>1
    <3>2. i \in Holes
      BY <2>2, <3>1
    <3> QED
      BY <1>2, <2>1, <3>1, <3>2
  <2> QED
    BY <2>1, <2>2
<1> DEFINE Ends(k) == /\ \A i \in 0..(k - 1) : stored[i] # "none"
                      /\ k = Chunks \/ stored[k] = "none"
<1>4. \E k \in 0..Chunks : Ends(k)
  BY <1>3
<1>5. Contiguous = CHOOSE k \in 0..Chunks : Ends(k)
  BY DEF Contiguous
<1> HIDE DEF Ends
<1>6. Contiguous \in 0..Chunks /\ Ends(Contiguous)
  BY <1>4, <1>5
<1> QED
  BY <1>6 DEF Ends

\* A step moves the call that makes it.
LEMMA Moves ==
  ASSUME UploadTypeOK, NEW c \in UploadCalls, NEW from, NEW to \in Places, At(c, from, to)
  PROVE  /\ uploading \in [UploadCalls -> Places] /\ uploading' \in [UploadCalls -> Places]
         /\ uploading[c] = from /\ uploading'[c] = to
         /\ \A d \in UploadCalls : d # c => uploading'[d] = uploading[d]
  BY DEF UploadTypeOK, UploadCalls, Places, At

\* The calls of one kind are none of another.
LEMMA Kinds ==
  /\ Begins \subseteq UploadCalls /\ Appends \subseteq UploadCalls /\ Finalizes \subseteq UploadCalls
  /\ Aborts \subseteq UploadCalls
  /\ \A c \in Begins : c \notin Appends /\ c \notin Finalizes /\ c \notin Aborts
  /\ \A c \in Appends : c \notin Finalizes /\ c \notin Aborts
  /\ \A c \in Finalizes : c \notin Appends /\ c \notin Aborts
  /\ \A c \in Aborts : c \notin Appends /\ c \notin Finalizes
  BY UploadAssumption DEF UploadCalls

\* No finalize or abort moves and no chunk that is stored changes.
LEMMA ApartKeeps ==
  ASSUME UploadTypeOK, Apart, visible' = visible,
         \A c \in Finalizes \cup Aborts : uploading'[c] = uploading[c],
         \A i \in Index : stored[i] # "none" => stored'[i] = stored[i]
  PROVE  Apart'
<1>1. Finalizing' = Finalizing /\ Aborting' = Aborting /\ (AllGood => AllGood')
  BY DEF Finalizing, Aborting, AllGood
<1> QED
  BY <1>1 DEF Apart

\* No append moves and no chunk changes.
LEMMA WritersKeep ==
  ASSUME Writers, UNCHANGED <<stored, prefix, pos, cleared>>,
         \A a \in Appends : uploading'[a] = uploading[a]
  PROVE  Writers'
  BY DEF Writers, HasStored, BytesOf, LastOf

\* There is neither file nor chunk at first.
LEMMA UploadStarts == UploadInit => UploadIInv
<1> SUFFICES ASSUME UploadInit PROVE UploadIInv
  OBVIOUS
<1>1. FromOf \in [Appends -> 0..Chunks] /\ 0 \in 0..Chunks
  BY UploadNumbers, UploadAssumption
<1>2. UploadTypeOK
  <2>1. session \in BOOLEAN /\ visible \in BOOLEAN
    BY Zenon DEF UploadInit
  <2> QED
    BY <1>1, <2>1 DEF UploadInit, UploadTypeOK
<1>3. \A c \in UploadCalls : uploading[c] = "idle"
  BY DEF UploadInit, UploadCalls
<1>4. Writers
  BY <1>3, UploadNumbers, Kinds DEF UploadInit, Writers
<1>5. Apart
  BY <1>3, Kinds DEF UploadInit, Apart, Finalizing, Aborting
<1> QED
  BY <1>2, <1>4, <1>5 DEF UploadIInv

\* A step of one call that leaves chunks, file and appends alone, where no
\* finalize or abort gets where Apart looks.
LEMMA OtherKeeps ==
  ASSUME UploadIInv, session' \in BOOLEAN, UNCHANGED <<stored, visible, prefix, pos, cleared>>,
         NEW b \in Begins, NEW from, NEW to \in Places, At(b, from, to)
  PROVE  UploadIInv'
<1>1. /\ uploading' \in [UploadCalls -> Places]
      /\ \A c \in Appends \cup Finalizes \cup Aborts : uploading'[c] = uploading[c]
  BY Moves, Kinds DEF UploadIInv
<1>2. UploadTypeOK'
  BY <1>1 DEF UploadIInv, UploadTypeOK, UploadCalls, Places
<1>3. Writers'
  BY <1>1, WritersKeep DEF UploadIInv
<1>4. ~MayOverlap => Apart'
  BY <1>1, ApartKeeps DEF UploadIInv
<1> QED
  BY <1>2, <1>3, <1>4 DEF UploadIInv

\* The steps of appendChunks.
LEMMA AppendKeeps ==
  ASSUME UploadIInv, NEW a \in Appends,
         AppendCall(a) \/ AppendPlanned(a) \/ AppendWrites(a) \/ AppendEnds(a)
  PROVE  UploadIInv'
<1>1. /\ pos[a] \in 0..Chunks /\ pos[a] \in Nat /\ prefix[a] \in Nat /\ Chunks \in Nat
      /\ FromOf[a] \in Nat /\ LastOf(a) \in Nat /\ LastOf(a) < Chunks
      /\ pos[a] >= FromOf[a] /\ pos[a] <= LastOf(a) + 1
      /\ BytesOf(a) \in {"good", "bad"} /\ BytesOf(a) # "none"
      /\ stored \in [Index -> {"none", "good", "bad"}]
      /\ pos \in [Appends -> 0..Chunks] /\ prefix \in [Appends -> 0..Chunks]
  BY UploadNumbers DEF UploadIInv, UploadTypeOK, Writers, Index
<1>2. /\ session' = session /\ visible' = visible /\ cleared' = cleared
  BY DEF AppendCall, AppendPlanned, AppendWrites, AppendEnds
<1>3. /\ uploading' \in [UploadCalls -> Places]
      /\ \A c \in UploadCalls : c # a => uploading'[c] = uploading[c]
  <2>1. CASE AppendWrites(a) /\ UNCHANGED uploading
    BY <2>1 DEF UploadIInv, UploadTypeOK, UploadCalls, Places
  <2>2. CASE ~(AppendWrites(a) /\ UNCHANGED uploading)
    <3>1. \E from, to \in Places : At(a, from, to)
      BY <2>2 DEF AppendCall, AppendPlanned, AppendWrites, AppendEnds, Places
    <3> QED
      BY <3>1, Moves, Kinds DEF UploadIInv
  <2> QED
    BY <2>1, <2>2
<1>4. /\ stored' \in [Index -> {"none", "good", "bad"}]
      /\ \A i \in Index : stored[i] # "none" => stored'[i] = stored[i]
  <2>1. CASE UNCHANGED stored
    BY <1>1, <2>1
  <2>2. CASE ~UNCHANGED stored
    <3>1. /\ stored[pos[a]] = "none" /\ stored' = [stored EXCEPT ![pos[a]] = BytesOf(a)]
      BY <2>2 DEF AppendCall, AppendPlanned, AppendWrites, AppendEnds
    <3> QED
      BY <1>1, <3>1
  <2> QED
    BY <2>1, <2>2
<1>5. \A c \in Finalizes \cup Aborts : uploading'[c] = uploading[c]
  BY <1>3, Kinds
<1>6. ~MayOverlap => Apart'
  BY <1>2, <1>4, <1>5, ApartKeeps DEF UploadIInv
<1>7. \A b \in Appends : b # a => uploading'[b] = uploading[b]
  BY <1>3, Kinds
\* What other appends have stored stays.
<1>8. ASSUME pos' \in [Appends -> 0..Chunks], prefix' \in [Appends -> 0..Chunks],
             \A b \in Appends : b # a => pos'[b] = pos[b] /\ prefix'[b] = prefix[b],
             /\ pos'[a] \in FromOf[a]..(LastOf(a) + 1)
             /\ uploading'[a] \in {"idle", "pending"} => pos'[a] = FromOf[a]
             /\ uploading'[a] \in {"write", "done"} /\ a \notin cleared => HasStored(a)'
             /\ uploading'[a] = "write" /\ a \notin cleared => FromOf[a] <= prefix'[a]
             /\ uploading'[a] = "done" /\ a \notin cleared => pos'[a] > LastOf(a) /\ prefix'[a] > LastOf(a)
      PROVE  UploadIInv'
  <2>1. UploadTypeOK'
    BY <1>2, <1>3, <1>4, <1>8 DEF UploadIInv, UploadTypeOK, UploadCalls, Places
  <2>2. ASSUME NEW b \in Appends, b # a
        PROVE  /\ pos'[b] \in FromOf[b]..(LastOf(b) + 1)
               /\ uploading'[b] \in {"idle", "pending"} => pos'[b] = FromOf[b]
               /\ uploading'[b] \in {"write", "done"} /\ b \notin cleared' => HasStored(b)'
               /\ uploading'[b] = "write" /\ b \notin cleared' => FromOf[b] <= prefix'[b]
               /\ uploading'[b] = "done" /\ b \notin cleared' => pos'[b] > LastOf(b) /\ prefix'[b] > LastOf(b)
    <3>1. /\ pos'[b] = pos[b] /\ prefix'[b] = prefix[b] /\ uploading'[b] = uploading[b]
          /\ pos[b] \in Nat /\ prefix[b] \in 0..Chunks
          /\ pos[b] <= Chunks /\ FromOf[b] \in Nat /\ BytesOf(b) # "none"
      BY <1>7, <1>8, <2>2, UploadNumbers DEF UploadIInv, UploadTypeOK
    <3>2. HasStored(b) => HasStored(b)'
      BY <1>1, <1>4, <3>1 DEF HasStored, Index, BytesOf
    <3> QED
      BY <1>2, <2>2, <3>1, <3>2 DEF UploadIInv, Writers
  <2>3. Writers'
    BY <1>2, <1>8, <2>2 DEF Writers, LastOf
  <2> QED
    BY <1>6, <2>1, <2>3 DEF UploadIInv
<1>9. a \in UploadCalls /\ uploading[a] \in Places /\ uploading \in [UploadCalls -> Places]
  BY Kinds DEF UploadIInv, UploadTypeOK, UploadCalls, Places
<1>10. CASE AppendCall(a)
  <2>1. /\ uploading[a] = "idle" /\ uploading'[a] \in {"pending", "failed"}
        /\ UNCHANGED <<pos, prefix>>
    BY <1>9, <1>10 DEF AppendCall, At
  <2>2. pos[a] = FromOf[a]
    BY <2>1 DEF UploadIInv, Writers
  <2> QED
    BY <1>1, <1>8, <2>1, <2>2
<1>11. CASE AppendPlanned(a)
  <2>1. /\ uploading[a] = "pending" /\ UNCHANGED <<pos, stored>>
        /\ prefix' = [prefix EXCEPT ![a] = Contiguous]
        /\ uploading'[a] \in {"failed", "write"}
        /\ uploading'[a] = "write" => FromOf[a] <= Contiguous
    <3>1. FromOf[a] > Contiguous \/ FromOf[a] <= Contiguous
      BY <1>1, PrefixIs DEF UploadIInv
    <3> QED
      BY <1>9, <1>11, <3>1 DEF AppendPlanned, At
  <2>2. /\ pos[a] = FromOf[a] /\ prefix' \in [Appends -> 0..Chunks] /\ prefix'[a] = Contiguous
        /\ \A b \in Appends : b # a => prefix'[b] = prefix[b]
        /\ \A i \in 0..(Contiguous - 1) : stored[i] # "none"
    BY <1>1, <2>1, PrefixIs DEF UploadIInv, Writers
  <2>3. HasStored(a)'
    BY <1>1, <2>1, <2>2 DEF HasStored
  <2> QED
    BY <1>1, <1>8, <2>1, <2>2, <2>3
<1>12. CASE AppendWrites(a)
  <2>1. /\ uploading[a] = "write" /\ pos[a] <= LastOf(a) /\ UNCHANGED prefix
        /\ pos[a] \in Index
    BY <1>1, <1>12 DEF AppendWrites, Index
  <2>2. CASE UNCHANGED pos
    <3>1. uploading'[a] = "failed"
      BY <1>1, <1>9, <1>12, <2>2 DEF AppendWrites, At
    <3> QED
      BY <1>1, <1>8, <2>1, <2>2, <3>1
  <2>3. CASE ~UNCHANGED pos
    <3>1. /\ pos' = [pos EXCEPT ![a] = @ + 1] /\ UNCHANGED uploading
          /\ stored'[pos[a]] = BytesOf(a)
      BY <1>1, <1>12, <2>1, <2>3 DEF AppendWrites, Taken
    <3>2. /\ pos' \in [Appends -> 0..Chunks] /\ pos'[a] = pos[a] + 1
          /\ \A b \in Appends : b # a => pos'[b] = pos[b]
      BY <1>1, <2>1, <3>1
    <3>3. a \notin cleared => HasStored(a) /\ FromOf[a] <= prefix[a]
      BY <2>1 DEF UploadIInv, Writers
    <3>4. HasStored(a) => HasStored(a)'
      <4>1. SUFFICES ASSUME HasStored(a)
                     PROVE  /\ \A i \in FromOf[a]..pos[a] : stored'[i] = BytesOf(a)
                            /\ \A i \in 0..(prefix[a] - 1) : stored'[i] # "none"
        BY <1>1, <2>1, <3>2 DEF HasStored, BytesOf
      <4>2. /\ \A i \in FromOf[a]..(pos[a] - 1) : stored[i] = BytesOf(a)
            /\ \A i \in 0..(prefix[a] - 1) : stored[i] # "none"
        BY <4>1 DEF HasStored
      <4>3. prefix[a] <= Chunks
        BY <1>1
      <4>4. ASSUME NEW i \in FromOf[a]..pos[a] PROVE stored'[i] = BytesOf(a)
        <5>1. CASE i = pos[a]
          BY <3>1, <5>1
        <5>2. CASE i # pos[a]
          <6>1. i \in FromOf[a]..(pos[a] - 1) /\ i \in Index
            BY <1>1, <2>1, <5>2 DEF Index
          <6> QED
            BY <1>1, <1>4, <4>2, <6>1
        <5> QED
          BY <5>1, <5>2
      <4>5. ASSUME NEW i \in 0..(prefix[a] - 1) PROVE stored'[i] # "none"
        BY <1>1, <1>4, <4>2, <4>3 DEF Index
      <4> QED
        BY <4>4, <4>5
    <3> QED
      BY <1>1, <1>8, <2>1, <3>1, <3>2, <3>3, <3>4
  <2> QED
    BY <2>2, <2>3
<1>13. CASE AppendEnds(a)
  <2>1. /\ pos[a] > LastOf(a) /\ uploading[a] = "write" /\ uploading'[a] = "done"
        /\ prefix' = [prefix EXCEPT ![a] = Contiguous] /\ UNCHANGED <<pos, stored>>
    BY <1>9, <1>13 DEF AppendEnds, At
  <2>2. /\ prefix' \in [Appends -> 0..Chunks] /\ prefix'[a] = Contiguous
        /\ \A b \in Appends : b # a => prefix'[b] = prefix[b]
        /\ Contiguous \in 0..Chunks
        /\ \A i \in 0..(Contiguous - 1) : stored[i] # "none"
        /\ Contiguous = Chunks \/ stored[Contiguous] = "none"
    BY <1>1, <2>1, PrefixIs DEF UploadIInv
  <2>3. a \notin cleared => HasStored(a) /\ FromOf[a] <= prefix[a]
    BY <2>1 DEF UploadIInv, Writers
  <2>4. a \notin cleared => HasStored(a)' /\ Contiguous > LastOf(a)
    <3>1. SUFFICES ASSUME a \notin cleared PROVE HasStored(a)' /\ Contiguous > LastOf(a)
      OBVIOUS
    <3>2. /\ \A i \in FromOf[a]..(pos[a] - 1) : stored[i] = BytesOf(a)
          /\ \A i \in 0..(prefix[a] - 1) : stored[i] # "none"
          /\ FromOf[a] <= prefix[a]
      BY <2>3, <3>1 DEF HasStored
    <3>3. ASSUME Contiguous <= LastOf(a) PROVE FALSE
      <4>1. stored[Contiguous] = "none"
        BY <1>1, <2>2, <3>3
      <4>2. Contiguous \in 0..(prefix[a] - 1) \/ Contiguous \in FromOf[a]..(pos[a] - 1)
        BY <1>1, <2>1, <2>2, <3>2, <3>3
      <4> QED
        BY <1>1, <3>2, <4>1, <4>2
    <3>4. Contiguous > LastOf(a)
      BY <1>1, <2>2, <3>3
    <3>5. HasStored(a)'
      BY <1>1, <2>1, <2>2, <3>2 DEF HasStored, BytesOf
    <3> QED
      BY <3>4, <3>5
  <2> QED
    BY <1>1, <1>8, <2>1, <2>2, <2>4
<1> QED
  BY <1>10, <1>11, <1>12, <1>13

\* The steps of finalize.
LEMMA FinalizeKeeps ==
  ASSUME UploadIInv, NEW f \in Finalizes,
         \/ FinalizeCall(f) \/ FinalizeUnseen(f) \/ FinalizeReads(f)
         \/ FinalizeInserts(f) \/ FinalizeEnds(f)
  PROVE  UploadIInv'
<1>1. /\ UNCHANGED <<stored, prefix, pos, cleared>> /\ session' \in BOOLEAN /\ visible' \in BOOLEAN
      /\ visible' = visible \/ FinalizeInserts(f)
      /\ f \in UploadCalls /\ uploading \in [UploadCalls -> Places]
  BY Kinds DEF FinalizeCall, FinalizeUnseen, FinalizeReads, FinalizeInserts, FinalizeEnds,
               UploadIInv, UploadTypeOK, UploadCalls, Places
<1>2. /\ uploading' \in [UploadCalls -> Places]
      /\ \A c \in UploadCalls : c # f => uploading'[c] = uploading[c]
  <2>1. \E from, to \in Places : At(f, from, to)
    BY DEF FinalizeCall, FinalizeUnseen, FinalizeReads, FinalizeInserts, FinalizeEnds, Places
  <2> QED
    BY <2>1, Moves, Kinds DEF UploadIInv
<1>3. \A c \in Appends \cup Aborts : uploading'[c] = uploading[c]
  BY <1>2, Kinds
<1>4. UploadTypeOK' /\ Writers'
  BY <1>1, <1>2, <1>3, WritersKeep DEF UploadIInv, UploadTypeOK, UploadCalls, Places
<1>5. ASSUME ~MayOverlap PROVE Apart'
  <2>1. Apart /\ Aborting' = Aborting /\ AllGood' = AllGood
    BY <1>1, <1>3, <1>5 DEF UploadIInv, Aborting, AllGood
  <2>2. \A g \in Finalizes : g # f => uploading'[g] = uploading[g]
    BY <1>2, Kinds
  <2>3. CASE FinalizeCall(f)
    <3>1. ~Aborting /\ uploading'[f] # "read" /\ visible' = visible
      BY <1>1, <1>5, <2>3 DEF FinalizeCall, At
    <3> QED
      BY <1>1, <1>3, <2>1, <2>2, <3>1 DEF Apart
  <2>4. CASE FinalizeUnseen(f) \/ FinalizeReads(f)
    <3>1. /\ uploading[f] \in {"pending", "unseen"} /\ visible' = visible
          /\ uploading'[f] = "read" => AllGood
      BY <1>1, <2>4 DEF FinalizeUnseen, FinalizeReads, At, AllGood
    <3>2. Finalizing
      BY <3>1 DEF Finalizing
    <3> QED
      BY <1>1, <1>3, <2>1, <2>2, <3>1, <3>2 DEF Apart
  <2>5. CASE FinalizeInserts(f)
    <3>1. uploading[f] = "read" /\ uploading'[f] \in {"failed", "drop"}
      BY <1>1, <2>5 DEF FinalizeInserts, At
    <3>2. Finalizing /\ AllGood /\ ~Aborting
      BY <2>1, <3>1 DEF Finalizing, Apart
    <3> QED
      BY <1>1, <1>3, <2>1, <2>2, <3>1, <3>2 DEF Apart, Aborting
  <2>6. CASE FinalizeEnds(f)
    <3>1. uploading[f] = "drop" /\ uploading'[f] = "done" /\ visible' = visible
      BY <1>1, <2>6 DEF FinalizeEnds, At
    <3>2. Finalizing' => Finalizing
      BY <2>2, <3>1 DEF Finalizing
    <3> QED
      BY <1>1, <1>3, <2>1, <2>2, <3>1, <3>2 DEF Apart
  <2> QED
    BY <2>3, <2>4, <2>5, <2>6
<1> QED
  BY <1>4, <1>5 DEF UploadIInv

\* The steps of abort, which no finalize overlaps.
LEMMA AbortKeeps ==
  ASSUME UploadIInv, NEW b \in Aborts,
         AbortCall(b) \/ AbortLooks(b) \/ AbortClears(b) \/ AbortEnds(b)
  PROVE  UploadIInv'
<1>1. /\ UNCHANGED <<visible, prefix, pos>> /\ session' \in BOOLEAN
      /\ b \in UploadCalls /\ uploading \in [UploadCalls -> Places]
  BY Kinds DEF AbortCall, AbortLooks, AbortClears, AbortEnds, UploadIInv, UploadTypeOK, UploadCalls, Places
<1>2. /\ uploading' \in [UploadCalls -> Places]
      /\ \A c \in UploadCalls : c # b => uploading'[c] = uploading[c]
  <2>1. \E from, to \in Places : At(b, from, to)
    BY DEF AbortCall, AbortLooks, AbortClears, AbortEnds, Places
  <2> QED
    BY <2>1, Moves, Kinds DEF UploadIInv
<1>3. /\ \A c \in Appends \cup Finalizes : uploading'[c] = uploading[c]
      /\ \A c \in Aborts : c # b => uploading'[c] = uploading[c]
      /\ Finalizing' = Finalizing
  BY <1>2, Kinds DEF Finalizing
<1>4. CASE AbortClears(b)
  <2>1. /\ uploading[b] = "clear" /\ uploading'[b] = "drop"
        /\ stored' = [i \in Index |-> "none"]
        /\ cleared' = {a \in Appends : uploading[a] # "idle"}
    BY <1>1, <1>4 DEF AbortClears, At
  <2>2. UploadTypeOK'
    BY <1>1, <1>2, <2>1 DEF UploadIInv, UploadTypeOK, UploadCalls, Places
  <2>3. Writers'
    BY <1>1, <1>3, <2>1 DEF UploadIInv, Writers, LastOf
  <2>4. ASSUME ~MayOverlap PROVE Apart'
    <3>1. /\ Apart /\ Aborting /\ ~visible
      BY <1>4, <2>1, <2>4 DEF UploadIInv, Apart, Aborting
    <3>2. \A f \in Finalizes : uploading[f] # "read"
      BY <3>1 DEF Apart, Finalizing
    <3> QED
      BY <1>1, <1>3, <2>1, <3>1, <3>2 DEF Apart
  <2> QED
    BY <2>2, <2>3, <2>4 DEF UploadIInv
<1>5. CASE ~AbortClears(b)
  <2>1. UNCHANGED <<stored, cleared>>
    BY <1>5 DEF AbortCall, AbortLooks, AbortEnds
  <2>2. UploadTypeOK' /\ Writers'
    BY <1>1, <1>2, <1>3, <2>1, WritersKeep DEF UploadIInv, UploadTypeOK, UploadCalls, Places
  <2>3. ASSUME ~MayOverlap PROVE Apart'
    <3>1. Apart /\ AllGood' = AllGood
      BY <2>1, <2>3 DEF UploadIInv, AllGood
    <3>2. uploading'[b] = "clear" => ~visible
      BY <1>1, <1>5 DEF AbortCall, AbortLooks, AbortEnds, At
    <3>3. ~(Finalizing' /\ Aborting')
      <4>1. CASE AbortCall(b)
        BY <1>3, <2>3, <4>1 DEF AbortCall
      <4>2. CASE AbortLooks(b) \/ AbortEnds(b)
        <5>1. Aborting
          BY <1>1, <4>2 DEF AbortLooks, AbortEnds, At, Aborting
        <5> QED
          BY <1>3, <3>1, <5>1 DEF Apart
      <4> QED
        BY <1>5, <4>1, <4>2
    <3> QED
      BY <1>1, <1>3, <3>1, <3>2, <3>3 DEF Apart
  <2> QED
    BY <2>2, <2>3 DEF UploadIInv
<1> QED
  BY <1>4, <1>5

\* Every step of an upload keeps the invariant.
LEMMA UploadStep == UploadIInv /\ [UploadNext]_uploadVars => UploadIInv'
<1> SUFFICES ASSUME UploadIInv, [UploadNext]_uploadVars PROVE UploadIInv'
  OBVIOUS
<1>1. CASE SessionExpires
  <2>1. session' = FALSE /\ UNCHANGED <<stored, visible, uploading, prefix, pos, cleared>>
    BY <1>1 DEF SessionExpires
  <2>2. UploadTypeOK' /\ Writers' /\ (~MayOverlap => Apart')
    BY <2>1, WritersKeep, ApartKeeps DEF UploadIInv, UploadTypeOK
  <2> QED
    BY <2>2 DEF UploadIInv
<1>2. ASSUME NEW b \in Begins, BeginChecked(b) \/ BeginInserts(b) PROVE UploadIInv'
  <2>1. /\ session' \in BOOLEAN /\ UNCHANGED <<stored, visible, prefix, pos, cleared>>
        /\ \E from, to \in Places : At(b, from, to)
    BY <1>2 DEF BeginChecked, BeginInserts, UploadIInv, UploadTypeOK, Places
  <2> QED
    BY <2>1, OtherKeeps
<1>3. CASE UNCHANGED uploadVars
  <2>1. UNCHANGED <<session, stored, visible, uploading, prefix, pos, cleared>>
    BY <1>3 DEF uploadVars
  <2>2. UploadTypeOK' /\ Writers' /\ (~MayOverlap => Apart')
    BY <2>1, WritersKeep, ApartKeeps DEF UploadIInv, UploadTypeOK
  <2> QED
    BY <2>2 DEF UploadIInv
<1> QED
  BY <1>1, <1>2, <1>3, AppendKeeps, FinalizeKeeps, AbortKeeps DEF UploadNext

(* For any appends, however they and anything else on the upload interleave: *)
(* what an append was told to be stored is stored until an abort clears it.  *)
THEOREM AcceptedStays == UploadSpec => []AcceptedIsStored
<1>1. UploadIInv => AcceptedIsStored
  <2> SUFFICES ASSUME UploadIInv, NEW a \in Appends \ cleared, uploading[a] = "done"
               PROVE  /\ \A i \in FromOf[a]..LastOf(a) : stored[i] = BytesOf(a)
                      /\ prefix[a] > LastOf(a) /\ \A i \in 0..(prefix[a] - 1) : stored[i] # "none"
    BY DEF AcceptedIsStored
  <2>1. /\ HasStored(a) /\ pos[a] > LastOf(a) /\ prefix[a] > LastOf(a)
        /\ pos[a] \in Nat /\ LastOf(a) \in Nat /\ FromOf[a] \in Nat
    BY UploadNumbers DEF UploadIInv, UploadTypeOK, Writers
  <2> QED
    BY <2>1 DEF HasStored
<1> QED
  BY <1>1, UploadStarts, UploadStep, PTL DEF UploadSpec

(* For any calls of which no abort runs while a finalize does: a file that   *)
(* is visible has all its chunks, with the bytes of its digest.              *)
THEOREM FilesAreWhole == ~MayOverlap => (UploadSpec => []UploadIsWhole)
<1> SUFFICES ASSUME ~MayOverlap PROVE UploadSpec => []UploadIsWhole
  OBVIOUS
<1>1. UploadIInv => UploadTypeOK /\ FileIsWhole
  BY DEF UploadIInv, Apart, AllGood, FileIsWhole
<1>2. UploadSpec => [](UploadTypeOK /\ FileIsWhole)
  BY <1>1, UploadStarts, UploadStep, PTL DEF UploadSpec
<1>3. UploadTypeOK /\ FileIsWhole /\ AcceptedIsStored => UploadIsWhole
  BY DEF UploadIsWhole
<1> QED
  BY <1>2, <1>3, AcceptedStays, PTL

-----------------------------------------------------------------------------
(* Change Stream synchronization.                                          *)

StartPhases == {"settle", "closeOld", "resolve", "load", "hello", "anchor", "probe", "unwind"}
StopPhases == {"awaitQueue", "awaitClose", "closeTargets"}
Opening == {"load", "hello", "anchor", "probe"}

\* Who awaits whom: at most one startup and one stop() are under way, a stop() awaits
\* only that startup, and who awaits a call that is over is about to go on.
OneAtATime ==
  /\ \A s \in Starts : (call[s] \in StartPhases) <=> (m.startP = s)
  /\ \A p \in Stops : (call[p] \in StopPhases \cup Starts) <=> (m.stopP = p)
  /\ \A s \in Starts : call[s] \in {"idle", "done", "failed"} \cup StartPhases \cup Calls
  /\ \A p \in Stops : call[p] \in {"idle", "done", "failed"} \cup StopPhases \cup Calls
  /\ \A x \in Calls : call[x] \in Starts => m.startP = call[x] \/ Over(call[x])
  /\ \A p \in Stops : call[p] \in Starts \cup StopPhases => m.startP \in {Nil, call[p]}
  /\ \A x \in Calls : call[x] \in Stops =>
       call[x] = m.stopP \/ (Over(call[x]) /\ m.stopP = Nil)
  /\ m.stopping <=> m.stopP # Nil

\* A startup overtaken by stop() is of an older generation; once it has settled,
\* nothing of the stream before it is left, and what it stages is its own.
Startup ==
  /\ m.up <= m.gen
  /\ m.startP # Nil => ~m.running
  /\ m.startP # Nil /\ m.stopP # Nil => m.up # m.gen
  /\ \A s \in Starts : call[s] \in StartPhases \ {"settle"} =>
       m.closing = Nil /\ open = {} /\ changeQueue = <<>> /\ handler = Nil /\ ~m.fatal
  /\ \A s \in Starts : call[s] \in Opening => m.staged = {m.up} /\ m.up \in alive
  /\ \A s \in Starts : call[s] \in {"settle", "closeOld", "resolve"} => m.staged = {}
  /\ m.startP = Nil => m.staged = {}

\* A manager that runs has its stream and targets open; one that closes its targets
\* has no event in hand.
Running ==
  /\ m.running => m.gen = m.up /\ m.stream = m.up /\ m.up \in open /\ m.up \in alive
                  /\ m.closing = Nil /\ ~m.fatal
  /\ \A p \in Stops : call[p] \in {"awaitClose", "closeTargets"} =>
       ~m.running /\ changeQueue = <<>> /\ handler = Nil
  /\ handler # Nil => handler.gen \in alive
  /\ handler # Nil /\ m.running => handler.gen = m.gen
  /\ handler # Nil /\ handler.at \in {"mark", "apply", "applied"} => handler.target \in Targets

\* The inductive invariant of ConnectionsKept.
Kept == SyncTypeOK /\ OneAtATime /\ Startup /\ Running /\ NothingOrphaned

\* Calls, phases and Nil are told apart.
LEMMA Disjoint ==
  /\ Nil \notin Int /\ Nil \notin Starts /\ Nil \notin Stops /\ Nil \notin Handlers
  /\ \A x \in Calls : x \notin SyncPhases
  /\ \A s \in Starts : s \notin Stops
  /\ Starts \subseteq Calls /\ Stops \subseteq Calls
BY SyncAssumption DEF Calls

Typed == call' \in [Calls -> SyncPhases \cup Calls]

\* The phases of start() and of stop() are not the same.
LEMMA Phases ==
  /\ StartPhases \subseteq SyncPhases /\ StopPhases \subseteq SyncPhases
  /\ StartPhases \cap StopPhases = {}
  /\ "idle" \notin StartPhases \cup StopPhases
  /\ "done" \notin StartPhases \cup StopPhases
  /\ "failed" \notin StartPhases \cup StopPhases
  /\ {"idle", "done", "failed"} \subseteq SyncPhases
BY DEF StartPhases, StopPhases, SyncPhases

\* The ways a call can move, and that each keeps the calls in order.
LEMMA StartMoves == 
  ASSUME SyncTypeOK, OneAtATime, NEW s \in Starts, call[s] \in StartPhases,
         NEW q \in StartPhases, Goto(s, q),
         m'.startP = m.startP, m'.stopP = m.stopP, m'.stopping = m.stopping
  PROVE  OneAtATime' /\ Typed
<1> USE Disjoint, Phases DEF SyncTypeOK, OneAtATime, Over, Goto
<1>1. Typed
  BY DEF Typed
<1>2. \A x \in Calls : Over(x) => Over(x)'
  OBVIOUS
<1>3. \A x \in Calls : call'[x] = IF x = s THEN q ELSE call[x]
  OBVIOUS
<1>4. q \notin Starts /\ q \notin Stops
  OBVIOUS
<1>5. (\A x \in Starts : (call[x] \in StartPhases) <=> (m.startP = x))'
  BY <1>3
<1>6. (\A x \in Stops : (call[x] \in StopPhases \cup Starts) <=> (m.stopP = x))'
  BY <1>3
<1>7. (/\ \A x \in Starts : call[x] \in {"idle", "done", "failed"} \cup StartPhases \cup Calls
       /\ \A p \in Stops : call[p] \in {"idle", "done", "failed"} \cup StopPhases \cup Calls)'
  BY <1>3
<1>8. (\A x \in Calls : call[x] \in Starts => m.startP = call[x] \/ Over(call[x]))'
  BY <1>3, <1>2, <1>4
<1>9. (\A p \in Stops : call[p] \in Starts \cup StopPhases => m.startP \in {Nil, call[p]})'
  BY <1>3
<1>10. (\A x \in Calls : call[x] \in Stops =>
       call[x] = m.stopP \/ (Over(call[x]) /\ m.stopP = Nil))'
  BY <1>3, <1>2, <1>4
<1> QED BY <1>1, <1>5, <1>6, <1>7, <1>8, <1>9, <1>10

\* The startup of start() is over.
LEMMA StartupEnds ==
  ASSUME SyncTypeOK, OneAtATime, NEW s \in Starts, call[s] \in StartPhases,
         NEW q \in {"done", "failed"}, Goto(s, q),
         m'.startP = Nil, m'.stopP = m.stopP, m'.stopping = m.stopping
  PROVE  OneAtATime' /\ Typed
<1> USE Disjoint, Phases DEF SyncTypeOK, OneAtATime, Over, Goto
<1>1. Typed
  BY DEF Typed
<1>2. \A x \in Calls : Over(x) => Over(x)'
  OBVIOUS
<1>3. \A x \in Calls : call'[x] = IF x = s THEN q ELSE call[x]
  OBVIOUS
<1>4. q \notin Starts /\ q \notin Stops
  OBVIOUS
<1>11. m.startP = s /\ Over(s)'
  OBVIOUS
<1>5. (\A x \in Starts : (call[x] \in StartPhases) <=> (m.startP = x))'
  BY <1>3, <1>11
<1>6. (\A x \in Stops : (call[x] \in StopPhases \cup Starts) <=> (m.stopP = x))'
  BY <1>3
<1>7. (/\ \A x \in Starts : call[x] \in {"idle", "done", "failed"} \cup StartPhases \cup Calls
       /\ \A p \in Stops : call[p] \in {"idle", "done", "failed"} \cup StopPhases \cup Calls)'
  BY <1>3
<1>8. (\A x \in Calls : call[x] \in Starts => m.startP = call[x] \/ Over(call[x]))'
  BY <1>3, <1>2, <1>4, <1>11
<1>9. (\A p \in Stops : call[p] \in Starts \cup StopPhases => m.startP \in {Nil, call[p]})'
  BY <1>3
<1>10. (\A x \in Calls : call[x] \in Stops =>
       call[x] = m.stopP \/ (Over(call[x]) /\ m.stopP = Nil))'
  BY <1>3, <1>2, <1>4
<1> QED BY <1>1, <1>5, <1>6, <1>7, <1>8, <1>9, <1>10

\* A start() begins its startup.
LEMMA StartupBegins ==
  ASSUME SyncTypeOK, OneAtATime, NEW s \in Starts,
         \/ call[s] = "idle" /\ m.stopP = Nil
         \/ call[s] \in Stops /\ Over(call[s]),
         m.startP = Nil, Goto(s, "settle"),
         m'.startP = s, m'.stopP = m.stopP, m'.stopping = m.stopping
  PROVE  OneAtATime' /\ Typed
<1> USE Disjoint, Phases DEF SyncTypeOK, OneAtATime, Over, Goto
<1>1. Typed /\ "settle" \in StartPhases
  BY DEF Typed, StartPhases
<1>2. \A x \in Calls : Over(x) => Over(x)'
  OBVIOUS
<1>3. \A x \in Calls : call'[x] = IF x = s THEN "settle" ELSE call[x]
  OBVIOUS
<1>4. "settle" \notin Starts /\ "settle" \notin Stops
  BY <1>1
<1>11. m.stopP = Nil
  <2>1. CASE call[s] \in Stops /\ Over(call[s])
    <3>1. m.stopP # call[s]
      BY <2>1
    <3> QED BY <2>1, <3>1
  <2> QED BY <2>1
<1>5. (\A x \in Starts : (call[x] \in StartPhases) <=> (m.startP = x))'
  BY <1>3, <1>1
<1>6. (\A x \in Stops : (call[x] \in StopPhases \cup Starts) <=> (m.stopP = x))'
  BY <1>3
<1>7. (/\ \A x \in Starts : call[x] \in {"idle", "done", "failed"} \cup StartPhases \cup Calls
       /\ \A p \in Stops : call[p] \in {"idle", "done", "failed"} \cup StopPhases \cup Calls)'
  BY <1>3, <1>1
<1>8. (\A x \in Calls : call[x] \in Starts => m.startP = call[x] \/ Over(call[x]))'
  BY <1>3, <1>2, <1>4
<1>9. (\A p \in Stops : call[p] \in Starts \cup StopPhases => m.startP \in {Nil, call[p]})'
  BY <1>3, <1>11
<1>10. (\A x \in Calls : call[x] \in Stops =>
       call[x] = m.stopP \/ (Over(call[x]) /\ m.stopP = Nil))'
  BY <1>3, <1>2, <1>4
<1> QED BY <1>1, <1>5, <1>6, <1>7, <1>8, <1>9, <1>10

\* A call that awaits another, or ends without having begun anything.
LEMMA CallWaits ==
  ASSUME SyncTypeOK, OneAtATime, NEW x \in Calls, NEW q,
         \/ call[x] = "idle"
         \/ call[x] \in Calls /\ Over(call[x]) /\ (x \in Stops => call[x] \in Stops),
         \/ q \in {"done", "failed"}
         \/ q = m.stopP /\ q # Nil
         \/ q = m.startP /\ q # Nil /\ x \in Starts,
         Goto(x, q),
         m'.startP = m.startP, m'.stopP = m.stopP, m'.stopping = m.stopping
  PROVE  OneAtATime' /\ Typed
<1> USE Disjoint, Phases DEF SyncTypeOK, OneAtATime, Over, Goto
<1>0. q \in {"done", "failed"} \cup Calls
  BY DEF Managers
<1>1. Typed
  BY <1>0 DEF Typed
<1>2. \A y \in Calls : Over(y) => Over(y)'
  OBVIOUS
<1>3. \A y \in Calls : call'[y] = IF y = x THEN q ELSE call[y]
  OBVIOUS
<1>4. \A y \in Calls : y \notin StartPhases \cup StopPhases
  OBVIOUS
<1>12. x \in Starts \/ x \in Stops
  BY DEF Calls
<1>11. x \in Starts => m.startP # x
  BY <1>4
<1>13. x \in Stops => m.stopP # x
  BY <1>4
<1>14. x \in Stops => q \notin Starts
  BY DEF Managers
<1>5. (\A y \in Starts : (call[y] \in StartPhases) <=> (m.startP = y))'
  BY <1>3, <1>11, <1>0, <1>4
<1>6. (\A y \in Stops : (call[y] \in StopPhases \cup Starts) <=> (m.stopP = y))'
  BY <1>3, <1>13, <1>14, <1>0, <1>4
<1>7. (/\ \A y \in Starts : call[y] \in {"idle", "done", "failed"} \cup StartPhases \cup Calls
       /\ \A p \in Stops : call[p] \in {"idle", "done", "failed"} \cup StopPhases \cup Calls)'
  BY <1>3, <1>0
<1>8. (\A y \in Calls : call[y] \in Starts => m.startP = call[y] \/ Over(call[y]))'
  BY <1>3, <1>2, <1>0 DEF Managers
<1>9. (\A p \in Stops : call[p] \in Starts \cup StopPhases => m.startP \in {Nil, call[p]})'
  BY <1>3, <1>14, <1>0, <1>4
<1>10. (\A y \in Calls : call[y] \in Stops =>
       call[y] = m.stopP \/ (Over(call[y]) /\ m.stopP = Nil))'
  BY <1>3, <1>2, <1>0 DEF Managers
<1> QED BY <1>1, <1>5, <1>6, <1>7, <1>8, <1>9, <1>10, Zenon

\* A stop() begins.
LEMMA StopBegins ==
  ASSUME SyncTypeOK, OneAtATime, NEW p \in Stops, call[p] = "idle", m.stopP = Nil, Resumed,
         Goto(p, IF m.startP # Nil THEN m.startP ELSE "awaitQueue"),
         m'.startP = m.startP, m'.stopP = p, m'.stopping = TRUE
  PROVE  OneAtATime' /\ Typed
<1> USE Disjoint, Phases DEF SyncTypeOK, OneAtATime, Over, Goto
<1> DEFINE q == IF m.startP # Nil THEN m.startP ELSE "awaitQueue"
<1>0. q \in StopPhases \cup Starts /\ (q \in Starts => q = m.startP) /\ (q \in StopPhases =>
        m.startP = Nil)
  BY DEF Managers, StopPhases
<1>15. Goto(p, q)
  OBVIOUS
<1> HIDE DEF q
<1>1. Typed
  BY <1>0, <1>15 DEF Typed
<1>2. \A y \in Calls : Over(y) => Over(y)'
  BY <1>15
<1>3. \A y \in Calls : call'[y] = IF y = p THEN q ELSE call[y]
  BY <1>15
<1>4. \A y \in Calls : y \notin StartPhases \cup StopPhases
  OBVIOUS
<1>11. \A x \in Calls : call[x] \notin Stops
  BY DEF Resumed, Calls
<1>5. (\A y \in Starts : (call[y] \in StartPhases) <=> (m.startP = y))'
  BY <1>3
<1>6. (\A y \in Stops : (call[y] \in StopPhases \cup Starts) <=> (m.stopP = y))'
  BY <1>3, <1>0
<1>7. (/\ \A y \in Starts : call[y] \in {"idle", "done", "failed"} \cup StartPhases \cup Calls
       /\ \A x \in Stops : call[x] \in {"idle", "done", "failed"} \cup StopPhases \cup Calls)'
  BY <1>3, <1>0
<1>8. (\A y \in Calls : call[y] \in Starts => m.startP = call[y] \/ Over(call[y]))'
  BY <1>3, <1>2, <1>0
<1>9. (\A x \in Stops : call[x] \in Starts \cup StopPhases => m.startP \in {Nil, call[x]})'
  BY <1>3, <1>0, <1>4
<1>10. (\A y \in Calls : call[y] \in Stops =>
       call[y] = m.stopP \/ (Over(call[y]) /\ m.stopP = Nil))'
  BY <1>3, <1>11, <1>0
<1>12. (m.stopping <=> m.stopP # Nil)'
  OBVIOUS
<1> QED BY <1>1, <1>5, <1>6, <1>7, <1>8, <1>9, <1>10, <1>12, Zenon

\* A stop() goes on.
LEMMA StopMoves ==
  ASSUME SyncTypeOK, OneAtATime, NEW p \in Stops,
         \/ call[p] \in StopPhases
         \/ call[p] \in Starts /\ Over(call[p]),
         NEW q \in StopPhases, Goto(p, q),
         m'.startP = m.startP, m'.stopP = m.stopP, m'.stopping = m.stopping
  PROVE  OneAtATime' /\ Typed
<1> USE Disjoint, Phases DEF SyncTypeOK, OneAtATime, Over, Goto
<1>1. Typed
  BY DEF Typed
<1>2. \A y \in Calls : Over(y) => Over(y)'
  OBVIOUS
<1>3. \A y \in Calls : call'[y] = IF y = p THEN q ELSE call[y]
  OBVIOUS
<1>4. q \notin Starts /\ q \notin Stops
  OBVIOUS
<1>11. m.startP = Nil
  <2>1. CASE call[p] \in StopPhases
    <3>1. call[p] \notin Starts
      BY <2>1
    <3>2. m.startP \in {Nil, call[p]} /\ m.startP \in Starts \cup {Nil}
      BY <2>1 DEF Managers
    <3> QED BY <3>1, <3>2
  <2>2. CASE call[p] \in Starts /\ Over(call[p])
    <3>1. m.startP # call[p]
      BY <2>2
    <3> QED BY <2>2, <3>1
  <2> QED BY <2>1, <2>2
<1>5. (\A x \in Starts : (call[x] \in StartPhases) <=> (m.startP = x))'
  BY <1>3
<1>6. (\A x \in Stops : (call[x] \in StopPhases \cup Starts) <=> (m.stopP = x))'
  BY <1>3
<1>7. (/\ \A x \in Starts : call[x] \in {"idle", "done", "failed"} \cup StartPhases \cup Calls
       /\ \A x \in Stops : call[x] \in {"idle", "done", "failed"} \cup StopPhases \cup Calls)'
  BY <1>3
<1>8. (\A x \in Calls : call[x] \in Starts => m.startP = call[x] \/ Over(call[x]))'
  BY <1>3, <1>2, <1>4
<1>9. (\A x \in Stops : call[x] \in Starts \cup StopPhases => m.startP \in {Nil, call[x]})'
  BY <1>3, <1>11
<1>10. (\A x \in Calls : call[x] \in Stops =>
       call[x] = m.stopP \/ (Over(call[x]) /\ m.stopP = Nil))'
  BY <1>3, <1>2, <1>4
<1> QED BY <1>1, <1>5, <1>6, <1>7, <1>8, <1>9, <1>10

\* A stop() is over.
LEMMA StopGoes ==
  ASSUME SyncTypeOK, OneAtATime, NEW p \in Stops, call[p] \in StopPhases,
         NEW q \in {"done", "failed"}, Goto(p, q),
         m'.startP = m.startP, m'.stopP = Nil, m'.stopping = FALSE
  PROVE  OneAtATime' /\ Typed
<1> USE Disjoint, Phases DEF SyncTypeOK, OneAtATime, Over, Goto
<1>1. Typed
  BY DEF Typed
<1>2. \A y \in Calls : Over(y) => Over(y)'
  OBVIOUS
<1>3. \A y \in Calls : call'[y] = IF y = p THEN q ELSE call[y]
  OBVIOUS
<1>4. q \notin Starts /\ q \notin Stops
  OBVIOUS
<1>11. m.stopP = p /\ Over(p)'
  OBVIOUS
<1>5. (\A x \in Starts : (call[x] \in StartPhases) <=> (m.startP = x))'
  BY <1>3
<1>6. (\A x \in Stops : (call[x] \in StopPhases \cup Starts) <=> (m.stopP = x))'
  BY <1>3, <1>11
<1>7. (/\ \A x \in Starts : call[x] \in {"idle", "done", "failed"} \cup StartPhases \cup Calls
       /\ \A x \in Stops : call[x] \in {"idle", "done", "failed"} \cup StopPhases \cup Calls)'
  BY <1>3
<1>8. (\A x \in Calls : call[x] \in Starts => m.startP = call[x] \/ Over(call[x]))'
  BY <1>3, <1>2, <1>4
<1>9. (\A x \in Stops : call[x] \in Starts \cup StopPhases => m.startP \in {Nil, call[x]})'
  BY <1>3
<1>10. (\A x \in Calls : call[x] \in Stops =>
       call[x] = m.stopP \/ (Over(call[x]) /\ m.stopP = Nil))'
  BY <1>3, <1>2, <1>4, <1>11
<1> QED BY <1>1, <1>5, <1>6, <1>7, <1>8, <1>9, <1>10

\* A step of no call.
LEMMA CallsStay ==
  ASSUME SyncTypeOK, OneAtATime, UNCHANGED call,
         m'.startP = m.startP, m'.stopP = m.stopP, m'.stopping = m.stopping
  PROVE  OneAtATime' /\ Typed
BY DEF SyncTypeOK, OneAtATime, Over, Typed

\* The calls of a process that dies are over.
LEMMA CallsDie ==
  ASSUME SyncTypeOK, OneAtATime, ProcessDies PROVE OneAtATime' /\ Typed
<1> USE Disjoint, Phases DEF SyncTypeOK, OneAtATime, ProcessDies, Over, Fresh
<1>1. \A x \in Calls : call'[x] \in {"idle", "failed"}
  OBVIOUS
<1>2. m'.startP = Nil /\ m'.stopP = Nil /\ m'.stopping = FALSE
  OBVIOUS
<1>3. Typed
  BY <1>1 DEF Typed
<1> QED BY <1>1, <1>2, <1>3

\* What the finally block of start() leaves behind.
LEMMA Forgetting ==
  ASSUME NEW t \in Managers, NEW u, u = [t EXCEPT !.startP = Nil]
  PROVE  /\ u \in Managers
         /\ u.targets = t.targets /\ u.staged = t.staged /\ u.cleanup = t.cleanup
         /\ u.gen = t.gen /\ u.running = t.running /\ u.stopping = t.stopping
         /\ u.fatal = t.fatal /\ u.stream = t.stream /\ u.closing = t.closing
         /\ u.startP = Nil /\ u.stopP = t.stopP /\ u.up = t.up /\ u.from = t.from
BY DEF Managers

\* Each step keeps the connections.
LEMMA SettledKeeps == ASSUME Kept, NEW s \in Starts, Settled(s) PROVE Kept'
<1> USE Disjoint DEF Kept
<1>1. m' \in Managers /\ m'.stopP = m.stopP /\ m'.stopping = m.stopping /\ m'.running = m.running
      /\ m'.gen = m.gen /\ m'.up = m.up /\ m'.stream = m.stream /\ m'.closing = m.closing
      /\ m'.from = m.from /\ m'.targets = m.targets /\ m'.staged = m.staged
      /\ m'.cleanup = m.cleanup
  <2>1. m' = [m EXCEPT !.startP = Nil] \/ m' = [m EXCEPT !.fatal = FALSE]
    BY DEF Settled, EndStartup
  <2>2. m \in Managers
    BY DEF SyncTypeOK
  <2>3. CASE m' = [m EXCEPT !.startP = Nil]
    BY <2>2, <2>3, Forgetting
  <2>4. CASE m' = [m EXCEPT !.fatal = FALSE]
    BY <2>2, <2>4 DEF Managers
  <2> QED BY <2>1, <2>3, <2>4
<1>2. \/ m'.startP = Nil /\ m'.fatal = m.fatal /\ (Goto(s, "failed") \/ Goto(s, "done"))
      \/ m'.startP = m.startP /\ m'.fatal = FALSE /\ Goto(s, "closeOld")
  BY DEF Settled, EndStartup, SyncTypeOK, Managers
<1>3. call[s] = "settle" /\ "settle" \in StartPhases /\ "closeOld" \in StartPhases
  BY DEF Settled, StartPhases
<1>4. OneAtATime' /\ Typed
  BY <1>1, <1>2, <1>3, StartMoves, StartupEnds, Zenon
<1>5. UNCHANGED <<outside, changeQueue, handler, resources, crashes>>
  BY DEF Settled
<1>6. SyncTypeOK'
  BY <1>1, <1>4, <1>5 DEF SyncTypeOK, Typed, outside, resources
<1>7. Startup'
  BY <1>1, <1>2, <1>3, <1>5 DEF Settled, Startup, SyncTypeOK, Typed, outside, resources, Goto,
       StartPhases, Opening,
    Managers, OneAtATime, NothingOrphaned
<1>8. Running'
  BY <1>1, <1>2, <1>3, <1>5 DEF Running, SyncTypeOK, resources, Goto, Managers, Startup, OneAtATime
<1>9. NothingOrphaned'
  BY <1>1, <1>5 DEF NothingOrphaned, resources
<1> QED BY <1>4, <1>6, <1>7, <1>8, <1>9

\* The streams of an earlier start are closed.
LEMMA CloseOldKeeps == ASSUME Kept, NEW s \in Starts, CloseOld(s) PROVE Kept'
<1> USE Disjoint DEF Kept
<1> DEFINE all == m.targets \cup m.cleanup
<1>1. PICK failing \in SUBSET all :
        \/ Close(all, {}, m) /\ Goto(s, "resolve")
        \/ Close(all, failing, [m EXCEPT !.startP = Nil]) /\ Goto(s, "failed")
  BY DEF CloseOld
<1>2. call[s] = "closeOld" /\ {"closeOld", "resolve"} \subseteq StartPhases
      /\ m \in Managers /\ all \in SUBSET Nat
      /\ [m EXCEPT !.startP = Nil] \in Managers
      /\ UNCHANGED <<outside, changeQueue, handler, open, cursor, crashes>>
  BY DEF CloseOld, StartPhases, SyncTypeOK, Managers
<1>3. /\ m' \in Managers /\ alive' \subseteq alive
           /\ alive' \subseteq m'.targets \cup m'.staged \cup m'.cleanup
      /\ m'.staged = m.staged \ all
      /\ m'.gen = m.gen /\ m'.running = m.running /\ m'.stopping = m.stopping
      /\ m'.fatal = m.fatal /\ m'.stream = m.stream /\ m'.closing = m.closing
      /\ m'.stopP = m.stopP /\ m'.up = m.up /\ m'.from = m.from
      /\ \/ m'.startP = m.startP /\ Goto(s, "resolve")
         \/ m'.startP = Nil /\ Goto(s, "failed")
  <2>1. CASE Close(all, {}, m) /\ Goto(s, "resolve")
    <3>1. /\ m' \in Managers /\ alive' = alive \ all
          /\ m'.targets = m.targets \ all /\ m'.staged = m.staged \ all
          /\ m'.cleanup = m.cleanup \ all
          /\ m'.gen = m.gen /\ m'.running = m.running /\ m'.stopping = m.stopping
          /\ m'.fatal = m.fatal /\ m'.stream = m.stream /\ m'.closing = m.closing
          /\ m'.startP = m.startP /\ m'.stopP = m.stopP /\ m'.up = m.up /\ m'.from = m.from
      BY <2>1, <1>2 DEF Close, Managers
    <3> HIDE DEF all
    <3> QED BY <3>1, <2>1 DEF NothingOrphaned
  <2>2. CASE Close(all, failing, [m EXCEPT !.startP = Nil]) /\ Goto(s, "failed")
    <3> DEFINE t == [m EXCEPT !.startP = Nil]
    <3>1. /\ t.gen = m.gen /\ t.running = m.running /\ t.stopping = m.stopping
          /\ t.fatal = m.fatal /\ t.stream = m.stream /\ t.closing = m.closing
          /\ t.startP = Nil /\ t.stopP = m.stopP /\ t.up = m.up /\ t.from = m.from
          /\ t.targets = m.targets /\ t.staged = m.staged /\ t.cleanup = m.cleanup
      BY <1>2 DEF Managers
    <3>2. t \in Managers /\ Close(all, failing, t)
      BY <1>2, <2>2
    <3> HIDE DEF t, all
    <3>3. /\ m' \in Managers
         /\ alive' = alive \ (all \ failing)
         /\ m'.targets = t.targets \ all /\ m'.staged = t.staged \ all
         /\ m'.cleanup = (t.cleanup \ all) \cup failing
         /\ m'.gen = t.gen /\ m'.running = t.running /\ m'.stopping = t.stopping
         /\ m'.fatal = t.fatal /\ m'.stream = t.stream /\ m'.closing = t.closing
         /\ m'.startP = t.startP /\ m'.stopP = t.stopP /\ m'.up = t.up /\ m'.from = t.from
      BY <3>2, <1>2 DEF Close, Managers
    <3> QED BY <3>1, <3>3, <2>2 DEF NothingOrphaned
  <2> QED BY <1>1, <2>1, <2>2
<1>4. OneAtATime' /\ Typed
  BY <1>2, <1>3, StartMoves, StartupEnds, Zenon
<1>6. SyncTypeOK'
  BY <1>2, <1>3, <1>4 DEF SyncTypeOK, Typed, outside, resources
<1>10. m.startP = s
  BY <1>2 DEF OneAtATime
<1>7. Startup'
  BY <1>2, <1>3, <1>10 DEF Startup, SyncTypeOK, Typed, outside, resources, Goto, StartPhases,
       Opening,
    Managers, OneAtATime
<1>8. Running'
  BY <1>2, <1>3, <1>10 DEF Running, SyncTypeOK, resources, Goto, Managers, Startup, OneAtATime,
       StartPhases
<1>9. NothingOrphaned'
  BY <1>2, <1>3 DEF NothingOrphaned, resources
<1> QED BY <1>4, <1>6, <1>7, <1>8, <1>9

\* The mark to resume from is looked up.
LEMMA ResolveKeeps ==
  ASSUME Kept, NEW s \in Starts, Resolve(s) \/ ResolveFails(s) PROVE Kept'
<1> USE Disjoint DEF Kept
<1>2. call[s] = "resolve" /\ {"load", "resolve", "unwind"} \subseteq StartPhases
      /\ m \in Managers
      /\ UNCHANGED <<outside, changeQueue, handler, open, cursor, crashes>>
  BY DEF Resolve, ResolveFails, StartPhases, SyncTypeOK, Managers
<1>10. m.startP = s /\ m.staged = {}
  BY <1>2 DEF OneAtATime, Startup
<1>3. /\ m' \in Managers /\ alive \subseteq alive'
           /\ alive' \subseteq m'.targets \cup m'.staged \cup m'.cleanup
      /\ alive' \subseteq alive \cup {m.up}
      /\ m'.gen = m.gen /\ m'.running = m.running /\ m'.stopping = m.stopping
      /\ m'.fatal = m.fatal /\ m'.stream = m.stream /\ m'.closing = m.closing
      /\ m'.stopP = m.stopP /\ m'.up = m.up /\ m'.from = m.from
      /\ \/ m'.startP = m.startP /\ (Goto(s, "load") \/ Goto(s, "unwind"))
                 /\ m'.staged = {m.up} /\ m.up \in alive'
         \/ m'.startP = Nil /\ Goto(s, "failed") /\ m'.staged = {}
  <2>1. CASE Resolve(s)
    BY <2>1, <1>2, <1>10 DEF NothingOrphaned, Resolve, Proceed, Managers
  <2>2. CASE ResolveFails(s)
    <3>1. CASE EndStartup(s, m, "failed") /\ UNCHANGED alive
      BY <3>1, <1>2, <1>10, Forgetting DEF NothingOrphaned, EndStartup
    <3>2. CASE /\ alive' = alive \cup {m.up}
               /\ EndStartup(s, [m EXCEPT !.cleanup = @ \cup {m.up}], "failed")
      <4>1. m' = [m EXCEPT !.cleanup = @ \cup {m.up}, !.startP = Nil] /\ Goto(s, "failed")
        BY <3>2, <1>2 DEF EndStartup, Managers
      <4> QED BY <3>2, <4>1, <1>2, <1>10 DEF NothingOrphaned, Managers
    <3> QED BY <2>2, <3>1, <3>2 DEF ResolveFails
  <2> QED BY <2>1, <2>2
<1>4. OneAtATime' /\ Typed
  BY <1>2, <1>3, StartMoves, StartupEnds, Zenon
<1>6. SyncTypeOK'
  BY <1>2, <1>3, <1>4 DEF SyncTypeOK, Typed, outside, resources, Managers
<1>7. Startup'
  BY <1>2, <1>3, <1>10 DEF Startup, SyncTypeOK, Typed, outside, resources, Goto, StartPhases,
       Opening,
    Managers, OneAtATime
<1>8. Running'
  BY <1>2, <1>3, <1>10 DEF Running, SyncTypeOK, resources, Goto, Managers, Startup, OneAtATime,
       StartPhases
<1>9. NothingOrphaned'
  BY <1>2, <1>3 DEF NothingOrphaned, resources
<1> QED BY <1>4, <1>6, <1>7, <1>8, <1>9

\* A stream is opened, greeted and anchored, or fails.
LEMMA OpeningKeeps ==
  ASSUME Kept, NEW s \in Starts, Load(s) \/ Hello(s) \/ SaveAnchor(s) \/ StartupFails(s)
  PROVE  Kept'
<1> USE Disjoint DEF Kept
<1>1. m \in Managers /\ token \in 0..MaxEvents \cup {Nil} /\ log \in 0..MaxEvents
  BY DEF SyncTypeOK
<1>2. /\ call[s] \in Opening
      /\ UNCHANGED <<log, applied, marks, changeQueue, handler, resources, crashes>>
  BY DEF Load, Hello, SaveAnchor, StartupFails, Opening, outside
<1>3. /\ token' \in 0..MaxEvents \cup {Nil}
      /\ m' = m \/ \E f \in 0..MaxEvents : m' = [m EXCEPT !.from = f]
      /\ \E q \in Opening \cup {"unwind"} : Goto(s, q)
  <2>1. CASE Load(s)
    BY <1>1, <2>1 DEF Load, Proceed, Opening, outside
  <2>2. CASE Hello(s)
    BY <1>1, <2>2 DEF Hello, Proceed, Opening, outside
  <2>3. CASE SaveAnchor(s)
    BY <1>1, <2>3 DEF SaveAnchor, Proceed, Opening, Managers
  <2>4. CASE StartupFails(s)
    BY <1>1, <2>4 DEF StartupFails, Managers
  <2> QED BY <2>1, <2>2, <2>3, <2>4
<1>4. PICK q \in Opening \cup {"unwind"} : Goto(s, q)
  BY <1>3
<1>5. Opening \cup {"unwind"} \subseteq StartPhases \ {"settle", "closeOld", "resolve"}
  BY DEF Opening, StartPhases
<1>6. /\ m' \in Managers
      /\ m'.targets = m.targets /\ m'.staged = m.staged /\ m'.cleanup = m.cleanup
      /\ m'.gen = m.gen /\ m'.running = m.running /\ m'.stopping = m.stopping
      /\ m'.fatal = m.fatal /\ m'.stream = m.stream /\ m'.closing = m.closing
      /\ m'.startP = m.startP /\ m'.stopP = m.stopP /\ m'.up = m.up
  BY <1>1, <1>3 DEF Managers
<1>7. OneAtATime' /\ Typed
  BY <1>2, <1>4, <1>5, <1>6, StartMoves, Zenon
<1>8. SyncTypeOK'
  BY <1>2, <1>3, <1>6, <1>7 DEF SyncTypeOK, Typed, resources
<1>9. Startup'
  BY <1>2, <1>4, <1>5, <1>6 DEF Startup, SyncTypeOK, resources, Goto, Managers, OneAtATime
<1>10. Running'
  BY <1>2, <1>4, <1>5, <1>6 DEF Running, SyncTypeOK, resources, Goto, Managers, OneAtATime
<1>11. NothingOrphaned'
  BY <1>2, <1>6 DEF NothingOrphaned, resources
<1> QED BY <1>7, <1>8, <1>9, <1>10, <1>11

\* A stream goes live.
LEMMA GoLiveKeeps == ASSUME Kept, NEW s \in Starts, GoLive(s) PROVE Kept'
<1> USE Disjoint DEF Kept
<1>1. m \in Managers
  BY DEF SyncTypeOK
<1>2. /\ call[s] = "probe" /\ "probe" \in Opening /\ {"probe", "unwind"} \subseteq StartPhases
      /\ UNCHANGED <<outside, changeQueue, handler, alive, crashes>>
  BY DEF GoLive, Opening, StartPhases
<1>3. m.startP = s /\ ~m.running /\ m.staged = {m.up} /\ m.up \in alive /\ m.closing = Nil
      /\ open = {} /\ changeQueue = <<>> /\ handler = Nil /\ ~m.fatal
  BY <1>2 DEF OneAtATime, Startup
<1>4. CASE m.up # m.gen
  <2>1. Goto(s, "unwind") /\ UNCHANGED <<m, open, cursor>>
    BY <1>4 DEF GoLive, Current
  <2>2. OneAtATime' /\ Typed
    BY <1>2, <2>1, StartMoves, Zenon
  <2>3. SyncTypeOK'
    BY <1>2, <2>1, <2>2 DEF SyncTypeOK, Typed, outside
  <2>4. Startup'
    BY <1>2, <2>1 DEF Startup, SyncTypeOK, Goto, OneAtATime, Opening
  <2>5. Running'
    BY <1>2, <2>1 DEF Running, SyncTypeOK, Goto
  <2>6. NothingOrphaned'
    BY <1>2, <2>1 DEF NothingOrphaned
  <2> QED BY <2>2, <2>3, <2>4, <2>5, <2>6
<1>5. CASE m.up = m.gen
  <2>1. /\ m' = [m EXCEPT !.targets = @ \cup m.staged, !.staged = {}, !.stream = m.up,
                          !.running = TRUE, !.startP = Nil]
        /\ Goto(s, "done")
        /\ open' = open \cup {m.up}
        /\ cursor' = [g \in open' |-> IF g = m.up THEN m.from ELSE cursor[g]]
    BY <1>1, <1>5 DEF GoLive, Current, EndStartup, Managers
  <2>2. /\ m' \in Managers
        /\ m'.targets = m.targets \cup {m.up} /\ m'.staged = {} /\ m'.cleanup = m.cleanup
        /\ m'.gen = m.gen /\ m'.running = TRUE /\ m'.stopping = m.stopping
        /\ m'.fatal = m.fatal /\ m'.stream = m.up /\ m'.closing = m.closing
        /\ m'.startP = Nil /\ m'.stopP = m.stopP /\ m'.up = m.up /\ m'.from = m.from
    BY <1>1, <1>3, <2>1 DEF Managers
  <2>3. OneAtATime' /\ Typed
    BY <1>2, <2>1, <2>2, StartupEnds, Zenon
  <2>9. m.up \in Nat /\ m.from \in 0..MaxEvents
    BY <1>1 DEF Managers
  <2>10. open' = {m.up} /\ cursor' = [g \in {m.up} |-> m.from]
    BY <1>3, <2>1
  <2>4. SyncTypeOK'
    BY <1>2, <2>2, <2>3, <2>9, <2>10 DEF SyncTypeOK, Typed, outside
  <2>5. Startup'
    BY <1>2, <1>3, <2>1, <2>2 DEF Startup, SyncTypeOK, Goto, OneAtATime, Opening, StartPhases
  <2>6. Running'
    <3>1. m.stopP = Nil
      BY <1>3, <1>5 DEF Startup, Managers
    <3>2. \A p \in Stops : call[p] \notin {"awaitClose", "closeTargets"}
      BY <3>1 DEF OneAtATime, StopPhases
    <3> QED BY <1>2, <1>3, <1>5, <2>1, <2>2, <2>10, <3>2 DEF Running, SyncTypeOK, Goto
  <2>7. NothingOrphaned'
    BY <1>2, <1>3, <2>2, <2>10 DEF NothingOrphaned
  <2> QED BY <2>3, <2>4, <2>5, <2>6, <2>7
<1> QED BY <1>4, <1>5

\* A failed startup closes what it opened.
LEMMA UnwindKeeps == ASSUME Kept, NEW s \in Starts, Unwind(s) PROVE Kept'
<1> USE Disjoint DEF Kept
<1> DEFINE all == m.staged \cup m.cleanup
           t == [m EXCEPT !.startP = Nil]
<1>1. PICK failing \in SUBSET all : Close(all, failing, t)
  BY DEF Unwind
<1>2. /\ call[s] = "unwind" /\ "unwind" \in StartPhases /\ Goto(s, "failed")
      /\ m \in Managers /\ all \in SUBSET Nat
      /\ UNCHANGED <<outside, changeQueue, handler, open, cursor, crashes>>
  BY DEF Unwind, StartPhases, SyncTypeOK, Managers
<1>3. /\ t \in Managers /\ t.gen = m.gen /\ t.running = m.running /\ t.stopping = m.stopping
      /\ t.fatal = m.fatal /\ t.stream = m.stream /\ t.closing = m.closing
      /\ t.startP = Nil /\ t.stopP = m.stopP /\ t.up = m.up /\ t.from = m.from
      /\ t.targets = m.targets /\ t.staged = m.staged /\ t.cleanup = m.cleanup
  BY <1>2 DEF Managers
<1>4. m.staged \subseteq all
  OBVIOUS
<1> HIDE DEF t, all
<1>5. /\ m' \in Managers
      /\ alive' = alive \ (all \ failing)
      /\ m'.targets = t.targets \ all /\ m'.staged = t.staged \ all
      /\ m'.cleanup = (t.cleanup \ all) \cup failing
      /\ m'.gen = t.gen /\ m'.running = t.running /\ m'.stopping = t.stopping
      /\ m'.fatal = t.fatal /\ m'.stream = t.stream /\ m'.closing = t.closing
      /\ m'.startP = t.startP /\ m'.stopP = t.stopP /\ m'.up = t.up /\ m'.from = t.from
  BY <1>1, <1>2, <1>3 DEF Close, Managers
<1>6. m'.staged = {}
  BY <1>3, <1>4, <1>5
<1>7. OneAtATime' /\ Typed
  BY <1>2, <1>3, <1>5, StartupEnds, Zenon
<1>8. SyncTypeOK'
  BY <1>2, <1>3, <1>5, <1>7 DEF SyncTypeOK, Typed, outside
<1>12. m.startP = s /\ handler = Nil /\ ~m.running
  BY <1>2 DEF OneAtATime, Startup
<1>9. Startup'
  BY <1>2, <1>3, <1>5, <1>6, <1>12 DEF Startup, SyncTypeOK, Goto, OneAtATime, Opening, StartPhases
<1>10. Running'
  BY <1>2, <1>3, <1>5, <1>12 DEF Running, SyncTypeOK, Goto, OneAtATime
<1>11. NothingOrphaned'
  BY <1>2, <1>3, <1>5 DEF NothingOrphaned
<1> QED BY <1>7, <1>8, <1>9, <1>10, <1>11

\* Only the call has moved on, and to no phase of its own.
LEMMA WaitKeeps ==
  ASSUME Kept, NEW x \in Calls, NEW q,
         \/ call[x] = "idle"
         \/ call[x] \in Calls /\ Over(call[x]) /\ (x \in Stops => call[x] \in Stops),
         \/ q \in {"done", "failed"}
         \/ q = m.stopP /\ q # Nil
         \/ q = m.startP /\ q # Nil /\ x \in Starts,
         Goto(x, q), UNCHANGED <<outside, m, changeQueue, handler, resources, crashes>>
  PROVE  Kept'
<1> USE Disjoint DEF Kept
<1>1. OneAtATime' /\ Typed
  BY CallWaits, Zenon
<1>2. \A y \in Calls : call'[y] = IF y = x THEN q ELSE call[y]
  BY DEF Goto, SyncTypeOK
<1>3. q \in {"done", "failed"} \cup Calls
  BY DEF SyncTypeOK, Managers
<1>4. q \notin StartPhases /\ q \notin Opening /\ q \notin {"settle", "closeOld", "resolve"}
      /\ q \notin {"awaitClose", "closeTargets"}
  BY <1>3 DEF StartPhases, Opening, SyncPhases
<1>5. SyncTypeOK'
  BY <1>1 DEF SyncTypeOK, Typed, outside, resources
<1>6. Startup'
  BY <1>2, <1>4 DEF Startup, resources
<1>7. Running'
  BY <1>2, <1>4 DEF Running, resources
<1>8. NothingOrphaned'
  BY DEF NothingOrphaned, resources
<1> QED BY <1>1, <1>5, <1>6, <1>7, <1>8

\* The synchronous part of start().
LEMMA StartBodyKeeps ==
  ASSUME Kept, NEW s \in Starts,
         \/ call[s] = "idle" /\ m.stopP = Nil
         \/ call[s] \in Stops /\ Over(call[s]),
         StartBody(s), UNCHANGED <<outside, changeQueue, handler, resources, crashes>>
  PROVE  Kept'
<1> USE Disjoint DEF Kept
<1>1. m \in Managers /\ m.stopP = Nil
  <2>1. CASE call[s] \in Stops /\ Over(call[s])
    <3>1. m.stopP # call[s]
      BY <2>1, Phases DEF OneAtATime, Over
    <3> QED BY <2>1, <3>1 DEF OneAtATime, SyncTypeOK
  <2> QED BY <2>1 DEF SyncTypeOK
<1>2. CASE m.running
  BY <1>2, WaitKeeps DEF StartBody, Calls
<1>3. CASE ~m.running /\ m.startP # Nil
  BY <1>3, WaitKeeps DEF StartBody, Calls
<1>4. CASE ~m.running /\ m.startP = Nil
  <2>1. m' = [m EXCEPT !.gen = @ + 1, !.up = m.gen + 1, !.startP = s] /\ Goto(s, "settle")
    BY <1>4 DEF StartBody
  <2>2. /\ m' \in Managers
        /\ m'.targets = m.targets /\ m'.staged = m.staged /\ m'.cleanup = m.cleanup
        /\ m'.gen = m.gen + 1 /\ m'.running = m.running /\ m'.stopping = m.stopping
        /\ m'.fatal = m.fatal /\ m'.stream = m.stream /\ m'.closing = m.closing
        /\ m'.startP = s /\ m'.stopP = m.stopP /\ m'.up = m.gen + 1 /\ m'.from = m.from
    <3>1. m.gen + 1 \in Nat
      BY <1>1 DEF Managers
    <3> DEFINE n == m.gen + 1
    <3>2. n \in Nat /\ m' = [m EXCEPT !.gen = n, !.up = n, !.startP = s]
      BY <1>1, <2>1, <3>1 DEF Managers
    <3> HIDE DEF n
    <3>3. m' \in Managers
      BY <1>1, <3>2 DEF Managers
    <3>4. /\ m'.targets = m.targets /\ m'.staged = m.staged /\ m'.cleanup = m.cleanup
          /\ m'.gen = n /\ m'.running = m.running /\ m'.stopping = m.stopping
          /\ m'.fatal = m.fatal /\ m'.stream = m.stream /\ m'.closing = m.closing
          /\ m'.startP = s /\ m'.stopP = m.stopP /\ m'.up = n /\ m'.from = m.from
      BY <1>1, <3>2 DEF Managers
    <3> QED BY <3>3, <3>4 DEF n
  <2>3. OneAtATime' /\ Typed
    BY <1>4, <2>1, <2>2, StartupBegins, Zenon
  <2>4. SyncTypeOK'
    BY <2>2, <2>3 DEF SyncTypeOK, Typed, outside, resources
  <2>5. \A x \in Starts : call[x] \notin StartPhases
    BY <1>4 DEF OneAtATime
  <2>6. Startup'
    BY <1>1, <1>4, <2>1, <2>2, <2>5 DEF Startup, SyncTypeOK, Goto, Opening, StartPhases,
         resources, Managers
  <2>7. Running'
    BY <1>4, <2>1, <2>2 DEF Running, SyncTypeOK, Goto, resources
  <2>8. NothingOrphaned'
    BY <2>2 DEF NothingOrphaned, resources
  <2> QED BY <2>3, <2>4, <2>6, <2>7, <2>8
<1> QED BY <1>2, <1>3, <1>4

\* start(), joined or made to wait for a stop().
LEMMA StartCallsKeep ==
  ASSUME Kept, NEW s \in Starts, StartCall(s) \/ StartAfterStop(s) \/ StartJoined(s)
  PROVE  Kept'
<1> USE Disjoint DEF Kept
<1>1. CASE StartCall(s) /\ m.stopP # Nil
  BY <1>1, WaitKeeps DEF StartCall, outside
<1>2. CASE StartCall(s) /\ m.stopP = Nil
  BY <1>2, StartBodyKeeps DEF StartCall
<1>3. CASE StartAfterStop(s) /\ call[call[s]] = "failed"
  BY <1>3, WaitKeeps DEF StartAfterStop, outside
<1>4. CASE StartAfterStop(s) /\ call[call[s]] # "failed"
  BY <1>4, StartBodyKeeps DEF StartAfterStop
<1>5. CASE StartJoined(s)
  <2>1. call[call[s]] \in {"done", "failed"} /\ call[s] \in Calls
    BY <1>5 DEF StartJoined, Over
  <2> QED BY <1>5, <2>1, WaitKeeps DEF StartJoined
<1> QED BY <1>1, <1>2, <1>3, <1>4, <1>5

\* stop(), called or joined.
LEMMA StopCallsKeep ==
  ASSUME Kept, NEW p \in Stops, StopCall(p) \/ StopJoined(p) PROVE Kept'
<1> USE Disjoint DEF Kept
<1>1. CASE StopCall(p) /\ m.stopP # Nil
  BY <1>1, WaitKeeps DEF StopCall, outside
<1>2. CASE StopJoined(p)
  <2>1. call[call[p]] \in {"done", "failed"} /\ call[p] \in Calls /\ call[p] \in Stops
    BY <1>2 DEF StopJoined, Over
  <2> QED BY <1>2, <2>1, WaitKeeps DEF StopJoined
<1>3. CASE StopCall(p) /\ m.stopP = Nil
  <2>1. m \in Managers /\ call[p] = "idle" /\ Resumed
    BY <1>3 DEF StopCall, SyncTypeOK
  <2>2. /\ m' = [m EXCEPT !.stopP = p, !.stopping = TRUE,
                          !.gen = IF m.startP # Nil /\ ~m.running THEN @ + 1 ELSE @]
        /\ Goto(p, IF m.startP # Nil THEN m.startP ELSE "awaitQueue")
        /\ UNCHANGED <<outside, changeQueue, handler, resources, crashes>>
    BY <1>3 DEF StopCall
  <2>3. /\ m' \in Managers
        /\ m'.targets = m.targets /\ m'.staged = m.staged /\ m'.cleanup = m.cleanup
        /\ m'.gen = IF m.startP # Nil /\ ~m.running THEN m.gen + 1 ELSE m.gen
        /\ m'.running = m.running /\ m'.stopping = TRUE
        /\ m'.fatal = m.fatal /\ m'.stream = m.stream /\ m'.closing = m.closing
        /\ m'.startP = m.startP /\ m'.stopP = p /\ m'.up = m.up /\ m'.from = m.from
    <3> DEFINE n == IF m.startP # Nil /\ ~m.running THEN m.gen + 1 ELSE m.gen
    <3>1. n \in Nat
      BY <2>1 DEF Managers
    <3>2. m' = [m EXCEPT !.stopP = p, !.stopping = TRUE, !.gen = n]
      BY <2>1, <2>2 DEF Managers
    <3> HIDE DEF n
    <3>3. m' \in Managers
      BY <2>1, <3>1, <3>2 DEF Managers
    <3>4. /\ m'.targets = m.targets /\ m'.staged = m.staged /\ m'.cleanup = m.cleanup
          /\ m'.gen = n /\ m'.running = m.running /\ m'.stopping = TRUE
          /\ m'.fatal = m.fatal /\ m'.stream = m.stream /\ m'.closing = m.closing
          /\ m'.startP = m.startP /\ m'.stopP = p /\ m'.up = m.up /\ m'.from = m.from
      BY <2>1, <3>2 DEF Managers
    <3> QED BY <3>3, <3>4 DEF n
  <2>4. OneAtATime' /\ Typed
    BY <1>3, <2>1, <2>2, <2>3, StopBegins, Zenon
  <2>5. SyncTypeOK'
    BY <2>2, <2>3, <2>4 DEF SyncTypeOK, Typed, outside, resources
  <2>6. /\ \A x \in Starts : call'[x] = call[x]
        /\ \A x \in Stops \ {p} : call'[x] = call[x]
        /\ call'[p] \in {"awaitQueue"} \cup Starts
    BY <2>1, <2>2 DEF Goto, SyncTypeOK, Managers
  <2>7. Startup'
    BY <2>1, <2>2, <2>3, <2>6 DEF Startup, resources, Managers
  <2>10. call'[p] \notin {"awaitClose", "closeTargets"}
    BY <2>6 DEF SyncPhases
  <2>8. Running'
    BY <2>1, <2>2, <2>3, <2>6, <2>10 DEF Running, Startup, resources, Managers
  <2>9. NothingOrphaned'
    BY <2>2, <2>3 DEF NothingOrphaned, resources
  <2> QED BY <2>4, <2>5, <2>7, <2>8, <2>9
<1> QED BY <1>1, <1>2, <1>3

\* stop() waits for the startup and the queue, and closes.
LEMMA StopMovesKeep ==
  ASSUME Kept, NEW p \in Stops, StopAfterStart(p) \/ StopHalts(p) \/ StopClosed(p)
  PROVE  Kept'
<1> USE Disjoint DEF Kept
<1>1. m \in Managers /\ UNCHANGED <<outside, changeQueue, handler, resources, crashes>>
  BY DEF StopAfterStart, StopHalts, Halt, StopClosed, SyncTypeOK
<1>2. {"awaitQueue", "awaitClose", "closeTargets"} \subseteq StopPhases
  BY DEF StopPhases
<1>3. CASE StopAfterStart(p) \/ StopClosed(p)
  <2>1. PICK q \in {"awaitQueue", "closeTargets"} :
          /\ Goto(p, q) /\ m' = m
          /\ q = "awaitQueue" => call[p] \in Starts /\ Over(call[p])
          /\ q = "closeTargets" => call[p] = "awaitClose"
    BY <1>3 DEF StopAfterStart, StopClosed
  <2>2. OneAtATime' /\ Typed
    BY <1>2, <2>1, StopMoves, Zenon
  <2>3. SyncTypeOK'
    BY <1>1, <2>1, <2>2 DEF SyncTypeOK, Typed, outside, resources
  <2>4. Startup'
    BY <1>1, <2>1 DEF Startup, resources, Goto, SyncTypeOK
  <2>5. Running'
    BY <1>1, <2>1 DEF Running, resources, Goto, SyncTypeOK
  <2>6. NothingOrphaned'
    BY <1>1, <2>1 DEF NothingOrphaned, resources
  <2> QED BY <2>2, <2>3, <2>4, <2>5, <2>6
<1>4. CASE StopHalts(p)
  <2>1. /\ call[p] = "awaitQueue" /\ changeQueue = <<>> /\ handler = Nil /\ Goto(p, "awaitClose")
        /\ m' = [m EXCEPT !.gen = @ + 1, !.running = FALSE, !.stream = Nil,
                          !.closing = IF m.stream # Nil THEN m.stream ELSE @]
    BY <1>4 DEF StopHalts, Halt
  <2>2. /\ m' \in Managers
        /\ m'.targets = m.targets /\ m'.staged = m.staged /\ m'.cleanup = m.cleanup
        /\ m'.gen = m.gen + 1 /\ m'.running = FALSE /\ m'.stopping = m.stopping
        /\ m'.fatal = m.fatal /\ m'.stream = Nil
        /\ m'.closing = IF m.stream # Nil THEN m.stream ELSE m.closing
        /\ m'.startP = m.startP /\ m'.stopP = m.stopP /\ m'.up = m.up /\ m'.from = m.from
    <3> DEFINE n == m.gen + 1
               c == IF m.stream # Nil THEN m.stream ELSE m.closing
    <3>1. n \in Nat /\ c \in Nat \cup {Nil}
      BY <1>1 DEF Managers
    <3>2. m' = [m EXCEPT !.gen = n, !.running = FALSE, !.stream = Nil, !.closing = c]
      BY <1>1, <2>1 DEF Managers
    <3> HIDE DEF n, c
    <3>3. m' \in Managers
      BY <1>1, <3>1, <3>2 DEF Managers
    <3>4. /\ m'.targets = m.targets /\ m'.staged = m.staged /\ m'.cleanup = m.cleanup
          /\ m'.gen = n /\ m'.running = FALSE /\ m'.stopping = m.stopping
          /\ m'.fatal = m.fatal /\ m'.stream = Nil /\ m'.closing = c
          /\ m'.startP = m.startP /\ m'.stopP = m.stopP /\ m'.up = m.up /\ m'.from = m.from
      BY <1>1, <3>2 DEF Managers
    <3> QED BY <3>3, <3>4 DEF n, c
  <2>3. OneAtATime' /\ Typed
    BY <1>2, <2>1, <2>2, StopMoves, Zenon
  <2>4. SyncTypeOK'
    BY <1>1, <2>1, <2>2, <2>3 DEF SyncTypeOK, Typed, outside, resources
  <2>7. m.startP = Nil /\ (\A x \in Starts : call[x] \notin StartPhases)
    BY <1>2, <2>1 DEF OneAtATime, SyncTypeOK, Managers, SyncPhases
  <2>5. Startup'
    BY <1>1, <2>1, <2>2, <2>7 DEF Startup, resources, Goto, SyncTypeOK, Managers, Opening,
         StartPhases
  <2>6. Running'
    BY <1>1, <2>1, <2>2 DEF Running, resources, Goto, SyncTypeOK
  <2>8. NothingOrphaned'
    BY <1>1, <2>1, <2>2 DEF NothingOrphaned, resources, Running, SyncTypeOK
  <2> QED BY <2>3, <2>4, <2>5, <2>6, <2>8
<1> QED BY <1>3, <1>4

\* stop() is over.
LEMMA StopEndsKeep == ASSUME Kept, NEW p \in Stops, StopEnds(p) PROVE Kept'
<1> USE Disjoint DEF Kept
<1> DEFINE all == m.targets \cup m.cleanup
           t == [m EXCEPT !.stopP = Nil, !.stopping = FALSE]
<1>1. PICK failing \in SUBSET all :
        Close(all, failing, t) /\ Goto(p, IF failing = {} THEN "done" ELSE "failed")
  BY DEF StopEnds
<1>2. /\ call[p] = "closeTargets" /\ "closeTargets" \in StopPhases
      /\ m \in Managers /\ all \in SUBSET Nat
      /\ UNCHANGED <<outside, changeQueue, handler, open, cursor, crashes>>
  BY DEF StopEnds, StopPhases, SyncTypeOK, Managers
<1>3. /\ t \in Managers /\ t.gen = m.gen /\ t.running = m.running /\ t.stopping = FALSE
      /\ t.fatal = m.fatal /\ t.stream = m.stream /\ t.closing = m.closing
      /\ t.startP = m.startP /\ t.stopP = Nil /\ t.up = m.up /\ t.from = m.from
      /\ t.targets = m.targets /\ t.staged = m.staged /\ t.cleanup = m.cleanup
  BY <1>2 DEF Managers
<1>4. PICK q \in {"done", "failed"} : Goto(p, q)
  BY <1>1
<1> HIDE DEF t, all
<1>5. /\ m' \in Managers
      /\ alive' = alive \ (all \ failing)
      /\ m'.targets = t.targets \ all /\ m'.staged = t.staged \ all
      /\ m'.cleanup = (t.cleanup \ all) \cup failing
      /\ m'.gen = t.gen /\ m'.running = t.running /\ m'.stopping = t.stopping
      /\ m'.fatal = t.fatal /\ m'.stream = t.stream /\ m'.closing = t.closing
      /\ m'.startP = t.startP /\ m'.stopP = t.stopP /\ m'.up = t.up /\ m'.from = t.from
  BY <1>1, <1>2, <1>3 DEF Close, Managers
<1>6. m.startP = Nil /\ m.staged = {} /\ (\A x \in Starts : call[x] \notin StartPhases)
  BY <1>2 DEF OneAtATime, SyncTypeOK, Managers, SyncPhases, Startup
<1>7. OneAtATime' /\ Typed
  BY <1>2, <1>3, <1>4, <1>5, StopGoes, Zenon
<1>8. SyncTypeOK'
  BY <1>2, <1>3, <1>5, <1>7 DEF SyncTypeOK, Typed, outside
<1>12. handler = Nil /\ ~m.running /\ changeQueue = <<>>
  BY <1>2 DEF Running
<1>9. Startup'
  BY <1>2, <1>3, <1>4, <1>5, <1>6, <1>12 DEF Startup, SyncTypeOK, Goto, Opening, StartPhases
<1>10. Running'
  BY <1>2, <1>3, <1>4, <1>5, <1>12 DEF Running, SyncTypeOK, Goto
<1>11. NothingOrphaned'
  BY <1>2, <1>3, <1>5 DEF NothingOrphaned
<1> QED BY <1>7, <1>8, <1>9, <1>10, <1>11

\* What a fatal error of generation g does to the manager.
LEMMA FatalEffect ==
  ASSUME m \in Managers, NEW g, Fatal(g)
  PROVE  /\ m' \in Managers
         /\ m'.targets = m.targets /\ m'.staged = m.staged /\ m'.cleanup = m.cleanup
         /\ m'.gen = m.gen /\ m'.stopping = m.stopping /\ m'.startP = m.startP
         /\ m'.stopP = m.stopP /\ m'.up = m.up /\ m'.from = m.from
         /\ \/ g # m.gen /\ m' = m
            \/ g = m.gen /\ m'.fatal = TRUE /\ m'.running = FALSE /\ m'.stream = Nil
               /\ m'.closing = IF m.stream # Nil THEN m.stream ELSE m.closing
<1>1. CASE g # m.gen
  BY <1>1 DEF Fatal
<1>2. CASE g = m.gen
  <2> DEFINE c == IF m.stream # Nil THEN m.stream ELSE m.closing
  <2>1. c \in Nat \cup {Nil}
    BY DEF Managers
  <2>2. m' = [m EXCEPT !.fatal = TRUE, !.running = FALSE, !.stream = Nil, !.closing = c]
    BY <1>2 DEF Fatal, Managers
  <2> HIDE DEF c
  <2>3. m' \in Managers
    BY <2>1, <2>2 DEF Managers
  <2>4. /\ m'.targets = m.targets /\ m'.staged = m.staged /\ m'.cleanup = m.cleanup
        /\ m'.gen = m.gen /\ m'.stopping = m.stopping /\ m'.startP = m.startP
        /\ m'.stopP = m.stopP /\ m'.up = m.up /\ m'.from = m.from
        /\ m'.fatal = TRUE /\ m'.running = FALSE /\ m'.stream = Nil /\ m'.closing = c
    BY <2>2 DEF Managers
  <2> QED BY <1>2, <2>3, <2>4 DEF c
<1> QED BY <1>1, <1>2

\* A step of the stream or of a handler: no call moves, and at most the manager
\* gives up.
LEMMA FatalKeeps ==
  ASSUME Kept, SyncTypeOK', UNCHANGED <<call, open, alive>>,
         \/ UNCHANGED m
         \/ \E g : Fatal(g) /\ (handler # Nil \/ m.stream # Nil),
         changeQueue # <<>> \/ handler # Nil \/ UNCHANGED <<changeQueue, handler>>,
         handler' # Nil => \/ handler # Nil /\ handler'.gen = handler.gen
                           \/ m.running /\ handler'.gen = m.gen,
         handler' # Nil /\ handler'.at \in {"mark", "apply", "applied"} =>
           handler'.target \in Targets
  PROVE  Kept'
<1> USE Disjoint DEF Kept
<1>1. m \in Managers
  BY DEF SyncTypeOK
<1>2. /\ m' \in Managers
      /\ m'.targets = m.targets /\ m'.staged = m.staged /\ m'.cleanup = m.cleanup
      /\ m'.gen = m.gen /\ m'.stopping = m.stopping /\ m'.startP = m.startP
      /\ m'.stopP = m.stopP /\ m'.up = m.up /\ m'.from = m.from
      /\ \/ m' = m
         \/ /\ m'.fatal = TRUE /\ m'.running = FALSE /\ m'.stream = Nil
            /\ m'.closing = IF m.stream # Nil THEN m.stream ELSE m.closing
            /\ handler # Nil \/ m.stream # Nil
  BY <1>1, FatalEffect
<1>3. OneAtATime'
  BY <1>2, CallsStay, Zenon
<1>4. m.running <=> m.stream # Nil
  BY DEF SyncTypeOK
<1>5. Startup'
  <2>1. \A s \in Starts : call[s] \in StartPhases \ {"settle"} => m.startP # Nil
    BY DEF OneAtATime
  <2>2. \A s \in Starts : call[s] \in StartPhases \ {"settle"} => m' = m
          /\ UNCHANGED <<changeQueue, handler>>
    BY <1>2, <1>4, <2>1 DEF Startup
  <2> QED BY <1>2, <2>2 DEF Startup
<1>6. Running'
  <2>1. handler' # Nil => handler'.gen \in alive
    BY DEF Running
  <2>2. (handler # Nil /\ m.running => handler.gen = m.gen)'
    BY <1>2 DEF Running
  <2>3. \A p \in Stops : call[p] \in {"awaitClose", "closeTargets"} =>
           ~m'.running /\ changeQueue' = <<>> /\ handler' = Nil
    BY <1>2 DEF Running
  <2>4. (handler # Nil /\ handler.at \in {"mark", "apply", "applied"} =>
          handler.target \in Targets)'
    OBVIOUS
  <2> QED BY <1>2, <2>1, <2>2, <2>3, <2>4 DEF Running
<1>7. NothingOrphaned'
  BY <1>2, <1>4 DEF NothingOrphaned, Running
<1> QED BY <1>3, <1>5, <1>6, <1>7

\* The stream delivers, breaks or closes.
LEMMA StreamKeeps ==
  ASSUME Kept, \/ Produce \/ StreamClosed \/ \E g \in open : StreamBreaks(g) \/ Emit(g)
  PROVE  Kept'
<1> USE Disjoint DEF Kept
<1>1. m \in Managers /\ open \subseteq Nat
  BY DEF SyncTypeOK
<1>2. CASE Produce
  <2>1. SyncTypeOK'
    BY <1>2, SyncAssumption DEF SyncTypeOK, Produce, resources
  <2> QED BY <1>2, <2>1, FatalKeeps DEF Produce, resources, Running
<1>3. CASE StreamClosed
  <2>1. /\ m.closing # Nil /\ open' = open \ {m.closing} /\ cursor' = [g \in open' |-> cursor[g]]
        /\ m' = [m EXCEPT !.closing = Nil]
        /\ UNCHANGED <<outside, call, changeQueue, handler, alive, crashes>>
    BY <1>3 DEF StreamClosed
  <2>2. /\ m' \in Managers
        /\ m'.targets = m.targets /\ m'.staged = m.staged /\ m'.cleanup = m.cleanup
        /\ m'.gen = m.gen /\ m'.running = m.running /\ m'.stopping = m.stopping
        /\ m'.fatal = m.fatal /\ m'.stream = m.stream /\ m'.closing = Nil
        /\ m'.startP = m.startP /\ m'.stopP = m.stopP /\ m'.up = m.up /\ m'.from = m.from
    BY <1>1, <2>1 DEF Managers
  <2>3. OneAtATime' /\ Typed
    BY <2>1, <2>2, CallsStay, Zenon
  <2>4. SyncTypeOK'
    BY <2>1, <2>2, <2>3 DEF SyncTypeOK, Typed, outside
  <2>5. Startup' /\ Running'
    BY <2>1, <2>2 DEF Startup, Running
  <2>6. NothingOrphaned'
    BY <2>1, <2>2 DEF NothingOrphaned
  <2> QED BY <2>3, <2>4, <2>5, <2>6
<1>4. ASSUME NEW g \in open, StreamBreaks(g) PROVE Kept'
  <2>1. /\ g = m.stream /\ Fatal(g)
        /\ UNCHANGED <<outside, call, changeQueue, handler, open, cursor, alive, crashes>>
    BY <1>4 DEF StreamBreaks, resources
  <2>2. m' \in Managers /\ (m'.running <=> m'.stream # Nil)
    BY <1>1, <2>1, FatalEffect DEF SyncTypeOK
  <2>3. SyncTypeOK'
    BY <2>1, <2>2 DEF SyncTypeOK, outside
  <2> QED BY <1>1, <2>1, <2>3, FatalKeeps DEF Running
<1>5. ASSUME NEW g \in open, Emit(g) PROVE Kept'
  <2>1. /\ cursor' = [cursor EXCEPT ![g] = @ + 1] /\ cursor[g] < log
        /\ changeQueue' = IF Stale(g) \/ m.stopping THEN changeQueue
                          ELSE Append(changeQueue, [gen |-> g, event |-> cursor[g] + 1])
        /\ UNCHANGED <<outside, m, call, handler, open, alive, crashes>>
    BY <1>5 DEF Emit
  <2>2. cursor[g] \in 0..MaxEvents /\ log \in 0..MaxEvents /\ MaxEvents \in Nat /\ g \in Nat
    BY <1>1, SyncAssumption DEF SyncTypeOK
  <2>3. cursor[g] + 1 \in 1..MaxEvents
    BY <2>1, <2>2
  <2>4. [gen |-> g, event |-> cursor[g] + 1] \in [gen : Nat, event : 1..MaxEvents]
    BY <2>2, <2>3
  <2>5. changeQueue' \in Seq([gen : Nat, event : 1..MaxEvents])
    <3> DEFINE S == [gen : Nat, event : 1..MaxEvents]
    <3>1. changeQueue \in Seq(S) /\ [gen |-> g, event |-> cursor[g] + 1] \in S
      BY <2>4 DEF SyncTypeOK
    <3> HIDE DEF S
    <3>2. changeQueue' \in Seq(S)
      BY <2>1, <3>1
    <3> QED BY <3>2 DEF S
  <2>6. cursor' \in [open -> 0..MaxEvents]
    BY <2>1, <2>3 DEF SyncTypeOK
  <2>7. SyncTypeOK'
    BY <2>1, <2>5, <2>6 DEF SyncTypeOK, outside
  <2>8. OneAtATime'
    BY <2>1, CallsStay, Zenon
  <2>9. changeQueue' # changeQueue => m.running
    BY <2>1 DEF Stale
  <2>10. Startup'
    BY <1>5, <2>1 DEF Startup
  <2>11. Running'
    BY <2>1, <2>9 DEF Running
  <2>12. NothingOrphaned'
    BY <2>1 DEF NothingOrphaned
  <2> QED BY <2>7, <2>8, <2>10, <2>11, <2>12
<1> QED BY <1>2, <1>3, <1>4, <1>5

\* The process dies and comes back with what it has stored.
LEMMA DeathKeeps == ASSUME Kept, ProcessDies PROVE Kept'
<1> USE Disjoint DEF Kept
<1>1. m' = Fresh /\ changeQueue' = <<>> /\ handler' = Nil
      /\ open' = {} /\ cursor' = [g \in {} |-> 0] /\ alive' = {} /\ UNCHANGED outside
      /\ crashes' = crashes + 1 /\ crashes < MaxCrashes
      /\ \A x \in Calls : call'[x] \in {"idle", "failed"}
  BY DEF ProcessDies, SyncTypeOK
<1>2. /\ m' \in Managers
      /\ m'.targets = {} /\ m'.staged = {} /\ m'.cleanup = {}
      /\ m'.gen = 0 /\ m'.running = FALSE /\ m'.stopping = FALSE
      /\ m'.fatal = FALSE /\ m'.stream = Nil /\ m'.closing = Nil
      /\ m'.startP = Nil /\ m'.stopP = Nil /\ m'.up = 0 /\ m'.from = 0
  BY <1>1, SyncAssumption DEF Managers, Fresh
<1>3. OneAtATime' /\ Typed
  BY CallsDie
<1>4. SyncTypeOK'
  BY <1>1, <1>2, <1>3, SyncAssumption DEF SyncTypeOK, Typed, outside
<1>5. Startup'
  BY <1>1, <1>2 DEF Startup, StartPhases, Opening
<1>6. Running'
  BY <1>1, <1>2 DEF Running
<1>7. NothingOrphaned'
  BY <1>1, <1>2 DEF NothingOrphaned
<1> QED BY <1>3, <1>4, <1>5, <1>6, <1>7

\* What a step may make of the event in hand.
HandlerMoves ==
  /\ handler' \in Handlers
  /\ handler'.gen = handler.gen /\ handler'.event = handler.event
  /\ handler'.at \in {"mark", "apply", "applied"} => handler'.target \in Targets

\* A step forgets the event in hand, or goes on with it.
LEMMA HandlerSteps ==
  ASSUME handler \in Handlers,
         handler.at \in {"mark", "apply", "applied"} => handler.target \in Targets,
         \/ NextTarget \/ Send \/ Applied \/ MarkApplied \/ TargetFails \/ AllServed
         \/ SaveToken \/ SaveFails
  PROVE  handler' = Nil \/ HandlerMoves
<1>1. CASE NextTarget
  <2>1. CASE \E t \in handler.todo :
            handler' = [handler EXCEPT !.todo = @ \ {t}, !.target = t,
                          !.at = IF <<t, handler.event>> \in marks THEN "next" ELSE "mark"]
    <3>1. PICK t \in handler.todo :
            handler' = [handler EXCEPT !.todo = @ \ {t}, !.target = t,
                          !.at = IF <<t, handler.event>> \in marks THEN "next" ELSE "mark"]
      BY <2>1
    <3> DEFINE a == IF <<t, handler.event>> \in marks THEN "next" ELSE "mark"
    <3>2. t \in Targets /\ a \in {"next", "mark"}
      BY DEF Handlers
    <3>3. handler' = [handler EXCEPT !.todo = @ \ {t}, !.target = t, !.at = a]
      BY <3>1
    <3> HIDE DEF a
    <3> QED BY <3>2, <3>3 DEF HandlerMoves, Handlers
  <2> QED BY <1>1, <2>1 DEF NextTarget, GiveUp
<1>2. CASE Send
  BY <1>2 DEF Send, HandlerAt, HandlerMoves, Handlers
<1>3. CASE Applied
  BY <1>3 DEF Applied, HandlerAt, HandlerMoves, Handlers
<1>4. CASE MarkApplied
  BY <1>4 DEF MarkApplied, GiveUp, HandlerAt, HandlerMoves, Handlers
<1>5. CASE TargetFails
  BY <1>5 DEF TargetFails, HandlerMoves, Handlers
<1>6. CASE AllServed
  BY <1>6 DEF AllServed, HandlerAt, HandlerMoves, Handlers
<1>7. CASE SaveToken \/ SaveFails
  BY <1>7 DEF SaveToken, SaveFails
<1> QED BY <1>1, <1>2, <1>3, <1>4, <1>5, <1>6, <1>7

\* What a step may store.
LEMMA HandlerOutcome ==
  ASSUME \/ NextTarget \/ Send \/ Applied \/ MarkApplied \/ TargetFails \/ AllServed
         \/ SaveToken \/ SaveFails
  PROVE  /\ token' \in {token, handler.event}
         /\ marks' = marks \/ (handler.at \in {"mark", "applied"} /\ Mark)
         /\ applied' = applied \/ (handler.at = "apply" /\ TargetApplies)
<1>1. CASE NextTarget \/ AllServed
  BY <1>1 DEF NextTarget, GiveUp, AllServed, outside
<1>2. CASE Send
  BY <1>2 DEF Send, HandlerAt
<1>3. CASE Applied
  BY <1>3 DEF Applied, HandlerAt
<1>4. CASE MarkApplied
  BY <1>4 DEF MarkApplied, GiveUp, HandlerAt
<1>5. CASE TargetFails
  BY <1>5 DEF TargetFails, Rejected, HandlerAt
<1>6. CASE SaveToken \/ SaveFails
  BY <1>6 DEF SaveToken, SaveFails
<1> QED BY <1>1, <1>2, <1>3, <1>4, <1>5, <1>6

\* One event of the queue is handled.
LEMMA HandleKeeps == ASSUME Kept, Handle PROVE Kept'
<1> USE Disjoint DEF Kept
<1>1. m \in Managers /\ (handler # Nil => handler \in Handlers)
        /\ marks \subseteq Targets \X (1..MaxEvents)
      /\ applied \in [Targets -> SUBSET (1..MaxEvents)] /\ token \in 0..MaxEvents \cup {Nil}
  BY DEF SyncTypeOK
<1>2. CASE Take
  <2>1. /\ handler = Nil /\ changeQueue # <<>> /\ changeQueue' = Tail(changeQueue)
        /\ handler' = IF Stale(Head(changeQueue).gen) THEN Nil
                      ELSE [gen |-> Head(changeQueue).gen, event |-> Head(changeQueue).event,
                            at |-> "next", err |-> FALSE, target |-> Nil,
                            todo |-> {t \in Targets : Head(changeQueue).event \in Wants[t]}]
        /\ UNCHANGED <<outside, m, call, resources, crashes>>
    BY <1>2 DEF Take
  <2>2. Head(changeQueue) \in [gen : Nat, event : 1..MaxEvents]
        /\ changeQueue' \in Seq([gen : Nat, event : 1..MaxEvents])
    <3> DEFINE S == [gen : Nat, event : 1..MaxEvents]
    <3>1. changeQueue \in Seq(S)
      BY DEF SyncTypeOK
    <3> HIDE DEF S
    <3>2. Head(changeQueue) \in S /\ changeQueue' \in Seq(S)
      BY <2>1, <3>1
    <3> QED BY <3>2 DEF S
  <2>3. handler' \in Handlers \cup {Nil}
        /\ (handler' # Nil => handler'.gen = m.gen /\ m.running)
    BY <2>1, <2>2 DEF Handlers, Stale
  <2>4. SyncTypeOK'
    BY <2>1, <2>2, <2>3 DEF SyncTypeOK, outside, resources
  <2>5. handler' # Nil => handler'.at = "next"
    BY <2>1
  <2> QED BY <2>1, <2>3, <2>4, <2>5, FatalKeeps DEF resources
<1>3. CASE ~Take
  <2>1. /\ handler # Nil /\ UNCHANGED <<call, open, cursor, alive, changeQueue, crashes, log>>
    BY <1>3 DEF Handle, NextTarget, Send, Applied, MarkApplied, TargetFails, Rejected, AllServed,
         SaveToken, SaveFails, HandlerAt, resources, outside
  <2>2. UNCHANGED m \/ Fatal(handler.gen)
    BY <1>3 DEF Handle, NextTarget, Send, Applied, MarkApplied, TargetFails, Rejected, AllServed,
         SaveToken, SaveFails, GiveUp, outside
  <2>9. handler \in Handlers /\ handler.gen \in Nat /\ handler.event \in 1..MaxEvents
        /\ (handler.at \in {"mark", "apply", "applied"} => handler.target \in Targets)
    BY <1>1, <2>1 DEF Handlers, Running
  <2>10. handler' = Nil \/ HandlerMoves
    BY <1>3, <2>1, <2>9, HandlerSteps DEF Handle
  <2>3. handler' # Nil => handler' \in Handlers /\ handler'.gen = handler.gen
    BY <2>9, <2>10 DEF HandlerMoves
  <2>4. m' \in Managers /\ (m'.running <=> m'.stream # Nil)
    BY <1>1, <2>2, FatalEffect DEF SyncTypeOK
  <2>5. token' \in 0..MaxEvents \cup {Nil} /\ marks' \subseteq Targets \X (1..MaxEvents)
        /\ applied' \in [Targets -> SUBSET (1..MaxEvents)]
    <3>1. token' \in {token, handler.event}
      BY <1>3, <2>1, HandlerOutcome DEF Handle
    <3>2. marks' = marks \/ (handler.at \in {"mark", "applied"} /\ Mark)
      BY <1>3, <2>1, HandlerOutcome DEF Handle
    <3>3. applied' = applied \/ (handler.at = "apply" /\ TargetApplies)
      BY <1>3, <2>1, HandlerOutcome DEF Handle
    <3> QED BY <1>1, <2>9, <3>1, <3>2, <3>3 DEF Mark, TargetApplies
  <2>8. SyncTypeOK'
    BY <2>1, <2>3, <2>4, <2>5 DEF SyncTypeOK
  <2> QED BY <2>1, <2>2, <2>3, <2>8, <2>10, <2>9, FatalKeeps DEF HandlerMoves
<1> QED BY <1>2, <1>3

\* The sync is stopped at first.
LEMMA KeptAtFirst == SyncInit => Kept
<1> SUFFICES ASSUME SyncInit PROVE Kept
  OBVIOUS
<1> USE Disjoint
<1>1. /\ m \in Managers
      /\ m.targets = {} /\ m.staged = {} /\ m.cleanup = {}
      /\ m.gen = 0 /\ m.running = FALSE /\ m.stopping = FALSE
      /\ m.fatal = FALSE /\ m.stream = Nil /\ m.closing = Nil
      /\ m.startP = Nil /\ m.stopP = Nil /\ m.up = 0 /\ m.from = 0
  BY SyncAssumption DEF SyncInit, Managers, Fresh
<1>2. SyncTypeOK
  BY <1>1, SyncAssumption DEF SyncInit, SyncTypeOK, SyncPhases
<1>3. OneAtATime /\ Startup
  BY <1>1 DEF SyncInit, OneAtATime, Startup, StartPhases, StopPhases, Opening, SyncPhases
<1>4. Running /\ NothingOrphaned
  BY <1>1 DEF SyncInit, Running, NothingOrphaned, SyncPhases
<1> QED BY <1>2, <1>3, <1>4 DEF Kept

\* Every step of the sync keeps the invariant.
LEMMA KeptAlways == Kept /\ [SyncNext]_syncVars => Kept'
<1> SUFFICES ASSUME Kept, [SyncNext]_syncVars PROVE Kept'
  OBVIOUS
<1>1. CASE UNCHANGED syncVars
  BY <1>1 DEF Kept, syncVars, outside, resources, SyncTypeOK, OneAtATime, Over, Startup, Running,
       NothingOrphaned
<1>2. ASSUME NEW s \in Starts, StartStep(s) PROVE Kept'
  BY <1>2, StartCallsKeep, SettledKeeps, CloseOldKeeps, ResolveKeeps, OpeningKeeps, GoLiveKeeps,
     UnwindKeeps DEF StartStep
<1>3. ASSUME NEW p \in Stops, StopStep(p) PROVE Kept'
  BY <1>3, StopCallsKeep, StopMovesKeep, StopEndsKeep DEF StopStep
<1>4. CASE Produce \/ StreamClosed \/ \E g \in open : Emit(g) \/ StreamBreaks(g)
  BY <1>4, StreamKeeps
<1> QED BY <1>1, <1>2, <1>3, <1>4, HandleKeeps, DeathKeeps DEF SyncNext

(***************************************************************************)
(* However start(), stop(), stream errors, failing targets and crashes     *)
(* overlap, every open stream and every target with connections is known   *)
(* to the manager, and no target is closed while an event is applied to it.*)
(***************************************************************************)
THEOREM StreamsAreKept == SyncSpec => []ConnectionsKept
<1>1. Kept => ConnectionsKept
  BY DEF Kept, ConnectionsKept, TargetsStayOpen, HandlerAt, Running
<1> QED BY <1>1, KeptAtFirst, KeptAlways, PTL DEF SyncSpec

-----------------------------------------------------------------------------
(* Delivery.                                                               *)

InHand == IF handler = Nil THEN 0 ELSE 1

\* The event in hand and those that wait are the ones right behind the stored token.
InOrder ==
  /\ handler # Nil => token # Nil /\ handler.event = token + 1 /\ handler.event <= log
  /\ \A g \in open : cursor[g] <= log
  /\ \A i \in 1..Len(changeQueue) : changeQueue[i].event <= log
  /\ m.running => token # Nil
  /\ m.running => \A i \in 1..Len(changeQueue) :
       changeQueue[i].gen = m.gen /\ changeQueue[i].event = token + i + InHand
  /\ m.running /\ ~m.stopping => cursor[m.up] = token + Len(changeQueue) + InHand
  /\ \A s \in Starts : call[s] = "hello" => token = Nil
  /\ \A s \in Starts : call[s] = "anchor" => token = Nil /\ m.from <= log
  /\ \A s \in Starts : call[s] = "probe" => token # Nil /\ m.from = token
  /\ token # Nil => token <= log

\* What has been done for the event in hand: unless a target has failed, every target
\* it concerns has applied it, is being served, or is still to be.
Served ==
  /\ \A q \in marks : q[2] \in applied[q[1]]
  /\ handler # Nil =>
       /\ handler.at \in {"mark", "apply", "applied"} => handler.event \in Wants[handler.target]
       /\ \A t \in handler.todo : handler.event \in Wants[t]
       /\ handler.at = "applied" => handler.event \in applied[handler.target]
       /\ handler.at = "save" => ~handler.err /\ handler.todo = {}
       /\ ~handler.err => \A t \in Targets : handler.event \in Wants[t] =>
            \/ t \in handler.todo \/ handler.event \in applied[t]
            \/ t = handler.target /\ handler.at \in {"mark", "apply"}

\* Steps that touch neither the log, the queue nor the handler keep the order.
LEMMA OrderStays ==
  ASSUME Kept, InOrder, UNCHANGED <<log, token, changeQueue, handler, open, cursor>>,
         m'.running => m.running /\ m'.gen = m.gen /\ m'.up = m.up,
         m'.running /\ ~m'.stopping => ~m.stopping,
         \A s \in Starts : call'[s] \in {"hello", "anchor", "probe"} =>
           call'[s] = call[s] /\ m'.from = m.from
  PROVE  InOrder'
BY DEF InOrder, InHand

\* The steps of start() keep the events in order.
LEMMA CallsKeepOrder ==
  ASSUME Kept, InOrder, NEW s \in Starts,
         \/ StartCall(s) \/ StartAfterStop(s) \/ StartJoined(s) \/ Settled(s) \/ CloseOld(s)
         \/ Resolve(s) \/ ResolveFails(s) \/ Unwind(s)
  PROVE  InOrder'
<1> USE Disjoint DEF Kept
<1>1. m \in Managers /\ call \in [Calls -> SyncPhases \cup Calls]
  BY DEF SyncTypeOK
<1>2. /\ UNCHANGED <<log, token, changeQueue, handler, open, cursor>>
      /\ \E q \in {"settle", "closeOld", "resolve", "load", "unwind", "done", "failed"} \cup Calls :
            Goto(s, q)
  <2>1. CASE StartCall(s)
    BY <1>1, <2>1 DEF StartCall, StartBody, outside, resources, Managers
  <2>2. CASE StartAfterStop(s)
    BY <1>1, <2>2 DEF StartAfterStop, StartBody, outside, resources, Managers
  <2>3. CASE StartJoined(s)
    BY <1>1, <2>3 DEF StartJoined, outside, resources, Over
  <2>4. CASE Settled(s)
    BY <1>1, <2>4 DEF Settled, EndStartup, outside, resources
  <2>5. CASE CloseOld(s)
    BY <1>1, <2>5 DEF CloseOld, outside
  <2>6. CASE Resolve(s) \/ ResolveFails(s)
    BY <1>1, <2>6 DEF Resolve, ResolveFails, Proceed, EndStartup, outside
  <2>7. CASE Unwind(s)
    BY <1>1, <2>7 DEF Unwind, outside
  <2> QED BY <2>1, <2>2, <2>3, <2>4, <2>5, <2>6, <2>7
<1>3. PICK q \in {"settle", "closeOld", "resolve", "load", "unwind", "done", "failed"} \cup Calls :
            Goto(s, q)
  BY <1>2
<1>4. q \notin {"hello", "anchor", "probe"}
  BY DEF SyncPhases
<1>5. \A x \in Starts : call'[x] = IF x = s THEN q ELSE call[x]
  BY <1>1, <1>3 DEF Goto
<1>6. m'.running = m.running /\ m'.stopping = m.stopping /\ m'.from = m.from
      /\ (m.running => m'.gen = m.gen /\ m'.up = m.up)
  <2>1. CASE StartCall(s)
    BY <1>1, <2>1 DEF StartCall, StartBody, Managers
  <2>2. CASE StartAfterStop(s)
    BY <1>1, <2>2 DEF StartAfterStop, StartBody, Managers
  <2>3. CASE StartJoined(s)
    BY <1>1, <2>3 DEF StartJoined
  <2>4. CASE Settled(s)
    BY <1>1, <2>4 DEF Settled, EndStartup, Managers
  <2>5. CASE CloseOld(s)
    <3>1. \E all, failing : Close(all, failing, m) \/ Close(all, failing, [m EXCEPT !.startP = Nil])
      BY <2>5 DEF CloseOld
    <3> QED BY <1>1, <3>1 DEF Close, Managers
  <2>6. CASE Resolve(s) \/ ResolveFails(s)
    BY <1>1, <2>6 DEF Resolve, ResolveFails, Proceed, EndStartup, Managers
  <2>7. CASE Unwind(s)
    <3>1. \E all, failing : Close(all, failing, [m EXCEPT !.startP = Nil])
      BY <2>7 DEF Unwind
    <3> QED BY <1>1, <3>1 DEF Close, Managers
  <2> QED BY <2>1, <2>2, <2>3, <2>4, <2>5, <2>6, <2>7
<1> QED BY <1>2, <1>4, <1>5, <1>6, OrderStays

\* The steps of stop() keep the events in order.
LEMMA StopsKeepOrder ==
  ASSUME Kept, InOrder, NEW p \in Stops, StopStep(p) PROVE InOrder'
<1> USE Disjoint DEF Kept
<1>1. m \in Managers /\ call \in [Calls -> SyncPhases \cup Calls]
  BY DEF SyncTypeOK
<1>2. UNCHANGED <<log, token, changeQueue, handler, open, cursor>> /\ \E q : Goto(p, q)
  BY DEF StopStep, StopCall, StopAfterStart, StopJoined, StopHalts, Halt, StopClosed, StopEnds,
     outside, resources
<1>3. \A x \in Starts : call'[x] = call[x]
  BY <1>1, <1>2 DEF Goto
<1>4. m'.from = m.from /\ (m'.running => m.running /\ m'.gen = m.gen /\ m'.up = m.up)
      /\ (m'.running /\ ~m'.stopping => ~m.stopping)
  <2>1. CASE StopCall(p)
    BY <1>1, <2>1 DEF StopCall, Managers
  <2>2. CASE StopAfterStart(p) \/ StopJoined(p) \/ StopClosed(p)
    BY <2>2 DEF StopAfterStart, StopJoined, StopClosed
  <2>3. CASE StopHalts(p)
    BY <1>1, <2>3 DEF StopHalts, Halt, Managers
  <2>4. CASE StopEnds(p)
    <3>1. \E all, failing : Close(all, failing, [m EXCEPT !.stopP = Nil, !.stopping = FALSE])
      BY <2>4 DEF StopEnds
    <3>2. ~m.running
      BY <2>4 DEF StopEnds, Running
    <3> QED BY <1>1, <3>1, <3>2 DEF Close, Managers
  <2> QED BY <2>1, <2>2, <2>3, <2>4 DEF StopStep
<1> QED BY <1>2, <1>3, <1>4, OrderStays

\* A stream is opened where the marks say.
LEMMA OpeningKeepsOrder ==
  ASSUME Kept, InOrder, NEW s \in Starts, Load(s) \/ Hello(s) \/ SaveAnchor(s) \/ StartupFails(s)
  PROVE  InOrder'
<1> USE Disjoint DEF Kept
<1>1. m \in Managers /\ call \in [Calls -> SyncPhases \cup Calls]
      /\ token \in 0..MaxEvents \cup {Nil} /\ log \in 0..MaxEvents /\ MaxEvents \in Nat
  BY SyncAssumption DEF SyncTypeOK
<1>2. /\ call[s] \in Opening
      /\ UNCHANGED <<log, applied, marks, changeQueue, handler, open, cursor>>
  BY DEF Load, Hello, SaveAnchor, StartupFails, Opening, outside, resources
<1>3. m.startP = s /\ ~m.running /\ handler = Nil /\ changeQueue = <<>>
  BY <1>2 DEF OneAtATime, Startup, Opening, StartPhases
<1>4. \A x \in Starts \ {s} : call[x] \notin {"hello", "anchor", "probe"}
  BY <1>3 DEF OneAtATime, StartPhases
<1>5. \A x \in Starts \ {s} : call'[x] = call[x]
  BY <1>1 DEF Load, Hello, SaveAnchor, StartupFails, Proceed, Goto
<1>6. ~m'.running
  BY <1>1, <1>3 DEF Load, Hello, SaveAnchor, StartupFails, Proceed, Managers
<1>7. /\ call'[s] = "hello" => token' = Nil
      /\ call'[s] = "anchor" => token' = Nil /\ m'.from <= log'
      /\ call'[s] = "probe" => token' # Nil /\ m'.from = token'
      /\ token' # Nil => token' <= log'
  <2>1. CASE Load(s)
    BY <1>1, <2>1 DEF Load, Proceed, Goto, outside, Managers, InOrder
  <2>2. CASE Hello(s)
    BY <1>1, <2>2 DEF Hello, Proceed, Goto, outside, Managers, InOrder
  <2>3. CASE SaveAnchor(s)
    BY <1>1, <2>3 DEF SaveAnchor, Proceed, Goto, Managers, InOrder
  <2>4. CASE StartupFails(s)
    BY <1>1, <2>4 DEF StartupFails, Goto, Managers, InOrder
  <2> QED BY <2>1, <2>2, <2>3, <2>4
<1> QED BY <1>2, <1>3, <1>4, <1>5, <1>6, <1>7 DEF InOrder

\* A stream goes live from its anchor.
LEMMA GoLiveKeepsOrder == ASSUME Kept, InOrder, NEW s \in Starts, GoLive(s) PROVE InOrder'
<1> USE Disjoint DEF Kept
<1>1. m \in Managers /\ call \in [Calls -> SyncPhases \cup Calls]
      /\ token \in 0..MaxEvents \cup {Nil} /\ log \in 0..MaxEvents /\ MaxEvents \in Nat
  BY SyncAssumption DEF SyncTypeOK
<1>2. /\ call[s] = "probe"
      /\ UNCHANGED <<log, token, applied, marks, changeQueue, handler>>
  BY DEF GoLive, outside
<1>3. open = {} /\ handler = Nil /\ changeQueue = <<>>
  BY <1>2 DEF OneAtATime, Startup, Opening, StartPhases
<1>4. token # Nil /\ m.from = token
  BY <1>2 DEF InOrder
<1>5. CASE m.up # m.gen
  <2>1. Goto(s, "unwind") /\ UNCHANGED <<m, open, cursor>>
    BY <1>5 DEF GoLive, Current
  <2> QED BY <1>1, <1>2, <2>1, OrderStays DEF Goto
<1>6. CASE m.up = m.gen
  <2>1. m' = [m EXCEPT !.targets = @ \cup m.staged, !.staged = {}, !.stream = m.up,
                       !.running = TRUE, !.startP = Nil]
        /\ Goto(s, "done") /\ open' = {m.up}
             /\ cursor' = [g \in open' |-> IF g = m.up THEN m.from ELSE cursor[g]]
    BY <1>1, <1>3, <1>6 DEF GoLive, Current, EndStartup, Managers
  <2>2. m'.up = m.up /\ m'.from = m.from /\ m'.gen = m.gen
    BY <1>1, <2>1 DEF Managers
  <2>3. \A x \in Starts : call'[x] = IF x = s THEN "done" ELSE call[x]
    BY <1>1, <2>1 DEF Goto
  <2>4. cursor' = [g \in {m.up} |-> m.from]
    BY <2>1
  <2>5. Len(changeQueue) = 0
    BY <1>3
  <2> QED BY <1>1, <1>2, <1>3, <1>4, <2>1, <2>2, <2>3, <2>4, <2>5 DEF InOrder, InHand
<1> QED BY <1>5, <1>6

\* The entries of the queue have their types.
LEMMA Waiting ==
  ASSUME SyncTypeOK
  PROVE  \A i \in 1..Len(changeQueue) :
           changeQueue[i].gen \in Nat /\ changeQueue[i].event \in 1..MaxEvents
<1> DEFINE S == [gen : Nat, event : 1..MaxEvents]
<1>1. changeQueue \in Seq(S)
  BY DEF SyncTypeOK
<1>2. \A x \in S : x.gen \in Nat /\ x.event \in 1..MaxEvents
  OBVIOUS
<1> HIDE DEF S
<1>3. \A i \in 1..Len(changeQueue) : changeQueue[i] \in S
  BY <1>1
<1> QED BY <1>2, <1>3

\* The stream hands events over in order.
LEMMA StreamKeepsOrder ==
  ASSUME Kept, InOrder, \/ Produce \/ StreamClosed \/ ProcessDies
                        \/ \E g \in open : StreamBreaks(g) \/ Emit(g)
  PROVE  InOrder'
<1> USE Disjoint DEF Kept
<1>1. m \in Managers /\ token \in 0..MaxEvents \cup {Nil} /\ log \in 0..MaxEvents
        /\ MaxEvents \in Nat
      /\ open \subseteq Nat /\ cursor \in [open -> 0..MaxEvents]
      /\ changeQueue \in Seq([gen : Nat, event : 1..MaxEvents])
      /\ (handler # Nil => handler \in Handlers)
      /\ call \in [Calls -> SyncPhases \cup Calls]
  BY SyncAssumption DEF SyncTypeOK
<1>2. CASE Produce
  <2>1. log' = log + 1 /\ UNCHANGED <<token, m, call, changeQueue, handler, open, cursor>>
    BY <1>2 DEF Produce, resources
  <2>2. \A i \in 1..Len(changeQueue) : changeQueue[i].event \in 1..MaxEvents
    BY Waiting
  <2>3. handler # Nil => handler.event \in Nat
    BY <1>1 DEF Handlers
  <2>4. \A g \in open : cursor[g] <= log'
    BY <1>1, <2>1 DEF InOrder
  <2>5. \A i \in 1..Len(changeQueue) : changeQueue[i].event <= log'
    BY <1>1, <2>1, <2>2 DEF InOrder
  <2>6. handler # Nil => handler.event <= log'
    BY <1>1, <2>1, <2>3 DEF InOrder
  <2>7. (token # Nil => token <= log') /\ (m.from <= log => m.from <= log')
    BY <1>1, <2>1 DEF InOrder, Managers
  <2> QED BY <2>1, <2>4, <2>5, <2>6, <2>7 DEF InOrder, InHand
<1>3. CASE StreamClosed
  <2>1. /\ m.closing # Nil /\ open' = open \ {m.closing} /\ cursor' = [g \in open' |-> cursor[g]]
        /\ m' = [m EXCEPT !.closing = Nil]
        /\ UNCHANGED <<log, token, call, changeQueue, handler>>
    BY <1>3 DEF StreamClosed, outside
  <2>2. m'.running = m.running /\ m'.from = m.from /\ ~m.running
    BY <1>1, <2>1 DEF Managers, Running
  <2>3. \A g \in open' : cursor'[g] <= log
    BY <1>1, <2>1 DEF InOrder
  <2> QED BY <2>1, <2>2, <2>3 DEF InOrder
<1>4. ASSUME NEW g \in open, StreamBreaks(g) PROVE InOrder'
  <2>1. g = m.stream /\ Fatal(g)
          /\ UNCHANGED <<log, token, call, changeQueue, handler, open, cursor>>
    BY <1>4 DEF StreamBreaks, outside, resources
  <2>2. m' = m \/ ~m'.running
    BY <1>1, <2>1, FatalEffect
  <2>3. m'.from = m.from
    BY <1>1, <2>1, FatalEffect
  <2> QED BY <2>1, <2>2, <2>3, OrderStays
<1>5. ASSUME NEW g \in open, Emit(g) PROVE InOrder'
  <2>1. /\ cursor' = [cursor EXCEPT ![g] = @ + 1] /\ cursor[g] < log
        /\ changeQueue' = IF Stale(g) \/ m.stopping THEN changeQueue
                          ELSE Append(changeQueue, [gen |-> g, event |-> cursor[g] + 1])
        /\ UNCHANGED <<log, token, m, call, handler, open>>
    BY <1>5 DEF Emit, outside
  <2>2. cursor[g] \in Nat /\ g \in Nat /\ cursor'[g] = cursor[g] + 1
        /\ (\A x \in open : x # g => cursor'[x] = cursor[x])
    BY <1>1, <2>1
  <2>3. \A x \in open : cursor'[x] <= log
    BY <1>1, <2>1, <2>2 DEF InOrder
  <2>4. CASE Stale(g) \/ m.stopping
    <3>1. m.running => g = m.up
      BY <1>1, <1>5 DEF Running, NothingOrphaned
    <3>2. m.running => m.stopping
      BY <2>4, <3>1 DEF Stale, Running
    <3>3. changeQueue' = changeQueue
      BY <2>1, <2>4
    <3> QED BY <2>1, <2>3, <3>2, <3>3 DEF InOrder, InHand
  <2>5. CASE ~(Stale(g) \/ m.stopping)
    <3> DEFINE e == [gen |-> g, event |-> cursor[g] + 1]
               n == Len(changeQueue)
    <3>1. m.running /\ ~m.stopping /\ g = m.gen /\ g = m.up
      BY <2>5 DEF Stale, Running
    <3>2. changeQueue' = Append(changeQueue, e) /\ e.gen = g /\ e.event = cursor[g] + 1
      BY <2>1, <2>5
    <3>3. n \in Nat /\ Len(changeQueue') = n + 1 /\ changeQueue'[n + 1] = e
          /\ \A i \in 1..n : changeQueue'[i] = changeQueue[i]
      BY <1>1, <3>2
    <3>4. InHand \in {0, 1} /\ token \in Nat /\ cursor[g] = token + n + InHand
      BY <1>1, <3>1 DEF InOrder, InHand
    <3> HIDE DEF e, n
    <3>5. cursor[g] + 1 = token + (n + 1) + InHand /\ cursor[g] + 1 <= log
      BY <1>1, <2>1, <2>2, <3>3, <3>4
    <3>6. \A i \in 1..(n + 1) : i \in 1..n \/ i = n + 1
      BY <3>3
    <3>7. \A i \in 1..n : changeQueue[i].event <= log /\ changeQueue[i].gen = m.gen
             /\ changeQueue[i].event = token + i + InHand
      BY <3>1 DEF n, InOrder
    <3>8. \A i \in 1..(n + 1) : changeQueue'[i].event <= log /\ changeQueue'[i].gen = m.gen
             /\ changeQueue'[i].event = token + i + InHand
      BY <3>1, <3>2, <3>3, <3>5, <3>6, <3>7
    <3>9. InHand' = InHand
      BY <2>1 DEF InHand
    <3>10. cursor'[g] = token + (n + 1) + InHand
      BY <2>2, <3>5
    <3> QED BY <2>1, <2>3, <3>1, <3>3, <3>8, <3>9, <3>10 DEF InOrder
  <2> QED BY <2>4, <2>5
<1>6. CASE ProcessDies
  <2>1. m' = Fresh /\ changeQueue' = <<>> /\ handler' = Nil /\ open' = {}
          /\ UNCHANGED <<log, token>>
        /\ \A x \in Calls : call'[x] \in {"idle", "failed"}
    BY <1>1, <1>6 DEF ProcessDies, outside
  <2>2. ~m'.running /\ Len(changeQueue') = 0
    BY <2>1 DEF Fresh
  <2> QED BY <2>1, <2>2 DEF InOrder
<1> QED BY <1>2, <1>3, <1>4, <1>5, <1>6

\* Events are handled in order.
LEMMA HandleKeepsOrder == ASSUME Kept, InOrder, Served, Handle PROVE InOrder'
<1> USE Disjoint DEF Kept
<1>1. m \in Managers /\ token \in 0..MaxEvents \cup {Nil} /\ log \in 0..MaxEvents
        /\ MaxEvents \in Nat
      /\ open \subseteq Nat /\ cursor \in [open -> 0..MaxEvents]
      /\ changeQueue \in Seq([gen : Nat, event : 1..MaxEvents])
      /\ (handler # Nil => handler \in Handlers)
  BY SyncAssumption DEF SyncTypeOK
<1>0. UNCHANGED <<log, call, open, cursor>>
  BY DEF Handle, Take, NextTarget, Send, Applied, MarkApplied, TargetFails, Rejected, AllServed,
         SaveToken, SaveFails, resources, outside
<1>2. CASE Take
  <2>1. /\ handler = Nil /\ changeQueue # <<>> /\ changeQueue' = Tail(changeQueue)
        /\ handler' = IF Stale(Head(changeQueue).gen) THEN Nil
                      ELSE [gen |-> Head(changeQueue).gen, event |-> Head(changeQueue).event,
                            at |-> "next", err |-> FALSE, target |-> Nil,
                            todo |-> {t \in Targets : Head(changeQueue).event \in Wants[t]}]
        /\ UNCHANGED <<token, m>>
    BY <1>2 DEF Take, outside
  <2> DEFINE n == Len(changeQueue)
             S == [gen : Nat, event : 1..MaxEvents]
  <2>2. n \in Nat \ {0} /\ Head(changeQueue) = changeQueue[1] /\ Len(changeQueue') = n - 1
        /\ \A i \in 1..(n - 1) : changeQueue'[i] = changeQueue[i + 1]
    <3>1. changeQueue \in Seq(S)
      BY <1>1
    <3> HIDE DEF S
    <3> QED BY <2>1, <3>1
  <2>3. changeQueue[1].event \in Nat /\ changeQueue[1].event <= log
    <3>1. 1 \in 1..Len(changeQueue)
      BY <2>2
    <3>2. changeQueue[1].event \in 1..MaxEvents
      BY <3>1, Waiting
    <3> QED BY <1>1, <3>1, <3>2 DEF InOrder
  <2> HIDE DEF n, S
  <2>4. \A i \in 1..n : changeQueue[i].event <= log
    BY DEF n, InOrder
  <2>5. \A i \in 1..(n - 1) : changeQueue'[i].event <= log
    BY <2>2, <2>4
  <2>6. CASE m.running
    <3>1. token \in Nat /\ \A i \in 1..n : changeQueue[i].gen = m.gen
            /\ changeQueue[i].event = token + i
      BY <1>1, <2>1, <2>6 DEF InOrder, InHand, n
    <3>2. ~Stale(Head(changeQueue).gen)
      BY <2>2, <2>6, <3>1 DEF Stale, Running
    <3>3. handler' # Nil /\ handler'.event = token + 1
      <4>1. handler' = [gen |-> Head(changeQueue).gen, event |-> Head(changeQueue).event,
                            at |-> "next", err |-> FALSE, target |-> Nil,
                            todo |-> {t \in Targets : Head(changeQueue).event \in Wants[t]}]
        BY <2>1, <3>2
      <4>2. handler'.gen = Head(changeQueue).gen /\ handler'.event = Head(changeQueue).event
        BY <4>1
      <4>3. handler' # Nil
        <5>1. 1 \in 1..Len(changeQueue)
          BY <2>2 DEF n
        <5>2. Head(changeQueue).gen \in Nat /\ Head(changeQueue).event \in 1..MaxEvents
          BY <2>2, <5>1, Waiting
        <5>3. handler' \in Handlers
          BY <4>1, <5>2 DEF Handlers
        <5> QED BY <5>3
      <4> QED BY <2>2, <3>1, <4>2, <4>3
    <3>4. InHand' = 1 /\ InHand = 0
      BY <2>1, <3>3 DEF InHand
    <3>5. \A i \in 1..(n - 1) : changeQueue'[i].gen = m.gen /\ changeQueue'[i].event = token + i + 1
      <4> SUFFICES ASSUME NEW i \in 1..(n - 1)
                   PROVE  changeQueue'[i].gen = m.gen /\ changeQueue'[i].event = token + i + 1
        OBVIOUS
      <4>1. i + 1 \in 1..n /\ changeQueue'[i] = changeQueue[i + 1]
        BY <2>2
      <4>2. changeQueue[i + 1].event = token + (i + 1) /\ changeQueue[i + 1].gen = m.gen
        BY <3>1, <4>1
      <4> QED BY <3>1, <4>1, <4>2
    <3>6. ~m.stopping => cursor[m.up] = token + (n - 1) + 1
      <4>1. ~m.stopping => cursor[m.up] = token + n
        BY <1>1, <2>2, <2>6, <3>1, <3>4 DEF InOrder, n
      <4> QED BY <2>2, <3>1, <4>1
    <3>7. token + 1 <= log
      BY <2>2, <2>3, <3>1, <3>3
    <3> QED BY <1>0, <2>1, <2>2, <2>5, <2>6, <3>1, <3>3, <3>4, <3>5, <3>6, <3>7 DEF InOrder
  <2>7. CASE ~m.running
    <3>1. handler' = Nil
      BY <2>1, <2>7 DEF Stale
    <3> QED BY <1>0, <2>1, <2>2, <2>5, <2>7, <3>1 DEF InOrder
  <2> QED BY <2>6, <2>7
<1>3. ASSUME ~Take, handler # Nil, UNCHANGED changeQueue, token' = token,
             handler' = Nil \/ (handler' # Nil /\ HandlerMoves),
             handler' = Nil => ~m'.running,
             m' = m \/ ~m'.running, m'.from = m.from
      PROVE  InOrder'
  <2>1. m'.running => InHand' = InHand /\ m' = m
    BY <1>3 DEF InHand
  <2> QED BY <1>0, <1>3, <2>1 DEF InOrder, HandlerMoves
<1>4. CASE ~Take /\ ~SaveToken /\ ~SaveFails
  <2>1. handler # Nil /\ UNCHANGED <<changeQueue, token>>
    BY <1>4 DEF Handle, NextTarget, Send, Applied, MarkApplied, TargetFails, Rejected, AllServed,
         HandlerAt, outside
  <2>2. handler' = Nil \/ HandlerMoves
    BY <1>1, <1>4, <2>1, HandlerSteps DEF Handle, Running
  <2>3. m' = m \/ ~m'.running
    <3>1. UNCHANGED m \/ Fatal(handler.gen)
      BY <1>4 DEF Handle, NextTarget, Send, Applied, MarkApplied, TargetFails, AllServed, GiveUp,
           Rejected
    <3> QED BY <1>1, <3>1, FatalEffect
  <2>4. m'.from = m.from
    <3>1. UNCHANGED m \/ Fatal(handler.gen)
      BY <1>4 DEF Handle, NextTarget, Send, Applied, MarkApplied, TargetFails, AllServed, GiveUp,
           Rejected
    <3> QED BY <1>1, <3>1, FatalEffect
  <2>5. handler' = Nil => ~m'.running
    <3>1. Stale(handler.gen) => ~m.running
      BY <2>1 DEF Stale, Running
    <3>2. m.running => handler.gen = m.gen
      BY <2>1 DEF Running
    <3>3. handler \in Handlers
      BY <1>1, <2>1
    <3>4. CASE AllServed
      <4>1. CASE handler.err
        BY <1>1, <2>1, <3>2, <3>4, <4>1, FatalEffect DEF AllServed
      <4>2. CASE ~handler.err
        <5>1. [handler EXCEPT !.at = "save"] \in Handlers
          BY <3>3 DEF Handlers
        <5> QED BY <3>1, <3>4, <4>2, <5>1 DEF AllServed
      <4> QED BY <4>1, <4>2
    <3>5. CASE NextTarget \/ MarkApplied \/ Send
      <4>1. CASE Stale(handler.gen)
        BY <3>1, <3>5, <4>1 DEF NextTarget, MarkApplied, Send, GiveUp
      <4>2. CASE MarkApplied /\ ~Stale(handler.gen)
        <5>1. [handler EXCEPT !.at = "next"] \in Handlers
          BY <3>3 DEF Handlers
        <5> QED BY <4>2, <5>1 DEF MarkApplied
      <4>3. CASE Send /\ ~Stale(handler.gen)
        <5>1. [handler EXCEPT !.at = "apply"] \in Handlers
          BY <3>3 DEF Handlers
        <5> QED BY <4>3, <5>1 DEF Send
      <4>4. CASE NextTarget /\ ~Stale(handler.gen)
        <5>1. PICK t \in handler.todo :
                handler' = [handler EXCEPT !.todo = @ \ {t}, !.target = t,
                          !.at = IF <<t, handler.event>> \in marks THEN "next" ELSE "mark"]
          BY <4>4 DEF NextTarget
        <5> DEFINE a == IF <<t, handler.event>> \in marks THEN "next" ELSE "mark"
        <5>2. t \in Targets /\ a \in {"next", "mark"}
          BY <3>3 DEF Handlers
        <5>3. handler' = [handler EXCEPT !.todo = @ \ {t}, !.target = t, !.at = a]
          BY <5>1
        <5> HIDE DEF a
        <5>4. handler' \in Handlers
          BY <3>3, <5>2, <5>3 DEF Handlers
        <5> QED BY <5>4
      <4> QED BY <3>5, <4>1, <4>2, <4>3, <4>4
    <3>6. CASE Applied \/ TargetFails
      <4>1. handler' \in Handlers
        BY <3>3, <3>6 DEF Applied, TargetFails, Handlers
      <4> QED BY <4>1
    <3> QED BY <1>4, <3>4, <3>5, <3>6 DEF Handle
  <2> QED BY <1>3, <1>4, <2>1, <2>2, <2>3, <2>4, <2>5
<1>5. CASE SaveToken
  <2>1. /\ handler # Nil /\ token' = handler.event /\ handler' = Nil
        /\ UNCHANGED <<m, changeQueue>>
    BY <1>5 DEF SaveToken, HandlerAt
  <2>2. token \in Nat /\ token' = token + 1 /\ token' <= log /\ InHand = 1 /\ InHand' = 0
    BY <1>1, <2>1 DEF InOrder, InHand
  <2>3. \A x \in Starts : call[x] \notin {"hello", "anchor", "probe"}
    BY <2>1 DEF Startup, StartPhases
  <2>4. m.running => \A i \in 1..Len(changeQueue) :
           changeQueue[i].gen = m.gen /\ changeQueue[i].event = token + i + 1
    BY <2>2 DEF InOrder
  <2>5. m.running => \A i \in 1..Len(changeQueue) :
           changeQueue[i].gen = m.gen /\ changeQueue[i].event = token' + i + 0
    BY <2>2, <2>4
  <2>6. Len(changeQueue) \in Nat
    BY <1>1
  <2>7. m.running /\ ~m.stopping => cursor[m.up] = token' + Len(changeQueue) + 0
    BY <2>2, <2>6 DEF InOrder
  <2>8. token' # Nil
    BY <2>2
  <2> QED BY <1>0, <2>1, <2>2, <2>3, <2>5, <2>7, <2>8 DEF InOrder
<1>6. CASE SaveFails
  <2>1. /\ handler # Nil /\ token' \in {token, handler.event} /\ handler' = Nil
        /\ Fatal(handler.gen) /\ UNCHANGED changeQueue
    BY <1>6 DEF SaveFails, HandlerAt
  <2>2. token \in Nat /\ token' \in {token, token + 1} /\ token' <= log
    BY <1>1, <2>1 DEF InOrder
  <2>3. \A x \in Starts : call[x] \notin {"hello", "anchor", "probe"}
    BY <2>1 DEF Startup, StartPhases
  <2>4. ~m'.running
    BY <1>1, <2>1, FatalEffect DEF Running
  <2> QED BY <1>0, <2>1, <2>2, <2>3, <2>4 DEF InOrder
<1> QED BY <1>2, <1>4, <1>5, <1>6

\* markMode "start" stores a mark before the target applies: an event whose
\* application fails is then skipped the next time, so it is excluded.
LEMMA HandleServes ==
  ASSUME Kept, Served, Handle, MarkMode # "start" PROVE Served'
<1> USE Disjoint DEF Kept
<1>1. /\ handler # Nil => handler \in Handlers
      /\ marks \subseteq Targets \X (1..MaxEvents)
      /\ applied \in [Targets -> SUBSET (1..MaxEvents)]
      /\ changeQueue \in Seq([gen : Nat, event : 1..MaxEvents])
  BY DEF SyncTypeOK
<1>2. CASE Take
  <2>1. /\ handler = Nil /\ changeQueue # <<>>
        /\ handler' = IF Stale(Head(changeQueue).gen) THEN Nil
                      ELSE [gen |-> Head(changeQueue).gen, event |-> Head(changeQueue).event,
                            at |-> "next", err |-> FALSE, target |-> Nil,
                            todo |-> {t \in Targets : Head(changeQueue).event \in Wants[t]}]
        /\ UNCHANGED <<applied, marks>>
    BY <1>2 DEF Take, outside
  <2> DEFINE e == Head(changeQueue).event
             k == {t \in Targets : e \in Wants[t]}
  <2>2. handler' # Nil => /\ handler'.event = e /\ handler'.at = "next" /\ handler'.err = FALSE
                          /\ handler'.todo = k
    BY <2>1
  <2>3. \A t \in Targets : t \in k <=> e \in Wants[t]
    OBVIOUS
  <2>4. \A t \in k : e \in Wants[t]
    OBVIOUS
  <2> HIDE DEF e, k
  <2> QED BY <2>1, <2>2, <2>3, <2>4 DEF Served
<1>3. ASSUME handler # Nil, handler' = Nil, UNCHANGED <<applied, marks>> PROVE Served'
  BY <1>3 DEF Served
<1>4. CASE NextTarget
  <2>1. /\ handler # Nil /\ handler \in Handlers /\ handler.at = "next"
        /\ UNCHANGED <<applied, marks>>
    BY <1>1, <1>4 DEF NextTarget, HandlerAt, GiveUp
  <2>2. CASE Stale(handler.gen)
    BY <1>3, <1>4, <2>1, <2>2 DEF NextTarget, GiveUp
  <2>3. CASE ~Stale(handler.gen)
    <3>1. PICK t \in handler.todo :
             handler' = [handler EXCEPT !.todo = @ \ {t}, !.target = t,
                          !.at = IF <<t, handler.event>> \in marks THEN "next" ELSE "mark"]
      BY <1>4, <2>3 DEF NextTarget
    <3> DEFINE a == IF <<t, handler.event>> \in marks THEN "next" ELSE "mark"
    <3>2. t \in Targets /\ a \in {"next", "mark"}
      BY <2>1 DEF Handlers
    <3>3. handler'.todo = handler.todo \ {t} /\ handler'.target = t /\ handler'.at = a
          /\ handler'.event = handler.event /\ handler'.err = handler.err
      BY <2>1, <3>1 DEF Handlers
    <3>4. a = "next" => handler.event \in applied[t]
      BY DEF Served
    <3>5. handler.event \in Wants[t]
      BY <2>1 DEF Served
    <3> HIDE DEF a
    <3> QED BY <2>1, <3>2, <3>3, <3>4, <3>5 DEF Served
  <2> QED BY <2>2, <2>3
<1>5. CASE Send
  <2>1. handler \in Handlers /\ handler # Nil /\ handler.at = "mark" /\ UNCHANGED <<applied, marks>>
        /\ handler' = IF Stale(handler.gen) THEN Nil ELSE [handler EXCEPT !.at = "apply"]
    BY <1>1, <1>5 DEF Send, HandlerAt
  <2>2. CASE Stale(handler.gen)
    BY <1>3, <2>1, <2>2
  <2>3. CASE ~Stale(handler.gen)
    <3>1. handler'.todo = handler.todo /\ handler'.target = handler.target /\ handler'.at = "apply"
          /\ handler'.event = handler.event /\ handler'.err = handler.err
      BY <2>1, <2>3 DEF Handlers
    <3> QED BY <2>1, <3>1 DEF Served
  <2> QED BY <2>2, <2>3
<1>6. CASE Applied
  <2>1. handler \in Handlers /\ handler # Nil /\ handler.at = "apply" /\ UNCHANGED marks
        /\ applied' = [applied EXCEPT ![handler.target] = @ \cup {handler.event}]
        /\ handler' = [handler EXCEPT !.at = IF MarkMode = "success" THEN "applied" ELSE "next"]
        /\ handler.target \in Targets
    BY <1>1, <1>6 DEF Applied, HandlerAt, TargetApplies, Running
  <2>2. handler'.todo = handler.todo /\ handler'.target = handler.target
        /\ handler'.at \in {"applied", "next"}
        /\ handler'.event = handler.event /\ handler'.err = handler.err
    BY <2>1 DEF Handlers
  <2>3. handler.event \in applied'[handler.target]
    BY <1>1, <2>1
  <2>4. \A t \in Targets : applied[t] \subseteq applied'[t]
    BY <1>1, <2>1
  <2>5. \A q \in marks : q[1] \in Targets
    BY <1>1
  <2> QED BY <2>1, <2>2, <2>3, <2>4, <2>5 DEF Served
<1>7. CASE MarkApplied
  <2>1. handler \in Handlers /\ handler # Nil /\ handler.at = "applied" /\ UNCHANGED applied
    BY <1>1, <1>7 DEF MarkApplied, HandlerAt
  <2>2. CASE Stale(handler.gen)
    BY <1>3, <1>7, <2>1, <2>2 DEF MarkApplied, GiveUp
  <2>3. CASE ~Stale(handler.gen)
    <3>1. /\ marks' = marks \cup {<<handler.target, handler.event>>}
          /\ handler' = [handler EXCEPT !.at = "next"]
      BY <1>7, <2>3 DEF MarkApplied, Mark
    <3>2. handler'.todo = handler.todo /\ handler'.target = handler.target /\ handler'.at = "next"
          /\ handler'.event = handler.event /\ handler'.err = handler.err
      BY <2>1, <3>1 DEF Handlers
    <3>3. \A q \in marks' : q[2] \in applied[q[1]]
      BY <2>1, <3>1 DEF Served
    <3> QED BY <2>1, <3>2, <3>3 DEF Served
  <2> QED BY <2>2, <2>3
<1>8. CASE TargetFails
  <2>1. handler \in Handlers /\ handler # Nil
          /\ handler' = [handler EXCEPT !.at = "next", !.err = TRUE]
        /\ handler.at \in {"mark", "apply", "applied"} /\ handler.target \in Targets
    BY <1>1, <1>8 DEF TargetFails, Rejected, HandlerAt, Running
  <2>2. handler'.todo = handler.todo /\ handler'.at = "next"
        /\ handler'.event = handler.event /\ handler'.err = TRUE
    BY <2>1 DEF Handlers
  <2>3. applied' = applied \/ applied' = [applied EXCEPT ![handler.target] = @ \cup {handler.event}]
    BY <1>8 DEF TargetFails, Rejected, TargetApplies
  <2>4. \A t \in Targets : applied[t] \subseteq applied'[t]
    BY <1>1, <2>3
  <2>5. marks' = marks \/ (handler.at = "applied"
          /\ marks' = marks \cup {<<handler.target, handler.event>>})
    BY <1>8 DEF TargetFails, Rejected, HandlerAt, Mark
  <2>6. handler.at = "applied" => handler.event \in applied[handler.target]
    BY <2>1 DEF Served
  <2>7. \A q \in marks' : q[2] \in applied'[q[1]]
    <3>1. \A q \in marks : q[1] \in Targets /\ q[2] \in applied[q[1]]
      BY <1>1 DEF Served
    <3> QED BY <2>1, <2>4, <2>5, <2>6, <3>1
  <2> QED BY <2>1, <2>2, <2>7 DEF Served
<1>9. CASE AllServed
  <2>1. handler \in Handlers /\ handler # Nil /\ handler.at = "next" /\ handler.todo = {}
        /\ UNCHANGED <<applied, marks>>
    BY <1>1, <1>9 DEF AllServed, HandlerAt, outside
  <2>2. CASE handler' = Nil
    BY <1>3, <2>1, <2>2
  <2>3. CASE handler' # Nil
    <3>1. ~handler.err /\ handler' = [handler EXCEPT !.at = "save"]
      BY <1>9, <2>3 DEF AllServed
    <3>2. handler'.todo = handler.todo /\ handler'.target = handler.target /\ handler'.at = "save"
          /\ handler'.event = handler.event /\ handler'.err = handler.err
      BY <2>1, <3>1 DEF Handlers
    <3> QED BY <2>1, <3>1, <3>2 DEF Served
  <2> QED BY <2>2, <2>3
<1>10. CASE SaveToken \/ SaveFails
  BY <1>3, <1>10 DEF SaveToken, SaveFails, HandlerAt
<1> QED BY <1>2, <1>4, <1>5, <1>6, <1>7, <1>8, <1>9, <1>10 DEF Handle

\* The inductive invariant of the delivery contract.
Delivered == Kept /\ InOrder /\ Served

\* Nothing has been produced at first.
LEMMA DeliveredAtFirst == SyncInit => Delivered
<1> SUFFICES ASSUME SyncInit PROVE Delivered
  OBVIOUS
<1>1. m.running = FALSE /\ changeQueue = <<>> /\ handler = Nil /\ open = {} /\ marks = {}
      /\ token = Nil
      /\ \A s \in Starts : call[s] = "idle"
  BY Disjoint DEF SyncInit, Fresh
<1>2. InOrder /\ Served
  BY <1>1 DEF InOrder, Served
<1> QED BY <1>2, KeptAtFirst DEF Delivered

\* Steps that apply and mark nothing.
LEMMA OthersServe ==
  ASSUME Served, UNCHANGED <<applied, marks>>, handler' = handler \/ handler' = Nil
  PROVE  Served'
<1>1. CASE handler' = handler
  BY <1>1 DEF Served
<1>2. CASE handler' = Nil
  BY <1>2 DEF Served
<1> QED BY <1>1, <1>2

\* Every step keeps what is marked applied, unless marks are stored before the event is applied.
LEMMA DeliveredAlways ==
  ASSUME MarkMode # "start", Delivered, [SyncNext]_syncVars PROVE Delivered'
<1> USE DEF Delivered
<1>1. Kept'
  BY KeptAlways
<1>2. CASE UNCHANGED syncVars
  BY <1>1, <1>2 DEF syncVars, outside, resources, InOrder, InHand, Served
<1>3. ASSUME NEW s \in Starts, StartStep(s) PROVE Delivered'
  <2>1. InOrder'
    BY <1>3, CallsKeepOrder, OpeningKeepsOrder, GoLiveKeepsOrder DEF StartStep
  <2>2. UNCHANGED <<applied, marks, handler>>
    BY <1>3 DEF StartStep, StartCall, StartAfterStop, StartJoined, Settled, CloseOld,
         Resolve, ResolveFails, Load, Hello, SaveAnchor, StartupFails, GoLive, Unwind, outside
  <2> QED BY <1>1, <2>1, <2>2, OthersServe
<1>4. ASSUME NEW p \in Stops, StopStep(p) PROVE Delivered'
  <2>1. InOrder'
    BY <1>4, StopsKeepOrder
  <2>2. UNCHANGED <<applied, marks, handler>>
    BY <1>4 DEF StopStep, StopCall, StopAfterStart, StopJoined, StopHalts, Halt, StopClosed,
         StopEnds, outside
  <2> QED BY <1>1, <2>1, <2>2, OthersServe
<1>5. CASE Produce \/ StreamClosed \/ ProcessDies \/ \E g \in open : Emit(g) \/ StreamBreaks(g)
  <2>1. InOrder'
    BY <1>5, StreamKeepsOrder
  <2>2. UNCHANGED <<applied, marks>> /\ (handler' = handler \/ handler' = Nil)
    BY <1>5 DEF Produce, StreamClosed, ProcessDies, Emit, StreamBreaks, outside
  <2> QED BY <1>1, <2>1, <2>2, OthersServe
<1>6. CASE Handle
  BY <1>1, <1>6, HandleKeepsOrder, HandleServes
<1> QED BY <1>2, <1>3, <1>4, <1>5, <1>6 DEF SyncNext

\* Every step is one of the contract's, or changes nothing it speaks of.
LEMMA StepsDeliver ==
  ASSUME Delivered, [SyncNext]_syncVars
  PROVE  [DeliveryContract!Next]_<<log, token, applied>>
<1> USE Disjoint DEF Delivered, Kept
<1>1. m \in Managers /\ token \in 0..MaxEvents \cup {Nil} /\ log \in 0..MaxEvents
        /\ MaxEvents \in Nat
      /\ (handler # Nil => handler \in Handlers)
  BY SyncAssumption DEF SyncTypeOK
<1>2. CASE UNCHANGED <<log, token, applied>>
  BY <1>2
<1>3. CASE Produce
  BY <1>3 DEF Produce, DeliveryContract!Next, DeliveryContract!Produce
<1>4. ASSUME NEW s \in Starts, call[s] = "anchor", token' \in {token, m.from}, UNCHANGED <<log,
             applied>>
      PROVE  [DeliveryContract!Next]_<<log, token, applied>>
  <2>1. token = Nil /\ m.from \in 0..log
    BY <1>1, <1>4 DEF InOrder, Managers
  <2> QED BY <1>4, <2>1 DEF DeliveryContract!Next, DeliveryContract!Anchor
<1>5. ASSUME NEW s \in Starts, StartStep(s) PROVE [DeliveryContract!Next]_<<log, token, applied>>
  <2>1. CASE SaveAnchor(s)
    BY <1>4, <2>1 DEF SaveAnchor
  <2>2. CASE StartupFails(s)
    <3>1. CASE call[s] = "anchor"
      BY <1>4, <2>2, <3>1 DEF StartupFails
    <3>2. CASE call[s] # "anchor"
      BY <2>2, <3>2 DEF StartupFails
    <3> QED BY <3>1, <3>2
  <2>3. CASE ~SaveAnchor(s) /\ ~StartupFails(s)
    BY <1>5, <2>3 DEF StartStep, StartCall, StartAfterStop, StartJoined, Settled, CloseOld,
         Resolve, ResolveFails, Load, Hello, GoLive, Unwind, outside
  <2> QED BY <2>1, <2>2, <2>3
<1>6. ASSUME NEW p \in Stops, StopStep(p) PROVE [DeliveryContract!Next]_<<log, token, applied>>
  BY <1>6 DEF StopStep, StopCall, StopAfterStart, StopJoined, StopHalts, Halt, StopClosed,
       StopEnds, outside
<1>7. CASE StreamClosed \/ ProcessDies \/ \E g \in open : Emit(g) \/ StreamBreaks(g)
  BY <1>7 DEF StreamClosed, ProcessDies, Emit, StreamBreaks, outside
<1>8. ASSUME handler # Nil, handler.at = "apply", TargetApplies, UNCHANGED <<log, token>>
      PROVE  [DeliveryContract!Next]_<<log, token, applied>>
  <2>1. handler.target \in Targets /\ handler.event \in Wants[handler.target]
    BY <1>8 DEF Running, Served
  <2>2. handler.event \in 1..log
    BY <1>1, <1>8 DEF InOrder, Handlers
  <2>3. DeliveryContract!Apply(handler.target, handler.event)
    BY <1>8, <2>1 DEF TargetApplies, DeliveryContract!Apply
  <2> QED BY <2>1, <2>2, <2>3 DEF DeliveryContract!Next
<1>9. ASSUME handler # Nil, handler.at = "save", token' \in {token, handler.event},
             UNCHANGED <<log, applied>>
      PROVE  [DeliveryContract!Next]_<<log, token, applied>>
  <2>1. token # Nil /\ token \in Nat /\ handler.event = token + 1 /\ token + 1 <= log
    BY <1>1, <1>9 DEF InOrder
  <2>2. handler.event \in Nat /\ handler.err = FALSE /\ handler.todo = {}
    BY <1>1, <1>9 DEF Served, Handlers
  <2>3. \A t \in Targets : handler.event \in Wants[t] => handler.event \in applied[t]
    BY <1>9, <2>2 DEF Served
  <2>4. CASE token' = handler.event
    <3>1. DeliveryContract!Advance
      BY <1>1, <1>9, <2>1, <2>3, <2>4 DEF DeliveryContract!Advance
    <3> QED BY <3>1 DEF DeliveryContract!Next
  <2> QED BY <1>9, <2>4
<1>10. CASE Handle
  <2>1. CASE Take \/ NextTarget \/ Send \/ MarkApplied \/ AllServed
    BY <2>1 DEF Take, NextTarget, Send, MarkApplied, AllServed, outside
  <2>2. CASE Applied
    BY <1>8, <2>2 DEF Applied, HandlerAt
  <2>3. CASE TargetFails
    <3>1. UNCHANGED applied \/ (HandlerAt("apply") /\ TargetApplies)
      BY <2>3 DEF TargetFails, Rejected
    <3>2. UNCHANGED <<log, token>>
      BY <2>3 DEF TargetFails, Rejected
    <3> QED BY <1>8, <3>1, <3>2 DEF HandlerAt
  <2>4. CASE SaveToken
    BY <1>9, <2>4 DEF SaveToken, HandlerAt
  <2>5. CASE SaveFails
    BY <1>9, <2>5 DEF SaveFails, HandlerAt
  <2> QED BY <1>10, <2>1, <2>2, <2>3, <2>4, <2>5 DEF Handle
<1>11. CASE UNCHANGED syncVars
  BY <1>11 DEF syncVars, outside
<1> QED BY <1>3, <1>5, <1>6, <1>7, <1>10, <1>11 DEF SyncNext

(***************************************************************************)
(* Unless marks are stored before the targets apply (markMode "start"), the *)
(* stored token moves one event at a time, past events that every target    *)
(* they concern has applied.                                                *)
(***************************************************************************)
THEOREM EventsAreDelivered == MarkMode # "start" => (SyncSpec => AtLeastOnceDelivery)
<1> SUFFICES ASSUME MarkMode # "start" PROVE SyncSpec => AtLeastOnceDelivery
  OBVIOUS
<1>1. SyncInit => DeliveryContract!Init
  BY DEF SyncInit, DeliveryContract!Init
<1>2. Delivered /\ [SyncNext]_syncVars => Delivered'
  BY DeliveredAlways
<1>3. Delivered /\ [SyncNext]_syncVars => [DeliveryContract!Next]_<<log, token, applied>>
  BY StepsDeliver
<1> QED BY <1>1, <1>2, <1>3, DeliveredAtFirst, PTL DEF SyncSpec, AtLeastOnceDelivery,
             DeliveryContract!Spec
=============================================================================
