-------------------------- MODULE CountQueueProofs --------------------------
(* For every set of calls, cap and queue size: the counter of CountQueue is *)
(* exactly the number of owned slots, and the cap holds.                    *)
EXTENDS CountQueue, TLAPS, FiniteSetTheorems, SequenceTheorems

\* The queue is a list of distinct waiting calls; slots are counted exactly and
\* are all taken whenever somebody waits.
IInv == /\ TypeOK
        /\ IsFiniteSet(Holders)
        /\ SlotConservation
        /\ running <= Concurrency
        /\ QueueExact

\* What queue.splice(index, 1) keeps: the entries other than queue[i], in order.
LEMMA SpliceProperties ==
  ASSUME NEW S, NEW s \in Seq(S), NEW i \in DOMAIN s
  PROVE  LET t == SubSeq(s, 1, i - 1) \o SubSeq(s, i + 1, Len(s))
         IN  /\ t \in Seq(S)
             /\ Len(t) = Len(s) - 1
             /\ \A k \in 1..(Len(s) - 1) :
                  t[k] = IF k < i THEN s[k] ELSE s[k + 1]
<1> DEFINE a == SubSeq(s, 1, i - 1)
           b == SubSeq(s, i + 1, Len(s))
<1>1. i \in 1..Len(s) /\ Len(s) \in Nat
  BY LenProperties
<1>2. /\ a \in Seq(S) /\ Len(a) = i - 1
      /\ \A k \in 1..(i - 1) : a[k] = s[k]
  BY <1>1, SMTT(30)
<1>3. /\ b \in Seq(S) /\ Len(b) = Len(s) - i
      /\ \A k \in 1..(Len(s) - i) : b[k] = s[i + k]
  BY <1>1, SMTT(30)
<1> HIDE DEF a, b
<1>4. /\ a \o b \in Seq(S)
      /\ Len(a \o b) = Len(s) - 1
      /\ \A k \in 1..(Len(s) - 1) : (a \o b)[k] = IF k < i THEN s[k] ELSE s[k + 1]
  BY <1>1, <1>2, <1>3, SMTT(30)
<1> QED
  BY <1>4 DEF a, b

\* Counting slots: one more, one less, or one exchanged for another.
LEMMA SlotArithmetic ==
  ASSUME NEW S, IsFiniteSet(S)
  PROVE  /\ Cardinality(S) \in Nat
         /\ \A x : x \notin S => /\ IsFiniteSet(S \cup {x})
                                /\ Cardinality(S \cup {x}) = Cardinality(S) + 1
         /\ \A x \in S : /\ IsFiniteSet(S \ {x})
                        /\ Cardinality(S \ {x}) = Cardinality(S) - 1
                        /\ Cardinality(S) > 0
         /\ \A x \in S : \A y : y \notin S =>
              /\ IsFiniteSet((S \ {x}) \cup {y})
              /\ Cardinality((S \ {x}) \cup {y}) = Cardinality(S)
<1>1. Cardinality(S) \in Nat
  BY FS_CardinalityType
<1>2. ASSUME NEW x, x \notin S
      PROVE  IsFiniteSet(S \cup {x}) /\ Cardinality(S \cup {x}) = Cardinality(S) + 1
  BY <1>2, FS_AddElement
<1>3. ASSUME NEW x \in S
      PROVE  /\ IsFiniteSet(S \ {x}) /\ Cardinality(S \ {x}) = Cardinality(S) - 1
             /\ Cardinality(S) > 0
  <2>1. IsFiniteSet(S \ {x}) /\ Cardinality(S \ {x}) = Cardinality(S) - 1
    BY FS_RemoveElement
  <2>2. Cardinality(S \ {x}) \in Nat
    BY <2>1, FS_CardinalityType
  <2> QED
    BY <2>1, <2>2, <1>1
<1>4. ASSUME NEW x \in S, NEW y, y \notin S
      PROVE  /\ IsFiniteSet((S \ {x}) \cup {y})
             /\ Cardinality((S \ {x}) \cup {y}) = Cardinality(S)
  <2>1. y \notin S \ {x}
    BY <1>4
  <2>2. /\ IsFiniteSet((S \ {x}) \cup {y})
        /\ Cardinality((S \ {x}) \cup {y}) = Cardinality(S \ {x}) + 1
    BY <1>3, <2>1, FS_AddElement
  <2> QED
    BY <1>1, <1>3, <2>2
<1> QED
  BY <1>1, <1>2, <1>3, <1>4

\* A holder that leaves through _wakeNext: the slot is inherited by the head of
\* the queue or returned to the counter.
LEMMA WakeNextPreserves ==
  ASSUME IInv, NEW r \in Holders, NEW p \in {"fulfilled", "rejected"},
         WakeNext(r, p), aborted' \in SUBSET Requests
  PROVE  IInv'
<1> USE DEF IInv, TypeOK, Phases
<1>1. r \in Requests /\ phase[r] \in {"woken", "executing", "cancelled"}
  BY DEF Holders
<1>2. CASE queue # <<>> /\ queue' = Tail(queue) /\ UNCHANGED running
           /\ phase' = [phase EXCEPT ![r] = p, ![Head(queue)] = "woken"]
  <2> DEFINE h == Head(queue)
  <2>1. /\ Len(queue) \in Nat \ {0} /\ DOMAIN queue = 1..Len(queue)
        /\ h = queue[1] /\ h \in Requests /\ phase[h] = "waiting" /\ h # r
    BY <1>1, <1>2 DEF QueueExact, Queued
  <2>2. /\ queue' \in Seq(Requests) /\ Len(queue') = Len(queue) - 1
        /\ \A i \in DOMAIN queue' : i + 1 \in DOMAIN queue /\ queue'[i] = queue[i + 1]
        /\ \A i \in DOMAIN queue : i # 1 => i - 1 \in DOMAIN queue' /\ queue'[i - 1] = queue[i]
    BY <1>2, <2>1
  <2>3. phase' \in [Requests -> Phases] /\ phase'[r] = p /\ phase'[h] = "woken"
        /\ \A x \in Requests \ {r, h} : phase'[x] = phase[x]
    BY <1>1, <1>2, <2>1
  <2> HIDE DEF h
  <2>4. Holders' = (Holders \ {r}) \cup {h} /\ h \notin Holders
    BY <1>1, <2>1, <2>3 DEF Holders
  <2>5. IsFiniteSet(Holders') /\ Cardinality(Holders') = Cardinality(Holders)
    BY <2>4, SlotArithmetic
  <2>6. QueueExact'
    <3>1. Queued' = Queued \ {h}
      <4>1. ASSUME NEW i \in DOMAIN queue' PROVE queue'[i] \in Queued \ {h}
        <5>1. i + 1 \in DOMAIN queue /\ 1 \in DOMAIN queue /\ i + 1 # 1 /\ queue'[i] = queue[i + 1]
          BY <2>1, <2>2
        <5> QED BY <2>1, <5>1 DEF QueueExact, Queued
      <4>2. \A i \in DOMAIN queue : queue[i] # h => queue[i] \in Queued'
        BY <2>1, <2>2 DEF Queued
      <4> QED BY <4>1, <4>2 DEF Queued
    <3>2. Queued' = {x \in Requests : phase'[x] = "waiting"}
      BY <3>1, <2>1, <2>3, <1>1 DEF QueueExact
    <3>3. \A i, j \in DOMAIN queue' : queue'[i] = queue'[j] => i = j
      BY <2>1, <2>2 DEF QueueExact
    <3>4. Len(queue') <= MaxQueueSize
      BY <2>1, <2>2, ConfigAssumption DEF QueueExact
    <3> QED
      BY <1>2, <3>2, <3>3, <3>4 DEF QueueExact
  <2> QED
    BY <1>2, <2>2, <2>3, <2>5, <2>6 DEF SlotConservation
<1>3. CASE queue = <<>> /\ running' = running - 1 /\ Put(r, p) /\ UNCHANGED queue
  <2>1. Holders' = Holders \ {r}
    BY <1>1, <1>3 DEF Holders, Put
  <2>2. /\ IsFiniteSet(Holders') /\ Cardinality(Holders') = Cardinality(Holders) - 1
        /\ Cardinality(Holders) > 0
    BY <2>1, SlotArithmetic
  <2>3. running' \in Nat /\ running' = Cardinality(Holders') /\ running' <= Concurrency
    BY <1>3, <2>2, ConfigAssumption DEF SlotConservation
  <2>4. Queued' = {x \in Requests : phase'[x] = "waiting"}
    BY <1>1, <1>3 DEF Put, QueueExact, Queued
  <2> QED
    BY <1>3, <2>2, <2>3, <2>4 DEF SlotConservation, QueueExact, Put
<1> QED
  BY <1>2, <1>3 DEF WakeNext

\* A waiting call that leaves the queue without a slot (wait timer, abort).
LEMMA SplicePreserves ==
  ASSUME IInv, NEW r \in Requests, phase[r] = "waiting", Splice(r),
         Put(r, "rejected"), UNCHANGED running, aborted' \in SUBSET Requests
  PROVE  IInv'
<1> USE DEF IInv, TypeOK, Phases
<1>1. PICK i \in DOMAIN queue :
        queue[i] = r /\ queue' = SubSeq(queue, 1, i - 1) \o SubSeq(queue, i + 1, Len(queue))
  BY DEF Splice
<1>2. /\ queue' \in Seq(Requests) /\ Len(queue') = Len(queue) - 1
      /\ \A k \in 1..(Len(queue) - 1) : queue'[k] = IF k < i THEN queue[k] ELSE queue[k + 1]
  BY <1>1, SpliceProperties
<1>3. Len(queue) \in Nat /\ DOMAIN queue = 1..Len(queue) /\ DOMAIN queue' = 1..(Len(queue) - 1)
      /\ i \in 1..Len(queue)
  BY <1>1, <1>2
<1> DEFINE old(k) == IF k < i THEN k ELSE k + 1
<1>3a. \A k \in DOMAIN queue' : /\ old(k) \in DOMAIN queue \ {i}
                               /\ queue'[k] = queue[old(k)]
  BY <1>2, <1>3
<1>3b. \A j, k \in DOMAIN queue' : old(j) = old(k) => j = k
  BY <1>3
<1>3c. \A j, k \in DOMAIN queue : queue[j] = queue[k] => j = k
  BY DEF QueueExact
<1> HIDE DEF old
<1>4. /\ phase' \in [Requests -> Phases] /\ phase'[r] = "rejected"
      /\ \A x \in Requests \ {r} : phase'[x] = phase[x]
  BY DEF Put
<1>5. Holders' = Holders
  BY <1>4 DEF Holders
<1>6. Queued' = Queued \ {r}
  <2>1. ASSUME NEW k \in DOMAIN queue' PROVE queue'[k] \in Queued /\ queue'[k] # r
    BY <1>1, <1>3a, <1>3c, Zenon DEF Queued
  <2>2. ASSUME NEW k \in DOMAIN queue, queue[k] # r PROVE queue[k] \in Queued'
    <3>1. CASE k < i
      BY <3>1, <1>2, <1>3, <2>2 DEF Queued
    <3>2. CASE k > i
      <4>1. k - 1 \in DOMAIN queue' /\ queue'[k - 1] = queue[k]
        BY <3>2, <1>2, <1>3
      <4> QED
        BY <4>1 DEF Queued
    <3> QED
      BY <3>1, <3>2, <1>1, <1>3, <2>2
  <2> QED
    BY <2>1, <2>2 DEF Queued
<1>7. \A j, k \in DOMAIN queue' : queue'[j] = queue'[k] => j = k
  <2>1. ASSUME NEW j \in DOMAIN queue', NEW k \in DOMAIN queue', queue'[j] = queue'[k]
        PROVE  j = k
    <3>1. queue[old(j)] = queue[old(k)]
      BY <1>3a, <2>1, Zenon
    <3>2. old(j) = old(k)
      BY <3>1, <1>3a, <1>3c, Zenon
    <3> QED
      BY <3>2, <1>3b, Zenon
  <2> QED
    BY <2>1
<1>8. Queued' = {x \in Requests : phase'[x] = "waiting"}
  BY <1>4, <1>6 DEF QueueExact
<1>9. queue' # <<>> => running' = Concurrency
  BY <1>2, <1>3 DEF QueueExact
<1>10. Len(queue') <= MaxQueueSize
  BY <1>2, <1>3, ConfigAssumption DEF QueueExact
<1> QED
  BY <1>2, <1>4, <1>5, <1>7, <1>8, <1>9, <1>10 DEF SlotConservation, QueueExact

\* A call that changes phase without touching queue or counter, and neither
\* enters nor leaves the waiting calls or the holders.
LEMMA PutPreserves ==
  ASSUME IInv, NEW r \in Requests, NEW p \in Phases, Put(r, p),
         UNCHANGED <<running, queue>>, aborted' \in SUBSET Requests,
         phase[r] # "waiting", p # "waiting",
         r \in Holders <=> p \in {"woken", "executing", "cancelled"}
  PROVE  IInv'
<1> USE DEF IInv, TypeOK, Put
<1>1. phase' \in [Requests -> Phases]
  OBVIOUS
<1>2. Holders' = Holders
  BY DEF Holders
<1>3. QueueExact'
  BY DEF QueueExact, Queued
<1> QED
  BY <1>1, <1>2, <1>3 DEF SlotConservation

\* An empty queue holds no slot.
LEMMA InitInv == Init => IInv
<1> SUFFICES ASSUME Init PROVE IInv
  OBVIOUS
<1>1. Holders = {}
  BY DEF Init, Holders
<1>2. Cardinality(Holders) = 0 /\ IsFiniteSet(Holders)
  BY <1>1, FS_EmptySet
<1> QED
  BY <1>2, ConfigAssumption
     DEF Init, IInv, TypeOK, Phases, SlotConservation, QueueExact, Queued

\* Every step of the queue keeps the invariant.
LEMMA StepInv == IInv /\ [Next]_vars => IInv'
<1> SUFFICES ASSUME IInv, [Next]_vars PROVE IInv'
  OBVIOUS
<1>0. aborted \in SUBSET Requests /\ phase \in [Requests -> Phases]
  BY DEF IInv, TypeOK
<1>1. ASSUME NEW r \in Requests, Refuse(r) PROVE IInv'
  BY <1>0, <1>1, PutPreserves DEF Refuse, Holders, Phases
<1>2. ASSUME NEW r \in Requests, Enqueue(r) PROVE IInv'
  <2> USE DEF IInv, TypeOK
  <2>1. /\ queue' = Append(queue, r) /\ phase' = [phase EXCEPT ![r] = "waiting"]
        /\ phase[r] = "idle" /\ running >= Concurrency /\ Len(queue) < MaxQueueSize
        /\ UNCHANGED <<running, aborted>>
    BY <1>2 DEF Enqueue, Put
  <2>2. /\ queue' \in Seq(Requests) /\ Len(queue') = Len(queue) + 1
        /\ \A i \in 1..Len(queue) : queue'[i] = queue[i]
        /\ queue'[Len(queue) + 1] = r /\ Len(queue) \in Nat
        /\ DOMAIN queue = 1..Len(queue) /\ DOMAIN queue' = 1..(Len(queue) + 1)
    BY <2>1
  <2>3. phase' \in [Requests -> Phases]
    BY <2>1 DEF Phases
  <2>4. Holders' = Holders
    BY <2>1 DEF Holders
  <2>5. Queued' = Queued \cup {r}
    BY <2>2 DEF Queued
  <2>6. Queued' = {x \in Requests : phase'[x] = "waiting"}
    BY <2>1, <2>5 DEF QueueExact
  <2>7. r \notin Queued
    BY <2>1 DEF QueueExact
  <2>8. \A i, j \in DOMAIN queue' : queue'[i] = queue'[j] => i = j
    BY <2>2, <2>7 DEF QueueExact, Queued
  <2>9. running' = Concurrency /\ Len(queue') <= MaxQueueSize
    BY <2>1, <2>2, ConfigAssumption
  <2> QED
    BY <2>1, <2>2, <2>3, <2>4, <2>6, <2>8, <2>9 DEF QueueExact, SlotConservation
<1>3. ASSUME NEW r \in Requests, Start(r) PROVE IInv'
  <2> USE DEF IInv, TypeOK
  <2>1. /\ phase' = [phase EXCEPT ![r] = "executing"] /\ phase[r] = "idle"
        /\ running < Concurrency /\ running' = running + 1 /\ UNCHANGED <<queue, aborted>>
    BY <1>3 DEF Start, Put
  <2>2. Holders' = Holders \cup {r} /\ r \notin Holders
    BY <2>1 DEF Holders
  <2>3. IsFiniteSet(Holders') /\ Cardinality(Holders') = Cardinality(Holders) + 1
    BY <2>2, SlotArithmetic
  <2>4. phase' \in [Requests -> Phases] /\ running' \in Nat /\ running' <= Concurrency
    BY <2>1, ConfigAssumption DEF Phases
  <2>5. queue = <<>>
    BY <2>1, ConfigAssumption DEF QueueExact
  <2>6. QueueExact'
    BY <2>1, <2>5 DEF QueueExact, Queued
  <2> QED
    BY <2>1, <2>3, <2>4, <2>6 DEF SlotConservation
<1>4. ASSUME NEW r \in Requests, ResumeAborted(r) PROVE IInv'
  BY <1>0, <1>4, WakeNextPreserves DEF ResumeAborted, Holders
<1>5. ASSUME NEW r \in Requests, ResumeRunning(r) PROVE IInv'
  BY <1>0, <1>5, PutPreserves DEF ResumeRunning, Holders, Phases
<1>6. ASSUME NEW r \in Requests, WaitTimeout(r) PROVE IInv'
  BY <1>0, <1>6, SplicePreserves DEF WaitTimeout
<1>7. ASSUME NEW r \in Requests, ExecuteTimeout(r) PROVE IInv'
  BY <1>0, <1>7, PutPreserves DEF ExecuteTimeout, Holders, Phases
<1>8. ASSUME NEW r \in Requests, Abort(r) PROVE IInv'
  <2>0. aborted' \in SUBSET Requests /\ UNCHANGED running
    BY <1>0, <1>8 DEF Abort
  <2>1. CASE phase[r] = "waiting" /\ Splice(r) /\ Put(r, "rejected")
    BY <2>0, <2>1, SplicePreserves
  <2>2. CASE phase[r] = "executing" /\ Put(r, "cancelled") /\ UNCHANGED queue
    BY <2>0, <2>2, PutPreserves DEF Holders, Phases
  <2>3. CASE UNCHANGED <<queue, phase>>
    BY <2>0, <2>3 DEF IInv, TypeOK, Holders, SlotConservation, QueueExact, Queued
  <2> QED
    BY <1>8, <2>1, <2>2, <2>3 DEF Abort
<1>9. ASSUME NEW r \in Requests, Settle(r) PROVE IInv'
  BY <1>0, <1>9, WakeNextPreserves DEF Settle, Holders
<1>10. CASE Clear
  <2> USE DEF IInv, TypeOK
  <2>1. /\ queue' = <<>> /\ UNCHANGED <<running, aborted>>
        /\ phase' = [r \in Requests |-> IF r \in Queued THEN "rejected" ELSE phase[r]]
    BY <1>10 DEF Clear
  <2>2. phase' \in [Requests -> Phases]
    BY <2>1 DEF Phases
  <2>3. Holders' = Holders
    BY <2>1 DEF Holders, QueueExact
  <2>4. QueueExact'
    BY <2>1, ConfigAssumption DEF QueueExact, Queued
  <2> QED
    BY <2>1, <2>2, <2>3, <2>4 DEF SlotConservation
<1>11. CASE UNCHANGED vars
  BY <1>11 DEF vars, IInv, TypeOK, Holders, SlotConservation, QueueExact, Queued
<1> QED
  BY <1>1, <1>2, <1>3, <1>4, <1>5, <1>6, <1>7, <1>8, <1>9, <1>10, <1>11 DEF Next

\* Type correctness of the gate for every configuration.
THEOREM TypeCorrect == Spec => []TypeOK
<1>1. IInv => TypeOK
  BY DEF IInv
<1> QED
  BY <1>1, InitInv, StepInv, PTL DEF Spec

\* The counts that run, abandoned ones included, never exceed the cap.
LEMMA CapInv == IInv => ConcurrencyCap
<1> SUFFICES ASSUME IInv PROVE ConcurrencyCap
  OBVIOUS
<1> DEFINE R == {r \in Requests : phase[r] \in {"executing", "cancelled"}}
<1>1. R \subseteq Holders
  BY DEF Holders
<1>2. Cardinality(R) <= Cardinality(Holders) /\ IsFiniteSet(R)
  BY <1>1, FS_Subset DEF IInv
<1>3. Cardinality(R) \in Nat /\ Cardinality(Holders) \in Nat
  BY <1>2, FS_CardinalityType DEF IInv
<1> QED
  BY <1>2, <1>3, ConfigAssumption DEF ConcurrencyCap, IInv, SlotConservation

\* `running` never drifts from the slots owned, running counts never exceed the
\* cap, and no call waits beside a free slot or is stranded in the queue: for any
\* set of calls, cap and queue size.
THEOREM SlotsAreAccounted == Spec => []SlotsAccounted
<1>1. IInv => SlotsAccounted
  BY CapInv DEF IInv, SlotsAccounted
<1> QED
  BY <1>1, InitInv, StepInv, PTL DEF Spec

\* A step wakes no queued call but the first of the queue.
LEMMA OnlyHeadIsWoken ==
  ASSUME IInv, [Next]_vars, NEW j \in DOMAIN queue, phase'[queue[j]] = "woken"
  PROVE  j = 1
<1> USE DEF IInv, TypeOK
<1>1. queue[j] \in Requests /\ phase[queue[j]] = "waiting" /\ DOMAIN queue = 1..Len(queue)
  BY DEF QueueExact, Queued
<1>2. ASSUME NEW r \in Requests, NEW p \in Phases \ {"woken"}, Put(r, p) PROVE FALSE
  BY <1>1, <1>2 DEF Put
<1>3. ASSUME NEW r \in Requests, NEW p \in {"fulfilled", "rejected"}, WakeNext(r, p) PROVE j = 1
  <2>1. /\ queue # <<>> /\ phase' = [phase EXCEPT ![r] = p, ![Head(queue)] = "woken"]
    BY <1>2, <1>3 DEF WakeNext, Phases
  <2>2. Head(queue) = queue[1] /\ 1 \in DOMAIN queue
    BY <2>1
  <2>3. queue[j] = queue[1]
    BY <1>1, <2>1, <2>2
  <2> QED BY <2>2, <2>3 DEF QueueExact
<1>4. CASE UNCHANGED phase
  BY <1>1, <1>4
<1>5. CASE Clear
  BY <1>1, <1>5 DEF Clear, Queued
<1>6. ASSUME NEW r \in Requests, Refuse(r) \/ Enqueue(r) \/ Start(r) \/ ResumeRunning(r)
                                 \/ WaitTimeout(r) \/ ExecuteTimeout(r) PROVE FALSE
  BY <1>2, <1>6 DEF Refuse, Enqueue, Start, ResumeRunning, WaitTimeout, ExecuteTimeout, Phases
<1>7. ASSUME NEW r \in Requests, Abort(r) PROVE FALSE
  BY <1>1, <1>2, <1>7 DEF Abort, Phases
<1>8. ASSUME NEW r \in Requests, ResumeAborted(r) \/ Settle(r) PROVE j = 1
  BY <1>3, <1>8 DEF ResumeAborted, Settle
<1> QED
  BY <1>4, <1>5, <1>6, <1>7, <1>8 DEF Next, vars

\* A slot that is handed over goes to the call that has waited longest, whoever
\* hands it on: for any set of calls, cap and queue size.
THEOREM HandedOverInOrder == Spec => HandOverInOrder
<1> DEFINE InOrder == \A i, j \in DOMAIN queue :
             i < j /\ phase'[queue[j]] = "woken" => phase'[queue[i]] # "waiting"
<1>1. IInv /\ [Next]_vars => InOrder
  <2> SUFFICES ASSUME IInv, [Next]_vars, NEW i \in DOMAIN queue, NEW j \in DOMAIN queue,
                      i < j, phase'[queue[j]] = "woken"
               PROVE  FALSE
    OBVIOUS
  <2>1. j = 1 /\ DOMAIN queue = 1..Len(queue) /\ Len(queue) \in Nat
    BY OnlyHeadIsWoken DEF IInv, TypeOK
  <2> QED BY <2>1
<1>2. IInv /\ [Next]_vars => [InOrder]_vars
  BY <1>1
<1> QED
  BY <1>2, InitInv, StepInv, PTL DEF Spec, HandOverInOrder
=============================================================================
