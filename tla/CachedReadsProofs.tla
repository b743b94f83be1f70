-------------------------- MODULE CachedReadsProofs --------------------------
(* For any number of keys, queries and writes: under the keys of queries    *)
(* computed from the database alone, an acknowledged invalidation is final, *)
(* whichever other queries take their results in.  And a write removes the  *)
(* results its options ask it to, on whichever routes they are.  And pages  *)
(* are right, by cursor and by number, while the collection changes.        *)
EXTENDS CacheCoordination, QueryCaching, PageWalk, TLAPS, FiniteSetTheorems, FunctionTheorems,
        SequenceTheorems, WellFoundedInduction

\* w has run the synchronous part of its invalidation.
Revoked(w) == writer[w] \in {"waiting", "deleting", "done", "failed"}

\* A tail holds each query's fill once, and a fill on its way is its head.
TailShape ==
  /\ \A k \in Keys : \A i \in DOMAIN tail[k] :
       tail[k][i] \in Readers =>
         /\ KeyOf[tail[k][i]] = k
         /\ reader[tail[k][i]] \in {"queued", "storing"}
         /\ \A j \in DOMAIN tail[k] : tail[k][i] = tail[k][j] => i = j
  /\ \A r \in Readers : reader[r] = "storing" => AtHead(r, KeyOf[r])

WriterShape ==
  \A w \in Writers : /\ since[w] <= db
                     /\ left[w] \subseteq Intents[w]
                     /\ writer[w] = "waiting" => left[w] = Intents[w]
                     /\ writer[w] = "done" => left[w] = {}

HasResult(r) == reader[r] \in {"fetched", "queued", "storing"}

\* A ticket still valid was registered after the revocation, so what it guards
\* was fetched after the write.
ValidIsFresh ==
  \A r \in Readers :
    HasResult(r) /\ KeyOf[r] \in PlainKeys =>
      /\ value[r] \in Nat
      /\ \A w \in Writers : Revoked(w) /\ KeyOf[r] \in Intents[w] /\ ticket[r] = "valid"
                              => value[r] >= since[w]

\* An older fill that was already on its way has the write waiting behind it.
StaleIsAwaited ==
  \A r \in Readers, w \in Writers :
    /\ reader[r] = "storing" /\ Revoked(w) /\ KeyOf[r] \in Intents[w] \cap PlainKeys
    /\ ~ (value[r] >= since[w])
    => writer[w] = "waiting" /\ KeyOf[r] \in Held(w)

\* What w has deleted does not come back older.
DeletedStaysFresh ==
  \A w \in Writers : Revoked(w) =>
    \A k \in (Intents[w] \ left[w]) \cap PlainKeys : cache[k] # None => cache[k] >= since[w]

\* Only a query that includes another waits for one.
NestedIncludes == \A r \in Readers : reader[r] = "nested" => Nested[r] # None

IInv == /\ TypeOK /\ NestedIncludes /\ TailShape /\ WriterShape
        /\ ValidIsFresh /\ StaleIsAwaited /\ DeletedStaysFresh

\* What pushing to and popping from a tail do to its entries.
LEMMA TailEntries ==
  ASSUME NEW S, NEW s \in Seq(S)
  PROVE  /\ Len(s) \in Nat /\ DOMAIN s = 1..Len(s)
         /\ \A e \in S : /\ Append(s, e) \in Seq(S)
                         /\ Append(s, e) # <<>>
                         /\ DOMAIN Append(s, e) = 1..(Len(s) + 1)
                         /\ \A i \in 1..Len(s) : Append(s, e)[i] = s[i]
                         /\ Append(s, e)[Len(s) + 1] = e
         /\ s # <<>> => /\ Len(s) > 0 /\ Head(s) = s[1] /\ Tail(s) \in Seq(S)
                        /\ DOMAIN Tail(s) = 1..(Len(s) - 1)
                        /\ \A i \in 1..(Len(s) - 1) : Tail(s)[i] = s[i + 1]
  OBVIOUS

\* Nothing is cached or under way at first.
LEMMA InitInv == Init => IInv
  BY ConstantsAssumption
     DEF Init, IInv, TypeOK, TailShape, WriterShape, ValidIsFresh, StaleIsAwaited,
         DeletedStaysFresh, NestedIncludes, Revoked, HasResult, Version, ReaderPhases, WriterPhases

\* A step of query r that leaves cache, tails and writers alone, gives r no
\* result and does not let r's fill out.
LEMMA QueryPreserves ==
  ASSUME IInv, NEW r \in Readers, NEW p \in ReaderPhases, NEW v \in Version,
         NEW t \in {"none", "valid", "revoked"},
         UNCHANGED <<db, cache, tail, writeVars>>,
         reader' = [reader EXCEPT ![r] = p],
         value' = [value EXCEPT ![r] = v],
         ticket' = [ticket EXCEPT ![r] = t],
         t = "none" <=> p \in {"idle", "done", "failed"},
         reader[r] \notin {"queued", "storing"}, p \notin {"queued", "storing"},
         p = "nested" => Nested[r] # None,
         p = "fetched" => v = db \/ KeyOf[r] \notin PlainKeys
  PROVE  IInv'
<1> USE DEF IInv, TypeOK
<1>1. TypeOK' /\ NestedIncludes'
  BY DEF writeVars, NestedIncludes
<1>2. TailShape'
  <2>1. ASSUME NEW k \in Keys, NEW i \in DOMAIN tail[k], tail[k][i] \in Readers
        PROVE  tail[k][i] # r
    BY <2>1 DEF TailShape
  <2> QED
    BY <2>1 DEF TailShape, writeVars, AtHead
<1>3. WriterShape'
  BY DEF WriterShape, writeVars
<1>4. ValidIsFresh'
  BY DEF ValidIsFresh, HasResult, Revoked, WriterShape, writeVars
<1>5. StaleIsAwaited'
  BY DEF StaleIsAwaited, Revoked, Held, writeVars
<1>6. DeletedStaysFresh'
  BY DEF DeletedStaysFresh, Revoked, writeVars
<1> QED
  BY <1>1, <1>2, <1>3, <1>4, <1>5, <1>6
\* Popping the settled job of query r, which is answered, from its tail.
LEMMA SettlePreserves ==
  ASSUME IInv, NEW r \in Readers, AtHead(r, KeyOf[r]), Settle(KeyOf[r]),
         reader[r] \in {"queued", "storing"},
         NEW p \in {"done", "failed"}, NEW v \in Version, Answer(r, v, p),
         UNCHANGED <<db, writeVars>>
  PROVE  /\ tail' \in [Keys -> Seq(Readers \cup Writers)]
         /\ TailShape'
         /\ StaleIsAwaited'
         /\ ValidIsFresh'
         /\ NestedIncludes'
<1> USE DEF IInv, TypeOK
<1> DEFINE k0 == KeyOf[r]
<1>1. k0 \in Keys /\ tail[k0] \in Seq(Readers \cup Writers) /\ tail[k0] # <<>>
  BY ConstantsAssumption DEF AtHead
<1>2. /\ Len(tail[k0]) \in Nat /\ DOMAIN tail[k0] = 1..Len(tail[k0]) /\ Len(tail[k0]) > 0
      /\ tail[k0][1] = r /\ Tail(tail[k0]) \in Seq(Readers \cup Writers)
      /\ DOMAIN Tail(tail[k0]) = 1..(Len(tail[k0]) - 1)
      /\ \A i \in 1..(Len(tail[k0]) - 1) : Tail(tail[k0])[i] = tail[k0][i + 1]
  BY <1>1, TailEntries DEF AtHead
<1>3. tail' = [tail EXCEPT ![k0] = Tail(tail[k0])]
  BY DEF Settle
<1>4. tail' \in [Keys -> Seq(Readers \cup Writers)]
  BY <1>1, <1>2, <1>3
<1>5. \A x \in Readers : x # r => reader'[x] = reader[x] /\ value'[x] = value[x] /\ ticket'[x] = ticket[x]
  BY DEF Answer
<1>6. reader'[r] = p
  BY DEF Answer
<1>7. \A x \in Readers : reader'[x] = "storing" => x # r /\ reader[x] = "storing" /\ KeyOf[x] # k0
  <2> SUFFICES ASSUME NEW x \in Readers, reader'[x] = "storing"
               PROVE  x # r /\ reader[x] = "storing" /\ KeyOf[x] # k0
    OBVIOUS
  <2>1. x # r /\ reader[x] = "storing"
    BY <1>5, <1>6
  <2>2. AtHead(x, KeyOf[x])
    BY <2>1 DEF TailShape
  <2> QED
    BY <2>1, <2>2 DEF AtHead
<1>8. TailShape'
  <2>1. ASSUME NEW k \in Keys, NEW i \in DOMAIN tail'[k], tail'[k][i] \in Readers
        PROVE  /\ KeyOf[tail'[k][i]] = k
               /\ reader'[tail'[k][i]] \in {"queued", "storing"}
               /\ \A j \in DOMAIN tail'[k] : tail'[k][i] = tail'[k][j] => i = j
    <3>1. CASE k # k0
      <4>1. tail'[k] = tail[k]
        BY <1>3, <3>1
      <4>2. tail[k][i] # r
        BY <4>1, <2>1, <3>1 DEF TailShape
      <4> QED
        BY <4>1, <4>2, <2>1, <1>5 DEF TailShape
    <3>2. CASE k = k0
      <4>1. tail'[k] = Tail(tail[k0])
        BY <1>3, <3>2, <1>1
      <4>2. /\ i + 1 \in DOMAIN tail[k0] /\ 1 \in DOMAIN tail[k0] /\ i + 1 # 1
            /\ tail'[k][i] = tail[k0][i + 1]
        BY <4>1, <2>1, <1>2
      <4>3. tail[k0][i + 1] # r
        BY <4>2, <1>2, <1>1, <2>1 DEF TailShape
      <4>4. \A j \in DOMAIN tail'[k] : j + 1 \in DOMAIN tail[k0] /\ tail'[k][j] = tail[k0][j + 1]
        BY <4>1, <1>2
      <4>5. \A j \in DOMAIN tail'[k] : tail'[k][i] = tail'[k][j] => i + 1 = j + 1
        BY <4>2, <4>4, <1>1, <2>1 DEF TailShape
      <4>6. \A j \in DOMAIN tail'[k] : j \in Int /\ i \in Int
        BY <4>1, <1>2, <2>1
      <4>7. reader'[tail'[k][i]] = reader[tail[k0][i + 1]]
        BY <4>2, <4>3, <1>5, <2>1
      <4> QED
        BY <4>2, <4>5, <4>6, <4>7, <1>1, <2>1, <3>2 DEF TailShape
    <3> QED
      BY <3>1, <3>2
  <2>2. \A x \in Readers : reader'[x] = "storing" => AtHead(x, KeyOf[x])'
    BY <1>3, <1>7, ConstantsAssumption DEF TailShape, AtHead
  <2> QED
    BY <2>1, <2>2 DEF TailShape
<1>9. StaleIsAwaited'
  <2> SUFFICES ASSUME NEW x \in Readers, NEW w \in Writers, reader'[x] = "storing",
                      Revoked(w)', KeyOf[x] \in Intents[w] \cap PlainKeys, ~ (value'[x] >= since'[w])
               PROVE  writer'[w] = "waiting" /\ KeyOf[x] \in Held(w)'
    BY DEF StaleIsAwaited
  <2>1. writer[w] = "waiting" /\ KeyOf[x] \in Held(w)
    BY <1>5, <1>7 DEF StaleIsAwaited, Revoked, writeVars
  <2>2. tail'[KeyOf[x]] = tail[KeyOf[x]]
    BY <1>3, <1>7, ConstantsAssumption
  <2> QED
    BY <2>1, <2>2 DEF Held, writeVars
<1>10. ValidIsFresh'
  BY <1>5, <1>6 DEF ValidIsFresh, HasResult, Revoked, writeVars
<1>11. NestedIncludes'
  BY <1>5, <1>6 DEF NestedIncludes
<1> QED
  BY <1>4, <1>8, <1>9, <1>10, <1>11

\* An entry that disappears from the cache disturbs nothing.
LEMMA DropPreserves ==
  ASSUME IInv, NEW k \in Keys, cache' = [cache EXCEPT ![k] = None],
         UNCHANGED <<db, queryVars, tail, writeVars>>
  PROVE  IInv'
<1> USE DEF IInv, TypeOK, queryVars, writeVars
<1>1. TypeOK' /\ NestedIncludes'
  BY DEF Version, NestedIncludes
<1>2. TailShape' /\ WriterShape'
  BY DEF TailShape, WriterShape, AtHead
<1>3. ValidIsFresh' /\ StaleIsAwaited'
  BY DEF ValidIsFresh, StaleIsAwaited, HasResult, Revoked, Held
<1>4. DeletedStaysFresh'
  BY ConstantsAssumption DEF DeletedStaysFresh, Revoked
<1> QED
  BY <1>1, <1>2, <1>3, <1>4
\* Appending one more job to some tails: a fill of a query not chained before,
\* or the holds of a write.
LEMMA AppendPreserves ==
  ASSUME IInv, NEW K \in SUBSET Keys, NEW job \in Readers \cup Writers,
         tail' = [k \in Keys |-> IF k \in K THEN Append(tail[k], job) ELSE tail[k]],
         \A r \in Readers : reader'[r] = "storing" <=> reader[r] = "storing",
         \A r \in Readers : reader[r] \in {"queued", "storing"} => reader'[r] \in {"queued", "storing"},
         job \in Readers => /\ reader[job] \notin {"queued", "storing"}
                            /\ reader'[job] = "queued"
                            /\ K = {KeyOf[job]}
  PROVE  /\ tail' \in [Keys -> Seq(Readers \cup Writers)]
         /\ TailShape'
         /\ \A k \in Keys, w \in Writers : w \in Range(tail[k]) => w \in Range(tail'[k])
         /\ \A k \in K : job \in Range(tail'[k])
<1> USE DEF IInv, TypeOK
<1> DEFINE J == Readers \cup Writers
<1>1. \A k \in Keys : tail[k] \in Seq(J)
  OBVIOUS
<1>2. ASSUME NEW k \in Keys
      PROVE  /\ tail'[k] \in Seq(J) /\ Len(tail[k]) \in Nat
             /\ DOMAIN tail[k] = 1..Len(tail[k])
             /\ DOMAIN tail[k] \subseteq DOMAIN tail'[k]
             /\ \A i \in DOMAIN tail[k] : tail'[k][i] = tail[k][i]
             /\ \A i \in DOMAIN tail'[k] \ DOMAIN tail[k] :
                  k \in K /\ i = Len(tail[k]) + 1 /\ tail'[k][i] = job
             /\ k \in K => Len(tail[k]) + 1 \in DOMAIN tail'[k] /\ tail'[k][Len(tail[k]) + 1] = job
             /\ tail[k] # <<>> => tail'[k] # <<>> /\ Head(tail'[k]) = Head(tail[k])
  <2>1. CASE k \in K
    BY <2>1, <1>1, TailEntries
  <2>2. CASE k \notin K
    BY <2>2, <1>1, TailEntries
  <2> QED
    BY <2>1, <2>2
<1> HIDE DEF J
<1>3. \A k \in Keys : \A i \in DOMAIN tail[k] : tail[k][i] # job \/ job \notin Readers
  BY DEF TailShape
<1>4. ASSUME NEW k \in Keys, NEW i \in DOMAIN tail'[k], tail'[k][i] \in Readers
      PROVE  /\ KeyOf[tail'[k][i]] = k
             /\ reader'[tail'[k][i]] \in {"queued", "storing"}
             /\ \A j \in DOMAIN tail'[k] : tail'[k][i] = tail'[k][j] => i = j
  <2>1. CASE i \in DOMAIN tail[k]
    <3>1. tail[k][i] = tail'[k][i] /\ tail[k][i] # job
      BY <1>2, <1>3, <1>4, <2>1
    <3>2. \A j \in DOMAIN tail'[k] : tail'[k][i] = tail'[k][j] => j \in DOMAIN tail[k]
      BY <3>1, <1>2
    <3>3. \A j \in DOMAIN tail'[k] : tail'[k][i] = tail'[k][j] => i = j
      BY <3>1, <3>2, <1>2, <1>4, <2>1 DEF TailShape
    <3> QED
      BY <3>1, <3>3, <1>4, <2>1 DEF TailShape
  <2>2. CASE i \notin DOMAIN tail[k]
    <3>1. k \in K /\ i = Len(tail[k]) + 1 /\ tail'[k][i] = job
      BY <1>2, <1>4, <2>2
    <3>2. \A j \in DOMAIN tail'[k] : tail'[k][j] = job => j \notin DOMAIN tail[k]
      BY <1>2, <1>3, <1>4, <3>1
    <3> QED
      BY <3>1, <3>2, <1>2, <1>4
  <2> QED
    BY <2>1, <2>2
<1>5. \A r \in Readers : reader'[r] = "storing" => AtHead(r, KeyOf[r])'
  <2> SUFFICES ASSUME NEW r \in Readers, reader'[r] = "storing"
               PROVE  tail'[KeyOf[r]] # <<>> /\ Head(tail'[KeyOf[r]]) = r
    BY DEF AtHead
  <2>1. KeyOf[r] \in Keys /\ tail[KeyOf[r]] # <<>> /\ Head(tail[KeyOf[r]]) = r
    BY ConstantsAssumption DEF TailShape, AtHead
  <2> QED
    BY <2>1, <1>2
<1>6. \A k \in Keys, w \in Writers : w \in Range(tail[k]) => w \in Range(tail'[k])
  BY <1>2 DEF Range
<1>7. \A k \in K : job \in Range(tail'[k])
  BY <1>2 DEF Range
<1>8. tail' \in [Keys -> Seq(Readers \cup Writers)]
  BY <1>2 DEF J
<1> QED
  BY <1>4, <1>5, <1>6, <1>7, <1>8 DEF TailShape

\* finish(): a write's holds that have come up are popped.
LEMMA LetGoPreserves ==
  ASSUME IInv, NEW w \in Writers, NEW p \in {"done", "failed"}, LetGo(w, p),
         writer[w] = "deleting", p = "done" => left[w] = {}
  PROVE  IInv'
<1> USE DEF IInv, TypeOK
<1>1. /\ tail' = [k \in Keys |-> IF AtHead(w, k) THEN Tail(tail[k]) ELSE tail[k]]
      /\ writer' = [writer EXCEPT ![w] = p]
      /\ UNCHANGED <<db, cache, reader, value, ticket, since, left>>
  BY DEF LetGo, queryVars
<1>2. ASSUME NEW k \in Keys
      PROVE  /\ tail'[k] \in Seq(Readers \cup Writers)
             /\ \A i \in DOMAIN tail'[k] : \E d \in {0, 1} :
                  /\ i \in Int /\ i + d \in DOMAIN tail[k] /\ tail'[k][i] = tail[k][i + d]
                  /\ \A j \in DOMAIN tail'[k] :
                       j \in Int /\ j + d \in DOMAIN tail[k] /\ tail'[k][j] = tail[k][j + d]
             /\ \A x \in Writers : x # w /\ x \in Range(tail[k]) => x \in Range(tail'[k])
  <2>1. CASE AtHead(w, k)
    <3>1. /\ tail[k] \in Seq(Readers \cup Writers) /\ tail[k] # <<>> /\ tail'[k] = Tail(tail[k])
          /\ Head(tail[k]) = w
      BY <1>1, <2>1 DEF AtHead
    <3>2. /\ Len(tail[k]) \in Nat /\ Len(tail[k]) > 0 /\ DOMAIN tail[k] = 1..Len(tail[k])
          /\ DOMAIN tail'[k] = 1..(Len(tail[k]) - 1) /\ tail[k][1] = w
          /\ \A i \in 1..(Len(tail[k]) - 1) : tail'[k][i] = tail[k][i + 1]
          /\ tail'[k] \in Seq(Readers \cup Writers)
      BY <3>1, TailEntries
    <3>3. ASSUME NEW x \in Writers, x # w, x \in Range(tail[k]) PROVE x \in Range(tail'[k])
      <4>1. PICK i \in DOMAIN tail[k] : tail[k][i] = x
        BY <3>3 DEF Range
      <4>2. i - 1 \in DOMAIN tail'[k] /\ tail'[k][i - 1] = x
        BY <4>1, <3>2, <3>3
      <4> QED
        BY <4>2 DEF Range
    <3> QED
      BY <3>2, <3>3
  <2>2. CASE ~ AtHead(w, k)
    <3>1. tail'[k] = tail[k] /\ tail[k] \in Seq(Readers \cup Writers)
      BY <1>1, <2>2
    <3>2. DOMAIN tail[k] = 1..Len(tail[k]) /\ Len(tail[k]) \in Nat
      BY <3>1, TailEntries
    <3> QED
      BY <3>1, <3>2
  <2> QED
    BY <2>1, <2>2
<1>3. tail' \in [Keys -> Seq(Readers \cup Writers)]
  BY <1>1, <1>2
<1>4. TailShape'
  <2>1. ASSUME NEW k \in Keys, NEW i \in DOMAIN tail'[k], tail'[k][i] \in Readers
        PROVE  /\ KeyOf[tail'[k][i]] = k
               /\ reader'[tail'[k][i]] \in {"queued", "storing"}
               /\ \A j \in DOMAIN tail'[k] : tail'[k][i] = tail'[k][j] => i = j
    <3>1. PICK d \in {0, 1} :
            /\ i \in Int /\ i + d \in DOMAIN tail[k] /\ tail'[k][i] = tail[k][i + d]
            /\ \A j \in DOMAIN tail'[k] :
                 j \in Int /\ j + d \in DOMAIN tail[k] /\ tail'[k][j] = tail[k][j + d]
      BY <1>2
    <3>2. \A j \in DOMAIN tail'[k] : tail'[k][i] = tail'[k][j] => i + d = j + d
      BY <3>1, <2>1 DEF TailShape
    <3>3. \A j \in DOMAIN tail'[k] : tail'[k][i] = tail'[k][j] => i = j
      BY <3>1, <3>2
    <3> QED
      BY <1>1, <2>1, <3>1, <3>3 DEF TailShape
  <2>2. \A r \in Readers : reader'[r] = "storing" => AtHead(r, KeyOf[r])'
    <3> SUFFICES ASSUME NEW r \in Readers, reader[r] = "storing"
                 PROVE  AtHead(r, KeyOf[r])'
      BY <1>1
    <3>1. AtHead(r, KeyOf[r]) /\ r # w
      BY ConstantsAssumption DEF TailShape
    <3>2. ~ AtHead(w, KeyOf[r])
      BY <3>1 DEF AtHead
    <3> QED
      BY <1>1, <3>1, <3>2, ConstantsAssumption DEF AtHead
  <2> QED
    BY <2>1, <2>2 DEF TailShape
<1>5. TypeOK' /\ NestedIncludes'
  BY <1>1, <1>3 DEF WriterPhases, NestedIncludes
<1>6. WriterShape'
  BY <1>1 DEF WriterShape
<1>7. ValidIsFresh' /\ DeletedStaysFresh'
  BY <1>1 DEF ValidIsFresh, DeletedStaysFresh, HasResult, Revoked
<1>8. StaleIsAwaited'
  <2> SUFFICES ASSUME NEW r \in Readers, NEW x \in Writers, reader'[r] = "storing",
                      Revoked(x)', KeyOf[r] \in Intents[x] \cap PlainKeys, ~ (value'[r] >= since'[x])
               PROVE  writer'[x] = "waiting" /\ KeyOf[r] \in Held(x)'
    BY DEF StaleIsAwaited
  <2>1. writer[x] = "waiting" /\ KeyOf[r] \in Held(x)
    BY <1>1 DEF StaleIsAwaited, Revoked
  <2>2. x # w /\ writer'[x] = "waiting"
    BY <1>1, <2>1
  <2> QED
    BY <1>2, <2>1, <2>2 DEF Held
<1> QED
  BY <1>4, <1>5, <1>6, <1>7, <1>8
\* The steps of a query (readThroughCache, withCacheReads).
LEMMA QueryInv ==
  ASSUME IInv, NEW r \in Readers, ReaderNext(r)
  PROVE  IInv'
<1> USE DEF IInv, TypeOK
<1>0. KeyOf[r] \in Keys /\ reader[r] \in ReaderPhases /\ value[r] \in Version
  BY ConstantsAssumption
<1>1. CASE Begin(r)
  <2>1. value' = [value EXCEPT ![r] = value[r]]
    BY <1>1 DEF Begin
  <2> QED
    BY <1>1, <1>0, <2>1, QueryPreserves DEF Begin, ReaderPhases
<1>2. CASE Hit(r)
  BY <1>2, <1>0, QueryPreserves DEF Hit, Answer, ReaderPhases
<1>3. CASE Miss(r)
  <2>1. value' = [value EXCEPT ![r] = value[r]] /\ ticket' = [ticket EXCEPT ![r] = ticket[r]]
    BY <1>3 DEF Miss
  <2> QED
    BY <1>3, <1>0, <2>1, QueryPreserves DEF Miss, ReaderPhases
<1>4. CASE Fetch(r)
  <2>1. ticket' = [ticket EXCEPT ![r] = ticket[r]] /\ db \in Version /\ ticket[r] # "none"
        /\ value' = [value EXCEPT ![r] = db] /\ reader[r] = "fetch"
        /\ UNCHANGED <<db, cache, tail, writeVars>>
    BY <1>4 DEF Fetch, Version
  <2>2. CASE Nested[r] = None
    <3>1. reader' = [reader EXCEPT ![r] = "fetched"]
      BY <1>4, <2>2 DEF Fetch
    <3> QED
      BY <1>0, <2>1, <3>1, QueryPreserves DEF ReaderPhases
  <2>3. CASE Nested[r] # None
    <3>1. reader' = [reader EXCEPT ![r] = "nested"]
      BY <1>4, <2>3 DEF Fetch
    <3> QED
      BY <1>0, <2>1, <2>3, <3>1, QueryPreserves DEF ReaderPhases
  <2> QED
    BY <2>2, <2>3
<1>5. CASE TakeNested(r)
  <2> DEFINE v == Oldest(value[r], value[Nested[r]])
  <2>1. reader[r] = "nested" /\ reader' = [reader EXCEPT ![r] = "fetched"]
        /\ value' = [value EXCEPT ![r] = v] /\ ticket' = [ticket EXCEPT ![r] = ticket[r]]
        /\ UNCHANGED <<db, cache, tail, writeVars>>
    BY <1>5 DEF TakeNested
  <2>2. Nested[r] # None
    BY <2>1 DEF NestedIncludes
  <2>3. Nested[r] \in Readers /\ KeyOf[r] \notin PlainKeys
    BY <2>2, ConstantsAssumption DEF PlainKeys
  <2>4. v \in Version
    BY <1>0, <2>3 DEF Oldest
  <2> HIDE DEF v
  <2> QED
    BY <1>0, <2>1, <2>3, <2>4, QueryPreserves DEF ReaderPhases
<1>6. CASE FetchFails(r)
  <2>1. reader[r] \notin {"queued", "storing"} /\ None \in Version
    BY <1>6 DEF FetchFails, Version
  <2> QED
    BY <1>6, <1>0, <2>1, QueryPreserves DEF FetchFails, Answer, ReaderPhases
<1>7. CASE Chain(r)
  <2>1. /\ reader[r] = "fetched" /\ reader' = [reader EXCEPT ![r] = "queued"]
        /\ UNCHANGED <<db, cache, value, ticket, writer, since, left>>
    BY <1>7 DEF Chain, writeVars
  <2>2. tail' = [k \in Keys |-> IF k \in {KeyOf[r]} THEN Append(tail[k], r) ELSE tail[k]]
    BY <1>7, <1>0 DEF Chain
  <2>3. /\ tail' \in [Keys -> Seq(Readers \cup Writers)] /\ TailShape'
        /\ \A k \in Keys, w \in Writers : w \in Range(tail[k]) => w \in Range(tail'[k])
    BY <1>0, <2>1, <2>2, AppendPreserves
  <2>4. TypeOK' /\ NestedIncludes'
    BY <2>1, <2>3 DEF ReaderPhases, NestedIncludes
  <2>5. WriterShape' /\ DeletedStaysFresh' /\ ValidIsFresh'
    BY <2>1 DEF WriterShape, DeletedStaysFresh, ValidIsFresh, HasResult, Revoked
  <2>6. StaleIsAwaited'
    BY <2>1, <2>3, ConstantsAssumption DEF StaleIsAwaited, Revoked, Held
  <2> QED
    BY <2>3, <2>4, <2>5, <2>6
<1>8. CASE SkipFill(r)
  <2>1. UNCHANGED <<db, cache, writer, since, left>> /\ Answer(r, value[r], "done")
    BY <1>8 DEF SkipFill, writeVars
  <2>2. tail' \in [Keys -> Seq(Readers \cup Writers)] /\ TailShape' /\ StaleIsAwaited' /\ ValidIsFresh' /\ NestedIncludes'
    BY <1>8, <1>0, SettlePreserves DEF SkipFill
  <2>3. TypeOK'
    BY <1>0, <2>1, <2>2 DEF Answer, ReaderPhases
  <2>4. WriterShape' /\ DeletedStaysFresh'
    BY <2>1 DEF WriterShape, DeletedStaysFresh, Revoked
  <2> QED
    BY <2>2, <2>3, <2>4
<1>9. CASE SendFill(r)
  <2>1. /\ reader[r] = "queued" /\ AtHead(r, KeyOf[r]) /\ ticket[r] = "valid"
        /\ reader' = [reader EXCEPT ![r] = "storing"]
        /\ UNCHANGED <<db, cache, value, ticket, tail, writer, since, left>>
    BY <1>9 DEF SendFill, writeVars
  <2>2. TypeOK' /\ TailShape' /\ NestedIncludes'
    BY <2>1 DEF TailShape, AtHead, ReaderPhases, NestedIncludes
  <2>3. WriterShape' /\ DeletedStaysFresh' /\ ValidIsFresh'
    BY <2>1 DEF WriterShape, DeletedStaysFresh, ValidIsFresh, HasResult, Revoked
  <2>4. StaleIsAwaited'
    BY <2>1 DEF StaleIsAwaited, ValidIsFresh, HasResult, Revoked, Held
  <2> QED
    BY <2>2, <2>3, <2>4
<1>10. CASE Stored(r)
  <2>1. /\ reader[r] = "storing" /\ cache' = [cache EXCEPT ![KeyOf[r]] = value[r]]
        /\ UNCHANGED <<db, writer, since, left>> /\ Answer(r, value[r], "done")
    BY <1>10 DEF Stored, writeVars
  <2>2. tail' \in [Keys -> Seq(Readers \cup Writers)] /\ TailShape' /\ StaleIsAwaited' /\ ValidIsFresh' /\ NestedIncludes'
    <3>1. AtHead(r, KeyOf[r])
      BY <2>1 DEF TailShape
    <3> QED
      BY <1>10, <1>0, <3>1, SettlePreserves DEF Stored
  <2>3. TypeOK'
    BY <1>0, <2>1, <2>2 DEF Answer, ReaderPhases
  <2>4. WriterShape'
    BY <2>1 DEF WriterShape
  <2>5. ASSUME NEW w \in Writers, Revoked(w), KeyOf[r] \in (Intents[w] \ left[w]) \cap PlainKeys
        PROVE  value[r] >= since[w]
    BY <2>1, <2>5 DEF StaleIsAwaited, WriterShape
  <2>6. DeletedStaysFresh'
    BY <1>0, <2>1, <2>5 DEF DeletedStaysFresh, Revoked
  <2> QED
    BY <2>2, <2>3, <2>4, <2>6
<1>11. CASE StoreFails(r)
  <2>1. /\ reader[r] = "storing" /\ None \in Version
        /\ UNCHANGED <<db, cache, writer, since, left>> /\ Answer(r, None, "failed")
    BY <1>11 DEF StoreFails, writeVars, Version
  <2>2. tail' \in [Keys -> Seq(Readers \cup Writers)] /\ TailShape' /\ StaleIsAwaited' /\ ValidIsFresh' /\ NestedIncludes'
    <3>1. AtHead(r, KeyOf[r])
      BY <2>1 DEF TailShape
    <3> QED
      BY <1>11, <1>0, <2>1, <3>1, SettlePreserves DEF StoreFails
  <2>3. TypeOK'
    BY <1>0, <2>1, <2>2 DEF Answer, ReaderPhases
  <2>4. WriterShape' /\ DeletedStaysFresh'
    BY <2>1 DEF WriterShape, DeletedStaysFresh, Revoked
  <2> QED
    BY <2>2, <2>3, <2>4
<1> QED
  BY <1>1, <1>2, <1>3, <1>4, <1>5, <1>6, <1>7, <1>8, <1>9, <1>10, <1>11, Zenon DEF ReaderNext

\* The steps of a write (coordinateInvalidation).
LEMMA WriteInv ==
  ASSUME IInv, NEW w \in Writers, WriterNext(w)
  PROVE  IInv'
<1> USE DEF IInv, TypeOK
<1>1. CASE Write(w)
  <2>1. /\ writer[w] = "idle" /\ db' = db + 1 /\ writer' = [writer EXCEPT ![w] = "written"]
        /\ UNCHANGED <<cache, reader, value, ticket, tail, since, left>>
    BY <1>1 DEF Write, queryVars
  <2>2. TypeOK' /\ TailShape' /\ WriterShape' /\ NestedIncludes'
    BY <2>1 DEF WriterPhases, TailShape, AtHead, WriterShape, NestedIncludes
  <2>3. ValidIsFresh' /\ StaleIsAwaited' /\ DeletedStaysFresh'
    BY <2>1 DEF ValidIsFresh, StaleIsAwaited, DeletedStaysFresh, HasResult, Revoked, Held
  <2> QED
    BY <2>2, <2>3
<1>2. CASE Revoke(w)
  <2>1. /\ writer[w] = "written" /\ writer' = [writer EXCEPT ![w] = "waiting"]
        /\ ticket' = [r \in Readers |-> IF ticket[r] = "valid" /\ KeyOf[r] \in Intents[w]
                                         THEN "revoked" ELSE ticket[r]]
        /\ since' = [since EXCEPT ![w] = db] /\ left' = [left EXCEPT ![w] = Intents[w]]
        /\ UNCHANGED <<db, cache, reader, value>>
    BY <1>2 DEF Revoke
  <2>2. Reserved(w) \in SUBSET Keys
    BY ConstantsAssumption DEF Reserved
  <2>3. tail' = [k \in Keys |-> IF k \in Reserved(w) THEN Append(tail[k], w) ELSE tail[k]]
    BY <1>2 DEF Revoke
  <2>4. /\ tail' \in [Keys -> Seq(Readers \cup Writers)] /\ TailShape'
        /\ \A k \in Keys, x \in Writers : x \in Range(tail[k]) => x \in Range(tail'[k])
        /\ \A k \in Reserved(w) : w \in Range(tail'[k])
    <3>1. w \notin Readers /\ w \in Readers \cup Writers
      BY ConstantsAssumption
    <3>2. UNCHANGED reader
      BY <2>1
    <3> QED
      BY <2>2, <2>3, <3>1, <3>2, AppendPreserves
  <2>5. TypeOK'
    <3>1. ticket' \in [Readers -> {"none", "valid", "revoked"}]
          /\ \A r \in Readers : ticket'[r] = "none" <=> ticket[r] = "none"
      BY <2>1
    <3> QED
      BY <2>1, <2>4, <3>1, ConstantsAssumption DEF WriterPhases
  <2>6. WriterShape' /\ NestedIncludes'
    BY <2>1, ConstantsAssumption DEF WriterShape, NestedIncludes
  <2>7. ValidIsFresh'
    BY <2>1 DEF ValidIsFresh, HasResult, Revoked
  <2>8. StaleIsAwaited'
    <3> SUFFICES ASSUME NEW r \in Readers, NEW x \in Writers, reader[r] = "storing",
                        Revoked(x)', KeyOf[r] \in Intents[x] \cap PlainKeys, ~ (value[r] >= since'[x])
                 PROVE  writer'[x] = "waiting" /\ KeyOf[r] \in Held(x)'
      BY <2>1 DEF StaleIsAwaited
    <3>1. CASE x = w
      <4>1. KeyOf[r] \in Reserved(w)
        BY <3>1 DEF TailShape, AtHead, Reserved
      <4> QED
        BY <2>1, <2>2, <2>4, <3>1, <4>1 DEF Held
    <3>2. CASE x # w
      <4>1. writer[x] = "waiting" /\ KeyOf[r] \in Held(x)
        BY <2>1, <3>2 DEF StaleIsAwaited, Revoked
      <4> QED
        BY <2>1, <2>4, <3>2, <4>1 DEF Held
    <3> QED
      BY <3>1, <3>2
  <2>9. DeletedStaysFresh'
    BY <2>1 DEF DeletedStaysFresh, Revoked
  <2> QED
    BY <2>4, <2>5, <2>6, <2>7, <2>8, <2>9
<1>3. CASE Drained(w)
  <2>1. /\ writer[w] = "waiting" /\ \A k \in Held(w) : AtHead(w, k)
        /\ writer' = [writer EXCEPT ![w] = "deleting"]
        /\ UNCHANGED <<db, cache, reader, value, ticket, tail, since, left>>
    BY <1>3 DEF Drained, queryVars
  <2>2. TypeOK' /\ TailShape' /\ WriterShape' /\ NestedIncludes'
    BY <2>1 DEF WriterPhases, TailShape, AtHead, WriterShape, NestedIncludes
  <2>3. ValidIsFresh' /\ DeletedStaysFresh'
    BY <2>1 DEF ValidIsFresh, DeletedStaysFresh, HasResult, Revoked
  <2>4. StaleIsAwaited'
    <3> SUFFICES ASSUME NEW r \in Readers, NEW x \in Writers, reader[r] = "storing",
                        Revoked(x)', KeyOf[r] \in Intents[x] \cap PlainKeys, ~ (value[r] >= since[x])
                 PROVE  writer'[x] = "waiting" /\ KeyOf[r] \in Held(x)'
      BY <2>1 DEF StaleIsAwaited
    <3>1. writer[x] = "waiting" /\ KeyOf[r] \in Held(x)
      BY <2>1 DEF StaleIsAwaited, Revoked
    <3>2. AtHead(r, KeyOf[r]) /\ r # w
      BY ConstantsAssumption DEF TailShape
    <3>3. x # w
      BY <2>1, <3>1, <3>2 DEF AtHead
    <3> QED
      BY <2>1, <3>1, <3>3 DEF Held
  <2> QED
    BY <2>2, <2>3, <2>4
<1>4. CASE Finish(w)
  BY <1>4, LetGoPreserves DEF Finish
<1>5. CASE DeleteFails(w)
  BY <1>5, LetGoPreserves DEF DeleteFails
<1>6. ASSUME NEW k \in Keys, Delete(w, k) PROVE IInv'
  <2>1. /\ writer[w] = "deleting" /\ cache' = [cache EXCEPT ![k] = None]
        /\ left' = [left EXCEPT ![w] = left[w] \ {k}]
        /\ UNCHANGED <<db, reader, value, ticket, tail, writer, since>>
    BY <1>6 DEF Delete, queryVars
  <2>2. TypeOK' /\ TailShape' /\ WriterShape' /\ NestedIncludes'
    BY <2>1 DEF Version, TailShape, AtHead, WriterShape, NestedIncludes
  <2>3. ValidIsFresh' /\ StaleIsAwaited'
    BY <2>1 DEF ValidIsFresh, StaleIsAwaited, HasResult, Revoked, Held
  <2>4. DeletedStaysFresh'
    BY <2>1, ConstantsAssumption DEF DeletedStaysFresh, Revoked
  <2> QED
    BY <2>2, <2>3, <2>4
<1> QED
  BY <1>1, <1>2, <1>3, <1>4, <1>5, <1>6, Zenon DEF WriterNext

\* Every step keeps the invariant.
LEMMA StepInv == IInv /\ [Next]_vars => IInv'
<1> SUFFICES ASSUME IInv, [Next]_vars PROVE IInv'
  OBVIOUS
<1>1. ASSUME NEW k \in Keys, Expire(k) PROVE IInv'
  BY <1>1, DropPreserves DEF Expire
<1>2. CASE UNCHANGED vars
  BY <1>2 DEF vars, IInv, TypeOK, NestedIncludes, TailShape, WriterShape, ValidIsFresh, StaleIsAwaited,
              DeletedStaysFresh, HasResult, Revoked, Held, AtHead
<1> QED
  BY <1>1, <1>2, QueryInv, WriteInv DEF Next

\* Type correctness, and no ticket outlives its query.
THEOREM TypeCorrect == Spec => []TypeOK
<1>1. IInv => TypeOK
  BY DEF IInv
<1> QED
  BY <1>1, StepInv, InitInv, PTL DEF Spec

\* Nothing from before a write is in the cache after its invalidation is
\* acknowledged, or on its way into it once it deletes, under the key of any
\* query computed from the database alone, whatever the number of queries and
\* overlapping invalidations.
THEOREM InvalidationIsFinal == Spec => []NothingStale
<1>1. IInv => NothingStale
  <2>1. IInv => FreshIn(PlainKeys)
    BY DEF IInv, FreshIn, DeletedStaysFresh, WriterShape, Revoked
  <2>2. IInv => NoStaleInFlight
    BY DEF IInv, NoStaleInFlight, StaleIsAwaited, Revoked
  <2> QED
    BY <2>1, <2>2 DEF NothingStale
<1> QED
  BY <1>1, StepInv, InitInv, PTL DEF Spec
-----------------------------------------------------------------------------
(* The contract.  Its floor is the highest version among the acknowledged  *)
(* writes; a fill is no older than that, and nothing is newer than db.     *)

\* Numbers are well-founded.
LEMMA LessWellFounded == IsWellFoundedOn({ss \in Nat \X Nat : ss[1] < ss[2]}, Nat)
  BY Zenon, NatLessThanWellFounded DEF OpToRel

\* A set of numbers that is not empty has a least one.
LEMMA Least ==
  ASSUME NEW S, S \subseteq Nat, S # {}
  PROVE  \E n \in S : \A k \in S : n <= k
<1>1. PICK n \in S : \A k \in S : ~(<<k, n>> \in {ss \in Nat \X Nat : ss[1] < ss[2]})
  BY LessWellFounded, WFMin
<1>2. ASSUME NEW k \in S PROVE n <= k
  <2>1. ~(<<k, n>> \in {ss \in Nat \X Nat : ss[1] < ss[2]})
    BY <1>1
  <2>2. k \in Nat /\ n \in Nat
    OBVIOUS
  <2> QED
    BY <2>1, <2>2
<1> QED
  BY <1>2

\* A bounded set of numbers that is not empty has a highest one.
LEMMA Highest ==
  ASSUME NEW S, S \subseteq Nat, S # {}, NEW n \in Nat, \A s \in S : s <= n
  PROVE  \E v \in S : \A u \in S : u <= v
<1> DEFINE U == {m \in Nat : \A s \in S : s <= m}
<1>1. PICK m \in U : \A k \in U : m <= k
  <2>1. U # {} /\ U \subseteq Nat
    OBVIOUS
  <2> HIDE DEF U
  <2> QED BY <2>1, Least
<1>2. m \in S
  <2> SUFFICES ASSUME m \notin S PROVE FALSE
    OBVIOUS
  <2>1. \A s \in S : s \in Nat /\ s < m
    OBVIOUS
  <2>2. m > 0
    <3>1. PICK s \in S : TRUE
      OBVIOUS
    <3>2. s \in Nat /\ s < m /\ m \in Nat
      BY <2>1, <3>1
    <3> QED BY <3>2
  <2>3. m - 1 \in U
    BY <2>1, <2>2
  <2> QED BY <1>1, <2>3
<1> QED BY <1>2

HighestOf(S) == IF S = {} THEN 0 ELSE CHOOSE v \in S : \A u \in S : u <= v

\* HighestOf is the highest number of a bounded set, or 0.
LEMMA FloorOf ==
  ASSUME NEW S, S \subseteq Nat, NEW n \in Nat, \A s \in S : s <= n,
         NEW m, m = HighestOf(S)
  PROVE  m \in 0..n /\ (\A u \in S : u <= m) /\ (m # 0 => m \in S)
<1>1. CASE S = {}
  BY <1>1 DEF HighestOf
<1>2. CASE S # {}
  <2>1. m \in S /\ \A u \in S : u <= m
    BY <1>2, Highest DEF HighestOf
  <2>2. m \in Nat /\ m <= n
    BY <2>1
  <2> QED BY <1>2, <2>1, <2>2
<1> QED BY <1>1, <1>2

\* The floor of k, given the versions acknowledged for it.
LEMMA FloorIs ==
  ASSUME NEW k \in PlainKeys, IInv
  PROVE  /\ Floor[k] \in 0..db /\ \A u \in Acknowledged(k) : u <= Floor[k]
         /\ Floor[k] # 0 => Floor[k] \in Acknowledged(k)
<1>1. Acknowledged(k) \subseteq Nat /\ db \in Nat /\ \A u \in Acknowledged(k) : u <= db
  BY DEF Acknowledged, IInv, TypeOK, WriterShape
<1>2. Floor[k] = HighestOf(Acknowledged(k))
  BY DEF Floor, HighestOf
<1> QED BY <1>1, <1>2, FloorOf

\* What plain queries hold, and plain entries show, the database has been.
Bounded ==
  /\ \A r \in Readers : KeyOf[r] \in PlainKeys /\ value[r] # None => value[r] <= db
  /\ \A k \in PlainKeys : cache[k] # None => cache[k] <= db

\* The query of a plain key takes in no other entry.
LEMMA PlainReaders ==
  ASSUME NEW r \in Readers, KeyOf[r] \in PlainKeys
  PROVE  Nested[r] = None /\ KeyOf[r] \in Keys
BY ConstantsAssumption DEF PlainKeys

\* At first every value is as old as the database.
LEMMA InitBounded == Init => Bounded
BY DEF Init, Bounded, PlainKeys

\* No value is newer than the database.
LEMMA StepBounded == IInv /\ Bounded /\ [Next]_vars => Bounded'
<1> SUFFICES ASSUME IInv, Bounded, [Next]_vars PROVE Bounded'
  OBVIOUS
<1> USE DEF IInv, TypeOK
<1>1. ASSUME NEW r \in Readers, ReaderNext(r) PROVE Bounded'
  <2>0. db \in Nat /\ (value[r] \in Nat \/ value[r] = None) /\ KeyOf[r] \in Keys
    BY ConstantsAssumption DEF Version
  <2>1. CASE Begin(r)
    BY <2>1 DEF Begin, Bounded
  <2>2. CASE Hit(r)
    BY <2>2 DEF Hit, Answer, Bounded
  <2>3. CASE Miss(r)
    BY <2>3 DEF Miss, Bounded
  <2>4. CASE Fetch(r)
    BY <2>0, <2>4 DEF Fetch, Bounded
  <2>5. CASE TakeNested(r)
    <3>1. KeyOf[r] \notin PlainKeys
      BY <2>5, PlainReaders DEF TakeNested, NestedIncludes
    <3> QED BY <2>5, <3>1 DEF TakeNested, Bounded
  <2>6. CASE FetchFails(r)
    BY <2>6 DEF FetchFails, Answer, Bounded
  <2>7. CASE Chain(r)
    BY <2>7 DEF Chain, Bounded, writeVars
  <2>8. CASE SkipFill(r)
    BY <2>8 DEF SkipFill, Answer, Bounded
  <2>9. CASE SendFill(r)
    BY <2>9 DEF SendFill, Bounded
  <2>10. CASE Stored(r)
    BY <2>0, <2>10 DEF Stored, Answer, Bounded, PlainKeys
  <2>11. CASE StoreFails(r)
    BY <2>11 DEF StoreFails, Answer, Bounded
  <2> QED BY <1>1, <2>1, <2>2, <2>3, <2>4, <2>5, <2>6, <2>7, <2>8, <2>9, <2>10, <2>11, Zenon
         DEF ReaderNext
<1>2. ASSUME NEW w \in Writers, WriterNext(w) PROVE Bounded'
  <2>1. CASE Write(w)
    <3>1. db' = db + 1 /\ UNCHANGED <<cache, value>>
      BY <2>1 DEF Write, queryVars
    <3>2. \A v \in Version : v # None /\ v <= db => v <= db + 1
      BY DEF Version
    <3> QED BY <3>1, <3>2 DEF Bounded, PlainKeys
  <2>2. CASE Revoke(w)
    BY <2>2 DEF Revoke, Bounded
  <2>3. CASE Drained(w)
    BY <2>3 DEF Drained, Bounded, queryVars
  <2>4. CASE Finish(w) \/ DeleteFails(w)
    BY <2>4 DEF Finish, DeleteFails, LetGo, Bounded, queryVars
  <2>5. CASE \E k \in Keys : Delete(w, k)
    BY <2>5 DEF Delete, Bounded, queryVars, PlainKeys
  <2> QED BY <1>2, <2>1, <2>2, <2>3, <2>4, <2>5, Zenon DEF WriterNext
<1>3. CASE \E k \in Keys : Expire(k)
  BY <1>3 DEF Expire, Bounded, queryVars, PlainKeys
<1>4. CASE UNCHANGED vars
  BY <1>4 DEF vars, Bounded
<1> QED BY <1>1, <1>2, <1>3, <1>4 DEF Next

\* The floor moves only with what is acknowledged.
LEMMA SameFloor == ASSUME \A k : Acknowledged(k)' = Acknowledged(k) PROVE Floor' = Floor
<1>1. Floor = [k \in PlainKeys |-> HighestOf(Acknowledged(k))]
  BY DEF Floor, HighestOf
<1>2. Floor' = [k \in PlainKeys |-> HighestOf(Acknowledged(k)')]
  BY DEF Floor, HighestOf
<1> QED BY <1>1, <1>2

\* As long as no write is acknowledged, the floor stays.
LEMMA FloorStays ==
  ASSUME UNCHANGED since,
         \A w \in Writers : writer'[w] = "done" <=> writer[w] = "done"
  PROVE  Floor' = Floor
<1>1. \A k : Acknowledged(k)' = Acknowledged(k)
  BY DEF Acknowledged
<1> QED BY <1>1, SameFloor

\* One entry of the cache changes: it is seen of plain keys alone.
LEMMA CacheChanges ==
  ASSUME NEW k \in Keys, NEW v, cache \in [Keys -> Version],
         cache' = [cache EXCEPT ![k] = v]
  PROVE  Restrict(cache, PlainKeys)' =
           IF k \in PlainKeys THEN [Restrict(cache, PlainKeys) EXCEPT ![k] = v]
           ELSE Restrict(cache, PlainKeys)
BY DEF Restrict, PlainKeys

\* Every step is one of the contract, or none.
LEMMA StepContract ==
  IInv /\ IInv' /\ Bounded /\ [Next]_vars
    => [Contract!Next]_<<db, Restrict(cache, PlainKeys), Floor>>
<1> SUFFICES ASSUME IInv, IInv', Bounded, [Next]_vars
             PROVE  Contract!Next \/ UNCHANGED <<db, Restrict(cache, PlainKeys), Floor>>
  BY DEF Contract!vars
<1>0. /\ db \in Nat /\ cache \in [Keys -> Version]
      /\ \A r \in Readers : KeyOf[r] \in Keys
  BY ConstantsAssumption DEF IInv, TypeOK
<1>1. ASSUME NEW r \in Readers, ReaderNext(r)
      PROVE  Contract!Next \/ UNCHANGED <<db, Restrict(cache, PlainKeys), Floor>>
  <2>1. UNCHANGED <<db, writeVars>> /\ (UNCHANGED cache \/ Stored(r))
    BY <1>1 DEF ReaderNext, Begin, Hit, Miss, Fetch, TakeNested, FetchFails, Chain, SkipFill,
                SendFill, Stored, StoreFails, writeVars
  <2>2. Floor' = Floor
    BY <2>1, FloorStays DEF writeVars
  <2>3. CASE Stored(r) /\ KeyOf[r] \in PlainKeys
    <3>1. reader[r] = "storing" /\ cache' = [cache EXCEPT ![KeyOf[r]] = value[r]]
      BY <2>3 DEF Stored
    <3>2. value[r] \in Nat /\ value[r] <= db
      BY <2>3, <3>1, ConstantsAssumption DEF IInv, ValidIsFresh, HasResult, Bounded
    <3>3. \A u \in Acknowledged(KeyOf[r]) : u <= value[r]
      BY <2>3, <3>1, <3>2
         DEF Acknowledged, IInv, TypeOK, StaleIsAwaited, Revoked
    <3>4. value[r] \in Floor[KeyOf[r]]..db
      <4>1. Floor[KeyOf[r]] \in 0..db
            /\ (Floor[KeyOf[r]] # 0 => Floor[KeyOf[r]] \in Acknowledged(KeyOf[r]))
        BY <2>3, FloorIs
      <4> QED BY <1>0, <3>2, <3>3, <4>1
    <3>5. Restrict(cache, PlainKeys)' = [Restrict(cache, PlainKeys) EXCEPT ![KeyOf[r]] = value[r]]
      BY <1>0, <2>3, <3>1, CacheChanges
    <3>6. Contract!Fill(KeyOf[r])
      BY <2>1, <2>2, <3>4, <3>5 DEF Contract!Fill
    <3> QED BY <2>3, <3>6 DEF Contract!Next
  <2>4. CASE ~(Stored(r) /\ KeyOf[r] \in PlainKeys)
    <3>1. Restrict(cache, PlainKeys)' = Restrict(cache, PlainKeys)
      <4>1. CASE UNCHANGED cache
        BY <4>1 DEF Restrict, PlainKeys
      <4>2. CASE Stored(r)
        <5>1. cache' = [cache EXCEPT ![KeyOf[r]] = value[r]]
          BY <4>2 DEF Stored
        <5> QED BY <1>0, <2>4, <4>2, <5>1, CacheChanges
      <4> QED BY <2>1, <4>1, <4>2
    <3> QED BY <2>1, <2>2, <3>1
  <2> QED BY <2>3, <2>4
<1>2. ASSUME NEW k \in Keys, cache' = [cache EXCEPT ![k] = None], UNCHANGED <<db, since, writer>>
      PROVE  Contract!Next \/ UNCHANGED <<db, Restrict(cache, PlainKeys), Floor>>
  <2>1. Floor' = Floor
    BY <1>2, FloorStays
  <2>2. CASE k \in PlainKeys
    <3>1. Restrict(cache, PlainKeys)' = [Restrict(cache, PlainKeys) EXCEPT ![k] = None]
      BY <1>0, <1>2, <2>2, CacheChanges
    <3> QED BY <1>2, <2>1, <2>2, <3>1 DEF Contract!Next, Contract!Drop
  <2>3. CASE k \notin PlainKeys
    <3>1. Restrict(cache, PlainKeys)' = Restrict(cache, PlainKeys)
      BY <1>0, <1>2, <2>3, CacheChanges
    <3> QED BY <1>2, <2>1, <3>1
  <2> QED BY <2>2, <2>3
<1>3. ASSUME NEW w \in Writers, WriterNext(w)
      PROVE  Contract!Next \/ UNCHANGED <<db, Restrict(cache, PlainKeys), Floor>>
  <2>0. writer \in [Writers -> WriterPhases] /\ since \in [Writers -> Nat]
    BY DEF IInv, TypeOK
  <2>1. CASE Write(w)
    <3>1. Floor' = Floor
      BY <2>0, <2>1, FloorStays DEF Write
    <3> QED BY <2>1, <3>1 DEF Write, Restrict, Contract!Next, Contract!Write, PlainKeys
  <2>2. CASE Revoke(w)
    <3>1. \A k : Acknowledged(k)' = Acknowledged(k)
      BY <2>0, <2>2 DEF Revoke, Acknowledged
    <3>2. Floor' = Floor
      BY <3>1, SameFloor
    <3> QED BY <2>2, <3>2 DEF Revoke, Restrict, PlainKeys
  <2>3. CASE Drained(w)
    <3>1. Floor' = Floor
      BY <2>0, <2>3, FloorStays DEF Drained
    <3> QED BY <2>3, <3>1 DEF Drained, Restrict, PlainKeys
  <2>4. CASE DeleteFails(w)
    <3>1. Floor' = Floor
      BY <2>0, <2>4, FloorStays DEF DeleteFails, LetGo
    <3> QED BY <2>4, <3>1 DEF DeleteFails, LetGo, Restrict, PlainKeys
  <2>5. CASE \E k \in Keys : Delete(w, k)
    BY <1>2, <2>5 DEF Delete
  <2>6. CASE Finish(w)
    <3>1. UNCHANGED <<db, cache, since>> /\ writer' = [writer EXCEPT ![w] = "done"]
      BY <2>6 DEF Finish, LetGo
    <3>2. ASSUME NEW k \in PlainKeys PROVE Acknowledged(k) \subseteq Acknowledged(k)'
      BY <2>0, <3>1 DEF Acknowledged
    <3>3. ASSUME NEW k \in PlainKeys
          PROVE  /\ Floor'[k] \in 0..db /\ Floor'[k] >= Floor[k]
                 /\ cache[k] = None \/ cache[k] >= Floor'[k]
      <4>1. Floor'[k] = HighestOf(Acknowledged(k)')
        BY DEF Floor, HighestOf
      <4>2. Acknowledged(k)' \subseteq Nat /\ db \in Nat /\ \A u \in Acknowledged(k)' : u <= db
        BY <1>0, <3>1 DEF Acknowledged, IInv, TypeOK, WriterShape
      <4>3. /\ Floor'[k] \in 0..db /\ \A u \in Acknowledged(k)' : u <= Floor'[k]
            /\ Floor'[k] # 0 => Floor'[k] \in Acknowledged(k)'
        BY <4>1, <4>2, FloorOf
      <4>4. Floor[k] \in 0..db /\ (Floor[k] # 0 => Floor[k] \in Acknowledged(k))
        BY FloorIs
      <4>5. Floor'[k] >= Floor[k]
        BY <3>2, <4>3, <4>4
      <4>6. \A u \in Acknowledged(k)' : cache[k] = None \/ cache[k] >= u
        BY <3>1 DEF Acknowledged, IInv, DeletedStaysFresh, WriterShape, Revoked
      <4>7. cache[k] = None \/ cache[k] \in Nat
        BY <1>0 DEF Version, PlainKeys
      <4> QED BY <4>3, <4>5, <4>6, <4>7
    <3>4. Floor' \in [PlainKeys -> 0..db]
      BY <3>3 DEF Floor
    <3>5. Restrict(cache, PlainKeys)' = Restrict(cache, PlainKeys)
          /\ \A k \in PlainKeys : Restrict(cache, PlainKeys)[k] = cache[k]
      BY <3>1 DEF Restrict, PlainKeys
    <3>6. Contract!Acknowledge
      BY <3>1, <3>3, <3>4, <3>5 DEF Contract!Acknowledge
    <3> QED BY <3>6 DEF Contract!Next
  <2> QED BY <1>3, <2>1, <2>2, <2>3, <2>4, <2>5, <2>6, Zenon DEF WriterNext
<1>4. CASE \E k \in Keys : Expire(k)
  BY <1>2, <1>4 DEF Expire, writeVars
<1>5. CASE UNCHANGED vars
  <2>1. Floor' = Floor
    BY <1>5, FloorStays DEF vars
  <2> QED BY <1>5, <2>1 DEF vars, Restrict, PlainKeys
<1> QED BY <1>1, <1>3, <1>4, <1>5 DEF Next

\* The cache keeps its contract: entries fill with what the database has been since their
\* last acknowledged invalidation, and disappear at any time (cache-coordination.ts).
THEOREM Implements == Spec => ImplementsContract
<1>1. Init => Contract!Init
  <2> SUFFICES ASSUME Init PROVE Contract!Init
    OBVIOUS
  <2>1. \A k : Acknowledged(k) = {}
    BY DEF Init, Acknowledged
  <2>2. Floor = [k \in PlainKeys |-> 0]
    BY <2>1 DEF Floor
  <2> QED BY <2>2 DEF Init, Restrict, PlainKeys, Contract!Init
<1>2. IInv /\ IInv' /\ Bounded /\ [Next]_vars
        => [Contract!Next]_<<db, Restrict(cache, PlainKeys), Floor>>
  BY StepContract
<1> QED
  BY <1>1, <1>2, InitInv, StepInv, InitBounded, StepBounded, PTL
     DEF Spec, ImplementsContract, Contract!Spec, Contract!vars

-----------------------------------------------------------------------------
(***************************************************************************)
(* Which entries a write removes.  The intents of an open transaction are  *)
(* those its write would have now: no route is registered meanwhile.       *)
(***************************************************************************)
TxIs == tx.state = "open" =>
  \E w \in Sources, c \in Controls :
    w.route \in registered /\ tx.intents = WriteIntents(w, c) /\ tx.asked = {<<w, c>>}

CachingInv == CachingTypeOK /\ InvalidationFollows /\ TxIs

\* What an entry is.
LEMMA EntryIs ==
  ASSUME NEW e \in Entries
  PROVE  /\ e.route \in Routes /\ e.coll \in Collections /\ e.family \in Families
         /\ e.query \in Queries /\ e.shape \in Shapes(e.family) /\ e.shape \in {"raw", "model"}
BY DEF Entries, Shapes

\* Every route to the data of an entry is linked with the route of the write.
LEMMA WishedIsLinked ==
  ASSUME NEW w, NEW c, NEW e, Wished(w, c, e), e.route \in registered
  PROVE  e.route \in Linked(w.route) /\ e.coll = w.coll
BY DEF Wished, Linked

\* A pattern for every operation matches every entry of the collection.
LEMMA PatternTouches ==
  ASSUME NEW w, NEW op, NEW e \in Entries, e.route \in Linked(w.route), e.coll = w.coll,
         e.family \in FamiliesOf(op)
  PROVE  Touches(Pattern(w, op), e)
BY EntryIs DEF Touches, Pattern

\* What a descriptor asks for is touched by what it resolves to.
LEMMA AskedIsTouched ==
  ASSUME NEW w \in Sources, NEW d, NEW e \in Entries,
         e.route \in Linked(w.route), e.coll = w.coll, Asks(d, w, e)
  PROVE  \E i \in Resolved(w, d) : Touches(i, e)
<1>1. ~d.malformed /\ e.family \in Families /\ e.query \in Queries /\ e.shape \in Shapes(e.family)
  BY EntryIs DEF Asks
<1>2. w.via \in {"raw", "model", "unclear"}
  BY WritesAreKnown
<1>3. CASE d.query = NoQuery \/ d.op \notin Operations
  <2>1. Resolved(w, d) = {Pattern(w, d.op)}
    BY <1>1, <1>3 DEF Resolved
  <2>2. e.family \in FamiliesOf(d.op)
    <3>1. CASE d.op \notin Operations
      BY <1>1, <3>1 DEF FamiliesOf, Operations
    <3>2. CASE d.op \in Operations
      BY <1>1, <1>3, <3>2 DEF FamiliesOf, Asks
    <3> QED BY <3>1, <3>2
  <2> QED BY <2>1, <2>2, PatternTouches
<1>4. CASE d.query # NoQuery /\ d.op \in Operations
  <2>1. /\ e.family = d.op /\ e.query = d.query
        /\ e.shape = "raw" \/ w.via # "raw" \/ d.op = "findByIds"
    BY <1>4 DEF Asks
  <2>2. \A shapes : e.shape \in shapes => Touches(Key(w, d.op, d.query, shapes), e)
    BY <2>1 DEF Touches, Key
  <2>3. CASE d.op = "findByIds"
    <3>1. Resolved(w, d) = {Key(w, d.op, d.query, {"raw", "model"})}
      BY <1>1, <1>4, <2>3 DEF Resolved
    <3> QED BY <2>2, <3>1, EntryIs
  <2>4. CASE d.op \in {"findPage", "aggregate"}
    <3>1. CASE w.via = "raw"
      <4>1. Resolved(w, d) = {Key(w, d.op, d.query, {"raw"})}
        BY <1>1, <1>4, <2>4, <3>1 DEF Resolved
      <4> QED BY <2>1, <2>2, <2>4, <3>1, <4>1
    <3>2. CASE w.via = "model"
      <4>1. Resolved(w, d) = {Key(w, d.op, d.query, {"raw"}), Key(w, d.op, d.query, {"model"})}
        BY <1>1, <1>4, <2>4, <3>2 DEF Resolved
      <4> QED BY <2>2, <4>1, EntryIs
    <3>3. CASE w.via = "unclear"
      <4>1. Resolved(w, d) = {Pattern(w, d.op)}
        BY <1>1, <1>4, <2>4, <3>3 DEF Resolved
      <4>2. e.family \in FamiliesOf(d.op)
        BY <1>4, <2>1 DEF FamiliesOf
      <4> QED BY <4>1, <4>2, PatternTouches
    <3> QED BY <1>2, <3>1, <3>2, <3>3
  <2>5. CASE d.op \notin {"findByIds", "findPage", "aggregate"}
    <3>1. Resolved(w, d) = {Key(w, d.op, d.query, {"raw"})}
      BY <1>1, <1>4, <2>5 DEF Resolved
    <3>2. e.shape = "raw"
      BY <1>1, <2>1, <2>5 DEF Shapes
    <3> QED BY <2>2, <3>1, <3>2
  <2> QED BY <2>3, <2>4, <2>5
<1> QED BY <1>3, <1>4

\* What a write is to remove is touched by its intents.
LEMMA WishedIsRemoved ==
  ASSUME NEW w \in Sources, NEW c \in Controls, NEW e \in Entries, e \in cached,
         e.route \in registered, Wished(w, c, e)
  PROVE  e \in Removed(WriteIntents(w, c))
<1>1. e.route \in Linked(w.route) /\ e.coll = w.coll
  BY WishedIsLinked
<1>2. c.kind \in {"silent", "off", "auto", "all", "list"} /\ c.list \subseteq Descriptors
  BY WritesAreKnown
<1>3. CASE c.kind = "list"
  <2>1. PICK d \in c.list : Asks(d, w, e)
    BY <1>3 DEF Wished
  <2>2. PICK i \in Resolved(w, d) : Touches(i, e)
    BY <1>1, <1>2, <2>1, AskedIsTouched
  <2>3. i \in WriteIntents(w, c)
    BY <1>3, <2>1, <2>2 DEF WriteIntents
  <2> QED BY <2>2, <2>3 DEF Removed
<1>4. CASE c.kind # "list"
  <2>1. c.kind # "off" /\ (c.kind = "silent" => automatic)
    BY <1>4 DEF Wished
  <2>2. WriteIntents(w, c) = {Pattern(w, "all")}
    BY <1>2, <1>4, <2>1 DEF WriteIntents
  <2>3. "all" \notin Operations /\ FamiliesOf("all") = Families
    BY DEF FamiliesOf, Operations
  <2>4. Touches(Pattern(w, "all"), e)
    BY <1>1, <2>3, PatternTouches, EntryIs
  <2> QED BY <2>2, <2>4 DEF Removed
<1> QED BY <1>3, <1>4

\* No intent of a write reaches another collection, or a server known to be another.
LEMMA IntentsAreOwn ==
  ASSUME NEW w \in Sources, NEW c \in Controls, NEW i \in WriteIntents(w, c)
  PROVE  i.routes = Linked(w.route) /\ i.coll = w.coll
<1>1. \A op : Pattern(w, op).routes = Linked(w.route) /\ Pattern(w, op).coll = w.coll
  BY DEF Pattern
<1>2. \A op, q, s : Key(w, op, q, s).routes = Linked(w.route) /\ Key(w, op, q, s).coll = w.coll
  BY DEF Key
<1>3. ASSUME NEW d, NEW j \in Resolved(w, d) PROVE j.routes = Linked(w.route) /\ j.coll = w.coll
  <2>1. \/ \E op : j = Pattern(w, op)
        \/ \E op, q, s : j = Key(w, op, q, s)
    BY <1>3 DEF Resolved
  <2> QED BY <1>1, <1>2, <2>1
<1>4. c.kind \in {"silent", "off", "auto", "all", "list"}
  BY WritesAreKnown
<1>5. i = Pattern(w, "all") \/ \E d \in c.list : i \in Resolved(w, d)
  BY <1>4 DEF WriteIntents
<1> QED BY <1>1, <1>3, <1>5

\* An intent that names the linked scopes and the collection touches nothing foreign.
LEMMA NothingForeign ==
  ASSUME NEW w, NEW i, i.routes = Linked(w.route), i.coll = w.coll, NEW e, Touches(i, e)
  PROVE  ~Foreign(w, e)
BY DEF Foreign, Touches, Linked

\* A write that has changed the collection invalidates, or is excused.
LEMMA OwedIsDone == \A o \in Outcomes : o.owes => o.invalidates
<1>1. ASSUME NEW op \in WriteOps, NEW effect \in Effects, NEW upsert \in BOOLEAN, NEW ok \in BOOLEAN,
             Possible(op, effect, upsert, ok), Changes(effect) /\ ~Excused(op, ok)
      PROVE  ByCounts(op, effect, upsert, ok)
  <2>1. effect \in {"changed", "created"} /\ (ok \/ op \in {"insertMany", "updateMany"})
    BY <1>1 DEF Changes, Excused
  <2>2. CASE op \in {"updateOne", "deleteOne", "deleteMany", "findOneAndDelete", "incrementOne", "updateMany"}
    BY <1>1, <2>1, <2>2 DEF ByCounts, Changes
  <2>3. CASE op \in {"findOneAndReplace", "findOneAndUpdate"}
    BY <1>1, <2>1, <2>3 DEF ByCounts, Possible
  <2>4. CASE op = "insertMany"
    BY <2>4 DEF ByCounts
  <2>5. CASE op \in {"insertOne", "replaceOne", "upsertOne", "aggregateOut"}
    BY <2>1, <2>5 DEF ByCounts
  <2> QED BY <2>2, <2>3, <2>4, <2>5 DEF WriteOps
<1>2. ASSUME NEW o \in Outcomes, o.owes PROVE o.invalidates
  <2>1. PICK x \in {y \in WriteOps \X Effects \X BOOLEAN \X BOOLEAN : Possible(y[1], y[2], y[3], y[4])} :
          o = [invalidates |-> ByCounts(x[1], x[2], x[3], x[4]),
               owes |-> Changes(x[2]) /\ ~Excused(x[1], x[4])]
    BY <1>2 DEF Outcomes
  <2>2. /\ x[1] \in WriteOps /\ x[2] \in Effects /\ x[3] \in BOOLEAN /\ x[4] \in BOOLEAN
        /\ Possible(x[1], x[2], x[3], x[4])
    BY <2>1
  <2>3. o.owes <=> Changes(x[2]) /\ ~Excused(x[1], x[4])
    BY ONLY <2>1
  <2>4. o.invalidates <=> ByCounts(x[1], x[2], x[3], x[4])
    BY ONLY <2>1
  <2> QED BY <1>1, <1>2, <2>2, <2>3, <2>4
<1> QED BY <1>2

\* No read of a transaction is stored.
LEMMA NoSessionStored == \A f : <<f, TRUE>> \notin StoredReads
<1>1. \A f \in Families, way \in Ways : KeepsIn(f, way) => ~way.session
  BY DEF KeepsIn, FindStored, FindOneStored, CountStored, ByIdStored, ByIdsStored, DistinctStored,
         AggregateStored, PageStored, TotalsStored, BookmarkStored, Storable, Families, Operations
<1> QED BY <1>1 DEF StoredReads

\* The intents of a write depend on the routes and the setting alone.
LEMMA IntentsStay ==
  ASSUME UNCHANGED <<registered, automatic>>, NEW w, NEW c
  PROVE  WriteIntents(w, c)' = WriteIntents(w, c)
BY DEF WriteIntents, Resolved, Pattern, Key, Linked

\* Nothing of what any intents of a write remove is foreign to it.
LEMMA RemovedIsOwn ==
  ASSUME NEW w, NEW intents, \A i \in intents : i.routes = Linked(w.route) /\ i.coll = w.coll
  PROVE  {e \in Removed(intents) : Foreign(w, e)} = {}
<1>1. ASSUME NEW e \in Removed(intents) PROVE ~Foreign(w, e)
  <2>1. PICK i \in intents : Touches(i, e)
    BY <1>1 DEF Removed
  <2> QED BY <2>1, NothingForeign
<1> QED BY <1>1

\* A write outside a transaction.
LEMMA CachedWriteRemoves ==
  ASSUME CachingInv, NEW w \in Sources, NEW c \in Controls, NEW o \in Outcomes, CachedWrite(w, c, o)
  PROVE  CachingInv'
<1> DEFINE gone == IF o.invalidates THEN Removed(WriteIntents(w, c)) ELSE {}
<1>1. /\ cached' = cached \ gone
      /\ overreached' = {e \in gone : Foreign(w, e)}
      /\ missed' = {e \in cached \ gone : o.owes /\ Wished(w, c, e)}
      /\ UNCHANGED <<registered, automatic, tx, leaked>>
      /\ tx.state # "open"
  BY DEF CachedWrite
<1>2. gone \subseteq Removed(WriteIntents(w, c))
  OBVIOUS
<1>3. overreached' = {}
  <2>1. \A i \in WriteIntents(w, c) : i.routes = Linked(w.route) /\ i.coll = w.coll
    BY IntentsAreOwn
  <2> QED BY <1>1, <1>2, <2>1, RemovedIsOwn
<1>4. missed' = {}
  <2>1. ASSUME NEW e \in cached, o.owes, Wished(w, c, e) PROVE e \in gone
    <3>1. e \in Entries /\ e.route \in registered
      BY DEF CachingInv, CachingTypeOK
    <3>2. e \in Removed(WriteIntents(w, c))
      BY <2>1, <3>1, WishedIsRemoved
    <3>3. o.invalidates
      BY <2>1, OwedIsDone
    <3> QED BY <3>2, <3>3
  <2> QED BY <1>1, <2>1
<1>5. CachingTypeOK'
  BY <1>1 DEF CachingInv, CachingTypeOK
<1> QED BY <1>1, <1>3, <1>4, <1>5 DEF CachingInv, InvalidationFollows, TxIs

\* accessor.invalidate(op), as if it were a write that lists op.
LEMMA InvalidateRemoves ==
  ASSUME CachingInv, NEW w \in Sources, w.via = "raw", NEW op \in Operations \cup {"all"}, Invalidate(w, op)
  PROVE  CachingInv'
<1> DEFINE d == [op |-> op, query |-> NoQuery, malformed |-> FALSE]
           c == [kind |-> "list", list |-> {d}]
<1>1. /\ cached' = cached \ Removed({Pattern(w, op)})
      /\ overreached' = {e \in cached \ cached' : Foreign(w, e)}
      /\ missed' = {e \in cached' : Wished(w, c, e)}
      /\ UNCHANGED <<registered, automatic, tx, leaked>>
  BY DEF Invalidate
<1>2. overreached' = {}
  <2>1. Pattern(w, op).routes = Linked(w.route) /\ Pattern(w, op).coll = w.coll
    BY DEF Pattern
  <2>2. cached \ cached' \subseteq Removed({Pattern(w, op)})
    BY <1>1
  <2> QED BY <1>1, <2>1, <2>2, RemovedIsOwn
<1>3. missed' = {}
  <2>1. /\ d.op = op /\ d.query = NoQuery /\ ~d.malformed
        /\ c.kind = "list" /\ c.list = {d}
    OBVIOUS
  <2>2. Resolved(w, d) = {Pattern(w, op)}
    BY <2>1 DEF Resolved
  <2> HIDE DEF d, c
  <2>3. ASSUME NEW e \in cached, Wished(w, c, e) PROVE e \in Removed({Pattern(w, op)})
    <3>1. e \in Entries /\ e.route \in registered
      BY DEF CachingInv, CachingTypeOK
    <3>2. e.route \in Linked(w.route) /\ e.coll = w.coll
      BY <2>3, <3>1, WishedIsLinked
    <3>3. Asks(d, w, e)
      BY <2>1, <2>3 DEF Wished
    <3>4. \E i \in Resolved(w, d) : Touches(i, e)
      BY <3>1, <3>2, <3>3, AskedIsTouched
    <3> QED BY <2>2, <3>4 DEF Removed
  <2> QED BY <1>1, <2>3
<1>4. CachingTypeOK'
  BY <1>1 DEF CachingInv, CachingTypeOK
<1>5. TxIs'
  BY <1>1, IntentsStay DEF CachingInv, TxIs
<1> QED BY <1>1, <1>2, <1>3, <1>4, <1>5 DEF CachingInv, InvalidationFollows

\* A commit removes what its intents, still those of its write, touch.
LEMMA CommitRemoves ==
  ASSUME CachingInv, TxCommit
  PROVE  CachingInv'
<1>1. PICK w \in Sources, c \in Controls :
        w.route \in registered /\ tx.intents = WriteIntents(w, c) /\ tx.asked = {<<w, c>>}
  BY DEF CachingInv, TxIs, TxCommit
<1>2. missed' = {}
  <2>1. missed' = {e \in cached' : Wished(w, c, e)}
    BY <1>1 DEF TxCommit
  <2>2. ASSUME NEW e \in cached, Wished(w, c, e) PROVE e \in Removed(tx.intents)
    BY <1>1, <2>2, WishedIsRemoved DEF CachingInv, CachingTypeOK
  <2> QED BY <2>1, <2>2 DEF TxCommit
<1>3. tx'.state = "none"
  BY DEF TxCommit, NoTx
<1> QED BY <1>2, <1>3 DEF CachingInv, CachingTypeOK, InvalidationFollows, TxIs, TxCommit

\* Every step of the reads, the writes and the transaction keeps the invariant.
LEMMA CachingStep == CachingInv /\ [CachingNext]_cachingVars => CachingInv'
<1> SUFFICES ASSUME CachingInv, [CachingNext]_cachingVars PROVE CachingInv'
  OBVIOUS
<1>1. ASSUME NEW r \in Routes, Register(r) PROVE CachingInv'
  BY <1>1 DEF CachingInv, CachingTypeOK, InvalidationFollows, TxIs, Register
<1>2. ASSUME NEW e \in Entries, NEW session \in BOOLEAN, Read(e, session) PROVE CachingInv'
  <2>1. ~session
    BY <1>2, NoSessionStored DEF Read
  <2>2. leaked' = {} /\ cached' = {e} /\ e.route \in registered
    BY <1>2, <2>1 DEF Read
  <2>3. TxIs'
    BY <1>2, IntentsStay DEF CachingInv, TxIs, Read
  <2> QED BY <1>2, <2>2, <2>3 DEF CachingInv, CachingTypeOK, InvalidationFollows, Read
<1>3. CASE EntryExpires
  <2>1. TxIs'
    BY <1>3, IntentsStay DEF CachingInv, TxIs, EntryExpires
  <2> QED BY <1>3, <2>1 DEF CachingInv, CachingTypeOK, InvalidationFollows, EntryExpires
<1>4. ASSUME NEW w \in Sources, NEW c \in Controls, NEW o \in Outcomes, CachedWrite(w, c, o)
      PROVE CachingInv'
  BY <1>4, CachedWriteRemoves
<1>5. ASSUME NEW w \in Sources, NEW c \in Controls, TxWrite(w, c) PROVE CachingInv'
  <2>1. TxIs'
    BY <1>5, IntentsStay DEF TxIs, TxWrite
  <2> QED BY <1>5, <2>1 DEF CachingInv, CachingTypeOK, InvalidationFollows, TxWrite
<1>6. CASE TxCommit
  BY <1>6, CommitRemoves
<1>7. CASE TxAbort
  BY <1>7 DEF CachingInv, CachingTypeOK, InvalidationFollows, TxIs, TxAbort, NoTx
<1>8. ASSUME NEW w \in {x \in Sources : x.via = "raw"}, ClearBookmarks(w) PROVE CachingInv'
  <2>1. TxIs'
    BY <1>8, IntentsStay DEF CachingInv, TxIs, ClearBookmarks
  <2> QED BY <1>8, <2>1 DEF CachingInv, CachingTypeOK, InvalidationFollows, ClearBookmarks
<1>9. ASSUME NEW w \in {x \in Sources : x.via = "raw"}, NEW op \in Operations \cup {"all"},
             Invalidate(w, op)
      PROVE CachingInv'
  BY <1>9, InvalidateRemoves
<1>10. CASE UNCHANGED cachingVars
  <2>1. TxIs'
    BY <1>10, IntentsStay DEF CachingInv, TxIs, cachingVars
  <2> QED BY <1>10, <2>1 DEF CachingInv, CachingTypeOK, InvalidationFollows, cachingVars
<1> QED BY <1>1, <1>2, <1>3, <1>4, <1>5, <1>6, <1>7, <1>8, <1>9, <1>10 DEF CachingNext

\* A write that changed its collection, or a commit of one, leaves no result its options
\* ask to be removed and touches nothing foreign, whatever the routes, the queries and
\* the options; and no result of a transaction's read is stored.
THEOREM RemovalsHold == CachingSpec => []RemovalsAreRight
<1>1. CachingInit => CachingInv
  BY DEF CachingInit, CachingInv, CachingTypeOK, InvalidationFollows, TxIs, NoTx
<1>2. CachingInv => RemovalsAreRight
  BY DEF CachingInv, RemovalsAreRight
<1> QED BY <1>1, <1>2, CachingStep, PTL DEF CachingSpec

-----------------------------------------------------------------------------
(* The pages of findPage.                                                  *)

\* The sorts: the directions of the sort field and of _id.
Orders == [f : {1, -1}, id : {1, -1}]

DocsOK == docs \in [Ids -> {Absent, Missing, Null} \cup Numbers]

\* A cursor is not the absence of one.
LEMMA KeysAreCursors == ASSUME NEW c \in CursorKeys PROVE c # <<>>
<1>1. Len(c) = 2
  BY DEF CursorKeys
<1> QED BY <1>1

\* Documents are put in a strict total order; sorting the other way turns it round.
LEMMA BeforeIsOrder ==
  ASSUME NEW s \in Orders, NEW k \in CursorKeys, NEW l \in CursorKeys
  PROVE  /\ ~Before(k, k, s) /\ (k = l \/ Before(k, l, s) \/ Before(l, k, s))
         /\ ~(Before(k, l, s) /\ Before(l, k, s))
         /\ \A m \in CursorKeys : Before(k, l, s) /\ Before(l, m, s) => Before(k, m, s)
<1>1. /\ k = <<k[1], k[2]>> /\ l = <<l[1], l[2]>>
      /\ k[1] \in Int /\ k[2] \in Int /\ l[1] \in Int /\ l[2] \in Int
      /\ s.f \in {1, -1} /\ s.id \in {1, -1}
  BY DEF CursorKeys, Orders
<1>2. ASSUME NEW m \in CursorKeys, Before(k, l, s), Before(l, m, s) PROVE Before(k, m, s)
  <2>1. m[1] \in Int /\ m[2] \in Int
    BY DEF CursorKeys
  <2> QED BY <1>1, <1>2, <2>1 DEF Before, Compare
<1> QED BY <1>1, <1>2 DEF Before, Compare

\* Sorting the other way is a sort too, and turns every comparison round.
LEMMA ReversedTurns ==
  ASSUME NEW s \in Orders, NEW k \in CursorKeys, NEW l \in CursorKeys
  PROVE  Reversed(s) \in Orders /\ (Before(k, l, Reversed(s)) <=> Before(l, k, s))
<1>1. k[1] \in Int /\ k[2] \in Int /\ l[1] \in Int /\ l[2] \in Int
  BY DEF CursorKeys
<1> QED BY <1>1 DEF Before, Compare, Reversed, Orders

\* The cursor of a document says which one it is.
LEMMA CursorsDiffer ==
  ASSUME DocsOK, NEW i \in Present
  PROVE  /\ Cursor(i) \in CursorKeys /\ i \in Ids /\ i \in Int
         /\ \A j \in Present : Cursor(i) = Cursor(j) => i = j
<1>1. docs[i] \in {Missing, Null} \cup Numbers /\ i \in Int
  BY PageAssumption DEF DocsOK, Present
<1>2. CursorValue(docs[i]) \in Nat \ {Missing}
  <2>1. Numbers \subseteq Nat
    BY PageAssumption
  <2>2. docs[i] = 0 \/ docs[i] = 1 \/ docs[i] \in Nat
    BY <1>1, <2>1 DEF Missing, Null
  <2> QED BY <2>2 DEF CursorValue, Missing, Null
<1> QED BY <1>1, <1>2 DEF Cursor, CursorKeys, Present

\* The documents that a query from a cursor matches are those after it.
LEMMA MatchingIsAfter ==
  ASSUME DocsOK, NEW c \in CursorKeys, NEW s \in Orders
  PROVE  Matching(c, s) = {i \in Present : Before(c, Cursor(i), s)}
<1>1. Matching(c, s) = CursorFilter(c, s)
  BY KeysAreCursors DEF Matching
<1>2. ASSUME NEW i \in Present
      PROVE  i \in CursorFilter(c, s) <=> Before(c, Cursor(i), s)
  <2>1. /\ docs[i] \in {Missing, Null} \cup Numbers /\ i \in Ids /\ docs[i] # Absent
        /\ Numbers \subseteq Nat \ {0, 1}
    BY PageAssumption DEF DocsOK, Present, Missing, Null
  <2>2. c[1] \in Nat /\ c[1] > 0 /\ c[2] \in Int /\ s.f \in {1, -1} /\ s.id \in {1, -1}
    BY DEF CursorKeys, Missing, Orders
  <2>3. Cursor(i)[1] = CursorValue(docs[i]) /\ Cursor(i)[2] = i
    BY DEF Cursor
  <2>4. Compare(c[1], Operand(docs[i], c[1]), s.f) <=> Compare(c[1], CursorValue(docs[i]), s.f)
    <3>1. CASE c[1] = Null
      BY <3>1 DEF Operand
    <3>2. CASE docs[i] # Missing
      BY <3>2 DEF Operand, CursorValue
    <3>3. CASE c[1] # Null /\ docs[i] = Missing
      BY <2>1, <2>2, <3>3 DEF Operand, CursorValue, Compare, Missing, Null
    <3> QED BY <3>1, <3>2, <3>3
  <2>5. i \in CursorFilter(c, s) <=> \/ Compare(c[1], Operand(docs[i], c[1]), s.f)
                                     \/ CursorValue(docs[i]) = c[1] /\ Compare(c[2], i, s.id)
    BY <2>1 DEF CursorFilter
  <2> QED BY <2>3, <2>4, <2>5 DEF Before
<1>3. CursorFilter(c, s) \subseteq Present
  BY DEF CursorFilter, Present
<1> QED BY <1>1, <1>2, <1>3

\* The rank of a document is its place in the order.
LEMMA RanksOrder ==
  ASSUME DocsOK, NEW s \in Orders, NEW S \in SUBSET Present, IsFiniteSet(S)
  PROVE  /\ \A i \in S : Rank(i, S, s) \in 0..(Cardinality(S) - 1)
         /\ \A i, j \in S : Before(Cursor(i), Cursor(j), s) <=> Rank(i, S, s) < Rank(j, S, s)
<1> DEFINE Below(i) == {j \in S : Before(Cursor(j), Cursor(i), s)}
<1>1. \A i \in S : /\ IsFiniteSet(Below(i)) /\ Cardinality(Below(i)) \in Nat
                   /\ Cardinality(Below(i)) < Cardinality(S) /\ i \notin Below(i)
  <2> TAKE i \in S
  <2>1. i \notin Below(i)
    BY CursorsDiffer, BeforeIsOrder
  <2>2. IsFiniteSet(S \ {i}) /\ Cardinality(S \ {i}) = Cardinality(S) - 1
        /\ Cardinality(S) \in Nat
    BY FS_RemoveElement, FS_CardinalityType
  <2>3. Below(i) \subseteq S \ {i}
    BY <2>1
  <2>4. IsFiniteSet(Below(i)) /\ Cardinality(Below(i)) <= Cardinality(S \ {i})
    BY <2>2, <2>3, FS_Subset
  <2>5. Cardinality(Below(i)) \in Nat
    BY <2>4, FS_CardinalityType
  <2> QED BY <2>1, <2>2, <2>4, <2>5
<1>2. ASSUME NEW i \in S, NEW j \in S, Before(Cursor(i), Cursor(j), s)
      PROVE  Cardinality(Below(i)) < Cardinality(Below(j))
  <2>1. Cursor(i) \in CursorKeys /\ Cursor(j) \in CursorKeys
        /\ \A k \in S : Cursor(k) \in CursorKeys
    BY CursorsDiffer
  <2>2. Below(i) \cup {i} \subseteq Below(j)
    BY <1>2, <2>1, BeforeIsOrder
  <2>3. IsFiniteSet(Below(i) \cup {i}) /\ Cardinality(Below(i) \cup {i}) = Cardinality(Below(i)) + 1
    BY <1>1, FS_AddElement
  <2>4. Cardinality(Below(i) \cup {i}) <= Cardinality(Below(j))
    BY <1>1, <2>2, FS_Subset
  <2>5. Cardinality(Below(i)) \in Nat /\ Cardinality(Below(j)) \in Nat
    BY <1>1
  <2> HIDE DEF Below
  <2> QED BY <2>3, <2>4, <2>5
<1> HIDE DEF Below
<1>3. \A i \in S : Rank(i, S, s) = Cardinality(Below(i))
  BY DEF Rank, Below
<1>4. ASSUME NEW i \in S, NEW j \in S, ~Before(Cursor(i), Cursor(j), s)
      PROVE  Cardinality(Below(i)) >= Cardinality(Below(j))
  <2>1. i = j \/ Before(Cursor(j), Cursor(i), s)
    BY <1>4, CursorsDiffer, BeforeIsOrder
  <2> QED BY <1>1, <1>2, <2>1
<1>5. Cardinality(S) \in Nat
  BY FS_CardinalityType
<1>6. \A i \in S : Rank(i, S, s) \in 0..(Cardinality(S) - 1)
  BY <1>1, <1>3, <1>5
<1>7. \A i, j \in S : Before(Cursor(i), Cursor(j), s) <=> Rank(i, S, s) < Rank(j, S, s)
  BY <1>1, <1>2, <1>3, <1>4
<1> QED BY <1>6, <1>7

\* What sorting does: the rows are the documents, each once, at its rank.
LEMMA RowsAreSorted ==
  ASSUME DocsOK, NEW s \in Orders, NEW S \in SUBSET Present, IsFiniteSet(S)
  PROVE  /\ Rows(S, s) \in [1..Cardinality(S) -> S] /\ Cardinality(S) \in Nat
         /\ \A n \in 1..Cardinality(S) : Rank(Rows(S, s)[n], S, s) = n - 1
         /\ \A i \in S : /\ Rank(i, S, s) + 1 \in 1..Cardinality(S)
                         /\ i = Rows(S, s)[Rank(i, S, s) + 1]
<1> DEFINE N == Cardinality(S)
           ranks == [i \in S |-> Rank(i, S, s)]
<1>1. N \in Nat
  BY FS_CardinalityType
<1>2. /\ \A i \in S : Rank(i, S, s) \in 0..(N - 1)
      /\ \A i, j \in S : Before(Cursor(i), Cursor(j), s) <=> Rank(i, S, s) < Rank(j, S, s)
  BY RanksOrder
<1>3. \A i, j \in S : Rank(i, S, s) = Rank(j, S, s) => i = j
  <2> SUFFICES ASSUME NEW i \in S, NEW j \in S, Rank(i, S, s) = Rank(j, S, s), i # j
               PROVE  FALSE
    OBVIOUS
  <2>1. Before(Cursor(i), Cursor(j), s) \/ Before(Cursor(j), Cursor(i), s)
    BY CursorsDiffer, BeforeIsOrder
  <2> QED BY <1>2, <2>1
<1>4. IsFiniteSet(0..(N - 1)) /\ Cardinality(0..(N - 1)) = N
  BY <1>1, FS_Interval
<1>5. ranks \in Injection(S, 0..(N - 1))
  BY <1>2, <1>3 DEF Injection, IsInjective
<1>6. ranks \in Surjection(S, 0..(N - 1))
  BY <1>4, <1>5, FS_Injection
<1>7. \A n \in 1..N : \E i \in S : Rank(i, S, s) = n - 1
  <2> SUFFICES ASSUME NEW n \in 1..N PROVE \E i \in S : ranks[i] = n - 1
    OBVIOUS
  <2>1. n - 1 \in 0..(N - 1)
    BY <1>1
  <2> QED BY <1>6, <2>1 DEF Surjection
<1>8. \A n \in 1..N : Rows(S, s)[n] \in S /\ Rank(Rows(S, s)[n], S, s) = n - 1
  BY <1>7 DEF Rows
<1>9. Rows(S, s) \in [1..N -> S]
  BY <1>8 DEF Rows
<1>10. ASSUME NEW i \in S
       PROVE  Rank(i, S, s) + 1 \in 1..N /\ i = Rows(S, s)[Rank(i, S, s) + 1]
  <2>1. Rank(i, S, s) + 1 \in 1..N /\ (Rank(i, S, s) + 1) - 1 = Rank(i, S, s)
    BY <1>1, <1>2
  <2> QED BY <1>3, <1>8, <2>1
<1> QED BY <1>1, <1>8, <1>9, <1>10

-----------------------------------------------------------------------------
(* Pages.                                                                  *)

\* What a query matches, from a cursor or from the beginning.
LEMMA MatchingTypes ==
  ASSUME DocsOK, NEW s \in Orders, NEW c \in Cursors
  PROVE  /\ Matching(c, s) \in SUBSET Present /\ IsFiniteSet(Matching(c, s))
         /\ c \in CursorKeys => Matching(c, s) = {i \in Present : Before(c, Cursor(i), s)}
         /\ c = <<>> => Matching(c, s) = Present
<1>1. Present \in SUBSET Ids
  BY DEF Present
<1>2. IsFiniteSet(Present)
  BY <1>1, PageAssumption, FS_Subset
<1>3. Matching(c, s) \in SUBSET Present
  BY MatchingIsAfter DEF Matching, Cursors
<1>4. IsFiniteSet(Matching(c, s))
  BY <1>2, <1>3, FS_Subset
<1> QED BY <1>3, <1>4, MatchingIsAfter DEF Matching

\* A page is a stretch of the rows that match.
LEMMA PageIs ==
  ASSUME DocsOK, limit \in Nat \ {0}, NEW s \in Orders, NEW c \in Cursors, NEW skip \in Nat,
         NEW M, M = Matching(c, s), NEW R, R = Rows(M, s), NEW N, N = Cardinality(M),
         NEW got, got = PageAt(c, s, skip)
  PROVE  /\ N \in Nat /\ M \subseteq Present /\ IsFiniteSet(M) /\ R \in [1..N -> M]
         /\ got.items \in Seq(M) /\ got.items \in Seq(Ids) /\ got.more \in BOOLEAN
         /\ Len(got.items) = IF N <= skip THEN 0 ELSE IF N > skip + limit THEN limit ELSE N - skip
         /\ \A n \in 1..Len(got.items) : skip + n \in 1..N /\ got.items[n] = R[skip + n]
         /\ got.more <=> N > skip + limit
<1>1. M \subseteq Present /\ IsFiniteSet(M)
  BY MatchingTypes
<1>2. N \in Nat /\ R \in [1..N -> M]
  BY <1>1, RowsAreSorted
<1>3. R \in Seq(M) /\ Len(R) = N
  BY <1>2
<1> DEFINE e == IF N > skip + limit THEN skip + limit ELSE N
<1>4. got.items = SubSeq(R, skip + 1, e) /\ (got.more <=> N > skip + limit)
      /\ got.more \in BOOLEAN
  <2>1. got.items = SubSeq(R, skip + 1, IF Len(R) > skip + limit THEN skip + limit ELSE Len(R))
    BY DEF PageAt
  <2>2. got.more = (Len(R) > skip + limit)
    BY DEF PageAt
  <2>3. (Len(R) > skip + limit) \in BOOLEAN
    OBVIOUS
  <2>4. got.more \in BOOLEAN /\ (got.more <=> Len(R) > skip + limit)
    BY <2>2, <2>3, Zenon
  <2> QED BY <1>3, <2>1, <2>4
<1>5. e \in Int /\ skip + 1 \in Int /\ e <= N
  BY <1>2
<1>6. \A i \in (skip + 1)..e : R[i] \in M
  BY <1>2, <1>5
<1>7. /\ got.items \in Seq(M)
      /\ Len(got.items) = IF skip + 1 <= e THEN e - (skip + 1) + 1 ELSE 0
      /\ \A n \in 1..(e - (skip + 1) + 1) : got.items[n] = R[(skip + 1) + n - 1]
  <2> HIDE DEF e
  <2> QED BY <1>4, <1>5, <1>6, SubSeqProperties
<1>8. Len(got.items) = IF N <= skip THEN 0 ELSE IF N > skip + limit THEN limit ELSE N - skip
  BY <1>2, <1>7
<1>9. \A n \in 1..Len(got.items) : skip + n \in 1..N /\ got.items[n] = R[skip + n]
  BY <1>2, <1>7, SMTT(30)
<1>10. got.items \in Seq(Ids)
  BY <1>1, <1>7, SeqMonotonic DEF Present
<1> QED BY <1>1, <1>2, <1>4, <1>7, <1>8, <1>9, <1>10

\* One page read from a cursor, or from the beginning: each document after the
\* cursor and up to the last row is there once, and no other.
LEMMA PageCovers ==
  ASSUME DocsOK, limit \in Nat \ {0}, NEW s \in Orders, NEW c \in Cursors,
         NEW got, got = PageAt(c, s, 0)
  PROVE  /\ got.items \in Seq(Ids) /\ got.more \in BOOLEAN
         /\ got.items = <<>> => ~got.more
         /\ got.items # <<>> =>
              /\ EndCursor(got.items) = Cursor(got.items[Len(got.items)])
              /\ EndCursor(got.items) \in CursorKeys
              /\ c \in CursorKeys => Before(c, EndCursor(got.items), s)
         /\ \A m, n \in DOMAIN got.items : got.items[m] = got.items[n] => m = n
         /\ \A i \in Present :
              (\E n \in DOMAIN got.items : got.items[n] = i)
                <=> /\ c = <<>> \/ Before(c, Cursor(i), s)
                    /\ ~got.more \/ ~Before(EndCursor(got.items), Cursor(i), s)
<1> DEFINE M == Matching(c, s)
           R == Rows(M, s)
           N == Cardinality(M)
           k == Len(got.items)
<1>1. /\ N \in Nat /\ M \subseteq Present /\ IsFiniteSet(M) /\ R \in [1..N -> M]
      /\ got.items \in Seq(M) /\ got.items \in Seq(Ids) /\ got.more \in BOOLEAN
      /\ k = IF N > limit THEN limit ELSE N
      /\ \A n \in 1..k : n \in 1..N /\ got.items[n] = R[n]
      /\ got.more <=> N > limit
  <2>1. /\ N \in Nat /\ M \subseteq Present /\ IsFiniteSet(M) /\ R \in [1..N -> M]
        /\ got.items \in Seq(M) /\ got.items \in Seq(Ids) /\ got.more \in BOOLEAN
        /\ Len(got.items) = IF N <= 0 THEN 0 ELSE IF N > 0 + limit THEN limit ELSE N - 0
        /\ \A n \in 1..Len(got.items) : 0 + n \in 1..N /\ got.items[n] = R[0 + n]
        /\ got.more <=> N > 0 + limit
    <3> HIDE DEF M, R, N, k
    <3>1. M = Matching(c, s) /\ R = Rows(M, s) /\ N = Cardinality(M) /\ 0 \in Nat
      BY DEF M, R, N
    <3> QED BY <3>1, PageIs, SMTT(30)
  <2> HIDE DEF M, R, N
  <2>2. \A n \in 1..Len(got.items) : 0 + n = n
    OBVIOUS
  <2> QED BY <2>1, <2>2
<1>2. /\ \A n \in 1..N : Rank(R[n], M, s) = n - 1
      /\ \A i \in M : Rank(i, M, s) + 1 \in 1..N /\ i = R[Rank(i, M, s) + 1]
      /\ \A i, j \in M : Before(Cursor(i), Cursor(j), s) <=> Rank(i, M, s) < Rank(j, M, s)
  BY <1>1, RowsAreSorted, RanksOrder
<1>3. \A i \in Present : i \in M <=> c = <<>> \/ Before(c, Cursor(i), s)
  BY MatchingTypes, KeysAreCursors DEF Cursors
<1>4. k \in Nat /\ DOMAIN got.items = 1..k /\ (got.items = <<>> <=> k = 0)
  BY <1>1
<1> HIDE DEF M, R, N, k
<1>5. got.items = <<>> => ~got.more
  BY <1>1, <1>4
<1>6. ASSUME got.items # <<>>
      PROVE  /\ EndCursor(got.items) = Cursor(got.items[k]) /\ got.items[k] = R[k]
             /\ k \in 1..N /\ R[k] \in M /\ R[k] \in Present /\ Rank(R[k], M, s) = k - 1
             /\ EndCursor(got.items) \in CursorKeys
  <2>1. k \in 1..k
    BY <1>4, <1>6
  <2>2. k \in 1..N /\ got.items[k] = R[k] /\ R[k] \in M /\ Rank(R[k], M, s) = k - 1
    BY <1>1, <1>2, <2>1
  <2>3. R[k] \in Present
    BY <1>1, <2>2
  <2> QED BY <1>6, <2>2, <2>3, CursorsDiffer DEF EndCursor, k
<1>7. ASSUME got.items # <<>>, c \in CursorKeys PROVE Before(c, EndCursor(got.items), s)
  BY <1>3, <1>6, <1>7, KeysAreCursors
<1>8. \A m, n \in DOMAIN got.items : got.items[m] = got.items[n] => m = n
  <2> SUFFICES ASSUME NEW m \in 1..k, NEW n \in 1..k, got.items[m] = got.items[n] PROVE m = n
    BY <1>4
  <2>1. m \in 1..N /\ n \in 1..N /\ R[m] = R[n]
    BY <1>1
  <2>2. m - 1 = n - 1
    BY <1>2, <2>1
  <2> QED BY <1>1, <2>1, <2>2
<1>9. ASSUME NEW i \in M
      PROVE  (\E n \in 1..k : got.items[n] = i)
               <=> (~got.more \/ ~Before(EndCursor(got.items), Cursor(i), s))
  <2> DEFINE r == Rank(i, M, s)
  <2>1. r + 1 \in 1..N /\ i = R[r + 1] /\ r \in Int
    BY <1>1, <1>2, RanksOrder
  <2>2. (\E n \in 1..k : got.items[n] = i) <=> r + 1 <= k
    <3>1. ASSUME NEW n \in 1..k, got.items[n] = i PROVE r + 1 = n
      <4>1. n \in 1..N /\ R[n] = i
        BY <1>1, <3>1
      <4> QED BY <1>2, <4>1
    <3>2. r + 1 <= k => r + 1 \in 1..k /\ got.items[r + 1] = i
      BY <1>1, <1>4, <2>1
    <3> QED BY <1>4, <2>1, <3>1, <3>2
  <2>3. CASE ~got.more
    BY <1>1, <1>4, <2>1, <2>2, <2>3
  <2>4. CASE got.more
    <3>1. got.items # <<>>
      BY <1>5, <2>4
    <3>2. Before(EndCursor(got.items), Cursor(i), s) <=> k - 1 < r
      BY <1>2, <1>6, <3>1
    <3> QED BY <1>4, <2>1, <2>2, <2>4, <3>2
  <2> QED BY <2>3, <2>4, <1>1
<1>10. ASSUME NEW i \in Present \ M PROVE ~\E n \in 1..k : got.items[n] = i
  BY <1>1
<1>11. \A i \in Present :
         (\E n \in DOMAIN got.items : got.items[n] = i)
           <=> /\ c = <<>> \/ Before(c, Cursor(i), s)
               /\ ~got.more \/ ~Before(EndCursor(got.items), Cursor(i), s)
  BY <1>3, <1>4, <1>9, <1>10
<1> QED BY <1>1, <1>5, <1>6, <1>7, <1>8, <1>11 DEF k

-----------------------------------------------------------------------------
(* Sweeps.                                                                 *)

Times(seen, i) == Cardinality({n \in DOMAIN seen : seen[n] = i})
Edge == IF sweep.dir = "after" THEN walk.end ELSE walk.start

\* The sweep goes on from the front while its direction has more; the front lies
\* beyond where the sweep began.
SweepOK ==
  /\ sweep.dir = "none" => sweep = NoSweep /\ walk = Closed
  /\ sweep.dir = "after" => (sweep.done <=> ~walk.next)
  /\ sweep.dir = "before" => (sweep.done <=> ~walk.prev)
  /\ sweep.dir # "none" /\ ~sweep.done => Edge # <<>>
  /\ Edge # <<>> /\ sweep.from # <<>> => Before(sweep.from, Edge, Order)

\* A list without repetitions has a document once or not at all.
LEMMA TimesOnce ==
  ASSUME NEW t \in Seq(Ids), NEW i, \A m, n \in DOMAIN t : t[m] = t[n] => m = n
  PROVE  Times(t, i) = IF \E n \in DOMAIN t : t[n] = i THEN 1 ELSE 0
<1>1. CASE \E n \in DOMAIN t : t[n] = i
  <2>1. PICK n \in DOMAIN t : t[n] = i
    BY <1>1
  <2>2. {m \in DOMAIN t : t[m] = i} = {n}
    BY <2>1
  <2> QED BY <1>1, <2>2, FS_Singleton DEF Times
<1>2. CASE ~\E n \in DOMAIN t : t[n] = i
  <2>1. {m \in DOMAIN t : t[m] = i} = {}
    BY <1>2
  <2> QED BY <1>2, <2>1, FS_EmptySet DEF Times
<1> QED BY <1>1, <1>2

\* ... and a list without repetitions that is appended adds a document once or not at all.
LEMMA TimesAppended ==
  ASSUME NEW s \in Seq(Ids), NEW t \in Seq(Ids), NEW i,
         \A m, n \in DOMAIN t : t[m] = t[n] => m = n
  PROVE  Times(s \o t, i) = Times(s, i) + IF \E n \in DOMAIN t : t[n] = i THEN 1 ELSE 0
<1> DEFINE u == s \o t
           A == {n \in DOMAIN s : s[n] = i}
<1>1. /\ Len(s) \in Nat /\ Len(t) \in Nat /\ DOMAIN s = 1..Len(s) /\ DOMAIN t = 1..Len(t)
      /\ u \in Seq(Ids) /\ DOMAIN u = 1..(Len(s) + Len(t))
      /\ \A n \in 1..Len(s) : u[n] = s[n]
      /\ \A n \in 1..Len(t) : u[Len(s) + n] = t[n]
  BY ConcatProperties, LenProperties
<1>2. IsFiniteSet(A) /\ Cardinality(A) \in Nat
  <2>1. IsFiniteSet(1..Len(s)) /\ A \in SUBSET (1..Len(s))
    BY <1>1, FS_Interval
  <2> QED BY <2>1, FS_Subset, FS_CardinalityType
<1> HIDE DEF u
<1>3. \A n \in DOMAIN u : n \in DOMAIN s \/ (n - Len(s) \in DOMAIN t /\ n = Len(s) + (n - Len(s)))
  BY <1>1
<1>4. CASE \E n \in DOMAIN t : t[n] = i
  <2>1. PICK m \in DOMAIN t : t[m] = i
    BY <1>4
  <2>2. Len(s) + m \in DOMAIN u /\ u[Len(s) + m] = i /\ Len(s) + m \notin A
    BY <1>1, <2>1
  <2>3. ASSUME NEW n \in DOMAIN u, u[n] = i PROVE n \in A \cup {Len(s) + m}
    <3>1. CASE n \in DOMAIN s
      BY <1>1, <2>3, <3>1
    <3>2. CASE n - Len(s) \in DOMAIN t /\ n = Len(s) + (n - Len(s))
      <4>1. t[n - Len(s)] = i
        BY <1>1, <2>3, <3>2
      <4>2. n - Len(s) = m
        BY <2>1, <3>2, <4>1
      <4> QED BY <3>2, <4>2
    <3> QED BY <1>3, <3>1, <3>2
  <2>4. A \subseteq {n \in DOMAIN u : u[n] = i}
    BY <1>1
  <2>5. {n \in DOMAIN u : u[n] = i} = A \cup {Len(s) + m}
    BY <2>2, <2>3, <2>4
  <2> QED BY <1>2, <1>4, <2>2, <2>5, FS_AddElement DEF Times, u
<1>5. CASE ~\E n \in DOMAIN t : t[n] = i
  <2>1. {n \in DOMAIN u : u[n] = i} = A
    BY <1>1, <1>3, <1>5
  <2>2. Times(s \o t, i) = Cardinality(A) /\ Times(s, i) = Cardinality(A)
    BY <2>1 DEF Times, u
  <2> QED BY <1>2, <1>5, <2>2
<1> QED BY <1>4, <1>5

\* A page read on from the front, or in the other direction, or the first one,
\* keeps what is said of sweeps.
LEMMA SweepGoesOn ==
  ASSUME PageTypeOK, SweepOK, EachOnce, UNCHANGED <<docs, sort, limit>>,
         NEW dir \in {"after", "before"}, NEW c \in Cursors,
         NEW s \in Orders, s = IF dir = "before" THEN Reversed(sort) ELSE sort,
         NEW got, got = PageAt(c, s, 0), Swept(dir, c, got),
         sweep.dir = dir => c = Edge /\ ~sweep.done,
         (IF dir = "after" THEN walk'.end ELSE walk'.start) = EndCursor(got.items),
         walk' \in [start : Cursors, end : Cursors, next : BOOLEAN, prev : BOOLEAN],
         IF dir = "after" THEN walk'.next = got.more ELSE walk'.prev = got.more
  PROVE  SweepOK' /\ EachOnce' /\ steady' \subseteq Ids
         /\ sweep' \in [dir : {"none", "after", "before"}, from : Cursors, seen : Seq(Ids), done : BOOLEAN]
<1> DEFINE items == got.items
           Hits(i) == \E n \in DOMAIN items : items[n] = i
           Old == sweep.dir = dir
<1>1. DocsOK /\ DocsOK' /\ limit \in Nat \ {0} /\ steady \subseteq Ids
      /\ sweep \in [dir : {"none", "after", "before"}, from : Cursors, seen : Seq(Ids), done : BOOLEAN]
      /\ walk \in [start : Cursors, end : Cursors, next : BOOLEAN, prev : BOOLEAN]
  BY PageAssumption DEF PageTypeOK, DocsOK
<1>2. /\ items \in Seq(Ids) /\ got.more \in BOOLEAN /\ (items = <<>> => ~got.more)
      /\ items # <<>> => /\ EndCursor(items) \in CursorKeys
                         /\ c \in CursorKeys => Before(c, EndCursor(items), s)
      /\ \A m, n \in DOMAIN items : items[m] = items[n] => m = n
      /\ \A i \in Present : Hits(i) <=> /\ c = <<>> \/ Before(c, Cursor(i), s)
                                        /\ ~got.more \/ ~Before(EndCursor(items), Cursor(i), s)
  BY <1>1, PageCovers
<1>3. items = <<>> => EndCursor(items) = <<>>
  BY DEF EndCursor
<1>4. /\ sweep'.dir = dir /\ sweep'.done \in BOOLEAN /\ (sweep'.done <=> ~got.more)
      /\ sweep'.from = IF Old THEN sweep.from ELSE c
      /\ sweep'.seen = IF Old THEN sweep.seen \o items ELSE items
      /\ steady' = IF Old THEN steady ELSE Ids
  BY <1>1, <1>2 DEF Swept
<1>5. sweep' \in [dir : {"none", "after", "before"}, from : Cursors, seen : Seq(Ids), done : BOOLEAN]
  <2>1. CASE Old
    <3>1. sweep.seen \o items \in Seq(Ids)
      BY <1>1, <1>2, ConcatProperties
    <3> QED BY <1>1, <1>2, <2>1, <3>1 DEF Swept
  <2>2. CASE ~Old
    BY <1>1, <1>2, <2>2 DEF Swept
  <2> QED BY <2>1, <2>2
<1>6. Edge' = EndCursor(items) /\ Order' = s /\ (Old => Order = s)
  BY <1>4 DEF Edge, Order
<1>7. (Edge' # <<>> => items # <<>> /\ Edge' \in CursorKeys) /\ (got.more => Edge' # <<>>)
  BY <1>2, <1>3, <1>6, KeysAreCursors
<1>8. sweep'.from # <<>> /\ Edge' # <<>> => Before(sweep'.from, Edge', s)
  <2> SUFFICES ASSUME sweep'.from # <<>>, Edge' # <<>> PROVE Before(sweep'.from, Edge', s)
    OBVIOUS
  <2>1. CASE ~Old
    BY <1>2, <1>4, <1>6, <1>7, <2>1 DEF Cursors
  <2>2. CASE Old
    <3>1. c = Edge /\ c # <<>> /\ sweep'.from = sweep.from /\ Before(sweep.from, c, s)
      BY <1>4, <1>6, <2>2 DEF SweepOK
    <3>2. c \in CursorKeys /\ sweep.from \in CursorKeys /\ Before(c, Edge', s)
      BY <1>1, <1>2, <1>4, <1>6, <1>7, <3>1 DEF Cursors
    <3> QED BY <1>7, <3>1, <3>2, BeforeIsOrder
  <2> QED BY <2>1, <2>2
<1>9. SweepOK'
  BY <1>4, <1>6, <1>7, <1>8 DEF SweepOK
<1>10. ASSUME NEW i \in steady', i \in Present
       PROVE  Times(sweep'.seen, i) =
                IF /\ sweep'.from = <<>> \/ Before(sweep'.from, Cursor(i), s)
                   /\ sweep'.done \/ ~Before(Edge', Cursor(i), s) THEN 1 ELSE 0
  <2>1. CASE ~Old
    BY <1>2, <1>4, <1>6, <1>10, <2>1, TimesOnce
  <2>2. CASE Old
    <3> DEFINE k == Cursor(i)
    <3>1. /\ c = Edge /\ c # <<>> /\ ~sweep.done /\ sweep.dir # "none" /\ i \in steady
          /\ sweep'.from = sweep.from /\ Order = s
      BY <1>4, <1>6, <1>10, <2>2 DEF SweepOK
    <3>2. c \in CursorKeys /\ k \in CursorKeys /\ sweep.from \in Cursors
      BY <1>1, <1>10, <3>1, CursorsDiffer DEF Cursors
    <3> HIDE DEF k
    <3>3. Times(sweep.seen, i) =
            IF (sweep.from = <<>> \/ Before(sweep.from, k, s)) /\ ~Before(c, k, s) THEN 1 ELSE 0
      BY <1>10, <3>1 DEF EachOnce, InSweep, Times, Edge, k
    <3>4. Times(sweep'.seen, i) = Times(sweep.seen, i) + IF Hits(i) THEN 1 ELSE 0
      <4> DEFINE seen == sweep.seen
      <4>1. seen \in Seq(Ids) /\ items \in Seq(Ids) /\ sweep'.seen = seen \o items
        BY <1>1, <1>2, <1>4, <2>2
      <4> HIDE DEF seen, items
      <4>2. Times(seen \o items, i) = Times(seen, i) + IF \E n \in DOMAIN items : items[n] = i THEN 1 ELSE 0
        BY <1>2, <4>1, TimesAppended
      <4> QED BY <4>1, <4>2 DEF seen
    <3>5. Hits(i) <=> Before(c, k, s) /\ (~got.more \/ ~Before(Edge', k, s))
      BY <1>2, <1>6, <1>10, <3>1 DEF k
    <3>6. Before(c, k, s) => sweep.from = <<>> \/ Before(sweep.from, k, s)
      <4> SUFFICES ASSUME Before(c, k, s), sweep.from # <<>> PROVE Before(sweep.from, k, s)
        OBVIOUS
      <4>1. sweep.from \in CursorKeys /\ Before(sweep.from, c, s)
        BY <3>1, <3>2 DEF Cursors, SweepOK
      <4> QED BY <3>2, <4>1, BeforeIsOrder
    <3>7. ~Before(c, k, s) => ~got.more \/ ~Before(Edge', k, s)
      <4> SUFFICES ASSUME got.more, Before(Edge', k, s) PROVE Before(c, k, s)
        OBVIOUS
      <4>1. Edge' \in CursorKeys /\ Before(c, Edge', s)
        BY <1>2, <1>6, <1>7, <3>2
      <4> QED BY <3>2, <4>1, BeforeIsOrder
    <3> QED BY <1>4, <3>1, <3>3, <3>4, <3>5, <3>6, <3>7 DEF k
  <2> QED BY <2>1, <2>2
<1>11. EachOnce'
  <2>1. (steady \cap Present)' = steady' \cap Present
    BY DEF Present
  <2>2. ASSUME NEW i \in Present
        PROVE  InSweep(Cursor(i))' <=> /\ sweep'.from = <<>> \/ Before(sweep'.from, Cursor(i), s)
                                       /\ sweep'.done \/ ~Before(Edge', Cursor(i), s)
    <3>1. Cursor(i)' = Cursor(i)
      BY DEF Cursor
    <3> QED BY <1>6, <3>1 DEF InSweep, Edge, Before
  <2>3. sweep'.dir # "none"
    BY <1>4
  <2> QED BY <1>10, <2>1, <2>2, <2>3 DEF EachOnce, Times
<1> QED BY <1>4, <1>1, <1>5, <1>9, <1>11

-----------------------------------------------------------------------------
(* Pages by number.                                                        *)

NthPage(p) == PageAt(<<>>, sort, (p - 1) * limit).items

\* The rows after the n-th are the rows of the documents after it.
LEMMA RowsAfter ==
  ASSUME DocsOK, NEW s \in Orders, NEW n \in 1..Cardinality(Present), NEW R, R = Rows(Present, s),
         NEW M, M = Matching(Cursor(R[n]), s)
  PROVE  /\ Cardinality(M) = Cardinality(Present) - n /\ Cardinality(Present) \in Nat
         /\ \A m \in 1..Cardinality(M) : Rows(M, s)[m] = R[n + m]
<1> DEFINE N == Cardinality(Present)
           S == Present
           c == Cursor(R[n])
           Upto == {i \in S : ~Before(c, Cursor(i), s)}
<1>1. IsFiniteSet(S) /\ N \in Nat
  BY MatchingTypes, FS_CardinalityType DEF Cursors, Matching
<1>2. /\ R \in [1..N -> S] /\ \A m \in 1..N : Rank(R[m], S, s) = m - 1
      /\ \A i \in S : Rank(i, S, s) + 1 \in 1..N /\ i = R[Rank(i, S, s) + 1]
      /\ \A i, j \in S : Before(Cursor(i), Cursor(j), s) <=> Rank(i, S, s) < Rank(j, S, s)
  BY <1>1, RowsAreSorted, RanksOrder
<1>3. R[n] \in S /\ c \in CursorKeys /\ Rank(R[n], S, s) = n - 1
  BY <1>2, CursorsDiffer
<1>4. M = {i \in S : Before(c, Cursor(i), s)} /\ M \subseteq S /\ IsFiniteSet(M)
  BY <1>1, <1>3, MatchingIsAfter, FS_Subset
<1> DEFINE Below == {i \in S : Before(Cursor(i), c, s)}
<1>5. Upto = Below \cup {R[n]} /\ R[n] \notin Below
  BY <1>3, CursorsDiffer, BeforeIsOrder
<1>6. IsFiniteSet(Upto) /\ IsFiniteSet(Below)
  BY <1>1, FS_Subset
<1>7. Cardinality(Upto) = n
  <2>1. Cardinality(Below) = n - 1
    BY <1>3 DEF Rank
  <2> HIDE DEF Upto, Below
  <2>2. Cardinality(Below \cup {R[n]}) = Cardinality(Below) + 1
    BY <1>5, <1>6, FS_AddElement
  <2> QED BY <1>5, <2>1, <2>2
<1>8. Cardinality(M) = N - n
  <2>1. S \cap Upto = Upto /\ M = S \ Upto
    BY <1>4
  <2>2. Cardinality(S \ Upto) = Cardinality(S) - Cardinality(S \cap Upto)
    BY <1>1, FS_Difference
  <2> HIDE DEF Upto
  <2> QED BY <1>7, <2>1, <2>2
<1>9. ASSUME NEW i \in M PROVE Rank(i, M, s) + n = Rank(i, S, s)
  <2> DEFINE A == {j \in S : Before(Cursor(j), Cursor(i), s)}
             B == {j \in M : Before(Cursor(j), Cursor(i), s)}
  <2>1. i \in S /\ Cursor(i) \in CursorKeys /\ Before(c, Cursor(i), s)
    BY <1>4, CursorsDiffer
  <2>2. A = Upto \cup B
    <3>1. ASSUME NEW j \in S, ~Before(c, Cursor(j), s) PROVE Before(Cursor(j), Cursor(i), s)
      <4>1. Cursor(j) \in CursorKeys /\ (Cursor(j) = c \/ Before(Cursor(j), c, s))
        BY <1>3, <3>1, CursorsDiffer, BeforeIsOrder
      <4> QED BY <1>3, <2>1, <4>1, BeforeIsOrder
    <3> QED BY <1>4, <3>1
  <2>3. Upto \cap B = {} /\ IsFiniteSet(B)
    BY <1>4, FS_Subset
  <2>4. Cardinality(Upto \cup B) = Cardinality(Upto) + Cardinality(B) - Cardinality(Upto \cap B)
    BY <1>6, <2>3, FS_Union
  <2>5. Rank(i, S, s) = Cardinality(A) /\ Rank(i, M, s) = Cardinality(B)
    BY DEF Rank
  <2>6. Cardinality(B) \in Nat /\ n \in Nat /\ Cardinality({}) = 0
    BY <2>3, <1>1, FS_CardinalityType, FS_EmptySet
  <2>7. Cardinality(Upto \cap B) = 0 /\ Cardinality(Upto \cup B) = Cardinality(A)
    BY <2>2, <2>3, <2>6, Zenon
  <2> HIDE DEF A, B, Upto, S
  <2> QED BY <1>7, <2>4, <2>5, <2>6, <2>7
<1>10. ASSUME NEW m \in 1..Cardinality(M) PROVE Rows(M, s)[m] = R[n + m]
  <2> DEFINE i == Rows(M, s)[m]
  <2>1. i \in M /\ Rank(i, M, s) = m - 1
    <3>1. M \in SUBSET Present
      BY <1>4
    <3> HIDE DEF S, N, c
    <3> QED BY <1>4, <3>1, RowsAreSorted
  <2>2. i \in S /\ i = R[Rank(i, S, s) + 1]
    BY <1>2, <1>4, <2>1
  <2> HIDE DEF i
  <2>3. Rank(i, S, s) + 1 = n + m
    BY <1>1, <1>8, <1>9, <2>1
  <2> QED BY <2>2, <2>3 DEF i
<1> QED BY <1>1, <1>8, <1>10

\* How many rows the pages before a page have.
LEMMA SkipsGrow ==
  ASSUME NEW l \in Nat \ {0}, NEW p \in Nat \ {0}
  PROVE  /\ (p - 1) * l \in Nat /\ ((p + 1) - 1) * l = (p - 1) * l + l
         /\ \A q \in Nat : q >= p => (q - 1) * l \in Nat /\ (q - 1) * l >= (p - 1) * l
<1>1. \A m, n \in Nat : m * n \in Nat
  OBVIOUS
<1>2. (p - 1) * l \in Nat
  BY <1>1
<1>3. ((p + 1) - 1) * l = (p - 1) * l + l
  OBVIOUS
<1>4. ASSUME NEW q \in Nat, q >= p
      PROVE  (q - 1) * l \in Nat /\ (q - 1) * l >= (p - 1) * l
  <2>1. (q - p) * l \in Nat /\ (q - 1) * l \in Nat
    BY <1>1, <1>4
  <2>2. (q - 1) * l = (p - 1) * l + (q - p) * l
    OBVIOUS
  <2> DEFINE x == (q - p) * l
             y == (q - 1) * l
             z == (p - 1) * l
  <2>3. x \in Nat /\ y \in Nat /\ z \in Nat /\ y = z + x
    BY <1>2, <2>1, <2>2
  <2> HIDE DEF x, y, z
  <2>4. y >= z
    BY <2>3
  <2> QED BY <2>3, <2>4 DEF y, z
<1> QED BY <1>2, <1>3, <1>4

Skip(q) == (q - 1) * limit
Every == Rows(Present, sort)
Total == Cardinality(Present)

\* The page of a number is a stretch of all the rows.
LEMMA NthPageIs ==
  ASSUME DocsOK, limit \in Nat \ {0}, sort \in Orders, NEW q \in Nat \ {0}
  PROVE  /\ Skip(q) \in Nat /\ Total \in Nat /\ Every \in [1..Total -> Present]
         /\ NthPage(q) \in Seq(Ids)
         /\ Len(NthPage(q)) = IF Total <= Skip(q) THEN 0
                              ELSE IF Total > Skip(q) + limit THEN limit ELSE Total - Skip(q)
         /\ \A n \in 1..Len(NthPage(q)) :
              Skip(q) + n \in 1..Total /\ NthPage(q)[n] = Every[Skip(q) + n]
<1> DEFINE a == Skip(q)
           got == PageAt(<<>>, sort, a)
           S == Present
<1>1. a \in Nat /\ NthPage(q) = got.items
  BY SkipsGrow DEF NthPage, Skip
<1>2. S = Matching(<<>>, sort) /\ <<>> \in Cursors
  BY DEF Matching, Cursors
<1>3. Total = Cardinality(S) /\ Every = Rows(S, sort) /\ S = Present
  BY DEF Total, Every
<1> HIDE DEF got, S, a
<1>4. got = PageAt(<<>>, sort, a)
  BY DEF got
<1>5. /\ Total \in Nat /\ Every \in [1..Total -> S] /\ got.items \in Seq(Ids)
      /\ Len(got.items) = IF Total <= a THEN 0 ELSE IF Total > a + limit THEN limit ELSE Total - a
      /\ \A n \in 1..Len(got.items) : a + n \in 1..Total /\ got.items[n] = Every[a + n]
  BY <1>1, <1>2, <1>3, <1>4, PageIs, SMTT(30)
<1> QED BY <1>1, <1>3, <1>5 DEF a

\* The page after the last row of the p-th is the one after the p-th; after an empty
\* page there are only empty ones.
LEMMA NextPageIs ==
  ASSUME DocsOK, limit \in Nat \ {0}, sort \in Orders, NEW p \in Nat \ {0}
  PROVE  /\ NthPage(p) \in Seq(Ids)
         /\ NthPage(p) # <<>> =>
              /\ EndCursor(NthPage(p)) \in CursorKeys
              /\ PageAt(EndCursor(NthPage(p)), sort, 0).items = NthPage(p + 1)
         /\ NthPage(p) = <<>> => \A q \in Nat : q >= p => NthPage(q) = <<>>
         /\ PageAt(<<>>, sort, 0).items = NthPage(1)
<1> DEFINE S == Present
           N == Total
           R == Every
           a == Skip(p)
           b == Skip(p + 1)
           page == NthPage(p)
           next == NthPage(p + 1)
           k == Len(page)
<1>1. p + 1 \in Nat \ {0} /\ b = a + limit
  BY SkipsGrow DEF Skip
<1>2. /\ a \in Nat /\ N \in Nat /\ R \in [1..N -> S] /\ page \in Seq(Ids)
      /\ k = IF N <= a THEN 0 ELSE IF N > a + limit THEN limit ELSE N - a
      /\ \A n \in 1..k : a + n \in 1..N /\ page[n] = R[a + n]
  BY NthPageIs
<1>3. /\ b \in Nat /\ next \in Seq(Ids)
      /\ Len(next) = IF N <= b THEN 0 ELSE IF N > b + limit THEN limit ELSE N - b
      /\ \A n \in 1..Len(next) : b + n \in 1..N /\ next[n] = R[b + n]
  BY <1>1, NthPageIs
<1>4. k \in Nat /\ DOMAIN page = 1..k /\ (page = <<>> <=> k = 0)
  BY <1>2
<1> HIDE DEF a, b, N, R, k, next
<1>5. page = <<>> <=> N <= a
  BY <1>2, <1>4
<1>6. ASSUME page = <<>>, NEW q \in Nat, q >= p PROVE NthPage(q) = <<>>
  <2>1. Skip(q) \in Nat /\ Skip(q) >= a /\ q \in Nat \ {0}
    BY <1>6, SkipsGrow DEF a, Skip
  <2>2. /\ Len(NthPage(q)) = IF N <= Skip(q) THEN 0
                             ELSE IF N > Skip(q) + limit THEN limit ELSE N - Skip(q)
        /\ NthPage(q) \in Seq(Ids)
    BY <2>1, NthPageIs DEF N
  <2>3. N <= Skip(q)
    BY <1>2, <1>5, <1>6, <2>1
  <2> QED BY <2>2, <2>3
<1>7. ASSUME page # <<>>
      PROVE  EndCursor(page) \in CursorKeys /\ PageAt(EndCursor(page), sort, 0).items = next
  <2> DEFINE e == a + k
             c == EndCursor(page)
             M == Matching(c, sort)
             got == PageAt(c, sort, 0)
  <2>1. /\ k \in Nat \ {0} /\ e \in 1..N /\ k \in 1..k
        /\ e = b \/ (e = N /\ N < b)
    BY <1>1, <1>2, <1>4, <1>5, <1>7
  <2>2. page[k] = R[e] /\ R[e] \in S
    BY <1>2, <2>1
  <2>3. c = Cursor(R[e])
    BY <1>7, <2>2 DEF EndCursor, k
  <2>4. c \in CursorKeys /\ c \in Cursors
    BY <2>2, <2>3, CursorsDiffer DEF Cursors
  <2>5. Cardinality(M) = N - e /\ \A m \in 1..Cardinality(M) : Rows(M, sort)[m] = R[e + m]
    <3> HIDE DEF e, c
    <3>1. R = Rows(Present, sort) /\ e \in 1..Cardinality(Present)
          /\ M = Matching(Cursor(R[e]), sort) /\ N = Cardinality(Present)
      BY <2>1, <2>3 DEF N, R, Total, Every
    <3> HIDE DEF M
    <3> QED BY <3>1, RowsAfter
  <2> DEFINE Q == Rows(M, sort)
             K == Cardinality(M)
  <2>6. /\ K \in Nat /\ got.items \in Seq(Ids)
        /\ Len(got.items) = IF K <= 0 THEN 0 ELSE IF K > 0 + limit THEN limit ELSE K - 0
        /\ \A n \in 1..Len(got.items) : 0 + n \in 1..K /\ got.items[n] = Q[0 + n]
    <3> HIDE DEF c, M, Q, K, got
    <3>1. M = Matching(c, sort) /\ Q = Rows(M, sort) /\ K = Cardinality(M)
          /\ got = PageAt(c, sort, 0) /\ 0 \in Nat
      BY DEF M, Q, K, got
    <3> QED BY <2>4, <3>1, PageIs, SMTT(30)
  <2>7. K = N - e /\ \A m \in 1..K : Q[m] = R[e + m]
    BY <2>5
  <2> DEFINE items == got.items
  <2> HIDE DEF c, M, Q, K, got, e, items
  <2>8. items \in Seq(Ids) /\ \A n \in 1..Len(items) : 0 + n = n
    BY <2>6 DEF items
  <2>9. Len(items) = IF N - e > limit THEN limit ELSE N - e
    BY <1>2, <2>6, <2>7 DEF items
  <2>10. \A n \in 1..Len(items) : n \in 1..K /\ items[n] = Q[n]
    BY <2>6, <2>8 DEF items
  <2>11. \A n \in 1..Len(items) : items[n] = R[e + n]
    BY <2>7, <2>10
  <2>12. Len(next) = Len(items)
    BY <1>1, <1>2, <1>3, <2>1, <2>9
  <2>13. \A n \in 1..Len(next) : next[n] = items[n]
    <3>1. CASE e = b
      BY <1>3, <2>11, <2>12, <3>1
    <3>2. CASE e = N /\ N < b
      <4>1. Len(next) = 0
        BY <1>2, <1>3, <3>2
      <4> QED BY <4>1
    <3> QED BY <2>1, <3>1, <3>2
  <2>14. items = next
    BY <1>3, <2>8, <2>12, <2>13, SeqEqual
  <2> QED BY <2>4, <2>14 DEF got, items, c
<1>8. PageAt(<<>>, sort, 0).items = NthPage(1)
  <2>1. (1 - 1) * limit = 0
    OBVIOUS
  <2> QED BY <2>1 DEF NthPage
<1> QED BY <1>2, <1>6, <1>7, <1>8 DEF next

-----------------------------------------------------------------------------
(* The inductive invariant.                                                *)

\* A jump is on its way up to the page asked for; what it holds, and what every
\* bookmark holds, is a page and its last row unless something was written since.
JumpOK ==
  /\ jump.at # "idle" =>
       /\ 1 <= jump.current /\ jump.current <= jump.page
       /\ jump.since = changes => /\ jump.items = NthPage(jump.current)
                                  /\ jump.end = EndCursor(NthPage(jump.current))
  /\ jump.at = "hop" => jump.current < jump.page
  /\ jump.at = "done" /\ jump.items # <<>> => jump.current = jump.page
  /\ jump.items # <<>> => jump.end \in CursorKeys
  /\ jump.since <= changes

BookmarksOK ==
  \A b \in DOMAIN bookmarks :
    /\ bookmarks[b].since <= changes
    /\ bookmarks[b].since = changes =>
         NthPage(b) # <<>> /\ bookmarks[b].cursor = EndCursor(NthPage(b))

PageInv == PageTypeOK /\ SweepOK /\ EachOnce /\ JumpOK /\ BookmarksOK

\* The fields, one by one.
LEMMA Typed ==
  ASSUME PageTypeOK
  PROVE  /\ DocsOK /\ sort \in Orders /\ limit \in Nat \ {0} /\ steady \subseteq Ids
         /\ changes \in 0..MaxChanges /\ MaxChanges \in Nat /\ MaxPage \in Nat
         /\ walk.start \in Cursors /\ walk.end \in Cursors
         /\ jump.at \in {"idle", "hop", "done"} /\ jump.page \in 0..MaxPage
         /\ jump.current \in 0..MaxPage /\ jump.items \in Seq(Ids) /\ jump.end \in Cursors
         /\ jump.warm \in BOOLEAN /\ jump.since \in 0..MaxChanges
BY PageAssumption DEF PageTypeOK, DocsOK, Orders

\* What a page depends on.
LEMMA PagesStay ==
  ASSUME UNCHANGED <<docs, sort, limit>>
  PROVE  \A p : NthPage(p)' = NthPage(p) /\ EndCursor(NthPage(p))' = EndCursor(NthPage(p))
<1>1. \A i : Cursor(i)' = Cursor(i)
  BY DEF Cursor
<1>2. \A S, s : Rows(S, s)' = Rows(S, s)
  BY DEF Rows, Rank, Cursor, Before, Compare
<1>3. \A c, s : Matching(c, s)' = Matching(c, s)
  BY DEF Matching, CursorFilter, Present, Operand, Compare
<1>4. \A c, s, n : PageAt(c, s, n)' = PageAt(c, s, n)
  BY <1>2, <1>3 DEF PageAt
<1>5. \A p : NthPage(p)' = NthPage(p)
  BY <1>4 DEF NthPage
<1> QED BY <1>1, <1>5 DEF EndCursor

\* What sweeps depend on.
LEMMA SweepsStay ==
  ASSUME SweepOK, EachOnce, UNCHANGED <<docs, sort, walk, sweep, steady>>
  PROVE  SweepOK' /\ EachOnce'
<1>1. SweepOK'
  BY DEF SweepOK, Edge, Order, Before, Compare, Reversed
<1>2. \A i : InSweep(Cursor(i))' <=> InSweep(Cursor(i))
  BY DEF InSweep, Cursor, Order, Before, Compare, Reversed
<1>3. Present' = Present
  BY DEF Present
<1> QED BY <1>1, <1>2, <1>3 DEF EachOnce

\* What jumps and bookmarks depend on.
LEMMA JumpsStay ==
  ASSUME JumpOK, BookmarksOK, UNCHANGED <<docs, sort, limit, jump, bookmarks, changes>>
  PROVE  JumpOK' /\ BookmarksOK'
<1>1. JumpOK'
  BY PagesStay DEF JumpOK
<1>2. BookmarksOK'
  BY PagesStay DEF BookmarksOK
<1> QED BY <1>1, <1>2

\* It holds at first.
LEMMA InitPages == PageInit => PageInv
<1> SUFFICES ASSUME PageInit PROVE PageInv
  OBVIOUS
<1>1. PageTypeOK
  BY PageAssumption DEF PageInit, PageTypeOK, Closed, NoSweep, NoJump, Cursors
<1>2. SweepOK
  BY DEF PageInit, SweepOK, Edge, NoSweep, Closed
<1>3. EachOnce
  <2>1. sweep.seen = <<>> /\ sweep.dir = "none"
    BY DEF PageInit, NoSweep
  <2>2. \A i : {n \in DOMAIN sweep.seen : sweep.seen[n] = i} = {}
    BY <2>1
  <2>3. \A i : Cardinality({n \in DOMAIN sweep.seen : sweep.seen[n] = i}) = 0
    BY <2>2, FS_EmptySet
  <2> QED BY <2>1, <2>3 DEF EachOnce
<1>4. JumpOK /\ BookmarksOK
  BY DEF PageInit, JumpOK, BookmarksOK, NoJump
<1> QED BY <1>1, <1>2, <1>3, <1>4 DEF PageInv

\* The cursors of a page, as read and turned round.
LEMMA PageCursors ==
  ASSUME DocsOK, limit \in Nat \ {0}, NEW s \in Orders, NEW c \in Cursors,
         NEW got, got = PageAt(c, s, 0)
  PROVE  /\ StartCursor(got.items) \in Cursors /\ EndCursor(got.items) \in Cursors
         /\ StartCursor(Reverse(got.items)) = EndCursor(got.items)
         /\ EndCursor(Reverse(got.items)) \in Cursors
<1> DEFINE M == Matching(c, s)
           items == got.items
<1>1. items \in Seq(M) /\ M \subseteq Present
  <2> DEFINE R == Rows(M, s)
             N == Cardinality(M)
  <2> HIDE DEF M, R, N
  <2>1. M = Matching(c, s) /\ R = Rows(M, s) /\ N = Cardinality(M) /\ 0 \in Nat
    BY DEF M, R, N
  <2>2. got.items \in Seq(M) /\ M \subseteq Present
    BY <2>1, PageIs, SMTT(30)
  <2> QED BY <2>2
<1> HIDE DEF M, items
<1>2. \A n \in 1..Len(items) : items[n] \in Present /\ Cursor(items[n]) \in CursorKeys
  BY <1>1, CursorsDiffer
<1>3. Len(items) \in Nat /\ (items = <<>> <=> Len(items) = 0)
  BY <1>1
<1>4. Reverse(items) = [n \in 1..Len(items) |-> items[(Len(items) - n) + 1]]
  BY DEF Reverse
<1>5. CASE items = <<>>
  <2>1. Reverse(items) = <<>>
    BY <1>3, <1>4, <1>5
  <2> QED BY <1>5, <2>1 DEF items, StartCursor, EndCursor, Cursors
<1>6. CASE items # <<>>
  <2> DEFINE k == Len(items)
  <2>1. 1 \in 1..k /\ k \in 1..k /\ (k - 1) + 1 = k /\ (k - k) + 1 = 1
    BY <1>3, <1>6
  <2>2. Reverse(items)[1] = items[k] /\ Reverse(items)[k] = items[1]
    BY <1>4, <2>1
  <2>3. Len(Reverse(items)) = k /\ Reverse(items) # <<>>
    BY <1>3, <1>4, <2>1
  <2>4. StartCursor(items) = Cursor(items[1]) /\ EndCursor(items) = Cursor(items[k])
    BY <1>6 DEF StartCursor, EndCursor
  <2>5. StartCursor(Reverse(items)) = Cursor(items[k]) /\ EndCursor(Reverse(items)) = Cursor(items[1])
    BY <2>2, <2>3 DEF StartCursor, EndCursor
  <2> QED BY <1>2, <2>1, <2>4, <2>5 DEF items, Cursors
<1> QED BY <1>5, <1>6

\* A page of the walk keeps the invariant.
LEMMA WalkGoesOn ==
  ASSUME PageInv, UNCHANGED <<docs, sort, limit, jump, bookmarks, changes>>,
         NEW dir \in {"after", "before"}, NEW c \in Cursors,
         NEW s \in Orders, s = IF dir = "before" THEN Reversed(sort) ELSE sort,
         NEW got, got = PageAt(c, s, 0), Swept(dir, c, got),
         sweep.dir = dir => c = Edge /\ ~sweep.done,
         (IF dir = "after" THEN walk'.end ELSE walk'.start) = EndCursor(got.items),
         walk' \in [start : Cursors, end : Cursors, next : BOOLEAN, prev : BOOLEAN],
         IF dir = "after" THEN walk'.next = got.more ELSE walk'.prev = got.more
  PROVE  PageInv'
<1>1. PageTypeOK /\ SweepOK /\ EachOnce /\ JumpOK /\ BookmarksOK
  BY DEF PageInv
<1>2. SweepOK' /\ EachOnce' /\ steady' \subseteq Ids
      /\ sweep' \in [dir : {"none", "after", "before"}, from : Cursors, seen : Seq(Ids), done : BOOLEAN]
  BY <1>1, SweepGoesOn
<1>3. PageTypeOK'
  BY <1>1, <1>2 DEF PageTypeOK
<1> QED BY <1>1, <1>2, <1>3, JumpsStay DEF PageInv

\* Each action keeps it: the first page,
LEMMA OpenKeeps == ASSUME PageInv, Open PROVE PageInv'
<1> DEFINE got == PageAt(<<>>, sort, 0)
<1>1. DocsOK /\ sort \in Orders /\ limit \in Nat \ {0} /\ <<>> \in Cursors
  BY Typed DEF PageInv, Cursors
<1>2. /\ walk' = [start |-> StartCursor(got.items), end |-> EndCursor(got.items),
                  next |-> got.more, prev |-> FALSE]
      /\ Swept("after", <<>>, got) /\ sweep.dir = "none"
      /\ UNCHANGED <<docs, sort, limit, jump, bookmarks, changes>>
  BY DEF Open
<1> HIDE DEF got
<1>3. got = PageAt(<<>>, sort, 0)
  BY DEF got
<1>4. /\ got.more \in BOOLEAN
      /\ EndCursor(got.items) \in Cursors /\ StartCursor(got.items) \in Cursors
  BY <1>1, <1>3, PageCovers, PageCursors
<1>5. /\ walk' \in [start : Cursors, end : Cursors, next : BOOLEAN, prev : BOOLEAN]
      /\ walk'.end = EndCursor(got.items) /\ walk'.next = got.more
  BY <1>2, <1>4
<1> QED BY <1>1, <1>2, <1>3, <1>5, WalkGoesOn

\* the next page,
LEMMA GoAfterKeeps == ASSUME PageInv, GoAfter PROVE PageInv'
<1> DEFINE c == walk.end
           got == PageAt(c, sort, 0)
<1>1. DocsOK /\ sort \in Orders /\ limit \in Nat \ {0} /\ c \in Cursors
  BY Typed DEF PageInv
<1>2. /\ walk' = [start |-> StartCursor(got.items), end |-> EndCursor(got.items),
                  next |-> got.more, prev |-> TRUE]
      /\ Swept("after", c, got)
      /\ UNCHANGED <<docs, sort, limit, jump, bookmarks, changes>>
  BY DEF GoAfter
<1>3. sweep.dir = "after" => c = Edge /\ ~sweep.done
  BY DEF GoAfter, PageInv, SweepOK, Edge
<1> HIDE DEF got, c
<1>4. got = PageAt(c, sort, 0)
  BY DEF got
<1>5. /\ got.more \in BOOLEAN
      /\ EndCursor(got.items) \in Cursors /\ StartCursor(got.items) \in Cursors
  BY <1>1, <1>4, PageCovers, PageCursors
<1>6. /\ walk' \in [start : Cursors, end : Cursors, next : BOOLEAN, prev : BOOLEAN]
      /\ walk'.end = EndCursor(got.items) /\ walk'.next = got.more
  BY <1>2, <1>5
<1> QED BY <1>1, <1>2, <1>3, <1>4, <1>6, WalkGoesOn

\* the previous page, whose rows are turned round,
LEMMA GoBeforeKeeps == ASSUME PageInv, GoBefore PROVE PageInv'
<1> DEFINE c == walk.start
           s == Reversed(sort)
           got == PageAt(c, s, 0)
           items == Reverse(got.items)
<1>1. DocsOK /\ sort \in Orders /\ limit \in Nat \ {0} /\ c \in Cursors /\ s \in Orders
  <2>1. sort \in Orders
    BY Typed DEF PageInv
  <2>2. s \in Orders
    BY <2>1 DEF Orders, Reversed
  <2> QED BY <2>1, <2>2, Typed DEF PageInv
<1>2. /\ walk' = [start |-> StartCursor(items), end |-> EndCursor(items),
                  next |-> TRUE, prev |-> got.more]
      /\ Swept("before", c, got)
      /\ UNCHANGED <<docs, sort, limit, jump, bookmarks, changes>>
  BY DEF GoBefore
<1>3. sweep.dir = "before" => c = Edge /\ ~sweep.done
  BY DEF GoBefore, PageInv, SweepOK, Edge
<1>4. s = IF "before" = "before" THEN Reversed(sort) ELSE sort
  OBVIOUS
<1> HIDE DEF got, c, s
<1>5. got = PageAt(c, s, 0)
  BY DEF got
<1>6. /\ got.more \in BOOLEAN /\ EndCursor(got.items) \in Cursors
      /\ StartCursor(items) = EndCursor(got.items) /\ EndCursor(items) \in Cursors
  <2>1. got.more \in BOOLEAN
    BY <1>1, <1>5, PageCovers
  <2>2. /\ EndCursor(got.items) \in Cursors
        /\ StartCursor(Reverse(got.items)) = EndCursor(got.items)
        /\ EndCursor(Reverse(got.items)) \in Cursors
    BY <1>1, <1>5, PageCursors
  <2> QED BY <2>1, <2>2
<1> HIDE DEF items
<1>7. /\ walk' \in [start : Cursors, end : Cursors, next : BOOLEAN, prev : BOOLEAN]
      /\ walk'.start = EndCursor(got.items) /\ walk'.prev = got.more
  BY <1>2, <1>6
<1> QED BY <1>1, <1>2, <1>3, <1>4, <1>5, <1>7, WalkGoesOn

\* a call by number, which starts at the nearest bookmark,
LEMMA JumpCallKeeps ==
  ASSUME PageInv, NEW page \in 1..MaxPage, NEW warm \in BOOLEAN, JumpCall(page, warm)
  PROVE  PageInv'
<1> DEFINE b == Nearest(page)
           c == IF b = 0 THEN <<>> ELSE bookmarks[b].cursor
           got == PageAt(c, sort, 0)
           oldest == IF b = 0 THEN changes ELSE bookmarks[b].since
<1>1. PageTypeOK /\ SweepOK /\ EachOnce /\ JumpOK /\ BookmarksOK
  BY DEF PageInv
<1>2. /\ DocsOK /\ sort \in Orders /\ limit \in Nat \ {0} /\ MaxPage \in Nat
      /\ changes \in 0..MaxChanges /\ MaxChanges \in Nat
      /\ DOMAIN bookmarks \subseteq 1..MaxPage
      /\ \A x \in DOMAIN bookmarks :
           bookmarks[x].cursor \in CursorKeys /\ bookmarks[x].since \in 0..MaxChanges
  BY <1>1, Typed DEF PageTypeOK
<1>3. b = 0 \/ (b \in DOMAIN bookmarks /\ b < page)
  <2> DEFINE below == {x \in DOMAIN bookmarks : page > 2 /\ x < page}
  <2>1. CASE below = {}
    BY <2>1 DEF Nearest
  <2>2. CASE below # {}
    <3>1. below \subseteq Nat /\ (\A x \in below : x <= MaxPage) /\ MaxPage \in Nat
      BY <1>2
    <3>2. \E x \in below : \A y \in below : y <= x
      <4> HIDE DEF below
      <4> QED BY <2>2, <3>1, Highest
    <3>3. b \in below
      BY <2>2, <3>2 DEF Nearest
    <3> QED BY <3>3
  <2> QED BY <2>1, <2>2
<1>4. /\ jump' = [at |-> IF b + 1 = page THEN "done" ELSE "hop", page |-> page,
                  current |-> b + 1, items |-> got.items, end |-> EndCursor(got.items),
                  warm |-> warm, since |-> oldest]
      /\ UNCHANGED <<docs, sort, limit, walk, sweep, bookmarks, changes, steady>>
  BY DEF JumpCall, PageRead
<1>5. c \in Cursors /\ oldest \in 0..MaxChanges /\ oldest <= changes /\ b + 1 \in 1..page /\ b \in Nat
  BY <1>1, <1>2, <1>3 DEF Cursors, BookmarksOK
<1> HIDE DEF b
<1>6. oldest = changes => got.items = NthPage(b + 1)
  <2>1. CASE b = 0
    <3>1. got.items = NthPage(1) /\ b + 1 = 1
      BY <1>2, <2>1, NextPageIs
    <3> QED BY <3>1
  <2>2. CASE b # 0
    <3> SUFFICES ASSUME oldest = changes PROVE got.items = NthPage(b + 1)
      OBVIOUS
    <3>1. NthPage(b) # <<>> /\ c = EndCursor(NthPage(b)) /\ b \in Nat \ {0}
      BY <1>1, <1>3, <1>5, <2>2 DEF BookmarksOK
    <3> QED BY <1>2, <3>1, NextPageIs
  <2> QED BY <2>1, <2>2
<1> HIDE DEF c, got, oldest
<1>7. got = PageAt(c, sort, 0)
  BY DEF got
<1>8. /\ got.items \in Seq(Ids) /\ (got.items # <<>> => EndCursor(got.items) \in CursorKeys)
      /\ EndCursor(got.items) \in Cursors
  BY <1>2, <1>5, <1>7, PageCovers, PageCursors
<1>9. b + 1 \in 0..MaxPage /\ page \in 0..MaxPage
  BY <1>2, <1>5
<1>10. jump' \in [at : {"idle", "hop", "done"}, page : 0..MaxPage, current : 0..MaxPage,
                  items : Seq(Ids), end : Cursors, warm : BOOLEAN, since : 0..MaxChanges]
  BY <1>4, <1>5, <1>8, <1>9
<1>11. PageTypeOK'
  BY <1>1, <1>4, <1>10 DEF PageTypeOK
<1>12. JumpOK'
  <2>1. jump'.at # "idle" =>
          /\ 1 <= jump'.current /\ jump'.current <= jump'.page
          /\ jump'.since = changes => /\ jump'.items = NthPage(jump'.current)
                                      /\ jump'.end = EndCursor(NthPage(jump'.current))
    BY <1>4, <1>5, <1>6
  <2>2. jump'.at = "hop" => jump'.current < jump'.page
    BY <1>4, <1>5
  <2>3. jump'.at = "done" => jump'.current = jump'.page
    BY <1>4
  <2>4. (jump'.items # <<>> => jump'.end \in CursorKeys) /\ jump'.since <= changes
    BY <1>4, <1>5, <1>8
  <2> QED BY <1>4, <2>1, <2>2, <2>3, <2>4, PagesStay DEF JumpOK
<1>13. BookmarksOK'
  BY <1>1, <1>4, PagesStay DEF BookmarksOK
<1> QED BY <1>1, <1>4, <1>11, <1>12, <1>13, SweepsStay DEF PageInv

\* a hop to the next page,
LEMMA HopKeeps == ASSUME PageInv, Hop PROVE PageInv'
<1> DEFINE got == PageAt(jump.end, sort, 0)
<1>1. PageTypeOK /\ SweepOK /\ EachOnce /\ JumpOK /\ BookmarksOK
  BY DEF PageInv
<1>2. /\ DocsOK /\ sort \in Orders /\ limit \in Nat \ {0} /\ MaxPage \in Nat
      /\ changes \in 0..MaxChanges /\ MaxChanges \in Nat
      /\ jump.page \in 0..MaxPage /\ jump.current \in 0..MaxPage /\ jump.items \in Seq(Ids)
      /\ jump.end \in Cursors /\ jump.warm \in BOOLEAN /\ jump.since \in 0..MaxChanges
  BY <1>1, Typed
<1>3. /\ jump.at = "hop"
      /\ jump' = IF jump.items = <<>> THEN [jump EXCEPT !.at = "done"]
                 ELSE [jump EXCEPT !.items = got.items, !.end = EndCursor(got.items),
                                   !.current = @ + 1,
                                   !.at = IF jump.current + 1 = jump.page THEN "done" ELSE "hop"]
      /\ UNCHANGED <<docs, sort, limit, walk, sweep, bookmarks, changes, steady>>
  BY DEF Hop
<1>4. jump.current < jump.page /\ 1 <= jump.current /\ jump.since <= changes
      /\ (jump.items # <<>> => jump.end \in CursorKeys)
      /\ (jump.since = changes => /\ jump.items = NthPage(jump.current)
                                  /\ jump.end = EndCursor(NthPage(jump.current)))
  BY <1>1, <1>3 DEF JumpOK
<1>5. BookmarksOK' /\ SweepOK' /\ EachOnce'
  <2>1. BookmarksOK'
    BY <1>1, <1>3, PagesStay DEF BookmarksOK
  <2> QED BY <1>1, <1>3, <2>1, SweepsStay
<1>6. CASE jump.items = <<>>
  <2>1. /\ jump'.at = "done" /\ jump'.page = jump.page /\ jump'.current = jump.current
        /\ jump'.items = jump.items /\ jump'.end = jump.end /\ jump'.warm = jump.warm
        /\ jump'.since = jump.since
    BY <1>1, <1>3, <1>6 DEF PageTypeOK
  <2>2. PageTypeOK'
    BY <1>1, <1>3, <1>6 DEF PageTypeOK
  <2>3. JumpOK'
    BY <1>2, <1>3, <1>4, <1>6, <2>1, PagesStay DEF JumpOK
  <2> QED BY <1>5, <2>2, <2>3 DEF PageInv
<1>7. CASE jump.items # <<>>
  <2>1. jump.since = changes => got.items = NthPage(jump.current + 1)
    <3>1. jump.current \in Nat \ {0}
      BY <1>2, <1>4
    <3> QED BY <1>2, <1>4, <1>7, <3>1, NextPageIs
  <2> HIDE DEF got
  <2>2. got = PageAt(jump.end, sort, 0)
    BY DEF got
  <2>3. /\ got.items \in Seq(Ids) /\ (got.items # <<>> => EndCursor(got.items) \in CursorKeys)
        /\ EndCursor(got.items) \in Cursors
    <3>1. got.items \in Seq(Ids) /\ (got.items # <<>> => EndCursor(got.items) \in CursorKeys)
      BY <1>2, <2>2, PageCovers
    <3>2. EndCursor(got.items) \in Cursors
      BY <1>2, <2>2, PageCursors
    <3> QED BY <3>1, <3>2
  <2>4. jump.current + 1 \in 0..MaxPage /\ jump.current + 1 <= jump.page
    BY <1>2, <1>4
  <2>5. /\ jump'.at = (IF jump.current + 1 = jump.page THEN "done" ELSE "hop")
        /\ jump'.page = jump.page /\ jump'.current = jump.current + 1
        /\ jump'.items = got.items /\ jump'.end = EndCursor(got.items) /\ jump'.warm = jump.warm
        /\ jump'.since = jump.since
    BY <1>1, <1>3, <1>7 DEF PageTypeOK
  <2>6. PageTypeOK'
    BY <1>1, <1>2, <1>3, <1>7, <2>3, <2>4 DEF PageTypeOK
  <2>7. JumpOK'
    BY <1>2, <1>3, <1>4, <2>1, <2>3, <2>4, <2>5, PagesStay DEF JumpOK
  <2> QED BY <1>5, <2>6, <2>7 DEF PageInv
<1> QED BY <1>6, <1>7

\* and a bookmark that is stored.
LEMMA WarmedKeeps == ASSUME PageInv, Warmed PROVE PageInv'
<1>1. PageTypeOK /\ SweepOK /\ EachOnce /\ JumpOK /\ BookmarksOK
  BY DEF PageInv
<1>2. /\ jump.at = "done" /\ jump' = [jump EXCEPT !.warm = FALSE]
      /\ bookmarks' = IF jump.items = <<>> THEN bookmarks
                      ELSE [b \in DOMAIN bookmarks \cup {jump.page} |->
                              IF b = jump.page THEN [cursor |-> jump.end, since |-> jump.since]
                              ELSE bookmarks[b]]
      /\ UNCHANGED <<docs, sort, limit, walk, sweep, changes, steady>>
  BY DEF Warmed
<1>3. /\ jump'.at = jump.at /\ jump'.page = jump.page /\ jump'.current = jump.current
      /\ jump'.items = jump.items /\ jump'.end = jump.end /\ jump'.since = jump.since
  BY <1>1, <1>2 DEF PageTypeOK
<1>4. JumpOK'
  BY <1>1, <1>2, <1>3, PagesStay DEF JumpOK
<1>5. /\ jump.page \in 0..MaxPage /\ MaxPage \in Nat /\ jump.since \in 0..MaxChanges
      /\ jump.current \in 0..MaxPage
  BY <1>1, Typed
<1>6. ASSUME jump.items # <<>>
      PROVE  /\ jump.page \in 1..MaxPage /\ jump.current = jump.page /\ jump.since <= changes
             /\ jump.end \in CursorKeys
             /\ jump.since = changes =>
                  NthPage(jump.page) # <<>> /\ jump.end = EndCursor(NthPage(jump.page))
  BY <1>1, <1>2, <1>5, <1>6 DEF JumpOK
<1>7. /\ DOMAIN bookmarks' \subseteq 1..MaxPage
      /\ \A b \in DOMAIN bookmarks' : bookmarks'[b] \in [cursor : CursorKeys, since : 0..MaxChanges]
  <2>1. CASE jump.items = <<>>
    BY <1>1, <1>2, <2>1 DEF PageTypeOK
  <2>2. CASE jump.items # <<>>
    BY <1>1, <1>2, <1>5, <1>6, <2>2 DEF PageTypeOK
  <2> QED BY <2>1, <2>2
<1>8. PageTypeOK'
  BY <1>1, <1>2, <1>7 DEF PageTypeOK
<1>9. BookmarksOK'
  <2>1. CASE jump.items = <<>>
    BY <1>1, <1>2, <2>1, PagesStay DEF BookmarksOK
  <2>2. CASE jump.items # <<>>
    <3> SUFFICES ASSUME NEW b \in DOMAIN bookmarks'
                 PROVE  /\ bookmarks'[b].since <= changes
                        /\ bookmarks'[b].since = changes =>
                             NthPage(b) # <<>> /\ bookmarks'[b].cursor = EndCursor(NthPage(b))
      BY <1>2, PagesStay DEF BookmarksOK
    <3>1. CASE b = jump.page
      <4>1. bookmarks'[b] = [cursor |-> jump.end, since |-> jump.since]
        BY <1>2, <2>2, <3>1
      <4> QED BY <1>6, <2>2, <3>1, <4>1
    <3>2. CASE b # jump.page
      <4>1. b \in DOMAIN bookmarks /\ bookmarks'[b] = bookmarks[b]
        BY <1>2, <2>2, <3>2
      <4> QED BY <1>1, <4>1 DEF BookmarksOK
    <3> QED BY <3>1, <3>2
  <2> QED BY <2>1, <2>2
<1> QED BY <1>1, <1>2, <1>4, <1>8, <1>9, SweepsStay DEF PageInv

\* After a write nothing that was read before counts as up to date, and the
\* documents that stay steady are where they were.
LEMMA ChangeKeeps ==
  ASSUME PageInv, NEW i \in Ids, NEW v \in {Absent, Missing, Null} \cup Numbers,
         NEW own \in BOOLEAN, Change(i, v, own)
  PROVE  PageInv'
<1>1. PageTypeOK /\ SweepOK /\ EachOnce /\ JumpOK /\ BookmarksOK
  BY DEF PageInv
<1>2. /\ changes < MaxChanges /\ docs' = [docs EXCEPT ![i] = v] /\ changes' = changes + 1
      /\ steady' = steady \ {i} /\ UNCHANGED <<sort, limit, walk, sweep>>
      /\ \/ bookmarks' = <<>> /\ jump' = [jump EXCEPT !.warm = FALSE]
         \/ UNCHANGED <<bookmarks, jump>>
  BY DEF Change
<1>3. changes \in 0..MaxChanges /\ MaxChanges \in Nat /\ jump.since \in 0..MaxChanges
      /\ changes' \in 0..MaxChanges
  BY <1>1, <1>2, Typed
<1>4. /\ jump'.at = jump.at /\ jump'.page = jump.page /\ jump'.current = jump.current
      /\ jump'.items = jump.items /\ jump'.end = jump.end /\ jump'.since = jump.since
  BY <1>1, <1>2 DEF PageTypeOK
<1>5. PageTypeOK'
  <2>1. docs' \in [Ids -> {Absent, Missing, Null} \cup Numbers] /\ steady' \subseteq Ids
    BY <1>1, <1>2 DEF PageTypeOK
  <2>2. jump' \in [at : {"idle", "hop", "done"}, page : 0..MaxPage, current : 0..MaxPage,
                   items : Seq(Ids), end : Cursors, warm : BOOLEAN, since : 0..MaxChanges]
    BY <1>1, <1>2 DEF PageTypeOK
  <2>3. /\ DOMAIN bookmarks' \subseteq 1..MaxPage
        /\ \A b \in DOMAIN bookmarks' : bookmarks'[b] \in [cursor : CursorKeys, since : 0..MaxChanges]
    BY <1>1, <1>2 DEF PageTypeOK
  <2> QED BY <1>1, <1>2, <1>3, <2>1, <2>2, <2>3 DEF PageTypeOK
<1>6. jump'.since < changes' /\ jump'.since <= changes'
  BY <1>1, <1>3, <1>2, <1>4 DEF JumpOK
<1>7. JumpOK'
  BY <1>1, <1>3, <1>4, <1>6 DEF JumpOK
<1>8. BookmarksOK'
  <2> SUFFICES ASSUME NEW b \in DOMAIN bookmarks'
               PROVE  bookmarks'[b].since <= changes' /\ bookmarks'[b].since # changes'
    BY DEF BookmarksOK
  <2>1. b \in DOMAIN bookmarks /\ bookmarks'[b] = bookmarks[b]
    BY <1>2
  <2>2. bookmarks[b].since \in 0..MaxChanges /\ bookmarks[b].since <= changes
    BY <1>1, <2>1 DEF BookmarksOK, PageTypeOK
  <2> QED BY <1>2, <1>3, <2>1, <2>2
<1>9. SweepOK'
  BY <1>1, <1>2 DEF SweepOK, Edge, Order, Before, Compare, Reversed
<1>10. EachOnce'
  <2> SUFFICES ASSUME NEW j \in steady' \cap Present'
               PROVE  Cardinality({n \in DOMAIN sweep.seen : sweep.seen[n] = j}) =
                        IF sweep.dir # "none" /\ InSweep(Cursor(j))' THEN 1 ELSE 0
    BY <1>2 DEF EachOnce
  <2>1. j \in steady /\ j # i /\ j \in Ids /\ docs'[j] = docs[j] /\ j \in Present
    BY <1>1, <1>2 DEF Present, PageTypeOK
  <2>2. InSweep(Cursor(j))' <=> InSweep(Cursor(j))
    BY <1>2, <2>1 DEF InSweep, Cursor, Order, Before, Compare, Reversed
  <2> QED BY <1>1, <2>1, <2>2 DEF EachOnce
<1> QED BY <1>5, <1>7, <1>8, <1>9, <1>10 DEF PageInv

\* Every step keeps it.
LEMMA StepKeepsPages == PageInv /\ [PageNext]_pageVars => PageInv'
<1> SUFFICES ASSUME PageInv, [PageNext]_pageVars PROVE PageInv'
  OBVIOUS
<1>1. CASE UNCHANGED pageVars
  <2>1. PageTypeOK'
    BY <1>1 DEF PageInv, PageTypeOK, pageVars
  <2>2. SweepOK' /\ EachOnce' /\ JumpOK' /\ BookmarksOK'
    BY <1>1, SweepsStay, JumpsStay DEF PageInv, pageVars
  <2> QED BY <2>1, <2>2 DEF PageInv
<1> QED BY <1>1, OpenKeeps, GoAfterKeeps, GoBeforeKeeps, HopKeeps, WarmedKeeps, JumpCallKeeps,
           ChangeKeeps DEF PageNext

\* What a page reached by hops holds.
LEMMA JumpsLand == ASSUME PageInv PROVE JumpIsThePage
<1> SUFFICES ASSUME jump.at = "done", jump.since = changes
             PROVE  jump.items = NthPage(jump.page) /\ (jump.items # <<>> => jump.current = jump.page)
  BY DEF JumpIsThePage, NthPage
<1>1. /\ 1 <= jump.current /\ jump.current <= jump.page /\ jump.items = NthPage(jump.current)
      /\ jump.items # <<>> => jump.current = jump.page
  BY DEF PageInv, JumpOK
<1>2. /\ DocsOK /\ sort \in Orders /\ limit \in Nat \ {0}
      /\ jump.current \in Nat \ {0} /\ jump.page \in Nat
  BY <1>1, Typed DEF PageInv
<1>3. CASE jump.items = <<>>
  BY <1>1, <1>2, <1>3, NextPageIs
<1> QED BY <1>1, <1>3

(* Every page is right, one by one and by a jump, for any documents, sorts   *)
(* and page sizes.                                                           *)
THEOREM PagesAreExact == PageSpec => []PagesExact
<1>1. PageInv => PagesExact
  BY JumpsLand DEF PageInv, PagesExact
<1> QED BY <1>1, InitPages, StepKeepsPages, PTL DEF PageSpec
=============================================================================
