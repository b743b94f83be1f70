-------------------------- MODULE SharedStateProofs --------------------------
(***************************************************************************)
(* What is proved of the state that programs share in Redis and MongoDB:   *)
(* the lock, the versions and the indexes of a Model, the entries several  *)
(* processes cache, and transactions that are tried again.  The components *)
(* are independent; each has an inductive invariant of its own.            *)
(***************************************************************************)
EXTENDS RedisLock, ModelVersions, ModelIndexes, DistributedInvalidation, TransactionManager,
        FiniteSetTheorems, SequenceTheorems, TLAPS

-----------------------------------------------------------------------------
(* The lock.                                                               *)

\* An answer under way to u promises the key until "to".
Promised(u, to) == now < to => key.owner = u /\ key.expires >= to

Backed(u) ==
  /\ Believes(u) => key.owner = u /\ key.expires >= user[u].expires
  /\ user[u].cmd = "setOk" => Promised(u, user[u].at + TTL)
  /\ user[u].cmd = "renewOk" => Promised(u, user[u].at + user[u].d)

\* Which command belongs to which phase, and how long it asks for.
Shape(u) ==
  /\ user[u].phase = "idle" => user[u].cmd \in {"none", "set", "setOk", "refused"}
  /\ user[u].phase = "held" => user[u].cmd \in {"none", "renew", "renewOk", "refused"}
  /\ user[u].phase = "releasing" => user[u].cmd \in {"none", "release", "releaseOk", "refused"}
  /\ user[u].phase = "over" => user[u].cmd = "none"
  /\ user[u].cmd = "set" => user[u].d = TTL
  /\ user[u].cmd = "renew" => user[u].d \in Durations
  /\ \A c \in stray[u] : (c.cmd = "set" => c.d = TTL) /\ (c.cmd = "renew" => c.d \in Durations)

\* A renewal, even one that was given up, never ends before what is believed.
Timely(u) ==
  /\ user[u].at <= now
  /\ user[u].cmd \in {"renew", "renewOk"} => user[u].expires <= user[u].at + user[u].d
  /\ user[u].cmd \in {"setOk", "renewOk"} => stray[u] = {}
  /\ user[u].phase = "held" =>
       \A c \in stray[u] : c.cmd = "renew" /\ user[u].expires <= now + c.d

IInv == TypeOK /\ \A u \in Users : Backed(u) /\ Shape(u) /\ Timely(u)

Given == [cmd : {"set", "renew", "release"}, d : Spans]

\* What TypeOK says of the numbers and the handle of one user.
LEMMA Numbers ==
  ASSUME TypeOK, NEW u \in Users
  PROVE  /\ now \in Int /\ 0 <= now /\ now \in 0..MaxTime /\ TTL \in Int /\ TTL > 0
         /\ u # None /\ Durations \subseteq Int /\ \A d \in Durations : d > 0
         /\ Spans \subseteq Nat /\ TTL \in Spans /\ 0 \in Spans /\ Durations \subseteq Spans
         /\ key.expires \in Nat /\ key.owner \in Users \cup {None}
         /\ key \in [owner : Users \cup {None}, expires : Nat]
         /\ user[u] \in Handles /\ user[u].at \in 0..MaxTime /\ user[u].at \in Nat
         /\ user[u].d \in Spans /\ user[u].d \in Nat /\ user[u].expires \in Nat
         /\ user[u].cmd \in Commands /\ user[u].attempt \in 0..RetryTimes
         /\ 0 \in 0..MaxTime /\ 0 \in 0..RetryTimes
         /\ stray[u] \in SUBSET Given
<1>1. /\ TTL \in Int /\ TTL > 0 /\ u # None /\ Durations \subseteq Int
      /\ \A d \in Durations : d > 0
      /\ 0 \in 0..MaxTime /\ 0 \in 0..RetryTimes
  BY ConstantsAssumption
<1>2. Spans \subseteq Nat /\ TTL \in Spans /\ 0 \in Spans /\ Durations \subseteq Spans
  BY ConstantsAssumption DEF Spans
<1>3. /\ now \in Int /\ 0 <= now /\ now \in 0..MaxTime
      /\ key \in [owner : Users \cup {None}, expires : Nat]
      /\ user[u] \in Handles /\ stray[u] \in SUBSET Given
  BY ConstantsAssumption DEF TypeOK, Given
<1>4. /\ user[u].at \in 0..MaxTime /\ user[u].d \in Spans /\ user[u].expires \in Nat
      /\ user[u].cmd \in Commands /\ user[u].attempt \in 0..RetryTimes
  BY <1>3 DEF Handles
<1>5. user[u].at \in Nat
  BY <1>4
<1>6. user[u].d \in Nat
  BY <1>2, <1>4
<1> QED
  BY <1>1, <1>2, <1>3, <1>4, <1>5, <1>6

\* The records acquireLock and the handle are reset to.
LEMMA Resets ==
  ASSUME TypeOK, NEW u \in Users
  PROVE  /\ [Idle EXCEPT !.phase = "over"] \in Handles
         /\ Quiet(user[u]) \in Handles
         /\ Quiet(user[u]).phase = user[u].phase /\ Quiet(user[u]).expires = user[u].expires
         /\ Quiet(user[u]).released = user[u].released
         /\ Quiet(user[u]).attempt = user[u].attempt
         /\ Quiet(user[u]).cmd = "none" /\ Quiet(user[u]).at = 0 /\ Quiet(user[u]).d = 0
         /\ [Idle EXCEPT !.phase = "over"].cmd = "none"
         /\ [Idle EXCEPT !.phase = "over"].at = 0
         /\ [Idle EXCEPT !.phase = "over"].phase = "over"
<1>1. [Idle EXCEPT !.phase = "over"] \in Handles
  BY Numbers DEF Idle, Handles, Commands
<1>2. Quiet(user[u]) \in Handles
  <2>1. user[u] \in Handles /\ 0 \in Spans /\ 0 \in 0..MaxTime
    BY Numbers
  <2> QED
    BY <2>1 DEF Quiet, Handles, Commands
<1> QED
  BY <1>1, <1>2, Numbers DEF Quiet, Handles, Idle

\* Set(u, r) changes the handle of u alone.
LEMMA SetOne ==
  ASSUME user \in [Users -> Handles], NEW u \in Users, NEW r \in Handles, Set(u, r)
  PROVE  /\ user' \in [Users -> Handles]
         /\ user'[u] = r
         /\ \A v \in Users \ {u} : user'[v] = user[v]
  BY DEF Set

\* Giving up may leave the command in progress to be executed later, and nothing else.
LEMMA GivenUpIs ==
  ASSUME TypeOK, NEW u \in Users, GivenUp(u)
  PROVE  /\ stray' \in [Users -> SUBSET Given]
         /\ \A v \in Users \ {u} : stray'[v] = stray[v]
         /\ \A c \in stray'[u] : c \in stray[u] \/
              /\ c.cmd = user[u].cmd /\ c.d = user[u].d
              /\ user[u].cmd \in {"set", "renew", "release"}
<1>1. stray \in [Users -> SUBSET Given] /\ user[u].d \in Spans
  BY Numbers DEF TypeOK, Given
<1>2. CASE user[u].cmd \in {"set", "renew", "release"}
  <2>1. /\ [cmd |-> user[u].cmd, d |-> user[u].d] \in Given
        /\ stray' = [stray EXCEPT ![u] = @ \cup {[cmd |-> user[u].cmd, d |-> user[u].d]}]
    BY <1>1, <1>2 DEF GivenUp, Given
  <2> QED
    BY <1>1, <1>2, <2>1
<1>3. CASE ~(user[u].cmd \in {"set", "renew", "release"})
  BY <1>1, <1>3 DEF GivenUp
<1> QED
  BY <1>2, <1>3

\* What a command does to the key: nothing to one of another owner.
LEMMA ExecuteIs ==
  ASSUME TypeOK, NEW u \in Users, NEW c \in {"set", "renew", "release"}, NEW d \in Nat,
         c = "set" => d > 0, c = "renew" => d > 0
  PROVE  LET k == Execute(u, c, d)
         IN /\ k \in [owner : Users \cup {None}, expires : Nat]
            /\ k.owner # None => k.expires > now
            /\ k = key \/ key.owner \in {None, u}
            /\ c = "set" /\ key.owner = None => k.owner = u /\ k.expires = now + d
            /\ c = "renew" /\ key.owner = u => k.owner = u /\ k.expires = now + d
            /\ c = "renew" /\ key.owner # u => k = key
<1>0. /\ key \in [owner : Users \cup {None}, expires : Nat] /\ now \in Nat /\ u # None
      /\ key.owner # None => key.expires > now
  BY Numbers DEF TypeOK
<1>1. CASE c = "set" /\ key.owner = None
  BY <1>0, <1>1 DEF Execute
<1>2. CASE c = "renew" /\ key.owner = u
  BY <1>0, <1>2 DEF Execute
<1>3. CASE c = "release" /\ key.owner = u
  BY <1>0, <1>3 DEF Execute, Free
<1>4. CASE /\ ~(c = "set" /\ key.owner = None) /\ ~(c = "renew" /\ key.owner = u)
           /\ ~(c = "release" /\ key.owner = u)
  BY <1>0, <1>4 DEF Execute
<1> QED
  BY <1>1, <1>2, <1>3, <1>4

-----------------------------------------------------------------------------
\* The key changes only where nothing promised to v is in force.
LEMMA KeyOfOthers ==
  ASSUME IInv, NEW u \in Users, NEW v \in Users \ {u}, user'[v] = user[v],
         stray'[v] = stray[v], now' = now, key' = key \/ key.owner \in {None, u}
  PROVE  Backed(v)' /\ Shape(v)' /\ Timely(v)'
<1>1. /\ TypeOK /\ Backed(v) /\ Shape(v) /\ Timely(v)
      /\ now \in Int /\ v # None /\ user[v].expires \in Int
      /\ user[v].at + TTL \in Int /\ user[v].at + user[v].d \in Int
  BY Numbers DEF IInv
<1>2. Shape(v)' /\ Timely(v)'
  BY <1>1 DEF Shape, Timely
<1>3. CASE key' = key
  BY <1>1, <1>2, <1>3 DEF Backed, Believes, IsHeld, Promised
<1>4. CASE key.owner \in {None, u}
  BY <1>1, <1>2, <1>4 DEF Backed, Believes, IsHeld, Promised
<1> QED
  BY <1>2, <1>3, <1>4

\* Redis removes no key that anybody relies on.
LEMMA Passing ==
  ASSUME IInv, Tick
  PROVE  IInv'
<1>0. TypeOK /\ user' = user /\ stray' = stray /\ now' = now + 1 /\ now < MaxTime
  BY DEF IInv, Tick
<1>1. TypeOK'
  <2>1. /\ key' \in [owner : Users \cup {None}, expires : Nat]
        /\ key'.owner # None => key'.expires > now'
    BY <1>0, ConstantsAssumption DEF Tick, TypeOK, Free
  <2>2. now' \in 0..MaxTime
    BY <1>0, ConstantsAssumption DEF TypeOK
  <2> QED
    BY <1>0, <2>1, <2>2 DEF TypeOK
<1>2. ASSUME NEW u \in Users PROVE Backed(u)' /\ Shape(u)' /\ Timely(u)'
  <2>1. /\ Backed(u) /\ Shape(u) /\ Timely(u)
        /\ now \in Int /\ u # None /\ user[u].expires \in Int /\ key.expires \in Int
        /\ user[u].at \in Int /\ user[u].at + TTL \in Int /\ user[u].at + user[u].d \in Int
        /\ \A c \in stray[u] : c.d \in Int
    BY <1>0, Numbers DEF IInv, Given
  <2>2. Shape(u)'
    BY <1>0, <2>1 DEF Shape
  <2>5. Timely(u)'
    <3>1. ASSUME user[u].phase = "held", NEW c \in stray[u]
          PROVE  c.cmd = "renew" /\ user[u].expires <= now' + c.d
      <4>1. c.cmd = "renew" /\ user[u].expires <= now + c.d
        BY <2>1, <3>1 DEF Timely
      <4> QED
        BY <1>0, <2>1, <4>1
    <3>2. /\ user[u].at <= now'
          /\ user[u].cmd \in {"renew", "renewOk"} => user[u].expires <= user[u].at + user[u].d
          /\ user[u].cmd \in {"setOk", "renewOk"} => stray[u] = {}
      BY <1>0, <2>1 DEF Timely
    <3> QED
      BY <1>0, <3>1, <3>2 DEF Timely
  <2>3. \A to \in Int : (now < to => key.owner = u /\ key.expires >= to)
                       => (now' < to => key'.owner = u /\ key'.expires >= to)
    BY <1>0, <2>1 DEF Tick
  <2>4. Believes(u)' <=> Believes(u) /\ now' < user[u].expires
    BY <1>0, <2>1 DEF Believes, IsHeld
  <2> QED
    BY <1>0, <2>1, <2>2, <2>3, <2>4, <2>5 DEF Backed, Promised, Believes, IsHeld
<1> QED
  BY <1>1, <1>2 DEF IInv

-----------------------------------------------------------------------------
\* A command of u is executed, now or late.
LEMMA ExecutedKeeps ==
  ASSUME IInv, NEW u \in Users, Executed(u)
  PROVE  IInv'
<1> DEFINE h == user[u]
           r == [h EXCEPT !.cmd = Answer(u, h.cmd)]
<1>0. /\ TypeOK /\ Backed(u) /\ Shape(u) /\ Timely(u) /\ h \in Handles
      /\ now \in Int /\ u # None /\ h.expires \in Int /\ h.at \in Int /\ h.d \in Nat
      /\ TTL \in Int /\ TTL > 0 /\ (\A d \in Durations : d > 0)
      /\ h.cmd \in {"set", "renew", "release"} /\ stray[u] = {}
      /\ user \in [Users -> Handles] /\ now' = now /\ stray' = stray
      /\ key' = Execute(u, h.cmd, h.d) /\ Set(u, r)
  <2>1. /\ h.cmd \in {"set", "renew", "release"} /\ stray[u] = {}
        /\ now' = now /\ stray' = stray
        /\ key' = Execute(u, h.cmd, h.d) /\ Set(u, r)
    BY DEF Executed
  <2>2. TypeOK /\ Backed(u) /\ Shape(u) /\ Timely(u)
    BY DEF IInv
  <2>3. user \in [Users -> Handles]
    BY <2>2 DEF TypeOK
  <2> HIDE DEF r
  <2> QED
    BY <2>1, <2>2, <2>3, Numbers
<1>1. /\ h.cmd = "set" => h.d = TTL
      /\ h.cmd = "renew" => h.d > 0
  BY <1>0 DEF Shape
<1>2. /\ key' \in [owner : Users \cup {None}, expires : Nat]
      /\ key'.owner # None => key'.expires > now
      /\ key' = key \/ key.owner \in {None, u}
      /\ h.cmd = "set" /\ key.owner = None => key'.owner = u /\ key'.expires = now + h.d
      /\ h.cmd = "renew" /\ key.owner = u => key'.owner = u /\ key'.expires = now + h.d
      /\ h.cmd = "renew" /\ key.owner # u => key' = key
  BY <1>0, <1>1, ExecuteIs
<1>3. /\ r \in Handles /\ r.phase = h.phase /\ r.at = h.at /\ r.d = h.d
      /\ r.expires = h.expires /\ r.released = h.released
      /\ h.cmd = "set" => r.cmd \in {"setOk", "refused"}
      /\ h.cmd = "renew" => r.cmd \in {"renewOk", "refused"}
      /\ h.cmd = "release" => r.cmd \in {"releaseOk", "refused"}
      /\ r.cmd = "setOk" => key.owner = None
      /\ r.cmd = "renewOk" => key.owner = u
  <2>1. /\ h.cmd = "set" => Answer(u, h.cmd) = IF key.owner = None THEN "setOk" ELSE "refused"
        /\ h.cmd = "renew" => Answer(u, h.cmd) = IF key.owner = u THEN "renewOk" ELSE "refused"
        /\ h.cmd = "release" => Answer(u, h.cmd) = IF key.owner = u THEN "releaseOk" ELSE "refused"
    BY DEF Answer, Succeeds
  <2>2. Answer(u, h.cmd) \in Commands
    BY <1>0, <2>1 DEF Commands
  <2>3. r \in Handles /\ r.cmd = Answer(u, h.cmd)
    BY <1>0, <2>2 DEF Handles
  <2> QED
    BY <1>0, <2>1, <2>3 DEF Handles
<1> HIDE DEF r
<1>4. user' \in [Users -> Handles] /\ user'[u] = r /\ \A v \in Users \ {u} : user'[v] = user[v]
  BY <1>0, <1>3, SetOne
<1>5. TypeOK'
  BY <1>0, <1>2, <1>4 DEF TypeOK
<1>6. Shape(u)'
  BY <1>0, <1>3, <1>4 DEF Shape
<1>7. Timely(u)'
  BY <1>0, <1>3, <1>4 DEF Timely, Shape
<1>8. Backed(u)'
  <2>1. Believes(u)' => Believes(u)
    BY <1>0, <1>3, <1>4 DEF Believes, IsHeld
  <2>2. CASE h.cmd = "set"
    <3>1. h.phase # "held"
      BY <1>0, <2>2 DEF Shape
    <3> QED
      BY <1>0, <1>1, <1>2, <1>3, <1>4, <2>1, <2>2, <3>1 DEF Backed, Promised, Believes, IsHeld, Timely
  <2>3. CASE h.cmd = "renew"
    BY <1>0, <1>1, <1>2, <1>3, <1>4, <2>1, <2>3 DEF Backed, Promised, Believes, IsHeld, Timely
  <2>4. CASE h.cmd = "release"
    <3>1. h.phase # "held"
      BY <1>0, <2>4 DEF Shape
    <3> QED
      BY <1>0, <1>3, <1>4, <2>1, <2>4, <3>1 DEF Backed, Promised, Believes, IsHeld
  <2> QED
    BY <1>0, <2>2, <2>3, <2>4
<1>9. ASSUME NEW v \in Users \ {u} PROVE Backed(v)' /\ Shape(v)' /\ Timely(v)'
  BY <1>0, <1>2, <1>4, KeyOfOthers
<1> QED
  BY <1>5, <1>6, <1>7, <1>8, <1>9 DEF IInv

\* A command executed after its caller gave it up: it can lengthen u's own key, or delete a key
\* nobody relies on.
LEMMA StrayKeeps ==
  ASSUME IInv, NEW u \in Users, StrayExecuted(u)
  PROVE  IInv'
<1>0. /\ TypeOK /\ Backed(u) /\ Shape(u) /\ Timely(u)
      /\ now \in Int /\ u # None /\ user[u].expires \in Int
      /\ TTL > 0 /\ (\A d \in Durations : d > 0)
      /\ stray \in [Users -> SUBSET Given] /\ Spans \subseteq Nat
  BY Numbers DEF IInv, TypeOK, Given
<1>1. PICK c \in stray[u] :
        /\ stray' = [stray EXCEPT ![u] = @ \ {c}]
        /\ key' \in {key, Execute(u, c.cmd, c.d)} /\ now' = now /\ user' = user
  BY DEF StrayExecuted
<1>2. /\ c \in Given /\ c.cmd \in {"set", "renew", "release"} /\ c.d \in Nat
      /\ c.cmd = "set" => c.d > 0
      /\ c.cmd = "renew" => c.d > 0
  <2>1. c \in Given
    BY <1>0
  <2>2. c.cmd \in {"set", "renew", "release"} /\ c.d \in Spans
    BY <2>1 DEF Given
  <2>3. (c.cmd = "set" => c.d = TTL) /\ (c.cmd = "renew" => c.d \in Durations)
    BY <1>0 DEF Shape
  <2> QED
    BY <1>0, <2>1, <2>2, <2>3
<1>3. /\ key' \in [owner : Users \cup {None}, expires : Nat]
      /\ key'.owner # None => key'.expires > now
      /\ key' = key \/ key.owner \in {None, u}
      /\ c.cmd = "renew" /\ key.owner = u =>
           key'.owner = u /\ (key' = key \/ key'.expires = now + c.d)
  <2>1. CASE key' = key
    BY <1>0, <2>1 DEF TypeOK
  <2>2. CASE key' = Execute(u, c.cmd, c.d)
    BY <1>0, <1>2, <2>2, ExecuteIs
  <2> QED
    BY <1>1, <2>1, <2>2
<1>4. /\ stray' \in [Users -> SUBSET Given] /\ stray'[u] \subseteq stray[u]
      /\ \A v \in Users \ {u} : stray'[v] = stray[v]
  BY <1>0, <1>1
<1>5. TypeOK'
  BY <1>0, <1>1, <1>3, <1>4 DEF TypeOK, Given
<1>6. Shape(u)' /\ Timely(u)'
  BY <1>0, <1>1, <1>4 DEF Shape, Timely
<1>7. Backed(u)'
  <2>1. ~(user[u].cmd \in {"setOk", "renewOk"})
    BY <1>0, <1>1 DEF Timely
  <2>2. ASSUME Believes(u) PROVE key'.owner = u /\ key'.expires >= user[u].expires
    <3>1. /\ user[u].phase = "held" /\ key.owner = u /\ key.expires >= user[u].expires
          /\ c.cmd = "renew" /\ user[u].expires <= now + c.d
      BY <1>0, <2>2 DEF Believes, Backed, Timely
    <3> QED
      BY <1>3, <3>1
  <2> QED
    BY <1>1, <2>1, <2>2 DEF Backed, Believes, IsHeld
<1>8. ASSUME NEW v \in Users \ {u} PROVE Backed(v)' /\ Shape(v)' /\ Timely(v)'
  BY <1>1, <1>3, <1>4, KeyOfOthers
<1> QED
  BY <1>5, <1>6, <1>7, <1>8 DEF IInv

-----------------------------------------------------------------------------
\* u receives an answer, sends a command or gives one up; the key stays as it is.
LEMMA LocalKeeps ==
  ASSUME IInv, NEW u \in Users, NEW r \in Handles, Set(u, r), now' = now, key' = key,
         stray' \in [Users -> SUBSET Given],
         \A v \in Users \ {u} : stray'[v] = stray[v],
         user'[u] = r => Backed(u)' /\ Shape(u)' /\ Timely(u)'
  PROVE  IInv'
<1>1. TypeOK /\ user \in [Users -> Handles]
  BY DEF IInv, TypeOK
<1>2. user' \in [Users -> Handles] /\ user'[u] = r /\ \A v \in Users \ {u} : user'[v] = user[v]
  BY <1>1, SetOne
<1>3. TypeOK'
  BY <1>1, <1>2 DEF TypeOK, Given
<1>4. ASSUME NEW v \in Users \ {u} PROVE Backed(v)' /\ Shape(v)' /\ Timely(v)'
  BY <1>2, KeyOfOthers
<1> QED
  BY <1>2, <1>3, <1>4 DEF IInv

\* What the steps below use of the state.
LEMMA Facts ==
  ASSUME IInv, NEW u \in Users
  PROVE  /\ TypeOK /\ Backed(u) /\ Shape(u) /\ Timely(u)
         /\ user[u] \in Handles /\ stray \in [Users -> SUBSET Given]
         /\ stray[u] \in SUBSET Given
         /\ now \in Int /\ now \in 0..MaxTime /\ 0 <= now
         /\ TTL \in Nat /\ TTL \in Spans /\ Durations \subseteq Spans /\ Spans \subseteq Nat
         /\ user[u].at \in Nat /\ user[u].d \in Nat /\ user[u].expires \in Nat
         /\ \A c \in stray[u] : c.d \in Nat
<1>1. TypeOK /\ stray \in [Users -> SUBSET Given]
  BY DEF IInv, TypeOK, Given
<1>2. Spans \subseteq Nat /\ TTL \in Nat
  BY <1>1, Numbers
<1>3. \A c \in stray[u] : c.d \in Nat
  <2> SUFFICES ASSUME NEW c \in stray[u] PROVE c.d \in Nat
    OBVIOUS
  <2>1. c \in Given
    BY <1>1
  <2>2. c.d \in Spans
    BY <2>1 DEF Given
  <2> QED
    BY <1>2, <2>2
<1> QED
  BY <1>1, <1>2, <1>3, Numbers DEF IInv

\* An attempt that is refused or fails ends in "idle" or "over", with no command.
LEMMA NextAttemptIs ==
  ASSUME TypeOK, NEW u \in Users, NextAttempt(u)
  PROVE  \E r \in Handles : /\ Set(u, r) /\ r.cmd = "none" /\ r.at = 0
                             /\ r.phase \in {"over", user[u].phase}
<1>1. CASE user[u].attempt = RetryTimes
  BY <1>1, Resets DEF NextAttempt
<1>2. CASE user[u].attempt # RetryTimes
  <2>1. user[u].attempt + 1 \in 0..RetryTimes
    BY <1>2, Numbers, ConstantsAssumption
  <2>2. [Quiet(user[u]) EXCEPT !.attempt = user[u].attempt + 1] \in Handles
    BY <2>1, Resets DEF Handles
  <2>3. Quiet(user[u]) \in Handles
    BY Resets
  <2> QED
    BY <1>2, <2>2, <2>3, Resets DEF NextAttempt, Handles
<1> QED
  BY <1>1, <1>2

\* A step after which u has no command in progress, and relies on nothing new.
LEMMA QuietKeeps ==
  ASSUME IInv, NEW u \in Users, NEW r \in Handles, Set(u, r), now' = now, key' = key,
         r.cmd = "none", r.at = 0,
         r.phase = "held" => /\ user[u].phase = "held"
                             /\ r.expires = user[u].expires
                             /\ r.released = user[u].released,
         GivenUp(u) \/ stray' = stray
  PROVE  IInv'
<1> DEFINE h == user[u]
<1>0. /\ TypeOK /\ Backed(u) /\ Shape(u) /\ Timely(u)
      /\ h \in Handles /\ stray \in [Users -> SUBSET Given]
      /\ now \in Int /\ 0 <= now /\ h.at \in Nat /\ h.d \in Nat /\ h.expires \in Nat
  BY Facts
<1>1. /\ stray' \in [Users -> SUBSET Given]
      /\ \A v \in Users \ {u} : stray'[v] = stray[v]
      /\ \A c \in stray'[u] : c \in stray[u] \/
           /\ c.cmd = h.cmd /\ c.d = h.d /\ h.cmd \in {"set", "renew", "release"}
  BY <1>0, GivenUpIs
<1>2. ASSUME user'[u] = r PROVE Backed(u)' /\ Shape(u)' /\ Timely(u)'
  <2>1. Backed(u)'
    BY <1>0, <1>2 DEF Backed, Believes, IsHeld
  <2>2. Shape(u)'
    <3>1. \A c \in stray'[u] : /\ c.cmd = "set" => c.d = TTL
                               /\ c.cmd = "renew" => c.d \in Durations
      BY <1>0, <1>1 DEF Shape
    <3> QED
      BY <1>2, <3>1 DEF Shape
  <2>3. Timely(u)'
    <3>1. ASSUME r.phase = "held", NEW c \in stray'[u]
          PROVE  c.cmd = "renew" /\ r.expires <= now + c.d
      <4>1. CASE c \in stray[u]
        BY <1>0, <3>1, <4>1 DEF Timely
      <4>2. CASE c \notin stray[u]
        <5>1. c.cmd = "renew" /\ c.d = h.d /\ h.cmd = "renew"
          BY <1>0, <1>1, <3>1, <4>2 DEF Shape
        <5> QED
          BY <1>0, <3>1, <5>1 DEF Timely
      <4> QED
        BY <4>1, <4>2
    <3> QED
      BY <1>0, <1>2, <3>1 DEF Timely
  <2> QED
    BY <2>1, <2>2, <2>3
<1> QED
  BY <1>1, <1>2, LocalKeeps

\* Commands are sent.
LEMMA SendKeeps ==
  ASSUME IInv, NEW u \in Users,
         Acquire(u) \/ Release(u) \/ \E d \in Durations : Renew(u, d)
  PROVE  IInv'
<1> DEFINE h == user[u]
<1>0. /\ TypeOK /\ Backed(u) /\ Shape(u) /\ Timely(u)
      /\ h \in Handles /\ stray \in [Users -> SUBSET Given]
      /\ now \in Int /\ 0 <= now /\ now \in 0..MaxTime
      /\ h.at \in Nat /\ h.d \in Nat /\ h.expires \in Nat
      /\ TTL \in Spans /\ Durations \subseteq Spans /\ Spans \subseteq Nat
  BY Facts
<1>1. CASE Acquire(u)
  <2> DEFINE r == [h EXCEPT !.cmd = "set", !.at = now, !.d = TTL]
  <2>1. /\ r \in Handles /\ r.cmd = "set" /\ r.at = now /\ r.d = TTL
        /\ r.phase = h.phase /\ r.expires = h.expires /\ r.released = h.released
    BY <1>0 DEF Handles, Commands
  <2>2. Set(u, r) /\ now' = now /\ key' = key /\ stray' = stray /\ h.phase = "idle"
    BY <1>1 DEF Acquire
  <2> HIDE DEF r
  <2>3. ASSUME user'[u] = r PROVE Backed(u)' /\ Shape(u)' /\ Timely(u)'
    BY <1>0, <2>1, <2>2, <2>3 DEF Backed, Shape, Timely, Believes, IsHeld
  <2> QED
    BY <1>0, <2>1, <2>2, <2>3, LocalKeeps
<1>2. CASE Release(u)
  <2> DEFINE r == [h EXCEPT !.phase = "releasing", !.cmd = "release"]
  <2>1. /\ r \in Handles /\ r.cmd = "release" /\ r.at = h.at /\ r.d = h.d
        /\ r.phase = "releasing" /\ r.expires = h.expires /\ r.released = h.released
    BY <1>0 DEF Handles, Commands
  <2>2. Set(u, r) /\ now' = now /\ key' = key /\ stray' = stray
    BY <1>2 DEF Release
  <2> HIDE DEF r
  <2>3. ASSUME user'[u] = r PROVE Backed(u)' /\ Shape(u)' /\ Timely(u)'
    BY <1>0, <2>1, <2>2, <2>3 DEF Backed, Shape, Timely, Believes, IsHeld
  <2> QED
    BY <1>0, <2>1, <2>2, <2>3, LocalKeeps
<1>3. ASSUME NEW d \in Durations, Renew(u, d) PROVE IInv'
  <2> DEFINE r == [h EXCEPT !.cmd = "renew", !.at = now, !.d = d]
  <2>1. /\ r \in Handles /\ r.cmd = "renew" /\ r.at = now /\ r.d = d /\ d \in Nat
        /\ r.phase = h.phase /\ r.expires = h.expires /\ r.released = h.released
    BY <1>0 DEF Handles, Commands
  <2>2. /\ Set(u, r) /\ now' = now /\ key' = key /\ stray' = stray /\ h.phase = "held"
        /\ now + d >= h.expires
    BY <1>3 DEF Renew
  <2> HIDE DEF r
  <2>3. ASSUME user'[u] = r PROVE Backed(u)' /\ Shape(u)' /\ Timely(u)'
    BY <1>0, <2>1, <2>2, <2>3 DEF Backed, Shape, Timely, Believes, IsHeld
  <2> QED
    BY <1>0, <2>1, <2>2, <2>3, LocalKeeps
<1> QED
  BY <1>1, <1>2, <1>3

\* A command has succeeded and its answer makes, or extends, what u relies on.
LEMMA RelyKeeps ==
  ASSUME IInv, NEW u \in Users, NEW to \in Nat,
         Set(u, [Quiet(user[u]) EXCEPT !.phase = "held", !.expires = to]),
         now' = now, key' = key, stray' = stray, user[u].cmd \in {"setOk", "renewOk"},
         Promised(u, to)
  PROVE  IInv'
<1> DEFINE r == [Quiet(user[u]) EXCEPT !.phase = "held", !.expires = to]
<1>0. /\ TypeOK /\ Shape(u) /\ Timely(u) /\ now \in Int /\ 0 <= now
      /\ stray \in [Users -> SUBSET Given] /\ Quiet(user[u]) \in Handles
  BY Facts, Resets
<1>1. /\ r \in Handles /\ r.cmd = "none" /\ r.at = 0 /\ r.phase = "held" /\ r.expires = to
  BY <1>0, Resets DEF Handles
<1> HIDE DEF r
<1>2. stray[u] = {}
  BY <1>0 DEF Timely
<1>3. ASSUME user'[u] = r PROVE Backed(u)' /\ Shape(u)' /\ Timely(u)'
  BY <1>0, <1>1, <1>2, <1>3 DEF Backed, Shape, Timely, Believes, IsHeld, Promised
<1>4. Set(u, r)
  BY DEF r
<1> QED
  BY <1>0, <1>1, <1>3, <1>4, LocalKeeps

\* What a handle does with an answer, an error or at its death.
LEMMA AnswerKeeps ==
  ASSUME IInv, NEW u \in Users,
         \/ Acquired(u) \/ Refused(u) \/ AcquireFails(u) \/ RenewAnswered(u)
         \/ RenewFails(u) \/ ReleaseAnswered(u) \/ ReleaseFails(u) \/ Crash(u)
  PROVE  IInv'
<1> DEFINE h == user[u]  q == Quiet(h)
<1>0. /\ TypeOK /\ Backed(u) /\ Shape(u) /\ h \in Handles /\ now \in Int
      /\ h.at \in Nat /\ h.d \in Nat /\ TTL \in Nat
      /\ h.at + TTL \in Nat /\ h.at + h.d \in Nat
  <2>1. /\ TypeOK /\ Backed(u) /\ Shape(u) /\ h \in Handles /\ now \in Int
        /\ h.at \in Nat /\ h.d \in Nat /\ TTL \in Nat
    BY Facts
  <2> QED
    BY <2>1
<1>q. /\ q \in Handles /\ q.cmd = "none" /\ q.at = 0 /\ q.phase = h.phase
      /\ q.expires = h.expires /\ q.released = h.released
  BY <1>0, Resets
<1> HIDE DEF q
<1>1. CASE Acquired(u)
  <2>1. /\ Set(u, [q EXCEPT !.phase = "held", !.expires = h.at + TTL])
        /\ now' = now /\ key' = key /\ stray' = stray /\ h.cmd = "setOk"
    BY <1>1 DEF Acquired, q
  <2>2. Promised(u, h.at + TTL)
    BY <1>0, <2>1 DEF Backed
  <2> QED
    BY <1>0, <2>1, <2>2, RelyKeeps DEF q
<1>2. CASE (Refused(u) \/ AcquireFails(u)) /\ h.phase = "idle"
  <2>1. PICK r \in Handles : Set(u, r) /\ r.cmd = "none" /\ r.at = 0
                              /\ r.phase \in {"over", h.phase}
    BY <1>0, <1>2, NextAttemptIs DEF Refused, AcquireFails
  <2>2. now' = now /\ key' = key /\ (GivenUp(u) \/ stray' = stray)
    BY <1>2 DEF Refused, AcquireFails
  <2> QED
    BY <1>2, <2>1, <2>2, QuietKeeps
<1>3. CASE RenewAnswered(u) /\ h.cmd = "renewOk"
  <2>1. /\ Set(u, [q EXCEPT !.expires = h.at + h.d]) /\ h.phase = "held"
        /\ now' = now /\ key' = key /\ stray' = stray
    BY <1>3 DEF RenewAnswered, q
  <2>2. [q EXCEPT !.expires = h.at + h.d] = [q EXCEPT !.phase = "held", !.expires = h.at + h.d]
    BY <1>q, <2>1 DEF Handles
  <2>3. Promised(u, h.at + h.d)
    BY <1>0, <1>3 DEF Backed
  <2> QED
    BY <1>0, <1>3, <2>1, <2>2, <2>3, RelyKeeps DEF q
<1>4. CASE \/ RenewAnswered(u) /\ h.cmd = "refused"
           \/ RenewFails(u) \/ ReleaseFails(u)
  <2>1. Set(u, q) /\ now' = now /\ key' = key /\ (GivenUp(u) \/ stray' = stray)
    BY <1>4 DEF RenewAnswered, RenewFails, ReleaseFails, q
  <2> QED
    BY <1>q, <2>1, QuietKeeps
<1>5. CASE ReleaseAnswered(u)
  <2> DEFINE r == [q EXCEPT !.released = (h.cmd = "releaseOk")]
  <2>1. Set(u, r) /\ now' = now /\ key' = key /\ stray' = stray /\ h.phase = "releasing"
    BY <1>5 DEF ReleaseAnswered, q
  <2>2. (h.cmd = "releaseOk") \in BOOLEAN
    OBVIOUS
  <2>3. r \in Handles /\ r.cmd = "none" /\ r.at = 0 /\ r.phase = h.phase
    BY <1>q, <2>2 DEF Handles
  <2> HIDE DEF r
  <2> QED
    BY <2>1, <2>3, QuietKeeps
<1>6. CASE Crash(u)
  <2> DEFINE r == [Idle EXCEPT !.phase = "over"]
  <2>1. Set(u, r) /\ now' = now /\ key' = key /\ GivenUp(u)
    BY <1>6 DEF Crash
  <2>2. r \in Handles /\ r.cmd = "none" /\ r.at = 0 /\ r.phase = "over"
    BY <1>0, Resets
  <2> HIDE DEF r
  <2> QED
    BY <2>1, <2>2, QuietKeeps
<1> QED
  BY <1>1, <1>2, <1>3, <1>4, <1>5, <1>6 DEF Refused, AcquireFails, RenewAnswered

-----------------------------------------------------------------------------
\* Every step of the lock keeps the invariant.
LEMMA StepInv == IInv /\ [Next]_vars => IInv'
<1> SUFFICES ASSUME IInv, [Next]_vars PROVE IInv'
  OBVIOUS
<1>1. CASE Tick
  BY <1>1, Passing
<1>2. ASSUME NEW u \in Users, Step(u) PROVE IInv'
  BY <1>2, ExecutedKeeps, StrayKeeps, SendKeeps, AnswerKeeps DEF Step
<1>3. CASE UNCHANGED vars
  <2>1. TypeOK'
    BY <1>3 DEF vars, IInv, TypeOK
  <2>2. ASSUME NEW u \in Users PROVE Backed(u)' /\ Shape(u)' /\ Timely(u)'
    BY <1>3 DEF vars, IInv, Backed, Shape, Timely, Promised, Believes, IsHeld
  <2> QED
    BY <2>1, <2>2 DEF IInv
<1> QED
  BY <1>1, <1>2, <1>3 DEF Next

\* The invariant holds in every state of the lock.
LEMMA Inductive == Spec => []IInv
<1>1. Init => IInv
  <2> SUFFICES ASSUME Init PROVE IInv
    OBVIOUS
  <2>1. TypeOK
    <3>1. Idle \in Handles
      BY ConstantsAssumption DEF Idle, Handles, Commands, Spans
    <3>2. key \in [owner : Users \cup {None}, expires : Nat] /\ key.owner = None
      BY DEF Init, Free
    <3> QED
      BY <3>1, <3>2, ConstantsAssumption DEF Init, TypeOK
  <2>2. ASSUME NEW u \in Users PROVE Backed(u) /\ Shape(u) /\ Timely(u)
    BY DEF Init, Idle, Backed, Shape, Timely, Believes, IsHeld
  <2> QED
    BY <2>1, <2>2 DEF IInv
<1> QED
  BY <1>1, StepInv, PTL DEF Spec

\* Every variable of the lock keeps its type, and Redis holds no expired key.
THEOREM TypeCorrect == Spec => []TypeOK
<1>1. IInv => TypeOK
  BY DEF IInv
<1> QED
  BY <1>1, Inductive, PTL

\* Who may rely on the lock owns the key in Redis, for at least as long as isHeld()
\* will go on saying so.
THEOREM BeliefBacked == Spec => []BeliefIsBacked
<1>1. IInv => BeliefIsBacked
  BY DEF IInv, Backed, BeliefIsBacked
<1> QED
  BY <1>1, Inductive, PTL
-----------------------------------------------------------------------------
\* Whoever believes owns the key, and the key has one owner.
LEMMA OneBeliever ==
  ASSUME IInv, NEW u \in Users, NEW v \in Users, Believes(u), Believes(v)
  PROVE  u = v
  BY DEF IInv, Backed

HolderOK ==
  /\ \A u \in Users : Believes(u) => Holder = u
  /\ (\A u \in Users : ~Believes(u)) => Holder = None

\* Holder, which is chosen, is the one who believes, or None.
LEMMA HolderIs == IInv => HolderOK
<1> SUFFICES ASSUME IInv PROVE HolderOK
  OBVIOUS
<1>1. ASSUME NEW u \in Users, Believes(u) PROVE Holder = u
  <2>1. Holder \in Users /\ Believes(Holder)
    BY <1>1 DEF Holder
  <2> QED
    BY <1>1, <2>1, OneBeliever
<1>2. ASSUME \A u \in Users : ~Believes(u) PROVE Holder = None
  BY <1>2 DEF Holder
<1> QED
  BY <1>1, <1>2 DEF HolderOK

\* A step of u is no step of anybody else's, and takes no time.
LEMMA StepIsOwn ==
  ASSUME user \in [Users -> Handles], NEW u \in Users, Step(u)
  PROVE  now' = now /\ \A v \in Users \ {u} : user'[v] = user[v]
<1>1. CASE Executed(u) \/ StrayExecuted(u) \/ Acquire(u) \/ Acquired(u)
  BY <1>1 DEF Executed, StrayExecuted, Acquire, Acquired, Set
<1>2. CASE Refused(u) \/ AcquireFails(u)
  BY <1>2 DEF Refused, AcquireFails, NextAttempt, Set
<1>3. CASE (\E d \in Durations : Renew(u, d)) \/ RenewAnswered(u) \/ RenewFails(u)
  BY <1>3 DEF Renew, RenewAnswered, RenewFails, Set
<1>4. CASE Release(u) \/ ReleaseAnswered(u) \/ ReleaseFails(u) \/ Crash(u)
  BY <1>4 DEF Release, ReleaseAnswered, ReleaseFails, Crash, Set
<1> QED
  BY <1>1, <1>2, <1>3, <1>4 DEF Step

\* The others go on relying on what they did; who begins to rely on the lock is alone.
LEMMA StepOfOne ==
  ASSUME IInv, IInv', NEW u \in Users, Step(u)
  PROVE  /\ \A v \in Users \ {u} : Believes(v)' <=> Believes(v)
         /\ Believes(u)' => \A v \in Users \ {u} : ~Believes(v)
<1>1. now' = now /\ \A v \in Users \ {u} : user'[v] = user[v]
  BY StepIsOwn DEF IInv, TypeOK
<1>2. ASSUME NEW v \in Users \ {u} PROVE Believes(v)' <=> Believes(v)
  BY <1>1 DEF Believes, IsHeld
<1>3. ASSUME NEW v \in Users \ {u}, Believes(u)', Believes(v)' PROVE FALSE
  BY <1>3 DEF IInv, Backed
<1> QED
  BY <1>2, <1>3

\* The lock implements its contract: at any time at most one user relies on it, and it
\* passes from one to another through nobody's hands.
THEOREM Implements == Spec => ImplementsLease
<1>1. Init => Contract!Init
  BY DEF Init, Idle, Holder, Believes, IsHeld, Contract!Init
<1>2. HolderOK /\ HolderOK' /\ IInv /\ IInv' /\ [Next]_vars => [Contract!Next]_Holder
  <2> SUFFICES ASSUME HolderOK, HolderOK', IInv, IInv', [Next]_vars
               PROVE  Contract!Next \/ Holder' = Holder
    OBVIOUS
  <2>1. CASE \A u \in Users : Believes(u)' => Believes(u)
    BY <2>1 DEF HolderOK, Contract!Next, Contract!Lose
  <2>2. ASSUME NEW u \in Users, Believes(u)', ~Believes(u) PROVE Contract!Next
    <3>0. now \in Int /\ user[u].expires \in Int
      BY Facts
    <3>1. ~Tick /\ ~UNCHANGED vars
      BY <2>2, <3>0 DEF Tick, vars, Believes, IsHeld
    <3>2. PICK v \in Users : Step(v)
      BY <3>1 DEF Next
    <3>3. v = u
      BY <2>2, <3>2, StepOfOne
    <3>4. Holder = None /\ Holder' = u
      BY <2>2, <3>2, <3>3, StepOfOne DEF HolderOK
    <3> QED
      BY <3>4 DEF Contract!Next, Contract!Obtain
  <2> QED
    BY <2>1, <2>2
<1> QED
  BY <1>1, <1>2, Inductive, HolderIs, PTL DEF Spec, ImplementsLease, Contract!Spec

-----------------------------------------------------------------------------
(* Transactions that are tried again.                                      *)

\* Status and fate of a transaction agree, but for one that is active.
Agrees(t) ==
  /\ status[t] \in {"none", "pending"} => fate[t] = "open"
  /\ status[t] = "committed" => fate[t] = "committed"
  /\ status[t] = "aborted" => fate[t] = "gone" /\ t \in closing

\* The transaction of the attempt that a call is in.
PresentOf(c) ==
  /\ calls[c] = "idle" => status[Now(c)] = "none"
  /\ calls[c] \in {"idle", "begin", "working", "committing"} => failure[c] = "none"
  /\ calls[c] = "begin" => status[Now(c)] \in {"pending", "aborted"}
  /\ calls[c] \in {"begin", "working"} =>
       status[Now(c)] # "none" /\ (status[Now(c)] = "active" => fate[Now(c)] = "open")
  /\ calls[c] = "working" => status[Now(c)] # "pending"
  /\ calls[c] = "committing" => status[Now(c)] = "active" /\ fate[Now(c)] = "open"
  /\ calls[c] \in {"aborting", "ending", "done"} =>
       IF failure[c] = "unknown" THEN status[Now(c)] = "active" /\ fate[Now(c)] # "open"
       ELSE status[Now(c)] # "none" /\ (status[Now(c)] = "active" => fate[Now(c)] # "committed")
  /\ calls[c] = "aborting" => failure[c] # "none"
  /\ calls[c] = "pausing" =>
       status[Now(c)] = "aborted" /\ failure[c] = "transient" /\ attempt[c] < MaxRetries
  /\ calls[c] \in {"ending", "done"} /\ failure[c] # "unknown" =>
       status[Now(c)] \in {"committed", "aborted"}
  /\ answers[c] = "resolved" => calls[c] \in {"ending", "done"} /\ status[Now(c)] = "committed"

\* Those of the attempts before have been aborted, those of later ones are not begun.
AttemptsInOrder ==
  \A c \in Works, n \in Attempts :
    /\ n < attempt[c] => status[<<c, n>>] = "aborted"
    /\ n > attempt[c] => status[<<c, n>>] = "none"

Listed == \A t \in active : t = Now(t[1]) /\ calls[t[1]] \notin {"idle", "done"}

ManagerInv ==
  /\ ManagerTypeOK /\ (\A t \in Transactions : Agrees(t)) /\ (\A c \in Works : PresentOf(c))
  /\ AttemptsInOrder /\ Listed

\* A transaction is a call of withTransaction and the number of its attempt.
LEMMA TransactionIs ==
  ASSUME ManagerTypeOK
  PROVE  /\ \A c \in Works : Now(c) \in Transactions /\ Now(c)[1] = c /\ Now(c)[2] = attempt[c]
                             /\ attempt[c] \in Nat
         /\ \A t \in Transactions : t[1] \in Works /\ t[2] \in Attempts /\ t = <<t[1], t[2]>>
         /\ \A c \in Works, n \in Attempts : <<c, n>> \in Transactions
BY ManagerAssumption DEF ManagerTypeOK, Transactions, Now, Attempts

\* The invariant says what withTransaction promises.
LEMMA ManagerSound == ManagerInv => ManagerCorrect
<1> SUFFICES ASSUME ManagerInv PROVE ManagerCorrect
  OBVIOUS
<1>1. /\ \A c \in Works : Now(c) \in Transactions /\ Now(c)[1] = c /\ Now(c)[2] = attempt[c]
                             /\ attempt[c] \in Nat /\ attempt[c] \in Attempts
      /\ \A t \in Transactions : t[1] \in Works /\ t[2] \in Attempts /\ t = <<t[1], t[2]>>
      /\ \A c \in Works, n \in Attempts : <<c, n>> \in Transactions /\ n \in Nat
  BY TransactionIs, ManagerAssumption DEF ManagerInv, ManagerTypeOK, Attempts
<1>2. AppliedOnce
  <2> SUFFICES ASSUME NEW c \in Works
               PROVE  /\ Cardinality(Committed(c)) <= 1 /\ Committed(c) \subseteq {attempt[c]}
                      /\ answers[c] = "resolved" => attempt[c] \in Committed(c)
    BY DEF AppliedOnce
  <2>1. Committed(c) \subseteq {attempt[c]}
    <3> SUFFICES ASSUME NEW n \in Attempts, fate[<<c, n>>] = "committed", n # attempt[c] PROVE FALSE
      BY DEF Committed
    <3>1. status[<<c, n>>] \in {"aborted", "none"}
      BY <1>1 DEF ManagerInv, AttemptsInOrder
    <3> QED BY <1>1, <3>1 DEF ManagerInv, Agrees
  <2>2. Cardinality(Committed(c)) <= 1
    <3>1. IsFiniteSet({attempt[c]}) /\ Cardinality({attempt[c]}) = 1
      BY FS_Singleton
    <3>2. Cardinality(Committed(c)) <= Cardinality({attempt[c]})
      BY <2>1, <3>1, FS_Subset
    <3> QED BY <3>1, <3>2
  <2>3. answers[c] = "resolved" => attempt[c] \in Committed(c)
    BY <1>1 DEF Committed, ManagerInv, PresentOf, Agrees, Now
  <2> QED BY <2>1, <2>2, <2>3
<1>3. NothingLeftActive
  <2> SUFFICES ASSUME NEW t \in Transactions
               PROVE  /\ t \in active => attempt[t[1]] = t[2] /\ calls[t[1]] \notin {"idle", "done"}
                      /\ calls[t[1]] = "done" \/ t[2] < attempt[t[1]]
                           => status[t] = "none" \/ fate[t] # "open"
    BY DEF NothingLeftActive
  <2>1. t \in active => attempt[t[1]] = t[2] /\ calls[t[1]] \notin {"idle", "done"}
    BY <1>1 DEF ManagerInv, Listed
  <2>2. CASE t[2] < attempt[t[1]]
    BY <1>1, <2>1, <2>2 DEF ManagerInv, AttemptsInOrder, Agrees
  <2>3. CASE t[2] > attempt[t[1]]
    BY <1>1, <2>1, <2>3 DEF ManagerInv, AttemptsInOrder, Agrees
  <2>4. CASE t[2] = attempt[t[1]]
    <3>1. t = Now(t[1])
      BY <1>1, <2>4 DEF Now
    <3> QED BY <1>1, <2>1, <2>4, <3>1 DEF ManagerInv, PresentOf, Agrees
  <2> QED BY <1>1, <2>2, <2>3, <2>4
<1> QED BY <1>2, <1>3 DEF ManagerInv, ManagerCorrect

\* Before any call nothing is open.
LEMMA ManagerFirst == ManagerInit => ManagerInv
BY ManagerAssumption
   DEF ManagerInit, ManagerInv, ManagerTypeOK, Agrees, PresentOf, AttemptsInOrder, Listed,
       Transactions, Attempts, Now

\* A step of one call, on its current attempt, disturbs no other call.
LEMMA OneCallMoves ==
  ASSUME ManagerInv, ManagerTypeOK', NEW c \in Works, attempt' = attempt,
         \A d \in Works \ {c} :
           calls'[d] = calls[d] /\ failure'[d] = failure[d] /\ answers'[d] = answers[d],
         \A t \in Transactions \ {Now(c)} : status'[t] = status[t] /\ fate'[t] = fate[t],
         closing \subseteq closing', Agrees(Now(c))', PresentOf(c)', Listed'
  PROVE  ManagerInv'
<1>1. /\ \A d \in Works : Now(d) \in Transactions /\ Now(d)[1] = d /\ Now(d)[2] = attempt[d]
                           /\ attempt[d] \in Nat
      /\ \A d \in Works : Now(d)' = Now(d)
      /\ \A d \in Works, n \in Attempts : <<d, n>> \in Transactions /\ n \in Nat
  BY TransactionIs, ManagerAssumption DEF ManagerInv, ManagerTypeOK, Attempts, Now
<1>2. ASSUME NEW t \in Transactions PROVE Agrees(t)'
  BY <1>1 DEF ManagerInv, Agrees
<1>3. ASSUME NEW d \in Works PROVE PresentOf(d)'
  <2>1. CASE d = c
    BY <2>1
  <2>2. CASE d # c
    <3>1. Now(d) # Now(c)
      BY <1>1, <2>2
    <3> QED BY <1>1, <2>2, <3>1 DEF ManagerInv, PresentOf
  <2> QED BY <2>1, <2>2
<1>4. AttemptsInOrder'
  <2> SUFFICES ASSUME NEW d \in Works, NEW n \in Attempts
               PROVE  /\ n < attempt[d] => status'[<<d, n>>] = "aborted"
                      /\ n > attempt[d] => status'[<<d, n>>] = "none"
    BY DEF AttemptsInOrder
  <2>1. n # attempt[d] => <<d, n>> # Now(c)
    BY DEF Now
  <2> QED BY <1>1, <2>1 DEF ManagerInv, AttemptsInOrder
<1> QED BY <1>2, <1>3, <1>4 DEF ManagerInv

\* abort() ends a transaction that is pending or active, unless its commit is unknown, and nothing
\* else.
LEMMA AbortEffect ==
  ASSUME ManagerInv, NEW t \in Transactions, AbortOf(t)
  PROVE  /\ closing' \subseteq Transactions /\ closing \subseteq closing'
         /\ \/ status' = status /\ fate' = fate
               /\ (t \in Unknown \/ status[t] \notin {"pending", "active"})
            \/ /\ t = Now(t[1]) /\ t \notin Unknown /\ status[t] \in {"pending", "active"}
               /\ t \in closing'
               /\ status' = [status EXCEPT ![t] = "aborted"]
               /\ fate' = [fate EXCEPT ![t] = IF @ = "open" THEN "gone" ELSE @]
<1>1. /\ t[1] \in Works /\ t[2] \in Attempts /\ t = <<t[1], t[2]>>
      /\ attempt[t[1]] \in Nat /\ t[2] \in Nat
  BY TransactionIs, ManagerAssumption DEF ManagerInv, ManagerTypeOK, Attempts
<1>2. status[t] \in {"pending", "active"} => t[2] = attempt[t[1]]
  BY <1>1 DEF ManagerInv, AttemptsInOrder
<1>3. status[t] \in {"pending", "active"} => t = Now(t[1])
  BY <1>1, <1>2 DEF Now
<1> QED BY <1>3 DEF AbortOf, ManagerInv, ManagerTypeOK

\* An abort by the timeout or by abortAll(), whatever the call of that transaction is doing.
LEMMA AbortKeeps ==
  ASSUME ManagerInv, NEW t \in Transactions, AbortOf(t), Abortable(t),
         UNCHANGED <<calls, attempt, failure, answers>>, active' \subseteq active,
         sweeps' \in [AbortAlls -> SUBSET Transactions]
  PROVE  ManagerInv'
<1>1. /\ t[1] \in Works /\ t[2] \in Attempts /\ t = <<t[1], t[2]>>
      /\ \A d \in Works : Now(d) \in Transactions /\ Now(d)[1] = d /\ Now(d)' = Now(d)
                          /\ Now(d)[2] = attempt[d]
  BY TransactionIs, ManagerAssumption DEF ManagerInv, Now
<1>2. Listed'
  BY <1>1 DEF ManagerInv, ManagerTypeOK, Listed, Now
<1>3. CASE status' = status /\ fate' = fate
  <2>1. ManagerTypeOK'
    BY <1>3, AbortEffect DEF ManagerInv, ManagerTypeOK
  <2>2. PresentOf(t[1])' /\ Agrees(Now(t[1]))'
    BY <1>1, <1>3, AbortEffect DEF ManagerInv, PresentOf, Agrees, Now
  <2> QED BY <1>1, <1>2, <1>3, <2>1, <2>2, AbortEffect, OneCallMoves
<1>4. CASE /\ t = Now(t[1]) /\ t \notin Unknown /\ status[t] \in {"pending", "active"}
           /\ t \in closing'
           /\ status' = [status EXCEPT ![t] = "aborted"]
           /\ fate' = [fate EXCEPT ![t] = IF @ = "open" THEN "gone" ELSE @]
  <2>1. ManagerTypeOK'
    BY <1>4, AbortEffect DEF ManagerInv, ManagerTypeOK
  <2>2. /\ status'[t] = "aborted" /\ fate'[t] # "open"
        /\ fate'[t] = "committed" => fate[t] = "committed"
        /\ fate[t] \in {"open", "committed", "gone"}
    BY <1>4 DEF ManagerInv, ManagerTypeOK
  <2>3. failure[t[1]] # "unknown" /\ calls[t[1]] # "committing"
    BY <1>1, <1>4 DEF Unknown, Now, Abortable
  <2>3a. /\ t = Now(t[1]) /\ Now(t[1])' = t /\ PresentOf(t[1])
         /\ calls[t[1]] \in {"idle", "begin", "working", "committing", "aborting", "pausing",
                              "ending", "done"}
    BY <1>1, <1>4 DEF ManagerInv, ManagerTypeOK
  <2>3b. fate'[t] # "committed"
    BY <1>4, <2>2, <2>3, <2>3a DEF ManagerInv, PresentOf, Agrees
  <2>4. PresentOf(t[1])'
    BY <1>4, <2>2, <2>3, <2>3a, <2>3b DEF PresentOf
  <2>5. Agrees(Now(t[1]))'
    BY <1>4, <2>2, <2>3a, <2>3b, <2>1 DEF Agrees, ManagerTypeOK
  <2>6. \A u \in Transactions \ {Now(t[1])} : status'[u] = status[u] /\ fate'[u] = fate[u]
    BY <1>4 DEF ManagerInv, ManagerTypeOK
  <2> QED BY <1>1, <1>2, <2>1, <2>4, <2>5, <2>6, AbortEffect, OneCallMoves
<1> QED BY <1>3, <1>4, AbortEffect

\* The steps of withTransaction up to its catch.
LEMMA CallKeeps ==
  ASSUME ManagerInv, NEW c \in Works,
         \/ StartSession(c) \/ Begin(c) \/ CallbackCommits(c) \/ CallbackFails(c)
         \/ CallbackReturns(c) \/ WorkCommits(c) \/ WorkCommitFails(c) \/ Catches(c)
  PROVE  ManagerInv'
<1>1. /\ Now(c) \in Transactions /\ Now(c)[1] = c /\ Now(c)[2] = attempt[c]
      /\ \A d \in Works : Now(d) \in Transactions /\ Now(d)[1] = d
      /\ ManagerTypeOK /\ PresentOf(c) /\ Agrees(Now(c)) /\ Listed
  BY TransactionIs DEF ManagerInv
<1>2. ASSUME attempt' = attempt,
             calls' \in [Works -> {"idle", "begin", "working", "committing", "aborting",
                                    "pausing", "ending", "done"}],
             calls'[c] \notin {"idle", "done"},
             \A d \in Works \ {c} : calls'[d] = calls[d],
             active' \subseteq active \cup {Now(c)}
      PROVE  Listed'
  <2> SUFFICES ASSUME NEW t \in active'
               PROVE  t = Now(t[1])' /\ calls'[t[1]] \notin {"idle", "done"}
    BY DEF Listed
  <2>1. CASE t = Now(c)
    BY <1>1, <1>2, <2>1 DEF Now
  <2>2. CASE t \in active /\ t # Now(c)
    <3>1. t = Now(t[1]) /\ calls[t[1]] \notin {"idle", "done"} /\ t[1] \in Works
      BY <1>1, <2>2, TransactionIs DEF Listed, ManagerTypeOK
    <3> QED BY <1>2, <2>2, <3>1 DEF Now
  <2> QED BY <1>2, <2>1, <2>2
<1>3. CASE StartSession(c)
  <2>1. ManagerTypeOK'
    BY <1>1, <1>3 DEF StartSession, Move, ManagerTypeOK
  <2>2. PresentOf(c)' /\ Agrees(Now(c))'
    BY <1>1, <1>3 DEF StartSession, Move, ManagerTypeOK, PresentOf, Agrees, Now
  <2>3. Listed'
    BY <1>1, <1>2, <1>3, <2>1 DEF StartSession, Move, ManagerTypeOK
  <2> QED BY <1>3, <2>1, <2>2, <2>3, OneCallMoves DEF StartSession, Move, ManagerInv, ManagerTypeOK
<1>4. CASE Begin(c)
  <2>1. ManagerTypeOK'
    BY <1>1, <1>4 DEF Begin, Move, Fails, ManagerTypeOK
  <2>2. PresentOf(c)' /\ Agrees(Now(c))'
    <3>1. CASE Now(c) \in closing
      BY <1>1, <1>4, <3>1 DEF Begin, Fails, Move, ManagerTypeOK, PresentOf, Agrees, Now
    <3>2. CASE Now(c) \notin closing
      BY <1>1, <1>4, <3>2 DEF Begin, Move, ManagerTypeOK, PresentOf, Agrees, Now
    <3> QED BY <3>1, <3>2
  <2>3. Listed'
    BY <1>1, <1>2, <1>4, <2>1 DEF Begin, Move, Fails, ManagerTypeOK
  <2> QED BY <1>4, <2>1, <2>2, <2>3, OneCallMoves DEF Begin, Move, Fails, ManagerInv, ManagerTypeOK
<1>5. CASE CallbackCommits(c)
  <2>1. ManagerTypeOK'
    BY <1>1, <1>5 DEF CallbackCommits, ManagerTypeOK
  <2>2. PresentOf(c)' /\ Agrees(Now(c))'
    BY <1>1, <1>5 DEF CallbackCommits, ManagerTypeOK, PresentOf, Agrees, Now
  <2>3. Listed'
    BY <1>1, <1>2, <1>5, <2>1 DEF CallbackCommits, ManagerTypeOK
  <2> QED BY <1>5, <2>1, <2>2, <2>3, OneCallMoves DEF CallbackCommits, ManagerInv, ManagerTypeOK
<1>6. CASE CallbackFails(c)
  <2>1. ManagerTypeOK'
    BY <1>1, <1>6 DEF CallbackFails, Move, Fails, ManagerTypeOK
  <2>2. PresentOf(c)' /\ Agrees(Now(c))'
    BY <1>1, <1>6 DEF CallbackFails, Move, Fails, ManagerTypeOK, PresentOf, Agrees, Now
  <2>3. Listed'
    BY <1>1, <1>2, <1>6, <2>1 DEF CallbackFails, Move, Fails, ManagerTypeOK
  <2> QED BY <1>6, <2>1, <2>2, <2>3, OneCallMoves
          DEF CallbackFails, Move, Fails, ManagerInv, ManagerTypeOK
<1>7. CASE CallbackReturns(c)
  <2>1. ManagerTypeOK'
    BY <1>1, <1>7 DEF CallbackReturns, Move, Fails, ManagerTypeOK
  <2>2. PresentOf(c)' /\ Agrees(Now(c))'
    BY <1>1, <1>7 DEF CallbackReturns, Move, Fails, ManagerTypeOK, PresentOf, Agrees, Now
  <2>3. Listed'
    BY <1>1, <1>2, <1>7, <2>1 DEF CallbackReturns, Move, Fails, ManagerTypeOK
  <2> QED BY <1>7, <2>1, <2>2, <2>3, OneCallMoves
          DEF CallbackReturns, Move, Fails, ManagerInv, ManagerTypeOK
<1>8. CASE WorkCommits(c)
  <2>1. ManagerTypeOK'
    BY <1>1, <1>8 DEF WorkCommits, Move, ManagerTypeOK
  <2>2. PresentOf(c)' /\ Agrees(Now(c))'
    BY <1>1, <1>8 DEF WorkCommits, Move, ManagerTypeOK, PresentOf, Agrees, Now
  <2>3. Listed'
    BY <1>1, <1>2, <1>8, <2>1 DEF WorkCommits, Move, ManagerTypeOK
  <2> QED BY <1>8, <2>1, <2>2, <2>3, OneCallMoves DEF WorkCommits, Move, ManagerInv, ManagerTypeOK
<1>9. CASE WorkCommitFails(c)
  <2>1. ManagerTypeOK'
    BY <1>1, <1>9 DEF WorkCommitFails, Move, Fails, ManagerTypeOK
  <2>2. PresentOf(c)' /\ Agrees(Now(c))'
    BY <1>1, <1>9 DEF WorkCommitFails, Move, Fails, ManagerTypeOK, PresentOf, Agrees, Now
  <2>3. Listed'
    BY <1>1, <1>2, <1>9, <2>1 DEF WorkCommitFails, Move, Fails, ManagerTypeOK
  <2> QED BY <1>9, <2>1, <2>2, <2>3, OneCallMoves
          DEF WorkCommitFails, Move, Fails, ManagerInv, ManagerTypeOK
<1>10. CASE Catches(c)
  <2>1. /\ closing' \subseteq Transactions /\ closing \subseteq closing'
        /\ \/ /\ status' = status /\ fate' = fate
              /\ \/ status[Now(c)] = "committed" \/ Now(c) \in Unknown
                 \/ status[Now(c)] \notin {"pending", "active"}
           \/ /\ Now(c) \notin Unknown /\ status[Now(c)] \in {"pending", "active"}
              /\ Now(c) \in closing'
              /\ status' = [status EXCEPT ![Now(c)] = "aborted"]
              /\ fate' = [fate EXCEPT ![Now(c)] = IF @ = "open" THEN "gone" ELSE @]
    <3>1. CASE status[Now(c)] = "committed"
      BY <1>1, <1>10, <3>1 DEF Catches, ManagerTypeOK
    <3>2. CASE status[Now(c)] # "committed"
      BY <1>1, <1>10, <3>2, AbortEffect DEF Catches
    <3> QED BY <3>1, <3>2
  <2>2. Now(c) \in Unknown <=> failure[c] = "unknown"
    BY <1>1 DEF Unknown
  <2>3. /\ calls[c] = "aborting"
        /\ UNCHANGED <<attempt, failure, active, sweeps>>
        /\ \/ /\ status[Now(c)] # "committed" /\ failure[c] = "transient" /\ attempt[c] < MaxRetries
              /\ calls' = [calls EXCEPT ![c] = "pausing"] /\ answers' = answers
           \/ /\ status[Now(c)] = "committed" \/ failure[c] # "transient" \/ ~(attempt[c] < MaxRetries)
              /\ calls' = [calls EXCEPT ![c] = "ending"]
              /\ answers' = [answers EXCEPT ![c] = "rejected"]
    BY <1>10 DEF Catches, Move, Retriable
  <2>4. ManagerTypeOK'
    BY <1>1, <2>1, <2>3 DEF ManagerTypeOK
  <2>5. PresentOf(c)' /\ Agrees(Now(c))'
    <3>1. CASE /\ status' = status /\ fate' = fate
               /\ \/ status[Now(c)] = "committed" \/ Now(c) \in Unknown
                  \/ status[Now(c)] \notin {"pending", "active"}
      BY <1>1, <2>1, <2>2, <2>3, <3>1 DEF ManagerTypeOK, PresentOf, Agrees, Now
    <3>2. CASE /\ Now(c) \notin Unknown /\ status[Now(c)] \in {"pending", "active"}
               /\ Now(c) \in closing'
               /\ status' = [status EXCEPT ![Now(c)] = "aborted"]
               /\ fate' = [fate EXCEPT ![Now(c)] = IF @ = "open" THEN "gone" ELSE @]
      BY <1>1, <2>2, <2>3, <3>2 DEF ManagerTypeOK, PresentOf, Agrees, Now
    <3> QED BY <2>1, <3>1, <3>2
  <2>6. Listed'
    BY <1>1, <1>2, <2>3, <2>4 DEF ManagerTypeOK
  <2> QED BY <2>1, <2>3, <2>4, <2>5, <2>6, OneCallMoves DEF ManagerInv, ManagerTypeOK
<1> QED BY <1>3, <1>4, <1>5, <1>6, <1>7, <1>8, <1>9, <1>10

\* withTransaction ends an attempt, and tries again or returns.
LEMMA EndKeeps == ASSUME ManagerInv, NEW c \in Works, WorkEnds(c) PROVE ManagerInv'
<1>1. /\ \A d \in Works : Now(d) \in Transactions /\ Now(d)[1] = d /\ Now(d)[2] = attempt[d]
                           /\ attempt[d] \in Nat
      /\ \A d \in Works, n \in Attempts : <<d, n>> \in Transactions /\ n \in Nat
      /\ ManagerTypeOK /\ PresentOf(c) /\ Listed
      /\ \A t \in Transactions : t[1] \in Works /\ t = <<t[1], t[2]>>
  BY TransactionIs, ManagerAssumption DEF ManagerInv, ManagerTypeOK, Attempts
<1>2. /\ active' = active \ {Now(c)} /\ UNCHANGED <<answers, status, fate, sweeps>>
      /\ \/ calls[c] = "ending" /\ calls' = [calls EXCEPT ![c] = "done"]
            /\ attempt' = attempt /\ failure' = failure
         \/ calls[c] = "pausing" /\ calls' = [calls EXCEPT ![c] = "idle"]
            /\ attempt' = [attempt EXCEPT ![c] = @ + 1] /\ failure' = [failure EXCEPT ![c] = "none"]
  BY DEF WorkEnds, Move
<1>3. ManagerTypeOK'
  <2>1. calls[c] = "pausing" => attempt[c] + 1 \in Attempts
    BY <1>1, ManagerAssumption DEF PresentOf, Attempts
  <2>2. /\ closing' \subseteq Transactions /\ active' \subseteq Transactions
        /\ sweeps' \in [AbortAlls -> SUBSET Transactions]
    BY <1>1, <1>2 DEF WorkEnds, ManagerTypeOK
  <2>3. attempt' \in [Works -> Attempts]
    BY <1>1, <1>2, <2>1 DEF ManagerTypeOK
  <2>3a. failure' \in [Works -> {"none", "transient", "unknown", "other"}]
    BY <1>1, <1>2 DEF ManagerTypeOK
  <2>4. calls' \in [Works -> {"idle", "begin", "working", "committing", "aborting", "pausing",
                              "ending", "done"}]
    BY <1>1, <1>2 DEF ManagerTypeOK
  <2> QED BY <1>1, <1>2, <2>2, <2>3, <2>3a, <2>4 DEF ManagerTypeOK
<1>4. \A d \in Works \ {c} : calls'[d] = calls[d] /\ attempt'[d] = attempt[d]
                              /\ failure'[d] = failure[d] /\ Now(d)' = Now(d)
  BY <1>1, <1>2 DEF ManagerTypeOK, Now
<1>5. Listed'
  <2> SUFFICES ASSUME NEW t \in active, t # Now(c)
               PROVE  t = Now(t[1])' /\ calls'[t[1]] \notin {"idle", "done"}
    BY <1>2 DEF Listed
  <2>1. t = Now(t[1]) /\ calls[t[1]] \notin {"idle", "done"} /\ t[1] \in Works /\ t[1] # c
    BY <1>1 DEF Listed, ManagerTypeOK
  <2> QED BY <1>4, <2>1
<1>6. AttemptsInOrder' /\ PresentOf(c)'
  <2>1. CASE calls[c] = "ending" /\ calls' = [calls EXCEPT ![c] = "done"]
             /\ attempt' = attempt /\ failure' = failure
    BY <1>1, <1>2, <2>1 DEF ManagerInv, ManagerTypeOK, AttemptsInOrder, PresentOf, Now
  <2>2. CASE calls[c] = "pausing" /\ calls' = [calls EXCEPT ![c] = "idle"]
             /\ attempt' = [attempt EXCEPT ![c] = @ + 1] /\ failure' = [failure EXCEPT ![c] = "none"]
    <3>1. /\ status[<<c, attempt[c]>>] = "aborted"
          /\ attempt[c] + 1 \in Attempts /\ attempt'[c] = attempt[c] + 1
          /\ calls'[c] = "idle" /\ failure'[c] = "none"
      BY <1>1, <2>2, ManagerAssumption DEF PresentOf, Now, Attempts, ManagerTypeOK
    <3>2. AttemptsInOrder'
      <4> SUFFICES ASSUME NEW d \in Works, NEW n \in Attempts
                   PROVE  /\ n < attempt'[d] => status[<<d, n>>] = "aborted"
                          /\ n > attempt'[d] => status[<<d, n>>] = "none"
        BY <1>2 DEF AttemptsInOrder
      <4>1. CASE d = c
        BY <1>1, <3>1, <4>1 DEF ManagerInv, AttemptsInOrder
      <4>2. CASE d # c
        BY <1>1, <1>4, <4>2 DEF ManagerInv, AttemptsInOrder
      <4> QED BY <4>1, <4>2
    <3>3. status[<<c, attempt[c] + 1>>] = "none"
      BY <1>1, <3>1 DEF ManagerInv, AttemptsInOrder
    <3> QED BY <1>1, <1>2, <2>2, <3>1, <3>2, <3>3 DEF PresentOf, Now
  <2> QED BY <1>2, <2>1, <2>2
<1>7. ASSUME NEW d \in Works PROVE PresentOf(d)'
  BY <1>2, <1>4, <1>6 DEF ManagerInv, PresentOf
<1>8. \A t \in Transactions : Agrees(t)'
  BY <1>2 DEF ManagerInv, Agrees, WorkEnds
<1> QED BY <1>3, <1>5, <1>6, <1>7, <1>8 DEF ManagerInv

\* Of the attempts of one withTransaction() at most one is committed, what is reported is so, and
\* none is left open: for any calls, retries and aborts (commitTransactionWithRetry,
\* withTransaction, abortAll).
THEOREM RetriesAreSafe == ManagerSpec => []ManagerCorrect
<1>1. ManagerInv /\ [ManagerNext]_managerVars => ManagerInv'
  <2> SUFFICES ASSUME ManagerInv, [ManagerNext]_managerVars PROVE ManagerInv'
    OBVIOUS
  <2>1. CASE UNCHANGED managerVars
    BY <2>1 DEF managerVars, ManagerInv, ManagerTypeOK, Agrees, PresentOf, AttemptsInOrder, Listed, Now
  <2>2. ASSUME NEW c \in Works,
               \/ StartSession(c) \/ Begin(c) \/ CallbackCommits(c) \/ CallbackFails(c)
               \/ CallbackReturns(c) \/ WorkCommits(c) \/ WorkCommitFails(c) \/ Catches(c)
        PROVE  ManagerInv'
    BY <2>2, CallKeeps
  <2>3. ASSUME NEW c \in Works, WorkEnds(c) PROVE ManagerInv'
    BY <2>3, EndKeeps
  <2>4. ASSUME NEW c \in Works, TimesOut(c) PROVE ManagerInv'
    <3>1. Now(c) \in Transactions /\ sweeps' \in [AbortAlls -> SUBSET Transactions]
      BY <2>4, TransactionIs DEF TimesOut, ManagerInv, ManagerTypeOK
    <3> QED BY <2>4, <3>1, AbortKeeps DEF TimesOut
  <2>5. ASSUME NEW a \in AbortAlls, AbortAll(a) PROVE ManagerInv'
    BY <2>5 DEF AbortAll, ManagerInv, ManagerTypeOK, Agrees, PresentOf, AttemptsInOrder, Listed, Now
  <2>6. ASSUME NEW a \in AbortAlls, AbortsNext(a) PROVE ManagerInv'
    <3>1. PICK t \in sweeps[a] : /\ Abortable(t) /\ AbortOf(t)
                                 /\ active' = active \ {t}
                                 /\ sweeps' = [sweeps EXCEPT ![a] = @ \ {t}]
      BY <2>6 DEF AbortsNext
    <3>2. t \in Transactions /\ sweeps' \in [AbortAlls -> SUBSET Transactions]
      BY <3>1 DEF ManagerInv, ManagerTypeOK
    <3> QED BY <2>6, <3>1, <3>2, AbortKeeps DEF AbortsNext
  <2> QED BY <2>1, <2>2, <2>3, <2>4, <2>5, <2>6 DEF ManagerNext
<1> QED BY ManagerFirst, <1>1, ManagerSound, PTL DEF ManagerSpec

-----------------------------------------------------------------------------
(* The indexes of a Model.                                                 *)

\* What a task has not taken care of is missing, reported or there.
Covered(t) ==
  /\ tasks[t] = "pending" <=> at[t] # "idle"
  /\ at[t] = "creating" =>
       t[2] \subseteq missing[t] \cup conflicts[t] \cup broken[t] \cup dropped \cup server
  /\ tasks[t] = "fulfilled" => t[2] \subseteq conflicts[t] \cup dropped \cup server

IndexInv == IndexTypeOK /\ \A t \in Tasks : Covered(t)

\* A task is a runtime and a declaration.
LEMMA TaskIs ==
  ASSUME NEW t \in Tasks
  PROVE  t[1] \in Runtimes /\ t[2] \in Declarations /\ t[2] \subseteq Indexes /\ t = <<t[1], t[2]>>
BY IndexAssumption DEF Tasks

\* A step that changes the records of one task, and the server as every task allows.
LEMMA OneTaskMoves ==
  ASSUME IndexInv, IndexTypeOK', NEW t \in Tasks, Covered(t)',
         \A u \in Tasks \ {t} : /\ tasks'[u] = tasks[u] /\ at'[u] = at[u]
                                /\ missing'[u] = missing[u] /\ conflicts'[u] = conflicts[u]
                                /\ broken'[u] = broken[u],
         dropped \cup server \subseteq dropped' \cup server'
  PROVE  IndexInv'
<1>1. ASSUME NEW u \in Tasks, u # t PROVE Covered(u)'
  <2>1. Covered(u)
    BY DEF IndexInv
  <2> QED BY <1>1, <2>1 DEF Covered
<1> QED BY <1>1 DEF IndexInv

\* The use of a model schedules its task.
LEMMA UseKeeps == ASSUME IndexInv, NEW r \in Runtimes, Use(r) PROVE IndexInv'
<1>1. PICK t \in Tasks : t = <<r, declared[r]>>
  BY DEF IndexInv, IndexTypeOK, Tasks
<1>2. /\ tasks' = [tasks EXCEPT ![t] = "pending"] /\ at' = [at EXCEPT ![t] = "listing"]
      /\ conflicts' = [conflicts EXCEPT ![t] = {}] /\ broken' = [broken EXCEPT ![t] = {}]
      /\ UNCHANGED <<declared, missing, server, failures, dropped, redefined>>
  BY <1>1 DEF Use
<1>3. IndexTypeOK'
  <2>1. {missing, conflicts, broken}' \subseteq [Tasks -> SUBSET Indexes]
    BY <1>1, <1>2 DEF IndexInv, IndexTypeOK
  <2>2. \A u \in Tasks : missing'[u] \cup conflicts'[u] \cup broken'[u] \subseteq u[2]
    BY <1>1, <1>2 DEF IndexInv, IndexTypeOK
  <2> QED BY <1>1, <1>2, <2>1, <2>2 DEF IndexInv, IndexTypeOK
<1>4. Covered(t)'
  BY <1>1, <1>2 DEF IndexInv, IndexTypeOK, Covered
<1> QED BY <1>1, <1>2, <1>3, <1>4, OneTaskMoves DEF IndexInv, IndexTypeOK

\* listIndexes sorts the declared indexes into those missing, in the way and there.
LEMMA ListsKeeps == ASSUME IndexInv, NEW t \in Tasks, Lists(t) \/ ListFails(t) PROVE IndexInv'
<1>1. CASE Lists(t)
  <2> DEFINE clashing == {d \in t[2] : \E i \in server : Clash(d, i)}
  <2>1. /\ at[t] = "listing" /\ at' = [at EXCEPT ![t] = "creating"]
        /\ conflicts' = [conflicts EXCEPT ![t] = clashing]
        /\ missing' = [missing EXCEPT ![t] = t[2] \ (server \cup clashing)]
        /\ UNCHANGED <<declared, tasks, broken, server, failures, dropped, redefined>>
    BY <1>1 DEF Lists
  <2>2. clashing \subseteq t[2] /\ t[2] \subseteq Indexes
    BY TaskIs
  <2> HIDE DEF clashing
  <2>3. IndexTypeOK'
    <3>1. {missing, conflicts, broken}' \subseteq [Tasks -> SUBSET Indexes]
      BY <2>1, <2>2 DEF IndexInv, IndexTypeOK
    <3>2. \A u \in Tasks : missing'[u] \cup conflicts'[u] \cup broken'[u] \subseteq u[2]
      BY <2>1, <2>2 DEF IndexInv, IndexTypeOK
    <3> QED BY <2>1, <3>1, <3>2 DEF IndexInv, IndexTypeOK
  <2>4. Covered(t)'
    BY <2>1, <2>2 DEF IndexInv, IndexTypeOK, Covered
  <2> QED BY <2>1, <2>3, <2>4, OneTaskMoves DEF IndexInv, IndexTypeOK
<1>2. CASE ListFails(t)
  <2>1. IndexTypeOK'
    BY <1>2, IndexAssumption DEF ListFails, IndexInv, IndexTypeOK
  <2>2. Covered(t)'
    BY <1>2 DEF ListFails, IndexInv, IndexTypeOK, Covered
  <2> QED BY <1>2, <2>1, <2>2, OneTaskMoves DEF ListFails, IndexInv, IndexTypeOK
<1> QED BY <1>1, <1>2

\* One createIndex, done, refused or failed.
LEMMA CreatesKeeps == ASSUME IndexInv, NEW t \in Tasks, Creates(t) \/ CreateFails(t) PROVE IndexInv'
<1>0. PICK d \in missing[t] :
        /\ at[t] = "creating" /\ missing' = [missing EXCEPT ![t] = @ \ {d}]
        /\ \/ /\ broken' = [broken EXCEPT ![t] = @ \cup {d}] /\ UNCHANGED <<server, dropped>>
              /\ failures' \in 0..MaxFailures
           \/ /\ \A i \in server : ~Clash(d, i)
              /\ server' = server \cup {d} /\ dropped' = dropped \ {d}
              /\ UNCHANGED <<broken, failures>>
        /\ UNCHANGED <<declared, tasks, at, conflicts, redefined>>
  <2>1. CASE Creates(t)
    BY <2>1 DEF Creates, IndexInv, IndexTypeOK
  <2>2. CASE CreateFails(t)
    <3>1. failures < MaxFailures /\ failures' = failures + 1 => failures' \in 0..MaxFailures
      BY IndexAssumption DEF IndexInv, IndexTypeOK
    <3> QED BY <2>2, <3>1 DEF CreateFails
  <2> QED BY <2>1, <2>2
<1>1. d \in t[2] /\ d \in Indexes /\ t[2] \subseteq Indexes
  BY <1>0, TaskIs DEF IndexInv, IndexTypeOK
<1>2. missing' \in [Tasks -> SUBSET Indexes] /\ conflicts' \in [Tasks -> SUBSET Indexes]
  BY <1>0 DEF IndexInv, IndexTypeOK
<1>3. CASE /\ broken' = [broken EXCEPT ![t] = @ \cup {d}] /\ UNCHANGED <<server, dropped>>
           /\ failures' \in 0..MaxFailures
  <2>1. IndexTypeOK'
    <3>1. broken' \in [Tasks -> SUBSET Indexes]
      BY <1>1, <1>3 DEF IndexInv, IndexTypeOK
    <3>2. \A u \in Tasks : missing'[u] \cup conflicts'[u] \cup broken'[u] \subseteq u[2]
      BY <1>0, <1>1, <1>3 DEF IndexInv, IndexTypeOK
    <3> QED BY <1>0, <1>2, <1>3, <3>1, <3>2 DEF IndexInv, IndexTypeOK
  <2>2. Covered(t)'
    BY <1>0, <1>3 DEF IndexInv, IndexTypeOK, Covered
  <2> QED BY <1>0, <1>3, <2>1, <2>2, OneTaskMoves DEF IndexInv, IndexTypeOK
<1>4. CASE /\ \A i \in server : ~Clash(d, i)
           /\ server' = server \cup {d} /\ dropped' = dropped \ {d} /\ UNCHANGED <<broken, failures>>
  <2>1. IndexTypeOK'
    <3>1. \A i, j \in server' : ~Clash(i, j)
      BY <1>4 DEF IndexInv, IndexTypeOK, Clash
    <3>2. \A u \in Tasks : missing'[u] \cup conflicts'[u] \cup broken'[u] \subseteq u[2]
      BY <1>0, <1>1, <1>4 DEF IndexInv, IndexTypeOK
    <3> QED BY <1>0, <1>1, <1>2, <1>4, <3>1, <3>2 DEF IndexInv, IndexTypeOK
  <2>2. Covered(t)'
    BY <1>0, <1>4 DEF IndexInv, IndexTypeOK, Covered
  <2> QED BY <1>0, <1>4, <2>1, <2>2, OneTaskMoves DEF IndexInv, IndexTypeOK
<1> QED BY <1>0, <1>3, <1>4

\* A task without failures counts as fulfilled.
LEMMA TaskEndsKeeps == ASSUME IndexInv, NEW t \in Tasks, TaskEnds(t) PROVE IndexInv'
<1>1. Status(t) \in {"failed", "fulfilled"} /\ (Status(t) = "fulfilled" => broken[t] = {})
  BY DEF Status
<1>2. IndexTypeOK'
  BY <1>1 DEF TaskEnds, IndexInv, IndexTypeOK
<1>3. Covered(t)'
  BY <1>1 DEF TaskEnds, IndexInv, IndexTypeOK, Covered
<1> QED BY <1>2, <1>3, OneTaskMoves DEF TaskEnds, IndexInv, IndexTypeOK

\* What a fulfilled task of ensureModelIndexesForCollection does not report as a conflict is on the
\* server, unless an operator dropped it: for any runtimes, declarations and failures.
THEOREM FulfilledStaysThere == IndexSpec => []IndexesStay
<1>1. IndexInit => IndexInv
  BY IndexAssumption DEF IndexInit, IndexInv, IndexTypeOK, Covered, Tasks
<1>2. IndexInv /\ [IndexNext]_indexVars => IndexInv'
  <2> SUFFICES ASSUME IndexInv, [IndexNext]_indexVars PROVE IndexInv'
    OBVIOUS
  <2>1. CASE UNCHANGED indexVars
    BY <2>1 DEF indexVars, IndexInv, IndexTypeOK, Covered
  <2>2. ASSUME NEW r \in Runtimes, Redefine(r) PROVE IndexInv'
    <3>1. IndexTypeOK'
      BY <2>2, IndexAssumption DEF Redefine, IndexInv, IndexTypeOK
    <3> QED BY <2>2, <3>1 DEF Redefine, IndexInv, Covered
  <2>3. CASE Drops
    <3>1. IndexTypeOK'
      BY <2>3 DEF Drops, IndexInv, IndexTypeOK
    <3> QED BY <2>3, <3>1 DEF Drops, IndexInv, Covered
  <2> QED BY <2>1, <2>2, <2>3, UseKeeps, ListsKeeps, CreatesKeeps, TaskEndsKeeps DEF IndexNext, TaskStep
<1>3. IndexInv => IndexesStay
  BY DEF IndexInv, IndexesStay, Covered, FulfilledIsThere
<1> QED BY <1>1, <1>2, <1>3, PTL DEF IndexSpec

-----------------------------------------------------------------------------
(* One key in several processes.                                           *)

Hearing == {"waiting", "deleting", "done"}
Begun(w, i) == handling[<<w, i>>] \in {"deleting", "done"}

\* A write is numbered before anybody handles it; a deletion has steps left only
\* while it runs, and is published by the process of the write alone.
Numbered(w, i) ==
  /\ number[w] = 0 => handling[<<w, i>>] = "none" /\ todo[<<w, i>>] = {}
  /\ handling[<<w, i>>] = "done" => todo[<<w, i>>] = {}

\* What a query whose ticket is valid has read takes in every write that its
\* process has begun to handle; once it deletes, so does whatever is on its way.
ReadsAfter(q) ==
  /\ query[q] \in {"remote", "refill", "storing"} => shared
  /\ query[q] \in {"fetched", "storing"} => result[q] # NoEntry
  /\ \A w \in Writes :
       /\ q \in filling /\ query[q] \in {"fetched", "storing"}
            /\ handling[<<w, HomeOf[q]>>] \in Hearing => result[q] >= number[w]
       /\ query[q] = "storing" /\ Begun(w, HomeOf[q]) => result[q] >= number[w]

\* Without a remote level, a local one forgets when it is deleted from.
LocalForgets(w, i) ==
  ~shared /\ Begun(w, i) /\ "local" \notin todo[<<w, i>>] => Includes(local[i], w)

\* When every process has begun to delete, one has yet to delete the remote entry,
\* or it has been deleted for good.
RemoteForgets(w) ==
  (\A i \in Instances : Begun(w, i)) =>
    \/ Includes(remote, w)
    \/ \E i \in Instances : handling[<<w, i>>] = "deleting" /\ "remote" \in todo[<<w, i>>]

SharingInv ==
  /\ SharingTypeOK /\ (shared \/ remote = NoEntry)
  /\ \A w \in Writes, i \in Instances : Numbered(w, i) /\ LocalForgets(w, i)
  /\ \A w \in Writes : RemoteForgets(w)
  /\ \A q \in Queries : ReadsAfter(q)

\* What SharingTypeOK says of the numbers and the processes.
LEMMA SharingTypes ==
  ASSUME SharingTypeOK
  PROVE  /\ version \in Nat /\ NoEntry \notin Nat /\ NoEntry \notin 0..version
         /\ \A q \in Queries : HomeOf[q] \in Instances /\ (result[q] # NoEntry => result[q] \in 0..version)
                               /\ result[q] \in 0..version \cup {NoEntry}
         /\ \A w \in Writes : HomeOf[w] \in Instances /\ number[w] \in 0..version /\ number[w] \in Nat
         /\ \A w \in Writes, i \in Instances : <<w, i>> \in Writes \X Instances
         /\ \A n \in 0..version : n \in Nat
BY SharingAssumption DEF SharingTypeOK

\* A step of one query, with what it leaves to check.
LEMMA OneQueryMoves ==
  ASSUME SharingInv, SharingTypeOK', NEW q \in Queries,
         UNCHANGED <<shared, handling, todo, version, number>>,
         filling' \subseteq filling \cup {q},
         \A p \in Queries \ {q} : query'[p] = query[p] /\ result'[p] = result[p],
         ReadsAfter(q)', shared \/ remote' = NoEntry,
         \A w \in Writes, i \in Instances : LocalForgets(w, i)',
         \A w \in Writes : RemoteForgets(w)'
  PROVE  SharingInv'
<1>1. ASSUME NEW p \in Queries, p # q PROVE ReadsAfter(p)'
  <2>1. ReadsAfter(p)
    BY DEF SharingInv
  <2> QED BY <1>1, <2>1 DEF ReadsAfter, Begun
<1>2. \A w \in Writes, i \in Instances : Numbered(w, i)'
  BY DEF SharingInv, Numbered
<1> QED BY <1>1, <1>2 DEF SharingInv

\* The entries stay as they are.
LEMMA EntriesStay ==
  ASSUME SharingInv, UNCHANGED <<shared, local, remote, handling, todo, version, number>>
  PROVE  /\ shared \/ remote' = NoEntry
         /\ \A w \in Writes, i \in Instances : LocalForgets(w, i)'
         /\ \A w \in Writes : RemoteForgets(w)'
BY DEF SharingInv, LocalForgets, RemoteForgets, Begun, Includes

\* The steps of a query that read.
LEMMA QueryReads ==
  ASSUME SharingInv, NEW q \in Queries,
         LooksUp(q) \/ RemoteAnswers(q) \/ Fetches(q) \/ StoresNot(q)
  PROVE  SharingInv'
<1>1. UNCHANGED <<shared, local, remote, handling, todo, version, number>>
  BY DEF LooksUp, RemoteAnswers, Fetches, StoresNot, writePart
<1>2. SharingTypeOK /\ ReadsAfter(q)
  BY DEF SharingInv
<1>3. SharingTypeOK'
  <2>1. /\ query' \in [Queries -> {"idle", "local", "remote", "refill", "fetch", "fetched",
                                    "storing", "over"}]
        /\ filling' \subseteq Queries
    BY <1>2 DEF LooksUp, RemoteAnswers, Fetches, StoresNot, Goes, Settles, SharingTypeOK
  <2>2. refilling' \subseteq Queries
    BY <1>2 DEF LooksUp, RemoteAnswers, Fetches, StoresNot, Goes, Settles, SharingTypeOK
  <2>3. result' \in [Queries -> 0..version \cup {NoEntry}]
    BY <1>2, SharingTypes DEF LooksUp, RemoteAnswers, Fetches, StoresNot, Goes, Settles, SharingTypeOK
  <2> QED BY <1>1, <1>2, <2>1, <2>2, <2>3 DEF SharingTypeOK
<1>4. \A p \in Queries \ {q} : query'[p] = query[p] /\ result'[p] = result[p]
  BY <1>2 DEF LooksUp, RemoteAnswers, Fetches, StoresNot, Goes, Settles, SharingTypeOK
<1>5. filling' \subseteq filling \cup {q}
  BY DEF LooksUp, RemoteAnswers, Fetches, StoresNot, Goes, Settles
<1>6. ReadsAfter(q)'
  <2>1. CASE LooksUp(q)
    BY <1>1, <1>2, <2>1 DEF LooksUp, ReadsAfter, SharingTypeOK
  <2>2. CASE RemoteAnswers(q)
    BY <1>1, <1>2, <2>2 DEF RemoteAnswers, Goes, ReadsAfter, SharingTypeOK
  <2>3. CASE Fetches(q)
    <3>1. query'[q] = "fetched" /\ result'[q] = version
      BY <1>2, <2>3 DEF Fetches, Goes, SharingTypeOK
    <3>2. \A w \in Writes : version >= number[w]
      BY <1>2, SharingTypes
    <3> QED BY <1>1, <1>2, <3>1, <3>2, SharingTypes DEF ReadsAfter
  <2>4. CASE StoresNot(q)
    BY <1>1, <1>2, <2>4 DEF StoresNot, Settles, ReadsAfter, SharingTypeOK
  <2> QED BY <2>1, <2>2, <2>3, <2>4
<1> QED BY <1>1, <1>3, <1>4, <1>5, <1>6, EntriesStay, OneQueryMoves

\* A query answered from the local level.
LEMMA QueryIsAnswered == ASSUME SharingInv, NEW q \in Queries, LocalAnswers(q) PROVE SharingInv'
<1>1. UNCHANGED <<shared, local, remote, handling, todo, version, number>>
  BY DEF LocalAnswers, writePart
<1>2. SharingTypeOK /\ ReadsAfter(q)
  BY DEF SharingInv
<1>3. \/ /\ query' = [query EXCEPT ![q] = "over"] /\ result' = [result EXCEPT ![q] = NoEntry]
         /\ filling' = filling \ {q} /\ refilling' = refilling \ {q}
      \/ /\ query' = [query EXCEPT ![q] = IF shared THEN "remote" ELSE "fetch"]
         /\ result' = result /\ filling' = filling /\ refilling' = refilling
  BY DEF LocalAnswers, Settles, Goes
<1>4. SharingTypeOK'
  BY <1>1, <1>2, <1>3 DEF SharingTypeOK
<1>5. /\ \A p \in Queries \ {q} : query'[p] = query[p] /\ result'[p] = result[p]
      /\ filling' \subseteq filling \cup {q}
  BY <1>2, <1>3 DEF SharingTypeOK
<1>6. ReadsAfter(q)'
  BY <1>1, <1>2, <1>3 DEF ReadsAfter, SharingTypeOK
<1> QED BY <1>1, <1>4, <1>5, <1>6, EntriesStay, OneQueryMoves

\* The steps of a query that store; its ticket must be valid.
LEMMA QueryStores ==
  ASSUME SharingInv, NEW q \in Queries, Refills(q) \/ Stores(q) \/ StoresRemotely(q)
  PROVE  SharingInv'
<1>1. UNCHANGED <<shared, handling, todo, version, number>>
  BY DEF Refills, Stores, StoresRemotely, writePart
<1>2. /\ SharingTypeOK /\ ReadsAfter(q) /\ (shared \/ remote = NoEntry)
      /\ HomeOf[q] \in Instances
  BY SharingTypes DEF SharingInv
<1>3. \/ /\ query' = [query EXCEPT ![q] = "over"] /\ result' = [result EXCEPT ![q] = NoEntry]
         /\ filling' = filling \ {q} /\ refilling' = refilling \ {q}
      \/ /\ query' = [query EXCEPT ![q] = "storing"] /\ shared /\ query[q] = "fetched"
         /\ result' = result /\ filling' = filling /\ refilling' = refilling
  BY DEF Refills, Stores, StoresRemotely, Settles, Goes
<1>4. /\ local' = local \/ local' = [local EXCEPT ![HomeOf[q]] = result[q]]
      /\ remote' = remote \/ remote' = result[q]
  BY DEF Refills, Stores, StoresRemotely
<1>5. SharingTypeOK'
  <2>1. result[q] \in 0..version \cup {NoEntry}
    BY <1>2, SharingTypes
  <2>2. local' \in [Instances -> 0..version \cup {NoEntry}] /\ remote' \in 0..version \cup {NoEntry}
    BY <1>2, <1>4, <2>1 DEF SharingTypeOK
  <2> QED BY <1>1, <1>2, <1>3, <2>2 DEF SharingTypeOK
<1>6. /\ \A p \in Queries \ {q} : query'[p] = query[p] /\ result'[p] = result[p]
      /\ filling' \subseteq filling \cup {q}
  BY <1>2, <1>3 DEF SharingTypeOK
<1>7. ReadsAfter(q)'
  <2>1. CASE /\ query' = [query EXCEPT ![q] = "over"] /\ result' = [result EXCEPT ![q] = NoEntry]
             /\ filling' = filling \ {q} /\ refilling' = refilling \ {q}
    BY <1>1, <1>2, <2>1 DEF ReadsAfter, SharingTypeOK
  <2>2. CASE /\ query' = [query EXCEPT ![q] = "storing"] /\ shared /\ query[q] = "fetched"
             /\ result' = result /\ filling' = filling /\ refilling' = refilling
    <3>1. q \in filling
      BY <1>2, <2>2 DEF Refills, Stores, StoresRemotely, Settles
    <3> QED BY <1>1, <1>2, <2>2, <3>1 DEF ReadsAfter, SharingTypeOK, Hearing, Begun
  <2> QED BY <1>3, <2>1, <2>2
<1>8. shared \/ remote' = NoEntry
  BY <1>1, <1>2 DEF Refills, Stores, StoresRemotely, Settles, ReadsAfter
<1>9. ASSUME NEW w \in Writes, NEW i \in Instances PROVE LocalForgets(w, i)'
  <2>1. CASE Stores(q) /\ i = HomeOf[q]
    <3>1. query[q] = "fetched" /\ q \in filling /\ local'[i] = result[q]
      BY <1>2, <2>1 DEF Stores, Goes, Settles, SharingTypeOK
    <3>2. Begun(w, i) => result[q] >= number[w]
      BY <1>2, <2>1, <3>1 DEF ReadsAfter, Begun, Hearing
    <3> QED BY <1>1, <3>1, <3>2 DEF LocalForgets, Begun, Includes
  <2>2. CASE shared
    BY <1>1, <2>2 DEF LocalForgets
  <2>3. CASE local'[i] = local[i]
    BY <1>1, <2>3 DEF SharingInv, LocalForgets, Begun, Includes
  <2>4. Refills(q) => shared
    BY <1>2 DEF Refills, Settles, ReadsAfter
  <2>5. StoresRemotely(q) => local' = local
    BY DEF StoresRemotely
  <2>6. i # HomeOf[q] => local'[i] = local[i]
    BY <1>2, <1>4 DEF SharingTypeOK
  <2> QED BY <2>1, <2>2, <2>3, <2>4, <2>5, <2>6
<1>10. ASSUME NEW w \in Writes PROVE RemoteForgets(w)'
  <2>1. CASE remote' = remote
    BY <1>1, <2>1 DEF SharingInv, RemoteForgets, Begun, Includes
  <2>2. CASE StoresRemotely(q)
    <3>1. query[q] = "storing" /\ remote' = result[q]
      BY <2>2 DEF StoresRemotely, Settles
    <3>2. Begun(w, HomeOf[q]) => result[q] >= number[w]
      BY <1>2, <3>1 DEF ReadsAfter
    <3> QED BY <1>1, <1>2, <3>1, <3>2 DEF RemoteForgets, Begun, Includes
  <2> QED BY <2>1, <2>2 DEF Refills, Stores
<1> QED BY <1>1, <1>5, <1>6, <1>7, <1>8, <1>9, <1>10, OneQueryMoves

\* A write reaches the database: what was read before is now older.
LEMMA WritingKeeps == ASSUME SharingInv, NEW w \in Writes, Writing(w) PROVE SharingInv'
<1>1. /\ SharingTypeOK /\ number[w] = 0 /\ version' = version + 1
      /\ number' = [number EXCEPT ![w] = version + 1]
      /\ UNCHANGED <<shared, local, remote, filling, refilling, handling, todo, query, result>>
  BY DEF SharingInv, Writing, queryPart
<1>2. version \in Nat /\ 0..version \subseteq 0..version' /\ version + 1 \in 0..version'
  BY <1>1 DEF SharingTypeOK
<1>3. SharingTypeOK'
  <2>1. local' \in [Instances -> 0..version' \cup {NoEntry}] /\ remote' \in 0..version' \cup {NoEntry}
    BY <1>1, <1>2 DEF SharingTypeOK
  <2>2. result' \in [Queries -> 0..version' \cup {NoEntry}] /\ number' \in [Writes -> 0..version']
    BY <1>1, <1>2 DEF SharingTypeOK
  <2> QED BY <1>1, <1>2, <2>1, <2>2 DEF SharingTypeOK
<1>4. \A i \in Instances : handling[<<w, i>>] = "none" /\ todo[<<w, i>>] = {}
  BY <1>1 DEF SharingInv, Numbered
<1>5. \A v \in Writes : v # w => number'[v] = number[v]
  BY <1>1 DEF SharingTypeOK
<1>6. HomeOf[w] \in Instances /\ \A q \in Queries : HomeOf[q] \in Instances
  BY <1>1, SharingTypes
<1>7. ASSUME NEW v \in Writes, NEW i \in Instances PROVE Numbered(v, i)' /\ LocalForgets(v, i)'
  <2>1. Numbered(v, i) /\ LocalForgets(v, i)
    BY DEF SharingInv
  <2> QED BY <1>1, <1>4, <1>5, <2>1 DEF Numbered, LocalForgets, Begun, Includes
<1>8. ASSUME NEW v \in Writes PROVE RemoteForgets(v)'
  <2>1. RemoteForgets(v)
    BY DEF SharingInv
  <2> QED BY <1>1, <1>4, <1>5, <1>6, <2>1 DEF RemoteForgets, Begun, Includes
<1>9. ASSUME NEW q \in Queries PROVE ReadsAfter(q)'
  <2>1. ReadsAfter(q)
    BY DEF SharingInv
  <2>2. ASSUME NEW v \in Writes
        PROVE  /\ q \in filling /\ query[q] \in {"fetched", "storing"}
                    /\ handling[<<v, HomeOf[q]>>] \in Hearing => result[q] >= number'[v]
               /\ query[q] = "storing" /\ Begun(v, HomeOf[q]) => result[q] >= number'[v]
    BY <1>4, <1>5, <1>6, <2>1 DEF ReadsAfter, Begun, Hearing
  <2> QED BY <1>1, <2>1, <2>2 DEF ReadsAfter, Begun
<1>10. (shared \/ remote = NoEntry)'
  BY <1>1 DEF SharingInv
<1> QED BY <1>3, <1>7, <1>8, <1>9, <1>10 DEF SharingInv

\* The steps of an invalidation keep the queries as they are, but for the tickets.
LEMMA RevokesKeeps ==
  ASSUME SharingInv, NEW w \in Writes, NEW i \in Instances, number[w] > 0,
         handling[<<w, i>>] \in {"none", "sent"}, Revokes(w, i),
         UNCHANGED <<shared, local, remote, refilling, todo, query, result, version, number>>
  PROVE  SharingInv'
<1>1. /\ SharingTypeOK /\ <<w, i>> \in Writes \X Instances
      /\ filling' = filling \ Here(i) /\ handling' = [handling EXCEPT ![<<w, i>>] = "waiting"]
  BY DEF SharingInv, Revokes
<1>2. SharingTypeOK'
  BY <1>1 DEF SharingTypeOK
<1>3. \A v \in Writes, j \in Instances :
        /\ <<v, j>> # <<w, i>> => handling'[<<v, j>>] = handling[<<v, j>>]
        /\ Begun(v, j)' <=> Begun(v, j) /\ <<v, j>> # <<w, i>>
  BY <1>1 DEF SharingTypeOK, Begun
<1>4. ASSUME NEW v \in Writes, NEW j \in Instances PROVE Numbered(v, j)' /\ LocalForgets(v, j)'
  <2>1. Numbered(v, j) /\ LocalForgets(v, j) /\ Numbered(w, i)
    BY DEF SharingInv
  <2>2. CASE <<v, j>> = <<w, i>>
    BY <1>1, <1>3, <2>1, <2>2 DEF Numbered, LocalForgets
  <2>3. CASE <<v, j>> # <<w, i>>
    BY <1>1, <1>3, <2>1, <2>3 DEF Numbered, LocalForgets, Includes
  <2> QED BY <2>2, <2>3
<1>5. ASSUME NEW v \in Writes PROVE RemoteForgets(v)'
  <2>1. RemoteForgets(v)
    BY DEF SharingInv
  <2>2. CASE v = w
    BY <1>3, <2>2 DEF RemoteForgets
  <2>3. CASE v # w
    <3>1. \A j \in Instances : <<v, j>> # <<w, i>>
      BY <2>3
    <3> QED BY <1>3, <2>1, <3>1 DEF RemoteForgets, Includes
  <2> QED BY <2>2, <2>3
<1>6. ASSUME NEW q \in Queries PROVE ReadsAfter(q)'
  <2>1. ReadsAfter(q) /\ HomeOf[q] \in Instances
    BY <1>1, SharingTypes DEF SharingInv
  <2>2. \A v \in Writes : q \in filling' => handling'[<<v, HomeOf[q]>>] = handling[<<v, HomeOf[q]>>]
    BY <1>1, <1>3, <2>1 DEF Here
  <2>3. \A v \in Writes : Begun(v, HomeOf[q])' => Begun(v, HomeOf[q])
    BY <1>3, <2>1
  <2> QED BY <1>1, <2>1, <2>2, <2>3 DEF ReadsAfter
<1> QED BY <1>2, <1>4, <1>5, <1>6 DEF SharingInv

\* A process revokes its readers and begins its deletions.
LEMMA DeletesKeeps ==
  ASSUME SharingInv, NEW w \in Writes, NEW i \in Instances, Deletes(w, i) PROVE SharingInv'
<1>1. /\ SharingTypeOK /\ <<w, i>> \in Writes \X Instances
      /\ handling[<<w, i>>] = "waiting"
      /\ \A q \in Here(i) : query[q] = "storing" => q \in filling
      /\ handling' = [handling EXCEPT ![<<w, i>>] = "deleting"]
      /\ todo' = [todo EXCEPT ![<<w, i>>] = Work(w, i)] /\ refilling' = refilling \ Here(i)
      /\ UNCHANGED <<shared, local, remote, filling, query, result, version, number>>
  BY DEF SharingInv, Deletes, queryPart, writePart
<1>2. Levels \subseteq Work(w, i) /\ Work(w, i) \subseteq Levels \cup {"publish"}
  BY DEF Work
<1>3. SharingTypeOK'
  BY <1>1, <1>2 DEF SharingTypeOK
<1>4. /\ \A v \in Writes, j \in Instances : <<v, j>> # <<w, i>> =>
           /\ handling'[<<v, j>>] = handling[<<v, j>>] /\ todo'[<<v, j>>] = todo[<<v, j>>]
           /\ (Begun(v, j)' <=> Begun(v, j))
      /\ handling'[<<w, i>>] = "deleting" /\ todo'[<<w, i>>] = Work(w, i)
  BY <1>1 DEF SharingTypeOK, Begun
<1>5. number[w] # 0
  BY <1>1 DEF SharingInv, Numbered
<1>6. ASSUME NEW v \in Writes, NEW j \in Instances PROVE Numbered(v, j)' /\ LocalForgets(v, j)'
  <2>1. Numbered(v, j) /\ LocalForgets(v, j)
    BY DEF SharingInv
  <2>2. CASE <<v, j>> = <<w, i>>
    BY <1>1, <1>2, <1>4, <1>5, <2>2 DEF Numbered, LocalForgets, Levels
  <2>3. CASE <<v, j>> # <<w, i>>
    BY <1>1, <1>4, <2>1, <2>3 DEF Numbered, LocalForgets, Includes
  <2> QED BY <2>2, <2>3
<1>7. ASSUME NEW v \in Writes PROVE RemoteForgets(v)'
  <2>1. RemoteForgets(v)
    BY DEF SharingInv
  <2>2. CASE v = w
    BY <1>2, <1>4, <2>2 DEF RemoteForgets, Levels
  <2>3. CASE v # w
    <3>1. \A j \in Instances : <<v, j>> # <<w, i>>
      BY <2>3
    <3> QED BY <1>1, <1>4, <2>1, <3>1 DEF RemoteForgets, Includes
  <2> QED BY <2>2, <2>3
<1>8. ASSUME NEW q \in Queries PROVE ReadsAfter(q)'
  <2>1. ReadsAfter(q) /\ HomeOf[q] \in Instances
    BY <1>1, SharingTypes DEF SharingInv
  <2>2. HomeOf[q] = i /\ query[q] = "storing" => result[q] >= number[w]
    BY <1>1, <2>1 DEF ReadsAfter, Here, Hearing
  <2>3. ASSUME NEW v \in Writes
        PROVE  /\ q \in filling /\ query[q] \in {"fetched", "storing"}
                    /\ handling'[<<v, HomeOf[q]>>] \in Hearing => result[q] >= number[v]
               /\ query[q] = "storing" /\ Begun(v, HomeOf[q])' => result[q] >= number[v]
    <3>1. CASE <<v, HomeOf[q]>> = <<w, i>>
      BY <1>1, <2>1, <2>2, <3>1 DEF ReadsAfter, Hearing
    <3>2. CASE <<v, HomeOf[q]>> # <<w, i>>
      BY <1>4, <2>1, <3>2 DEF ReadsAfter
    <3> QED BY <3>1, <3>2
  <2> QED BY <1>1, <2>1, <2>3 DEF ReadsAfter
<1> QED BY <1>1, <1>3, <1>6, <1>7, <1>8 DEF SharingInv

\* One level is deleted from.
LEMMA DeletesLevelKeeps ==
  ASSUME SharingInv, NEW w \in Writes, NEW i \in Instances, DeletesLevel(w, i) PROVE SharingInv'
<1>1. PICK l \in Levels :
        /\ l \in todo[<<w, i>>] /\ todo' = [todo EXCEPT ![<<w, i>>] = @ \ {l}]
        /\ local' = IF l = "local" THEN [local EXCEPT ![i] = NoEntry] ELSE local
        /\ remote' = IF l = "remote" THEN NoEntry ELSE remote
        /\ UNCHANGED <<shared, filling, refilling, handling, query, result, version, number>>
  BY DEF DeletesLevel, queryPart, writePart
<1>2. SharingTypeOK /\ <<w, i>> \in Writes \X Instances
  BY DEF SharingInv
<1>3. SharingTypeOK'
  BY <1>1, <1>2 DEF SharingTypeOK
<1>4. /\ \A v \in Writes, j \in Instances : <<v, j>> # <<w, i>> => todo'[<<v, j>>] = todo[<<v, j>>]
      /\ todo'[<<w, i>>] = todo[<<w, i>>] \ {l}
  BY <1>1, <1>2 DEF SharingTypeOK
<1>5. ASSUME NEW v \in Writes, NEW j \in Instances PROVE Numbered(v, j)' /\ LocalForgets(v, j)'
  <2>1. Numbered(v, j) /\ LocalForgets(v, j) /\ Numbered(w, i)
    BY DEF SharingInv
  <2>2. Numbered(v, j)'
    BY <1>1, <1>4, <2>1 DEF Numbered
  <2>3. CASE l = "local" /\ i = j
    <3>1. local'[j] = NoEntry
      <4>1. local' = [local EXCEPT ![j] = NoEntry] /\ local \in [Instances -> 0..version \cup {NoEntry}]
        BY <1>1, <1>2, <2>3 DEF SharingTypeOK
      <4> QED BY <4>1
    <3> QED BY <2>2, <3>1 DEF LocalForgets, Includes
  <2>4. CASE l # "local" \/ i # j
    <3>1. local'[j] = local[j]
      BY <1>1, <1>2, <2>4 DEF SharingTypeOK
    <3>2. "local" \in todo'[<<v, j>>] <=> "local" \in todo[<<v, j>>]
      <4>1. CASE i # j
        BY <1>4, <4>1
      <4>2. CASE l # "local"
        BY <1>4, <4>2
      <4> QED BY <2>4, <4>1, <4>2
    <3>3. UNCHANGED <<shared, handling, number>>
      BY <1>1
    <3> QED BY <2>1, <2>2, <3>1, <3>2, <3>3 DEF LocalForgets, Begun, Includes
  <2> QED BY <2>2, <2>3, <2>4
<1>6. ASSUME NEW v \in Writes PROVE RemoteForgets(v)'
  <2>1. RemoteForgets(v)
    BY DEF SharingInv
  <2>2. CASE l = "remote"
    BY <1>1, <2>2 DEF RemoteForgets, Includes
  <2>3. CASE l # "remote"
    <3>1. \A j \in Instances : "remote" \in todo'[<<v, j>>] <=> "remote" \in todo[<<v, j>>]
      BY <1>4, <2>3
    <3> QED BY <1>1, <2>1, <2>3, <3>1 DEF RemoteForgets, Begun, Includes
  <2> QED BY <2>2, <2>3
<1>7. \A q \in Queries : ReadsAfter(q)'
  BY <1>1 DEF SharingInv, ReadsAfter, Begun
<1> QED BY <1>1, <1>3, <1>5, <1>6, <1>7 DEF SharingInv

\* Both levels are clean, and the tickets valid again.
LEMMA DeletionEndsKeeps ==
  ASSUME SharingInv, NEW w \in Writes, NEW i \in Instances, DeletionEnds(w, i) PROVE SharingInv'
<1>1. /\ SharingTypeOK /\ <<w, i>> \in Writes \X Instances
      /\ handling[<<w, i>>] = "deleting" /\ todo[<<w, i>>] = {}
      /\ handling' = [handling EXCEPT ![<<w, i>>] = "done"]
      /\ UNCHANGED <<shared, local, remote, filling, refilling, todo, query, result, version, number>>
  BY DEF SharingInv, DeletionEnds, queryPart, writePart
<1>2. SharingTypeOK'
  BY <1>1 DEF SharingTypeOK
<1>3. \A v \in Writes, j \in Instances :
        /\ Begun(v, j)' <=> Begun(v, j)
        /\ handling'[<<v, j>>] \in Hearing <=> handling[<<v, j>>] \in Hearing
        /\ handling'[<<v, j>>] = "none" <=> handling[<<v, j>>] = "none"
        /\ todo[<<v, j>>] # {} => handling'[<<v, j>>] = handling[<<v, j>>]
  BY <1>1 DEF SharingTypeOK, Begun, Hearing
<1>4. \A v \in Writes, j \in Instances : Numbered(v, j)' /\ LocalForgets(v, j)'
  BY <1>1, <1>3 DEF SharingInv, Numbered, LocalForgets, Includes
<1>5. ASSUME NEW v \in Writes PROVE RemoteForgets(v)'
  <2>1. RemoteForgets(v)
    BY DEF SharingInv
  <2>2. CASE Includes(remote, v)
    BY <1>1, <2>2 DEF RemoteForgets, Includes
  <2>3. ASSUME NEW j \in Instances, handling[<<v, j>>] = "deleting", "remote" \in todo[<<v, j>>]
        PROVE  RemoteForgets(v)'
    <3>1. handling'[<<v, j>>] = "deleting" /\ "remote" \in todo'[<<v, j>>]
      BY <1>1, <1>3, <2>3
    <3> QED BY <3>1 DEF RemoteForgets
  <2> QED BY <1>3, <2>1, <2>2, <2>3 DEF RemoteForgets
<1>6. ASSUME NEW q \in Queries PROVE ReadsAfter(q)'
  <2>1. ReadsAfter(q) /\ HomeOf[q] \in Instances
    BY <1>1, SharingTypes DEF SharingInv
  <2> QED BY <1>1, <1>3, <2>1 DEF ReadsAfter
<1> QED BY <1>1, <1>2, <1>4, <1>5, <1>6 DEF SharingInv

\* The message goes out to the other processes.
LEMMA PublishesKeeps == ASSUME SharingInv, NEW w \in Writes, Publishes(w) PROVE SharingInv'
<1>1. PICK missed \in SUBSET (Instances \ {HomeOf[w]}) :
        /\ "publish" \in todo[<<w, HomeOf[w]>>]
        /\ todo' = [todo EXCEPT ![<<w, HomeOf[w]>>] = @ \ {"publish"}]
        /\ handling' = [x \in DOMAIN handling |->
                          IF x[1] # w \/ x[2] = HomeOf[w] THEN handling[x]
                          ELSE IF x[2] \in missed THEN "lost" ELSE "sent"]
        /\ UNCHANGED <<shared, local, remote, filling, refilling, query, result, version, number>>
  BY DEF Publishes, queryPart, writePart
<1>2. SharingTypeOK /\ HomeOf[w] \in Instances /\ <<w, HomeOf[w]>> \in Writes \X Instances
  BY SharingTypes DEF SharingInv
<1>3. /\ \A v \in Writes, j \in Instances : v # w \/ j = HomeOf[w] =>
           handling'[<<v, j>>] = handling[<<v, j>>]
      /\ \A j \in Instances : j # HomeOf[w] => handling'[<<w, j>>] \in {"lost", "sent"}
      /\ \A v \in Writes, j \in Instances : \A l \in Levels :
           l \in todo'[<<v, j>>] <=> l \in todo[<<v, j>>]
      /\ \A v \in Writes, j \in Instances : todo'[<<v, j>>] \subseteq todo[<<v, j>>]
  BY <1>1, <1>2 DEF SharingTypeOK, Levels
<1>4. SharingTypeOK'
  BY <1>1, <1>2 DEF SharingTypeOK
<1>5. \A v \in Writes, j \in Instances :
        /\ Begun(v, j)' => Begun(v, j) /\ handling'[<<v, j>>] = handling[<<v, j>>]
        /\ handling'[<<v, j>>] \in Hearing => handling[<<v, j>>] \in Hearing
  BY <1>3 DEF Begun, Hearing
<1>6. number[w] # 0
  BY <1>1, <1>2 DEF SharingInv, Numbered
<1>7. ASSUME NEW v \in Writes, NEW j \in Instances PROVE Numbered(v, j)' /\ LocalForgets(v, j)'
  <2>1. Numbered(v, j) /\ LocalForgets(v, j)
    BY DEF SharingInv
  <2> QED BY <1>1, <1>3, <1>5, <1>6, <2>1 DEF Numbered, LocalForgets, Includes, Levels
<1>8. ASSUME NEW v \in Writes PROVE RemoteForgets(v)'
  <2> SUFFICES ASSUME \A i \in Instances : Begun(v, i)'
               PROVE  \/ Includes(remote, v)'
                      \/ \E i \in Instances : /\ handling'[<<v, i>>] = "deleting"
                                               /\ "remote" \in todo'[<<v, i>>]
    BY DEF RemoteForgets
  <2>1. \A i \in Instances : Begun(v, i) /\ handling'[<<v, i>>] = handling[<<v, i>>]
    BY <1>5
  <2>2. CASE Includes(remote, v)
    BY <1>1, <2>2 DEF Includes
  <2>3. CASE \E i \in Instances : handling[<<v, i>>] = "deleting" /\ "remote" \in todo[<<v, i>>]
    BY <1>3, <2>1, <2>3 DEF Levels
  <2> QED BY <2>1, <2>2, <2>3 DEF SharingInv, RemoteForgets
<1>9. ASSUME NEW q \in Queries PROVE ReadsAfter(q)'
  <2>1. ReadsAfter(q) /\ HomeOf[q] \in Instances
    BY <1>2, SharingTypes DEF SharingInv
  <2> QED BY <1>1, <1>5, <2>1 DEF ReadsAfter
<1> QED BY <1>1, <1>4, <1>7, <1>8, <1>9 DEF SharingInv

\* A process that has handled an invalidation (DistributedCacheInvalidator) and shares no remote
\* level holds no entry from before it, nor does the remote level once all have handled it, with
\* late, reordered and lost messages and late refills: for any processes, queries and writes.
THEOREM InvalidationHolds == SharingSpec => []InvalidationReaches
<1>1. SharingInit => SharingInv
  BY SharingAssumption
     DEF SharingInit, SharingInv, SharingTypeOK, Numbered, LocalForgets, RemoteForgets, ReadsAfter,
         Begun, Includes
<1>2. SharingInv /\ [SharingNext]_sharingVars => SharingInv'
  <2> SUFFICES ASSUME SharingInv, [SharingNext]_sharingVars PROVE SharingInv'
    OBVIOUS
  <2>1. CASE UNCHANGED sharingVars
    BY <2>1 DEF sharingVars, SharingInv, SharingTypeOK, Numbered, LocalForgets, RemoteForgets,
                ReadsAfter, Begun, Includes
  <2>2. ASSUME NEW q \in Queries,
               \/ LooksUp(q) \/ LocalAnswers(q) \/ RemoteAnswers(q) \/ Refills(q)
               \/ Fetches(q) \/ Stores(q) \/ StoresNot(q) \/ StoresRemotely(q)
        PROVE  SharingInv'
    BY <2>2, QueryReads, QueryIsAnswered, QueryStores
  <2>3. ASSUME NEW w \in Writes, InvalidatesAtHome(w) PROVE SharingInv'
    <3>1. HomeOf[w] \in Instances
      BY SharingTypes DEF SharingInv
    <3> QED BY <2>3, <3>1, RevokesKeeps DEF InvalidatesAtHome, queryPart, writePart
  <2>4. ASSUME NEW w \in Writes, NEW i \in Instances, Hears(w, i) PROVE SharingInv'
    <3>1. number[w] > 0
      BY <2>4, SharingTypes DEF Hears, SharingInv, Numbered
    <3> QED BY <2>4, <3>1, RevokesKeeps DEF Hears, queryPart, writePart
  <2> QED BY <2>1, <2>2, <2>3, <2>4, WritingKeeps, DeletesKeeps, DeletesLevelKeeps,
             DeletionEndsKeeps, PublishesKeeps DEF SharingNext
<1>3. SharingInv => InvalidationReaches
  <2> SUFFICES ASSUME SharingInv PROVE InvalidationReaches
    OBVIOUS
  <2>1. ASSUME NEW w \in Writes, NEW i \in Instances, Handled(w, i)
        PROVE  Begun(w, i) /\ handling[<<w, i>>] # "deleting"
    BY <2>1 DEF Handled, Begun
  <2>2. HandledIsForgotten \/ shared
    BY <2>1 DEF SharingInv, Numbered, Handled, LocalForgets, HandledIsForgotten
  <2>3. RemoteIsClean
    BY <2>1 DEF SharingInv, RemoteForgets, RemoteIsClean
  <2> QED BY <2>2, <2>3 DEF SharingInv, InvalidationReaches
<1> QED BY <1>1, <1>2, <1>3, PTL DEF SharingSpec

-----------------------------------------------------------------------------
(* The versions of a Model.                                                *)

\* A document that has been removed for good is not written again.
Reborn(d) == \E c \in Calls : Is(c, {"insert", "upsert"}) /\ TargetOf[c] = d
NeverReborn == \A c \in Calls : Is(c, {"purge"}) => ~Reborn(TargetOf[c])
MoversAreVersioned == \A c \in MovesOut : ~Unversioned(c)

\* How many of the first n changes are versioned.
VersionedAmong(s, n) == {i \in 1..n : ~Unversioned(s[i].by)}
Counted(s, n) == Cardinality(VersionedAmong(s, n))

\* What a document is like that has had the first n of these changes.
Fits(r, s, n) ==
  /\ r \in Documents
  /\ r.ver = IF r.ver = NoVersion THEN NoVersion ELSE Counted(s, n)
  /\ r.ver = NoVersion => Counted(s, n) = 0
  /\ r.out <=> \E i \in 1..n : s[i].by \in MovesOut

Changes == [by : Calls, saw : Nat]
Sights == [doc : Documents \cup {Gone}, changes : Nat]
Results == [matched : SUBSET DocumentIds, conflicted : SUBSET DocumentIds, skipped : SUBSET DocumentIds]
HistoryTypeOK ==
  /\ VersionTypeOK /\ writes \in [DocumentIds -> Seq(Changes)]
  /\ seen \in [Calls -> [DocumentIds -> Sights]]
  /\ batch \in [Calls -> Seq(DocumentIds)] /\ report \in [Calls -> Results]

DocumentIs(d) ==
  /\ Exists(d) => Fits(doc[d], writes[d], Len(writes[d]))
  /\ ~Exists(d) /\ Reborn(d) => writes[d] = <<>>
  /\ \A i \in DOMAIN writes[d] : \A j \in (writes[d][i].saw + 1)..(i - 1) : Unversioned(writes[d][j].by)

\* What a call has seen of a document was so after some of its changes.
Saw(c, d) == seen[c][d].doc # Gone
SightIs(c, d) ==
  /\ seen[c][d].changes <= Len(writes[d])
  /\ Saw(c, d) =>
       /\ Fits(seen[c][d].doc, writes[d], seen[c][d].changes)
       /\ IF Exists(d) THEN doc[d].ver = NoVersion => seen[c][d].doc.ver = NoVersion ELSE ~Reborn(d)

Behind(c, d) == ~(Matches(d) /\ Unchanged(c, d))
Reported(c) == report[c].matched \cup report[c].conflicted \cup report[c].skipped

\* A strict call has written, reported or still keeps every candidate once.
StrictIs(c) ==
  /\ \A d \in DocumentIds : Saw(c, d) => d < next[c]
  /\ {d \in DocumentIds : Saw(c, d)} = Reported(c) \cup {batch[c][i] : i \in DOMAIN batch[c]}
  /\ \A i \in DOMAIN batch[c] : batch[c][i] \notin Reported(c)
  /\ \A i, j \in DOMAIN batch[c] : i # j => batch[c][i] # batch[c][j]
  /\ report[c].matched = {d \in DocumentIds : \E i \in DOMAIN writes[d] : writes[d][i].by = c}
  /\ \A d \in report[c].conflicted :
       /\ d \notin report[c].matched /\ seen[c][d].changes < Len(writes[d])
       /\ writes[d][seen[c][d].changes + 1].by \notin MovesOut
  /\ \A d \in report[c].skipped : d \notin report[c].matched \cup report[c].conflicted /\ ~Matches(d)
  /\ pc[c] = "looking" => /\ batch[c] # <<>> /\ Behind(c, Head(batch[c]))
                          /\ seen[c][Head(batch[c])].doc.ver # NoVersion
  /\ pc[c] = "done" => batch[c] = <<>>

CallIs(c) ==
  /\ Is(c, {"strict"}) => StrictIs(c)
  /\ pc[c] \in {"reading", "writing", "looking"} => Is(c, {"strict"})
  /\ pc[c] \in {"loaded", "found"} => Saw(c, TargetOf[c]) /\ ~Is(c, {"strict"})

VersionInv ==
  /\ HistoryTypeOK /\ \A d \in DocumentIds : DocumentIs(d)
  /\ \A c \in Calls : CallIs(c) /\ \A d \in DocumentIds : SightIs(c, d)

Wrote(c, d) == \E i \in DOMAIN writes[d] : writes[d][i].by = c

\* A count is a number.
LEMMA CountIs ==
  ASSUME NEW s, NEW n \in Nat
  PROVE  Counted(s, n) \in Nat /\ IsFiniteSet(VersionedAmong(s, n))
<1>1. IsFiniteSet(1..n)
  BY FS_Interval
<1>2. VersionedAmong(s, n) \subseteq 1..n
  BY DEF VersionedAmong
<1>3. IsFiniteSet(VersionedAmong(s, n))
  BY <1>1, <1>2, FS_Subset
<1> QED BY <1>3, FS_CardinalityType DEF Counted

\* Nothing has been counted before the first change.
LEMMA CountZero == ASSUME NEW s PROVE Counted(s, 0) = 0
<1>1. VersionedAmong(s, 0) = {}
  BY DEF VersionedAmong
<1> QED BY <1>1, FS_EmptySet DEF Counted

\* More changes count no less, and as much only if all of them are unversioned.
LEMMA CountOrder ==
  ASSUME NEW s, NEW n \in Nat, NEW m \in Nat, n <= m
  PROVE  /\ Counted(s, n) <= Counted(s, m)
         /\ Counted(s, n) = Counted(s, m) => \A i \in (n + 1)..m : Unversioned(s[i].by)
<1>1. VersionedAmong(s, n) \subseteq VersionedAmong(s, m)
  BY DEF VersionedAmong
<1>2. Counted(s, n) <= Counted(s, m)
  BY <1>1, CountIs, FS_Subset DEF Counted
<1>3. ASSUME Counted(s, n) = Counted(s, m), NEW i \in (n + 1)..m, ~Unversioned(s[i].by) PROVE FALSE
  <2>1. i \in VersionedAmong(s, m) /\ i \notin VersionedAmong(s, n)
    BY <1>3 DEF VersionedAmong
  <2>2. VersionedAmong(s, n) = VersionedAmong(s, m)
    BY <1>1, <1>3, CountIs, FS_Subset DEF Counted
  <2> QED BY <2>1, <2>2
<1> QED BY <1>2, <1>3

\* One change more counts for one if it is versioned.
LEMMA CountAppend ==
  ASSUME NEW s \in Seq(Changes), NEW e \in Changes
  PROVE  /\ \A n \in 0..Len(s) : Counted(Append(s, e), n) = Counted(s, n)
         /\ Unversioned(e.by) => Counted(Append(s, e), Len(s) + 1) = Counted(s, Len(s))
         /\ ~Unversioned(e.by) => Counted(Append(s, e), Len(s) + 1) = Counted(s, Len(s)) + 1
<1> DEFINE t == Append(s, e)
           l == Len(s)
<1>1. l \in Nat /\ (\A i \in 1..l : t[i] = s[i]) /\ t[l + 1] = e
  OBVIOUS
<1>2. ASSUME NEW n \in 0..l PROVE VersionedAmong(t, n) = VersionedAmong(s, n)
  BY <1>1 DEF VersionedAmong
<1>3. Unversioned(e.by) => VersionedAmong(t, l + 1) = VersionedAmong(s, l)
  BY <1>1 DEF VersionedAmong
<1>4. ~Unversioned(e.by) => VersionedAmong(t, l + 1) = VersionedAmong(s, l) \cup {l + 1}
  BY <1>1 DEF VersionedAmong
<1>5. IsFiniteSet(VersionedAmong(s, l)) /\ l + 1 \notin VersionedAmong(s, l)
  <2>1. IsFiniteSet(VersionedAmong(s, l))
    BY <1>1, CountIs
  <2>2. l + 1 \notin 1..l
    BY <1>1
  <2> QED BY <2>1, <2>2 DEF VersionedAmong
<1>6. Cardinality(VersionedAmong(s, l) \cup {l + 1}) = Cardinality(VersionedAmong(s, l)) + 1
  BY <1>5, FS_AddElement
<1> QED BY <1>2, <1>3, <1>4, <1>6 DEF Counted

\* What fits a prefix of a history fits it when the history goes on.
LEMMA FitsStill ==
  ASSUME NEW s \in Seq(Changes), NEW e \in Changes, NEW n \in 0..Len(s), NEW r, Fits(r, s, n)
  PROVE  Fits(r, Append(s, e), n)
<1>1. \A i \in 1..n : Append(s, e)[i] = s[i]
  OBVIOUS
<1> QED BY <1>1, CountAppend DEF Fits

\* A change of the documents by one call, as everybody sees it.
DocumentsMove(c) ==
  /\ \A d \in DocumentIds : DocumentIs(d)'
  /\ \A b \in Calls, d \in DocumentIds : SightIs(b, d)'
  /\ \A d \in DocumentIds : /\ Len(writes[d]) <= Len(writes'[d])
                            /\ \A i \in 1..Len(writes[d]) : writes'[d][i] = writes[d][i]
  /\ \A b \in Calls \ {c}, d \in DocumentIds : Wrote(b, d)' <=> Wrote(b, d)
  /\ \A b \in Calls, d \in DocumentIds :
       /\ Saw(b, d) /\ ~Matches(d) => ~Matches(d)'
       /\ Saw(b, d) /\ seen[b][d].doc.ver # NoVersion /\ Behind(b, d) => Behind(b, d)'

\* What HistoryTypeOK says of one document and of one sight of it.
LEMMA HistoryTypes ==
  ASSUME HistoryTypeOK
  PROVE  /\ \A d \in DocumentIds : writes[d] \in Seq(Changes) /\ Len(writes[d]) \in Nat
                                   /\ (Exists(d) => doc[d] \in Documents)
                                   /\ DOMAIN writes[d] = 1..Len(writes[d]) /\ d \in Nat
         /\ \A c \in Calls, d \in DocumentIds : seen[c][d].changes \in Nat
                                   /\ (Saw(c, d) => seen[c][d].doc \in Documents)
         /\ \A c \in Calls : TargetOf[c] \in DocumentIds
<1>1. ASSUME NEW d \in DocumentIds
      PROVE  /\ writes[d] \in Seq(Changes) /\ Len(writes[d]) \in Nat
             /\ (Exists(d) => doc[d] \in Documents)
             /\ DOMAIN writes[d] = 1..Len(writes[d]) /\ d \in Nat
  <2>1. d \in Nat
    BY VersionAssumption DEF DocumentIds
  <2>2. writes[d] \in Seq(Changes) /\ (Exists(d) => doc[d] \in Documents)
    BY DEF HistoryTypeOK, VersionTypeOK, Exists
  <2> QED BY <2>1, <2>2
<1>2. ASSUME NEW c \in Calls, NEW d \in DocumentIds
      PROVE  seen[c][d].changes \in Nat /\ (Saw(c, d) => seen[c][d].doc \in Documents)
  <2>1. seen[c][d] \in Sights
    BY DEF HistoryTypeOK
  <2> QED BY <2>1 DEF Sights, Saw
<1>3. \A c \in Calls : TargetOf[c] \in DocumentIds
  BY VersionAssumption DEF DocumentIds
<1> QED BY <1>1, <1>2, <1>3

\* A step that changes neither documents nor sights.
LEMMA NobodyMoves ==
  ASSUME VersionInv, NEW c \in Calls, UNCHANGED <<doc, writes, seen>>
  PROVE  DocumentsMove(c)
<1>1. HistoryTypeOK
  BY DEF VersionInv
<1> QED BY <1>1, HistoryTypes
        DEF DocumentsMove, VersionInv, DocumentIs, SightIs, Wrote, Saw, Matches, Exists, Behind, Unchanged

\* A write by call c, that has taken in the first n changes of the document.
LEMMA PutsMove ==
  ASSUME VersionInv, MoversAreVersioned, UNCHANGED seen,
         NEW c \in Calls, NEW d \in DocumentIds, NEW to \in Documents, NEW n \in 0..Len(writes[d]),
         Puts(c, d, to, n), Exists(d) \/ Reborn(d),
         to.out <=> \E i \in 1..Len(writes[d]) : writes[d][i].by \in MovesOut,
         ~Unversioned(c) => to.ver = Counted(writes[d], Len(writes[d])) + 1,
         Unversioned(c) => IF to.ver = NoVersion THEN Counted(writes[d], Len(writes[d])) = 0
                           ELSE to.ver = Counted(writes[d], Len(writes[d])),
         Exists(d) /\ to.ver = NoVersion => doc[d].ver = NoVersion,
         \A j \in (n + 1)..Len(writes[d]) : Unversioned(writes[d][j].by)
  PROVE  /\ doc' \in [DocumentIds -> Documents \cup {Gone}]
         /\ writes' \in [DocumentIds -> Seq(Changes)]
         /\ DocumentsMove(c) /\ Wrote(c, d)' /\ Exists(d)'
         /\ \A e \in DocumentIds \ {d} : Wrote(c, e)' <=> Wrote(c, e)
<1> DEFINE new == [by |-> c, saw |-> n]
           r == [to EXCEPT !.out = @ \/ c \in MovesOut]
           l == Len(writes[d])
<1>0. /\ HistoryTypeOK
      /\ \A e \in DocumentIds : DocumentIs(e)
      /\ \A b \in Calls, e \in DocumentIds : SightIs(b, e)
  BY DEF VersionInv
<1>0a. l \in Nat /\ writes[d] \in Seq(Changes)
  BY <1>0, HistoryTypes
<1>0b. n \in Nat /\ n <= l /\ new \in Changes
  BY <1>0a DEF Changes
<1>1. /\ HistoryTypeOK /\ l \in Nat /\ n \in Nat /\ n <= l /\ writes[d] \in Seq(Changes) /\ new \in Changes
      /\ \A e \in DocumentIds : DocumentIs(e)
      /\ \A b \in Calls, e \in DocumentIds : SightIs(b, e)
  BY <1>0, <1>0a, <1>0b
<1>2. /\ r \in Documents /\ r.ver = to.ver /\ (r.out <=> to.out \/ c \in MovesOut) /\ r # Gone
  BY VersionAssumption DEF Documents
<1>3. /\ doc' = [doc EXCEPT ![d] = r] /\ writes' = [writes EXCEPT ![d] = Append(@, new)]
      /\ doc \in [DocumentIds -> Documents \cup {Gone}] /\ writes \in [DocumentIds -> Seq(Changes)]
  BY <1>1 DEF Puts, HistoryTypeOK, VersionTypeOK
<1>4. /\ doc'[d] = r /\ writes'[d] = Append(writes[d], new)
      /\ \A e \in DocumentIds \ {d} : doc'[e] = doc[e] /\ writes'[e] = writes[e]
  BY <1>3
<1>5. /\ Len(writes'[d]) = l + 1 /\ DOMAIN writes'[d] = 1..(l + 1)
      /\ \A i \in 1..l : writes'[d][i] = writes[d][i]
      /\ writes'[d][l + 1] = new /\ new.by = c /\ new.saw = n
  BY <1>1, <1>4
<1> HIDE DEF new, r
<1>6. Exists(d)' /\ doc'[d] # Gone
  BY <1>2, <1>4 DEF Exists
<1>7. Fits(r, writes'[d], l + 1)
  <2>1. /\ Unversioned(c) => Counted(writes'[d], l + 1) = Counted(writes[d], l)
        /\ ~Unversioned(c) => Counted(writes'[d], l + 1) = Counted(writes[d], l) + 1
    BY <1>1, <1>4, <1>5, CountAppend
  <2>2. Counted(writes[d], l) \in Nat
    BY <1>1, CountIs
  <2>3. r.out <=> \E i \in 1..(l + 1) : writes'[d][i].by \in MovesOut
    <3>1. (\E i \in 1..(l + 1) : writes'[d][i].by \in MovesOut)
            <=> (\E i \in 1..l : writes[d][i].by \in MovesOut) \/ c \in MovesOut
      <4>1. l + 1 \in 1..(l + 1) /\ \A i \in 1..(l + 1) : i \in 1..l \/ i = l + 1
        BY <1>0a
      <4>2. \A i \in 1..l : i \in 1..(l + 1)
        BY <1>0a
      <4> QED BY <1>5, <4>1, <4>2
    <3> QED BY <1>2, <3>1
  <2>4. IF r.ver = NoVersion THEN Counted(writes'[d], l + 1) = 0
        ELSE r.ver = Counted(writes'[d], l + 1)
    BY <1>2, <2>1, <2>2, VersionAssumption
  <2> QED BY <1>2, <2>3, <2>4 DEF Fits
<1>8. \A e \in DocumentIds : DocumentIs(e)'
  <2>1. DocumentIs(d)'
    <3>1. \A i \in DOMAIN writes'[d] : \A j \in (writes'[d][i].saw + 1)..(i - 1) :
            Unversioned(writes'[d][j].by)
      <4> SUFFICES ASSUME NEW i \in 1..(l + 1), NEW j \in (writes'[d][i].saw + 1)..(i - 1)
                   PROVE  Unversioned(writes'[d][j].by)
        BY <1>5
      <4>1. writes'[d][i].saw \in Nat
        <5>1. i \in 1..l => writes[d][i] \in Changes
          BY <1>0a
        <5> QED BY <1>0a, <1>0b, <1>5, <5>1 DEF Changes
      <4>2. j \in 1..l
        <5> DEFINE saw == writes'[d][i].saw
        <5>1. saw \in Nat /\ j \in (saw + 1)..(i - 1)
          BY <4>1
        <5> HIDE DEF saw
        <5> QED BY <1>0a, <5>1
      <4>3. CASE i = l + 1
        <5>1. j \in (n + 1)..l
          BY <1>0a, <1>0b, <1>5, <4>2, <4>3
        <5> QED BY <1>5, <4>2, <5>1
      <4>4. CASE i \in 1..l
        <5>1. /\ writes'[d][i] = writes[d][i] /\ writes'[d][j] = writes[d][j]
              /\ i \in DOMAIN writes[d]
          BY <1>1, <1>5, <4>2, <4>4
        <5>2. \A k \in (writes[d][i].saw + 1)..(i - 1) : Unversioned(writes[d][k].by)
          BY <1>0, <5>1 DEF DocumentIs
        <5> QED BY <5>1, <5>2
      <4>5. i = l + 1 \/ i \in 1..l
        BY <1>0a
      <4> QED BY <4>3, <4>4, <4>5
    <3> QED BY <1>4, <1>5, <1>6, <1>7, <3>1 DEF DocumentIs, Exists
  <2>2. ASSUME NEW e \in DocumentIds \ {d} PROVE DocumentIs(e)'
    <3>1. DocumentIs(e)
      BY <1>1
    <3> QED BY <1>4, <3>1 DEF DocumentIs, Exists
  <2> QED BY <2>1, <2>2
<1>9. \A b \in Calls : Saw(b, d) => Exists(d)
  BY <1>1 DEF SightIs
<1>10. ASSUME NEW b \in Calls, NEW e \in DocumentIds PROVE SightIs(b, e)'
  <2>1. SightIs(b, e) /\ seen'[b][e] = seen[b][e] /\ seen[b][e].changes \in Nat
    BY <1>1, HistoryTypes
  <2>2. CASE e # d
    BY <1>4, <2>1, <2>2 DEF SightIs, Saw, Exists
  <2>3. CASE e = d
    <3>1. Saw(b, d) => Fits(seen[b][d].doc, writes'[d], seen[b][d].changes)
      BY <1>1, <1>4, <2>1, <2>3, FitsStill DEF SightIs
    <3>2. Saw(b, d) => (r.ver = NoVersion => seen[b][d].doc.ver = NoVersion)
      BY <1>2, <1>9, <2>1, <2>3 DEF SightIs
    <3>3. seen[b][d].changes <= Len(writes'[d])
      BY <1>0a, <1>5, <2>1, <2>3 DEF SightIs
    <3> QED BY <1>4, <1>6, <2>1, <2>3, <3>1, <3>2, <3>3 DEF SightIs, Saw
  <2> QED BY <2>2, <2>3
<1>11. \A e \in DocumentIds : /\ Len(writes[e]) <= Len(writes'[e])
                              /\ \A i \in 1..Len(writes[e]) : writes'[e][i] = writes[e][i]
  <2> SUFFICES ASSUME NEW e \in DocumentIds
               PROVE  /\ Len(writes[e]) <= Len(writes'[e])
                      /\ \A i \in 1..Len(writes[e]) : writes'[e][i] = writes[e][i]
    OBVIOUS
  <2>1. CASE e = d
    BY <1>0a, <1>5, <2>1
  <2>2. CASE e # d
    <3>1. writes'[e] = writes[e] /\ Len(writes[e]) \in Nat
      BY <1>1, <1>4, <2>2, HistoryTypes
    <3> QED BY <3>1
  <2> QED BY <2>1, <2>2
<1>12. \A b \in Calls \ {c}, e \in DocumentIds : Wrote(b, e)' <=> Wrote(b, e)
  <2> SUFFICES ASSUME NEW b \in Calls \ {c} PROVE Wrote(b, d)' <=> Wrote(b, d)
    <3>1. ASSUME NEW b \in Calls \ {c}, NEW e \in DocumentIds, e # d PROVE Wrote(b, e)' <=> Wrote(b, e)
      BY <1>4, <3>1 DEF Wrote
    <3> QED BY <3>1
  <2>1. DOMAIN writes[d] = 1..l /\ \A i \in 1..(l + 1) : i \in 1..l \/ i = l + 1
    BY <1>0a
  <2>2. \A i \in 1..l : i \in 1..(l + 1)
    BY <1>0a
  <2> QED BY <1>5, <2>1, <2>2 DEF Wrote
<1>13. ASSUME NEW b \in Calls, NEW e \in DocumentIds, Saw(b, e)
       PROVE  /\ ~Matches(e) => ~Matches(e)'
              /\ seen[b][e].doc.ver # NoVersion /\ Behind(b, e) => Behind(b, e)'
  <2>1. CASE e # d
    BY <1>4, <2>1 DEF Matches, Exists, Behind, Unchanged
  <2>2. CASE e = d
    <3>1. Exists(d) /\ SightIs(b, d) /\ DocumentIs(d) /\ seen[b][d].changes \in Nat
      BY <1>1, <1>9, <1>13, <2>2, HistoryTypes
    <3>2. ~Matches(d) => ~Matches(d)'
      BY <1>2, <1>4, <3>1 DEF Matches, DocumentIs, Fits
    <3>3. ASSUME seen[b][d].doc.ver # NoVersion, Unchanged(b, d)' PROVE Unchanged(b, d)
      <4>1. /\ doc'[d].ver = seen[b][d].doc.ver /\ doc'[d].ver # NoVersion
            /\ seen[b][d].doc.ver = Counted(writes[d], seen[b][d].changes)
            /\ doc[d].ver = NoVersion => seen[b][d].doc.ver = NoVersion
        BY <1>13, <2>2, <3>1, <3>3 DEF Unchanged, SightIs, Fits
      <4>2. /\ doc[d].ver # NoVersion /\ doc[d].ver = Counted(writes[d], l)
        BY <3>1, <3>3, <4>1 DEF DocumentIs, Fits
      <4>3. Counted(writes[d], seen[b][d].changes) <= Counted(writes[d], l)
        BY <1>1, <3>1, CountOrder DEF SightIs
      <4>4. Counted(writes[d], seen[b][d].changes) \in Nat /\ Counted(writes[d], l) \in Nat
        BY <1>1, <3>1, CountIs
      <4>5. to.ver = seen[b][d].doc.ver
        BY <1>2, <1>4, <4>1
      <4>6. to.ver >= Counted(writes[d], l)
        BY <4>1, <4>4, <4>5
      <4> QED BY <3>1, <4>1, <4>2, <4>3, <4>4, <4>5, <4>6 DEF Unchanged
    <3> QED BY <2>2, <3>2, <3>3 DEF Behind
  <2> QED BY <2>1, <2>2
<1>14. DocumentsMove(c)
  BY <1>8, <1>10, <1>11, <1>12, <1>13 DEF DocumentsMove
<1>15. Wrote(c, d)' /\ \A e \in DocumentIds \ {d} : Wrote(c, e)' <=> Wrote(c, e)
  BY <1>1, <1>4, <1>5 DEF Wrote
<1>16. /\ doc' \in [DocumentIds -> Documents \cup {Gone}]
       /\ writes' \in [DocumentIds -> Seq(Changes)]
  BY <1>1, <1>2, <1>3, <1>4
<1> QED BY <1>6, <1>14, <1>15, <1>16

\* A deleted document is not inserted again.
LEMMA PurgeMoves ==
  ASSUME VersionInv, NeverReborn, NEW c \in Calls, Purge(c)
  PROVE  /\ doc' \in [DocumentIds -> Documents \cup {Gone}] /\ DocumentsMove(c)
         /\ \A e \in DocumentIds : Wrote(c, e)' <=> Wrote(c, e)
<1>1. /\ HistoryTypeOK /\ TargetOf[c] \in DocumentIds /\ ~Reborn(TargetOf[c])
      /\ UNCHANGED <<writes, seen>> /\ doc' = [doc EXCEPT ![TargetOf[c]] = Gone]
      /\ doc \in [DocumentIds -> Documents \cup {Gone}]
  BY HistoryTypes DEF VersionInv, NeverReborn, Purge, HistoryTypeOK, VersionTypeOK
<1>2. /\ doc'[TargetOf[c]] = Gone /\ \A e \in DocumentIds : e # TargetOf[c] => doc'[e] = doc[e]
  BY <1>1
<1>3. ASSUME NEW e \in DocumentIds PROVE DocumentIs(e)'
  <2>1. DocumentIs(e)
    BY DEF VersionInv
  <2> QED BY <1>1, <1>2, <2>1 DEF DocumentIs, Exists
<1>4. ASSUME NEW b \in Calls, NEW e \in DocumentIds
      PROVE  /\ SightIs(b, e)'
             /\ Saw(b, e) /\ ~Matches(e) => ~Matches(e)'
             /\ Saw(b, e) /\ seen[b][e].doc.ver # NoVersion /\ Behind(b, e) => Behind(b, e)'
  <2>1. SightIs(b, e)
    BY DEF VersionInv
  <2> QED BY <1>1, <1>2, <2>1 DEF SightIs, Saw, Exists, Matches, Behind, Unchanged
<1>5. \A d \in DocumentIds : Len(writes[d]) \in Nat
  BY <1>1, HistoryTypes
<1> QED BY <1>1, <1>3, <1>4, <1>5 DEF DocumentsMove, Wrote

\* A document inserted where there never was one.
LEMMA InsertMoves ==
  ASSUME VersionInv, NEW c \in Calls, Insert(c)
  PROVE  /\ doc' \in [DocumentIds -> Documents \cup {Gone}] /\ DocumentsMove(c)
         /\ \A e \in DocumentIds : Wrote(c, e)' <=> Wrote(c, e)
<1>1. PICK d \in DocumentIds :
        /\ d = TargetOf[c] /\ Reborn(d) /\ UNCHANGED <<writes, seen>>
        /\ doc' = IF Exists(d) THEN doc ELSE [doc EXCEPT ![d] = Fresh]
  BY HistoryTypes DEF VersionInv, Insert, Reborn, Is
<1>2. HistoryTypeOK /\ doc \in [DocumentIds -> Documents \cup {Gone}]
  BY DEF VersionInv, HistoryTypeOK, VersionTypeOK
<1>3. CASE Exists(d)
  BY <1>1, <1>2, <1>3, NobodyMoves DEF Wrote
<1>4. CASE ~Exists(d)
  <2>1. /\ Fresh \in Documents /\ Fresh # Gone /\ Fresh.ver = 0 /\ Fresh.ver # NoVersion
        /\ ~Fresh.out
    <3>1. Fresh \in Documents /\ Fresh.ver = 0 /\ ~Fresh.out
      BY DEF Fresh, Documents
    <3> QED BY <3>1, VersionAssumption
  <2>2. /\ doc' \in [DocumentIds -> Documents \cup {Gone}] /\ doc'[d] = Fresh
        /\ \A e \in DocumentIds : e # d => doc'[e] = doc[e]
    BY <1>1, <1>2, <1>4, <2>1
  <2>3. writes[d] = <<>> /\ Len(writes[d]) = 0 /\ \A b \in Calls : ~Saw(b, d)
    BY <1>1, <1>4 DEF VersionInv, DocumentIs, SightIs
  <2>4. Fits(Fresh, writes[d], Len(writes[d]))
    BY <2>1, <2>3, CountZero DEF Fits
  <2>5. ASSUME NEW e \in DocumentIds PROVE DocumentIs(e)'
    <3>1. DocumentIs(e)
      BY DEF VersionInv
    <3> QED BY <1>1, <2>1, <2>2, <2>3, <2>4, <3>1 DEF DocumentIs, Exists
  <2>6. ASSUME NEW b \in Calls, NEW e \in DocumentIds
        PROVE  /\ SightIs(b, e)'
               /\ Saw(b, e) /\ ~Matches(e) => ~Matches(e)'
               /\ Saw(b, e) /\ seen[b][e].doc.ver # NoVersion /\ Behind(b, e) => Behind(b, e)'
    <3>1. SightIs(b, e)
      BY DEF VersionInv
    <3> QED BY <1>1, <2>2, <2>3, <3>1 DEF SightIs, Saw, Exists, Matches, Behind, Unchanged
  <2>7. \A e \in DocumentIds : Len(writes[e]) \in Nat
    BY <1>2, HistoryTypes
  <2> QED BY <1>1, <2>2, <2>5, <2>6, <2>7 DEF DocumentsMove, Wrote
<1> QED BY <1>3, <1>4

\* What a strict call knows stays true when others write.
LEMMA StrictStays ==
  ASSUME VersionInv, HistoryTypeOK', NEW b \in Calls, NEW c \in Calls, DocumentsMove(c),
         StrictIs(b), \A d \in DocumentIds : Wrote(b, d)' <=> Wrote(b, d),
         pc'[b] = pc[b] \/ pc'[b] \notin {"looking", "done"},
         next'[b] = next[b], batch'[b] = batch[b], report'[b] = report[b], seen' = seen
  PROVE  StrictIs(b)'
<1>1. HistoryTypeOK
  BY DEF VersionInv
<1>2. \A d \in DocumentIds : Saw(b, d)' <=> Saw(b, d)
  BY DEF Saw
<1>3. Reported(b)' = Reported(b) /\ Reported(b) \subseteq {d \in DocumentIds : Saw(b, d)}
  BY DEF Reported, StrictIs
<1>4. report'[b].matched = {d \in DocumentIds : \E i \in DOMAIN writes'[d] : writes'[d][i].by = b}
  BY DEF StrictIs, Wrote
<1>5. ASSUME NEW d \in report[b].conflicted
      PROVE  /\ d \notin report[b].matched /\ seen[b][d].changes < Len(writes'[d])
             /\ writes'[d][seen[b][d].changes + 1].by \notin MovesOut
  <2>1. /\ d \in DocumentIds /\ d \notin report[b].matched /\ seen[b][d].changes < Len(writes[d])
        /\ writes[d][seen[b][d].changes + 1].by \notin MovesOut
    BY <1>3, <1>5 DEF StrictIs, Reported
  <2>2. /\ seen[b][d].changes \in Nat /\ Len(writes[d]) \in Nat
        /\ Len(writes'[d]) >= Len(writes[d]) /\ Len(writes'[d]) \in Nat
        /\ \A i \in 1..Len(writes[d]) : writes'[d][i] = writes[d][i]
    <3>1. Len(writes'[d]) \in Nat
      BY <2>1 DEF HistoryTypeOK
    <3> QED BY <1>1, <2>1, <3>1, HistoryTypes DEF DocumentsMove
  <2> DEFINE k == seen[b][d].changes
  <2>3. k \in Nat /\ k < Len(writes[d]) /\ k < Len(writes'[d]) /\ k + 1 \in 1..Len(writes[d])
    <3>1. k \in Nat /\ k < Len(writes[d])
      BY <2>1, <2>2
    <3> HIDE DEF k
    <3> QED BY <2>2, <3>1
  <2>4. writes'[d][k + 1] = writes[d][k + 1]
    BY <2>2, <2>3
  <2> QED BY <2>1, <2>3, <2>4
<1>6. ASSUME NEW d \in report[b].skipped
      PROVE  d \notin report[b].matched \cup report[b].conflicted /\ ~Matches(d)'
  BY <1>3, <1>6 DEF StrictIs, Reported, DocumentsMove
<1>7. ASSUME pc'[b] = "looking"
      PROVE  /\ batch[b] # <<>> /\ Behind(b, Head(batch[b]))'
             /\ seen[b][Head(batch[b])].doc.ver # NoVersion
  <2>1. /\ batch[b] # <<>> /\ Behind(b, Head(batch[b]))
        /\ seen[b][Head(batch[b])].doc.ver # NoVersion
    BY <1>7 DEF StrictIs
  <2>2. PICK d \in DocumentIds : d = Head(batch[b]) /\ Saw(b, d)
    <3>1. batch[b] \in Seq(DocumentIds)
      BY <1>1 DEF HistoryTypeOK
    <3>2. 1 \in DOMAIN batch[b] /\ Head(batch[b]) = batch[b][1] /\ batch[b][1] \in DocumentIds
      BY <2>1, <3>1
    <3> QED BY <3>2 DEF StrictIs
  <2>3. Behind(b, d)'
    BY <2>1, <2>2 DEF DocumentsMove
  <2>4. \A e : e = Head(batch[b]) => Behind(b, e)'
    BY <2>2, <2>3
  <2> QED BY <2>1, <2>4 DEF Behind, Matches, Exists, Unchanged
<1> QED BY <1>2, <1>3, <1>4, <1>5, <1>6, <1>7 DEF StrictIs

\* A call moves on; the others stay where they are.
LEMMA OneCallActs ==
  ASSUME VersionInv, HistoryTypeOK', NEW c \in Calls, DocumentsMove(c), seen' = seen,
         \A b \in Calls \ {c} : /\ pc'[b] = pc[b] /\ next'[b] = next[b]
                                /\ batch'[b] = batch[b] /\ report'[b] = report[b],
         CallIs(c)'
  PROVE  VersionInv'
<1>1. ASSUME NEW b \in Calls, b # c PROVE CallIs(b)'
  <2>1. CallIs(b)
    BY DEF VersionInv
  <2>2. Is(b, {"strict"}) => StrictIs(b)'
    BY <1>1, <2>1, StrictStays DEF CallIs, DocumentsMove
  <2> QED BY <1>1, <2>1, <2>2 DEF CallIs, Saw
<1> QED BY <1>1 DEF VersionInv, DocumentsMove

\* A document as it is fits its whole history, and so does its next version.
LEMMA DocumentFits ==
  ASSUME VersionInv, NEW d \in DocumentIds, Exists(d)
  PROVE  /\ doc[d] \in Documents /\ Bumped(d) \in Documents /\ Bumped(d).ver # NoVersion
         /\ Bumped(d).ver = Counted(writes[d], Len(writes[d])) + 1
         /\ (Bumped(d).out <=> doc[d].out)
         /\ doc[d].out <=> \E i \in 1..Len(writes[d]) : writes[d][i].by \in MovesOut
         /\ IF doc[d].ver = NoVersion THEN Counted(writes[d], Len(writes[d])) = 0
            ELSE doc[d].ver = Counted(writes[d], Len(writes[d]))
<1>1. HistoryTypeOK /\ DocumentIs(d) /\ Len(writes[d]) \in Nat /\ doc[d] \in Documents
  BY HistoryTypes DEF VersionInv
<1>2. /\ doc[d].out <=> \E i \in 1..Len(writes[d]) : writes[d][i].by \in MovesOut
      /\ IF doc[d].ver = NoVersion THEN Counted(writes[d], Len(writes[d])) = 0
         ELSE doc[d].ver = Counted(writes[d], Len(writes[d]))
  BY <1>1 DEF DocumentIs, Fits
<1>3. Counted(writes[d], Len(writes[d])) \in Nat
  BY <1>1, CountIs
<1>4. /\ Bumped(d).ver = IF doc[d].ver = NoVersion THEN 1 ELSE doc[d].ver + 1
      /\ Bumped(d).out = doc[d].out
      /\ doc[d].ver \in Nat \cup {NoVersion}
  BY <1>1 DEF Bumped, Documents
<1>5. Bumped(d).ver \in Nat /\ Bumped(d).ver = Counted(writes[d], Len(writes[d])) + 1
  BY <1>2, <1>3, <1>4
<1>6. Bumped(d) \in Documents
  BY <1>1, <1>4, <1>5 DEF Bumped, Documents
<1> QED BY <1>1, <1>2, <1>4, <1>5, <1>6, VersionAssumption

\* Where the filter of a versioned write matches, only unversioned changes have come between.
LEMMA SightFits ==
  ASSUME VersionInv, MoversAreVersioned, NEW c \in Calls, NEW d \in DocumentIds, Saw(c, d),
         Unchanged(c, d), seen[c][d].doc.ver # NoVersion
  PROVE  /\ seen[c][d].changes \in 0..Len(writes[d]) /\ Exists(d)
         /\ \A j \in (seen[c][d].changes + 1)..Len(writes[d]) : Unversioned(writes[d][j].by)
         /\ seen[c][d].doc \in Documents
         /\ seen[c][d].doc.ver = Counted(writes[d], Len(writes[d]))
         /\ seen[c][d].doc.out <=> \E i \in 1..Len(writes[d]) : writes[d][i].by \in MovesOut
<1> DEFINE x == seen[c][d]
<1>1. /\ HistoryTypeOK /\ SightIs(c, d) /\ Exists(d) /\ x.changes \in Nat /\ Len(writes[d]) \in Nat
      /\ writes[d] \in Seq(Changes)
  BY HistoryTypes DEF VersionInv, Unchanged
<1>2. /\ x.changes <= Len(writes[d]) /\ x.doc \in Documents /\ doc[d].ver = x.doc.ver
      /\ x.doc.ver = Counted(writes[d], x.changes)
      /\ x.doc.out <=> \E i \in 1..x.changes : writes[d][i].by \in MovesOut
  BY <1>1 DEF SightIs, Fits, Unchanged
<1>3. x.doc.ver = Counted(writes[d], Len(writes[d]))
  BY <1>1, <1>2, DocumentFits
<1>4. \A j \in (x.changes + 1)..Len(writes[d]) : Unversioned(writes[d][j].by)
  BY <1>1, <1>2, <1>3, CountOrder
<1>5. ASSUME NEW i \in 1..Len(writes[d]), writes[d][i].by \in MovesOut PROVE i \in 1..x.changes
  <2>1. ~(i \in (x.changes + 1)..Len(writes[d]))
    BY <1>4, <1>5 DEF MoversAreVersioned
  <2> QED BY <1>1, <2>1
<1>6. \A i \in 1..x.changes : i \in 1..Len(writes[d])
  BY <1>1, <1>2
<1>7. x.doc.out <=> \E i \in 1..Len(writes[d]) : writes[d][i].by \in MovesOut
  BY <1>2, <1>5, <1>6
<1> QED BY <1>1, <1>2, <1>3, <1>4, <1>7

\* One write, by a call that is not strict.
LEMMA WriterActs ==
  ASSUME VersionInv, MoversAreVersioned,
         NEW c \in Calls, NEW d \in DocumentIds, NEW to \in Documents, NEW n \in 0..Len(writes[d]),
         ~Is(c, {"strict"}), Puts(c, d, to, n), Exists(d) \/ Reborn(d),
         to.out <=> \E i \in 1..Len(writes[d]) : writes[d][i].by \in MovesOut,
         ~Unversioned(c) => to.ver = Counted(writes[d], Len(writes[d])) + 1,
         Unversioned(c) => IF to.ver = NoVersion THEN Counted(writes[d], Len(writes[d])) = 0
                           ELSE to.ver = Counted(writes[d], Len(writes[d])),
         Exists(d) /\ to.ver = NoVersion => doc[d].ver = NoVersion,
         \A j \in (n + 1)..Len(writes[d]) : Unversioned(writes[d][j].by),
         NEW k \in {"idle", "done"}, pc' = [pc EXCEPT ![c] = k],
         next' \in [Calls -> 1..(DocumentCount + 1)], \A b \in Calls \ {c} : next'[b] = next[b],
         UNCHANGED <<seen, batch, report>>
  PROVE  VersionInv'
<1>1. /\ doc' \in [DocumentIds -> Documents \cup {Gone}] /\ writes' \in [DocumentIds -> Seq(Changes)]
      /\ DocumentsMove(c)
  BY PutsMove
<1>2. HistoryTypeOK
  BY DEF VersionInv
<1>3. HistoryTypeOK'
  BY <1>1, <1>2 DEF HistoryTypeOK, VersionTypeOK
<1>4. CallIs(c)'
  BY <1>2 DEF CallIs, HistoryTypeOK, VersionTypeOK, Is
<1>5. \A b \in Calls \ {c} : pc'[b] = pc[b]
  BY <1>2 DEF HistoryTypeOK, VersionTypeOK
<1> QED BY <1>1, <1>3, <1>4, <1>5, OneCallActs

\* save(): the whole document as it was read.
LEMMA SaveActs == ASSUME VersionInv, MoversAreVersioned, NEW c \in Calls, Save(c) PROVE VersionInv'
<1> DEFINE d == TargetOf[c]
           to == [seen[c][d].doc EXCEPT !.ver = @ + 1]
           n == seen[c][d].changes
<1>1. /\ HistoryTypeOK /\ d \in DocumentIds /\ Saw(c, d) /\ Unchanged(c, d)
      /\ seen[c][d].doc.ver # NoVersion /\ Is(c, {"save"}) /\ Puts(c, d, to, n)
      /\ pc' = [pc EXCEPT ![c] = "done"] /\ UNCHANGED <<seen, next, batch, report>>
  BY HistoryTypes DEF Save, Expected, Goto, VersionInv, CallIs
<1>2. /\ n \in 0..Len(writes[d]) /\ Exists(d)
      /\ \A j \in (n + 1)..Len(writes[d]) : Unversioned(writes[d][j].by)
      /\ seen[c][d].doc \in Documents
      /\ seen[c][d].doc.ver = Counted(writes[d], Len(writes[d]))
      /\ seen[c][d].doc.out <=> \E i \in 1..Len(writes[d]) : writes[d][i].by \in MovesOut
  BY <1>1, SightFits
<1>3. seen[c][d].doc.ver \in Nat
  BY <1>1, <1>2 DEF Documents
<1>4. /\ to \in Documents /\ to.ver = Counted(writes[d], Len(writes[d])) + 1 /\ to.ver # NoVersion
      /\ to.out <=> \E i \in 1..Len(writes[d]) : writes[d][i].by \in MovesOut
  <2>1. to \in Documents /\ to.ver = seen[c][d].doc.ver + 1 /\ to.out = seen[c][d].doc.out
    BY <1>2, <1>3 DEF Documents
  <2> HIDE DEF to
  <2> QED BY <1>2, <1>3, <2>1, VersionAssumption
<1>5. ~Unversioned(c) /\ ~Is(c, {"strict"})
  BY <1>1 DEF Is, Unversioned
<1>6. next' \in [Calls -> 1..(DocumentCount + 1)] /\ \A b \in Calls \ {c} : next'[b] = next[b]
  BY <1>1 DEF HistoryTypeOK, VersionTypeOK
<1> HIDE DEF to, d, n
<1> QED BY <1>1, <1>2, <1>4, <1>5, <1>6, WriterActs

\* A versioned update of single fields.
LEMMA PatchActs == ASSUME VersionInv, MoversAreVersioned, NEW c \in Calls, Patch(c) PROVE VersionInv'
<1> DEFINE d == TargetOf[c]
           n == seen[c][d].changes
<1>1. /\ HistoryTypeOK /\ d \in DocumentIds /\ Saw(c, d) /\ Unchanged(c, d)
      /\ seen[c][d].doc.ver # NoVersion /\ Is(c, {"patch", "auto"}) /\ Puts(c, d, Bumped(d), n)
      /\ pc' = [pc EXCEPT ![c] = "done"] /\ UNCHANGED <<seen, next, batch, report>>
  BY HistoryTypes DEF Patch, Prepared, Expected, VersionInv, CallIs
<1>2. /\ n \in 0..Len(writes[d]) /\ Exists(d)
      /\ \A j \in (n + 1)..Len(writes[d]) : Unversioned(writes[d][j].by)
  BY <1>1, SightFits
<1>5. ~Unversioned(c) /\ ~Is(c, {"strict"})
  BY <1>1 DEF Is, Unversioned
<1>6. next' \in [Calls -> 1..(DocumentCount + 1)] /\ \A b \in Calls \ {c} : next'[b] = next[b]
  BY <1>1 DEF HistoryTypeOK, VersionTypeOK
<1>7. /\ Bumped(d) \in Documents /\ Bumped(d).ver = Counted(writes[d], Len(writes[d])) + 1
      /\ Bumped(d).ver # NoVersion
      /\ Bumped(d).out <=> \E i \in 1..Len(writes[d]) : writes[d][i].by \in MovesOut
  BY <1>1, <1>2, DocumentFits
<1> HIDE DEF d, n
<1> QED BY <1>1, <1>2, <1>5, <1>6, <1>7, WriterActs

\* A write that names no version.
LEMMA BlindActs ==
  ASSUME VersionInv, MoversAreVersioned,
         NEW c \in Calls, NEW d \in DocumentIds, NEW to \in Documents,
         ~Is(c, {"strict"}), Blind(c, d, to), Exists(d) \/ Reborn(d),
         IF Exists(d)
         THEN /\ to.out <=> doc[d].out
              /\ to.ver = IF Unversioned(c) THEN doc[d].ver ELSE Bumped(d).ver
         ELSE /\ ~to.out /\ to.ver = NoVersion /\ Unversioned(c),
         NEW k \in {"idle", "done"}, pc' = [pc EXCEPT ![c] = k],
         next' \in [Calls -> 1..(DocumentCount + 1)], \A b \in Calls \ {c} : next'[b] = next[b],
         UNCHANGED <<seen, batch, report>>
  PROVE  VersionInv'
<1> DEFINE n == Len(writes[d])
<1>1. n \in Nat /\ n \in 0..Len(writes[d]) /\ Puts(c, d, to, n) /\ (n + 1)..Len(writes[d]) = {}
  BY HistoryTypes DEF Blind, VersionInv
<1>2. CASE Exists(d)
  <2>1. /\ to.out <=> \E i \in 1..Len(writes[d]) : writes[d][i].by \in MovesOut
        /\ ~Unversioned(c) => to.ver = Counted(writes[d], Len(writes[d])) + 1
        /\ Unversioned(c) => IF to.ver = NoVersion THEN Counted(writes[d], Len(writes[d])) = 0
                             ELSE to.ver = Counted(writes[d], Len(writes[d]))
        /\ to.ver = NoVersion => doc[d].ver = NoVersion
    BY <1>2, DocumentFits
  <2> HIDE DEF n
  <2> QED BY <1>1, <1>2, <2>1, WriterActs
<1>3. CASE ~Exists(d)
  <2>1. writes[d] = <<>> /\ Len(writes[d]) = 0
    BY <1>3 DEF VersionInv, DocumentIs
  <2>2. /\ to.out <=> \E i \in 1..Len(writes[d]) : writes[d][i].by \in MovesOut
        /\ ~Unversioned(c) => to.ver = Counted(writes[d], Len(writes[d])) + 1
        /\ Unversioned(c) => IF to.ver = NoVersion THEN Counted(writes[d], Len(writes[d])) = 0
                             ELSE to.ver = Counted(writes[d], Len(writes[d]))
    BY <1>3, <2>1, CountZero
  <2> HIDE DEF n
  <2> QED BY <1>1, <1>3, <2>2, WriterActs
<1> QED BY <1>2, <1>3

\* A step that leaves the positions alone.
LEMMA TypesStay ==
  ASSUME HistoryTypeOK, NEW c \in Calls, UNCHANGED next
  PROVE  next' \in [Calls -> 1..(DocumentCount + 1)] /\ \A b \in Calls \ {c} : next'[b] = next[b]
BY DEF HistoryTypeOK, VersionTypeOK

\* upsertOne, which gives no version.
LEMMA UpsertActs == ASSUME VersionInv, MoversAreVersioned, NEW c \in Calls, Upsert(c) PROVE VersionInv'
<1> DEFINE d == TargetOf[c]
           to == IF Exists(d) THEN doc[d] ELSE [Fresh EXCEPT !.ver = NoVersion]
<1>1. /\ HistoryTypeOK /\ d \in DocumentIds /\ Is(c, {"upsert"}) /\ Blind(c, d, to)
      /\ pc' = [pc EXCEPT ![c] = "done"] /\ UNCHANGED <<seen, next, batch, report>>
  BY HistoryTypes DEF Upsert, Goto, VersionInv
<1>2. Unversioned(c) /\ ~Is(c, {"strict"}) /\ Reborn(d)
  BY <1>1 DEF Is, Unversioned, Reborn
<1>3. /\ to \in Documents
      /\ IF Exists(d) THEN to = doc[d] ELSE ~to.out /\ to.ver = NoVersion
  BY <1>1, HistoryTypes DEF Fresh, Documents
<1> HIDE DEF to, d
<1>4. next' \in [Calls -> 1..(DocumentCount + 1)] /\ \A b \in Calls \ {c} : next'[b] = next[b]
  BY <1>1, TypesStay
<1> QED BY <1>1, <1>2, <1>3, <1>4, BlindActs

\* Writes that name no version and bump it.
LEMMA SingleActs ==
  ASSUME VersionInv, MoversAreVersioned, NEW c \in Calls,
         Increment(c) \/ SoftDelete(c) \/ Restore(c)
  PROVE  VersionInv'
<1> DEFINE d == TargetOf[c]
<1>1. PICK to \in {Bumped(d), [Bumped(d) EXCEPT !.deleted = TRUE], [Bumped(d) EXCEPT !.deleted = FALSE]} :
        /\ Exists(d) /\ Blind(c, d, to) /\ Is(c, {"increment", "delete", "restore"})
        /\ pc' = [pc EXCEPT ![c] = "done"] /\ UNCHANGED <<seen, next, batch, report>>
  BY DEF Increment, SoftDelete, Restore, Goto, Is
<1>2. HistoryTypeOK /\ d \in DocumentIds /\ ~Unversioned(c) /\ ~Is(c, {"strict"})
  BY <1>1, HistoryTypes DEF VersionInv, Is, Unversioned
<1>3. /\ Bumped(d) \in Documents /\ (Bumped(d).out <=> doc[d].out)
  BY <1>1, <1>2, DocumentFits
<1> HIDE DEF d
<1>4. to \in Documents /\ (to.out <=> doc[d].out) /\ to.ver = Bumped(d).ver
  BY <1>1, <1>3 DEF Documents
<1>5. next' \in [Calls -> 1..(DocumentCount + 1)] /\ \A b \in Calls \ {c} : next'[b] = next[b]
  BY <1>1, <1>2, TypesStay
<1> QED BY <1>1, <1>2, <1>4, <1>5, BlindActs

\* One document of an updateMany with versionMode counter or off.
LEMMA BulkActs == ASSUME VersionInv, MoversAreVersioned, NEW c \in Calls, BulkWrites(c) PROVE VersionInv'
<1> DEFINE d == next[c]
           k == IF d = DocumentCount THEN "done" ELSE "idle"
           to == IF Is(c, {"counter"}) THEN Bumped(d) ELSE doc[d]
<1>1. /\ HistoryTypeOK /\ d \in DocumentIds /\ Is(c, {"counter", "off"}) /\ k \in {"idle", "done"}
      /\ pc' = [pc EXCEPT ![c] = k] /\ next' = [next EXCEPT ![c] = @ + 1]
      /\ IF Matches(d) THEN Blind(c, d, to) ELSE UNCHANGED <<doc, writes>>
      /\ UNCHANGED <<seen, batch, report>>
  BY DEF BulkWrites, Goto, Passes, VersionInv
<1>2. next' \in [Calls -> 1..(DocumentCount + 1)] /\ \A b \in Calls \ {c} : next'[b] = next[b]
  BY <1>1, VersionAssumption DEF HistoryTypeOK, VersionTypeOK, DocumentIds
<1>3. ~Is(c, {"strict"}) /\ (Unversioned(c) <=> ~Is(c, {"counter"}))
  BY <1>1 DEF Is, Unversioned
<1> HIDE DEF d, k
<1>4. CASE Matches(d)
  <2>1. Exists(d) /\ Blind(c, d, to)
    BY <1>1, <1>4 DEF Matches
  <2>2. to \in Documents /\ (to.out <=> doc[d].out) /\ to.ver = IF Unversioned(c) THEN doc[d].ver ELSE Bumped(d).ver
    BY <1>1, <1>3, <2>1, DocumentFits
  <2> HIDE DEF to
  <2> QED BY <1>1, <1>2, <1>3, <2>1, <2>2, BlindActs
<1>5. CASE ~Matches(d)
  <2>1. UNCHANGED <<doc, writes, seen, batch, report>>
    BY <1>1, <1>5
  <2>2. HistoryTypeOK'
    BY <1>1, <1>2, <2>1 DEF HistoryTypeOK, VersionTypeOK
  <2>3. DocumentsMove(c)
    BY <2>1, NobodyMoves
  <2>4. CallIs(c)' /\ \A b \in Calls \ {c} : pc'[b] = pc[b]
    BY <1>1, <1>3 DEF HistoryTypeOK, VersionTypeOK, CallIs, Is
  <2> QED BY <1>2, <2>1, <2>2, <2>3, <2>4, OneCallActs
<1> QED BY <1>4, <1>5

\* Insertions, removals and refusals.
LEMMA RemovalActs ==
  ASSUME VersionInv, NeverReborn, NEW c \in Calls, Insert(c) \/ Purge(c) \/ CallRefused(c)
  PROVE  VersionInv'
<1>1. /\ HistoryTypeOK /\ UNCHANGED <<writes, seen, next, batch, report>>
      /\ \/ pc' = [pc EXCEPT ![c] = "done"]
         \/ pc' = [pc EXCEPT ![c] = "failed"]
      /\ ~Is(c, {"strict"})
  BY DEF VersionInv, Insert, Purge, CallRefused, Goto, Is
<1>2. doc' \in [DocumentIds -> Documents \cup {Gone}] /\ DocumentsMove(c)
  <2>1. CASE Insert(c) \/ Purge(c)
    BY <2>1, InsertMoves, PurgeMoves
  <2>2. CASE CallRefused(c)
    BY <1>1, <2>2, NobodyMoves DEF CallRefused, HistoryTypeOK, VersionTypeOK
  <2> QED BY <2>1, <2>2
<1>3. HistoryTypeOK'
  BY <1>1, <1>2 DEF HistoryTypeOK, VersionTypeOK
<1>4. CallIs(c)' /\ \A b \in Calls \ {c} : pc'[b] = pc[b]
  BY <1>1 DEF HistoryTypeOK, VersionTypeOK, CallIs, Is
<1> QED BY <1>1, <1>2, <1>3, <1>4, OneCallActs

\* What is read now fits the whole history so far.
LEMMA SeesFits ==
  ASSUME VersionInv, NEW c \in Calls, NEW d \in DocumentIds, Sees(c, d), UNCHANGED <<doc, writes>>
  PROVE  /\ seen' \in [Calls -> [DocumentIds -> Sights]]
         /\ \A b \in Calls, e \in DocumentIds : SightIs(b, e)'
         /\ \A e \in DocumentIds : DocumentIs(e)'
         /\ \A b \in Calls \ {c} : seen'[b] = seen[b]
         /\ \A e \in DocumentIds \ {d} : seen'[c][e] = seen[c][e]
         /\ Saw(c, d)' <=> Exists(d)
<1> DEFINE x == [doc |-> doc[d], changes |-> Len(writes[d])]
<1>1. /\ HistoryTypeOK /\ Len(writes[d]) \in Nat /\ doc[d] \in Documents \cup {Gone}
      /\ seen \in [Calls -> [DocumentIds -> Sights]] /\ seen' = [seen EXCEPT ![c][d] = x]
  BY HistoryTypes DEF VersionInv, HistoryTypeOK, VersionTypeOK, Sees
<1>2. x \in Sights /\ x.doc = doc[d] /\ x.changes = Len(writes[d])
  BY <1>1 DEF Sights
<1> HIDE DEF x
<1>3. /\ seen' \in [Calls -> [DocumentIds -> Sights]] /\ seen'[c][d] = x
      /\ \A b \in Calls \ {c} : seen'[b] = seen[b]
      /\ \A e \in DocumentIds \ {d} : seen'[c][e] = seen[c][e]
  BY <1>1, <1>2
<1>4. ASSUME NEW b \in Calls, NEW e \in DocumentIds PROVE SightIs(b, e)'
  <2>1. SightIs(b, e) /\ DocumentIs(d)
    BY DEF VersionInv
  <2>2. CASE b = c /\ e = d
    BY <1>1, <1>2, <1>3, <2>1, <2>2 DEF SightIs, DocumentIs, Saw, Exists
  <2>3. CASE ~(b = c /\ e = d)
    <3>1. seen'[b][e] = seen[b][e]
      BY <1>3, <2>3
    <3> QED BY <2>1, <3>1 DEF SightIs, Saw, Exists
  <2> QED BY <2>2, <2>3
<1>5. \A e \in DocumentIds : DocumentIs(e)'
  BY DEF VersionInv, DocumentIs, Exists
<1>6. Saw(c, d)' <=> Exists(d)
  BY <1>2, <1>3 DEF Saw, Exists
<1> QED BY <1>3, <1>4, <1>5, <1>6

\* The calls that look on know what they knew.
LEMMA OthersLookOn ==
  ASSUME VersionInv, NEW c \in Calls, UNCHANGED <<doc, writes>>,
         NEW b \in Calls, b # c, seen'[b] = seen[b], pc'[b] = pc[b], next'[b] = next[b],
         batch'[b] = batch[b], report'[b] = report[b]
  PROVE  CallIs(b)'
<1>1. CallIs(b)
  BY DEF VersionInv
<1>2. StrictIs(b) => StrictIs(b)'
  BY DEF StrictIs, Saw, Reported, Matches, Exists, Behind, Unchanged
<1> QED BY <1>1, <1>2 DEF CallIs, Saw

\* A document is read, or looked up for its version.
LEMMA LoadActs == ASSUME VersionInv, NEW c \in Calls, Load(c) \/ Lookup(c) PROVE VersionInv'
<1> DEFINE d == TargetOf[c]
<1>1. /\ HistoryTypeOK /\ d \in DocumentIds /\ Sees(c, d) /\ UNCHANGED <<doc, writes, next, batch, report>>
      /\ Is(c, {"save", "patch", "auto"})
      /\ \/ \E p \in {"loaded", "found"} : pc' = [pc EXCEPT ![c] = p] /\ Exists(d)
         \/ pc' = [pc EXCEPT ![c] = "failed"]
  BY HistoryTypes DEF VersionInv, Load, Lookup, Unexpected, Goto, Is
<1> HIDE DEF d
<1>2. HistoryTypeOK'
  BY <1>1, SeesFits DEF HistoryTypeOK, VersionTypeOK
<1>3. pc \in [Calls -> {"unmade", "idle", "loaded", "found", "reading", "writing", "looking", "done", "failed"}]
  BY <1>1 DEF HistoryTypeOK, VersionTypeOK
<1>4. CallIs(c)'
  <2>1. ~Is(c, {"strict"})
    BY <1>1 DEF Is
  <2>2. pc'[c] \in {"loaded", "found"} => Saw(c, d)'
    BY <1>1, <1>3, SeesFits
  <2>3. pc'[c] \in {"loaded", "found", "failed"}
    BY <1>1, <1>3
  <2> QED BY <2>1, <2>2, <2>3 DEF CallIs, d, Is
<1>5. \A b \in Calls \ {c} : CallIs(b)'
  BY <1>1, <1>3, SeesFits, OthersLookOn
<1>6. ASSUME NEW b \in Calls PROVE CallIs(b)'
  BY <1>4, <1>5
<1> QED BY <1>1, <1>2, <1>6, SeesFits DEF VersionInv

\* The stream of candidates hands over one more.
LEMMA StrictReadsActs == ASSUME VersionInv, NEW c \in Calls, StrictReads(c) PROVE VersionInv'
<1>1. PICK d \in DocumentIds :
        /\ d = next[c] /\ d \in Nat /\ Is(c, {"strict"}) /\ Len(batch[c]) < CandidateBatch
        /\ pc' = [pc EXCEPT ![c] = "reading"] /\ next' = [next EXCEPT ![c] = @ + 1]
        /\ IF Matches(d) THEN Sees(c, d) /\ batch' = [batch EXCEPT ![c] = Append(@, d)]
           ELSE UNCHANGED <<seen, batch>>
        /\ UNCHANGED <<doc, writes, report>>
  BY VersionAssumption DEF StrictReads, Passes, DocumentIds
<1>2. /\ HistoryTypeOK /\ StrictIs(c) /\ batch[c] \in Seq(DocumentIds)
      /\ pc \in [Calls -> {"unmade", "idle", "loaded", "found", "reading", "writing", "looking", "done", "failed"}]
      /\ next \in [Calls -> 1..(DocumentCount + 1)] /\ batch \in [Calls -> Seq(DocumentIds)]
      /\ DocumentIds \subseteq Nat
  BY <1>1, VersionAssumption DEF VersionInv, CallIs, HistoryTypeOK, VersionTypeOK, DocumentIds
<1>3. next' \in [Calls -> 1..(DocumentCount + 1)] /\ next'[c] = d + 1
  BY <1>1, <1>2, VersionAssumption DEF DocumentIds
<1>4. \A b \in Calls \ {c} : pc'[b] = pc[b] /\ next'[b] = next[b] /\ batch'[b] = batch[b]
  BY <1>1, <1>2
<1>5. pc'[c] = "reading" /\ pc' \in [Calls -> {"unmade", "idle", "loaded", "found", "reading", "writing", "looking", "done", "failed"}]
  BY <1>1, <1>2
<1>6. CASE Matches(d)
  <2>1. Sees(c, d) /\ batch' = [batch EXCEPT ![c] = Append(@, d)] /\ Exists(d)
    BY <1>1, <1>6 DEF Matches
  <2>2. batch' \in [Calls -> Seq(DocumentIds)] /\ batch'[c] = Append(batch[c], d)
    BY <1>2, <2>1
  <2>3. \A b \in Calls : Len(batch'[b]) <= CandidateBatch
    <3>1. Len(batch'[c]) = Len(batch[c]) + 1 /\ Len(batch[c]) \in Nat
      BY <1>2, <2>2
    <3>2. Len(batch'[c]) <= CandidateBatch
      BY <1>1, <3>1, VersionAssumption
    <3>3. \A b \in Calls : b # c => Len(batch'[b]) <= CandidateBatch
      BY <1>2, <1>4 DEF HistoryTypeOK, VersionTypeOK
    <3> QED BY <3>2, <3>3
  <2>4. HistoryTypeOK'
    BY <1>1, <1>2, <1>3, <1>5, <2>1, <2>2, <2>3, SeesFits DEF HistoryTypeOK, VersionTypeOK
  <2>5. /\ Saw(c, d)' /\ ~Saw(c, d) /\ \A e \in DocumentIds \ {d} : Saw(c, e)' <=> Saw(c, e)
    BY <1>1, <1>2, <2>1, SeesFits DEF StrictIs, Saw
  <2>6. /\ DOMAIN batch'[c] = 1..(Len(batch[c]) + 1) /\ Len(batch[c]) \in Nat
        /\ DOMAIN batch[c] = 1..Len(batch[c])
        /\ \A i \in DOMAIN batch[c] : batch'[c][i] = batch[c][i] /\ Saw(c, batch[c][i]) /\ batch[c][i] # d
        /\ batch'[c][Len(batch[c]) + 1] = d
    BY <1>2, <2>2, <2>5 DEF StrictIs
  <2>7. StrictIs(c)'
    <3>1. \A e \in DocumentIds : Saw(c, e)' => e < next'[c]
      <4> SUFFICES ASSUME NEW e \in DocumentIds, Saw(c, e)' PROVE e < d + 1
        BY <1>3
      <4>1. e \in Nat /\ d \in Nat
        BY <1>2
      <4>2. e # d => e < d
        BY <1>1, <1>2, <2>5 DEF StrictIs
      <4> QED BY <4>1, <4>2
    <3>2. Reported(c)' = Reported(c) /\ d \notin Reported(c)
      BY <1>1, <1>2, <2>5 DEF Reported, StrictIs
    <3>3. {batch'[c][i] : i \in DOMAIN batch'[c]} = {batch[c][i] : i \in DOMAIN batch[c]} \cup {d}
      <4>1. \A i \in DOMAIN batch'[c] : i \in DOMAIN batch[c] \/ i = Len(batch[c]) + 1
        BY <2>6
      <4>2. \A i \in DOMAIN batch[c] : i \in DOMAIN batch'[c]
        BY <2>6
      <4>3. Len(batch[c]) + 1 \in DOMAIN batch'[c]
        BY <2>6
      <4> QED BY <2>6, <4>1, <4>2, <4>3
    <3>4. {e \in DocumentIds : Saw(c, e)'} = {e \in DocumentIds : Saw(c, e)} \cup {d}
      BY <2>5
    <3>5. \A i \in DOMAIN batch'[c] : batch'[c][i] \notin Reported(c)
      BY <1>2, <2>6, <3>2 DEF StrictIs
    <3>6. \A i, j \in DOMAIN batch'[c] : i # j => batch'[c][i] # batch'[c][j]
      BY <1>2, <2>6 DEF StrictIs
    <3>7. \A e \in report[c].conflicted \cup report[c].skipped :
            e \in DocumentIds /\ Saw(c, e) /\ e # d /\ seen'[c][e] = seen[c][e]
      <4>1. Reported(c) \subseteq {e \in DocumentIds : Saw(c, e)}
        BY <1>2 DEF StrictIs
      <4>2. \A e \in DocumentIds \ {d} : seen'[c][e] = seen[c][e]
        BY <1>1, <2>1, SeesFits
      <4> QED BY <3>2, <4>1, <4>2 DEF Reported
    <3>8. report'[c] = report[c] /\ UNCHANGED <<doc, writes>>
      BY <1>1
    <3>9. \A e \in report[c].conflicted :
            /\ e \notin report[c].matched /\ seen'[c][e].changes < Len(writes[e])
            /\ writes[e][seen'[c][e].changes + 1].by \notin MovesOut
      BY <1>2, <3>7 DEF StrictIs
    <3>10. \A e \in report[c].skipped : e \notin report[c].matched \cup report[c].conflicted /\ ~Matches(e)'
      BY <1>2, <3>8 DEF StrictIs, Matches, Exists
    <3>11. {e \in DocumentIds : Saw(c, e)'} = Reported(c) \cup {batch'[c][i] : i \in DOMAIN batch'[c]}
      BY <1>2, <3>3, <3>4 DEF StrictIs
    <3>12. report[c].matched = {e \in DocumentIds : \E i \in DOMAIN writes[e] : writes[e][i].by = c}
      BY <1>2 DEF StrictIs
    <3> QED BY <1>5, <3>1, <3>2, <3>5, <3>6, <3>8, <3>9, <3>10, <3>11, <3>12 DEF StrictIs
  <2>8. CallIs(c)'
    BY <1>1, <1>5, <2>7 DEF CallIs, Is
  <2>9. \A b \in Calls \ {c} : CallIs(b)'
    BY <1>1, <1>4, <2>1, SeesFits, OthersLookOn
  <2>10. ASSUME NEW b \in Calls PROVE CallIs(b)'
    BY <2>8, <2>9
  <2> QED BY <1>1, <2>1, <2>4, <2>10, SeesFits DEF VersionInv
<1>7. CASE ~Matches(d)
  <2>1. UNCHANGED <<doc, writes, seen, batch, report>>
    BY <1>1, <1>7
  <2>2. HistoryTypeOK'
    BY <1>2, <1>3, <1>5, <2>1 DEF HistoryTypeOK, VersionTypeOK
  <2>3. \A e \in DocumentIds : e < next[c] => e < next'[c]
    BY <1>1, <1>2, <1>3
  <2>4. StrictIs(c)'
    <3>1. \A e \in DocumentIds : Saw(c, e)' => e < next'[c]
      BY <1>2, <2>1, <2>3 DEF StrictIs, Saw
    <3>2. Reported(c)' = Reported(c) /\ \A e \in DocumentIds : Saw(c, e)' <=> Saw(c, e)
      BY <2>1 DEF Reported, Saw
    <3>3. \A e \in report[c].skipped : e \notin report[c].matched \cup report[c].conflicted /\ ~Matches(e)'
      BY <1>2, <2>1 DEF StrictIs, Matches, Exists
    <3>4. /\ \A i \in DOMAIN batch[c] : batch[c][i] \notin Reported(c)
          /\ \A i, j \in DOMAIN batch[c] : i # j => batch[c][i] # batch[c][j]
          /\ report[c].matched = {e \in DocumentIds : \E i \in DOMAIN writes[e] : writes[e][i].by = c}
          /\ \A e \in report[c].conflicted :
               /\ e \notin report[c].matched /\ seen[c][e].changes < Len(writes[e])
               /\ writes[e][seen[c][e].changes + 1].by \notin MovesOut
          /\ {e \in DocumentIds : Saw(c, e)} = Reported(c) \cup {batch[c][i] : i \in DOMAIN batch[c]}
      BY <1>2 DEF StrictIs
    <3> QED BY <1>5, <2>1, <3>1, <3>2, <3>3, <3>4 DEF StrictIs
  <2>5. CallIs(c)'
    BY <1>1, <1>5, <2>4 DEF CallIs, Is
  <2>6. DocumentsMove(c)
    BY <2>1, NobodyMoves
  <2> QED BY <1>4, <2>1, <2>2, <2>5, <2>6, OneCallActs
<1> QED BY <1>6, <1>7

\* Its next candidate, and what is left when it has been dealt with.
LEMMA BatchIs ==
  ASSUME VersionInv, NEW c \in Calls, StrictIs(c), batch[c] # <<>>
  PROVE  /\ batch[c] \in Seq(DocumentIds) /\ Tail(batch[c]) \in Seq(DocumentIds)
         /\ Len(Tail(batch[c])) <= Len(batch[c]) /\ Len(Tail(batch[c])) <= CandidateBatch
         /\ Head(batch[c]) \in DocumentIds /\ Saw(c, Head(batch[c])) /\ Head(batch[c]) \notin Reported(c)
         /\ {batch[c][i] : i \in DOMAIN batch[c]}
              = {Tail(batch[c])[i] : i \in DOMAIN Tail(batch[c])} \cup {Head(batch[c])}
         /\ \A i \in DOMAIN Tail(batch[c]) :
              Tail(batch[c])[i] # Head(batch[c]) /\ Tail(batch[c])[i] \notin Reported(c)
         /\ \A i, j \in DOMAIN Tail(batch[c]) : i # j => Tail(batch[c])[i] # Tail(batch[c])[j]
<1> DEFINE s == batch[c]
           t == Tail(s)
<1>1. /\ s \in Seq(DocumentIds) /\ s # <<>> /\ Len(s) <= CandidateBatch
      /\ \A i \in DOMAIN s : s[i] \in DocumentIds /\ Saw(c, s[i]) /\ s[i] \notin Reported(c)
      /\ \A i, j \in DOMAIN s : i # j => s[i] # s[j]
  BY DEF VersionInv, HistoryTypeOK, VersionTypeOK, StrictIs
<1>2. /\ Len(s) \in Nat /\ Len(s) > 0 /\ DOMAIN s = 1..Len(s) /\ t \in Seq(DocumentIds)
      /\ Len(t) = Len(s) - 1 /\ DOMAIN t = 1..(Len(s) - 1) /\ Head(s) = s[1]
      /\ \A i \in 1..(Len(s) - 1) : t[i] = s[i + 1]
  BY <1>1
<1>3. Len(t) <= Len(s) /\ Len(t) <= CandidateBatch
  BY <1>1, <1>2, VersionAssumption
<1>4. /\ 1 \in DOMAIN s /\ \A i \in DOMAIN t : i + 1 \in DOMAIN s /\ i + 1 # 1 /\ i \in Nat
      /\ \A i \in DOMAIN s : i = 1 \/ (i - 1 \in DOMAIN t /\ (i - 1) + 1 = i)
  BY <1>2
<1> HIDE DEF s, t
<1>5. {s[i] : i \in DOMAIN s} = {t[i] : i \in DOMAIN t} \cup {Head(s)}
  <2>1. \A i \in DOMAIN s : s[i] \in {t[j] : j \in DOMAIN t} \cup {Head(s)}
    BY <1>2, <1>4
  <2>2. \A i \in DOMAIN t : t[i] \in {s[j] : j \in DOMAIN s}
    BY <1>2, <1>4
  <2>3. Head(s) \in {s[j] : j \in DOMAIN s}
    BY <1>2, <1>4
  <2> QED BY <2>1, <2>2, <2>3
<1>6. \A i \in DOMAIN t : t[i] # Head(s) /\ t[i] \notin Reported(c)
  <2> SUFFICES ASSUME NEW i \in DOMAIN t PROVE s[i + 1] # s[1] /\ s[i + 1] \notin Reported(c)
    BY <1>2
  <2> DEFINE m == i + 1
  <2>1. m \in DOMAIN s /\ 1 \in DOMAIN s /\ m # 1
    BY <1>4
  <2> HIDE DEF m
  <2>2. s[m] # s[1] /\ s[m] \notin Reported(c)
    BY <1>1, <2>1
  <2> QED BY <2>2 DEF m
<1>7. \A i, j \in DOMAIN t : i # j => t[i] # t[j]
  <2> SUFFICES ASSUME NEW i \in DOMAIN t, NEW j \in DOMAIN t, i # j PROVE s[i + 1] # s[j + 1]
    BY <1>2
  <2> DEFINE m == i + 1
             n == j + 1
  <2>1. m \in DOMAIN s /\ n \in DOMAIN s /\ m # n
    BY <1>4
  <2> HIDE DEF m, n
  <2>2. \A p, q \in DOMAIN s : p # q => s[p] # s[q]
    BY <1>1
  <2>3. s[m] # s[n]
    BY <2>1, <2>2
  <2> QED BY <2>3 DEF m, n
<1>8. s \in Seq(DocumentIds) /\ t \in Seq(DocumentIds) /\ Len(t) <= Len(s) /\ Len(t) <= CandidateBatch
  BY <1>1, <1>2, <1>3
<1>9. Head(s) \in DocumentIds /\ Saw(c, Head(s)) /\ Head(s) \notin Reported(c)
  BY <1>1, <1>2, <1>4
<1> QED BY <1>5, <1>6, <1>7, <1>8, <1>9 DEF s, t

\* A batch is full, or written.
LEMMA StrictTurnsActs ==
  ASSUME VersionInv, NEW c \in Calls, StrictTurns(c) \/ StrictEnds(c) PROVE VersionInv'
<1>1. /\ HistoryTypeOK /\ CallIs(c) /\ UNCHANGED <<doc, writes, seen, next, batch, report>>
      /\ pc[c] \in {"reading", "writing"}
      /\ \/ pc' = [pc EXCEPT ![c] = "writing"]
         \/ pc' = [pc EXCEPT ![c] = "reading"]
         \/ pc' = [pc EXCEPT ![c] = "done"] /\ batch[c] = <<>>
  BY DEF VersionInv, StrictTurns, StrictEnds, Goto
<1>2. HistoryTypeOK'
  BY <1>1 DEF HistoryTypeOK, VersionTypeOK
<1>3. StrictIs(c) /\ Is(c, {"strict"})
  BY <1>1 DEF CallIs
<1>4. /\ pc'[c] \in {"reading", "writing", "done"} /\ (pc'[c] = "done" => batch[c] = <<>>)
      /\ \A b \in Calls \ {c} : pc'[b] = pc[b]
  BY <1>1 DEF HistoryTypeOK, VersionTypeOK
<1>5. StrictIs(c)'
  BY <1>1, <1>3, <1>4 DEF StrictIs, Saw, Reported, Matches, Exists
<1>6. CallIs(c)'
  BY <1>3, <1>4, <1>5 DEF CallIs, Is
<1> QED BY <1>1, <1>2, <1>4, <1>6, NobodyMoves, OneCallActs

\* A candidate has been dealt with.
LEMMA CandidateIsReported ==
  ASSUME VersionInv, HistoryTypeOK', NEW c \in Calls, StrictIs(c), batch[c] # <<>>,
         DocumentsMove(c), UNCHANGED <<seen, next>>, NextInBatch(c), pc'[c] = "writing",
         NEW what \in {"matched", "conflicted", "skipped"}, Reports(c, what),
         NEW d \in DocumentIds, d = Head(batch[c]),
         \A e \in DocumentIds : Wrote(c, e)' <=> Wrote(c, e) \/ (what = "matched" /\ e = d),
         what = "conflicted" => /\ seen[c][d].changes < Len(writes'[d])
                                /\ writes'[d][seen[c][d].changes + 1].by \notin MovesOut,
         what = "skipped" => ~Matches(d)'
  PROVE  StrictIs(c)'
<1> DEFINE r == report[c]
           q == report'[c]
<1>1. /\ HistoryTypeOK /\ r \in Results /\ report' = [report EXCEPT ![c][what] = @ \cup {d}]
      /\ batch'[c] = Tail(batch[c]) /\ d \notin Reported(c)
  BY BatchIs DEF VersionInv, HistoryTypeOK, Reports, NextInBatch
<1>2. /\ q.matched = IF what = "matched" THEN r.matched \cup {d} ELSE r.matched
      /\ q.conflicted = IF what = "conflicted" THEN r.conflicted \cup {d} ELSE r.conflicted
      /\ q.skipped = IF what = "skipped" THEN r.skipped \cup {d} ELSE r.skipped
  <2>1. q = [r EXCEPT ![what] = @ \cup {d}]
    BY <1>1 DEF HistoryTypeOK
  <2> QED BY <1>1, <2>1 DEF Results
<1> HIDE DEF r, q
<1>3. Reported(c)' = Reported(c) \cup {d} /\ Reported(c) = r.matched \cup r.conflicted \cup r.skipped
  BY <1>2 DEF Reported, r, q
<1>4. \A e \in DocumentIds : Saw(c, e)' <=> Saw(c, e)
  BY DEF Saw
<1>5. \A e \in DocumentIds : Saw(c, e)' => e < next'[c]
  BY <1>4 DEF StrictIs
<1>6. {e \in DocumentIds : Saw(c, e)'} = Reported(c)' \cup {batch'[c][i] : i \in DOMAIN batch'[c]}
  <2>1. {e \in DocumentIds : Saw(c, e)'} = {e \in DocumentIds : Saw(c, e)}
    BY <1>4
  <2>2. {e \in DocumentIds : Saw(c, e)} = Reported(c) \cup {batch[c][i] : i \in DOMAIN batch[c]}
    BY DEF StrictIs
  <2>3. {batch[c][i] : i \in DOMAIN batch[c]}
          = {Tail(batch[c])[i] : i \in DOMAIN Tail(batch[c])} \cup {d}
    BY BatchIs
  <2>4. {Tail(batch[c])[i] : i \in DOMAIN Tail(batch[c])} = {batch'[c][i] : i \in DOMAIN batch'[c]}
    BY <1>1
  <2> QED BY <1>3, <2>1, <2>2, <2>3, <2>4
<1>7. /\ \A i \in DOMAIN batch'[c] : batch'[c][i] \notin Reported(c)'
      /\ \A i, j \in DOMAIN batch'[c] : i # j => batch'[c][i] # batch'[c][j]
  BY <1>1, <1>3, BatchIs
<1>8. q.matched = {e \in DocumentIds : Wrote(c, e)'}
  <2>1. r.matched = {e \in DocumentIds : Wrote(c, e)}
    BY DEF StrictIs, Wrote, r
  <2> QED BY <1>2, <2>1
<1>9. Reported(c) \subseteq {e \in DocumentIds : Saw(c, e)}
  BY DEF StrictIs
<1>10. ASSUME NEW e \in q.conflicted
       PROVE  /\ e \notin q.matched /\ seen[c][e].changes < Len(writes'[e])
              /\ writes'[e][seen[c][e].changes + 1].by \notin MovesOut
  <2>1. CASE e = d /\ what = "conflicted"
    BY <1>1, <1>2, <1>3, <2>1
  <2>2. CASE e \in r.conflicted
    <3>1. /\ e \in DocumentIds /\ e # d /\ e \notin r.matched /\ seen[c][e].changes < Len(writes[e])
          /\ writes[e][seen[c][e].changes + 1].by \notin MovesOut
      BY <1>1, <1>3, <1>9, <2>2 DEF StrictIs, r
    <3>2. /\ seen[c][e].changes \in Nat /\ Len(writes[e]) \in Nat /\ Len(writes'[e]) \in Nat
          /\ Len(writes'[e]) >= Len(writes[e])
          /\ \A i \in 1..Len(writes[e]) : writes'[e][i] = writes[e][i]
      <4>1. Len(writes'[e]) \in Nat
        BY <3>1 DEF HistoryTypeOK
      <4> QED BY <1>1, <3>1, <4>1, HistoryTypes DEF DocumentsMove
    <3> DEFINE k == seen[c][e].changes
    <3>3. k \in Nat /\ k < Len(writes[e]) /\ k < Len(writes'[e]) /\ k + 1 \in 1..Len(writes[e])
      <4>1. k \in Nat /\ k < Len(writes[e])
        BY <3>1, <3>2
      <4> HIDE DEF k
      <4> QED BY <3>2, <4>1
    <3>4. writes'[e][k + 1] = writes[e][k + 1]
      BY <3>2, <3>3
    <3>5. e \notin q.matched
      BY <1>2, <3>1
    <3> QED BY <3>1, <3>3, <3>4, <3>5
  <2> QED BY <1>2, <1>10, <2>1, <2>2
<1>11. ASSUME NEW e \in q.skipped PROVE e \notin q.matched \cup q.conflicted /\ ~Matches(e)'
  <2>1. CASE e = d /\ what = "skipped"
    BY <1>1, <1>2, <1>3, <2>1
  <2>2. CASE e \in r.skipped
    <3>1. e \in DocumentIds /\ Saw(c, e) /\ e # d /\ e \notin r.matched \cup r.conflicted /\ ~Matches(e)
      BY <1>1, <1>3, <1>9, <2>2 DEF StrictIs, r
    <3>2. ~Matches(e)'
      BY <3>1 DEF DocumentsMove
    <3> QED BY <1>2, <3>1, <3>2
  <2> QED BY <1>2, <1>11, <2>1, <2>2
<1> QED BY <1>5, <1>6, <1>7, <1>8, <1>10, <1>11 DEF StrictIs, Wrote, q

\* A missed candidate is looked at again: conflicted if it still matches, skipped if not.
LEMMA StrictLooksActs == ASSUME VersionInv, NEW c \in Calls, StrictLooks(c) PROVE VersionInv'
<1>1. /\ HistoryTypeOK /\ CallIs(c) /\ UNCHANGED <<doc, writes, seen, next>> /\ NextInBatch(c)
      /\ pc[c] = "looking" /\ pc' = [pc EXCEPT ![c] = "writing"]
  BY DEF VersionInv, StrictLooks, Goto
<1>2. /\ StrictIs(c) /\ Is(c, {"strict"}) /\ batch[c] # <<>> /\ Behind(c, Head(batch[c]))
      /\ seen[c][Head(batch[c])].doc.ver # NoVersion
  BY <1>1 DEF CallIs, StrictIs
<1>3. PICK d \in DocumentIds : d = Head(batch[c]) /\ Saw(c, d)
  BY <1>2, BatchIs
<1>4. PICK what \in {"conflicted", "skipped"} :
        /\ Reports(c, what) /\ (what = "conflicted" <=> Conflict(c, d))
  BY <1>3 DEF StrictLooks
<1>5. HistoryTypeOK'
  <2>1. batch' = [batch EXCEPT ![c] = Tail(@)] /\ report' = [report EXCEPT ![c][what] = @ \cup {d}]
    BY <1>1, <1>3, <1>4 DEF NextInBatch, Reports
  <2>2. batch' \in [Calls -> Seq(DocumentIds)] /\ \A b \in Calls : Len(batch'[b]) <= CandidateBatch
    BY <1>1, <1>2, <2>1, BatchIs DEF HistoryTypeOK, VersionTypeOK
  <2>3. report' \in [Calls -> Results]
    BY <1>1, <2>1 DEF HistoryTypeOK, Results
  <2>4. pc' \in [Calls -> {"unmade", "idle", "loaded", "found", "reading", "writing", "looking", "done", "failed"}]
    BY <1>1 DEF HistoryTypeOK, VersionTypeOK
  <2> QED BY <1>1, <2>2, <2>3, <2>4 DEF HistoryTypeOK, VersionTypeOK
<1>6. DocumentsMove(c) /\ \A e \in DocumentIds : Wrote(c, e)' <=> Wrote(c, e)
  BY <1>1, NobodyMoves DEF Wrote
<1>7. /\ SightIs(c, d) /\ DocumentIs(d) /\ seen[c][d].changes \in Nat /\ Len(writes[d]) \in Nat
      /\ writes[d] \in Seq(Changes)
  BY <1>1, HistoryTypes DEF VersionInv
<1>8. what = "conflicted" => /\ seen[c][d].changes < Len(writes[d])
                             /\ writes[d][seen[c][d].changes + 1].by \notin MovesOut
  <2> SUFFICES ASSUME Conflict(c, d)
               PROVE  /\ seen[c][d].changes < Len(writes[d])
                      /\ writes[d][seen[c][d].changes + 1].by \notin MovesOut
    BY <1>4
  <2>1. Exists(d) /\ ~doc[d].out /\ doc[d].ver # seen[c][d].doc.ver /\ seen[c][d].changes <= Len(writes[d])
    BY <1>7 DEF Conflict, Matches, SightIs
  <2>2. /\ Fits(doc[d], writes[d], Len(writes[d]))
        /\ Fits(seen[c][d].doc, writes[d], seen[c][d].changes)
        /\ doc[d].ver # NoVersion
    BY <1>2, <1>3, <1>7, <2>1 DEF SightIs, DocumentIs
  <2>3. seen[c][d].changes # Len(writes[d])
    BY <1>2, <1>3, <2>1, <2>2 DEF Fits
  <2>4. seen[c][d].changes + 1 \in 1..Len(writes[d])
    BY <1>7, <2>1, <2>3
  <2> QED BY <1>7, <2>1, <2>2, <2>3, <2>4 DEF Fits
<1>9. what = "skipped" => ~Matches(d)'
  <2>1. what = "skipped" => ~Matches(d)
    BY <1>2, <1>3, <1>4 DEF Conflict, Behind, Matches, Unchanged
  <2> QED BY <1>1, <2>1 DEF Matches, Exists
<1>10. /\ pc'[c] = "writing" /\ \A b \in Calls \ {c} : /\ pc'[b] = pc[b] /\ next'[b] = next[b]
                                                       /\ batch'[b] = batch[b] /\ report'[b] = report[b]
  BY <1>1, <1>4 DEF HistoryTypeOK, VersionTypeOK, NextInBatch, Reports
<1>11. StrictIs(c)'
  BY <1>1, <1>2, <1>3, <1>4, <1>5, <1>6, <1>8, <1>9, <1>10, CandidateIsReported
<1>12. CallIs(c)'
  BY <1>2, <1>10, <1>11 DEF CallIs, Is
<1> QED BY <1>1, <1>5, <1>6, <1>10, <1>12, OneCallActs

\* A candidate is written under its version, or missed.
LEMMA StrictWritesActs ==
  ASSUME VersionInv, MoversAreVersioned, NEW c \in Calls, StrictWrites(c) PROVE VersionInv'
<1>1. /\ HistoryTypeOK /\ CallIs(c) /\ UNCHANGED <<seen, next>> /\ pc[c] = "writing" /\ batch[c] # <<>>
  BY DEF VersionInv, StrictWrites
<1>2. StrictIs(c) /\ Is(c, {"strict"}) /\ ~Unversioned(c)
  BY <1>1 DEF CallIs, Is, Unversioned
<1>3. PICK d \in DocumentIds : d = Head(batch[c]) /\ Saw(c, d)
  BY <1>1, <1>2, BatchIs
<1>4. ASSUME NEW k \in {"failed", "looking"}, pc' = [pc EXCEPT ![c] = k],
             UNCHANGED <<doc, writes, batch, report>>,
             k = "looking" => Behind(c, d) /\ seen[c][d].doc.ver # NoVersion
      PROVE  VersionInv'
  <2>1. HistoryTypeOK' /\ DocumentsMove(c)
    BY <1>1, <1>4, NobodyMoves DEF HistoryTypeOK, VersionTypeOK
  <2>2. pc'[c] = k /\ \A b \in Calls \ {c} : pc'[b] = pc[b]
    BY <1>1, <1>4 DEF HistoryTypeOK, VersionTypeOK
  <2>3. StrictIs(c)'
    BY <1>1, <1>2, <1>3, <1>4, <2>2
       DEF StrictIs, Saw, Reported, Matches, Exists, Behind, Unchanged
  <2>4. CallIs(c)'
    BY <1>2, <2>2, <2>3 DEF CallIs, Is
  <2> QED BY <1>1, <1>4, <2>1, <2>2, <2>4, OneCallActs
<1>5. CASE seen[c][d].doc.ver = NoVersion
  BY <1>3, <1>4, <1>5 DEF StrictWrites, Goto
<1>6. CASE seen[c][d].doc.ver # NoVersion /\ ~(Matches(d) /\ Unchanged(c, d))
  BY <1>3, <1>4, <1>6 DEF StrictWrites, Goto, Behind
<1>7. CASE seen[c][d].doc.ver # NoVersion /\ Matches(d) /\ Unchanged(c, d)
  <2>1. /\ Puts(c, d, Bumped(d), seen[c][d].changes) /\ NextInBatch(c) /\ Reports(c, "matched")
        /\ pc' = pc
    BY <1>3, <1>7 DEF StrictWrites
  <2>2. /\ seen[c][d].changes \in 0..Len(writes[d]) /\ Exists(d)
        /\ \A j \in (seen[c][d].changes + 1)..Len(writes[d]) : Unversioned(writes[d][j].by)
    BY <1>3, <1>7, SightFits
  <2>3. /\ Bumped(d) \in Documents /\ Bumped(d).ver = Counted(writes[d], Len(writes[d])) + 1
        /\ Bumped(d).ver # NoVersion
        /\ Bumped(d).out <=> \E i \in 1..Len(writes[d]) : writes[d][i].by \in MovesOut
    BY <2>2, DocumentFits
  <2>4. /\ doc' \in [DocumentIds -> Documents \cup {Gone}]
        /\ writes' \in [DocumentIds -> Seq(Changes)]
        /\ DocumentsMove(c) /\ Wrote(c, d)'
        /\ \A e \in DocumentIds \ {d} : Wrote(c, e)' <=> Wrote(c, e)
    BY <1>1, <1>2, <2>1, <2>2, <2>3, PutsMove
  <2>5. HistoryTypeOK'
    <3>1. batch' = [batch EXCEPT ![c] = Tail(@)] /\ report' = [report EXCEPT ![c]["matched"] = @ \cup {d}]
      BY <1>3, <2>1 DEF NextInBatch, Reports
    <3>2. batch' \in [Calls -> Seq(DocumentIds)] /\ \A b \in Calls : Len(batch'[b]) <= CandidateBatch
      BY <1>1, <1>2, <3>1, BatchIs DEF HistoryTypeOK, VersionTypeOK
    <3>3. report' \in [Calls -> Results]
      BY <1>1, <3>1 DEF HistoryTypeOK, Results
    <3> QED BY <1>1, <2>1, <2>4, <3>2, <3>3 DEF HistoryTypeOK, VersionTypeOK
  <2>6. \A b \in Calls \ {c} : /\ pc'[b] = pc[b] /\ next'[b] = next[b]
                               /\ batch'[b] = batch[b] /\ report'[b] = report[b]
    BY <1>1, <2>1 DEF HistoryTypeOK, VersionTypeOK, NextInBatch, Reports
  <2>7. \A e \in DocumentIds : Wrote(c, e)' <=> Wrote(c, e) \/ ("matched" = "matched" /\ e = d)
    BY <2>4
  <2>8. StrictIs(c)'
    BY <1>1, <1>2, <1>3, <2>1, <2>4, <2>5, <2>7, CandidateIsReported
  <2>9. CallIs(c)'
    BY <1>1, <1>2, <2>1, <2>8 DEF CallIs, Is
  <2> QED BY <1>1, <2>4, <2>5, <2>6, <2>9, OneCallActs
<1> QED BY <1>5, <1>6, <1>7

\* Nothing has been read or written at first.
LEMMA VersionsFirst == VersionInit => VersionInv
<1> SUFFICES ASSUME VersionInit PROVE VersionInv
  OBVIOUS
<1>1. /\ \A d \in DocumentIds : doc[d] = IF d \in Unborn THEN Gone ELSE Fresh
      /\ \A d \in DocumentIds : writes[d] = <<>> /\ Len(writes[d]) = 0
      /\ \A c \in Calls, d \in DocumentIds : seen[c][d] = [doc |-> Gone, changes |-> 0] /\ ~Saw(c, d)
      /\ \A c \in Calls : /\ next[c] = 1 /\ batch[c] = <<>> /\ pc[c] \in {"idle", "unmade"}
                          /\ report[c] = [matched |-> {}, conflicted |-> {}, skipped |-> {}]
  BY DEF VersionInit, Saw
<1>2. /\ Fresh \in Documents /\ Fresh.ver = 0 /\ ~Fresh.out /\ Fresh # Gone
  <2>1. Fresh \in Documents /\ Fresh.ver = 0 /\ ~Fresh.out
    BY DEF Fresh, Documents
  <2> QED BY <2>1, VersionAssumption
<1>3. HistoryTypeOK
  <2>1. doc \in [DocumentIds -> Documents \cup {Gone}]
    BY <1>2 DEF VersionInit
  <2>2. /\ next \in [Calls -> 1..(DocumentCount + 1)] /\ \A c \in Calls : Len(batch[c]) <= CandidateBatch
    BY <1>1, VersionAssumption DEF VersionInit
  <2>3. pc \in [Calls -> {"unmade", "idle", "loaded", "found", "reading", "writing", "looking", "done", "failed"}]
    BY DEF VersionInit
  <2>4. writes \in [DocumentIds -> Seq(Changes)] /\ batch \in [Calls -> Seq(DocumentIds)]
    BY DEF VersionInit
  <2>5. seen \in [Calls -> [DocumentIds -> Sights]] /\ report \in [Calls -> Results]
    BY DEF VersionInit, Sights, Results
  <2> QED BY <2>1, <2>2, <2>3, <2>4, <2>5 DEF HistoryTypeOK, VersionTypeOK
<1>4. ASSUME NEW d \in DocumentIds PROVE DocumentIs(d)
  <2>1. Fits(Fresh, writes[d], Len(writes[d]))
    BY <1>1, <1>2, CountZero, VersionAssumption DEF Fits
  <2> QED BY <1>1, <2>1 DEF DocumentIs, Exists
<1>5. ASSUME NEW c \in Calls PROVE CallIs(c)
  <2>1. Reported(c) = {} /\ {batch[c][i] : i \in DOMAIN batch[c]} = {}
    BY <1>1 DEF Reported
  <2>2. StrictIs(c)
    BY <1>1, <2>1 DEF StrictIs
  <2> QED BY <1>1, <2>2 DEF CallIs
<1>6. \A c \in Calls, d \in DocumentIds : SightIs(c, d)
  BY <1>1 DEF SightIs
<1> QED BY <1>3, <1>4, <1>5, <1>6 DEF VersionInv

\* The invariant says that no update is lost, versions count and strict reports are true.
LEMMA VersionsSound == VersionInv => VersionsHold
<1> SUFFICES ASSUME VersionInv PROVE VersionsHold
  OBVIOUS
<1>1. HistoryTypeOK
  BY DEF VersionInv
<1>2. NoLostUpdate
  BY DEF VersionInv, DocumentIs, NoLostUpdate
<1>3. VersionCountsChanges
  <2> SUFFICES ASSUME NEW d \in DocumentIds, Exists(d)
               PROVE  doc[d].ver \in {NoVersion, Cardinality({i \in DOMAIN writes[d] : ~Unversioned(writes[d][i].by)})}
    BY DEF VersionCountsChanges
  <2>1. Fits(doc[d], writes[d], Len(writes[d])) /\ DOMAIN writes[d] = 1..Len(writes[d])
    BY <1>1, HistoryTypes DEF VersionInv, DocumentIs
  <2> QED BY <2>1 DEF Fits, Counted, VersionedAmong
<1>4. StrictReportsTruly
  <2> SUFFICES ASSUME NEW c \in Calls, Is(c, {"strict"}), pc[c] = "done"
               PROVE  LET r == report[c] IN
                      /\ r.matched = {d \in DocumentIds : \E i \in DOMAIN writes[d] : writes[d][i].by = c}
                      /\ \A d \in r.conflicted : d \notin r.matched /\ Since(c, d) # <<>>
                                                 /\ Since(c, d)[1].by \notin MovesOut
                      /\ \A d \in r.skipped : d \notin r.matched \cup r.conflicted /\ ~Matches(d)
                      /\ \A d \in DocumentIds : seen[c][d].doc # Gone =>
                           d \in r.matched \cup r.conflicted \cup r.skipped
    BY DEF StrictReportsTruly
  <2>1. StrictIs(c) /\ batch[c] = <<>>
    BY DEF VersionInv, CallIs, StrictIs
  <2>2. ASSUME NEW d \in report[c].conflicted
        PROVE  Since(c, d) # <<>> /\ Since(c, d)[1].by \notin MovesOut
    <3>1. /\ d \in DocumentIds /\ seen[c][d].changes < Len(writes[d])
          /\ writes[d][seen[c][d].changes + 1].by \notin MovesOut
      BY <2>1, <2>2 DEF StrictIs, Reported
    <3>2. seen[c][d].changes \in Nat /\ Len(writes[d]) \in Nat /\ writes[d] \in Seq(Changes)
      BY <1>1, <3>1, HistoryTypes
    <3>3. Len(Since(c, d)) = Len(writes[d]) - seen[c][d].changes
          /\ Since(c, d)[1] = writes[d][seen[c][d].changes + 1]
      <4> DEFINE m == seen[c][d].changes + 1
                 l == Len(writes[d])
      <4>1. m \in Int /\ l \in Int /\ m <= l /\ m >= 1 /\ \A i \in m..l : writes[d][i] \in Changes
        BY <3>1, <3>2
      <4>2. Since(c, d) = SubSeq(writes[d], m, l)
        BY DEF Since
      <4> HIDE DEF m, l
      <4>3. /\ Len(Since(c, d)) = IF m <= l THEN l - m + 1 ELSE 0
            /\ \A i \in 1..(l - m + 1) : Since(c, d)[i] = writes[d][m + i - 1]
        BY <4>1, <4>2, SubSeqProperties
      <4>4. 1 \in 1..(l - m + 1) /\ m + 1 - 1 = m /\ l - m + 1 = l - seen[c][d].changes
        BY <3>2, <4>1 DEF m
      <4> QED BY <4>1, <4>3, <4>4 DEF m, l
    <3>4. Len(Since(c, d)) # 0
      BY <3>1, <3>2, <3>3
    <3> QED BY <3>1, <3>3, <3>4
  <2>3. \A d \in DocumentIds : seen[c][d].doc # Gone => d \in Reported(c)
    BY <2>1 DEF StrictIs, Saw
  <2> QED BY <2>1, <2>2, <2>3 DEF StrictIs, Reported
<1> QED BY <1>1, <1>2, <1>3, <1>4 DEF HistoryTypeOK, VersionsHold

\* No versioned change of a Model is overwritten unseen, versions count the versioned changes, and
\* strict updates report every candidate truly: for any documents and calls, if what is purged is
\* not inserted again and the calls that move a document out of the filter are versioned.
THEOREM VersionsAreKept ==
  ASSUME NeverReborn, MoversAreVersioned PROVE VersionSpec => []VersionsHold
<1>1. VersionInv /\ [VersionNext]_versionVars => VersionInv'
  <2> SUFFICES ASSUME VersionInv, [VersionNext]_versionVars PROVE VersionInv'
    OBVIOUS
  <2>1. CASE UNCHANGED versionVars
    <3>1. HistoryTypeOK'
      BY <2>1 DEF VersionInv, versionVars, HistoryTypeOK, VersionTypeOK
    <3>2. \A d \in DocumentIds : DocumentIs(d)'
      BY <2>1 DEF VersionInv, versionVars, DocumentIs, Exists
    <3>3. \A c \in Calls, d \in DocumentIds : SightIs(c, d)'
      BY <2>1 DEF VersionInv, versionVars, SightIs, Saw, Exists
    <3>4. \A c \in Calls : CallIs(c)'
      BY <2>1 DEF VersionInv, versionVars, CallIs, StrictIs, Saw, Reported, Matches, Exists, Behind, Unchanged
    <3> QED BY <3>1, <3>2, <3>3, <3>4 DEF VersionInv
  <2>2. ASSUME NEW c \in Calls,
               \/ Load(c) \/ Lookup(c) \/ Save(c) \/ Patch(c) \/ CallRefused(c)
               \/ Insert(c) \/ Upsert(c) \/ Increment(c) \/ SoftDelete(c) \/ Restore(c) \/ Purge(c)
               \/ BulkWrites(c) \/ StrictReads(c) \/ StrictTurns(c) \/ StrictWrites(c)
               \/ StrictLooks(c) \/ StrictEnds(c)
        PROVE  VersionInv'
    BY <2>2, LoadActs, SaveActs, PatchActs, RemovalActs, UpsertActs, SingleActs, BulkActs,
       StrictReadsActs, StrictTurnsActs, StrictWritesActs, StrictLooksActs
  <2> QED BY <2>1, <2>2 DEF VersionNext
<1> QED BY <1>1, VersionsFirst, VersionsSound, PTL DEF VersionSpec
=============================================================================
