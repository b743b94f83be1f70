----------------------------- MODULE RedisLock -----------------------------
(***************************************************************************)
(* One key of DistributedCacheLockManager (capabilities/lock/index.ts):    *)
(* processes lock it with SET NX PX, renew and release it with scripts     *)
(* that compare the owner, and ask isHeld() of their handle, which looks   *)
(* at a local deadline only.                                               *)
(*                                                                         *)
(* A command and its answer are separate steps and each may take any time; *)
(* an answer may be lost, and the command of a lost answer may be executed *)
(* later or never, but not after the next command of the same process.     *)
(* Redis and the processes measure the same time.                          *)
(***************************************************************************)
EXTENDS Integers

CONSTANTS Users,
          TTL, Durations,   \* of acquisitions; of renewals
          RetryTimes, MaxTime, None

ASSUME ConstantsAssumption ==
  /\ TTL \in Nat \ {0} /\ Durations \subseteq Nat \ {0}
  /\ RetryTimes \in Nat /\ MaxTime \in Nat /\ None \notin Users

VARIABLES now,
          key,     \* the key in Redis: its value and when it expires
          user,    \* acquireLock's variables, then the handle
          stray    \* commands given up that may still be executed

vars == <<now, key, user, stray>>

Free == [owner |-> None, expires |-> 0]

\* cmd: the command in progress; at: startedAt; d: its duration
Idle == [phase |-> "idle", attempt |-> 0, cmd |-> "none", at |-> 0, d |-> 0,
         expires |-> 0, released |-> FALSE]

Init == /\ now = 0 /\ key = Free
        /\ user = [u \in Users |-> Idle]
        /\ stray = [u \in Users |-> {}]

Set(u, r) == user' = [user EXCEPT ![u] = r]
Quiet(r) == [r EXCEPT !.cmd = "none", !.at = 0, !.d = 0]

\* Redis removes the key when its time has come.
Tick == /\ now < MaxTime
        /\ now' = now + 1
        /\ key' = IF key.owner # None /\ key.expires <= now + 1 THEN Free ELSE key
        /\ UNCHANGED <<user, stray>>

-----------------------------------------------------------------------------
(* What Redis does with a command of u.                                    *)

Execute(u, cmd, d) ==
  CASE cmd = "set" /\ key.owner = None -> [owner |-> u, expires |-> now + d]
    [] cmd = "renew" /\ key.owner = u -> [key EXCEPT !.expires = now + d]
    [] cmd = "release" /\ key.owner = u -> Free
    [] OTHER -> key

\* Mutated form of Succeeds: a renewal does not compare the owner.
SucceedsUnowned(u, cmd) ==
  CASE cmd = "set" -> key.owner = None [] cmd = "renew" -> TRUE [] OTHER -> key.owner = u

Succeeds(u, cmd) == IF cmd = "set" THEN key.owner = None ELSE key.owner = u

Answer(u, cmd) ==
  IF ~Succeeds(u, cmd) THEN "refused"
  ELSE IF cmd = "set" THEN "setOk" ELSE IF cmd = "renew" THEN "renewOk" ELSE "releaseOk"

Executed(u) ==
  /\ user[u].cmd \in {"set", "renew", "release"} /\ stray[u] = {}
  /\ key' = Execute(u, user[u].cmd, user[u].d)
  /\ Set(u, [user[u] EXCEPT !.cmd = Answer(u, user[u].cmd)])
  /\ UNCHANGED <<now, stray>>

StrayExecuted(u) ==
  \E c \in stray[u] :
    /\ stray' = [stray EXCEPT ![u] = @ \ {c}]
    /\ key' \in {key, Execute(u, c.cmd, c.d)}
    /\ UNCHANGED <<now, user>>

\* No answer comes, whether or not the command was or will be executed.
GivenUp(u) == stray' = IF user[u].cmd \in {"set", "renew", "release"}
                       THEN [stray EXCEPT ![u] = @ \cup {[cmd |-> user[u].cmd, d |-> user[u].d]}]
                       ELSE stray

-----------------------------------------------------------------------------
(* acquireLock                                                             *)

Acquire(u) ==
  /\ user[u].phase = "idle" /\ user[u].cmd = "none"
  /\ Set(u, [user[u] EXCEPT !.cmd = "set", !.at = now, !.d = TTL])
  /\ UNCHANGED <<now, key, stray>>

\* Mutated form of Acquired: the deadline counts from the answer.
AcquiredFromNow(u) ==
  /\ user[u].cmd = "setOk"
  /\ Set(u, [Quiet(user[u]) EXCEPT !.phase = "held", !.expires = now + TTL])
  /\ UNCHANGED <<now, key, stray>>

Acquired(u) ==
  /\ user[u].cmd = "setOk"
  /\ Set(u, [Quiet(user[u]) EXCEPT !.phase = "held", !.expires = user[u].at + TTL])
  /\ UNCHANGED <<now, key, stray>>

\* Refused or failed: tried again under the same lockId, then given up for good.
NextAttempt(u) ==
  Set(u, IF user[u].attempt = RetryTimes THEN [Idle EXCEPT !.phase = "over"]
         ELSE [Quiet(user[u]) EXCEPT !.attempt = @ + 1])

Refused(u) ==
  /\ user[u].phase = "idle" /\ user[u].cmd = "refused"
  /\ NextAttempt(u)
  /\ UNCHANGED <<now, key, stray>>

AcquireFails(u) ==
  /\ user[u].phase = "idle" /\ user[u].cmd # "none"
  /\ GivenUp(u) /\ NextAttempt(u)
  /\ UNCHANGED <<now, key>>

-----------------------------------------------------------------------------
(* The handle: renew(), release(), isHeld().                               *)

\* Assumed of the program: a renewal never ends before the deadline it renews.
Renew(u, d) ==
  /\ user[u].phase = "held" /\ user[u].cmd = "none" /\ ~user[u].released
  /\ now + d >= user[u].expires
  /\ Set(u, [user[u] EXCEPT !.cmd = "renew", !.at = now, !.d = d])
  /\ UNCHANGED <<now, key, stray>>

RenewAnswered(u) ==
  /\ user[u].phase = "held"
  /\ \/ /\ user[u].cmd = "renewOk"
        /\ Set(u, [Quiet(user[u]) EXCEPT !.expires = user[u].at + user[u].d])
     \/ /\ user[u].cmd = "refused"
        /\ Set(u, Quiet(user[u]))
  /\ UNCHANGED <<now, key, stray>>

\* An error is answered like a refusal.
RenewFails(u) ==
  /\ user[u].cmd \in {"renew", "renewOk"}
  /\ GivenUp(u) /\ Set(u, Quiet(user[u]))
  /\ UNCHANGED <<now, key>>

Release(u) ==
  /\ user[u].phase \in {"held", "releasing"} /\ user[u].cmd = "none" /\ ~user[u].released
  /\ Set(u, [user[u] EXCEPT !.phase = "releasing", !.cmd = "release"])
  /\ UNCHANGED <<now, key, stray>>

ReleaseAnswered(u) ==
  /\ user[u].phase = "releasing" /\ user[u].cmd \in {"releaseOk", "refused"}
  /\ Set(u, [Quiet(user[u]) EXCEPT !.released = (user[u].cmd = "releaseOk")])
  /\ UNCHANGED <<now, key, stray>>

\* An error is answered like a refusal; the handle is not marked released.
ReleaseFails(u) ==
  /\ user[u].cmd \in {"release", "releaseOk"}
  /\ GivenUp(u) /\ Set(u, Quiet(user[u]))
  /\ UNCHANGED <<now, key>>

Crash(u) ==
  /\ user[u].phase # "over"
  /\ GivenUp(u) /\ Set(u, [Idle EXCEPT !.phase = "over"])
  /\ UNCHANGED <<now, key>>

Step(u) ==
  \/ Executed(u) \/ StrayExecuted(u)
  \/ Acquire(u) \/ Acquired(u) \/ Refused(u) \/ AcquireFails(u)
  \/ (\E d \in Durations : Renew(u, d)) \/ RenewAnswered(u) \/ RenewFails(u)
  \/ Release(u) \/ ReleaseAnswered(u) \/ ReleaseFails(u) \/ Crash(u)

Next == Tick \/ \E u \in Users : Step(u)

Spec == Init /\ [][Next]_vars

-----------------------------------------------------------------------------
Commands == {"none", "set", "renew", "release", "setOk", "renewOk", "releaseOk", "refused"}

Spans == {0, TTL} \cup Durations
Handles == [phase : {"idle", "held", "releasing", "over"}, attempt : 0..RetryTimes,
            cmd : Commands, at : 0..MaxTime, d : Spans, expires : Nat, released : BOOLEAN]

\* Types; and Redis holds no key whose time has come.
TypeOK ==
  /\ now \in 0..MaxTime
  /\ key \in [owner : Users \cup {None}, expires : Nat]
  /\ key.owner # None => key.expires > now
  /\ user \in [Users -> Handles]
  /\ stray \in [Users -> SUBSET [cmd : {"set", "renew", "release"}, d : Spans]]

IsHeld(u) == user[u].phase \in {"held", "releasing"} /\ ~user[u].released
             /\ now < user[u].expires

\* A handle that release() was not called on.
Believes(u) == IsHeld(u) /\ user[u].phase = "held"

\* Who may rely on the lock owns the key, for as long as isHeld() will say so.
BeliefIsBacked ==
  \A u \in Users : Believes(u) => key.owner = u /\ key.expires >= user[u].expires

\* At most one user relies on the lock, and it changes hands through nobody's.
Holder == IF \E u \in Users : Believes(u) THEN CHOOSE u \in Users : Believes(u) ELSE None

Contract == INSTANCE LeaseContract WITH holder <- Holder

ImplementsLease == Contract!Spec
=============================================================================
