--------------------------- MODULE DataTaskLease ---------------------------
(***************************************************************************)
(* acquireDataTaskLease (capabilities/data-tasks/job-lock.ts): tasks in    *)
(* different processes share one document in the target database.  A task  *)
(* that holds the lease renews it from a timer and asks assertHeld() before *)
(* each write; it trusts a local deadline, the document has the real one.  *)
(*                                                                         *)
(* A request and its answer are separate steps and each may take any time; *)
(* an answer may be lost, and the request of a lost answer may be executed *)
(* later.  All processes read the same clock.                              *)
(***************************************************************************)
EXTENDS Integers, TLC

CONSTANTS Tasks, TTL, MaxTime, None

ASSUME ConstantsAssumption == TTL \in Nat \ {0} /\ MaxTime \in Nat /\ None \notin Tasks

VARIABLES now,
          lease,   \* the document: its owner (None: no document) and expiresAt
          task,    \* the variables of acquireDataTaskLease and of the handle
          stray    \* expiresAt of renewals given up that may still be executed

vars == <<now, lease, task, stray>>

Free == [owner |-> None, expires |-> 0]

\* at: when the request in progress was made; renewing: its stage, if a renewal
Idle == [phase |-> "idle", at |-> 0, expires |-> 0, lost |-> FALSE,
         renewing |-> "no", renewAt |-> 0]

Init == /\ now = 0 /\ lease = Free
        /\ task = [t \in Tasks |-> Idle]
        /\ stray = [t \in Tasks |-> {}]

Set(t, r) == task' = [task EXCEPT ![t] = r]

Tick == /\ now < MaxTime
        /\ now' = now + 1
        /\ UNCHANGED <<lease, task, stray>>

-----------------------------------------------------------------------------
\* findOneAndUpdate is sent, with the time of now; again after a refusal.
Ask(t) ==
  /\ task[t].phase \in {"idle", "refused"}
  /\ Set(t, [task[t] EXCEPT !.phase = "asking", !.at = now])
  /\ UNCHANGED <<now, lease, stray>>

\* The document is expired, one's own, or inserted.
Grantable(t) == lease.owner \in {None, t} \/ lease.expires <= task[t].at

Grant(t) ==
  /\ task[t].phase = "asking"
  /\ Grantable(t)
  /\ lease' = [owner |-> t, expires |-> task[t].at + TTL]
  /\ Set(t, [task[t] EXCEPT !.phase = "granted"])
  /\ UNCHANGED <<now, stray>>

\* Otherwise the upsert is a duplicate key, and the task waits.
Refuse(t) ==
  /\ task[t].phase = "asking"
  /\ ~Grantable(t)
  /\ Set(t, [task[t] EXCEPT !.phase = "refused", !.at = 0])
  /\ UNCHANGED <<now, lease, stray>>

\* Mutated form of Granted: the deadline counts from the answer.
GrantedFromNow(t) ==
  /\ task[t].phase = "granted"
  /\ Set(t, [task[t] EXCEPT !.phase = "held", !.at = 0, !.expires = now + TTL])
  /\ UNCHANGED <<now, lease, stray>>

Granted(t) ==
  /\ task[t].phase = "granted"
  /\ Set(t, [task[t] EXCEPT !.phase = "held", !.at = 0,
                                !.expires = task[t].at + TTL])
  /\ UNCHANGED <<now, lease, stray>>

Over == [Idle EXCEPT !.phase = "over"]

\* Of a task that ended while it asked, the request remains.
Ended(t) == IF task[t].phase = "asking" THEN [task[t] EXCEPT !.phase = "abandoned"] ELSE Over

\* waitTimeoutMs is over, or an error was answered: the lease may have been granted.
GiveUp(t) ==
  /\ task[t].phase \in {"asking", "refused", "granted"}
  /\ Set(t, Ended(t))
  /\ UNCHANGED <<now, lease, stray>>

\* The request is executed after all, for nobody.
StrayGranted(t) ==
  /\ task[t].phase = "abandoned"
  /\ Grantable(t)
  /\ lease' = [owner |-> t, expires |-> task[t].at + TTL]
  /\ Set(t, Over)
  /\ UNCHANGED <<now, stray>>

-----------------------------------------------------------------------------
\* The timer: one renewal at a time, until release().
Renew(t) ==
  /\ task[t].phase = "held" /\ task[t].renewing = "no"
  /\ Set(t, [task[t] EXCEPT !.renewing = "sent", !.renewAt = now])
  /\ UNCHANGED <<now, lease, stray>>

\* updateOne by owner, executed in time or not.
Renewed(t) ==
  /\ task[t].renewing = "sent"
  /\ lease' = IF lease.owner = t THEN [lease EXCEPT !.expires = task[t].renewAt + TTL]
              ELSE lease
  /\ Set(t, [task[t] EXCEPT !.renewing = IF lease.owner = t THEN "matched" ELSE "unmatched"])
  /\ UNCHANGED <<now, stray>>

RenewalAnswered(t) ==
  /\ task[t].renewing \in {"matched", "unmatched"}
  /\ LET to == task[t].renewAt + TTL
     IN IF task[t].renewing = "unmatched" \/ now >= to
        THEN Set(t, [task[t] EXCEPT !.renewing = "no", !.renewAt = 0, !.lost = TRUE])
        ELSE Set(t, [task[t] EXCEPT !.renewing = "no", !.renewAt = 0, !.expires = to])
  /\ UNCHANGED <<now, lease, stray>>

RenewalFails(t) ==
  /\ task[t].renewing # "no"
  /\ stray' = IF task[t].renewing = "sent"
              THEN [stray EXCEPT ![t] = @ \cup {task[t].renewAt + TTL}] ELSE stray
  /\ Set(t, [task[t] EXCEPT !.renewing = "no", !.renewAt = 0, !.lost = TRUE])
  /\ UNCHANGED <<now, lease>>

\* A renewal nobody waits for any more is executed.
StrayRenewed(t) ==
  \E to \in stray[t] :
    /\ stray' = [stray EXCEPT ![t] = @ \ {to}]
    /\ lease' = IF lease.owner = t THEN [lease EXCEPT !.expires = to] ELSE lease
    /\ UNCHANGED <<now, task>>

\* assertHeld() finds the deadline passed, and will never succeed again.
NoticeExpiry(t) ==
  /\ task[t].phase = "held" /\ ~task[t].lost /\ now >= task[t].expires
  /\ Set(t, [task[t] EXCEPT !.lost = TRUE])
  /\ UNCHANGED <<now, lease, stray>>

-----------------------------------------------------------------------------
Release(t) ==
  /\ task[t].phase = "held"
  /\ Set(t, [task[t] EXCEPT !.phase = "releasing"])
  /\ UNCHANGED <<now, lease, stray>>

\* Mutated form of Delete: whoever the owner is.
DeleteAnyone(t) ==
  /\ task[t].phase = "releasing" /\ task[t].renewing = "no"
  /\ lease' = Free
  /\ Set(t, Over)
  /\ UNCHANGED <<now, stray>>

\* Renewals being over, the document is deleted if it is still one's own.
Delete(t) ==
  /\ task[t].phase = "releasing" /\ task[t].renewing = "no"
  /\ lease' = IF lease.owner = t THEN Free ELSE lease
  /\ Set(t, Over)
  /\ UNCHANGED <<now, stray>>

\* The deletion fails: the lease stays until it expires.
DeleteFails(t) ==
  /\ task[t].phase = "releasing" /\ task[t].renewing = "no"
  /\ Set(t, Over)
  /\ UNCHANGED <<now, lease, stray>>

\* The process dies: what it has sent may still be executed.
Crash(t) ==
  /\ task[t].phase \notin {"idle", "abandoned", "over"}
  /\ stray' = IF task[t].renewing = "sent"
              THEN [stray EXCEPT ![t] = @ \cup {task[t].renewAt + TTL}] ELSE stray
  /\ Set(t, Ended(t))
  /\ UNCHANGED <<now, lease>>

Step(t) ==
  \/ Ask(t) \/ Grant(t) \/ Refuse(t) \/ Granted(t) \/ GiveUp(t)
  \/ StrayGranted(t)
  \/ Renew(t) \/ Renewed(t) \/ RenewalAnswered(t) \/ RenewalFails(t) \/ StrayRenewed(t)
  \/ NoticeExpiry(t) \/ Release(t) \/ Delete(t) \/ DeleteFails(t) \/ Crash(t)

Next == Tick \/ \E t \in Tasks : Step(t)

Spec == Init /\ [][Next]_vars

-----------------------------------------------------------------------------
Times == 0..(MaxTime + TTL)

Handles == [phase : {"idle", "asking", "refused", "granted", "held", "releasing",
                     "abandoned", "over"},
            at : 0..MaxTime, expires : Times, lost : BOOLEAN,
            renewing : {"no", "sent", "matched", "unmatched"}, renewAt : 0..MaxTime]

\* Types, and a lease never outlives the last request made for it by more than TTL.
TypeOK ==
  /\ now \in 0..MaxTime
  /\ lease \in [owner : Tasks \cup {None}, expires : Times]
  /\ task \in [Tasks -> Handles]
  /\ stray \in [Tasks -> SUBSET Times]

\* assertHeld() would return.
Believes(t) == task[t].phase = "held" /\ ~task[t].lost /\ now < task[t].expires

\* A task that may write owns the document, for at least as long as it believes:
\* so nobody else can be granted the lease meanwhile.
BeliefIsBacked ==
  \A t \in Tasks : Believes(t) => lease.owner = t /\ lease.expires >= task[t].expires

\* At most one task may write, and the lease changes hands through nobody's.
Holder == IF \E t \in Tasks : Believes(t) THEN CHOOSE t \in Tasks : Believes(t) ELSE None

Contract == INSTANCE LeaseContract WITH Users <- Tasks, holder <- Holder

ImplementsLease == Contract!Spec

\* Nothing tells one task from another.
TaskSymmetry == Permutations(Tasks)
=============================================================================
