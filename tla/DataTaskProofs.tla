--------------------------- MODULE DataTaskProofs ---------------------------
(***************************************************************************)
(* The lease, for any tasks and any duration: types, a task that may write *)
(* owns the document for as long, and the lease implements its contract.   *)
(* The invariant is that belief, and the answers on their way that may     *)
(* become belief, are backed by the document; a document in force cannot   *)
(* be granted to another, because a task asks with a time that has passed  *)
(* when the database compares it.                                          *)
(*                                                                         *)
(* The job, for any documents, indexes, batch size and number of runs: the *)
(* last backup undoes its run wherever that stopped, and no run writes     *)
(* over another program.  The invariant is that the manifest, in memory    *)
(* and on disk, explains what the run has done to the target, and that     *)
(* what another program wrote is the image of no backup.                   *)
(*                                                                         *)
(* The plan, for any documents, jobs, indexes and number of planners: an   *)
(* apply() that was alone with the target can go on, and leaves exactly    *)
(* the source; no task writes what was not approved.  The invariant says,  *)
(* for every item of the source, what has become of it, and of every key   *)
(* that is or will be unique, that it tells apart what the plan leaves.    *)
(***************************************************************************)
EXTENDS DataTaskLease, DataTaskPlan, SequenceTheorems, FiniteSetTheorems, TLAPS

\* An answer under way to t promises the lease until "to".
Promised(t, to) == now < to => lease.owner = t /\ lease.expires >= to

Backed(t) ==
  /\ Believes(t) => lease.owner = t /\ lease.expires >= task[t].expires
  /\ task[t].phase = "granted" => Promised(t, task[t].at + TTL)
  /\ task[t].phase = "held" /\ ~task[t].lost /\ task[t].renewing = "matched"
       => Promised(t, task[t].renewAt + TTL)

\* Times of requests have passed; a renewal promises no less than what is believed;
\* a renewal given up has ended belief.
Timely(t) ==
  /\ task[t].at <= now /\ task[t].renewAt <= now
  /\ task[t].expires <= now + TTL
  /\ task[t].phase = "held" /\ task[t].renewing # "no"
       => task[t].expires <= task[t].renewAt + TTL
  /\ task[t].renewing # "no" => task[t].phase \in {"held", "releasing"}
  /\ task[t].lost => task[t].phase \in {"held", "releasing"}
  /\ stray[t] # {} => task[t].lost \/ task[t].phase = "over"

IInv == TypeOK /\ \A t \in Tasks : Backed(t) /\ Timely(t)

\* What a step on one task leaves of the others, and the type of its own record.
LEMMA SetOne ==
  ASSUME task \in [Tasks -> Handles], NEW t \in Tasks, NEW r \in Handles, Set(t, r)
  PROVE  /\ task' \in [Tasks -> Handles]
         /\ task'[t] = r
         /\ \A u \in Tasks \ {t} : task'[u] = task[u]
  BY DEF Set

\* The records the steps write.
LEMMA Records ==
  ASSUME TypeOK, NEW t \in Tasks
  PROVE  /\ Over \in Handles /\ Ended(t) \in Handles
         /\ task[t] \in Handles
         /\ task[t].at + TTL \in Times /\ task[t].renewAt + TTL \in Times
         /\ now \in 0..MaxTime /\ 0 \in 0..MaxTime
<1>1. 0 \in 0..MaxTime /\ 0 \in Times
  BY ConstantsAssumption DEF Times
<1>2. task[t] \in Handles /\ now \in 0..MaxTime
  BY DEF TypeOK
<1>3. \A n \in 0..MaxTime : n + TTL \in Times
  BY ConstantsAssumption DEF Times
<1>4. task[t].at \in 0..MaxTime /\ task[t].renewAt \in 0..MaxTime
  BY <1>2 DEF Handles
<1>5. Over \in Handles
  BY <1>1 DEF Over, Idle, Handles
<1>6. Ended(t) \in Handles
  BY <1>2, <1>5 DEF Ended, Handles
<1> QED
  BY <1>1, <1>2, <1>3, <1>4, <1>5, <1>6

\* Types are kept by every step.
LEMMA TypeStep == ASSUME TypeOK, [Next]_vars PROVE TypeOK'
<1> USE ConstantsAssumption
<1>1. CASE Tick
  BY <1>1 DEF Tick, TypeOK
<1>2. ASSUME NEW t \in Tasks, Step(t) PROVE TypeOK'
  <2> DEFINE h == task[t]
  <2>0. /\ h \in Handles /\ task \in [Tasks -> Handles]
        /\ Over \in Handles /\ Ended(t) \in Handles
        /\ h.at + TTL \in Times /\ h.renewAt + TTL \in Times /\ now \in 0..MaxTime
        /\ 0 \in 0..MaxTime
        /\ lease \in [owner : Tasks \cup {None}, expires : Times]
        /\ stray \in [Tasks -> SUBSET Times]
    BY Records DEF TypeOK
  <2> HIDE DEF h
  <2> USE <2>0
  <2>W. \A r \in Handles : Set(t, r) => task' \in [Tasks -> Handles]
    BY SetOne
  <2>1. CASE Ask(t)
    <3>1. [h EXCEPT !.phase = "asking", !.at = now] \in Handles
      BY DEF Handles
    <3> QED
      BY <2>1, <3>1, <2>W DEF Ask, TypeOK, h
  <2>2. CASE Grant(t)
    <3>1. [h EXCEPT !.phase = "granted"] \in Handles
      BY DEF Handles
    <3>2. lease' \in [owner : Tasks \cup {None}, expires : Times]
      BY <2>2 DEF Grant, h
    <3> QED
      BY <2>2, <3>1, <3>2, <2>W DEF Grant, TypeOK, h
  <2>3. CASE Refuse(t)
    <3>1. [h EXCEPT !.phase = "refused", !.at = 0] \in Handles
      BY DEF Handles
    <3> QED
      BY <2>3, <3>1, <2>W DEF Refuse, TypeOK, h
  <2>4. CASE Granted(t)
    <3>1. [h EXCEPT !.phase = "held", !.at = 0, !.expires = h.at + TTL] \in Handles
      BY DEF Handles
    <3> QED
      BY <2>4, <3>1, <2>W DEF Granted, TypeOK, h
  <2>5. CASE GiveUp(t)
    BY <2>5, <2>W DEF GiveUp, TypeOK
  <2>6. CASE Renew(t)
    <3>1. [h EXCEPT !.renewing = "sent", !.renewAt = now] \in Handles
      BY DEF Handles
    <3> QED
      BY <2>6, <3>1, <2>W DEF Renew, TypeOK, h
  <2>7. CASE Renewed(t)
    <3>1. \A x \in {"matched", "unmatched"} : [h EXCEPT !.renewing = x] \in Handles
      BY DEF Handles
    <3>2. lease' \in [owner : Tasks \cup {None}, expires : Times]
      BY <2>7 DEF Renewed, h
    <3> QED
      BY <2>7, <3>1, <3>2, <2>W DEF Renewed, TypeOK, h
  <2>8. CASE RenewalAnswered(t)
    <3>1. /\ [h EXCEPT !.renewing = "no", !.renewAt = 0, !.lost = TRUE] \in Handles
          /\ [h EXCEPT !.renewing = "no", !.renewAt = 0,
                       !.expires = h.renewAt + TTL] \in Handles
      BY DEF Handles
    <3> QED
      BY <2>8, <3>1, <2>W DEF RenewalAnswered, TypeOK, h
  <2>9. CASE RenewalFails(t)
    <3>1. [h EXCEPT !.renewing = "no", !.renewAt = 0, !.lost = TRUE] \in Handles
      BY DEF Handles
    <3>2. stray' \in [Tasks -> SUBSET Times]
      BY <2>9 DEF RenewalFails, h
    <3> QED
      BY <2>9, <3>1, <3>2, <2>W DEF RenewalFails, TypeOK, h
  <2>10. CASE StrayRenewed(t)
    BY <2>10 DEF StrayRenewed, TypeOK
  <2>11. CASE NoticeExpiry(t)
    <3>1. [h EXCEPT !.lost = TRUE] \in Handles
      BY DEF Handles
    <3> QED
      BY <2>11, <3>1, <2>W DEF NoticeExpiry, TypeOK, h
  <2>12. CASE Release(t)
    <3>1. [h EXCEPT !.phase = "releasing"] \in Handles
      BY DEF Handles
    <3> QED
      BY <2>12, <3>1, <2>W DEF Release, TypeOK, h
  <2>13. CASE Delete(t)
    <3>1. lease' \in [owner : Tasks \cup {None}, expires : Times]
      BY <2>13 DEF Delete, Free, Times
    <3> QED
      BY <2>13, <3>1, <2>W DEF Delete, TypeOK
  <2>14. CASE DeleteFails(t)
    BY <2>14, <2>W DEF DeleteFails, TypeOK
  <2>15. CASE Crash(t)
    <3>1. stray' \in [Tasks -> SUBSET Times]
      BY <2>15 DEF Crash, h
    <3> QED
      BY <2>15, <3>1, <2>W DEF Crash, TypeOK
  <2>16. CASE StrayGranted(t)
    <3>1. lease' \in [owner : Tasks \cup {None}, expires : Times]
      BY <2>16 DEF StrayGranted, h
    <3> QED
      BY <2>16, <3>1, <2>W DEF StrayGranted, TypeOK
  <2> QED
    BY <1>2, <2>1, <2>2, <2>3, <2>4, <2>5, <2>6, <2>7, <2>8, <2>9, <2>10, <2>11,
       <2>12, <2>13, <2>14, <2>15, <2>16 DEF Step
<1>3. CASE UNCHANGED vars
  BY <1>3 DEF vars, TypeOK
<1> QED
  BY <1>1, <1>2, <1>3 DEF Next

\* What TypeOK says of the numbers of one task.
LEMMA LeaseFields ==
  ASSUME TypeOK, NEW t \in Tasks
  PROVE  /\ now \in Int /\ lease.expires \in Int /\ TTL \in Int /\ TTL > 0 /\ t # None
         /\ task[t].at \in Int /\ task[t].renewAt \in Int /\ task[t].expires \in Int
         /\ 0 <= now
  BY ConstantsAssumption DEF TypeOK, Handles, Times

\* A step of t changes the document only where nothing promised to u is in force.
LEMMA Others ==
  ASSUME TypeOK, NEW t \in Tasks, NEW u \in Tasks \ {t}, Backed(u),
         task'[u] = task[u], now' = now,
         lease' = lease \/ lease.owner \in {None, t} \/ lease.expires <= now
  PROVE  Backed(u)'
<1>1. /\ now \in Int /\ lease.expires \in Int /\ u # None
      /\ task[u].at + TTL \in Int /\ task[u].renewAt + TTL \in Int
      /\ task[u].expires \in Int
  BY LeaseFields
<1>2. CASE lease' = lease
  BY <1>2 DEF Backed, Believes, Promised
<1>3. CASE lease.owner \in {None, t} \/ lease.expires <= now
  <2>1. \A to \in Int : Promised(u, to) => ~(now < to)
    BY <1>1, <1>3 DEF Promised
  <2>2. ~Believes(u)
    BY <1>1, <1>3 DEF Backed, Believes
  <2>3. /\ task[u].phase = "granted" => ~(now < task[u].at + TTL)
        /\ task[u].phase = "held" /\ ~task[u].lost /\ task[u].renewing = "matched"
             => ~(now < task[u].renewAt + TTL)
    BY <1>1, <2>1 DEF Backed
  <2> QED
    BY <2>2, <2>3 DEF Backed, Believes, Promised
<1> QED
  BY <1>2, <1>3

\* Time may end beliefs and promises, never begin them.
LEMMA Passing ==
  ASSUME IInv, Tick, NEW u \in Tasks
  PROVE  Backed(u)' /\ Timely(u)'
<1>1. /\ Backed(u) /\ Timely(u) /\ TypeOK
      /\ now' = now + 1 /\ lease' = lease /\ task' = task /\ stray' = stray
  BY DEF IInv, Tick
<1>2. /\ now \in Int /\ task[u].at + TTL \in Int /\ task[u].renewAt + TTL \in Int
      /\ task[u].expires \in Int /\ task[u].at \in Int /\ task[u].renewAt \in Int
      /\ TTL \in Int
  BY <1>1, LeaseFields
<1>3. Timely(u)'
  BY <1>1, <1>2 DEF Timely
<1>4. /\ Believes(u)' => Believes(u)
      /\ \A to \in Int : Promised(u, to) => (now' < to => lease'.owner = u /\ lease'.expires >= to)
  BY <1>1, <1>2 DEF Believes, Promised
<1> QED
  BY <1>1, <1>2, <1>3, <1>4 DEF Backed, Promised

\* What a step of t does to t itself.
LEMMA OwnStep ==
  ASSUME IInv, NEW t \in Tasks, Step(t)
  PROVE  Backed(t)' /\ Timely(t)'
<1> DEFINE h == task[t]
<1>0. /\ TypeOK /\ Backed(t) /\ Timely(t)
      /\ now \in Int /\ lease.expires \in Int /\ TTL \in Int /\ TTL > 0 /\ t # None
      /\ h.at \in Int /\ h.renewAt \in Int /\ h.expires \in Int /\ 0 <= now
      /\ h \in Handles /\ task \in [Tasks -> Handles]
      /\ stray \in [Tasks -> SUBSET Times]
      /\ lease \in [owner : Tasks \cup {None}, expires : Times]
  BY LeaseFields, Records DEF IInv, TypeOK
<1>W. \A r : Set(t, r) => task'[t] = r
  BY <1>0 DEF Set
<1>E. /\ Ended(t).phase \in {"abandoned", "over"} /\ ~Ended(t).lost
      /\ Ended(t).at <= now /\ Ended(t).renewAt <= now /\ Ended(t).expires <= now + TTL
      /\ Ended(t).renewing = "no"
      /\ h.phase # "asking" => Ended(t).phase = "over"
  BY <1>0 DEF Ended, Over, Idle, Timely, Handles
<1> USE DEF Backed, Timely, Believes, Promised
<1>1. CASE Ask(t)
  <2>1. task'[t] = [h EXCEPT !.phase = "asking", !.at = now]
    BY <1>1, <1>W DEF Ask
  <2>2. /\ task'[t].phase = "asking"
        /\ task'[t].at = now
        /\ task'[t].expires = h.expires
        /\ task'[t].lost = h.lost
        /\ task'[t].renewing = h.renewing
        /\ task'[t].renewAt = h.renewAt
    BY <2>1, <1>0 DEF Handles
  <2> QED
    BY <1>1, <2>2, <1>0 DEF Ask
<1>2. CASE Grant(t)
  BY <1>2, <1>0, <1>W DEF Grant, Handles
<1>3. CASE Refuse(t)
  BY <1>3, <1>0, <1>W DEF Refuse, Handles
<1>4. CASE Granted(t)
  <2>1. task'[t] = [h EXCEPT !.phase = "held", !.at = 0, !.expires = h.at + TTL]
    BY <1>4, <1>W DEF Granted
  <2>2. /\ task'[t].phase = "held"
        /\ task'[t].at = 0
        /\ task'[t].expires = h.at + TTL
        /\ task'[t].lost = h.lost
        /\ task'[t].renewing = h.renewing
        /\ task'[t].renewAt = h.renewAt
    BY <2>1, <1>0 DEF Handles
  <2> QED
    BY <1>4, <2>2, <1>0 DEF Granted
<1>5. CASE GiveUp(t)
  BY <1>5, <1>0, <1>E, <1>W DEF GiveUp
<1>6. CASE Renew(t)
  <2>1. task'[t] = [h EXCEPT !.renewing = "sent", !.renewAt = now]
    BY <1>6, <1>W DEF Renew
  <2>2. /\ task'[t].phase = h.phase
        /\ task'[t].at = h.at
        /\ task'[t].expires = h.expires
        /\ task'[t].lost = h.lost
        /\ task'[t].renewing = "sent"
        /\ task'[t].renewAt = now
    BY <2>1, <1>0 DEF Handles
  <2> QED
    BY <1>6, <2>2, <1>0 DEF Renew
<1>7. CASE Renewed(t)
  BY <1>7, <1>0, <1>W DEF Renewed, Handles
<1>8. CASE RenewalAnswered(t)
  <2> DEFINE to == h.renewAt + TTL
  <2>1. CASE h.renewing = "unmatched" \/ now >= to
    <3>1. task'[t] = [h EXCEPT !.renewing = "no", !.renewAt = 0, !.lost = TRUE]
      BY <1>8, <2>1, <1>W DEF RenewalAnswered
    <3>2. /\ task'[t].phase = h.phase
          /\ task'[t].at = h.at
          /\ task'[t].expires = h.expires
          /\ task'[t].lost = TRUE
          /\ task'[t].renewing = "no"
          /\ task'[t].renewAt = 0
      BY <3>1, <1>0 DEF Handles
    <3> QED
      BY <1>8, <3>2, <1>0 DEF RenewalAnswered
  <2>2. CASE ~(h.renewing = "unmatched" \/ now >= to)
    <3>1. task'[t] = [h EXCEPT !.renewing = "no", !.renewAt = 0, !.expires = to]
      BY <1>8, <2>2, <1>W DEF RenewalAnswered
    <3>2. /\ task'[t].phase = h.phase
          /\ task'[t].at = h.at
          /\ task'[t].expires = to
          /\ task'[t].lost = h.lost
          /\ task'[t].renewing = "no"
          /\ task'[t].renewAt = 0
      BY <3>1, <1>0 DEF Handles
    <3>3. h.renewing = "matched"
      BY <1>8, <2>2 DEF RenewalAnswered
    <3> QED
      BY <1>8, <2>2, <3>2, <3>3, <1>0 DEF RenewalAnswered
  <2> QED
    BY <2>1, <2>2
<1>9. CASE RenewalFails(t)
  <2>1. task'[t] = [h EXCEPT !.renewing = "no", !.renewAt = 0, !.lost = TRUE]
    BY <1>9, <1>W DEF RenewalFails
  <2>2. /\ task'[t].phase = h.phase
        /\ task'[t].at = h.at
        /\ task'[t].expires = h.expires
        /\ task'[t].lost = TRUE
        /\ task'[t].renewing = "no"
        /\ task'[t].renewAt = 0
    BY <2>1, <1>0 DEF Handles
  <2> QED
    BY <1>9, <2>2, <1>0 DEF RenewalFails
<1>10. CASE StrayRenewed(t)
  BY <1>10, <1>0 DEF StrayRenewed, Handles
<1>11. CASE NoticeExpiry(t)
  BY <1>11, <1>0, <1>W DEF NoticeExpiry, Handles
<1>12. CASE Release(t)
  BY <1>12, <1>0, <1>W DEF Release, Handles
<1>13. CASE Delete(t)
  BY <1>13, <1>0, <1>W DEF Delete, Over, Idle
<1>14. CASE DeleteFails(t)
  BY <1>14, <1>0, <1>W DEF DeleteFails, Over, Idle
<1>15. CASE Crash(t)
  BY <1>15, <1>0, <1>E, <1>W DEF Crash
<1>16. CASE StrayGranted(t)
  BY <1>16, <1>0, <1>W DEF StrayGranted, Over, Idle
<1> QED
  BY <1>1, <1>2, <1>3, <1>4, <1>5, <1>6, <1>7, <1>8, <1>9, <1>10, <1>11, <1>12,
     <1>13, <1>14, <1>15, <1>16 DEF Step

\* What it leaves of the others.
LEMMA OthersStep ==
  ASSUME IInv, NEW t \in Tasks, Step(t), NEW u \in Tasks \ {t}
  PROVE  /\ Backed(u)' /\ Timely(u)'
         /\ task'[u] = task[u] /\ now' = now
<1>1. /\ TypeOK /\ Backed(u) /\ Timely(u) /\ Timely(t)
      /\ task \in [Tasks -> Handles] /\ stray \in [Tasks -> SUBSET Times]
      /\ now \in Int /\ lease.expires \in Int /\ task[t].at \in Int
  BY LeaseFields DEF IInv, TypeOK
<1>2. now' = now /\ task'[u] = task[u] /\ stray'[u] = stray[u]
  BY <1>1 DEF Step, Ask, Grant, Refuse, Granted, GiveUp, Renew, Renewed, RenewalAnswered,
       RenewalFails, StrayRenewed, NoticeExpiry, Release, Delete, DeleteFails, Crash, Set,
       StrayGranted
<1>3. lease' = lease \/ lease.owner \in {None, t} \/ lease.expires <= now
  BY <1>1 DEF Timely, Step, Ask, Grant, Refuse, Granted, GiveUp, Renew, Renewed,
       RenewalAnswered, RenewalFails, StrayRenewed, NoticeExpiry, Release, Delete,
       DeleteFails, Crash, StrayGranted, Grantable
<1>4. Backed(u)'
  BY <1>1, <1>2, <1>3, Others
<1> QED
  BY <1>1, <1>2, <1>4 DEF Timely

\* The invariant of the lease holds in every state.
LEMMA Inductive == Spec => []IInv
<1>1. Init => IInv
  <2> SUFFICES ASSUME Init PROVE IInv
    OBVIOUS
  <2>1. TypeOK
    BY ConstantsAssumption DEF Init, TypeOK, Handles, Times, Idle, Free
  <2>2. \A t \in Tasks : Backed(t) /\ Timely(t)
    <3> SUFFICES ASSUME NEW t \in Tasks PROVE Backed(t) /\ Timely(t)
      OBVIOUS
    <3>1. /\ task[t] = Idle /\ now = 0 /\ stray[t] = {} /\ TTL \in Int /\ TTL > 0
      BY ConstantsAssumption DEF Init
    <3> QED
      BY <3>1 DEF Backed, Timely, Believes, Promised, Idle
  <2> QED
    BY <2>1, <2>2 DEF IInv
<1>2. IInv /\ [Next]_vars => IInv'
  <2> SUFFICES ASSUME IInv, [Next]_vars PROVE IInv'
    OBVIOUS
  <2>1. TypeOK'
    BY TypeStep DEF IInv
  <2>2. ASSUME NEW u \in Tasks PROVE Backed(u)' /\ Timely(u)'
    <3>1. CASE Tick
      BY <3>1, Passing
    <3>2. ASSUME NEW t \in Tasks, Step(t) PROVE Backed(u)' /\ Timely(u)'
      <4>1. CASE u = t
        BY <3>2, <4>1, OwnStep
      <4>2. CASE u # t
        BY <3>2, <4>2, OthersStep
      <4> QED
        BY <4>1, <4>2
    <3>3. CASE UNCHANGED vars
      BY <3>3 DEF vars, IInv, Backed, Timely, Believes, Promised
    <3> QED
      BY <3>1, <3>2, <3>3 DEF Next
  <2> QED
    BY <2>1, <2>2 DEF IInv
<1> QED
  BY <1>1, <1>2, PTL DEF Spec

-----------------------------------------------------------------------------
\* Every variable of a lease keeps its type, and times stay within TTL of the clock's.
THEOREM TypeCorrect == Spec => []TypeOK
<1>1. IInv => TypeOK
  BY DEF IInv
<1> QED
  BY <1>1, Inductive, PTL

\* A task whose assertHeld() would return owns the document, for at least as long.
THEOREM BeliefBacked == Spec => []BeliefIsBacked
<1>1. IInv => BeliefIsBacked
  BY DEF IInv, Backed, BeliefIsBacked
<1> QED
  BY <1>1, Inductive, PTL

\* Whoever believes owns the lease, and it has one owner.
LEMMA OneBeliever ==
  ASSUME IInv, NEW t \in Tasks, NEW u \in Tasks, Believes(t), Believes(u)
  PROVE  t = u
  BY DEF IInv, Backed

\* What the holder is.
HolderOK ==
  /\ \A t \in Tasks : Believes(t) => Holder = t
  /\ (\A t \in Tasks : ~Believes(t)) => Holder = None

\* Holder, which is chosen, is the task that believes, or None.
LEMMA HolderIs == IInv => HolderOK
<1> SUFFICES ASSUME IInv PROVE HolderOK
  OBVIOUS
<1>1. ASSUME NEW t \in Tasks, Believes(t) PROVE Holder = t
  <2>1. \E x \in Tasks : Believes(x)
    BY <1>1
  <2>2. Holder \in Tasks /\ Believes(Holder)
    BY <2>1 DEF Holder
  <2> QED
    BY <1>1, <2>2, OneBeliever
<1>2. ASSUME \A t \in Tasks : ~Believes(t) PROVE Holder = None
  BY <1>2 DEF Holder
<1> QED
  BY <1>1, <1>2 DEF HolderOK

\* The others go on believing what they did; who begins to believe is alone.
LEMMA StepOfOne ==
  ASSUME IInv, IInv', NEW t \in Tasks, Step(t)
  PROVE  /\ \A u \in Tasks \ {t} : Believes(u)' <=> Believes(u)
         /\ Believes(t)' => \A u \in Tasks \ {t} : ~Believes(u)
<1>1. ASSUME NEW u \in Tasks \ {t} PROVE Believes(u)' <=> Believes(u)
  BY OthersStep DEF Believes
<1>2. ASSUME NEW u \in Tasks \ {t}, Believes(t)', Believes(u)' PROVE FALSE
  BY <1>2 DEF IInv, Backed
<1> QED
  BY <1>1, <1>2

\* The lease implements its contract: at any time at most one task believes to hold
\* it, and it passes from one to another through nobody's hands.
THEOREM Implements == Spec => ImplementsLease
<1>1. Init => Contract!Init
  BY DEF Init, Idle, Holder, Believes, Contract!Init
<1>2. HolderOK /\ HolderOK' /\ IInv /\ IInv' /\ [Next]_vars => [Contract!Next]_Holder
  <2> SUFFICES ASSUME HolderOK, HolderOK', IInv, IInv', [Next]_vars
               PROVE  Contract!Next \/ Holder' = Holder
    OBVIOUS
  <2>1. CASE \A t \in Tasks : Believes(t)' => Believes(t)
    BY <2>1 DEF HolderOK, Contract!Next, Contract!Lose
  <2>2. ASSUME NEW t \in Tasks, Believes(t)', ~Believes(t)
        PROVE  Contract!Next
    <3>0. now \in Int /\ task[t].expires \in Int
      BY LeaseFields DEF IInv
    <3>1. ~Tick /\ ~UNCHANGED vars
      BY <2>2, <3>0 DEF Tick, vars, Believes
    <3>2. PICK s \in Tasks : Step(s)
      BY <3>1 DEF Next
    <3>3. s = t
      BY <2>2, <3>2, StepOfOne
    <3>4. Holder = None /\ Holder' = t
      BY <2>2, <3>2, <3>3, StepOfOne DEF HolderOK
    <3> QED
      BY <3>4 DEF Contract!Next, Contract!Obtain
  <2> QED
    BY <2>1, <2>2
<1> QED
  BY <1>1, <1>2, Inductive, HolderIs, PTL DEF Spec, ImplementsLease, Contract!Spec


(***************************************************************************)
(* The job.                                                                *)
(***************************************************************************)

\* What the manifest man says of the target (dc, ix), given the images e and the
\* indexes "was" of its backup, as far as no other program wrote there.
Says(man, e, was, dc, ix, oth) ==
  /\ \A d \in (DOMAIN e) \ oth :
       /\ d \in man.applied => dc[d] = e[d].after
       /\ d \in man.pending => dc[d] \in {e[d].before, e[d].after}
       /\ d \notin man.applied \cup man.pending => dc[d] = e[d].before
  /\ \A i \in Indexes \ oth :
       /\ i \in man.created => ix[i] = "ours" /\ was[i] = "absent"
       /\ i \in man.creating => ix[i] \in {"absent", "ours"} /\ was[i] = "absent"
       /\ i \in man.dropped => ix[i] = "absent" /\ was[i] = "ours"
       /\ i \in man.dropping => ix[i] \in {"absent", "ours"} /\ was[i] = "ours"
       /\ i \notin man.created \cup man.creating \cup man.dropped \cup man.dropping =>
            ix[i] = was[i]

Explains(man) == Says(man, Current.entries, Current.indexes, doc, index, others)

IndexesOf(man) == man.created \cup man.creating \cup man.dropped \cup man.dropping
Untouched(man) == man.pending \cup man.applied = {} /\ IndexesOf(man) = {}

Backup == [kind : {"apply", "restore"}, on : Nat, man : Manifests,
           entries : UNION {[S -> Entry] : S \in SUBSET Docs},
           indexes : [Indexes -> {"absent", "ours", "other"}]]

Run == [man : Manifests, docs : SUBSET Docs, create : SUBSET Indexes, drop : SUBSET Indexes,
        batch : SUBSET Docs, written : SUBSET (Docs \cup Indexes), index : Indexes \cup {Void},
        counted : BOOLEAN, failing : BOOLEAN]

Typed ==
  /\ doc \in [Docs -> Images] /\ index \in [Indexes -> {"absent", "ours", "other"}]
  /\ backups \in Seq(Backup) /\ Top <= MaxBackups
  /\ \A b \in 1..Top :
       /\ backups[b].man.pending \cup backups[b].man.applied \subseteq Scope(b)
       /\ backups[b].man.pending \cap backups[b].man.applied = {}
  /\ run \in Run \cup {Void}
  /\ others \subseteq Docs \cup Indexes /\ clock \in 0..MaxOthers

\* Images are as old as the backups that hold them; what others wrote is in none.
Known(x, upto) == x \in {Void, New} \/ x \in 0..upto
ImagesOK ==
  /\ \A d \in Docs : Known(doc[d], clock)
  /\ \A b \in 1..Top : \A d \in Scope(b) :
       Known(backups[b].entries[d].before, clock) /\ Known(backups[b].entries[d].after, clock)
  /\ \A b \in 1..Top : \A d \in Scope(b) \cap others :
       doc[d] # backups[b].entries[d].before /\ doc[d] # backups[b].entries[d].after

\* The manifest on disk.
DiskOK ==
  Top > 0 =>
    /\ Explains(Current.man)
    /\ Current.kind = "apply" /\ Current.man.status = "failed" => Untouched(Current.man)
    /\ Current.kind = "restore" => Current.on \in 1..(Top - 1)

Phases == {"prepared", "running", "passed"}

\* A run's manifest, in memory, is right whether it could be saved or not.
Accounts(r) ==
  /\ r.man.pending \cup r.man.applied \subseteq Scope(Top)
  /\ r.man.pending \cap r.man.applied = {}
  /\ Explains(r.man)
  /\ r.man.status \in Phases
  /\ Current.kind = "apply" => r.drop = {} /\ r.man.dropping \cup r.man.dropped = {}
  /\ r.man.applied # {} => r.counted

\* One that is not failing has saved it, and knows what it has written.
Knows(r) ==
  /\ r.docs = Scope(Top) \ r.man.applied
  /\ r.batch = r.man.pending
  /\ r.man.creating \cup r.man.dropping = {r.index} \ {Void}
  /\ r.man.creating \cap r.man.dropping = {}
  /\ r.index \in r.written => r.index \notin r.create \cup r.drop
  /\ r.index # Void => r.batch = {} /\ r.written \subseteq {r.index}
  /\ r.index = Void => r.written \subseteq r.batch
  /\ r.index = Void /\ r.written # {} => r.counted
  /\ \A d \in r.written : d \in Docs \ others => doc[d] = Current.entries[d].after
  /\ \A i \in r.written : i \in Indexes \ others =>
       index[i] = IF i \in r.man.creating THEN "ours" ELSE "absent"
  /\ \A i \in r.create : Current.indexes[i] = "absent"
  /\ \A i \in r.drop : Current.indexes[i] = "ours"
  /\ \A i \in (r.create \cup r.drop) \cap IndexesOf(r.man) : i = r.index

RunOK ==
  run # Void =>
    /\ Top > 0 /\ Accounts(run) /\ Current.man.status \in Phases
    /\ ~run.failing => run.man = Current.man /\ Knows(run)

JobInv == Typed /\ ImagesOK /\ DiskOK /\ RunOK

-----------------------------------------------------------------------------
\* A manifest explains the target still when others have written more of it.
LEMMA SaysMore ==
  ASSUME NEW n, NEW p, NEW e, NEW was, NEW dc, NEW ix, NEW o, NEW q,
         Says(n, e, was, dc, ix, o), o \subseteq q,
         p.pending = n.pending, p.applied = n.applied, p.created = n.created,
         p.creating = n.creating, p.dropped = n.dropped, p.dropping = n.dropping
  PROVE  Says(p, e, was, dc, ix, q)
BY DEF Says

\* A write of others, once it is counted as one, contradicts no manifest.
LEMMA SaysElsewhere ==
  ASSUME NEW n, NEW e, NEW was, NEW dc, NEW ix, NEW o, NEW dc2, NEW ix2, NEW x,
         Says(n, e, was, dc, ix, o),
         \A d \in (DOMAIN e) \ {x} : dc2[d] = dc[d],
         \A i \in Indexes \ {x} : ix2[i] = ix[i]
  PROVE  Says(n, e, was, dc2, ix2, o \cup {x})
BY DEF Says

\* A manifest that announces nothing explains the target it was planned from.
LEMMA SaysFirst ==
  ASSUME NEW n, NEW e, NEW was, NEW dc, NEW ix, NEW o,
         Untouched(n), \A d \in DOMAIN e : dc[d] = e[d].before, ix = was
  PROVE  Says(n, e, was, dc, ix, o)
BY DEF Says, Untouched, IndexesOf

\* A record of a manifest changes alone.
LEMMA ManifestSaved ==
  ASSUME backups \in Seq(Backup), NEW b \in 1..Top, NEW n \in Manifests,
         backups' = [backups EXCEPT ![b].man = n]
  PROVE  /\ backups' \in Seq(Backup) /\ Top' = Top
         /\ backups'[b].man = n
         /\ \A c \in 1..Top : /\ backups'[c].entries = backups[c].entries
                              /\ backups'[c].indexes = backups[c].indexes
                              /\ backups'[c].kind = backups[c].kind
                              /\ backups'[c].on = backups[c].on
                              /\ c # b => backups'[c].man = backups[c].man
<1>1. \A c \in 1..Top : backups[c] \in Backup
  BY DEF Top
<1>2. [backups[b] EXCEPT !.man = n] \in Backup
  BY <1>1 DEF Backup
<1>3. backups' = [backups EXCEPT ![b] = [backups[b] EXCEPT !.man = n]]
  BY <1>1
<1> DEFINE x == [backups[b] EXCEPT !.man = n]
<1>4. x.man = n /\ x.entries = backups[b].entries /\ x.indexes = backups[b].indexes
      /\ x.kind = backups[b].kind /\ x.on = backups[b].on
  BY <1>1 DEF Backup
<1>5. x \in Backup /\ backups' = [backups EXCEPT ![b] = x]
  BY <1>2, <1>3
<1> HIDE DEF x
<1>6. backups' \in Seq(Backup) /\ Len(backups') = Len(backups)
      /\ \A c \in 1..Top : backups'[c] = IF c = b THEN x ELSE backups[c]
  BY <1>5 DEF Top
<1> QED BY <1>4, <1>6 DEF Top

\* The backups on disk have their types.
LEMMA EntriesTyped ==
  ASSUME backups \in Seq(Backup), NEW b \in 1..Top
  PROVE  /\ Scope(b) \subseteq Docs
         /\ \A d \in Scope(b) : backups[b].entries[d] \in Entry
         /\ backups[b].man \in Manifests /\ backups[b].kind \in {"apply", "restore"}
         /\ backups[b].indexes \in [Indexes -> {"absent", "ours", "other"}]
<1>1. backups[b] \in Backup
  BY DEF Top
<1>2. PICK S \in SUBSET Docs : backups[b].entries \in [S -> Entry]
  BY <1>1 DEF Backup
<1> QED BY <1>1, <1>2 DEF Scope, Backup

\* A manifest saved, or not: the run fails then, and its report may still save it.
LEMMA SaveKeeps ==
  ASSUME JobInv, run # Void, ~run.failing, NEW r \in Run, ~r.failing,
         Accounts(r), Knows(r), r.man.applied # {} => run.counted, Save(r)
  PROVE  JobInv'
<1>1. Top \in 1..Top /\ Top > 0 /\ backups \in Seq(Backup) /\ run \in Run
  BY DEF JobInv, RunOK, Typed, Top
<1>2. UNCHANGED <<doc, index, others, clock>>
  BY DEF Save
<1>3. /\ r.man \in Manifests /\ r.failing = FALSE
  BY DEF Run
<1>4. Accounts(run) /\ run.man = Current.man /\ Knows(run) /\ Current.man.status \in Phases
  BY DEF JobInv, RunOK
<1>5. CASE OnDisk(r.man) /\ run' = r
  <2>1. /\ backups' \in Seq(Backup) /\ Top' = Top
        /\ backups'[Top].man = r.man
        /\ \A c \in 1..Top : /\ backups'[c].entries = backups[c].entries
                             /\ backups'[c].indexes = backups[c].indexes
                             /\ backups'[c].kind = backups[c].kind
                             /\ backups'[c].on = backups[c].on
                             /\ c # Top => backups'[c].man = backups[c].man
    BY <1>1, <1>3, <1>5, ManifestSaved DEF OnDisk
  <2>2. Current'.man = r.man /\ Current'.entries = Current.entries
        /\ Current'.indexes = Current.indexes /\ Current'.kind = Current.kind
        /\ Current'.on = Current.on
    BY <1>1, <2>1 DEF Current
  <2>3. \A c \in 1..Top : Scope(c)' = Scope(c)
    BY <2>1 DEF Scope
  <2>4. Typed'
    <3>1. \A b \in 1..Top :
            /\ backups'[b].man.pending \cup backups'[b].man.applied \subseteq Scope(b)'
            /\ backups'[b].man.pending \cap backups'[b].man.applied = {}
      BY <1>1, <2>1, <2>3 DEF JobInv, Typed, Accounts
    <3> QED BY <1>2, <1>5, <2>1, <3>1 DEF JobInv, Typed
  <2>5. ImagesOK'
    BY <1>2, <2>1, <2>3 DEF JobInv, ImagesOK
  <2>6. Explains(r.man) /\ r.man.status \in Phases
    BY DEF Accounts
  <2>7. DiskOK'
    BY <1>1, <1>2, <2>1, <2>2, <2>6 DEF JobInv, DiskOK, Explains, Phases
  <2>8. RunOK'
    BY <1>1, <1>2, <1>3, <1>5, <2>1, <2>2, <2>3 DEF RunOK, Accounts, Knows, Explains
  <2> QED BY <2>4, <2>5, <2>7, <2>8 DEF JobInv
<1>6. CASE UNCHANGED backups /\ run' = [run EXCEPT !.man = r.man, !.failing = TRUE]
  <2>1. /\ run' \in Run /\ run'.man = r.man /\ run'.failing = TRUE /\ run'.drop = run.drop
        /\ run'.counted = run.counted
    BY <1>1, <1>3, <1>6 DEF Run
  <2>2. Top' = Top /\ Current' = Current /\ \A c : Scope(c)' = Scope(c)
    BY <1>6 DEF Top, Current, Scope
  <2>3. Typed' /\ ImagesOK'
    BY <1>2, <1>6, <2>1, <2>2 DEF JobInv, Typed, ImagesOK
  <2>4. DiskOK'
    BY <1>2, <1>6, <2>2 DEF JobInv, DiskOK, Explains
  <2>5. RunOK'
    BY <1>1, <1>2, <1>4, <2>1, <2>2 DEF RunOK, Accounts, Explains
  <2> QED BY <2>3, <2>4, <2>5 DEF JobInv
<1> QED BY <1>5, <1>6 DEF Save

\* A batch is announced in the manifest before it is written.
LEMMA AnnounceKeeps == ASSUME JobInv, MarkRunning \/ AnnounceBatch PROVE JobInv'
<1>1. run # Void /\ ~run.failing /\ run \in Run /\ Knows(run) /\ Accounts(run) /\ Top \in 1..Top
      /\ backups \in Seq(Backup)
  <2>1. run # Void /\ ~run.failing
    BY DEF MarkRunning, AnnounceBatch, Between, Started, Active
  <2> QED BY <2>1 DEF JobInv, RunOK, Typed, Top
<1>2. CASE MarkRunning
  <2> DEFINE r == [run EXCEPT !.man.status = "running"]
  <2>1. /\ r \in Run /\ r.failing = run.failing /\ r.docs = run.docs /\ r.batch = run.batch
        /\ r.index = run.index /\ r.written = run.written /\ r.create = run.create
        /\ r.drop = run.drop /\ r.counted = run.counted
        /\ r.man.status = "running" /\ r.man.pending = run.man.pending
        /\ r.man.applied = run.man.applied /\ r.man.created = run.man.created
        /\ r.man.creating = run.man.creating /\ r.man.dropped = run.man.dropped
        /\ r.man.dropping = run.man.dropping
    BY <1>1 DEF Run, Manifests
  <2>2. Save(r)
    BY <1>2 DEF MarkRunning
  <2> HIDE DEF r
  <2>3. Explains(r.man)
    BY <1>1, <2>1, SaysMore DEF Explains, Accounts
  <2>4. Accounts(r) /\ Knows(r)
    BY <1>1, <2>1, <2>3 DEF Accounts, Knows, Phases, IndexesOf
  <2> QED BY <1>1, <2>1, <2>2, <2>4, SaveKeeps DEF Accounts
<1>3. CASE AnnounceBatch
  <2>1. PICK B \in (SUBSET run.docs) \ {{}} :
          Save([run EXCEPT !.batch = B, !.man.pending = @ \cup B])
    BY <1>3 DEF AnnounceBatch
  <2> DEFINE r == [run EXCEPT !.batch = B, !.man.pending = @ \cup B]
  <2>2. /\ run.batch = {} /\ run.index = Void
    BY <1>3 DEF AnnounceBatch, Between
  <2>3. run.man.pending = {} /\ run.docs = Scope(Top) \ run.man.applied /\ run.written = {}
    BY <1>1, <2>2 DEF Knows
  <2>4. B \subseteq Docs
    BY <1>1, <2>1 DEF Run
  <2>5. /\ r \in Run /\ r.failing = run.failing /\ r.docs = run.docs /\ r.batch = B
        /\ r.index = run.index /\ r.written = run.written /\ r.create = run.create
        /\ r.drop = run.drop /\ r.counted = run.counted
        /\ r.man.status = run.man.status /\ r.man.pending = run.man.pending \cup B
        /\ r.man.applied = run.man.applied /\ r.man.created = run.man.created
        /\ r.man.creating = run.man.creating /\ r.man.dropped = run.man.dropped
        /\ r.man.dropping = run.man.dropping
    BY <1>1, <2>4 DEF Run, Manifests
  <2> HIDE DEF r
  <2>6. Explains(r.man)
    <3>1. Says(run.man, Current.entries, Current.indexes, doc, index, others)
      BY <1>1 DEF Accounts, Explains
    <3> QED BY <3>1, <2>1, <2>3, <2>5 DEF Explains, Says
  <2>7. Accounts(r) /\ Knows(r)
    BY <1>1, <2>1, <2>2, <2>3, <2>5, <2>6 DEF Accounts, Knows, Phases, IndexesOf
  <2> QED BY <1>1, <2>1, <2>5, <2>7, SaveKeeps DEF Accounts, r
<1> QED BY <1>2, <1>3

\* A batch is recorded as applied.
LEMMA RecordKeeps == ASSUME JobInv, RecordBatch PROVE JobInv'
<1>1. run # Void /\ ~run.failing /\ run \in Run /\ Knows(run) /\ Accounts(run) /\ Top \in 1..Top
  BY DEF RecordBatch, Started, Active, JobInv, RunOK, Typed, Top
<1> DEFINE B == run.batch
           r == [run EXCEPT !.docs = @ \ run.batch, !.batch = {}, !.written = {},
                            !.man.pending = @ \ run.batch, !.man.applied = @ \cup run.batch]
<1>2. Save(r) /\ B # {} /\ B = run.written /\ B \subseteq Docs
  BY <1>1 DEF RecordBatch, Run
<1>3. run.index = Void /\ run.man.pending = B /\ run.counted
      /\ run.docs = Scope(Top) \ run.man.applied
  BY <1>1, <1>2 DEF Knows
<1>4. /\ r \in Run /\ r.failing = run.failing /\ r.docs = run.docs \ B /\ r.batch = {}
      /\ r.index = run.index /\ r.written = {} /\ r.create = run.create
      /\ r.drop = run.drop /\ r.counted = run.counted
      /\ r.man.status = run.man.status /\ r.man.pending = run.man.pending \ B
      /\ r.man.applied = run.man.applied \cup B /\ r.man.created = run.man.created
      /\ r.man.creating = run.man.creating /\ r.man.dropped = run.man.dropped
      /\ r.man.dropping = run.man.dropping
  BY <1>1, <1>2 DEF Run, Manifests
<1> HIDE DEF r
<1>5. Explains(r.man)
  <2>1. Says(run.man, Current.entries, Current.indexes, doc, index, others)
    BY <1>1 DEF Accounts, Explains
  <2>2. \A d \in B \ others : doc[d] = Current.entries[d].after
    BY <1>1, <1>2 DEF Knows
  <2> QED BY <1>3, <1>4, <2>1, <2>2 DEF Explains, Says
<1>6. Accounts(r) /\ Knows(r)
  BY <1>1, <1>2, <1>3, <1>4, <1>5 DEF Accounts, Knows, Phases, IndexesOf
<1> QED BY <1>1, <1>2, <1>3, <1>4, <1>6, SaveKeeps

\* What a run at work may rely on.
LEMMA RunTyped ==
  ASSUME JobInv, run # Void
  PROVE  /\ run \in Run /\ Top \in 1..Top /\ Top > 0 /\ Top \in Nat /\ backups \in Seq(Backup)
         /\ Accounts(run) /\ Current.man.status \in Phases
         /\ ~run.failing => Knows(run) /\ run.man = Current.man
BY DEF JobInv, RunOK, Typed, Top

\* A run that only fails, or counts: the manifests stay.
LEMMA ThrowKeeps ==
  ASSUME JobInv, Throw \/ (Return /\ UNCHANGED backups)
  PROVE  JobInv'
<1>1. run # Void /\ UNCHANGED <<doc, index, backups, others, clock>>
      /\ (run' = [run EXCEPT !.failing = TRUE] \/ run' = Void)
  BY DEF Throw, Return, Active
<1>2. Top' = Top /\ Current' = Current /\ \A b : Scope(b)' = Scope(b)
  BY <1>1 DEF Top, Current, Scope
<1>3. run' = Void \/ /\ run' \in Run /\ run'.man = run.man /\ run'.failing = TRUE
                     /\ run'.drop = run.drop /\ run'.counted = run.counted
  BY <1>1, RunTyped DEF Run
<1>4. Typed' /\ ImagesOK' /\ DiskOK'
  BY <1>1, <1>2, <1>3 DEF JobInv, Typed, ImagesOK, DiskOK, Explains
<1>5. RunOK'
  BY <1>1, <1>2, <1>3, RunTyped DEF RunOK, Accounts, Explains
<1> QED BY <1>4, <1>5 DEF JobInv

\* A run ends, dies or is given up.
LEMMA EndKeeps ==
  ASSUME JobInv, run' = Void, UNCHANGED <<doc, index, backups, others, clock>>
  PROVE  JobInv'
<1>2. Top' = Top /\ Current' = Current /\ \A b : Scope(b)' = Scope(b)
  BY DEF Top, Current, Scope
<1>4. Typed' /\ ImagesOK' /\ DiskOK'
  BY <1>2 DEF JobInv, Typed, ImagesOK, DiskOK, Explains
<1> QED BY <1>4 DEF JobInv, RunOK

\* The status of a backup's manifest changes as the run ends.
LEMMA StatusKeeps ==
  ASSUME JobInv, run # Void, run' = Void, UNCHANGED <<doc, index, others, clock>>,
         NEW b \in 1..Top, NEW n \in Manifests, backups' = [backups EXCEPT ![b].man = n],
         n.pending \cup n.applied \subseteq Scope(b), n.pending \cap n.applied = {},
         b = Top => /\ Explains(n)
                    /\ Current.kind = "apply" /\ n.status = "failed" => Untouched(n)
  PROVE  JobInv'
<1>1. /\ backups' \in Seq(Backup) /\ Top' = Top
      /\ backups'[b].man = n
      /\ \A c \in 1..Top : /\ backups'[c].entries = backups[c].entries
                           /\ backups'[c].indexes = backups[c].indexes
                           /\ backups'[c].kind = backups[c].kind
                           /\ backups'[c].on = backups[c].on
                           /\ c # b => backups'[c].man = backups[c].man
  BY RunTyped, ManifestSaved
<1>2. \A c \in 1..Top : Scope(c)' = Scope(c)
  BY <1>1 DEF Scope
<1>3. Top \in 1..Top
  BY RunTyped
<1>4. Typed'
  <2>1. \A c \in 1..Top :
          /\ backups'[c].man.pending \cup backups'[c].man.applied \subseteq Scope(c)'
          /\ backups'[c].man.pending \cap backups'[c].man.applied = {}
    BY <1>1, <1>2 DEF JobInv, Typed
  <2> QED BY <1>1, <2>1 DEF JobInv, Typed
<1>5. ImagesOK'
  BY <1>1, <1>2 DEF JobInv, ImagesOK
<1>6. DiskOK'
  <2>1. Current'.entries = Current.entries /\ Current'.indexes = Current.indexes
        /\ Current'.kind = Current.kind /\ Current'.on = Current.on
        /\ Current'.man = IF b = Top THEN n ELSE Current.man
    BY <1>1, <1>3 DEF Current
  <2> QED BY <1>1, <1>3, <2>1 DEF JobInv, DiskOK, Explains
<1> QED BY <1>4, <1>5, <1>6 DEF JobInv, RunOK

\* A run reports its failure in the manifest, if that can be stored.
LEMMA ReportKeeps == ASSUME JobInv, Report PROVE JobInv'
<1>1. run # Void /\ run' = Void /\ UNCHANGED <<doc, index, others, clock>>
  BY DEF Report
<1>2. CASE UNCHANGED backups
  BY <1>1, <1>2, EndKeeps
<1>3. CASE OnDisk([run.man EXCEPT !.status = IF Partial THEN "partial" ELSE "failed"])
  <2> DEFINE n == [run.man EXCEPT !.status = IF Partial THEN "partial" ELSE "failed"]
  <2>1. run.man \in Manifests /\ Accounts(run) /\ Top \in 1..Top
    BY <1>1, RunTyped DEF Run
  <2>2. /\ n \in Manifests /\ n.pending = run.man.pending /\ n.applied = run.man.applied
        /\ n.created = run.man.created /\ n.creating = run.man.creating
        /\ n.dropped = run.man.dropped /\ n.dropping = run.man.dropping
        /\ n.status = IF Partial THEN "partial" ELSE "failed"
    BY <2>1 DEF Manifests
  <2>3. backups' = [backups EXCEPT ![Top].man = n]
    BY <1>3 DEF OnDisk
  <2> HIDE DEF n
  <2>4. Explains(n)
    BY <2>1, <2>2, SaysMore DEF Explains, Accounts
  <2>5. Current.kind = "apply" /\ n.status = "failed" => Untouched(n)
    BY <2>1, <2>2 DEF Partial, Accounts, Untouched, IndexesOf
  <2> QED BY <1>1, <2>1, <2>2, <2>3, <2>4, <2>5, StatusKeeps DEF Accounts
<1> QED BY <1>2, <1>3 DEF Report

\* A run returns.
LEMMA ReturnKeeps == ASSUME JobInv, Return PROVE JobInv'
<1>1. CASE UNCHANGED backups
  BY <1>1, ThrowKeeps
<1>2. CASE ~UNCHANGED backups
  <2>1. /\ run # Void /\ run' = Void /\ UNCHANGED <<doc, index, others, clock>>
        /\ Current.kind # "apply"
        /\ backups' = [backups EXCEPT ![Current.on].man.status = "restored"]
    BY <1>2 DEF Return
  <2>2. Top \in 1..Top /\ backups \in Seq(Backup) /\ Top \in Nat
    BY <2>1, RunTyped
  <2>3. Current \in Backup
    BY <2>2 DEF Current, Top
  <2>4. Current.on \in 1..Top /\ Current.on # Top
    <3>1. Current.kind = "restore"
      BY <2>1, <2>3 DEF Backup
    <3> QED BY <2>2, <3>1 DEF JobInv, DiskOK
  <2> DEFINE b == Current.on
             n == [backups[b].man EXCEPT !.status = "restored"]
  <2>5. backups[b].man \in Manifests
    BY <2>2, <2>4, EntriesTyped
  <2>6. n \in Manifests /\ n.pending = backups[b].man.pending
        /\ n.applied = backups[b].man.applied
    BY <2>5 DEF Manifests
  <2>7. backups' = [backups EXCEPT ![b].man = n]
    <3>1. backups[b] \in Backup
      BY <2>2, <2>4 DEF Top
    <3> QED BY <2>1, <3>1 DEF Backup, Manifests
  <2>8. n.pending \cup n.applied \subseteq Scope(b) /\ n.pending \cap n.applied = {}
    BY <2>4, <2>6 DEF JobInv, Typed
  <2> HIDE DEF n, b
  <2> QED BY <2>1, <2>4, <2>6, <2>7, <2>8, StatusKeeps DEF b
<1> QED BY <1>1, <1>2

\* An index is announced as one to create or to drop, and no other.
LEMMA AnnounceIndexKeeps == ASSUME JobInv, NEW i \in Indexes, AnnounceIndex(i) PROVE JobInv'
<1>1. run # Void /\ ~run.failing /\ Between
  BY DEF AnnounceIndex, Between, Started, Active
<1>2. run \in Run /\ Knows(run) /\ Accounts(run) /\ Top \in 1..Top /\ backups \in Seq(Backup)
      /\ run.man \in Manifests
  BY <1>1, RunTyped DEF Run
<1>3. run.batch = {} /\ run.index = Void /\ run.man.pending = {} /\ run.written = {}
      /\ run.man.creating = {} /\ run.man.dropping = {}
  BY <1>1, <1>2 DEF Between, Knows
<1>4. Says(run.man, Current.entries, Current.indexes, doc, index, others)
  BY <1>2 DEF Accounts, Explains
<1>5. i # Void /\ Void \notin Indexes /\ run.create \cup run.drop \subseteq Indexes
  BY <1>2, JobConstants DEF Run
<1>6. CASE MayCreate /\ i \in run.create
           /\ Save([run EXCEPT !.index = i, !.man.creating = @ \cup {i}])
  <2> DEFINE r == [run EXCEPT !.index = i, !.man.creating = @ \cup {i}]
  <2>1. /\ r \in Run /\ r.failing = run.failing /\ r.docs = run.docs /\ r.batch = run.batch
        /\ r.index = i /\ r.written = run.written /\ r.create = run.create
        /\ r.drop = run.drop /\ r.counted = run.counted
        /\ r.man.status = run.man.status /\ r.man.pending = run.man.pending
        /\ r.man.applied = run.man.applied /\ r.man.created = run.man.created
        /\ r.man.creating = {i} /\ r.man.dropped = run.man.dropped
        /\ r.man.dropping = run.man.dropping
    BY <1>2, <1>3 DEF Run, Manifests
  <2>2. Save(r)
    BY <1>6
  <2> HIDE DEF r
  <2>3. Current.indexes[i] = "absent" /\ i \notin IndexesOf(run.man)
    BY <1>2, <1>3, <1>5, <1>6 DEF Knows
  <2>4. Explains(r.man)
    <3>1. ASSUME NEW k \in Indexes \ others
          PROVE  /\ k \in r.man.created => index[k] = "ours" /\ Current.indexes[k] = "absent"
                 /\ k \in r.man.creating => /\ index[k] \in {"absent", "ours"}
                                            /\ Current.indexes[k] = "absent"
                 /\ k \in r.man.dropped => index[k] = "absent" /\ Current.indexes[k] = "ours"
                 /\ k \in r.man.dropping => /\ index[k] \in {"absent", "ours"}
                                            /\ Current.indexes[k] = "ours"
                 /\ k \notin IndexesOf(r.man) => index[k] = Current.indexes[k]
      BY <1>3, <1>4, <2>1, <2>3 DEF Says, IndexesOf
    <3> QED BY <1>4, <2>1, <3>1 DEF Explains, Says, IndexesOf
  <2>5. Accounts(r)
    BY <1>2, <2>1, <2>4 DEF Accounts
  <2>6. Knows(r)
    <3>1. \A k \in (r.create \cup r.drop) \cap IndexesOf(r.man) : k = r.index
      BY <1>2, <1>3, <1>5, <2>1 DEF Knows, IndexesOf
    <3> QED BY <1>2, <1>3, <1>5, <2>1, <3>1 DEF Knows
  <2> QED BY <1>1, <1>2, <2>1, <2>2, <2>5, <2>6, SaveKeeps DEF Accounts
<1>7. CASE MayDrop /\ i \in run.drop
           /\ Save([run EXCEPT !.index = i, !.man.dropping = @ \cup {i}])
  <2> DEFINE r == [run EXCEPT !.index = i, !.man.dropping = @ \cup {i}]
  <2>1. /\ r \in Run /\ r.failing = run.failing /\ r.docs = run.docs /\ r.batch = run.batch
        /\ r.index = i /\ r.written = run.written /\ r.create = run.create
        /\ r.drop = run.drop /\ r.counted = run.counted
        /\ r.man.status = run.man.status /\ r.man.pending = run.man.pending
        /\ r.man.applied = run.man.applied /\ r.man.created = run.man.created
        /\ r.man.creating = run.man.creating /\ r.man.dropped = run.man.dropped
        /\ r.man.dropping = {i}
    BY <1>2, <1>3 DEF Run, Manifests
  <2>2. Save(r)
    BY <1>7
  <2> HIDE DEF r
  <2>3. Current.indexes[i] = "ours" /\ i \notin IndexesOf(run.man)
    BY <1>2, <1>3, <1>5, <1>7 DEF Knows
  <2>4. Explains(r.man)
    <3>1. ASSUME NEW k \in Indexes \ others
          PROVE  /\ k \in r.man.created => index[k] = "ours" /\ Current.indexes[k] = "absent"
                 /\ k \in r.man.creating => /\ index[k] \in {"absent", "ours"}
                                            /\ Current.indexes[k] = "absent"
                 /\ k \in r.man.dropped => index[k] = "absent" /\ Current.indexes[k] = "ours"
                 /\ k \in r.man.dropping => /\ index[k] \in {"absent", "ours"}
                                            /\ Current.indexes[k] = "ours"
                 /\ k \notin IndexesOf(r.man) => index[k] = Current.indexes[k]
      BY <1>3, <1>4, <2>1, <2>3 DEF Says, IndexesOf
    <3> QED BY <1>4, <2>1, <3>1 DEF Explains, Says, IndexesOf
  <2>5. Accounts(r)
    BY <1>2, <1>7, <2>1, <2>4 DEF Accounts
  <2>6. Knows(r)
    <3>1. \A k \in (r.create \cup r.drop) \cap IndexesOf(r.man) : k = r.index
      BY <1>2, <1>3, <1>5, <2>1 DEF Knows, IndexesOf
    <3> QED BY <1>2, <1>3, <1>5, <2>1, <3>1 DEF Knows
  <2> QED BY <1>1, <1>2, <2>1, <2>2, <2>5, <2>6, SaveKeeps DEF Accounts
<1> QED BY <1>6, <1>7 DEF AnnounceIndex

\* The creation or the drop of an index is recorded.
LEMMA RecordIndexKeeps == ASSUME JobInv, RecordIndex PROVE JobInv'
<1>1. run # Void /\ ~run.failing
  BY DEF RecordIndex, Started, Active
<1>2. run \in Run /\ Knows(run) /\ Accounts(run) /\ Top \in 1..Top /\ backups \in Seq(Backup)
      /\ run.man \in Manifests
  BY <1>1, RunTyped DEF Run
<1> DEFINE i == run.index
<1>3. i \in Indexes /\ i # Void /\ run.written = {i} /\ run.batch = {}
      /\ run.man.creating \cup run.man.dropping = {i} /\ run.man.pending = {}
  BY <1>2 DEF RecordIndex, Knows, Run
<1>4. Says(run.man, Current.entries, Current.indexes, doc, index, others)
  BY <1>2 DEF Accounts, Explains
<1>5. i \notin others => index[i] = IF i \in run.man.creating THEN "ours" ELSE "absent"
  BY <1>2, <1>3 DEF Knows
<1> DEFINE q == [run EXCEPT !.index = Void, !.written = {}, !.counted = TRUE]
<1>6. /\ q \in Run /\ q.failing = run.failing /\ q.docs = run.docs /\ q.batch = run.batch
      /\ q.index = Void /\ q.written = {} /\ q.create = run.create
      /\ q.drop = run.drop /\ q.counted = TRUE /\ q.man = run.man
  BY <1>2 DEF Run
<1>7. Save(IF i \in run.man.creating
           THEN [q EXCEPT !.man.creating = @ \ {i}, !.man.created = @ \cup {i}]
           ELSE [q EXCEPT !.man.dropping = @ \ {i}, !.man.dropped = @ \cup {i}])
  BY DEF RecordIndex
<1> HIDE DEF q, i
<1>8. i \notin Docs /\ Void \notin Indexes
  BY <1>3, JobConstants
<1>9. CASE i \in run.man.creating
  <2> DEFINE r == [q EXCEPT !.man.creating = @ \ {i}, !.man.created = @ \cup {i}]
  <2>1. /\ r \in Run /\ r.failing = q.failing /\ r.docs = q.docs /\ r.batch = q.batch
        /\ r.index = q.index /\ r.written = q.written /\ r.create = q.create
        /\ r.drop = q.drop /\ r.counted = q.counted
        /\ r.man.status = q.man.status /\ r.man.pending = q.man.pending
        /\ r.man.applied = q.man.applied /\ r.man.created = q.man.created \cup {i}
        /\ r.man.creating = q.man.creating \ {i} /\ r.man.dropped = q.man.dropped
        /\ r.man.dropping = q.man.dropping
    BY <1>3, <1>6 DEF Run, Manifests
  <2>2. Save(r)
    BY <1>7, <1>9
  <2> HIDE DEF r
  <2>3. Explains(r.man)
    BY <1>3, <1>4, <1>5, <1>6, <1>9, <2>1 DEF Explains, Says
  <2>4. Accounts(r)
    BY <1>2, <1>6, <2>1, <2>3 DEF Accounts
  <2>5. Knows(r)
    <3>1. r.man.creating = {} /\ r.man.dropping = {}
      BY <1>2, <1>3, <1>6, <1>9, <2>1 DEF Knows
    <3>2. \A k \in r.create \cup r.drop : k \notin IndexesOf(r.man)
      BY <1>2, <1>3, <1>6, <1>9, <2>1, <3>1 DEF Knows, IndexesOf
    <3> QED BY <1>2, <1>3, <1>6, <1>8, <2>1, <3>1, <3>2 DEF Knows
  <2> QED BY <1>1, <1>2, <1>6, <2>1, <2>2, <2>4, <2>5, SaveKeeps DEF Accounts
<1>10. CASE i \notin run.man.creating
  <2> DEFINE r == [q EXCEPT !.man.dropping = @ \ {i}, !.man.dropped = @ \cup {i}]
  <2>1. /\ r \in Run /\ r.failing = q.failing /\ r.docs = q.docs /\ r.batch = q.batch
        /\ r.index = q.index /\ r.written = q.written /\ r.create = q.create
        /\ r.drop = q.drop /\ r.counted = q.counted
        /\ r.man.status = q.man.status /\ r.man.pending = q.man.pending
        /\ r.man.applied = q.man.applied /\ r.man.created = q.man.created
        /\ r.man.creating = q.man.creating /\ r.man.dropped = q.man.dropped \cup {i}
        /\ r.man.dropping = q.man.dropping \ {i}
    BY <1>3, <1>6 DEF Run, Manifests
  <2>2. Save(r)
    BY <1>7, <1>10
  <2> HIDE DEF r
  <2>3. Explains(r.man)
    BY <1>3, <1>4, <1>5, <1>6, <1>10, <2>1 DEF Explains, Says
  <2>4. Accounts(r)
    BY <1>2, <1>3, <1>6, <1>10, <2>1, <2>3 DEF Accounts
  <2>5. Knows(r)
    <3>1. r.man.creating = {} /\ r.man.dropping = {}
      BY <1>3, <1>6, <1>10, <2>1, <2>4 DEF Accounts
    <3>2. \A k \in r.create \cup r.drop : k \notin IndexesOf(r.man)
      BY <1>2, <1>3, <1>6, <1>10, <2>1, <3>1 DEF Knows, IndexesOf
    <3> QED BY <1>2, <1>3, <1>6, <1>8, <2>1, <3>1, <3>2 DEF Knows
  <2> QED BY <1>1, <1>2, <1>6, <2>1, <2>2, <2>4, <2>5, SaveKeeps DEF Accounts
<1> QED BY <1>9, <1>10

\* A run has written and verified everything.
LEMMA PassKeeps == ASSUME JobInv, Pass PROVE JobInv'
<1>1. run # Void /\ ~run.failing
  BY DEF Pass, Between, Started, Active
<1>2. run \in Run /\ Knows(run) /\ Accounts(run) /\ Top \in 1..Top /\ backups \in Seq(Backup)
  BY <1>1, RunTyped
<1> DEFINE r == [run EXCEPT !.man.status = "passed"]
<1>3. /\ r \in Run /\ r.failing = run.failing /\ r.docs = run.docs /\ r.batch = run.batch
      /\ r.index = run.index /\ r.written = run.written /\ r.create = run.create
      /\ r.drop = run.drop /\ r.counted = run.counted
      /\ r.man.status = "passed" /\ r.man.pending = run.man.pending
      /\ r.man.applied = run.man.applied /\ r.man.created = run.man.created
      /\ r.man.creating = run.man.creating /\ r.man.dropped = run.man.dropped
      /\ r.man.dropping = run.man.dropping
  BY <1>2 DEF Run, Manifests
<1>4. Save(r)
  BY DEF Pass
<1> HIDE DEF r
<1>5. Explains(r.man)
  BY <1>2, <1>3, SaysMore DEF Explains, Accounts
<1>6. Accounts(r) /\ Knows(r)
  BY <1>2, <1>3, <1>5 DEF Accounts, Knows, Phases, IndexesOf
<1> QED BY <1>1, <1>2, <1>3, <1>4, <1>6, SaveKeeps DEF Accounts

\* One document is written: others have not written it since.
LEMMA WriteDocumentKeeps ==
  ASSUME JobInv, NEW d \in Docs, WriteDocument(d)
  PROVE  JobInv' /\ d \notin others /\ \A x \in Docs \ {d} : doc'[x] = doc[x]
<1>1. run # Void /\ ~run.failing /\ d \in run.batch \ run.written
      /\ doc[d] = Current.entries[d].before /\ UNCHANGED <<index, backups, others, clock>>
      /\ doc' = [doc EXCEPT ![d] = Current.entries[d].after]
  BY DEF WriteDocument, Started, Active, Drifted
<1>2. run \in Run /\ Knows(run) /\ Accounts(run) /\ Top \in 1..Top /\ backups \in Seq(Backup)
      /\ Top \in Nat /\ Top > 0
  BY <1>1, RunTyped
<1>3. d \in run.man.pending /\ d \in Scope(Top) /\ d \notin run.man.applied
  BY <1>1, <1>2 DEF Knows, Accounts
<1>4. d \notin others
  BY <1>1, <1>2, <1>3 DEF JobInv, ImagesOK, Current
<1>5. doc \in [Docs -> Images] /\ Current.entries[d] \in Entry
  BY <1>2, <1>3, EntriesTyped DEF JobInv, Typed, Current
<1>6. /\ doc' \in [Docs -> Images] /\ doc'[d] = Current.entries[d].after
      /\ \A x \in Docs \ {d} : doc'[x] = doc[x]
  BY <1>1, <1>5 DEF Entry
<1>7. Top' = Top /\ Current' = Current /\ \A b : Scope(b)' = Scope(b)
  BY <1>1 DEF Top, Current, Scope
<1>8. \/ /\ run' \in Run /\ run'.failing = run.failing /\ run'.docs = run.docs
         /\ run'.batch = run.batch /\ run'.index = run.index
         /\ run'.written = run.written \cup {d} /\ run'.create = run.create
         /\ run'.drop = run.drop /\ run'.counted = TRUE /\ run'.man = run.man
      \/ /\ run' \in Run /\ run'.failing = TRUE /\ run'.man = run.man
         /\ run'.drop = run.drop /\ run'.counted = run.counted
  <2>1. \/ run' = [run EXCEPT !.written = @ \cup {d}, !.counted = TRUE]
        \/ run' = [run EXCEPT !.failing = TRUE]
    BY DEF WriteDocument
  <2>2. CASE run' = [run EXCEPT !.written = @ \cup {d}, !.counted = TRUE]
    BY <1>2, <2>2 DEF Run
  <2>3. CASE run' = [run EXCEPT !.failing = TRUE]
    BY <1>2, <2>3 DEF Run
  <2> QED BY <2>1, <2>2, <2>3
<1>9. Typed'
  BY <1>1, <1>6, <1>7, <1>8 DEF JobInv, Typed
<1>10. ImagesOK'
  <2>1. Known(doc'[d], clock)
    BY <1>2, <1>3, <1>6 DEF JobInv, ImagesOK, Current
  <2>2. \A x \in others \cap Docs : doc'[x] = doc[x]
    BY <1>4, <1>6
  <2>3. \A b \in 1..Top : Scope(b) \subseteq Docs
    BY <1>2, EntriesTyped
  <2>4. \A x \in Docs : Known(doc'[x], clock)
    BY <1>6, <2>1 DEF JobInv, ImagesOK
  <2> QED BY <1>1, <1>7, <2>2, <2>3, <2>4 DEF JobInv, ImagesOK
<1>11. ASSUME NEW m, d \in m.pending, d \notin m.applied, Explains(m)
       PROVE  Explains(m)'
  <2>1. Says(m, Current.entries, Current.indexes, doc, index, others)
    BY <1>11 DEF Explains
  <2>2. DOMAIN Current.entries \subseteq Docs
    BY <1>2, EntriesTyped DEF Scope, Current
  <2>3. Says(m, Current.entries, Current.indexes, doc', index, others)
    BY <1>6, <1>11, <2>1, <2>2 DEF Says
  <2> QED BY <1>1, <1>7, <2>3 DEF Explains
<1>12. run.man = Current.man
  BY <1>1, RunTyped
<1>13. Explains(run.man)' /\ Explains(Current.man)'
  <2>1. Explains(run.man)
    BY <1>2 DEF Accounts
  <2> DEFINE m == run.man
  <2>2. Explains(m)'
    BY <1>3, <1>8, <1>11, <2>1
  <2> QED BY <1>7, <1>8, <1>12, <2>2
<1>14. DiskOK'
  BY <1>1, <1>2, <1>7, <1>13 DEF JobInv, DiskOK
<1>15. RunOK'
  <2>1. Accounts(run)'
    BY <1>2, <1>7, <1>8, <1>13 DEF Accounts
  <2>2. d # Void /\ run.index = Void
    BY <1>1, <1>2, JobConstants DEF Knows
  <2>3. ~run'.failing => Knows(run)'
    <3>1. SUFFICES ASSUME ~run'.failing PROVE Knows(run)'
      OBVIOUS
    <3>2. \A x \in run'.written : x \in Docs \ others => doc'[x] = Current.entries[x].after
      BY <1>2, <1>6, <1>8, <3>1 DEF Knows
    <3>3. \A i \in run'.written : i \in Docs
      BY <1>2, <1>8, <2>2, <3>1 DEF Knows, Run
    <3>4. \A i \in run'.written : i \notin Indexes
      BY <3>3, JobConstants
    <3> QED BY <1>1, <1>2, <1>7, <1>8, <2>2, <3>1, <3>2, <3>4 DEF Knows, IndexesOf
  <2> QED BY <1>2, <1>7, <1>8, <1>12, <2>1, <2>3, RunTyped, <1>1 DEF RunOK
<1> QED BY <1>4, <1>6, <1>9, <1>10, <1>14, <1>15 DEF JobInv

\* One index is created or dropped.
LEMMA WriteIndexKeeps == ASSUME JobInv, WriteIndex PROVE JobInv'
<1> DEFINE i == run.index
<1>1. run # Void /\ ~run.failing /\ i # Void /\ UNCHANGED <<doc, backups, others, clock>>
  BY DEF WriteIndex, Started, Active
<1>2. run \in Run /\ Knows(run) /\ Accounts(run) /\ Top \in 1..Top /\ backups \in Seq(Backup)
      /\ Top \in Nat /\ Top > 0 /\ i \in Indexes
  BY <1>1, RunTyped DEF Run
<1>3. run.man.creating \cup run.man.dropping = {i} /\ run.man.creating \cap run.man.dropping = {}
      /\ run.batch = {} /\ run.man.pending = {}
  BY <1>1, <1>2 DEF Knows
<1>4. index' = [index EXCEPT ![i] = IF i \in run.man.creating THEN "ours" ELSE "absent"]
  BY <1>3 DEF WriteIndex
<1>5. /\ index' \in [Indexes -> {"absent", "ours", "other"}]
      /\ index'[i] = IF i \in run.man.creating THEN "ours" ELSE "absent"
      /\ \A k \in Indexes \ {i} : index'[k] = index[k]
  BY <1>2, <1>4 DEF JobInv, Typed
<1>7. Top' = Top /\ Current' = Current /\ \A b : Scope(b)' = Scope(b)
  BY <1>1 DEF Top, Current, Scope
<1>8. \/ /\ run' \in Run /\ run'.failing = run.failing /\ run'.docs = run.docs
         /\ run'.batch = run.batch /\ run'.index = run.index
         /\ run'.written = {i} /\ run'.create = run.create \ {i}
         /\ run'.drop = run.drop \ {i} /\ run'.counted = run.counted /\ run'.man = run.man
      \/ /\ run' \in Run /\ run'.failing = TRUE /\ run'.man = run.man
         /\ run'.drop = run.drop /\ run'.counted = run.counted
  <2>1. \/ run' = [run EXCEPT !.create = @ \ {i}, !.drop = @ \ {i}, !.written = {i}]
        \/ run' = [run EXCEPT !.failing = TRUE]
    BY DEF WriteIndex
  <2>2. CASE run' = [run EXCEPT !.create = @ \ {i}, !.drop = @ \ {i}, !.written = {i}]
    BY <1>2, <2>2 DEF Run
  <2>3. CASE run' = [run EXCEPT !.failing = TRUE]
    BY <1>2, <2>3 DEF Run
  <2> QED BY <2>1, <2>2, <2>3
<1> HIDE DEF i
<1>9. Typed'
  BY <1>1, <1>5, <1>7, <1>8 DEF JobInv, Typed
<1>10. ImagesOK'
  BY <1>1, <1>7 DEF JobInv, ImagesOK
<1>12. run.man = Current.man
  BY <1>1, RunTyped
<1>13. Explains(run.man)' /\ Explains(Current.man)'
  <2>1. Says(run.man, Current.entries, Current.indexes, doc, index, others)
    BY <1>2 DEF Accounts, Explains
  <2>2. Says(run.man, Current.entries, Current.indexes, doc, index', others)
    BY <1>2, <1>3, <1>5, <2>1 DEF Says
  <2>3. Explains(run.man)'
    BY <1>1, <1>7, <1>8, <2>2 DEF Explains
  <2> QED BY <1>7, <1>8, <1>12, <2>3
<1>14. DiskOK'
  BY <1>1, <1>2, <1>7, <1>13 DEF JobInv, DiskOK
<1>15. RunOK'
  <2>1. Accounts(run)'
    BY <1>2, <1>7, <1>8, <1>13 DEF Accounts
  <2>3. ~run'.failing => Knows(run)'
    <3>1. SUFFICES ASSUME ~run'.failing PROVE Knows(run)'
      OBVIOUS
    <3>2. i \notin Docs
      BY <1>2, JobConstants
    <3>3. \A k \in (run'.create \cup run'.drop) \cap IndexesOf(run'.man) : k = run'.index
      BY <1>2, <1>8, <3>1 DEF Knows, IndexesOf, i
    <3>4. run.index = i
      BY DEF i
    <3>5. \A k \in run'.written : k \in Indexes \ others =>
            index'[k] = IF k \in run'.man.creating THEN "ours" ELSE "absent"
      BY <1>5, <1>8, <3>1
    <3>6. \A k \in run'.written : k \notin Docs
      BY <1>8, <3>1, <3>2
    <3>7. /\ run'.man = run.man /\ run'.docs = run.docs /\ run'.batch = {} /\ run'.index = i
          /\ run'.written = {i} /\ i \notin run'.create \cup run'.drop
          /\ run'.create \subseteq run.create /\ run'.drop \subseteq run.drop
      BY <1>3, <1>8, <3>1, <3>4
    <3> QED BY <1>1, <1>2, <1>3, <1>7, <3>3, <3>5, <3>6, <3>7 DEF Knows, IndexesOf
  <2> QED BY <1>2, <1>7, <1>8, <1>12, <2>1, <2>3, RunTyped, <1>1 DEF RunOK
<1> QED BY <1>9, <1>10, <1>14, <1>15 DEF JobInv

\* What a new backup must hold for a run to begin from it.
LEMMA BeginKeeps ==
  ASSUME JobInv, NEW kind \in {"apply", "restore"}, NEW on \in Nat, NEW e, NEW create, NEW drop,
         Begin(kind, on, e, create, drop),
         DOMAIN e \subseteq Docs, e \in [DOMAIN e -> Entry],
         kind = "apply" => drop = {}, kind = "restore" => on \in 1..Top,
         create \subseteq {i \in Indexes : index[i] = "absent"},
         drop \subseteq {i \in Indexes : index[i] = "ours"},
         \A d \in DOMAIN e : e[d].before = doc[d] /\ Known(e[d].after, clock),
         others' \subseteq others, DOMAIN e \cap others' = {}
  PROVE  JobInv'
<1> DEFINE b == [kind |-> kind, on |-> on, entries |-> e, indexes |-> index, man |-> EmptyManifest]
           r == [man |-> EmptyManifest, docs |-> DOMAIN e, create |-> create, drop |-> drop,
                 batch |-> {}, written |-> {}, index |-> Void, counted |-> FALSE,
                 failing |-> FALSE]
<1>1. /\ run = Void /\ Top < MaxBackups /\ backups' = Append(backups, b) /\ run' = r
      /\ UNCHANGED <<doc, index, clock>>
  BY DEF Begin
<1>2. backups \in Seq(Backup) /\ Top \in Nat /\ doc \in [Docs -> Images]
      /\ index \in [Indexes -> {"absent", "ours", "other"}] /\ clock \in 0..MaxOthers
  BY DEF JobInv, Typed, Top
<1>3. EmptyManifest \in Manifests /\ Untouched(EmptyManifest)
      /\ EmptyManifest.status = "prepared"
  BY DEF EmptyManifest, Manifests, Untouched, IndexesOf
<1>4. b \in Backup
  BY <1>2, <1>3 DEF Backup
<1>5. r \in Run
  BY <1>3 DEF Run
<1>6. b.kind = kind /\ b.on = on /\ b.entries = e /\ b.indexes = index /\ b.man = EmptyManifest
  OBVIOUS
<1>7. /\ r.man = EmptyManifest /\ r.docs = DOMAIN e /\ r.create = create /\ r.drop = drop
      /\ r.batch = {} /\ r.written = {} /\ r.index = Void /\ r.counted = FALSE
      /\ r.failing = FALSE
  OBVIOUS
<1> HIDE DEF b, r
<1>8. /\ backups' \in Seq(Backup) /\ Top' = Top + 1 /\ backups'[Top + 1] = b
      /\ \A c \in 1..Top : backups'[c] = backups[c]
  BY <1>1, <1>2, <1>4 DEF Top
<1>9. /\ Current' = b
      /\ \A c \in 1..Top : Scope(c)' = Scope(c)
      /\ \A c : c = Top + 1 => Scope(c)' = DOMAIN e
  BY <1>2, <1>6, <1>8 DEF Current, Scope
<1>10. 1..Top' = 1..Top \cup {Top + 1}
  BY <1>2, <1>8
<1>11. Typed'
  <2>1. b.man.pending \cup b.man.applied = {}
    BY <1>3, <1>6 DEF Untouched
  <2>2. \A c \in 1..Top' :
          /\ backups'[c].man.pending \cup backups'[c].man.applied \subseteq Scope(c)'
          /\ backups'[c].man.pending \cap backups'[c].man.applied = {}
    BY <1>8, <1>9, <1>10, <2>1 DEF JobInv, Typed
  <2>3. Top' <= MaxBackups
    BY <1>1, <1>2, <1>8, JobConstants
  <2> QED BY <1>1, <1>2, <1>5, <1>8, <2>2, <2>3 DEF JobInv, Typed
<1>12. ImagesOK'
  <2>1. \A d \in Docs : Known(doc[d], clock)
    BY DEF JobInv, ImagesOK
  <2>2. \A c \in 1..Top' : \A d \in Scope(c)' :
          Known(backups'[c].entries[d].before, clock) /\ Known(backups'[c].entries[d].after, clock)
    <3>1. ASSUME NEW c \in 1..Top, NEW d \in Scope(c)'
          PROVE  /\ Known(backups'[c].entries[d].before, clock)
                 /\ Known(backups'[c].entries[d].after, clock)
      BY <1>8, <1>9 DEF JobInv, ImagesOK
    <3>2. ASSUME NEW d \in DOMAIN e
          PROVE  Known(b.entries[d].before, clock) /\ Known(b.entries[d].after, clock)
      BY <1>6, <2>1 DEF JobInv, ImagesOK
    <3>3. ASSUME NEW c, c = Top + 1, NEW d \in Scope(c)'
          PROVE  /\ Known(backups'[c].entries[d].before, clock)
                 /\ Known(backups'[c].entries[d].after, clock)
      BY <1>8, <1>9, <3>2, <3>3
    <3> QED BY <1>10, <3>1, <3>3
  <2>3. \A c \in 1..Top' : \A d \in Scope(c)' \cap others' :
          doc[d] # backups'[c].entries[d].before /\ doc[d] # backups'[c].entries[d].after
    BY <1>6, <1>8, <1>9, <1>10 DEF JobInv, ImagesOK
  <2> QED BY <1>1, <2>1, <2>2, <2>3 DEF ImagesOK
<1>13. Explains(EmptyManifest)'
  <2>1. Says(EmptyManifest, e, index, doc, index, others')
    BY <1>3, SaysFirst
  <2> QED BY <1>1, <1>6, <1>9, <2>1 DEF Explains, EmptyManifest
<1>14. DiskOK'
  <2>1. Current'.kind = "restore" => Current'.on \in 1..(Top' - 1)
    BY <1>2, <1>6, <1>8, <1>9
  <2> QED BY <1>3, <1>6, <1>9, <1>13, <2>1 DEF DiskOK, EmptyManifest
<1>15. RunOK'
  <2>1. Accounts(run)'
    BY <1>1, <1>2, <1>3, <1>6, <1>7, <1>8, <1>9, <1>13
       DEF Accounts, EmptyManifest, Phases
  <2>2. Knows(run)'
    <3>1. Scope(Top)' = DOMAIN e
      BY <1>6, <1>9 DEF Scope, Current
    <3>2. (\A k \in create : index[k] = "absent") /\ (\A k \in drop : index[k] = "ours")
      OBVIOUS
    <3> QED BY <1>1, <1>6, <1>7, <1>9, <3>1, <3>2 DEF Knows, EmptyManifest, IndexesOf
  <2> QED BY <1>1, <1>2, <1>6, <1>7, <1>8, <1>9, <2>1, <2>2 DEF RunOK, Phases, EmptyManifest
<1> QED BY <1>11, <1>12, <1>14, <1>15 DEF JobInv

\* apply() takes its backup and starts.
LEMMA ApplyKeeps == ASSUME JobInv, Apply PROVE JobInv'
<1> DEFINE e == PlannedEntries
           create == {i \in Indexes : index[i] = "absent"}
<1>1. Begin("apply", 0, e, create, {}) /\ others' = {}
  BY DEF Apply
<1>2. doc \in [Docs -> Images] /\ New \in Images /\ \A d \in Docs : Known(doc[d], clock)
  BY DEF JobInv, Typed, ImagesOK, Images
<1>3. DOMAIN e \subseteq Docs /\ e \in [DOMAIN e -> Entry]
      /\ \A d \in DOMAIN e : e[d].before = doc[d] /\ e[d].after = New
  BY <1>2 DEF PlannedEntries, Entry
<1> HIDE DEF e
<1>4. \A d \in DOMAIN e : e[d].before = doc[d] /\ Known(e[d].after, clock)
  BY <1>3 DEF Known
<1> QED BY <1>1, <1>3, <1>4, BeginKeeps

\* restore() checks the target against a backup and starts.
LEMMA RestoreKeeps == ASSUME JobInv, NEW b \in 1..Top, Restore(b) PROVE JobInv'
<1> DEFINE e == SafetyEntries(b)
<1>1. Begin("restore", b, e, ToCreate(b), ToDrop(b)) /\ UNCHANGED others /\ Passes(b)
  BY DEF Restore
<1>2. /\ doc \in [Docs -> Images] /\ Void \in Images /\ \A d \in Docs : Known(doc[d], clock)
      /\ backups \in Seq(Backup) /\ b \in Nat
  BY DEF JobInv, Typed, ImagesOK, Images
<1>3. /\ Scope(b) \subseteq Docs /\ \A d \in Scope(b) : backups[b].entries[d] \in Entry
      /\ backups[b].man \in Manifests
  BY <1>2, EntriesTyped
<1>4. Undone(b) \subseteq Scope(b) /\ \A d \in Undone(b) : doc[d] = backups[b].entries[d].after
  <2>1. backups[b].man.pending \cup backups[b].man.applied \subseteq Scope(b)
    BY DEF JobInv, Typed
  <2> QED BY <1>1, <2>1 DEF Undone, Recovered, Passes, Drifted
<1>5. /\ DOMAIN e = Undone(b)
      /\ \A d \in Undone(b) : /\ e[d] \in Entry /\ e[d].before = doc[d]
                              /\ e[d].after \in {Void, backups[b].entries[d].before}
  BY <1>2, <1>3, <1>4 DEF SafetyEntries, Entry
<1>6. e \in [DOMAIN e -> Entry]
  BY <1>5 DEF SafetyEntries
<1> HIDE DEF e
<1>7. \A d \in DOMAIN e : e[d].before = doc[d] /\ Known(e[d].after, clock)
  <2>1. \A d \in Scope(b) : Known(backups[b].entries[d].before, clock)
    BY DEF JobInv, ImagesOK
  <2> QED BY <1>4, <1>5, <2>1 DEF Known
<1>8. DOMAIN e \cap others = {}
  BY <1>4, <1>5 DEF JobInv, ImagesOK
<1>9. /\ ToCreate(b) \subseteq {i \in Indexes : index[i] = "absent"}
      /\ ToDrop(b) \subseteq {i \in Indexes : index[i] = "ours"}
  BY <1>1, <1>3 DEF Passes, ToCreate, ToDrop, Manifests
<1>10. DOMAIN e \subseteq Docs
  BY <1>3, <1>4, <1>5
<1> QED BY <1>1, <1>2, <1>6, <1>7, <1>8, <1>9, <1>10, BeginKeeps

\* Another program writes a document.
LEMMA WriteElsewhereKeeps == ASSUME JobInv, NEW d \in Docs, WriteElsewhere(d) PROVE JobInv'
<1>1. /\ clock' = clock + 1 /\ clock < MaxOthers /\ doc' = [doc EXCEPT ![d] = clock + 1]
      /\ others' = others \cup {d} /\ UNCHANGED <<index, backups, run>>
  BY DEF WriteElsewhere
<1>2. /\ doc \in [Docs -> Images] /\ clock \in Nat /\ clock <= MaxOthers /\ backups \in Seq(Backup)
      /\ index \in [Indexes -> {"absent", "ours", "other"}] /\ others \subseteq Docs \cup Indexes
  BY JobConstants DEF JobInv, Typed
<1>3. Top' = Top /\ Current' = Current /\ \A b : Scope(b)' = Scope(b)
  BY <1>1 DEF Top, Current, Scope
<1>4. doc' \in [Docs -> Images] /\ doc'[d] = clock + 1 /\ \A x \in Docs \ {d} : doc'[x] = doc[x]
  BY <1>1, <1>2, JobConstants DEF Images
<1>5. \A x : Known(x, clock) => Known(x, clock + 1) /\ x # clock + 1
  BY <1>2, JobConstants DEF Known
<1>6. \A b \in 1..Top : Scope(b) \subseteq Docs
  BY <1>2, EntriesTyped
<1>7. Typed'
  BY <1>1, <1>2, <1>3, <1>4, JobConstants DEF JobInv, Typed
<1>8. ImagesOK'
  <2>1. \A x \in Docs : Known(doc'[x], clock')
    BY <1>1, <1>2, <1>4, <1>5 DEF JobInv, ImagesOK, Known
  <2>2. \A b \in 1..Top : \A x \in Scope(b) :
          /\ Known(backups[b].entries[x].before, clock')
          /\ Known(backups[b].entries[x].after, clock')
    BY <1>1, <1>5 DEF JobInv, ImagesOK
  <2>3. \A b \in 1..Top : \A x \in Scope(b) \cap others' :
          doc'[x] # backups[b].entries[x].before /\ doc'[x] # backups[b].entries[x].after
    <3>1. SUFFICES ASSUME NEW b \in 1..Top, NEW x \in Scope(b) \cap others'
                   PROVE  /\ doc'[x] # backups[b].entries[x].before
                          /\ doc'[x] # backups[b].entries[x].after
      OBVIOUS
    <3>2. CASE x = d
      BY <1>4, <1>5, <3>1, <3>2 DEF JobInv, ImagesOK
    <3>3. CASE x # d
      BY <1>1, <1>4, <1>6, <3>1, <3>3 DEF JobInv, ImagesOK
    <3> QED BY <3>2, <3>3
  <2> QED BY <1>1, <1>3, <2>1, <2>2, <2>3 DEF ImagesOK
<1>9. Top > 0 => DOMAIN Current.entries \subseteq Docs
  BY <1>2, <1>6 DEF Scope, Current, Top
<1>10. ASSUME NEW m, Top > 0, Explains(m)
       PROVE  Says(m, Current.entries, Current.indexes, doc', index', others')
  <2>1. Says(m, Current.entries, Current.indexes, doc, index, others)
    BY <1>10 DEF Explains
  <2>2. \A x \in (DOMAIN Current.entries) \ {d} : doc'[x] = doc[x]
    BY <1>4, <1>9, <1>10
  <2> QED BY <1>1, <2>1, <2>2, SaysElsewhere
<1>11. DiskOK'
  BY <1>1, <1>3, <1>10 DEF JobInv, DiskOK, Explains
<1>12. RunOK'
  <2>1. SUFFICES ASSUME run # Void PROVE RunOK'
    BY <1>1 DEF RunOK
  <2>2. Accounts(run) /\ Top > 0
    BY <2>1, RunTyped
  <2>3. Accounts(run)'
    BY <1>1, <1>3, <1>10, <2>2 DEF Accounts, Explains
  <2>4. ~run.failing => Knows(run)'
    <3>1. SUFFICES ASSUME Knows(run) PROVE Knows(run)'
      BY <2>1, RunTyped
    <3>2. \A x \in run.written : x \in Docs \ others' => doc'[x] = Current.entries[x].after
      BY <1>1, <1>4, <3>1 DEF Knows
    <3>3. \A i \in run.written : i \in Indexes \ others' =>
            index[i] = IF i \in run.man.creating THEN "ours" ELSE "absent"
      BY <1>1, <3>1 DEF Knows
    <3> QED BY <1>1, <1>3, <3>1, <3>2, <3>3 DEF Knows
  <2> QED BY <1>1, <1>3, <2>1, <2>2, <2>3, <2>4, RunTyped DEF RunOK
<1> QED BY <1>7, <1>8, <1>11, <1>12 DEF JobInv

\* Another program creates or drops an index.
LEMMA IndexElsewhereKeeps == ASSUME JobInv, NEW k \in Indexes, IndexElsewhere(k) PROVE JobInv'
<1>1. PICK v \in {"absent", "ours", "other"} : index' = [index EXCEPT ![k] = v]
  BY DEF IndexElsewhere
<1>2. /\ clock' = clock + 1 /\ clock < MaxOthers
      /\ others' = others \cup {k} /\ UNCHANGED <<doc, backups, run>>
  BY DEF IndexElsewhere
<1>3. /\ clock \in Nat /\ clock <= MaxOthers /\ backups \in Seq(Backup)
      /\ index \in [Indexes -> {"absent", "ours", "other"}] /\ others \subseteq Docs \cup Indexes
  BY JobConstants DEF JobInv, Typed
<1>4. Top' = Top /\ Current' = Current /\ \A b : Scope(b)' = Scope(b)
  BY <1>2 DEF Top, Current, Scope
<1>5. /\ index' \in [Indexes -> {"absent", "ours", "other"}]
      /\ \A i \in Indexes \ {k} : index'[i] = index[i]
  BY <1>1, <1>3
<1>6. \A b \in 1..Top : Scope(b) \subseteq Docs
  BY <1>3, EntriesTyped
<1>7. k \notin Docs
  BY JobConstants
<1>8. Typed'
  BY <1>2, <1>3, <1>4, <1>5, JobConstants DEF JobInv, Typed
<1>9. ImagesOK'
  <2>1. \A x : Known(x, clock) => Known(x, clock')
    BY <1>2, <1>3 DEF Known
  <2>2. \A b \in 1..Top : Scope(b) \cap others' = Scope(b) \cap others
    BY <1>2, <1>6, <1>7
  <2> QED BY <1>2, <1>4, <2>1, <2>2 DEF JobInv, ImagesOK
<1>10. ASSUME NEW m, Explains(m)
       PROVE  Says(m, Current.entries, Current.indexes, doc', index', others')
  <2>1. Says(m, Current.entries, Current.indexes, doc, index, others)
    BY <1>10 DEF Explains
  <2> QED BY <1>2, <1>5, <2>1, SaysElsewhere
<1>11. DiskOK'
  BY <1>2, <1>4, <1>10 DEF JobInv, DiskOK, Explains
<1>12. RunOK'
  <2>1. SUFFICES ASSUME run # Void PROVE RunOK'
    BY <1>2 DEF RunOK
  <2>2. Accounts(run)
    BY <2>1, RunTyped
  <2>3. Accounts(run)'
    BY <1>2, <1>4, <1>10, <2>2 DEF Accounts, Explains
  <2>4. ~run.failing => Knows(run)'
    <3>1. SUFFICES ASSUME Knows(run) PROVE Knows(run)'
      BY <2>1, RunTyped
    <3>2. \A x \in run.written : x \in Docs \ others' => doc[x] = Current.entries[x].after
      BY <1>2, <3>1 DEF Knows
    <3>3. \A i \in run.written : i \in Indexes \ others' =>
            index'[i] = IF i \in run.man.creating THEN "ours" ELSE "absent"
      BY <1>2, <1>5, <3>1 DEF Knows
    <3> QED BY <1>2, <1>4, <3>1, <3>2, <3>3 DEF Knows
  <2> QED BY <1>2, <1>4, <2>1, <2>2, <2>3, <2>4, RunTyped DEF RunOK
<1> QED BY <1>8, <1>9, <1>11, <1>12 DEF JobInv

\* No run, and no backup, at first.
LEMMA JobInitInv == JobInit => JobInv
<1> SUFFICES ASSUME JobInit PROVE JobInv
  OBVIOUS
<1>1. Top = 0 /\ 1..Top = {} /\ backups \in Seq(Backup)
  BY DEF JobInit, Top
<1>2. Typed
  BY <1>1, JobConstants DEF JobInit, Typed, Images
<1>3. ImagesOK
  BY <1>1 DEF JobInit, ImagesOK, Known
<1> QED BY <1>1, <1>2, <1>3 DEF JobInit, JobInv, DiskOK, RunOK

\* Every step keeps the invariant of the jobs.
LEMMA JobNextInv == JobInv /\ [JobNext]_jobVars => JobInv'
<1> SUFFICES ASSUME JobInv, [JobNext]_jobVars PROVE JobInv'
  OBVIOUS
<1>1. CASE Apply  BY <1>1, ApplyKeeps
<1>2. CASE \E b \in 1..Top : Restore(b)  BY <1>2, RestoreKeeps
<1>3. CASE MarkRunning \/ AnnounceBatch  BY <1>3, AnnounceKeeps
<1>4. CASE \E d \in Docs : WriteDocument(d)  BY <1>4, WriteDocumentKeeps
<1>5. CASE RecordBatch  BY <1>5, RecordKeeps
<1>6. CASE \E i \in Indexes : AnnounceIndex(i)  BY <1>6, AnnounceIndexKeeps
<1>7. CASE WriteIndex  BY <1>7, WriteIndexKeeps
<1>8. CASE RecordIndex  BY <1>8, RecordIndexKeeps
<1>9. CASE Pass  BY <1>9, PassKeeps
<1>10. CASE Return  BY <1>10, ReturnKeeps
<1>11. CASE Throw  BY <1>11, ThrowKeeps
<1>12. CASE Report  BY <1>12, ReportKeeps
<1>13. CASE Crashes  BY <1>13, EndKeeps DEF Crashes
<1>14. CASE \E d \in Docs : WriteElsewhere(d)  BY <1>14, WriteElsewhereKeeps
<1>15. CASE \E i \in Indexes : IndexElsewhere(i)  BY <1>15, IndexElsewhereKeeps
<1>16. CASE UNCHANGED jobVars
  <2>1. Top' = Top /\ Current' = Current /\ \A b : Scope(b)' = Scope(b)
    BY <1>16 DEF Top, Current, Scope, jobVars
  <2>2. Typed' /\ ImagesOK' /\ DiskOK'
    BY <1>16, <2>1 DEF jobVars, JobInv, Typed, ImagesOK, DiskOK, Explains
  <2>3. RunOK'
    BY <1>16, <2>1 DEF jobVars, JobInv, RunOK, Accounts, Knows, Explains
  <2> QED BY <2>2, <2>3 DEF JobInv
<1> QED BY <1>1, <1>2, <1>3, <1>4, <1>5, <1>6, <1>7, <1>8, <1>9, <1>10, <1>11, <1>12, <1>13,
           <1>14, <1>15, <1>16 DEF JobNext, TaskStep

\* The invariant of the jobs holds in every state.
LEMMA JobAlways == TasksSpec => []JobInv
<1>1. JobInv /\ [TasksNext]_<<jobVars, planVars>> => JobInv'
  BY JobNextInv DEF TasksNext
<1> QED BY <1>1, JobInitInv, PTL DEF TasksSpec

\* The invariant has the types in it.
LEMMA JobTyped == JobInv => JobTypeOK
<1> SUFFICES ASSUME JobInv PROVE JobTypeOK
  OBVIOUS
<1>1. backups \in Seq(Backup)
  BY DEF JobInv, Typed
<1>2. \A b \in 1..Top : /\ Scope(b) \subseteq Docs
                        /\ \A d \in Scope(b) : backups[b].entries[d] \in Entry
                        /\ backups[b].man \in Manifests
  BY <1>1, EntriesTyped
<1> QED BY <1>2 DEF JobInv, Typed, JobTypeOK

\* Restoring the last backup finds what its manifest says, and takes all of it back.
LEMMA LastIsUndoable == JobInv => RestoreUndoes
<1> SUFFICES ASSUME JobInv, run = Void, Top > 0, others \cap (Scope(Top) \cup Indexes) = {},
                    \A d \in Scope(Top) : ~Irreversible(Top, d)
             PROVE  Undoable(Top)
  BY DEF RestoreUndoes
<1> DEFINE e == Current.entries
           was == Current.indexes
           m == Current.man
<1>1. Top \in 1..Top /\ backups \in Seq(Backup)
  BY DEF JobInv, Typed, Top
<1>2. /\ Scope(Top) \subseteq Docs /\ m \in Manifests
      /\ was \in [Indexes -> {"absent", "ours", "other"}]
      /\ index \in [Indexes -> {"absent", "ours", "other"}]
      /\ m.pending \cup m.applied \subseteq Scope(Top) /\ m.pending \cap m.applied = {}
  BY <1>1, EntriesTyped DEF Current, JobInv, Typed
<1>3. Says(m, e, was, doc, index, others) /\ DOMAIN e = Scope(Top)
  BY DEF JobInv, DiskOK, Explains, Scope, Current
<1>4. /\ backups[Top].man = m /\ backups[Top].entries = e /\ backups[Top].indexes = was
  BY DEF Current
<1> HIDE DEF e, was, m
<1>5. \A d \in Scope(Top) :
        /\ d \in m.applied => doc[d] = e[d].after
        /\ d \in m.pending => doc[d] \in {e[d].before, e[d].after}
        /\ d \notin m.applied \cup m.pending => doc[d] = e[d].before
  BY <1>3 DEF Says
<1>6. \A i \in Indexes :
        /\ i \in m.created => index[i] = "ours" /\ was[i] = "absent"
        /\ i \in m.creating => index[i] \in {"absent", "ours"} /\ was[i] = "absent"
        /\ i \in m.dropped => index[i] = "absent" /\ was[i] = "ours"
        /\ i \in m.dropping => index[i] \in {"absent", "ours"} /\ was[i] = "ours"
        /\ i \notin IndexesOf(m) => index[i] = was[i]
  BY <1>3 DEF Says, IndexesOf
<1>7. /\ m.creating \subseteq Indexes /\ m.created \subseteq Indexes
      /\ m.dropping \subseteq Indexes /\ m.dropped \subseteq Indexes
  BY <1>2 DEF Manifests
<1>8. Undone(Top) \subseteq Scope(Top)
  BY <1>2, <1>4 DEF Undone, Recovered
<1>9. Passes(Top)
  <2>1. \A d \in m.pending \ m.applied : doc[d] \in {e[d].before, e[d].after}
    BY <1>2, <1>5
  <2>2. \A d \in m.applied : ~Drifted(d, e[d].after)
    BY <1>2, <1>5 DEF Drifted
  <2>3. \A d \in Undone(Top) : ~Irreversible(Top, d)
    BY <1>8
  <2>4. \A i \in m.creating \cup m.dropping : index[i] # "other"
    BY <1>6, <1>7
  <2>5. \A i \in ToDrop(Top) : index[i] = "ours"
    BY <1>4, <1>6, <1>7 DEF ToDrop
  <2>6. \A i \in ToCreate(Top) : index[i] = "absent"
    BY <1>4, <1>6, <1>7 DEF ToCreate
  <2> QED BY <1>4, <2>1, <2>2, <2>3, <2>4, <2>5, <2>6 DEF Passes
<1>10. \A d \in Scope(Top) : DocAfter(Top, d) = e[d].before
  BY <1>4, <1>5 DEF DocAfter, Undone, Recovered
<1>11. \A i \in Indexes : IndexAfter(Top, i) = was[i]
  <2>1. \A i \in Indexes : i \in ToDrop(Top) => was[i] = "absent"
    BY <1>4, <1>6 DEF ToDrop
  <2>2. \A i \in Indexes : i \in ToCreate(Top) => was[i] = "ours"
    BY <1>4, <1>6 DEF ToCreate
  <2>3. ASSUME NEW i \in Indexes, i \notin ToDrop(Top), i \notin ToCreate(Top)
        PROVE  index[i] = was[i]
    BY <1>2, <1>4, <1>6, <2>3 DEF ToDrop, ToCreate, IndexesOf
  <2> QED BY <2>1, <2>2, <2>3 DEF IndexAfter
<1> QED BY <1>4, <1>9, <1>10, <1>11 DEF Undoable

\* An apply that ended as failed has changed nothing.
LEMMA FailedUntouched == JobInv => FailedIsUntouched
<1> SUFFICES ASSUME JobInv, Top > 0, Current.kind = "apply", Current.man.status = "failed"
             PROVE  /\ \A d \in Scope(Top) \ others : doc[d] = Current.entries[d].before
                    /\ \A i \in Indexes \ others : index[i] = Current.indexes[i]
  BY DEF FailedIsUntouched
<1>1. Untouched(Current.man)
      /\ Says(Current.man, Current.entries, Current.indexes, doc, index, others)
  BY DEF JobInv, DiskOK, Explains
<1>2. DOMAIN Current.entries = Scope(Top)
  BY DEF Scope, Current
<1> QED BY <1>1, <1>2 DEF Says, Untouched, IndexesOf

\* A write goes by the image the plan found (expectedBeforeFilter).
LEMMA LaterWritesStep ==
  ASSUME JobInv, [JobNext]_jobVars
  PROVE  [TaskStep => \A d \in Docs : doc'[d] # doc[d] => d \notin others]_jobVars
<1>1. SUFFICES ASSUME TaskStep, NEW d \in Docs, doc'[d] # doc[d] PROVE d \notin others
  OBVIOUS
<1>2. (\E x \in Docs : WriteDocument(x)) \/ doc' = doc
  BY <1>1 DEF TaskStep, Apply, Restore, Begin, MarkRunning, AnnounceBatch, RecordBatch, Save,
              AnnounceIndex, WriteIndex, RecordIndex, Pass, Return, Throw, Report, Crashes
<1>3. PICK x \in Docs : WriteDocument(x)
  BY <1>1, <1>2
<1>4. x \notin others /\ \A y \in Docs \ {x} : doc'[y] = doc[y]
  BY <1>3, WriteDocumentKeeps
<1> QED BY <1>1, <1>4

-----------------------------------------------------------------------------
(* The plan.                                                               *)

\* Where the source has been read; where the target has been matched; where the changes
\* are known.
SeenAt == {"source", "match", "conflicts", "unique", "scanned", "write", "confirm", "passed"}
ReadAt == SeenAt \ {"source"}
MatchedAt == ReadAt \ {"match"}
ReadyAt == MatchedAt \ {"conflicts"}
WritingAt == {"write", "confirm", "passed"}

\* Items are told apart by their ids and by their identities, which the patch leaves alone.
ReadOk(j, read) ==
  /\ IsFiniteSet(read)
  /\ \A item, other \in read :
       /\ item.id = other.id => item = other
       /\ j.mode = "fields" /\ SameOn(j.identity, item.payload, other.payload) => item = other
  /\ \A item \in read : item.unset \cap j.identity = {}

\* No item has two documents among those found.
FoundOnce(h) ==
  \A item \in h.read : \A i, k \in Matching(h.job, item, h.found) : i = k

PlanStatic(h) ==
  /\ h.at # "idle" => h.job \in TaskJobs /\ JobAllowed(h.job)
  /\ h.at \in SeenAt => h.seen \in [Uniques -> IndexStates]
  /\ h.at \in ReadAt => ReadOk(h.job, h.read)
  /\ h.at \in MatchedAt => FoundOnce(h)
  /\ h.at \in ReadyAt => h.changes = Changes(h)
  /\ h.at = "scanned" => h.key \in h.left /\ h.seen[h.key] = "missing"
  /\ h.at \in {"write", "confirm"} => h.todo \subseteq h.changes
  /\ h.at = "write" => h.left \subseteq Indexing(h)
  /\ h.at = "confirm" => h.on \in h.todo
  /\ h.at \in {"confirm", "passed"} => h.left = {}

\* The key tells apart what the plan leaves.
FinalDistinct(h, key) ==
  LET spared == Present(h.start) \ Updated(h.changes)
  IN /\ \A c, e \in h.changes : Collide(key, c.after, e.after) => c = e
     /\ \A c \in h.changes : \A i \in spared : ~Collide(key, c.after, h.start[i])
     /\ \A i, k \in spared : Collide(key, h.start[i], h.start[k]) => i = k

FoundAll(h) ==
  \A i \in Ids :
    h.found[i] = IF \E item \in h.read : i \in Matching(h.job, item, h.start)
                 THEN h.start[i] ELSE Void

ConflictFree(h) ==
  h.job.conflictBy # {} =>
    \A item \in h.read : \A i \in Present(h.start) :
      SameOn(h.job.conflictBy, item.payload, h.start[i]) => i = item.id

\* What has become of an item, while the plan is carried out.
ItemWaits(h, item, docs) ==
  /\ Matching(h.job, item, docs) = Matching(h.job, item, h.start)
  /\ \A i \in Matching(h.job, item, docs) : docs[i] = h.start[i]

ItemDone(h, item, docs) ==
  \E i \in Ids :
    /\ Matching(h.job, item, docs) = {i}
    /\ Matching(h.job, item, h.start) = {i} \cap Present(h.start)
    /\ docs[i] = After(item, h.start[i])

Unwritten(h) == {c \in h.todo : ~(h.at = "confirm" /\ c = h.on)}
Waiting(h, item) == \E c \in Unwritten(h) : c.from = item

LeftAlone(h, docs) ==
  \A i \in Ids : (\A item \in h.read : i \notin Matching(h.job, item, docs))
                   => docs[i] = h.start[i]

Progress(h, docs) ==
  /\ LeftAlone(h, docs)
  /\ \A item \in h.read :
       IF Waiting(h, item) THEN ItemWaits(h, item, docs) ELSE ItemDone(h, item, docs)

PlanQuiet(h, docs, indexes) ==
  /\ h.at \in SeenAt => Enforced(h.start, h.seen)
  /\ h.at \notin WritingAt \cup {"idle"} => docs = h.start
  /\ h.at \in SeenAt \ WritingAt => indexes = h.seen
  /\ h.at \in MatchedAt => FoundAll(h)
  /\ h.at \in ReadyAt => ConflictFree(h)
  /\ h.at \in {"unique", "scanned"} =>
       \A key \in Affected(h, h.changes) \ h.left : FinalDistinct(h, key)
  /\ h.at = "scanned" => \A i \in Ids : h.scanned[i] \in {Void, h.start[i]}
  /\ h.at \in WritingAt =>
       /\ \A key \in Uniques : h.seen[key] = "unique" \/ key \in Indexing(h) => FinalDistinct(h, key)
       /\ \A key \in Uniques :
            indexes[key] = IF key \in Indexing(h) \ h.left THEN "unique" ELSE h.seen[key]
  /\ h.at = "write" /\ h.left # {} => docs = h.start
  /\ h.at \in {"write", "confirm"} => Progress(h, docs)
  /\ h.at = "passed" =>
       /\ LeftAlone(h, docs) /\ \A item \in h.read : ItemDone(h, item, docs)
       /\ \A key \in h.job.declared : indexes[key] = "unique"

\* What is to be written has been shown.
PlanBacked(h) ==
  h.at \in {"write", "confirm"} =>
    /\ h.approval # Void
    /\ \A c \in h.changes :
         [id |-> c.id, before |-> c.before, after |-> c.after] \in h.approval.changes

PlanIInv ==
  /\ PlanTypeOK
  /\ \A p \in Planners :
       /\ PlanStatic(planners[p]) /\ PlanBacked(planners[p])
       /\ planners[p].quiet => PlanQuiet(planners[p], target, built)

-----------------------------------------------------------------------------
\* A limit that was not reached has shown everything.
LEMMA LimitShows ==
  ASSUME NEW ids, NEW limit \in Nat, NEW some \in Limited(ids, limit), IsFiniteSet(ids),
         Cardinality(some) < limit
  PROVE  some = ids
BY FS_CardinalityType, FS_Subset DEF Limited

\* Documents that lead to different members of a set are no more than the set has.
LEMMA NoMoreThan ==
  ASSUME NEW some, NEW all, IsFiniteSet(all), NEW f \in [some -> all],
         \A i, k \in some : f[i] = f[k] => i = k
  PROVE  IsFiniteSet(some) /\ Cardinality(some) <= Cardinality(all)
<1>1. f \in Injection(some, all)
  BY DEF Injection, IsInjective
<1> QED BY <1>1, FS_Injection

\* Being alike for a key goes both ways, and on.
LEMMA CollideBoth ==
  ASSUME NEW key, NEW a, NEW b, Collide(key, a, b)
  PROVE  /\ Collide(key, b, a) /\ SameOn(key, a, b) /\ Indexed(key, b)
         /\ \A c : Collide(key, b, c) => Collide(key, a, c)
         /\ \A c : SameOn(key, b, c) => Collide(key, a, c)
BY DEF Collide, SameOn, Indexed

\* Two items that a document fits are the same.
LEMMA OneFits ==
  ASSUME NEW j \in JobType, NEW read, ReadOk(j, read), NEW item \in read, NEW other \in read,
         NEW i, NEW image, Fits(j, item, i, image), Fits(j, other, i, image)
  PROVE  item = other
<1>1. CASE j.mode = "source-id"
  BY <1>1 DEF Fits, ReadOk
<1>2. CASE j.mode = "fields"
  <2>1. SameOn(j.identity, item.payload, other.payload)
    BY <1>2 DEF Fits, SameOn
  <2> QED BY <1>2, <2>1 DEF ReadOk
<1> QED BY <1>1, <1>2 DEF JobType

\* What is written for an item fits it.
LEMMA AfterFits ==
  ASSUME NEW j \in JobType, NEW item \in ItemType, item.unset \cap j.identity = {},
         NEW before \in MaybeImage, NEW i \in Ids,
         IF before = Void THEN j.mode = "source-id" => i = item.id
         ELSE Fits(j, item, i, before)
  PROVE  /\ Fits(j, item, i, After(item, before))
         /\ After(item, before) \in Image /\ After(item, before) # Void
<1>1. After(item, before) \in Image /\ After(item, before) # Void
  BY PlanConstants DEF After, Image, MaybeImage, ItemType
<1>2. CASE j.mode = "source-id"
  BY <1>1, <1>2 DEF Fits
<1>3. CASE j.mode = "fields"
  <2>1. ASSUME NEW f \in j.identity PROVE item.payload[f] = After(item, before)[f]
    <3>1. f \in Fields /\ f \notin item.unset
      BY DEF JobType
    <3>2. before # Void => item.payload[f] = before[f]
      BY <1>3 DEF Fits, SameOn
    <3> QED BY <3>1, <3>2 DEF After
  <2> QED BY <1>1, <1>3, <2>1 DEF Fits, SameOn
<1> QED BY <1>2, <1>3 DEF JobType

\* The target has been matched.
Matched(h) ==
  /\ h.job \in JobType /\ h.read \subseteq ItemType /\ ReadOk(h.job, h.read)
  /\ h.found \in Collection /\ FoundOnce(h)

\* What the change of an item is made of.
LEMMA ChangeShape ==
  ASSUME NEW h, Matched(h), NEW item \in h.read
  PROVE  LET c == ChangeOf(h, item)
         IN /\ c \in ChangeType /\ c.from = item /\ c.after = After(item, c.before)
            /\ c.after \in Image /\ c.after # Void
            /\ c.before = Void =>
                 /\ Matching(h.job, item, h.found) = {}
                 /\ c.id = IF h.job.mode = "source-id" THEN item.id ELSE Void
            /\ c.before # Void =>
                 /\ c.id \in Ids /\ Matching(h.job, item, h.found) = {c.id}
                 /\ c.before = h.found[c.id] /\ Fits(h.job, item, c.id, c.before)
<1> DEFINE m == Matching(h.job, item, h.found)
           c == ChangeOf(h, item)
<1>1. /\ m \subseteq Ids /\ \A i \in m : h.found[i] # Void /\ h.found[i] \in Image
      /\ \A i, k \in m : i = k
  BY DEF Matched, FoundOnce, Matching, Present, Collection, MaybeImage
<1>2. \A i \in m : Fits(h.job, item, i, h.found[i])
  BY DEF Matching
<1>3. item \in ItemType /\ item.id \in Ids /\ item.unset \cap h.job.identity = {}
  BY DEF Matched, ReadOk, ItemType
<1>4. \A before \in MaybeImage : After(item, before) \in Image /\ After(item, before) # Void
  BY <1>3, PlanConstants DEF After, Image, MaybeImage, ItemType
<1>5. CASE m = {}
  <2>1. c = [from |-> item, id |-> IF h.job.mode = "source-id" THEN item.id ELSE Void,
             before |-> Void, after |-> After(item, Void)]
    BY <1>5 DEF ChangeOf
  <2>2. Void \in MaybeImage
    BY DEF MaybeImage
  <2> QED BY <1>3, <1>4, <1>5, <2>1, <2>2 DEF ChangeType
<1>6. CASE m # {}
  <2> DEFINE i == CHOOSE x \in m : TRUE
  <2>1. i \in m /\ m = {i}
    BY <1>1, <1>6
  <2>2. c = [from |-> item, id |-> i, before |-> h.found[i], after |-> After(item, h.found[i])]
    BY <1>6 DEF ChangeOf
  <2>3. h.found[i] \in MaybeImage /\ h.found[i] # Void /\ i \in Ids
    BY <1>1, <2>1 DEF MaybeImage
  <2> HIDE DEF i, m, c
  <2>4. c \in ChangeType
    BY <1>3, <1>4, <2>2, <2>3 DEF ChangeType
  <2> QED BY <1>2, <1>4, <2>1, <2>2, <2>3, <2>4 DEF m, c
<1> QED BY <1>5, <1>6

\* A change is that of its item.
LEMMA ChangeFrom ==
  ASSUME NEW h, Matched(h), NEW c \in Changes(h)
  PROVE  /\ c.from \in h.read /\ c = ChangeOf(h, c.from) /\ c.before # c.after
         /\ c \in ChangeType
BY ChangeShape DEF Changes

\* A document is changed for one item only.
LEMMA OneChange ==
  ASSUME NEW h, Matched(h), NEW c \in Changes(h), NEW e \in Changes(h),
         c.from = e.from \/ (c.id = e.id /\ c.before # Void /\ e.before # Void)
  PROVE  c = e
<1>1. /\ c.from \in h.read /\ c = ChangeOf(h, c.from)
      /\ e.from \in h.read /\ e = ChangeOf(h, e.from)
  BY ChangeFrom
<1>2. CASE c.id = e.id /\ c.before # Void /\ e.before # Void
  <2>1. /\ Fits(h.job, c.from, c.id, h.found[c.id])
        /\ Fits(h.job, e.from, c.id, h.found[c.id])
    BY <1>1, <1>2, ChangeShape
  <2>2. c.from = e.from
    BY <1>1, <2>1, OneFits DEF Matched
  <2> QED BY <1>1, <2>2
<1> QED BY <1>1, <1>2

\* There are no more changes than items.
LEMMA ChangesFinite ==
  ASSUME NEW h, Matched(h)
  PROVE  IsFiniteSet(Changes(h)) /\ Changes(h) \subseteq ChangeType
<1> DEFINE f == [c \in Changes(h) |-> c.from]
<1>1. f \in [Changes(h) -> h.read] /\ IsFiniteSet(h.read)
  BY ChangeFrom DEF Matched, ReadOk
<1>2. \A c, e \in Changes(h) : f[c] = f[e] => c = e
  BY OneChange
<1>3. IsFiniteSet(Changes(h))
  <2> HIDE DEF f
  <2> QED BY <1>1, <1>2, NoMoreThan
<1> QED BY <1>3, ChangeFrom

\* All of it, with nobody else writing.
Quietly(h) == Matched(h) /\ h.start \in Collection /\ FoundAll(h) /\ h.changes = Changes(h)

\* What was found is what was there at the beginning.
LEMMA FoundIsStart ==
  ASSUME NEW h, Quietly(h), NEW item \in h.read
  PROVE  /\ Matching(h.job, item, h.found) = Matching(h.job, item, h.start)
         /\ \A i \in Matching(h.job, item, h.start) : h.found[i] = h.start[i]
<1>1. ASSUME NEW i \in Matching(h.job, item, h.start)
      PROVE  h.found[i] = h.start[i] /\ i \in Matching(h.job, item, h.found)
  BY DEF Quietly, FoundAll, Matching, Present
<1>2. ASSUME NEW i \in Matching(h.job, item, h.found)
      PROVE  i \in Matching(h.job, item, h.start)
  BY DEF Quietly, FoundAll, Matching, Present
<1> QED BY <1>1, <1>2

\* The change of an item, by the documents that were there at the beginning.
LEMMA ChangeAt ==
  ASSUME NEW h, Quietly(h), NEW item \in h.read
  PROVE  LET c == ChangeOf(h, item)
         IN /\ c.before = Void => Matching(h.job, item, h.start) = {}
            /\ c.before # Void => /\ c.id \in Ids /\ c.before = h.start[c.id]
                                  /\ Matching(h.job, item, h.start) = {c.id}
BY ChangeShape, FoundIsStart DEF Quietly

\* An updated document is one of the target, and its change the only one there.
LEMMA UpdatedAre ==
  ASSUME NEW h, Quietly(h)
  PROVE  /\ Updated(h.changes) \subseteq Present(h.start)
         /\ \A c \in h.changes :
              /\ c \in ChangeType /\ c.after \in Image /\ c.after # Void
              /\ c.before # Void => c.id \in Updated(h.changes) /\ c.before = h.start[c.id]
<1>1. ASSUME NEW c \in h.changes
      PROVE  /\ c \in ChangeType /\ c.after \in Image /\ c.after # Void
             /\ c.before # Void => /\ c.id \in Updated(h.changes) /\ c.before = h.start[c.id]
                                   /\ c.id \in Present(h.start)
  <2>1. c.from \in h.read /\ c = ChangeOf(h, c.from)
    BY ChangeFrom DEF Quietly
  <2> QED BY <2>1, ChangeAt, ChangeShape DEF Quietly, Updated, Matching
<1> QED BY <1>1 DEF Updated

\* An index that the plan does not affect.
LEMMA UnaffectedStays ==
  ASSUME NEW h, Quietly(h), NEW key, Distinct(key, h.start),
         \A c \in h.changes : c.before # Void /\ SameOn(key, c.before, c.after)
  PROVE  FinalDistinct(h, key)
<1>1. ASSUME NEW c \in h.changes
      PROVE  c.id \in Updated(h.changes) /\ c.before = h.start[c.id] /\ c.id \in Present(h.start)
  BY UpdatedAre
<1>2. \A c \in h.changes : \A x : Collide(key, c.after, x) => Collide(key, c.before, x)
  BY DEF Collide, SameOn, Indexed
<1>3. \A x, y : Collide(key, x, y) => Collide(key, y, x)
  BY CollideBoth
<1>4. ASSUME NEW c \in h.changes, NEW e \in h.changes, Collide(key, c.after, e.after) PROVE c = e
  <2>1. Collide(key, h.start[c.id], h.start[e.id])
    BY <1>1, <1>2, <1>3, <1>4
  <2>2. c.id = e.id
    BY <1>1, <2>1 DEF Distinct
  <2> QED BY <2>2, OneChange DEF Quietly
<1>5. ASSUME NEW c \in h.changes, NEW i \in Present(h.start) \ Updated(h.changes)
      PROVE  ~Collide(key, c.after, h.start[i])
  BY <1>1, <1>2 DEF Distinct
<1> QED BY <1>4, <1>5 DEF FinalDistinct, Distinct

\* An index that is there.
LEMMA ExistingStays ==
  ASSUME NEW h, Quietly(h), NEW key, Distinct(key, h.start),
         \A c, e \in h.changes : Collide(key, c.after, e.after) => c = e,
         \A c \in h.changes : \A i \in Present(h.start) :
           Collide(key, c.after, h.start[i]) => i \in Updated(h.changes)
  PROVE  FinalDistinct(h, key)
BY DEF FinalDistinct, Distinct

\* An index to be built, after everything was read.
LEMMA ScannedHolds ==
  ASSUME NEW h, Quietly(h), NEW key, WouldBeDistinct(key, h.start, h.changes)
  PROVE  FinalDistinct(h, key)
<1> DEFINE docs == Planned(h.start, h.changes)
<1>1. ASSUME NEW c \in h.changes, c.before # Void
      PROVE  c.id \in Present(docs) /\ docs[c.id] = c.after
  <2>1. c.id \in Updated(h.changes) /\ c.id \in Ids /\ c.after # Void
    BY <1>1, UpdatedAre DEF Present
  <2>2. \A e \in h.changes : e.id = c.id /\ e.before # Void => e = c
    BY <1>1, OneChange DEF Quietly
  <2>3. (CHOOSE e \in h.changes : e.id = c.id /\ e.before # Void) = c
    BY <1>1, <2>2
  <2> QED BY <2>1, <2>3 DEF Planned, Present
<1>2. ASSUME NEW i \in Present(h.start) \ Updated(h.changes)
      PROVE  i \in Present(docs) /\ docs[i] = h.start[i]
  BY DEF Planned, Present
<1>3. \A x, y : Collide(key, x, y) => Collide(key, y, x)
  BY CollideBoth
<1>4. /\ \A i, k \in Present(docs) : Collide(key, docs[i], docs[k]) => i = k
      /\ \A c, e \in Inserted(h.changes) : Collide(key, c.after, e.after) => c = e
      /\ \A c \in Inserted(h.changes) : \A i \in Present(docs) : ~Collide(key, c.after, docs[i])
  BY DEF WouldBeDistinct, Distinct
<1> HIDE DEF docs
<1>5. ASSUME NEW c \in h.changes, NEW e \in h.changes, Collide(key, c.after, e.after) PROVE c = e
  <2>1. CASE c.before # Void /\ e.before # Void
    <3>1. c.id = e.id
      BY <1>1, <1>4, <1>5, <2>1
    <3> QED BY <2>1, <3>1, OneChange DEF Quietly
  <2>2. CASE c.before = Void /\ e.before = Void
    BY <1>4, <1>5, <2>2 DEF Inserted
  <2>3. CASE c.before = Void /\ e.before # Void
    BY <1>1, <1>4, <1>5, <2>3 DEF Inserted
  <2>4. CASE c.before # Void /\ e.before = Void
    BY <1>1, <1>3, <1>4, <1>5, <2>4 DEF Inserted
  <2> QED BY <2>1, <2>2, <2>3, <2>4
<1>6. ASSUME NEW c \in h.changes, NEW i \in Present(h.start) \ Updated(h.changes)
      PROVE  ~Collide(key, c.after, h.start[i])
  <2>1. CASE c.before = Void
    BY <1>2, <1>4, <2>1 DEF Inserted
  <2>2. CASE c.before # Void
    <3>1. c.id \in Updated(h.changes)
      BY <2>2, UpdatedAre
    <3> QED BY <1>1, <1>2, <1>4, <2>2, <3>1
  <2> QED BY <2>1, <2>2
<1> QED BY <1>2, <1>4, <1>5, <1>6 DEF FinalDistinct

\* What the three limits of the plan are enough for: all documents are found
\* if no two have the same identity,
LEMMA AllMatched ==
  ASSUME NEW j \in JobType, NEW read, ReadOk(j, read), NEW docs \in Collection,
         NEW some \in Limited(UNION {Matching(j, item, docs) : item \in read},
                              Cardinality(read) + 1),
         \A item \in read : \A i, k \in some :
           Fits(j, item, i, docs[i]) /\ Fits(j, item, k, docs[k]) => i = k
  PROVE  some = UNION {Matching(j, item, docs) : item \in read}
<1> DEFINE all == UNION {Matching(j, item, docs) : item \in read}
           f == [i \in some |-> CHOOSE item \in read : i \in Matching(j, item, docs)]
<1>1. some \subseteq all /\ all \subseteq Ids /\ IsFiniteSet(all)
  <2>1. some \subseteq all /\ all \subseteq Ids
    BY DEF Limited, Matching, Present
  <2> QED BY <2>1, PlanConstants, FS_Subset
<1>2. \A i \in some : f[i] \in read /\ i \in Matching(j, f[i], docs)
  BY <1>1
<1>3. f \in [some -> read] /\ \A i, k \in some : f[i] = f[k] => i = k
  <2> HIDE DEF f
  <2>1. \A i, k \in some : f[i] = f[k] => i = k
    BY <1>2 DEF Matching
  <2> QED BY <1>2, <2>1 DEF f
<1>4. Cardinality(some) <= Cardinality(read) /\ IsFiniteSet(read) /\ IsFiniteSet(some)
  <2> HIDE DEF f
  <2> QED BY <1>3, NoMoreThan DEF ReadOk
<1>5. Cardinality(some) < Cardinality(read) + 1 /\ Cardinality(read) + 1 \in Nat
  BY <1>4, FS_CardinalityType
<1> HIDE DEF all, f
<1>6. some = all
  BY <1>1, <1>5, LimitShows DEF all
<1> QED BY <1>6 DEF all

\* if none has a business identity under another _id,
LEMMA AllConflicts ==
  ASSUME NEW by, NEW read, IsFiniteSet(read), NEW docs \in Collection,
         NEW some \in Limited({i \in Present(docs) :
                                 \E item \in read : SameOn(by, item.payload, docs[i])},
                              2 * Cardinality(read) + 1),
         \A i \in some : \A item \in read : SameOn(by, item.payload, docs[i]) => i = item.id
  PROVE  \A item \in read : \A i \in Present(docs) :
           SameOn(by, item.payload, docs[i]) => i = item.id
<1> DEFINE all == {i \in Present(docs) : \E item \in read : SameOn(by, item.payload, docs[i])}
           f == [i \in some |-> CHOOSE item \in read : SameOn(by, item.payload, docs[i])]
<1>1. some \subseteq all /\ IsFiniteSet(all)
  <2>1. some \subseteq all /\ all \subseteq Ids
    BY DEF Limited, Present
  <2> QED BY <2>1, PlanConstants, FS_Subset
<1>2. \A i \in some : f[i] \in read /\ SameOn(by, f[i].payload, docs[i])
  BY <1>1
<1>3. f \in [some -> read] /\ \A i, k \in some : f[i] = f[k] => i = k
  <2> HIDE DEF f
  <2>1. \A i, k \in some : f[i] = f[k] => i = k
    BY <1>2
  <2> QED BY <1>2, <2>1 DEF f
<1>4. Cardinality(some) <= Cardinality(read) /\ IsFiniteSet(some)
  <2> HIDE DEF f
  <2> QED BY <1>3, NoMoreThan
<1>5. Cardinality(some) < 2 * Cardinality(read) + 1 /\ 2 * Cardinality(read) + 1 \in Nat
  <2>1. Cardinality(read) \in Nat /\ Cardinality(some) \in Nat
    BY <1>4, FS_CardinalityType
  <2> QED BY <1>4, <2>1
<1> HIDE DEF all, f
<1>6. some = all
  BY <1>1, <1>5, LimitShows DEF all
<1> QED BY <1>6 DEF all

\* and if the server tells documents apart by the key.
LEMMA AllColliding ==
  ASSUME NEW key, NEW keyed, IsFiniteSet(keyed), NEW docs \in Collection, Distinct(key, docs),
         NEW some \in Limited({i \in Present(docs) :
                                 \E c \in keyed : Collide(key, c.after, docs[i])},
                              Cardinality(keyed) + 1)
  PROVE  some = {i \in Present(docs) : \E c \in keyed : Collide(key, c.after, docs[i])}
<1> DEFINE all == {i \in Present(docs) : \E c \in keyed : Collide(key, c.after, docs[i])}
           f == [i \in some |-> CHOOSE c \in keyed : Collide(key, c.after, docs[i])]
<1>1. some \subseteq all /\ all \subseteq Present(docs) /\ IsFiniteSet(all)
  <2>1. some \subseteq all /\ all \subseteq Ids /\ all \subseteq Present(docs)
    BY DEF Limited, Present
  <2> QED BY <2>1, PlanConstants, FS_Subset
<1>2. \A i \in some : f[i] \in keyed /\ Collide(key, f[i].after, docs[i])
  BY <1>1
<1>3. f \in [some -> keyed] /\ \A i, k \in some : f[i] = f[k] => i = k
  <2> HIDE DEF f
  <2>1. ASSUME NEW i \in some, NEW k \in some, f[i] = f[k] PROVE i = k
    <3>1. Collide(key, docs[i], docs[k])
      BY <1>2, <2>1, CollideBoth
    <3> QED BY <1>1, <3>1 DEF Distinct
  <2> QED BY <1>2, <2>1 DEF f
<1>4. Cardinality(some) <= Cardinality(keyed) /\ IsFiniteSet(some)
  <2> HIDE DEF f
  <2> QED BY <1>3, NoMoreThan
<1>5. Cardinality(some) < Cardinality(keyed) + 1 /\ Cardinality(keyed) + 1 \in Nat
  BY <1>4, FS_CardinalityType
<1> HIDE DEF all, f
<1>6. some = all
  BY <1>1, <1>5, LimitShows DEF all
<1> QED BY <1>6 DEF all

\* A change and its document, before it is written.
LEMMA WaitingIs ==
  ASSUME NEW h, Quietly(h), NEW docs, Progress(h, docs), h.todo \subseteq h.changes,
         NEW c \in Unwritten(h)
  PROVE  /\ c.from \in h.read /\ c = ChangeOf(h, c.from) /\ c.before # c.after
         /\ ItemWaits(h, c.from, docs)
         /\ c.before # Void => c.id \in Ids /\ c.before = docs[c.id]
                               /\ Matching(h.job, c.from, docs) = {c.id}
         /\ c.before = Void => Matching(h.job, c.from, docs) = {}
<1>1. c \in h.changes /\ c \in h.todo
  BY DEF Unwritten
<1>2. c.from \in h.read /\ c = ChangeOf(h, c.from) /\ c.before # c.after
  BY <1>1, ChangeFrom DEF Quietly
<1>3. ItemWaits(h, c.from, docs)
  BY <1>2 DEF Progress, Waiting
<1> QED BY <1>2, <1>3, ChangeAt DEF ItemWaits

\* An item is done with the image of its change, or with the one it had.
LEMMA DoneIs ==
  ASSUME NEW h, Quietly(h), NEW docs, NEW item \in h.read, ItemDone(h, item, docs)
  PROVE  \E i \in Ids :
           LET c == ChangeOf(h, item)
           IN /\ Matching(h.job, item, docs) = {i} /\ docs[i] = c.after
              /\ docs[i] = After(item, h.start[i])
              /\ c.id \in {i, Void} /\ (c.before # Void => c.id = i /\ c.before = h.start[i])
<1> DEFINE c == ChangeOf(h, item)
<1>1. PICK i \in Ids : /\ Matching(h.job, item, docs) = {i}
                       /\ Matching(h.job, item, h.start) = {i} \cap Present(h.start)
                       /\ docs[i] = After(item, h.start[i])
  BY DEF ItemDone
<1>2. CASE c.before = Void
  <2>1. h.start[i] = Void
    BY <1>1, <1>2, ChangeAt DEF Present
  <2>2. c.id \in {i, Void}
    <3>1. c.id = IF h.job.mode = "source-id" THEN item.id ELSE Void
      BY <1>2, ChangeShape DEF Quietly
    <3>2. i \in Matching(h.job, item, docs)
      BY <1>1
    <3> QED BY <3>1, <3>2 DEF Matching, Fits
  <2> QED BY <1>1, <1>2, <2>1, <2>2, ChangeShape DEF Quietly
<1>3. CASE c.before # Void
  <2>1. c.id = i /\ c.before = h.start[i]
    BY <1>1, <1>3, ChangeAt
  <2> QED BY <1>1, <2>1, ChangeShape DEF Quietly
<1> QED BY <1>2, <1>3

\* A change moves the plan on.
LEMMA WriteProgress ==
  ASSUME NEW h, Quietly(h), NEW docs \in Collection, h.at = "write", h.todo \subseteq h.changes,
         Progress(h, docs), NEW c \in h.todo, NEW i \in Ids, docs[i] = c.before,
         c.id \in {i, Void},
         NEW g, g.at = "confirm", g.on = c, g.todo = h.todo, g.job = h.job, g.read = h.read,
         g.start = h.start
  PROVE  Progress(g, [docs EXCEPT ![i] = c.after])
<1> DEFINE to == [docs EXCEPT ![i] = c.after]
           item == c.from
           j == h.job
<1>1. c \in Unwritten(h) /\ c \in h.changes
  BY DEF Unwritten
<1>2. /\ item \in h.read /\ c = ChangeOf(h, item)
      /\ Matching(j, item, docs) = Matching(j, item, h.start)
      /\ c.before # Void => c.id \in Ids /\ Matching(j, item, docs) = {c.id}
      /\ c.before = Void => Matching(j, item, docs) = {}
  BY <1>1, WaitingIs DEF ItemWaits
<1>3. /\ c.after = After(item, c.before) /\ c.after \in Image /\ c.after # Void
      /\ c.before = Void => c.id = IF j.mode = "source-id" THEN item.id ELSE Void
      /\ c.before # Void => Fits(j, item, c.id, c.before)
  BY <1>2, ChangeShape DEF Quietly
<1>4. j \in JobType /\ item \in ItemType /\ item.unset \cap j.identity = {} /\ c.before \in MaybeImage
  BY <1>2 DEF Quietly, Matched, ReadOk, Collection
<1>5. c.before # Void => c.id = i
  BY <1>2, PlanConstants
<1>6. Fits(j, item, i, c.after)
  <2>1. IF c.before = Void THEN j.mode = "source-id" => i = item.id
        ELSE Fits(j, item, i, c.before)
    <3>1. item.id # Void
      BY <1>4, PlanConstants DEF ItemType
    <3> QED BY <1>3, <1>5, <3>1
  <2> HIDE DEF j, item
  <2> QED BY <1>3, <1>4, <2>1, AfterFits
<1>7. /\ to[i] = c.after /\ i \in Present(to)
      /\ \A k \in Ids \ {i} : to[k] = docs[k] /\ (k \in Present(to) <=> k \in Present(docs))
  BY <1>3 DEF Present, Collection
<1>8. \A x \in h.read : \A k \in Ids \ {i} : k \in Matching(j, x, to) <=> k \in Matching(j, x, docs)
  BY <1>7 DEF Matching, Present
<1>9. \A x \in h.read : i \in Matching(j, x, to) <=> x = item
  <2>1. ASSUME NEW x \in h.read, i \in Matching(j, x, to) PROVE x = item
    BY <1>2, <1>4, <1>6, <1>7, <2>1, OneFits DEF Matching, Quietly, Matched
  <2> QED BY <1>6, <1>7, <2>1 DEF Matching
<1>10. \A x \in h.read : i \in Matching(j, x, docs) => x = item /\ c.before # Void
  <2>1. ASSUME NEW x \in h.read, i \in Matching(j, x, docs) PROVE x = item /\ c.before # Void
    <3>1. c.before # Void /\ Fits(j, x, i, c.before)
      BY <2>1 DEF Matching, Present
    <3> QED BY <1>2, <1>3, <1>4, <1>5, <3>1, OneFits DEF Quietly, Matched
  <2> QED BY <2>1
<1>11. \A x \in h.read : Matching(j, x, to) \subseteq Ids /\ Matching(j, x, docs) \subseteq Ids
  BY DEF Matching, Present
<1>12. \A x \in h.read : x # item => Matching(j, x, to) = Matching(j, x, docs)
                                      /\ i \notin Matching(j, x, to)
  <2> HIDE DEF j, item, to
  <2> QED BY <1>8, <1>9, <1>10, <1>11
<1>13. Matching(j, item, to) = {i}
  <2>1. \A k \in Ids \ {i} : k \notin Matching(j, item, docs)
    BY <1>2, <1>5
  <2> QED BY <1>2, <1>8, <1>9, <1>11, <2>1
<1> HIDE DEF to, j, item
<1>14. Unwritten(g) = Unwritten(h) \ {c}
  BY DEF Unwritten
<1>15. ~Waiting(g, item)
  <2>1. ASSUME NEW e \in Unwritten(g), e.from = item PROVE FALSE
    <3>1. e \in h.changes /\ e # c
      BY <1>14, <2>1 DEF Unwritten
    <3> QED BY <1>1, <2>1, <3>1, OneChange DEF Quietly, item
  <2> QED BY <2>1 DEF Waiting
<1>16. \A x \in h.read : x # item => (Waiting(g, x) <=> Waiting(h, x))
  BY <1>14 DEF Waiting, item
<1>17. ItemDone(g, item, to)
  <2>1. h.start[i] = c.before
    <3>1. CASE c.before # Void
      BY <1>2, <1>5, <3>1, ChangeAt
    <3>2. CASE c.before = Void
      <4>1. \A x \in h.read : i \notin Matching(j, x, docs)
        BY <1>10, <3>2
      <4> QED BY <3>2, <4>1 DEF Progress, LeftAlone, j
    <3> QED BY <3>1, <3>2
  <2>2. Matching(j, item, h.start) = {i} \cap Present(h.start)
    BY <1>2, <1>5, <2>1 DEF Present
  <2> QED BY <1>3, <1>7, <1>13, <2>1, <2>2 DEF ItemDone, j, item
<1>18. ASSUME NEW x \in h.read, x # item
       PROVE  IF Waiting(g, x) THEN ItemWaits(g, x, to) ELSE ItemDone(g, x, to)
  <2>1. CASE Waiting(g, x)
    <3>1. ItemWaits(h, x, docs)
      BY <1>16, <1>18, <2>1 DEF Progress
    <3> QED BY <1>7, <1>11, <1>12, <1>18, <2>1, <3>1 DEF ItemWaits, j
  <2>2. CASE ~Waiting(g, x)
    <3>1. PICK k \in Ids : /\ Matching(j, x, docs) = {k}
                           /\ Matching(j, x, h.start) = {k} \cap Present(h.start)
                           /\ docs[k] = After(x, h.start[k])
      BY <1>16, <1>18, <2>2 DEF Progress, ItemDone, j
    <3>2. k # i /\ to[k] = docs[k]
      BY <1>7, <1>12, <1>18, <3>1
    <3> QED BY <1>12, <1>18, <2>2, <3>1, <3>2 DEF ItemDone, j
  <2> QED BY <2>1, <2>2
<1>19. LeftAlone(g, to)
  <2>1. ASSUME NEW k \in Ids, \A x \in h.read : k \notin Matching(j, x, to)
        PROVE  to[k] = h.start[k]
    <3>1. k # i
      BY <1>2, <1>13, <2>1 DEF item
    <3>2. \A x \in h.read : k \notin Matching(j, x, docs)
      BY <1>8, <2>1, <3>1
    <3> QED BY <1>7, <3>1, <3>2 DEF Progress, LeftAlone, j
  <2> QED BY <2>1 DEF LeftAlone, j
<1> QED BY <1>15, <1>17, <1>18, <1>19 DEF Progress, to

\* What a unique index has against a change is a document that another change waits for.
LEMMA OnlyExchanged ==
  ASSUME NEW h, Quietly(h), NEW docs \in Collection, Progress(h, docs), h.at = "write",
         h.todo \subseteq h.changes, NEW key, FinalDistinct(h, key), Distinct(key, docs),
         NEW c \in h.todo, NEW i \in Ids, docs[i] = c.before, c.id \in {i, Void},
         ~Distinct(key, [docs EXCEPT ![i] = c.after])
  PROVE  \E e \in h.todo \ {c} : e.before # Void /\ Collide(key, c.after, e.before)
<1> DEFINE to == [docs EXCEPT ![i] = c.after]
<1>1. c \in h.changes /\ c.after # Void /\ c \in Unwritten(h) /\ Unwritten(h) = h.todo
  BY UpdatedAre DEF Unwritten
<1>2. to[i] = c.after /\ \A k \in Ids \ {i} : to[k] = docs[k]
  BY DEF Collection
<1>3. PICK k \in Present(docs) \ {i} : Collide(key, c.after, docs[k])
  <2>1. PICK x \in Present(to), y \in Present(to) : Collide(key, to[x], to[y]) /\ x # y
    BY DEF Distinct
  <2> HIDE DEF to
  <2>2. CASE x = i
    BY <1>2, <2>1, <2>2 DEF Present
  <2>3. CASE y = i
    <3>1. Collide(key, to[y], to[x])
      BY <2>1, CollideBoth
    <3> QED BY <1>2, <2>1, <2>3, <3>1 DEF Present
  <2>4. CASE x # i /\ y # i
    BY <1>2, <2>1, <2>4 DEF Distinct, Present
  <2> QED BY <2>2, <2>3, <2>4
<1> HIDE DEF to
<1>4. k \in Ids /\ docs[k] # Void
  BY <1>3 DEF Present
<1>5. \A e \in h.changes : e.id = k /\ e.before # Void =>
        k \in Matching(h.job, e.from, h.start) /\ e.from \in h.read /\ e = ChangeOf(h, e.from)
  BY ChangeFrom, ChangeAt DEF Quietly
<1>6. CASE \A item \in h.read : k \notin Matching(h.job, item, docs)
  <2>1. docs[k] = h.start[k]
    BY <1>4, <1>6 DEF Progress, LeftAlone
  <2>2. ASSUME NEW e \in h.changes, e.id = k, e.before # Void PROVE FALSE
    BY <1>4, <1>5, <1>6, <2>1, <2>2 DEF Matching, Present
  <2>3. k \in Present(h.start) \ Updated(h.changes)
    BY <1>4, <2>1, <2>2 DEF Present, Updated
  <2> QED BY <1>1, <1>3, <2>1, <2>3 DEF FinalDistinct
<1>7. CASE \E item \in h.read : k \in Matching(h.job, item, docs)
  <2>1. PICK item \in h.read : k \in Matching(h.job, item, docs)
    BY <1>7
  <2>2. CASE Waiting(h, item)
    <3>1. PICK e \in h.todo : e.from = item /\ e \in Unwritten(h)
      BY <1>1, <2>2 DEF Waiting
    <3>2. e.before # Void /\ e.id = k /\ e.before = docs[k]
      BY <2>1, <3>1, WaitingIs
    <3>3. e # c
      BY <1>3, <1>4, <3>2, PlanConstants
    <3> QED BY <1>3, <3>2, <3>3
  <2>3. CASE ~Waiting(h, item)
    <3> DEFINE e == ChangeOf(h, item)
    <3>1. ItemDone(h, item, docs)
      BY <2>3 DEF Progress
    <3>2. /\ docs[k] = e.after /\ e.id \in {k, Void}
          /\ e.before # Void => e.id = k /\ e.before = h.start[k]
      BY <2>1, <3>1, DoneIs
    <3>3. e.from = item
      BY ChangeShape DEF Quietly
    <3>4. CASE e.before # e.after
      <4>1. e \in h.changes
        BY <3>4 DEF Quietly, Changes
      <4>2. c = e
        BY <1>1, <1>3, <3>2, <4>1 DEF FinalDistinct
      <4> QED BY <1>1, <2>3, <3>3, <4>2 DEF Waiting
    <3>5. CASE e.before = e.after
      <4>1. e.before = docs[k] /\ h.start[k] = docs[k] /\ e.id = k
        BY <1>4, <3>2, <3>5
      <4>2. k \in Matching(h.job, item, h.start)
        BY <1>4, <4>1, ChangeAt
      <4>3. ASSUME NEW x \in h.changes, x.id = k, x.before # Void PROVE FALSE
        <5>1. Fits(h.job, x.from, k, h.start[k]) /\ Fits(h.job, item, k, h.start[k])
          BY <1>5, <4>2, <4>3 DEF Matching
        <5>2. x = e
          BY <1>5, <4>3, <5>1, OneFits DEF Quietly, Matched
        <5> QED BY <3>5, <4>3, <5>2, ChangeFrom DEF Quietly
      <4>4. k \in Present(h.start) \ Updated(h.changes)
        BY <1>4, <4>1, <4>3 DEF Present, Updated
      <4> QED BY <1>1, <1>3, <4>1, <4>4 DEF FinalDistinct
    <3> QED BY <3>4, <3>5
  <2> QED BY <2>2, <2>3
<1> QED BY <1>6, <1>7

\* Plans that are the same.
LEMMA SamePlan ==
  ASSUME NEW h, NEW g, g.job = h.job, g.read = h.read, g.found = h.found
  PROVE  /\ Changes(g) = Changes(h) /\ (FoundOnce(h) => FoundOnce(g))
         /\ g.seen = h.seen => /\ Indexing(g) = Indexing(h)
                               /\ \A changes : Affected(g, changes) = Affected(h, changes)
         /\ g.start = h.start => /\ FoundAll(h) => FoundAll(g)
                                 /\ ConflictFree(h) => ConflictFree(g)
         /\ g.start = h.start /\ g.changes = h.changes =>
              \A key : FinalDistinct(h, key) => FinalDistinct(g, key)
<1>1. \A item : ChangeOf(g, item) = ChangeOf(h, item)
  BY DEF ChangeOf
<1>2. Changes(g) = Changes(h)
  BY <1>1 DEF Changes
<1>3. FoundOnce(h) => FoundOnce(g)
  BY DEF FoundOnce
<1>4. g.seen = h.seen => Indexing(g) = Indexing(h)
  BY DEF Indexing
<1>5. g.seen = h.seen => \A changes : Affected(g, changes) = Affected(h, changes)
  BY DEF Affected
<1>6. g.start = h.start => (FoundAll(h) => FoundAll(g)) /\ (ConflictFree(h) => ConflictFree(g))
  BY DEF FoundAll, ConflictFree
<1>7. g.start = h.start /\ g.changes = h.changes =>
        \A key : FinalDistinct(h, key) => FinalDistinct(g, key)
  BY DEF FinalDistinct
<1> QED BY <1>2, <1>3, <1>4, <1>5, <1>6, <1>7

\* A planner, in a state of the target and its indexes.
PlannerOK(h, docs, indexes, issued) ==
  /\ h \in PlannerType /\ PlanStatic(h) /\ PlanBacked(h)
  /\ h.at \in WritingAt => h.approval \in issued
  /\ h.quiet => PlanQuiet(h, docs, indexes)

\* What the invariant says of each planner.
LEMMA PlannersOK ==
  ASSUME PlanIInv, NEW p \in Planners
  PROVE  PlannerOK(planners[p], target, built, approvals)
BY DEF PlanIInv, PlanTypeOK, PlannerOK, WritingAt

\* A planner that another has disturbed.
LEMMA DisturbedOK ==
  ASSUME NEW h, NEW docs, NEW indexes, NEW issued, NEW after, NEW built2,
         PlannerOK(h, docs, indexes, issued)
  PROVE  PlannerOK(Disturbed(h), after, built2, issued)
<1> DEFINE g == Disturbed(h)
<1>1. h \in PlannerType
  BY DEF PlannerOK
<1>2. /\ g \in PlannerType /\ g.at = h.at /\ g.job = h.job /\ g.approval = h.approval
      /\ g.seen = h.seen /\ g.read = h.read /\ g.found = h.found /\ g.changes = h.changes
      /\ g.left = h.left /\ g.key = h.key /\ g.todo = h.todo /\ g.on = h.on /\ g.quiet = FALSE
  <2>1. NoDocuments \in Collection
    BY DEF NoDocuments, Collection, MaybeImage
  <2> QED BY <1>1, <2>1 DEF PlannerType, Disturbed
<1> HIDE DEF g
<1>3. Changes(g) = Changes(h) /\ (FoundOnce(h) => FoundOnce(g))
      /\ Indexing(g) = Indexing(h)
  BY <1>2, SamePlan
<1>4. PlanStatic(g)
  BY <1>2, <1>3 DEF PlannerOK, PlanStatic
<1>5. PlanBacked(g)
  BY <1>2 DEF PlannerOK, PlanBacked
<1> QED BY <1>2, <1>4, <1>5 DEF PlannerOK, g

\* A step of one planner that leaves the target alone.
LEMMA PutKeeps ==
  ASSUME PlanIInv, NEW p \in Planners, NEW r, Put(p, r), UNCHANGED <<origin, target, built, meddled>>,
         approvals \subseteq approvals', approvals' \subseteq ApprovalType,
         expired' \subseteq approvals', PlannerOK(r, target, built, approvals)
  PROVE  PlanIInv'
<1>1. planners' \in [Planners -> PlannerType]
  BY DEF PlanIInv, PlanTypeOK, Put, PlannerOK
<1>2. planners'[p] = r /\ \A q \in Planners \ {p} : planners'[q] = planners[q]
  BY DEF PlanIInv, PlanTypeOK, Put
<1>3. \A q \in Planners : PlannerOK(planners'[q], target, built, approvals)
  BY <1>2, PlannersOK
<1>4. PlanTypeOK'
  BY <1>1, <1>3 DEF PlanIInv, PlanTypeOK, PlannerOK, WritingAt, Enforced, Distinct, Present
<1> QED BY <1>3, <1>4 DEF PlanIInv, PlannerOK

\* A step of one planner that writes.
LEMMA PutWritingKeeps ==
  ASSUME PlanIInv, NEW p \in Planners, NEW r, PutWriting(p, r),
         UNCHANGED <<origin, approvals, expired, meddled>>, target' \in Collection,
         built' \in [Uniques -> IndexStates], Enforced(target', built'),
         PlannerOK(r, target', built', approvals)
  PROVE  PlanIInv'
<1>1. planners'[p] = r /\ \A q \in Planners \ {p} : planners'[q] = Disturbed(planners[q])
  BY DEF PutWriting
<1>2. \A q \in Planners : PlannerOK(planners'[q], target', built', approvals)
  BY <1>1, PlannersOK, DisturbedOK
<1>3. planners' \in [Planners -> PlannerType]
  BY <1>2 DEF PutWriting, PlannerOK
<1>4. PlanTypeOK'
  BY <1>2, <1>3 DEF PlanIInv, PlanTypeOK, PlannerOK, WritingAt
<1> QED BY <1>2, <1>4 DEF PlanIInv, PlannerOK

\* A write of another program.
LEMMA MeddleKeeps ==
  ASSUME PlanIInv, MeddlerStep
  PROVE  PlanIInv'
<1>1. UNCHANGED <<approvals, expired>> /\ meddled' \in 0..MaxMeddling
  <2>1. meddled < MaxMeddling /\ meddled' = meddled + 1 /\ UNCHANGED <<approvals, expired>>
    BY DEF MeddlerStep, MeddleOrigin, MeddleTarget, MeddleIndex, Meddle
  <2> QED BY <2>1, PlanConstants DEF PlanIInv, PlanTypeOK
<1>2. CASE \E i \in Ids : MeddleOrigin(i)
  <2>1. origin' \in Collection /\ UNCHANGED <<target, built, planners>>
    BY <1>2 DEF MeddleOrigin, PlanIInv, PlanTypeOK, Collection
  <2>2. PlanTypeOK'
    BY <1>1, <2>1 DEF PlanIInv, PlanTypeOK, Enforced, Distinct, Present
  <2> QED BY <2>1, <2>2 DEF PlanIInv
<1>3. ASSUME AllDisturbed, UNCHANGED origin, target' \in Collection,
             built' \in [Uniques -> IndexStates], Enforced(target', built')
      PROVE  PlanIInv'
  <2>1. \A q \in Planners : PlannerOK(planners'[q], target', built', approvals)
    BY <1>3, PlannersOK, DisturbedOK DEF AllDisturbed
  <2>2. planners' \in [Planners -> PlannerType]
    BY <1>3, <2>1 DEF AllDisturbed, PlannerOK
  <2>3. PlanTypeOK'
    BY <1>1, <1>3, <2>1, <2>2 DEF PlanIInv, PlanTypeOK, PlannerOK, WritingAt
  <2> QED BY <1>1, <2>1, <2>3 DEF PlanIInv, PlannerOK
<1>4. CASE \E i \in Ids : MeddleTarget(i)
  BY <1>3, <1>4 DEF MeddleTarget, PlanIInv, PlanTypeOK, Collection, Enforced
<1>5. CASE \E key \in Uniques : MeddleIndex(key)
  BY <1>3, <1>5 DEF MeddleIndex, PlanIInv, PlanTypeOK, Enforced
<1> QED BY <1>2, <1>4, <1>5 DEF MeddlerStep

\* A planner that does nothing.
LEMMA RestOK == \A docs, indexes, issued : PlannerOK(Rest, docs, indexes, issued)
<1> DEFINE r == Rest
<1>1. r \in PlannerType /\ r.at = "idle" /\ r.quiet = FALSE
  <2>1. NoDocuments \in Collection
    BY DEF NoDocuments, Collection, MaybeImage
  <2> QED BY <2>1 DEF Rest, PlannerType
<1> HIDE DEF r
<1>2. PlanStatic(r) /\ PlanBacked(r) /\ r.at \notin WritingAt
  BY <1>1 DEF PlanStatic, PlanBacked, SeenAt, ReadAt, MatchedAt, ReadyAt, WritingAt
<1>3. \A docs, indexes, issued : PlannerOK(r, docs, indexes, issued)
  BY <1>1, <1>2 DEF PlannerOK
<1> QED BY <1>3 DEF r

\* preview() and apply() begin: the target is what it is at the beginning.
LEMMA BeginTaskKeeps ==
  ASSUME PlanIInv, NEW p \in Planners, NEW j \in TaskJobs, NEW a \in approvals \cup {Void},
         BeginTask(p, j, a)
  PROVE  PlanIInv'
<1> DEFINE r == [Rest EXCEPT !.at = "indexes", !.job = j, !.approval = a, !.quiet = TRUE,
                             !.start = target]
<1>1. /\ approvals \subseteq ApprovalType /\ expired \subseteq approvals /\ target \in Collection
      /\ Put(p, r) /\ UNCHANGED <<origin, target, built, approvals, expired, meddled>>
      /\ JobAllowed(j)
  BY DEF BeginTask, PlanIInv, PlanTypeOK
<1>2. /\ r \in PlannerType /\ r.at = "indexes" /\ r.job = j /\ r.start = target
  <2>1. Rest \in PlannerType
    BY RestOK DEF PlannerOK
  <2>2. a \in ApprovalType \cup {Void}
    BY <1>1
  <2> QED BY <1>1, <2>1, <2>2 DEF PlannerType
<1> HIDE DEF r
<1>3. PlanStatic(r) /\ PlanBacked(r) /\ r.at \notin WritingAt
  BY <1>1, <1>2 DEF PlanStatic, PlanBacked, SeenAt, ReadAt, MatchedAt, ReadyAt, WritingAt
<1>4. PlanQuiet(r, target, built)
  BY <1>2 DEF PlanQuiet, SeenAt, ReadAt, MatchedAt, ReadyAt, WritingAt
<1>5. PlannerOK(r, target, built, approvals)
  BY <1>2, <1>3, <1>4 DEF PlannerOK
<1> QED BY <1>1, <1>5, PutKeeps

\* Of a job that is allowed.
LEMMA JobIs ==
  ASSUME NEW j \in TaskJobs, JobAllowed(j)
  PROVE  /\ j \in JobType /\ (j.conflictBy # {} => j.mode = "source-id")
         /\ j.unset \cap j.identity = {} /\ Renamed(j) \cap j.identity = {}
BY PlanConstants DEF JobAllowed, PatchAllowed, IdentityFields, JobType

\* The indexes are read: those of the target at the beginning, if nobody else writes.
LEMMA ReadIndexesKeeps ==
  ASSUME PlanIInv, NEW p \in Planners, ReadIndexes(p)
  PROVE  PlanIInv'
<1> DEFINE h == planners[p]
           r == [h EXCEPT !.at = "source", !.seen = built]
<1>1. /\ PlannerOK(h, target, built, approvals) /\ built \in [Uniques -> IndexStates]
      /\ approvals \subseteq ApprovalType /\ expired \subseteq approvals
      /\ Enforced(target, built)
  BY PlannersOK DEF PlanIInv, PlanTypeOK
<1>2. /\ h.at = "indexes" /\ Put(p, r)
      /\ UNCHANGED <<origin, target, built, approvals, expired, meddled>>
  BY DEF ReadIndexes
<1>3. /\ r \in PlannerType /\ r.at = "source" /\ r.job = h.job /\ r.start = h.start
      /\ r.seen = built /\ r.quiet = h.quiet
  BY <1>1 DEF PlannerOK, PlannerType
<1> HIDE DEF r, h
<1>4. PlanStatic(r) /\ PlanBacked(r) /\ r.at \notin WritingAt
  BY <1>1, <1>2, <1>3
     DEF PlannerOK, PlanStatic, PlanBacked, SeenAt, ReadAt, MatchedAt, ReadyAt, WritingAt
<1>5. r.quiet => PlanQuiet(r, target, built)
  BY <1>1, <1>2, <1>3
     DEF PlannerOK, PlanQuiet, SeenAt, ReadAt, MatchedAt, ReadyAt, WritingAt
<1>6. PlannerOK(r, target, built, approvals)
  BY <1>3, <1>4, <1>5 DEF PlannerOK
<1> QED BY <1>1, <1>2, <1>6, PutKeeps

\* What is read of the source.
LEMMA ItemsRead ==
  ASSUME NEW j \in TaskJobs, JobAllowed(j), NEW docs \in Collection,
         \A i \in Present(docs) : SameOn(j.identity, Patched(j, Projected(j, docs[i])), docs[i]),
         \A i, k \in Present(docs) :
           j.mode = "fields" /\ SameOn(j.identity, docs[i], docs[k]) => i = k
  PROVE  LET read == {Item(j, i, Projected(j, docs[i])) : i \in Present(docs)}
         IN read \subseteq ItemType /\ ReadOk(j, read)
<1> DEFINE view(i) == Projected(j, docs[i])
           read == {Item(j, i, view(i)) : i \in Present(docs)}
<1>1. j \in JobType /\ j.unset \cap j.identity = {} /\ Renamed(j) \cap j.identity = {}
  BY JobIs
<1>2. \A i \in Present(docs) : i \in Ids /\ view(i) \in Image
  <2>1. \A i \in Present(docs) : i \in Ids /\ docs[i] \in Image
    BY DEF Present, Collection, MaybeImage
  <2> QED BY <2>1 DEF Projected, Image
<1> HIDE DEF view
<1>3. ASSUME NEW image \in Image
      PROVE  /\ Patched(j, image) \in Image /\ Unsets(j, image) \subseteq Fields
             /\ Unsets(j, image) \cap j.identity = {}
  <2>1. \A f \in Fields : image[f] \in Values \cup {Void} /\ j.set[f] \in Values \cup {Void}
    BY <1>1 DEF JobType, Image
  <2>2. \A g \in Renamed(j) : g \in Fields
    BY DEF Renamed
  <2>3. \A f \in Fields : Patched(j, image)[f] \in Values \cup {Void}
    BY <2>1, <2>2 DEF Patched
  <2>4. Patched(j, image) \in Image
    BY <2>3 DEF Patched, Image
  <2>5. Unsets(j, image) \subseteq Fields /\ Unsets(j, image) \cap j.identity = {}
    BY <1>1, <2>2 DEF Unsets, JobType
  <2> QED BY <2>4, <2>5
<1>4. \A i \in Present(docs) : LET item == Item(j, i, view(i))
                               IN /\ item \in ItemType /\ item.id = i
                                  /\ item.payload = Patched(j, view(i))
                                  /\ item.unset \cap j.identity = {}
  BY <1>2, <1>3 DEF Item, ItemType
<1>5. IsFiniteSet(read)
  <2> DEFINE f == [item \in read |-> item.id]
  <2>1. f \in [read -> Ids] /\ \A x, y \in read : f[x] = f[y] => x = y
    BY <1>2, <1>4
  <2> HIDE DEF f, read
  <2> QED BY <2>1, NoMoreThan, PlanConstants
<1>6. ASSUME NEW item \in read, NEW other \in read, item.id = other.id PROVE item = other
  BY <1>4, <1>6
<1>7. ASSUME NEW item \in read, NEW other \in read, j.mode = "fields",
             SameOn(j.identity, item.payload, other.payload)
      PROVE  item = other
  <2>1. PICK i \in Present(docs), k \in Present(docs) :
          item = Item(j, i, view(i)) /\ other = Item(j, k, view(k))
    OBVIOUS
  <2>2. SameOn(j.identity, docs[i], docs[k])
    BY <1>4, <1>7, <2>1 DEF SameOn, view
  <2> QED BY <1>7, <2>1, <2>2
<1>8. read \subseteq ItemType /\ \A item \in read : item.unset \cap j.identity = {}
  BY <1>4
<1>9. ReadOk(j, read)
  BY <1>5, <1>6, <1>7, <1>8 DEF ReadOk
<1> QED BY <1>8, <1>9 DEF view

\* The source is read: items that ids and identities tell apart.
LEMMA ReadOriginKeeps ==
  ASSUME PlanIInv, NEW p \in Planners, ReadOrigin(p)
  PROVE  PlanIInv'
<1> DEFINE h == planners[p]
           j == h.job
           read == {Item(j, i, Projected(j, origin[i])) : i \in Present(origin)}
           r == [h EXCEPT !.at = "match", !.read = read]
<1>1. /\ PlannerOK(h, target, built, approvals) /\ origin \in Collection
      /\ approvals \subseteq ApprovalType /\ expired \subseteq approvals
  BY PlannersOK DEF PlanIInv, PlanTypeOK
<1>2. /\ h.at = "source" /\ Put(p, r)
      /\ UNCHANGED <<origin, target, built, approvals, expired, meddled>>
      /\ \A i \in Present(origin) : SameOn(j.identity, Patched(j, Projected(j, origin[i])), origin[i])
      /\ \A i, k \in Present(origin) :
           j.mode = "fields" /\ SameOn(j.identity, origin[i], origin[k]) => i = k
  BY DEF ReadOrigin
<1>3. j \in TaskJobs /\ JobAllowed(j)
  BY <1>1, <1>2 DEF PlannerOK, PlanStatic
<1>4. read \subseteq ItemType /\ ReadOk(j, read)
  <2> HIDE DEF j, r
  <2> QED BY <1>1, <1>2, <1>3, ItemsRead
<1> HIDE DEF read
<1>5. /\ r \in PlannerType /\ r.at = "match" /\ r.job = h.job /\ r.start = h.start
      /\ r.seen = h.seen /\ r.quiet = h.quiet /\ r.read = read
  BY <1>1, <1>4 DEF PlannerOK, PlannerType
<1> HIDE DEF r, h
<1>6. PlanStatic(r) /\ PlanBacked(r) /\ r.at \notin WritingAt
  BY <1>1, <1>2, <1>4, <1>5
     DEF PlannerOK, PlanStatic, PlanBacked, SeenAt, ReadAt, MatchedAt, ReadyAt, WritingAt
<1>7. r.quiet => PlanQuiet(r, target, built)
  BY <1>1, <1>2, <1>5
     DEF PlannerOK, PlanQuiet, SeenAt, ReadAt, MatchedAt, ReadyAt, WritingAt
<1>8. PlannerOK(r, target, built, approvals)
  BY <1>5, <1>6, <1>7 DEF PlannerOK
<1> QED BY <1>1, <1>2, <1>8, PutKeeps

\* The target is matched: the limit leaves out no document.
LEMMA MatchTargetKeeps ==
  ASSUME PlanIInv, NEW p \in Planners, MatchTarget(p)
  PROVE  PlanIInv'
<1> DEFINE h == planners[p]
           all == UNION {Matching(h.job, item, target) : item \in h.read}
<1>1. /\ PlannerOK(h, target, built, approvals) /\ target \in Collection
      /\ approvals \subseteq ApprovalType /\ expired \subseteq approvals
  BY PlannersOK DEF PlanIInv, PlanTypeOK
<1>2. PICK some \in Limited(all, Cardinality(h.read) + 1) :
        /\ \A item \in h.read : \A i, k \in some :
             Fits(h.job, item, i, target[i]) /\ Fits(h.job, item, k, target[k]) => i = k
        /\ Put(p, [h EXCEPT !.at = "conflicts",
                            !.found = [i \in Ids |-> IF i \in some THEN target[i] ELSE Void]])
  BY DEF MatchTarget
<1>3. h.at = "match" /\ UNCHANGED <<origin, target, built, approvals, expired, meddled>>
  BY DEF MatchTarget
<1> DEFINE found == [i \in Ids |-> IF i \in some THEN target[i] ELSE Void]
           r == [h EXCEPT !.at = "conflicts", !.found = found]
<1>4. found \in Collection
  BY <1>1 DEF Collection, MaybeImage
<1>5. Put(p, r)
  BY <1>2
<1>6. h.job \in TaskJobs /\ JobAllowed(h.job) /\ ReadOk(h.job, h.read) /\ h.job \in JobType
  BY <1>1, <1>3, JobIs DEF PlannerOK, PlanStatic, SeenAt, ReadAt
<1>7. \A i \in Ids : found[i] = IF i \in some THEN target[i] ELSE Void
  OBVIOUS
<1> HIDE DEF found
<1>8. /\ r \in PlannerType /\ r.at = "conflicts" /\ r.job = h.job /\ r.start = h.start
      /\ r.seen = h.seen /\ r.quiet = h.quiet /\ r.read = h.read /\ r.found = found
  BY <1>1, <1>4 DEF PlannerOK, PlannerType
<1> HIDE DEF r, h, all
<1>9. FoundOnce(r)
  <2>1. ASSUME NEW item \in r.read, NEW i \in Matching(r.job, item, r.found),
               NEW k \in Matching(r.job, item, r.found)
        PROVE  i = k
    BY <1>2, <1>7, <1>8 DEF Matching, Present
  <2> QED BY <2>1 DEF FoundOnce
<1>10. PlanStatic(r) /\ PlanBacked(r) /\ r.at \notin WritingAt
  BY <1>1, <1>3, <1>8, <1>9
     DEF PlannerOK, PlanStatic, PlanBacked, SeenAt, ReadAt, MatchedAt, ReadyAt, WritingAt
<1>11. some = all
  BY <1>1, <1>2, <1>6, AllMatched DEF all
<1>12. ASSUME r.quiet PROVE FoundAll(r)
  <2>1. r.start = target
    BY <1>1, <1>3, <1>8, <1>12 DEF PlannerOK, PlanQuiet, WritingAt
  <2>2. \A i \in Ids : i \in some <=> \E item \in r.read : i \in Matching(r.job, item, r.start)
    BY <1>8, <1>11, <2>1 DEF all
  <2> QED BY <1>7, <1>8, <2>1, <2>2 DEF FoundAll
<1>13. r.quiet => PlanQuiet(r, target, built)
  BY <1>1, <1>3, <1>8, <1>12
     DEF PlannerOK, PlanQuiet, SeenAt, ReadAt, MatchedAt, ReadyAt, WritingAt
<1>14. PlannerOK(r, target, built, approvals)
  BY <1>8, <1>10, <1>13 DEF PlannerOK
<1> QED BY <1>1, <1>3, <1>5, <1>14, PutKeeps

\* A planner that has matched the target.
LEMMA MatchedIs ==
  ASSUME NEW h \in PlannerType, PlanStatic(h), h.at \in MatchedAt
  PROVE  /\ Matched(h) /\ h.job \in TaskJobs /\ JobAllowed(h.job)
         /\ h.quiet /\ FoundAll(h) /\ h.at \in ReadyAt => Quietly(h)
<1>1. h.job \in TaskJobs /\ JobAllowed(h.job) /\ ReadOk(h.job, h.read) /\ FoundOnce(h)
      /\ (h.at \in ReadyAt => h.changes = Changes(h))
  BY DEF PlanStatic, SeenAt, ReadAt, MatchedAt, ReadyAt
<1>2. h.job \in JobType /\ h.read \subseteq ItemType /\ h.found \in Collection
      /\ h.start \in Collection
  BY <1>1, JobIs DEF PlannerType
<1> QED BY <1>1, <1>2 DEF Matched, Quietly

\* The business identities are looked for: the limit leaves out none.
LEMMA MatchConflictsKeeps ==
  ASSUME PlanIInv, NEW p \in Planners, MatchConflicts(p)
  PROVE  PlanIInv'
<1> DEFINE h == planners[p]
           by == h.job.conflictBy
           changes == Changes(h)
           left == Affected(h, changes)
           r == [h EXCEPT !.at = "unique", !.changes = changes, !.left = left]
<1>1. /\ PlannerOK(h, target, built, approvals) /\ target \in Collection
      /\ approvals \subseteq ApprovalType /\ expired \subseteq approvals
  BY PlannersOK DEF PlanIInv, PlanTypeOK
<1>2. /\ h.at = "conflicts" /\ Put(p, r)
      /\ UNCHANGED <<origin, target, built, approvals, expired, meddled>>
      /\ by # {} =>
           \E some \in Limited({i \in Present(target) :
                                  \E item \in h.read : SameOn(by, item.payload, target[i])},
                               2 * Cardinality(h.read) + 1) :
             \A i \in some : \A item \in h.read :
               SameOn(by, item.payload, target[i]) => i = item.id
  BY DEF MatchConflicts
<1>3. Matched(h)
  BY <1>1, <1>2, MatchedIs DEF PlannerOK, SeenAt, ReadAt, MatchedAt
<1>4. changes \subseteq ChangeType /\ left \subseteq Uniques
  BY <1>3, ChangesFinite DEF Affected
<1>5. by # {} => \A item \in h.read : \A i \in Present(target) :
                   SameOn(by, item.payload, target[i]) => i = item.id
  <2>1. IsFiniteSet(h.read)
    BY <1>3 DEF Matched, ReadOk
  <2> HIDE DEF by, h
  <2>2. ASSUME by # {}
        PROVE  \A item \in h.read : \A i \in Present(target) :
                 SameOn(by, item.payload, target[i]) => i = item.id
    BY <1>1, <1>2, <2>1, <2>2, AllConflicts
  <2> QED BY <2>2
<1> HIDE DEF changes, left
<1>6. /\ r \in PlannerType /\ r.at = "unique" /\ r.job = h.job /\ r.start = h.start
      /\ r.seen = h.seen /\ r.quiet = h.quiet /\ r.read = h.read /\ r.found = h.found
      /\ r.changes = changes /\ r.left = left
  BY <1>1, <1>4 DEF PlannerOK, PlannerType
<1> HIDE DEF r, h
<1>7. /\ Changes(r) = changes /\ (FoundOnce(h) => FoundOnce(r))
      /\ Affected(r, r.changes) = left /\ (FoundAll(h) => FoundAll(r))
  BY <1>6, SamePlan DEF changes, left
<1>8. PlanStatic(r) /\ PlanBacked(r) /\ r.at \notin WritingAt
  BY <1>1, <1>2, <1>6, <1>7
     DEF PlannerOK, PlanStatic, PlanBacked, SeenAt, ReadAt, MatchedAt, ReadyAt, WritingAt
<1>9. ASSUME r.quiet PROVE ConflictFree(r)
  <2>1. r.start = target
    BY <1>1, <1>2, <1>6, <1>9 DEF PlannerOK, PlanQuiet, WritingAt
  <2> QED BY <1>5, <1>6, <2>1 DEF ConflictFree
<1>10. ASSUME r.quiet PROVE PlanQuiet(r, target, built)
  <2>1. PlanQuiet(h, target, built)
    BY <1>1, <1>6, <1>10 DEF PlannerOK
  <2>2. Affected(r, r.changes) \ r.left = {}
    BY <1>6, <1>7
  <2> QED BY <1>2, <1>6, <1>7, <1>9, <1>10, <2>1, <2>2
             DEF PlanQuiet, SeenAt, ReadAt, MatchedAt, ReadyAt, WritingAt
<1>11. PlannerOK(r, target, built, approvals)
  BY <1>6, <1>8, <1>10 DEF PlannerOK
<1> QED BY <1>1, <1>2, <1>11, PutKeeps

\* One index less to look at.
LEMMA CheckedOK ==
  ASSUME NEW h, NEW docs, NEW indexes, NEW issued, PlannerOK(h, docs, indexes, issued),
         h.at \in {"unique", "scanned"}, NEW key, h.quiet => FinalDistinct(h, key),
         NEW r \in PlannerType, r.at = "unique", r.left = h.left \ {key}, r.job = h.job,
         r.start = h.start, r.seen = h.seen, r.quiet = h.quiet, r.read = h.read,
         r.found = h.found, r.changes = h.changes
  PROVE  PlannerOK(r, docs, indexes, issued)
<1>1. /\ Changes(r) = Changes(h) /\ (FoundOnce(h) => FoundOnce(r))
      /\ Affected(r, r.changes) = Affected(h, h.changes) /\ (FoundAll(h) => FoundAll(r))
      /\ (ConflictFree(h) => ConflictFree(r))
      /\ \A k : FinalDistinct(h, k) => FinalDistinct(r, k)
  BY SamePlan
<1>2. PlanStatic(r) /\ PlanBacked(r) /\ r.at \notin WritingAt
  BY <1>1 DEF PlannerOK, PlanStatic, PlanBacked, SeenAt, ReadAt, MatchedAt, ReadyAt, WritingAt
<1>3. ASSUME r.quiet PROVE PlanQuiet(r, docs, indexes)
  <2>1. PlanQuiet(h, docs, indexes)
    BY <1>3 DEF PlannerOK
  <2>2. \A k \in Affected(r, r.changes) \ r.left : FinalDistinct(r, k)
    <3>1. \A k \in Affected(h, h.changes) \ h.left : FinalDistinct(h, k)
      BY <2>1 DEF PlanQuiet
    <3> QED BY <1>1, <1>3, <3>1
  <2> QED BY <1>1, <2>1, <2>2 DEF PlanQuiet, SeenAt, ReadAt, MatchedAt, ReadyAt, WritingAt
<1> QED BY <1>2, <1>3 DEF PlannerOK

\* An index that is there: it tells apart what the plan leaves.
LEMMA CheckExistingKeeps ==
  ASSUME PlanIInv, NEW p \in Planners, NEW key \in Uniques, CheckExisting(p, key)
  PROVE  PlanIInv'
<1> DEFINE h == planners[p]
           keyed == {c \in h.changes : Indexed(key, c.after)}
           all == {i \in Present(target) : \E c \in keyed : Collide(key, c.after, target[i])}
           r == [h EXCEPT !.left = @ \ {key}]
<1>1. /\ PlannerOK(h, target, built, approvals) /\ target \in Collection
      /\ approvals \subseteq ApprovalType /\ expired \subseteq approvals
      /\ Enforced(target, built)
  BY PlannersOK DEF PlanIInv, PlanTypeOK
<1>2. /\ h.at = "unique" /\ key \in h.left /\ h.seen[key] = "unique" /\ Put(p, r)
      /\ UNCHANGED <<origin, target, built, approvals, expired, meddled>>
      /\ \A c, e \in keyed : Collide(key, c.after, e.after) => c = e
      /\ \E some \in Limited(all, Cardinality(keyed) + 1) : some \subseteq Updated(h.changes)
  BY DEF CheckExisting
<1>3. /\ r \in PlannerType /\ r.at = "unique" /\ r.job = h.job /\ r.start = h.start
      /\ r.seen = h.seen /\ r.quiet = h.quiet /\ r.read = h.read /\ r.found = h.found
      /\ r.changes = h.changes /\ r.left = h.left \ {key}
  BY <1>1, <1>2 DEF PlannerOK, PlannerType
<1> HIDE DEF r, h
<1>4. ASSUME h.quiet PROVE FinalDistinct(h, key)
  <2>1. PlanQuiet(h, target, built) /\ h \in PlannerType /\ PlanStatic(h)
    BY <1>1, <1>4 DEF PlannerOK
  <2>2. /\ Quietly(h) /\ h.start = target /\ built = h.seen /\ Matched(h)
    BY <1>2, <1>4, <2>1, MatchedIs DEF PlanQuiet, SeenAt, ReadAt, MatchedAt, ReadyAt, WritingAt
  <2>3. IsFiniteSet(keyed)
    <3>1. IsFiniteSet(h.changes)
      BY <2>2, ChangesFinite DEF Quietly
    <3> QED BY <3>1, FS_Subset
  <2>4. Distinct(key, target)
    BY <1>1, <1>2, <2>2 DEF Enforced
  <2>5. all \subseteq Updated(h.changes)
    <3> HIDE DEF keyed
    <3> QED BY <1>1, <1>2, <2>3, <2>4, AllColliding
  <2>6. \A c, e \in h.changes : Collide(key, c.after, e.after) => c = e
    <3>1. \A c, e \in h.changes : Collide(key, c.after, e.after) => c \in keyed /\ e \in keyed
      BY DEF Collide, Indexed, SameOn
    <3> QED BY <1>2, <3>1
  <2>7. \A c \in h.changes : \A i \in Present(h.start) :
          Collide(key, c.after, h.start[i]) => i \in Updated(h.changes)
    <3>1. \A c \in h.changes : \A x : Collide(key, c.after, x) => c \in keyed
      BY DEF Collide
    <3> QED BY <2>2, <2>5, <3>1
  <2> QED BY <2>2, <2>4, <2>6, <2>7, ExistingStays
<1>5. PlannerOK(r, target, built, approvals)
  BY <1>1, <1>2, <1>3, <1>4, CheckedOK
<1> QED BY <1>1, <1>2, <1>5, PutKeeps

\* The target is read for an index to be built.
LEMMA ScanTargetKeeps ==
  ASSUME PlanIInv, NEW p \in Planners, NEW key \in Uniques, ScanTarget(p, key)
  PROVE  PlanIInv'
<1> DEFINE h == planners[p]
<1>1. /\ PlannerOK(h, target, built, approvals) /\ target \in Collection
      /\ approvals \subseteq ApprovalType /\ expired \subseteq approvals
  BY PlannersOK DEF PlanIInv, PlanTypeOK
<1>2. PICK some \in Limited(Present(target), MaxScan) :
        Put(p, [h EXCEPT !.at = "scanned", !.key = key,
                         !.scanned = [i \in Ids |-> IF i \in some THEN target[i] ELSE Void]])
  BY DEF ScanTarget
<1>3. /\ h.at = "unique" /\ key \in h.left /\ h.seen[key] = "missing"
      /\ UNCHANGED <<origin, target, built, approvals, expired, meddled>>
  BY DEF ScanTarget
<1> DEFINE scanned == [i \in Ids |-> IF i \in some THEN target[i] ELSE Void]
           r == [h EXCEPT !.at = "scanned", !.key = key, !.scanned = scanned]
<1>4. scanned \in Collection /\ \A i \in Ids : scanned[i] \in {Void, target[i]}
  BY <1>1 DEF Collection, MaybeImage
<1>5. Put(p, r)
  BY <1>2
<1> HIDE DEF scanned
<1>6. /\ r \in PlannerType /\ r.at = "scanned" /\ r.job = h.job /\ r.start = h.start
      /\ r.seen = h.seen /\ r.quiet = h.quiet /\ r.read = h.read /\ r.found = h.found
      /\ r.changes = h.changes /\ r.left = h.left /\ r.key = key /\ r.scanned = scanned
  BY <1>1, <1>4 DEF PlannerOK, PlannerType
<1> HIDE DEF r, h
<1>7. /\ Changes(r) = Changes(h) /\ (FoundOnce(h) => FoundOnce(r))
      /\ Affected(r, r.changes) = Affected(h, h.changes) /\ (FoundAll(h) => FoundAll(r))
      /\ (ConflictFree(h) => ConflictFree(r))
      /\ \A k : FinalDistinct(h, k) => FinalDistinct(r, k)
  BY <1>6, SamePlan
<1>8. PlanStatic(r) /\ PlanBacked(r) /\ r.at \notin WritingAt
  BY <1>1, <1>3, <1>6, <1>7
     DEF PlannerOK, PlanStatic, PlanBacked, SeenAt, ReadAt, MatchedAt, ReadyAt, WritingAt
<1>9. ASSUME r.quiet PROVE PlanQuiet(r, target, built)
  <2>1. PlanQuiet(h, target, built)
    BY <1>1, <1>6, <1>9 DEF PlannerOK
  <2>2. h.start = target
    BY <1>3, <2>1 DEF PlanQuiet, WritingAt
  <2>3. \A k \in Affected(r, r.changes) \ r.left : FinalDistinct(r, k)
    BY <1>3, <1>6, <1>7, <2>1 DEF PlanQuiet
  <2> QED BY <1>3, <1>4, <1>6, <1>7, <2>1, <2>2, <2>3
             DEF PlanQuiet, SeenAt, ReadAt, MatchedAt, ReadyAt, WritingAt
<1>10. PlannerOK(r, target, built, approvals)
  BY <1>6, <1>8, <1>9 DEF PlannerOK
<1> QED BY <1>1, <1>3, <1>5, <1>10, PutKeeps

\* An index to be built will tell apart what the plan leaves.
LEMMA CheckScannedKeeps ==
  ASSUME PlanIInv, NEW p \in Planners, CheckScanned(p)
  PROVE  PlanIInv'
<1> DEFINE h == planners[p]
           r == [h EXCEPT !.at = "unique", !.left = @ \ {h.key}, !.key = Void,
                          !.scanned = NoDocuments]
<1>1. /\ PlannerOK(h, target, built, approvals) /\ target \in Collection
      /\ approvals \subseteq ApprovalType /\ expired \subseteq approvals
  BY PlannersOK DEF PlanIInv, PlanTypeOK
<1>2. /\ h.at = "scanned" /\ Put(p, r)
      /\ UNCHANGED <<origin, target, built, approvals, expired, meddled>>
      /\ Cardinality(Present(h.scanned)) = Cardinality(Present(target))
      /\ WouldBeDistinct(h.key, h.scanned, h.changes)
  BY DEF CheckScanned
<1>3. /\ r \in PlannerType /\ r.at = "unique" /\ r.job = h.job /\ r.start = h.start
      /\ r.seen = h.seen /\ r.quiet = h.quiet /\ r.read = h.read /\ r.found = h.found
      /\ r.changes = h.changes /\ r.left = h.left \ {h.key}
  <2>1. NoDocuments \in Collection
    BY DEF NoDocuments, Collection, MaybeImage
  <2> QED BY <1>1, <1>2, <2>1 DEF PlannerOK, PlannerType
<1> HIDE DEF r, h
<1>4. ASSUME h.quiet PROVE FinalDistinct(h, h.key)
  <2>1. PlanQuiet(h, target, built) /\ h \in PlannerType /\ PlanStatic(h)
    BY <1>1, <1>4 DEF PlannerOK
  <2>2. Quietly(h) /\ h.start = target /\ \A i \in Ids : h.scanned[i] \in {Void, target[i]}
    BY <1>2, <1>4, <2>1, MatchedIs DEF PlanQuiet, SeenAt, ReadAt, MatchedAt, ReadyAt, WritingAt
  <2>3. Present(h.scanned) \subseteq Present(target) /\ IsFiniteSet(Present(target))
    <3>1. Present(h.scanned) \subseteq Present(target) /\ Present(target) \subseteq Ids
      BY <2>2 DEF Present
    <3> QED BY <3>1, PlanConstants, FS_Subset
  <2>4. Present(h.scanned) = Present(target)
    BY <1>2, <2>3, FS_Subset
  <2>5. h.scanned = target
    <3>1. \A i \in Ids : h.scanned[i] = target[i]
      BY <2>2, <2>4 DEF Present
    <3>2. h.scanned \in Collection
      BY <2>1 DEF PlannerType
    <3> QED BY <1>1, <3>1, <3>2 DEF Collection
  <2> QED BY <1>2, <2>2, <2>5, ScannedHolds
<1>5. PlannerOK(r, target, built, approvals)
  BY <1>1, <1>2, <1>3, <1>4, CheckedOK
<1> QED BY <1>1, <1>2, <1>5, PutKeeps

\* An approval is issued: of what the plan found.
LEMMA IssueKeeps ==
  ASSUME PlanIInv, NEW p \in Planners, Issue(p)
  PROVE  PlanIInv'
<1> DEFINE h == planners[p]
           a == ApprovalOf(h)
<1>1. /\ PlannerOK(h, target, built, approvals)
      /\ approvals \subseteq ApprovalType /\ expired \subseteq approvals
  BY PlannersOK DEF PlanIInv, PlanTypeOK
<1>2. /\ h.at = "unique" /\ Put(p, Rest) /\ approvals' = approvals \cup {a}
      /\ expired' = expired \ {a} /\ UNCHANGED <<origin, target, built, meddled>>
  BY DEF Issue, PlanReady
<1>3. a \in ApprovalType
  <2>1. h.job \in TaskJobs /\ h.seen \in [Uniques -> IndexStates]
    BY <1>1, <1>2 DEF PlannerOK, PlanStatic, SeenAt, ReadAt, MatchedAt, ReadyAt
  <2>2. \A c \in h.changes : [id |-> c.id, before |-> c.before, after |-> c.after] \in ShownType
    <3>1. h.changes \subseteq ChangeType
      BY <1>1 DEF PlannerOK, PlannerType
    <3> QED BY <3>1 DEF ChangeType, ShownType
  <2> QED BY <2>1, <2>2 DEF ApprovalOf, ApprovalType
<1> QED BY <1>1, <1>2, <1>3, RestOK, PutKeeps

\* A call ends, well or badly.
LEMMA EndTaskKeeps ==
  ASSUME PlanIInv, NEW p \in Planners, FinishTask(p) \/ RefuseTask(p)
  PROVE  PlanIInv'
<1>1. /\ Put(p, Rest) /\ UNCHANGED <<origin, target, built, approvals, expired, meddled>>
  BY DEF FinishTask, RefuseTask
<1> QED BY <1>1, RestOK, PutKeeps DEF PlanIInv, PlanTypeOK

\* An approval expires.
LEMMA ExpireKeeps ==
  ASSUME PlanIInv, NEW a \in approvals, ExpireApproval(a)
  PROVE  PlanIInv'
BY DEF ExpireApproval, PlanIInv, PlanTypeOK, Enforced, Distinct, Present

\* Before the first change is written.
LEMMA ProgressStarts ==
  ASSUME NEW h, Quietly(h), NEW r, r.job = h.job, r.read = h.read, r.start = h.start,
         r.at = "write", r.todo = h.changes
  PROVE  Progress(r, h.start)
<1>1. LeftAlone(r, h.start)
  BY DEF LeftAlone
<1>2. Unwritten(r) = h.changes
  BY DEF Unwritten
<1>3. ASSUME NEW item \in h.read, Waiting(r, item) PROVE ItemWaits(r, item, h.start)
  BY DEF ItemWaits
<1>4. ASSUME NEW item \in h.read, ~Waiting(r, item) PROVE ItemDone(r, item, h.start)
  <2> DEFINE c == ChangeOf(h, item)
  <2>1. c.from = item /\ c.after = After(item, c.before) /\ c.after # Void
    BY ChangeShape DEF Quietly
  <2>2. c.before = c.after
    <3>1. c \notin h.changes
      BY <1>2, <1>4, <2>1 DEF Waiting
    <3> QED BY <3>1 DEF Quietly, Changes
  <2>3. /\ c.id \in Ids /\ c.before = h.start[c.id]
        /\ Matching(h.job, item, h.start) = {c.id}
    BY <2>1, <2>2, ChangeAt
  <2>4. c.id \in Present(h.start)
    BY <2>3 DEF Matching
  <2> HIDE DEF c
  <2> QED BY <2>1, <2>2, <2>3, <2>4 DEF ItemDone
<1> QED BY <1>1, <1>3, <1>4 DEF Progress

\* The plan is the one approved: every key that is or will be unique has been looked at.
LEMMA BeginWritingKeeps ==
  ASSUME PlanIInv, NEW p \in Planners, BeginWriting(p)
  PROVE  PlanIInv'
<1> DEFINE h == planners[p]
           r == [h EXCEPT !.at = "write", !.left = Indexing(h), !.todo = h.changes]
<1>1. /\ PlannerOK(h, target, built, approvals) /\ target \in Collection
      /\ approvals \subseteq ApprovalType /\ expired \subseteq approvals
      /\ built \in [Uniques -> IndexStates]
  BY PlannersOK DEF PlanIInv, PlanTypeOK
<1>2. /\ h.at = "unique" /\ h.left = {} /\ h.approval # Void /\ h.approval \in approvals
      /\ h.approval = ApprovalOf(h) /\ Put(p, r)
      /\ UNCHANGED <<origin, target, built, approvals, expired, meddled>>
  BY DEF BeginWriting, PlanReady, Approved
<1>3. h.job \in JobType /\ h.seen \in [Uniques -> IndexStates]
  BY <1>1, <1>2, JobIs DEF PlannerOK, PlanStatic, SeenAt, ReadAt, MatchedAt, ReadyAt
<1>4. Indexing(h) \subseteq Uniques
  BY <1>3 DEF Indexing, JobType
<1>5. /\ r \in PlannerType /\ r.at = "write" /\ r.job = h.job /\ r.start = h.start
      /\ r.seen = h.seen /\ r.quiet = h.quiet /\ r.read = h.read /\ r.found = h.found
      /\ r.changes = h.changes /\ r.left = Indexing(h) /\ r.todo = h.changes
      /\ r.approval = h.approval
  BY <1>1, <1>4 DEF PlannerOK, PlannerType
<1> HIDE DEF r, h
<1>6. /\ Changes(r) = Changes(h) /\ (FoundOnce(h) => FoundOnce(r))
      /\ Indexing(r) = Indexing(h) /\ (FoundAll(h) => FoundAll(r))
      /\ (ConflictFree(h) => ConflictFree(r))
      /\ \A k : FinalDistinct(h, k) => FinalDistinct(r, k)
  BY <1>5, SamePlan
<1>7. PlanStatic(r)
  BY <1>1, <1>2, <1>5, <1>6
     DEF PlannerOK, PlanStatic, SeenAt, ReadAt, MatchedAt, ReadyAt, WritingAt
<1>8. PlanBacked(r)
  BY <1>2, <1>5 DEF PlanBacked, ApprovalOf
<1>9. ASSUME r.quiet PROVE PlanQuiet(r, target, built)
  <2>1. PlanQuiet(h, target, built) /\ h \in PlannerType /\ PlanStatic(h)
    BY <1>1, <1>5, <1>9 DEF PlannerOK
  <2>2. /\ Quietly(h) /\ h.start = target /\ built = h.seen /\ Enforced(h.start, h.seen)
        /\ FoundAll(h) /\ ConflictFree(h)
        /\ \A key \in Affected(h, h.changes) : FinalDistinct(h, key)
    BY <1>2, <1>5, <1>9, <2>1, MatchedIs
       DEF PlanQuiet, SeenAt, ReadAt, MatchedAt, ReadyAt, WritingAt
  <2>3. ASSUME NEW key \in Uniques, h.seen[key] = "unique" \/ key \in Indexing(h)
        PROVE  FinalDistinct(h, key)
    <3>1. CASE key \in Affected(h, h.changes)
      BY <2>2, <3>1
    <3>2. CASE key \notin Affected(h, h.changes)
      <4>1. key \notin Indexing(h)
        BY <3>2 DEF Affected, Indexing
      <4>2. /\ h.seen[key] = "unique"
            /\ \A c \in h.changes : c.before # Void /\ SameOn(key, c.before, c.after)
        BY <2>3, <3>2, <4>1 DEF Affected
      <4>3. Distinct(key, h.start)
        BY <2>2, <4>2 DEF Enforced
      <4> QED BY <2>2, <4>2, <4>3, UnaffectedStays
    <3> QED BY <3>1, <3>2
  <2>4. Progress(r, target)
    BY <1>5, <2>2, ProgressStarts
  <2>5. \A key \in Uniques :
          built[key] = IF key \in Indexing(r) \ r.left THEN "unique" ELSE r.seen[key]
    BY <1>5, <1>6, <2>2
  <2>6. \A key \in Uniques : r.seen[key] = "unique" \/ key \in Indexing(r)
                               => FinalDistinct(r, key)
    BY <1>5, <1>6, <2>3
  <2> QED BY <1>5, <1>6, <2>2, <2>4, <2>5, <2>6
             DEF PlanQuiet, SeenAt, ReadAt, MatchedAt, ReadyAt, WritingAt
<1>10. PlannerOK(r, target, built, approvals)
  BY <1>2, <1>5, <1>7, <1>8, <1>9 DEF PlannerOK
<1> QED BY <1>1, <1>2, <1>10, PutKeeps

\* A planner that writes.
LEMMA WriterIs ==
  ASSUME NEW h, NEW docs, NEW indexes, NEW issued, PlannerOK(h, docs, indexes, issued),
         h.at \in WritingAt
  PROVE  /\ h \in PlannerType /\ Matched(h) /\ h.changes = Changes(h)
         /\ h.job \in JobType /\ h.seen \in [Uniques -> IndexStates]
         /\ h.at # "passed" => h.todo \subseteq h.changes
         /\ h.quiet => Quietly(h) /\ PlanQuiet(h, docs, indexes)
<1>1. h \in PlannerType /\ PlanStatic(h) /\ h.at \in MatchedAt /\ h.at \in ReadyAt /\ h.at \in SeenAt
  BY DEF PlannerOK, SeenAt, ReadAt, MatchedAt, ReadyAt, WritingAt
<1>2. Matched(h) /\ h.job \in TaskJobs /\ JobAllowed(h.job)
  BY <1>1, MatchedIs
<1>3. h.quiet => FoundAll(h)
  BY <1>1 DEF PlannerOK, PlanQuiet
<1> QED BY <1>1, <1>2, <1>3, MatchedIs, JobIs DEF PlannerOK, PlanStatic, WritingAt

\* An index is built, before the first document is written.
LEMMA BuildIndexKeeps ==
  ASSUME PlanIInv, NEW p \in Planners, NEW key \in Uniques, BuildIndex(p, key)
  PROVE  PlanIInv'
<1> DEFINE h == planners[p]
           r == [h EXCEPT !.left = @ \ {key}]
<1>1. /\ PlannerOK(h, target, built, approvals) /\ target \in Collection
      /\ built \in [Uniques -> IndexStates] /\ Enforced(target, built)
  BY PlannersOK DEF PlanIInv, PlanTypeOK
<1>2. /\ h.at = "write" /\ key \in h.left /\ PutWriting(p, r) /\ Distinct(key, target)
      /\ built' = [built EXCEPT ![key] = "unique"]
      /\ UNCHANGED <<origin, target, approvals, expired, meddled>>
  BY DEF BuildIndex, MayBuild
<1>3. /\ r \in PlannerType /\ r.at = "write" /\ r.job = h.job /\ r.start = h.start
      /\ r.seen = h.seen /\ r.quiet = h.quiet /\ r.read = h.read /\ r.found = h.found
      /\ r.changes = h.changes /\ r.left = h.left \ {key} /\ r.todo = h.todo
      /\ r.approval = h.approval
  BY <1>1, <1>2 DEF PlannerOK, PlannerType
<1>4. built' \in [Uniques -> IndexStates] /\ Enforced(target, built')
  BY <1>1, <1>2 DEF IndexStates, Enforced
<1> HIDE DEF r, h
<1>5. /\ Changes(r) = Changes(h) /\ (FoundOnce(h) => FoundOnce(r))
      /\ Indexing(r) = Indexing(h) /\ (FoundAll(h) => FoundAll(r))
      /\ (ConflictFree(h) => ConflictFree(r))
      /\ \A k : FinalDistinct(h, k) => FinalDistinct(r, k)
  BY <1>3, SamePlan
<1>6. PlanStatic(r) /\ PlanBacked(r)
  BY <1>1, <1>2, <1>3, <1>5
     DEF PlannerOK, PlanStatic, PlanBacked, SeenAt, ReadAt, MatchedAt, ReadyAt, WritingAt
<1>7. ASSUME r.quiet PROVE PlanQuiet(r, target, built')
  <2>1. PlanQuiet(h, target, built) /\ key \in Indexing(h)
    BY <1>1, <1>2, <1>3, <1>7 DEF PlannerOK, PlanStatic
  <2>2. Progress(r, target)
    <3>1. Progress(h, target)
      BY <1>2, <2>1 DEF PlanQuiet
    <3>2. Unwritten(r) = Unwritten(h)
      BY <1>2, <1>3 DEF Unwritten
    <3> QED BY <1>3, <3>1, <3>2 DEF Progress, Waiting, LeftAlone, ItemWaits, ItemDone
  <2>3. \A k \in Uniques :
          built'[k] = IF k \in Indexing(r) \ r.left THEN "unique" ELSE r.seen[k]
    <3>1. \A k \in Uniques :
            built[k] = IF k \in Indexing(h) \ h.left THEN "unique" ELSE h.seen[k]
      BY <1>2, <2>1 DEF PlanQuiet, WritingAt
    <3> QED BY <1>1, <1>2, <1>3, <1>5, <2>1, <3>1
  <2>4. \A k \in Uniques : r.seen[k] = "unique" \/ k \in Indexing(r) => FinalDistinct(r, k)
    BY <1>2, <1>3, <1>5, <2>1 DEF PlanQuiet, WritingAt
  <2>5. target = h.start
    BY <1>2, <2>1 DEF PlanQuiet
  <2> QED BY <1>2, <1>3, <1>5, <2>1, <2>2, <2>3, <2>4, <2>5
             DEF PlanQuiet, SeenAt, ReadAt, MatchedAt, ReadyAt, WritingAt
<1>8. PlannerOK(r, target, built', approvals)
  BY <1>1, <1>2, <1>3, <1>6, <1>7 DEF PlannerOK, WritingAt
<1> QED BY <1>1, <1>2, <1>4, <1>8, PutWritingKeeps

\* A change is written.
LEMMA WriteChangeKeeps ==
  ASSUME PlanIInv, NEW p \in Planners, NEW c \in planners[p].todo, WriteChange(p, c)
  PROVE  PlanIInv'
<1> DEFINE h == planners[p]
           r == [h EXCEPT !.at = "confirm", !.on = c]
<1>1. /\ PlannerOK(h, target, built, approvals) /\ target \in Collection
      /\ built \in [Uniques -> IndexStates]
  BY PlannersOK DEF PlanIInv, PlanTypeOK
<1>2. /\ h.at = "write" /\ h.left = {} /\ c \in h.todo /\ PutWriting(p, r)
      /\ UNCHANGED <<origin, built, approvals, expired, meddled>>
  BY DEF WriteChange
<1>3. PICK i \in Places(h, c) : Writable(h, c, i) /\ target' = [target EXCEPT ![i] = c.after]
  BY DEF WriteChange
<1>4. /\ i \in Ids /\ target[i] = c.before /\ c.id \in {i, Void}
      /\ Enforced(target', built) /\ c \in h.changes /\ c \in ChangeType
  <2>1. c \in h.changes /\ c \in ChangeType
    BY <1>1, <1>2 DEF PlannerOK, PlanStatic, PlannerType
  <2> QED BY <1>3, <2>1 DEF Places, Writable, ChangeType
<1>5. target' \in Collection
  BY <1>1, <1>3, <1>4 DEF Collection, MaybeImage, ChangeType
<1>6. /\ r \in PlannerType /\ r.at = "confirm" /\ r.job = h.job /\ r.start = h.start
      /\ r.seen = h.seen /\ r.quiet = h.quiet /\ r.read = h.read /\ r.found = h.found
      /\ r.changes = h.changes /\ r.left = h.left /\ r.todo = h.todo /\ r.on = c
      /\ r.approval = h.approval
  BY <1>1, <1>4 DEF PlannerOK, PlannerType
<1> HIDE DEF r, h
<1>7. /\ Changes(r) = Changes(h) /\ (FoundOnce(h) => FoundOnce(r))
      /\ Indexing(r) = Indexing(h) /\ (FoundAll(h) => FoundAll(r))
      /\ (ConflictFree(h) => ConflictFree(r))
      /\ \A k : FinalDistinct(h, k) => FinalDistinct(r, k)
  BY <1>6, SamePlan
<1>8. PlanStatic(r) /\ PlanBacked(r)
  BY <1>1, <1>2, <1>6, <1>7
     DEF PlannerOK, PlanStatic, PlanBacked, SeenAt, ReadAt, MatchedAt, ReadyAt, WritingAt
<1>9. ASSUME r.quiet PROVE PlanQuiet(r, target', built)
  <2>1. PlanQuiet(h, target, built) /\ Quietly(h) /\ h.todo \subseteq h.changes
    BY <1>1, <1>2, <1>6, <1>9, WriterIs DEF WritingAt
  <2>2. Progress(h, target)
    BY <1>2, <2>1 DEF PlanQuiet
  <2>3. Progress(r, target')
    BY <1>1, <1>2, <1>3, <1>4, <1>6, <2>1, <2>2, WriteProgress
  <2>4. \A k \in Uniques : r.seen[k] = "unique" \/ k \in Indexing(r) => FinalDistinct(r, k)
    BY <1>2, <1>6, <1>7, <2>1 DEF PlanQuiet, WritingAt
  <2>5. \A k \in Uniques :
          built[k] = IF k \in Indexing(r) \ r.left THEN "unique" ELSE r.seen[k]
    BY <1>2, <1>6, <1>7, <2>1 DEF PlanQuiet, WritingAt
  <2> QED BY <1>2, <1>6, <1>7, <2>1, <2>3, <2>4, <2>5
             DEF PlanQuiet, SeenAt, ReadAt, MatchedAt, ReadyAt, WritingAt
<1>10. PlannerOK(r, target', built, approvals)
  BY <1>1, <1>2, <1>6, <1>8, <1>9 DEF PlannerOK, WritingAt
<1> QED BY <1>1, <1>2, <1>4, <1>5, <1>10, PutWritingKeeps

\* A change is read back.
LEMMA ConfirmChangeKeeps ==
  ASSUME PlanIInv, NEW p \in Planners, ConfirmChange(p)
  PROVE  PlanIInv'
<1> DEFINE h == planners[p]
           r == [h EXCEPT !.at = "write", !.todo = @ \ {h.on}, !.on = Void]
<1>1. /\ PlannerOK(h, target, built, approvals)
      /\ approvals \subseteq ApprovalType /\ expired \subseteq approvals
  BY PlannersOK DEF PlanIInv, PlanTypeOK
<1>2. /\ h.at = "confirm" /\ Put(p, r)
      /\ UNCHANGED <<origin, target, built, approvals, expired, meddled>>
  BY DEF ConfirmChange
<1>3. /\ r \in PlannerType /\ r.at = "write" /\ r.job = h.job /\ r.start = h.start
      /\ r.seen = h.seen /\ r.quiet = h.quiet /\ r.read = h.read /\ r.found = h.found
      /\ r.changes = h.changes /\ r.left = h.left /\ r.todo = h.todo \ {h.on}
      /\ r.approval = h.approval
  BY <1>1, <1>2 DEF PlannerOK, PlannerType
<1> HIDE DEF r, h
<1>4. /\ Changes(r) = Changes(h) /\ (FoundOnce(h) => FoundOnce(r))
      /\ Indexing(r) = Indexing(h) /\ (FoundAll(h) => FoundAll(r))
      /\ (ConflictFree(h) => ConflictFree(r))
      /\ \A k : FinalDistinct(h, k) => FinalDistinct(r, k)
  BY <1>3, SamePlan
<1>5. h.left = {} /\ PlanStatic(r) /\ PlanBacked(r)
  BY <1>1, <1>2, <1>3, <1>4
     DEF PlannerOK, PlanStatic, PlanBacked, SeenAt, ReadAt, MatchedAt, ReadyAt, WritingAt
<1>6. ASSUME r.quiet PROVE PlanQuiet(r, target, built)
  <2>1. PlanQuiet(h, target, built)
    BY <1>1, <1>3, <1>6 DEF PlannerOK
  <2>2. Progress(r, target)
    <3>1. Progress(h, target)
      BY <1>2, <2>1 DEF PlanQuiet
    <3>2. Unwritten(r) = Unwritten(h)
      BY <1>2, <1>3 DEF Unwritten
    <3> QED BY <1>3, <3>1, <3>2 DEF Progress, Waiting, LeftAlone, ItemWaits, ItemDone
  <2>3. /\ \A k \in Uniques : r.seen[k] = "unique" \/ k \in Indexing(r) => FinalDistinct(r, k)
        /\ \A k \in Uniques :
             built[k] = IF k \in Indexing(r) \ r.left THEN "unique" ELSE r.seen[k]
    BY <1>2, <1>3, <1>4, <2>1 DEF PlanQuiet, WritingAt
  <2> QED BY <1>2, <1>3, <1>4, <1>5, <2>1, <2>2, <2>3
             DEF PlanQuiet, SeenAt, ReadAt, MatchedAt, ReadyAt, WritingAt
<1>7. PlannerOK(r, target, built, approvals)
  BY <1>1, <1>2, <1>3, <1>5, <1>6 DEF PlannerOK, WritingAt
<1> QED BY <1>1, <1>2, <1>7, PutKeeps

\* Everything is written and verified.
LEMMA VerifyPlanKeeps ==
  ASSUME PlanIInv, NEW p \in Planners, VerifyPlan(p)
  PROVE  PlanIInv'
<1> DEFINE h == planners[p]
           r == [h EXCEPT !.at = "passed"]
<1>1. /\ PlannerOK(h, target, built, approvals)
      /\ approvals \subseteq ApprovalType /\ expired \subseteq approvals
  BY PlannersOK DEF PlanIInv, PlanTypeOK
<1>2. /\ h.at = "write" /\ h.left = {} /\ h.todo = {} /\ Put(p, r)
      /\ \A key \in h.job.declared : built[key] = "unique"
      /\ UNCHANGED <<origin, target, built, approvals, expired, meddled>>
  BY DEF VerifyPlan
<1>3. /\ r \in PlannerType /\ r.at = "passed" /\ r.job = h.job /\ r.start = h.start
      /\ r.seen = h.seen /\ r.quiet = h.quiet /\ r.read = h.read /\ r.found = h.found
      /\ r.changes = h.changes /\ r.left = h.left /\ r.todo = h.todo
      /\ r.approval = h.approval
  BY <1>1, <1>2 DEF PlannerOK, PlannerType
<1> HIDE DEF r, h
<1>4. /\ Changes(r) = Changes(h) /\ (FoundOnce(h) => FoundOnce(r))
      /\ Indexing(r) = Indexing(h) /\ (FoundAll(h) => FoundAll(r))
      /\ (ConflictFree(h) => ConflictFree(r))
      /\ \A k : FinalDistinct(h, k) => FinalDistinct(r, k)
  BY <1>3, SamePlan
<1>5. PlanStatic(r) /\ PlanBacked(r)
  BY <1>1, <1>2, <1>3, <1>4
     DEF PlannerOK, PlanStatic, PlanBacked, SeenAt, ReadAt, MatchedAt, ReadyAt, WritingAt
<1>6. ASSUME r.quiet PROVE PlanQuiet(r, target, built)
  <2>1. PlanQuiet(h, target, built)
    BY <1>1, <1>3, <1>6 DEF PlannerOK
  <2>2. Progress(h, target)
    BY <1>2, <2>1 DEF PlanQuiet
  <2>3. /\ LeftAlone(r, target)
        /\ \A item \in r.read : ItemDone(r, item, target)
    <3>1. \A item : ~Waiting(h, item)
      BY <1>2 DEF Waiting, Unwritten
    <3> QED BY <1>3, <2>2, <3>1 DEF Progress, LeftAlone, ItemDone
  <2>4. /\ \A k \in Uniques : r.seen[k] = "unique" \/ k \in Indexing(r) => FinalDistinct(r, k)
        /\ \A k \in Uniques :
             built[k] = IF k \in Indexing(r) \ r.left THEN "unique" ELSE r.seen[k]
    BY <1>2, <1>3, <1>4, <2>1 DEF PlanQuiet, WritingAt
  <2> QED BY <1>2, <1>3, <1>4, <1>5, <2>1, <2>3, <2>4
             DEF PlanQuiet, SeenAt, ReadAt, MatchedAt, ReadyAt, WritingAt
<1>7. PlannerOK(r, target, built, approvals)
  BY <1>1, <1>2, <1>3, <1>5, <1>6 DEF PlannerOK, WritingAt
<1> QED BY <1>1, <1>2, <1>7, PutKeeps

\* The invariant of the plans holds initially.
LEMMA PlanInitInv == PlanInit => PlanIInv
<1> SUFFICES ASSUME PlanInit PROVE PlanIInv
  OBVIOUS
<1>1. \A p \in Planners : PlannerOK(planners[p], target, built, approvals)
  BY RestOK DEF PlanInit
<1>2. planners \in [Planners -> PlannerType]
  BY <1>1 DEF PlanInit, PlannerOK
<1>3. meddled \in 0..MaxMeddling
  BY PlanConstants DEF PlanInit
<1> QED BY <1>1, <1>2, <1>3 DEF PlanInit, PlanIInv, PlanTypeOK, PlannerOK, WritingAt

\* Every step of a planner or of another program keeps it.
LEMMA PlanNextInv == PlanIInv /\ [PlanNext]_planVars => PlanIInv'
<1> SUFFICES ASSUME PlanIInv, [PlanNext]_planVars PROVE PlanIInv'
  OBVIOUS
<1>1. CASE UNCHANGED planVars
  BY <1>1 DEF planVars, PlanIInv, PlanTypeOK, Enforced, Distinct, Present
<1>2. CASE MeddlerStep
  BY <1>2, MeddleKeeps
<1>3. CASE \E a \in approvals : ExpireApproval(a)
  BY <1>3, ExpireKeeps
<1>4. ASSUME NEW p \in Planners, PlannerStep(p) PROVE PlanIInv'
  <2>1. CASE Preview(p) \/ ApplyApproved(p)
    BY <2>1, BeginTaskKeeps DEF Preview, ApplyApproved
  <2>2. CASE ReadIndexes(p) \/ ReadOrigin(p) \/ MatchTarget(p) \/ MatchConflicts(p)
    BY <2>2, ReadIndexesKeeps, ReadOriginKeeps, MatchTargetKeeps, MatchConflictsKeeps
  <2>3. CASE \E key \in Uniques : CheckExisting(p, key) \/ ScanTarget(p, key) \/ BuildIndex(p, key)
    BY <2>3, CheckExistingKeeps, ScanTargetKeeps, BuildIndexKeeps
  <2>4. CASE CheckScanned(p) \/ Issue(p) \/ BeginWriting(p)
    BY <2>4, CheckScannedKeeps, IssueKeeps, BeginWritingKeeps
  <2>5. CASE (\E c \in planners[p].todo : WriteChange(p, c)) \/ ConfirmChange(p) \/ VerifyPlan(p)
    BY <2>5, WriteChangeKeeps, ConfirmChangeKeeps, VerifyPlanKeeps
  <2>6. CASE FinishTask(p) \/ RefuseTask(p)
    BY <2>6, EndTaskKeeps
  <2> QED BY <1>4, <2>1, <2>2, <2>3, <2>4, <2>5, <2>6 DEF PlannerStep
<1> QED BY <1>1, <1>2, <1>3, <1>4 DEF PlanNext

\* An apply() whose plan passed can go on.
LEMMA ProceedsQuietly == PlanIInv => QuietProceeds
<1> SUFFICES ASSUME PlanIInv, NEW p \in Planners, planners[p].quiet,
                    planners[p].at \in {"write", "confirm"}
             PROVE  LET h == planners[p]
                    IN /\ h.at = "confirm" => Confirmed(h)
                       /\ \A key \in h.left : MayBuild(key) \/ Repaired(h, key)
                       /\ h.at = "write" /\ h.left = {} =>
                            \A c \in h.todo : \A i \in Places(h, c) :
                              Writable(h, c, i) \/ Exchanged(h, c)
                       /\ h.at = "write" /\ h.left = {} /\ h.todo = {} =>
                            \A c \in h.changes : InPlace(h, c)
  BY DEF QuietProceeds
<1> DEFINE h == planners[p]
<1>1. /\ PlannerOK(h, target, built, approvals) /\ target \in Collection
      /\ built \in [Uniques -> IndexStates] /\ Enforced(target, built)
  BY PlannersOK DEF PlanIInv, PlanTypeOK
<1>2. h.quiet /\ h.at \in {"write", "confirm"}
  OBVIOUS
<1> HIDE DEF h
<1>3. /\ h \in PlannerType /\ Matched(h) /\ h.changes = Changes(h) /\ h.job \in JobType
      /\ h.todo \subseteq h.changes /\ Quietly(h) /\ PlanQuiet(h, target, built)
  BY <1>1, <1>2, WriterIs DEF WritingAt
<1>4. /\ Progress(h, target) /\ (h.at = "write" => h.left \subseteq Indexing(h))
      /\ (h.at = "confirm" => h.on \in h.todo /\ h.left = {})
  BY <1>1, <1>2, <1>3 DEF PlanQuiet, PlannerOK, PlanStatic
<1>5. ASSUME h.at = "confirm" PROVE Confirmed(h)
  <2> DEFINE item == h.on.from
  <2>1. h.on \in h.changes /\ item \in h.read /\ h.on = ChangeOf(h, item)
    BY <1>3, <1>4, <1>5, ChangeFrom
  <2>2. ~Waiting(h, item)
    <3>1. ASSUME NEW e \in Unwritten(h), e.from = item PROVE FALSE
      <4>1. e \in h.changes /\ e # h.on
        BY <1>3, <1>5, <3>1 DEF Unwritten
      <4> QED BY <1>3, <2>1, <3>1, <4>1, OneChange
    <3> QED BY <3>1 DEF Waiting
  <2>3. ItemDone(h, item, target)
    BY <1>4, <2>1, <2>2 DEF Progress
  <2> QED BY <1>3, <2>1, <2>3, DoneIs DEF Confirmed
<1>6. ASSUME NEW key \in h.left PROVE MayBuild(key) \/ Repaired(h, key)
  <2>1. h.at = "write" /\ key \in Indexing(h) /\ h.left # {}
    BY <1>2, <1>4, <1>6
  <2>2. target = h.start /\ FinalDistinct(h, key) /\ key \in Uniques
    BY <1>3, <2>1 DEF PlanQuiet, WritingAt, PlannerType
  <2>3. built[key] = "missing"
    BY <1>3, <1>6, <2>1, <2>2 DEF PlanQuiet, WritingAt, Indexing
  <2>4. CASE Distinct(key, target)
    BY <2>3, <2>4 DEF MayBuild
  <2>5. CASE ~Distinct(key, target)
    <3>1. PICK i \in Present(target), k \in Present(target) : Collide(key, target[i], target[k]) /\ i # k
      BY <2>5 DEF Distinct
    <3>2. i \in Updated(h.changes) \/ k \in Updated(h.changes)
      BY <2>2, <3>1 DEF FinalDistinct
    <3> QED BY <3>1, <3>2 DEF Repaired
  <2> QED BY <2>4, <2>5
<1>7. ASSUME h.at = "write", h.left = {}, NEW c \in h.todo, NEW i \in Places(h, c)
      PROVE  Writable(h, c, i) \/ Exchanged(h, c)
  <2>1. c \in Unwritten(h) /\ c \in h.changes
    BY <1>3, <1>7 DEF Unwritten
  <2>2. /\ c.from \in h.read /\ c = ChangeOf(h, c.from)
        /\ c.before # Void => c.id \in Ids /\ c.before = target[c.id]
        /\ c.before = Void => Matching(h.job, c.from, target) = {}
    BY <1>3, <1>4, <2>1, WaitingIs
  <2>3. i \in Ids /\ c.id \in {i, Void} /\ target[i] = c.before
    <3>1. c.id \in Ids \cup {Void}
      BY <1>3, <2>1, ChangesFinite DEF ChangeType
    <3>2. CASE c.before # Void
      BY <1>7, <2>2, <3>2, PlanConstants DEF Places
    <3>3. CASE c.before = Void /\ c.id = Void
      BY <1>7, <3>3 DEF Places
    <3>4. CASE c.before = Void /\ c.id # Void
      <4>1. i = c.id /\ h.job.mode = "source-id" /\ c.id = c.from.id /\ i \in Ids
        BY <1>3, <1>7, <2>2, <3>1, <3>4, ChangeShape DEF Places
      <4> QED BY <2>2, <3>4, <4>1 DEF Matching, Fits, Present
    <3> QED BY <3>2, <3>3, <3>4
  <2>4. CASE Enforced([target EXCEPT ![i] = c.after], built)
    BY <2>2, <2>3, <2>4 DEF Writable
  <2>5. CASE ~Enforced([target EXCEPT ![i] = c.after], built)
    <3>1. PICK key \in Uniques : built[key] = "unique"
                                 /\ ~Distinct(key, [target EXCEPT ![i] = c.after])
      BY <2>5 DEF Enforced
    <3>2. Distinct(key, target)
      BY <1>1, <3>1 DEF Enforced
    <3>3. FinalDistinct(h, key)
      BY <1>3, <1>7, <3>1 DEF PlanQuiet, WritingAt
    <3>4. PICK e \in h.todo \ {c} : e.before # Void /\ Collide(key, c.after, e.before)
      BY <1>1, <1>3, <1>4, <1>7, <2>3, <3>1, <3>2, <3>3, OnlyExchanged
    <3> QED BY <3>1, <3>4 DEF Exchanged
  <2> QED BY <2>4, <2>5
<1>8. ASSUME h.at = "write", h.todo = {}, NEW c \in h.changes PROVE InPlace(h, c)
  <2>1. c.from \in h.read /\ c = ChangeOf(h, c.from)
    BY <1>3, ChangeFrom
  <2>2. ItemDone(h, c.from, target)
    BY <1>4, <1>8, <2>1 DEF Progress, Waiting, Unwritten
  <2>3. PICK i \in Ids : Matching(h.job, c.from, target) = {i} /\ target[i] = c.after
                         /\ target[i] = After(c.from, h.start[i])
    BY <1>3, <2>1, <2>2, DoneIs
  <2>4. \A f \in c.from.unset : f \in Fields
    BY <1>3, <2>1 DEF Matched, ItemType
  <2> QED BY <2>3, <2>4 DEF InPlace, After
<1> QED BY <1>5, <1>6, <1>7, <1>8 DEF h

\* An apply() that passed.
LEMMA ExactAtTheEnd == PlanIInv => SyncIsExact
<1> SUFFICES ASSUME PlanIInv, NEW p \in Planners, planners[p].quiet, planners[p].at = "passed"
             PROVE  LET h == planners[p]
                    IN /\ \A item \in h.read : \E i \in Ids :
                            /\ Matching(h.job, item, target) = {i}
                            /\ target[i] = After(item, h.start[i])
                       /\ \A i \in Ids :
                            (\A item \in h.read : i \notin Matching(h.job, item, target))
                              => target[i] = h.start[i]
                       /\ \A key \in h.job.declared : built[key] = "unique"
                       /\ h.job.conflictBy # {} =>
                            \A item \in h.read : \A i \in Present(h.start) :
                              SameOn(h.job.conflictBy, item.payload, h.start[i]) => i = item.id
  BY DEF SyncIsExact
<1> DEFINE h == planners[p]
<1>1. PlanQuiet(h, target, built) /\ h.at = "passed"
  BY PlannersOK DEF PlannerOK
<1> HIDE DEF h
<1>2. /\ LeftAlone(h, target) /\ \A item \in h.read : ItemDone(h, item, target)
      /\ \A key \in h.job.declared : built[key] = "unique"
      /\ ConflictFree(h)
  BY <1>1 DEF PlanQuiet, SeenAt, ReadAt, MatchedAt, ReadyAt
<1> QED BY <1>2 DEF LeftAlone, ItemDone, ConflictFree, h

\* A write of a task.
LEMMA ApprovedStep ==
  ASSUME PlanIInv, [PlanNext]_planVars, NEW i \in Ids, target'[i] # target[i], meddled' = meddled
  PROVE  \E a \in approvals : \E c \in a.changes :
           c.id \in {i, Void} /\ c.before = target[i] /\ c.after = target'[i]
<1>1. PICK p \in Planners : \E e \in planners[p].todo : WriteChange(p, e)
  <2>1. ~MeddlerStep
    <3>1. MeddlerStep => meddled' = meddled + 1
      BY DEF MeddlerStep, MeddleOrigin, MeddleTarget, MeddleIndex, Meddle
    <3> QED BY <3>1 DEF PlanIInv, PlanTypeOK
  <2>2. PICK p \in Planners : PlannerStep(p)
    BY <2>1 DEF PlanNext, planVars, ExpireApproval
  <2>3. \E e \in planners[p].todo : WriteChange(p, e)
    BY <2>2 DEF PlannerStep, Preview, ApplyApproved, BeginTask, ReadIndexes, ReadOrigin, MatchTarget,
                MatchConflicts, CheckExisting, ScanTarget, BuildIndex, CheckScanned, Issue,
                BeginWriting, ConfirmChange, VerifyPlan, FinishTask, RefuseTask
  <2> QED BY <2>3
<1> DEFINE h == planners[p]
<1>0. PICK e \in h.todo : WriteChange(p, e)
  BY <1>1
<1>2. PICK k \in Places(h, e) : Writable(h, e, k) /\ target' = [target EXCEPT ![k] = e.after]
  BY <1>0 DEF WriteChange
<1>3. /\ PlannerOK(h, target, built, approvals) /\ target \in Collection /\ h.at = "write"
  BY <1>0, PlannersOK DEF PlanIInv, PlanTypeOK, WriteChange
<1>4. /\ h.approval \in approvals
      /\ [id |-> e.id, before |-> e.before, after |-> e.after] \in h.approval.changes
  BY <1>3 DEF PlannerOK, PlanStatic, PlanBacked, WritingAt
<1>5. k = i /\ e.before = target[i] /\ e.after = target'[i] /\ e.id \in {i, Void}
  BY <1>2, <1>3 DEF Collection, Writable, Places
<1> HIDE DEF h
<1> QED BY <1>4, <1>5

\* The two of them, side by side.
LEMMA PlansAlways == TasksSpec => []PlanIInv
<1>1. PlanIInv /\ [TasksNext]_<<jobVars, planVars>> => PlanIInv'
  BY PlanNextInv DEF TasksNext
<1> QED BY <1>1, PlanInitInv, PTL DEF TasksSpec, TasksNext

\* A run that failed has left nothing that its backup does not undo; the types of plans, the
\* unique indexes of the server, and approvals for every write; an apply() that was alone
\* with the target can go on, but for an exchanged unique value or an index that waits for
\* a repair, and leaves exactly the source (planCollection, applyChange, verifyPlan).
THEOREM TasksStayWhole == TasksSpec => []TasksHold
<1>1. JobInv => UndoIsWhole
  BY JobTyped, LastIsUndoable, FailedUntouched DEF UndoIsWhole
<1>2. PlanIInv => PlanTypeOK /\ QuietProceeds /\ SyncIsExact
  BY ProceedsQuietly, ExactAtTheEnd DEF PlanIInv
<1>3. JobInv /\ PlanIInv => TasksHold
  BY <1>1, <1>2 DEF TasksHold
<1> QED BY <1>3, JobAlways, PlansAlways, PTL

\* No task overwrites a document that another program wrote after the task's plan, or after
\* the apply() it restores (expectedBeforeFilter); what a task writes over a document, an
\* approval shows, from the same image (validateDataTaskApproval, currentMatchesPlan).
THEOREM TasksTakeCare == TasksSpec => TasksWriteWithCare
<1>1. JobInv /\ [TasksNext]_<<jobVars, planVars>>
        => [TaskStep => \A d \in Docs : doc'[d] # doc[d] => d \notin others]_jobVars
  BY LaterWritesStep DEF TasksNext
<1>2. PlanIInv /\ [TasksNext]_<<jobVars, planVars>>
        => [\A i \in Ids : target'[i] # target[i] /\ meddled' = meddled =>
              \E a \in approvals : \E c \in a.changes :
                c.id \in {i, Void} /\ c.before = target[i] /\ c.after = target'[i]]_planVars
  BY ApprovedStep DEF TasksNext
<1>3. TasksSpec => LaterWritesKept
  BY <1>1, JobAlways, PTL DEF TasksSpec, LaterWritesKept
<1>4. TasksSpec => WritesAreApproved
  BY <1>2, PlansAlways, PTL DEF TasksSpec, WritesAreApproved
<1> QED BY <1>3, <1>4 DEF TasksWriteWithCare
=============================================================================
