----------------------------- MODULE BackfillFence -----------------------------
(***************************************************************************)
(* The fence of a multi-level cache: a get() that misses the local level   *)
(* reads the remote one and fills the local entry with what it found,      *)
(* without a tag, while del(), clear() and invalidateByTag() may run.      *)
(*                                                                         *)
(* One local entry, shared by several wrappers (owners).  The generations  *)
(* of the code are compared for equality only, so a ticket is either as    *)
(* old as the last increment or revoked.  What the remote level holds is   *)
(* left out: the local entry is named by the read that filled it.          *)
(***************************************************************************)
EXTENDS Naturals, FiniteSets

CONSTANTS Owners,   \* the wrappers of the local level
          Reads,    \* the calls of get()
          Ops,      \* the calls of del(), clear() and invalidateByTag()
          OwnerOf,  \* the wrapper of each call
          OpKind,   \* "del", "clear" or "tag"
          Empty

ASSUME FenceAssumption ==
  /\ Reads \cap Ops = {} /\ Ops \cap Owners = {} /\ IsFiniteSet(Ops) /\ Empty \notin Reads
  /\ OwnerOf \in [Reads \cup Ops -> Owners] /\ OpKind \in [Ops -> {"del", "clear", "tag"}]

VARIABLES
  reads,    \* where each get() is; its setter is registered, then dispatched
  fresh,    \* the tickets that are eligible and not revoked since
  entry,    \* the local entry: the read that filled it
  dirty,    \* state.dirty
  ops,      \* where each operation is
  draining, \* the setters each operation or cleanup waits for
  tail,     \* state.tail: the tag invalidations that have not ended, in order
  owners,   \* paused (cleanup under way), cleanupFailed, destroyed
  before    \* history: the reads that began before each operation ended

fenceVars == <<reads, fresh, entry, dirty, ops, draining, tail, owners, before>>

Setting == {r \in Reads : reads[r] \in {"registered", "dispatched"}}      \* state.pending
UnderWay(i) == ops[i] \in {"tail", "drain", "remote", "local"}
Invalidating == \E i \in Ops : UnderWay(i)
OwnerFree(o) == owners[o].at = "none" /\ ~owners[o].failed /\ ~owners[o].destroyed

FenceTypeOK ==
  /\ reads \in [Reads -> {"idle", "remote", "registered", "dispatched", "over"}]
  /\ fresh \subseteq Reads /\ entry \in Reads \cup {Empty} /\ dirty \in BOOLEAN
  /\ ops \in [Ops -> {"idle", "tail", "drain", "remote", "local", "done", "failed"}]
  /\ draining \in [Ops \cup Owners -> SUBSET (Reads \cup Ops)]
  /\ tail \in [Ops -> Nat]
  /\ owners \in [Owners -> [at : {"none", "drain", "run"}, failed : BOOLEAN,
                            destroyed : BOOLEAN]]
  /\ before \in [Ops -> SUBSET Reads]

Init == /\ reads = [r \in Reads |-> "idle"] /\ fresh = {} /\ entry = Empty /\ dirty = FALSE
        /\ ops = [i \in Ops |-> "idle"] /\ draining = [x \in Ops \cup Owners |-> {}]
        /\ tail = [i \in Ops |-> 0]
        /\ owners = [o \in Owners |-> [at |-> "none", failed |-> FALSE, destroyed |-> FALSE]]
        /\ before = [i \in Ops |-> {}]

-----------------------------------------------------------------------------
(* Reads.                                                                  *)

Bypass(o) == dirty \/ ~OwnerFree(o)
Valid(r) == r \in fresh /\ ~Invalidating /\ ~dirty /\ OwnerFree(OwnerOf[r])

\* A ticket is taken; the local entry answers unless it is bypassed.
Get(r) ==
  /\ reads[r] = "idle"
  /\ reads' = [reads EXCEPT ![r] =
       IF Bypass(OwnerOf[r]) \/ entry = Empty THEN "remote" ELSE "over"]
  /\ fresh' = IF Invalidating \/ Bypass(OwnerOf[r]) THEN fresh ELSE fresh \cup {r}
  /\ UNCHANGED <<entry, dirty, ops, draining, tail, owners, before>>

\* The remote level answers: a hit fills the local entry if the ticket is valid.
RemoteAnswers(r, hit) ==
  /\ reads[r] = "remote"
  /\ reads' = [reads EXCEPT ![r] = IF hit /\ Valid(r) THEN "registered" ELSE "over"]
  /\ UNCHANGED <<fresh, entry, dirty, ops, draining, tail, owners, before>>

ReadSettled(r) == draining' = [x \in DOMAIN draining |-> draining[x] \ {r}]

SetterDispatched(r) ==
  /\ reads[r] = "registered"
  /\ IF Valid(r)
     THEN reads' = [reads EXCEPT ![r] = "dispatched"] /\ UNCHANGED draining
     ELSE reads' = [reads EXCEPT ![r] = "over"] /\ ReadSettled(r)
  /\ UNCHANGED <<fresh, entry, dirty, ops, tail, owners, before>>

\* The local level has executed the setter, or has failed.
SetterLands(r, ok) ==
  /\ reads[r] = "dispatched" /\ reads' = [reads EXCEPT ![r] = "over"]
  /\ entry' = IF ok THEN r ELSE entry
  /\ ReadSettled(r)
  /\ UNCHANGED <<fresh, dirty, ops, tail, owners, before>>

-----------------------------------------------------------------------------
(* del() and clear() go through mutate(), tags through invalidate().       *)

InTail == {i \in Ops : UnderWay(i) /\ OpKind[i] = "tag"}

\* Every ticket is revoked; the setters that were registered are drained, for
\* a tag once the invalidations before it have ended.
OpCall(i) ==
  /\ ops[i] = "idle"
  /\ ops' = [ops EXCEPT ![i] = IF OpKind[i] = "tag" /\ InTail # {} THEN "tail" ELSE "drain"]
  /\ tail' = [tail EXCEPT ![i] = Cardinality({j \in Ops : ops[j] # "idle"})]
  /\ draining' = [draining EXCEPT ![i] = IF ops'[i] = "drain" THEN Setting ELSE {}]
  /\ fresh' = {}
  /\ UNCHANGED <<reads, entry, dirty, owners, before>>

OpTurn(i) ==
  /\ ops[i] = "tail" /\ \A j \in InTail : tail[i] <= tail[j]
  /\ ops' = [ops EXCEPT ![i] = "drain"] /\ draining' = [draining EXCEPT ![i] = Setting]
  /\ UNCHANGED <<reads, fresh, entry, dirty, tail, owners, before>>

\* Mutated form: the setters that were dispatched are not waited for.
OpDrainedAtOnce(i) ==
  /\ ops[i] = "drain"
  /\ ops' = [ops EXCEPT ![i] = IF OpKind[i] = "tag" THEN "remote" ELSE "local"]
  /\ UNCHANGED <<reads, fresh, entry, dirty, draining, tail, owners, before>>

OpDrained(i) ==
  /\ ops[i] = "drain" /\ draining[i] = {}
  /\ ops' = [ops EXCEPT ![i] = IF OpKind[i] = "tag" THEN "remote" ELSE "local"]
  /\ UNCHANGED <<reads, fresh, entry, dirty, draining, tail, owners, before>>

\* The reads that must not be seen any more; waiters of the operation go on.
Promised(i) == /\ before' = [before EXCEPT ![i] = {r \in Reads : reads[r] # "idle"}]
Ended(i) == draining' = [x \in DOMAIN draining |-> draining[x] \ {i}]

\* The remote part of a tag invalidation: when it fails the local level is
\* cleared all the same.
OpRemote(i) ==
  /\ ops[i] = "remote" /\ ops' = [ops EXCEPT ![i] = "local"]
  /\ UNCHANGED <<reads, fresh, entry, dirty, draining, tail, owners, before>>

\* A failed clear hides the local level; a failed del() is the caller's.
OpLocalFails(i) ==
  /\ ops[i] = "local" /\ ops' = [ops EXCEPT ![i] = "failed"]
  /\ dirty' = (dirty \/ OpKind[i] # "del")
  /\ IF OpKind[i] = "del" THEN UNCHANGED before ELSE Promised(i)
  /\ Ended(i)
  /\ UNCHANGED <<reads, fresh, entry, tail, owners>>

OpLocal(i) ==
  /\ ops[i] = "local" /\ ops' = [ops EXCEPT ![i] = "done"]
  /\ entry' = Empty /\ dirty' = (dirty /\ OpKind[i] = "del")
  /\ Promised(i) /\ Ended(i)
  /\ UNCHANGED <<reads, fresh, tail, owners>>

-----------------------------------------------------------------------------
(* cleanup() and destroy() of one wrapper.                                 *)

OwnerRevoked(o) == {r \in fresh : OwnerOf[r] # o}

\* The setters and the operations of this owner are waited for.
CleanupCall(o) ==
  /\ owners[o].at = "none"
  /\ owners' = [owners EXCEPT ![o].at = "drain"]
  /\ draining' = [draining EXCEPT ![o] = {x \in Setting \cup {i \in Ops : UnderWay(i)} :
                                            OwnerOf[x] = o}]
  /\ fresh' = OwnerRevoked(o)
  /\ UNCHANGED <<reads, entry, dirty, ops, tail, before>>

CleanupDrained(o) ==
  /\ owners[o].at = "drain" /\ draining[o] = {}
  /\ owners' = [owners EXCEPT ![o].at = "run"]
  /\ UNCHANGED <<reads, fresh, entry, dirty, ops, draining, tail, before>>

CleanupEnds(o, ok) ==
  /\ owners[o].at = "run"
  /\ owners' = [owners EXCEPT ![o].at = "none", ![o].failed = ~ok]
  /\ UNCHANGED <<reads, fresh, entry, dirty, ops, draining, tail, before>>

Destroy(o) ==
  /\ ~owners[o].destroyed /\ owners' = [owners EXCEPT ![o].destroyed = TRUE]
  /\ fresh' = {}
  /\ UNCHANGED <<reads, entry, dirty, ops, draining, tail, before>>

Next == \/ \E r \in Reads : Get(r) \/ SetterDispatched(r)
        \/ \E r \in Reads, ok \in BOOLEAN : RemoteAnswers(r, ok) \/ SetterLands(r, ok)
        \/ \E i \in Ops : \/ OpCall(i) \/ OpTurn(i) \/ OpDrained(i) \/ OpRemote(i)
                          \/ OpLocal(i) \/ OpLocalFails(i)
        \/ \E o \in Owners : \/ CleanupCall(o) \/ CleanupDrained(o) \/ Destroy(o)
                             \/ \E ok \in BOOLEAN : CleanupEnds(o, ok)

Spec == Init /\ [][Next]_fenceVars

-----------------------------------------------------------------------------
(* Properties.                                                             *)

(* A read that began before or during an operation does not refill the      *)
(* local level afterwards, nor does an entry survive the operation: where a *)
(* clear has failed the local level is not read until another one succeeds. *)
NoLateRefill == \A i \in Ops :
  entry # Empty /\ ~dirty /\ ops[i] \in {"done", "failed"} => entry \notin before[i]

(* While the adapters of a wrapper are being closed none of its setters is  *)
(* under way, whatever was dispatched before.                               *)
CleanupIsAlone == \A o \in Owners :
  owners[o].at = "run" => \A r \in Setting : OwnerOf[r] # o

(* Neither an old value nor a clearing reaches the local level too late.    *)
FenceHolds == FenceTypeOK /\ NoLateRefill /\ CleanupIsAlone
=============================================================================
