---------------------------- MODULE MCSharedState ----------------------------
(* What programs share in Redis and MongoDB, each on its own: a lock, the    *)
(* documents and the indexes of a Model, cached entries, and transactions    *)
(* that are tried again.  The initial state chooses the part that moves, and *)
(* the others stay where they start.                                         *)
EXTENDS RedisLock, ModelVersions, ModelIndexes, DistributedInvalidation,
        TransactionManager, TLC

VARIABLE part

CONSTANT Parts   \* those that a run looks at

CONSTANTS u1, u2, sv, pt, au, ct, st, inc, dl, rs, pg, nw, up, off, p2,  \* calls of a Model
          i1, i2, q1, q2, q3, w1                             \* processes and their work

\* Any three of the calls, most of them on the first document; a patch of the one
\* that is not there at first is of interest when an upsert makes it.
CallKinds ==
  sv :> "save" @@ pt :> "patch" @@ au :> "auto" @@ ct :> "counter" @@ st :> "strict"
  @@ inc :> "increment" @@ dl :> "delete" @@ rs :> "restore" @@ pg :> "purge"
  @@ nw :> "insert" @@ up :> "upsert" @@ off :> "off" @@ p2 :> "patch"
CallTargets == [c \in Calls |-> IF c \in {inc, nw, up, p2} THEN 2 ELSE 1]
ThreeCalls == {S \in SUBSET Calls : Cardinality(S) = 3 /\ (p2 \in S => up \in S)}

Symmetry == Permutations(Users)

IndexOf(n, k, o) == [name |-> n, key |-> k, options |-> o]
SomeIndexes == {IndexOf("a", "x", "unique"), IndexOf("a", "x", "plain"), IndexOf("b", "y", "plain")}
\* A deployment changes the options of one index and drops another.
TwoDeclarations == {{IndexOf("a", "x", "unique"), IndexOf("b", "y", "plain")},
                    {IndexOf("a", "x", "plain")}}

\* One process writes; the other reads twice.
Homes == q1 :> i1 @@ q2 :> i2 @@ q3 :> i2 @@ w1 :> i1

-----------------------------------------------------------------------------
\* A part that does not move stays in one of its initial states.
StateInit ==
  /\ part \in Parts
  /\ Init /\ VersionInit /\ IndexInit /\ SharingInit /\ ManagerInit
  /\ part # "versions" =>
       LET made == CHOOSE S \in Mixes : TRUE IN
       pc = [c \in Calls |-> IF c \in made THEN "idle" ELSE "unmade"]
  /\ part # "indexes" => declared = [r \in Runtimes |-> CHOOSE d \in Declarations : TRUE]
  /\ part # "sharing" => ~shared

Others(p) ==
  /\ IF p = "lock" THEN TRUE ELSE UNCHANGED vars
  /\ IF p = "versions" THEN TRUE ELSE UNCHANGED versionVars
  /\ IF p = "indexes" THEN TRUE ELSE UNCHANGED indexVars
  /\ IF p = "sharing" THEN TRUE ELSE UNCHANGED sharingVars
  /\ IF p = "retries" THEN TRUE ELSE UNCHANGED managerVars

StateNext ==
  /\ \/ part = "lock" /\ Next
     \/ part = "versions" /\ VersionNext
     \/ part = "indexes" /\ IndexNext
     \/ part = "sharing" /\ SharingNext
     \/ part = "retries" /\ ManagerNext
  /\ Others(part) /\ UNCHANGED part

StateSpec == StateInit /\ [][StateNext]_<<part, vars, versionVars, indexVars, sharingVars,
                                          managerVars>>

=============================================================================
