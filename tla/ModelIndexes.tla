------------------------------ MODULE ModelIndexes ------------------------------
(***************************************************************************)
(* The automatic indexes of a model: every use of a model schedules a task *)
(* unless one for the same declared indexes is pending or fulfilled; the   *)
(* task lists the indexes there are, and creates the declared ones it      *)
(* misses, one by one.  Several runtimes do this, perhaps with different   *)
(* declarations, as during a deployment, and models are redefined.         *)
(***************************************************************************)
EXTENDS Naturals, FiniteSets

CONSTANTS Runtimes, Indexes,
          Declarations, \* the sets of indexes a model may be declared with
          MaxFailures,  \* bounds the transient failures of the server
          MaxDropped,   \* bounds the indexes an operator drops
          MaxRedefined  \* bounds how often models are redefined

\* An index has a name, a key and options; no two of one collection have the
\* same name, or the same key.
ASSUME IndexAssumption ==
  /\ {MaxFailures, MaxDropped, MaxRedefined} \subseteq Nat
  /\ \A i \in Indexes : DOMAIN i = {"name", "key", "options"}
  /\ Declarations \subseteq SUBSET Indexes

Clash(i, j) == i # j /\ (i.name = j.name \/ i.key = j.key)

VARIABLES
  declared,  \* the declaration each runtime uses now
  tasks,     \* of each runtime and declaration: none, pending, failed or fulfilled
  at,        \* where its task is
  missing,   \* what it has still to create
  conflicts, \* what it has found to clash
  broken,    \* what it could not create
  server,    \* the indexes of the collection
  failures, dropped, redefined

indexVars == <<declared, tasks, at, missing, conflicts, broken, server, failures, dropped, redefined>>

Tasks == Runtimes \X Declarations

IndexTypeOK ==
  /\ declared \in [Runtimes -> Declarations]
  /\ tasks \in [Tasks -> {"none", "pending", "failed", "fulfilled"}]
  /\ at \in [Tasks -> {"idle", "listing", "creating"}]
  /\ {missing, conflicts, broken} \subseteq [Tasks -> SUBSET Indexes]
  /\ \A t \in Tasks : missing[t] \cup conflicts[t] \cup broken[t] \subseteq t[2]
  /\ server \subseteq Indexes /\ \A i, j \in server : ~Clash(i, j)
  /\ failures \in 0..MaxFailures /\ redefined \in 0..MaxRedefined /\ dropped \subseteq Indexes

IndexInit ==
  /\ declared \in [Runtimes -> Declarations] /\ tasks = [t \in Tasks |-> "none"]
  /\ at = [t \in Tasks |-> "idle"] /\ missing = [t \in Tasks |-> {}]
  /\ conflicts = [t \in Tasks |-> {}] /\ broken = [t \in Tasks |-> {}]
  /\ server = {} /\ failures = 0 /\ dropped = {} /\ redefined = 0

\* Mutated form: a task that has failed is not scheduled again.
SchedulableOnce(t) == tasks[t] = "none"

Schedulable(t) == tasks[t] \in {"none", "failed"}

\* A model instance is created; the task starts with setImmediate.
Use(r) == LET t == <<r, declared[r]>> IN
  /\ Schedulable(t)
  /\ tasks' = [tasks EXCEPT ![t] = "pending"] /\ at' = [at EXCEPT ![t] = "listing"]
  /\ conflicts' = [conflicts EXCEPT ![t] = {}] /\ broken' = [broken EXCEPT ![t] = {}]
  /\ UNCHANGED <<declared, missing, server, failures, dropped, redefined>>

Redefine(r) ==
  /\ redefined < MaxRedefined /\ redefined' = redefined + 1
  /\ \E d \in Declarations : declared' = [declared EXCEPT ![r] = d]
  /\ UNCHANGED <<tasks, at, missing, conflicts, broken, server, failures, dropped>>

\* listIndexes, and what is there already, is in the way or is missing.
Lists(t) ==
  /\ at[t] = "listing" /\ at' = [at EXCEPT ![t] = "creating"]
  /\ LET clashing == {d \in t[2] : \E i \in server : Clash(d, i)} IN
     /\ conflicts' = [conflicts EXCEPT ![t] = clashing]
     /\ missing' = [missing EXCEPT ![t] = t[2] \ (server \cup clashing)]
  /\ UNCHANGED <<declared, tasks, broken, server, failures, dropped, redefined>>

ListFails(t) ==
  /\ at[t] = "listing" /\ failures < MaxFailures /\ failures' = failures + 1
  /\ at' = [at EXCEPT ![t] = "idle"] /\ tasks' = [tasks EXCEPT ![t] = "failed"]
  /\ UNCHANGED <<declared, missing, conflicts, broken, server, dropped, redefined>>

\* createIndex, which the server refuses when another index has come between.
Creates(t) == \E d \in missing[t] :
  /\ at[t] = "creating" /\ missing' = [missing EXCEPT ![t] = @ \ {d}]
  /\ IF \E i \in server : Clash(d, i)
     THEN broken' = [broken EXCEPT ![t] = @ \cup {d}] /\ UNCHANGED <<server, dropped>>
     ELSE server' = server \cup {d} /\ dropped' = dropped \ {d} /\ UNCHANGED broken
  /\ UNCHANGED <<declared, tasks, at, conflicts, failures, redefined>>

CreateFails(t) == \E d \in missing[t] :
  /\ at[t] = "creating" /\ failures < MaxFailures /\ failures' = failures + 1
  /\ missing' = [missing EXCEPT ![t] = @ \ {d}]
  /\ broken' = [broken EXCEPT ![t] = @ \cup {d}]
  /\ UNCHANGED <<declared, tasks, at, conflicts, server, dropped, redefined>>

\* Mutated form: a failure counts as a conflict, which is final.
StatusLenient(t) == "fulfilled"

\* A conflict is reported and final, a failure may be tried again.
Status(t) == IF broken[t] # {} THEN "failed" ELSE "fulfilled"

TaskEnds(t) ==
  /\ at[t] = "creating" /\ missing[t] = {}
  /\ at' = [at EXCEPT ![t] = "idle"] /\ tasks' = [tasks EXCEPT ![t] = Status(t)]
  /\ UNCHANGED <<declared, missing, conflicts, broken, server, failures, dropped, redefined>>

\* An operator drops an index.
Drops ==
  /\ Cardinality(dropped) < MaxDropped
  /\ \E i \in server : server' = server \ {i} /\ dropped' = dropped \cup {i}
  /\ UNCHANGED <<declared, tasks, at, missing, conflicts, broken, failures, redefined>>

TaskStep(t) == Lists(t) \/ ListFails(t) \/ Creates(t) \/ CreateFails(t) \/ TaskEnds(t)

IndexNext ==
  \/ \E r \in Runtimes : Use(r) \/ Redefine(r)
  \/ \E t \in Tasks : TaskStep(t)
  \/ Drops

\* The server answers, and the model of a runtime is used again and again.
IndexFairness == /\ \A t \in Tasks : WF_indexVars(TaskStep(t))
                 /\ \A r \in Runtimes : WF_indexVars(Use(r))

IndexSpec == IndexInit /\ [][IndexNext]_indexVars
IndexFairSpec == IndexSpec /\ IndexFairness

-----------------------------------------------------------------------------
(* Properties.                                                             *)

(* What a fulfilled task does not report as a conflict has been there since *)
(* it ended, unless an operator dropped it: whoever else creates indexes,   *)
(* and whatever failed before.                                              *)
FulfilledIsThere == \A t \in Tasks :
  tasks[t] = "fulfilled" => t[2] \ (conflicts[t] \cup dropped) \subseteq server

(* The indexes a model has ensured stay.                                    *)
IndexesStay == IndexTypeOK /\ FulfilledIsThere

(* A declaration that stays in use ends up fulfilled, however the server    *)
(* failed before and whoever came between.                                  *)
EnsuredAtLast == \A r \in Runtimes, d \in Declarations :
  <>[](declared[r] = d) => <>[](tasks[<<r, d>>] = "fulfilled")
=============================================================================
