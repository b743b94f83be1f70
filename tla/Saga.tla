--------------------------------- MODULE Saga ---------------------------------
(***************************************************************************)
(* One execution of a saga: its steps in order, each with retries and a    *)
(* timeout, and the compensation of the completed ones in reverse.         *)
(*                                                                         *)
(* A timeout ends the wait and not the step: what the step was doing goes  *)
(* on and may still take effect while the compensation runs or after it.   *)
(***************************************************************************)
EXTENDS Naturals

CONSTANTS Steps,       \* the number of steps
          Retries,     \* retries of each step
          Compensable  \* the steps that define compensate

ASSUME SagaAssumption == /\ Steps \in Nat \ {0} /\ Retries \in [1..Steps -> Nat]
                         /\ Compensable \subseteq 1..Steps

VARIABLES
  sagaAt,    \* where execute() is
  step,      \* the step being executed, or else compensated
  attempt,   \* attempt of that step
  completed, \* completedSteps: the steps 1..completed
  late,      \* the executions that a timeout left running, for each step
  effects,   \* the times each step has taken effect and was not undone
  outcome    \* compensationResults

sagaVars == <<sagaAt, step, attempt, completed, late, effects, outcome>>

SagaTypeOK ==
  /\ sagaAt \in {"execute", "compensate", "success", "failure"}
  /\ step \in 0..Steps /\ attempt \in Nat /\ completed \in 0..Steps
  /\ late \in [1..Steps -> Nat] /\ effects \in [1..Steps -> Nat]
  /\ outcome \in [1..Steps -> {"none", "undone", "failed", "no_compensate"}]

SagaInit == /\ sagaAt = "execute" /\ step = 1 /\ attempt = 0 /\ completed = 0
            /\ late = [s \in 1..Steps |-> 0] /\ effects = [s \in 1..Steps |-> 0]
            /\ outcome = [s \in 1..Steps |-> "none"]

\* A step has failed for good: the last completed one is compensated first.
Compensate == sagaAt' = "compensate" /\ step' = completed /\ UNCHANGED attempt

StepSucceeds ==
  /\ sagaAt = "execute"
  /\ effects' = [effects EXCEPT ![step] = @ + 1] /\ completed' = step
  /\ IF step = Steps THEN sagaAt' = "success" /\ UNCHANGED <<step, attempt>>
     ELSE step' = step + 1 /\ attempt' = 0 /\ UNCHANGED sagaAt
  /\ UNCHANGED <<late, outcome>>

StepRejects ==
  /\ sagaAt = "execute"
  /\ IF attempt >= Retries[step] THEN Compensate
     ELSE attempt' = attempt + 1 /\ UNCHANGED <<sagaAt, step>>
  /\ UNCHANGED <<completed, late, effects, outcome>>

\* Mutated form: a timeout is retried like any other failure.
StepTimesOutRetried ==
  /\ sagaAt = "execute" /\ late' = [late EXCEPT ![step] = @ + 1]
  /\ IF attempt >= Retries[step] THEN Compensate
     ELSE attempt' = attempt + 1 /\ UNCHANGED <<sagaAt, step>>
  /\ UNCHANGED <<completed, effects, outcome>>

\* A timeout is not retried.
StepTimesOut ==
  /\ sagaAt = "execute" /\ late' = [late EXCEPT ![step] = @ + 1]
  /\ Compensate
  /\ UNCHANGED <<completed, effects, outcome>>

\* The execution that was given up ends, with its effect or without.
LateExecution(s) ==
  /\ late[s] > 0 /\ late' = [late EXCEPT ![s] = @ - 1]
  /\ \E took \in {0, 1} : effects' = [effects EXCEPT ![s] = @ + took]
  /\ UNCHANGED <<sagaAt, step, attempt, completed, outcome>>

\* A compensation that fails does not keep the earlier steps from theirs.
CompensateStep ==
  /\ sagaAt = "compensate" /\ step > 0
  /\ \E how \in IF step \in Compensable THEN {"undone", "failed"} ELSE {"no_compensate"} :
       /\ outcome' = [outcome EXCEPT ![step] = how]
       /\ effects' = IF how = "undone" THEN [effects EXCEPT ![step] = @ - 1] ELSE effects
  /\ step' = step - 1
  /\ UNCHANGED <<sagaAt, attempt, completed, late>>

CompensationEnds ==
  /\ sagaAt = "compensate" /\ step = 0 /\ sagaAt' = "failure"
  /\ UNCHANGED <<step, attempt, completed, late, effects, outcome>>

SagaNext == \/ StepSucceeds \/ StepRejects \/ StepTimesOut
            \/ \E s \in 1..Steps : LateExecution(s)
            \/ CompensateStep \/ CompensationEnds

SagaSpec == SagaInit /\ [][SagaNext]_sagaVars

-----------------------------------------------------------------------------
(* Properties.                                                             *)

(* At most one execution of a step is ever under way, so that it takes      *)
(* effect at most once: a step is not executed again while an execution     *)
(* that timed out may still complete.                                       *)
EffectsOnce == \A s \in 1..Steps :
  /\ sagaAt = "execute" /\ step = s => late[s] = 0
  /\ effects[s] + late[s] <= 1

(* When execute() reports a failure, exactly these effects remain: those of *)
(* completed steps that have no compensation or whose compensation failed,  *)
(* and at most that of the one step that timed out.                         *)
FailureAccounted == sagaAt = "failure" => \A s \in 1..Steps :
  /\ s <= completed => effects[s] = IF outcome[s] = "undone" THEN 0 ELSE 1
  /\ s <= completed => (outcome[s] = "no_compensate" <=> s \notin Compensable) /\ outcome[s] # "none"
  /\ s > completed + 1 => effects[s] = 0

(* What a saga has done is what it reports to have done.                    *)
SagaAccounted == SagaTypeOK /\ EffectsOnce /\ FailureAccounted
=============================================================================
