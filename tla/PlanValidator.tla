---------------------------- MODULE PlanValidator ----------------------------
(* PlanValidator.validate_and_sort (agents/plan_validator.py): the checks a  *)
(* planner's plan must pass, then Kahn's algorithm, which cuts the tasks     *)
(* into waves that may run concurrently.  One step per iteration of the      *)
(* while loop.  A plan is a list: ids may repeat, a dependency list may      *)
(* repeat an id or name a task that does not exist.                          *)
EXTENDS Plan

CONSTANTS
  TaskIds,     \* identifiers a plan may use
  MaxSteps,    \* PlanValidator.max_steps
  Plans        \* the plans the planner may hand over

(* What a plan says of an assigned agent and of the required tools is only   *)
(* whether the registries know them and have them enabled.                   *)
Standing == {"enabled", "disabled", "unregistered"}

AgentTask == [id : TaskIds, dependencies : Seq(TaskIds),
              agent : Standing, tools : SUBSET Standing]

ASSUME MaxStepsAssumption == MaxSteps \in Nat

ASSUME PlansAssumption == Plans \subseteq Seq(AgentTask) /\ IsFiniteSet(TaskIds)

VARIABLES
  plan,        \* the argument: a sequence of tasks
  verdict,     \* "checking", "sorting", "accepted", "malformed", "circular"
  deps,        \* task_map: id -> its dependency list
  inDegree,    \* in_degree: id -> dependency entries not yet processed
  waves,       \* the waves emitted so far
  wave,        \* current_wave
  processed    \* processed_count

vars == <<plan, verdict, deps, inDegree, waves, wave, processed>>

Ids == {plan[i].id : i \in DOMAIN plan}

TypeOK ==
  /\ plan \in Plans
  /\ verdict \in {"checking", "sorting", "accepted", "malformed", "circular"}
  /\ DOMAIN deps \subseteq Ids /\ \A t \in DOMAIN deps : deps[t] \in Seq(TaskIds)
  /\ inDegree \in [DOMAIN deps -> Nat]
  /\ waves \in Seq(SUBSET Ids)
  /\ wave \subseteq Ids
  /\ processed \in Nat

-----------------------------------------------------------------------------
(* The checks, in the order of the code; the first that fails raises.        *)

HasDuplicateId == \E i, j \in DOMAIN plan : i # j /\ plan[i].id = plan[j].id

BadDependency(task) ==
  \E i \in DOMAIN task.dependencies :
    task.dependencies[i] = task.id \/ task.dependencies[i] \notin Ids

Unusable(task) == task.agent # "enabled" \/ task.tools \ {"enabled"} # {}

Malformed ==
  \/ plan = <<>>
  \/ Len(plan) > MaxSteps
  \/ HasDuplicateId
  \/ \E i \in DOMAIN plan : BadDependency(plan[i]) \/ Unusable(plan[i])

TaskMap == [t \in Ids |-> plan[CHOOSE i \in DOMAIN plan : plan[i].id = t].dependencies]

(* The entries of t's dependency list that name a task of S.                 *)
Entries(t, S) == {i \in DOMAIN deps[t] : deps[t][i] \in S}

Init ==
  /\ plan \in Plans
  /\ verdict = "checking"
  /\ deps = <<>> /\ inDegree = <<>>
  /\ waves = <<>> /\ wave = {} /\ processed = 0

Reject ==
  /\ verdict = "checking" /\ Malformed
  /\ verdict' = "malformed"
  /\ UNCHANGED <<plan, deps, inDegree, waves, wave, processed>>

(* The in-degree counts list entries, so a dependency named twice counts     *)
(* twice; each entry also adds the task once more to `dependents`.           *)
Prepare ==
  /\ verdict = "checking" /\ ~Malformed
  /\ verdict' = "sorting"
  /\ deps' = TaskMap
  /\ inDegree' = [t \in Ids |-> Len(TaskMap[t])]
  /\ wave' = {t \in Ids : Len(TaskMap[t]) = 0}
  /\ UNCHANGED <<plan, waves, processed>>

(* Three slips in the loop: one entry per distinct predecessor on the way     *)
(* down; a task released by its first dependency; one task per wave.         *)
Mutant_EmitWaveDistinct ==
  /\ verdict = "sorting" /\ wave # {}
  /\ waves' = Append(waves, wave)
  /\ processed' = processed + Cardinality(wave)
  /\ inDegree' = [t \in Ids |->
                    inDegree[t] - Cardinality({deps[t][i] : i \in Entries(t, wave)})]
  /\ wave' = {t \in Ids : Entries(t, wave) # {} /\ inDegree'[t] = 0}
  /\ UNCHANGED <<plan, verdict, deps>>

Mutant_EmitWaveEager ==
  /\ verdict = "sorting" /\ wave # {}
  /\ waves' = Append(waves, wave)
  /\ processed' = processed + Cardinality(wave)
  /\ inDegree' = [t \in Ids |-> inDegree[t] - Cardinality(Entries(t, wave))]
  /\ wave' = {t \in Ids : Entries(t, wave) # {}}
  /\ UNCHANGED <<plan, verdict, deps>>

Mutant_EmitWaveSerial ==
  /\ verdict = "sorting" /\ wave # {}
  /\ LET one == {CHOOSE t \in wave : TRUE} IN
       /\ waves' = Append(waves, one)
       /\ processed' = processed + 1
       /\ inDegree' = [t \in Ids |-> inDegree[t] - Cardinality(Entries(t, one))]
       /\ wave' = (wave \ one)
                    \cup {t \in Ids : Entries(t, one) # {} /\ inDegree'[t] = 0}
  /\ UNCHANGED <<plan, verdict, deps>>

EmitWave ==
  /\ verdict = "sorting" /\ wave # {}
  /\ waves' = Append(waves, wave)
  /\ processed' = processed + Cardinality(wave)
  /\ inDegree' = [t \in Ids |-> inDegree[t] - Cardinality(Entries(t, wave))]
  /\ wave' = {t \in Ids : Entries(t, wave) # {} /\ inDegree'[t] = 0}
  /\ UNCHANGED <<plan, verdict, deps>>

(* A plan with a root is taken for acyclic; a loop that only ends when every *)
(* task has been processed.                                                  *)
Mutant_FinishRooted ==
  /\ verdict = "sorting" /\ wave = {}
  /\ verdict' = IF processed = 0 THEN "circular" ELSE "accepted"
  /\ UNCHANGED <<plan, deps, inDegree, waves, wave, processed>>

Mutant_FinishAll ==
  /\ verdict = "sorting" /\ processed >= Cardinality(Ids)
  /\ verdict' = "accepted"
  /\ UNCHANGED <<plan, deps, inDegree, waves, wave, processed>>

Finish ==
  /\ verdict = "sorting" /\ wave = {}
  /\ verdict' = IF processed < Cardinality(Ids) THEN "circular" ELSE "accepted"
  /\ UNCHANGED <<plan, deps, inDegree, waves, wave, processed>>

Done == verdict \in {"accepted", "malformed", "circular"}

Terminated == Done /\ UNCHANGED vars

Next == Reject \/ Prepare \/ EmitWave \/ Finish \/ Terminated

Spec == Init /\ [][Next]_vars /\ WF_vars(Next)

-----------------------------------------------------------------------------
(* What the plan itself says each task depends on.                           *)
Needs ==
  [t \in Ids |-> UNION {{plan[i].dependencies[j] : j \in DOMAIN plan[i].dependencies} :
                         i \in {k \in DOMAIN plan : plan[k].id = t}}]

(* An accepted plan can be run: its dependencies are its own, its waves hold *)
(* every task exactly once, and each task's dependencies are all in earlier  *)
(* waves, which is all that AgentOrchestrator.run assumes (Plans of          *)
(* Orchestrator) when it runs wave after wave without looking at             *)
(* dependencies again.                                                       *)
AcceptedPlan == [tasks |-> Ids, needs |-> Needs, waves |-> waves]

AcceptedPlanCanBeRun == verdict = "accepted" => IsPlan(AcceptedPlan, TaskIds)

(* No task waits longer than its dependencies make it: a task outside the    *)
(* first wave has a dependency in the wave just before its own.              *)
NoTaskWaitsNeedlessly ==
  \A k \in DOMAIN waves : \A t \in waves[k] :
    k > 1 => Needs[t] \cap waves[k-1] # {}

(* "Circular dependency detected" is only raised for a plan that has one: a  *)
(* set of tasks none of which could ever be first to run.  In particular a   *)
(* repeated entry in a dependency list never gets a good plan refused.       *)
CircularMeansCycle ==
  verdict = "circular" =>
    \E S \in SUBSET Ids : S # {} /\ \A t \in S : Needs[t] \cap S # {}

(* The loop takes at most one round per task, on cyclic plans too.           *)
RoundsAreFew == Len(waves) <= Cardinality(Ids)

(* The verdict and the waves are those the dependencies call for.            *)
VerdictIsRight ==
  AcceptedPlanCanBeRun /\ NoTaskWaitsNeedlessly /\ CircularMeansCycle /\ RoundsAreFew

(* Every plan is accepted or refused: the while loop ends on cyclic plans.   *)
ValidationEnds == <>Done
=============================================================================
