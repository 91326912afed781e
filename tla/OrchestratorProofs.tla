-------------------------- MODULE OrchestratorProofs --------------------------
(* Proofs about Orchestrator for every set of tasks, every set of layered    *)
(* plans and every recovery budget.                                          *)
EXTENDS Orchestrator, TLAPS

(* A new run is well formed.                                                 *)
LEMMA FreshRunType == FreshRun \in Run
BY BudgetAssumption DEF FreshRun, Run, AgentState, Verdict, Attempts

(* A saved object is well formed if the run is.                              *)
LEMMA SaveType ==
  ASSUME TypeOK, NEW r \in Run
  PROVE  FileAfterSave(r) \subseteq Run \cup {NoFile, Torn}
BY DEF TypeOK, FileAfterSave

(* What gather returns is put into a well formed run.                        *)
LEMMA CollectedType ==
  ASSUME TypeOK, Settled
  PROVE  Collected \in Run
BY DEF TypeOK, Settled, Collected, Run, Verdict

(* A change of state keeps a run well formed.                                *)
LEMMA StateChangeType ==
  ASSUME NEW r \in Run, NEW s \in AgentState
  PROVE  [r EXCEPT !.state = s] \in Run
BY DEF Run

(* What resume_run loads is a run.                                           *)
LEMMA LoadedType ==
  ASSUME TypeOK, Loadable
  PROVE  Loaded \in Run
BY DEF TypeOK, Loadable, Loaded

(* What recovery does to the run keeps it well formed: the counters stay     *)
(* inside the budgets.                                                       *)
LEMMA RecoveryType ==
  ASSUME TypeOK, NEW t \in Tasks
  PROVE  /\ TaskRetries(t) => run' \in Run
         /\ TaskFails(t) => run' \in Run
<1>1. run.attempts \in Attempts /\ run.retry \in [Tasks -> 0..MaxStepRetries]
  BY DEF TypeOK, Run
<1>2. ~BudgetSpent =>
        /\ run.attempts.retrying + 1 \in 0..MaxAttempts
        /\ run.attempts.replanning + 1 \in 0..MaxAttempts
        /\ run.attempts.aborted + 1 \in 0..MaxAttempts
  BY <1>1, BudgetAssumption DEF BudgetSpent, Total, Attempts
<1>3. ASSUME TaskRetries(t) PROVE run' \in Run
  <2>1. run.retry[t] + 1 \in 0..MaxStepRetries
    BY <1>1, <1>3, BudgetAssumption DEF TaskRetries, CanRetryStep
  <2>2. [run.retry EXCEPT ![t] = @ + 1] \in [Tasks -> 0..MaxStepRetries]
    BY <1>1, <2>1
  <2>3. [run.attempts EXCEPT !.retrying = @ + 1] \in Attempts
    BY <1>1, <1>2, <1>3 DEF TaskRetries, Attempts
  <2>4. run' = [run EXCEPT !.retry = [run.retry EXCEPT ![t] = @ + 1],
                           !.attempts = [run.attempts EXCEPT !.retrying = @ + 1]]
    BY <1>3 DEF TaskRetries, TypeOK, Run
  <2> QED BY <2>2, <2>3, <2>4 DEF TypeOK, Run
<1>4. ASSUME TaskFails(t) PROVE run' \in Run
  <2>1. CASE BudgetSpent
    BY <1>4, <2>1 DEF TaskFails, TypeOK
  <2>2. CASE ~BudgetSpent
    <3>1. /\ [run.attempts EXCEPT !.replanning = @ + 1] \in Attempts
          /\ [run.attempts EXCEPT !.aborted = @ + 1] \in Attempts
      BY <1>1, <1>2, <2>2 DEF Attempts
    <3> QED BY <1>4, <2>2, <3>1 DEF TaskFails, TypeOK, Run
  <2> QED BY <2>1, <2>2
<1> QED BY <1>3, <1>4

(* Every reachable state is well formed.                                     *)
THEOREM TypeCorrect == Spec => []TypeOK
<1>1. Init => TypeOK
  <2> SUFFICES ASSUME Init PROVE TypeOK
    OBVIOUS
  <2>1. run \in Run /\ file \in Run \cup {NoFile, Torn}
    BY FreshRunType DEF Init
  <2>2. task \in [Tasks -> TaskState] /\ execs \in [Tasks -> Nat]
    BY DEF Init, TaskState
  <2> QED BY <2>1, <2>2 DEF Init, TypeOK
<1>2. TypeOK /\ [Next]_vars => TypeOK'
  <2> SUFFICES ASSUME TypeOK, [Next]_vars PROVE TypeOK'
    OBVIOUS
  <2>1. CASE UNCHANGED vars
    BY <2>1 DEF TypeOK, vars, flags
  <2>2. ASSUME Start PROVE TypeOK'
    BY <2>2, StateChangeType DEF Start, TypeOK, AgentState
  <2>3. ASSUME NEW p \in Plans, PlannerReturns(p) PROVE TypeOK'
    <3> DEFINE ready == [run EXCEPT !.plan = p, !.state = "ready"]
    <3>1. ready \in Run
      BY DEF TypeOK, Run, AgentState
    <3>2. [ready EXCEPT !.state = "running"] \in Run
          /\ [ready EXCEPT !.state = "cancelled"] \in Run
      BY <3>1, StateChangeType DEF AgentState
    <3>3. CASE cancelled
      BY <2>3, <3>1, <3>2, <3>3, SaveType DEF PlannerReturns, Announce, TypeOK, flags
    <3>4. CASE ~cancelled
      BY <2>3, <3>1, <3>2, <3>4, SaveType
         DEF PlannerReturns, Save, StartWave, TypeOK, flags, TaskState
    <3> QED BY <3>3, <3>4
  <2>4. ASSUME PlannerFails PROVE TypeOK'
    BY <2>4, StateChangeType, SaveType
       DEF PlannerFails, Announce, Leave, Save, TypeOK, flags, AgentState
  <2>5. ASSUME NEW t \in Tasks, TaskPasses(t) PROVE TypeOK'
    BY <2>5 DEF TaskPasses, TypeOK, flags, TaskState
  <2>6. ASSUME NEW t \in Tasks, TaskRetries(t) PROVE TypeOK'
    <3>1. run' \in Run
      BY <2>6, RecoveryType
    <3>2. execs' \in [Tasks -> Nat]
      BY <2>6 DEF TaskRetries, TypeOK
    <3>3. UNCHANGED <<pc, wave, task, flags, remembered, file, announced, response>>
      BY <2>6 DEF TaskRetries
    <3> QED BY <3>1, <3>2, <3>3 DEF TypeOK, flags
  <2>7. ASSUME NEW t \in Tasks, TaskFails(t) PROVE TypeOK'
    BY <2>7, RecoveryType DEF TaskFails, TypeOK, flags, TaskState
  <2>8. ASSUME NEW t \in Tasks, TaskRaises(t) PROVE TypeOK'
    BY <2>8 DEF TaskRaises, TypeOK, flags, TaskState
  <2>9. ASSUME GatherRaises PROVE TypeOK'
    BY <2>9, StateChangeType, SaveType
       DEF GatherRaises, Announce, Leave, Save, TypeOK, flags, AgentState
  <2>10. ASSUME WaveFails PROVE TypeOK'
    BY <2>10, CollectedType, StateChangeType, SaveType
       DEF WaveFails, Leave, Save, TypeOK, flags, AgentState
  <2>11. ASSUME WaveCancelled PROVE TypeOK'
    BY <2>11, CollectedType, StateChangeType, SaveType
       DEF WaveCancelled, Announce, TypeOK, flags, AgentState
  <2>12. ASSUME NextWave PROVE TypeOK'
    BY <2>12, CollectedType, SaveType
       DEF NextWave, Save, StartWave, TypeOK, flags, TaskState
  <2>13. ASSUME LastWaveDone PROVE TypeOK'
    BY <2>13, CollectedType, StateChangeType, SaveType
       DEF LastWaveDone, Announce, Save, Event, TypeOK, flags, AgentState
  <2>14. ASSUME Respond PROVE TypeOK'
    BY <2>14 DEF Respond, TypeOK, flags, Run
  <2>15. ASSUME CancelRun PROVE TypeOK'
    BY <2>15, StateChangeType, SaveType DEF CancelRun, Save, TypeOK, AgentState
  <2>16. ASSUME PauseRun PROVE TypeOK'
    BY <2>16, StateChangeType, SaveType DEF PauseRun, Save, TypeOK, AgentState
  <2>17. ASSUME ResumeRun PROVE TypeOK'
    BY <2>17, LoadedType, StateChangeType DEF ResumeRun, TypeOK, AgentState
  <2>18. ASSUME CallerGivesUp PROVE TypeOK'
    BY <2>18 DEF CallerGivesUp, TypeOK, flags, TaskState
  <2>19. ASSUME Crash PROVE TypeOK'
    BY <2>19, FreshRunType DEF Crash, TypeOK, TaskState
  <2> QED
    BY <2>1, <2>2, <2>3, <2>4, <2>5, <2>6, <2>7, <2>8, <2>9, <2>10, <2>11, <2>12,
       <2>13, <2>14, <2>15, <2>16, <2>17, <2>18, <2>19
       DEF Next, Planner, TaskStep, Loop, Api
<1> QED BY <1>1, <1>2, PTL DEF Spec

-----------------------------------------------------------------------------
(* What PlansAssumption says of one plan.                                    *)
LEMMA PlanFacts ==
  ASSUME NEW p \in Plans
  PROVE  /\ p # NoPlan
         /\ p.tasks \subseteq Tasks
         /\ Len(p.waves) \in Nat /\ DOMAIN p.waves = 1..Len(p.waves)
         /\ 1 \in DOMAIN p.waves
         /\ \A k \in DOMAIN p.waves : p.waves[k] \subseteq p.tasks
         /\ \A t \in p.tasks : \E k \in DOMAIN p.waves : t \in p.waves[k]
         /\ \A j, k \in DOMAIN p.waves : j # k => p.waves[j] \cap p.waves[k] = {}
         /\ \A k \in DOMAIN p.waves : \A t \in p.waves[k] : \A d \in p.needs[t] :
              \E j \in 1..k-1 : d \in p.waves[j]
<1>1. p.waves \in Seq(SUBSET p.tasks) /\ Layered(p.tasks, p.needs, p.waves)
      /\ p.tasks # {} /\ p.tasks \subseteq Tasks
  BY PlansAssumption DEF IsPlan
<1>2. Len(p.waves) \in Nat /\ DOMAIN p.waves = 1..Len(p.waves)
  BY <1>1
<1>3. PICK t \in p.tasks : TRUE
  BY <1>1
<1>4. PICK k \in DOMAIN p.waves : t \in p.waves[k]
  BY <1>1, <1>3 DEF Layered, Partitions
<1>5. 1 \in DOMAIN p.waves
  BY <1>2, <1>4
<1> QED BY <1>1, <1>2, <1>5, PlansAssumption DEF Layered, Partitions, EarlierWaves

(* How far the run has come, read off the wave index: a started task is in a *)
(* wave up to the current one, the waves before it have passed and their     *)
(* results are taken over, and while run() still loops no other result is.   *)
(* Only a crash leaves a checkpoint file without its run in memory.          *)
WavesInv ==
  /\ pc \in {"idle", "planning"} => wave = 0
  /\ pc = "gather" => wave # 0
  /\ wave # 0 => run.plan \in Plans /\ wave \in DOMAIN run.plan.waves
  /\ \A t \in Tasks : Started(t) => wave # 0 /\ \E k \in 1..wave : t \in run.plan.waves[k]
  /\ wave # 0 => \A k \in 1..wave-1 : \A t \in run.plan.waves[k] :
                   run.verif[t] = "passed" /\ task[t] = "passed"
  /\ pc \in {"idle", "planning", "gather"} =>
       \A t \in Tasks : run.verif[t] # "none" =>
         wave # 0 /\ \E k \in 1..wave-1 : t \in run.plan.waves[k]
  /\ (file \in Run /\ ~remembered) => pc = "dead" /\ wave = 0

(* The tasks of the current wave have no result in the run before gather     *)
(* returns, and those of the next wave have not started.                     *)
LEMMA WaveFacts ==
  ASSUME TypeOK, WavesInv, pc = "gather"
  PROVE  /\ run.plan \in Plans /\ wave \in DOMAIN run.plan.waves /\ wave \in Nat \ {0}
         /\ WaveTasks = run.plan.waves[wave] /\ WaveTasks \subseteq Tasks
         /\ \A t \in WaveTasks : run.verif[t] = "none"
         /\ \A k \in 1..wave-1 : run.plan.waves[k] \cap WaveTasks = {}
         /\ ~LastWave => wave + 1 \in DOMAIN run.plan.waves
         /\ ~LastWave => \A t \in run.plan.waves[wave+1] : task[t] = "idle"
<1>1. run.plan \in Plans /\ wave \in DOMAIN run.plan.waves /\ wave # 0 /\ wave \in Nat
  BY DEF WavesInv, TypeOK
<1>2. WaveTasks = run.plan.waves[wave]
  BY <1>1, PlanFacts DEF WaveTasks
<1>3. WaveTasks \subseteq Tasks
  BY <1>1, <1>2, PlanFacts
<1>4. \A k \in 1..wave-1 : k \in DOMAIN run.plan.waves /\ k # wave
  BY <1>1, PlanFacts
<1>5. \A k \in 1..wave-1 : run.plan.waves[k] \cap WaveTasks = {}
  BY <1>1, <1>2, <1>4, PlanFacts
<1>6. \A t \in WaveTasks : run.verif[t] = "none"
  BY <1>3, <1>5 DEF WavesInv
<1>7. ~LastWave => wave + 1 \in DOMAIN run.plan.waves
  BY <1>1, PlanFacts DEF LastWave
<1>8. ASSUME ~LastWave, NEW t \in run.plan.waves[wave+1] PROVE task[t] = "idle"
  <2>1. t \in Tasks
    BY <1>1, <1>7, <1>8, PlanFacts
  <2>2. \A k \in 1..wave : k \in DOMAIN run.plan.waves /\ k # wave + 1
    BY <1>1, PlanFacts
  <2>3. \A k \in 1..wave : t \notin run.plan.waves[k]
    BY <1>1, <1>7, <1>8, <2>2, PlanFacts
  <2> QED BY <2>1, <2>3 DEF WavesInv, Started
<1> QED BY <1>1, <1>2, <1>3, <1>5, <1>6, <1>7, <1>8

(* The steps that touch neither the plan and the results, nor the loop's     *)
(* place, and at most move a started task on that is not known to be passed. *)
LEMMA WavesInvTask ==
  ASSUME TypeOK, WavesInv, NEW t \in Tasks, task[t] = "executing",
         run'.plan = run.plan, run'.verif = run.verif,
         UNCHANGED <<pc, wave, file, remembered>>,
         NEW s \in TaskState, s # "idle", task' = [task EXCEPT ![t] = s]
  PROVE  WavesInv'
<1>1. \A u \in Tasks : Started(u)' <=> Started(u)
  BY DEF Started, TypeOK
<1>2. \A u \in Tasks : task[u] = "passed" => task'[u] = "passed"
  BY DEF TypeOK
<1>3. wave # 0 => \A k \in 1..wave-1 : run.plan.waves[k] \subseteq Tasks
  <2> SUFFICES ASSUME wave # 0, NEW k \in 1..wave-1
               PROVE  run.plan.waves[k] \subseteq Tasks
    OBVIOUS
  <2>1. run.plan \in Plans /\ wave \in DOMAIN run.plan.waves /\ wave \in Nat
    BY DEF WavesInv, TypeOK
  <2>2. k \in DOMAIN run.plan.waves
    BY <2>1, PlanFacts
  <2> QED BY <2>1, <2>2, PlanFacts
<1> QED BY <1>1, <1>2, <1>3 DEF WavesInv

(* Steps that only change the state field, the checkpoint and the flags.     *)
LEMMA WavesInvApi ==
  ASSUME TypeOK, WavesInv, run'.plan = run.plan, run'.verif = run.verif,
         UNCHANGED <<pc, wave, task>>, remembered'
  PROVE  WavesInv'
BY DEF WavesInv, Started

(* Leaving the loop for good: results may have been taken over for the       *)
(* current wave, nothing else moves.                                         *)
LEMMA WavesInvLeave ==
  ASSUME TypeOK, WavesInv, run'.plan = run.plan,
         \A t \in Tasks \ WaveTasks : run'.verif[t] = run.verif[t],
         pc = "gather", pc' = "synthesizing", UNCHANGED <<wave, task>>, remembered'
  PROVE  WavesInv'
<1>1. \A k \in 1..wave-1 : run.plan.waves[k] \subseteq Tasks \ WaveTasks
  <2> SUFFICES ASSUME NEW k \in 1..wave-1
               PROVE  run.plan.waves[k] \subseteq Tasks \ WaveTasks
    OBVIOUS
  <2>1. k \in DOMAIN run.plan.waves
    BY WaveFacts, PlanFacts
  <2> QED BY <2>1, WaveFacts, PlanFacts
<1> QED BY <1>1, WaveFacts DEF WavesInv, Started

(* Collecting the results of a wave changes them only.                       *)
LEMMA CollectedFacts ==
  ASSUME TypeOK, WavesInv, pc = "gather"
  PROVE  /\ Collected.plan = run.plan /\ Collected.state = run.state
         /\ Collected.retry = run.retry /\ Collected.attempts = run.attempts
         /\ \A t \in Tasks : Collected.verif[t] = IF t \in WaveTasks THEN task[t]
                                                  ELSE run.verif[t]
BY DEF Collected, TypeOK, Run

(* The current wave has passed and the next one starts.                      *)
LEMMA WavesInvNextWave ==
  ASSUME TypeOK, WavesInv, NextWave
  PROVE  WavesInv'
<1>1. pc = "gather" /\ ~LastWave /\ AllPassed
  BY DEF NextWave
<1>2. /\ run.plan \in Plans /\ wave \in Nat \ {0} /\ wave \in DOMAIN run.plan.waves
      /\ wave + 1 \in DOMAIN run.plan.waves
      /\ WaveTasks = run.plan.waves[wave] /\ WaveTasks \subseteq Tasks
      /\ \A t \in run.plan.waves[wave+1] : task[t] = "idle"
  BY <1>1, WaveFacts
<1>3. /\ wave' = wave + 1 /\ pc' = "gather" /\ remembered'
      /\ run'.plan = run.plan
      /\ \A t \in Tasks : run'.verif[t] = IF t \in WaveTasks THEN task[t] ELSE run.verif[t]
      /\ \A t \in Tasks : task'[t] = IF t \in run.plan.waves[wave+1] THEN "executing"
                                      ELSE task[t]
  BY <1>1, CollectedFacts DEF NextWave, StartWave, Save
<1>4. \A t \in WaveTasks : task[t] = "passed" /\ task'[t] = "passed" /\ run'.verif[t] = "passed"
  BY <1>1, <1>2, <1>3 DEF AllPassed
<1>5. \A k \in 1..wave : k \in DOMAIN run.plan.waves /\ run.plan.waves[k] \subseteq Tasks
  BY <1>2, PlanFacts
<1>6. \A t \in Tasks : Started(t)' => \E k \in 1..wave' : t \in run.plan.waves[k]
  <2> SUFFICES ASSUME NEW t \in Tasks, Started(t)'
               PROVE  \E k \in 1..wave+1 : t \in run.plan.waves[k]
    BY <1>3
  <2>1. CASE t \in run.plan.waves[wave+1]
    BY <2>1, <1>2
  <2>2. CASE t \notin run.plan.waves[wave+1]
    <3>1. Started(t)
      BY <2>2, <1>3 DEF Started
    <3>2. PICK k \in 1..wave : t \in run.plan.waves[k]
      BY <3>1 DEF WavesInv
    <3> QED BY <3>2, <1>2
  <2> QED BY <2>1, <2>2
<1>7. ASSUME NEW k \in 1..wave, NEW t \in run.plan.waves[k]
      PROVE  run'.verif[t] = "passed" /\ task'[t] = "passed"
  <2>1. CASE k = wave
    BY <2>1, <1>2, <1>4, <1>7
  <2>2. CASE k # wave
    <3>1. k \in 1..wave-1 /\ t \in Tasks
      BY <2>2, <1>2, <1>5
    <3>2. run.verif[t] = "passed" /\ task[t] = "passed"
      BY <3>1, <1>2 DEF WavesInv
    <3>3. t \notin WaveTasks
      BY <3>1, <1>1, WaveFacts
    <3> QED BY <3>1, <3>2, <3>3, <1>2, <1>3
  <2> QED BY <2>1, <2>2
<1>8. \A t \in Tasks : run'.verif[t] # "none" => \E k \in 1..wave : t \in run.plan.waves[k]
  <2> SUFFICES ASSUME NEW t \in Tasks, run'.verif[t] # "none"
               PROVE  \E k \in 1..wave : t \in run.plan.waves[k]
    OBVIOUS
  <2>1. CASE t \in WaveTasks
    BY <2>1, <1>2
  <2>2. CASE t \notin WaveTasks
    <3>1. PICK k \in 1..wave-1 : t \in run.plan.waves[k]
      BY <2>2, <1>1, <1>3 DEF WavesInv
    <3> QED BY <3>1, <1>2
  <2> QED BY <2>1, <2>2
<1>9. wave' - 1 = wave /\ wave' # 0 /\ wave' \in DOMAIN run'.plan.waves /\ run'.plan \in Plans
  BY <1>2, <1>3
<1> QED
  BY <1>3, <1>6, <1>7, <1>8, <1>9 DEF WavesInv

(* The waves before the current one are verified, those after it untouched   *)
(* (the loop of orchestrator.py), for every layered plan.                    *)
THEOREM WavesInvariant == Spec => []WavesInv
<1>1. Init => WavesInv
  BY NullAssumption DEF Init, WavesInv, FreshRun, Started
<1>2. TypeOK /\ WavesInv /\ [Next]_vars => WavesInv'
  <2> SUFFICES ASSUME TypeOK, WavesInv, [Next]_vars PROVE WavesInv'
    OBVIOUS
  <2>1. CASE UNCHANGED vars
    BY <2>1 DEF vars, WavesInv, Started
  <2>2. ASSUME Start PROVE WavesInv'
    BY <2>2 DEF Start, WavesInv, Started, TypeOK, Run
  <2>3. ASSUME NEW p \in Plans, PlannerReturns(p) PROVE WavesInv'
    <3>1. wave = 0 /\ (\A t \in Tasks : task[t] = "idle" /\ run.verif[t] = "none")
      BY <2>3 DEF PlannerReturns, WavesInv, Started
    <3>2. run'.plan = p /\ run'.verif = run.verif /\ remembered'
      BY <2>3 DEF PlannerReturns, Save, TypeOK, Run
    <3>3. CASE cancelled
      BY <2>3, <3>1, <3>2, <3>3 DEF PlannerReturns, WavesInv, Started
    <3>4. CASE ~cancelled
      <4>1. wave' = 1 /\ pc' = "gather"
            /\ \A t \in Tasks : Started(t)' => t \in p.waves[1]
        BY <2>3, <3>1, <3>4 DEF PlannerReturns, StartWave, Started
      <4>2. 1 \in DOMAIN p.waves
        BY PlanFacts
      <4> QED BY <3>1, <3>2, <4>1, <4>2 DEF WavesInv
    <3> QED BY <3>3, <3>4
  <2>4. ASSUME PlannerFails PROVE WavesInv'
    BY <2>4 DEF PlannerFails, Leave, Save, WavesInv, Started, TypeOK, Run
  <2>5. ASSUME NEW t \in Tasks, TaskPasses(t) PROVE WavesInv'
    BY <2>5, WavesInvTask DEF TaskPasses, TaskState
  <2>6. ASSUME NEW t \in Tasks, TaskRetries(t) PROVE WavesInv'
    <3>1. run'.plan = run.plan /\ run'.verif = run.verif
      BY <2>6 DEF TaskRetries, TypeOK, Run
    <3> QED BY <2>6, <3>1 DEF TaskRetries, WavesInv, Started
  <2>7. ASSUME NEW t \in Tasks, TaskFails(t) PROVE WavesInv'
    <3>1. run'.plan = run.plan /\ run'.verif = run.verif
      BY <2>7 DEF TaskFails, TypeOK, Run
    <3> QED BY <2>7, <3>1, WavesInvTask DEF TaskFails, TaskState
  <2>8. ASSUME NEW t \in Tasks, TaskRaises(t) PROVE WavesInv'
    BY <2>8, WavesInvTask DEF TaskRaises, TaskState
  <2>9. ASSUME GatherRaises PROVE WavesInv'
    <3>1. run'.plan = run.plan /\ run'.verif = run.verif /\ remembered'
      BY <2>9 DEF GatherRaises, Leave, Save, TypeOK, Run
    <3> QED BY <2>9, <3>1, WavesInvLeave DEF GatherRaises, Leave
  <2>10. ASSUME WaveFails PROVE WavesInv'
    <3>1. pc = "gather" /\ pc' = "synthesizing" /\ UNCHANGED <<wave, task>> /\ remembered'
      BY <2>10 DEF WaveFails, Leave, Save
    <3>2. run'.plan = Collected.plan /\ run'.verif = Collected.verif
      BY <2>10, CollectedType DEF WaveFails, Leave, Run
    <3> QED BY <3>1, <3>2, CollectedFacts, WavesInvLeave
  <2>11. ASSUME WaveCancelled PROVE WavesInv'
    <3>1. pc = "gather" /\ pc' = "synthesizing" /\ UNCHANGED <<wave, task>> /\ remembered'
      BY <2>11 DEF WaveCancelled
    <3>2. run'.plan = Collected.plan /\ run'.verif = Collected.verif
      BY <2>11, CollectedType DEF WaveCancelled, Run
    <3> QED BY <3>1, <3>2, CollectedFacts, WavesInvLeave
  <2>12. ASSUME NextWave PROVE WavesInv'
    BY <2>12, WavesInvNextWave
  <2>13. ASSUME LastWaveDone PROVE WavesInv'
    <3>1. pc = "gather" /\ pc' = "synthesizing" /\ UNCHANGED <<wave, task>> /\ remembered'
      BY <2>13 DEF LastWaveDone, Save
    <3>2. run'.plan = Collected.plan /\ run'.verif = Collected.verif
      BY <2>13, CollectedType DEF LastWaveDone, Run
    <3> QED BY <3>1, <3>2, CollectedFacts, WavesInvLeave
  <2>14. ASSUME Respond PROVE WavesInv'
    BY <2>14 DEF Respond, WavesInv, Started
  <2>15. ASSUME CancelRun PROVE WavesInv'
    <3>1. CASE active
      <4>1. run'.plan = run.plan /\ run'.verif = run.verif
        BY <2>15, <3>1 DEF CancelRun, TypeOK, Run
      <4> QED BY <2>15, <3>1, <4>1, WavesInvApi DEF CancelRun, Save
    <3>2. CASE ~active
      BY <2>15, <3>2 DEF CancelRun, WavesInv, Started
    <3> QED BY <3>1, <3>2
  <2>16. ASSUME PauseRun PROVE WavesInv'
    <3>1. run'.plan = run.plan /\ run'.verif = run.verif
      BY <2>16 DEF PauseRun, TypeOK, Run
    <3> QED BY <2>16, <3>1, WavesInvApi DEF PauseRun, Save
  <2>17. ASSUME ResumeRun PROVE WavesInv'
    <3>1. CASE remembered
      <4>1. run'.plan = run.plan /\ run'.verif = run.verif
        BY <2>17, <3>1 DEF ResumeRun, Loaded, TypeOK, Run
      <4> QED BY <2>17, <4>1, WavesInvApi DEF ResumeRun
    <3>2. CASE ~remembered
      BY <2>17, <3>2 DEF ResumeRun, Loadable, WavesInv, Started
    <3> QED BY <3>1, <3>2
  <2>18. ASSUME CallerGivesUp PROVE WavesInv'
    <3>1. \A t \in Tasks : (Started(t)' <=> Started(t))
                           /\ (task[t] = "passed" => task'[t] = "passed")
      BY <2>18 DEF CallerGivesUp, Started, TypeOK
    <3>2. wave # 0 => \A k \in 1..wave-1 : run.plan.waves[k] \subseteq Tasks
      BY PlanFacts DEF WavesInv, TypeOK
    <3>3. pc # "idle" /\ pc' = "dead" /\ UNCHANGED <<run, wave, file, remembered>>
      BY <2>18 DEF CallerGivesUp
    <3> QED BY <3>1, <3>2, <3>3 DEF WavesInv
  <2>19. ASSUME Crash PROVE WavesInv'
    BY <2>19 DEF Crash, WavesInv, Started, FreshRun
  <2> QED
    BY <2>1, <2>2, <2>3, <2>4, <2>5, <2>6, <2>7, <2>8, <2>9, <2>10, <2>11, <2>12,
       <2>13, <2>14, <2>15, <2>16, <2>17, <2>18, <2>19
       DEF Next, Planner, TaskStep, Loop, Api
<1> QED BY <1>1, <1>2, TypeCorrect, PTL DEF Spec

-----------------------------------------------------------------------------
(* No task is handed to its agent before all its dependencies are verified.  *)
THEOREM DependenciesFirstHolds == Spec => []DependenciesFirst
<1>1. TypeOK /\ WavesInv => DependenciesFirst
  <2> SUFFICES ASSUME TypeOK, WavesInv, NEW t \in Tasks, Started(t)
               PROVE  /\ run.plan # NoPlan /\ t \in run.plan.tasks
                      /\ \A d \in run.plan.needs[t] : run.verif[d] = "passed"
    BY DEF DependenciesFirst
  <2>1. run.plan \in Plans /\ wave \in DOMAIN run.plan.waves /\ wave \in Nat
    BY DEF WavesInv, TypeOK
  <2>2. PICK k \in 1..wave : t \in run.plan.waves[k]
    BY DEF WavesInv
  <2>3. k \in DOMAIN run.plan.waves /\ k \in Nat
    BY <2>1, PlanFacts
  <2>4. ASSUME NEW d \in run.plan.needs[t] PROVE run.verif[d] = "passed"
    <3>1. PICK j \in 1..k-1 : d \in run.plan.waves[j]
      BY <2>1, <2>2, <2>3, PlanFacts
    <3>2. j \in 1..wave-1 /\ wave # 0
      BY <2>1
    <3> QED BY <3>1, <3>2 DEF WavesInv
  <2> QED BY <2>1, <2>2, <2>3, <2>4, PlanFacts
<1> QED BY <1>1, TypeCorrect, WavesInvariant, PTL

(* Between cancel_run and resume_run no further task is handed out.          *)
THEOREM NothingStartsAfterCancelHolds == Spec => NothingStartsAfterCancel
<1> DEFINE Quiet == (cancelled /\ cancelled') =>
                      \A t \in Tasks : task[t] = "idle" => task'[t] = "idle"
<1>1. TypeOK /\ [Next]_vars => [Quiet]_vars
  <2> SUFFICES ASSUME TypeOK, [Next]_vars, cancelled, cancelled', vars' # vars,
                      NEW t \in Tasks, task[t] = "idle"
               PROVE  task'[t] = "idle"
    OBVIOUS
  <2>1. CASE UNCHANGED task
    BY <2>1
  <2>2. CASE \E u \in Tasks : TaskStep(u)
    BY <2>2 DEF TaskStep, TaskPasses, TaskRetries, TaskFails, TaskRaises, TypeOK
  <2>3. CASE Planner
    BY <2>3 DEF Planner, PlannerReturns, PlannerFails, Leave
  <2>4. CASE Loop
    BY <2>4 DEF Loop, GatherRaises, WaveFails, WaveCancelled, NextWave, LastWaveDone,
                Respond, Leave
  <2>5. CASE Api
    BY <2>5 DEF Api, CancelRun, PauseRun, ResumeRun
  <2>6. CASE CallerGivesUp \/ Crash \/ Start
    BY <2>6 DEF CallerGivesUp, Crash, Start, TypeOK
  <2> QED BY <2>2, <2>3, <2>4, <2>5, <2>6 DEF Next
<1> QED BY <1>1, TypeCorrect, PTL DEF Spec, NothingStartsAfterCancel

(* The budgets of a run object, in memory or read back from a file; and the  *)
(* executions of a task that was started since the last crash are one more   *)
(* than its recorded retries.                                                *)
Bounded(r) == Total(r.attempts) <= MaxAttempts /\ r.attempts.replanning <= MaxReplans

RecoveryInv ==
  /\ Bounded(run) /\ (file \in Run => Bounded(file))
  /\ \A t \in Tasks : Started(t) => execs[t] = 1 + run.retry[t]
  /\ pc # "dead" => \A t \in Tasks : ~Started(t) => execs[t] = 0 /\ run.retry[t] = 0
  /\ \A t \in Tasks : execs[t] <= 1 + MaxStepRetries

(* Saving keeps the file within the bound.                                   *)
LEMMA RecoveryInvSave ==
  ASSUME NEW r, Bounded(r), file \in Run => Bounded(file), file' \in FileAfterSave(r)
  PROVE  file' \in Run => Bounded(file')
BY NullAssumption DEF FileAfterSave

(* Steps that leave the counters alone and start or end no task.             *)
LEMMA RecoveryInvSame ==
  ASSUME RecoveryInv, run'.attempts = run.attempts, run'.retry = run.retry,
         \A t \in Tasks : Started(t)' <=> Started(t), execs' = execs,
         pc' # "dead" => pc # "dead", file' \in Run => Bounded(file')
  PROVE  RecoveryInv'
BY DEF RecoveryInv, Bounded

(* A retry and a last failure are counted as they are made.                  *)
LEMMA RecoveryInvTask ==
  ASSUME TypeOK, RecoveryInv, NEW t \in Tasks, TaskRetries(t) \/ TaskFails(t)
  PROVE  RecoveryInv'
<1>1. /\ run.attempts \in Attempts /\ run.retry \in [Tasks -> 0..MaxStepRetries]
      /\ execs \in [Tasks -> Nat]
  BY DEF TypeOK, Run
<1>2. UNCHANGED <<pc, file>> /\ Started(t) /\ \A u \in Tasks : Started(u)' <=> Started(u)
  BY DEF TaskRetries, TaskFails, Started, TypeOK
<1>3. CASE TaskRetries(t)
  <2>1. /\ run'.attempts = [run.attempts EXCEPT !.retrying = @ + 1]
        /\ run'.retry = [run.retry EXCEPT ![t] = @ + 1]
        /\ execs' = [execs EXCEPT ![t] = @ + 1]
        /\ ~BudgetSpent /\ run.retry[t] < MaxStepRetries
    BY <1>3 DEF TaskRetries, CanRetryStep, TypeOK, Run
  <2>2. Bounded(run)'
    BY <1>1, <2>1, BudgetAssumption DEF RecoveryInv, Bounded, BudgetSpent, Total, Attempts
  <2>3. \A u \in Tasks : execs'[u] <= 1 + MaxStepRetries
    BY <1>1, <1>2, <2>1, BudgetAssumption DEF RecoveryInv
  <2> QED BY <1>1, <1>2, <2>1, <2>2, <2>3 DEF RecoveryInv
<1>4. CASE TaskFails(t)
  <2>1. run'.retry = run.retry /\ execs' = execs
    BY <1>4 DEF TaskFails, TypeOK, Run
  <2>2. CASE BudgetSpent
    BY <1>2, <1>4, <2>1, <2>2 DEF TaskFails, RecoveryInv
  <2>3. CASE ~BudgetSpent
    <3>1. run'.attempts = IF CanReplan THEN [run.attempts EXCEPT !.replanning = @ + 1]
                                       ELSE [run.attempts EXCEPT !.aborted = @ + 1]
      BY <1>4, <2>3 DEF TaskFails, TypeOK, Run
    <3>2. Bounded(run)'
      BY <1>1, <2>3, <3>1, BudgetAssumption
         DEF RecoveryInv, Bounded, BudgetSpent, CanReplan, Total, Attempts
    <3> QED BY <1>2, <2>1, <3>2 DEF RecoveryInv
  <2> QED BY <2>2, <2>3
<1> QED BY <1>3, <1>4

(* A wave of a plan starts: its tasks were idle and have no retries yet.     *)
LEMMA RecoveryInvStartWave ==
  ASSUME TypeOK, RecoveryInv, pc # "dead", NEW p \in Plans, NEW k \in DOMAIN p.waves,
         \A t \in p.waves[k] : task[t] = "idle",
         run'.attempts = run.attempts, run'.retry = run.retry,
         StartWave(p, k), file' \in Run => Bounded(file')
  PROVE  RecoveryInv'
<1>1. \A t \in Tasks : t \in p.waves[k] => execs[t] = 0 /\ run.retry[t] = 0
  BY DEF RecoveryInv, Started
<1>2. \A t \in Tasks : Started(t)' <=> (Started(t) \/ t \in p.waves[k])
  BY DEF StartWave, Started
<1>3. \A t \in Tasks : execs'[t] = IF t \in p.waves[k] THEN 1 ELSE execs[t]
  BY <1>1 DEF StartWave, TypeOK
<1> QED BY <1>1, <1>2, <1>3, BudgetAssumption DEF RecoveryInv, Bounded

(* What recovery hands out again it has counted before (recovery.py),        *)
(* whatever the budgets.                                                     *)
THEOREM RecoveryInvariant == Spec => []RecoveryInv
<1>1. Init => RecoveryInv
  BY BudgetAssumption, NullAssumption
     DEF Init, RecoveryInv, Bounded, Total, FreshRun, Started
<1>2. TypeOK /\ WavesInv /\ RecoveryInv /\ [Next]_vars => RecoveryInv'
  <2> SUFFICES ASSUME TypeOK, WavesInv, RecoveryInv, [Next]_vars PROVE RecoveryInv'
    OBVIOUS
  <2>0. Bounded(run) /\ (file \in Run => Bounded(file))
    BY DEF RecoveryInv
  <2>1. CASE UNCHANGED vars
    BY <2>1 DEF vars, RecoveryInv, Started
  <2>2. ASSUME Start PROVE RecoveryInv'
    BY <2>0, <2>2, RecoveryInvSame DEF Start, Started, TypeOK, Run
  <2>3. ASSUME NEW p \in Plans, PlannerReturns(p) PROVE RecoveryInv'
    <3> DEFINE ready == [run EXCEPT !.plan = p, !.state = "ready"]
    <3>1. /\ ready.attempts = run.attempts /\ ready.retry = run.retry
          /\ run'.attempts = run.attempts /\ run'.retry = run.retry
      BY <2>3 DEF PlannerReturns, TypeOK, Run
    <3>2. Bounded(ready) /\ Bounded(run')
      BY <2>0, <3>1 DEF Bounded
    <3>3. file' \in Run => Bounded(file')
      BY <2>0, <2>3, <3>2, RecoveryInvSave DEF PlannerReturns, Save
    <3>4. CASE cancelled
      BY <2>3, <3>1, <3>3, <3>4, RecoveryInvSame DEF PlannerReturns, Started
    <3>5. CASE ~cancelled
      <4>1. pc # "dead" /\ StartWave(p, 1)
        BY <2>3, <3>5 DEF PlannerReturns
      <4>2. 1 \in DOMAIN p.waves /\ p.waves[1] \subseteq Tasks
        BY PlanFacts
      <4>3. \A t \in p.waves[1] : task[t] = "idle"
        BY <2>3, <4>2 DEF PlannerReturns, WavesInv, Started
      <4> QED BY <3>1, <3>3, <4>1, <4>2, <4>3, RecoveryInvStartWave
    <3> QED BY <3>4, <3>5
  <2>4. ASSUME PlannerFails PROVE RecoveryInv'
    <3>1. run'.attempts = run.attempts /\ run'.retry = run.retry
      BY <2>4 DEF PlannerFails, Leave, TypeOK, Run
    <3>2. file' \in Run => Bounded(file')
      BY <2>0, <2>4, <3>1, RecoveryInvSave DEF PlannerFails, Leave, Save, Bounded
    <3> QED BY <2>4, <3>1, <3>2, RecoveryInvSame DEF PlannerFails, Leave, Started
  <2>5. ASSUME NEW t \in Tasks, TaskPasses(t) \/ TaskRaises(t) PROVE RecoveryInv'
    BY <2>0, <2>5, RecoveryInvSame DEF TaskPasses, TaskRaises, Started, TypeOK
  <2>6. ASSUME NEW t \in Tasks, TaskRetries(t) \/ TaskFails(t) PROVE RecoveryInv'
    BY <2>6, RecoveryInvTask
  <2>7. ASSUME GatherRaises PROVE RecoveryInv'
    <3>1. run'.attempts = run.attempts /\ run'.retry = run.retry
      BY <2>7 DEF GatherRaises, Leave, TypeOK, Run
    <3>2. file' \in Run => Bounded(file')
      BY <2>0, <2>7, <3>1, RecoveryInvSave DEF GatherRaises, Leave, Save, Bounded
    <3> QED BY <2>7, <3>1, <3>2, RecoveryInvSame DEF GatherRaises, Leave, Started
  <2>8. ASSUME WaveFails \/ WaveCancelled \/ LastWaveDone PROVE RecoveryInv'
    <3>1. pc = "gather" /\ Settled
      BY <2>8 DEF WaveFails, WaveCancelled, LastWaveDone
    <3>2. Collected.attempts = run.attempts /\ Collected.retry = run.retry
      BY <3>1, CollectedFacts
    <3>3. run'.attempts = run.attempts /\ run'.retry = run.retry
      BY <2>8, <3>1, <3>2, CollectedType
         DEF WaveFails, WaveCancelled, LastWaveDone, Leave, Run
    <3>4. Bounded(Collected) /\ Bounded(run')
      BY <2>0, <3>2, <3>3 DEF Bounded
    <3>5. file' \in FileAfterSave(Collected) \/ file' \in FileAfterSave(run')
      BY <2>8 DEF WaveFails, WaveCancelled, LastWaveDone, Leave, Save
    <3>6. file' \in Run => Bounded(file')
      BY <2>0, <3>4, <3>5, RecoveryInvSave
    <3>7. pc' = "synthesizing" /\ UNCHANGED <<task, execs>>
      BY <2>8 DEF WaveFails, WaveCancelled, LastWaveDone, Leave
    <3> QED BY <3>1, <3>3, <3>6, <3>7, RecoveryInvSame DEF Started
  <2>9. ASSUME NextWave PROVE RecoveryInv'
    <3>1. pc = "gather" /\ ~LastWave /\ run' = Collected /\ Save(Collected)
          /\ StartWave(run.plan, wave + 1)
      BY <2>9 DEF NextWave
    <3>2. run'.attempts = run.attempts /\ run'.retry = run.retry
      BY <3>1, CollectedFacts
    <3>3. file' \in Run => Bounded(file')
      BY <2>0, <3>1, <3>2, RecoveryInvSave DEF Save, Bounded
    <3>4. /\ run.plan \in Plans /\ wave + 1 \in DOMAIN run.plan.waves
          /\ \A t \in run.plan.waves[wave+1] : task[t] = "idle"
      BY <3>1, WaveFacts
    <3> QED BY <3>1, <3>2, <3>3, <3>4, RecoveryInvStartWave
  <2>10. ASSUME Respond PROVE RecoveryInv'
    BY <2>0, <2>10, RecoveryInvSame DEF Respond, Started
  <2>11. ASSUME CancelRun \/ PauseRun PROVE RecoveryInv'
    <3>1. run'.attempts = run.attempts /\ run'.retry = run.retry
      BY <2>11 DEF CancelRun, PauseRun, TypeOK, Run
    <3>2. file' \in Run => Bounded(file')
      BY <2>0, <2>11, <3>1, RecoveryInvSave DEF CancelRun, PauseRun, Save, Bounded
    <3> QED BY <2>11, <3>1, <3>2, RecoveryInvSame DEF CancelRun, PauseRun, Started
  <2>12. ASSUME ResumeRun PROVE RecoveryInv'
    <3>1. CASE remembered
      <4>1. run'.attempts = run.attempts /\ run'.retry = run.retry
        BY <2>12, <3>1 DEF ResumeRun, Loaded, TypeOK, Run
      <4> QED BY <2>0, <2>12, <4>1, RecoveryInvSame DEF ResumeRun, Started
    <3>2. CASE ~remembered
      <4>1. file \in Run /\ pc = "dead" /\ wave = 0
        BY <2>12, <3>2 DEF ResumeRun, Loadable, WavesInv
      <4>2. run'.attempts = file.attempts
        BY <2>12, <3>2, <4>1 DEF ResumeRun, Loaded, Run
      <4>3. \A t \in Tasks : ~Started(t)
        BY <4>1 DEF WavesInv
      <4> QED BY <2>0, <2>12, <4>1, <4>2, <4>3
              DEF ResumeRun, RecoveryInv, Bounded, Started
    <3> QED BY <3>1, <3>2
  <2>13. ASSUME CallerGivesUp PROVE RecoveryInv'
    <3>1. \A t \in Tasks : Started(t)' <=> Started(t)
      BY <2>13 DEF CallerGivesUp, Started, TypeOK
    <3> QED BY <2>0, <2>13, <3>1, RecoveryInvSame DEF CallerGivesUp
  <2>14. ASSUME Crash PROVE RecoveryInv'
    BY <2>0, <2>14, BudgetAssumption
       DEF Crash, RecoveryInv, Bounded, Total, FreshRun, Started
  <2> QED
    BY <2>1, <2>2, <2>3, <2>4, <2>5, <2>6, <2>7, <2>8, <2>9, <2>10, <2>11, <2>12,
       <2>13, <2>14
       DEF Next, Planner, TaskStep, Loop, Api
<1> QED BY <1>1, <1>2, TypeCorrect, WavesInvariant, PTL DEF Spec

(* Recovery never overdraws a budget, and no task is handed out more than    *)
(* 1 + max_step_retries times.                                               *)
THEOREM RecoveryBoundedHolds == Spec => []RecoveryBounded
<1>1. RecoveryInv => RecoveryBounded
  BY DEF RecoveryInv, RecoveryBounded, Bounded
<1> QED BY <1>1, RecoveryInvariant, PTL

-----------------------------------------------------------------------------
(* A run that was verified and none of whose tasks is executing.             *)
Finished(r, ts) == AllVerified(r) /\ \A t \in Tasks : ts[t] # "executing"

(* A run that says completed, or was announced so, is over and was verified; *)
(* nothing was announced while run() still loops, and what was is what the   *)
(* state says, but for later lifecycle calls, until the response is out.     *)
OutcomeInv ==
  /\ run.state = "completed" =>
       pc \in {"synthesizing", "returned", "dead"} /\ Finished(run, task)
  /\ "agent.completed" \in announced /\ wave # 0 => Finished(run, task)
  /\ file \in Run => (file.state = "completed" => AllVerified(file))
  /\ pc \in {"idle", "planning", "gather"} => announced = {} /\ response = NoResponse
  /\ pc = "synthesizing" => \A e \in announced : Agrees(e, run.state)
  /\ \A e, f \in announced : e = f
  /\ response # NoResponse => \A e \in announced : Agrees(e, response)

(* Saving puts no claim on file that the run does not make.                  *)
LEMMA OutcomeInvSave ==
  ASSUME OutcomeInv, NEW r, r.state = "completed" => AllVerified(r),
         file' \in FileAfterSave(r)
  PROVE  file' \in Run => (file'.state = "completed" => AllVerified(file'))
BY NullAssumption DEF FileAfterSave, OutcomeInv

(* Steps that keep the results and announce nothing new, into a state that   *)
(* does not say completed and agrees with what was announced.                *)
LEMMA OutcomeInvOther ==
  ASSUME OutcomeInv, run'.state # "completed", UNCHANGED <<announced, response>>,
         "agent.completed" \in announced /\ wave' # 0 =>
           /\ wave # 0 /\ run'.plan = run.plan /\ run'.verif = run.verif
           /\ \A t \in Tasks : task'[t] = "executing" => task[t] = "executing",
         pc' \in {"idle", "planning", "gather"} => pc \in {"idle", "planning", "gather"},
         pc' = "synthesizing" => /\ pc = "synthesizing"
                                 /\ run'.state \in {run.state, "cancelled", "paused", "running"},
         file' \in Run => (file'.state = "completed" => AllVerified(file'))
  PROVE  OutcomeInv'
<1>1. "agent.completed" \in announced' /\ wave' # 0 => Finished(run', task')
  BY DEF OutcomeInv, Finished, AllVerified
<1>2. pc' = "synthesizing" => \A e \in announced' : Agrees(e, run'.state)
  BY DEF OutcomeInv, Agrees
<1> QED BY <1>1, <1>2 DEF OutcomeInv

(* Steps of run()'s loop that leave it with one event, or none.              *)
LEMMA OutcomeInvLeave ==
  ASSUME OutcomeInv, pc \in {"planning", "gather"}, pc' = "synthesizing",
         UNCHANGED response, NEW e, announced' \subseteq {e}, Agrees(e, run'.state),
         run'.state = "completed" \/ e = "agent.completed" => Finished(run', task'),
         file' \in Run => (file'.state = "completed" => AllVerified(file'))
  PROVE  OutcomeInv'
<1>1. response = NoResponse
  BY DEF OutcomeInv
<1> QED BY <1>1 DEF OutcomeInv

(* When the last wave has passed, no coroutine of a task is still executing. *)
LEMMA LastWaveQuiet ==
  ASSUME TypeOK, WavesInv, pc = "gather", AllPassed, LastWave, NEW t \in Tasks
  PROVE  task[t] # "executing"
<1>1. /\ run.plan \in Plans /\ wave \in Nat \ {0}
      /\ WaveTasks = run.plan.waves[wave]
  BY WaveFacts
<1>2. CASE ~Started(t)
  BY <1>2 DEF Started
<1>3. CASE Started(t)
  <2>1. PICK k \in 1..wave : t \in run.plan.waves[k]
    BY <1>3 DEF WavesInv
  <2>2. CASE k = wave
    BY <1>1, <2>1, <2>2 DEF AllPassed
  <2>3. CASE k # wave
    <3>1. k \in 1..wave-1 /\ wave # 0
      BY <1>1, <2>1, <2>3
    <3> QED BY <2>1, <3>1 DEF WavesInv
  <2> QED BY <2>2, <2>3
<1> QED BY <1>2, <1>3

(* Completion is claimed, in memory, on file and in events, behind the last  *)
(* wave only (orchestrator.py, checkpoint.py).                               *)
THEOREM OutcomeInvariant == Spec => []OutcomeInv
<1>1. Init => OutcomeInv
  BY NullAssumption DEF Init, OutcomeInv, FreshRun, AgentState
<1>2. TypeOK /\ WavesInv /\ OutcomeInv /\ [Next]_vars => OutcomeInv'
  <2> SUFFICES ASSUME TypeOK, WavesInv, OutcomeInv, [Next]_vars PROVE OutcomeInv'
    OBVIOUS
  <2>0. pc \in {"idle", "planning", "gather"} =>
          run.state # "completed" /\ announced = {} /\ response = NoResponse
    BY DEF OutcomeInv
  <2>1. CASE UNCHANGED vars
    BY <2>1 DEF vars, OutcomeInv, Finished, AllVerified
  <2>2. ASSUME Start PROVE OutcomeInv'
    BY <2>2, OutcomeInvOther DEF Start, TypeOK, Run, OutcomeInv
  <2>3. ASSUME NEW p \in Plans, PlannerReturns(p) PROVE OutcomeInv'
    <3> DEFINE ready == [run EXCEPT !.plan = p, !.state = "ready"]
    <3>1. ready.state = "ready" /\ run'.state \in {"running", "cancelled"}
      BY <2>3 DEF PlannerReturns, TypeOK, Run
    <3>2. file' \in Run => (file'.state = "completed" => AllVerified(file'))
      BY <2>3, <3>1, OutcomeInvSave DEF PlannerReturns, Save
    <3>3. CASE cancelled
      <4>1. announced' \subseteq {"agent.cancelled"} /\ run'.state = "cancelled"
        BY <2>0, <2>3, <3>3 DEF PlannerReturns, Announce, TypeOK, Run
      <4>2. Agrees("agent.cancelled", run'.state)
        BY <4>1 DEF Agrees
      <4> QED BY <2>3, <3>1, <3>2, <3>3, <4>1, <4>2, OutcomeInvLeave DEF PlannerReturns
    <3>4. CASE ~cancelled
      <4>1. announced = {} /\ pc' = "gather" /\ pc = "planning" /\ UNCHANGED <<announced, response>>
        BY <2>0, <2>3, <3>4 DEF PlannerReturns, StartWave
      <4> QED BY <3>1, <3>2, <4>1, OutcomeInvOther
    <3> QED BY <3>3, <3>4
  <2>4. ASSUME PlannerFails \/ GatherRaises PROVE OutcomeInv'
    <3>1. run'.state = "failed" /\ file' \in FileAfterSave(run')
      BY <2>4 DEF PlannerFails, GatherRaises, Leave, Save, TypeOK, Run
    <3>2. file' \in Run => (file'.state = "completed" => AllVerified(file'))
      BY <3>1, OutcomeInvSave
    <3>3. announced' \subseteq {"agent.failed"}
      BY <2>0, <2>4 DEF PlannerFails, GatherRaises, Announce
    <3>4. Agrees("agent.failed", run'.state)
      BY <3>1 DEF Agrees
    <3> QED BY <2>4, <3>1, <3>2, <3>3, <3>4, OutcomeInvLeave DEF PlannerFails, GatherRaises, Leave
  <2>5. ASSUME NEW t \in Tasks, TaskStep(t) PROVE OutcomeInv'
    <3>1. run.state # "completed"
      BY <2>5 DEF TaskStep, TaskPasses, TaskRetries, TaskFails, TaskRaises, OutcomeInv,
                  Finished
    <3>2. run'.state = run.state /\ run'.plan = run.plan /\ run'.verif = run.verif
      BY <2>5 DEF TaskStep, TaskPasses, TaskRetries, TaskFails, TaskRaises, TypeOK, Run
    <3>3. \A u \in Tasks : task'[u] = "executing" => task[u] = "executing"
      BY <2>5 DEF TaskStep, TaskPasses, TaskRetries, TaskFails, TaskRaises, TypeOK
    <3>4. UNCHANGED <<pc, wave, file, announced, response>>
      BY <2>5 DEF TaskStep, TaskPasses, TaskRetries, TaskFails, TaskRaises
    <3>5. file' \in Run => (file'.state = "completed" => AllVerified(file'))
      BY <3>4 DEF OutcomeInv, AllVerified
    <3> QED BY <3>1, <3>2, <3>3, <3>4, <3>5, OutcomeInvOther
  <2>6. ASSUME WaveFails PROVE OutcomeInv'
    <3>1. pc = "gather" /\ Settled
      BY <2>6 DEF WaveFails
    <3>2. run'.state = "failed" /\ file' \in FileAfterSave(run')
      BY <2>6, <3>1, CollectedType DEF WaveFails, Leave, Save, Run
    <3>3. file' \in Run => (file'.state = "completed" => AllVerified(file'))
      BY <3>2, OutcomeInvSave
    <3>4. announced' \subseteq {"agent.failed"}
      BY <2>0, <2>6 DEF WaveFails
    <3>5. Agrees("agent.failed", run'.state)
      BY <3>2 DEF Agrees
    <3> QED BY <2>6, <3>2, <3>3, <3>4, <3>5, OutcomeInvLeave DEF WaveFails, Leave
  <2>7. ASSUME WaveCancelled PROVE OutcomeInv'
    <3>1. pc = "gather" /\ Settled
      BY <2>7 DEF WaveCancelled
    <3>2. run'.state = "cancelled" /\ Collected.state # "completed"
      BY <2>0, <2>7, <3>1, CollectedType, CollectedFacts DEF WaveCancelled, Run
    <3>3. file' \in FileAfterSave(Collected) \/ file' \in FileAfterSave(run')
      BY <2>7 DEF WaveCancelled
    <3>4. file' \in Run => (file'.state = "completed" => AllVerified(file'))
      BY <3>2, <3>3, OutcomeInvSave
    <3>5. announced' \subseteq {"agent.cancelled"}
      BY <2>0, <2>7 DEF WaveCancelled, Announce
    <3>6. Agrees("agent.cancelled", run'.state)
      BY <3>2 DEF Agrees
    <3> QED BY <2>7, <3>2, <3>4, <3>5, <3>6, OutcomeInvLeave DEF WaveCancelled
  <2>8. ASSUME NextWave PROVE OutcomeInv'
    <3>1. pc = "gather" /\ run' = Collected /\ pc' = "gather" /\ file' \in FileAfterSave(Collected)
      BY <2>8 DEF NextWave, StartWave, Save
    <3>2. run'.state # "completed" /\ Collected.state # "completed"
      BY <2>0, <3>1, CollectedFacts
    <3>3. file' \in Run => (file'.state = "completed" => AllVerified(file'))
      BY <3>1, <3>2, OutcomeInvSave
    <3>4. announced = {} /\ UNCHANGED <<announced, response>>
      BY <2>0, <2>8, <3>1 DEF NextWave
    <3> QED BY <3>1, <3>2, <3>3, <3>4, OutcomeInvOther
  <2>9. ASSUME LastWaveDone PROVE OutcomeInv'
    <3>1. pc = "gather" /\ Settled /\ AllPassed /\ LastWave /\ pc' = "synthesizing"
          /\ UNCHANGED <<task, response>>
      BY <2>9 DEF LastWaveDone
    <3>2. Collected \in Run /\ Collected.state = run.state /\ run.state # "completed"
      BY <2>0, <3>1, CollectedType, CollectedFacts
    <3>3. CASE run.state = "cancelled"
      <4>1. run' = Collected /\ announced' = announced /\ file' \in FileAfterSave(Collected)
        BY <2>9, <3>3 DEF LastWaveDone, Save
      <4>2. file' \in Run => (file'.state = "completed" => AllVerified(file'))
        BY <3>2, <4>1, OutcomeInvSave
      <4>3. announced' \subseteq {"agent.cancelled"} /\ Agrees("agent.cancelled", run'.state)
        BY <2>0, <3>1, <3>2, <3>3, <4>1 DEF Agrees
      <4> QED BY <3>1, <3>2, <3>3, <4>1, <4>2, <4>3, OutcomeInvLeave
    <3>4. CASE run.state # "cancelled"
      <4> DEFINE end == IF PlanVerified(Collected) THEN "completed" ELSE "failed"
      <4>1. /\ run' = [Collected EXCEPT !.state = end]
            /\ announced' \subseteq {Event(end)}
            /\ file' \in FileAfterSave(Collected) \/ file' \in FileAfterSave(run')
        BY <2>0, <2>9, <3>1, <3>4 DEF LastWaveDone, Announce
      <4>2. /\ run'.state = end /\ run'.plan = Collected.plan
            /\ run'.verif = Collected.verif
        BY <3>2, <4>1 DEF Run
      <4>3. Collected.plan # NoPlan
        BY <3>1, WaveFacts, PlanFacts, CollectedFacts
      <4>4. run'.state = "completed" => AllVerified(run')
        BY <4>2, <4>3 DEF PlanVerified, AllVerified
      <4>5. /\ Agrees(Event(end), run'.state)
            /\ Event(end) = "agent.completed" => run'.state = "completed"
        BY <4>2 DEF Event, Agrees
      <4>6. file' \in Run => (file'.state = "completed" => AllVerified(file'))
        BY <3>2, <4>1, <4>4, OutcomeInvSave
      <4>7. \A t \in Tasks : task'[t] # "executing"
        BY <3>1, LastWaveQuiet
      <4>8. run'.state = "completed" => Finished(run', task')
        BY <4>4, <4>7 DEF Finished
      <4> HIDE DEF end
      <4> QED BY <3>1, <4>1, <4>5, <4>6, <4>8, OutcomeInvLeave
    <3> QED BY <3>3, <3>4
  <2>10. ASSUME Respond PROVE OutcomeInv'
    BY <2>10 DEF Respond, OutcomeInv, Finished, AllVerified, flags
  <2>11. ASSUME CancelRun \/ PauseRun PROVE OutcomeInv'
    <3>1. CASE UNCHANGED <<run, file>>
      BY <2>11, <3>1 DEF CancelRun, PauseRun, OutcomeInv, Finished, AllVerified
    <3>2. CASE ~UNCHANGED <<run, file>>
      <4>1. /\ run'.state \in {"cancelled", "paused"} /\ file' \in FileAfterSave(run')
            /\ run'.plan = run.plan /\ run'.verif = run.verif
            /\ UNCHANGED <<pc, wave, task, announced, response>>
        BY <2>11, <3>2 DEF CancelRun, PauseRun, Save, TypeOK, Run
      <4>2. file' \in Run => (file'.state = "completed" => AllVerified(file'))
        BY <4>1, OutcomeInvSave
      <4> QED BY <4>1, <4>2, OutcomeInvOther
    <3> QED BY <3>1, <3>2
  <2>12. ASSUME ResumeRun PROVE OutcomeInv'
    <3>1. run'.state = "running" /\ UNCHANGED <<pc, wave, task, file, announced, response>>
      BY <2>12, LoadedType DEF ResumeRun, Run
    <3>2. wave # 0 => run'.plan = run.plan /\ run'.verif = run.verif
      BY <2>12, LoadedType DEF ResumeRun, Loadable, Loaded, WavesInv, TypeOK, Run
    <3>3. file' \in Run => (file'.state = "completed" => AllVerified(file'))
      BY <3>1 DEF OutcomeInv, AllVerified
    <3> QED BY <3>1, <3>2, <3>3, OutcomeInvOther
  <2>13. ASSUME CallerGivesUp PROVE OutcomeInv'
    <3>1. /\ pc' = "dead" /\ UNCHANGED <<run, wave, file, announced, response>>
          /\ \A t \in Tasks : task'[t] = "executing" => task[t] = "executing"
      BY <2>13 DEF CallerGivesUp, TypeOK
    <3> QED BY <3>1 DEF OutcomeInv, Finished, AllVerified
  <2>14. ASSUME Crash PROVE OutcomeInv'
    <3>1. /\ pc' = "dead" /\ wave' = 0 /\ run'.state = "idle"
          /\ UNCHANGED <<file, announced, response>>
      BY <2>14 DEF Crash, FreshRun
    <3> QED BY <3>1 DEF OutcomeInv, AllVerified
  <2> QED
    BY <2>1, <2>2, <2>3, <2>4, <2>5, <2>6, <2>7, <2>8, <2>9, <2>10, <2>11, <2>12,
       <2>13, <2>14
       DEF Next, Planner, Loop, Api
<1> QED BY <1>1, <1>2, TypeCorrect, WavesInvariant, PTL DEF Spec

(* Completed, in memory, in the file or in the event, means verified.        *)
THEOREM CompletedMeansVerifiedHolds == Spec => []CompletedMeansVerified
<1>1. OutcomeInv => CompletedMeansVerified
  BY DEF OutcomeInv, Finished, CompletedMeansVerified
<1> QED BY <1>1, OutcomeInvariant, PTL

(* At most one verdict is announced, and the response agrees with it.        *)
THEOREM OneVerdictAnnouncedHolds == Spec => []OneVerdictAnnounced
<1>1. OutcomeInv => OneVerdictAnnounced
  BY DEF OutcomeInv, OneVerdictAnnounced
<1> QED BY <1>1, OutcomeInvariant, PTL

-----------------------------------------------------------------------------
(* r is no further than s.                                                   *)
Behind(r, s) ==
  /\ \A t \in Tasks : r.verif[t] \in {"none", s.verif[t]}
  /\ \A t \in Tasks : r.retry[t] <= s.retry[t]
  /\ Total(r.attempts) <= Total(s.attempts)

(* A file without its run in memory is one that a crash left, and then no    *)
(* lifecycle call finds the run active.                                      *)
FileInv ==
  /\ (file \in Run /\ remembered) => Behind(file, run)
  /\ (file \in Run /\ ~remembered) => ~active

(* Counters are natural numbers.                                             *)
LEMMA RunNumbers ==
  ASSUME NEW r \in Run
  PROVE  /\ Total(r.attempts) \in Nat
         /\ \A t \in Tasks : r.retry[t] \in Nat /\ r.verif[t] \in Verdict
BY BudgetAssumption DEF Run, Attempts, Total

(* A run is behind one that agrees with it in all that counts.               *)
LEMMA BehindSame ==
  ASSUME NEW r \in Run, NEW s, s.verif = r.verif, s.retry = r.retry,
         s.attempts = r.attempts
  PROVE  Behind(r, s)
BY RunNumbers DEF Behind

(* A run in memory only grows: nothing is taken back from the results, the   *)
(* retries and the attempts, so an older file stays behind it.               *)
LEMMA FileInvGrow ==
  ASSUME TypeOK, FileInv, run' \in Run, Behind(run, run'),
         \/ UNCHANGED <<file, remembered, active>>
         \/ /\ remembered \/ active \/ file \notin Run
            /\ remembered'
            /\ \E r : Behind(r, run') /\ file' \in FileAfterSave(r)
  PROVE  FileInv'
<1>1. file \in Run /\ remembered => Behind(file, run')
  <2> SUFFICES ASSUME file \in Run, remembered PROVE Behind(file, run')
    OBVIOUS
  <2>1. Behind(file, run) /\ run \in Run
    BY DEF FileInv, TypeOK
  <2> QED BY <2>1, RunNumbers DEF Behind
<1>2. CASE UNCHANGED <<file, remembered, active>>
  BY <1>1, <1>2 DEF FileInv
<1>3. CASE /\ remembered \/ active \/ file \notin Run
           /\ remembered'
           /\ \E r : Behind(r, run') /\ file' \in FileAfterSave(r)
  <2>1. file \in Run => remembered
    BY <1>3 DEF FileInv
  <2>2. PICK r : Behind(r, run') /\ file' \in FileAfterSave(r)
    BY <1>3
  <2>3. CASE file' = file
    BY <1>1, <1>3, <2>1, <2>3 DEF FileInv
  <2>4. CASE file' # file
    BY <1>3, <2>2, <2>4, NullAssumption DEF FileInv, FileAfterSave
  <2> QED BY <2>3, <2>4
<1> QED BY <1>2, <1>3

(* The results that run() takes over were not in the run before.             *)
LEMMA CollectedGrows ==
  ASSUME TypeOK, WavesInv, pc = "gather", Settled
  PROVE  Behind(run, Collected)
<1>1. \A t \in WaveTasks : run.verif[t] = "none"
  BY WaveFacts
<1> QED BY <1>1, CollectedFacts, RunNumbers DEF Behind, TypeOK

(* While run() loops, a file that can be read has its run in memory.         *)
LEMMA LoopRemembers ==
  ASSUME WavesInv, pc # "dead"
  PROVE  remembered \/ active \/ file \notin Run
BY DEF WavesInv

(* A file that can be read is behind its run (checkpoint.py), wherever a     *)
(* save is broken off.                                                       *)
THEOREM FileInvariant == Spec => []FileInv
<1>1. Init => FileInv
  BY NullAssumption DEF Init, FileInv
<1>2. TypeOK /\ TypeOK' /\ WavesInv /\ FileInv /\ [Next]_vars => FileInv'
  <2> SUFFICES ASSUME TypeOK, TypeOK', WavesInv, FileInv, [Next]_vars PROVE FileInv'
    OBVIOUS
  <2>0. run \in Run /\ run' \in Run
    BY DEF TypeOK
  <2>1. CASE UNCHANGED vars
    BY <2>1 DEF vars, flags, FileInv
  <2>2. ASSUME Start PROVE FileInv'
    <3>1. file \notin Run \/ remembered
      BY <2>2 DEF Start, WavesInv
    <3>2. run'.verif = run.verif /\ run'.retry = run.retry /\ run'.attempts = run.attempts
      BY <2>2 DEF Start, TypeOK, Run
    <3> QED BY <2>2, <3>1, <3>2 DEF Start, FileInv, Behind
  <2>3. ASSUME NEW p \in Plans, PlannerReturns(p) PROVE FileInv'
    <3> DEFINE ready == [run EXCEPT !.plan = p, !.state = "ready"]
    <3>1. /\ run'.verif = run.verif /\ run'.retry = run.retry /\ run'.attempts = run.attempts
          /\ ready.verif = run.verif /\ ready.retry = run.retry /\ ready.attempts = run.attempts
      BY <2>3 DEF PlannerReturns, TypeOK, Run
    <3>2. Behind(run, run') /\ Behind(run', run') /\ Behind(ready, run')
      BY <2>0, <3>1, BehindSame, RunNumbers DEF Behind
    <3>3. remembered' /\ pc # "dead"
          /\ (file' \in FileAfterSave(ready) \/ file' \in FileAfterSave(run'))
      BY <2>3 DEF PlannerReturns, Save
    <3> QED BY <2>0, <3>2, <3>3, LoopRemembers, FileInvGrow
  <2>4. ASSUME PlannerFails \/ GatherRaises PROVE FileInv'
    <3>1. run'.verif = run.verif /\ run'.retry = run.retry /\ run'.attempts = run.attempts
      BY <2>4 DEF PlannerFails, GatherRaises, Leave, TypeOK, Run
    <3>2. Behind(run, run') /\ Behind(run', run')
      BY <2>0, <3>1, BehindSame
    <3>3. remembered' /\ pc # "dead" /\ file' \in FileAfterSave(run')
      BY <2>4 DEF PlannerFails, GatherRaises, Leave, Save
    <3> QED BY <2>0, <3>2, <3>3, LoopRemembers, FileInvGrow
  <2>5. ASSUME NEW t \in Tasks, TaskStep(t) PROVE FileInv'
    <3>1. UNCHANGED <<file, remembered, active>>
      BY <2>5 DEF TaskStep, TaskPasses, TaskRetries, TaskFails, TaskRaises, flags
    <3>2. Behind(run, run')
      <4>1. CASE TaskRetries(t)
        BY <2>0, <4>1, RunNumbers DEF TaskRetries, Behind, Total, Run, Attempts
      <4>2. CASE TaskFails(t)
        BY <2>0, <4>2, RunNumbers DEF TaskFails, Behind, Total, Run, Attempts
      <4>3. CASE TaskPasses(t) \/ TaskRaises(t)
        BY <2>0, <4>3, BehindSame DEF TaskPasses, TaskRaises
      <4> QED BY <2>5, <4>1, <4>2, <4>3 DEF TaskStep
    <3> QED BY <2>0, <3>1, <3>2, FileInvGrow
  <2>6. ASSUME WaveFails \/ WaveCancelled \/ LastWaveDone \/ NextWave PROVE FileInv'
    <3>1. pc = "gather" /\ Settled /\ remembered'
      BY <2>6 DEF WaveFails, WaveCancelled, LastWaveDone, NextWave, Leave, Save
    <3>2. Collected \in Run /\ Behind(run, Collected)
      BY <3>1, CollectedType, CollectedGrows
    <3>3. /\ run'.verif = Collected.verif /\ run'.retry = Collected.retry
          /\ run'.attempts = Collected.attempts
      BY <2>6, <3>2 DEF WaveFails, WaveCancelled, LastWaveDone, NextWave, Leave, Run
    <3>4. Behind(run, run') /\ Behind(Collected, run') /\ Behind(run', run')
      BY <2>0, <3>2, <3>3, BehindSame DEF Behind
    <3>5. file' \in FileAfterSave(Collected) \/ file' \in FileAfterSave(run')
      BY <2>6 DEF WaveFails, WaveCancelled, LastWaveDone, NextWave, Leave, Save
    <3> QED BY <2>0, <3>1, <3>4, <3>5, LoopRemembers, FileInvGrow
  <2>7. ASSUME Respond \/ CallerGivesUp PROVE FileInv'
    BY <2>7 DEF Respond, CallerGivesUp, flags, FileInv
  <2>8. ASSUME CancelRun \/ PauseRun PROVE FileInv'
    <3>1. CASE ~active
      BY <2>8, <3>1 DEF CancelRun, PauseRun, FileInv
    <3>2. CASE active
      <4>1. run'.verif = run.verif /\ run'.retry = run.retry /\ run'.attempts = run.attempts
        BY <2>8, <3>2 DEF CancelRun, PauseRun, TypeOK, Run
      <4>2. Behind(run, run') /\ Behind(run', run')
        BY <2>0, <4>1, BehindSame
      <4>3. remembered' /\ file' \in FileAfterSave(run')
        BY <2>8, <3>2 DEF CancelRun, PauseRun, Save
      <4> QED BY <2>0, <3>2, <4>2, <4>3, FileInvGrow
    <3> QED BY <3>1, <3>2
  <2>9. ASSUME ResumeRun PROVE FileInv'
    <3>1. Loaded \in Run
      BY <2>9, LoadedType DEF ResumeRun
    <3>2. /\ run'.verif = Loaded.verif /\ run'.retry = Loaded.retry
          /\ run'.attempts = Loaded.attempts /\ remembered' /\ file' = file
      BY <2>9, <3>1 DEF ResumeRun, Run
    <3>3. CASE remembered
      <4>1. Loaded = run
        BY <3>3 DEF Loaded
      <4> QED BY <3>2, <3>3, <4>1 DEF FileInv, Behind
    <3>4. CASE ~remembered
      <4>1. Loaded = file /\ file \in Run
        BY <2>9, <3>4 DEF ResumeRun, Loaded, Loadable
      <4> QED BY <3>2, <4>1, BehindSame DEF FileInv
    <3> QED BY <3>3, <3>4
  <2>10. ASSUME Crash PROVE FileInv'
    BY <2>10 DEF Crash, FileInv
  <2> QED
    BY <2>1, <2>2, <2>3, <2>4, <2>5, <2>6, <2>7, <2>8, <2>9, <2>10
       DEF Next, Planner, Loop, Api
<1>3. Spec => []TypeOK /\ []WavesInv
  BY TypeCorrect, WavesInvariant, PTL
<1> QED BY <1>1, <1>2, <1>3, PTL DEF Spec

(* The checkpoint file is never ahead of the run in memory.                  *)
THEOREM FileBehindRunHolds == Spec => []FileBehindRun
<1>1. FileInv => FileBehindRun
  BY DEF FileInv, FileBehindRun, Behind
<1> QED BY <1>1, FileInvariant, PTL

-----------------------------------------------------------------------------
(* What was started or verified, in memory or on file, was handed out; and   *)
(* before the plan is made, and after a crash until a checkpoint is loaded,  *)
(* there is no plan.                                                         *)
HandedInv ==
  /\ \A t \in Tasks : Started(t) \/ run.verif[t] = "passed" => execs[t] > 0
  /\ file \in Run => \A t \in Tasks : file.verif[t] = "passed" => execs[t] > 0
  /\ ~remembered \/ pc \in {"idle", "planning"} => run.plan = NoPlan

(* Steps that only add to it.                                                *)
LEMMA HandedGrows ==
  ASSUME HandedInv,
         \A t \in Tasks : execs[t] > 0 => execs'[t] > 0,
         \A t \in Tasks : Started(t)' => Started(t) \/ execs'[t] > 0,
         \A t \in Tasks : run'.verif[t] = "passed" => run.verif[t] = "passed" \/ execs[t] > 0,
         file' \in Run => file' = file \/ file'.verif = run'.verif,
         ~remembered' \/ pc' \in {"idle", "planning"} => run'.plan = NoPlan
  PROVE  HandedInv'
BY DEF HandedInv

(* What a save leaves on file is a checkpoint of the run, or none.           *)
LEMMA SaveIsCheckpoint ==
  ASSUME NEW r \in Run, r.plan = run'.plan, r.verif = run'.verif, file' \in FileAfterSave(r)
  PROVE  /\ Promise!Checkpoint
         /\ file' \in Run => file' = file \/ file'.verif = run'.verif
<1> DEFINE Shown(f) == {[plan |-> g.plan, verified |-> Verified(g)] : g \in {f} \cap Run}
<1>1. CASE file' = r
  <2>1. Verified(r) = Verified(run')
    BY DEF Verified
  <2>2. Shown(r) = {[plan |-> run'.plan, verified |-> Verified(run')]}
    BY <2>1
  <2>3. Shown(file)' = {[plan |-> run'.plan, verified |-> Verified(run')]}
    BY <1>1, <2>2
  <2>4. Promise!Now' = [plan |-> run'.plan, verified |-> Verified(run')]
    BY DEF Promise!Now, Verified
  <2> QED BY <1>1, <2>3, <2>4 DEF Promise!Checkpoint
<1>2. CASE file' = Torn
  <2>1. Shown(Torn) = {}
    BY NullAssumption
  <2> QED BY <1>2, <2>1, NullAssumption DEF Promise!Checkpoint
<1>3. CASE file' = file
  BY <1>3 DEF Promise!Checkpoint
<1> QED BY <1>1, <1>2, <1>3 DEF FileAfterSave

(* A step of work, as its caller may expect it.                              *)
LEMMA WorkIsPromised ==
  ASSUME pc \notin {"returned", "dead"}, pc' \notin {"returned", "dead"},
         run'.plan = run.plan \/ (run.plan = NoPlan /\ run'.plan \in Plans),
         \A t \in Tasks : run.verif[t] = "passed" => run'.verif[t] = "passed",
         \A t \in Tasks : run'.verif[t] = "passed" => execs[t] > 0,
         \A t \in Tasks : execs[t] > 0 => execs'[t] > 0,
         \A t \in Tasks : execs[t] > 0 \/ ~(execs'[t] > 0) \/
           /\ ~cancelled /\ run'.plan # NoPlan /\ t \in run'.plan.tasks
           /\ \A d \in run'.plan.needs[t] : d \in Tasks /\ run'.verif[d] = "passed",
         Promise!Checkpoint, UNCHANGED <<cancelled, response>>
  PROVE  Promise!Next
<1> DEFINE handed == {t \in Tasks : execs[t] > 0}
<1>1. Verified(run) \subseteq Verified(run)' /\ Verified(run)' \subseteq handed
  BY DEF Verified
<1>2. handed \subseteq handed'
  OBVIOUS
<1>3. \A t \in handed' \ handed :
        /\ ~cancelled /\ run'.plan # NoPlan
        /\ t \in run'.plan.tasks /\ run'.plan.needs[t] \subseteq Verified(run)'
  BY DEF Verified
<1>4. UNCHANGED <<cancelled, response, pc \in {"returned", "dead"}>>
  OBVIOUS
<1> HIDE DEF handed
<1>5. Promise!Work
  BY <1>1, <1>2, <1>3, <1>4 DEF Promise!Work, handed
<1> QED BY <1>5 DEF Promise!Next

(* The calls of the API change the flag and the file, not what was done.     *)
LEMMA HoldIsPromised ==
  ASSUME TypeOK', run'.plan = run.plan, run'.verif = run.verif, Promise!Checkpoint,
         UNCHANGED <<pc, execs, response>>
  PROVE  Promise!Next
<1>1. cancelled' \in BOOLEAN
  BY DEF TypeOK
<1>2. UNCHANGED <<run.plan, {t \in Tasks : execs[t] > 0}, Verified(run), response,
                  pc \in {"returned", "dead"}>>
  BY DEF Verified
<1>3. Promise!Hold
  BY <1>1, <1>2 DEF Promise!Hold
<1> QED BY <1>3 DEF Promise!Next

(* What a wave adds is handed out in time: its tasks are of the plan, and    *)
(* what they depend on is verified.                                          *)
LEMMA WaveIsDue ==
  ASSUME NEW p \in Plans, NEW k \in DOMAIN p.waves, NEW verif,
         \A j \in 1..k-1 : \A t \in p.waves[j] : verif[t] = "passed",
         NEW t \in p.waves[k]
  PROVE  /\ p # NoPlan /\ t \in p.tasks
         /\ \A d \in p.needs[t] : d \in Tasks /\ verif[d] = "passed"
<1>1. t \in p.tasks /\ p # NoPlan
  BY PlanFacts
<1>2. ASSUME NEW d \in p.needs[t] PROVE d \in Tasks /\ verif[d] = "passed"
  <2>1. PICK j \in 1..k-1 : d \in p.waves[j]
    BY PlanFacts
  <2>2. j \in DOMAIN p.waves
    BY PlanFacts
  <2>3. d \in Tasks
    BY <2>1, <2>2, PlanFacts
  <2> QED BY <2>1, <2>3
<1> QED BY <1>1, <1>2

(* The planner's return: the plan, and its first wave if nobody cancelled.   *)
LEMMA PlannerIsPromised ==
  ASSUME TypeOK, TypeOK', WavesInv, HandedInv, NEW p \in Plans, PlannerReturns(p)
  PROVE  HandedInv' /\ Promise!Next
<1> DEFINE ready == [run EXCEPT !.plan = p, !.state = "ready"]
<1>1. /\ pc = "planning" /\ run.plan = NoPlan /\ wave = 0
      /\ \A t \in Tasks : run.verif[t] = "none"
  BY DEF PlannerReturns, WavesInv, HandedInv
<1>2. /\ run'.plan = p /\ run'.verif = run.verif /\ remembered'
      /\ ready.plan = p /\ ready.verif = run.verif /\ ready \in Run
      /\ UNCHANGED <<cancelled, response>> /\ pc' \in {"gather", "synthesizing"}
  BY DEF PlannerReturns, StartWave, Save, TypeOK, Run, AgentState, flags
<1>3. file' \in FileAfterSave(ready) \/ file' \in FileAfterSave(run')
  BY DEF PlannerReturns, Save
<1>4. /\ Promise!Checkpoint
      /\ file' \in Run => file' = file \/ file'.verif = run'.verif
  BY <1>2, <1>3, SaveIsCheckpoint DEF TypeOK
<1>5. \A t \in Tasks :
        /\ execs[t] > 0 => execs'[t] > 0
        /\ Started(t)' => Started(t) \/ execs'[t] > 0
        /\ execs'[t] > 0 => execs[t] > 0 \/ (~cancelled /\ t \in p.waves[1])
  <2>1. CASE cancelled
    BY <2>1 DEF PlannerReturns, Started
  <2>2. CASE ~cancelled
    BY <2>2 DEF PlannerReturns, StartWave, Started, TypeOK
  <2> QED BY <2>1, <2>2
<1>6. ASSUME NEW t \in Tasks, t \in p.waves[1]
      PROVE  /\ p # NoPlan /\ t \in p.tasks
             /\ \A d \in p.needs[t] : d \in Tasks /\ run'.verif[d] = "passed"
  <2>1. 1 \in DOMAIN p.waves
    BY PlanFacts
  <2> QED BY <1>6, <2>1, WaveIsDue
<1>7. HandedInv'
  BY <1>1, <1>2, <1>4, <1>5, HandedGrows
<1>8. Promise!Next
  BY <1>1, <1>2, <1>4, <1>5, <1>6, WorkIsPromised
<1> QED BY <1>7, <1>8

(* The end of a wave: its results are verified, the tasks of the next one,   *)
(* if there is one, are due.                                                 *)
LEMMA WaveIsPromised ==
  ASSUME TypeOK, TypeOK', WavesInv, HandedInv,
         WaveFails \/ WaveCancelled \/ NextWave \/ LastWaveDone
  PROVE  HandedInv' /\ Promise!Next
<1>1. /\ pc = "gather" /\ Settled /\ remembered' /\ pc' \in {"gather", "synthesizing"}
      /\ UNCHANGED <<cancelled, response>>
  BY DEF WaveFails, WaveCancelled, NextWave, LastWaveDone, Leave, Save, StartWave, flags
<1>2. Collected \in Run
  BY <1>1, CollectedType
<1>3. run'.plan = Collected.plan /\ run'.verif = Collected.verif
  BY <1>2 DEF WaveFails, WaveCancelled, NextWave, LastWaveDone, Leave, Run
<1>4. /\ run'.plan = run.plan
      /\ \A t \in Tasks : run'.verif[t] = IF t \in WaveTasks THEN task[t] ELSE run.verif[t]
  BY <1>1, <1>3, CollectedFacts
<1>5. /\ Promise!Checkpoint
      /\ file' \in Run => file' = file \/ file'.verif = run'.verif
  <2>1. file' \in FileAfterSave(Collected) \/ file' \in FileAfterSave(run')
    BY DEF WaveFails, WaveCancelled, NextWave, LastWaveDone, Leave, Save
  <2> QED BY <1>2, <1>3, <2>1, SaveIsCheckpoint DEF TypeOK
<1>6. /\ run.plan \in Plans /\ wave \in Nat \ {0} /\ WaveTasks = run.plan.waves[wave]
      /\ WaveTasks \subseteq Tasks /\ \A t \in WaveTasks : run.verif[t] = "none"
  BY <1>1, WaveFacts
<1>7. \A t \in Tasks : run.verif[t] = "passed" => run'.verif[t] = "passed"
  BY <1>4, <1>6
<1>8. \A t \in Tasks : run'.verif[t] = "passed" => execs[t] > 0
  BY <1>4 DEF HandedInv, Started
<1>9. CASE NextWave
  <2>1. /\ AllPassed /\ ~cancelled /\ ~LastWave
        /\ \A t \in Tasks : task'[t] = IF t \in run.plan.waves[wave+1] THEN "executing" ELSE task[t]
        /\ \A t \in Tasks : execs'[t] = IF t \in run.plan.waves[wave+1] THEN execs[t] + 1 ELSE execs[t]
    BY <1>9 DEF NextWave, StartWave
  <2>2. wave + 1 \in DOMAIN run.plan.waves
    BY <1>1, <2>1, WaveFacts
  <2>3. \A t \in Tasks :
          /\ execs[t] > 0 => execs'[t] > 0
          /\ Started(t)' => Started(t) \/ execs'[t] > 0
          /\ execs'[t] > 0 => execs[t] > 0 \/ t \in run.plan.waves[wave+1]
    BY <2>1 DEF Started, TypeOK
  <2>4. ASSUME NEW j \in 1..(wave+1)-1, NEW t \in run.plan.waves[j] PROVE run'.verif[t] = "passed"
    <3>1. j \in DOMAIN run.plan.waves
      BY <1>6, <2>2, PlanFacts
    <3>2. t \in Tasks
      BY <1>6, <3>1, PlanFacts
    <3>3. CASE j = wave
      BY <1>4, <1>6, <2>1, <3>2, <3>3 DEF AllPassed
    <3>4. CASE j # wave
      <4>1. j \in 1..wave-1
        BY <1>6, <3>4
      <4>2. run.verif[t] = "passed"
        BY <1>6, <4>1 DEF WavesInv
      <4> QED BY <1>7, <3>2, <4>2
    <3> QED BY <3>3, <3>4
  <2>5. ASSUME NEW t \in Tasks, t \in run.plan.waves[wave+1]
        PROVE  /\ run.plan # NoPlan /\ t \in run.plan.tasks
               /\ \A d \in run.plan.needs[t] : d \in Tasks /\ run'.verif[d] = "passed"
    BY <1>6, <2>2, <2>4, <2>5, WaveIsDue
  <2>6. HandedInv'
    BY <1>1, <1>5, <1>8, <2>3, <1>9, HandedGrows DEF NextWave, StartWave
  <2>7. Promise!Next
    BY <1>1, <1>4, <1>5, <1>7, <1>8, <2>1, <2>3, <2>5, WorkIsPromised
  <2> QED BY <2>6, <2>7
<1>10. CASE WaveFails \/ WaveCancelled \/ LastWaveDone
  <2>1. UNCHANGED <<execs, task>> /\ pc' = "synthesizing"
    BY <1>10 DEF WaveFails, WaveCancelled, LastWaveDone, Leave
  <2>2. HandedInv'
    BY <1>1, <1>5, <1>8, <2>1, HandedGrows DEF Started
  <2>3. Promise!Next
    BY <1>1, <1>4, <1>5, <1>7, <1>8, <2>1, WorkIsPromised
  <2> QED BY <2>2, <2>3
<1> QED BY <1>9, <1>10

(* The steps of the run's own coroutines that leave plan and results alone.  *)
LEMMA QuietIsPromised ==
  ASSUME TypeOK, TypeOK', WavesInv, HandedInv,
         Start \/ PlannerFails \/ GatherRaises \/ \E t \in Tasks : TaskStep(t)
  PROVE  HandedInv' /\ [Promise!Next]_(Promise!vars)
<1>1. CASE Start \/ PlannerFails \/ GatherRaises
  <2>1. /\ run'.plan = run.plan /\ run'.verif = run.verif
        /\ pc \notin {"returned", "dead"} /\ pc' \in {"planning", "synthesizing"}
        /\ pc' = "planning" => pc = "idle"
        /\ remembered' \/ (pc' = "planning" /\ remembered' = remembered)
        /\ UNCHANGED <<execs, task, cancelled, response>>
    BY <1>1 DEF Start, PlannerFails, GatherRaises, Leave, Save, TypeOK, Run, flags
  <2>2. file' \in FileAfterSave(run')
    BY <1>1 DEF Start, PlannerFails, GatherRaises, Leave, Save, FileAfterSave
  <2>3. /\ Promise!Checkpoint
        /\ file' \in Run => file' = file \/ file'.verif = run'.verif
    BY <2>2, SaveIsCheckpoint DEF TypeOK
  <2>4. HandedInv'
    BY <2>1, <2>3, HandedGrows DEF HandedInv, Started
  <2>5. Promise!Next
    BY <2>1, <2>3, WorkIsPromised DEF HandedInv
  <2> QED BY <2>4, <2>5
<1>2. ASSUME NEW t \in Tasks, TaskStep(t) PROVE HandedInv' /\ UNCHANGED Promise!vars
  <2>1. run'.plan = run.plan /\ run'.verif = run.verif
    <3>1. run \in Run
      BY DEF TypeOK
    <3>2. CASE TaskPasses(t) \/ TaskRaises(t)
      BY <3>2 DEF TaskPasses, TaskRaises
    <3>3. CASE TaskRetries(t)
      BY <3>1, <3>3 DEF TaskRetries, Run
    <3>4. CASE TaskFails(t)
      BY <3>1, <3>4 DEF TaskFails, Run
    <3> QED BY <1>2, <3>2, <3>3, <3>4 DEF TaskStep
  <2>2. /\ UNCHANGED <<pc, file, remembered, response, cancelled>> /\ Started(t)
        /\ \A u \in Tasks : Started(u)' => Started(u)
    <3>1. UNCHANGED <<pc, file, remembered, response, cancelled>> /\ Started(t)
      BY <1>2 DEF TaskStep, TaskPasses, TaskRetries, TaskFails, TaskRaises, Started, flags
    <3>2. \A u \in Tasks : u # t => task'[u] = task[u]
      BY <1>2 DEF TaskStep, TaskPasses, TaskRetries, TaskFails, TaskRaises, TypeOK
    <3>3. \A u \in Tasks : u # t => (Started(u)' => Started(u))
      BY <3>2 DEF Started
    <3> QED BY <3>1, <3>3
  <2>3. \A u \in Tasks : execs'[u] > 0 <=> execs[u] > 0
    <3>1. CASE UNCHANGED execs
      BY <3>1
    <3>2. CASE execs' = [execs EXCEPT ![t] = @ + 1]
      BY <2>2, <3>2 DEF HandedInv, TypeOK
    <3> QED BY <1>2, <3>1, <3>2 DEF TaskStep, TaskPasses, TaskRetries, TaskFails, TaskRaises
  <2>4. HandedInv'
    BY <2>1, <2>2, <2>3, HandedGrows DEF HandedInv
  <2>5. {u \in Tasks : execs'[u] > 0} = {u \in Tasks : execs[u] > 0}
    BY <2>3
  <2> QED BY <2>1, <2>2, <2>4, <2>5 DEF Promise!vars, Verified
<1> QED BY <1>1, <1>2

(* The calls of the API, the caller who leaves, and a crash.                 *)
LEMMA ApiIsPromised ==
  ASSUME TypeOK, TypeOK', WavesInv, HandedInv, OutcomeInv,
         Api \/ CallerGivesUp \/ Crash \/ Respond
  PROVE  HandedInv' /\ Promise!Next
<1>1. CASE CancelRun \/ PauseRun \/ (ResumeRun /\ remembered)
  <2>1. /\ run'.plan = run.plan /\ run'.verif = run.verif
        /\ UNCHANGED <<pc, execs, task, response>>
        /\ remembered => remembered'
        /\ ~remembered' => run' = run
    BY <1>1 DEF CancelRun, PauseRun, ResumeRun, Loaded, Save, TypeOK, Run
  <2>2. file' \in FileAfterSave(run')
    BY <1>1 DEF CancelRun, PauseRun, ResumeRun, Save, FileAfterSave
  <2>3. /\ Promise!Checkpoint
        /\ file' \in Run => file' = file \/ file'.verif = run'.verif
    BY <2>2, SaveIsCheckpoint DEF TypeOK
  <2>4. HandedInv'
    BY <2>1, <2>3, HandedGrows DEF HandedInv, Started
  <2>5. Promise!Next
    BY <2>1, <2>3, HoldIsPromised
  <2> QED BY <2>4, <2>5
<1>2. CASE ResumeRun /\ ~remembered
  <2>1. file \in Run /\ Loaded = file /\ pc = "dead" /\ run.plan = NoPlan
    BY <1>2 DEF ResumeRun, Loadable, Loaded, WavesInv, HandedInv
  <2>2. /\ run'.plan = file.plan /\ run'.verif = file.verif /\ cancelled' = FALSE
        /\ UNCHANGED <<pc, execs, task, file, response>> /\ remembered'
    BY <1>2, <2>1 DEF ResumeRun, Run
  <2>3. HandedInv'
    BY <2>1, <2>2 DEF HandedInv, Started
  <2> DEFINE record == {[plan |-> f.plan, verified |-> Verified(f)] : f \in {file} \cap Run}
             shown == [plan |-> file.plan, verified |-> Verified(file)]
  <2>4. shown \in record /\ record' = record
    BY <2>1, <2>2
  <2>5. run'.plan = shown.plan /\ Verified(run)' = shown.verified
    BY <2>2 DEF Verified
  <2> HIDE DEF shown
  <2>6. Promise!Reload
    BY <2>1, <2>2, <2>4, <2>5 DEF Promise!Reload
  <2> QED BY <2>3, <2>6 DEF Promise!Next
<1>3. CASE Respond
  <2>1. /\ pc = "synthesizing" /\ pc' = "returned" /\ response' = run.state
        /\ UNCHANGED <<run, task, remembered, file, execs, cancelled>>
    BY <1>3 DEF Respond, flags
  <2>2. HandedInv'
    BY <2>1 DEF HandedInv, Started
  <2>3. response' = "completed" => run.plan # NoPlan /\ run.plan.tasks \subseteq Verified(run)
    <3> SUFFICES ASSUME response' = "completed"
                 PROVE  run.plan # NoPlan /\ run.plan.tasks \subseteq Verified(run)
      OBVIOUS
    <3>1. AllVerified(run)
      BY <2>1 DEF OutcomeInv, Finished
    <3>2. run.plan \in Plans
      BY <3>1 DEF AllVerified, TypeOK, Run
    <3>3. run.plan.tasks \subseteq Tasks
      BY <3>2, PlanFacts
    <3> QED BY <3>1, <3>3 DEF AllVerified, Verified
  <2>4. Promise!Answer
    BY <2>1, <2>3 DEF Promise!Answer, Verified
  <2> QED BY <2>2, <2>4 DEF Promise!Next
<1>4. CASE CallerGivesUp
  <2>1. /\ pc \notin {"returned", "dead"} /\ pc # "idle" /\ pc' = "dead"
        /\ UNCHANGED <<run, remembered, file, execs, cancelled, response>>
        /\ \A t \in Tasks : Started(t)' => Started(t)
    BY <1>4 DEF CallerGivesUp, Started, TypeOK, flags
  <2>2. HandedInv'
    BY <2>1 DEF HandedInv
  <2>3. Promise!Abandon
    BY <2>1 DEF Promise!Abandon, Verified
  <2> QED BY <2>2, <2>3 DEF Promise!Next
<1>5. CASE Crash
  <2>1. /\ run' = FreshRun /\ pc' = "dead" /\ cancelled' = FALSE
        /\ \A t \in Tasks : ~Started(t)' /\ run'.verif[t] = "none"
        /\ run'.plan = NoPlan /\ UNCHANGED <<file, execs, response>>
    BY <1>5 DEF Crash, FreshRun, Started
  <2>2. HandedInv'
    BY <2>1 DEF HandedInv
  <2>3. Verified(run)' = {}
    BY <2>1 DEF Verified
  <2>4. Promise!Crash
    BY <2>1, <2>3 DEF Promise!Crash
  <2> QED BY <2>2, <2>4 DEF Promise!Next
<1> QED BY <1>1, <1>2, <1>3, <1>4, <1>5 DEF Api

(* An agent run implements what its caller may expect (Execution), for any   *)
(* plans, budgets, API calls and crashes: every step of run(), of the task   *)
(* coroutines and of the lifecycle API is one of its steps, or none.         *)
THEOREM RunsAsPromisedHolds == Spec => RunsAsPromised
<1>1. Init => HandedInv /\ Promise!Init
  <2> SUFFICES ASSUME Init PROVE HandedInv /\ Promise!Init
    OBVIOUS
  <2>1. HandedInv
    BY NullAssumption DEF Init, FreshRun, HandedInv, Started
  <2>2. Verified(run) = {} /\ {t \in Tasks : execs[t] > 0} = {}
    BY DEF Init, FreshRun, Verified
  <2>3. {[plan |-> f.plan, verified |-> Verified(f)] : f \in {file} \cap Run} = {}
    BY NullAssumption DEF Init
  <2>4. run.plan = NoPlan /\ pc \notin {"returned", "dead"}
    BY DEF Init, FreshRun
  <2>5. Promise!Init
    BY <2>2, <2>3, <2>4 DEF Init, Promise!Init
  <2> QED BY <2>1, <2>5
<1>2. TypeOK /\ TypeOK' /\ WavesInv /\ OutcomeInv /\ HandedInv /\ [Next]_vars
      => HandedInv' /\ [Promise!Next]_(Promise!vars)
  <2> SUFFICES ASSUME TypeOK, TypeOK', WavesInv, OutcomeInv, HandedInv, [Next]_vars
               PROVE  HandedInv' /\ [Promise!Next]_(Promise!vars)
    OBVIOUS
  <2>1. CASE UNCHANGED vars
    <3>1. HandedInv'
      BY <2>1 DEF vars, flags, HandedInv, Started
    <3>2. UNCHANGED Promise!vars
      BY <2>1 DEF vars, flags, Promise!vars, Verified
    <3> QED BY <3>1, <3>2
  <2>2. CASE Next
    BY <2>2, PlannerIsPromised, WaveIsPromised, QuietIsPromised, ApiIsPromised
       DEF Next, Planner, Loop
  <2> QED BY <2>1, <2>2
<1>3. Spec => []TypeOK /\ []WavesInv /\ []OutcomeInv
  BY TypeCorrect, WavesInvariant, OutcomeInvariant, PTL
<1> QED BY <1>1, <1>2, <1>3, PTL DEF Spec, RunsAsPromised, Promise!Spec
=============================================================================
