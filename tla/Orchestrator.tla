----------------------------- MODULE Orchestrator -----------------------------
(* AgentOrchestrator (agents/orchestrator.py) with the RecoveryEngine, the   *)
(* AgentVerifier's verdicts and the CheckpointStore, for one run: runs share *)
(* nothing but maps keyed by run id.  The actors are the coroutine of run(), *)
(* one coroutine per task of the current wave, the callers of cancel_run,    *)
(* pause_run and resume_run, the caller of run() whose own timeout cancels   *)
(* it, and a crash of the process.  asyncio switches only at an await that   *)
(* really waits (the planner, an agent, gather, the synthesizer's model      *)
(* call), so everything between two of those is one step.                    *)
EXTENDS Plan

CONSTANTS
  Tasks,            \* task ids of all plans
  Plans,            \* what PlanValidator.validate_and_sort may return
  NoPlan,           \* run.plan is None
  NoFile,           \* no checkpoint file
  Torn,             \* a checkpoint file that cannot be parsed
  NoResponse,       \* run() has returned nothing
  MaxStepRetries, MaxReplans, MaxAttempts   \* RecoveryEngine's three budgets

ASSUME PlansAssumption ==
  /\ IsFiniteSet(Tasks)
  /\ NoPlan \notin Plans
  /\ \A p \in Plans : IsPlan(p, Tasks)

ASSUME BudgetAssumption ==
  MaxStepRetries \in Nat /\ MaxReplans \in Nat /\ MaxAttempts \in Nat

AgentState == {"idle", "planning", "ready", "running",
               "completed", "failed", "cancelled", "paused"}

(* PARTIAL is folded into "failed": the orchestrator asks only for PASSED.   *)
Verdict == {"none", "passed", "failed"}

Attempts == [retrying : 0..MaxAttempts, replanning : 0..MaxAttempts,
             aborted : 0..MaxAttempts]

(* AgentRun, the object that the coroutine, _active_runs and the in-memory   *)
(* checkpoint share; completed_tasks and failed_tasks are read off verif.    *)
Run == [state : AgentState, plan : Plans \cup {NoPlan}, verif : [Tasks -> Verdict],
        retry : [Tasks -> 0..MaxStepRetries], attempts : Attempts]

ASSUME NullAssumption ==
  NoFile \notin Run /\ Torn \notin Run /\ NoResponse \notin AgentState

VARIABLES
  run,          \* the AgentRun
  pc,           \* where run() waits: "idle" (not called), "planning", "gather",
                \* "synthesizing"; or "returned", "dead" (cancelled or crashed)
  wave,         \* index of the wave that was last started
  task,         \* the coroutine of each task
  active,       \* run_id in _active_runs
  cancelled,    \* run_id in _cancelled_runs
  paused,       \* run_id in _paused_runs
  remembered,   \* run_id in CheckpointStore._memory_store
  file,         \* the checkpoint file
  announced,    \* terminal events that went out
  response,     \* AgentFinalResponse.status
  execs         \* history: how often each task was handed to its agent

flags == <<active, cancelled, paused>>
vars == <<run, pc, wave, task, flags, remembered, file, announced, response, execs>>

TaskState == {"idle", "executing", "passed", "failed", "raised", "dropped"}

TypeOK ==
  /\ run \in Run
  /\ pc \in {"idle", "planning", "gather", "synthesizing", "returned", "dead"}
  /\ wave \in Nat
  /\ task \in [Tasks -> TaskState]
  /\ active \in BOOLEAN /\ cancelled \in BOOLEAN /\ paused \in BOOLEAN
  /\ remembered \in BOOLEAN
  /\ file \in Run \cup {NoFile, Torn}
  /\ announced \subseteq {"agent.completed", "agent.failed", "agent.cancelled"}
  /\ response \in AgentState \cup {NoResponse}
  /\ execs \in [Tasks -> Nat]

FreshRun ==
  [state |-> "idle", plan |-> NoPlan, verif |-> [t \in Tasks |-> "none"],
   retry |-> [t \in Tasks |-> 0],
   attempts |-> [retrying |-> 0, replanning |-> 0, aborted |-> 0]]

Init ==
  /\ run = FreshRun /\ pc = "idle" /\ wave = 0
  /\ task = [t \in Tasks |-> "idle"]
  /\ active = FALSE /\ cancelled = FALSE /\ paused = FALSE
  /\ remembered = FALSE /\ file = NoFile
  /\ announced = {} /\ response = NoResponse
  /\ execs = [t \in Tasks |-> 0]

-----------------------------------------------------------------------------
(* CheckpointStore.save: the memory store gets the shared object itself; the *)
(* file is opened with "w" and then written, and an exception of either is   *)
(* swallowed, so the file may also be as before or torn.                     *)
FileAfterSave(r) == {r, Torn, file}

Save(r) == remembered' = TRUE /\ file' \in FileAfterSave(r)

(* CheckpointStore.load: the memory store first, else a file that parses.    *)
Loadable == remembered \/ file \in Run

(* The file first.                                                           *)
Mutant_Loaded == IF file \in Run THEN file ELSE run

Loaded == IF remembered THEN run ELSE file

(* _emit_event: without a running bus the event is dropped silently, and an  *)
(* error of publish() is swallowed.                                          *)
Announce(e) == announced' \in {announced, announced \cup {e}}

WaveTasks == IF run.plan = NoPlan \/ wave = 0 THEN {} ELSE run.plan.waves[wave]

LastWave == wave = Len(run.plan.waves)

(* The coroutines of wave k of plan p are created and handed to gather.      *)
StartWave(p, k) ==
  /\ wave' = k
  /\ task' = [t \in Tasks |-> IF t \in p.waves[k] THEN "executing" ELSE task[t]]
  /\ execs' = [t \in Tasks |-> IF t \in p.waves[k] THEN execs[t] + 1 ELSE execs[t]]
  /\ pc' = "gather"

(* Leaving the loop: the final save, then the synthesizer is awaited.        *)
Leave(r) ==
  /\ run' = r
  /\ Save(r)
  /\ pc' = "synthesizing"
  /\ UNCHANGED <<wave, task, execs>>

Start ==
  /\ pc = "idle"
  /\ pc' = "planning" /\ active' = TRUE
  /\ run' = [run EXCEPT !.state = "planning"]
  /\ UNCHANGED <<wave, task, cancelled, paused, remembered, file, announced,
                 response, execs>>

(* Lines 135-166: READY is saved, RUNNING set, and the first wave started or *)
(* the cancellation that arrived meanwhile honoured.                         *)
PlannerReturns(p) ==
  /\ pc = "planning"
  /\ LET ready == [run EXCEPT !.plan = p, !.state = "ready"] IN
       IF cancelled
         THEN /\ Announce("agent.cancelled")
              /\ run' = [ready EXCEPT !.state = "cancelled"]
              /\ remembered' = TRUE
              /\ file' \in FileAfterSave(ready) \cup FileAfterSave(run')
              /\ pc' = "synthesizing"
              /\ UNCHANGED <<wave, task, execs>>
         ELSE /\ run' = [ready EXCEPT !.state = "running"]
              /\ Save(ready)
              /\ StartWave(p, 1)
              /\ UNCHANGED announced
  /\ UNCHANGED <<flags, response>>

(* The planner fails or its plan is refused: the except clause.  A refused   *)
(* plan stays in run.plan, where only statistics look at it.                 *)
PlannerFails ==
  /\ pc = "planning"
  /\ Announce("agent.failed")
  /\ Leave([run EXCEPT !.state = "failed"])
  /\ UNCHANGED <<flags, response>>

-----------------------------------------------------------------------------
(* _execute_single_task: execute_task, verify_step and, when that does not   *)
(* pass, RecoveryEngine.evaluate_failure.  Nothing between the agent's       *)
(* answer and the next execution waits.                                      *)

Total(a) == a.retrying + a.replanning + a.aborted

(* Only retries count; one retry too many.                                   *)
Mutant_BudgetSpent == run.attempts.retrying >= MaxAttempts

BudgetSpent == Total(run.attempts) >= MaxAttempts

Mutant_CanRetryStep(t) == run.retry[t] <= MaxStepRetries

CanRetryStep(t) == run.retry[t] < MaxStepRetries

CanReplan == run.attempts.replanning < MaxReplans

TaskPasses(t) ==
  /\ task[t] = "executing"
  /\ task' = [task EXCEPT ![t] = "passed"]
  /\ UNCHANGED <<run, pc, wave, flags, remembered, file, announced, response, execs>>

(* RETRYING: the agent is handed the task again.                             *)
TaskRetries(t) ==
  /\ task[t] = "executing" /\ ~BudgetSpent /\ CanRetryStep(t)
  /\ run' = [run EXCEPT !.retry[t] = @ + 1, !.attempts.retrying = @ + 1]
  /\ execs' = [execs EXCEPT ![t] = @ + 1]
  /\ UNCHANGED <<pc, wave, task, flags, remembered, file, announced, response>>

(* REPLANNING and ABORTED both end the task: no replan is ever made.  With   *)
(* the global budget spent, nothing is recorded.                             *)
TaskFails(t) ==
  /\ task[t] = "executing"
  /\ \/ BudgetSpent /\ UNCHANGED run
     \/ /\ ~BudgetSpent /\ ~CanRetryStep(t)
        /\ run' = IF CanReplan THEN [run EXCEPT !.attempts.replanning = @ + 1]
                               ELSE [run EXCEPT !.attempts.aborted = @ + 1]
  /\ task' = [task EXCEPT ![t] = "failed"]
  /\ UNCHANGED <<pc, wave, flags, remembered, file, announced, response, execs>>

(* verify_step looks at the artifacts' files and has no try: an OSError of   *)
(* exists() or stat() leaves _execute_single_task.                           *)
TaskRaises(t) ==
  /\ task[t] = "executing"
  /\ task' = [task EXCEPT ![t] = "raised"]
  /\ UNCHANGED <<run, pc, wave, flags, remembered, file, announced, response, execs>>

-----------------------------------------------------------------------------
(* run() resumes from gather, takes over the results and goes round its loop *)
(* or leaves it.                                                             *)

(* A task that fails keeps gather waiting.                                   *)
Mutant_Settled == \A t \in WaveTasks : task[t] = "passed"

Settled == \A t \in WaveTasks : task[t] \in {"passed", "failed"}
AllPassed == \A t \in WaveTasks : task[t] = "passed"

Collected ==
  [run EXCEPT !.verif = [t \in Tasks |-> IF t \in WaveTasks THEN task[t] ELSE @[t]]]

(* gather passes the first exception on at once; the other tasks of the wave *)
(* are not cancelled and go on.                                              *)
GatherRaises ==
  /\ pc = "gather"
  /\ \E t \in WaveTasks : task[t] = "raised"
  /\ Announce("agent.failed")
  /\ Leave([run EXCEPT !.state = "failed"])
  /\ UNCHANGED <<flags, response>>

(* A task failed for good: the loop is left with no event.                   *)
WaveFails ==
  /\ pc = "gather" /\ Settled /\ ~AllPassed
  /\ Leave([Collected EXCEPT !.state = "failed"])
  /\ UNCHANGED <<flags, announced, response>>

WaveCancelled ==
  /\ pc = "gather" /\ Settled /\ AllPassed /\ ~LastWave /\ cancelled
  /\ Announce("agent.cancelled")
  /\ run' = [Collected EXCEPT !.state = "cancelled"]
  /\ remembered' = TRUE
  /\ file' \in FileAfterSave(Collected) \cup FileAfterSave(run')
  /\ pc' = "synthesizing"
  /\ UNCHANGED <<wave, task, execs, flags, response>>

(* The results go into the saved copy only; the state field is asked instead *)
(* of the set of cancelled runs.                                             *)
Mutant_NextWaveCopy ==
  /\ pc = "gather" /\ Settled /\ AllPassed /\ ~LastWave /\ ~cancelled
  /\ run' = run
  /\ Save(Collected)
  /\ StartWave(run.plan, wave + 1)
  /\ UNCHANGED <<flags, announced, response>>

Mutant_NextWaveState ==
  /\ pc = "gather" /\ Settled /\ AllPassed /\ ~LastWave /\ run.state # "cancelled"
  /\ run' = Collected
  /\ Save(Collected)
  /\ StartWave(run.plan, wave + 1)
  /\ UNCHANGED <<flags, announced, response>>

(* The next wave starts whatever the state says, PAUSED included.            *)
NextWave ==
  /\ pc = "gather" /\ Settled /\ AllPassed /\ ~LastWave /\ ~cancelled
  /\ run' = Collected
  /\ Save(Collected)
  /\ StartWave(run.plan, wave + 1)
  /\ UNCHANGED <<flags, announced, response>>

(* verify_plan: every task of the plan has a PASSED verification.            *)
Event(s) == IF s = "completed" THEN "agent.completed" ELSE "agent.failed"

PlanVerified(r) == \A t \in r.plan.tasks : r.verif[t] = "passed"

(* Being through the waves is enough.                                        *)
Mutant_LastWaveDone ==
  /\ pc = "gather" /\ Settled /\ LastWave /\ run.state # "cancelled"
  /\ Leave([Collected EXCEPT !.state = "completed"])
  /\ Announce("agent.completed")
  /\ UNCHANGED <<flags, response>>

LastWaveDone ==
  /\ pc = "gather" /\ Settled /\ AllPassed /\ LastWave
  /\ \/ /\ run.state = "cancelled"
        /\ run' = Collected
        /\ Save(Collected)
        /\ UNCHANGED announced
     \/ /\ run.state # "cancelled"
        /\ LET end == IF PlanVerified(Collected) THEN "completed" ELSE "failed" IN
             /\ run' = [Collected EXCEPT !.state = end]
             /\ Announce(Event(end))
        /\ remembered' = TRUE
        /\ file' \in FileAfterSave(Collected) \cup FileAfterSave(run')
  /\ pc' = "synthesizing"
  /\ UNCHANGED <<wave, task, execs, flags, response>>

(* The status is worked out from the verifications alone.                    *)
Mutant_Respond ==
  /\ pc = "synthesizing"
  /\ pc' = "returned"
  /\ response' = IF run.plan # NoPlan /\ PlanVerified(run) THEN "completed" ELSE "failed"
  /\ UNCHANGED <<run, wave, task, flags, remembered, file, announced, execs>>

(* The response takes run.state as it is after the model call.               *)
Respond ==
  /\ pc = "synthesizing"
  /\ pc' = "returned" /\ response' = run.state
  /\ UNCHANGED <<run, wave, task, flags, remembered, file, announced, execs>>

-----------------------------------------------------------------------------
(* The lifecycle API, callable by anybody who has seen the run id.           *)

CancelRun ==
  /\ pc # "idle"
  /\ cancelled' = TRUE
  /\ IF active
       THEN run' = [run EXCEPT !.state = "cancelled"] /\ Save(run')
       ELSE UNCHANGED <<run, remembered, file>>
  /\ UNCHANGED <<pc, wave, task, active, paused, announced, response, execs>>

PauseRun ==
  /\ active
  /\ paused' = TRUE
  /\ run' = [run EXCEPT !.state = "paused"]
  /\ Save(run')
  /\ UNCHANGED <<pc, wave, task, active, cancelled, announced, response, execs>>

(* Nothing is started: the caller gets the run back and that is all.         *)
ResumeRun ==
  /\ Loadable
  /\ paused' = FALSE /\ cancelled' = FALSE /\ active' = TRUE
  /\ run' = [Loaded EXCEPT !.state = "running"]
  /\ remembered' = TRUE
  /\ UNCHANGED <<pc, wave, task, file, announced, response, execs>>

(* The caller's wait_for expires (the IPC server gives a request 30 s): the  *)
(* CancelledError goes through run(), whose except clause does not catch it. *)
(* A gather that still waits passes it on to the tasks; one that is in a     *)
(* model call absorbs it there, as an AICancelledError (ai/retry.py:51) that *)
(* its agent takes for a failure, and goes on.  A planner or a synthesizer   *)
(* that absorbs it lets run() go on, too, which is no step.                  *)
CallerGivesUp ==
  /\ pc \in {"planning", "gather", "synthesizing"}
  /\ pc' = "dead"
  /\ IF pc = "gather" /\ ~\E t \in WaveTasks : task[t] = "raised"
       THEN \E absorbed \in SUBSET Tasks :
              task' = [t \in Tasks |-> IF task[t] = "executing" /\ t \notin absorbed
                                         THEN "dropped" ELSE task[t]]
       ELSE UNCHANGED task
  /\ UNCHANGED <<run, wave, flags, remembered, file, announced, response, execs>>

(* The process dies; only the file survives.                                 *)
Crash ==
  /\ pc # "idle"
  /\ run' = FreshRun /\ pc' = "dead" /\ wave' = 0
  /\ task' = [t \in Tasks |-> "idle"]
  /\ active' = FALSE /\ cancelled' = FALSE /\ paused' = FALSE
  /\ remembered' = FALSE
  /\ UNCHANGED <<file, announced, response, execs>>

-----------------------------------------------------------------------------
TaskStep(t) == TaskPasses(t) \/ TaskRetries(t) \/ TaskFails(t) \/ TaskRaises(t)

Planner == PlannerFails \/ \E p \in Plans : PlannerReturns(p)

Loop == \/ GatherRaises \/ WaveFails \/ WaveCancelled \/ NextWave
        \/ LastWaveDone \/ Respond

Api == CancelRun \/ PauseRun \/ ResumeRun

Next == \/ Start \/ Planner \/ (\E t \in Tasks : TaskStep(t)) \/ Loop
        \/ Api \/ CallerGivesUp \/ Crash

(* The event loop runs every coroutine that can go on, and planners, agents  *)
(* and model calls answer or fail: providers and tools have timeouts.        *)
Fairness ==
  /\ WF_vars(Planner) /\ WF_vars(Loop)
  /\ \A t \in Tasks : WF_vars(TaskStep(t))

Spec == Init /\ [][Next]_vars /\ Fairness

-----------------------------------------------------------------------------
Started(t) == task[t] # "idle"

(* No task is handed to its agent before all its dependencies are verified,  *)
(* although waves are the only thing run() looks at and a run is cancelled,  *)
(* paused and resumed under its feet.                                        *)
DependenciesFirst ==
  \A t \in Tasks : Started(t) =>
    /\ run.plan # NoPlan /\ t \in run.plan.tasks
    /\ \A d \in run.plan.needs[t] : run.verif[d] = "passed"

(* Recovery is bounded, with all tasks of a wave failing at once: the shared *)
(* budgets are never overdrawn and no task is handed out more than           *)
(* 1 + max_step_retries times.                                               *)
RecoveryBounded ==
  /\ Total(run.attempts) <= MaxAttempts
  /\ run.attempts.replanning <= MaxReplans
  /\ \A t \in Tasks : execs[t] <= 1 + MaxStepRetries

(* A run is called completed, in memory, in the checkpoint file or in the    *)
(* event, only when every task of its plan was verified; and then no task of *)
(* it is still running.  The event outlives a crash, which wave tells: the   *)
(* run it was about is gone then, and what resume_run reads may be older.    *)
AllVerified(r) == r.plan # NoPlan /\ \A t \in r.plan.tasks : r.verif[t] = "passed"

CompletedMeansVerified ==
  /\ \/ run.state = "completed"
     \/ "agent.completed" \in announced /\ wave # 0
     => AllVerified(run) /\ \A t \in Tasks : task[t] # "executing"
  /\ file \in Run => (file.state = "completed" => AllVerified(file))

(* What the checkpoint file claims is never ahead of the run: a task it      *)
(* calls verified is verified, with a run that is still in memory.           *)
FileBehindRun ==
  (file \in Run /\ remembered) =>
    /\ \A t \in Tasks : file.verif[t] \in {"none", run.verif[t]}
    /\ \A t \in Tasks : file.retry[t] <= run.retry[t]
    /\ Total(file.attempts) <= Total(run.attempts)

(* Clients hear at most one verdict on a run, or none, when the bus is down; *)
(* and the response, which reads the state after one more model call, says   *)
(* the same as the verdict they heard, or what a lifecycle call has made of  *)
(* the run since.                                                            *)
Agrees(e, s) == \/ s \in {"cancelled", "paused", "running"}
                \/ e = "agent.completed" /\ s = "completed"
                \/ e = "agent.failed" /\ s = "failed"

OneVerdictAnnounced ==
  /\ \A e, f \in announced : e = f
  /\ response # NoResponse => \A e \in announced : Agrees(e, response)

(* The run keeps what its caller may expect, whatever waves, retries, API    *)
(* calls and crashes it goes through: one plan, tasks handed out in its      *)
(* order and never while cancelled, nothing verified that was not handed out *)
(* or taken back but by a crash, and "completed" for a verified plan only.   *)
Verified(r) == {t \in Tasks : r.verif[t] = "passed"}

Promise == INSTANCE Execution WITH
             plan <- run.plan, verified <- Verified(run),
             handed <- {t \in Tasks : execs[t] > 0}, held <- cancelled,
             answer <- response, NoAnswer <- NoResponse,
             over <- pc \in {"returned", "dead"},
             record <- {[plan |-> f.plan, verified |-> Verified(f)] : f \in {file} \cap Run}

RunsAsPromised == Promise!Spec

(* Once cancel_run has been called, and until resume_run takes it back, no   *)
(* further task is handed out, whatever the state field is overwritten with: *)
(* a cancellation that arrives during planning is overwritten by READY and   *)
(* RUNNING and still counts.                                                 *)
NothingStartsAfterCancel ==
  [][(cancelled /\ cancelled') => \A t \in Tasks : task[t] = "idle" => task'[t] = "idle"]_vars

(* A run that was called and whose caller is still there ends, because       *)
(* recovery is bounded.                                                      *)
RunEnds == (pc = "planning") ~> (pc \in {"returned", "dead"})

(* What pause_run's docstring says, "Pauses an active agent run": no task is *)
(* handed out between pause_run and resume_run.                              *)
NothingStartsWhilePaused ==
  [][(paused /\ paused') => \A t \in Tasks : task[t] = "idle" => task'[t] = "idle"]_vars

(* What resume_run's docstring says, "Resumes a paused or checkpointed agent *)
(* run": a run that is RUNNING does not stay so for ever.                    *)
ResumedRunGoesOn == (run.state = "running") ~> (run.state # "running")
=============================================================================
