------------------------------- MODULE Execution -------------------------------
(* What a caller may expect of an agent run, whatever waves, retries and     *)
(* checkpoints it is made of: one plan, whose tasks are handed out in the    *)
(* order of their dependencies and not while the run is cancelled, at most   *)
(* one answer, and "completed" only for a plan that was verified to its end. *)

CONSTANTS Plans, NoPlan, NoAnswer

VARIABLES
  plan,      \* the plan, once there is one
  handed,    \* the tasks that were handed to an agent
  verified,  \* the tasks whose results were verified
  held,      \* the run is cancelled
  answer,    \* the status that the caller was given
  over,      \* the caller has his answer or is gone
  record     \* the checkpoint that could be read, if there is one

vars == <<plan, handed, verified, held, answer, over, record>>

Now == [plan |-> plan, verified |-> verified]

Init ==
  /\ plan = NoPlan /\ handed = {} /\ verified = {} /\ held = FALSE
  /\ answer = NoAnswer /\ over = FALSE /\ record = {}

(* Written, lost in writing, or left as it was.                              *)
Checkpoint == record' \in {record, {}, {Now'}}

(* A plan is made, results are verified, and tasks whose dependencies are    *)
(* verified are handed out, several of them at once.                         *)
Work ==
  /\ ~over
  /\ plan' = plan \/ (plan = NoPlan /\ plan' \in Plans)
  /\ verified \subseteq verified' /\ verified' \subseteq handed
  /\ handed \subseteq handed'
  /\ \A t \in handed' \ handed :
       /\ ~held /\ plan' # NoPlan
       /\ t \in plan'.tasks /\ plan'.needs[t] \subseteq verified'
  /\ Checkpoint
  /\ UNCHANGED <<held, answer, over>>

(* Cancelled, paused or resumed by whoever knows the run.                    *)
Hold ==
  /\ held' \in BOOLEAN
  /\ Checkpoint
  /\ UNCHANGED <<plan, handed, verified, answer, over>>

Answer ==
  /\ ~over /\ over' = TRUE
  /\ answer' = "completed" => plan # NoPlan /\ plan.tasks \subseteq verified
  /\ UNCHANGED <<plan, handed, verified, held, record>>

Abandon ==
  /\ ~over /\ over' = TRUE
  /\ UNCHANGED <<plan, handed, verified, held, answer, record>>

(* What was in memory is gone, and so is the caller.                         *)
Crash ==
  /\ over' = TRUE
  /\ plan' = NoPlan /\ verified' = {} /\ held' = FALSE
  /\ UNCHANGED <<handed, answer, record>>

(* A checkpoint brings back what it holds, but nobody works on it.           *)
Reload ==
  /\ over /\ plan = NoPlan
  /\ \E r \in record : plan' = r.plan /\ verified' = r.verified
  /\ held' = FALSE
  /\ UNCHANGED <<handed, answer, over, record>>

Next == Work \/ Hold \/ Answer \/ Abandon \/ Crash \/ Reload

Spec == Init /\ [][Next]_vars
=============================================================================
