---------------------------- MODULE MCOrchestrator ----------------------------
(* Two plans of three tasks, one that joins two parallel tasks and one that  *)
(* fans out, so that a wave has concurrent tasks on either side of a         *)
(* barrier.  The waves are those PlanValidator computes (see MCPlanValidator *)
(* for that); PlansAssumption is evaluated on them.                          *)
EXTENDS Orchestrator, TLC

CONSTANTS a, b, c

Join == [tasks |-> {a, b, c},
         needs |-> (a :> {} @@ b :> {} @@ c :> {a, b}),
         waves |-> <<{a, b}, {c}>>]

Fan == [tasks |-> {a, b, c},
        needs |-> (a :> {} @@ b :> {a} @@ c :> {a}),
        waves |-> <<{a}, {b, c}>>]

MCPlans == {Join, Fan}
=============================================================================
