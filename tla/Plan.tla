-------------------------------- MODULE Plan --------------------------------
(* The execution plan that the two halves of the agent runtime agree on:    *)
(* PlanValidator produces the waves, AgentOrchestrator runs them.  A plan's *)
(* tasks are a finite set T, needs[t] is the set of tasks that t depends on *)
(* and waves is a sequence of sets of tasks.                                *)
EXTENDS Integers, Sequences, FiniteSets

(* Every task of T is in exactly one wave, and no wave names anything else. *)
Partitions(T, waves) ==
  /\ \A k \in DOMAIN waves : waves[k] # {} /\ waves[k] \subseteq T
  /\ \A t \in T : \E k \in DOMAIN waves : t \in waves[k]
  /\ \A j, k \in DOMAIN waves : j # k => waves[j] \cap waves[k] = {}

(* Whatever a task of a wave depends on is in an earlier wave.              *)
EarlierWaves(needs, waves) ==
  \A k \in DOMAIN waves : \A t \in waves[k] : \A d \in needs[t] :
    \E j \in 1..k-1 : d \in waves[j]

Layered(T, needs, waves) ==
  /\ Partitions(T, waves)
  /\ EarlierWaves(needs, waves)

(* What validate_and_sort hands over and run() relies on: a plan of some of *)
(* the tasks S, not empty, whose dependencies are tasks of its own and      *)
(* whose waves layer it.                                                    *)
IsPlan(p, S) ==
  /\ p.tasks \subseteq S /\ p.tasks # {}
  /\ DOMAIN p.needs = p.tasks
  /\ \A t \in p.tasks : p.needs[t] \subseteq p.tasks
  /\ p.waves \in Seq(SUBSET p.tasks)
  /\ Layered(p.tasks, p.needs, p.waves)
=============================================================================
