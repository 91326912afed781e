------------------------- MODULE PlanValidatorProofs -------------------------
(* Proofs about PlanValidator for every set of plans: the while loop of      *)
(* validate_and_sort returns a layering, and gives up only on a cycle; and   *)
(* about Planner: the plans it makes itself are never refused.               *)
EXTENDS Planner, FiniteSetTheorems, TLAPS

Emitted == UNION {waves[k] : k \in DOMAIN waves}

(* The entries of t's dependency list whose task is in no wave yet.          *)
Pending(t) == {i \in DOMAIN deps[t] : deps[t][i] \notin Emitted}

(* task_map agrees with the plan, and every dependency is a task of it.      *)
MapInv ==
  /\ plan \in Plans /\ IsFiniteSet(Ids) /\ Ids # {}
  /\ deps \in [Ids -> Seq(TaskIds)]
  /\ \A t \in Ids : \A i \in DOMAIN deps[t] : deps[t][i] \in Ids
  /\ \A t \in Ids : Needs[t] = {deps[t][i] : i \in DOMAIN deps[t]}

(* Kahn's loop: the in-degree of a task counts its pending entries, the      *)
(* current wave is made of the tasks that have none left, and the waves      *)
(* emitted so far are layered.                                               *)
KahnInv ==
  /\ waves \in Seq(SUBSET Ids) /\ wave \subseteq Ids
  /\ inDegree \in [Ids -> Nat]
  /\ \A t \in Ids : inDegree[t] = Cardinality(Pending(t))
  /\ wave = {t \in Ids \ Emitted : Pending(t) = {}}
  /\ \A k \in DOMAIN waves : waves[k] # {}
  /\ \A j, k \in DOMAIN waves : j # k => waves[j] \cap waves[k] = {}
  /\ \A k \in DOMAIN waves : \A t \in waves[k] : \A i \in DOMAIN deps[t] :
       \E j \in 1..k-1 : deps[t][i] \in waves[j]
  /\ processed = Cardinality(Emitted) /\ processed >= Len(waves)

(* As late as its dependencies make it and no later.                         *)
PromptInv ==
  /\ \A k \in DOMAIN waves : \A t \in waves[k] :
       k > 1 => \E i \in DOMAIN deps[t] : deps[t][i] \in waves[k-1]
  /\ waves # <<>> => \A t \in wave : \E i \in DOMAIN deps[t] : deps[t][i] \in waves[Len(waves)]

Inv ==
  /\ plan \in Plans
  /\ verdict \in {"checking", "sorting", "accepted", "malformed", "circular"}
  /\ verdict \in {"checking", "malformed"} =>
       deps = <<>> /\ inDegree = <<>> /\ waves = <<>> /\ wave = {} /\ processed = 0
  /\ verdict \in {"sorting", "accepted", "circular"} => MapInv /\ KahnInv /\ PromptInv
  /\ verdict \in {"accepted", "circular"} => wave = {}
  /\ verdict = "accepted" => processed >= Cardinality(Ids)
  /\ verdict = "circular" => processed < Cardinality(Ids)

-----------------------------------------------------------------------------
(* Plans have ids and dependencies among the task ids.                       *)
LEMMA PlanType ==
  ASSUME plan \in Plans
  PROVE  /\ plan \in Seq(AgentTask) /\ IsFiniteSet(TaskIds)
         /\ Ids \subseteq TaskIds /\ IsFiniteSet(Ids)
         /\ \A i \in DOMAIN plan : plan[i].dependencies \in Seq(TaskIds)
<1>1. plan \in Seq(AgentTask) /\ IsFiniteSet(TaskIds)
  BY PlansAssumption
<1>2. \A i \in DOMAIN plan : plan[i] \in AgentTask
  BY <1>1
<1>3. Ids \subseteq TaskIds
  BY <1>2 DEF Ids, AgentTask
<1> QED BY <1>1, <1>2, <1>3, FS_Subset DEF AgentTask

(* An interval has as many members as it is long.                            *)
LEMMA IntervalCardinality ==
  ASSUME NEW n \in Nat
  PROVE  /\ IsFiniteSet(1..n) /\ Cardinality(1..n) = n
         /\ (1..n = {}) <=> (n = 0)
<1>1. Cardinality(1..n) = (IF 1 > n THEN 0 ELSE n - 1 + 1) /\ IsFiniteSet(1..n)
  BY FS_Interval
<1>2. (1..n = {}) <=> (n = 0)
  <2>1. n # 0 => 1 \in 1..n
    OBVIOUS
  <2> QED BY <2>1
<1> QED BY <1>1, <1>2

(* The checks make task_map a faithful copy of the plan.                     *)
LEMMA PrepareMap ==
  ASSUME plan \in Plans, ~Malformed, Prepare
  PROVE  MapInv'
<1>1. plan' = plan /\ Ids' = Ids /\ deps' = TaskMap /\ Needs' = Needs
  BY DEF Prepare, Ids, Needs
<1>2. \A i, j \in DOMAIN plan : plan[i].id = plan[j].id => i = j
  BY DEF Malformed, HasDuplicateId
<1>3. ASSUME NEW t \in Ids
      PROVE  \E i \in DOMAIN plan : /\ plan[i].id = t /\ TaskMap[t] = plan[i].dependencies
                                    /\ {k \in DOMAIN plan : plan[k].id = t} = {i}
  <2>1. PICK i \in DOMAIN plan : plan[i].id = t
    BY <1>3 DEF Ids
  <2>2. (CHOOSE j \in DOMAIN plan : plan[j].id = t) = i
    BY <1>2, <2>1
  <2> QED BY <1>2, <2>1, <2>2 DEF TaskMap
<1>4. ASSUME NEW t \in Ids
      PROVE  /\ TaskMap[t] \in Seq(TaskIds)
             /\ \A i \in DOMAIN TaskMap[t] : TaskMap[t][i] \in Ids
             /\ Needs[t] = {TaskMap[t][i] : i \in DOMAIN TaskMap[t]}
  <2>1. PICK i \in DOMAIN plan : /\ plan[i].id = t /\ TaskMap[t] = plan[i].dependencies
                                 /\ {k \in DOMAIN plan : plan[k].id = t} = {i}
    BY <1>3, <1>4
  <2>2. TaskMap[t] \in Seq(TaskIds)
    BY <2>1, PlanType
  <2>3. \A j \in DOMAIN TaskMap[t] : TaskMap[t][j] \in Ids
    BY <2>1 DEF Malformed, BadDependency
  <2>4. Needs[t] = {TaskMap[t][j] : j \in DOMAIN TaskMap[t]}
    BY <2>1 DEF Needs
  <2> QED BY <2>2, <2>3, <2>4
<1>5. TaskMap \in [Ids -> Seq(TaskIds)]
  BY <1>4 DEF TaskMap
<1>6. Ids # {}
  <2>1. plan \in Seq(AgentTask) /\ plan # <<>>
    BY PlanType DEF Malformed
  <2>2. 1 \in DOMAIN plan
    BY <2>1
  <2> QED BY <2>2 DEF Ids
<1> QED BY <1>1, <1>4, <1>5, <1>6, PlanType DEF MapInv

(* Before the first iteration nothing is emitted and every entry pends.      *)
LEMMA PrepareKahn ==
  ASSUME Inv, ~Malformed, Prepare
  PROVE  KahnInv' /\ PromptInv'
<1>1. /\ waves = <<>> /\ waves' = <<>> /\ processed' = 0 /\ Ids' = Ids
      /\ deps' = TaskMap
      /\ inDegree' = [t \in Ids |-> Len(deps'[t])]
      /\ wave' = {t \in Ids : Len(deps'[t]) = 0}
  BY DEF Inv, Prepare, Ids
<1>2. MapInv'
  BY PrepareMap DEF Inv
<1>3. Emitted' = {}
  BY <1>1 DEF Emitted
<1>4. ASSUME NEW t \in Ids
      PROVE  /\ Pending(t)' = 1..Len(deps'[t]) /\ Len(deps'[t]) \in Nat
             /\ Cardinality(Pending(t)') = Len(deps'[t])
             /\ Pending(t)' = {} <=> Len(deps'[t]) = 0
  <2>1. deps'[t] \in Seq(TaskIds)
    BY <1>1, <1>2 DEF MapInv
  <2>2. Len(deps'[t]) \in Nat /\ DOMAIN deps'[t] = 1..Len(deps'[t])
    BY <2>1
  <2>3. Pending(t)' = 1..Len(deps'[t])
    BY <1>3, <2>2 DEF Pending
  <2>4. /\ Cardinality(1..Len(deps'[t])) = Len(deps'[t])
        /\ (1..Len(deps'[t]) = {}) <=> (Len(deps'[t]) = 0)
    BY <2>2, IntervalCardinality
  <2> QED BY <2>2, <2>3, <2>4
<1>5. Cardinality({}) = 0
  BY FS_EmptySet
<1>6. KahnInv'
  BY <1>1, <1>3, <1>4, <1>5 DEF KahnInv
<1>7. PromptInv'
  BY <1>1 DEF PromptInv
<1> QED BY <1>6, <1>7

-----------------------------------------------------------------------------
(* One iteration of the loop takes the entries that name a task of the       *)
(* current wave off the pending ones, and off the in-degree.                 *)
LEMMA EmitPending ==
  ASSUME MapInv, KahnInv, EmitWave, NEW t \in Ids
  PROVE  /\ Emitted' = Emitted \cup wave
         /\ Pending(t)' = Pending(t) \ Entries(t, wave)
         /\ Entries(t, wave) \subseteq Pending(t)
         /\ IsFiniteSet(Pending(t))
         /\ inDegree'[t] = Cardinality(Pending(t)') /\ inDegree'[t] \in Nat
         /\ inDegree'[t] = 0 <=> Pending(t)' = {}
<1>1. /\ waves \in Seq(SUBSET Ids) /\ wave \subseteq Ids
      /\ waves' = Append(waves, wave) /\ deps' = deps
      /\ inDegree'[t] = inDegree[t] - Cardinality(Entries(t, wave))
  BY DEF KahnInv, EmitWave
<1>2. /\ Len(waves) \in Nat /\ DOMAIN waves = 1..Len(waves)
      /\ DOMAIN waves' = 1..Len(waves)+1
      /\ \A k \in 1..Len(waves) : waves'[k] = waves[k]
      /\ waves'[Len(waves)+1] = wave
  BY <1>1
<1>3. Emitted' = Emitted \cup wave
  BY <1>2 DEF Emitted
<1>4. wave \cap Emitted = {}
  BY DEF KahnInv
<1>5. Entries(t, wave) \subseteq Pending(t)
  BY <1>4 DEF Entries, Pending
<1>6. Pending(t)' = Pending(t) \ Entries(t, wave)
  BY <1>1, <1>3 DEF Pending, Entries
<1>7. IsFiniteSet(Pending(t))
  <2>1. deps[t] \in Seq(TaskIds)
    BY DEF MapInv
  <2>2. Len(deps[t]) \in Nat /\ DOMAIN deps[t] = 1..Len(deps[t])
    BY <2>1
  <2>3. IsFiniteSet(DOMAIN deps[t])
    BY <2>2, IntervalCardinality
  <2> QED BY <2>3, FS_Subset DEF Pending
<1>8. Cardinality(Pending(t) \ Entries(t, wave))
        = Cardinality(Pending(t)) - Cardinality(Entries(t, wave))
  <2>1. Pending(t) \cap Entries(t, wave) = Entries(t, wave)
    BY <1>5
  <2> QED BY <1>7, <2>1, FS_Difference
<1>9. IsFiniteSet(Pending(t)') /\ Cardinality(Pending(t)') \in Nat
  BY <1>6, <1>7, FS_Difference, FS_CardinalityType
<1>10. inDegree'[t] = Cardinality(Pending(t)')
  BY <1>1, <1>6, <1>8 DEF KahnInv
<1>11. Cardinality(Pending(t)') = 0 <=> Pending(t)' = {}
  BY <1>9, FS_EmptySet
<1> QED BY <1>3, <1>5, <1>6, <1>7, <1>9, <1>10, <1>11

(* A task of an emitted wave has nothing pending.                            *)
LEMMA EmittedNotPending ==
  ASSUME MapInv, KahnInv, NEW t \in Emitted
  PROVE  t \in Ids /\ Pending(t) = {}
<1>1. PICK k \in DOMAIN waves : t \in waves[k]
  BY DEF Emitted
<1>2. waves \in Seq(SUBSET Ids) /\ Len(waves) \in Nat /\ DOMAIN waves = 1..Len(waves)
  BY DEF KahnInv
<1>3. ASSUME NEW i \in DOMAIN deps[t] PROVE deps[t][i] \in Emitted
  <2>1. PICK j \in 1..k-1 : deps[t][i] \in waves[j]
    BY <1>1 DEF KahnInv
  <2>2. j \in DOMAIN waves
    BY <1>2
  <2> QED BY <2>1, <2>2 DEF Emitted
<1> QED BY <1>1, <1>2, <1>3 DEF Pending

(* The next wave is made of the tasks whose last pending entries went.       *)
LEMMA EmitNext ==
  ASSUME MapInv, KahnInv, EmitWave
  PROVE  wave' = {t \in Ids \ Emitted' : Pending(t)' = {}}
<1>1. wave' = {t \in Ids : Entries(t, wave) # {} /\ inDegree'[t] = 0}
  BY DEF EmitWave
<1>2. ASSUME NEW t \in Ids, Entries(t, wave) # {}, inDegree'[t] = 0
      PROVE  t \notin Emitted' /\ Pending(t)' = {}
  <2>1. Pending(t) # {} /\ Pending(t)' = {}
    BY <1>2, EmitPending
  <2>2. t \notin wave
    BY <2>1 DEF KahnInv
  <2>3. t \notin Emitted
    BY <2>1, EmittedNotPending
  <2> QED BY <2>1, <2>2, <2>3, EmitPending
<1>3. ASSUME NEW t \in Ids, t \notin Emitted', Pending(t)' = {}
      PROVE  Entries(t, wave) # {} /\ inDegree'[t] = 0
  <2>1. inDegree'[t] = 0
    BY <1>3, EmitPending
  <2>2. CASE Entries(t, wave) = {}
    <3>1. Pending(t) = {} /\ t \notin Emitted /\ t \notin wave
      BY <1>3, <2>2, EmitPending
    <3> QED BY <3>1 DEF KahnInv
  <2> QED BY <2>1, <2>2
<1> QED BY <1>1, <1>2, <1>3

(* What was emitted is a finite set of the plan's tasks.                     *)
LEMMA EmittedFinite ==
  ASSUME plan \in Plans, MapInv, KahnInv
  PROVE  /\ Emitted \subseteq Ids /\ IsFiniteSet(Emitted)
         /\ IsFiniteSet(wave) /\ wave \cap Emitted = {}
<1>1. waves \in Seq(SUBSET Ids) /\ wave \subseteq Ids /\ wave \cap Emitted = {}
  BY DEF KahnInv
<1>2. Emitted \subseteq Ids
  BY <1>1 DEF Emitted
<1> QED BY <1>1, <1>2, FS_Subset DEF MapInv

(* The wave just emitted keeps the waves layered: its tasks had nothing       *)
(* pending, so each of their dependencies is in a wave emitted before.       *)
LEMMA EmitKahn ==
  ASSUME plan \in Plans, MapInv, KahnInv, EmitWave
  PROVE  KahnInv'
<1> DEFINE n == Len(waves)
<1>1. /\ waves \in Seq(SUBSET Ids) /\ wave \subseteq Ids /\ wave # {}
      /\ waves' = Append(waves, wave) /\ deps' = deps /\ plan' = plan
      /\ processed' = processed + Cardinality(wave)
      /\ Ids' = Ids
  BY DEF KahnInv, EmitWave, Ids
<1>2. /\ n \in Nat /\ DOMAIN waves = 1..n /\ DOMAIN waves' = 1..n+1
      /\ \A k \in 1..n : waves'[k] = waves[k]
      /\ waves'[n+1] = wave
  BY <1>1
<1>3. Emitted' = Emitted \cup wave
  BY <1>2 DEF Emitted
<1>4. /\ Emitted \subseteq Ids /\ IsFiniteSet(Emitted)
      /\ IsFiniteSet(wave) /\ wave \cap Emitted = {}
  BY EmittedFinite
<1>5. waves' \in Seq(SUBSET Ids')
  BY <1>1
<1>6. wave' = {t \in Ids' \ Emitted' : Pending(t)' = {}}
  BY <1>1, EmitNext
<1>7. wave' \subseteq Ids'
  BY <1>6
<1>8. \A t \in Ids' : inDegree'[t] = Cardinality(Pending(t)') /\ inDegree'[t] \in Nat
  BY <1>1, EmitPending
<1>9. inDegree' \in [Ids' -> Nat]
  BY <1>1, <1>8 DEF EmitWave
<1>10. \A k \in DOMAIN waves' : waves'[k] # {}
  BY <1>1, <1>2 DEF KahnInv
<1>11. \A j, k \in DOMAIN waves' : j # k => waves'[j] \cap waves'[k] = {}
  <2>1. \A k \in 1..n : waves[k] \subseteq Emitted
    BY <1>2 DEF Emitted
  <2>2. \A j, k \in 1..n : j # k => waves[j] \cap waves[k] = {}
    BY <1>2 DEF KahnInv
  <2>3. \A k \in DOMAIN waves' : k \in 1..n \/ k = n+1
    BY <1>2
  <2>4. \A k \in 1..n : waves'[k] \cap wave = {}
    BY <1>2, <1>4, <2>1
  <2> QED BY <1>2, <2>2, <2>3, <2>4
<1>12. ASSUME NEW k \in DOMAIN waves', NEW t \in waves'[k], NEW i \in DOMAIN deps'[t]
       PROVE  \E j \in 1..k-1 : deps'[t][i] \in waves'[j]
  <2>1. CASE k \in 1..n
    <3>1. PICK j \in 1..k-1 : deps[t][i] \in waves[j]
      BY <1>1, <1>2, <1>12, <2>1 DEF KahnInv
    <3>2. j \in 1..n
      BY <1>2, <2>1
    <3> QED BY <1>1, <1>2, <3>1, <3>2
  <2>2. CASE k = n+1
    <3>1. t \in wave /\ Pending(t) = {}
      BY <1>2, <1>12, <2>2 DEF KahnInv
    <3>2. deps[t][i] \in Emitted
      BY <1>1, <1>12, <3>1 DEF Pending
    <3>3. PICK j \in 1..n : deps[t][i] \in waves[j]
      BY <1>2, <3>2 DEF Emitted
    <3>4. j \in 1..k-1
      BY <1>2, <2>2
    <3> QED BY <1>1, <1>2, <3>3, <3>4
  <2> QED BY <1>2, <2>1, <2>2
<1>13. processed' = Cardinality(Emitted')
  <2>1. Emitted \cap wave = {}
    BY <1>4
  <2>2. Cardinality(Emitted \cup wave)
          = Cardinality(Emitted) + Cardinality(wave) - Cardinality(Emitted \cap wave)
    BY <1>4, FS_Union
  <2>3. Cardinality(Emitted) \in Nat /\ Cardinality(wave) \in Nat /\ Cardinality({}) = 0
    BY <1>4, FS_CardinalityType, FS_EmptySet
  <2>4. processed = Cardinality(Emitted)
    BY DEF KahnInv
  <2>5. Cardinality(Emitted \cup wave) = Cardinality(Emitted) + Cardinality(wave)
    <3>1. Cardinality(Emitted \cap wave) = 0
      BY <2>1, <2>3
    <3> HIDE DEF Emitted
    <3> QED BY <2>2, <2>3, <3>1
  <2> QED BY <1>1, <1>3, <2>4, <2>5
<1>14. processed' >= Len(waves')
  <2>1. Cardinality(wave) \in Nat /\ Cardinality(wave) # 0
    BY <1>1, <1>4, FS_CardinalityType, FS_EmptySet
  <2>2. processed \in Nat /\ processed >= n
    BY <1>4, FS_CardinalityType DEF KahnInv
  <2>3. Len(waves') = n + 1
    BY <1>1
  <2> QED BY <1>1, <1>2, <2>1, <2>2, <2>3
<1> QED BY <1>5, <1>6, <1>7, <1>8, <1>9, <1>10, <1>11, <1>12, <1>13, <1>14 DEF KahnInv

(* A task enters the current wave only when an entry of its list goes, and   *)
(* the entries that go name tasks of the wave just emitted.                  *)
LEMMA EmitPrompt ==
  ASSUME plan \in Plans, MapInv, KahnInv, PromptInv, EmitWave
  PROVE  PromptInv'
<1> DEFINE n == Len(waves)
<1>1. /\ waves \in Seq(SUBSET Ids) /\ waves' = Append(waves, wave)
      /\ deps' = deps
      /\ wave' = {t \in Ids : Entries(t, wave) # {} /\ inDegree'[t] = 0}
  BY DEF KahnInv, EmitWave
<1>2. /\ n \in Nat /\ DOMAIN waves = 1..n /\ DOMAIN waves' = 1..n+1
      /\ \A k \in 1..n : waves'[k] = waves[k]
      /\ waves'[n+1] = wave /\ Len(waves') = n+1
  BY <1>1
<1>3. ASSUME NEW k \in DOMAIN waves', NEW t \in waves'[k], k > 1
      PROVE  \E i \in DOMAIN deps'[t] : deps'[t][i] \in waves'[k-1]
  <2>1. CASE k \in 1..n
    <3>1. \E i \in DOMAIN deps[t] : deps[t][i] \in waves[k-1]
      BY <1>2, <1>3, <2>1 DEF PromptInv
    <3>2. k-1 \in 1..n
      BY <1>2, <1>3, <2>1
    <3> QED BY <1>1, <1>2, <3>1, <3>2
  <2>2. CASE k = n+1
    <3>1. n \in 1..n /\ waves # <<>> /\ k-1 = n
      BY <1>1, <1>2, <1>3, <2>2
    <3>2. \E i \in DOMAIN deps[t] : deps[t][i] \in waves[n]
      BY <1>2, <1>3, <2>2, <3>1 DEF PromptInv
    <3> QED BY <1>1, <1>2, <3>1, <3>2
  <2> QED BY <1>2, <1>3, <2>1, <2>2
<1>4. \A t \in wave' : \E i \in DOMAIN deps'[t] : deps'[t][i] \in waves'[Len(waves')]
  BY <1>1, <1>2 DEF Entries
<1> QED BY <1>3, <1>4 DEF PromptInv

(* A step that leaves the loop's variables alone leaves its invariant alone.  *)
LEMMA LoopFrame ==
  ASSUME UNCHANGED <<plan, deps, inDegree, waves, wave, processed>>
  PROVE  /\ UNCHANGED Ids
         /\ MapInv => MapInv'
         /\ KahnInv => KahnInv'
         /\ PromptInv => PromptInv'
<1>1. Ids' = Ids /\ Needs' = Needs /\ Emitted' = Emitted
  BY DEF Ids, Needs, Emitted
<1>2. \A t \in Ids : Pending(t)' = Pending(t)
  BY <1>1 DEF Pending
<1>3. {t \in Ids' \ Emitted' : Pending(t)' = {}} = {t \in Ids \ Emitted : Pending(t) = {}}
  BY <1>1, <1>2
<1>4. MapInv => MapInv'
  BY <1>1 DEF MapInv
<1>5. ASSUME KahnInv PROVE KahnInv'
  BY <1>1, <1>2, <1>3, <1>5 DEF KahnInv
<1>6. PromptInv => PromptInv'
  BY DEF PromptInv
<1> QED BY <1>1, <1>4, <1>5, <1>6

-----------------------------------------------------------------------------
(* The invariant of the while loop holds of every plan.                      *)
THEOREM Invariance == Spec => []Inv
<1>1. Init => Inv
  BY DEF Init, Inv
<1>2. Inv /\ [Next]_vars => Inv'
  <2> SUFFICES ASSUME Inv, [Next]_vars PROVE Inv'
    OBVIOUS
  <2>1. CASE Reject
    BY <2>1 DEF Inv, Reject
  <2>2. CASE Prepare
    <3>1. ~Malformed /\ plan \in Plans /\ plan' = plan /\ verdict' = "sorting"
      BY <2>2 DEF Prepare, Inv
    <3> QED BY <2>2, <3>1, PrepareMap, PrepareKahn DEF Inv
  <2>3. CASE EmitWave
    <3>1. /\ plan \in Plans /\ plan' = plan /\ verdict = "sorting" /\ verdict' = "sorting"
          /\ deps' = deps /\ MapInv /\ KahnInv /\ PromptInv
      BY <2>3 DEF EmitWave, Inv
    <3>2. Ids' = Ids /\ Needs' = Needs
      BY <3>1 DEF Ids, Needs
    <3>3. MapInv'
      BY <3>1, <3>2 DEF MapInv
    <3> QED BY <2>3, <3>1, <3>3, EmitKahn, EmitPrompt DEF Inv
  <2>4. CASE Finish
    <3>1. /\ verdict = "sorting" /\ wave = {}
          /\ verdict' = (IF processed < Cardinality(Ids) THEN "circular" ELSE "accepted")
          /\ UNCHANGED <<plan, deps, inDegree, waves, wave, processed>>
      BY <2>4 DEF Finish
    <3>2. MapInv /\ KahnInv /\ PromptInv /\ plan \in Plans
      BY <3>1 DEF Inv
    <3>3. Ids' = Ids /\ MapInv' /\ KahnInv' /\ PromptInv'
      BY <3>1, <3>2, LoopFrame
    <3>4. processed \in Nat /\ Cardinality(Ids) \in Nat
      BY <3>2, EmittedFinite, FS_CardinalityType DEF MapInv, KahnInv
    <3> QED BY <3>1, <3>2, <3>3, <3>4 DEF Inv
  <2>5. CASE UNCHANGED vars
    <3>1. UNCHANGED <<plan, verdict, deps, inDegree, waves, wave, processed>>
      BY <2>5 DEF vars
    <3> QED BY <3>1, LoopFrame DEF Inv
  <2> QED BY <2>1, <2>2, <2>3, <2>4, <2>5 DEF Next, Terminated
<1> QED BY <1>1, <1>2, PTL DEF Spec

-----------------------------------------------------------------------------
(* Every variable of the validator keeps its type.                           *)
THEOREM TypeCorrect == Spec => []TypeOK
<1>1. Inv => TypeOK
  <2> SUFFICES ASSUME Inv PROVE TypeOK
    OBVIOUS
  <2>1. CASE verdict \in {"checking", "malformed"}
    <3>1. /\ deps = <<>> /\ inDegree = <<>> /\ waves = <<>> /\ wave = {} /\ processed = 0
          /\ plan \in Plans
      BY <2>1 DEF Inv
    <3> QED BY <2>1, <3>1 DEF TypeOK, Inv
  <2>2. CASE verdict \in {"sorting", "accepted", "circular"}
    <3>1. MapInv /\ KahnInv /\ plan \in Plans
      BY <2>2 DEF Inv
    <3>2. processed \in Nat
      BY <3>1, EmittedFinite, FS_CardinalityType DEF KahnInv
    <3> QED BY <2>2, <3>1, <3>2 DEF TypeOK, MapInv, KahnInv
  <2> QED BY <2>1, <2>2 DEF Inv
<1> QED BY <1>1, Invariance, PTL

(* An accepted plan comes with waves that hold every task exactly once, each *)
(* after its dependencies: as many tasks were emitted as the plan has, so    *)
(* none is missing.  It is what Orchestrator assumes of the plans it runs.   *)
THEOREM AcceptedPlanCanBeRunHolds == Spec => []AcceptedPlanCanBeRun
<1>1. Inv => AcceptedPlanCanBeRun
  <2> SUFFICES ASSUME Inv, verdict = "accepted" PROVE IsPlan(AcceptedPlan, TaskIds)
    BY DEF AcceptedPlanCanBeRun
  <2>1. MapInv /\ KahnInv /\ processed >= Cardinality(Ids) /\ plan \in Plans
    BY DEF Inv
  <2>2. /\ Emitted \subseteq Ids /\ IsFiniteSet(Ids)
        /\ Cardinality(Emitted) >= Cardinality(Ids)
    BY <2>1, EmittedFinite DEF MapInv, KahnInv
  <2>3. Emitted = Ids
    <3>1. /\ Cardinality(Emitted) <= Cardinality(Ids)
          /\ Cardinality(Emitted) = Cardinality(Ids) => Emitted = Ids
      BY <2>2, FS_Subset
    <3>2. Cardinality(Emitted) \in Nat /\ Cardinality(Ids) \in Nat
      BY <2>1, <2>2, EmittedFinite, FS_CardinalityType
    <3> HIDE DEF Emitted
    <3> QED BY <2>2, <3>1, <3>2
  <2>4. Partitions(Ids, waves)
    BY <2>1, <2>3 DEF Partitions, KahnInv, Emitted
  <2>5. EarlierWaves(Needs, waves)
    <3> SUFFICES ASSUME NEW k \in DOMAIN waves, NEW t \in waves[k], NEW d \in Needs[t]
                 PROVE  \E j \in 1..k-1 : d \in waves[j]
      BY DEF EarlierWaves
    <3>1. t \in Ids
      BY <2>3 DEF Emitted
    <3>2. PICK i \in DOMAIN deps[t] : d = deps[t][i]
      BY <2>1, <3>1 DEF MapInv
    <3> QED BY <2>1, <3>2 DEF KahnInv
  <2>6. Ids \subseteq TaskIds /\ Ids # {} /\ waves \in Seq(SUBSET Ids)
    BY <2>1, PlanType DEF MapInv, KahnInv
  <2>7. DOMAIN Needs = Ids
    BY DEF Needs
  <2>8. \A t \in Ids : Needs[t] \subseteq Ids
    BY <2>1 DEF MapInv
  <2> QED BY <2>4, <2>5, <2>6, <2>7, <2>8 DEF Layered, IsPlan, AcceptedPlan
<1> QED BY <1>1, Invariance, PTL

(* A task outside the first wave has a dependency in the wave before its own. *)
THEOREM NoTaskWaitsNeedlesslyHolds == Spec => []NoTaskWaitsNeedlessly
<1>1. Inv => NoTaskWaitsNeedlessly
  <2> SUFFICES ASSUME Inv, NEW k \in DOMAIN waves, NEW t \in waves[k], k > 1
               PROVE  Needs[t] \cap waves[k-1] # {}
    BY DEF NoTaskWaitsNeedlessly
  <2>1. MapInv /\ KahnInv /\ PromptInv
    BY DEF Inv
  <2>2. PICK i \in DOMAIN deps[t] : deps[t][i] \in waves[k-1]
    BY <2>1 DEF PromptInv
  <2>3. t \in Ids
    BY <2>1 DEF KahnInv
  <2> QED BY <2>1, <2>2, <2>3 DEF MapInv
<1> QED BY <1>1, Invariance, PTL

(* A plan refused as circular has a cycle: the tasks left over when no task   *)
(* is free each wait for another of them.                                    *)
THEOREM CircularMeansCycleHolds == Spec => []CircularMeansCycle
<1>1. Inv => CircularMeansCycle
  <2> SUFFICES ASSUME Inv, verdict = "circular"
               PROVE  \E S \in SUBSET Ids : S # {} /\ \A t \in S : Needs[t] \cap S # {}
    BY DEF CircularMeansCycle
  <2> DEFINE S == Ids \ Emitted
  <2>1. /\ MapInv /\ KahnInv /\ wave = {} /\ processed < Cardinality(Ids) /\ plan \in Plans
    BY DEF Inv
  <2>2. S # {}
    <3>1. Emitted \subseteq Ids /\ Cardinality(Emitted) < Cardinality(Ids)
      BY <2>1, EmittedFinite DEF KahnInv
    <3>2. Cardinality(Ids) \in Nat
      BY <2>1, FS_CardinalityType DEF MapInv
    <3>3. Emitted # Ids
      BY <3>1, <3>2
    <3> QED BY <3>1, <3>3
  <2>3. ASSUME NEW t \in S PROVE Needs[t] \cap S # {}
    <3>1. PICK i \in Pending(t) : TRUE
      BY <2>1, <2>3 DEF KahnInv
    <3>2. i \in DOMAIN deps[t] /\ deps[t][i] \notin Emitted /\ deps[t][i] \in Ids
      BY <2>1, <2>3, <3>1 DEF Pending, MapInv
    <3> QED BY <2>1, <2>3, <3>2 DEF MapInv
  <2> QED BY <2>2, <2>3
<1> QED BY <1>1, Invariance, PTL

(* Each round emits a task that was not emitted before, so there are no more *)
(* rounds than tasks: the measure by which the loop ends.                    *)
THEOREM RoundsAreFewHolds == Spec => []RoundsAreFew
<1>1. Inv => RoundsAreFew
  <2> SUFFICES ASSUME Inv PROVE Len(waves) <= Cardinality(Ids)
    BY DEF RoundsAreFew
  <2>1. CASE verdict \in {"checking", "malformed"}
    <3>1. IsFiniteSet(Ids) /\ Len(waves) = 0
      BY <2>1, PlanType DEF Inv
    <3> QED BY <3>1, FS_CardinalityType
  <2>2. CASE verdict \in {"sorting", "accepted", "circular"}
    <3>1. MapInv /\ KahnInv /\ plan \in Plans
      BY <2>2 DEF Inv
    <3>2. IsFiniteSet(Ids) /\ Emitted \subseteq Ids /\ IsFiniteSet(Emitted)
      BY <3>1, EmittedFinite DEF MapInv
    <3>3. /\ Cardinality(Emitted) <= Cardinality(Ids)
          /\ Cardinality(Emitted) \in Nat /\ Cardinality(Ids) \in Nat
      BY <3>2, FS_Subset, FS_CardinalityType
    <3>4. processed = Cardinality(Emitted) /\ processed >= Len(waves) /\ Len(waves) \in Nat
      BY <3>1 DEF KahnInv
    <3> HIDE DEF Emitted
    <3> QED BY <3>3, <3>4
  <2> QED BY <2>1, <2>2 DEF Inv
<1> QED BY <1>1, Invariance, PTL

(* The four together, as the run checks them.                                *)
THEOREM VerdictIsRightHolds == Spec => []VerdictIsRight
<1>. QED BY AcceptedPlanCanBeRunHolds, NoTaskWaitsNeedlesslyHolds,
            CircularMeansCycleHolds, RoundsAreFewHolds, PTL DEF VerdictIsRight

-----------------------------------------------------------------------------
(* What a plan made here looks like to the validator.                        *)
WellMade(steps) ==
  /\ steps # <<>> /\ Len(steps) \in 1..3 /\ DOMAIN steps = 1..Len(steps)
  /\ \A i, j \in DOMAIN steps : steps[i].name = steps[j].name => i = j
  /\ \A i \in DOMAIN steps :
       /\ DOMAIN steps[i].after = 1..Len(steps[i].after) /\ Len(steps[i].after) \in 0..1
       /\ \A k \in DOMAIN steps[i].after :
            \E j \in DOMAIN steps : j < i /\ steps[j].name = steps[i].after[k]
       /\ steps[i].agent \in RegisteredAgents
       /\ steps[i].tools \subseteq BuiltinTools \cup OSTools

(* The three shapes of plan are well made.                                   *)
LEMMA UseAndVerifyWellMade ==
  ASSUME NEW name, NEW tool, NEW given, name # "task_verify", tool \in BuiltinTools \cup OSTools
  PROVE  WellMade(UseAndVerify(name, tool, given))
BY DEF WellMade, UseAndVerify, Step, RegisteredAgents

(* ... of two steps, the second after the first, ...                         *)
LEMMA ResearchWellMade ==
  ASSUME NEW name, NEW tool, name # "task_verify", name # "task_research",
         tool \in BuiltinTools \cup OSTools
  PROVE  WellMade(ResearchAndWrite(name, tool))
BY DEF WellMade, ResearchAndWrite, Step, RegisteredAgents

(* ... and so is every plan of _deterministic_decompose.                     *)
LEMMA AllWellMade ==
  ASSUME NEW steps \in Deterministic
  PROVE  WellMade(steps)
<1>1. CASE steps = WindowList
  BY <1>1 DEF WindowList, WellMade, Step, RegisteredAgents, OSTools
<1>2. CASE steps = General
  BY <1>2 DEF General, WellMade, Step, RegisteredAgents
<1>3. CASE steps \in {YouTube, WebSearch, Screenshot}
  BY <1>3, UseAndVerifyWellMade DEF YouTube, WebSearch, Screenshot, BuiltinTools, OSTools
<1>4. CASE steps \in {Presentation, Spreadsheet, WordDocument, PdfDocument}
  BY <1>4, ResearchWellMade DEF Presentation, Spreadsheet, WordDocument, PdfDocument, BuiltinTools
<1>5. CASE \E folder \in GoalFolders : steps = OpenFolder(folder)
  BY <1>5, UseAndVerifyWellMade DEF OpenFolder, BuiltinTools
<1>6. CASE \E app \in GoalApps : steps = LaunchApp(app)
  BY <1>6, UseAndVerifyWellMade DEF LaunchApp, BuiltinTools
<1> QED BY <1>1, <1>2, <1>3, <1>4, <1>5, <1>6 DEF Deterministic

(* And what they ask for is there.                                           *)
LEMMA UseAndVerifyCarriedOut ==
  ASSUME NEW name, NEW tool, NEW given, tool \in CodingTools,
         RequiredArguments(tool) \subseteq DOMAIN given,
         tool = "app.launch" => Cardinality(ResolvedApps(given.app_name)) = 1,
         tool = "file.open_directory" => given.directory_name \in KnownDirectories
  PROVE  CanBeCarriedOut(UseAndVerify(name, tool, given))
BY DEF CanBeCarriedOut, UseAndVerify, Step

(* ... of the office tools, ...                                              *)
LEMMA ResearchCarriedOut ==
  ASSUME NEW name, NEW tool \in {"office.create_docx", "office.create_xlsx",
                                 "office.create_pptx", "office.create_pdf"}
  PROVE  CanBeCarriedOut(ResearchAndWrite(name, tool))
<1>1. RequiredArguments(tool) \subseteq BuiltArguments(tool) /\ tool \in CodingTools
  BY DEF RequiredArguments, BuiltArguments, CodingTools
<1> QED BY <1>1 DEF CanBeCarriedOut, ResearchAndWrite, Step

(* The record of applications, entry by entry.                               *)
LEMMA ApplicationsAre ==
  /\ DOMAIN Applications = {"chrome", "edge", "code", "calculator", "notepad", "explorer",
                            "settings", "paint", "taskmgr", "terminal"}
  /\ Applications["chrome"] = {"chrome", "google chrome", "browser"}
  /\ Applications["edge"] = {"edge", "msedge", "microsoft edge"}
  /\ Applications["code"] = {"code", "vscode", "visual studio code", "vs code"}
  /\ Applications["calculator"] = {"calculator", "calc"}
  /\ Applications["notepad"] = {"notepad", "text editor"}
  /\ Applications["explorer"] = {"explorer", "file explorer", "files"}
  /\ Applications["settings"] = {"settings", "windows settings"}
  /\ Applications["paint"] = {"paint", "mspaint"}
  /\ Applications["taskmgr"] = {"task manager", "taskmgr"}
  /\ Applications["terminal"] = {"terminal", "powershell", "windows terminal", "wt"}
BY DEF Applications

(* No application is unknown to the tool or answers to another's name.       *)
LEMMA GoalAppsResolve ==
  ASSUME NEW app \in GoalApps
  PROVE  Cardinality(ResolvedApps(app)) = 1
<1>1. \E a : ResolvedApps(app) = {a}
  <2>1. CASE app = "Calculator"
    <3>1. Normalized(app) = "calculator"
      BY <2>1 DEF Normalized
    <3>2. ResolvedApps(app) = {"calculator"}
      BY <3>1, ApplicationsAre DEF ResolvedApps
    <3> QED BY <3>2
  <2>2. CASE app = "Notepad"
    <3>1. Normalized(app) = "notepad"
      BY <2>2 DEF Normalized
    <3>2. ResolvedApps(app) = {"notepad"}
      BY <3>1, ApplicationsAre DEF ResolvedApps
    <3> QED BY <3>2
  <2>3. CASE app = "VS Code"
    <3>1. Normalized(app) = "vs code"
      BY <2>3 DEF Normalized
    <3>2. ResolvedApps(app) = {"code"}
      BY <3>1, ApplicationsAre DEF ResolvedApps
    <3> QED BY <3>2
  <2>4. CASE app = "Chrome"
    <3>1. Normalized(app) = "chrome"
      BY <2>4 DEF Normalized
    <3>2. ResolvedApps(app) = {"chrome"}
      BY <3>1, ApplicationsAre DEF ResolvedApps
    <3> QED BY <3>2
  <2>5. CASE app = "Edge"
    <3>1. Normalized(app) = "edge"
      BY <2>5 DEF Normalized
    <3>2. ResolvedApps(app) = {"edge"}
      BY <3>1, ApplicationsAre DEF ResolvedApps
    <3> QED BY <3>2
  <2>6. CASE app = "Settings"
    <3>1. Normalized(app) = "settings"
      BY <2>6 DEF Normalized
    <3>2. ResolvedApps(app) = {"settings"}
      BY <3>1, ApplicationsAre DEF ResolvedApps
    <3> QED BY <3>2
  <2>7. CASE app = "File Explorer"
    <3>1. Normalized(app) = "file explorer"
      BY <2>7 DEF Normalized
    <3>2. ResolvedApps(app) = {"explorer"}
      BY <3>1, ApplicationsAre DEF ResolvedApps
    <3> QED BY <3>2
  <2>8. CASE app = "Paint"
    <3>1. Normalized(app) = "paint"
      BY <2>8 DEF Normalized
    <3>2. ResolvedApps(app) = {"paint"}
      BY <3>1, ApplicationsAre DEF ResolvedApps
    <3> QED BY <3>2
  <2>9. CASE app = "PowerShell"
    <3>1. Normalized(app) = "powershell"
      BY <2>9 DEF Normalized
    <3>2. ResolvedApps(app) = {"terminal"}
      BY <3>1, ApplicationsAre DEF ResolvedApps
    <3> QED BY <3>2
  <2>10. CASE app = "Task Manager"
    <3>1. Normalized(app) = "task manager"
      BY <2>10 DEF Normalized
    <3>2. ResolvedApps(app) = {"taskmgr"}
      BY <3>1, ApplicationsAre DEF ResolvedApps
    <3> QED BY <3>2
  <2> QED BY <2>1, <2>2, <2>3, <2>4, <2>5, <2>6, <2>7, <2>8, <2>9, <2>10 DEF GoalApps
<1>2. PICK a : ResolvedApps(app) = {a}
  BY <1>1
<1> QED BY <1>2, FS_Singleton

(* ... and for every plan of _deterministic_decompose.                       *)
LEMMA AllCarriedOut ==
  ASSUME NEW steps \in Deterministic
  PROVE  CanBeCarriedOut(steps)
<1>1. CASE steps = WindowList
  BY <1>1 DEF WindowList, CanBeCarriedOut, Step, CodingTools, RequiredArguments
<1>2. CASE steps = General
  BY <1>2 DEF General, CanBeCarriedOut, Step
<1>3. CASE steps \in {YouTube, WebSearch, Screenshot}
  BY <1>3, UseAndVerifyCarriedOut DEF YouTube, WebSearch, Screenshot, CodingTools, RequiredArguments
<1>4. CASE steps \in {Presentation, Spreadsheet, WordDocument, PdfDocument}
  BY <1>4, ResearchCarriedOut DEF Presentation, Spreadsheet, WordDocument, PdfDocument
<1>5. CASE \E folder \in GoalFolders : steps = OpenFolder(folder)
  BY <1>5, UseAndVerifyCarriedOut
  DEF OpenFolder, GoalFolders, KnownDirectories, CodingTools, RequiredArguments
<1>6. CASE \E app \in GoalApps : steps = LaunchApp(app)
  BY <1>6, UseAndVerifyCarriedOut, GoalAppsResolve DEF LaunchApp, CodingTools, RequiredArguments
<1> QED BY <1>1, <1>2, <1>3, <1>4, <1>5, <1>6 DEF Deterministic

(* AllIds numbers the identifiers.                                           *)
LEMMA IdsAreDistinct ==
  ASSUME IsFiniteSet(TaskIds), Cardinality(TaskIds) >= 4
  PROVE  /\ 1..4 \subseteq DOMAIN AllIds
         /\ \A i, j \in 1..4 : AllIds[i] \in TaskIds /\ (i # j => AllIds[i] # AllIds[j])
<1> DEFINE n == Cardinality(TaskIds)
<1>1. n \in Nat
  BY FS_CardinalityType
<1>2. \E s \in [1..n -> TaskIds] : \A i, j \in DOMAIN s : i # j => s[i] # s[j]
  <2>1. PICK s \in Bijection(1..n, TaskIds) : TRUE
    BY FS_CardinalityType DEF ExistsBijection
  <2>2. s \in [1..n -> TaskIds] /\ \A i, j \in 1..n : s[i] = s[j] => i = j
    BY <2>1 DEF Bijection, Injection, IsInjective
  <2>3. DOMAIN s = 1..n
    BY <2>2
  <2> HIDE DEF n
  <2> QED BY <2>2, <2>3
<1>3. AllIds \in [1..n -> TaskIds] /\ \A i, j \in DOMAIN AllIds : i # j => AllIds[i] # AllIds[j]
  BY <1>2 DEF AllIds
<1>4. 1..4 \subseteq 1..n
  BY <1>1
<1> QED BY <1>3, <1>4

(* A step is where its name is.                                              *)
LEMMA PositionIs ==
  ASSUME NEW steps, WellMade(steps), NEW i \in DOMAIN steps
  PROVE  Position(steps, steps[i].name) = i
BY DEF WellMade, Position

(* What the validator is handed: distinct ids, and dependencies on tasks     *)
(* further up the list only.                                                 *)
LEMMA AsPlanIs ==
  ASSUME IsFiniteSet(TaskIds), Cardinality(TaskIds) >= 4,
         NEW steps, WellMade(steps), plan = AsPlan(steps)
  PROVE  /\ DOMAIN plan = DOMAIN steps /\ Len(plan) = Len(steps)
         /\ \A i \in DOMAIN plan :
              /\ plan[i].id = AllIds[i] /\ plan[i].agent = "enabled"
              /\ plan[i].tools \subseteq {"enabled"}
              /\ DOMAIN plan[i].dependencies = DOMAIN steps[i].after
              /\ \A k \in DOMAIN plan[i].dependencies :
                   \E j \in DOMAIN plan : j < i /\ plan[i].dependencies[k] = AllIds[j]
<1>1. DOMAIN plan = DOMAIN steps /\ Len(plan) = Len(steps)
  BY DEF AsPlan, WellMade
<1>2. ASSUME NEW i \in DOMAIN plan
      PROVE  /\ plan[i].id = AllIds[i] /\ plan[i].agent = "enabled"
             /\ plan[i].tools \subseteq {"enabled"}
             /\ DOMAIN plan[i].dependencies = DOMAIN steps[i].after
             /\ \A k \in DOMAIN plan[i].dependencies :
                   \E j \in DOMAIN plan : j < i /\ plan[i].dependencies[k] = AllIds[j]
  <2>1. i \in DOMAIN steps
    BY <1>1
  <2>2. /\ plan[i].id = AllIds[Position(steps, steps[i].name)]
        /\ plan[i].agent = IF steps[i].agent \in RegisteredAgents THEN "enabled" ELSE "unregistered"
        /\ plan[i].tools = {IF t \in BuiltinTools \cup OSTools THEN "enabled" ELSE "unregistered" :
                 t \in steps[i].tools}
        /\ plan[i].dependencies = [k \in DOMAIN steps[i].after |-> AllIds[Position(steps, steps[i].after[k])]]
    BY <2>1 DEF AsPlan
  <2>3. Position(steps, steps[i].name) = i
    BY <2>1, PositionIs
  <2>4. steps[i].agent \in RegisteredAgents /\ steps[i].tools \subseteq BuiltinTools \cup OSTools
    BY <2>1 DEF WellMade
  <2>5. ASSUME NEW k \in DOMAIN plan[i].dependencies
        PROVE  \E j \in DOMAIN plan : j < i /\ plan[i].dependencies[k] = AllIds[j]
    <3>1. k \in DOMAIN steps[i].after
      BY <2>2, <2>5
    <3>2. PICK j \in DOMAIN steps : j < i /\ steps[j].name = steps[i].after[k]
      BY <2>1, <3>1 DEF WellMade
    <3>3. Position(steps, steps[i].after[k]) = j
      BY <3>2, PositionIs
    <3> QED BY <1>1, <2>2, <3>1, <3>2, <3>3
  <2> QED BY <2>2, <2>3, <2>4, <2>5
<1> QED BY <1>1, <1>2

(* Such a plan passes the checks, and has no cycle: each task of one would   *)
(* have another of it further up, without end.                                *)
LEMMA WellMadeIsAccepted ==
  ASSUME IsFiniteSet(TaskIds), Cardinality(TaskIds) >= 4, MaxSteps \in Nat, MaxSteps >= 3,
         NEW steps, WellMade(steps), plan = AsPlan(steps)
  PROVE  /\ ~Malformed
         /\ ~\E S \in SUBSET Ids : S # {} /\ \A t \in S : Needs[t] \cap S # {}
<1>1. /\ DOMAIN plan = DOMAIN steps /\ Len(plan) = Len(steps) /\ Len(plan) \in 1..3
      /\ DOMAIN plan = 1..Len(plan)
  BY AsPlanIs DEF WellMade
<1>2. \A i \in DOMAIN plan :
              /\ plan[i].id = AllIds[i] /\ plan[i].agent = "enabled" /\ plan[i].tools \subseteq {"enabled"}
              /\ \A k \in DOMAIN plan[i].dependencies :
                   \E j \in DOMAIN plan : j < i /\ plan[i].dependencies[k] = AllIds[j]
  BY AsPlanIs
<1>3. \A i, j \in DOMAIN plan : i # j => AllIds[i] # AllIds[j]
  BY <1>1, IdsAreDistinct
<1>4. ~HasDuplicateId
  BY <1>2, <1>3 DEF HasDuplicateId
<1>5. ASSUME NEW i \in DOMAIN plan PROVE ~BadDependency(plan[i]) /\ ~Unusable(plan[i])
  <2>1. ~Unusable(plan[i])
    BY <1>2 DEF Unusable
  <2>2. ASSUME NEW k \in DOMAIN plan[i].dependencies
        PROVE  plan[i].dependencies[k] # plan[i].id /\ plan[i].dependencies[k] \in Ids
    <3>1. PICK j \in DOMAIN plan : j < i /\ plan[i].dependencies[k] = AllIds[j]
      BY <1>2
    <3>2. i # j
      BY <1>1, <3>1
    <3> QED BY <1>2, <1>3, <3>1, <3>2 DEF Ids
  <2> QED BY <2>1, <2>2 DEF BadDependency
<1>6. plan # <<>> /\ ~(Len(plan) > MaxSteps)
  <2>1. 1 \in DOMAIN plan
    BY <1>1
  <2>2. plan # <<>>
    BY <2>1
  <2>3. Len(plan) \in 1..3
    BY <1>1
  <2>4. \A n \in 1..3 : ~(n > MaxSteps)
    OBVIOUS
  <2>5. ~(Len(plan) > MaxSteps)
    BY <2>3, <2>4
  <2> QED BY <2>2, <2>5
<1>7. ~Malformed
  BY <1>4, <1>5, <1>6 DEF Malformed
<1>8. ASSUME NEW S \in SUBSET Ids, S # {}, \A t \in S : Needs[t] \cap S # {}
      PROVE  FALSE
  <2>1. ASSUME NEW i \in DOMAIN plan, plan[i].id \in S
        PROVE  \E j \in DOMAIN plan : j < i /\ plan[j].id \in S
    <3>1. PICK d \in Needs[plan[i].id] : d \in S
      BY <1>8, <2>1
    <3>2. {k \in DOMAIN plan : plan[k].id = plan[i].id} = {i}
      BY <1>4 DEF HasDuplicateId
    <3>3. plan[i].id \in Ids
      BY DEF Ids
    <3>4. PICK k \in DOMAIN plan[i].dependencies : d = plan[i].dependencies[k]
      BY <3>1, <3>2, <3>3 DEF Needs
    <3> QED BY <1>2, <3>1, <3>4
  <2>2. PICK i \in DOMAIN plan : plan[i].id \in S
    BY <1>8 DEF Ids
  <2>3. i \in {1, 2, 3}
    BY <1>1, <2>2
  <2>4. PICK j \in DOMAIN plan : j < i /\ plan[j].id \in S
    BY <2>1, <2>2
  <2>5. PICK k \in DOMAIN plan : k < j /\ plan[k].id \in S
    BY <2>1, <2>4
  <2>6. PICK l \in DOMAIN plan : l < k
    BY <2>1, <2>5
  <2> QED BY <1>1, <2>2, <2>4, <2>5, <2>6
<1> QED BY <1>7, <1>8

(* A plan is refused as malformed for a reason.                              *)
RefusedIsMalformed == verdict = "malformed" => Malformed

(* A verdict of malformed is given only by the checks.                       *)
LEMMA RefusedForAReason == Spec => []RefusedIsMalformed
<1>1. Init => RefusedIsMalformed
  BY DEF Init, RefusedIsMalformed
<1>2. ASSUME RefusedIsMalformed, [Next]_vars PROVE RefusedIsMalformed'
  <2>1. plan' = plan
    BY <1>2 DEF Next, Reject, Prepare, EmitWave, Finish, Terminated, vars
  <2>2. Malformed' = Malformed
    BY <2>1 DEF Malformed, HasDuplicateId, BadDependency, Unusable, Ids
  <2> QED BY <1>2, <2>2 DEF RefusedIsMalformed, Next, Reject, Prepare, EmitWave, Finish,
            Terminated, vars
<1> QED BY <1>1, <1>2, PTL DEF Spec

(* Whatever other plans there are, one that _deterministic_decompose makes   *)
(* is accepted and can be carried out, as long as the validator lets three   *)
(* tasks through (it is built for twenty).  Four identifiers are what the    *)
(* model needs to write such a plan down: three tasks and a stranger.        *)
THEOREM FallbackIsAcceptedHolds ==
  ASSUME Cardinality(TaskIds) >= 4, MaxSteps >= 3
  PROVE  Spec => []FallbackIsAccepted
<1>1. RefusedIsMalformed /\ CircularMeansCycle => FallbackIsAccepted
  <2> SUFFICES ASSUME RefusedIsMalformed, CircularMeansCycle,
                      NEW steps \in Deterministic, plan = AsPlan(steps)
               PROVE  verdict \notin {"malformed", "circular"} /\ CanBeCarriedOut(steps)
    BY DEF FallbackIsAccepted
  <2>1. WellMade(steps) /\ CanBeCarriedOut(steps)
    BY AllWellMade, AllCarriedOut
  <2>2. ~Malformed /\ ~\E S \in SUBSET Ids : S # {} /\ \A t \in S : Needs[t] \cap S # {}
    BY <2>1, WellMadeIsAccepted, MaxStepsAssumption, PlansAssumption
  <2> QED BY <2>1, <2>2 DEF RefusedIsMalformed, CircularMeansCycle
<1> QED BY <1>1, RefusedForAReason, CircularMeansCycleHolds, PTL
=============================================================================
