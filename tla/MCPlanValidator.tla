--------------------------- MODULE MCPlanValidator ---------------------------
(* Every plan of up to three tasks over the three ids, with dependency lists *)
(* of up to two entries that may repeat an id, and every plan of four tasks  *)
(* with up to two distinct dependencies each; a few plans whose tasks have a *)
(* missing or disabled agent or tool; the planner's own plans.  MaxSteps = 4  *)
(* with one five-task plan.                                                  *)
EXTENDS Planner

Short(n) == UNION {[1..k -> TaskIds] : k \in 0..n}

Task(t, d) == [id |-> t, dependencies |-> d, agent |-> "enabled", tools |-> {"enabled"}]

UpTo(n, ids, lists) ==
  UNION {[1..k -> {Task(t, d) : t \in ids, d \in lists}] : k \in 0..n}

ThreeTasks ==
  {<<Task(AllIds[1], d1), Task(AllIds[2], d2), Task(AllIds[3], d3)>> :
     d1, d2, d3 \in Short(2)}

Increasing == {d \in Short(2) : Len(d) = 2 => d[1] # d[2]}

FourTasks ==
  {<<Task(AllIds[1], d1), Task(AllIds[2], d2), Task(AllIds[3], d3), Task(AllIds[4], d4)>> :
     d1 \in {<<>>, <<AllIds[4]>>}, d2, d3, d4 \in Increasing}

Barred ==
  {<<Task(AllIds[1], <<>>), [id |-> AllIds[2], dependencies |-> <<AllIds[1]>>,
                             agent |-> a, tools |-> u]>> :
     a \in Standing, u \in {{}, {"enabled"}, {"enabled", "disabled"}, {"unregistered"}}}

TooLong == {[i \in 1..MaxSteps+1 |-> Task(AllIds[1], <<>>)]}

MCPlans == UpTo(2, TaskIds, Short(1)) \cup ThreeTasks \cup FourTasks \cup Barred \cup TooLong
             \cup FallbackPlans
=============================================================================
