----------------------------- MODULE EngineProofs ------------------------------
(* Proofs about Engine, for any number of services, signals and events.      *)
EXTENDS Engine, TLAPS

(* The bus: what is set only when nothing is in flight and nothing can be.   *)
Drains ==
  /\ main = "new" => ~stopped /\ \A c \in Callers : call[c] = "idle"
  /\ \A c \in Callers : call[c] = "draining" => ~busUp
  /\ stopped => Active = {} /\ ~busUp
  /\ DoneMeansDrained
  /\ main = "raised" => call[Cleanup] = "done"
  /\ main = "returned" => stopped

NoneUp == \A i \in 1 .. N : svc[i] \notin Up

(* Up to service at the start is under way, and nobody shuts anything down.  *)
StartIsAlone ==
  main = "new" \/ StartingServices =>
    /\ ~stopped /\ \A c \in Callers : call[c] = "idle"
    /\ main = "new" => at = 0
    /\ \A i \in 1 .. N : i > at => svc[i] = "created"
    /\ \A i \in 1 .. N : i <= at => svc[i] \in Up

(* Where a shutdown has come to, everything above is down.                   *)
WalksDown ==
  /\ \A c \in Callers :
       /\ call[c] = "stopping" =>
            pos[c] >= 1 /\ \A i \in 1 .. N : i >= pos[c] => svc[i] \notin Up
       /\ call[c] \in {"draining", "done"} => NoneUp
  /\ stopped => NoneUp

Ordered == ~early => StartIsAlone /\ WalksDown
Placed == \A c \in Callers : call[c] = "stopping" => pos[c] >= 1

IInv == TypeOK /\ Placed /\ Drains /\ Ordered /\ StopsInReverse

-----------------------------------------------------------------------------
(* What the rest of a shutdown does, from service i down, to services in     *)
(* states s.                                                                 *)
LEMMA StopFromTyped ==
  ASSUME TypeOK, Placed, NEW c \in Callers, NEW i \in 0 .. N, NEW s \in [1 .. N -> ServiceStates],
         StopFrom(c, i, s)
  PROVE  /\ main' \in {"raised", main} /\ stopped' \in BOOLEAN /\ busUp' \in BOOLEAN
         /\ svc' \in [1 .. N -> ServiceStates]
         /\ call' \in [Callers -> CallStates] /\ pos' \in [Callers -> 0 .. N]
         /\ task' \in [Dispatches -> {"none", "running", "cancelled", "ended"}]
         /\ Placed'
<1>1. CASE ToStop(s, i) = {}
  <2>1. svc' = s /\ pos' = [pos EXCEPT ![c] = 0] /\ BusStop(c)
    BY <1>1 DEF StopFrom
  <2>2. /\ main' \in {"raised", main} /\ stopped' \in BOOLEAN /\ busUp' \in BOOLEAN
        /\ task' \in [Dispatches -> {"none", "running", "cancelled", "ended"}]
    BY <2>1 DEF BusStop, Completes, Returns, TypeOK
  <2>3. \/ call' = [call EXCEPT ![c] = "draining"]
        \/ call' = [call EXCEPT ![c] = "done"]
    BY <2>1 DEF BusStop, Completes, Returns
  <2>4. /\ call' \in [Callers -> CallStates]
        /\ \A e \in Callers : call'[e] = "stopping" => e # c /\ call[e] = "stopping"
    BY <2>3 DEF TypeOK, CallStates
  <2>5. pos' \in [Callers -> 0 .. N]
    BY <2>1, EngineAssumption DEF TypeOK
  <2>6. Placed'
    BY <2>1, <2>4 DEF Placed, TypeOK
  <2>. QED BY <2>1, <2>2, <2>4, <2>5, <2>6
<1>2. CASE ToStop(s, i) # {}
  <2>1. PICK j \in ToStop(s, i) :
          /\ svc' = [s EXCEPT ![j] = "stopping"]
          /\ call' = [call EXCEPT ![c] = "stopping"] /\ pos' = [pos EXCEPT ![c] = j]
          /\ UNCHANGED <<main, stopped, busUp, task>>
    BY <1>2 DEF StopFrom
  <2>2. j \in 1 .. N
    BY EngineAssumption DEF ToStop
  <2>. QED BY <2>1, <2>2, EngineAssumption DEF TypeOK, CallStates, ServiceStates, Placed
<1>. QED BY <1>1, <1>2

(* On the bus it leaves nothing that could still be handled.                 *)
LEMMA StopFromDrains ==
  ASSUME TypeOK, Drains, Alive, NEW c \in Callers, call[c] # "done", NEW i, NEW s,
         StopFrom(c, i, s)
  PROVE  Drains'
<1>1. CASE UNCHANGED <<main, stopped, busUp, task>> /\ call' = [call EXCEPT ![c] = "stopping"]
  BY <1>1 DEF TypeOK, Drains, DoneMeansDrained, Active, Alive
<1>2. CASE BusStop(c)
  <2>1. ~busUp' /\ (Active = {} => Active' = {})
    BY <1>2 DEF BusStop, Active
  <2>2. \A e \in Callers : call[e] = "done" \/ stopped => Active' = {}
    BY <2>1 DEF Drains, DoneMeansDrained
  <2>3. CASE Active = {} /\ Completes(c)
    BY <2>1, <2>2, <2>3 DEF Completes, Returns, TypeOK, Drains, DoneMeansDrained, Alive, Callers
  <2>4. CASE call' = [call EXCEPT ![c] = "draining"] /\ UNCHANGED <<main, stopped>>
    BY <2>1, <2>2, <2>4 DEF TypeOK, Drains, DoneMeansDrained, Alive
  <2>. QED BY <1>2, <2>3, <2>4 DEF BusStop
<1>. QED BY <1>1, <1>2 DEF StopFrom

(* If what is above i is down and the order holds in s, both hold after it.  *)
InReverse(s) == \A i, j \in 1 .. N :
                  i < j /\ s[i] \in {"stopping", "stopped"} => s[j] \notin Up

(* ... as it is of the walk from a service downwards.                        *)
LEMMA StopFromOrdered ==
  ASSUME TypeOK, Placed, WalksDown,
         NEW c \in Callers, NEW i \in 0 .. N, NEW s \in [1 .. N -> ServiceStates],
         StopFrom(c, i, s), InReverse(s), \A k \in 1 .. N : k > i => s[k] \notin Up,
         \A k \in 1 .. N : s[k] \in Up => svc[k] \in Up
  PROVE  WalksDown' /\ InReverse(svc)'
<1>1. CASE ToStop(s, i) = {}
  <2>1. \A k \in 1 .. N : k <= i => s[k] \in {"created", "stopped"}
    BY <1>1, EngineAssumption DEF ToStop
  <2>2. svc' = s /\ BusStop(c) /\ pos' = [pos EXCEPT ![c] = 0]
    BY <1>1 DEF StopFrom
  <2>3. NoneUp'
    BY <2>1, <2>2, EngineAssumption DEF NoneUp, Up
  <2>4. \/ call' = [call EXCEPT ![c] = "draining"]
        \/ call' = [call EXCEPT ![c] = "done"]
    BY <2>2 DEF BusStop, Completes, Returns
  <2>5. \A e \in Callers : call'[e] = "stopping" => e # c /\ call[e] = "stopping"
    BY <2>4 DEF TypeOK
  <2>6. \A e \in Callers : call'[e] = "stopping" => call[e] = "stopping" /\ pos'[e] = pos[e]
    BY <2>2, <2>5 DEF TypeOK
  <2>7. WalksDown'
    BY <2>3, <2>6 DEF WalksDown, NoneUp
  <2>8. InReverse(svc)'
    BY <2>2 DEF InReverse
  <2>. QED BY <2>7, <2>8
<1>2. CASE ToStop(s, i) # {}
  <2>1. PICK j \in ToStop(s, i) :
          /\ \A k \in ToStop(s, i) : k <= j
          /\ svc' = [s EXCEPT ![j] = "stopping"]
          /\ call' = [call EXCEPT ![c] = "stopping"] /\ pos' = [pos EXCEPT ![c] = j]
          /\ UNCHANGED <<main, stopped, busUp, task>>
    BY <1>2 DEF StopFrom
  <2>2. j \in 1 .. N /\ \A k \in 1 .. N : k > j /\ k <= i => s[k] \in {"created", "stopped"}
    BY <2>1, EngineAssumption DEF ToStop
  <2>3. \A k \in 1 .. N : k >= j => svc'[k] \notin Up
    BY <2>1, <2>2, EngineAssumption DEF Up
  <2>4. \A k \in 1 .. N : svc'[k] \in Up => svc[k] \in Up /\ s[k] \in Up
    BY <2>1, <2>2 DEF Up
  <2>5. WalksDown'
    BY <2>1, <2>2, <2>3, <2>4, EngineAssumption DEF WalksDown, NoneUp, TypeOK
  <2>6. InReverse(svc)'
    BY <2>1, <2>2, <2>3, <2>4, EngineAssumption DEF InReverse, Up
  <2>. QED BY <2>5, <2>6
<1>. QED BY <1>1, <1>2

-----------------------------------------------------------------------------
(* The same of a whole shutdown(), whose first check may end it at once.     *)
LEMMA ShutdownTyped ==
  ASSUME TypeOK, Placed, NEW c \in Callers, NEW s \in [1 .. N -> ServiceStates], Shutdown(c, s),
         UNCHANGED at, early' \in BOOLEAN
  PROVE  TypeOK'
<1>1. CASE svc' = s /\ Returns(c) /\ UNCHANGED <<engineUp, stopped, pos, busUp, task>>
  BY <1>1 DEF TypeOK, Returns, CallStates
<1>2. CASE engineUp' = FALSE /\ StopFrom(c, N, s)
  <2>1. N \in 0 .. N
    BY EngineAssumption
  <2>2. /\ main' \in {"raised", main} /\ stopped' \in BOOLEAN /\ busUp' \in BOOLEAN
        /\ svc' \in [1 .. N -> ServiceStates]
        /\ call' \in [Callers -> CallStates] /\ pos' \in [Callers -> 0 .. N]
        /\ task' \in [Dispatches -> {"none", "running", "cancelled", "ended"}]
    BY <1>2, <2>1, StopFromTyped
  <2>. QED BY <1>2, <2>2 DEF TypeOK
<1>. QED BY <1>1, <1>2 DEF Shutdown

(* ... a call that waits has a service to wait for, ...                      *)
LEMMA ShutdownPlaced ==
  ASSUME TypeOK, Placed, NEW c \in Callers, NEW s \in [1 .. N -> ServiceStates], Shutdown(c, s)
  PROVE  Placed'
<1>1. CASE svc' = s /\ Returns(c) /\ UNCHANGED <<engineUp, stopped, pos, busUp, task>>
  BY <1>1 DEF TypeOK, Returns, Placed
<1>2. CASE engineUp' = FALSE /\ StopFrom(c, N, s)
  BY <1>2, StopFromTyped, EngineAssumption
<1>. QED BY <1>1, <1>2 DEF Shutdown

(* ... the bus is drained before a call is done, ...                         *)
LEMMA ShutdownDrains ==
  ASSUME TypeOK, Drains, Alive, NEW c \in Callers, call[c] # "done", NEW s, Shutdown(c, s)
  PROVE  Drains'
<1>1. CASE /\ stopped /\ Returns(c)
           /\ UNCHANGED <<engineUp, stopped, pos, busUp, task>>
  BY <1>1 DEF TypeOK, Drains, DoneMeansDrained, Active, Returns, Alive, Callers
<1>2. CASE engineUp' = FALSE /\ StopFrom(c, N, s)
  BY <1>2, StopFromDrains
<1>. QED BY <1>1, <1>2 DEF Shutdown

(* ... and services go down in reverse.                                      *)
LEMMA ShutdownOrdered ==
  ASSUME TypeOK, Placed, WalksDown, NEW c \in Callers, NEW s \in [1 .. N -> ServiceStates],
         Shutdown(c, s), InReverse(s), \A k \in 1 .. N : s[k] \in Up => svc[k] \in Up
  PROVE  WalksDown' /\ InReverse(svc)'
<1>1. CASE stopped /\ svc' = s /\ Returns(c) /\ UNCHANGED <<engineUp, stopped, pos, busUp, task>>
  <2>1. NoneUp'
    BY <1>1 DEF WalksDown, NoneUp
  <2>2. WalksDown'
    BY <1>1, <2>1 DEF WalksDown, Returns, TypeOK, NoneUp
  <2>3. InReverse(svc)'
    BY <1>1 DEF InReverse
  <2>. QED BY <2>2, <2>3
<1>2. CASE StopFrom(c, N, s)
  <2>1. \A k \in 1 .. N : k > N => s[k] \notin Up
    BY EngineAssumption
  <2>2. N \in 0 .. N
    BY EngineAssumption
  <2>. QED BY <1>2, <2>1, <2>2, StopFromOrdered
<1>. QED BY <1>1, <1>2 DEF Shutdown

(* A caller that is under way or has ended keeps the start from going on.    *)
LEMMA CallMoves ==
  ASSUME TypeOK, NEW c \in Callers, NEW i, NEW s,
         StopFrom(c, i, s) \/ Shutdown(c, s) \/ Drained(c)
  PROVE  /\ \E x \in {"stopping", "draining", "done"} : call' = [call EXCEPT ![c] = x]
         /\ main' \in {main, "raised"}
BY DEF StopFrom, Shutdown, Drained, BusStop, Completes, Returns

(* ... so nothing is left to say of a start.                                 *)
LEMMA StaysOff ==
  ASSUME TypeOK, Alive, NEW c \in Callers, c = Cleanup \/ ~StartingServices,
         \E x \in {"stopping", "draining", "done"} : call' = [call EXCEPT ![c] = x],
         main' \in {main, "raised"}
  PROVE  StartIsAlone'
BY DEF StartIsAlone, StartingServices, Alive, TypeOK, Callers

-----------------------------------------------------------------------------
(* The steps, in three groups: shutting down, starting, and the bus.         *)
ShutStep(c) == (c \in Signals /\ Signal(c)) \/ StopReturns(c) \/ Drained(c)
StartStep == Start \/ StartReturns \/ StartRaises \/ MainReturns
BusStep == \E d \in Dispatches : Publish(d) \/ DispatchEnds(d)

(* Every step is of one of the groups.                                       *)
LEMMA StepCases ==
  ASSUME [Next]_vars
  PROVE  (\E c \in Callers : ShutStep(c)) \/ StartStep \/ BusStep \/ UNCHANGED vars
BY DEF Next, ShutStep, StartStep, BusStep, Callers

(* Where StopReturns leaves the services before the loop goes on.            *)
LEMMA StopReturnsFrom ==
  ASSUME TypeOK, Placed, NEW c \in Callers, StopReturns(c)
  PROVE  \E s \in [1 .. N -> ServiceStates] :
           /\ StopFrom(c, pos[c] - 1, s) /\ pos[c] \in 1 .. N
           /\ \E result \in {"stopped", "failed"} : s = [svc EXCEPT ![pos[c]] = result]
<1>1. PICK result \in {"stopped", "failed"} :
        StopFrom(c, pos[c] - 1, [svc EXCEPT ![pos[c]] = result])
  BY DEF StopReturns
<1>2. pos[c] \in 1 .. N
  BY EngineAssumption DEF StopReturns, Placed, TypeOK
<1>3. [svc EXCEPT ![pos[c]] = result] \in [1 .. N -> ServiceStates]
  BY <1>2 DEF TypeOK, ServiceStates
<1>. QED BY <1>1, <1>2, <1>3

(* The invariant: types and positions.                                       *)
LEMMA TypedStep ==
  ASSUME TypeOK, Placed, [Next]_vars
  PROVE  TypeOK' /\ Placed'
<1>1. ASSUME NEW c \in Callers, ShutStep(c) PROVE TypeOK' /\ Placed'
  <2>1. CASE c \in Signals /\ Signal(c)
    <3>1. Shutdown(c, svc) /\ UNCHANGED at /\ early' \in BOOLEAN
      BY <2>1 DEF Signal, TypeOK, StartingServices
    <3>. QED BY <3>1, ShutdownTyped, ShutdownPlaced DEF TypeOK
  <2>2. CASE StopReturns(c)
    <3>1. PICK s \in [1 .. N -> ServiceStates] :
            StopFrom(c, pos[c] - 1, s) /\ pos[c] \in 1 .. N
      BY <2>2, StopReturnsFrom
    <3>2. pos[c] - 1 \in 0 .. N
      BY <3>1, EngineAssumption
    <3>3. /\ main' \in {"raised", main} /\ stopped' \in BOOLEAN /\ busUp' \in BOOLEAN
          /\ svc' \in [1 .. N -> ServiceStates]
          /\ call' \in [Callers -> CallStates] /\ pos' \in [Callers -> 0 .. N]
          /\ task' \in [Dispatches -> {"none", "running", "cancelled", "ended"}]
          /\ Placed'
      BY <3>1, <3>2, StopFromTyped
    <3>. QED BY <2>2, <3>3 DEF StopReturns, TypeOK
  <2>3. CASE Drained(c)
    BY <2>3 DEF Drained, Completes, Returns, TypeOK, Placed, CallStates
  <2>. QED BY <1>1, <2>1, <2>2, <2>3 DEF ShutStep
<1>2. CASE StartStep
  <2>1. CASE Start
    BY <2>1, EngineAssumption DEF Start, TypeOK, Placed, ServiceStates
  <2>2. CASE StartReturns
    <3>1. svc' \in [1 .. N -> ServiceStates]
      BY <2>2 DEF StartReturns, TypeOK, ServiceStates
    <3>2. at' \in 0 .. N
      BY <2>2, EngineAssumption DEF StartReturns, TypeOK
    <3>. QED BY <2>2, <3>1, <3>2 DEF StartReturns, TypeOK, Placed
  <2>3. CASE StartRaises
    <3>1. [svc EXCEPT ![at] = "failed"] \in [1 .. N -> ServiceStates] /\ Cleanup \in Callers
      BY DEF TypeOK, ServiceStates, Callers
    <3>2. Shutdown(Cleanup, [svc EXCEPT ![at] = "failed"]) /\ UNCHANGED at /\ early' \in BOOLEAN
      BY <2>3 DEF StartRaises, TypeOK
    <3>. QED BY <3>1, <3>2, ShutdownTyped, ShutdownPlaced
  <2>4. CASE MainReturns
    BY <2>4 DEF MainReturns, engine, TypeOK, Placed
  <2>. QED BY <1>2, <2>1, <2>2, <2>3, <2>4 DEF StartStep
<1>3. CASE BusStep
  BY <1>3 DEF BusStep, Publish, DispatchEnds, engine, TypeOK, Placed
<1>4. CASE UNCHANGED vars
  BY <1>4 DEF vars, engine, TypeOK, Placed
<1>. QED BY <1>1, <1>2, <1>3, <1>4, StepCases

(* The invariant: the bus.                                                   *)
LEMMA DrainsStep ==
  ASSUME TypeOK, Placed, Drains, [Next]_vars
  PROVE  Drains'
<1>1. ASSUME NEW c \in Callers, ShutStep(c) PROVE Drains'
  <2>1. CASE c \in Signals /\ Signal(c)
    BY <2>1, ShutdownDrains DEF Signal
  <2>2. CASE StopReturns(c)
    <3>1. \E s : StopFrom(c, pos[c] - 1, s)
      BY <2>2 DEF StopReturns
    <3>. QED BY <2>2, <3>1, StopFromDrains DEF StopReturns
  <2>3. CASE Drained(c)
    BY <2>3 DEF Drained, Completes, Returns, TypeOK, Drains, DoneMeansDrained, Active, Alive,
                Callers
  <2>. QED BY <1>1, <2>1, <2>2, <2>3 DEF ShutStep
<1>2. CASE StartStep
  <2>1. CASE Start
    BY <2>1 DEF Start, Drains, DoneMeansDrained, Active
  <2>2. CASE StartReturns
    BY <2>2 DEF StartReturns, StartingServices, Drains, DoneMeansDrained, Active
  <2>3. CASE StartRaises
    <3>1. Alive /\ Cleanup \in Callers /\ call[Cleanup] # "done"
      BY <2>3 DEF StartRaises, StartingServices, Alive, Callers
    <3>2. Shutdown(Cleanup, [svc EXCEPT ![at] = "failed"])
      BY <2>3 DEF StartRaises
    <3>. QED BY <3>1, <3>2, ShutdownDrains
  <2>4. CASE MainReturns
    BY <2>4 DEF MainReturns, engine, Drains, DoneMeansDrained, Active
  <2>. QED BY <1>2, <2>1, <2>2, <2>3, <2>4 DEF StartStep
<1>3. CASE BusStep
  <2>1. PICK d \in Dispatches : Publish(d) \/ DispatchEnds(d)
    BY <1>3 DEF BusStep
  <2>2. CASE Publish(d)
    BY <2>2 DEF Publish, engine, Drains, DoneMeansDrained, Active, Alive
  <2>3. CASE DispatchEnds(d)
    <3>1. Active' \subseteq Active
      BY <2>3 DEF DispatchEnds, Active, TypeOK
    <3>. QED BY <2>3, <3>1 DEF DispatchEnds, engine, Drains, DoneMeansDrained
  <2>. QED BY <2>1, <2>2, <2>3
<1>4. CASE UNCHANGED vars
  BY <1>4 DEF vars, engine, Drains, DoneMeansDrained, Active
<1>. QED BY <1>1, <1>2, <1>3, <1>4, StepCases

(* The invariant: the order of services.                                     *)
LEMMA OrderedStep ==
  ASSUME TypeOK, Placed, Drains, Ordered, StopsInReverse, [Next]_vars
  PROVE  Ordered' /\ StopsInReverse'
<1>. SUFFICES ASSUME ~early' PROVE StartIsAlone' /\ WalksDown' /\ InReverse(svc)'
  BY DEF Ordered, StopsInReverse, InReverse
<1>1. ~early
  <2>1. early' = early \/ \E c \in Signals : Signal(c)
    BY DEF Next, Start, StartReturns, StartRaises, MainReturns, StopReturns, Drained, Publish,
           DispatchEnds, vars
  <2>. QED BY <2>1 DEF Signal, TypeOK
<1>2. StartIsAlone /\ WalksDown /\ InReverse(svc)
  BY <1>1 DEF Ordered, StopsInReverse, InReverse
<1>3. ASSUME NEW c \in Callers, ShutStep(c)
      PROVE  StartIsAlone' /\ WalksDown' /\ InReverse(svc)'
  <2>1. Alive /\ ~StartingServices
    <3>1. CASE c \in Signals /\ Signal(c)
      BY <3>1 DEF Signal
    <3>2. CASE StopReturns(c) \/ Drained(c)
      BY <3>2, <1>2 DEF StopReturns, Drained, StartIsAlone
    <3>. QED BY <1>3, <3>1, <3>2 DEF ShutStep
  <2>2. StartIsAlone'
    <3>1. (\E i, s : StopFrom(c, i, s) \/ Shutdown(c, s)) \/ Drained(c)
      BY <1>3 DEF ShutStep, Signal, StopReturns
    <3>2. /\ \E x \in {"stopping", "draining", "done"} : call' = [call EXCEPT ![c] = x]
          /\ main' \in {main, "raised"}
      BY <3>1, CallMoves
    <3>. QED BY <2>1, <3>2, StaysOff
  <2>3. CASE c \in Signals /\ Signal(c)
    BY <2>2, <2>3, <1>2, ShutdownOrdered DEF Signal, TypeOK
  <2>4. CASE StopReturns(c)
    <3>1. PICK s \in [1 .. N -> ServiceStates] :
            /\ StopFrom(c, pos[c] - 1, s) /\ pos[c] \in 1 .. N
            /\ \E result \in {"stopped", "failed"} : s = [svc EXCEPT ![pos[c]] = result]
      BY <2>4, StopReturnsFrom
    <3>2. \A k \in 1 .. N : k >= pos[c] => svc[k] \notin Up
      BY <2>4, <1>2 DEF StopReturns, WalksDown
    <3>3. \A k \in 1 .. N : s[k] = IF k = pos[c] THEN s[pos[c]] ELSE svc[k]
      BY <3>1 DEF TypeOK
    <3>4. s[pos[c]] \notin Up
      BY <3>1 DEF TypeOK, Up
    <3>5. pos[c] - 1 \in 0 .. N /\ \A k \in 1 .. N : k > pos[c] - 1 => s[k] \notin Up
      BY <3>1, <3>2, <3>3, <3>4, EngineAssumption
    <3>6. InReverse(s)
      BY <1>2, <3>1, <3>2, <3>3, <3>4, EngineAssumption DEF InReverse
    <3>7. \A k \in 1 .. N : s[k] \in Up => svc[k] \in Up
      BY <3>3, <3>4
    <3>. QED BY <2>2, <1>2, <3>1, <3>5, <3>6, <3>7, StopFromOrdered
  <2>5. CASE Drained(c)
    <3>1. NoneUp /\ UNCHANGED <<svc, pos>> /\ call' = [call EXCEPT ![c] = "done"]
      BY <2>5, <1>2 DEF Drained, WalksDown, Completes, Returns
    <3>2. WalksDown'
      BY <3>1, <1>2 DEF WalksDown, NoneUp, TypeOK
    <3>. QED BY <2>2, <3>1, <3>2, <1>2 DEF InReverse
  <2>. QED BY <1>3, <2>3, <2>4, <2>5 DEF ShutStep
<1>4. CASE StartStep
  <2>1. CASE Start
    <3>1. svc' = [svc EXCEPT ![1] = "starting"] /\ at' = 1 /\ main' = "starting"
          /\ UNCHANGED <<call, pos, stopped>> /\ main = "new"
      BY <2>1 DEF Start
    <3>2. ~stopped /\ \A c \in Callers : call[c] = "idle"
      BY <3>1, <1>2 DEF StartIsAlone
    <3>3. WalksDown'
      BY <3>1, <3>2 DEF WalksDown
    <3>4. \A i \in 1 .. N : svc'[i] = IF i = 1 THEN "starting" ELSE "created"
      BY <3>1, <1>2, EngineAssumption DEF StartIsAlone, TypeOK
    <3>5. StartIsAlone'
      BY <3>1, <3>2, <3>4, EngineAssumption DEF StartIsAlone, Up
    <3>6. InReverse(svc)'
      BY <3>4 DEF InReverse
    <3>. QED BY <3>3, <3>5, <3>6
  <2>2. CASE StartReturns
    <3>1. /\ \A c \in Callers : call[c] = "idle"
          /\ \A i \in 1 .. N : i > at => svc[i] = "created"
          /\ \A i \in 1 .. N : i <= at => svc[i] \in Up
      BY <2>2, <1>2 DEF StartReturns, StartIsAlone
    <3>2. ~stopped' /\ UNCHANGED <<call, pos>>
      BY <2>2, <1>2 DEF StartReturns, StartIsAlone
    <3>3. WalksDown'
      BY <3>1, <3>2 DEF WalksDown
    <3>4. CASE at < N /\ at' = at + 1
                /\ svc' = [svc EXCEPT ![at] = "running", ![at + 1] = "starting"]
      <4>1. \A i \in 1 .. N : /\ i > at + 1 => svc'[i] = "created"
                              /\ i <= at + 1 => svc'[i] \in Up
        BY <3>1, <3>4, EngineAssumption DEF TypeOK, Up
      <4>2. StartIsAlone'
        BY <2>2, <3>1, <3>2, <3>4, <4>1 DEF StartIsAlone, StartReturns, StartingServices
      <4>3. InReverse(svc)'
        BY <4>1, EngineAssumption DEF InReverse, Up, TypeOK
      <4>. QED BY <3>3, <4>2, <4>3
    <3>5. CASE at = N /\ main' = "waiting" /\ svc' = [svc EXCEPT ![at] = "running"]
      <4>1. \A i \in 1 .. N : svc'[i] \in Up
        BY <3>1, <3>5, EngineAssumption DEF TypeOK, Up
      <4>2. StartIsAlone'
        BY <3>5 DEF StartIsAlone, StartingServices
      <4>3. InReverse(svc)'
        BY <4>1 DEF InReverse, Up
      <4>. QED BY <3>3, <4>2, <4>3
    <3>. QED BY <2>2, <3>4, <3>5 DEF StartReturns
  <2>3. CASE StartRaises
    <3>. DEFINE s == [svc EXCEPT ![at] = "failed"]
    <3>1. s \in [1 .. N -> ServiceStates] /\ Cleanup \in Callers /\ Alive
      BY <2>3 DEF TypeOK, ServiceStates, Callers, StartRaises, StartingServices, Alive
    <3>2. \A k \in 1 .. N : s[k] = svc[k] \/ s[k] = "failed"
      BY DEF TypeOK
    <3>3. InReverse(s) /\ \A k \in 1 .. N : s[k] \in Up => svc[k] \in Up
      BY <3>2, <1>2 DEF InReverse, Up
    <3>4. Shutdown(Cleanup, s)
      BY <2>3 DEF StartRaises
    <3>. HIDE DEF s
    <3>5. WalksDown' /\ InReverse(svc)'
      BY <3>1, <3>3, <3>4, <1>2, ShutdownOrdered
    <3>6. StartIsAlone'
      <4>1. /\ \E x \in {"stopping", "draining", "done"} : call' = [call EXCEPT ![Cleanup] = x]
            /\ main' \in {main, "raised"}
        BY <3>1, <3>4, CallMoves
      <4>. QED BY <3>1, <4>1, StaysOff
    <3>. QED BY <3>5, <3>6
  <2>4. CASE MainReturns
    BY <2>4, <1>2 DEF MainReturns, engine, StartIsAlone, StartingServices, WalksDown, NoneUp,
                      InReverse
  <2>. QED BY <1>4, <2>1, <2>2, <2>3, <2>4 DEF StartStep
<1>5. CASE BusStep
  BY <1>5, <1>2 DEF BusStep, Publish, DispatchEnds, engine, StartIsAlone, StartingServices,
                    WalksDown, NoneUp, InReverse
<1>6. CASE UNCHANGED vars
  BY <1>6, <1>2 DEF vars, engine, StartIsAlone, StartingServices, WalksDown, NoneUp, InReverse
<1>. QED BY <1>3, <1>4, <1>5, <1>6, StepCases

-----------------------------------------------------------------------------
(* The invariant holds at the start and after each step, whichever steps the *)
(* behaviour takes besides them.                                             *)
LEMMA EngineStart == Init => IInv
<1>. SUFFICES ASSUME Init PROVE IInv
  OBVIOUS
<1>1. TypeOK /\ Placed
  <2>1. 0 \in 0 .. N
    BY EngineAssumption
  <2>2. TypeOK
    BY <2>1 DEF Init, TypeOK, ServiceStates, CallStates
  <2>. QED BY <2>2 DEF Init, Placed
<1>2. Drains
  BY DEF Init, Drains, DoneMeansDrained
<1>3. StartIsAlone /\ WalksDown
  BY EngineAssumption DEF Init, StartIsAlone, WalksDown
<1>4. StopsInReverse
  BY DEF Init, StopsInReverse
<1>. QED BY <1>1, <1>2, <1>3, <1>4 DEF IInv, Ordered

(* Each step keeps it.                                                       *)
LEMMA EngineStep ==
  ASSUME IInv, [Next]_vars PROVE IInv'
BY TypedStep, DrainsStep, OrderedStep DEF IInv

(* So it holds throughout the engine's own specification.                    *)
LEMMA Invariance == Spec => []IInv
<1>. QED BY EngineStart, EngineStep, PTL DEF Spec

(* Every variable keeps its type (the states of engine.py, service.py and    *)
(* bus.py).                                                                  *)
THEOREM Typing == Spec => []TypeOK
<1>1. IInv => TypeOK
  BY DEF IInv
<1>. QED BY <1>1, Invariance, PTL

(* However many services and signals there are, services are stopped in      *)
(* reverse of their registration unless a signal came during the start.      *)
THEOREM ReverseOrder == Spec => []StopsInReverse
<1>1. IInv => StopsInReverse
  BY DEF IInv
<1>. QED BY <1>1, Invariance, PTL

(* A shutdown that has come to its end has left nothing on the bus, whatever *)
(* the start does meanwhile (bus.stop).                                      *)
THEOREM BusIsDrained == Spec => []DoneMeansDrained
<1>1. IInv => DoneMeansDrained
  BY DEF IInv, Drains
<1>. QED BY <1>1, Invariance, PTL

(* By its return and by a failed start, main() has shut everything down.     *)
LEMMA ExitFollows == IInv => ExitIsClean
<1>1. SUFFICES ASSUME IInv, main \in {"returned", "raised"}, ~early
               PROVE  NoneUp /\ Active = {} /\ ~busUp
  BY DEF ExitIsClean, NoneUp
<1>2. stopped \/ call[Cleanup] = "done"
  BY <1>1 DEF IInv, Drains
<1>3. Cleanup \in Callers
  BY DEF Callers
<1>4. Active = {} /\ ~busUp
  BY <1>1, <1>2, <1>3 DEF IInv, Drains, DoneMeansDrained
<1>5. NoneUp
  BY <1>1, <1>2, <1>3 DEF IInv, Ordered, WalksDown
<1>. QED BY <1>4, <1>5

(* main() leaves no service up and nothing on the bus, by its return and by  *)
(* a failed start.                                                           *)
THEOREM CleanExit == Spec => []ExitIsClean
<1>. QED BY ExitFollows, Invariance, PTL

(* The two together, as the run checks them.                                 *)
THEOREM CleanShutdown == Spec => []ShutdownIsClean
<1>. QED BY CleanExit, BusIsDrained, PTL DEF ShutdownIsClean
=============================================================================
