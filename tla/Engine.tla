-------------------------------- MODULE Engine --------------------------------
(* The lifecycle of the Python core: main() of __main__.py, JarvisEngine     *)
(* (core/engine.py), the state machine of its services (core/service.py) and *)
(* the event bus it starts and stops (core/bus.py).  Everything runs on one  *)
(* event loop, so a step is what happens between two suspensions; what       *)
(* suspends is a service that starts or stops and a bus that drains.         *)
EXTENDS Naturals

CONSTANTS
  N,          \* services, numbered in the order of registration
  Signals,    \* SIGINT and SIGTERM: each creates a task of engine.shutdown()
  Cleanup,    \* the shutdown() that start() awaits when a service fails
  Dispatches  \* _safe_dispatch tasks: a published event and its subscriber

Callers == Signals \cup {Cleanup}

ASSUME EngineAssumption == N \in Nat \ {0} /\ Cleanup \notin Signals

VARIABLES
  main,     \* "new", "starting" (in engine.start), "waiting" (in
            \* run_until_stopped), "returned", "raised"
  at,       \* the service engine.start awaits, 0 before the first
  svc,      \* BaseService._state
  engineUp, \* JarvisEngine._is_running
  stopped,  \* _shutdown_event is set
  call,     \* each shutdown(): "idle", "stopping" (awaits service.stop),
            \* "draining" (awaits the gather of bus.stop), "done"
  pos,      \* the service a stopping shutdown() awaits
  busUp,    \* AsyncEventBus._is_running
  task,     \* each dispatch: "none", "running", "cancelled" (to end), "ended"
  early     \* history: a signal came while services were being started

engine == <<at, svc, engineUp, stopped, call, pos>>
vars == <<main, engine, busUp, task, early>>

ServiceStates == {"created", "starting", "running", "stopping", "stopped", "failed"}
CallStates == {"idle", "stopping", "draining", "done"}

TypeOK ==
  /\ main \in {"new", "starting", "waiting", "returned", "raised"}
  /\ at \in 0 .. N
  /\ svc \in [1 .. N -> ServiceStates]
  /\ engineUp \in BOOLEAN /\ stopped \in BOOLEAN
  /\ call \in [Callers -> CallStates] /\ pos \in [Callers -> 0 .. N]
  /\ busUp \in BOOLEAN
  /\ task \in [Dispatches -> {"none", "running", "cancelled", "ended"}]
  /\ early \in BOOLEAN

Init ==
  /\ main = "new" /\ at = 0
  /\ svc = [i \in 1 .. N |-> "created"]
  /\ engineUp = FALSE /\ stopped = FALSE
  /\ call = [c \in Callers |-> "idle"] /\ pos = [c \in Callers |-> 0]
  /\ busUp = FALSE /\ task = [d \in Dispatches |-> "none"]
  /\ early = FALSE

(* When main() ends, asyncio.run cancels whatever is left and the process    *)
(* is gone.                                                                  *)
Alive == main \in {"starting", "waiting"}
StartingServices == main = "starting" /\ call[Cleanup] = "idle"

-----------------------------------------------------------------------------
(* The event bus: a dispatch task is entered in _active_tasks until it ends. *)
Active == {d \in Dispatches : task[d] \in {"running", "cancelled"}}

Publish(d) ==
  /\ Alive /\ busUp /\ task[d] = "none"
  /\ task' = [task EXCEPT ![d] = "running"]
  /\ UNCHANGED <<main, engine, busUp, early>>

(* The subscriber returns, raises, or has dealt with its cancellation.       *)
DispatchEnds(d) ==
  /\ Alive /\ d \in Active
  /\ task' = [task EXCEPT ![d] = "ended"]
  /\ UNCHANGED <<main, engine, busUp, early>>

-----------------------------------------------------------------------------
(* shutdown().  Its cleanup call ends engine.start, which then raises.       *)
Returns(c) ==
  /\ call' = [call EXCEPT ![c] = "done"]
  /\ main' = IF c = Cleanup THEN "raised" ELSE main

(* The event is set by whoever saw the bus drained.                          *)
Mutant_Completes(c) == Returns(c) /\ UNCHANGED stopped

Completes(c) == Returns(c) /\ stopped' = TRUE

(* Tasks a first stop() has cancelled are no longer waited for.              *)
Mutant_BusStop(c) ==
  /\ busUp' = FALSE
  /\ task' = [d \in Dispatches |-> IF task[d] = "running" THEN "cancelled" ELSE task[d]]
  /\ \/ (\A d \in Dispatches : task[d] # "running") /\ Completes(c)
     \/ /\ \E d \in Dispatches : task[d] = "running"
        /\ call' = [call EXCEPT ![c] = "draining"] /\ UNCHANGED <<main, stopped>>

(* bus.stop(): no more events, cancel the dispatches in flight, await them.  *)
BusStop(c) ==
  /\ busUp' = FALSE
  /\ task' = [d \in Dispatches |-> IF task[d] = "running" THEN "cancelled" ELSE task[d]]
  /\ \/ Active = {} /\ Completes(c)
     \/ /\ Active # {}
        /\ call' = [call EXCEPT ![c] = "draining"] /\ UNCHANGED <<main, stopped>>

(* BaseService.stop returns at once for these two states only.               *)
ToStop(s, i) == {j \in 1 .. i : s[j] \notin {"created", "stopped"}}

(* In the order of registration.                                             *)
Mutant_StopFrom(c, i, s) ==
  \/ \E j \in ToStop(s, N) :
       /\ \A k \in ToStop(s, N) : j <= k
       /\ svc' = [s EXCEPT ![j] = "stopping"]
       /\ call' = [call EXCEPT ![c] = "stopping"] /\ pos' = [pos EXCEPT ![c] = j]
       /\ UNCHANGED <<main, stopped, busUp, task>>
  \/ /\ ToStop(s, N) = {}
     /\ svc' = s /\ pos' = [pos EXCEPT ![c] = 0]
     /\ BusStop(c)

(* The rest of the loop over the services in reverse, from service i down,   *)
(* with the services in states s.                                            *)
StopFrom(c, i, s) ==
  \/ \E j \in ToStop(s, i) :
       /\ \A k \in ToStop(s, i) : k <= j
       /\ svc' = [s EXCEPT ![j] = "stopping"]
       /\ call' = [call EXCEPT ![c] = "stopping"] /\ pos' = [pos EXCEPT ![c] = j]
       /\ UNCHANGED <<main, stopped, busUp, task>>
  \/ /\ ToStop(s, i) = {}
     /\ svc' = s /\ pos' = [pos EXCEPT ![c] = 0]
     /\ BusStop(c)

(* An engine that is not online has nothing to stop.                         *)
Mutant_Shutdown(c, s) ==
  \/ /\ ~engineUp
     /\ svc' = s /\ Returns(c) /\ UNCHANGED <<engineUp, stopped, pos, busUp, task>>
  \/ /\ engineUp
     /\ engineUp' = FALSE /\ StopFrom(c, N, s)

Shutdown(c, s) ==
  \/ /\ ~engineUp /\ stopped
     /\ svc' = s /\ Returns(c) /\ UNCHANGED <<engineUp, stopped, pos, busUp, task>>
  \/ /\ engineUp \/ ~stopped
     /\ engineUp' = FALSE /\ StopFrom(c, N, s)

(* A signal and the first step of its task.                                  *)
Signal(c) ==
  /\ Alive /\ call[c] = "idle"
  /\ Shutdown(c, svc)
  /\ early' = (early \/ StartingServices)
  /\ UNCHANGED at

(* _on_stop returns or raises; the loop goes on either way.                  *)
StopReturns(c) ==
  /\ Alive /\ call[c] = "stopping"
  /\ \E result \in {"stopped", "failed"} :
       StopFrom(c, pos[c] - 1, [svc EXCEPT ![pos[c]] = result])
  /\ UNCHANGED <<at, engineUp, early>>

Drained(c) ==
  /\ Alive /\ call[c] = "draining" /\ Active = {}
  /\ Completes(c)
  /\ UNCHANGED <<at, svc, engineUp, pos, busUp, task, early>>

-----------------------------------------------------------------------------
(* start().                                                                  *)
Start ==
  /\ main = "new" /\ main' = "starting"
  /\ busUp' = TRUE
  /\ at' = 1 /\ svc' = [svc EXCEPT ![1] = "starting"]
  /\ UNCHANGED <<engineUp, stopped, call, pos, task, early>>

(* One service too far.                                                      *)
Mutant_StartReturns ==
  /\ StartingServices
  /\ svc' = [i \in 1 .. N |-> IF i = at THEN "running" ELSE IF i = at + 1 THEN "starting"
                                                               ELSE svc[i]]
  /\ at' = at + 1
  /\ UNCHANGED <<main, engineUp, stopped, call, pos, busUp, task, early>>

(* A service is up, whatever happened to it meanwhile: the next one is       *)
(* started, or the engine is online.  The probes of the health check do not  *)
(* suspend.                                                                  *)
StartReturns ==
  /\ StartingServices
  /\ \/ /\ at < N /\ at' = at + 1
        /\ svc' = [svc EXCEPT ![at] = "running", ![at + 1] = "starting"]
        /\ UNCHANGED <<main, engineUp, stopped>>
     \/ /\ at = N /\ main' = "waiting"
        /\ svc' = [svc EXCEPT ![at] = "running"]
        /\ engineUp' = TRUE /\ stopped' = FALSE
        /\ UNCHANGED at
  /\ UNCHANGED <<call, pos, busUp, task, early>>

StartRaises ==
  /\ StartingServices
  /\ Shutdown(Cleanup, [svc EXCEPT ![at] = "failed"])
  /\ UNCHANGED <<at, early>>

MainReturns ==
  /\ main = "waiting" /\ stopped
  /\ main' = "returned"
  /\ UNCHANGED <<engine, busUp, task, early>>

-----------------------------------------------------------------------------
Next ==
  \/ Start \/ StartReturns \/ StartRaises \/ MainReturns
  \/ \E c \in Signals : Signal(c)
  \/ \E c \in Callers : StopReturns(c) \/ Drained(c)
  \/ \E d \in Dispatches : Publish(d) \/ DispatchEnds(d)

(* The loop runs what is ready, and subscribers come to an end, by themselves*)
(* or after their cancellation.  Signals and events need not come, services  *)
(* need not come up, and the stop of one need not return: that of the IPC    *)
(* server waits for its clients.                                             *)
Fairness ==
  /\ WF_vars(MainReturns)
  /\ \A c \in Callers : WF_vars(Drained(c))
  /\ \A d \in Dispatches : WF_vars(DispatchEnds(d))

Spec == Init /\ [][Next]_vars /\ Fairness

-----------------------------------------------------------------------------
Up == {"starting", "running"}

(* Services are stopped in reverse, also by two shutdowns at once and when a *)
(* start fails half-way: while a service stops or is stopped, none that was  *)
(* registered after it is up (engine.py:100).  A signal during the start is  *)
(* the exception: see the README.                                            *)
StopsInReverse ==
  ~early => \A i, j \in 1 .. N :
              i < j /\ svc[i] \in {"stopping", "stopped"} => svc[j] \notin Up

(* When main() has ended, by its return or by a failed start, no service is  *)
(* up and no dispatch in flight, though a second shutdown may have been cut  *)
(* short (engine.py:76, 92; __main__.py:46-48).                              *)
ExitIsClean ==
  main \in {"returned", "raised"} /\ ~early =>
    /\ \A i \in 1 .. N : svc[i] \notin Up
    /\ Active = {} /\ ~busUp

(* Whenever a shutdown has come to its end, nothing is in flight on the bus  *)
(* and nothing ever will be, whatever start does meanwhile (bus.py:33-46).   *)
DoneMeansDrained == (\E c \in Callers : call[c] = "done") => Active = {} /\ ~busUp

(* Both: no shutdown ends, nor does main(), before everything is down that   *)
(* it is to leave down.                                                      *)
ShutdownIsClean == ExitIsClean /\ DoneMeansDrained

(* Once the engine is online, a signal ends main() when no stop of a service *)
(* is awaited for ever (engine.py:100, server.py:165): also a second signal, *)
(* or one of an earlier shutdown that is still under way.                    *)
StopsReturn == []<>(\A c \in Callers : call[c] # "stopping")

OnlineSignalEnds ==
  StopsReturn => (main = "waiting" /\ ~engineUp ~> main = "returned")
=============================================================================
