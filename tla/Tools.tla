-------------------------------- MODULE Tools --------------------------------
(* The tool layer: ToolExecutor.execute (tools/executor.py) with the policy, *)
(* the registry, the audit log and the events it emits, and its callers:     *)
(* tasks of the coding agent (agents/builtins/coding.py), which execute      *)
(* their required tools one by one and are handed out again when they fail,  *)
(* and tools.execute requests.  Up to the handler's await nothing suspends.  *)
EXTENDS Naturals, Sequences

CONSTANTS
  Jobs,      \* callers of the executor
  Agents,    \* those that are tasks of the coding agent
  Uses,      \* job -> the tools it is to execute, in order, with arguments
  Attempts   \* how often a task may be handed out

(* What the executor looks at.  permitted: the permissions are granted and   *)
(* the mode is not ALWAYS_DENY; automatic: neither mode nor risk asks for an *)
(* approval; listed: the id is in CodingAgent.allowed_tools; inside: every   *)
(* path argument is inside the sandbox; complete: no required argument is    *)
(* missing; async: the handler is a coroutine function.                      *)
ToolUse == [standing : {"enabled", "disabled", "unregistered"},
            permitted : BOOLEAN, automatic : BOOLEAN, listed : BOOLEAN,
            inside : BOOLEAN, complete : BOOLEAN, async : BOOLEAN]

ASSUME ToolsAssumption ==
  /\ Agents \subseteq Jobs /\ Uses \in [Jobs -> Seq(ToolUse)] /\ Attempts \in Nat

VARIABLES
  job,      \* "new", "executing", "completed", "failed", "cancelled"
  attempt,  \* how often the job was handed out
  tool,     \* the tool whose handler an executing job awaits
  exec,     \* one record per execution of a tool
  bus       \* the event bus runs

toolVars == <<job, attempt, tool, exec, bus>>

Executions == UNION {{j} \X (1 .. Attempts) \X DOMAIN Uses[j] : j \in Jobs}

(* calls: how often the handler was called; live: it is still at work.  The  *)
(* other three are what the outside gets: the terminal event and the audit   *)
(* record's policy decision and status.                                      *)
Exec == [phase : {"none", "awaited", "over"}, calls : 0 .. 2, live : BOOLEAN,
         event : {"none", "denied", "failed", "timeout", "completed"},
         ruling : {"none", "tool_not_found", "denied", "validation_failed", "allowed"},
         status : {"none", "denied", "failed", "timeout", "success"}]

Unused == [phase |-> "none", calls |-> 0, live |-> FALSE,
           event |-> "none", ruling |-> "none", status |-> "none"]

ToolsTypeOK ==
  /\ job \in [Jobs -> {"new", "executing", "completed", "failed", "cancelled"}]
  /\ attempt \in [Jobs -> 0 .. Attempts]
  /\ tool \in [Jobs -> Nat]
  /\ exec \in [Executions -> Exec] /\ bus \in BOOLEAN

ToolsInit ==
  /\ job = [j \in Jobs |-> "new"]
  /\ attempt = [j \in Jobs |-> 0] /\ tool = [j \in Jobs |-> 0]
  /\ exec = [e \in Executions |-> Unused] /\ bus = TRUE

-----------------------------------------------------------------------------
(* The lookup, ToolPolicyEngine.evaluate and the check of the arguments.  A  *)
(* decision that asks for an approval denies.                                *)
Ruling(u) ==
  CASE u.standing = "unregistered" -> "tool_not_found"
    [] u.standing = "disabled" -> "denied"
    [] OTHER -> IF ~(u.permitted /\ u.automatic /\ u.inside) THEN "denied"
                ELSE IF ~u.complete THEN "validation_failed" ELSE "allowed"

Current(j) == <<j, attempt[j], tool[j]>>

(* The execution ends with an audit record, and with an event before it if   *)
(* there is a bus that runs: _emit_event drops it silently when not.         *)
Recorded(x, event, status) ==
  [x EXCEPT !.phase = "over", !.event = IF bus THEN event ELSE "none", !.status = status]

Refused(u) ==
  LET denied == IF Ruling(u) = "denied" THEN "denied" ELSE "failed" IN
    Recorded([Unused EXCEPT !.ruling = Ruling(u)], denied, denied)

Invoked(n, runs) == [Unused EXCEPT !.phase = "awaited", !.calls = n, !.live = runs]

(* The agent skips what it is not allowed to use.                            *)
Ahead(j, i) == {k \in DOMAIN Uses[j] : k >= i /\ (j \in Agents => Uses[j][k].listed)}

(* The n-th attempt at job j, with executions x, goes on to its next tool    *)
(* from the i-th on: it is through with all of them, or the tool is refused, *)
(* or its handler is awaited.  A plain function is called to see whether it  *)
(* returns a coroutine, and when it has not raised then, again in a thread.  *)
Proceed(j, n, i, x) ==
  \/ /\ Ahead(j, i) = {}
     /\ job' = [job EXCEPT ![j] = "completed"] /\ exec' = x /\ UNCHANGED tool
  \/ \E k \in Ahead(j, i) :
       /\ \A m \in Ahead(j, i) : k <= m
       /\ tool' = [tool EXCEPT ![j] = k]
       /\ LET u == Uses[j][k]  e == <<j, n, k>> IN
            \/ /\ Ruling(u) # "allowed"
               /\ job' = [job EXCEPT ![j] = "failed"]
               /\ exec' = [x EXCEPT ![e] = Refused(u)]
            \/ /\ Ruling(u) = "allowed" /\ ~u.async
               /\ job' = [job EXCEPT ![j] = "failed"]
               /\ exec' = [x EXCEPT ![e] =
                    Recorded([Invoked(1, FALSE) EXCEPT !.ruling = "allowed"], "failed", "failed")]
            \/ /\ Ruling(u) = "allowed"
               /\ job' = [job EXCEPT ![j] = "executing"]
               /\ exec' = [x EXCEPT ![e] = Invoked(IF u.async THEN 1 ELSE 2, TRUE)]

(* A job is handed to the executor, a failed task once more.                 *)
Begin(j) ==
  /\ job[j] = "new" \/ (job[j] = "failed" /\ j \in Agents)
  /\ attempt[j] < Attempts
  /\ attempt' = [attempt EXCEPT ![j] = @ + 1]
  /\ Proceed(j, attempt[j] + 1, 1, exec) /\ UNCHANGED bus

(* The handler is done with: its execution ends with this event and record.  *)
Ended(j, event, status, live) ==
  [exec EXCEPT ![Current(j)] =
     Recorded([@ EXCEPT !.ruling = "allowed", !.live = live], event, status)]

HandlerReturns(j) ==
  /\ job[j] = "executing"
  /\ Proceed(j, attempt[j], tool[j] + 1, Ended(j, "completed", "success", FALSE))
  /\ UNCHANGED <<attempt, bus>>

(* A tool that fails is a step done.                                         *)
Mutant_HandlerRaises(j) ==
  /\ job[j] = "executing"
  /\ Proceed(j, attempt[j], tool[j] + 1, Ended(j, "failed", "failed", FALSE))
  /\ UNCHANGED <<attempt, bus>>

(* Any of the four except clauses for exceptions.                            *)
HandlerRaises(j) ==
  /\ job[j] = "executing"
  /\ job' = [job EXCEPT ![j] = "failed"]
  /\ exec' = Ended(j, "failed", "failed", FALSE)
  /\ UNCHANGED <<attempt, tool, bus>>

(* wait_for cancels a coroutine; a thread goes on.                           *)
IsThread(j) == ~Uses[j][tool[j]].async

(* The status is not taken over into the record.                             *)
Mutant_HandlerTimesOut(j) ==
  /\ job[j] = "executing"
  /\ job' = [job EXCEPT ![j] = "failed"]
  /\ exec' = Ended(j, "timeout", "success", IsThread(j))
  /\ UNCHANGED <<attempt, tool, bus>>

HandlerTimesOut(j) ==
  /\ job[j] = "executing"
  /\ job' = [job EXCEPT ![j] = "failed"]
  /\ exec' = Ended(j, "timeout", "timeout", IsThread(j))
  /\ UNCHANGED <<attempt, tool, bus>>

(* The job's own caller gives up: CancelledError passes every except clause, *)
(* and nothing is emitted or recorded.                                       *)
JobCancelled(j) ==
  /\ job[j] = "executing"
  /\ job' = [job EXCEPT ![j] = "cancelled"]
  /\ exec' = [exec EXCEPT ![Current(j)].phase = "over", ![Current(j)].live = IsThread(j)]
  /\ UNCHANGED <<attempt, tool, bus>>

ThreadEnds(e) ==
  /\ exec[e].phase = "over" /\ exec[e].live
  /\ exec' = [exec EXCEPT ![e].live = FALSE]
  /\ UNCHANGED <<job, attempt, tool, bus>>

(* The engine stops the bus, which it starts once only.                      *)
BusStops ==
  /\ bus /\ bus' = FALSE
  /\ UNCHANGED <<job, attempt, tool, exec>>

ToolsNext ==
  \/ \E j \in Jobs : \/ Begin(j) \/ HandlerReturns(j) \/ HandlerRaises(j)
                     \/ HandlerTimesOut(j) \/ JobCancelled(j)
  \/ BusStops \/ \E e \in Executions : ThreadEnds(e)

ToolsSpec == ToolsInit /\ [][ToolsNext]_toolVars

-----------------------------------------------------------------------------
(* The audit record of an execution tells what happened, with timeouts,      *)
(* retries, cancellations and a bus that stops at any moment: a refused tool *)
(* was never called, a success is of a handler that is done, and only the    *)
(* cancellation of the caller leaves a started tool without its record.  The *)
(* event tells the same, and is missing only if the bus does not run.  What  *)
(* outlives its execution is a thread.                                       *)
Story == {<<"denied", "denied", "denied">>, <<"failed", "tool_not_found", "failed">>,
          <<"failed", "validation_failed", "failed">>, <<"failed", "allowed", "failed">>,
          <<"timeout", "allowed", "timeout">>, <<"completed", "allowed", "success">>}

Tells(x, story, on) ==
  /\ x.event = story[1] \/ (x.event = "none" /\ ~on)
  /\ x.ruling = story[2] /\ x.status = story[3]

RecordsTellTheTruth ==
  \A e \in Executions : LET x == exec[e] IN
    /\ x.phase = "over" =>
         \/ \E story \in Story : Tells(x, story, bus)
         \/ job[e[1]] = "cancelled" /\ <<x.event, x.status>> = <<"none", "none">>
    /\ x.calls > 0 /\ x.phase = "over" /\ x.status # "none" => x.ruling = "allowed"
    /\ x.live => \/ x.phase = "awaited" /\ job[e[1]] = "executing" /\ e = Current(e[1])
                 \/ x.phase = "over" /\ ~Uses[e[1]][e[3]].async
                      /\ x.status \in {"timeout", "none"}

(* A task of the coding agent that is called completed has, in the attempt   *)
(* that completed it, run every tool it asked for and may use, in order and  *)
(* to success, whatever earlier attempts left half done.                     *)
CompletedMeansToolsRan ==
  \A j \in Agents : job[j] = "completed" =>
    \A i \in DOMAIN Uses[j] : Uses[j][i].listed =>
      /\ exec[<<j, attempt[j], i>>].status = "success"
      /\ ~exec[<<j, attempt[j], i>>].live
=============================================================================
