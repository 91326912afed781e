------------------------------ MODULE Supervisor ------------------------------
(* ProcessSupervisor of the desktop (apps/desktop/src/main/supervisor.ts):   *)
(* the child processes of ONE service, the map and the pid file they are     *)
(* entered in, and the calls that start, restart and stop them.  What the    *)
(* supervisor keeps is keyed by the service's name, so two services only     *)
(* share isShuttingDown.  The main process runs one callback at a time; the  *)
(* children and the port they listen on change at any moment.                *)
EXTENDS Naturals, FiniteSets

CONSTANTS
  Children,   \* process ids the operating system hands out
  NoChild,
  Startup,    \* the startService call index.ts makes once the app is ready
  Restarts,   \* restartService calls from the tray and the renderer
  Platforms,  \* subset of {"win32", "posix"}
  MaxChecks   \* stands for the 20, 50 and 150 rounds of the port loops

Calls == Restarts \cup {Startup}

ASSUME SupervisorAssumption ==
  /\ NoChild \notin Children /\ Startup \notin Restarts
  /\ Platforms \subseteq {"win32", "posix"} /\ MaxChecks \in Nat \ {0}

VARIABLES
  platform,  \* process.platform
  main,      \* the main process: "up", "left" (quit) or "crashed"
  shutting,  \* this.isShuttingDown
  grace,     \* stopAll is in its 500 ms
  willing,   \* windowManager.isQuitting: the window lets itself be closed
  quitting,  \* the application is on its way out
  entry,     \* processes.get(name) and pids.get(name), set and deleted together
  pidFile,   \* the pid in the service's pid file
  state,     \* serviceStates.get(name), or "NONE"
  child,     \* per process: "none", "starting", "listening", "closing" (its
             \* port given up), "dead" (its exit event still to be delivered)
  signalled, \* child.killed
  ours,      \* children of this life of the main process whose exit event is
             \* still to come
  external,  \* a process we did not start listens on the port
  pc,        \* where each call waits
  checks,    \* the loop counter of each call
  target,    \* the child each call of stopService waits for
  restarted  \* history: a restart was asked for since the app first started

os == <<child, signalled, ours, external>>
exits == <<shutting, grace, willing, quitting>>
locals == <<pc, checks, target>>
vars == <<platform, main, exits, entry, pidFile, state, os, locals, restarted>>

LiveStates == {"starting", "listening", "closing"}
Live == {p \in Children : child[p] \in LiveStates}
PortInUse == external \/ \E p \in Children : child[p] = "listening"

States == {"NONE", "STARTING", "READY", "DEGRADED", "FAILED", "STOPPED"}
Places == {"idle", "due", "startProbe", "startTaken", "startFree", "readyProbe", "readyTaken",
           "readySleep", "stopWait", "portProbe", "portSleep"}

TypeOK ==
  /\ platform \in {"win32", "posix"} /\ main \in {"up", "left", "crashed"}
  /\ shutting \in BOOLEAN /\ grace \in BOOLEAN /\ willing \in BOOLEAN
  /\ quitting \in BOOLEAN
  /\ entry \in Children \cup {NoChild} /\ pidFile \in Children \cup {NoChild}
  /\ state \in States
  /\ child \in [Children -> LiveStates \cup {"none", "dead"}]
  /\ signalled \subseteq Children /\ ours \subseteq Children
  /\ external \in BOOLEAN
  /\ pc \in [Calls -> Places]
  /\ checks \in [Calls -> 0 .. MaxChecks - 1]
  /\ target \in [Calls -> Children \cup {NoChild}]
  /\ restarted \in BOOLEAN

NoCalls ==
  /\ pc' = [c \in Calls |-> "idle"]
  /\ checks' = [c \in Calls |-> 0] /\ target' = [c \in Calls |-> NoChild]

Init ==
  /\ platform \in Platforms /\ main = "left"
  /\ shutting = FALSE /\ grace = FALSE /\ willing = FALSE /\ quitting = FALSE
  /\ entry = NoChild /\ pidFile = NoChild /\ state = "NONE"
  /\ child = [p \in Children |-> "none"] /\ signalled = {} /\ ours = {}
  /\ external \in BOOLEAN
  /\ pc = [c \in Calls |-> "idle"]
  /\ checks = [c \in Calls |-> 0] /\ target = [c \in Calls |-> NoChild]
  /\ restarted = FALSE

-----------------------------------------------------------------------------
(* The children and the port.  A signalled child may give up its port some   *)
(* time before it is gone; any child may die at any moment.                  *)
Outside == UNCHANGED <<platform, main, exits, entry, pidFile, state, locals, restarted>>

Listens(p) ==
  /\ child[p] = "starting" /\ ~PortInUse
  /\ child' = [child EXCEPT ![p] = "listening"]
  /\ Outside /\ UNCHANGED <<signalled, ours, external>>

ShutsDown(p) ==
  /\ child[p] = "listening" /\ p \in signalled
  /\ child' = [child EXCEPT ![p] = "closing"]
  /\ Outside /\ UNCHANGED <<signalled, ours, external>>

Remains(p) == IF p \in ours THEN "dead" ELSE "none"
Dies(p) ==
  /\ p \in Live
  /\ child' = [child EXCEPT ![p] = Remains(p)]
  /\ Outside /\ UNCHANGED <<signalled, ours, external>>

ExternalLeaves ==
  /\ external /\ external' = FALSE
  /\ Outside /\ UNCHANGED <<child, signalled, ours>>

-----------------------------------------------------------------------------
(* child.kill ends a process at once on Windows, as does taskkill.  On the   *)
(* other platforms the process gets a signal it may take its time over, and  *)
(* killProcessTree reaches nobody: its signal goes to the process group      *)
(* -pid, which a child spawned with detached: false does not lead.           *)
Killed(p) ==
  [q \in Children |-> IF q = p /\ q \in Live /\ platform = "win32" THEN Remains(q)
                                                                     ELSE child[q]]

(* The maps only.                                                            *)
Mutant_Forget == entry' = NoChild /\ UNCHANGED pidFile

(* processes.delete, pids.delete, removePidFile                              *)
Forget == entry' = NoChild /\ pidFile' = NoChild

At(c, from, to) ==
  /\ main = "up" /\ pc[c] = from
  /\ pc' = [pc EXCEPT ![c] = to]
Count(c, n) == checks' = [checks EXCEPT ![c] = n]

(* isPortInUse finds out; the call acts on it in a later callback, unless it *)
(* then only sets a timer or probes again.                                   *)
Probe(c) ==
  /\ \/ /\ At(c, "startProbe", IF PortInUse THEN "startTaken" ELSE "startFree")
        /\ UNCHANGED checks
     \/ /\ At(c, "readyProbe", IF PortInUse THEN "readyTaken" ELSE "readySleep")
        /\ UNCHANGED checks
     \/ /\ At(c, "portProbe", IF PortInUse THEN "portSleep" ELSE "startProbe")
        /\ Count(c, IF PortInUse THEN checks[c] ELSE 0)
  /\ UNCHANGED <<platform, main, exits, entry, pidFile, state, os, target, restarted>>

-----------------------------------------------------------------------------
(* startService                                                              *)
StartupBegins ==
  /\ At(Startup, "due", "startProbe")
  /\ UNCHANGED <<platform, main, exits, entry, pidFile, state, os, checks, target, restarted>>

(* The port is taken: whoever has it is the service.                         *)
FindsExternal(c) ==
  /\ At(c, "startTaken", "idle")
  /\ state' = "READY"
  /\ UNCHANGED <<platform, main, exits, entry, pidFile, os, checks, target, restarted>>

FindsRunning(c) ==
  /\ At(c, "startFree", "idle")
  /\ entry # NoChild /\ entry \notin signalled
  /\ UNCHANGED <<platform, main, exits, entry, pidFile, state, os, checks, target, restarted>>

MaySpawn == entry # NoChild => entry \in signalled

Spawns(c, p) ==
  /\ MaySpawn /\ At(c, "startFree", "readyProbe")
  /\ child[p] = "none" /\ child' = [child EXCEPT ![p] = "starting"]
  /\ ours' = ours \cup {p}
  /\ entry' = p /\ pidFile' = p /\ state' = "STARTING"
  /\ UNCHANGED <<platform, main, exits, signalled, external, checks, target, restarted>>

(* No executable, or spawn throws.                                           *)
SpawnThrows(c) ==
  /\ MaySpawn /\ At(c, "startFree", "idle")
  /\ state' = "FAILED"
  /\ UNCHANGED <<platform, main, exits, entry, pidFile, os, checks, target, restarted>>

(* spawn returns a child without pid; its error event comes on the next tick *)
(* and removes the service's entry, whoever's it is.                         *)
SpawnErrs(c) ==
  /\ MaySpawn /\ At(c, "startFree", "readyProbe")
  /\ state' = "FAILED" /\ Forget
  /\ UNCHANGED <<platform, main, exits, os, checks, target, restarted>>

(* The loop that waits for the port.                                         *)
IsReady(c) ==
  /\ At(c, "readyTaken", "idle") /\ Count(c, 0)
  /\ state' = "READY"
  /\ UNCHANGED <<platform, main, exits, entry, pidFile, os, target, restarted>>

(* The counter stays where it is.                                            *)
Mutant_ChecksAgain(c) ==
  /\ At(c, "readySleep", "readyProbe")
  /\ state # "FAILED" /\ UNCHANGED checks
  /\ UNCHANGED <<platform, main, exits, entry, pidFile, state, os, target, restarted>>

ChecksAgain(c) ==
  /\ At(c, "readySleep", "readyProbe")
  /\ checks[c] + 1 < MaxChecks /\ state # "FAILED" /\ Count(c, checks[c] + 1)
  /\ UNCHANGED <<platform, main, exits, entry, pidFile, state, os, target, restarted>>

(* No final state.                                                           *)
Mutant_GivesUpSilently(c) ==
  /\ At(c, "readySleep", "idle") /\ Count(c, 0)
  /\ checks[c] + 1 = MaxChecks \/ state = "FAILED"
  /\ UNCHANGED <<platform, main, exits, entry, pidFile, state, os, target, restarted>>

(* A service that is not ready in time is forgotten.                         *)
Mutant_GivesUpForgets(c) ==
  /\ At(c, "readySleep", "idle") /\ Count(c, 0) /\ Forget
  /\ checks[c] + 1 = MaxChecks \/ state = "FAILED"
  /\ state' = IF state = "FAILED" THEN "FAILED" ELSE "DEGRADED"
  /\ UNCHANGED <<platform, main, exits, os, target, restarted>>

GivesUp(c) ==
  /\ At(c, "readySleep", "idle") /\ Count(c, 0)
  /\ checks[c] + 1 = MaxChecks \/ state = "FAILED"
  /\ state' = IF state = "FAILED" THEN "FAILED" ELSE "DEGRADED"
  /\ UNCHANGED <<platform, main, exits, entry, pidFile, os, target, restarted>>

-----------------------------------------------------------------------------
(* restartService: stopService, then the port, then startService             *)
RestartBegins(c) ==
  /\ c \in Restarts /\ restarted' = TRUE
  /\ \/ /\ entry = NoChild /\ At(c, "idle", "portProbe")
        /\ UNCHANGED <<child, signalled, target>>
     \/ /\ entry # NoChild /\ At(c, "idle", "stopWait")
        /\ child' = Killed(entry) /\ signalled' = signalled \cup {entry}
        /\ target' = [target EXCEPT ![c] = entry]
  /\ UNCHANGED <<platform, main, exits, entry, pidFile, state, ours, external, checks>>

StopTimesOut(c) ==
  /\ At(c, "stopWait", "portProbe")
  /\ child' = Killed(target[c])
  /\ target' = [target EXCEPT ![c] = NoChild] /\ Forget
  /\ UNCHANGED <<platform, main, exits, state, signalled, ours, external, checks, restarted>>

(* One round too many.                                                       *)
Mutant_PortWaits(c) ==
  /\ \/ checks[c] < MaxChecks /\ At(c, "portSleep", "portProbe") /\ Count(c, checks[c] + 1)
     \/ checks[c] = MaxChecks /\ At(c, "portSleep", "startProbe") /\ Count(c, 0)
  /\ UNCHANGED <<platform, main, exits, entry, pidFile, state, os, target, restarted>>

PortWaits(c) ==
  /\ \/ checks[c] + 1 < MaxChecks /\ At(c, "portSleep", "portProbe") /\ Count(c, checks[c] + 1)
     \/ checks[c] + 1 = MaxChecks /\ At(c, "portSleep", "startProbe") /\ Count(c, 0)
  /\ UNCHANGED <<platform, main, exits, entry, pidFile, state, os, target, restarted>>

-----------------------------------------------------------------------------
(* The exit event of a child: the handler deletes by the service's name, and *)
(* the stopService calls that wait for this child do so again.               *)
ExitEvent(p) ==
  /\ main = "up" /\ child[p] = "dead" /\ p \in ours
  /\ child' = [child EXCEPT ![p] = "none"] /\ ours' = ours \ {p}
  /\ signalled' = signalled \ {p} /\ Forget
  /\ IF shutting THEN UNCHANGED state ELSE state' \in {"FAILED", "STOPPED"}
  /\ pc' = [c \in Calls |-> IF pc[c] = "stopWait" /\ target[c] = p THEN "portProbe" ELSE pc[c]]
  /\ target' = [c \in Calls |-> IF target[c] = p THEN NoChild ELSE target[c]]
  /\ UNCHANGED <<platform, main, exits, external, checks, restarted>>

-----------------------------------------------------------------------------
(* Leaving.  onQuit of the tray calls stopAll and then app.quit(); a second  *)
(* stopAll returns at once.  app.quit() runs stopAllSync on before-quit, then *)
(* closes the window, which refuses unless onQuit has told it, and runs       *)
(* stopAllSync again on will-quit.                                           *)
StopAllSync == shutting' = TRUE /\ child' = Killed(entry) /\ Forget

StopAll ==
  /\ main = "up" /\ ~shutting
  /\ willing' = TRUE /\ shutting' = TRUE /\ grace' = TRUE
  /\ child' = Killed(entry) /\ signalled' = signalled \cup ({entry} \ {NoChild})
  /\ UNCHANGED <<platform, main, quitting, entry, pidFile, state, ours, external, locals, restarted>>

(* stopAll leaves the application running.                                   *)
Mutant_StopAllEnds ==
  /\ main = "up" /\ grace
  /\ grace' = FALSE /\ StopAllSync
  /\ UNCHANGED <<platform, main, willing, quitting, state, signalled, ours, external, locals, restarted>>

StopAllEnds ==
  /\ main = "up" /\ grace
  /\ grace' = FALSE /\ quitting' = TRUE /\ StopAllSync
  /\ UNCHANGED <<platform, main, willing, state, signalled, ours, external, locals, restarted>>

TrayQuitsAgain ==
  /\ main = "up" /\ shutting /\ ~quitting
  /\ willing' = TRUE /\ quitting' = TRUE /\ StopAllSync
  /\ UNCHANGED <<platform, main, grace, state, signalled, ours, external, locals, restarted>>

(* app.quit() from a menu or the system                                      *)
AppQuits ==
  /\ main = "up" /\ ~quitting
  /\ quitting' = willing /\ StopAllSync
  /\ UNCHANGED <<platform, main, grace, willing, state, signalled, ours, external, locals, restarted>>

(* Without a main process nobody hears of exits any more.                    *)
Abandoned(ch) == [p \in Children |-> IF ch[p] = "dead" THEN "none" ELSE ch[p]]

(* before-quit is held to be enough.                                         *)
Mutant_WillQuit ==
  /\ main = "up" /\ quitting
  /\ main' = "left" /\ shutting' = FALSE /\ grace' = FALSE
  /\ willing' = FALSE /\ quitting' = FALSE
  /\ child' = Abandoned(child) /\ Forget /\ ours' = {}
  /\ signalled' = {} /\ state' = "NONE" /\ NoCalls
  /\ UNCHANGED <<platform, external, restarted>>

WillQuit ==
  /\ main = "up" /\ quitting
  /\ main' = "left" /\ shutting' = FALSE /\ grace' = FALSE
  /\ willing' = FALSE /\ quitting' = FALSE
  /\ child' = Abandoned(Killed(entry)) /\ Forget /\ ours' = {}
  /\ signalled' = {} /\ state' = "NONE" /\ NoCalls
  /\ UNCHANGED <<platform, external, restarted>>

(* The maps die with the main process, the pid file and the children stay.   *)
Crash ==
  /\ main = "up"
  /\ main' = "crashed" /\ shutting' = FALSE /\ grace' = FALSE
  /\ willing' = FALSE /\ quitting' = FALSE
  /\ child' = Abandoned(child) /\ entry' = NoChild /\ ours' = {}
  /\ signalled' = {} /\ state' = "NONE" /\ NoCalls
  /\ UNCHANGED <<platform, pidFile, external, restarted>>

(* The constructor with cleanupStalePids; the startup call will follow.      *)
Boot ==
  /\ main # "up" /\ main' = "up"
  /\ child' = Killed(pidFile) /\ pidFile' = NoChild
  /\ pc' = [pc EXCEPT ![Startup] = "due"]
  /\ UNCHANGED <<platform, exits, entry, state, signalled, ours, external, checks, target, restarted>>

-----------------------------------------------------------------------------
CallStep(c) ==
  \/ Probe(c) \/ FindsExternal(c) \/ FindsRunning(c) \/ SpawnThrows(c) \/ SpawnErrs(c)
  \/ \E p \in Children : Spawns(c, p)
  \/ IsReady(c) \/ ChecksAgain(c) \/ GivesUp(c)
  \/ StopTimesOut(c) \/ PortWaits(c)

ChildStep(p) == Listens(p) \/ ShutsDown(p) \/ Dies(p)

Next ==
  \/ \E c \in Calls : CallStep(c) \/ RestartBegins(c)
  \/ \E p \in Children : ChildStep(p) \/ ExitEvent(p)
  \/ StartupBegins \/ ExternalLeaves
  \/ StopAll \/ StopAllEnds \/ TrayQuitsAgain \/ AppQuits \/ WillQuit \/ Crash \/ Boot

(* The event loop turns: probes are answered, timers fire, exit events are   *)
(* delivered.  Nothing makes a child listen or die, or the user do anything. *)
Fairness ==
  /\ \A c \in Calls : WF_vars(CallStep(c))
  /\ \A p \in Children : WF_vars(ExitEvent(p))
  /\ WF_vars(StopAllEnds) /\ WF_vars(WillQuit)

Spec == Init /\ [][Next]_vars /\ Fairness

-----------------------------------------------------------------------------
(* What a crash leaves for the next start to clean up is right: the pid file *)
(* names the entered child, and that is one whose exit is still to come.     *)
EntryOnFile ==
  /\ main = "up" => pidFile = entry
  /\ entry # NoChild => entry \in ours /\ child[entry] # "none"

(* The page never shows a service as starting that nobody is starting.       *)
StartingIsUnderWay ==
  state = "STARTING" =>
    \E c \in Calls : pc[c] \in {"readyProbe", "readyTaken", "readySleep"}

(* Whatever the order of the startup call, exits and quitting, a living      *)
(* child is the entered one.  Restarts break this: see NoOrphans.            *)
LivingIsEntered ==
  main = "up" /\ ~shutting /\ ~restarted => Live \cap ours \subseteq {entry}

(* The entry, the pid file and the state agree with the children there are.  *)
EntryIsRight == EntryOnFile /\ LivingIsEntered /\ StartingIsUnderWay

(* On Windows, quitting in the middle of the startup, and a crash followed   *)
(* by another start, leave no process behind.                                *)
NothingLeftBehind ==
  main = "left" /\ platform = "win32" /\ ~restarted => Live = {}

(* A start or restart returns, whatever the service and the port do.         *)
CallsEnd == \A c \in Calls : pc[c] \notin {"idle", "due"} ~> pc[c] = "idle"

(* Quit from the tray ends the application, also when a menu's quit was      *)
(* refused before or comes in between.                                       *)
TrayQuitEnds == willing ~> main # "up"

(* Whatever is asked of the supervisor comes to an end.                      *)
EverythingEnds == CallsEnd /\ TrayQuitEnds

(* supervisor.ts, line 369: stopAll "Guarantees zero orphan processes on     *)
(* application exit."                                                        *)
NoOrphans == main = "left" => Live = {}
=============================================================================
