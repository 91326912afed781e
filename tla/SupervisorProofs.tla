--------------------------- MODULE SupervisorProofs ----------------------------
(* Proofs about Supervisor, for any number of processes and restart calls.   *)
EXTENDS Supervisor, TLAPS

(* Without a main process there are no calls and nothing is entered.         *)
DownIsEmpty ==
  main # "up" =>
    /\ entry = NoChild /\ ours = {} /\ state = "NONE"
    /\ \A c \in Calls : pc[c] = "idle"

(* A child is one of ours from spawn to exit event, and only so long can it  *)
(* be dead and not yet gone.                                                 *)
OursExist == \A p \in Children : /\ p \in ours => child[p] # "none"
                                 /\ child[p] = "dead" => p \in ours

BeforeSpawn == {"due", "startProbe", "startTaken", "startFree"}

(* With no restart there is one call, and it spawns once.                    *)
SpawnsOnce ==
  ~restarted =>
    /\ \A c \in Restarts : pc[c] = "idle"
    /\ pc[Startup] \notin {"stopWait", "portProbe", "portSleep"}
    /\ pc[Startup] \in BeforeSpawn => ours = {}
    /\ \A p, q \in ours : p = q

OursIsEntered == ~restarted /\ ~shutting => ours \subseteq {entry}

(* On Windows the entry is all that lives, and the pid file after a crash.   *)
LivingIsKnown ==
  platform = "win32" /\ ~restarted =>
    Live \subseteq (IF main = "up" THEN {entry} ELSE IF main = "crashed" THEN {pidFile} ELSE {})

IInv == /\ TypeOK /\ EntryOnFile /\ StartingIsUnderWay /\ DownIsEmpty
        /\ OursExist /\ SpawnsOnce /\ OursIsEntered /\ LivingIsKnown

-----------------------------------------------------------------------------
(* What killing and abandoning do to a process, whatever the platform.       *)
ChildStates == LiveStates \cup {"none", "dead"}

(* Killing ends a child, or leaves it to listen.                             *)
LEMMA KilledFacts ==
  ASSUME TypeOK, NEW p
  PROVE  /\ Killed(p) \in [Children -> ChildStates]
         /\ \A q \in Children :
              /\ Killed(p)[q] \in LiveStates =>
                   child[q] \in LiveStates /\ ~(q = p /\ platform = "win32")
              /\ child[q] = "none" => Killed(p)[q] = "none"
              /\ q \in ours /\ child[q] # "none" => Killed(p)[q] # "none"
              /\ Killed(p)[q] = "dead" /\ child[q] # "dead" => q \in ours
BY DEF TypeOK, Killed, Remains, Live, LiveStates, ChildStates

(* The end of the application forgets the dead and leaves the living alone.  *)
LEMMA AbandonedFacts ==
  ASSUME NEW ch \in [Children -> ChildStates]
  PROVE  /\ Abandoned(ch) \in [Children -> ChildStates]
         /\ \A q \in Children :
              /\ Abandoned(ch)[q] \in LiveStates <=> ch[q] \in LiveStates
              /\ Abandoned(ch)[q] # "dead"
BY DEF Abandoned, LiveStates, ChildStates

(* Without calls, where they are is still typed.                             *)
LEMMA NoCallsType ==
  ASSUME NoCalls
  PROVE  /\ pc' \in [Calls -> Places] /\ checks' \in [Calls -> 0 .. MaxChecks - 1]
         /\ target' \in [Calls -> Children \cup {NoChild}]
         /\ \A c \in Calls : pc'[c] = "idle"
BY SupervisorAssumption DEF NoCalls, Places

(* The steps that touch only where a call is and what the page is told.      *)
QuietStep(c) ==
  \/ Probe(c) \/ FindsExternal(c) \/ FindsRunning(c) \/ SpawnThrows(c)
  \/ IsReady(c) \/ ChecksAgain(c) \/ GivesUp(c) \/ PortWaits(c)
  \/ c = Startup /\ StartupBegins

(* And so they leave children, entries and files alone.                      *)
LEMMA QuietStepIsQuiet ==
  ASSUME NEW c \in Calls, QuietStep(c)
  PROVE  /\ main = "up"
         /\ UNCHANGED <<platform, main, exits, entry, pidFile, os, target, restarted>>
BY DEF QuietStep, Probe, FindsExternal, FindsRunning, SpawnThrows, IsReady, ChecksAgain,
       GivesUp, PortWaits, StartupBegins, At

(* All other steps, for the case splits below.                               *)
LEMMA StepCases ==
  ASSUME [Next]_vars
  PROVE  \/ \E c \in Calls : \/ QuietStep(c) \/ SpawnErrs(c) \/ StopTimesOut(c)
                             \/ RestartBegins(c) \/ \E p \in Children : Spawns(c, p)
         \/ \E p \in Children : Listens(p) \/ ShutsDown(p) \/ Dies(p) \/ ExitEvent(p)
         \/ ExternalLeaves \/ StopAll \/ StopAllEnds \/ TrayQuitsAgain \/ AppQuits
         \/ WillQuit \/ Crash \/ Boot \/ UNCHANGED vars
BY DEF Next, CallStep, ChildStep, QuietStep, Calls

(* The entered child exists and is on file.                                  *)
LEMMA EntryStep ==
  ASSUME TypeOK, OursExist, EntryOnFile, DownIsEmpty, [Next]_vars
  PROVE  (EntryOnFile /\ OursExist)'
<1>1. ASSUME NEW c \in Calls, QuietStep(c)
      PROVE (EntryOnFile /\ OursExist)'
  BY <1>1, QuietStepIsQuiet DEF EntryOnFile, OursExist, os, exits
<1>2. ASSUME NEW c \in Calls, SpawnErrs(c)
      PROVE (EntryOnFile /\ OursExist)'
  BY <1>2, SupervisorAssumption DEF EntryOnFile, OursExist, SpawnErrs, Forget, At, os,
     exits
<1>3. ASSUME NEW c \in Calls, StopTimesOut(c)
      PROVE (EntryOnFile /\ OursExist)'
  BY <1>3, KilledFacts, SupervisorAssumption DEF EntryOnFile, OursExist, StopTimesOut,
     Forget, At
<1>4. ASSUME NEW c \in Calls, RestartBegins(c)
      PROVE (EntryOnFile /\ OursExist)'
  BY <1>4, KilledFacts DEF EntryOnFile, OursExist, RestartBegins, At, TypeOK, LiveStates,
     ChildStates
<1>5. ASSUME NEW c \in Calls, NEW p \in Children, Spawns(c, p)
      PROVE (EntryOnFile /\ OursExist)'
  BY <1>5 DEF EntryOnFile, OursExist, Spawns, At, TypeOK
<1>6. ASSUME NEW p \in Children, Listens(p) \/ ShutsDown(p) \/ Dies(p)
      PROVE (EntryOnFile /\ OursExist)'
  BY <1>6 DEF EntryOnFile, OursExist, Listens, ShutsDown, Dies, Remains, Live, Outside,
     locals, TypeOK, LiveStates
<1>7. ASSUME NEW p \in Children, ExitEvent(p)
      PROVE (EntryOnFile /\ OursExist)'
  BY <1>7, SupervisorAssumption DEF EntryOnFile, OursExist, ExitEvent, Forget, TypeOK
<1>8. CASE ExternalLeaves
  BY <1>8 DEF EntryOnFile, OursExist, ExternalLeaves, Outside
<1>9. CASE StopAll
  BY <1>9, KilledFacts DEF EntryOnFile, OursExist, StopAll, TypeOK, LiveStates,
     ChildStates
<1>10. CASE StopAllEnds
  BY <1>10, KilledFacts, SupervisorAssumption DEF EntryOnFile, OursExist, StopAllEnds,
     StopAllSync, Forget
<1>11. CASE TrayQuitsAgain \/ AppQuits
  BY <1>11, KilledFacts, SupervisorAssumption DEF EntryOnFile, OursExist, TrayQuitsAgain,
     AppQuits, StopAllSync, Forget
<1>12. CASE WillQuit
  BY <1>12, KilledFacts, AbandonedFacts DEF EntryOnFile, OursExist, WillQuit, Forget
<1>13. CASE Crash
  BY <1>13, AbandonedFacts DEF EntryOnFile, OursExist, Crash, TypeOK, ChildStates
<1>14. CASE Boot
  BY <1>14, KilledFacts, SupervisorAssumption DEF EntryOnFile, OursExist, Boot,
     DownIsEmpty
<1>15. CASE UNCHANGED vars
  BY <1>15 DEF EntryOnFile, OursExist, vars, os, exits
<1> QED
  BY StepCases, <1>1, <1>2, <1>3, <1>4, <1>5, <1>6, <1>7, <1>8, <1>9, <1>10, <1>11, <1>12,
     <1>13, <1>14, <1>15

(* Only a start under way leaves STARTING, and it does so with another state. *)
LEMMA StartingStep ==
  ASSUME TypeOK, StartingIsUnderWay, DownIsEmpty, [Next]_vars
  PROVE  StartingIsUnderWay'
<1>1. ASSUME NEW c \in Calls, QuietStep(c)
      PROVE StartingIsUnderWay'
  BY <1>1 DEF StartingIsUnderWay, At, TypeOK, QuietStep, Probe, FindsExternal,
     FindsRunning, SpawnThrows, IsReady, ChecksAgain, GivesUp, PortWaits, StartupBegins
<1>2. ASSUME NEW c \in Calls, SpawnErrs(c)
      PROVE StartingIsUnderWay'
  BY <1>2 DEF StartingIsUnderWay, At, SpawnErrs
<1>3. ASSUME NEW c \in Calls, StopTimesOut(c)
      PROVE StartingIsUnderWay'
  BY <1>3 DEF StartingIsUnderWay, At, StopTimesOut, TypeOK
<1>4. ASSUME NEW c \in Calls, RestartBegins(c)
      PROVE StartingIsUnderWay'
  BY <1>4 DEF StartingIsUnderWay, At, RestartBegins, TypeOK
<1>5. ASSUME NEW c \in Calls, NEW p \in Children, Spawns(c, p)
      PROVE StartingIsUnderWay'
  BY <1>5 DEF StartingIsUnderWay, At, Spawns, TypeOK
<1>6. ASSUME NEW p \in Children, Listens(p) \/ ShutsDown(p) \/ Dies(p)
      PROVE StartingIsUnderWay'
  BY <1>6 DEF StartingIsUnderWay, At, Listens, ShutsDown, Dies, Remains, Live, Outside,
     locals
<1>7. ASSUME NEW p \in Children, ExitEvent(p)
      PROVE StartingIsUnderWay'
  BY <1>7 DEF StartingIsUnderWay, At, ExitEvent
<1>8. CASE ExternalLeaves
  BY <1>8 DEF StartingIsUnderWay, At, ExternalLeaves, Outside, locals
<1>9. CASE StopAll
  BY <1>9 DEF StartingIsUnderWay, At, StopAll, locals
<1>10. CASE StopAllEnds
  BY <1>10 DEF StartingIsUnderWay, At, StopAllEnds, locals
<1>11. CASE TrayQuitsAgain \/ AppQuits
  BY <1>11 DEF StartingIsUnderWay, At, TrayQuitsAgain, AppQuits, locals
<1>12. CASE WillQuit
  BY <1>12 DEF StartingIsUnderWay, At, WillQuit
<1>13. CASE Crash
  BY <1>13 DEF StartingIsUnderWay, At, Crash
<1>14. CASE Boot
  BY <1>14 DEF StartingIsUnderWay, At, Boot, DownIsEmpty
<1>15. CASE UNCHANGED vars
  BY <1>15 DEF StartingIsUnderWay, At, vars, locals
<1> QED
  BY StepCases, <1>1, <1>2, <1>3, <1>4, <1>5, <1>6, <1>7, <1>8, <1>9, <1>10, <1>11, <1>12,
     <1>13, <1>14, <1>15

(* While the application is down nothing is entered.                         *)
LEMMA DownStep ==
  ASSUME TypeOK, DownIsEmpty, [Next]_vars
  PROVE  DownIsEmpty'
<1>1. ASSUME NEW c \in Calls, QuietStep(c)
      PROVE DownIsEmpty'
  BY <1>1, QuietStepIsQuiet DEF DownIsEmpty
<1>2. ASSUME NEW c \in Calls, SpawnErrs(c)
      PROVE DownIsEmpty'
  BY <1>2 DEF DownIsEmpty, SpawnErrs, At
<1>3. ASSUME NEW c \in Calls, StopTimesOut(c)
      PROVE DownIsEmpty'
  BY <1>3 DEF DownIsEmpty, StopTimesOut, At
<1>4. ASSUME NEW c \in Calls, RestartBegins(c)
      PROVE DownIsEmpty'
  BY <1>4 DEF DownIsEmpty, RestartBegins, At
<1>5. ASSUME NEW c \in Calls, NEW p \in Children, Spawns(c, p)
      PROVE DownIsEmpty'
  BY <1>5 DEF DownIsEmpty, Spawns, At
<1>6. ASSUME NEW p \in Children, Listens(p) \/ ShutsDown(p) \/ Dies(p)
      PROVE DownIsEmpty'
  BY <1>6 DEF DownIsEmpty, Listens, ShutsDown, Dies, Remains, Live, Outside, locals, os
<1>7. ASSUME NEW p \in Children, ExitEvent(p)
      PROVE DownIsEmpty'
  BY <1>7 DEF DownIsEmpty, ExitEvent
<1>8. CASE ExternalLeaves
  BY <1>8 DEF DownIsEmpty, ExternalLeaves, Outside, locals
<1>9. CASE StopAll
  BY <1>9 DEF DownIsEmpty, StopAll
<1>10. CASE StopAllEnds
  BY <1>10 DEF DownIsEmpty, StopAllEnds
<1>11. CASE TrayQuitsAgain \/ AppQuits
  BY <1>11 DEF DownIsEmpty, TrayQuitsAgain, AppQuits
<1>12. CASE WillQuit
  BY <1>12, NoCallsType DEF DownIsEmpty, WillQuit, Forget
<1>13. CASE Crash
  BY <1>13, NoCallsType DEF DownIsEmpty, Crash
<1>14. CASE Boot
  BY <1>14 DEF DownIsEmpty, Boot
<1>15. CASE UNCHANGED vars
  BY <1>15 DEF DownIsEmpty, vars, os, locals
<1> QED
  BY StepCases, <1>1, <1>2, <1>3, <1>4, <1>5, <1>6, <1>7, <1>8, <1>9, <1>10, <1>11, <1>12,
     <1>13, <1>14, <1>15

(* One call spawns, and once.                                                *)
LEMMA SpawnsOnceStep ==
  ASSUME TypeOK, SpawnsOnce, DownIsEmpty, [Next]_vars
  PROVE  SpawnsOnce'
<1>1. ASSUME NEW c \in Calls, QuietStep(c)
      PROVE SpawnsOnce'
  BY <1>1, QuietStepIsQuiet DEF SpawnsOnce, BeforeSpawn, Calls, At, TypeOK, os, exits,
     QuietStep, Probe, FindsExternal, FindsRunning, SpawnThrows, IsReady, ChecksAgain,
     GivesUp, PortWaits, StartupBegins
<1>2. ASSUME NEW c \in Calls, SpawnErrs(c)
      PROVE SpawnsOnce'
  BY <1>2 DEF SpawnsOnce, BeforeSpawn, Calls, SpawnErrs, At, TypeOK, os
<1>3. ASSUME NEW c \in Calls, StopTimesOut(c)
      PROVE SpawnsOnce'
  BY <1>3 DEF SpawnsOnce, BeforeSpawn, Calls, StopTimesOut, At, TypeOK
<1>4. ASSUME NEW c \in Calls, RestartBegins(c)
      PROVE SpawnsOnce'
  BY <1>4 DEF SpawnsOnce, BeforeSpawn, Calls, RestartBegins, At, TypeOK
<1>5. ASSUME NEW c \in Calls, NEW p \in Children, Spawns(c, p)
      PROVE SpawnsOnce'
  BY <1>5 DEF SpawnsOnce, BeforeSpawn, Calls, Spawns, At, TypeOK
<1>6. ASSUME NEW p \in Children, Listens(p) \/ ShutsDown(p) \/ Dies(p)
      PROVE SpawnsOnce'
  BY <1>6 DEF SpawnsOnce, BeforeSpawn, Calls, Listens, ShutsDown, Dies, Remains, Live,
     Outside, locals
<1>7. ASSUME NEW p \in Children, ExitEvent(p)
      PROVE SpawnsOnce'
  BY <1>7 DEF SpawnsOnce, BeforeSpawn, Calls, ExitEvent, TypeOK
<1>8. CASE ExternalLeaves
  BY <1>8 DEF SpawnsOnce, BeforeSpawn, Calls, ExternalLeaves, Outside, locals
<1>9. CASE StopAll
  BY <1>9 DEF SpawnsOnce, BeforeSpawn, Calls, StopAll, locals
<1>10. CASE StopAllEnds
  BY <1>10 DEF SpawnsOnce, BeforeSpawn, Calls, StopAllEnds, locals
<1>11. CASE TrayQuitsAgain \/ AppQuits
  BY <1>11 DEF SpawnsOnce, BeforeSpawn, Calls, TrayQuitsAgain, AppQuits, locals
<1>12. CASE WillQuit
  BY <1>12, NoCallsType DEF SpawnsOnce, BeforeSpawn, Calls, WillQuit
<1>13. CASE Crash
  BY <1>13, NoCallsType DEF SpawnsOnce, BeforeSpawn, Calls, Crash
<1>14. CASE Boot
  BY <1>14, SupervisorAssumption DEF SpawnsOnce, BeforeSpawn, Calls, Boot, DownIsEmpty,
     TypeOK
<1>15. CASE UNCHANGED vars
  BY <1>15 DEF SpawnsOnce, BeforeSpawn, Calls, vars, os, locals
<1> QED
  BY StepCases, <1>1, <1>2, <1>3, <1>4, <1>5, <1>6, <1>7, <1>8, <1>9, <1>10, <1>11, <1>12,
     <1>13, <1>14, <1>15

(* What is spawned once is entered until its exit event.                     *)
LEMMA OursStep ==
  ASSUME TypeOK, EntryOnFile, OursExist, DownIsEmpty, SpawnsOnce, OursIsEntered, [Next]_vars
  PROVE  OursIsEntered'
<1>1. ASSUME NEW c \in Calls, QuietStep(c)
      PROVE OursIsEntered'
  BY <1>1, QuietStepIsQuiet DEF OursIsEntered, os, exits
<1>2. ASSUME NEW c \in Calls, SpawnErrs(c)
      PROVE OursIsEntered'
  BY <1>2 DEF OursIsEntered, SpawnErrs, SpawnsOnce, BeforeSpawn, Calls, At, os, exits
<1>3. ASSUME NEW c \in Calls, StopTimesOut(c)
      PROVE OursIsEntered'
  BY <1>3 DEF OursIsEntered, StopTimesOut, SpawnsOnce, Calls, At, exits
<1>4. ASSUME NEW c \in Calls, RestartBegins(c)
      PROVE OursIsEntered'
  BY <1>4 DEF OursIsEntered, RestartBegins
<1>5. ASSUME NEW c \in Calls, NEW p \in Children, Spawns(c, p)
      PROVE OursIsEntered'
  BY <1>5 DEF OursIsEntered, Spawns, SpawnsOnce, BeforeSpawn, Calls, At, exits
<1>6. ASSUME NEW p \in Children, Listens(p) \/ ShutsDown(p) \/ Dies(p)
      PROVE OursIsEntered'
  BY <1>6 DEF OursIsEntered, Listens, ShutsDown, Dies, Remains, Live, Outside, locals,
     exits
<1>7. ASSUME NEW p \in Children, ExitEvent(p)
      PROVE OursIsEntered'
  BY <1>7 DEF OursIsEntered, ExitEvent, SpawnsOnce, exits
<1>8. CASE ExternalLeaves
  BY <1>8 DEF OursIsEntered, ExternalLeaves, Outside, exits
<1>9. CASE StopAll
  BY <1>9 DEF OursIsEntered, StopAll
<1>10. CASE StopAllEnds
  BY <1>10 DEF OursIsEntered, StopAllEnds, StopAllSync
<1>11. CASE TrayQuitsAgain \/ AppQuits
  BY <1>11 DEF OursIsEntered, TrayQuitsAgain, AppQuits, StopAllSync
<1>12. CASE WillQuit
  BY <1>12 DEF OursIsEntered, WillQuit
<1>13. CASE Crash
  BY <1>13 DEF OursIsEntered, Crash
<1>14. CASE Boot
  BY <1>14 DEF OursIsEntered, Boot, DownIsEmpty
<1>15. CASE UNCHANGED vars
  BY <1>15 DEF OursIsEntered, vars, os, exits
<1> QED
  BY StepCases, <1>1, <1>2, <1>3, <1>4, <1>5, <1>6, <1>7, <1>8, <1>9, <1>10, <1>11, <1>12,
     <1>13, <1>14, <1>15

(* Who lives is known, by entry or by file.                                  *)
LEMMA LivingStep ==
  ASSUME TypeOK, EntryOnFile, OursExist, DownIsEmpty, SpawnsOnce, LivingIsKnown, [Next]_vars
  PROVE  LivingIsKnown'
<1>1. ASSUME NEW c \in Calls, QuietStep(c)
      PROVE LivingIsKnown'
  BY <1>1, QuietStepIsQuiet DEF LivingIsKnown, Live, os
<1>2. ASSUME NEW c \in Calls, SpawnErrs(c)
      PROVE LivingIsKnown'
  BY <1>2, SupervisorAssumption DEF LivingIsKnown, Live, SpawnErrs, SpawnsOnce,
     BeforeSpawn, Calls, EntryOnFile, At, os
<1>3. ASSUME NEW c \in Calls, StopTimesOut(c)
      PROVE LivingIsKnown'
  BY <1>3 DEF LivingIsKnown, Live, StopTimesOut, SpawnsOnce, Calls, At
<1>4. ASSUME NEW c \in Calls, RestartBegins(c)
      PROVE LivingIsKnown'
  BY <1>4 DEF LivingIsKnown, Live, RestartBegins
<1>5. ASSUME NEW c \in Calls, NEW p \in Children, Spawns(c, p)
      PROVE LivingIsKnown'
  BY <1>5, SupervisorAssumption DEF LivingIsKnown, Live, Spawns, SpawnsOnce, BeforeSpawn,
     Calls, EntryOnFile, At, TypeOK
<1>6. ASSUME NEW p \in Children, Listens(p) \/ ShutsDown(p) \/ Dies(p)
      PROVE LivingIsKnown'
  BY <1>6 DEF LivingIsKnown, Live, Listens, ShutsDown, Dies, Remains, Live, Outside,
     locals, TypeOK, LiveStates
<1>7. ASSUME NEW p \in Children, ExitEvent(p)
      PROVE LivingIsKnown'
  BY <1>7, SupervisorAssumption DEF LivingIsKnown, Live, ExitEvent, SpawnsOnce,
     EntryOnFile, TypeOK, LiveStates
<1>8. CASE ExternalLeaves
  BY <1>8 DEF LivingIsKnown, Live, ExternalLeaves, Outside
<1>9. CASE StopAll
  BY <1>9, KilledFacts DEF LivingIsKnown, Live, StopAll
<1>10. CASE StopAllEnds
  BY <1>10, KilledFacts DEF LivingIsKnown, Live, StopAllEnds, StopAllSync
<1>11. CASE TrayQuitsAgain \/ AppQuits
  BY <1>11, KilledFacts DEF LivingIsKnown, Live, TrayQuitsAgain, AppQuits, StopAllSync
<1>12. CASE WillQuit
  BY <1>12, KilledFacts, AbandonedFacts DEF LivingIsKnown, Live, WillQuit
<1>13. CASE Crash
  BY <1>13, AbandonedFacts DEF LivingIsKnown, Live, Crash, EntryOnFile, TypeOK,
     ChildStates
<1>14. CASE Boot
  BY <1>14, KilledFacts DEF LivingIsKnown, Live, Boot, DownIsEmpty
<1>15. CASE UNCHANGED vars
  BY <1>15 DEF LivingIsKnown, Live, vars, os
<1> QED
  BY StepCases, <1>1, <1>2, <1>3, <1>4, <1>5, <1>6, <1>7, <1>8, <1>9, <1>10, <1>11, <1>12,
     <1>13, <1>14, <1>15

(* The types.                                                                *)
LEMMA TypeStep ==
  ASSUME TypeOK, [Next]_vars
  PROVE  TypeOK'
<1>1. ASSUME NEW c \in Calls, QuietStep(c)
      PROVE TypeOK'
  BY <1>1, SupervisorAssumption DEF TypeOK, At, Count, Places, States, exits, os, locals,
     QuietStep, Probe, FindsExternal, FindsRunning, SpawnThrows, IsReady, ChecksAgain,
     GivesUp, PortWaits, StartupBegins
<1>2. ASSUME NEW c \in Calls, SpawnErrs(c)
      PROVE TypeOK'
  BY <1>2 DEF TypeOK, At, Count, Places, States, exits, os, locals, SpawnErrs, Forget
<1>3. ASSUME NEW c \in Calls, StopTimesOut(c)
      PROVE TypeOK'
  BY <1>3, KilledFacts DEF TypeOK, At, Count, Places, States, exits, os, locals,
     StopTimesOut, Forget, ChildStates
<1>4. ASSUME NEW c \in Calls, RestartBegins(c)
      PROVE TypeOK'
  BY <1>4, KilledFacts DEF TypeOK, At, Count, Places, States, exits, os, locals,
     RestartBegins, ChildStates
<1>5. ASSUME NEW c \in Calls, NEW p \in Children, Spawns(c, p)
      PROVE TypeOK'
  BY <1>5 DEF TypeOK, At, Count, Places, States, exits, os, locals, Spawns, LiveStates
<1>6. ASSUME NEW p \in Children, Listens(p) \/ ShutsDown(p) \/ Dies(p)
      PROVE TypeOK'
  BY <1>6 DEF TypeOK, At, Count, Places, States, exits, os, locals, Listens, ShutsDown,
     Dies, Remains, Live, Outside, locals, LiveStates
<1>7. ASSUME NEW p \in Children, ExitEvent(p)
      PROVE TypeOK'
  BY <1>7 DEF TypeOK, At, Count, Places, States, exits, os, locals, ExitEvent, Forget
<1>8. CASE ExternalLeaves
  <2>1. external' \in BOOLEAN
    BY <1>8 DEF ExternalLeaves
  <2>2. UNCHANGED <<platform, main, shutting, grace, willing, quitting, entry, pidFile, state,
                    child, signalled, ours, pc, checks, target, restarted>>
    BY <1>8 DEF ExternalLeaves, Outside, exits, locals
  <2> QED BY <2>1, <2>2 DEF TypeOK
<1>9. CASE StopAll
  <2>1. child' \in [Children -> ChildStates]
    BY <1>9, KilledFacts DEF StopAll
  <2>2. signalled' \subseteq Children
    BY <1>9 DEF TypeOK, StopAll
  <2>3. {grace', willing', shutting'} \subseteq BOOLEAN
    BY <1>9 DEF StopAll
  <2>4. UNCHANGED <<platform, main, quitting, entry, pidFile, state, ours, external, pc, checks,
                    target, restarted>>
    BY <1>9 DEF StopAll, locals
  <2> QED BY <2>1, <2>2, <2>3, <2>4 DEF TypeOK, ChildStates
<1>10. ASSUME StopAllSync
       PROVE  /\ child' \in [Children -> ChildStates] /\ shutting' \in BOOLEAN
              /\ entry' = NoChild /\ pidFile' = NoChild
  BY <1>10, KilledFacts DEF StopAllSync, Forget
<1>11. CASE StopAllEnds \/ TrayQuitsAgain \/ AppQuits
  <2>1. /\ StopAllSync
        /\ UNCHANGED <<platform, main, state, signalled, ours, external, pc, checks, target,
                       restarted>>
    BY <1>11 DEF StopAllEnds, TrayQuitsAgain, AppQuits, locals
  <2>2. {grace', willing', quitting'} \subseteq BOOLEAN
    BY <1>11 DEF TypeOK, StopAllEnds, TrayQuitsAgain, AppQuits
  <2> QED BY <1>10, <2>1, <2>2 DEF TypeOK, ChildStates
<1>12. CASE WillQuit
  BY <1>12, KilledFacts, AbandonedFacts, NoCallsType DEF Forget, ChildStates, TypeOK, At,
     Count, Places, States, exits, os, locals, WillQuit
<1>13. CASE Crash
  BY <1>13, NoCallsType, AbandonedFacts DEF TypeOK, At, Count, Places, States, exits, os,
     locals, Crash, ChildStates
<1>14. CASE Boot
  BY <1>14, KilledFacts DEF TypeOK, At, Count, Places, States, exits, os, locals, Boot,
     ChildStates, Calls
<1>15. CASE UNCHANGED vars
  BY <1>15 DEF TypeOK, At, Count, Places, States, exits, os, locals, vars
<1> QED
  BY StepCases, <1>1, <1>2, <1>3, <1>4, <1>5, <1>6, <1>7, <1>8, <1>9, <1>10, <1>11, <1>12,
     <1>13, <1>14, <1>15

(* Together they hold at the start ...                                       *)
LEMMA InitInv == Init => IInv
<1> SUFFICES ASSUME Init PROVE IInv
  OBVIOUS
<1>1. TypeOK
  <2>1. checks \in [Calls -> 0 .. MaxChecks - 1]
    BY SupervisorAssumption DEF Init
  <2>2. platform \in {"win32", "posix"}
    BY SupervisorAssumption DEF Init
  <2> QED BY <2>1, <2>2 DEF Init, TypeOK, Places, States
<1>2. EntryOnFile /\ StartingIsUnderWay /\ DownIsEmpty /\ OursExist
  BY DEF Init, EntryOnFile, StartingIsUnderWay, DownIsEmpty, OursExist
<1>3. SpawnsOnce /\ OursIsEntered
  BY DEF Init, SpawnsOnce, OursIsEntered, Calls
<1>4. LivingIsKnown
  BY DEF Init, LivingIsKnown, Live, LiveStates
<1> QED BY <1>1, <1>2, <1>3, <1>4 DEF IInv

(* ... and after each step.                                                  *)
LEMMA InvStep == IInv /\ [Next]_vars => IInv'
BY TypeStep, EntryStep, StartingStep, DownStep, SpawnsOnceStep, OursStep, LivingStep DEF IInv

(* The inductive invariant holds.                                            *)
THEOREM Invariance == Spec => []IInv
BY InitInv, InvStep, PTL DEF Spec

-----------------------------------------------------------------------------
(* Every variable keeps its type.                                            *)
THEOREM Typing == Spec => []TypeOK
BY Invariance, PTL DEF IInv

(* The entered child has not gone, and a crash leaves its pid on file.       *)
THEOREM CrashLeavesThePid == Spec => []EntryOnFile
BY Invariance, PTL DEF IInv

(* STARTING is shown only while a start is under way.                        *)
THEOREM NeverStuckStarting == Spec => []StartingIsUnderWay
BY Invariance, PTL DEF IInv

(* As long as nobody asks for a restart, a living child is entered.          *)
THEOREM ChildrenAreTracked == Spec => []LivingIsEntered
<1>1. IInv => LivingIsEntered
  BY DEF IInv, OursIsEntered, LivingIsEntered
<1> QED BY <1>1, Invariance, PTL

(* As long as nobody asks for a restart, on Windows, quitting leaves nothing *)
(* behind, whenever it comes and whatever crashed before.                    *)
THEOREM CleanExit == Spec => []NothingLeftBehind
<1>1. IInv => NothingLeftBehind
  BY DEF IInv, LivingIsKnown, NothingLeftBehind
<1> QED BY <1>1, Invariance, PTL

(* The three together, as the run checks them.                               *)
THEOREM EntryStaysRight == Spec => []EntryIsRight
<1>. QED BY CrashLeavesThePid, NeverStuckStarting, ChildrenAreTracked, PTL
     DEF EntryIsRight
=============================================================================
