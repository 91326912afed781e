------------------------------ MODULE Assistant ------------------------------
(* The one word the renderer shows of all that goes on, assistantState       *)
(* (renderer/app.ts): typed commands, scans and spoken turns, the browser's  *)
(* recogniser and speech, barge-in, pause, health messages and the           *)
(* connection's coming and going, one JavaScript task at a time.  A request  *)
(* is what Front makes of it: answered, timed out, or ended by a close.      *)

CONSTANTS
  Typed,   \* commands typed, or scans of the screen, which go the same way
  Spoken,  \* turns of the microphone, each with its recogniser and its answer
  NoTurn

VARIABLES
  ui,         \* assistantState
  online,     \* gateway.isConnected()
  awaited,    \* the commands whose request is pending, each with its timer
  mic, micActive, rec,  \* speechRecognizer, speechRecognizerActive, each recogniser
  utter,      \* each spoken answer
  muted       \* isMuted

micVars == <<mic, micActive, rec>>
faceVars == <<ui, online, awaited, micVars, utter, muted>>

FaceInit ==
  /\ ui = "IDLE" /\ online = FALSE /\ awaited = {} /\ muted = FALSE
  /\ mic = NoTurn /\ micActive = FALSE
  /\ rec = [v \in Spoken |-> "off"]
  /\ utter = [v \in Spoken |-> "none"]

Shows(state) == ui' = state

-----------------------------------------------------------------------------
(* The microphone.                                                           *)
Silenced == [v \in Spoken |-> IF utter[v] = "speaking" THEN "cancelled" ELSE utter[v]]

StopListening ==
  /\ micActive' = FALSE
  /\ rec' = [v \in Spoken |->
       IF micActive /\ v = mic /\ rec[v] = "on" THEN "stopping" ELSE rec[v]]
  /\ UNCHANGED mic

(* Without a recogniser, or when its start() throws, IDLE; the flag of the   *)
(* one before stays as it was.                                               *)
StartListening(v, state) ==
  IF muted
  THEN Shows(state) /\ UNCHANGED micVars
  ELSE \/ /\ Shows("LISTENING") /\ mic' = v /\ micActive' = TRUE
          /\ rec' = [rec EXCEPT ![v] = "on"]
       \/ Shows("IDLE") /\ mic' \in {mic, v} /\ UNCHANGED <<micActive, rec>>

(* A hold begins, or a tap while not listening: speech is cut off first.     *)
MicHold(v) ==
  /\ v \notin awaited /\ rec[v] = "off" /\ utter[v] = "none"
  /\ utter' = (IF ui = "SPEAKING" THEN Silenced ELSE utter)
  /\ StartListening(v, IF ui = "SPEAKING" THEN "IDLE" ELSE ui)
  /\ UNCHANGED <<online, awaited, muted>>

(* A hold ends, or a tap while listening.  Without an active recogniser the  *)
(* state goes through THINKING to IDLE within the call.                      *)
MicStops ==
  /\ StopListening /\ Shows(IF micActive THEN ui ELSE "IDLE")
  /\ UNCHANGED <<online, awaited, utter, muted>>

Pause ==
  /\ utter' = Silenced /\ StopListening /\ Shows("IDLE")
  /\ UNCHANGED <<online, awaited, muted>>

MuteToggle == muted' = ~muted /\ UNCHANGED <<ui, online, awaited, micVars, utter>>

-----------------------------------------------------------------------------
(* Commands and their answers.                                               *)
Dispatch(c) ==
  IF online THEN awaited' = awaited \cup {c} /\ Shows("THINKING")
            ELSE Shows("IDLE") /\ UNCHANGED awaited

Submit(c) ==
  /\ c \notin awaited /\ Dispatch(c)
  /\ UNCHANGED <<online, micVars, utter, muted>>

RecogniserFails(v) ==
  /\ rec[v] \in {"on", "stopping"}
  /\ rec' = [rec EXCEPT ![v] = "failed"] /\ micActive' = FALSE /\ Shows("IDLE")
  /\ UNCHANGED <<mic, online, awaited, utter, muted>>

(* onend, with a transcript or with nothing heard; it clears the flag of     *)
(* whichever recogniser is the current one.                                  *)
RecogniserEnds(v) ==
  /\ rec[v] # "off" /\ rec' = [rec EXCEPT ![v] = "off"] /\ micActive' = FALSE
  /\ Dispatch(v) \/ (Shows("IDLE") /\ UNCHANGED awaited)
  /\ UNCHANGED <<mic, online, utter, muted>>

Speak(v) == utter' = [Silenced EXCEPT ![v] = "speaking"] /\ Shows("SPEAKING")

Answered(c) ==
  /\ c \in awaited /\ awaited' = awaited \ {c}
  /\ IF c \in Spoken THEN Speak(c) ELSE Shows("IDLE") /\ UNCHANGED utter
  /\ UNCHANGED <<online, micVars, muted>>

Mutant_Failed(c) ==
  /\ c \in awaited /\ awaited' = awaited \ {c}
  /\ UNCHANGED <<ui, online, micVars, utter, muted>>

Failed(c) ==
  /\ c \in awaited /\ awaited' = awaited \ {c} /\ Shows("IDLE")
  /\ UNCHANGED <<online, micVars, utter, muted>>

(* The end or an error of what is being said, or the error of what was cut   *)
(* off: an error sets IDLE whatever is shown by then.                        *)
UtteranceEnds(v) ==
  /\ utter[v] # "none" /\ utter' = [utter EXCEPT ![v] = "none"]
  /\ \/ utter[v] = "speaking" /\ Shows(IF ui = "SPEAKING" THEN "IDLE" ELSE ui)
     \/ Shows("IDLE")
  /\ UNCHANGED <<online, awaited, micVars, muted>>

-----------------------------------------------------------------------------
(* The connection.                                                           *)
GoesOnline == ~online /\ online' = TRUE /\ UNCHANGED <<ui, awaited, micVars, utter, muted>>

(* Any socket's close: OFFLINE is shown first, and what was pending, failing *)
(* next, shows IDLE again.                                                   *)
ConnectionCloses ==
  /\ online' = FALSE /\ utter' = Silenced /\ StopListening
  /\ awaited' = {} /\ Shows(IF awaited = {} THEN "OFFLINE" ELSE "IDLE")
  /\ UNCHANGED muted

(* A broadcast or the answer to system.health, as things stand or as they    *)
(* stood when the gateway awaited, from any socket that is still open, also  *)
(* when the close of another has put the renderer off; or connect() fails.   *)
HealthArrives ==
  /\ \/ Shows("OFFLINE")
     \/ ui = "OFFLINE" /\ Shows("IDLE")
  /\ UNCHANGED <<online, awaited, micVars, utter, muted>>

FaceNext ==
  \/ \E c \in Typed : Submit(c)
  \/ \E v \in Spoken :
       MicHold(v) \/ RecogniserFails(v) \/ RecogniserEnds(v) \/ UtteranceEnds(v)
  \/ \E c \in Typed \cup Spoken : Answered(c) \/ Failed(c)
  \/ MicStops \/ Pause \/ MuteToggle
  \/ GoesOnline \/ ConnectionCloses \/ HealthArrives

-----------------------------------------------------------------------------
FaceTypeOK ==
  /\ ui \in {"OFFLINE", "IDLE", "LISTENING", "THINKING", "SPEAKING"}
  /\ {online, micActive, muted} \subseteq BOOLEAN
  /\ awaited \subseteq Typed \cup Spoken
  /\ mic \in Spoken \cup {NoTurn}
  /\ rec \in [Spoken -> {"off", "on", "stopping", "failed"}]
  /\ utter \in [Spoken -> {"none", "speaking", "cancelled"}]

(* README.md:376, "Zero frozen UI states": whatever the assistant shows as   *)
(* going on has something under way that will end it, a request with its     *)
(* timer, a recogniser or an utterance, through taps, barge-in, the close of *)
(* another socket and health messages in any order.                          *)
NoFrozenState ==
  /\ ui = "THINKING" => awaited # {}
  /\ ui = "LISTENING" => \E v \in Spoken : rec[v] # "off"
  /\ ui = "SPEAKING" => \E v \in Spoken : utter[v] # "none"
=============================================================================
