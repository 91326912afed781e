-------------------------------- MODULE Voice --------------------------------
(* The voice pipeline (voice/pipeline.py): sessions with their state machine *)
(* (state.py, session.py), each running one turn at a time, the speech       *)
(* recognisers tried in turn (stt/router.py), and the one AudioPlayback that *)
(* all turns share (audio/playback.py).  A turn is a coroutine, its playback *)
(* a task that the session holds, so that a barge-in can cancel it.          *)
EXTENDS Naturals

CONSTANTS
  Sessions,
  Chunks     \* chunks of an answer's audio

ASSUME VoiceAssumption == Chunks \in Nat \ {0}

VARIABLES
  phase,       \* session -> VoiceSessionState
  turn,        \* session -> what its coroutine awaits; "idle" without one
  play,        \* session -> its last playback task, which it holds
  left,        \* session -> chunks still to play
  interrupted, \* AudioPlayback._interrupted
  cut,         \* history: still playing since voice.stop, and no start() since
  torn         \* history: last reset while the agents or the synthesiser worked

voiceVars == <<phase, turn, play, left, interrupted, cut, torn>>

Audible == {"created", "playing"}

VoiceTypeOK ==
  /\ phase \in [Sessions -> {"idle", "listening", "processing", "speaking",
                             "interrupted", "error"}]
  /\ turn \in [Sessions -> {"idle", "capture", "fast", "accurate", "auxiliary",
                            "agent", "tts", "playback"}]
  /\ play \in [Sessions -> Audible \cup {"none", "cancelling", "cancelled", "finished", "failed"}]
  /\ left \in [Sessions -> 0 .. Chunks]
  /\ interrupted \in BOOLEAN /\ cut \subseteq Sessions /\ torn \subseteq Sessions

VoiceInit ==
  /\ phase = [s \in Sessions |-> "idle"] /\ turn = [s \in Sessions |-> "idle"]
  /\ play = [s \in Sessions |-> "none"] /\ left = [s \in Sessions |-> 0]
  /\ interrupted = FALSE /\ cut = {} /\ torn = {}

(* VALID_TRANSITIONS; any state may fail, and staying is no transition.      *)
Successors ==
  [idle |-> {"listening", "processing"}, listening |-> {"processing", "idle"},
   processing |-> {"speaking", "idle"}, speaking |-> {"idle", "interrupted"},
   interrupted |-> {"listening", "idle"}, error |-> {"idle"}]

May(s, to) == to = phase[s] \/ to \in Successors[phase[s]]

Turn(s, t) == turn' = [turn EXCEPT ![s] = t]
Phase(s, p) == phase' = [phase EXCEPT ![s] = p]
Play(s, p) == play' = [play EXCEPT ![s] = p]

(* How a playback ended only the turn that awaits it can tell.               *)
PlayEnds(s, p) ==
  /\ Play(s, IF turn[s] = "playback" THEN p ELSE "none")
  /\ left' = [left EXCEPT ![s] = 0] /\ cut' = cut \ {s}

speaker == <<left, interrupted, cut>>
sound == <<play, speaker, torn>>

Cancelled(s) == IF play[s] \in Audible THEN "cancelling" ELSE play[s]

-----------------------------------------------------------------------------
(* VoiceSession.reset.                                                       *)
Reset(s) ==
  /\ Phase(s, "idle") /\ Play(s, Cancelled(s))
  /\ torn' = IF turn[s] \in {"agent", "tts"} THEN torn \cup {s} ELSE torn \ {s}

(* The except clause of process_speech.                                      *)
TurnFails(s) == Phase(s, "error") /\ Turn(s, "idle")

(* listen_once, whose capture ends with speech, with a timeout or raising.   *)
Listen(s) ==
  /\ turn[s] = "idle" /\ May(s, "listening")
  /\ Phase(s, "listening") /\ Turn(s, "capture")
  /\ UNCHANGED sound

CaptureEnds(s) ==
  /\ turn[s] = "capture"
  /\ Turn(s, "idle") /\ UNCHANGED <<phase, sound>>

(* process_speech: the audio is checked, and goes to the fast recogniser if  *)
(* that is there and the utterance is short.                                 *)
ProcessSpeech(s) ==
  /\ turn[s] = "idle"
  /\ \/ TurnFails(s)
     \/ \E first \in {"fast", "accurate"} : Turn(s, first) /\ UNCHANGED phase
  /\ UNCHANGED sound

(* A transcript: an empty one resets the session, any other goes to the      *)
(* agents, if the session's state allows it.                                 *)
Transcribed(s) ==
  \/ Reset(s) /\ Turn(s, "idle")
  \/ /\ May(s, "processing") /\ Phase(s, "processing") /\ Turn(s, "agent")
     /\ torn' = torn \ {s} /\ UNCHANGED play
  \/ ~May(s, "processing") /\ TurnFails(s) /\ UNCHANGED <<play, torn>>

Escalates(s, to) == Turn(s, to) /\ UNCHANGED <<phase, play, torn>>

(* Escalation: from a transcript that is doubtful or empty, or a recogniser  *)
(* that raises or is missing.                                                *)
Recognise(s) ==
  /\ \/ turn[s] = "fast" /\ (Transcribed(s) \/ Escalates(s, "accurate"))
     \/ turn[s] = "accurate" /\ (Transcribed(s) \/ Escalates(s, "auxiliary"))
     \/ turn[s] = "auxiliary" /\ (Transcribed(s) \/ (TurnFails(s) /\ UNCHANGED <<play, torn>>))
  /\ UNCHANGED speaker

AgentAnswers(s) ==
  /\ turn[s] = "agent"
  /\ \/ Turn(s, "tts") /\ UNCHANGED phase
     \/ TurnFails(s)
  /\ UNCHANGED sound

(* The playback task is created, and held, before the session is asked       *)
(* whether it may speak: after a reset it may not, the turn fails, and       *)
(* nobody awaits what plays.                                                 *)
Synthesized(s) ==
  /\ turn[s] = "tts"
  /\ \/ /\ play' = [play EXCEPT ![s] = "created"] /\ left' = [left EXCEPT ![s] = Chunks]
        /\ IF May(s, "speaking") THEN Phase(s, "speaking") /\ Turn(s, "playback")
                                 ELSE TurnFails(s)
     \/ TurnFails(s) /\ UNCHANGED <<play, left>>
  /\ UNCHANGED <<interrupted, cut, torn>>

-----------------------------------------------------------------------------
(* The playback task.  Its start() clears the flag that all playbacks share. *)
PlayStarts(s) ==
  /\ play[s] = "created" /\ Play(s, "playing")
  /\ left' = [left EXCEPT ![s] = @ - 1]
  /\ interrupted' = FALSE /\ cut' = {}
  /\ UNCHANGED <<phase, turn, torn>>

PlayChunk(s) ==
  /\ left[s] > 0 /\ left' = [left EXCEPT ![s] = @ - 1]
  /\ UNCHANGED <<play, cut>>

(* The flag is not looked at any more; the loop that sees it does not leave. *)
Mutant_PlayGoesOnDeaf(s) ==
  /\ play[s] = "playing"
  /\ PlayChunk(s) \/ (left[s] = 0 /\ PlayEnds(s, "finished"))
  /\ UNCHANGED <<phase, turn, interrupted, torn>>

Mutant_PlayGoesOnWaits(s) ==
  /\ play[s] = "playing" /\ ~interrupted
  /\ PlayChunk(s) \/ (left[s] = 0 /\ PlayEnds(s, "finished"))
  /\ UNCHANGED <<phase, turn, interrupted, torn>>

(* The next chunk, or the end; a device may fail.                            *)
PlayGoesOn(s) ==
  /\ play[s] = "playing"
  /\ \/ ~interrupted /\ PlayChunk(s)
     \/ (interrupted \/ left[s] = 0) /\ PlayEnds(s, "finished")
     \/ PlayEnds(s, "failed")
  /\ UNCHANGED <<phase, turn, interrupted, torn>>

CancelLands(s) ==
  /\ play[s] = "cancelling" /\ PlayEnds(s, "cancelled")
  /\ UNCHANGED <<phase, turn, interrupted, torn>>

(* The turn is woken by the end of its playback.  One that was cancelled     *)
(* stops the shared playback, whoever plays by then.                         *)
TurnResumes(s) ==
  /\ turn[s] = "playback" /\ Play(s, "none")
  /\ \/ /\ play[s] = "finished"
        /\ Phase(s, "idle") /\ Turn(s, "idle") /\ UNCHANGED interrupted
     \/ play[s] = "failed" /\ TurnFails(s) /\ UNCHANGED interrupted
     \/ /\ play[s] = "cancelled" /\ interrupted' = TRUE
        /\ Phase(s, IF phase[s] = "speaking" THEN "interrupted" ELSE phase[s])
        /\ Turn(s, "idle")
  /\ UNCHANGED <<left, cut, torn>>

-----------------------------------------------------------------------------
(* The task is let go of before it is cancelled.                             *)
Mutant_Interrupt(s) ==
  /\ phase[s] = "speaking" /\ Phase(s, "interrupted")
  /\ UNCHANGED <<play, turn, speaker, torn>>

(* VoiceSession.interrupt, the barge-in.                                     *)
Interrupt(s) ==
  /\ phase[s] = "speaking" /\ Phase(s, "interrupted")
  /\ Play(s, Cancelled(s))
  /\ UNCHANGED <<turn, speaker, torn>>

(* The turn's caller gives up.  No except clause is for CancelledError       *)
(* except the one around the playback, which is cancelled with the turn.     *)
TurnCancelled(s) ==
  /\ \/ /\ turn[s] \notin {"idle", "playback"}
        /\ Turn(s, "idle") /\ UNCHANGED play
     \/ /\ turn[s] = "playback"
        /\ Play(s, IF play[s] \in Audible \cup {"cancelling"} THEN "cancelling" ELSE "cancelled")
        /\ UNCHANGED turn
  /\ UNCHANGED <<phase, speaker, torn>>

(* voice.stop: AudioPlayback.stop and nothing else.                          *)
VoiceStop ==
  /\ interrupted' = TRUE
  /\ cut' = {s \in Sessions : play[s] = "playing"}
  /\ UNCHANGED <<phase, turn, play, left, torn>>

(* By the owner of a session, at any moment of a turn.                       *)
ResetSession(s) == Reset(s) /\ UNCHANGED <<turn, speaker>>

TurnStep(s) == \/ CaptureEnds(s) \/ Recognise(s) \/ AgentAnswers(s)
               \/ Synthesized(s) \/ TurnResumes(s)
PlayStep(s) == PlayStarts(s) \/ PlayGoesOn(s) \/ CancelLands(s)

VoiceNext ==
  \/ VoiceStop
  \/ \E s \in Sessions :
       \/ Listen(s) \/ ProcessSpeech(s) \/ TurnStep(s) \/ PlayStep(s)
       \/ Interrupt(s) \/ TurnCancelled(s) \/ ResetSession(s)

(* Recognisers, agents and synthesisers answer, raise or are cut off by the  *)
(* limit of the request; a task that can run is run.                         *)
VoiceFairness ==
  \A s \in Sessions : WF_voiceVars(TurnStep(s)) /\ WF_voiceVars(PlayStep(s))

VoiceSpec == VoiceInit /\ [][VoiceNext]_voiceVars /\ VoiceFairness

-----------------------------------------------------------------------------
(* docs/voice-security.md, line 33, "prevents orphaned audio loops": in any  *)
(* order of barge-in, reset, cancellation, failure and end of a playback,    *)
(* nothing goes on after a barge-in, no session is left speaking when its    *)
(* turn is over, and audio plays for the turn that awaits it.  The one way   *)
(* to orphan it is a reset while the agents or the synthesiser work; the     *)
(* session then shows its error for as long as the audio may play, so that   *)
(* no other turn speaks over it before the next reset, which cancels it.     *)
NoOrphanedAudio ==
  \A s \in Sessions :
    /\ play[s] \in Audible =>
         \/ phase[s] = "speaking" /\ turn[s] = "playback"
         \/ phase[s] = "error" /\ s \in torn
    /\ phase[s] = "speaking" => turn[s] = "playback"

(* What voice.stop found playing plays nothing more, unless some other       *)
(* playback starts, which clears the flag they share.                        *)
StopHolds ==
  [][\A s \in Sessions : s \in cut /\ s \in cut' => left'[s] >= left[s]]_voiceVars

(* Every turn comes to an end, whatever stops, interrupts or fails it.       *)
TurnsEnd == \A s \in Sessions : turn[s] # "idle" ~> turn[s] = "idle"
=============================================================================
