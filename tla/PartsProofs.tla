------------------------------ MODULE PartsProofs ------------------------------
(* What holds of the parts for every value of their constants.  Each part    *)
(* moves by its own steps only, so each property is proved of the part alone *)
(* and holds of the parts side by side.                                      *)
EXTENDS Parts, EngineProofs, HandProofs, FiniteSetTheorems, SequenceTheorems,
        WellFoundedInduction, TLAPS

(* A step of the parts is a step of each of them, or leaves it as it is.     *)
LEMMA Apart ==
  ASSUME [PartsNext]_partsVars
  PROVE  /\ [Next]_vars /\ [VoiceNext]_voiceVars
         /\ [MemoryNext]_memoryVars /\ [WindowNext]_windowVars
         /\ [ToolsNext]_toolVars /\ [DesktopNext]_desktopVars
         /\ [FrontNext]_frontVars /\ [FaceNext]_faceVars
         /\ [VisionNext]_visionVars /\ [AINext]_aiVars
<1>1. CASE UNCHANGED partsVars
  BY <1>1 DEF partsVars, coreVars, mindVars, handVars
<1>2. CASE PartsNext
  BY <1>2 DEF PartsNext, CoreNext, MindNext, HandNext, coreVars, mindVars, handVars
<1> QED BY <1>1, <1>2

-----------------------------------------------------------------------------
(* The renderer's face.                                                      *)
LEMMA FaceStep ==
  ASSUME FaceTypeOK, NoFrozenState, [FaceNext]_faceVars
  PROVE  FaceTypeOK' /\ NoFrozenState'
<1> USE DEF FaceTypeOK, NoFrozenState, micVars, Shows
<1>1. CASE UNCHANGED faceVars
  BY <1>1 DEF faceVars
<1>2. ASSUME NEW c \in Typed, Submit(c) PROVE FaceTypeOK' /\ NoFrozenState'
  BY <1>2 DEF Submit, Dispatch
<1>3. ASSUME NEW v \in Spoken, MicHold(v) PROVE FaceTypeOK' /\ NoFrozenState'
  BY <1>3 DEF MicHold, StartListening, Silenced
<1>4. ASSUME NEW v \in Spoken, RecogniserFails(v) PROVE FaceTypeOK' /\ NoFrozenState'
  BY <1>4 DEF RecogniserFails
<1>5. ASSUME NEW v \in Spoken, RecogniserEnds(v) PROVE FaceTypeOK' /\ NoFrozenState'
  BY <1>5 DEF RecogniserEnds, Dispatch
<1>6. ASSUME NEW v \in Spoken, UtteranceEnds(v) PROVE FaceTypeOK' /\ NoFrozenState'
  BY <1>6 DEF UtteranceEnds
<1>7. ASSUME NEW c \in Typed \cup Spoken, Answered(c) PROVE FaceTypeOK' /\ NoFrozenState'
  BY <1>7 DEF Answered, Speak, Silenced
<1>8. ASSUME NEW c \in Typed \cup Spoken, Failed(c) PROVE FaceTypeOK' /\ NoFrozenState'
  BY <1>8 DEF Failed
<1>9. ASSUME MicStops \/ Pause PROVE FaceTypeOK' /\ NoFrozenState'
  BY <1>9 DEF MicStops, Pause, StopListening, Silenced
<1>10. ASSUME MuteToggle \/ GoesOnline \/ HealthArrives PROVE FaceTypeOK' /\ NoFrozenState'
  BY <1>10 DEF MuteToggle, GoesOnline, HealthArrives
<1>11. ASSUME ConnectionCloses PROVE FaceTypeOK' /\ NoFrozenState'
  BY <1>11 DEF ConnectionCloses, StopListening, Silenced
<1> QED
  BY <1>1, <1>2, <1>3, <1>4, <1>5, <1>6, <1>7, <1>8, <1>9, <1>10, <1>11 DEF FaceNext

(* NoFrozenState needs no more than the types to be inductive: each callback *)
(* of the renderer leaves something that will end what is shown.             *)
THEOREM NoFrozenFace == PartsSpec => []NoFrozenState
<1>1. PartsInit => FaceTypeOK /\ NoFrozenState
  BY DEF PartsInit, FaceInit, FaceTypeOK, NoFrozenState
<1> QED BY <1>1, FaceStep, Apart, PTL DEF PartsSpec

-----------------------------------------------------------------------------
(* A command's way.  A success on its way back to the renderer is of a       *)
(* command the core has answered, and an answer is never taken back.         *)
SuccessIsReplied ==
  \A c \in Commands : way[c] = "success" => stage[c] = "answered" /\ c \in replied

FrontIInv ==
  /\ stage \in [Commands -> {"new", "waiting", "refused", "answered",
                            "timeout", "closed", "writeError"}]
  /\ way \in [Commands -> {"none", "sent", "core", "success", "failure", "over"}]
  /\ cmd \in [Commands -> {"new", "pending", "done", "failed"}]
  /\ SuccessIsReplied /\ DoneMeansReplied

(* Each step of a command's way keeps this, ...                              *)
LEMMA FrontStep ==
  ASSUME FrontIInv, [FrontNext]_frontVars
  PROVE  FrontIInv'
<1> USE DEF FrontIInv, SuccessIsReplied, DoneMeansReplied
<1>1. CASE UNCHANGED frontVars
  BY <1>1 DEF frontVars, netVars, bridgeVars
<1>2. ASSUME NEW c \in Commands, SendRequest(c) PROVE FrontIInv'
  BY <1>2 DEF SendRequest, bridgeVars
<1>3. ASSUME NEW c \in Commands, Delivered(c) PROVE FrontIInv'
  BY <1>3 DEF Delivered, bridgeVars
<1>4. ASSUME NEW c \in Commands, RequestTimesOut(c) PROVE FrontIInv'
  BY <1>4 DEF RequestTimesOut, bridgeVars
<1>5. ASSUME NEW c \in Commands, GatewayReceives(c) PROVE FrontIInv'
  BY <1>5 DEF GatewayReceives, AtGateway, RR!Ask
<1>6. ASSUME NEW c \in Commands, CoreReplies(c) PROVE FrontIInv'
  BY <1>6 DEF CoreReplies, Waiting, RR!Reply
<1>7. ASSUME NEW Some \in SUBSET Waiting, NEW error \in {"timeout", "closed"},
             GivenUp(Some, error), cmd' = cmd
      PROVE  FrontIInv'
  BY <1>7 DEF GivenUp, Waiting, RR!GiveUp
<1>8. ASSUME BridgeFalls \/ \E c \in Commands : BridgeGivesUp(c) PROVE FrontIInv'
  BY <1>7, <1>8 DEF BridgeFalls, BridgeGivesUp
<1>9. ASSUME BridgeConnects \/ ReconnectDue \/ RetryButton PROVE FrontIInv'
  BY <1>9 DEF BridgeConnects, ReconnectDue, RetryButton, bridgeVars
<1>10. ASSUME NEW k \in Sockets, SocketOpens(k) \/ SocketBreaks(k) PROVE FrontIInv'
  BY <1>10 DEF SocketOpens, SocketBreaks, Linked, bridgeVars
<1>11. ASSUME NEW k \in Sockets, SocketCloses(k) PROVE FrontIInv'
  BY <1>11 DEF SocketCloses, Linked, bridgeVars
<1> QED
  BY <1>1, <1>2, <1>3, <1>4, <1>5, <1>6, <1>8, <1>9, <1>10, <1>11 DEF FrontNext

(* ... and the types, of which ws and link need no more than themselves.     *)
LEMMA FrontTyped ==
  ASSUME FrontTypeOK, [FrontNext]_frontVars
  PROVE  FrontTypeOK'
<1> USE DEF FrontTypeOK
<1>1. CASE UNCHANGED frontVars
  BY <1>1 DEF frontVars, netVars, bridgeVars
<1>2. ASSUME NEW c \in Commands, SendRequest(c) PROVE FrontTypeOK'
  BY <1>2 DEF SendRequest, netVars, bridgeVars
<1>3. ASSUME NEW c \in Commands, Delivered(c) PROVE FrontTypeOK'
  BY <1>3 DEF Delivered, netVars, bridgeVars
<1>4. ASSUME NEW c \in Commands, RequestTimesOut(c) PROVE FrontTypeOK'
  BY <1>4 DEF RequestTimesOut, netVars, bridgeVars
<1>5. ASSUME NEW c \in Commands, GatewayReceives(c) PROVE FrontTypeOK'
  BY <1>5 DEF GatewayReceives, netVars
<1>6. ASSUME NEW c \in Commands, CoreReplies(c) PROVE FrontTypeOK'
  BY <1>6 DEF CoreReplies, netVars
<1>7. ASSUME BridgeFalls \/ \E c \in Commands : BridgeGivesUp(c) PROVE FrontTypeOK'
  <2>1. way' \in [Commands -> {"none", "sent", "core", "success", "failure", "over"}]
    BY <1>7 DEF BridgeFalls, BridgeGivesUp, GivenUp
  <2>2. UNCHANGED <<ws, link, retry, cmd, via>>
    BY <1>7 DEF BridgeFalls, BridgeGivesUp, netVars
  <2>3. ipcUp' = ipcUp \/ ipcUp' = FALSE
    BY <1>7 DEF BridgeFalls, BridgeGivesUp
  <2> QED BY <2>1, <2>2, <2>3
<1>8. ASSUME BridgeConnects PROVE FrontTypeOK'
  BY <1>8 DEF BridgeConnects, netVars
<1>9. ASSUME ReconnectDue \/ RetryButton PROVE FrontTypeOK'
  <2>1. /\ ws' \in Sockets \cup {NoSocket}
        /\ link' \in [Sockets -> {"free", "connecting", "open", "dead"}]
    <3>1. Free # {} => (CHOOSE s \in Free : TRUE) \in Sockets
      BY DEF Free
    <3> QED BY <1>9, <3>1 DEF ReconnectDue, RetryButton, Connect
  <2>2. {retry', ipcUp'} \subseteq BOOLEAN /\ UNCHANGED <<cmd, way, via>>
    BY <1>9 DEF ReconnectDue, RetryButton, bridgeVars
  <2> QED BY <2>1, <2>2
<1>10. ASSUME NEW k \in Sockets, SocketOpens(k) \/ SocketBreaks(k) PROVE FrontTypeOK'
  BY <1>10 DEF SocketOpens, SocketBreaks, Linked, bridgeVars
<1>11. ASSUME NEW k \in Sockets, SocketCloses(k) PROVE FrontTypeOK'
  BY <1>11 DEF SocketCloses, Linked, bridgeVars
<1> QED
  BY <1>1, <1>2, <1>3, <1>4, <1>5, <1>6, <1>7, <1>8, <1>9, <1>10, <1>11 DEF FrontNext

(* A command shown as done was answered by the core, for any number of       *)
(* commands and of WebSockets (gateway.ts:344).                              *)
THEOREM DoneIsReplied == PartsSpec => []DoneMeansReplied
<1>1. PartsInit => FrontIInv
  BY DEF PartsInit, FrontInit, FrontIInv, SuccessIsReplied, DoneMeansReplied, RR!Init
<1>2. FrontIInv => DoneMeansReplied
  BY DEF FrontIInv
<1> QED BY <1>1, <1>2, FrontStep, Apart, PTL DEF PartsSpec

-----------------------------------------------------------------------------
(* The voice.  A turn that hands its text to the agents has put its session  *)
(* to processing, where only a reset takes it from; what is still to play of *)
(* a task not yet begun is all.                                              *)
VoiceIInv ==
  /\ VoiceTypeOK /\ NoOrphanedAudio
  /\ \A s \in Sessions :
       /\ turn[s] \in {"agent", "tts"} =>
            phase[s] = "processing" \/ (phase[s] = "idle" /\ s \in torn)
       /\ play[s] = "created" => left[s] = Chunks
  /\ cut # {} => interrupted

VoiceStep == \A s \in Sessions : s \in cut /\ s \in cut' => left'[s] >= left[s]

(* Each step of the voice keeps this, and what is silenced stays silent.     *)
LEMMA VoiceSteps ==
  ASSUME VoiceIInv, [VoiceNext]_voiceVars
  PROVE  VoiceIInv' /\ VoiceStep
<1> USE VoiceAssumption
        DEF VoiceIInv, VoiceTypeOK, NoOrphanedAudio, VoiceStep, Audible, Phase, Turn, Play
<1>1. CASE UNCHANGED voiceVars
  BY <1>1 DEF voiceVars
<1>2. ASSUME VoiceStop PROVE VoiceIInv' /\ VoiceStep
  BY <1>2 DEF VoiceStop
<1>3. ASSUME NEW s \in Sessions, Listen(s) PROVE VoiceIInv' /\ VoiceStep
  BY <1>3 DEF Listen, May, Successors, sound, speaker
<1>4. ASSUME NEW s \in Sessions, CaptureEnds(s) PROVE VoiceIInv' /\ VoiceStep
  BY <1>4 DEF CaptureEnds, sound, speaker
<1>5. ASSUME NEW s \in Sessions, ProcessSpeech(s) PROVE VoiceIInv' /\ VoiceStep
  BY <1>5 DEF ProcessSpeech, TurnFails, sound, speaker
<1>6. ASSUME NEW s \in Sessions, Recognise(s) PROVE VoiceIInv' /\ VoiceStep
  <2>1. UNCHANGED speaker /\ turn[s] \in {"fast", "accurate", "auxiliary"}
    BY <1>6 DEF Recognise
  <2>2. CASE Reset(s) /\ Turn(s, "idle")
    <3>1. Cancelled(s) \in {"cancelling", "none", "cancelled", "finished", "failed"}
      BY DEF Cancelled
    <3>2. torn' \subseteq Sessions /\ \A r \in Sessions \ {s} : r \in torn' <=> r \in torn
      BY <2>2 DEF Reset
    <3> HIDE DEF VoiceIInv, NoOrphanedAudio
    <3>3. VoiceTypeOK' /\ VoiceStep
      BY <2>1, <2>2, <3>1, <3>2 DEF Reset, speaker, VoiceIInv
    <3> QED BY <2>1, <2>2, <3>1, <3>2, <3>3 DEF Reset, speaker, VoiceIInv, NoOrphanedAudio
  <2>3. CASE /\ May(s, "processing") /\ Phase(s, "processing") /\ Turn(s, "agent")
             /\ torn' = torn \ {s} /\ UNCHANGED play
    BY <2>1, <2>3 DEF speaker, May, Successors
  <2>4. CASE TurnFails(s) /\ UNCHANGED <<play, torn>>
    BY <2>1, <2>4 DEF TurnFails, speaker
  <2>5. ASSUME NEW to \in {"accurate", "auxiliary"}, Escalates(s, to)
        PROVE  VoiceIInv' /\ VoiceStep
    BY <2>1, <2>5 DEF Escalates, speaker
  <2> QED BY <1>6, <2>2, <2>3, <2>4, <2>5 DEF Recognise, Transcribed
<1>7. ASSUME NEW s \in Sessions, AgentAnswers(s) PROVE VoiceIInv' /\ VoiceStep
  BY <1>7 DEF AgentAnswers, TurnFails, sound, speaker
<1>8. ASSUME NEW s \in Sessions, Synthesized(s) PROVE VoiceIInv' /\ VoiceStep
  BY <1>8 DEF Synthesized, TurnFails, May, Successors
<1>9. ASSUME NEW s \in Sessions, PlayStarts(s) PROVE VoiceIInv' /\ VoiceStep
  <2>1. left[s] = Chunks /\ left'[s] \in 0 .. Chunks /\ left' \in [Sessions -> 0 .. Chunks]
    BY <1>9 DEF PlayStarts
  <2>2. VoiceTypeOK'
    BY <1>9, <2>1 DEF PlayStarts
  <2> QED BY <1>9, <2>2 DEF PlayStarts
<1>10. ASSUME NEW s \in Sessions, PlayGoesOn(s) PROVE VoiceIInv' /\ VoiceStep
  <2>1. CASE ~interrupted /\ PlayChunk(s) /\ UNCHANGED <<phase, turn, interrupted, torn>>
    BY <1>10, <2>1 DEF PlayGoesOn, PlayChunk
  <2>2. ASSUME NEW p \in {"finished", "failed"}, PlayEnds(s, p),
               UNCHANGED <<phase, turn, interrupted, torn>>
        PROVE  VoiceIInv' /\ VoiceStep
    BY <2>2 DEF PlayEnds
  <2> QED BY <1>10, <2>1, <2>2 DEF PlayGoesOn
<1>11. ASSUME NEW s \in Sessions, CancelLands(s) PROVE VoiceIInv' /\ VoiceStep
  <2>1. VoiceStep /\ VoiceTypeOK'
    BY <1>11 DEF CancelLands, PlayEnds
  <2> QED BY <1>11, <2>1 DEF CancelLands, PlayEnds
<1>12. ASSUME NEW s \in Sessions, TurnResumes(s) PROVE VoiceIInv' /\ VoiceStep
  <2>1. VoiceStep
    BY <1>12 DEF TurnResumes
  <2>2. VoiceTypeOK'
    BY <1>12 DEF TurnResumes, TurnFails
  <2> QED BY <1>12, <2>1, <2>2 DEF TurnResumes, TurnFails
<1>13. ASSUME NEW s \in Sessions, Interrupt(s) PROVE VoiceIInv' /\ VoiceStep
  <2>1. Cancelled(s) \in {"cancelling", "none", "cancelled", "finished", "failed"}
    BY DEF Cancelled
  <2>2. VoiceTypeOK'
    BY <1>13, <2>1 DEF Interrupt, speaker
  <2> QED BY <1>13, <2>1, <2>2 DEF Interrupt, speaker
<1>14. ASSUME NEW s \in Sessions, TurnCancelled(s) PROVE VoiceIInv' /\ VoiceStep
  BY <1>14 DEF TurnCancelled, speaker
<1>15. ASSUME NEW s \in Sessions, ResetSession(s) PROVE VoiceIInv' /\ VoiceStep
  <2>1. Cancelled(s) \in {"cancelling", "none", "cancelled", "finished", "failed"}
    BY DEF Cancelled
  <2>2. /\ torn' \subseteq Sessions /\ \A r \in Sessions \ {s} : r \in torn' <=> r \in torn
        /\ turn[s] \in {"agent", "tts"} => s \in torn'
    BY <1>15 DEF ResetSession, Reset
  <2> HIDE DEF VoiceIInv, NoOrphanedAudio
  <2>3. VoiceTypeOK' /\ VoiceStep
    BY <1>15, <2>1, <2>2 DEF ResetSession, Reset, speaker, VoiceIInv
  <2> QED BY <1>15, <2>1, <2>2, <2>3 DEF ResetSession, Reset, speaker, VoiceIInv, NoOrphanedAudio
<1> QED
  BY <1>1, <1>2, <1>3, <1>4, <1>5, <1>6, <1>7, <1>8, <1>9, <1>10, <1>11, <1>12, <1>13,
     <1>14, <1>15 DEF VoiceNext, TurnStep, PlayStep

(* So it holds of the voice beside the other parts.                          *)
LEMMA VoiceInvariance == PartsSpec => [](VoiceIInv /\ VoiceTypeOK /\ NoOrphanedAudio)
<1>1. VoiceInit => VoiceIInv
  <2>1. 0 \in 0 .. Chunks
    BY VoiceAssumption
  <2>2. VoiceInit => VoiceTypeOK
    BY <2>1 DEF VoiceInit, VoiceTypeOK
  <2> QED BY <2>2 DEF VoiceInit, VoiceIInv, NoOrphanedAudio, Audible
<1>2. VoiceIInv => VoiceTypeOK /\ NoOrphanedAudio
  BY DEF VoiceIInv
<1> QED BY <1>1, <1>2, VoiceSteps, Apart, PTL DEF PartsSpec, PartsInit

(* Audio plays only in a session that speaks, for the turn that awaits it,   *)
(* or in one that shows the error a reset in the middle of its turn led to   *)
(* (voice/pipeline.py, docs/voice-security.md:33), for any number of sessions.*)
THEOREM AudioIsOwned == PartsSpec => []NoOrphanedAudio
BY VoiceInvariance, PTL

(* voice.stop silences what it found playing, until some playback starts     *)
(* (audio/playback.py).                                                      *)
THEOREM StopSilences == PartsSpec => StopHolds
<1>1. VoiceIInv /\ [PartsNext]_partsVars => [VoiceStep]_voiceVars
  BY VoiceSteps, Apart
<1> QED BY <1>1, VoiceInvariance, PTL DEF PartsSpec, StopHolds, VoiceStep

-----------------------------------------------------------------------------
(* The memory.  A preference that is still to be linked has a memory of its  *)
(* own, which no other refers to; what is about to be marked has its vector. *)
Owned ==
  /\ op.next = "mark" => op.id \in vectors
  /\ op.next # "none" => op.id \in DOMAIN rows
  /\ op.next = "link" =>
       /\ op.key \in Keys /\ op.value \in Values
       /\ rows[op.id].value = op.value
       /\ rows[op.id].status # "embedded"
       /\ \A k \in Keys : prefs[k].id # op.id
  /\ \A j, k \in Keys : prefs[j] # Unset /\ prefs[j].id = prefs[k].id => j = k
  /\ \A k \in Keys : prefs[k].id \in 0 .. used /\ (prefs[k].id = 0 => prefs[k] = Unset)

(* What is about to be recorded was run to its end.                          *)
Recordable == conn = "record" => \A v \in Migrations : Due(v) => built[v] = "all"

MemoryIInv == MemoryTypeOK /\ Owned /\ StoresAgree /\ Recordable

(* A version is recorded only when its script has run to its end.            *)
LEMMA SchemaStep ==
  ASSUME SchemaTypeOK, SchemaIsBuilt, Recordable, [MemoryNext]_memoryVars
  PROVE  SchemaTypeOK' /\ SchemaIsBuilt' /\ Recordable'
<1> USE DEF SchemaTypeOK, SchemaIsBuilt, Recordable, Migrations, Unapplied, Due
<1>1. CASE UNCHANGED schemaVars
  BY <1>1 DEF schemaVars
<1>2. CASE OpenDatabase
  BY <1>2 DEF OpenDatabase
<1>3. ASSUME NEW v \in Migrations, RunScript(v)
      PROVE  SchemaTypeOK' /\ SchemaIsBuilt' /\ Recordable'
  BY <1>3 DEF RunScript
<1>4. ASSUME NEW v \in Migrations, RecordVersion(v)
      PROVE  SchemaTypeOK' /\ SchemaIsBuilt' /\ Recordable'
  BY <1>4 DEF RecordVersion
<1>5. CASE ConnectionLost
  BY <1>5 DEF ConnectionLost
<1> QED BY <1>1, <1>2, <1>3, <1>4, <1>5 DEF MemoryNext, SchemaNext, CrashMemory, memoryVars

(* A new memory is put beside the others.                                    *)
LEMMA PutAdds ==
  ASSUME MemoryTypeOK, used < MaxRecords, used' = used + 1, NEW row \in Row, Put(used + 1, row)
  PROVE  /\ used' \in 0 .. MaxRecords /\ used + 1 \in Ids
         /\ DOMAIN rows' = DOMAIN rows \cup {used + 1} /\ DOMAIN rows' \subseteq 1 .. used'
         /\ 1 .. used \subseteq 1 .. used' /\ used + 1 \notin DOMAIN rows
         /\ rows'[used + 1] = row /\ \A id \in DOMAIN rows : rows'[id] = rows[id]
         /\ \A id \in DOMAIN rows' : rows'[id] \in Row
<1>1. /\ used' \in 0 .. MaxRecords /\ used + 1 \in Ids
      /\ used + 1 \notin 1 .. used /\ 1 .. used \subseteq 1 .. used' /\ used + 1 \in 1 .. used'
  BY MemoryAssumption DEF MemoryTypeOK, Ids
<1>2. DOMAIN rows' = DOMAIN rows \cup {used + 1}
  BY DEF Put
<1>3. rows'[used + 1] = row /\ \A id \in DOMAIN rows : rows'[id] = rows[id]
  BY <1>1 DEF Put, MemoryTypeOK
<1> QED BY <1>1, <1>2, <1>3, SMTT(30) DEF MemoryTypeOK

(* Each transaction, and each crash between two, keeps this.                 *)
LEMMA MemoryStep ==
  ASSUME MemoryIInv, [MemoryNext]_memoryVars
  PROVE  MemoryIInv'
<1>0. SchemaTypeOK' /\ SchemaIsBuilt' /\ Recordable'
  BY SchemaStep DEF MemoryIInv, MemoryTypeOK, StoresAgree
<1> USE <1>0, MemoryAssumption
        DEF MemoryIInv, MemoryTypeOK, Owned, StoresAgree, Ids, Idle, Unset, Then, DatabaseReady
<1>1. CASE UNCHANGED memoryVars
  BY <1>1 DEF memoryVars
<1>2. CASE Store
  <2>1. CASE UNCHANGED <<rows, op>>
    BY <1>2, <2>1 DEF Store
  <2>2. ASSUME NEW row \in Row, row.status = "pending",
               Put(used + 1, row), Then("index", used + 1, NoKey, NoValue)
        PROVE  MemoryIInv'
    <3>1. op' = [next |-> "index", id |-> used + 1, key |-> NoKey, value |-> NoValue]
      BY <2>2
    <3>2. MemoryTypeOK'
      BY <1>2, <2>2, <3>1, PutAdds DEF Store
    <3> QED BY <1>2, <2>2, <3>1, <3>2, PutAdds DEF Store
  <2>3. ASSUME NEW p \in Projects \cup {NoProject}, NEW g \in BOOLEAN,
               NEW d \in {"never", "ahead"}
        PROVE  [project |-> p, global |-> g, deadline |-> d, status |-> "pending",
                value |-> NoValue] \in Row
    BY DEF Row
  <2> QED BY <1>2, <2>1, <2>2, <2>3 DEF Store, Expiry
<1>3. CASE IndexRecord
  <2>1. op.id \in Ids /\ op.id \in 1 .. used
    BY <1>3 DEF IndexRecord
  <2>2. op' \in [next : {"mark", "fail"}, id : {op.id}, key : {NoKey}, value : {NoValue}]
    BY <1>3 DEF IndexRecord
  <2>3. MemoryTypeOK'
    BY <1>3, <2>1, <2>2 DEF IndexRecord
  <2> QED BY <1>3, <2>1, <2>3 DEF IndexRecord
<1>4. CASE MarkRecord
  <2>1. ASSUME NEW st \in {"embedded", "failed"}, rows' = [rows EXCEPT ![op.id].status = st],
               op.next # "none"
        PROVE  /\ DOMAIN rows' = DOMAIN rows
               /\ \A id \in DOMAIN rows :
                    /\ rows'[id] \in Row /\ rows'[id].value = rows[id].value
                    /\ rows'[id].status = IF id = op.id THEN st ELSE rows[id].status
    <3>1. DOMAIN rows' = DOMAIN rows
      BY <2>1
    <3>2. ASSUME NEW id \in DOMAIN rows
          PROVE  /\ rows'[id] \in Row /\ rows'[id].value = rows[id].value
                 /\ rows'[id].status = IF id = op.id THEN st ELSE rows[id].status
      <4>1. rows[id] \in Row
        OBVIOUS
      <4>2. rows'[id] = IF id = op.id THEN [rows[id] EXCEPT !.status = st] ELSE rows[id]
        BY <2>1
      <4> HIDE <1>0
      <4> QED BY <4>1, <4>2 DEF Row
    <3> QED BY <3>1, <3>2
  <2>2. CASE op.next = "mark" /\ rows' = [rows EXCEPT ![op.id].status = "embedded"] /\ op' = Idle
    <3>1. MemoryTypeOK'
      BY <1>4, <2>1, <2>2 DEF MarkRecord
    <3> QED BY <1>4, <2>1, <2>2, <3>1 DEF MarkRecord
  <2>3. CASE op.next = "fail" /\ rows' = [rows EXCEPT ![op.id].status = "failed"] /\ op' = Idle
    <3>1. MemoryTypeOK'
      BY <1>4, <2>1, <2>3 DEF MarkRecord
    <3> QED BY <1>4, <2>1, <2>3, <3>1 DEF MarkRecord
  <2>4. CASE UNCHANGED rows /\ (op' = Idle \/ Then("fail", op.id, NoKey, NoValue))
             /\ op.next \in {"mark", "fail"}
    BY <1>4, <2>4 DEF MarkRecord
  <2> QED BY <1>4, <2>2, <2>3, <2>4 DEF MarkRecord
<1>5. ASSUME NEW k \in Keys, NEW v \in Values, UpsertPreference(k, v) PROVE MemoryIInv'
  <2>1. CASE prefs[k] # Unset
    <3>1. /\ DOMAIN rows' = DOMAIN rows /\ prefs[k].id \in DOMAIN rows
          /\ \A id \in DOMAIN rows :
               /\ rows'[id] \in Row /\ rows'[id].status = rows[id].status
               /\ rows'[id].value = IF id = prefs[k].id THEN v ELSE rows[id].value
      BY <1>5, <2>1 DEF UpsertPreference, Row
    <3>2. /\ prefs'[k] = [id |-> prefs[k].id, value |-> v]
          /\ \A j \in Keys \ {k} : prefs'[j] = prefs[j]
      BY <1>5, <2>1 DEF UpsertPreference
    <3>3. MemoryTypeOK'
      BY <1>5, <2>1, <3>1 DEF UpsertPreference
    <3>4. StoresAgree'
      BY <1>5, <2>1, <3>1, <3>2 DEF UpsertPreference
    <3> QED BY <1>5, <2>1, <3>1, <3>2, <3>3, <3>4 DEF UpsertPreference
  <2>2. CASE prefs[k] = Unset
    <3> DEFINE row == [project |-> NoProject, global |-> FALSE, deadline |-> "never",
                       status |-> "pending", value |-> v]
    <3>1. /\ row \in Row /\ row.value = v /\ row.status = "pending"
      BY DEF Row
    <3>2. /\ used < MaxRecords /\ used' = used + 1 /\ Put(used + 1, row)
          /\ UNCHANGED <<prefs, vectors>>
      BY <1>5, <2>2 DEF UpsertPreference
    <3> HIDE DEF row
    <3>3. op' = [next |-> "link", id |-> used + 1, key |-> k, value |-> v]
      BY <1>5, <2>2 DEF UpsertPreference
    <3>4. MemoryTypeOK'
      BY <3>1, <3>2, <3>3, PutAdds
    <3> QED BY <3>1, <3>2, <3>3, <3>4, PutAdds
  <2> QED BY <2>1, <2>2
<1>6. CASE LinkPreference
  BY <1>6 DEF LinkPreference
<1>7. ASSUME NEW D, Deleted(D), op = Idle PROVE MemoryIInv'
  <2>1. MemoryTypeOK'
    BY <1>7 DEF Deleted, Drop
  <2>2. StoresAgree'
    BY <1>7 DEF Deleted, Drop
  <2> QED BY <1>7, <2>1, <2>2 DEF Deleted, Drop
<1>8. CASE PruneExpired \/ \E id \in Ids : DeleteRecord(id)
  BY <1>7, <1>8 DEF PruneExpired, DeleteRecord
<1>9. ASSUME NEW id \in Ids, DeadlinePasses(id) PROVE MemoryIInv'
  BY <1>9 DEF DeadlinePasses, Row
<1>10. CASE CrashMemory
  <2>1. MemoryTypeOK'
    BY <1>10 DEF CrashMemory
  <2>2. Owned'
    BY <1>10 DEF CrashMemory
  <2> QED BY <1>10, <2>1, <2>2 DEF CrashMemory
<1>11. CASE SchemaNext /\ UNCHANGED <<rows, vectors, prefs, used, op>>
  BY <1>11
<1> QED BY <1>1, <1>2, <1>3, <1>4, <1>5, <1>6, <1>8, <1>9, <1>10, <1>11 DEF MemoryNext

(* An empty memory is sound.                                                 *)
LEMMA MemoryStart == MemoryInit => MemoryIInv
BY MemoryAssumption DEF MemoryInit, MemoryIInv, MemoryTypeOK, Owned, StoresAgree, Unset, Idle,
   Recordable, SchemaInit, SchemaTypeOK, SchemaIsBuilt, Migrations

(* Wherever a write or a migration is broken off, rows, vectors, preferences *)
(* and schema agree (memory/manager.py, database/migrations.py), for any     *)
(* number of memories, keys and projects.                                    *)
THEOREM StoresAlwaysAgree == PartsSpec => []StoresAgree
<1>1. MemoryIInv => StoresAgree
  BY DEF MemoryIInv
<1> QED BY <1>1, MemoryStart, MemoryStep, Apart, PTL DEF PartsSpec, PartsInit

(* Nothing is recalled across projects or past its deadline                  *)
(* (memory/retrieval/retriever.py): whatever the stores hold, which is what  *)
(* makes it independent of how they came to hold it.                         *)
THEOREM RecallRespectsScope == PartsSpec => []RecallIsAllowed
<1>1. ASSUME NEW q \in Query, NEW S \in Searched(q), NEW K \in Nearest,
             NEW id \in S \cup Neighbours(q, K)
      PROVE  id \in DOMAIN rows /\ (q.expired \/ rows[id].deadline # "past")
  BY DEF Searched, Neighbours
<1>2. RecallIsAllowed
  BY <1>1 DEF RecallIsAllowed, Recalled
<1> QED BY <1>2, PTL

-----------------------------------------------------------------------------
(* The window of recent messages.  Its operators are recursive functions; a  *)
(* sequence is shorter than another or the least of a set of numbers, and so *)
(* what holds of all of them is proved without an induction theorem.         *)

(* Every set of numbers that has a member has a least one.                   *)
LEMMA LeastNumber ==
  ASSUME NEW T \in SUBSET Nat, T # {}
  PROVE  \E n \in T : \A m \in T : n <= m
<1>1. PICK n \in T : \A m \in T : <<m, n>> \notin OpToRel(<, Nat)
  BY NatLessThanWellFounded, WFMin, Zenon
<1>2. \A m \in T : ~(m < n)
  BY <1>1 DEF OpToRel
<1> QED BY <1>2

(* A function on 0 .. n that goes on from b with H exists in D, and any two  *)
(* that do agree.                                                            *)
Follows(f, n, b, H, D) ==
  f[0] = b /\ \A i \in 1 .. n : f[i - 1] \in D => f[i] = H[i][f[i - 1]]
Steps(n, b, H, D) == n \in Nat /\ b \in D /\ H \in [1 .. n -> [D -> D]]
Agree(f, g, n, D) == \A i \in 0 .. n : f[i] = g[i] /\ f[i] \in D

(* There is one, ...                                                         *)
LEMMA Recursion ==
  ASSUME NEW D, NEW b, NEW n, NEW H, Steps(n, b, H, D)
  PROVE  \E f \in [0 .. n -> D] : Follows(f, n, b, H, D)
<1> n \in Nat /\ b \in D /\ H \in [1 .. n -> [D -> D]]
  BY DEF Steps
<1> DEFINE Goes(f, k) == f \in [0 .. k -> D] /\ Follows(f, k, b, H, D)
           T == {k \in 0 .. n : ~\E f : Goes(f, k)}
<1> SUFFICES ASSUME T # {} PROVE FALSE
  <2> n \in 0 .. n
    OBVIOUS
  <2> QED OBVIOUS
<1>1. T \in SUBSET Nat
  OBVIOUS
<1>2. PICK k \in T : \A j \in T : k <= j
  BY <1>1, LeastNumber
<1>3. CASE k = 0
  <2>1. Goes([i \in 0 .. 0 |-> b], 0)
    BY DEF Follows
  <2> QED BY <1>2, <1>3, <2>1
<1>4. CASE k # 0
  <2>1. k - 1 \in 0 .. n /\ k - 1 \notin T /\ k \in 1 .. n
    BY <1>2, <1>4
  <2>2. PICK f : Goes(f, k - 1)
    BY <2>1
  <2> DEFINE g == [i \in 0 .. k |-> IF i < k THEN f[i] ELSE H[k][f[k - 1]]]
  <2>3. f[k - 1] \in D /\ H[k][f[k - 1]] \in D
    BY <2>1, <2>2
  <2>4. g \in [0 .. k -> D] /\ \A i \in 0 .. k - 1 : g[i] = f[i] /\ f[i] \in D
    BY <2>2, <2>3
  <2>5. g[k] = H[k][f[k - 1]] /\ g[k - 1] = f[k - 1]
    BY <2>1
  <2>6. g[0] = b /\ \A i \in 1 .. k - 1 : i \in 0 .. k - 1 /\ i - 1 \in 0 .. k - 1
    BY <2>1, <2>2, <2>4 DEF Follows
  <2> HIDE DEF g
  <2>7. ASSUME NEW i \in 1 .. k PROVE g[i] = H[i][g[i - 1]]
    <3>1. CASE i = k
      BY <2>5, <3>1
    <3>2. CASE i \in 1 .. k - 1
      BY <2>2, <2>4, <2>6, <3>2 DEF Follows
    <3> QED BY <3>1, <3>2, <2>1
  <2> QED BY <1>2, <2>4, <2>6, <2>7 DEF Follows
<1> QED BY <1>3, <1>4

(* ... and only one, as far as it matters.                                   *)
LEMMA OnlyOne ==
  ASSUME NEW D, NEW b, NEW n, NEW H, Steps(n, b, H, D),
         NEW f, Follows(f, n, b, H, D), NEW g, Follows(g, n, b, H, D)
  PROVE  Agree(f, g, n, D)
<1> n \in Nat /\ b \in D /\ H \in [1 .. n -> [D -> D]]
  BY DEF Steps
<1> DEFINE T == {k \in 0 .. n : ~(f[k] = g[k] /\ f[k] \in D)}
<1> SUFFICES ASSUME T # {} PROVE FALSE
  BY DEF Agree
<1>1. T \in SUBSET Nat
  OBVIOUS
<1>2. PICK k \in T : \A j \in T : k <= j
  BY <1>1, LeastNumber
<1>3. k # 0 => k \in 1 .. n /\ k - 1 \in 0 .. n /\ k - 1 \notin T
  BY <1>2
<1>4. k # 0 => f[k - 1] = g[k - 1] /\ f[k - 1] \in D
  BY <1>3
<1>5. k # 0 => f[k] = H[k][f[k - 1]] /\ g[k] = H[k][f[k - 1]] /\ H[k][f[k - 1]] \in D
  BY <1>3, <1>4 DEF Follows
<1>6. k = 0 => f[k] = b /\ g[k] = b
  BY DEF Follows
<1> QED BY <1>2, <1>5, <1>6

-----------------------------------------------------------------------------
(* Kept is what its recursion says.                                          *)
KeptStep(s, S) ==
  [i \in 1 .. Len(s) |-> [d \in Seq(Messages) |-> IF s[i] \in S THEN Append(d, s[i]) ELSE d]]

(* Its step, as a function.                                                  *)
LEMMA KeptStepIs ==
  ASSUME NEW s \in Seq(Messages), NEW S
  PROVE  /\ Steps(Len(s), <<>>, KeptStep(s, S), Seq(Messages))
         /\ \A i \in 1 .. Len(s), d \in Seq(Messages) :
              KeptStep(s, S)[i][d] = IF s[i] \in S THEN Append(d, s[i]) ELSE d
BY DEF Steps, KeptStep

(* Kept is the value of such a function at the end of the sequence.          *)
LEMMA KeptIs ==
  ASSUME NEW s \in Seq(Messages), NEW S
  PROVE  \E f : /\ Follows(f, Len(s), <<>>, KeptStep(s, S), Seq(Messages))
                /\ f[Len(s)] = Kept(s, S) /\ Kept(s, S) \in Seq(Messages)
<1> DEFINE n == Len(s)
           D == Seq(Messages)
           H == KeptStep(s, S)
           Is(f) == f = [i \in 0 .. n |->
                      IF i = 0 THEN <<>>
                      ELSE IF s[i] \in S THEN Append(f[i - 1], s[i]) ELSE f[i - 1]]
<1>1. /\ n \in Nat /\ Steps(n, <<>>, H, D)
      /\ \A i \in 1 .. n, d \in D : H[i][d] = IF s[i] \in S THEN Append(d, s[i]) ELSE d
  BY KeptStepIs
<1> HIDE DEF H, D
<1>2. PICK f \in [0 .. n -> D] : Follows(f, n, <<>>, H, D)
  BY <1>1, Recursion
<1>3. \A i \in 1 .. n : f[i] = IF s[i] \in S THEN Append(f[i - 1], s[i]) ELSE f[i - 1]
  BY <1>1, <1>2 DEF Follows
<1>4. Is(f)
  <2>1. f = [i \in 0 .. n |-> f[i]] /\ \A i \in 0 .. n : i = 0 \/ i \in 1 .. n
    BY <1>1
  <2>2. \A i \in 0 .. n : f[i] = IF i = 0 THEN <<>>
                                ELSE IF s[i] \in S THEN Append(f[i - 1], s[i]) ELSE f[i - 1]
    BY <1>2, <1>3, <2>1 DEF Follows
  <2> QED BY <2>1, <2>2, Zenon
<1>5. PICK g : Is(g) /\ Kept(s, S) = g[n]
  <2>1. \E g : Is(g)
    BY <1>4
  <2>2. \E g : Is(g) /\ Kept(s, S) = g[n]
    BY <2>1, Zenon DEF Kept
  <2> QED BY <2>2
<1>6. \A i \in 0 .. n : g[i] = IF i = 0 THEN <<>>
                              ELSE IF s[i] \in S THEN Append(g[i - 1], s[i]) ELSE g[i - 1]
  BY <1>5
<1>7. Follows(g, n, <<>>, H, D)
  BY <1>1, <1>6 DEF Follows
<1> HIDE DEF n, Is
<1>8. Agree(g, g, n, D)
  BY <1>1, <1>7, OnlyOne
<1>9. g[n] \in D
  BY <1>1, <1>8 DEF Agree
<1> QED BY <1>5, <1>7, <1>9 DEF D, H, n

(* The two equations of the comprehension.                                   *)
LEMMA KeptOf ==
  ASSUME NEW S
  PROVE  /\ Kept(<<>>, S) = <<>>
         /\ \A s \in Seq(Messages), m \in Messages :
              Kept(Append(s, m), S) = IF m \in S THEN Append(Kept(s, S), m) ELSE Kept(s, S)
<1>1. Kept(<<>>, S) = <<>>
  <2>1. <<>> \in Seq(Messages) /\ Len(<<>>) = 0
    OBVIOUS
  <2>2. PICK f : /\ Follows(f, Len(<<>>), <<>>, KeptStep(<<>>, S), Seq(Messages))
                 /\ f[Len(<<>>)] = Kept(<<>>, S)
    BY <2>1, KeptIs
  <2> QED BY <2>1, <2>2 DEF Follows
<1>2. ASSUME NEW s \in Seq(Messages), NEW m \in Messages
      PROVE  Kept(Append(s, m), S) = IF m \in S THEN Append(Kept(s, S), m) ELSE Kept(s, S)
  <2> DEFINE n == Len(s)
             t == Append(s, m)
             D == Seq(Messages)
  <2>1. /\ t \in D /\ Len(t) = n + 1 /\ n \in Nat /\ t[n + 1] = m
        /\ \A i \in 1 .. n : s[i] = t[i] /\ i \in 1 .. n + 1 /\ i - 1 \in 0 .. n + 1
    OBVIOUS
  <2> HIDE DEF t
  <2>2. PICK f : Follows(f, n, <<>>, KeptStep(s, S), D) /\ f[n] = Kept(s, S)
    BY KeptIs
  <2>3. PICK g : Follows(g, n + 1, <<>>, KeptStep(t, S), D) /\ g[n + 1] = Kept(t, S)
    BY <2>1, KeptIs
  <2>4. \A i \in 1 .. n, d \in D : KeptStep(t, S)[i][d] = KeptStep(s, S)[i][d]
    BY <2>1, KeptStepIs
  <2>5. Follows(g, n, <<>>, KeptStep(s, S), D)
    BY <2>1, <2>3, <2>4 DEF Follows
  <2>6. Steps(n, <<>>, KeptStep(s, S), D)
    BY KeptStepIs
  <2> HIDE DEF n, D
  <2>7. Agree(f, g, n, D)
    BY <2>2, <2>5, <2>6, OnlyOne
  <2>8. g[n] = f[n] /\ g[n] \in D
    BY <2>1, <2>7 DEF Agree
  <2>9. g[n + 1] = IF m \in S THEN Append(g[n], m) ELSE g[n]
    <3>1. n + 1 \in 1 .. n + 1 /\ (n + 1) - 1 = n
      BY <2>1
    <3>2. g[n + 1] = KeptStep(t, S)[n + 1][g[n]]
      BY <2>3, <2>8, <3>1 DEF Follows
    <3>3. KeptStep(t, S)[n + 1][g[n]] = IF t[n + 1] \in S THEN Append(g[n], t[n + 1]) ELSE g[n]
      BY <2>1, <2>8, <3>1, KeptStepIs DEF D
    <3> QED BY <2>1, <3>2, <3>3
  <2> QED BY <2>2, <2>3, <2>8, <2>9 DEF t
<1> QED BY <1>1, <1>2

(* It is a sequence of messages.                                             *)
LEMMA KeptTyped ==
  ASSUME NEW s \in Seq(Messages), NEW S
  PROVE  Kept(s, S) \in Seq(Messages)
BY KeptIs

(* And so is Total.                                                          *)
TotalStep(w) == [i \in 1 .. Len(w) |-> [d \in Nat |-> d + Tokens[w[i]]]]

(* Its step, as a function.                                                  *)
LEMMA TotalStepIs ==
  ASSUME NEW w \in Seq(Messages)
  PROVE  /\ Steps(Len(w), 0, TotalStep(w), Nat)
         /\ \A i \in 1 .. Len(w), d \in Nat : TotalStep(w)[i][d] = d + Tokens[w[i]]
<1>1. \A i \in 1 .. Len(w) : Tokens[w[i]] \in Nat
  BY WindowAssumption
<1> QED BY <1>1 DEF Steps, TotalStep

(* Total is the value of such a function.                                    *)
LEMMA TotalIs ==
  ASSUME NEW w \in Seq(Messages)
  PROVE  \E f : /\ Follows(f, Len(w), 0, TotalStep(w), Nat)
                /\ f[Len(w)] = Total(w) /\ Total(w) \in Nat
<1> DEFINE n == Len(w)
           H == TotalStep(w)
           Is(f) == f = [i \in 0 .. n |-> IF i = 0 THEN 0 ELSE f[i - 1] + Tokens[w[i]]]
<1>1. /\ n \in Nat /\ Steps(n, 0, H, Nat)
      /\ \A i \in 1 .. n, d \in Nat : H[i][d] = d + Tokens[w[i]]
  BY TotalStepIs
<1> HIDE DEF H
<1>2. PICK f \in [0 .. n -> Nat] : Follows(f, n, 0, H, Nat)
  BY <1>1, Recursion
<1>3. \A i \in 1 .. n : f[i] = f[i - 1] + Tokens[w[i]]
  BY <1>1, <1>2 DEF Follows
<1>4. Is(f)
  <2>1. f = [i \in 0 .. n |-> f[i]] /\ \A i \in 0 .. n : i = 0 \/ i \in 1 .. n
    BY <1>1
  <2>2. \A i \in 0 .. n : f[i] = IF i = 0 THEN 0 ELSE f[i - 1] + Tokens[w[i]]
    BY <1>2, <1>3, <2>1 DEF Follows
  <2> QED BY <2>1, <2>2, Zenon
<1>5. PICK g : Is(g) /\ Total(w) = g[n]
  <2>1. \E g : Is(g)
    BY <1>4
  <2>2. \E g : Is(g) /\ Total(w) = g[n]
    BY <2>1, Zenon DEF Total
  <2> QED BY <2>2
<1>6. \A i \in 0 .. n : g[i] = IF i = 0 THEN 0 ELSE g[i - 1] + Tokens[w[i]]
  BY <1>5
<1>7. Follows(g, n, 0, H, Nat)
  BY <1>1, <1>6 DEF Follows
<1> HIDE DEF n, Is
<1>8. Agree(g, g, n, Nat)
  BY <1>1, <1>7, OnlyOne
<1>9. g[n] \in Nat
  BY <1>1, <1>8 DEF Agree
<1> QED BY <1>5, <1>7, <1>9 DEF H, n

(* The two equations of the sum.                                             *)
LEMMA TotalOf ==
  /\ Total(<<>>) = 0
  /\ \A w \in Seq(Messages) : Total(w) \in Nat
  /\ \A w \in Seq(Messages), m \in Messages : Total(Append(w, m)) = Total(w) + Tokens[m]
<1>1. Total(<<>>) = 0
  <2>1. <<>> \in Seq(Messages) /\ Len(<<>>) = 0
    OBVIOUS
  <2>2. PICK f : /\ Follows(f, Len(<<>>), 0, TotalStep(<<>>), Nat)
                 /\ f[Len(<<>>)] = Total(<<>>)
    BY <2>1, TotalIs
  <2> QED BY <2>1, <2>2 DEF Follows
<1>2. ASSUME NEW s \in Seq(Messages), NEW m \in Messages
      PROVE  Total(Append(s, m)) = Total(s) + Tokens[m]
  <2> DEFINE n == Len(s)
             t == Append(s, m)
  <2>1. /\ t \in Seq(Messages) /\ Len(t) = n + 1 /\ n \in Nat /\ t[n + 1] = m
        /\ \A i \in 1 .. n : s[i] = t[i] /\ i \in 1 .. n + 1 /\ i - 1 \in 0 .. n + 1
    OBVIOUS
  <2> HIDE DEF t
  <2>2. PICK f : Follows(f, n, 0, TotalStep(s), Nat) /\ f[n] = Total(s)
    BY TotalIs
  <2>3. PICK g : Follows(g, n + 1, 0, TotalStep(t), Nat) /\ g[n + 1] = Total(t)
    BY <2>1, TotalIs
  <2>4. \A i \in 1 .. n, d \in Nat : TotalStep(t)[i][d] = TotalStep(s)[i][d]
    BY <2>1, TotalStepIs
  <2>5. Follows(g, n, 0, TotalStep(s), Nat)
    BY <2>1, <2>3, <2>4 DEF Follows
  <2>6. Steps(n, 0, TotalStep(s), Nat)
    BY TotalStepIs
  <2> HIDE DEF n
  <2>7. Agree(f, g, n, Nat)
    BY <2>2, <2>5, <2>6, OnlyOne
  <2>8. g[n] = f[n] /\ g[n] \in Nat
    BY <2>1, <2>7 DEF Agree
  <2>9. g[n + 1] = g[n] + Tokens[m]
    <3>1. n + 1 \in 1 .. n + 1 /\ (n + 1) - 1 = n
      BY <2>1
    <3>2. g[n + 1] = TotalStep(t)[n + 1][g[n]]
      BY <2>3, <2>8, <3>1 DEF Follows
    <3>3. TotalStep(t)[n + 1][g[n]] = g[n] + Tokens[t[n + 1]]
      BY <2>1, <2>8, <3>1, TotalStepIs
    <3> QED BY <2>1, <3>2, <3>3
  <2> QED BY <2>2, <2>3, <2>8, <2>9 DEF t
<1> QED BY <1>1, <1>2, TotalIs

-----------------------------------------------------------------------------
(* What holds of the empty sequence and is handed on by Append holds of all. *)
LEMMA EverySequence ==
  ASSUME NEW G, <<>> \in G,
         \A s \in Seq(Messages), m \in Messages : s \in G => Append(s, m) \in G
  PROVE  \A s \in Seq(Messages) : s \in G
<1> DEFINE T == {n \in Nat : \E s \in Seq(Messages) : Len(s) = n /\ s \notin G}
<1> SUFFICES ASSUME T # {} PROVE FALSE
  <2>1. \A s \in Seq(Messages) : Len(s) \in Nat
    OBVIOUS
  <2> QED BY <2>1
<1>1. T \in SUBSET Nat
  OBVIOUS
<1>2. PICK n \in T : \A k \in T : n <= k
  BY <1>1, LeastNumber
<1>3. PICK s \in Seq(Messages) : Len(s) = n /\ s \notin G
  BY <1>2
<1>4. PICK t \in Seq(Messages), m \in Messages : s = Append(t, m)
  BY <1>3, SequenceEmptyOrAppend
<1>5. Len(t) \in Nat /\ n = Len(t) + 1
  BY <1>3, <1>4
<1>6. t \in G
  BY <1>2, <1>5
<1> QED BY <1>3, <1>4, <1>6

(* The members of a sequence, ...                                            *)
LEMMA ToSetOf ==
  /\ ToSet(<<>>) = {}
  /\ \A s \in Seq(Messages) : ToSet(s) \subseteq Messages
  /\ \A s \in Seq(Messages), m \in Messages : ToSet(Append(s, m)) = ToSet(s) \cup {m}
<1>1. ASSUME NEW s \in Seq(Messages), NEW m \in Messages
      PROVE  ToSet(Append(s, m)) = ToSet(s) \cup {m}
  <2>1. /\ DOMAIN Append(s, m) = 1 .. Len(s) + 1 /\ DOMAIN s = 1 .. Len(s) /\ Len(s) \in Nat
        /\ \A i \in 1 .. Len(s) : Append(s, m)[i] = s[i]
        /\ Append(s, m)[Len(s) + 1] = m
    OBVIOUS
  <2> QED BY <2>1 DEF ToSet
<1>2. ToSet(<<>>) = {}
  BY DEF ToSet
<1>3. ASSUME NEW s \in Seq(Messages) PROVE ToSet(s) \subseteq Messages
  BY DEF ToSet
<1> QED BY <1>1, <1>2, <1>3

(* ... and its length, as it grows.                                          *)
LEMMA LenOf ==
  ASSUME NEW s \in Seq(Messages), NEW m \in Messages
  PROVE  Append(s, m) \in Seq(Messages) /\ Len(Append(s, m)) = Len(s) + 1 /\ Len(s) \in Nat
OBVIOUS

(* What a comprehension keeps: the members in S, no more of anything, ...    *)
LEMMA KeptHolds ==
  ASSUME NEW S
  PROVE  \A s \in Seq(Messages) :
           /\ ToSet(Kept(s, S)) = ToSet(s) \cap S
           /\ Total(Kept(s, S)) <= Total(s)
           /\ Len(Kept(s, S)) <= Len(s)
           /\ ~(ToSet(s) \subseteq S) => Len(Kept(s, S)) < Len(s)
           /\ ToSet(s) \subseteq S => Kept(s, S) = s
<1> DEFINE P(s) ==
             /\ ToSet(Kept(s, S)) = ToSet(s) \cap S
             /\ Total(Kept(s, S)) <= Total(s)
             /\ Len(Kept(s, S)) <= Len(s)
             /\ ~(ToSet(s) \subseteq S) => Len(Kept(s, S)) < Len(s)
             /\ ToSet(s) \subseteq S => Kept(s, S) = s
           G == {s \in Seq(Messages) : P(s)}
<1>1. <<>> \in G
  <2>1. <<>> \in Seq(Messages) /\ ToSet(<<>>) = {} /\ Kept(<<>>, S) = <<>> /\ Total(<<>>) = 0
    BY KeptOf, ToSetOf, TotalOf
  <2> QED BY <2>1
<1>2. ASSUME NEW s \in Seq(Messages), NEW m \in Messages, s \in G PROVE Append(s, m) \in G
  <2> DEFINE k == Kept(s, S)
             t == Append(s, m)
  <2>0. P(s)
    BY <1>2
  <2>1. /\ k \in Seq(Messages) /\ t \in Seq(Messages) /\ Len(t) = Len(s) + 1
        /\ ToSet(t) = ToSet(s) \cup {m} /\ Total(t) = Total(s) + Tokens[m]
        /\ Len(s) \in Nat /\ Len(k) \in Nat
    BY KeptTyped, LenOf, ToSetOf, TotalOf
  <2>2. Total(k) \in Nat /\ Total(s) \in Nat /\ Tokens[m] \in Nat
    BY <2>1, TotalOf, WindowAssumption
  <2>3. CASE m \in S
    <3>1. Kept(t, S) = Append(k, m)
      BY <2>3, KeptOf
    <3>2. /\ Len(Append(k, m)) = Len(k) + 1 /\ ToSet(Append(k, m)) = ToSet(k) \cup {m}
          /\ Total(Append(k, m)) = Total(k) + Tokens[m]
      BY <2>1, LenOf, ToSetOf, TotalOf
    <3> HIDE DEF k, t
    <3>3. /\ ToSet(Kept(t, S)) = ToSet(t) \cap S
          /\ ToSet(t) \subseteq S => k = s
      BY <2>0, <2>1, <2>3, <3>1, <3>2 DEF k
    <3>4. Total(Kept(t, S)) <= Total(t)
      BY <2>0, <2>1, <2>2, <3>1, <3>2 DEF k
    <3>5. /\ Len(Kept(t, S)) <= Len(t)
          /\ ~(ToSet(t) \subseteq S) => Len(Kept(t, S)) < Len(t)
      BY <2>0, <2>1, <2>3, <3>1, <3>2 DEF k
    <3>6. ToSet(t) \subseteq S => Kept(t, S) = t
      BY <3>1, <3>3 DEF t
    <3>7. P(t)
      BY <3>3, <3>4, <3>5, <3>6
    <3> QED BY <2>1, <3>7 DEF t
  <2>4. CASE m \notin S
    <3>1. Kept(t, S) = k
      BY <2>4, KeptOf
    <3> HIDE DEF k, t
    <3>2. ToSet(Kept(t, S)) = ToSet(t) \cap S /\ ~(ToSet(t) \subseteq S)
      BY <2>0, <2>1, <2>4, <3>1 DEF k
    <3>3. Total(Kept(t, S)) <= Total(t) /\ Len(Kept(t, S)) < Len(t)
      BY <2>0, <2>1, <2>2, <3>1 DEF k
    <3>4. P(t)
      BY <3>2, <3>3, <2>1, <3>1
    <3> QED BY <2>1, <3>4 DEF t
  <2> QED BY <2>3, <2>4
<1> HIDE DEF G
<1>3. \A s \in Seq(Messages) : s \in G
  BY <1>1, <1>2, EverySequence
<1> QED BY <1>3 DEF G

(* ... and nothing but which of them are in S matters.                       *)
LEMMA KeptTwice ==
  ASSUME NEW S, NEW R
  PROVE  \A s \in Seq(Messages) :
           /\ Kept(Kept(s, S), R) = Kept(s, S \cap R)
           /\ ToSet(s) \cap S = ToSet(s) \cap R => Kept(s, S) = Kept(s, R)
<1> DEFINE P(s) == /\ Kept(Kept(s, S), R) = Kept(s, S \cap R)
                   /\ ToSet(s) \cap S = ToSet(s) \cap R => Kept(s, S) = Kept(s, R)
           G == {s \in Seq(Messages) : P(s)}
<1>1. <<>> \in G
  <2>1. \A T : Kept(<<>>, T) = <<>>
    BY KeptOf
  <2> QED BY <2>1
<1>2. ASSUME NEW s \in Seq(Messages), NEW m \in Messages, s \in G PROVE Append(s, m) \in G
  <2> DEFINE t == Append(s, m)
  <2>0. P(s)
    BY <1>2
  <2>1. t \in Seq(Messages) /\ ToSet(t) = ToSet(s) \cup {m} /\ Kept(s, S) \in Seq(Messages)
    BY LenOf, ToSetOf, KeptTyped
  <2>2. \A T : Kept(t, T) = IF m \in T THEN Append(Kept(s, T), m) ELSE Kept(s, T)
    BY KeptOf
  <2>3. Kept(Append(Kept(s, S), m), R) = IF m \in R THEN Append(Kept(Kept(s, S), R), m)
                                         ELSE Kept(Kept(s, S), R)
    BY <2>1, KeptOf
  <2> HIDE DEF t
  <2>4. Kept(Kept(t, S), R) = Kept(t, S \cap R)
    BY <2>0, <2>2, <2>3
  <2>5. ASSUME ToSet(t) \cap S = ToSet(t) \cap R PROVE Kept(t, S) = Kept(t, R)
    <3>1. ToSet(s) \cap S = ToSet(s) \cap R /\ (m \in S <=> m \in R)
      BY <2>1, <2>5
    <3> QED BY <2>0, <2>2, <3>1
  <2> QED BY <2>1, <2>4, <2>5 DEF t
<1> HIDE DEF G
<1>3. \A s \in Seq(Messages) : s \in G
  BY <1>1, <1>2, EverySequence
<1> QED BY <1>3 DEF G

-----------------------------------------------------------------------------
(* An eviction: what goes is in the window, and is vital only if all is.     *)
LEMMA VictimIs ==
  ASSUME NEW w \in Seq(Messages), w # <<>>
  PROVE  Victim(w) \in ToSet(w) /\ (Victim(w) \in Vital => ToSet(w) \subseteq Vital)
<1> DEFINE low == Kept(w, Messages \ Vital)
<1>1. \A s \in Seq(Messages) : s # <<>> => Head(s) \in ToSet(s)
  BY DEF ToSet
<1>2. low \in Seq(Messages) /\ ToSet(low) = ToSet(w) \cap (Messages \ Vital)
  BY KeptTyped, KeptHolds
<1>3. ToSet(w) \subseteq Messages
  BY ToSetOf
<1>4. CASE low = <<>>
  <2>1. ToSet(w) \subseteq Vital /\ Victim(w) = Head(w)
    BY <1>2, <1>3, <1>4, ToSetOf DEF Victim
  <2> QED BY <1>1, <2>1
<1>5. CASE low # <<>>
  <2>1. Victim(w) = Head(low)
    BY <1>5 DEF Victim
  <2> HIDE DEF low
  <2> QED BY <1>1, <1>2, <1>5, <2>1
<1> QED BY <1>4, <1>5

(* What is kept of a window that fits, fits.                                 *)
LEMMA FitsOf ==
  /\ Fits(<<>>)
  /\ \A S : \A w \in Seq(Messages) : Fits(w) => Fits(Kept(w, S))
<1>1. Fits(<<>>)
  BY TotalOf, WindowAssumption DEF Fits
<1>2. ASSUME NEW w \in Seq(Messages), NEW S, Fits(w) PROVE Fits(Kept(w, S))
  <2>1. /\ Kept(w, S) \in Seq(Messages)
        /\ Len(Kept(w, S)) <= Len(w) /\ Total(Kept(w, S)) <= Total(w)
    BY KeptTyped, KeptHolds
  <2>2. Total(w) \in Nat /\ Total(Kept(w, S)) \in Nat
    BY <2>1, TotalOf
  <2>3. Len(w) \in Nat /\ Len(Kept(w, S)) \in Nat
    BY <2>1
  <2> QED BY <1>2, <2>1, <2>2, <2>3, WindowAssumption DEF Fits
<1> QED BY <1>1, <1>2

(* What is left of w after k rounds, as far as the loop has come.            *)
Left(w, v, k) ==
  /\ v \in Seq(Messages) /\ ToSet(v) \subseteq ToSet(w) /\ v = Kept(w, ToSet(v))
  /\ Fits(v) \/ Len(v) + k <= Len(w)
  /\ (ToSet(w) \ ToSet(v)) \cap Vital # {} => ToSet(v) \subseteq Vital
  /\ ToSet(v) # ToSet(w) =>
       \E m \in ToSet(w) \ ToSet(v) : ~Fits(Kept(w, {m} \cup ToSet(v)))

(* One more round keeps this and makes the window shorter.                   *)
LEMMA LeftGoesOn ==
  ASSUME NEW w \in Seq(Messages), NEW v, NEW k \in Nat, Left(w, v, k), ~Fits(v)
  PROVE  Left(w, Evict(v), k + 1)
<1> DEFINE e == Victim(v)
           r == Evict(v)
<1>1. v # <<>> /\ v \in Seq(Messages) /\ v = Kept(w, ToSet(v)) /\ ToSet(v) \subseteq ToSet(w)
  BY FitsOf DEF Left
<1>2. e \in ToSet(v) /\ (e \in Vital => ToSet(v) \subseteq Vital)
  BY <1>1, VictimIs
<1>3. r \in Seq(Messages) /\ ToSet(r) = ToSet(v) \cap (Messages \ {e}) /\ Len(r) < Len(v)
  <2>1. ~(ToSet(v) \subseteq Messages \ {e})
    BY <1>2
  <2> QED BY <1>1, <2>1, KeptTyped, KeptHolds DEF Evict
<1>4. ToSet(v) \subseteq Messages
  BY <1>1, ToSetOf
<1>5. r = Kept(w, ToSet(r))
  <2>1. r = Kept(Kept(w, ToSet(v)), Messages \ {e})
    BY <1>1 DEF Evict
  <2>2. r = Kept(w, ToSet(v) \cap (Messages \ {e}))
    BY <2>1, KeptTwice
  <2> QED BY <1>3, <2>2
<1>6. Len(r) + (k + 1) <= Len(w)
  <2>1. Len(v) + k <= Len(w) /\ Len(v) \in Nat /\ Len(r) \in Nat /\ Len(w) \in Nat
    BY <1>1, <1>3 DEF Left
  <2> QED BY <1>3, <2>1
<1>7. (ToSet(w) \ ToSet(r)) \cap Vital # {} => ToSet(r) \subseteq Vital
  BY <1>2, <1>3, <1>4 DEF Left
<1>8. e \in ToSet(w) \ ToSet(r) /\ ~Fits(Kept(w, {e} \cup ToSet(r)))
  <2>1. {e} \cup ToSet(r) = ToSet(v)
    BY <1>2, <1>3, <1>4
  <2>2. e \in ToSet(w) \ ToSet(r)
    BY <1>1, <1>2, <1>3
  <2>3. ~Fits(Kept(w, ToSet(v)))
    BY <1>1
  <2> QED BY <2>1, <2>2, <2>3
<1> HIDE DEF e, r
<1>9. Left(w, r, k + 1)
  BY <1>1, <1>3, <1>5, <1>6, <1>7, <1>8 DEF Left
<1> QED BY <1>9 DEF r

BoundStep(w) ==
  [i \in 1 .. Len(w) |-> [v \in Seq(Messages) |-> IF Fits(v) THEN v ELSE Evict(v)]]

(* Bounded ends with a window that fits, has lost no vital message before    *)
(* any other and nothing that could have stayed with the rest.               *)
LEMMA BoundedIs ==
  ASSUME NEW w \in Seq(Messages)
  PROVE  Left(w, Bounded(w), Len(w)) /\ Fits(Bounded(w))
<1> DEFINE n == Len(w)
           D == Seq(Messages)
           H == BoundStep(w)
           Is(f) == f = [i \in 0 .. n |->
                      IF i = 0 THEN w
                      ELSE IF Fits(f[i - 1]) THEN f[i - 1] ELSE Evict(f[i - 1])]
<1>1. /\ n \in Nat /\ Steps(n, w, H, D)
      /\ \A i \in 1 .. n, v \in D : H[i][v] = IF Fits(v) THEN v ELSE Evict(v)
  <2>1. \A v \in D : Evict(v) \in D
    BY KeptTyped DEF Evict
  <2> QED BY <2>1 DEF Steps, BoundStep
<1> HIDE DEF H, D
<1>2. PICK f \in [0 .. n -> D] : Follows(f, n, w, H, D)
  BY <1>1, Recursion
<1>3. \A i \in 1 .. n : f[i] = IF Fits(f[i - 1]) THEN f[i - 1] ELSE Evict(f[i - 1])
  BY <1>1, <1>2 DEF Follows
<1>4. Is(f)
  <2>1. f = [i \in 0 .. n |-> f[i]] /\ \A i \in 0 .. n : i = 0 \/ i \in 1 .. n
    BY <1>1
  <2>2. \A i \in 0 .. n : f[i] = IF i = 0 THEN w
                                ELSE IF Fits(f[i - 1]) THEN f[i - 1] ELSE Evict(f[i - 1])
    BY <1>2, <1>3, <2>1 DEF Follows
  <2> QED BY <2>1, <2>2, Zenon
<1>5. PICK g : Is(g) /\ Bounded(w) = g[n]
  <2>1. \E g : Is(g)
    BY <1>4
  <2>2. \E g : Is(g) /\ Bounded(w) = g[n]
    BY <2>1, Zenon DEF Bounded
  <2> QED BY <2>2
<1>6. \A i \in 0 .. n : g[i] = IF i = 0 THEN w
                              ELSE IF Fits(g[i - 1]) THEN g[i - 1] ELSE Evict(g[i - 1])
  BY <1>5
<1> HIDE DEF Is
<1> DEFINE T == {k \in 0 .. n : ~Left(w, g[k], k)}
<1>7. Left(w, g[0], 0)
  <2>1. g[0] = w
    BY <1>1, <1>6
  <2>2. Kept(w, ToSet(w)) = w
    BY KeptHolds
  <2>3. Left(w, w, 0)
    BY <1>1, <2>2 DEF Left
  <2> QED BY <2>1, <2>3
<1>8. T = {}
  <2> SUFFICES ASSUME T # {} PROVE FALSE
    OBVIOUS
  <2>1. T \in SUBSET Nat
    BY <1>1
  <2>2. PICK k \in T : \A j \in T : k <= j
    BY <2>1, LeastNumber
  <2>3. k # 0 /\ k - 1 \in Nat /\ k - 1 \in 0 .. n /\ k - 1 \notin T /\ (k - 1) + 1 = k
    BY <1>1, <1>7, <2>2
  <2>4. Left(w, g[k - 1], k - 1)
    BY <2>3
  <2>5. g[k] = IF Fits(g[k - 1]) THEN g[k - 1] ELSE Evict(g[k - 1])
    BY <1>6, <2>3
  <2>6. CASE Fits(g[k - 1])
    <3>1. Left(w, g[k - 1], k)
      BY <2>4, <2>6 DEF Left
    <3> QED BY <2>2, <2>5, <2>6, <3>1
  <2>7. CASE ~Fits(g[k - 1])
    <3>1. Left(w, Evict(g[k - 1]), (k - 1) + 1)
      BY <2>3, <2>4, <2>7, LeftGoesOn
    <3>2. Left(w, Evict(g[k - 1]), k)
      BY <2>3, <3>1
    <3> QED BY <2>2, <2>5, <2>7, <3>2
  <2> QED BY <2>6, <2>7
<1>9. Left(w, g[n], n)
  BY <1>1, <1>8
<1>10. Fits(g[n])
  <2>1. g[n] \in Seq(Messages) /\ (Fits(g[n]) \/ Len(g[n]) + n <= n)
    BY <1>9 DEF Left
  <2>2. Len(g[n]) \in Nat /\ (Len(g[n]) = 0 => g[n] = <<>>)
    BY <2>1
  <2> QED BY <1>1, <2>1, <2>2, FitsOf
<1> QED BY <1>5, <1>9, <1>10

-----------------------------------------------------------------------------
(* The window is what is left of everything said, in its order, and what     *)
(* went into the summary was said and is no longer in the window.            *)
WindowIInv ==
  /\ window \in Seq(Messages) /\ said \in Seq(Messages)
  /\ summary \subseteq ToSet(said) /\ summary \cap ToSet(window) = {}
  /\ Fits(window) /\ window = Kept(said, ToSet(window))

(* What one step does to the summary, of which VitalGoLast speaks.           *)
DropsTheRight ==
  LET gone == summary' \ summary IN
    /\ gone \cap Vital # {} => ToSet(window') \subseteq Vital
    /\ gone # {} => \E m \in gone : ~Fits(Kept(said', {m} \cup ToSet(window')))

(* Without what has expired the window is still part of what was said.       *)
LEMMA FreshIs ==
  ASSUME NEW s \in Seq(Messages), NEW w \in Seq(Messages), w = Kept(s, ToSet(w))
  PROVE  /\ Fresh(w) \in Seq(Messages) /\ ToSet(Fresh(w)) \subseteq ToSet(w)
         /\ Fresh(w) = Kept(s, ToSet(Fresh(w)))
<1>1. Fresh(w) \in Seq(Messages) /\ ToSet(Fresh(w)) = ToSet(w) \cap (Messages \ stale)
  BY KeptTyped, KeptHolds DEF Fresh
<1>2. Fresh(w) = Kept(Kept(s, ToSet(w)), Messages \ stale)
  BY DEF Fresh
<1>3. Fresh(w) = Kept(s, ToSet(w) \cap (Messages \ stale))
  BY <1>2, KeptTwice
<1> QED BY <1>1, <1>3

(* An append with its evictions.                                             *)
LEMMA WindowAppends ==
  ASSUME WindowIInv, NEW m \in Messages, AppendMessage(m)
  PROVE  WindowIInv' /\ DropsTheRight
<1> DEFINE w0 == Append(window, m)
           w == Fresh(w0)
           b == Bounded(w)
           S == Append(said, m)
<1>1. /\ m \notin ToSet(said) /\ said' = S /\ window' = b
      /\ summary' = summary \cup (ToSet(w) \ ToSet(b))
  BY DEF AppendMessage, Enforce
<1>2. /\ S \in Seq(Messages) /\ ToSet(S) = ToSet(said) \cup {m}
      /\ w0 \in Seq(Messages) /\ ToSet(w0) = ToSet(window) \cup {m}
  BY LenOf, ToSetOf DEF WindowIInv
<1>3. ToSet(window) \subseteq ToSet(said)
  BY KeptHolds DEF WindowIInv
<1>4. w0 = Kept(S, ToSet(w0))
  <2>1. Kept(S, ToSet(w0)) = Append(Kept(said, ToSet(w0)), m)
    BY <1>2, KeptOf DEF WindowIInv
  <2>2. ToSet(said) \cap ToSet(w0) = ToSet(said) \cap ToSet(window)
    BY <1>1, <1>2, <1>3
  <2>3. Kept(said, ToSet(w0)) = Kept(said, ToSet(window))
    BY <2>2, KeptTwice DEF WindowIInv
  <2> QED BY <2>1, <2>3 DEF WindowIInv
<1> HIDE DEF w0, S
<1>5. w \in Seq(Messages) /\ ToSet(w) \subseteq ToSet(w0) /\ w = Kept(S, ToSet(w))
  BY <1>2, <1>4, FreshIs
<1> HIDE DEF w
<1>6. Left(w, b, Len(w)) /\ Fits(b)
  BY <1>5, BoundedIs
<1> HIDE DEF b
<1>7. b \in Seq(Messages) /\ ToSet(b) \subseteq ToSet(w) /\ b = Kept(w, ToSet(b))
  BY <1>6 DEF Left
<1>8. \A X \in SUBSET ToSet(w) : Kept(w, X) = Kept(S, X)
  <2> TAKE X \in SUBSET ToSet(w)
  <2>1. Kept(Kept(S, ToSet(w)), X) = Kept(S, ToSet(w) \cap X)
    BY <1>2, KeptTwice
  <2>2. ToSet(w) \cap X = X
    OBVIOUS
  <2> QED BY <1>5, <2>1, <2>2
<1>9. WindowIInv'
  <2>1. b = Kept(S, ToSet(b))
    BY <1>7, <1>8
  <2>2. summary' \subseteq ToSet(S) /\ summary' \cap ToSet(b) = {}
    BY <1>1, <1>2, <1>3, <1>5, <1>7 DEF WindowIInv
  <2> QED BY <1>1, <1>2, <1>6, <1>7, <2>1, <2>2 DEF WindowIInv, Fits
<1>10. summary' \ summary = ToSet(w) \ ToSet(b)
  BY <1>1, <1>2, <1>5 DEF WindowIInv
<1>11. DropsTheRight
  <2>1. (ToSet(w) \ ToSet(b)) \cap Vital # {} => ToSet(b) \subseteq Vital
    BY <1>6 DEF Left
  <2>2. ASSUME ToSet(w) \ ToSet(b) # {}
        PROVE  \E x \in ToSet(w) \ ToSet(b) : ~Fits(Kept(S, {x} \cup ToSet(b)))
    <3>1. PICK x \in ToSet(w) \ ToSet(b) : ~Fits(Kept(w, {x} \cup ToSet(b)))
      BY <1>6, <2>2 DEF Left
    <3>2. Kept(w, {x} \cup ToSet(b)) = Kept(S, {x} \cup ToSet(b))
      BY <1>7, <1>8
    <3> QED BY <3>1, <3>2
  <2> QED BY <1>1, <1>10, <2>1, <2>2 DEF DropsTheRight
<1> QED BY <1>9, <1>11

(* Each step of the window.                                                  *)
LEMMA WindowStep ==
  ASSUME WindowIInv, [WindowNext]_windowVars
  PROVE  WindowIInv' /\ [DropsTheRight]_windowVars
<1>1. CASE \E m \in Messages : AppendMessage(m)
  BY <1>1, WindowAppends
<1>2. CASE ReadRecent
  <2>1. /\ window' \in Seq(Messages) /\ ToSet(window') \subseteq ToSet(window)
        /\ window' = Kept(said, ToSet(window')) /\ said' = said /\ summary' = summary
    BY <1>2, FreshIs DEF ReadRecent, WindowIInv
  <2>2. Fits(window')
    BY <1>2, FitsOf DEF ReadRecent, WindowIInv, Fresh
  <2>3. WindowIInv'
    BY <2>1, <2>2 DEF WindowIInv, Fits
  <2> QED BY <2>1, <2>3 DEF DropsTheRight
<1>3. CASE ClearWindow
  <2>1. window' = <<>> /\ summary' = {} /\ said' = said
    BY <1>3 DEF ClearWindow
  <2>2. <<>> = Kept(said, ToSet(<<>>))
    <3>1. Kept(said, {}) \in Seq(Messages) /\ ToSet(Kept(said, {})) = {}
      BY KeptTyped, KeptHolds DEF WindowIInv
    <3>2. \A s \in Seq(Messages) : s # <<>> => 1 \in DOMAIN s
      OBVIOUS
    <3>3. \A s \in Seq(Messages) : ToSet(s) = {} => s = <<>>
      BY <3>2 DEF ToSet
    <3> QED BY <3>1, <3>3, ToSetOf
  <2>3. WindowIInv'
    BY <2>1, <2>2, FitsOf DEF WindowIInv, Fits
  <2> QED BY <2>1, <2>3 DEF DropsTheRight
<1>4. CASE \/ \E m \in Messages : MessageExpires(m)
           \/ \E slot \in {"system", "task"}, isSet \in BOOLEAN : SetContext(slot, isSet)
           \/ UNCHANGED windowVars
  <2>1. UNCHANGED <<window, said, summary>>
    BY <1>4 DEF MessageExpires, SetContext, windowVars
  <2> QED BY <2>1 DEF WindowIInv, Fits, DropsTheRight
<1> QED BY <1>1, <1>2, <1>3, <1>4 DEF WindowNext

(* An empty window fits.                                                     *)
LEMMA WindowStart == WindowInit => WindowIInv
<1> SUFFICES ASSUME WindowInit PROVE WindowIInv
  OBVIOUS
<1>1. window = <<>> /\ said = <<>> /\ summary = {}
  BY DEF WindowInit
<1>2. Kept(<<>>, ToSet(<<>>)) = <<>>
  BY KeptOf
<1> QED BY <1>1, <1>2, FitsOf DEF WindowIInv

(* A suffix is what it takes its name from.                                  *)
LEMMA SuffixIs ==
  ASSUME NEW w \in Seq(Messages), NEW k \in 0 .. Len(w)
  PROVE  IsSuffix(SubSeq(w, k + 1, Len(w)), w)
<1> DEFINE s == SubSeq(w, k + 1, Len(w))
<1>1. /\ s \in Seq(Messages) /\ Len(s) = Len(w) - k /\ Len(w) \in Nat
      /\ \A i \in 1 .. Len(w) - k : s[i] = w[k + i]
  OBVIOUS
<1> HIDE DEF s
<1>2. /\ Reverse(s) \in Seq(Messages) /\ Len(Reverse(s)) = Len(w) - k
      /\ \A i \in 1 .. Len(w) - k : Reverse(s)[i] = w[(Len(w) - i) + 1]
  <2> DEFINE n == Len(w) - k
  <2>1. n \in Nat /\ Len(s) = n /\ k \in Nat
    BY <1>1
  <2>2. \A i \in 1 .. n : (n - i) + 1 \in 1 .. n /\ k + ((n - i) + 1) = (Len(w) - i) + 1
    BY <1>1
  <2>3. \A i \in 1 .. n : s[(n - i) + 1] = w[(Len(w) - i) + 1] /\ s[(n - i) + 1] \in Messages
    BY <1>1, <2>1, <2>2
  <2> HIDE DEF n
  <2>4. Reverse(s) = [i \in 1 .. n |-> s[(n - i) + 1]]
    BY <2>1 DEF Reverse
  <2>5. Reverse(s) \in Seq(Messages) /\ Len(Reverse(s)) = n
    BY <2>1, <2>3, <2>4
  <2> QED BY <2>3, <2>4, <2>5 DEF n
<1>3. /\ Reverse(w) \in Seq(Messages) /\ Len(Reverse(w)) = Len(w)
      /\ \A i \in 1 .. Len(w) : Reverse(w)[i] = w[(Len(w) - i) + 1]
  <2>1. \A i \in 1 .. Len(w) : (Len(w) - i) + 1 \in 1 .. Len(w) /\ w[(Len(w) - i) + 1] \in Messages
    BY <1>1
  <2> QED BY <1>1, <2>1 DEF Reverse
<1> DEFINE a == Reverse(s)
           b == Reverse(w)
           n == Len(w) - k
<1> HIDE DEF a, b
<1>4. /\ a \in Seq(Messages) /\ b \in Seq(Messages) /\ n \in Nat /\ n <= Len(b) /\ Len(a) = n
      /\ \A i \in 1 .. n : a[i] = b[i]
  <2>1. n \in Nat /\ n <= Len(w) /\ \A i \in 1 .. n : i \in 1 .. Len(w)
    BY <1>1
  <2>2. \A i \in 1 .. n : a[i] = b[i]
    BY <1>2, <1>3, <2>1 DEF a, b
  <2> HIDE DEF n
  <2>3. Len(a) = n /\ Len(b) = Len(w)
    BY <1>2, <1>3 DEF a, b, n
  <2> QED BY <1>2, <1>3, <2>1, <2>2, <2>3 DEF a, b
<1> HIDE DEF n
<1>5. SubSeq(a, 1, n) = SubSeq(b, 1, n)
  BY <1>4
<1>6. IsPrefix(a, b)
  BY <1>4, <1>5 DEF IsPrefix
<1> QED BY <1>6 DEF IsSuffix, a, b, s

(* What get_messages_within_tokens returns are the newest messages.          *)
LEMMA WithinIsSuffix ==
  ASSUME NEW n \in Nat, window \in Seq(Messages)
  PROVE  IsSuffix(WithinTokens(n), Fresh(window))
<1> DEFINE w == Fresh(window)
           fitting == {k \in 0 .. Len(w) : Total(SubSeq(w, k + 1, Len(w))) <= n}
           first == CHOOSE k \in fitting : \A i \in fitting : k <= i
<1>1. w \in Seq(Messages) /\ Len(w) \in Nat
  BY KeptTyped DEF Fresh
<1> HIDE DEF w
<1>2. Len(w) \in fitting
  <2>1. SubSeq(w, Len(w) + 1, Len(w)) = <<>>
    BY <1>1
  <2>2. Total(<<>>) <= n
    <3>1. Total(<<>>) = 0
      BY TotalOf
    <3> QED BY <3>1
  <2>3. Len(w) \in 0 .. Len(w)
    BY <1>1
  <2> QED BY <2>1, <2>2, <2>3
<1>3. first \in fitting
  <2>1. fitting \in SUBSET Nat
    BY <1>1
  <2> HIDE DEF fitting
  <2>2. \E k \in fitting : \A i \in fitting : k <= i
    BY <1>2, <2>1, LeastNumber
  <2> QED BY <2>2
<1>4. WithinTokens(n) = SubSeq(w, first + 1, Len(w))
  BY DEF WithinTokens, w
<1> HIDE DEF first
<1>5. IsSuffix(SubSeq(w, first + 1, Len(w)), w)
  BY <1>1, <1>3, SuffixIs
<1> QED BY <1>4, <1>5 DEF w

(* The invariant says what the run checks of the window.                     *)
LEMMA WindowIsKept == WindowIInv => WindowKeepsLimits
<1> SUFFICES ASSUME WindowIInv PROVE WindowKeepsLimits
  OBVIOUS
<1>1. \A n \in 0 .. MaxTokens : IsSuffix(WithinTokens(n), Fresh(window))
  BY WithinIsSuffix, WindowAssumption DEF WindowIInv
<1> QED BY <1>1 DEF WindowIInv, WindowKeepsLimits

(* A message that reaches the threshold is evicted only when nothing below   *)
(* it is left, and eviction stops as soon as the rest fits                   *)
(* (memory/working/window.py), whatever is said, expires and is weighed.     *)
THEOREM VitalMessagesGoLast == PartsSpec => VitalGoLast
<1>1. WindowIInv /\ [PartsNext]_partsVars => WindowIInv' /\ [DropsTheRight]_windowVars
  BY WindowStep, Apart
<1> QED BY <1>1, WindowStart, PTL DEF PartsSpec, PartsInit, VitalGoLast, DropsTheRight

-----------------------------------------------------------------------------
(* The desktop.                                                              *)
LEMMA PointsAreInts ==
  ASSUME DesktopTypeOK
  PROVE  desk.x \in Int /\ desk.w \in Nat \ {0} /\ NoWindow \notin Windows /\ Points \subseteq Int
BY DesktopAssumption DEF DesktopTypeOK, Frame

(* What Windows makes of any coordinate is on the desktop.                   *)
LEMMA ClampedInside ==
  ASSUME DesktopTypeOK, NEW x PROVE Inside(Clamped(x), desk)
BY PointsAreInts DEF Clamped, Inside

(* What validate_coordinates lets through is on the desktop, unless it was   *)
(* measured from a window.                                                   *)
LEMMA ValidatedInside ==
  ASSUME DesktopTypeOK, NEW space \in {"screen", "monitor"}, NEW x \in Int,
         NEW w, NEW z \in Validated(space, x, w)
  PROVE  Inside(z, desk)
BY PointsAreInts DEF Validated, Inside

(* The tools that claim nothing; the user's hand; other programs.            *)
LEMMA SilentStep ==
  ASSUME DesktopTypeOK, ReportsAreTrue, DesktopTypeOK', report' = Silence, down' \subseteq held'
  PROVE  ReportsAreTrue'
BY DEF ReportsAreTrue, Silence

(* Windows shows a window in one of the ways it can.                         *)
LEMMA ShownTyped == \A c \in ShowCommands : \A w : Shown(c, w) \in ShowStates
BY DEF ShowCommands, Shown, ShowStates

(* Each tool, and the hand between its effect and its verification.          *)
LEMMA DesktopStep ==
  ASSUME DesktopTypeOK, ReportsAreTrue, [DesktopNext]_desktopVars
  PROVE  DesktopTypeOK' /\ ReportsAreTrue'
<1> USE DEF DesktopTypeOK
<1>1. CASE UNCHANGED desktopVars
  BY <1>1 DEF desktopVars, OnTop, Inside, ReportsAreTrue
<1>2. ASSUME NEW z, Move(z) PROVE DesktopTypeOK' /\ ReportsAreTrue'
  <2>2. Inside(pointer', desk)
    BY <1>2, ClampedInside DEF Move, Hand
  <2>3. DesktopTypeOK'
    BY <1>2, <2>2 DEF Move, OnTop, Inside
  <2>4. report' = [of |-> "move", at |-> z, verified |-> pointer' = z]
    BY <1>2 DEF Move, Said
  <2>5. report'.verified => pointer' = report'.at
    BY <2>4
  <2> QED BY <1>2, <2>2, <2>3, <2>4, <2>5 DEF Move, ReportsAreTrue
<1>3. ASSUME NEW z \in Aims \cup {pointer}, Click(z)
      PROVE  DesktopTypeOK' /\ ReportsAreTrue'
  <2>1. Inside(z, desk)
    BY ValidatedInside, PointsAreInts DEF Aims
  <2>2. Inside(pointer', desk)
    BY <1>3, ClampedInside DEF Click, Hand
  <2>3. DesktopTypeOK'
    BY <1>3, <2>2 DEF Click, OnTop, Inside
  <2> QED BY <1>3, <2>1, <2>2, <2>3 DEF Click, ReportsAreTrue, Said
<1>4. ASSUME NEW x, Scroll(x) PROVE DesktopTypeOK' /\ ReportsAreTrue'
  <2>1. Inside(pointer', desk) /\ DesktopTypeOK'
    BY <1>4, ClampedInside DEF Scroll, OnTop, Inside
  <2> QED BY <1>4, <2>1, SilentStep DEF Scroll, ReportsAreTrue
<1>5. ASSUME NEW ks, Hotkey(ks) PROVE DesktopTypeOK' /\ ReportsAreTrue'
  <2>1. DesktopTypeOK'
    BY <1>5 DEF Hotkey, OnTop, Inside, ReportsAreTrue
  <2> QED BY <1>5, <2>1, SilentStep DEF Hotkey, ReportsAreTrue
<1>6. ASSUME NEW w \in Windows, Focus(w) PROVE DesktopTypeOK' /\ ReportsAreTrue'
  <2>1. show' \in [Windows -> ShowStates]
    <3>1. Handled(Shown("restore", show[w])) \subseteq ShowStates
      BY ShownTyped DEF Handled, ShowCommands, ShowStates
    <3> QED BY <1>6, <3>1 DEF Focus
  <2>2. DesktopTypeOK'
    BY <1>6, <2>1 DEF Focus, Inside
  <2> QED BY <1>6, <2>2 DEF Focus, ReportsAreTrue, Said
<1>7. ASSUME NEW p, FocusByTitle(p) PROVE DesktopTypeOK' /\ ReportsAreTrue'
  BY <1>6, <1>7 DEF FocusByTitle, Found
<1>8. ASSUME NEW w \in Windows, NEW command \in ShowCommands, SetState(w, command)
      PROVE  DesktopTypeOK' /\ ReportsAreTrue'
  <2>1. DesktopTypeOK'
    BY <1>8, ShownTyped DEF SetState, Inside
  <2> QED BY <1>8, <2>1, SilentStep DEF SetState, ReportsAreTrue
<1>9. ASSUME NEW t \in Texts, ClipboardWrite(t) PROVE DesktopTypeOK' /\ ReportsAreTrue'
  <2>1. DesktopTypeOK'
    BY <1>9 DEF ClipboardWrite, OnTop, Inside
  <2>2. CASE report' = Silence
    BY <1>9, <2>1, <2>2, SilentStep DEF ClipboardWrite, ReportsAreTrue
  <2>3. CASE Said("write", t, clip' = t)
    BY <1>9, <2>1, <2>3 DEF ClipboardWrite, ReportsAreTrue, Said
  <2> QED BY <1>9, <2>2, <2>3 DEF ClipboardWrite
<1>10. ASSUME ClipboardClear PROVE DesktopTypeOK' /\ ReportsAreTrue'
  <2>1. DesktopTypeOK'
    BY <1>10 DEF ClipboardClear, OnTop, Inside
  <2> QED BY <1>10, <2>1, SilentStep DEF ClipboardClear, ReportsAreTrue
<1>11. ASSUME NEW d \in Desks, PlugMonitor(d) PROVE DesktopTypeOK' /\ ReportsAreTrue'
  <2>1. DesktopTypeOK'
    BY <1>11 DEF PlugMonitor, OnTop, Inside
  <2> QED BY <1>11, <2>1, SilentStep DEF PlugMonitor, ReportsAreTrue
<1>12. ASSUME NEW w \in Windows, WindowOpensOrCloses(w) PROVE DesktopTypeOK' /\ ReportsAreTrue'
  <2>1. DesktopTypeOK'
    BY <1>12 DEF WindowOpensOrCloses, Inside, ShowStates
  <2> QED BY <1>12, <2>1, SilentStep DEF WindowOpensOrCloses, ReportsAreTrue
<1>13. ASSUME NEW k \in Resolvable, Finger(k) PROVE DesktopTypeOK' /\ ReportsAreTrue'
  <2>1. DesktopTypeOK'
    BY <1>13, DesktopAssumption DEF Finger, OnTop, Inside
  <2> QED BY <1>13, <2>1, SilentStep DEF Finger, ReportsAreTrue
<1> QED
  BY <1>1, <1>2, <1>3, <1>4, <1>5, <1>6, <1>7, <1>8, <1>9, <1>10, <1>11, <1>12, <1>13
  DEF DesktopNext

(* At the start nothing is reported.                                         *)
LEMMA DesktopStart == DesktopInit => DesktopTypeOK /\ ReportsAreTrue
<1>1. DesktopInit => desk.x \in Int /\ desk.w \in Nat \ {0} /\ desk \in Desks
  BY DesktopAssumption DEF DesktopInit, Frame
<1> QED BY <1>1 DEF DesktopInit, DesktopTypeOK, ReportsAreTrue, Silence, Inside, OnTop, ShowStates

(* What a tool reports as verified is so, and no key is left pressed         *)
(* (os/verification/verifier.py), on a desktop of any extent.                *)
THEOREM VerifiedIsSo == PartsSpec => []ReportsAreTrue
<1> QED BY DesktopStart, DesktopStep, Apart, PTL DEF PartsSpec, PartsInit

-----------------------------------------------------------------------------
(* The tools.                                                                *)
LEMMA ToolsInvariance == PartsSpec => []ToolsIInv
BY ToolsStart, ToolsStep, Apart, PTL DEF PartsSpec, PartsInit

(* Events and audit records of the executor say what happened                *)
(* (tools/executor.py), for any tools, jobs and number of attempts.          *)
THEOREM RecordsAreTrue == PartsSpec => []RecordsTellTheTruth
BY ToolsInvariance, ToolsTruth, PTL

(* A coding task that completes ran all its tools (agents/builtins/coding.py).*)
THEOREM CompletionIsEarned == PartsSpec => []CompletedMeansToolsRan
BY ToolsInvariance, ToolsTruth, PTL

-----------------------------------------------------------------------------
(* At the start nothing is grounded.                                         *)
LEMMA VisionStart == VisionInit => VisionIInv
BY AgesAreTyped DEF VisionInit, VisionIInv, VisionTypeOK, GroundingIsBest, Ungrounded

(* Vision: what is grounded unambiguously from 0.35 on is fresh, not at a    *)
(* negative place, and the one named by its id or the most similar of its    *)
(* kind (vision/grounding/resolver.py), for any elements and questions.      *)
THEOREM GroundedIsBest == PartsSpec => []GroundingIsBest
<1>1. VisionIInv => GroundingIsBest
  BY DEF VisionIInv
<1> QED BY <1>1, VisionStart, VisionStep, Apart, PTL DEF PartsSpec, PartsInit

-----------------------------------------------------------------------------
(* The model calls.  While a completion is under way the current candidate   *)
(* has been called once for each attempt, those behind it not at all, and    *)
(* those before it have nothing left to give.                                *)
Spent(c) ==
  \/ c[2] = "next" \/ asked = "stream"
  \/ Cardinality(Calls(c[1])) = 1 + MaxRetries

UnderWay ==
  /\ queue # <<>> /\ queue[1] \in Registered \cap Capable
  /\ \A i, j \in DOMAIN queue : queue[i] = queue[j] => i = j
  /\ \A i \in DOMAIN queue : i > 1 => Calls(queue[i]) = {}
  /\ Cardinality(Calls(queue[1])) = IF wait = "reply" THEN tries ELSE tries + 1

LastIsDue ==
  log # <<>> => /\ log[Len(log)][2] \in {"retryable", "next"}
                /\ log[Len(log)][1] # queue[1] => Spent(log[Len(log)])

AIIInv ==
  /\ AITypeOK /\ EveryCallIsDue
  /\ asked = "none" => log = <<>> /\ wait = "none" /\ tries = 0
  /\ asked = "stream" => tries = 0 /\ wait # "backoff"
  /\ wait # "none" => UnderWay
  /\ wait = "reply" => LastIsDue
  /\ wait = "backoff" => /\ log # <<>> /\ tries < MaxRetries
                         /\ log[Len(log)] = <<queue[1], "retryable">>

(* Who is approached has not been called, and nobody behind it.              *)
LEMMA ApproachKeeps ==
  ASSUME NEW q \in Seq(Providers), NEW last, Approach(q, last),
         \A i, j \in DOMAIN q : q[i] = q[j] => i = j,
         \A i \in DOMAIN q : Calls(q[i])' = {}
  PROVE  \/ Finish(last)
         \/ /\ queue' \in Seq(Providers) /\ UnderWay'
            /\ wait' = "reply" /\ tries' = 0 /\ result' = result
<1>1. CASE Fit(q) = {} /\ Finish(last)
  BY <1>1
<1>2. ASSUME NEW i \in Fit(q), queue' = SubSeq(q, i, Len(q)),
             tries' = 0, wait' = "reply", result' = result
      PROVE  queue' \in Seq(Providers) /\ UnderWay'
  <2>1. /\ i \in 1 .. Len(q) /\ Len(q) \in Nat /\ q[i] \in Registered \cap Capable
        /\ DOMAIN q = 1 .. Len(q) /\ \A k \in 1 .. Len(q) : q[k] \in Providers
    BY <1>2 DEF Fit
  <2>2. /\ queue' \in Seq(Providers) /\ Len(queue') = Len(q) - i + 1
        /\ \A k \in 1 .. Len(q) - i + 1 : queue'[k] = q[i + k - 1]
    BY <1>2, <2>1, SubSeqProperties, SMTT(30)
  <2>3. /\ DOMAIN queue' = 1 .. Len(q) - i + 1 /\ queue' # <<>> /\ queue'[1] = q[i]
    BY <2>1, <2>2
  <2>4. \A k \in DOMAIN queue' : i + k - 1 \in DOMAIN q /\ queue'[k] = q[i + k - 1]
    BY <2>1, <2>2, <2>3
  <2>5. \A k \in DOMAIN queue' : Calls(queue[k])' = {}
    BY <2>4
  <2>6. \A k, l \in DOMAIN queue' : queue'[k] = queue'[l] => k = l
    BY <2>1, <2>3, <2>4
  <2>7. Cardinality(Calls(queue[1]))' = 0
    BY <2>1, <2>3, <2>5, FS_EmptySet
  <2> QED BY <1>2, <2>1, <2>2, <2>3, <2>5, <2>6, <2>7 DEF UnderWay
<1> QED BY <1>1, <1>2 DEF Approach

(* Calls are positions in the log, and so finitely many.                     *)
LEMMA CallsAreFinite ==
  ASSUME Len(log) \in Nat, DOMAIN log = 1 .. Len(log), NEW p
  PROVE  IsFiniteSet(Calls(p))
<1>1. Calls(p) \in SUBSET (1 .. Len(log))
  BY DEF Calls
<1>2. IsFiniteSet(1 .. Len(log))
  BY FS_Interval
<1> QED BY <1>1, <1>2, FS_Subset, ZenonT(30)

(* A call that is made now is due, and keeps all others so.                  *)
LEMMA CallIsDue ==
  ASSUME AIIInv, wait = "reply", NEW h, h = queue[1], NEW class \in Results,
         log' = Append(log, <<h, class>>), asked' = asked
  PROVE  /\ log' \in Seq(Registered \X Results) /\ EveryCallIsDue'
         /\ \A p : p # h => Calls(p)' = Calls(p)
         /\ Cardinality(Calls(h))' = tries + 1
         /\ log' # <<>> /\ log'[Len(log')] = <<h, class>>
<1> DEFINE n == Len(log)
<1>1. /\ h \in Registered /\ h \in Capable /\ log \in Seq(Registered \X Results)
      /\ tries \in 0 .. MaxRetries /\ MaxRetries \in Nat
      /\ asked = "stream" => tries = 0
      /\ Cardinality(Calls(h)) = tries
  BY AIAssumption DEF AIIInv, AITypeOK, UnderWay
<1>2. /\ log' \in Seq(Registered \X Results) /\ Len(log') = n + 1 /\ log' # <<>>
      /\ \A i \in 1 .. n : log'[i] = log[i]
      /\ log'[n + 1] = <<h, class>>
  BY <1>1, AppendProperties
<1>3. n \in Nat /\ DOMAIN log = 1 .. n /\ DOMAIN log' = 1 .. n + 1
  BY <1>1, <1>2
<1>4. \A p : p # h => Calls(p)' = Calls(p)
  BY <1>2, <1>3 DEF Calls
<1>5. Calls(h)' = Calls(h) \cup {n + 1} /\ n + 1 \notin Calls(h)
  BY <1>2, <1>3 DEF Calls
<1>6. IsFiniteSet(Calls(h))
  BY <1>3, CallsAreFinite, Zenon
<1>7. Cardinality(Calls(h))' = tries + 1
  <2> DEFINE C == Calls(h)
  <2>1. IsFiniteSet(C) /\ n + 1 \notin C /\ Cardinality(C) = tries
    BY <1>1, <1>5, <1>6, Zenon
  <2>2. Cardinality(C') = Cardinality(C \cup {n + 1})
    BY <1>5, Zenon
  <2> HIDE DEF C
  <2>3. Cardinality(C \cup {n + 1}) = tries + 1
    BY <2>1, FS_AddElement
  <2> QED BY <2>2, <2>3, Zenon DEF C
<1>8. \A i \in 1 .. n + 1 :
        /\ log'[i][1] \in Capable
        /\ Cardinality(Calls(log[i][1]))' <= IF asked' = "generate" THEN 1 + MaxRetries ELSE 1
  <2>1. TAKE i \in 1 .. n + 1
  <2>2. CASE log'[i][1] = h
    <3>1. Cardinality(Calls(log[i][1]))' = tries + 1
      BY <1>7, <2>2
    <3>2. asked \in {"none", "generate", "stream"} /\ asked # "none"
      BY DEF AIIInv, AITypeOK
    <3> QED BY <1>1, <2>2, <3>1, <3>2
  <2>3. CASE log'[i][1] # h
    <3>1. i \in 1 .. n /\ log'[i] = log[i]
      BY <1>2, <1>3, <2>3
    <3>2. Calls(log[i][1])' = Calls(log[i][1])
      BY <1>4, <2>3, <3>1
    <3> QED BY <1>3, <3>1, <3>2 DEF AIIInv, EveryCallIsDue
  <2> QED BY <2>2, <2>3
<1>9. ASSUME NEW i \in 1 .. n
      PROVE  /\ log'[i][2] \in {"retryable", "next"}
             /\ log'[i][1] # log'[i + 1][1] => Spent(log[i])'
  <2>1. log'[i] = log[i]
    BY <1>2
  <2>2. ASSUME Spent(log[i]) PROVE Spent(log[i])'
    <3>1. CASE Cardinality(Calls(log[i][1])) = 1 + MaxRetries
      <4>1. log[i][1] # h
        BY <1>1, <3>1
      <4>2. Calls(log[i][1])' = Calls(log[i][1])
        BY <1>4, <2>1, <4>1
      <4> QED BY <3>1, <4>2 DEF Spent
    <3> QED BY <2>1, <2>2, <3>1 DEF Spent
  <2>3. CASE i = n
    <3>1. log # <<>>
      BY <1>3
    <3>2. log[n][2] \in {"retryable", "next"} /\ (log[n][1] # h => Spent(log[n]))
      BY <3>1, Zenon DEF AIIInv, LastIsDue
    <3> QED BY <1>2, <2>1, <2>2, <2>3, <3>2, SMTT(40)
  <2>4. CASE i # n
    <3>1. i + 1 \in 1 .. n /\ i < n
      <4>1. n \in Nat /\ i \in 1 .. n /\ i # n
        BY <1>3, <1>9, <2>4, Zenon
      <4> HIDE DEF n
      <4> QED BY <4>1
    <3>2. log[i][2] \in {"retryable", "next"} /\ (log[i][1] # log[i + 1][1] => Spent(log[i]))
      BY <1>3, <3>1 DEF AIIInv, EveryCallIsDue, Spent
    <3> QED BY <1>2, <2>1, <2>2, <3>1, <3>2
  <2> QED BY <2>3, <2>4
<1>10. EveryCallIsDue'
  BY <1>2, <1>3, <1>8, <1>9 DEF EveryCallIsDue, Spent
<1> QED BY <1>2, <1>4, <1>7, <1>10

(* The list of candidates names nobody twice.                                *)
LEMMA PreferenceIsGood ==
  /\ Preference \in Seq(Providers)
  /\ \A i, j \in DOMAIN Preference : Preference[i] = Preference[j] => i = j
BY DEF Preference, Providers

(* Each reply, backoff and cancellation keeps this.                          *)
LEMMA AIStep ==
  ASSUME AIIInv, [AINext]_aiVars
  PROVE  AIIInv'
<1> USE AIAssumption
<1>1. CASE UNCHANGED aiVars
  <2>1. /\ asked' = asked /\ queue' = queue /\ tries' = tries /\ wait' = wait
        /\ result' = result /\ log' = log /\ heard' = heard
    BY <1>1 DEF aiVars
  <2>2. \A p : Calls(p)' = Calls(p)
    BY <2>1 DEF Calls
  <2>3. AITypeOK' /\ EveryCallIsDue' /\ (UnderWay => UnderWay') /\ (LastIsDue => LastIsDue')
    BY <2>1, <2>2 DEF AIIInv, AITypeOK, EveryCallIsDue, UnderWay, LastIsDue, Spent
  <2> QED BY <2>1, <2>3 DEF AIIInv
<1>2. ASSUME NEW kind \in {"generate", "stream"}, Ask(kind) PROVE AIIInv'
  <2>1. /\ asked' = kind /\ log' = <<>> /\ heard' = heard /\ heard \subseteq Registered
        /\ wait = "none" /\ tries = 0 /\ queue \in Seq(Providers)
        /\ result \in {"none"} \cup Results /\ MaxRetries \in Nat
    BY <1>2 DEF Ask, AIIInv, AITypeOK
  <2>2. EveryCallIsDue' /\ LastIsDue' /\ \A p : Calls(p)' = {}
    BY <2>1 DEF EveryCallIsDue, LastIsDue, Calls
  <2>3. ASSUME NEW last \in Results, Finish(last) PROVE AIIInv'
    BY <2>1, <2>2, <2>3 DEF Finish, AIIInv, AITypeOK
  <2>4. ASSUME queue' \in Seq(Providers), UnderWay', wait' = "reply",
               tries' = 0, result' = result
        PROVE  AIIInv'
    BY <2>1, <2>2, <2>4 DEF AIIInv, AITypeOK
  <2>5. CASE Approach(Preference, "next")
    BY <2>2, <2>3, <2>4, <2>5, ApproachKeeps, PreferenceIsGood DEF Results
  <2>6. ASSUME NEW p \in Providers, Approach(<<p>>, "next") PROVE AIIInv'
    <3>1. /\ <<p>> \in Seq(Providers)
          /\ \A i, j \in DOMAIN <<p>> : <<p>>[i] = <<p>>[j] => i = j
      OBVIOUS
    <3> QED BY <2>2, <2>3, <2>4, <2>6, <3>1, ApproachKeeps DEF Results
  <2> QED BY <1>2, <2>3, <2>5, <2>6 DEF Ask, Results
<1>3. CASE ProviderReplies
  <2>1. PICK class : Replied(class) /\ log' = Append(log, <<Head(queue), class>>)
    BY <1>3 DEF ProviderReplies
  <2>2. class \in Results
    BY <2>1 DEF Replied, Results
  <2>3. /\ wait = "reply" /\ asked' = asked /\ asked \in {"generate", "stream"}
        /\ UnderWay /\ queue \in Seq(Providers) /\ queue # <<>> /\ Head(queue) = queue[1]
        /\ queue[1] \in Registered /\ Cardinality(Calls(queue[1])) = tries
        /\ tries \in 0 .. MaxRetries /\ MaxRetries \in Nat
        /\ asked = "stream" => tries = 0
    BY <1>3 DEF ProviderReplies, AIIInv, AITypeOK, UnderWay
  <2>4. heard' \subseteq Registered
    BY <1>3, <2>3 DEF ProviderReplies, AIIInv, AITypeOK
  <2> DEFINE h == queue[1]
  <2>5. /\ log' \in Seq(Registered \X Results) /\ EveryCallIsDue'
        /\ \A p : p # h => Calls(p)' = Calls(p)
        /\ \A k : k = h => Cardinality(Calls(k))' = tries + 1
        /\ log' # <<>> /\ log'[Len(log')] = <<h, class>>
    <3>1. log' = Append(log, <<h, class>>)
      BY <2>1, <2>3
    <3> QED BY <2>2, <2>3, <3>1, CallIsDue
  <2>6. CASE Finish(class)
    BY <2>2, <2>3, <2>4, <2>5, <2>6 DEF Finish, AIIInv, AITypeOK
  <2>7. CASE /\ class = "retryable" /\ asked = "generate" /\ tries < MaxRetries
             /\ wait' = "backoff" /\ UNCHANGED <<queue, tries, result>>
    <3>1. /\ queue' = queue /\ tries' = tries /\ result' = result /\ wait' = "backoff"
          /\ log'[Len(log')] = <<queue'[1], "retryable">>
      BY <2>5, <2>7
    <3>2. \A i \in DOMAIN queue : i > 1 => Calls(queue[i])' = {}
      <4>1. 1 \in DOMAIN queue
        BY <2>3
      <4>2. \A i \in DOMAIN queue : i > 1 => queue[i] # queue[1] /\ Calls(queue[i]) = {}
        BY <2>3, <4>1 DEF UnderWay
      <4> QED BY <2>5, <3>1, <4>2
    <3>3. Cardinality(Calls(queue[1]))' = tries' + 1
      BY <2>5, <3>1
    <3>4. UnderWay'
      BY <2>3, <3>1, <3>2, <3>3 DEF UnderWay
    <3> QED BY <2>3, <2>4, <2>5, <2>7, <3>1, <3>4 DEF AIIInv, AITypeOK
  <2>8. CASE /\ class = "next" \/ (class = "retryable" /\ (asked = "stream" \/ tries = MaxRetries))
             /\ Approach(Tail(queue), class)
    <3>1. /\ Tail(queue) \in Seq(Providers)
          /\ DOMAIN Tail(queue) = 1 .. Len(queue) - 1
          /\ DOMAIN queue = 1 .. Len(queue) /\ Len(queue) \in Nat \ {0}
          /\ \A i \in DOMAIN Tail(queue) : Tail(queue)[i] = queue[i + 1]
      BY <2>3, HeadTailProperties
    <3>2. \A i \in DOMAIN Tail(queue) : i + 1 \in DOMAIN queue /\ i + 1 > 1
      BY <3>1
    <3>3. \A i, j \in DOMAIN Tail(queue) : Tail(queue)[i] = Tail(queue)[j] => i = j
      BY <2>3, <3>1, <3>2 DEF UnderWay
    <3>4. \A i \in DOMAIN Tail(queue) : Calls(Tail(queue)[i]) = {} /\ Tail(queue)[i] # h
      BY <2>3, <3>1, <3>2 DEF UnderWay
    <3>5. \A t : t = Tail(queue) => \A i \in DOMAIN t : Calls(t[i])' = {}
      BY <2>5, <3>4
    <3>6. \/ Finish(class)
          \/ /\ queue' \in Seq(Providers) /\ UnderWay'
             /\ wait' = "reply" /\ tries' = 0 /\ result' = result
      <4> SUFFICES ASSUME NEW t, t = Tail(queue) PROVE \/ Finish(class)
                      \/ /\ queue' \in Seq(Providers) /\ UnderWay'
                         /\ wait' = "reply" /\ tries' = 0 /\ result' = result
        OBVIOUS
      <4>1. \A i \in DOMAIN t : Calls(t[i])' = {}
        BY <3>5
      <4> QED BY <2>8, <3>1, <3>3, <4>1, ApproachKeeps
    <3>7. Spent(log[Len(log)])'
      <4>1. \A k : k = h => Cardinality(Calls(k))' = tries + 1
        BY <2>5
      <4> QED BY <2>3, <2>5, <2>8, <4>1 DEF Spent
    <3>8. LastIsDue'
      BY <2>5, <2>8, <3>7 DEF LastIsDue
    <3>9. ASSUME queue' \in Seq(Providers), UnderWay', wait' = "reply",
                 tries' = 0, result' = result
          PROVE  AIIInv'
      BY <2>3, <2>4, <2>5, <3>8, <3>9 DEF AIIInv, AITypeOK
    <3> QED BY <2>6, <3>6, <3>9
  <2> QED BY <2>1, <2>6, <2>7, <2>8 DEF Replied
<1>4. CASE BackoffEnds
  <2>1. /\ wait = "backoff" /\ wait' = "reply" /\ tries' = tries + 1 /\ asked' = asked
        /\ queue' = queue /\ result' = result /\ log' = log /\ heard' = heard
        /\ tries < MaxRetries /\ asked # "stream"
        /\ log[Len(log)] = <<queue[1], "retryable">> /\ UnderWay
    BY <1>4 DEF BackoffEnds, AIIInv
  <2>2. \A p : Calls(p)' = Calls(p)
    BY <2>1 DEF Calls
  <2>3. AITypeOK' /\ EveryCallIsDue' /\ UnderWay' /\ LastIsDue'
    BY <2>1, <2>2 DEF AIIInv, AITypeOK, EveryCallIsDue, UnderWay, LastIsDue
  <2> QED BY <2>1, <2>3 DEF AIIInv
<1>5. CASE CallCancelled
  <2>1. CASE /\ wait = "reply" /\ Finish("absorbable")
             /\ log' = Append(log, <<Head(queue), "absorbable">>) /\ UNCHANGED <<asked, heard>>
    <3>1. /\ queue # <<>> /\ queue \in Seq(Providers) /\ Head(queue) = queue[1]
          /\ "absorbable" \in Results
      BY <2>1 DEF AIIInv, AITypeOK, UnderWay, Results
    <3>2. log' \in Seq(Registered \X Results) /\ EveryCallIsDue'
      BY <2>1, <3>1, CallIsDue
    <3> QED BY <2>1, <3>1, <3>2 DEF Finish, AIIInv, AITypeOK
  <2>2. CASE wait = "backoff" /\ Finish("cancelled") /\ UNCHANGED <<asked, log, heard>>
    <3>1. EveryCallIsDue'
      BY <2>2 DEF AIIInv, EveryCallIsDue, Calls
    <3> QED BY <2>2, <3>1 DEF Finish, AIIInv, AITypeOK, Results
  <2> QED BY <1>5, <2>1, <2>2 DEF CallCancelled
<1> QED BY <1>1, <1>2, <1>3, <1>4, <1>5 DEF AINext

(* Before the first call nothing is to be said.                              *)
LEMMA AIStart == AIInit => AIIInv
BY AIAssumption DEF AIInit, AIIInv, AITypeOK, EveryCallIsDue, Results

(* The router and its retries (ai/router.py, ai/retry.py): every call of a   *)
(* provider is due, whichever are registered, whatever they can do and       *)
(* answer, and whenever the caller gives up.                                 *)
THEOREM EveryCallWasDue == PartsSpec => []EveryCallIsDue
<1>1. AIIInv => EveryCallIsDue
  BY DEF AIIInv
<1> QED BY <1>1, AIStart, AIStep, Apart, PTL DEF PartsSpec, PartsInit

(* What an answer can cost at most: one try and the retries of each of the   *)
(* four providers, however they answer.                                      *)
CallsAreFew == Len(log) <= 4 * (1 + MaxRetries)

(* Two sets of calls are no more than the one and the other together.        *)
LEMMA Together ==
  ASSUME NEW S, NEW T, NEW m \in Nat, NEW n \in Nat, IsFiniteSet(S), IsFiniteSet(T),
         Cardinality(S) <= m, Cardinality(T) <= n
  PROVE  IsFiniteSet(S \cup T) /\ Cardinality(S \cup T) <= m + n
<1>1. /\ Cardinality(S) \in Nat /\ Cardinality(T) \in Nat
      /\ IsFiniteSet(S \cap T) /\ Cardinality(S \cap T) \in Nat
  BY FS_CardinalityType, FS_Intersection
<1>2. /\ IsFiniteSet(S \cup T)
      /\ Cardinality(S \cup T) = Cardinality(S) + Cardinality(T) - Cardinality(S \cap T)
  BY FS_Union
<1> QED BY <1>1, <1>2

(* A completion ends after a bounded number of requests that cost money or   *)
(* time (ai/router.py, ai/retry.py), whichever providers are registered and  *)
(* whatever they answer.                                                     *)
THEOREM AnswersHaveAPrice == PartsSpec => []CallsAreFew
<1>1. ASSUME AITypeOK, EveryCallIsDue PROVE CallsAreFew
  <2> DEFINE n == Len(log)
             m == 1 + MaxRetries
  <2>1. /\ n \in Nat /\ DOMAIN log = 1 .. n /\ m \in Nat \ {0}
        /\ \A i \in 1 .. n : log[i][1] \in Providers
    BY <1>1, AIAssumption DEF AITypeOK
  <2>2. ASSUME NEW p PROVE IsFiniteSet(Calls(p)) /\ Cardinality(Calls(p)) <= m
    <3>1. IsFiniteSet(Calls(p))
      BY <2>1, CallsAreFinite, Zenon
    <3>2. CASE Calls(p) = {}
      BY <2>1, <3>1, <3>2, FS_EmptySet
    <3>3. ASSUME NEW i \in Calls(p) PROVE Cardinality(Calls(p)) <= m
      <4>1. i \in DOMAIN log /\ log[i][1] = p
        BY <3>3 DEF Calls
      <4>2. Cardinality(Calls(p)) <= IF asked = "generate" THEN m ELSE 1
        BY <1>1, <4>1 DEF EveryCallIsDue
      <4>3. Cardinality(Calls(p)) \in Nat
        BY <3>1, FS_CardinalityType
      <4> QED BY <2>1, <4>2, <4>3
    <3> QED BY <3>1, <3>2, <3>3
  <2>3. 1 .. n = (Calls("openai") \cup Calls("anthropic"))
                 \cup (Calls("gemini") \cup Calls("ollama"))
    BY <2>1 DEF Calls, Providers
  <2> HIDE DEF n, m
  <2>4. Cardinality(1 .. n) = n
    <3>1. Cardinality(1 .. n) = IF 1 > n THEN 0 ELSE n - 1 + 1
      BY <2>1, FS_Interval
    <3> QED BY <2>1, <3>1
  <2>5. /\ IsFiniteSet(Calls("openai") \cup Calls("anthropic"))
        /\ Cardinality(Calls("openai") \cup Calls("anthropic")) <= m + m
    BY <2>1, <2>2, Together
  <2>6. /\ IsFiniteSet(Calls("gemini") \cup Calls("ollama"))
        /\ Cardinality(Calls("gemini") \cup Calls("ollama")) <= m + m
    BY <2>1, <2>2, Together
  <2>7. m + m \in Nat
    BY <2>1
  <2>8. Cardinality(1 .. n) <= (m + m) + (m + m)
    BY <2>3, <2>5, <2>6, <2>7, Together
  <2>9. n <= 4 * m
    BY <2>1, <2>4, <2>8
  <2> QED BY <2>9 DEF CallsAreFew, n, m
<1>2. AIIInv => CallsAreFew
  BY <1>1 DEF AIIInv
<1> QED BY <1>2, AIStart, AIStep, Apart, PTL DEF PartsSpec, PartsInit

-----------------------------------------------------------------------------
(* The parts together.  Front, the face and the desktop are typed by an      *)
(* induction of their own, the others by the invariant above.                *)
LEMMA FrontAndFaceTyped == PartsSpec => [](FrontTypeOK /\ FaceTypeOK)
<1>1. FrontInit => FrontTypeOK
  BY FrontAssumption DEF FrontInit, FrontTypeOK
<1>2. FaceInit => FaceTypeOK /\ NoFrozenState
  BY DEF FaceInit, FaceTypeOK, NoFrozenState
<1> QED BY <1>1, <1>2, FrontTyped, FaceStep, Apart, PTL DEF PartsSpec, PartsInit

(* Memory, window and router.                                                *)
LEMMA MindTyped == PartsSpec => [](MemoryTypeOK /\ WindowKeepsLimits /\ AITypeOK)
<1>1. MemoryIInv => MemoryTypeOK
  BY DEF MemoryIInv
<1>2. AIIInv => AITypeOK
  BY DEF AIIInv
<1>3. WindowIInv /\ [WindowNext]_windowVars => WindowIInv'
  BY WindowStep
<1> QED
  BY <1>1, <1>2, <1>3, MemoryStart, MemoryStep, WindowStart, WindowIsKept, AIStart, AIStep,
     Apart, PTL DEF PartsSpec, PartsInit

(* Tools, desktop and vision.                                                *)
LEMMA HandsTyped == PartsSpec => [](ToolsTypeOK /\ DesktopTypeOK /\ VisionTypeOK)
<1>1. ToolsIInv => ToolsTypeOK
  BY DEF ToolsIInv
<1>2. VisionIInv => VisionTypeOK
  BY DEF VisionIInv
<1> QED
  BY <1>1, <1>2, ToolsInvariance, DesktopStart, DesktopStep, VisionStart, VisionStep,
     Apart, PTL DEF PartsSpec, PartsInit

(* The engine, by the steps of its own proof.                                *)
LEMMA EngineInvariance == PartsSpec => []IInv
BY EngineStart, EngineStep, Apart, PTL DEF PartsSpec, PartsInit

(* Every variable of every part keeps its type, and the window its limits,   *)
(* its order and its summary (memory/working/window.py).                     *)
THEOREM EverythingTyped == PartsSpec => []PartsTypeOK
<1>1. IInv => TypeOK
  BY DEF IInv
<1> QED
  BY <1>1, EngineInvariance, VoiceInvariance, MindTyped, HandsTyped, FrontAndFaceTyped, PTL
  DEF PartsTypeOK

(* The engine beside the other parts stops what it started in reverse, and   *)
(* leaves nothing behind (core/engine.py).                                   *)
THEOREM StopsInReverseAmongParts == PartsSpec => []StopsInReverse
<1>1. IInv => StopsInReverse
  BY DEF IInv
<1> QED BY <1>1, EngineInvariance, PTL

(* Its shutdown leaves nothing up and nothing on the bus, beside the others  *)
(* as alone (core/engine.py, core/bus.py).                                   *)
THEOREM CleanShutdownAmongParts == PartsSpec => []ShutdownIsClean
<1>1. IInv => ShutdownIsClean
  BY ExitFollows DEF IInv, Drains, ShutdownIsClean
<1> QED BY <1>1, EngineInvariance, PTL
=============================================================================
