-------------------------------- MODULE Parts --------------------------------
(* Parts of the system side by side: those bootstrap_system (bootstrap.py)   *)
(* puts together in the core, the way of a command through the gateway, and  *)
(* the renderer's face.  They share no variable: what one asks of another is *)
(* a call that returns, raises or is cut off, and each module has all three  *)
(* for every call it makes.  So nothing is lost when a behaviour moves only  *)
(* one of them, and the product of their states is never built.              *)
EXTENDS Engine, Voice, Memory, WorkingMemory, AIRouter, Tools, Desktop, Vision,
        Front, Assistant

VARIABLE scene  \* the part that moves

mindVars == <<memoryVars, windowVars, aiVars>>
handVars == <<toolVars, desktopVars, visionVars>>
coreVars == <<vars, voiceVars, mindVars, handVars>>
partsVars == <<scene, coreVars, frontVars, faceVars>>

PartsInit ==
  /\ scene \in {"engine", "voice", "memory", "window", "ai",
                "tools", "desktop", "vision", "front", "face"}
  /\ Init /\ VoiceInit /\ MemoryInit /\ WindowInit /\ AIInit
  /\ ToolsInit /\ DesktopInit /\ VisionInit /\ FrontInit /\ FaceInit

MindNext ==
  \/ scene = "memory" /\ MemoryNext /\ UNCHANGED <<windowVars, aiVars>>
  \/ scene = "window" /\ WindowNext /\ UNCHANGED <<memoryVars, aiVars>>
  \/ scene = "ai" /\ AINext /\ UNCHANGED <<memoryVars, windowVars>>

HandNext ==
  \/ scene = "tools" /\ ToolsNext /\ UNCHANGED <<desktopVars, visionVars>>
  \/ scene = "desktop" /\ DesktopNext /\ UNCHANGED <<toolVars, visionVars>>
  \/ scene = "vision" /\ VisionNext /\ UNCHANGED <<toolVars, desktopVars>>

CoreNext ==
  \/ scene = "engine" /\ Next /\ UNCHANGED <<voiceVars, mindVars, handVars>>
  \/ scene = "voice" /\ VoiceNext /\ UNCHANGED <<vars, mindVars, handVars>>
  \/ MindNext /\ UNCHANGED <<vars, voiceVars, handVars>>
  \/ HandNext /\ UNCHANGED <<vars, voiceVars, mindVars>>

PartsNext ==
  /\ UNCHANGED scene
  /\ \/ CoreNext /\ UNCHANGED <<frontVars, faceVars>>
     \/ scene = "front" /\ FrontNext /\ UNCHANGED <<coreVars, faceVars>>
     \/ scene = "face" /\ FaceNext /\ UNCHANGED <<coreVars, frontVars>>

(* Of what is fair nothing can run before its own scene has begun.           *)
PartsSpec ==
  /\ PartsInit /\ [][PartsNext]_partsVars
  /\ Fairness /\ VoiceFairness

PartsTypeOK ==
  /\ TypeOK /\ VoiceTypeOK /\ MemoryTypeOK /\ WindowKeepsLimits /\ AITypeOK
  /\ ToolsTypeOK /\ DesktopTypeOK /\ VisionTypeOK /\ FrontTypeOK /\ FaceTypeOK
=============================================================================
