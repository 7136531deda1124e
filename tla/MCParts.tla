------------------------------- MODULE MCParts -------------------------------
(***************************************************************************)
(* Three parts that share no state: the voice models, the governed executor *)
(* calls, and two processes of AWF that manage one llama-server, with room  *)
(* for two servers, of which one or both may be AWF's.  Each behaviour is   *)
(* one of one part, the subject, while the others stay at an initial state  *)
(* of theirs.                                                               *)
(*                                                                         *)
(* Stt manifests: that of the repository, one whose CUDA model has a flat   *)
(* path, and one without classes for accelerators.                          *)
(***************************************************************************)
EXTENDS VoiceModels, GovernedSteps, LlmSidecar

VARIABLE subject

-----------------------------------------------------------------------------
(* The voice models *)

SpeechClass(runtime, nested) == [runtime |-> runtime, nested |-> nested]

MCClasses ==
    { [cpu |-> SpeechClass("onnx_whisper", FALSE), qnn |-> SpeechClass("qnn_whisper", FALSE),
       cuda |-> SpeechClass("faster_whisper", nested)] : nested \in BOOLEAN }
    \cup { [cpu |-> SpeechClass("onnx_whisper", FALSE)] }

-----------------------------------------------------------------------------
(* What governed calls may find *)

Capability(operation, risk, approvalMode) ==
    [ref |-> "cap", type |-> "activity", provider |-> "awf",
     operation |-> operation, risk |-> risk, approval |-> approvalMode]

Finds(capability, allowed, role, target) ==
    [found |-> TRUE, capability |-> capability, manifest |-> allowed,
     role |-> role, target |-> target]

Asking == Capability("update", "R2", "per-invocation")

MCWorlds ==
    { Finds(Asking, {"cap"}, "builder", "here"),
      Finds(Asking, {}, "none", "there"),
      Finds(Capability("delete", "R1", "per-invocation"), {}, "builder", "here"),
      Finds(Capability("update", "R1", "never"), {}, "builder", "here"),
      Finds(Capability("update", "R1", "never"), {}, "verifier", "outside"),
      Finds(Asking, {"another"}, "builder", "here"),
      Finds(Capability("read", "R0", "never"), {}, "nobody", "here"),
      [found |-> FALSE, capability |-> Asking, manifest |-> {}, role |-> "none",
       target |-> "here"] }

-----------------------------------------------------------------------------
(* One part at a time *)

AnyWorld == CHOOSE w \in Worlds : TRUE
AnyClasses == CHOOSE c \in ClassManifests : TRUE

partsVars == <<syncVars, governedVars, sidecarVars, subject>>

PartsInit ==
    /\ SyncInit /\ GovernedInit /\ SidecarInit
    /\ subject \in {"models", "governed", "sidecar"}
    /\ subject # "models" => manifest = Names /\ classes = AnyClasses
    /\ subject # "governed" => kind = "agent" /\ world = AnyWorld

PartsNext ==
    \/ /\ subject = "models"
       /\ SyncNext
       /\ UNCHANGED <<governedVars, sidecarVars, subject>>
    \/ /\ subject = "governed"
       /\ GovernedNext
       /\ UNCHANGED <<syncVars, sidecarVars, subject>>
    \/ /\ subject = "sidecar"
       /\ SidecarNext
       /\ UNCHANGED <<syncVars, governedVars, subject>>

\* A process that is in a call of the sidecar goes on with it.
PartsSpec ==
    /\ PartsInit /\ [][PartsNext]_partsVars
    /\ \A c \in Callers : WF_sidecarVars(ContinueCall(c))
===========================================================================
