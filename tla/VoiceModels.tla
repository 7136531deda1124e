----------------------------- MODULE VoiceModels -----------------------------
(***************************************************************************)
(* The models of the voice front end: awf-speech models sync                *)
(* (speech/models.py) acquires what the manifests name and then removes     *)
(* what they do not; transcription (speech/stt_onnx.py) finds its model in  *)
(* what is there.                                                           *)
(*                                                                         *)
(* A sync fails or dies at any step and is run again, for the same device   *)
(* or another.  Syncs do not overlap, and manifests are edited between them.*)
(***************************************************************************)
EXTENDS Naturals

CONSTANTS
    Names,          \* files the tts, vad and wake manifests list, now or ever
    Bundled,        \* those that come out of an installed package
    ClassManifests, \* stt manifests: device -> [runtime, nested], where nested
                    \* says that the local path has a directory of its own
    Pieces          \* the files of an ONNX Whisper model

ASSUME ModelsAssumption ==
    /\ Bundled \subseteq Names
    /\ \A c \in ClassManifests :
         /\ "cpu" \in DOMAIN c
         /\ \A d \in DOMAIN c : c[d].runtime \in {"onnx_whisper", "faster_whisper", "qnn_whisper"}

VARIABLES
    manifest,   \* the names the manifests list
    classes,    \* the stt manifest
    file,       \* name -> what is at its place: "absent", "torn" by a write that
                \* goes on or was cut off, "short" or "whole"
    parts,      \* names with a download that has not been moved to its place
    onnx,       \* the pieces of the ONNX model that are there
    ct2,        \* the cache of the faster-whisper model in models/stt
    qnn,        \* are the files of the QNN model there?
    sync,       \* the sync that runs: [pc, device, todo, name]
    ready       \* history: the device for which a sync has last acquired all

speechModels == <<onnx, ct2, qnn>>
config == <<manifest, classes>>
syncVars == <<config, file, parts, speechModels, sync, ready>>

-----------------------------------------------------------------------------
(* What is there *)

ClassOf(device) == classes[IF device \in DOMAIN classes THEN device ELSE "cpu"]
RuntimeOf(device) == ClassOf(device).runtime

OnnxAvailable == onnx = Pieces

\* Where transcription looks: for faster-whisper, in the parent of the local path.
Transcribes(device) ==
    LET runtime == RuntimeOf(device) IN
    \/ runtime = "faster_whisper" /\ ct2 = "whole" /\ ~ClassOf(device).nested
    \/ runtime = "qnn_whisper" /\ qnn
    \/ runtime # "faster_whisper" /\ OnnxAvailable

NoSync == [pc |-> "idle", device |-> "none", todo |-> {}, name |-> "none"]
At(pc) == sync.pc = pc
Goto(pc) == sync' = [sync EXCEPT !.pc = pc]

SyncInit ==
    /\ manifest \in SUBSET Names
    /\ classes \in ClassManifests
    /\ file = [n \in Names |-> "absent"]
    /\ parts = {}
    /\ onnx = {} /\ ct2 = "absent" /\ qnn = FALSE
    /\ sync = NoSync
    /\ ready = "none"

-----------------------------------------------------------------------------
(* sync_models: the files *)

Start(device) ==
    /\ At("idle")
    /\ sync' = [NoSync EXCEPT !.pc = "files", !.device = device, !.todo = manifest]
    /\ UNCHANGED <<config, file, parts, speechModels, ready>>

Present(n) ==
    /\ At("files") /\ n \in sync.todo
    /\ file[n] # "absent"
    /\ sync' = [sync EXCEPT !.todo = @ \ {n}]
    /\ UNCHANGED <<config, file, parts, speechModels, ready>>

\* Mutant: a download is written to its place.
InPlace(n) == TRUE

WrittenInPlace(n) == n \in Bundled

Open(n) ==
    /\ At("files") /\ n \in sync.todo
    /\ file[n] = "absent"
    /\ IF WrittenInPlace(n)
       THEN file' = [file EXCEPT ![n] = "torn"] /\ UNCHANGED parts
       ELSE parts' = parts \cup {n} /\ UNCHANGED file
    /\ sync' = [sync EXCEPT !.pc = "copy", !.name = n]
    /\ UNCHANGED <<config, speechModels, ready>>

\* A response that ends early without an exception is moved to its place, too.
Copied ==
    /\ At("copy")
    /\ \E content \in IF sync.name \in Bundled THEN {"whole"} ELSE {"short", "whole"} :
         file' = [file EXCEPT ![sync.name] = content]
    /\ parts' = parts \ {sync.name}
    /\ sync' = [sync EXCEPT !.pc = "files", !.todo = @ \ {sync.name}]
    /\ UNCHANGED <<config, speechModels, ready>>

-----------------------------------------------------------------------------
(* sync_models: the speech model *)

\* Mutant: what no manifest names is removed before the model is there.
CleanFirst(runtime) == IF runtime = "faster_whisper" THEN "clean speech" ELSE "onnx"

SpeechStep(runtime) == IF runtime = "faster_whisper" THEN "ct2" ELSE "onnx"

AcquireSpeech ==
    /\ At("files") /\ sync.todo = {}
    /\ ~(RuntimeOf(sync.device) = "qnn_whisper" /\ qnn)
    /\ Goto(SpeechStep(RuntimeOf(sync.device)))
    /\ UNCHANGED <<config, file, parts, speechModels, ready>>

\* Nothing is to be acquired, and nothing is removed either.
QnnPresent ==
    /\ At("files") /\ sync.todo = {}
    /\ RuntimeOf(sync.device) = "qnn_whisper" /\ qnn
    /\ sync' = NoSync
    /\ ready' = sync.device
    /\ UNCHANGED <<config, file, parts, speechModels>>

\* WhisperModel: into the cache, then from there.
FetchCt2 ==
    /\ At("ct2") /\ ct2 = "absent"
    /\ ct2' = "torn"
    /\ UNCHANGED <<config, file, parts, onnx, qnn, sync, ready>>

Ct2Loaded ==
    /\ At("ct2") /\ ct2 # "absent"
    /\ ct2' = "whole"
    /\ Goto("clean files")
    /\ ready' = sync.device
    /\ UNCHANGED <<config, file, parts, onnx, qnn>>

\* _sync_onnx_whisper, also for a QNN model that is missing.
FetchPiece ==
    /\ At("onnx") /\ ~OnnxAvailable
    /\ \E p \in Pieces \ onnx : onnx' = onnx \cup {p}
    /\ UNCHANGED <<config, file, parts, ct2, qnn, sync, ready>>

OnnxLoaded ==
    /\ At("onnx") /\ OnnxAvailable
    /\ Goto("clean files")
    /\ ready' = sync.device
    /\ UNCHANGED <<config, file, parts, speechModels>>

-----------------------------------------------------------------------------
(* Reconciliation: path by path, in the order of the directory *)

Stale(n) == file[n] # "absent" /\ n \notin manifest

RemoveFile(n) ==
    /\ At("clean files") /\ Stale(n)
    /\ file' = [file EXCEPT ![n] = "absent"]
    /\ UNCHANGED <<config, parts, speechModels, sync, ready>>

RemovePart(n) ==
    /\ At("clean files") /\ n \in parts
    /\ parts' = parts \ {n}
    /\ UNCHANGED <<config, file, speechModels, sync, ready>>

FilesClean ==
    /\ At("clean files")
    /\ parts = {} /\ \A n \in Names : ~Stale(n)
    /\ IF RuntimeOf(sync.device) = "faster_whisper" THEN Goto("clean speech") ELSE sync' = NoSync
    /\ UNCHANGED <<config, file, parts, speechModels, ready>>

\* A directory goes file by file.
RemoveModel ==
    /\ At("clean speech")
    /\ \/ /\ \E p \in onnx : onnx' = onnx \ {p}
          /\ UNCHANGED qnn
       \/ /\ qnn /\ qnn' = FALSE
          /\ UNCHANGED onnx
    /\ UNCHANGED <<config, file, parts, ct2, sync, ready>>

SpeechClean ==
    /\ At("clean speech")
    /\ onnx = {} /\ ~qnn
    /\ sync' = NoSync
    /\ UNCHANGED <<config, file, parts, speechModels, ready>>

-----------------------------------------------------------------------------
(* Failures and people *)

\* An exception or a death, at any step.
Fails ==
    /\ ~At("idle")
    /\ sync' = NoSync
    /\ UNCHANGED <<config, file, parts, speechModels, ready>>

PlaceQnn ==
    /\ ~qnn
    /\ qnn' = TRUE
    /\ UNCHANGED <<config, file, parts, onnx, ct2, sync, ready>>

Edit ==
    /\ At("idle")
    /\ manifest' \in SUBSET Names
    /\ UNCHANGED <<classes, file, parts, speechModels, sync, ready>>

Devices == {"cpu", "cuda", "qnn"}

SyncNext ==
    \/ \E device \in Devices : Start(device)
    \/ \E n \in Names : Present(n) \/ Open(n) \/ RemoveFile(n) \/ RemovePart(n)
    \/ Copied \/ AcquireSpeech \/ QnnPresent \/ FetchCt2 \/ Ct2Loaded
    \/ FetchPiece \/ OnnxLoaded \/ FilesClean \/ RemoveModel \/ SpeechClean
    \/ Fails \/ PlaceQnn \/ Edit

SyncSpec == SyncInit /\ [][SyncNext]_syncVars

-----------------------------------------------------------------------------
(* Properties *)

\* Whatever dies when, a file that is downloaded is all of what its server sent or
\* not there: only the copies out of packages are ever seen half written, or left
\* so for good, since what is there counts as present (_acquire_file).
DownloadsAreMoved == \A n \in Names \ Bundled : file[n] # "torn"

\* Is the model that a sync for the device acquires there?
Acquired(device) ==
    IF RuntimeOf(device) = "faster_whisper" THEN ct2 = "whole"
    ELSE (RuntimeOf(device) = "qnn_whisper" /\ qnn) \/ OnnxAvailable

\* Once a sync has acquired everything for a device, its model stays through
\* failing and dying syncs, also for other devices, until one of them has
\* acquired everything itself ("if acquisition fails, no cleanup runs,
\* preserving the prior working model tree", ADR-0016), and transcription finds
\* it; but for a faster-whisper class whose local path is nested, as that of the
\* shipped cuda class is: there transcription looks elsewhere.
AcquiredModelStays ==
    ready # "none" =>
        /\ Acquired(ready)
        /\ \/ Transcribes(ready)
           \/ RuntimeOf(ready) = "faster_whisper" /\ ClassOf(ready).nested
=============================================================================
