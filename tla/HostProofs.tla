----------------------------- MODULE HostProofs -----------------------------
(***************************************************************************)
(* Theorems about what is on the host: the speech models (VoiceModels), for *)
(* any names, packages, stt manifests and pieces of a model, and what is    *)
(* installed and believed of the host (HostReadiness), for any machines,    *)
(* artifacts and detectors that may raise.                                  *)
(***************************************************************************)
EXTENDS HostReadiness, VoiceModels, TLAPS

-----------------------------------------------------------------------------
(* Speech models: the inductive invariant *)

Syncs == [pc : {"idle", "files", "copy", "ct2", "onnx", "clean files", "clean speech"},
          device : Devices \cup {"none"}, todo : SUBSET Names, name : Names \cup {"none"}]

ModelsTypeOK ==
    /\ manifest \in SUBSET Names /\ parts \in SUBSET Names
    /\ file \in [Names -> {"absent", "torn", "short", "whole"}]
    /\ ct2 \in {"absent", "torn", "whole"} /\ qnn \in BOOLEAN
    /\ sync \in Syncs
    /\ ready \in Devices \cup {"none"}

\* A sync removes files only once its own speech model is there, and other
\* models only once that one is a faster-whisper cache, which no cleaning touches.
CleansLast ==
    /\ At("ct2") => RuntimeOf(sync.device) = "faster_whisper"
    /\ At("onnx") => RuntimeOf(sync.device) # "faster_whisper"
    /\ At("clean files") => ready = sync.device
    /\ At("clean speech") =>
         ready = sync.device /\ RuntimeOf(sync.device) = "faster_whisper"

\* The model of the device that is ready is there.
ModelIsThere == ready # "none" => Acquired(ready)

ModelsInv ==
    /\ ModelsTypeOK
    /\ DownloadsAreMoved
    /\ CleansLast
    /\ ModelIsThere

-----------------------------------------------------------------------------
(* Speech models: it holds initially, and every step keeps it *)

\* It holds of a checkout without models.
LEMMA InitModelsInv ==
    ASSUME SyncInit
    PROVE  ModelsInv
  <1> USE DEF SyncInit
  <1>1. ModelsTypeOK
    BY DEF ModelsTypeOK, NoSync, Syncs
  <1>2. DownloadsAreMoved
    BY DEF DownloadsAreMoved
  <1>3. CleansLast /\ ModelIsThere
    BY DEF CleansLast, ModelIsThere, At, NoSync
  <1> QED
    BY <1>1, <1>2, <1>3 DEF ModelsInv

\* Every step keeps the types.
LEMMA ModelsTypeKept ==
    ASSUME ModelsTypeOK, [SyncNext]_syncVars
    PROVE  ModelsTypeOK'
  <1>n. ASSUME NEW n \in Names,
               \/ file' = file
               \/ file' = [file EXCEPT ![n] = "torn"]
               \/ file' = [file EXCEPT ![n] = "absent"],
               parts' \in {parts, parts \cup {n}, parts \ {n}}
        PROVE  file' \in [Names -> {"absent", "torn", "short", "whole"}] /\ parts' \in SUBSET Names
    <2>1. parts \in SUBSET Names /\ file \in [Names -> {"absent", "torn", "short", "whole"}]
      BY DEF ModelsTypeOK
    <2>2. file' \in [Names -> {"absent", "torn", "short", "whole"}]
      BY <1>n, <2>1
    <2>3. parts' \in SUBSET Names
      BY <1>n, <2>1
    <2> QED
      BY <2>2, <2>3
  <1> USE DEF ModelsTypeOK, Syncs, config, speechModels
  <1>0. NoSync \in Syncs
    BY DEF NoSync
  <1>1. ASSUME NEW device \in Devices, Start(device)
        PROVE  ModelsTypeOK'
    BY <1>0, <1>1 DEF Start
  <1>2. ASSUME NEW n \in Names, Present(n)
        PROVE  ModelsTypeOK'
    BY <1>2 DEF Present
  <1>3. ASSUME NEW n \in Names, Open(n)
        PROVE  ModelsTypeOK'
    <2>1. \/ file' = [file EXCEPT ![n] = "torn"] /\ parts' = parts
          \/ file' = file /\ parts' = parts \cup {n}
      BY <1>3 DEF Open
    <2>2. [sync EXCEPT !.pc = "copy", !.name = n] \in Syncs
      OBVIOUS
    <2>3. sync' \in Syncs
      BY <1>3, <2>2 DEF Open
    <2>4. file' \in [Names -> {"absent", "torn", "short", "whole"}] /\ parts' \in SUBSET Names
      BY <1>n, <2>1
    <2>5. UNCHANGED <<manifest, ct2, qnn, ready>>
      BY <1>3 DEF Open
    <2> QED
      BY <2>3, <2>4, <2>5
  <1>4. ASSUME NEW n \in Names, RemoveFile(n) \/ RemovePart(n)
        PROVE  ModelsTypeOK'
    <2>1. file' = [file EXCEPT ![n] = "absent"] \/ file' = file
      BY <1>4 DEF RemoveFile, RemovePart
    <2>2. parts' \in {parts, parts \ {n}}
      BY <1>4 DEF RemoveFile, RemovePart
    <2>3. UNCHANGED <<manifest, ct2, qnn, sync, ready>>
      BY <1>4 DEF RemoveFile, RemovePart
    <2> QED
      BY <1>n, <2>1, <2>2, <2>3
  <1>5. CASE Copied
    <2>1. PICK content \in {"short", "whole"} : file' = [file EXCEPT ![sync.name] = content]
      BY <1>5 DEF Copied
    <2>2. file' \in [Names -> {"absent", "torn", "short", "whole"}]
      BY <2>1
    <2>3. parts' \in SUBSET Names
      BY <1>5 DEF Copied
    <2> QED
      BY <1>5, <2>2, <2>3 DEF Copied
  <1>6. CASE AcquireSpeech \/ OnnxLoaded \/ Ct2Loaded
    <2>1. SpeechStep(RuntimeOf(sync.device)) \in {"ct2", "onnx"}
      BY DEF SpeechStep
    <2>2. \E pc \in {"ct2", "onnx", "clean files"} : sync' = [sync EXCEPT !.pc = pc]
      BY <1>6, <2>1 DEF AcquireSpeech, OnnxLoaded, Ct2Loaded, Goto
    <2>3. sync' \in Syncs
      BY <2>2
    <2> QED
      BY <1>6, <2>3 DEF AcquireSpeech, OnnxLoaded, Ct2Loaded
  <1>7. CASE QnnPresent \/ SpeechClean \/ Fails
    BY <1>0, <1>7 DEF QnnPresent, SpeechClean, Fails
  <1>8. CASE FilesClean
    <2>1. sync' = [sync EXCEPT !.pc = "clean speech"] \/ sync' = NoSync
      BY <1>8 DEF FilesClean, Goto
    <2>2. sync' \in Syncs
      BY <1>0, <2>1
    <2> QED
      BY <1>8, <2>2 DEF FilesClean
  <1>9. CASE FetchCt2 \/ FetchPiece \/ RemoveModel \/ PlaceQnn \/ Edit
    BY <1>9 DEF FetchCt2, FetchPiece, RemoveModel, PlaceQnn, Edit
  <1>10. CASE UNCHANGED syncVars
    BY <1>10 DEF syncVars
  <1> QED
    BY <1>1, <1>2, <1>3, <1>4, <1>5, <1>6, <1>7, <1>8, <1>9, <1>10 DEF SyncNext

\* Every step keeps downloads untorn: only a package's copy is written in place.
LEMMA DownloadsKept ==
    ASSUME ModelsTypeOK, DownloadsAreMoved, [SyncNext]_syncVars
    PROVE  DownloadsAreMoved'
  <1> USE DEF ModelsTypeOK, DownloadsAreMoved
  <1>1. ASSUME NEW n \in Names, Open(n)
        PROVE  DownloadsAreMoved'
    BY <1>1 DEF Open, WrittenInPlace
  <1>2. ASSUME NEW n \in Names, RemoveFile(n)
        PROVE  DownloadsAreMoved'
    BY <1>2 DEF RemoveFile
  <1>3. CASE Copied
    BY <1>3 DEF Copied
  <1>4. CASE UNCHANGED file
    BY <1>4
  <1>5. ASSUME NEW device \in Devices, Start(device)
        PROVE  UNCHANGED file
    BY <1>5 DEF Start
  <1>6. ASSUME NEW n \in Names, Present(n) \/ RemovePart(n)
        PROVE  UNCHANGED file
    BY <1>6 DEF Present, RemovePart
  <1>7. CASE UNCHANGED syncVars
    BY <1>4, <1>7 DEF syncVars
  <1>8. CASE \/ AcquireSpeech \/ QnnPresent \/ FetchCt2 \/ Ct2Loaded \/ FetchPiece
             \/ OnnxLoaded \/ FilesClean \/ RemoveModel \/ SpeechClean \/ Fails
             \/ PlaceQnn \/ Edit
    BY <1>4, <1>8 DEF AcquireSpeech, QnnPresent, FetchCt2, Ct2Loaded, FetchPiece,
       OnnxLoaded, FilesClean, RemoveModel, SpeechClean, Fails, PlaceQnn, Edit
  <1> QED
    BY <1>1, <1>2, <1>3, <1>4, <1>5, <1>6, <1>7, <1>8 DEF SyncNext

\* Every step keeps what a sync knows when it cleans.
LEMMA CleansLastKept ==
    ASSUME ModelsTypeOK, CleansLast, [SyncNext]_syncVars
    PROVE  CleansLast'
  <1> USE DEF ModelsTypeOK, Syncs, CleansLast, At, config, RuntimeOf, ClassOf
  <1>0. ASSUME sync' = NoSync
        PROVE  CleansLast'
    <2>1. sync'.pc = "idle"
      BY <1>0 DEF NoSync
    <2> QED
      BY <2>1
  <1>1. ASSUME NEW device \in Devices, Start(device)
        PROVE  CleansLast'
    <2>1. sync'.pc = "files"
      BY <1>1 DEF Start, NoSync
    <2> QED
      BY <2>1
  <1>2. ASSUME NEW n \in Names, Present(n) \/ Open(n)
        PROVE  CleansLast'
    BY <1>2 DEF Present, Open
  <1>3. CASE Copied
    BY <1>3 DEF Copied
  <1>4. CASE AcquireSpeech
    BY <1>4 DEF AcquireSpeech, SpeechStep, Goto
  <1>5. CASE Ct2Loaded \/ OnnxLoaded
    BY <1>5 DEF Ct2Loaded, OnnxLoaded, Goto
  <1>6. CASE FilesClean
    <2>1. CASE RuntimeOf(sync.device) = "faster_whisper"
      <3>1. sync' = [sync EXCEPT !.pc = "clean speech"] /\ UNCHANGED <<classes, ready>>
        BY <1>6, <2>1 DEF FilesClean, Goto
      <3>2. sync'.pc = "clean speech" /\ sync'.device = sync.device
        BY <3>1
      <3> QED
        BY <1>6, <2>1, <3>1, <3>2 DEF FilesClean
    <2>2. CASE RuntimeOf(sync.device) # "faster_whisper"
      BY <1>0, <1>6, <2>2 DEF FilesClean
    <2> QED
      BY <2>1, <2>2
  <1>7. CASE QnnPresent \/ SpeechClean \/ Fails
    BY <1>0, <1>7 DEF QnnPresent, SpeechClean, Fails
  <1>8. CASE UNCHANGED <<classes, sync, ready>>
    BY <1>8
  <1>9. ASSUME NEW n \in Names, RemoveFile(n) \/ RemovePart(n)
        PROVE  CleansLast'
    BY <1>8, <1>9 DEF RemoveFile, RemovePart
  <1>10. CASE FetchCt2 \/ FetchPiece \/ RemoveModel \/ PlaceQnn \/ Edit
    BY <1>8, <1>10 DEF FetchCt2, FetchPiece, RemoveModel, PlaceQnn, Edit
  <1>11. CASE UNCHANGED syncVars
    BY <1>8, <1>11 DEF syncVars
  <1> QED
    BY <1>1, <1>2, <1>3, <1>4, <1>5, <1>6, <1>7, <1>9, <1>10, <1>11 DEF SyncNext

\* Every step leaves the model of the device that is ready where it is: only a
\* sync that has its own, which is then the one that counts, removes another.
LEMMA ModelKept ==
    ASSUME ModelsTypeOK, CleansLast, ModelIsThere, [SyncNext]_syncVars
    PROVE  ModelIsThere'
  <1> USE DEF ModelsTypeOK, Syncs, ModelIsThere, At, config, speechModels, RuntimeOf, ClassOf,
          OnnxAvailable, Acquired
  <1>1. CASE UNCHANGED <<classes, speechModels, ready>>
    BY <1>1
  <1>2. ASSUME NEW device \in Devices, Start(device)
        PROVE  ModelIsThere'
    BY <1>1, <1>2 DEF Start
  <1>3. ASSUME NEW n \in Names, Present(n) \/ Open(n) \/ RemoveFile(n) \/ RemovePart(n)
        PROVE  ModelIsThere'
    BY <1>1, <1>3 DEF Present, Open, RemoveFile, RemovePart
  <1>4. CASE \/ Copied \/ AcquireSpeech \/ FilesClean \/ SpeechClean \/ Fails \/ Edit
    BY <1>1, <1>4 DEF Copied, AcquireSpeech, FilesClean, SpeechClean, Fails, Edit
  <1>5. CASE QnnPresent
    BY <1>5 DEF QnnPresent
  <1>6. CASE FetchCt2
    BY <1>6 DEF FetchCt2
  <1>7. CASE Ct2Loaded
    BY <1>7 DEF Ct2Loaded, CleansLast
  <1>8. CASE FetchPiece
    BY <1>8 DEF FetchPiece
  <1>9. CASE OnnxLoaded
    BY <1>9 DEF OnnxLoaded, CleansLast
  <1>10. CASE RemoveModel
    BY <1>10 DEF RemoveModel, CleansLast
  <1>11. CASE PlaceQnn
    BY <1>11 DEF PlaceQnn
  <1>12. CASE UNCHANGED syncVars
    BY <1>1, <1>12 DEF syncVars
  <1> QED
    BY <1>2, <1>3, <1>4, <1>5, <1>6, <1>7, <1>8, <1>9, <1>10, <1>11, <1>12 DEF SyncNext

-----------------------------------------------------------------------------
(* Speech models: theorems *)

\* What a sync has acquired, and which removals that allows, in every state.
THEOREM ModelsInvariant == SyncSpec => []ModelsInv
  <1>1. ModelsInv /\ [SyncNext]_syncVars => ModelsInv'
    BY ModelsTypeKept, DownloadsKept, CleansLastKept, ModelKept DEF ModelsInv
  <1> QED
    BY <1>1, InitModelsInv, PTL DEF SyncSpec

\* A file that is downloaded is never half written at its place (_acquire_file).
THEOREM DownloadsAreNotTorn == SyncSpec => []DownloadsAreMoved
  <1>1. ModelsInv => DownloadsAreMoved
    BY DEF ModelsInv
  <1> QED
    BY <1>1, ModelsInvariant, PTL

\* Where a sync has acquired everything its model stays, through the syncs that
\* fail or die after it, and transcription finds it unless it is a faster-whisper
\* model with a nested path (sync_models).
THEOREM AcquiredModelIsKept == SyncSpec => []AcquiredModelStays
  <1>1. ModelsInv => AcquiredModelStays
    BY DEF ModelsInv, ModelIsThere, Acquired, AcquiredModelStays, Transcribes
  <1> QED
    BY <1>1, ModelsInvariant, PTL

-----------------------------------------------------------------------------
(* Readiness: the inductive invariant *)

Extras == {"cpu", "cuda", "directml", "qnn"}

\* An extra is chosen for what the host has.
Justified(m, extra) ==
    /\ extra = "cuda" => /\ m.arch = "x64"
                         /\ DetectGpu(m).vendor = "nvidia" /\ DetectCuda(m)
    /\ extra = "qnn" => /\ m.arch = "arm64"
                        /\ m.os = "linux" \/ DetectNpu(m) = "qualcomm"
    /\ extra = "directml" => m.os = "windows" /\ DetectGpu(m).gpu

\* What is installed fits the architecture, which no host changes, and pip's
\* record of the plain wheel means that some runtime is there.
InstalledFits ==
    /\ "qnn" \in pip => machine.arch = "arm64"
    /\ "gpu" \in pip \/ ort = "gpu" => machine.arch = "x64"
    /\ "cpu" \in pip => ort # "none" \/ stuck

\* An installation under way has nothing provisioned; its extra is for this
\* host; it uninstalls once everything else is there.
InstallOrdered ==
    /\ setup.at \in {"idle", "install", "uninstall", "reinstall"}
    /\ setup.at # "idle" => provisioned = None /\ setup.extra \in Extras /\ Justified(machine, setup.extra)
    /\ setup.at \in {"uninstall", "reinstall"} =>
         TargetPackage(setup.extra) # None /\ {"speech", "wake"} \subseteq pip

\* What is provisioned is there, with the runtime of its own wheel in place.
ProvisionedIsThere ==
    provisioned # None =>
        /\ provisioned \in Extras /\ Justified(machine, provisioned)
        /\ {"speech", "wake"} \subseteq pip /\ (ort # "none" \/ stuck)
        /\ TargetPackage(provisioned) # None => ort = TargetPackage(provisioned)
        /\ provisioned = "qnn" => "qnn" \in pip

\* However old it is, what the process believes of accelerators fits the
\* architecture.
BeliefsFit ==
    /\ proc.ort = "gpu" => machine.arch = "x64"
    /\ "onnxruntime_qnn" \in proc.modules => machine.arch = "arm64"
    /\ {<<"ep", "cuda">>, <<"ct2", "cuda">>} \cap proc.tokens # {} => machine.arch = "x64"
    /\ <<"dll", "QnnHtp">> \in proc.tokens => machine.arch = "arm64"

HostInv ==
    /\ machine \in Machines
    /\ InstalledFits
    /\ InstallOrdered
    /\ ProvisionedIsThere
    /\ BeliefsFit

-----------------------------------------------------------------------------
(* Readiness: lemmas about extras, tokens and devices *)

\* An extra is chosen for what the host has, whichever detectors raise.
LEMMA ExtraIsJustified ==
    ASSUME NEW raising
    PROVE  /\ Extra(Inventory(machine, raising)) \in Extras
           /\ Justified(machine, Extra(Inventory(machine, raising)))
  <1> DEFINE inv == Inventory(machine, raising)
  <1>1. /\ inv.arch \in {"unknown", machine.arch}
        /\ inv.os \in {"unknown", machine.os}
        /\ inv.gpu => inv.gpu = DetectGpu(machine).gpu /\ inv.vendor = DetectGpu(machine).vendor
        /\ ~inv.gpu => \/ inv.vendor = "none"
                       \/ inv.gpu = DetectGpu(machine).gpu /\ inv.vendor = DetectGpu(machine).vendor
        /\ inv.cuda => DetectCuda(machine)
        /\ inv.npu \in {"none", DetectNpu(machine)}
    BY DEF Inventory, NoGpu
  <1> HIDE DEF inv
  <1>2. Extra(inv) \in Extras
    BY DEF Extra, Extras
  <1>3. Justified(machine, Extra(inv))
    BY <1>1 DEF Extra, Justified
  <1> QED
    BY <1>2, <1>3 DEF inv

\* The wheel to reinstall by force is that of its extra.
LEMMA TargetOf ==
    /\ TargetPackage("cuda") = "gpu" /\ TargetPackage("directml") = "directml"
    /\ TargetPackage("cpu") = None /\ TargetPackage("qnn") = None
    /\ \A extra : TargetPackage(extra) \in {"gpu", "directml", None}
    /\ \A extra : TargetPackage(extra) = "gpu" => extra = "cuda"
    /\ None \notin {"cpu", "gpu", "cuda", "directml", "qnn"}
  BY HostAssumption DEF TargetPackage

\* The tokens of a process that have to do with CUDA and QNN.
LEMMA TokensMean ==
    ASSUME NEW inv, NEW p
    PROVE  /\ <<"ep", "cuda">> \in Tokens(inv, p) <=> LoadedOrt(p) = "gpu"
           /\ <<"ep", "directml">> \in Tokens(inv, p) <=> LoadedOrt(p) = "directml"
           /\ <<"ep", "qnn">> \in Tokens(inv, p) <=> ActivatesQnn(p)
           /\ <<"dll", "QnnHtp">> \in Tokens(inv, p) <=> "onnxruntime_qnn" \in Imported(p)
           /\ <<"ct2", "cuda">> \in Tokens(inv, p) => machine.arch = "x64"
           /\ \A name : <<"import", name>> \in Tokens(inv, p) <=> name \in Imported(p)
  <1> USE DEF Tokens, ImportTokens, QnnTokens, ProviderTokens, OpenclTokens, VulkanTokens,
          Ct2Tokens
  <1>1. <<"ep", "cuda">> \in Tokens(inv, p) <=> LoadedOrt(p) = "gpu"
    OBVIOUS
  <1>2. <<"ep", "directml">> \in Tokens(inv, p) <=> LoadedOrt(p) = "directml"
    OBVIOUS
  <1>3. <<"ep", "qnn">> \in Tokens(inv, p) <=> ActivatesQnn(p)
    OBVIOUS
  <1>4. <<"dll", "QnnHtp">> \in Tokens(inv, p) <=> "onnxruntime_qnn" \in Imported(p)
    OBVIOUS
  <1>5. <<"ct2", "cuda">> \in Tokens(inv, p) => machine.arch = "x64"
    OBVIOUS
  <1>6. ASSUME NEW name
        PROVE  <<"import", name>> \in Tokens(inv, p) <=> name \in Imported(p)
    OBVIOUS
  <1> QED
    BY <1>1, <1>2, <1>3, <1>4, <1>5, <1>6

\* What the installed wheels import as.
LEMMA ImportsMean ==
    /\ "onnxruntime_qnn" \in Importable <=> "qnn" \in pip
    /\ "transformers" \in Importable <=> "qnn" \in pip
    /\ "onnxruntime" \in Importable <=> ort # "none"
    /\ "kokoro_onnx" \in Importable <=> "speech" \in pip /\ ort # "none"
  BY DEF Importable

-----------------------------------------------------------------------------
(* Readiness: the invariant holds initially, and every step keeps it *)

\* It holds of a host on which nothing is installed.
LEMMA InitHostInv ==
    ASSUME HostInit
    PROVE  HostInv
  BY DEF HostInit, HostInv, InstalledFits, InstallOrdered, ProvisionedIsThere, BeliefsFit,
     NewProcess, NoSetup

\* No step changes the operating system or the architecture.
LEMMA HostIsKept ==
    ASSUME machine \in Machines, [HostNext]_hostVars
    PROVE  machine' \in Machines /\ machine'.os = machine.os /\ machine'.arch = machine.arch
  BY DEF HostNext, hostVars, HostChanges, ModelsChange, Restart, PlaceByHand, HardwareProfiler,
     AcquireBinary, Select, StartInstall, InstallFails, InstallPackages, UninstallLosers,
     ForceReinstall, SetupDies

\* Every step keeps what is installed fitting the architecture.
LEMMA InstalledKept ==
    ASSUME HostInv, [HostNext]_hostVars
    PROVE  InstalledFits'
  <1>0. machine'.arch = machine.arch
    BY HostIsKept DEF HostInv
  <1> USE <1>0 DEF HostInv, InstalledFits
  <1>1. CASE UNCHANGED <<pip, ort, stuck>>
    BY <1>1
  <1>p. ASSUME NEW old, NEW brought, old \subseteq pip, old \cap OrtDistributions = pip \cap OrtDistributions,
               brought \subseteq Brought(setup.extra, machine.arch), setup.at = "install",
               "cpu" \in brought, Unpack(old, brought), stuck' = stuck
        PROVE  InstalledFits'
    <2> DEFINE new == (brought \ old) \cap OrtDistributions
    <2>1. /\ pip' = old \cup brought
          /\ ort' = ort \/ ort' \in new
          /\ new # {} => ort' \in new
      BY <1>p DEF Unpack
    <2>2. /\ "qnn" \in brought => machine.arch = "arm64"
          /\ "gpu" \in brought => setup.extra = "cuda"
      BY <1>p, TargetOf DEF Brought
    <2>3. setup.extra = "cuda" => machine.arch = "x64"
      BY <1>p DEF InstallOrdered, Justified
    <2>4. "none" \notin new /\ {"cpu", "gpu"} \subseteq OrtDistributions
      BY DEF OrtDistributions
    <2> QED
      BY <1>p, <2>1, <2>2, <2>3, <2>4
  <1>2. CASE InstallFails
    <2>1. CASE pip' = pip \ {"wake"} /\ ort' = ort
      BY <1>2, <2>1 DEF InstallFails
    <2>2. CASE UNCHANGED <<pip, ort>>
      BY <1>1, <1>2, <2>2 DEF InstallFails
    <2>3. CASE Unpack(pip \ {"wake"}, Brought(setup.extra, machine.arch) \ {"wake"})
      <3>1. /\ (pip \ {"wake"}) \cap OrtDistributions = pip \cap OrtDistributions
            /\ "cpu" \in Brought(setup.extra, machine.arch) \ {"wake"}
        BY DEF OrtDistributions, Brought
      <3> QED
        BY <1>2, <1>p, <2>3, <3>1 DEF InstallFails
    <2>4. Unpack(pip \ {"wake"}, {}) => pip' = pip \ {"wake"} /\ ort' = ort
      BY DEF Unpack
    <2> QED
      BY <1>2, <2>1, <2>2, <2>3, <2>4 DEF InstallFails
  <1>3. CASE InstallPackages
    <2>1. "cpu" \in Brought(setup.extra, machine.arch)
      BY DEF Brought
    <2> QED
      BY <1>3, <1>p, <2>1 DEF InstallPackages
  <1>4. CASE UninstallLosers
    <2>1. "cpu" \in OrtDistributions \ {TargetPackage(setup.extra)}
      BY <1>4, TargetOf DEF UninstallLosers, InstallOrdered, OrtDistributions
    <2>2. PICK gone \in SUBSET (pip \cap (OrtDistributions \ {TargetPackage(setup.extra)})) :
            /\ pip' = pip \ gone
            /\ ort' = IF gone = {} THEN ort ELSE "none"
            /\ stuck' = (stuck \/ gone # pip \cap (OrtDistributions \ {TargetPackage(setup.extra)}))
      BY <1>4 DEF UninstallLosers
    <2> QED
      BY <2>1, <2>2
  <1>5. CASE ForceReinstall
    <2>1. /\ TargetPackage(setup.extra) \in {"gpu", "directml"}
          /\ TargetPackage(setup.extra) = "gpu" => setup.extra = "cuda"
      BY <1>5, TargetOf DEF ForceReinstall, InstallOrdered
    <2>2. setup.extra = "cuda" => machine.arch = "x64"
      BY <1>5 DEF ForceReinstall, InstallOrdered, Justified
    <2> QED
      BY <1>5, <2>1, <2>2 DEF ForceReinstall
  <1>6. CASE \/ HostChanges \/ ModelsChange \/ Restart \/ AcquireBinary \/ SetupDies
             \/ (\E p \in CanonicalProfiles : PlaceByHand(p))
             \/ (\E refresh \in BOOLEAN, raising \in Faults : HardwareProfiler(refresh, raising))
             \/ (\E m \in Models : Select(m))
             \/ (\E raising \in Faults : StartInstall(raising))
             \/ UNCHANGED hostVars
    BY <1>1, <1>6 DEF HostChanges, ModelsChange, Restart, AcquireBinary, SetupDies,
       PlaceByHand, HardwareProfiler, Select, StartInstall, hostVars, environment
  <1> QED
    BY <1>2, <1>3, <1>4, <1>5, <1>6 DEF HostNext

\* Every step keeps the order of an installation.
LEMMA InstallKept ==
    ASSUME HostInv, [HostNext]_hostVars
    PROVE  InstallOrdered'
  <1> USE DEF HostInv, InstallOrdered
  <1>1. CASE UNCHANGED <<machine, pip, setup, provisioned>>
    BY <1>1 DEF Justified
  <1>2. CASE setup' = NoSetup
    BY <1>2 DEF NoSetup
  <1>3. CASE HostChanges
    BY <1>3 DEF HostChanges
  <1>4. ASSUME NEW raising \in Faults, StartInstall(raising)
        PROVE  InstallOrdered'
    <2> DEFINE extra == Extra(Inventory(machine, raising))
    <2>1. extra \in Extras /\ Justified(machine, extra)
      BY ExtraIsJustified
    <2> HIDE DEF extra
    <2>2. setup' = [at |-> "install", extra |-> extra] /\ provisioned' = None
          /\ machine' = machine
      BY <1>4 DEF StartInstall, extra
    <2>3. setup'.at = "install" /\ setup'.extra = extra
      BY <2>2
    <2>4. Justified(machine', setup'.extra)
      BY <2>1, <2>2, <2>3 DEF Justified
    <2> QED
      BY <2>1, <2>2, <2>3, <2>4
  <1>5. CASE InstallPackages
    <2>1. CASE TargetPackage(setup.extra) = None
      BY <1>2, <1>5, <2>1 DEF InstallPackages
    <2>2. CASE TargetPackage(setup.extra) # None
      <3>1. /\ setup' = [setup EXCEPT !.at = "uninstall"]
            /\ UNCHANGED <<machine, provisioned>>
            /\ pip' = pip \cup Brought(setup.extra, machine.arch)
            /\ setup.at = "install"
        BY <1>5, <2>2 DEF InstallPackages, Unpack
      <3>2. {"speech", "wake"} \subseteq pip'
        BY <3>1 DEF Brought
      <3>3. setup'.at = "uninstall" /\ setup'.extra = setup.extra
        BY <3>1
      <3>4. Justified(machine', setup.extra)
        BY <3>1, <3>3 DEF Justified
      <3> QED
        BY <2>2, <3>1, <3>2, <3>3, <3>4
    <2> QED
      BY <2>1, <2>2
  <1>6. CASE UninstallLosers
    <2>1. /\ setup' = [setup EXCEPT !.at = "reinstall"]
          /\ UNCHANGED <<machine, provisioned>>
          /\ {"speech", "wake"} \subseteq pip'
          /\ setup.at = "uninstall"
      BY <1>6 DEF UninstallLosers, OrtDistributions
    <2>2. setup'.at = "reinstall" /\ setup'.extra = setup.extra
      BY <2>1
    <2>3. Justified(machine', setup.extra)
      BY <2>1, <2>2 DEF Justified
    <2> QED
      BY <2>1, <2>2, <2>3
  <1>7. CASE InstallFails \/ ForceReinstall \/ SetupDies
    BY <1>2, <1>7 DEF InstallFails, ForceReinstall, SetupDies
  <1>8. CASE \/ ModelsChange \/ Restart \/ AcquireBinary
             \/ (\E p \in CanonicalProfiles : PlaceByHand(p))
             \/ (\E refresh \in BOOLEAN, raising \in Faults : HardwareProfiler(refresh, raising))
             \/ (\E m \in Models : Select(m))
             \/ UNCHANGED hostVars
    BY <1>1, <1>8 DEF ModelsChange, Restart, AcquireBinary,
       PlaceByHand, HardwareProfiler, Select, hostVars, environment
  <1> QED
    BY <1>3, <1>4, <1>5, <1>6, <1>7, <1>8 DEF HostNext

\* Every step keeps what is provisioned in place, or forgets that it was.
LEMMA ProvisionedKept ==
    ASSUME HostInv, [HostNext]_hostVars
    PROVE  ProvisionedIsThere'
  <1> USE DEF HostInv, ProvisionedIsThere
  <1>1. CASE UNCHANGED <<machine, pip, ort, provisioned, stuck>>
    BY <1>1 DEF Justified
  <1>2. CASE provisioned' = None
    BY <1>2
  <1>3. CASE HostChanges \/ (\E raising \in Faults : StartInstall(raising))
    BY <1>2, <1>3 DEF HostChanges, StartInstall
  <1>4. CASE InstallFails \/ UninstallLosers
    BY <1>2, <1>4 DEF InstallFails, UninstallLosers, InstallOrdered
  <1>5. CASE InstallPackages
    <2>1. CASE TargetPackage(setup.extra) = None
      <3> DEFINE brought == Brought(setup.extra, machine.arch)
                 new == (brought \ pip) \cap OrtDistributions
      <3>1. /\ provisioned' = setup.extra /\ machine' = machine
            /\ pip' = pip \cup brought
            /\ setup.extra \in Extras /\ Justified(machine, setup.extra)
            /\ IF new = {} THEN ort' = ort ELSE ort' \in new
            /\ stuck' = stuck
        BY <1>5, <2>1 DEF InstallPackages, Unpack, InstallOrdered
      <3>2. /\ {"speech", "wake", "cpu"} \subseteq brought
            /\ setup.extra = "qnn" => "qnn" \in brought
        BY <3>1 DEF Brought, Justified
      <3>3. "none" \notin new /\ "cpu" \in OrtDistributions
        BY DEF OrtDistributions
      <3>4. ort' # "none" \/ stuck'
        BY <3>1, <3>2, <3>3 DEF InstalledFits
      <3>5. Justified(machine', setup.extra)
        BY <3>1
      <3> QED
        BY <2>1, <3>1, <3>2, <3>4, <3>5
    <2>2. CASE TargetPackage(setup.extra) # None
      BY <1>2, <1>5, <2>2 DEF InstallPackages, InstallOrdered
    <2> QED
      BY <2>1, <2>2
  <1>6. CASE ForceReinstall
    <2>1. /\ provisioned' = setup.extra /\ machine' = machine
          /\ ort' = TargetPackage(setup.extra) /\ pip \subseteq pip'
          /\ setup.extra \in Extras /\ Justified(machine, setup.extra)
          /\ TargetPackage(setup.extra) # None /\ {"speech", "wake"} \subseteq pip
      BY <1>6 DEF ForceReinstall, InstallOrdered
    <2>2. ort' \in {"gpu", "directml"} /\ setup.extra # "qnn"
      BY <2>1, TargetOf
    <2> QED
      BY <2>1, <2>2
  <1>7. CASE \/ ModelsChange \/ Restart \/ AcquireBinary \/ SetupDies
             \/ (\E p \in CanonicalProfiles : PlaceByHand(p))
             \/ (\E refresh \in BOOLEAN, raising \in Faults : HardwareProfiler(refresh, raising))
             \/ (\E m \in Models : Select(m))
             \/ UNCHANGED hostVars
    BY <1>1, <1>7 DEF ModelsChange, Restart, AcquireBinary, SetupDies,
       PlaceByHand, HardwareProfiler, Select, hostVars, environment
  <1> QED
    BY <1>3, <1>4, <1>5, <1>6, <1>7 DEF HostNext

\* Every step keeps what the process believes fitting the architecture: what is
\* new comes from what is installed, the rest from what it believed before.
LEMMA BeliefsKept ==
    ASSUME HostInv, [HostNext]_hostVars
    PROVE  BeliefsFit'
  <1>0. machine'.arch = machine.arch
    BY HostIsKept DEF HostInv
  <1> USE <1>0 DEF HostInv, BeliefsFit
  <1>1. CASE proc' = proc
    BY <1>1
  <1>2. CASE Restart
    BY <1>2 DEF Restart, NewProcess
  <1>3. ASSUME NEW refresh \in BOOLEAN, NEW raising \in Faults,
               HardwareProfiler(refresh, raising)
        PROVE  BeliefsFit'
    <2>1. CASE proc.cached /\ ~refresh
      BY <1>1, <1>3, <2>1 DEF HardwareProfiler, Resolved
    <2>2. CASE ~(proc.cached /\ ~refresh)
      <3> DEFINE inv == Inventory(machine, raising)
      <3>1. /\ proc'.ort = LoadedOrt(proc) /\ proc'.modules = Imported(proc)
            /\ proc'.tokens = Tokens(inv, proc)
        BY <1>3, <2>2 DEF HardwareProfiler, Resolved
      <3> HIDE DEF inv
      <3>2. LoadedOrt(proc) = "gpu" => machine.arch = "x64"
        BY DEF LoadedOrt, InstalledFits
      <3>3. "onnxruntime_qnn" \in Imported(proc) => machine.arch = "arm64"
        BY ImportsMean DEF Imported, InstalledFits
      <3> QED
        BY <3>1, <3>2, <3>3, TokensMean
    <2> QED
      BY <2>1, <2>2
  <1>4. CASE \/ HostChanges \/ ModelsChange \/ AcquireBinary
             \/ (\E p \in CanonicalProfiles : PlaceByHand(p))
             \/ (\E m \in Models : Select(m))
    BY <1>1, <1>4 DEF HostChanges, ModelsChange, AcquireBinary, PlaceByHand, Select
  <1>5. CASE \/ (\E raising \in Faults : StartInstall(raising))
             \/ InstallFails \/ InstallPackages \/ UninstallLosers \/ ForceReinstall
             \/ SetupDies \/ UNCHANGED hostVars
    BY <1>1, <1>5 DEF StartInstall, InstallFails, InstallPackages, UninstallLosers,
       ForceReinstall, SetupDies, hostVars
  <1> QED
    BY <1>2, <1>3, <1>4, <1>5 DEF HostNext

-----------------------------------------------------------------------------
(* Readiness: theorems *)

\* What is installed, provisioned and believed of the host in every state.
THEOREM HostInvariant == HostSpec => []HostInv
  <1>1. HostInv /\ [HostNext]_hostVars => HostInv'
    BY HostIsKept, InstalledKept, InstallKept, ProvisionedKept, BeliefsKept DEF HostInv
  <1> QED
    BY <1>1, InitHostInv, PTL DEF HostSpec

\* CUDA is never found on arm64, nor QNN on x64, whatever the cards, the wheels
\* and the tools that answer.
LEMMA SuffixFits ==
    ASSUME HostInv
    PROVE  ProfileOf(proc.inv, proc.tokens) \in CanonicalProfiles
  <1> DEFINE inv == proc.inv
             tokens == proc.tokens
             stt == SttDevice(inv, tokens)
             tts == TtsDevice(inv, tokens)
  <1>1. machine.os \in {"windows", "linux"} /\ machine.arch \in {"x64", "arm64"}
    BY HostAssumption DEF HostInv
  <1>2. /\ stt = "qnn" \/ tts = "qnn" => <<"dll", "QnnHtp">> \in tokens
        /\ stt = "cuda" => <<"ct2", "cuda">> \in tokens
        /\ tts = "cuda" => <<"ep", "cuda">> \in tokens
    <2>1. stt = "qnn" => <<"dll", "QnnHtp">> \in tokens
      BY DEF SttDevice, QnnSpeech, QnnRuntime
    <2>2. tts = "qnn" => <<"dll", "QnnHtp">> \in tokens
      BY DEF TtsDevice, QnnRuntime
    <2>3. stt = "cuda" => <<"ct2", "cuda">> \in tokens
      BY DEF SttDevice
    <2>4. tts = "cuda" => <<"ep", "cuda">> \in tokens
      BY DEF TtsDevice
    <2> QED
      BY <2>1, <2>2, <2>3, <2>4
  <1>3. /\ stt = "qnn" \/ tts = "qnn" => machine.arch = "arm64"
        /\ stt = "cuda" \/ tts = "cuda" => machine.arch = "x64"
    BY <1>2 DEF HostInv, BeliefsFit
  <1>4. /\ Suffix(inv, tokens) \in {"qnn", "cuda", "gpu", "cpu"}
        /\ Suffix(inv, tokens) = "qnn" => "qnn" \in {stt, tts}
        /\ Suffix(inv, tokens) = "cuda" => "cuda" \in {stt, tts}
    BY DEF Suffix
  <1> HIDE DEF stt, tts
  <1>5. \/ machine.arch = "x64" /\ Suffix(inv, tokens) \in {"cpu", "gpu", "cuda"}
        \/ machine.arch = "arm64" /\ Suffix(inv, tokens) \in {"cpu", "gpu", "qnn"}
    BY <1>1, <1>3, <1>4
  <1> QED
    BY <1>1, <1>5 DEF ProfileOf, CanonicalProfiles

\* What a process has resolved is one of the twelve profiles (profiler.py,
\* readiness.py).
THEOREM ProfilesAreCanonical == HostSpec => []ProfileIsCanonical
  <1>1. HostInv => ProfileIsCanonical
    BY SuffixFits DEF ProfileIsCanonical
  <1> QED
    BY <1>1, HostInvariant, PTL

\* A set of places on the ladder that is not empty has a first one.
LEMMA StrongestIsOneOf ==
    ASSUME NEW places \in SUBSET (1..5), places # {}
    PROVE  \E i \in places : Strongest(places) = Ladder[i]
  <1>1. \E i \in places : \A j \in places : i <= j
    <2>1. \A j \in places : j \in {1, 2, 3, 4, 5}
      OBVIOUS
    <2>2. CASE 1 \in places
      BY <2>1, <2>2
    <2>3. CASE 1 \notin places /\ 2 \in places
      BY <2>1, <2>3
    <2>4. CASE 1 \notin places /\ 2 \notin places /\ 3 \in places
      BY <2>1, <2>4
    <2>5. CASE 1 \notin places /\ 2 \notin places /\ 3 \notin places
      <3>1. \A j \in places : j \in {4, 5}
        BY <2>1, <2>5
      <3>2. CASE 4 \in places
        BY <3>1, <3>2
      <3>3. CASE 4 \notin places
        <4>1. places = {5}
          BY <3>1, <3>3
        <4> QED
          BY <4>1
      <3> QED
        BY <3>2, <3>3
    <2> QED
      BY <2>2, <2>3, <2>4, <2>5
  <1> QED
    BY <1>1 DEF Strongest

\* The CPU rung always stands and always has its artifact, so that there is a
\* first rung, and its binary is one of the two that a start looks for.
LEMMA ReadyMeansBinary ==
    ASSUME NEW inv, NEW tokens, ProfileOf(inv, tokens) \in CanonicalProfiles,
           LlmReady(inv, tokens)
    PROVE  BinaryPresent(StartsArtifact(ProfileOf(inv, tokens))) /\ SelectedModelPresent
  <1> DEFINE profile == ProfileOf(inv, tokens)
             rungs == Declared(inv, tokens, profile)
  <1>1. CpuFallback(profile) \in CanonicalProfiles /\ CpuFallback(profile)[3] = "cpu"
    BY DEF CpuFallback, CanonicalProfiles
  <1>2. ArtifactFor(CpuFallback(profile)) = "cpu"
    BY <1>1, HostAssumption DEF ArtifactFor
  <1>3. DOMAIN Ladder = 1..5 /\ Ladder[5] = "cpu"
    BY DEF Ladder
  <1>4. Stands("cpu", inv, tokens) /\ RungProfile("cpu", profile) = CpuFallback(profile)
    BY DEF Stands, RungProfile
  <1> HIDE DEF profile
  <1>5. 5 \in rungs /\ rungs \in SUBSET (1..5)
    BY <1>2, <1>3, <1>4 DEF Declared
  <1> HIDE DEF rungs
  <1>6. PICK i \in rungs : Strongest(rungs) = Ladder[i]
    BY <1>5, StrongestIsOneOf
  <1>7. BinaryPresent(RungProfile(Strongest(rungs), profile)) /\ SelectedModelPresent
    BY <1>5 DEF LlmReady, rungs, profile
  <1>8. RungProfile(Strongest(rungs), profile) \in {profile, CpuFallback(profile)}
    BY DEF RungProfile
  <1>9. BinaryPresent(StartsArtifact(profile))
    BY <1>7, <1>8 DEF StartsArtifact
  <1> QED
    BY <1>7, <1>9 DEF profile

\* An LLM that is reported ready finds a binary and a model when it is started,
\* however old the report's view of the host is (derive_llm_readiness;
\* select_managed_llm_artifact).
THEOREM ReadyIsStartable == HostSpec => []ReadyStarts
  <1>1. HostInv => ReadyStarts
    BY SuffixFits, ReadyMeansBinary DEF ReadyStarts, SelectedModelPresent
  <1> QED
    BY <1>1, HostInvariant, PTL

\* A finished installation gives a new process the device it was chosen for.
LEMMA ProvisionedWorks ==
    ASSUME HostInv
    PROVE  ProvisionReachesDevice
  <1> DEFINE inv == Inventory(machine, {})
             tokens == Tokens(inv, NewProcess)
  <1>1. /\ inv.os = machine.os /\ inv.arch = machine.arch
        /\ inv.gpu = DetectGpu(machine).gpu /\ inv.vendor = DetectGpu(machine).vendor
        /\ inv.cuda = DetectCuda(machine) /\ inv.npu = DetectNpu(machine)
    BY DEF Inventory, DetectCuda
  <1>2. LoadedOrt(NewProcess) = ort /\ Imported(NewProcess) = Importable
    BY DEF LoadedOrt, Imported, NewProcess
  <1> HIDE DEF inv
  <1>3. /\ <<"ep", "cuda">> \in tokens <=> ort = "gpu"
        /\ <<"ep", "directml">> \in tokens <=> ort = "directml"
        /\ <<"ep", "qnn">> \in tokens <=>
             ort # "none" /\ "qnn" \in pip /\ machine.htp
        /\ <<"dll", "QnnHtp">> \in tokens <=> "qnn" \in pip
        /\ <<"import", "onnxruntime_qnn">> \in tokens <=> "qnn" \in pip
        /\ <<"import", "transformers">> \in tokens <=> "qnn" \in pip
        /\ <<"import", "kokoro_onnx">> \in tokens <=> "speech" \in pip /\ ort # "none"
    BY <1>2, TokensMean, ImportsMean DEF ActivatesQnn
  <1> HIDE DEF tokens
  <1> USE DEF HostInv, ProvisionedIsThere
  <1>4. ASSUME provisioned # None, ~stuck
        PROVE  <<"import", "kokoro_onnx">> \in tokens
    BY <1>3, <1>4
  <1>5. ASSUME provisioned = "cuda"
        PROVE  TtsDevice(inv, tokens) = "cuda"
    BY <1>1, <1>3, <1>5, TargetOf DEF TtsDevice, Cuda, Justified
  <1>6. ASSUME provisioned = "directml"
        PROVE  TtsDevice(inv, tokens) = "directml"
    BY <1>1, <1>3, <1>6, TargetOf DEF TtsDevice, Justified
  <1>7. ASSUME provisioned = "qnn", machine.htp, ~stuck
        PROVE  SttDevice(inv, tokens) = "qnn"
    <2>1. QnnSpeech \subseteq tokens /\ QnnRuntime \subseteq tokens
      BY <1>3, <1>7, TargetOf DEF QnnSpeech, QnnRuntime
    <2>2. QnnHost(inv, tokens)
      BY <1>1, <1>7, <2>1, TargetOf DEF QnnHost, Justified
    <2> QED
      BY <2>1, <2>2 DEF SttDevice
  <1> QED
    BY <1>4, <1>5, <1>6, <1>7 DEF ProvisionReachesDevice, inv, tokens

\* When awf-setup has finished, a new process gets the device the extra was
\* chosen for, whatever failed or died before it (cmd_install).
THEOREM ProvisioningDelivers == HostSpec => []ProvisionReachesDevice
  <1>1. HostInv => ProvisionReachesDevice
    BY ProvisionedWorks
  <1> QED
    BY <1>1, HostInvariant, PTL

=============================================================================
