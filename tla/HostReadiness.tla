---------------------------- MODULE HostReadiness ----------------------------
(***************************************************************************)
(* What the host can do and what AWF believes it can do (hardware/, the     *)
(* installation part of setup.py, llm/discovery.py, artifacts.py and        *)
(* selector.py):                                                            *)
(*   profile     detectors read the machine into an inventory;              *)
(*   provision   awf-setup installs the ONNX Runtime wheel it calls for;    *)
(*   preflight   what the installed environment offers becomes tokens;      *)
(*   readiness   inventory and tokens together select devices, and the      *)
(*               strongest of them names the profile.                       *)
(* Inventory, tokens and imported modules are kept by a process for its     *)
(* lifetime, while drivers, wheels, binaries and models change under it.    *)
(***************************************************************************)
EXTENDS Naturals, Sequences, FiniteSets, SequencesExt

CONSTANTS
    Machines,       \* what the probes of a machine would find
    Accelerator,    \* canonical profile -> accelerator its artifact declares
    Manual,         \* the profiles whose artifact is to be placed by hand
    Models,         \* the models there may be under models/llm
    Faults,         \* the sets of detectors that may raise together
    None

VARIABLES
    machine,    \* the host with its drivers
    pip,        \* distributions pip has on record
    ort,        \* whose files are under the import name onnxruntime
    setup,      \* the awf-setup --install that is running
    provisioned,\* the extra the last complete installation was for
    stuck,      \* history: has an uninstallation failed that no reinstallation
                \* of a wheel has made good yet?
    proc,       \* what the long-lived process has cached and imported
    binaries,   \* profiles with a binary under binaries/llama.cpp/<profile>
    models,     \* the models there are
    selected    \* the model resident-mind names

hostVars == <<machine, pip, ort, setup, provisioned, stuck, proc, binaries, models,
          selected>>
environment == <<pip, ort, setup, provisioned, stuck>>
llm == <<binaries, models, selected>>

-----------------------------------------------------------------------------
(* Profiles *)

CanonicalProfiles ==
    { <<os, "x64", s>> : os \in {"windows", "linux"}, s \in {"cpu", "gpu", "cuda"} }
    \cup
    { <<os, "arm64", s>> : os \in {"windows", "linux"}, s \in {"cpu", "gpu", "qnn"} }

ASSUME HostAssumption ==
    /\ \A m \in Machines : m.os \in {"windows", "linux"} /\ m.arch \in {"x64", "arm64"}
    /\ Accelerator \in [CanonicalProfiles ->
            {"none", "cpu", "gpu.cuda", "npu.qnn", "gpu.opencl.adreno", "gpu.vulkan"}]
    /\ \A p \in CanonicalProfiles : p[3] = "cpu" => Accelerator[p] = "cpu"
    /\ Manual \subseteq CanonicalProfiles
    /\ None \notin {"cpu", "gpu", "cuda", "directml", "qnn"}
    /\ Faults \subseteq SUBSET {"os", "cpu", "gpu", "cuda", "npu"}

-----------------------------------------------------------------------------
(* Inventory.  A machine is [os, arch, tools, adapters, opencl, npu, nvcc,   *)
(* vulkan, htp]: the vendor tools that answer, the display adapters in the   *)
(* order they are listed, the OpenCL platforms, the name the NPU goes by.    *)

NoGpu == [gpu |-> FALSE, vendor |-> "none"]
Gpu(vendor) == [gpu |-> TRUE, vendor |-> vendor]

\* nvidia-smi, rocm-smi and xpu-smi are asked in this order.
Answering(m) == SelectSeq(<<"nvidia", "amd", "intel">>, LAMBDA v : v \in m.tools)
FromTools(m) == IF Answering(m) = <<>> THEN NoGpu ELSE Gpu(Head(Answering(m)))

Recognized(m) == SelectSeq(m.adapters, LAMBDA v : v # "unknown")

FromWindows(m) ==
    IF m.adapters = <<>> THEN NoGpu
    ELSE IF Recognized(m) = <<>> THEN Gpu("unknown") ELSE Gpu(Head(Recognized(m)))

FromLinux(m) == IF Recognized(m) = <<>> THEN NoGpu ELSE Gpu(Head(Recognized(m)))

FromOpencl(m) == IF m.opencl = "qualcomm" THEN Gpu("qualcomm") ELSE NoGpu

DetectGpu(m) ==
    LET listed == IF m.os = "windows" THEN FromWindows(m) ELSE FromLinux(m)
        found == SelectSeq(<<FromTools(m), listed, FromOpencl(m)>>, LAMBDA g : g.gpu)
    IN IF found = <<>> THEN NoGpu ELSE Head(found)

\* nvcc, else the driver nvidia-smi talks to.
DetectCuda(m) == m.nvcc \/ "nvidia" \in m.tools

\* Any vendor's NPU has a name on Windows; on Linux only Qualcomm's shows.
DetectNpu(m) == IF m.npu = "qualcomm" \/ m.os = "windows" THEN m.npu ELSE "none"

\* A detector that raises leaves its fields at their defaults.
Inventory(m, raising) ==
    LET display == IF "gpu" \in raising THEN NoGpu ELSE DetectGpu(m) IN
    [os     |-> IF "os" \in raising THEN "unknown" ELSE m.os,
     arch   |-> IF "cpu" \in raising THEN "unknown" ELSE m.arch,
     gpu    |-> display.gpu,
     vendor |-> display.vendor,
     cuda   |-> "cuda" \notin raising /\ DetectCuda(m),
     npu    |-> IF "npu" \in raising THEN "none" ELSE DetectNpu(m)]

-----------------------------------------------------------------------------
(* Provisioning *)

\* Mutant: the CUDA wheel is for any NVIDIA host.
ExtraAnyArch(inv) ==
    IF inv.vendor = "nvidia" /\ inv.cuda THEN "cuda"
    ELSE IF inv.os = "linux" /\ inv.arch = "arm64" THEN "qnn" ELSE "cpu"

Extra(inv) ==
    IF inv.arch = "x64" /\ inv.vendor = "nvidia" /\ inv.cuda THEN "cuda"
    ELSE IF /\ inv.arch = "arm64"
            /\ inv.os = "linux" \/ (inv.os = "windows" /\ inv.npu = "qualcomm") THEN "qnn"
    ELSE IF inv.os = "windows" /\ inv.gpu /\ inv.vendor \in {"amd", "intel"} THEN "directml"
    ELSE "cpu"

OrtDistributions == {"cpu", "gpu", "directml"}

\* Mutant: DirectML is taken for a wheel that needs no reinstallation.
TargetCudaOnly(extra) == IF extra = "cuda" THEN "gpu" ELSE None

\* The wheel to reinstall by force; nothing for the extras that need none.
TargetPackage(extra) ==
    CASE extra = "cuda" -> "gpu"
      [] extra = "directml" -> "directml"
      [] OTHER -> None

\* What pip install brings: kokoro-onnx and openwakeword depend on the plain
\* onnxruntime whatever wheel the extra names, and the QNN wheels are for arm64.
Brought(extra, arch) ==
    {"speech", "wake", "cpu"}
    \cup (IF TargetPackage(extra) = None THEN {} ELSE {TargetPackage(extra)})
    \cup (IF extra = "qnn" /\ arch = "arm64" THEN {"qnn"} ELSE {})

-----------------------------------------------------------------------------
(* Preflight *)

Importable ==
    (IF ort # "none" THEN {"onnxruntime"} ELSE {})
    \cup (IF "speech" \in pip THEN {"onnx_asr", "sherpa_onnx"} ELSE {})
    \cup (IF "speech" \in pip /\ ort # "none" THEN {"kokoro_onnx"} ELSE {})
    \cup (IF "speech" \in pip /\ <<machine.os, machine.arch>> # <<"windows", "arm64">>
          THEN {"faster_whisper", "ctranslate2"} ELSE {})
    \cup (IF "wake" \in pip /\ ort # "none" THEN {"openwakeword"} ELSE {})
    \cup (IF "qnn" \in pip THEN {"onnxruntime_qnn", "transformers"} ELSE {})

\* A module once imported stays so, and onnxruntime with the files it had.
Imported(p) == p.modules \cup Importable
LoadedOrt(p) == IF "onnxruntime" \in p.modules THEN p.ort ELSE ort

ImportTokens(p) == { <<"import", name>> : name \in Imported(p) }

\* The QNN provider is there when its library registers with the runtime and
\* the runtime then exposes it.
ActivatesQnn(p) == {"onnxruntime", "onnxruntime_qnn"} \subseteq Imported(p) /\ machine.htp

QnnTokens(p) ==
    (IF ActivatesQnn(p) THEN { <<"ep", "qnn">> } ELSE {})
    \cup (IF "onnxruntime_qnn" \in Imported(p) THEN { <<"dll", "QnnHtp">> } ELSE {})

ProviderTokens(p) ==
    CASE LoadedOrt(p) = "gpu" -> { <<"ep", "cuda">> }
      [] LoadedOrt(p) = "directml" -> { <<"ep", "directml">> }
      [] OTHER -> {}

OpenclTokens(inv) ==
    IF machine.opencl = "qualcomm" \/ (inv.vendor = "qualcomm" /\ machine.opencl # "none")
    THEN { <<"opencl", "adreno">> } ELSE {}

VulkanTokens == IF machine.vulkan THEN { <<"vulkan", "available">> } ELSE {}

\* The wheels of CTranslate2 see CUDA devices on x64.
Ct2Tokens(p) ==
    IF "ctranslate2" \in Imported(p) /\ machine.arch = "x64" /\ "nvidia" \in machine.tools
    THEN { <<"ct2", "cuda">> } ELSE {}

Tokens(inv, p) ==
    ImportTokens(p) \cup QnnTokens(p) \cup ProviderTokens(p) \cup OpenclTokens(inv)
        \cup VulkanTokens \cup Ct2Tokens(p)

-----------------------------------------------------------------------------
(* Readiness *)

QnnRuntime == { <<"ep", "qnn">>, <<"dll", "QnnHtp">> }

QnnHost(inv, tokens) ==
    \/ inv.npu = "qualcomm"
    \/ inv.os = "linux" /\ inv.arch = "arm64" /\ QnnRuntime \subseteq tokens

Cuda(inv) == inv.vendor = "nvidia" /\ inv.cuda

QnnSpeech == QnnRuntime \cup { <<"import", "onnxruntime_qnn">>, <<"import", "transformers">> }

SttDevice(inv, tokens) ==
    IF QnnHost(inv, tokens) /\ QnnSpeech \subseteq tokens THEN "qnn"
    ELSE IF Cuda(inv) /\ { <<"ct2", "cuda">>, <<"import", "faster_whisper">> } \subseteq tokens
         THEN "cuda"
    ELSE "cpu"

TtsDevice(inv, tokens) ==
    IF <<"import", "kokoro_onnx">> \notin tokens THEN "cpu"
    ELSE IF Cuda(inv) /\ <<"ep", "cuda">> \in tokens THEN "cuda"
    ELSE IF inv.os = "windows" /\ inv.gpu /\ <<"ep", "directml">> \in tokens
         THEN "directml"
    ELSE IF QnnHost(inv, tokens) /\ QnnRuntime \subseteq tokens THEN "qnn"
    ELSE "cpu"

Suffix(inv, tokens) ==
    LET devices == {SttDevice(inv, tokens), TtsDevice(inv, tokens)} IN
    IF "qnn" \in devices THEN "qnn"
    ELSE IF "cuda" \in devices THEN "cuda"
    ELSE IF "directml" \in devices \/ <<"opencl", "adreno">> \in tokens THEN "gpu"
    ELSE "cpu"

ProfileOf(inv, tokens) == <<machine.os, machine.arch, Suffix(inv, tokens)>>

CpuFallback(profile) == <<profile[1], profile[2], "cpu">>

ArtifactFor(profile) ==
    IF profile \in CanonicalProfiles THEN Accelerator[profile] ELSE "none"

BinaryPresent(profile) ==
    ArtifactFor(profile) # "none" /\ profile \in binaries

Ladder == <<"gpu.cuda", "npu.qnn", "gpu.opencl.adreno", "gpu.vulkan", "cpu">>

\* Do hardware and tokens agree on a rung of the ladder?
Stands(rung, inv, tokens) ==
    CASE rung = "gpu.cuda" -> Cuda(inv) /\ <<"ep", "cuda">> \in tokens
      [] rung = "npu.qnn" -> QnnHost(inv, tokens) /\ QnnRuntime \subseteq tokens
      [] rung = "gpu.opencl.adreno" ->
            inv.vendor = "qualcomm" /\ inv.gpu /\ <<"opencl", "adreno">> \in tokens
      [] rung = "gpu.vulkan" -> inv.gpu /\ <<"vulkan", "available">> \in tokens
      [] OTHER -> TRUE

RungProfile(rung, profile) == IF rung = "cpu" THEN CpuFallback(profile) ELSE profile

\* The rungs that stand and that an artifact is declared for, by their place.
Declared(inv, tokens, profile) ==
    {i \in DOMAIN Ladder :
        /\ Stands(Ladder[i], inv, tokens)
        /\ ArtifactFor(RungProfile(Ladder[i], profile)) = Ladder[i]}

Strongest(places) == Ladder[CHOOSE i \in places : \A j \in places : i <= j]

SelectedModelPresent == selected \in models

\* derive_llm_readiness of a managed server: the first declared rung decides.
LlmReady(inv, tokens) ==
    LET profile == ProfileOf(inv, tokens)
        rungs == Declared(inv, tokens, profile)
    IN \/ rungs = {}
       \/ BinaryPresent(RungProfile(Strongest(rungs), profile)) /\ SelectedModelPresent

\* Mutant: no CPU fallback when starting.
StartsItsOwn(profile) == profile

\* The artifact op_llm_serve starts, by the profile it is declared for.
StartsArtifact(profile) ==
    IF ~BinaryPresent(profile) /\ BinaryPresent(CpuFallback(profile))
    THEN CpuFallback(profile) ELSE profile

-----------------------------------------------------------------------------
(* Initial states *)

NewProcess == [cached |-> FALSE, inv |-> None, tokens |-> {}, modules |-> {},
               ort |-> "none"]
NoSetup == [at |-> "idle", extra |-> None]

HostInit ==
    /\ machine \in Machines
    /\ pip = {}
    /\ ort = "none"
    /\ setup = NoSetup
    /\ provisioned = None
    /\ stuck = FALSE
    /\ proc = NewProcess
    /\ binaries = {}
    /\ models = {}
    /\ selected = None

-----------------------------------------------------------------------------
(* The host *)

\* A driver, a tool or a card comes or goes, though not during the minutes of an
\* installation: whatever was provisioned was for the host as it was.
HostChanges ==
    /\ setup.at = "idle"
    /\ machine' \in { m \in Machines : m.os = machine.os /\ m.arch = machine.arch }
    /\ machine' # machine
    /\ provisioned' = None
    /\ UNCHANGED <<pip, ort, setup, stuck, proc, llm>>

ModelsChange ==
    /\ models' \in SUBSET Models
    /\ models' # models
    /\ UNCHANGED <<machine, environment, proc, binaries, selected>>

PlaceByHand(p) ==
    /\ p \in Manual
    /\ <<p[1], p[2]>> = <<machine.os, machine.arch>>
    /\ binaries' = binaries \cup {p}
    /\ UNCHANGED <<machine, environment, proc, models, selected>>

-----------------------------------------------------------------------------
(* The long-lived process *)

Restart ==
    /\ proc' = NewProcess
    /\ UNCHANGED <<machine, environment, llm>>

\* collect_inventory and collect_preflight_tokens as resolving calls them.
Resolved(refresh, raising) ==
    IF proc.cached /\ ~refresh THEN proc
    ELSE LET inv == Inventory(machine, raising)
         IN [cached |-> TRUE, inv |-> inv, tokens |-> Tokens(inv, proc),
             modules |-> Imported(proc), ort |-> LoadedOrt(proc)]

HardwareProfiler(refresh, raising) ==
    /\ proc' = Resolved(refresh, raising)
    /\ UNCHANGED <<machine, environment, llm>>

\* op_llm_acquire: the profile's artifact, the CPU one where that is manual.
ToAcquire(profile) ==
    IF profile \in Manual /\ CpuFallback(profile) \notin Manual
    THEN CpuFallback(profile) ELSE profile

\* A download, an archive without the binary or a copy that fails leaves the
\* directory as it was, or with a binary that counts as present.
AcquireBinary ==
    /\ proc.cached
    /\ LET p == ToAcquire(ProfileOf(proc.inv, proc.tokens)) IN
         /\ ArtifactFor(p) # "none" /\ p \notin Manual
         /\ binaries' = binaries \cup {p}
    /\ UNCHANGED <<machine, environment, proc, models, selected>>

Select(m) ==
    /\ m \in models
    /\ selected' = m
    /\ UNCHANGED <<machine, environment, proc, binaries, models>>

-----------------------------------------------------------------------------
(* awf-setup --install *)

StartInstall(raising) ==
    /\ setup.at = "idle"
    /\ setup' = [at |-> "install", extra |-> Extra(Inventory(machine, raising))]
    /\ provisioned' = None
    /\ UNCHANGED <<machine, pip, ort, stuck, proc, llm>>

\* Wheels that are unpacked now overwrite each other in any order.
Unpack(old, brought) ==
    LET new == (brought \ old) \cap OrtDistributions IN
    /\ pip' = old \cup brought
    /\ ort' \in IF new = {} THEN {ort} ELSE new

\* A pip command fails.  On Linux openwakeword is uninstalled first, and installed
\* last, when everything else may be there already.
InstallFails ==
    /\ setup.at = "install"
    /\ IF machine.os = "linux"
       THEN \E brought \in {{}, Brought(setup.extra, machine.arch) \ {"wake"}} :
                Unpack(pip \ {"wake"}, brought)
       ELSE UNCHANGED <<pip, ort>>
    /\ setup' = NoSetup
    /\ UNCHANGED <<machine, provisioned, stuck, proc, llm>>

InstallPackages ==
    /\ setup.at = "install"
    /\ Unpack(pip, Brought(setup.extra, machine.arch))
    /\ IF TargetPackage(setup.extra) = None
       THEN setup' = NoSetup /\ provisioned' = setup.extra
       ELSE setup' = [setup EXCEPT !.at = "uninstall"] /\ UNCHANGED provisioned
    /\ UNCHANGED <<machine, stuck, proc, llm>>

\* Uninstalling a wheel takes the shared files with it; one that cannot be
\* uninstalled stays, which nobody looks at.
UninstallLosers ==
    LET losers == pip \cap (OrtDistributions \ {TargetPackage(setup.extra)}) IN
    /\ setup.at = "uninstall"
    /\ \E gone \in SUBSET losers :
         /\ pip' = pip \ gone
         /\ ort' = IF gone = {} THEN ort ELSE "none"
         /\ stuck' = (stuck \/ gone # losers)
    /\ setup' = [setup EXCEPT !.at = "reinstall"]
    /\ UNCHANGED <<machine, provisioned, proc, llm>>

ForceReinstall ==
    /\ setup.at = "reinstall"
    /\ pip' = pip \cup {TargetPackage(setup.extra)}
    /\ ort' = TargetPackage(setup.extra)
    /\ setup' = NoSetup
    /\ provisioned' = setup.extra
    /\ stuck' = FALSE
    /\ UNCHANGED <<machine, proc, llm>>

\* A death, or a reinstallation that fails.
SetupDies ==
    /\ setup.at # "idle"
    /\ setup' = NoSetup
    /\ UNCHANGED <<machine, pip, ort, provisioned, stuck, proc, llm>>

-----------------------------------------------------------------------------

HostNext ==
    \/ HostChanges \/ ModelsChange \/ Restart
    \/ \E p \in CanonicalProfiles : PlaceByHand(p)
    \/ \E refresh \in BOOLEAN, raising \in Faults :
            HardwareProfiler(refresh, raising)
    \/ AcquireBinary
    \/ \E m \in Models : Select(m)
    \/ \E raising \in Faults : StartInstall(raising)
    \/ InstallFails \/ InstallPackages \/ UninstallLosers \/ ForceReinstall \/ SetupDies

HostSpec == HostInit /\ [][HostNext]_hostVars

-----------------------------------------------------------------------------
(* Properties *)

\* What is provisioned, found and granted on one host stays within the twelve
\* profiles that the servers' artifacts, the voice manifests and the reports
\* are keyed by (provisioning.py, preflight.py, readiness.py, profiler.py).
ProfileIsCanonical ==
    proc.cached => ProfileOf(proc.inv, proc.tokens) \in CanonicalProfiles

\* An LLM reported ready can be started: a start that resolves the artifact in
\* its own way, with another fallback and another choice of model, finds a
\* binary and a model, however old the process's view of the host is
\* (derive_llm_readiness; select_managed_llm_artifact, op_llm_serve).
ReadyStarts ==
    proc.cached /\ LlmReady(proc.inv, proc.tokens)
        => /\ BinaryPresent(StartsArtifact(ProfileOf(proc.inv, proc.tokens)))
           /\ models # {}

\* When awf-setup has finished, after whatever installations failed or died
\* before it, a new process gets the device the extra was chosen for; where that
\* needs no wheel of its own, unless a wheel that could not be uninstalled is on
\* record without its files (cmd_install; derive_stt_readiness,
\* derive_tts_readiness).
ProvisionReachesDevice ==
    LET inv == Inventory(machine, {})
        tokens == Tokens(inv, NewProcess)
    IN /\ provisioned = "cuda" => TtsDevice(inv, tokens) = "cuda"
       /\ provisioned = "directml" => TtsDevice(inv, tokens) = "directml"
       /\ provisioned = "qnn" /\ machine.htp /\ ~stuck => SttDevice(inv, tokens) = "qnn"
       /\ provisioned # None /\ ~stuck => <<"import", "kokoro_onnx">> \in tokens

=============================================================================
