--------------------------- MODULE MCInstallation ---------------------------
(***************************************************************************)
(* Two parts that share no state: the registry, with the objects of        *)
(* MCRegistryCatalog, and the host with what awf-setup and operators have  *)
(* put on it.  Each behaviour is one of one part, the subject, while the   *)
(* other stays at an initial state of its own.                             *)
(*                                                                         *)
(* Machines: workstations, laptops and servers, with and without the       *)
(* drivers of their accelerator.                                           *)
(***************************************************************************)
EXTENDS MCRegistryCatalog, HostReadiness

VARIABLE subject

Machine(os, arch) ==
    [os |-> os, arch |-> arch, tools |-> {}, adapters |-> <<>>, opencl |-> "none",
     npu |-> "none", nvcc |-> FALSE, vulkan |-> FALSE, htp |-> FALSE]

MCMachines ==
    { [Machine("linux", "x64") EXCEPT !.adapters = <<"nvidia">>],
      [Machine("linux", "x64") EXCEPT !.tools = {"nvidia"}, !.vulkan = TRUE],
      [Machine("linux", "arm64") EXCEPT !.tools = {"nvidia"}, !.nvcc = TRUE],
      [Machine("linux", "arm64") EXCEPT !.opencl = "qualcomm", !.npu = "qualcomm", !.htp = TRUE],
      [Machine("windows", "x64") EXCEPT !.adapters = <<"unknown", "intel">>, !.npu = "intel"],
      [Machine("windows", "x64") EXCEPT !.adapters = <<"intel">>, !.tools = {"nvidia"}],
      [Machine("windows", "arm64") EXCEPT !.adapters = <<"qualcomm">>, !.opencl = "other",
                                          !.npu = "qualcomm", !.htp = TRUE],
      [Machine("windows", "arm64") EXCEPT !.adapters = <<"amd">>] }

MCFaults == { {}, {"cpu"}, {"gpu", "npu"} }

\* config/app_registry/llm-servers/default/1.0.0.yaml
MCAccelerator ==
    [p \in CanonicalProfiles |->
        CASE p[3] = "cpu" -> "cpu"
          [] p[3] = "cuda" -> "gpu.cuda"
          [] p[3] = "qnn" -> "npu.qnn"
          [] p = <<"windows", "arm64", "gpu">> -> "gpu.opencl.adreno"
          [] OTHER -> "gpu.vulkan"]

MCManual == { <<"linux", "x64", "cuda">>, <<"linux", "arm64", "qnn">>,
              <<"windows", "arm64", "gpu">>, <<"windows", "arm64", "qnn">> }

-----------------------------------------------------------------------------
(* One part at a time *)

AnyMachine == CHOOSE m \in Machines : TRUE

installationVars == <<vars, hostVars, subject>>

InstallationInit ==
    /\ Init /\ HostInit
    /\ subject \in {"registry", "host"}
    /\ subject # "host" => machine = AnyMachine

InstallationNext ==
    \/ /\ subject = "registry"
       /\ Next
       /\ UNCHANGED <<hostVars, subject>>
    \/ /\ subject = "host"
       /\ HostNext
       /\ UNCHANGED <<vars, subject>>

InstallationSpec == InstallationInit /\ [][InstallationNext]_installationVars
=============================================================================
