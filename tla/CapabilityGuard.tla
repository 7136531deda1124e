--------------------------- MODULE CapabilityGuard ---------------------------
(***************************************************************************)
(* What the Capability Guard decides (guard/capability_guard.py), what     *)
(* voice may decide (approval_policy.py, ops/approval.py), and which MCP   *)
(* servers and skills reach an agent (engine/agent_step.py).  All of it is *)
(* a function of the records it is given: a capability is a record         *)
(*   [ref, type, provider, operation, risk, approval].                     *)
(***************************************************************************)
Risks == {"R0", "R1", "R2", "R3"}
Roles == {"builder", "verifier", "adversary"}
WriteOperations == {"create", "update", "delete"}

Writes(c) == c.operation \in WriteOperations

\* evaluate: the reasons to deny, whatever the approval mode says.
Denied(c, allowlist, role) ==
    \/ c.ref \notin allowlist
    \/ role = "verifier" /\ Writes(c) /\ c.risk # "R0"
    \/ role = "adversary" /\ Writes(c)
    \/ c.risk = "R3"

\* A role that does not exist raises, but only past the allow-list.
UnknownRole(c, allowlist, role) ==
    /\ c.ref \in allowlist
    /\ role \notin Roles \union {"none"}

NeedsNoApproval(c) == c.risk = "R0" \/ c.approval = "never"

Evaluate(c, allowlist, role) ==
    CASE UnknownRole(c, allowlist, role) -> "raise"
      [] Denied(c, allowlist, role) /\ ~UnknownRole(c, allowlist, role) -> "deny"
      [] OTHER -> IF NeedsNoApproval(c) THEN "allow" ELSE "approval_required"

\* What stands in for a node that declares no capability.
SynthesizedCapability(ref, operation) ==
    [ref |-> ref, type |-> "synthesized", provider |-> "awf",
     operation |-> operation, risk |-> "R1", approval |-> "never"]

\* The allow-list of an agent: its manifest's capabilities when it has any,
\* else just the capability at hand.
AgentAllowlist(manifest, c) == IF manifest = {} THEN {c.ref} ELSE manifest

-----------------------------------------------------------------------------
(* Voice *)

HighRisk == {"R2", "R3"}

VoiceMayDecide(risk) == risk \notin HighRisk

\* op_approval_approve on the voice channel.  A claim that differs from the
\* recorded class raises; without either the class is taken to be R2.
VoiceOutcome(claim, stored) ==
    IF claim # "none" /\ stored # "none" /\ claim # stored THEN "raise"
    ELSE LET effective == IF claim # "none" THEN claim
                          ELSE IF stored # "none" THEN stored ELSE "R2"
         IN  IF VoiceMayDecide(effective) THEN "approve" ELSE "on_screen"

-----------------------------------------------------------------------------
(* What reaches an agent: a reference is a record                          *)
(*   [ref, found, source, trust], trust being "none" when there is no row  *)
(* of registry_index; an MCP server has tools, a set of names.             *)

\* _is_trusted
Trusted(r) == r.source # "data" \/ r.trust \notin {"quarantined", "blocked"}

\* _allowed_mcp_tools: recordOf gives the latest capability record of a tool.
ToolAllowed(tool, server, recordOf, allowed) ==
    /\ tool \in DOMAIN recordOf
    /\ recordOf[tool].ref \in allowed
    /\ recordOf[tool].type = "mcp-tool"
    /\ recordOf[tool].provider = server

\* _resolve_mcp_servers: a server with a tool that is not allowed is left out
\* as a whole.
ServedServers(refs, recordOf, allowed) ==
    {r \in refs :
        /\ r.found
        /\ Trusted(r)
        /\ \A t \in r.tools : ToolAllowed(t, r.server, recordOf, allowed)}

\* _apply_mcp: only an adapter with a pre-tool hook may have MCP servers.
GuardedAdapters == {"copilot"}
McpOutcome(adapter, refs, recordOf, allowed) ==
    IF refs = {} THEN "none"
    ELSE IF adapter \notin GuardedAdapters THEN "raise"
    ELSE IF ServedServers(refs, recordOf, allowed) = {} THEN "none" ELSE "served"

\* _resolve_skills: one that cannot be found raises.
ServedSkills(refs) == {r \in refs : Trusted(r)}
SkillsRaise(refs) == \E r \in refs : ~r.found

\* The Copilot hook: an unmapped tool is denied, the rest is the Guard's.
HookDecision(tool, capabilityOf, allowlist, role) ==
    IF tool \in DOMAIN capabilityOf
       /\ Evaluate(capabilityOf[tool], allowlist, role) = "allow"
    THEN "allow" ELSE "deny"
=============================================================================
