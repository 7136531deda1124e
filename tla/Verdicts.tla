------------------------------ MODULE Verdicts ------------------------------
(***************************************************************************)
(* How a gate comes to its verdict (gates/gate_node.py, verdict.py,        *)
(* verifier.py, adversary.py) and with which tier and which check          *)
(* (ops/run_execution.py).  A node is a record with at least               *)
(*   [type, tier, risk, bypassed, capability, check, judge, attacker],     *)
(* "none" standing for a field that is not declared.                       *)
(***************************************************************************)
LOCAL INSTANCE Integers
LOCAL INSTANCE Sequences

FailingSeverities == {"high", "critical"}
HighRiskClasses == {"R2", "R3"}

Finding(role, category, severity) ==
    [role |-> role, category |-> category, severity |-> severity]

\* A check or a review that does not pass is a high finding.
SeverityOf(passed) == IF passed THEN "low" ELSE "high"

-----------------------------------------------------------------------------
(* The tier *)

\* _high_risk_reason_for_node; a capability that does not resolve counts for
\* nothing.
HighRiskNode(n) ==
    \/ n.bypassed
    \/ n.risk \in HighRiskClasses
    \/ n.capability.risk \in HighRiskClasses
    \/ n.capability.approval = "per-invocation"

\* _effective_gate_tier: the nodes listed before the gate count, in whatever
\* order they are walked.
EffectiveTier(nodes, i) ==
    IF nodes[i].tier = "high-risk" \/ \E j \in 1..i : HighRiskNode(nodes[j])
    THEN "high-risk" ELSE "default"

\* _build_node_executors registers one executor for all gates: each gate of
\* the workflow overwrites the one before.
GateIndexes(nodes) == {i \in 1..Len(nodes) : nodes[i].type = "gate"}
RegisteredGate(nodes) ==
    CHOOSE i \in GateIndexes(nodes) : \A j \in GateIndexes(nodes) : j <= i

-----------------------------------------------------------------------------
(* The findings: what is seen is a record of Booleans                       *)
(*   [check, judge, attacker, busy, contaminated]                           *)

\* run_verifier_check and run_llm_review
VerifierFindings(gate, seen) ==
    {Finding("verifier", "correctness", SeverityOf(seen.check))}
    \union {f \in {Finding("verifier", "correctness", SeverityOf(seen.judge))} : gate.judge}

\* check_resource_safety, check_safety_gate_bypass, check_memory_contamination
\* and run_llm_adversary_review: only in the high-risk tier.
AdversaryFindings(gate, seen) ==
    {f \in {Finding("adversary", "resource_safety", "high")} : seen.busy}
    \union {f \in {Finding("adversary", "safety_gate_bypass", "critical")} : gate.bypassed}
    \union {f \in {Finding("adversary", "memory_contamination", "high")} : seen.contaminated}
    \union {f \in {Finding("adversary", "other", SeverityOf(seen.attacker))} : gate.attacker}

FindingsOf(gate, tier, seen) ==
    VerifierFindings(gate, seen)
    \union (IF tier = "high-risk" THEN AdversaryFindings(gate, seen) ELSE {})

\* build_verdict
VerdictPasses(findings) == \A f \in findings : f.severity \notin FailingSeverities

\* A bypassed Guard fails the run whatever repairs are left.
TerminalFailure(findings) ==
    \E f \in findings : f.role = "adversary" /\ f.category = "safety_gate_bypass"
=============================================================================
