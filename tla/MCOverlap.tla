----------------------------- MODULE MCOverlap -----------------------------
(* Two engines on one run, as when a resume overlaps the process that started *)
(* it: build -> sign (an approval node).                                      *)
EXTENDS DurableRun

CONSTANTS build, sign

MCNodes == {build, sign}
MCKind == [n \in MCNodes |-> IF n = sign THEN "approval" ELSE "work"]
MCNext == [n \in MCNodes |-> IF n = build THEN sign ELSE NoNode]
MCOnFail == [n \in MCNodes |-> NoNode]
MCRetries == [n \in MCNodes |-> 0]
MCFailures == {"INTERNAL", "APPROVAL_REJECTED"}
=============================================================================
