---------------------------- MODULE MCDurableRun ----------------------------
(* build -> check (a gate that repairs by going back to build) -> publish (a *)
(* machine activity), with one retry of a transient failure for build and    *)
(* publish; MCGateRetry.cfg gives the retry, of an unclassified failure, to  *)
(* the gate instead.                                                         *)
EXTENDS DurableRun

CONSTANTS build, check, publish

MCNodes == {build, check, publish}
MCKind == [n \in MCNodes |-> CASE n = build -> "work"
                               [] n = check -> "gate"
                               [] n = publish -> "machine"]
MCNext == [n \in MCNodes |-> CASE n = build -> check
                               [] n = check -> publish
                               [] n = publish -> NoNode]
MCOnFail == [n \in MCNodes |-> IF n = check THEN build ELSE NoNode]
MCRetries == [n \in MCNodes |-> IF n = check THEN 0 ELSE 1]
MCGateRetries == [n \in MCNodes |-> IF n = check THEN 1 ELSE 0]
MCFailures == {"TRANSIENT", "INTERNAL", "APPROVAL_REJECTED"}
MCRetryOn == {"TRANSIENT"}

ASSUME RepairsLeadBack
=============================================================================
