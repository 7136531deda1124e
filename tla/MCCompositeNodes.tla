--------------------------- MODULE MCCompositeNodes ---------------------------
(***************************************************************************)
(* Small workflows: one of each composite node, with an agent before or     *)
(* after it so that a crash may fall between nodes.                         *)
(***************************************************************************)
EXTENDS CompositeNodes

NoCapability == [risk |-> "none", approval |-> "none"]

Node == [type |-> "agent", ref |-> "none", items |-> 0, max |-> 0,
         concurrency |-> 1, tier |-> "none", risk |-> "none",
         bypassed |-> FALSE, capability |-> NoCapability,
         judge |-> FALSE, attacker |-> FALSE]

Agent == Node
Sub(ref) == [Node EXCEPT !.type = "subworkflow", !.ref = ref]
Loop(ref, max) == [Node EXCEPT !.type = "loop", !.ref = ref, !.max = max]
Handoff(max) == [Node EXCEPT !.type = "handoff", !.max = max]
Map(ref, items, max, concurrency) ==
    [Node EXCEPT !.type = "map", !.ref = ref, !.items = items, !.max = max,
                 !.concurrency = concurrency]
Gate == [Node EXCEPT !.type = "gate", !.judge = TRUE]
HighRiskGate == [Gate EXCEPT !.tier = "high-risk", !.attacker = TRUE]

MCWorkflows ==
    [leaf |-> <<Agent>>,
     cycle |-> <<Loop("leaf", 1)>>,
     pooled |-> <<Map("leaf", 2, 2, 2), Agent>>,
     queued |-> <<Map("leaf", 2, 2, 1)>>,
     crowded |-> <<Map("leaf", 2, 1, 1)>>,
     looped |-> <<Loop("leaf", 2), Agent>>,
     nested |-> <<Sub("cycle"), Sub("leaf")>>,
     submap |-> <<Sub("queued")>>,
     handed |-> <<Handoff(2), Agent>>,
     gated |-> <<[Agent EXCEPT !.capability = [risk |-> "R2", approval |-> "never"]],
                 HighRiskGate>>,
     mapmap |-> <<Map("queued", 1, 1, 1)>>]
=============================================================================
