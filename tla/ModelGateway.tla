---------------------------- MODULE ModelGateway ----------------------------
(***************************************************************************)
(* The Model Gateway (gateway/client.py): which candidates of a model      *)
(* profile a completion calls.  A candidate is a record of its provider, of *)
(* its address (a loopback one, another, or none) and of whether it names   *)
(* an API key; candidates are given enabled and in the order of priority.   *)
(***************************************************************************)
EXTENDS CapabilityGuard, Naturals

LlmComplete ==
    [ref |-> "llm_complete@1.0.0", type |-> "activity", provider |-> "awf",
     operation |-> "read", risk |-> "R1", approval |-> "never"]
HostedLlmComplete ==
    [ref |-> "hosted_llm_complete@1.0.0", type |-> "activity", provider |-> "awf",
     operation |-> "read", risk |-> "R2", approval |-> "per-invocation"]

Candidate == [provider : {"ollama", "openai", "other"},
              address : {"loopback", "elsewhere", "none"}, secret : BOOLEAN]

\* _is_local_candidate: an Ollama is local whatever its address.
Local(candidate) == candidate.provider = "ollama" \/ candidate.address = "loopback"

\* Mutant: one capability covers every completion.
AnyCompletion(candidate) == LlmComplete

CompletionCapability(candidate) == IF Local(candidate) THEN LlmComplete ELSE HostedLlmComplete

\* Without a run only a local candidate goes unasked; with one the Guard
\* decides, and an approval nobody can give here is a refusal.
Authorized(candidate, inRun, allowlist) ==
    IF inRun
    THEN Evaluate(CompletionCapability(candidate), allowlist, "none") = "allow"
    ELSE Local(candidate)

\* A refusal, or a key that cannot be had, raises past the loop.
Passes(candidate, inRun, allowlist, keys) ==
    Authorized(candidate, inRun, allowlist) /\ (candidate.secret => keys)

\* The candidates whose turn can come.
Reachable(profile, inRun, allowlist, keys) ==
    { i \in DOMAIN profile.candidates :
        /\ i = 1 \/ profile.fallback = "ordered"
        /\ \A j \in 1..i : Passes(profile.candidates[j], inRun, allowlist, keys) }

\* complete, complete_structured: one of them answers after those before it
\* have failed, or the call fails.
Completions(profile, inRun, allowlist, keys) ==
    LET turn == Reachable(profile, inRun, allowlist, keys)
        Calls(s) == { profile.candidates[j] : j \in s }
    IN  { [called |-> Calls(1..i), answered |-> TRUE] : i \in turn }
        \cup { [called |-> Calls(turn), answered |-> FALSE] }
=============================================================================
