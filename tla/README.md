# A verification project for AWF

AWF (`src/backend/src/awf`) runs workflows: a graph of agent, activity, gate,
approval and composite nodes, walked by an engine that keeps a run's state in a
SQLite database so that a crash can be followed by a resume. Approvals bind
operators into the walk, a capability guard bounds what a step may do, and
around the engine stand a registry of workflow definitions, an authoring and
an improvement pipeline, a model gateway, a supervised local model server (the
sidecar) and a voice front end.

This directory holds TLA+ modules for that system, the TLC configurations that
check them, and proofs that TLAPS checks. Paths below are relative to
`src/backend/src/awf` unless they start with `docs/`.

    tlc -config MCDurableRun.cfg MCDurableRun       # one file per run, see the tables
    tlapm DurableRunProofs.tla                      # one file per component, see section 13

Runs take from seconds to about two minutes with two workers, proofs about a minute a module.

## 1. Inventory

| Component | State it keeps | Operations | What is hard about it | What makes it correct |
|---|---|---|---|---|
| **Durable run engine** `engine/`, `workflow/engine.py`, `ops/run.py` | rows of `runs`, `steps`, `events`; the run's worktree; per process: current node, attempt counts, retries, repairs | start, walk, step, retry, repair, resume, report, clean up | crash between any two commits; re-walk after a resume; a resume beside a live engine | nothing done is done again or lost; SUCCEEDED is justified by the rows; budgets survive crashes |
| **Approval node and decisions** `workflow/approval.py`, `ops/approval.py` | rows of `approvals` | request, poll on re-walk, grant, reject; approve, reject by an operator (also by voice) | decisions race with the walk and with each other | no run succeeds without its approvals; what a decision allows is only what it was about; no R2+ approval by voice alone |
| **Gates and verdicts** `gates/` | findings and verdict artifacts | run checks, build a verdict | high-risk tier, terminal failures | a blocking finding never passes |
| **Governed steps** `engine/agent_step.py`, `machine/` | approvals of a step, its commit in the worktree | authorize, wait, execute, retry | the engine's retry meets the step's own failure handling | an action runs at most as often as it was approved |
| **Composite nodes** `workflow/{subworkflow,map_node,loop_node,handoff}.py`, `ops/run_execution.py` | child runs, map item worktrees, hop and iteration records | run a child, map concurrently, loop, hand off | a child pauses or crashes under its parent | a parent succeeds only with its children |
| **Capability guard** `guard/`, `approval_policy.py` | none (an event per decision) | authorize | precedence of deny, approval, allow-list | never more than the allow-list and the record grant |
| **Improvement proposals** `improvement/` | rows of `improvement_proposals`, a git branch | prepare, mark ready, request merge, merge, reject | check-then-update; crash inside the merge | only what was verified and approved is merged, once |
| **Workflow authoring, registry** `authoring/`, `registry/` | proposals, published files, `registry_index` | propose, update, verify, publish, reject; index, trust, resolve | check-then-update; file and row written apart | what is published is what was verified |
| **Host** `hardware/`, `setup.py`, `llm/{artifacts,selector,discovery}.py` | cached inventory and tokens, pip's records, binaries, models, the selected model | detect, provision, acquire, select, report readiness | probes that raise, installations that die, caches older than the host | what is reported ready works; an installation reaches the device it was for |
| **LLM sidecar** `llm/sidecar.py` | state file, process, cached status | start, adopt, stop, status | several processes; stale state | nothing but AWF's own server is signalled, none of them is lost, every call returns |
| **Voice session, intents** `speech/session.py`, `ops/voice.py`, `cognition/router.py`, `ops/intent.py` | session state and transcript, as entries of an active session | frames, events, turns, typed requests, close | clients that interleave; expiry; two commits per transition | what was said is on record before it is acted on; the event trail follows the state |
| **Speech models** `speech/models.py`, `speech/stt_onnx.py` | files under `models/` | sync, verify, transcribe | downloads that die; clean-up of another device's model | no download is torn; what a sync acquired stays |
| **Memory** `memory/`, `ops/memory.py` | semantic memories (registry objects), active sessions | propose, publish, reject, block, search, append, summarize | check-then-update, expiry | nothing blocked is served, nothing is added to an expired session |
| **Model gateway** `gateway/client.py` | none | authorize, try candidates in order | fallback from a local to a hosted model | no hosted model is asked without authority |
| **Adapters** `adapters/`, **server, CLI, secrets** | a connection per request | dispatch, call a CLI | | I/O |

Components interact through the database above all: the engine, the operator's
commands and the voice front end never call each other, they read and write
`runs`, `steps` and `approvals`. The JSON-RPC server is a sequential loop, but a
run started with `async_execution` continues on a background thread with its
own connection, so the next request (`awf/run.resume`, for one) runs beside it.

`PROJECT.json` lists each component with its status, and each hazard at its
line of code.

## 2. Plan

| Modules | Abstract specification | Runs | Theorems |
|---|---|---|---|
| `DurableRun` | `RunLifecycle` | one engine over crashes; two engines overlapping; a machine activity that is retried | done: every invariant and action property, the refinement |
| `ImprovementProposal` | | two callers, amended candidates, crashes in the merge; a checkout during a review | done: every invariant |
| `GovernedSteps` over `CapabilityGuard` | the Guard's decision as an operator | one agent step or machine activity, retries, crashes, operators, edits | done: every invariant |
| `CompositeNodes` over `Verdicts` | | one workflow per node type, crashes and scans; maps in maps | done: every invariant, and that map items take turns |
| `RegistryCatalog` | | two callers, edits, a crash; an update inside a publish | done: every invariant |
| `LlmSidecar` | | two processes, two servers | done: both invariants |
| `VoiceConversation` over `ModelGateway` | | two clients | done: every safety property |
| `VoiceModels` | | three devices | done: both invariants |
| `HostReadiness` | | eight hosts | done: every invariant |

All modules of the plan are written.

Parts that share no state are checked in one run where they are small: `MCParts` is the
voice models, the governed steps and two processes around the model server, `MCInstallation`
the registry and the host. The variable `subject` says which of the parts a behaviour is about; the
others stay at an initial state of theirs. A property of a part that is not the subject holds of
that one state, so a run of several parts shows of each what a run of its own would. Some parts end
where others go on for ever, which is why these runs say `CHECK_DEADLOCK FALSE`.

Modules are written so that both tools can use them: parameters are CONSTANTS
with named assumptions, there is one action per commit or per read, invariants
are conjunctions of named parts, and nothing is declared RECURSIVE.

## 3. The durable run (`DurableRun.tla`)

### Correspondence

The variables are the database rows and what an engine process keeps in its
local variables.

| Variable | In the code |
|---|---|
| `run`, `result` | `runs.status`, and the status inside `runs.output_json` |
| `step`, `output` | `steps.status` and `steps.output_json`, per step id `<run>:<node>#<attempt>`; `"absent"` when there is no row |
| `refs` | the step ids a row of `events` or `approvals` references: `db/connection.py:10` enforces foreign keys and no reference cascades |
| `approval` | `approvals.status` of the oldest approval of the step |
| `worktree` | the run's directory |
| `pc` | where an engine is between two transactions |
| `node`, `attempts`, `retries`, `repairs` | `current_id`, `attempt_counts`, `retries_attempted`, `repairs_used` of `run_workflow_definition` |
| `val` | the output, the failure class or the result the engine is handling |
| `purge` | the nodes `reset_interrupted_node_steps` has selected |
| `worker` | the engines that are the thread of an asynchronous start |
| `deciding` | decisions whose SELECT has been done and whose UPDATE has not |

An action is one committed transaction, or one SELECT whose result is used by a
later statement. Two consecutive commits are one action only where nothing can
tell the difference, and the module says so there (the event that follows a
step's result adds no reference the step did not have).

| Action | Code |
|---|---|
| `CreateRun`, `CreateWorktree` | `op_run_start` |
| `ResumeScan`, `ResumeReset`, `ResumeResetRaises` | `op_run_resume`, `scan_incomplete_runs`, `reset_interrupted_node_steps`: the SELECTs; the DELETEs, or the IntegrityError that rolls them back |
| `Begin`, `Visit` | `run_workflow_definition`: RUNNING, then the next attempt and `create_step` |
| `ReadCached`, `ReadFresh`, `RowGone`, `MarkRunning`, `StepStarted`, `InvokeReturns`, `InvokeRaises`, `PersistSuccess`, `PersistFailure` | `run_step`; for a node of kind `machine`, `run_machine_activity`, with `ActionRefused` |
| `ReadApproval`, `RequestApproval`, `RejectApproval`, `GrantApproval` | `make_approval_node_executor` |
| `Retry`, `Abort`, `Advance`, `ReachEnd`, `GateRepairs`, `GateFailsRun`, `SucceedRun`, `RejectOutputs` | the rest of the loop of `run_workflow_definition` |
| `Report`, `Cleanup` | `_execute_run` / `op_run_resume`: `output_json`, `_cleanup_run_workspace` |
| `CheckPending`, `WriteDecision` | `_decide_approval` |
| `CallRaises` | an exception of `op_run_start` or `op_run_resume` outside the walk, and what the background thread does on it |
| `Crash` | the death of a process between two of its steps |

Nodes are of four kinds. `machine` are the activities that keep their step themselves
(`machine/activities.py`): they ask the Guard before they mark the step RUNNING, and when they
fail they set *the run* FAILED in the commit that fails the step (355-362), although the
engine may then retry the step (`workflow/engine.py:365`). So a walk goes on from a FAILED run, and
`PersistFailure` says so. The thread of an asynchronous start sets the run FAILED whatever
status it has, when something outside the walk raises (`ops/run.py:320-328`).

Abstracted: a work node's output is `"ok"`, a gate's is its verdict; backoff has
no duration; the schema check of the outputs at the end may go either way;
payloads and timestamps are left out. A step function returns or raises any of
`FailureClasses`; what it does inside, an approval that an agent or machine step waits for included, is the
subject of later modules (`GovernedSteps`). Between its commits a walk fails in the ways the
actions name: a statement that fails by itself (a locked database, a full disk) is a `Crash`.
Structural errors of a definition (an unknown node type) are not in the model.

`RunLifecycle` is what the run promises to a reader of the database: a record of
completed steps that only grows, and only while a process drives the run and has neither paused it
nor ended it in success; a SUCCEEDED that needs a passing step for every node of the path, and that
only FAILED can follow; a FAILED that is final once nobody drives the run. It promises
neither that SUCCEEDED stays nor that FAILED does, because the code keeps neither
(disagreements 6 and 7).

### Runs

| Run | Instance and bounds | What it shows |
|---|---|---|
| `durable_run` | build → check (gate, repairs through build) → publish (a machine activity); one retry for build and for publish; 1 repair; 2 crashes; 4 attempts per node; one engine | A run reports SUCCEEDED only with every node of its path settled; no walk goes past a node that is not; more failing verdicts than the repair budget never end in SUCCEEDED, though the counter is lost at a crash; a SUCCEEDED run has no step in flight, and a FAILED one only behind a failed machine step; the worktree goes last; completed steps are final; every walk ends; `RunLifecycle` is implemented |
| `overlap` | build → sign (approval); 2 engines, 1 operator, 1 crash, 1 attempt per node | What survives two engines on one run: no run succeeds unapproved, no referenced row disappears |
| `resume_clears` | as `durable_run` | *violated*: a resume cannot clear an interrupted attempt |
| `retried_machine` | as `durable_run` | *violated*: a FAILED run does not stay FAILED |

Bounds. Two crashes let a run crash, be resumed and crash again in the re-walk;
the walk itself is the longest with one repair and one retry, which takes build
to attempt 4 (first try and retry, twice), so `MaxAttempts = 4` never stops a
walk: `EveryWalkEnds` would fail if it did. In `overlap` two engines interleave
at every commit; one crash and one attempt keep that exhaustive. What takes a sole engine or
one operator is said below: the properties of `durable_run` do not hold of two engines
(disagreement 3), and `SucceededRunWasApproved` not of two operators (4).
`CHECK_DEADLOCK FALSE` because a terminal run with no engine on it is the end.

Fairness. `WF_vars(EngineStep(e))` only: a process that lives goes on, since every
step function is bounded by a timeout (adapters, commands, gateway). Resumes,
operators' decisions and crashes have no fairness; nothing in the code forces them.

### Disagreements between the code and what it says

1. *A crashed run cannot be resumed* (`resume_clears`). ADR-0030 promises that a
   resume purges the attempts that were in flight. `run_step` writes its
   `step_started` event, which references the step, before it invokes it, so the
   DELETE of `engine/recovery.py:36` violates the foreign key and raises. The same
   holds for a run that waits for an approval, and it ends the scan for the
   runs after it. A crash *between* steps is resumed as documented.
2. *Finished work is done again.* Where attempt 1 failed and attempt 2
   succeeded, a re-walk starts at attempt 1 and invokes it again.
3. *A resume takes up a run that is alive*: of two engines on one run, one may
   mark a step RUNNING that the other has just completed, and execute it again.
4. *Two decisions on one approval*: the last one wins, also after the first was
   acted on.

5. *A gate that is retried loses its repair budget.* The engine applies a retry policy
   to gates too (`workflow/engine.py:340-395`), a gate's unclassified exception is
   INTERNAL (`engine/executor.py:62`), and a policy may name that class
   (`workflow/definition.py:75-81`). Where attempt 1 of a gate raised and later attempts
   recorded failing verdicts, a resume starts with empty attempt counts and invokes
   attempt 1 again, which may pass: the recorded verdicts are never replayed, and the run
   succeeds with more of them than its budget. `docs/AGENTIC_WORKFLOW_FABRIC_SPEC.md:412`
   has such a run fail. `tlc -config MCGateRetry.cfg MCDurableRun` shows it; `durable_run`
   and the theorem `ExhaustedRepairsFail` are about gates that are not retried.
6. *A FAILED run goes on* (`retried_machine`). A machine activity sets the run FAILED
   before the engine retries the step, so a run goes from FAILED to SUCCEEDED, or to
   WAITING_APPROVAL at an approval node behind it.
   `docs/AGENTIC_WORKFLOW_FABRIC_SPEC.md:420` has no way on from FAILED, and ADR-0033 (line 46)
   lets whoever polls the run stop there. A process that dies before the retry is over
   loses the run for good: no scan takes up a FAILED run.
7. *A SUCCEEDED run becomes FAILED.* Where the report or the clean-up of an asynchronous run
   raises, the thread's handler overwrites SUCCEEDED (`CallRaises`). `RunLifecycle` admits it (`LetGo`).

## 4. Improvement proposals (`ImprovementProposal.tla`)

A run of the self-improvement workflow keeps its worktree. What follows is done
by callers (the CLI, the JSON-RPC server, several processes) and by people: a
proposal is prepared from the worktree's commit, verified, marked ready, asked
about, and merged or rejected.

| Variable | In the code |
|---|---|
| `proposal` | rows of `improvement_proposals`: status, target branch, base and candidate commit, verdict, merge commit |
| `approval`, `mergeStep` | the approvals of the steps `<run>:improvement-merge:<id>`, with the action their digest is computed from, and the status of that step |
| `tested` | the candidate commits of the passing `test-result` artifacts |
| `checkedOut`, `tip`, `log` | the target repository: the branch checked out, each branch's head, the commits each contains |
| `merges` | the merge commits that `git merge --no-ff` has made: what they merged, onto what, into what, for which proposal |
| `worktree`, `head`, `fork` | the candidate: whether the worktree is there, its HEAD, and the target's commit it is built on |
| `pc`, `held` | where a caller is between reading and writing, and the row it has read |

| Action | Code |
|---|---|
| `PrepareRead`, `PrepareWrite` | `prepare`: git and the SELECT; the INSERT or the UPDATE |
| `MarkReadyRead`, `MarkReadyWrite` | `mark_ready` |
| `VerifyRead`, `VerifyRecord` | `verify`, `run_evaluation` |
| `RequestRead`, `RequestCheck`, `RequestWrite` | `request_merge`: the row; `_recheck_identities`, `_test_result_passed`, `create_step`, the SELECT; the INSERT |
| `MergeRead`, `MergeCheck`, `GitMerge`, `GitMergeFails`, `MergeRecord` | `merge`: row and approval; the checks again; `merge_branch`; the two UPDATEs |
| `RejectRead`, `RejectWrite`, `Remove` | `reject`; `remove_worktree`, with which `merge` ends too |
| `CheckRaises` | the exceptions of the checks |
| `Decide` | `_decide_approval` |
| `Crash` | the death of a process between its writes |
| `Amend`, `TargetMoves`, `Checkout` | what people do with git in the worktree and in the target repository |

Abstracted: equal commits have equal diffs and digests; a dirty target tree makes
the checks raise, which they may for other reasons; validation artifacts go with
the verdict; rows of `improvement_proposal_events` are written after the fact and
only displayed. A `Crash` before a call's first write leaves nothing behind, so
only the later ones are actions.

Two constants say what people may do. `Interference`: commit to either tree
between the checks of `merge()` and its record, a window of two statements.
`Switching`: check out another branch once a review has begun. Nothing in the code keeps
them from either. Both are FALSE in `improvement`; `switching` has the second TRUE.

| Run | Instance and bounds | What it shows |
|---|---|---|
| `improvement` | 2 interchangeable callers, 1 proposal, 2 approvals, 2 branches, a passing and a failing verdict, 4 commits (the candidate, and three of amendments, target commits and merges); 4.9 million states | Every merge is of an action that a person approved for that proposal, and of a tested candidate; nobody is asked before a test and a verdict have passed; what is recorded as merged has happened; a proposal is merged once, over crashes and repeated calls |
| `switching` | as `improvement`, 1 approval, 3 commits, with checkouts during the review | *violated*: a merge lands in a branch that nobody approved |

`MergesAreApproved` says what the code gives without any condition: the call holds an approval
of the action it is about to take, and the candidate of that action has been tested. What git
then does with it depends on people: unless somebody commits during `merge()`, it is
the approved candidate, and on the approved commit *if* it goes into the approved
branch. `RecordedMergesHappened` and `MergedAtMostOnce` need that nobody switches branches: git
would merge the candidate a second time into another branch, and a checkout between the merge and
its record has the head of the wrong branch recorded. They say so, and the theorems assume it.

Two callers are enough for every race the code has, since each call reads one
row and writes it once. Two approvals let two requests race. A second merge
needs four commits (candidate, merge, amendment, merge). A second proposal for
the run needs two racing `prepare` calls; it is left to the proofs, which hold for any
number of rows. `CHECK_DEADLOCK FALSE`: a closed proposal is the end.

`switching` is a disagreement with ADR-0022 (line 355), which says that a changed target
branch invalidates the approval. The checks compare the head of the approved
branch by name (`proposals.py:400`); `git merge` goes into whatever is checked out
(`isolation/worktree.py:75`). After a checkout of another branch the checks still pass, the merge lands there,
and the row says merged.

Two limits seen on the way: a
candidate that is prepared again after a request can never be asked about again,
since the step's one approval has another digest; and a death between `git merge`
and its record leaves that candidate unrecorded for ever, since the repeated call
finds that the target has moved.

## 5. Governed steps (`GovernedSteps.tla`, `CapabilityGuard.tla`)

`CapabilityGuard` has the decisions as pure operators: the Guard's precedence of
denials, approvals and allow-lists (`Evaluate`), the synthesized capability of a
node without one, the allow-list of an agent, what a voice may decide, and which
MCP servers, tools and skills reach an agent. `GovernedSteps` is one agent step or
machine activity as the only node of a run, walked with the engine's retries.

| Variable | In the code |
|---|---|
| `world` | what an executor call would find now: capability, manifest, role, target |
| `held` | what the current call has found |
| `run`, `step`, `refs`, `approval` | the rows, per attempt; the approval with the action its digest is computed from and the channel it came by |
| `dirty`, `committed` | the worktree |
| `pc`, `attempt`, `retries`, `failure` | the process that walks |
| `acts` | history: which attempt acted, and what its call had found |

| Action | Code |
|---|---|
| `Start`, `Rewalk`, `Resume` | `op_run_start`; a decision followed by a walk; `op_run_resume` with its reset |
| `Visit`, `AnswersCached`, `CannotResolve`, `Resolves` | the engine's visit and the beginning of `run_agent_step`, `run_machine_activity` |
| `DigestDiffers`, `StillPending`, `Rejected`, `Cleared`, `AsksGuard`, `Proceeds`, `AlreadyAsked`, `AskApproval` | `_authorize_agent_or_wait`, `approved_or_waiting`, `authorize_machine_action` |
| `MarkRunning`, `PreparationFails`, `Perform`, `PersistSuccess`, `Commit`, `CommitRaises`, `MarkFailed` | the action, its rows and the commit, in the order each executor has |
| `Retry`, `FailRun`, `SucceedRun` | the walk's treatment of the result |
| `Approve`, `Reject`, `ApproveByVoice`, `DefinitionsChange`, `Crash` | operators, people who edit definitions, the death of the process |

| Run | Instance and bounds | What it shows |
|---|---|---|
| `parts` | an agent or a machine activity; 8 definitions it may find, of which one needs an approval, one is refused, one does not resolve and so on; 1 retry, 2 crashes, 1 edit, 5 actions | Nothing acts without the Guard's leave or an approval of exactly that action, nor on a voice's approval of a high risk; a machine activity uses its approval once; a SUCCEEDED run acted; worktree and record agree |

Approvals are per attempt, so two attempts (one retry) already show a second
approval; two crashes put one between the approval and the action, and one in the
re-walk. `WorktreeAgrees` makes an exception of a policy that retries INTERNAL: the attempt
after a commit that failed may wait for an approval, and the walk that follows the decision
takes the success on record and never commits it. An agent, unlike a machine activity, acts again on an approval after a
crash; no document promises otherwise, and the property says "machine".

## 6. Composite nodes (`CompositeNodes.tla`, `Verdicts.tla`)

`Verdicts` has the gate: the tier a node calls for, the one gate executor a run
registers, the findings of verifier and adversary, the verdict, and what is a
terminal failure. `CompositeNodes` is a set of runs that start runs.

| Variable | In the code |
|---|---|
| `runs`, `rows`, `hops` | rows of `runs`; of `steps` per node; of `steps` per hand-off hop |
| `trees`, `content`, `file` | worktrees and branches; what each branch has been given, in order; the hand-off's status file |
| `walk` | per run, where its walk is (a caller waits for its child; the items of a map are walked by a pool) |
| `locked` | `_MAP_ITEM_DB_LOCK` |
| `scan` | the runs a resume has still to visit |
| `done` | history: what a node's success rests on |

| Action | Code |
|---|---|
| `StartStep`, `AgentWorks`, `AgentFails`, `GateAnswers`, `EndOfWalk`, `Close` | simple steps, the end of a walk, `_execute_run` |
| `StartSubworkflow`, `SubworkflowReturns`, `ChildDisappoints` | `subworkflow.py`, `run_child` |
| `StartLoop`, `IterationReturns`, `Waits`, `LoopExhausted` | `loop_node.py` |
| `StartMap`, `CannotMap`, `StartItem`, `ItemSetupFails`, `ItemReturns`, `PoolRaises`, `PoolDone`, `MergeItem`, `RemoveItemTrees`, `MapFails`, `MapSucceeds` | `map_node.py`, `run_map_item` |
| `StartHop`, `HopWorks`, `HopFails`, `StatusMissing`, `StatusSaysMore`, `StatusSaysDone`, `HandoffExhausted` | `handoff.py` |
| `Crash`, `StartScan`, `ScanNext`, `ScanRaises` | death; `op_run_resume` over all incomplete runs |

| Run | Instance and bounds | What it shows |
|---|---|---|
| `composite` | eight workflows: maps with 2 workers, 1 worker, more items than allowed, a map in a subworkflow, loops, subworkflows, a hand-off of 2 hops, a high-risk gate; 2 crashes, 3 scans | A SUCCEEDED run has done what its nodes say, its children included, items merged in their order; item worktrees go with their map; every walk ends |
| `nested_map` | a map whose items are a workflow with a map | *violated*: the inner map waits for the lock its own item holds, and the walk never ends |

`CompositeAssumption` says of the workflows what their validation has made sure of before
they run: the nodes are a sequence, the workflows they name exist, the number of items is a
number. Two items are enough for an interleaving and an order of merges; two crashes and
three scans for a crash while a resumed parent waits for its child. Fairness is
`WF_vars(Engine)`: a living process goes on, since adapters and commands have
timeouts. It holds for a pool too, whose threads share the one step that can
always be taken; the deadlock of `nested_map` is a state in which none can.

Items of a map take turns. `map_node.py:7-12` and `run_execution.py:222-227` speak of items that run
concurrently, and a test is named for it (`backend/tests/integration/test_workflow_map_node.py:51`, with items
that are not walked), but the lock at `run_execution.py:239` is held for the whole walk of
an item. That is a limit of the code rather than something it promises, so no run has it as
a property; it is proved (`ItemsAreSequential`) because the other proofs rest on it, and
`nested_map` shows what it leads to.

## 7. Registry and authoring (`RegistryCatalog.tla`)

Files and rows change in separate steps that nothing joins, so each read or
write of either is an action of the caller that makes it. A digest is modelled as
the content it is the digest of.

| Variable | In the code |
|---|---|
| `data`, `rows` | `data/registry`, `registry_index` |
| `proposals`, `drafts` | `registry_proposals`, `data/proposals` |
| `lock` | the write lock of SQLite, held over the many statements of `reindex` |
| `call` | what each caller is in the middle of, and what it has read |
| `ruling`, `named`, `clean` | history: what operators decided; what people published, edited or named the digest of; whether AWF's completed operations alone have touched the tree |

| Actions | Code |
|---|---|
| `StartPublish`, `RemoveDirectory`, `CopyPart`, `WriteObject`, `IndexObject` | `op_registry_publish` |
| `NewDraft`, `StartUpdate`, `WriteDraft`, `UnlinkDraft`, `RecordDraft`, `StartReject`, `RecordRejection` | `author_workflow_draft`, `propose_semantic_memory`, `update_proposal`, `reject_proposal` |
| `StartProposalPublish`, `CheckDraft`, `VerifyDraft`, `ParseDraft`, `ReadDraft`, `MarkPublished` | `op_proposal_publish`, `verify_workflow_proposal`, `mark_published` |
| `SetTrust`; `StartReindex`, `ReindexDigest`, `ReindexUpsert`, `ReindexCommit` | `op_registry_trust`, `op_registry_retire`; `reindex` |
| `StartResolve`, `ResolveRow`, `ResolveDigest`, `Load`; `StartSearch`, `SearchRow`, `Served` | `op_registry_get` with `_verify`; `search_semantic_memories` |
| `Edit`, `EditDraft`, `Crash` | people; the death of a caller |

| Run | Instance and bounds | What it shows |
|---|---|---|
| `installation` | a shipped workflow with two edits, a second version, a skill (a directory), a capability, a memory in two classifications; 2 callers, 1 proposal, 3 operations, and 1 crash or edit | An operator's ruling stands through publishes and rebuilds; nothing blocked is served; only contents somebody has named land, or what slipped into a draft between the check of its digest and the reading of its bytes; index and files agree after operations that followed each other |
| `catalog_overlap` | the workflow and its edits; 3 operations, no crash | *violated*: what is published is not what was reviewed |

`CatalogAssumption` says what contents and rulings are: a content is of one object, and an
operator rules with one of the trust statuses. All operations overlap, writers too: nothing in
the code keeps them apart. Three operations are a proposal, its publish and an update (or a
rebuild, a ruling, a reader) beside it; one mishap is a death inside any of them, or an edit.

`OnlyReviewedLands` makes an exception for `slipped`, and `catalog_overlap` shows why.
`op_proposal_publish` compares the digest (`ops/authoring.py:79`), verifies, and has the file read
again by `op_registry_publish` (90); `update_proposal` takes no lock and writes the draft before its row
(`authoring/workflow.py:263`). An update in between is published under a digest of what was
there before. ADR-0019 says that the diff reviewed is the diff that runs (line 29), and that the
digest is recomputed immediately before publication and a changed draft refused (98-101). Two
publishes at once can leave the file of one and the row of the other, as can a death between the
two, until the next rebuild: `IndexAgrees` is about what no other operation came into (`clean`).

## 8. Host, provisioning and readiness (`HostReadiness.tla`)

A machine is what its probes would find. `Inventory` and `Tokens` follow the order of the
detectors and their fallbacks, a detector that raises included; `ProfileOf`,
`SttDevice`, `TtsDevice` and `LlmReady` are what readiness derives from them.

| Variable | In the code |
|---|---|
| `machine` | the host with its drivers |
| `pip`, `ort` | what pip has on record; whose files are under the import name `onnxruntime`, which three distributions share |
| `setup`, `provisioned`, `stuck` | a running `awf-setup --install`, and the extra of the last complete one; history: is a wheel still there that should be gone |
| `proc` | inventory, tokens and imports a long-lived process has cached |
| `binaries`, `models`, `selected` | `binaries/llama.cpp/<profile>`, `models/llm`, the model of the resident mind |

| Action | Code |
|---|---|
| `HardwareProfiler`, `Restart` | `run_hardware_profiler` with or without a refresh; a new process |
| `StartInstall`, `InstallFails`, `InstallPackages`, `UninstallLosers`, `ForceReinstall`, `SetupDies` | `cmd_install`, one action per pip command |
| `AcquireBinary`, `Select`, `PlaceByHand` | `op_llm_acquire`, `acquire_binary`; `select`; operators |
| `HostChanges`, `ModelsChange` | drivers and files that come and go |

| Run | Instance and bounds | What it shows |
|---|---|---|
| `installation` | eight machines on both systems and architectures; CPU detectors that raise, or GPU and NPU detectors; the artifacts the repository declares; 1 model | Every profile is canonical; what is reported ready can be started, though the start chooses its artifact in its own way; a finished installation reaches the device it was for, but for what a failed uninstallation leaves |

The machines are chosen so that each detector answers first on one of them, and so that
each extra and each kind of artifact is called for. A second model changes nothing but the
ranking, which is not modelled.

`cmd_install` ignores whether `pip uninstall` succeeded (`setup.py:113`), so `UninstallLosers` removes any
subset of the losers, and `stuck` remembers that some stayed. A reinstalled wheel makes that good,
since its files come last. Where the extra needs no wheel of its own (QNN, CPU), a later
uninstallation can leave a wheel on record without its files: `ProvisionReachesDevice` has that
exception. An `InstallFails` on Linux may have installed everything but `openwakeword`, which comes last.

## 9. The model server (`LlmSidecar.tla`)

| Variable | In the code |
|---|---|
| `server` | the process table: who started a server, how far it is |
| `stateFile` | `cache/llm/sidecar.json` |
| `caller` | per process of AWF: where it is in a call, `_SIDECAR_PROCESS`, `_CURRENT_STATUS`, probes made |
| `reported`, `abandoned`, `signalled` | history |

`Adopt`, `FoundNothing`, `CannotLaunch`, `Launch`, `ChildExited`, `ChildStillRuns`,
`BecameReachable`, `NotYetReachable`, `TimedOut` and `Terminated` are `start`;
`StopAdopted`, `StopSignals`, `Stopped` and `NothingToStop` are `stop`; `StatusForgets` is
`status`. A probe may fail although the server serves. Servers load, crash and are
started by operators; processes of AWF end or die anywhere.

| Run | Instance and bounds | What it shows |
|---|---|---|
| `parts` | 2 processes, 2 servers, 2 probes per start | Only AWF's own servers are signalled; none of them runs unknown to everybody; every call returns |

Two servers let one be the operator's, or both AWF's of two overlapping starts.
Fairness is weak, per process, on the steps inside a call (`ContinueCall`): the health loop
has a deadline, `terminate` is followed by `kill`, and nothing in it waits for
others. That a process begins a call has none.

Two assumptions narrow the model. Process ids are not used twice: `stop` signals the pid of the state
file if *some* process has it (`sidecar.py:510`), so after a reuse it would signal a stranger, and
`OnlyOwnSignalled` does not cover that. And every start detaches its server, so
the branch of `stop` for a server that is a child (`sidecar.py:467-506`) is not in the model.

What does *not* hold, and is therefore not a run's property: that a server AWF started
stays stoppable: `EveryServerAccountedFor` is about being known of, and a server that was reported as
running counts as known from then on. A second start adopts it and overwrites its pid in the state file
(`sidecar.py:241-257`), and one failed probe of a `status` in a new process removes the file
(`StatusForgets`). CHANGE_LOG.md:383 says that `awf llm serve start` leaves a stoppable process.

## 10. Voice sessions and the gateway (`VoiceConversation.tla`, `ModelGateway.tla`)

`ModelGateway` has which candidates of a profile a completion may call.
`VoiceConversation` is one voice session as clients drive it.

| Variable | In the code |
|---|---|
| `status`, `due` | `active_sessions.status`; has `expires_at` passed |
| `state`, `untold` | the state of the last `voice_state` entry; entries whose event has not been written |
| `heard`, `answered`, `facts` | the other entries |
| `runs`, `called` | runs started; history: the candidates that were sent a prompt |
| `client` | per client, the frames and other steps its call has still to do, and the state it has read |

`Transitions` is the table of `speech/session.py`. `Event`, `Submit` and `Dispatch` are the
requests; `Read`, `Record` and `Tell` are one frame (`accept_frame` reads, `append_entry`
commits, `_record_transition` writes the event); `Appends`, `StartFails`, `Start`, `Finish`, `Leave`
are the other steps of a turn; `EndsAlone` is a run in a thread of its own; `Expire`, `Show`,
`Summarize` the session's other operations.

| Run | Instance and bounds | What it shows |
|---|---|---|
| `voice` | 2 interchangeable clients, 4 of the frames as events, 2 turns or typed requests, 1 crash; a profile with an Ollama on another host and a hosted model behind it | A run of a turn starts after its words are on record; the event trail lacks only what somebody is writing or died writing; no hosted model is asked; an expired session stays silent |

`VoiceAssumption` is what the profile's schema says of its candidates and fallback, and that
clients are finitely many. Two clients suffice for a state that is old when its entry is written. The four
frames start, break, fail and close a session; a turn sends the rest.

`NoHostedModelAsked` is about which candidates are asked, and not about where they run. The gateway
counts a candidate as local if its provider is `ollama`, whatever its address, or if its address is a loopback one
(`gateway/client.py:67-68`): the words do reach the Ollama on another host that the run's profile lists, and
they do not go on to the hosted model behind it (section 12).

## 11. Speech models (`VoiceModels.tla`)

`Start`, `Present`, `Open`, `Copied` are the file part of `sync_models`; `AcquireSpeech`,
`QnnPresent`, `FetchCt2`, `Ct2Loaded`, `FetchPiece`, `OnnxLoaded` its speech part; `RemoveFile`,
`RemovePart`, `FilesClean`, `RemoveModel`, `SpeechClean` the reconciliation, path by path;
`Fails` an exception or a death anywhere; `Edit` and `PlaceQnn` are people. Variables:
`manifest` and `classes` (the voice manifests), `file`, `parts`, `onnx`, `ct2`, `qnn` (the files under
`models/`), `sync` (the sync that runs), `ready` (history: for which device one last acquired all).

| Run | Instance and bounds | What it shows |
|---|---|---|
| `parts` | 1 file that is downloaded and 1 out of a package, 3 pieces of an ONNX model, 3 devices; the shipped stt manifest, one with a flat path for the CUDA model, and one with a class for the CPU only | A downloaded file is all of what its server sent or absent; a model that was acquired stays, and is found by transcription, until another sync has acquired its own |

A device without a class has that of the CPU (`ClassOf`), which `ModelsAssumption` has every
manifest name. Syncs do not overlap here: two at once would share one `.part` file. A file out of a
package is copied in place, and torn counts as PRESENT; `DownloadsAreMoved` is about downloads. A
download goes to a `.part` file that is moved into place when the response has ended
(`models.py:80-82`). A response that ends early without an exception is moved as well
(`"short"`), so the property says that the file is what was sent, not that it is what was meant.

`AcquiredModelStays` covers every class: what `sync_models` acquired for a device stays. That
transcription finds it, it says of all classes but a `faster_whisper` one whose local path has a
directory, as the shipped manifest's `cuda` class has, where it never does: `sync_models` downloads into
`models/stt` (`models.py:250`), `transcribe` looks in the parent of the local path, with
`local_files_only` (`stt_onnx.py:284`).

## 12. Disagreements without a run

Seen while modelling; the models follow the code, and no property claims the contrary.

- `cognition/router.py:169` passes the schema by position to `complete_structured`, which takes it
  by name: the TypeError is swallowed (212-214), and every phrase without a pattern is an "answer".
  ADR-0034 has the model asked.
- A run registers one gate executor per type: a workflow with a high-risk gate followed by a
  default one answers both without the adversary, although `gates/gate_node.py:3-7` has the tier per node.
- ADR-0023 wants a new `core.submitted` rejected while one is pending; the transition table has
  it from `submitting` to `submitting`. A turn whose run cannot be started leaves the session in
  `submitting`. `recovering` never leads back to `armed`.
- Two clients that read a voice session's state before either writes can open a closed session again.
- An intent without a session that proposes a memory reports "Saved fact to memory" and saves nothing.
- An update that renames a draft and dies after it has removed the old file (`authoring/workflow.py:267`) leaves
  a row that names no file: the draft can be neither read nor published. ADR-0019:94-96 has drafts
  "recoverable across process restarts".
- ADR-0017:704 has non-loopback candidates ask for the hosted capability; an Ollama at any address
  is authorized as a local one (`gateway/client.py:67-68`), which ADR-0017:134 may be read to allow.
- A download that ends early without an exception is moved into place and counts as PRESENT
  (`speech/models.py:80-82`).
- An installation ignores a `pip uninstall` that failed (`setup.py:113`) and reports success.
- Items of a map take turns, where the module and a test's name have them concurrent (section 6).
- `mark_ready` takes any passing verdict of the run, also one about an earlier commit; ADR-0022:95-98 wants
  stale verdicts refused. `VerifiedBeforeAsked` says what the code gives.

## 13. Proofs

Each module named `...Proofs` holds the theorems about one component and the lemmas they
rest on. A theorem holds for every value of the constants that satisfies the module's
ASSUME, so for any number of callers, rows, crashes and so on; "assumes" below is what
it asks beyond that. TLC has checked each invariant on a small instance first.

### The durable run (`DurableRunProofs.tla`)

For every graph, every retry and repair bound, every number of crashes:

| Theorem | Assumes | Says |
|---|---|---|
| `TypeCorrect` | | `[]TypeOK` |
| `HistoryIsKept` | | `[]ReferencedRowsExist`, for any number of engines |
| `SucceededStays` | one engine | `SucceededIsFinal` |
| `TerminalIsQuiet`, `WorktreeOutlives` | one engine | `[]TerminalRunIsQuiet`, `[]WorktreeOutlivesRun` |
| `SucceededIsComplete`, `OnlySettledIsPassed` | one engine, `RepairsLeadBack` | `[]SucceededRunIsComplete`, `[]ProceedsOnlyPastSettled` |
| `ImplementsRunLifecycle` | one engine, `RepairsLeadBack` | `Spec => ImplementsLifecycle` |
| `ExhaustedRepairsFail` | one engine, gates are not retried | `[]ExhaustedRepairsFailRun` |
| `SucceededIsApproved` | one operator, `RepairsLeadBack` | `[]SucceededRunWasApproved`, for any number of engines |

The assumptions are needed: two engines execute a completed step again, of two operators'
decisions the last stands, and a retried gate loses its budget (disagreements 3, 4 and 5).
`RepairsLeadBack` (a gate's `onFail` leads back to the gate) holds of the workflows the
repository ships; without it a repair could jump past nodes.

The argument. `TypeOK` is not inductive, because results are stored from `val`:
`TypeInv` adds what `val` is at each location and that a handled step has a
counted attempt. For completed steps, `SoleInv` adds that what a sole engine has
read still holds when it writes: the step it executes is not SUCCEEDED, and no
node it purges has a SUCCEEDED step. For completeness, `PathInv` adds that all
nodes on the path that are not ahead of the current one are settled; an advance
leaves behind at most the node it has settled (`AheadOfNext`), and a repair goes
to a node from which everything ahead is still ahead (`AheadIsClosed`).
`ApprovedInv` is the counterpart for approvals; it needs nothing about other
engines but that an approval, once given, stays (`ApprovalStays`). The refinement
adds that runs.status is RUNNING throughout a walk, or FAILED by a machine activity that the walk
goes on from (`StatusInv`). For the worktree, `ReportInv` adds that an engine that reports SUCCEEDED
does so of a run that is. For the quiet of a terminal run, `QuietInv` adds that a step in flight is the one
the engine works on, or the attempt that comes next after a backoff; and `FailedInv` that a walk of
a FAILED run has a failed machine step behind it, of an attempt it does not come to again
(`FailedIn`), which no later write overwrites (`FailedStays`). `RequestedInv` keeps the steps of approval
nodes out of this: they are never in flight.

The budget is the hard one, because the counter is in a process and the verdicts are in the
database. `RepairInv` says that the recorded verdicts can be put in an order (`InOrder`) in
which the walk meets them: it has passed the first i of them, has counted the failing ones
of these, and the next verdict it takes is number i + 1, whether that is on record or new.
A crash sets i back to 0 and the counter with it; the replay is forced through the same
order since outputs of completed steps stay (`OutputInv`). A walk that ends has passed all.

### Improvement proposals (`ImprovementProofs.tla`)

| Theorem | Assumes | Says |
|---|---|---|
| `ProposalTypeCorrect` | | `[]TypeOK` |
| `AskedIsVerified` | | `[]VerifiedBeforeAsked` |
| `MergesAreConsented` | | `[]MergesAreApproved` |
| `RecordsAreOfMerges`, `MergesAreSingle` | no `Interference`, no `Switching` | `[]RecordedMergesHappened`, `[]MergedAtMostOnce` |

For the second, `VerifiedInv` follows the verdict from `mark_ready` through the
row to whoever holds a copy of it: a row under review has a passing verdict, a
caller that asks holds one, and one past its checks holds a tested commit. For
the third, each caller inside `merge()` has an approval of the row it holds
(`MergersConsented`, kept because approvals stay: `ApprovedStays`), and once past the checks that
row's candidate is tested, whoever commits or switches branches meanwhile; without commits
during `merge()` the candidate is still the approved one and the approved branch is either on the approved
commit or contains the candidate already. For the last two, `ConsentInv` adds that, where nobody switches
branches, every row is about the branch checked out (`OneTarget`), in which git then does
nothing if the candidate is there; `HistoryInv` adds how the
commits lie in the two trees: a candidate that a row, a caller or an approval names has been
the worktree's head, and once the target contains it the target has moved past its base
(`AllDated`); what a caller is about to record has been merged, with consent (`GitDone`); and
nothing newer than what was merged is, or will be, approved for that proposal
(`MergesAreLast`), so that a second merge has nothing to merge.
That nobody switches branches is needed: section 4 says what happens otherwise.

### The other components

| Module | Theorem | Assumes | Says |
|---|---|---|---|
| `GovernedProofs` | `ActionsAreAuthorized` | | `[]ActedOnlyAuthorized` |
| | `ApprovalsAreUsedOnce` | | `[]MachineUsesApprovalOnce` |
| | `SuccessMeansActed`, `SuccessIsCommitted` | | `[]SucceededRunActed`, `[]WorktreeAgrees` |
| | `RecordsStand` | | an approved approval and a SUCCEEDED step never change |
| `CompositeProofs` | `ItemsAreSequential` | | `[]ItemsNeverInterleave`: of all walks one at a time works, and no two items that maps wait for are walked at once (no run has this; see section 6) |
| | `ItemTreesFollow` | | `[]ItemTreesGoWithTheMap` |
| | `SucceededIsDone` | | `[]SucceededRunDidItAll` |
| `CatalogProofs` | `RulingsStand`, `BlockedIsNotServed` | | `[]OperatorRulingStands`, `[]ServedNotBlocked` |
| | `NothingUnreviewedLands`, `RowsAgreeWithFiles` | | `[]OnlyReviewedLands`, `[]IndexAgrees` |
| `SidecarProofs` | `SignalsAreForOwn` | | `[]OnlyOwnSignalled` |
| | `ServersAreAccountedFor` | | `[]EveryServerAccountedFor` |
| `VoiceProofs` | `WordsComeFirst`, `TrailIsComplete` | | `[]HeardBeforeRun`, `[]TrailFollows` |
| | `OverIsSilent`, `HostedModelsHearNothing` | | `ExpiredIsSilent`, `[]NoHostedModelAsked` |
| `HostProofs` | `ProfilesAreCanonical` | | `[]ProfileIsCanonical` |
| | `ReadyIsStartable` | | `[]ReadyStarts` |
| | `ProvisioningDelivers` | | `[]ProvisionReachesDevice` |
| | `DownloadsAreNotTorn` | | `[]DownloadsAreMoved` |
| | `AcquiredModelIsKept` | | `[]AcquiredModelStays` |

*Governed steps.* `GovernedInv`: from the Guard's answer on, what the call has found was
allowed or approved for its attempt (`AuthorizedFromTheCheckOn`; an edit changes `world`,
never `held`); an approval that has been used is that of an attempt whose step is
past the action (`ApprovalUsedUp`); a SUCCEEDED step has an action (`SuccessIsRecorded`);
and a walk that is about to advance has committed (`CommittedAtTheEnd`).

*Composite nodes.* The invariant has six parts: the types; `FamilyInv`, the children a walk
waits for are runs of its own; `PoolInv`, of the items of all pools one at most is
walked, and the lock is held while it is; `TokenInv`, one run at most holds the turn: it
works, returns, or has a pool with nothing under way; `StatusInv`, what is walked is
RUNNING, and what a scan has still to visit is not walked; `TreeInv`, an item's worktree
is there for its pool, and none is left behind. The thirty-odd actions are of a few kinds
(`NextMoves`): a run goes on alone, a parent and its child step together, a run
is added; each part is preserved by kind, not by action.

That a run which reports SUCCEEDED has done what its nodes say rests on `EvidencedInv`,
which adds four parts. `RecordsTyped`: each run has a row for each node and a content.
`LineInv`: a walk works in its own worktree, or in that of the run that is waiting for it.
`WalkInv`: what a walk has found out by the middle of a node. A node that is executing has no
SUCCEEDED row; every child but the one at hand reports SUCCEEDED; and while a map merges,
the branch ends with the contents of the items merged so far, in order (`MergedInOrder`).
`EvidenceInv`: every node that has been passed, or whose row would let a resume skip it,
is done (`NodeDone`). The last is why `SucceededRunDidItAll` alone is not inductive: a
crash forgets the walk, and what the resume skips must have been done by then. A step
writes one node of one run, or appends to one branch, or adds a run (`StepKinds`), and
what is done stays done under each, because branches only grow and SUCCEEDED is for good.
The facts about sequences of sequences (`FlattenSeq` of one more item is a branch with one more
merge) would be inductions over the number of items; the first number at which they
failed (`LeastOf`, from the library's `WFMin`) leads to a contradiction instead.

*Registry.* `TrustInv` says that a rebuild, which reads rows long before it writes them, has
the rulings in what it is about to write (`PendingKeepsTrust`; the lock of SQLite keeps
them current), and that a reader of an object blocked before it began stops in time
(`BlockedAreStopped`). `ReviewInv` follows a content from the digest somebody named, or from the draft it
slipped into, to the file; `IndexInv` says of a clean tree that one
operation at most is writing (`OneWriter`), and of each place of a write or of a rebuild which rows agree already.

*Sidecar.* `SidecarInv`: the pid in the file and the child a start waits for are of servers
AWF started, and a caller has a child exactly while it waits for one.

*Voice.* `VoiceInv`: in what a client still has to do, the words come before the run,
and what it is about to record was a legal move of the state it read. `NoHostedModelAsked`
rests on the gateway's operators: whatever the assistant's allow-list authorizes is an Ollama or has a
loopback address.

*Host and readiness.* `HostInv` says how old beliefs and half-done installations still fit the
host. Drivers come and go but the architecture does not, so what pip has (`InstalledFits`) and what a
process has cached (`BeliefsFit`) never claim CUDA on arm64 nor QNN on x64: with that, every
profile is canonical. An installation under way has nothing provisioned, its extra was
chosen for this host, and it uninstalls the losers only once the rest is there
(`InstallOrdered`), so that what is provisioned has the runtime of its own wheel under the shared
import name (`ProvisionedIsThere`, with the exception for what is `stuck`); a host keeps the device an extra was chosen for
(`Justified`), though not every driver. That what is ready can be started is then about operators:
the strongest place of the ladder is the profile's own or that of its CPU fallback, and the
start looks for the binaries of these two. `HostAssumption` on the artifacts (a CPU profile has a CPU one)
is what `config/app_registry/llm-servers/default/1.0.0.yaml` declares.

*Speech models.* `ModelsInv`: a sync removes only once its own model is there (`CleansLast`),
and the model of the last complete sync is there (`ModelIsThere`).

### Only model-checked

- `EveryWalkEnds` (of a run and of composite runs) and `EveryCallReturns`: liveness under
  fairness, which the prover has no rules for. No safety property of a passing run is left here.

## 14. Not modelled

`PROJECT.json` has each component with its status. Left out for good is what keeps no
state of its own or only passes bytes: the adapters' command lines, argument parsing of the CLI,
the table of protocol methods and its generated dispatch (each method is the operation
it names), the encrypted secrets file, read-only lists, summaries and the control center's
overview, numeric inference of the speech models, and `speech/pipeline.py`, a loop of one
process over microphone and loudspeaker. Ranking (of models, of memories) is a choice in the
models. Validation scripts and tests are not modelled.
