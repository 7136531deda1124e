---------------------------- MODULE GovernedSteps ----------------------------
(***************************************************************************)
(* One governed step of a run: an agent (engine/agent_step.py) or a machine *)
(* activity (machine/activities.py, machine/approvals.py), as the only node *)
(* of a workflow, walked by workflow/engine.py with its retries, while      *)
(* operators decide its approvals (ops/approval.py), definitions are edited *)
(* between calls, and the process dies.                                     *)
(*                                                                         *)
(* One process at a time walks the run (DurableRun has the overlap); every *)
(* commit is an action.  A walk starts with run_workflow_definition, called *)
(* for a new run, by a resume, or again on a run that waits.                *)
(***************************************************************************)
EXTENDS CapabilityGuard, Naturals, Sequences

CONSTANTS
    Kinds,          \* which of "agent" and "machine" the node may be
    Worlds,         \* what executor calls may find: records
                    \*   [found, capability, manifest, role, target]
    Permitted,      \* targets machine/policy.py admits
    FailureClasses, \* classes with which performing the action may fail
    RetryOn,
    MaxRetries,
    MaxCrashes,     \* bounds of the model
    MaxEdits,
    MaxActs

ASSUME GovernedAssumption ==
    /\ Kinds \subseteq {"agent", "machine"}
    /\ RetryOn \subseteq FailureClasses
    /\ MaxRetries \in Nat
    /\ MaxCrashes \in Nat
    /\ MaxEdits \in Nat
    /\ MaxActs \in Nat

VARIABLES
    kind,       \* the node's type, fixed from the start
    world,      \* the definitions and files an executor call would find now
    \* rows
    run,        \* runs.status
    step,       \* steps.status per attempt
    refs,       \* attempts a row of events or approvals references
    approval,   \* the approval of each attempt
    \* the worktree
    dirty,      \* are there changes that are not committed?
    committed,  \* has anything been committed?
    \* the process that walks
    pc,
    attempt,
    retries,
    held,       \* what the current executor call found
    failure,    \* the class of the exception being handled
    \* history and bounds
    acts,       \* actions performed: <<attempt, what the call had found>>
    crashes,
    edits

governedVars == <<kind, world, run, step, refs, approval, dirty, committed, pc,
          attempt, retries, held, failure, acts, crashes, edits>>

files == <<dirty, committed>>
bounds == <<crashes, edits>>

-----------------------------------------------------------------------------
(* Data *)

Attempts == 1..(MaxRetries + 1)
TerminalRunStatuses == {"SUCCEEDED", "FAILED"}

\* MachineAction: what the digest of an approval is computed from.  The
\* allow-list is not part of it; a machine action has no role.
ActionOf(w) ==
    [ref |-> w.capability.ref, operation |-> w.capability.operation,
     risk |-> w.capability.risk, approval |-> w.capability.approval,
     role |-> IF kind = "agent" THEN w.role ELSE "none",
     target |-> w.target]

NoAction == [ref |-> "none", operation |-> "none", risk |-> "none",
             approval |-> "none", role |-> "none", target |-> "none"]
NoApproval == [status |-> "none", action |-> NoAction, channel |-> "none"]

\* What the Guard says of a call: a machine activity is authorized with its
\* own capability as the allow-list and without a role.
GuardDecision(w) ==
    IF kind = "agent"
    THEN Evaluate(w.capability, AgentAllowlist(w.manifest, w.capability), w.role)
    ELSE Evaluate(w.capability, {w.capability.ref}, "none")

GoTo(l) == pc' = l

GovernedInit ==
    /\ kind \in Kinds
    /\ world \in Worlds
    /\ run = "CREATED"
    /\ step = [a \in Attempts |-> "absent"]
    /\ refs = {}
    /\ approval = [a \in Attempts |-> NoApproval]
    /\ dirty = FALSE
    /\ committed = FALSE
    /\ pc = "idle"
    /\ attempt = 0
    /\ retries = 0
    /\ held = world
    /\ failure = "none"
    /\ acts = <<>>
    /\ crashes = 0
    /\ edits = 0

-----------------------------------------------------------------------------
(* The walk up to the step *)

\* run_workflow_definition, to its loop.  A walk acts at most once per
\* attempt; the bound leaves it room to.
StartWalk ==
    /\ Len(acts) + MaxRetries + 1 <= MaxActs
    /\ run' = "RUNNING"
    /\ attempt' = 0
    /\ retries' = 0
    /\ GoTo("visit")
    /\ UNCHANGED <<kind, world, refs, approval, held, failure, acts>>
    /\ UNCHANGED <<files, bounds>>

FirstWalk ==
    /\ pc = "idle" /\ run = "CREATED"
    /\ StartWalk
    /\ UNCHANGED step

\* Called again on a run that is not over, as the tests follow an approval.
Rewalk == /\ pc = "idle" /\ run \in {"RUNNING", "WAITING_APPROVAL"}
          /\ StartWalk
          /\ UNCHANGED step

\* What reset_interrupted_node_steps deletes of the node's attempts.
Doomed == IF \E a \in Attempts : step[a] = "SUCCEEDED"
          THEN {a \in Attempts : step[a] \in {"RUNNING", "RETRY_WAIT"}}
          ELSE {a \in Attempts : step[a] # "absent"}

\* op_run_resume, where the DELETE violates no foreign key.
Resume == /\ pc = "idle" /\ run \in {"RUNNING", "WAITING_APPROVAL"}
          /\ Doomed # {}
          /\ Doomed \intersect refs = {}
          /\ StartWalk
          /\ step' = [a \in Attempts |-> IF a \in Doomed THEN "absent" ELSE step[a]]

\* The next attempt of the node and its row.
Visit ==
    /\ pc = "visit"
    /\ attempt' = attempt + 1
    /\ step' = [step EXCEPT ![attempt + 1] = IF @ = "absent" THEN "PENDING" ELSE @]
    /\ GoTo("call")
    /\ UNCHANGED <<kind, world, run, refs, approval, retries, held, failure, acts>>
    /\ UNCHANGED <<files, bounds>>

-----------------------------------------------------------------------------
(* The executor's call: run_agent_step, run_machine_activity *)

Status == step[attempt]
Asked == approval[attempt].status # "none"

Raise(class) == failure' = class /\ GoTo("raised")

Rows == <<run, step, refs, approval>>
Fixed == <<kind, world, attempt, retries, acts>>

\* Mutant: a step that was started counts as done.
AnswersCachedWhenStarted ==
    /\ pc = "call"
    /\ Status \in {"RUNNING", "SUCCEEDED"}
    /\ world.found
    /\ GoTo("advance")
    /\ UNCHANGED <<Rows, Fixed, held, failure, files, bounds>>

\* The row is SUCCEEDED: its output is the answer.  An agent's cached step is
\* found so only after the manifest and the capability have been resolved.
AnswersCached ==
    /\ pc = "call"
    /\ Status = "SUCCEEDED"
    /\ world.found
    /\ GoTo("advance")
    /\ UNCHANGED <<Rows, Fixed, held, failure, files, bounds>>

\* The capability or the manifest does not resolve.
CannotResolve ==
    /\ pc = "call"
    /\ ~world.found
    /\ Raise("INTERNAL")
    /\ UNCHANGED <<Rows, Fixed, held, files, bounds>>

\* A machine activity records an exception itself, an agent's leaves the row.
Refuse(class) ==
    /\ failure' = class
    /\ GoTo(IF kind = "machine" THEN "mark_failed" ELSE "raised")

\* The call finds its definitions and builds the action.
Resolves ==
    /\ pc = "call"
    /\ Status # "SUCCEEDED"
    /\ world.found
    /\ held' = world
    /\ \/ /\ kind = "machine" /\ world.target \notin Permitted
          /\ Refuse("INTERNAL")
       \/ /\ kind = "agent" \/ world.target \in Permitted
          /\ GoTo("check")
          /\ UNCHANGED failure
    /\ UNCHANGED <<Rows, Fixed, files, bounds>>

\* _approval_status, approved_or_waiting, up to the Guard.  An approval for
\* another action raises, a pending one waits, a rejected one raises.
DigestDiffers ==
    /\ pc = "check"
    /\ Asked /\ approval[attempt].action # ActionOf(held)
    /\ Refuse("POLICY_DENIED")
    /\ UNCHANGED <<Rows, Fixed, held, files, bounds>>

StillPending ==
    /\ pc = "check"
    /\ approval[attempt].status = "pending"
    /\ approval[attempt].action = ActionOf(held)
    /\ GoTo("idle")
    /\ UNCHANGED <<Rows, Fixed, held, failure, files, bounds>>

Rejected ==
    /\ pc = "check"
    /\ approval[attempt].status = "rejected"
    /\ approval[attempt].action = ActionOf(held)
    /\ Refuse("APPROVAL_REJECTED")
    /\ UNCHANGED <<Rows, Fixed, held, files, bounds>>

\* Mutant: the approved action is not compared with the one at hand.
ClearedWhateverTheAction ==
    /\ approval[attempt].status = "approved"
    /\ kind = "machine" => Status = "WAITING_APPROVAL"

\* An agent goes on when it has an approval, a machine activity when its step
\* is also still waiting for it.
Cleared == /\ approval[attempt].status = "approved"
           /\ approval[attempt].action = ActionOf(held)
           /\ kind = "machine" => Status = "WAITING_APPROVAL"

\* What skips the Guard: the agent's approval, the machine step's status.
SkipsGuard == IF kind = "agent" THEN Asked ELSE Status = "WAITING_APPROVAL"

Proceeds ==
    /\ pc = "check"
    /\ SkipsGuard
    /\ Asked => Cleared
    /\ GoTo("start")
    /\ UNCHANGED <<Rows, Fixed, held, failure, files, bounds>>

\* authorize() writes an event, whatever it decides.
AsksGuard ==
    /\ pc = "check"
    /\ ~SkipsGuard
    /\ Asked => /\ approval[attempt].status = "approved"
                /\ approval[attempt].action = ActionOf(held)
    /\ refs' = refs \union {attempt}
    /\ LET d == GuardDecision(held) IN
         \/ d = "allow" /\ GoTo("start") /\ UNCHANGED <<failure, step>>
         \/ d = "approval_required" /\ GoTo("ensure") /\ UNCHANGED <<failure, step>>
         \/ /\ d = "deny"
            /\ step' = [step EXCEPT ![attempt] = IF kind = "agent" THEN "FAILED" ELSE @]
            /\ Refuse("POLICY_DENIED")
         \/ d = "raise" /\ Refuse("INTERNAL") /\ UNCHANGED step
    /\ UNCHANGED <<run, approval, Fixed, held, files, bounds>>

\* Mutant: an approval that is there and given lets the action go on.
AlreadyAskedGoesOn ==
    /\ pc = "ensure"
    /\ Asked
    /\ GoTo(IF approval[attempt].status = "approved" THEN "start" ELSE "idle")
    /\ UNCHANGED <<Rows, Fixed, held, failure, files, bounds>>

\* _ensure_pending_approval: a row that is there already is waited for, even
\* one that has been approved.
AlreadyAsked ==
    /\ pc = "ensure"
    /\ Asked
    /\ GoTo("idle")
    /\ UNCHANGED <<Rows, Fixed, held, failure, files, bounds>>

AskApproval ==
    /\ pc = "ensure"
    /\ ~Asked
    /\ approval' = [approval EXCEPT ![attempt] =
                      [status |-> "pending", action |-> ActionOf(held),
                       channel |-> "none"]]
    /\ step' = [step EXCEPT ![attempt] = "WAITING_APPROVAL"]
    /\ run' = "WAITING_APPROVAL"
    /\ GoTo("idle")
    /\ UNCHANGED <<refs, Fixed, held, failure, files, bounds>>

-----------------------------------------------------------------------------
(* The action itself *)

\* _mark_running, run_step: RUNNING before the action; run_step's event
\* references the step.
MarkRunning ==
    /\ pc = "start"
    /\ step' = [step EXCEPT ![attempt] = "RUNNING"]
    /\ refs' = refs \union {attempt}
    /\ GoTo("perform")
    /\ UNCHANGED <<run, approval, Fixed, held, failure, files, bounds>>

\* Persona, skills, MCP and model profile of an agent may fail first.
PreparationFails ==
    /\ pc = "perform"
    /\ kind = "agent"
    /\ failure' = "INVALID_INPUT"
    /\ GoTo("mark_failed")
    /\ UNCHANGED <<Rows, Fixed, held, files, bounds>>

\* The action, which may fail having done its work; an agent's changes are in
\* the worktree either way.
Perform ==
    /\ pc = "perform"
    /\ acts' = Append(acts, [attempt |-> attempt, found |-> held])
    /\ dirty' = (dirty \/ kind = "agent")
    /\ \/ GoTo("succeeded") /\ UNCHANGED failure
       \/ /\ failure' \in FailureClasses
          /\ GoTo("mark_failed")
    /\ UNCHANGED <<Rows, kind, world, attempt, retries, held, committed, bounds>>

PersistSuccess ==
    /\ pc = "succeeded"
    /\ step' = [step EXCEPT ![attempt] = "SUCCEEDED"]
    /\ GoTo(IF kind = "agent" THEN "commit" ELSE "advance")
    /\ UNCHANGED <<run, refs, approval, Fixed, held, failure, files, bounds>>

\* Mutant: new files are not added before the commit.
CommitTracked ==
    /\ pc = "commit"
    /\ committed' = TRUE
    /\ GoTo("advance")
    /\ UNCHANGED <<Rows, Fixed, held, failure, dirty, bounds>>

\* commit_all_changes, with "git add -A".
Commit ==
    /\ pc = "commit"
    /\ committed' = (committed \/ dirty)
    /\ dirty' = FALSE
    /\ GoTo("advance")
    /\ UNCHANGED <<Rows, Fixed, held, failure, bounds>>

CommitRaises ==
    /\ pc = "commit"
    /\ Raise("INTERNAL")
    /\ UNCHANGED <<Rows, Fixed, held, files, bounds>>

\* run_step's handler, or _mark_failed, which fails the run as well.
MarkFailed ==
    /\ pc = "mark_failed"
    /\ step' = [step EXCEPT ![attempt] = "FAILED"]
    /\ run' = IF kind = "machine" THEN "FAILED" ELSE run
    /\ GoTo("raised")
    /\ UNCHANGED <<refs, approval, Fixed, held, failure, files, bounds>>

-----------------------------------------------------------------------------
(* The engine goes on *)

MayRetry == failure \in RetryOn /\ retries < MaxRetries

Retry ==
    /\ pc = "raised"
    /\ MayRetry
    /\ retries' = retries + 1
    /\ refs' = refs \union {attempt}
    /\ step' = [step EXCEPT ![attempt + 1] = IF @ = "absent" THEN "RETRY_WAIT" ELSE @]
    /\ GoTo("visit")
    /\ UNCHANGED <<kind, world, run, approval, attempt, held, failure, acts, files, bounds>>

FailRun ==
    /\ pc = "raised"
    /\ ~MayRetry
    /\ run' = "FAILED"
    /\ GoTo("idle")
    /\ UNCHANGED <<step, refs, approval, Fixed, held, failure, files, bounds>>

SucceedRun ==
    /\ pc = "advance"
    /\ run' = "SUCCEEDED"
    /\ GoTo("idle")
    /\ UNCHANGED <<step, refs, approval, Fixed, held, failure, files, bounds>>

-----------------------------------------------------------------------------
(* The environment *)

Crash ==
    /\ pc # "idle"
    /\ crashes < MaxCrashes
    /\ crashes' = crashes + 1
    /\ GoTo("idle")
    /\ UNCHANGED <<Rows, Fixed, held, failure, files, edits>>

Decide(a, status, channel) ==
    /\ approval[a].status = "pending"
    /\ approval' = [approval EXCEPT ![a].status = status, ![a].channel = channel]
    /\ UNCHANGED <<run, step, refs, Fixed, pc, held, failure, files, bounds>>

Approve(a) == Decide(a, "approved", "manual")
Reject(a) == Decide(a, "rejected", "manual")

\* A governed approval always has a risk class; the caller may claim one.
ApproveByVoice(a, claim) ==
    /\ approval[a].status = "pending"
    /\ VoiceOutcome(claim, approval[a].action.risk) = "approve"
    /\ Decide(a, "approved", "voice")

\* Between two executor calls, anything they read may be edited: a workflow,
\* a manifest, a capability, the files a path resolves to.
DefinitionsChange ==
    /\ pc \in {"idle", "visit"}
    /\ edits < MaxEdits
    /\ world' \in Worlds \ {world}
    /\ edits' = edits + 1
    /\ UNCHANGED <<Rows, kind, attempt, retries, acts, pc, held, failure, files, crashes>>

Operator == \E a \in Attempts :
              \/ Approve(a)
              \/ Reject(a)
              \/ \E claim \in Risks \union {"none"} : ApproveByVoice(a, claim)

Call == \/ AnswersCached \/ CannotResolve \/ Resolves
        \/ DigestDiffers \/ StillPending \/ Rejected \/ Proceeds
        \/ AsksGuard \/ AlreadyAsked \/ AskApproval
        \/ MarkRunning \/ PreparationFails \/ Perform
        \/ PersistSuccess \/ Commit \/ CommitRaises \/ MarkFailed

Walker == Visit \/ Call \/ Retry \/ FailRun \/ SucceedRun

GovernedNext ==
    \/ FirstWalk \/ Rewalk \/ Resume
    \/ Walker \/ Crash \/ Operator \/ DefinitionsChange

GovernedSpec == GovernedInit /\ [][GovernedNext]_governedVars

-----------------------------------------------------------------------------
(* Properties *)

\* Whatever an agent or a machine activity does, either the Guard allows what
\* the call had found outright, or an operator has approved exactly that
\* action for that attempt, not by voice if its risk is high; over edits,
\* crashes and repeated walks (_authorize_agent_or_wait, approved_or_waiting,
\* op_approval_approve).
ActedOnlyAuthorized ==
    \A i \in 1..Len(acts) :
        \/ GuardDecision(acts[i].found) = "allow"
        \/ /\ approval[acts[i].attempt].status = "approved"
           /\ approval[acts[i].attempt].action = ActionOf(acts[i].found)
           /\ (approval[acts[i].attempt].channel = "voice"
                => VoiceMayDecide(acts[i].found.capability.risk))

\* A machine activity uses an approval once: a step that died or failed with
\* its approval does not act on it again (run_machine_activity goes past the
\* Guard only while its step is WAITING_APPROVAL).
MachineUsesApprovalOnce ==
    \A i, j \in 1..Len(acts) :
        (/\ kind = "machine"
         /\ acts[i].attempt = acts[j].attempt
         /\ GuardDecision(acts[i].found) # "allow"
         /\ GuardDecision(acts[j].found) # "allow") => i = j

\* A run that reports SUCCEEDED has an attempt whose action was performed and
\* whose success is recorded, though walks are repeated and rows deleted.
SucceededRunActed ==
    run = "SUCCEEDED" =>
        \E a \in Attempts : /\ step[a] = "SUCCEEDED"
                            /\ \E i \in 1..Len(acts) : acts[i].attempt = a

\* The worktree and the record agree: nothing is committed before a success is
\* persisted, and a run that succeeded leaves no change of its agent
\* uncommitted, its failed attempts' included (run_agent_step) - unless a
\* process died, or the policy retries INTERNAL: the attempt after a commit
\* that failed may wait, and the next walk takes the recorded success as it is.
WorktreeAgrees ==
    /\ committed => \E a \in Attempts : step[a] = "SUCCEEDED"
    /\ run = "SUCCEEDED" /\ crashes = 0 /\ "INTERNAL" \notin RetryOn => ~dirty
=============================================================================
