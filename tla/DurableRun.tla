----------------------------- MODULE DurableRun -----------------------------
(***************************************************************************)
(* One workflow run and the processes that drive it: engine/executor.py,   *)
(* engine/run.py, engine/recovery.py, workflow/engine.py,                  *)
(* workflow/approval.py, the run half of ops/run.py, and the way           *)
(* machine/activities.py keeps a step of its own.                          *)
(*                                                                         *)
(* The SQLite rows of the run outlive every process; what an engine keeps  *)
(* in local variables does not.  One action is at most one committed       *)
(* transaction, or one SELECT whose result the code uses later, so the     *)
(* interleavings of two engines and a crash between any two commits are    *)
(* behaviours of Spec.                                                     *)
(*                                                                         *)
(* Engines is the set of processes (or background threads) that may start  *)
(* or resume the run.  With one engine a run is driven by one process at a *)
(* time, over any number of crashes and resumes; with two, a resume may    *)
(* overlap a live engine, which nothing in the code prevents.              *)
(***************************************************************************)
EXTENDS Naturals, FiniteSets

CONSTANTS
    Nodes,          \* node ids of the workflow definition
    Start,          \* workflow.nodes[0]
    Kind,           \* [Nodes -> {"work", "machine", "gate", "approval"}]
    NextNode,       \* the node's "next" field, NoNode when absent
    OnFail,         \* a gate's "onFail" field, NoNode when absent
    NoNode,
    MaxRepairs,     \* budgets.maxRepairIterations
    MaxRetries,     \* [Nodes -> Nat], policy.max_retries
    RetryOn,        \* policy.retry_on
    FailureClasses, \* the classes a step function's exception may carry
    RetainWorktree, \* _retain_worktree_for_improvement
    Engines,
    Operators,      \* processes that may decide an approval
    MaxAttempts,    \* bound of the model on attempts per node
    MaxCrashes      \* bound of the model on crashes

ASSUME GraphAssumption ==
    /\ NoNode \notin Nodes
    /\ Start \in Nodes
    /\ Kind \in [Nodes -> {"work", "machine", "gate", "approval"}]
    /\ NextNode \in [Nodes -> Nodes \union {NoNode}]
    /\ OnFail \in [Nodes -> Nodes \union {NoNode}]

ASSUME BoundAssumption ==
    /\ MaxRepairs \in Nat
    /\ MaxRetries \in [Nodes -> Nat]
    /\ MaxAttempts \in Nat
    /\ MaxCrashes \in Nat
    /\ RetainWorktree \in BOOLEAN

ASSUME FailureAssumption ==
    /\ {"INTERNAL", "APPROVAL_REJECTED"} \subseteq FailureClasses
    /\ RetryOn \subseteq FailureClasses
    /\ FailureClasses \subseteq STRING

VARIABLES
    \* rows of the database, and the run's git worktree
    run,        \* runs.status, "none" before create_run
    result,     \* status recorded in runs.output_json
    step,       \* steps.status per step id, "absent" when there is no row
    output,     \* steps.output_json per step id
    refs,       \* step ids that a row of events or of approvals references
    approval,   \* approvals.status of the oldest row per step id
    worktree,
    \* the local state of each engine process
    pc,
    node,       \* current_id
    attempts,   \* attempt_counts
    retries,    \* retries_attempted
    repairs,    \* repairs_used
    val,        \* the value or the exception the engine is handling
    purge,      \* the nodes reset_interrupted_node_steps is about to delete
    worker,     \* the engines that are the thread of an asynchronous start
    \* the environment
    deciding,   \* decisions an operator's process has checked, not yet written
    crashes

rows == <<run, result, step, output, refs, approval>>
walk == <<node, attempts, retries, repairs>>
env == <<worker, deciding, crashes>>
vars == <<run, result, step, output, refs, approval, worktree,
          pc, node, attempts, retries, repairs, val, purge, worker, deciding,
          crashes>>

-----------------------------------------------------------------------------
(* Data *)

\* A step id is "<run>:<node>#<attempt>" (workflow/engine.py:356).
StepIds == Nodes \X (1..MaxAttempts)

TerminalRunStatuses == {"SUCCEEDED", "FAILED"}

RunStatuses == {"none", "CREATED", "RUNNING", "WAITING_APPROVAL"}
                 \union TerminalRunStatuses

StepStatuses == {"absent", "PENDING", "RUNNING", "RETRY_WAIT",
                 "WAITING_APPROVAL", "SUCCEEDED", "FAILED"}

\* What a step function returns: a gate's verdict (passed, failed, or failed
\* with terminal_failure), and "ok" for any other node.
OutputsOf(n) == IF Kind[n] = "gate" THEN {"passed", "failed", "terminal"}
                                    ELSE {"ok"}
Outputs == {"none", "ok", "passed", "failed", "terminal"}

\* An output with which the engine goes on to "next".
Passing == {"ok", "passed"}

Results == {"none", "SUCCEEDED", "FAILED", "WAITING_INPUT"}

Locations == {"idle", "created", "reset", "begin", "visit", "read", "mark",
              "started", "invoke", "succeed", "fail", "approval", "request",
              "reject", "grant", "raised", "advance", "finish", "report",
              "cleanup"}

ZeroAttempts == [n \in Nodes |-> 0]

\* The step the engine is working on.
StepOf(e) == <<node[e], attempts[e][node[e]]>>

HasRow(s) == step[s] # "absent"

\* fs_read, fs_write, fs_delete, command_run and network_fetch: the activities
\* that write their step themselves (run_machine_activity), not by run_step.
Machine(s) == Kind[s[1]] = "machine"

Goto(e, l) == pc' = [pc EXCEPT ![e] = l]
Hold(e, v) == val' = [val EXCEPT ![e] = v]
SetStep(s, status) == step' = [step EXCEPT ![s] = status]

\* The process is gone: its local variables mean nothing any more.
Forget(e) ==
    /\ node' = [node EXCEPT ![e] = Start]
    /\ attempts' = [attempts EXCEPT ![e] = ZeroAttempts]
    /\ retries' = [retries EXCEPT ![e] = 0]
    /\ repairs' = [repairs EXCEPT ![e] = 0]
    /\ val' = [val EXCEPT ![e] = "none"]
    /\ purge' = [purge EXCEPT ![e] = {}]
    /\ worker' = worker \ {e}

Init ==
    /\ run = "none"
    /\ result = "none"
    /\ step = [s \in StepIds |-> "absent"]
    /\ output = [s \in StepIds |-> "none"]
    /\ refs = {}
    /\ approval = [s \in StepIds |-> "none"]
    /\ worktree = "absent"
    /\ pc = [e \in Engines |-> "idle"]
    /\ node = [e \in Engines |-> Start]
    /\ attempts = [e \in Engines |-> ZeroAttempts]
    /\ retries = [e \in Engines |-> 0]
    /\ repairs = [e \in Engines |-> 0]
    /\ val = [e \in Engines |-> "none"]
    /\ purge = [e \in Engines |-> {}]
    /\ worker = {}
    /\ deciding = {}
    /\ crashes = 0

-----------------------------------------------------------------------------
(* op_run_start and op_run_resume *)

\* op_run_start: create_run commits the row before the worktree exists.
CreateRun(e) ==
    /\ pc[e] = "idle"
    /\ run = "none"
    /\ run' = "CREATED"
    /\ Goto(e, "created")
    /\ UNCHANGED <<result, step, output, refs, approval, worktree, walk, val,
                   purge, env>>

\* The worktree, and for an asynchronous start the commit of RUNNING before its
\* thread begins.
CreateWorktree(e) ==
    /\ pc[e] = "created"
    /\ worktree' = "present"
    /\ \/ UNCHANGED <<run, worker>>
       \/ run' = "RUNNING" /\ worker' = worker \union {e}
    /\ Goto(e, "begin")
    /\ UNCHANGED <<result, step, output, refs, approval, walk, val, purge,
                   deciding, crashes>>

SucceededNodes == {n \in Nodes : \E s \in StepIds :
                                    s[1] = n /\ step[s] = "SUCCEEDED"}
NodesWithRows == {n \in Nodes : \E s \in StepIds : s[1] = n /\ HasRow(s)}

\* A run in any non-terminal status is picked up, whether or not another
\* process is driving it.
Resumable == run \notin {"none"} \union TerminalRunStatuses

\* scan_incomplete_runs, and the SELECTs of reset_interrupted_node_steps.
ResumeScan(e) ==
    /\ pc[e] = "idle"
    /\ Resumable
    /\ purge' = [purge EXCEPT ![e] = NodesWithRows \ SucceededNodes]
    /\ Goto(e, "reset")
    /\ UNCHANGED <<rows, worktree, walk, val, env>>

\* Faulty: the second DELETE is missing.
DoomedOfUnfinishedNodes(e) == {s \in StepIds : HasRow(s) /\ s[1] \in purge[e]}

\* The rows the two DELETEs name.
Doomed(e) == {s \in StepIds : /\ HasRow(s)
                              /\ \/ s[1] \in purge[e]
                                 \/ step[s] \in {"RUNNING", "RETRY_WAIT"}}

\* Faulty: the connection does not enforce foreign keys.
ResumeResetUnchecked(e) ==
    /\ pc[e] = "reset"
    /\ step' = [s \in StepIds |-> IF s \in Doomed(e) THEN "absent" ELSE step[s]]
    /\ Goto(e, "begin")
    /\ purge' = [purge EXCEPT ![e] = {}]
    /\ UNCHANGED <<run, result, output, refs, approval, worktree, walk, val,
                   env>>

\* The DELETEs of reset_interrupted_node_steps.  The connection enforces
\* foreign keys and the reference from events has no cascade, so the first
\* DELETE that meets a referenced row raises, the transaction is rolled back
\* and op_run_resume ends there.
ResumeReset(e) ==
    /\ pc[e] = "reset"
    /\ Doomed(e) \intersect refs = {}
    /\ step' = [s \in StepIds |-> IF s \in Doomed(e) THEN "absent" ELSE step[s]]
    /\ Goto(e, "begin")
    /\ purge' = [purge EXCEPT ![e] = {}]
    /\ UNCHANGED <<run, result, output, refs, approval, worktree, walk, val,
                   env>>

ResumeResetRaises(e) ==
    /\ pc[e] = "reset"
    /\ Doomed(e) \intersect refs # {}
    /\ Goto(e, "idle")
    /\ Forget(e)
    /\ UNCHANGED <<rows, worktree, deciding, crashes>>

-----------------------------------------------------------------------------
(* run_workflow_definition: the walk over the nodes *)

\* Faulty: the walk starts without marking the run RUNNING.
BeginUnmarked(e) ==
    /\ pc[e] = "begin"
    /\ node' = [node EXCEPT ![e] = Start]
    /\ attempts' = [attempts EXCEPT ![e] = ZeroAttempts]
    /\ retries' = [retries EXCEPT ![e] = 0]
    /\ repairs' = [repairs EXCEPT ![e] = 0]
    /\ Goto(e, "visit")
    /\ UNCHANGED <<rows, worktree, val, purge, env>>

Begin(e) ==
    /\ pc[e] = "begin"
    /\ run' = "RUNNING"
    /\ node' = [node EXCEPT ![e] = Start]
    /\ attempts' = [attempts EXCEPT ![e] = ZeroAttempts]
    /\ retries' = [retries EXCEPT ![e] = 0]
    /\ repairs' = [repairs EXCEPT ![e] = 0]
    /\ Goto(e, "visit")
    /\ UNCHANGED <<result, step, output, refs, approval, worktree, val, purge,
                   env>>

\* The next attempt of the current node; create_step is INSERT OR IGNORE.
Visit(e) ==
    LET a == attempts[e][node[e]] + 1
        s == <<node[e], a>>
    IN  /\ pc[e] = "visit"
        /\ a <= MaxAttempts
        /\ attempts' = [attempts EXCEPT ![e] = [@ EXCEPT ![node[e]] = a]]
        /\ SetStep(s, IF HasRow(s) THEN step[s] ELSE "PENDING")
        /\ Goto(e, IF Kind[node[e]] = "approval" THEN "approval" ELSE "read")
        /\ UNCHANGED <<run, result, output, refs, approval, worktree, node,
                       retries, repairs, val, purge, env>>

\* Faulty: a SUCCEEDED row is not looked for.
CachedNever == {}

\* The statuses run_step answers from the row, without invoking the function.
Cached == {"SUCCEEDED"}

\* run_step and the approval executor answer from a SUCCEEDED row.
ReadCached(e) ==
    /\ pc[e] \in {"read", "approval"}
    /\ step[StepOf(e)] \in Cached
    /\ Hold(e, output[StepOf(e)])
    /\ Goto(e, "advance")
    /\ UNCHANGED <<rows, worktree, walk, purge, env>>

\* run_step marks the step RUNNING and writes its first event; a machine
\* activity asks the guard, which writes the event, and then marks the step.
ReadFresh(e) ==
    /\ pc[e] = "read"
    /\ HasRow(StepOf(e))
    /\ step[StepOf(e)] \notin Cached
    /\ Goto(e, IF Machine(StepOf(e)) THEN "started" ELSE "mark")
    /\ UNCHANGED <<rows, worktree, walk, val, purge, env>>

\* The row was deleted by the reset of another engine: the SELECT yields None
\* and the subscript raises, or the INSERT that references the row raises (in
\* a machine activity, inside its try block).
RowGone(e) ==
    /\ pc[e] \in {"read", "started", "approval", "request"}
    /\ ~HasRow(StepOf(e))
    /\ Hold(e, "INTERNAL")
    /\ Goto(e, IF pc[e] = "started" /\ Machine(StepOf(e)) THEN "fail"
                                                          ELSE "raised")
    /\ UNCHANGED <<rows, worktree, walk, purge, env>>

\* UPDATE ... status = 'RUNNING', which hits no row if it is gone.
MarkRunning(e) ==
    LET s == StepOf(e)
    IN  /\ pc[e] = "mark"
        /\ SetStep(s, IF HasRow(s) THEN "RUNNING" ELSE "absent")
        /\ Goto(e, IF Machine(s) THEN "invoke" ELSE "started")
        /\ UNCHANGED <<run, result, output, refs, approval, worktree, walk,
                       val, purge, env>>

\* run_step: the step_started event, outside the try block.  A machine
\* activity: the guard's events for an action it allows.
StepStarted(e) ==
    /\ pc[e] = "started"
    /\ HasRow(StepOf(e))
    /\ refs' = refs \union {StepOf(e)}
    /\ Goto(e, IF Machine(StepOf(e)) THEN "mark" ELSE "invoke")
    /\ UNCHANGED <<run, result, step, output, approval, worktree, walk, val,
                   purge, env>>

\* A machine activity whose action cannot be built (a path, an argv or a URL
\* its constraints refuse), or that the guard denies, which writes an event.
ActionRefused(e) ==
    /\ pc[e] = "started"
    /\ Machine(StepOf(e))
    /\ HasRow(StepOf(e))
    /\ refs' \in {refs, refs \union {StepOf(e)}}
    /\ \E c \in FailureClasses : Hold(e, c)
    /\ Goto(e, "fail")
    /\ UNCHANGED <<run, result, step, output, approval, worktree, walk, purge,
                   env>>

\* The step function: an activity, an agent adapter, a gate's checks; _execute
\* in a machine activity.
InvokeReturns(e) ==
    /\ pc[e] = "invoke"
    /\ \E o \in OutputsOf(node[e]) : Hold(e, o)
    /\ Goto(e, "succeed")
    /\ UNCHANGED <<rows, worktree, walk, purge, env>>

InvokeRaises(e) ==
    /\ pc[e] = "invoke"
    /\ \E c \in FailureClasses : Hold(e, c)
    /\ Goto(e, "fail")
    /\ UNCHANGED <<rows, worktree, walk, purge, env>>

\* Faulty: the UPDATE to SUCCEEDED is not committed.
PersistSuccessUncommitted(e) ==
    /\ pc[e] = "succeed"
    /\ Goto(e, "advance")
    /\ UNCHANGED <<rows, worktree, walk, val, purge, env>>

\* The event that follows each of the next two commits adds no reference: the
\* step already has its step_started event, and so its row cannot be deleted.
PersistSuccess(e) ==
    /\ pc[e] = "succeed"
    /\ SetStep(StepOf(e), "SUCCEEDED")
    /\ output' = [output EXCEPT ![StepOf(e)] = val[e]]
    /\ Goto(e, "advance")
    /\ UNCHANGED <<run, result, refs, approval, worktree, walk, val, purge,
                   env>>

\* Faulty: the exception is stored as if it were the step's output.
PersistFailureAsOutput(e) ==
    /\ pc[e] = "fail"
    /\ SetStep(StepOf(e), "FAILED")
    /\ output' = [output EXCEPT ![StepOf(e)] = val[e]]
    /\ Goto(e, "raised")
    /\ UNCHANGED <<run, result, refs, approval, worktree, walk, val, purge, env>>

\* run_step records the failure of the step; a machine activity's _mark_failed
\* sets the run FAILED in the same commit, before the engine has decided
\* whether to retry.
PersistFailure(e) ==
    LET s == StepOf(e)
    IN  /\ pc[e] = "fail"
        /\ SetStep(s, IF HasRow(s) THEN "FAILED" ELSE "absent")
        /\ run' = IF Machine(s) THEN "FAILED" ELSE run
        /\ Goto(e, "raised")
        /\ UNCHANGED <<result, output, refs, approval, worktree, walk, val,
                       purge, env>>

-----------------------------------------------------------------------------
(* make_approval_node_executor *)

\* Faulty: a request that nobody rejected counts as approved.
ApprovalBranchLax == [none     |-> "request",
                      pending  |-> "grant",
                      rejected |-> "reject",
                      approved |-> "grant"]

\* The branch of the executor for what its SELECT on approvals found; on a
\* pending one it returns waiting_input.
ApprovalBranch == [none     |-> "request",
                   pending  |-> "report",
                   rejected |-> "reject",
                   approved |-> "grant"]

ReadApproval(e) ==
    /\ pc[e] = "approval"
    /\ HasRow(StepOf(e))
    /\ step[StepOf(e)] \notin Cached
    /\ Goto(e, ApprovalBranch[approval[StepOf(e)]])
    /\ Hold(e, "WAITING_INPUT")
    /\ UNCHANGED <<rows, worktree, walk, purge, env>>

\* INSERT the approval, mark step and run WAITING_APPROVAL, commit, event.
\* A second row for the same step is possible; every reader takes the oldest.
RequestApproval(e) ==
    /\ pc[e] = "request"
    /\ HasRow(StepOf(e))
    /\ approval' = [approval EXCEPT ![StepOf(e)] =
                       IF @ = "none" THEN "pending" ELSE @]
    /\ SetStep(StepOf(e), "WAITING_APPROVAL")
    /\ run' = "WAITING_APPROVAL"
    /\ refs' = refs \union {StepOf(e)}
    /\ Goto(e, "report")
    /\ UNCHANGED <<result, output, worktree, walk, val, purge, env>>

RejectApproval(e) ==
    /\ pc[e] = "reject"
    /\ SetStep(StepOf(e), "FAILED")
    /\ Hold(e, "APPROVAL_REJECTED")
    /\ Goto(e, "raised")
    /\ UNCHANGED <<run, result, output, refs, approval, worktree, walk, purge,
                   env>>

GrantApproval(e) ==
    /\ pc[e] = "grant"
    /\ SetStep(StepOf(e), "SUCCEEDED")
    /\ output' = [output EXCEPT ![StepOf(e)] = "ok"]
    /\ Hold(e, "ok")
    /\ Goto(e, "advance")
    /\ UNCHANGED <<run, result, refs, approval, worktree, walk, purge,
                   env>>

-----------------------------------------------------------------------------
(* run_workflow_definition: what follows a step *)

MayRetry(e) == /\ val[e] \in RetryOn
               /\ retries[e] < MaxRetries[node[e]]
               /\ HasRow(StepOf(e))

\* The step_retry_scheduled event names the failed step; the row of the next
\* attempt is INSERT OR IGNOREd as RETRY_WAIT; then the backoff.
Retry(e) ==
    LET a == attempts[e][node[e]] + 1
        s == <<node[e], a>>
    IN  /\ pc[e] = "raised"
        /\ MayRetry(e)
        /\ a <= MaxAttempts
        /\ refs' = refs \union {StepOf(e)}
        /\ SetStep(s, IF HasRow(s) THEN step[s] ELSE "RETRY_WAIT")
        /\ retries' = [retries EXCEPT ![e] = @ + 1]
        /\ Goto(e, "visit")
        /\ UNCHANGED <<run, result, output, approval, worktree, node, attempts,
                       repairs, val, purge, env>>

\* _mark_run_failed, and the same UPDATE in _run_workflow_safely.
FailRun(e) ==
    /\ run' = "FAILED"
    /\ Hold(e, "FAILED")
    /\ Goto(e, "report")

Abort(e) ==
    /\ pc[e] = "raised"
    /\ ~MayRetry(e)
    /\ FailRun(e)
    /\ UNCHANGED <<result, step, output, refs, approval, worktree, walk,
                   purge, env>>

\* Faulty: the verdict of a gate is not looked at.
AdvanceWhateverTheVerdict(e) ==
    /\ pc[e] = "advance"
    /\ NextNode[node[e]] # NoNode
    /\ node' = [node EXCEPT ![e] = NextNode[node[e]]]
    /\ retries' = [retries EXCEPT ![e] = 0]
    /\ Goto(e, "visit")
    /\ UNCHANGED <<rows, worktree, attempts, repairs, val, purge, env>>

Advance(e) ==
    /\ pc[e] = "advance"
    /\ val[e] \in Passing
    /\ NextNode[node[e]] # NoNode
    /\ node' = [node EXCEPT ![e] = NextNode[node[e]]]
    /\ retries' = [retries EXCEPT ![e] = 0]
    /\ Goto(e, "visit")
    /\ UNCHANGED <<rows, worktree, attempts, repairs, val, purge, env>>

ReachEnd(e) ==
    /\ pc[e] = "advance"
    /\ val[e] \in Passing
    /\ NextNode[node[e]] = NoNode
    /\ Goto(e, "finish")
    /\ UNCHANGED <<rows, worktree, walk, val, purge, env>>

\* Faulty: one repair too many.
GateOutOfBudgetLate(e) == repairs[e] > MaxRepairs

\* A failed gate with budget left goes to onFail; a gate without one raises
\* there, and _run_workflow_safely marks the run FAILED.
GateOutOfBudget(e) == repairs[e] >= MaxRepairs

GateEndsRun(e) == \/ val[e] = "terminal"
                  \/ GateOutOfBudget(e)
                  \/ OnFail[node[e]] = NoNode

\* Faulty: the repair is not counted.
GateRepairsUncounted(e) ==
    /\ pc[e] = "advance"
    /\ val[e] \notin Passing
    /\ ~GateEndsRun(e)
    /\ node' = [node EXCEPT ![e] = OnFail[node[e]]]
    /\ retries' = [retries EXCEPT ![e] = 0]
    /\ Goto(e, "visit")
    /\ UNCHANGED <<rows, worktree, attempts, repairs, val, purge, env>>

GateRepairs(e) ==
    /\ pc[e] = "advance"
    /\ val[e] \notin Passing
    /\ ~GateEndsRun(e)
    /\ repairs' = [repairs EXCEPT ![e] = @ + 1]
    /\ node' = [node EXCEPT ![e] = OnFail[node[e]]]
    /\ retries' = [retries EXCEPT ![e] = 0]
    /\ Goto(e, "visit")
    /\ UNCHANGED <<rows, worktree, attempts, val, purge, env>>

GateFailsRun(e) ==
    /\ pc[e] = "advance"
    /\ val[e] \notin Passing
    /\ GateEndsRun(e)
    /\ FailRun(e)
    /\ UNCHANGED <<result, step, output, refs, approval, worktree, walk,
                   purge, env>>

\* The rendered outputs match the output schema, or they do not.
SucceedRun(e) ==
    /\ pc[e] = "finish"
    /\ run' = "SUCCEEDED"
    /\ Hold(e, "SUCCEEDED")
    /\ Goto(e, "report")
    /\ UNCHANGED <<result, step, output, refs, approval, worktree, walk,
                   purge, env>>

RejectOutputs(e) ==
    /\ pc[e] = "finish"
    /\ FailRun(e)
    /\ UNCHANGED <<result, step, output, refs, approval, worktree, walk,
                   purge, env>>

\* The UPDATE of output_json in _execute_run and op_run_resume.
Report(e) ==
    /\ pc[e] = "report"
    /\ result' = val[e]
    /\ Goto(e, "cleanup")
    /\ UNCHANGED <<run, step, output, refs, approval, worktree, walk, val,
                   purge, env>>

\* Faulty: the worktree of a failed run is not kept for inspection.
RemovesWorktreeWhenTerminal(r) == r \in TerminalRunStatuses

\* The results on which _cleanup_run_workspace removes the worktree.
RemovesWorktree(r) == r = "SUCCEEDED" /\ ~RetainWorktree

Cleanup(e) ==
    /\ pc[e] = "cleanup"
    /\ worktree' = IF RemovesWorktree(val[e]) THEN "removed" ELSE worktree
    /\ Goto(e, "idle")
    /\ Forget(e)
    /\ UNCHANGED <<rows, deciding, crashes>>

-----------------------------------------------------------------------------
(* The environment *)

\* The process dies between two of its steps (an open transaction is rolled
\* back, committed rows stay).
Crash(e) ==
    /\ pc[e] # "idle"
    /\ crashes < MaxCrashes
    /\ crashes' = crashes + 1
    /\ Goto(e, "idle")
    /\ Forget(e)
    /\ UNCHANGED <<rows, worktree, deciding>>

\* An exception outside the walk: git while the worktree is made, the building
\* of the executors, the report or the clean-up, which may have removed the
\* worktree before it raises.  It leaves op_run_start or op_run_resume; the
\* thread of an asynchronous start catches it and sets the run FAILED, whatever
\* status the run has.
CallRaises(e) ==
    /\ pc[e] \in {"created", "begin", "report", "cleanup"}
    /\ run' = IF e \in worker THEN "FAILED" ELSE run
    /\ worktree' \in {worktree} \union
                       {w \in {"removed"} : /\ pc[e] = "cleanup"
                                            /\ RemovesWorktree(val[e])}
    /\ Goto(e, "idle")
    /\ Forget(e)
    /\ UNCHANGED <<result, step, output, refs, approval, deciding, crashes>>

Decisions == {"approved", "rejected"}

\* _decide_approval, of op_approval_approve and op_approval_reject: a SELECT
\* that finds the approval pending, then an UPDATE that does not look again.
CheckPending(o, s, decision) ==
    /\ approval[s] = "pending"
    /\ \A d \in deciding : d[1] # o
    /\ deciding' = deciding \union {<<o, s, decision>>}
    /\ UNCHANGED <<rows, worktree, pc, walk, val, purge, worker, crashes>>

WriteDecision(o, s, decision) ==
    /\ <<o, s, decision>> \in deciding
    /\ approval' = [approval EXCEPT ![s] = decision]
    /\ deciding' = deciding \ {<<o, s, decision>>}
    /\ UNCHANGED <<run, result, step, output, refs, worktree, pc, walk, val,
                   purge, worker, crashes>>

StepExecution(e) ==
    \/ ReadCached(e) \/ ReadFresh(e) \/ RowGone(e) \/ MarkRunning(e)
    \/ StepStarted(e) \/ ActionRefused(e)
    \/ InvokeReturns(e) \/ InvokeRaises(e)
    \/ PersistSuccess(e) \/ PersistFailure(e)

ApprovalExecution(e) ==
    \/ ReadApproval(e) \/ RequestApproval(e) \/ RejectApproval(e)
    \/ GrantApproval(e)

Walk(e) ==
    \/ Begin(e) \/ Visit(e) \/ Retry(e) \/ Abort(e) \/ Advance(e)
    \/ ReachEnd(e) \/ GateRepairs(e) \/ GateFailsRun(e) \/ SucceedRun(e)
    \/ RejectOutputs(e) \/ Report(e) \/ Cleanup(e)

\* Everything a live process does on its own.
EngineStep(e) == CreateWorktree(e) \/ ResumeReset(e) \/ ResumeResetRaises(e)
                   \/ StepExecution(e) \/ ApprovalExecution(e) \/ Walk(e)

Next == \/ \E e \in Engines : \/ CreateRun(e)
                              \/ ResumeScan(e)
                              \/ EngineStep(e)
                              \/ CallRaises(e)
                              \/ Crash(e)
        \/ \E o \in Operators, s \in StepIds, d \in Decisions :
              CheckPending(o, s, d) \/ WriteDecision(o, s, d)

Spec == Init /\ [][Next]_vars

\* A live process runs on: step functions are bounded by adapter, command and
\* gateway timeouts.  Nobody promises a resume or an operator's decision.
Fairness == \A e \in Engines : WF_vars(EngineStep(e))
FairSpec == Spec /\ Fairness

-----------------------------------------------------------------------------
(* Properties *)

\* Every variable has its type; in particular a step that has no output yet
\* has output "none", and a decision in flight names a step of the run.
TypeOK ==
    /\ run \in RunStatuses
    /\ result \in Results
    /\ step \in [StepIds -> StepStatuses]
    /\ output \in [StepIds -> Outputs]
    /\ refs \subseteq StepIds
    /\ approval \in [StepIds -> {"none", "pending", "approved", "rejected"}]
    /\ worktree \in {"absent", "present", "removed"}
    /\ pc \in [Engines -> Locations]
    /\ node \in [Engines -> Nodes]
    /\ attempts \in [Engines -> [Nodes -> 0..MaxAttempts]]
    /\ retries \in [Engines -> Nat]
    /\ repairs \in [Engines -> Nat]
    /\ val \in [Engines -> Outputs \union FailureClasses \union Results]
    /\ purge \in [Engines -> SUBSET Nodes]
    /\ worker \subseteq Engines
    /\ deciding \subseteq Operators \X StepIds \X Decisions
    /\ crashes \in 0..MaxCrashes

\* The nodes a walk still visits from n on when no gate fails: the least set
\* that holds n and follows "next".
FollowsNext(P) == \A n \in P : NextNode[n] # NoNode => NextNode[n] \in P
Ahead(n) == {m \in Nodes : \A P \in SUBSET Nodes :
                              (n \in P /\ FollowsNext(P)) => m \in P}

\* The workflows the next properties are about: a gate's repair branch leads
\* back to the gate (true of every workflow under config/app_registry).
RepairsLeadBack == \A g \in Nodes : OnFail[g] # NoNode => g \in Ahead(OnFail[g])

Settled(n) == \E s \in StepIds : /\ s[1] = n
                                 /\ step[s] = "SUCCEEDED"
                                 /\ output[s] \in Passing

\* A run that reached SUCCEEDED, over whatever crashes, resumes, retries and
\* repairs, has for every node of its path a persisted, successful attempt,
\* and for every gate of it a persisted passing verdict.
SucceededRunIsComplete ==
    run = "SUCCEEDED" => \A n \in Ahead(Start) : Settled(n)

Walking == {"visit", "read", "mark", "started", "invoke", "succeed", "fail",
            "approval", "request", "reject", "grant", "raised", "advance"}

\* Section 13.2, "persisted before the workflow logic proceeds past it": every
\* node the engine has left behind on the path to its current one is settled in
\* the database, also after a restart that re-walked them.
ProceedsOnlyPastSettled ==
    \A e \in Engines : pc[e] \in Walking =>
        \A n \in Ahead(Start) \ Ahead(node[e]) : Settled(n)

\* Section 12.3, "if the candidate still fails when the limit is reached, the
\* Run moves to FAILED": a run with more recorded failing verdicts than its
\* repair budget never succeeds.  repairs_used is a local variable; after a
\* crash only the replay of the recorded verdicts brings it back.  Where gates
\* are retried after an exception it does not: a replay that meets the failed
\* attempt of a gate invokes it again before the verdicts that followed it.
ExhaustedRepairsFailRun ==
    Cardinality({s \in StepIds : output[s] \in {"failed", "terminal"}})
       > MaxRepairs => run # "SUCCEEDED"

InFlight(s) == step[s] \in {"RUNNING", "RETRY_WAIT"}

\* A terminal run, which no later scan picks up, leaves no step in flight: a
\* SUCCEEDED run never, a FAILED one only when a machine activity of it has
\* failed, set the run FAILED, and is being retried (or was when its process
\* died, and then the attempt stays in flight for good).
TerminalRunIsQuiet ==
    (\E s \in StepIds : InFlight(s)) =>
        /\ run # "SUCCEEDED"
        /\ run = "FAILED" => \E t \in StepIds : Machine(t) /\ step[t] = "FAILED"

\* The worktree is removed only once the run's success is in output_json, and
\* no engine that still walks loses it.  (The run's status may be FAILED then:
\* the thread of an asynchronous start overwrites it when the clean-up raises.)
WorktreeOutlivesRun ==
    worktree = "removed" => /\ run \in TerminalRunStatuses
                            /\ result = "SUCCEEDED"
                            /\ \A e \in Engines : pc[e] \notin Walking

\* A run that reached SUCCEEDED had an approved approval for every approval
\* node of its path, whichever engines raced for it.
SucceededRunWasApproved ==
    run = "SUCCEEDED" =>
        \A n \in Ahead(Start) : Kind[n] = "approval" =>
            \E s \in StepIds : s[1] = n /\ approval[s] = "approved"

\* Every step an event names still has its row: the resume's DELETEs never
\* leave the history dangling.
ReferencedRowsExist == \A s \in refs : HasRow(s)

KeepsSucceeded ==
    \A s \in StepIds : step[s] = "SUCCEEDED" =>
        step'[s] = "SUCCEEDED" /\ output'[s] = output[s]

\* A step recorded SUCCEEDED keeps its status and its output for ever, and so
\* run_step never invokes its function again (engine/executor.py:4-6).
SucceededIsFinal == [][KeepsSucceeded]_vars

\* Section 13.1, "RUNNING -> {SUCCEEDED, FAILED}" with no way on from either: a
\* run that is FAILED stays FAILED, so whoever polls it may stop (ADR-0033).
FailedIsFinal == [][run = "FAILED" => run' = "FAILED"]_vars

\* ADR-0030, decision 3: a resume clears the attempts that were RUNNING or in
\* RETRY_WAIT when the engine died.
ResumeClearsInterrupted ==
    [][\A e \in Engines : pc[e] = "reset" /\ pc'[e] # "reset" /\ crashes' = crashes =>
          \A s \in StepIds : step'[s] \notin {"RUNNING", "RETRY_WAIT"}]_vars

\* Every walk ends: op_run_start and op_run_resume return to their caller.
EveryWalkEnds == \A e \in Engines : pc[e] # "idle" ~> pc[e] = "idle"

-----------------------------------------------------------------------------
(* What the run promises *)

Lifecycle == INSTANCE RunLifecycle WITH
    Steps <- StepIds,
    Required <- Ahead(Start),
    status <- run,
    driven <- \E e \in Engines : pc[e] # "idle",
    done <- {<<s, output[s]>> : s \in {t \in StepIds : step[t] = "SUCCEEDED"}}

\* The run, with its engines dying and resuming, implements the abstract
\* durable run of RunLifecycle.
ImplementsLifecycle == Lifecycle!Spec
=============================================================================
