------------------------- MODULE ImprovementProposal -------------------------
(***************************************************************************)
(* The improvement proposals of one run, from the candidate in the run's   *)
(* worktree to the merge a person consented to (ADR-0022):                 *)
(* improvement/proposals.py, with the git helpers of improvement/diff.py   *)
(* and isolation/worktree.py, eval/runner.py and ops/approval.py.          *)
(*                                                                         *)
(* Callers are processes or threads that serve an operation (the CLI, the  *)
(* JSON-RPC server).  Every operation reads its row first, acts on what it *)
(* has read and writes last, so each is two or more actions; the rows,     *)
(* both git trees and the approvals are shared.  A call that raises on     *)
(* what it reads first changes nothing and is not an action.               *)
(*                                                                         *)
(* A commit is a number.  What git says of two commits is kept as the set  *)
(* of commits each branch contains and the commit the candidate forks off. *)
(***************************************************************************)
EXTENDS Naturals

CONSTANTS
    Callers,
    Branches,       \* branches of the target repository
    Trunk,          \* the branch checked out when the run started
    Evidence,       \* verdict artifacts of the run, with validation artifacts
    Passing,        \* those whose verdict passed
    \* Nothing in the code keeps people from either of these; FALSE restricts a
    \* run, or a theorem that says so, to those who refrain from it.
    Interference,   \* do they commit to either tree while a merge() runs?
    Switching,      \* do they check out another branch during a review?
    MaxProposals,   \* bounds of the model: rows, and commits made
    MaxApprovals,
    MaxCommits

ASSUME ProposalAssumption ==
    /\ Trunk \in Branches
    /\ Passing \subseteq Evidence
    /\ "none" \notin Evidence
    /\ Interference \in BOOLEAN
    /\ Switching \in BOOLEAN
    /\ MaxProposals \in Nat
    /\ MaxApprovals \in Nat
    /\ MaxCommits \in Nat \ {0}

VARIABLES
    \* rows of the database, and the test-result artifacts
    proposal,   \* improvement_proposals
    approval,   \* approvals of the merge steps
    mergeStep,  \* steps.status of a proposal's merge-review step
    tested,     \* commits some passing test-result artifact names
    \* the target repository
    checkedOut,
    tip,        \* head of each branch
    log,        \* commits each branch contains
    merges,     \* merge commits of candidates, each with the proposal merged
                \* and the action that the call had checked an approval of
    \* the candidate: the run's worktree and branch
    worktree,
    head,       \* HEAD of the worktree, the tip of the candidate branch
    fork,       \* the target's commit the candidate is built on
    \* callers
    pc,
    held,       \* the row and the approval a caller has read
    \* bound
    commits

rows == <<proposal, approval, mergeStep, tested>>
repository == <<checkedOut, tip, log, merges>>
candidate == <<worktree, head, fork>>
callers == <<pc, held>>
vars == <<proposal, approval, mergeStep, tested, checkedOut, tip, log, merges,
          worktree, head, fork, pc, held, commits>>

-----------------------------------------------------------------------------
(* Data *)

Proposals == 1..MaxProposals
Approvals == 1..MaxApprovals
Commits == 0..MaxCommits

NoRow == [status |-> "none", target |-> Trunk, base |-> 0, candidate |-> 0,
          evidence |-> "none", mergeCommit |-> 0]

Row == [status : {"none", "draft", "ready_for_review", "merged", "rejected"},
        target : Branches,
        base : Commits,
        candidate : Commits,
        evidence : Evidence \union {"none"},
        mergeCommit : Commits]

\* _merge_action_payload: what an approval of the merge is bound to.
MergeAction(r) == [target |-> r.target, base |-> r.base,
                   candidate |-> r.candidate, evidence |-> r.evidence]

Action == [target : Branches, base : Commits, candidate : Commits,
           evidence : Evidence \union {"none"}]

ApprovalRow ==
    [proposal : Proposals \union {0},
     action : Action,
     status : {"none", "pending", "approved", "rejected"}]

NoApproval == [proposal |-> 0, action |-> MergeAction(NoRow), status |-> "none"]

NothingHeld == [id |-> 0, row |-> NoRow]

Exists(id) == proposal[id].status # "none"
Asked(a) == approval[a].status # "none"

\* The oldest of the rows that satisfy a condition, 0 when there is none.
Oldest(S) == IF S = {} THEN 0 ELSE CHOOSE x \in S : \A y \in S : x <= y

FreeProposal == Oldest({id \in Proposals : ~Exists(id)})
FreeApproval == Oldest({a \in Approvals : ~Asked(a)})
ApprovalFor(id) == Oldest({a \in Approvals : Asked(a) /\ approval[a].proposal = id})

Goto(c, l) == pc' = [pc EXCEPT ![c] = l]

\* A caller keeps of what it has read the part it will still use.
Hold(c, id, row) == held' = [held EXCEPT ![c] = [id |-> id, row |-> row]]
Return(c) == /\ Goto(c, "idle")
             /\ held' = [held EXCEPT ![c] = NothingHeld]

\* The run has SUCCEEDED and left one commit in its retained worktree.
Init ==
    /\ proposal = [id \in Proposals |-> NoRow]
    /\ approval = [a \in Approvals |-> NoApproval]
    /\ mergeStep = [id \in Proposals |-> "absent"]
    /\ tested = {}
    /\ checkedOut = Trunk
    /\ tip = [b \in Branches |-> 0]
    /\ log = [b \in Branches |-> {0}]
    /\ merges = {}
    /\ worktree = "present"
    /\ head = 1
    /\ fork = 0
    /\ pc = [c \in Callers |-> "idle"]
    /\ held = [c \in Callers |-> NothingHeld]
    /\ commits = 1

-----------------------------------------------------------------------------
(* prepare, mark_ready, verify *)

MergeBase(b) == IF fork \in log[b] THEN fork ELSE 0

\* What git and the SELECT say; an empty diff raises.
PrepareRead(c) ==
    /\ pc[c] = "idle"
    /\ worktree = "present"
    /\ head \notin log[checkedOut]
    /\ Hold(c, Oldest({id \in Proposals : Exists(id)}),
               [NoRow EXCEPT !.status = "draft",
                             !.target = checkedOut,
                             !.base = MergeBase(checkedOut),
                             !.candidate = head])
    /\ Goto(c, "prepare")
    /\ UNCHANGED <<rows, repository, candidate, commits>>

\* INSERT, or the UPDATE that resets status and evidence of the row found.
PrepareWrite(c) ==
    LET id == IF held[c].id # 0 THEN held[c].id ELSE FreeProposal
    IN  /\ pc[c] = "prepare"
        /\ id # 0
        /\ proposal' = [proposal EXCEPT ![id] =
              [held[c].row EXCEPT !.mergeCommit = proposal[id].mergeCommit]]
        /\ Return(c)
        /\ UNCHANGED <<approval, mergeStep, tested, repository, candidate,
                       commits>>

\* Any verdict of the run that passed, whichever commit it judged.
MarkReadyRead(c, id) ==
    /\ pc[c] = "idle"
    /\ proposal[id].status \in {"draft", "ready_for_review"}
    /\ \E e \in Passing : Hold(c, id, [NoRow EXCEPT !.evidence = e])
    /\ Goto(c, "ready")
    /\ UNCHANGED <<rows, repository, candidate, commits>>

MarkReadyWrite(c) ==
    /\ pc[c] = "ready"
    /\ proposal' = [proposal EXCEPT
          ![held[c].id] = [@ EXCEPT !.status = "ready_for_review",
                                    !.evidence = held[c].row.evidence]]
    /\ Return(c)
    /\ UNCHANGED <<approval, mergeStep, tested, repository, candidate, commits>>

VerifyRead(c, id) ==
    /\ pc[c] = "idle"
    /\ Exists(id)
    /\ worktree = "present"
    /\ Hold(c, id, [NoRow EXCEPT !.candidate = proposal[id].candidate])
    /\ Goto(c, "verify")
    /\ UNCHANGED <<rows, repository, candidate, commits>>

\* run_evaluation: the commands run in the worktree as it then is; the artifact
\* names the commit of the row.  Only a passing artifact is ever asked for.
VerifyRecord(c) ==
    /\ pc[c] = "verify"
    /\ \/ /\ worktree = "present"
          /\ tested' = tested \union {held[c].row.candidate}
       \/ UNCHANGED tested
    /\ Return(c)
    /\ UNCHANGED <<proposal, approval, mergeStep, repository, candidate,
                   commits>>

-----------------------------------------------------------------------------
(* request_merge and the operator's decision *)

\* Faulty: the candidate is not compared with the worktree.
UnmovedTarget(r) ==
    /\ worktree = "present"
    /\ tip[r.target] = r.base

\* _recheck_identities; equal commits have an equal diff digest.
Unmoved(r) ==
    /\ worktree = "present"
    /\ tip[r.target] = r.base
    /\ head = r.candidate

RequestRead(c, id) ==
    /\ pc[c] = "idle"
    /\ proposal[id].status = "ready_for_review"
    /\ Hold(c, id, proposal[id])
    /\ Goto(c, "asking")
    /\ UNCHANGED <<rows, repository, candidate, commits>>

\* Faulty: the request does not ask for a passing test result.
MayAskUntested(r) == Unmoved(r)

\* What both request_merge and merge demand of the row they have read.
MayAsk(r) == Unmoved(r) /\ r.candidate \in tested

\* create_step, then the SELECT for an approval: one that exists is returned,
\* or refused when it is bound to another action.
RequestCheck(c) ==
    LET id == held[c].id
    IN  /\ pc[c] = "asking"
        /\ MayAsk(held[c].row)
        /\ mergeStep' = [mergeStep EXCEPT ![id] = IF @ = "absent" THEN "PENDING"
                                                                  ELSE @]
        /\ IF ApprovalFor(id) = 0
           THEN Goto(c, "request") /\ UNCHANGED held
           ELSE Return(c)
        /\ UNCHANGED <<proposal, approval, tested, repository, candidate,
                       commits>>

RequestWrite(c) ==
    /\ pc[c] = "request"
    /\ FreeApproval # 0
    /\ approval' = [approval EXCEPT ![FreeApproval] =
          [proposal |-> held[c].id, action |-> MergeAction(held[c].row),
           status |-> "pending"]]
    /\ mergeStep' = [mergeStep EXCEPT ![held[c].id] = "WAITING_APPROVAL"]
    /\ Return(c)
    /\ UNCHANGED <<proposal, tested, repository, candidate, commits>>

\* A check that fails raises and ends the call.
CheckRaises(c) ==
    /\ pc[c] \in {"asking", "merging"}
    /\ ~MayAsk(held[c].row)
    /\ Return(c)
    /\ UNCHANGED <<rows, repository, candidate, commits>>

\* _decide_approval, here in one step (DurableRun has the race of two).
Decide(a, decision) ==
    /\ approval[a].status = "pending"
    /\ approval' = [approval EXCEPT ![a].status = decision]
    /\ UNCHANGED <<proposal, mergeStep, tested, repository, candidate, callers,
                   commits>>

-----------------------------------------------------------------------------
(* merge and reject *)

\* Faulty: the digest of the approved action is not compared.
ConsentsToAny(a, id) ==
    /\ approval[a].proposal = id
    /\ approval[a].status = "approved"

Consents(a, id) ==
    /\ approval[a].proposal = id
    /\ approval[a].status = "approved"
    /\ approval[a].action = MergeAction(proposal[id])

\* merge() does not look at the status of the proposal.
MergeRead(c, id, a) ==
    /\ pc[c] = "idle"
    /\ Exists(id)
    /\ Consents(a, id)
    /\ Hold(c, id, proposal[id])
    /\ Goto(c, "merging")
    /\ UNCHANGED <<rows, repository, candidate, commits>>

\* Faulty: the merge is recorded before git has done it.
MergeCheckRecords(c) ==
    /\ pc[c] = "merging"
    /\ MayAsk(held[c].row)
    /\ Goto(c, "git")
    /\ proposal' = [proposal EXCEPT
          ![held[c].id] = [@ EXCEPT !.status = "merged",
                                    !.mergeCommit = tip[checkedOut]]]
    /\ UNCHANGED <<approval, mergeStep, tested, repository, candidate, held,
                   commits>>

MergeCheck(c) ==
    /\ pc[c] = "merging"
    /\ MayAsk(held[c].row)
    /\ Goto(c, "git")
    /\ UNCHANGED <<rows, repository, candidate, held, commits>>

\* merge_branch: git merge --no-ff of the candidate branch into whatever is
\* checked out, which does nothing when that already contains it.
GitMerge(c) ==
    LET new == commits + 1
    IN  /\ pc[c] = "git"
        /\ worktree = "present"
        /\ \/ /\ head \in log[checkedOut]
              /\ UNCHANGED <<tip, log, merges, commits>>
           \/ /\ head \notin log[checkedOut]
              /\ new <= MaxCommits
              /\ tip' = [tip EXCEPT ![checkedOut] = new]
              /\ log' = [log EXCEPT ![checkedOut] = @ \union {head, new}]
              /\ merges' = merges \union
                    {[commit |-> new, into |-> checkedOut,
                      parent |-> tip[checkedOut], candidate |-> head,
                      proposal |-> held[c].id,
                      action |-> MergeAction(held[c].row)]}
              /\ commits' = new
        /\ Goto(c, "record")
        /\ Hold(c, held[c].id, NoRow)
        /\ UNCHANGED <<rows, checkedOut, candidate>>

\* A conflict is aborted; the branch is gone; the index is locked.
GitMergeFails(c) ==
    /\ pc[c] = "git"
    /\ Return(c)
    /\ UNCHANGED <<rows, repository, candidate, commits>>

\* The row and the merge step, in one transaction.
MergeRecord(c) ==
    /\ pc[c] = "record"
    /\ proposal' = [proposal EXCEPT
          ![held[c].id] = [@ EXCEPT !.status = "merged",
                                    !.mergeCommit = tip[checkedOut]]]
    /\ mergeStep' = [mergeStep EXCEPT ![held[c].id] = "SUCCEEDED"]
    /\ Goto(c, "remove")
    /\ Hold(c, 0, NoRow)
    /\ UNCHANGED <<approval, tested, repository, candidate, commits>>

RejectRead(c, id) ==
    /\ pc[c] = "idle"
    /\ proposal[id].status \in {"draft", "ready_for_review"}
    /\ Hold(c, id, NoRow)
    /\ Goto(c, "reject")
    /\ UNCHANGED <<rows, repository, candidate, commits>>

RejectWrite(c) ==
    /\ pc[c] = "reject"
    /\ proposal' = [proposal EXCEPT ![held[c].id] = [@ EXCEPT !.status = "rejected"]]
    /\ Goto(c, "remove")
    /\ Hold(c, 0, NoRow)
    /\ UNCHANGED <<approval, mergeStep, tested, repository, candidate, commits>>

\* remove_worktree also deletes the candidate branch.
Remove(c) ==
    /\ pc[c] = "remove"
    /\ worktree' = "removed"
    /\ Return(c)
    /\ UNCHANGED <<rows, repository, head, fork, commits>>

-----------------------------------------------------------------------------
(* The environment *)

\* A process dies with its call half done.  One that dies before its first
\* write leaves nothing behind, as if the call had not been made.
Crash(c) ==
    /\ pc[c] \in {"request", "record", "remove"}
    /\ Return(c)
    /\ UNCHANGED <<rows, repository, candidate, commits>>

\* Nobody commits to the trees between the checks of merge() and its record.
Quiet == Interference \/ \A c \in Callers : pc[c] \notin {"git", "record"}

\* A commit in the worktree, on the same fork or rebased on the checked out one.
Amend ==
    /\ Quiet
    /\ worktree = "present"
    /\ commits < MaxCommits
    /\ commits' = commits + 1
    /\ head' = commits + 1
    /\ fork' \in {fork, tip[checkedOut]}
    /\ UNCHANGED <<rows, repository, worktree, callers>>

\* A commit of somebody else on the branch that is checked out.
TargetMoves ==
    /\ Quiet
    /\ commits < MaxCommits
    /\ commits' = commits + 1
    /\ tip' = [tip EXCEPT ![checkedOut] = commits + 1]
    /\ log' = [log EXCEPT ![checkedOut] = @ \union {commits + 1}]
    /\ UNCHANGED <<rows, checkedOut, merges, candidate, callers>>

\* Nobody has prepared a proposal yet.
Unreviewed == /\ \A id \in Proposals : ~Exists(id)
              /\ \A c \in Callers : pc[c] = "idle"

Checkout(b) ==
    /\ Quiet
    /\ Switching \/ Unreviewed
    /\ b # checkedOut
    /\ checkedOut' = b
    /\ UNCHANGED <<rows, tip, log, merges, candidate, callers, commits>>

Preparing(c) == PrepareRead(c) \/ PrepareWrite(c)

Reviewing(c) == \/ MarkReadyWrite(c) \/ VerifyRecord(c)
                \/ \E id \in Proposals : MarkReadyRead(c, id) \/ VerifyRead(c, id)

Asking(c) == \/ RequestCheck(c) \/ RequestWrite(c) \/ CheckRaises(c)
             \/ \E id \in Proposals : RequestRead(c, id)

Merging(c) == \/ MergeCheck(c) \/ GitMerge(c) \/ GitMergeFails(c)
              \/ MergeRecord(c)
              \/ \E id \in Proposals, a \in Approvals : MergeRead(c, id, a)

Closing(c) == \/ RejectWrite(c) \/ Remove(c)
              \/ \E id \in Proposals : RejectRead(c, id)

Next == \/ \E c \in Callers : \/ Preparing(c) \/ Reviewing(c) \/ Asking(c)
                              \/ Merging(c) \/ Closing(c) \/ Crash(c)
        \/ \E a \in Approvals, d \in {"approved", "rejected"} : Decide(a, d)
        \/ Amend \/ TargetMoves
        \/ \E b \in Branches : Checkout(b)

Spec == Init /\ [][Next]_vars

-----------------------------------------------------------------------------
(* Properties *)

\* Every variable has its type; in particular no operation leaves a proposal
\* in "approved" or "abandoned", which the schema allows and nothing handles.
TypeOK ==
    /\ proposal \in [Proposals -> Row]
    /\ approval \in [Approvals -> ApprovalRow]
    /\ mergeStep \in [Proposals -> {"absent", "PENDING", "WAITING_APPROVAL",
                                    "SUCCEEDED"}]
    /\ tested \subseteq Commits
    /\ checkedOut \in Branches
    /\ tip \in [Branches -> Commits]
    /\ log \in [Branches -> SUBSET Commits]
    /\ merges \subseteq [commit : Commits, into : Branches, parent : Commits,
                         candidate : Commits, proposal : Proposals \union {0},
                         action : Action]
    /\ worktree \in {"present", "removed"}
    /\ head \in Commits
    /\ fork \in Commits
    /\ pc \in [Callers -> {"idle", "prepare", "ready", "verify", "asking",
                           "request", "merging", "git", "record", "reject",
                           "remove"}]
    /\ held \in [Callers -> [id : Proposals \union {0}, row : Row]]
    /\ commits \in Commits

\* ADR-0022, "AWF never merges its own change": git merges only for a call that
\* holds a person's approval, for that very proposal, of the action it is about
\* to take, on a candidate that was tested, also when proposals are prepared
\* again between the ask, the answer and the merge.  And unless somebody commits
\* to a tree while the call runs, what is merged is the candidate of the
\* approval, and on the commit of the approval if it goes into its branch.
MergesAreApproved ==
    \A m \in merges :
        /\ m.action.candidate \in tested
        /\ \E a \in Approvals : /\ approval[a].status = "approved"
                                /\ approval[a].proposal = m.proposal
                                /\ approval[a].action = m.action
        /\ ~Interference =>
              /\ m.candidate = m.action.candidate
              /\ m.into = m.action.target => m.parent = m.action.base

\* ADR-0022, "a changed candidate commit or target branch invalidates the merge
\* approval": every merge commit has the candidate, the parent and the
\* branch of an action that a person approved for the proposal merged.
OnlyConsentedMerges ==
    \A m \in merges : \E a \in Approvals :
        /\ approval[a].status = "approved"
        /\ approval[a].proposal = m.proposal
        /\ approval[a].action.candidate = m.candidate
        /\ approval[a].action.base = m.parent
        /\ approval[a].action.target = m.into

\* "Verification precedes merge approval": whoever is asked to approve a merge
\* is asked about a candidate with a passing test result and a passing verdict,
\* whatever was prepared, verified or marked ready at the same time.
VerifiedBeforeAsked ==
    \A a \in Approvals : Asked(a) =>
        /\ approval[a].action.candidate \in tested
        /\ approval[a].action.evidence \in Passing

\* A proposal reported as merged, and its merge step as SUCCEEDED, have a merge
\* commit in the history, of a candidate approved for that very proposal; as long
\* as nobody checks out another branch during a review or commits during a merge().
RecordedMergesHappened ==
    \A id \in Proposals :
        /\ proposal[id].status = "merged" =>
              \E m \in merges : m.commit = proposal[id].mergeCommit
        /\ mergeStep[id] = "SUCCEEDED" =>
              \E m \in merges, a \in Approvals :
                  /\ approval[a].proposal = id
                  /\ approval[a].status = "approved"
                  /\ approval[a].action.candidate = m.candidate

\* A proposal changes the target once, over crashes between git and the
\* database, repeated calls, candidates prepared again and approvals asked twice;
\* as long as nobody checks out another branch, into which git would merge again.
MergedAtMostOnce ==
    \A m, n \in merges : m.proposal = n.proposal => m = n
=============================================================================
