--------------------------- MODULE GovernedProofs ---------------------------
(***************************************************************************)
(* Theorems about GovernedSteps, for any definitions the calls may find,    *)
(* any retry policy and any number of retries, crashes and edits.           *)
(***************************************************************************)
EXTENDS GovernedSteps, SequenceTheorems, TLAPS

-----------------------------------------------------------------------------
(* What the Guard says and what is approved, for a given type of node *)

Decision(k, w) ==
    IF k = "agent"
    THEN Evaluate(w.capability, AgentAllowlist(w.manifest, w.capability), w.role)
    ELSE Evaluate(w.capability, {w.capability.ref}, "none")

ActionIn(k, w) ==
    [ref |-> w.capability.ref, operation |-> w.capability.operation,
     risk |-> w.capability.risk, approval |-> w.capability.approval,
     role |-> IF k = "agent" THEN w.role ELSE "none",
     target |-> w.target]

Actions == {NoAction} \cup {ActionIn(k, w) : k \in {"agent", "machine"}, w \in Worlds}

-----------------------------------------------------------------------------
(* The inductive invariant *)

Places == {"idle", "visit", "call", "check", "ensure", "start", "perform",
           "succeeded", "commit", "mark_failed", "raised", "advance"}
StepStatuses == {"absent", "PENDING", "RUNNING", "RETRY_WAIT", "WAITING_APPROVAL",
                 "SUCCEEDED", "FAILED"}
Approvals == [status : {"none", "pending", "approved", "rejected"}, action : Actions,
              channel : {"none", "manual", "voice"}]
Acts == [attempt : Attempts, found : Worlds]

\* Every variable has its type, and a walk is at the attempt after its retries.
GovernedTypeOK ==
    /\ kind \in {"agent", "machine"}
    /\ world \in Worlds /\ held \in Worlds
    /\ run \in {"CREATED", "RUNNING", "WAITING_APPROVAL", "SUCCEEDED", "FAILED"}
    /\ step \in [Attempts -> StepStatuses]
    /\ approval \in [Attempts -> Approvals]
    /\ dirty \in BOOLEAN /\ committed \in BOOLEAN
    /\ pc \in Places
    /\ attempt \in Nat /\ retries \in 0..MaxRetries
    /\ pc = "visit" => attempt = retries
    /\ pc \notin {"idle", "visit"} => attempt = retries + 1
    /\ acts \in Seq(Acts)
    /\ crashes \in Nat

Performed == 1..Len(acts)
Acted(a) == \E i \in Performed : acts[i].attempt = a

\* What makes it right to perform what was found, in an attempt.
Authorized(a, w) ==
    \/ Decision(kind, w) = "allow"
    \/ /\ approval[a].status = "approved"
       /\ approval[a].action = ActionIn(kind, w)
       /\ approval[a].channel = "voice" => VoiceMayDecide(w.capability.risk)

\* A call past the check is authorized, and was by an approval if it skipped
\* the Guard; voice has decided only what it may.
AuthorizedFromTheCheckOn ==
    /\ \A i \in Performed : Authorized(acts[i].attempt, acts[i].found)
    /\ pc \in {"start", "perform"} => Authorized(attempt, held)
    /\ \A a \in Attempts :
          /\ step[a] = "WAITING_APPROVAL" => approval[a].status # "none"
          /\ approval[a].status = "approved" /\ approval[a].channel = "voice" =>
                VoiceMayDecide(approval[a].action.risk)

NeedsApproval(w) == kind = "machine" /\ Decision(kind, w) # "allow"
Used(a) == \E i \in Performed : acts[i].attempt = a /\ NeedsApproval(acts[i].found)

\* A machine step that may go on with its approval is still waiting for it, and
\* once it has gone on it never waits again.
ApprovalUsedUp ==
    /\ \A a \in Attempts : Used(a) => step[a] # "WAITING_APPROVAL"
    /\ NeedsApproval(held) =>
          /\ pc = "start" => step[attempt] = "WAITING_APPROVAL"
          /\ pc = "perform" => step[attempt] # "WAITING_APPROVAL" /\ ~Used(attempt)
    /\ \A i, j \in Performed :
          (/\ acts[i].attempt = acts[j].attempt
           /\ NeedsApproval(acts[i].found)
           /\ NeedsApproval(acts[j].found)) => i = j

Succeeded(a) == step[a] = "SUCCEEDED"

\* A success is recorded of an attempt that acted, and stays recorded once the
\* walk has read it.
SuccessIsRecorded ==
    /\ \A a \in Attempts : Succeeded(a) => Acted(a)
    /\ pc = "succeeded" => Acted(attempt)
    /\ pc \in {"commit", "advance"} => Succeeded(attempt)
    /\ pc \in {"check", "ensure", "start", "perform", "succeeded", "mark_failed"}
          => ~Succeeded(attempt)
    /\ run = "SUCCEEDED" \/ committed => \E a \in Attempts : Succeeded(a)
    /\ pc # "idle" => run # "SUCCEEDED"

\* Without a crash, and when a commit that fails is not retried, the walk that
\* records a success is the last one, and it ends with the commit or FAILED.
CommittedAtTheEnd ==
    crashes = 0 /\ "INTERNAL" \notin RetryOn =>
        /\ dirty => kind = "agent"
        /\ kind = "agent" /\ (\E a \in Attempts : Succeeded(a)) =>
              \/ pc \in {"commit", "advance"}
              \/ pc = "raised" /\ failure = "INTERNAL"
              \/ pc = "idle" /\ run \in {"SUCCEEDED", "FAILED"}
        /\ pc = "advance" \/ run = "SUCCEEDED" => ~dirty

GovernedInv ==
    /\ GovernedTypeOK
    /\ AuthorizedFromTheCheckOn
    /\ ApprovalUsedUp
    /\ SuccessIsRecorded
    /\ CommittedAtTheEnd

-----------------------------------------------------------------------------
(* Operators *)

\* The Guard's answer and the approved action depend on the type of the node.
LEMMA SameAnswers ==
    ASSUME NEW w
    PROVE  GuardDecision(w) = Decision(kind, w) /\ ActionOf(w) = ActionIn(kind, w)
  BY DEF GuardDecision, ActionOf, Decision, ActionIn

\* What voice approves, it may decide: a claim that differs raises.
LEMMA VoiceApprovesWhatItMay ==
    ASSUME NEW claim \in Risks \cup {"none"}, NEW stored,
           VoiceOutcome(claim, stored) = "approve"
    PROVE  VoiceMayDecide(stored)
  BY DEF VoiceOutcome, VoiceMayDecide, HighRisk, Risks

\* The fields of an approval.
LEMMA ApprovalFields ==
    ASSUME GovernedTypeOK, NEW a \in Attempts
    PROVE  /\ approval[a] \in Approvals
           /\ approval[a].status \in {"none", "pending", "approved", "rejected"}
           /\ approval[a].action \in Actions
           /\ approval[a].channel \in {"none", "manual", "voice"}
  BY DEF GovernedTypeOK, Approvals

\* The attempt at hand is one of the attempts there are.
LEMMA AttemptAtHand ==
    ASSUME GovernedTypeOK, pc \notin {"idle", "visit"}
    PROVE  attempt \in Attempts
  BY GovernedAssumption DEF GovernedTypeOK, Attempts

\* What has been performed, before and after a step.
LEMMA ActsAre ==
    ASSUME GovernedTypeOK, NEW i \in Performed
    PROVE  acts[i].attempt \in Attempts /\ acts[i].found \in Worlds
  <1>1. acts \in Seq(Acts) /\ i \in 1..Len(acts)
    BY DEF GovernedTypeOK, Performed
  <1>2. acts[i] \in Acts
    BY <1>1
  <1> QED
    BY <1>2 DEF Acts

\* An action that is performed comes after those that were.
LEMMA PerformAppends ==
    ASSUME GovernedTypeOK, Perform
    PROVE  /\ acts' \in Seq(Acts)
           /\ Len(acts') = Len(acts) + 1
           /\ \A i \in Performed : acts'[i] = acts[i]
           /\ acts'[Len(acts) + 1] = [attempt |-> attempt, found |-> held]
  <1>1. attempt \in Attempts /\ held \in Worlds /\ acts \in Seq(Acts)
    BY AttemptAtHand DEF Perform, GovernedTypeOK
  <1>2. [attempt |-> attempt, found |-> held] \in Acts
    BY <1>1 DEF Acts
  <1> QED
    BY <1>1, <1>2 DEF Perform, Performed

\* An operator decides one approval that is pending, once and for what it was
\* asked about.
LEMMA OperatorDecides ==
    ASSUME GovernedTypeOK, Operator
    PROVE  /\ approval' \in [Attempts -> Approvals]
           /\ \A a \in Attempts :
                 /\ approval'[a].action = approval[a].action
                 /\ approval[a].status # "pending" => approval'[a] = approval[a]
                 /\ approval'[a].status # approval[a].status =>
                       approval'[a].status \in {"approved", "rejected"}
                 /\ /\ approval'[a].status = "approved"
                    /\ approval'[a].channel = "voice"
                    /\ approval'[a] # approval[a]
                    => VoiceMayDecide(approval[a].action.risk)
           /\ UNCHANGED <<run, step, refs, kind, world, attempt, retries, acts, pc,
                         held, failure, dirty, committed, crashes, edits>>
  <1>1. PICK a \in Attempts, status \in {"approved", "rejected"},
             channel \in {"manual", "voice"} :
          /\ Decide(a, status, channel)
          /\ channel = "voice" => VoiceMayDecide(approval[a].action.risk)
    <2>1. ASSUME NEW a \in Attempts, Approve(a) \/ Reject(a)
          PROVE  \E status \in {"approved", "rejected"} : Decide(a, status, "manual")
      BY <2>1 DEF Approve, Reject
    <2>2. ASSUME NEW a \in Attempts, NEW claim \in Risks \cup {"none"},
                 ApproveByVoice(a, claim)
          PROVE  Decide(a, "approved", "voice") /\ VoiceMayDecide(approval[a].action.risk)
      BY <2>2, VoiceApprovesWhatItMay DEF ApproveByVoice
    <2> QED
      BY <2>1, <2>2 DEF Operator
  <1> DEFINE decided == [approval[a] EXCEPT !.status = status, !.channel = channel]
  <1>2. /\ decided \in Approvals
        /\ decided.status = status /\ decided.channel = channel
        /\ decided.action = approval[a].action
    BY ApprovalFields DEF Approvals
  <1>3. approval' = [approval EXCEPT ![a] = decided]
    BY <1>1 DEF Decide, GovernedTypeOK
  <1> HIDE DEF decided
  <1>4. /\ approval' \in [Attempts -> Approvals]
        /\ approval'[a] = decided
        /\ \A b \in Attempts : b # a => approval'[b] = approval[b]
    BY <1>2, <1>3 DEF GovernedTypeOK
  <1>5. approval[a].status = "pending"
    BY <1>1 DEF Decide
  <1> QED
    BY <1>1, <1>2, <1>4, <1>5 DEF Decide, Fixed, files, bounds

-----------------------------------------------------------------------------
(* Types *)

\* Every step keeps the types and the place of the walk among its attempts.
LEMMA TypesKept ==
    ASSUME GovernedTypeOK, [GovernedNext]_governedVars
    PROVE  GovernedTypeOK'
  <1> USE GovernedAssumption
      DEF GovernedTypeOK, Places, StepStatuses, GoTo, Rows, Fixed, files, bounds
  <1>1. CASE FirstWalk
    BY <1>1 DEF FirstWalk, StartWalk
  <1>2. CASE Rewalk
    BY <1>2 DEF Rewalk, StartWalk
  <1>3. CASE Resume
    BY <1>3 DEF Resume, StartWalk
  <1>4. CASE Visit
    <2>1. /\ attempt' = attempt + 1 /\ attempt' \in Nat
          /\ attempt' = retries' + 1 /\ retries' = retries
      BY <1>4 DEF Visit
    <2>2. step' \in [Attempts -> StepStatuses]
      BY <1>4 DEF Visit
    <2> QED
      BY <1>4, <2>1, <2>2 DEF Visit
  <1>5. CASE AnswersCached
    BY <1>5 DEF AnswersCached
  <1>6. CASE CannotResolve
    BY <1>6 DEF CannotResolve, Raise
  <1>7. CASE Resolves
    BY <1>7 DEF Resolves, Refuse
  <1>8. CASE DigestDiffers
    BY <1>8 DEF DigestDiffers, Refuse
  <1>9. CASE StillPending
    BY <1>9 DEF StillPending
  <1>10. CASE Rejected
    BY <1>10 DEF Rejected, Refuse
  <1>11. CASE Proceeds
    BY <1>11 DEF Proceeds
  <1>12. CASE AsksGuard
    BY <1>12 DEF AsksGuard, Refuse
  <1>13. CASE AlreadyAsked
    BY <1>13 DEF AlreadyAsked
  <1>14. CASE AskApproval
    <2> DEFINE asked == [status |-> "pending", action |-> ActionOf(held),
                         channel |-> "none"]
    <2>1. ActionOf(held) \in Actions
      BY SameAnswers DEF Actions
    <2>2. asked \in Approvals
      BY <2>1 DEF Approvals
    <2>3. approval' = [approval EXCEPT ![attempt] = asked]
      BY <1>14 DEF AskApproval
    <2> HIDE DEF asked
    <2>4. approval' \in [Attempts -> Approvals]
      BY <2>2, <2>3
    <2> QED
      BY <1>14, <2>4 DEF AskApproval
  <1>15. CASE MarkRunning
    BY <1>15 DEF MarkRunning
  <1>16. CASE PreparationFails
    BY <1>16 DEF PreparationFails
  <1>17. CASE Perform
    <2>1. acts' \in Seq(Acts)
      BY <1>17, PerformAppends
    <2> QED
      BY <1>17, <2>1 DEF Perform
  <1>18. CASE PersistSuccess
    BY <1>18 DEF PersistSuccess
  <1>19. CASE Commit
    BY <1>19 DEF Commit
  <1>20. CASE CommitRaises
    BY <1>20 DEF CommitRaises, Raise
  <1>21. CASE MarkFailed
    BY <1>21 DEF MarkFailed
  <1>22. CASE Retry
    <2>1. retries' = retries + 1 /\ retries' \in 0..MaxRetries /\ attempt' = retries'
      BY <1>22 DEF Retry, MayRetry
    <2>2. step' \in [Attempts -> StepStatuses]
      BY <1>22 DEF Retry
    <2> QED
      BY <1>22, <2>1, <2>2 DEF Retry
  <1>23. CASE FailRun
    BY <1>23 DEF FailRun
  <1>24. CASE SucceedRun
    BY <1>24 DEF SucceedRun
  <1>25. CASE Crash
    BY <1>25 DEF Crash
  <1>50. CASE Operator
    BY <1>50, OperatorDecides
  <1>51. CASE DefinitionsChange
    BY <1>51 DEF DefinitionsChange
  <1>52. CASE UNCHANGED governedVars
    BY <1>52 DEF governedVars
  <1> QED
    BY <1>1, <1>2, <1>3, <1>4, <1>5, <1>6, <1>7, <1>8, <1>9, <1>10, <1>11, <1>12, <1>13, <1>14, <1>15, <1>16, <1>17, <1>18, <1>19, <1>20, <1>21, <1>22, <1>23, <1>24, <1>25, <1>50, <1>51, <1>52
    DEF GovernedNext, Walker, Call

-----------------------------------------------------------------------------
(* What a step changes *)

\* The type of the node stays.
LEMMA KindStays ==
    ASSUME [GovernedNext]_governedVars
    PROVE  kind' = kind
  BY DEF GovernedNext, governedVars, Walker, Call, Operator, Approve, Reject, ApproveByVoice, Decide, StartWalk, Fixed, FirstWalk, Rewalk, Resume, Visit, AnswersCached, CannotResolve, Resolves, DigestDiffers, StillPending, Rejected, Proceeds, AsksGuard, AlreadyAsked, AskApproval, MarkRunning, PreparationFails, Perform, PersistSuccess, Commit, CommitRaises, MarkFailed, Retry, FailRun, SucceedRun, Crash, DefinitionsChange

\* An action is performed, or what has been performed is what it was.
LEMMA OnlyPerformActs ==
    ASSUME [GovernedNext]_governedVars
    PROVE  Perform \/ acts' = acts
  BY DEF GovernedNext, governedVars, Walker, Call, Operator, Approve, Reject, ApproveByVoice, Decide, StartWalk, Fixed, FirstWalk, Rewalk, Resume, Visit, AnswersCached, CannotResolve, Resolves, DigestDiffers, StillPending, Rejected, Proceeds, AsksGuard, AlreadyAsked, AskApproval, MarkRunning, PreparationFails, PersistSuccess, Commit, CommitRaises, MarkFailed, Retry, FailRun, SucceedRun, Crash, DefinitionsChange

\* An approval is asked for when there is none, decided by an operator while it
\* is pending, and otherwise what it was.
LEMMA OnlyTwoTouchApprovals ==
    ASSUME [GovernedNext]_governedVars
    PROVE  AskApproval \/ Operator \/ approval' = approval
  BY DEF GovernedNext, governedVars, Walker, Call, StartWalk, Rows, FirstWalk, Rewalk, Resume, Visit, AnswersCached, CannotResolve, Resolves, DigestDiffers, StillPending, Rejected, Proceeds, AsksGuard, AlreadyAsked, MarkRunning, PreparationFails, Perform, PersistSuccess, Commit, CommitRaises, MarkFailed, Retry, FailRun, SucceedRun, Crash, DefinitionsChange

\* An approval that was asked for stays one for the same action, and one that
\* was given stays given.
LEMMA ApprovalsStand ==
    ASSUME GovernedTypeOK, [GovernedNext]_governedVars, NEW a \in Attempts,
           approval[a].status # "none"
    PROVE  /\ approval'[a].status # "none"
           /\ approval'[a].action = approval[a].action
           /\ approval[a].status = "approved" => approval'[a] = approval[a]
  <1>1. CASE AskApproval
    <2>1. attempt # a
      BY <1>1 DEF AskApproval, Asked
    <2> QED
      BY <1>1, <2>1 DEF AskApproval, GovernedTypeOK
  <1>2. CASE Operator
    BY <1>2, OperatorDecides
  <1>3. CASE approval' = approval
    BY <1>3
  <1> QED
    BY <1>1, <1>2, <1>3, OnlyTwoTouchApprovals

\* What is authorized stays so: an approval that was given is not taken back.
LEMMA AuthorizedStays ==
    ASSUME GovernedTypeOK, [GovernedNext]_governedVars, NEW a \in Attempts, NEW w \in Worlds,
           Authorized(a, w)
    PROVE  Authorized(a, w)'
  BY ApprovalsStand, KindStays DEF Authorized

\* A step waits for its approval from the asking on, and only then.
LEMMA OnlyAskingWaits ==
    ASSUME GovernedTypeOK, [GovernedNext]_governedVars, NEW a \in Attempts,
           step'[a] = "WAITING_APPROVAL"
    PROVE  step[a] = "WAITING_APPROVAL" \/ (AskApproval /\ a = attempt)
  <1> USE DEF GovernedTypeOK
  <1>1. CASE Resume
    BY <1>1 DEF Resume
  <1>2. CASE Visit
    BY <1>2 DEF Visit
  <1>3. CASE AsksGuard
    BY <1>3 DEF AsksGuard
  <1>4. CASE AskApproval
    BY <1>4 DEF AskApproval
  <1>5. CASE MarkRunning \/ PersistSuccess \/ MarkFailed \/ Retry
    BY <1>5 DEF MarkRunning, PersistSuccess, MarkFailed, Retry
  <1>6. CASE step' = step
    BY <1>6
  <1> QED
    BY <1>1, <1>2, <1>3, <1>4, <1>5, <1>6
    DEF GovernedNext, governedVars, Walker, Call, FirstWalk, Rewalk, Operator, Approve, Reject,
        ApproveByVoice, Decide, Rows, AnswersCached, CannotResolve, Resolves,
        DigestDiffers, StillPending, Rejected, Proceeds, AlreadyAsked,
        PreparationFails, Perform, Commit, CommitRaises, FailRun, SucceedRun, Crash, DefinitionsChange

\* The ways to the action: past the check, by the Guard or by an approval, and
\* from the mark on the step.
LEMMA WaysToTheAction ==
    ASSUME GovernedTypeOK, [GovernedNext]_governedVars
    PROVE  /\ pc' = "start" =>
                 \/ Proceeds
                 \/ AsksGuard /\ GuardDecision(held) = "allow" /\ UNCHANGED step
                 \/ UNCHANGED <<pc, attempt, held, step, acts>>
           /\ pc' = "perform" =>
                 MarkRunning \/ UNCHANGED <<pc, attempt, held, step, acts>>
  <1> USE DEF GoTo, Rows, Fixed
  <1>1. CASE FirstWalk \/ Rewalk \/ Resume \/ Visit \/ Retry
    BY <1>1 DEF FirstWalk, Rewalk, Resume, StartWalk, Visit, Retry
  <1>2. CASE AnswersCached \/ CannotResolve \/ Resolves \/ DigestDiffers
             \/ StillPending \/ Rejected
    BY <1>2
    DEF AnswersCached, CannotResolve, Resolves, DigestDiffers, StillPending, Rejected,
        Raise, Refuse
  <1>3. CASE AsksGuard
    BY <1>3 DEF AsksGuard, Refuse
  <1>4. CASE Proceeds \/ MarkRunning
    BY <1>4 DEF Proceeds, MarkRunning
  <1>5. CASE AlreadyAsked \/ AskApproval \/ PreparationFails \/ Perform \/ PersistSuccess
    BY <1>5 DEF AlreadyAsked, AskApproval, PreparationFails, Perform, PersistSuccess
  <1>6. CASE Commit \/ CommitRaises \/ MarkFailed \/ FailRun \/ SucceedRun \/ Crash
    BY <1>6 DEF Commit, CommitRaises, MarkFailed, FailRun, SucceedRun, Crash, Raise
  <1>7. CASE Operator
    BY <1>7 DEF Operator, Approve, Reject, ApproveByVoice, Decide
  <1>8. CASE DefinitionsChange
    BY <1>8 DEF DefinitionsChange
  <1>9. CASE UNCHANGED governedVars
    BY <1>9 DEF governedVars
  <1> QED
    BY <1>1, <1>2, <1>3, <1>4, <1>5, <1>6, <1>7, <1>8, <1>9 DEF GovernedNext, Walker, Call

-----------------------------------------------------------------------------
(* Authorization *)

\* Every step keeps what has been performed, and is about to be, authorized.
LEMMA AuthorizationKept ==
    ASSUME GovernedTypeOK, AuthorizedFromTheCheckOn, [GovernedNext]_governedVars
    PROVE  AuthorizedFromTheCheckOn'
  <1>1. \A i \in Performed' : Authorized(acts[i].attempt, acts[i].found)'
    <2>1. \A i \in Performed : Authorized(acts[i].attempt, acts[i].found)
      BY DEF AuthorizedFromTheCheckOn
    <2>2. CASE acts' = acts
      BY <2>1, <2>2, ActsAre, AuthorizedStays DEF Performed, Authorized
    <2>3. CASE Perform
      <3>1. /\ Performed' = Performed \cup {Len(acts) + 1}
            /\ \A i \in Performed : acts'[i] = acts[i]
            /\ acts'[Len(acts) + 1] = [attempt |-> attempt, found |-> held]
        BY <2>3, PerformAppends DEF Performed, GovernedTypeOK
      <3>2. Authorized(attempt, held) /\ UNCHANGED <<kind, approval>>
        BY <2>3 DEF Perform, Rows, AuthorizedFromTheCheckOn
      <3> QED
        BY <2>1, <3>1, <3>2 DEF Authorized
    <2> QED
      BY <2>2, <2>3, OnlyPerformActs
  <1>2. \A a \in Attempts : step'[a] = "WAITING_APPROVAL" => approval'[a].status # "none"
    <2> SUFFICES ASSUME NEW a \in Attempts, step'[a] = "WAITING_APPROVAL"
                 PROVE  approval'[a].status # "none"
      OBVIOUS
    <2>1. CASE step[a] = "WAITING_APPROVAL"
      BY <2>1, ApprovalsStand DEF AuthorizedFromTheCheckOn
    <2>2. CASE AskApproval /\ a = attempt
      BY <2>2 DEF AskApproval, GovernedTypeOK
    <2> QED
      BY <2>1, <2>2, OnlyAskingWaits
  <1>3. ASSUME NEW a \in Attempts,
               approval'[a].status = "approved", approval'[a].channel = "voice"
        PROVE  VoiceMayDecide(approval'[a].action.risk)
    <2>1. CASE AskApproval
      BY <2>1, <1>3 DEF AskApproval, GovernedTypeOK, AuthorizedFromTheCheckOn
    <2>2. CASE Operator
      BY <2>2, <1>3, OperatorDecides DEF AuthorizedFromTheCheckOn
    <2>3. CASE approval' = approval
      BY <2>3, <1>3 DEF AuthorizedFromTheCheckOn
    <2> QED
      BY <2>1, <2>2, <2>3, OnlyTwoTouchApprovals
  <1>4. pc' \in {"start", "perform"} => Authorized(attempt, held)'
    <2>1. CASE Proceeds
      <3>1. attempt \in Attempts /\ pc = "check"
        BY <2>1, AttemptAtHand DEF Proceeds
      <3>2. Asked
        BY <2>1, <3>1 DEF Proceeds, SkipsGuard, Asked, Status, AuthorizedFromTheCheckOn
      <3>3. /\ approval[attempt].status = "approved"
            /\ approval[attempt].action = ActionIn(kind, held)
        BY <2>1, <3>2, SameAnswers DEF Proceeds, Cleared
      <3>4. approval[attempt].action.risk = held.capability.risk
        BY <3>3 DEF ActionIn
      <3>5. Authorized(attempt, held)
        BY <3>1, <3>3, <3>4 DEF Authorized, AuthorizedFromTheCheckOn
      <3> QED
        BY <2>1, <3>5 DEF Proceeds, Rows, Fixed, Authorized
    <2>2. CASE AsksGuard /\ GuardDecision(held) = "allow"
      BY <2>2, SameAnswers DEF AsksGuard, Fixed, Authorized
    <2>3. CASE MarkRunning
      BY <2>3 DEF MarkRunning, Fixed, Authorized, AuthorizedFromTheCheckOn
    <2>4. CASE UNCHANGED <<pc, attempt, held, step, acts>>
      <3> SUFFICES ASSUME pc \in {"start", "perform"}
                   PROVE  Authorized(attempt, held)'
        BY <2>4
      <3>1. attempt \in Attempts /\ held \in Worlds /\ Authorized(attempt, held)
        BY AttemptAtHand DEF GovernedTypeOK, AuthorizedFromTheCheckOn
      <3> QED
        BY <2>4, <3>1, AuthorizedStays DEF Authorized
    <2> QED
      BY <2>1, <2>2, <2>3, <2>4, WaysToTheAction
  <1> QED
    BY <1>1, <1>2, <1>3, <1>4 DEF AuthorizedFromTheCheckOn

-----------------------------------------------------------------------------
(* An approval is used up *)

\* An attempt that used its approval was authorized by it.
LEMMA UsedWasApproved ==
    ASSUME GovernedTypeOK, AuthorizedFromTheCheckOn, NEW a \in Attempts, Used(a)
    PROVE  approval[a].status = "approved"
  BY DEF Used, NeedsApproval, AuthorizedFromTheCheckOn, Authorized

\* Every step keeps that an approval is used once.
LEMMA UseKept ==
    ASSUME GovernedTypeOK, AuthorizedFromTheCheckOn, ApprovalUsedUp, [GovernedNext]_governedVars
    PROVE  ApprovalUsedUp'
  <1>1. /\ \A a \in Attempts : Used(a) => step[a] # "WAITING_APPROVAL"
        /\ \A i, j \in Performed :
              (/\ acts[i].attempt = acts[j].attempt
               /\ NeedsApproval(acts[i].found)
               /\ NeedsApproval(acts[j].found)) => i = j
    BY DEF ApprovalUsedUp
  <1>2. kind' = kind
    BY KindStays
  <1>3. CASE Perform
    <2>1. /\ Performed' = Performed \cup {Len(acts) + 1}
          /\ \A i \in Performed : acts'[i] = acts[i]
          /\ acts'[Len(acts) + 1] = [attempt |-> attempt, found |-> held]
      BY <1>3, PerformAppends DEF Performed, GovernedTypeOK
    <2>2. /\ NeedsApproval(held) => step[attempt] # "WAITING_APPROVAL" /\ ~Used(attempt)
          /\ step' = step /\ pc' \notin {"start", "perform"}
      BY <1>3 DEF Perform, Rows, GoTo, ApprovalUsedUp
    <2>3. \A a : Used(a)' => Used(a) \/ (a = attempt /\ NeedsApproval(held))
      BY <1>2, <2>1 DEF Used, NeedsApproval
    <2>4. \A i, j \in Performed' :
              (/\ acts'[i].attempt = acts'[j].attempt
               /\ NeedsApproval(acts'[i].found)
               /\ NeedsApproval(acts'[j].found)) => i = j
      BY <1>1, <2>1, <2>2 DEF Used
    <2> QED
      BY <1>1, <1>2, <2>2, <2>3, <2>4 DEF ApprovalUsedUp, NeedsApproval
  <1>4. CASE acts' = acts
    <2>1. \A a : Used(a)' <=> Used(a)
      BY <1>2, <1>4 DEF Used, NeedsApproval, Performed
    <2>2. \A a \in Attempts : Used(a) => step'[a] # "WAITING_APPROVAL"
      BY <1>1, UsedWasApproved, OnlyAskingWaits DEF AskApproval, Asked
    <2>3. /\ pc = "start" /\ NeedsApproval(held) => step[attempt] = "WAITING_APPROVAL"
          /\ pc = "perform" /\ NeedsApproval(held) =>
                step[attempt] # "WAITING_APPROVAL" /\ ~Used(attempt)
      BY DEF ApprovalUsedUp
    <2>4. pc' = "start" /\ NeedsApproval(held)' => step'[attempt'] = "WAITING_APPROVAL"
      <3>1. CASE Proceeds
        BY <1>2, <3>1
        DEF Proceeds, SkipsGuard, Status, Rows, Fixed, NeedsApproval, GovernedTypeOK
      <3>2. CASE AsksGuard /\ GuardDecision(held) = "allow"
        BY <1>2, <3>2, SameAnswers DEF AsksGuard, Fixed, NeedsApproval
      <3>3. CASE UNCHANGED <<pc, attempt, held, step, acts>>
        BY <1>2, <2>3, <3>3 DEF NeedsApproval
      <3> QED
        BY <3>1, <3>2, <3>3, WaysToTheAction
    <2>5. pc' = "perform" /\ NeedsApproval(held)' =>
              step'[attempt'] # "WAITING_APPROVAL" /\ ~Used(attempt)'
      <3>1. CASE MarkRunning
        <4>1. attempt \in Attempts
          BY <3>1, AttemptAtHand DEF MarkRunning
        <4>2. /\ pc = "start" /\ step'[attempt] = "RUNNING"
              /\ attempt' = attempt /\ held' = held
          BY <3>1, <4>1 DEF MarkRunning, Fixed, GovernedTypeOK
        <4>3. NeedsApproval(held) => ~Used(attempt)
          BY <1>1, <2>3, <4>1, <4>2
        <4> QED
          BY <1>2, <1>4, <4>2, <4>3 DEF NeedsApproval, Used, Performed
      <3>2. CASE UNCHANGED <<pc, attempt, held, step, acts>>
        BY <1>2, <1>4, <2>3, <3>2 DEF NeedsApproval, Used, Performed
      <3> QED
        BY <3>1, <3>2, WaysToTheAction
    <2>6. \A i, j \in Performed' :
              (/\ acts'[i].attempt = acts'[j].attempt
               /\ NeedsApproval(acts'[i].found)
               /\ NeedsApproval(acts'[j].found)) => i = j
      BY <1>1, <1>4 DEF Performed
    <2>7. \A a \in Attempts : Used(a)' => step'[a] # "WAITING_APPROVAL"
      BY <2>1, <2>2
    <2> QED
      BY <1>2, <2>4, <2>5, <2>6, <2>7 DEF ApprovalUsedUp, NeedsApproval
  <1> QED
    BY <1>3, <1>4, OnlyPerformActs

-----------------------------------------------------------------------------
(* Successes *)

\* What acted has acted.
LEMMA ActedStays ==
    ASSUME GovernedTypeOK, [GovernedNext]_governedVars, NEW a, Acted(a)
    PROVE  Acted(a)'
  <1>1. CASE Perform
    BY <1>1, PerformAppends DEF Acted, Performed, GovernedTypeOK
  <1>2. CASE acts' = acts
    BY <1>2 DEF Acted, Performed
  <1> QED
    BY <1>1, <1>2, OnlyPerformActs

\* A success is recorded where the action succeeded, and stays recorded.
LEMMA SuccessesStand ==
    ASSUME GovernedTypeOK, SuccessIsRecorded, [GovernedNext]_governedVars, NEW a \in Attempts
    PROVE  /\ Succeeded(a) => Succeeded(a)'
           /\ Succeeded(a)' => Succeeded(a) \/ (PersistSuccess /\ a = attempt)
  <1> USE DEF GovernedTypeOK, Succeeded
  <1>1. CASE Resume
    BY <1>1 DEF Resume, Doomed
  <1>2. CASE Visit
    BY <1>2 DEF Visit
  <1>3. CASE AsksGuard
    BY <1>3 DEF AsksGuard, SuccessIsRecorded
  <1>4. CASE AskApproval
    BY <1>4 DEF AskApproval, SuccessIsRecorded
  <1>5. CASE MarkRunning
    BY <1>5 DEF MarkRunning, SuccessIsRecorded
  <1>6. CASE PersistSuccess
    BY <1>6 DEF PersistSuccess, SuccessIsRecorded
  <1>7. CASE MarkFailed
    BY <1>7 DEF MarkFailed, SuccessIsRecorded
  <1>8. CASE Retry
    BY <1>8 DEF Retry
  <1>9. CASE step' = step
    BY <1>9
  <1> QED
    BY <1>1, <1>2, <1>3, <1>4, <1>5, <1>6, <1>7, <1>8, <1>9
    DEF GovernedNext, governedVars, Walker, Call, FirstWalk, Rewalk, Operator, Approve, Reject,
        ApproveByVoice, Decide, Rows, AnswersCached, CannotResolve, Resolves,
        DigestDiffers, StillPending, Rejected, Proceeds, AlreadyAsked,
        PreparationFails, Perform, Commit, CommitRaises, FailRun, SucceedRun, Crash, DefinitionsChange

\* Where the walk is tells whether the step at hand has succeeded.
LEMMA WalkKnowsSuccess ==
    ASSUME GovernedTypeOK, SuccessIsRecorded, [GovernedNext]_governedVars
    PROVE  /\ pc' \in {"commit", "advance"} => Succeeded(attempt)'
           /\ pc' \in {"check", "ensure", "start", "perform", "succeeded", "mark_failed"}
                 => ~Succeeded(attempt)'
           /\ pc' # "idle" => run' # "SUCCEEDED"
           /\ run' = "SUCCEEDED" => run = "SUCCEEDED" \/ pc = "advance"
           /\ committed' => committed \/ pc = "commit"
           /\ pc' = "succeeded" => Perform \/ UNCHANGED <<pc, attempt, acts>>
  <1>0. pc \notin {"idle", "visit"} => attempt \in Attempts
    BY AttemptAtHand
  <1> USE <1>0
      DEF GovernedTypeOK, SuccessIsRecorded, Succeeded, GoTo, Rows, Fixed, files, bounds
  <1>1. CASE FirstWalk
    BY <1>1 DEF FirstWalk, StartWalk
  <1>2. CASE Rewalk
    BY <1>2 DEF Rewalk, StartWalk
  <1>3. CASE Resume
    BY <1>3 DEF Resume, StartWalk
  <1>4. CASE Visit
    BY <1>4 DEF Visit
  <1>5. CASE AnswersCached
    BY <1>5 DEF AnswersCached, Status
  <1>6. CASE CannotResolve
    BY <1>6 DEF CannotResolve, Raise
  <1>7. CASE Resolves
    BY <1>7 DEF Resolves, Refuse, Status
  <1>8. CASE DigestDiffers
    BY <1>8 DEF DigestDiffers, Refuse
  <1>9. CASE StillPending
    BY <1>9 DEF StillPending
  <1>10. CASE Rejected
    BY <1>10 DEF Rejected, Refuse
  <1>11. CASE Proceeds
    BY <1>11 DEF Proceeds
  <1>12. CASE AsksGuard
    BY <1>12 DEF AsksGuard, Refuse
  <1>13. CASE AlreadyAsked
    BY <1>13 DEF AlreadyAsked
  <1>14. CASE AskApproval
    BY <1>14 DEF AskApproval
  <1>15. CASE MarkRunning
    BY <1>15 DEF MarkRunning
  <1>16. CASE PreparationFails
    BY <1>16 DEF PreparationFails
  <1>17. CASE Perform
    BY <1>17 DEF Perform
  <1>18. CASE PersistSuccess
    BY <1>18 DEF PersistSuccess
  <1>19. CASE Commit
    BY <1>19 DEF Commit
  <1>20. CASE CommitRaises
    BY <1>20 DEF CommitRaises, Raise
  <1>21. CASE MarkFailed
    BY <1>21 DEF MarkFailed
  <1>22. CASE Retry
    BY <1>22 DEF Retry, MayRetry
  <1>23. CASE FailRun
    BY <1>23 DEF FailRun
  <1>24. CASE SucceedRun
    BY <1>24 DEF SucceedRun
  <1>25. CASE Crash
    BY <1>25 DEF Crash
  <1>26. CASE Operator
    BY <1>26, OperatorDecides
  <1>27. CASE DefinitionsChange
    BY <1>27 DEF DefinitionsChange
  <1>28. CASE UNCHANGED governedVars
    BY <1>28 DEF governedVars
  <1> QED
    BY <1>1, <1>2, <1>3, <1>4, <1>5, <1>6, <1>7, <1>8, <1>9, <1>10, <1>11, <1>12, <1>13, <1>14,
       <1>15, <1>16, <1>17, <1>18, <1>19, <1>20, <1>21, <1>22, <1>23, <1>24, <1>25, <1>26, <1>27, <1>28
    DEF GovernedNext, Walker, Call

\* Every step keeps the record of successes.
LEMMA SuccessKept ==
    ASSUME GovernedTypeOK, SuccessIsRecorded, [GovernedNext]_governedVars
    PROVE  SuccessIsRecorded'
  <1>1. \A a \in Attempts : Succeeded(a)' => Acted(a)'
    <2> SUFFICES ASSUME NEW a \in Attempts, Succeeded(a)'
                 PROVE  Acted(a)'
      OBVIOUS
    <2>1. Acted(a)
      BY SuccessesStand DEF SuccessIsRecorded, PersistSuccess
    <2> QED
      BY <2>1, ActedStays
  <1>2. pc' = "succeeded" => Acted(attempt)'
    <2>1. CASE Perform
      <3>1. /\ Len(acts') \in Performed'
            /\ acts'[Len(acts')].attempt = attempt
        BY <2>1, PerformAppends DEF Performed, GovernedTypeOK
      <3>2. attempt' = attempt
        BY <2>1 DEF Perform
      <3> QED
        BY <3>1, <3>2 DEF Acted
    <2>2. CASE UNCHANGED <<pc, attempt, acts>>
      BY <2>2 DEF SuccessIsRecorded, Acted, Performed
    <2> QED
      BY <2>1, <2>2, WalkKnowsSuccess
  <1>3. run' = "SUCCEEDED" \/ committed' => \E a \in Attempts : Succeeded(a)'
    <2> SUFFICES ASSUME run' = "SUCCEEDED" \/ committed'
                 PROVE  \E a \in Attempts : Succeeded(a)'
      OBVIOUS
    <2>1. run = "SUCCEEDED" \/ committed \/ pc \in {"advance", "commit"}
      BY WalkKnowsSuccess
    <2>2. PICK a \in Attempts : Succeeded(a)
      BY <2>1, AttemptAtHand DEF SuccessIsRecorded
    <2> QED
      BY <2>2, SuccessesStand
  <1> QED
    BY <1>1, <1>2, <1>3, WalkKnowsSuccess DEF SuccessIsRecorded

-----------------------------------------------------------------------------
(* The worktree *)

\* Every step keeps that the walk that records a success commits it.
LEMMA CommitKept ==
    ASSUME GovernedTypeOK, SuccessIsRecorded, CommittedAtTheEnd, [GovernedNext]_governedVars
    PROVE  CommittedAtTheEnd'
  <1> DEFINE some == \E a \in Attempts : Succeeded(a)
  <1>0. /\ pc \notin {"idle", "visit"} => attempt \in Attempts
        /\ some' => some \/ (pc = "succeeded" /\ pc' \in {"commit", "advance"})
        /\ pc = "call" /\ Status = "SUCCEEDED" => some
        /\ pc \in {"commit", "advance"} \/ run = "SUCCEEDED" => some
        /\ pc # "idle" => run # "SUCCEEDED"
    BY AttemptAtHand, SuccessesStand
    DEF SuccessIsRecorded, Succeeded, Status, PersistSuccess, GoTo
  <1> HIDE DEF some
  <1> SUFFICES ASSUME crashes' = 0, "INTERNAL" \notin RetryOn,
                      crashes = 0 =>
                        /\ dirty => kind = "agent"
                        /\ kind = "agent" /\ some =>
                              \/ pc \in {"commit", "advance"}
                              \/ pc = "raised" /\ failure = "INTERNAL"
                              \/ pc = "idle" /\ run \in {"SUCCEEDED", "FAILED"}
                        /\ pc = "advance" \/ run = "SUCCEEDED" => ~dirty
               PROVE  /\ dirty' => kind' = "agent"
                      /\ kind' = "agent" /\ some' =>
                            \/ pc' \in {"commit", "advance"}
                            \/ pc' = "raised" /\ failure' = "INTERNAL"
                            \/ pc' = "idle" /\ run' \in {"SUCCEEDED", "FAILED"}
                      /\ pc' = "advance" \/ run' = "SUCCEEDED" => ~dirty'
    BY DEF CommittedAtTheEnd, some
  <1> USE <1>0
      DEF GovernedTypeOK, GoTo, Rows, Fixed, files, bounds
  <1>1. CASE FirstWalk
    BY <1>1 DEF FirstWalk, StartWalk
  <1>2. CASE Rewalk
    BY <1>2 DEF Rewalk, StartWalk
  <1>3. CASE Resume
    BY <1>3 DEF Resume, StartWalk
  <1>4. CASE Visit
    BY <1>4 DEF Visit
  <1>5. CASE AnswersCached
    BY <1>5 DEF AnswersCached
  <1>6. CASE CannotResolve
    BY <1>6 DEF CannotResolve, Raise
  <1>7. CASE Resolves
    BY <1>7 DEF Resolves, Refuse
  <1>8. CASE DigestDiffers
    BY <1>8 DEF DigestDiffers, Refuse
  <1>9. CASE StillPending
    BY <1>9 DEF StillPending
  <1>10. CASE Rejected
    BY <1>10 DEF Rejected, Refuse
  <1>11. CASE Proceeds
    BY <1>11 DEF Proceeds
  <1>12. CASE AsksGuard
    BY <1>12 DEF AsksGuard, Refuse
  <1>13. CASE AlreadyAsked
    BY <1>13 DEF AlreadyAsked
  <1>14. CASE AskApproval
    BY <1>14 DEF AskApproval
  <1>15. CASE MarkRunning
    BY <1>15 DEF MarkRunning
  <1>16. CASE PreparationFails
    BY <1>16 DEF PreparationFails
  <1>17. CASE Perform
    BY <1>17 DEF Perform
  <1>18. CASE PersistSuccess
    BY <1>18 DEF PersistSuccess
  <1>19. CASE Commit
    BY <1>19 DEF Commit
  <1>20. CASE CommitRaises
    BY <1>20 DEF CommitRaises, Raise
  <1>21. CASE MarkFailed
    BY <1>21 DEF MarkFailed
  <1>22. CASE Retry
    BY <1>22 DEF Retry, MayRetry
  <1>23. CASE FailRun
    BY <1>23 DEF FailRun
  <1>24. CASE SucceedRun
    BY <1>24 DEF SucceedRun
  <1>25. CASE Crash
    BY <1>25 DEF Crash
  <1>26. CASE Operator
    BY <1>26, OperatorDecides
  <1>27. CASE DefinitionsChange
    BY <1>27 DEF DefinitionsChange
  <1>28. CASE UNCHANGED governedVars
    BY <1>28 DEF governedVars
  <1> QED
    BY <1>1, <1>2, <1>3, <1>4, <1>5, <1>6, <1>7, <1>8, <1>9, <1>10, <1>11, <1>12, <1>13, <1>14,
       <1>15, <1>16, <1>17, <1>18, <1>19, <1>20, <1>21, <1>22, <1>23, <1>24, <1>25, <1>26, <1>27, <1>28
    DEF GovernedNext, Walker, Call

-----------------------------------------------------------------------------
(* The theorems *)

\* Nothing has been asked, performed or committed at first.
LEMMA InitGovernedInv == GovernedInit => GovernedInv
  <1> SUFFICES ASSUME GovernedInit PROVE GovernedInv
    OBVIOUS
  <1>1. NoApproval \in Approvals /\ NoApproval.status = "none"
    BY DEF NoApproval, Approvals, Actions
  <1>2. acts \in Seq(Acts) /\ Performed = {}
    BY DEF GovernedInit, Performed
  <1>3. GovernedTypeOK
    <2>1. kind \in {"agent", "machine"} /\ retries \in 0..MaxRetries
      BY GovernedAssumption DEF GovernedInit
    <2>2. step \in [Attempts -> StepStatuses] /\ approval \in [Attempts -> Approvals]
      BY <1>1 DEF GovernedInit, StepStatuses
    <2> QED
      BY <1>2, <2>1, <2>2 DEF GovernedInit, GovernedTypeOK, Places
  <1>4. \A a \in Attempts : step[a] = "absent" /\ approval[a].status = "none"
    BY <1>1 DEF GovernedInit
  <1> QED
    BY <1>2, <1>3, <1>4
    DEF GovernedInit, GovernedInv, AuthorizedFromTheCheckOn, ApprovalUsedUp, SuccessIsRecorded,
        CommittedAtTheEnd, Succeeded, Used, Acted

\* The inductive invariant, with the types, holds always.
THEOREM GovernedInvariant == GovernedSpec => []GovernedInv
  <1>1. GovernedInv /\ [GovernedNext]_governedVars => GovernedInv'
    BY TypesKept, AuthorizationKept, UseKept, SuccessKept, CommitKept DEF GovernedInv
  <1> QED
    BY InitGovernedInv, <1>1, PTL DEF GovernedSpec

\* Whatever is performed, the Guard allowed what the call had found, or an
\* operator approved exactly that for that attempt, not by voice if its risk is
\* high: over edits between the calls, crashes, resumes and repeated walks
\* (_authorize_agent_or_wait, approved_or_waiting, op_approval_approve).
THEOREM ActionsAreAuthorized == GovernedSpec => []ActedOnlyAuthorized
  <1>1. GovernedInv => ActedOnlyAuthorized
    BY SameAnswers
    DEF GovernedInv, AuthorizedFromTheCheckOn, Authorized, Performed, ActedOnlyAuthorized
  <1> QED
    BY <1>1, GovernedInvariant, PTL

\* A machine activity acts at most once on one approval, whatever dies between
\* the two (run_machine_activity).
THEOREM ApprovalsAreUsedOnce == GovernedSpec => []MachineUsesApprovalOnce
  <1>1. GovernedInv => MachineUsesApprovalOnce
    BY SameAnswers
    DEF GovernedInv, ApprovalUsedUp, NeedsApproval, Performed, MachineUsesApprovalOnce
  <1> QED
    BY <1>1, GovernedInvariant, PTL

\* A run that reports SUCCEEDED has performed its action and recorded the
\* success (run_workflow_definition, run_agent_step, run_machine_activity).
THEOREM SuccessMeansActed == GovernedSpec => []SucceededRunActed
  <1>1. GovernedInv => SucceededRunActed
    BY DEF GovernedInv, SuccessIsRecorded, Succeeded, Acted, Performed, SucceededRunActed
  <1> QED
    BY <1>1, GovernedInvariant, PTL

\* The worktree agrees with the record: a commit follows a recorded success, and
\* success without a crash, or a retried commit, leaves nothing uncommitted
\* (run_agent_step, commit_all_changes).
THEOREM SuccessIsCommitted == GovernedSpec => []WorktreeAgrees
  <1>1. GovernedInv => WorktreeAgrees
    BY DEF GovernedInv, SuccessIsRecorded, CommittedAtTheEnd, Succeeded, WorktreeAgrees
  <1> QED
    BY <1>1, GovernedInvariant, PTL

\* What an operator has approved stays approved for the same action, and what
\* has been recorded as a success stays recorded, whatever a resume deletes
\* (op_approval_approve, reset_interrupted_node_steps).
THEOREM RecordsStand ==
    GovernedSpec => [][\A a \in Attempts :
                  /\ approval[a].status = "approved" => approval'[a] = approval[a]
                  /\ step[a] = "SUCCEEDED" => step'[a] = "SUCCEEDED"]_governedVars
  <1>1. GovernedInv /\ [GovernedNext]_governedVars =>
          [\A a \in Attempts :
             /\ approval[a].status = "approved" => approval'[a] = approval[a]
             /\ step[a] = "SUCCEEDED" => step'[a] = "SUCCEEDED"]_governedVars
    BY ApprovalsStand, SuccessesStand DEF GovernedInv, Succeeded
  <1> QED
    BY <1>1, GovernedInvariant, PTL DEF GovernedSpec
=============================================================================
