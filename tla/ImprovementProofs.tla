-------------------------- MODULE ImprovementProofs --------------------------
(***************************************************************************)
(* Theorems about ImprovementProposal, for any number of callers, rows,    *)
(* approvals and commits.                                                  *)
(***************************************************************************)
EXTENDS ImprovementProposal, WellFoundedInduction, TLAPS

-----------------------------------------------------------------------------
(* The oldest row *)

\* The oldest of some proposals is one of them.
LEMMA OldestIsMember ==
    ASSUME NEW S \in SUBSET Nat, S # {}
    PROVE  Oldest(S) \in S /\ \A y \in S : Oldest(S) <= y
  <1>1. PICK x \in S : \A y \in S : ~ (<<y, x>> \in OpToRel(<, Nat))
    BY NatLessThanWellFounded, WFMin
  <1>2. \A y \in S : x <= y
    <2> TAKE y \in S
    <2>1. ~ (y < x)
      BY <1>1 DEF OpToRel
    <2> QED
      BY <2>1
  <1> QED
    BY <1>2 DEF Oldest

\* A new proposal gets an id that is free, if there is one.
LEMMA FreeProposalType == FreeProposal \in Proposals \union {0}
  <1> DEFINE S == {id \in Proposals : ~Exists(id)}
  <1>1. S \in SUBSET Nat /\ S \subseteq Proposals
    BY DEF Proposals
  <1>2. S # {} => Oldest(S) \in S
    BY <1>1, OldestIsMember
  <1> QED
    BY <1>1, <1>2 DEF FreeProposal, Oldest

\* The oldest proposal there is has an id.
LEMMA OldestProposalType ==
    Oldest({id \in Proposals : Exists(id)}) \in Proposals \union {0}
  <1> DEFINE S == {id \in Proposals : Exists(id)}
  <1>1. S \in SUBSET Nat /\ S \subseteq Proposals
    BY DEF Proposals
  <1>2. S # {} => Oldest(S) \in S
    BY <1>1, OldestIsMember
  <1> QED
    BY <1>1, <1>2 DEF Oldest

\* A new approval never takes the row of one that has been asked for.
LEMMA FreeApprovalIsFree ==
    ASSUME FreeApproval # 0
    PROVE  FreeApproval \in Approvals /\ ~Asked(FreeApproval)
  <1> DEFINE S == {a \in Approvals : ~Asked(a)}
  <1>1. S \in SUBSET Nat
    BY DEF Approvals
  <1>2. S # {}
    BY DEF FreeApproval, Oldest
  <1>3. Oldest(S) \in S
    BY <1>1, <1>2, OldestIsMember
  <1> QED
    BY <1>3 DEF FreeApproval

-----------------------------------------------------------------------------
(* Type correctness *)

\* The initial state has its types.
LEMMA InitTypeOK == Init => TypeOK
  BY ProposalAssumption
  DEF Init, TypeOK, Row, NoRow, ApprovalRow, Action, NoApproval, MergeAction,
      NothingHeld, Proposals, Approvals, Commits

\* What an approval is bound to is the row's own content.
LEMMA RowOfAction ==
    ASSUME NEW r \in Row
    PROVE  MergeAction(r) \in Action
  BY DEF Row, MergeAction, Action

\* A process that holds nothing holds the empty row.
LEMMA NothingHeldType ==
    NoRow \in Row /\ NothingHeld \in [id : Proposals \union {0}, row : Row]
  BY ProposalAssumption DEF NoRow, Row, NothingHeld, Commits

\* An UPDATE of one row keeps the table's type.
LEMMA UpdateType ==
    ASSUME TypeOK, NEW id, NEW r \in Row
    PROVE  [proposal EXCEPT ![id] = r] \in [Proposals -> Row]
  BY DEF TypeOK

\* The three UPDATEs of a proposal keep the type of its row.
LEMMA EditType ==
    ASSUME NEW r \in Row, NEW e \in Evidence \union {"none"}, NEW k \in Commits
    PROVE  /\ [r EXCEPT !.status = "ready_for_review", !.evidence = e] \in Row
           /\ [r EXCEPT !.status = "merged", !.mergeCommit = k] \in Row
           /\ [r EXCEPT !.status = "rejected"] \in Row
  BY DEF Row

\* Every action keeps the types.
LEMMA StepTypeOK == TypeOK /\ [Next]_vars => TypeOK'
  <1> SUFFICES ASSUME TypeOK, [Next]_vars PROVE TypeOK'
    OBVIOUS
  <1> USE ProposalAssumption, NothingHeldType
  <1>1. ASSUME NEW c \in Callers, Preparing(c) PROVE TypeOK'
    <2>1. CASE PrepareRead(c)
      <3>1. MergeBase(checkedOut) \in Commits
        BY DEF TypeOK, MergeBase, Commits
      <3>2. [NoRow EXCEPT !.status = "draft", !.target = checkedOut,
                          !.base = MergeBase(checkedOut),
                          !.candidate = head] \in Row
        BY <3>1 DEF TypeOK, Row, NoRow
      <3> QED
        BY <2>1, <3>2, OldestProposalType
        DEF TypeOK, PrepareRead, Hold, Goto, rows, repository, candidate
    <2>2. CASE PrepareWrite(c)
      <3>1. ASSUME NEW q \in Proposals
            PROVE  [held[c].row EXCEPT !.mergeCommit = proposal[q].mergeCommit]
                      \in Row
        <4>1. held[c].row \in Row /\ proposal[q] \in Row
          BY DEF TypeOK
        <4> QED
          BY <4>1 DEF Row
      <3> DEFINE id == IF held[c].id # 0 THEN held[c].id ELSE FreeProposal
      <3>2. id \in Proposals
        BY <2>2, FreeProposalType DEF PrepareWrite, TypeOK
      <3> HIDE DEF id
      <3>3. proposal' \in [Proposals -> Row]
        BY <2>2, <3>1, <3>2 DEF PrepareWrite, TypeOK, id
      <3> QED
        BY <2>2, <3>3
        DEF TypeOK, PrepareWrite, Return, Goto, repository, candidate
    <2> QED
      BY <1>1, <2>1, <2>2 DEF Preparing
  <1>2. ASSUME NEW c \in Callers, Reviewing(c) PROVE TypeOK'
    <2>1. CASE MarkReadyWrite(c)
      <3>1. proposal' \in [Proposals -> Row]
        <4>1. CASE held[c].id \in Proposals
          <5>1. /\ proposal[held[c].id] \in Row
                /\ held[c].row.evidence \in Evidence \union {"none"}
                /\ tip[checkedOut] \in Commits
            BY <4>1 DEF TypeOK, Row
          <5>2. [proposal[held[c].id] EXCEPT !.status = "ready_for_review",
                  !.evidence = held[c].row.evidence] \in Row
            BY <5>1, EditType
          <5> QED
            BY <2>1, <5>2, UpdateType DEF MarkReadyWrite
        <4>2. CASE held[c].id \notin Proposals
          BY <2>1, <4>2 DEF MarkReadyWrite, TypeOK
        <4> QED
          BY <4>1, <4>2
      <3> QED
        BY <2>1, <3>1
        DEF TypeOK, MarkReadyWrite, Return, Goto, repository, candidate
    <2>2. CASE VerifyRecord(c)
      <3>1. tested' \subseteq Commits
        BY <2>2 DEF VerifyRecord, TypeOK, Row
      <3> QED
        BY <2>2, <3>1 DEF TypeOK, VerifyRecord, Return, Goto, repository, candidate
    <2>3. ASSUME NEW id \in Proposals, MarkReadyRead(c, id) PROVE TypeOK'
      <3>1. \A e \in Passing : [NoRow EXCEPT !.evidence = e] \in Row
        BY DEF Row, NoRow
      <3> QED
        BY <2>3, <3>1
        DEF TypeOK, MarkReadyRead, Hold, Goto, rows, repository, candidate
    <2>4. ASSUME NEW id \in Proposals, VerifyRead(c, id) PROVE TypeOK'
      <3>1. [NoRow EXCEPT !.candidate = proposal[id].candidate] \in Row
        BY DEF TypeOK, Row, NoRow
      <3> QED
        BY <2>4, <3>1
        DEF TypeOK, VerifyRead, Hold, Goto, rows, repository, candidate
    <2> QED
      BY <1>2, <2>1, <2>2, <2>3, <2>4 DEF Reviewing
  <1>3. ASSUME NEW c \in Callers, Asking(c) PROVE TypeOK'
    <2>1. CASE RequestCheck(c)
      BY <2>1 DEF TypeOK, RequestCheck, Return, Goto, repository, candidate
    <2>2. CASE RequestWrite(c)
      <3>1. approval' \in [Approvals -> ApprovalRow]
        <4>1. held[c].row \in Row /\ held[c].id \in Proposals \union {0}
          BY DEF TypeOK
        <4>2. [proposal |-> held[c].id, action |-> MergeAction(held[c].row),
               status |-> "pending"] \in ApprovalRow
          BY <4>1, RowOfAction DEF ApprovalRow, Action
        <4> QED
          BY <2>2, <4>2 DEF RequestWrite, TypeOK
      <3> QED
        BY <2>2, <3>1 DEF TypeOK, RequestWrite, Return, Goto, repository, candidate
    <2>3. CASE CheckRaises(c)
      BY <2>3 DEF TypeOK, CheckRaises, Return, Goto, rows, repository, candidate
    <2>4. ASSUME NEW id \in Proposals, RequestRead(c, id) PROVE TypeOK'
      BY <2>4 DEF TypeOK, RequestRead, Hold, Goto, rows, repository, candidate
    <2> QED
      BY <1>3, <2>1, <2>2, <2>3, <2>4 DEF Asking
  <1>4. ASSUME NEW c \in Callers, Merging(c) PROVE TypeOK'
    <2>1. CASE MergeCheck(c)
      BY <2>1 DEF TypeOK, MergeCheck, Goto, rows, repository, candidate
    <2>2. CASE GitMerge(c)
      <3>1. CASE UNCHANGED <<tip, log, merges, commits>>
        BY <2>2, <3>1 DEF TypeOK, GitMerge, Hold, Goto, rows, candidate
      <3>2. CASE commits + 1 <= MaxCommits
        <4>1. commits + 1 \in Commits
          BY <3>2 DEF TypeOK, Commits
        <4>2. /\ tip' \in [Branches -> Commits]
              /\ log' \in [Branches -> SUBSET Commits]
              /\ merges' \subseteq [commit : Commits, into : Branches,
                                    parent : Commits, candidate : Commits,
                                    proposal : Proposals \union {0},
                                    action : Action]
              /\ commits' \in Commits
          <5>1. MergeAction(held[c].row) \in Action
            BY RowOfAction DEF TypeOK
          <5> QED
            BY <2>2, <4>1, <5>1 DEF GitMerge, TypeOK
        <4> QED
          BY <2>2, <4>2 DEF TypeOK, GitMerge, Hold, Goto, rows, candidate
      <3> QED
        BY <2>2, <3>1, <3>2 DEF GitMerge
    <2>3. CASE GitMergeFails(c)
      BY <2>3 DEF TypeOK, GitMergeFails, Return, Goto, rows, repository, candidate
    <2>4. CASE MergeRecord(c)
      <3>1. proposal' \in [Proposals -> Row]
        <4>1. CASE held[c].id \in Proposals
          <5>1. /\ proposal[held[c].id] \in Row
                /\ held[c].row.evidence \in Evidence \union {"none"}
                /\ tip[checkedOut] \in Commits
            BY <4>1 DEF TypeOK, Row
          <5>2. [proposal[held[c].id] EXCEPT !.status = "merged",
                  !.mergeCommit = tip[checkedOut]] \in Row
            BY <5>1, EditType
          <5> QED
            BY <2>4, <5>2, UpdateType DEF MergeRecord
        <4>2. CASE held[c].id \notin Proposals
          BY <2>4, <4>2 DEF MergeRecord, TypeOK
        <4> QED
          BY <4>1, <4>2
      <3> QED
        BY <2>4, <3>1 DEF TypeOK, MergeRecord, Hold, Goto, repository, candidate
    <2>5. ASSUME NEW id \in Proposals, NEW a \in Approvals, MergeRead(c, id, a)
          PROVE  TypeOK'
      BY <2>5 DEF TypeOK, MergeRead, Hold, Goto, rows, repository, candidate
    <2> QED
      BY <1>4, <2>1, <2>2, <2>3, <2>4, <2>5 DEF Merging
  <1>5. ASSUME NEW c \in Callers, Closing(c) PROVE TypeOK'
    <2>1. CASE RejectWrite(c)
      <3>1. proposal' \in [Proposals -> Row]
        <4>1. CASE held[c].id \in Proposals
          <5>1. /\ proposal[held[c].id] \in Row
                /\ held[c].row.evidence \in Evidence \union {"none"}
                /\ tip[checkedOut] \in Commits
            BY <4>1 DEF TypeOK, Row
          <5>2. [proposal[held[c].id] EXCEPT !.status = "rejected"] \in Row
            BY <5>1, EditType
          <5> QED
            BY <2>1, <5>2, UpdateType DEF RejectWrite
        <4>2. CASE held[c].id \notin Proposals
          BY <2>1, <4>2 DEF RejectWrite, TypeOK
        <4> QED
          BY <4>1, <4>2
      <3> QED
        BY <2>1, <3>1 DEF TypeOK, RejectWrite, Hold, Goto, repository, candidate
    <2>2. CASE Remove(c)
      BY <2>2 DEF TypeOK, Remove, Return, Goto, rows, repository
    <2>3. ASSUME NEW id \in Proposals, RejectRead(c, id) PROVE TypeOK'
      BY <2>3 DEF TypeOK, RejectRead, Hold, Goto, rows, repository, candidate
    <2> QED
      BY <1>5, <2>1, <2>2, <2>3 DEF Closing
  <1>6. ASSUME NEW c \in Callers, Crash(c) PROVE TypeOK'
    BY <1>6 DEF TypeOK, Crash, Return, Goto, rows, repository, candidate
  <1>7. ASSUME NEW a \in Approvals, NEW d \in {"approved", "rejected"}, Decide(a, d)
        PROVE  TypeOK'
    <2>1. approval' \in [Approvals -> ApprovalRow]
      <3>1. approval[a] \in ApprovalRow
        BY DEF TypeOK
      <3>2. [approval[a] EXCEPT !.status = d] \in ApprovalRow
        BY <1>7, <3>1 DEF ApprovalRow
      <3> QED
        BY <1>7, <3>2 DEF Decide, TypeOK
    <2> QED
      BY <1>7, <2>1 DEF TypeOK, Decide, repository, candidate, callers
  <1>8. CASE Amend
    BY <1>8 DEF TypeOK, Amend, rows, repository, callers, Commits
  <1>9. CASE TargetMoves
    BY <1>9 DEF TypeOK, TargetMoves, rows, candidate, callers, Commits
  <1>10. ASSUME NEW b \in Branches, Checkout(b) PROVE TypeOK'
    BY <1>10 DEF TypeOK, Checkout, rows, candidate, callers
  <1>11. CASE UNCHANGED vars
    BY <1>11 DEF TypeOK, vars
  <1> QED
    BY <1>1, <1>2, <1>3, <1>4, <1>5, <1>6, <1>7, <1>8, <1>9, <1>10, <1>11 DEF Next

\* Every variable has its type in every state.
THEOREM ProposalTypeCorrect == Spec => []TypeOK
  BY InitTypeOK, StepTypeOK, PTL DEF Spec

-----------------------------------------------------------------------------
(* Whoever is asked is asked about something verified *)

\* A row under review has its verdict; so have the callers that carry a row to
\* the review or to the request, and the one that is about to ask a test result.
ReadyPassed ==
    \A id \in Proposals :
        proposal[id].status = "ready_for_review" => proposal[id].evidence \in Passing

HeldPassed ==
    \A c \in Callers :
        /\ pc[c] = "prepare" => held[c].row.status = "draft"
        /\ pc[c] \in {"ready", "asking", "request"} =>
              held[c].row.evidence \in Passing
        /\ pc[c] = "request" => held[c].row.candidate \in tested

VerifiedInv == VerifiedBeforeAsked /\ ReadyPassed /\ HeldPassed

\* There is no proposal to be verified yet.
LEMMA InitVerifiedInv == Init => VerifiedInv
  BY DEF Init, VerifiedInv, VerifiedBeforeAsked, ReadyPassed, HeldPassed, Asked,
         NoApproval, NoRow

\* Every step keeps what is known of a verified candidate.
LEMMA StepVerifiedInv == TypeOK /\ VerifiedInv /\ [Next]_vars => VerifiedInv'
  <1> SUFFICES ASSUME TypeOK, VerifiedInv, [Next]_vars PROVE VerifiedInv'
    OBVIOUS
  <1> USE DEF VerifiedInv
  <1>1. ASSUME NEW c \in Callers, Preparing(c) PROVE VerifiedInv'
    <2>1. CASE PrepareRead(c)
      BY <2>1 DEF PrepareRead, Hold, Goto, rows, repository, TypeOK, Asked, NoRow,
                  VerifiedBeforeAsked, ReadyPassed, HeldPassed
    <2>2. CASE PrepareWrite(c)
      <3>1. VerifiedBeforeAsked' /\ HeldPassed'
        BY <2>2 DEF PrepareWrite, Return, Goto, TypeOK, Asked,
                    VerifiedBeforeAsked, HeldPassed
      <3>2. \A id \in Proposals : \/ proposal'[id] = proposal[id]
                                  \/ proposal'[id].status = "draft"
        BY <2>2 DEF PrepareWrite, TypeOK, Row, HeldPassed
      <3>3. ReadyPassed'
        BY <3>2 DEF ReadyPassed
      <3> QED
        BY <3>1, <3>3
    <2> QED
      BY <1>1, <2>1, <2>2 DEF Preparing
  <1>2. ASSUME NEW c \in Callers, Reviewing(c) PROVE VerifiedInv'
    <2>1. CASE MarkReadyWrite(c)
      <3>1. VerifiedBeforeAsked' /\ HeldPassed'
        BY <2>1 DEF MarkReadyWrite, Return, Goto, TypeOK, Asked,
                    VerifiedBeforeAsked, HeldPassed
      <3>2. \A id \in Proposals : \/ proposal'[id] = proposal[id]
                                  \/ proposal'[id].evidence = held[c].row.evidence
        BY <2>1 DEF MarkReadyWrite, TypeOK, Row
      <3>3. ReadyPassed'
        BY <2>1, <3>2 DEF ReadyPassed, HeldPassed, MarkReadyWrite
      <3> QED
        BY <3>1, <3>3
    <2>2. CASE VerifyRecord(c)
      <3>1. tested \subseteq tested'
        BY <2>2 DEF VerifyRecord
      <3>2. VerifiedBeforeAsked'
        BY <2>2, <3>1 DEF VerifyRecord, Asked, VerifiedBeforeAsked
      <3>3. ReadyPassed'
        BY <2>2 DEF VerifyRecord, ReadyPassed
      <3>4. HeldPassed'
        BY <2>2, <3>1 DEF VerifyRecord, Return, Goto, TypeOK, HeldPassed
      <3> QED
        BY <3>2, <3>3, <3>4
    <2>3. ASSUME NEW id \in Proposals, MarkReadyRead(c, id) PROVE VerifiedInv'
      BY <2>3 DEF MarkReadyRead, Hold, Goto, rows, TypeOK, Asked, NoRow,
                  VerifiedBeforeAsked, ReadyPassed, HeldPassed
    <2>4. ASSUME NEW id \in Proposals, VerifyRead(c, id) PROVE VerifiedInv'
      BY <2>4 DEF VerifyRead, Hold, Goto, rows, TypeOK, Asked,
                  VerifiedBeforeAsked, ReadyPassed, HeldPassed
    <2> QED
      BY <1>2, <2>1, <2>2, <2>3, <2>4 DEF Reviewing
  <1>3. ASSUME NEW c \in Callers, Asking(c) PROVE VerifiedInv'
    <2>1. CASE RequestCheck(c)
      BY <2>1 DEF RequestCheck, MayAsk, Return, Goto, TypeOK, Asked,
                  VerifiedBeforeAsked, ReadyPassed, HeldPassed
    <2>2. CASE RequestWrite(c)
      <3>1. \A a \in Approvals :
               \/ approval'[a] = approval[a]
               \/ /\ approval'[a].action.candidate = held[c].row.candidate
                  /\ approval'[a].action.evidence = held[c].row.evidence
        BY <2>2 DEF RequestWrite, MergeAction, TypeOK
      <3>2. VerifiedBeforeAsked'
        BY <2>2, <3>1 DEF RequestWrite, Asked, VerifiedBeforeAsked, HeldPassed
      <3>3. ReadyPassed' /\ HeldPassed'
        BY <2>2 DEF RequestWrite, Return, Goto, TypeOK, ReadyPassed, HeldPassed
      <3> QED
        BY <3>2, <3>3
    <2>3. CASE CheckRaises(c)
      BY <2>3 DEF CheckRaises, Return, Goto, rows, TypeOK, Asked,
                  VerifiedBeforeAsked, ReadyPassed, HeldPassed
    <2>4. ASSUME NEW id \in Proposals, RequestRead(c, id) PROVE VerifiedInv'
      BY <2>4 DEF RequestRead, Hold, Goto, rows, TypeOK, Asked,
                  VerifiedBeforeAsked, ReadyPassed, HeldPassed
    <2> QED
      BY <1>3, <2>1, <2>2, <2>3, <2>4 DEF Asking
  <1>4. ASSUME NEW c \in Callers, Merging(c) PROVE VerifiedInv'
    <2>1. CASE MergeRecord(c)
      <3>1. VerifiedBeforeAsked' /\ HeldPassed'
        BY <2>1 DEF MergeRecord, Hold, Goto, TypeOK, Asked,
                    VerifiedBeforeAsked, HeldPassed
      <3>2. \A id \in Proposals : \/ proposal'[id] = proposal[id]
                                  \/ proposal'[id].status = "merged"
        BY <2>1 DEF MergeRecord, TypeOK, Row
      <3>3. ReadyPassed'
        BY <3>2 DEF ReadyPassed
      <3> QED
        BY <3>1, <3>3
    <2>2. CASE MergeCheck(c) \/ GitMerge(c) \/ GitMergeFails(c)
      BY <2>2 DEF MergeCheck, GitMerge, GitMergeFails, Hold, Return, Goto, rows,
                  TypeOK, Asked, VerifiedBeforeAsked, ReadyPassed, HeldPassed
    <2>3. ASSUME NEW id \in Proposals, NEW a \in Approvals, MergeRead(c, id, a)
          PROVE  VerifiedInv'
      BY <2>3 DEF MergeRead, Hold, Goto, rows, TypeOK, Asked,
                  VerifiedBeforeAsked, ReadyPassed, HeldPassed
    <2> QED
      BY <1>4, <2>1, <2>2, <2>3 DEF Merging
  <1>5. ASSUME NEW c \in Callers, Closing(c) PROVE VerifiedInv'
    <2>1. CASE RejectWrite(c)
      <3>1. VerifiedBeforeAsked' /\ HeldPassed'
        BY <2>1 DEF RejectWrite, Hold, Goto, TypeOK, Asked,
                    VerifiedBeforeAsked, HeldPassed
      <3>2. \A id \in Proposals : \/ proposal'[id] = proposal[id]
                                  \/ proposal'[id].status = "rejected"
        BY <2>1 DEF RejectWrite, TypeOK, Row
      <3>3. ReadyPassed'
        BY <3>2 DEF ReadyPassed
      <3> QED
        BY <3>1, <3>3
    <2>2. CASE Remove(c)
      BY <2>2 DEF Remove, Return, Goto, rows, TypeOK, Asked,
                  VerifiedBeforeAsked, ReadyPassed, HeldPassed
    <2>3. ASSUME NEW id \in Proposals, RejectRead(c, id) PROVE VerifiedInv'
      BY <2>3 DEF RejectRead, Hold, Goto, rows, TypeOK, Asked,
                  VerifiedBeforeAsked, ReadyPassed, HeldPassed
    <2> QED
      BY <1>5, <2>1, <2>2, <2>3 DEF Closing
  <1>6. ASSUME NEW c \in Callers, Crash(c) PROVE VerifiedInv'
    BY <1>6 DEF Crash, Return, Goto, rows, TypeOK, Asked,
                VerifiedBeforeAsked, ReadyPassed, HeldPassed
  <1>7. ASSUME NEW a \in Approvals, NEW d \in {"approved", "rejected"}, Decide(a, d)
        PROVE  VerifiedInv'
    <2>1. \A b \in Approvals : /\ approval'[b].action = approval[b].action
                               /\ Asked(b)' => Asked(b)
      BY <1>7 DEF Decide, TypeOK, ApprovalRow, Asked
    <2>2. VerifiedBeforeAsked'
      BY <1>7, <2>1 DEF Decide, VerifiedBeforeAsked
    <2>3. ReadyPassed' /\ HeldPassed'
      BY <1>7 DEF Decide, callers, ReadyPassed, HeldPassed
    <2> QED
      BY <2>2, <2>3
  <1>8. CASE Amend \/ TargetMoves \/ \E b \in Branches : Checkout(b)
    BY <1>8 DEF Amend, TargetMoves, Checkout, rows, callers, Asked,
                VerifiedBeforeAsked, ReadyPassed, HeldPassed
  <1>9. CASE UNCHANGED vars
    BY <1>9 DEF vars, Asked, VerifiedBeforeAsked, ReadyPassed, HeldPassed
  <1> QED
    BY <1>1, <1>2, <1>3, <1>4, <1>5, <1>6, <1>7, <1>8, <1>9 DEF Next

\* Every approval of a merge that is ever asked for is about a candidate with a
\* passing test result and a passing verdict: request_merge of proposals.py.
THEOREM AskedIsVerified == Spec => []VerifiedBeforeAsked
  <1>1. VerifiedInv => VerifiedBeforeAsked
    BY DEF VerifiedInv
  <1> QED
    BY <1>1, ProposalTypeCorrect, InitVerifiedInv, StepVerifiedInv, PTL DEF Spec

-----------------------------------------------------------------------------
(* No merge without consent                                                  *)

ApprovedFor(id, r) ==
    \E a \in Approvals : /\ approval[a].status = "approved"
                         /\ approval[a].proposal = id
                         /\ approval[a].action = MergeAction(r)

\* A caller that merges has an approval of the row it holds, and once it is past
\* the checks, git will either do what was approved or nothing: unless somebody
\* commits meanwhile, or has checked out another branch.
MergersConsented ==
    \A c \in Callers :
        /\ pc[c] \in {"merging", "git"} => ApprovedFor(held[c].id, held[c].row)
        /\ pc[c] = "git" => held[c].row.candidate \in tested
        /\ pc[c] = "git" /\ ~Interference =>
              /\ head = held[c].row.candidate
              /\ \/ tip[held[c].row.target] = held[c].row.base
                 \/ head \in log[held[c].row.target]

\* An approval once given stays as it is.
LEMMA ApprovedStays ==
    ASSUME TypeOK, [Next]_vars, NEW a \in Approvals,
           approval[a].status = "approved"
    PROVE  approval'[a] = approval[a]
  <1>1. ASSUME NEW c \in Callers, RequestWrite(c)
        PROVE  approval'[a] = approval[a]
    <2>1. FreeApproval # a
      BY <1>1, FreeApprovalIsFree DEF RequestWrite, Asked
    <2> QED
      BY <1>1, <2>1 DEF RequestWrite, TypeOK
  <1>2. ASSUME NEW b \in Approvals, NEW d \in {"approved", "rejected"}, Decide(b, d)
        PROVE  approval'[a] = approval[a]
    BY <1>2 DEF Decide, TypeOK
  <1>3. CASE UNCHANGED approval
    BY <1>3
  <1> QED
    BY <1>1, <1>2, <1>3
    DEF Next, vars, rows, Preparing, Reviewing, Asking, Merging, Closing, Crash,
        PrepareRead, PrepareWrite, MarkReadyRead, MarkReadyWrite, VerifyRead,
        VerifyRecord, RequestRead, RequestCheck, CheckRaises, MergeRead, MergeCheck,
        GitMerge, GitMergeFails, MergeRecord, RejectRead, RejectWrite, Remove,
        Amend, TargetMoves, Checkout

\* What has been tested stays tested.
LEMMA TestedStays ==
    ASSUME [Next]_vars
    PROVE  tested \subseteq tested'
  BY DEF Next, vars, rows, Preparing, Reviewing, Asking, Merging, Closing, Crash,
         PrepareRead, PrepareWrite, MarkReadyRead, MarkReadyWrite, VerifyRead,
         VerifyRecord, RequestRead, RequestCheck, RequestWrite, CheckRaises,
         Decide, MergeRead, MergeCheck, GitMerge, GitMergeFails, MergeRecord,
         RejectRead, RejectWrite, Remove, Amend, TargetMoves, Checkout

\* So whoever has consented has consented afterwards.
LEMMA ConsentStays ==
    ASSUME TypeOK, [Next]_vars
    PROVE  /\ \A id, r : ApprovedFor(id, r) => ApprovedFor(id, r)'
           /\ OnlyConsentedMerges /\ merges' = merges => OnlyConsentedMerges'
           /\ MergesAreApproved /\ merges' = merges /\ tested \subseteq tested'
                 => MergesAreApproved'
  BY ApprovedStays
     DEF ApprovedFor, OnlyConsentedMerges, MergesAreApproved, MergeAction

\* A caller that neither has just been let to merge nor passed the checks keeps
\* MergersConsented, as long as nobody else moves the branch or the candidate.
LEMMA MergersKept ==
    ASSUME TypeOK, [Next]_vars, MergersConsented, NEW c \in Callers,
           UNCHANGED <<head, tip, log>>,
           \A d \in Callers \ {c} : pc'[d] = pc[d] /\ held'[d] = held[d],
           pc'[c] \notin {"merging", "git"}
    PROVE  MergersConsented'
  BY ConsentStays, TestedStays DEF MergersConsented

\* A merge goes on with the consent it read.
LEMMA StepMergers ==
    ASSUME TypeOK, MergersConsented, Next
    PROVE  MergersConsented'
  <1>0. [Next]_vars
    OBVIOUS
  <1>1. ASSUME NEW c \in Callers,
               \/ Preparing(c) \/ Reviewing(c) \/ Asking(c) \/ Closing(c)
               \/ GitMergeFails(c) \/ MergeRecord(c) \/ Crash(c)
        PROVE  MergersConsented'
    <2>1. /\ UNCHANGED <<head, tip, log>>
          /\ pc'[c] \notin {"merging", "git"}
          /\ \A d \in Callers \ {c} : pc'[d] = pc[d] /\ held'[d] = held[d]
      <3>1. CASE Preparing(c) \/ Reviewing(c)
        BY <3>1 DEF Preparing, Reviewing, PrepareRead, PrepareWrite, MarkReadyRead,
                    MarkReadyWrite, VerifyRead, VerifyRecord, Return, Hold, Goto,
                    repository, candidate, TypeOK
      <3>2. CASE Asking(c)
        BY <3>2 DEF Asking, RequestRead, RequestCheck, RequestWrite, CheckRaises,
                    Return, Hold, Goto, repository, candidate, TypeOK
      <3>3. CASE Closing(c) \/ GitMergeFails(c) \/ MergeRecord(c) \/ Crash(c)
        BY <3>3 DEF Closing, RejectRead, RejectWrite, Remove, GitMergeFails,
                    MergeRecord, Crash, Return, Hold, Goto, repository, candidate,
                    TypeOK
      <3> QED
        BY <1>1, <3>1, <3>2, <3>3
    <2> QED
      BY <1>0, <2>1, MergersKept
  <1>2. ASSUME NEW c \in Callers, NEW id \in Proposals, NEW a \in Approvals,
               MergeRead(c, id, a)
        PROVE  MergersConsented'
    <2>1. /\ UNCHANGED <<head, tip, log>>
          /\ pc'[c] = "merging"
          /\ held'[c] = [id |-> id, row |-> proposal[id]]
          /\ \A d \in Callers \ {c} : pc'[d] = pc[d] /\ held'[d] = held[d]
      BY <1>2 DEF MergeRead, Hold, Goto, repository, candidate, TypeOK
    <2>2. ApprovedFor(id, proposal[id])
      BY <1>2 DEF MergeRead, Consents, ApprovedFor
    <2>3. ApprovedFor(held[c].id, held[c].row)'
      <3>1. approval' = approval
        BY <1>2 DEF MergeRead, rows
      <3> QED
        BY <2>1, <2>2, <3>1 DEF ApprovedFor, MergeAction
    <2> QED
      BY <1>0, <2>1, <2>3, ConsentStays, TestedStays DEF MergersConsented
  <1>3. ASSUME NEW c \in Callers, MergeCheck(c) PROVE MergersConsented'
    <2>1. /\ UNCHANGED <<head, tip, log, held, approval, tested>>
          /\ pc[c] = "merging"
          /\ \A d \in Callers \ {c} : pc'[d] = pc[d]
      BY <1>3 DEF MergeCheck, Goto, repository, candidate, rows, TypeOK
    <2>2. /\ tip[held[c].row.target] = held[c].row.base
          /\ head = held[c].row.candidate
          /\ held[c].row.candidate \in tested
      BY <1>3 DEF MergeCheck, MayAsk, Unmoved
    <2> QED
      BY <2>1, <2>2 DEF MergersConsented, ApprovedFor, MergeAction
  <1>4. ASSUME NEW c \in Callers, GitMerge(c) PROVE MergersConsented'
    <2>1. /\ UNCHANGED <<head, approval>>
          /\ pc'[c] = "record"
          /\ \A d \in Callers \ {c} : pc'[d] = pc[d] /\ held'[d] = held[d]
      BY <1>4 DEF GitMerge, Hold, Goto, candidate, rows, TypeOK
    <2>2. \A b \in Branches : \/ tip'[b] = tip[b] /\ log'[b] = log[b]
                             \/ head \in log'[b]
      BY <1>4 DEF GitMerge, TypeOK
    <2>3. \A d \in Callers : held[d].row.target \in Branches
      BY DEF TypeOK, Row
    <2>4. \A d \in Callers \ {c} : pc[d] = "git" /\ ~Interference =>
             \/ tip'[held[d].row.target] = held[d].row.base
             \/ head \in log'[held[d].row.target]
      BY <2>2, <2>3 DEF MergersConsented
    <2> QED
      BY <1>0, <2>1, <2>4, ConsentStays, TestedStays DEF MergersConsented
  <1>5. ASSUME NEW a \in Approvals, NEW d \in {"approved", "rejected"}, Decide(a, d)
        PROVE  MergersConsented'
    <2>1. UNCHANGED <<head, tip, log, pc, held>>
      BY <1>5 DEF Decide, repository, candidate, callers
    <2> QED
      BY <1>0, <2>1, ConsentStays, TestedStays DEF MergersConsented
  <1>6. CASE Amend \/ TargetMoves
    <2>1. /\ UNCHANGED <<approval, tested, pc, held>>
          /\ Interference \/ \A d \in Callers : pc[d] # "git"
      BY <1>6 DEF Amend, TargetMoves, Quiet, rows, callers
    <2> QED
      BY <2>1 DEF MergersConsented, ApprovedFor, MergeAction
  <1>7. ASSUME NEW b \in Branches, Checkout(b) PROVE MergersConsented'
    <2>1. UNCHANGED <<approval, tested, pc, held, head, tip, log>>
      BY <1>7 DEF Checkout, rows, candidate, callers
    <2> QED
      BY <2>1 DEF MergersConsented, ApprovedFor, MergeAction
  <1> QED
    BY <1>1, <1>2, <1>3, <1>4, <1>5, <1>6, <1>7 DEF Next, Merging

\* Only git merges.
LEMMA GitOnly ==
    ASSUME Next, merges' # merges
    PROVE  \E c \in Callers : GitMerge(c)
  BY DEF Next, rows, repository, Preparing, Reviewing, Asking, Merging, Closing,
        Crash, PrepareRead, PrepareWrite, MarkReadyRead, MarkReadyWrite, VerifyRead,
        VerifyRecord, RequestRead, RequestCheck, RequestWrite, CheckRaises, Decide,
        MergeRead, MergeCheck, GitMergeFails, MergeRecord, RejectRead, RejectWrite,
        Remove, Amend, TargetMoves, Checkout

\* The merge that git makes is the one its call had checked.
LEMMA StepApproved ==
    ASSUME TypeOK, MergersConsented, MergesAreApproved, Next
    PROVE  MergesAreApproved'
  <1>0. [Next]_vars
    OBVIOUS
  <1>1. CASE merges' = merges
    BY <1>0, <1>1, ConsentStays, TestedStays
  <1>2. ASSUME NEW c \in Callers, GitMerge(c), merges' # merges
        PROVE  MergesAreApproved'
    <2> DEFINE m == [commit |-> commits + 1, into |-> checkedOut,
                     parent |-> tip[checkedOut], candidate |-> head,
                     proposal |-> held[c].id,
                     action |-> MergeAction(held[c].row)]
    <2>1. merges' = merges \union {m}
      BY <1>2 DEF GitMerge
    <2>2. /\ pc[c] = "git" /\ head \notin log[checkedOut]
          /\ approval' = approval /\ tested' = tested
      BY <1>2 DEF GitMerge, rows
    <2>3. /\ m.action.candidate \in tested
          /\ ~Interference =>
                /\ m.candidate = m.action.candidate
                /\ m.into = m.action.target => m.parent = m.action.base
      BY <2>2 DEF MergersConsented, MergeAction
    <2>4. \E a \in Approvals : /\ approval[a].status = "approved"
                               /\ approval[a].proposal = m.proposal
                               /\ approval[a].action = m.action
      BY <2>2 DEF MergersConsented, ApprovedFor
    <2> HIDE DEF m
    <2> QED
      BY <2>1, <2>2, <2>3, <2>4 DEF MergesAreApproved
  <1> QED
    BY <1>1, <1>2, GitOnly

\* Git merges only for a call that holds a person's approval of the very action
\* it has checked, on a tested candidate, however many callers prepare, amend,
\* verify, ask and merge at once, wherever they die, and whatever is committed
\* or checked out around them; and if nobody commits to the trees while merge()
\* runs, what it merges is the candidate that was approved.
THEOREM MergesAreConsented == Spec => []MergesAreApproved
  <1> DEFINE Inv == MergersConsented /\ MergesAreApproved
  <1>1. Init => Inv
    BY DEF Init, MergersConsented, MergesAreApproved
  <1>2. Inv /\ UNCHANGED vars => Inv'
    BY DEF MergersConsented, MergesAreApproved, ApprovedFor, MergeAction, vars
  <1>3. TypeOK /\ Inv /\ [Next]_vars => Inv'
    BY <1>2, StepMergers, StepApproved
  <1>4. Inv => MergesAreApproved
    OBVIOUS
  <1> QED
    BY <1>1, <1>3, <1>4, ProposalTypeCorrect, PTL DEF Spec

-----------------------------------------------------------------------------
(* In repositories that people leave alone while a merge runs and that stay  *)
(* on one branch during a review, the branch and the commit are those of the *)
(* approval as well                                                          *)

\* Reviews are about the branch checked out, and rows are never deleted.
OneTarget ==
    /\ \A id \in Proposals : Exists(id) => proposal[id].target = checkedOut
    /\ \A c \in Callers :
          /\ pc[c] \in {"prepare", "merging", "git"} =>
                held[c].row.target = checkedOut
          /\ pc[c] \in {"ready", "merging", "git", "record", "reject"} =>
                held[c].id \in Proposals /\ Exists(held[c].id)

DraftHeld == \A c \in Callers : pc[c] = "prepare" => held[c].row.status = "draft"

ConsentInv == OnlyConsentedMerges /\ MergersConsented /\ OneTarget /\ DraftHeld

\* There is no proposal to be merged yet.
LEMMA InitConsentInv == Init => ConsentInv
  BY DEF Init, ConsentInv, OnlyConsentedMerges, MergersConsented, OneTarget,
         DraftHeld, Exists, NoRow

\* No operation deletes a row or lets it be about another branch, once it exists
\* and reviews are about the branch checked out.
LEMMA RowsStay ==
    ASSUME TypeOK, OneTarget, DraftHeld, NEW c \in Callers,
           \/ PrepareWrite(c) \/ MarkReadyWrite(c) \/ MergeRecord(c) \/ RejectWrite(c)
    PROVE  \A id \in Proposals :
              /\ Exists(id) => Exists(id)'
              /\ Exists(id)' => proposal'[id].target = checkedOut
  <1>1. CASE PrepareWrite(c)
    <2>1. \A id \in Proposals :
             \/ proposal'[id] = proposal[id]
             \/ /\ proposal'[id].status = "draft"
                /\ proposal'[id].target = held[c].row.target
      BY <1>1 DEF PrepareWrite, TypeOK, Row, DraftHeld
    <2> QED
      BY <1>1, <2>1 DEF PrepareWrite, OneTarget, Exists
  <1>2. CASE MarkReadyWrite(c) \/ MergeRecord(c) \/ RejectWrite(c)
    <2>1. held[c].id \in Proposals /\ Exists(held[c].id)
      BY <1>2 DEF OneTarget, MarkReadyWrite, MergeRecord, RejectWrite
    <2>2. \A id \in Proposals :
             \/ proposal'[id] = proposal[id]
             \/ /\ id = held[c].id
                /\ proposal'[id].status \in {"ready_for_review", "merged", "rejected"}
                /\ proposal'[id].target = proposal[id].target
      <3>1. CASE MarkReadyWrite(c)
        BY <2>1, <3>1 DEF MarkReadyWrite, TypeOK, Row
      <3>2. CASE MergeRecord(c)
        BY <2>1, <3>2 DEF MergeRecord, TypeOK, Row
      <3>3. CASE RejectWrite(c)
        BY <2>1, <3>3 DEF RejectWrite, TypeOK, Row
      <3> QED
        BY <1>2, <3>1, <3>2, <3>3
    <2> QED
      BY <2>1, <2>2 DEF OneTarget, Exists
  <1> QED
    BY <1>1, <1>2

\* A step of one caller that leaves the repository and the candidate alone keeps
\* OneTarget, if what the caller holds afterwards is about the branch checked out.
LEMMA OneTargetKept ==
    ASSUME TypeOK, OneTarget, NEW c \in Callers, checkedOut' = checkedOut,
           \A id \in Proposals : /\ Exists(id) => Exists(id)'
                                 /\ Exists(id)' => proposal'[id].target = checkedOut,
           \A d \in Callers \ {c} : pc'[d] = pc[d] /\ held'[d] = held[d],
           pc'[c] \in {"prepare", "merging", "git"} =>
              held'[c].row.target = checkedOut,
           pc'[c] \in {"ready", "merging", "git", "record", "reject"} =>
              held'[c].id \in Proposals /\ Exists(held'[c].id)
    PROVE  OneTarget'
  <1>1. \A id \in Proposals : Exists(id)' => proposal'[id].target = checkedOut'
    OBVIOUS
  <1>2. ASSUME NEW d \in Callers
        PROVE  /\ pc'[d] \in {"prepare", "merging", "git"} =>
                     held'[d].row.target = checkedOut'
               /\ pc'[d] \in {"ready", "merging", "git", "record", "reject"} =>
                     held'[d].id \in Proposals /\ Exists(held[d].id)'
    <2>1. CASE d = c
      <3>1. held'[c].id \in Proposals /\ Exists(held'[c].id) => Exists(held[c].id)'
        BY DEF Exists
      <3> QED
        BY <2>1, <3>1
    <2>2. CASE d # c
      <3>1. held[d].id \in Proposals /\ Exists(held[d].id) => Exists(held[d].id)'
        BY <2>2 DEF Exists
      <3> QED
        BY <2>2, <3>1 DEF OneTarget
    <2> QED
      BY <2>1, <2>2
  <1> QED
    BY <1>1, <1>2 DEF OneTarget

\* Without a switch of the branch all rows are about one target.
LEMMA StepOneTarget ==
    ASSUME TypeOK, ConsentInv, Next, ~Switching
    PROVE  OneTarget' /\ DraftHeld'
  <1> USE DEF ConsentInv
  <1> DEFINE Stay == \A id \in Proposals :
                        /\ Exists(id) => Exists(id)'
                        /\ Exists(id)' => proposal'[id].target = checkedOut
  <1>0. proposal' = proposal => Stay
    BY DEF Exists, OneTarget
  <1> HIDE DEF Stay
  <1>1. ASSUME NEW c \in Callers, Preparing(c) PROVE OneTarget' /\ DraftHeld'
    <2>1. CASE PrepareRead(c)
      <3>1. Stay /\ checkedOut' = checkedOut
        BY <1>0, <2>1 DEF PrepareRead, rows, repository
      <3>2. held'[c].row.target = checkedOut
        BY <2>1 DEF PrepareRead, Hold, TypeOK, NoRow
      <3>3. OneTarget'
        BY <2>1, <3>1, <3>2, OneTargetKept
        DEF PrepareRead, Hold, Goto, TypeOK, Stay
      <3> QED
        BY <2>1, <3>3 DEF PrepareRead, Hold, Goto, TypeOK, DraftHeld, NoRow
    <2>2. CASE PrepareWrite(c)
      <3>1. Stay /\ checkedOut' = checkedOut
        BY <2>2, RowsStay DEF PrepareWrite, repository, Stay
      <3>2. OneTarget'
        BY <2>2, <3>1, OneTargetKept
        DEF PrepareWrite, Return, Goto, TypeOK, Stay
      <3> QED
        BY <2>2, <3>2 DEF PrepareWrite, Return, Goto, TypeOK, DraftHeld
    <2> QED
      BY <1>1, <2>1, <2>2 DEF Preparing
  <1>2. ASSUME NEW c \in Callers,
               \/ MarkReadyWrite(c) \/ MergeRecord(c) \/ RejectWrite(c)
        PROVE  OneTarget' /\ DraftHeld'
    <2>1. Stay /\ checkedOut' = checkedOut
      BY <1>2, RowsStay
      DEF MarkReadyWrite, MergeRecord, RejectWrite, repository, Stay
    <2>2. /\ pc'[c] \in {"idle", "remove"}
          /\ \A d \in Callers \ {c} : pc'[d] = pc[d] /\ held'[d] = held[d]
      BY <1>2
      DEF MarkReadyWrite, MergeRecord, RejectWrite, Return, Hold, Goto, TypeOK
    <2>3. OneTarget'
      BY <2>1, <2>2, OneTargetKept DEF Stay
    <2> QED
      BY <2>2, <2>3 DEF DraftHeld
  <1>3. ASSUME NEW c \in Callers,
               \/ VerifyRecord(c) \/ RequestCheck(c) \/ RequestWrite(c)
               \/ CheckRaises(c) \/ GitMergeFails(c) \/ Remove(c) \/ Crash(c)
        PROVE  OneTarget' /\ DraftHeld'
    <2>1. Stay /\ checkedOut' = checkedOut
      BY <1>0, <1>3 DEF VerifyRecord, RequestCheck, RequestWrite, CheckRaises,
                        GitMergeFails, Remove, Crash, rows, repository
    <2>2. /\ pc'[c] \in {"idle", "request"}
          /\ \A d \in Callers \ {c} : pc'[d] = pc[d] /\ held'[d] = held[d]
      BY <1>3 DEF VerifyRecord, RequestCheck, RequestWrite, CheckRaises,
                  GitMergeFails, Remove, Crash, Return, Goto, TypeOK
    <2>3. OneTarget'
      BY <2>1, <2>2, OneTargetKept DEF Stay
    <2> QED
      BY <2>2, <2>3 DEF DraftHeld
  <1>4. ASSUME NEW c \in Callers, NEW id \in Proposals,
               \/ MarkReadyRead(c, id) \/ VerifyRead(c, id) \/ RequestRead(c, id)
               \/ RejectRead(c, id)
        PROVE  OneTarget' /\ DraftHeld'
    <2>1. Stay /\ checkedOut' = checkedOut
      BY <1>0, <1>4 DEF MarkReadyRead, VerifyRead, RequestRead, RejectRead, rows,
                        repository
    <2>2. /\ pc'[c] \in {"ready", "verify", "asking", "reject"}
          /\ held'[c].id = id /\ Exists(id)
          /\ \A d \in Callers \ {c} : pc'[d] = pc[d] /\ held'[d] = held[d]
      BY <1>4 DEF MarkReadyRead, VerifyRead, RequestRead, RejectRead, Hold, Goto,
                  Exists, TypeOK
    <2>3. OneTarget'
      BY <2>1, <2>2, OneTargetKept DEF Stay
    <2> QED
      BY <2>2, <2>3 DEF DraftHeld
  <1>5. ASSUME NEW c \in Callers, NEW id \in Proposals, NEW a \in Approvals,
               MergeRead(c, id, a)
        PROVE  OneTarget' /\ DraftHeld'
    <2>1. Stay /\ checkedOut' = checkedOut
      BY <1>0, <1>5 DEF MergeRead, rows, repository
    <2>2. /\ pc'[c] = "merging"
          /\ held'[c] = [id |-> id, row |-> proposal[id]] /\ Exists(id)
          /\ \A d \in Callers \ {c} : pc'[d] = pc[d] /\ held'[d] = held[d]
      BY <1>5 DEF MergeRead, Hold, Goto, TypeOK
    <2>3. proposal[id].target = checkedOut
      BY <2>2 DEF OneTarget
    <2>4. OneTarget'
      BY <2>1, <2>2, <2>3, OneTargetKept DEF Stay
    <2> QED
      BY <2>2, <2>4 DEF DraftHeld
  <1>6. ASSUME NEW c \in Callers, MergeCheck(c) \/ GitMerge(c)
        PROVE  OneTarget' /\ DraftHeld'
    <2>1. Stay /\ checkedOut' = checkedOut
      BY <1>0, <1>6 DEF MergeCheck, GitMerge, rows, repository
    <2>2. /\ pc[c] \in {"merging", "git"}
          /\ pc'[c] \in {"git", "record"}
          /\ held'[c].id = held[c].id
          /\ pc'[c] = "git" => held'[c] = held[c]
          /\ \A d \in Callers \ {c} : pc'[d] = pc[d] /\ held'[d] = held[d]
      BY <1>6 DEF MergeCheck, GitMerge, Hold, Goto, TypeOK
    <2>3. /\ held[c].row.target = checkedOut
          /\ held[c].id \in Proposals /\ Exists(held[c].id)
      BY <2>2 DEF OneTarget
    <2>4. OneTarget'
      BY <2>1, <2>2, <2>3, OneTargetKept DEF Stay
    <2> QED
      BY <2>2, <2>4 DEF DraftHeld
  <1>7. ASSUME NEW a \in Approvals, NEW d \in {"approved", "rejected"}, Decide(a, d)
        PROVE  OneTarget' /\ DraftHeld'
    BY <1>7 DEF Decide, repository, callers, OneTarget, DraftHeld, Exists
  <1>8. CASE Amend \/ TargetMoves
    BY <1>8 DEF Amend, TargetMoves, rows, repository, callers, OneTarget,
                DraftHeld, Exists
  <1>9. ASSUME NEW b \in Branches, Checkout(b) PROVE OneTarget' /\ DraftHeld'
    BY <1>9 DEF Checkout, Unreviewed, rows, callers, OneTarget, DraftHeld, Exists
  <1> QED
    BY <1>1, <1>2, <1>3, <1>4, <1>5, <1>6, <1>7, <1>8, <1>9
    DEF Next, Reviewing, Asking, Merging, Closing

\* Git merges what was approved, or does nothing.
LEMMA StepConsented ==
    ASSUME TypeOK, ConsentInv, Next, ~Interference
    PROVE  OnlyConsentedMerges'
  <1> USE DEF ConsentInv
  <1>1. CASE merges' = merges
    BY <1>1, ConsentStays
  <1>2. ASSUME NEW c \in Callers, GitMerge(c), merges' # merges
        PROVE  OnlyConsentedMerges'
    <2>1. PICK new : merges' = merges \union
                       {[commit |-> new, into |-> checkedOut,
                         parent |-> tip[checkedOut], candidate |-> head,
                         proposal |-> held[c].id,
                         action |-> MergeAction(held[c].row)]}
      BY <1>2 DEF GitMerge
    <2>2. pc[c] = "git" /\ head \notin log[checkedOut] /\ approval' = approval
      BY <1>2 DEF GitMerge, rows
    <2>3. held[c].row.target = checkedOut
      BY <2>2 DEF OneTarget
    <2>4. head = held[c].row.candidate /\ tip[checkedOut] = held[c].row.base
      BY <2>2, <2>3 DEF MergersConsented
    <2>5. PICK a \in Approvals : /\ approval[a].status = "approved"
                                 /\ approval[a].proposal = held[c].id
                                 /\ approval[a].action = MergeAction(held[c].row)
      BY <2>2 DEF MergersConsented, ApprovedFor
    <2> QED
      BY <2>1, <2>2, <2>3, <2>4, <2>5 DEF OnlyConsentedMerges, MergeAction
  <1> QED
    BY <1>1, <1>2, GitOnly

-----------------------------------------------------------------------------
(* What is recorded as merged has been merged, and once.  Commits are        *)
(* numbered as they are made: what is newer has the larger number.           *)

Numbered ==
    /\ head <= commits
    /\ \A b \in Branches : tip[b] <= commits /\ \A k \in log[b] : k <= tip[b]

\* A proposed candidate has been the head of the worktree, built on a commit of
\* the target, and once the target contains it the target has moved on.
Dated(k, base) ==
    /\ k <= head
    /\ base <= tip[checkedOut]
    /\ k \in log[checkedOut] => base < tip[checkedOut]

AllDated ==
    /\ \A id \in Proposals : Exists(id) => Dated(proposal[id].candidate, proposal[id].base)
    /\ \A c \in Callers :
          pc[c] \in {"prepare", "asking", "request", "merging", "git"} =>
              Dated(held[c].row.candidate, held[c].row.base)
    /\ \A a \in Approvals : Asked(a) => approval[a].action.candidate <= head

\* The candidate has just been merged.
HeadMerged == \E m \in merges : m.commit = tip[checkedOut] /\ m.candidate = head

\* Git finds the candidate in the target only if another call has just merged
\* it; what a call is about to record has been merged, with consent.
GitDone ==
    \A c \in Callers :
        /\ (pc[c] = "git" /\ head \in log[checkedOut]) => HeadMerged
        /\ pc[c] = "record" =>
              /\ HeadMerged
              /\ \E a \in Approvals : /\ approval[a].status = "approved"
                                      /\ approval[a].proposal = held[c].id
                                      /\ approval[a].action.candidate = head

\* Nothing newer than what was merged is, or will be, approved for a proposal.
LastOfIts(m) ==
    /\ \A a \in Approvals :
          (Asked(a) /\ approval[a].proposal = m.proposal) =>
              approval[a].action.candidate <= m.candidate
    /\ \A c \in Callers :
          (pc[c] = "request" /\ held[c].id = m.proposal) =>
              held[c].row.candidate <= m.candidate

MergesAreLast ==
    \A m \in merges :
        /\ m.candidate \in log[checkedOut] /\ m.candidate <= head
        /\ m.proposal \in Proposals /\ Exists(m.proposal)
        /\ LastOfIts(m)

HistoryInv ==
    /\ Numbered
    /\ AllDated
    /\ GitDone
    /\ MergesAreLast
    /\ RecordedMergesHappened
    /\ MergedAtMostOnce

\* It holds of a run that has just succeeded.
LEMMA InitHistoryInv == Init => HistoryInv
  BY ProposalAssumption
  DEF Init, HistoryInv, Numbered, AllDated, GitDone, MergesAreLast, RecordedMergesHappened,
      MergedAtMostOnce, Exists, Asked, NoRow, NoApproval, Commits

\* Which steps touch the two trees.
LEMMA TreesStay ==
    ASSUME [Next]_vars
    PROVE  \/ UNCHANGED <<checkedOut, tip, log, merges, head, commits>>
           \/ \E c \in Callers : GitMerge(c)
           \/ Amend
           \/ TargetMoves
           \/ \E b \in Branches : Checkout(b)
  <1> USE DEF repository, candidate
  <1>1. ASSUME NEW c \in Callers, Preparing(c) \/ Reviewing(c) \/ Asking(c)
        PROVE  UNCHANGED <<checkedOut, tip, log, merges, head, commits>>
    BY <1>1 DEF Preparing, Reviewing, Asking, PrepareRead, PrepareWrite, MarkReadyRead,
       MarkReadyWrite, VerifyRead, VerifyRecord, RequestRead, RequestCheck, RequestWrite,
       CheckRaises
  <1>2. ASSUME NEW c \in Callers, Merging(c)
        PROVE  \/ UNCHANGED <<checkedOut, tip, log, merges, head, commits>>
               \/ GitMerge(c)
    BY <1>2 DEF Merging, MergeRead, MergeCheck, GitMergeFails, MergeRecord
  <1>3. ASSUME NEW c \in Callers, Closing(c) \/ Crash(c)
        PROVE  UNCHANGED <<checkedOut, tip, log, merges, head, commits>>
    BY <1>3 DEF Closing, RejectRead, RejectWrite, Remove, Crash
  <1>4. ASSUME NEW a \in Approvals, NEW d \in {"approved", "rejected"}, Decide(a, d)
        PROVE  UNCHANGED <<checkedOut, tip, log, merges, head, commits>>
    BY <1>4 DEF Decide
  <1>5. CASE UNCHANGED vars
    BY <1>5 DEF vars
  <1> QED
    BY <1>1, <1>2, <1>3, <1>4, <1>5 DEF Next

\* Which steps write rows, and that none deletes one.
LEMMA RowsWritten ==
    ASSUME TypeOK, ConsentInv, [Next]_vars, NEW id \in Proposals
    PROVE  /\ Exists(id) => Exists(id)'
           /\ \/ proposal'[id].candidate = proposal[id].candidate
                 /\ proposal'[id].base = proposal[id].base
                 /\ Exists(id) <=> Exists(id)'
              \/ \E c \in Callers : /\ pc[c] = "prepare"
                                    /\ proposal'[id].candidate = held[c].row.candidate
                                    /\ proposal'[id].base = held[c].row.base
           /\ \/ \E c \in Callers : MergeRecord(c) /\ id = held[c].id
              \/ /\ proposal'[id].status = "merged" =>
                       /\ proposal[id].status = "merged"
                       /\ proposal'[id].mergeCommit = proposal[id].mergeCommit
                 /\ mergeStep'[id] = "SUCCEEDED" => mergeStep[id] = "SUCCEEDED"
  <1> USE DEF ConsentInv
  <1>1. ASSUME NEW c \in Callers, PrepareWrite(c)
        PROVE  \/ UNCHANGED proposal[id]
               \/ /\ pc[c] = "prepare"
                  /\ proposal'[id].status = "draft"
                  /\ proposal'[id].candidate = held[c].row.candidate
                  /\ proposal'[id].base = held[c].row.base
    BY <1>1 DEF PrepareWrite, TypeOK, Row, DraftHeld
  <1>2. ASSUME NEW c \in Callers, MarkReadyWrite(c) \/ RejectWrite(c) \/ MergeRecord(c)
        PROVE  \/ UNCHANGED proposal[id]
               \/ /\ id = held[c].id /\ Exists(id)
                  /\ MarkReadyWrite(c) => proposal'[id].status = "ready_for_review"
                  /\ RejectWrite(c) => proposal'[id].status = "rejected"
                  /\ MergeRecord(c) => proposal'[id].status = "merged"
                  /\ proposal'[id].candidate = proposal[id].candidate
                  /\ proposal'[id].base = proposal[id].base
    <2>1. held[c].id \in Proposals /\ Exists(held[c].id)
      BY <1>2 DEF OneTarget, MarkReadyWrite, MergeRecord, RejectWrite
    <2>2. CASE MarkReadyWrite(c)
      BY <2>1, <2>2 DEF MarkReadyWrite, RejectWrite, MergeRecord, TypeOK, Row
    <2>3. CASE RejectWrite(c)
      BY <2>1, <2>3 DEF MarkReadyWrite, RejectWrite, MergeRecord, TypeOK, Row
    <2>4. CASE MergeRecord(c)
      BY <2>1, <2>4 DEF MarkReadyWrite, RejectWrite, MergeRecord, TypeOK, Row
    <2> QED
      BY <1>2, <2>2, <2>3, <2>4
  <1>3. \/ UNCHANGED proposal
        \/ \E c \in Callers : \/ PrepareWrite(c) \/ MarkReadyWrite(c) \/ RejectWrite(c)
                              \/ MergeRecord(c)
    BY DEF Next, vars, rows, Preparing, Reviewing, Asking, Merging, Closing, Crash,
           PrepareRead, MarkReadyRead, VerifyRead, VerifyRecord, RequestRead, RequestCheck,
           RequestWrite, CheckRaises, Decide, MergeRead, MergeCheck, GitMerge, GitMergeFails,
           RejectRead, Remove, Amend, TargetMoves, Checkout
  <1>4. \/ \E c \in Callers : MergeRecord(c) /\ id = held[c].id
        \/ mergeStep'[id] = "SUCCEEDED" => mergeStep[id] = "SUCCEEDED"
    <2>1. ASSUME NEW c \in Callers, RequestCheck(c) \/ RequestWrite(c) \/ MergeRecord(c)
          PROVE  \/ MergeRecord(c) /\ id = held[c].id
                 \/ mergeStep'[id] = "SUCCEEDED" => mergeStep[id] = "SUCCEEDED"
      BY <2>1 DEF RequestCheck, RequestWrite, MergeRecord, TypeOK
    <2>2. \/ UNCHANGED mergeStep
          \/ \E c \in Callers : RequestCheck(c) \/ RequestWrite(c) \/ MergeRecord(c)
      BY DEF Next, vars, rows, Preparing, Reviewing, Asking, Merging, Closing, Crash,
             PrepareRead, PrepareWrite, MarkReadyRead, MarkReadyWrite, VerifyRead,
             VerifyRecord, RequestRead, CheckRaises, Decide, MergeRead, MergeCheck, GitMerge,
             GitMergeFails, RejectRead, RejectWrite, Remove, Amend, TargetMoves, Checkout
    <2> QED
      BY <2>1, <2>2
  <1>5. \/ UNCHANGED proposal[id]
        \/ \E c \in Callers :
              /\ pc[c] = "prepare"
              /\ proposal'[id].status = "draft"
              /\ proposal'[id].candidate = held[c].row.candidate
              /\ proposal'[id].base = held[c].row.base
        \/ \E c \in Callers :
              /\ Exists(id)
              /\ proposal'[id].candidate = proposal[id].candidate
              /\ proposal'[id].base = proposal[id].base
              /\ \/ MergeRecord(c) /\ id = held[c].id /\ proposal'[id].status = "merged"
                 \/ proposal'[id].status \in {"ready_for_review", "rejected"}
    BY <1>1, <1>2, <1>3
  <1> QED
    BY <1>4, <1>5 DEF Exists

\* Approvals are asked for by callers that are about to request one.
LEMMA ApprovalsWritten ==
    ASSUME TypeOK, [Next]_vars, NEW a \in Approvals, Asked(a)'
    PROVE  \/ /\ Asked(a)
              /\ approval'[a].action = approval[a].action
              /\ approval'[a].proposal = approval[a].proposal
           \/ \E c \in Callers : /\ pc[c] = "request"
                                 /\ approval'[a].action.candidate = held[c].row.candidate
                                 /\ approval'[a].proposal = held[c].id
  <1> USE DEF Asked
  <1>1. ASSUME NEW c \in Callers, RequestWrite(c)
        PROVE  \/ approval'[a] = approval[a]
               \/ /\ pc[c] = "request"
                  /\ approval'[a].action.candidate = held[c].row.candidate
                  /\ approval'[a].proposal = held[c].id
    BY <1>1 DEF RequestWrite, TypeOK, MergeAction
  <1>2. ASSUME NEW b \in Approvals, NEW d \in {"approved", "rejected"}, Decide(b, d)
        PROVE  /\ Asked(a)
               /\ approval'[a].action = approval[a].action
               /\ approval'[a].proposal = approval[a].proposal
    BY <1>2 DEF Decide, TypeOK, ApprovalRow
  <1>3. CASE UNCHANGED approval
    BY <1>3
  <1>4. \/ UNCHANGED approval
        \/ \E c \in Callers : RequestWrite(c)
        \/ \E b \in Approvals, d \in {"approved", "rejected"} : Decide(b, d)
    BY DEF Next, vars, rows, Preparing, Reviewing, Asking, Merging, Closing, Crash,
           PrepareRead, PrepareWrite, MarkReadyRead, MarkReadyWrite, VerifyRead,
           VerifyRecord, RequestRead, RequestCheck, CheckRaises, MergeRead, MergeCheck,
           GitMerge, GitMergeFails, MergeRecord, RejectRead, RejectWrite, Remove,
           Amend, TargetMoves, Checkout
  <1> QED
    BY <1>1, <1>2, <1>3, <1>4

\* What a caller holds it has held, has read from a row, or from git.
LEMMA HeldFrom ==
    ASSUME TypeOK, [Next]_vars, NEW c \in Callers,
           pc'[c] \in {"prepare", "asking", "request", "merging", "git"}
    PROVE  \/ /\ pc[c] \in {"prepare", "asking", "request", "merging", "git"}
              /\ held'[c] = held[c]
              /\ \/ pc'[c] = pc[c]
                 \/ RequestCheck(c) /\ pc'[c] = "request"
                 \/ MergeCheck(c) /\ pc'[c] = "git"
           \/ /\ \E id \in Proposals : Exists(id) /\ held'[c].row = proposal[id]
              /\ pc'[c] \in {"asking", "merging"}
           \/ /\ pc'[c] = "prepare"
              /\ head \notin log[checkedOut]
              /\ held'[c].row.candidate = head
              /\ held'[c].row.base = MergeBase(checkedOut)
  <1> USE DEF Goto, Hold, Return, TypeOK
  <1>1. ASSUME NEW d \in Callers \ {c}, \/ Preparing(d) \/ Reviewing(d) \/ Asking(d)
                                        \/ Merging(d) \/ Closing(d) \/ Crash(d)
        PROVE  pc'[c] = pc[c] /\ held'[c] = held[c]
    <2>1. CASE Preparing(d) \/ Reviewing(d)
      BY <2>1 DEF Preparing, Reviewing, PrepareRead, PrepareWrite, MarkReadyRead,
                  MarkReadyWrite, VerifyRead, VerifyRecord
    <2>2. CASE Asking(d)
      BY <2>2 DEF Asking, RequestRead, RequestCheck, RequestWrite, CheckRaises
    <2>3. CASE Merging(d)
      BY <2>3 DEF Merging, MergeRead, MergeCheck, GitMerge, GitMergeFails, MergeRecord
    <2>4. CASE Closing(d) \/ Crash(d)
      BY <2>4 DEF Closing, RejectRead, RejectWrite, Remove, Crash
    <2> QED
      BY <1>1, <2>1, <2>2, <2>3, <2>4
  <1>2. CASE PrepareRead(c)
    BY <1>2 DEF PrepareRead, NoRow
  <1>3. ASSUME NEW id \in Proposals, RequestRead(c, id)
        PROVE  Exists(id) /\ held'[c].row = proposal[id] /\ pc'[c] = "asking"
    BY <1>3 DEF RequestRead, Exists
  <1>4. ASSUME NEW id \in Proposals, NEW a \in Approvals, MergeRead(c, id, a)
        PROVE  Exists(id) /\ held'[c].row = proposal[id] /\ pc'[c] = "merging"
    BY <1>4 DEF MergeRead
  <1>5. CASE RequestCheck(c)
    <2>1. pc'[c] \in {"request", "idle"}
      BY <1>5 DEF RequestCheck
    <2>2. pc[c] = "asking" /\ (pc'[c] = "request" => held'[c] = held[c])
      BY <1>5 DEF RequestCheck
    <2> QED
      BY <1>5, <2>1, <2>2
  <1>6. CASE MergeCheck(c)
    BY <1>6 DEF MergeCheck
  <1>7. CASE \/ PrepareWrite(c) \/ Reviewing(c) \/ RequestWrite(c) \/ CheckRaises(c)
             \/ GitMerge(c) \/ GitMergeFails(c) \/ MergeRecord(c) \/ Closing(c) \/ Crash(c)
    <2>1. pc'[c] \in {"idle", "ready", "verify", "record", "remove", "reject"}
      BY <1>7 DEF PrepareWrite, Reviewing, MarkReadyRead, MarkReadyWrite, VerifyRead,
         VerifyRecord, RequestWrite, CheckRaises, GitMerge, GitMergeFails, MergeRecord,
         Closing, RejectRead, RejectWrite, Remove, Crash
    <2> QED
      BY <2>1
  <1>8. CASE UNCHANGED callers
    BY <1>8 DEF callers
  <1>9. ASSUME NEW a \in Approvals, NEW d \in {"approved", "rejected"}, Decide(a, d)
        PROVE  UNCHANGED callers
    BY <1>9 DEF Decide
  <1>10. ASSUME NEW b \in Branches, Checkout(b)
         PROVE  UNCHANGED callers
    BY <1>10 DEF Checkout
  <1>11. CASE Amend \/ TargetMoves \/ UNCHANGED vars
    BY <1>8, <1>11 DEF Amend, TargetMoves, vars, callers
  <1>12. ASSUME Next
         PROVE  \/ \E d \in Callers : \/ Preparing(d) \/ Reviewing(d) \/ Asking(d)
                                      \/ Merging(d) \/ Closing(d) \/ Crash(d)
                \/ UNCHANGED callers
                \/ Amend \/ TargetMoves
    BY <1>9, <1>10, <1>12 DEF Next
  <1>13. CASE \/ Preparing(c) \/ Asking(c) \/ Merging(c)
    BY <1>2, <1>3, <1>4, <1>5, <1>6, <1>7, <1>13 DEF Preparing, Asking, Merging
  <1>14. CASE \E d \in Callers \ {c} : \/ Preparing(d) \/ Reviewing(d) \/ Asking(d)
                                       \/ Merging(d) \/ Closing(d) \/ Crash(d)
    BY <1>1, <1>14
  <1> QED
    BY <1>7, <1>8, <1>11, <1>12, <1>13, <1>14

\* Commits are numbered as they are made.
LEMMA NumberedKept ==
    ASSUME TypeOK, Numbered, [Next]_vars
    PROVE  Numbered'
  <1> USE DEF TypeOK, Numbered, Commits
  <1>1. CASE UNCHANGED <<tip, log, head, commits>>
    BY <1>1
  <1>2. ASSUME NEW c \in Callers, GitMerge(c)
        PROVE  Numbered'
    <2>1. CASE UNCHANGED <<tip, log, commits>>
      BY <1>1, <1>2, <2>1 DEF GitMerge, candidate
    <2>2. CASE head \notin log[checkedOut]
      <3>1. /\ commits' = commits + 1 /\ head' = head
            /\ tip' = [tip EXCEPT ![checkedOut] = commits + 1]
            /\ log' = [log EXCEPT ![checkedOut] = @ \union {head, commits + 1}]
        BY <1>2, <2>2 DEF GitMerge, candidate
      <3>2. ASSUME NEW b \in Branches
            PROVE  tip'[b] <= commits' /\ \A k \in log'[b] : k <= tip'[b]
        BY <3>1, <3>2
      <3> QED
        BY <3>1, <3>2
    <2> QED
      BY <1>2, <2>1, <2>2 DEF GitMerge
  <1>3. CASE Amend
    BY <1>3 DEF Amend, repository
  <1>4. CASE TargetMoves
    BY <1>4 DEF TargetMoves, candidate
  <1>5. ASSUME NEW b \in Branches, Checkout(b)
        PROVE  Numbered'
    BY <1>1, <1>5 DEF Checkout, candidate
  <1> QED
    BY <1>1, <1>2, <1>3, <1>4, <1>5, TreesStay

\* What is dated stays so: the target only moves on.
LEMMA DatedStays ==
    ASSUME TypeOK, Numbered, [Next]_vars, NEW k \in Nat, NEW base \in Nat,
           Dated(k, base), checkedOut' = checkedOut
    PROVE  Dated(k, base)'
  <1> USE DEF TypeOK, Numbered, Commits, Dated
  <1>1. CASE UNCHANGED <<tip, log, head>>
    BY <1>1
  <1>2. ASSUME NEW c \in Callers, GitMerge(c)
        PROVE  Dated(k, base)'
    <2>1. CASE UNCHANGED <<tip, log>>
      BY <1>1, <1>2, <2>1 DEF GitMerge, candidate
    <2>2. CASE head \notin log[checkedOut]
      <3>1. head' = head /\ tip'[checkedOut] = commits + 1
        BY <1>2, <2>2 DEF GitMerge, candidate
      <3>2. tip[checkedOut] < commits + 1
        OBVIOUS
      <3> QED
        BY <3>1, <3>2
    <2> QED
      BY <1>2, <2>1, <2>2 DEF GitMerge
  <1>3. CASE Amend
    BY <1>3 DEF Amend, repository
  <1>4. CASE TargetMoves
    <2>1. head' = head /\ tip'[checkedOut] = commits + 1 /\ tip[checkedOut] < commits + 1
      BY <1>4 DEF TargetMoves, candidate
    <2> QED
      BY <2>1
  <1>5. ASSUME NEW b \in Branches, Checkout(b)
        PROVE  Dated(k, base)'
    BY <1>1, <1>5 DEF Checkout, candidate
  <1> QED
    BY <1>1, <1>2, <1>3, <1>4, <1>5, TreesStay

\* The head only grows.
LEMMA HeadGrows ==
    ASSUME TypeOK, Numbered, [Next]_vars
    PROVE  head <= head' /\ head \in Nat /\ head' \in Nat
  <1> USE DEF TypeOK, Numbered, Commits
  <1>1. ASSUME NEW c \in Callers, GitMerge(c)
        PROVE  head' = head
    BY <1>1 DEF GitMerge, candidate
  <1>2. CASE Amend
    BY <1>2 DEF Amend
  <1>3. CASE TargetMoves
    BY <1>3 DEF TargetMoves, candidate
  <1>4. ASSUME NEW b \in Branches, Checkout(b)
        PROVE  head' = head
    BY <1>4 DEF Checkout, candidate
  <1> QED
    BY <1>1, <1>2, <1>3, <1>4, TreesStay

\* Candidates that are proposed, held and approved stay dated.
LEMMA AllDatedKept ==
    ASSUME TypeOK, ConsentInv, Numbered, AllDated, [Next]_vars, ~Switching
    PROVE  AllDated'
  <1> DEFINE Holds(c) == pc[c] \in {"prepare", "asking", "request", "merging", "git"}
  <1>0. /\ \A id \in Proposals : proposal[id].candidate \in Nat /\ proposal[id].base \in Nat
        /\ \A c \in Callers : held[c].row.candidate \in Nat /\ held[c].row.base \in Nat
        /\ \A a \in Approvals : approval[a].action.candidate \in Nat
    BY DEF TypeOK, Row, ApprovalRow, Action, Commits
  <1>1. ASSUME NEW a \in Approvals, Asked(a)'
        PROVE  approval'[a].action.candidate <= head'
    <2>1. CASE Asked(a) /\ approval'[a].action = approval[a].action
      BY <1>0, <2>1, HeadGrows DEF AllDated
    <2>2. ASSUME NEW c \in Callers, pc[c] = "request",
                 approval'[a].action.candidate = held[c].row.candidate
          PROVE  approval'[a].action.candidate <= head'
      <3>1. held[c].row.candidate <= head
        BY <2>2 DEF AllDated, Dated
      <3> QED
        BY <1>0, <2>2, <3>1, HeadGrows
    <2> QED
      BY <1>1, <2>1, <2>2, ApprovalsWritten
  <1>2. CASE \E b \in Branches : Checkout(b)
    <2>1. /\ UNCHANGED <<proposal, approval, pc, held, tip, log, head>>
          /\ Unreviewed
      BY <1>2 DEF Checkout, rows, callers, candidate
    <2> QED
      BY <1>1, <1>2, <2>1 DEF AllDated, Exists, Unreviewed, Dated, Asked
  <1>3. CASE checkedOut' = checkedOut
    <2>1. ASSUME NEW k \in Nat, NEW base \in Nat, Dated(k, base)
          PROVE  Dated(k, base)'
      BY <1>3, <2>1, DatedStays
    <2>2. ASSUME NEW id \in Proposals, Exists(id)'
          PROVE  \E k \in Nat, base \in Nat : /\ Dated(k, base)
                                              /\ k = proposal'[id].candidate
                                              /\ base = proposal'[id].base
      BY <1>0, <2>2, RowsWritten DEF AllDated
    <2>3. ASSUME NEW c \in Callers, Holds(c)'
          PROVE  \E k \in Nat, base \in Nat : /\ Dated(k, base)
                                              /\ k = held'[c].row.candidate
                                              /\ base = held'[c].row.base
      <3>1. CASE Holds(c) /\ held'[c] = held[c]
        BY <1>0, <3>1 DEF AllDated
      <3>2. CASE \E id \in Proposals : Exists(id) /\ held'[c].row = proposal[id]
        BY <1>0, <3>2 DEF AllDated
      <3>3. CASE /\ head \notin log[checkedOut]
                 /\ held'[c].row.candidate = head
                 /\ held'[c].row.base = MergeBase(checkedOut)
        <4>1. MergeBase(checkedOut) \in log[checkedOut] \cup {0}
          BY DEF MergeBase
        <4>2. MergeBase(checkedOut) \in Nat /\ MergeBase(checkedOut) <= tip[checkedOut]
          BY <4>1 DEF Numbered, TypeOK, Commits
        <4>3. Dated(head, MergeBase(checkedOut)) /\ head \in Nat
          BY <3>3, <4>2 DEF Dated, TypeOK, Commits
        <4> QED
          BY <3>3, <4>2, <4>3
      <3> QED
        BY <2>3, <3>1, <3>2, <3>3, HeldFrom
    <2>4. \A id \in Proposals :
             Exists(id)' => Dated(proposal[id].candidate, proposal[id].base)'
      BY <2>1, <2>2 DEF Dated
    <2>5. \A c \in Callers :
             Holds(c)' => Dated(held[c].row.candidate, held[c].row.base)'
      BY <2>1, <2>3 DEF Dated
    <2> QED
      BY <1>1, <2>4, <2>5 DEF AllDated
  <1>4. checkedOut' = checkedOut \/ \E b \in Branches : Checkout(b)
    BY TreesStay DEF GitMerge, Amend, TargetMoves, repository
  <1> QED
    BY <1>2, <1>3, <1>4

\* What git has merged stays in the history, and so does the last merge where
\* nobody commits while a merge runs.
LEMMA HeadMergedStays ==
    ASSUME TypeOK, [Next]_vars, HeadMerged,
           UNCHANGED <<checkedOut, tip, head>>
    PROVE  HeadMerged'
  <1>1. merges \subseteq merges'
    BY TreesStay DEF GitMerge, Amend, TargetMoves, Checkout, repository
  <1> QED
    BY <1>1 DEF HeadMerged

\* Calls past the checks of merge() that a step leaves where they are.
LEMMA MergersStay ==
    ASSUME TypeOK, [Next]_vars, NEW c \in Callers, pc'[c] \in {"git", "record"}
    PROVE  \/ pc[c] = pc'[c] /\ held'[c].id = held[c].id
           \/ MergeCheck(c) /\ pc'[c] = "git"
           \/ GitMerge(c) /\ pc'[c] = "record"
  <1> USE DEF Goto, Hold, Return, TypeOK
  <1>1. ASSUME NEW d \in Callers, \/ Preparing(d) \/ Reviewing(d) \/ Asking(d)
                                  \/ Closing(d) \/ Crash(d)
        PROVE  pc[c] = pc'[c] /\ held'[c] = held[c]
    <2>1. CASE Preparing(d) \/ Reviewing(d)
      BY <2>1 DEF Preparing, Reviewing, PrepareRead, PrepareWrite, MarkReadyRead,
                  MarkReadyWrite, VerifyRead, VerifyRecord
    <2>2. CASE Asking(d)
      BY <2>2 DEF Asking, RequestRead, RequestCheck, RequestWrite, CheckRaises
    <2>3. CASE Closing(d) \/ Crash(d)
      BY <2>3 DEF Closing, RejectRead, RejectWrite, Remove, Crash
    <2> QED
      BY <1>1, <2>1, <2>2, <2>3
  <1>2. ASSUME NEW d \in Callers, Merging(d)
        PROVE  \/ pc[c] = pc'[c] /\ held'[c].id = held[c].id
               \/ d = c /\ MergeCheck(c) /\ pc'[c] = "git"
               \/ d = c /\ GitMerge(c) /\ pc'[c] = "record"
    BY <1>2 DEF Merging, MergeRead, MergeCheck, GitMerge, GitMergeFails, MergeRecord
  <1>3. ASSUME \/ \E a \in Approvals, d \in {"approved", "rejected"} : Decide(a, d)
               \/ Amend \/ TargetMoves \/ (\E b \in Branches : Checkout(b)) \/ UNCHANGED vars
        PROVE  pc[c] = pc'[c] /\ held'[c] = held[c]
    BY <1>3 DEF Decide, Amend, TargetMoves, Checkout, vars, callers
  <1> QED
    BY <1>1, <1>2, <1>3 DEF Next

\* What git says of a candidate whose merge has been checked, and what a call is
\* about to record.
LEMMA GitDoneKept ==
    ASSUME TypeOK, ConsentInv, Numbered, AllDated, GitDone, [Next]_vars, ~Interference,
           ~Switching
    PROVE  GitDone'
  <1> DEFINE Consent(c) == \E a \in Approvals : /\ approval[a].status = "approved"
                                                /\ approval[a].proposal = held[c].id
                                                /\ approval[a].action.candidate = head
  <1>1. ASSUME NEW c \in Callers, GitMerge(c)
        PROVE  GitDone'
    <2>1. /\ pc[c] = "git" /\ pc'[c] = "record" /\ held'[c].id = held[c].id
          /\ head' = head /\ checkedOut' = checkedOut /\ approval' = approval
      BY <1>1 DEF GitMerge, Goto, Hold, TypeOK, candidate, rows
    <2>2. HeadMerged'
      <3>1. CASE head \in log[checkedOut]
        <4>1. HeadMerged /\ tip' = tip
          BY <1>1, <2>1, <3>1 DEF GitDone, GitMerge
        <4> QED
          BY <2>1, <4>1, HeadMergedStays
      <3>2. CASE head \notin log[checkedOut]
        <4> DEFINE m == [commit |-> commits + 1, into |-> checkedOut,
                         parent |-> tip[checkedOut], candidate |-> head,
                         proposal |-> held[c].id,
                         action |-> MergeAction(held[c].row)]
        <4>1. m \in merges' /\ m.commit = commits + 1 /\ m.candidate = head
          <5>1. merges' = merges \union {m}
            BY <1>1, <3>2 DEF GitMerge
          <5> QED
            BY <5>1
        <4> HIDE DEF m
        <4>2. tip'[checkedOut] = commits + 1
          BY <1>1, <3>2 DEF GitMerge, TypeOK
        <4> QED
          BY <2>1, <4>1, <4>2 DEF HeadMerged
      <3> QED
        BY <3>1, <3>2
    <2>3. Consent(c)'
      <3>1. PICK a \in Approvals : /\ approval[a].status = "approved"
                                   /\ approval[a].proposal = held[c].id
                                   /\ approval[a].action = MergeAction(held[c].row)
        BY <2>1 DEF ConsentInv, MergersConsented, ApprovedFor
      <3>2. approval[a].action.candidate = head
        BY <2>1, <3>1 DEF ConsentInv, MergersConsented, MergeAction
      <3> QED
        BY <2>1, <3>1, <3>2
    <2>4. ASSUME NEW d \in Callers, d # c, pc'[d] = "record"
          PROVE  Consent(d)'
      <3>1. pc[d] = "record" /\ held'[d] = held[d]
        BY <1>1, <2>4 DEF GitMerge, Goto, Hold, TypeOK
      <3> QED
        BY <2>1, <3>1 DEF GitDone
    <2> QED
      BY <2>2, <2>3, <2>4 DEF GitDone
  <1>2. CASE Amend \/ TargetMoves \/ \E b \in Branches : Checkout(b)
    <2>1. \A c \in Callers : pc'[c] \notin {"git", "record"}
      BY <1>2 DEF Amend, TargetMoves, Checkout, Quiet, callers
    <2> QED
      BY <2>1 DEF GitDone
  <1>3. CASE /\ UNCHANGED <<checkedOut, tip, log, merges, head, commits>>
             /\ ~ \E c \in Callers : GitMerge(c)
    <2>0. HeadMerged => HeadMerged'
      BY <1>3 DEF HeadMerged
    <2>1. ASSUME NEW c \in Callers, pc'[c] = "git", head' \in log'[checkedOut']
          PROVE  HeadMerged'
      <3>1. CASE pc[c] = "git"
        BY <1>3, <2>0, <2>1, <3>1 DEF GitDone
      <3>2. CASE MergeCheck(c)
        <4>1. /\ tip[held[c].row.target] = held[c].row.base /\ head = held[c].row.candidate
              /\ pc[c] = "merging"
          BY <3>2 DEF MergeCheck, MayAsk, Unmoved
        <4>2. /\ held[c].row.target = checkedOut
              /\ Dated(held[c].row.candidate, held[c].row.base)
          BY <4>1 DEF ConsentInv, OneTarget, AllDated
        <4>3. head \notin log[checkedOut]
          BY <4>1, <4>2 DEF Dated, TypeOK, Commits
        <4> QED
          BY <1>3, <2>1, <4>3
      <3> QED
        BY <1>3, <2>1, <3>1, <3>2, MergersStay
    <2>2. ASSUME NEW c \in Callers, pc'[c] = "record"
          PROVE  HeadMerged' /\ Consent(c)'
      <3>1. pc[c] = "record" /\ held'[c].id = held[c].id
        BY <1>3, <2>2, MergersStay
      <3>2. PICK a \in Approvals : /\ approval[a].status = "approved"
                                   /\ approval[a].proposal = held[c].id
                                   /\ approval[a].action.candidate = head
        BY <3>1 DEF GitDone
      <3>3. approval'[a] = approval[a]
        BY <3>2, ApprovedStays
      <3> QED
        BY <1>3, <2>0, <3>1, <3>2, <3>3 DEF GitDone
    <2> QED
      BY <2>1, <2>2 DEF GitDone
  <1> QED
    BY <1>1, <1>2, <1>3, TreesStay

\* Once a proposal has an approval, no other is about to be requested.
LEMMA AskedOnce ==
    ASSUME TypeOK, NEW c \in Callers, RequestCheck(c), pc'[c] = "request",
           NEW a \in Approvals
    PROVE  ~(Asked(a) /\ approval[a].proposal = held[c].id)
  <1> DEFINE S == {b \in Approvals : Asked(b) /\ approval[b].proposal = held[c].id}
  <1>1. ApprovalFor(held[c].id) = 0
    BY DEF RequestCheck, Return, Goto, TypeOK
  <1>2. Oldest(S) = 0
    BY <1>1 DEF ApprovalFor
  <1>3. S \in SUBSET Nat /\ 0 \notin S
    BY DEF Approvals
  <1>4. S = {}
    BY <1>2, <1>3, OldestIsMember
  <1> QED
    BY <1>4

\* Nothing newer than what was merged is approved for its proposal.
LEMMA MergesAreLastKept ==
    ASSUME TypeOK, ConsentInv, Numbered, AllDated, MergesAreLast, [Next]_vars, ~Switching
    PROVE  MergesAreLast'
  <1>1. ASSUME NEW m \in merges, MergesAreLast
        PROVE  /\ m.candidate \in log'[checkedOut'] /\ m.candidate <= head'
               /\ m.proposal \in Proposals /\ Exists(m.proposal)'
               /\ LastOfIts(m)'
    <2>1. m.proposal \in Proposals /\ Exists(m.proposal) /\ Exists(m.proposal)'
      BY <1>1, RowsWritten DEF MergesAreLast
    <2>2. m.candidate \in log'[checkedOut']
      <3>1. ~Unreviewed
        BY <2>1 DEF Unreviewed
      <3> QED
        BY <1>1, <3>1, TreesStay
        DEF MergesAreLast, GitMerge, Amend, TargetMoves, Checkout, TypeOK, repository
    <2>3. m.candidate \in Nat /\ m.candidate <= head'
      BY <1>1, HeadGrows DEF MergesAreLast, TypeOK, Commits
    <2>4. ASSUME NEW a \in Approvals, Asked(a)', approval'[a].proposal = m.proposal
          PROVE  approval'[a].action.candidate <= m.candidate
      <3>1. CASE Asked(a) /\ approval'[a].action = approval[a].action
                 /\ approval'[a].proposal = approval[a].proposal
        BY <1>1, <2>4, <3>1 DEF MergesAreLast, LastOfIts
      <3>2. ASSUME NEW c \in Callers, pc[c] = "request",
                   approval'[a].action.candidate = held[c].row.candidate,
                   approval'[a].proposal = held[c].id
            PROVE  approval'[a].action.candidate <= m.candidate
        BY <1>1, <2>4, <3>2 DEF MergesAreLast, LastOfIts
      <3> QED
        BY <2>4, <3>1, <3>2, ApprovalsWritten
    <2>5. ASSUME NEW c \in Callers, pc'[c] = "request", held'[c].id = m.proposal
          PROVE  held'[c].row.candidate <= m.candidate
      <3>1. CASE pc[c] = "request" /\ held'[c] = held[c]
        BY <1>1, <2>5, <3>1 DEF MergesAreLast, LastOfIts
      <3>2. CASE RequestCheck(c) /\ held'[c] = held[c]
        <4>1. PICK a \in Approvals : /\ approval[a].status = "approved"
                                     /\ approval[a].proposal = m.proposal
          BY DEF ConsentInv, OnlyConsentedMerges
        <4> QED
          BY <2>5, <3>2, <4>1, AskedOnce DEF Asked
      <3> QED
        BY <2>5, <3>1, <3>2, HeldFrom
    <2> QED
      BY <2>1, <2>2, <2>3, <2>4, <2>5 DEF LastOfIts
  <1>2. ASSUME NEW c \in Callers, GitMerge(c), NEW m \in merges' \ merges
        PROVE  /\ m.candidate \in log'[checkedOut'] /\ m.candidate <= head'
               /\ m.proposal \in Proposals /\ Exists(m.proposal)'
               /\ LastOfIts(m)'
    <2>1. /\ pc[c] = "git" /\ m.candidate = head /\ m.proposal = held[c].id
          /\ log' = [log EXCEPT ![checkedOut] = @ \union {head, commits + 1}]
          /\ UNCHANGED <<proposal, approval, head, checkedOut>>
      BY <1>2 DEF GitMerge, candidate, rows
    <2>2. held[c].id \in Proposals /\ Exists(held[c].id)
      BY <2>1 DEF ConsentInv, OneTarget
    <2>3. \A d \in Callers : pc'[d] = "request" => pc[d] = "request" /\ held'[d] = held[d]
      BY <1>2 DEF GitMerge, Goto, Hold, TypeOK
    <2>4. LastOfIts(m)'
      BY <2>1, <2>3 DEF LastOfIts, AllDated, Dated, Asked
    <2> QED
      BY <2>1, <2>2, <2>4 DEF Exists, TypeOK, Commits
  <1>3. merges' = merges \/ \E c \in Callers : GitMerge(c)
    BY TreesStay DEF Amend, TargetMoves, Checkout, repository
  <1> QED
    BY <1>1, <1>2, <1>3 DEF MergesAreLast

\* What is recorded has happened.
LEMMA RecordedKept ==
    ASSUME TypeOK, ConsentInv, GitDone, RecordedMergesHappened, [Next]_vars
    PROVE  RecordedMergesHappened'
  <1>1. merges \subseteq merges'
    BY TreesStay DEF GitMerge, Amend, TargetMoves, Checkout, repository
  <1>2. \A a \in Approvals : approval[a].status = "approved" => approval'[a] = approval[a]
    BY ApprovedStays
  <1>3. ASSUME NEW id \in Proposals, NEW c \in Callers, MergeRecord(c), id = held[c].id
        PROVE  /\ \E m \in merges' : m.commit = proposal'[id].mergeCommit
               /\ \E m \in merges', a \in Approvals :
                      /\ approval'[a].proposal = id
                      /\ approval'[a].status = "approved"
                      /\ approval'[a].action.candidate = m.candidate
    <2>1. /\ pc[c] = "record"
          /\ proposal'[id].mergeCommit = tip[checkedOut]
      BY <1>3 DEF MergeRecord, TypeOK, Row
    <2>2. PICK m \in merges : m.commit = tip[checkedOut] /\ m.candidate = head
      BY <2>1 DEF GitDone, HeadMerged
    <2>3. PICK a \in Approvals : /\ approval[a].status = "approved"
                                 /\ approval[a].proposal = held[c].id
                                 /\ approval[a].action.candidate = head
      BY <2>1 DEF GitDone
    <2> QED
      BY <1>1, <1>2, <1>3, <2>1, <2>2, <2>3
  <1>4. ASSUME NEW id \in Proposals,
               proposal'[id].status = "merged" =>
                   /\ proposal[id].status = "merged"
                   /\ proposal'[id].mergeCommit = proposal[id].mergeCommit,
               mergeStep'[id] = "SUCCEEDED" => mergeStep[id] = "SUCCEEDED"
        PROVE  /\ proposal'[id].status = "merged" =>
                     \E m \in merges' : m.commit = proposal'[id].mergeCommit
               /\ mergeStep'[id] = "SUCCEEDED" =>
                     \E m \in merges', a \in Approvals :
                         /\ approval'[a].proposal = id
                         /\ approval'[a].status = "approved"
                         /\ approval'[a].action.candidate = m.candidate
    BY <1>1, <1>2, <1>4 DEF RecordedMergesHappened
  <1> QED
    BY <1>3, <1>4, RowsWritten DEF RecordedMergesHappened

\* A second merge of a proposal would be of the candidate of the first, which the
\* target contains already.
LEMMA OnceKept ==
    ASSUME TypeOK, ConsentInv, Numbered, MergesAreLast, MergedAtMostOnce, [Next]_vars,
           ~Interference
    PROVE  MergedAtMostOnce'
  <1>1. CASE merges' = merges
    BY <1>1 DEF MergedAtMostOnce
  <1>2. ASSUME NEW c \in Callers, GitMerge(c), merges' # merges
        PROVE  MergedAtMostOnce'
    <2>1. PICK new : merges' = merges \union {new} /\ new.proposal = held[c].id
      <3> DEFINE made == [commit |-> commits + 1, into |-> checkedOut,
                          parent |-> tip[checkedOut], candidate |-> head,
                          proposal |-> held[c].id,
                          action |-> MergeAction(held[c].row)]
      <3>1. merges' = merges \union {made}
        BY <1>2 DEF GitMerge
      <3>2. made.proposal = held[c].id
        OBVIOUS
      <3> HIDE DEF made
      <3> QED
        BY <3>1, <3>2
    <2>2. pc[c] = "git" /\ head \notin log[checkedOut]
      BY <1>2 DEF GitMerge
    <2>3. PICK a \in Approvals : /\ approval[a].status = "approved"
                                 /\ approval[a].proposal = held[c].id
                                 /\ approval[a].action = MergeAction(held[c].row)
      BY <2>2 DEF ConsentInv, MergersConsented, ApprovedFor
    <2>4. approval[a].action.candidate = head /\ Asked(a)
      BY <2>2, <2>3 DEF ConsentInv, MergersConsented, MergeAction, Asked
    <2>5. ASSUME NEW m \in merges, m.proposal = held[c].id
          PROVE  FALSE
      <3>1. head <= m.candidate /\ m.candidate <= head /\ m.candidate \in log[checkedOut]
        BY <2>3, <2>4, <2>5 DEF MergesAreLast, LastOfIts
      <3>2. m.candidate = head
        <4>1. m.candidate \in Commits /\ head \in Commits
          BY <2>5 DEF TypeOK
        <4> QED
          BY <3>1, <4>1, ProposalAssumption DEF Commits
      <3> QED
        BY <2>2, <3>1, <3>2
    <2> QED
      BY <2>1, <2>5 DEF MergedAtMostOnce
  <1>3. merges' = merges \/ \E c \in Callers : GitMerge(c)
    BY TreesStay DEF Amend, TargetMoves, Checkout, repository
  <1> QED
    BY <1>1, <1>2, <1>3

-----------------------------------------------------------------------------

\* Where nobody commits to the trees while merge() runs, or checks out another
\* branch during a review, what the approvals, the calls and the history say of
\* each other holds in every state.
THEOREM HistoryInvariant ==
    ASSUME ~Interference, ~Switching
    PROVE  Spec => [](TypeOK /\ ConsentInv /\ HistoryInv)
  <1>1. ConsentInv /\ UNCHANGED vars => ConsentInv'
    BY DEF ConsentInv, OnlyConsentedMerges, MergersConsented, ApprovedFor, OneTarget,
           DraftHeld, Exists, MergeAction, vars
  <1>2. TypeOK /\ ConsentInv /\ [Next]_vars => ConsentInv'
    BY <1>1, StepOneTarget, StepMergers, StepConsented DEF ConsentInv
  <1>3. TypeOK /\ ConsentInv /\ HistoryInv /\ [Next]_vars => HistoryInv'
    BY NumberedKept, AllDatedKept, GitDoneKept, MergesAreLastKept, RecordedKept, OnceKept
    DEF HistoryInv
  <1>4. TypeOK /\ [Next]_vars => TypeOK'
    BY StepTypeOK
  <1> QED
    BY <1>2, <1>3, <1>4, InitTypeOK, InitConsentInv, InitHistoryInv, PTL DEF Spec

\* A proposal that is reported as merged has its merge commit in the history, and
\* one whose merge step has SUCCEEDED was merged with consent (merge).
THEOREM RecordsAreOfMerges ==
    ASSUME ~Interference, ~Switching
    PROVE  Spec => []RecordedMergesHappened
  <1>1. HistoryInv => RecordedMergesHappened
    BY DEF HistoryInv
  <1> QED
    BY <1>1, HistoryInvariant, PTL

\* A proposal changes the target once, however many callers merge it, prepare it
\* again or die between git and the database (merge, request_merge).
THEOREM MergesAreSingle ==
    ASSUME ~Interference, ~Switching
    PROVE  Spec => []MergedAtMostOnce
  <1>1. HistoryInv => MergedAtMostOnce
    BY DEF HistoryInv
  <1> QED
    BY <1>1, HistoryInvariant, PTL
=============================================================================
