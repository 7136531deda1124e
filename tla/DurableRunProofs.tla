-------------------------- MODULE DurableRunProofs --------------------------
(***************************************************************************)
(* Theorems about DurableRun, for every workflow graph, every retry and    *)
(* repair bound and, where it is not said otherwise, every set of engines; *)
(* and that one engine at a time implements RunLifecycle.                  *)
(***************************************************************************)
EXTENDS DurableRun, FiniteSetTheorems, TLAPS

-----------------------------------------------------------------------------
(* Type correctness *)

\* Where an engine handles a step, it has counted an attempt for it.
AtStep == {"read", "mark", "started", "invoke", "succeed", "fail", "approval",
           "request", "reject", "grant", "raised", "advance"}

LocalOK(e) ==
    /\ pc[e] \in AtStep => attempts[e][node[e]] \in 1..MaxAttempts
    /\ pc[e] \in {"succeed", "advance"} => val[e] \in Outputs
    /\ pc[e] \in {"request", "report", "cleanup"} => val[e] \in Results

\* TypeOK is not inductive: PersistSuccess stores val, and Report stores it as
\* the run's result, so what val holds at each location has to be known.
TypeInv == TypeOK /\ \A e \in Engines : LocalOK(e)

\* An engine at a step works on a step of the model.
LEMMA StepOfType ==
    ASSUME TypeInv, NEW e \in Engines, pc[e] \in AtStep
    PROVE  StepOf(e) \in StepIds
  BY DEF TypeInv, TypeOK, LocalOK, StepOf, StepIds

\* Nothing exists and no engine runs at the start.
LEMMA InitTypeInv == Init => TypeInv
  BY GraphAssumption, BoundAssumption
  DEF Init, TypeInv, TypeOK, LocalOK, AtStep, ZeroAttempts, RunStatuses,
      Results, StepStatuses, Outputs, Locations

\* Every action keeps the types, and what val holds at each location.
LEMMA TypeInvStep == TypeInv /\ [Next]_vars => TypeInv'
<1> SUFFICES ASSUME TypeInv, [Next]_vars PROVE TypeInv'
  OBVIOUS
<1> USE GraphAssumption, BoundAssumption, FailureAssumption
    DEF TypeInv, TypeOK, LocalOK, AtStep, Goto, Hold, SetStep, rows, walk, env,
        RunStatuses, TerminalRunStatuses, Results, StepStatuses, Outputs,
        Locations
<1>1. ASSUME NEW e \in Engines, CreateRun(e) PROVE TypeInv'
  BY <1>1 DEF CreateRun, StepOf, StepIds
<1>2. ASSUME NEW e \in Engines, ResumeScan(e) PROVE TypeInv'
  BY <1>2 DEF ResumeScan, Resumable, NodesWithRows, StepOf, StepIds
<1>3. ASSUME NEW e \in Engines, CreateWorktree(e) PROVE TypeInv'
  BY <1>3 DEF CreateWorktree, StepOf, StepIds
<1>4. ASSUME NEW e \in Engines, ResumeReset(e) PROVE TypeInv'
  BY <1>4 DEF ResumeReset, StepOf, StepIds
<1>5. ASSUME NEW e \in Engines, ResumeResetRaises(e) PROVE TypeInv'
  BY <1>5 DEF ResumeResetRaises, Forget, ZeroAttempts, StepOf, StepIds
<1>6. ASSUME NEW e \in Engines, ReadCached(e) PROVE TypeInv'
  BY <1>6 DEF ReadCached, StepOf, StepIds
<1>7. ASSUME NEW e \in Engines, ReadFresh(e) PROVE TypeInv'
  BY <1>7 DEF ReadFresh, StepOf, StepIds
<1>8. ASSUME NEW e \in Engines, RowGone(e) PROVE TypeInv'
  BY <1>8 DEF RowGone, StepOf, StepIds
<1>9. ASSUME NEW e \in Engines, MarkRunning(e) PROVE TypeInv'
  BY <1>9 DEF MarkRunning, StepOf, StepIds
<1>10. ASSUME NEW e \in Engines, StepStarted(e) PROVE TypeInv'
  BY <1>10 DEF StepStarted, StepOf, StepIds
<1>11. ASSUME NEW e \in Engines, InvokeReturns(e) PROVE TypeInv'
  BY <1>11 DEF InvokeReturns, OutputsOf, StepOf, StepIds
<1>12. ASSUME NEW e \in Engines, InvokeRaises(e) PROVE TypeInv'
  BY <1>12 DEF InvokeRaises, StepOf, StepIds
<1>13. ASSUME NEW e \in Engines, PersistSuccess(e) PROVE TypeInv'
  BY <1>13 DEF PersistSuccess, StepOf, StepIds
<1>14. ASSUME NEW e \in Engines, PersistFailure(e) PROVE TypeInv'
  BY <1>14 DEF PersistFailure, StepOf, StepIds
<1>15. ASSUME NEW e \in Engines, ReadApproval(e) PROVE TypeInv'
  <2>1. pc[e] = "approval" /\ approval[StepOf(e)] \in {"none", "pending", "approved", "rejected"}
    BY <1>15 DEF ReadApproval, StepOf, StepIds
  <2>2. ApprovalBranch[approval[StepOf(e)]] \in {"request", "report", "reject", "grant"}
    BY <2>1 DEF ApprovalBranch
  <2>3. PICK at \in {"request", "report", "reject", "grant"} : pc' = [pc EXCEPT ![e] = at]
    BY <1>15, <2>2 DEF ReadApproval
  <2> QED
    BY <1>15, <2>1, <2>3 DEF ReadApproval
<1>16. ASSUME NEW e \in Engines, RequestApproval(e) PROVE TypeInv'
  <2>1. approval' \in [StepIds -> {"none", "pending", "approved", "rejected"}]
    BY <1>16 DEF RequestApproval
  <2>2. step' \in [StepIds -> StepStatuses]
    BY <1>16 DEF RequestApproval
  <2>3. refs' \subseteq StepIds
    BY <1>16, StepOfType DEF RequestApproval
  <2>4. UNCHANGED <<result, output, worktree, walk, val, purge, env>>
        /\ run' = "WAITING_APPROVAL" /\ pc' = [pc EXCEPT ![e] = "report"]
    BY <1>16 DEF RequestApproval
  <2>5. val[e] \in Results
    BY <1>16 DEF RequestApproval
  <2> QED
    BY <2>1, <2>2, <2>3, <2>4, <2>5 DEF StepOf, StepIds
<1>17. ASSUME NEW e \in Engines, RejectApproval(e) PROVE TypeInv'
  BY <1>17 DEF RejectApproval, StepOf, StepIds
<1>18. ASSUME NEW e \in Engines, GrantApproval(e) PROVE TypeInv'
  BY <1>18 DEF GrantApproval, StepOf, StepIds
<1>19. ASSUME NEW e \in Engines, Begin(e) PROVE TypeInv'
  BY <1>19 DEF Begin, ZeroAttempts, StepOf, StepIds
<1>20. ASSUME NEW e \in Engines, Visit(e) PROVE TypeInv'
  BY <1>20 DEF Visit, StepOf, StepIds
<1>21. ASSUME NEW e \in Engines, Retry(e) PROVE TypeInv'
  BY <1>21 DEF Retry, StepOf, StepIds
<1>22. ASSUME NEW e \in Engines, Abort(e) PROVE TypeInv'
  BY <1>22 DEF Abort, FailRun, StepOf, StepIds
<1>23. ASSUME NEW e \in Engines, Advance(e) PROVE TypeInv'
  BY <1>23 DEF Advance, Passing, StepOf, StepIds
<1>24. ASSUME NEW e \in Engines, ReachEnd(e) PROVE TypeInv'
  BY <1>24 DEF ReachEnd, StepOf, StepIds
<1>25. ASSUME NEW e \in Engines, GateRepairs(e) PROVE TypeInv'
  BY <1>25 DEF GateRepairs, GateEndsRun, StepOf, StepIds
<1>26. ASSUME NEW e \in Engines, GateFailsRun(e) PROVE TypeInv'
  BY <1>26 DEF GateFailsRun, FailRun, StepOf, StepIds
<1>27. ASSUME NEW e \in Engines, SucceedRun(e) PROVE TypeInv'
  BY <1>27 DEF SucceedRun, StepOf, StepIds
<1>28. ASSUME NEW e \in Engines, RejectOutputs(e) PROVE TypeInv'
  BY <1>28 DEF RejectOutputs, FailRun, StepOf, StepIds
<1>29. ASSUME NEW e \in Engines, Report(e) PROVE TypeInv'
  BY <1>29 DEF Report, StepOf, StepIds
<1>30. ASSUME NEW e \in Engines, Cleanup(e) PROVE TypeInv'
  BY <1>30 DEF Cleanup, Forget, ZeroAttempts, StepOf, StepIds
<1>31. ASSUME NEW e \in Engines, Crash(e) PROVE TypeInv'
  BY <1>31 DEF Crash, Forget, ZeroAttempts, StepOf, StepIds
<1>35. ASSUME NEW e \in Engines, CallRaises(e) PROVE TypeInv'
  BY <1>35 DEF CallRaises, Forget, ZeroAttempts, StepOf, StepIds
<1>36. ASSUME NEW e \in Engines, ActionRefused(e) PROVE TypeInv'
  <2>1. StepOf(e) \in StepIds
    BY <1>36, StepOfType DEF ActionRefused
  <2>2. refs' \subseteq StepIds
    BY <1>36, <2>1 DEF ActionRefused
  <2> QED
    BY <1>36, <2>2 DEF ActionRefused, StepOf, StepIds
<1>32. ASSUME NEW o \in Operators, NEW s \in StepIds, NEW d \in Decisions,
             CheckPending(o, s, d)
      PROVE TypeInv'
  BY <1>32 DEF CheckPending, StepOf
<1>33. ASSUME NEW o \in Operators, NEW s \in StepIds, NEW d \in Decisions,
             WriteDecision(o, s, d)
      PROVE TypeInv'
  BY <1>33 DEF WriteDecision, Decisions, StepOf
<1>34. CASE UNCHANGED vars
  BY <1>34 DEF vars, StepOf
<1> QED
  BY <1>1, <1>2, <1>3, <1>4, <1>5, <1>6, <1>7, <1>8, <1>9, <1>10, <1>11,
     <1>12, <1>13, <1>14, <1>15, <1>16, <1>17, <1>18, <1>19, <1>20, <1>21,
     <1>22, <1>23, <1>24, <1>25, <1>26, <1>27, <1>28, <1>29, <1>30, <1>31,
     <1>32, <1>33, <1>34, <1>35, <1>36
     DEF Next, EngineStep, StepExecution, ApprovalExecution, Walk

\* Every reachable state has the declared types.
THEOREM TypeCorrect == Spec => []TypeOK
<1>1. TypeInv => TypeOK
  BY DEF TypeInv
<1> QED
  BY <1>1, InitTypeInv, TypeInvStep, PTL DEF Spec

-----------------------------------------------------------------------------
(* Events, approvals and steps *)

WritesRows(e) ==
    \/ ResumeReset(e) \/ Visit(e) \/ MarkRunning(e) \/ StepStarted(e)
    \/ ActionRefused(e) \/ PersistSuccess(e) \/ PersistFailure(e)
    \/ RequestApproval(e) \/ RejectApproval(e) \/ GrantApproval(e) \/ Retry(e)

\* The actions that write the rows of steps or add a reference to one.
LEMMA RowWriters ==
    ASSUME [Next]_vars
    PROVE  UNCHANGED <<step, output, refs>> \/ \E e \in Engines : WritesRows(e)
<1> USE DEF WritesRows, rows
<1>1. ASSUME NEW e \in Engines, StepExecution(e) PROVE UNCHANGED <<step, output, refs>> \/ WritesRows(e)
  BY <1>1 DEF StepExecution, ReadCached, ReadFresh, RowGone, InvokeReturns,
              InvokeRaises, ActionRefused
<1>2. ASSUME NEW e \in Engines, ApprovalExecution(e) PROVE UNCHANGED <<step, output, refs>> \/ WritesRows(e)
  BY <1>2 DEF ApprovalExecution, ReadApproval
<1>3. ASSUME NEW e \in Engines, Walk(e) PROVE UNCHANGED <<step, output, refs>> \/ WritesRows(e)
  BY <1>3 DEF Walk, Begin, Abort, Advance, ReachEnd, GateRepairs, GateFailsRun,
              SucceedRun, RejectOutputs, Report, Cleanup
<1>4. ASSUME NEW e \in Engines,
             CreateRun(e) \/ ResumeScan(e) \/ CreateWorktree(e)
               \/ ResumeReset(e) \/ ResumeResetRaises(e) \/ Crash(e) \/ CallRaises(e)
      PROVE  UNCHANGED <<step, output, refs>> \/ WritesRows(e)
  BY <1>4 DEF CreateRun, ResumeScan, CreateWorktree, ResumeResetRaises, Crash, CallRaises
<1>5. ASSUME NEW o \in Operators, NEW s \in StepIds, NEW d \in Decisions,
             CheckPending(o, s, d) \/ WriteDecision(o, s, d)
      PROVE  UNCHANGED <<step, output, refs>>
  BY <1>5 DEF CheckPending, WriteDecision
<1>6. CASE UNCHANGED vars
  BY <1>6 DEF vars
<1> QED
  BY <1>1, <1>2, <1>3, <1>4, <1>5, <1>6 DEF Next, EngineStep

\* No action deletes a row that an event or an approval references.
LEMMA ReferencesStep ==
    ASSUME TypeInv, ReferencedRowsExist, [Next]_vars
    PROVE  ReferencedRowsExist'
<1> USE DEF ReferencedRowsExist, HasRow, SetStep
<1>1. CASE UNCHANGED <<step, output, refs>>
  BY <1>1
<1>2. ASSUME NEW e \in Engines, WritesRows(e) PROVE ReferencedRowsExist'
  <2>1. refs \subseteq StepIds /\ step \in [StepIds -> StepStatuses]
    BY DEF TypeInv, TypeOK
  <2>2. CASE ResumeReset(e)
    BY <2>1, <2>2 DEF ResumeReset
  <2>3. CASE Visit(e)
    BY <2>1, <2>3 DEF Visit
  <2>4. CASE MarkRunning(e)
    BY <2>1, <2>4 DEF MarkRunning
  <2>5. CASE StepStarted(e) \/ ActionRefused(e)
    BY <2>5 DEF StepStarted, ActionRefused
  <2>6. CASE PersistSuccess(e) \/ PersistFailure(e)
    BY <2>1, <2>6 DEF PersistSuccess, PersistFailure
  <2>7. CASE RequestApproval(e)
    <3>1. StepOf(e) \in StepIds
      BY <2>7, StepOfType DEF RequestApproval, AtStep
    <3> QED
      BY <2>1, <2>7, <3>1 DEF RequestApproval
  <2>8. CASE RejectApproval(e) \/ GrantApproval(e)
    BY <2>1, <2>8 DEF RejectApproval, GrantApproval
  <2>9. CASE Retry(e)
    BY <2>1, <2>9 DEF Retry, MayRetry
  <2> QED
    BY <1>2, <2>2, <2>3, <2>4, <2>5, <2>6, <2>7, <2>8, <2>9 DEF WritesRows
<1> QED
  BY <1>1, <1>2, RowWriters

\* No resume, of any number that overlap, deletes a step that an event or an
\* approval names.
THEOREM HistoryIsKept == Spec => []ReferencedRowsExist
<1>1. Init => ReferencedRowsExist
  BY DEF Init, ReferencedRowsExist
<1> QED
  BY <1>1, InitTypeInv, TypeInvStep, ReferencesStep, PTL DEF Spec

-----------------------------------------------------------------------------
(* A run that one engine drives at a time *)

\* What the engine read before it writes: the step it is executing was not
\* SUCCEEDED, and no node it is about to delete has a SUCCEEDED step.
Executing == {"mark", "started", "invoke", "succeed", "fail", "request",
              "reject", "grant"}

ReadIsCurrent(e) ==
    /\ pc[e] \in Executing => step[StepOf(e)] # "SUCCEEDED"
    /\ pc[e] = "reset" =>
          \A s \in StepIds : s[1] \in purge[e] => step[s] # "SUCCEEDED"

SoleInv == TypeInv /\ \A e \in Engines : ReadIsCurrent(e)

\* What the engine read is still so when it writes: no SUCCEEDED row is lost.
LEMMA SoleEngineKeepsSucceeded ==
    ASSUME SoleInv, [Next]_vars
    PROVE  KeepsSucceeded
<1> USE DEF KeepsSucceeded, SetStep, HasRow
<1>1. CASE UNCHANGED <<step, output, refs>>
  BY <1>1
<1>2. ASSUME NEW e \in Engines, WritesRows(e) PROVE KeepsSucceeded
  <2>1. /\ step \in [StepIds -> StepStatuses]
        /\ output \in [StepIds -> Outputs]
        /\ ReadIsCurrent(e)
    BY DEF SoleInv, TypeInv, TypeOK
  <2>2. CASE ResumeReset(e)
    BY <2>1, <2>2 DEF ResumeReset, Doomed, ReadIsCurrent
  <2>3. CASE Visit(e)
    BY <2>1, <2>3 DEF Visit
  <2>4. CASE MarkRunning(e) \/ StepStarted(e) \/ ActionRefused(e)
    BY <2>1, <2>4 DEF MarkRunning, StepStarted, ActionRefused, ReadIsCurrent,
                      Executing
  <2>5. CASE PersistSuccess(e) \/ PersistFailure(e)
    BY <2>1, <2>5 DEF PersistSuccess, PersistFailure, ReadIsCurrent, Executing
  <2>6. CASE RequestApproval(e) \/ RejectApproval(e) \/ GrantApproval(e)
    BY <2>1, <2>6 DEF RequestApproval, RejectApproval, GrantApproval,
                      ReadIsCurrent, Executing
  <2>7. CASE Retry(e)
    BY <2>1, <2>7 DEF Retry
  <2> QED
    BY <1>2, <2>2, <2>3, <2>4, <2>5, <2>6, <2>7 DEF WritesRows
<1> QED
  BY <1>1, <1>2, RowWriters

\* With one engine nothing comes between its reads and its writes.
LEMMA SoleInvStep ==
    ASSUME NEW e0, Engines = {e0}, SoleInv, [Next]_vars
    PROVE  SoleInv'
<1>1. TypeInv'
  BY TypeInvStep DEF SoleInv
<1>2. ReadIsCurrent(e0)'
  <2> USE DEF ReadIsCurrent, Executing, StepOf, Goto, rows, walk, env
  <2>1. /\ ReadIsCurrent(e0)
        /\ e0 \in Engines
        /\ pc \in [Engines -> Locations]
        /\ step \in [StepIds -> StepStatuses]
        /\ purge \in [Engines -> SUBSET Nodes]
    BY DEF SoleInv, TypeInv, TypeOK
  <2>2. CASE CreateRun(e0) \/ CreateWorktree(e0) \/ ResumeReset(e0)
                 \/ ResumeResetRaises(e0) \/ Crash(e0) \/ CallRaises(e0)
    BY <2>1, <2>2 DEF CreateRun, CreateWorktree, ResumeReset,
                      ResumeResetRaises, Crash, CallRaises
  <2>3. CASE ResumeScan(e0)
    BY <2>1, <2>3 DEF ResumeScan, SucceededNodes, NodesWithRows
  <2>4. CASE ReadCached(e0) \/ ReadFresh(e0) \/ RowGone(e0)
    BY <2>1, <2>4 DEF ReadCached, ReadFresh, RowGone, Cached
  <2>5. CASE MarkRunning(e0)
    BY <2>1, <2>5 DEF MarkRunning, SetStep
  <2>6. CASE StepStarted(e0) \/ InvokeReturns(e0) \/ InvokeRaises(e0) \/ ActionRefused(e0)
    BY <2>1, <2>6 DEF StepStarted, InvokeReturns, InvokeRaises, ActionRefused
  <2>7. CASE PersistSuccess(e0) \/ PersistFailure(e0)
    BY <2>1, <2>7 DEF PersistSuccess, PersistFailure
  <2>8. CASE ReadApproval(e0)
    <3>1. approval[StepOf(e0)] \in {"none", "pending"} \union Decisions
      BY <2>1, <2>8, StepOfType
         DEF ReadApproval, AtStep, SoleInv, TypeInv, TypeOK, Decisions
    <3> QED
      BY <2>1, <2>8, <3>1 DEF ReadApproval, Cached, ApprovalBranch, Decisions
  <2>9. CASE RequestApproval(e0) \/ RejectApproval(e0) \/ GrantApproval(e0)
    BY <2>1, <2>9 DEF RequestApproval, RejectApproval, GrantApproval
  <2>10. CASE Walk(e0)
    BY <2>1, <2>10 DEF Walk, Begin, Visit, Retry, Abort, Advance, ReachEnd,
          GateRepairs, GateFailsRun, SucceedRun, RejectOutputs, Report,
          Cleanup, FailRun
  <2>11. ASSUME NEW o \in Operators, NEW s \in StepIds, NEW d \in Decisions,
                CheckPending(o, s, d) \/ WriteDecision(o, s, d)
         PROVE  ReadIsCurrent(e0)'
    BY <2>1, <2>11 DEF CheckPending, WriteDecision
  <2>12. CASE UNCHANGED vars
    BY <2>1, <2>12 DEF vars
  <2> QED
    BY <2>2, <2>3, <2>4, <2>5, <2>6, <2>7, <2>8, <2>9, <2>10, <2>11, <2>12
       DEF Next, EngineStep, StepExecution, ApprovalExecution
<1> QED
  BY <1>1, <1>2 DEF SoleInv

\* No engine has read anything yet.
LEMMA InitSoleInv == Init => SoleInv
  BY InitTypeInv DEF Init, SoleInv, ReadIsCurrent, Executing

\* As long as a run is driven by one engine at a time, whatever crashes and
\* resumes it goes through, a step that has SUCCEEDED keeps its status and its
\* output for ever.
THEOREM SucceededStays ==
    ASSUME NEW CONSTANT e0, Engines = {e0}
    PROVE  Spec => SucceededIsFinal
<1>1. SoleInv /\ [Next]_vars => SoleInv'
  BY SoleInvStep
<1>2. SoleInv /\ [Next]_vars => [KeepsSucceeded]_vars
  BY SoleEngineKeepsSucceeded
<1> QED
  BY <1>1, <1>2, InitSoleInv, PTL DEF Spec, SucceededIsFinal

-----------------------------------------------------------------------------
(* The path of a workflow *)

\* At the last node only that node is ahead.
LEMMA AheadOfNone ==
    ASSUME NEW n \in Nodes, NextNode[n] = NoNode
    PROVE  Ahead(n) \subseteq {n}
<1>1. {n} \in SUBSET Nodes /\ FollowsNext({n})
  BY GraphAssumption DEF FollowsNext
<1> QED
  BY <1>1 DEF Ahead

\* One step along "next" leaves at most the node itself behind.
LEMMA AheadOfNext ==
    ASSUME NEW n \in Nodes, NextNode[n] # NoNode
    PROVE  Ahead(n) \subseteq {n} \union Ahead(NextNode[n])
<1> DEFINE P == {n} \union Ahead(NextNode[n])
<1>1. NextNode[n] \in Nodes
  BY GraphAssumption
<1>2. NextNode[n] \in Ahead(NextNode[n])
  BY <1>1 DEF Ahead
<1>3. P \in SUBSET Nodes
  BY DEF Ahead
<1>4. FollowsNext(P)
  <2> SUFFICES ASSUME NEW m \in P, NextNode[m] # NoNode PROVE NextNode[m] \in P
    BY DEF FollowsNext
  <2>1. CASE m = n
    BY <2>1, <1>2
  <2>2. CASE m \in Ahead(NextNode[n])
    BY <2>2, GraphAssumption DEF Ahead, FollowsNext
  <2> QED
    BY <2>1, <2>2
<1>5. n \in P
  OBVIOUS
<1> HIDE DEF P
<1>6. Ahead(n) \subseteq P
  BY <1>3, <1>4, <1>5 DEF Ahead
<1> QED
  BY <1>6 DEF P

\* What is ahead of a node ahead is ahead.
LEMMA AheadIsClosed ==
    ASSUME NEW n \in Nodes, NEW m \in Ahead(n)
    PROVE  Ahead(m) \subseteq Ahead(n)
<1> SUFFICES ASSUME NEW k \in Ahead(m),
                    NEW P \in SUBSET Nodes, n \in P, FollowsNext(P)
             PROVE  k \in P
  BY DEF Ahead
<1>1. m \in P
  BY DEF Ahead
<1> QED
  BY <1>1 DEF Ahead

-----------------------------------------------------------------------------
(* What a run that succeeded has behind it *)

\* ProceedsOnlyPastSettled, with what the two locations after a step know of
\* that step and of the whole path.
Behind(e) ==
    /\ pc[e] \in Walking =>
          \A n \in Ahead(Start) \ Ahead(node[e]) : Settled(n)
    /\ pc[e] = "advance" => /\ step[StepOf(e)] = "SUCCEEDED"
                            /\ output[StepOf(e)] = val[e]
    /\ pc[e] = "finish" => \A n \in Ahead(Start) : Settled(n)

PathInv ==
    /\ SoleInv
    /\ \A e \in Engines : Behind(e)
    /\ SucceededRunIsComplete

\* A node that is settled stays so while SUCCEEDED rows are kept.
LEMMA SettledStays ==
    ASSUME KeepsSucceeded
    PROVE  \A n : Settled(n) => Settled(n)'
  BY DEF KeepsSucceeded, Settled

\* No walk has begun.
LEMMA InitPathInv == Init => PathInv
  BY InitSoleInv
  DEF Init, PathInv, Behind, Walking, SucceededRunIsComplete

\* Each step of the walk leaves at most one node behind, and settles it first.
LEMMA PathInvStep ==
    ASSUME NEW e0, Engines = {e0}, RepairsLeadBack, PathInv, [Next]_vars
    PROVE  PathInv'
<1>1. SoleInv' /\ KeepsSucceeded
  BY SoleInvStep, SoleEngineKeepsSucceeded DEF PathInv
<1>2. \A n : Settled(n) => Settled(n)'
  BY <1>1, SettledStays
<1>3. /\ e0 \in Engines
      /\ pc \in [Engines -> Locations]
      /\ node \in [Engines -> Nodes]
      /\ val \in [Engines -> Outputs \union FailureClasses \union Results]
      /\ step \in [StepIds -> StepStatuses]
      /\ output \in [StepIds -> Outputs]
      /\ Behind(e0)
      /\ SucceededRunIsComplete
  BY DEF PathInv, SoleInv, TypeInv, TypeOK
<1>4. Behind(e0)' /\ SucceededRunIsComplete'
  <2> USE DEF Behind, SucceededRunIsComplete, Goto, Hold, rows, walk, env
  <2>1. CASE CreateRun(e0) \/ CreateWorktree(e0) \/ ResumeScan(e0)
                 \/ ResumeReset(e0) \/ ResumeResetRaises(e0) \/ Crash(e0) \/ CallRaises(e0)
    BY <1>2, <1>3, <2>1 DEF CreateRun, CreateWorktree, ResumeScan, ResumeReset,
                           ResumeResetRaises, Crash, CallRaises, Walking
  <2>2. CASE ReadCached(e0)
    BY <1>2, <1>3, <2>2 DEF ReadCached, Cached, Walking, StepOf
  <2>3. CASE ReadFresh(e0) \/ RowGone(e0) \/ MarkRunning(e0) \/ StepStarted(e0)
                 \/ InvokeReturns(e0) \/ InvokeRaises(e0) \/ ActionRefused(e0)
                 \/ PersistFailure(e0) \/ RejectApproval(e0)
    BY <1>2, <1>3, <2>3 DEF ReadFresh, RowGone, MarkRunning, StepStarted,
             InvokeReturns, InvokeRaises, ActionRefused, PersistFailure, RejectApproval,
             Walking
  <2>4. CASE PersistSuccess(e0) \/ GrantApproval(e0)
    <3>1. StepOf(e0) \in StepIds
      BY <2>4, <1>3, StepOfType
         DEF PersistSuccess, GrantApproval, AtStep, PathInv, SoleInv
    <3> QED
      BY <1>2, <1>3, <2>4, <3>1
         DEF PersistSuccess, GrantApproval, SetStep, Walking, StepOf
  <2>5. CASE ReadApproval(e0) \/ RequestApproval(e0)
    <3>1. CASE ReadApproval(e0)
      <4>1. approval[StepOf(e0)] \in {"none", "pending"} \union Decisions
        BY <1>3, <3>1, StepOfType DEF ReadApproval, AtStep, PathInv, SoleInv,
              TypeInv, TypeOK, Decisions
      <4> QED
        BY <1>2, <1>3, <3>1, <4>1
           DEF ReadApproval, ApprovalBranch, Decisions, Walking
    <3>2. CASE RequestApproval(e0)
      BY <1>2, <1>3, <3>2 DEF RequestApproval, Walking
    <3> QED
      BY <2>5, <3>1, <3>2
  <2>6. CASE Begin(e0)
    BY <1>2, <1>3, <2>6 DEF Begin, Walking
  <2>7. CASE Visit(e0) \/ Retry(e0)
    BY <1>2, <1>3, <2>7 DEF Visit, Retry, Walking
  <2>8. CASE Advance(e0)
    <3>1. Settled(node[e0])
      BY <1>3, <2>8, StepOfType DEF Advance, Settled, StepOf, AtStep, PathInv, SoleInv
    <3>2. Ahead(node[e0]) \subseteq {node[e0]} \union Ahead(NextNode[node[e0]])
      BY <1>3, <2>8, AheadOfNext DEF Advance
    <3> QED
      BY <1>2, <1>3, <2>8, <3>1, <3>2 DEF Advance, Walking
  <2>9. CASE ReachEnd(e0)
    <3>1. Settled(node[e0])
      BY <1>3, <2>9, StepOfType DEF ReachEnd, Settled, StepOf, AtStep, PathInv, SoleInv
    <3>2. Ahead(node[e0]) \subseteq {node[e0]}
      BY <1>3, <2>9, AheadOfNone DEF ReachEnd
    <3> QED
      BY <1>2, <1>3, <2>9, <3>1, <3>2 DEF ReachEnd, Walking
  <2>10. CASE GateRepairs(e0)
    <3>1. /\ OnFail[node[e0]] \in Nodes
          /\ node[e0] \in Ahead(OnFail[node[e0]])
      BY <1>3, <2>10, GraphAssumption
         DEF GateRepairs, GateEndsRun, RepairsLeadBack
    <3>2. Ahead(node[e0]) \subseteq Ahead(OnFail[node[e0]])
      BY <3>1, AheadIsClosed
    <3> QED
      BY <1>2, <1>3, <2>10, <3>2 DEF GateRepairs, Walking
  <2>11. CASE SucceedRun(e0)
    BY <1>2, <1>3, <2>11 DEF SucceedRun, Walking
  <2>12. CASE Abort(e0) \/ GateFailsRun(e0) \/ RejectOutputs(e0)
                  \/ Report(e0) \/ Cleanup(e0)
    BY <1>2, <1>3, <2>12 DEF Abort, GateFailsRun, RejectOutputs, Report,
             Cleanup, FailRun, Walking
  <2>13. ASSUME NEW o \in Operators, NEW s \in StepIds, NEW d \in Decisions,
                CheckPending(o, s, d) \/ WriteDecision(o, s, d)
         PROVE  Behind(e0)' /\ SucceededRunIsComplete'
    BY <1>2, <1>3, <2>13 DEF CheckPending, WriteDecision, StepOf
  <2>14. CASE UNCHANGED vars
    BY <1>2, <1>3, <2>14 DEF vars, StepOf
  <2> QED
    BY <2>1, <2>2, <2>3, <2>4, <2>5, <2>6, <2>7, <2>8, <2>9, <2>10, <2>11,
       <2>12, <2>13, <2>14
       DEF Next, EngineStep, StepExecution, ApprovalExecution, Walk
<1> QED
  BY <1>1, <1>4 DEF PathInv

\* Driven by one engine at a time, a run whose gates repair by going back
\* reaches SUCCEEDED only with a passing step of every node of its path.
THEOREM SucceededIsComplete ==
    ASSUME NEW CONSTANT e0, Engines = {e0}, RepairsLeadBack
    PROVE  Spec => []SucceededRunIsComplete
<1>1. PathInv => SucceededRunIsComplete
  BY DEF PathInv
<1>2. PathInv /\ [Next]_vars => PathInv'
  BY PathInvStep
<1> QED
  BY <1>1, <1>2, InitPathInv, PTL DEF Spec

\* No walk leaves a node of the path behind that is not settled in the
\* database, also not a walk that a resume starts anew.
THEOREM OnlySettledIsPassed ==
    ASSUME NEW CONSTANT e0, Engines = {e0}, RepairsLeadBack
    PROVE  Spec => []ProceedsOnlyPastSettled
<1>1. PathInv => ProceedsOnlyPastSettled
  BY DEF PathInv, Behind, ProceedsOnlyPastSettled
<1>2. PathInv /\ [Next]_vars => PathInv'
  BY PathInvStep
<1> QED
  BY <1>1, <1>2, InitPathInv, PTL DEF Spec

-----------------------------------------------------------------------------
(* Approval nodes, whichever engines race for them *)

Approved(n) == \E s \in StepIds : s[1] = n /\ approval[s] = "approved"

AtRunStep == {"read", "mark", "started", "invoke", "succeed", "fail"}

\* An approval node is left behind only with its approval.
ApprovedBehind(e) ==
    /\ pc[e] \in AtRunStep => Kind[node[e]] # "approval"
    /\ pc[e] = "grant" => approval[StepOf(e)] = "approved"
    /\ pc[e] = "advance" /\ Kind[node[e]] = "approval" =>
          approval[StepOf(e)] = "approved"
    /\ pc[e] \in Walking =>
          \A n \in Ahead(Start) \ Ahead(node[e]) :
              Kind[n] = "approval" => Approved(n)
    /\ pc[e] = "finish" =>
          \A n \in Ahead(Start) : Kind[n] = "approval" => Approved(n)

\* The operator's one process decides only what is still pending.
DecidesPending ==
    /\ \A d \in deciding : approval[d[2]] = "pending"
    /\ \A c, d \in deciding : c = d

GrantedSteps ==
    \A s \in StepIds : Kind[s[1]] = "approval" /\ step[s] = "SUCCEEDED" =>
        approval[s] = "approved"

ApprovedInv ==
    /\ TypeInv
    /\ DecidesPending
    /\ GrantedSteps
    /\ \A e \in Engines : ApprovedBehind(e)
    /\ SucceededRunWasApproved

KeepsApproved ==
    \A s \in StepIds : approval[s] = "approved" => approval'[s] = "approved"

ApprovalWriters ==
    \/ UNCHANGED approval
    \/ \E e \in Engines : RequestApproval(e)
    \/ \E o \in Operators, s \in StepIds, d \in Decisions : WriteDecision(o, s, d)

\* Only a request and a decision write the approvals.
LEMMA ApprovalWritten ==
    ASSUME [Next]_vars
    PROVE  ApprovalWriters
<1> USE DEF ApprovalWriters, rows
<1>1. ASSUME NEW e \in Engines, StepExecution(e) PROVE UNCHANGED approval
  BY <1>1 DEF StepExecution, ReadCached, ReadFresh, RowGone, MarkRunning,
              StepStarted, InvokeReturns, InvokeRaises, ActionRefused, PersistSuccess,
              PersistFailure
<1>2. ASSUME NEW e \in Engines, ApprovalExecution(e)
      PROVE  UNCHANGED approval \/ RequestApproval(e)
  BY <1>2 DEF ApprovalExecution, ReadApproval, RejectApproval, GrantApproval
<1>3. ASSUME NEW e \in Engines, Walk(e) PROVE UNCHANGED approval
  BY <1>3 DEF Walk, Begin, Visit, Retry, Abort, Advance, ReachEnd, GateRepairs,
              GateFailsRun, SucceedRun, RejectOutputs, Report, Cleanup
<1>4. ASSUME NEW e \in Engines,
             CreateRun(e) \/ ResumeScan(e) \/ CreateWorktree(e)
               \/ ResumeReset(e) \/ ResumeResetRaises(e) \/ Crash(e) \/ CallRaises(e)
      PROVE  UNCHANGED approval
  BY <1>4 DEF CreateRun, ResumeScan, CreateWorktree, ResumeReset,
              ResumeResetRaises, Crash, CallRaises
<1>5. ASSUME NEW o \in Operators, NEW s \in StepIds, NEW d \in Decisions,
             CheckPending(o, s, d)
      PROVE  UNCHANGED approval
  BY <1>5 DEF CheckPending
<1>6. CASE UNCHANGED vars
  BY <1>6 DEF vars
<1> QED
  BY <1>1, <1>2, <1>3, <1>4, <1>5, <1>6 DEF Next, EngineStep

\* Decisions that come one after the other find their approval pending.
LEMMA ApprovalStays ==
    ASSUME NEW o0, Operators = {o0}, ApprovedInv, [Next]_vars
    PROVE  KeepsApproved /\ DecidesPending'
<1>1. /\ approval \in [StepIds -> {"none", "pending"} \union Decisions]
      /\ deciding \subseteq Operators \X StepIds \X Decisions
      /\ DecidesPending
  BY DEF ApprovedInv, TypeInv, TypeOK, Decisions
<1> USE DEF KeepsApproved, DecidesPending
<1>2. ASSUME NEW o \in Operators, NEW s \in StepIds, NEW d \in Decisions,
             CheckPending(o, s, d)
      PROVE  KeepsApproved /\ DecidesPending'
  <2>1. deciding = {}
    BY <1>1, <1>2 DEF CheckPending
  <2> QED
    BY <1>2, <2>1 DEF CheckPending, rows
<1>3. ASSUME NEW o \in Operators, NEW s \in StepIds, NEW d \in Decisions,
             WriteDecision(o, s, d)
      PROVE  KeepsApproved /\ DecidesPending'
  <2>1. deciding = {<<o, s, d>>} /\ deciding' = {}
    BY <1>1, <1>3 DEF WriteDecision
  <2>2. approval[s] = "pending"
    BY <1>1, <2>1
  <2> QED
    BY <1>1, <1>3, <2>1, <2>2 DEF WriteDecision
<1>4. ASSUME NEW e \in Engines, RequestApproval(e)
      PROVE  KeepsApproved /\ DecidesPending'
  BY <1>1, <1>4 DEF RequestApproval, env
<1>5. CASE UNCHANGED approval /\ UNCHANGED deciding
  BY <1>1, <1>5
<1>6. \/ UNCHANGED deciding
      \/ \E o \in Operators, s \in StepIds, d \in Decisions :
            CheckPending(o, s, d) \/ WriteDecision(o, s, d)
  <2> USE DEF env
  <2>1. ASSUME NEW e \in Engines, EngineStep(e) PROVE UNCHANGED deciding
    BY <2>1 DEF EngineStep, StepExecution, ApprovalExecution, Walk,
         CreateWorktree, ResumeReset, ResumeResetRaises, ReadCached, ReadFresh,
         RowGone, MarkRunning, StepStarted, InvokeReturns, InvokeRaises, ActionRefused,
         PersistSuccess, PersistFailure, ReadApproval, RequestApproval,
         RejectApproval, GrantApproval, Begin, Visit, Retry, Abort, Advance,
         ReachEnd, GateRepairs, GateFailsRun, SucceedRun, RejectOutputs,
         Report, Cleanup
  <2>2. ASSUME NEW e \in Engines, CreateRun(e) \/ ResumeScan(e) \/ Crash(e) \/ CallRaises(e)
        PROVE  UNCHANGED deciding
    BY <2>2 DEF CreateRun, ResumeScan, Crash, CallRaises
  <2> QED
    BY <2>1, <2>2 DEF Next, vars
<1> QED
  BY <1>2, <1>3, <1>4, <1>5, <1>6, ApprovalWritten DEF ApprovalWriters

\* An approval node succeeds on an approved approval only.
LEMMA GrantedStepsStay ==
    ASSUME ApprovedInv, KeepsApproved, [Next]_vars
    PROVE  GrantedSteps'
<1> USE DEF GrantedSteps, KeepsApproved, SetStep
<1>1. /\ step \in [StepIds -> StepStatuses]
      /\ GrantedSteps
  BY DEF ApprovedInv, TypeInv, TypeOK
<1>2. CASE UNCHANGED <<step, output, refs>>
  BY <1>1, <1>2
<1>3. ASSUME NEW e \in Engines, WritesRows(e) PROVE GrantedSteps'
  <2>1. ApprovedBehind(e)
    BY DEF ApprovedInv
  <2>2. CASE ResumeReset(e)
    BY <1>1, <2>2 DEF ResumeReset
  <2>3. CASE Visit(e) \/ Retry(e)
    BY <1>1, <2>3 DEF Visit, Retry
  <2>4. CASE MarkRunning(e) \/ StepStarted(e) \/ ActionRefused(e)
    BY <1>1, <2>4 DEF MarkRunning, StepStarted, ActionRefused
  <2>5. CASE PersistSuccess(e)
    <3>1. \A s \in StepIds : s # StepOf(e) => step'[s] = step[s]
      BY <1>1, <2>5 DEF PersistSuccess
    <3>2. Kind[StepOf(e)[1]] # "approval"
      BY <2>1, <2>5 DEF PersistSuccess, ApprovedBehind, AtRunStep, StepOf
    <3> QED
      BY <1>1, <3>1, <3>2
  <2>6. CASE PersistFailure(e) \/ RequestApproval(e) \/ RejectApproval(e)
    BY <1>1, <2>6 DEF PersistFailure, RequestApproval, RejectApproval
  <2>7. CASE GrantApproval(e)
    <3>1. \A s \in StepIds : s # StepOf(e) => step'[s] = step[s]
      BY <1>1, <2>7 DEF GrantApproval
    <3>2. approval[StepOf(e)] = "approved"
      BY <2>1, <2>7 DEF GrantApproval, ApprovedBehind
    <3> QED
      BY <1>1, <3>1, <3>2
  <2> QED
    BY <1>3, <2>2, <2>3, <2>4, <2>5, <2>6, <2>7 DEF WritesRows
<1> QED
  BY <1>2, <1>3, RowWriters

\* What an engine's own step leaves behind it.
LEMMA ApprovedBehindStep ==
    ASSUME RepairsLeadBack, ApprovedInv, KeepsApproved,
           NEW e \in Engines, CreateRun(e) \/ ResumeScan(e) \/ EngineStep(e) \/ Crash(e) \/ CallRaises(e)
    PROVE  ApprovedBehind(e)' /\ SucceededRunWasApproved'
<1> USE DEF KeepsApproved, Goto, Hold, rows, walk, env
<1>1. /\ pc \in [Engines -> Locations]
      /\ node \in [Engines -> Nodes]
      /\ attempts \in [Engines -> [Nodes -> 0..MaxAttempts]]
      /\ ApprovedBehind(e)
      /\ SucceededRunWasApproved
      /\ GrantedSteps
      /\ pc[e] \in AtStep => StepOf(e) \in StepIds
  BY StepOfType DEF ApprovedInv, TypeInv, TypeOK
<1>2. \A n : Approved(n) => Approved(n)'
  BY DEF Approved
<1>3. /\ SucceededRunWasApproved =
           (run = "SUCCEEDED" => \A n \in Ahead(Start) :
                                    Kind[n] = "approval" => Approved(n))
      /\ SucceededRunWasApproved' =
           (run' = "SUCCEEDED" => \A n \in Ahead(Start) :
                                    Kind[n] = "approval" => Approved(n)')
  BY DEF SucceededRunWasApproved, Approved
<1> USE DEF ApprovedBehind
<1>4. CASE CreateRun(e) \/ CreateWorktree(e) \/ ResumeScan(e)
              \/ ResumeReset(e) \/ ResumeResetRaises(e) \/ Crash(e) \/ CallRaises(e)
  BY <1>1, <1>2, <1>3, <1>4 DEF CreateRun, CreateWorktree, ResumeScan,
         ResumeReset, ResumeResetRaises, Crash, CallRaises, Walking, AtRunStep
<1>5. CASE ReadCached(e)
  BY <1>1, <1>2, <1>3, <1>5
     DEF ReadCached, Cached, Walking, AtRunStep, AtStep, StepOf, GrantedSteps
<1>6. CASE ReadFresh(e) \/ RowGone(e) \/ MarkRunning(e) \/ StepStarted(e)
              \/ InvokeReturns(e) \/ InvokeRaises(e) \/ ActionRefused(e) \/ PersistSuccess(e)
              \/ PersistFailure(e) \/ RejectApproval(e) \/ RequestApproval(e)
  BY <1>1, <1>2, <1>3, <1>6
     DEF ReadFresh, RowGone, MarkRunning, StepStarted, InvokeReturns,
         InvokeRaises, ActionRefused, PersistSuccess, PersistFailure, RejectApproval,
         RequestApproval, Walking, AtRunStep
<1>7. CASE ReadApproval(e)
  <2>1. approval[StepOf(e)] \in {"none", "pending"} \union Decisions
    BY <1>1, <1>7 DEF ReadApproval, AtStep, ApprovedInv, TypeInv, TypeOK, Decisions
  <2>2. /\ pc[e] = "approval"
        /\ pc'[e] \in {"request", "report", "reject", "grant"}
        /\ pc'[e] = "grant" => approval[StepOf(e)] = "approved"
        /\ UNCHANGED <<run, node, attempts, approval>>
    BY <1>1, <1>7, <2>1 DEF ReadApproval, ApprovalBranch, Decisions
  <2> QED
    BY <1>1, <1>2, <1>3, <2>2 DEF Walking, AtRunStep, StepOf
<1>8. CASE GrantApproval(e)
  BY <1>1, <1>2, <1>3, <1>8
     DEF GrantApproval, Walking, AtRunStep, StepOf
<1>9. CASE Begin(e)
  BY <1>1, <1>2, <1>3, <1>9 DEF Begin, Walking, AtRunStep
<1>10. CASE Visit(e) \/ Retry(e)
  BY <1>1, <1>2, <1>3, <1>10 DEF Visit, Retry, Walking, AtRunStep
<1>11. CASE Advance(e) \/ ReachEnd(e)
  <2>1. Kind[node[e]] = "approval" => Approved(node[e])
    BY <1>1, <1>11 DEF Advance, ReachEnd, Approved, StepOf, AtStep
  <2>2. CASE Advance(e)
    <3>1. Ahead(node[e]) \subseteq {node[e]} \union Ahead(NextNode[node[e]])
      BY <1>1, <2>2, AheadOfNext DEF Advance
    <3> QED
      BY <1>1, <1>2, <1>3, <2>1, <2>2, <3>1 DEF Advance, Walking, AtRunStep
  <2>3. CASE ReachEnd(e)
    <3>1. Ahead(node[e]) \subseteq {node[e]}
      BY <1>1, <2>3, AheadOfNone DEF ReachEnd
    <3> QED
      BY <1>1, <1>2, <1>3, <2>1, <2>3, <3>1 DEF ReachEnd, Walking, AtRunStep
  <2> QED
    BY <1>11, <2>2, <2>3
<1>12. CASE GateRepairs(e)
  <2>1. /\ OnFail[node[e]] \in Nodes
        /\ node[e] \in Ahead(OnFail[node[e]])
    BY <1>1, <1>12, GraphAssumption
       DEF GateRepairs, GateEndsRun, RepairsLeadBack
  <2>2. Ahead(node[e]) \subseteq Ahead(OnFail[node[e]])
    BY <2>1, AheadIsClosed
  <2> QED
    BY <1>1, <1>2, <1>3, <1>12, <2>2 DEF GateRepairs, Walking, AtRunStep
<1>13. CASE SucceedRun(e)
  BY <1>1, <1>2, <1>3, <1>13 DEF SucceedRun, Walking, AtRunStep
<1>14. CASE Abort(e) \/ GateFailsRun(e) \/ RejectOutputs(e) \/ Report(e)
               \/ Cleanup(e)
  BY <1>1, <1>2, <1>3, <1>14 DEF Abort, GateFailsRun, RejectOutputs, Report,
         Cleanup, FailRun, Walking, AtRunStep
<1> QED
  BY <1>4, <1>5, <1>6, <1>7, <1>8, <1>9, <1>10, <1>11, <1>12, <1>13, <1>14
     DEF EngineStep, StepExecution, ApprovalExecution, Walk

\* An engine's step is its own: it leaves the locals of the others alone.
LEMMA OwnStep ==
    ASSUME TypeInv, NEW e \in Engines, NEW f \in Engines, e # f,
           CreateRun(e) \/ ResumeScan(e) \/ EngineStep(e) \/ Crash(e) \/ CallRaises(e)
    PROVE  pc'[f] = pc[f] /\ node'[f] = node[f] /\ attempts'[f] = attempts[f]
<1> USE DEF Goto, walk
<1>1. /\ pc \in [Engines -> Locations]
      /\ node \in [Engines -> Nodes]
      /\ attempts \in [Engines -> [Nodes -> 0..MaxAttempts]]
  BY DEF TypeInv, TypeOK
<1>2. CASE StepExecution(e)
  BY <1>1, <1>2 DEF StepExecution, ReadCached, ReadFresh, RowGone, MarkRunning,
         StepStarted, InvokeReturns, InvokeRaises, ActionRefused, PersistSuccess,
         PersistFailure
<1>3. CASE ApprovalExecution(e)
  BY <1>1, <1>3 DEF ApprovalExecution, ReadApproval, RequestApproval,
         RejectApproval, GrantApproval
<1>4. CASE Walk(e)
  BY <1>1, <1>4 DEF Walk, Begin, Visit, Retry, Abort, Advance, ReachEnd,
         GateRepairs, GateFailsRun, SucceedRun, RejectOutputs, Report, Cleanup,
         Forget, FailRun
<1>5. CASE CreateRun(e) \/ ResumeScan(e) \/ CreateWorktree(e)
              \/ ResumeReset(e) \/ ResumeResetRaises(e) \/ Crash(e) \/ CallRaises(e)
  BY <1>1, <1>5 DEF CreateRun, ResumeScan, CreateWorktree, ResumeReset,
         ResumeResetRaises, Crash, CallRaises, Forget
<1> QED
  BY <1>2, <1>3, <1>4, <1>5 DEF EngineStep

\* No engine of several passes an approval node that was not approved.
LEMMA ApprovedInvStep ==
    ASSUME NEW o0, Operators = {o0}, RepairsLeadBack, ApprovedInv, [Next]_vars
    PROVE  ApprovedInv'
<1>1. TypeInv' /\ KeepsApproved /\ DecidesPending' /\ GrantedSteps'
  BY TypeInvStep, ApprovalStays, GrantedStepsStay DEF ApprovedInv
<1>2. \A n : Approved(n) => Approved(n)'
  BY <1>1 DEF Approved, KeepsApproved
<1>3. \A f \in Engines : pc[f] \in AtStep => StepOf(f) \in StepIds
  BY StepOfType DEF ApprovedInv
<1>4. ASSUME NEW f \in Engines, pc'[f] = pc[f], node'[f] = node[f],
             attempts'[f] = attempts[f]
      PROVE  ApprovedBehind(f)'
  BY <1>1, <1>2, <1>3, <1>4
     DEF ApprovedInv, ApprovedBehind, KeepsApproved, StepOf, AtStep
<1>5. ASSUME NEW e \in Engines,
             CreateRun(e) \/ ResumeScan(e) \/ EngineStep(e) \/ Crash(e) \/ CallRaises(e)
      PROVE  (\A f \in Engines : ApprovedBehind(f)') /\ SucceededRunWasApproved'
  <2>1. ApprovedBehind(e)' /\ SucceededRunWasApproved'
    BY <1>1, <1>5, ApprovedBehindStep
  <2>2. ASSUME NEW f \in Engines, f # e PROVE ApprovedBehind(f)'
    BY <1>4, <1>5, <2>2, OwnStep DEF ApprovedInv
  <2> QED
    BY <2>1, <2>2
<1>6. ASSUME UNCHANGED <<run, pc, node, attempts>>
      PROVE  (\A f \in Engines : ApprovedBehind(f)') /\ SucceededRunWasApproved'
  <2>1. \A f \in Engines : ApprovedBehind(f)'
    BY <1>4, <1>6
  <2>2. SucceededRunWasApproved'
    BY <1>1, <1>6 DEF ApprovedInv, SucceededRunWasApproved, KeepsApproved
  <2> QED
    BY <2>1, <2>2
<1>7. ASSUME NEW o \in Operators, NEW s \in StepIds, NEW d \in Decisions,
             CheckPending(o, s, d) \/ WriteDecision(o, s, d)
      PROVE  UNCHANGED <<run, pc, node, attempts>>
  BY <1>7 DEF CheckPending, WriteDecision, rows, walk
<1>8. (\A f \in Engines : ApprovedBehind(f)') /\ SucceededRunWasApproved'
  BY <1>5, <1>6, <1>7 DEF Next, vars
<1> QED
  BY <1>1, <1>8 DEF ApprovedInv

\* However many engines drive the run, a run that reaches SUCCEEDED has an
\* approved approval for every approval node of its path, as long as decisions
\* come one after the other.
THEOREM SucceededIsApproved ==
    ASSUME NEW CONSTANT o0, Operators = {o0}, RepairsLeadBack
    PROVE  Spec => []SucceededRunWasApproved
<1>1. Init => ApprovedInv
  BY InitTypeInv
  DEF Init, ApprovedInv, DecidesPending, GrantedSteps, ApprovedBehind,
      AtRunStep, Walking, SucceededRunWasApproved
<1>2. ApprovedInv /\ [Next]_vars => ApprovedInv'
  BY ApprovedInvStep
<1>3. ApprovedInv => SucceededRunWasApproved
  BY DEF ApprovedInv
<1> QED
  BY <1>1, <1>2, <1>3, PTL DEF Spec

-----------------------------------------------------------------------------
(* The run's status while an engine is on it *)

\* From the scan of a resume to the end of its walk the sole engine finds the
\* run as it left it: RUNNING, or FAILED by a machine activity that it retries.
StatusInv ==
    /\ SoleInv
    /\ \A e \in Engines :
          /\ pc[e] \in {"created", "reset", "begin"} => Resumable
          /\ pc[e] \in Walking \union {"finish"} => run \in {"RUNNING", "FAILED"}

\* No engine is on the run yet.
LEMMA InitStatusInv == Init => StatusInv
  BY InitSoleInv DEF Init, StatusInv, Walking

\* Every write of the run's status leaves the engine where it belongs.
LEMMA StatusInvStep ==
    ASSUME NEW e0, Engines = {e0}, StatusInv, [Next]_vars
    PROVE  StatusInv'
<1> DEFINE Q == /\ pc[e0] \in {"created", "reset", "begin"} => Resumable
                /\ pc[e0] \in Walking \union {"finish"} => run \in {"RUNNING", "FAILED"}
<1>1. /\ Q
      /\ e0 \in Engines
      /\ pc \in [Engines -> Locations]
      /\ approval \in [StepIds -> {"none", "pending"} \union Decisions]
      /\ pc[e0] \in AtStep => StepOf(e0) \in StepIds
  BY StepOfType
     DEF StatusInv, SoleInv, TypeInv, TypeOK, Decisions
<1>2. Q'
  <2> USE DEF Goto, rows, Walking, Resumable, TerminalRunStatuses
  <2>1. CASE CreateRun(e0) \/ CreateWorktree(e0) \/ ResumeScan(e0)
                 \/ ResumeReset(e0) \/ ResumeResetRaises(e0) \/ Crash(e0) \/ CallRaises(e0)
    BY <1>1, <2>1 DEF CreateRun, CreateWorktree, ResumeScan, ResumeReset,
                      ResumeResetRaises, Crash, CallRaises
  <2>2. CASE StepExecution(e0)
    BY <1>1, <2>2 DEF StepExecution, ReadCached, ReadFresh, RowGone,
         MarkRunning, StepStarted, InvokeReturns, InvokeRaises, ActionRefused, PersistSuccess,
         PersistFailure
  <2>3. CASE ReadApproval(e0)
    BY <1>1, <2>3 DEF ReadApproval, ApprovalBranch, Decisions, AtStep
  <2>4. CASE RequestApproval(e0) \/ RejectApproval(e0) \/ GrantApproval(e0)
    BY <1>1, <2>4 DEF RequestApproval, RejectApproval, GrantApproval
  <2>5. CASE Walk(e0)
    BY <1>1, <2>5 DEF Walk, Begin, Visit, Retry, Abort, Advance, ReachEnd,
         GateRepairs, GateFailsRun, SucceedRun, RejectOutputs, Report, Cleanup,
         FailRun
  <2>6. ASSUME NEW o \in Operators, NEW s \in StepIds, NEW d \in Decisions,
               CheckPending(o, s, d) \/ WriteDecision(o, s, d)
        PROVE  Q'
    BY <1>1, <2>6 DEF CheckPending, WriteDecision
  <2>7. CASE UNCHANGED vars
    BY <1>1, <2>7 DEF vars
  <2> QED
    BY <2>1, <2>2, <2>3, <2>4, <2>5, <2>6, <2>7
       DEF Next, EngineStep, ApprovalExecution
<1> QED
  BY <1>2, SoleInvStep DEF StatusInv

-----------------------------------------------------------------------------
(* What a run leaves behind *)

\* What the engine is about to report is the status it has written, so the
\* worktree goes only with a run that said SUCCEEDED.
ReportInv ==
    /\ \A e \in Engines :
          /\ pc[e] \in {"report", "cleanup"} =>
                (val[e] = "SUCCEEDED" <=> run = "SUCCEEDED")
          /\ pc[e] = "cleanup" => result = val[e]
          /\ pc[e] = "request" => val[e] = "WAITING_INPUT"
    /\ worktree = "removed" => /\ run \in TerminalRunStatuses
                               /\ result = "SUCCEEDED"
                               /\ \A e \in Engines : pc[e] = "idle"

\* An approval is requested for an approval node's step only, whose row then
\* stays and waits, fails or succeeds; what is decided has been requested.
RequestedInv ==
    /\ \A s \in StepIds : approval[s] # "none" =>
          s \in refs /\ HasRow(s) /\ ~InFlight(s) /\ Kind[s[1]] = "approval"
    /\ \A e \in Engines :
          /\ pc[e] \in AtRunStep => Kind[node[e]] # "approval"
          /\ pc[e] \in {"approval", "request", "reject", "grant"} =>
                Kind[node[e]] = "approval"
    /\ \A d \in deciding : approval[d[2]] # "none"

\* A walk that goes on while the run is FAILED has a failed machine step behind
\* it, an attempt that it does not come to again.
OnWalk(e) == pc[e] \in Walking \union {"finish"}

FailedIn(e, t) ==
    /\ Machine(t)
    /\ step[t] = "FAILED"
    /\ t[2] <= attempts[e][t[1]]
    /\ pc[e] \in AtStep \ {"raised"} => t # StepOf(e)

FailedInv == \A e \in Engines :
    /\ pc[e] \in AtStep => HasRow(StepOf(e))
    /\ run = "FAILED" /\ OnWalk(e) => \E t \in StepIds : FailedIn(e, t)

MachineFailed == \E t \in StepIds : Machine(t) /\ step[t] = "FAILED"

\* The one step that may be in flight is the one the engine is working on, or,
\* between a retry's backoff and its next visit, the attempt that comes next.
QuietInv ==
    /\ run = "none" => \A s \in StepIds : step[s] = "absent"
    /\ run = "SUCCEEDED" => \A s \in StepIds : ~InFlight(s)
    /\ \A e \in Engines :
          /\ pc[e] = "created" => \A s \in StepIds : step[s] = "absent"
          /\ pc[e] \in {"begin", "raised", "advance", "finish", "report",
                         "cleanup"} =>
                \A s \in StepIds : ~InFlight(s)
          /\ pc[e] = "visit" =>
                \A s \in StepIds : InFlight(s) =>
                    s = <<node[e], attempts[e][node[e]] + 1>>
          /\ pc[e] \in AtStep \ {"raised", "advance"} =>
                \A s \in StepIds : InFlight(s) => s = StepOf(e)
          /\ run = "FAILED" /\ ~OnWalk(e) =>
                MachineFailed \/ \A s \in StepIds : ~InFlight(s)

\* Every way to the report sets the value that is reported with the status.
LEMMA ReportInvStep ==
    ASSUME NEW e0, Engines = {e0}, StatusInv, ReportInv, [Next]_vars
    PROVE  ReportInv'
<1> USE DEF Goto, Hold, rows, walk, env
<1>1. /\ e0 \in Engines
      /\ pc \in [Engines -> Locations]
      /\ val \in [Engines -> Outputs \union FailureClasses \union Results]
      /\ pc[e0] \in {"created", "reset", "begin"} => Resumable
      /\ pc[e0] \in Walking \union {"finish"} => run \in {"RUNNING", "FAILED"}
  BY DEF StatusInv, SoleInv, TypeInv, TypeOK
<1> DEFINE Q == /\ pc[e0] \in {"report", "cleanup"} =>
                      (val[e0] = "SUCCEEDED" <=> run = "SUCCEEDED")
                /\ pc[e0] = "cleanup" => result = val[e0]
                /\ pc[e0] = "request" => val[e0] = "WAITING_INPUT"
                /\ worktree = "removed" => /\ run \in TerminalRunStatuses
                                           /\ result = "SUCCEEDED"
                                           /\ pc[e0] = "idle"
<1>2. Q
  BY <1>1 DEF ReportInv
<1>3. Q'
  <2>1. CASE CreateRun(e0) \/ CreateWorktree(e0) \/ ResumeScan(e0)
                 \/ ResumeReset(e0)
    BY <1>1, <1>2, <2>1 DEF CreateRun, CreateWorktree, ResumeScan, ResumeReset,
         Resumable, TerminalRunStatuses
  <2>2. CASE ResumeResetRaises(e0) \/ Crash(e0) \/ CallRaises(e0)
    BY <1>1, <1>2, <2>2 DEF ResumeResetRaises, Crash, CallRaises,
         RemovesWorktree, TerminalRunStatuses
  <2>3. CASE StepExecution(e0)
    BY <1>1, <1>2, <2>3 DEF StepExecution, ReadCached, ReadFresh, RowGone,
         MarkRunning, StepStarted, InvokeReturns, InvokeRaises, ActionRefused, PersistSuccess,
         PersistFailure
  <2>4. CASE ReadApproval(e0)
    <3>1. approval[StepOf(e0)] \in {"none", "pending"} \union Decisions
      BY <1>1, <2>4, StepOfType DEF ReadApproval, AtStep, StatusInv, SoleInv,
            TypeInv, TypeOK, Decisions
    <3> QED
      BY <1>1, <1>2, <2>4, <3>1
         DEF ReadApproval, ApprovalBranch, Decisions, Walking
  <2>5. CASE RequestApproval(e0)
    BY <1>1, <1>2, <2>5 DEF RequestApproval, Walking
  <2>6. CASE RejectApproval(e0) \/ GrantApproval(e0)
    BY <1>1, <1>2, <2>6 DEF RejectApproval, GrantApproval
  <2>7. CASE Begin(e0) \/ Visit(e0) \/ Retry(e0) \/ Advance(e0) \/ ReachEnd(e0)
                 \/ GateRepairs(e0)
    BY <1>1, <1>2, <2>7 DEF Begin, Visit, Retry, Advance, ReachEnd, GateRepairs,
         Resumable, TerminalRunStatuses
  <2>8. CASE Abort(e0) \/ GateFailsRun(e0) \/ RejectOutputs(e0)
                 \/ SucceedRun(e0)
    BY <1>1, <1>2, <2>8 DEF Abort, GateFailsRun, RejectOutputs, SucceedRun,
         FailRun, Walking
  <2>9. CASE Report(e0)
    BY <1>1, <1>2, <2>9 DEF Report
  <2>10. CASE Cleanup(e0)
    BY <1>1, <1>2, <2>10 DEF Cleanup, RemovesWorktree, TerminalRunStatuses
  <2>11. ASSUME NEW o \in Operators, NEW s \in StepIds, NEW d \in Decisions,
                CheckPending(o, s, d) \/ WriteDecision(o, s, d)
         PROVE  Q'
    BY <1>2, <2>11 DEF CheckPending, WriteDecision
  <2>12. CASE UNCHANGED vars
    BY <1>2, <2>12 DEF vars
  <2> QED
    BY <2>1, <2>2, <2>3, <2>4, <2>5, <2>6, <2>7, <2>8, <2>9, <2>10, <2>11,
       <2>12 DEF Next, EngineStep, ApprovalExecution, Walk
<1> QED
  BY <1>1, <1>3 DEF ReportInv

\* Driven by one engine at a time, the worktree is removed only once the run
\* has succeeded and its result says so, and no engine still walks then.
THEOREM WorktreeOutlives ==
    ASSUME NEW CONSTANT e0, Engines = {e0}
    PROVE  Spec => []WorktreeOutlivesRun
<1>1. Init => ReportInv
  BY DEF Init, ReportInv
<1>2. StatusInv /\ ReportInv /\ [Next]_vars => StatusInv' /\ ReportInv'
  BY StatusInvStep, ReportInvStep
<1>3. StatusInv /\ ReportInv => WorktreeOutlivesRun
  BY DEF ReportInv, WorktreeOutlivesRun, Walking
<1> QED
  BY <1>1, <1>2, <1>3, InitStatusInv, PTL DEF Spec

\* Only an approval node's request and an operator touch the approvals.
LEMMA OnlyRequests ==
    ASSUME NEW e0, Engines = {e0}, [Next]_vars
    PROVE  \/ UNCHANGED <<approval, deciding>>
           \/ RequestApproval(e0)
           \/ \E o \in Operators, s \in StepIds, d \in Decisions :
                 CheckPending(o, s, d) \/ WriteDecision(o, s, d)
<1> USE DEF rows, walk, env, Forget, FailRun
<1>1. CASE CreateRun(e0) \/ CreateWorktree(e0) \/ ResumeScan(e0)
              \/ ResumeReset(e0) \/ ResumeResetRaises(e0) \/ Crash(e0)
              \/ CallRaises(e0)
  BY <1>1 DEF CreateRun, CreateWorktree, ResumeScan, ResumeReset,
              ResumeResetRaises, Crash, CallRaises
<1>2. CASE StepExecution(e0)
  BY <1>2 DEF StepExecution, ReadCached, ReadFresh, RowGone, MarkRunning,
       StepStarted, ActionRefused, InvokeReturns, InvokeRaises, PersistSuccess,
       PersistFailure
<1>3. CASE ReadApproval(e0) \/ RejectApproval(e0) \/ GrantApproval(e0)
  BY <1>3 DEF ReadApproval, RejectApproval, GrantApproval
<1>4. CASE Walk(e0)
  BY <1>4 DEF Walk, Begin, Visit, Retry, Abort, Advance, ReachEnd, GateRepairs,
       GateFailsRun, SucceedRun, RejectOutputs, Report, Cleanup
<1>5. CASE UNCHANGED vars
  BY <1>5 DEF vars
<1> QED
  BY <1>1, <1>2, <1>3, <1>4, <1>5 DEF Next, EngineStep, ApprovalExecution

\* A requested approval keeps its step's row, out of flight.
LEMMA RequestedInvStep ==
    ASSUME NEW e0, Engines = {e0}, TypeInv, RequestedInv, [Next]_vars
    PROVE  RequestedInv'
<1> USE DEF Goto, SetStep, InFlight, HasRow, StepOf, rows, walk, env
<1> DEFINE R == \A s \in StepIds : approval[s] # "none" =>
                   /\ s \in refs /\ HasRow(s) /\ ~InFlight(s)
                   /\ Kind[s[1]] = "approval"
           K == /\ pc[e0] \in AtRunStep => Kind[node[e0]] # "approval"
                /\ pc[e0] \in {"approval", "request", "reject", "grant"} =>
                      Kind[node[e0]] = "approval"
           D == \A d \in deciding : approval[d[2]] # "none"
<1>1. /\ e0 \in Engines
      /\ pc \in [Engines -> Locations]
      /\ node \in [Engines -> Nodes]
      /\ attempts \in [Engines -> [Nodes -> 0..MaxAttempts]]
      /\ step \in [StepIds -> StepStatuses]
      /\ deciding \subseteq Operators \X StepIds \X Decisions
      /\ approval \in [StepIds -> {"none", "pending"} \union Decisions]
      /\ pc[e0] \in AtStep => StepOf(e0) \in StepIds
  BY StepOfType DEF TypeInv, TypeOK, Decisions
<1>2. R /\ K /\ D
  BY <1>1 DEF RequestedInv
<1>3. R' /\ K'
  <2> USE DEF AtStep, AtRunStep
  <2>1. CASE CreateRun(e0) \/ CreateWorktree(e0) \/ ResumeScan(e0)
                 \/ ResumeResetRaises(e0) \/ Crash(e0) \/ CallRaises(e0)
    BY <1>1, <1>2, <2>1 DEF CreateRun, CreateWorktree, ResumeScan,
         ResumeResetRaises, Crash, CallRaises
  <2>2. CASE ResumeReset(e0)
    BY <1>1, <1>2, <2>2 DEF ResumeReset
  <2>3. CASE ReadCached(e0) \/ ReadFresh(e0) \/ RowGone(e0)
                 \/ InvokeReturns(e0) \/ InvokeRaises(e0)
    BY <1>1, <1>2, <2>3 DEF ReadCached, ReadFresh, RowGone, InvokeReturns,
         InvokeRaises
  <2>4. CASE MarkRunning(e0)
    BY <1>1, <1>2, <2>4 DEF MarkRunning
  <2>5. CASE StepStarted(e0) \/ ActionRefused(e0)
    BY <1>1, <1>2, <2>5 DEF StepStarted, ActionRefused
  <2>6. CASE PersistSuccess(e0) \/ PersistFailure(e0)
    BY <1>1, <1>2, <2>6 DEF PersistSuccess, PersistFailure
  <2>7. CASE ReadApproval(e0)
    BY <1>1, <1>2, <2>7 DEF ReadApproval, ApprovalBranch, Decisions
  <2>8. CASE RequestApproval(e0)
    BY <1>1, <1>2, <2>8 DEF RequestApproval
  <2>9. CASE RejectApproval(e0) \/ GrantApproval(e0)
    BY <1>1, <1>2, <2>9 DEF RejectApproval, GrantApproval
  <2>10. CASE Begin(e0)
    BY <1>1, <1>2, <2>10 DEF Begin
  <2>11. CASE Visit(e0)
    <3>1. R'
      BY <1>1, <1>2, <2>11 DEF Visit
    <3>2. K'
      BY <1>1, <1>2, <2>11 DEF Visit
    <3> QED
      BY <3>1, <3>2
  <2>12. CASE Retry(e0)
    BY <1>1, <1>2, <2>12 DEF Retry
  <2>13. CASE Advance(e0) \/ GateRepairs(e0) \/ ReachEnd(e0) \/ Report(e0)
                  \/ Cleanup(e0)
    BY <1>1, <1>2, <2>13 DEF Advance, GateRepairs, ReachEnd, Report, Cleanup
  <2>14. CASE Abort(e0) \/ GateFailsRun(e0) \/ RejectOutputs(e0)
                  \/ SucceedRun(e0)
    BY <1>1, <1>2, <2>14 DEF Abort, GateFailsRun, RejectOutputs, SucceedRun,
         FailRun
  <2>15. ASSUME NEW o \in Operators, NEW s \in StepIds, NEW d \in Decisions,
                CheckPending(o, s, d)
         PROVE  R' /\ K'
    BY <1>2, <2>15 DEF CheckPending
  <2>16. ASSUME NEW o \in Operators, NEW s \in StepIds, NEW d \in Decisions,
                WriteDecision(o, s, d)
         PROVE  R' /\ K'
    <3>1. approval[s] # "none"
      BY <1>2, <2>16 DEF WriteDecision
    <3> QED
      BY <1>1, <1>2, <2>16, <3>1 DEF WriteDecision
  <2>17. CASE UNCHANGED vars
    BY <1>2, <2>17 DEF vars
  <2> QED
    BY <2>1, <2>2, <2>3, <2>4, <2>5, <2>6, <2>7, <2>8, <2>9, <2>10, <2>11,
       <2>12, <2>13, <2>14, <2>15, <2>16, <2>17
       DEF Next, EngineStep, StepExecution, ApprovalExecution, Walk
<1>4. D'
  <2>1. CASE UNCHANGED <<approval, deciding>>
    BY <1>2, <2>1
  <2>2. CASE RequestApproval(e0)
    BY <1>1, <1>2, <2>2 DEF RequestApproval
  <2>3. ASSUME NEW o \in Operators, NEW s \in StepIds, NEW d \in Decisions,
               CheckPending(o, s, d) \/ WriteDecision(o, s, d)
        PROVE  D'
    <3>1. d # "none"
      BY <2>3 DEF Decisions
    <3>2. CASE CheckPending(o, s, d)
      BY <1>1, <1>2, <3>2 DEF CheckPending
    <3>3. CASE WriteDecision(o, s, d)
      BY <1>1, <1>2, <3>1, <3>3 DEF WriteDecision
    <3> QED
      BY <2>3, <3>2, <3>3
  <2> QED
    BY <2>1, <2>2, <2>3, OnlyRequests
<1> QED
  BY <1>1, <1>3, <1>4 DEF RequestedInv

\* An engine at a step has the step's row: only a resume deletes rows, and the
\* sole engine is not walking then.
LEMMA RowStays ==
    ASSUME NEW e0, Engines = {e0}, TypeInv, FailedInv, [Next]_vars
    PROVE  pc'[e0] \in AtStep => HasRow(StepOf(e0))'
<1> USE DEF Goto, SetStep, HasRow, StepOf, rows, walk, env, AtStep
<1>1. /\ e0 \in Engines
      /\ pc \in [Engines -> Locations]
      /\ node \in [Engines -> Nodes]
      /\ attempts \in [Engines -> [Nodes -> 0..MaxAttempts]]
      /\ step \in [StepIds -> StepStatuses]
      /\ approval \in [StepIds -> {"none", "pending"} \union Decisions]
      /\ pc[e0] \in AtStep => StepOf(e0) \in StepIds
  BY StepOfType DEF TypeInv, TypeOK, Decisions
<1>2. pc[e0] \in AtStep => HasRow(StepOf(e0))
  BY <1>1 DEF FailedInv
<1>3. CASE CreateRun(e0) \/ CreateWorktree(e0) \/ ResumeScan(e0)
              \/ ResumeReset(e0) \/ ResumeResetRaises(e0) \/ Crash(e0)
              \/ CallRaises(e0)
  BY <1>1, <1>3 DEF CreateRun, CreateWorktree, ResumeScan, ResumeReset,
       ResumeResetRaises, Crash, CallRaises
<1>4. CASE ReadCached(e0) \/ ReadFresh(e0) \/ RowGone(e0) \/ StepStarted(e0)
              \/ ActionRefused(e0) \/ InvokeReturns(e0) \/ InvokeRaises(e0)
  BY <1>1, <1>2, <1>4 DEF ReadCached, ReadFresh, RowGone, StepStarted,
       ActionRefused, InvokeReturns, InvokeRaises
<1>5. CASE MarkRunning(e0) \/ PersistSuccess(e0) \/ PersistFailure(e0)
  BY <1>1, <1>2, <1>5 DEF MarkRunning, PersistSuccess, PersistFailure
<1>6. CASE ReadApproval(e0)
  BY <1>1, <1>2, <1>6 DEF ReadApproval, ApprovalBranch, Decisions
<1>7. CASE RequestApproval(e0) \/ RejectApproval(e0) \/ GrantApproval(e0)
  BY <1>1, <1>2, <1>7 DEF RequestApproval, RejectApproval, GrantApproval
<1>8. CASE Visit(e0)
  <2>1. StepOf(e0)' \in StepIds
    BY <1>1, <1>8, BoundAssumption DEF Visit, StepIds
  <2> QED
    BY <1>1, <1>8, <2>1 DEF Visit
<1>9. CASE Begin(e0) \/ Retry(e0) \/ Abort(e0) \/ Advance(e0) \/ ReachEnd(e0)
              \/ GateRepairs(e0) \/ GateFailsRun(e0) \/ SucceedRun(e0)
              \/ RejectOutputs(e0) \/ Report(e0) \/ Cleanup(e0)
  BY <1>1, <1>9 DEF Begin, Retry, Abort, Advance, ReachEnd, GateRepairs,
       GateFailsRun, SucceedRun, RejectOutputs, Report, Cleanup, FailRun
<1>10. ASSUME NEW o \in Operators, NEW s \in StepIds, NEW d \in Decisions,
              CheckPending(o, s, d) \/ WriteDecision(o, s, d)
       PROVE  pc'[e0] \in AtStep => HasRow(StepOf(e0))'
  BY <1>1, <1>2, <1>10 DEF CheckPending, WriteDecision
<1>11. CASE UNCHANGED vars
  BY <1>1, <1>2, <1>11 DEF vars
<1> QED
  BY <1>3, <1>4, <1>5, <1>6, <1>7, <1>8, <1>9, <1>10, <1>11
     DEF Next, EngineStep, StepExecution, ApprovalExecution, Walk

\* The failed machine step behind a walk stays behind it, and failed.
LEMMA FailedStays ==
    ASSUME NEW e0, Engines = {e0}, TypeInv, [Next]_vars, OnWalk(e0),
           OnWalk(e0)', NEW t \in StepIds, FailedIn(e0, t)
    PROVE  FailedIn(e0, t)'
<1> USE DEF Goto, SetStep, HasRow, StepOf, rows, walk, env, AtStep, FailedIn,
            Machine
<1>1. /\ e0 \in Engines
      /\ pc \in [Engines -> Locations]
      /\ node \in [Engines -> Nodes]
      /\ attempts \in [Engines -> [Nodes -> 0..MaxAttempts]]
      /\ step \in [StepIds -> StepStatuses]
      /\ pc[e0] \in AtStep => StepOf(e0) \in StepIds
      /\ t[1] \in Nodes /\ t[2] \in Nat
  BY StepOfType DEF TypeInv, TypeOK, StepIds
<1>2. FailedIn(e0, t)
  OBVIOUS
<1>3. CASE CreateRun(e0) \/ CreateWorktree(e0) \/ ResumeScan(e0)
              \/ ResumeReset(e0) \/ ResumeResetRaises(e0) \/ Crash(e0)
              \/ CallRaises(e0) \/ Report(e0) \/ Cleanup(e0) \/ Begin(e0)
  BY <1>1, <1>3 DEF CreateRun, CreateWorktree, ResumeScan, ResumeReset,
       ResumeResetRaises, Crash, CallRaises, Report, Cleanup, Begin, OnWalk,
       Walking
<1>4. CASE ReadCached(e0) \/ ReadFresh(e0) \/ RowGone(e0) \/ StepStarted(e0)
              \/ ActionRefused(e0) \/ InvokeReturns(e0) \/ InvokeRaises(e0)
              \/ ReadApproval(e0)
  BY <1>1, <1>2, <1>4 DEF ReadCached, ReadFresh, RowGone, StepStarted,
       ActionRefused, InvokeReturns, InvokeRaises, ReadApproval
<1>5. CASE MarkRunning(e0) \/ PersistSuccess(e0) \/ PersistFailure(e0)
  BY <1>1, <1>2, <1>5 DEF MarkRunning, PersistSuccess, PersistFailure
<1>6. CASE RequestApproval(e0) \/ RejectApproval(e0) \/ GrantApproval(e0)
  BY <1>1, <1>2, <1>6 DEF RequestApproval, RejectApproval, GrantApproval
<1>7. CASE Visit(e0)
  BY <1>1, <1>2, <1>7 DEF Visit
<1>8. CASE Retry(e0)
  BY <1>1, <1>2, <1>8 DEF Retry
<1>9. CASE Abort(e0) \/ Advance(e0) \/ ReachEnd(e0) \/ GateRepairs(e0)
              \/ GateFailsRun(e0) \/ SucceedRun(e0) \/ RejectOutputs(e0)
  BY <1>1, <1>2, <1>9 DEF Abort, Advance, ReachEnd, GateRepairs, GateFailsRun,
       SucceedRun, RejectOutputs, FailRun
<1>10. ASSUME NEW o \in Operators, NEW s \in StepIds, NEW d \in Decisions,
              CheckPending(o, s, d) \/ WriteDecision(o, s, d)
       PROVE  FailedIn(e0, t)'
  BY <1>1, <1>2, <1>10 DEF CheckPending, WriteDecision
<1>11. CASE UNCHANGED vars
  BY <1>1, <1>2, <1>11 DEF vars
<1> QED
  BY <1>3, <1>4, <1>5, <1>6, <1>7, <1>8, <1>9, <1>10, <1>11
     DEF Next, EngineStep, StepExecution, ApprovalExecution, Walk

\* A walk that finds the run FAILED, or goes on after the run became FAILED,
\* was on its way before; it became FAILED by a machine step that failed.
LEMMA BecomesFailed ==
    ASSUME NEW e0, Engines = {e0}, TypeInv, [Next]_vars, run' = "FAILED",
           OnWalk(e0)'
    PROVE  /\ OnWalk(e0)
           /\ run = "FAILED" \/ (PersistFailure(e0) /\ Machine(StepOf(e0)))
<1> USE DEF Goto, rows, walk, env, OnWalk, Walking
<1>1. e0 \in Engines /\ pc \in [Engines -> Locations]
  BY DEF TypeInv, TypeOK
<1>2. CASE CreateRun(e0) \/ CreateWorktree(e0) \/ ResumeScan(e0)
              \/ ResumeReset(e0) \/ ResumeResetRaises(e0) \/ Crash(e0)
              \/ CallRaises(e0)
  BY <1>1, <1>2 DEF CreateRun, CreateWorktree, ResumeScan, ResumeReset,
       ResumeResetRaises, Crash, CallRaises
<1>3. CASE StepExecution(e0)
  BY <1>1, <1>3 DEF StepExecution, ReadCached, ReadFresh, RowGone, MarkRunning,
       StepStarted, ActionRefused, InvokeReturns, InvokeRaises, PersistSuccess,
       PersistFailure
<1>4. CASE ApprovalExecution(e0)
  BY <1>1, <1>4 DEF ApprovalExecution, ReadApproval, RequestApproval,
       RejectApproval, GrantApproval
<1>5. CASE Walk(e0)
  BY <1>1, <1>5 DEF Walk, Begin, Visit, Retry, Abort, Advance, ReachEnd,
       GateRepairs, GateFailsRun, SucceedRun, RejectOutputs, Report, Cleanup,
       FailRun
<1>6. ASSUME NEW o \in Operators, NEW s \in StepIds, NEW d \in Decisions,
             CheckPending(o, s, d) \/ WriteDecision(o, s, d)
      PROVE  OnWalk(e0) /\ run = "FAILED"
  BY <1>1, <1>6 DEF CheckPending, WriteDecision
<1>7. CASE UNCHANGED vars
  BY <1>1, <1>7 DEF vars
<1> QED
  BY <1>2, <1>3, <1>4, <1>5, <1>6, <1>7 DEF Next, EngineStep

\* A run on whose walk the status is FAILED has a failed machine step.
LEMMA FailedInvStep ==
    ASSUME NEW e0, Engines = {e0}, TypeInv, FailedInv, [Next]_vars
    PROVE  FailedInv'
<1>1. e0 \in Engines
  OBVIOUS
<1>2. ASSUME run' = "FAILED", OnWalk(e0)'
      PROVE  \E t \in StepIds : FailedIn(e0, t)'
  <2>1. /\ OnWalk(e0)
        /\ run = "FAILED" \/ (PersistFailure(e0) /\ Machine(StepOf(e0)))
    BY <1>2, BecomesFailed
  <2>2. CASE run = "FAILED"
    <3>1. PICK t \in StepIds : FailedIn(e0, t)
      BY <1>1, <2>1, <2>2 DEF FailedInv
    <3>2. FailedIn(e0, t)'
      BY <1>2, <2>1, <3>1, FailedStays
    <3> QED
      BY <3>2
  <2>3. CASE PersistFailure(e0) /\ Machine(StepOf(e0))
    <3>1. /\ StepOf(e0) \in StepIds
          /\ HasRow(StepOf(e0))
          /\ pc \in [Engines -> Locations]
          /\ step \in [StepIds -> StepStatuses]
          /\ attempts[e0][node[e0]] \in 0..MaxAttempts
      BY <1>1, <2>3, StepOfType
         DEF PersistFailure, AtStep, FailedInv, TypeInv, TypeOK
    <3> DEFINE t == StepOf(e0)
    <3>2. t \in StepIds
      BY <3>1
    <3>3. /\ step'[t] = "FAILED"
          /\ Machine(t)
          /\ t[2] <= attempts'[e0][t[1]]
          /\ pc'[e0] = "raised"
      BY <1>1, <2>3, <3>1, BoundAssumption
         DEF PersistFailure, SetStep, Goto, HasRow, StepOf, walk
    <3> HIDE DEF t
    <3>4. PICK u : u = t
      OBVIOUS
    <3>5. u \in StepIds /\ FailedIn(e0, u)'
      BY <3>2, <3>3, <3>4 DEF FailedIn, Machine
    <3> QED
      BY <3>5
  <2> QED
    BY <2>1, <2>2, <2>3
<1> QED
  BY <1>1, <1>2, RowStays DEF FailedInv

\* The part of QuietInv about where the engine is: each step takes its row out
\* of flight before the walk goes on or ends.
LEMMA FlightStep ==
    ASSUME NEW e0, Engines = {e0}, StatusInv, RequestedInv, QuietInv,
           [Next]_vars
    PROVE  /\ run' = "none" => \A s \in StepIds : step'[s] = "absent"
           /\ run' = "SUCCEEDED" => \A s \in StepIds : ~InFlight(s)'
           /\ pc'[e0] = "created" => \A s \in StepIds : step'[s] = "absent"
           /\ pc'[e0] \in {"begin", "raised", "advance", "finish", "report",
                            "cleanup"} =>
                 \A s \in StepIds : ~InFlight(s)'
           /\ pc'[e0] = "visit" =>
                 \A s \in StepIds : InFlight(s)' =>
                    s = <<node'[e0], attempts'[e0][node'[e0]] + 1>>
           /\ pc'[e0] \in AtStep \ {"raised", "advance"} =>
                 \A s \in StepIds : InFlight(s)' => s = StepOf(e0)'
<1> USE DEF Goto, Hold, SetStep, InFlight, StepOf, rows, walk, env
<1> DEFINE NoneInFlight == \A s \in StepIds : ~InFlight(s)
           Q == /\ run = "none" => \A s \in StepIds : step[s] = "absent"
                /\ run = "SUCCEEDED" => NoneInFlight
                /\ pc[e0] = "created" => \A s \in StepIds : step[s] = "absent"
                /\ pc[e0] \in {"begin", "raised", "advance", "finish",
                                "report", "cleanup"} => NoneInFlight
                /\ pc[e0] = "visit" =>
                      \A s \in StepIds : InFlight(s) =>
                          s = <<node[e0], attempts[e0][node[e0]] + 1>>
                /\ pc[e0] \in AtStep \ {"raised", "advance"} =>
                      \A s \in StepIds : InFlight(s) => s = StepOf(e0)
<1>1. /\ e0 \in Engines
      /\ pc \in [Engines -> Locations]
      /\ node \in [Engines -> Nodes]
      /\ attempts \in [Engines -> [Nodes -> 0..MaxAttempts]]
      /\ step \in [StepIds -> StepStatuses]
      /\ pc[e0] \in {"created", "reset", "begin"} => Resumable
      /\ pc[e0] \in Walking \union {"finish"} => run \in {"RUNNING", "FAILED"}
      /\ pc[e0] \in AtStep => StepOf(e0) \in StepIds
  BY StepOfType DEF StatusInv, SoleInv, TypeInv, TypeOK
<1>2. Q
  BY <1>1 DEF QuietInv
<1>3. Q'
  <2> USE DEF AtStep, TerminalRunStatuses
  <2>1. CASE CreateRun(e0) \/ CreateWorktree(e0)
    BY <1>1, <1>2, <2>1 DEF CreateRun, CreateWorktree, Resumable
  <2>2. CASE ResumeScan(e0) \/ ResumeResetRaises(e0) \/ Crash(e0)
                \/ CallRaises(e0)
    BY <1>1, <1>2, <2>2 DEF ResumeScan, ResumeResetRaises, Crash, CallRaises
  <2>3. CASE ResumeReset(e0)
    BY <1>1, <1>2, <2>3 DEF ResumeReset, Doomed, HasRow, Resumable
  <2>4. CASE ReadCached(e0)
    BY <1>1, <1>2, <2>4 DEF ReadCached, Cached, Walking
  <2>5. CASE ReadFresh(e0)
    BY <1>1, <1>2, <2>5 DEF ReadFresh, Walking
  <2>6. CASE RowGone(e0)
    BY <1>1, <1>2, <2>6 DEF RowGone, HasRow, Walking
  <2>7. CASE MarkRunning(e0)
    BY <1>1, <1>2, <2>7 DEF MarkRunning, Walking
  <2>8. CASE StepStarted(e0) \/ ActionRefused(e0) \/ InvokeReturns(e0)
                \/ InvokeRaises(e0)
    BY <1>1, <1>2, <2>8 DEF StepStarted, ActionRefused, InvokeReturns,
         InvokeRaises, Walking
  <2>9. CASE PersistSuccess(e0) \/ PersistFailure(e0)
    BY <1>1, <1>2, <2>9 DEF PersistSuccess, PersistFailure, Walking
  <2>10. CASE ReadApproval(e0)
    <3>1. /\ approval[StepOf(e0)] \in {"none", "pending"} \union Decisions
          /\ approval[StepOf(e0)] # "none" => ~InFlight(StepOf(e0))
      BY <1>1, <2>10 DEF ReadApproval, StatusInv, SoleInv, TypeInv, TypeOK,
                         Decisions, RequestedInv
    <3> QED
      BY <1>1, <1>2, <2>10, <3>1
         DEF ReadApproval, ApprovalBranch, Decisions, Walking
  <2>11. CASE RequestApproval(e0)
    BY <1>1, <1>2, <2>11 DEF RequestApproval
  <2>12. CASE RejectApproval(e0) \/ GrantApproval(e0)
    BY <1>1, <1>2, <2>12 DEF RejectApproval, GrantApproval, Walking
  <2>13. CASE Begin(e0)
    BY <1>1, <1>2, <2>13 DEF Begin
  <2>14. CASE Visit(e0)
    BY <1>1, <1>2, <2>14, BoundAssumption DEF Visit, Walking, HasRow
  <2>15. CASE Retry(e0)
    BY <1>1, <1>2, <2>15 DEF Retry, Walking
  <2>16. CASE Advance(e0) \/ GateRepairs(e0)
    BY <1>1, <1>2, <2>16 DEF Advance, GateRepairs, Walking
  <2>17. CASE ReachEnd(e0) \/ Report(e0) \/ Cleanup(e0)
    BY <1>1, <1>2, <2>17 DEF ReachEnd, Report, Cleanup, Walking
  <2>18. CASE Abort(e0) \/ GateFailsRun(e0) \/ RejectOutputs(e0)
                  \/ SucceedRun(e0)
    BY <1>1, <1>2, <2>18 DEF Abort, GateFailsRun, RejectOutputs, SucceedRun,
         FailRun
  <2>19. ASSUME NEW o \in Operators, NEW s \in StepIds, NEW d \in Decisions,
                CheckPending(o, s, d) \/ WriteDecision(o, s, d)
         PROVE  Q'
    BY <1>2, <2>19 DEF CheckPending, WriteDecision
  <2>20. CASE UNCHANGED vars
    BY <1>2, <2>20 DEF vars
  <2> QED
    BY <2>1, <2>2, <2>3, <2>4, <2>5, <2>6, <2>7, <2>8, <2>9, <2>10, <2>11,
       <2>12, <2>13, <2>14, <2>15, <2>16, <2>17, <2>18, <2>19, <2>20
       DEF Next, EngineStep, StepExecution, ApprovalExecution, Walk
<1> QED
  BY <1>3

\* Off a walk, or when one ends, no step comes into flight, and the run turns
\* FAILED only when none is.
LEMMA EndsQuiet ==
    ASSUME NEW e0, Engines = {e0}, StatusInv, RequestedInv, FailedInv,
           QuietInv, [Next]_vars, run' = "FAILED", ~OnWalk(e0)'
    PROVE  MachineFailed' \/ \A s \in StepIds : ~InFlight(s)'
<1> USE DEF Goto, Hold, rows, walk, env, OnWalk, Walking
<1> DEFINE NoneInFlight == \A s \in StepIds : ~InFlight(s)
<1>1. /\ e0 \in Engines
      /\ pc \in [Engines -> Locations]
      /\ pc[e0] \in {"created", "reset", "begin"} => Resumable
      /\ pc[e0] = "created" => \A s \in StepIds : step[s] = "absent"
      /\ pc[e0] \in {"begin", "raised", "advance", "finish", "report",
                      "cleanup"} => NoneInFlight
      /\ run = "FAILED" /\ ~OnWalk(e0) => MachineFailed \/ NoneInFlight
  BY DEF StatusInv, SoleInv, TypeInv, TypeOK, QuietInv
<1>2. run = "FAILED" /\ OnWalk(e0) => MachineFailed
  BY <1>1 DEF FailedInv, FailedIn, MachineFailed
<1>3. run = "FAILED" => MachineFailed \/ NoneInFlight
  BY <1>1, <1>2
<1>4. ASSUME UNCHANGED step, run = "FAILED" \/ NoneInFlight
      PROVE  MachineFailed' \/ NoneInFlight'
  BY <1>3, <1>4 DEF MachineFailed, InFlight, Machine
<1>5. CASE CreateRun(e0) \/ CreateWorktree(e0) \/ ResumeScan(e0)
              \/ ResumeResetRaises(e0) \/ Crash(e0)
  <2>1. UNCHANGED step /\ run = "FAILED"
    BY <1>1, <1>5 DEF CreateRun, CreateWorktree, ResumeScan, ResumeResetRaises,
         Crash, Resumable, TerminalRunStatuses
  <2> QED
    BY <1>4, <2>1
<1>6. CASE ResumeReset(e0)
  BY <1>1, <1>6 DEF ResumeReset, Resumable, TerminalRunStatuses
<1>7. CASE CallRaises(e0)
  <2>1. UNCHANGED step /\ NoneInFlight
    BY <1>1, <1>7 DEF CallRaises, InFlight
  <2> QED
    BY <1>4, <2>1
<1>8. CASE StepExecution(e0)
  <2>1. pc'[e0] \in Walking
    BY <1>1, <1>8 DEF StepExecution, ReadCached, ReadFresh, RowGone,
         MarkRunning, StepStarted, ActionRefused, InvokeReturns, InvokeRaises,
         PersistSuccess, PersistFailure
  <2> QED
    BY <2>1
<1>9. CASE ReadApproval(e0)
  <2>1. UNCHANGED step /\ run = "FAILED"
    BY <1>9 DEF ReadApproval
  <2> QED
    BY <1>4, <2>1
<1>10. CASE RequestApproval(e0) \/ RejectApproval(e0) \/ GrantApproval(e0)
               \/ Begin(e0) \/ Visit(e0) \/ Retry(e0) \/ Advance(e0)
               \/ ReachEnd(e0) \/ GateRepairs(e0) \/ SucceedRun(e0)
  BY <1>1, <1>10 DEF RequestApproval, RejectApproval, GrantApproval, Begin,
       Visit, Retry, Advance, ReachEnd, GateRepairs, SucceedRun
<1>11. CASE Abort(e0) \/ GateFailsRun(e0) \/ RejectOutputs(e0) \/ Report(e0)
               \/ Cleanup(e0)
  <2>1. UNCHANGED step /\ NoneInFlight
    BY <1>1, <1>11 DEF Abort, GateFailsRun, RejectOutputs, Report, Cleanup,
         FailRun
  <2> QED
    BY <1>4, <2>1
<1>12. ASSUME NEW o \in Operators, NEW s \in StepIds, NEW d \in Decisions,
              CheckPending(o, s, d) \/ WriteDecision(o, s, d)
       PROVE  MachineFailed' \/ NoneInFlight'
  <2>1. UNCHANGED step /\ run = "FAILED"
    BY <1>12 DEF CheckPending, WriteDecision
  <2> QED
    BY <1>4, <2>1
<1>13. CASE UNCHANGED vars
  BY <1>4, <1>13 DEF vars
<1> QED
  BY <1>5, <1>6, <1>7, <1>8, <1>9, <1>10, <1>11, <1>12, <1>13
     DEF Next, EngineStep, ApprovalExecution, Walk

\* The two parts of QuietInv together.
LEMMA QuietInvStep ==
    ASSUME NEW e0, Engines = {e0}, StatusInv, RequestedInv, FailedInv,
           QuietInv, [Next]_vars
    PROVE  QuietInv'
  BY FlightStep, EndsQuiet DEF QuietInv

\* Driven by one engine at a time, a run that is SUCCEEDED leaves no step
\* RUNNING or in RETRY_WAIT, and a FAILED one does only after a machine
\* activity of it has failed.
THEOREM TerminalIsQuiet ==
    ASSUME NEW CONSTANT e0, Engines = {e0}
    PROVE  Spec => []TerminalRunIsQuiet
<1>1. Init => RequestedInv /\ FailedInv /\ QuietInv
  BY DEF Init, RequestedInv, FailedInv, QuietInv, InFlight, AtStep, AtRunStep,
         OnWalk, Walking
<1>2. StatusInv /\ RequestedInv /\ FailedInv /\ QuietInv /\ [Next]_vars =>
         StatusInv' /\ RequestedInv' /\ FailedInv' /\ QuietInv'
  <2>1. StatusInv => TypeInv
    BY DEF StatusInv, SoleInv
  <2> QED
    BY <2>1, StatusInvStep, RequestedInvStep, FailedInvStep, QuietInvStep
<1>3. FailedInv /\ QuietInv => TerminalRunIsQuiet
  <2> SUFFICES ASSUME FailedInv, QuietInv, NEW s \in StepIds, InFlight(s)
               PROVE  /\ run # "SUCCEEDED"
                      /\ run = "FAILED" => MachineFailed
    BY DEF TerminalRunIsQuiet, MachineFailed
  <2>1. run # "SUCCEEDED"
    BY DEF QuietInv
  <2>2. ASSUME run = "FAILED" PROVE MachineFailed
    BY <2>2 DEF QuietInv, FailedInv, FailedIn, MachineFailed
  <2> QED
    BY <2>1, <2>2
<1> QED
  BY <1>1, <1>2, <1>3, InitStatusInv, PTL DEF Spec

-----------------------------------------------------------------------------
(* The repair budget *)

\* The workflows the next theorem is about: no gate is attempted again after an
\* exception.  The engine retries a gate like any other node, and a gate that
\* is retried can give a run a fresh repair budget (MCGateRetry).
GatesAreNotRetried == \A n \in Nodes : Kind[n] = "gate" => MaxRetries[n] = 0

Verdicts == {s \in StepIds : Kind[s[1]] = "gate" /\ step[s] = "SUCCEEDED"}
Fails(s) == output[s] \in {"failed", "terminal"}

\* Where the walk goes from a verdict that does not end the run.
AfterVerdict(s) == IF output[s] \in Passing THEN NextNode[s[1]]
                                            ELSE OnFail[s[1]]

\* The walk gets from m to n along "next" with no gate on the way.
FollowsWork(P) == \A n \in P : Kind[n] # "gate" /\ NextNode[n] # NoNode =>
                      NextNode[n] \in P
Leads(m, n) == /\ {m, n} \subseteq Nodes
               /\ \A P \in SUBSET Nodes : m \in P /\ FollowsWork(P) => n \in P

\* q lists the recorded verdicts in the order in which a walk meets them: each
\* gate's attempts in turn, and each verdict leading to the gate of the next.
From(q, i) == IF i = 0 THEN Start ELSE AfterVerdict(q[i])
InOrder(k, q) ==
    /\ \A i \in 1..k : q[i] \in Verdicts
    /\ \A s \in Verdicts : \E i \in 1..k : q[i] = s
    /\ \A i, j \in 1..k : q[i] = q[j] => i = j
    /\ \A i \in 1..k : \A a \in 1..(q[i][2] - 1) :
           \E j \in 1..(i - 1) : q[j] = <<q[i][1], a>>
    /\ \A i \in 1..k : Leads(From(q, i - 1), q[i][1])

\* The verdicts the walk of e has acted on.
Current(e) == IF pc[e] \in AtStep THEN {StepOf(e)} ELSE {}
Taken(e) == {s \in Verdicts : s[2] <= attempts[e][s[1]]} \ Current(e)

\* A walk, also one that replays the verdicts of earlier walks, has acted on
\* the first i of them and is on its way to the next.
Meets(e, k, q, i) ==
    /\ \A j \in 1..k : q[j] \in Taken(e) <=> j <= i
    /\ pc[e] = "finish" => i = k
    /\ pc[e] # "finish" => Leads(From(q, i), node[e])
    /\ pc[e] # "finish" /\ i < k => Leads(node[e], q[i + 1][1])

Repaired(e) ==
    /\ \A g \in Nodes : Kind[g] = "gate" =>
           \A a \in 1..attempts[e][g] : <<g, a>> \in Verdicts \union Current(e)
    /\ repairs[e] = Cardinality({s \in Taken(e) : Fails(s)})
    /\ repairs[e] <= MaxRepairs

OutputInv ==
    /\ \A s \in StepIds : IF step[s] = "SUCCEEDED"
                          THEN output[s] \in OutputsOf(s[1])
                          ELSE output[s] = "none"
    /\ \A e \in Engines :
          /\ pc[e] = "succeed" => val[e] \in OutputsOf(node[e])
          /\ pc[e] = "advance" => /\ step[StepOf(e)] = "SUCCEEDED"
                                  /\ output[StepOf(e)] = val[e]
          /\ pc[e] \in {"approval", "grant"} => Kind[node[e]] = "approval"

\* The replay spends the budget the earlier walks have spent.
RepairInv ==
    /\ IsFiniteSet(Verdicts)
    /\ \A e \in Engines : OnWalk(e) => Repaired(e)
    /\ \E k \in Nat : \E q \in [1..k -> StepIds] :
          /\ InOrder(k, q)
          /\ \A e \in Engines : OnWalk(e) => \E i \in 0..k : Meets(e, k, q, i)
    /\ run = "SUCCEEDED" =>
          Cardinality({s \in StepIds : Fails(s)}) <= MaxRepairs

\* An output is written together with SUCCEEDED, and never deleted.
LEMMA OutputInvStep ==
    ASSUME NEW e0, Engines = {e0}, StatusInv, OutputInv, [Next]_vars
    PROVE  OutputInv'
<1> USE DEF Goto, Hold, SetStep, rows, walk, env
<1> DEFINE R == \A s \in StepIds : IF step[s] = "SUCCEEDED"
                                   THEN output[s] \in OutputsOf(s[1])
                                   ELSE output[s] = "none"
           Q == /\ pc[e0] = "succeed" => val[e0] \in OutputsOf(node[e0])
                /\ pc[e0] = "advance" => /\ step[StepOf(e0)] = "SUCCEEDED"
                                         /\ output[StepOf(e0)] = val[e0]
                /\ pc[e0] \in {"approval", "grant"} =>
                      Kind[node[e0]] = "approval"
<1>1. /\ e0 \in Engines
      /\ pc \in [Engines -> Locations]
      /\ node \in [Engines -> Nodes]
      /\ val \in [Engines -> Outputs \union FailureClasses \union Results]
      /\ step \in [StepIds -> StepStatuses]
      /\ output \in [StepIds -> Outputs]
      /\ pc[e0] \in AtStep => StepOf(e0) \in StepIds
      /\ ReadIsCurrent(e0)
  BY StepOfType DEF StatusInv, SoleInv, TypeInv, TypeOK
<1>2. R /\ Q
  BY <1>1 DEF OutputInv
<1>3. R' /\ Q'
  <2> USE DEF AtStep
  <2>1. CASE CreateRun(e0) \/ CreateWorktree(e0) \/ ResumeScan(e0)
                 \/ ResumeResetRaises(e0) \/ Crash(e0) \/ CallRaises(e0)
    BY <1>1, <1>2, <2>1 DEF CreateRun, CreateWorktree, ResumeScan,
         ResumeResetRaises, Crash, CallRaises
  <2>2. CASE ResumeReset(e0)
    BY <1>1, <1>2, <2>2 DEF ResumeReset, Doomed, ReadIsCurrent
  <2>3. CASE ReadCached(e0)
    BY <1>1, <1>2, <2>3 DEF ReadCached, Cached, StepOf
  <2>4. CASE ReadFresh(e0) \/ RowGone(e0) \/ StepStarted(e0)
                 \/ InvokeReturns(e0) \/ InvokeRaises(e0) \/ ActionRefused(e0)
    BY <1>1, <1>2, <2>4 DEF ReadFresh, RowGone, StepStarted, InvokeReturns,
         InvokeRaises, ActionRefused
  <2>5. CASE MarkRunning(e0)
    BY <1>1, <1>2, <2>5 DEF MarkRunning, ReadIsCurrent, Executing, HasRow
  <2>6. CASE PersistSuccess(e0)
    <3>1. StepOf(e0) \in StepIds /\ StepOf(e0)[1] = node[e0]
      BY <1>1, <2>6 DEF PersistSuccess, StepOf
    <3>2. val[e0] \in OutputsOf(node[e0]) /\ UNCHANGED <<node, attempts, val>>
      BY <1>2, <2>6 DEF PersistSuccess
    <3>3. R'
      BY <1>1, <1>2, <2>6, <3>1, <3>2 DEF PersistSuccess
    <3>4. Q'
      BY <1>1, <1>2, <2>6, <3>1, <3>2 DEF PersistSuccess, StepOf
    <3> QED
      BY <3>3, <3>4
  <2>7. CASE PersistFailure(e0)
    BY <1>1, <1>2, <2>7 DEF PersistFailure, ReadIsCurrent, Executing
  <2>8. CASE ReadApproval(e0)
    <3>1. approval[StepOf(e0)] \in {"none", "pending"} \union Decisions
      BY <1>1, <2>8 DEF ReadApproval, StatusInv, SoleInv, TypeInv, TypeOK,
                        Decisions
    <3> QED
      BY <1>1, <1>2, <2>8, <3>1 DEF ReadApproval, ApprovalBranch, Decisions
  <2>9. CASE RequestApproval(e0) \/ RejectApproval(e0)
    BY <1>1, <1>2, <2>9 DEF RequestApproval, RejectApproval, ReadIsCurrent,
         Executing
  <2>10. CASE GrantApproval(e0)
    <3>1. /\ StepOf(e0) \in StepIds
          /\ StepOf(e0)[1] = node[e0]
          /\ Kind[node[e0]] = "approval"
      BY <1>1, <1>2, <2>10 DEF GrantApproval, StepOf
    <3>2. R'
      BY <1>1, <1>2, <2>10, <3>1 DEF GrantApproval, OutputsOf
    <3>3. Q'
      BY <1>1, <1>2, <2>10, <3>1 DEF GrantApproval, StepOf
    <3> QED
      BY <3>2, <3>3
  <2>11. CASE Begin(e0)
    BY <1>1, <1>2, <2>11 DEF Begin
  <2>12. CASE Visit(e0)
    <3>1. R'
      BY <1>1, <1>2, <2>12 DEF Visit, HasRow
    <3>2. Q'
      BY <1>1, <1>2, <2>12 DEF Visit
    <3> QED
      BY <3>1, <3>2
  <2>13. CASE Retry(e0)
    <3>1. R'
      BY <1>1, <1>2, <2>13 DEF Retry, HasRow
    <3>2. Q'
      BY <1>1, <1>2, <2>13 DEF Retry
    <3> QED
      BY <3>1, <3>2
  <2>14. CASE Advance(e0) \/ GateRepairs(e0) \/ ReachEnd(e0) \/ Report(e0)
                  \/ Cleanup(e0)
    BY <1>1, <1>2, <2>14 DEF Advance, GateRepairs, ReachEnd, Report, Cleanup
  <2>15. CASE Abort(e0) \/ GateFailsRun(e0) \/ RejectOutputs(e0)
                  \/ SucceedRun(e0)
    BY <1>1, <1>2, <2>15 DEF Abort, GateFailsRun, RejectOutputs, SucceedRun,
         FailRun
  <2>16. ASSUME NEW o \in Operators, NEW s \in StepIds, NEW d \in Decisions,
                CheckPending(o, s, d) \/ WriteDecision(o, s, d)
         PROVE  R' /\ Q'
    BY <1>2, <2>16 DEF CheckPending, WriteDecision, StepOf
  <2>17. CASE UNCHANGED vars
    BY <1>2, <2>17 DEF vars, StepOf
  <2> QED
    BY <2>1, <2>2, <2>3, <2>4, <2>5, <2>6, <2>7, <2>8, <2>9, <2>10, <2>11,
       <2>12, <2>13, <2>14, <2>15, <2>16, <2>17
       DEF Next, EngineStep, StepExecution, ApprovalExecution, Walk
<1> QED
  BY <1>1, <1>3 DEF OutputInv

\* The walk is where it is.
LEMMA LeadsToSelf == \A n \in Nodes : Leads(n, n)
  BY DEF Leads

\* The walk follows "next" from a node that is no gate.
LEMMA LeadsOn ==
    ASSUME NEW m, NEW n \in Nodes, Leads(m, n), Kind[n] # "gate",
           NextNode[n] # NoNode
    PROVE  Leads(m, NextNode[n])
  BY GraphAssumption DEF Leads, FollowsWork

\* On the way to a gate the walk cannot end before it.
LEMMA LeadsFrom ==
    ASSUME NEW n, NEW g, Leads(n, g), Kind[g] = "gate", Kind[n] # "gate"
    PROVE  NextNode[n] # NoNode /\ Leads(NextNode[n], g)
<1>1. n \in Nodes /\ g \in Nodes
  BY DEF Leads
<1>2. NextNode[n] # NoNode
  <2>1. SUFFICES ASSUME NextNode[n] = NoNode PROVE FALSE
    OBVIOUS
  <2>2. {n} \in SUBSET Nodes /\ n \in {n} /\ FollowsWork({n})
    BY <1>1, <2>1 DEF FollowsWork
  <2>3. g \in {n}
    BY <2>2 DEF Leads
  <2> QED
    BY <2>3
<1>3. ASSUME NEW P \in SUBSET Nodes, NextNode[n] \in P, FollowsWork(P)
      PROVE  g \in P
  <2>1. P \union {n} \in SUBSET Nodes /\ FollowsWork(P \union {n})
    BY <1>1, <1>3 DEF FollowsWork
  <2>2. g \in P \union {n}
    BY <2>1 DEF Leads
  <2> QED
    BY <2>2
<1> QED
  BY <1>1, <1>2, <1>3, GraphAssumption DEF Leads

\* The walk does not get past a gate without a verdict.
LEMMA LeadsAtGate ==
    ASSUME NEW n, NEW m, Leads(n, m), Kind[n] = "gate"
    PROVE  m = n
<1>1. {n} \in SUBSET Nodes /\ n \in {n} /\ FollowsWork({n})
  BY DEF FollowsWork, Leads
<1>2. m \in {n}
  BY <1>1 DEF Leads
<1> QED
  BY <1>2

\* A failing verdict is a recorded output of a gate's step.
LEMMA FailsAreVerdicts ==
    ASSUME OutputInv
    PROVE  \A s \in StepIds : Fails(s) => s \in Verdicts
  BY DEF OutputInv, Fails, Verdicts, OutputsOf

\* Only a gate that returns a verdict adds one.
SameVerdicts ==
    /\ Verdicts' = Verdicts
    /\ \A s \in Verdicts : output'[s] = output[s]
    /\ \A s \in StepIds : Fails(s)' <=> Fails(s)

\* All but the success of a gate leaves the recorded verdicts as they are.
LEMMA VerdictsStay ==
    ASSUME NEW e0, Engines = {e0}, StatusInv, OutputInv, OutputInv',
           [Next]_vars, ~(PersistSuccess(e0) /\ Kind[node[e0]] = "gate")
    PROVE  SameVerdicts
<1> USE DEF SetStep
<1>1. KeepsSucceeded
  BY SoleEngineKeepsSucceeded DEF StatusInv
<1>2. /\ e0 \in Engines
      /\ step \in [StepIds -> StepStatuses]
      /\ pc[e0] \in AtStep => StepOf(e0) \in StepIds
  BY StepOfType DEF StatusInv, SoleInv, TypeInv, TypeOK
<1>3. \A s \in StepIds : step'[s] = "SUCCEEDED" /\ step[s] # "SUCCEEDED" =>
          Kind[s[1]] # "gate"
  <2>1. CASE UNCHANGED <<step, output, refs>>
    BY <2>1
  <2>2. CASE ResumeReset(e0) \/ Visit(e0) \/ Retry(e0) \/ MarkRunning(e0)
                 \/ StepStarted(e0) \/ ActionRefused(e0) \/ PersistFailure(e0)
                 \/ RequestApproval(e0) \/ RejectApproval(e0)
    BY <1>2, <2>2 DEF ResumeReset, Visit, Retry, MarkRunning, StepStarted,
         ActionRefused, PersistFailure, RequestApproval, RejectApproval
  <2>3. CASE PersistSuccess(e0)
    BY <1>2, <2>3 DEF PersistSuccess, StepOf
  <2>4. CASE GrantApproval(e0)
    BY <1>2, <2>4 DEF GrantApproval, StepOf, OutputInv
  <2> QED
    BY <1>2, <2>1, <2>2, <2>3, <2>4, RowWriters DEF WritesRows
<1>4. Verdicts' = Verdicts
  BY <1>1, <1>3 DEF Verdicts, KeepsSucceeded
<1>5. \A s \in Verdicts : output'[s] = output[s]
  BY <1>1 DEF Verdicts, KeepsSucceeded
<1>6. \A s \in StepIds : Fails(s)' => s \in Verdicts
  BY <1>4 DEF OutputInv, Fails, Verdicts, OutputsOf
<1>7. \A s \in StepIds : Fails(s)' <=> Fails(s)
  BY <1>5, <1>6, FailsAreVerdicts DEF Fails
<1> QED
  BY <1>4, <1>5, <1>7 DEF SameVerdicts

\* At a gate the walk answers from the next recorded verdict, and from a new
\* one only when it has met them all.
LEMMA NextVerdict ==
    ASSUME TypeInv, NEW e \in Engines, pc[e] \in AtStep,
           Kind[node[e]] = "gate",
           NEW k \in Nat, NEW q \in [1..k -> StepIds], InOrder(k, q),
           NEW i \in 0..k, Meets(e, k, q, i)
    PROVE  IF StepOf(e) \in Verdicts THEN i < k /\ q[i + 1] = StepOf(e)
                                     ELSE i = k
<1>1. /\ node[e] \in Nodes
      /\ attempts[e] \in [Nodes -> 0..MaxAttempts]
      /\ attempts[e][node[e]] \in 1..MaxAttempts
      /\ MaxAttempts \in Nat
      /\ StepOf(e) = <<node[e], attempts[e][node[e]]>>
      /\ StepOf(e) \in StepIds
      /\ Current(e) = {StepOf(e)}
      /\ pc[e] # "finish"
  BY BoundAssumption, StepOfType
     DEF TypeInv, TypeOK, LocalOK, StepOf, Current, AtStep
<1>2. StepOf(e) \notin Taken(e)
  BY <1>1 DEF Taken
<1>3. ASSUME i < k PROVE q[i + 1] = StepOf(e) /\ StepOf(e) \in Verdicts
  <2>1. /\ i + 1 \in 1..k
        /\ q[i + 1] \in Verdicts
        /\ q[i + 1] \in StepIds
        /\ q[i + 1] \notin Taken(e)
        /\ q[i + 1][1] = node[e]
    <3>1. i + 1 \in 1..k /\ ~(i + 1 <= i)
      BY <1>3
    <3>2. q[i + 1] \in Verdicts /\ q[i + 1] \notin Taken(e)
      BY <3>1 DEF InOrder, Meets
    <3>3. Leads(node[e], q[i + 1][1])
      BY <1>1, <1>3 DEF Meets
    <3> QED
      BY <3>1, <3>2, <3>3, LeadsAtGate DEF Verdicts
  <2>2. SUFFICES ASSUME q[i + 1] # StepOf(e) PROVE FALSE
    BY <2>1
  <2>3. /\ q[i + 1][2] \in 1..MaxAttempts
        /\ q[i + 1] = <<q[i + 1][1], q[i + 1][2]>>
    BY <2>1 DEF StepIds
  <2>4. ~(q[i + 1][2] <= attempts[e][node[e]])
    BY <1>1, <2>1, <2>2 DEF Taken
  <2>5. attempts[e][node[e]] \in 1..(q[i + 1][2] - 1)
    BY <1>1, <2>3, <2>4
  <2>6. PICK j \in 1..(i + 1 - 1) : q[j] = <<q[i + 1][1], attempts[e][node[e]]>>
    <3>1. \A m \in 1..k : \A a \in 1..(q[m][2] - 1) :
              \E j \in 1..(m - 1) : q[j] = <<q[m][1], a>>
      BY DEF InOrder
    <3>2. PICK m \in 1..k : m = i + 1
      BY <2>1
    <3>3. attempts[e][node[e]] \in 1..(q[m][2] - 1)
      BY <2>5, <3>2
    <3>4. PICK j \in 1..(m - 1) : q[j] = <<q[m][1], attempts[e][node[e]]>>
      BY <3>1, <3>3
    <3> QED
      BY <3>2, <3>4
  <2>7. j \in 1..k /\ j <= i
    BY <2>6
  <2>8. q[j] = StepOf(e) /\ q[j] \in Taken(e)
    BY <1>1, <2>1, <2>6, <2>7 DEF Meets
  <2> QED
    BY <1>2, <2>8
<1>4. ASSUME StepOf(e) \in Verdicts PROVE i < k
  <2>1. PICK j \in 1..k : q[j] = StepOf(e)
    BY <1>4 DEF InOrder
  <2>2. ~(j <= i)
    BY <1>2, <2>1 DEF Meets
  <2> QED
    BY <2>1, <2>2
<1> QED
  BY <1>3, <1>4

\* While the recorded verdicts stay, so does their order.
LEMMA OrderStays ==
    ASSUME SameVerdicts, NEW k \in Nat, NEW q \in [1..k -> StepIds],
           InOrder(k, q)
    PROVE  InOrder(k, q)' /\ \A i \in 0..k : From(q, i)' = From(q, i)
<1>1. \A i \in 0..k : From(q, i)' = From(q, i)
  BY DEF From, AfterVerdict, InOrder, SameVerdicts
<1>2. \A i \in 1..k : i - 1 \in 0..k
  OBVIOUS
<1>3. \A i \in 1..k : Leads(From(q, i - 1), q[i][1])'
  BY <1>1, <1>2 DEF InOrder, Leads, FollowsWork
<1> QED
  BY <1>1, <1>3 DEF InOrder, SameVerdicts

\* What the walk of e has done and where it stands, given the order q.
OnTrack(e, k, q) ==
    OnWalk(e) => Repaired(e) /\ \E i \in 0..k : Meets(e, k, q, i)

\* A step of the walk that acts on no verdict leaves what it has taken alone.
LEMMA TrackStays ==
    ASSUME SameVerdicts, NEW e \in Engines,
           NEW k \in Nat, NEW q \in [1..k -> StepIds], InOrder(k, q),
           OnTrack(e, k, q), OnWalk(e),
           pc[e] = "finish" <=> pc'[e] = "finish",
           node'[e] = node[e], repairs'[e] = repairs[e],
           Taken(e)' = Taken(e),
           \A g \in Nodes : Kind[g] = "gate" =>
              \A a \in 1..attempts'[e][g] : <<g, a>> \in Verdicts \union Current(e)'
    PROVE  OnTrack(e, k, q)'
<1>1. PICK i \in 0..k : Meets(e, k, q, i)
  BY DEF OnTrack
<1>2. InOrder(k, q)' /\ From(q, i)' = From(q, i)
  BY OrderStays
<1>3. Meets(e, k, q, i)'
  BY <1>1, <1>2 DEF Meets, Leads, FollowsWork
<1>4. \A s \in Taken(e) : Fails(s)' <=> Fails(s)
  BY DEF SameVerdicts, Taken, Verdicts
<1>5. {s \in Taken(e) : Fails(s)}' = {s \in Taken(e) : Fails(s)}
  BY <1>4
<1>6. Repaired(e)'
  BY <1>5 DEF OnTrack, Repaired, SameVerdicts
<1> QED
  BY <1>3, <1>6 DEF OnTrack

\* Acting on the outcome of a step: of a gate's, the walk takes the verdict that
\* is next in the order; of another node's, it takes none.
LEMMA ActsOnOutcome ==
    ASSUME NEW e \in Engines, TypeInv, OutputInv, SameVerdicts,
           IsFiniteSet(Verdicts),
           NEW k \in Nat, NEW q \in [1..k -> StepIds], InOrder(k, q),
           OnTrack(e, k, q),
           Advance(e) \/ GateRepairs(e) \/ ReachEnd(e)
    PROVE  OnTrack(e, k, q)'
<1>1. /\ pc[e] = "advance"
      /\ pc'[e] \in {"visit", "finish"}
      /\ pc'[e] = "finish" => NextNode[node[e]] = NoNode /\ val[e] \in Passing
      /\ node[e] \in Nodes
      /\ attempts[e] \in [Nodes -> 0..MaxAttempts]
      /\ StepOf(e) \in StepIds
      /\ StepOf(e) = <<node[e], attempts[e][node[e]]>>
      /\ step[StepOf(e)] = "SUCCEEDED"
      /\ output[StepOf(e)] = val[e]
      /\ val[e] \in OutputsOf(node[e])
      /\ attempts' = attempts
      /\ repairs[e] \in Nat
      /\ MaxRepairs \in Nat
  <2>1. pc[e] = "advance" /\ pc[e] \in AtStep
    BY DEF Advance, GateRepairs, ReachEnd, AtStep
  <2>2. StepOf(e) \in StepIds
    BY <2>1, StepOfType
  <2>3. step[StepOf(e)] = "SUCCEEDED" /\ output[StepOf(e)] = val[e]
    BY <2>1 DEF OutputInv
  <2>4. output[StepOf(e)] \in OutputsOf(node[e])
    BY <2>2, <2>3 DEF OutputInv, StepOf
  <2> QED
    BY <2>1, <2>2, <2>3, <2>4, BoundAssumption
       DEF Advance, GateRepairs, ReachEnd, Goto, TypeInv, TypeOK, StepOf, walk
<1>2. PICK i \in 0..k : Meets(e, k, q, i)
  BY <1>1 DEF OnTrack, OnWalk, Walking
<1>3. Repaired(e)
  BY <1>1 DEF OnTrack, OnWalk, Walking
<1>4. Current(e) = {StepOf(e)} /\ Current(e)' = {}
  BY <1>1 DEF Current, AtStep
<1>5. /\ Taken(e)' = {s \in Verdicts : s[2] <= attempts[e][s[1]]}
      /\ Taken(e) = {s \in Verdicts : s[2] <= attempts[e][s[1]]} \ {StepOf(e)}
  BY <1>1, <1>4 DEF Taken, SameVerdicts
<1>6. \A g \in Nodes : Kind[g] = "gate" => \A a \in 1..attempts[e][g] :
          <<g, a>> \in Verdicts
  BY <1>1, <1>3, <1>4 DEF Repaired, Verdicts, StepOf
<1>7. /\ IsFiniteSet(Taken(e))
      /\ IsFiniteSet({s \in Taken(e) : Fails(s)})
      /\ Cardinality({s \in Taken(e) : Fails(s)}) \in Nat
  BY FS_Subset, FS_CardinalityType DEF Taken
<1>8. \A j \in 0..k : From(q, j)' = From(q, j)
  BY OrderStays
<1>9. CASE Kind[node[e]] # "gate"
  <2>1. val[e] = "ok" /\ val[e] \in Passing
    BY <1>1, <1>9 DEF OutputsOf, Passing
  <2>2. StepOf(e) \notin Verdicts
    BY <1>1, <1>9 DEF Verdicts
  <2>3. Taken(e)' = Taken(e)
    BY <1>5, <2>2
  <2>4. repairs'[e] = repairs[e]
    BY <2>1 DEF Advance, ReachEnd, GateRepairs, walk
  <2>5. {s \in Taken(e) : Fails(s)}' = {s \in Taken(e) : Fails(s)}
    BY <2>3 DEF SameVerdicts, Taken, Verdicts
  <2>6. Repaired(e)'
    BY <1>1, <1>3, <1>6, <2>4, <2>5 DEF Repaired, SameVerdicts
  <2>7. CASE pc'[e] = "visit"
    <3>1. /\ NextNode[node[e]] # NoNode
          /\ node'[e] = NextNode[node[e]]
      BY <1>1, <2>1, <2>7
         DEF Advance, GateRepairs, ReachEnd, TypeInv, TypeOK, Goto
    <3>2. Leads(From(q, i), node'[e])
      BY <1>1, <1>2, <1>9, <3>1, LeadsOn DEF Meets
    <3>3. ASSUME i < k PROVE Leads(node'[e], q[i + 1][1])
      <4>1. i + 1 \in 1..k /\ Kind[q[i + 1][1]] = "gate"
        BY <3>3 DEF InOrder, Verdicts
      <4>2. Leads(node[e], q[i + 1][1])
        BY <1>1, <1>2, <3>3 DEF Meets
      <4> QED
        BY <1>9, <3>1, <4>1, <4>2, LeadsFrom
    <3>4. Leads(From(q, i), node[e])' /\ (i < k => Leads(node[e], q[i + 1][1])')
      BY <1>8, <3>2, <3>3 DEF Leads, FollowsWork
    <3>5. Meets(e, k, q, i)'
      BY <1>2, <2>3, <2>7, <3>4 DEF Meets
    <3> QED
      BY <2>6, <3>5 DEF OnTrack
  <2>8. CASE pc'[e] = "finish"
    <3>1. ASSUME i < k PROVE FALSE
      <4>1. i + 1 \in 1..k /\ Kind[q[i + 1][1]] = "gate"
        BY <3>1 DEF InOrder, Verdicts
      <4>2. Leads(node[e], q[i + 1][1])
        BY <1>1, <1>2, <3>1 DEF Meets
      <4> QED
        BY <1>1, <1>9, <2>8, <4>1, <4>2, LeadsFrom
    <3>2. Meets(e, k, q, i)'
      BY <1>2, <2>3, <2>8, <3>1 DEF Meets
    <3> QED
      BY <2>6, <3>2 DEF OnTrack
  <2> QED
    BY <1>1, <2>7, <2>8
<1>10. CASE Kind[node[e]] = "gate"
  <2>1. StepOf(e) \in Verdicts
    BY <1>1, <1>10 DEF Verdicts
  <2>2. i < k /\ q[i + 1] = StepOf(e)
    BY <1>1, <1>2, <1>10, <2>1, NextVerdict DEF AtStep
  <2>3. Taken(e)' = Taken(e) \union {StepOf(e)} /\ StepOf(e) \notin Taken(e)
    <3>1. StepOf(e)[2] <= attempts[e][StepOf(e)[1]]
      BY <1>1
    <3>2. StepOf(e) \in {s \in Verdicts : s[2] <= attempts[e][s[1]]}
      BY <2>1, <3>1
    <3> QED
      BY <1>5, <3>2
  <2>4. i + 1 \in 0..k /\ i + 1 \in 1..k
    BY <2>2
  <2>5. \A j \in 1..k : q[j] \in Taken(e)' <=> j <= i + 1
    <3> SUFFICES ASSUME NEW j \in 1..k PROVE q[j] \in Taken(e)' <=> j <= i + 1
      OBVIOUS
    <3>1. q[j] \in Taken(e) <=> j <= i
      BY <1>2 DEF Meets
    <3>2. q[j] = q[i + 1] <=> j = i + 1
      BY <2>4 DEF InOrder
    <3> QED
      BY <2>2, <2>3, <3>1, <3>2
  <2>6. Repaired(e)'
    <3>1. \A s \in StepIds : Fails(s)' <=> Fails(s)
      BY DEF SameVerdicts
    <3>2. CASE val[e] \in Passing
      <4>1. ~Fails(StepOf(e)) /\ repairs'[e] = repairs[e]
        BY <1>1, <3>2
           DEF Fails, Passing, Advance, ReachEnd, GateRepairs, walk
      <4>2. {s \in Taken(e) : Fails(s)}' = {s \in Taken(e) : Fails(s)}
        BY <2>3, <3>1, <4>1 DEF Taken, Verdicts
      <4> QED
        BY <1>1, <1>3, <1>6, <4>1, <4>2 DEF Repaired, SameVerdicts
    <3>3. CASE val[e] \notin Passing
      <4>1. GateRepairs(e)
        BY <3>3 DEF Advance, ReachEnd
      <4>2. /\ Fails(StepOf(e))
            /\ repairs'[e] = repairs[e] + 1
            /\ ~(repairs[e] >= MaxRepairs)
        BY <1>1, <1>10, <3>3, <4>1 DEF Fails, Passing, OutputsOf, GateRepairs,
             GateEndsRun, GateOutOfBudget, TypeInv, TypeOK
      <4>3. {s \in Taken(e) : Fails(s)}'
               = {s \in Taken(e) : Fails(s)} \union {StepOf(e)}
        BY <1>1, <2>3, <3>1, <4>2 DEF Taken, Verdicts
      <4>4. Cardinality({s \in Taken(e) : Fails(s)}') = repairs'[e]
        BY <1>3, <1>7, <2>3, <4>2, <4>3, FS_AddElement DEF Repaired
      <4> QED
        BY <1>1, <1>6, <4>2, <4>4 DEF Repaired, SameVerdicts
    <3> QED
      BY <3>2, <3>3
  <2>7. From(q, i + 1) = AfterVerdict(StepOf(e))
    BY <2>2, <2>4 DEF From
  <2>8. ASSUME i + 1 < k PROVE Leads(From(q, i + 1), q[i + 1 + 1][1])
    <3>1. PICK m \in 1..k : m = i + 1 + 1
      BY <2>8
    <3>2. Leads(From(q, m - 1), q[m][1]) /\ m - 1 = i + 1
      BY <3>1 DEF InOrder
    <3> QED
      BY <3>1, <3>2
  <2>9. CASE pc'[e] = "visit"
    <3>1. node'[e] = From(q, i + 1) /\ node'[e] \in Nodes
      BY <1>1, <2>7, <2>9, GraphAssumption DEF AfterVerdict, Advance, ReachEnd,
           GateRepairs, GateEndsRun, TypeInv, TypeOK, Goto, StepOf
    <3>2. /\ Leads(From(q, i + 1), node[e])'
          /\ i + 1 < k => Leads(node[e], q[i + 1 + 1][1])'
      BY <1>8, <2>4, <2>8, <3>1, LeadsToSelf DEF Leads, FollowsWork
    <3>3. Meets(e, k, q, i + 1)'
      BY <2>5, <2>9, <3>2 DEF Meets
    <3> QED
      BY <2>4, <2>6, <3>3 DEF OnTrack
  <2>10. CASE pc'[e] = "finish"
    <3>1. From(q, i + 1) = NoNode
      BY <1>1, <2>7, <2>10 DEF AfterVerdict
    <3>2. ~(i + 1 < k)
      BY <2>8, <3>1, GraphAssumption DEF Leads
    <3>3. Meets(e, k, q, i + 1)'
      BY <2>4, <2>5, <2>10, <3>2 DEF Meets
    <3> QED
      BY <2>4, <2>6, <3>3 DEF OnTrack
  <2> QED
    BY <1>1, <2>9, <2>10
<1> QED
  BY <1>9, <1>10

\* A walk begins at the start, with the whole order before it.
LEMMA BeginsOrder ==
    ASSUME NEW e \in Engines, TypeInv, SameVerdicts,
           NEW k \in Nat, NEW q \in [1..k -> StepIds], InOrder(k, q), Begin(e)
    PROVE  OnTrack(e, k, q)'
<1>1. /\ pc'[e] = "visit" /\ node'[e] = Start /\ repairs'[e] = 0
      /\ \A n \in Nodes : attempts'[e][n] = 0
      /\ MaxRepairs \in Nat
  BY BoundAssumption DEF Begin, Goto, TypeInv, TypeOK, ZeroAttempts
<1>2. Taken(e)' = {}
  BY <1>1 DEF Taken, Verdicts, StepIds
<1>3. Repaired(e)'
  <2>1. {s \in Taken(e) : Fails(s)}' = {}
    BY <1>2
  <2>2. \A g \in Nodes : 1..attempts'[e][g] = {}
    BY <1>1
  <2>3. Cardinality({s \in Taken(e) : Fails(s)})' = 0
    <3>1. Cardinality({}) = 0
      BY FS_EmptySet
    <3> QED
      BY <2>1, <3>1, Zenon
  <2> QED
    BY <1>1, <2>2, <2>3 DEF Repaired
<1>4. Meets(e, k, q, 0)'
  <2>1. \A j \in 1..k : q[j] \in Taken(e)' <=> j <= 0
    BY <1>2
  <2>2. Leads(From(q, 0), node[e])'
    BY <1>1, LeadsToSelf, GraphAssumption DEF From, Leads, FollowsWork
  <2>3. ASSUME 0 < k PROVE Leads(node[e], q[0 + 1][1])'
    <3>1. PICK m \in 1..k : m = 0 + 1
      BY <2>3
    <3>2. Leads(From(q, m - 1), q[m][1]) /\ m - 1 = 0
      BY <3>1 DEF InOrder
    <3> QED
      BY <1>1, <3>1, <3>2 DEF From, Leads, FollowsWork
  <2> QED
    BY <1>1, <2>1, <2>2, <2>3 DEF Meets
<1> QED
  BY <1>3, <1>4 DEF OnTrack

\* Between the visit of a node and the outcome of its step, and from a failed
\* attempt of a node that is retried to the next, no verdict is acted on.
LEMMA VisitsNode ==
    ASSUME NEW e \in Engines, TypeInv, SameVerdicts,
           NEW k \in Nat, NEW q \in [1..k -> StepIds], InOrder(k, q),
           OnTrack(e, k, q), Visit(e)
    PROVE  OnTrack(e, k, q)'
<1>1. /\ pc[e] = "visit" /\ pc'[e] \in {"approval", "read"}
      /\ node'[e] = node[e] /\ repairs'[e] = repairs[e]
      /\ node[e] \in Nodes
      /\ attempts[e] \in [Nodes -> 0..MaxAttempts]
      /\ attempts'[e] =
            [attempts[e] EXCEPT ![node[e]] = attempts[e][node[e]] + 1]
  BY DEF Visit, Goto, TypeInv, TypeOK
<1>2. /\ OnWalk(e) /\ Current(e) = {}
      /\ Current(e)' = {<<node[e], attempts[e][node[e]] + 1>>}
  BY <1>1 DEF OnWalk, Walking, Current, AtStep, StepOf
<1>3. Taken(e)' = Taken(e)
  <2>1. ASSUME NEW s \in Verdicts
        PROVE  s \in Taken(e)' <=> s \in Taken(e)
    <3>1. s[1] \in Nodes /\ s[2] \in Nat /\ s = <<s[1], s[2]>>
      BY DEF Verdicts, StepIds
    <3>2. CASE s[1] # node[e]
      BY <1>1, <1>2, <3>1, <3>2 DEF Taken, SameVerdicts
    <3>3. CASE s[1] = node[e]
      <4>1. s \in Current(e)' <=> s[2] = attempts[e][node[e]] + 1
        BY <1>2, <3>1, <3>3
      <4>2. attempts'[e][s[1]] = attempts[e][node[e]] + 1
        BY <1>1, <3>3
      <4> QED
        BY <1>1, <1>2, <3>1, <3>3, <4>1, <4>2 DEF Taken, SameVerdicts
    <3> QED
      BY <3>2, <3>3
  <2> QED
    BY <2>1 DEF Taken, SameVerdicts
<1>4. ASSUME NEW g \in Nodes, Kind[g] = "gate", NEW a \in 1..attempts'[e][g]
      PROVE  <<g, a>> \in Verdicts \union Current(e)'
  <2>1. CASE a \in 1..attempts[e][g]
    BY <1>2, <1>4, <2>1 DEF OnTrack, Repaired
  <2>2. CASE a \notin 1..attempts[e][g]
    <3>1. g = node[e] /\ a = attempts[e][node[e]] + 1
      BY <1>1, <1>4, <2>2
    <3> QED
      BY <1>2, <3>1
  <2> QED
    BY <2>1, <2>2
<1> QED
  BY <1>1, <1>2, <1>3, <1>4, TrackStays

\* Within one step no verdict is acted on.
LEMMA StaysAtStep ==
    ASSUME NEW e \in Engines, SameVerdicts,
           NEW k \in Nat, NEW q \in [1..k -> StepIds], InOrder(k, q),
           OnTrack(e, k, q), OnWalk(e),
           pc'[e] = pc[e] \/ {pc[e], pc'[e]} \subseteq AtStep,
           UNCHANGED <<node, attempts, repairs>>
    PROVE  OnTrack(e, k, q)'
<1>1. Current(e)' = Current(e)
  BY DEF Current, StepOf
<1>2. Taken(e)' = Taken(e)
  BY <1>1 DEF Taken, SameVerdicts
<1>3. \A g \in Nodes : Kind[g] = "gate" =>
          \A a \in 1..attempts'[e][g] : <<g, a>> \in Verdicts \union Current(e)'
  BY <1>1 DEF OnTrack, Repaired
<1>4. pc[e] = "finish" <=> pc'[e] = "finish"
  BY DEF AtStep
<1> QED
  BY <1>2, <1>3, <1>4, TrackStays

\* A retry is of a node that is no gate.
LEMMA RetriesNode ==
    ASSUME NEW e \in Engines, TypeInv, GatesAreNotRetried, SameVerdicts,
           NEW k \in Nat, NEW q \in [1..k -> StepIds], InOrder(k, q),
           OnTrack(e, k, q), Retry(e)
    PROVE  OnTrack(e, k, q)'
<1>1. /\ pc[e] = "raised" /\ pc'[e] = "visit"
      /\ UNCHANGED <<node, attempts, repairs>>
      /\ node[e] \in Nodes /\ retries[e] \in Nat
      /\ retries[e] < MaxRetries[node[e]]
  BY DEF Retry, MayRetry, Goto, TypeInv, TypeOK
<1>2. Kind[node[e]] # "gate"
  BY <1>1 DEF GatesAreNotRetried
<1>3. OnWalk(e) /\ Current(e) = {StepOf(e)} /\ Current(e)' = {}
  BY <1>1 DEF OnWalk, Walking, Current, AtStep
<1>4. StepOf(e) \notin Verdicts
  BY <1>2 DEF Verdicts, StepOf
<1>5. Taken(e)' = Taken(e)
  BY <1>1, <1>3, <1>4 DEF Taken, SameVerdicts
<1>6. \A g \in Nodes : Kind[g] = "gate" =>
          \A a \in 1..attempts'[e][g] : <<g, a>> \in Verdicts \union Current(e)'
  BY <1>1, <1>2, <1>3 DEF OnTrack, Repaired, StepOf
<1> QED
  BY <1>1, <1>3, <1>5, <1>6, TrackStays

\* A new verdict goes to the end of the order: its gate is the one the verdicts
\* before it lead to, and it is that gate's next attempt.
LEMMA AddsVerdict ==
    ASSUME NEW e \in Engines, TypeInv, ReadIsCurrent(e), OutputInv,
           IsFiniteSet(Verdicts),
           NEW k \in Nat, NEW q \in [1..k -> StepIds], InOrder(k, q),
           OnTrack(e, k, q), PersistSuccess(e), Kind[node[e]] = "gate"
    PROVE  /\ IsFiniteSet(Verdicts')
           /\ \E p \in [1..(k + 1) -> StepIds] :
                 InOrder(k + 1, p)' /\ OnTrack(e, k + 1, p)'
<1>1. /\ pc[e] = "succeed" /\ pc'[e] = "advance"
      /\ UNCHANGED <<node, attempts, repairs>>
      /\ node[e] \in Nodes
      /\ attempts[e] \in [Nodes -> 0..MaxAttempts]
      /\ attempts[e][node[e]] \in 1..MaxAttempts
      /\ MaxAttempts \in Nat
      /\ StepOf(e) \in StepIds
      /\ StepOf(e) = <<node[e], attempts[e][node[e]]>>
      /\ step[StepOf(e)] # "SUCCEEDED"
      /\ step \in [StepIds -> StepStatuses]
      /\ output \in [StepIds -> Outputs]
  BY BoundAssumption, StepOfType DEF PersistSuccess, Goto, TypeInv, TypeOK,
       LocalOK, AtStep, ReadIsCurrent, Executing, StepOf, walk
<1>2. /\ OnWalk(e) /\ Current(e) = {StepOf(e)} /\ Current(e)' = {StepOf(e)}
      /\ StepOf(e)' = StepOf(e)
  BY <1>1 DEF OnWalk, Walking, Current, AtStep, StepOf
<1>3. /\ StepOf(e) \notin Verdicts
      /\ Verdicts' = Verdicts \union {StepOf(e)}
      /\ \A s \in Verdicts : output'[s] = output[s]
  <2>1. StepOf(e) \notin Verdicts
    BY <1>1 DEF Verdicts
  <2>2. Kind[StepOf(e)[1]] = "gate"
    BY <1>1
  <2>3. /\ step' = [step EXCEPT ![StepOf(e)] = "SUCCEEDED"]
        /\ output' = [output EXCEPT ![StepOf(e)] = val[e]]
    BY DEF PersistSuccess, SetStep
  <2> HIDE DEF StepOf
  <2> QED
    BY <1>1, <2>1, <2>2, <2>3 DEF Verdicts
<1>4. IsFiniteSet(Verdicts')
  BY <1>3, FS_AddElement
<1>5. Meets(e, k, q, k)
  <2>1. PICK i \in 0..k : Meets(e, k, q, i)
    BY <1>2 DEF OnTrack
  <2>2. pc[e] \in AtStep
    BY <1>1 DEF AtStep
  <2>3. i = k
    BY <1>3, <2>1, <2>2, NextVerdict
  <2> QED
    BY <2>1, <2>3
<1>6. Repaired(e)
  BY <1>2 DEF OnTrack
<1>7. PICK p \in [1..(k + 1) -> StepIds] :
      /\ \A j \in 1..k : j \in 1..(k + 1) /\ p[j] = q[j]
      /\ k + 1 \in 1..(k + 1) /\ p[k + 1] = StepOf(e)
      /\ \A j \in 1..(k + 1) : j \in 1..k \/ j = k + 1
  <2> DEFINE f == [j \in 1..(k + 1) |-> IF j = k + 1 THEN StepOf(e) ELSE q[j]]
  <2>1. /\ f \in [1..(k + 1) -> StepIds]
        /\ \A j \in 1..k : j \in 1..(k + 1) /\ f[j] = q[j]
        /\ k + 1 \in 1..(k + 1) /\ f[k + 1] = StepOf(e)
        /\ \A j \in 1..(k + 1) : j \in 1..k \/ j = k + 1
    BY <1>1
  <2> QED
    BY <2>1
<1>8. Taken(e)' = Taken(e)
  BY <1>1, <1>2, <1>3 DEF Taken
<1>9. \A i \in 0..k : From(p, i)' = From(q, i)
  <2>1. \A i \in 1..k : output'[q[i]] = output[q[i]]
    BY <1>3 DEF InOrder
  <2> QED
    BY <1>7, <2>1 DEF From, AfterVerdict
<1>10. InOrder(k + 1, p)'
  <2>1. \A i \in 1..(k + 1) : p[i] \in Verdicts'
    BY <1>3, <1>7 DEF InOrder
  <2>2. \A s \in Verdicts' : \E i \in 1..(k + 1) : p[i] = s
    BY <1>3, <1>7 DEF InOrder
  <2>3. \A i, j \in 1..(k + 1) : p[i] = p[j] => i = j
    BY <1>3, <1>7 DEF InOrder
  <2>4. ASSUME NEW i \in 1..(k + 1), NEW a \in 1..(p[i][2] - 1)
        PROVE  \E j \in 1..(i - 1) : p[j] = <<p[i][1], a>>
    <3>1. CASE i \in 1..k
      <4>1. PICK j \in 1..(i - 1) : q[j] = <<q[i][1], a>>
        BY <1>7, <2>4, <3>1 DEF InOrder
      <4>2. j \in 1..k
        BY <3>1
      <4> QED
        BY <1>7, <3>1, <4>1, <4>2
    <3>2. CASE i = k + 1
      <4>1. a \in 1..attempts[e][node[e]] /\ a # attempts[e][node[e]]
        BY <1>1, <1>7, <2>4, <3>2
      <4>2. <<node[e], a>> \in Verdicts
        BY <1>1, <1>2, <1>6, <4>1 DEF Repaired
      <4>3. PICK j \in 1..k : q[j] = <<node[e], a>>
        BY <4>2 DEF InOrder
      <4>4. j \in 1..(i - 1) /\ p[j] = <<p[i][1], a>>
        BY <1>1, <1>7, <3>2, <4>3
      <4> QED
        BY <4>4
    <3> QED
      BY <1>7, <3>1, <3>2
  <2>5. ASSUME NEW i \in 1..(k + 1)
        PROVE  Leads(From(p, i - 1), p[i][1])'
    <3>1. CASE i \in 1..k
      <4>1. i - 1 \in 0..k /\ Leads(From(q, i - 1), q[i][1])
        BY <3>1 DEF InOrder
      <4> QED
        BY <1>7, <1>9, <3>1, <4>1 DEF Leads, FollowsWork
    <3>2. CASE i = k + 1
      <4>1. i - 1 = k /\ k \in 0..k /\ p[i][1] = node[e]
        BY <1>1, <1>7, <3>2
      <4>2. Leads(From(q, k), node[e])
        BY <1>1, <1>5 DEF Meets
      <4> QED
        BY <1>9, <4>1, <4>2 DEF Leads, FollowsWork
    <3> QED
      BY <1>7, <3>1, <3>2
  <2> QED
    BY <2>1, <2>2, <2>3, <2>4, <2>5 DEF InOrder
<1>11. Meets(e, k + 1, p, k)'
  <2>1. \A j \in 1..(k + 1) : p[j] \in Taken(e)' <=> j <= k
    <3>1. \A j \in 1..k : q[j] \in Taken(e) <=> j <= k
      BY <1>5 DEF Meets
    <3>2. StepOf(e) \notin Taken(e)
      BY <1>2 DEF Taken
    <3> QED
      BY <1>7, <1>8, <3>1, <3>2
  <2>2. Leads(From(p, k), node[e])'
    BY <1>1, <1>5, <1>9 DEF Meets, Leads, FollowsWork
  <2>3. Leads(node[e], p[k + 1][1])'
    BY <1>1, <1>7, LeadsToSelf DEF Leads, FollowsWork
  <2> QED
    BY <1>1, <2>1, <2>2, <2>3 DEF Meets
<1>12. Repaired(e)'
  <2>1. \A s \in Taken(e) : Fails(s)' <=> Fails(s)
    BY <1>3 DEF Fails, Taken
  <2>2. {s \in Taken(e) : Fails(s)}' = {s \in Taken(e) : Fails(s)}
    BY <1>8, <2>1
  <2> QED
    BY <1>1, <1>2, <1>3, <1>6, <2>2 DEF Repaired
<1> QED
  <2>1. k \in 0..(k + 1)
    OBVIOUS
  <2>2. OnTrack(e, k + 1, p)'
    BY <1>11, <1>12, <2>1 DEF OnTrack
  <2> QED
    BY <1>4, <1>7, <1>10, <2>2

\* The status becomes SUCCEEDED in one place.
LEMMA OnlySucceedRun ==
    ASSUME NEW e0, Engines = {e0}, StatusInv, [Next]_vars,
           run' = "SUCCEEDED", ~SucceedRun(e0)
    PROVE  run = "SUCCEEDED" /\ pc[e0] \notin Walking
<1>1. /\ e0 \in Engines
      /\ pc[e0] \in Walking \union {"finish"} => run \in {"RUNNING", "FAILED"}
  BY DEF StatusInv
<1>2. run' = run
  <2> USE DEF rows
  <2>1. CASE StepExecution(e0)
    BY <2>1 DEF StepExecution, ReadCached, ReadFresh, RowGone, MarkRunning,
         StepStarted, InvokeReturns, InvokeRaises, ActionRefused, PersistSuccess,
         PersistFailure
  <2>2. CASE ApprovalExecution(e0)
    BY <2>2 DEF ApprovalExecution, ReadApproval, RequestApproval,
         RejectApproval, GrantApproval
  <2>3. CASE Walk(e0)
    BY <2>3 DEF Walk, Begin, Visit, Retry, Abort, Advance, ReachEnd,
         GateRepairs, GateFailsRun, RejectOutputs, Report, Cleanup, FailRun
  <2>4. CASE CreateRun(e0) \/ CreateWorktree(e0) \/ ResumeScan(e0)
                 \/ ResumeReset(e0) \/ ResumeResetRaises(e0) \/ Crash(e0) \/ CallRaises(e0)
    BY <2>4 DEF CreateRun, CreateWorktree, ResumeScan, ResumeReset,
         ResumeResetRaises, Crash, CallRaises
  <2>5. ASSUME NEW o \in Operators, NEW s \in StepIds, NEW d \in Decisions,
               CheckPending(o, s, d) \/ WriteDecision(o, s, d)
        PROVE  run' = run
    BY <2>5 DEF CheckPending, WriteDecision
  <2>6. CASE UNCHANGED vars
    BY <2>6 DEF vars
  <2> QED
    BY <2>1, <2>2, <2>3, <2>4, <2>5, <2>6 DEF Next, EngineStep
<1> QED
  BY <1>1, <1>2

\* A step other than a gate's verdict keeps the walk on the order it is on.
LEMMA OnTrackStep ==
    ASSUME NEW e0, Engines = {e0}, GatesAreNotRetried, StatusInv, OutputInv,
           SameVerdicts, IsFiniteSet(Verdicts), [Next]_vars,
           NEW k \in Nat, NEW q \in [1..k -> StepIds], InOrder(k, q),
           OnTrack(e0, k, q)
    PROVE  OnTrack(e0, k, q)'
<1>1. /\ e0 \in Engines /\ TypeInv /\ pc \in [Engines -> Locations]
  BY DEF StatusInv, SoleInv, TypeInv, TypeOK
<1>2. CASE CreateRun(e0) \/ CreateWorktree(e0) \/ ResumeScan(e0)
              \/ ResumeReset(e0) \/ ResumeResetRaises(e0) \/ Crash(e0) \/ CallRaises(e0)
              \/ RequestApproval(e0) \/ Abort(e0) \/ GateFailsRun(e0)
              \/ SucceedRun(e0) \/ RejectOutputs(e0) \/ Report(e0)
              \/ Cleanup(e0)
  <2>1. pc'[e0] \in {"created", "begin", "reset", "idle", "report", "cleanup"}
    BY <1>1, <1>2 DEF CreateRun, CreateWorktree, ResumeScan, ResumeReset,
         ResumeResetRaises, Crash, CallRaises, RequestApproval, Abort, GateFailsRun,
         SucceedRun, RejectOutputs, Report, Cleanup, FailRun, Goto
  <2> QED
    BY <2>1 DEF OnTrack, OnWalk, Walking
<1>3. CASE Begin(e0)
  BY <1>1, <1>3, BeginsOrder
<1>4. CASE Visit(e0)
  BY <1>1, <1>4, VisitsNode
<1>5. CASE Retry(e0)
  BY <1>1, <1>5, RetriesNode
<1>6. CASE Advance(e0) \/ GateRepairs(e0) \/ ReachEnd(e0)
  BY <1>1, <1>6, ActsOnOutcome
<1>7. CASE StepExecution(e0) \/ RejectApproval(e0) \/ GrantApproval(e0)
  <2>1. /\ {pc[e0], pc'[e0]} \subseteq AtStep
        /\ UNCHANGED <<node, attempts, repairs>>
    BY <1>1, <1>7 DEF StepExecution, ReadCached, ReadFresh, RowGone,
         MarkRunning, StepStarted, InvokeReturns, InvokeRaises, ActionRefused, PersistSuccess,
         PersistFailure, RejectApproval, GrantApproval, AtStep, Goto, walk
  <2>2. OnWalk(e0)
    BY <2>1 DEF AtStep, OnWalk, Walking
  <2> QED
    BY <1>1, <2>1, <2>2, StaysAtStep
<1>8. CASE ReadApproval(e0)
  <2>1. approval[StepOf(e0)] \in {"none", "pending"} \union Decisions
    BY <1>1, <1>8, StepOfType DEF ReadApproval, AtStep, TypeInv, TypeOK, Decisions
  <2>2. /\ pc[e0] = "approval"
        /\ pc'[e0] \in {"request", "report", "reject", "grant"}
        /\ UNCHANGED <<node, attempts, repairs>>
    BY <1>1, <1>8, <2>1 DEF ReadApproval, ApprovalBranch, Decisions, Goto, walk
  <2>3. CASE pc'[e0] = "report"
    BY <2>3 DEF OnTrack, OnWalk, Walking
  <2>4. CASE pc'[e0] # "report"
    <3>1. {pc[e0], pc'[e0]} \subseteq AtStep /\ OnWalk(e0)
      BY <2>2, <2>4 DEF AtStep, OnWalk, Walking
    <3> QED
      BY <1>1, <2>2, <3>1, StaysAtStep
  <2> QED
    BY <2>3, <2>4
<1>9. ASSUME pc'[e0] = pc[e0], UNCHANGED <<node, attempts, repairs>>
      PROVE  OnTrack(e0, k, q)'
  <2>1. CASE OnWalk(e0)
    BY <1>1, <1>9, <2>1, StaysAtStep
  <2>2. CASE ~OnWalk(e0)
    BY <1>9, <2>2 DEF OnTrack, OnWalk
  <2> QED
    BY <2>1, <2>2
<1>10. ASSUME NEW o \in Operators, NEW s \in StepIds, NEW d \in Decisions,
              CheckPending(o, s, d) \/ WriteDecision(o, s, d)
       PROVE  OnTrack(e0, k, q)'
  BY <1>9, <1>10 DEF CheckPending, WriteDecision, walk
<1>11. CASE UNCHANGED vars
  BY <1>9, <1>11 DEF vars
<1> QED
  BY <1>2, <1>3, <1>4, <1>5, <1>6, <1>7, <1>8, <1>10, <1>11
     DEF Next, EngineStep, ApprovalExecution, Walk

\* Every step keeps the order of the verdicts and the walk on it.
LEMMA RepairInvStep ==
    ASSUME NEW e0, Engines = {e0}, GatesAreNotRetried, StatusInv, OutputInv,
           OutputInv', RepairInv, [Next]_vars
    PROVE  RepairInv'
<1>1. e0 \in Engines /\ \A e \in Engines : e = e0
  OBVIOUS
<1>2. PICK k \in Nat : \E q \in [1..k -> StepIds] :
          InOrder(k, q) /\ \A e \in Engines :
              OnWalk(e) => \E i \in 0..k : Meets(e, k, q, i)
  BY DEF RepairInv
<1>3. PICK q \in [1..k -> StepIds] :
          InOrder(k, q) /\ \A e \in Engines :
              OnWalk(e) => \E i \in 0..k : Meets(e, k, q, i)
  BY <1>2
<1>4. IsFiniteSet(Verdicts) /\ InOrder(k, q) /\ OnTrack(e0, k, q)
  BY <1>1, <1>3 DEF RepairInv, OnTrack
<1>5. /\ IsFiniteSet(Verdicts')
      /\ \E m \in Nat : \E p \in [1..m -> StepIds] :
            InOrder(m, p)' /\ OnTrack(e0, m, p)'
  <2>1. CASE PersistSuccess(e0) /\ Kind[node[e0]] = "gate"
    <3>1. TypeInv /\ ReadIsCurrent(e0)
      BY <1>1 DEF StatusInv, SoleInv
    <3>2. /\ IsFiniteSet(Verdicts')
          /\ \E p \in [1..(k + 1) -> StepIds] :
                InOrder(k + 1, p)' /\ OnTrack(e0, k + 1, p)'
      BY <1>1, <1>4, <2>1, <3>1, AddsVerdict
    <3>3. k + 1 \in Nat
      OBVIOUS
    <3> QED
      BY <3>2, <3>3
  <2>2. CASE ~(PersistSuccess(e0) /\ Kind[node[e0]] = "gate")
    <3>1. SameVerdicts
      BY <2>2, VerdictsStay
    <3>2. InOrder(k, q)' /\ OnTrack(e0, k, q)'
      BY <1>4, <3>1, OrderStays, OnTrackStep
    <3>3. IsFiniteSet(Verdicts')
      BY <1>4, <3>1 DEF SameVerdicts
    <3> QED
      BY <3>2, <3>3
  <2> QED
    BY <2>1, <2>2
<1>6. ASSUME run' = "SUCCEEDED"
      PROVE  Cardinality({s \in StepIds : Fails(s)}') <= MaxRepairs
  <2>1. ~PersistSuccess(e0)
    <3>1. CASE SucceedRun(e0)
      BY <3>1 DEF SucceedRun, PersistSuccess
    <3>2. CASE ~SucceedRun(e0)
      BY <1>6, <3>2, OnlySucceedRun DEF PersistSuccess, Walking
    <3> QED
      BY <3>1, <3>2
  <2>2. SameVerdicts
    BY <2>1, VerdictsStay
  <2>3. {s \in StepIds : Fails(s)}' = {s \in StepIds : Fails(s)}
    BY <2>2 DEF SameVerdicts
  <2>4. Cardinality({s \in StepIds : Fails(s)}) <= MaxRepairs
    <3>1. CASE SucceedRun(e0)
      <4>1. pc[e0] = "finish" /\ OnWalk(e0)
        BY <3>1 DEF SucceedRun, OnWalk
      <4>2. PICK i \in 0..k : Meets(e0, k, q, i)
        BY <1>4, <4>1 DEF OnTrack
      <4>3. \A s \in Verdicts : s \in Taken(e0)
        BY <1>4, <4>1, <4>2 DEF Meets, InOrder
      <4>4. {s \in StepIds : Fails(s)} = {s \in Taken(e0) : Fails(s)}
        BY <4>3, FailsAreVerdicts DEF Taken, Verdicts
      <4> QED
        BY <1>4, <4>1, <4>4 DEF OnTrack, Repaired
    <3>2. CASE ~SucceedRun(e0)
      BY <1>6, <3>2, OnlySucceedRun DEF RepairInv
    <3> QED
      BY <3>1, <3>2
  <2> QED
    BY <2>3, <2>4
<1> QED
  BY <1>1, <1>5, <1>6 DEF RepairInv, OnTrack

\* Driven by one engine at a time, a run with more recorded failing verdicts
\* than its repair budget never succeeds, over whatever crashes and resumes:
\* the replay of the recorded verdicts spends the budget again before the walk
\* takes a new one.  It holds where no gate is attempted again after an
\* exception.
THEOREM ExhaustedRepairsFail ==
    ASSUME NEW CONSTANT e0, Engines = {e0}, GatesAreNotRetried
    PROVE  Spec => []ExhaustedRepairsFailRun
<1>1. Init => OutputInv /\ RepairInv
  <2> SUFFICES ASSUME Init PROVE OutputInv /\ RepairInv
    OBVIOUS
  <2>1. OutputInv
    BY DEF Init, OutputInv
  <2>2. Verdicts = {} /\ \A e \in Engines : ~OnWalk(e)
    BY DEF Init, Verdicts, OnWalk, Walking
  <2>3. \E q \in [1..0 -> StepIds] : InOrder(0, q)
    <3>1. [i \in 1..0 |-> <<Start, 1>>] \in [1..0 -> StepIds]
      OBVIOUS
    <3>2. \A q \in [1..0 -> StepIds] : InOrder(0, q)
      BY <2>2 DEF InOrder
    <3> QED
      BY <3>1, <3>2
  <2>4. 0 \in Nat /\ run # "SUCCEEDED" /\ IsFiniteSet(Verdicts)
    BY <2>2, FS_EmptySet DEF Init
  <2> QED
    BY <2>1, <2>2, <2>3, <2>4 DEF RepairInv
<1>2. StatusInv /\ OutputInv /\ RepairInv /\ [Next]_vars
         => StatusInv' /\ OutputInv' /\ RepairInv'
  BY StatusInvStep, OutputInvStep, RepairInvStep
<1>3. RepairInv /\ OutputInv => ExhaustedRepairsFailRun
  <2> SUFFICES ASSUME RepairInv, OutputInv, run = "SUCCEEDED"
               PROVE  ~(Cardinality({s \in StepIds : Fails(s)}) > MaxRepairs)
    BY DEF ExhaustedRepairsFailRun, Fails
  <2>1. IsFiniteSet({s \in StepIds : Fails(s)})
    BY FailsAreVerdicts, FS_Subset DEF RepairInv
  <2>2. Cardinality({s \in StepIds : Fails(s)}) \in Nat
    BY <2>1, FS_CardinalityType
  <2> QED
    BY <2>2, BoundAssumption DEF RepairInv
<1> QED
  BY <1>1, <1>2, <1>3, InitStatusInv, PTL DEF Spec


-----------------------------------------------------------------------------
(* The refinement *)

Done == {<<s, output[s]>> : s \in {t \in StepIds : step[t] = "SUCCEEDED"}}

Driven == \E e \in Engines : pc[e] # "idle"

\* A step of the run that touches neither its status nor a SUCCEEDED row is a
\* stutter of the abstract run.
LEMMA DoneStays ==
    ASSUME KeepsSucceeded,
           \A s \in StepIds : step'[s] = "SUCCEEDED" => step[s] = "SUCCEEDED"
    PROVE  Done' = Done
  BY DEF Done, KeepsSucceeded

\* A step that succeeds is one more completed step of the abstract run.
LEMMA DoneGrows ==
    ASSUME KeepsSucceeded, NEW s \in StepIds, NEW o \in Outputs,
           step[s] # "SUCCEEDED", step'[s] = "SUCCEEDED", output'[s] = o,
           \A t \in StepIds \ {s} :
               step'[t] = "SUCCEEDED" => step[t] = "SUCCEEDED"
    PROVE  /\ Done' = Done \union {<<s, o>>}
           /\ \A d \in Done : d[1] # s
  BY DEF Done, KeepsSucceeded

\* Every step of the run is a step of the abstract run or a stutter.
LEMMA LifecycleStep ==
    ASSUME NEW e0, Engines = {e0}, PathInv, StatusInv, [Next]_vars
    PROVE  [Lifecycle!Next]_<<run, Driven, Done>>
<1>1. /\ e0 \in Engines
      /\ pc \in [Engines -> Locations]
      /\ pc[e0] \in {"created", "reset", "begin"} => Resumable
      /\ pc[e0] \in Walking \union {"finish"} => run \in {"RUNNING", "FAILED"}
      /\ run \in RunStatuses
      /\ step \in [StepIds -> StepStatuses]
      /\ output \in [StepIds -> Outputs]
      /\ approval \in [StepIds -> {"none", "pending"} \union Decisions]
      /\ pc[e0] \in AtStep => StepOf(e0) \in StepIds
      /\ ReadIsCurrent(e0)
      /\ Behind(e0)
      /\ pc[e0] \in {"succeed", "advance"} => val[e0] \in Outputs
  BY StepOfType DEF StatusInv, PathInv, SoleInv, TypeInv, TypeOK, LocalOK,
                    Decisions
<1>2. KeepsSucceeded
  BY SoleEngineKeepsSucceeded DEF StatusInv
<1>3. (Driven <=> pc[e0] # "idle") /\ (Driven' <=> pc'[e0] # "idle")
  BY DEF Driven
<1> USE DEF SetStep, Lifecycle!Next, rows, Goto
<1>4. CASE UNCHANGED <<run, step, output, pc>>
  BY <1>3, <1>4 DEF Done, Driven
<1>5. ASSUME pc[e0] # "idle", pc'[e0] # "idle", UNCHANGED <<run, Done>>
      PROVE  UNCHANGED <<run, Driven, Done>>
  BY <1>3, <1>5 DEF Driven
<1>6. CASE ResumeReset(e0) \/ Visit(e0) \/ Retry(e0) \/ MarkRunning(e0)
              \/ PersistFailure(e0) \/ RejectApproval(e0)
  <2>1. pc[e0] # "idle" /\ pc'[e0] # "idle"
    BY <1>1, <1>6 DEF ResumeReset, Visit, Retry, MarkRunning, PersistFailure,
                      RejectApproval
  <2>2. \A s \in StepIds : step'[s] = "SUCCEEDED" => step[s] = "SUCCEEDED"
    BY <1>1, <1>6 DEF ResumeReset, Visit, Retry, MarkRunning, PersistFailure,
                      RejectApproval
  <2>3. Done' = Done
    BY <1>2, <2>2, DoneStays
  <2>4. \/ UNCHANGED run
        \/ run \in {"RUNNING", "FAILED"} /\ run' = "FAILED"
    BY <1>1, <1>6 DEF ResumeReset, Visit, Retry, MarkRunning, PersistFailure,
                      RejectApproval, Walking
  <2>5. CASE UNCHANGED run
    BY <1>5, <2>1, <2>3, <2>5
  <2>6. CASE run \in {"RUNNING", "FAILED"} /\ run' = "FAILED"
    <3>1. Lifecycle!Fail
      BY <1>3, <2>1, <2>3, <2>6
         DEF Lifecycle!Fail, Lifecycle!OnTheWay, Done, Driven
    <3> QED
      BY <3>1
  <2> QED
    BY <2>4, <2>5, <2>6
<1>7. CASE PersistSuccess(e0) \/ GrantApproval(e0)
  <2>1. PICK o \in Outputs : step' = [step EXCEPT ![StepOf(e0)] = "SUCCEEDED"]
                             /\ output' = [output EXCEPT ![StepOf(e0)] = o]
    BY <1>1, <1>7 DEF PersistSuccess, GrantApproval, Outputs
  <2>2. StepOf(e0) \in StepIds /\ step[StepOf(e0)] # "SUCCEEDED"
    BY <1>1, <1>7 DEF PersistSuccess, GrantApproval, AtStep, ReadIsCurrent,
                      Executing
  <2>3. /\ Done' = Done \union {<<StepOf(e0), o>>}
        /\ \A d \in Done : d[1] # StepOf(e0)
    BY <1>1, <1>2, <2>1, <2>2, DoneGrows
  <2>4. /\ run \in {"RUNNING", "FAILED"} /\ UNCHANGED run
        /\ pc[e0] # "idle" /\ pc'[e0] # "idle"
    BY <1>1, <1>7 DEF PersistSuccess, GrantApproval, Walking
  <2>5. Driven /\ Driven'
    BY <1>3, <2>4
  <2>6. Lifecycle!Complete
    BY <2>2, <2>3, <2>4, <2>5
       DEF Lifecycle!Complete, Lifecycle!OnTheWay, Done, Driven
  <2> QED
    BY <2>6
<1>8. CASE RequestApproval(e0)
  <2>1. Done' = Done
    BY <1>1, <1>2, <1>8, DoneStays DEF RequestApproval
  <2>2. /\ run \in {"RUNNING", "FAILED"} /\ run' = "WAITING_APPROVAL"
        /\ pc[e0] # "idle" /\ pc'[e0] # "idle"
    BY <1>1, <1>8 DEF RequestApproval, Walking
  <2>3. Driven /\ Driven'
    BY <1>3, <2>2
  <2>4. Lifecycle!Pause
    BY <2>1, <2>2, <2>3
       DEF Lifecycle!Pause, Lifecycle!OnTheWay, Done, Driven
  <2> QED
    BY <2>4
<1>9. CASE SucceedRun(e0)
  <2>1. \A n \in Ahead(Start) : Settled(n)
    BY <1>1, <1>9 DEF SucceedRun, Behind
  <2>2. \A n \in Ahead(Start) : Lifecycle!Settles(n)
    <3> SUFFICES ASSUME NEW n \in Ahead(Start) PROVE Lifecycle!Settles(n)
      OBVIOUS
    <3>1. PICK s \in StepIds : /\ s[1] = n
                               /\ step[s] = "SUCCEEDED"
                               /\ output[s] \in Passing
      BY <2>1 DEF Settled
    <3>2. <<s, output[s]>> \in Done
      BY <3>1 DEF Done
    <3>3. <<s, output[s]>>[1][1] = n /\ <<s, output[s]>>[2] \in Passing
      BY <3>1
    <3> QED
      BY <3>2, <3>3 DEF Lifecycle!Settles, Done
  <2>3. /\ run \in {"RUNNING", "FAILED"} /\ run' = "SUCCEEDED" /\ Done' = Done
        /\ pc[e0] # "idle" /\ pc'[e0] # "idle"
    BY <1>1, <1>9 DEF SucceedRun, Walking, Done
  <2>4. Driven /\ Driven'
    BY <1>3, <2>3
  <2>5. Lifecycle!Succeed
    BY <2>2, <2>3, <2>4
       DEF Lifecycle!Succeed, Lifecycle!OnTheWay, Done, Driven
  <2> QED
    BY <2>5
<1>10. CASE Abort(e0) \/ GateFailsRun(e0) \/ RejectOutputs(e0)
  <2>1. /\ run \in {"RUNNING", "FAILED"} /\ run' = "FAILED" /\ Done' = Done
        /\ pc[e0] # "idle" /\ pc'[e0] # "idle"
    BY <1>1, <1>10
       DEF Abort, GateFailsRun, RejectOutputs, FailRun, Walking, Done
  <2>2. Driven /\ Driven'
    BY <1>3, <2>1
  <2>3. Lifecycle!Fail
    BY <2>1, <2>2 DEF Lifecycle!Fail, Lifecycle!OnTheWay, Done, Driven
  <2> QED
    BY <2>3
<1>11. CASE CreateRun(e0)
  <2>1. /\ run = "none" /\ run' = "CREATED" /\ Done' = Done
        /\ pc[e0] = "idle" /\ pc'[e0] # "idle"
    BY <1>1, <1>11 DEF CreateRun, Done
  <2>2. ~Driven /\ Driven'
    BY <1>3, <2>1
  <2>3. Lifecycle!Create
    BY <2>1, <2>2 DEF Lifecycle!Create, Done, Driven
  <2> QED
    BY <2>3
<1>12. CASE CreateWorktree(e0) \/ Begin(e0)
  <2>1. /\ run \in Lifecycle!Incomplete
        /\ run' \in {run, "RUNNING"}
        /\ Done' = Done
        /\ pc[e0] # "idle" /\ pc'[e0] # "idle"
    BY <1>1, <1>12 DEF CreateWorktree, Begin, Resumable, RunStatuses,
                       TerminalRunStatuses, Lifecycle!Incomplete, Done
  <2>2. CASE UNCHANGED run
    BY <1>5, <2>1, <2>2
  <2>3. CASE run' = "RUNNING"
    <3>1. Driven /\ Driven'
      BY <1>3, <2>1
    <3>2. Lifecycle!Begin
      BY <2>1, <2>3, <3>1 DEF Lifecycle!Begin, Done, Driven
    <3> QED
      BY <3>2
  <2> QED
    BY <2>1, <2>2, <2>3
<1>13. CASE ResumeScan(e0)
  <2>1. /\ run \in Lifecycle!Incomplete /\ UNCHANGED run /\ Done' = Done
        /\ pc[e0] = "idle" /\ pc'[e0] # "idle"
    BY <1>1, <1>13 DEF ResumeScan, Resumable, RunStatuses,
                       TerminalRunStatuses, Lifecycle!Incomplete, Done
  <2>2. ~Driven /\ Driven'
    BY <1>3, <2>1
  <2>3. Lifecycle!TakeUp
    BY <2>1, <2>2 DEF Lifecycle!TakeUp, Done, Driven
  <2> QED
    BY <2>3
<1>14. CASE ResumeResetRaises(e0) \/ Crash(e0) \/ CallRaises(e0) \/ Cleanup(e0)
  <2>1. /\ run' \in {run, "FAILED"} /\ Done' = Done
        /\ pc[e0] # "idle" /\ pc'[e0] = "idle"
    BY <1>1, <1>14 DEF ResumeResetRaises, Crash, CallRaises, Cleanup, Done
  <2>2. Driven /\ ~Driven'
    BY <1>3, <2>1
  <2>3. Lifecycle!LetGo
    BY <2>1, <2>2 DEF Lifecycle!LetGo, Done, Driven
  <2> QED
    BY <2>3
<1>15. ASSUME NEW o \in Operators, NEW s \in StepIds, NEW d \in Decisions,
              CheckPending(o, s, d) \/ WriteDecision(o, s, d)
       PROVE  UNCHANGED <<run, step, output, pc>>
  BY <1>15 DEF CheckPending, WriteDecision
<1>16. CASE ReadCached(e0) \/ ReadFresh(e0) \/ RowGone(e0)
               \/ StepStarted(e0) \/ ActionRefused(e0) \/ InvokeReturns(e0)
               \/ InvokeRaises(e0)
  <2>1. /\ UNCHANGED <<run, step, output>>
        /\ pc[e0] # "idle" /\ pc'[e0] # "idle"
    BY <1>1, <1>16 DEF ReadCached, ReadFresh, RowGone, StepStarted,
         ActionRefused, InvokeReturns, InvokeRaises
  <2>2. Done' = Done
    BY <2>1 DEF Done
  <2> QED
    BY <1>5, <2>1, <2>2
<1>17. CASE ReadApproval(e0) \/ Advance(e0) \/ ReachEnd(e0) \/ GateRepairs(e0)
               \/ Report(e0)
  <2>1. ReadApproval(e0) => ApprovalBranch[approval[StepOf(e0)]] # "idle"
    BY <1>1 DEF ReadApproval, ApprovalBranch, Decisions, AtStep
  <2>2. /\ UNCHANGED <<run, step, output>>
        /\ pc[e0] # "idle" /\ pc'[e0] # "idle"
    BY <1>1, <1>17, <2>1 DEF ReadApproval, Advance, ReachEnd, GateRepairs,
         Report
  <2>3. Done' = Done
    BY <2>2 DEF Done
  <2> QED
    BY <1>5, <2>2, <2>3
<1>18. CASE UNCHANGED vars
  BY <1>4, <1>18 DEF vars
<1> QED
  BY <1>4, <1>6, <1>7, <1>8, <1>9, <1>10, <1>11, <1>12, <1>13, <1>14, <1>15,
     <1>16, <1>17, <1>18
     DEF Next, EngineStep, StepExecution, ApprovalExecution, Walk

\* The durable run implements the abstract run: with one engine at a time, its
\* completed steps only accumulate, only while the engine drives it, SUCCEEDED
\* comes only after every node of the path is settled and is left for FAILED at
\* most, and a run that has ended is never taken up again.
THEOREM ImplementsRunLifecycle ==
    ASSUME NEW CONSTANT e0, Engines = {e0}, RepairsLeadBack
    PROVE  Spec => ImplementsLifecycle
<1>1. Init => Lifecycle!Init
  BY DEF Init, Lifecycle!Init
<1>2. PathInv /\ StatusInv /\ [Next]_vars => PathInv' /\ StatusInv'
  BY PathInvStep, StatusInvStep
<1>3. PathInv /\ StatusInv /\ [Next]_vars =>
         [Lifecycle!Next]_<<run, Driven, Done>>
  BY LifecycleStep
<1>4. PathInv /\ StatusInv /\ [Next]_vars => [Lifecycle!Next]_Lifecycle!vars
  BY <1>3 DEF Done, Driven, Lifecycle!vars
<1> QED
  BY <1>1, <1>2, <1>4, InitPathInv, InitStatusInv, PTL
     DEF Spec, ImplementsLifecycle, Lifecycle!Spec
=============================================================================
