---------------------------- MODULE CompositeProofs ----------------------------
(***************************************************************************)
(* Proofs about the runs of CompositeNodes, for any workflows, nestings of  *)
(* maps, crashes and resumes: the items of a map never interleave, their    *)
(* worktrees go with it, and a run that SUCCEEDED did what its nodes say.   *)
(***************************************************************************)
EXTENDS CompositeNodes, SequenceTheorems, WellFoundedInduction, TLAPS

-----------------------------------------------------------------------------
(* What rows and walks are *)

Pcs == {"none", "visit", "exec", "wait", "pool", "merge", "hop", "read", "return"}
RunStatuses == {"RUNNING", "SUCCEEDED", "FAILED", "WAITING_INPUT"}
Results == RunStatuses \cup {"none", "raised"}
Walks == [pc : Pcs, node : Nat, ws : Nat, kids : Seq(Nat), results : Seq(Results),
          merged : Nat, hop : Nat, result : Results]
RunRows == [wf : DOMAIN Workflows, parent : Nat, index : Nat, status : RunStatuses]

WalksTyped ==
    /\ runs \in Seq(RunRows)
    /\ walk \in Seq(Walks)
    /\ Len(walk) = Len(runs)
    /\ \A r \in Runs : walk[r].pc \notin {"none", "return"} => walk[r].node # 0

DoneTyped ==
    /\ done \in Seq(Range(done))
    /\ Len(done) = Len(runs)
    /\ \A r \in Runs : DOMAIN done[r] = DOMAIN Nodes(r)

TypeInv ==
    /\ WalksTyped
    /\ DoneTyped
    /\ trees \subseteq Runs
    /\ scan \subseteq Runs
    /\ crashes \in Nat

\* A run and its walk.
LEMMA RunAndWalk ==
    ASSUME WalksTyped
    PROVE  /\ Runs = 1..Len(runs)
           /\ DOMAIN walk = Runs
           /\ \A r \in Runs : runs[r] \in RunRows /\ walk[r] \in Walks
  <1>1. Runs = 1..Len(runs) /\ DOMAIN walk = Runs
    BY DEF WalksTyped, Runs
  <1>2. ASSUME NEW r \in Runs
        PROVE  runs[r] \in RunRows /\ walk[r] \in Walks
    BY <1>1, <1>2 DEF WalksTyped
  <1> QED
    BY <1>1, <1>2

\* The node a walk is at, and what the assumption says of it.
LEMMA NodeAtHand ==
    ASSUME WalksTyped, NEW r \in Runs, walk[r].pc \notin {"none", "return"},
           walk[r].node <= Len(Nodes(r))
    PROVE  /\ walk[r].node \in DOMAIN Nodes(r)
           /\ At(r).type \in {"subworkflow", "loop", "map"} => At(r).ref \in DOMAIN Workflows
           /\ At(r).type = "map" => At(r).items \in Nat
  <1>1. /\ runs[r].wf \in DOMAIN Workflows
        /\ walk[r].node \in Nat
    BY RunAndWalk DEF RunRows, Walks
  <1>2. Nodes(r) \in Seq(Range(Nodes(r)))
    BY <1>1, CompositeAssumption DEF Nodes
  <1>3. walk[r].node \in DOMAIN Nodes(r)
    BY <1>1, <1>2 DEF WalksTyped
  <1> QED
    BY <1>1, <1>3, CompositeAssumption DEF At, Nodes

-----------------------------------------------------------------------------
(* The kinds of step a walk takes, of which there are fewer than actions    *)

AtWork == {"visit", "exec", "hop", "read", "merge"}

\* What a step of r may report: when it returns, a status of its own, and what
\* the success of its nodes rests on.
Reported(r, w) ==
    /\ \/ runs' = runs
       \/ w.pc = "return" /\ \E s \in RunStatuses : runs' = [runs EXCEPT ![r].status = s]
    /\ done' = done \/ \E n, x : done' = [done EXCEPT ![r][n] = x]
    /\ UNCHANGED <<scan, crashes>>

\* r works, and goes on or returns.
OwnStep(r, w) ==
    /\ w \in Walks
    /\ Working(r)
    /\ walk' = [walk EXCEPT ![r] = w]
    /\ w.pc \in AtWork \cup {"return"}
    /\ w.pc # "return" => w.node # 0
    /\ w.pc = "merge" <=> walk[r].pc = "merge"
    /\ w.kids = walk[r].kids \/ (w.kids = <<>> /\ w.pc # "merge")
    /\ Reported(r, w)
    /\ UNCHANGED <<trees, locked>>

SimpleStep(r) ==
    \/ Cached(r) \/ StartStep(r) \/ EndOfWalk(r)
    \/ \E more \in BOOLEAN : AgentWorks(r, more)
    \/ AgentFails(r)
    \/ \E seen \in Sights : GateAnswers(r, seen)
    \/ LoopExhausted(r) \/ CannotMap(r) \/ MergeItem(r)
    \/ StartHop(r)
    \/ \E f \in Files(r) : HopWorks(r, f) \/ HopFails(r, f)
    \/ StatusMissing(r) \/ StatusSaysMore(r) \/ StatusSaysDone(r)
    \/ HandoffExhausted(r)

\* The walks that are written are walks.
LEMMA WrittenWalks ==
    ASSUME NEW w \in Walks
    PROVE  /\ Advanced(w) \in Walks /\ Advanced(w).pc = "visit" /\ Advanced(w).kids = <<>>
           /\ Advanced(w).node # 0
           /\ \A s \in RunStatuses : /\ Returned(w, s) \in Walks
                                     /\ Returned(w, s).pc = "return"
                                     /\ Returned(w, s).kids = <<>>
           /\ NoWalk \in Walks
           /\ \A ws \in Nat : /\ BeginIn(ws) \in Walks /\ BeginIn(ws).pc = "visit"
                              /\ BeginIn(ws).kids = <<>> /\ BeginIn(ws).node = 1
  <1>1. NoWalk \in Walks
    BY DEF NoWalk, Walks, Pcs, Results
  <1>n. NoWalk.kids = <<>>
    BY DEF NoWalk
  <1> DEFINE Placed(v, pc, node, ws) == [v EXCEPT !.pc = pc, !.node = node, !.ws = ws]
             Ended(v, pc, ws, s) == [v EXCEPT !.pc = pc, !.ws = ws, !.result = s]
  <1>2. ASSUME NEW v \in Walks, NEW pc \in Pcs, NEW node \in Nat, NEW ws \in Nat
        PROVE  /\ Placed(v, pc, node, ws) \in Walks
               /\ Placed(v, pc, node, ws).pc = pc
               /\ Placed(v, pc, node, ws).kids = v.kids
               /\ Placed(v, pc, node, ws).node = node
    <2>1. Placed(v, pc, node, ws) \in Walks
      BY DEF Walks
    <2> QED
      BY <2>1 DEF Walks
  <1>3. ASSUME NEW v \in Walks, NEW s \in Results, NEW pc \in Pcs, NEW ws \in Nat
        PROVE  /\ Ended(v, pc, ws, s) \in Walks
               /\ Ended(v, pc, ws, s).pc = pc
               /\ Ended(v, pc, ws, s).kids = v.kids
    <2>1. Ended(v, pc, ws, s) \in Walks
      BY DEF Walks
    <2> QED
      BY <2>1 DEF Walks
  <1>4. w.node + 1 \in Nat /\ w.node + 1 # 0 /\ w.ws \in Nat
    BY DEF Walks
  <1>5. "visit" \in Pcs /\ "return" \in Pcs /\ RunStatuses \subseteq Results
    BY DEF Pcs, Results
  <1>a. Advanced(w) = Placed(NoWalk, "visit", w.node + 1, w.ws)
    BY DEF Advanced
  <1>r. ASSUME NEW s
        PROVE  Returned(w, s) = Ended(NoWalk, "return", w.ws, s)
    BY DEF Returned
  <1>b. ASSUME NEW ws
        PROVE  BeginIn(ws) = Placed(NoWalk, "visit", 1, ws)
    BY DEF BeginIn
  <1> HIDE DEF Placed, Ended
  <1>c. ASSUME NEW node \in Nat, NEW ws \in Nat
        PROVE  LET v == Placed(NoWalk, "visit", node, ws) IN
               v \in Walks /\ v.pc = "visit" /\ v.kids = <<>> /\ v.node = node
    <2> DEFINE v == Placed(NoWalk, "visit", node, ws)
    <2>1. v \in Walks
      BY <1>c, <1>1, <1>2, <1>5
    <2>2. v.pc = "visit"
      BY <1>c, <1>1, <1>2, <1>5
    <2>5. v.kids = NoWalk.kids
      BY <1>c, <1>1, <1>2, <1>5
    <2>3. v.kids = <<>>
      BY <2>5, <1>n
    <2>4. v.node = node
      BY <1>c, <1>1, <1>2, <1>5
    <2> QED
      BY <2>1, <2>2, <2>3, <2>4
  <1>6. /\ Advanced(w) \in Walks /\ Advanced(w).pc = "visit" /\ Advanced(w).kids = <<>>
        /\ Advanced(w).node # 0
    BY <1>a, <1>4, <1>c
  <1>7. \A s \in RunStatuses : /\ Returned(w, s) \in Walks
                               /\ Returned(w, s).pc = "return"
                               /\ Returned(w, s).kids = <<>>
    BY <1>r, <1>1, <1>n, <1>3, <1>4, <1>5
  <1>8. \A ws \in Nat : /\ BeginIn(ws) \in Walks /\ BeginIn(ws).pc = "visit"
                        /\ BeginIn(ws).kids = <<>> /\ BeginIn(ws).node = 1
    BY <1>b, <1>1, <1>n, <1>2, <1>5
  <1> QED
    BY <1>1, <1>6, <1>7, <1>8

\* A step of a node that has no runs of its own is one of these.
LEMMA SimpleSteps ==
    ASSUME WalksTyped, NEW r \in Runs, SimpleStep(r)
    PROVE  \E w : OwnStep(r, w)
  <1> USE DEF git, db, bounds
  <1>w. walk[r] \in Walks
    BY RunAndWalk
  <1>a. /\ Advanced(walk[r]) \in Walks /\ Advanced(walk[r]).pc = "visit"
        /\ Advanced(walk[r]).kids = <<>> /\ Advanced(walk[r]).node # 0
    BY <1>w, WrittenWalks
  <1>r. \A s \in RunStatuses : /\ Returned(walk[r], s) \in Walks
                               /\ Returned(walk[r], s).pc = "return"
                               /\ Returned(walk[r], s).kids = <<>>
    BY <1>w, WrittenWalks
  <1>p. \A pc \in Pcs : LET w == [walk[r] EXCEPT !.pc = pc] IN
          /\ w \in Walks /\ w.pc = pc /\ w.kids = walk[r].kids /\ w.node = walk[r].node
    BY <1>w DEF Walks
  <1>m. ASSUME NEW v \in Walks
        PROVE  LET w == [v EXCEPT !.merged = @ + 1] IN
               w \in Walks /\ w.pc = v.pc /\ w.kids = v.kids /\ w.node = v.node
    BY DEF Walks
  <1> DEFINE Hopped(v, pc, h) == [v EXCEPT !.pc = pc, !.hop = h]
  <1>i. ASSUME NEW v \in Walks, NEW pc \in Pcs, NEW h \in Nat
        PROVE  /\ Hopped(v, pc, h) \in Walks /\ Hopped(v, pc, h).pc = pc
               /\ Hopped(v, pc, h).kids = v.kids /\ Hopped(v, pc, h).node = v.node
    <2>1. Hopped(v, pc, h) \in Walks
      BY <1>i DEF Walks
    <2> QED
      BY <1>i, <2>1 DEF Walks
  <1>v. "visit" \in Pcs
    BY DEF Pcs
  <1>o. walk[r].hop + 1 \in Nat
    BY <1>w DEF Walks
  <1>d. DOMAIN walk = Runs
    BY RunAndWalk
  <1>1. ASSUME walk' = [walk EXCEPT ![r] = Advanced(@)], walk[r].pc \in AtWork \ {"merge"},
               runs' = runs, done' = done \/ \E n, x : done' = [done EXCEPT ![r][n] = x],
               UNCHANGED <<trees, locked, scan, crashes>>
        PROVE  OwnStep(r, Advanced(walk[r]))
    BY <1>1, <1>a, <1>d DEF OwnStep, Reported, Working, AtWork
  <1>2. ASSUME NEW s \in RunStatuses, walk' = [walk EXCEPT ![r] = Returned(@, s)],
               walk[r].pc \in AtWork \ {"merge"},
               runs' = [runs EXCEPT ![r].status = s],
               UNCHANGED <<trees, locked, scan, crashes, done>>
        PROVE  OwnStep(r, Returned(walk[r], s))
    BY <1>2, <1>r, <1>d DEF OwnStep, Reported, Working, AtWork
  <1>3. ASSUME NEW pc \in AtWork \ {"merge"}, walk' = [walk EXCEPT ![r].pc = pc],
               walk[r].pc \in AtWork \ {"merge"},
               UNCHANGED <<runs, trees, locked, scan, crashes, done>>
        PROVE  OwnStep(r, [walk[r] EXCEPT !.pc = pc])
    <2>1. pc \in Pcs
      BY DEF AtWork, Pcs
    <2>2. walk[r].node # 0
      BY <1>3 DEF WalksTyped, AtWork
    <2>3. walk' = [walk EXCEPT ![r] = [walk[r] EXCEPT !.pc = pc]]
      BY <1>3, <1>d
    <2>4. LET w == [walk[r] EXCEPT !.pc = pc] IN
            /\ w \in Walks /\ w.pc = pc /\ w.kids = walk[r].kids /\ w.node = walk[r].node
      BY <2>1, <1>p
    <2> QED
      BY <1>3, <2>2, <2>3, <2>4 DEF OwnStep, Reported, Working, AtWork
  <1>4. CASE Cached(r)
    BY <1>4, <1>1 DEF Cached, AtWork
  <1>5. CASE StartStep(r)
    BY <1>5, <1>3 DEF StartStep, Go, AtWork
  <1>6. CASE EndOfWalk(r)
    BY <1>6, <1>2 DEF EndOfWalk, AtWork, RunStatuses
  <1>7. ASSUME NEW more \in BOOLEAN, AgentWorks(r, more)
        PROVE  \E w : OwnStep(r, w)
    BY <1>7, <1>1 DEF AgentWorks, Succeed, Is, AtWork
  <1>8. CASE AgentFails(r)
    BY <1>8, <1>2 DEF AgentFails, Fail, Is, AtWork, RunStatuses
  <1>9. ASSUME NEW seen \in Sights, GateAnswers(r, seen)
        PROVE  \E w : OwnStep(r, w)
    <2>1. /\ walk[r].pc = "exec"
          /\ UNCHANGED <<trees, locked, scan, crashes>>
      BY <1>9 DEF GateAnswers, Is
    <2>2. \/ (\E x : Succeed(r, x)) /\ UNCHANGED runs
          \/ Fail(r) /\ UNCHANGED done
      BY <1>9 DEF GateAnswers
    <2> QED
      BY <2>1, <2>2, <1>1, <1>2 DEF Succeed, Fail, AtWork, RunStatuses
  <1>10. CASE LoopExhausted(r)
    BY <1>10, <1>2 DEF LoopExhausted, Waits, Is, AtWork, RunStatuses
  <1>11. CASE CannotMap(r)
    BY <1>11, <1>2 DEF CannotMap, Fail, Is, AtWork, RunStatuses
  <1>12. CASE MergeItem(r)
    <2> DEFINE w == [walk[r] EXCEPT !.merged = @ + 1]
    <2>1. w \in Walks /\ w.pc = walk[r].pc /\ w.kids = walk[r].kids /\ w.node = walk[r].node
      BY <1>w, <1>m
    <2>2. walk[r].pc = "merge" /\ walk' = [walk EXCEPT ![r] = w]
      BY <1>12, <1>d DEF MergeItem, MergesLeft, Is
    <2>3. walk[r].node # 0
      BY <2>2 DEF WalksTyped
    <2>4. UNCHANGED <<runs, trees, locked, scan, crashes, done>>
      BY <1>12 DEF MergeItem
    <2> HIDE DEF w
    <2>5. OwnStep(r, w)
      BY <2>1, <2>2, <2>3, <2>4 DEF OwnStep, Reported, Working, AtWork
    <2> QED
      BY <2>5
  <1>13. CASE StartHop(r)
    BY <1>13, <1>3 DEF StartHop, Go, Is, AtWork
  <1>14. ASSUME NEW f \in Files(r), HopWorks(r, f)
         PROVE  \E w : OwnStep(r, w)
    BY <1>14, <1>3 DEF HopWorks, Go, Is, AtWork
  <1>15. ASSUME NEW f \in Files(r), HopFails(r, f)
         PROVE  \E w : OwnStep(r, w)
    BY <1>15, <1>2 DEF HopFails, FailOutsideStep, Is, AtWork, RunStatuses
  <1>16. CASE StatusMissing(r)
    BY <1>16, <1>2 DEF StatusMissing, FailOutsideStep, Is, AtWork, RunStatuses
  <1>17. CASE StatusSaysMore(r)
    <2> DEFINE w == Hopped(walk[r], "visit", walk[r].hop + 1)
    <2>2. walk[r].pc = "read" /\ walk' = [walk EXCEPT ![r] = w]
      BY <1>17, <1>d DEF StatusSaysMore, Is
    <2> HIDE DEF Hopped
    <2>1. w \in Walks /\ w.pc = "visit" /\ w.kids = walk[r].kids /\ w.node = walk[r].node
      BY <1>w, <1>i, <1>o, <1>v
    <2>3. walk[r].node # 0
      BY <2>2 DEF WalksTyped
    <2>4. UNCHANGED <<runs, trees, locked, scan, crashes, done>>
      BY <1>17 DEF StatusSaysMore
    <2> HIDE DEF w
    <2>5. OwnStep(r, w)
      BY <2>1, <2>2, <2>3, <2>4 DEF OwnStep, Reported, Working, AtWork
    <2> QED
      BY <2>5
  <1>18. CASE StatusSaysDone(r)
    BY <1>18, <1>1 DEF StatusSaysDone, Is, AtWork
  <1>19. CASE HandoffExhausted(r)
    BY <1>19, <1>2 DEF HandoffExhausted, Waits, Is, AtWork, RunStatuses
  <1> QED
    BY <1>4, <1>5, <1>6, <1>7, <1>8, <1>9, <1>10, <1>11, <1>12, <1>13, <1>14, <1>15, <1>16,
       <1>17, <1>18, <1>19 DEF SimpleStep

\* A run is created below r, whose walk becomes w.
Grown(r, w, new, row) ==
    /\ w \in Walks /\ new \in Walks /\ row \in RunRows
    /\ w.node # 0 /\ (new.pc = "none" \/ new.node # 0)
    /\ row.parent = r /\ row.status = "RUNNING"
    /\ walk' = Append([walk EXCEPT ![r] = w], new)
    /\ runs' = Append(runs, row)
    /\ \E x : DOMAIN x = DOMAIN Workflows[row.wf] /\ done' = Append(done, x)
    /\ UNCHANGED <<scan, crashes>>

\* r calls a run and waits for it.
Call(r, w, new, row) ==
    /\ Grown(r, w, new, row)
    /\ walk[r].pc \in {"visit", "exec"}
    /\ w.pc = "wait"
    /\ w.kids = <<NextRun>> \/ w.kids = Append(walk[r].kids, NextRun)
    /\ new.pc = "visit" /\ new.kids = <<>>
    /\ row.index = 0
    /\ UNCHANGED <<trees, locked>>

\* A worker of the pool of r begins with an item, or cannot.
ItemBegins(r, i, w, new, row) ==
    /\ Grown(r, w, new, row)
    /\ walk[r].pc = "pool" /\ i \in Items(r) /\ walk[r].kids[i] = 0
    /\ walk[r].results[i] = "none"
    /\ ~locked /\ locked' = TRUE
    /\ w.pc = "pool" /\ w.results = walk[r].results
    /\ w.kids = [walk[r].kids EXCEPT ![i] = NextRun]
    /\ new.pc = "visit" /\ new.kids = <<>>
    /\ row.index > 0
    /\ trees' = trees \cup {NextRun}

ItemMissing(r, i, w, row) ==
    /\ Grown(r, w, NoWalk, row)
    /\ walk[r].pc = "pool" /\ i \in Items(r) /\ walk[r].kids[i] = 0
    /\ w.pc = "pool" /\ w.kids = walk[r].kids
    /\ w.results = [walk[r].results EXCEPT ![i] = "raised"]
    /\ UNCHANGED <<trees, locked>>

\* A run is created below r, in a walk that begins.
LEMMA Creates ==
    ASSUME WalksTyped, NEW r \in Runs, NEW ref \in DOMAIN Workflows, NEW index \in Nat,
           NEW w \in Walks, w.node # 0, NEW start, start = [walk EXCEPT ![r] = w],
           Create(ref, r, index, start), UNCHANGED <<scan, crashes>>
    PROVE  \E new \in Walks :
              /\ Grown(r, w, new, NewRow(ref, r, index))
              /\ new.pc = "visit" /\ new.kids = <<>>
  <1>1. NewRow(ref, r, index) \in RunRows
    BY RunAndWalk DEF NewRow, RunRows, RunStatuses
  <1>2. start[r].ws \in Nat
    BY RunAndWalk DEF Walks
  <1>3. (IF index > 0 THEN Len(runs) + 1 ELSE start[r].ws) \in Nat
    BY <1>2 DEF WalksTyped
  <1>4. PICK ws \in Nat : ws = IF index > 0 THEN Len(runs) + 1 ELSE start[r].ws
    BY <1>3
  <1>5. /\ BeginIn(ws) \in Walks /\ BeginIn(ws).pc = "visit"
        /\ BeginIn(ws).kids = <<>> /\ BeginIn(ws).node = 1
    BY WrittenWalks
  <1>6. walk' = Append([walk EXCEPT ![r] = w], BeginIn(ws))
    BY <1>4 DEF Create
  <1>7. /\ runs' = Append(runs, NewRow(ref, r, index))
        /\ done' = Append(done, [i \in 1..Len(Workflows[ref]) |-> <<>>])
    BY DEF Create
  <1>8. DOMAIN [i \in 1..Len(Workflows[ref]) |-> <<>>] = DOMAIN Workflows[NewRow(ref, r, index).wf]
    <2>1. Workflows[ref] \in Seq(Range(Workflows[ref]))
      BY CompositeAssumption
    <2> QED
      BY <2>1 DEF NewRow
  <1>9. NewRow(ref, r, index).parent = r /\ NewRow(ref, r, index).status = "RUNNING"
    BY DEF NewRow
  <1>10. Grown(r, w, BeginIn(ws), NewRow(ref, r, index))
    BY <1>1, <1>5, <1>6, <1>7, <1>8, <1>9 DEF Grown
  <1> QED
    BY <1>5, <1>10

\* A walk with another pc and other children, or with other results.
Turned(v, pc, kids) == [v EXCEPT !.pc = pc, !.kids = kids]
WithResults(v, results) == [v EXCEPT !.results = results]

\* The fields of the walks so changed.
LEMMA ChangedWalks ==
    ASSUME NEW v \in Walks, NEW pc \in Pcs, NEW kids \in Seq(Nat), NEW results \in Seq(Results)
    PROVE  /\ Turned(v, pc, kids) \in Walks
           /\ Turned(v, pc, kids).pc = pc
           /\ Turned(v, pc, kids).kids = kids
           /\ Turned(v, pc, kids).results = v.results
           /\ Turned(v, pc, kids).node = v.node
           /\ WithResults(v, results) \in Walks
           /\ WithResults(v, results).pc = v.pc
           /\ WithResults(v, results).kids = v.kids
           /\ WithResults(v, results).results = results
           /\ WithResults(v, results).node = v.node
  <1>1. Turned(v, pc, kids) \in Walks
    BY DEF Turned, Walks
  <1>2. WithResults(v, results) \in Walks
    BY DEF WithResults, Walks
  <1> QED
    BY <1>1, <1>2 DEF Turned, WithResults, Walks

\* A subworkflow node and a loop node call a run.
LEMMA Calls ==
    ASSUME WalksTyped, NEW r \in Runs, StartSubworkflow(r) \/ StartLoop(r)
    PROVE  \E w, new, row : Call(r, w, new, row)
  <1> USE DEF git, db, bounds
  <1>1. walk[r] \in Walks /\ DOMAIN walk = Runs /\ NextRun \in Nat
    BY RunAndWalk DEF NextRun, WalksTyped
  <1>2. PICK kids \in Seq(Nat) :
           /\ kids = <<NextRun>> \/ kids = Append(walk[r].kids, NextRun)
           /\ Create(At(r).ref, r, 0, [walk EXCEPT ![r].pc = "wait", ![r].kids = kids])
    <2>1. CASE StartSubworkflow(r)
      <3>1. <<NextRun>> \in Seq(Nat)
        BY <1>1
      <3> QED
        BY <2>1, <3>1 DEF StartSubworkflow
    <2>2. CASE StartLoop(r)
      <3>1. Append(walk[r].kids, NextRun) \in Seq(Nat)
        BY <1>1 DEF Walks
      <3>2. [walk EXCEPT ![r].pc = "wait", ![r].kids = Append(@, NextRun)]
              = [walk EXCEPT ![r].pc = "wait", ![r].kids = Append(walk[r].kids, NextRun)]
        BY <1>1 DEF Walks
      <3> QED
        BY <2>2, <3>1, <3>2 DEF StartLoop
    <2> QED
      BY <2>1, <2>2
  <1>3. /\ walk[r].pc \in {"visit", "exec"} /\ walk[r].node <= Len(Nodes(r))
        /\ At(r).type \in {"subworkflow", "loop"}
        /\ UNCHANGED <<trees, locked, scan, crashes>>
    BY DEF StartSubworkflow, StartLoop, Is, Type
  <1>4. At(r).ref \in DOMAIN Workflows
    BY <1>3, NodeAtHand
  <1> DEFINE w == Turned(walk[r], "wait", kids)
  <1>5. [walk EXCEPT ![r].pc = "wait", ![r].kids = kids] = [walk EXCEPT ![r] = w]
    BY <1>1 DEF Turned
  <1>6. w \in Walks /\ w.pc = "wait" /\ w.kids = kids /\ w.node = walk[r].node
    <2>1. "wait" \in Pcs /\ walk[r].results \in Seq(Results)
      BY <1>1 DEF Pcs, Walks
    <2> QED
      BY <1>1, <1>2, <2>1, ChangedWalks
  <1>7. w.node # 0
    BY <1>3, <1>6 DEF WalksTyped
  <1> HIDE DEF w
  <1>8. PICK new \in Walks : /\ Grown(r, w, new, NewRow(At(r).ref, r, 0))
                             /\ new.pc = "visit" /\ new.kids = <<>>
    BY <1>2, <1>3, <1>4, <1>5, <1>6, <1>7, Creates
  <1>9. NewRow(At(r).ref, r, 0).index = 0
    BY DEF NewRow
  <1>10. Call(r, w, new, NewRow(At(r).ref, r, 0))
    BY <1>2, <1>3, <1>6, <1>8, <1>9 DEF Call
  <1> QED
    BY <1>10

\* An item that is started is an item that begins.
LEMMA ItemBegun ==
    ASSUME WalksTyped, NEW r \in Runs, NEW i \in Items(r), StartItem(r, i)
    PROVE  \E w, new, row : ItemBegins(r, i, w, new, row)
  <1>1. walk[r] \in Walks /\ DOMAIN walk = Runs /\ NextRun \in Nat
    BY RunAndWalk DEF NextRun, WalksTyped
  <1>2. walk[r].pc = "pool" /\ walk[r].node <= Len(Nodes(r)) /\ At(r).type = "map"
    BY DEF StartItem, Is, Type
  <1>3. At(r).ref \in DOMAIN Workflows
    BY <1>2, NodeAtHand
  <1> DEFINE kids == [walk[r].kids EXCEPT ![i] = NextRun]
             w == Turned(walk[r], "pool", kids)
  <1>4. kids \in Seq(Nat) /\ i \in Nat /\ i > 0
    BY <1>1 DEF Walks, Items
  <1> HIDE DEF kids
  <1>5. [walk EXCEPT ![r].kids[i] = NextRun] = [walk EXCEPT ![r] = w]
    BY <1>1, <1>2 DEF Turned, kids, Walks
  <1>6. /\ w \in Walks /\ w.pc = "pool" /\ w.kids = kids /\ w.node = walk[r].node
        /\ w.results = walk[r].results
    <2>1. "pool" \in Pcs /\ walk[r].results \in Seq(Results)
      BY <1>1 DEF Pcs, Walks
    <2> QED
      BY <1>1, <1>4, <2>1, ChangedWalks
  <1>7. w.node # 0
    BY <1>2, <1>6 DEF WalksTyped
  <1> HIDE DEF w
  <1>8. /\ Create(At(r).ref, r, i, [walk EXCEPT ![r] = w])
        /\ UNCHANGED <<scan, crashes>>
    BY <1>5 DEF StartItem, bounds
  <1>9. PICK new \in Walks : /\ Grown(r, w, new, NewRow(At(r).ref, r, i))
                             /\ new.pc = "visit" /\ new.kids = <<>>
    BY <1>3, <1>4, <1>6, <1>7, <1>8, Creates
  <1>10. NewRow(At(r).ref, r, i).index > 0
    BY <1>4 DEF NewRow
  <1>11. ItemBegins(r, i, w, new, NewRow(At(r).ref, r, i))
    BY <1>2, <1>6, <1>9, <1>10 DEF ItemBegins, StartItem, Taken, kids
  <1> QED
    BY <1>11

\* An item whose worktree cannot be made has a row and no walk.
LEMMA ItemNotSetUp ==
    ASSUME WalksTyped, NEW r \in Runs, NEW i \in Items(r), ItemSetupFails(r, i)
    PROVE  \E w, row : ItemMissing(r, i, w, row)
  <1>1. walk[r] \in Walks /\ DOMAIN walk = Runs /\ NextRun \in Nat
    BY RunAndWalk DEF NextRun, WalksTyped
  <1>2. walk[r].pc = "pool" /\ walk[r].node <= Len(Nodes(r)) /\ At(r).type = "map"
    BY DEF ItemSetupFails, Is, Type
  <1>3. At(r).ref \in DOMAIN Workflows
    BY <1>2, NodeAtHand
  <1>4. i \in Nat /\ r \in Nat
    BY <1>1, RunAndWalk DEF Walks, Items
  <1> DEFINE results == [walk[r].results EXCEPT ![i] = "raised"]
             w == WithResults(walk[r], results)
             row == NewRow(At(r).ref, r, i)
  <1>5. results \in Seq(Results)
    <2>1. walk[r].results \in Seq(Results)
      BY <1>1 DEF Walks
    <2>2. PICK x \in Results : x = "raised"
      BY DEF Results
    <2>3. [walk[r].results EXCEPT ![i] = x] \in Seq(Results)
      <3> DEFINE s == walk[r].results
      <3> HIDE DEF s
      <3>1. s \in Seq(Results) /\ x \in Results
        BY <2>1, <2>2 DEF s
      <3>2. [s EXCEPT ![i] = x] \in Seq(Results)
        <4>1. CASE i \in 1..Len(s)
          BY <3>1, <4>1, ExceptSeq
        <4>2. CASE i \notin 1..Len(s)
          <5>1. [s EXCEPT ![i] = x] = s
            BY <3>1, <4>2
          <5> QED
            BY <3>1, <5>1
        <4> QED
          BY <4>1, <4>2
      <3> QED
        BY <3>2 DEF s
    <2> QED
      BY <2>2, <2>3
  <1> HIDE DEF results
  <1>6. [walk EXCEPT ![r].results[i] = "raised"] = [walk EXCEPT ![r] = w]
    BY <1>1, <1>2 DEF WithResults, results, Walks
  <1>7. /\ w \in Walks /\ w.pc = walk[r].pc /\ w.kids = walk[r].kids
        /\ w.node = walk[r].node /\ w.results = results
    <2>1. walk[r].pc \in Pcs /\ walk[r].kids \in Seq(Nat)
      BY <1>1 DEF Walks
    <2> QED
      BY <1>1, <1>5, <2>1, ChangedWalks
  <1>8. w.node # 0
    BY <1>2, <1>7 DEF WalksTyped
  <1>9. row \in RunRows /\ row.parent = r /\ row.status = "RUNNING"
    BY <1>3, <1>4 DEF NewRow, RunRows, RunStatuses
  <1>10. DOMAIN [n \in 1..Len(Workflows[At(r).ref]) |-> <<>>] = DOMAIN Workflows[row.wf]
    BY <1>3, CompositeAssumption DEF NewRow
  <1>11. NoWalk \in Walks /\ NoWalk.pc = "none"
    BY <1>1, WrittenWalks DEF NoWalk
  <1> HIDE DEF w
  <1>12. /\ walk' = Append([walk EXCEPT ![r] = w], NoWalk)
         /\ runs' = Append(runs, row)
         /\ done' = Append(done, [n \in 1..Len(Workflows[At(r).ref]) |-> <<>>])
         /\ UNCHANGED <<trees, locked, scan, crashes>>
    BY <1>6 DEF ItemSetupFails, bounds
  <1> HIDE DEF row
  <1>13. Grown(r, w, NoWalk, row)
    BY <1>7, <1>8, <1>9, <1>10, <1>11, <1>12 DEF Grown
  <1>14. ItemMissing(r, i, w, row)
    BY <1>2, <1>7, <1>12, <1>13 DEF ItemMissing, ItemSetupFails, Taken, results
  <1> QED
    BY <1>14

\* The run that r waits for has returned, and r goes on or returns.
GoesOn(r, w) ==
    /\ w \in Walks
    /\ walk[r].pc = "wait" /\ walk[Child(r)].pc = "return"
    /\ walk' = [[walk EXCEPT ![Child(r)] = NoWalk] EXCEPT ![r] = w]
    /\ w.pc = "return" \/ (w.pc = "visit" /\ w.node # 0)
    /\ w.kids \in {<<>>, walk[r].kids}
    /\ Reported(r, w)
    /\ UNCHANGED <<trees, locked>>

\* A map begins, an item returns, the pool ends, the map ends.
MapBegins(r, w) ==
    /\ w \in Walks
    /\ walk[r].pc = "exec"
    /\ walk' = [walk EXCEPT ![r] = w]
    /\ w.pc = "pool" /\ w.node # 0
    /\ Len(w.results) = Len(w.kids)
    /\ \A i \in 1..Len(w.kids) : w.kids[i] = 0
    /\ UNCHANGED <<runs, done, trees, locked, scan, crashes>>

ItemEnds(r, i, w) ==
    /\ w \in Walks
    /\ walk[r].pc = "pool" /\ i \in Items(r) /\ walk[r].kids[i] # 0
    /\ walk[walk[r].kids[i]].pc = "return"
    /\ walk' = [[walk EXCEPT ![r] = w] EXCEPT ![walk[r].kids[i]] = NoWalk]
    /\ w.pc = "pool" /\ w.node # 0 /\ w.kids = walk[r].kids
    /\ w.results = [walk[r].results EXCEPT ![i] = walk[walk[r].kids[i]].result]
    /\ locked' = FALSE
    /\ UNCHANGED <<runs, done, trees, scan, crashes>>

PoolEnds(r, w) ==
    /\ w \in Walks
    /\ walk[r].pc = "pool" /\ PoolIdle(r)
    /\ walk' = [walk EXCEPT ![r] = w]
    /\ \/ /\ w.pc = "merge" /\ w.node # 0 /\ w.kids = walk[r].kids
          /\ UNCHANGED <<runs, done>>
       \/ /\ w.pc = "return" /\ w.kids = <<>>
          /\ runs' = [runs EXCEPT ![r].status = "FAILED"]
          /\ \E n \in DOMAIN Nodes(r) : /\ Nodes(r)[n].type = "map"
                                        /\ done' = [done EXCEPT ![r][n] = Raised]
    /\ UNCHANGED <<trees, locked, scan, crashes>>

MapEnds(r, w) ==
    /\ w \in Walks
    /\ walk[r].pc = "merge"
    /\ walk' = [walk EXCEPT ![r] = w]
    /\ w.pc = "return" \/ (w.pc = "visit" /\ w.node # 0)
    /\ w.kids = <<>>
    /\ trees' = trees \ Range(walk[r].kids)
    /\ Reported(r, w)
    /\ UNCHANGED locked

\* When a called run has returned, its caller goes on or returns.
LEMMA Returns ==
    ASSUME WalksTyped, NEW r \in Runs, Child(r) \in Runs,
           SubworkflowReturns(r) \/ ChildDisappoints(r) \/ IterationReturns(r)
    PROVE  \E w : GoesOn(r, w)
  <1> USE DEF git, db, bounds
  <1>1. walk[r] \in Walks /\ DOMAIN walk = Runs
    BY RunAndWalk
  <1>2. /\ walk[r].pc = "wait" /\ walk[Child(r)].pc = "return" /\ walk[r].node # 0
        /\ UNCHANGED <<trees, locked, scan, crashes>>
    BY DEF SubworkflowReturns, ChildDisappoints, IterationReturns, ChildReturns, Is, WalksTyped
  <1>3. r # Child(r)
    BY <1>2
  <1>4. ASSUME NEW v PROVE [Closed(r) EXCEPT ![r] = v]
                             = [[walk EXCEPT ![Child(r)] = NoWalk] EXCEPT ![r] = v]
    BY DEF Closed
  <1>5. Closed(r)[r] = walk[r]
    BY <1>1, <1>3 DEF Closed
  <1>6. /\ Advanced(walk[r]) \in Walks /\ Advanced(walk[r]).pc = "visit"
        /\ Advanced(walk[r]).kids = <<>> /\ Advanced(walk[r]).node # 0
        /\ \A s \in RunStatuses : /\ Returned(walk[r], s) \in Walks
                                  /\ Returned(walk[r], s).pc = "return"
                                  /\ Returned(walk[r], s).kids = <<>>
    BY <1>1, WrittenWalks
  <1>7. ASSUME walk' = [Closed(r) EXCEPT ![r] = Advanced(@)], runs' = runs,
               \E n, x : done' = [done EXCEPT ![r][n] = x]
        PROVE  GoesOn(r, Advanced(walk[r]))
    <2>1. walk' = [[walk EXCEPT ![Child(r)] = NoWalk] EXCEPT ![r] = Advanced(walk[r])]
      BY <1>4, <1>5, <1>7
    <2> QED
      BY <1>2, <1>6, <1>7, <2>1 DEF GoesOn, Reported
  <1>8. CASE SubworkflowReturns(r)
    BY <1>7, <1>8 DEF SubworkflowReturns
  <1>9. CASE ChildDisappoints(r)
    <2>1. /\ runs' = [runs EXCEPT ![r].status = "FAILED"]
          /\ walk' = [Closed(r) EXCEPT ![r] = Returned(@, "FAILED")]
          /\ done' = done
      BY <1>9 DEF ChildDisappoints
    <2>2. walk' = [[walk EXCEPT ![Child(r)] = NoWalk] EXCEPT ![r] = Returned(walk[r], "FAILED")]
      BY <1>4, <1>5, <2>1
    <2>3. "FAILED" \in RunStatuses
      BY DEF RunStatuses
    <2>4. GoesOn(r, Returned(walk[r], "FAILED"))
      BY <1>2, <1>6, <2>1, <2>2, <2>3 DEF GoesOn, Reported
    <2> QED
      BY <2>4
  <1>10. CASE IterationReturns(r)
    <2>1. CASE walk' = [Closed(r) EXCEPT ![r].pc = "visit"] /\ UNCHANGED done
      <3> DEFINE w == Turned(walk[r], "visit", walk[r].kids)
      <3>1. "visit" \in Pcs /\ walk[r].kids \in Seq(Nat) /\ walk[r].results \in Seq(Results)
        BY <1>1 DEF Pcs, Walks
      <3>2. w \in Walks /\ w.pc = "visit" /\ w.kids = walk[r].kids /\ w.node = walk[r].node
        BY <1>1, <3>1, ChangedWalks
      <3>3. w = [walk[r] EXCEPT !.pc = "visit"]
        BY <1>1 DEF Turned, Walks
      <3>4. walk' = [Closed(r) EXCEPT ![r] = w]
        BY <1>5, <2>1, <3>3
      <3> HIDE DEF w
      <3>5. walk' = [[walk EXCEPT ![Child(r)] = NoWalk] EXCEPT ![r] = w]
        BY <1>4, <3>4
      <3>6. GoesOn(r, w)
        BY <1>2, <1>10, <2>1, <3>2, <3>5 DEF GoesOn, Reported, IterationReturns
      <3> QED
        BY <3>6
    <2>2. CASE /\ walk' = [Closed(r) EXCEPT ![r] = Advanced(@)]
               /\ done' = [done EXCEPT ![r][walk[r].node] = walk[r].kids]
      BY <1>7, <1>10, <2>2 DEF IterationReturns
    <2> QED
      BY <1>10, <2>1, <2>2 DEF IterationReturns
  <1> QED
    BY <1>8, <1>9, <1>10

\* A map node begins with a pool in which nothing is started.
LEMMA MapBegun ==
    ASSUME WalksTyped, NEW r \in Runs, StartMap(r)
    PROVE  \E w : MapBegins(r, w)
  <1>1. walk[r] \in Walks /\ DOMAIN walk = Runs
    BY RunAndWalk
  <1>2. /\ walk[r].pc = "exec" /\ walk[r].node <= Len(Nodes(r)) /\ At(r).type = "map"
        /\ walk[r].node # 0
    BY DEF StartMap, Is, Type, WalksTyped
  <1>3. PICK n \in Nat : n = At(r).items
    BY <1>2, NodeAtHand
  <1> DEFINE kids == [i \in 1..n |-> 0]
             results == [i \in 1..n |-> "none"]
             w == WithResults(Turned(walk[r], "pool", kids), results)
  <1>4. /\ kids \in Seq(Nat) /\ Len(kids) = n /\ \A i \in 1..Len(kids) : kids[i] = 0
        /\ results \in Seq(Results) /\ Len(results) = n
    BY DEF Results
  <1>5. walk' = [walk EXCEPT ![r].pc = "pool", ![r].kids = kids, ![r].results = results]
    BY <1>3 DEF StartMap
  <1> HIDE DEF kids, results
  <1>6. "pool" \in Pcs
    BY DEF Pcs
  <1>7. /\ w \in Walks /\ w.pc = "pool" /\ w.kids = kids /\ w.results = results
        /\ w.node = walk[r].node
    <2>1. /\ Turned(walk[r], "pool", kids) \in Walks
          /\ Turned(walk[r], "pool", kids).pc = "pool"
          /\ Turned(walk[r], "pool", kids).kids = kids
          /\ Turned(walk[r], "pool", kids).node = walk[r].node
      BY <1>1, <1>4, <1>6, ChangedWalks
    <2>2. kids \in Seq(Nat) /\ "pool" \in Pcs
      BY <1>4, <1>6
    <2> QED
      BY <2>1, <2>2, <1>4, ChangedWalks
  <1>8. walk' = [walk EXCEPT ![r] = w]
    BY <1>1, <1>5 DEF Turned, WithResults
  <1>9. UNCHANGED <<runs, done, trees, locked, scan, crashes>>
    BY DEF StartMap, db, git, bounds
  <1> HIDE DEF w
  <1>10. MapBegins(r, w)
    BY <1>2, <1>4, <1>7, <1>8, <1>9 DEF MapBegins
  <1> QED
    BY <1>10

\* An item that returns gives the lock back.
LEMMA ItemEnded ==
    ASSUME WalksTyped, NEW r \in Runs, NEW i \in Items(r), walk[r].kids[i] \in Runs,
           ItemReturns(r, i)
    PROVE  \E w : ItemEnds(r, i, w)
  <1> DEFINE k == walk[r].kids[i]
             results == [walk[r].results EXCEPT ![i] = walk[k].result]
             w == WithResults(walk[r], results)
  <1>1. walk[r] \in Walks /\ walk[k] \in Walks /\ DOMAIN walk = Runs
    BY RunAndWalk
  <1>2. /\ walk[r].pc = "pool" /\ walk[r].node # 0
        /\ k # 0 /\ walk[k].pc = "return"
        /\ walk' = [walk EXCEPT ![r].results[i] = walk[k].result, ![k] = NoWalk]
        /\ locked' = FALSE
        /\ UNCHANGED <<runs, done, trees, scan, crashes>>
    BY DEF ItemReturns, Is, WalksTyped, db, git, bounds
  <1>3. results \in Seq(Results)
    <2>1. walk[r].results \in Seq(Results) /\ walk[k].result \in Results
      BY <1>1 DEF Walks
    <2>2. CASE i \in 1..Len(walk[r].results)
      BY <2>1, <2>2, ExceptSeq
    <2>3. CASE i \notin 1..Len(walk[r].results)
      <3>1. results = walk[r].results
        BY <2>1, <2>3
      <3> QED
        BY <2>1, <3>1
    <2> QED
      BY <2>2, <2>3
  <1> HIDE DEF results
  <1>4. /\ w \in Walks /\ w.pc = "pool" /\ w.kids = walk[r].kids
        /\ w.results = results /\ w.node = walk[r].node
    <2>1. walk[r].pc \in Pcs /\ walk[r].kids \in Seq(Nat)
      BY <1>1 DEF Walks
    <2> QED
      BY <1>1, <1>2, <1>3, <2>1, ChangedWalks
  <1>5. walk' = [[walk EXCEPT ![r] = w] EXCEPT ![k] = NoWalk]
    BY <1>1, <1>2 DEF WithResults, results
  <1> HIDE DEF w
  <1>6. ItemEnds(r, i, w)
    BY <1>2, <1>4, <1>5 DEF ItemEnds, results
  <1> QED
    BY <1>6

\* A pool ends in merges or in an exception.
LEMMA PoolEnded ==
    ASSUME WalksTyped, NEW r \in Runs, PoolRaises(r) \/ PoolDone(r)
    PROVE  \E w : PoolEnds(r, w)
  <1> USE DEF git, db, bounds
  <1>1. walk[r] \in Walks /\ DOMAIN walk = Runs
    BY RunAndWalk
  <1>2. /\ walk[r].pc = "pool" /\ walk[r].node # 0 /\ PoolIdle(r)
        /\ walk[r].node <= Len(Nodes(r)) /\ At(r).type = "map"
        /\ UNCHANGED <<trees, locked, scan, crashes>>
    BY DEF PoolRaises, PoolDone, Is, Type, WalksTyped
  <1>3. CASE PoolDone(r)
    <2> DEFINE w == Turned(walk[r], "merge", walk[r].kids)
    <2>1. "merge" \in Pcs /\ walk[r].kids \in Seq(Nat) /\ walk[r].results \in Seq(Results)
      BY <1>1 DEF Pcs, Walks
    <2>2. w \in Walks /\ w.pc = "merge" /\ w.kids = walk[r].kids /\ w.node = walk[r].node
      BY <1>1, <2>1, ChangedWalks
    <2>3. w = [walk[r] EXCEPT !.pc = "merge"]
      BY <1>1 DEF Turned, Walks
    <2>4. walk' = [walk EXCEPT ![r] = w]
      BY <1>1, <1>3, <2>3 DEF PoolDone, Go
    <2> HIDE DEF w
    <2>5. PoolEnds(r, w)
      BY <1>2, <1>3, <2>2, <2>4 DEF PoolEnds, PoolDone
    <2> QED
      BY <2>5
  <1>4. CASE PoolRaises(r)
    <2> DEFINE w == Returned(walk[r], "FAILED")
    <2>1. w \in Walks /\ w.pc = "return" /\ w.kids = <<>>
      BY <1>1, WrittenWalks DEF RunStatuses
    <2>2. walk' = [walk EXCEPT ![r] = w] /\ runs' = [runs EXCEPT ![r].status = "FAILED"]
      BY <1>1, <1>4 DEF PoolRaises, Fail
    <2>3. /\ walk[r].node \in DOMAIN Nodes(r) /\ Nodes(r)[walk[r].node].type = "map"
          /\ done' = [done EXCEPT ![r][walk[r].node] = Raised]
      BY <1>2, <1>4, NodeAtHand DEF PoolRaises, At
    <2> HIDE DEF w
    <2>4. PoolEnds(r, w)
      BY <1>2, <2>1, <2>2, <2>3 DEF PoolEnds
    <2> QED
      BY <2>4
  <1> QED
    BY <1>3, <1>4

\* A map node ends by removing the worktrees of its items.
LEMMA MapEnded ==
    ASSUME WalksTyped, NEW r \in Runs, MapFails(r) \/ MapSucceeds(r)
    PROVE  \E w : MapEnds(r, w)
  <1> USE DEF git, db, bounds
  <1>1. walk[r] \in Walks /\ DOMAIN walk = Runs
    BY RunAndWalk
  <1>2. /\ walk[r].pc = "merge"
        /\ trees' = trees \ Range(walk[r].kids)
        /\ UNCHANGED <<locked, scan, crashes>>
    BY DEF MapFails, MapSucceeds, RemoveItemTrees, MergesLeft, Is
  <1>3. /\ Advanced(walk[r]) \in Walks /\ Advanced(walk[r]).pc = "visit"
        /\ Advanced(walk[r]).kids = <<>> /\ Advanced(walk[r]).node # 0
        /\ \A s \in RunStatuses : /\ Returned(walk[r], s) \in Walks
                                  /\ Returned(walk[r], s).pc = "return"
                                  /\ Returned(walk[r], s).kids = <<>>
    BY <1>1, WrittenWalks
  <1>4. CASE MapSucceeds(r)
    <2>1. /\ walk' = [walk EXCEPT ![r] = Advanced(walk[r])] /\ runs' = runs
          /\ done' = [done EXCEPT ![r][walk[r].node] = walk[r].kids]
      BY <1>1, <1>4 DEF MapSucceeds, Succeed
    <2>2. MapEnds(r, Advanced(walk[r]))
      BY <1>2, <1>3, <2>1 DEF MapEnds, Reported
    <2> QED
      BY <2>2
  <1>5. CASE MapFails(r)
    <2>1. /\ walk' = [walk EXCEPT ![r] = Returned(walk[r], "FAILED")] /\ done' = done
          /\ runs' = [runs EXCEPT ![r].status = "FAILED"]
          /\ "FAILED" \in RunStatuses
      BY <1>1, <1>5 DEF MapFails, Fail, RunStatuses
    <2>2. MapEnds(r, Returned(walk[r], "FAILED"))
      BY <1>2, <1>3, <2>1 DEF MapEnds, Reported
    <2> QED
      BY <2>2
  <1> QED
    BY <1>4, <1>5

-----------------------------------------------------------------------------
(* What a step leaves as it was                                             *)

\* The rows of the runs stay, but for their status.
SameLineage(q) ==
    /\ runs'[q].parent = runs[q].parent
    /\ runs'[q].index = runs[q].index
    /\ runs'[q].wf = runs[q].wf

\* A new run, its walk, and its caller's.
LEMMA GrownBy ==
    ASSUME TypeInv, NEW r \in Runs, NEW w, NEW new, NEW row, Grown(r, w, new, row)
    PROVE  /\ NextRun \notin Runs /\ Runs' = Runs \cup {NextRun} /\ NextRun \in Nat
           /\ NextRun # 0
           /\ walk'[r] = w /\ walk'[NextRun] = new
           /\ \A q \in Runs \ {r} : walk'[q] = walk[q]
           /\ runs'[NextRun] = row
           /\ \A q \in Runs : runs'[q] = runs[q] /\ done'[q] = done[q]
           /\ WalksTyped' /\ DoneTyped'
  <1>1. /\ runs \in Seq(RunRows) /\ walk \in Seq(Walks) /\ Len(walk) = Len(runs)
        /\ done \in Seq(Range(done)) /\ Len(done) = Len(runs)
        /\ Runs = 1..Len(runs) /\ DOMAIN walk = Runs
    BY RunAndWalk DEF TypeInv, WalksTyped, DoneTyped
  <1>2. /\ w \in Walks /\ new \in Walks /\ row \in RunRows
        /\ walk' = Append([walk EXCEPT ![r] = w], new)
        /\ runs' = Append(runs, row)
    BY DEF Grown
  <1>3. /\ runs' \in Seq(RunRows) /\ Len(runs') = Len(runs) + 1
        /\ runs'[Len(runs) + 1] = row
        /\ \A q \in 1..Len(runs) : runs'[q] = runs[q]
    BY <1>1, <1>2, AppendProperties
  <1>4. PICK start \in Seq(Walks) :
           /\ start = [walk EXCEPT ![r] = w] /\ Len(start) = Len(walk)
           /\ start[r] = w /\ \A q \in Runs \ {r} : start[q] = walk[q]
    <2>1. r \in 1..Len(walk) /\ w \in Walks
      BY <1>1, <1>2
    <2>2. /\ [walk EXCEPT ![r] = w] \in Seq(Walks)
          /\ Len([walk EXCEPT ![r] = w]) = Len(walk)
      BY <1>1, <2>1, ExceptSeq
    <2>3. /\ [walk EXCEPT ![r] = w][r] = w
          /\ \A q \in Runs \ {r} : [walk EXCEPT ![r] = w][q] = walk[q]
      BY <1>1
    <2> QED
      BY <2>2, <2>3
  <1>5. /\ walk' \in Seq(Walks) /\ Len(walk') = Len(start) + 1
        /\ walk'[Len(start) + 1] = new
        /\ \A q \in 1..Len(start) : walk'[q] = start[q]
    BY <1>2, <1>4, AppendProperties
  <1>6. PICK x : DOMAIN x = DOMAIN Workflows[row.wf] /\ done' = Append(done, x)
    BY DEF Grown
  <1>7. /\ done' \in Seq(Range(done')) /\ Len(done') = Len(done) + 1
        /\ done'[Len(done) + 1] = x
        /\ \A q \in 1..Len(done) : done'[q] = done[q]
    <2> DEFINE S == Range(done) \cup {x}
    <2>1. done \in Seq(S) /\ x \in S
      BY <1>1
    <2> HIDE DEF S
    <2>2. /\ done' \in Seq(S) /\ Len(done') = Len(done) + 1
          /\ done'[Len(done) + 1] = x
          /\ \A q \in 1..Len(done) : done'[q] = done[q]
      BY <1>6, <2>1, AppendProperties
    <2>3. done' \in Seq(Range(done'))
      BY <2>2 DEF Range
    <2> QED
      BY <2>2, <2>3
  <1>8. /\ NextRun \notin Runs /\ Runs' = Runs \cup {NextRun} /\ NextRun \in Nat
        /\ NextRun = Len(runs) + 1 /\ NextRun # 0
    BY <1>1, <1>3 DEF NextRun, Runs
  <1>9. /\ walk'[r] = w /\ walk'[NextRun] = new
        /\ \A q \in Runs \ {r} : walk'[q] = walk[q]
        /\ runs'[NextRun] = row
        /\ \A q \in Runs : runs'[q] = runs[q] /\ done'[q] = done[q]
    BY <1>1, <1>3, <1>4, <1>5, <1>7, <1>8
  <1>10. WalksTyped'
    <2>1. ASSUME NEW q \in Runs', walk'[q].pc \notin {"none", "return"}
          PROVE  walk'[q].node # 0
      <3>1. CASE q = NextRun
        BY <1>9, <2>1, <3>1 DEF Grown
      <3>2. CASE q = r
        BY <1>9, <2>1, <3>2 DEF Grown
      <3>3. CASE q \in Runs \ {r}
        BY <1>9, <2>1, <3>3 DEF TypeInv, WalksTyped
      <3> QED
        BY <1>8, <2>1, <3>1, <3>2, <3>3
    <2> QED
      BY <1>1, <1>3, <1>4, <1>5, <2>1 DEF WalksTyped
  <1>11. DoneTyped'
    <2>1. ASSUME NEW q \in Runs'
          PROVE  DOMAIN done'[q] = DOMAIN Nodes(q)'
      <3>1. CASE q = NextRun
        BY <1>1, <1>6, <1>7, <1>8, <1>9, <3>1 DEF Nodes
      <3>2. CASE q \in Runs
        BY <1>9, <3>2 DEF TypeInv, DoneTyped, Nodes
      <3> QED
        BY <1>8, <2>1, <3>1, <3>2
    <2> QED
      BY <1>1, <1>3, <1>7, <2>1 DEF DoneTyped
  <1> QED
    BY <1>8, <1>9, <1>10, <1>11

\* What a run reports is about itself.
LEMMA ReportedBy ==
    ASSUME TypeInv, NEW r \in Runs, NEW w, Reported(r, w)
    PROVE  /\ Runs' = Runs /\ runs' \in Seq(RunRows) /\ Len(runs') = Len(runs)
           /\ \A q \in Runs : SameLineage(q)
           /\ \A q \in Runs \ {r} : runs'[q] = runs[q] /\ done'[q] = done[q]
           /\ w.pc # "return" => runs' = runs
           /\ DoneTyped'
  <1>1. /\ runs \in Seq(RunRows) /\ Runs = 1..Len(runs)
        /\ done \in Seq(Range(done)) /\ Len(done) = Len(runs)
    BY RunAndWalk DEF TypeInv, WalksTyped, DoneTyped
  <1>2. /\ Runs' = Runs /\ runs' \in Seq(RunRows) /\ Len(runs') = Len(runs)
        /\ \A q \in Runs : SameLineage(q)
        /\ \A q \in Runs \ {r} : runs'[q] = runs[q]
        /\ w.pc # "return" => runs' = runs
    <2>1. CASE runs' = runs
      BY <1>1, <2>1 DEF Runs, SameLineage
    <2>2. CASE w.pc = "return" /\ \E s \in RunStatuses : runs' = [runs EXCEPT ![r].status = s]
      <3>1. PICK s \in RunStatuses : runs' = [runs EXCEPT ![r].status = s]
        BY <2>2
      <3>2. runs[r] \in RunRows
        BY <1>1
      <3>3. PICK row \in RunRows : /\ row = [runs[r] EXCEPT !.status = s]
                                   /\ row.parent = runs[r].parent
                                   /\ row.index = runs[r].index /\ row.wf = runs[r].wf
        <4>1. [runs[r] EXCEPT !.status = s] \in RunRows
          BY <3>1, <3>2 DEF RunRows
        <4> QED
          BY <3>2, <4>1 DEF RunRows
      <3>4. runs' = [runs EXCEPT ![r] = row]
        BY <3>1, <3>3, <1>1
      <3>5. /\ runs' \in Seq(RunRows) /\ Len(runs') = Len(runs)
            /\ \A q \in 1..Len(runs) : runs'[q] = IF q = r THEN row ELSE runs[q]
        BY <3>3, <3>4, <1>1, ExceptSeq
      <3> QED
        BY <1>1, <2>2, <3>3, <3>5 DEF Runs, SameLineage
    <2> QED
      BY <2>1, <2>2 DEF Reported
  <1>3. /\ done' \in Seq(Range(done')) /\ Len(done') = Len(done)
        /\ \A q \in Runs \ {r} : done'[q] = done[q]
        /\ \A q \in Runs : DOMAIN done'[q] = DOMAIN done[q]
    <2>1. CASE done' = done
      BY <1>1, <2>1 DEF Range
    <2>2. CASE \E n, x : done' = [done EXCEPT ![r][n] = x]
      <3>1. PICK n, x : done' = [done EXCEPT ![r][n] = x]
        BY <2>2
      <3>2. /\ DOMAIN done = 1..Len(done) /\ DOMAIN done' = DOMAIN done
            /\ Len(done) \in Nat
        BY <1>1, <3>1
      <3>3. done' \in Seq(Range(done')) /\ Len(done') = Len(done)
        <4>1. done' = [q \in 1..Len(done) |-> done'[q]]
          BY <3>1, <3>2
        <4> HIDE <3>1
        <4>2. \A q \in 1..Len(done) : done'[q] \in Range(done')
          BY <3>2 DEF Range
        <4> QED
          BY <3>2, <4>1, <4>2
      <3>4. /\ \A q \in Runs \ {r} : done'[q] = done[q]
            /\ \A q \in Runs : DOMAIN done'[q] = DOMAIN done[q]
        BY <1>1, <3>1
      <3> QED
        BY <3>3, <3>4
    <2> QED
      BY <2>1, <2>2 DEF Reported
  <1>4. DoneTyped'
    BY <1>1, <1>2, <1>3 DEF TypeInv, DoneTyped, Nodes, SameLineage
  <1> QED
    BY <1>2, <1>3, <1>4

-----------------------------------------------------------------------------
(* Families: the children a walk has are runs of its own                    *)

FamilyInv ==
    /\ \A r \in Runs : \A i \in Items(r) :
         walk[r].kids[i] # 0 =>
            /\ walk[r].kids[i] \in Runs
            /\ runs[walk[r].kids[i]].parent = r
            /\ walk[r].pc \notin {"pool", "merge"} => runs[walk[r].kids[i]].index = 0
    /\ \A r \in Runs : walk[r].pc = "wait" => walk[r].kids # <<>> /\ Child(r) # 0
    /\ \A r \in Runs : walk[r].pc = "none" => walk[r] = NoWalk
    /\ \A r \in Runs : /\ runs[r].parent \in Runs \cup {0}
                       /\ runs[r].index > 0 => runs[r].parent \in Runs

\* What one run may do, and what a scan may do that is not yet a walk.
Moves(r) ==
    \/ \E w : OwnStep(r, w) \/ GoesOn(r, w) \/ MapBegins(r, w) \/ PoolEnds(r, w) \/ MapEnds(r, w)
    \/ \E w, new, row : Call(r, w, new, row)
    \/ \E i \in Items(r) : \E w, row : ItemMissing(r, i, w, row)
    \/ \E i \in Items(r) : \E w, new, row : ItemBegins(r, i, w, new, row)
    \/ \E i \in Items(r) : \E w : ItemEnds(r, i, w)
    \/ Close(r)

Rests ==
    /\ UNCHANGED <<runs, walk, done, trees, locked, crashes>>
    /\ \/ scan' \in {scan, {}}
       \/ Quiet /\ scan' = {r \in Runs : runs[r].status \notin TerminalRunStatuses}

\* The child a run waits for is a run.
LEMMA ChildIsRun ==
    ASSUME TypeInv, FamilyInv, NEW r \in Runs, walk[r].pc = "wait"
    PROVE  /\ Child(r) \in Runs /\ runs[Child(r)].parent = r /\ runs[Child(r)].index = 0
           /\ \E i \in Items(r) : walk[r].kids[i] = Child(r)
  <1>1. walk[r].kids \in Seq(Nat) /\ walk[r].kids # <<>> /\ Child(r) # 0
    BY RunAndWalk DEF TypeInv, FamilyInv, Walks
  <1>2. Len(walk[r].kids) \in Items(r) /\ walk[r].kids[Len(walk[r].kids)] = Child(r)
    BY <1>1 DEF Items, Child, Last
  <1> QED
    BY <1>1, <1>2 DEF FamilyInv

\* What a walk does is of one of these kinds.
LEMMA WalkMoves ==
    ASSUME TypeInv, FamilyInv, NEW r \in Runs, WalkStep(r)
    PROVE  Moves(r)
  <1> USE DEF git, db, bounds
  <1>t. WalksTyped
    BY DEF TypeInv
  <1>1. CASE SimpleStep(r)
    BY <1>t, <1>1, SimpleSteps DEF Moves
  <1>2. CASE StartSubworkflow(r) \/ StartLoop(r)
    BY <1>t, <1>2, Calls DEF Moves
  <1>3. CASE SubworkflowReturns(r) \/ ChildDisappoints(r) \/ IterationReturns(r)
    <2>1. walk[r].pc = "wait"
      BY <1>3 DEF SubworkflowReturns, ChildDisappoints, IterationReturns, ChildReturns, Is
    <2>2. Child(r) \in Runs
      BY <2>1, ChildIsRun
    <2> QED
      BY <1>t, <1>3, <2>2, Returns DEF Moves
  <1>4. CASE StartMap(r)
    BY <1>t, <1>4, MapBegun DEF Moves
  <1>5. ASSUME NEW i \in Items(r), StartItem(r, i)
        PROVE  Moves(r)
    BY <1>t, <1>5, ItemBegun DEF Moves
  <1>6. ASSUME NEW i \in Items(r), ItemSetupFails(r, i)
        PROVE  Moves(r)
    BY <1>t, <1>6, ItemNotSetUp DEF Moves
  <1>7. ASSUME NEW i \in Items(r), ItemReturns(r, i)
        PROVE  Moves(r)
    <2>1. walk[r].kids[i] \in Runs
      BY <1>7 DEF ItemReturns, FamilyInv
    <2> QED
      BY <1>t, <1>7, <2>1, ItemEnded DEF Moves
  <1>8. CASE PoolRaises(r) \/ PoolDone(r)
    BY <1>t, <1>8, PoolEnded DEF Moves
  <1>9. CASE MapFails(r) \/ MapSucceeds(r)
    BY <1>t, <1>9, MapEnded DEF Moves
  <1>10. CASE Close(r)
    BY <1>10 DEF Moves
  <1> QED
    BY <1>1, <1>2, <1>3, <1>4, <1>5, <1>6, <1>7, <1>8, <1>9, <1>10
    DEF WalkStep, SimpleStep

\* These are all the steps there are.
LEMMA NextMoves ==
    ASSUME TypeInv, FamilyInv, [Next]_vars
    PROVE  (\E r \in Runs : Moves(r)) \/ Crash \/ ScanNext \/ Rests
  <1> USE DEF git, db, bounds
  <1>1. \A r \in Runs : WalkStep(r) => Moves(r)
    BY WalkMoves
  <1>2. StartScan => Rests
    BY DEF StartScan, Rests
  <1>3. ScanRaises => Rests
    BY DEF ScanRaises, Rests
  <1>4. UNCHANGED vars => Rests
    BY DEF vars, Rests
  <1> QED
    BY <1>1, <1>2, <1>3, <1>4 DEF Next, Engine

\* Walks of the right shape in the place of others.
LEMMA Replaced ==
    ASSUME WalksTyped, NEW r \in Runs, NEW w \in Walks,
           w.pc \in {"none", "return"} \/ w.node # 0,
           walk' = [walk EXCEPT ![r] = w],
           runs' \in Seq(RunRows), Len(runs') = Len(runs)
    PROVE  /\ WalksTyped' /\ Runs' = Runs
           /\ walk'[r] = w /\ \A q \in Runs \ {r} : walk'[q] = walk[q]
  <1>1. /\ walk \in Seq(Walks) /\ Len(walk) = Len(runs)
        /\ Runs = 1..Len(runs) /\ DOMAIN walk = Runs
    BY RunAndWalk DEF WalksTyped
  <1>2. /\ walk' \in Seq(Walks) /\ Len(walk') = Len(walk)
        /\ \A q \in 1..Len(walk) : walk'[q] = IF q = r THEN w ELSE walk[q]
    BY <1>1, ExceptSeq
  <1>3. Runs' = Runs
    BY <1>1 DEF Runs
  <1>4. /\ walk'[r] = w /\ \A q \in Runs \ {r} : walk'[q] = walk[q]
    BY <1>1, <1>2
  <1>5. \A q \in Runs' : walk'[q].pc \notin {"none", "return"} => walk'[q].node # 0
    BY <1>3, <1>4 DEF WalksTyped
  <1> QED
    BY <1>1, <1>2, <1>3, <1>4, <1>5 DEF WalksTyped

\* Two walks are replaced.
Both(r, w, c, v) == walk' = [[walk EXCEPT ![c] = v] EXCEPT ![r] = w]

\* The same for two walks at once.
LEMMA ReplacedTwo ==
    ASSUME WalksTyped, NEW r \in Runs, NEW c \in Runs, c # r, NEW w \in Walks, NEW v \in Walks,
           w.pc \in {"none", "return"} \/ w.node # 0,
           v.pc \in {"none", "return"} \/ v.node # 0,
           Both(r, w, c, v),
           runs' \in Seq(RunRows), Len(runs') = Len(runs)
    PROVE  /\ WalksTyped' /\ Runs' = Runs
           /\ walk'[r] = w /\ walk'[c] = v /\ \A q \in Runs \ {r, c} : walk'[q] = walk[q]
  <1>1. /\ walk \in Seq(Walks) /\ Len(walk) = Len(runs)
        /\ Runs = 1..Len(runs) /\ DOMAIN walk = Runs
    BY RunAndWalk DEF WalksTyped
  <1>2. PICK between \in Seq(Walks) :
           /\ between = [walk EXCEPT ![c] = v] /\ Len(between) = Len(walk)
           /\ \A q \in 1..Len(walk) : between[q] = IF q = c THEN v ELSE walk[q]
    <2>1. c \in 1..Len(walk)
      BY <1>1
    <2>2. /\ [walk EXCEPT ![c] = v] \in Seq(Walks)
          /\ Len([walk EXCEPT ![c] = v]) = Len(walk)
          /\ \A q \in 1..Len(walk) : [walk EXCEPT ![c] = v][q] = IF q = c THEN v ELSE walk[q]
      BY <1>1, <2>1, ExceptSeq
    <2> QED
      BY <2>2
  <1>3. /\ walk' \in Seq(Walks) /\ Len(walk') = Len(walk)
        /\ \A q \in 1..Len(walk) : walk'[q] = IF q = r THEN w ELSE between[q]
    <2>1. walk' = [between EXCEPT ![r] = w]
      BY <1>2 DEF Both
    <2>2. r \in 1..Len(between)
      BY <1>1, <1>2
    <2> QED
      <3>1. /\ [between EXCEPT ![r] = w] \in Seq(Walks)
            /\ Len([between EXCEPT ![r] = w]) = Len(between)
            /\ \A q \in 1..Len(between) :
                 [between EXCEPT ![r] = w][q] = IF q = r THEN w ELSE between[q]
        BY <1>2, <2>2, ExceptSeq
      <3> QED
        BY <1>2, <2>1, <3>1
  <1>4. Runs' = Runs
    BY <1>1 DEF Runs
  <1>5. /\ walk'[r] = w /\ walk'[c] = v /\ \A q \in Runs \ {r, c} : walk'[q] = walk[q]
    BY <1>1, <1>2, <1>3
  <1>6. \A q \in Runs' : walk'[q].pc \notin {"none", "return"} => walk'[q].node # 0
    BY <1>4, <1>5 DEF WalksTyped
  <1> QED
    BY <1>1, <1>3, <1>4, <1>5, <1>6 DEF WalksTyped

\* A step of one walk, which leaves the others as they were, and a step in which
\* another walk is over.
Alone(r, w) ==
    /\ w \in Walks /\ (w.pc \in {"none", "return"} \/ w.node # 0)
    /\ walk' = [walk EXCEPT ![r] = w]
    /\ Reported(r, w)
    /\ trees' \subseteq trees

Pair(r, c, w) ==
    /\ w \in Walks /\ (w.pc \in {"none", "return"} \/ w.node # 0)
    /\ walk' = [[walk EXCEPT ![c] = NoWalk] EXCEPT ![r] = w]
    /\ Reported(r, w)
    /\ trees' \subseteq trees

\* What is not about r stays, and r reports only when it returns.
Reports(r, w) ==
    /\ \A q \in Runs : SameLineage(q)
    /\ \A q \in Runs \ {r} : runs'[q] = runs[q] /\ done'[q] = done[q]
    /\ w.pc # "return" => runs' = runs

\* A step of one walk keeps the types.
LEMMA AloneBy ==
    ASSUME TypeInv, NEW r \in Runs, NEW w, Alone(r, w)
    PROVE  /\ TypeInv' /\ Runs' = Runs /\ Reports(r, w)
           /\ walk'[r] = w /\ \A q \in Runs \ {r} : walk'[q] = walk[q]
  <1>1. /\ w \in Walks /\ (w.pc \in {"none", "return"} \/ w.node # 0)
        /\ walk' = [walk EXCEPT ![r] = w] /\ Reported(r, w)
        /\ trees' \subseteq trees /\ UNCHANGED <<scan, crashes>>
    BY DEF Alone, Reported
  <1>2. /\ Runs' = Runs /\ runs' \in Seq(RunRows) /\ Len(runs') = Len(runs)
        /\ Reports(r, w)
        /\ DoneTyped'
    BY <1>1, ReportedBy DEF Reports
  <1>3. WalksTyped
    BY DEF TypeInv
  <1>4. /\ WalksTyped'
        /\ walk'[r] = w /\ \A q \in Runs \ {r} : walk'[q] = walk[q]
    BY <1>1, <1>2, <1>3, Replaced
  <1> QED
    BY <1>1, <1>2, <1>4 DEF TypeInv

\* So does a step that ends another walk.
LEMMA PairBy ==
    ASSUME TypeInv, NEW r \in Runs, NEW c \in Runs, c # r, NEW w, Pair(r, c, w)
    PROVE  /\ TypeInv' /\ Runs' = Runs /\ Reports(r, w)
           /\ walk'[r] = w /\ walk'[c] = NoWalk
           /\ \A q \in Runs \ {r, c} : walk'[q] = walk[q]
  <1>1. /\ w \in Walks /\ (w.pc \in {"none", "return"} \/ w.node # 0)
        /\ Reported(r, w)
        /\ trees' \subseteq trees /\ UNCHANGED <<scan, crashes>>
    BY DEF Pair, Reported
  <1>2. /\ Runs' = Runs /\ runs' \in Seq(RunRows) /\ Len(runs') = Len(runs)
        /\ Reports(r, w)
        /\ DoneTyped'
    BY <1>1, ReportedBy DEF Reports
  <1>3. WalksTyped
    BY DEF TypeInv
  <1>4. PICK v \in Walks : v = NoWalk /\ v.pc \in {"none", "return"}
    <2>1. w \in Walks
      BY <1>1
    <2>2. NoWalk \in Walks
      BY <2>1, WrittenWalks
    <2>3. NoWalk.pc = "none"
      BY DEF NoWalk
    <2> QED
      BY <2>2, <2>3
  <1>5. Both(r, w, c, v)
    BY <1>4 DEF Pair, Both
  <1>6. /\ WalksTyped'
        /\ walk'[r] = w /\ walk'[c] = v
        /\ \A q \in Runs \ {r, c} : walk'[q] = walk[q]
    <2>1. w \in Walks /\ (w.pc \in {"none", "return"} \/ w.node # 0)
      BY <1>1
    <2>2. v \in Walks /\ (v.pc \in {"none", "return"} \/ v.node # 0)
      BY <1>4
    <2>3. runs' \in Seq(RunRows) /\ Len(runs') = Len(runs)
      BY <1>2
    <2> QED
      BY <1>3, <1>5, <2>1, <2>2, <2>3, ReplacedTwo
  <1> QED
    BY <1>1, <1>2, <1>4, <1>6 DEF TypeInv

\* Which steps are of which kind.
LEMMA AloneMoves ==
    ASSUME TypeInv, NEW r \in Runs, NEW w,
           OwnStep(r, w) \/ MapBegins(r, w) \/ PoolEnds(r, w) \/ MapEnds(r, w)
    PROVE  /\ Alone(r, w)
           /\ walk[r].pc \notin {"none", "return"} /\ w.pc # "none"
  <1>1. CASE OwnStep(r, w)
    BY <1>1 DEF OwnStep, Working, AtWork, Alone
  <1>2. CASE MapBegins(r, w)
    BY <1>2 DEF MapBegins, Alone, Reported
  <1>3. CASE PoolEnds(r, w)
    BY <1>3 DEF PoolEnds, Alone, Reported, RunStatuses
  <1>4. CASE MapEnds(r, w)
    BY <1>4 DEF MapEnds, Alone
  <1> QED
    BY <1>1, <1>2, <1>3, <1>4

\* An operation that closes its run is a step of one walk.
LEMMA CloseAlone ==
    ASSUME TypeInv, NEW r \in Runs, Close(r)
    PROVE  Alone(r, NoWalk) /\ NoWalk.pc = "none" /\ NoWalk.kids = <<>>
  <1>1. NoWalk \in Walks
    BY RunAndWalk, WrittenWalks DEF TypeInv
  <1>2. NoWalk.pc = "none" /\ NoWalk.kids = <<>>
    BY DEF NoWalk
  <1> QED
    BY <1>1, <1>2 DEF Close, Alone, Reported, db, bounds

\* A step that ends another walk ends that of a child.
LEMMA PairMoves ==
    ASSUME TypeInv, FamilyInv, NEW r \in Runs, NEW w
    PROVE  /\ GoesOn(r, w) => /\ Pair(r, Child(r), w)
                              /\ Child(r) \in Runs \ {r} /\ runs[Child(r)].parent = r
                              /\ w.pc \in {"visit", "return"}
           /\ \A i \in Items(r) : ItemEnds(r, i, w) =>
                /\ Pair(r, walk[r].kids[i], w)
                /\ walk[r].kids[i] \in Runs \ {r} /\ runs[walk[r].kids[i]].parent = r
                /\ w.pc = "pool"
  <1>1. ASSUME GoesOn(r, w)
        PROVE  /\ Pair(r, Child(r), w)
               /\ Child(r) \in Runs \ {r} /\ runs[Child(r)].parent = r
               /\ w.pc \in {"visit", "return"}
    <2>1. walk[r].pc = "wait" /\ walk[Child(r)].pc = "return"
      BY <1>1 DEF GoesOn
    <2>2. Child(r) \in Runs /\ Child(r) # r /\ runs[Child(r)].parent = r
      BY <2>1, ChildIsRun
    <2> QED
      BY <1>1, <2>2 DEF GoesOn, Pair
  <1>2. ASSUME NEW i \in Items(r), ItemEnds(r, i, w)
        PROVE  /\ Pair(r, walk[r].kids[i], w)
               /\ walk[r].kids[i] \in Runs \ {r} /\ runs[walk[r].kids[i]].parent = r
               /\ w.pc = "pool"
    <2>1. walk[r].pc = "pool" /\ walk[walk[r].kids[i]].pc = "return" /\ walk[r].kids[i] # 0
      BY <1>2 DEF ItemEnds
    <2>2. PICK c \in Runs : c = walk[r].kids[i] /\ c # r /\ runs[c].parent = r
      BY <1>2, <2>1 DEF FamilyInv
    <2>3. walk' = [[walk EXCEPT ![c] = NoWalk] EXCEPT ![r] = w]
      <3>1. walk' = [[walk EXCEPT ![r] = w] EXCEPT ![c] = NoWalk]
        BY <1>2, <2>2 DEF ItemEnds
      <3> QED
        BY <2>2, <3>1
    <2>4. Reported(r, w)
      BY <1>2 DEF ItemEnds, Reported
    <2>5. w \in Walks /\ w.pc = "pool" /\ w.node # 0 /\ trees' = trees
      BY <1>2 DEF ItemEnds
    <2> QED
      BY <2>2, <2>3, <2>4, <2>5 DEF Pair
  <1> QED
    BY <1>1, <1>2

\* The children of q are the ones it had, if any.
FamilyOf(q) ==
    /\ walk'[q].pc = "none" => walk'[q] = NoWalk
    /\ walk'[q].pc = "wait" => walk[q].pc = "wait" /\ walk'[q].kids = walk[q].kids
    /\ \A i \in 1..Len(walk'[q].kids) : walk'[q].kids[i] # 0 =>
          /\ i \in Items(q) /\ walk'[q].kids[i] = walk[q].kids[i]
          /\ walk'[q].pc \notin {"pool", "merge"} => walk[q].pc \notin {"pool", "merge"}

\* Steps that create nothing keep the families.
LEMMA FamilyStays ==
    ASSUME TypeInv, FamilyInv, Runs' = Runs, \A q \in Runs : SameLineage(q),
           \A q \in Runs : FamilyOf(q)
    PROVE  FamilyInv'
  <1>1. ASSUME NEW q \in Runs', NEW i \in Items(q)', walk'[q].kids[i] # 0
        PROVE  /\ walk'[q].kids[i] \in Runs'
               /\ runs'[walk'[q].kids[i]].parent = q
               /\ walk'[q].pc \notin {"pool", "merge"} => runs'[walk'[q].kids[i]].index = 0
    <2>1. /\ q \in Runs /\ i \in Items(q) /\ walk'[q].kids[i] = walk[q].kids[i]
          /\ walk'[q].pc \notin {"pool", "merge"} => walk[q].pc \notin {"pool", "merge"}
      BY <1>1 DEF FamilyOf, Items
    <2>2. PICK k \in Runs : k = walk[q].kids[i] /\ runs[k].parent = q
      BY <1>1, <2>1 DEF FamilyInv
    <2>3. walk[q].pc \notin {"pool", "merge"} => runs[k].index = 0
      BY <1>1, <2>1, <2>2 DEF FamilyInv
    <2>4. SameLineage(k)
      BY <2>2
    <2> QED
      BY <2>1, <2>2, <2>3, <2>4 DEF SameLineage
  <1>2. ASSUME NEW q \in Runs', walk'[q].pc = "wait"
        PROVE  walk'[q].kids # <<>> /\ Child(q)' # 0
    BY <1>2 DEF FamilyOf, FamilyInv, Child
  <1>3. ASSUME NEW q \in Runs', walk'[q].pc = "none"
        PROVE  walk'[q] = NoWalk
    BY <1>3 DEF FamilyOf
  <1>4. ASSUME NEW q \in Runs'
        PROVE  /\ runs'[q].parent \in Runs' \cup {0}
               /\ runs'[q].index > 0 => runs'[q].parent \in Runs'
    <2>1. q \in Runs /\ SameLineage(q)
      BY <1>4
    <2> QED
      BY <2>1 DEF FamilyInv, SameLineage
  <1> QED
    BY <1>1, <1>2, <1>3, <1>4 DEF FamilyInv

\* A walk that stays, or that is over, keeps its children or has none.
LEMMA FamilyOfRest ==
    ASSUME FamilyInv, NEW q \in Runs, walk'[q] = walk[q] \/ walk'[q] = NoWalk
    PROVE  FamilyOf(q)
  <1>1. CASE walk'[q] = walk[q]
    BY <1>1 DEF FamilyOf, FamilyInv, Items
  <1>2. CASE walk'[q] = NoWalk
    <2>1. NoWalk.pc = "none" /\ NoWalk.kids = <<>>
      BY DEF NoWalk
    <2> QED
      BY <1>2, <2>1 DEF FamilyOf
  <1> QED
    BY <1>1, <1>2

\* A run that creates another has it among its children, or has only what it had.
LEMMA FamilyGrows ==
    ASSUME TypeInv, FamilyInv, NEW r \in Runs, NEW w, NEW new, NEW row, Grown(r, w, new, row),
           new.kids = <<>>, new.pc = "visit" \/ new = NoWalk,
           w.pc \in {"wait", "pool"},
           w.pc = "wait" => w.kids # <<>> /\ Last(w.kids) # 0,
           \A i \in 1..Len(w.kids) : w.kids[i] # 0 =>
              \/ w.kids[i] = NextRun /\ (w.pc = "wait" => row.index = 0)
              \/ /\ i \in Items(r) /\ w.kids[i] = walk[r].kids[i]
                 /\ w.pc = "wait" => walk[r].pc \notin {"pool", "merge"}
    PROVE  FamilyInv'
  <1>1. /\ NextRun \notin Runs /\ Runs' = Runs \cup {NextRun} /\ NextRun \in Nat
        /\ walk'[r] = w /\ walk'[NextRun] = new
        /\ \A q \in Runs \ {r} : walk'[q] = walk[q]
        /\ runs'[NextRun] = row
        /\ \A q \in Runs : runs'[q] = runs[q]
    BY GrownBy
  <1>2. row.parent = r /\ NoWalk.pc = "none"
    BY DEF Grown, NoWalk
  <1>3. ASSUME NEW q \in Runs', NEW i \in Items(q)', walk'[q].kids[i] # 0
        PROVE  /\ walk'[q].kids[i] \in Runs'
               /\ runs'[walk'[q].kids[i]].parent = q
               /\ walk'[q].pc \notin {"pool", "merge"} => runs'[walk'[q].kids[i]].index = 0
    <2>1. CASE q = NextRun
      <3>1. Items(q)' = 1..0
        BY <1>1, <2>1 DEF Items
      <3> QED
        BY <1>3, <3>1
    <2>2. CASE q = r
      <3>1. i \in 1..Len(w.kids) /\ w.kids[i] # 0
        BY <1>1, <1>3, <2>2 DEF Items
      <3>2. CASE w.kids[i] = NextRun /\ (w.pc = "wait" => row.index = 0)
        BY <1>1, <1>2, <2>2, <3>2
      <3>3. CASE /\ i \in Items(r) /\ w.kids[i] = walk[r].kids[i]
                 /\ w.pc = "wait" => walk[r].pc \notin {"pool", "merge"}
        <4>1. PICK k \in Runs : /\ k = walk[r].kids[i] /\ runs[k].parent = r
                                /\ walk[r].pc \notin {"pool", "merge"} => runs[k].index = 0
          BY <3>1, <3>3 DEF FamilyInv
        <4> QED
          BY <1>1, <2>2, <3>3, <4>1
      <3> QED
        BY <3>1, <3>2, <3>3
    <2>3. CASE q \in Runs \ {r}
      <3>1. /\ walk'[q] = walk[q] /\ i \in Items(q) /\ walk[q].kids[i] # 0
        BY <1>1, <1>3, <2>3 DEF Items
      <3>2. PICK k \in Runs : /\ k = walk[q].kids[i] /\ runs[k].parent = q
                              /\ walk[q].pc \notin {"pool", "merge"} => runs[k].index = 0
        BY <2>3, <3>1 DEF FamilyInv
      <3> QED
        BY <1>1, <3>1, <3>2
    <2> QED
      BY <1>1, <1>3, <2>1, <2>2, <2>3
  <1>4. ASSUME NEW q \in Runs', walk'[q].pc = "wait"
        PROVE  walk'[q].kids # <<>> /\ Child(q)' # 0
    <2>1. CASE q = NextRun
      BY <1>1, <1>2, <1>4, <2>1
    <2>2. CASE q = r
      BY <1>1, <1>4, <2>2 DEF Child
    <2>3. CASE q \in Runs \ {r}
      BY <1>1, <1>4, <2>3 DEF Child, FamilyInv
    <2> QED
      BY <1>1, <1>4, <2>1, <2>2, <2>3
  <1>5. ASSUME NEW q \in Runs', walk'[q].pc = "none"
        PROVE  walk'[q] = NoWalk
    <2>1. CASE q = NextRun
      BY <1>1, <1>5, <2>1
    <2>2. CASE q = r
      BY <1>1, <1>5, <2>2
    <2>3. CASE q \in Runs \ {r}
      BY <1>1, <1>5, <2>3 DEF FamilyInv
    <2> QED
      BY <1>1, <1>5, <2>1, <2>2, <2>3
  <1>6. ASSUME NEW q \in Runs'
        PROVE  /\ runs'[q].parent \in Runs' \cup {0}
               /\ runs'[q].index > 0 => runs'[q].parent \in Runs'
    <2>1. CASE q = NextRun
      BY <1>1, <1>2, <2>1
    <2>2. CASE q \in Runs
      BY <1>1, <2>2 DEF FamilyInv
    <2> QED
      BY <1>1, <1>6, <2>1, <2>2
  <1> QED
    BY <1>3, <1>4, <1>5, <1>6 DEF FamilyInv

\* A crash takes all walks, and a scan begins one.
LEMMA CrashBy ==
    ASSUME TypeInv, Crash
    PROVE  /\ TypeInv' /\ Runs' = Runs /\ runs' = runs /\ done' = done
           /\ \A q \in Runs : walk'[q] = NoWalk
           /\ scan' = {} /\ crashes' > 0
  <1>1. /\ runs \in Seq(RunRows) /\ walk \in Seq(Walks) /\ Runs = 1..Len(runs)
        /\ crashes \in Nat
    BY RunAndWalk DEF TypeInv, WalksTyped
  <1>2. /\ walk' = [r \in Runs |-> NoWalk] /\ scan' = {} /\ crashes' = crashes + 1
        /\ runs' = runs /\ done' = done /\ trees' = trees
    BY DEF Crash, db, git
  <1>3. Runs' = Runs
    BY <1>2 DEF Runs
  <1>4. PICK v \in Walks : v = NoWalk /\ v.pc = "none"
    <2>1. CASE Runs = {}
      <3>1. Quiet
        BY <2>1 DEF Quiet
      <3> QED
        BY <3>1 DEF Crash
    <2>2. ASSUME NEW r \in Runs
          PROVE  NoWalk \in Walks
      BY RunAndWalk, WrittenWalks DEF TypeInv
    <2>3. NoWalk.pc = "none"
      BY DEF NoWalk
    <2> QED
      BY <2>1, <2>2, <2>3
  <1>5. /\ walk' \in Seq(Walks) /\ Len(walk') = Len(runs)
        /\ \A q \in Runs : walk'[q] = v
    BY <1>1, <1>2, <1>4
  <1>6. WalksTyped'
    BY <1>1, <1>2, <1>3, <1>4, <1>5 DEF WalksTyped
  <1>7. DoneTyped'
    BY <1>2, <1>3 DEF TypeInv, DoneTyped, Nodes, Range
  <1>8. crashes' \in Nat /\ crashes' > 0
    BY <1>1, <1>2
  <1> QED
    BY <1>2, <1>3, <1>4, <1>5, <1>6, <1>7, <1>8 DEF TypeInv

\* A resume begins one walk, of a run that nobody walks.
LEMMA ScanBy ==
    ASSUME TypeInv, ScanNext
    PROVE  \E r \in scan :
              /\ TypeInv' /\ Runs' = Runs /\ Quiet
              /\ walk'[r].pc = "visit" /\ walk'[r].kids = <<>>
              /\ \A q \in Runs \ {r} : walk'[q] = walk[q] /\ runs'[q] = runs[q]
              /\ runs'[r].status = "RUNNING"
              /\ \A q \in Runs : SameLineage(q)
              /\ scan' = scan \ {r}
              /\ UNCHANGED <<done, trees, locked, crashes>>
  <1>1. PICK r \in scan :
           /\ Quiet
           /\ runs' = [runs EXCEPT ![r].status = "RUNNING"]
           /\ walk' = [walk EXCEPT ![r] = BeginIn(r)]
           /\ scan' = scan \ {r}
           /\ UNCHANGED <<done, trees, locked, crashes>>
    BY DEF ScanNext, git, bounds
  <1>2. /\ r \in Runs /\ r \in Nat
        /\ runs \in Seq(RunRows) /\ Runs = 1..Len(runs) /\ WalksTyped
    BY <1>1, RunAndWalk DEF TypeInv, WalksTyped
  <1>3. PICK row \in RunRows : /\ row = [runs[r] EXCEPT !.status = "RUNNING"]
                               /\ row.parent = runs[r].parent /\ row.status = "RUNNING"
                               /\ row.index = runs[r].index /\ row.wf = runs[r].wf
    <2>1. runs[r] \in RunRows
      BY <1>2
    <2>2. [runs[r] EXCEPT !.status = "RUNNING"] \in RunRows
      BY <2>1 DEF RunRows, RunStatuses
    <2> QED
      BY <2>1, <2>2 DEF RunRows
  <1>4. runs' = [runs EXCEPT ![r] = row]
    BY <1>1, <1>2, <1>3
  <1>5. /\ runs' \in Seq(RunRows) /\ Len(runs') = Len(runs)
        /\ \A q \in 1..Len(runs) : runs'[q] = IF q = r THEN row ELSE runs[q]
    BY <1>2, <1>3, <1>4, ExceptSeq
  <1>6. Runs' = Runs /\ \A q \in Runs : SameLineage(q)
    <2>1. Runs' = Runs
      BY <1>2, <1>5 DEF Runs
    <2>2. ASSUME NEW q \in Runs
          PROVE  SameLineage(q)
      <3>1. q \in 1..Len(runs)
        BY <1>2, <2>2
      <3>2. runs'[q] = IF q = r THEN row ELSE runs[q]
        BY <1>5, <3>1
      <3> QED
        BY <1>3, <3>2 DEF SameLineage
    <2> QED
      BY <2>1, <2>2
  <1>7. PICK w \in Walks : w = BeginIn(r) /\ w.pc = "visit" /\ w.kids = <<>> /\ w.node # 0
    <2>1. walk[r] \in Walks
      BY <1>2, RunAndWalk
    <2>2. /\ BeginIn(r) \in Walks /\ BeginIn(r).pc = "visit"
          /\ BeginIn(r).kids = <<>> /\ BeginIn(r).node = 1
      BY <1>2, <2>1, WrittenWalks
    <2>3. BeginIn(r).node # 0
      BY <2>2
    <2> QED
      BY <2>2, <2>3
  <1>8. walk' = [walk EXCEPT ![r] = w]
    BY <1>1, <1>7
  <1>9. /\ WalksTyped' /\ walk'[r] = w
        /\ \A q \in Runs \ {r} : walk'[q] = walk[q]
    BY <1>2, <1>5, <1>7, <1>8, Replaced
  <1>10. DoneTyped'
    BY <1>1, <1>2, <1>5, <1>6 DEF TypeInv, DoneTyped, Nodes, Range, SameLineage
  <1>11. TypeInv'
    BY <1>1, <1>6, <1>9, <1>10 DEF TypeInv
  <1> QED
    BY <1>1, <1>2, <1>3, <1>5, <1>6, <1>7, <1>9, <1>11

\* Every step keeps the types.
LEMMA TypeKept ==
    ASSUME TypeInv, FamilyInv, [Next]_vars
    PROVE  TypeInv'
  <1>1. ASSUME NEW r \in Runs, Moves(r)
        PROVE  TypeInv'
    <2>1. ASSUME NEW w, OwnStep(r, w) \/ MapBegins(r, w) \/ PoolEnds(r, w) \/ MapEnds(r, w)
          PROVE  TypeInv'
      BY <2>1, AloneMoves, AloneBy
    <2>2. CASE Close(r)
      BY <2>2, CloseAlone, AloneBy
    <2>3. ASSUME NEW w, GoesOn(r, w)
          PROVE  TypeInv'
      BY <2>3, PairMoves, PairBy
    <2>4. ASSUME NEW i \in Items(r), NEW w, ItemEnds(r, i, w)
          PROVE  TypeInv'
      BY <2>4, PairMoves, PairBy
    <2>5. ASSUME NEW w, NEW new, NEW row, Grown(r, w, new, row),
                 trees' = trees \/ trees' = trees \cup {NextRun}
          PROVE  TypeInv'
      <3>1. /\ Runs' = Runs \cup {NextRun} /\ WalksTyped' /\ DoneTyped'
        BY <2>5, GrownBy
      <3>2. scan' = scan /\ crashes' = crashes
        BY <2>5 DEF Grown
      <3> QED
        BY <2>5, <3>1, <3>2 DEF TypeInv
    <2>6. ASSUME NEW w, NEW new, NEW row, Call(r, w, new, row)
          PROVE  TypeInv'
      BY <2>5, <2>6 DEF Call
    <2>7. ASSUME NEW i \in Items(r), NEW w, NEW row, ItemMissing(r, i, w, row)
          PROVE  TypeInv'
      BY <2>5, <2>7 DEF ItemMissing
    <2>8. ASSUME NEW i \in Items(r), NEW w, NEW new, NEW row, ItemBegins(r, i, w, new, row)
          PROVE  TypeInv'
      BY <2>5, <2>8 DEF ItemBegins
    <2> QED
      BY <1>1, <2>1, <2>2, <2>3, <2>4, <2>6, <2>7, <2>8 DEF Moves
  <1>2. CASE Rests
    <2>1. UNCHANGED <<runs, walk, done, trees, crashes>>
      BY <1>2 DEF Rests
    <2>2. scan' \subseteq Runs
      BY <1>2 DEF Rests, TypeInv
    <2>3. Runs' = Runs
      BY <2>1 DEF Runs
    <2>4. WalksTyped'
      BY <2>1, <2>3 DEF TypeInv, WalksTyped
    <2>5. DoneTyped'
      BY <2>1, <2>3 DEF TypeInv, DoneTyped, Nodes, Range
    <2> QED
      BY <2>1, <2>2, <2>3, <2>4, <2>5 DEF TypeInv
  <1> QED
    BY <1>1, <1>2, NextMoves, CrashBy, ScanBy

\* Every step keeps the families.
LEMMA FamilyKept ==
    ASSUME TypeInv, FamilyInv, [Next]_vars
    PROVE  FamilyInv'
  <1>1. ASSUME NEW r \in Runs, Moves(r)
        PROVE  FamilyInv'
    <2>1. ASSUME NEW w, Alone(r, w), w.pc # "wait", w.pc = "none" => w = NoWalk,
                 \A i \in 1..Len(w.kids) : w.kids[i] # 0 =>
                    /\ i \in Items(r) /\ w.kids[i] = walk[r].kids[i]
                    /\ w.pc \notin {"pool", "merge"} => walk[r].pc \notin {"pool", "merge"}
          PROVE  FamilyInv'
      <3>1. /\ Runs' = Runs /\ Reports(r, w)
            /\ walk'[r] = w /\ \A q \in Runs \ {r} : walk'[q] = walk[q]
        BY <2>1, AloneBy
      <3>2. FamilyOf(r)
        BY <2>1, <3>1 DEF FamilyOf
      <3>3. \A q \in Runs : FamilyOf(q)
        BY <3>1, <3>2, FamilyOfRest
      <3> QED
        BY <3>1, <3>3, FamilyStays DEF Reports
    <2>2. ASSUME NEW w, NEW c \in Runs \ {r}, Pair(r, c, w), w.pc \notin {"wait", "none"},
                 \A i \in 1..Len(w.kids) : w.kids[i] # 0 =>
                    /\ i \in Items(r) /\ w.kids[i] = walk[r].kids[i]
                    /\ w.pc \notin {"pool", "merge"} => walk[r].pc \notin {"pool", "merge"}
          PROVE  FamilyInv'
      <3>1. /\ Runs' = Runs /\ Reports(r, w)
            /\ walk'[r] = w /\ walk'[c] = NoWalk
            /\ \A q \in Runs \ {r, c} : walk'[q] = walk[q]
        BY <2>2, PairBy
      <3>2. FamilyOf(r)
        BY <2>2, <3>1 DEF FamilyOf
      <3>3. \A q \in Runs : FamilyOf(q)
        BY <3>1, <3>2, FamilyOfRest
      <3> QED
        BY <3>1, <3>3, FamilyStays DEF Reports
    <2>e. Len(<<>>) = 0
      OBVIOUS
    <2>3. ASSUME NEW w, OwnStep(r, w)
          PROVE  FamilyInv'
      <3>1. /\ Alone(r, w) /\ w.pc \notin {"wait", "none"}
        BY <2>3, AloneMoves DEF OwnStep, AtWork
      <3>2. ASSUME NEW i \in 1..Len(w.kids), w.kids[i] # 0
            PROVE  /\ i \in Items(r) /\ w.kids[i] = walk[r].kids[i]
                   /\ w.pc \notin {"pool", "merge"} => walk[r].pc \notin {"pool", "merge"}
        <4>1. w.kids = walk[r].kids \/ w.kids = <<>>
          BY <2>3 DEF OwnStep
        <4>2. w.kids = walk[r].kids
          BY <2>e, <3>2, <4>1
        <4>3. walk[r].pc # "pool" /\ (w.pc = "merge" <=> walk[r].pc = "merge")
          BY <2>3 DEF OwnStep, Working
        <4> QED
          BY <3>2, <4>2, <4>3 DEF Items
      <3> QED
        BY <2>1, <3>1, <3>2
    <2>4. ASSUME NEW w, MapBegins(r, w)
          PROVE  FamilyInv'
      BY <2>1, <2>4, AloneMoves DEF MapBegins
    <2>5. ASSUME NEW w, PoolEnds(r, w)
          PROVE  FamilyInv'
      <3>1. Alone(r, w) /\ w.pc \notin {"wait", "none"}
        BY <2>5, AloneMoves DEF PoolEnds
      <3>2. (w.pc = "merge" /\ w.kids = walk[r].kids) \/ w.kids = <<>>
        BY <2>5 DEF PoolEnds
      <3> QED
        BY <2>1, <2>e, <3>1, <3>2 DEF Items
    <2>6. ASSUME NEW w, MapEnds(r, w)
          PROVE  FamilyInv'
      <3>1. Alone(r, w) /\ w.pc \notin {"wait", "none"} /\ w.kids = <<>>
        BY <2>6, AloneMoves DEF MapEnds
      <3> QED
        BY <2>1, <2>e, <3>1
    <2>7. CASE Close(r)
      BY <2>1, <2>7, <2>e, CloseAlone
    <2>8. ASSUME NEW w, GoesOn(r, w)
          PROVE  FamilyInv'
      <3>1. /\ Pair(r, Child(r), w) /\ Child(r) \in Runs \ {r}
            /\ w.pc \in {"visit", "return"}
        BY <2>8, PairMoves
      <3>2. w.kids \in {<<>>, walk[r].kids} /\ walk[r].pc = "wait"
        BY <2>8 DEF GoesOn
      <3>3. ASSUME NEW i \in 1..Len(w.kids), w.kids[i] # 0
            PROVE  /\ i \in Items(r) /\ w.kids[i] = walk[r].kids[i]
                   /\ w.pc \notin {"pool", "merge"} => walk[r].pc \notin {"pool", "merge"}
        BY <2>e, <3>2, <3>3 DEF Items
      <3> QED
        BY <2>2, <3>1, <3>3
    <2>9. ASSUME NEW i \in Items(r), NEW w, ItemEnds(r, i, w)
          PROVE  FamilyInv'
      <3>1. /\ Pair(r, walk[r].kids[i], w) /\ walk[r].kids[i] \in Runs \ {r}
            /\ w.pc = "pool"
        BY <2>9, PairMoves
      <3>2. w.kids = walk[r].kids
        BY <2>9 DEF ItemEnds
      <3> QED
        BY <2>2, <3>1, <3>2 DEF Items
    <2>t. walk[r].kids \in Seq(Nat) /\ NextRun \in Nat /\ NextRun # 0
      <3>1. WalksTyped
        BY DEF TypeInv
      <3>2. walk[r] \in Walks /\ runs \in Seq(RunRows)
        BY <3>1, RunAndWalk DEF WalksTyped
      <3>3. NextRun \in Nat /\ NextRun # 0
        BY <3>2 DEF NextRun
      <3> QED
        BY <3>2, <3>3 DEF Walks
    <2>10. ASSUME NEW w, NEW new, NEW row, Call(r, w, new, row)
           PROVE  FamilyInv'
      <3>1. /\ Grown(r, w, new, row) /\ new.kids = <<>> /\ new.pc = "visit"
            /\ w.pc = "wait" /\ row.index = 0 /\ walk[r].pc \in {"visit", "exec"}
            /\ w.kids = <<NextRun>> \/ w.kids = Append(walk[r].kids, NextRun)
        BY <2>10 DEF Call
      <3>2. CASE w.kids = <<NextRun>>
        <4>1. w.kids # <<>> /\ Last(w.kids) # 0
          BY <2>t, <3>2 DEF Last
        <4>2. ASSUME NEW i \in 1..Len(w.kids)
              PROVE  w.kids[i] = NextRun
          BY <2>t, <3>2, <4>2
        <4> QED
          BY <3>1, <4>1, <4>2, FamilyGrows
      <3>3. CASE w.kids = Append(walk[r].kids, NextRun)
        <4>1. /\ Len(w.kids) = Len(walk[r].kids) + 1 /\ w.kids \in Seq(Nat)
              /\ w.kids[Len(walk[r].kids) + 1] = NextRun
              /\ \A i \in 1..Len(walk[r].kids) : w.kids[i] = walk[r].kids[i]
          BY <2>t, <3>3, AppendProperties
        <4>2. w.kids # <<>> /\ Last(w.kids) # 0
          BY <2>t, <4>1 DEF Last
        <4>3. ASSUME NEW i \in 1..Len(w.kids)
              PROVE  \/ w.kids[i] = NextRun
                     \/ i \in Items(r) /\ w.kids[i] = walk[r].kids[i]
          <5>1. i = Len(walk[r].kids) + 1 \/ i \in 1..Len(walk[r].kids)
            BY <2>t, <4>1
          <5> QED
            BY <4>1, <5>1 DEF Items
        <4> QED
          BY <3>1, <4>2, <4>3, FamilyGrows
      <3> QED
        BY <3>1, <3>2, <3>3
    <2>11. ASSUME NEW i \in Items(r), NEW w, NEW row, ItemMissing(r, i, w, row)
           PROVE  FamilyInv'
      <3>1. /\ Grown(r, w, NoWalk, row) /\ w.pc = "pool" /\ w.kids = walk[r].kids
        BY <2>11 DEF ItemMissing
      <3>2. NoWalk.kids = <<>>
        BY DEF NoWalk
      <3> QED
        BY <3>1, <3>2, FamilyGrows DEF Items
    <2>12. ASSUME NEW i \in Items(r), NEW w, NEW new, NEW row, ItemBegins(r, i, w, new, row)
           PROVE  FamilyInv'
      <3>1. /\ Grown(r, w, new, row) /\ new.kids = <<>> /\ new.pc = "visit"
            /\ w.pc = "pool" /\ w.kids = [walk[r].kids EXCEPT ![i] = NextRun]
        BY <2>12 DEF ItemBegins
      <3>2. ASSUME NEW j \in 1..Len(w.kids)
            PROVE  \/ w.kids[j] = NextRun
                   \/ j \in Items(r) /\ w.kids[j] = walk[r].kids[j]
        <4>1. j \in Items(r)
          BY <2>t, <3>1, <3>2 DEF Items
        <4> QED
          BY <2>t, <3>1, <4>1 DEF Items
      <3> QED
        BY <3>1, <3>2, FamilyGrows
    <2> QED
      BY <1>1, <2>3, <2>4, <2>5, <2>6, <2>7, <2>8, <2>9, <2>10, <2>11, <2>12 DEF Moves
  <1>2. CASE Crash
    BY <1>2, CrashBy, FamilyOfRest, FamilyStays DEF SameLineage
  <1>3. CASE ScanNext
    <2>1. PICK r \in scan :
              /\ Runs' = Runs
              /\ walk'[r].pc = "visit" /\ walk'[r].kids = <<>>
              /\ \A q \in Runs \ {r} : walk'[q] = walk[q]
              /\ \A q \in Runs : SameLineage(q)
      BY <1>3, ScanBy
    <2>2. FamilyOf(r)
      BY <2>1 DEF FamilyOf
    <2>3. \A q \in Runs : FamilyOf(q)
      BY <2>1, <2>2, FamilyOfRest
    <2> QED
      BY <2>1, <2>3, FamilyStays
  <1>4. CASE Rests
    BY <1>4, FamilyOfRest, FamilyStays DEF Rests, Runs, SameLineage
  <1> QED
    BY <1>1, <1>2, <1>3, <1>4, NextMoves

-----------------------------------------------------------------------------
(* The lock and the walk that works *)

\* An item of a pool that is walked.
Engaged(r, i) ==
    walk[r].pc = "pool" /\ walk[r].kids[i] # 0 /\ walk[walk[r].kids[i]] # NoWalk

\* Of all the pools there are at most one item is walked, and the lock is held
\* for it.
PoolInv ==
    /\ \A r \in Runs : walk[r].pc = "pool" => Len(walk[r].results) = Len(walk[r].kids)
    /\ \A r \in Runs : \A i \in Items(r) :
          Engaged(r, i) => walk[r].results[i] = "none" /\ locked
    /\ \A r, q \in Runs : \A i \in Items(r), j \in Items(q) :
          Engaged(r, i) /\ Engaged(q, j) => walk[r].kids[i] = walk[q].kids[j]

\* A run holds the turn when it works, returns, or has a pool with nothing under
\* way: of all walks at most one does.
Holds(r) == \/ Working(r) \/ walk[r].pc = "return"
            \/ walk[r].pc = "pool" /\ \A i \in Items(r) : ~Engaged(r, i)
TokenInv == \A r, q \in Runs : Holds(r) /\ Holds(q) => r = q

\* The pool of q, if it has one, is as it was.
KeepsItems(q) ==
    /\ walk'[q] = walk[q]
    /\ \A i \in Items(q) : Engaged(q, i)' <=> Engaged(q, i)

\* A run whose pool is as it was holds the turn as before.
LEMMA KeepsHold ==
    ASSUME NEW q \in Runs, KeepsItems(q)
    PROVE  (Holds(q)' <=> Holds(q)) /\ Items(q)' = Items(q)
  <1>1. walk'[q] = walk[q] /\ Items(q)' = Items(q)
    BY DEF KeepsItems, Items
  <1>2. Working(q)' <=> Working(q)
    BY <1>1 DEF Working
  <1>3. (\A i \in Items(q) : ~Engaged(q, i))' <=> (\A i \in Items(q) : ~Engaged(q, i))
    BY <1>1 DEF KeepsItems
  <1> QED
    BY <1>1, <1>2, <1>3 DEF Holds

\* No step of r, but one that ends a walk, changes the pools of the others.
LEMMA Keeps ==
    ASSUME FamilyInv, NEW q \in Runs, walk'[q] = walk[q],
           \A k \in Runs : runs[k].parent = q /\ walk[q].pc = "pool"
                             /\ (\E i \in Items(q) : walk[q].kids[i] = k) =>
                               (walk'[k] = NoWalk <=> walk[k] = NoWalk)
    PROVE  KeepsItems(q)
  <1>1. ASSUME NEW i \in Items(q)
        PROVE  Engaged(q, i)' <=> Engaged(q, i)
    <2>1. CASE walk[q].pc = "pool" /\ walk[q].kids[i] # 0
      <3>1. PICK k \in Runs : k = walk[q].kids[i] /\ runs[k].parent = q
        BY <1>1, <2>1 DEF FamilyInv
      <3>2. walk'[k] = NoWalk <=> walk[k] = NoWalk
        BY <1>1, <2>1, <3>1
      <3> QED
        BY <2>1, <3>1, <3>2 DEF Engaged
    <2>2. CASE ~(walk[q].pc = "pool" /\ walk[q].kids[i] # 0)
      BY <2>2 DEF Engaged
    <2> QED
      BY <2>1, <2>2
  <1> QED
    BY <1>1 DEF KeepsItems

\* A step of one walk keeps the pools of the others.
LEMMA AloneKeeps ==
    ASSUME TypeInv, FamilyInv, NEW r \in Runs, NEW w, Alone(r, w),
           w = NoWalk => ~Waited(r), walk[r] # NoWalk,
           NEW q \in Runs \ {r}
    PROVE  KeepsItems(q)
  <1>1. walk'[r] = w /\ \A p \in Runs \ {r} : walk'[p] = walk[p]
    BY AloneBy
  <1>2. ASSUME NEW k \in Runs, runs[k].parent = q, walk[q].pc = "pool",
               NEW i \in Items(q), walk[q].kids[i] = k
        PROVE  walk'[k] = NoWalk <=> walk[k] = NoWalk
    <2>1. CASE k = r
      <3>1. k \in Range(walk[q].kids)
        <4>1. walk[q] \in Walks
          BY RunAndWalk DEF TypeInv
        <4>2. i \in DOMAIN walk[q].kids
          BY <1>2, <4>1 DEF Walks, Items
        <4> QED
          BY <1>2, <4>2 DEF Range
      <3>2. q # 0
        <4>1. Runs = 1..Len(runs) /\ runs \in Seq(RunRows)
          BY RunAndWalk DEF TypeInv, WalksTyped
        <4> QED
          BY <4>1
      <3>3. Waited(r)
        BY <1>2, <2>1, <3>1, <3>2 DEF Waited
      <3> QED
        BY <1>1, <2>1, <3>3
    <2>2. CASE k # r
      BY <1>1, <1>2, <2>2
    <2> QED
      BY <2>1, <2>2
  <1> QED
    BY <1>1, <1>2, Keeps

\* So does a step that ends the walk of a child.
LEMMA PairKeeps ==
    ASSUME TypeInv, FamilyInv, NEW r \in Runs, NEW c \in Runs \ {r}, NEW w, Pair(r, c, w),
           runs[c].parent = r, w # NoWalk, walk[r] # NoWalk,
           NEW q \in Runs \ {r, c}
    PROVE  KeepsItems(q)
  <1>1. walk'[r] = w /\ \A p \in Runs \ {r, c} : walk'[p] = walk[p]
    BY PairBy
  <1>2. ASSUME NEW k \in Runs, runs[k].parent = q
        PROVE  walk'[k] = NoWalk <=> walk[k] = NoWalk
    BY <1>1, <1>2
  <1> QED
    BY <1>1, <1>2, Keeps

\* So does the creation of a run.
LEMMA GrownKeeps ==
    ASSUME TypeInv, FamilyInv, NEW r \in Runs, NEW w, NEW new, NEW row, Grown(r, w, new, row),
           w # NoWalk, walk[r] # NoWalk,
           NEW q \in Runs \ {r}
    PROVE  KeepsItems(q)
  <1>1. walk'[r] = w /\ \A p \in Runs \ {r} : walk'[p] = walk[p]
    BY GrownBy
  <1>2. ASSUME NEW k \in Runs
        PROVE  walk'[k] = NoWalk <=> walk[k] = NoWalk
    BY <1>1, <1>2
  <1> QED
    BY <1>1, <1>2, Keeps

\* Pools that are as they were, and pools where nothing is walked.
LEMMA PoolStays ==
    ASSUME PoolInv, locked' = locked,
           \A q \in Runs' :
              \/ q \in Runs /\ KeepsItems(q)
              \/ walk'[q].pc = "pool" =>
                   /\ Len(walk'[q].results) = Len(walk'[q].kids)
                   /\ \A i \in Items(q)' : ~Engaged(q, i)'
    PROVE  PoolInv'
  <1>1. ASSUME NEW q \in Runs', walk'[q].pc = "pool"
        PROVE  Len(walk'[q].results) = Len(walk'[q].kids)
    <2>1. CASE q \in Runs /\ KeepsItems(q)
      BY <1>1, <2>1 DEF KeepsItems, PoolInv
    <2> QED
      BY <1>1, <2>1
  <1>2. ASSUME NEW q \in Runs', NEW i \in Items(q)', Engaged(q, i)'
        PROVE  /\ q \in Runs /\ i \in Items(q) /\ Engaged(q, i) /\ walk'[q] = walk[q]
    <2>1. q \in Runs /\ KeepsItems(q)
      BY <1>2 DEF Engaged
    <2>2. Items(q)' = Items(q)
      BY <2>1, KeepsHold
    <2> QED
      BY <1>2, <2>1, <2>2 DEF KeepsItems
  <1>3. ASSUME NEW q \in Runs', NEW i \in Items(q)', Engaged(q, i)'
        PROVE  walk'[q].results[i] = "none" /\ locked'
    BY <1>2, <1>3 DEF PoolInv
  <1>4. ASSUME NEW r \in Runs', NEW q \in Runs', NEW i \in Items(r)', NEW j \in Items(q)',
               Engaged(r, i)', Engaged(q, j)'
        PROVE  walk'[r].kids[i] = walk'[q].kids[j]
    <2>1. r \in Runs /\ i \in Items(r) /\ Engaged(r, i) /\ walk'[r] = walk[r]
      BY <1>2, <1>4
    <2>2. q \in Runs /\ j \in Items(q) /\ Engaged(q, j) /\ walk'[q] = walk[q]
      BY <1>2, <1>4
    <2> QED
      BY <2>1, <2>2 DEF PoolInv
  <1> QED
    BY <1>1, <1>3, <1>4 DEF PoolInv

\* Every step keeps the pools and hands on the turn.
LEMMA PoolTokenKept ==
    ASSUME TypeInv, FamilyInv, PoolInv, TokenInv, [Next]_vars
    PROVE  PoolInv' /\ TokenInv'
  <1>n. NoWalk.pc = "none" /\ NoWalk.kids = <<>>
    BY DEF NoWalk
  <1>t. ASSUME NEW h, \A q \in Runs' : Holds(q)' => q = h
        PROVE  TokenInv'
    BY <1>t DEF TokenInv
  <1>1. ASSUME NEW r \in Runs, Moves(r)
        PROVE  PoolInv' /\ TokenInv'
    <2>1. ASSUME NEW w, Alone(r, w), w = NoWalk => ~Waited(r), walk[r] # NoWalk, Holds(r),
                 locked' = locked, w.pc # "pool"
          PROVE  PoolInv' /\ TokenInv'
      <3>1. Runs' = Runs /\ walk'[r] = w
        BY <2>1, AloneBy
      <3>2. \A q \in Runs \ {r} : KeepsItems(q)
        BY <2>1, AloneKeeps
      <3>3. PoolInv'
        BY <2>1, <3>1, <3>2, PoolStays
      <3>4. \A q \in Runs' : Holds(q)' => q = r
        BY <2>1, <3>1, <3>2, KeepsHold DEF TokenInv
      <3> QED
        BY <1>t, <3>3, <3>4
    <2>2. ASSUME NEW w, OwnStep(r, w)
          PROVE  PoolInv' /\ TokenInv'
      <3>1. /\ Alone(r, w) /\ walk[r] # NoWalk /\ w # NoWalk
        BY <1>n, <2>2, AloneMoves
      <3>2. Holds(r) /\ locked' = locked /\ w.pc # "pool"
        BY <2>2 DEF OwnStep, Holds, AtWork
      <3> QED
        BY <2>1, <3>1, <3>2
    <2>3. ASSUME NEW w, MapBegins(r, w)
          PROVE  PoolInv' /\ TokenInv'
      <3>1. /\ Alone(r, w) /\ walk[r] # NoWalk /\ w # NoWalk
        BY <1>n, <2>3, AloneMoves
      <3>2. /\ Holds(r) /\ locked' = locked /\ Len(w.results) = Len(w.kids)
            /\ \A i \in 1..Len(w.kids) : w.kids[i] = 0
        BY <2>3 DEF MapBegins, Holds, Working
      <3>3. Runs' = Runs /\ walk'[r] = w
        BY <3>1, AloneBy
      <3>4. \A q \in Runs \ {r} : KeepsItems(q)
        BY <3>1, AloneKeeps
      <3>5. \A i \in Items(r)' : ~Engaged(r, i)'
        BY <3>2, <3>3 DEF Engaged, Items
      <3>6. PoolInv'
        BY <3>2, <3>3, <3>4, <3>5, PoolStays
      <3>7. \A q \in Runs' : Holds(q)' => q = r
        BY <3>2, <3>3, <3>4, KeepsHold DEF TokenInv
      <3> QED
        BY <1>t, <3>6, <3>7
    <2>4. ASSUME NEW w, PoolEnds(r, w)
          PROVE  PoolInv' /\ TokenInv'
      <3>1. /\ Alone(r, w) /\ walk[r] # NoWalk /\ w # NoWalk
        BY <1>n, <2>4, AloneMoves
      <3>2. walk[r].pc = "pool" /\ PoolIdle(r) /\ locked' = locked /\ w.pc # "pool"
        BY <2>4 DEF PoolEnds
      <3>3. \A i \in Items(r) : ~Engaged(r, i)
        BY <3>2 DEF PoolIdle, PoolInv, Engaged
      <3>4. Holds(r)
        BY <3>2, <3>3 DEF Holds
      <3> QED
        BY <2>1, <3>1, <3>2, <3>4
    <2>5. ASSUME NEW w, MapEnds(r, w)
          PROVE  PoolInv' /\ TokenInv'
      <3>1. /\ Alone(r, w) /\ walk[r] # NoWalk /\ w # NoWalk
        BY <1>n, <2>5, AloneMoves
      <3>2. Holds(r) /\ locked' = locked /\ w.pc # "pool"
        BY <2>5 DEF MapEnds, Holds, Working
      <3> QED
        BY <2>1, <3>1, <3>2
    <2>6. CASE Close(r)
      <3>1. Alone(r, NoWalk)
        BY <2>6, CloseAlone
      <3>2. /\ walk[r].pc = "return" /\ ~Waited(r) /\ locked' = locked
        BY <2>6 DEF Close
      <3>3. Holds(r) /\ walk[r] # NoWalk /\ NoWalk.pc # "pool"
        BY <1>n, <3>2 DEF Holds
      <3> QED
        BY <2>1, <3>1, <3>2, <3>3
    <2>7. ASSUME NEW w, GoesOn(r, w)
          PROVE  PoolInv' /\ TokenInv'
      <3>1. PICK c \in Runs \ {r} : /\ c = Child(r) /\ Pair(r, c, w) /\ runs[c].parent = r
                                    /\ w.pc \in {"visit", "return"}
        BY <2>7, PairMoves
      <3>2. walk[r].pc = "wait" /\ walk[c].pc = "return" /\ locked' = locked
        BY <2>7, <3>1 DEF GoesOn
      <3>3. /\ Runs' = Runs /\ walk'[r] = w /\ walk'[c] = NoWalk
        BY <3>1, PairBy
      <3>4. \A q \in Runs \ {r, c} : KeepsItems(q)
        BY <1>n, <3>1, <3>2, PairKeeps
      <3>5. PoolInv'
        BY <1>n, <3>1, <3>2, <3>3, <3>4, PoolStays
      <3>6. Holds(c) /\ ~Holds(c)'
        BY <1>n, <3>2, <3>3 DEF Holds, Working
      <3>7. \A q \in Runs' : Holds(q)' => q = r
        BY <3>3, <3>4, <3>6, KeepsHold DEF TokenInv
      <3> QED
        BY <1>t, <3>5, <3>7
    <2>8. ASSUME NEW i \in Items(r), NEW w, ItemEnds(r, i, w)
          PROVE  PoolInv' /\ TokenInv'
      <3>1. PICK c \in Runs \ {r} : /\ c = walk[r].kids[i] /\ Pair(r, c, w)
                                    /\ runs[c].parent = r /\ w.pc = "pool"
        BY <2>8, PairMoves
      <3>2. /\ walk[r].pc = "pool" /\ walk[c].pc = "return" /\ c # 0 /\ w.kids = walk[r].kids
            /\ w.results = [walk[r].results EXCEPT ![i] = walk[c].result]
        BY <2>8, <3>1 DEF ItemEnds
      <3>3. /\ Runs' = Runs /\ walk'[r] = w /\ walk'[c] = NoWalk
            /\ \A q \in Runs \ {r, c} : walk'[q] = walk[q]
        BY <3>1, PairBy
      <3>4. \A q \in Runs \ {r, c} : KeepsItems(q)
        BY <1>n, <3>1, <3>2, PairKeeps
      <3>5. Holds(c) /\ ~Holds(c)' /\ Engaged(r, i)
        BY <1>n, <3>1, <3>2, <3>3 DEF Holds, Working, Engaged
      <3>6. ASSUME NEW q \in Runs', NEW j \in Items(q)', Engaged(q, j)'
            PROVE  FALSE
        <4>1. q # c
          BY <1>n, <3>3, <3>6 DEF Engaged
        <4>2. walk'[q].kids = walk[q].kids /\ walk[q].pc = "pool" /\ j \in Items(q)
          BY <3>2, <3>3, <3>6, <4>1 DEF Engaged, Items
        <4>3. PICK k \in Runs : k = walk[q].kids[j] /\ k # 0 /\ walk'[k] # NoWalk
          BY <3>3, <3>6, <4>2 DEF Engaged, FamilyInv
        <4>4. k # c /\ k \in Runs
          BY <3>3, <4>3
        <4>5. walk[k] # NoWalk
          BY <1>n, <3>2, <3>3, <4>3, <4>4
        <4>6. Engaged(q, j)
          BY <4>2, <4>3, <4>5 DEF Engaged
        <4>7. walk[q].kids[j] = walk[r].kids[i]
          BY <3>3, <3>5, <4>2, <4>6, <2>8 DEF PoolInv
        <4> QED
          BY <3>1, <4>3, <4>4, <4>7
      <3>7. ASSUME NEW q \in Runs', walk'[q].pc = "pool"
            PROVE  Len(walk'[q].results) = Len(walk'[q].kids)
        <4>1. CASE q = r
          <5>1. walk[r] \in Walks
            BY RunAndWalk DEF TypeInv
          <5>2. walk[r].results \in Seq(Results)
            BY <5>1 DEF Walks
          <5>3. Len(w.results) = Len(walk[r].results)
            BY <3>2, <5>2
          <5> QED
            BY <3>2, <3>3, <4>1, <5>3 DEF PoolInv
        <4>2. CASE q = c
          BY <1>n, <3>3, <3>7, <4>2
        <4>3. CASE q \in Runs \ {r, c}
          BY <3>3, <3>7, <4>3 DEF PoolInv
        <4> QED
          BY <3>3, <3>7, <4>1, <4>2, <4>3
      <3>8. PoolInv'
        BY <3>6, <3>7 DEF PoolInv
      <3>9. \A q \in Runs' : Holds(q)' => q = r
        BY <3>3, <3>4, <3>5, KeepsHold DEF TokenInv
      <3> QED
        BY <1>t, <3>8, <3>9
    <2>9. ASSUME NEW w, NEW new, NEW row, Call(r, w, new, row)
          PROVE  PoolInv' /\ TokenInv'
      <3>1. /\ Grown(r, w, new, row) /\ new.pc = "visit" /\ w.pc = "wait"
            /\ walk[r].pc \in {"visit", "exec"} /\ locked' = locked
        BY <2>9 DEF Call
      <3>2. /\ NextRun \notin Runs /\ Runs' = Runs \cup {NextRun}
            /\ walk'[r] = w /\ walk'[NextRun] = new
        BY <3>1, GrownBy
      <3>3. \A q \in Runs \ {r} : KeepsItems(q)
        BY <1>n, <3>1, GrownKeeps
      <3>4. PoolInv'
        BY <3>1, <3>2, <3>3, PoolStays
      <3>5. Holds(r) /\ ~Holds(r)'
        BY <3>1, <3>2 DEF Holds, Working
      <3>6. \A q \in Runs' : Holds(q)' => q = NextRun
        BY <3>2, <3>3, <3>5, KeepsHold DEF TokenInv
      <3> QED
        BY <1>t, <3>4, <3>6
    <2>10. ASSUME NEW i \in Items(r), NEW w, NEW row, ItemMissing(r, i, w, row)
           PROVE  PoolInv' /\ TokenInv'
      <3>1. /\ Grown(r, w, NoWalk, row) /\ walk[r].pc = "pool" /\ walk[r].kids[i] = 0
            /\ w.pc = "pool" /\ w.kids = walk[r].kids /\ locked' = locked
            /\ w.results = [walk[r].results EXCEPT ![i] = "raised"]
        BY <2>10 DEF ItemMissing
      <3>2. /\ NextRun \notin Runs /\ Runs' = Runs \cup {NextRun}
            /\ walk'[r] = w /\ walk'[NextRun] = NoWalk
            /\ \A q \in Runs \ {r} : walk'[q] = walk[q]
        BY <3>1, GrownBy
      <3>3. \A q \in Runs \ {r} : KeepsItems(q)
        BY <1>n, <3>1, GrownKeeps
      <3>w. walk[r] \in Walks
        BY RunAndWalk DEF TypeInv
      <3>4. /\ Len(w.results) = Len(walk[r].results)
            /\ \A j \in Items(r) : j # i => w.results[j] = walk[r].results[j]
        <4>1. walk[r].results \in Seq(Results) /\ Len(walk[r].results) = Len(walk[r].kids)
          BY <3>1, <3>w DEF Walks, PoolInv
        <4> QED
          BY <3>1, <4>1 DEF Items
      <3>5. Items(r)' = Items(r)
        BY <3>1, <3>2 DEF Items
      <3>6. ASSUME NEW j \in Items(r)
            PROVE  Engaged(r, j)' <=> Engaged(r, j)
        <4>1. CASE walk[r].kids[j] = 0
          BY <3>1, <3>2, <4>1 DEF Engaged
        <4>2. CASE walk[r].kids[j] # 0
          <5>1. PICK k \in Runs : k = walk[r].kids[j]
            BY <3>6, <4>2 DEF FamilyInv
          <5>2. walk'[k] # NoWalk <=> walk[k] # NoWalk
            BY <1>n, <3>1, <3>2
          <5> QED
            BY <3>1, <3>2, <5>1, <5>2 DEF Engaged
        <4> QED
          BY <4>1, <4>2
      <3>7. ASSUME NEW q \in Runs', NEW j \in Items(q)', Engaged(q, j)'
            PROVE  /\ q \in Runs /\ j \in Items(q) /\ Engaged(q, j)
                   /\ walk'[q].kids = walk[q].kids
                   /\ walk'[q].results[j] = walk[q].results[j]
        <4>1. q # NextRun
          BY <1>n, <3>2, <3>7 DEF Engaged
        <4>2. CASE q = r
          <5>1. Engaged(r, j) /\ j \in Items(r)
            BY <3>5, <3>6, <3>7, <4>2
          <5>2. j # i
            BY <3>1, <5>1 DEF Engaged
          <5> QED
            BY <3>1, <3>2, <3>4, <4>2, <5>1, <5>2
        <4>3. CASE q \in Runs \ {r}
          <5>1. KeepsItems(q) /\ Items(q)' = Items(q)
            BY <3>3, <4>3, KeepsHold
          <5> QED
            BY <3>7, <4>3, <5>1 DEF KeepsItems
        <4> QED
          BY <3>2, <3>7, <4>1, <4>2, <4>3
      <3>8. ASSUME NEW q \in Runs', walk'[q].pc = "pool"
            PROVE  Len(walk'[q].results) = Len(walk'[q].kids)
        <4>1. CASE q = r
          BY <3>1, <3>2, <3>4, <4>1 DEF PoolInv
        <4>2. CASE q = NextRun
          BY <1>n, <3>2, <3>8, <4>2
        <4>3. CASE q \in Runs \ {r}
          BY <3>2, <3>8, <4>3 DEF PoolInv
        <4> QED
          BY <3>2, <3>8, <4>1, <4>2, <4>3
      <3>9. PoolInv'
        <4>1. ASSUME NEW q \in Runs', NEW j \in Items(q)', Engaged(q, j)'
              PROVE  walk'[q].results[j] = "none" /\ locked'
          BY <3>1, <3>7, <4>1 DEF PoolInv
        <4>2. ASSUME NEW p \in Runs', NEW q \in Runs', NEW k \in Items(p)', NEW j \in Items(q)',
                     Engaged(p, k)', Engaged(q, j)'
              PROVE  walk'[p].kids[k] = walk'[q].kids[j]
          <5>1. p \in Runs /\ k \in Items(p) /\ Engaged(p, k) /\ walk'[p].kids = walk[p].kids
            BY <3>7, <4>2
          <5>2. q \in Runs /\ j \in Items(q) /\ Engaged(q, j) /\ walk'[q].kids = walk[q].kids
            BY <3>7, <4>2
          <5> QED
            BY <5>1, <5>2 DEF PoolInv
        <4> QED
          BY <3>8, <4>1, <4>2 DEF PoolInv
      <3>10. Holds(r)' => Holds(r)
        <4>1. (\A j \in Items(r) : ~Engaged(r, j))' => (\A j \in Items(r) : ~Engaged(r, j))
          BY <3>5, <3>6
        <4> QED
          BY <3>1, <3>2, <4>1 DEF Holds, Working
      <3>11. ASSUME NEW q \in Runs', q = NextRun
             PROVE  ~Holds(q)'
        BY <1>n, <3>2, <3>11 DEF Holds, Working
      <3>12. ASSUME NEW q \in Runs', Holds(q)'
             PROVE  q \in Runs /\ Holds(q)
        BY <3>2, <3>3, <3>10, <3>11, <3>12, KeepsHold
      <3>13. TokenInv'
        BY <3>12 DEF TokenInv
      <3> QED
        BY <3>9, <3>13
    <2>11. ASSUME NEW i \in Items(r), NEW w, NEW new, NEW row, ItemBegins(r, i, w, new, row)
           PROVE  PoolInv' /\ TokenInv'
      <3>1. /\ Grown(r, w, new, row) /\ walk[r].pc = "pool" /\ walk[r].kids[i] = 0
            /\ walk[r].results[i] = "none" /\ ~locked /\ locked' = TRUE
            /\ w.pc = "pool" /\ w.kids = [walk[r].kids EXCEPT ![i] = NextRun]
            /\ w.results = walk[r].results /\ new.pc = "visit"
        BY <2>11 DEF ItemBegins
      <3>2. /\ NextRun \notin Runs /\ Runs' = Runs \cup {NextRun} /\ NextRun # 0
            /\ walk'[r] = w /\ walk'[NextRun] = new
            /\ \A q \in Runs \ {r} : walk'[q] = walk[q]
        BY <3>1, GrownBy
      <3>3. \A q \in Runs \ {r} : KeepsItems(q)
        BY <1>n, <3>1, GrownKeeps
      <3>4. \A q \in Runs : \A j \in Items(q) : ~Engaged(q, j)
        BY <3>1 DEF PoolInv
      <3>5. Holds(r)
        BY <3>1, <3>4 DEF Holds
      <3>k. /\ Items(r)' = Items(r) /\ i \in Items(r)
            /\ \A j \in Items(r) : w.kids[j] = IF j = i THEN NextRun ELSE walk[r].kids[j]
            /\ Len(w.kids) = Len(walk[r].kids)
        <4>1. walk[r] \in Walks
          BY RunAndWalk DEF TypeInv
        <4>2. walk[r].kids \in Seq(Nat)
          BY <4>1 DEF Walks
        <4>3. Len(w.kids) = Len(walk[r].kids)
          BY <3>1, <4>2
        <4>4. Items(r)' = Items(r)
          BY <3>2, <4>3 DEF Items
        <4> QED
          BY <2>11, <3>1, <4>2, <4>3, <4>4 DEF Items
      <3>6. Engaged(r, i)' /\ walk'[r].kids[i] = NextRun
        BY <1>n, <3>1, <3>2, <3>k DEF Engaged
      <3>7. ASSUME NEW q \in Runs', NEW j \in Items(q)', Engaged(q, j)'
            PROVE  q = r /\ j = i
        <4>1. q # NextRun
          BY <3>1, <3>2, <3>7 DEF Engaged
        <4>2. CASE q = r
          <5>1. j \in Items(r)
            BY <3>k, <3>7, <4>2
          <5>2. SUFFICES ASSUME j # i PROVE FALSE
            BY <4>2
          <5>3. walk'[r].kids[j] = walk[r].kids[j] /\ walk[r].kids[j] # 0
            BY <3>2, <3>k, <3>7, <4>2, <5>1, <5>2 DEF Engaged
          <5>4. PICK k \in Runs : k = walk[r].kids[j] /\ walk'[k] # NoWalk
            BY <3>7, <4>2, <5>1, <5>3 DEF Engaged, FamilyInv
          <5>5. walk[k] # NoWalk
            BY <1>n, <3>1, <3>2, <5>4
          <5>6. Engaged(r, j)
            BY <3>1, <5>3, <5>4, <5>5 DEF Engaged
          <5> QED
            BY <3>4, <5>1, <5>6
        <4>3. CASE q \in Runs \ {r}
          <5>1. KeepsItems(q) /\ Items(q)' = Items(q)
            BY <3>3, <4>3, KeepsHold
          <5> QED
            BY <3>4, <3>7, <4>3, <5>1 DEF KeepsItems
        <4> QED
          BY <3>2, <3>7, <4>1, <4>2, <4>3
      <3>8. ASSUME NEW q \in Runs', walk'[q].pc = "pool"
            PROVE  Len(walk'[q].results) = Len(walk'[q].kids)
        <4>1. CASE q = r
          BY <3>1, <3>2, <3>k, <4>1 DEF PoolInv
        <4>2. CASE q = NextRun
          BY <3>1, <3>2, <3>8, <4>2
        <4>3. CASE q \in Runs \ {r}
          BY <3>2, <3>8, <4>3 DEF PoolInv
        <4> QED
          BY <3>2, <3>8, <4>1, <4>2, <4>3
      <3>9. PoolInv'
        <4>1. ASSUME NEW q \in Runs', NEW j \in Items(q)', Engaged(q, j)'
              PROVE  walk'[q].results[j] = "none" /\ locked'
          BY <3>1, <3>2, <3>7, <4>1
        <4>2. ASSUME NEW p \in Runs', NEW q \in Runs', NEW k \in Items(p)', NEW j \in Items(q)',
                     Engaged(p, k)', Engaged(q, j)'
              PROVE  walk'[p].kids[k] = walk'[q].kids[j]
          BY <3>7, <4>2
        <4> QED
          BY <3>8, <4>1, <4>2 DEF PoolInv
      <3>10. ~Holds(r)'
        BY <3>1, <3>2, <3>6, <3>k DEF Holds, Working
      <3>11. \A q \in Runs' : Holds(q)' => q = NextRun
        BY <3>2, <3>3, <3>5, <3>10, KeepsHold DEF TokenInv
      <3> QED
        BY <1>t, <3>9, <3>11
    <2> QED
      BY <1>1, <2>2, <2>3, <2>4, <2>5, <2>6, <2>7, <2>8, <2>9, <2>10, <2>11 DEF Moves
  <1>2. CASE Crash
    <2>1. Runs' = Runs /\ \A q \in Runs : walk'[q] = NoWalk
      BY <1>2, CrashBy
    <2>2. PoolInv'
      BY <1>n, <2>1 DEF PoolInv, Engaged
    <2>3. \A q \in Runs' : Holds(q)' => q = 0
      BY <1>n, <2>1 DEF Holds, Working
    <2> QED
      BY <1>t, <2>2, <2>3
  <1>3. CASE ScanNext
    <2>1. PICK r \in scan :
              /\ Runs' = Runs /\ Quiet
              /\ walk'[r].pc = "visit"
              /\ \A q \in Runs \ {r} : walk'[q] = walk[q]
              /\ locked' = locked
      BY <1>3, ScanBy
    <2>2. \A q \in Runs : walk'[q].pc # "pool"
      BY <1>n, <2>1 DEF Quiet
    <2>3. PoolInv'
      BY <2>1, <2>2, PoolStays
    <2>4. \A q \in Runs' : Holds(q)' => q = r
      BY <1>n, <2>1, <2>2 DEF Holds, Working, Quiet
    <2> QED
      BY <1>t, <2>3, <2>4
  <1>4. CASE Rests
    <2>1. walk' = walk /\ Runs' = Runs /\ locked' = locked
      BY <1>4 DEF Rests, Runs
    <2>2. \A q \in Runs : KeepsItems(q)
      BY <2>1, Keeps
    <2>3. PoolInv'
      BY <2>1, <2>2, PoolStays
    <2>4. TokenInv'
      BY <2>1, <2>2, KeepsHold DEF TokenInv
    <2> QED
      BY <2>3, <2>4
  <1> QED
    BY <1>1, <1>2, <1>3, <1>4, NextMoves

-----------------------------------------------------------------------------
(* What the rows say of a run that is walked *)

StatusInv ==
    /\ \A r \in Runs : walk[r].pc \notin {"none", "return"} => runs[r].status = "RUNNING"
    /\ \A r \in scan : walk[r].pc = "none" /\ runs[r].status \notin TerminalRunStatuses

\* A run that is walked is RUNNING, and a scan visits runs that nobody walks.
LEMMA StatusKept ==
    ASSUME TypeInv, FamilyInv, StatusInv, [Next]_vars
    PROVE  StatusInv'
  <1>n. NoWalk.pc = "none"
    BY DEF NoWalk
  <1>s. scan \subseteq Runs
    BY DEF TypeInv
  <1>1. ASSUME NEW r \in Runs, Moves(r)
        PROVE  StatusInv'
    <2>1. ASSUME NEW w, Alone(r, w), walk[r].pc # "none",
                 w.pc \notin {"none", "return"} => walk[r].pc \notin {"none", "return"}
          PROVE  StatusInv'
      <3>1. /\ Runs' = Runs /\ Reports(r, w)
            /\ walk'[r] = w /\ \A q \in Runs \ {r} : walk'[q] = walk[q]
        BY <2>1, AloneBy
      <3>2. scan' = scan
        BY <2>1 DEF Alone, Reported
      <3>3. ASSUME NEW q \in Runs', walk'[q].pc \notin {"none", "return"}
            PROVE  runs'[q].status = "RUNNING"
        BY <2>1, <3>1, <3>3 DEF Reports, StatusInv
      <3>4. ASSUME NEW q \in scan'
            PROVE  walk'[q].pc = "none" /\ runs'[q].status \notin TerminalRunStatuses
        <4>1. q \in Runs \ {r}
          BY <1>s, <2>1, <3>2, <3>4 DEF StatusInv
        <4> QED
          BY <3>1, <3>2, <3>4, <4>1 DEF Reports, StatusInv
      <3> QED
        BY <3>3, <3>4 DEF StatusInv
    <2>2. ASSUME NEW w, OwnStep(r, w) \/ MapBegins(r, w) \/ PoolEnds(r, w) \/ MapEnds(r, w)
          PROVE  StatusInv'
      BY <2>1, <2>2, AloneMoves
    <2>3. CASE Close(r)
      <3>1. walk[r].pc = "return"
        BY <2>3 DEF Close
      <3> QED
        BY <2>1, <2>3, <3>1, CloseAlone
    <2>4. ASSUME NEW w, NEW c \in Runs \ {r}, Pair(r, c, w), walk[c].pc = "return",
                 walk[r].pc \notin {"none", "return"}
          PROVE  StatusInv'
      <3>1. /\ Runs' = Runs /\ Reports(r, w)
            /\ walk'[r] = w /\ walk'[c] = NoWalk
            /\ \A q \in Runs \ {r, c} : walk'[q] = walk[q]
        BY <2>4, PairBy
      <3>2. scan' = scan
        BY <2>4 DEF Pair, Reported
      <3>3. ASSUME NEW q \in Runs', walk'[q].pc \notin {"none", "return"}
            PROVE  runs'[q].status = "RUNNING"
        BY <1>n, <2>4, <3>1, <3>3 DEF Reports, StatusInv
      <3>4. ASSUME NEW q \in scan'
            PROVE  walk'[q].pc = "none" /\ runs'[q].status \notin TerminalRunStatuses
        <4>1. q \in Runs \ {r, c}
          BY <1>s, <2>4, <3>2, <3>4 DEF StatusInv
        <4> QED
          BY <3>1, <3>2, <3>4, <4>1 DEF Reports, StatusInv
      <3> QED
        BY <3>3, <3>4 DEF StatusInv
    <2>5. ASSUME NEW w, GoesOn(r, w)
          PROVE  StatusInv'
      <3>1. Pair(r, Child(r), w) /\ Child(r) \in Runs \ {r}
        BY <2>5, PairMoves
      <3>2. walk[r].pc = "wait" /\ walk[Child(r)].pc = "return"
        BY <2>5 DEF GoesOn
      <3> QED
        BY <2>4, <3>1, <3>2
    <2>6. ASSUME NEW i \in Items(r), NEW w, ItemEnds(r, i, w)
          PROVE  StatusInv'
      <3>1. Pair(r, walk[r].kids[i], w) /\ walk[r].kids[i] \in Runs \ {r}
        BY <2>6, PairMoves
      <3>2. walk[r].pc = "pool" /\ walk[walk[r].kids[i]].pc = "return"
        BY <2>6 DEF ItemEnds
      <3> QED
        BY <2>4, <3>1, <3>2
    <2>7. ASSUME NEW w, NEW new, NEW row, Grown(r, w, new, row),
                 walk[r].pc \notin {"none", "return"}
          PROVE  StatusInv'
      <3>1. /\ NextRun \notin Runs /\ Runs' = Runs \cup {NextRun}
            /\ walk'[r] = w /\ walk'[NextRun] = new
            /\ \A q \in Runs \ {r} : walk'[q] = walk[q]
            /\ runs'[NextRun] = row
            /\ \A q \in Runs : runs'[q] = runs[q]
        BY <2>7, GrownBy
      <3>2. row.status = "RUNNING" /\ scan' = scan
        BY <2>7 DEF Grown
      <3>3. ASSUME NEW q \in Runs', walk'[q].pc \notin {"none", "return"}
            PROVE  runs'[q].status = "RUNNING"
        BY <2>7, <3>1, <3>2, <3>3 DEF StatusInv
      <3>4. ASSUME NEW q \in scan'
            PROVE  walk'[q].pc = "none" /\ runs'[q].status \notin TerminalRunStatuses
        <4>1. q \in Runs \ {r}
          BY <1>s, <2>7, <3>2, <3>4 DEF StatusInv
        <4> QED
          BY <3>1, <3>2, <3>4, <4>1 DEF StatusInv
      <3> QED
        BY <3>3, <3>4 DEF StatusInv
    <2>8. ASSUME NEW w, NEW new, NEW row, Call(r, w, new, row)
          PROVE  StatusInv'
      BY <2>7, <2>8 DEF Call
    <2>9. ASSUME NEW i \in Items(r), NEW w, NEW row, ItemMissing(r, i, w, row)
          PROVE  StatusInv'
      BY <2>7, <2>9 DEF ItemMissing
    <2>10. ASSUME NEW i \in Items(r), NEW w, NEW new, NEW row, ItemBegins(r, i, w, new, row)
           PROVE  StatusInv'
      BY <2>7, <2>10 DEF ItemBegins
    <2> QED
      BY <1>1, <2>2, <2>3, <2>5, <2>6, <2>8, <2>9, <2>10 DEF Moves
  <1>2. CASE Crash
    <2>1. Runs' = Runs /\ (\A q \in Runs : walk'[q] = NoWalk) /\ scan' = {}
      BY <1>2, CrashBy
    <2> QED
      BY <1>n, <2>1 DEF StatusInv
  <1>3. CASE ScanNext
    <2>1. PICK r \in scan :
              /\ Runs' = Runs
              /\ \A q \in Runs \ {r} : walk'[q] = walk[q] /\ runs'[q] = runs[q]
              /\ runs'[r].status = "RUNNING"
              /\ scan' = scan \ {r}
      BY <1>3, ScanBy
    <2> QED
      BY <1>s, <2>1 DEF StatusInv
  <1>4. CASE Rests
    <2>1. walk' = walk /\ runs' = runs /\ Runs' = Runs
      BY <1>4 DEF Rests, Runs
    <2>2. ASSUME NEW q \in scan'
          PROVE  walk[q].pc = "none" /\ runs[q].status \notin TerminalRunStatuses
      <3>1. CASE scan' \in {scan, {}}
        BY <2>2, <3>1 DEF StatusInv
      <3>2. CASE Quiet /\ scan' = {r \in Runs : runs[r].status \notin TerminalRunStatuses}
        BY <1>n, <2>2, <3>2 DEF Quiet
      <3> QED
        BY <1>4, <3>1, <3>2 DEF Rests
    <2> QED
      BY <2>1, <2>2 DEF StatusInv
  <1> QED
    BY <1>1, <1>2, <1>3, <1>4, NextMoves

-----------------------------------------------------------------------------
(* The worktrees of the items *)

InMap(p, x) == walk[p].pc \in {"pool", "merge"} /\ x \in Range(walk[p].kids)

\* The pool of p raised: whatever it had begun stays behind.
LeftBehind(p) ==
    /\ runs[p].status = "FAILED" /\ walk[p].pc \in {"none", "return"}
    /\ \E n \in DOMAIN Nodes(p) : Nodes(p)[n].type = "map" /\ done[p][n] = Raised

Owned(p, x) == InMap(p, x) \/ LeftBehind(p)

TreeInv ==
    /\ \A r \in Runs : \A i \in Items(r) :
         walk[r].pc = "pool" /\ walk[r].kids[i] # 0 => walk[r].kids[i] \in trees
    /\ crashes = 0 => \A x \in trees, p \in Runs :
         runs[x].index > 0 /\ runs[x].parent = p => Owned(p, x)

PoolHasTrees(q) ==
    walk'[q].pc = "pool" => \A i \in 1..Len(walk'[q].kids) :
        walk'[q].kids[i] # 0 => walk'[q].kids[i] \in trees'

\* Steps that create nothing.
LEMMA TreeStays ==
    ASSUME TypeInv, FamilyInv, TreeInv, Runs' = Runs, \A q \in Runs : SameLineage(q),
           trees' \subseteq trees, \A q \in Runs : PoolHasTrees(q),
           crashes' = 0 => /\ crashes = 0
                           /\ \A p \in Runs, x \in trees' : Owned(p, x) => Owned(p, x)'
    PROVE  TreeInv'
  <1>1. ASSUME NEW r \in Runs', NEW i \in Items(r)', walk'[r].pc = "pool", walk'[r].kids[i] # 0
        PROVE  walk'[r].kids[i] \in trees'
    BY <1>1 DEF PoolHasTrees, Items
  <1>2. ASSUME crashes' = 0, NEW x \in trees', NEW p \in Runs', runs'[x].index > 0,
               runs'[x].parent = p
        PROVE  Owned(p, x)'
    <2>1. x \in Runs /\ x \in trees /\ p \in Runs /\ SameLineage(x)
      BY <1>2 DEF TypeInv
    <2>2. Owned(p, x)
      BY <1>2, <2>1 DEF TreeInv, SameLineage
    <2> QED
      BY <1>2, <2>1, <2>2
  <1> QED
    BY <1>1, <1>2 DEF TreeInv

\* A pool with the same children has their worktrees.
LEMMA PoolHasTreesOf ==
    ASSUME TreeInv, NEW q \in Runs, walk'[q].kids = walk[q].kids, walk[q].pc = "pool",
           \A i \in Items(q) : walk[q].kids[i] \in trees => walk[q].kids[i] \in trees'
    PROVE  PoolHasTrees(q)
  BY DEF TreeInv, PoolHasTrees, Items

\* What a pool left behind is there until its run is resumed.
LEMMA LeftBehindStays ==
    ASSUME NEW p \in Runs, LeftBehind(p), runs'[p] = runs[p], done'[p] = done[p],
           walk'[p].pc \in {"none", "return"}
    PROVE  LeftBehind(p)'
  BY DEF LeftBehind, Nodes

\* What is not touched is owned as before.
LEMMA OwnedStays ==
    ASSUME NEW p \in Runs, NEW x, Owned(p, x), walk'[p] = walk[p], runs'[p] = runs[p],
           done'[p] = done[p]
    PROVE  Owned(p, x)'
  <1>1. CASE InMap(p, x)
    BY <1>1 DEF InMap, Owned
  <1>2. CASE LeftBehind(p)
    <2>1. walk'[p].pc \in {"none", "return"}
      BY <1>2 DEF LeftBehind
    <2> QED
      BY <1>2, <2>1, LeftBehindStays DEF Owned
  <1> QED
    BY <1>1, <1>2 DEF Owned

\* A run that creates another: the tree of an item is one of its map's.
LEMMA TreeGrows ==
    ASSUME TypeInv, FamilyInv, TreeInv, NEW r \in Runs, NEW w, NEW new, NEW row,
           Grown(r, w, new, row), new.pc # "pool",
           walk[r].pc \notin {"none", "return", "merge"},
           walk[r].pc = "pool" => w.pc = "pool",
           w.pc = "pool" => \A i \in 1..Len(w.kids) : w.kids[i] # 0 =>
                               w.kids[i] = NextRun \/ InMap(r, w.kids[i]),
           walk[r].pc = "pool" => \A x \in Runs : x \in Range(walk[r].kids) => x \in Range(w.kids),
           \/ trees' = trees /\ ~(w.pc = "pool" /\ NextRun \in Range(w.kids))
           \/ trees' = trees \cup {NextRun} /\ w.pc = "pool" /\ NextRun \in Range(w.kids)
    PROVE  TreeInv'
  <1>1. /\ NextRun \notin Runs /\ Runs' = Runs \cup {NextRun}
        /\ walk'[r] = w /\ walk'[NextRun] = new
        /\ \A q \in Runs \ {r} : walk'[q] = walk[q]
        /\ runs'[NextRun] = row
        /\ \A q \in Runs : runs'[q] = runs[q] /\ done'[q] = done[q]
    BY GrownBy
  <1>2. row.parent = r /\ crashes' = crashes /\ w \in Walks
    BY DEF Grown
  <1>w. walk[r] \in Walks
    BY RunAndWalk DEF TypeInv
  <1>3. ASSUME NEW q \in Runs', NEW i \in Items(q)', walk'[q].pc = "pool", walk'[q].kids[i] # 0
        PROVE  walk'[q].kids[i] \in trees'
    <2>1. CASE q = NextRun
      BY <1>1, <1>3, <2>1
    <2>2. CASE q = r
      <3>1. i \in 1..Len(w.kids) /\ w.kids[i] # 0 /\ w.pc = "pool" /\ i \in DOMAIN w.kids
        BY <1>1, <1>2, <1>3, <2>2 DEF Items, Walks
      <3>2. CASE w.kids[i] = NextRun
        BY <1>1, <2>2, <3>1, <3>2 DEF Range
      <3>3. CASE InMap(r, w.kids[i])
        <4>1. PICK j \in DOMAIN walk[r].kids : walk[r].kids[j] = w.kids[i]
          BY <3>3 DEF InMap, Range
        <4>2. j \in Items(r) /\ walk[r].pc = "pool"
          BY <1>w, <3>3 DEF InMap, Walks, Items
        <4>3. w.kids[i] \in trees
          BY <3>1, <4>1, <4>2 DEF TreeInv
        <4> QED
          BY <1>1, <2>2, <4>3
      <3> QED
        BY <3>1, <3>2, <3>3
    <2>3. CASE q \in Runs \ {r}
      BY <1>1, <1>3, <2>3 DEF TreeInv, Items
    <2> QED
      BY <1>1, <1>3, <2>1, <2>2, <2>3
  <1>4. ASSUME crashes' = 0, NEW x \in trees', NEW p \in Runs', runs'[x].index > 0,
               runs'[x].parent = p
        PROVE  Owned(p, x)'
    <2>2. CASE x = NextRun
      <3>1. p = r
        BY <1>1, <1>2, <1>4, <2>2
      <3>2. NextRun \notin trees
        BY <1>1 DEF TypeInv
      <3>3. w.pc = "pool" /\ NextRun \in Range(w.kids)
        BY <1>4, <2>2, <3>2
      <3>4. walk'[r].pc = "pool" /\ x \in Range(walk'[r].kids)
        BY <1>1, <2>2, <3>3
      <3>5. Owned(r, x)'
        BY <3>4 DEF Owned, InMap
      <3> QED
        BY <3>1, <3>5
    <2>3. CASE x # NextRun
      <3>1. x \in trees /\ x \in Runs
        BY <1>4, <2>3 DEF TypeInv
      <3>2. p = runs[x].parent /\ p \in Runs
        <4>1. runs[x].parent \in Runs
          BY <1>1, <1>4, <3>1 DEF FamilyInv
        <4> QED
          BY <1>1, <1>4, <3>1, <4>1
      <3>3. Owned(p, x)
        BY <1>1, <1>2, <1>4, <3>1, <3>2 DEF TreeInv
      <3>4. CASE p # r
        BY <1>1, <3>2, <3>3, <3>4, OwnedStays
      <3>5. CASE p = r
        <4>1. InMap(r, x) /\ walk[r].pc = "pool"
          BY <3>3, <3>5 DEF Owned, InMap, LeftBehind
        <4>2. w.pc = "pool" /\ x \in Range(w.kids)
          BY <3>1, <4>1 DEF InMap
        <4>3. walk'[p].pc = "pool" /\ x \in Range(walk'[p].kids)
          BY <1>1, <3>5, <4>2
        <4> QED
          BY <4>3 DEF Owned, InMap
      <3> QED
        BY <3>4, <3>5
    <2> QED
      BY <2>2, <2>3
  <1> QED
    BY <1>3, <1>4 DEF TreeInv

\* Every step keeps the worktrees with their maps.
LEMMA TreeKept ==
    ASSUME TypeInv, FamilyInv, StatusInv, TreeInv, [Next]_vars
    PROVE  TreeInv'
  <1>n. NoWalk.pc = "none" /\ NoWalk.kids = <<>>
    BY DEF NoWalk
  <1>1. ASSUME NEW r \in Runs, Moves(r)
        PROVE  TreeInv'
    <2>w. walk[r] \in Walks
      BY RunAndWalk DEF TypeInv
    <2>1. ASSUME NEW w, Alone(r, w), PoolHasTrees(r),
                 \A q \in Runs \ {r} : \A i \in Items(q) : walk[q].pc = "pool" =>
                    (walk[q].kids[i] \in trees => walk[q].kids[i] \in trees'),
                 \A x \in trees' : Owned(r, x) => Owned(r, x)'
          PROVE  TreeInv'
      <3>1. /\ Runs' = Runs /\ Reports(r, w)
            /\ walk'[r] = w /\ \A q \in Runs \ {r} : walk'[q] = walk[q]
        BY <2>1, AloneBy
      <3>2. trees' \subseteq trees /\ crashes' = crashes
        BY <2>1 DEF Alone, Reported
      <3>3. ASSUME NEW q \in Runs \ {r}
            PROVE  PoolHasTrees(q)
        <4>1. CASE walk[q].pc = "pool"
          BY <2>1, <3>1, <4>1, PoolHasTreesOf
        <4>2. CASE walk[q].pc # "pool"
          BY <3>1, <4>2 DEF PoolHasTrees
        <4> QED
          BY <4>1, <4>2
      <3>4. ASSUME NEW p \in Runs, NEW x \in trees', Owned(p, x)
            PROVE  Owned(p, x)'
        <4>1. CASE p = r
          BY <2>1, <3>4, <4>1
        <4>2. CASE p # r
          BY <3>1, <3>4, <4>2, OwnedStays DEF Reports
        <4> QED
          BY <4>1, <4>2
      <3>5. \A q \in Runs : PoolHasTrees(q)
        BY <2>1, <3>3
      <3>6. \A q \in Runs : SameLineage(q)
        BY <3>1 DEF Reports
      <3>7. crashes' = 0 => /\ crashes = 0
                            /\ \A p \in Runs, x \in trees' : Owned(p, x) => Owned(p, x)'
        BY <3>2, <3>4
      <3> QED
        BY <3>1, <3>2, <3>5, <3>6, <3>7, TreeStays
    <2>2. ASSUME NEW w, OwnStep(r, w)
          PROVE  TreeInv'
      <3>1. Alone(r, w)
        BY <2>2, AloneMoves
      <3>2. walk'[r] = w
        BY <3>1, AloneBy
      <3>3. /\ Working(r) /\ w.pc # "pool" /\ trees' = trees
            /\ walk[r].pc = "merge" => w.pc = "merge" /\ w.kids = walk[r].kids
        BY <2>2 DEF OwnStep, AtWork
      <3>4. PoolHasTrees(r)
        BY <3>2, <3>3 DEF PoolHasTrees
      <3>5. ASSUME NEW x, Owned(r, x)
            PROVE  Owned(r, x)'
        <4>1. walk[r].pc = "merge" /\ x \in Range(walk[r].kids)
          BY <3>3, <3>5 DEF Owned, InMap, LeftBehind, Working
        <4> QED
          BY <3>2, <3>3, <4>1 DEF Owned, InMap
      <3> QED
        BY <2>1, <3>1, <3>3, <3>4, <3>5
    <2>3. ASSUME NEW w, MapBegins(r, w)
          PROVE  TreeInv'
      <3>1. Alone(r, w)
        BY <2>3, AloneMoves
      <3>2. walk'[r] = w
        BY <3>1, AloneBy
      <3>3. /\ walk[r].pc = "exec" /\ trees' = trees
            /\ \A i \in 1..Len(w.kids) : w.kids[i] = 0
        BY <2>3 DEF MapBegins
      <3>4. PoolHasTrees(r)
        BY <3>2, <3>3 DEF PoolHasTrees
      <3>5. \A x : ~Owned(r, x)
        BY <3>3 DEF Owned, InMap, LeftBehind
      <3> QED
        BY <2>1, <3>1, <3>3, <3>4, <3>5
    <2>4. ASSUME NEW w, PoolEnds(r, w)
          PROVE  TreeInv'
      <3>1. Alone(r, w)
        BY <2>4, AloneMoves
      <3>2. walk'[r] = w /\ Runs' = Runs /\ SameLineage(r)
        BY <3>1, AloneBy DEF Reports
      <3>3. /\ walk[r].pc = "pool" /\ w.pc # "pool" /\ trees' = trees
        BY <2>4 DEF PoolEnds
      <3>4. PoolHasTrees(r)
        BY <3>2, <3>3 DEF PoolHasTrees
      <3>5. ASSUME NEW x, Owned(r, x)
            PROVE  Owned(r, x)'
        <4>1. x \in Range(walk[r].kids)
          BY <3>3, <3>5 DEF Owned, InMap, LeftBehind
        <4>2. CASE w.pc = "merge" /\ w.kids = walk[r].kids
          BY <3>2, <4>1, <4>2 DEF Owned, InMap
        <4>3. CASE /\ w.pc = "return"
                   /\ runs' = [runs EXCEPT ![r].status = "FAILED"]
                   /\ \E n \in DOMAIN Nodes(r) : /\ Nodes(r)[n].type = "map"
                                                 /\ done' = [done EXCEPT ![r][n] = Raised]
          <5>1. PICK n \in DOMAIN Nodes(r) : /\ Nodes(r)[n].type = "map"
                                             /\ done' = [done EXCEPT ![r][n] = Raised]
            BY <4>3
          <5>2. r \in DOMAIN done /\ n \in DOMAIN done[r]
            <6>1. done \in Seq(Range(done)) /\ Len(done) = Len(runs) /\ Runs = 1..Len(runs)
              BY RunAndWalk DEF TypeInv, DoneTyped
            <6> QED
              BY <5>1, <6>1 DEF TypeInv, DoneTyped
          <5>3. done'[r][n] = Raised
            BY <5>1, <5>2
          <5>4. runs'[r].status = "FAILED"
            <6>1. runs[r] \in RunRows /\ r \in DOMAIN runs
              BY RunAndWalk DEF TypeInv, Runs
            <6> QED
              BY <4>3, <6>1 DEF RunRows
          <5>5. Nodes(r)' = Nodes(r)
            BY <3>2 DEF Nodes, SameLineage
          <5>6. LeftBehind(r)'
            BY <3>2, <4>3, <5>1, <5>3, <5>4, <5>5 DEF LeftBehind
          <5> QED
            BY <5>6 DEF Owned
        <4> QED
          BY <2>4, <4>2, <4>3 DEF PoolEnds
      <3> QED
        BY <2>1, <3>1, <3>3, <3>4, <3>5
    <2>5. ASSUME NEW w, MapEnds(r, w)
          PROVE  TreeInv'
      <3>1. Alone(r, w)
        BY <2>5, AloneMoves
      <3>2. walk'[r] = w
        BY <3>1, AloneBy
      <3>3. /\ walk[r].pc = "merge" /\ w.pc # "pool" /\ trees' = trees \ Range(walk[r].kids)
        BY <2>5 DEF MapEnds
      <3>4. PoolHasTrees(r)
        BY <3>2, <3>3 DEF PoolHasTrees
      <3>5. ASSUME NEW x \in trees'
            PROVE  ~Owned(r, x)
        BY <3>3, <3>5 DEF Owned, InMap, LeftBehind
      <3>6. ASSUME NEW q \in Runs \ {r}, NEW i \in Items(q), walk[q].pc = "pool",
                   walk[q].kids[i] \in trees
            PROVE  walk[q].kids[i] \in trees'
        <4>1. walk[q].kids[i] \in Runs /\ walk[q].kids[i] # 0
          <5>1. Runs = 1..Len(runs) /\ runs \in Seq(RunRows)
            BY RunAndWalk DEF TypeInv, WalksTyped
          <5> QED
            BY <3>6, <5>1 DEF TypeInv
        <4>2. runs[walk[q].kids[i]].parent = q
          BY <3>6, <4>1 DEF FamilyInv
        <4>3. SUFFICES ASSUME walk[q].kids[i] \in Range(walk[r].kids)
                       PROVE  FALSE
          BY <3>3, <3>6
        <4>4. PICK j \in DOMAIN walk[r].kids : walk[r].kids[j] = walk[q].kids[i]
          BY <4>3 DEF Range
        <4>5. j \in Items(r)
          BY <2>w DEF Walks, Items
        <4>6. runs[walk[r].kids[j]].parent = r
          BY <4>1, <4>4, <4>5 DEF FamilyInv
        <4> QED
          BY <3>6, <4>2, <4>4, <4>6
      <3> QED
        BY <2>1, <3>1, <3>4, <3>5, <3>6
    <2>6. CASE Close(r)
      <3>1. Alone(r, NoWalk)
        BY <2>6, CloseAlone
      <3>2. walk'[r] = NoWalk
        BY <3>1, AloneBy
      <3>3. /\ walk[r].pc = "return" /\ ~Waited(r) /\ trees \ {r} \subseteq trees'
            /\ runs' = runs /\ done' = done
        BY <2>6 DEF Close, db
      <3>4. PoolHasTrees(r)
        BY <1>n, <3>2 DEF PoolHasTrees
      <3>5. ASSUME NEW x, Owned(r, x)
            PROVE  Owned(r, x)'
        <4>1. LeftBehind(r)
          BY <3>3, <3>5 DEF Owned, InMap
        <4> QED
          BY <1>n, <3>2, <3>3, <4>1, LeftBehindStays DEF Owned
      <3>6. ASSUME NEW q \in Runs \ {r}, NEW i \in Items(q), walk[q].pc = "pool",
                   walk[q].kids[i] \in trees
            PROVE  walk[q].kids[i] \in trees'
        <4>1. SUFFICES ASSUME walk[q].kids[i] = r
                       PROVE  FALSE
          BY <3>3, <3>6
        <4>2. q # 0 /\ r # 0
          <5>1. Runs = 1..Len(runs) /\ runs \in Seq(RunRows)
            BY RunAndWalk DEF TypeInv, WalksTyped
          <5> QED
            BY <5>1
        <4>3. runs[r].parent = q
          BY <3>6, <4>1, <4>2 DEF FamilyInv
        <4>4. r \in Range(walk[q].kids)
          <5>1. walk[q] \in Walks
            BY RunAndWalk DEF TypeInv
          <5>2. i \in DOMAIN walk[q].kids
            BY <3>6, <5>1 DEF Walks, Items
          <5> QED
            BY <4>1, <5>2 DEF Range
        <4> QED
          BY <3>3, <3>6, <4>2, <4>3, <4>4 DEF Waited
      <3> QED
        BY <2>1, <3>1, <3>4, <3>5, <3>6
    <2>7. ASSUME NEW w, NEW c \in Runs \ {r}, Pair(r, c, w), walk[c].pc = "return",
                 walk[r].pc \notin {"none", "return", "merge"}, trees' = trees,
                 walk[r].pc = "pool" => w.pc = "pool", w.kids = walk[r].kids \/ w.pc # "pool",
                 w.pc = "pool" => walk[r].pc = "pool"
          PROVE  TreeInv'
      <3>1. /\ Runs' = Runs /\ Reports(r, w)
            /\ walk'[r] = w /\ walk'[c] = NoWalk
            /\ \A q \in Runs \ {r, c} : walk'[q] = walk[q]
        BY <2>7, PairBy
      <3>2. crashes' = crashes
        BY <2>7 DEF Pair, Reported
      <3>3. ASSUME NEW q \in Runs
            PROVE  PoolHasTrees(q)
        <4>1. CASE walk'[q].pc = "pool"
          <5>1. walk[q].pc = "pool" /\ walk'[q].kids = walk[q].kids
            BY <1>n, <2>7, <3>1, <4>1
          <5> QED
            BY <2>7, <5>1, PoolHasTreesOf
        <4>2. CASE walk'[q].pc # "pool"
          BY <4>2 DEF PoolHasTrees
        <4> QED
          BY <4>1, <4>2
      <3>4. ASSUME NEW p \in Runs, NEW x, Owned(p, x)
            PROVE  Owned(p, x)'
        <4>1. CASE p = r
          <5>1. walk[r].pc = "pool" /\ x \in Range(walk[r].kids)
            BY <2>7, <3>4, <4>1 DEF Owned, InMap, LeftBehind
          <5> QED
            BY <2>7, <3>1, <4>1, <5>1 DEF Owned, InMap
        <4>2. CASE p = c
          <5>1. LeftBehind(c)
            BY <2>7, <3>4, <4>2 DEF Owned, InMap
          <5> QED
            BY <1>n, <3>1, <4>2, <5>1, LeftBehindStays DEF Owned, Reports
        <4>3. CASE p \in Runs \ {r, c}
          BY <3>1, <3>4, <4>3, OwnedStays DEF Reports
        <4> QED
          BY <4>1, <4>2, <4>3
      <3>6. \A q \in Runs : SameLineage(q)
        BY <3>1 DEF Reports
      <3>7. crashes' = 0 => /\ crashes = 0
                            /\ \A p \in Runs, x \in trees' : Owned(p, x) => Owned(p, x)'
        BY <3>2, <3>4
      <3>8. trees' \subseteq trees
        BY <2>7
      <3> QED
        BY <3>1, <3>3, <3>6, <3>7, <3>8, TreeStays
    <2>8. ASSUME NEW w, GoesOn(r, w)
          PROVE  TreeInv'
      <3>1. Pair(r, Child(r), w) /\ Child(r) \in Runs \ {r} /\ w.pc \in {"visit", "return"}
        BY <2>8, PairMoves
      <3>2. walk[r].pc = "wait" /\ walk[Child(r)].pc = "return" /\ trees' = trees
        BY <2>8 DEF GoesOn
      <3> QED
        BY <2>7, <3>1, <3>2
    <2>9. ASSUME NEW i \in Items(r), NEW w, ItemEnds(r, i, w)
          PROVE  TreeInv'
      <3>1. /\ Pair(r, walk[r].kids[i], w) /\ walk[r].kids[i] \in Runs \ {r}
            /\ w.pc = "pool"
        BY <2>9, PairMoves
      <3>2. /\ walk[r].pc = "pool" /\ walk[walk[r].kids[i]].pc = "return" /\ trees' = trees
            /\ w.kids = walk[r].kids
        BY <2>9 DEF ItemEnds
      <3> QED
        BY <2>7, <3>1, <3>2
    <2>10. ASSUME NEW w, NEW new, NEW row, Call(r, w, new, row)
           PROVE  TreeInv'
      <3>1. /\ Grown(r, w, new, row) /\ new.pc = "visit" /\ w.pc = "wait"
            /\ walk[r].pc \in {"visit", "exec"} /\ trees' = trees
        BY <2>10 DEF Call
      <3> QED
        BY <3>1, TreeGrows
    <2>k. NextRun \notin Runs /\ NextRun # 0
      <3>1. runs \in Seq(RunRows) /\ Runs = 1..Len(runs)
        BY RunAndWalk DEF TypeInv, WalksTyped
      <3> QED
        BY <3>1 DEF NextRun
    <2>11. ASSUME NEW i \in Items(r), NEW w, NEW row, ItemMissing(r, i, w, row)
           PROVE  TreeInv'
      <3>1. /\ Grown(r, w, NoWalk, row) /\ walk[r].pc = "pool"
            /\ w.pc = "pool" /\ w.kids = walk[r].kids /\ trees' = trees
        BY <2>11 DEF ItemMissing
      <3>2. NextRun \notin Range(w.kids)
        <4>1. SUFFICES ASSUME NEW j \in DOMAIN walk[r].kids, walk[r].kids[j] = NextRun
                       PROVE  FALSE
          BY <3>1 DEF Range
        <4>2. j \in Items(r)
          BY <2>w, <4>1 DEF Walks, Items
        <4> QED
          BY <2>k, <4>1, <4>2 DEF FamilyInv
      <3>3. \A j \in 1..Len(w.kids) : InMap(r, w.kids[j])
        BY <2>w, <3>1 DEF InMap, Range, Walks
      <3> QED
        BY <1>n, <3>1, <3>2, <3>3, TreeGrows
    <2>12. ASSUME NEW i \in Items(r), NEW w, NEW new, NEW row, ItemBegins(r, i, w, new, row)
           PROVE  TreeInv'
      <3>1. /\ Grown(r, w, new, row) /\ new.pc = "visit" /\ walk[r].pc = "pool"
            /\ walk[r].kids[i] = 0
            /\ w.pc = "pool" /\ w.kids = [walk[r].kids EXCEPT ![i] = NextRun]
            /\ trees' = trees \cup {NextRun}
        BY <2>12 DEF ItemBegins
      <3>2. /\ DOMAIN w.kids = Items(r) /\ DOMAIN walk[r].kids = Items(r)
            /\ Items(r) = 1..Len(w.kids)
            /\ \A j \in Items(r) : w.kids[j] = IF j = i THEN NextRun ELSE walk[r].kids[j]
        <4>1. walk[r].kids \in Seq(Nat)
          BY <2>w DEF Walks
        <4> QED
          BY <2>12, <3>1, <4>1 DEF Items
      <3>3. NextRun \in Range(w.kids)
        BY <2>12, <3>2 DEF Range
      <3>4. ASSUME NEW j \in 1..Len(w.kids)
            PROVE  w.kids[j] = NextRun \/ InMap(r, w.kids[j])
        BY <3>1, <3>2, <3>4 DEF InMap, Range
      <3>5. ASSUME NEW x \in Runs, x \in Range(walk[r].kids)
            PROVE  x \in Range(w.kids)
        <4>1. PICK j \in Items(r) : walk[r].kids[j] = x
          BY <3>2, <3>5 DEF Range
        <4>2. x # 0
          <5>1. Runs = 1..Len(runs) /\ runs \in Seq(RunRows)
            BY RunAndWalk DEF TypeInv, WalksTyped
          <5> QED
            BY <5>1
        <4>3. w.kids[j] = x
          BY <3>1, <3>2, <4>1, <4>2
        <4> QED
          BY <3>2, <4>1, <4>3 DEF Range
      <3> QED
        BY <3>1, <3>3, <3>4, <3>5, TreeGrows
    <2> QED
      BY <1>1, <2>2, <2>3, <2>4, <2>5, <2>6, <2>8, <2>9, <2>10, <2>11, <2>12 DEF Moves
  <1>2. CASE Crash
    <2>1. /\ Runs' = Runs /\ runs' = runs /\ (\A q \in Runs : walk'[q] = NoWalk) /\ crashes' > 0
      BY <1>2, CrashBy
    <2>2. trees' = trees
      BY <1>2 DEF Crash, git
    <2>3. \A q \in Runs : PoolHasTrees(q) /\ SameLineage(q)
      BY <1>n, <2>1 DEF PoolHasTrees, SameLineage
    <2> QED
      BY <2>1, <2>2, <2>3, TreeStays
  <1>3. CASE ScanNext
    <2>1. PICK r \in scan :
              /\ Runs' = Runs /\ Quiet
              /\ walk'[r].pc = "visit"
              /\ \A q \in Runs \ {r} : walk'[q] = walk[q] /\ runs'[q] = runs[q]
              /\ \A q \in Runs : SameLineage(q)
              /\ UNCHANGED <<done, trees, crashes>>
      BY <1>3, ScanBy
    <2>2. \A q \in Runs : PoolHasTrees(q)
      BY <1>n, <2>1 DEF PoolHasTrees, Quiet
    <2>3. ASSUME NEW p \in Runs, NEW x, Owned(p, x)
          PROVE  Owned(p, x)'
      <3>1. p # r
        BY <1>n, <2>1, <2>3 DEF Owned, InMap, LeftBehind, Quiet, StatusInv, TerminalRunStatuses
      <3> QED
        BY <2>1, <2>3, <3>1, OwnedStays
    <2> QED
      BY <2>1, <2>2, <2>3, TreeStays
  <1>4. CASE Rests
    <2>1. UNCHANGED <<runs, walk, done, trees, crashes>> /\ Runs' = Runs
      BY <1>4 DEF Rests, Runs
    <2>2. \A q \in Runs : PoolHasTrees(q) /\ SameLineage(q)
      BY <2>1 DEF PoolHasTrees, SameLineage, TreeInv, Items
    <2>3. ASSUME NEW p \in Runs, NEW x, Owned(p, x)
          PROVE  Owned(p, x)'
      BY <2>1, <2>3, OwnedStays
    <2> QED
      BY <2>1, <2>2, <2>3, TreeStays
  <1> QED
    BY <1>1, <1>2, <1>3, <1>4, NextMoves

-----------------------------------------------------------------------------
(* The theorems *)

CompositeInv ==
    /\ TypeInv /\ FamilyInv /\ PoolInv /\ TokenInv /\ StatusInv /\ TreeInv

\* A process begins with one walk of one run.
LEMMA CompositeInit ==
    ASSUME Init
    PROVE  CompositeInv
  <1>1. PICK w \in Tops, f \in FileAtStart :
           /\ runs = <<NewRow(w, 0, 0)>>
           /\ trees = {1}
           /\ walk = <<BeginIn(1)>>
           /\ scan = {}
           /\ done = <<[i \in 1..Len(Workflows[w]) |-> <<>>]>>
           /\ crashes = 0
    BY DEF Init
  <1>2. w \in DOMAIN Workflows /\ Workflows[w] \in Seq(Range(Workflows[w]))
    BY CompositeAssumption
  <1>3. PICK row \in RunRows : /\ row = NewRow(w, 0, 0) /\ row.wf = w /\ row.parent = 0
                               /\ row.index = 0 /\ row.status = "RUNNING"
    <2>1. NewRow(w, 0, 0) \in RunRows
      BY <1>2 DEF NewRow, RunRows, RunStatuses
    <2> QED
      BY <2>1 DEF NewRow
  <1>4. PICK v \in Walks : v = BeginIn(1) /\ v.pc = "visit" /\ v.kids = <<>> /\ v.node = 1
    <2>1. NoWalk \in Walks
      BY DEF NoWalk, Walks, Pcs, Results
    <2>2. /\ BeginIn(1) \in Walks /\ BeginIn(1).pc = "visit"
          /\ BeginIn(1).kids = <<>> /\ BeginIn(1).node = 1
      BY <2>1, WrittenWalks
    <2> QED
      BY <2>2
  <1>5. /\ Runs = {1} /\ runs[1] = row /\ walk[1] = v
        /\ runs \in Seq(RunRows) /\ walk \in Seq(Walks)
        /\ Len(runs) = 1 /\ Len(walk) = 1
    BY <1>1, <1>3, <1>4 DEF Runs
  <1>6. WalksTyped
    BY <1>4, <1>5 DEF WalksTyped
  <1>7. DoneTyped
    <2> DEFINE d == [i \in 1..Len(Workflows[w]) |-> <<>>]
    <2>1. DOMAIN d = DOMAIN Workflows[w]
      BY <1>2
    <2> HIDE DEF d
    <2>2. done = <<d>>
      BY <1>1 DEF d
    <2>3. /\ DOMAIN done = {1} /\ done[1] = d /\ Len(done) = 1
          /\ done \in Seq({d}) /\ Range(done) = {d}
      BY <2>2 DEF Range
    <2>4. done \in Seq(Range(done))
      BY <2>3
    <2>5. \A r \in Runs : DOMAIN done[r] = DOMAIN Nodes(r)
      BY <1>3, <1>5, <2>1, <2>3 DEF Nodes
    <2> QED
      BY <1>5, <2>3, <2>4, <2>5 DEF DoneTyped
  <1>8. TypeInv
    BY <1>1, <1>5, <1>6, <1>7 DEF TypeInv
  <1>9. \A r \in Runs : Items(r) = {}
    <2>1. Items(1) = 1..0
      BY <1>4, <1>5 DEF Items
    <2> QED
      BY <1>5, <2>1
  <1>10. FamilyInv
    BY <1>3, <1>4, <1>5, <1>9 DEF FamilyInv
  <1>11. PoolInv
    BY <1>4, <1>5, <1>9 DEF PoolInv
  <1>12. TokenInv
    BY <1>5 DEF TokenInv
  <1>13. StatusInv
    BY <1>1, <1>3, <1>5 DEF StatusInv
  <1>14. TreeInv
    BY <1>1, <1>3, <1>5, <1>9 DEF TreeInv
  <1> QED
    BY <1>8, <1>10, <1>11, <1>12, <1>13, <1>14 DEF CompositeInv

\* In every reachable state: the types, whose children are whose, who holds the
\* turn and the lock, which rows say RUNNING, and where the worktrees belong.
THEOREM CompositeInvariant == Spec => []CompositeInv
  <1>1. Init => CompositeInv
    BY CompositeInit
  <1>2. CompositeInv /\ [Next]_vars => CompositeInv'
    <2> SUFFICES ASSUME CompositeInv, [Next]_vars
                 PROVE  CompositeInv'
      OBVIOUS
    <2>1. TypeInv /\ FamilyInv /\ PoolInv /\ TokenInv /\ StatusInv /\ TreeInv
      BY DEF CompositeInv
    <2>2. TypeInv' /\ FamilyInv'
      BY <2>1, TypeKept, FamilyKept
    <2>3. PoolInv' /\ TokenInv'
      BY <2>1, PoolTokenKept
    <2>4. StatusInv' /\ TreeInv'
      BY <2>1, StatusKept, TreeKept
    <2> QED
      BY <2>2, <2>3, <2>4 DEF CompositeInv
  <1> QED
    BY <1>1, <1>2, PTL DEF Spec

\* The item that a map waits for is one of its pool.
LEMMA ItemOfPool ==
    ASSUME TypeInv, FamilyInv, NEW r \in Runs, runs[r].index > 0, Waited(r)
    PROVE  \E p \in Runs : \E i \in Items(p) :
              walk[p].pc = "pool" /\ walk[p].kids[i] = r /\ r # 0 /\ p = runs[r].parent
  <1>1. PICK p \in Runs : p = runs[r].parent /\ walk[p].pc \in {"wait", "pool"}
                          /\ r \in Range(walk[p].kids)
    BY DEF Waited, FamilyInv
  <1>2. PICK i \in DOMAIN walk[p].kids : walk[p].kids[i] = r
    BY <1>1 DEF Range
  <1>3. i \in Items(p)
    <2>1. walk[p] \in Walks
      BY RunAndWalk DEF TypeInv
    <2> QED
      BY <2>1 DEF Walks, Items
  <1>4. r # 0
    <2>1. Runs = 1..Len(runs) /\ runs \in Seq(RunRows)
      BY RunAndWalk DEF TypeInv, WalksTyped
    <2> QED
      BY <2>1
  <1>5. walk[p].pc = "pool"
    <2>1. walk[p].pc # "pool" => runs[r].index = 0
      BY <1>1, <1>2, <1>3, <1>4 DEF FamilyInv
    <2> QED
      BY <1>1, <2>1
  <1> QED
    BY <1>1, <1>2, <1>3, <1>4, <1>5

\* Is an item walked on behalf of a map that waits for it?
ItemWalked(r) == runs[r].index > 0 /\ walk[r] # NoWalk /\ Waited(r)

\* What the lock around an item's whole walk makes of maxConcurrency: of all walks
\* one at a time works, and the items of a map never run concurrently, although
\* "`maxConcurrency` bounds a real thread pool, not just a declared number"
\* (map_node.py:7-12, run_map_item).
ItemsNeverInterleave ==
    \A r, q \in Runs :
        (ItemWalked(r) /\ ItemWalked(q)) \/ (Working(r) /\ Working(q)) => r = q

\* So it is whatever the workflows, the number of workers and the nesting of maps,
\* over crashes and resumes.
THEOREM ItemsAreSequential == Spec => []ItemsNeverInterleave
  <1>1. CompositeInv => ItemsNeverInterleave
    <2> SUFFICES ASSUME CompositeInv, NEW r \in Runs, NEW q \in Runs,
                        (ItemWalked(r) /\ ItemWalked(q)) \/ (Working(r) /\ Working(q))
                 PROVE  r = q
      BY DEF ItemsNeverInterleave
    <2>1. CASE Working(r) /\ Working(q)
      BY <2>1 DEF CompositeInv, TokenInv, Holds
    <2>2. CASE ItemWalked(r) /\ ItemWalked(q)
      <3>0. TypeInv /\ FamilyInv
        BY DEF CompositeInv
      <3>p. PICK p \in Runs : \E i \in Items(p) :
               walk[p].pc = "pool" /\ walk[p].kids[i] = r /\ r # 0
        BY <2>2, <3>0, ItemOfPool DEF ItemWalked
      <3>1. PICK i \in Items(p) : walk[p].pc = "pool" /\ walk[p].kids[i] = r /\ r # 0
        BY <3>p
      <3>o. PICK o \in Runs : \E j \in Items(o) :
               walk[o].pc = "pool" /\ walk[o].kids[j] = q /\ q # 0
        BY <2>2, <3>0, ItemOfPool DEF ItemWalked
      <3>2. PICK j \in Items(o) : walk[o].pc = "pool" /\ walk[o].kids[j] = q /\ q # 0
        BY <3>o
      <3>3. Engaged(p, i) /\ Engaged(o, j)
        BY <2>2, <3>1, <3>2 DEF Engaged, ItemWalked
      <3> QED
        BY <3>1, <3>2, <3>3 DEF CompositeInv, PoolInv
    <2> QED
      BY <2>1, <2>2
  <1> QED
    BY <1>1, CompositeInvariant, PTL

\* Whatever the workflows, an item has its worktree while its map waits for it,
\* and has none when the run of the map is over, unless a process died or the
\* set-up of an item failed (the finally clause of map_node.py).
THEOREM ItemTreesFollow == Spec => []ItemTreesGoWithTheMap
  <1>1. CompositeInv => ItemTreesGoWithTheMap
    <2> SUFFICES ASSUME CompositeInv
                 PROVE  ItemTreesGoWithTheMap
      OBVIOUS
    <2>1. ASSUME NEW r \in Runs, runs[r].index > 0, Waited(r)
          PROVE  r \in trees
      <3>0. TypeInv /\ FamilyInv
        BY DEF CompositeInv
      <3>1. PICK p \in Runs : \E i \in Items(p) :
               walk[p].pc = "pool" /\ walk[p].kids[i] = r /\ r # 0
        BY <2>1, <3>0, ItemOfPool
      <3> QED
        BY <3>1 DEF CompositeInv, TreeInv
    <2>2. ASSUME NEW r \in Runs, NEW p, p = runs[r].parent,
                 crashes = 0, runs[r].index > 0, runs[p].status \in TerminalRunStatuses,
                 \A n \in DOMAIN Nodes(p) : Nodes(p)[n].type = "map" => done[p][n] # Raised,
                 r \in trees
          PROVE  FALSE
      <3>1. p \in Runs
        BY <2>2 DEF CompositeInv, FamilyInv
      <3>2. Owned(p, r)
        BY <2>2, <3>1 DEF CompositeInv, TreeInv
      <3>3. CASE InMap(p, r)
        <4>1. runs[p].status = "RUNNING"
          BY <3>1, <3>3 DEF CompositeInv, StatusInv, InMap
        <4> QED
          BY <2>2, <4>1 DEF TerminalRunStatuses
      <3>4. CASE LeftBehind(p)
        BY <2>2, <3>4 DEF LeftBehind
      <3> QED
        BY <3>2, <3>3, <3>4 DEF Owned
    <2> QED
      BY <2>1, <2>2 DEF ItemTreesGoWithTheMap
  <1> QED
    BY <1>1, CompositeInvariant, PTL

-----------------------------------------------------------------------------
(* Sequences put together, and what they end with.  What holds of every     *)
(* number of them follows from a least one for which it would not           *)

\* Every set of numbers has a least one.
LEMMA LeastOf ==
    ASSUME NEW T \in SUBSET Nat, T # {}
    PROVE  \E x \in T : \A y \in T : x <= y
  <1>1. \E x \in T : \A y \in T : ~ (<<y, x>> \in OpToRel(<, Nat))
    BY NatLessThanWellFounded, WFMin
  <1>2. PICK x \in T : \A y \in T : ~ (<<y, x>> \in OpToRel(<, Nat))
    BY <1>1
  <1>3. \A y \in T : ~ (y < x)
    BY <1>2 DEF OpToRel
  <1> QED
    BY <1>3

\* f gives what the first n sequences of s make together.
Joins(f, s, n) == f = [i \in 1..n |-> IF i = 1 THEN s[i] ELSE f[i - 1] \o s[i]]

\* There is such a function.
LEMMA JoinsExists ==
    ASSUME NEW s, NEW n \in Nat
    PROVE  \E f : Joins(f, s, n)
  <1> DEFINE T == {m \in Nat : ~ \E f : Joins(f, s, m)}
  <1>1. SUFFICES ASSUME T # {} PROVE FALSE
    OBVIOUS
  <1>2. PICK m \in T : \A k \in T : m <= k
    BY <1>1, LeastOf
  <1>3. Joins(<<>>, s, 0)
    BY DEF Joins
  <1>4. m \in Nat /\ m # 0
    BY <1>2, <1>3
  <1>5. m - 1 \in Nat /\ m - 1 \notin T
    BY <1>2, <1>4
  <1>6. PICK f : Joins(f, s, m - 1)
    BY <1>5
  <1> DEFINE g == [i \in 1..m |-> IF i = m THEN IF m = 1 THEN s[1] ELSE f[m - 1] \o s[m]
                                  ELSE f[i]]
  <1>7. DOMAIN f = 1..(m - 1)
    BY <1>6 DEF Joins
  <1>8. ASSUME NEW i \in 1..m
        PROVE  g[i] = IF i = 1 THEN s[i] ELSE g[i - 1] \o s[i]
    <2>1. CASE i = m
      BY <1>4, <2>1
    <2>2. CASE i # m
      <3>1. i \in 1..(m - 1) /\ g[i] = f[i]
        BY <1>4, <2>2
      <3>2. f[i] = IF i = 1 THEN s[i] ELSE f[i - 1] \o s[i]
        BY <1>6, <3>1 DEF Joins
      <3>3. CASE i = 1
        BY <3>1, <3>2, <3>3
      <3>4. CASE i # 1
        <4>1. g[i - 1] = f[i - 1]
          BY <1>4, <3>1, <3>4
        <4> QED
          BY <3>1, <3>2, <3>4, <4>1
      <3> QED
        BY <3>3, <3>4
    <2> QED
      BY <2>1, <2>2
  <1>9. Joins(g, s, m)
    <2>1. g = [i \in 1..m |-> g[i]]
      OBVIOUS
    <2> HIDE DEF g
    <2>2. g = [i \in 1..m |-> IF i = 1 THEN s[i] ELSE g[i - 1] \o s[i]]
      BY <1>8, <2>1
    <2> QED
      BY <2>2 DEF Joins
  <1> QED
    BY <1>2, <1>9

\* It has one value only at each place, a sequence.
LEMMA JoinsAgree ==
    ASSUME NEW S, NEW s \in Seq(Seq(S)), NEW t \in Seq(Seq(S)), Len(s) <= Len(t),
           \A i \in 1..Len(s) : t[i] = s[i],
           NEW f, NEW g, Joins(f, s, Len(s)), Joins(g, t, Len(t)),
           NEW i \in 1..Len(s)
    PROVE  f[i] = g[i] /\ f[i] \in Seq(S)
  <1> DEFINE T == {j \in 1..Len(s) : ~ (f[j] = g[j] /\ f[j] \in Seq(S))}
  <1>1. SUFFICES ASSUME T # {} PROVE FALSE
    OBVIOUS
  <1>2. T \in SUBSET Nat
    OBVIOUS
  <1>3. PICK j \in T : \A k \in T : j <= k
    BY <1>1, <1>2, LeastOf
  <1>4. /\ j \in 1..Len(s) /\ j \in 1..Len(t) /\ t[j] = s[j] /\ s[j] \in Seq(S)
        /\ Len(s) \in Nat
    <2>1. j \in 1..Len(s) /\ Len(s) \in Nat /\ Len(t) \in Nat
      BY <1>3
    <2> QED
      BY <2>1
  <1>5. f[j] = IF j = 1 THEN s[j] ELSE f[j - 1] \o s[j]
    BY <1>4 DEF Joins
  <1>6. g[j] = IF j = 1 THEN t[j] ELSE g[j - 1] \o t[j]
    BY <1>4 DEF Joins
  <1>7. CASE j = 1
    BY <1>3, <1>4, <1>5, <1>6, <1>7
  <1>8. CASE j # 1
    <2>1. j - 1 \in 1..Len(s) /\ j - 1 \notin T
      BY <1>3, <1>4, <1>8
    <2>2. f[j - 1] = g[j - 1] /\ f[j - 1] \in Seq(S)
      BY <2>1
    <2>3. f[j] = f[j - 1] \o s[j] /\ g[j] = f[j - 1] \o s[j]
      BY <1>4, <1>5, <1>6, <1>8, <2>2
    <2>4. f[j] \in Seq(S)
      BY <1>4, <2>2, <2>3
    <2> QED
      BY <1>3, <2>3, <2>4
  <1> QED
    BY <1>7, <1>8

\* FlattenSeq is such a function's last value.
LEMMA FlattenIs ==
    ASSUME NEW S, NEW s \in Seq(Seq(S)), Len(s) # 0
    PROVE  \E f : Joins(f, s, Len(s)) /\ FlattenSeq(s) = f[Len(s)]
  <1>1. Len(s) \in Nat
    OBVIOUS
  <1>2. PICK f : Joins(f, s, Len(s))
    BY <1>1, JoinsExists
  <1> QED
    BY <1>1, <1>2 DEF FlattenSeq, Joins

LEMMA FlattenEmpty ==
    FlattenSeq(<<>>) = <<>>
  BY DEF FlattenSeq

\* One sequence more is added at the end.
LEMMA FlattenMore ==
    ASSUME NEW S, NEW s \in Seq(Seq(S)), NEW t \in Seq(Seq(S)), Len(t) = Len(s) + 1,
           \A i \in 1..Len(s) : t[i] = s[i]
    PROVE  /\ FlattenSeq(s) \in Seq(S)
           /\ FlattenSeq(t) = FlattenSeq(s) \o t[Len(t)]
           /\ FlattenSeq(t) \in Seq(S)
  <1>1. Len(s) \in Nat /\ Len(t) \in Nat /\ Len(t) # 0 /\ t[Len(t)] \in Seq(S)
    OBVIOUS
  <1>2. PICK g : Joins(g, t, Len(t)) /\ FlattenSeq(t) = g[Len(t)]
    BY <1>1, FlattenIs
  <1>3. g[Len(t)] = IF Len(t) = 1 THEN t[Len(t)] ELSE g[Len(s)] \o t[Len(t)]
    <2>1. Len(t) \in 1..Len(t) /\ Len(t) - 1 = Len(s)
      BY <1>1
    <2>2. \A i \in 1..Len(t) : g[i] = IF i = 1 THEN t[i] ELSE g[i - 1] \o t[i]
      BY <1>2 DEF Joins
    <2> QED
      BY <2>1, <2>2
  <1>4. CASE Len(s) = 0
    <2>1. s = <<>> /\ FlattenSeq(s) = <<>>
      BY <1>4, FlattenEmpty
    <2>2. FlattenSeq(t) = t[Len(t)]
      BY <1>2, <1>3, <1>4
    <2>3. <<>> \o t[Len(t)] = t[Len(t)] /\ <<>> \in Seq(S)
      BY <1>1
    <2> QED
      BY <1>1, <2>1, <2>2, <2>3
  <1>5. CASE Len(s) # 0
    <2>1. PICK f : Joins(f, s, Len(s)) /\ FlattenSeq(s) = f[Len(s)]
      BY <1>5, FlattenIs
    <2>2. Len(s) <= Len(t) /\ Len(s) \in 1..Len(s)
      BY <1>1, <1>5
    <2>3. f[Len(s)] = g[Len(s)] /\ f[Len(s)] \in Seq(S)
      BY <1>2, <2>1, <2>2, JoinsAgree
    <2>4. FlattenSeq(t) = g[Len(s)] \o t[Len(t)]
      <3>1. Len(t) # 1
        BY <1>1, <1>5
      <3> QED
        BY <1>2, <1>3, <3>1
    <2> QED
      BY <1>1, <2>1, <2>3, <2>4
  <1> QED
    BY <1>4, <1>5

\* t ends with s.
EndsWith(t, s) == Len(s) <= Len(t) /\ SubSeq(t, Len(t) - Len(s) + 1, Len(t)) = s

LEMMA EndsWithNothing ==
    ASSUME NEW S, NEW t \in Seq(S)
    PROVE  EndsWith(t, <<>>)
  BY DEF EndsWith

LEMMA EndsWithMore ==
    ASSUME NEW S, NEW t \in Seq(S), NEW s \in Seq(S), NEW u \in Seq(S), EndsWith(t, s)
    PROVE  EndsWith(t \o u, s \o u)
  <1> DEFINE a == SubSeq(t \o u, Len(t \o u) - Len(s \o u) + 1, Len(t \o u))
  <1>1. Len(s) \in Nat /\ Len(t) \in Nat /\ Len(u) \in Nat /\ Len(s) <= Len(t)
    BY DEF EndsWith
  <1>2. /\ Len(t \o u) = Len(t) + Len(u) /\ Len(s \o u) = Len(s) + Len(u)
        /\ t \o u \in Seq(S) /\ s \o u \in Seq(S)
    OBVIOUS
  <1>3. a = SubSeq(t \o u, Len(t) - Len(s) + 1, Len(t) + Len(u))
    <2>1. Len(t \o u) - Len(s \o u) + 1 = Len(t) - Len(s) + 1
      BY <1>1, <1>2
    <2> QED
      BY <1>2, <2>1
  <1>4. a \in Seq(S) /\ Len(a) = Len(s) + Len(u)
    BY <1>1, <1>2, <1>3
  <1>5. ASSUME NEW i \in 1..(Len(s) + Len(u))
        PROVE  a[i] = (s \o u)[i]
    <2>1. a[i] = (t \o u)[Len(t) - Len(s) + i]
      BY <1>1, <1>2, <1>3, <1>5
    <2>2. CASE i <= Len(s)
      <3>1. (t \o u)[Len(t) - Len(s) + i] = t[Len(t) - Len(s) + i] /\ (s \o u)[i] = s[i]
        BY <1>1, <1>5, <2>2
      <3>2. SubSeq(t, Len(t) - Len(s) + 1, Len(t))[i] = t[Len(t) - Len(s) + i]
        BY <1>1, <1>5, <2>2
      <3>3. SubSeq(t, Len(t) - Len(s) + 1, Len(t)) = s
        BY DEF EndsWith
      <3> QED
        BY <2>1, <3>1, <3>2, <3>3
    <2>3. CASE i > Len(s)
      <3>1. (t \o u)[Len(t) - Len(s) + i] = u[i - Len(s)] /\ (s \o u)[i] = u[i - Len(s)]
        BY <1>1, <1>5, <2>3
      <3> QED
        BY <2>1, <3>1
    <2> QED
      BY <1>1, <2>2, <2>3
  <1> HIDE DEF a
  <1>6. a = s \o u
    BY <1>1, <1>2, <1>4, <1>5, SeqEqual
  <1> QED
    BY <1>1, <1>2, <1>6 DEF EndsWith, a

\* What a sequence ends with is a part of it, and stays a part when it grows.
LEMMA EndIsPart ==
    ASSUME NEW S, NEW t \in Seq(S), NEW s \in Seq(S), EndsWith(t, s)
    PROVE  Part(s, t)
  <1>1. Len(s) \in Nat /\ Len(t) \in Nat /\ Len(t) - Len(s) \in 0..(Len(t) - Len(s))
    BY DEF EndsWith
  <1>2. Len(t) - Len(s) + Len(s) = Len(t)
    BY <1>1
  <1> QED
    BY <1>1, <1>2 DEF Part, EndsWith

LEMMA PartStays ==
    ASSUME NEW S, NEW t \in Seq(S), NEW s \in Seq(S), NEW u \in Seq(S), Part(s, t)
    PROVE  Part(s, t \o u)
  <1>1. Len(s) \in Nat /\ Len(t) \in Nat /\ Len(u) \in Nat /\ Len(t \o u) = Len(t) + Len(u)
    OBVIOUS
  <1>2. PICK k \in 0..(Len(t) - Len(s)) : SubSeq(t, k + 1, k + Len(s)) = s
    BY DEF Part
  <1>3. k \in 0..(Len(t \o u) - Len(s))
    BY <1>1, <1>2
  <1> DEFINE a == SubSeq(t \o u, k + 1, k + Len(s))
  <1>4. a \in Seq(S) /\ Len(a) = Len(s)
    BY <1>1, <1>2
  <1>5. ASSUME NEW i \in 1..Len(s)
        PROVE  a[i] = s[i]
    <2>1. a[i] = (t \o u)[k + i] /\ (t \o u)[k + i] = t[k + i]
      BY <1>1, <1>2, <1>5
    <2>2. SubSeq(t, k + 1, k + Len(s))[i] = t[k + i]
      BY <1>1, <1>2, <1>5
    <2> QED
      BY <1>2, <2>1, <2>2
  <1> HIDE DEF a
  <1>6. a = s
    BY <1>1, <1>4, <1>5, SeqEqual
  <1> QED
    BY <1>3, <1>6 DEF Part, a

-----------------------------------------------------------------------------
(* What a run that reports SUCCEEDED rests on                               *)

Pairs == Nat \X Nat
RowStatuses == {"absent", "RUNNING", "SUCCEEDED", "FAILED"}

RecordsTyped ==
    /\ rows \in Seq(Seq(RowStatuses)) /\ Len(rows) = Len(runs)
    /\ \A r \in Runs : Len(rows[r]) = Len(Nodes(r))
    /\ content \in Seq(Seq(Pairs)) /\ Len(content) = Len(runs)

Active(r) == walk[r].pc \notin {"none", "return"}

\* The node at hand is not done: its row does not say so, or it has no row.
Open(r) == Active(r) /\ (Row(r) # "SUCCEEDED" \/ Type(r) \in {"loop", "handoff"})

\* A run works in its own worktree, or in that of the run that waits for it.
Under(q) == /\ runs[q].index = 0 /\ runs[q].parent \in Runs
            /\ walk[runs[q].parent].pc = "wait" /\ Child(runs[q].parent) = q
            /\ walk[runs[q].parent].ws = walk[q].ws
LineInv == \A q \in Runs :
    /\ runs[q].parent < q
    /\ Active(q) => /\ walk[q].ws \in Runs /\ walk[q].ws <= q
                    /\ walk[q].ws = q \/ Under(q)

\* What a walk that is in a node has: no success on record, and children that
\* have succeeded, but for the one it waits for.
RowOpen(r) == walk[r].pc \in {"exec", "pool", "merge"} \/ Is(r, "wait", "subworkflow")
                  => Row(r) # "SUCCEEDED"
ReturnTold(r) == walk[r].pc = "return" => runs[r].status = walk[r].result
Succeeded(k) == k \in Runs /\ runs[k].status = "SUCCEEDED"
KidsTold(r) == \A i \in Items(r) :
    /\ walk[r].pc \notin {"pool", "merge"} /\ (walk[r].pc = "wait" => i < Len(walk[r].kids)) =>
         Succeeded(walk[r].kids[i])
    /\ walk[r].pc \in {"pool", "merge"} =>
         /\ walk[r].kids[i] # 0 => runs[walk[r].kids[i]].index = i
         /\ walk[r].results[i] = "SUCCEEDED" => Succeeded(walk[r].kids[i])
PoolWhole(r) == walk[r].pc \in {"pool", "merge"} =>
    Len(walk[r].kids) = At(r).items /\ Len(walk[r].results) = Len(walk[r].kids)
Brought(kids, n) == [i \in 1..n |-> content[kids[i]]]
MergedInOrder(r) ==
    /\ walk[r].pc # "merge" => walk[r].merged = 0
    /\ walk[r].pc = "merge" =>
         /\ walk[r].merged <= Len(walk[r].kids)
         /\ \A i \in 1..walk[r].merged : walk[r].results[i] = "SUCCEEDED"
         /\ EndsWith(content[walk[r].ws], FlattenSeq(Brought(walk[r].kids, walk[r].merged)))
WalkTold(r) == RowOpen(r) /\ ReturnTold(r) /\ KidsTold(r) /\ PoolWhole(r) /\ MergedInOrder(r)
WalkInv == \A r \in Runs : WalkTold(r)

NodeDone(r, n) ==
    LET type == Nodes(r)[n].type
        kids == done[r][n]
    IN
    /\ type \notin {"loop", "handoff"} => rows[r][n] = "SUCCEEDED"
    /\ type = "agent" => \E b \in BranchOf(r, <<>>) : <<r, n>> \in Range(content[b])
    /\ type \in {"subworkflow", "loop"} => kids # <<>>
    /\ type \in {"subworkflow", "loop", "map"} => \A c \in Range(kids) : Succeeded(c)
    /\ type = "map" =>
          /\ DOMAIN kids = 1..Nodes(r)[n].items
          /\ \A i \in DOMAIN kids : runs[kids[i]].index = i
          /\ \E b \in BranchOf(r, kids) :
                Part(FlattenSeq([i \in DOMAIN kids |-> content[kids[i]]]), content[b])
    /\ type = "handoff" => kids # <<>>

\* The nodes a walk has passed, or need not do again.
Passed(r, n) == \/ runs[r].status = "SUCCEEDED"
                \/ Active(r) /\ n < walk[r].node
                \/ Nodes(r)[n].type \notin {"loop", "handoff"} /\ rows[r][n] = "SUCCEEDED"
EvidenceInv == \A r \in Runs : \A n \in DOMAIN Nodes(r) : Passed(r, n) => NodeDone(r, n)

-----------------------------------------------------------------------------
(* The kinds of step, by what they write                                    *)

Writes(r) ==
    /\ \/ runs' = runs
       \/ Active(r) /\ \E s \in RunStatuses : runs' = [runs EXCEPT ![r].status = s]
    /\ \/ rows' = rows
       \/ Open(r) /\ \E s \in RowStatuses : rows' = [rows EXCEPT ![r][walk[r].node] = s]
    /\ \/ done' = done
       \/ Open(r) /\ \E e : done' = [done EXCEPT ![r][walk[r].node] = e]
    /\ \/ content' = content
       \/ /\ walk[r].pc \in {"exec", "merge"}
          /\ \E u \in Seq(Pairs) : content' = [content EXCEPT ![walk[r].ws] = @ \o u]

Adds(r) == \E wf \in DOMAIN Workflows, i \in Nat :
    /\ runs' = Append(runs, NewRow(wf, r, i)) /\ rows' = Append(rows, NoRows(wf))
    /\ content' = Append(content, <<>>)
    /\ done' = Append(done, [n \in 1..Len(Workflows[wf]) |-> <<>>])
    /\ \/ walk'[NextRun] = NoWalk
       \/ /\ i > 0 /\ walk'[NextRun] = BeginIn(NextRun)
       \/ /\ i = 0 /\ walk'[NextRun] = BeginIn(walk[r].ws)
          /\ walk'[r].pc = "wait" /\ walk'[r].kids # <<>> /\ Last(walk'[r].kids) = NextRun

Frame(r) ==
    /\ Runs \subseteq Runs'
    /\ \A q \in Runs : SameLineage(q)
    /\ \A q \in Runs \ {r} : runs'[q] = runs[q] /\ rows'[q] = rows[q] /\ done'[q] = done[q]
    /\ \A m : m # walk[r].node \/ ~Open(r) =>
                rows'[r][m] = rows[r][m] /\ done'[r][m] = done[r][m]
    /\ Active(r) \/ runs'[r] = runs[r]
    /\ \A b \in Runs :
         \/ content'[b] = content[b]
         \/ /\ walk[r].pc \in {"exec", "merge"} /\ b = walk[r].ws
            /\ \E u \in Seq(Pairs) : content'[b] = content[b] \o u
    /\ \A q \in Runs' \ Runs : runs'[q].status = "RUNNING" /\ \A m \in 1..Len(rows'[q]) : rows'[q][m] = "absent"

\* A walk advances, ends, or goes on in its node.
Advances(r) ==
    /\ Active(r) /\ walk[r].node <= Len(Nodes(r)) /\ walk'[r] = Advanced(walk[r])
    /\ runs' = runs
    /\ rows' \in {rows, [rows EXCEPT ![r][walk[r].node] = "SUCCEEDED"]}

Ends(r) ==
    /\ Active(r)
    /\ \E s \in RunStatuses :
          /\ walk'[r] = Returned(walk[r], s) /\ runs'[r].status = s
          /\ s = "SUCCEEDED" => walk[r].node > Len(Nodes(r))
    /\ rows' \in {rows, [rows EXCEPT ![r][walk[r].node] = "FAILED"]}

Proceeds(r) ==
    /\ walk[r].pc \in {"visit", "hop", "read"} /\ walk[r].node <= Len(Nodes(r))
    /\ walk'[r].pc \in {"visit", "exec", "hop", "read"}
    /\ walk'[r].node = walk[r].node /\ walk'[r].ws = walk[r].ws /\ walk'[r].kids = walk[r].kids
    /\ walk'[r].merged = walk[r].merged
    /\ runs' = runs
    /\ \/ rows' = rows /\ walk'[r].pc # "exec"
       \/ rows' = [rows EXCEPT ![r][walk[r].node] = "RUNNING"]

-----------------------------------------------------------------------------
(* Each action is of one of these kinds                                     *)

\* What is known of the records of a run.
LEMMA RecordsOf ==
    ASSUME WalksTyped, RecordsTyped
    PROVE  /\ DOMAIN rows = Runs /\ DOMAIN content = Runs
           /\ \A r \in Runs : /\ rows[r] \in Seq(RowStatuses) /\ DOMAIN rows[r] = 1..Len(Nodes(r))
                              /\ content[r] \in Seq(Pairs)
  <1>1. Runs = 1..Len(runs)
    BY RunAndWalk
  <1>2. DOMAIN rows = Runs /\ DOMAIN content = Runs
    BY <1>1 DEF RecordsTyped
  <1>3. ASSUME NEW r \in Runs
        PROVE  /\ rows[r] \in Seq(RowStatuses) /\ Len(rows[r]) = Len(Nodes(r))
               /\ content[r] \in Seq(Pairs)
    BY <1>1, <1>3 DEF RecordsTyped
  <1> QED
    BY <1>2, <1>3

\* The node list of a run is a sequence.
LEMMA NodesOf ==
    ASSUME WalksTyped, NEW r \in Runs
    PROVE  DOMAIN Nodes(r) = 1..Len(Nodes(r)) /\ Len(Nodes(r)) \in Nat
  <1>1. runs[r].wf \in DOMAIN Workflows
    BY RunAndWalk DEF RunRows
  <1>2. Nodes(r) \in Seq(Range(Nodes(r)))
    BY <1>1, CompositeAssumption DEF Nodes
  <1> QED
    BY <1>2

\* The child a run waits for is another.
LEMMA ChildIsOther ==
    ASSUME TypeInv, FamilyInv, LineInv, NEW r \in Runs, walk[r].pc = "wait"
    PROVE  Child(r) \in Runs /\ Child(r) # r /\ runs[Child(r)].parent = r /\ r < Child(r)
  <1>1. Child(r) \in Runs /\ runs[Child(r)].parent = r
    BY ChildIsRun
  <1>2. r < Child(r)
    BY <1>1 DEF LineInv
  <1>3. r \in Nat
    BY RunAndWalk DEF TypeInv, WalksTyped
  <1> QED
    BY <1>1, <1>2, <1>3

\* Nodes that are agents, gates, or open otherwise.
LEMMA OpenNow ==
    ASSUME NEW r \in Runs, WalkTold(r), walk[r].node <= Len(Nodes(r))
    PROVE  /\ walk[r].pc \in {"exec", "pool", "merge"} => Open(r)
           /\ walk[r].pc = "wait" /\ Type(r) \in {"subworkflow", "loop"} => Open(r)
           /\ walk[r].pc \in {"visit", "hop", "read"} /\ Type(r) \in {"loop", "handoff"} => Open(r)
  BY DEF WalkTold, RowOpen, Open, Active, Is

\* Steps that advance.
LEMMA AdvanceKinds ==
    ASSUME TypeInv, FamilyInv, RecordsTyped, LineInv, NEW r \in Runs, WalkTold(r),
           \/ Cached(r) \/ \E more \in BOOLEAN : AgentWorks(r, more)
           \/ SubworkflowReturns(r)
           \/ IterationReturns(r) /\ ~Continues(Child(r))
           \/ MapSucceeds(r) \/ StatusSaysDone(r)
    PROVE  Writes(r) /\ Advances(r)
  <1>t. WalksTyped /\ DOMAIN walk = Runs
    BY RunAndWalk DEF TypeInv
  <1> USE DEF git, db, bounds
  <1>s. "SUCCEEDED" \in RowStatuses
    BY DEF RowStatuses
  <1>1. CASE Cached(r)
    BY <1>t, <1>1 DEF Cached, Writes, Advances, Active
  <1>2. ASSUME NEW more \in BOOLEAN, AgentWorks(r, more)
        PROVE  Writes(r) /\ Advances(r)
    <2>1. /\ walk[r].pc = "exec" /\ walk[r].node <= Len(Nodes(r))
          /\ rows' = [rows EXCEPT ![r][walk[r].node] = "SUCCEEDED"]
          /\ done' = [done EXCEPT ![r][walk[r].node] = <<more>>]
          /\ walk'[r] = Advanced(walk[r]) /\ runs' = runs
          /\ content' = [content EXCEPT ![walk[r].ws] = Append(@, <<r, walk[r].node>>)]
      BY <1>t, <1>2 DEF AgentWorks, Succeed, Is
    <2>2. Open(r) /\ Active(r)
      BY <2>1, OpenNow DEF Active
    <2>3. content[walk[r].ws] \in Seq(Pairs)
      BY <1>t, <2>2, RecordsOf DEF LineInv
    <2>4. PICK p \in Pairs : p = <<r, walk[r].node>>
      <3>1. r \in Nat /\ walk[r].node \in Nat
        <4>1. walk[r] \in Walks /\ Runs = 1..Len(runs)
          BY <1>t, RunAndWalk
        <4> QED
          BY <1>t, <4>1 DEF Walks, WalksTyped
      <3> QED
        BY <3>1 DEF Pairs
    <2>5. <<p>> \in Seq(Pairs)
      OBVIOUS
    <2>6. Append(content[walk[r].ws], p) = content[walk[r].ws] \o <<p>>
      BY <2>3, AppendIsConcat
    <2>7. content' = [content EXCEPT ![walk[r].ws] = @ \o <<p>>]
      BY <2>1, <2>4, <2>6
    <2> QED
      BY <1>s, <2>1, <2>2, <2>5, <2>7 DEF Writes, Advances
  <1>3. CASE SubworkflowReturns(r)
    <2>1. walk[r].pc = "wait" /\ walk[r].node <= Len(Nodes(r)) /\ Type(r) = "subworkflow"
      BY <1>3 DEF SubworkflowReturns, ChildReturns, Is
    <2>2. Open(r) /\ Active(r) /\ Child(r) # r
      BY <2>1, OpenNow, ChildIsOther DEF Active
    <2>3. walk'[r] = Advanced(walk[r])
      BY <1>t, <1>3, <2>2 DEF SubworkflowReturns, Closed
    <2> QED
      BY <1>3, <1>s, <2>1, <2>2, <2>3 DEF SubworkflowReturns, Writes, Advances
  <1>4. CASE IterationReturns(r) /\ ~Continues(Child(r))
    <2>1. walk[r].pc = "wait" /\ walk[r].node <= Len(Nodes(r)) /\ Type(r) = "loop"
      BY <1>4 DEF IterationReturns, ChildReturns, Is
    <2>2. Open(r) /\ Active(r) /\ Child(r) # r
      BY <2>1, OpenNow, ChildIsOther DEF Active
    <2>3. walk'[r] = Advanced(walk[r])
      BY <1>t, <1>4, <2>2 DEF IterationReturns, Closed
    <2> QED
      BY <1>4, <2>1, <2>2, <2>3 DEF IterationReturns, Writes, Advances
  <1>5. CASE MapSucceeds(r)
    <2>1. walk[r].pc = "merge" /\ walk[r].node <= Len(Nodes(r))
      BY <1>5 DEF MapSucceeds, Is
    <2>2. Open(r) /\ Active(r)
      BY <2>1, OpenNow DEF Active
    <2> QED
      BY <1>t, <1>s, <1>5, <2>1, <2>2 DEF MapSucceeds, Succeed, Writes, Advances
  <1>6. CASE StatusSaysDone(r)
    <2>1. walk[r].pc = "read" /\ walk[r].node <= Len(Nodes(r)) /\ Type(r) = "handoff"
      BY <1>6 DEF StatusSaysDone, Is
    <2>2. Open(r) /\ Active(r)
      BY <2>1, OpenNow DEF Active
    <2> QED
      BY <1>t, <1>6, <2>1, <2>2 DEF StatusSaysDone, Writes, Advances
  <1> QED
    BY <1>1, <1>2, <1>3, <1>4, <1>5, <1>6

\* Steps that end the walk.
LEMMA EndKinds ==
    ASSUME TypeInv, FamilyInv, RecordsTyped, LineInv, NEW r \in Runs, WalkTold(r),
           \/ AgentFails(r) \/ CannotMap(r) \/ EndOfWalk(r) \/ ChildDisappoints(r)
           \/ LoopExhausted(r) \/ PoolRaises(r) \/ MapFails(r)
           \/ \E f \in Files(r) : HopFails(r, f)
           \/ StatusMissing(r) \/ HandoffExhausted(r)
    PROVE  Writes(r) /\ Ends(r)
  <1>t. WalksTyped /\ DOMAIN walk = Runs /\ DOMAIN runs = Runs
    BY RunAndWalk DEF TypeInv, WalksTyped
  <1> USE DEF git, db, bounds
  <1>s. /\ "FAILED" \in RowStatuses /\ {"FAILED", "SUCCEEDED", "WAITING_INPUT"} \subseteq RunStatuses
    BY DEF RowStatuses, RunStatuses
  <1>e. ASSUME NEW s \in RunStatuses, Active(r),
               walk'[r] = Returned(walk[r], s),
               runs' = [runs EXCEPT ![r].status = s],
               s = "SUCCEEDED" => walk[r].node > Len(Nodes(r)),
               \/ rows' = rows
               \/ Open(r) /\ rows' = [rows EXCEPT ![r][walk[r].node] = "FAILED"],
               content' = content,
               \/ done' = done
               \/ Open(r) /\ \E e : done' = [done EXCEPT ![r][walk[r].node] = e]
        PROVE  Writes(r) /\ Ends(r)
    <2>1. Writes(r)
      BY <1>s, <1>e DEF Writes
    <2>2. runs[r] \in RunRows
      BY <1>t, RunAndWalk
    <2>3. runs'[r].status = s
      BY <1>t, <1>e, <2>2 DEF RunRows
    <2> QED
      BY <1>e, <2>1, <2>3 DEF Ends
  <1>f. ASSUME Fail(r), walk[r].node <= Len(Nodes(r)), walk[r].pc \in {"exec", "pool", "merge"},
               content' = content,
               \/ done' = done
               \/ \E e : done' = [done EXCEPT ![r][walk[r].node] = e]
        PROVE  Writes(r) /\ Ends(r)
    <2>1. Open(r) /\ Active(r)
      BY <1>f, OpenNow DEF Active
    <2> QED
      BY <1>t, <1>s, <1>e, <1>f, <2>1 DEF Fail
  <1>1. CASE AgentFails(r)
    BY <1>1, <1>f DEF AgentFails, Is
  <1>2. CASE CannotMap(r)
    BY <1>2, <1>f DEF CannotMap, Is
  <1>3. CASE EndOfWalk(r)
    BY <1>t, <1>s, <1>3, <1>e DEF EndOfWalk, Active
  <1>4. CASE ChildDisappoints(r)
    <2>1. PICK type \in {"subworkflow", "loop"} :
            /\ Is(r, "wait", type)
            /\ rows' = [rows EXCEPT ![r][walk[r].node] = IF type = "loop" THEN @ ELSE "FAILED"]
            /\ runs' = [runs EXCEPT ![r].status = "FAILED"]
            /\ walk' = [Closed(r) EXCEPT ![r] = Returned(@, "FAILED")]
            /\ UNCHANGED <<content, done>>
      BY <1>4 DEF ChildDisappoints, ChildReturns
    <2>2. Open(r) /\ Active(r) /\ Child(r) # r
      BY <2>1, OpenNow, ChildIsOther DEF Active, Is
    <2>3. walk'[r] = Returned(walk[r], "FAILED")
      BY <1>t, <2>1, <2>2 DEF Closed
    <2>4. rows' = rows \/ rows' = [rows EXCEPT ![r][walk[r].node] = "FAILED"]
      <3>1. CASE type = "loop"
        <4>1. rows' = [rows EXCEPT ![r][walk[r].node] = @]
          BY <2>1, <3>1
        <4>2. rows = [q \in DOMAIN rows |-> rows[q]] /\ rows[r] = [m \in DOMAIN rows[r] |-> rows[r][m]]
          BY <1>t, RecordsOf DEF RecordsTyped
        <4> QED
          BY <4>1, <4>2
      <3> QED
        BY <2>1, <3>1
    <2> QED
      BY <1>s, <1>e, <2>1, <2>2, <2>3, <2>4
  <1>5. CASE LoopExhausted(r)
    BY <1>t, <1>s, <1>5, <1>e DEF LoopExhausted, Waits, Is, Active
  <1>6. CASE PoolRaises(r)
    BY <1>6, <1>f DEF PoolRaises, Is
  <1>7. CASE MapFails(r)
    BY <1>7, <1>f DEF MapFails, MergesLeft, Is
  <1>8. ASSUME NEW f \in Files(r), HopFails(r, f)
        PROVE  Writes(r) /\ Ends(r)
    BY <1>t, <1>s, <1>8, <1>e DEF HopFails, FailOutsideStep, Is, Active
  <1>9. CASE StatusMissing(r)
    BY <1>t, <1>s, <1>9, <1>e DEF StatusMissing, FailOutsideStep, Is, Active
  <1>10. CASE HandoffExhausted(r)
    BY <1>t, <1>s, <1>10, <1>e DEF HandoffExhausted, Waits, Is, Active
  <1> QED
    BY <1>1, <1>2, <1>3, <1>4, <1>5, <1>6, <1>7, <1>8, <1>9, <1>10

\* A gate does either.
LEMMA GateKinds ==
    ASSUME TypeInv, FamilyInv, RecordsTyped, LineInv, NEW r \in Runs, WalkTold(r),
           NEW seen \in Sights, GateAnswers(r, seen)
    PROVE  Writes(r) /\ (Advances(r) \/ Ends(r))
  <1>t. WalksTyped /\ DOMAIN walk = Runs /\ DOMAIN runs = Runs /\ runs[r] \in RunRows
    BY RunAndWalk DEF TypeInv, WalksTyped
  <1>1. /\ walk[r].pc = "exec" /\ walk[r].node <= Len(Nodes(r)) /\ content' = content
        /\ \/ (\E e : Succeed(r, e)) /\ runs' = runs
           \/ Fail(r) /\ done' = done
    BY DEF GateAnswers, Is, git
  <1>2. Open(r) /\ Active(r)
    BY <1>1, OpenNow DEF Active
  <1>3. CASE (\E e : Succeed(r, e)) /\ runs' = runs
    BY <1>t, <1>1, <1>2, <1>3 DEF Succeed, Writes, Advances, RowStatuses
  <1>4. CASE Fail(r) /\ done' = done
    <2>1. runs'[r].status = "FAILED"
      BY <1>t, <1>4 DEF Fail, RunRows
    <2> QED
      BY <1>t, <1>1, <1>2, <1>4, <2>1 DEF Fail, Writes, Ends, RowStatuses, RunStatuses
  <1> QED
    BY <1>1, <1>3, <1>4

\* Steps within a node.
LEMMA ProceedKinds ==
    ASSUME TypeInv, FamilyInv, RecordsTyped, LineInv, NEW r \in Runs, WalkTold(r),
           \/ StartStep(r) \/ StartHop(r) \/ StatusSaysMore(r)
           \/ \E f \in Files(r) : HopWorks(r, f)
    PROVE  Writes(r) /\ Proceeds(r)
  <1>t. DOMAIN walk = Runs /\ walk[r] \in Walks
    BY RunAndWalk DEF TypeInv
  <1> USE DEF git, db, bounds
  <1>w. ASSUME NEW pc
        PROVE  LET w == [walk[r] EXCEPT !.pc = pc] IN
               /\ w.pc = pc /\ w.node = walk[r].node /\ w.ws = walk[r].ws
               /\ w.kids = walk[r].kids /\ w.merged = walk[r].merged
    BY <1>t DEF Walks
  <1>1. CASE StartStep(r)
    <2>1. walk'[r] = [walk[r] EXCEPT !.pc = "exec"]
      BY <1>t, <1>1 DEF StartStep, Go
    <2>2. Open(r)
      BY <1>1 DEF StartStep, Open, Active
    <2>3. /\ walk[r].pc = "visit" /\ walk[r].node <= Len(Nodes(r))
          /\ runs' = runs /\ content' = content /\ done' = done
          /\ rows' = [rows EXCEPT ![r][walk[r].node] = "RUNNING"]
      BY <1>1 DEF StartStep
    <2>4. Writes(r)
      BY <2>2, <2>3 DEF Writes, RowStatuses
    <2> QED
      BY <1>w, <2>1, <2>3, <2>4 DEF Proceeds
  <1>2. ASSUME NEW pc \in {"hop", "read"}, walk' = [walk EXCEPT ![r].pc = pc],
               walk[r].pc \in {"visit", "hop"}, walk[r].node <= Len(Nodes(r)),
               UNCHANGED <<runs, rows, content, done>>
        PROVE  Writes(r) /\ Proceeds(r)
    <2>1. walk'[r] = [walk[r] EXCEPT !.pc = pc]
      BY <1>t, <1>2
    <2> QED
      BY <1>w, <1>2, <2>1 DEF Writes, Proceeds
  <1>3. CASE StartHop(r)
    BY <1>2, <1>3 DEF StartHop, Go, Is
  <1>4. ASSUME NEW f \in Files(r), HopWorks(r, f)
        PROVE  Writes(r) /\ Proceeds(r)
    BY <1>2, <1>4 DEF HopWorks, Go, Is
  <1>5. CASE StatusSaysMore(r)
    <2>1. walk'[r] = [walk[r] EXCEPT !.pc = "visit", !.hop = walk[r].hop + 1]
      BY <1>t, <1>5 DEF StatusSaysMore
    <2>2. LET w == [walk[r] EXCEPT !.pc = "visit", !.hop = walk[r].hop + 1] IN
               /\ w.pc = "visit" /\ w.node = walk[r].node /\ w.ws = walk[r].ws
               /\ w.kids = walk[r].kids /\ w.merged = walk[r].merged
      BY <1>t DEF Walks
    <2> QED
      BY <1>5, <2>1, <2>2 DEF StatusSaysMore, Writes, Proceeds, Is
  <1> QED
    BY <1>1, <1>3, <1>4, <1>5

\* A loop goes on; a map begins, goes on, or merges.
Within(r) ==
    \/ IterationReturns(r) /\ Continues(Child(r))
    \/ StartMap(r) \/ PoolDone(r) \/ MergeItem(r)
    \/ \E i \in Items(r) : ItemReturns(r, i)

Begets(r) ==
    \/ StartSubworkflow(r) \/ StartLoop(r)
    \/ \E i \in Items(r) : StartItem(r, i) \/ ItemSetupFails(r, i)

\* The item that is merged is a run that succeeded.
LEMMA MergedItem ==
    ASSUME TypeInv, NEW r \in Runs, WalkTold(r), MergeItem(r)
    PROVE  /\ walk[r].pc = "merge" /\ NextToMerge(r) \in Items(r)
           /\ walk[r].merged \in Nat /\ walk[r].merged < Len(walk[r].kids)
           /\ Succeeded(walk[r].kids[NextToMerge(r)])
  <1>1. walk[r].pc = "merge" /\ walk[r].merged < Len(walk[r].kids)
    BY DEF MergeItem, MergesLeft, Is
  <1>2. walk[r] \in Walks
    BY RunAndWalk DEF TypeInv
  <1>3. walk[r].merged \in Nat /\ Len(walk[r].kids) \in Nat
    BY <1>2 DEF Walks
  <1>4. NextToMerge(r) \in Items(r)
    BY <1>1, <1>3 DEF NextToMerge, Items
  <1> QED
    BY <1>1, <1>3, <1>4 DEF MergeItem, WalkTold, KidsTold

LEMMA WithinKinds ==
    ASSUME TypeInv, FamilyInv, RecordsTyped, LineInv, NEW r \in Runs, WalkTold(r), Within(r)
    PROVE  Writes(r) /\ runs' = runs /\ rows' = rows
  <1> USE DEF git, db, bounds
  <1>1. CASE IterationReturns(r) /\ Continues(Child(r))
    BY <1>1 DEF IterationReturns, Writes
  <1>2. CASE StartMap(r) \/ PoolDone(r)
    BY <1>2 DEF StartMap, PoolDone, Writes
  <1>3. CASE \E i \in Items(r) : ItemReturns(r, i)
    BY <1>3 DEF ItemReturns, Writes
  <1>4. CASE MergeItem(r)
    <2> DEFINE item == walk[r].kids[NextToMerge(r)]
    <2>1. walk[r].pc = "merge" /\ item \in Runs
      BY <1>4, MergedItem DEF Succeeded
    <2>2. content[item] \in Seq(Pairs)
      BY <2>1, RecordsOf DEF TypeInv
    <2>3. /\ content' = [content EXCEPT ![walk[r].ws] = @ \o content[item]]
          /\ runs' = runs /\ rows' = rows /\ done' = done
      BY <1>4 DEF MergeItem
    <2> HIDE DEF item
    <2> QED
      BY <2>1, <2>2, <2>3 DEF Writes
  <1> QED
    BY <1>1, <1>2, <1>3, <1>4 DEF Within

LEMMA CloseKind ==
    ASSUME NEW r \in Runs, Close(r)
    PROVE  Writes(r) /\ runs' = runs /\ rows' = rows
  BY DEF Close, Writes, db

\* A run that starts another.
LEMMA BegetKinds ==
    ASSUME TypeInv, FamilyInv, RecordsTyped, LineInv, NEW r \in Runs, WalkTold(r), Begets(r)
    PROVE  Adds(r)
  <1>t. /\ WalksTyped /\ DOMAIN walk = Runs /\ walk[r] \in Walks
        /\ walk \in Seq(Walks) /\ Len(walk) = Len(runs) /\ Len(runs) \in Nat /\ r \in 1..Len(walk)
    <2>1. WalksTyped
      BY DEF TypeInv
    <2>2. Runs = 1..Len(runs)
      BY <2>1, RunAndWalk
    <2> QED
      BY <2>1, <2>2, RunAndWalk DEF WalksTyped
  <1> USE DEF git, db, bounds
  <1>1. ASSUME NEW wf \in DOMAIN Workflows, NEW i \in Nat, NEW start, NEW w,
               start = [walk EXCEPT ![r] = w], w.ws = walk[r].ws,
               Create(wf, r, i, start),
               i = 0 => w.pc = "wait" /\ w.kids # <<>> /\ Last(w.kids) = NextRun
        PROVE  Adds(r)
    <2>1. start[r] = w /\ DOMAIN start = 1..Len(walk)
      BY <1>t, <1>1
    <2>2. /\ walk' = Append(start, BeginIn(IF i > 0 THEN NextRun ELSE start[r].ws))
          /\ runs' = Append(runs, NewRow(wf, r, i)) /\ rows' = Append(rows, NoRows(wf))
          /\ content' = Append(content, <<>>)
          /\ done' = Append(done, [n \in 1..Len(Workflows[wf]) |-> <<>>])
      BY <1>1 DEF Create, NextRun
    <2>3. Len(start) = Len(walk)
      BY <1>t, <1>1
    <2>4. /\ walk'[NextRun] = BeginIn(IF i > 0 THEN NextRun ELSE start[r].ws)
          /\ walk'[r] = start[r]
      BY <1>t, <2>1, <2>2, <2>3 DEF NextRun
    <2>5. CASE i = 0
      <3>1. walk'[NextRun] = BeginIn(walk[r].ws) /\ walk'[r] = w
        BY <1>1, <2>1, <2>4, <2>5
      <3> QED
        BY <1>1, <2>2, <2>5, <3>1 DEF Adds
    <2>6. CASE i > 0
      <3>1. walk'[NextRun] = BeginIn(NextRun)
        BY <2>4, <2>6
      <3> QED
        BY <2>2, <2>6, <3>1 DEF Adds
    <2> QED
      BY <1>1, <2>5, <2>6
  <1>2. ASSUME NEW kids, StartSubworkflow(r) \/ StartLoop(r),
               Create(At(r).ref, r, 0, [walk EXCEPT ![r].pc = "wait", ![r].kids = kids]),
               kids # <<>>, Last(kids) = NextRun
        PROVE  Adds(r)
    <2> DEFINE w == [walk[r] EXCEPT !.pc = "wait", !.kids = kids]
    <2>1. [walk EXCEPT ![r].pc = "wait", ![r].kids = kids] = [walk EXCEPT ![r] = w]
      BY <1>t
    <2>2. w.ws = walk[r].ws /\ w.pc = "wait" /\ w.kids = kids
      BY <1>t DEF Walks
    <2>3. At(r).ref \in DOMAIN Workflows
      BY <1>t, <1>2, NodeAtHand DEF StartSubworkflow, StartLoop, Is, Type
    <2> HIDE DEF w
    <2> QED
      BY <1>1, <1>2, <2>1, <2>2, <2>3
  <1>3. CASE StartSubworkflow(r)
    <2>1. Create(At(r).ref, r, 0, [walk EXCEPT ![r].pc = "wait", ![r].kids = <<NextRun>>])
      BY <1>3 DEF StartSubworkflow
    <2>2. <<NextRun>> # <<>> /\ Last(<<NextRun>>) = NextRun
      BY DEF Last
    <2> QED
      BY <1>2, <1>3, <2>1, <2>2
  <1>4. CASE StartLoop(r)
    <2>1. Create(At(r).ref, r, 0,
                 [walk EXCEPT ![r].pc = "wait", ![r].kids = Append(walk[r].kids, NextRun)])
      BY <1>t, <1>4 DEF StartLoop
    <2>2. walk[r].kids \in Seq(Nat) /\ NextRun \in Nat
      BY <1>t DEF Walks, NextRun
    <2>3. Append(walk[r].kids, NextRun) # <<>> /\ Last(Append(walk[r].kids, NextRun)) = NextRun
      BY <2>2 DEF Last
    <2> QED
      BY <1>2, <1>4, <2>1, <2>3
  <1>5. ASSUME NEW i \in Items(r), StartItem(r, i)
        PROVE  Adds(r)
    <2> DEFINE w == [walk[r] EXCEPT !.kids[i] = NextRun]
    <2>1. [walk EXCEPT ![r].kids[i] = NextRun] = [walk EXCEPT ![r] = w]
      BY <1>t
    <2>2. w.ws = walk[r].ws
      BY <1>t DEF Walks
    <2>3. At(r).ref \in DOMAIN Workflows
      BY <1>t, <1>5, NodeAtHand DEF StartItem, Is, Type
    <2>4. i \in Nat /\ i # 0
      BY <1>5 DEF Items
    <2>5. Create(At(r).ref, r, i, [walk EXCEPT ![r].kids[i] = NextRun])
      BY <1>5 DEF StartItem
    <2> HIDE DEF w
    <2> QED
      BY <1>1, <2>1, <2>2, <2>3, <2>4, <2>5
  <1>6. ASSUME NEW i \in Items(r), ItemSetupFails(r, i)
        PROVE  Adds(r)
    <2>1. At(r).ref \in DOMAIN Workflows
      BY <1>t, <1>6, NodeAtHand DEF ItemSetupFails, Is, Type
    <2>2. walk' = Append([walk EXCEPT ![r].results[i] = "raised"], NoWalk)
      BY <1>6 DEF ItemSetupFails
    <2>3. Len([walk EXCEPT ![r].results[i] = "raised"]) = Len(walk)
      BY <1>t
    <2>4. walk'[NextRun] = NoWalk
      BY <1>t, <2>2, <2>3 DEF NextRun
    <2>5. i \in Nat
      BY <1>6 DEF Items
    <2> QED
      BY <1>6, <2>1, <2>4, <2>5 DEF ItemSetupFails, Adds
  <1> QED
    BY <1>3, <1>4, <1>5, <1>6 DEF Begets

Completes(r) ==
    \/ Cached(r) \/ \E more \in BOOLEAN : AgentWorks(r, more)
    \/ \E seen \in Sights : GateAnswers(r, seen)
    \/ SubworkflowReturns(r)
    \/ IterationReturns(r) /\ ~Continues(Child(r))
    \/ MapSucceeds(r) \/ StatusSaysDone(r)

\* Every step of a walk is of one of these kinds.
LEMMA StepKinds ==
    ASSUME TypeInv, FamilyInv, RecordsTyped, LineInv, NEW r \in Runs, WalkTold(r), WalkStep(r)
    PROVE  \/ /\ Writes(r)
              /\ \/ Completes(r) /\ Advances(r)
                 \/ Ends(r) \/ Proceeds(r) \/ Within(r) \/ Close(r)
           \/ Adds(r) /\ Begets(r)
  <1>1. CASE IterationReturns(r)
    <2>1. CASE Continues(Child(r))
      BY <1>1, <2>1, WithinKinds DEF Within
    <2>2. CASE ~Continues(Child(r))
      BY <1>1, <2>2, AdvanceKinds DEF Completes
    <2> QED
      BY <2>1, <2>2
  <1>2. CASE \E seen \in Sights : GateAnswers(r, seen)
    BY <1>2, GateKinds DEF Completes
  <1>3. CASE \/ Cached(r) \/ \E more \in BOOLEAN : AgentWorks(r, more)
             \/ SubworkflowReturns(r) \/ MapSucceeds(r) \/ StatusSaysDone(r)
    <2>1. Completes(r)
      BY <1>3 DEF Completes
    <2>2. Writes(r) /\ Advances(r)
      BY <1>3, AdvanceKinds
    <2> QED
      BY <2>1, <2>2
  <1>4. CASE \/ AgentFails(r) \/ CannotMap(r) \/ EndOfWalk(r) \/ ChildDisappoints(r)
             \/ LoopExhausted(r) \/ PoolRaises(r) \/ MapFails(r)
             \/ \E f \in Files(r) : HopFails(r, f)
             \/ StatusMissing(r) \/ HandoffExhausted(r)
    BY <1>4, EndKinds
  <1>5. CASE \/ StartStep(r) \/ StartHop(r) \/ StatusSaysMore(r)
             \/ \E f \in Files(r) : HopWorks(r, f)
    BY <1>5, ProceedKinds
  <1>6. CASE \/ StartMap(r) \/ PoolDone(r) \/ MergeItem(r)
             \/ \E i \in Items(r) : ItemReturns(r, i)
    BY <1>6, WithinKinds DEF Within
  <1>7. CASE Begets(r)
    BY <1>7, BegetKinds
  <1>8. CASE Close(r)
    BY <1>8, CloseKind
  <1> QED
    BY <1>1, <1>2, <1>3, <1>4, <1>5, <1>6, <1>7, <1>8 DEF WalkStep, Begets

-----------------------------------------------------------------------------
(* What a step leaves as it was, of the other walks and of the records      *)

\* What a step of r does to the other walks: a child that has returned is over.
OthersWait(r) ==
    /\ \A q \in Runs \ {r} : walk'[q] = walk[q] \/ (walk[q].pc = "return" /\ walk'[q] = NoWalk)
    /\ walk[r].pc = "wait" => walk[Child(r)].pc = "return"
    /\ Runs' = Runs \/ Runs' = Runs \cup {NextRun}

LEMMA OthersByMoves ==
    ASSUME TypeInv, FamilyInv, NEW r \in Runs, Moves(r)
    PROVE  OthersWait(r)
  <1>1. ASSUME NEW w, OwnStep(r, w) \/ MapBegins(r, w) \/ PoolEnds(r, w) \/ MapEnds(r, w)
        PROVE  OthersWait(r)
    <2>1. Alone(r, w)
      BY <1>1, AloneMoves
    <2>2. Runs' = Runs /\ \A q \in Runs \ {r} : walk'[q] = walk[q]
      BY <2>1, AloneBy
    <2>3. walk[r].pc # "wait"
      BY <1>1 DEF OwnStep, Working, MapBegins, PoolEnds, MapEnds
    <2> QED
      BY <2>2, <2>3 DEF OthersWait
  <1>2. ASSUME NEW w, GoesOn(r, w)
        PROVE  OthersWait(r)
    <2>1. Pair(r, Child(r), w) /\ Child(r) \in Runs /\ Child(r) # r
      BY <1>2, PairMoves
    <2>2. /\ Runs' = Runs /\ walk'[Child(r)] = NoWalk
          /\ \A q \in Runs \ {r, Child(r)} : walk'[q] = walk[q]
      BY <2>1, PairBy
    <2>3. walk[Child(r)].pc = "return"
      BY <1>2 DEF GoesOn
    <2> QED
      BY <2>2, <2>3 DEF OthersWait
  <1>3. ASSUME NEW i \in Items(r), NEW w, ItemEnds(r, i, w)
        PROVE  OthersWait(r)
    <2> DEFINE c == walk[r].kids[i]
    <2>1. Pair(r, c, w) /\ c \in Runs /\ c # r
      BY <1>3, PairMoves
    <2>3. walk[c].pc = "return" /\ walk[r].pc = "pool"
      BY <1>3 DEF ItemEnds
    <2> HIDE DEF c
    <2>2. /\ Runs' = Runs /\ walk'[c] = NoWalk
          /\ \A q \in Runs \ {r, c} : walk'[q] = walk[q]
      BY <2>1, PairBy
    <2> QED
      BY <2>2, <2>3 DEF OthersWait
  <1>4. ASSUME NEW w, NEW new, NEW row, Grown(r, w, new, row), walk[r].pc # "wait"
        PROVE  OthersWait(r)
    <2>1. Runs' = Runs \cup {NextRun} /\ \A q \in Runs \ {r} : walk'[q] = walk[q]
      BY <1>4, GrownBy
    <2> QED
      BY <1>4, <2>1 DEF OthersWait
  <1>5. ASSUME NEW w, NEW new, NEW row, Call(r, w, new, row)
        PROVE  OthersWait(r)
    BY <1>4, <1>5 DEF Call
  <1>6. ASSUME NEW i \in Items(r), NEW w, NEW row, ItemMissing(r, i, w, row)
        PROVE  OthersWait(r)
    BY <1>4, <1>6 DEF ItemMissing
  <1>7. ASSUME NEW i \in Items(r), NEW w, NEW new, NEW row, ItemBegins(r, i, w, new, row)
        PROVE  OthersWait(r)
    BY <1>4, <1>7 DEF ItemBegins
  <1>8. CASE Close(r)
    <2>1. Alone(r, NoWalk)
      BY <1>8, CloseAlone
    <2>2. Runs' = Runs /\ \A q \in Runs \ {r} : walk'[q] = walk[q]
      BY <2>1, AloneBy
    <2> QED
      BY <1>8, <2>2 DEF Close, OthersWait
  <1> QED
    BY <1>1, <1>2, <1>3, <1>5, <1>6, <1>7, <1>8 DEF Moves

\* A step that writes leaves everything but its node as it was.
LEMMA WritesFrame ==
    ASSUME TypeInv, RecordsTyped, NEW r \in Runs, Writes(r)
    PROVE  Frame(r) /\ RecordsTyped' /\ Runs' = Runs
  <1>t. /\ WalksTyped /\ DoneTyped /\ Runs = 1..Len(runs) /\ DOMAIN runs = Runs
        /\ runs \in Seq(RunRows) /\ DOMAIN done = Runs /\ DOMAIN rows = Runs /\ DOMAIN content = Runs
        /\ \A q \in Runs : /\ runs[q] \in RunRows /\ rows[q] \in Seq(RowStatuses)
                           /\ content[q] \in Seq(Pairs)
    BY RunAndWalk, RecordsOf DEF TypeInv, WalksTyped, DoneTyped
  <1>1. /\ Len(runs') = Len(runs) /\ Runs' = Runs
        /\ \A q \in Runs : SameLineage(q)
        /\ \A q \in Runs \ {r} : runs'[q] = runs[q]
        /\ Active(r) \/ runs'[r] = runs[r]
    <2>1. CASE runs' = runs
      BY <2>1 DEF SameLineage, Runs
    <2>2. CASE Active(r) /\ \E s \in RunStatuses : runs' = [runs EXCEPT ![r].status = s]
      <3>1. PICK s \in RunStatuses : runs' = [runs EXCEPT ![r] = [runs[r] EXCEPT !.status = s]]
        BY <2>2
      <3>2. Len(runs') = Len(runs) /\ Runs' = Runs
        BY <1>t, <3>1 DEF Runs
      <3>3. \A q \in Runs \ {r} : runs'[q] = runs[q]
        BY <1>t, <3>1
      <3>4. SameLineage(r)
        BY <1>t, <3>1 DEF SameLineage, RunRows
      <3> QED
        BY <2>2, <3>2, <3>3, <3>4 DEF SameLineage
    <2> QED
      BY <2>1, <2>2 DEF Writes
  <1>2. /\ rows' \in Seq(Seq(RowStatuses)) /\ Len(rows') = Len(rows)
        /\ \A q \in Runs : Len(rows'[q]) = Len(rows[q])
        /\ \A q \in Runs \ {r} : rows'[q] = rows[q]
        /\ \A m : m # walk[r].node \/ ~Open(r) => rows'[r][m] = rows[r][m]
    <2>1. CASE rows' = rows
      BY <2>1 DEF RecordsTyped
    <2>2. CASE Open(r) /\ \E s \in RowStatuses : rows' = [rows EXCEPT ![r][walk[r].node] = s]
      <3>1. PICK s \in RowStatuses : rows' = [rows EXCEPT ![r] = [rows[r] EXCEPT ![walk[r].node] = s]]
        BY <2>2
      <3> DEFINE new == [rows[r] EXCEPT ![walk[r].node] = s]
      <3>2. /\ new \in Seq(RowStatuses) /\ Len(new) = Len(rows[r])
            /\ \A m : m # walk[r].node => new[m] = rows[r][m]
        <4>1. CASE walk[r].node \in 1..Len(rows[r])
          BY <1>t, <4>1, ExceptSeq
        <4>2. CASE walk[r].node \notin 1..Len(rows[r])
          <5>1. new = rows[r]
            BY <1>t, <4>2
          <5> QED
            BY <1>t, <5>1
        <4> QED
          BY <4>1, <4>2
      <3>3. rows' = [rows EXCEPT ![r] = new]
        BY <3>1
      <3> HIDE DEF new
      <3>4. /\ rows' \in Seq(Seq(RowStatuses)) /\ Len(rows') = Len(rows)
            /\ rows'[r] = new /\ \A q \in Runs \ {r} : rows'[q] = rows[q]
        BY <1>t, <3>2, <3>3, ExceptSeq DEF RecordsTyped
      <3> QED
        BY <2>2, <3>2, <3>4
    <2> QED
      BY <2>1, <2>2 DEF Writes
  <1>3. /\ \A q \in Runs \ {r} : done'[q] = done[q]
        /\ \A m : m # walk[r].node \/ ~Open(r) => done'[r][m] = done[r][m]
    <2>1. CASE done' = done
      BY <2>1
    <2>2. CASE Open(r) /\ \E e : done' = [done EXCEPT ![r][walk[r].node] = e]
      <3>1. PICK e : done' = [done EXCEPT ![r][walk[r].node] = e]
        BY <2>2
      <3> QED
        BY <1>t, <2>2, <3>1
    <2> QED
      BY <2>1, <2>2 DEF Writes
  <1>4. /\ content' \in Seq(Seq(Pairs)) /\ Len(content') = Len(content)
        /\ \A b \in Runs :
             \/ content'[b] = content[b]
             \/ /\ walk[r].pc \in {"exec", "merge"} /\ b = walk[r].ws
                /\ \E u \in Seq(Pairs) : content'[b] = content[b] \o u
    <2>1. CASE content' = content
      BY <2>1 DEF RecordsTyped
    <2>2. CASE /\ walk[r].pc \in {"exec", "merge"}
               /\ \E u \in Seq(Pairs) : content' = [content EXCEPT ![walk[r].ws] = @ \o u]
      <3>1. PICK u \in Seq(Pairs) : content' = [content EXCEPT ![walk[r].ws] = content[walk[r].ws] \o u]
        BY <2>2
      <3>2. CASE walk[r].ws \in Runs
        <4> DEFINE w == walk[r].ws
                   new == content[w] \o u
        <4>1. new \in Seq(Pairs) /\ w \in 1..Len(content) /\ content \in Seq(Seq(Pairs))
          BY <1>t, <3>2 DEF RecordsTyped
        <4>n. content' = [content EXCEPT ![w] = new]
          BY <3>1
        <4>d. 1..Len(content) = Runs
          BY <1>t DEF RecordsTyped
        <4>q. new = content[walk[r].ws] \o u /\ w = walk[r].ws
          OBVIOUS
        <4> HIDE DEF new, w
        <4>2. /\ content' \in Seq(Seq(Pairs)) /\ Len(content') = Len(content)
              /\ content'[w] = new
              /\ \A b \in Runs \ {w} : content'[b] = content[b]
          BY <4>1, <4>n, <4>d, ExceptSeq
        <4> QED
          BY <2>2, <4>2, <4>q
      <3>3. CASE walk[r].ws \notin Runs
        <4>1. content' = content
          BY <1>t, <3>1, <3>3 DEF RecordsTyped
        <4> QED
          BY <4>1 DEF RecordsTyped
      <3> QED
        BY <3>2, <3>3
    <2> QED
      BY <2>1, <2>2 DEF Writes
  <1>5. RecordsTyped'
    <2>1. ASSUME NEW q \in Runs
          PROVE  Len(rows'[q]) = Len(Nodes(q)')
      BY <1>1, <1>2, <2>1 DEF RecordsTyped, Nodes, SameLineage
    <2> QED
      BY <1>1, <1>2, <1>4, <2>1 DEF RecordsTyped
  <1> QED
    BY <1>1, <1>2, <1>3, <1>4, <1>5 DEF Frame

\* A step that adds a run leaves the others as they were.
LEMMA AddsFrame ==
    ASSUME TypeInv, RecordsTyped, NEW r \in Runs, Adds(r)
    PROVE  /\ Frame(r) /\ RecordsTyped' /\ Runs' = Runs \cup {NextRun} /\ NextRun \notin Runs
           /\ \A q \in Runs : /\ runs'[q] = runs[q] /\ rows'[q] = rows[q]
                              /\ content'[q] = content[q]
           /\ runs'[NextRun].parent = r /\ runs'[NextRun].status = "RUNNING"
           /\ \A q \in Runs : q < NextRun
  <1>t. /\ Runs = 1..Len(runs) /\ Len(runs) \in Nat
        /\ runs \in Seq(RunRows) /\ done \in Seq(Range(done)) /\ Len(done) = Len(runs)
        /\ rows \in Seq(Seq(RowStatuses)) /\ Len(rows) = Len(runs)
        /\ content \in Seq(Seq(Pairs)) /\ Len(content) = Len(runs)
        /\ \A q \in Runs : Len(rows[q]) = Len(Nodes(q))
    BY RunAndWalk DEF TypeInv, WalksTyped, DoneTyped, RecordsTyped
  <1>1. PICK wf \in DOMAIN Workflows, i \in Nat :
           /\ runs' = Append(runs, NewRow(wf, r, i)) /\ rows' = Append(rows, NoRows(wf))
           /\ content' = Append(content, <<>>)
           /\ done' = Append(done, [n \in 1..Len(Workflows[wf]) |-> <<>>])
    BY DEF Adds
  <1>2. Workflows[wf] \in Seq(Range(Workflows[wf]))
    BY CompositeAssumption
  <1>3. /\ NoRows(wf) \in Seq(RowStatuses) /\ Len(NoRows(wf)) = Len(Workflows[wf])
        /\ \A m \in 1..Len(NoRows(wf)) : NoRows(wf)[m] = "absent"
    BY <1>2 DEF NoRows, RowStatuses
  <1>4. /\ NewRow(wf, r, i).parent = r /\ NewRow(wf, r, i).status = "RUNNING"
        /\ NewRow(wf, r, i).wf = wf
    BY DEF NewRow
  <1>5. /\ Len(runs') = NextRun /\ \A q \in Runs : runs'[q] = runs[q]
        /\ runs'[NextRun] = NewRow(wf, r, i) /\ Runs' = Runs \cup {NextRun} /\ NextRun \notin Runs
        /\ \A q \in Runs : q < NextRun
    <2>1. /\ Len(runs') = NextRun /\ \A q \in Runs : runs'[q] = runs[q]
          /\ DOMAIN runs' = 1..(Len(runs) + 1)
          /\ runs'[NextRun] = NewRow(wf, r, i)
      BY <1>t, <1>1 DEF NextRun
    <2> QED
      BY <1>t, <2>1 DEF Runs, NextRun
  <1>6. /\ rows' \in Seq(Seq(RowStatuses)) /\ Len(rows') = NextRun
        /\ \A q \in Runs : rows'[q] = rows[q]
        /\ rows'[NextRun] = NoRows(wf)
    <2> DEFINE new == NoRows(wf)
    <2>1. new \in Seq(RowStatuses) /\ rows' = Append(rows, new)
      BY <1>1, <1>3
    <2> HIDE DEF new
    <2>r. rows \in Seq(Seq(RowStatuses))
      BY <1>t
    <2>2. /\ Append(rows, new) \in Seq(Seq(RowStatuses)) /\ Len(Append(rows, new)) = Len(rows) + 1
          /\ \A q \in 1..Len(rows) : Append(rows, new)[q] = rows[q]
          /\ Append(rows, new)[Len(rows) + 1] = new
      BY <2>1, <2>r, AppendProperties
    <2> QED
      BY <1>t, <2>1, <2>2 DEF NextRun, new
  <1>7. /\ content' \in Seq(Seq(Pairs)) /\ Len(content') = NextRun
        /\ \A q \in Runs : content'[q] = content[q]
    <2> DEFINE new == <<>>
    <2>1. new \in Seq(Pairs) /\ content' = Append(content, new)
      BY <1>1
    <2> HIDE DEF new
    <2>r. content \in Seq(Seq(Pairs))
      BY <1>t
    <2>2. /\ Append(content, new) \in Seq(Seq(Pairs))
          /\ Len(Append(content, new)) = Len(content) + 1
          /\ \A q \in 1..Len(content) : Append(content, new)[q] = content[q]
      BY <2>1, <2>r, AppendProperties
    <2> QED
      BY <1>t, <2>1, <2>2 DEF NextRun
  <1>8. \A q \in Runs : done'[q] = done[q]
    BY <1>t, <1>1
  <1>9. RecordsTyped'
    <2>1. ASSUME NEW q \in Runs'
          PROVE  Len(rows'[q]) = Len(Nodes(q)')
      <3>1. CASE q \in Runs
        BY <1>t, <1>5, <1>6, <3>1 DEF Nodes
      <3>2. CASE q = NextRun
        BY <1>3, <1>4, <1>5, <1>6, <3>2 DEF Nodes
      <3> QED
        BY <1>5, <2>1, <3>1, <3>2
    <2> QED
      BY <1>5, <1>6, <1>7, <2>1 DEF RecordsTyped
  <1>10. Frame(r)
    <2>1. ASSUME NEW q \in Runs' \ Runs
          PROVE  runs'[q].status = "RUNNING" /\ \A m \in 1..Len(rows'[q]) : rows'[q][m] = "absent"
      BY <1>3, <1>4, <1>5, <1>6, <2>1
    <2> QED
      BY <1>5, <1>6, <1>7, <1>8, <2>1 DEF Frame, SameLineage
  <1> QED
    BY <1>4, <1>5, <1>6, <1>7, <1>9, <1>10

-----------------------------------------------------------------------------
(* The worktrees walks work in                                              *)

\* The run whose worktree another works in waits.
LEMMA LineHead ==
    ASSUME WalksTyped, LineInv, NEW q \in Runs, Active(q), walk[q].ws # q
    PROVE  walk[q].ws \in Runs /\ walk[walk[q].ws].pc = "wait"
  <1> DEFINE w == walk[q].ws
             T == {x \in Runs : Active(x) /\ walk[x].ws = w /\ x # w}
  <1>1. w \in Runs /\ T \in SUBSET Nat /\ q \in T
    BY RunAndWalk DEF LineInv, WalksTyped
  <1>2. PICK x \in T : \A y \in T : x <= y
    BY <1>1, LeastOf
  <1>3. Under(x) /\ runs[x].parent < x
    BY <1>2 DEF LineInv
  <1> DEFINE p == runs[x].parent
  <1>4. p \in Runs /\ walk[p].pc = "wait" /\ walk[p].ws = w
    BY <1>2, <1>3 DEF Under
  <1>5. Active(p)
    BY <1>4 DEF Active
  <1>6. p \notin T
    <2>1. p \in Nat /\ x \in Nat /\ p < x
      BY <1>1, <1>2, <1>3, <1>4, RunAndWalk DEF WalksTyped
    <2> QED
      BY <1>2, <2>1
  <1>7. p = w
    BY <1>4, <1>5, <1>6
  <1> QED
    BY <1>1, <1>4, <1>7

\* The step of a walk stays in its worktree, and in its node unless it advances.
LEMMA StaysInTree ==
    ASSUME TypeInv, FamilyInv, RecordsTyped, LineInv, NEW r \in Runs, WalkTold(r), WalkStep(r),
           Active(r)'
    PROVE  /\ Active(r) /\ walk'[r].ws = walk[r].ws
           /\ (Completes(r) /\ Advances(r)) \/ walk'[r].node = walk[r].node
  <1> DEFINE Stays == Active(r) /\ walk'[r].ws = walk[r].ws /\ walk'[r].node = walk[r].node
  <1>t. /\ DOMAIN walk = Runs /\ walk[r] \in Walks /\ WalksTyped
        /\ walk \in Seq(Walks) /\ Len(walk) = Len(runs) /\ Runs = 1..Len(runs)
    BY RunAndWalk DEF TypeInv, WalksTyped
  <1>n. NoWalk.pc = "none" /\ \A v, s : Returned(v, s).pc = "return"
    BY DEF NoWalk, Returned
  <1>1. CASE Completes(r) /\ Advances(r)
    BY <1>t, <1>1 DEF Advances, Advanced, NoWalk
  <1>2. CASE Ends(r)
    BY <1>2, <1>n DEF Ends, Active
  <1>3. CASE Proceeds(r)
    BY <1>3 DEF Proceeds, Active
  <1>4. CASE Close(r)
    BY <1>t, <1>4, <1>n DEF Close, Active
  <1>5. ASSUME NEW w, walk' = [walk EXCEPT ![r] = w], w.ws = walk[r].ws /\ w.node = walk[r].node,
               walk[r].pc \in {"visit", "exec", "wait", "pool", "merge"}
        PROVE  Stays
    BY <1>t, <1>5 DEF Active
  <1>6. CASE Within(r)
    <2>1. CASE IterationReturns(r) /\ Continues(Child(r))
      <3>1. walk[r].pc = "wait" /\ walk' = [Closed(r) EXCEPT ![r].pc = "visit"]
        BY <2>1 DEF IterationReturns, ChildReturns, Is
      <3>2. Child(r) # r
        BY <3>1, ChildIsOther
      <3>3. walk'[r] = [walk[r] EXCEPT !.pc = "visit"]
        BY <1>t, <3>1, <3>2 DEF Closed
      <3>4. /\ walk'[r].pc = "visit" /\ walk'[r].ws = walk[r].ws
            /\ walk'[r].node = walk[r].node
        BY <1>t, <3>3 DEF Walks
      <3> QED
        BY <3>1, <3>4 DEF Active
    <2>2. CASE StartMap(r)
      <3>1. PICK k, s : walk' = [walk EXCEPT ![r].pc = "pool", ![r].kids = k, ![r].results = s]
        BY <2>2 DEF StartMap
      <3> DEFINE w == [walk[r] EXCEPT !.pc = "pool", !.kids = k, !.results = s]
      <3>2. w.ws = walk[r].ws /\ w.node = walk[r].node
        BY <1>t DEF Walks
      <3>3. walk' = [walk EXCEPT ![r] = w]
        BY <3>1
      <3> HIDE DEF w
      <3> QED
        BY <1>5, <2>2, <3>2, <3>3 DEF StartMap, Is
    <2>3. CASE PoolDone(r)
      <3> DEFINE w == [walk[r] EXCEPT !.pc = "merge"]
      <3>2. w.ws = walk[r].ws /\ w.node = walk[r].node
        BY <1>t DEF Walks
      <3>3. walk' = [walk EXCEPT ![r] = w]
        BY <2>3 DEF PoolDone, Go
      <3> HIDE DEF w
      <3> QED
        BY <1>5, <2>3, <3>2, <3>3 DEF PoolDone, Is
    <2>4. CASE MergeItem(r)
      <3> DEFINE w == [walk[r] EXCEPT !.merged = @ + 1]
      <3>2. w.ws = walk[r].ws /\ w.node = walk[r].node
        BY <1>t DEF Walks
      <3>3. walk' = [walk EXCEPT ![r] = w]
        BY <2>4 DEF MergeItem
      <3> HIDE DEF w
      <3> QED
        BY <1>5, <2>4, <3>2, <3>3 DEF MergeItem, MergesLeft, Is
    <2>5. ASSUME NEW i \in Items(r), ItemReturns(r, i)
          PROVE  Stays
      <3> DEFINE k == walk[r].kids[i]
      <3>1. /\ walk[r].pc = "pool" /\ k # 0
            /\ walk' = [walk EXCEPT ![r].results[i] = walk[k].result, ![k] = NoWalk]
        BY <2>5 DEF ItemReturns, Is
      <3>2. k # r
        <4>1. k \in Runs /\ runs[k].parent = r
          BY <2>5, <3>1 DEF FamilyInv
        <4>2. r < k /\ r \in Nat
          BY <1>t, <4>1 DEF LineInv
        <4> QED
          BY <4>1, <4>2
      <3> HIDE DEF k
      <3>3. walk'[r] = [walk[r] EXCEPT !.results[i] = walk[k].result]
        BY <1>t, <3>1, <3>2
      <3> QED
        BY <1>t, <3>1, <3>3 DEF Active, Walks
    <2> QED
      BY <1>6, <2>1, <2>2, <2>3, <2>4, <2>5 DEF Within
  <1>7. CASE Begets(r)
    <2>1. ASSUME NEW w, NEW new, walk' = Append([walk EXCEPT ![r] = w], new), w.ws = walk[r].ws /\ w.node = walk[r].node,
                 walk[r].pc \in {"visit", "exec", "pool"}
          PROVE  Stays
      <3>1. walk'[r] = w
        BY <1>t, <2>1
      <3> QED
        BY <2>1, <3>1 DEF Active
    <2>2. CASE StartSubworkflow(r) \/ StartLoop(r)
      <3>1. PICK kids, new :
              walk' = Append([walk EXCEPT ![r].pc = "wait", ![r].kids = kids], new)
        BY <1>t, <2>2 DEF StartSubworkflow, StartLoop, Create
      <3> DEFINE w == [walk[r] EXCEPT !.pc = "wait", !.kids = kids]
      <3>2. w.ws = walk[r].ws /\ w.node = walk[r].node
        BY <1>t DEF Walks
      <3>3. walk' = Append([walk EXCEPT ![r] = w], new)
        BY <3>1
      <3>4. walk[r].pc \in {"visit", "exec", "pool"}
        BY <2>2 DEF StartSubworkflow, StartLoop, Is
      <3> HIDE DEF w
      <3> QED
        BY <2>1, <3>2, <3>3, <3>4
    <2>3. ASSUME NEW i \in Items(r), StartItem(r, i)
          PROVE  Stays
      <3>1. PICK new : walk' = Append([walk EXCEPT ![r].kids[i] = NextRun], new)
        BY <2>3 DEF StartItem, Create
      <3> DEFINE w == [walk[r] EXCEPT !.kids[i] = NextRun]
      <3>2. w.ws = walk[r].ws /\ w.node = walk[r].node
        BY <1>t DEF Walks
      <3>3. walk' = Append([walk EXCEPT ![r] = w], new)
        BY <3>1
      <3>4. walk[r].pc \in {"visit", "exec", "pool"}
        BY <2>3 DEF StartItem, Is
      <3> HIDE DEF w
      <3> QED
        BY <2>1, <3>2, <3>3, <3>4
    <2>4. ASSUME NEW i \in Items(r), ItemSetupFails(r, i)
          PROVE  Stays
      <3>1. walk' = Append([walk EXCEPT ![r].results[i] = "raised"], NoWalk)
        BY <2>4 DEF ItemSetupFails
      <3> DEFINE w == [walk[r] EXCEPT !.results[i] = "raised"]
      <3>2. w.ws = walk[r].ws /\ w.node = walk[r].node
        BY <1>t DEF Walks
      <3>3. walk' = Append([walk EXCEPT ![r] = w], NoWalk)
        BY <3>1
      <3>4. walk[r].pc \in {"visit", "exec", "pool"}
        BY <2>4 DEF ItemSetupFails, Is
      <3> HIDE DEF w
      <3> QED
        BY <2>1, <3>2, <3>3, <3>4
    <2> QED
      BY <1>7, <2>2, <2>3, <2>4 DEF Begets
  <1> QED
    BY <1>1, <1>2, <1>3, <1>4, <1>6, <1>7, StepKinds

\* A run that has succeeded stays as it is, and branches only grow.
Settles ==
    /\ \A b \in Runs : \E u \in Seq(Pairs) : content'[b] = content[b] \o u
    /\ \A b \in Runs : runs[b].status = "SUCCEEDED" =>
                           runs'[b].status = "SUCCEEDED" /\ content'[b] = content[b]

LEMMA StepSettles ==
    ASSUME TypeInv, StatusInv, RecordsTyped, LineInv, NEW r \in Runs, Frame(r)
    PROVE  Settles
  <1>1. ASSUME NEW b \in Runs
        PROVE  \E u \in Seq(Pairs) : content'[b] = content[b] \o u
    <2>1. CASE content'[b] = content[b]
      <3>1. content[b] \in Seq(Pairs)
        BY RecordsOf DEF TypeInv
      <3>2. content[b] \o <<>> = content[b] /\ <<>> \in Seq(Pairs)
        BY <3>1
      <3> QED
        BY <2>1, <3>2
    <2> QED
      BY <2>1 DEF Frame
  <1>2. ASSUME NEW b \in Runs, runs[b].status = "SUCCEEDED"
        PROVE  runs'[b].status = "SUCCEEDED" /\ content'[b] = content[b]
    <2>1. ~Active(b)
      BY <1>2 DEF StatusInv, Active
    <2>2. runs'[b].status = "SUCCEEDED"
      BY <1>2, <2>1 DEF Frame
    <2>3. ~(walk[r].pc \in {"exec", "merge"} /\ b = walk[r].ws)
      <3>1. SUFFICES ASSUME walk[r].pc \in {"exec", "merge"}, b = walk[r].ws
                     PROVE  FALSE
        OBVIOUS
      <3>2. Active(r)
        BY <3>1 DEF Active
      <3>3. walk[b].pc = "wait"
        BY <2>1, <3>1, <3>2, LineHead DEF TypeInv
      <3> QED
        BY <2>1, <3>3 DEF Active
    <2> QED
      BY <2>2, <2>3 DEF Frame
  <1> QED
    BY <1>1, <1>2 DEF Settles

\* So it is when a process dies or a scan goes on.
LEMMA RestSettles ==
    ASSUME TypeInv, StatusInv, RecordsTyped, content' = content,
           \A b \in Runs : runs[b].status = "SUCCEEDED" => runs'[b].status = "SUCCEEDED"
    PROVE  Settles
  <1>1. ASSUME NEW b \in Runs
        PROVE  \E u \in Seq(Pairs) : content'[b] = content[b] \o u
    <2>1. content[b] \in Seq(Pairs)
      BY RecordsOf DEF TypeInv
    <2>2. content[b] \o <<>> = content[b] /\ <<>> \in Seq(Pairs)
      BY <2>1
    <2> QED
      BY <2>2
  <1> QED
    BY <1>1 DEF Settles

\* A walk that stays in its worktree stays below the run that waits for it.
LEMMA LineOf ==
    ASSUME TypeInv, LineInv, NEW r \in Runs, OthersWait(r), Runs \subseteq Runs',
           NEW q \in Runs, SameLineage(q), Active(q),
           IF q = r THEN walk'[q].ws = walk[q].ws ELSE walk'[q] = walk[q]
    PROVE  /\ walk'[q].ws \in Runs' /\ walk'[q].ws <= q
           /\ walk'[q].ws = q \/ Under(q)'
  <1>1. /\ walk[q].ws \in Runs /\ walk[q].ws <= q /\ walk'[q].ws = walk[q].ws
        /\ walk[q].ws = q \/ Under(q)
    BY DEF LineInv
  <1>2. CASE Under(q)
    <2> DEFINE p == runs[q].parent
    <2>1. /\ p \in Runs /\ runs[q].index = 0 /\ walk[p].pc = "wait" /\ Last(walk[p].kids) = q
          /\ walk[p].ws = walk[q].ws /\ p < q
      BY <1>2 DEF Under, Child, LineInv
    <2>2. p # q /\ p \in Nat
      BY <2>1, RunAndWalk DEF TypeInv, WalksTyped
    <2>3. p # r
      <3>1. SUFFICES ASSUME p = r PROVE FALSE
        OBVIOUS
      <3>2. walk[q].pc = "return"
        BY <2>1, <3>1 DEF OthersWait, Child
      <3> QED
        BY <3>2 DEF Active
    <2>4. walk'[p] = walk[p]
      BY <2>1, <2>3 DEF OthersWait
    <2>5. runs'[q].parent = p /\ runs'[q].index = 0
      BY <2>1 DEF SameLineage
    <2> HIDE DEF p
    <2>6. Under(q)'
      BY <1>1, <2>1, <2>4, <2>5 DEF Under, Child
    <2> QED
      BY <1>1, <2>6
  <1> QED
    BY <1>1, <1>2

\* Every step keeps the records, and the worktrees runs work in.
LEMMA LineKept ==
    ASSUME TypeInv, FamilyInv, RecordsTyped, LineInv, WalkInv, [Next]_vars
    PROVE  RecordsTyped' /\ LineInv'
  <1>n. NoWalk.pc = "none" /\ \A ws : BeginIn(ws).ws = ws
    BY DEF NoWalk, BeginIn
  <1>t. Runs = 1..Len(runs) /\ Len(runs) \in Nat
    BY RunAndWalk DEF TypeInv, WalksTyped
  <1>1. ASSUME NEW r \in Runs, WalkStep(r)
        PROVE  RecordsTyped' /\ LineInv'
    <2>0. WalkTold(r)
      BY DEF WalkInv
    <2>1. OthersWait(r)
      BY <1>1, WalkMoves, OthersByMoves
    <2>2. Writes(r) \/ Adds(r)
      BY <1>1, <2>0, StepKinds
    <2>3. Frame(r) /\ RecordsTyped'
      BY <2>2, WritesFrame, AddsFrame
    <2>4. ASSUME NEW q \in Runs
          PROVE  /\ runs'[q].parent < q
                 /\ Active(q)' => /\ walk'[q].ws \in Runs' /\ walk'[q].ws <= q
                                  /\ walk'[q].ws = q \/ Under(q)'
      <3>1. SameLineage(q) /\ Runs \subseteq Runs'
        BY <2>3 DEF Frame
      <3>2. runs'[q].parent < q
        BY <3>1 DEF SameLineage, LineInv
      <3>3. ASSUME Active(q)'
            PROVE  Active(q) /\ IF q = r THEN walk'[q].ws = walk[q].ws ELSE walk'[q] = walk[q]
        <4>1. CASE q = r
          BY <1>1, <2>0, <3>3, <4>1, StaysInTree
        <4>2. CASE q # r
          BY <1>n, <2>1, <3>3, <4>2 DEF OthersWait, Active
        <4> QED
          BY <4>1, <4>2
      <3> QED
        BY <2>1, <3>1, <3>2, <3>3, LineOf
    <2>5. CASE Writes(r)
      BY <2>3, <2>4, <2>5, WritesFrame DEF LineInv
    <2>6. CASE Adds(r)
      <3>1. /\ Runs' = Runs \cup {NextRun} /\ NextRun \notin Runs
            /\ \A q \in Runs : q < NextRun
            /\ runs'[NextRun].parent = r
        BY <2>6, AddsFrame
      <3>2. ASSUME NEW q, q = NextRun
            PROVE  /\ runs'[q].parent < q
                   /\ Active(q)' => /\ walk'[q].ws \in Runs' /\ walk'[q].ws <= q
                                    /\ walk'[q].ws = q \/ Under(q)'
        <4>1. PICK wf \in DOMAIN Workflows, i \in Nat :
                /\ runs' = Append(runs, NewRow(wf, r, i))
                /\ \/ walk'[NextRun] = NoWalk
                   \/ /\ i > 0 /\ walk'[NextRun] = BeginIn(NextRun)
                   \/ /\ i = 0 /\ walk'[NextRun] = BeginIn(walk[r].ws)
                      /\ walk'[r].pc = "wait" /\ walk'[r].kids # <<>> /\ Last(walk'[r].kids) = NextRun
          BY <2>6 DEF Adds
        <4>2. runs'[q].parent < q /\ q \in Runs' /\ q \in Nat /\ r < q
          BY <1>t, <3>1, <3>2 DEF NextRun
        <4>3. CASE walk'[NextRun] = NoWalk
          BY <1>n, <3>2, <4>2, <4>3 DEF Active
        <4>4. CASE walk'[NextRun] = BeginIn(NextRun)
          BY <1>n, <3>2, <4>2, <4>4
        <4>5. CASE /\ i = 0 /\ walk'[NextRun] = BeginIn(walk[r].ws)
                   /\ walk'[r].pc = "wait" /\ walk'[r].kids # <<>> /\ Last(walk'[r].kids) = NextRun
          <5>1. Active(r)'
            BY <4>5 DEF Active
          <5>2. Active(r) /\ walk'[r].ws = walk[r].ws
            BY <1>1, <2>0, <5>1, StaysInTree
          <5>3. walk[r].ws \in Runs /\ walk[r].ws <= r
            BY <5>2 DEF LineInv
          <5>4. walk'[q].ws = walk[r].ws
            BY <1>n, <3>2, <4>5
          <5>5. runs'[q] = NewRow(wf, r, 0)
            <6>1. runs \in Seq(RunRows)
              BY DEF TypeInv, WalksTyped
            <6> QED
              BY <3>2, <4>1, <4>5, <6>1 DEF NextRun
          <5>6. runs'[q].index = 0 /\ runs'[q].parent = r /\ r \in Runs'
            BY <3>1, <5>5 DEF NewRow
          <5>7. Under(q)'
            BY <3>2, <4>5, <5>2, <5>4, <5>6 DEF Under, Child
          <5>8. walk'[q].ws \in Runs' /\ walk'[q].ws <= q
            BY <1>t, <3>1, <4>2, <5>3, <5>4
          <5> QED
            BY <4>2, <5>7, <5>8
        <4> QED
          BY <4>1, <4>3, <4>4, <4>5
      <3> QED
        BY <2>3, <2>4, <3>1, <3>2 DEF LineInv
    <2> QED
      BY <2>2, <2>5, <2>6
  <1>2. CASE Crash
    <2>1. Runs' = Runs /\ runs' = runs /\ \A q \in Runs : walk'[q] = NoWalk
      BY <1>2, CrashBy
    <2>2. UNCHANGED <<rows, content>>
      BY <1>2 DEF Crash, db, git
    <2>3. RecordsTyped'
      BY <2>1, <2>2 DEF RecordsTyped, Nodes
    <2>4. LineInv'
      BY <1>n, <2>1 DEF LineInv, Active
    <2> QED
      BY <2>3, <2>4
  <1>3. CASE ScanNext
    <2>1. PICK r \in scan : /\ Runs' = Runs /\ Quiet
                            /\ \A q \in Runs \ {r} : walk'[q] = walk[q] /\ runs'[q] = runs[q]
                            /\ \A q \in Runs : SameLineage(q)
                            /\ walk'[r].pc = "visit"
      BY <1>3, ScanBy
    <2>2. UNCHANGED <<rows, content>> /\ Len(runs') = Len(runs)
      BY <1>3 DEF ScanNext, git
    <2>3. RecordsTyped'
      BY <2>1, <2>2 DEF RecordsTyped, Nodes, SameLineage
    <2>4. r \in Runs
      BY DEF TypeInv
    <2>5. \A q \in Runs : walk'[q].pc \notin {"none"} => walk'[q] = BeginIn(q)
      <3>1. PICK s \in scan : walk' = [walk EXCEPT ![s] = BeginIn(s)]
        BY <1>3 DEF ScanNext
      <3>2. DOMAIN walk = Runs
        BY RunAndWalk DEF TypeInv
      <3> QED
        BY <1>n, <2>1, <3>1, <3>2 DEF Quiet
    <2>6. LineInv'
      <3>1. ASSUME NEW q \in Runs
            PROVE  /\ runs'[q].parent < q
                   /\ Active(q)' => walk'[q].ws = q
        <4>1. SameLineage(q)
          BY <2>1
        <4>2. runs'[q].parent < q
          BY <4>1 DEF SameLineage, LineInv
        <4> QED
          BY <1>n, <2>5, <4>2 DEF Active
      <3> QED
        BY <1>t, <2>1, <3>1 DEF LineInv
    <2> QED
      BY <2>3, <2>6
  <1>4. CASE StartScan \/ ScanRaises \/ UNCHANGED vars
    <2>1. UNCHANGED <<runs, rows, content, walk>>
      BY <1>4 DEF StartScan, ScanRaises, vars, db, git
    <2>2. Runs' = Runs
      BY <2>1 DEF Runs
    <2>3. RecordsTyped'
      BY <2>1, <2>2 DEF RecordsTyped, Nodes
    <2>4. LineInv'
      BY <2>1, <2>2 DEF LineInv, Active, Under, Child
    <2> QED
      BY <2>3, <2>4
  <1> QED
    BY <1>1, <1>2, <1>3, <1>4 DEF Next, Engine

-----------------------------------------------------------------------------
(* What the walks have found out                                            *)

\* A walk that has no children, that begins, is over or has returned.
LEMMA FreshTold ==
    ASSUME NEW q, walk'[q].pc \in {"none", "visit", "return"}, walk'[q].kids = <<>>,
           walk'[q].merged = 0,
           walk'[q].pc = "return" => runs'[q].status = walk'[q].result
    PROVE  WalkTold(q)'
  <1>1. Items(q)' = {}
    BY DEF Items
  <1> QED
    BY <1>1 DEF WalkTold, RowOpen, ReturnTold, KidsTold, PoolWhole, MergedInOrder, Is

\* Walks that are written so.
LEMMA FreshWalks ==
    /\ NoWalk.pc = "none" /\ NoWalk.kids = <<>> /\ NoWalk.merged = 0
    /\ \A w : Advanced(w).pc = "visit" /\ Advanced(w).kids = <<>> /\ Advanced(w).merged = 0
    /\ \A w, s : /\ Returned(w, s).pc = "return" /\ Returned(w, s).kids = <<>>
                 /\ Returned(w, s).merged = 0 /\ Returned(w, s).result = s
    /\ \A ws : BeginIn(ws).pc = "visit" /\ BeginIn(ws).kids = <<>> /\ BeginIn(ws).merged = 0
  BY DEF NoWalk, Advanced, Returned, BeginIn

\* The children a walk keeps are as they were, as is what is known of them.
LEMMA KidsStay ==
    ASSUME FamilyInv, Settles, Runs \subseteq Runs', \A p \in Runs : SameLineage(p),
           NEW q \in Runs, KidsTold(q), walk'[q].kids = walk[q].kids,
           IF walk'[q].pc \in {"pool", "merge"}
           THEN walk[q].pc \in {"pool", "merge"} /\ walk'[q].results = walk[q].results
           ELSE /\ walk[q].pc \notin {"pool", "merge"}
                /\ walk[q].pc = "wait" => walk'[q].pc = "wait"
    PROVE  KidsTold(q)'
  <1>1. ASSUME NEW k, Succeeded(k)
        PROVE  k \in Runs' /\ runs'[k].status = "SUCCEEDED"
    BY <1>1 DEF Succeeded, Settles
  <1>2. ASSUME NEW i \in Items(q), walk[q].kids[i] # 0
        PROVE  runs'[walk[q].kids[i]].index = runs[walk[q].kids[i]].index
    BY <1>2 DEF FamilyInv, SameLineage
  <1>3. Items(q)' = Items(q)
    BY DEF Items
  <1>4. ASSUME NEW i \in Items(q), walk'[q].pc \notin {"pool", "merge"},
               walk'[q].pc = "wait" => i < Len(walk[q].kids)
        PROVE  walk[q].kids[i] \in Runs' /\ runs'[walk[q].kids[i]].status = "SUCCEEDED"
    BY <1>1, <1>4 DEF KidsTold
  <1>5. ASSUME NEW i \in Items(q), walk'[q].pc \in {"pool", "merge"}
        PROVE  /\ walk[q].kids[i] # 0 => runs'[walk[q].kids[i]].index = i
               /\ walk[q].results[i] = "SUCCEEDED" =>
                    walk[q].kids[i] \in Runs' /\ runs'[walk[q].kids[i]].status = "SUCCEEDED"
    BY <1>1, <1>2, <1>5 DEF KidsTold
  <1> QED
    BY <1>3, <1>4, <1>5 DEF KidsTold, Succeeded

\* What has been merged so far, while no branch changes.
LEMMA MergedStays ==
    ASSUME NEW q \in Runs, KidsTold(q), MergedInOrder(q), TypeInv,
           walk'[q] = walk[q], walk[q].pc = "merge" => walk[q].ws \in Runs,
           walk[q].pc = "merge" => \A b \in Runs : content'[b] = content[b]
    PROVE  MergedInOrder(q)'
  <1>1. CASE walk[q].pc # "merge"
    BY <1>1 DEF MergedInOrder
  <1>2. CASE walk[q].pc = "merge"
    <2>1. walk[q].merged \in Nat /\ Len(walk[q].kids) \in Nat
      <3>1. walk[q] \in Walks
        BY RunAndWalk DEF TypeInv
      <3> QED
        BY <3>1 DEF Walks
    <2>2. \A i \in 1..walk[q].merged : content'[walk[q].kids[i]] = content[walk[q].kids[i]]
      <3>1. ASSUME NEW i \in 1..walk[q].merged
            PROVE  walk[q].kids[i] \in Runs
        <4>1. i \in Items(q) /\ walk[q].results[i] = "SUCCEEDED"
          BY <1>2, <2>1 DEF MergedInOrder, Items
        <4> QED
          BY <1>2, <4>1 DEF KidsTold, Succeeded
      <3> QED
        BY <1>2, <3>1
    <2>3. Brought(walk[q].kids, walk[q].merged)' = Brought(walk[q].kids, walk[q].merged)
      BY <2>2 DEF Brought
    <2>4. content'[walk[q].ws] = content[walk[q].ws]
      BY <1>2
    <2>5. EndsWith(content[walk[q].ws], FlattenSeq(Brought(walk[q].kids, walk[q].merged)))'
      BY <1>2, <2>3, <2>4 DEF MergedInOrder
    <2> QED
      BY <1>2, <2>5 DEF MergedInOrder
  <1> QED
    BY <1>1, <1>2

\* A walk that stays as it is.
LEMMA ToldStays ==
    ASSUME TypeInv, FamilyInv, LineInv, Settles, Runs \subseteq Runs',
           \A p \in Runs : SameLineage(p),
           NEW q \in Runs, WalkTold(q), walk'[q] = walk[q],
           rows'[q] = rows[q], runs'[q] = runs[q],
           walk[q].pc = "merge" => \A b \in Runs : content'[b] = content[b]
    PROVE  WalkTold(q)'
  <1>1. KidsTold(q)'
    BY KidsStay DEF WalkTold
  <1>2. walk[q].pc = "merge" => walk[q].ws \in Runs
    BY DEF LineInv, Active
  <1>3. MergedInOrder(q)'
    BY <1>2, MergedStays DEF WalkTold
  <1>4. Nodes(q)' = Nodes(q)
    BY DEF Nodes
  <1>5. RowOpen(q)' /\ ReturnTold(q)' /\ PoolWhole(q)'
    BY <1>4 DEF WalkTold, RowOpen, ReturnTold, PoolWhole, Is, Row, Type, At
  <1> QED
    BY <1>1, <1>3, <1>5 DEF WalkTold

\* The node of a walk that stays in it.
LEMMA SameNode ==
    ASSUME NEW r \in Runs, SameLineage(r), walk'[r].node = walk[r].node
    PROVE  /\ Nodes(r)' = Nodes(r) /\ At(r)' = At(r) /\ Type(r)' = Type(r)
           /\ Row(r)' = rows'[r][walk[r].node]
  BY DEF SameLineage, Nodes, At, Type, Row

\* A walk that goes on in a node of no runs.
LEMMA ProceedsTold ==
    ASSUME TypeInv, FamilyInv, RecordsTyped, Settles, Runs \subseteq Runs',
           \A p \in Runs : SameLineage(p),
           NEW r \in Runs, WalkTold(r), Proceeds(r)
    PROVE  WalkTold(r)'
  <1>1. /\ walk[r].pc \in {"visit", "hop", "read"} /\ walk[r].node <= Len(Nodes(r))
        /\ walk'[r].pc \in {"visit", "exec", "hop", "read"}
        /\ walk'[r].node = walk[r].node /\ walk'[r].kids = walk[r].kids
        /\ walk'[r].merged = walk[r].merged
        /\ walk'[r].pc = "exec" => rows' = [rows EXCEPT ![r][walk[r].node] = "RUNNING"]
    BY DEF Proceeds
  <1>2. KidsTold(r)'
    BY <1>1, KidsStay DEF WalkTold
  <1>3. RowOpen(r)'
    <2>1. CASE walk'[r].pc = "exec"
      <3>1. walk[r].node \in DOMAIN Nodes(r) /\ r \in DOMAIN rows
            /\ DOMAIN rows[r] = 1..Len(Nodes(r)) /\ DOMAIN Nodes(r) = 1..Len(Nodes(r))
        BY <1>1, NodeAtHand, NodesOf, RecordsOf DEF TypeInv
      <3>2. rows'[r][walk[r].node] = "RUNNING"
        BY <1>1, <2>1, <3>1
      <3>3. Row(r)' = "RUNNING"
        BY <1>1, <3>2, SameNode
      <3> QED
        BY <3>3 DEF RowOpen
    <2> QED
      BY <1>1, <2>1 DEF RowOpen, Is
  <1> QED
    BY <1>1, <1>2, <1>3 DEF WalkTold, ReturnTold, PoolWhole, MergedInOrder

\* The child that returned SUCCEEDED is one that has.
LEMMA IterationTold ==
    ASSUME TypeInv, FamilyInv, LineInv, Settles, Runs \subseteq Runs',
           \A p \in Runs : SameLineage(p),
           NEW r \in Runs, WalkInv, IterationReturns(r), Continues(Child(r))
    PROVE  WalkTold(r)'
  <1>t. DOMAIN walk = Runs /\ walk[r] \in Walks
    BY RunAndWalk DEF TypeInv
  <1>1. walk[r].pc = "wait" /\ walk' = [Closed(r) EXCEPT ![r].pc = "visit"]
        /\ walk[Child(r)].pc = "return" /\ walk[Child(r)].result = "SUCCEEDED"
    BY DEF IterationReturns, ChildReturns, Is
  <1>2. Child(r) \in Runs /\ Child(r) # r
    BY <1>1, ChildIsOther
  <1>3. walk'[r] = [walk[r] EXCEPT !.pc = "visit"]
    BY <1>t, <1>1, <1>2 DEF Closed
  <1>4. walk'[r].pc = "visit" /\ walk'[r].kids = walk[r].kids /\ walk'[r].merged = walk[r].merged
    BY <1>t, <1>3 DEF Walks
  <1>5. Succeeded(Child(r))
    BY <1>1, <1>2 DEF WalkInv, WalkTold, ReturnTold, Succeeded
  <1>6. ASSUME NEW i \in Items(r)
        PROVE  Succeeded(walk[r].kids[i])
    <2>1. walk[r].kids \in Seq(Nat)
      BY <1>t DEF Walks
    <2>2. CASE i = Len(walk[r].kids)
      BY <1>5, <2>1, <2>2 DEF Child, Last
    <2>3. CASE i # Len(walk[r].kids)
      <3>1. i < Len(walk[r].kids)
        BY <2>1, <2>3 DEF Items
      <3> QED
        BY <1>1, <3>1 DEF WalkInv, WalkTold, KidsTold
    <2> QED
      BY <2>2, <2>3
  <1>7. KidsTold(r)'
    <2>1. Items(r)' = Items(r)
      BY <1>4 DEF Items
    <2>2. \A i \in Items(r) : walk[r].kids[i] \in Runs' /\ runs'[walk[r].kids[i]].status = "SUCCEEDED"
      BY <1>6 DEF Succeeded, Settles
    <2> QED
      BY <1>4, <2>1, <2>2 DEF KidsTold, Succeeded
  <1>8. walk[r].merged = 0
    BY <1>1 DEF WalkInv, WalkTold, MergedInOrder
  <1> QED
    BY <1>4, <1>7, <1>8 DEF WalkTold, RowOpen, ReturnTold, PoolWhole, MergedInOrder, Is

\* The pool that begins has a place for each item.
LEMMA PoolTold ==
    ASSUME TypeInv, \A p \in Runs : SameLineage(p), rows' = rows,
           NEW r \in Runs, WalkTold(r), StartMap(r)
    PROVE  WalkTold(r)'
  <1>t. DOMAIN walk = Runs /\ walk[r] \in Walks
    BY RunAndWalk DEF TypeInv
  <1>1. At(r).items \in Nat
    BY NodeAtHand DEF TypeInv, StartMap, Is, Type
  <1> DEFINE kids == [i \in 1..At(r).items |-> 0]
             results == [i \in 1..At(r).items |-> "none"]
             w == [walk[r] EXCEPT !.pc = "pool", !.kids = kids, !.results = results]
  <1>2. Len(kids) = At(r).items /\ Len(results) = At(r).items
    BY <1>1
  <1>3. \A i \in 1..At(r).items : kids[i] = 0 /\ results[i] = "none"
    OBVIOUS
  <1>4. walk'[r] = w
    BY <1>t DEF StartMap
  <1> HIDE DEF kids, results
  <1>5. /\ w.pc = "pool" /\ w.node = walk[r].node /\ w.kids = kids /\ w.results = results
        /\ w.merged = walk[r].merged
    BY <1>t DEF Walks
  <1> HIDE DEF w
  <1>6. /\ walk'[r].pc = "pool" /\ walk'[r].node = walk[r].node /\ walk'[r].kids = kids
        /\ walk'[r].results = results /\ walk'[r].merged = walk[r].merged
    BY <1>4, <1>5
  <1>7. KidsTold(r)'
    BY <1>2, <1>3, <1>6 DEF KidsTold, Items
  <1>8. PoolWhole(r)'
    BY <1>2, <1>6, SameNode DEF PoolWhole
  <1>9. RowOpen(r)'
    <2>1. Row(r) # "SUCCEEDED"
      BY DEF WalkTold, RowOpen, StartMap, Is
    <2> QED
      BY <1>6, <2>1, SameNode DEF RowOpen, Row
  <1>10. walk[r].merged = 0
    BY DEF WalkTold, MergedInOrder, StartMap, Is
  <1> QED
    BY <1>6, <1>7, <1>8, <1>9, <1>10 DEF WalkTold, ReturnTold, MergedInOrder

\* Nothing has been merged when the merges begin.
LEMMA MergeTold ==
    ASSUME TypeInv, FamilyInv, RecordsTyped, LineInv, Settles, Runs \subseteq Runs',
           \A p \in Runs : SameLineage(p), rows' = rows, content' = content,
           NEW r \in Runs, WalkTold(r), PoolDone(r)
    PROVE  WalkTold(r)'
  <1>t. DOMAIN walk = Runs /\ walk[r] \in Walks
    BY RunAndWalk DEF TypeInv
  <1>1. walk[r].pc = "pool" /\ walk'[r] = [walk[r] EXCEPT !.pc = "merge"]
    BY <1>t DEF PoolDone, Go, Is
  <1>2. /\ walk'[r].pc = "merge" /\ walk'[r].node = walk[r].node /\ walk'[r].kids = walk[r].kids
        /\ walk'[r].results = walk[r].results /\ walk'[r].merged = walk[r].merged
        /\ walk'[r].ws = walk[r].ws
    BY <1>t, <1>1 DEF Walks
  <1>3. KidsTold(r)'
    BY <1>1, <1>2, KidsStay DEF WalkTold
  <1>4. PoolWhole(r)' /\ RowOpen(r)'
    BY <1>1, <1>2, SameNode DEF WalkTold, PoolWhole, RowOpen, Row
  <1>5. walk[r].merged = 0
    BY <1>1 DEF WalkTold, MergedInOrder
  <1>6. MergedInOrder(r)'
    <2>1. walk[r].ws \in Runs
      BY <1>1 DEF LineInv, Active
    <2>2. content[walk[r].ws] \in Seq(Pairs)
      BY <2>1, RecordsOf DEF TypeInv
    <2>3. EndsWith(content[walk[r].ws], <<>>)
      BY <2>2, EndsWithNothing
    <2>4. ASSUME NEW kids
          PROVE  Brought(kids, 0)' = <<>>
      BY DEF Brought
    <2>5. FlattenSeq(Brought(walk[r].kids, 0))' = <<>>
      BY <1>2, <2>4, FlattenEmpty
    <2>6. EndsWith(content[walk[r].ws], FlattenSeq(Brought(walk[r].kids, walk[r].merged)))'
      BY <1>2, <1>5, <2>3, <2>5
    <2>7. 0 <= Len(walk[r].kids)
      BY <1>t DEF Walks
    <2> QED
      BY <1>2, <1>5, <2>6, <2>7 DEF MergedInOrder
  <1> QED
    BY <1>2, <1>3, <1>4, <1>6 DEF WalkTold, ReturnTold

\* One item more has been merged.
LEMMA MergedOneMore ==
    ASSUME TypeInv, FamilyInv, RecordsTyped, LineInv,
           NEW r \in Runs, WalkTold(r), MergeItem(r)
    PROVE  MergedInOrder(r)'
  <1> DEFINE kids == walk[r].kids
             m == walk[r].merged
             ws == walk[r].ws
             item == kids[m + 1]
  <1>t. DOMAIN walk = Runs /\ walk[r] \in Walks /\ Runs = 1..Len(runs)
    BY RunAndWalk DEF TypeInv
  <1>1. /\ walk[r].pc = "merge" /\ m \in Nat /\ m < Len(kids) /\ Len(kids) \in Nat
        /\ walk[r].results[m + 1] = "SUCCEEDED"
        /\ content' = [content EXCEPT ![ws] = @ \o content[item]]
        /\ walk'[r] = [walk[r] EXCEPT !.merged = @ + 1]
    <2>1. m \in Nat /\ Len(kids) \in Nat
      BY <1>t DEF Walks
    <2>2. /\ walk[r].pc = "merge" /\ m < Len(kids)
          /\ walk[r].results[m + 1] = "SUCCEEDED"
      BY <2>1 DEF MergeItem, MergesLeft, NextToMerge, Is
    <2>3. /\ content' = [content EXCEPT ![ws] = @ \o content[item]]
          /\ walk' = [walk EXCEPT ![r].merged = @ + 1]
      BY DEF MergeItem, NextToMerge
    <2> QED
      BY <1>t, <2>1, <2>2, <2>3
  <1>2. /\ walk'[r].pc = "merge" /\ walk'[r].kids = kids /\ walk'[r].merged = m + 1
        /\ walk'[r].results = walk[r].results /\ walk'[r].ws = ws
    BY <1>t, <1>1 DEF Walks
  <1>3. ws \in Runs /\ ws <= r
    BY <1>1 DEF LineInv, Active
  <1>4. ASSUME NEW i \in 1..(m + 1)
        PROVE  /\ walk[r].results[i] = "SUCCEEDED"
               /\ kids[i] \in Runs /\ kids[i] # ws /\ content'[kids[i]] = content[kids[i]]
               /\ content[kids[i]] \in Seq(Pairs)
    <2>1. walk[r].results[i] = "SUCCEEDED" /\ i \in Items(r)
      <3>1. CASE i = m + 1
        BY <1>1, <3>1 DEF Items
      <3>2. CASE i # m + 1
        <4>1. i \in 1..m /\ i \in 1..Len(kids)
          BY <1>1, <3>2
        <4>2. MergedInOrder(r)
          BY DEF WalkTold
        <4> QED
          BY <1>1, <4>1, <4>2 DEF MergedInOrder, Items
      <3> QED
        BY <3>1, <3>2
    <2>2. kids[i] \in Runs
      BY <1>1, <2>1 DEF WalkTold, KidsTold, Succeeded
    <2>3. runs[kids[i]].parent = r
      <3>1. kids[i] # 0
        BY <1>t, <2>2
      <3> QED
        BY <2>1, <3>1 DEF FamilyInv
    <2>4. r < kids[i]
      BY <2>2, <2>3 DEF LineInv
    <2>5. kids[i] # ws
      BY <1>t, <1>3, <2>2, <2>4
    <2>6. content'[kids[i]] = content[kids[i]] /\ content[kids[i]] \in Seq(Pairs)
      BY <1>1, <2>2, <2>5, RecordsOf DEF TypeInv
    <2> QED
      BY <2>1, <2>2, <2>5, <2>6
  <1> DEFINE s == Brought(kids, m)
             t == Brought(kids, m + 1)
             old == content[ws]
             u == content[item]
  <1>5. /\ s \in Seq(Seq(Pairs)) /\ t \in Seq(Seq(Pairs)) /\ Len(s) = m /\ Len(t) = Len(s) + 1
        /\ \A i \in 1..Len(s) : t[i] = s[i]
        /\ t[Len(t)] = u
    <2>1. \A i \in 1..(m + 1) : content[kids[i]] \in Seq(Pairs)
      BY <1>4
    <2>2. m \in Nat
      BY <1>1
    <2> HIDE DEF kids, m
    <2>3. s \in Seq(Seq(Pairs)) /\ Len(s) = m
      BY <2>1, <2>2 DEF Brought
    <2>4. t \in Seq(Seq(Pairs)) /\ Len(t) = m + 1
      BY <2>1, <2>2 DEF Brought
    <2>5. \A i \in 1..m : t[i] = s[i]
      BY <2>2 DEF Brought
    <2>6. t[m + 1] = u
      BY <2>2 DEF Brought
    <2> QED
      BY <2>2, <2>3, <2>4, <2>5, <2>6
  <1>6. /\ FlattenSeq(s) \in Seq(Pairs) /\ FlattenSeq(t) = FlattenSeq(s) \o u
    <2> HIDE DEF s, t, u
    <2> QED
      BY <1>5, FlattenMore
  <1>7. old \in Seq(Pairs) /\ u \in Seq(Pairs)
    <2>1. m + 1 \in 1..(m + 1)
      BY <1>1
    <2>2. u \in Seq(Pairs)
      BY <1>4, <2>1
    <2>3. old \in Seq(Pairs)
      BY <1>3, RecordsOf DEF TypeInv
    <2> QED
      BY <2>2, <2>3
  <1>8. EndsWith(old, FlattenSeq(s))
    BY <1>1 DEF WalkTold, MergedInOrder
  <1>9. EndsWith(old \o u, FlattenSeq(t))
    <2> HIDE DEF s, t, u, old
    <2> QED
      BY <1>6, <1>7, <1>8, EndsWithMore
  <1>10. content'[ws] = old \o u
    BY <1>1, <1>3, RecordsOf DEF TypeInv
  <1>11. Brought(walk[r].kids, walk[r].merged)' = t
    <2>1. ASSUME NEW ks, NEW n \in Nat, \A i \in 1..n : content'[ks[i]] = content[ks[i]]
          PROVE  Brought(ks, n)' = Brought(ks, n)
      BY <2>1 DEF Brought
    <2>2. PICK ks : ks = kids
      OBVIOUS
    <2>3. PICK n \in Nat : n = m + 1
      BY <1>1
    <2>4. \A i \in 1..n : content'[ks[i]] = content[ks[i]]
      BY <1>4, <2>2, <2>3
    <2>5. Brought(ks, n)' = t
      BY <2>1, <2>2, <2>3, <2>4
    <2>6. walk'[r].kids = ks /\ walk'[r].merged = n
      BY <1>2, <2>2, <2>3
    <2> QED
      BY <2>5, <2>6 DEF Brought
  <1>12. EndsWith(content[walk[r].ws], FlattenSeq(Brought(walk[r].kids, walk[r].merged)))'
    BY <1>2, <1>9, <1>10, <1>11
  <1>13. walk'[r].merged <= Len(walk'[r].kids)
    BY <1>1, <1>2
  <1>14. \A i \in 1..walk'[r].merged : walk'[r].results[i] = "SUCCEEDED"
    BY <1>2, <1>4
  <1> QED
    BY <1>2, <1>12, <1>13, <1>14 DEF MergedInOrder

LEMMA MergeItemTold ==
    ASSUME TypeInv, FamilyInv, RecordsTyped, LineInv, Settles, Runs \subseteq Runs',
           \A p \in Runs : SameLineage(p), rows' = rows,
           NEW r \in Runs, WalkTold(r), MergeItem(r)
    PROVE  WalkTold(r)'
  <1>t. DOMAIN walk = Runs /\ walk[r] \in Walks
    BY RunAndWalk DEF TypeInv
  <1>1. walk[r].pc = "merge" /\ walk'[r] = [walk[r] EXCEPT !.merged = @ + 1]
    BY <1>t DEF MergeItem, MergesLeft, Is
  <1>2. /\ walk'[r].pc = "merge" /\ walk'[r].node = walk[r].node /\ walk'[r].kids = walk[r].kids
        /\ walk'[r].results = walk[r].results
    BY <1>t, <1>1 DEF Walks
  <1>3. KidsTold(r)'
    BY <1>1, <1>2, KidsStay DEF WalkTold
  <1>4. PoolWhole(r)' /\ RowOpen(r)'
    BY <1>1, <1>2, SameNode DEF WalkTold, PoolWhole, RowOpen, Row
  <1> QED
    BY <1>2, <1>3, <1>4, MergedOneMore DEF WalkTold, ReturnTold

\* The result of an item is the status of its run.
LEMMA ItemReturnsTold ==
    ASSUME TypeInv, FamilyInv, LineInv, Settles, Runs \subseteq Runs',
           \A p \in Runs : SameLineage(p), rows' = rows,
           NEW r \in Runs, WalkInv, NEW i \in Items(r), ItemReturns(r, i)
    PROVE  WalkTold(r)'
  <1> DEFINE k == walk[r].kids[i]
  <1>t. DOMAIN walk = Runs /\ walk[r] \in Walks /\ Runs = 1..Len(runs)
    BY RunAndWalk DEF TypeInv
  <1>1. /\ walk[r].pc = "pool" /\ k # 0 /\ walk[k].pc = "return"
        /\ walk' = [walk EXCEPT ![r].results[i] = walk[k].result, ![k] = NoWalk]
    BY DEF ItemReturns, Is
  <1>2. k \in Runs /\ runs[k].parent = r
    BY <1>1 DEF FamilyInv
  <1>3. k # r
    <2>1. r < k
      BY <1>2 DEF LineInv
    <2> QED
      BY <1>t, <2>1
  <1>4. walk[k].result = "SUCCEEDED" => Succeeded(k)
    BY <1>1, <1>2 DEF WalkInv, WalkTold, ReturnTold, Succeeded
  <1>k. k = walk[r].kids[i]
    OBVIOUS
  <1> HIDE DEF k
  <1> DEFINE x == walk[k].result
             results == [walk[r].results EXCEPT ![i] = x]
             w == [walk[r] EXCEPT !.results = results]
  <1>5. walk'[r] = w
    BY <1>t, <1>1, <1>2, <1>3
  <1>6. /\ Len(results) = Len(walk[r].results)
        /\ \A j \in Items(r) : results[j] = "SUCCEEDED" =>
               walk[r].results[j] = "SUCCEEDED" \/ (j = i /\ x = "SUCCEEDED")
    <2>1. walk[r].results \in Seq(Results) /\ Len(walk[r].results) = Len(walk[r].kids)
      BY <1>t, <1>1 DEF Walks, WalkInv, WalkTold, PoolWhole
    <2> HIDE DEF x
    <2> QED
      BY <2>1 DEF Items
  <1> HIDE DEF results
  <1>7. /\ w.pc = "pool" /\ w.node = walk[r].node /\ w.kids = walk[r].kids /\ w.results = results
        /\ w.merged = walk[r].merged
    BY <1>t, <1>1 DEF Walks
  <1> HIDE DEF w
  <1>8. /\ walk'[r].pc = "pool" /\ walk'[r].node = walk[r].node /\ walk'[r].kids = walk[r].kids
        /\ walk'[r].results = results /\ walk'[r].merged = walk[r].merged
    BY <1>5, <1>7
  <1>9. WalkTold(r)
    BY DEF WalkInv
  <1>10. KidsTold(r)'
    <2>1. ASSUME NEW j \in Items(r)
          PROVE  /\ walk[r].kids[j] # 0 => runs'[walk[r].kids[j]].index = j
                 /\ results[j] = "SUCCEEDED" =>
                       walk[r].kids[j] \in Runs' /\ runs'[walk[r].kids[j]].status = "SUCCEEDED"
      <3>1. walk[r].kids[j] # 0 => runs'[walk[r].kids[j]].index = j
        <4>1. SUFFICES ASSUME walk[r].kids[j] # 0
                       PROVE  runs'[walk[r].kids[j]].index = j
          OBVIOUS
        <4>2. walk[r].kids[j] \in Runs
          BY <2>1, <4>1 DEF FamilyInv
        <4>3. runs[walk[r].kids[j]].index = j
          BY <1>1, <1>9, <2>1, <4>1 DEF WalkTold, KidsTold
        <4> QED
          BY <4>2, <4>3 DEF SameLineage
      <3>2. results[j] = "SUCCEEDED" => Succeeded(walk[r].kids[j])
        <4>1. walk[r].results[j] = "SUCCEEDED" => Succeeded(walk[r].kids[j])
          BY <1>1, <1>9, <2>1 DEF WalkTold, KidsTold
        <4> QED
          BY <1>4, <1>6, <1>k, <2>1, <4>1
      <3> QED
        BY <3>1, <3>2 DEF Succeeded, Settles
    <2>2. Items(r)' = Items(r)
      BY <1>8 DEF Items
    <2> QED
      BY <1>8, <2>1, <2>2 DEF KidsTold, Succeeded
  <1>11. PoolWhole(r)' /\ RowOpen(r)'
    BY <1>1, <1>6, <1>8, <1>9, SameNode DEF WalkTold, PoolWhole, RowOpen, Row
  <1>12. walk[r].merged = 0
    BY <1>1, <1>9 DEF WalkTold, MergedInOrder
  <1> QED
    BY <1>8, <1>10, <1>11, <1>12 DEF WalkTold, ReturnTold, MergedInOrder

\* A run that waits for a child it has started.
LEMMA CallTold ==
    ASSUME TypeInv, FamilyInv, Settles, Runs \subseteq Runs', \A p \in Runs : SameLineage(p),
           NEW r \in Runs, rows'[r] = rows[r], WalkTold(r), StartSubworkflow(r) \/ StartLoop(r)
    PROVE  WalkTold(r)'
  <1>t. /\ DOMAIN walk = Runs /\ walk[r] \in Walks /\ walk \in Seq(Walks) /\ Len(walk) = Len(runs)
        /\ Runs = 1..Len(runs) /\ Len(runs) \in Nat
    BY RunAndWalk DEF TypeInv, WalksTyped
  <1>1. ASSUME NEW kids, NEW new,
               walk' = Append([walk EXCEPT ![r].pc = "wait", ![r].kids = kids], new)
        PROVE  /\ walk'[r].pc = "wait" /\ walk'[r].node = walk[r].node /\ walk'[r].kids = kids
               /\ walk'[r].merged = walk[r].merged
    <2> DEFINE w == [walk[r] EXCEPT !.pc = "wait", !.kids = kids]
    <2>1. w.pc = "wait" /\ w.node = walk[r].node /\ w.kids = kids /\ w.merged = walk[r].merged
      BY <1>t DEF Walks
    <2>2. walk' = Append([walk EXCEPT ![r] = w], new)
      BY <1>1
    <2> HIDE DEF w
    <2>3. walk'[r] = w
      BY <1>t, <2>2
    <2> QED
      BY <2>1, <2>3
  <1>2. walk[r].merged = 0
    BY DEF WalkTold, MergedInOrder, StartSubworkflow, StartLoop, Is
  <1>3. CASE StartSubworkflow(r)
    <2>1. PICK new : walk' = Append([walk EXCEPT ![r].pc = "wait", ![r].kids = <<NextRun>>], new)
      BY <1>3 DEF StartSubworkflow, Create
    <2>2. PICK n : n = NextRun
      OBVIOUS
    <2>3. /\ walk'[r].pc = "wait" /\ walk'[r].node = walk[r].node /\ walk'[r].kids = <<n>>
          /\ walk'[r].merged = 0
      BY <1>1, <1>2, <2>1, <2>2
    <2>4. KidsTold(r)'
      BY <2>3 DEF KidsTold, Items
    <2>5. RowOpen(r)'
      <3>1. Row(r) # "SUCCEEDED"
        BY <1>3 DEF WalkTold, RowOpen, StartSubworkflow, Is
      <3> QED
        BY <2>3, <3>1, SameNode DEF RowOpen, Row
    <2> QED
      BY <2>3, <2>4, <2>5 DEF WalkTold, ReturnTold, PoolWhole, MergedInOrder
  <1>4. CASE StartLoop(r)
    <2>1. PICK new : walk' = Append([walk EXCEPT ![r].pc = "wait",
                                                 ![r].kids = Append(walk[r].kids, NextRun)], new)
      BY <1>t, <1>4 DEF StartLoop, Create
    <2>2. PICK n \in Nat : n = NextRun
      BY <1>t DEF NextRun
    <2>3. /\ walk'[r].pc = "wait" /\ walk'[r].node = walk[r].node
          /\ walk'[r].kids = Append(walk[r].kids, n)
          /\ walk'[r].merged = 0
      BY <1>1, <1>2, <2>1, <2>2
    <2>4. KidsTold(r)'
      <3>1. /\ walk[r].kids \in Seq(Nat) /\ Len(walk'[r].kids) = Len(walk[r].kids) + 1
            /\ \A j \in 1..Len(walk[r].kids) : walk'[r].kids[j] = walk[r].kids[j]
        BY <1>t, <2>2, <2>3 DEF Walks
      <3>2. \A j \in Items(r) : Succeeded(walk[r].kids[j])
        BY <1>4 DEF WalkTold, KidsTold, StartLoop, Is
      <3>3. ASSUME NEW j \in 1..Len(walk'[r].kids), j < Len(walk'[r].kids)
            PROVE  walk'[r].kids[j] \in Runs' /\ runs'[walk'[r].kids[j]].status = "SUCCEEDED"
        <4>1. j \in Items(r) /\ walk'[r].kids[j] = walk[r].kids[j]
          BY <3>1, <3>3 DEF Items
        <4> QED
          BY <3>2, <4>1 DEF Succeeded, Settles
      <3> QED
        BY <2>3, <3>3 DEF KidsTold, Items, Succeeded
    <2>5. RowOpen(r)'
      <3>1. Type(r)' = "loop"
        BY <1>4, <2>3, SameNode DEF StartLoop, Is
      <3> QED
        BY <2>3, <3>1 DEF RowOpen, Is
    <2> QED
      BY <2>3, <2>4, <2>5 DEF WalkTold, ReturnTold, PoolWhole, MergedInOrder
  <1> QED
    BY <1>3, <1>4

\* An item that begins has its number, and one that cannot has no success.
LEMMA ItemTold ==
    ASSUME TypeInv, FamilyInv, Settles, Runs \subseteq Runs', \A p \in Runs : SameLineage(p),
           NEW r \in Runs, rows'[r] = rows[r], WalkTold(r), NextRun \notin Runs,
           NEW i \in Items(r), StartItem(r, i) \/ ItemSetupFails(r, i)
    PROVE  WalkTold(r)'
  <1>t. /\ DOMAIN walk = Runs /\ walk[r] \in Walks /\ walk \in Seq(Walks) /\ Len(walk) = Len(runs)
        /\ Runs = 1..Len(runs) /\ Len(runs) \in Nat /\ runs \in Seq(RunRows)
    BY RunAndWalk DEF TypeInv, WalksTyped
  <1>p. /\ walk[r].pc = "pool" /\ walk[r].kids[i] = 0 /\ walk[r].results[i] = "none"
    BY DEF StartItem, ItemSetupFails, Taken, Is
  <1>w. /\ walk[r].kids \in Seq(Nat) /\ walk[r].results \in Seq(Results)
        /\ Len(walk[r].results) = Len(walk[r].kids)
        /\ Row(r) # "SUCCEEDED" /\ walk[r].merged = 0
    BY <1>t, <1>p DEF Walks, WalkTold, PoolWhole, RowOpen, MergedInOrder
  <1>1. PICK n \in Nat : n = NextRun
    BY <1>t DEF NextRun
  <1>2. ASSUME NEW w, NEW new, walk' = Append([walk EXCEPT ![r] = w], new)
        PROVE  walk'[r] = w
    BY <1>t, <1>2
  <1>3. ASSUME NEW kids, NEW results,
               walk'[r].kids = kids, walk'[r].results = results,
               walk'[r].pc = "pool", walk'[r].node = walk[r].node, walk'[r].merged = 0,
               Len(kids) = Len(walk[r].kids), Len(results) = Len(walk[r].results),
               \A j \in Items(r) : \/ kids[j] = walk[r].kids[j]
                                   \/ j = i /\ kids[j] = n /\ n \in Runs' /\ runs'[n].index = i,
               \A j \in Items(r) : results[j] = "SUCCEEDED" =>
                                       walk[r].results[j] = "SUCCEEDED" /\ j # i
        PROVE  WalkTold(r)'
    <2>1. KidsTold(r)'
      <3>1. ASSUME NEW j \in Items(r)
            PROVE  /\ kids[j] # 0 => runs'[kids[j]].index = j
                   /\ results[j] = "SUCCEEDED" =>
                         kids[j] \in Runs' /\ runs'[kids[j]].status = "SUCCEEDED"
        <4>1. CASE j = i /\ kids[j] = n /\ n \in Runs' /\ runs'[n].index = i
          BY <1>3, <3>1, <4>1
        <4>2. CASE kids[j] = walk[r].kids[j]
          <5>1. ASSUME kids[j] # 0
                PROVE  runs'[kids[j]].index = j
            <6>1. kids[j] \in Runs
              BY <3>1, <4>2, <5>1 DEF FamilyInv
            <6>2. runs[kids[j]].index = j
              BY <1>p, <3>1, <4>2, <5>1 DEF WalkTold, KidsTold
            <6> QED
              BY <6>1, <6>2 DEF SameLineage
          <5>2. ASSUME results[j] = "SUCCEEDED"
                PROVE  kids[j] \in Runs' /\ runs'[kids[j]].status = "SUCCEEDED"
            <6>1. Succeeded(kids[j])
              BY <1>3, <1>p, <3>1, <4>2, <5>2 DEF WalkTold, KidsTold
            <6> QED
              BY <6>1 DEF Succeeded, Settles
          <5> QED
            BY <5>1, <5>2
        <4> QED
          BY <1>3, <3>1, <4>1, <4>2
      <3>2. Items(r)' = Items(r)
        BY <1>3 DEF Items
      <3> QED
        BY <1>3, <3>1, <3>2 DEF KidsTold, Succeeded
    <2>2. PoolWhole(r)' /\ RowOpen(r)'
      BY <1>3, <1>p, <1>w, SameNode DEF WalkTold, PoolWhole, RowOpen, Row
    <2> QED
      BY <1>3, <2>1, <2>2 DEF WalkTold, ReturnTold, MergedInOrder
  <1>4. CASE StartItem(r, i)
    <2>1. PICK new : /\ walk' = Append([walk EXCEPT ![r].kids[i] = n], new)
                     /\ runs' = Append(runs, NewRow(At(r).ref, r, i))
      BY <1>1, <1>4 DEF StartItem, Create
    <2> DEFINE kids == [walk[r].kids EXCEPT ![i] = n]
               w == [walk[r] EXCEPT !.kids = kids]
    <2>2. walk' = Append([walk EXCEPT ![r] = w], new)
      BY <2>1
    <2>3. walk'[r] = w
      <3> HIDE DEF w
      <3> QED
        BY <1>2, <2>2
    <2>4. /\ Len(kids) = Len(walk[r].kids)
          /\ \A j \in Items(r) : kids[j] = IF j = i THEN n ELSE walk[r].kids[j]
      BY <1>w DEF Items
    <2> HIDE DEF kids
    <2>5. /\ w.pc = "pool" /\ w.node = walk[r].node /\ w.kids = kids
          /\ w.results = walk[r].results /\ w.merged = walk[r].merged
      BY <1>t, <1>p DEF Walks
    <2>6. n \in Runs' /\ runs'[n].index = i
      <3>1. runs'[n] = NewRow(At(r).ref, r, i) /\ Len(runs') = n
        BY <1>t, <1>1, <2>1 DEF NextRun
      <3>2. DOMAIN runs' = 1..n /\ n # 0
        BY <1>t, <1>1, <2>1 DEF NextRun
      <3> QED
        BY <3>1, <3>2 DEF NewRow, Runs
    <2> HIDE DEF w
    <2>7. \A j \in Items(r) : \/ kids[j] = walk[r].kids[j]
                              \/ j = i /\ kids[j] = n /\ n \in Runs' /\ runs'[n].index = i
      BY <2>4, <2>6
    <2>8. /\ walk'[r].pc = "pool" /\ walk'[r].node = walk[r].node /\ walk'[r].kids = kids
          /\ walk'[r].results = walk[r].results /\ walk'[r].merged = 0
      BY <1>w, <2>3, <2>5
    <2>9. \A j \in Items(r) : walk[r].results[j] = "SUCCEEDED" => j # i
      BY <1>p
    <2> QED
      BY <1>3, <1>p, <2>4, <2>7, <2>8, <2>9
  <1>5. CASE ItemSetupFails(r, i)
    <2> DEFINE results == [walk[r].results EXCEPT ![i] = "raised"]
               w == [walk[r] EXCEPT !.results = results]
    <2>1. walk' = Append([walk EXCEPT ![r] = w], NoWalk)
      BY <1>5 DEF ItemSetupFails
    <2>3. walk'[r] = w
      <3> HIDE DEF w
      <3> QED
        BY <1>2, <2>1
    <2>4. /\ Len(results) = Len(walk[r].results)
          /\ \A j \in Items(r) : results[j] = IF j = i THEN "raised" ELSE walk[r].results[j]
      BY <1>w DEF Items
    <2> HIDE DEF results
    <2>5. /\ w.pc = "pool" /\ w.node = walk[r].node /\ w.kids = walk[r].kids
          /\ w.results = results /\ w.merged = walk[r].merged
      BY <1>t, <1>p DEF Walks
    <2> HIDE DEF w
    <2>8. /\ walk'[r].pc = "pool" /\ walk'[r].node = walk[r].node /\ walk'[r].kids = walk[r].kids
          /\ walk'[r].results = results /\ walk'[r].merged = 0
      BY <1>w, <2>3, <2>5
    <2>9. \A j \in Items(r) : results[j] = "SUCCEEDED" => walk[r].results[j] = "SUCCEEDED" /\ j # i
      BY <2>4
    <2> QED
      BY <1>3, <2>4, <2>8, <2>9
  <1> QED
    BY <1>4, <1>5

\* The walk that takes a step.
LEMMA MoverTold ==
    ASSUME TypeInv, FamilyInv, RecordsTyped, LineInv, WalkInv, Settles,
           NEW r \in Runs, WalkStep(r), Frame(r)
    PROVE  WalkTold(r)'
  <1>0. WalkTold(r)
    BY DEF WalkInv
  <1>f. Runs \subseteq Runs' /\ \A p \in Runs : SameLineage(p)
    BY DEF Frame
  <1>1. CASE Advances(r)
    BY <1>1, FreshTold, FreshWalks DEF Advances
  <1>2. CASE Ends(r)
    BY <1>2, FreshTold, FreshWalks DEF Ends
  <1>3. CASE Proceeds(r)
    BY <1>0, <1>3, <1>f, ProceedsTold
  <1>4. CASE Close(r)
    <2>1. walk'[r] = NoWalk
      BY <1>4, RunAndWalk DEF Close, TypeInv
    <2> QED
      BY <2>1, FreshTold, FreshWalks
  <1>5. CASE Within(r)
    <2>1. rows' = rows
      BY <1>0, <1>5, WithinKinds
    <2>2. CASE IterationReturns(r) /\ Continues(Child(r))
      BY <1>f, <2>2, IterationTold
    <2>3. CASE StartMap(r)
      BY <1>0, <1>f, <2>1, <2>3, PoolTold
    <2>4. CASE PoolDone(r)
      BY <1>0, <1>f, <2>1, <2>4, MergeTold DEF PoolDone, git
    <2>5. CASE MergeItem(r)
      BY <1>0, <1>f, <2>1, <2>5, MergeItemTold
    <2>6. ASSUME NEW i \in Items(r), ItemReturns(r, i)
          PROVE  WalkTold(r)'
      BY <1>f, <2>1, <2>6, ItemReturnsTold
    <2> QED
      BY <1>5, <2>2, <2>3, <2>4, <2>5, <2>6 DEF Within
  <1>6. CASE Adds(r) /\ Begets(r)
    <2>1. rows'[r] = rows[r] /\ NextRun \notin Runs
      BY <1>6, AddsFrame
    <2> QED
      BY <1>0, <1>6, <1>f, <2>1, CallTold, ItemTold DEF Begets
  <1> QED
    BY <1>0, <1>1, <1>2, <1>3, <1>4, <1>5, <1>6, StepKinds

\* The other walks.
LEMMA OtherTold ==
    ASSUME TypeInv, FamilyInv, TokenInv, RecordsTyped, LineInv, WalkInv, Settles,
           NEW r \in Runs, Frame(r), OthersWait(r), NEW q \in Runs \ {r}
    PROVE  WalkTold(q)'
  <1>1. CASE walk'[q] = NoWalk
    BY <1>1, FreshTold, FreshWalks
  <1>2. CASE walk'[q] = walk[q]
    <2>1. WalkTold(q) /\ rows'[q] = rows[q] /\ runs'[q] = runs[q]
      BY DEF WalkInv, Frame
    <2>2. ASSUME walk[q].pc = "merge", NEW b \in Runs
          PROVE  content'[b] = content[b]
      <3>1. walk[r].pc \notin {"exec", "merge"}
        BY <2>2 DEF TokenInv, Holds, Working
      <3> QED
        BY <3>1 DEF Frame
    <2>3. Runs \subseteq Runs' /\ \A p \in Runs : SameLineage(p)
      BY DEF Frame
    <2> QED
      BY <1>2, <2>1, <2>2, <2>3, ToldStays
  <1> QED
    BY <1>1, <1>2 DEF OthersWait

\* The step of a walk is one that settles, and it is in the frame.
LEMMA StepOf ==
    ASSUME TypeInv, FamilyInv, StatusInv, RecordsTyped, LineInv, WalkInv, NEW r \in Runs, WalkStep(r)
    PROVE  Frame(r) /\ Settles /\ OthersWait(r)
  <1>1. WalkTold(r)
    BY DEF WalkInv
  <1>2. Frame(r)
    BY <1>1, StepKinds, WritesFrame, AddsFrame
  <1>3. Settles
    BY <1>2, StepSettles
  <1> QED
    BY <1>2, <1>3, WalkMoves, OthersByMoves

\* What is known of the walks stays.
LEMMA WalkKept ==
    ASSUME TypeInv, FamilyInv, TokenInv, StatusInv, RecordsTyped, LineInv, WalkInv, [Next]_vars
    PROVE  WalkInv'
  <1>1. ASSUME NEW r \in Runs, WalkStep(r)
        PROVE  WalkInv'
    <2>1. Frame(r) /\ Settles /\ OthersWait(r)
      BY <1>1, StepOf
    <2>2. \A q \in Runs : WalkTold(q)'
      BY <1>1, <2>1, MoverTold, OtherTold
    <2>3. ASSUME NEW q \in Runs' \ Runs
          PROVE  WalkTold(q)'
      <3>1. WalkTold(r)
        BY DEF WalkInv
      <3>2. Adds(r) /\ q = NextRun
        BY <1>1, <2>3, <3>1, StepKinds, WritesFrame, AddsFrame
      <3>3. walk'[q] = NoWalk \/ \E ws : walk'[q] = BeginIn(ws)
        BY <3>2 DEF Adds
      <3> QED
        BY <3>3, FreshTold, FreshWalks
    <2> QED
      BY <2>2, <2>3 DEF WalkInv
  <1>2. CASE Crash
    <2>1. Runs' = Runs /\ \A q \in Runs : walk'[q] = NoWalk
      BY <1>2, CrashBy
    <2>2. \A q \in Runs : WalkTold(q)'
      BY <2>1, FreshTold, FreshWalks
    <2> QED
      BY <2>1, <2>2 DEF WalkInv
  <1>3. CASE ScanNext
    <2>1. Runs' = Runs
      BY <1>3, ScanBy
    <2>2. PICK s \in scan : Quiet /\ walk' = [walk EXCEPT ![s] = BeginIn(s)]
      BY <1>3 DEF ScanNext
    <2>3. \A q \in Runs : walk'[q] \in {NoWalk, BeginIn(s)}
      <3>1. DOMAIN walk = Runs
        BY RunAndWalk DEF TypeInv
      <3> QED
        BY <2>2, <3>1 DEF Quiet
    <2>4. ASSUME NEW q \in Runs
          PROVE  WalkTold(q)'
      BY <2>3, FreshTold, FreshWalks
    <2> QED
      BY <2>1, <2>4 DEF WalkInv
  <1>4. CASE StartScan \/ ScanRaises \/ UNCHANGED vars
    <2>1. UNCHANGED <<runs, rows, content, walk>>
      BY <1>4 DEF StartScan, ScanRaises, vars, db, git
    <2>2. Runs' = Runs /\ \A p \in Runs : SameLineage(p)
      BY <2>1 DEF Runs, SameLineage
    <2>3. Settles
      BY <2>1, RestSettles
    <2>4. ASSUME NEW q \in Runs
          PROVE  WalkTold(q)'
      <3>1. WalkTold(q)
        BY DEF WalkInv
      <3> QED
        BY <2>1, <2>2, <2>3, <3>1, ToldStays
    <2> QED
      BY <2>2, <2>4 DEF WalkInv
  <1> QED
    BY <1>1, <1>2, <1>3, <1>4 DEF Next, Engine

-----------------------------------------------------------------------------
(* The evidence of the nodes that have been passed                          *)

LEMMA FlattenTyped ==
    ASSUME NEW S, NEW s \in Seq(Seq(S))
    PROVE  FlattenSeq(s) \in Seq(S)
  <1>1. <<>> \in Seq(S) /\ Len(s) \in Nat
    OBVIOUS
  <1> DEFINE t == Append(s, <<>>)
  <1>2. /\ t \in Seq(Seq(S)) /\ Len(t) = Len(s) + 1
        /\ \A i \in 1..Len(s) : t[i] = s[i]
    BY <1>1, AppendProperties
  <1> HIDE DEF t
  <1> QED
    BY <1>2, FlattenMore

\* The branches a run may have worked on.
LEMMA BranchesStay ==
    ASSUME Runs \subseteq Runs', NEW q \in Runs, SameLineage(q), NEW kids, NEW b \in BranchOf(q, kids)
    PROVE  b \in Runs /\ b \in BranchOf(q, kids)'
  BY DEF BranchOf, SameLineage

\* A node that is done stays done.
LEMMA DoneStays ==
    ASSUME TypeInv, RecordsTyped, Settles, Runs \subseteq Runs', \A p \in Runs : SameLineage(p),
           NEW q \in Runs, NEW n \in DOMAIN Nodes(q), NodeDone(q, n),
           rows'[q][n] = rows[q][n], done'[q][n] = done[q][n]
    PROVE  NodeDone(q, n)'
  <1> DEFINE type == Nodes(q)[n].type
             kids == done[q][n]
  <1>1. Nodes(q)' = Nodes(q)
    BY DEF SameLineage, Nodes
  <1>2. ASSUME NEW c, Succeeded(c)
        PROVE  c \in Runs /\ c \in Runs' /\ runs'[c].status = "SUCCEEDED" /\ content'[c] = content[c]
    BY <1>2 DEF Succeeded, Settles
  <1>3. ASSUME type = "agent"
        PROVE  \E b \in BranchOf(q, <<>>)' : <<q, n>> \in Range(content'[b])
    <2>1. PICK b \in BranchOf(q, <<>>) : <<q, n>> \in Range(content[b])
      BY <1>3 DEF NodeDone
    <2>2. b \in Runs /\ b \in BranchOf(q, <<>>)'
      BY BranchesStay
    <2>3. PICK u \in Seq(Pairs) : content'[b] = content[b] \o u
      BY <2>2 DEF Settles
    <2>4. content[b] \in Seq(Pairs)
      BY <2>2, RecordsOf DEF TypeInv
    <2>5. PICK i \in DOMAIN content[b] : content[b][i] = <<q, n>>
      BY <2>1 DEF Range
    <2>6. i \in DOMAIN content'[b] /\ content'[b][i] = content[b][i]
      BY <2>3, <2>4, <2>5
    <2>7. <<q, n>> \in Range(content'[b])
      BY <2>5, <2>6 DEF Range
    <2> QED
      BY <2>2, <2>7
  <1>4. ASSUME type \in {"subworkflow", "loop", "map"}, NEW c \in Range(kids)
        PROVE  Succeeded(c) /\ c \in Runs' /\ runs'[c].status = "SUCCEEDED"
    BY <1>2, <1>4 DEF NodeDone
  <1>5. ASSUME type = "map"
        PROVE  /\ DOMAIN kids = 1..Nodes(q)[n].items
               /\ \A i \in DOMAIN kids : runs'[kids[i]].index = i
               /\ \E b \in BranchOf(q, kids)' :
                     Part(FlattenSeq([i \in DOMAIN kids |-> content'[kids[i]]]), content'[b])
    <2>1. /\ DOMAIN kids = 1..Nodes(q)[n].items
          /\ \A i \in DOMAIN kids : runs[kids[i]].index = i
      BY <1>5 DEF NodeDone
    <2>2. \A i \in DOMAIN kids : Succeeded(kids[i])
      BY <1>4, <1>5 DEF Range
    <2>3. \A i \in DOMAIN kids : runs'[kids[i]].index = i
      BY <2>1, <2>2 DEF Succeeded, SameLineage
    <2> DEFINE s == [i \in DOMAIN kids |-> content[kids[i]]]
    <2>4. [i \in DOMAIN kids |-> content'[kids[i]]] = s
      BY <1>2, <2>2
    <2>5. PICK b \in BranchOf(q, kids) : Part(FlattenSeq(s), content[b])
      BY <1>5 DEF NodeDone
    <2>6. b \in Runs /\ b \in BranchOf(q, kids)'
      <3>1. PICK ks : ks = kids
        OBVIOUS
      <3>2. b \in BranchOf(q, ks)
        BY <2>5, <3>1
      <3> QED
        BY <3>1, <3>2, BranchesStay DEF BranchOf
    <2>7. PICK u \in Seq(Pairs) : content'[b] = content[b] \o u
      BY <2>6 DEF Settles
    <2>8. content[b] \in Seq(Pairs)
      BY <2>6, RecordsOf DEF TypeInv
    <2>9. s \in Seq(Seq(Pairs))
      <3>1. Nodes(q)[n].items \in Nat
        BY <1>5, RunAndWalk, CompositeAssumption DEF TypeInv, Nodes, RunRows
      <3>2. \A i \in DOMAIN kids : content[kids[i]] \in Seq(Pairs)
        BY <2>2, RecordsOf DEF TypeInv, Succeeded
      <3> QED
        BY <2>1, <3>1, <3>2
    <2> HIDE DEF s
    <2>10. FlattenSeq(s) \in Seq(Pairs)
      BY <2>9, FlattenTyped
    <2>11. Part(FlattenSeq(s), content'[b])
      BY <2>5, <2>7, <2>8, <2>10, PartStays
    <2> QED
      BY <2>1, <2>3, <2>4, <2>6, <2>11
  <1>6. /\ type \notin {"loop", "handoff"} => rows'[q][n] = "SUCCEEDED"
        /\ type \in {"subworkflow", "loop"} => kids # <<>>
        /\ type = "handoff" => kids # <<>>
    BY DEF NodeDone
  <1> QED
    BY <1>1, <1>3, <1>4, <1>5, <1>6 DEF NodeDone, Succeeded

\* The worktree a walk works in is that of a run, not of one of its children.
LEMMA TreeOfWalk ==
    ASSUME TypeInv, FamilyInv, LineInv, NEW r \in Runs, Active(r)
    PROVE  /\ walk[r].ws \in Runs
           /\ \A kids : (\A c \in Range(kids) : c \in Runs /\ runs[c].parent = r) =>
                            walk[r].ws \in BranchOf(r, kids)
  <1>t. Runs = 1..Len(runs)
    BY RunAndWalk DEF TypeInv
  <1>1. walk[r].ws \in Runs /\ walk[r].ws <= r /\ (walk[r].ws = r \/ Under(r))
    BY DEF LineInv
  <1>2. ASSUME NEW kids, \A c \in Range(kids) : c \in Runs /\ runs[c].parent = r
        PROVE  walk[r].ws \in BranchOf(r, kids)
    <2>1. CASE runs[r].parent = 0 \/ runs[r].index > 0
      <3>1. ~Under(r)
        BY <1>t, <2>1 DEF Under
      <3> QED
        BY <1>1, <2>1, <3>1 DEF BranchOf
    <2>2. CASE ~(runs[r].parent = 0 \/ runs[r].index > 0)
      <3>1. \A c \in Range(kids) : r < c
        BY <1>2 DEF LineInv
      <3>2. walk[r].ws \notin Range(kids)
        BY <1>t, <1>1, <3>1
      <3> QED
        BY <1>1, <2>2, <3>2 DEF BranchOf
    <2> QED
      BY <2>1, <2>2
  <1> QED
    BY <1>1, <1>2

\* The place a step writes its evidence at.
LEMMA Evidence ==
    ASSUME TypeInv, RecordsTyped, NEW r \in Runs, Active(r), walk[r].node <= Len(Nodes(r))
    PROVE  /\ walk[r].node \in DOMAIN Nodes(r)
           /\ \A e : done' = [done EXCEPT ![r][walk[r].node] = e] => done'[r][walk[r].node] = e
           /\ \A s : rows' = [rows EXCEPT ![r][walk[r].node] = s] => rows'[r][walk[r].node] = s
  <1>1. walk[r].node \in DOMAIN Nodes(r)
    BY NodeAtHand DEF TypeInv, Active
  <1>2. r \in DOMAIN done /\ DOMAIN done[r] = DOMAIN Nodes(r)
    BY RunAndWalk DEF TypeInv, DoneTyped
  <1>3. r \in DOMAIN rows /\ DOMAIN rows[r] = DOMAIN Nodes(r)
    BY RecordsOf, NodesOf DEF TypeInv
  <1> QED
    BY <1>1, <1>2, <1>3

\* An agent's work is on the branch.
LEMMA AgentDone ==
    ASSUME TypeInv, FamilyInv, RecordsTyped, LineInv, Runs \subseteq Runs',
           NEW r \in Runs, SameLineage(r), NEW n, n = walk[r].node,
           NEW more \in BOOLEAN, AgentWorks(r, more)
    PROVE  NodeDone(r, n)'
  <1>1. /\ Active(r) /\ n <= Len(Nodes(r)) /\ Nodes(r)[n].type = "agent"
        /\ rows' = [rows EXCEPT ![r][walk[r].node] = "SUCCEEDED"]
        /\ content' = [content EXCEPT ![walk[r].ws] = Append(@, <<r, n>>)]
    BY DEF AgentWorks, Succeed, Is, Type, At, Active
  <1>2. rows'[r][n] = "SUCCEEDED"
    BY <1>1, Evidence
  <1>3. Range(<<>>) = {}
    BY DEF Range
  <1>4. walk[r].ws \in BranchOf(r, <<>>) /\ walk[r].ws \in Runs
    BY <1>1, <1>3, TreeOfWalk
  <1>5. walk[r].ws \in BranchOf(r, <<>>)'
    <2>1. PICK b \in BranchOf(r, <<>>) : b = walk[r].ws
      BY <1>4
    <2>2. b \in BranchOf(r, <<>>)'
      BY BranchesStay
    <2> QED
      BY <2>1, <2>2 DEF BranchOf
  <1>6. <<r, n>> \in Range(content'[walk[r].ws])
    <2>1. content[walk[r].ws] \in Seq(Pairs) /\ walk[r].ws \in DOMAIN content
      BY <1>4, RecordsOf DEF TypeInv
    <2> DEFINE t == content[walk[r].ws]
    <2>2. content'[walk[r].ws] = Append(t, <<r, n>>)
      BY <1>1, <2>1
    <2>3. t \in Seq(Pairs)
      BY <2>1
    <2> HIDE DEF t
    <2>4. Len(t) + 1 \in DOMAIN Append(t, <<r, n>>) /\ Append(t, <<r, n>>)[Len(t) + 1] = <<r, n>>
      BY <2>3
    <2> QED
      BY <2>2, <2>4 DEF Range
  <1>7. Nodes(r)' = Nodes(r)
    BY DEF SameLineage, Nodes
  <1> QED
    BY <1>1, <1>2, <1>5, <1>6, <1>7 DEF NodeDone

\* The children of a call that returned SUCCEEDED have succeeded.
LEMMA CallDone ==
    ASSUME TypeInv, FamilyInv, RecordsTyped, LineInv, WalkInv, Settles, Runs \subseteq Runs',
           NEW r \in Runs, SameLineage(r), NEW n, n = walk[r].node,
           SubworkflowReturns(r) \/ (IterationReturns(r) /\ ~Continues(Child(r)))
    PROVE  NodeDone(r, n)'
  <1>1. /\ Active(r) /\ n <= Len(Nodes(r)) /\ Nodes(r)[n].type \in {"subworkflow", "loop"}
        /\ walk[r].pc = "wait" /\ walk[Child(r)].pc = "return"
        /\ walk[Child(r)].result = "SUCCEEDED"
        /\ done' = [done EXCEPT ![r][walk[r].node] = walk[r].kids]
        /\ Nodes(r)[n].type = "subworkflow" =>
               rows' = [rows EXCEPT ![r][walk[r].node] = "SUCCEEDED"]
    BY DEF SubworkflowReturns, IterationReturns, ChildReturns, Is, Type, At, Active
  <1>2. done'[r][n] = walk[r].kids /\ (Nodes(r)[n].type = "subworkflow" => rows'[r][n] = "SUCCEEDED")
    BY <1>1, Evidence
  <1>3. walk[r].kids # <<>> /\ walk[r].kids \in Seq(Nat)
    BY <1>1, RunAndWalk DEF TypeInv, FamilyInv, Walks
  <1>4. ASSUME NEW c \in Range(walk[r].kids)
        PROVE  c \in Runs' /\ runs'[c].status = "SUCCEEDED"
    <2>1. PICK i \in 1..Len(walk[r].kids) : c = walk[r].kids[i]
      BY <1>3 DEF Range
    <2>2. Succeeded(c)
      <3>1. CASE i = Len(walk[r].kids)
        <4>1. c = Child(r)
          BY <1>3, <2>1, <3>1 DEF Child, Last
        <4>2. Child(r) \in Runs
          BY <1>1, ChildIsOther
        <4> QED
          BY <1>1, <4>1, <4>2 DEF WalkInv, WalkTold, ReturnTold, Succeeded
      <3>2. CASE i # Len(walk[r].kids)
        <4>1. i < Len(walk[r].kids) /\ i \in Items(r)
          BY <1>3, <3>2 DEF Items
        <4> QED
          BY <1>1, <2>1, <4>1 DEF WalkInv, WalkTold, KidsTold
      <3> QED
        BY <3>1, <3>2
    <2> QED
      BY <2>2 DEF Succeeded, Settles
  <1>5. Nodes(r)' = Nodes(r)
    BY DEF SameLineage, Nodes
  <1> QED
    BY <1>1, <1>2, <1>3, <1>4, <1>5 DEF NodeDone, Succeeded

\* The items of a map have all succeeded, and are merged in order.
LEMMA MapDone ==
    ASSUME TypeInv, FamilyInv, RecordsTyped, LineInv, WalkInv, Runs \subseteq Runs',
           NEW r \in Runs, SameLineage(r), NEW n, n = walk[r].node, MapSucceeds(r)
    PROVE  NodeDone(r, n)'
  <1>0. WalkTold(r)
    BY DEF WalkInv
  <1>w. /\ walk[r].kids \in Seq(Nat) /\ Runs = 1..Len(runs)
    BY RunAndWalk DEF TypeInv, Walks
  <1>1. /\ Active(r) /\ n <= Len(Nodes(r)) /\ Nodes(r)[n].type = "map" /\ At(r) = Nodes(r)[n]
        /\ walk[r].pc = "merge" /\ walk[r].merged = Len(walk[r].kids)
        /\ done' = [done EXCEPT ![r][walk[r].node] = walk[r].kids]
        /\ rows' = [rows EXCEPT ![r][walk[r].node] = "SUCCEEDED"]
        /\ UNCHANGED <<runs, content>>
    BY DEF MapSucceeds, Succeed, Is, Type, At, Active
  <1>2. done'[r][n] = walk[r].kids /\ rows'[r][n] = "SUCCEEDED"
    BY <1>1, Evidence
  <1> DEFINE kids == walk[r].kids
  <1>3. DOMAIN kids = 1..Nodes(r)[n].items /\ DOMAIN kids = 1..Len(kids) /\ DOMAIN kids = Items(r)
    BY <1>0, <1>1, <1>w DEF WalkTold, PoolWhole, Items
  <1>4. ASSUME NEW i \in DOMAIN kids
        PROVE  /\ Succeeded(kids[i]) /\ runs[kids[i]].index = i /\ runs[kids[i]].parent = r
               /\ content[kids[i]] \in Seq(Pairs)
    <2>1. i \in Items(r) /\ walk[r].results[i] = "SUCCEEDED"
      BY <1>0, <1>1, <1>3 DEF WalkTold, MergedInOrder
    <2>2. Succeeded(kids[i])
      BY <1>0, <1>1, <2>1 DEF WalkTold, KidsTold
    <2>3. kids[i] # 0 /\ kids[i] \in Runs
      BY <1>w, <2>2 DEF Succeeded
    <2>4. runs[kids[i]].index = i
      BY <1>0, <1>1, <2>1, <2>3 DEF WalkTold, KidsTold
    <2> QED
      BY <2>1, <2>2, <2>3, <2>4, RecordsOf DEF FamilyInv, TypeInv
  <1>5. walk[r].ws \in Runs /\ walk[r].ws \in BranchOf(r, kids)
    <2>1. \A c \in Range(kids) : c \in Runs /\ runs[c].parent = r
      BY <1>4 DEF Range, Succeeded
    <2> QED
      BY <1>1, <2>1, TreeOfWalk
  <1> DEFINE s == [i \in DOMAIN kids |-> content[kids[i]]]
  <1>6. s = Brought(kids, walk[r].merged) /\ s \in Seq(Seq(Pairs))
    <2>1. s = Brought(kids, walk[r].merged)
      BY <1>1, <1>3 DEF Brought
    <2>2. Len(kids) \in Nat /\ DOMAIN kids = 1..Len(kids)
      BY <1>3, <1>w
    <2>3. \A i \in DOMAIN kids : content[kids[i]] \in Seq(Pairs)
      BY <1>4
    <2> HIDE DEF kids
    <2>4. s \in Seq(Seq(Pairs))
      BY <2>2, <2>3
    <2> QED
      BY <2>1, <2>4
  <1>7. EndsWith(content[walk[r].ws], FlattenSeq(s))
    BY <1>0, <1>1, <1>6 DEF WalkTold, MergedInOrder
  <1>8. Part(FlattenSeq(s), content[walk[r].ws])
    <2>1. content[walk[r].ws] \in Seq(Pairs)
      BY <1>5, RecordsOf DEF TypeInv
    <2> HIDE DEF s
    <2>2. FlattenSeq(s) \in Seq(Pairs)
      BY <1>6, FlattenTyped
    <2> QED
      BY <1>7, <2>1, <2>2, EndIsPart
  <1>9. /\ Nodes(r)' = Nodes(r) /\ runs' = runs /\ content' = content /\ Runs' = Runs
    BY <1>1 DEF Nodes, Runs
  <1>10. PICK ks : ks = kids /\ ks = done'[r][n]
    BY <1>2
  <1>k. /\ DOMAIN ks = 1..Nodes(r)[n].items
        /\ \A i \in DOMAIN ks : Succeeded(ks[i]) /\ runs[ks[i]].index = i
    BY <1>3, <1>4, <1>10
  <1> HIDE DEF kids
  <1>11. \E b \in BranchOf(r, ks)' :
            Part(FlattenSeq([i \in DOMAIN ks |-> content'[ks[i]]]), content'[b])
    BY <1>5, <1>8, <1>9, <1>10 DEF BranchOf
  <1>12. /\ \A c \in Range(ks) : c \in Runs' /\ runs'[c].status = "SUCCEEDED"
         /\ DOMAIN ks = 1..Nodes(r)[n].items
         /\ \A i \in DOMAIN ks : runs'[ks[i]].index = i
    BY <1>9, <1>k DEF Range, Succeeded
  <1> QED
    BY <1>1, <1>2, <1>9, <1>10, <1>11, <1>12 DEF NodeDone, Succeeded, BranchOf

\* A gate that answers, a handoff that the file ends.
LEMMA OtherDone ==
    ASSUME TypeInv, RecordsTyped, NEW r \in Runs, SameLineage(r), NEW n, n = walk[r].node,
           StatusSaysDone(r) \/ \E seen \in Sights : GateAnswers(r, seen) /\ Advances(r)
    PROVE  NodeDone(r, n)'
  <1>1. Nodes(r)' = Nodes(r)
    BY DEF SameLineage, Nodes
  <1>2. CASE StatusSaysDone(r)
    <2>1. /\ Active(r) /\ n <= Len(Nodes(r)) /\ Nodes(r)[n].type = "handoff"
          /\ done' = [done EXCEPT ![r][walk[r].node] = <<Hop(r)>>]
      BY <1>2 DEF StatusSaysDone, Is, Type, At, Active
    <2>2. done'[r][n] = <<Hop(r)>>
      BY <2>1, Evidence
    <2>3. done'[r][n] # <<>>
      BY <2>2
    <2> QED
      BY <1>1, <2>1, <2>3 DEF NodeDone
  <1>3. ASSUME NEW seen \in Sights, GateAnswers(r, seen), Advances(r)
        PROVE  NodeDone(r, n)'
    <2>1. Active(r) /\ n <= Len(Nodes(r)) /\ Nodes(r)[n].type = "gate"
      BY <1>3 DEF GateAnswers, Is, Type, At, Active
    <2>2. \/ rows' = [rows EXCEPT ![r][walk[r].node] = "SUCCEEDED"]
          \/ Fail(r)
      BY <1>3 DEF GateAnswers, Succeed
    <2>3. ~Fail(r)
      <3>1. r \in DOMAIN walk
        BY RunAndWalk DEF TypeInv
      <3>2. Fail(r) => walk'[r].pc = "return"
        BY <3>1, FreshWalks DEF Fail
      <3>3. walk'[r].pc = "visit"
        BY <1>3, FreshWalks DEF Advances
      <3> QED
        BY <3>2, <3>3
    <2>4. rows'[r][n] = "SUCCEEDED"
      BY <2>1, <2>2, <2>3, Evidence
    <2> QED
      BY <1>1, <2>1, <2>4 DEF NodeDone
  <1> QED
    BY <1>2, <1>3

\* The node of a walk that may still write its row has not been passed.
LEMMA OpenIsAhead ==
    ASSUME TypeInv, StatusInv, NEW r \in Runs, Open(r)
    PROVE  ~Passed(r, walk[r].node)
  <1>1. runs[r].status # "SUCCEEDED"
    BY DEF Open, Active, StatusInv
  <1>2. ~(walk[r].node < walk[r].node)
    <2>1. walk[r] \in Walks
      BY RunAndWalk DEF TypeInv
    <2> QED
      BY <2>1 DEF Walks
  <1> QED
    BY <1>1, <1>2 DEF Open, Passed, Row, Type, At

\* What a step may pass is the node it advances from.
LEMMA NewlyPassed ==
    ASSUME TypeInv, FamilyInv, StatusInv, RecordsTyped, LineInv, WalkInv,
           NEW r \in Runs, WalkStep(r), Frame(r),
           NEW n \in DOMAIN Nodes(r), Passed(r, n)', ~Passed(r, n)
    PROVE  Completes(r) /\ Advances(r) /\ n = walk[r].node
  <1>0. WalkTold(r)
    BY DEF WalkInv
  <1>t. /\ walk[r] \in Walks /\ n \in Nat /\ n <= Len(Nodes(r)) /\ Len(Nodes(r)) \in Nat
        /\ DOMAIN rows = Runs /\ DOMAIN rows[r] = 1..Len(Nodes(r)) /\ n \in DOMAIN rows[r]
    BY RunAndWalk, NodesOf, RecordsOf DEF TypeInv
  <1>n. Nodes(r)' = Nodes(r)
    BY DEF Frame, SameLineage, Nodes
  <1>p. \/ runs'[r].status = "SUCCEEDED"
        \/ Active(r)' /\ n < walk'[r].node
        \/ Nodes(r)[n].type \notin {"loop", "handoff"} /\ rows'[r][n] = "SUCCEEDED"
    BY <1>n DEF Passed
  <1>q. /\ runs[r].status # "SUCCEEDED"
        /\ ~(Active(r) /\ n < walk[r].node)
        /\ ~(Nodes(r)[n].type \notin {"loop", "handoff"} /\ rows[r][n] = "SUCCEEDED")
    BY DEF Passed
  <1>a. ASSUME Active(r)', ~(Completes(r) /\ Advances(r))
        PROVE  ~(n < walk'[r].node)
    BY <1>0, <1>a, <1>q, StaysInTree
  <1>s. ASSUME runs'[r] = runs[r], rows'[r] = rows[r], ~(Completes(r) /\ Advances(r))
        PROVE  FALSE
    BY <1>p, <1>q, <1>a, <1>s
  <1>1. CASE Completes(r) /\ Advances(r)
    <2>1. /\ Active(r) /\ walk'[r] = Advanced(walk[r]) /\ runs' = runs
          /\ rows' \in {rows, [rows EXCEPT ![r][walk[r].node] = "SUCCEEDED"]}
      BY <1>1 DEF Advances
    <2>2. walk'[r].node = walk[r].node + 1
      BY <2>1 DEF Advanced, NoWalk
    <2>3. CASE n < walk'[r].node
      <3>1. walk[r].node \in Nat /\ ~(n < walk[r].node)
        BY <1>t, <1>q, <2>1 DEF Walks
      <3> QED
        BY <1>t, <1>1, <2>2, <2>3, <3>1
    <2>4. CASE rows'[r][n] = "SUCCEEDED" /\ rows[r][n] # "SUCCEEDED"
      BY <1>1, <1>t, <2>1, <2>4
    <2> QED
      BY <1>p, <1>q, <2>1, <2>3, <2>4
  <1>2. CASE Ends(r)
    <2>1. PICK s \in RunStatuses :
              /\ walk'[r] = Returned(walk[r], s) /\ runs'[r].status = s
              /\ s = "SUCCEEDED" => walk[r].node > Len(Nodes(r))
      BY <1>2 DEF Ends
    <2>2. Active(r) /\ rows' \in {rows, [rows EXCEPT ![r][walk[r].node] = "FAILED"]}
      BY <1>2 DEF Ends
    <2>3. ~Active(r)'
      BY <2>1, FreshWalks DEF Active
    <2>4. rows'[r][n] = "SUCCEEDED" => rows[r][n] = "SUCCEEDED"
      BY <1>t, <2>2
    <2>5. runs'[r].status # "SUCCEEDED"
      <3>1. walk[r].node > Len(Nodes(r)) => n < walk[r].node
        BY <1>t DEF Walks
      <3> QED
        BY <1>q, <2>1, <2>2, <3>1
    <2> QED
      BY <1>p, <1>q, <2>3, <2>4, <2>5
  <1>3. CASE Proceeds(r)
    <2>1. /\ runs' = runs /\ walk'[r].node = walk[r].node /\ Active(r)
          /\ rows' \in {rows, [rows EXCEPT ![r][walk[r].node] = "RUNNING"]}
      BY <1>3 DEF Proceeds, Active
    <2>2. rows'[r][n] = "SUCCEEDED" => rows[r][n] = "SUCCEEDED"
      BY <1>t, <2>1
    <2> QED
      BY <1>p, <1>q, <2>1, <2>2
  <1>4. CASE Within(r) \/ Close(r)
    <2>1. runs' = runs /\ rows' = rows
      BY <1>0, <1>4, WithinKinds, CloseKind
    <2> QED
      BY <1>1, <1>s, <2>1
  <1>5. CASE Adds(r) /\ Begets(r)
    BY <1>1, <1>s, <1>5, AddsFrame
  <1> QED
    BY <1>0, <1>1, <1>2, <1>3, <1>4, <1>5, StepKinds

\* The node a step passes is done.
LEMMA PassedIsDone ==
    ASSUME TypeInv, FamilyInv, StatusInv, RecordsTyped, LineInv, WalkInv, Settles,
           NEW r \in Runs, Frame(r), NEW n, n = walk[r].node,
           Completes(r), Advances(r), ~Passed(r, n), n \in DOMAIN Nodes(r)
    PROVE  NodeDone(r, n)'
  <1>f. Runs \subseteq Runs' /\ SameLineage(r)
    BY DEF Frame
  <1>1. CASE Cached(r)
    BY <1>1 DEF Cached, Passed, Type, At, Row
  <1>2. ASSUME NEW more \in BOOLEAN, AgentWorks(r, more)
        PROVE  NodeDone(r, n)'
    BY <1>2, <1>f, AgentDone
  <1>3. CASE \E seen \in Sights : GateAnswers(r, seen)
    BY <1>3, <1>f, OtherDone
  <1>4. CASE SubworkflowReturns(r) \/ (IterationReturns(r) /\ ~Continues(Child(r)))
    BY <1>4, <1>f, CallDone
  <1>5. CASE MapSucceeds(r)
    BY <1>5, <1>f, MapDone
  <1>6. CASE StatusSaysDone(r)
    BY <1>6, <1>f, OtherDone
  <1> QED
    BY <1>1, <1>2, <1>3, <1>4, <1>5, <1>6 DEF Completes

\* What is known of the nodes that are passed stays, and holds of the node a
\* step passes.
LEMMA EvidenceKept ==
    ASSUME TypeInv, FamilyInv, TokenInv, StatusInv, RecordsTyped, LineInv, WalkInv, EvidenceInv,
           [Next]_vars
    PROVE  EvidenceInv'
  <1>1. ASSUME NEW r \in Runs, WalkStep(r)
        PROVE  EvidenceInv'
    <2>0. Frame(r) /\ Settles /\ OthersWait(r)
      BY <1>1, StepOf
    <2>f. Runs \subseteq Runs' /\ \A p \in Runs : SameLineage(p)
      BY <2>0 DEF Frame
    <2>1. ASSUME NEW q \in Runs, NEW n \in DOMAIN Nodes(q), Passed(q, n)'
          PROVE  NodeDone(q, n)'
      <3>1. CASE q # r
        <4>1. /\ runs'[q] = runs[q] /\ rows'[q] = rows[q] /\ done'[q] = done[q]
              /\ walk'[q] = walk[q] \/ walk'[q] = NoWalk
          BY <2>0, <3>1 DEF Frame, OthersWait
        <4>2. Nodes(q)' = Nodes(q)
          BY <2>f DEF SameLineage, Nodes
        <4>3. Passed(q, n)
          BY <2>1, <4>1, <4>2, FreshWalks DEF Passed, Active
        <4>4. NodeDone(q, n)
          BY <4>3 DEF EvidenceInv
        <4> QED
          BY <2>0, <2>f, <4>1, <4>4, DoneStays
      <3>2. CASE q = r /\ Passed(r, n)
        <4>1. n # walk[r].node \/ ~Open(r)
          BY <3>2, OpenIsAhead
        <4>2. rows'[r][n] = rows[r][n] /\ done'[r][n] = done[r][n]
          BY <2>0, <4>1 DEF Frame
        <4>3. NodeDone(r, n)
          BY <2>1, <3>2 DEF EvidenceInv
        <4> QED
          BY <2>0, <2>1, <2>f, <3>2, <4>2, <4>3, DoneStays
      <3>3. CASE q = r /\ ~Passed(r, n)
        <4>1. Completes(r) /\ Advances(r) /\ n = walk[r].node
          BY <1>1, <2>0, <2>1, <3>3, NewlyPassed
        <4> QED
          BY <2>0, <2>1, <3>3, <4>1, PassedIsDone
      <3> QED
        BY <3>1, <3>2, <3>3
    <2>2. ASSUME NEW q \in Runs' \ Runs, NEW n \in DOMAIN Nodes(q)'
          PROVE  ~Passed(q, n)'
      <3>1. WalkTold(r)
        BY DEF WalkInv
      <3>2. Adds(r) /\ q = NextRun
        BY <1>1, <2>2, <3>1, StepKinds, WritesFrame, AddsFrame
      <3>3. walk'[q] = NoWalk \/ \E ws : walk'[q] = BeginIn(ws)
        BY <3>2 DEF Adds
      <3>4. walk'[q].pc = "none" \/ walk'[q].node = 1
        <4>1. \A ws : BeginIn(ws).node = 1
          BY DEF BeginIn, NoWalk
        <4> QED
          BY <3>3, <4>1, FreshWalks
      <3>5. TypeInv' /\ RecordsTyped'
        BY <1>1, TypeKept, LineKept DEF Next, Engine
      <3>6. n \in 1..Len(rows'[q]) /\ ~(n < 1)
        <4>1. WalksTyped'
          BY <3>5 DEF TypeInv
        <4>2. (DOMAIN Nodes(q))' = 1..Len(Nodes(q)') /\ Len(Nodes(q)') \in Nat
          <5>1. runs'[q].wf \in DOMAIN Workflows
            <6>1. runs' \in Seq(RunRows) /\ q \in DOMAIN runs'
              BY <2>2, <4>1 DEF WalksTyped, Runs
            <6>2. runs'[q] \in RunRows
              BY <6>1
            <6> QED
              BY <6>2 DEF RunRows
          <5> QED
            BY <5>1, CompositeAssumption DEF Nodes
        <4>3. Len(rows'[q]) = Len(Nodes(q)')
          BY <2>2, <3>5 DEF RecordsTyped
        <4> QED
          BY <2>2, <4>2, <4>3
      <3>7. runs'[q].status = "RUNNING" /\ rows'[q][n] = "absent"
        BY <2>0, <2>2, <3>6 DEF Frame
      <3> QED
        BY <3>4, <3>6, <3>7 DEF Passed, Active
    <2>3. \A q \in Runs : (DOMAIN Nodes(q))' = DOMAIN Nodes(q)
      BY <2>f DEF SameLineage, Nodes
    <2> QED
      BY <2>1, <2>2, <2>3 DEF EvidenceInv
  <1>2. ASSUME Settles, Runs' = Runs, \A p \in Runs : SameLineage(p),
               UNCHANGED <<rows, done>>,
               \A q \in Runs : /\ runs'[q].status = "SUCCEEDED" => runs[q].status = "SUCCEEDED"
                               /\ walk'[q] = walk[q] \/ walk'[q] = NoWalk \/ walk'[q].node = 1
        PROVE  EvidenceInv'
    <2>1. ASSUME NEW q \in Runs, NEW n \in DOMAIN Nodes(q), Passed(q, n)'
          PROVE  NodeDone(q, n)'
      <3>1. Nodes(q)' = Nodes(q)
        BY <1>2 DEF SameLineage, Nodes
      <3>2. ~(n < 1)
        BY NodesOf DEF TypeInv
      <3>3. Passed(q, n)
        BY <1>2, <2>1, <3>1, <3>2, FreshWalks DEF Passed, Active
      <3>4. NodeDone(q, n)
        BY <3>3 DEF EvidenceInv
      <3> QED
        BY <1>2, <3>4, DoneStays
    <2>2. \A q \in Runs : (DOMAIN Nodes(q))' = DOMAIN Nodes(q)
      BY <1>2 DEF SameLineage, Nodes
    <2> QED
      BY <1>2, <2>1, <2>2 DEF EvidenceInv
  <1>3. CASE Crash
    <2>1. /\ Runs' = Runs /\ runs' = runs /\ \A q \in Runs : walk'[q] = NoWalk
          /\ UNCHANGED <<rows, done, content>>
      BY <1>3, CrashBy DEF Crash, db, git
    <2>2. Settles
      BY <2>1, RestSettles
    <2> QED
      BY <1>2, <2>1, <2>2 DEF SameLineage
  <1>4. CASE ScanNext
    <2>1. PICK s \in scan : /\ runs' = [runs EXCEPT ![s].status = "RUNNING"]
                            /\ walk' = [walk EXCEPT ![s] = BeginIn(s)]
                            /\ UNCHANGED <<rows, done, content>>
      BY <1>4 DEF ScanNext, git
    <2>2. Runs' = Runs /\ \A q \in Runs : SameLineage(q)
      BY <1>4, ScanBy
    <2>3. /\ s \in Runs /\ runs[s].status \notin TerminalRunStatuses /\ runs[s] \in RunRows
          /\ DOMAIN runs = Runs /\ DOMAIN walk = Runs
      BY RunAndWalk DEF TypeInv, StatusInv, Runs
    <2>4. /\ runs'[s].status = "RUNNING" /\ \A q \in Runs \ {s} : runs'[q] = runs[q]
      BY <2>1, <2>3 DEF RunRows
    <2>5. Settles
      BY <2>1, <2>3, <2>4, RestSettles DEF TerminalRunStatuses
    <2>6. \A q \in Runs : walk'[q] = walk[q] \/ walk'[q].node = 1
      <3>1. BeginIn(s).node = 1
        BY DEF BeginIn, NoWalk
      <3> QED
        BY <2>1, <2>3, <3>1
    <2> QED
      BY <1>2, <2>1, <2>2, <2>4, <2>5, <2>6
  <1>5. CASE StartScan \/ ScanRaises \/ UNCHANGED vars
    <2>1. UNCHANGED <<runs, rows, content, walk, done>>
      BY <1>5 DEF StartScan, ScanRaises, vars, db, git
    <2>2. Runs' = Runs /\ \A p \in Runs : SameLineage(p)
      BY <2>1 DEF Runs, SameLineage
    <2>3. Settles
      BY <2>1, RestSettles
    <2> QED
      BY <1>2, <2>1, <2>2, <2>3
  <1> QED
    BY <1>1, <1>3, <1>4, <1>5 DEF Next, Engine

-----------------------------------------------------------------------------
(* A run that reports SUCCEEDED                                             *)

EvidencedInv == CompositeInv /\ RecordsTyped /\ LineInv /\ WalkInv /\ EvidenceInv

\* A process begins with one run that has passed nothing.
LEMMA EvidencedInit ==
    ASSUME Init
    PROVE  EvidencedInv
  <1>1. PICK w \in Tops :
           /\ runs = <<NewRow(w, 0, 0)>> /\ rows = <<NoRows(w)>> /\ content = <<<<>>>>
           /\ walk = <<BeginIn(1)>>
    BY DEF Init
  <1>2. CompositeInv
    BY CompositeInit
  <1>w. w \in DOMAIN Workflows /\ Workflows[w] \in Seq(Range(Workflows[w]))
    BY CompositeAssumption
  <1>3. /\ Runs = {1} /\ runs[1] = NewRow(w, 0, 0) /\ walk[1] = BeginIn(1) /\ Len(runs) = 1
        /\ rows[1] = NoRows(w)
    BY <1>1 DEF Runs
  <1>4. /\ Nodes(1) = Workflows[w] /\ runs[1].parent = 0 /\ runs[1].status = "RUNNING"
    BY <1>3 DEF Nodes, NewRow
  <1>5. BeginIn(1).pc = "visit" /\ BeginIn(1).node = 1 /\ BeginIn(1).ws = 1
    BY DEF BeginIn, NoWalk
  <1>6. /\ NoRows(w) \in Seq(RowStatuses) /\ Len(NoRows(w)) = Len(Workflows[w])
        /\ \A m \in DOMAIN Workflows[w] : NoRows(w)[m] = "absent" /\ ~(m < 1)
    BY <1>w DEF NoRows, RowStatuses
  <1>7. RecordsTyped
    <2>1. rows \in Seq(Seq(RowStatuses)) /\ Len(rows) = 1
      <3> DEFINE x == NoRows(w)
      <3>1. x \in Seq(RowStatuses) /\ rows = <<x>>
        BY <1>1, <1>6
      <3> HIDE DEF x
      <3> QED
        BY <3>1
    <2>2. content \in Seq(Seq(Pairs)) /\ Len(content) = 1
      <3> DEFINE x == <<>>
      <3>1. x \in Seq(Pairs) /\ content = <<x>>
        BY <1>1
      <3> HIDE DEF x
      <3> QED
        BY <3>1
    <2> QED
      BY <1>3, <1>4, <1>6, <2>1, <2>2 DEF RecordsTyped
  <1>8. LineInv
    BY <1>3, <1>4, <1>5 DEF LineInv
  <1>9. WalkInv
    <2>1. Items(1) = {}
      BY <1>3, FreshWalks DEF Items
    <2>2. WalkTold(1)
      BY <1>3, <2>1, FreshWalks
      DEF WalkTold, RowOpen, ReturnTold, KidsTold, PoolWhole, MergedInOrder, Is
    <2> QED
      BY <1>3, <2>2 DEF WalkInv
  <1>10. EvidenceInv
    BY <1>3, <1>4, <1>5, <1>6 DEF EvidenceInv, Passed
  <1> QED
    BY <1>2, <1>7, <1>8, <1>9, <1>10 DEF EvidencedInv

\* In every reachable state: the worktree each walk works in, what it has found
\* out of its children, and the evidence of each node that has been passed.
THEOREM EvidencedInvariant == Spec => []EvidencedInv
  <1>1. Init => EvidencedInv
    BY EvidencedInit
  <1>2. CompositeInv' /\ EvidencedInv /\ [Next]_vars => EvidencedInv'
    <2> SUFFICES ASSUME CompositeInv', EvidencedInv, [Next]_vars
                 PROVE  EvidencedInv'
      OBVIOUS
    <2>1. /\ TypeInv /\ FamilyInv /\ TokenInv /\ StatusInv
          /\ RecordsTyped /\ LineInv /\ WalkInv /\ EvidenceInv
      BY DEF EvidencedInv, CompositeInv
    <2>2. RecordsTyped' /\ LineInv'
      BY <2>1, LineKept
    <2>3. WalkInv'
      BY <2>1, WalkKept
    <2>4. EvidenceInv'
      BY <2>1, EvidenceKept
    <2> QED
      BY <2>2, <2>3, <2>4 DEF EvidencedInv
  <1> QED
    BY <1>1, <1>2, CompositeInvariant, PTL DEF Spec

\* Whatever the workflows, their nesting, failures, crashes and resumes, a run
\* that reports SUCCEEDED has done what its nodes say (subworkflow.py,
\* map_node.py, loop_node.py, handoff.py).
THEOREM SucceededIsDone == Spec => []SucceededRunDidItAll
  <1>1. EvidencedInv => SucceededRunDidItAll
    <2> SUFFICES ASSUME EvidencedInv
                 PROVE  SucceededRunDidItAll
      OBVIOUS
    <2>1. ASSUME NEW r \in Runs, runs[r].status = "SUCCEEDED", NEW n \in DOMAIN Nodes(r)
          PROVE  NodeDone(r, n)
      BY <2>1 DEF EvidencedInv, EvidenceInv, Passed
    <2> QED
      BY <2>1 DEF SucceededRunDidItAll, NodeDone, Succeeded
  <1> QED
    BY <1>1, EvidencedInvariant, PTL
=============================================================================
