---------------------------- MODULE CompositeNodes ----------------------------
(***************************************************************************)
(* Runs that start runs: the nodes subworkflow, map, loop and handoff       *)
(* (workflow/subworkflow.py, map_node.py, loop_node.py, handoff.py) and     *)
(* what ops/run_execution.py gives them: children in the parent's worktree, *)
(* map items in worktrees of their own under one lock, one executor for     *)
(* all gates.  Agents and gates are the simple nodes here; their durable    *)
(* steps are DurableRun's, so a simple step is two actions: it is started   *)
(* (row RUNNING, event written) and it ends.                                *)
(*                                                                         *)
(* A process starts run 1, may die, and may be followed by processes that   *)
(* resume whatever is not terminal (op_run_resume).  Every run has a walk   *)
(* of its own: a caller waits for its child, map items run in a pool.       *)
(***************************************************************************)
EXTENDS Verdicts, Naturals, Sequences, FiniteSets, SequencesExt

CONSTANTS
    Workflows,      \* name -> sequence of node records
    Tops,           \* the workflows run 1 may be of
    FileAtStart,    \* is there a handoff status file in the repository:
                    \* a subset of {"absent", "more", "done"}
    MaxCrashes,
    MaxScans

ASSUME CompositeAssumption ==
    /\ Tops \subseteq DOMAIN Workflows
    /\ MaxCrashes \in Nat
    /\ MaxScans \in Nat
    \* Definitions are validated before they run.
    /\ \A w \in DOMAIN Workflows :
         /\ Workflows[w] \in Seq(Range(Workflows[w]))
         /\ \A n \in DOMAIN Workflows[w] :
              /\ Workflows[w][n].type \in {"subworkflow", "loop", "map"} =>
                     Workflows[w][n].ref \in DOMAIN Workflows
              /\ Workflows[w][n].type = "map" => Workflows[w][n].items \in Nat

VARIABLES
    runs,       \* runs rows, by order of creation: [wf, parent, index, status]
    rows,       \* steps rows: run -> node -> status
    hops,       \* steps rows of the hops of a handoff: run -> hop -> status
    \* git
    trees,      \* runs whose worktree and branch exist
    content,    \* run -> what its branch has been given, in order: nodes and
                \* merged items
    file,       \* run -> the handoff status file in its worktree
    \* processes
    walk,       \* run -> the walk of the run (NoWalk when nobody walks it)
    locked,     \* does somebody hold _MAP_ITEM_DB_LOCK?
    scan,       \* runs a resume has still to visit
    \* history and bounds
    done,       \* run -> node -> what its success rests on
    crashes,
    scans

vars == <<runs, rows, hops, trees, content, file, walk, locked, scan, done,
          crashes, scans>>
git == <<trees, content, file>>
db == <<runs, rows, hops>>
bounds == <<crashes, scans>>

-----------------------------------------------------------------------------
(* Data *)

Runs == DOMAIN runs
TerminalRunStatuses == {"SUCCEEDED", "FAILED"}
Nodes(r) == Workflows[runs[r].wf]

\* pc: where the walk stands; node: the node it is at; ws: the run whose
\* worktree it works in; kids: the children of the node at hand, by item or
\* iteration; results: what they returned; merged: how many are merged.
NoWalk == [pc |-> "none", node |-> 0, ws |-> 0, kids |-> <<>>, results |-> <<>>,
           merged |-> 0, hop |-> 0, result |-> "none"]

At(r) == Nodes(r)[walk[r].node]
Type(r) == At(r).type
Is(r, pc, type) == /\ walk[r].pc = pc /\ walk[r].node <= Len(Nodes(r))
                   /\ Type(r) = type
Row(r) == rows[r][walk[r].node]

\* A run is walked in its parent's worktree, or, as a map item, a run of its
\* own or a resumed run, in the one of its own name.
BeginIn(ws) == [NoWalk EXCEPT !.pc = "visit", !.node = 1, !.ws = ws]

NewRow(wf, parent, index) ==
    [wf |-> wf, parent |-> parent, index |-> index, status |-> "RUNNING"]
NoRows(wf) == [i \in 1..Len(Workflows[wf]) |-> "absent"]

\* create_run and the walk's first UPDATE; `next` is the id the run gets.
Create(wf, parent, index, start) ==
    /\ runs' = Append(runs, NewRow(wf, parent, index))
    /\ rows' = Append(rows, NoRows(wf))
    /\ hops' = Append(hops, <<>>)
    /\ content' = Append(content, <<>>)
    /\ done' = Append(done, [i \in 1..Len(Workflows[wf]) |-> <<>>])
    /\ walk' = Append(start, BeginIn(IF index > 0 THEN Len(runs) + 1
                                     ELSE start[parent].ws))

NextRun == Len(runs) + 1

Init ==
    \E w \in Tops, f \in FileAtStart :
        /\ runs = <<NewRow(w, 0, 0)>>
        /\ rows = <<NoRows(w)>>
        /\ hops = <<<<>>>>
        /\ trees = {1}
        /\ content = <<<<>>>>
        /\ file = <<f>>
        /\ walk = <<BeginIn(1)>>
        /\ locked = FALSE
        /\ scan = {}
        /\ done = <<[i \in 1..Len(Workflows[w]) |-> <<>>]>>
        /\ crashes = 0
        /\ scans = 0

-----------------------------------------------------------------------------
(* The walk of a run *)

Go(r, pc) == walk' = [walk EXCEPT ![r].pc = pc]

\* The node has succeeded: its row, and the node after it.
Advanced(w) == [NoWalk EXCEPT !.pc = "visit", !.node = w.node + 1, !.ws = w.ws]
Succeed(r, evidence) ==
    /\ rows' = [rows EXCEPT ![r][walk[r].node] = "SUCCEEDED"]
    /\ done' = [done EXCEPT ![r][walk[r].node] = evidence]
    /\ walk' = [walk EXCEPT ![r] = Advanced(@)]

\* The node raises: its row, then _mark_run_failed.
Returned(w, result) == [NoWalk EXCEPT !.pc = "return", !.ws = w.ws, !.result = result]
Fail(r) ==
    /\ rows' = [rows EXCEPT ![r][walk[r].node] = "FAILED"]
    /\ runs' = [runs EXCEPT ![r].status = "FAILED"]
    /\ walk' = [walk EXCEPT ![r] = Returned(@, "FAILED")]

\* run_step, for the types that have a step of their own.
Cached(r) ==
    /\ walk[r].pc = "visit" /\ walk[r].node <= Len(Nodes(r))
    /\ Type(r) \notin {"loop", "handoff"}
    /\ Row(r) = "SUCCEEDED"
    /\ walk' = [walk EXCEPT ![r] = Advanced(@)]
    /\ UNCHANGED <<db, git, locked, scan, done, bounds>>

StartStep(r) ==
    /\ walk[r].pc = "visit" /\ walk[r].node <= Len(Nodes(r))
    /\ Type(r) \notin {"loop", "handoff"}
    /\ Row(r) # "SUCCEEDED"
    /\ rows' = [rows EXCEPT ![r][walk[r].node] = "RUNNING"]
    /\ Go(r, "exec")
    /\ UNCHANGED <<runs, hops, git, locked, scan, done, bounds>>

\* An agent commits its work to the branch, and may decide that a loop around
\* its run goes on; without a worktree it cannot start.
AgentWorks(r, more) ==
    /\ Is(r, "exec", "agent")
    /\ walk[r].ws \in trees
    /\ content' = [content EXCEPT ![walk[r].ws] = Append(@, <<r, walk[r].node>>)]
    /\ Succeed(r, <<more>>)
    /\ UNCHANGED <<runs, hops, trees, file, locked, scan, bounds>>

AgentFails(r) ==
    /\ Is(r, "exec", "agent")
    /\ Fail(r)
    /\ UNCHANGED <<hops, git, locked, scan, done, bounds>>

\* A gate is answered by the executor built for the last gate, with its check,
\* tier and reviews; no repair is left.
GateAnswers(r, seen) ==
    /\ Is(r, "exec", "gate")
    /\ LET g == RegisteredGate(Nodes(r))
           tier == EffectiveTier(Nodes(r), g)
           findings == FindingsOf(Nodes(r)[g], tier, seen)
       IN  IF VerdictPasses(findings)
           THEN /\ Succeed(r, <<g, tier>>)
                /\ UNCHANGED <<runs>>
           ELSE Fail(r) /\ UNCHANGED done
    /\ UNCHANGED <<hops, git, locked, scan, bounds>>

EndOfWalk(r) ==
    /\ walk[r].pc = "visit" /\ walk[r].node > Len(Nodes(r))
    /\ runs' = [runs EXCEPT ![r].status = "SUCCEEDED"]
    /\ walk' = [walk EXCEPT ![r] = Returned(@, "SUCCEEDED")]
    /\ UNCHANGED <<rows, hops, git, locked, scan, done, bounds>>

-----------------------------------------------------------------------------
(* subworkflow, loop: one child at a time, in the same worktree *)

StartSubworkflow(r) ==
    /\ Is(r, "exec", "subworkflow")
    /\ Create(At(r).ref, r, 0,
              [walk EXCEPT ![r].pc = "wait", ![r].kids = <<NextRun>>])
    /\ file' = Append(file, "absent")
    /\ UNCHANGED <<trees, locked, scan, bounds>>

\* A loop has no step: a walk that comes to it again starts it again.
StartLoop(r) ==
    /\ Is(r, "visit", "loop")
    /\ Len(walk[r].kids) < At(r).max
    /\ Create(At(r).ref, r, 0,
              [walk EXCEPT ![r].pc = "wait", ![r].kids = Append(@, NextRun)])
    /\ file' = Append(file, "absent")
    /\ UNCHANGED <<trees, locked, scan, bounds>>

\* The child of the node at hand has returned.
Child(r) == Last(walk[r].kids)
ChildReturns(r, type, result) ==
    /\ Is(r, "wait", type)
    /\ walk[Child(r)].pc = "return"
    /\ walk[Child(r)].result = result

Closed(r) == [walk EXCEPT ![Child(r)] = NoWalk]

\* Mutant: a child that waits is taken for one that is done.
SubworkflowReturnsUnlessFailed(r) ==
    \E result \in {"SUCCEEDED", "WAITING_INPUT"} :
        /\ ChildReturns(r, "subworkflow", result)
        /\ rows' = [rows EXCEPT ![r][walk[r].node] = "SUCCEEDED"]
        /\ done' = [done EXCEPT ![r][walk[r].node] = walk[r].kids]
        /\ walk' = [Closed(r) EXCEPT ![r] = Advanced(@)]
        /\ UNCHANGED <<runs, hops, git, locked, scan, bounds>>

SubworkflowReturns(r) ==
    /\ ChildReturns(r, "subworkflow", "SUCCEEDED")
    /\ rows' = [rows EXCEPT ![r][walk[r].node] = "SUCCEEDED"]
    /\ done' = [done EXCEPT ![r][walk[r].node] = walk[r].kids]
    /\ walk' = [Closed(r) EXCEPT ![r] = Advanced(@)]
    /\ UNCHANGED <<runs, hops, git, locked, scan, bounds>>

\* A child that failed, or that waits for somebody, fails its parent.
ChildDisappoints(r) ==
    \E type \in {"subworkflow", "loop"}, result \in {"FAILED", "WAITING_INPUT"} :
        /\ ChildReturns(r, type, result)
        /\ rows' = [rows EXCEPT ![r][walk[r].node] = IF type = "loop" THEN @ ELSE "FAILED"]
        /\ runs' = [runs EXCEPT ![r].status = "FAILED"]
        /\ walk' = [Closed(r) EXCEPT ![r] = Returned(@, "FAILED")]
        /\ UNCHANGED <<hops, git, locked, scan, done, bounds>>

\* _last_step_output: what the child's last agent decided.
Continues(c) ==
    LET agents == {i \in 1..Len(Nodes(c)) : Nodes(c)[i].type = "agent"}
    IN  agents # {} /\ done[c][CHOOSE i \in agents : \A j \in agents : j <= i] = <<TRUE>>

IterationReturns(r) ==
    /\ ChildReturns(r, "loop", "SUCCEEDED")
    /\ IF Continues(Child(r))
       THEN /\ walk' = [Closed(r) EXCEPT ![r].pc = "visit"]
            /\ UNCHANGED done
       ELSE /\ walk' = [Closed(r) EXCEPT ![r] = Advanced(@)]
            /\ done' = [done EXCEPT ![r][walk[r].node] = walk[r].kids]
    /\ UNCHANGED <<db, git, locked, scan, bounds>>

\* maxIterations or maxHops is reached: WAITING_INPUT.
Waits(r) ==
    /\ runs' = [runs EXCEPT ![r].status = "WAITING_INPUT"]
    /\ walk' = [walk EXCEPT ![r] = Returned(@, "WAITING_INPUT")]

LoopExhausted(r) ==
    /\ Is(r, "visit", "loop")
    /\ Len(walk[r].kids) = At(r).max
    /\ Waits(r)
    /\ UNCHANGED <<rows, hops, git, locked, scan, done, bounds>>

-----------------------------------------------------------------------------
(* map: a pool over the items, then merges in the order of the items *)

Items(r) == 1..Len(walk[r].kids)

StartMap(r) ==
    /\ Is(r, "exec", "map")
    /\ At(r).items <= At(r).max
    /\ walk[r].ws \in trees
    /\ walk' = [walk EXCEPT ![r].pc = "pool",
                            ![r].kids = [i \in 1..At(r).items |-> 0],
                            ![r].results = [i \in 1..At(r).items |-> "none"]]
    /\ UNCHANGED <<db, git, locked, scan, done, bounds>>

\* Too many items, or no worktree to take the HEAD of.
CannotMap(r) ==
    /\ Is(r, "exec", "map")
    /\ At(r).items > At(r).max \/ walk[r].ws \notin trees
    /\ Fail(r)
    /\ UNCHANGED <<hops, git, locked, scan, done, bounds>>

\* A worker has taken the item: fewer items before it are unfinished than
\* there are workers.  Without a pool, an item that raises ends the loop.
Taken(r, i) ==
    /\ walk[r].kids[i] = 0
    /\ walk[r].results[i] = "none"
    /\ Cardinality({j \in 1..(i - 1) : walk[r].results[j] = "none"}) < At(r).concurrency
    /\ At(r).concurrency = 1 => \A j \in Items(r) : walk[r].results[j] # "raised"

\* run_map_item: under the lock, a row, a worktree, and the whole walk.
StartItem(r, i) ==
    /\ Is(r, "pool", "map")
    /\ Taken(r, i)
    /\ ~locked
    /\ locked' = TRUE
    /\ Create(At(r).ref, r, i, [walk EXCEPT ![r].kids[i] = NextRun])
    /\ trees' = trees \union {NextRun}
    /\ file' = Append(file, file[walk[r].ws])
    /\ UNCHANGED <<scan, bounds>>

\* create_worktree raises: the row stays, the caller's future raises.
ItemSetupFails(r, i) ==
    /\ Is(r, "pool", "map")
    /\ Taken(r, i)
    /\ ~locked
    /\ runs' = Append(runs, NewRow(At(r).ref, r, i))
    /\ rows' = Append(rows, NoRows(At(r).ref))
    /\ hops' = Append(hops, <<>>)
    /\ content' = Append(content, <<>>)
    /\ file' = Append(file, "absent")
    /\ done' = Append(done, [n \in 1..Len(Workflows[At(r).ref]) |-> <<>>])
    /\ walk' = Append([walk EXCEPT ![r].results[i] = "raised"], NoWalk)
    /\ UNCHANGED <<trees, locked, scan, bounds>>

\* Mutant: the lock is not given back.
ItemReturnsHolding(r, i) ==
    /\ Is(r, "pool", "map")
    /\ walk[r].kids[i] # 0
    /\ walk[walk[r].kids[i]].pc = "return"
    /\ walk' = [walk EXCEPT ![r].results[i] = walk[walk[r].kids[i]].result,
                            ![walk[r].kids[i]] = NoWalk]
    /\ UNCHANGED <<db, git, locked, scan, done, bounds>>

ItemReturns(r, i) ==
    /\ Is(r, "pool", "map")
    /\ walk[r].kids[i] # 0
    /\ walk[walk[r].kids[i]].pc = "return"
    /\ walk' = [walk EXCEPT ![r].results[i] = walk[walk[r].kids[i]].result,
                            ![walk[r].kids[i]] = NoWalk]
    /\ locked' = FALSE
    /\ UNCHANGED <<db, git, scan, done, bounds>>

\* No item will start any more and none is being walked.
PoolIdle(r) ==
    \A i \in Items(r) : walk[r].results[i] = "none" =>
                            walk[r].kids[i] = 0 /\ ~Taken(r, i)
SomeRaised(r) == \E i \in Items(r) : walk[r].results[i] = "raised"

Raised == <<0>>

\* The exception leaves before anything is merged or removed.
PoolRaises(r) ==
    /\ Is(r, "pool", "map")
    /\ PoolIdle(r) /\ SomeRaised(r)
    /\ Fail(r)
    /\ done' = [done EXCEPT ![r][walk[r].node] = Raised]
    /\ UNCHANGED <<hops, git, locked, scan, bounds>>

PoolDone(r) ==
    /\ Is(r, "pool", "map")
    /\ PoolIdle(r) /\ ~SomeRaised(r)
    /\ Go(r, "merge")
    /\ UNCHANGED <<db, git, locked, scan, done, bounds>>

MergesLeft(r) == Is(r, "merge", "map") /\ walk[r].merged < Len(walk[r].kids)
NextToMerge(r) == walk[r].merged + 1

MergeItem(r) ==
    /\ MergesLeft(r)
    /\ walk[r].results[NextToMerge(r)] = "SUCCEEDED"
    /\ LET item == walk[r].kids[NextToMerge(r)] IN
         /\ content' = [content EXCEPT ![walk[r].ws] = @ \o content[item]]
         /\ \E f \in {file[walk[r].ws], file[item]} :
                file' = [file EXCEPT ![walk[r].ws] = f]
    /\ walk' = [walk EXCEPT ![r].merged = @ + 1]
    /\ UNCHANGED <<db, trees, locked, scan, done, bounds>>

RemoveItemTrees(r) == trees' = trees \ Range(walk[r].kids)

\* An item did not succeed, or its merge conflicts: the node fails, and the
\* items' worktrees and branches go, merged or not.
MapFails(r) ==
    /\ MergesLeft(r)
    /\ \/ walk[r].results[NextToMerge(r)] # "SUCCEEDED"
       \/ content[walk[r].kids[NextToMerge(r)]] # <<>>
    /\ RemoveItemTrees(r)
    /\ Fail(r)
    /\ UNCHANGED <<hops, content, file, locked, scan, done, bounds>>

\* Mutant: the items' worktrees are kept.
MapSucceedsKeeping(r) ==
    /\ Is(r, "merge", "map")
    /\ walk[r].merged = Len(walk[r].kids)
    /\ Succeed(r, walk[r].kids)
    /\ UNCHANGED <<runs, hops, git, locked, scan, bounds>>

MapSucceeds(r) ==
    /\ Is(r, "merge", "map")
    /\ walk[r].merged = Len(walk[r].kids)
    /\ RemoveItemTrees(r)
    /\ Succeed(r, walk[r].kids)
    /\ UNCHANGED <<runs, hops, content, file, locked, scan, bounds>>

-----------------------------------------------------------------------------
(* handoff: hops, each with a step of its own, and a file that says whether *)
(* the cycle is complete                                                    *)

Hop(r) == walk[r].hop + 1
HopRow(r) == IF Hop(r) <= Len(hops[r]) THEN hops[r][Hop(r)] ELSE "absent"
SetHop(r, status) ==
    hops' = [hops EXCEPT ![r] = SubSeq(@, 1, walk[r].hop) \o <<status>>
                                \o SubSeq(@, walk[r].hop + 2, Len(@))]

StartHop(r) ==
    /\ Is(r, "visit", "handoff")
    /\ walk[r].hop < At(r).max
    /\ IF HopRow(r) = "SUCCEEDED"
       THEN Go(r, "read") /\ UNCHANGED hops
       ELSE Go(r, "hop") /\ SetHop(r, "RUNNING")
    /\ UNCHANGED <<runs, rows, git, locked, scan, done, bounds>>

\* The agent leaves the file as it is or writes it, "bad" for one that does
\* not match the node's payloadSchema.
HopWorks(r, f) ==
    /\ Is(r, "hop", "handoff")
    /\ walk[r].ws \in trees
    /\ file' = [file EXCEPT ![walk[r].ws] = f]
    /\ SetHop(r, "SUCCEEDED")
    /\ Go(r, "read")
    /\ UNCHANGED <<runs, rows, trees, content, locked, scan, done, bounds>>

FailOutsideStep(r) ==
    /\ runs' = [runs EXCEPT ![r].status = "FAILED"]
    /\ walk' = [walk EXCEPT ![r] = Returned(@, "FAILED")]

HopFails(r, f) ==
    /\ Is(r, "hop", "handoff")
    /\ file' = IF walk[r].ws \in trees THEN [file EXCEPT ![walk[r].ws] = f] ELSE file
    /\ SetHop(r, "FAILED")
    /\ FailOutsideStep(r)
    /\ UNCHANGED <<rows, trees, content, locked, scan, done, bounds>>

Status(r) == IF walk[r].ws \in trees THEN file[walk[r].ws] ELSE "absent"

StatusMissing(r) ==
    /\ Is(r, "read", "handoff")
    /\ Status(r) \in {"absent", "bad"}
    /\ FailOutsideStep(r)
    /\ UNCHANGED <<rows, hops, git, locked, scan, done, bounds>>

StatusSaysMore(r) ==
    /\ Is(r, "read", "handoff")
    /\ Status(r) = "more"
    /\ walk' = [walk EXCEPT ![r].pc = "visit", ![r].hop = @ + 1]
    /\ UNCHANGED <<db, git, locked, scan, done, bounds>>

StatusSaysDone(r) ==
    /\ Is(r, "read", "handoff")
    /\ Status(r) = "done"
    /\ done' = [done EXCEPT ![r][walk[r].node] = <<Hop(r)>>]
    /\ walk' = [walk EXCEPT ![r] = Advanced(@)]
    /\ UNCHANGED <<db, git, locked, scan, bounds>>

HandoffExhausted(r) ==
    /\ Is(r, "visit", "handoff")
    /\ walk[r].hop = At(r).max
    /\ Waits(r)
    /\ UNCHANGED <<rows, hops, git, locked, scan, done, bounds>>

-----------------------------------------------------------------------------
(* Operations, crashes, resumes *)

Waited(r) == /\ runs[r].parent # 0
             /\ walk[runs[r].parent].pc \in {"wait", "pool"}
             /\ r \in Range(walk[runs[r].parent].kids)

\* What op_run_start and op_run_resume do when the walk they called returns.
Close(r) ==
    /\ walk[r].pc = "return"
    /\ ~Waited(r)
    /\ trees' = IF walk[r].result = "SUCCEEDED" THEN trees \ {r} ELSE trees
    /\ walk' = [walk EXCEPT ![r] = NoWalk]
    /\ UNCHANGED <<db, content, file, locked, scan, done, bounds>>

Quiet == \A r \in Runs : walk[r] = NoWalk

Crash ==
    /\ ~Quiet
    /\ crashes < MaxCrashes
    /\ crashes' = crashes + 1
    /\ walk' = [r \in Runs |-> NoWalk]
    /\ locked' = FALSE
    /\ scan' = {}
    /\ UNCHANGED <<db, git, done, scans>>

\* scan_incomplete_runs, once per call.
StartScan ==
    /\ Quiet /\ scan = {}
    /\ scans < MaxScans
    /\ scans' = scans + 1
    /\ scan' = {r \in Runs : runs[r].status \notin TerminalRunStatuses}
    /\ UNCHANGED <<db, git, walk, locked, done, crashes>>

\* The runs are resumed one after the other, as they were created.
IsNext(r) == r \in scan /\ \A q \in scan : r <= q

\* reset_interrupted_node_steps deletes rows; a step that was started is
\* referenced by an event, and deleting it raises.
Interrupted(r) ==
    \/ \E i \in DOMAIN rows[r] : rows[r][i] \in {"RUNNING", "FAILED"}
    \/ \E h \in DOMAIN hops[r] : hops[r][h] # "SUCCEEDED"

\* A resumed run works in the worktree of its own name, whoever its parent is.
ScanNext ==
    \E r \in scan :
        /\ Quiet /\ IsNext(r)
        /\ ~Interrupted(r)
        /\ runs' = [runs EXCEPT ![r].status = "RUNNING"]
        /\ walk' = [walk EXCEPT ![r] = BeginIn(r)]
        /\ scan' = scan \ {r}
        /\ UNCHANGED <<rows, hops, git, locked, done, bounds>>

ScanRaises ==
    \E r \in scan :
        /\ Quiet /\ IsNext(r)
        /\ Interrupted(r)
        /\ scan' = {}
        /\ UNCHANGED <<db, git, walk, locked, done, bounds>>

Sights == [check : BOOLEAN, judge : BOOLEAN, attacker : BOOLEAN,
           busy : BOOLEAN, contaminated : BOOLEAN]

\* What a hop may leave behind.
Files(r) == {"more", "done", "bad", Status(r)}

WalkStep(r) ==
    \/ Cached(r) \/ StartStep(r) \/ EndOfWalk(r)
    \/ \E more \in BOOLEAN : AgentWorks(r, more)
    \/ AgentFails(r)
    \/ \E seen \in Sights : GateAnswers(r, seen)
    \/ StartSubworkflow(r) \/ SubworkflowReturns(r) \/ ChildDisappoints(r)
    \/ StartLoop(r) \/ IterationReturns(r) \/ LoopExhausted(r)
    \/ StartMap(r) \/ CannotMap(r)
    \/ \E i \in Items(r) : \/ StartItem(r, i) \/ ItemSetupFails(r, i)
                           \/ ItemReturns(r, i)
    \/ PoolRaises(r) \/ PoolDone(r) \/ MergeItem(r) \/ MapFails(r) \/ MapSucceeds(r)
    \/ StartHop(r)
    \/ \E f \in Files(r) : HopWorks(r, f) \/ HopFails(r, f)
    \/ StatusMissing(r) \/ StatusSaysMore(r) \/ StatusSaysDone(r)
    \/ HandoffExhausted(r)
    \/ Close(r)

Engine == (\E r \in Runs : WalkStep(r)) \/ ScanNext \/ ScanRaises

Next == Engine \/ StartScan \/ Crash

Spec == Init /\ [][Next]_vars

\* A process that lives goes on: its threads are scheduled and its calls return.
FairSpec == Spec /\ WF_vars(Engine)

-----------------------------------------------------------------------------
(* Properties *)

Part(s, t) == \E k \in 0..(Len(t) - Len(s)) : SubSeq(t, k + 1, k + Len(s)) = s

\* The branch the work of a run is on: its own, or its callers'.
BranchOf(r, kids) == IF runs[r].parent = 0 \/ runs[r].index > 0 THEN {r}
                     ELSE Runs \ Range(kids)

\* A run that reports SUCCEEDED has done what its nodes say: the work of its
\* agents is on the branch; the children of a node report SUCCEEDED too; a map
\* has one for each item, merged in the order of the items; a handoff ended
\* because the file said so.  Over failures, crashes and resumes
\* (subworkflow.py, map_node.py, loop_node.py, handoff.py).
SucceededRunDidItAll ==
    \A r \in Runs : runs[r].status = "SUCCEEDED" =>
      \A n \in DOMAIN Nodes(r) :
        LET type == Nodes(r)[n].type
            kids == done[r][n]
        IN
        /\ type \notin {"loop", "handoff"} => rows[r][n] = "SUCCEEDED"
        /\ type = "agent" => \E b \in BranchOf(r, <<>>) : <<r, n>> \in Range(content[b])
        /\ type \in {"subworkflow", "loop"} => kids # <<>>
        /\ type \in {"subworkflow", "loop", "map"} =>
              \A c \in Range(kids) : runs[c].status = "SUCCEEDED"
        /\ type = "map" =>
              /\ DOMAIN kids = 1..Nodes(r)[n].items
              /\ \A i \in DOMAIN kids : runs[kids[i]].index = i
              /\ \E b \in BranchOf(r, kids) :
                    Part(FlattenSeq([i \in DOMAIN kids |-> content[kids[i]]]), content[b])
        /\ type = "handoff" => kids # <<>>

\* Does a walk take steps of its own, rather than wait for another?
Working(r) == walk[r].pc \in {"visit", "exec", "hop", "read", "merge"}

\* The worktree of an item is there while the item is walked for its map, and
\* gone when the map's run is over, unless a process died or a set-up failed.
ItemTreesGoWithTheMap ==
    /\ \A r \in Runs : (runs[r].index > 0 /\ Waited(r)) => r \in trees
    /\ \A r \in Runs :
         LET p == runs[r].parent IN
         (/\ crashes = 0
          /\ runs[r].index > 0
          /\ runs[p].status \in TerminalRunStatuses
          /\ \A n \in DOMAIN Nodes(p) :
                Nodes(p)[n].type = "map" => done[p][n] # Raised) => r \notin trees

\* Whatever fails, a process that lives comes to the end of its walks, so that
\* no run stays RUNNING for ever with somebody working on it
\* (_run_workflow_safely).
EveryWalkEnds == []<>Quiet
=============================================================================
