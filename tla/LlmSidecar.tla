------------------------------ MODULE LlmSidecar ------------------------------
(***************************************************************************)
(* The managed llama-server (llm/sidecar.py), as awf llm serve, the         *)
(* llm_server_ensure activity and the control center use it (ops/llm.py,    *)
(* workflow/activities.py, ops/control.py).                                 *)
(*                                                                         *)
(* Any number of processes start, stop and look at one server on one port.  *)
(* What they share is the port and cache/llm/sidecar.json; what each knows  *)
(* besides is the status it cached (_CURRENT_STATUS) and, while it waits    *)
(* for it, its child (_SIDECAR_PROCESS).  Servers crash, operators run      *)
(* servers of their own on the port, and a probe that is answered too late  *)
(* is a probe that failed.  Process ids are not used twice.                 *)
(***************************************************************************)
EXTENDS Naturals, FiniteSets

CONSTANTS
    Callers,    \* processes of AWF
    MaxPids,
    MaxPolls    \* probes that fit in HEALTH_TIMEOUT_SECONDS

ASSUME SidecarAssumption == MaxPids \in Nat /\ MaxPolls \in Nat \ {0}

VARIABLES
    server,     \* pid -> [by, at]: who started it, how far it is
    stateFile,  \* the state file: [exists, pid, adopted]
    caller,     \* c -> [pc, child, cached, polls, target]
    reported,   \* history: pids a start has returned as running
    abandoned,  \* history: children whose parent died while it waited for them
    signalled   \* history: pids AWF has sent a signal

sidecarVars == <<server, stateFile, caller, reported, abandoned, signalled>>
history == <<reported, abandoned, signalled>>

-----------------------------------------------------------------------------
(* Servers *)

Pids == 1..MaxPids
NoPid == 0
NoServer == [by |-> "nobody", at |-> "none"]

Alive(p) == p # NoPid /\ server[p].at \in {"loading", "serving"}
Holder == { p \in Pids : server[p].at = "serving" }
Free == { p \in Pids : server[p] = NoServer }
Fresh == CHOOSE p \in Free : \A q \in Free : p <= q

Spawned(p, by, at) == server' = [server EXCEPT ![p] = [by |-> by, at |-> at]]
Dead(p) == server' = [server EXCEPT ![p].at = "dead"]

\* 2xx in time; anything else is "unreachable".
Answers(reachable) == reachable => Holder # {}

-----------------------------------------------------------------------------
(* The state file and the callers *)

NoFile == [exists |-> FALSE, pid |-> NoPid, adopted |-> FALSE]
Adoption == [exists |-> TRUE, pid |-> NoPid, adopted |-> TRUE]
Running(p) == [exists |-> TRUE, pid |-> p, adopted |-> FALSE]

\* "left" is the status of a stop that left an adopted server running.
Statuses == {"none", "adopted", "running", "degraded", "stopped", "left"}

NewCaller == [pc |-> "idle", child |-> NoPid, cached |-> "none", polls |-> 0,
              target |-> NoPid]

\* A call returns: its status is cached, nothing of it is left in the process.
Return(c, status) == caller' = [caller EXCEPT ![c] = [NewCaller EXCEPT !.cached = status]]
MoveOn(c, pc) == caller' = [caller EXCEPT ![c].pc = pc]
IsAt(c, pc) == caller[c].pc = pc

SidecarInit ==
    /\ server = [p \in Pids |-> NoServer]
    /\ stateFile = NoFile
    /\ caller = [c \in Callers |-> NewCaller]
    /\ reported = {}
    /\ abandoned = {}
    /\ signalled = {}

-----------------------------------------------------------------------------
(* The world *)

OperatorStarts ==
    /\ Holder = {} /\ Free # {}
    /\ Spawned(Fresh, "operator", "serving")
    /\ UNCHANGED <<stateFile, caller, history>>

\* The model is loaded and the port is taken, unless somebody else has it.
Loads(p) ==
    /\ server[p].at = "loading"
    /\ IF Holder = {} THEN server' = [server EXCEPT ![p].at = "serving"] ELSE Dead(p)
    /\ UNCHANGED <<stateFile, caller, history>>

Dies(p) ==
    /\ Alive(p)
    /\ Dead(p)
    /\ UNCHANGED <<stateFile, caller, history>>

\* A caller's process ends between calls or dies in one; a child outlives it.
Exits(c) ==
    /\ caller[c] # NewCaller
    /\ caller' = [caller EXCEPT ![c] = NewCaller]
    /\ abandoned' = abandoned \cup ({caller[c].child} \ {NoPid})
    /\ UNCHANGED <<server, stateFile, reported, signalled>>

-----------------------------------------------------------------------------
(* start *)

Adopt(c) ==
    /\ IsAt(c, "idle") /\ Answers(TRUE)
    /\ stateFile' = Adoption
    /\ Return(c, "adopted")
    /\ UNCHANGED <<server, history>>

FoundNothing(c) ==
    /\ IsAt(c, "idle") /\ Answers(FALSE)
    /\ MoveOn(c, "launch")
    /\ UNCHANGED <<server, stateFile, history>>

\* No artifact (a server AWF does not manage has none), no binary, no model,
\* or a process that cannot be created.
CannotLaunch(c) ==
    /\ IsAt(c, "launch")
    /\ Return(c, "degraded")
    /\ UNCHANGED <<server, stateFile, history>>

Launch(c) ==
    /\ IsAt(c, "launch") /\ Free # {}
    /\ Spawned(Fresh, "awf", "loading")
    /\ caller' = [caller EXCEPT ![c] = [@ EXCEPT !.pc = "poll", !.child = Fresh]]
    /\ UNCHANGED <<stateFile, history>>

\* One round of the loop: is the child still there, and does the port answer?
ChildExited(c) ==
    /\ IsAt(c, "poll") /\ caller[c].polls < MaxPolls
    /\ ~Alive(caller[c].child)
    /\ Return(c, "degraded")
    /\ UNCHANGED <<server, stateFile, history>>

ChildStillRuns(c) ==
    /\ IsAt(c, "poll") /\ caller[c].polls < MaxPolls
    /\ Alive(caller[c].child)
    /\ MoveOn(c, "probe")
    /\ UNCHANGED <<server, stateFile, history>>

BecameReachable(c) ==
    /\ IsAt(c, "probe") /\ Answers(TRUE)
    /\ stateFile' = Running(caller[c].child)
    /\ reported' = reported \cup {caller[c].child}
    /\ Return(c, "running")
    /\ UNCHANGED <<server, abandoned, signalled>>

\* Mutant: a failed probe uses up none of the time there is.
PollsFor(c) == caller[c].polls

PollsAfter(c) == caller[c].polls + 1

NotYetReachable(c) ==
    /\ IsAt(c, "probe") /\ Answers(FALSE)
    /\ caller' = [caller EXCEPT ![c] = [@ EXCEPT !.pc = "poll", !.polls = PollsAfter(c)]]
    /\ UNCHANGED <<server, stateFile, history>>

TimedOut(c) ==
    /\ IsAt(c, "poll") /\ caller[c].polls = MaxPolls
    /\ signalled' = signalled \cup {caller[c].child}
    /\ MoveOn(c, "terminate")
    /\ UNCHANGED <<server, stateFile, reported, abandoned>>

\* Mutant: the child that does not end in time is not killed.
LeftToItself(p) == UNCHANGED server

Killed(p) == IF Alive(p) THEN Dead(p) ELSE UNCHANGED server

Terminated(c) ==
    /\ IsAt(c, "terminate")
    /\ Killed(caller[c].child)
    /\ Return(c, "degraded")
    /\ UNCHANGED <<stateFile, history>>

-----------------------------------------------------------------------------
(* stop.  Calls of one process follow each other and a start that returns has *)
(* let go of its child, so the pid comes from the file.                       *)

StopAdopted(c) ==
    /\ IsAt(c, "idle") /\ caller[c].cached \in {"adopted", "left"}
    /\ stateFile' = NoFile
    /\ Return(c, "left")
    /\ UNCHANGED <<server, history>>

\* Mutant: stop signals whatever serves on the port.
WhoeverServes == IF Holder = {} THEN NoPid ELSE CHOOSE p \in Holder : TRUE

Stored == IF stateFile.adopted THEN NoPid ELSE stateFile.pid

StopSignals(c) ==
    /\ IsAt(c, "idle") /\ caller[c].cached \notin {"adopted", "left"}
    /\ Alive(Stored)
    /\ signalled' = signalled \cup {Stored}
    /\ caller' = [caller EXCEPT ![c] = [@ EXCEPT !.pc = "stop", !.target = Stored]]
    /\ UNCHANGED <<server, stateFile, reported, abandoned>>

\* It ends in time or is killed.
Stopped(c) ==
    /\ IsAt(c, "stop")
    /\ Killed(caller[c].target)
    /\ stateFile' = NoFile
    /\ Return(c, "stopped")
    /\ UNCHANGED history

NothingToStop(c) ==
    /\ IsAt(c, "idle") /\ caller[c].cached \notin {"adopted", "left"}
    /\ ~Alive(Stored)
    /\ stateFile' = NoFile
    /\ Return(c, "stopped")
    /\ UNCHANGED <<server, history>>

-----------------------------------------------------------------------------
(* status.  A cached status is returned as it is; otherwise a file whose      *)
(* server does not answer is removed.                                         *)

StatusForgets(c) ==
    /\ IsAt(c, "idle") /\ caller[c].cached = "none"
    /\ stateFile.exists
    /\ \/ Answers(FALSE)
       \/ ~stateFile.adopted /\ ~Alive(stateFile.pid)
    /\ stateFile' = NoFile
    /\ UNCHANGED <<server, caller, history>>

-----------------------------------------------------------------------------

BeginCall(c) == Adopt(c) \/ FoundNothing(c) \/ StopAdopted(c) \/ StopSignals(c)
            \/ NothingToStop(c) \/ StatusForgets(c)
ContinueCall(c) == CannotLaunch(c) \/ Launch(c) \/ ChildExited(c) \/ ChildStillRuns(c)
               \/ BecameReachable(c) \/ NotYetReachable(c) \/ TimedOut(c)
               \/ Terminated(c) \/ Stopped(c)

SidecarNext ==
    \/ OperatorStarts
    \/ \E p \in Pids : Loads(p) \/ Dies(p)
    \/ \E c \in Callers : BeginCall(c) \/ ContinueCall(c) \/ Exits(c)

SidecarSpec == SidecarInit /\ [][SidecarNext]_sidecarVars

\* A process that is in a call goes on with it.
FairSidecarSpec == SidecarSpec /\ \A c \in Callers : WF_sidecarVars(ContinueCall(c))

-----------------------------------------------------------------------------
(* Properties *)

\* The server an operator runs on the port is never signalled, whichever starts
\* adopt it, fail beside it or report success because of it, and whatever they
\* leave in the file for later stops (start, stop).
OnlyOwnSignalled == \A p \in signalled : server[p].by = "awf"

\* No server of AWF's runs that nobody knows of: it is being waited for, it has
\* been reported as running, or the process that waited for it died (start).
EveryServerAccountedFor ==
    \A p \in Pids : Alive(p) /\ server[p].by = "awf" =>
        \/ p \in reported \cup abandoned
        \/ \E c \in Callers : caller[c].child = p

\* Whatever the server does, a start or stop that is not interrupted returns
\* (the bound of the health loop in start, terminate and kill).
EveryCallReturns ==
    \A c \in Callers : ~IsAt(c, "idle") ~> IsAt(c, "idle")
=============================================================================
