---------------------------- MODULE SidecarProofs ----------------------------
(***************************************************************************)
(* Theorems about LlmSidecar, for any number of processes of AWF, of        *)
(* servers and of probes.                                                   *)
(***************************************************************************)
EXTENDS LlmSidecar, WellFoundedInduction, TLAPS

-----------------------------------------------------------------------------
(* The inductive invariant *)

Places == {"idle", "launch", "poll", "probe", "terminate", "stop"}

Servers == [by : {"nobody", "awf", "operator"},
            at : {"none", "loading", "serving", "dead"}]
CallerStates == [pc : Places, child : Pids \cup {NoPid}, cached : Statuses,
                 polls : Nat, target : Pids \cup {NoPid}]

Files == [exists : BOOLEAN, pid : Pids \cup {NoPid}, adopted : BOOLEAN]

\* Every variable has its type.
SidecarTypeOK ==
    /\ server \in [Pids -> Servers]
    /\ stateFile \in Files
    /\ caller \in [Callers -> CallerStates]
    /\ reported \subseteq Pids
    /\ abandoned \subseteq Pids
    /\ signalled \subseteq Pids

Ours(p) == server[p].by = "awf"

\* What the file names, what a start waits for and what has been signalled is
\* AWF's own: a pid keeps the parent it was started by.
NamedAreOurs ==
    /\ stateFile.pid # NoPid => Ours(stateFile.pid)
    /\ \A c \in Callers : caller[c].child # NoPid => Ours(caller[c].child)
    /\ OnlyOwnSignalled

\* A start has a child exactly from the launch until it returns.
ChildWhileWaiting ==
    \A c \in Callers :
        caller[c].child # NoPid <=> caller[c].pc \in {"poll", "probe", "terminate"}

SidecarInv ==
    /\ SidecarTypeOK
    /\ NamedAreOurs
    /\ ChildWhileWaiting
    /\ EveryServerAccountedFor

-----------------------------------------------------------------------------
(* Process ids *)

\* A new process gets a pid that nothing has had.
LEMMA FreshIsFree ==
    ASSUME Free # {}
    PROVE  Fresh \in Free
  <1>1. Free \in SUBSET Nat
    BY SidecarAssumption DEF Free, Pids
  <1>2. PICK p \in Free : \A q \in Free : ~ (<<q, p>> \in OpToRel(<, Nat))
    BY <1>1, NatLessThanWellFounded, WFMin
  <1>3. \A q \in Free : p <= q
    <2> TAKE q \in Free
    <2>1. ~ (q < p)
      BY <1>1, <1>2 DEF OpToRel
    <2> QED
      BY <1>1, <2>1
  <1> QED
    BY <1>3 DEF Fresh

-----------------------------------------------------------------------------
(* The steps of servers.  Only the server at p changes: it starts at a free   *)
(* pid, or it goes on with the parent it has.                                 *)

\* A server that starts leaves every other as it is, those of AWF's among them.
LEMMA SpawnKeeps ==
    ASSUME SidecarInv, Free # {},
           NEW by \in {"awf", "operator"}, NEW at \in {"loading", "serving"},
           Spawned(Fresh, by, at)
    PROVE  /\ server' \in [Pids -> Servers]
           /\ Fresh \in Pids
           /\ server'[Fresh] = [by |-> by, at |-> at]
           /\ \A q \in Pids : q # Fresh => server'[q] = server[q]
           /\ \A q \in Pids : Ours(q) => server'[q] = server[q]
  <1>1. Fresh \in Pids /\ server[Fresh] = NoServer
    BY FreshIsFree DEF Free
  <1>2. SidecarTypeOK
    BY DEF SidecarInv
  <1> QED
    BY <1>1, <1>2 DEF Spawned, SidecarTypeOK, Servers, Ours, NoServer

\* A server that goes on has the parent it had, and the others are as they were.
LEMMA GoesOn ==
    ASSUME SidecarInv, NEW p \in Pids, NEW at \in {"serving", "dead"},
           server' = [server EXCEPT ![p].at = at]
    PROVE  /\ server' \in [Pids -> Servers]
           /\ \A q \in Pids : server'[q].by = server[q].by
           /\ \A q \in Pids : q # p => server'[q] = server[q]
           /\ server'[p].at = at
  BY DEF SidecarInv, SidecarTypeOK, Servers

\* A server that is killed is dead, if it was not before.
LEMMA KilledIsDead ==
    ASSUME SidecarInv, NEW p \in Pids \cup {NoPid}, Killed(p)
    PROVE  /\ server' \in [Pids -> Servers]
           /\ \A q \in Pids : server'[q].by = server[q].by
           /\ \A q \in Pids : q # p => server'[q] = server[q]
           /\ p # NoPid => server'[p].at \notin {"loading", "serving"}
  <1>1. CASE Alive(p)
    <2>1. p \in Pids /\ server' = [server EXCEPT ![p].at = "dead"]
      BY <1>1 DEF Killed, Dead, Alive
    <2> QED
      BY <2>1, GoesOn
  <1>2. CASE ~Alive(p)
    BY <1>2 DEF Killed, Alive, SidecarInv, SidecarTypeOK
  <1> QED
    BY <1>1, <1>2

-----------------------------------------------------------------------------
(* The steps of callers *)

\* What is written names nobody or the child.
LEMMA FilesWritten ==
    /\ NoFile \in Files /\ NoFile.pid = NoPid
    /\ Adoption \in Files /\ Adoption.pid = NoPid
    /\ \A p \in Pids : Running(p) \in Files /\ Running(p).pid = p
  BY DEF NoFile, Adoption, Running, Files

\* The record of one caller changes.
LEMMA CallerChanges ==
    ASSUME SidecarInv, NEW c \in Callers, NEW r \in CallerStates,
           caller' = [caller EXCEPT ![c] = r]
    PROVE  /\ caller' \in [Callers -> CallerStates]
           /\ caller'[c] = r
           /\ \A d \in Callers : d # c => caller'[d] = caller[d]
  BY DEF SidecarInv, SidecarTypeOK

\* A call that returns leaves a caller that waits for no child.
LEMMA ReturnKeeps ==
    ASSUME SidecarInv, NEW c \in Callers, NEW status \in Statuses, Return(c, status)
    PROVE  /\ caller' \in [Callers -> CallerStates]
           /\ caller'[c].pc = "idle" /\ caller'[c].child = NoPid
           /\ \A d \in Callers : d # c => caller'[d] = caller[d]
  <1> DEFINE r == [NewCaller EXCEPT !.cached = status]
  <1>1. r \in CallerStates /\ r.pc = "idle" /\ r.child = NoPid
    BY DEF NewCaller, CallerStates, Places, Statuses
  <1>2. caller' = [caller EXCEPT ![c] = r]
    BY DEF Return
  <1> HIDE DEF r
  <1> QED
    BY <1>1, <1>2, CallerChanges

\* A caller that goes on within a call keeps the rest of its record.
LEMMA GotoKeeps ==
    ASSUME SidecarInv, NEW c \in Callers, NEW pc \in Places, MoveOn(c, pc)
    PROVE  /\ caller' \in [Callers -> CallerStates]
           /\ caller'[c].pc = pc /\ caller'[c].child = caller[c].child
           /\ \A d \in Callers : d # c => caller'[d] = caller[d]
  BY DEF MoveOn, SidecarInv, SidecarTypeOK, CallerStates

-----------------------------------------------------------------------------
(* The invariant is kept *)

\* No process and no server, no file, no history: the invariant holds at first.
LEMMA InitSidecarInv == SidecarInit => SidecarInv
  BY DEF SidecarInit, SidecarInv, SidecarTypeOK, Servers, CallerStates, Files, NamedAreOurs,
         OnlyOwnSignalled, ChildWhileWaiting, EveryServerAccountedFor, Ours, Alive,
         NoServer, NoFile, NewCaller, NoPid, Places, Statuses

\* What a step must leave of the invariant when it changes at most the state of
\* one caller and lets no server of AWF's out of sight: the parents stay, the
\* caller's own record agrees with itself, and its child, if it had one it no
\* longer has, is dead, reported or abandoned.
LEMMA OneCallerKeeps ==
    ASSUME SidecarInv, NEW c \in Callers,
           server' \in [Pids -> Servers],
           \A q \in Pids : Ours(q) => Ours(q)',
           \A q \in Pids : Alive(q)' /\ Ours(q)' =>
               \/ Alive(q) /\ Ours(q)
               \/ caller'[c].child = q,
           caller' \in [Callers -> CallerStates],
           \A d \in Callers : d # c => caller'[d] = caller[d],
           caller'[c].child # NoPid => server'[caller'[c].child].by = "awf",
           caller'[c].child # NoPid <=> caller'[c].pc \in {"poll", "probe", "terminate"},
           \A q \in Pids : caller[c].child = q /\ caller'[c].child # q =>
               \/ ~Alive(q)'
               \/ q \in (reported \cup abandoned)',
           stateFile' \in Files,
           stateFile'.pid # NoPid => server'[stateFile'.pid].by = "awf",
           reported \subseteq reported', reported' \subseteq Pids,
           abandoned \subseteq abandoned', abandoned' \subseteq Pids,
           signalled' \subseteq Pids, \A p \in signalled' : Ours(p)'
    PROVE  SidecarInv'
  <1>1. SidecarTypeOK'
    BY DEF SidecarTypeOK
  <1>2. \A d \in Callers : caller[d].child \in Pids \cup {NoPid}
    BY DEF SidecarInv, SidecarTypeOK, CallerStates
  <1>3. NamedAreOurs'
    <2>1. \A d \in Callers : caller'[d].child # NoPid => server'[caller'[d].child].by = "awf"
      BY <1>2 DEF SidecarInv, NamedAreOurs, Ours
    <2> QED
      BY <2>1 DEF NamedAreOurs, OnlyOwnSignalled, Ours
  <1>4. ChildWhileWaiting'
    BY DEF SidecarInv, ChildWhileWaiting
  <1>5. EveryServerAccountedFor'
    <2> SUFFICES ASSUME NEW p \in Pids, Alive(p)', Ours(p)',
                        p \notin (reported \cup abandoned)'
                 PROVE  \E d \in Callers : caller'[d].child = p
      BY DEF EveryServerAccountedFor, Ours
    <2>1. CASE caller'[c].child = p
      BY <2>1
    <2>2. CASE Alive(p) /\ Ours(p)
      <3>1. PICK d \in Callers : caller[d].child = p
        BY <2>2 DEF SidecarInv, EveryServerAccountedFor, Ours
      <3>2. p # NoPid
        BY DEF Pids, NoPid
      <3> QED
        BY <3>1, <3>2
    <2> QED
      BY <2>1, <2>2
  <1> QED
    BY <1>1, <1>3, <1>4, <1>5 DEF SidecarInv

\* Servers come, go on and go; nobody's record of them changes.
LEMMA WorldKeepsInv ==
    ASSUME SidecarInv,
           OperatorStarts \/ (\E p \in Pids : Loads(p) \/ Dies(p))
    PROVE  SidecarInv'
  <1>1. UNCHANGED <<stateFile, caller, reported, abandoned, signalled>>
    BY DEF OperatorStarts, Loads, Dies, history
  <1>2. /\ server' \in [Pids -> Servers]
        /\ \A q \in Pids : Ours(q) => Ours(q)'
        /\ \A q \in Pids : Alive(q)' /\ Ours(q)' => Alive(q) /\ Ours(q)
    <2>1. CASE OperatorStarts
      BY <2>1, SpawnKeeps DEF OperatorStarts, Ours, Alive
    <2>2. ASSUME NEW p \in Pids, Loads(p) \/ Dies(p)
          PROVE  <1>2!1 /\ <1>2!2 /\ <1>2!3
      <3>1. PICK at \in {"serving", "dead"} : server' = [server EXCEPT ![p].at = at]
        BY <2>2 DEF Loads, Dies, Dead
      <3>2. Alive(p)
        BY <2>2 DEF Loads, Dies, Alive, Pids, NoPid
      <3> QED
        BY <3>1, <3>2, GoesOn DEF Ours, Alive
    <2> QED
      BY <2>1, <2>2
  <1>3. SidecarTypeOK /\ NamedAreOurs /\ ChildWhileWaiting /\ EveryServerAccountedFor
    BY DEF SidecarInv
  <1>4. SidecarTypeOK'
    BY <1>1, <1>2, <1>3 DEF SidecarTypeOK
  <1>5. NamedAreOurs'
    <2>1. stateFile.pid \in Pids \cup {NoPid} /\ signalled \subseteq Pids
      BY <1>3 DEF SidecarTypeOK, Files
    <2>2. \A c \in Callers : caller[c].child \in Pids \cup {NoPid}
      BY <1>3 DEF SidecarTypeOK, CallerStates
    <2> QED
      BY <1>1, <1>2, <1>3, <2>1, <2>2 DEF NamedAreOurs, OnlyOwnSignalled, Ours
  <1>6. ChildWhileWaiting'
    BY <1>1, <1>3 DEF ChildWhileWaiting
  <1>7. EveryServerAccountedFor'
    BY <1>1, <1>2, <1>3 DEF EveryServerAccountedFor, Ours
  <1> QED
    BY <1>4, <1>5, <1>6, <1>7 DEF SidecarInv

\* A caller that has no child, before and after the step, and starts none.
LEMMA CallKeepsInv ==
    ASSUME SidecarInv, NEW c \in Callers, BeginCall(c) \/ CannotLaunch(c) \/ Stopped(c)
    PROVE  SidecarInv'
  <1>1. /\ server \in [Pids -> Servers] /\ caller[c] \in CallerStates
        /\ caller \in [Callers -> CallerStates]
        /\ stateFile \in Files /\ stateFile.pid \in Pids \cup {NoPid}
        /\ reported \subseteq Pids /\ abandoned \subseteq Pids /\ signalled \subseteq Pids
    BY DEF SidecarInv, SidecarTypeOK, Files
  <1>2. /\ stateFile.pid # NoPid => Ours(stateFile.pid)
        /\ \A p \in signalled : Ours(p)
    BY DEF SidecarInv, NamedAreOurs, OnlyOwnSignalled, Ours
  <1>3. caller[c].child = NoPid
    BY DEF SidecarInv, ChildWhileWaiting, BeginCall, Adopt, FoundNothing, StopAdopted,
           StopSignals, NothingToStop, StatusForgets, CannotLaunch, Stopped, IsAt
  <1>4. /\ caller' \in [Callers -> CallerStates]
        /\ caller'[c].pc \in {"idle", "launch", "stop"} /\ caller'[c].child = NoPid
        /\ \A d \in Callers : d # c => caller'[d] = caller[d]
    <2>1. CASE \E status \in Statuses : Return(c, status)
      BY <2>1, ReturnKeeps
    <2>2. CASE FoundNothing(c)
      <3>1. MoveOn(c, "launch") /\ "launch" \in Places
        BY <2>2 DEF FoundNothing, Places
      <3> QED
        BY <3>1, <1>3, GotoKeeps
    <2>3. CASE StopSignals(c)
      <3>1. Stored \in Pids
        BY <2>3, <1>1 DEF StopSignals, Stored, Alive
      <3> DEFINE r == [caller[c] EXCEPT !.pc = "stop", !.target = Stored]
      <3>2. r \in CallerStates /\ r.pc = "stop" /\ r.child = NoPid
        BY <1>1, <1>3, <3>1 DEF CallerStates, Places
      <3>3. caller' = [caller EXCEPT ![c] = r]
        BY <2>3, <1>1 DEF StopSignals
      <3> HIDE DEF r
      <3> QED
        BY <3>2, <3>3, CallerChanges
    <2>4. CASE StatusForgets(c)
      BY <2>4, <1>1, <1>3 DEF StatusForgets, IsAt
    <2> QED
      BY <2>1, <2>2, <2>3, <2>4
      DEF BeginCall, Adopt, StopAdopted, NothingToStop, CannotLaunch, Stopped, Statuses
  <1>5. /\ server' \in [Pids -> Servers]
        /\ \A q \in Pids : Ours(q) => Ours(q)'
        /\ \A q \in Pids : Alive(q)' /\ Ours(q)' => Alive(q) /\ Ours(q)
    <2>1. CASE Stopped(c)
      <3>1. caller[c].target \in Pids \cup {NoPid} /\ Killed(caller[c].target)
        BY <2>1, <1>1 DEF Stopped, CallerStates
      <3> QED
        BY <3>1, KilledIsDead DEF Ours, Alive
    <2>2. CASE UNCHANGED server
      BY <2>2, <1>1 DEF Ours, Alive
    <2> QED
      BY <2>1, <2>2
      DEF BeginCall, Adopt, FoundNothing, StopAdopted, StopSignals, NothingToStop,
          StatusForgets, CannotLaunch
  <1>6. /\ stateFile' \in Files
        /\ stateFile'.pid \in {NoPid, stateFile.pid}
    <2>1. stateFile' \in {stateFile, NoFile, Adoption}
      BY DEF BeginCall, Adopt, FoundNothing, StopAdopted, StopSignals, NothingToStop,
             StatusForgets, CannotLaunch, Stopped
    <2> QED
      BY <2>1, <1>1, FilesWritten
  <1>7. /\ UNCHANGED <<reported, abandoned>>
        /\ signalled' = signalled \/ (Alive(Stored) /\ signalled' = signalled \cup {Stored})
    BY DEF BeginCall, Adopt, FoundNothing, StopAdopted, StopSignals, NothingToStop,
           StatusForgets, CannotLaunch, Stopped, history
  <1>8. Alive(Stored) => Stored \in Pids /\ Ours(Stored)
    BY <1>1, <1>2 DEF Stored, Alive
  <1>9. signalled' \subseteq Pids /\ \A p \in signalled' : Ours(p)'
    BY <1>1, <1>2, <1>5, <1>7, <1>8
  <1>10. stateFile'.pid # NoPid => server'[stateFile'.pid].by = "awf"
    BY <1>1, <1>2, <1>5, <1>6 DEF Ours
  <1> QED
    BY <1>1, <1>3, <1>4, <1>5, <1>6, <1>7, <1>9, <1>10, OneCallerKeeps

\* A start takes a child, and lets go of it only when it has reported it or the
\* child is dead.
LEMMA StartKeepsInv ==
    ASSUME SidecarInv, NEW c \in Callers,
           \/ Launch(c) \/ ChildExited(c) \/ ChildStillRuns(c) \/ BecameReachable(c)
           \/ NotYetReachable(c) \/ TimedOut(c) \/ Terminated(c)
    PROVE  SidecarInv'
  <1>1. /\ server \in [Pids -> Servers] /\ caller[c] \in CallerStates
        /\ caller \in [Callers -> CallerStates]
        /\ stateFile \in Files /\ stateFile.pid \in Pids \cup {NoPid}
        /\ reported \subseteq Pids /\ abandoned \subseteq Pids /\ signalled \subseteq Pids
    BY DEF SidecarInv, SidecarTypeOK, Files
  <1>2. /\ stateFile.pid # NoPid => Ours(stateFile.pid)
        /\ \A p \in signalled : Ours(p)
        /\ caller[c].child # NoPid => Ours(caller[c].child)
        /\ caller[c].child # NoPid <=> caller[c].pc \in {"poll", "probe", "terminate"}
        /\ caller[c].child \in Pids \cup {NoPid}
        /\ caller[c].polls \in Nat
    BY <1>1 DEF SidecarInv, NamedAreOurs, OnlyOwnSignalled, Ours, ChildWhileWaiting,
                CallerStates
  <1>3. CASE Launch(c)
    <2> DEFINE r == [caller[c] EXCEPT !.pc = "poll", !.child = Fresh]
    <2>1. /\ server' \in [Pids -> Servers]
          /\ Fresh \in Pids /\ Fresh # NoPid
          /\ server'[Fresh] = [by |-> "awf", at |-> "loading"]
          /\ \A q \in Pids : q # Fresh => server'[q] = server[q]
          /\ \A q \in Pids : Ours(q) => server'[q] = server[q]
      BY <1>3, SpawnKeeps DEF Launch, Pids, NoPid
    <2>2. r \in CallerStates /\ r.pc = "poll" /\ r.child = Fresh
      BY <1>1, <2>1 DEF CallerStates, Places
    <2>3. caller' = [caller EXCEPT ![c] = r] /\ caller[c].pc = "launch"
      BY <1>1, <1>3 DEF Launch, IsAt
    <2> HIDE DEF r
    <2>4. /\ caller' \in [Callers -> CallerStates]
          /\ caller'[c] = r
          /\ \A d \in Callers : d # c => caller'[d] = caller[d]
      BY <2>2, <2>3, CallerChanges
    <2>5. UNCHANGED <<stateFile, reported, abandoned, signalled>>
      BY <1>3 DEF Launch, history
    <2>6. /\ \A q \in Pids : Ours(q) => Ours(q)'
          /\ \A q \in Pids : Alive(q)' /\ Ours(q)' =>
                (Alive(q) /\ Ours(q)) \/ caller'[c].child = q
      BY <2>1, <2>2, <2>4 DEF Ours, Alive
    <2>7. /\ \A p \in signalled' : Ours(p)'
          /\ stateFile'.pid # NoPid => server'[stateFile'.pid].by = "awf"
      BY <1>1, <1>2, <2>5, <2>6 DEF Ours
    <2>8. /\ caller[c].child = NoPid /\ caller'[c].child = Fresh
          /\ caller'[c].pc = "poll" /\ server'[Fresh].by = "awf"
      BY <1>2, <2>1, <2>2, <2>3, <2>4
    <2>9. \A q \in Pids : q # NoPid
      BY DEF Pids, NoPid
    <2> QED
      BY <1>1, <2>1, <2>4, <2>5, <2>6, <2>7, <2>8, <2>9, OneCallerKeeps
  <1>4. CASE ~Launch(c)
    <2>1. caller[c].child \in Pids /\ caller[c].child # NoPid /\ Ours(caller[c].child)
      BY <1>2, <1>4
      DEF ChildExited, ChildStillRuns, BecameReachable, NotYetReachable, TimedOut,
          Terminated, IsAt
    <2>2. /\ caller' \in [Callers -> CallerStates]
          /\ \/ caller'[c].pc = "idle" /\ caller'[c].child = NoPid
             \/ caller'[c].pc \in {"poll", "probe", "terminate"} /\ caller'[c].child = caller[c].child
          /\ \A d \in Callers : d # c => caller'[d] = caller[d]
      <3>1. CASE \E status \in Statuses : Return(c, status)
        BY <3>1, ReturnKeeps
      <3>2. CASE \E pc \in {"probe", "terminate"} : MoveOn(c, pc)
        BY <3>2, GotoKeeps DEF Places
      <3>3. CASE NotYetReachable(c)
        <4> DEFINE r == [caller[c] EXCEPT !.pc = "poll", !.polls = PollsAfter(c)]
        <4>0. PollsAfter(c) \in Nat
          BY <1>2 DEF PollsAfter
        <4>1. r \in CallerStates /\ r.pc = "poll" /\ r.child = caller[c].child
          BY <1>1, <4>0 DEF CallerStates, Places
        <4>2. caller' = [caller EXCEPT ![c] = r]
          BY <3>3, <1>1 DEF NotYetReachable
        <4> HIDE DEF r
        <4> QED
          BY <4>1, <4>2, CallerChanges
      <3> QED
        BY <1>4, <3>1, <3>2, <3>3
        DEF ChildExited, ChildStillRuns, BecameReachable, TimedOut, Terminated, Statuses
    <2>3. /\ server' \in [Pids -> Servers]
          /\ \A q \in Pids : Ours(q) => Ours(q)'
          /\ \A q \in Pids : Alive(q)' /\ Ours(q)' => Alive(q) /\ Ours(q)
      <3>1. CASE Terminated(c)
        BY <3>1, <1>2, KilledIsDead DEF Terminated, Ours, Alive
      <3>2. CASE UNCHANGED server
        BY <3>2, <1>1 DEF Ours, Alive
      <3> QED
        BY <1>4, <3>1, <3>2
        DEF ChildExited, ChildStillRuns, BecameReachable, NotYetReachable, TimedOut, history
    <2>4. \A q \in Pids : caller[c].child = q /\ caller'[c].child # q =>
              ~Alive(q)' \/ q \in reported'
      <3>1. CASE Terminated(c)
        BY <3>1, <1>2, KilledIsDead DEF Terminated, Alive
      <3>2. CASE BecameReachable(c)
        BY <3>2 DEF BecameReachable
      <3>3. CASE ChildExited(c)
        BY <3>3 DEF ChildExited, Alive, history
      <3>4. CASE ChildStillRuns(c) \/ TimedOut(c)
        BY <3>4, GotoKeeps DEF ChildStillRuns, TimedOut, Places
      <3>5. CASE NotYetReachable(c)
        BY <3>5, <1>1 DEF NotYetReachable, CallerStates
      <3> QED
        BY <1>4, <3>1, <3>2, <3>3, <3>4, <3>5
    <2>5. /\ stateFile' = stateFile \/ stateFile' = Running(caller[c].child)
          /\ reported' \in {reported, reported \cup {caller[c].child}}
          /\ abandoned' = abandoned
          /\ signalled' \in {signalled, signalled \cup {caller[c].child}}
      BY <1>4 DEF ChildExited, ChildStillRuns, BecameReachable, NotYetReachable, TimedOut,
                  Terminated, history
    <2>6. /\ stateFile' \in Files
          /\ stateFile'.pid \in {stateFile.pid, caller[c].child}
      BY <1>1, <2>1, <2>5, FilesWritten
    <2>7. /\ stateFile'.pid # NoPid => server'[stateFile'.pid].by = "awf"
          /\ caller'[c].child # NoPid => server'[caller'[c].child].by = "awf"
      BY <1>1, <1>2, <2>1, <2>2, <2>3, <2>6 DEF Ours
    <2>8. /\ reported \subseteq reported' /\ reported' \subseteq Pids
          /\ abandoned \subseteq abandoned' /\ abandoned' \subseteq Pids
          /\ signalled' \subseteq Pids /\ \A p \in signalled' : Ours(p)'
      BY <1>1, <1>2, <2>1, <2>3, <2>5
    <2>9. caller'[c].child # NoPid <=> caller'[c].pc \in {"poll", "probe", "terminate"}
      BY <2>1, <2>2
    <2> QED
      BY <2>2, <2>3, <2>4, <2>6, <2>7, <2>8, <2>9, OneCallerKeeps
  <1> QED
    BY <1>3, <1>4

\* A process that ends leaves its child to the history.
LEMMA ExitKeepsInv ==
    ASSUME SidecarInv, NEW c \in Callers, Exits(c)
    PROVE  SidecarInv'
  <1>1. NewCaller \in CallerStates /\ NewCaller.pc = "idle" /\ NewCaller.child = NoPid
    BY DEF NewCaller, CallerStates, Places, Statuses
  <1>2. caller' = [caller EXCEPT ![c] = NewCaller]
    BY DEF Exits
  <1>3. /\ caller' \in [Callers -> CallerStates]
        /\ caller'[c] = NewCaller
        /\ \A d \in Callers : d # c => caller'[d] = caller[d]
    BY <1>1, <1>2, CallerChanges
  <1>4. /\ UNCHANGED <<server, stateFile, reported, signalled>>
        /\ abandoned' = abandoned \cup ({caller[c].child} \ {NoPid})
    BY DEF Exits
  <1>5. /\ SidecarTypeOK /\ NamedAreOurs /\ caller[c].child \in Pids \cup {NoPid}
        /\ stateFile.pid \in Pids \cup {NoPid}
    BY DEF SidecarInv, SidecarTypeOK, CallerStates, Files
  <1>6. /\ \A q \in Pids : Ours(q) => Ours(q)'
        /\ \A q \in Pids : Alive(q)' /\ Ours(q)' => Alive(q) /\ Ours(q)
        /\ stateFile'.pid # NoPid => server'[stateFile'.pid].by = "awf"
        /\ \A p \in signalled' : Ours(p)'
    BY <1>4, <1>5 DEF Ours, Alive, NamedAreOurs, OnlyOwnSignalled
  <1>7. /\ server' \in [Pids -> Servers]
        /\ stateFile' \in Files
        /\ reported' \subseteq Pids /\ abandoned' \subseteq Pids /\ signalled' \subseteq Pids
    BY <1>4, <1>5 DEF SidecarTypeOK
  <1> QED
    BY <1>1, <1>3, <1>4, <1>6, <1>7, OneCallerKeeps

\* Every step keeps the invariant.
LEMMA StepSidecarInv == SidecarInv /\ [SidecarNext]_sidecarVars => SidecarInv'
  <1> SUFFICES ASSUME SidecarInv, [SidecarNext]_sidecarVars PROVE SidecarInv'
    OBVIOUS
  <1>1. CASE OperatorStarts \/ (\E p \in Pids : Loads(p) \/ Dies(p))
    BY <1>1, WorldKeepsInv
  <1>2. ASSUME NEW c \in Callers, BeginCall(c) \/ ContinueCall(c) \/ Exits(c)
        PROVE  SidecarInv'
    BY <1>2, CallKeepsInv, StartKeepsInv, ExitKeepsInv DEF ContinueCall
  <1>3. CASE UNCHANGED sidecarVars
    BY <1>3
    DEF sidecarVars, SidecarInv, SidecarTypeOK, NamedAreOurs, OnlyOwnSignalled,
        ChildWhileWaiting, EveryServerAccountedFor, Ours, Alive
  <1> QED
    BY <1>1, <1>2, <1>3 DEF SidecarNext

-----------------------------------------------------------------------------
(* The theorems *)

\* The inductive invariant, with the types, holds always.
THEOREM SidecarInvariant == SidecarSpec => []SidecarInv
  BY InitSidecarInv, StepSidecarInv, PTL DEF SidecarSpec

\* AWF signals no server but its own, however many processes start, adopt and
\* stop at once and whatever is left in the state file (start, stop).
THEOREM SignalsAreForOwn == SidecarSpec => []OnlyOwnSignalled
  <1>1. SidecarInv => OnlyOwnSignalled
    BY DEF SidecarInv, NamedAreOurs
  <1> QED
    BY <1>1, SidecarInvariant, PTL

\* No server of AWF's runs unknown: it is waited for, was reported as running, or
\* its parent died (start).
THEOREM ServersAreAccountedFor == SidecarSpec => []EveryServerAccountedFor
  <1>1. SidecarInv => EveryServerAccountedFor
    BY DEF SidecarInv
  <1> QED
    BY <1>1, SidecarInvariant, PTL

=============================================================================
