---------------------------- MODULE RunLifecycle ----------------------------
(***************************************************************************)
(* What a durable run promises to whoever reads the database, without      *)
(* steps, crashes, retries or resumes (Sections 13.1 and 13.2 of the       *)
(* specification document, as engine/executor.py and ops/run.py keep       *)
(* them).                                                                  *)
(*                                                                         *)
(* A run's completed steps form a record that only grows, and it grows     *)
(* only while a process drives the run and has not paused it or ended it   *)
(* in success.  SUCCEEDED is reached only when each required node has a    *)
(* step in the record with a passing output, and only FAILED can follow    *)
(* it.  FAILED is final once nobody drives the run; while somebody does, a *)
(* machine activity that failed may be retried and the run go on from it.  *)
(***************************************************************************)
CONSTANTS Steps,    \* step ids: pairs of a node and an attempt
          Outputs,
          Passing,  \* the outputs that let the workflow go on
          Required  \* the nodes of the path that must be settled

VARIABLES status,
          driven,   \* a process is working on the run
          done      \* pairs of a completed step and its output

Incomplete == {"CREATED", "RUNNING", "WAITING_APPROVAL"}

\* The statuses of a run whose walk goes on.
OnTheWay == {"RUNNING", "FAILED"}

Settles(n) == \E d \in done : d[1][1] = n /\ d[2] \in Passing

Init == status = "none" /\ ~driven /\ done = {}

Create == /\ ~driven /\ driven'
          /\ status = "none" /\ status' = "CREATED"
          /\ UNCHANGED done

\* A process takes the run up again; nobody takes up a terminal one.
TakeUp == /\ ~driven /\ driven'
          /\ status \in Incomplete
          /\ UNCHANGED <<status, done>>

Begin == /\ driven /\ driven'
         /\ status \in Incomplete /\ status' = "RUNNING"
         /\ UNCHANGED done

Complete == /\ driven /\ driven'
            /\ status \in OnTheWay
            /\ \E s \in Steps, o \in Outputs :
                  /\ \A d \in done : d[1] # s
                  /\ done' = done \union {<<s, o>>}
            /\ UNCHANGED status

Pause == /\ driven /\ driven'
         /\ status \in OnTheWay /\ status' = "WAITING_APPROVAL"
         /\ UNCHANGED done

Succeed == /\ driven /\ driven'
           /\ status \in OnTheWay /\ status' = "SUCCEEDED"
           /\ \A n \in Required : Settles(n)
           /\ UNCHANGED done

Fail == /\ driven /\ driven'
        /\ status \in OnTheWay /\ status' = "FAILED"
        /\ UNCHANGED done

\* The process returns, dies, or ends in an exception, on which the thread of
\* an asynchronous start sets the run FAILED.
LetGo == /\ driven /\ ~driven'
         /\ status' \in {status, "FAILED"}
         /\ UNCHANGED done

vars == <<status, driven, done>>

Next == \/ Create \/ TakeUp \/ Begin \/ Complete \/ Pause \/ Succeed \/ Fail
        \/ LetGo

Spec == Init /\ [][Next]_vars
=============================================================================
