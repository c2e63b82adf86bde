------------------------------ MODULE TaskTree ------------------------------
(***************************************************************************)
(* What a run of the recursive harness promises whoever reads its trace,   *)
(* with no policies, agents, launches and results in it: a tree grows      *)
(* below running tasks and within the limits, a task ends once and after   *)
(* its children, the run returns with its root, and a run that is given up *)
(* settles exactly the tasks that had not ended.                           *)
(***************************************************************************)
EXTENDS Naturals, FiniteSets

CONSTANTS Task, Root, MaxDepth, MaxChildren

VARIABLES run, status, children, depth

vars == << run, status, children, depth >>

Init ==
  /\ run = "running"
  /\ status = [t \in Task |-> IF t = Root THEN "running" ELSE "absent"]
  /\ children = [t \in Task |-> {}]
  /\ depth = [t \in Task |-> 0]

Running(t) == run = "running" /\ status[t] = "running"

ChildrenEnded(t) == \A c \in children[t] : status[c] \notin {"absent", "running"}

\* A task is given a child.
Spawn(t, c) ==
  /\ Running(t) /\ status[c] = "absent"
  /\ depth[t] < MaxDepth /\ Cardinality(children[t]) < MaxChildren
  /\ status' = [status EXCEPT ![c] = "running"]
  /\ children' = [children EXCEPT ![t] = @ \cup {c}]
  /\ depth' = [depth EXCEPT ![c] = depth[t] + 1]
  /\ UNCHANGED run

\* A task ends by itself; the root's end is that of the run.
End(t, s) ==
  /\ Running(t) /\ ChildrenEnded(t)
  /\ t = Root => s # "failed"
  /\ status' = [status EXCEPT ![t] = s]
  /\ run' = IF t = Root THEN "returned" ELSE run
  /\ UNCHANGED << children, depth >>

\* An exception leaves the root, and with it the run.
Escape ==
  /\ Running(Root) /\ ChildrenEnded(Root)
  /\ run' = "raised"
  /\ UNCHANGED << status, children, depth >>

\* The run is given up, by its timeout or its caller.
Stop(s) ==
  /\ run = "running"
  /\ run' = s
  /\ status' = [t \in Task |-> IF status[t] = "running" THEN s ELSE status[t]]
  /\ UNCHANGED << children, depth >>

Next ==
  \/ \E t, c \in Task : Spawn(t, c)
  \/ \E t \in Task, s \in {"completed", "failed", "step_limited"} : End(t, s)
  \/ Escape
  \/ \E s \in {"timeout", "cancelled"} : Stop(s)

Spec == Init /\ [][Next]_vars
=============================================================================
