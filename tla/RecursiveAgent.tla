--------------------------- MODULE RecursiveAgent ---------------------------
(***************************************************************************)
(* One run of the recursive agent harness: the nodes of                    *)
(* recursive_agent_harness/agent.py that a policy drives, the limits that  *)
(* bound their recursion, the execution tree of tree.py, and the timeout   *)
(* and cancellation of runner.py.                                          *)
(*                                                                         *)
(* Everything runs on one asyncio loop: an action is the code between two  *)
(* awaits, and the nodes interleave where they await the policy, a tool or *)
(* their children.  Answers and prompts are abstracted to whether there is *)
(* a draft answer; the policy may answer anything.                         *)
(***************************************************************************)
EXTENDS Naturals, Sequences, FiniteSets

CONSTANTS
  MaxNodes,       \* total_node_limit
  MaxDepth,       \* max_depth
  MaxSteps,       \* max_steps_per_node
  MaxChildren,    \* max_children_per_node
  MaxParallel,    \* max_parallel_children
  MaxInvalid,     \* invalid_action_limit
  MaxToolCalls,   \* max_tool_calls_per_node
  MaxSubtasks     \* the most subtasks the policy asks for in one action

ASSUME LimitsAssumption ==
  /\ MaxDepth \in Nat
  /\ {MaxNodes, MaxSteps, MaxChildren, MaxParallel, MaxInvalid, MaxToolCalls, MaxSubtasks}
       \subseteq Nat \ {0}

Nodes == 1 .. MaxNodes

Root == 1

NoNode == 0

VARIABLES
  run,         \* how the run stands: "running", or how it ended
  allocated,   \* GlobalBudget.allocated_nodes
  status,      \* the status of each node in the execution tree
  attached,    \* the children_ids of each node in the execution tree
  parent,      \* parent_id
  depth,       \* depth
  agent        \* the rest of each RecursiveAgent

vars == << run, allocated, status, attached, parent, depth, agent >>

-----------------------------------------------------------------------------
(* Data *)

Terminal == {"completed", "failed", "cancelled", "timeout", "step_limited"}

NodeStatus == Terminal \cup {"absent", "running"}

\* How a launched subtask can have ended, or stand.
Refusals == {"depth_limited", "child_limited", "node_limited"}

Unsettled == {"todo", "running"}

Results == [node : Nodes \cup {NoNode}, status : Terminal \cup Refusals \cup Unsettled]

Refused(reason) == [node |-> NoNode, status |-> reason]

Agents ==
  [phase : {"deciding", "tool", "launching", "ended"},
   steps : Nat, invalid : Nat, toolCalls : Nat,
   draft : BOOLEAN,                  \* draft_answer is set
   children : Seq(Results),          \* the results of the children collected so far
   launch : Seq(Results)]            \* the tasks of the launch it awaits

NewAgent ==
  [phase |-> "deciding", steps |-> 0, invalid |-> 0, toolCalls |-> 0, draft |-> FALSE,
   children |-> << >>, launch |-> << >>]

Least(a, b) == IF a < b THEN a ELSE b

\* The children a node may still have: max_children_per_node less its results.
RemainingChildren(a) ==
  IF Len(a.children) < MaxChildren THEN MaxChildren - Len(a.children) ELSE 0

-----------------------------------------------------------------------------
Init ==
  /\ run = "running"
  /\ allocated = 1
  /\ status = [n \in Nodes |-> IF n = Root THEN "running" ELSE "absent"]
  /\ attached = [n \in Nodes |-> {}]
  /\ parent = [n \in Nodes |-> NoNode]
  /\ depth = [n \in Nodes |-> 0]
  /\ agent = [n \in Nodes |-> NewAgent]

\* The node ends with status s, and the task its parent awaits has that result.
\* Of the agent only its children's results are read again.
End(n, a, s) ==
  LET ended == [agent EXCEPT ![n] = [NewAgent EXCEPT !.phase = "ended",
                                                     !.children = a.children]]
      settle(r) == IF r.node = n THEN [r EXCEPT !.status = s] ELSE r
  IN  /\ status' = [status EXCEPT ![n] = s]
      /\ IF n = Root
           THEN agent' = ended /\ run' = "returned"
           ELSE /\ agent' = [ended EXCEPT ![parent[n]].launch =
                               [i \in DOMAIN @ |-> settle(@[i])]]
                /\ UNCHANGED run

\* The end of the loop body: one more step, and the step limit.
Continue(n, a) ==
  LET b == [a EXCEPT !.phase = "deciding", !.steps = @ + 1]
  IN  IF b.steps < MaxSteps
        THEN agent' = [agent EXCEPT ![n] = b] /\ UNCHANGED << run, status >>
        ELSE End(n, b, "step_limited")

-----------------------------------------------------------------------------
(* The policy answers *)

Everything ==
  {"THINK", "TOOL_CALL", "DIRECT_ANSWER", "LAUNCH_SUBAGENT", "LAUNCH_SUBAGENTS_PARALLEL",
   "AGGREGATE", "FINISH"}

\* Mutant: what allowed_actions lists is not enforced.
AllowedAnything(n) == Everything

\* allowed_actions.
Allowed(n) ==
  IF agent[n].draft THEN {"FINISH"}
  ELSE IF n = Root /\ agent[n].children # << >> THEN {"AGGREGATE", "FINISH"}
  ELSE Everything

Deciding(n) == run = "running" /\ status[n] = "running" /\ agent[n].phase = "deciding"

Answers(n, type) == Deciding(n) /\ type \in Allowed(n)

\* The policy raises, or answers something that does not validate or is not allowed.
InvalidAction(n) ==
  /\ Deciding(n)
  /\ LET a == [agent[n] EXCEPT !.invalid = @ + 1]
     IN  IF a.invalid >= MaxInvalid
           THEN End(n, [a EXCEPT !.steps = @ + 1], "completed")
           ELSE Continue(n, a)
  /\ UNCHANGED << allocated, attached, parent, depth >>

Think(n) ==
  /\ Answers(n, "THINK")
  /\ Continue(n, agent[n])
  /\ UNCHANGED << allocated, attached, parent, depth >>

CallTool(n) ==
  /\ Answers(n, "TOOL_CALL")
  /\ agent[n].toolCalls < MaxToolCalls
  /\ agent' = [agent EXCEPT ![n].phase = "tool", ![n].toolCalls = @ + 1]
  /\ UNCHANGED << run, allocated, status, attached, parent, depth >>

RefuseTool(n) ==
  /\ Answers(n, "TOOL_CALL")
  /\ agent[n].toolCalls >= MaxToolCalls
  /\ Continue(n, agent[n])
  /\ UNCHANGED << allocated, attached, parent, depth >>

ToolReturns(n) ==
  /\ run = "running" /\ agent[n].phase = "tool"
  /\ Continue(n, agent[n])
  /\ UNCHANGED << allocated, attached, parent, depth >>

DirectAnswer(n) ==
  /\ Answers(n, "DIRECT_ANSWER")
  /\ Continue(n, [agent[n] EXCEPT !.draft = TRUE])
  /\ UNCHANGED << allocated, attached, parent, depth >>

Aggregate(n) ==
  /\ Answers(n, "AGGREGATE")
  /\ Continue(n, [agent[n] EXCEPT !.draft = @ \/ agent[n].children # << >>])
  /\ UNCHANGED << allocated, attached, parent, depth >>

Finish(n) ==
  /\ Answers(n, "FINISH")
  /\ End(n, [agent[n] EXCEPT !.steps = @ + 1], "completed")
  /\ UNCHANGED << allocated, attached, parent, depth >>

-----------------------------------------------------------------------------
(* Launching children *)

\* launch_subagent is one task; launch_subagents_parallel makes a task of each
\* subtask that the limits leave room for, and a refusal of each of the others.
Launch(n, tasks, skipped) ==
  /\ agent' = [agent EXCEPT
       ![n].phase = "launching",
       ![n].launch = [i \in 1 .. tasks + skipped |->
                        Refused(IF i <= tasks THEN "todo" ELSE "child_limited")]]
  /\ UNCHANGED << run, allocated, status, attached, parent, depth >>

LaunchSubagent(n) == Answers(n, "LAUNCH_SUBAGENT") /\ Launch(n, 1, 0)

\* Mutant: only max_parallel_children bounds a launch.
LaunchSubagentsBeyond(n) ==
  /\ Answers(n, "LAUNCH_SUBAGENTS_PARALLEL")
  /\ \E k \in 1 .. MaxSubtasks :
       LET room == Least(k, MaxParallel) IN Launch(n, room, k - room)

LaunchSubagentsParallel(n) ==
  /\ Answers(n, "LAUNCH_SUBAGENTS_PARALLEL")
  /\ \E k \in 1 .. MaxSubtasks :
       LET room == Least(k, Least(MaxParallel, RemainingChildren(agent[n])))
       IN  Launch(n, room, k - room)

\* The tasks start in order, each when the loop gets to it.
Starting(n, i) ==
  /\ run = "running" /\ agent[n].phase = "launching"
  /\ i \in DOMAIN agent[n].launch
  /\ agent[n].launch[i].status = "todo"
  /\ \A j \in 1 .. i - 1 : agent[n].launch[j].status # "todo"

NextNode == allocated + 1

StartChild(n, i) ==
  /\ Starting(n, i)
  /\ depth[n] < MaxDepth
  /\ Len(agent[n].children) < MaxChildren
  /\ allocated < MaxNodes
  /\ allocated' = NextNode
  /\ attached' = [attached EXCEPT ![n] = @ \cup {NextNode}]
  /\ parent' = [parent EXCEPT ![NextNode] = n]
  /\ depth' = [depth EXCEPT ![NextNode] = depth[n] + 1]
  /\ status' = [status EXCEPT ![NextNode] = "running"]
  /\ agent' = [agent EXCEPT ![n].launch[i] = [node |-> NextNode, status |-> "running"]]
  /\ UNCHANGED run

\* Mutant: a subtask that finds no node left waits for one.
RefuseChildNever(n, i) ==
  /\ Starting(n, i)
  /\ depth[n] >= MaxDepth \/ Len(agent[n].children) >= MaxChildren
  /\ agent' = [agent EXCEPT ![n].launch[i] =
       Refused(IF depth[n] >= MaxDepth THEN "depth_limited" ELSE "child_limited")]
  /\ UNCHANGED << run, allocated, status, attached, parent, depth >>

RefuseChild(n, i) ==
  /\ Starting(n, i)
  /\ \/ depth[n] >= MaxDepth
     \/ Len(agent[n].children) >= MaxChildren
     \/ allocated >= MaxNodes
  /\ agent' = [agent EXCEPT ![n].launch[i] =
       Refused(IF depth[n] >= MaxDepth THEN "depth_limited"
               ELSE IF Len(agent[n].children) >= MaxChildren THEN "child_limited"
               ELSE "node_limited")]
  /\ UNCHANGED << run, allocated, status, attached, parent, depth >>

\* Mutant: the first result ends the wait for the others.
CollectFirst(n) ==
  /\ run = "running" /\ agent[n].phase = "launching"
  /\ \E i \in DOMAIN agent[n].launch : agent[n].launch[i].status \notin Unsettled
  /\ Continue(n, [agent[n] EXCEPT !.children = @ \o agent[n].launch,
                                  !.launch = << >>,
                                  !.draft = @ \/ n = Root])
  /\ UNCHANGED << allocated, attached, parent, depth >>

\* Mutant: a second launch's results replace the first's.
CollectReplacing(n) ==
  /\ run = "running" /\ agent[n].phase = "launching"
  /\ \A i \in DOMAIN agent[n].launch : agent[n].launch[i].status \notin Unsettled
  /\ Continue(n, [agent[n] EXCEPT !.children = agent[n].launch,
                                  !.launch = << >>,
                                  !.draft = @ \/ n = Root])
  /\ UNCHANGED << allocated, attached, parent, depth >>

\* gather has the result of every task.
Collect(n) ==
  /\ run = "running" /\ agent[n].phase = "launching"
  /\ \A i \in DOMAIN agent[n].launch : agent[n].launch[i].status \notin Unsettled
  /\ Continue(n, [agent[n] EXCEPT !.children = @ \o agent[n].launch,
                                  !.launch = << >>,
                                  !.draft = @ \/ n = Root])
  /\ UNCHANGED << allocated, attached, parent, depth >>

-----------------------------------------------------------------------------
(* Failures *)

\* Recording the policy's action or the tool's observation raises: a child's
\* parent gets a failed result, the root's exception leaves arun.
Raise(n) ==
  /\ run = "running" /\ status[n] = "running"
  /\ agent[n].phase \in {"deciding", "tool"}
  /\ IF n = Root
       THEN run' = "raised" /\ UNCHANGED << status, agent >>
       ELSE End(n, agent[n], "failed")
  /\ UNCHANGED << allocated, attached, parent, depth >>

\* Mutant: nodes that have ended are marked too.
MarkEveryNode(s) ==
  /\ run = "running"
  /\ run' = s
  /\ status' = [n \in Nodes |-> IF status[n] = "absent" THEN "absent" ELSE s]
  /\ agent' = [n \in Nodes |-> NewAgent]
  /\ UNCHANGED << allocated, attached, parent, depth >>

\* Mutant: only the root is marked.
MarkRootOnly(s) ==
  /\ run = "running"
  /\ run' = s
  /\ status' = [status EXCEPT ![Root] = s]
  /\ agent' = [n \in Nodes |-> NewAgent]
  /\ UNCHANGED << allocated, attached, parent, depth >>

\* mark_unfinished, once every coroutine of the run is cancelled and its agent gone.
MarkUnfinished(s) ==
  /\ run = "running"
  /\ run' = s
  /\ status' = [n \in Nodes |-> IF status[n] = "running" THEN s ELSE status[n]]
  /\ agent' = [n \in Nodes |-> NewAgent]
  /\ UNCHANGED << allocated, attached, parent, depth >>

Timeout == MarkUnfinished("timeout")

Cancel == MarkUnfinished("cancelled")

-----------------------------------------------------------------------------
AgentStep(n) ==
  \/ InvalidAction(n) \/ Think(n) \/ CallTool(n) \/ RefuseTool(n) \/ ToolReturns(n)
  \/ DirectAnswer(n) \/ Aggregate(n) \/ Finish(n)
  \/ LaunchSubagent(n) \/ LaunchSubagentsParallel(n)
  \/ \E i \in 1 .. MaxSubtasks : StartChild(n, i) \/ RefuseChild(n, i)
  \/ Collect(n)

Next ==
  \/ \E n \in Nodes : AgentStep(n) \/ Raise(n)
  \/ Timeout \/ Cancel

Spec == Init /\ [][Next]_vars

\* The policy and the tools answer in the end; nothing need fail or time out.
FairSpec == Spec /\ \A n \in Nodes : WF_vars(AgentStep(n))

-----------------------------------------------------------------------------
(* Properties *)

\* The variables hold what agent.py and tree.py let them hold.
TypeOK ==
  /\ run \in {"running", "returned", "raised", "timeout", "cancelled"}
  /\ allocated \in Nodes
  /\ status \in [Nodes -> NodeStatus]
  /\ attached \in [Nodes -> SUBSET Nodes]
  /\ parent \in [Nodes -> Nodes \cup {NoNode}]
  /\ depth \in [Nodes -> Nat]
  /\ agent \in [Nodes -> Agents]

\* The recursion stays within its limits, although the siblings of a launch do
\* not see one another when they check theirs and refused subtasks use up room
\* too (agent.py:198-214, 239-243).
WithinLimits ==
  /\ allocated <= MaxNodes
  /\ \A n \in Nodes :
       /\ depth[n] <= MaxDepth
       /\ Cardinality(attached[n]) <= MaxChildren

\* A node ends only after every child attached to it: nothing of a subtree runs
\* on behind a result its parent has reported (agent.py:232-249).
ParentsOutliveChildren ==
  \A n \in Nodes : status[n] \in Terminal =>
    \A c \in attached[n] : status[c] \in Terminal

\* Between launches an agent holds exactly one result of each child the tree
\* attaches to it, with the status the tree records, however often it launched
\* and in whatever order the children ended (agent.py:103-114, 233-250).
ResultsMatchTree ==
  run \in {"running", "returned"} =>
    \A n \in Nodes : agent[n].phase # "launching" =>
      LET children == agent[n].children
          settled  == {i \in DOMAIN children : children[i].node # NoNode}
      IN  /\ attached[n] = {children[i].node : i \in settled}
          /\ Cardinality(settled) = Cardinality(attached[n])
          /\ \A i \in settled : children[i].status = status[children[i].node]

\* A run that has returned, timed out or been cancelled leaves no node running
\* in its trace (runner.py:48-58, tree.py:131-134).
NothingLeftRunning ==
  run \in {"returned", "timeout", "cancelled"} =>
    \A n \in Nodes : status[n] # "running"

\* A timeout or a cancellation never rewrites how a node had ended
\* (tree.py:131-134).
FinalStatusKept ==
  [][\A n \in Nodes : status[n] \in Terminal => status'[n] = status[n]]_vars

\* The execution tree implements TaskTree: whatever the agents do, a node starts
\* below a running one and within the limits, ends once and after its children,
\* and only the root ends the run (tree.py:81-134, runner.py:48-58).
Trace == INSTANCE TaskTree WITH Task <- Nodes, children <- attached

TreeSpec == Trace!Spec

\* The root launches children once: when it has their results it has a draft
\* answer, and can only finish (agent.py:106-113, 183-187).
RootLaunchesOnce ==
  [][agent[Root].children # << >> => agent'[Root].phase # "launching"]_vars

\* A run whose policy and tools always answer ends by its limits alone: nodes
\* that are out of steps, children, depth or budget never wait for one another.
RunEnds == <>(run # "running")

\* "Failure is data, not crash" (README.md:326): no run ends in an exception.
FailureIsData == run # "raised"

=============================================================================
