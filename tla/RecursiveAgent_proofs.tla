----------------------- MODULE RecursiveAgent_proofs -----------------------
(***************************************************************************)
(* Proofs about RecursiveAgent, for all values of the limits.              *)
(***************************************************************************)
EXTENDS RecursiveAgent, FiniteSetTheorems, WellFoundedInduction, TLAPS

-----------------------------------------------------------------------------
(* The inductive invariant *)

Kids(n) == agent[n].children

Tasks(n) == agent[n].launch

\* The tree grows by the next number below a node that is there.
Tree ==
  /\ \A n \in Nodes : status[n] = "absent" <=> n > allocated
  /\ \A c \in Nodes \ {Root} : status[c] # "absent" =>
       parent[c] \in Nodes /\ parent[c] < c /\ c \in attached[parent[c]]
  /\ \A n \in Nodes : \A c \in attached[n] :
       c \in Nodes \ {Root} /\ status[c] # "absent" /\ parent[c] = n
  /\ \A n \in Nodes : depth[n] <= MaxDepth

\* What a node knows of its children: a result of each that has ended, in a
\* place that max_children_per_node allows for ...
SettledKids(n, kids) ==
  \A i \in DOMAIN kids :
    /\ kids[i].status \notin Unsettled
    /\ kids[i].node # NoNode =>
         /\ kids[i].node \in attached[n]
         /\ kids[i].status = status[kids[i].node]
         /\ i <= MaxChildren
         /\ \A j \in DOMAIN kids : kids[j].node = kids[i].node => j = i

\* ... and a task for each of the others, behind the results.
LaunchedKids(n, kids, tasks) ==
  \A i \in DOMAIN tasks :
    /\ tasks[i].status = "running" => tasks[i].node # NoNode
    /\ tasks[i].status = "todo" => tasks[i].node = NoNode
    /\ tasks[i].status = "todo" /\ Len(kids) < MaxChildren => Len(kids) + i <= MaxChildren
    /\ tasks[i].node # NoNode =>
         /\ tasks[i].node \in attached[n]
         /\ tasks[i].status = status[tasks[i].node]
         /\ Len(kids) + i <= MaxChildren
         /\ \A j \in DOMAIN tasks : tasks[j].node = tasks[i].node => j = i
         /\ \A j \in DOMAIN kids : kids[j].node # tasks[i].node

Covered(n, kids, tasks) ==
  \A c \in attached[n] :
    \/ \E i \in DOMAIN kids : kids[i].node = c
    \/ \E i \in DOMAIN tasks : tasks[i].node = c

Account(n) ==
  /\ SettledKids(n, Kids(n))
  /\ LaunchedKids(n, Kids(n), Tasks(n))
  /\ Covered(n, Kids(n), Tasks(n))

Phases(n) ==
  /\ agent[n].phase # "launching" => Tasks(n) = << >>
  /\ status[n] # "absent" => (agent[n].phase = "ended" <=> status[n] \in Terminal)
  /\ status[n] = "absent" => agent[n] = NewAgent

\* The root is the first to start and the last to end.
RootFirst ==
  /\ run \in {"running", "raised"} => status[Root] = "running"
  /\ run = "returned" => status[Root] \in Terminal
  /\ Kids(Root) # << >> =>
       \/ agent[Root].phase = "ended"
       \/ agent[Root].phase = "deciding" /\ agent[Root].draft

Books ==
  run \in {"running", "returned", "raised"} =>
    RootFirst /\ \A n \in Nodes : Account(n) /\ Phases(n)

\* After a timeout or a cancellation every agent is gone.
Over ==
  run \in {"timeout", "cancelled"} =>
    /\ \A n \in Nodes : status[n] # "running"
    /\ agent = [n \in Nodes |-> NewAgent]

IInv == TypeOK /\ Tree /\ Books /\ Over

\* The steps that leave the tree's nodes as they are.
SameNodes == UNCHANGED << allocated, attached, parent, depth >>

\* What no step of a node takes back.
Kept ==
  /\ \A m \in Nodes : status[m] \in Terminal => status'[m] = status[m]
  /\ Kids(Root) # << >> => Kids(Root)' # << >>

\* What a step makes of the agent that takes it: it ends, or goes on to its next
\* step, or begins a tool call or a launch, or settles a task that had not started ...
Onward(a, b) ==
  \/ b.phase = "ended"
  \/ /\ b.phase = "deciding" /\ b.steps = a.steps + 1 /\ b.steps < MaxSteps
     /\ b.launch = << >>
  \/ /\ a.phase = "deciding" /\ b.phase \in {"tool", "launching"} /\ b.steps = a.steps
     /\ Len(b.launch) <= MaxSubtasks
  \/ /\ a.phase = "launching" /\ b.phase = "launching" /\ b.steps = a.steps
     /\ DOMAIN b.launch = DOMAIN a.launch
     /\ \E i \in DOMAIN a.launch :
          /\ a.launch[i].status = "todo" /\ b.launch[i].status # "todo"
          /\ \A j \in DOMAIN a.launch : j # i => b.launch[j] = a.launch[j]

\* ... and of every other agent: a task it waits for may have got its result.
Along(a, b) ==
  /\ b.phase = a.phase /\ b.steps = a.steps /\ DOMAIN b.launch = DOMAIN a.launch
  /\ \A i \in DOMAIN a.launch :
       /\ b.launch[i].status = "todo" <=> a.launch[i].status = "todo"
       /\ a.launch[i].status \notin Unsettled => b.launch[i].status \notin Unsettled

Advance(n) ==
  /\ Onward(agent[n], agent'[n])
  /\ \A m \in Nodes \ {n} : Along(agent[m], agent'[m])

-----------------------------------------------------------------------------
(* Data *)

LEMMA Constants ==
  /\ Nodes \subseteq Nat /\ Root \in Nodes /\ NoNode \notin Nodes
  /\ \A n \in Nodes : n >= Root /\ n <= MaxNodes
  /\ NewAgent \in Agents
BY LimitsAssumption DEF Nodes, Root, NoNode, NewAgent, Agents

LEMMA AgentFields ==
  ASSUME NEW a \in Agents
  PROVE  /\ a.phase \in {"deciding", "tool", "launching", "ended"}
         /\ a.steps \in Nat /\ a.invalid \in Nat /\ a.toolCalls \in Nat
         /\ a.draft \in BOOLEAN
         /\ a.children \in Seq(Results) /\ a.launch \in Seq(Results)
BY DEF Agents

LEMMA ResultFields ==
  ASSUME NEW s \in Seq(Results), NEW i \in DOMAIN s
  PROVE  /\ s[i] \in Results
         /\ s[i].node \in Nodes \cup {NoNode}
         /\ s[i].status \in Terminal \cup Refusals \cup Unsettled
<1>1. s[i] \in Results  OBVIOUS
<1> QED  BY <1>1 DEF Results

LEMMA EndedAgent ==
  ASSUME NEW a \in Agents, NEW e,
         e = [NewAgent EXCEPT !.phase = "ended", !.children = a.children]
  PROVE  /\ e \in Agents /\ e.phase = "ended"
         /\ e.children = a.children /\ e.launch = << >>
<1>1. NewAgent \in Agents  BY Constants
<1>2. a.children \in Seq(Results)  BY AgentFields
<1>3. e \in Agents  BY <1>1, <1>2 DEF Agents
<1>4. e.phase = "ended" /\ e.children = a.children  BY <1>1 DEF Agents
<1>5. e.launch = << >>  BY DEF NewAgent
<1> QED  BY <1>3, <1>4, <1>5

LEMMA Statuses ==
  /\ Terminal \cap Unsettled = {} /\ "running" \in Unsettled
  /\ "running" \notin Terminal /\ "absent" \notin Terminal /\ "absent" # "running"
  /\ "running" \in NodeStatus /\ Terminal \subseteq NodeStatus
  /\ NodeStatus = Terminal \cup {"absent", "running"}
  /\ Terminal \cap Refusals = {}
BY DEF Terminal, Unsettled, NodeStatus, Refusals

-----------------------------------------------------------------------------
(* Initial states *)

LEMMA InitInv == Init => IInv
<1> SUFFICES ASSUME Init PROVE IInv  OBVIOUS
<1> USE DEF Init
<1>1. TypeOK
  <2>1. allocated \in Nodes  BY Constants DEF Root
  <2>2. status \in [Nodes -> NodeStatus]  BY Statuses
  <2>3. depth \in [Nodes -> Nat]  BY DEF NoNode
  <2> QED  BY <2>1, <2>2, <2>3, Constants DEF TypeOK, NoNode
<1>2. Tree
  BY Constants, LimitsAssumption DEF Tree, Root, Nodes
<1>3. \A n \in Nodes : agent[n] = NewAgent /\ Kids(n) = << >> /\ Tasks(n) = << >> /\ attached[n] = {}
  BY DEF Kids, Tasks, NewAgent
<1>4. \A n \in Nodes : Account(n)
  BY <1>3 DEF Account, SettledKids, LaunchedKids, Covered
<1>5. \A n \in Nodes : Phases(n)
  BY <1>3, Statuses DEF Phases, NewAgent
<1>6. RootFirst  BY <1>3, Constants DEF RootFirst
<1> QED  BY <1>1, <1>2, <1>4, <1>5, <1>6 DEF IInv, Books, Over

-----------------------------------------------------------------------------
(* The shapes of a step *)

\* The record of a node that is there is the only one that speaks of its children.
LEMMA Family ==
  ASSUME TypeOK, Tree, NEW m \in Nodes, NEW c \in attached[m]
  PROVE  c \in Nodes /\ c # Root /\ c # m /\ c # NoNode /\ parent[c] = m /\ status[c] # "absent"
<1>1. c \in Nodes \ {Root} /\ status[c] # "absent" /\ parent[c] = m  BY DEF Tree
<1>2. parent[c] < c /\ c \in Nat  BY <1>1, Constants DEF Tree
<1> QED  BY <1>1, <1>2, Constants

\* Only the agent of one running node changes.
LEMMA OneAgentChanges ==
  ASSUME IInv, run = "running", NEW n \in Nodes, status[n] = "running", NEW b \in Agents,
         agent' = [agent EXCEPT ![n] = b], UNCHANGED << run, status >>, SameNodes,
         b.phase # "ended", b.phase # "launching" => b.launch = << >>,
         SettledKids(n, b.children), LaunchedKids(n, b.children, b.launch),
         Covered(n, b.children, b.launch),
         n = Root /\ b.children # << >> => b.phase = "deciding" /\ b.draft
  PROVE  IInv'
<1>0. agent \in [Nodes -> Agents]  BY DEF IInv, TypeOK
<1>1. TypeOK'  BY <1>0 DEF IInv, TypeOK, SameNodes
<1>2. Tree'  BY DEF IInv, Tree, SameNodes
<1>3. /\ agent'[n] = b
      /\ \A m \in Nodes \ {n} : agent'[m] = agent[m]
  BY <1>0
<1>4. RootFirst /\ \A m \in Nodes : Account(m) /\ Phases(m)  BY DEF IInv, Books
<1>5. ASSUME NEW m \in Nodes PROVE Account(m)' /\ Phases(m)'
  <2>1. CASE m = n
    <3>1. Kids(m)' = b.children /\ Tasks(m)' = b.launch  BY <1>3, <2>1 DEF Kids, Tasks
    <3>2. Account(m)'
      BY <3>1, <2>1 DEF Account, SettledKids, LaunchedKids, Covered, SameNodes
    <3>3. Phases(m)'  BY <3>1, <1>3, <2>1, Statuses DEF Phases
    <3> QED  BY <3>2, <3>3
  <2>2. CASE m # n
    <3>1. Kids(m)' = Kids(m) /\ Tasks(m)' = Tasks(m) /\ agent'[m] = agent[m]
      BY <1>3, <2>2 DEF Kids, Tasks
    <3>2. Account(m)'
      BY <3>1, <1>4 DEF Account, SettledKids, LaunchedKids, Covered, SameNodes
    <3>3. Phases(m)'  BY <3>1, <1>4 DEF Phases
    <3> QED  BY <3>2, <3>3
  <2> QED  BY <2>1, <2>2
<1>6. RootFirst'
  <2>1. CASE n = Root  BY <2>1, <1>3, <1>4 DEF RootFirst, Kids
  <2>2. CASE n # Root  BY <2>2, <1>3, <1>4, Constants DEF RootFirst, Kids
  <2> QED  BY <2>1, <2>2
<1> QED  BY <1>1, <1>2, <1>5, <1>6 DEF IInv, Books, Over

\* A result enters the task that waited for it.
LEMMA SettledTasks ==
  ASSUME NEW t \in Seq(Results), NEW n \in Nodes, NEW s \in Terminal, NEW u,
         u = [i \in DOMAIN t |-> IF t[i].node = n THEN [t[i] EXCEPT !.status = s] ELSE t[i]]
  PROVE  /\ u \in Seq(Results) /\ DOMAIN u = DOMAIN t
         /\ \A i \in DOMAIN t :
              /\ u[i].node = t[i].node
              /\ u[i].status = IF t[i].node = n THEN s ELSE t[i].status
<1>1. ASSUME NEW i \in DOMAIN t
      PROVE  /\ u[i] \in Results /\ u[i].node = t[i].node
             /\ u[i].status = IF t[i].node = n THEN s ELSE t[i].status
  <2>1. t[i] \in Results  OBVIOUS
  <2>2. CASE t[i].node = n  BY <2>1, <2>2 DEF Results
  <2>3. CASE t[i].node # n  BY <2>1, <2>3
  <2> QED  BY <2>2, <2>3
<1>2. Len(t) \in Nat /\ DOMAIN t = 1 .. Len(t)  OBVIOUS
<1>3. u \in [1 .. Len(t) -> Results]  BY <1>1, <1>2
<1>4. u \in Seq(Results)  BY <1>2, <1>3
<1> QED  BY <1>1, <1>4

\* Of the other agents only the parent's changes, in the tasks it waits for.
OthersAgents(n, s) ==
  /\ \A m \in Nodes \ {n} : n = Root \/ m # parent[n] => agent'[m] = agent[m]
  /\ n # Root =>
       LET old == agent[parent[n]]
           new == agent'[parent[n]]
       IN  /\ new.phase = old.phase /\ new.steps = old.steps
           /\ new.draft = old.draft /\ new.children = old.children
           /\ DOMAIN new.launch = DOMAIN old.launch
           /\ \A i \in DOMAIN old.launch :
                /\ new.launch[i].node = old.launch[i].node
                /\ new.launch[i].status =
                     IF old.launch[i].node = n THEN s ELSE old.launch[i].status

\* What the end of a running node changes: its own agent, and its status in the
\* task its parent waits for.
LEMMA EndShape ==
  ASSUME IInv, run = "running", NEW n \in Nodes, status[n] = "running",
         NEW a \in Agents, NEW s \in Terminal, End(n, a, s)
  PROVE  /\ status' = [status EXCEPT ![n] = s]
         /\ agent' \in [Nodes -> Agents]
         /\ agent'[n].phase = "ended" /\ agent'[n].children = a.children
         /\ agent'[n].launch = << >>
         /\ OthersAgents(n, s)
<1> DEFINE e == [NewAgent EXCEPT !.phase = "ended", !.children = a.children]
<1> DEFINE p == parent[n]
<1>0. agent \in [Nodes -> Agents]  BY DEF IInv, TypeOK
<1>1. status' = [status EXCEPT ![n] = s]  BY DEF End
<1>2. e \in Agents /\ e.phase = "ended" /\ e.children = a.children /\ e.launch = << >>
  BY EndedAgent
<1> HIDE DEF e
<1>3. CASE n = Root
  <2>1. agent' = [agent EXCEPT ![n] = e]  BY <1>3 DEF End, e
  <2> QED  BY <1>0, <1>1, <1>2, <1>3, <2>1 DEF OthersAgents
<1>4. CASE n # Root
  <2> DEFINE t == agent[p].launch
  <2> DEFINE u == [i \in DOMAIN t |-> IF t[i].node = n THEN [t[i] EXCEPT !.status = s] ELSE t[i]]
  <2>0. p \in Nodes /\ p < n /\ p # n  BY <1>4, Statuses, Constants DEF IInv, Tree
  <2>1. agent' = [[agent EXCEPT ![n] = e] EXCEPT ![p].launch =
                    [i \in DOMAIN @ |-> IF @[i].node = n THEN [@[i] EXCEPT !.status = s] ELSE @[i]]]
    BY <1>4 DEF End, e
  <2>2. p \in Nodes /\ p # n /\ agent[p] \in Agents /\ t \in Seq(Results)
    BY <2>0, <1>0, AgentFields
  <2>3. agent' = [agent EXCEPT ![n] = e, ![p] = [agent[p] EXCEPT !.launch = u]]
    BY <2>1, <2>2, <1>0
  <2>4. /\ u \in Seq(Results) /\ DOMAIN u = DOMAIN t
        /\ \A i \in DOMAIN t :
             /\ u[i].node = t[i].node
             /\ u[i].status = IF t[i].node = n THEN s ELSE t[i].status
    BY <2>2, SettledTasks
  <2> HIDE DEF u, t, p
  <2>5. [agent[p] EXCEPT !.launch = u] \in Agents  BY <2>2, <2>4 DEF Agents
  <2>6. /\ agent' \in [Nodes -> Agents] /\ agent'[n] = e
        /\ agent'[p] = [agent[p] EXCEPT !.launch = u]
        /\ \A m \in Nodes \ {n} : m # p => agent'[m] = agent[m]
    BY <2>2, <2>3, <2>5, <1>0, <1>2
  <2>7. /\ agent'[p].phase = agent[p].phase /\ agent'[p].children = agent[p].children
        /\ agent'[p].draft = agent[p].draft /\ agent'[p].steps = agent[p].steps
        /\ agent'[p].launch = u
    BY <2>2, <2>6 DEF Agents
  <2>8. OthersAgents(n, s)  BY <1>4, <2>4, <2>6, <2>7 DEF OthersAgents, t, p
  <2> QED  BY <1>1, <1>2, <2>6, <2>8
<1> QED  BY <1>3, <1>4

\* An agent that does not change is where it was.
LEMMA SameAlong ==
  ASSUME NEW a, NEW b, b = a PROVE Along(a, b)
BY DEF Along

LEMMA OneAdvances ==
  ASSUME agent \in [Nodes -> Agents], NEW n \in Nodes, NEW b \in Agents,
         agent' = [agent EXCEPT ![n] = b], Onward(agent[n], b)
  PROVE  Advance(n)
<1>1. agent'[n] = b /\ \A m \in Nodes \ {n} : agent'[m] = agent[m]  OBVIOUS
<1>2. \A m \in Nodes \ {n} : Along(agent[m], agent'[m])  BY <1>1, SameAlong
<1> QED  BY <1>1, <1>2 DEF Advance

LEMMA EndAdvances ==
  ASSUME IInv, run = "running", NEW n \in Nodes, status[n] = "running",
         NEW a \in Agents, NEW s \in Terminal, End(n, a, s)
  PROVE  Advance(n)
<1>1. agent'[n].phase = "ended" /\ OthersAgents(n, s)  BY EndShape
<1>2. ASSUME NEW m \in Nodes, m # n PROVE Along(agent[m], agent'[m])
  <2>1. CASE n = Root \/ m # parent[n]
    <3>1. agent'[m] = agent[m]  BY <1>1, <1>2, <2>1 DEF OthersAgents
    <3> QED  BY <3>1, SameAlong
  <2>2. CASE n # Root /\ m = parent[n]
    <3>1. LaunchedKids(m, agent[m].children, agent[m].launch)
      BY DEF IInv, Books, Account, Kids, Tasks
    <3>2. \A i \in DOMAIN agent[m].launch :
            agent[m].launch[i].status = "todo" => agent[m].launch[i].node # n
      BY <3>1, Constants DEF LaunchedKids
    <3>3. s \notin Unsettled /\ s # "todo" /\ "todo" \in Unsettled
      BY Statuses DEF Unsettled
    <3> QED  BY <1>1, <2>2, <3>2, <3>3 DEF OthersAgents, Along
  <2> QED  BY <2>1, <2>2
<1> QED  BY <1>1, <1>2 DEF Advance, Onward

\* A running node ends.
LEMMA NodeEnds ==
  ASSUME IInv, run = "running", NEW n \in Nodes, status[n] = "running",
         NEW a \in Agents, NEW s \in Terminal, End(n, a, s), SameNodes,
         SettledKids(n, a.children), Covered(n, a.children, << >>)
  PROVE  /\ IInv' /\ status' = [status EXCEPT ![n] = s]
         /\ agent'[n].children = a.children
         /\ \A m \in Nodes \ {n} : agent'[m].children = agent[m].children
         /\ Advance(n)
<1>0. /\ agent \in [Nodes -> Agents] /\ status \in [Nodes -> NodeStatus]  BY DEF IInv, TypeOK
<1> DEFINE p == parent[n]
<1>1. status' = [status EXCEPT ![n] = s]  BY DEF End
<1>2. /\ agent' \in [Nodes -> Agents] /\ agent'[n].phase = "ended"
      /\ agent'[n].children = a.children /\ agent'[n].launch = << >>
      /\ OthersAgents(n, s)
  BY EndShape
<1>3. TypeOK /\ Tree /\ RootFirst /\ \A m \in Nodes : Account(m) /\ Phases(m)
  BY DEF IInv, Books
<1>4. n # Root => p \in Nodes /\ p < n /\ p # n /\ n \in attached[p]
  BY <1>3, Statuses, Constants DEF Tree
<1>5. /\ status'[n] = s
      /\ \A m \in Nodes \ {n} : status'[m] = status[m]
      /\ \A m \in Nodes : status'[m] = "absent" <=> status[m] = "absent"
  BY <1>0, <1>1, Statuses
<1>6. ASSUME NEW m \in Nodes, m # n
      PROVE  /\ ~ (m = p /\ n # Root) => agent'[m] = agent[m]
             /\ m = p /\ n # Root =>
                  LET old == agent[m]
                      new == agent'[m]
                  IN  /\ new.phase = old.phase /\ new.draft = old.draft
                      /\ new.children = old.children
                      /\ DOMAIN new.launch = DOMAIN old.launch
                      /\ \A i \in DOMAIN old.launch :
                           /\ new.launch[i].node = old.launch[i].node
                           /\ new.launch[i].status =
                                IF old.launch[i].node = n THEN s ELSE old.launch[i].status
  BY <1>2, <1>6 DEF OthersAgents
<1>7. TypeOK'
  <2>1. run' \in {"running", "returned"}  BY DEF End
  <2>2. status' \in [Nodes -> NodeStatus]  BY <1>0, <1>1, Statuses
  <2> QED  BY <2>1, <2>2, <1>2, <1>3 DEF TypeOK, SameNodes
<1>8. Tree'  BY <1>3, <1>5 DEF Tree, SameNodes
<1>9. ASSUME NEW m \in Nodes, m # n PROVE Account(m)' /\ Phases(m)'
  <2>0. /\ SettledKids(m, Kids(m)) /\ LaunchedKids(m, Kids(m), Tasks(m))
        /\ Covered(m, Kids(m), Tasks(m)) /\ Phases(m)
    BY <1>3 DEF Account
  <2>1. ASSUME NEW i \in DOMAIN Kids(m), Kids(m)[i].node # NoNode
        PROVE  Kids(m)[i].node # n /\ Kids(m)[i].node \in Nodes
    <3>1. Kids(m)[i].node \in attached[m] /\ Kids(m)[i].status = status[Kids(m)[i].node]
          /\ Kids(m)[i].status \notin Unsettled
      BY <2>0, <2>1 DEF SettledKids
    <3> QED  BY <3>1, <1>3, Family, Statuses
  <2>2. CASE m = p /\ n # Root
    <3>1. /\ agent'[m].phase = agent[m].phase /\ Kids(m)' = Kids(m)
          /\ DOMAIN Tasks(m)' = DOMAIN Tasks(m)
          /\ \A i \in DOMAIN Tasks(m) :
               /\ Tasks(m)'[i].node = Tasks(m)[i].node
               /\ Tasks(m)'[i].status =
                    IF Tasks(m)[i].node = n THEN s ELSE Tasks(m)[i].status
      BY <1>6, <1>9, <2>2 DEF Kids, Tasks
    <3>2. SettledKids(m, Kids(m))'
      BY <3>1, <2>0, <2>1, <1>5 DEF SettledKids, SameNodes
    <3>3. LaunchedKids(m, Kids(m), Tasks(m))'
      <4> SUFFICES ASSUME NEW i \in DOMAIN Tasks(m)
                   PROVE  LET tasks == Tasks(m)'  kids == Kids(m)' IN
            /\ tasks[i].status = "running" => tasks[i].node # NoNode
            /\ tasks[i].status = "todo" => tasks[i].node = NoNode
            /\ tasks[i].status = "todo" /\ Len(kids) < MaxChildren => Len(kids) + i <= MaxChildren
            /\ tasks[i].node # NoNode =>
                 /\ tasks[i].node \in attached'[m]
                 /\ tasks[i].status = status'[tasks[i].node]
                 /\ Len(kids) + i <= MaxChildren
                 /\ \A j \in DOMAIN tasks : tasks[j].node = tasks[i].node => j = i
                 /\ \A j \in DOMAIN kids : kids[j].node # tasks[i].node
        BY <3>1 DEF LaunchedKids
      <4>1. s # "running" /\ s # "todo" /\ n # NoNode  BY Statuses, Constants DEF Unsettled
      <4>2. attached' = attached  BY DEF SameNodes
      <4>3. Tasks(m)[i].node # NoNode => Tasks(m)[i].node \in Nodes
        BY <2>0, <1>3, Family DEF LaunchedKids
      <4> QED  BY <3>1, <4>1, <4>2, <4>3, <2>0, <1>5 DEF LaunchedKids
    <3>4. Covered(m, Kids(m), Tasks(m))'  BY <3>1, <2>0 DEF Covered, SameNodes
    <3>5. Phases(m)'
      <4>1. agent[m].phase # "launching" => Tasks(m)' = << >>
        <5> SUFFICES ASSUME agent[m].phase # "launching" PROVE Tasks(m)' = << >>  OBVIOUS
        <5>1. Tasks(m) = << >>  BY <2>0 DEF Phases
        <5>2. Tasks(m)' \in Seq(Results)  BY <1>2, AgentFields DEF Tasks
        <5> QED  BY <3>1, <5>1, <5>2
      <4>2. status[m] # "absent"
        <5>1. n \in attached[m]  BY <1>4, <2>2
        <5>2. allocated \in Nodes /\ n <= allocated /\ m < n
          BY <1>3, <1>4, <2>2, Statuses, Constants DEF Tree, TypeOK
        <5> QED  BY <5>2, <1>3, Constants DEF Tree
      <4> QED  BY <3>1, <4>1, <4>2, <2>0, <1>5, <1>9 DEF Phases
    <3> QED  BY <3>2, <3>3, <3>4, <3>5 DEF Account
  <2>3. CASE ~ (m = p /\ n # Root)
    <3>1. agent'[m] = agent[m] /\ Kids(m)' = Kids(m) /\ Tasks(m)' = Tasks(m)
      BY <1>6, <1>9, <2>3 DEF Kids, Tasks
    <3>2. \A i \in DOMAIN Tasks(m) : Tasks(m)[i].node # NoNode =>
            Tasks(m)[i].node # n /\ Tasks(m)[i].node \in Nodes
      <4>1. n \notin attached[m]  BY <2>3, <1>3, Family
      <4> QED  BY <4>1, <2>0, <1>3, Family DEF LaunchedKids
    <3>3. SettledKids(m, Kids(m))'
      BY <3>1, <2>0, <2>1, <1>5 DEF SettledKids, SameNodes
    <3>4. LaunchedKids(m, Kids(m), Tasks(m))'
      BY <3>1, <3>2, <2>0, <1>5 DEF LaunchedKids, SameNodes
    <3>5. Covered(m, Kids(m), Tasks(m))'  BY <3>1, <2>0 DEF Covered, SameNodes
    <3>6. Phases(m)'  BY <3>1, <2>0, <1>5, <1>9 DEF Phases, Tasks
    <3> QED  BY <3>3, <3>4, <3>5, <3>6 DEF Account
  <2> QED  BY <2>2, <2>3
<1>10. Account(n)' /\ Phases(n)'
  <2>1. Kids(n)' = a.children /\ Tasks(n)' = << >>  BY <1>2 DEF Kids, Tasks
  <2>2. \A i \in DOMAIN a.children : a.children[i].node # NoNode =>
          a.children[i].node # n /\ a.children[i].node \in Nodes
    BY <1>3, Family DEF SettledKids
  <2>3. SettledKids(n, Kids(n))'  BY <2>1, <2>2, <1>5 DEF SettledKids, SameNodes
  <2>4. LaunchedKids(n, Kids(n), Tasks(n))'  BY <2>1 DEF LaunchedKids
  <2>5. Covered(n, Kids(n), Tasks(n))'  BY <2>1 DEF Covered, SameNodes
  <2>6. Phases(n)'  BY <2>1, <1>2, <1>5, Statuses DEF Phases
  <2> QED  BY <2>3, <2>4, <2>5, <2>6 DEF Account
<1>11. RootFirst'
  <2>1. CASE n = Root
    <3>1. run' = "returned" /\ agent'[Root].phase = "ended"  BY <2>1, <1>2 DEF End
    <3> QED  BY <2>1, <3>1, <1>5 DEF RootFirst
  <2>2. CASE n # Root
    <3>1. UNCHANGED run  BY <2>2 DEF End
    <3>2. /\ agent'[Root].phase = agent[Root].phase /\ agent'[Root].draft = agent[Root].draft
          /\ agent'[Root].children = agent[Root].children
      BY <2>2, <1>6, Constants
    <3> QED  BY <2>2, <3>1, <3>2, <1>3, <1>5, Constants DEF RootFirst, Kids
  <2> QED  BY <2>1, <2>2
<1>12. Over'  BY DEF Over, End
<1>13. \A m \in Nodes \ {n} : agent'[m].children = agent[m].children
  BY <1>2 DEF OthersAgents
<1>14. Advance(n)  BY EndAdvances
<1> QED  BY <1>1, <1>14, <1>7, <1>8, <1>9, <1>10, <1>2, <1>11, <1>12, <1>13 DEF IInv, Books

\* A running node goes on, or has reached its step limit.
LEMMA NodeContinues ==
  ASSUME IInv, run = "running", NEW n \in Nodes, status[n] = "running",
         NEW a \in Agents, a.launch = << >>, a.steps = agent[n].steps,
         Continue(n, a), SameNodes,
         SettledKids(n, a.children), Covered(n, a.children, << >>),
         n = Root /\ a.children # << >> => a.draft
  PROVE  /\ IInv' /\ \A m \in Nodes \ {n} : status'[m] = status[m]
         /\ agent'[n].children = a.children
         /\ \A m \in Nodes \ {n} : agent'[m].children = agent[m].children
         /\ Advance(n)
<1> DEFINE b == [a EXCEPT !.phase = "deciding", !.steps = @ + 1]
<1>0. a.steps + 1 \in Nat  BY AgentFields
<1>1. /\ b \in Agents /\ b.phase = "deciding" /\ b.children = a.children
      /\ b.launch = a.launch /\ b.draft = a.draft /\ b.steps = agent[n].steps + 1
  <2>1. b \in Agents  BY <1>0 DEF Agents
  <2>2. b.phase = "deciding" /\ b.children = a.children  BY DEF Agents
  <2>3. b.launch = a.launch /\ b.draft = a.draft  BY DEF Agents
  <2>4. b.steps = agent[n].steps + 1  BY DEF Agents
  <2> QED  BY <2>1, <2>2, <2>3, <2>4
<1> HIDE DEF b
<1>2. LaunchedKids(n, b.children, << >>)  BY DEF LaunchedKids
<1>3. CASE b.steps < MaxSteps
  <2>1. agent' = [agent EXCEPT ![n] = b] /\ UNCHANGED << run, status >>
    BY <1>3 DEF Continue, b
  <2>2. IInv'  BY <1>1, <1>2, <2>1, OneAgentChanges
  <2>3. agent \in [Nodes -> Agents]  BY DEF IInv, TypeOK
  <2>4. Onward(agent[n], b)  BY <1>1, <1>3 DEF Onward
  <2>5. Advance(n)  BY <1>1, <2>1, <2>3, <2>4, OneAdvances
  <2> QED  BY <1>1, <2>1, <2>2, <2>3, <2>5
<1>4. CASE ~ (b.steps < MaxSteps)
  <2>1. End(n, b, "step_limited")  BY <1>4 DEF Continue, b
  <2>2. "step_limited" \in Terminal  BY DEF Terminal
  <2>3. /\ IInv' /\ status' = [status EXCEPT ![n] = "step_limited"]
        /\ agent'[n].children = b.children
        /\ \A m \in Nodes \ {n} : agent'[m].children = agent[m].children
        /\ Advance(n)
    BY <1>1, <2>1, <2>2, NodeEnds
  <2>4. status \in [Nodes -> NodeStatus]  BY DEF IInv, TypeOK
  <2> QED  BY <1>1, <2>3, <2>4
<1> QED  BY <1>3, <1>4

\* What the invariant says of a node between launches.
LEMMA BetweenLaunches ==
  ASSUME IInv, run = "running", NEW n \in Nodes, status[n] = "running",
         agent[n].phase \in {"deciding", "tool"}
  PROVE  /\ agent[n] \in Agents /\ agent[n].launch = << >>
         /\ SettledKids(n, agent[n].children) /\ Covered(n, agent[n].children, << >>)
         /\ n = Root /\ agent[n].children # << >> =>
              agent[n].phase = "deciding" /\ agent[n].draft
<1>1. agent[n] \in Agents  BY DEF IInv, TypeOK
<1>2. RootFirst /\ Account(n) /\ Phases(n)  BY DEF IInv, Books
<1>3. agent[n].launch = << >>  BY <1>2 DEF Phases, Tasks
<1> QED  BY <1>1, <1>2, <1>3 DEF Account, Kids, Tasks, RootFirst

\* A running node whose policy answers, or whose tool returns.
LEMMA Phase ==
  ASSUME IInv, run = "running", NEW n \in Nodes, agent[n].phase \in {"tool", "launching"}
  PROVE  status[n] = "running"
<1>1. Phases(n) /\ status[n] \in NodeStatus  BY DEF IInv, Books, TypeOK
<1>2. NewAgent.phase = "deciding"  BY DEF NewAgent
<1> QED  BY <1>1, <1>2, Statuses DEF Phases

\* What becomes of the node that takes a step, the agent's new value named.
LEMMA InvalidActionGoesOn ==
  ASSUME NEW n, NEW a, a = [agent[n] EXCEPT !.invalid = @ + 1],
         NEW b, b = [a EXCEPT !.steps = @ + 1], InvalidAction(n)
  PROVE  End(n, b, "completed") \/ Continue(n, a)
BY SMT DEF InvalidAction, Continue, End

LEMMA NodeGoesOn ==
  ASSUME NEW n, NEW a, a = agent[n], Think(n) \/ RefuseTool(n) \/ ToolReturns(n)
  PROVE  Continue(n, a)
BY SMT DEF Think, RefuseTool, ToolReturns, Continue, End

LEMMA DirectAnswerGoesOn ==
  ASSUME NEW n, NEW a, a = [agent[n] EXCEPT !.draft = TRUE], DirectAnswer(n)
  PROVE  Continue(n, a)
BY SMT DEF DirectAnswer, Continue, End

LEMMA AggregateGoesOn ==
  ASSUME NEW n, NEW a, a = [agent[n] EXCEPT !.draft = @ \/ agent[n].children # << >>],
         Aggregate(n)
  PROVE  Continue(n, a)
BY SMT DEF Aggregate, Continue, End

LEMMA FinishEnds ==
  ASSUME NEW n, NEW b, b = [agent[n] EXCEPT !.steps = @ + 1], Finish(n)
  PROVE  End(n, b, "completed")
BY SMT DEF Finish, End

LEMMA CollectGoesOn ==
  ASSUME NEW n, NEW a,
         a = [agent[n] EXCEPT !.children = @ \o agent[n].launch, !.launch = << >>,
                              !.draft = @ \/ n = Root],
         Collect(n)
  PROVE  Continue(n, a)
BY SMT DEF Collect, Continue, End

LEMMA RaiseEnds ==
  ASSUME NEW n, NEW a, a = agent[n], n # Root, Raise(n)
  PROVE  End(n, a, "failed")
BY SMT DEF Raise, End

\* The actions that change nothing but the agent, its phase or its end.
LEMMA PlainStep ==
  ASSUME IInv, NEW n \in Nodes,
         \/ InvalidAction(n) \/ Think(n) \/ CallTool(n) \/ RefuseTool(n) \/ ToolReturns(n)
         \/ DirectAnswer(n) \/ Aggregate(n) \/ Finish(n)
  PROVE  IInv' /\ Kept /\ Advance(n)
<1> DEFINE G == IInv' /\ Kept /\ Advance(n)
<1>0. run = "running" /\ status[n] = "running" /\ agent[n].phase \in {"deciding", "tool"} /\ SameNodes
  BY Phase DEF InvalidAction, Think, CallTool, RefuseTool, ToolReturns, DirectAnswer,
               Aggregate, Finish, Answers, Deciding, SameNodes
<1>1. /\ agent[n] \in Agents /\ agent[n].launch = << >>
      /\ SettledKids(n, agent[n].children) /\ Covered(n, agent[n].children, << >>)
      /\ n = Root /\ agent[n].children # << >> =>
           agent[n].phase = "deciding" /\ agent[n].draft
  BY <1>0, BetweenLaunches
<1>2. status \in [Nodes -> NodeStatus]  BY DEF IInv, TypeOK
<1>3. ASSUME NEW a \in Agents, a.launch = << >>, a.children = agent[n].children,
             a.steps = agent[n].steps, agent[n].draft => a.draft, Continue(n, a)
      PROVE  G
  <2>1. /\ IInv' /\ \A m \in Nodes \ {n} : status'[m] = status[m]
        /\ agent'[n].children = a.children
        /\ \A m \in Nodes \ {n} : agent'[m].children = agent[m].children
        /\ Advance(n)
    BY <1>0, <1>1, <1>3, NodeContinues
  <2> QED  BY <1>0, <1>3, <2>1, Statuses, Constants DEF Kept, Kids
<1>4. ASSUME NEW a \in Agents, a.children = agent[n].children, NEW s \in Terminal, End(n, a, s)
      PROVE  G
  <2>1. /\ IInv' /\ status' = [status EXCEPT ![n] = s]
        /\ agent'[n].children = a.children
        /\ \A m \in Nodes \ {n} : agent'[m].children = agent[m].children
        /\ Advance(n)
    BY <1>0, <1>1, <1>4, NodeEnds
  <2> QED  BY <1>0, <1>2, <1>4, <2>1, Statuses, Constants DEF Kept, Kids
<1> HIDE DEF G
<1>5. CASE InvalidAction(n)
  <2>0. agent[n].invalid + 1 \in Nat  BY <1>1, AgentFields
  <2>1. [agent[n] EXCEPT !.invalid = @ + 1] \in Agents  BY <1>1, <2>0 DEF Agents
  <2>2. SUFFICES ASSUME NEW a \in Agents, a = [agent[n] EXCEPT !.invalid = @ + 1] PROVE G
    BY <2>1 DEF G
  <2>3. a.launch = << >> /\ a.children = agent[n].children /\ a.draft = agent[n].draft
        /\ a.steps = agent[n].steps
    BY <1>1, <2>2 DEF Agents
  <2>4. a.steps + 1 \in Nat  BY AgentFields
  <2>5. [a EXCEPT !.steps = @ + 1] \in Agents  BY <2>4 DEF Agents
  <2>6. SUFFICES ASSUME NEW b \in Agents, b = [a EXCEPT !.steps = @ + 1] PROVE G
    BY <2>5
  <2>7. b.children = agent[n].children  BY <2>3, <2>6 DEF Agents
  <2>8. "completed" \in Terminal  BY DEF Terminal
  <2>9. End(n, b, "completed") \/ Continue(n, a)
    BY <1>5, <2>2, <2>6, InvalidActionGoesOn
  <2> QED  BY <2>3, <2>7, <2>8, <2>9, <1>3, <1>4
<1>6. CASE Think(n) \/ RefuseTool(n) \/ ToolReturns(n)
  <2>1. SUFFICES ASSUME NEW a \in Agents, a = agent[n] PROVE G  BY <1>1 DEF G
  <2>2. Continue(n, a)  BY <1>6, <2>1, NodeGoesOn
  <2> QED  BY <2>1, <2>2, <1>1, <1>3
<1>7. CASE CallTool(n)
  <2> DEFINE b == [agent[n] EXCEPT !.phase = "tool", !.toolCalls = @ + 1]
  <2>0. agent[n].toolCalls + 1 \in Nat  BY <1>1, AgentFields
  <2>1. /\ b \in Agents /\ b.phase = "tool" /\ b.launch = << >>
        /\ b.children = agent[n].children /\ b.steps = agent[n].steps
    <3>1. b \in Agents  BY <1>1, <2>0 DEF Agents
    <3>2. b.phase = "tool" /\ b.children = agent[n].children  BY <1>1 DEF Agents
    <3>3. b.launch = << >> /\ b.steps = agent[n].steps  BY <1>1 DEF Agents
    <3> QED  BY <3>1, <3>2, <3>3
  <2>2. agent \in [Nodes -> Agents]  BY DEF IInv, TypeOK
  <2>3. agent' = [agent EXCEPT ![n] = b]  BY <1>7, <2>2 DEF CallTool
  <2>4. n = Root => agent[n].children = << >>
    <3>1. "TOOL_CALL" \in Allowed(n)  BY <1>7 DEF CallTool, Answers
    <3>2. "TOOL_CALL" # "FINISH" /\ "TOOL_CALL" # "AGGREGATE"  OBVIOUS
    <3>3. ~ agent[n].draft  BY <3>1, <3>2 DEF Allowed
    <3> QED  BY <3>3, <1>1
  <2>5. LaunchedKids(n, b.children, << >>)  BY DEF LaunchedKids
  <2>6. UNCHANGED << run, status >>  BY <1>7 DEF CallTool
  <2> HIDE DEF b
  <2>7. IInv'  BY <1>0, <1>1, <2>1, <2>3, <2>4, <2>5, <2>6, OneAgentChanges
  <2>8. Kids(Root)' = Kids(Root)  BY <2>1, <2>2, <2>3 DEF Kids
  <2>9. Onward(agent[n], b)
    <3>1. agent[n].phase = "deciding"  BY <1>7 DEF CallTool, Answers, Deciding
    <3>2. Len(b.launch) <= MaxSubtasks  BY <2>1, LimitsAssumption
    <3> QED  BY <2>1, <3>1, <3>2 DEF Onward
  <2>10. Advance(n)  BY <2>1, <2>2, <2>3, <2>9, OneAdvances
  <2> QED  BY <2>6, <2>7, <2>8, <2>10 DEF G, Kept
<1>8. CASE DirectAnswer(n)
  <2>1. [agent[n] EXCEPT !.draft = TRUE] \in Agents  BY <1>1 DEF Agents
  <2>2. SUFFICES ASSUME NEW a \in Agents, a = [agent[n] EXCEPT !.draft = TRUE] PROVE G
    BY <2>1 DEF G
  <2>3. a.launch = << >> /\ a.children = agent[n].children /\ a.draft
        /\ a.steps = agent[n].steps
    BY <1>1, <2>2 DEF Agents
  <2>4. Continue(n, a)  BY <1>8, <2>2, DirectAnswerGoesOn
  <2> QED  BY <2>3, <2>4, <1>3
<1>9. CASE Aggregate(n)
  <2>1. [agent[n] EXCEPT !.draft = @ \/ agent[n].children # << >>] \in Agents
    BY <1>1 DEF Agents
  <2>2. SUFFICES ASSUME NEW a \in Agents,
                        a = [agent[n] EXCEPT !.draft = @ \/ agent[n].children # << >>]
                 PROVE  G
    BY <2>1 DEF G
  <2>3. a.launch = << >> /\ a.children = agent[n].children /\ a.steps = agent[n].steps
    BY <1>1, <2>2 DEF Agents
  <2>4. agent[n].draft => a.draft  BY <1>1, <2>2 DEF Agents
  <2>5. Continue(n, a)  BY <1>9, <2>2, AggregateGoesOn
  <2> QED  BY <2>3, <2>4, <2>5, <1>3
<1>10. CASE Finish(n)
  <2>0. agent[n].steps + 1 \in Nat  BY <1>1, AgentFields
  <2>1. [agent[n] EXCEPT !.steps = @ + 1] \in Agents  BY <1>1, <2>0 DEF Agents
  <2>2. SUFFICES ASSUME NEW b \in Agents, b = [agent[n] EXCEPT !.steps = @ + 1] PROVE G
    BY <2>1 DEF G
  <2>3. b.children = agent[n].children  BY <1>1, <2>2 DEF Agents
  <2>4. "completed" \in Terminal  BY DEF Terminal
  <2>5. End(n, b, "completed")  BY <1>10, <2>2, FinishEnds
  <2> QED  BY <2>3, <2>4, <2>5, <1>4
<1> QED  BY <1>5, <1>6, <1>7, <1>8, <1>9, <1>10 DEF G


-----------------------------------------------------------------------------
(* Launching and collecting *)

\* A policy that may launch holds no result of a launch yet, if it is the root's.
LEMMA RootHasNoKids ==
  ASSUME IInv, run = "running", agent[Root].phase = "launching" \/ ~ agent[Root].draft
  PROVE  agent[Root].children = << >> \/ agent[Root].phase = "ended"
BY DEF IInv, Books, RootFirst, Kids

LEMMA LaunchStep ==
  ASSUME IInv, run = "running", NEW n \in Nodes, status[n] = "running",
         agent[n].phase = "deciding", n = Root => agent[n].children = << >>,
         NEW t \in Nat, NEW k \in Nat, Launch(n, t, k), t + k <= MaxSubtasks,
         Len(agent[n].children) < MaxChildren => Len(agent[n].children) + t <= MaxChildren
  PROVE  IInv' /\ Kept /\ Advance(n)
<1> DEFINE f == [i \in 1 .. t + k |-> Refused(IF i <= t THEN "todo" ELSE "child_limited")]
<1> DEFINE b == [agent[n] EXCEPT !.phase = "launching", !.launch = f]
<1>1. /\ agent[n] \in Agents /\ agent[n].launch = << >>
      /\ SettledKids(n, agent[n].children) /\ Covered(n, agent[n].children, << >>)
  BY BetweenLaunches
<1>2. \A i \in 1 .. t + k :
        f[i] \in Results /\ f[i].node = NoNode
        /\ f[i].status = IF i <= t THEN "todo" ELSE "child_limited"
  <2> TAKE i \in 1 .. t + k
  <2>1. f[i] = Refused(IF i <= t THEN "todo" ELSE "child_limited")  OBVIOUS
  <2> HIDE DEF f
  <2>2. CASE i <= t  BY <2>1, <2>2 DEF Refused, Results, Unsettled
  <2>3. CASE ~ (i <= t)  BY <2>1, <2>3 DEF Refused, Results, Refusals
  <2> QED  BY <2>2, <2>3
<1>3. f \in Seq(Results) /\ DOMAIN f = 1 .. t + k
  <2>1. t + k \in Nat  OBVIOUS
  <2>2. DOMAIN f = 1 .. t + k  OBVIOUS
  <2>3. f = [i \in 1 .. t + k |-> f[i]]  OBVIOUS
  <2> HIDE DEF f
  <2>4. f \in [1 .. t + k -> Results]  BY <1>2, <2>3
  <2> QED  BY <2>1, <2>2, <2>4
<1> HIDE DEF f
<1>4. b \in Agents  BY <1>1, <1>3 DEF Agents
<1>5. b.phase = "launching" /\ b.launch = f /\ b.children = agent[n].children
      /\ b.steps = agent[n].steps
  BY <1>1 DEF Agents
<1>6. agent \in [Nodes -> Agents]  BY DEF IInv, TypeOK
<1>7. agent' = [agent EXCEPT ![n] = b]  BY <1>6 DEF Launch, f
<1>8. UNCHANGED << run, status >> /\ SameNodes  BY DEF Launch, SameNodes
<1> HIDE DEF b
<1>9. LaunchedKids(n, b.children, b.launch)
  <2>1. Len(agent[n].children) \in Nat  BY <1>1, AgentFields
  <2>2. "todo" # "running" /\ "todo" # "child_limited" /\ "child_limited" # "running"  OBVIOUS
  <2>3. ASSUME NEW i \in 1 .. t + k, f[i].status = "todo" PROVE i <= t  BY <1>2, <2>2, <2>3
  <2>4. ASSUME NEW i \in 1 .. t + k
        PROVE  /\ f[i].status # "running" /\ f[i].node = NoNode
               /\ f[i].status = "todo" /\ Len(agent[n].children) < MaxChildren =>
                    Len(agent[n].children) + i <= MaxChildren
    <3>1. f[i].status # "running" /\ f[i].node = NoNode  BY <1>2, <2>2
    <3>2. ASSUME f[i].status = "todo", Len(agent[n].children) < MaxChildren
          PROVE  Len(agent[n].children) + i <= MaxChildren
      <4>1. i <= t  BY <2>3, <3>2
      <4>2. MaxChildren \in Nat  BY LimitsAssumption
      <4> QED  BY <2>1, <3>2, <4>1, <4>2
    <3> QED  BY <3>1, <3>2
  <2> QED  BY <1>3, <1>5, <2>4 DEF LaunchedKids
<1>10. Covered(n, b.children, b.launch)  BY <1>1, <1>5 DEF Covered
<1>11. SettledKids(n, b.children)  BY <1>1, <1>5
<1>12. n = Root => b.children = << >>  BY <1>5
<1>13. IInv'  BY <1>4, <1>5, <1>7, <1>8, <1>9, <1>10, <1>11, <1>12, OneAgentChanges
<1>14. Kids(Root)' = Kids(Root)  BY <1>5, <1>6, <1>7 DEF Kids
<1>15. Onward(agent[n], b)
  <2>1. Len(f) = t + k  BY <1>3
  <2> QED  BY <1>5, <2>1 DEF Onward
<1>16. Advance(n)  BY <1>4, <1>6, <1>7, <1>15, OneAdvances
<1> QED  BY <1>8, <1>13, <1>14, <1>16 DEF Kept

LEMMA LaunchOne ==
  ASSUME IInv, NEW n \in Nodes, LaunchSubagent(n) PROVE IInv' /\ Kept /\ Advance(n)
<1>1. run = "running" /\ status[n] = "running" /\ agent[n].phase = "deciding"
  BY DEF LaunchSubagent, Answers, Deciding
<1>2. "LAUNCH_SUBAGENT" \in Allowed(n)  BY DEF LaunchSubagent, Answers
<1>3. n = Root => agent[n].children = << >>  BY <1>2 DEF Allowed
<1>4. Launch(n, 1, 0)  BY DEF LaunchSubagent
<1>5. /\ MaxChildren \in Nat /\ Len(agent[n].children) \in Nat
      /\ 1 \in Nat /\ 0 \in Nat /\ 1 + 0 <= MaxSubtasks
  BY LimitsAssumption, AgentFields DEF IInv, TypeOK
<1> QED  BY <1>1, <1>3, <1>4, <1>5, LaunchStep

LEMMA LaunchSeveral ==
  ASSUME IInv, NEW n \in Nodes, LaunchSubagentsParallel(n) PROVE IInv' /\ Kept /\ Advance(n)
<1>1. run = "running" /\ status[n] = "running" /\ agent[n].phase = "deciding"
  BY DEF LaunchSubagentsParallel, Answers, Deciding
<1>2. "LAUNCH_SUBAGENTS_PARALLEL" \in Allowed(n)  BY DEF LaunchSubagentsParallel, Answers
<1>3. n = Root => agent[n].children = << >>  BY <1>2 DEF Allowed
<1>4. MaxChildren \in Nat /\ Len(agent[n].children) \in Nat /\ MaxSubtasks \in Nat /\ MaxParallel \in Nat
  BY LimitsAssumption, AgentFields DEF IInv, TypeOK
<1>5. SUFFICES ASSUME NEW k \in 1 .. MaxSubtasks, NEW t,
                      t = Least(k, Least(MaxParallel, RemainingChildren(agent[n]))),
                      Launch(n, t, k - t)
               PROVE  IInv' /\ Kept /\ Advance(n)
  BY SMT DEF LaunchSubagentsParallel, Launch
<1>6. /\ t \in Nat /\ k - t \in Nat /\ t + (k - t) <= MaxSubtasks
      /\ Len(agent[n].children) < MaxChildren => Len(agent[n].children) + t <= MaxChildren
  <2> DEFINE len == Len(agent[n].children)
  <2>1. len \in Nat /\ MaxChildren \in Nat /\ MaxParallel \in Nat /\ k \in Nat  BY <1>4
  <2>2. t = Least(k, Least(MaxParallel, IF len < MaxChildren THEN MaxChildren - len ELSE 0))
    BY <1>5 DEF RemainingChildren
  <2> HIDE DEF len
  <2>3. /\ t \in Nat /\ k - t \in Nat
        /\ len < MaxChildren => len + t <= MaxChildren
    BY <2>1, <2>2 DEF Least
  <2>4. t + (k - t) <= MaxSubtasks  BY <2>1, <2>3
  <2> QED  BY <2>3, <2>4 DEF len
<1>7. SUFFICES ASSUME NEW u \in Nat, u = k - t, Launch(n, t, u) PROVE IInv' /\ Kept /\ Advance(n)
  BY <1>5, <1>6 DEF Launch
<1> QED  BY <1>1, <1>3, <1>6, <1>7, LaunchStep

LEMMA RefuseStep ==
  ASSUME IInv, NEW n \in Nodes, NEW i, RefuseChild(n, i) PROVE IInv' /\ Kept /\ Advance(n)
<1> DEFINE r == Refused(IF depth[n] >= MaxDepth THEN "depth_limited"
                        ELSE IF Len(agent[n].children) >= MaxChildren THEN "child_limited"
                        ELSE "node_limited")
<1> DEFINE t == agent[n].launch
<1> DEFINE b == [agent[n] EXCEPT !.launch = [t EXCEPT ![i] = r]]
<1>1. run = "running" /\ agent[n].phase = "launching" /\ i \in DOMAIN t
  BY DEF RefuseChild, Starting
<1>2. status[n] = "running"  BY <1>1, Phase
<1>3. agent[n] \in Agents /\ agent \in [Nodes -> Agents]  BY DEF IInv, TypeOK
<1>4. n = Root => agent[n].children = << >>  BY <1>1, <1>3, RootHasNoKids
<1>5. /\ SettledKids(n, agent[n].children)
      /\ LaunchedKids(n, agent[n].children, t)
      /\ Covered(n, agent[n].children, t)
  BY <1>1 DEF IInv, Books, Account, Kids, Tasks
<1>6. t \in Seq(Results)  BY <1>3, AgentFields
<1>7. r \in Results /\ r.node = NoNode /\ r.status \in Refusals
  BY DEF Refused, Results, Refusals
<1>8. agent' = [agent EXCEPT ![n] = b]
  BY <1>3 DEF RefuseChild
<1>9. UNCHANGED << run, status >> /\ SameNodes  BY DEF RefuseChild, SameNodes
<1> HIDE DEF r
<1>10. [t EXCEPT ![i] = r] \in Seq(Results) /\ DOMAIN [t EXCEPT ![i] = r] = DOMAIN t
  BY <1>1, <1>6, <1>7
<1>11. b \in Agents /\ b.launch = [t EXCEPT ![i] = r] /\ b.phase = agent[n].phase
       /\ b.children = agent[n].children /\ b.steps = agent[n].steps
  <2>1. b \in Agents  BY <1>3, <1>10 DEF Agents
  <2>2. b.launch = [t EXCEPT ![i] = r]  BY <1>3 DEF Agents
  <2>3. /\ b.phase = agent[n].phase /\ b.children = agent[n].children
        /\ b.steps = agent[n].steps
    BY <1>3 DEF Agents
  <2> QED  BY <2>1, <2>2, <2>3
<1>12. t[i].node = NoNode
  BY <1>1, <1>5 DEF LaunchedKids, RefuseChild, Starting
<1> DEFINE u == b.launch
<1>13. DOMAIN u = DOMAIN t /\ u[i] = r /\ \A j \in DOMAIN t : j # i => u[j] = t[j]
  BY <1>1, <1>6, <1>10, <1>11
<1> HIDE DEF b, u
<1>14. LaunchedKids(n, agent[n].children, u)
  <2>1. r.status # "running" /\ r.status # "todo"  BY <1>7 DEF Refusals
  <2>2. ASSUME NEW j \in DOMAIN u
        PROVE  /\ u[j].node # NoNode => j # i
               /\ \A l \in DOMAIN u : u[l].node = u[j].node /\ u[j].node # NoNode => l # i
    BY <1>7, <1>13
  <2> QED  BY <1>5, <1>7, <1>13, <2>1, <2>2 DEF LaunchedKids
<1>15. Covered(n, agent[n].children, u)
  <2> SUFFICES ASSUME NEW c \in attached[n], NEW j \in DOMAIN t, t[j].node = c
               PROVE  \E l \in DOMAIN u : u[l].node = c
    BY <1>5 DEF Covered
  <2>1. c # NoNode  BY Family DEF IInv
  <2> QED  BY <2>1, <1>12, <1>13
<1>16. IInv'
  BY <1>1, <1>2, <1>4, <1>5, <1>8, <1>9, <1>11, <1>14, <1>15, OneAgentChanges DEF u
<1>17. Kids(Root)' = Kids(Root)  BY <1>3, <1>8, <1>11 DEF Kids
<1>18. Onward(agent[n], b)
  <2>1. t[i].status = "todo"  BY DEF RefuseChild, Starting
  <2>2. u[i].status # "todo"  BY <1>7, <1>13 DEF Refusals
  <2> QED  BY <1>1, <1>11, <1>13, <2>1, <2>2 DEF Onward, u
<1>19. Advance(n)  BY <1>3, <1>8, <1>11, <1>18, OneAdvances
<1> QED  BY <1>9, <1>16, <1>17, <1>19 DEF Kept

\* The results of a launch come behind those of the launches before it.
LEMMA Behind ==
  ASSUME NEW s \in Seq(Results), NEW t \in Seq(Results)
  PROVE  /\ s \o t \in Seq(Results) /\ Len(s) \in Nat /\ Len(t) \in Nat
         /\ DOMAIN s = 1 .. Len(s) /\ DOMAIN t = 1 .. Len(t)
         /\ DOMAIN (s \o t) = 1 .. Len(s) + Len(t)
         /\ \A i \in DOMAIN s : (s \o t)[i] = s[i]
         /\ \A i \in DOMAIN t : (s \o t)[Len(s) + i] = t[i]
         /\ \A i \in DOMAIN (s \o t) :
              \/ i \in DOMAIN s
              \/ \E j \in DOMAIN t : i = Len(s) + j
<1>1. Len(s) \in Nat /\ Len(t) \in Nat /\ DOMAIN s = 1 .. Len(s) /\ DOMAIN t = 1 .. Len(t)
  OBVIOUS
<1>2. s \o t \in Seq(Results)  OBVIOUS
<1>3. DOMAIN (s \o t) = 1 .. Len(s) + Len(t)  BY <1>1
<1>4. \A i \in DOMAIN s : (s \o t)[i] = s[i]  BY <1>1
<1>5. \A i \in DOMAIN t : (s \o t)[Len(s) + i] = t[i]  BY <1>1
<1>6. ASSUME NEW i \in 1 .. Len(s) + Len(t), i > Len(s)
      PROVE  \E j \in 1 .. Len(t) : i = Len(s) + j
  <2>1. i - Len(s) \in 1 .. Len(t) /\ i = Len(s) + (i - Len(s))  BY <1>1, <1>6
  <2> QED  BY <2>1
<1>7. ASSUME NEW i \in DOMAIN (s \o t)
      PROVE  i \in DOMAIN s \/ \E j \in DOMAIN t : i = Len(s) + j
  <2>1. i \in 1 .. Len(s) + Len(t)  BY <1>3
  <2>2. CASE i > Len(s)  BY <1>1, <1>6, <2>1, <2>2
  <2>3. CASE ~ (i > Len(s))  BY <1>1, <2>1, <2>3
  <2> QED  BY <2>2, <2>3
<1> QED  BY <1>1, <1>2, <1>3, <1>4, <1>5, <1>7

LEMMA CollectStep ==
  ASSUME IInv, NEW n \in Nodes, Collect(n) PROVE IInv' /\ Kept /\ Advance(n)
<1> DEFINE s == agent[n].children
<1> DEFINE t == agent[n].launch
<1>1. /\ run = "running" /\ agent[n].phase = "launching" /\ SameNodes
      /\ \A i \in DOMAIN t : t[i].status \notin Unsettled
  BY DEF Collect, SameNodes
<1>2. status[n] = "running"  BY <1>1, Phase
<1>3. agent[n] \in Agents  BY DEF IInv, TypeOK
<1>4. SettledKids(n, s) /\ LaunchedKids(n, s, t) /\ Covered(n, s, t)
  BY <1>1 DEF IInv, Books, Account, Kids, Tasks
<1>5. s \in Seq(Results) /\ t \in Seq(Results)  BY <1>3, AgentFields
<1>6. [agent[n] EXCEPT !.children = @ \o agent[n].launch, !.launch = << >>,
                       !.draft = @ \/ n = Root] \in Agents
  <2>1. s \o t \in Seq(Results)  BY <1>5, Behind
  <2>2. << >> \in Seq(Results)  OBVIOUS
  <2>3. (agent[n].draft \/ n = Root) \in BOOLEAN  OBVIOUS
  <2> QED  BY <1>3, <2>1, <2>2, <2>3 DEF Agents
<1>7. SUFFICES ASSUME NEW a \in Agents,
                      a = [agent[n] EXCEPT !.children = @ \o agent[n].launch,
                                           !.launch = << >>, !.draft = @ \/ n = Root]
               PROVE  IInv' /\ Kept /\ Advance(n)
  BY <1>6
<1>8. a.children = s \o t /\ a.launch = << >> /\ a.steps = agent[n].steps
  BY <1>3, <1>7 DEF Agents
<1>9. n = Root => a.draft  BY <1>3, <1>7 DEF Agents
<1>10. Continue(n, a)  BY <1>7, CollectGoesOn
<1> HIDE DEF s, t
<1>11. SettledKids(n, s \o t)
  <2> DEFINE k == s \o t
  <2>1. /\ DOMAIN s \subseteq Nat /\ DOMAIN t \subseteq Nat /\ Len(s) \in Nat
        /\ DOMAIN s \subseteq DOMAIN k
        /\ \A i \in DOMAIN s : k[i] = s[i]
        /\ \A i \in DOMAIN t : k[Len(s) + i] = t[i]
        /\ \A i \in DOMAIN k : i \in DOMAIN s \/ \E j \in DOMAIN t : i = Len(s) + j
    BY <1>5, Behind
  <2> HIDE DEF k
  <2>2. ASSUME NEW i \in DOMAIN s
        PROVE  /\ k[i].status \notin Unsettled
               /\ k[i].node # NoNode =>
                    /\ k[i].node \in attached[n] /\ k[i].status = status[k[i].node]
                    /\ i <= MaxChildren
                    /\ \A j \in DOMAIN k : k[j].node = k[i].node => j = i
    <3>1. ASSUME k[i].node # NoNode, NEW j \in DOMAIN k, k[j].node = k[i].node PROVE j = i
      <4>1. CASE j \in DOMAIN s  BY <3>1, <4>1, <2>1, <1>4 DEF SettledKids
      <4>2. ASSUME NEW l \in DOMAIN t, j = Len(s) + l PROVE FALSE
        <5>1. t[l].node = s[i].node /\ t[l].node # NoNode  BY <2>1, <3>1, <4>2
        <5> QED  BY <5>1, <1>4 DEF LaunchedKids
      <4> QED  BY <4>1, <4>2, <2>1
    <3> QED  BY <3>1, <2>1, <1>4 DEF SettledKids
  <2>3. ASSUME NEW i \in DOMAIN t
        PROVE  /\ k[Len(s) + i].status \notin Unsettled
               /\ k[Len(s) + i].node # NoNode =>
                    /\ k[Len(s) + i].node \in attached[n]
                    /\ k[Len(s) + i].status = status[k[Len(s) + i].node]
                    /\ Len(s) + i <= MaxChildren
                    /\ \A j \in DOMAIN k : k[j].node = k[Len(s) + i].node => j = Len(s) + i
    <3>0. k[Len(s) + i] = t[i]  BY <2>1
    <3>1. ASSUME t[i].node # NoNode, NEW j \in DOMAIN k, k[j].node = t[i].node
          PROVE  j = Len(s) + i
      <4>1. CASE j \in DOMAIN s
        <5>1. s[j].node = t[i].node  BY <3>1, <4>1, <2>1
        <5> QED  BY <3>1, <4>1, <5>1, <1>4 DEF LaunchedKids
      <4>2. ASSUME NEW l \in DOMAIN t, j = Len(s) + l PROVE l = i
        <5>1. t[l].node = t[i].node  BY <2>1, <3>1, <4>2
        <5> QED  BY <3>1, <5>1, <1>4 DEF LaunchedKids
      <4> QED  BY <4>1, <4>2, <2>1
    <3> QED  BY <3>0, <3>1, <1>1, <1>4 DEF LaunchedKids, t
  <2> QED  BY <2>1, <2>2, <2>3 DEF SettledKids, k
<1>12. Covered(n, s \o t, << >>)
  <2>1. /\ \A i \in DOMAIN s : i \in DOMAIN (s \o t) /\ (s \o t)[i] = s[i]
        /\ \A i \in DOMAIN t : Len(s) + i \in DOMAIN (s \o t) /\ (s \o t)[Len(s) + i] = t[i]
    BY <1>5, Behind
  <2> QED  BY <2>1, <1>4 DEF Covered
<1>13. SettledKids(n, a.children) /\ Covered(n, a.children, << >>)
  BY <1>8, <1>11, <1>12
<1>14. /\ IInv' /\ \A m \in Nodes \ {n} : status'[m] = status[m]
       /\ agent'[n].children = a.children
       /\ \A m \in Nodes \ {n} : agent'[m].children = agent[m].children
       /\ Advance(n)
  BY <1>1, <1>2, <1>8, <1>9, <1>10, <1>13, NodeContinues
<1>15. s # << >> => s \o t # << >>  BY <1>5
<1> QED  BY <1>2, <1>8, <1>14, <1>15, Statuses, Constants DEF Kept, Kids, s

\* A task starts a child.
LEMMA StartStep ==
  ASSUME IInv, NEW n \in Nodes, NEW i, StartChild(n, i) PROVE IInv' /\ Kept /\ Advance(n)
<1> DEFINE c == allocated + 1
<1> DEFINE r == [node |-> c, status |-> "running"]
<1> DEFINE s == agent[n].children
<1> DEFINE t == agent[n].launch
<1> DEFINE b == [agent[n] EXCEPT !.launch = [t EXCEPT ![i] = r]]
<1>1. /\ run = "running" /\ agent[n].phase = "launching" /\ i \in DOMAIN t
      /\ t[i].status = "todo" /\ depth[n] < MaxDepth /\ Len(s) < MaxChildren
      /\ allocated < MaxNodes
  BY DEF StartChild, Starting
<1>2. /\ TypeOK /\ Tree /\ RootFirst
      /\ \A m \in Nodes : Account(m) /\ Phases(m)
  BY <1>1 DEF IInv, Books
<1>3. status[n] = "running"  BY <1>1, Phase
<1>4. agent[n] \in Agents /\ agent \in [Nodes -> Agents]  BY <1>2 DEF TypeOK
<1>5. n = Root => s = << >>  BY <1>1, <1>4, RootHasNoKids
<1>6. SettledKids(n, s) /\ LaunchedKids(n, s, t) /\ Covered(n, s, t)
  BY <1>2 DEF Account, Kids, Tasks
<1>7. t \in Seq(Results) /\ s \in Seq(Results)  BY <1>4, AgentFields
<1>8. /\ c \in Nodes /\ c \in Nat /\ c # NoNode /\ c # Root /\ n < c /\ n # c
      /\ n \in Nat /\ allocated \in Nat
  <2>1. allocated \in Nat /\ allocated >= 1 /\ MaxNodes \in Nat
    BY <1>2, LimitsAssumption DEF TypeOK, Nodes
  <2>2. n \in Nat /\ n <= allocated  BY <1>2, <1>3, <2>1, Statuses, Constants DEF Tree
  <2> QED  BY <1>1, <2>1, <2>2 DEF Nodes, NoNode, Root
<1>9. status[c] = "absent"  BY <1>2, <1>8 DEF Tree
<1>10. \A m \in Nodes : c \notin attached[m]  BY <1>2, <1>9 DEF Tree
<1>11. attached[c] = {}
  <2> SUFFICES ASSUME NEW d \in attached[c] PROVE FALSE  OBVIOUS
  <2>1. d \in Nodes /\ status[d] # "absent" /\ parent[d] = c /\ d # Root
    BY <1>2, <1>8 DEF Tree
  <2>2. d \in Nat /\ ~ (d > allocated)  BY <1>2, <2>1, Constants DEF Tree
  <2>3. parent[d] < d  BY <1>2, <2>1 DEF Tree
  <2> QED  BY <1>8, <2>1, <2>2, <2>3
<1>12. /\ allocated' = c /\ UNCHANGED run
       /\ attached' = [attached EXCEPT ![n] = @ \cup {c}]
       /\ parent' = [parent EXCEPT ![c] = n]
       /\ depth' = [depth EXCEPT ![c] = depth[n] + 1]
       /\ status' = [status EXCEPT ![c] = "running"]
  BY DEF StartChild, NextNode
<1>13. agent' = [agent EXCEPT ![n] = b]  BY <1>4 DEF StartChild, NextNode
<1>14. r \in Results /\ r.node = c /\ r.status = "running"
  BY <1>8 DEF Results, Unsettled
<1> HIDE DEF c, r
<1>15. [t EXCEPT ![i] = r] \in Seq(Results) /\ DOMAIN [t EXCEPT ![i] = r] = DOMAIN t
  BY <1>1, <1>7, <1>14
<1>16. b \in Agents /\ b.launch = [t EXCEPT ![i] = r] /\ b.phase = "launching" /\ b.children = s
       /\ b.steps = agent[n].steps
  <2>1. b \in Agents  BY <1>4, <1>15 DEF Agents
  <2>2. b.launch = [t EXCEPT ![i] = r]  BY <1>4 DEF Agents
  <2>3. b.phase = "launching" /\ b.children = s /\ b.steps = agent[n].steps
    BY <1>1, <1>4 DEF Agents
  <2> QED  BY <2>1, <2>2, <2>3
<1> DEFINE u == b.launch
<1>17. DOMAIN u = DOMAIN t /\ u[i] = r /\ \A j \in DOMAIN t : j # i => u[j] = t[j]
  BY <1>1, <1>7, <1>15, <1>16
<1> HIDE DEF b, u
<1>18. /\ attached'[n] = attached[n] \cup {c}
       /\ \A m \in Nodes : m # n => attached'[m] = attached[m]
       /\ parent'[c] = n /\ depth'[c] = depth[n] + 1 /\ status'[c] = "running"
       /\ \A m \in Nodes : m # c =>
            parent'[m] = parent[m] /\ depth'[m] = depth[m] /\ status'[m] = status[m]
       /\ agent'[n] = b /\ \A m \in Nodes : m # n => agent'[m] = agent[m]
  BY <1>2, <1>4, <1>8, <1>12, <1>13 DEF TypeOK
<1>19. TypeOK'
  <2>1. allocated' \in Nodes /\ run' = run  BY <1>8, <1>12
  <2>2. status' \in [Nodes -> NodeStatus]  BY <1>2, <1>12, Statuses DEF TypeOK
  <2>3. attached' \in [Nodes -> SUBSET Nodes]  BY <1>2, <1>8, <1>12 DEF TypeOK
  <2>4. parent' \in [Nodes -> Nodes \cup {NoNode}]  BY <1>2, <1>12 DEF TypeOK
  <2>5. depth' \in [Nodes -> Nat]
    <3>1. depth[n] + 1 \in Nat  BY <1>2 DEF TypeOK
    <3> QED  BY <1>2, <1>12, <3>1 DEF TypeOK
  <2>6. agent' \in [Nodes -> Agents]  BY <1>4, <1>13, <1>16
  <2> QED  BY <1>2, <2>1, <2>2, <2>3, <2>4, <2>5, <2>6 DEF TypeOK
<1>20. Tree'
  <2>1. \A m \in Nodes : status'[m] = "absent" <=> m > allocated'
    <3> TAKE m \in Nodes
    <3>1. m \in Nat /\ (status[m] = "absent" <=> m > allocated)
      BY <1>2, Constants DEF Tree
    <3> QED  BY <3>1, <1>8, <1>12, <1>18, Statuses DEF c
  <2>2. \A d \in Nodes \ {Root} : status'[d] # "absent" =>
          parent'[d] \in Nodes /\ parent'[d] < d /\ d \in attached'[parent'[d]]
    <3> SUFFICES ASSUME NEW d \in Nodes \ {Root}, status'[d] # "absent"
                 PROVE  parent'[d] \in Nodes /\ parent'[d] < d /\ d \in attached'[parent'[d]]
      OBVIOUS
    <3>1. CASE d = c  BY <3>1, <1>8, <1>18
    <3>2. CASE d # c
      <4>1. status[d] # "absent" /\ parent'[d] = parent[d]  BY <3>2, <1>18
      <4>2. parent[d] \in Nodes /\ parent[d] < d /\ d \in attached[parent[d]]
        BY <4>1, <1>2 DEF Tree
      <4> QED  BY <4>1, <4>2, <1>18
    <3> QED  BY <3>1, <3>2
  <2>3. \A m \in Nodes : \A d \in attached'[m] :
          d \in Nodes \ {Root} /\ status'[d] # "absent" /\ parent'[d] = m
    <3> SUFFICES ASSUME NEW m \in Nodes, NEW d \in attached'[m]
                 PROVE  d \in Nodes \ {Root} /\ status'[d] # "absent" /\ parent'[d] = m
      OBVIOUS
    <3>1. CASE d = c
      <4>1. m = n  BY <3>1, <1>10, <1>18
      <4> QED  BY <3>1, <4>1, <1>8, <1>18, Statuses
    <3>2. CASE d # c
      <4>1. d \in attached[m]  BY <3>2, <1>18
      <4>2. d \in Nodes \ {Root} /\ status[d] # "absent" /\ parent[d] = m
        BY <4>1, <1>2 DEF Tree
      <4> QED  BY <3>2, <4>2, <1>18
    <3> QED  BY <3>1, <3>2
  <2>4. \A m \in Nodes : depth'[m] <= MaxDepth
    <3> TAKE m \in Nodes
    <3>1. depth[n] \in Nat /\ MaxDepth \in Nat /\ depth[m] <= MaxDepth
      BY <1>2, LimitsAssumption DEF TypeOK, Tree
    <3> QED  BY <3>1, <1>1, <1>18
  <2> QED  BY <2>1, <2>2, <2>3, <2>4 DEF Tree
<1>21. ASSUME NEW m \in Nodes, m # n PROVE Account(m)' /\ Phases(m)'
  <2>1. Kids(m)' = Kids(m) /\ Tasks(m)' = Tasks(m) /\ agent'[m] = agent[m]
        /\ attached'[m] = attached[m]
    BY <1>18, <1>21 DEF Kids, Tasks
  <2>2. \A d \in attached[m] : status'[d] = status[d]
    BY <1>2, <1>10, <1>18 DEF Tree
  <2>3. /\ SettledKids(m, Kids(m)) /\ LaunchedKids(m, Kids(m), Tasks(m))
        /\ Covered(m, Kids(m), Tasks(m)) /\ Phases(m)
    BY <1>2 DEF Account
  <2>4. SettledKids(m, Kids(m))'  BY <2>1, <2>2, <2>3 DEF SettledKids
  <2>5. LaunchedKids(m, Kids(m), Tasks(m))'  BY <2>1, <2>2, <2>3 DEF LaunchedKids
  <2>6. Covered(m, Kids(m), Tasks(m))'  BY <2>1, <2>3 DEF Covered
  <2>7. Phases(m)'
    <3>1. CASE m = c
      <4>1. agent[m].phase = "deciding"  BY <1>9, <2>3, <3>1 DEF Phases, NewAgent
      <4> QED  BY <2>1, <2>3, <3>1, <4>1, <1>18, Statuses DEF Phases
    <3>2. CASE m # c  BY <2>1, <2>3, <3>2, <1>18 DEF Phases
    <3> QED  BY <3>1, <3>2
  <2> QED  BY <2>4, <2>5, <2>6, <2>7 DEF Account
<1>22. Account(n)' /\ Phases(n)'
  <2>1. Kids(n)' = s /\ Tasks(n)' = u  BY <1>16, <1>18 DEF Kids, Tasks, u
  <2>2. \A d \in attached[n] : status'[d] = status[d] /\ d # c /\ d \in attached'[n]
    BY <1>2, <1>10, <1>18 DEF Tree
  <2>3. SettledKids(n, Kids(n))'
    BY <2>1, <2>2, <1>6 DEF SettledKids
  <2>4. LaunchedKids(n, Kids(n), Tasks(n))'
    <3>1. t[i].node = NoNode /\ Len(s) + i <= MaxChildren  BY <1>1, <1>6 DEF LaunchedKids
    <3>2. \A j \in DOMAIN s : s[j].node # c
      BY <1>6, <1>8, <1>10 DEF SettledKids
    <3>3. \A j \in DOMAIN t : t[j].node # c
      BY <1>6, <1>8, <1>10 DEF LaunchedKids
    <3>4. r.status # "todo" /\ c \in attached'[n] /\ status'[c] = "running"  BY <1>14, <1>18
    <3>5. ASSUME NEW j \in DOMAIN t
          PROVE  /\ u[j].status = "running" => u[j].node # NoNode
                 /\ u[j].status = "todo" => u[j].node = NoNode
                 /\ u[j].status = "todo" /\ Len(s) < MaxChildren => Len(s) + j <= MaxChildren
                 /\ u[j].node # NoNode =>
                      /\ u[j].node \in attached'[n]
                      /\ u[j].status = status'[u[j].node]
                      /\ Len(s) + j <= MaxChildren
                      /\ \A l \in DOMAIN t : u[l].node = u[j].node => l = j
                      /\ \A l \in DOMAIN s : s[l].node # u[j].node
      <4>1. CASE j = i  BY <4>1, <3>1, <3>2, <3>3, <3>4, <1>8, <1>14, <1>17
      <4>2. CASE j # i
        <5>1. u[j] = t[j] /\ u[j].node # c  BY <4>2, <3>3, <1>17
        <5>2. \A l \in DOMAIN t : u[l].node = u[j].node => l # i  BY <5>1, <1>14, <1>17
        <5> QED  BY <5>1, <5>2, <2>2, <1>6, <1>17 DEF LaunchedKids
      <4> QED  BY <4>1, <4>2
    <3> QED  BY <3>5, <2>1, <1>17 DEF LaunchedKids
  <2>5. Covered(n, Kids(n), Tasks(n))'
    <3> SUFFICES ASSUME NEW d \in attached'[n]
                 PROVE  \/ \E j \in DOMAIN s : s[j].node = d
                        \/ \E j \in DOMAIN u : u[j].node = d
      BY <2>1 DEF Covered
    <3>1. CASE d = c  BY <3>1, <1>1, <1>14, <1>17
    <3>2. CASE d # c
      <4>1. d \in attached[n]  BY <3>2, <1>18
      <4>2. d # NoNode  BY <4>1, <1>2, Family
      <4>3. t[i].node = NoNode  BY <1>1, <1>6 DEF LaunchedKids
      <4> QED  BY <4>1, <4>2, <4>3, <1>6, <1>17 DEF Covered
    <3> QED  BY <3>1, <3>2
  <2>6. Phases(n)'
    BY <2>1, <1>3, <1>8, <1>16, <1>18, Statuses DEF Phases
  <2> QED  BY <2>3, <2>4, <2>5, <2>6 DEF Account
<1>23. Kids(Root)' = Kids(Root)
  BY <1>4, <1>16, <1>18, Constants DEF Kids
<1>24. RootFirst'
  <2>1. status'[Root] = status[Root] /\ UNCHANGED run  BY <1>8, <1>12, <1>18, Constants
  <2>2. CASE n = Root  BY <2>1, <2>2, <1>2, <1>5, <1>23 DEF RootFirst, Kids
  <2>3. CASE n # Root
    <3>1. agent'[Root] = agent[Root]  BY <2>3, <1>18, Constants
    <3> QED  BY <3>1, <2>1, <1>2, <1>23 DEF RootFirst
  <2> QED  BY <2>2, <2>3
<1>25. Kept
  <2>1. "absent" \notin Terminal  BY Statuses
  <2> QED  BY <2>1, <1>9, <1>18, <1>23 DEF Kept
<1>26. Over'  BY <1>1, <1>12 DEF Over
<1>27. Onward(agent[n], b)
  <2>1. u[i].status # "todo"  BY <1>14, <1>17
  <2> QED  BY <1>1, <1>16, <1>17, <2>1 DEF Onward, u
<1>28. Advance(n)  BY <1>4, <1>13, <1>16, <1>27, OneAdvances
<1> QED  BY <1>19, <1>20, <1>21, <1>22, <1>24, <1>25, <1>26, <1>28 DEF IInv, Books

-----------------------------------------------------------------------------
(* Failures *)

LEMMA RaiseStep ==
  ASSUME IInv, NEW n \in Nodes, Raise(n)
  PROVE  IInv' /\ Kept /\ (run' = "raised" \/ Advance(n))
<1>1. /\ run = "running" /\ status[n] = "running" /\ agent[n].phase \in {"deciding", "tool"}
      /\ SameNodes
  BY DEF Raise, SameNodes
<1>2. CASE n = Root
  <2>1. run' = "raised" /\ UNCHANGED << status, agent >>  BY <1>2 DEF Raise
  <2>2. TypeOK'  BY <2>1, <1>1 DEF IInv, TypeOK, SameNodes
  <2>3. Tree'  BY <2>1, <1>1 DEF IInv, Tree, SameNodes
  <2>4. RootFirst /\ \A m \in Nodes : Account(m) /\ Phases(m)  BY <1>1 DEF IInv, Books
  <2>5. RootFirst'  BY <1>1, <2>1, <2>4 DEF RootFirst, Kids
  <2>6. ASSUME NEW m \in Nodes PROVE Account(m)' /\ Phases(m)'
    <3>1. Kids(m)' = Kids(m) /\ Tasks(m)' = Tasks(m)  BY <2>1 DEF Kids, Tasks
    <3>2. Account(m)'
      BY <3>1, <2>1, <2>4, <1>1 DEF Account, SettledKids, LaunchedKids, Covered, SameNodes
    <3>3. Phases(m)'  BY <3>1, <2>1, <2>4 DEF Phases
    <3> QED  BY <3>2, <3>3
  <2> QED  BY <1>2, <2>1, <2>2, <2>3, <2>5, <2>6 DEF IInv, Books, Over, Kept, Kids
<1>3. CASE n # Root
  <2>1. /\ agent[n] \in Agents
        /\ SettledKids(n, agent[n].children) /\ Covered(n, agent[n].children, << >>)
    BY <1>1, BetweenLaunches
  <2>2. SUFFICES ASSUME NEW a \in Agents, a = agent[n] PROVE IInv' /\ Kept /\ Advance(n)
    BY <2>1
  <2>3. End(n, a, "failed")  BY <2>2, <1>3, RaiseEnds
  <2>4. "failed" \in Terminal  BY DEF Terminal
  <2>5. SettledKids(n, a.children) /\ Covered(n, a.children, << >>)  BY <2>1, <2>2
  <2>6. /\ IInv' /\ status' = [status EXCEPT ![n] = "failed"]
        /\ agent'[n].children = a.children
        /\ \A m \in Nodes \ {n} : agent'[m].children = agent[m].children
        /\ Advance(n)
    BY <1>1, <2>3, <2>4, <2>5, NodeEnds
  <2>7. status \in [Nodes -> NodeStatus]  BY DEF IInv, TypeOK
  <2> QED  BY <1>1, <1>3, <2>6, <2>7, Statuses, Constants DEF Kept, Kids
<1> QED  BY <1>2, <1>3

\* What is left of a run that is given up.
LEMMA MarkStep ==
  ASSUME IInv, NEW s \in {"timeout", "cancelled"}, MarkUnfinished(s)
  PROVE  /\ IInv' /\ run' = s /\ \A m \in Nodes : status[m] \in Terminal => status'[m] = status[m]
         /\ agent'[Root].phase = "deciding"
<1>1. /\ run' = s /\ SameNodes /\ agent' = [n \in Nodes |-> NewAgent]
      /\ status' = [n \in Nodes |-> IF status[n] = "running" THEN s ELSE status[n]]
  BY DEF MarkUnfinished, SameNodes
<1>2. s \in Terminal /\ s # "running" /\ s # "absent"  BY DEF Terminal
<1>3. status \in [Nodes -> NodeStatus]  BY DEF IInv, TypeOK
<1>4. \A m \in Nodes : /\ status'[m] # "running"
                       /\ status'[m] = "absent" <=> status[m] = "absent"
                       /\ status[m] \in Terminal => status'[m] = status[m]
  BY <1>1, <1>2, Statuses
<1>5. TypeOK'
  <2>1. status' \in [Nodes -> NodeStatus]  BY <1>1, <1>2, <1>3, Statuses
  <2>2. agent' \in [Nodes -> Agents]  BY <1>1, Constants
  <2> QED  BY <1>1, <2>1, <2>2 DEF IInv, TypeOK, SameNodes
<1>6. Tree'  BY <1>1, <1>4 DEF IInv, Tree, SameNodes
<1>7. Books' /\ Over'  BY <1>1, <1>4 DEF Books, Over
<1>8. agent'[Root].phase = "deciding"  BY <1>1, Constants DEF NewAgent
<1> QED  BY <1>1, <1>4, <1>5, <1>6, <1>7, <1>8 DEF IInv

-----------------------------------------------------------------------------
(* Every step *)

LEMMA AgentStepKeeps ==
  ASSUME IInv, NEW n \in Nodes, AgentStep(n) \/ Raise(n)
  PROVE  IInv' /\ Kept /\ (AgentStep(n) \/ run' = "running" => Advance(n))
<1>1. CASE \/ InvalidAction(n) \/ Think(n) \/ CallTool(n) \/ RefuseTool(n) \/ ToolReturns(n)
           \/ DirectAnswer(n) \/ Aggregate(n) \/ Finish(n)
  BY <1>1, PlainStep
<1>2. CASE LaunchSubagent(n)  BY <1>2, LaunchOne
<1>3. CASE LaunchSubagentsParallel(n)  BY <1>3, LaunchSeveral
<1>4. CASE \E i \in 1 .. MaxSubtasks : StartChild(n, i) \/ RefuseChild(n, i)
  BY <1>4, StartStep, RefuseStep
<1>5. CASE Collect(n)  BY <1>5, CollectStep
<1>6. CASE Raise(n) /\ ~ AgentStep(n)
  <2>1. IInv' /\ Kept /\ (run' = "raised" \/ Advance(n))  BY <1>6, RaiseStep
  <2> QED  BY <1>6, <2>1
<1> QED  BY <1>1, <1>2, <1>3, <1>4, <1>5, <1>6 DEF AgentStep

LEMMA StutterKeeps ==
  ASSUME IInv, UNCHANGED vars PROVE IInv'
<1>1. /\ UNCHANGED << run, allocated, status, attached, parent, depth, agent >>
  BY DEF vars
<1>2. TypeOK'  BY <1>1 DEF IInv, TypeOK
<1>3. Tree'  BY <1>1 DEF IInv, Tree
<1>4. Over'  BY <1>1 DEF IInv, Over
<1>5. ASSUME run \in {"running", "returned", "raised"}
      PROVE  RootFirst' /\ \A n \in Nodes : Account(n)' /\ Phases(n)'
  <2>1. RootFirst /\ \A n \in Nodes : Account(n) /\ Phases(n)  BY <1>5 DEF IInv, Books
  <2>2. RootFirst'  BY <1>1, <2>1 DEF RootFirst, Kids
  <2>3. ASSUME NEW n \in Nodes PROVE Account(n)' /\ Phases(n)'
    <3>1. Kids(n)' = Kids(n) /\ Tasks(n)' = Tasks(n)  BY <1>1 DEF Kids, Tasks
    <3>2. Account(n)'
      BY <1>1, <2>1, <3>1 DEF Account, SettledKids, LaunchedKids, Covered
    <3>3. Phases(n)'  BY <1>1, <2>1, <3>1 DEF Phases
    <3> QED  BY <3>2, <3>3
  <2> QED  BY <2>2, <2>3
<1>6. Books'  BY <1>1, <1>5 DEF Books
<1> QED  BY <1>2, <1>3, <1>4, <1>6 DEF IInv

LEMMA Steps ==
  ASSUME IInv, [Next]_vars PROVE IInv'
<1>1. CASE UNCHANGED vars  BY <1>1, StutterKeeps
<1>2. CASE \E n \in Nodes : AgentStep(n) \/ Raise(n)  BY <1>2, AgentStepKeeps
<1>3. CASE Timeout \/ Cancel  BY <1>3, MarkStep DEF Timeout, Cancel
<1> QED  BY <1>1, <1>2, <1>3 DEF Next

\* The tree, the agents' results and the ends of the run agree in every
\* reachable state: the invariant that the other theorems rest on.
THEOREM Consistency == Spec => []IInv
<1>1. Init => IInv  BY InitInv
<1>2. IInv /\ [Next]_vars => IInv'  BY Steps
<1> QED  BY <1>1, <1>2, PTL DEF Spec

\* The variables keep their types, agent.py's and tree.py's.
THEOREM TypeCorrect == Spec => []TypeOK
<1>1. IInv => TypeOK  BY DEF IInv
<1> QED  BY <1>1, Consistency, PTL

-----------------------------------------------------------------------------
(* What a node's end says of its children *)

\* The status of a child, once nothing of its parent's run awaits it.
LEMMA ChildrenOfEnded ==
  ASSUME IInv, NEW n \in Nodes, status[n] \in Terminal, NEW c \in attached[n]
  PROVE  status[c] \in Terminal
<1>1. TypeOK /\ Tree  BY DEF IInv
<1>2. c \in Nodes /\ status[c] # "absent" /\ status[c] \in NodeStatus
  BY <1>1, Family DEF TypeOK
<1>3. CASE run \in {"running", "returned", "raised"}
  <2>1. Account(n) /\ Phases(n)  BY <1>3 DEF IInv, Books
  <2>2. agent[n].phase # "launching"  BY <2>1, Statuses DEF Phases
  <2>3. PICK i \in DOMAIN Kids(n) : Kids(n)[i].node = c
    BY <2>1, <2>2 DEF Account, Covered, Phases
  <2>4. status[c] \notin Unsettled
    <3>1. c # NoNode  BY <1>1, Family
    <3> QED  BY <2>1, <2>3, <3>1 DEF Account, SettledKids
  <2> QED  BY <1>2, <2>4, Statuses
<1>4. CASE run \in {"timeout", "cancelled"}
  <2>1. status[c] # "running"  BY <1>2, <1>4 DEF IInv, Over
  <2> QED  BY <1>2, <2>1, Statuses
<1>5. run \in {"running", "returned", "raised", "timeout", "cancelled"}  BY <1>1 DEF TypeOK
<1> QED  BY <1>3, <1>4, <1>5

\* A node ends only after every child attached to it, whatever the limits.
THEOREM ChildrenEndFirst == Spec => []ParentsOutliveChildren
<1>1. IInv => ParentsOutliveChildren
  BY ChildrenOfEnded DEF ParentsOutliveChildren
<1> QED  BY <1>1, Consistency, PTL

\* The least of a set of numbers: the induction down the tree.
LEMMA LeastElement ==
  ASSUME NEW T, T \subseteq Nat, T # {}
  PROVE  \E x \in T : \A y \in T : x <= y
<1> DEFINE Less == OpToRel(<, Nat)
<1>1. IsWellFoundedOn(Less, Nat)  BY NatLessThanWellFounded
<1>2. \A x, y \in Nat : x < y => << x, y >> \in Less  BY DEF OpToRel
<1> HIDE DEF Less
<1>3. \E x \in T : \A y \in T : ~ (<< y, x >> \in Less)
  BY ONLY <1>1, WFMin, T \subseteq Nat, T # {}, Zenon
<1>4. PICK x \in T : \A y \in T : ~ (<< y, x >> \in Less)  BY <1>3
<1>5. ASSUME NEW y \in T PROVE x <= y
  <2>1. x \in Nat /\ y \in Nat  OBVIOUS
  <2>2. ~ (y < x)  BY <1>2, <1>4, <2>1
  <2> QED  BY <2>1, <2>2
<1> QED  BY <1>5

\* If a node ran on in a run that has returned, so would the first such node's
\* parent, up to the root.
LEMMA ReturnedIsOver ==
  ASSUME IInv, run = "returned"
  PROVE  \A n \in Nodes : status[n] # "running"
<1> DEFINE R == {n \in Nodes : status[n] = "running"}
<1>1. SUFFICES ASSUME R # {} PROVE FALSE  OBVIOUS
<1>2. R \subseteq Nat  BY Constants
<1>3. PICK n \in R : \A m \in R : n <= m  BY <1>1, <1>2, LeastElement
<1>4. Tree /\ RootFirst /\ TypeOK  BY DEF IInv, Books
<1>5. n # Root  BY <1>3, <1>4, Statuses DEF RootFirst
<1> DEFINE p == parent[n]
<1>6. p \in Nodes /\ p < n /\ n \in attached[p]  BY <1>3, <1>4, <1>5, Statuses DEF Tree
<1>7. p \in Nat /\ n \in Nat /\ allocated \in Nat  BY <1>4, <1>6, Constants DEF TypeOK
<1>8. status[p] # "absent"  BY <1>3, <1>4, <1>6, <1>7, Statuses DEF Tree
<1>9. status[p] # "running"  BY <1>3, <1>6, <1>7
<1>10. status[p] \in Terminal  BY <1>4, <1>6, <1>8, <1>9, Statuses DEF TypeOK
<1>11. status[n] \in Terminal  BY <1>6, <1>10, ChildrenOfEnded
<1> QED  BY <1>3, <1>11, Statuses

\* A run that has returned, timed out or been cancelled leaves no node running.
THEOREM NoNodeLeftRunning == Spec => []NothingLeftRunning
<1>1. IInv => NothingLeftRunning
  BY ReturnedIsOver DEF IInv, Over, NothingLeftRunning
<1> QED  BY <1>1, Consistency, PTL

-----------------------------------------------------------------------------
(* The results a node holds *)

LEMMA ResultsMatch ==
  ASSUME IInv PROVE ResultsMatchTree
<1> SUFFICES ASSUME run \in {"running", "returned"}, NEW n \in Nodes,
                    agent[n].phase # "launching"
             PROVE  LET children == agent[n].children
                        settled  == {i \in DOMAIN children : children[i].node # NoNode}
                    IN  /\ attached[n] = {children[i].node : i \in settled}
                        /\ Cardinality(settled) = Cardinality(attached[n])
                        /\ \A i \in settled : children[i].status = status[children[i].node]
  BY DEF ResultsMatchTree
<1> DEFINE k == agent[n].children
<1> DEFINE S == {i \in DOMAIN k : k[i].node # NoNode}
<1>1. Account(n) /\ Phases(n) /\ TypeOK /\ Tree  BY DEF IInv, Books
<1>2. SettledKids(n, k) /\ Covered(n, k, << >>)
  BY <1>1 DEF Account, Phases, Kids, Tasks
<1>3. k \in Seq(Results)  BY <1>1, AgentFields DEF TypeOK
<1> HIDE DEF k
<1>4. \A i \in S : k[i].node \in attached[n] /\ k[i].status = status[k[i].node]
  BY <1>2 DEF SettledKids
<1>5. \A c \in attached[n] : \E i \in S : k[i].node = c
  <2> TAKE c \in attached[n]
  <2>1. c # NoNode  BY <1>1, Family
  <2> QED  BY <1>2, <2>1 DEF Covered
<1>6. attached[n] = {k[i].node : i \in S}  BY <1>4, <1>5
<1>7. IsFiniteSet(S)
  <2>1. Len(k) \in Nat /\ DOMAIN k = 1 .. Len(k)  BY <1>3
  <2>2. IsFiniteSet(1 .. Len(k))  BY <2>1, FS_Interval
  <2> QED  BY <2>1, <2>2, FS_Subset
<1>8. ExistsBijection(S, attached[n])
  <2> DEFINE f == [i \in S |-> k[i].node]
  <2>1. f \in [S -> attached[n]]  BY <1>4
  <2>2. \A i, j \in S : f[i] = f[j] => i = j  BY <1>2 DEF SettledKids
  <2>3. \A c \in attached[n] : \E i \in S : f[i] = c  BY <1>5
  <2> HIDE DEF f, S
  <2>4. f \in Bijection(S, attached[n])
    BY <2>1, <2>2, <2>3 DEF Bijection, Injection, Surjection, IsInjective
  <2> QED  BY <2>4 DEF ExistsBijection
<1>9. Cardinality(S) = Cardinality(attached[n])  BY <1>7, <1>8, FS_Bijection
<1> QED  BY <1>4, <1>6, <1>9 DEF k

\* Between launches an agent holds exactly one result of each of its children,
\* with the status the tree records.
THEOREM OneResultPerChild == Spec => []ResultsMatchTree
<1>1. IInv => ResultsMatchTree  BY ResultsMatch
<1> QED  BY <1>1, Consistency, PTL

-----------------------------------------------------------------------------
(* The limits *)

\* Each child of a node has a place among max_children_per_node: that of its
\* result, or of the task that runs it behind the results.
LEMMA PlacesBoundChildren ==
  ASSUME IInv, run \in {"running", "returned", "raised"}, NEW n \in Nodes
  PROVE  Cardinality(attached[n]) <= MaxChildren
<1> DEFINE k == Kids(n)
<1> DEFINE t == Tasks(n)
<1>1. SettledKids(n, k) /\ LaunchedKids(n, k, t) /\ Covered(n, k, t)
  BY DEF IInv, Books, Account
<1>2. k \in Seq(Results) /\ t \in Seq(Results)
  BY AgentFields DEF IInv, TypeOK, Kids, Tasks
<1>3. MaxChildren \in Nat  BY LimitsAssumption
<1>4. Len(k) \in Nat /\ DOMAIN k = 1 .. Len(k) /\ DOMAIN t = 1 .. Len(t) /\ Len(t) \in Nat
  BY <1>2
<1> DEFINE Place(c, p) == \/ p \in DOMAIN k /\ k[p].node = c
                          \/ \E i \in DOMAIN t : p = Len(k) + i /\ t[i].node = c
<1> HIDE DEF k, t
<1>5. ASSUME NEW c \in attached[n] PROVE c # NoNode  BY Family DEF IInv
<1>6. ASSUME NEW c \in attached[n] PROVE \E p \in 1 .. MaxChildren : Place(c, p)
  <2>1. CASE \E i \in DOMAIN k : k[i].node = c
    <3>1. PICK i \in DOMAIN k : k[i].node = c  BY <2>1
    <3>2. i <= MaxChildren /\ i \in 1 .. Len(k)  BY <1>1, <1>4, <1>5, <3>1 DEF SettledKids
    <3> QED  BY <1>3, <1>4, <3>1, <3>2
  <2>2. CASE \E i \in DOMAIN t : t[i].node = c
    <3>1. PICK i \in DOMAIN t : t[i].node = c  BY <2>2
    <3>2. Len(k) + i <= MaxChildren /\ i \in 1 .. Len(t)
      BY <1>1, <1>4, <1>5, <3>1 DEF LaunchedKids
    <3>3. Len(k) + i \in 1 .. MaxChildren  BY <1>3, <1>4, <3>2
    <3> QED  BY <3>1, <3>3
  <2> QED  BY <1>1, <2>1, <2>2 DEF Covered
<1>7. ASSUME NEW c \in attached[n], NEW d \in attached[n], NEW p, Place(c, p), Place(d, p)
      PROVE  c = d
  <2>1. ASSUME NEW i \in DOMAIN t, NEW j \in DOMAIN t, Len(k) + i = Len(k) + j PROVE i = j
    BY <1>4, <2>1
  <2>2. ASSUME NEW i \in DOMAIN t PROVE Len(k) + i \notin DOMAIN k  BY <1>4
  <2> QED  BY <1>7, <2>1, <2>2
<1> DEFINE f == [c \in attached[n] |-> CHOOSE p \in 1 .. MaxChildren : Place(c, p)]
<1>8. \A c \in attached[n] : f[c] \in 1 .. MaxChildren /\ Place(c, f[c])  BY <1>6
<1> HIDE DEF Place
<1>9. f \in Injection(attached[n], 1 .. MaxChildren)
  <2>1. f \in [attached[n] -> 1 .. MaxChildren]  BY <1>8
  <2> HIDE DEF f
  <2>2. \A c, d \in attached[n] : f[c] = f[d] => c = d  BY <1>7, <1>8
  <2> QED  BY <2>1, <2>2 DEF Injection, IsInjective
<1> HIDE DEF f
<1>10. IsFiniteSet(1 .. MaxChildren) /\ Cardinality(1 .. MaxChildren) <= MaxChildren
  BY <1>3, FS_Interval
<1>11. /\ IsFiniteSet(attached[n])
       /\ Cardinality(attached[n]) <= Cardinality(1 .. MaxChildren)
  BY <1>9, <1>10, FS_Injection
<1>12. Cardinality(attached[n]) \in Nat /\ Cardinality(1 .. MaxChildren) \in Nat
  BY <1>10, <1>11, FS_CardinalityType
<1> QED  BY <1>3, <1>10, <1>11, <1>12

\* The steps of the nodes end no run by a timeout or a cancellation.
LEMMA NodesDoNotGiveUp ==
  ASSUME NEW n \in Nodes, AgentStep(n) \/ Raise(n)
  PROVE  run' \in {"running", "returned", "raised"}
<1>1. run = "running"
  BY DEF AgentStep, Raise, InvalidAction, Think, CallTool, RefuseTool, ToolReturns, DirectAnswer,
         Aggregate, Finish, Answers, Deciding, LaunchSubagent, LaunchSubagentsParallel,
         StartChild, RefuseChild, Starting, Collect
<1>2. CASE \/ InvalidAction(n) \/ Think(n) \/ CallTool(n) \/ RefuseTool(n) \/ ToolReturns(n)
           \/ DirectAnswer(n) \/ Aggregate(n) \/ Finish(n) \/ Collect(n)
  <2>1. UNCHANGED run \/ run' = "returned"
    BY <1>2 DEF InvalidAction, Think, CallTool, RefuseTool, ToolReturns, DirectAnswer,
                Aggregate, Finish, Collect, Continue, End
  <2> QED  BY <1>1, <2>1
<1>3. CASE LaunchSubagent(n) \/ LaunchSubagentsParallel(n)
  BY <1>1, <1>3 DEF LaunchSubagent, LaunchSubagentsParallel, Launch
<1>4. CASE \E i \in 1 .. MaxSubtasks : StartChild(n, i) \/ RefuseChild(n, i)
  BY <1>1, <1>4 DEF StartChild, RefuseChild
<1>5. CASE Raise(n)
  BY <1>1, <1>5 DEF Raise, End
<1> QED  BY <1>2, <1>3, <1>4, <1>5 DEF AgentStep

\* The bound, while the agents are there to keep the books.
BooksBound ==
  run \in {"running", "returned", "raised"} =>
    \A n \in Nodes : Cardinality(attached[n]) <= MaxChildren

LEMMA LimitsKept ==
  ASSUME WithinLimits, IInv', BooksBound', [Next]_vars PROVE WithinLimits'
<1>1. allocated' <= MaxNodes /\ \A n \in Nodes : depth'[n] <= MaxDepth
  BY Constants DEF IInv, TypeOK, Tree
<1>2. run' \in {"running", "returned", "raised"} \/ UNCHANGED attached
  <2>1. CASE UNCHANGED vars  BY <2>1 DEF vars
  <2>2. CASE \E n \in Nodes : AgentStep(n) \/ Raise(n)  BY <2>2, NodesDoNotGiveUp
  <2>3. CASE Timeout \/ Cancel  BY <2>3 DEF Timeout, Cancel, MarkUnfinished
  <2> QED  BY <2>1, <2>2, <2>3 DEF Next
<1>3. \A n \in Nodes : Cardinality(attached'[n]) <= MaxChildren
  BY <1>2 DEF BooksBound, WithinLimits
<1> QED  BY <1>1, <1>3 DEF WithinLimits

\* The recursion stays within its limits, whatever they are.
THEOREM LimitsHold == Spec => []WithinLimits
<1>1. Init => IInv  BY InitInv
<1>2. IInv /\ [Next]_vars => IInv'  BY Steps
<1>3. IInv => BooksBound  BY PlacesBoundChildren DEF BooksBound
<1>4. Init => WithinLimits
  <2> SUFFICES ASSUME Init PROVE WithinLimits  OBVIOUS
  <2>1. IInv /\ run = "running"  BY InitInv DEF Init
  <2> QED  BY <2>1, <1>3, Constants DEF BooksBound, WithinLimits, IInv, TypeOK, Tree
<1>5. WithinLimits /\ IInv' /\ BooksBound' /\ [Next]_vars => WithinLimits'  BY LimitsKept
<1> QED  BY <1>1, <1>2, <1>3, <1>4, <1>5, PTL DEF Spec

-----------------------------------------------------------------------------
(* What no step does *)

\* No step rewrites how a node has ended.
THEOREM EndsAreFinal == Spec => FinalStatusKept
<1> DEFINE A == \A n \in Nodes : status[n] \in Terminal => status'[n] = status[n]
<1>1. IInv /\ [Next]_vars => [A]_vars
  <2> SUFFICES ASSUME IInv, Next PROVE A  OBVIOUS
  <2>1. CASE \E n \in Nodes : AgentStep(n) \/ Raise(n)
    BY <2>1, AgentStepKeeps DEF Kept
  <2>2. CASE Timeout \/ Cancel  BY <2>2, MarkStep DEF Timeout, Cancel
  <2> QED  BY <2>1, <2>2 DEF Next
<1> QED  BY <1>1, Consistency, PTL DEF Spec, FinalStatusKept

\* The root launches children once: with results of children it only finishes.
THEOREM OneLaunchOfTheRoot == Spec => RootLaunchesOnce
<1> DEFINE A == agent[Root].children # << >> => agent'[Root].phase # "launching"
<1>1. IInv /\ [Next]_vars => [A]_vars
  <2> SUFFICES ASSUME IInv, Next, agent[Root].children # << >>
               PROVE  agent'[Root].phase # "launching"
    OBVIOUS
  <2>1. CASE \E n \in Nodes : AgentStep(n) \/ Raise(n)
    <3>1. IInv' /\ Kept /\ run' \in {"running", "returned", "raised"}
      BY <2>1, AgentStepKeeps, NodesDoNotGiveUp
    <3>2. RootFirst'  BY <3>1 DEF IInv, Books
    <3>3. Kids(Root)' # << >>  BY <3>1 DEF Kept, Kids
    <3> QED  BY <3>2, <3>3 DEF RootFirst
  <2>2. CASE Timeout \/ Cancel  BY <2>2, MarkStep DEF Timeout, Cancel
  <2> QED  BY <2>1, <2>2 DEF Next
<1> QED  BY <1>1, Consistency, PTL DEF Spec, RootLaunchesOnce

-----------------------------------------------------------------------------
(* Progress: why a run whose agents all get their turns ends *)

\* The most that one pass of an agent's loop consists of: the answer, the launch
\* and each of its tasks.
Pass == MaxSubtasks + 2

Started(t) == Cardinality({i \in DOMAIN t : t[i].status # "todo"})

\* How far an agent has come, of the passes that max_steps_per_node allows it.
Effort(a) ==
  IF a.phase = "ended" THEN 1 + MaxSteps * Pass
  ELSE IF a.phase = "deciding" THEN 1 + a.steps * Pass
  ELSE IF a.phase = "tool" THEN 2 + a.steps * Pass
  ELSE 2 + a.steps * Pass + Started(a.launch)

Work(n) == IF status[n] = "absent" THEN 0 ELSE Effort(agent[n])

Quota(a) == a.phase # "ended" => a.steps < MaxSteps /\ Len(a.launch) <= MaxSubtasks

Quotas == \A n \in Nodes : Quota(agent[n])

LEMMA Passes ==
  ASSUME NEW s \in Nat, s < MaxSteps
  PROVE  /\ Pass \in Nat /\ s * Pass \in Nat /\ MaxSteps * Pass \in Nat
         /\ (s + 1) * Pass = s * Pass + Pass
         /\ s * Pass + Pass <= MaxSteps * Pass
<1>1. Pass \in Nat /\ MaxSteps \in Nat  BY LimitsAssumption DEF Pass
<1>2. SUFFICES ASSUME NEW w \in Nat, w = Pass
               PROVE  /\ s * w \in Nat /\ MaxSteps * w \in Nat
                      /\ (s + 1) * w = s * w + w /\ s * w + w <= MaxSteps * w
  BY <1>1
<1>3. s * w \in Nat /\ MaxSteps * w \in Nat /\ (s + 1) * w = s * w + w  BY <1>1
<1>4. PICK d \in Nat : MaxSteps = (s + 1) + d
  <2>1. MaxSteps - (s + 1) \in Nat /\ MaxSteps = (s + 1) + (MaxSteps - (s + 1))  BY <1>1
  <2> QED  BY <2>1
<1>5. MaxSteps * w = (s + 1) * w + d * w /\ d * w \in Nat  BY <1>4
<1> QED  BY <1>3, <1>5

LEMMA StartedTasks ==
  ASSUME NEW t \in Seq(Results)
  PROVE  /\ IsFiniteSet({i \in DOMAIN t : t[i].status # "todo"})
         /\ Started(t) \in Nat /\ Started(t) <= Len(t)
<1>1. Len(t) \in Nat /\ DOMAIN t = 1 .. Len(t)  OBVIOUS
<1>2. IsFiniteSet(1 .. Len(t)) /\ Cardinality(1 .. Len(t)) = Len(t)  BY <1>1, FS_Interval
<1> DEFINE S == {i \in DOMAIN t : t[i].status # "todo"}
<1>3. S \subseteq 1 .. Len(t)  BY <1>1
<1>4. IsFiniteSet(S) /\ Cardinality(S) <= Cardinality(1 .. Len(t))
  BY <1>2, <1>3, FS_Subset
<1>5. Cardinality(S) \in Nat  BY <1>4, FS_CardinalityType
<1> QED  BY <1>2, <1>4, <1>5 DEF Started

\* An agent that has not ended has at least a pass to go.
LEMMA EffortBound ==
  ASSUME NEW a \in Agents, Quota(a)
  PROVE  /\ Effort(a) \in Nat /\ Effort(a) >= 1 /\ Effort(a) <= 1 + MaxSteps * Pass
         /\ a.phase # "ended" => /\ Effort(a) <= a.steps * Pass + Pass
                                 /\ Effort(a) < 1 + MaxSteps * Pass
<1>1. a.steps \in Nat /\ a.launch \in Seq(Results)  BY AgentFields
<1>2. CASE a.phase = "ended"
  <2>1. MaxSteps * Pass \in Nat  BY LimitsAssumption, Passes
  <2> QED  BY <1>2, <2>1 DEF Effort
<1>3. CASE a.phase # "ended"
  <2>1. a.steps < MaxSteps /\ Len(a.launch) <= MaxSubtasks  BY <1>3 DEF Quota
  <2>2. /\ a.steps * Pass \in Nat /\ MaxSteps * Pass \in Nat
        /\ a.steps * Pass + Pass <= MaxSteps * Pass
    BY <1>1, <2>1, Passes
  <2>3. Started(a.launch) \in Nat /\ Started(a.launch) <= MaxSubtasks
    <3>1. Started(a.launch) \in Nat /\ Started(a.launch) <= Len(a.launch)
      BY <1>1, StartedTasks
    <3>2. Len(a.launch) \in Nat /\ MaxSubtasks \in Nat  BY <1>1, LimitsAssumption
    <3> QED  BY <2>1, <3>1, <3>2
  <2>4. SUFFICES ASSUME NEW p \in Nat, p = a.steps * Pass, NEW q \in Nat, q = MaxSteps * Pass,
                        p + Pass <= q
                 PROVE  /\ Effort(a) \in Nat /\ Effort(a) >= 1 /\ Effort(a) <= 1 + q
                        /\ Effort(a) <= p + Pass /\ Effort(a) < 1 + q
    BY <2>2
  <2>5. MaxSubtasks \in Nat /\ Pass = MaxSubtasks + 2  BY LimitsAssumption DEF Pass
  <2>6. Effort(a) \in {1 + p, 2 + p, 2 + p + Started(a.launch)}  BY <1>3, <2>4 DEF Effort
  <2> QED  BY <2>3, <2>4, <2>5, <2>6
<1> QED  BY <1>2, <1>3

\* Getting the result of a task takes no agent back, and only adds to it.
LEMMA AlongKeeps ==
  ASSUME NEW a \in Agents, NEW b \in Agents, Along(a, b)
  PROVE  Effort(b) = Effort(a) /\ (Quota(a) => Quota(b))
<1>1. a.launch \in Seq(Results) /\ b.launch \in Seq(Results)  BY AgentFields
<1>2. {i \in DOMAIN b.launch : b.launch[i].status # "todo"}
        = {i \in DOMAIN a.launch : a.launch[i].status # "todo"}
  BY DEF Along
<1>3. Started(b.launch) = Started(a.launch)  BY <1>2 DEF Started
<1>4. Len(b.launch) = Len(a.launch)
  <2>1. /\ Len(a.launch) \in Nat /\ DOMAIN a.launch = 1 .. Len(a.launch)
        /\ Len(b.launch) \in Nat /\ DOMAIN b.launch = 1 .. Len(b.launch)
    BY <1>1
  <2>2. DOMAIN b.launch = DOMAIN a.launch  BY DEF Along
  <2> QED  BY <2>1, <2>2
<1> QED  BY <1>3, <1>4 DEF Along, Effort, Quota

\* The agent that takes a step gets further.
LEMMA OnwardGains ==
  ASSUME NEW a \in Agents, NEW b \in Agents, Quota(a), a.phase # "ended", Onward(a, b)
  PROVE  Effort(b) > Effort(a) /\ Quota(b)
<1>1. /\ a.steps \in Nat /\ a.launch \in Seq(Results) /\ b.launch \in Seq(Results)
      /\ a.phase \in {"deciding", "tool", "launching"}
  BY AgentFields
<1>2. /\ Effort(a) \in Nat /\ Effort(a) <= a.steps * Pass + Pass
      /\ Effort(a) < 1 + MaxSteps * Pass
  BY EffortBound
<1>3. a.steps < MaxSteps /\ Len(a.launch) <= MaxSubtasks  BY DEF Quota
<1>4. /\ a.steps * Pass \in Nat /\ Pass \in Nat
      /\ (a.steps + 1) * Pass = a.steps * Pass + Pass
  BY <1>1, <1>3, Passes
<1>5. CASE b.phase = "ended"
  <2>1. Effort(b) = 1 + MaxSteps * Pass  BY <1>5 DEF Effort
  <2> QED  BY <1>2, <1>5, <2>1 DEF Quota
<1>6. CASE b.phase = "deciding" /\ b.steps = a.steps + 1 /\ b.steps < MaxSteps /\ b.launch = << >>
  <2>1. Effort(b) = 1 + (a.steps * Pass + Pass)  BY <1>4, <1>6 DEF Effort
  <2>2. Len(b.launch) <= MaxSubtasks  BY <1>6, LimitsAssumption
  <2> QED  BY <1>2, <1>4, <1>6, <2>1, <2>2 DEF Quota
<1>7. CASE /\ a.phase = "deciding" /\ b.phase \in {"tool", "launching"} /\ b.steps = a.steps
           /\ Len(b.launch) <= MaxSubtasks
  <2>1. Effort(a) = 1 + a.steps * Pass  BY <1>7 DEF Effort
  <2>2. Started(b.launch) \in Nat  BY <1>1, StartedTasks
  <2>3. Effort(b) \in {2 + a.steps * Pass, 2 + a.steps * Pass + Started(b.launch)}
    BY <1>7 DEF Effort
  <2> QED  BY <1>3, <1>4, <1>7, <2>1, <2>2, <2>3 DEF Quota
<1>8. ASSUME a.phase = "launching", b.phase = "launching", b.steps = a.steps,
             DOMAIN b.launch = DOMAIN a.launch,
             NEW i \in DOMAIN a.launch,
             a.launch[i].status = "todo", b.launch[i].status # "todo",
             \A j \in DOMAIN a.launch : j # i => b.launch[j] = a.launch[j]
      PROVE  Effort(b) > Effort(a) /\ Quota(b)
  <2> DEFINE S == {j \in DOMAIN a.launch : a.launch[j].status # "todo"}
  <2> DEFINE T == {j \in DOMAIN b.launch : b.launch[j].status # "todo"}
  <2>1. T = S \cup {i} /\ i \notin S  BY <1>8
  <2>2. IsFiniteSet(S) /\ Cardinality(S) \in Nat
    BY <1>1, StartedTasks DEF Started
  <2>3. Cardinality(T) = Cardinality(S) + 1  BY <2>1, <2>2, FS_AddElement
  <2>4. Started(b.launch) = Started(a.launch) + 1 /\ Started(a.launch) \in Nat
    BY <2>2, <2>3 DEF Started
  <2>5. Effort(a) = 2 + a.steps * Pass + Started(a.launch)  BY <1>8 DEF Effort
  <2>6. Effort(b) = 2 + a.steps * Pass + Started(b.launch)  BY <1>8 DEF Effort
  <2>7. Len(b.launch) = Len(a.launch)
    <3>1. /\ Len(a.launch) \in Nat /\ DOMAIN a.launch = 1 .. Len(a.launch)
          /\ Len(b.launch) \in Nat /\ DOMAIN b.launch = 1 .. Len(b.launch)
      BY <1>1
    <3> QED  BY <1>8, <3>1
  <2> QED  BY <1>3, <1>4, <1>8, <2>4, <2>5, <2>6, <2>7 DEF Quota
<1> QED  BY <1>5, <1>6, <1>7, <1>8 DEF Onward

\* A node that takes a step is running.
LEMMA Mover ==
  ASSUME IInv, NEW n \in Nodes, AgentStep(n) \/ Raise(n)
  PROVE  run = "running" /\ status[n] = "running" /\ agent[n].phase # "ended"
<1>1. CASE \/ InvalidAction(n) \/ Think(n) \/ CallTool(n) \/ RefuseTool(n) \/ DirectAnswer(n)
           \/ Aggregate(n) \/ Finish(n) \/ LaunchSubagent(n) \/ LaunchSubagentsParallel(n)
  BY <1>1 DEF InvalidAction, Think, CallTool, RefuseTool, DirectAnswer, Aggregate, Finish,
              LaunchSubagent, LaunchSubagentsParallel, Answers, Deciding
<1>2. CASE ToolReturns(n) \/ Collect(n) \/ \E i \in 1 .. MaxSubtasks : StartChild(n, i) \/ RefuseChild(n, i)
  <2>1. run = "running" /\ agent[n].phase \in {"tool", "launching"}
    BY <1>2 DEF ToolReturns, Collect, StartChild, RefuseChild, Starting
  <2> QED  BY <2>1, Phase
<1>3. CASE Raise(n)  BY <1>3 DEF Raise
<1> QED  BY <1>1, <1>2, <1>3 DEF AgentStep

\* The tree loses no node.
LEMMA NodesStay ==
  ASSUME IInv, IInv', NEW n \in Nodes, AgentStep(n) \/ Raise(n),
         NEW m \in Nodes, status'[m] = "absent"
  PROVE  status[m] = "absent"
<1>1. allocated' = allocated \/ allocated' = allocated + 1
  BY DEF AgentStep, Raise, InvalidAction, Think, CallTool, RefuseTool, ToolReturns, DirectAnswer,
         Aggregate, Finish, LaunchSubagent, LaunchSubagentsParallel, Launch,
         StartChild, NextNode, RefuseChild, Collect
<1>2. allocated \in Nat /\ m \in Nat  BY Constants DEF IInv, TypeOK
<1>3. m > allocated'  BY DEF IInv, Tree
<1>4. m > allocated  BY <1>1, <1>2, <1>3
<1> QED  BY <1>4 DEF IInv, Tree

\* What a step leaves of the quotas, and what it adds to the work.
LEMMA StepGains ==
  ASSUME IInv, Quotas, NEW n \in Nodes, AgentStep(n) \/ Raise(n)
  PROVE  /\ Quotas'
         /\ AgentStep(n) \/ run' = "running" =>
              Work(n)' > Work(n) /\ \A m \in Nodes : Work(m)' >= Work(m)
<1>1. IInv' /\ (AgentStep(n) \/ run' = "running" => Advance(n))  BY AgentStepKeeps
<1>2. agent \in [Nodes -> Agents] /\ agent' \in [Nodes -> Agents]
  BY <1>1 DEF IInv, TypeOK
<1>3. CASE AgentStep(n) \/ run' = "running"
  <2>1. Advance(n)  BY <1>1, <1>3
  <2>2. status[n] = "running" /\ agent[n].phase # "ended"  BY Mover
  <2>3. \A m \in Nodes : status'[m] = "absent" => status[m] = "absent"  BY <1>1, NodesStay
  <2>4. Effort(agent'[n]) > Effort(agent[n]) /\ Quota(agent'[n])
    BY <1>2, <2>1, <2>2, OnwardGains DEF Quotas, Advance
  <2>5. ASSUME NEW m \in Nodes, m # n
        PROVE  Effort(agent'[m]) = Effort(agent[m]) /\ Quota(agent'[m])
    BY <1>2, <2>1, <2>5, AlongKeeps DEF Quotas, Advance
  <2>6. ASSUME NEW m \in Nodes PROVE Effort(agent[m]) \in Nat /\ Effort(agent'[m]) \in Nat
    BY <1>2, <2>4, <2>5, EffortBound DEF Quotas
  <2>7. Work(n)' > Work(n)  BY <2>2, <2>3, <2>4, Statuses DEF Work
  <2>8. ASSUME NEW m \in Nodes PROVE Work(m)' >= Work(m)
    <3>1. Effort(agent'[m]) >= Effort(agent[m])  BY <2>4, <2>5, <2>6
    <3> QED  BY <2>3, <2>6, <3>1 DEF Work
  <2> QED  BY <2>4, <2>5, <2>7, <2>8 DEF Quotas
<1>4. CASE ~ (AgentStep(n) \/ run' = "running")
  <2>1. CASE n = Root  BY <1>4, <2>1 DEF Raise, Quotas
  <2>2. CASE n # Root
    <3>1. run' = run  BY <1>4, <2>2 DEF Raise, End
    <3> QED  BY <1>4, <3>1, Mover
  <2> QED  BY <2>1, <2>2
<1> QED  BY <1>3, <1>4

LEMMA QuotasKept ==
  ASSUME IInv, Quotas, [Next]_vars PROVE Quotas'
<1>1. CASE UNCHANGED vars  BY <1>1 DEF vars, Quotas
<1>2. CASE \E n \in Nodes : AgentStep(n) \/ Raise(n)  BY <1>2, StepGains
<1>3. CASE Timeout \/ Cancel
  <2>1. agent' = [n \in Nodes |-> NewAgent]
    BY <1>3 DEF Timeout, Cancel, MarkUnfinished
  <2> QED  BY <2>1, LimitsAssumption DEF Quotas, Quota, NewAgent
<1> QED  BY <1>1, <1>2, <1>3 DEF Next

LEMMA WithinQuotas == Spec => []Quotas
<1>1. Init => Quotas  BY LimitsAssumption DEF Init, Quotas, Quota, NewAgent
<1>2. IInv /\ Quotas /\ [Next]_vars => Quotas'  BY QuotasKept
<1> QED  BY <1>1, <1>2, Consistency, PTL DEF Spec

\* No agent's work ever exceeds what max_steps_per_node allows it (agent.py's
\* loop runs at most that often, and each pass launches at most MaxSubtasks tasks).
WorkLimit ==
  \A n \in Nodes : Work(n) \in Nat /\ Work(n) <= 1 + MaxSteps * Pass

\* Each node is within its limit of work.
THEOREM WorkBounded == Spec => []WorkLimit
<1>1. IInv /\ Quotas => WorkLimit
  <2> SUFFICES ASSUME IInv, Quotas, NEW n \in Nodes
               PROVE  Work(n) \in Nat /\ Work(n) <= 1 + MaxSteps * Pass
    BY DEF WorkLimit
  <2>1. Effort(agent[n]) \in Nat /\ Effort(agent[n]) <= 1 + MaxSteps * Pass
    BY EffortBound DEF IInv, TypeOK, Quotas
  <2>2. MaxSteps * Pass \in Nat  BY LimitsAssumption, Passes
  <2> QED  BY <2>1, <2>2 DEF Work
<1> QED  BY <1>1, Consistency, WithinQuotas, PTL

\* Each step of an agent adds to the agent's own work and undoes none of another's:
\* with the limit, no node takes more than 1 + MaxSteps * Pass steps in a run.
StepsGain ==
  [][\A n \in Nodes : AgentStep(n) =>
       Work(n)' > Work(n) /\ \A m \in Nodes : Work(m)' >= Work(m)]_vars

\* Every step of an agent is a step towards the end of the run.
THEOREM Advances == Spec => StepsGain
<1> DEFINE A == \A n \in Nodes : AgentStep(n) =>
                  Work(n)' > Work(n) /\ \A m \in Nodes : Work(m)' >= Work(m)
<1>1. IInv /\ Quotas /\ [Next]_vars => [A]_vars
  <2> SUFFICES ASSUME IInv, Quotas PROVE A  OBVIOUS
  <2> QED  BY StepGains
<1> QED  BY <1>1, Consistency, WithinQuotas, PTL DEF Spec, StepsGain

\* It is the node's turn: its policy is asked, its tool has been called, a task of
\* its launch is next to start, or all of them have their results.
HasTurn(n) ==
  \/ Deciding(n)
  \/ run = "running" /\ agent[n].phase = "tool"
  \/ \E i \in 1 .. MaxSubtasks : Starting(n, i)
  \/ /\ run = "running" /\ agent[n].phase = "launching"
     /\ \A i \in DOMAIN agent[n].launch : agent[n].launch[i].status \notin Unsettled

\* The greatest of the nodes that run, which waits for none of them.
LEMMA LastRunning ==
  ASSUME IInv, run = "running"
  PROVE  \E n \in Nodes : /\ status[n] = "running"
                          /\ \A m \in Nodes : status[m] = "running" => m <= n
<1> DEFINE T == {MaxNodes - m : m \in {k \in Nodes : status[k] = "running"}}
<1>1. MaxNodes \in Nat /\ \A m \in Nodes : m \in Nat /\ m <= MaxNodes
  BY LimitsAssumption DEF Nodes
<1>2. T \subseteq Nat  BY <1>1
<1>3. MaxNodes - Root \in T  BY Constants DEF IInv, Books, RootFirst
<1> HIDE DEF T
<1>4. PICK x \in T : \A y \in T : x <= y  BY <1>2, <1>3, LeastElement
<1>5. PICK n \in Nodes : status[n] = "running" /\ x = MaxNodes - n  BY <1>4 DEF T
<1>6. ASSUME NEW m \in Nodes, status[m] = "running" PROVE m <= n
  <2>1. MaxNodes - m \in T  BY <1>6 DEF T
  <2> QED  BY <1>1, <1>4, <1>5, <2>1
<1> QED  BY <1>5, <1>6

\* A launch of which a task has not started goes on with the first such task.
LEMMA FirstToDo ==
  ASSUME IInv, Quotas, run = "running", NEW n \in Nodes, agent[n].phase = "launching",
         NEW i \in DOMAIN agent[n].launch, agent[n].launch[i].status = "todo"
  PROVE  \E j \in 1 .. MaxSubtasks : Starting(n, j)
<1> DEFINE t == agent[n].launch
<1> DEFINE T == {j \in DOMAIN t : t[j].status = "todo"}
<1>1. t \in Seq(Results)  BY AgentFields DEF IInv, TypeOK
<1>2. Len(t) \in Nat /\ DOMAIN t = 1 .. Len(t)  BY <1>1
<1>3. Len(t) <= MaxSubtasks /\ MaxSubtasks \in Nat
  BY LimitsAssumption DEF Quotas, Quota
<1> HIDE DEF t
<1>4. T \subseteq Nat /\ T # {}  BY <1>2 DEF t
<1>5. PICK j \in T : \A k \in T : j <= k  BY <1>4, LeastElement
<1>6. ASSUME NEW k \in 1 .. j - 1 PROVE t[k].status # "todo"
  <2>1. k \in DOMAIN t /\ ~ (j <= k)  BY <1>2, <1>5
  <2> QED  BY <1>5, <2>1
<1>7. Starting(n, j)  BY <1>5, <1>6 DEF Starting, t
<1>8. j \in 1 .. MaxSubtasks  BY <1>2, <1>3, <1>5
<1> QED  BY <1>7, <1>8

LEMMA SomeoneHasTurn ==
  ASSUME IInv, Quotas, run = "running" PROVE \E n \in Nodes : HasTurn(n)
<1>1. PICK n \in Nodes : /\ status[n] = "running"
                         /\ \A m \in Nodes : status[m] = "running" => m <= n
  BY LastRunning
<1>2. Account(n) /\ Phases(n) /\ TypeOK /\ Tree  BY DEF IInv, Books
<1>3. agent[n] \in Agents /\ agent[n].launch \in Seq(Results)
  BY <1>2, AgentFields DEF TypeOK
<1>4. agent[n].phase \in {"deciding", "tool", "launching"}
  BY <1>1, <1>2, <1>3, AgentFields, Statuses DEF Phases
<1>5. CASE agent[n].phase \in {"deciding", "tool"}  BY <1>1, <1>5 DEF HasTurn, Deciding
<1>6. ASSUME agent[n].phase = "launching",
             NEW i \in DOMAIN agent[n].launch, agent[n].launch[i].status = "todo"
      PROVE  HasTurn(n)
  BY <1>6, FirstToDo DEF HasTurn
<1>7. CASE /\ agent[n].phase = "launching"
           /\ \A i \in DOMAIN agent[n].launch : agent[n].launch[i].status # "todo"
  <2>1. ASSUME NEW i \in DOMAIN agent[n].launch, agent[n].launch[i].status = "running"
        PROVE  FALSE
    <3> DEFINE c == agent[n].launch[i].node
    <3>1. c \in attached[n] /\ status[c] = "running"
      BY <1>2, <2>1 DEF Account, LaunchedKids, Tasks
    <3>2. c \in Nodes /\ c # Root /\ parent[c] = n  BY <1>2, <3>1, Family
    <3>3. n < c  BY <1>2, <3>1, <3>2, Statuses DEF Tree
    <3>4. c <= n  BY <1>1, <3>1, <3>2
    <3>5. c \in Nat /\ n \in Nat  BY <3>2, Constants
    <3> HIDE DEF c
    <3> QED  BY <3>3, <3>4, <3>5
  <2> QED  BY <1>7, <2>1 DEF HasTurn, Unsettled
<1> QED  BY <1>4, <1>5, <1>6, <1>7

\* As long as the run goes on it is some node's turn: limits that are used up and
\* children that are waited for leave no ring of nodes that wait for one another.
SomeTurn == run = "running" => \E n \in Nodes : HasTurn(n)

\* A run that goes on is never stuck.
THEOREM NeverStuck == Spec => []SomeTurn
<1>1. IInv /\ Quotas => SomeTurn  BY SomeoneHasTurn DEF SomeTurn
<1> QED  BY <1>1, Consistency, WithinQuotas, PTL

\* What the others do takes no node's turn away.
LEMMA TurnLasts ==
  ASSUME IInv, IInv', NEW n \in Nodes, AgentStep(n) \/ Raise(n), run' = "running", Advance(n),
         NEW m \in Nodes, m # n, HasTurn(m)
  PROVE  HasTurn(m)'
<1>1. Along(agent[m], agent'[m])  BY DEF Advance
<1>2. CASE Deciding(m)
  <2>1. status[m] = "running" /\ agent'[m].phase = "deciding"  BY <1>1, <1>2 DEF Deciding, Along
  <2>2. status'[m] # "absent"  BY <2>1, NodesStay, Statuses
  <2>3. Phases(m)' /\ status'[m] \in NodeStatus  BY DEF IInv, Books, TypeOK
  <2>4. status'[m] = "running"  BY <2>1, <2>2, <2>3, Statuses DEF Phases
  <2> QED  BY <2>1, <2>4 DEF HasTurn, Deciding
<1>3. CASE run = "running" /\ agent[m].phase = "tool"
  BY <1>1, <1>3 DEF HasTurn, Along
<1>4. ASSUME NEW i \in 1 .. MaxSubtasks, Starting(m, i) PROVE HasTurn(m)'
  <2>1. agent[m].launch \in Seq(Results)  BY AgentFields DEF IInv, TypeOK
  <2>2. Len(agent[m].launch) \in Nat /\ DOMAIN agent[m].launch = 1 .. Len(agent[m].launch)
    BY <2>1
  <2>3. 1 .. i - 1 \subseteq DOMAIN agent[m].launch  BY <1>4, <2>2 DEF Starting
  <2>4. Starting(m, i)'  BY <1>1, <1>4, <2>3 DEF Starting, Along
  <2> QED  BY <2>4 DEF HasTurn
<1>5. CASE /\ run = "running" /\ agent[m].phase = "launching"
           /\ \A i \in DOMAIN agent[m].launch : agent[m].launch[i].status \notin Unsettled
  BY <1>1, <1>5 DEF HasTurn, Along
<1> QED  BY <1>2, <1>3, <1>4, <1>5 DEF HasTurn

\* A node that has its turn keeps it, whatever the others do, until it takes it and
\* gets further, or the run is over: what the fairness of the loop needs to serve it.
TurnsKept ==
  [][\A n \in Nodes : HasTurn(n) /\ run' = "running" =>
       HasTurn(n)' \/ Work(n)' > Work(n)]_vars

\* No node loses its turn to another.
THEOREM TurnsLast == Spec => TurnsKept
<1> DEFINE A == \A n \in Nodes : HasTurn(n) /\ run' = "running" =>
                  HasTurn(n)' \/ Work(n)' > Work(n)
<1>1. IInv /\ Quotas /\ [Next]_vars => [A]_vars
  <2> SUFFICES ASSUME IInv, Quotas, Next, NEW m \in Nodes, HasTurn(m), run' = "running"
               PROVE  HasTurn(m)' \/ Work(m)' > Work(m)
    OBVIOUS
  <2>1. ASSUME NEW n \in Nodes, AgentStep(n) \/ Raise(n)
        PROVE  HasTurn(m)' \/ Work(m)' > Work(m)
    <3>1. IInv' /\ Advance(n)  BY <2>1, AgentStepKeeps
    <3>2. CASE m = n  BY <2>1, <3>2, StepGains
    <3>3. CASE m # n  BY <2>1, <3>1, <3>3, TurnLasts
    <3> QED  BY <3>2, <3>3
  <2>2. CASE Timeout \/ Cancel  BY <2>2 DEF Timeout, Cancel, MarkUnfinished
  <2> QED  BY <2>1, <2>2 DEF Next
<1> QED  BY <1>1, Consistency, WithinQuotas, PTL DEF Spec, TurnsKept

-----------------------------------------------------------------------------
(* The abstract tree *)

\* What ends by itself has no child that runs.
LEMMA EndIsPromised ==
  ASSUME IInv, ParentsOutliveChildren', NEW n \in Nodes, run = "running", status[n] = "running",
         NEW a, NEW s \in {"completed", "failed", "step_limited"}, n = Root => s # "failed",
         End(n, a, s), SameNodes
  PROVE  Trace!Next
<1>1. /\ status' = [status EXCEPT ![n] = s]
      /\ run' = IF n = Root THEN "returned" ELSE run
      /\ UNCHANGED << attached, depth >>
  BY DEF End, SameNodes
<1>2. status \in [Nodes -> NodeStatus] /\ status'[n] \in Terminal
  BY <1>1 DEF IInv, TypeOK, Terminal
<1>3. ASSUME NEW c \in attached[n] PROVE status[c] \in Terminal
  <2>1. c \in Nodes /\ c # n  BY Family DEF IInv
  <2>2. status'[c] \in Terminal  BY <1>1, <1>2 DEF ParentsOutliveChildren
  <2> QED  BY <1>1, <1>2, <2>1, <2>2
<1>4. Trace!ChildrenEnded(n)  BY <1>3, Statuses DEF Trace!ChildrenEnded
<1>5. Trace!End(n, s)  BY <1>1, <1>4 DEF Trace!End, Trace!Running
<1> QED  BY <1>5 DEF Trace!Next

\* The steps between launches, and a launch's last, end the node or leave the tree as it is.
LEMMA PassIsPromised ==
  ASSUME IInv, ParentsOutliveChildren', NEW n \in Nodes,
         \/ InvalidAction(n) \/ Think(n) \/ RefuseTool(n) \/ ToolReturns(n)
         \/ DirectAnswer(n) \/ Aggregate(n) \/ Finish(n) \/ Collect(n)
  PROVE  Trace!Next \/ UNCHANGED Trace!vars
<1>1. run = "running" /\ status[n] = "running"  BY Mover DEF AgentStep
<1>2. SameNodes
  BY DEF InvalidAction, Think, RefuseTool, ToolReturns, DirectAnswer, Aggregate, Finish,
         Collect, SameNodes
<1>3. \E a : Continue(n, a) \/ End(n, a, "completed")
  <2>1. CASE InvalidAction(n)
    <3> DEFINE a == [agent[n] EXCEPT !.invalid = @ + 1]
    <3> DEFINE b == [a EXCEPT !.steps = @ + 1]
    <3>1. End(n, b, "completed") \/ Continue(n, a)  BY <2>1, InvalidActionGoesOn
    <3> QED  BY <3>1
  <2>2. CASE Think(n) \/ RefuseTool(n) \/ ToolReturns(n)
    <3>1. Continue(n, agent[n])  BY <2>2, NodeGoesOn
    <3> QED  BY <3>1
  <2>3. CASE DirectAnswer(n)
    <3> DEFINE a == [agent[n] EXCEPT !.draft = TRUE]
    <3>1. Continue(n, a)  BY <2>3, DirectAnswerGoesOn
    <3> QED  BY <3>1
  <2>4. CASE Aggregate(n)
    <3> DEFINE a == [agent[n] EXCEPT !.draft = @ \/ agent[n].children # << >>]
    <3>1. Continue(n, a)  BY <2>4, AggregateGoesOn
    <3> QED  BY <3>1
  <2>5. CASE Finish(n)
    <3> DEFINE b == [agent[n] EXCEPT !.steps = @ + 1]
    <3>1. End(n, b, "completed")  BY <2>5, FinishEnds
    <3> QED  BY <3>1
  <2>6. CASE Collect(n)
    <3> DEFINE a == [agent[n] EXCEPT !.children = @ \o agent[n].launch, !.launch = << >>,
                                     !.draft = @ \/ n = Root]
    <3>1. Continue(n, a)  BY <2>6, CollectGoesOn
    <3> QED  BY <3>1
  <2> QED  BY <2>1, <2>2, <2>3, <2>4, <2>5, <2>6
<1>4. PICK a : Continue(n, a) \/ End(n, a, "completed")  BY <1>3
<1>5. CASE UNCHANGED << run, status >>
  BY <1>2, <1>5 DEF Trace!vars, SameNodes
<1>6. CASE ~ UNCHANGED << run, status >>
  <2>1. \E b : End(n, b, "step_limited") \/ End(n, b, "completed")
    BY <1>4, <1>6 DEF Continue
  <2> QED  BY <1>1, <1>2, <2>1, EndIsPromised
<1> QED  BY <1>5, <1>6

\* A child starts below a running node, as the next absent one.
LEMMA StartIsPromised ==
  ASSUME IInv, WithinLimits', NEW n \in Nodes, NEW i, StartChild(n, i)
  PROVE  Trace!Next
<1> DEFINE c == NextNode
<1>0. allocated \in Nodes /\ allocated < MaxNodes /\ run = "running" /\ status[n] = "running"
  BY Phase DEF StartChild, Starting, IInv, TypeOK
<1>1. c \in Nodes /\ c > allocated  BY <1>0, LimitsAssumption DEF Nodes, NextNode
<1>2. status[c] = "absent"  BY <1>1 DEF IInv, Tree
<1>3. /\ attached' = [attached EXCEPT ![n] = @ \cup {c}]
      /\ depth' = [depth EXCEPT ![c] = depth[n] + 1]
      /\ status' = [status EXCEPT ![c] = "running"]
      /\ UNCHANGED run /\ depth[n] < MaxDepth
  BY DEF StartChild
<1> HIDE DEF c
<1>4. attached[n] \subseteq Nodes /\ c \notin attached[n] /\ attached \in [Nodes -> SUBSET Nodes]
  BY <1>2, Family DEF IInv, TypeOK
<1>5. IsFiniteSet(attached[n])
  <2>1. IsFiniteSet(1 .. MaxNodes)
    BY LimitsAssumption, FS_Interval, 1 \in Int, MaxNodes \in Int
  <2> QED  BY <1>4, <2>1, FS_Subset DEF Nodes
<1>6. /\ Cardinality(attached'[n]) = Cardinality(attached[n]) + 1
      /\ Cardinality(attached[n]) \in Nat
  BY <1>3, <1>4, <1>5, FS_AddElement, FS_CardinalityType
<1>7. Cardinality(attached[n]) < MaxChildren
  <2>1. Cardinality(attached'[n]) <= MaxChildren  BY DEF WithinLimits
  <2>2. MaxChildren \in Nat  BY LimitsAssumption
  <2> QED  BY <1>6, <2>1, <2>2
<1>8. Trace!Cardinality(attached[n]) = Cardinality(attached[n])
  BY DEF Trace!Cardinality, Cardinality
<1>9. Trace!Spawn(n, c)
  BY <1>0, <1>2, <1>3, <1>7, <1>8 DEF Trace!Spawn, Trace!Running
<1> QED  BY <1>1, <1>9 DEF Trace!Next

\* An exception from a node, and what becomes of the run then.
LEMMA RaiseIsPromised ==
  ASSUME IInv, ParentsOutliveChildren', NEW n \in Nodes, Raise(n)
  PROVE  Trace!Next
<1>1. /\ run = "running" /\ status[n] = "running" /\ agent[n].phase \in {"deciding", "tool"}
      /\ SameNodes
  BY DEF Raise, SameNodes
<1>2. CASE n = Root
  <2>1. run' = "raised" /\ UNCHANGED status  BY <1>2 DEF Raise
  <2>2. SettledKids(n, agent[n].children) /\ Covered(n, agent[n].children, << >>)
    BY <1>1, BetweenLaunches
  <2>3. ASSUME NEW c \in attached[n] PROVE status[c] \notin {"absent", "running"}
    <3>1. c # NoNode /\ status[c] # "absent"  BY Family DEF IInv
    <3>2. PICK i \in DOMAIN agent[n].children : agent[n].children[i].node = c
      BY <2>2 DEF Covered
    <3>3. status[c] \notin Unsettled  BY <2>2, <3>1, <3>2 DEF SettledKids
    <3> QED  BY <3>1, <3>3, Statuses
  <2>4. Trace!Escape
    BY <1>1, <1>2, <2>1, <2>3 DEF Trace!Escape, Trace!Running, Trace!ChildrenEnded, SameNodes
  <2> QED  BY <2>4 DEF Trace!Next
<1>3. CASE n # Root
  <2>1. \E a : End(n, a, "failed")  BY <1>3, RaiseEnds
  <2> QED  BY <1>1, <1>3, <2>1, EndIsPromised
<1> QED  BY <1>2, <1>3

\* The execution tree of a run implements TaskTree, for every value of the limits
\* and every policy: agents, launches and results are how the promise is kept.
THEOREM ImplementsTree == Spec => TreeSpec
<1>1. Init => Trace!Init
  BY DEF Init, Trace!Init
<1>2. IInv /\ ParentsOutliveChildren' /\ WithinLimits' /\ [Next]_vars => [Trace!Next]_(Trace!vars)
  <2> SUFFICES ASSUME IInv, ParentsOutliveChildren', WithinLimits', [Next]_vars
               PROVE  Trace!Next \/ UNCHANGED Trace!vars
    OBVIOUS
  <2>1. ASSUME NEW n \in Nodes, AgentStep(n) PROVE Trace!Next \/ UNCHANGED Trace!vars
    <3>1. CASE CallTool(n) \/ LaunchSubagent(n) \/ LaunchSubagentsParallel(n)
               \/ \E i \in 1 .. MaxSubtasks : RefuseChild(n, i)
      BY <3>1 DEF CallTool, LaunchSubagent, LaunchSubagentsParallel, Launch, RefuseChild, Trace!vars
    <3>2. CASE \E i \in 1 .. MaxSubtasks : StartChild(n, i)
      BY <3>2, StartIsPromised
    <3> QED  BY <2>1, <3>1, <3>2, PassIsPromised DEF AgentStep
  <2>2. ASSUME NEW s \in {"timeout", "cancelled"}, MarkUnfinished(s) PROVE Trace!Next
    <3>1. Trace!Stop(s)  BY <2>2 DEF MarkUnfinished, Trace!Stop
    <3> QED  BY <3>1 DEF Trace!Next
  <2>3. CASE UNCHANGED vars  BY <2>3 DEF vars, Trace!vars
  <2> QED  BY <2>1, <2>2, <2>3, RaiseIsPromised DEF Next, Timeout, Cancel
<1> QED  BY <1>1, <1>2, Consistency, ChildrenEndFirst, LimitsHold, PTL DEF Spec, TreeSpec, Trace!Spec

=============================================================================
