-------------------------- MODULE BatchCompilation --------------------------
(***************************************************************************)
(* From the frozen rollouts of a round to the optimizer batch: a verifier  *)
(* gives every node of every tree a success signal, one node at a time;    *)
(* the round is then scored, compiled and audited in one go, and either    *)
(* trained on or collected again.                                          *)
(*                                                                         *)
(* The trees are complete: a group that is not is refused before (see      *)
(* RoundCollection).  A node carries what the verdicts depend on: how it   *)
(* came to its answer (its own, or one the harness gave for it at the step *)
(* limit or for another reason), whether one of its turns was truncated    *)
(* and whether its answer passes the guard it meets.  Rewards are in units *)
(* of 1/Unit, advantages in units of 1/(Unit * (GroupSize - 1)): the       *)
(* arithmetic is exact.                                                    *)
(*                                                                         *)
(* Left out: the weight of a sample, 1 or the inverse frequency of its     *)
(* depth, which no decision here depends on; and that a node is one sample *)
(* for each of its turns, all of them with the advantage of the node.      *)
(***************************************************************************)
EXTENDS Integers, Sequences, FiniteSets, FiniteSetsExt

CONSTANTS Tasks,            \* groups of the round
          GroupSize,        \* rollouts of a group
          Parent,           \* rollout -> parents of its nodes 1, 2, ...; node 0 is the root
          Profiles,         \* node -> what collection may make of it
          TrainFailed,      \* reward.train_failed_trajectories
          Unit,             \* rewards are multiples of 1/Unit
          DelegationLambda, \* reward.delegation_lambda, in units
          MaxRetries,       \* judge.max_retries
          MaxAttempts       \* sync_flywheel.max_collection_attempts

ASSUME ConstantsAssumption ==
    /\ Tasks \in Nat \ {0} /\ GroupSize \in Nat /\ GroupSize >= 2
    /\ TrainFailed \in BOOLEAN
    /\ Unit \in Nat \ {0} /\ DelegationLambda \in Nat
    /\ MaxRetries \in Nat /\ MaxAttempts \in Nat \ {0}

VARIABLES verifier,   \* "judge": each node is judged; "proxy": its root's signal is
          attempt,    \* collection_attempt + 1
          phase,      \* "collecting", "verifying", "training" or "failed"
          node,       \* the nodes as they were collected, if they are
          evaluation, \* success signal of each node
          cache,      \* root_results of the proxy, by rollout id
          tries,      \* failed requests of the judge call under way
          givenUp,    \* terminal_failures of the judge service
          givenUpBefore, \* the same when the attempt began
          unanswered  \* history: nodes of the attempt whose last judge request failed

vars == <<verifier, attempt, phase, node, evaluation, cache,
          tries, givenUp, givenUpBefore, unanswered>>

Group   == 0 .. Tasks - 1
Rollout == Group \X (0 .. GroupSize - 1)
Node    == UNION {{r} \X (0 .. Len(Parent[r])) : r \in Rollout}

\* "answered": by its own finish; "step_limit", or "fallback" for the other two
\* reasons the harness answers for (invalid_action_limit, fallback_finish)
End == {"answered", "step_limit", "fallback"}

ASSUME TreesAssumption ==
    /\ \A r \in Rollout : /\ Parent[r] \in Seq(Nat)
                          /\ \A k \in DOMAIN Parent[r] : Parent[r][k] < k
    /\ \A n \in Node : Profiles[n] \subseteq [end : End, truncated : BOOLEAN, passes : BOOLEAN]

RootOf(r)    == <<r, 0>>
IsRoot(n)    == n[2] = 0
NodesOf(r)   == {n \in Node : n[1] = r}
Children(n)  == {m \in NodesOf(n[1]) : ~IsRoot(m) /\ Parent[n[1]][m[2]] = n[2]}

\* for tree in bundle.rollouts: for node in tree.nodes.values()
Before(m, n) ==
    \/ m[1][1] < n[1][1]
    \/ m[1][1] = n[1][1] /\ m[1][2] < n[1][2]
    \/ m[1] = n[1] /\ m[2] < n[2]

Todo == {n \in Node : evaluation[n] = "none"}
NextNode == CHOOSE n \in Todo : \A m \in Todo \ {n} : Before(n, m)

Collected == {f \in [Node -> UNION {Profiles[n] : n \in Node}] : \A n \in Node : f[n] \in Profiles[n]}

\* Mutant: the id of a rollout does not tell the attempts of a round apart.
RolloutIdOfRound(r) == <<1, r>>

\* make_group_id: the group sequence differs in every attempt
RolloutId(r) == <<attempt, r>>

Init ==
    /\ verifier \in {"judge", "proxy"}
    /\ attempt = 1
    /\ phase = "collecting"
    /\ node = <<>>
    /\ evaluation = [n \in Node |-> "none"]
    /\ cache = [id \in (1 .. MaxAttempts) \X Rollout |-> "none"]
    /\ tries = 0
    /\ givenUp = 0 /\ givenUpBefore = 0
    /\ unanswered = {}

\* The groups are collected and frozen: the subject of RoundCollection.
Collect ==
    /\ phase = "collecting"
    /\ node' \in Collected
    /\ phase' = "verifying"
    /\ UNCHANGED <<verifier, attempt, evaluation, cache, tries, givenUp, givenUpBefore, unanswered>>

-----------------------------------------------------------------------------
(* Verification: the nodes of all trees, one after the other.              *)

\* is_fallback
Fallback(n) == node[n].end # "answered"

\* What can be said without asking the judge.
RuledOut(n) == Fallback(n) \/ ~node[n].passes

\* What the verifier has to look at next: the proxy asks about roots only.
Subject ==
    IF verifier = "judge" THEN NextNode ELSE RootOf(NextNode[1])

Asking ==
    /\ phase = "verifying"
    /\ Todo # {}
    /\ verifier = "proxy" => cache[RolloutId(NextNode[1])] = "none"

Settle(signal) ==
    /\ IF verifier = "judge"
       THEN evaluation' = [evaluation EXCEPT ![NextNode] = signal] /\ UNCHANGED cache
       ELSE cache' = [cache EXCEPT ![RolloutId(NextNode[1])] = signal] /\ UNCHANGED evaluation
    /\ tries' = 0

RuleOut ==
    /\ Asking
    /\ RuledOut(Subject)
    /\ Settle("zero")
    /\ UNCHANGED <<verifier, attempt, phase, node, givenUp, givenUpBefore, unanswered>>

JudgeAnswers ==
    /\ Asking
    /\ ~RuledOut(Subject)
    /\ \E signal \in {"zero", "one"} : Settle(signal)
    /\ unanswered' = unanswered \ {Subject}
    /\ UNCHANGED <<verifier, attempt, phase, node, givenUp, givenUpBefore>>

\* Mutant: a judge that never answers has judged against the node.
JudgeFailsOrRejects ==
    /\ Asking
    /\ ~RuledOut(Subject)
    /\ unanswered' = unanswered \cup {Subject}
    /\ IF tries < MaxRetries
       THEN tries' = tries + 1 /\ UNCHANGED <<evaluation, cache>>
       ELSE Settle("zero")
    /\ UNCHANGED <<verifier, attempt, phase, node, givenUp, givenUpBefore>>

\* The output is not the JSON object asked for, or generation fails.
JudgeFails ==
    /\ Asking
    /\ ~RuledOut(Subject)
    /\ unanswered' = unanswered \cup {Subject}
    /\ IF tries < MaxRetries
       THEN tries' = tries + 1 /\ UNCHANGED <<evaluation, cache, givenUp>>
       ELSE Settle("error") /\ givenUp' = givenUp + 1
    /\ UNCHANGED <<verifier, attempt, phase, node, givenUpBefore>>

\* Mutant: a node that did not answer takes the signal of its root as well.
SignalOfRoot(n) == cache[RolloutId(n[1])]

\* LazyRootProxyVerifier: the signal of the root stands for each of its nodes.
ProxySignal(n) ==
    LET root == cache[RolloutId(n[1])]
    IN  IF root # "error" /\ Fallback(n) THEN "zero" ELSE root

Propagate ==
    /\ phase = "verifying" /\ Todo # {}
    /\ verifier = "proxy"
    /\ cache[RolloutId(NextNode[1])] # "none"
    /\ evaluation' = [evaluation EXCEPT ![NextNode] = ProxySignal(NextNode)]
    /\ UNCHANGED <<verifier, attempt, phase, node, cache,
                   tries, givenUp, givenUpBefore, unanswered>>

-----------------------------------------------------------------------------
(* Scoring and compilation.                                                *)

Judged(n) == evaluation[n] \in {"zero", "one"}

Missing == {n \in Node : ~Judged(n)}

Value(n) == IF evaluation[n] = "one" THEN 1 ELSE 0

Successes(N) == Cardinality({m \in N : Value(m) = 1})

\* child_values: the children that have a signal
Counted(n) == {m \in Children(n) : Judged(m)}

Reward(n) ==
    Unit * Value(n)
        + IF Counted(n) = {} THEN 0
          ELSE (DelegationLambda * Successes(Counted(n))) \div Cardinality(Counted(n))

RolloutsOf(g) == {r \in Rollout : r[1] = g}

\* Mutant: a root is in its own baseline.
BaselineWithOwn(r) ==
    MapThenSumSet(LAMBDA q : Reward(RootOf(q)), RolloutsOf(r[1]))

\* (GroupSize - 1) times the leave-one-out baseline
Baseline(r) ==
    MapThenSumSet(LAMBDA q : Reward(RootOf(q)), RolloutsOf(r[1]) \ {r})

\* (GroupSize - 1) times the advantage
Advantage(n) == (GroupSize - 1) * Reward(n) - Baseline(n[1])

\* assess_node_trainability
Trainable(n) ==
    /\ Fallback(n) => TrainFailed /\ node[n].end = "step_limit"
    /\ ~node[n].truncated
    /\ Judged(n)

Candidates == {n \in Node : Trainable(n)}

-----------------------------------------------------------------------------
(* The admission audit over the scored groups and the batch.               *)

RootTrusted(r) ==
    /\ Value(RootOf(r)) = 1
    /\ ~Fallback(RootOf(r))
    /\ node[RootOf(r)].passes

Positive == {n \in Node : Value(n) = 1}

Trusted ==
    {n \in Positive :
        /\ ~Fallback(n)
        /\ IF verifier = "proxy" THEN RootTrusted(n[1]) ELSE node[n].passes}

TrustedReward(n) ==
    /\ Value(n) = 1 => n \in Trusted
    /\ Successes(Counted(n)) > 0 => Children(n) \cap Trusted # {}

\* Mutant: the judge's failures are not counted from the start of the attempt.
JudgeFailuresOfRun == givenUp

JudgeFailures == givenUp - givenUpBefore

\* Mutant: any sample with an advantage will do.
AuditForAnyAdvantage ==
    {"untrusted signal" : n \in Positive \ Trusted}
        \cup {"untrusted reward" : n \in {m \in Node : Reward(m) > 0 /\ ~TrustedReward(m)}}

Audit ==
    {"untrusted signal" : n \in Positive \ Trusted}
        \cup {"untrusted reward" : n \in {m \in Node : Reward(m) > 0 /\ ~TrustedReward(m)}}
        \cup {"untrusted advantage" :
                n \in {m \in Candidates : Advantage(m) > 0
                                            /\ ~(Reward(m) > 0 /\ TrustedReward(m))}}
        \cup {f \in {"no positive reward"} : Positive = {}}
        \cup {f \in {"no positive advantage"} : ~\E n \in Candidates : Advantage(n) > 0}
        \cup {f \in {"judge failures"} : JudgeFailures > 0}

\* compile_optimizer_batch does not raise and the batch is not all zero.
Compiles ==
    /\ Missing = {}
    /\ Candidates # {}
    /\ \E n \in Candidates : Advantage(n) # 0

\* Every refusal here is a ZeroAdvantageBatchError or a subclass: collect again.
CompileRound ==
    /\ phase = "verifying"
    /\ Todo = {}
    /\ UNCHANGED <<verifier, cache, tries, givenUp>>
    /\ \/ /\ Compiles /\ Audit = {}
          /\ phase' = "training"
          /\ UNCHANGED <<attempt, node, evaluation, givenUpBefore, unanswered>>
       \/ /\ ~(Compiles /\ Audit = {})
          /\ attempt < MaxAttempts
          /\ attempt' = attempt + 1
          /\ phase' = "collecting"
          /\ node' = <<>>
          /\ evaluation' = [n \in Node |-> "none"]
          /\ givenUpBefore' = givenUp
          /\ unanswered' = {}
       \/ /\ ~(Compiles /\ Audit = {})
          /\ attempt = MaxAttempts
          /\ phase' = "failed"
          /\ UNCHANGED <<attempt, node, evaluation, givenUpBefore, unanswered>>

Next == Collect \/ RuleOut \/ JudgeAnswers \/ JudgeFails \/ Propagate \/ CompileRound

Spec == Init /\ [][Next]_vars
-----------------------------------------------------------------------------
Signal == {"none", "zero", "one", "error"}

TypeOK ==
    /\ verifier \in {"judge", "proxy"}
    /\ attempt \in 1 .. MaxAttempts
    /\ phase \in {"collecting", "verifying", "training", "failed"}
    /\ node \in IF phase = "collecting" THEN {<<>>} ELSE Collected
    /\ evaluation \in [Node -> Signal]
    /\ cache \in [(1 .. MaxAttempts) \X Rollout -> Signal]
    /\ tries \in 0 .. MaxRetries
    /\ givenUp \in Nat /\ givenUpBefore \in 0 .. givenUp
    /\ unanswered \subseteq Node

\* What is trained on was judged in full: every node of the round has a signal,
\* every reward counts all direct children of its node, and every judge call of
\* the attempt was answered in the end.  A judge that fails never turns into a
\* reward of 0, neither of the node nor in the mean of its parent
\* (llm.py:424-435, compilation.py:31-41).
NothingMissing ==
    phase = "training" =>
        /\ \A n \in Node : Judged(n) /\ Counted(n) = Children(n)
        /\ unanswered = {}

\* What is trained on pushes some node up, and only for work that succeeded: its
\* own answer or one of its direct children's was the node's own, not one the
\* harness gave for it, and was judged successful behind its guard (or, by proxy,
\* its root's was).
CreditIsEarned ==
    LET earned(n) == /\ Value(n) = 1 /\ ~Fallback(n)
                     /\ node[IF verifier = "proxy" THEN RootOf(n[1]) ELSE n].passes
        up == {n \in Candidates : Advantage(n) > 0}
    IN  phase = "training" =>
            /\ up # {}
            /\ \A n \in up : earned(n) \/ \E m \in Children(n) : earned(m)

\* The audit judges the files again, with code of its own; it never disagrees
\* with the verifier that wrote them.  A batch that compiles is only refused for
\* having nothing to learn from (admission.py:19-178).
AuditAgreesWithVerifier ==
    (phase = "verifying" /\ Todo = {} /\ Compiles) =>
        Audit \subseteq {"no positive reward", "no positive advantage"}

\* There is something to learn from: every node has been judged, the bonus for
\* delegating is worth less than an answer, and the roots of one group, all of
\* them fit to be trained on, have met with success and with failure.
HasSignal ==
    /\ Missing = {}
    /\ DelegationLambda < Unit
    /\ \E g \in Group :
         /\ \A r \in RolloutsOf(g) : Trainable(RootOf(r))
         /\ {Value(RootOf(r)) : r \in RolloutsOf(g)} = {0, 1}

\* A round with something to learn from is trained on: neither the compiler nor
\* the audit sends it back to be collected again, whatever the rest of the round
\* is like and whatever became of the judge in the attempts before
\* (advantages.py:26-38, admission.py:134-165, flywheel.py:403-459).
SignalIsTrained ==
    [][(phase = "verifying" /\ phase' # "verifying" /\ HasSignal) => phase' = "training"]_vars
=============================================================================
