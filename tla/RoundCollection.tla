--------------------------- MODULE RoundCollection ---------------------------
(***************************************************************************)
(* How one round of the synchronous flywheel collects its rollout groups:  *)
(* an asyncio task per root task behind a semaphore, the rollouts of a     *)
(* group under one gather, and the generations of a rollout in worker      *)
(* threads that share one lock per model replica (a slot).                 *)
(*                                                                         *)
(* A generation cannot be cancelled once its thread has started.  When the *)
(* rollout that waits for it times out or is cancelled, the thread goes on *)
(* as a stray: it still takes the lock of its slot and generates.  Within  *)
(* one round the attempts share the runtime, hence the slots.              *)
(*                                                                         *)
(* What a rollout does between its generations is the subject of           *)
(* RecursiveAgent; here its nodes are up to Branches concurrent callers    *)
(* that make MaxTurns calls at most.                                       *)
(***************************************************************************)
EXTENDS Naturals, FiniteSets, FiniteSetsExt

CONSTANTS Tasks,               \* root tasks of the round: collect_task runs once for each
          GroupSize,           \* rollouts per task
          Slots,               \* model replicas, one per rollout device
          MaxConcurrentGroups, \* permits of group_semaphore before min() with Tasks
          MaxAttempts,         \* sync_flywheel.max_collection_attempts
          Branches,            \* bound: nodes of one rollout that generate at once
          MaxTurns             \* bound: generations of each rollout

ASSUME ConstantsAssumption ==
    /\ Tasks \in Nat \ {0} /\ MaxConcurrentGroups \in Nat \ {0}
    /\ MaxAttempts \in Nat \ {0}
    /\ Branches \in Nat \ {0}
    /\ GroupSize \in Nat /\ Slots \in Nat
    /\ 2 <= GroupSize /\ GroupSize <= Slots

VARIABLES attempt,  \* collection_attempt + 1
          phase,    \* where the round is
          group,    \* state of the task of each group
          tree,     \* state of each rollout
          call,     \* generation of each branch of a rollout, if any
          turns,    \* generations a running rollout has had answered
          strays,   \* slot -> threads nobody waits for: blocked on the lock, or generating
          excused   \* history: attempts given up for another although a group was incomplete

vars == <<attempt, phase, group, tree, call, turns, strays, excused>>

Group   == 0 .. Tasks - 1
Rollout == Group \X (0 .. GroupSize - 1)
Branch  == 1 .. Branches
Slot    == 0 .. Slots - 1

RolloutsOf(g) == {r \in Rollout : r[1] = g}

\* policy_factory(global_index, seed) with global_index = offset * group_size + index
SlotOf(r) == (r[1] * GroupSize + r[2]) % Slots

\* Every rollout asks its policy at least once.
ASSUME TurnsAssumption == \A r \in Rollout : MaxTurns[r] \in Nat \ {0}

Pending == {"blocked", "generating"}
Quiet   == [b \in Branch |-> "none"]

\* Mutant: the lock belongs to the calls that are waited for.
LockFreeOfCalls(s) ==
    \A r \in Rollout : SlotOf(r) = s => \A b \in Branch : call[r][b] # "generating"

\* threading.Lock of a slot: nobody is inside _generate
LockFree(s) ==
    /\ ~strays[s].generating
    /\ \A r \in Rollout : SlotOf(r) = s => \A b \in Branch : call[r][b] # "generating"

\* The event loop runs rollouts while the round awaits their groups.
LoopRuns == phase \in {"collecting", "cancelling"}

Settled(r) == tree[r] \in {"complete", "incomplete"}

CompleteGroup(g) == \A r \in RolloutsOf(g) : tree[r] = "complete"

Init ==
    /\ attempt = 1
    /\ phase = "collecting"
    /\ group = [g \in Group |-> "waiting"]
    /\ tree = [r \in Rollout |-> "idle"]
    /\ call = [r \in Rollout |-> Quiet]
    /\ turns = [r \in Rollout |-> 0]
    /\ strays = [s \in Slot |-> [blocked |-> 0, generating |-> FALSE]]
    /\ excused = {}

-----------------------------------------------------------------------------
(* The event loop: rollouts.                                               *)

\* The policy of a node asks for an action and a thread takes the call to the
\* lock of the slot; a repair is one more call.  The answers that made the tree
\* branch are left out: its first calls may come from several branches.
Submit(r, b) ==
    /\ LoopRuns
    /\ tree[r] = "running"
    /\ call[r][b] = "none" /\ \A c \in 1 .. b - 1 : call[r][c] # "none"
    /\ turns[r] + Cardinality({c \in Branch : call[r][c] \in Pending}) < MaxTurns[r]
    /\ call' = [call EXCEPT ![r][b] = "blocked"]
    /\ UNCHANGED <<attempt, phase, group, tree, turns, strays, excused>>

\* The root returns.  A child that failed leaves a tree that is not complete.
EndRollout(r) ==
    /\ LoopRuns
    /\ tree[r] = "running" /\ turns[r] > 0 /\ call[r] = Quiet
    /\ \E status \in {"complete", "incomplete"} : tree' = [tree EXCEPT ![r] = status]
    /\ turns' = [turns EXCEPT ![r] = 0]
    /\ UNCHANGED <<attempt, phase, group, call, strays, excused>>

\* What leaves Runner.arun as an exception, or policy_factory, or the export.
RaiseInRollout(r) ==
    /\ LoopRuns
    /\ tree[r] = "running" /\ call[r] = Quiet
    /\ tree' = [tree EXCEPT ![r] = "raised"]
    /\ turns' = [turns EXCEPT ![r] = 0]
    /\ UNCHANGED <<attempt, phase, group, call, strays, excused>>

\* Cancelling an await on to_thread does not reach the thread: it goes on.
StraysAfter(stopped) ==
    [s \in Slot |->
        LET left(state) == {rb \in stopped \X Branch :
                                SlotOf(rb[1]) = s /\ call[rb[1]][rb[2]] = state}
        IN  [blocked    |-> strays[s].blocked + Cardinality(left("blocked")),
             generating |-> strays[s].generating \/ left("generating") # {}]]

Withdraw(stopped) ==
    /\ strays' = StraysAfter(stopped)
    /\ call' = [r \in Rollout |-> IF r \in stopped THEN Quiet ELSE call[r]]
    /\ turns' = [r \in Rollout |-> IF r \in stopped THEN 0 ELSE turns[r]]

\* asyncio.wait_for gives up: the unfinished nodes are marked, the tree exported.
TimeOut(r) ==
    /\ LoopRuns
    /\ tree[r] = "running"
    /\ tree' = [tree EXCEPT ![r] = "incomplete"]
    /\ Withdraw({r})
    /\ UNCHANGED <<attempt, phase, group, excused>>

-----------------------------------------------------------------------------
(* Worker threads.                                                         *)

TakeLock(r, b) ==
    /\ call[r][b] = "blocked"
    /\ LockFree(SlotOf(r))
    /\ call' = [call EXCEPT ![r][b] = "generating"]
    /\ UNCHANGED <<attempt, phase, group, tree, turns, strays, excused>>

Generated(r, b) ==
    /\ call[r][b] = "generating"
    /\ call' = [call EXCEPT ![r][b] = "none"]
    /\ turns' = [turns EXCEPT ![r] = @ + 1]
    /\ UNCHANGED <<attempt, phase, group, tree, strays, excused>>

StrayTakesLock(s) ==
    /\ strays[s].blocked > 0
    /\ LockFree(s)
    /\ strays' = [strays EXCEPT ![s] = [blocked |-> @.blocked - 1, generating |-> TRUE]]
    /\ UNCHANGED <<attempt, phase, group, tree, call, turns, excused>>

StrayEnds(s) ==
    /\ strays[s].generating
    /\ strays' = [strays EXCEPT ![s].generating = FALSE]
    /\ UNCHANGED <<attempt, phase, group, tree, call, turns, excused>>

-----------------------------------------------------------------------------
(* The event loop: group tasks and the round.                              *)

Collecting == {g \in Group : group[g] = "collecting"}

\* async with group_semaphore: the waiters are served in the order of the tasks.
AcquireGroup(g) ==
    /\ phase = "collecting"
    /\ group[g] = "waiting"
    /\ \A h \in Group : h < g => group[h] # "waiting"
    /\ Cardinality(Collecting) < Min({MaxConcurrentGroups, Tasks})
    /\ group' = [group EXCEPT ![g] = "collecting"]
    /\ tree' = [r \in Rollout |-> IF r \in RolloutsOf(g) THEN "running" ELSE tree[r]]
    /\ UNCHANGED <<attempt, phase, call, turns, strays, excused>>

\* Mutant: the rollouts that were not complete are waited for.
WriteWholeGroup(g) ==
    /\ LoopRuns
    /\ group[g] = "collecting"
    /\ CompleteGroup(g)
    /\ group' = [group EXCEPT ![g] = "written"]
    /\ UNCHANGED <<attempt, phase, tree, call, turns, strays, excused>>

\* All rollouts have returned: the bundle is built and the raw file written.
WriteGroup(g) ==
    /\ LoopRuns
    /\ group[g] = "collecting"
    /\ \A r \in RolloutsOf(g) : Settled(r)
    /\ group' = [group EXCEPT ![g] = "written"]
    /\ UNCHANGED <<attempt, phase, tree, call, turns, strays, excused>>

\* gather passes on the first exception and leaves the other rollouts running.
RaiseInGroup(g) ==
    /\ LoopRuns
    /\ group[g] = "collecting"
    /\ \E r \in RolloutsOf(g) : tree[r] = "raised"
    /\ group' = [group EXCEPT ![g] = "raised"]
    /\ UNCHANGED <<attempt, phase, tree, call, turns, strays, excused>>

\* The disk refuses the raw file: the task of the group raises all the same.
FailToWrite(g) ==
    /\ LoopRuns
    /\ group[g] = "collecting"
    /\ \A r \in RolloutsOf(g) : Settled(r)
    /\ group' = [group EXCEPT ![g] = "raised"]
    /\ UNCHANGED <<attempt, phase, tree, call, turns, strays, excused>>

Unfinished == {g \in Group : group[g] \in {"waiting", "collecting"}}

\* Mutant: gather is awaited again without cancelling anything.
AwaitGroups ==
    /\ phase = "collecting"
    /\ \E g \in Group : group[g] = "raised"
    /\ phase' = "cancelling"
    /\ UNCHANGED <<attempt, group, tree, call, turns, strays, excused>>

\* except BaseException: every task is cancelled, and through its gather every
\* rollout it still waits for.  Those of the group that raised are not reached.
CancelGroups ==
    LET stopped == {r \in Rollout : r[1] \in Unfinished /\ tree[r] = "running"}
    IN  /\ phase = "collecting"
        /\ \E g \in Group : group[g] = "raised"
        /\ phase' = "cancelling"
        /\ group' = [g \in Group |-> IF g \in Unfinished THEN "cancelled" ELSE group[g]]
        /\ tree' = [r \in Rollout |-> IF r \in stopped THEN "cancelled" ELSE tree[r]]
        /\ Withdraw(stopped)
        /\ UNCHANGED <<attempt, excused>>

\* await gather(..., return_exceptions=True) and raise: FAILED is written.
FailRound ==
    /\ phase = "cancelling"
    /\ Unfinished = {}
    /\ phase' = "failed"
    /\ UNCHANGED <<attempt, group, tree, call, turns, strays, excused>>

\* asyncio.run cancels what still runs when the exception leaves it.
CloseLoop ==
    LET stopped == {r \in Rollout : tree[r] = "running"}
    IN  /\ phase = "failed"
        /\ stopped # {}
        /\ tree' = [r \in Rollout |-> IF r \in stopped THEN "cancelled" ELSE tree[r]]
        /\ Withdraw(stopped)
        /\ UNCHANGED <<attempt, phase, group, excused>>

\* gather has all results: the manifest says FROZEN.
Freeze ==
    /\ phase = "collecting"
    /\ \A g \in Group : group[g] = "written"
    /\ phase' = "frozen"
    /\ UNCHANGED <<attempt, group, tree, call, turns, strays, excused>>

\* Mutant: no group is validated before its rewards are looked for.
VerdictRewardsOnly(missing, signal) ==
    IF missing # {} \/ signal # "accepted" THEN "retry" ELSE "train"

\* compile_optimizer_batch goes through the groups in order and stops at the
\* first that is not complete or has no reward; what it raises decides whether
\* the round is attempted again.  signal: what the epsilon test and the
\* admission audit make of a batch that compiles.
Verdict(missing, signal) ==
    LET bad == {g \in Group : ~CompleteGroup(g) \/ g \in missing}
    IN  IF bad # {}
        THEN IF CompleteGroup(Min(bad)) THEN "retry" ELSE "invalid"
        ELSE IF signal = "accepted" THEN "train" ELSE "retry"

CompileRound ==
    /\ phase = "frozen"
    /\ \E missing \in SUBSET Group, signal \in {"zero", "untrusted", "accepted"} :
        LET verdict == Verdict(missing, signal)
            again   == verdict = "retry" /\ attempt < MaxAttempts
        IN  /\ phase' = CASE verdict = "train" -> "training"
                          [] again             -> "collecting"
                          [] OTHER             -> "failed"
            /\ attempt' = IF again THEN attempt + 1 ELSE attempt
            /\ group' = IF again THEN [g \in Group |-> "waiting"] ELSE group
            /\ tree' = IF again THEN [r \in Rollout |-> "idle"] ELSE tree
            /\ excused' = IF again /\ \E g \in Group : ~CompleteGroup(g)
                          THEN excused \cup {attempt} ELSE excused
    /\ UNCHANGED <<call, turns, strays>>

\* runtime.optimizer.step(batch) holds the event loop until it returns.
Train ==
    /\ phase = "training"
    /\ phase' = "trained"
    /\ UNCHANGED <<attempt, group, tree, call, turns, strays, excused>>

Threads ==
    \/ \E r \in Rollout, b \in Branch :
        TakeLock(r, b) \/ Generated(r, b)
    \/ \E s \in Slot : StrayTakesLock(s) \/ StrayEnds(s)

Loop ==
    \/ \E r \in Rollout, b \in Branch : Submit(r, b)
    \/ \E r \in Rollout : EndRollout(r)
    \/ \E g \in Group : AcquireGroup(g) \/ WriteGroup(g) \/ RaiseInGroup(g)
    \/ CancelGroups \/ FailRound \/ CloseLoop \/ Freeze \/ CompileRound \/ Train

Next ==
    \/ Threads
    \/ Loop
    \/ \E r \in Rollout : TimeOut(r) \/ RaiseInRollout(r)
    \/ \E g \in Group : FailToWrite(g)

Spec == Init /\ [][Next]_vars

\* Threads that run make progress and so does the loop; no timeout is needed.
FairSpec == Spec /\ WF_vars(Threads) /\ WF_vars(Loop)
-----------------------------------------------------------------------------
GroupState == {"waiting", "collecting", "written", "raised", "cancelled"}
TreeState  == {"idle", "running", "complete", "incomplete", "raised", "cancelled"}
Phase      == {"collecting", "cancelling", "frozen", "training", "trained", "failed"}

TypeOK ==
    /\ attempt \in 1 .. MaxAttempts
    /\ phase \in Phase
    /\ group \in [Group -> GroupState]
    /\ tree \in [Rollout -> TreeState]
    /\ call \in [Rollout -> [Branch -> {"none"} \cup Pending]]
    /\ turns \in [Rollout -> Nat]
    /\ strays \in [Slot -> [blocked : Nat, generating : BOOLEAN]]
    /\ excused \subseteq 1 .. MaxAttempts

StraysIn(s) == strays[s].blocked > 0 \/ strays[s].generating

\* One replica serves one generation at a time, whether a node still waits for
\* it or not (generation_lock, hf_policy.py:203): a timeout or a cancellation
\* does not hand the lock of a running generation to the next one.
SlotExclusive ==
    \A p, q \in Rollout \X Branch :
        /\ call[p[1]][p[2]] = "generating"
        /\ call[q[1]][q[2]] = "generating"
        /\ SlotOf(p[1]) = SlotOf(q[1])
        => p = q /\ ~strays[SlotOf(p[1])].generating

\* The optimizer steps on groups whose every rollout is complete and whose
\* nodes have all had their answers; only a given-up attempt with an incomplete
\* group can have left a thread that generates meanwhile, possibly on the
\* replica that is being trained (flywheel.py:460, hf_flywheel.py:104).
TrainsOnWholeGroups ==
    phase \in {"training", "trained"} =>
        /\ \A g \in Group : group[g] = "written" /\ CompleteGroup(g)
        /\ \A r \in Rollout : call[r] = Quiet
        /\ (\E s \in Slot : StraysIn(s)) => excused # {}

\* Once the round has given up, and has cancelled its tasks because a group
\* raised, no group writes its raw file any more: the round directory is left as
\* it is for the archive (flywheel.py:377-381). Between the exception and its
\* handler, which the loop may run later, another group still may.
NoWriteAfterCancel ==
    [][\A g \in Group : group'[g] = "written" /\ group[g] # "written"
                            => phase = "collecting"]_vars

\* Every collection comes to an end, in a training step or in a failure,
\* whatever raises and whoever holds the locks, without the help of a timeout.
RoundEnds == <>(phase \in {"trained", "failed"})
=============================================================================
