-------------------------- MODULE AsyncCoordinator --------------------------
(***************************************************************************)
(* AsyncTrainingCoordinator: rollout groups collected under some policy    *)
(* version go through a bounded queue to one consumer, which drops those   *)
(* that have become too old, and compiles and optimizes the others one by  *)
(* one.                                                                    *)
(*                                                                         *)
(* No other file of the repository drives the coordinator yet, so who      *)
(* collects, submits, closes and publishes policies is external: any task, *)
(* at any time.  The version is what an injected function answers; it is   *)
(* read once for each group, and may move while the group is compiled.     *)
(***************************************************************************)
EXTENDS Integers, Sequences, FiniteSets

CONSTANTS Group,        \* groups that are collected, each once
          QueueSize,    \* queue_size
          MaxStaleness, \* max_staleness_batches
          MaxVersion,   \* bound on the versions that are published
          Closed        \* the None that close() puts into the queue

ASSUME ConstantsAssumption ==
    /\ QueueSize \in Nat \ {0}
    /\ MaxStaleness \in Nat /\ MaxVersion \in Nat
    /\ Closed \notin Group

VARIABLES version,   \* current_policy_version()
          group,     \* where each group is
          behavior,  \* policy version it was collected under
          staleness, \* what run() wrote into its nodes
          queue,     \* rollout_queue
          closing,   \* how far close() is
          consumer,  \* where run() is
          current,   \* the group it holds, or Closed
          stats,     \* CoordinatorStats
          late       \* history: groups put into the queue behind Closed

vars == <<version, group, behavior, staleness, queue, closing, consumer, current,
          stats, late>>

\* accepted_groups, rejected_stale_groups, optimized_batches
Counter == {"accepted", "rejected", "optimized"}

Init ==
    /\ version = 0
    /\ group = [g \in Group |-> "unknown"]
    /\ behavior = [g \in Group |-> 0]
    /\ staleness = [g \in Group |-> 0]
    /\ queue = <<>>
    /\ closing = "open"
    /\ consumer = "waiting"
    /\ current = Closed
    /\ stats = [k \in Counter |-> 0]
    /\ late = {}

Full == Len(queue) >= QueueSize

-----------------------------------------------------------------------------
(* Policies and producers.                                                 *)

\* A policy is published, by the optimizer or by anybody else.
Publish ==
    /\ version < MaxVersion
    /\ version' = version + 1
    /\ UNCHANGED <<group, behavior, staleness, queue, closing, consumer, current, stats, late>>

\* A worker takes the published policy; it keeps it for the whole group.
Collect(g) ==
    /\ group[g] = "unknown"
    /\ group' = [group EXCEPT ![g] = "collected"]
    /\ behavior' = [behavior EXCEPT ![g] = version]
    /\ UNCHANGED <<version, staleness, queue, closing, consumer, current, stats, late>>

\* Mutant: a put that finds the queue full is not woken up.
SubmitIfRoom(g) ==
    /\ group[g] = "collected"
    /\ ~Full
    /\ group' = [group EXCEPT ![g] = "queued"]
    /\ queue' = Append(queue, g)
    /\ late' = IF closing = "closed" THEN late \cup {g} ELSE late
    /\ UNCHANGED <<version, behavior, staleness, closing, consumer, current, stats>>

\* submit: put waits while the queue is full.  A waiting put is woken up but has
\* to find room again, so that any other put may get in first.
Submit(g) ==
    /\ group[g] \in {"collected", "blocked"}
    /\ ~Full
    /\ group' = [group EXCEPT ![g] = "queued"]
    /\ queue' = Append(queue, g)
    /\ late' = IF closing = "closed" THEN late \cup {g} ELSE late
    /\ UNCHANGED <<version, behavior, staleness, closing, consumer, current, stats>>

Block(g) ==
    /\ group[g] = "collected"
    /\ Full
    /\ group' = [group EXCEPT ![g] = "blocked"]
    /\ UNCHANGED <<version, behavior, staleness, queue, closing, consumer, current, stats, late>>

\* Mutant: what is still in the queue need not be trained on.
CloseAtOnce ==
    /\ closing = "open"
    /\ queue' = <<Closed>> \o queue
    /\ closing' = "closed"
    /\ UNCHANGED <<version, group, behavior, staleness, consumer, current, stats, late>>

Close ==
    /\ closing \in {"open", "blocked"}
    /\ ~Full
    /\ queue' = Append(queue, Closed)
    /\ closing' = "closed"
    /\ UNCHANGED <<version, group, behavior, staleness, consumer, current, stats, late>>

BlockClose ==
    /\ closing = "open"
    /\ Full
    /\ closing' = "blocked"
    /\ UNCHANGED <<version, group, behavior, staleness, queue, consumer, current, stats, late>>

-----------------------------------------------------------------------------
(* run().                                                                  *)

\* group_staleness, when the group is taken from the queue
Staleness(g) == version - behavior[g]

Count(k) == stats' = [stats EXCEPT ![k] = @ + 1]

End ==
    /\ consumer = "waiting"
    /\ queue # <<>> /\ Head(queue) = Closed
    /\ queue' = Tail(queue)
    /\ consumer' = "returned"
    /\ UNCHANGED <<version, group, behavior, staleness, closing, current, stats, late>>

Reject ==
    /\ consumer = "waiting"
    /\ queue # <<>> /\ Head(queue) # Closed
    /\ Staleness(Head(queue)) > MaxStaleness
    /\ queue' = Tail(queue)
    /\ group' = [group EXCEPT ![Head(queue)] = "rejected"]
    /\ Count("rejected")
    /\ UNCHANGED <<version, behavior, staleness, closing, consumer, current, late>>

Accept ==
    /\ consumer = "waiting"
    /\ queue # <<>> /\ Head(queue) # Closed
    /\ Staleness(Head(queue)) <= MaxStaleness
    /\ queue' = Tail(queue)
    /\ current' = Head(queue)
    /\ group' = [group EXCEPT ![Head(queue)] = "accepted"]
    /\ staleness' = [staleness EXCEPT ![Head(queue)] = Staleness(Head(queue))]
    /\ consumer' = "compiling"
    /\ Count("accepted")
    /\ UNCHANGED <<version, behavior, closing, late>>

\* await compile_fn([bundle])
Compiled ==
    /\ consumer = "compiling"
    /\ consumer' = "optimizing"
    /\ UNCHANGED <<version, group, behavior, staleness, queue, closing, current, stats, late>>

\* await optimize_fn(batch)
Optimized ==
    /\ consumer = "optimizing"
    /\ group' = [group EXCEPT ![current] = "optimized"]
    /\ consumer' = "waiting"
    /\ current' = Closed
    /\ Count("optimized")
    /\ UNCHANGED <<version, behavior, staleness, queue, closing, late>>

\* Either of them raises: run() ends there and takes nothing more.
Raise ==
    /\ consumer \in {"compiling", "optimizing"}
    /\ consumer' = "raised"
    /\ UNCHANGED <<version, group, behavior, staleness, queue, closing, current, stats, late>>

Produce(g) == Collect(g) \/ Submit(g) \/ Block(g)

Consume == End \/ Reject \/ Accept \/ Compiled \/ Optimized

Next ==
    \/ Publish
    \/ \E g \in Group : Produce(g)
    \/ Close \/ BlockClose
    \/ Consume \/ Raise

Spec == Init /\ [][Next]_vars

\* Puts that find room complete and run() goes on; close() is never called for.
FairSpec ==
    /\ Spec
    /\ \A g \in Group : WF_vars(Submit(g))
    /\ WF_vars(closing = "blocked" /\ Close)
    /\ WF_vars(Consume)
-----------------------------------------------------------------------------
GroupState ==
    {"unknown", "collected", "blocked", "queued", "accepted", "optimized", "rejected"}

TypeOK ==
    /\ version \in 0 .. MaxVersion
    /\ group \in [Group -> GroupState]
    /\ behavior \in [Group -> Nat]
    /\ staleness \in [Group -> Nat]
    /\ queue \in Seq(Group \cup {Closed})
    /\ closing \in {"open", "blocked", "closed"}
    /\ consumer \in {"waiting", "compiling", "optimizing", "returned", "raised"}
    /\ current \in Group \cup {Closed}
    /\ stats \in [Counter -> Nat]
    /\ late \subseteq Group

Busy == consumer \in {"compiling", "optimizing"}

Ended == consumer \in {"returned", "raised"}

\* A graceful end loses nothing: when run() has returned, every group that was
\* in the queue before close() was has been optimized or rejected, and the
\* counters it returns say so, each accepted group being one batch optimized
\* (coordinator.py:49-65).
NothingLost ==
    consumer = "returned" =>
        /\ \A g \in Group : group[g] \in {"queued", "accepted"} => g \in late
        /\ stats["accepted"] = stats["optimized"]
        /\ stats["optimized"] = Cardinality({g \in Group : group[g] = "optimized"})
        /\ stats["rejected"] = Cardinality({g \in Group : group[g] = "rejected"})

\* Who waits for room in the queue gets in, and a queue that is closed is run
\* down, as long as run() has not ended (coordinator.py:44-48).
Drained ==
    /\ \A g \in Group : (group[g] = "blocked") ~> (group[g] # "blocked" \/ Ended)
    /\ (closing = "blocked") ~> (closing = "closed" \/ Ended)
    /\ (closing = "closed") ~> Ended
=============================================================================
