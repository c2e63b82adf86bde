-------------------------- MODULE PeriodicTraining --------------------------
(***************************************************************************)
(* The periodic driver, examples/run_periodic_deepdive_training.py, around *)
(* the synchronous flywheel: it trains up to each milestone in a process   *)
(* of its own, evaluates the policy published there in another, and can be *)
(* started again at any time.  It reads run_manifest.json to decide what   *)
(* is still to be trained, the round manifest to find the policy, and the  *)
(* three files of an evaluation to decide whether it is complete.          *)
(***************************************************************************)
EXTENDS Naturals, Sequences

CONSTANTS
  MaxRounds,      \* --rounds
  Interval,       \* --interval, or evaluation.every_steps
  MaxAttempts, Batches, Damageable, MaxFaults   \* as in SyncFlywheel

ASSUME DriverAssumption ==
  /\ MaxRounds \in Nat \ {0}
  /\ Interval \in Nat \ {0}
  /\ MaxAttempts \in Nat \ {0}
  /\ Batches \subseteq Nat \ {0}
  /\ Damageable \subseteq {"adapter", "optimizer", "batch"}
  /\ MaxFaults \in Nat

VARIABLES
  \* the flywheel, its disk and its process
  latestFile, runFile, manifest, files, pc, target, latest, run, round, attempt, memo,
  weights, moments, version, retryable, nextBatch, faults,
  \* the driver
  stage,          \* what it is doing; "down" when it is not running
  milestone,      \* the index in the schedule of the milestone it is at
  known,          \* current_completed_rounds
  evaluations     \* evaluations/step_NNNN, by milestone

driver == << stage, milestone, known >>
training == << latestFile, runFile, manifest, files, pc, target, latest, run, round,
               attempt, memo, weights, moments, version, retryable, nextBatch, faults >>
vars == << training, driver, evaluations >>

\* milestones(): every interval, and the last round.
Schedule ==
  LET n == MaxRounds \div Interval
      multiples == [i \in 1 .. n |-> i * Interval]
  IN  IF n * Interval = MaxRounds THEN multiples ELSE Append(multiples, MaxRounds)

Milestones == DOMAIN Schedule

Flywheel == INSTANCE SyncFlywheel WITH Targets <- {Schedule[i] : i \in Milestones}

-----------------------------------------------------------------------------
\* evaluation_manifest.json, per_task_results.jsonl and summary.json, in this order.
EvaluationFiles == 3

NoEvaluation == [written |-> 0, policy |-> << >>]

\* evaluation_complete.
Complete(i) == evaluations[i].written = EvaluationFiles

Init ==
  /\ Flywheel!Init
  /\ stage = "down"
  /\ milestone = 1
  /\ known = 0
  /\ evaluations = [i \in Milestones |-> NoEvaluation]

DriverEnds == stage' = "down" /\ milestone' = 1 /\ known' = 0

\* Mutant: a restarted driver counts from the first round again.
StartDriverFresh ==
  /\ stage \in {"down", "finished"}
  /\ stage' = "milestone"
  /\ milestone' = 1
  /\ known' = 0
  /\ UNCHANGED << training, evaluations >>

\* Mutant: the round that was interrupted is counted too.
StartDriverAhead ==
  /\ stage \in {"down", "finished"}
  /\ stage' = "milestone"
  /\ milestone' = 1
  /\ known' = IF runFile.completed < MaxRounds THEN runFile.completed + 1 ELSE MaxRounds
  /\ UNCHANGED << training, evaluations >>

\* The driver is started, for the first time or after it has ended.
StartDriver ==
  /\ stage \in {"down", "finished"}
  /\ stage' = "milestone"
  /\ milestone' = 1
  /\ known' = runFile.completed
  /\ UNCHANGED << training, evaluations >>

-----------------------------------------------------------------------------
(* Training up to the milestone *)

SkipTraining ==
  /\ stage = "milestone"
  /\ Schedule[milestone] <= known
  /\ stage' = "publication"
  /\ UNCHANGED << training, milestone, known, evaluations >>

\* Mutant: a milestone is trained for whether or not it has been reached.
TrainAnyway ==
  /\ stage = "milestone"
  /\ Flywheel!Begin(Schedule[milestone])
  /\ stage' = "training"
  /\ UNCHANGED << milestone, known, evaluations >>

\* The training process starts, with --resume when there is something to resume.
Train ==
  /\ stage = "milestone"
  /\ Schedule[milestone] > known
  /\ Flywheel!Begin(Schedule[milestone])
  /\ stage' = "training"
  /\ UNCHANGED << milestone, known, evaluations >>

\* It finds the newest publication damaged, and the driver ends with it.
TrainingRefused ==
  /\ stage = "milestone"
  /\ Schedule[milestone] > known
  /\ ~Flywheel!Valid(latestFile)
  /\ DriverEnds
  /\ UNCHANGED << training, evaluations >>

TrainingStep ==
  /\ stage = "training" /\ pc # "down"
  /\ Flywheel!Step \/ Flywheel!RejectBatch \/ Flywheel!RaiseInRound

TrainingGoesOn ==
  /\ TrainingStep
  /\ pc' # "down"
  /\ UNCHANGED << driver, evaluations >>

\* The training process returns from run().
Returned == Flywheel!TargetReached \/ Flywheel!RecordProgress

TrainingEnds ==
  /\ TrainingStep
  /\ pc' = "down"
  /\ IF Returned
       THEN stage' = "trained" /\ UNCHANGED << milestone, known >>
       ELSE DriverEnds
  /\ UNCHANGED evaluations

\* completed_rounds is read again, and has to have reached the milestone.
CheckProgress ==
  /\ stage = "trained"
  /\ IF runFile.completed < Schedule[milestone]
       THEN DriverEnds
       ELSE stage' = "publication" /\ known' = runFile.completed /\ UNCHANGED milestone
  /\ UNCHANGED << training, evaluations >>

-----------------------------------------------------------------------------
(* Evaluating it *)

\* publication_for_target: the round before the milestone published its policy.
\* The code raises otherwise, which TrainedMeansPublished excludes.
PublicationFound ==
  LET m == manifest[Schedule[milestone] - 1]
  IN  m.status = "published" /\ m.after = Schedule[milestone]

\* The next one, or the end of the schedule.
NextMilestone ==
  IF milestone < Len(Schedule)
    THEN stage' = "milestone" /\ milestone' = milestone + 1 /\ UNCHANGED known
    ELSE stage' = "finished" /\ milestone' = 1 /\ known' = 0

SkipEvaluation ==
  /\ stage = "publication" /\ PublicationFound
  /\ Complete(milestone)
  /\ NextMilestone
  /\ UNCHANGED << training, evaluations >>

\* Mutant: the evaluations are made again.
EvaluateAgain ==
  /\ stage = "publication" /\ PublicationFound
  /\ stage' = "evaluating"
  /\ evaluations' = [evaluations EXCEPT ![milestone] =
       [written |-> 0, policy |-> files[Schedule[milestone] - 1].adapter]]
  /\ UNCHANGED << training, milestone, known >>

\* Mutant: the round of the milestone's index, not of its target.
EvaluateWrongRound ==
  /\ stage = "publication" /\ PublicationFound
  /\ ~Complete(milestone)
  /\ stage' = "evaluating"
  /\ evaluations' = [evaluations EXCEPT ![milestone] =
       [written |-> 0, policy |-> files[milestone - 1].adapter]]
  /\ UNCHANGED << training, milestone, known >>

\* An incomplete evaluation is moved away, and the process that makes a new one
\* loads the adapter.
StartEvaluation ==
  /\ stage = "publication" /\ PublicationFound
  /\ ~Complete(milestone)
  /\ stage' = "evaluating"
  /\ evaluations' = [evaluations EXCEPT ![milestone] =
       [written |-> 0, policy |-> files[Schedule[milestone] - 1].adapter]]
  /\ UNCHANGED << training, milestone, known >>

WriteEvaluation ==
  /\ stage = "evaluating"
  /\ evaluations' = [evaluations EXCEPT ![milestone].written = @ + 1]
  /\ IF evaluations'[milestone].written = EvaluationFiles THEN NextMilestone ELSE UNCHANGED driver
  /\ UNCHANGED training

-----------------------------------------------------------------------------
\* The driver and the process it waits for are killed, or fail.
Crash ==
  /\ stage \notin {"down", "finished"}
  /\ DriverEnds
  /\ IF pc # "down"
       THEN Flywheel!Crash
       ELSE /\ Flywheel!Mishap
            /\ UNCHANGED << latestFile, runFile, manifest, files, pc, target, latest, run,
                            round, attempt, memo, weights, moments, version, retryable >>
  /\ UNCHANGED evaluations

Damage ==
  /\ \E r \in Flywheel!Rounds, kind \in Damageable : Flywheel!Damage(r, kind)
  /\ UNCHANGED << driver, evaluations >>

Progress ==
  \/ StartDriver \/ SkipTraining \/ Train \/ TrainingRefused \/ TrainingGoesOn
  \/ TrainingEnds \/ CheckProgress
  \/ SkipEvaluation \/ StartEvaluation \/ WriteEvaluation

Next == Progress \/ Crash \/ Damage

Spec == Init /\ [][Next]_vars

\* Somebody starts the driver again whenever it has ended.
FairSpec == Spec /\ WF_vars(Progress)

-----------------------------------------------------------------------------
(* Properties *)

\* The driver's variables hold what its code lets them hold.
TypeOK ==
  /\ stage \in {"down", "milestone", "training", "trained", "publication", "evaluating",
                "finished"}
  /\ milestone \in Milestones
  /\ known \in 0 .. MaxRounds
  /\ evaluations \in
       [Milestones -> [written : 0 .. EvaluationFiles, policy : Flywheel!Weights]]

\* The driver decides on completed_rounds, which lags behind the publications
\* after a crash; even so it never asks for a target behind them, which the
\* flywheel answers with an error that every later start would meet again
\* (run_periodic_deepdive_training.py:145-148, flywheel.py:218-221).
NeverBehind == pc = "opened" => round <= target

\* Whenever the driver takes a milestone for trained, its round is published
\* (run_periodic_deepdive_training.py:44-63, 176-187).
TrainedMeansPublished == stage = "publication" => PublicationFound

\* A complete evaluation is one of the policy after exactly the milestone's
\* number of optimizer steps, whatever was interrupted before
\* (run_periodic_deepdive_training.py:183-187, 207-214).
EvaluatedPolicy ==
  \A i \in Milestones : Complete(i) =>
    /\ Len(evaluations[i].policy) = Schedule[i]
    /\ evaluations[i].policy = manifest[Schedule[i] - 1].adapter

\* A complete evaluation is never archived, overwritten or repeated
\* (run_periodic_deepdive_training.py:66-87, 190-199).
EvaluationsKept ==
  [][\A i \in Milestones : Complete(i) => evaluations'[i] = evaluations[i]]_vars

Undamaged == \A r \in Flywheel!Rounds : files[r].optimizer # Flywheel!Damaged

\* As long as no published file is damaged, the driver, restarted after every
\* end, completes every milestone (run_periodic_deepdive_training.py:140-218).
AllEvaluated == []Undamaged => <>[](\A i \in Milestones : Complete(i))

=============================================================================
