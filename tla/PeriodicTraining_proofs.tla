----------------------- MODULE PeriodicTraining_proofs -----------------------
(***************************************************************************)
(* Proofs about the periodic driver composed with the flywheel it runs,    *)
(* for every number of rounds, interval, attempts, batches, kinds of       *)
(* damage and faults.  The flywheel's part is not proved again: its lemmas *)
(* are those of SyncFlywheel_proofs, instantiated for the targets of the   *)
(* driver's schedule.                                                      *)
(***************************************************************************)
EXTENDS PeriodicTraining, TLAPS

Proved == INSTANCE SyncFlywheel_proofs WITH Targets <- {Schedule[i] : i \in Milestones}

-----------------------------------------------------------------------------
(* The schedule *)

\* The milestones are rounds, in increasing order, and there is one.
LEMMA ScheduleFacts ==
  /\ Len(Schedule) \in Nat \ {0}
  /\ Milestones = 1 .. Len(Schedule)
  /\ \A i \in Milestones : Schedule[i] \in 1 .. MaxRounds
  /\ \A i, j \in Milestones : i < j => Schedule[i] < Schedule[j]
<1> DEFINE n == MaxRounds \div Interval
           multiples == [i \in 1 .. n |-> i * Interval]
<1>1. MaxRounds \in Nat \ {0} /\ Interval \in Nat \ {0}
  BY DriverAssumption
<1>2. n \in Nat /\ n * Interval <= MaxRounds
  BY <1>1
<1> HIDE DEF n
<1>3. ASSUME NEW i \in 1 .. n PROVE i * Interval \in 1 .. MaxRounds
  BY <1>1, <1>2, <1>3
<1>4. ASSUME NEW i \in 1 .. n, NEW j \in 1 .. n, i < j PROVE i * Interval < j * Interval
  BY <1>1, <1>2, <1>4
<1>5. multiples \in Seq(Nat) /\ Len(multiples) = n /\ DOMAIN multiples = 1 .. n
  BY <1>1, <1>2
<1>6. CASE n * Interval = MaxRounds
  <2>1. Schedule = multiples
    BY <1>6 DEF Schedule, n
  <2>2. n # 0
    BY <1>1, <1>6
  <2> QED
    BY <1>2, <1>3, <1>4, <1>5, <2>1, <2>2 DEF Milestones
<1>7. CASE n * Interval # MaxRounds
  <2>1. Schedule = Append(multiples, MaxRounds)
    BY <1>7 DEF Schedule, n
  <2> QED
    BY <1>1, <1>2, <1>3, <1>4, <1>5, <1>7, <2>1 DEF Milestones
<1> QED
  BY <1>6, <1>7

\* The constants suit the flywheel.
LEMMA FlywheelSuited == Proved!FlywheelAssumption
BY DriverAssumption, ScheduleFacts DEF Proved!FlywheelAssumption

-----------------------------------------------------------------------------
(* The flywheel the driver runs is the one the proofs are about *)

\* The two instances of SyncFlywheel have the same actions.
LEMMA SameActions ==
  /\ \A t : Flywheel!Begin(t) <=> Proved!Begin(t)
  /\ Flywheel!RecoverPublication <=> Proved!RecoverPublication
  /\ Flywheel!RefuseRecovery <=> Proved!RefuseRecovery
  /\ Flywheel!OpenRun <=> Proved!OpenRun
  /\ Flywheel!TargetBehind <=> Proved!TargetBehind
  /\ Flywheel!TargetReached <=> Proved!TargetReached
  /\ Flywheel!SnapshotRound <=> Proved!SnapshotRound
  /\ Flywheel!LoadRuntime <=> Proved!LoadRuntime
  /\ Flywheel!RefuseSnapshot <=> Proved!RefuseSnapshot
  /\ Flywheel!ArchiveIncomplete <=> Proved!ArchiveIncomplete
  /\ Flywheel!MakeRoundDirs <=> Proved!MakeRoundDirs
  /\ Flywheel!WriteCollecting <=> Proved!WriteCollecting
  /\ Flywheel!Freeze <=> Proved!Freeze
  /\ Flywheel!CompileBatch <=> Proved!CompileBatch
  /\ Flywheel!RecordBatch <=> Proved!RecordBatch
  /\ Flywheel!Admit <=> Proved!Admit
  /\ Flywheel!OptimizerStep <=> Proved!OptimizerStep
  /\ Flywheel!SaveAdapter <=> Proved!SaveAdapter
  /\ Flywheel!SaveOptimizer <=> Proved!SaveOptimizer
  /\ Flywheel!PublishManifest <=> Proved!PublishManifest
  /\ Flywheel!IndexPublication <=> Proved!IndexPublication
  /\ Flywheel!WriteFailedManifest <=> Proved!WriteFailedManifest
  /\ Flywheel!WriteFailedRun <=> Proved!WriteFailedRun
  /\ Flywheel!RecordProgress <=> Proved!RecordProgress
  /\ Flywheel!RefuseReload <=> Proved!RefuseReload
  /\ Flywheel!RejectBatch <=> Proved!RejectBatch
  /\ Flywheel!RaiseInRound <=> Proved!RaiseInRound
  /\ Flywheel!Crash <=> Proved!Crash
  /\ \A r, kind : Flywheel!Damage(r, kind) <=> Proved!Damage(r, kind)
  /\ Flywheel!Rounds = Proved!Rounds
  /\ Flywheel!Init <=> Proved!Init
<1> USE DEF Flywheel!disk, Proved!disk, Flywheel!session, Proved!session, Flywheel!runtime,
        Proved!runtime, Flywheel!world, Proved!world, Flywheel!Damaged, Proved!Damaged,
        Flywheel!Weights, Proved!Weights, Flywheel!NoPublication, Proved!NoPublication,
        Flywheel!NoRunManifest, Proved!NoRunManifest, Flywheel!EmptyManifest,
        Proved!EmptyManifest, Flywheel!NoArtifacts, Proved!NoArtifacts,
        Flywheel!PublicationOf, Proved!PublicationOf, Flywheel!Valid, Proved!Valid,
        Flywheel!Rounds, Proved!Rounds, Flywheel!Halt, Proved!Halt, Flywheel!Mishap,
        Proved!Mishap, Flywheel!WriteManifest, Proved!WriteManifest, Flywheel!Unindexed,
        Proved!Unindexed, Flywheel!Recoverable, Proved!Recoverable, Flywheel!SnapshotOK,
        Proved!SnapshotOK, Flywheel!InTry, Proved!InTry
<1>1. \A t : Flywheel!Begin(t) <=> Proved!Begin(t)
  BY DEF Flywheel!Begin, Proved!Begin
<1>2. Flywheel!RecoverPublication <=> Proved!RecoverPublication
  BY DEF Flywheel!RecoverPublication, Proved!RecoverPublication
<1>3. Flywheel!RefuseRecovery <=> Proved!RefuseRecovery
  BY DEF Flywheel!RefuseRecovery, Proved!RefuseRecovery
<1>4. Flywheel!OpenRun <=> Proved!OpenRun
  BY DEF Flywheel!OpenRun, Proved!OpenRun
<1>5. Flywheel!TargetBehind <=> Proved!TargetBehind
  BY DEF Flywheel!TargetBehind, Proved!TargetBehind
<1>6. Flywheel!TargetReached <=> Proved!TargetReached
  BY DEF Flywheel!TargetReached, Proved!TargetReached
<1>7. Flywheel!SnapshotRound <=> Proved!SnapshotRound
  BY DEF Flywheel!SnapshotRound, Proved!SnapshotRound
<1>8. Flywheel!LoadRuntime <=> Proved!LoadRuntime
  BY DEF Flywheel!LoadRuntime, Proved!LoadRuntime
<1>9. Flywheel!RefuseSnapshot <=> Proved!RefuseSnapshot
  BY DEF Flywheel!RefuseSnapshot, Proved!RefuseSnapshot
<1>10. Flywheel!ArchiveIncomplete <=> Proved!ArchiveIncomplete
  BY DEF Flywheel!ArchiveIncomplete, Proved!ArchiveIncomplete
<1>11. Flywheel!MakeRoundDirs <=> Proved!MakeRoundDirs
  BY DEF Flywheel!MakeRoundDirs, Proved!MakeRoundDirs
<1>12. Flywheel!WriteCollecting <=> Proved!WriteCollecting
  BY DEF Flywheel!WriteCollecting, Proved!WriteCollecting
<1>13. Flywheel!Freeze <=> Proved!Freeze
  BY DEF Flywheel!Freeze, Proved!Freeze
<1>14. Flywheel!CompileBatch <=> Proved!CompileBatch
  BY DEF Flywheel!CompileBatch, Proved!CompileBatch
<1>15. Flywheel!RecordBatch <=> Proved!RecordBatch
  BY DEF Flywheel!RecordBatch, Proved!RecordBatch
<1>16. Flywheel!Admit <=> Proved!Admit
  BY DEF Flywheel!Admit, Proved!Admit
<1>17. Flywheel!OptimizerStep <=> Proved!OptimizerStep
  BY DEF Flywheel!OptimizerStep, Proved!OptimizerStep
<1>18. Flywheel!SaveAdapter <=> Proved!SaveAdapter
  BY DEF Flywheel!SaveAdapter, Proved!SaveAdapter
<1>19. Flywheel!SaveOptimizer <=> Proved!SaveOptimizer
  BY DEF Flywheel!SaveOptimizer, Proved!SaveOptimizer
<1>20. Flywheel!PublishManifest <=> Proved!PublishManifest
  BY DEF Flywheel!PublishManifest, Proved!PublishManifest
<1>21. Flywheel!IndexPublication <=> Proved!IndexPublication
  BY DEF Flywheel!IndexPublication, Proved!IndexPublication
<1>22. Flywheel!WriteFailedManifest <=> Proved!WriteFailedManifest
  BY DEF Flywheel!WriteFailedManifest, Proved!WriteFailedManifest
<1>23. Flywheel!WriteFailedRun <=> Proved!WriteFailedRun
  BY DEF Flywheel!WriteFailedRun, Proved!WriteFailedRun
<1>24. Flywheel!RecordProgress <=> Proved!RecordProgress
  BY DEF Flywheel!RecordProgress, Proved!RecordProgress
<1>25. Flywheel!RefuseReload <=> Proved!RefuseReload
  BY DEF Flywheel!RefuseReload, Proved!RefuseReload
<1>26. Flywheel!RejectBatch <=> Proved!RejectBatch
  BY DEF Flywheel!RejectBatch, Proved!RejectBatch
<1>27. Flywheel!RaiseInRound <=> Proved!RaiseInRound
  BY DEF Flywheel!RaiseInRound, Proved!RaiseInRound
<1>28. Flywheel!Crash <=> Proved!Crash
  BY DEF Flywheel!Crash, Proved!Crash
<1>29. \A r, kind : Flywheel!Damage(r, kind) <=> Proved!Damage(r, kind)
  BY DEF Flywheel!Damage, Proved!Damage
<1>30. Flywheel!Rounds = Proved!Rounds
  OBVIOUS
<1>31. Flywheel!Init <=> Proved!Init
  BY DEF Flywheel!Init, Proved!Init
<1> QED
  BY <1>1, <1>2, <1>3, <1>4, <1>5, <1>6, <1>7, <1>8, <1>9, <1>10, <1>11, <1>12, <1>13, <1>14, <1>15, <1>16, <1>17, <1>18, <1>19, <1>20, <1>21, <1>22, <1>23, <1>24, <1>25, <1>26, <1>27, <1>28, <1>29, <1>30, <1>31

-----------------------------------------------------------------------------
(* The inductive invariant *)

\* The flywheel keeps its own.
FlywheelOK == Proved!IInv /\ Proved!StepsCounted

\* What the driver knows of the flywheel at each of its statements: all targets
\* before the milestone are counted, and it trains for one that is not.
Turns ==
  /\ stage = "training" <=> pc # "down"
  /\ stage \in {"milestone", "publication", "evaluating"} => known = runFile.completed
  /\ stage \in {"milestone", "training", "trained"} =>
       \A i \in Milestones : i < milestone => Schedule[i] <= runFile.completed
  /\ stage \in {"publication", "evaluating"} =>
       \A i \in Milestones : i <= milestone => Schedule[i] <= runFile.completed
  /\ stage = "training" => target = Schedule[milestone] /\ runFile.completed < target
  /\ stage = "evaluating" => ~Complete(milestone)

\* However far the count lags behind, no round is published beyond a milestone
\* that is not counted yet.
Reach ==
  \A i \in Milestones, r \in Proved!Rounds :
    runFile.completed < Schedule[i] /\ manifest[r].status = "published" => r < Schedule[i]

IInv == FlywheelOK /\ TypeOK /\ Turns /\ Reach

\* What has been evaluated, or is being, is the policy of the milestone.
Evaluated ==
  \A i \in Milestones :
    Complete(i) \/ (stage = "evaluating" /\ i = milestone) =>
      /\ Schedule[i] <= latestFile.version
      /\ evaluations[i].policy = manifest[Schedule[i] - 1].adapter

-----------------------------------------------------------------------------
\* A step of the driver is one of the flywheel, none of it, or a fault elsewhere.
LEMMA DriverSteps ==
  ASSUME milestone \in Milestones, [Next]_vars
  PROVE  \/ [Proved!Next]_(Proved!vars)
         \/ /\ Proved!Mishap
            /\ UNCHANGED << latestFile, runFile, manifest, files, pc, target, latest, run,
                            round, attempt, memo, weights, moments, version, retryable >>
<1> USE DEF Proved!vars, Proved!disk, Proved!session, Proved!runtime, Proved!world
<1>1. CASE UNCHANGED training
  BY <1>1 DEF training
<1>2. CASE \/ StartDriver \/ SkipTraining \/ TrainingRefused \/ CheckProgress
           \/ SkipEvaluation \/ StartEvaluation \/ WriteEvaluation \/ UNCHANGED vars
  BY <1>1, <1>2 DEF StartDriver, SkipTraining, TrainingRefused, CheckProgress,
     SkipEvaluation, StartEvaluation, WriteEvaluation, vars
<1>3. CASE Train
  BY <1>3, SameActions DEF Train, Proved!Next, Proved!Step
<1>4. CASE TrainingStep
  <2>1. \/ \E t \in {Schedule[i] : i \in Milestones} : Flywheel!Begin(t)
        \/ Flywheel!RecoverPublication \/ Flywheel!RefuseRecovery \/ Flywheel!OpenRun
        \/ Flywheel!TargetBehind \/ Flywheel!TargetReached
        \/ Flywheel!SnapshotRound \/ Flywheel!LoadRuntime \/ Flywheel!RefuseSnapshot
        \/ Flywheel!ArchiveIncomplete \/ Flywheel!MakeRoundDirs \/ Flywheel!WriteCollecting
        \/ Flywheel!Freeze \/ Flywheel!CompileBatch \/ Flywheel!RecordBatch \/ Flywheel!Admit
        \/ Flywheel!OptimizerStep \/ Flywheel!SaveAdapter \/ Flywheel!SaveOptimizer
        \/ Flywheel!PublishManifest \/ Flywheel!IndexPublication
        \/ Flywheel!WriteFailedManifest \/ Flywheel!WriteFailedRun
        \/ Flywheel!RecordProgress \/ Flywheel!RefuseReload
        \/ Flywheel!RejectBatch \/ Flywheel!RaiseInRound
    BY <1>4 DEF TrainingStep, Flywheel!Step
  <2> QED
    BY <2>1, SameActions DEF Proved!Next, Proved!Step, Proved!Fault
<1>5. CASE Crash
  <2>1. CASE Flywheel!Crash
    BY <2>1, SameActions DEF Proved!Next, Proved!Fault
  <2>2. CASE pc = "down"
    BY <1>5, <2>2 DEF Crash, Flywheel!Mishap, Proved!Mishap
  <2> QED
    BY <1>5, <2>1, <2>2 DEF Crash
<1>6. CASE Damage
  <2>1. \E r \in Proved!Rounds, kind \in Damageable : Proved!Damage(r, kind)
    BY <1>6, SameActions DEF Damage
  <2> QED
    BY <2>1 DEF Proved!Next, Proved!Fault
<1> QED
  BY <1>2, <1>3, <1>4, <1>5, <1>6 DEF Next, Progress, TrainingGoesOn, TrainingEnds

\* The flywheel inside the driver keeps its inductive invariant.
LEMMA FlywheelStep == milestone \in Milestones /\ FlywheelOK /\ [Next]_vars => FlywheelOK'
<1> SUFFICES ASSUME milestone \in Milestones, FlywheelOK, [Next]_vars PROVE FlywheelOK'
  OBVIOUS
<1>1. CASE [Proved!Next]_(Proved!vars)
  <2>1. (Proved!TypeOK /\ Proved!Bounds)'
    BY <1>1, FlywheelSuited, Proved!Typing DEF FlywheelOK, Proved!IInv
  <2>2. Proved!Consistent'
    BY <1>1, <2>1, FlywheelSuited, Proved!ConsistentStep DEF FlywheelOK
  <2>3. Proved!StepsCounted'
    BY <1>1, FlywheelSuited, Proved!CountedStep DEF FlywheelOK
  <2> QED
    BY <2>1, <2>2, <2>3 DEF FlywheelOK, Proved!IInv
<1>2. CASE /\ Proved!Mishap
           /\ UNCHANGED << latestFile, runFile, manifest, files, pc, target, latest, run,
                           round, attempt, memo, weights, moments, version, retryable >>
  <2>1. faults' \in 0 .. MaxFaults /\ UNCHANGED nextBatch
    BY <1>2, DriverAssumption DEF Proved!Mishap, FlywheelOK, Proved!IInv, Proved!TypeOK
  <2>2. UNCHANGED << Proved!disk, pc, Proved!session, attempt, memo, Proved!runtime,
                     retryable, nextBatch >>
    BY <1>2, <2>1 DEF Proved!disk, Proved!session, Proved!runtime
  <2>3. Proved!IInv'
    BY <2>1, <2>2, FlywheelSuited, Proved!FaultElsewhere DEF FlywheelOK
  <2>4. Proved!StepsCounted'
    BY <1>2 DEF FlywheelOK, Proved!StepsCounted
  <2> QED
    BY <2>3, <2>4 DEF FlywheelOK
<1> QED
  BY <1>1, <1>2, DriverSteps

\* What the flywheel's invariant says of the files the driver reads.
LEMMA FilesRead ==
  ASSUME FlywheelOK
  PROVE  /\ runFile.completed \in 0 .. MaxRounds /\ latestFile.version \in 0 .. MaxRounds
         /\ runFile.completed <= latestFile.version
         /\ \A r \in Proved!Rounds : files[r].adapter \in Flywheel!Weights
         /\ \A r \in Proved!Rounds : r < latestFile.version =>
              manifest[r].status = "published" /\ manifest[r].after = r + 1
         /\ \A i \in Milestones : Schedule[i] - 1 \in Proved!Rounds
<1> USE DEF FlywheelOK, Proved!IInv, Proved!Consistent
<1>1. /\ runFile.completed \in 0 .. MaxRounds /\ latestFile.version \in 0 .. MaxRounds
      /\ \A r \in Proved!Rounds : files[r].adapter \in Flywheel!Weights
  BY DEF Proved!TypeOK, Proved!RunManifests, Proved!Publications, Proved!Artifacts,
     Proved!Weights, Flywheel!Weights
<1>2. runFile.completed <= latestFile.version
  BY DEF Proved!ProgressRecorded
<1>3. \A r \in Proved!Rounds : r < latestFile.version =>
        manifest[r].status = "published" /\ manifest[r].after = r + 1
  BY DEF Proved!Indexed, Proved!OneStepPerRound
<1>4. \A i \in Milestones : Schedule[i] - 1 \in Proved!Rounds
  BY ScheduleFacts, DriverAssumption DEF Proved!Rounds
<1> QED
  BY <1>1, <1>2, <1>3, <1>4

\* While it runs, the flywheel only raises the count, below its target until it
\* ends, and publishes nothing beyond the target; otherwise it does nothing.
LEMMA TrainingMoves ==
  ASSUME FlywheelOK, milestone \in Milestones, [Next]_vars
  PROVE  /\ runFile.completed <= runFile'.completed
         /\ pc # "down" /\ pc' # "down" =>
              /\ target' = target
              /\ runFile'.completed = runFile.completed \/ runFile'.completed < target
         /\ \A r \in Proved!Rounds : manifest'[r].status = "published" =>
              manifest[r].status = "published" \/ (pc # "down" /\ r < target)
         /\ pc = "down" => UNCHANGED << runFile, manifest >>
<1>0. runFile.completed \in Nat
  BY FilesRead, DriverAssumption
<1>1. CASE UNCHANGED << runFile, manifest, pc, target >>
  BY <1>0, <1>1
<1>2. CASE pc # "down" /\ [Proved!Next]_(Proved!vars)
  BY <1>2, FlywheelSuited, Proved!ProgressSteps DEF FlywheelOK
<1>3. CASE pc = "down" /\ [Proved!Next]_(Proved!vars)
  <2>1. UNCHANGED << runFile, manifest >>
    BY <1>3 DEF Proved!Next, Proved!Step, Proved!Fault, Proved!Begin,
       Proved!RecoverPublication, Proved!RefuseRecovery, Proved!OpenRun,
       Proved!TargetBehind, Proved!TargetReached, Proved!SnapshotRound, Proved!LoadRuntime,
       Proved!RefuseSnapshot, Proved!ArchiveIncomplete, Proved!MakeRoundDirs,
       Proved!WriteCollecting, Proved!Freeze, Proved!CompileBatch, Proved!RecordBatch,
       Proved!Admit, Proved!OptimizerStep, Proved!SaveAdapter, Proved!SaveOptimizer,
       Proved!PublishManifest, Proved!IndexPublication, Proved!WriteFailedManifest,
       Proved!WriteFailedRun, Proved!RecordProgress, Proved!RefuseReload,
       Proved!RejectRestart, Proved!RejectBatch, Proved!RaiseInRound, Proved!Crash,
       Proved!Damage, Proved!InTry, Proved!vars, Proved!disk
  <2> QED
    BY <1>0, <1>3, <2>1
<1> QED
  BY <1>1, <1>2, <1>3, DriverSteps

LEMMA TypeStep == IInv /\ [Next]_vars => TypeOK'
<1> SUFFICES ASSUME IInv, [Next]_vars PROVE TypeOK'
  OBVIOUS
<1> USE ScheduleFacts, DriverAssumption DEF TypeOK
<1>0. FlywheelOK /\ TypeOK
  BY DEF IInv
<1>1. 1 \in Milestones /\ 0 \in 0 .. MaxRounds
  BY ScheduleFacts, DriverAssumption
<1>2. CASE StartDriver
  BY <1>0, <1>1, <1>2, FilesRead DEF StartDriver
<1>3. CASE SkipTraining \/ Train \/ TrainingGoesOn \/ Damage \/ UNCHANGED vars
  BY <1>0, <1>3 DEF SkipTraining, Train, TrainingGoesOn, Damage, driver, vars
<1>4. CASE TrainingRefused \/ TrainingEnds \/ Crash
  BY <1>0, <1>1, <1>4 DEF TrainingRefused, TrainingEnds, Crash, DriverEnds
<1>5. CASE CheckProgress
  BY <1>0, <1>1, <1>5, FilesRead DEF CheckProgress, DriverEnds
<1>6. NextMilestone => /\ stage' \in {"milestone", "finished"}
                       /\ milestone' \in Milestones /\ known' \in 0 .. MaxRounds
  BY <1>0, <1>1 DEF NextMilestone
<1>7. CASE SkipEvaluation
  BY <1>0, <1>6, <1>7 DEF SkipEvaluation
<1>8. CASE StartEvaluation
  <2>1. files[Schedule[milestone] - 1].adapter \in Flywheel!Weights
    BY <1>0, FilesRead
  <2>2. [written |-> 0, policy |-> files[Schedule[milestone] - 1].adapter]
          \in [written : 0 .. EvaluationFiles, policy : Flywheel!Weights]
    BY <2>1 DEF EvaluationFiles
  <2> QED
    BY <1>0, <1>8, <2>2 DEF StartEvaluation
<1>9. CASE WriteEvaluation
  <2> DEFINE W == 0 .. EvaluationFiles
  <2>1. ~Complete(milestone)
    BY <1>9 DEF WriteEvaluation, IInv, Turns
  <2>2. evaluations[milestone].written + 1 \in W
    BY <1>0, <2>1 DEF Complete, EvaluationFiles
  <2> HIDE DEF W
  <2>3. evaluations' \in [Milestones -> [written : W, policy : Flywheel!Weights]]
    BY <1>0, <1>9, <2>2 DEF WriteEvaluation, W
  <2>4. UNCHANGED driver \/ NextMilestone
    BY <1>9 DEF WriteEvaluation
  <2> QED
    BY <1>0, <1>6, <2>3, <2>4 DEF W, driver
<1> QED
  BY <1>2, <1>3, <1>4, <1>5, <1>7, <1>8, <1>9 DEF Next, Progress

LEMMA TurnsStep == IInv /\ [Next]_vars => Turns'
<1> SUFFICES ASSUME IInv, [Next]_vars PROVE Turns'
  OBVIOUS
<1> USE DEF Turns
<1>0. /\ FlywheelOK /\ TypeOK /\ Turns
      /\ milestone \in Milestones /\ Milestones = 1 .. Len(Schedule) /\ Len(Schedule) \in Nat
      /\ runFile.completed \in Nat /\ runFile'.completed \in Nat
      /\ \A i \in Milestones : Schedule[i] \in Nat
  <2>1. FlywheelOK /\ TypeOK /\ Turns
    BY DEF IInv
  <2>2. milestone \in Milestones
    BY <2>1 DEF TypeOK
  <2>3. FlywheelOK'
    BY <2>1, <2>2, FlywheelStep
  <2>4. runFile'.completed \in 0 .. MaxRounds
    BY <2>3 DEF FlywheelOK, Proved!IInv, Proved!TypeOK, Proved!RunManifests
  <2> QED
    BY <2>1, <2>2, <2>4, FilesRead, ScheduleFacts, DriverAssumption
<1>1. CASE StartDriver
  BY <1>0, <1>1 DEF StartDriver, training
<1>2. CASE SkipTraining
  <2>1. /\ UNCHANGED << runFile, pc, target, milestone, known, evaluations >>
        /\ stage = "milestone" /\ stage' = "publication" /\ Schedule[milestone] <= known
    BY <1>2 DEF SkipTraining, training
  <2>2. \A i \in Milestones : i <= milestone => Schedule[i] <= runFile.completed
    <3> SUFFICES ASSUME NEW i \in Milestones, i <= milestone
                 PROVE  Schedule[i] <= runFile.completed
      OBVIOUS
    <3>1. i < milestone \/ i = milestone
      BY <1>0
    <3> QED
      BY <1>0, <2>1, <3>1
  <2> QED
    BY <1>0, <2>1, <2>2
<1>3. CASE Train
  <2>1. /\ stage = "milestone" /\ stage' = "training"
        /\ UNCHANGED << runFile, milestone, known, evaluations >>
        /\ pc' = "recover" /\ target' = Schedule[milestone] /\ Schedule[milestone] > known
    BY <1>3 DEF Train, Flywheel!Begin, Flywheel!disk
  <2> QED
    BY <1>0, <2>1
<1>4. CASE TrainingRefused
  BY <1>0, <1>4 DEF TrainingRefused, DriverEnds, training
<1>5. CASE TrainingGoesOn
  <2>1. /\ stage = "training" /\ pc # "down" /\ pc' # "down"
        /\ UNCHANGED << stage, milestone, known, evaluations >>
    BY <1>5 DEF TrainingGoesOn, TrainingStep, driver
  <2>2. /\ target' = target /\ runFile.completed <= runFile'.completed
        /\ runFile'.completed = runFile.completed \/ runFile'.completed < target
    BY <1>0, <2>1, TrainingMoves
  <2> QED
    BY <1>0, <2>1, <2>2
<1>6. CASE TrainingEnds
  <2>1. /\ stage = "training" /\ pc' = "down" /\ UNCHANGED evaluations
        /\ \/ stage' = "trained" /\ UNCHANGED milestone
           \/ stage' = "down"
    BY <1>6 DEF TrainingEnds, TrainingStep, DriverEnds
  <2>2. runFile.completed <= runFile'.completed
    BY <1>0, TrainingMoves
  <2> QED
    BY <1>0, <2>1, <2>2
<1>7. CASE CheckProgress
  <2>1. CASE stage' = "down"
    BY <1>0, <1>7, <2>1 DEF CheckProgress, training
  <2>2. CASE stage' # "down"
    <3>1. /\ UNCHANGED << runFile, pc, target, milestone, evaluations >>
          /\ stage = "trained" /\ stage' = "publication"
          /\ Schedule[milestone] <= runFile.completed /\ known' = runFile.completed
      BY <1>0, <1>7, <2>2 DEF CheckProgress, DriverEnds, training
    <3>2. \A i \in Milestones : i <= milestone => Schedule[i] <= runFile.completed
      <4> SUFFICES ASSUME NEW i \in Milestones, i <= milestone
                   PROVE  Schedule[i] <= runFile.completed
        OBVIOUS
      <4>1. i < milestone \/ i = milestone
        BY <1>0
      <4> QED
        BY <1>0, <3>1, <4>1
    <3> QED
      BY <1>0, <3>1, <3>2
  <2> QED
    BY <2>1, <2>2
<1>8. ASSUME NextMilestone, UNCHANGED training, stage \in {"publication", "evaluating"}
      PROVE  Turns'
  <2>1. CASE stage' = "finished"
    BY <1>0, <1>8, <2>1 DEF training
  <2>2. CASE stage' # "finished"
    <3>1. /\ stage' = "milestone" /\ milestone' = milestone + 1
          /\ UNCHANGED << known, runFile, pc, target >>
      BY <1>8, <2>2 DEF NextMilestone, training
    <3>2. \A i \in Milestones : i < milestone' => i <= milestone
      BY <1>0, <3>1
    <3> QED
      BY <1>0, <1>8, <3>1, <3>2
  <2> QED
    BY <2>1, <2>2
<1>9. CASE SkipEvaluation
  BY <1>8, <1>9 DEF SkipEvaluation
<1>10. CASE StartEvaluation
  <2>1. /\ stage = "publication" /\ stage' = "evaluating"
        /\ UNCHANGED << runFile, pc, target, milestone, known >>
    BY <1>10 DEF StartEvaluation, training
  <2>2. evaluations'[milestone].written = 0
    BY <1>0, <1>10 DEF StartEvaluation, TypeOK
  <2> QED
    BY <1>0, <2>1, <2>2 DEF Complete, EvaluationFiles
<1>11. CASE WriteEvaluation
  <2>1. CASE NextMilestone
    BY <1>8, <1>11, <2>1 DEF WriteEvaluation
  <2>2. CASE ~NextMilestone
    <3>1. /\ stage = "evaluating"
          /\ UNCHANGED << runFile, pc, target, stage, milestone, known >>
          /\ evaluations'[milestone].written # EvaluationFiles
      BY <1>11, <2>2 DEF WriteEvaluation, training, driver
    <3> QED
      BY <1>0, <3>1 DEF Complete
  <2> QED
    BY <2>1, <2>2
<1>12. CASE Crash
  <2>1. stage' = "down" /\ pc' = "down"
    BY <1>12 DEF Crash, DriverEnds, Flywheel!Crash, Flywheel!Halt
  <2> QED
    BY <2>1
<1>13. CASE Damage \/ UNCHANGED vars
  <2>1. UNCHANGED << runFile, pc, target, stage, milestone, known, evaluations >>
    BY <1>13 DEF Damage, Flywheel!Damage, Flywheel!session, driver, training, vars
  <2> QED
    BY <1>0, <2>1 DEF Complete
<1> QED
  BY <1>1, <1>2, <1>3, <1>4, <1>5, <1>6, <1>7, <1>9, <1>10, <1>11, <1>12, <1>13
     DEF Next, Progress

LEMMA ReachStep == IInv /\ [Next]_vars => Reach'
<1> SUFFICES ASSUME IInv, [Next]_vars,
                    NEW i \in Milestones, NEW r \in Proved!Rounds,
                    runFile'.completed < Schedule[i], manifest'[r].status = "published"
             PROVE  r < Schedule[i]
  BY DEF Reach
<1>0. /\ FlywheelOK /\ FlywheelOK' /\ Turns /\ milestone \in Milestones
      /\ r \in Nat /\ \A j \in Milestones : Schedule[j] \in Nat
  BY FlywheelStep, ScheduleFacts, DriverAssumption DEF IInv, TypeOK, Proved!Rounds
<1>1. runFile.completed \in Nat /\ runFile'.completed \in Nat
  BY <1>0, DriverAssumption
     DEF FlywheelOK, Proved!IInv, Proved!TypeOK, Proved!RunManifests
<1>2. runFile.completed < Schedule[i]
  BY <1>0, <1>1, TrainingMoves
<1>3. CASE manifest[r].status = "published"
  BY <1>2, <1>3 DEF IInv, Reach
<1>4. CASE pc # "down" /\ r < target
  <2>1. /\ target = Schedule[milestone]
        /\ \A j \in Milestones : j < milestone => Schedule[j] <= runFile.completed
    BY <1>0, <1>4 DEF Turns
  <2>2. ~(i < milestone)
    BY <1>0, <1>1, <1>2, <2>1
  <2>3. Schedule[milestone] <= Schedule[i]
    BY <1>0, <2>2, ScheduleFacts
  <2> QED
    BY <1>0, <1>4, <2>1, <2>3
<1> QED
  BY <1>0, <1>3, <1>4, TrainingMoves

LEMMA InitInv == Init => IInv
<1> SUFFICES ASSUME Init PROVE IInv
  OBVIOUS
<1>1. Proved!Init
  BY SameActions DEF Init
<1>2. 1 \in Milestones
  BY ScheduleFacts
<1>3. FlywheelOK
  <2>1. Proved!TypeOK /\ Proved!Bounds
    BY <1>1, FlywheelSuited, Proved!Typing
  <2>2. Proved!Consistent
    BY <1>1, FlywheelSuited, Proved!ConsistentStart
  <2>3. Proved!StepsCounted
    BY <1>1 DEF Proved!Init, Proved!EmptyManifest, Proved!StepsCounted
  <2> QED
    BY <2>1, <2>2, <2>3 DEF FlywheelOK, Proved!IInv
<1>4. TypeOK
  <2>1. NoEvaluation \in [written : 0 .. EvaluationFiles, policy : Flywheel!Weights]
    BY DEF NoEvaluation, EvaluationFiles, Flywheel!Weights
  <2>2. 0 \in 0 .. MaxRounds
    BY DriverAssumption
  <2> QED
    BY <1>2, <2>1, <2>2 DEF Init, TypeOK
<1>5. Turns
  BY <1>1 DEF Init, Turns, Proved!Init
<1>6. Reach
  BY <1>1 DEF Reach, Proved!Init, Proved!EmptyManifest
<1> QED
  BY <1>3, <1>4, <1>5, <1>6 DEF IInv

\* The inductive invariant of the driver and its flywheel together.
THEOREM Consistency == Spec => []IInv
<1>1. IInv /\ [Next]_vars => IInv'
  <2> SUFFICES ASSUME IInv, [Next]_vars PROVE IInv'
    OBVIOUS
  <2>1. FlywheelOK'
    BY FlywheelStep DEF IInv, TypeOK
  <2> QED
    BY <2>1, TypeStep, TurnsStep, ReachStep DEF IInv
<1> QED
  BY <1>1, InitInv, PTL DEF Spec

\* The driver's variables keep their types.
THEOREM TypeCorrect == Spec => []TypeOK
<1>1. IInv => TypeOK
  BY DEF IInv
<1> QED
  BY <1>1, Consistency, PTL

\* The driver never asks the flywheel for fewer rounds than are published, so
\* no start of the training process ends in the error for it.
THEOREM TargetsAreAhead == Spec => []NeverBehind
<1>1. IInv => NeverBehind
  <2> SUFFICES ASSUME IInv, pc = "opened" PROVE round <= target
    BY DEF NeverBehind
  <2> DEFINE v == latestFile.version
  <2>1. /\ round = v /\ v \in 0 .. MaxRounds
        /\ \A r \in Proved!Rounds : r < v => manifest[r].status = "published"
    BY FilesRead DEF IInv, FlywheelOK, Proved!IInv, Proved!Consistent, Proved!Session
  <2>2. target = Schedule[milestone] /\ runFile.completed < target /\ milestone \in Milestones
    BY DEF IInv, Turns, TypeOK
  <2>3. target \in Nat
    BY <2>2, ScheduleFacts
  <2>4. CASE v = 0
    BY <2>1, <2>3, <2>4
  <2>5. CASE v > 0
    <3>1. v - 1 \in Proved!Rounds /\ v - 1 < v
      BY <2>1, <2>5, DriverAssumption DEF Proved!Rounds
    <3>2. v - 1 < target
      BY <2>1, <2>2, <3>1 DEF IInv, Reach
    <3> QED
      BY <2>1, <2>3, <3>2
  <2> QED
    BY <2>1, <2>4, <2>5
<1> QED
  BY <1>1, Consistency, PTL

\* When the driver looks for the publication of a milestone, it is there.
THEOREM TrainedIsPublished == Spec => []TrainedMeansPublished
<1>1. IInv => TrainedMeansPublished
  <2> SUFFICES ASSUME IInv, stage = "publication" PROVE PublicationFound
    BY DEF TrainedMeansPublished
  <2>1. milestone \in Milestones /\ FlywheelOK
    BY DEF IInv, TypeOK
  <2>2. Schedule[milestone] \in 1 .. MaxRounds /\ milestone <= milestone
    BY <2>1, ScheduleFacts
  <2>3. Schedule[milestone] <= runFile.completed
    BY <2>1, <2>2 DEF IInv, Turns
  <2>4. Schedule[milestone] - 1 < latestFile.version
    BY <2>1, <2>2, <2>3, FilesRead, DriverAssumption
  <2> QED
    BY <2>1, <2>2, <2>4, FilesRead, DriverAssumption DEF PublicationFound
<1> QED
  BY <1>1, Consistency, PTL

\* Only the evaluation of the milestone the driver is at changes, and only when
\* it is not complete.
LEMMA EvaluationSteps ==
  ASSUME IInv, [Next]_vars
  PROVE  \/ UNCHANGED evaluations
         \/ /\ StartEvaluation \/ WriteEvaluation
            /\ ~Complete(milestone)
            /\ \A i \in Milestones : i # milestone => evaluations'[i] = evaluations[i]
<1>1. CASE UNCHANGED evaluations
  BY <1>1
<1>2. CASE StartEvaluation
  BY <1>2 DEF StartEvaluation, IInv, TypeOK
<1>3. CASE WriteEvaluation
  BY <1>3 DEF WriteEvaluation, IInv, TypeOK, Turns
<1>4. CASE \/ StartDriver \/ SkipTraining \/ Train \/ TrainingRefused \/ TrainingGoesOn
           \/ TrainingEnds \/ CheckProgress \/ SkipEvaluation \/ Crash \/ Damage
           \/ UNCHANGED vars
  BY <1>1, <1>4 DEF StartDriver, SkipTraining, Train, TrainingRefused, TrainingGoesOn,
     TrainingEnds, CheckProgress, SkipEvaluation, Crash, Damage, vars
<1> QED
  BY <1>2, <1>3, <1>4 DEF Next, Progress

\* A complete evaluation is never archived, overwritten or repeated.
THEOREM EvaluationsAreKept == Spec => EvaluationsKept
<1>1. IInv /\ [Next]_vars =>
        \A i \in Milestones : Complete(i) => evaluations'[i] = evaluations[i]
  BY EvaluationSteps
<1> QED
  BY <1>1, Consistency, PTL DEF Spec, EvaluationsKept

-----------------------------------------------------------------------------
(* What is evaluated *)

\* A published adapter stays as it was trained while the driver runs, too.
LEMMA IntactInside ==
  ASSUME "adapter" \notin Damageable, IInv, Proved!AdaptersIntact, [Next]_vars
  PROVE  Proved!AdaptersIntact'
<1>1. FlywheelOK /\ milestone \in Milestones
  BY DEF IInv, TypeOK
<1>2. CASE [Proved!Next]_(Proved!vars)
  BY <1>1, <1>2, FlywheelSuited, Proved!IntactStep DEF FlywheelOK
<1>3. CASE UNCHANGED << manifest, files >>
  BY <1>3 DEF Proved!AdaptersIntact
<1> QED
  BY <1>1, <1>2, <1>3, DriverSteps

\* What latest.json names stays as it is while the driver runs, too.
LEMMA KeptInside ==
  ASSUME IInv, [Next]_vars
  PROVE  /\ latestFile.version <= latestFile'.version
         /\ \A r \in Proved!Rounds : r < latestFile.version => manifest'[r] = manifest[r]
<1>1. FlywheelOK /\ milestone \in Milestones
  BY DEF IInv, TypeOK
<1>2. CASE [Proved!Next]_(Proved!vars)
  BY <1>1, <1>2, FlywheelSuited, Proved!KeptStep DEF FlywheelOK
<1>3. CASE UNCHANGED << latestFile, manifest >>
  BY <1>1, <1>3, FilesRead, DriverAssumption
<1> QED
  BY <1>1, <1>2, <1>3, DriverSteps

\* An evaluation that has been started is one of the milestone's policy.
LEMMA EvaluatedStep ==
  ASSUME IInv, Proved!AdaptersIntact, Evaluated, [Next]_vars
  PROVE  Evaluated'
<1> SUFFICES ASSUME NEW i \in Milestones,
                    Complete(i)' \/ (stage' = "evaluating" /\ i = milestone')
             PROVE  /\ Schedule[i] <= latestFile'.version
                    /\ evaluations'[i].policy = manifest'[Schedule[i] - 1].adapter
  BY DEF Evaluated
<1>0. /\ FlywheelOK /\ TypeOK /\ Turns /\ milestone \in Milestones /\ milestone <= milestone
      /\ FlywheelOK'
      /\ \A j \in Milestones : Schedule[j] \in 1 .. MaxRounds /\ Schedule[j] - 1 \in Proved!Rounds
      /\ latestFile.version \in Nat /\ latestFile'.version \in Nat
      /\ runFile.completed \in Nat /\ runFile.completed <= latestFile.version
  <2>1. /\ FlywheelOK /\ TypeOK /\ Turns /\ milestone \in Milestones /\ FlywheelOK'
    BY FlywheelStep DEF IInv, TypeOK
  <2>2. latestFile'.version \in Nat
    BY <2>1, DriverAssumption
       DEF FlywheelOK, Proved!IInv, Proved!TypeOK, Proved!Publications
  <2> QED
    BY <2>1, <2>2, FilesRead, ScheduleFacts, DriverAssumption
<1>1. SUFFICES /\ Schedule[i] <= latestFile.version
               /\ evaluations'[i].policy = manifest[Schedule[i] - 1].adapter
  BY <1>0, <1>1, KeptInside
<1>2. CASE StartEvaluation /\ i = milestone
  <2>1. Schedule[i] <= runFile.completed
    BY <1>0, <1>2 DEF StartEvaluation, Turns
  <2>2. Schedule[i] - 1 < latestFile.version /\ Schedule[i] <= latestFile.version
    BY <1>0, <2>1
  <2>3. files[Schedule[i] - 1].adapter = manifest[Schedule[i] - 1].adapter
    BY <1>0, <2>2, FilesRead DEF Proved!AdaptersIntact
  <2>4. evaluations'[i].policy = files[Schedule[i] - 1].adapter
    BY <1>0, <1>2 DEF StartEvaluation, TypeOK
  <2> QED
    BY <2>2, <2>3, <2>4
<1>3. CASE WriteEvaluation /\ i = milestone
  <2>1. evaluations'[i].policy = evaluations[i].policy
    BY <1>0, <1>3 DEF WriteEvaluation, TypeOK
  <2>2. stage = "evaluating"
    BY <1>3 DEF WriteEvaluation
  <2> QED
    BY <1>3, <2>1, <2>2 DEF Evaluated
<1>4. CASE evaluations'[i] = evaluations[i]
  <2>1. CASE Complete(i)
    BY <1>4, <2>1 DEF Evaluated
  <2>2. CASE ~Complete(i)
    <3>1. stage' = "evaluating" /\ i = milestone'
      BY <1>4, <2>2 DEF Complete
    <3>2. CASE StartEvaluation
      BY <1>2, <3>1, <3>2 DEF StartEvaluation
    <3>3. CASE WriteEvaluation
      <4>1. UNCHANGED driver
        BY <3>1, <3>3 DEF WriteEvaluation, NextMilestone
      <4> QED
        BY <1>3, <3>1, <3>3, <4>1 DEF driver
    <3>4. CASE \/ StartDriver \/ SkipTraining \/ Train \/ TrainingRefused \/ TrainingEnds
               \/ CheckProgress \/ SkipEvaluation \/ Crash
      <4>1. stage' # "evaluating"
        BY <3>4 DEF StartDriver, SkipTraining, Train, TrainingRefused, TrainingEnds,
           CheckProgress, SkipEvaluation, NextMilestone, Crash, DriverEnds
      <4> QED
        BY <3>1, <4>1
    <3>5. CASE TrainingGoesOn \/ Damage \/ UNCHANGED vars
      <4>1. UNCHANGED driver
        BY <3>5 DEF TrainingGoesOn, Damage, vars
      <4> QED
        BY <1>4, <3>1, <4>1 DEF driver, Evaluated
    <3> QED
      BY <3>2, <3>3, <3>4, <3>5 DEF Next, Progress
  <2> QED
    BY <2>1, <2>2
<1> QED
  BY <1>2, <1>3, <1>4, EvaluationSteps

\* As long as no adapter is damaged, every complete evaluation is one of the
\* policy its milestone is named after, made of as many optimizer steps.
THEOREM EvaluatesTheMilestone == "adapter" \notin Damageable => (Spec => []EvaluatedPolicy)
<1> SUFFICES ASSUME "adapter" \notin Damageable PROVE Spec => []EvaluatedPolicy
  OBVIOUS
<1> DEFINE I == Proved!AdaptersIntact /\ Evaluated
<1>1. Init => I
  <2> SUFFICES ASSUME Init PROVE I
    OBVIOUS
  <2>1. Proved!Init
    BY SameActions DEF Init
  <2>2. \A i \in Milestones : ~Complete(i)
    BY DEF Init, Complete, NoEvaluation, EvaluationFiles
  <2> QED
    BY <2>1, <2>2
       DEF Init, Proved!Init, Proved!EmptyManifest, Proved!AdaptersIntact, Evaluated
<1>2. IInv /\ I /\ [Next]_vars => I'
  BY IntactInside, EvaluatedStep
<1>3. IInv /\ I => EvaluatedPolicy
  <2> SUFFICES ASSUME IInv, Evaluated, NEW i \in Milestones, Complete(i)
               PROVE  /\ Len(evaluations[i].policy) = Schedule[i]
                      /\ evaluations[i].policy = manifest[Schedule[i] - 1].adapter
    BY DEF EvaluatedPolicy
  <2>1. /\ Schedule[i] <= latestFile.version
        /\ evaluations[i].policy = manifest[Schedule[i] - 1].adapter
    BY DEF Evaluated
  <2>2. Schedule[i] \in 1 .. MaxRounds /\ Schedule[i] - 1 \in Proved!Rounds /\ FlywheelOK
    BY FilesRead, ScheduleFacts DEF IInv
  <2>3. manifest[Schedule[i] - 1].status = "published"
    BY <2>1, <2>2, FilesRead, DriverAssumption
  <2>4. Len(manifest[Schedule[i] - 1].adapter) = Schedule[i] - 1 + 1
    BY <2>2, <2>3 DEF FlywheelOK, Proved!StepsCounted
  <2> QED
    BY <2>1, <2>2, <2>4
<1> HIDE DEF I
<1> QED
  BY <1>1, <1>2, <1>3, Consistency, PTL DEF Spec
=============================================================================
