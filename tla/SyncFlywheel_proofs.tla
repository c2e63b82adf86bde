------------------------ MODULE SyncFlywheel_proofs ------------------------
(***************************************************************************)
(* Proofs about SyncFlywheel, for every number of rounds, targets,         *)
(* attempts, batches, kinds of damage and faults.                          *)
(***************************************************************************)
EXTENDS SyncFlywheel, TLAPS

-----------------------------------------------------------------------------
(* The inductive invariant *)

\* The control points of a round.
BeforeTry == {"snapshot", "attempt", "mkdirs", "dirs"}

Excepting == {"failing", "failedManifest"}

InRound == BeforeTry \cup InTry \cup Excepting \cup {"closing"}

\* A process in a round has a target ahead of it.
Bounds == pc \in InRound => round < target

\* What the process loaded is still what latest.json says, until it publishes.
Session ==
  /\ pc \in {"recover", "opened"} \cup (InRound \ {"closing"}) => latest = latestFile
  /\ pc \in {"opened"} \cup (InRound \ {"closing"}) => round = latestFile.version
  /\ pc = "closing" => latestFile.version = round + 1
  /\ pc \in {"opened"} \cup InRound =>
       run = runFile /\ runFile.status \in {"running", "failed"}

\* latest.json and the manifests that say "published".
Indexed ==
  /\ latestFile.version = 0 => latestFile = NoPublication
  /\ latestFile.version > 0 =>
       /\ manifest[latestFile.version - 1].status = "published"
       /\ latestFile = PublicationOf(manifest[latestFile.version - 1])
  /\ \A r \in Rounds : r < latestFile.version => manifest[r].status = "published"
  /\ \A r \in Rounds : manifest[r].status = "published" => r <= latestFile.version

\* No manifest says "published" that latest.json does not index.
AllIndexed ==
  \A r \in Rounds : manifest[r].status = "published" => r < latestFile.version

\* Such a manifest exists only before recovery or around the write of latest.json.
UnindexedOnlyThere ==
  /\ pc \in {"opened", "closing", "failedManifest"} \cup BeforeTry
              \cup (InTry \ {"published"}) => AllIndexed
  /\ runFile.status = "completed" => AllIndexed

\* The copy of the round manifest in memory.
Memo ==
  /\ pc \in InTry => memo.before = round /\ memo.checkpoint = latest.adapter
  /\ pc \in InTry \ {"collecting", "frozen"} => memo.batch \in Batches
  /\ pc \in InTry => (memo.status = "published" <=> pc = "published")
  /\ pc = "published" => memo = manifest[round]

\* Weights are never the damaged file: they are made of batches that were drawn.
Drawn(w) == \A i \in DOMAIN w : w[i] \in Batches /\ w[i] < nextBatch

DiskDrawn ==
  /\ Drawn(latestFile.adapter) /\ Drawn(latestFile.optimizer)
  /\ \A r \in Rounds : manifest[r].status = "published" =>
       /\ manifest[r].batch \in Batches /\ manifest[r].batch < nextBatch
       /\ \A i \in DOMAIN manifest[r].checkpoint :
            manifest[r].checkpoint[i] # manifest[r].batch
       /\ Drawn(manifest[r].adapter) /\ Drawn(manifest[r].optimizer)

\* The batch in memory is not one the loaded publication was trained on.
MemoDrawn ==
  pc \in InTry \ {"collecting", "frozen"} =>
    /\ memo.batch < nextBatch
    /\ \A i \in DOMAIN latest.adapter : latest.adapter[i] # memo.batch

\* The adapter and the optimizer state in memory.
FromLatest ==
  weights = latest.adapter /\ moments = latest.optimizer /\ version = round

Loaded ==
  /\ pc \in BeforeTry \ {"snapshot"} => version = round /\ (Valid(latest) => FromLatest)
  /\ pc \in {"collecting", "frozen", "compiled", "recorded", "training"} => FromLatest
  /\ pc \in Excepting /\ retryable => FromLatest
  /\ pc \in {"stepped", "adapterSaved", "saved", "published"} =>
       /\ weights = Append(latest.adapter, memo.batch)
       /\ moments = Append(latest.optimizer, memo.batch)
       /\ version = round + 1

Saved ==
  /\ pc \in {"adapterSaved", "saved"} => files[round].adapter = weights
  /\ pc = "saved" => files[round].optimizer = moments

\* All that a step from a typed state needs, beyond the types.
Consistent ==
  /\ Session /\ Indexed /\ UnindexedOnlyThere /\ OneStepPerRound /\ ProgressRecorded
  /\ Memo /\ DiskDrawn /\ MemoDrawn /\ Loaded /\ Saved

IInv == TypeOK /\ Bounds /\ Consistent

-----------------------------------------------------------------------------
(* Types *)

LEMMA RecordsTyped ==
  /\ NoPublication \in Publications
  /\ NoRunManifest \in RunManifests
  /\ NoArtifacts \in Artifacts
  /\ \A s \in RoundStatus : EmptyManifest(s) \in Manifests
PROOF
<1>1. << >> \in Weights /\ 0 \in 0 .. MaxRounds
  BY FlywheelAssumption DEF Weights
<1> QED
  BY <1>1 DEF NoPublication, Publications, NoRunManifest, RunManifests, NoArtifacts,
     Artifacts, EmptyManifest, Manifests

\* A publication of a typed manifest is typed.
LEMMA PublicationTyped ==
  ASSUME NEW m \in Manifests
  PROVE  PublicationOf(m) \in Publications
PROOF
  BY DEF PublicationOf, Publications, Manifests

\* A process that has ended is typed, and in no round.
LEMMA HaltTyped ==
  ASSUME Halt
  PROVE  /\ pc' = "down"
         /\ target' \in 0 .. MaxRounds
         /\ latest' \in Publications
         /\ run' \in RunManifests
         /\ round' \in 0 .. MaxRounds
         /\ attempt' \in Nat
         /\ memo' \in Manifests
         /\ weights' \in Weights /\ moments' \in Weights
         /\ version' \in Nat
         /\ retryable' \in BOOLEAN
PROOF
<1>1. << >> \in Weights /\ 0 \in 0 .. MaxRounds /\ "absent" \in RoundStatus
  BY FlywheelAssumption DEF Weights, RoundStatus
<1> QED
  BY <1>1, RecordsTyped DEF Halt

\* Writing a typed round manifest, in a round.
LEMMA WriteTyped ==
  ASSUME manifest \in [Rounds -> Manifests], NEW m \in Manifests, WriteManifest(m)
  PROVE  memo' \in Manifests /\ manifest' \in [Rounds -> Manifests]
PROOF
  BY DEF WriteManifest

\* The types, and the bound on the round they need, hold in every step.
LEMMA Typing ==
  /\ Init => TypeOK /\ Bounds
  /\ TypeOK /\ Bounds /\ [Next]_vars => (TypeOK /\ Bounds)'
PROOF
<1> DEFINE Inv == TypeOK /\ Bounds
<1>1. Init => Inv
  <2> SUFFICES ASSUME Init PROVE Inv
    OBVIOUS
  <2>1. << >> \in Weights /\ 0 \in 0 .. MaxRounds /\ "absent" \in RoundStatus
    BY FlywheelAssumption DEF Weights, RoundStatus
  <2>2. TypeOK
    <3>1. retryable \in BOOLEAN
      BY DEF Init
    <3>2. /\ manifest \in [Rounds -> Manifests]
          /\ files \in [Rounds -> Artifacts]
          /\ memo \in Manifests
      BY <2>1, RecordsTyped DEF Init
    <3> QED
      BY <2>1, <3>1, <3>2, RecordsTyped, FlywheelAssumption DEF Init, TypeOK
  <2>3. Bounds
    BY DEF Init, Bounds, InRound, BeforeTry, Excepting, InTry
  <2> QED
    BY <2>2, <2>3
<1>2. Inv /\ [Next]_vars => Inv'
  <2> SUFFICES ASSUME Inv, [Next]_vars PROVE Inv'
    OBVIOUS
  <2> USE DEF TypeOK, Bounds, InRound, BeforeTry, Excepting, InTry
  <2>1. CASE \E t \in Targets : Begin(t)
    BY <2>1, FlywheelAssumption DEF Begin, disk, runtime, world
  <2>2. CASE RecoverPublication
    BY <2>2, PublicationTyped, FlywheelAssumption DEF RecoverPublication, disk, session,
       runtime, world, Unindexed
  <2>3. CASE RefuseRecovery
    BY <2>3, HaltTyped, FlywheelAssumption DEF RefuseRecovery, disk, session, runtime,
       world
  <2>4. CASE OpenRun
    BY <2>4, FlywheelAssumption DEF OpenRun, disk, session, runtime, world,
       RunManifests, Publications
  <2>5. CASE TargetBehind
    BY <2>5, HaltTyped, FlywheelAssumption DEF TargetBehind, disk, session, runtime,
       world
  <2>6. CASE TargetReached
    BY <2>6, HaltTyped, FlywheelAssumption DEF TargetReached, disk, session, runtime,
       world, RunManifests
  <2>7. CASE SnapshotRound
    BY <2>7, FlywheelAssumption DEF SnapshotRound, disk, session, runtime, world
  <2>8. CASE LoadRuntime
    <3>1. weights' \in Weights /\ moments' \in Weights
      <4>1. CASE latest.version = 0
        BY <2>8, <4>1 DEF LoadRuntime, Weights
      <4>2. CASE latest.version # 0
        <5>1. latest.version - 1 \in Rounds
          BY <4>2, FlywheelAssumption DEF Rounds, Publications
        <5>2. files[latest.version - 1] \in Artifacts
          BY <5>1
        <5> QED
          BY <2>8, <4>2, <5>2 DEF LoadRuntime, Artifacts
      <4> QED
        BY <4>1, <4>2
    <3>2. version' \in Nat
      BY <2>8, <3>1, FlywheelAssumption DEF LoadRuntime, Publications
    <3> QED
      BY <2>8, <3>1, <3>2, RecordsTyped, FlywheelAssumption DEF LoadRuntime, disk,
         session, runtime, world
  <2>9. CASE RefuseSnapshot
    BY <2>9, HaltTyped, FlywheelAssumption DEF RefuseSnapshot, disk, session, runtime,
       world
  <2>10. CASE ArchiveIncomplete
    BY <2>10, RecordsTyped, FlywheelAssumption DEF ArchiveIncomplete, disk, session,
       runtime, world, RoundStatus
  <2>11. CASE MakeRoundDirs
    BY <2>11, RecordsTyped, FlywheelAssumption DEF MakeRoundDirs, disk, session,
       runtime, world, RoundStatus
  <2>12. CASE WriteCollecting
    <3>1. EmptyManifest("collecting") \in Manifests
      BY RecordsTyped DEF RoundStatus
    <3>2. [EmptyManifest("collecting") EXCEPT !.before = latest.version,
                                              !.checkpoint = latest.adapter] \in Manifests
      <4>1. latest.version \in Nat /\ latest.adapter \in Weights
        BY FlywheelAssumption DEF Publications
      <4> QED
        BY <3>1, <4>1 DEF Manifests
    <3> QED
      BY <2>12, <3>2, WriteTyped, FlywheelAssumption DEF WriteCollecting, disk, session,
         runtime, world
  <2>13. CASE Freeze
    <3>1. [memo EXCEPT !.status = "frozen"] \in Manifests
      BY <2>13 DEF Manifests, RoundStatus
    <3> QED
      BY <2>13, <3>1, WriteTyped, FlywheelAssumption DEF Freeze, disk, session, runtime,
         world
  <2>14. CASE CompileBatch
    <3>1. memo' \in Manifests
      BY <2>14, FlywheelAssumption DEF CompileBatch, Manifests
    <3>2. files' \in [Rounds -> Artifacts]
      BY <2>14, <3>1, FlywheelAssumption DEF CompileBatch, Artifacts
    <3> QED
      BY <2>14, <3>1, <3>2, FlywheelAssumption DEF CompileBatch, disk, session, runtime,
         world
  <2>15. CASE RecordBatch
    BY <2>15, WriteTyped, FlywheelAssumption DEF RecordBatch, disk, session, runtime,
       world
  <2>16. CASE Admit
    <3>1. [memo EXCEPT !.status = "training"] \in Manifests
      BY <2>16 DEF Manifests, RoundStatus
    <3> QED
      BY <2>16, <3>1, WriteTyped, FlywheelAssumption DEF Admit, disk, session, runtime,
         world
  <2>17. CASE OptimizerStep
    <3>1. weights' \in Weights /\ moments' \in Weights
      BY <2>17 DEF OptimizerStep, Weights, Manifests
    <3> QED
      BY <2>17, <3>1, FlywheelAssumption DEF OptimizerStep, disk, session, runtime,
         world
  <2>18. CASE SaveAdapter
    <3>1. files' \in [Rounds -> Artifacts]
      BY <2>18 DEF SaveAdapter, Artifacts
    <3> QED
      BY <2>18, <3>1, FlywheelAssumption DEF SaveAdapter, disk, session, runtime, world
  <2>19. CASE SaveOptimizer
    <3>1. files' \in [Rounds -> Artifacts]
      BY <2>19 DEF SaveOptimizer, Artifacts
    <3> QED
      BY <2>19, <3>1, FlywheelAssumption DEF SaveOptimizer, disk, session, runtime,
         world
  <2>20. CASE PublishManifest
    <3>1. round \in Rounds /\ version \in 0 .. MaxRounds
      BY <2>20, FlywheelAssumption DEF PublishManifest, Rounds
    <3>2. memo' \in Manifests
      BY <2>20, <3>1 DEF PublishManifest, WriteManifest, Manifests, Artifacts,
         RoundStatus
    <3>3. manifest' \in [Rounds -> Manifests]
      BY <2>20, <3>1, <3>2 DEF PublishManifest, WriteManifest
    <3> QED
      BY <2>20, <3>1, <3>2, <3>3, FlywheelAssumption DEF PublishManifest, disk, session,
         runtime, world
  <2>21. CASE IndexPublication
    BY <2>21, PublicationTyped, FlywheelAssumption DEF IndexPublication, disk, session,
       runtime, world
  <2>22. CASE WriteFailedManifest
    <3>1. [memo EXCEPT !.status = "failed"] \in Manifests
      BY <2>22 DEF Manifests, RoundStatus
    <3> QED
      BY <2>22, <3>1, WriteTyped, FlywheelAssumption DEF WriteFailedManifest, disk,
         session, runtime, world
  <2>23. CASE WriteFailedRun
    BY <2>23, HaltTyped, FlywheelAssumption DEF WriteFailedRun, disk, session, runtime,
       world, RunManifests
  <2>24. CASE RecordProgress
    <3>1. runFile' \in RunManifests
      BY <2>24, FlywheelAssumption DEF RecordProgress, RunManifests
    <3> QED
      BY <2>24, <3>1, HaltTyped, FlywheelAssumption DEF RecordProgress, disk, session,
         runtime, world
  <2>25. CASE RefuseReload
    BY <2>25, HaltTyped, FlywheelAssumption DEF RefuseReload, disk, session, runtime,
       world
  <2>26. CASE RejectRestart
    BY <2>26, HaltTyped, FlywheelAssumption DEF RejectRestart, disk, session, runtime,
       world, Mishap
  <2>27. CASE RejectBatch
    BY <2>27, FlywheelAssumption DEF RejectBatch, disk, session, runtime, world, Mishap
  <2>28. CASE RaiseInRound
    <3>1. retryable' \in BOOLEAN
      BY <2>28 DEF RaiseInRound
    <3> QED
      BY <2>28, <3>1, FlywheelAssumption DEF RaiseInRound, disk, session, runtime, world,
         Mishap
  <2>29. CASE Crash
    BY <2>29, HaltTyped, FlywheelAssumption DEF Crash, disk, session, runtime, world,
       Mishap
  <2>30. CASE \E r \in Rounds, kind \in Damageable : Damage(r, kind)
    <3>1. PICK r \in Rounds, kind \in Damageable : Damage(r, kind)
      BY <2>30
    <3>2. Damaged \in Weights /\ kind \in {"adapter", "optimizer", "batch"}
      BY FlywheelAssumption DEF Damaged, Weights
    <3>3. files' \in [Rounds -> Artifacts]
      BY <3>1, <3>2 DEF Damage, Artifacts
    <3> QED
      BY <3>1, <3>3, FlywheelAssumption DEF Damage, Mishap, disk, session, runtime, world
  <2>31. CASE UNCHANGED vars
    BY <2>31 DEF vars, disk, session, runtime, world
  <2> QED
    BY <2>1, <2>2, <2>3, <2>4, <2>5, <2>6, <2>7, <2>8, <2>9, <2>10, <2>11, <2>12, <2>13,
       <2>14, <2>15, <2>16, <2>17, <2>18, <2>19, <2>20, <2>21, <2>22, <2>23, <2>24,
       <2>25, <2>26, <2>27, <2>28, <2>29, <2>30, <2>31 DEF Next, Step, Fault
<1> QED
  BY <1>1, <1>2

-----------------------------------------------------------------------------
(* Consistency of the files and the process *)

LEMMA ConsistentStart == Init => Consistent
PROOF
<1> SUFFICES ASSUME Init PROVE Consistent
  OBVIOUS
<1> USE DEF Init
<1>1. \A r \in Rounds : manifest[r].status # "published"
  BY DEF EmptyManifest
<1>2. Session /\ Memo /\ MemoDrawn /\ Loaded /\ Saved
  BY DEF Session, Memo, MemoDrawn, Loaded, Saved, InRound, BeforeTry, InTry, Excepting
<1>3. Indexed /\ UnindexedOnlyThere /\ OneStepPerRound
  BY <1>1 DEF Indexed, UnindexedOnlyThere, AllIndexed, OneStepPerRound, NoPublication,
     Rounds
<1>4. ProgressRecorded
  BY DEF ProgressRecorded, NoPublication, NoRunManifest
<1>5. DiskDrawn
  BY <1>1 DEF DiskDrawn, Drawn, NoPublication
<1> QED
  BY <1>2, <1>3, <1>4, <1>5 DEF Consistent

\* A process that has ended is at no control point of a round.
LEMMA HaltedConsistent ==
  ASSUME IInv, Halt, UNCHANGED << latestFile, manifest, files, nextBatch >>
  PROVE  /\ Session' /\ Indexed' /\ OneStepPerRound' /\ Memo'
         /\ DiskDrawn' /\ MemoDrawn' /\ Loaded' /\ Saved'
         /\ AllIndexed => UnindexedOnlyThere'
         /\ UNCHANGED runFile => UnindexedOnlyThere' /\ ProgressRecorded'
PROOF
<1>1. pc' = "down" /\ retryable' = FALSE
  BY DEF Halt
<1> USE <1>1 DEF IInv, Consistent, InRound, BeforeTry, InTry, Excepting
<1>2. Session' /\ Memo' /\ MemoDrawn' /\ Loaded' /\ Saved'
  BY DEF Session, Memo, MemoDrawn, Loaded, Saved
<1>3. Indexed' /\ OneStepPerRound'
  BY DEF Indexed, OneStepPerRound
<1>4. DiskDrawn'
  BY DEF DiskDrawn, Drawn
<1>5. AllIndexed => UnindexedOnlyThere'
  BY DEF UnindexedOnlyThere, AllIndexed
<1>6. UNCHANGED runFile => UnindexedOnlyThere' /\ ProgressRecorded'
  BY DEF UnindexedOnlyThere, AllIndexed, ProgressRecorded
<1> QED
  BY <1>2, <1>3, <1>4, <1>5, <1>6

\* A step that leaves the publications and their manifests alone.
LEMMA PublicationsKept ==
  ASSUME IInv, TypeOK', UNCHANGED << latestFile, manifest >>, nextBatch <= nextBatch'
  PROVE  /\ Indexed' /\ OneStepPerRound' /\ DiskDrawn'
         /\ AllIndexed => AllIndexed'
         /\ UNCHANGED runFile => ProgressRecorded'
PROOF
<1> USE DEF IInv, Consistent
<1>1. Indexed' /\ OneStepPerRound' /\ (AllIndexed => AllIndexed')
  BY DEF Indexed, OneStepPerRound, AllIndexed
<1>2. UNCHANGED runFile => ProgressRecorded'
  BY DEF ProgressRecorded
<1>3. DiskDrawn'
  <2>1. nextBatch \in Nat /\ nextBatch' \in Nat /\ Batches \subseteq Nat
    BY FlywheelAssumption DEF TypeOK
  <2>2. \A b \in Batches : b < nextBatch => b < nextBatch'
    <3> SUFFICES ASSUME NEW b \in Batches, b < nextBatch PROVE b < nextBatch'
      OBVIOUS
    <3>1. b \in Nat
      BY <2>1
    <3> QED
      BY <2>1, <3>1
  <2> QED
    BY <2>2 DEF DiskDrawn, Drawn
<1> QED
  BY <1>1, <1>2, <1>3

\* The manifest of the round that is being worked on is rewritten, and does not
\* say "published" then.
LEMMA RoundRewritten ==
  ASSUME IInv, NEW m \in Manifests, m.status # "published",
         round \in Rounds, round = latestFile.version,
         manifest' = [manifest EXCEPT ![round] = m],
         UNCHANGED << latestFile, nextBatch >>
  PROVE  /\ Indexed' /\ AllIndexed' /\ OneStepPerRound' /\ DiskDrawn'
         /\ UNCHANGED runFile => ProgressRecorded'
PROOF
<1> USE DEF IInv, Consistent
<1>1. /\ round \in Nat /\ \A r \in Rounds : r \in Nat
      /\ manifest \in [Rounds -> Manifests]
  BY FlywheelAssumption DEF Rounds, TypeOK
<1>2. \A r \in Rounds : r # round => manifest'[r] = manifest[r]
  BY <1>1
<1>3. manifest'[round].status # "published"
  BY <1>1
<1>4. \A r \in Rounds : manifest'[r].status = "published" =>
         r < round /\ manifest[r].status = "published"
  BY <1>1, <1>2, <1>3 DEF Indexed
<1>5. Indexed'
  <2>1. latestFile.version > 0 => latestFile.version - 1 \in Rounds
    BY <1>1, FlywheelAssumption DEF Rounds
  <2> QED
    BY <1>1, <1>2, <1>3, <1>4, <2>1 DEF Indexed
<1>6. AllIndexed'
  BY <1>4 DEF AllIndexed
<1>7. OneStepPerRound'
  BY <1>1, <1>2, <1>4 DEF OneStepPerRound
<1>8. DiskDrawn'
  BY <1>2, <1>3 DEF DiskDrawn, Drawn
<1>9. UNCHANGED runFile => ProgressRecorded'
  BY DEF ProgressRecorded
<1> QED
  BY <1>5, <1>6, <1>7, <1>8, <1>9

\* latest.json is set to the round after the ones it names, whose manifest says
\* "published".
LEMMA PublicationAdded ==
  ASSUME IInv, Unindexed,
         latest.version = latestFile.version,
         latestFile' = PublicationOf(manifest[latestFile.version]),
         UNCHANGED << runFile, manifest, nextBatch >>
  PROVE  /\ latestFile'.version = latestFile.version + 1
         /\ Indexed' /\ AllIndexed' /\ OneStepPerRound' /\ DiskDrawn' /\ ProgressRecorded'
         /\ runFile.status # "completed"
PROOF
<1> USE DEF IInv, Consistent
<1> DEFINE r == latestFile.version
<1>1. r \in Rounds /\ manifest[r].status = "published" /\ \A q \in Rounds : q \in Nat
  BY FlywheelAssumption DEF Unindexed, Rounds
<1>2. manifest[r].after = r + 1
  BY <1>1 DEF OneStepPerRound
<1>3. latestFile'.version = r + 1
  BY <1>2 DEF PublicationOf
<1>4. runFile.status # "completed"
  BY <1>1 DEF UnindexedOnlyThere, AllIndexed
<1>5. Indexed'
  <2>1. r + 1 - 1 = r /\ r + 1 > 0 /\ r + 1 # 0
    BY <1>1
  <2> QED
    BY <1>1, <1>3, <2>1 DEF Indexed
<1>6. AllIndexed'
  BY <1>1, <1>3 DEF AllIndexed, Indexed
<1>7. OneStepPerRound'
  BY DEF OneStepPerRound
<1>8. DiskDrawn'
  BY <1>1 DEF DiskDrawn, Drawn, PublicationOf
<1>9. ProgressRecorded'
  BY <1>1, <1>3, <1>4 DEF ProgressRecorded, TypeOK, RunManifests
<1> QED
  BY <1>3, <1>4, <1>5, <1>6, <1>7, <1>8, <1>9

\* A batch that has been drawn joins batches that have.
LEMMA DrawnAppend ==
  ASSUME NEW w \in Weights, Drawn(w), NEW b \in Batches, b < nextBatch
  PROVE  Drawn(Append(w, b))
PROOF
  BY FlywheelAssumption DEF Weights, Drawn

\* A weight file that training made is not a damaged one.
LEMMA NotDamaged ==
  ASSUME NEW w, Drawn(w)
  PROVE  w # Damaged
PROOF
<1>1. 0 \notin Batches
  BY FlywheelAssumption
<1>2. 1 \in DOMAIN Damaged /\ Damaged[1] = 0
  BY DEF Damaged
<1> QED
  BY <1>1, <1>2 DEF Drawn

\* Every step from a consistent state ends in a consistent state.
LEMMA ConsistentStep ==
  ASSUME IInv, TypeOK', [Next]_vars
  PROVE  Consistent'
PROOF
<1> USE FlywheelAssumption DEF IInv, Consistent, Bounds, InRound, BeforeTry, InTry,
        Excepting, session, runtime, disk, world
<1> DEFINE OnDisk == Indexed /\ OneStepPerRound /\ DiskDrawn /\ ProgressRecorded
<1> DEFINE InMemory ==
        Session /\ UnindexedOnlyThere /\ Memo /\ MemoDrawn /\ Loaded /\ Saved
<1>0. round \in Nat /\ latestFile.version \in Nat /\ (pc \in InRound => round \in Rounds)
  BY DEF TypeOK, Publications, Rounds
<1>1. CASE \E t \in Targets : Begin(t)
  <2>1. OnDisk' /\ (AllIndexed => AllIndexed')
    BY <1>1, PublicationsKept DEF Begin, TypeOK
  <2>2. InMemory'
    BY <1>1, <2>1 DEF Begin, Session, UnindexedOnlyThere, Memo, MemoDrawn, Loaded, Saved,
       FromLatest
  <2> QED
    BY <2>1, <2>2
<1>2. CASE RecoverPublication
  <2>1. Unindexed /\ latest.version = latestFile.version
           /\ latestFile' = PublicationOf(manifest[latestFile.version])
    BY <1>2, <1>0 DEF RecoverPublication, Unindexed, Session, Memo
  <2>2. latestFile'.version = latestFile.version + 1 /\ OnDisk' /\ AllIndexed'
           /\ runFile.status # "completed"
    BY <1>2, <2>1, PublicationAdded DEF RecoverPublication
  <2>3. InMemory'
    BY <1>2, <1>0, <2>2 DEF RecoverPublication, Session, UnindexedOnlyThere, Memo,
       MemoDrawn, Loaded, Saved
  <2> QED
    BY <2>2, <2>3
<1>3. CASE RefuseRecovery
  BY <1>3, HaltedConsistent DEF RefuseRecovery
<1>4. CASE OpenRun
  <2>1. ~Unindexed /\ latest = latestFile /\ AllIndexed
    <3>1. latest = latestFile /\ ~Unindexed
      BY <1>4 DEF OpenRun, Session
    <3> QED
      BY <1>0, <3>1 DEF Indexed, AllIndexed, Unindexed, Rounds
  <2>2. Indexed' /\ OneStepPerRound' /\ DiskDrawn' /\ AllIndexed'
    BY <1>4, <2>1, PublicationsKept DEF OpenRun, TypeOK
  <2>3. runFile'.status = "running" /\ runFile'.completed = runFile.completed
    BY <1>4 DEF OpenRun, TypeOK, RunManifests
  <2>4. ProgressRecorded'
    BY <1>4, <2>3 DEF OpenRun, ProgressRecorded
  <2>5. InMemory'
    BY <1>4, <2>1, <2>2, <2>3 DEF OpenRun, Session, UnindexedOnlyThere, Memo, MemoDrawn,
       Loaded, Saved
  <2> QED
    BY <2>2, <2>4, <2>5
<1>5. CASE TargetBehind
  BY <1>5, HaltedConsistent DEF TargetBehind
<1>6. CASE TargetReached
  <2>1. round = latestFile.version /\ AllIndexed
    BY <1>6 DEF TargetReached, Session, UnindexedOnlyThere
  <2>2. ProgressRecorded'
    BY <1>6, <1>0, <2>1 DEF TargetReached, ProgressRecorded
  <2> QED
    BY <1>6, <2>1, <2>2, HaltedConsistent DEF TargetReached
<1>7. CASE SnapshotRound
  <2>1. OnDisk' /\ (AllIndexed => AllIndexed')
    BY <1>7, PublicationsKept DEF SnapshotRound, TypeOK
  <2>2. InMemory'
    BY <1>7, <2>1 DEF SnapshotRound, Session, UnindexedOnlyThere, Memo, MemoDrawn,
       Loaded, Saved, FromLatest
  <2> QED
    BY <2>1, <2>2
<1>8. CASE LoadRuntime
  <2>1. OnDisk' /\ (AllIndexed => AllIndexed')
    BY <1>8, PublicationsKept DEF LoadRuntime, TypeOK
  <2>2. Session' /\ UnindexedOnlyThere' /\ Memo' /\ MemoDrawn' /\ Saved'
    BY <1>8, <2>1 DEF LoadRuntime, Session, UnindexedOnlyThere, Memo, MemoDrawn, Saved
  <2>3. latest = latestFile /\ latest.version = round
    BY <1>8 DEF LoadRuntime, Session
  <2>4. Valid(latest) => FromLatest'
    <3>1. CASE latest.version = 0
      <4>1. latest = NoPublication
        BY <2>3, <3>1 DEF Indexed
      <4> QED
        BY <1>8, <2>3, <3>1, <4>1 DEF LoadRuntime, FromLatest, NoPublication
    <3>2. CASE latest.version > 0
      BY <1>8, <2>3, <3>2 DEF LoadRuntime, FromLatest, Valid
    <3> QED
      BY <1>0, <2>3, <3>1, <3>2
  <2>5. Loaded'
    BY <1>8, <2>3, <2>4 DEF LoadRuntime, Loaded, Valid
  <2> QED
    BY <2>1, <2>2, <2>5
<1>9. CASE RefuseSnapshot
  BY <1>9, HaltedConsistent DEF RefuseSnapshot
<1>10. CASE ArchiveIncomplete
  <2>1. EmptyManifest("absent") \in Manifests
           /\ EmptyManifest("absent").status # "published"
    BY RecordsTyped DEF EmptyManifest, RoundStatus
  <2>2. round \in Rounds /\ round = latestFile.version
    BY <1>10, <1>0 DEF ArchiveIncomplete, Session
  <2>3. OnDisk' /\ AllIndexed'
    BY <1>10, <2>1, <2>2, RoundRewritten DEF ArchiveIncomplete
  <2>4. Session' /\ UnindexedOnlyThere' /\ Memo' /\ MemoDrawn' /\ Saved'
    BY <1>10, <2>2, <2>3 DEF ArchiveIncomplete, Session, UnindexedOnlyThere, Memo,
       MemoDrawn, Loaded, Saved
  <2>5. Valid(latest)' => Valid(latest)
    <3>1. latest.version = round
      BY <1>10, <2>2 DEF ArchiveIncomplete, Session
    <3>2. round > 0 => round - 1 \in Rounds /\ round - 1 # round
      BY <1>0, <2>2 DEF Rounds
    <3> QED
      BY <1>10, <3>1, <3>2 DEF ArchiveIncomplete, Valid, TypeOK
  <2>6. Loaded'
    BY <1>10, <2>5 DEF ArchiveIncomplete, Loaded, FromLatest
  <2> QED
    BY <2>3, <2>4, <2>6
<1>11. CASE MakeRoundDirs
  <2>1. EmptyManifest("bare") \in Manifests /\ EmptyManifest("bare").status # "published"
    BY RecordsTyped DEF EmptyManifest, RoundStatus
  <2>2. round \in Rounds /\ round = latestFile.version
    BY <1>11, <1>0 DEF MakeRoundDirs, Session
  <2>3. OnDisk' /\ AllIndexed'
    BY <1>11, <2>1, <2>2, RoundRewritten DEF MakeRoundDirs
  <2>4. InMemory'
    BY <1>11, <2>2, <2>3 DEF MakeRoundDirs, Session, UnindexedOnlyThere, Memo, MemoDrawn,
       Loaded, Saved, FromLatest, Valid
  <2> QED
    BY <2>3, <2>4
<1>12. CASE WriteCollecting
  <2>1. memo' \in Manifests /\ memo'.status # "published"
    BY <1>12, TypeOK' DEF WriteCollecting, WriteManifest, TypeOK, EmptyManifest
  <2>2. round \in Rounds /\ round = latestFile.version
    BY <1>12, <1>0 DEF WriteCollecting, Session
  <2>3. OnDisk' /\ AllIndexed'
    BY <1>12, <2>1, <2>2, RoundRewritten DEF WriteCollecting, WriteManifest
  <2>4. Session' /\ UnindexedOnlyThere' /\ MemoDrawn' /\ Loaded' /\ Saved'
    BY <1>12, <2>2, <2>3 DEF WriteCollecting, SnapshotOK, Session, UnindexedOnlyThere,
       Memo, MemoDrawn, Loaded, Saved, FromLatest
  <2>5. memo'.before = latest.version /\ memo'.checkpoint = latest.adapter
    BY <1>12 DEF WriteCollecting, WriteManifest, EmptyManifest
  <2>6. Memo'
    BY <1>12, <2>1, <2>2, <2>5 DEF WriteCollecting, Session, Memo
  <2> QED
    BY <2>3, <2>4, <2>6
<1>13. CASE Freeze
  <2>1. memo' \in Manifests /\ memo'.status # "published"
    BY <1>13 DEF Freeze, WriteManifest, TypeOK, Manifests
  <2>2. round \in Rounds /\ round = latestFile.version
    BY <1>13, <1>0 DEF Freeze, Session
  <2>3. OnDisk' /\ AllIndexed'
    BY <1>13, <2>1, <2>2, RoundRewritten DEF Freeze, WriteManifest
  <2>4. InMemory'
    BY <1>13, <2>2, <2>3 DEF Freeze, WriteManifest, Session, UnindexedOnlyThere, Memo,
       MemoDrawn, Loaded, Saved, FromLatest
  <2> QED
    BY <2>3, <2>4
<1>14. CASE CompileBatch
  <2>1. memo' = [memo EXCEPT !.batch = nextBatch] /\ nextBatch \in Batches
    BY <1>14 DEF CompileBatch
  <2>2. /\ memo'.batch = nextBatch /\ memo'.status = memo.status
        /\ memo'.before = memo.before /\ memo'.checkpoint = memo.checkpoint
    BY <2>1 DEF TypeOK, Manifests
  <2>3. nextBatch \in Nat /\ nextBatch' = nextBatch + 1
    BY <1>14 DEF CompileBatch, TypeOK
  <2>4. OnDisk' /\ (AllIndexed => AllIndexed')
    BY <1>14, <2>3, PublicationsKept DEF CompileBatch
  <2>5. Session' /\ UnindexedOnlyThere' /\ Saved' /\ Loaded'
    BY <1>14, <2>4 DEF CompileBatch, Session, UnindexedOnlyThere, Saved, Loaded,
       FromLatest
  <2>6. Memo'
    BY <1>14, <2>1, <2>2 DEF CompileBatch, Memo
  <2>7. MemoDrawn'
    <3>1. latest = latestFile
      BY <1>14 DEF CompileBatch, Session
    <3>2. \A i \in DOMAIN latest.adapter : latest.adapter[i] # nextBatch
      BY <2>3, <3>1 DEF DiskDrawn, Drawn
    <3> QED
      BY <1>14, <2>2, <2>3, <3>2 DEF CompileBatch, MemoDrawn
  <2> QED
    BY <2>4, <2>5, <2>6, <2>7
<1>15. CASE RecordBatch
  <2>1. memo \in Manifests /\ memo.status # "published"
    BY <1>15 DEF RecordBatch, TypeOK, Memo
  <2>2. round \in Rounds /\ round = latestFile.version
    BY <1>15, <1>0 DEF RecordBatch, Session
  <2>3. OnDisk' /\ AllIndexed'
    BY <1>15, <2>1, <2>2, RoundRewritten DEF RecordBatch, WriteManifest
  <2>4. InMemory'
    BY <1>15, <2>2, <2>3 DEF RecordBatch, WriteManifest, Session, UnindexedOnlyThere,
       Memo, MemoDrawn, Loaded, Saved, FromLatest
  <2> QED
    BY <2>3, <2>4
<1>16. CASE Admit
  <2>1. memo' \in Manifests /\ memo'.status # "published"
    BY <1>16 DEF Admit, WriteManifest, TypeOK, Manifests
  <2>2. round \in Rounds /\ round = latestFile.version
    BY <1>16, <1>0 DEF Admit, Session
  <2>3. OnDisk' /\ AllIndexed'
    BY <1>16, <2>1, <2>2, RoundRewritten DEF Admit, WriteManifest
  <2>4. InMemory'
    BY <1>16, <2>2, <2>3 DEF Admit, WriteManifest, Session, UnindexedOnlyThere, Memo,
       MemoDrawn, Loaded, Saved, FromLatest
  <2> QED
    BY <2>3, <2>4
<1>17. CASE OptimizerStep
  <2>1. OnDisk' /\ (AllIndexed => AllIndexed')
    BY <1>17, PublicationsKept DEF OptimizerStep, TypeOK
  <2>2. InMemory'
    BY <1>17, <2>1 DEF OptimizerStep, Session, UnindexedOnlyThere, Memo, MemoDrawn,
       Loaded, Saved, FromLatest
  <2> QED
    BY <2>1, <2>2
<1>18. CASE SaveAdapter
  <2>1. OnDisk' /\ (AllIndexed => AllIndexed')
    BY <1>18, PublicationsKept DEF SaveAdapter, TypeOK
  <2>2. Session' /\ UnindexedOnlyThere' /\ Memo' /\ MemoDrawn' /\ Loaded'
    BY <1>18, <2>1 DEF SaveAdapter, Session, UnindexedOnlyThere, Memo, MemoDrawn, Loaded
  <2>3. Saved'
    BY <1>18, <1>0 DEF SaveAdapter, Saved, TypeOK, Artifacts
  <2> QED
    BY <2>1, <2>2, <2>3
<1>19. CASE SaveOptimizer
  <2>1. OnDisk' /\ (AllIndexed => AllIndexed')
    BY <1>19, PublicationsKept DEF SaveOptimizer, TypeOK
  <2>2. Session' /\ UnindexedOnlyThere' /\ Memo' /\ MemoDrawn' /\ Loaded'
    BY <1>19, <2>1 DEF SaveOptimizer, Session, UnindexedOnlyThere, Memo, MemoDrawn, Loaded
  <2>3. Saved'
    BY <1>19, <1>0 DEF SaveOptimizer, Saved, TypeOK, Artifacts
  <2> QED
    BY <2>1, <2>2, <2>3
<1>20. CASE PublishManifest
  <2> DEFINE m == memo'
  <2>1. /\ round \in Rounds /\ round = latestFile.version /\ latest = latestFile
        /\ AllIndexed /\ version = round + 1
    BY <1>20, <1>0 DEF PublishManifest, Session, UnindexedOnlyThere
  <2>2. /\ m.status = "published" /\ m.before = round /\ m.checkpoint = latestFile.adapter
        /\ m.batch = memo.batch /\ m.after = round + 1
        /\ m.adapter = Append(latestFile.adapter, memo.batch)
        /\ m.optimizer = Append(latestFile.optimizer, memo.batch)
    BY <1>20, <2>1 DEF PublishManifest, WriteManifest, Memo, Loaded, Saved, TypeOK,
       Manifests
  <2>3. manifest' = [manifest EXCEPT ![round] = m]
           /\ UNCHANGED << latestFile, nextBatch, runFile >>
    BY <1>20 DEF PublishManifest, WriteManifest
  <2>4. /\ manifest'[round] = m
        /\ \A r \in Rounds : r # round => manifest'[r] = manifest[r]
    BY <2>1, <2>3 DEF TypeOK
  <2>5. \A r \in Rounds : r # round /\ manifest[r].status = "published" => r < round
    BY <2>1 DEF AllIndexed
  <2>6. Indexed'
    <3>1. latestFile.version > 0 => latestFile.version - 1 \in Rounds
             /\ latestFile.version - 1 # round
      BY <1>0, <2>1 DEF Rounds
    <3> QED
      BY <1>0, <2>1, <2>2, <2>3, <2>4, <2>5, <3>1 DEF Indexed
  <2>7. /\ latestFile.optimizer = latestFile.adapter
        /\ latestFile.adapter = IF round = 0 THEN << >> ELSE manifest[round - 1].adapter
    <3>1. CASE round = 0
      BY <2>1, <3>1 DEF Indexed, NoPublication
    <3>2. CASE round # 0
      <4>1. round - 1 \in Rounds /\ latestFile.version > 0
        BY <1>0, <2>1, <3>2 DEF Rounds
      <4> QED
        BY <2>1, <3>2, <4>1 DEF Indexed, PublicationOf, OneStepPerRound
    <3> QED
      BY <3>1, <3>2
  <2>8. OneStepPerRound'
    <3>1. \A r \in Rounds : r # round /\ manifest'[r].status = "published" =>
            manifest'[r] = manifest[r] /\ (r = 0 \/ manifest'[r - 1] = manifest[r - 1])
      <4>1. \A r \in Rounds : r < round /\ r # 0 => r - 1 \in Rounds /\ r - 1 # round
        BY <1>0 DEF Rounds
      <4> QED
        BY <2>4, <2>5, <4>1
    <3>2. /\ manifest'[round].before = round /\ manifest'[round].after = round + 1
          /\ manifest'[round].checkpoint =
                 IF round = 0 THEN << >> ELSE manifest'[round - 1].adapter
          /\ manifest'[round].adapter =
                 Append(manifest'[round].checkpoint, manifest'[round].batch)
          /\ manifest'[round].optimizer = manifest'[round].adapter
      <4>1. round # 0 => round - 1 \in Rounds /\ round - 1 # round
        BY <1>0, <2>1 DEF Rounds
      <4> QED
        BY <2>2, <2>4, <2>7, <4>1
    <3>3. SUFFICES ASSUME NEW r \in Rounds, manifest'[r].status = "published"
                 PROVE  /\ manifest'[r].before = r /\ manifest'[r].after = r + 1
                        /\ manifest'[r].checkpoint =
                               IF r = 0 THEN << >> ELSE manifest'[r - 1].adapter
                        /\ manifest'[r].adapter =
                               Append(manifest'[r].checkpoint, manifest'[r].batch)
                        /\ manifest'[r].optimizer = manifest'[r].adapter
      BY DEF OneStepPerRound
    <3>4. CASE r = round
      BY <3>2, <3>4
    <3>5. CASE r # round
      <4>1. manifest'[r] = manifest[r] /\ (r = 0 \/ manifest'[r - 1] = manifest[r - 1])
        BY <3>1, <3>3, <3>5
      <4> QED
        BY <3>3, <4>1 DEF OneStepPerRound
    <3> QED
      BY <3>4, <3>5
  <2>9. Drawn(m.adapter) /\ Drawn(m.optimizer)
    <3>1. memo.batch \in Batches /\ memo.batch < nextBatch
      BY <1>20 DEF PublishManifest, Memo, MemoDrawn
    <3>2. Drawn(latestFile.adapter) /\ Drawn(latestFile.optimizer)
      BY DEF DiskDrawn
    <3>3. latestFile.adapter \in Weights /\ latestFile.optimizer \in Weights
      BY DEF TypeOK, Publications
    <3> QED
      BY <2>2, <3>1, <3>2, <3>3, DrawnAppend
  <2>10. DiskDrawn'
    <3>1. \A i \in DOMAIN m.checkpoint : m.checkpoint[i] # m.batch
      BY <1>20, <2>1, <2>2 DEF PublishManifest, MemoDrawn
    <3>2. m.batch \in Batches /\ m.batch < nextBatch
      BY <1>20, <2>2 DEF PublishManifest, Memo, MemoDrawn
    <3>3. \A w : Drawn(w)' = Drawn(w)
      BY <2>3 DEF Drawn
    <3> QED
      BY <2>3, <2>4, <2>9, <3>1, <3>2, <3>3 DEF DiskDrawn
  <2>11. ProgressRecorded'
    BY <2>3 DEF ProgressRecorded
  <2>12. InMemory'
    BY <1>20, <2>1, <2>2, <2>3, <2>4 DEF PublishManifest, WriteManifest, Session,
       UnindexedOnlyThere, Memo, MemoDrawn, Loaded, Saved
  <2> QED
    BY <2>6, <2>8, <2>10, <2>11, <2>12
<1>21. CASE IndexPublication
  <2>1. Unindexed /\ latest.version = latestFile.version
           /\ latestFile' = PublicationOf(manifest[latestFile.version])
    BY <1>21, <1>0 DEF IndexPublication, Unindexed, Session, Memo
  <2>2. latestFile'.version = latestFile.version + 1 /\ OnDisk' /\ AllIndexed'
           /\ runFile.status # "completed"
    BY <1>21, <2>1, PublicationAdded DEF IndexPublication
  <2>3. InMemory'
    BY <1>21, <1>0, <2>2 DEF IndexPublication, Session, UnindexedOnlyThere, Memo,
       MemoDrawn, Loaded, Saved
  <2> QED
    BY <2>2, <2>3
<1>22. CASE WriteFailedManifest
  <2>1. memo' \in Manifests /\ memo'.status # "published"
    BY <1>22 DEF WriteFailedManifest, WriteManifest, TypeOK, Manifests
  <2>2. round \in Rounds /\ round = latestFile.version
    BY <1>22, <1>0 DEF WriteFailedManifest, Session
  <2>3. OnDisk' /\ AllIndexed'
    BY <1>22, <2>1, <2>2, RoundRewritten DEF WriteFailedManifest, WriteManifest
  <2>4. InMemory'
    BY <1>22, <2>2, <2>3 DEF WriteFailedManifest, WriteManifest, Session,
       UnindexedOnlyThere, Memo, MemoDrawn, Loaded, Saved, FromLatest
  <2> QED
    BY <2>3, <2>4
<1>23. CASE WriteFailedRun
  <2>1. round = latestFile.version /\ latest = latestFile /\ AllIndexed /\ run = runFile
    BY <1>23 DEF WriteFailedRun, Session, UnindexedOnlyThere
  <2>2. runFile'.status = "failed" /\ runFile'.completed = runFile.completed
    BY <1>23, <2>1 DEF WriteFailedRun, TypeOK, RunManifests
  <2>3. ProgressRecorded'
    BY <1>23, <2>2 DEF WriteFailedRun, ProgressRecorded
  <2>4. CASE retryable /\ attempt + 1 < MaxAttempts
    <3>1. Indexed' /\ OneStepPerRound' /\ DiskDrawn' /\ AllIndexed'
      BY <1>23, <2>1, PublicationsKept DEF WriteFailedRun, TypeOK
    <3>2. Session' /\ UnindexedOnlyThere' /\ Memo' /\ MemoDrawn' /\ Saved'
      BY <1>23, <2>1, <2>2, <2>4, <3>1 DEF WriteFailedRun, Session, UnindexedOnlyThere,
         Memo, MemoDrawn, Saved
    <3>3. Loaded'
      BY <1>23, <2>4 DEF WriteFailedRun, Loaded, FromLatest
    <3> QED
      BY <2>3, <3>1, <3>2, <3>3
  <2>5. CASE ~(retryable /\ attempt + 1 < MaxAttempts)
    BY <1>23, <2>1, <2>3, <2>5, HaltedConsistent DEF WriteFailedRun
  <2> QED
    BY <2>4, <2>5
<1>24. CASE RecordProgress
  <2>1. latestFile.version = round + 1 /\ AllIndexed
    BY <1>24 DEF RecordProgress, Session, UnindexedOnlyThere
  <2>2. runFile'.completed = round + 1
    BY <1>24 DEF RecordProgress
  <2>3. ProgressRecorded'
    BY <1>24, <1>0, <2>1, <2>2 DEF RecordProgress, ProgressRecorded
  <2>4. CASE round + 1 = target
    BY <1>24, <2>1, <2>3, <2>4, HaltedConsistent DEF RecordProgress
  <2>5. CASE round + 1 # target
    <3>1. Indexed' /\ OneStepPerRound' /\ DiskDrawn' /\ AllIndexed'
      BY <1>24, <2>1, PublicationsKept DEF RecordProgress, TypeOK
    <3>2. runFile'.status = "running"
      BY <1>24, <2>5 DEF RecordProgress
    <3>3. InMemory'
      BY <1>24, <2>1, <2>5, <3>1, <3>2 DEF RecordProgress, Session, UnindexedOnlyThere,
         Memo, MemoDrawn, Loaded, Saved
    <3> QED
      BY <2>3, <3>1, <3>3
  <2> QED
    BY <2>4, <2>5
<1>25. CASE RefuseReload
  BY <1>25, HaltedConsistent DEF RefuseReload
<1>26. CASE RejectRestart
  BY <1>26, HaltedConsistent DEF RejectRestart, Mishap
<1>27. CASE RejectBatch
  <2>1. OnDisk' /\ (AllIndexed => AllIndexed')
    BY <1>27, PublicationsKept DEF RejectBatch, TypeOK, Mishap
  <2>2. InMemory'
    BY <1>27, <2>1 DEF RejectBatch, Session, UnindexedOnlyThere, Memo, MemoDrawn, Loaded,
       Saved, Mishap, FromLatest
  <2> QED
    BY <2>1, <2>2
<1>28. CASE RaiseInRound
  <2>1. OnDisk' /\ (AllIndexed => AllIndexed')
    BY <1>28, PublicationsKept DEF RaiseInRound, TypeOK, Mishap
  <2>2. InMemory'
    BY <1>28, <2>1 DEF RaiseInRound, Session, UnindexedOnlyThere, Memo, MemoDrawn,
       Loaded, Saved, Mishap, FromLatest
  <2> QED
    BY <2>1, <2>2
<1>29. CASE Crash
  BY <1>29, HaltedConsistent DEF Crash, Mishap
<1>30. CASE \E r \in Rounds, kind \in Damageable : Damage(r, kind)
  <2>1. PICK r \in Rounds, kind \in Damageable : Damage(r, kind)
    BY <1>30
  <2>2. UNCHANGED << latestFile, runFile, manifest, pc, target, latest, run, round,
                     attempt, memo, weights, moments, version, retryable, nextBatch >>
    BY <2>1 DEF Damage, Mishap
  <2>3. OnDisk' /\ (AllIndexed => AllIndexed')
    BY <2>2, PublicationsKept DEF TypeOK
  <2>4. Session' /\ UnindexedOnlyThere' /\ Memo' /\ MemoDrawn'
    BY <2>2, <2>3 DEF Session, UnindexedOnlyThere, Memo, MemoDrawn
  <2>5. \A q \in Rounds : /\ files'[q].adapter \in {files[q].adapter, Damaged}
                          /\ files'[q].optimizer \in {files[q].optimizer, Damaged}
    BY <2>1 DEF Damage, TypeOK, Artifacts
  <2>6. \A q \in Rounds : q # r => files'[q] = files[q]
    BY <2>1 DEF Damage, TypeOK
  <2>7. Saved'
    <3>1. pc \in {"adapterSaved", "saved"} => round # r /\ round \in Rounds
      BY <1>0, <2>1 DEF Damage, Session, UnindexedOnlyThere, AllIndexed
    <3> QED
      BY <2>2, <2>6, <3>1 DEF Saved
  <2>8. Loaded'
    <3>1. pc \in BeforeTry /\ Valid(latest)' => Valid(latest)
      <4>1. SUFFICES ASSUME pc \in BeforeTry, Valid(latest)', latest.version > 0
                     PROVE  Valid(latest)
        BY DEF Valid
      <4>2. latest = latestFile /\ latest.version - 1 \in Rounds
        BY <1>0, <4>1 DEF Session, TypeOK, Publications, Rounds
      <4>3. latest.adapter # Damaged /\ latest.optimizer # Damaged
        BY <4>2, NotDamaged DEF DiskDrawn
      <4> QED
        BY <2>2, <2>5, <4>1, <4>2, <4>3 DEF Valid
    <3> QED
      BY <2>2, <3>1 DEF Loaded, FromLatest
  <2> QED
    BY <2>3, <2>4, <2>7, <2>8
<1>31. CASE UNCHANGED vars
  <2>1. OnDisk' /\ (AllIndexed => AllIndexed')
    BY <1>31, PublicationsKept DEF vars, TypeOK
  <2>2. InMemory'
    BY <1>31, <2>1 DEF vars, Session, UnindexedOnlyThere, Memo, MemoDrawn, Loaded, Saved,
       FromLatest, Valid
  <2> QED
    BY <2>1, <2>2
<1> QED
  BY <1>1, <1>2, <1>3, <1>4, <1>5, <1>6, <1>7, <1>8, <1>9, <1>10, <1>11, <1>12, <1>13,
     <1>14, <1>15, <1>16, <1>17, <1>18, <1>19, <1>20, <1>21, <1>22, <1>23, <1>24, <1>25,
     <1>26, <1>27, <1>28, <1>29, <1>30, <1>31 DEF Next, Step, Fault

-----------------------------------------------------------------------------
(* Theorems *)

\* The runs of flywheel.py and the files they leave are well-formed: no round
\* beyond the targets is counted, published or indexed.
THEOREM TypeCorrect == Spec => []TypeOK
PROOF
<1>1. TypeOK /\ Bounds => TypeOK
  OBVIOUS
<1> QED
  BY Typing, <1>1, PTL DEF Spec

\* The inductive invariant: types, bounds, and the files and the process agree.
THEOREM Consistency == Spec => []IInv
PROOF
<1>1. Init => IInv
  BY Typing, ConsistentStart DEF IInv
<1>2. IInv /\ [Next]_vars => IInv'
  BY Typing, ConsistentStep DEF IInv
<1> QED
  BY <1>1, <1>2, PTL DEF Spec

\* latest.json names only rounds whose files, checksums and manifest are all
\* there, the adapter and the optimizer state saved after the same batches.
THEOREM IndexedIsComplete == Spec => []IndexedComplete
PROOF
<1>1. IInv => IndexedComplete
  <2> SUFFICES ASSUME IInv, latestFile.version > 0 PROVE IndexedComplete
    BY DEF IndexedComplete
  <2>1. latestFile.version - 1 \in Rounds
    BY FlywheelAssumption DEF IInv, TypeOK, Publications, Rounds
  <2> QED
    BY <2>1 DEF IInv, Consistent, Indexed, OneStepPerRound, IndexedComplete
<1> QED
  BY <1>1, Consistency, PTL

\* Every published round is one optimizer step from the round before it.
THEOREM PublishedByOneStep == Spec => []OneStepPerRound
PROOF
<1>1. IInv => OneStepPerRound
  BY DEF IInv, Consistent
<1> QED
  BY <1>1, Consistency, PTL

\* What is about to be published was trained from the newest publication.
THEOREM TrainsFromPublication == Spec => []TrainedFromPublication
PROOF
<1>1. IInv => TrainedFromPublication
  BY DEF IInv, Consistent, Session, Loaded, TrainedFromPublication, InRound, InTry
<1> QED
  BY <1>1, Consistency, PTL

\* run_manifest.json never counts a round that is not published.
THEOREM ProgressIsRecorded == Spec => []ProgressRecorded
PROOF
<1>1. IInv => ProgressRecorded
  BY DEF IInv, Consistent
<1> QED
  BY <1>1, Consistency, PTL

\* The manifest of the round after latest.json starts from what it names.
LEMMA NextCheckpoint ==
  ASSUME IInv, latestFile.version \in Rounds,
         manifest[latestFile.version].status = "published"
  PROVE  manifest[latestFile.version].checkpoint = latestFile.adapter
PROOF
<1> USE DEF IInv, Consistent
<1>1. latestFile.version \in Nat
  BY FlywheelAssumption DEF Rounds
<1>2. CASE latestFile.version = 0
  BY <1>2 DEF Indexed, OneStepPerRound, NoPublication
<1>3. CASE latestFile.version > 0
  BY <1>1, <1>3 DEF Indexed, OneStepPerRound, PublicationOf
<1> QED
  BY <1>1, <1>2, <1>3

\* Recovery refuses an unindexed publication only when a file of it is damaged.
THEOREM RefusesOnlyDamage == Spec => []RefusalMeansDamage
PROOF
<1>1. IInv => RefusalMeansDamage
  <2> SUFFICES ASSUME IInv, pc = "recover", Unindexed PROVE RefusalMeansDamage
    BY DEF RefusalMeansDamage
  <2>1. /\ latest = latestFile /\ latestFile.version \in Rounds
        /\ manifest[latestFile.version].status = "published"
    BY DEF IInv, Consistent, Session, Unindexed
  <2>2. /\ manifest[latest.version].before = latest.version
        /\ manifest[latest.version].after = latest.version + 1
    BY <2>1 DEF IInv, Consistent, OneStepPerRound
  <2>3. manifest[latest.version].checkpoint = latest.adapter
    BY <2>1, NextCheckpoint
  <2> QED
    BY <2>2, <2>3 DEF Recoverable, RefusalMeansDamage
<1> QED
  BY <1>1, Consistency, PTL

\* A step leaves the publications and the manifests alone, or rewrites the
\* manifest of the round after them, or adds that round to latest.json.
LEMMA PublicationSteps ==
  ASSUME IInv, [Next]_vars
  PROVE  \/ UNCHANGED << latestFile, manifest >>
         \/ /\ UNCHANGED latestFile
            /\ round = latestFile.version
            /\ \A r \in Rounds : r # round => manifest'[r] = manifest[r]
         \/ /\ UNCHANGED manifest
            /\ latestFile.version \in Rounds
            /\ manifest[latestFile.version].status = "published"
            /\ latestFile' = PublicationOf(manifest[latestFile.version])
PROOF
<1> USE DEF IInv, Consistent, disk
<1>1. CASE \/ \E t \in Targets : Begin(t)
           \/ RefuseRecovery \/ OpenRun \/ TargetBehind \/ TargetReached \/ SnapshotRound
           \/ LoadRuntime \/ RefuseSnapshot \/ CompileBatch \/ OptimizerStep
           \/ SaveAdapter \/ SaveOptimizer \/ WriteFailedRun \/ RecordProgress
           \/ RefuseReload
  BY <1>1 DEF Begin, RefuseRecovery, OpenRun, TargetBehind, TargetReached, SnapshotRound,
     LoadRuntime, RefuseSnapshot, CompileBatch, OptimizerStep, SaveAdapter, SaveOptimizer,
     WriteFailedRun, RecordProgress, RefuseReload
<1>2. CASE Fault \/ UNCHANGED vars
  BY <1>2 DEF Fault, RejectRestart, RejectBatch, RaiseInRound, Crash, Damage, vars
<1>3. CASE ArchiveIncomplete \/ MakeRoundDirs
  BY <1>3 DEF ArchiveIncomplete, MakeRoundDirs, Session, InRound, BeforeTry, TypeOK
<1>4. CASE \/ WriteCollecting \/ Freeze \/ RecordBatch \/ Admit \/ PublishManifest
           \/ WriteFailedManifest
  <2>1. round = latestFile.version /\ UNCHANGED latestFile
    BY <1>4 DEF WriteCollecting, Freeze, RecordBatch, Admit, PublishManifest,
       WriteFailedManifest, Session, InRound, BeforeTry, InTry, Excepting
  <2>2. \E m : manifest' = [manifest EXCEPT ![round] = m]
    BY <1>4 DEF WriteCollecting, Freeze, RecordBatch, Admit, PublishManifest,
       WriteFailedManifest, WriteManifest
  <2> QED
    BY <2>1, <2>2 DEF TypeOK
<1>5. CASE RecoverPublication
  BY <1>5 DEF RecoverPublication, Session, Unindexed
<1>6. CASE IndexPublication
  <2>1. latestFile.version = round /\ round \in Rounds
    BY <1>6, FlywheelAssumption DEF IndexPublication, Session, Bounds, InRound, InTry,
       TypeOK, Rounds
  <2>2. latest = latestFile
    BY <1>6 DEF IndexPublication, Session, InRound, InTry
  <2> QED
    BY <1>6, <2>1, <2>2 DEF IndexPublication, Memo, InTry
<1> QED
  BY <1>1, <1>2, <1>3, <1>4, <1>5, <1>6 DEF Next, Step

\* A step never rewrites what latest.json names, nor makes it name less.
LEMMA KeptStep ==
  ASSUME IInv, [Next]_vars
  PROVE  /\ latestFile.version <= latestFile'.version
         /\ \A r \in Rounds : r < latestFile.version => manifest'[r] = manifest[r]
PROOF
<1>1. latestFile.version \in Nat /\ \A r \in Rounds : r \in Nat
  BY FlywheelAssumption DEF IInv, TypeOK, Publications, Rounds
<1>2. CASE UNCHANGED << latestFile, manifest >>
  BY <1>1, <1>2
<1>3. CASE /\ UNCHANGED latestFile /\ round = latestFile.version
           /\ \A r \in Rounds : r # round => manifest'[r] = manifest[r]
  BY <1>1, <1>3
<1>4. CASE /\ UNCHANGED manifest
           /\ latestFile.version \in Rounds
           /\ manifest[latestFile.version].status = "published"
           /\ latestFile' = PublicationOf(manifest[latestFile.version])
  <2>1. latestFile'.version = latestFile.version + 1
    BY <1>4 DEF IInv, Consistent, OneStepPerRound, PublicationOf
  <2> QED
    BY <1>1, <1>4, <2>1
<1> QED
  BY <1>2, <1>3, <1>4, PublicationSteps

\* What latest.json names is never rewritten, and latest.json never goes back.
THEOREM IndexedIsKept == Spec => IndexedRoundsKept
PROOF
<1>1. IInv /\ [Next]_vars =>
        /\ latestFile.version <= latestFile'.version
        /\ \A r \in Rounds : r < latestFile.version => manifest'[r] = manifest[r]
  BY KeptStep
<1> QED
  BY <1>1, Consistency, PTL DEF Spec, IndexedRoundsKept

\* latest.json implements PolicyChain, for every instance of the constants.
THEOREM ImplementsChain == Spec => ChainSpec
PROOF
<1>1. Init => Chain!Init
  BY DEF Init, Chain!Init, NoPublication
<1>2. IInv /\ [Next]_vars => [Chain!Next]_(latestFile.adapter)
  <2> SUFFICES ASSUME IInv, [Next]_vars, latestFile'.adapter # latestFile.adapter
               PROVE  Chain!Next
    OBVIOUS
  <2> DEFINE m == manifest[latestFile.version]
  <2>1. latestFile.version \in Rounds /\ m.status = "published"
           /\ latestFile' = PublicationOf(m)
    BY PublicationSteps
  <2>2. m.checkpoint = latestFile.adapter
    BY <2>1, NextCheckpoint
  <2>3. latestFile'.adapter = Append(latestFile.adapter, m.batch)
    BY <2>1, <2>2 DEF IInv, Consistent, OneStepPerRound, PublicationOf
  <2>4. m.batch \in Batches
           /\ \A i \in DOMAIN latestFile.adapter : latestFile.adapter[i] # m.batch
    BY <2>1, <2>2 DEF IInv, Consistent, DiskDrawn
  <2> QED
    BY <2>3, <2>4 DEF Chain!Next, Chain!Publish
<1> QED
  BY <1>1, <1>2, Consistency, PTL DEF Spec, ChainSpec, Chain!Spec

-----------------------------------------------------------------------------
(* What the drivers around the flywheel rely on *)

\* A running process only ever raises completed_rounds, and publishes nothing
\* beyond its target; only its end lets the count reach the target.
LEMMA ProgressSteps ==
  ASSUME IInv, [Next]_vars, pc # "down"
  PROVE  /\ runFile.completed <= runFile'.completed
         /\ pc' # "down" =>
              /\ target' = target
              /\ runFile'.completed = runFile.completed \/ runFile'.completed < target
         /\ \A r \in Rounds : manifest'[r].status = "published" =>
              manifest[r].status = "published" \/ r < target
PROOF
<1> USE DEF IInv, Consistent, disk, session, runtime, world
<1>0. /\ runFile.completed \in Nat /\ latestFile.version \in Nat /\ round \in Nat
      /\ runFile.completed <= latestFile.version
  BY FlywheelAssumption DEF TypeOK, RunManifests, Publications, ProgressRecorded
<1>1. CASE UNCHANGED << runFile, manifest >> /\ (pc' = "down" \/ UNCHANGED target)
  BY <1>0, <1>1
<1>2. CASE \/ RecoverPublication \/ RefuseRecovery \/ TargetBehind \/ SnapshotRound
           \/ LoadRuntime \/ RefuseSnapshot \/ CompileBatch \/ OptimizerStep
           \/ SaveAdapter \/ SaveOptimizer \/ IndexPublication \/ RefuseReload
           \/ Fault \/ UNCHANGED vars
  BY <1>1, <1>2 DEF RecoverPublication, RefuseRecovery, TargetBehind, SnapshotRound,
     LoadRuntime, RefuseSnapshot, CompileBatch, OptimizerStep, SaveAdapter, SaveOptimizer,
     IndexPublication, RefuseReload, Fault, RejectRestart, RejectBatch, RaiseInRound, Crash,
     Damage, Halt, vars
<1>3. CASE ArchiveIncomplete \/ MakeRoundDirs
  <2>1. /\ UNCHANGED << runFile, target >>
        /\ \A r \in Rounds : manifest'[r].status = "published" => manifest[r].status = "published"
    BY <1>3 DEF ArchiveIncomplete, MakeRoundDirs, EmptyManifest, TypeOK
  <2> QED
    BY <1>0, <2>1
<1>4. CASE \/ WriteCollecting \/ Freeze \/ RecordBatch \/ Admit \/ PublishManifest
           \/ WriteFailedManifest
  <2>1. /\ UNCHANGED << runFile, target >>
        /\ \E m : manifest' = [manifest EXCEPT ![round] = m]
    BY <1>4 DEF WriteCollecting, Freeze, RecordBatch, Admit, PublishManifest,
       WriteFailedManifest, WriteManifest
  <2>2. round < target
    BY <1>4 DEF WriteCollecting, Freeze, RecordBatch, Admit, PublishManifest,
       WriteFailedManifest, Bounds, InRound, BeforeTry, InTry, Excepting
  <2>3. \A r \in Rounds : r # round => manifest'[r] = manifest[r]
    BY <2>1 DEF TypeOK
  <2> QED
    BY <1>0, <2>1, <2>2, <2>3
<1>5. CASE OpenRun \/ WriteFailedRun
  <2>1. runFile'.completed = runFile.completed /\ UNCHANGED manifest
    BY <1>5 DEF OpenRun, WriteFailedRun, Session, InRound, Excepting, TypeOK, RunManifests
  <2>2. pc' = "down" \/ UNCHANGED target
    BY <1>5 DEF OpenRun, WriteFailedRun, Halt
  <2> QED
    BY <1>0, <2>1, <2>2
<1>6. CASE TargetReached
  <2>1. runFile'.completed = round /\ UNCHANGED manifest /\ pc' = "down"
    BY <1>6 DEF TargetReached, Halt
  <2>2. round = latestFile.version
    BY <1>6 DEF TargetReached, Session
  <2> QED
    BY <1>0, <2>1, <2>2
<1>7. CASE RecordProgress
  <2>1. runFile'.completed = round + 1 /\ UNCHANGED manifest
    BY <1>7 DEF RecordProgress
  <2>2. latestFile.version = round + 1 /\ round < target
    BY <1>7 DEF RecordProgress, Session, Bounds, InRound
  <2>3. pc' = "down" \/ (UNCHANGED target /\ round + 1 # target)
    BY <1>7 DEF RecordProgress, Halt
  <2>4. target \in Nat
    BY FlywheelAssumption DEF TypeOK
  <2> QED
    BY <1>0, <2>1, <2>2, <2>3, <2>4
<1>8. CASE \E t \in Targets : Begin(t)
  BY <1>8 DEF Begin
<1> QED
  BY <1>2, <1>3, <1>4, <1>5, <1>6, <1>7, <1>8 DEF Next, Step

\* The adapter of a published round has one batch for each round up to it.
StepsCounted ==
  \A r \in Rounds : manifest[r].status = "published" => Len(manifest[r].adapter) = r + 1

\* Its file is the one the manifest has the checksum of.
AdaptersIntact ==
  \A r \in Rounds : manifest[r].status = "published" =>
    files[r].adapter = manifest[r].adapter

\* A step that publishes is PublishManifest, for the round after latest.json.
LEMMA NewlyPublished ==
  ASSUME IInv, [Next]_vars, NEW r \in Rounds, manifest'[r].status = "published"
  PROVE  \/ manifest[r].status = "published" /\ manifest'[r] = manifest[r]
         \/ /\ PublishManifest /\ r = round
            /\ manifest'[r].adapter = files[r].adapter
            /\ files[r].adapter = Append(latestFile.adapter, memo.batch)
PROOF
<1> USE DEF IInv, Consistent
<1>1. CASE manifest'[r] = manifest[r]
  BY <1>1
<1>2. CASE \/ \E t \in Targets : Begin(t)
           \/ RecoverPublication \/ RefuseRecovery \/ OpenRun \/ TargetBehind \/ TargetReached
           \/ SnapshotRound \/ LoadRuntime \/ RefuseSnapshot \/ CompileBatch \/ OptimizerStep
           \/ SaveAdapter \/ SaveOptimizer \/ IndexPublication \/ WriteFailedRun
           \/ RecordProgress \/ RefuseReload \/ Fault \/ UNCHANGED vars
  BY <1>1, <1>2 DEF Begin, RecoverPublication, RefuseRecovery, OpenRun, TargetBehind,
     TargetReached, SnapshotRound, LoadRuntime, RefuseSnapshot, CompileBatch, OptimizerStep,
     SaveAdapter, SaveOptimizer, IndexPublication, WriteFailedRun, RecordProgress,
     RefuseReload, Fault, RejectRestart, RejectBatch, RaiseInRound, Crash, Damage, vars, disk
<1>3. CASE ArchiveIncomplete \/ MakeRoundDirs
  BY <1>1, <1>3 DEF ArchiveIncomplete, MakeRoundDirs, EmptyManifest, TypeOK
<1>4. CASE WriteCollecting \/ Freeze \/ RecordBatch \/ Admit \/ WriteFailedManifest
  <2>1. \E m : manifest' = [manifest EXCEPT ![round] = m] /\ m.status # "published"
    <3>1. CASE WriteCollecting
      <4> DEFINE m == [EmptyManifest("collecting") EXCEPT !.before = latest.version,
                                                          !.checkpoint = latest.adapter]
      <4>1. m.status = "collecting"
        BY DEF EmptyManifest
      <4>2. manifest' = [manifest EXCEPT ![round] = m]
        BY <3>1 DEF WriteCollecting, WriteManifest
      <4> HIDE DEF m
      <4> QED
        BY <4>1, <4>2
    <3>2. CASE Freeze \/ Admit \/ WriteFailedManifest
      BY <3>2 DEF Freeze, Admit, WriteFailedManifest, WriteManifest, TypeOK, Manifests
    <3>3. CASE RecordBatch
      BY <3>3 DEF RecordBatch, WriteManifest, Memo, InTry
    <3> QED
      BY <1>4, <3>1, <3>2, <3>3
  <2> QED
    BY <1>1, <2>1 DEF TypeOK
<1>5. CASE PublishManifest
  <2>1. CASE r # round
    BY <1>1, <1>5, <2>1 DEF PublishManifest, WriteManifest, TypeOK
  <2>2. CASE r = round
    <3>1. manifest'[r].adapter = files[r].adapter
      BY <1>5, <2>2 DEF PublishManifest, WriteManifest, TypeOK, Manifests
    <3>2. files[r].adapter = weights /\ weights = Append(latest.adapter, memo.batch)
      BY <1>5, <2>2 DEF PublishManifest, Saved, Loaded
    <3>3. latest = latestFile
      BY <1>5 DEF PublishManifest, Session, InRound, InTry
    <3> QED
      BY <1>5, <2>2, <3>1, <3>2, <3>3
  <2> QED
    BY <2>1, <2>2
<1> QED
  BY <1>2, <1>3, <1>4, <1>5 DEF Next, Step

\* A step keeps the count of batches in the published adapters.
LEMMA CountedStep ==
  ASSUME IInv, StepsCounted, [Next]_vars
  PROVE  StepsCounted'
PROOF
<1> SUFFICES ASSUME NEW r \in Rounds,
                    manifest'[r].status = "published"
             PROVE  Len(manifest'[r].adapter) = r + 1
  BY DEF StepsCounted
<1>1. CASE manifest[r].status = "published" /\ manifest'[r] = manifest[r]
  BY <1>1 DEF StepsCounted
<1>2. CASE /\ PublishManifest /\ r = round
           /\ manifest'[r].adapter = files[r].adapter
           /\ files[r].adapter = Append(latestFile.adapter, memo.batch)
  <2>1. round = latestFile.version
    BY <1>2 DEF PublishManifest, IInv, Consistent, Session, InRound, InTry
  <2>2. latestFile.adapter \in Seq(Nat) /\ memo.batch \in Nat /\ r \in Nat
    BY FlywheelAssumption DEF IInv, TypeOK, Publications, Manifests, Weights, Rounds
  <2>3. Len(latestFile.adapter) = r
    <3>1. CASE r = 0
      BY <1>2, <2>1, <3>1 DEF IInv, Consistent, Indexed, NoPublication
    <3>2. CASE r > 0
      <4>1. r - 1 \in Rounds
        BY <3>2, FlywheelAssumption DEF Rounds
      <4>2. /\ manifest[r - 1].status = "published"
            /\ latestFile.adapter = manifest[r - 1].adapter
        BY <1>2, <2>1, <3>2 DEF IInv, Consistent, Indexed, PublicationOf
      <4> QED
        BY <2>2, <4>1, <4>2 DEF StepsCounted
    <3> QED
      BY <2>2, <3>1, <3>2
  <2> QED
    BY <1>2, <2>2, <2>3
<1> QED
  BY <1>1, <1>2, NewlyPublished

\* A policy is as many optimizer steps old as there are rounds up to it.
THEOREM OneBatchPerRound == Spec => []StepsCounted
PROOF
<1>1. Init => StepsCounted
  BY DEF Init, EmptyManifest, StepsCounted
<1>2. IInv /\ StepsCounted /\ [Next]_vars => StepsCounted'
  BY CountedStep
<1> QED
  BY <1>1, <1>2, Consistency, PTL DEF Spec

\* A step that damages no adapter leaves the published ones as they are.
LEMMA IntactStep ==
  ASSUME "adapter" \notin Damageable, IInv, AdaptersIntact, [Next]_vars
  PROVE  AdaptersIntact'
PROOF
<1> SUFFICES ASSUME NEW r \in Rounds,
                    manifest'[r].status = "published"
             PROVE  files'[r].adapter = manifest'[r].adapter
  BY DEF AdaptersIntact
<1>1. CASE manifest[r].status = "published" /\ manifest'[r] = manifest[r]
  <2>1. files'[r].adapter = files[r].adapter
    <3> USE DEF IInv, Consistent, TypeOK
    <3>1. CASE UNCHANGED files
      BY <3>1
    <3>2. CASE \E q \in Rounds, kind \in Damageable : Damage(q, kind)
      <4>1. PICK q \in Rounds, kind \in Damageable : Damage(q, kind)
        BY <3>2
      <4>2. kind \in {"optimizer", "batch"}
        BY <4>1, FlywheelAssumption
      <4> QED
        BY <4>1, <4>2 DEF Damage, Artifacts
    <3>3. CASE CompileBatch \/ SaveOptimizer
      BY <3>3 DEF CompileBatch, SaveOptimizer, Artifacts
    <3>4. CASE ArchiveIncomplete
      BY <1>1, <3>4 DEF ArchiveIncomplete
    <3>5. CASE SaveAdapter
      <4>1. /\ round \in Nat /\ round = latestFile.version
            /\ \A q \in Rounds : manifest[q].status = "published" => q < latestFile.version
        BY <3>5, FlywheelAssumption DEF SaveAdapter, Session, InRound, InTry,
           UnindexedOnlyThere, AllIndexed
      <4>2. r # round
        BY <1>1, <4>1 DEF Rounds
      <4> QED
        BY <3>5, <4>2 DEF SaveAdapter
    <3>6. CASE ~(\/ \E q \in Rounds, kind \in Damageable : Damage(q, kind)
                 \/ CompileBatch \/ SaveOptimizer \/ ArchiveIncomplete \/ SaveAdapter)
      <4>1. UNCHANGED files
        BY <3>6 DEF Next, Step, Fault, Begin, RecoverPublication, RefuseRecovery, OpenRun,
           TargetBehind, TargetReached, SnapshotRound, LoadRuntime, RefuseSnapshot,
           MakeRoundDirs, WriteCollecting, Freeze, RecordBatch, Admit, OptimizerStep,
           PublishManifest, IndexPublication, WriteFailedManifest, WriteFailedRun,
           RecordProgress, RefuseReload, RejectRestart, RejectBatch, RaiseInRound, Crash,
           vars, disk
      <4> QED
        BY <4>1
    <3> QED
      BY <3>2, <3>3, <3>4, <3>5, <3>6
  <2> QED
    BY <1>1, <2>1 DEF AdaptersIntact
<1>2. CASE /\ PublishManifest /\ r = round
           /\ manifest'[r].adapter = files[r].adapter
  BY <1>2 DEF PublishManifest
<1> QED
  BY <1>1, <1>2, NewlyPublished

\* When adapters are not damaged, a published adapter stays as it was trained.
THEOREM AdaptersStayIntact == "adapter" \notin Damageable => (Spec => []AdaptersIntact)
PROOF
<1> SUFFICES ASSUME "adapter" \notin Damageable PROVE Spec => []AdaptersIntact
  OBVIOUS
<1>1. Init => AdaptersIntact
  BY DEF Init, EmptyManifest, AdaptersIntact
<1>2. IInv /\ AdaptersIntact /\ [Next]_vars => AdaptersIntact'
  BY IntactStep
<1> QED
  BY <1>1, <1>2, Consistency, PTL DEF Spec

\* Something that goes wrong elsewhere is no concern of the flywheel.
LEMMA FaultElsewhere ==
  ASSUME IInv, faults' \in 0 .. MaxFaults,
         UNCHANGED << disk, pc, session, attempt, memo, runtime, retryable, nextBatch >>
  PROVE  IInv'
PROOF
<1> USE DEF IInv, disk, session, runtime
<1>1. TypeOK'
  BY DEF TypeOK
<1>2. Bounds'
  BY DEF Bounds
<1>3. (Session /\ Indexed /\ UnindexedOnlyThere /\ OneStepPerRound /\ ProgressRecorded)'
  BY DEF Consistent, Session, Indexed, UnindexedOnlyThere, AllIndexed, OneStepPerRound,
     ProgressRecorded
<1>4. (Memo /\ DiskDrawn /\ MemoDrawn)'
  BY DEF Consistent, Memo, DiskDrawn, MemoDrawn, Drawn
<1>5. (Loaded /\ Saved)'
  BY DEF Consistent, Loaded, FromLatest, Valid, Saved
<1> QED
  BY <1>1, <1>2, <1>3, <1>4, <1>5 DEF Consistent

=============================================================================
