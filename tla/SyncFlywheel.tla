---------------------------- MODULE SyncFlywheel ----------------------------
(***************************************************************************)
(* The synchronous RAO flywheel, recursive_agent_training/flywheel.py:     *)
(* one process that, round after round, collects rollouts with the newest  *)
(* policy, freezes and compiles them into one optimizer batch, takes one   *)
(* optimizer step and publishes the adapter and the optimizer state.       *)
(*                                                                         *)
(* The disk outlives the process, and every file write is one action, so a *)
(* crash falls between any two of them.  A weight file is abstracted to    *)
(* the sequence of batches it was trained on: the base model is << >>, and *)
(* two files have the same SHA-256 iff they are the same sequence.         *)
(***************************************************************************)
EXTENDS Naturals, Sequences

CONSTANTS
  MaxRounds,      \* rounds that exist in this instance
  Targets,        \* the --rounds values the flywheel is invoked with
  MaxAttempts,    \* sync_flywheel.max_collection_attempts
  Batches,        \* the optimizer batches that can be drawn
  Damageable,     \* the kinds of published file that may be damaged
  MaxFaults       \* bound on crashes, exceptions, rejected batches, damages

ASSUME FlywheelAssumption ==
  /\ MaxRounds \in Nat \ {0}
  /\ Targets \subseteq 1..MaxRounds
  /\ MaxAttempts \in Nat \ {0}
  /\ Batches \subseteq Nat \ {0}
  /\ Damageable \subseteq {"adapter", "optimizer", "batch"}
  /\ MaxFaults \in Nat

Rounds == 0 .. MaxRounds - 1

VARIABLES
  \* the disk
  latestFile,     \* latest.json
  runFile,        \* run_manifest.json
  manifest,       \* rounds/round_NNNN/round_manifest.json, by round
  files,          \* the adapter, optimizer and batch files of each round
  \* the process
  pc,             \* the write or await it is before; "down" when not running
  target,         \* target_rounds
  latest,         \* the publication it loaded
  run,            \* its copy of the run manifest
  round,          \* round_index
  attempt,        \* collection_attempt
  memo,           \* its copy of the round manifest
  weights,        \* the adapter in memory
  moments,        \* the optimizer state in memory
  version,        \* the optimizer's version counter
  retryable,      \* the exception being handled is a ZeroAdvantageBatchError
  \* the world
  nextBatch,      \* the next batch of rollouts; no two samplings are the same
  faults          \* how much has gone wrong so far

disk    == << latestFile, runFile, manifest, files >>
session == << target, latest, run, round >>
runtime == << weights, moments, version >>
world   == << nextBatch, faults >>
vars    == << disk, pc, session, attempt, memo, runtime, retryable, world >>

-----------------------------------------------------------------------------
(* Data *)

Damaged == << 0 >>    \* a file whose bytes were changed: batch 0 is never drawn

Weights == Seq(Nat)

Publications == [version : 0 .. MaxRounds, adapter : Weights, optimizer : Weights]

\* latest.json is missing: the base model, policy_000000.
NoPublication == [version |-> 0, adapter |-> << >>, optimizer |-> << >>]

RunManifests ==
  [status : {"missing", "running", "failed", "completed"}, completed : 0 .. MaxRounds]

NoRunManifest == [status |-> "missing", completed |-> 0]

\* "absent": no round directory; "bare": a directory without a manifest.
RoundStatus == {"absent", "bare", "collecting", "frozen", "training", "published", "failed"}

Manifests ==
  [status : RoundStatus, before : Nat, checkpoint : Weights, batch : Nat,
   adapter : Weights, optimizer : Weights, after : 0 .. MaxRounds]

EmptyManifest(status) ==
  [status |-> status, before |-> 0, checkpoint |-> << >>, batch |-> 0,
   adapter |-> << >>, optimizer |-> << >>, after |-> 0]

Artifacts == [adapter : Weights, optimizer : Weights, batch : Nat]

NoArtifacts == [adapter |-> << >>, optimizer |-> << >>, batch |-> 0]

\* The LatestPublication that indexes a published round manifest.
PublicationOf(m) ==
  [version |-> m.after, adapter |-> m.adapter, optimizer |-> m.optimizer]

\* _validate_publication: the files a publication names still have its checksums.
Valid(p) ==
  p.version > 0 =>
    /\ files[p.version - 1].adapter = p.adapter
    /\ files[p.version - 1].optimizer = p.optimizer

-----------------------------------------------------------------------------
Init ==
  /\ latestFile = NoPublication
  /\ runFile = NoRunManifest
  /\ manifest = [r \in Rounds |-> EmptyManifest("absent")]
  /\ files = [r \in Rounds |-> NoArtifacts]
  /\ pc = "down"
  /\ target = 0
  /\ latest = NoPublication
  /\ run = NoRunManifest
  /\ round = 0
  /\ attempt = 0
  /\ memo = EmptyManifest("absent")
  /\ weights = << >>
  /\ moments = << >>
  /\ version = 0
  /\ retryable = FALSE
  /\ nextBatch = 1
  /\ faults = 0

\* The process ends, and its memory with it.
Halt ==
  /\ pc' = "down"
  /\ target' = 0
  /\ latest' = NoPublication
  /\ run' = NoRunManifest
  /\ round' = 0
  /\ attempt' = 0
  /\ memo' = EmptyManifest("absent")
  /\ weights' = << >>
  /\ moments' = << >>
  /\ version' = 0
  /\ retryable' = FALSE

Mishap == faults < MaxFaults /\ faults' = faults + 1 /\ UNCHANGED nextBatch

\* Rewrite the round manifest on disk with the process's copy.
WriteManifest(m) ==
  /\ memo' = m
  /\ manifest' = [manifest EXCEPT ![round] = m]

-----------------------------------------------------------------------------
(* run(): recovery, and the decision what to do *)

\* _load_latest; a publication that fails validation ends the run at once.
Begin(t) ==
  /\ pc = "down"
  /\ Valid(latestFile)
  /\ pc' = "recover"
  /\ target' = t
  /\ latest' = latestFile
  /\ UNCHANGED << disk, run, round, attempt, memo, runtime, retryable, world >>

\* Mutant: no recovery at all.
UnindexedIgnored == FALSE

\* A round manifest that says "published" and that latest.json does not index.
Unindexed ==
  latest.version \in Rounds /\ manifest[latest.version].status = "published"

Recoverable ==
  LET m == manifest[latest.version]
      f == files[latest.version]
  IN  /\ m.before = latest.version
      /\ m.checkpoint = latest.adapter
      /\ f = [adapter |-> m.adapter, optimizer |-> m.optimizer, batch |-> m.batch]
      /\ m.after = latest.version + 1

RecoverPublication ==
  /\ pc = "recover" /\ Unindexed /\ Recoverable
  /\ latest' = PublicationOf(manifest[latest.version])
  /\ latestFile' = latest'
  /\ UNCHANGED << runFile, manifest, files, pc, target, run, round, attempt, memo,
                  runtime, retryable, world >>

RefuseRecovery ==
  /\ pc = "recover" /\ Unindexed /\ ~Recoverable
  /\ Halt
  /\ UNCHANGED << disk, world >>

\* _load_or_create_run_manifest, for a new run or with --resume.
OpenRun ==
  /\ pc = "recover" /\ ~Unindexed
  /\ run' = [runFile EXCEPT !.status = "running"]
  /\ runFile' = run'
  /\ round' = latest.version
  /\ pc' = "opened"
  /\ UNCHANGED << latestFile, manifest, files, target, latest, attempt, memo, runtime,
                  retryable, world >>

\* The same without --resume when the run exists.
RejectRestart ==
  /\ pc = "recover" /\ ~Unindexed
  /\ runFile.status # "missing"
  /\ Halt
  /\ Mishap
  /\ UNCHANGED disk

TargetBehind ==
  /\ pc = "opened" /\ target < round
  /\ Halt
  /\ UNCHANGED << disk, world >>

\* Mutant: a target behind the publications counts as reached, and is recorded.
TargetReachedEarly ==
  /\ pc = "opened" /\ target <= round
  /\ runFile' = [status |-> "completed", completed |-> target]
  /\ Halt
  /\ UNCHANGED << latestFile, manifest, files, world >>

TargetReached ==
  /\ pc = "opened" /\ target = round
  /\ runFile' = [status |-> "completed", completed |-> round]
  /\ Halt
  /\ UNCHANGED << latestFile, manifest, files, world >>

\* _snapshot_for_round: the round samples with the newest publication, intact.
SnapshotOK == Valid(latest) /\ latest.version = round

SnapshotRound ==
  /\ pc = "opened" /\ round < target
  /\ SnapshotOK
  /\ pc' = "snapshot"
  /\ attempt' = 0
  /\ UNCHANGED << disk, session, memo, runtime, retryable, world >>

\* runtime_factory: read the publication's adapter and optimizer state.
LoadRuntime ==
  /\ pc = "snapshot"
  /\ weights' = IF latest.version = 0 THEN << >> ELSE files[latest.version - 1].adapter
  /\ moments' = IF latest.version = 0 THEN << >> ELSE files[latest.version - 1].optimizer
  /\ version' = latest.version
  /\ pc' = "attempt"
  /\ UNCHANGED << disk, session, attempt, memo, retryable, world >>

-----------------------------------------------------------------------------
(* _run_round(): one collection attempt, outside its try block *)

\* _archive_incomplete_round moves the directory of an earlier attempt away.
ArchiveIncomplete ==
  /\ pc = "attempt"
  /\ manifest[round].status # "published"
  /\ manifest' = [manifest EXCEPT ![round] = EmptyManifest("absent")]
  /\ files' = [files EXCEPT ![round] = NoArtifacts]
  /\ pc' = "mkdirs"
  /\ UNCHANGED << latestFile, runFile, session, attempt, memo, runtime, retryable, world >>

MakeRoundDirs ==
  /\ pc = "mkdirs"
  /\ manifest' = [manifest EXCEPT ![round] = EmptyManifest("bare")]
  /\ pc' = "dirs"
  /\ UNCHANGED << latestFile, runFile, files, session, attempt, memo, runtime, retryable,
                  world >>

\* Mutant: the snapshot is not checked again once the runtime has loaded it.
WriteCollectingUnchecked ==
  /\ pc = "dirs"
  /\ WriteManifest([EmptyManifest("collecting") EXCEPT !.before = latest.version,
                                                       !.checkpoint = latest.adapter])
  /\ pc' = "collecting"
  /\ UNCHANGED << latestFile, runFile, files, session, attempt, runtime, retryable, world >>

\* Mutant: policy_checkpoint_hash_before is left at its default.
WriteCollectingNoHash ==
  /\ pc = "dirs"
  /\ SnapshotOK
  /\ WriteManifest([EmptyManifest("collecting") EXCEPT !.before = latest.version])
  /\ pc' = "collecting"
  /\ UNCHANGED << latestFile, runFile, files, session, attempt, runtime, retryable, world >>

WriteCollecting ==
  /\ pc = "dirs"
  /\ SnapshotOK
  /\ WriteManifest([EmptyManifest("collecting") EXCEPT !.before = latest.version,
                                                       !.checkpoint = latest.adapter])
  /\ pc' = "collecting"
  /\ UNCHANGED << latestFile, runFile, files, session, attempt, runtime, retryable, world >>

\* A publication damaged since it was loaded ends the run.
RefuseSnapshot ==
  /\ pc \in {"opened", "dirs"} /\ round < target
  /\ ~SnapshotOK
  /\ Halt
  /\ UNCHANGED << disk, world >>

-----------------------------------------------------------------------------
(* _run_round(): inside its try block *)

Freeze ==
  /\ pc = "collecting"
  /\ WriteManifest([memo EXCEPT !.status = "frozen"])
  /\ pc' = "frozen"
  /\ UNCHANGED << latestFile, runFile, files, session, attempt, runtime, retryable, world >>

\* Mutant: every attempt samples the same rollouts again.
CompileBatchAgain ==
  /\ pc = "frozen"
  /\ memo' = [memo EXCEPT !.batch = nextBatch]
  /\ files' = [files EXCEPT ![round].batch = nextBatch]
  /\ pc' = "compiled"
  /\ UNCHANGED << latestFile, runFile, manifest, session, attempt, runtime, retryable,
                  world >>

\* verify_and_score_group and compile_optimizer_batch, then batch.json.
CompileBatch ==
  /\ pc = "frozen"
  /\ nextBatch \in Batches
  /\ memo' = [memo EXCEPT !.batch = nextBatch]
  /\ files' = [files EXCEPT ![round].batch = nextBatch]
  /\ nextBatch' = nextBatch + 1
  /\ pc' = "compiled"
  /\ UNCHANGED << latestFile, runFile, manifest, session, attempt, runtime, retryable,
                  faults >>

\* The batch has a non-zero advantage: its hash goes into the manifest.
RecordBatch ==
  /\ pc = "compiled"
  /\ WriteManifest(memo)
  /\ pc' = "recorded"
  /\ UNCHANGED << latestFile, runFile, files, session, attempt, runtime, retryable, world >>

\* audit_training_round accepts the round, and training may begin.
Admit ==
  /\ pc = "recorded"
  /\ WriteManifest([memo EXCEPT !.status = "training"])
  /\ pc' = "training"
  /\ UNCHANGED << latestFile, runFile, files, session, attempt, runtime, retryable, world >>

OptimizerStep ==
  /\ pc = "training"
  /\ weights' = Append(weights, memo.batch)
  /\ moments' = Append(moments, memo.batch)
  /\ version' = version + 1
  /\ pc' = "stepped"
  /\ UNCHANGED << disk, session, attempt, memo, retryable, world >>

\* atomic_write_directory: a temporary directory renamed, never over an old one.
SaveAdapter ==
  /\ pc = "stepped"
  /\ files[round].adapter = << >>
  /\ files' = [files EXCEPT ![round].adapter = weights]
  /\ pc' = "adapterSaved"
  /\ UNCHANGED << latestFile, runFile, manifest, session, attempt, memo, runtime, retryable,
                  world >>

SaveOptimizer ==
  /\ pc = "adapterSaved"
  /\ files' = [files EXCEPT ![round].optimizer = moments]
  /\ pc' = "saved"
  /\ UNCHANGED << latestFile, runFile, manifest, session, attempt, memo, runtime, retryable,
                  world >>

\* Mutant: the published manifest is not written before latest.json.
PublishManifestUnwritten ==
  /\ pc = "saved"
  /\ memo' = [memo EXCEPT !.status = "published", !.adapter = files[round].adapter,
                          !.optimizer = files[round].optimizer, !.after = version]
  /\ pc' = "published"
  /\ UNCHANGED << disk, session, attempt, runtime, retryable, world >>

\* The hashes are those of the files just written.
PublishManifest ==
  /\ pc = "saved"
  /\ version = round + 1
  /\ WriteManifest([memo EXCEPT !.status = "published",
                                !.adapter = files[round].adapter,
                                !.optimizer = files[round].optimizer,
                                !.after = version])
  /\ pc' = "published"
  /\ UNCHANGED << latestFile, runFile, files, session, attempt, runtime, retryable, world >>

IndexPublication ==
  /\ pc = "published"
  /\ latestFile' = PublicationOf(memo)
  /\ pc' = "closing"
  /\ UNCHANGED << runFile, manifest, files, session, attempt, memo, runtime, retryable,
                  world >>

-----------------------------------------------------------------------------
(* _run_round(): its except block, and the retry loop of run() *)

\* Mutant: the try block reaches to the bookkeeping after the publication.
InTryTooLong == {"collecting", "frozen", "compiled", "recorded", "training", "stepped",
                 "adapterSaved", "saved", "published", "closing"}

InTry == {"collecting", "frozen", "compiled", "recorded", "training", "stepped",
          "adapterSaved", "saved", "published"}

\* ZeroAdvantageBatchError: rewards missing, no advantage, or not admitted.
RejectBatch ==
  /\ pc \in {"frozen", "compiled", "recorded"}
  /\ retryable' = TRUE
  /\ pc' = "failing"
  /\ Mishap
  /\ UNCHANGED << disk, session, attempt, memo, runtime >>

\* Any other Exception: a rollout, a verifier, the optimizer or a write fails.
RaiseInRound ==
  /\ pc \in InTry
  /\ retryable' = FALSE
  /\ pc' = "failing"
  /\ Mishap
  /\ UNCHANGED << disk, session, attempt, memo, runtime >>

WriteFailedManifest ==
  /\ pc = "failing"
  /\ WriteManifest([memo EXCEPT !.status = "failed"])
  /\ pc' = "failedManifest"
  /\ UNCHANGED << latestFile, runFile, files, session, attempt, runtime, retryable, world >>

\* Mutant: any exception is retried, also one after the optimizer step.
WriteFailedRunRetryAny ==
  /\ pc = "failedManifest"
  /\ runFile' = [run EXCEPT !.status = "failed"]
  /\ IF attempt + 1 < MaxAttempts
       THEN /\ run' = runFile'
            /\ attempt' = attempt + 1
            /\ pc' = "attempt"
            /\ UNCHANGED << target, latest, round, memo, runtime, retryable >>
       ELSE Halt
  /\ UNCHANGED << latestFile, manifest, files, world >>

\* The run manifest follows; then the next attempt, or the exception goes on.
WriteFailedRun ==
  /\ pc = "failedManifest"
  /\ runFile' = [run EXCEPT !.status = "failed"]
  /\ IF retryable /\ attempt + 1 < MaxAttempts
       THEN /\ run' = runFile'
            /\ attempt' = attempt + 1
            /\ pc' = "attempt"
            /\ UNCHANGED << target, latest, round, memo, runtime, retryable >>
       ELSE Halt
  /\ UNCHANGED << latestFile, manifest, files, world >>

\* Mutant: the round is counted twice.
RecordProgressTwice ==
  /\ pc = "closing"
  /\ Valid(latestFile)
  /\ runFile' = [status |-> "running", completed |-> round + 2]
  /\ Halt
  /\ UNCHANGED << latestFile, manifest, files, world >>

\* The runtime is closed, latest.json is read back and the round is counted.
RecordProgress ==
  /\ pc = "closing"
  /\ Valid(latestFile)
  /\ runFile' = [status |-> IF round + 1 = target THEN "completed" ELSE "running",
                 completed |-> round + 1]
  /\ IF round + 1 = target
       THEN Halt
       ELSE /\ latest' = latestFile
            /\ run' = runFile'
            /\ round' = round + 1
            /\ pc' = "opened"
            /\ UNCHANGED << target, attempt, memo, runtime, retryable >>
  /\ UNCHANGED << latestFile, manifest, files, world >>

RefuseReload ==
  /\ pc = "closing"
  /\ ~Valid(latestFile)
  /\ Halt
  /\ UNCHANGED << disk, world >>

-----------------------------------------------------------------------------
(* The world *)

\* The process is killed, is cancelled, or fails outside the try block.
Crash ==
  /\ pc # "down"
  /\ Halt
  /\ Mishap
  /\ UNCHANGED disk

\* Somebody or something changes a file of a published round.
Damage(r, kind) ==
  /\ manifest[r].status = "published"
  /\ files' = [files EXCEPT ![r] =
       CASE kind = "adapter"   -> [@ EXCEPT !.adapter = Damaged]
         [] kind = "optimizer" -> [@ EXCEPT !.optimizer = Damaged]
         [] kind = "batch"     -> [@ EXCEPT !.batch = 0]]
  /\ Mishap
  /\ UNCHANGED << latestFile, runFile, manifest, pc, session, attempt, memo, runtime,
                  retryable >>

-----------------------------------------------------------------------------
Step ==
  \/ \E t \in Targets : Begin(t)
  \/ RecoverPublication \/ RefuseRecovery \/ OpenRun \/ TargetBehind \/ TargetReached
  \/ SnapshotRound \/ LoadRuntime \/ RefuseSnapshot
  \/ ArchiveIncomplete \/ MakeRoundDirs \/ WriteCollecting
  \/ Freeze \/ CompileBatch \/ RecordBatch \/ Admit
  \/ OptimizerStep \/ SaveAdapter \/ SaveOptimizer \/ PublishManifest \/ IndexPublication
  \/ WriteFailedManifest \/ WriteFailedRun \/ RecordProgress \/ RefuseReload

Fault ==
  \/ RejectRestart \/ RejectBatch \/ RaiseInRound \/ Crash
  \/ \E r \in Rounds, kind \in Damageable : Damage(r, kind)

Next == Step \/ Fault

Spec == Init /\ [][Next]_vars

\* The process runs until it ends, and a driver starts it again when it has.
FairSpec == Spec /\ WF_vars(Step)

-----------------------------------------------------------------------------
(* Properties *)

\* The variables hold what flywheel.py's models let them hold.
TypeOK ==
  /\ latestFile \in Publications
  /\ runFile \in RunManifests
  /\ manifest \in [Rounds -> Manifests]
  /\ files \in [Rounds -> Artifacts]
  /\ pc \in InTry \cup {"down", "recover", "opened", "snapshot", "attempt", "mkdirs", "dirs",
                        "closing", "failing", "failedManifest"}
  /\ target \in 0 .. MaxRounds
  /\ latest \in Publications
  /\ run \in RunManifests
  /\ round \in 0 .. MaxRounds
  /\ attempt \in Nat
  /\ memo \in Manifests
  /\ weights \in Weights
  /\ moments \in Weights
  /\ version \in Nat
  /\ retryable \in BOOLEAN
  /\ nextBatch \in Nat
  /\ faults \in 0 .. MaxFaults

\* latest.json names a round only once that round's adapter, optimizer state,
\* checksums and manifest are all on disk, and both were saved after the same
\* batches: the pair is published atomically (README, flywheel.py:464-494).
IndexedComplete ==
  latestFile.version > 0 =>
    LET m == manifest[latestFile.version - 1]
    IN  /\ m.status = "published"
        /\ latestFile = PublicationOf(m)
        /\ m.adapter = m.optimizer

\* Every round that says "published", indexed or not, is one optimizer step
\* away from the round before it, whatever crashes, retries and recoveries lie
\* between the two (flywheel.py:311-318, 461-482).
OneStepPerRound ==
  \A r \in Rounds : manifest[r].status = "published" =>
    /\ manifest[r].before = r
    /\ manifest[r].after = r + 1
    /\ manifest[r].checkpoint = IF r = 0 THEN << >> ELSE manifest[r - 1].adapter
    /\ manifest[r].adapter = Append(manifest[r].checkpoint, manifest[r].batch)
    /\ manifest[r].optimizer = manifest[r].adapter

\* What is about to be saved and published was trained from the intact newest
\* publication: never from a file damaged between its check and its loading, nor
\* from weights an earlier attempt already moved (flywheel.py:247, 303, 461).
TrainedFromPublication ==
  pc \in {"stepped", "adapterSaved", "saved", "published"} =>
    /\ weights = Append(latestFile.adapter, memo.batch)
    /\ moments = Append(latestFile.optimizer, memo.batch)

\* run_manifest.json never counts a round that latest.json does not have, and
\* says "completed" only when it counts them all: its readers decide on it what
\* to train next (flywheel.py:225-235, 272-279).
ProgressRecorded ==
  /\ runFile.completed <= latestFile.version
  /\ runFile.status = "completed" => runFile.completed = latestFile.version

\* Recovery refuses an unindexed publication for damaged files only: crashes,
\* retries and failed writes never leave one with a wrong predecessor
\* (flywheel.py:624-637).
RefusalMeansDamage ==
  pc = "recover" /\ Unindexed /\ ~Recoverable =>
    LET m == manifest[latest.version]
    IN  files[latest.version] #
          [adapter |-> m.adapter, optimizer |-> m.optimizer, batch |-> m.batch]

\* Once latest.json names a round, its manifest is never rewritten, archived or
\* replaced, and latest.json never names an older one (flywheel.py:496-505,
\* 666-684).
IndexedRoundsKept ==
  [][/\ latestFile.version <= latestFile'.version
     /\ \A r \in Rounds : r < latestFile.version => manifest'[r] = manifest[r]]_vars

\* latest.json implements the abstract chain of policies: it grows by one
\* optimizer step on a batch no earlier step used (flywheel.py:484-494, 638-649).
Chain == INSTANCE PolicyChain WITH Batch <- Batches, chain <- latestFile.adapter

ChainSpec == Chain!Spec

\* When nothing is damaged and faults are finitely many, a driver that restarts
\* the flywheel gets every round it asks for published.
AllRoundsPublished == <>[](latestFile.version = MaxRounds)

=============================================================================
