------------------------- MODULE ReproductionMatrix -------------------------
(***************************************************************************)
(* The reproduction matrix: one command that trains every training         *)
(* condition, evaluates every evaluation condition, joins the results and  *)
(* builds a report, which refuses what is not the complete experiment.     *)
(* Each step runs a process of its own, any of which may fail; the command *)
(* may be killed, and is then started again in the same directory, with    *)
(* the same arguments or with others.                                      *)
(*                                                                         *)
(* Training is SyncFlywheel seen from outside: a number of publications    *)
(* that only grows.  The command of PeriodicTraining, which makes the last *)
(* of the periodic evaluations the report asks for, is one action.         *)
(*                                                                         *)
(* Bounds of the model: no command asks for more than the full experiment; *)
(* the periodic command does not run beside another; a filter of the       *)
(* training tasks is part of what Binding stands for.                      *)
(***************************************************************************)
EXTENDS Integers, Sequences, SequencesExt, FiniteSets

CONSTANTS Training,    \* TRAINING_CONDITIONS, as the sequence they are trained in
          Condition,   \* EVALUATION_CONDITIONS, as the sequence they are evaluated in
          TrainingOf,  \* condition -> the training whose policy it evaluates, or Base
          ConfigOf,    \* condition -> the training whose config it uses
          Base,        \* no adapter: the model as it was downloaded
          Periodic,    \* the training that is also evaluated periodically
          Controls,    \* what a command may be started with: profile, source, models, ...
          FullControls,
          Binding,     \* controls -> the config and data a training is bound to
          FullRounds,  \* 75 in the code
          FullTasks,   \* 50 tasks, with 8 rollouts each
          MaxFaults,   \* bound: processes that fail and commands that are killed
          MaxOther     \* bound: commands with arguments other than the full ones

Conditions == ToSet(Condition)
Trainings  == ToSet(Training)

ASSUME ConstantsAssumption ==
    /\ Training \in Seq(Trainings) /\ Condition \in Seq(Conditions)
    /\ Base \notin Trainings
    /\ TrainingOf \in [Conditions -> Trainings \cup {Base}]
    /\ ConfigOf \in [Conditions -> Trainings]
    /\ Periodic \in Trainings /\ FullControls \in Controls
    /\ \A x \in Controls : Binding[x] # "none"
    /\ FullRounds \in Nat \ {0} /\ FullTasks \in Nat \ {0}
    /\ MaxFaults \in Nat /\ MaxOther \in Nat

VARIABLES step,      \* where the command is
          todo,      \* trainings or conditions it has still to go through
          rounds,    \* --rounds
          tasks,     \* --eval-tasks
          controls,  \* the other arguments, and the source of the program
          published, \* training -> rounds published so far
          begun,     \* training -> manifests/preflight.json: what it was begun under
          settled,   \* trainings whose run_manifest.json counts what is published
          periodic,  \* the last periodic evaluation is there, and no call was given up
          result,    \* condition -> what its evaluation directory holds
          evaluated, \* key -> the condition that holds an evaluation of it
          joined,    \* report/joined_results.json: the rows of the table
          faults, others

arguments == <<rounds, tasks, controls>>
trainings == <<published, begun, settled, periodic>>
vars == <<step, todo, arguments, trainings, result, evaluated, joined, faults, others>>

\* Mutant: what is evaluated is told by the config alone.
KeyOfConfig(c) == ConfigOf[c]

\* key = (training, config_name)
Key(c) == <<TrainingOf[c], ConfigOf[c]>>

Keys == {Key(c) : c \in Conditions}

Nothing == [kind |-> "none"]
Partial == [kind |-> "partial"]
Results ==
    [kind : {"complete"}, tasks : 1 .. FullTasks, controls : Controls,
     source : Trainings \cup {Base}, version : 0 .. FullRounds, gaveUp : BOOLEAN]

Init ==
    /\ step = "idle"
    /\ todo = <<>>
    /\ rounds = FullRounds /\ tasks = FullTasks /\ controls = FullControls
    /\ published = [t \in Trainings |-> 0]
    /\ begun = [t \in Trainings |-> "none"]
    /\ settled = Trainings
    /\ periodic = FALSE
    /\ result = [c \in Conditions |-> Nothing]
    /\ evaluated = [k \in Keys |-> "none"]
    /\ joined = [c \in Conditions |-> Nothing]
    /\ faults = 0 /\ others = 0

Version(t) == IF t = Base THEN 0 ELSE published[t]

-----------------------------------------------------------------------------
(* The command and its trainings.                                          *)

\* main(): the training conditions first, if --execute-training is given.
Start(first, r, n, x) ==
    /\ step = "idle"
    /\ step' = first
    /\ todo' = IF first = "training" THEN Training ELSE Condition
    /\ rounds' = r /\ tasks' = n /\ controls' = x
    /\ evaluated' = [k \in Keys |-> "none"]
    /\ UNCHANGED <<trainings, result, joined, faults>>

StartFull == Start("training", FullRounds, FullTasks, FullControls) /\ UNCHANGED others

StartOther ==
    /\ others < MaxOther
    /\ others' = others + 1
    /\ \E first \in {"training", "evaluating"}, r \in 1 .. FullRounds,
          n \in 1 .. FullTasks, x \in Controls : Start(first, r, n, x)

\* _prepare: a training goes on under the config and the data it began with.
Resumable(t, x) == begun[t] \in {"none", Binding[x]}

\* run() raises when more rounds are published than it is asked for.
Trainable(t) == Resumable(t, controls) /\ published[t] <= rounds

\* The training process reaches its target; it never undoes a publication.
Train ==
    /\ step = "training" /\ todo # <<>>
    /\ LET t == Head(todo)
       IN  /\ Trainable(t)
           /\ published' = [published EXCEPT ![t] = rounds]
           /\ begun' = [begun EXCEPT ![t] = Binding[controls]]
           /\ settled' = settled \cup {t}
    /\ todo' = Tail(todo)
    /\ UNCHANGED <<step, arguments, periodic, result, evaluated, joined, faults, others>>

\* check=True: a process that fails takes the command down with it.
TrainingRefused ==
    /\ step = "training" /\ todo # <<>>
    /\ ~Trainable(Head(todo))
    /\ step' = "idle"
    /\ UNCHANGED <<todo, arguments, trainings, result, evaluated, joined, faults, others>>

\* The same at any point of a training, a publication and the count of it included.
TrainingFails ==
    /\ step = "training" /\ todo # <<>>
    /\ faults < MaxFaults
    /\ LET t == Head(todo)
       IN  /\ Trainable(t)
           /\ \E n \in published[t] .. rounds :
                /\ published' = [published EXCEPT ![t] = n]
                /\ settled' \in IF n = published[t] THEN {settled}
                                 ELSE {settled \cup {t}, settled \ {t}}
           /\ begun' = [begun EXCEPT ![t] = Binding[controls]]
    /\ step' = "idle"
    /\ faults' = faults + 1
    /\ UNCHANGED <<todo, arguments, periodic, result, evaluated, joined, others>>

Trained ==
    /\ step = "training" /\ todo = <<>>
    /\ step' = "evaluating"
    /\ todo' = Condition
    /\ UNCHANGED <<arguments, trainings, result, evaluated, joined, faults, others>>

\* The periodic command, given the config of the full command and its training
\* directory, run to the end; the matrix never runs it itself.
PeriodicCommand ==
    /\ step = "idle"
    /\ ~periodic /\ Resumable(Periodic, FullControls)
    /\ periodic' = TRUE
    /\ published' = [published EXCEPT ![Periodic] = FullRounds]
    /\ begun' = [begun EXCEPT ![Periodic] = Binding[FullControls]]
    /\ settled' = settled \cup {Periodic}
    /\ UNCHANGED <<step, todo, arguments, result, evaluated, joined, faults, others>>

-----------------------------------------------------------------------------
(* _evaluate                                                               *)

\* Mutant: a directory that exists is an evaluation.
Present(r) == r.kind # "none"

\* _evaluation_complete: the three files are there and their counts are right.
Complete(r) == r.kind = "complete" /\ r.tasks = tasks

Evaluating == step = "evaluating" /\ todo # <<>>

Skip ==
    /\ Evaluating
    /\ Complete(result[Head(todo)])
    /\ evaluated' = [evaluated EXCEPT ![Key(Head(todo))] = Head(todo)]
    /\ todo' = Tail(todo)
    /\ UNCHANGED <<step, arguments, trainings, result, joined, faults, others>>

\* What the directory held is set aside; it is made again, file by file.
Prepare ==
    /\ Evaluating
    /\ ~Complete(result[Head(todo)])
    /\ step' = IF evaluated[Key(Head(todo))] # "none" THEN "copying" ELSE "running"
    /\ result' = [result EXCEPT ![Head(todo)] = Partial]
    /\ UNCHANGED <<todo, arguments, trainings, evaluated, joined, faults, others>>

Copy ==
    /\ step = "copying"
    /\ result' = [result EXCEPT ![Head(todo)] = result[evaluated[Key(Head(todo))]]]
    /\ step' = "evaluating"
    /\ todo' = Tail(todo)
    /\ UNCHANGED <<arguments, trainings, evaluated, joined, faults, others>>

\* The latest publication of the training, or its absence, decides what is run.
Missing(c) == TrainingOf[c] # Base /\ published[TrainingOf[c]] = 0

\* A call of the judge or of a tool that is given up after its retries is
\* counted in the files; the evaluation completes all the same.
Evaluate ==
    /\ step = "running" /\ ~Missing(Head(todo))
    /\ \E gaveUp \in BOOLEAN :
        /\ gaveUp => faults < MaxFaults
        /\ faults' = IF gaveUp THEN faults + 1 ELSE faults
        /\ result' = [result EXCEPT ![Head(todo)] =
            [kind |-> "complete", tasks |-> tasks, controls |-> controls,
             source |-> TrainingOf[Head(todo)],
             version |-> Version(TrainingOf[Head(todo)]), gaveUp |-> gaveUp]]
    /\ evaluated' = [evaluated EXCEPT ![Key(Head(todo))] = Head(todo)]
    /\ step' = "evaluating"
    /\ todo' = Tail(todo)
    /\ UNCHANGED <<arguments, trainings, joined, others>>

\* FileNotFoundError: training publication is missing
Unpublished ==
    /\ step = "running" /\ Missing(Head(todo))
    /\ step' = "idle"
    /\ UNCHANGED <<todo, arguments, trainings, result, evaluated, joined, faults, others>>

\* Ctrl-C, out of memory, a reboot, or an evaluation process that fails
Kill ==
    /\ step \in {"training", "evaluating", "copying", "running", "reporting"}
    /\ faults < MaxFaults
    /\ faults' = faults + 1
    /\ step' = "idle"
    /\ UNCHANGED <<todo, arguments, trainings, result, evaluated, joined, others>>

-----------------------------------------------------------------------------
(* _join_results and build_reproduction_report.                            *)

\* Mutant: nothing is compared.
AnyControls == TRUE

\* The controls of all rows are the same, whatever command a row is from; the
\* policies and what they were trained for are not compared.
SameControls ==
    \E x \in Controls : \A c \in Conditions :
        result[c].kind = "complete" /\ result[c].controls = x

Join ==
    /\ step = "evaluating" /\ todo = <<>>
    /\ SameControls
    /\ joined' = result
    /\ step' = "reporting"
    /\ UNCHANGED <<todo, arguments, trainings, result, evaluated, faults, others>>

\* ValueError: evaluation controls differ
ControlsDiffer ==
    /\ step = "evaluating" /\ todo = <<>>
    /\ ~SameControls
    /\ step' = "idle"
    /\ UNCHANGED <<todo, arguments, trainings, result, evaluated, joined, faults, others>>

\* --require-75: what is read back from the directories.  That the rounds follow
\* one another and were admitted, and that no published round gave up a call of
\* the judge, is what a publication means (SyncFlywheel, BatchCompilation).
TrainingEvidence ==
    /\ \A t \in Trainings : published[t] >= FullRounds /\ t \in settled
    /\ periodic

EvaluationEvidence ==
    \A c \in Conditions :
        /\ result[c].kind = "complete" /\ result[c].tasks = FullTasks
        /\ ~result[c].gaveUp
        /\ joined[c] = result[c]

Evidence == TrainingEvidence /\ EvaluationEvidence

\* The flag is only given with as many rounds; without it nothing is refused.
Report ==
    /\ step = "reporting"
    /\ step' = IF rounds >= FullRounds /\ Evidence THEN "accepted" ELSE "idle"
    /\ UNCHANGED <<todo, arguments, trainings, result, evaluated, joined, faults, others>>

Command ==
    \/ StartFull
    \/ Train \/ TrainingRefused \/ Trained
    \/ Skip \/ Prepare \/ Copy \/ Evaluate \/ Unpublished
    \/ Join \/ ControlsDiffer \/ Report

Next == Command \/ StartOther \/ PeriodicCommand \/ TrainingFails \/ Kill

Spec == Init /\ [][Next]_vars

\* The full command is started again until its report is accepted.
FairSpec == Spec /\ WF_vars(Command)
-----------------------------------------------------------------------------
Step == {"idle", "training", "evaluating", "copying", "running", "reporting", "accepted"}

TypeOK ==
    /\ step \in Step
    /\ todo \in Seq(Trainings \cup Conditions)
    /\ rounds \in 1 .. FullRounds /\ tasks \in 1 .. FullTasks
    /\ controls \in Controls
    /\ published \in [Trainings -> 0 .. FullRounds]
    /\ begun \in [Trainings -> {Binding[x] : x \in Controls} \cup {"none"}]
    /\ settled \subseteq Trainings /\ periodic \in BOOLEAN
    /\ result \in [Conditions -> {Nothing, Partial} \cup Results]
    /\ evaluated \in [Keys -> Conditions \cup {"none"}]
    /\ joined \in [Conditions -> {Nothing, Partial} \cup Results]
    /\ faults \in 0 .. MaxFaults /\ others \in 0 .. MaxOther

\* A report that is accepted describes the whole experiment, whatever commands
\* came before: every training is done, every row of the table is a full
\* evaluation of a policy its own training condition has published, or of the
\* model as downloaded, and all rows were made under the same controls
\* (run_reproduction_matrix.py:229-334).
AcceptedIsComplete ==
    step = "accepted" =>
        /\ \A t \in Trainings : published[t] = FullRounds
        /\ \A c \in Conditions :
            /\ joined[c].kind = "complete" /\ joined[c].tasks = FullTasks
            /\ joined[c].source = TrainingOf[c]
            /\ TrainingOf[c] # Base => joined[c].version \in 1 .. FullRounds
        /\ \A c, d \in Conditions : joined[c].controls = joined[d].controls

\* A full evaluation counts as complete, and is never made again, although it gave
\* up a call of the judge or of a tool or was made under other controls.
KeptForGood ==
    \E c \in Conditions :
        /\ result[c].kind = "complete" /\ result[c].tasks = FullTasks
        /\ result[c].gaveUp \/ result[c].controls # FullControls

\* A training directory can only be gone on with under another config.
BegunOtherwise == \E t \in Trainings : ~Resumable(t, FullControls)

\* Once the periodic evaluation has been made, starting the full command again in
\* the same directory ends in an accepted report, after any faults and other
\* commands, with two exceptions: a full evaluation that is kept for good although
\* the report or the join refuses it, and a training begun under another config
\* (run_reproduction_matrix.py:164-183, 329-333, run_deepdive_rao_training.py:
\* 142-169, build_reproduction_report.py:605-653).
AcceptedInTheEnd ==
    <>periodic => \/ <>(step = "accepted")
                  \/ <>[](KeptForGood \/ BegunOtherwise)
=============================================================================
