---------------------- MODULE ReproductionMatrix_proofs ----------------------
(***************************************************************************)
(* Proofs about ReproductionMatrix, for all sets of trainings and          *)
(* conditions, numbers of rounds and tasks, faults and other commands.     *)
(***************************************************************************)
EXTENDS ReproductionMatrix, TLAPS

-----------------------------------------------------------------------------
(* The inductive invariant *)

\* What the command goes through is what its step is about.
Agenda ==
    /\ step = "training" => todo \in Seq(Trainings)
    /\ step \in {"evaluating", "copying", "running"} => todo \in Seq(Conditions)
    /\ step \in {"copying", "running"} => todo # <<>>

\* What can stand in for an evaluation is a directory with the same key.
Standin ==
    \A k \in Keys : evaluated[k] # "none" =>
        evaluated[k] \in Conditions /\ Key(evaluated[k]) = k

Copying == step = "copying" => evaluated[Key(Head(todo))] # "none"

\* A complete evaluation is of its own training, after some publication of it.
Source(c, r) ==
    r.kind = "complete" =>
        /\ r \in Results
        /\ r.source = TrainingOf[c]
        /\ TrainingOf[c] # Base => r.version \in 1 .. FullRounds

Sources == \A c \in Conditions : Source(c, result[c])

\* The report looks at the rows that were joined under the same controls.
Joined == step \in {"reporting", "accepted"} => SameControls

Accepted == step = "accepted" => Evidence

IInv == TypeOK /\ Agenda /\ Standin /\ Copying /\ Sources /\ Joined /\ Accepted

-----------------------------------------------------------------------------
(* Data *)

LEMMA NatConstants ==
    /\ FullRounds \in Nat /\ FullRounds >= 1 /\ FullTasks \in Nat /\ FullTasks >= 1
    /\ MaxFaults \in Nat /\ MaxOther \in Nat
    /\ Base \notin Trainings
    /\ \A c \in Conditions : TrainingOf[c] \in Trainings \cup {Base}
    /\ Training \in Seq(Trainings) /\ Condition \in Seq(Conditions)
    /\ Periodic \in Trainings /\ FullControls \in Controls
BY ConstantsAssumption

LEMMA Queue ==
    ASSUME NEW S, NEW s \in Seq(S), s # <<>>
    PROVE  Head(s) \in S /\ Tail(s) \in Seq(S)
OBVIOUS

LEMMA Widened ==
    ASSUME NEW s, s \in Seq(Trainings) \/ s \in Seq(Conditions)
    PROVE  s \in Seq(Trainings \cup Conditions)
OBVIOUS

LEMMA KeyInKeys == \A c \in Conditions : Key(c) \in Keys
BY DEF Keys

LEMMA InitInv == Init => IInv
<1> SUFFICES ASSUME Init PROVE IInv  OBVIOUS
<1>1. TypeOK
  <2>1. rounds \in 1 .. FullRounds /\ tasks \in 1 .. FullTasks /\ controls \in Controls
    BY NatConstants DEF Init
  <2>2. /\ published \in [Trainings -> 0 .. FullRounds]
        /\ begun \in [Trainings -> {Binding[x] : x \in Controls} \cup {"none"}]
        /\ settled \subseteq Trainings /\ periodic \in BOOLEAN
    <3>1. 0 \in 0 .. FullRounds  BY NatConstants
    <3> QED  BY <3>1 DEF Init
  <2>3. result \in [Conditions -> {Nothing, Partial} \cup Results]
        /\ joined \in [Conditions -> {Nothing, Partial} \cup Results]
    BY DEF Init
  <2>4. evaluated \in [Keys -> Conditions \cup {"none"}]  BY DEF Init
  <2>5. faults \in 0 .. MaxFaults /\ others \in 0 .. MaxOther  BY NatConstants DEF Init
  <2>6. step \in Step /\ todo \in Seq(Trainings \cup Conditions)  BY DEF Init, Step
  <2> QED  BY <2>1, <2>2, <2>3, <2>4, <2>5, <2>6 DEF TypeOK
<1>2. Agenda /\ Copying /\ Joined /\ Accepted
  BY DEF Init, Agenda, Copying, Joined, Accepted
<1>3. Standin  BY DEF Init, Standin
<1>4. Sources  BY DEF Init, Sources, Source, Nothing
<1> QED  BY <1>1, <1>2, <1>3, <1>4 DEF IInv

-----------------------------------------------------------------------------
(* Steps *)

LEMMA StartStep ==
    ASSUME IInv, NEW first \in {"training", "evaluating"}, NEW r \in 1 .. FullRounds,
           NEW n \in 1 .. FullTasks, NEW x \in Controls, Start(first, r, n, x), others' \in 0 .. MaxOther
    PROVE  IInv'
<1> USE DEF Start, trainings
<1>1. /\ step' = first /\ first \in Step
      /\ todo' \in Seq(Trainings \cup Conditions)
      /\ first = "training" => todo' \in Seq(Trainings)
      /\ first = "evaluating" => todo' \in Seq(Conditions)
  BY NatConstants, Widened DEF Step
<1>2. evaluated' \in [Keys -> Conditions \cup {"none"}]  OBVIOUS
<1>3. TypeOK'  BY <1>1, <1>2 DEF IInv, TypeOK
<1>4. Agenda' /\ Copying' /\ Joined' /\ Accepted'
  BY <1>1 DEF Agenda, Copying, Joined, Accepted
<1>5. Standin'  BY DEF Standin
<1>6. Sources'  BY DEF IInv, Sources
<1> QED  BY <1>3, <1>4, <1>5, <1>6 DEF IInv

\* The commands that publish; the evaluations and what they are told by are left
\* alone.
Publishing == Train \/ TrainingFails \/ PeriodicCommand

\* A training that is gone on with keeps its types.
LEMMA TrainingTyped ==
    ASSUME TypeOK, NEW t \in Trainings, NEW n \in 0 .. FullRounds, NEW x \in Controls,
           NEW S \in {settled, settled \cup {t}, settled \ {t}},
           published' = [published EXCEPT ![t] = n],
           begun' = [begun EXCEPT ![t] = Binding[x]],
           settled' = S
    PROVE  /\ published' \in [Trainings -> 0 .. FullRounds]
           /\ begun' \in [Trainings -> {Binding[y] : y \in Controls} \cup {"none"}]
           /\ settled' \subseteq Trainings
<1>1. /\ published \in [Trainings -> 0 .. FullRounds]
      /\ begun \in [Trainings -> {Binding[y] : y \in Controls} \cup {"none"}]
      /\ settled \subseteq Trainings
  BY DEF TypeOK
<1>2. Binding[x] \in {Binding[y] : y \in Controls}
  OBVIOUS
<1>3. S \subseteq Trainings
  BY <1>1
<1> QED  BY <1>1, <1>2, <1>3

LEMMA PublishingTyped ==
    ASSUME IInv, Publishing
    PROVE  /\ published' \in [Trainings -> 0 .. FullRounds]
           /\ begun' \in [Trainings -> {Binding[y] : y \in Controls} \cup {"none"}]
           /\ settled' \subseteq Trainings
           /\ periodic' \in BOOLEAN
<1>0. TypeOK  BY DEF IInv
<1>1. CASE Train
  <2>1. /\ Head(todo) \in Trainings
        /\ rounds \in 0 .. FullRounds /\ controls \in Controls /\ periodic \in BOOLEAN
    BY <1>1, Queue, NatConstants DEF Train, IInv, Agenda, TypeOK
  <2>2. /\ published' = [published EXCEPT ![Head(todo)] = rounds]
        /\ begun' = [begun EXCEPT ![Head(todo)] = Binding[controls]]
        /\ settled' = settled \cup {Head(todo)}
        /\ UNCHANGED periodic
    BY <1>1 DEF Train
  <2> QED  BY <1>0, <2>1, <2>2, TrainingTyped
<1>2. CASE TrainingFails
  <2>1. /\ Head(todo) \in Trainings
        /\ rounds \in 0 .. FullRounds /\ controls \in Controls /\ periodic \in BOOLEAN
    BY <1>2, Queue, NatConstants DEF TrainingFails, IInv, Agenda, TypeOK
  <2>2. published[Head(todo)] \in 0 .. FullRounds
    BY <1>0, <2>1 DEF TypeOK
  <2>3. PICK n \in published[Head(todo)] .. rounds :
          /\ published' = [published EXCEPT ![Head(todo)] = n]
          /\ settled' \in IF n = published[Head(todo)] THEN {settled}
                           ELSE {settled \cup {Head(todo)}, settled \ {Head(todo)}}
    BY <1>2 DEF TrainingFails
  <2>4. n \in 0 .. FullRounds
    BY <2>1, <2>2, <2>3, NatConstants
  <2>5. /\ begun' = [begun EXCEPT ![Head(todo)] = Binding[controls]]
        /\ settled' \in {settled, settled \cup {Head(todo)}, settled \ {Head(todo)}}
        /\ UNCHANGED periodic
    BY <1>2, <2>3 DEF TrainingFails
  <2> QED  BY <1>0, <2>1, <2>3, <2>4, <2>5, TrainingTyped
<1>3. CASE PeriodicCommand
  <2>1. Periodic \in Trainings /\ FullRounds \in 0 .. FullRounds /\ FullControls \in Controls
    BY NatConstants
  <2>2. /\ published' = [published EXCEPT ![Periodic] = FullRounds]
        /\ begun' = [begun EXCEPT ![Periodic] = Binding[FullControls]]
        /\ settled' = settled \cup {Periodic}
        /\ periodic' = TRUE
    BY <1>3 DEF PeriodicCommand
  <2> QED  BY <1>0, <2>1, <2>2, TrainingTyped
<1> QED  BY <1>1, <1>2, <1>3 DEF Publishing

\* The steps that leave the evaluations and what they are told by alone.
PlainAction ==
    \/ Publishing \/ TrainingRefused \/ Trained
    \/ Unpublished \/ Kill \/ Join \/ ControlsDiffer

LEMMA PlainStep == ASSUME IInv, PlainAction PROVE IInv'
<1> USE DEF PlainAction, Publishing
<1>1. UNCHANGED <<rounds, tasks, controls, result, evaluated, others>>
      /\ step' \in {"idle", "training", "evaluating", "reporting"}
  BY DEF arguments, IInv, TypeOK, Step, Train, TrainingFails, PeriodicCommand, TrainingRefused,
         Trained, Unpublished, Kill, Join, ControlsDiffer
<1>2. /\ todo' \in Seq(Trainings \cup Conditions)
      /\ step' = "training" => todo' \in Seq(Trainings)
      /\ step' = "evaluating" => todo' \in Seq(Conditions)
  <2>1. CASE Train
    BY <2>1, Widened, Queue DEF IInv, Agenda, Train
  <2>2. CASE Trained
    BY <2>2, Widened, NatConstants DEF Trained
  <2>3. CASE ~Train /\ ~Trained
    BY <2>3 DEF IInv, TypeOK, Agenda, TrainingFails, PeriodicCommand, TrainingRefused,
                Unpublished, Kill, Join, ControlsDiffer
  <2> QED  BY <2>1, <2>2, <2>3
<1>3. /\ published' \in [Trainings -> 0 .. FullRounds]
      /\ begun' \in [Trainings -> {Binding[y] : y \in Controls} \cup {"none"}]
      /\ settled' \subseteq Trainings /\ periodic' \in BOOLEAN
  <2>1. CASE Publishing
    BY <2>1, PublishingTyped
  <2>2. CASE ~Publishing
    <3>1. UNCHANGED trainings
      BY <2>2 DEF TrainingRefused, Trained, Unpublished, Kill, Join, ControlsDiffer
    <3> QED  BY <3>1 DEF trainings, IInv, TypeOK
  <2> QED  BY <2>1, <2>2
<1>4. joined' \in [Conditions -> {Nothing, Partial} \cup Results]
  BY DEF IInv, TypeOK, Train, TrainingFails, PeriodicCommand, TrainingRefused,
         Trained, Unpublished, Kill, Join, ControlsDiffer
<1>5. faults' \in 0 .. MaxFaults
  BY NatConstants DEF IInv, TypeOK, Train, TrainingFails, PeriodicCommand, TrainingRefused,
                      Trained, Unpublished, Kill, Join, ControlsDiffer
<1>6. step' \in Step  BY <1>1 DEF Step
<1>7. TypeOK'  BY <1>1, <1>2, <1>3, <1>4, <1>5, <1>6 DEF IInv, TypeOK
<1>8. Agenda' /\ Copying' /\ Accepted'  BY <1>1, <1>2 DEF Agenda, Copying, Accepted
<1>9. Standin' /\ Sources'  BY <1>1 DEF IInv, Standin, Sources
<1>10. Joined'
  <2> SUFFICES ASSUME step' = "reporting" PROVE SameControls'
    BY <1>1 DEF Joined
  <2>1. step = "reporting" \/ Join
    BY DEF Train, TrainingFails, PeriodicCommand, TrainingRefused, Trained, Unpublished, Kill,
           ControlsDiffer
  <2>2. SameControls
    BY <2>1 DEF Join, IInv, Joined
  <2> QED  BY <1>1, <2>2 DEF SameControls
<1> QED  BY <1>7, <1>8, <1>9, <1>10 DEF IInv

LEMMA SkipStep == ASSUME IInv, Skip PROVE IInv'
<1> DEFINE h == Head(todo)
<1>1. h \in Conditions /\ Tail(todo) \in Seq(Conditions) /\ Key(h) \in Keys
  BY Queue, KeyInKeys DEF IInv, Agenda, Skip, Evaluating
<1>2. evaluated' = [evaluated EXCEPT ![Key(h)] = h]  BY DEF Skip
<1> HIDE DEF h
<1>3. evaluated' \in [Keys -> Conditions \cup {"none"}]  BY <1>1, <1>2 DEF IInv, TypeOK
<1>4. /\ step' = "evaluating" /\ todo' \in Seq(Conditions)
      /\ UNCHANGED <<rounds, tasks, controls, trainings, result, joined, faults, others>>
  BY <1>1 DEF Skip, Evaluating, arguments
<1>5. TypeOK'  BY <1>3, <1>4, Widened DEF IInv, TypeOK, Step, trainings
<1>6. Agenda' /\ Copying' /\ Joined' /\ Accepted' /\ Sources'
  BY <1>4 DEF IInv, Agenda, Copying, Joined, Accepted, Sources
<1>7. Standin'  BY <1>1, <1>2 DEF IInv, TypeOK, Standin
<1> QED  BY <1>5, <1>6, <1>7 DEF IInv

LEMMA PrepareStep == ASSUME IInv, Prepare PROVE IInv'
<1> DEFINE h == Head(todo)
<1>1. h \in Conditions /\ todo # <<>> /\ todo \in Seq(Conditions)
  BY Queue DEF IInv, Agenda, Prepare, Evaluating
<1>2. result' = [result EXCEPT ![h] = Partial]  BY DEF Prepare
<1>3. /\ step' = IF evaluated[Key(h)] # "none" THEN "copying" ELSE "running"
      /\ UNCHANGED <<todo, rounds, tasks, controls, trainings, evaluated, joined, faults, others>>
  BY DEF Prepare, arguments
<1>4. Copying' /\ Agenda' /\ Joined' /\ Accepted' /\ step' \in Step
  BY <1>1, <1>3 DEF Copying, Agenda, Joined, Accepted, Step
<1> HIDE DEF h
<1>5. TypeOK'  BY <1>1, <1>2, <1>3, <1>4 DEF IInv, TypeOK, trainings
<1>6. Standin'  BY <1>3 DEF IInv, Standin
<1>7. Sources'  BY <1>1, <1>2 DEF IInv, TypeOK, Sources, Source, Partial
<1> QED  BY <1>4, <1>5, <1>6, <1>7 DEF IInv

LEMMA CopyStep == ASSUME IInv, Copy PROVE IInv'
<1> DEFINE h == Head(todo)
<1> DEFINE c == evaluated[Key(h)]
<1>1. h \in Conditions /\ Tail(todo) \in Seq(Conditions) /\ Key(h) \in Keys
  BY Queue, KeyInKeys DEF IInv, Agenda, Copy
<1>2. c \in Conditions /\ Key(c) = Key(h)  BY <1>1 DEF IInv, Copy, Copying, Standin
<1>3. TrainingOf[c] = TrainingOf[h]  BY <1>2 DEF Key
<1>4. result' = [result EXCEPT ![h] = result[c]]  BY DEF Copy
<1> HIDE DEF c, h
<1>5. /\ step' = "evaluating" /\ todo' \in Seq(Conditions)
      /\ UNCHANGED <<rounds, tasks, controls, trainings, evaluated, joined, faults, others>>
  BY <1>1 DEF Copy, arguments
<1>6. result' \in [Conditions -> {Nothing, Partial} \cup Results]
  BY <1>1, <1>2, <1>4 DEF IInv, TypeOK
<1>7. TypeOK'  BY <1>5, <1>6, Widened DEF IInv, TypeOK, Step, trainings
<1>8. Agenda' /\ Copying' /\ Joined' /\ Accepted' /\ Standin'
  BY <1>5 DEF IInv, Agenda, Copying, Joined, Accepted, Standin
<1>9. Sources'
  <2> SUFFICES ASSUME NEW d \in Conditions PROVE Source(d, result'[d])  BY DEF Sources
  <2>1. result \in [Conditions -> {Nothing, Partial} \cup Results]  BY DEF IInv, TypeOK
  <2>2. CASE d = h
    <3>1. result'[d] = result[c]  BY <2>1, <2>2, <1>4
    <3>2. Source(c, result[c])  BY <1>2 DEF IInv, Sources
    <3> QED  BY <2>2, <3>1, <3>2, <1>3 DEF Source
  <2>3. CASE d # h  BY <2>1, <2>3, <1>4 DEF IInv, Sources
  <2> QED  BY <2>2, <2>3
<1> QED  BY <1>7, <1>8, <1>9 DEF IInv

LEMMA EvaluateStep == ASSUME IInv, Evaluate PROVE IInv'
<1> DEFINE h == Head(todo)
<1>1. h \in Conditions /\ Tail(todo) \in Seq(Conditions) /\ Key(h) \in Keys
  BY Queue, KeyInKeys DEF IInv, Agenda, Evaluate
<1>2. PICK gaveUp \in BOOLEAN :
        /\ gaveUp => faults < MaxFaults
        /\ faults' = IF gaveUp THEN faults + 1 ELSE faults
        /\ result' = [result EXCEPT ![h] =
            [kind |-> "complete", tasks |-> tasks, controls |-> controls,
             source |-> TrainingOf[h], version |-> Version(TrainingOf[h]), gaveUp |-> gaveUp]]
  BY DEF Evaluate
<1> DEFINE r == [kind |-> "complete", tasks |-> tasks, controls |-> controls,
                 source |-> TrainingOf[h], version |-> Version(TrainingOf[h]), gaveUp |-> gaveUp]
<1>3. evaluated' = [evaluated EXCEPT ![Key(h)] = h]  BY DEF Evaluate
<1>4. ~Missing(h)  BY DEF Evaluate
<1> HIDE DEF h
<1>5. /\ Version(TrainingOf[h]) \in 0 .. FullRounds
      /\ TrainingOf[h] # Base => Version(TrainingOf[h]) \in 1 .. FullRounds
  BY <1>1, <1>4, NatConstants DEF IInv, TypeOK, Version, Missing
<1>6. TrainingOf[h] \in Trainings \cup {Base} /\ tasks \in 1 .. FullTasks /\ controls \in Controls
  BY <1>1, NatConstants DEF IInv, TypeOK
<1>7. r \in Results  BY <1>5, <1>6 DEF Results
<1>8. Source(h, r)  BY <1>5, <1>7 DEF Source
<1>9. result' = [result EXCEPT ![h] = r]  BY <1>2
<1> HIDE DEF r
<1>10. /\ step' = "evaluating" /\ todo' \in Seq(Conditions)
       /\ UNCHANGED <<rounds, tasks, controls, trainings, joined, others>>
  BY <1>1 DEF Evaluate, arguments
<1>11. evaluated' \in [Keys -> Conditions \cup {"none"}]
  BY <1>1, <1>3 DEF IInv, TypeOK
<1>12. result' \in [Conditions -> {Nothing, Partial} \cup Results]
  BY <1>1, <1>7, <1>9 DEF IInv, TypeOK
<1>13. faults' \in 0 .. MaxFaults  BY <1>2, NatConstants DEF IInv, TypeOK
<1>14. TypeOK'  BY <1>10, <1>11, <1>12, <1>13, Widened DEF IInv, TypeOK, Step, trainings
<1>15. Agenda' /\ Copying' /\ Joined' /\ Accepted'
  BY <1>10 DEF Agenda, Copying, Joined, Accepted
<1>16. Standin'  BY <1>1, <1>3 DEF IInv, TypeOK, Standin
<1>17. Sources'
  <2>1. result \in [Conditions -> {Nothing, Partial} \cup Results]  BY DEF IInv, TypeOK
  <2> QED  BY <2>1, <1>8, <1>9 DEF IInv, Sources
<1> QED  BY <1>14, <1>15, <1>16, <1>17 DEF IInv

LEMMA ReportStep == ASSUME IInv, Report PROVE IInv'
<1>1. /\ step' \in {"accepted", "idle"} /\ (step' = "accepted" => Evidence)
      /\ UNCHANGED <<todo, rounds, tasks, controls, trainings, result, evaluated, joined, faults, others>>
  BY DEF Report, arguments
<1>2. Accepted'
  BY <1>1 DEF Accepted, Evidence, TrainingEvidence, EvaluationEvidence, trainings
<1>3. TypeOK' /\ Agenda' /\ Copying' /\ Standin' /\ Sources'
  BY <1>1 DEF IInv, TypeOK, Step, Agenda, Copying, Standin, Sources, trainings
<1>4. Joined'
  BY <1>1 DEF IInv, Report, Joined, SameControls
<1> QED  BY <1>2, <1>3, <1>4 DEF IInv

LEMMA Steps == IInv /\ [Next]_vars => IInv'
<1> SUFFICES ASSUME IInv, [Next]_vars PROVE IInv'  OBVIOUS
<1>1. CASE StartFull
  <2>1. FullRounds \in 1 .. FullRounds /\ FullTasks \in 1 .. FullTasks  BY NatConstants
  <2>2. others' \in 0 .. MaxOther  BY <1>1 DEF StartFull, IInv, TypeOK
  <2>3. FullControls \in Controls /\ "training" \in {"training", "evaluating"}  BY NatConstants
  <2> QED  BY <1>1, <2>1, <2>2, <2>3, StartStep DEF StartFull
<1>2. CASE StartOther
  <2>1. others' \in 0 .. MaxOther  BY <1>2, NatConstants DEF StartOther, IInv, TypeOK
  <2> QED  BY <1>2, <2>1, StartStep DEF StartOther
<1>3. CASE PlainAction
  BY <1>3, PlainStep
<1>4. CASE UNCHANGED vars
  BY <1>4 DEF vars, arguments, trainings, IInv, TypeOK, Agenda, Copying, Joined,
              SameControls, Accepted, Evidence, TrainingEvidence,
              EvaluationEvidence, Standin, Sources
<1> QED
  BY <1>1, <1>2, <1>3, <1>4, SkipStep, PrepareStep, CopyStep, EvaluateStep, ReportStep
  DEF Next, Command, PlainAction, Publishing

\* The directories, what stands in for an evaluation and the report agree in
\* every reachable state: the invariant behind the theorem below.
THEOREM Consistency == Spec => []IInv
<1> QED  BY InitInv, Steps, PTL DEF Spec

\* The variables keep their types.
THEOREM TypeCorrect == Spec => []TypeOK
<1>1. IInv => TypeOK  BY DEF IInv
<1> QED  BY <1>1, Consistency, PTL

\* A report that is accepted describes the whole experiment, whatever commands
\* and faults came before.
THEOREM AcceptedReportIsComplete == Spec => []AcceptedIsComplete
<1>1. IInv => AcceptedIsComplete
  <2> SUFFICES ASSUME IInv, step = "accepted" PROVE AcceptedIsComplete
    BY DEF AcceptedIsComplete
  <2>1. TrainingEvidence /\ EvaluationEvidence  BY DEF IInv, Accepted, Evidence
  <2>2. ASSUME NEW t \in Trainings PROVE published[t] = FullRounds
    BY <2>1, NatConstants DEF TrainingEvidence, IInv, TypeOK
  <2>3. ASSUME NEW c \in Conditions
        PROVE  /\ joined[c].kind = "complete" /\ joined[c].tasks = FullTasks
               /\ joined[c].source = TrainingOf[c]
               /\ TrainingOf[c] # Base => joined[c].version \in 1 .. FullRounds
    BY <2>1, <2>3 DEF EvaluationEvidence, IInv, Sources, Source
  <2>4. ASSUME NEW c \in Conditions, NEW d \in Conditions
        PROVE  joined[c].controls = joined[d].controls
    BY <2>1, <2>4 DEF EvaluationEvidence, IInv, Joined, SameControls
  <2> QED  BY <2>2, <2>3, <2>4 DEF AcceptedIsComplete
<1> QED  BY <1>1, Consistency, PTL
=============================================================================
