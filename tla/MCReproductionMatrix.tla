------------------------ MODULE MCReproductionMatrix ------------------------
(***************************************************************************)
(* An instance of ReproductionMatrix for TLC: M1, M2, M4 and A1 with the   *)
(* two trainings they need.                                                *)
(***************************************************************************)
EXTENDS ReproductionMatrix

TwoTrainings == <<"single_trained", "dense_weighted">>

FourConditions == <<"M1", "M2", "M4", "A1">>

MatrixTraining ==
    [c \in {"M1", "M2", "M4", "A1"} |->
        CASE c = "M1" -> "base" [] c = "M2" -> "single_trained" [] OTHER -> "dense_weighted"]

MatrixConfig ==
    [c \in {"M1", "M2", "M4", "A1"} |->
        IF c \in {"M1", "M2"} THEN "single_trained" ELSE "dense_weighted"]

\* Another action profile is another config as well; another source is not.
ProfileAndSource == {"full", "other source", "other profile"}

ConfigOfControls ==
    [x \in ProfileAndSource |-> IF x = "other profile" THEN "existing_harness" ELSE "codeact"]
=============================================================================
