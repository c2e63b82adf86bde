-------------------------- MODULE MCRoundCollection --------------------------
(***************************************************************************)
(* An instance of RoundCollection for TLC.                                 *)
(***************************************************************************)
EXTENDS RoundCollection

\* The first rollout of the first task has two generations, in turn or at once.
OneRolloutBranches == [r \in Rollout |-> IF r = <<0, 0>> THEN 2 ELSE 1]
=============================================================================
