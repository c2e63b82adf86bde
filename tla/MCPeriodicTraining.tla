------------------------- MODULE MCPeriodicTraining -------------------------
(***************************************************************************)
(* An instance of PeriodicTraining for TLC.                                *)
(***************************************************************************)
EXTENDS PeriodicTraining

EnoughBatches == 1 .. MaxRounds + MaxFaults

\* The files nothing but training reads: what an evaluation reads of a damaged
\* adapter is compared with nothing.
OptimizerDamage == {"optimizer"}
=============================================================================
