------------------------- MODULE MCAsyncCoordinator -------------------------
(***************************************************************************)
(* An instance of AsyncCoordinator for TLC.  Groups are interchangeable,   *)
(* but the run has a liveness property, so no symmetry is declared.        *)
(***************************************************************************)
EXTENDS AsyncCoordinator

CONSTANTS g1, g2, g3, g4
=============================================================================
