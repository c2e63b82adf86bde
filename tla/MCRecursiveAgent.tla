-------------------------- MODULE MCRecursiveAgent --------------------------
(***************************************************************************)
(* Instances of RecursiveAgent for TLC.                                    *)
(***************************************************************************)
EXTENDS RecursiveAgent
=============================================================================
