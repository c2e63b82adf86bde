--------------------------- MODULE MCSyncFlywheel ---------------------------
(***************************************************************************)
(* Instances of SyncFlywheel for TLC.                                      *)
(***************************************************************************)
EXTENDS SyncFlywheel

\* Every target, so that a run may ask for fewer rounds than are published.
AnyTarget == 1 .. MaxRounds

\* A driver that always asks for the last round.
LastTarget == {MaxRounds}

\* Each batch drawn is published or is lost to a fault: this many are enough.
EnoughBatches == 1 .. MaxRounds + MaxFaults

AnyDamage == {"adapter", "optimizer", "batch"}

NoDamage == {}
=============================================================================
