---------------------------- MODULE PolicyChain ----------------------------
(***************************************************************************)
(* What the synchronous training flywheel promises its callers, with no    *)
(* files, processes or failures in it: a policy is the base model followed *)
(* by the optimizer batches it was trained on, the chain of published      *)
(* policies grows one optimizer step at a time, and no batch is trained    *)
(* twice.                                                                  *)
(***************************************************************************)
EXTENDS Naturals, Sequences

CONSTANT Batch      \* the optimizer batches that can be drawn

VARIABLE chain      \* the batches the newest published policy was trained on

Init == chain = << >>

Publish(b) ==
  /\ \A i \in DOMAIN chain : chain[i] # b
  /\ chain' = Append(chain, b)

Next == \E b \in Batch : Publish(b)

Spec == Init /\ [][Next]_chain
=============================================================================
