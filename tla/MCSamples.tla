----------------------------- MODULE MCSamples -----------------------------
(* Samples for TLC: connection slots are interchangeable.                  *)
EXTENDS Samples, TLC

Symmetry == Permutations(Clients)
============================================================================
