----------------------------- MODULE MCPairing -----------------------------
(* Bounds and symmetry for model-checking Pairing. *)
EXTENDS Pairing, TLC

Symmetry == Permutations(Pins) \cup Permutations(Threads) \cup Permutations(Devices)
=============================================================================
