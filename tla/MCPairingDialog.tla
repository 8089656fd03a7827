-------------------------- MODULE MCPairingDialog --------------------------
(* Bounds for model-checking PairingDialog. *)
EXTENDS PairingDialog
=============================================================================
