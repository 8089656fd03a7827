------------------------- MODULE MCInputDispatcher -------------------------
(* Bounds for model-checking InputDispatcher. *)
EXTENDS InputDispatcher
=============================================================================
