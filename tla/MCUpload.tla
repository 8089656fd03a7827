------------------------------ MODULE MCUpload ------------------------------
(* Bounds for model-checking Upload: every call sends one file. *)
EXTENDS Upload, TLC

CONSTANTS f1, a

OneFile == [c \in Calls |-> f1]
OneName == [f \in Files |-> a]

Faults(drops, changes, restarts) ==
  [drops |-> drops, changes |-> changes, restarts |-> restarts]

\* More attempts than faults; with two drops, the tickets fill the registry.
MCFaults == {Faults(1, 1, 1), Faults(2, 1, 0), Faults(0, 2, 1)}
NoFaults == {Faults(0, 0, 0)}
=============================================================================
