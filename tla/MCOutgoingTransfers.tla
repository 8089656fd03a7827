------------------------ MODULE MCOutgoingTransfers ------------------------
(* Bounds for model-checking OutgoingTransfers and the bridge under it:    *)
(* processes come and go with no send, a send and a crash, or two sends.   *)
EXTENDS OutgoingTransfers

MCBounds ==
  {[crashes |-> 1, services |-> 1, presses |-> 2, sends |-> 0],
   [crashes |-> 1, services |-> 1, presses |-> 0, sends |-> 1],
   [crashes |-> 0, services |-> 0, presses |-> 0, sends |-> 2]}
=============================================================================
