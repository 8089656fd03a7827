-------------------------- MODULE MCDesktopBridge --------------------------
(* Bounds for the bridge alone: the daemon starts as a service while the   *)
(* desktop app does.                                                       *)
EXTENDS DesktopBridge

MCBounds == {[crashes |-> 0, services |-> 1, presses |-> 0, sends |-> 0]}
=============================================================================
