--------------------------- MODULE MCPeerSessions ---------------------------
(* Bounds for model-checking PeerSessions. *)
EXTENDS PeerSessions

\* One stream presents the device's certificate, the others none.
CONSTANTS c1, k1
FirstPresents == [c \in Conns |-> IF c = c1 THEN k1 ELSE NoCert]
=============================================================================
