---------------------------- MODULE PhoneSession ----------------------------
(***************************************************************************)
(* The phone's own session with a peer: PairingModel                       *)
(* (mobile/lib/src/state/pairing_model.dart), which dials, pairs, listens  *)
(* to the sync stream, pings, retries and disconnects.  Dart runs between  *)
(* two awaits without interruption: such a stretch is a step.              *)
(*                                                                         *)
(* _grpc, _inboundSub and _outbound are set and cleared together, so grpc  *)
(* stands for the three.  A channel connects with its first call, so that  *)
(* dialling never fails: an unreachable peer shows as a broken stream.     *)
(* Streams that a peer opens to the phone are left out.                    *)
(***************************************************************************)
EXTENDS Naturals, FiniteSets

CONSTANTS
  Peers,
  Channels,       \* bound of the model: GrpcServices in use at once, numbers
  Runs,           \* bound of the model: asynchronous operations at once, numbers
  Absent,         \* null
  SessionBudgets  \* bounds of the model: [taps, outages] of a scenario

ASSUME SessionAssumption ==
  /\ Channels \subseteq Nat /\ Runs \subseteq Nat /\ Absent \notin Peers
  /\ SessionBudgets \subseteq [{"taps", "outages"} -> Nat]

VARIABLES
  grpc,        \* the channel of the session
  activePeer,  \* _activePeer
  connected,   \* what the screens show
  intentional, \* _intentionalDisconnect
  heartbeat,   \* _heartbeatTimer runs
  retry,       \* the peer _reconnectTimer will dial
  pending,     \* the channel of pendingPairing
  run,         \* [Runs -> an operation: where it is, its channel and peer]
  to,          \* [Channels -> the peer dialled]
  stream,      \* [Channels -> the sync stream as the phone hears it]
  ping,        \* [Channels -> the heartbeat's call under way]
  reachable,   \* peers on the network
  chosen,      \* ghost: the peer the user last asked for
  astray,      \* ghost: operations overlapped, or a retry of one peer met a session of another
  sessionLeft  \* what remains of the scenario

fields == <<grpc, connected, heartbeat, retry>>
calls == <<to, stream, ping>>
sessionVars == <<fields, activePeer, intentional, pending, run, calls, reachable, chosen,
                 astray, sessionLeft>>

Rest == [pc |-> "rest", chan |-> Absent, peer |-> Absent]
Busy == {r \in Runs : run[r] # Rest}

SessionTypeOK ==
  /\ {grpc, pending} \subseteq Channels \cup {Absent}
  /\ {activePeer, retry, chosen} \subseteq Peers \cup {Absent}
  /\ {connected, intentional, heartbeat, astray} \subseteq BOOLEAN
  /\ run \in [Runs -> [pc : {"rest", "connecting", "cancelling", "closing"},
                       chan : Channels \cup {Absent}, peer : Peers \cup {Absent}]]
  /\ to \in [Channels -> Peers] /\ reachable \subseteq Peers
  \* Not listened to; alive; half-closed by the phone; without its connection.
  /\ stream \in [Channels -> {"unheard", "open", "halfClosed", "broken"}]
  /\ ping \in [Channels -> {"none", "sent", "doomed"}]

SessionInit ==
  /\ grpc = Absent /\ activePeer = Absent /\ pending = Absent /\ retry = Absent
  /\ connected = FALSE /\ intentional = FALSE /\ heartbeat = FALSE /\ astray = FALSE
  /\ run = [r \in Runs |-> Rest]
  /\ to = [c \in Channels |-> CHOOSE p \in Peers : TRUE]
  /\ stream = [c \in Channels |-> "unheard"] /\ ping = [c \in Channels |-> "none"]
  /\ reachable = Peers /\ chosen = Absent
  /\ sessionLeft \in SessionBudgets

Spent(what) == sessionLeft[what] > 0 /\ sessionLeft' = [sessionLeft EXCEPT ![what] = @ - 1]

Begin(pc, c, p) ==
  \E r \in Runs \ Busy :
    /\ \A other \in Runs \ Busy : r <= other
    /\ run' = [run EXCEPT ![r] = [pc |-> pc, chan |-> c, peer |-> p]]

InUse(c) == \/ c \in {grpc, pending} \cup {run[r].chan : r \in Runs}
            \/ stream[c] # "unheard" \/ ping[c] # "none"
NewChannel(c) == ~InUse(c) /\ \A other \in Channels : other < c => InUse(other)

Unheard(s, c) == IF c = Absent THEN s ELSE [s EXCEPT ![c] = "unheard"]

-----------------------------------------------------------------------------
(* Losing a session. *)

\* "claims _grpc synchronously so a racing detector cannot double-handle".  s is the
\* streams as the detector left them.
HandleConnectionLost(s) ==
  IF intentional \/ grpc = Absent THEN stream' = s /\ UNCHANGED fields
  ELSE /\ grpc' = Absent /\ connected' = FALSE /\ heartbeat' = FALSE
       /\ stream' = Unheard(s, grpc)
       /\ retry' = IF activePeer = Absent THEN retry ELSE activePeer  \* _scheduleReconnect

\* onError or onDone of any stream still listened to, the current one or not.
StreamEnds(c) ==
  /\ stream[c] \in {"halfClosed", "broken"}
  /\ HandleConnectionLost(Unheard(stream, c))
  /\ UNCHANGED <<activePeer, intentional, pending, run, to, ping, reachable, chosen, sessionLeft>>

Heartbeat ==
  /\ heartbeat /\ grpc # Absent /\ ping[grpc] = "none"
  /\ ping' = [ping EXCEPT ![grpc] =
                IF stream[grpc] = "open" /\ to[grpc] \in reachable THEN "sent" ELSE "doomed"]
  /\ UNCHANGED <<fields, activePeer, intentional, pending, run, to, stream, reachable, chosen, sessionLeft>>

PingReturns(c) ==
  /\ ping[c] = "sent"
  /\ ping' = [ping EXCEPT ![c] = "none"]
  /\ UNCHANGED <<fields, activePeer, intentional, pending, run, to, stream, reachable, chosen, sessionLeft>>

\* The failure is taken for one of the current session, whichever was pinged.
PingFails(c) ==
  /\ ping[c] = "doomed"
  /\ ping' = [ping EXCEPT ![c] = "none"]
  /\ HandleConnectionLost(stream)
  /\ UNCHANGED <<activePeer, intentional, pending, run, to, reachable, chosen, sessionLeft>>

-----------------------------------------------------------------------------
(* Operations, from await to await. *)

\* _teardownConnection up to its first await.
StartTeardown ==
  /\ heartbeat' = FALSE /\ stream' = Unheard(stream, grpc)
  /\ UNCHANGED <<grpc, connected, to, ping>>

\* The user's Connect.  After a Disconnect it returns at once, until the next pairing.
Connect(p) ==
  /\ Spent("taps") /\ ~intentional
  /\ Begin("connecting", Absent, p)
  /\ chosen' = p
  /\ UNCHANGED <<fields, activePeer, intentional, pending, calls, reachable>>

RetryFires ==
  /\ retry # Absent /\ retry' = Absent
  /\ IF intentional THEN UNCHANGED run ELSE Begin("connecting", Absent, retry)
  /\ UNCHANGED <<grpc, connected, heartbeat, activePeer, intentional, pending, calls,
                 reachable, chosen, sessionLeft>>

\* reconnectToPeer has its channel and enters _activate.
Dialled(r) ==
  /\ run[r].pc = "connecting"
  /\ \E c \in Channels :
       /\ NewChannel(c)
       /\ run' = [run EXCEPT ![r] = [pc |-> "cancelling", chan |-> c, peer |-> @.peer]]
       /\ to' = [to EXCEPT ![c] = run[r].peer]
  /\ heartbeat' = FALSE /\ stream' = Unheard(stream, grpc)
  /\ UNCHANGED <<grpc, connected, retry, activePeer, intentional, pending, ping, reachable,
                 chosen, sessionLeft>>

\* The peer shows its PIN; a pairing given up before is forgotten.
StartPair(p) ==
  /\ Spent("taps") /\ p \in reachable
  /\ \A r \in Runs : pending # Absent => run[r].chan # pending
  /\ \E c \in Channels :
       NewChannel(c) /\ pending' = c /\ to' = [to EXCEPT ![c] = p]
  /\ UNCHANGED <<fields, activePeer, intentional, run, stream, ping, reachable, chosen>>

\* The PIN is right.  A wrong one changes nothing.
ConfirmPin ==
  /\ pending # Absent /\ to[pending] \in reachable
  /\ \A r \in Runs : run[r].chan # pending
  /\ Begin("cancelling", pending, to[pending])
  /\ chosen' = to[pending]
  /\ StartTeardown
  /\ UNCHANGED <<retry, activePeer, intentional, pending, reachable, sessionLeft>>

Disconnect ==
  /\ Spent("taps")
  /\ intentional' = TRUE /\ retry' = Absent /\ activePeer' = Absent /\ chosen' = Absent
  /\ Begin("cancelling", Absent, Absent)
  /\ StartTeardown
  /\ UNCHANGED <<pending, reachable>>

\* _outbound is closed, and then _grpc shut down: those of the moment, which need not be
\* those of the start.  Nothing the model tells apart lies between the two awaits.
CloseOutbound(r) ==
  /\ run[r].pc = "cancelling"
  /\ run' = [run EXCEPT ![r].pc = "closing"]
  /\ stream' = IF grpc # Absent /\ stream[grpc] = "open"
               THEN [stream EXCEPT ![grpc] = "halfClosed"] ELSE stream
  /\ UNCHANGED <<fields, activePeer, intentional, pending, to, ping, reachable, chosen, sessionLeft>>

\* The rest of _activate, and what its callers do next.
ActivateSilentMut(r) ==
  LET c == run[r].chan  p == run[r].peer IN
    /\ run[r].pc = "closing" /\ c # Absent
    /\ run' = [run EXCEPT ![r] = Rest]
    /\ intentional' = FALSE /\ grpc' = c /\ connected' = TRUE /\ activePeer' = p
    /\ stream' = [stream EXCEPT ![c] = IF p \in reachable THEN "open" ELSE "broken"]
    /\ pending' = IF pending = c THEN Absent ELSE pending
    /\ UNCHANGED <<heartbeat, retry, to, ping, reachable, chosen, sessionLeft>>
Activate(r) ==
  LET c == run[r].chan  p == run[r].peer IN
    /\ run[r].pc = "closing" /\ c # Absent
    /\ run' = [run EXCEPT ![r] = Rest]
    /\ intentional' = FALSE /\ grpc' = c /\ connected' = TRUE /\ heartbeat' = TRUE
    /\ activePeer' = p
    /\ stream' = [stream EXCEPT ![c] = IF p \in reachable THEN "open" ELSE "broken"]
    /\ pending' = IF pending = c THEN Absent ELSE pending
    /\ UNCHANGED <<retry, to, ping, reachable, chosen, sessionLeft>>

Disconnected(r) ==
  /\ run[r].pc = "closing" /\ run[r].chan = Absent
  /\ run' = [run EXCEPT ![r] = Rest]
  /\ grpc' = Absent /\ connected' = FALSE
  /\ UNCHANGED <<heartbeat, retry, activePeer, intentional, pending, calls, reachable, chosen, sessionLeft>>

-----------------------------------------------------------------------------
(* The network.  A peer that goes says nothing: its calls hang until they fail. *)

PeerGoes(p) ==
  /\ Spent("outages") /\ p \in reachable
  /\ reachable' = reachable \ {p}
  /\ stream' = [c \in Channels |-> IF to[c] = p /\ stream[c] # "unheard" THEN "broken" ELSE stream[c]]
  /\ ping' = [c \in Channels |-> IF to[c] = p /\ ping[c] = "sent" THEN "doomed" ELSE ping[c]]
  /\ UNCHANGED <<fields, activePeer, intentional, pending, run, to, chosen>>

PeerReturns(p) ==
  /\ p \notin reachable /\ reachable' = reachable \cup {p}
  /\ UNCHANGED <<fields, activePeer, intentional, pending, run, calls, chosen, sessionLeft>>

-----------------------------------------------------------------------------
MarkAstray ==
  astray' = (astray \/ Cardinality(Busy') > 1
                    \/ (grpc' # Absent /\ retry' \notin {Absent, to'[grpc']}))

Step(A) == A /\ MarkAstray
Operation(r) == Dialled(r) \/ CloseOutbound(r) \/ Activate(r) \/ Disconnected(r)

SessionNext ==
  Step(\/ \E c \in Channels : StreamEnds(c) \/ PingReturns(c) \/ PingFails(c)
       \/ \E r \in Runs : Operation(r)
       \/ \E p \in Peers : Connect(p) \/ StartPair(p) \/ PeerGoes(p) \/ PeerReturns(p)
       \/ Heartbeat \/ RetryFires \/ ConfirmPin \/ Disconnect)

\* Timers fire, awaited calls return, and a ping is answered or fails.  The end
\* of a silent stream need never be heard.
SessionFairness ==
  /\ WF_sessionVars(Step(RetryFires)) /\ WF_sessionVars(Step(Heartbeat))
  /\ \A r \in Runs : WF_sessionVars(Step(Operation(r)))
  /\ \A c \in Channels : WF_sessionVars(Step(PingReturns(c) \/ PingFails(c)))

-----------------------------------------------------------------------------
\* The phone ends up as its user asked: after Disconnect nothing is heard or retried, and
\* a chosen peer within reach is the one in session, on the one stream listened to,
\* however often it was lost (pairing_model.dart:581, :669).
Settled ==
  /\ \A c \in Channels : stream[c] # "unheard" => c = grpc
  /\ chosen = Absent => grpc = Absent /\ retry = Absent /\ ~connected
  /\ chosen \in reachable =>
       grpc # Absent /\ connected /\ to[grpc] = chosen /\ stream[grpc] = "open"
SessionSettles == <>[](astray \/ Settled)
=============================================================================
