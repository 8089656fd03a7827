--------------------------- MODULE DesktopBridge ---------------------------
(***************************************************************************)
(* The desktop app and the local daemon's process: the bridge task that    *)
(* connects and reconnects (src-tauri events.rs), the client the commands  *)
(* borrow (state.rs), start_daemon and stop_daemon (commands.rs), and how  *)
(* the panel learns whether it is connected (useDaemon.ts).                *)
(***************************************************************************)
EXTENDS Naturals

CONSTANTS
  Procs,      \* every process that ever runs connectibled
  Callers,    \* concurrent calls of start_daemon: the launch effect, the Settings button
  Launch,     \* the launch effect among the Callers
  Bounds,     \* what `left` may start with
  None

ASSUME BridgeAssumption ==
  /\ None \notin Procs /\ Launch \in Callers
  /\ Bounds \subseteq [crashes : Nat, services : Nat, presses : Nat, sends : Nat]

VARIABLES
  procs,      \* [Procs -> {"unused", "launched", "serving", "dead"}]
  child,      \* DAEMON_PROCESS
  calls,      \* [Callers -> where that call of start_daemon is]
  client,     \* AppState.inner: the process its connection leads to
  bridge,     \* the bridge task: where it is and the process it talks to
  panel,      \* the webview: its flag, its question at launch, its listener
  left        \* bounds: faults and requests still allowed

bridgeVars == <<procs, child, calls, client, bridge, panel, left>>

BridgeInit ==
  /\ left \in Bounds
  /\ procs = [p \in Procs |-> "unused"]
  /\ child = None
  /\ calls = [c \in Callers |-> "idle"]
  /\ client = None
  /\ bridge = [at |-> "connect", to |-> None]
  /\ panel = [connected |-> FALSE, asked |-> "no", listens |-> FALSE]

Serving == {p \in Procs : procs[p] = "serving"}
\* Process ids are given out in an order that does not matter.
Fresh(p) == procs[p] = "unused" /\ p = CHOOSE q \in Procs : procs[q] = "unused"
Spend(what) == left[what] > 0 /\ left' = [left EXCEPT ![what] = @ - 1]

-----------------------------------------------------------------------------
(* The process. One of them at a time holds the port. *)

\* systemd, or a shell.
ServiceStarts(p) ==
  /\ Fresh(p) /\ Spend("services")
  /\ procs' = [procs EXCEPT ![p] = "launched"]
  /\ UNCHANGED <<child, calls, client, bridge, panel>>

Bind(p) ==
  /\ procs[p] = "launched"
  /\ procs' = [procs EXCEPT ![p] = IF Serving = {} THEN "serving" ELSE "dead"]
  /\ UNCHANGED <<child, calls, client, bridge, panel, left>>

Crash(p) ==
  /\ procs[p] \in {"launched", "serving"} /\ Spend("crashes")
  /\ procs' = [procs EXCEPT ![p] = "dead"]
  /\ UNCHANGED <<child, calls, client, bridge, panel>>

PressStart(c) ==
  /\ c # Launch /\ calls[c] = "idle" /\ Spend("presses")
  /\ calls' = [calls EXCEPT ![c] = "called"]
  /\ UNCHANGED <<procs, child, client, bridge, panel>>

\* daemon_status: a connection that succeeds is a running daemon.
CheckRunning(c) ==
  /\ calls[c] = "called"
  /\ calls' = [calls EXCEPT ![c] = IF Serving = {} THEN "spawn" ELSE "idle"]
  /\ UNCHANGED <<procs, child, client, bridge, panel, left>>

\* The handle of an earlier child is overwritten.
Spawn(c) ==
  /\ calls[c] = "spawn"
  /\ \E p \in Procs : /\ Fresh(p)
                      /\ procs' = [procs EXCEPT ![p] = "launched"]
                      /\ child' = p
  /\ calls' = [calls EXCEPT ![c] = "idle"]
  /\ UNCHANGED <<client, bridge, panel, left>>

PressStop ==
  /\ child # None /\ Spend("presses")
  /\ procs' = [procs EXCEPT ![child] = "dead"]
  /\ child' = None
  /\ UNCHANGED <<calls, client, bridge, panel>>

-----------------------------------------------------------------------------
(* The bridge. An event reaches the webview if it already listens.         *)
(* The sleep between two rounds, 500 ms to 30 s, is a step like another.   *)

Emit(connected) ==
  panel' = IF panel.listens THEN [panel EXCEPT !.connected = connected] ELSE panel

Connect ==
  /\ bridge.at = "connect"
  /\ \E p \in Serving : /\ client' = p
                        /\ bridge' = [at |-> "subscribe", to |-> p]
  /\ Emit(TRUE)
  /\ UNCHANGED <<procs, child, calls, left>>

ConnectFailsMut ==
  /\ bridge.at = "connect" /\ Serving = {}
  /\ bridge' = [bridge EXCEPT !.at = "returned"]
  /\ UNCHANGED <<procs, child, calls, client, panel, left>>
ConnectFails ==
  /\ bridge.at = "connect" /\ Serving = {}
  /\ bridge' = [bridge EXCEPT !.at = "clear"]
  /\ UNCHANGED <<procs, child, calls, client, panel, left>>

\* The channel reconnects by itself: another process may answer this call.
Subscribe ==
  /\ bridge.at = "subscribe"
  /\ \E p \in Serving : /\ bridge' = [at |-> "pump", to |-> p]
                        /\ client' = p
  /\ UNCHANGED <<procs, child, calls, panel, left>>

SubscribeFails ==
  /\ bridge.at = "subscribe" /\ bridge.to \notin Serving
  /\ bridge' = [bridge EXCEPT !.at = "clear"]
  /\ UNCHANGED <<procs, child, calls, client, panel, left>>

StreamEnds ==
  /\ bridge.at = "pump" /\ bridge.to \notin Serving
  /\ bridge' = [bridge EXCEPT !.at = "clear"]
  /\ UNCHANGED <<procs, child, calls, client, panel, left>>

Clear ==
  /\ bridge.at = "clear"
  /\ bridge' = [at |-> "connect", to |-> None]
  /\ client' = None
  /\ Emit(FALSE)
  /\ UNCHANGED <<procs, child, calls, left>>

-----------------------------------------------------------------------------
(* The panel at launch: it asks for the state and registers its listener,  *)
(* two calls into the Rust side that are answered independently.           *)

Ask ==
  /\ panel.asked = "no"
  /\ panel' = [panel EXCEPT !.asked = IF client # None THEN "yes" ELSE "offline"]
  /\ UNCHANGED <<procs, child, calls, client, bridge, left>>

Listen ==
  /\ ~panel.listens
  /\ panel' = [panel EXCEPT !.listens = TRUE]
  /\ UNCHANGED <<procs, child, calls, client, bridge, left>>

AnsweredYes ==
  /\ panel.asked = "yes"
  /\ panel' = [panel EXCEPT !.asked = "done", !.connected = TRUE]
  /\ UNCHANGED <<procs, child, calls, client, bridge, left>>

AnsweredOffline ==
  /\ panel.asked = "offline"
  /\ panel' = [panel EXCEPT !.asked = "done"]
  /\ calls' = [calls EXCEPT ![Launch] = "called"]
  /\ UNCHANGED <<procs, child, client, bridge, left>>

BridgeNext ==
  \/ \E p \in Procs : ServiceStarts(p) \/ Bind(p) \/ Crash(p)
  \/ \E c \in Callers : PressStart(c) \/ CheckRunning(c) \/ Spawn(c)
  \/ PressStop
  \/ Connect \/ ConnectFails \/ Subscribe \/ SubscribeFails \/ StreamEnds \/ Clear
  \/ Ask \/ Listen \/ AnsweredYes \/ AnsweredOffline

\* The bridge task and the webview are scheduled; a process reaches its bind.
BridgeFairness ==
  /\ WF_bridgeVars(Connect \/ ConnectFails \/ Subscribe \/ SubscribeFails \/ StreamEnds
                       \/ Clear)
  /\ WF_bridgeVars(Ask \/ AnsweredYes \/ AnsweredOffline)
  /\ WF_bridgeVars(Listen)
  /\ \A p \in Procs : WF_bridgeVars(Bind(p))
  /\ \A c \in Callers : WF_bridgeVars(CheckRunning(c))

BridgeSpec == BridgeInit /\ [][BridgeNext]_bridgeVars /\ BridgeFairness

(* A daemon that stays up is in the end the one the commands talk to,      *)
(* whatever was started, stopped, spawned twice or crashed before.         *)
ClientFollowsDaemon ==
  \A p \in Procs : <>[](p \in Serving) => <>[](client = p)

(* Its panel half: with a daemon that stays up the panel leaves its        *)
(* connecting screen. Refuted: the event may be emitted after the panel    *)
(* has been told "not connected" and before its listener is registered.    *)
PanelLearns ==
  \A p \in Procs : <>[](p \in Serving) => <>[]panel.connected
=============================================================================
