------------------------------- MODULE Doctor -------------------------------
(***************************************************************************)
(* The System Doctor: what each check of default_registry reports, and the *)
(* roll-up (daemon/src/diagnostics).  A check reads the session s or the   *)
(* facts its parameters name; wording and data are left out.               *)
(***************************************************************************)
EXTENDS Naturals, Session

Status == {"ok", "warn", "error"}
Severity == [ok |-> 1, warn |-> 2, error |-> 3]
Max(statuses) == CHOOSE t \in statuses : \A u \in statuses : Severity[u] <= Severity[t]

OkIf(holds, otherwise) == IF holds THEN "ok" ELSE otherwise

-----------------------------------------------------------------------------
(* environment.rs *)

DaemonVersion == "ok"
\* A missing directory is created; the other directories are checked the same way.
DirWritable(s) == OkIf(s.dirs # "readonly", "error")
DiskSpace(s) == OkIf(s.disk # "low", "warn")
\* Where load_or_create_db_key, run again, has the key from.
DbEncryptionKeySource(source) ==
  CASE source = "none" -> "error" [] source = "file" -> "warn" [] source = "keyring" -> "ok"

(* network.rs *)

LanAddress(s) == OkIf(s.online, "warn")
\* Something accepts connections on the port.
PortReachable(listening) == OkIf(listening, "error")
\* The files exist, whatever is in them.
TlsCertPresent(certExists, keyExists) == OkIf(certExists /\ keyExists, "error")

(* pairing.rs *)

\* Every row of devices has a fingerprint.
PairedStore(rows, pinned) == OkIf(rows = pinned, "warn")

(* features.rs, logbuf.rs *)

DisplayServer(s) == OkIf(s.display # "unset" \/ s.x11 # "unset", "warn")
OpenerPresent(s) == OkIf("opener" \in s.tools, "warn")
\* Without WAYLAND_DISPLAY the check takes X11 injection for native.
InputBackend(s) == OkIf(s.display = "unset" \/ "ydotool" \in s.tools, "warn")
StuckPartials(s) == OkIf(~s.partials, "warn")
\* The doctor in a terminal captures no log lines.
RecentErrors(errors) == OkIf(errors = 0, "warn")

SessionChecks(s) ==
  {DaemonVersion, DirWritable(s), DiskSpace(s), LanAddress(s), DisplayServer(s),
   OpenerPresent(s), InputBackend(s), StuckPartials(s), RecentErrors(0)}

-----------------------------------------------------------------------------
(* mod.rs, cli.rs *)

RunAll(results) == Max({"ok"} \cup results)
ExitCode(worst) == IF worst = "error" THEN 1 ELSE 0
=============================================================================
