------------------------------ MODULE Session ------------------------------
(***************************************************************************)
(* The user's session, as the daemon and the doctor see it, and the        *)
(* backends the daemon finds in it at start-up (clipboard/backend.rs,      *)
(* input/backend.rs, wayland_backend.rs of both).                          *)
(***************************************************************************)

\* A display variable names nothing, a socket that is not there, or one that answers.
Display == {"unset", "dead", "live"}

Session == [
  wayland : BOOLEAN,         \* XDG_SESSION_TYPE=wayland
  display : Display,         \* WAYLAND_DISPLAY
  x11 : Display,             \* DISPLAY
  offers : SUBSET {"dataControl", "virtualInput"},  \* protocols of the compositor
  ydotoold : BOOLEAN,        \* its socket exists
  tools : SUBSET {"ydotool", "opener"},             \* on PATH
  online : BOOLEAN,          \* a route and a LAN address
  disk : {"enough", "low", "unknown"},
  dirs : {"writable", "missing", "readonly"},
  partials : BOOLEAN]        \* .part files of interrupted uploads

IsWayland(s) == s.wayland \/ s.display = "live"

WaylandClipboardBackend(s) == s.display = "live" /\ "dataControl" \in s.offers
X11ClipboardBackend(s) == s.x11 = "live"
DetectClipboard(s) == (IsWayland(s) /\ WaylandClipboardBackend(s)) \/ X11ClipboardBackend(s)

WaylandInputBackend(s) == s.display = "live" /\ "virtualInput" \in s.offers
YdotoolBackend(s) == s.ydotoold
DetectInput(s) == (IsWayland(s) /\ WaylandInputBackend(s)) \/ YdotoolBackend(s)

\* capability_list, of what depends on a backend.
Capabilities(s) == {c \in {"clipboard", "input"} :
                      \/ c = "clipboard" /\ DetectClipboard(s)
                      \/ c = "input" /\ DetectInput(s)}
=============================================================================
