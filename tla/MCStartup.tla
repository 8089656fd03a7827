----------------------------- MODULE MCStartup -----------------------------
(* Bounds for model-checking Startup: the toggles, the keys and pins, and  *)
(* the doctor, each in a scenario of its own and each with a crash.        *)
EXTENDS Startup, TLC

\* Wayland with every protocol; X11 without ydotoold, where much is amiss.
Wayland == [wayland |-> TRUE, display |-> "live", x11 |-> "live", ydotoold |-> FALSE,
            offers |-> {"dataControl", "virtualInput"}, tools |-> {"ydotool", "opener"},
            online |-> TRUE, disk |-> "enough", dirs |-> "writable", partials |-> FALSE]
MCSessions == {
  Wayland,
  [Wayland EXCEPT !.wayland = FALSE, !.display = "unset", !.offers = {}, !.tools = {},
                  !.online = FALSE, !.disk = "low", !.dirs = "readonly", !.partials = TRUE]}

Bound(pairs) == pairs @@ [b \in Bounded |-> 0]

MCScenarios == {
  Bound("crashes" :> 1 @@ "toggles" :> 3),
  Bound("crashes" :> 2 @@ "dials" :> 2 @@ "rekeys" :> 1),
  Bound("changes" :> 2 @@ "dials" :> 1),
  Bound("crashes" :> 1 @@ "changes" :> 1 @@ "doctors" :> 1)}
=============================================================================
