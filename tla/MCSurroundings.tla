-------------------------- MODULE MCSurroundings ---------------------------
(***************************************************************************)
(* What surrounds the sessions: the mirrored notifications, the devices    *)
(* nearby, and the Wayland clipboard and input backends.  They share no    *)
(* state, so each is explored in scenarios of its own.                     *)
(***************************************************************************)
EXTENDS Mirror, Discovery, WaylandClipboard, InputBackends, TLC

VARIABLE part  \* the component whose scenario this is

Bound(names, pairs) == pairs @@ [b \in names |-> 0]

MirrorBound(pairs) ==
  Bound({"posts", "clears", "grants", "changes", "drops", "dismissals", "polls",
         "switches", "faults", "locales"}, pairs)
MCMirrorScenarios == {
  MirrorBound("posts" :> 2 @@ "dismissals" :> 1 @@ "polls" :> 1),
  MirrorBound("posts" :> 2 @@ "clears" :> 2 @@ "dismissals" :> 1),
  MirrorBound("posts" :> 2 @@ "clears" :> 1 @@ "dismissals" :> 2),
  MirrorBound("posts" :> 2 @@ "dismissals" :> 1 @@ "drops" :> 1),
  MirrorBound("switches" :> 3 @@ "polls" :> 1),
  MirrorBound("switches" :> 2 @@ "locales" :> 1 @@ "faults" :> 1),
  MirrorBound("changes" :> 2 @@ "drops" :> 1),
  MirrorBound("posts" :> 2 @@ "clears" :> 2 @@ "dismissals" :> 1 @@ "grants" :> 2)}

NearbyBound(pairs) == Bound({"resolves", "removals", "unnamed", "ticks"}, pairs)
MCNearbyBudgets == {
  NearbyBound("resolves" :> 4 @@ "removals" :> 1),
  NearbyBound("resolves" :> 3 @@ "removals" :> 1 @@ "ticks" :> 3),
  NearbyBound("resolves" :> 1 @@ "removals" :> 1 @@ "unnamed" :> 1)}

CopyBound(pairs) == Bound({"copies", "pastes", "faults", "losses", "sets"}, pairs)
MCCopyBudgets == {
  CopyBound("copies" :> 3 @@ "sets" :> 1),
  CopyBound("copies" :> 1 @@ "sets" :> 2 @@ "pastes" :> 1),
  CopyBound("copies" :> 2 @@ "sets" :> 1 @@ "faults" :> 1),
  CopyBound("copies" :> 1 @@ "sets" :> 1 @@ "losses" :> 1)}

\* Three keysyms on one key, the third on a level that Shift does not reach,
\* and one that two keys have.
MCLayout == << <<"a", "A", "b">>, <<"A", "1">> >>

Wlroots == [wayland |-> TRUE, keymap |-> TRUE, ydotoold |-> TRUE, globals |-> Interfaces,
            modes |-> << [size |-> 2, current |-> FALSE], [size |-> 4, current |-> TRUE],
                         [size |-> 3, current |-> FALSE] >>,
            x11 |-> Unknown, env |-> 3]
PadScenario(sess, pairs) ==
  [session |-> sess, budgets |-> Bound({"presses", "drops", "moves", "faults"}, pairs)]
MCPadScenarios == {
  PadScenario(Wlroots, "presses" :> 3 @@ "drops" :> 1),
  PadScenario([Wlroots EXCEPT !.globals = @ \ {"output"}], "moves" :> 2),
  PadScenario([Wlroots EXCEPT !.keymap = FALSE], "presses" :> 1 @@ "drops" :> 1 @@ "moves" :> 1),
  PadScenario([Wlroots EXCEPT !.wayland = FALSE, !.x11 = 2], "presses" :> 2 @@ "faults" :> 1),
  PadScenario([Wlroots EXCEPT !.globals = {}, !.ydotoold = FALSE], "moves" :> 1)}

-----------------------------------------------------------------------------
Init == /\ MirrorInit /\ NearbyInit /\ CopyInit /\ PadInit
        /\ part \in {"mirror", "nearby", "copy", "pad"}
        \* The other parts' budgets are unused: one value of each will do.
        /\ part # "mirror" => mirrorLeft = CHOOSE b \in MirrorScenarios : TRUE
        /\ part # "mirror" => level = CHOOSE l \in Levels : TRUE
        /\ part # "nearby" => nearbyLeft = CHOOSE b \in NearbyBudgets : TRUE
        /\ part # "copy" => copyLeft = CHOOSE b \in CopyBudgets : TRUE
        /\ part # "pad" => [session |-> session, budgets |-> padLeft] = CHOOSE s \in PadScenarios : TRUE

Next ==
  \/ part = "mirror" /\ MirrorNext /\ UNCHANGED <<nearbyVars, clipVars, padVars, part>>
  \/ part = "nearby" /\ NearbyNext /\ UNCHANGED <<mirrorVars, clipVars, padVars, part>>
  \/ part = "copy" /\ CopyNext /\ UNCHANGED <<mirrorVars, nearbyVars, padVars, part>>
  \/ part = "pad" /\ PadNext /\ UNCHANGED <<mirrorVars, nearbyVars, clipVars, part>>

allVars == <<mirrorVars, nearbyVars, clipVars, padVars, part>>

\* No action that is fair is enabled in a part that rests in its initial state.
Spec == Init /\ [][Next]_allVars /\ MirrorFairness /\ CopyFairness
=============================================================================
