--------------------------- MODULE InputBackends ---------------------------
(***************************************************************************)
(* What applies remote input (input/backend.rs, input/wayland_backend.rs): *)
(* the choice of a backend, and its calls in the order the dispatcher      *)
(* makes them.  Several phones type at once; each sends the press and the  *)
(* release of a key or button as two frames.                               *)
(***************************************************************************)
EXTENDS Integers, Sequences, Functions

CONSTANTS
  Phones,
  NoKey,
  Layout,      \* the US keymap: keycode -> its keysyms, level by level
  Buttons,     \* left, right, middle
  Strangers,   \* keysyms the layout lacks, and MouseButton::Unspecified
  Unknown,     \* no screen size
  Fallback,    \* FALLBACK_OUTPUT_SIZE and FALLBACK_SCREEN_SIZE
  Unit,        \* a coordinate of 1.0
  PadScenarios \* bounds of the model: the session, and a record of budgets

Interfaces == {"pointer_manager", "keyboard_manager", "seat", "output"}
Keysyms == UNION {Range(Layout[c]) : c \in DOMAIN Layout}

Sizes == Nat \cup {Unknown}
Environment == [wayland : BOOLEAN, keymap : BOOLEAN, ydotoold : BOOLEAN, globals : SUBSET Interfaces,
                modes : Seq([size : Nat, current : BOOLEAN]), x11 : Sizes, env : Sizes]

ASSUME InputBackendsAssumption ==
  /\ Unit \in Nat \ {0} /\ Fallback \in Nat /\ Unknown \notin Nat
  /\ Layout \in Seq(Seq(Keysyms)) /\ NoKey \notin Keysyms \cup Buttons \cup Strangers
  /\ Buttons \cap (Keysyms \cup Strangers) = {} /\ Strangers \cap Keysyms = {}
  /\ \A s \in PadScenarios : s.session \in Environment

VARIABLES
  session, \* what the environment offers
  backend, \* "starting", "wayland", "ydotool" or "none"
  extent,  \* the screen's size, in pixels
  typing,  \* [Phones -> what the phone sent a press of and no release yet]
  calls,   \* the events the dispatcher hands on, in order
  keysDown, \* keycodes and buttons that are down
  shift,   \* the virtual keyboard's modifiers
  cursor,
  padLeft, \* budgets
  open,    \* ghost: [Phones -> the press that was applied and not released]
  unreleased, \* ghost: what was pressed and the release never came
  typed    \* ghost: the last key typed, asked for and got

padVars == <<session, backend, extent, typing, calls, keysDown, shift, cursor, padLeft, open, unreleased, typed>>

Idle == [p \in Phones |-> NoKey]

PadInit ==
  /\ \E s \in PadScenarios : session = s.session /\ padLeft = s.budgets
  /\ backend = "starting" /\ extent = Fallback
  /\ typing = Idle /\ calls = <<>>
  /\ keysDown = {} /\ shift = FALSE /\ cursor = 0
  /\ open = Idle /\ unreleased = {} /\ typed = [asked |-> NoKey, got |-> NoKey, alone |-> TRUE]

PadSpend(what) ==
  /\ padLeft[what] > 0
  /\ padLeft' = [padLeft EXCEPT ![what] = @ - 1]

-----------------------------------------------------------------------------
(* detect_backend. *)

\* wl_output's modes: the last that is marked current, or else the first.
OutputSize(modes) ==
  LET last == {n \in DOMAIN modes : modes[n].current /\ \A i \in (n + 1)..Len(modes) : ~modes[i].current}
  IN IF last # {} THEN modes[CHOOSE n \in last : TRUE].size
     ELSE IF modes # <<>> THEN modes[1].size ELSE Unknown

Known(size) == IF size = Unknown THEN Fallback ELSE size

\* resolve_screen_size: X11's answer, the environment's, or the fallback.
ScreenSize == Known(IF session.x11 # Unknown THEN session.x11 ELSE session.env)

\* WaylandInputBackend::new: only the output may be missing.
Virtual ==
  /\ session.wayland /\ session.keymap
  /\ Interfaces \ {"output"} \subseteq session.globals

DetectWayland ==
  /\ backend = "starting" /\ Virtual
  /\ backend' = "wayland"
  /\ extent' = Known(IF "output" \in session.globals THEN OutputSize(session.modes) ELSE Unknown)
  /\ UNCHANGED <<session, typing, calls, keysDown, shift, cursor, padLeft, open, unreleased, typed>>

\* Otherwise ydotool, or no remote input at all.
DetectYdotool ==
  /\ backend = "starting" /\ ~Virtual
  /\ backend' = IF session.ydotoold THEN "ydotool" ELSE "none"
  /\ extent' = ScreenSize
  /\ UNCHANGED <<session, typing, calls, keysDown, shift, cursor, padLeft, open, unreleased, typed>>

-----------------------------------------------------------------------------
(* The phones, through the dispatcher. *)

Call(p, what, pressed) == [kind |-> "press", by |-> p, what |-> what, pressed |-> pressed]

SendPress(p, what) ==
  /\ backend \in {"wayland", "ydotool"} /\ typing[p] = NoKey /\ PadSpend("presses")
  /\ typing' = [typing EXCEPT ![p] = what]
  /\ calls' = Append(calls, Call(p, what, TRUE))
  /\ UNCHANGED <<session, backend, extent, keysDown, shift, cursor, open, unreleased, typed>>

\* The release follows at once, unless the session ends in between.
SendRelease(p) ==
  /\ typing[p] # NoKey
  /\ typing' = [typing EXCEPT ![p] = NoKey]
  /\ \/ calls' = Append(calls, Call(p, typing[p], FALSE)) /\ UNCHANGED <<unreleased, padLeft>>
     \/ unreleased' = unreleased \cup {typing[p]} /\ UNCHANGED calls /\ PadSpend("drops")
  /\ UNCHANGED <<session, backend, extent, keysDown, shift, cursor, open, typed>>

SendMove(x) ==
  /\ backend \in {"wayland", "ydotool"} /\ PadSpend("moves")
  /\ calls' = Append(calls, [kind |-> "move", x |-> x])
  /\ UNCHANGED <<session, backend, extent, typing, keysDown, shift, cursor, open, unreleased, typed>>

-----------------------------------------------------------------------------
(* The backend. *)

\* KeyLookup::build: the first keycode, and its lowest level, that has keysym k.
Place(k) ==
  LET places == UNION {{c} \X {l \in DOMAIN Layout[c] : Layout[c][l] = k} : c \in DOMAIN Layout}
  IN CHOOSE p \in places : \A q \in places : p[1] < q[1] \/ (p[1] = q[1] /\ p[2] <= q[2])
\* What k presses on this backend: ydotool takes the keysym for a keycode.
Pressing(k) ==
  IF backend = "wayland" /\ k \in Keysyms THEN <<"keycode", Place(k)[1]>> ELSE <<"as sent", k>>
NeedsShift(k) == k \in Keysyms /\ Place(k)[2] > 1

\* What a client gets when keycode c goes down.
Got(c, shifted) == IF shifted /\ Len(Layout[c]) > 1 THEN Layout[c][2] ELSE Layout[c][1]

Applying(kind) == calls # <<>> /\ Head(calls).kind = kind /\ calls' = Tail(calls)

\* The modifiers once the key itself went down or up.
ShiftAfterMut(k, pressed) == shift \/ (NeedsShift(k) /\ pressed)
ShiftAfter(k, pressed) == IF NeedsShift(k) THEN pressed ELSE shift

\* key and mouse_button: Shift goes down before a press that needs it, and up
\* after its release.
Apply ==
  /\ Applying("press")
  /\ LET c == Head(calls)
         keyed == backend = "wayland" /\ c.what \in Keysyms
     IN /\ c.what \notin Strangers
        /\ keysDown' = IF c.pressed THEN keysDown \cup {Pressing(c.what)} ELSE keysDown \ {Pressing(c.what)}
        /\ shift' = IF keyed THEN ShiftAfter(c.what, c.pressed) ELSE shift
        /\ open' = [open EXCEPT ![c.by] = IF c.pressed THEN c.what ELSE NoKey]
        /\ typed' = IF keyed /\ c.pressed
                    THEN [asked |-> c.what, got |-> Got(Place(c.what)[1], shift'),
                          alone |-> unreleased = {} /\ \A p \in Phones \ {c.by} : open[p] = NoKey]
                    ELSE typed
  /\ UNCHANGED <<session, backend, extent, typing, cursor, padLeft, unreleased>>

\* Unspecified buttons and keysyms without a keycode do nothing.
Skip ==
  /\ Applying("press") /\ Head(calls).what \in Strangers
  /\ UNCHANGED <<session, backend, extent, typing, keysDown, shift, cursor, padLeft, open, unreleased, typed>>

\* ydotool does not run, or fails: the dispatcher logs it and goes on.
RunFails ==
  /\ backend = "ydotool" /\ PadSpend("faults")
  /\ Applying("press")
  /\ LET c == Head(calls)
     IN /\ unreleased' = IF c.pressed THEN unreleased ELSE unreleased \cup {c.what}
        /\ open' = IF c.pressed THEN open ELSE [open EXCEPT ![c.by] = NoKey]
  /\ UNCHANGED <<session, backend, extent, typing, keysDown, shift, cursor, typed>>

\* mouse_move: clamped, then scaled to pixels.
Clamped(x) == IF x < 0 THEN 0 ELSE IF x > Unit THEN Unit ELSE x
Move ==
  /\ Applying("move")
  /\ cursor' = (Clamped(Head(calls).x) * extent) \div Unit
  /\ UNCHANGED <<session, backend, extent, typing, keysDown, shift, padLeft, open, unreleased, typed>>

PadNext ==
  \/ DetectWayland \/ DetectYdotool
  \/ \E p \in Phones : SendRelease(p) \/ \E k \in Keysyms \cup Buttons \cup Strangers : SendPress(p, k)
  \/ \E x \in {-1, 0, 1, Unit + 1} : SendMove(x)
  \/ Apply \/ Skip \/ RunFails \/ Move

PadSpec == PadInit /\ [][PadNext]_padVars

-----------------------------------------------------------------------------
(* Properties. *)

\* However the keystrokes of several phones interleave, nothing stays down, and
\* Shift does not stay down, without a press that explains it; and a key typed
\* while nothing else is down is the key that was asked for, if plain or Shift
\* levels have it.
KeyboardFollowsPhones ==
  LET pressed == ({open[p] : p \in Phones} \ {NoKey}) \cup unreleased
  IN /\ keysDown \subseteq {Pressing(k) : k \in pressed}
     /\ shift => \E k \in pressed : NeedsShift(k)
     /\ (typed.alone /\ typed.asked # NoKey /\ Place(typed.asked)[2] <= 2) => typed.got = typed.asked
     /\ cursor \in 0..extent
=============================================================================
