------------------------------- MODULE Mirror -------------------------------
(***************************************************************************)
(* The phone's notifications and battery on the desktop: the phone's       *)
(* NotificationModel and BatteryModel over Android's listener, the         *)
(* daemon's StatusHub with dismiss_notification, and the panel that        *)
(* applies events one by one and snapshots whole.  The clipboard-sync flag *)
(* is shown and switched in two places, the panel and the tray menu.       *)
(***************************************************************************)
EXTENDS Integers, SequencesExt

CONSTANTS
  Ids,            \* notification ids: package, tag and id
  Levels,         \* battery readings
  Refreshes,      \* the panel's refresh() calls that may overlap
  NoSnapshot,
  Switches,       \* clicks on a clipboard-sync switch that may overlap
  Window,         \* the one of them in the panel; the others are the tray's
  MaxForwarded,   \* ids remembered for either purpose (512)
  EventCap,       \* capacity of the hub's broadcast channel (32)
  MirrorScenarios \* what the surroundings do: a record of budgets

ASSUME MirrorAssumption ==
  MaxForwarded \in Nat \ {0} /\ EventCap \in Nat \ {0} /\ Window \in Switches

VARIABLES
  tray,       \* ids the phone shows
  osq,        \* listener events the model has yet to handle
  cancels,    \* ids whose cancel call is on its way to Android
  access,     \* "Notification access" is granted: the listener is bound
  activeKeys, \* ids the listener knows Android's own key of
  connected,  \* the phone's session with the daemon
  forwarded,  \* ids a post was sent for, oldest first
  suppress,   \* ids whose next removal is our own, oldest first
  level,      \* the phone's battery
  readings,   \* readings taken and not yet sent
  up,         \* frames from phone to daemon
  down,       \* dismissals from daemon to phone
  hub,        \* StatusHub: [list: ids in order of arrival, battery], and the flag: sync
  ui,         \* ids dismiss_notification applied and has yet to broadcast
  stream,     \* events between the hub and the panel
  panel,      \* what the panel shows: [list, battery, sync]
  snapshot,   \* [Refreshes -> the state a refresh() was answered with]
  clicks,     \* [Switches -> the call of set_clipboard_sync_enabled]
  box,        \* the check mark in the tray's menu
  relabels,   \* calls of update_tray on their way: what to show
  astray,     \* ghost: two clicks overlapped, or a flipped mark got no answer
  mirrorLeft, \* budgets
  raced       \* ghost: ids of which a step crossed another or was not seen

phone == <<tray, osq, cancels, access, activeKeys, forwarded, suppress, level, readings>>
daemon == <<hub, ui>>
switches == <<clicks, box, relabels, astray>>
view == <<panel, snapshot, switches>>
mirrorVars == <<tray, osq, cancels, access, activeKeys, connected, forwarded, suppress, level, readings,
                up, down, hub, ui, stream, view, mirrorLeft, raced>>

Showing(list, reading, flag) == [list |-> list, battery |-> reading, sync |-> flag]
Note(i, dismissal) == [kind |-> "note", id |-> i, dismissal |-> dismissal]
Charge(l) == [kind |-> "battery", level |-> l]
Mentions(q, i) == \E n \in DOMAIN q : q[n].kind = "note" /\ q[n].id = i

Unclicked == [at |-> "idle", want |-> TRUE, was |-> TRUE]

\* The phone's battery has been reported once.
MirrorInit ==
  /\ tray = {} /\ osq = <<>> /\ cancels = {} /\ access = TRUE /\ activeKeys = {}
  /\ connected = TRUE
  /\ forwarded = <<>> /\ suppress = <<>>
  /\ level \in Levels /\ readings = {}
  /\ up = <<>> /\ down = <<>>
  /\ hub = Showing(<<>>, level, TRUE) /\ ui = {}
  /\ stream = <<>>
  /\ panel = hub
  /\ snapshot = [r \in Refreshes |-> NoSnapshot]
  /\ clicks = [c \in Switches |-> Unclicked]
  /\ box = TRUE /\ relabels = <<>> /\ astray = FALSE
  /\ mirrorLeft \in MirrorScenarios
  /\ raced = {}

MirrorSpend(what) ==
  /\ mirrorLeft[what] > 0
  /\ mirrorLeft' = [mirrorLeft EXCEPT ![what] = @ - 1]

\* A dismissal from the panel that has not come back as a removal yet.
Dismissing(i) == i \in ui \cup cancels \cup ToSet(down)
RacedIf(i, cond) == raced' = IF cond THEN raced \cup {i} ELSE raced

-----------------------------------------------------------------------------
(* Android. *)

\* onNotificationPosted: a new notification or an update of one.
NotificationPosted(i) ==
  /\ MirrorSpend("posts")
  /\ tray' = tray \cup {i}
  /\ osq' = IF access THEN Append(osq, Note(i, FALSE)) ELSE osq
  /\ activeKeys' = IF access THEN activeKeys \cup {i} ELSE activeKeys
  /\ RacedIf(i, Dismissing(i))
  /\ UNCHANGED <<cancels, access, connected, forwarded, suppress, level, readings,
                 up, down, daemon, stream, view>>

\* onNotificationRemoved: the user or the app clears it.
NotificationRemoved(i) ==
  /\ i \in tray /\ MirrorSpend("clears")
  /\ tray' = tray \ {i}
  /\ osq' = IF access THEN Append(osq, Note(i, TRUE)) ELSE osq
  /\ activeKeys' = IF access THEN activeKeys \ {i} ELSE activeKeys
  /\ UNCHANGED <<cancels, access, connected, forwarded, suppress, level, readings,
                 up, down, daemon, stream, view, raced>>

\* cancelByNotificationId: nothing to do for an id that is gone or unknown,
\* and nothing that can be done while the listener is not bound.
CancelByNotificationId(i) ==
  LET live == access /\ i \in activeKeys \cap tray
      gone == IF live THEN {i} ELSE {}
  IN /\ i \in cancels
     /\ cancels' = cancels \ {i}
     /\ tray' = tray \ gone /\ activeKeys' = activeKeys \ gone
     /\ osq' = IF live THEN Append(osq, Note(i, TRUE)) ELSE osq
     /\ RacedIf(i, ~live)
     /\ UNCHANGED <<access, connected, forwarded, suppress, level, readings,
                    up, down, daemon, stream, view, mirrorLeft>>

\* The grant is revoked, and given again: the revoke drops both sets.
SetAccess ==
  /\ MirrorSpend("grants")
  /\ access' = ~access
  /\ forwarded' = IF access THEN <<>> ELSE forwarded
  /\ suppress' = IF access THEN <<>> ELSE suppress
  /\ raced' = raced \cup tray \cup {i \in Ids : Mentions(osq, i)}
  /\ UNCHANGED <<tray, osq, cancels, activeKeys, connected, level, readings,
                 up, down, daemon, stream, view>>

BatteryChanges(l) ==
  /\ l # level /\ MirrorSpend("changes")
  /\ level' = l
  /\ UNCHANGED <<tray, osq, cancels, access, activeKeys, connected, forwarded, suppress, readings,
                 up, down, daemon, stream, view, raced>>

-----------------------------------------------------------------------------
(* The phone's models. *)

\* _remember: re-insert as the newest, evict the oldest.
Remember(seq, i) ==
  LET s == Append(RemoveFirst(seq, i), i)
  IN IF Len(s) > MaxForwarded THEN Tail(s) ELSE s
Forget(seq, i) == RemoveFirst(seq, i)
Evicted(seq, i) == ToSet(seq) \ ToSet(Remember(seq, i))

\* What _onEvent leaves in suppress after the removal of i.
SuppressConsumedMut(i) == suppress
SuppressConsumed(i) == Forget(suppress, i)

\* _onEvent.
OnEvent ==
  /\ osq # <<>> /\ osq' = Tail(osq)
  /\ LET e == Head(osq)
         i == e.id
     IN \/ /\ ~connected  \* not synchronised later
           /\ raced' = raced \cup {i}
           /\ UNCHANGED <<forwarded, suppress, up>>
        \/ /\ connected /\ e.dismissal
           /\ IF Contains(suppress, i)
              THEN suppress' = SuppressConsumed(i) /\ UNCHANGED up
              ELSE /\ up' = IF Contains(forwarded, i) THEN Append(up, e) ELSE up
                   /\ UNCHANGED suppress
           /\ forwarded' = Forget(forwarded, i)
           /\ UNCHANGED raced
        \/ /\ connected /\ ~e.dismissal
           /\ forwarded' = Remember(forwarded, i)
           /\ raced' = raced \cup Evicted(forwarded, i)
           /\ up' = Append(up, e)
           /\ UNCHANGED suppress
  /\ UNCHANGED <<tray, cancels, access, activeKeys, connected, level, readings,
                 down, daemon, stream, view, mirrorLeft>>

\* handleInbound: remembered first, canceled when Android gets to it.
HandleInbound ==
  /\ down # <<>> /\ down' = Tail(down)
  /\ suppress' = Remember(suppress, Head(down))
  /\ cancels' = cancels \cup {Head(down)}
  /\ UNCHANGED <<tray, osq, access, activeKeys, connected, forwarded, level, readings,
                 up, daemon, stream, view, mirrorLeft, raced>>

\* report(): each minute and on each change; two readings may overlap. A
\* report of what the daemon has or is being sent is left out.
BatteryRead ==
  /\ connected /\ level \notin readings /\ level # hub.battery
  /\ ~Contains(up, Charge(level))
  /\ readings' = readings \cup {level}
  /\ UNCHANGED <<tray, osq, cancels, access, activeKeys, connected, forwarded, suppress, level,
                 up, down, daemon, stream, view, mirrorLeft, raced>>

BatterySend(l) ==
  /\ l \in readings
  /\ readings' = readings \ {l}
  /\ up' = IF connected THEN Append(up, Charge(l)) ELSE up
  /\ UNCHANGED <<tray, osq, cancels, access, activeKeys, connected, forwarded, suppress, level,
                 down, daemon, stream, view, mirrorLeft, raced>>

-----------------------------------------------------------------------------
(* The session, and the daemon. *)

Disconnect ==
  /\ connected /\ MirrorSpend("drops")
  /\ connected' = FALSE
  /\ up' = <<>> /\ down' = <<>>
  /\ raced' = raced \cup ToSet(down) \cup {i \in Ids : Mentions(up, i)}
  /\ UNCHANGED <<phone, daemon, stream, view>>

Reconnect ==
  /\ ~connected
  /\ connected' = TRUE
  /\ UNCHANGED <<phone, up, down, daemon, stream, view, mirrorLeft, raced>>

\* forward_events: a subscriber that lags skips the oldest events.
Lagged(events) == IF Len(events) = EventCap THEN Tail(events) ELSE events

Emit(e) == stream' = Append(Lagged(stream), e)

\* apply_notification on a list, here and in the hub.
Without(list, i) == RemoveFirst(list, i)
Applied(list, e) ==
  IF e.dismissal THEN Without(list, e.id) ELSE Append(Without(list, e.id), e.id)

\* handle_frame.
Arrives(kind) == up # <<>> /\ Head(up).kind = kind /\ up' = Tail(up)

UpdateBattery ==
  /\ Arrives("battery")
  /\ hub' = [hub EXCEPT !.battery = Head(up).level]
  /\ Emit(Head(up))
  /\ UNCHANGED <<phone, connected, down, ui, view, mirrorLeft, raced>>

ApplyNotification ==
  /\ Arrives("note")
  /\ hub' = [hub EXCEPT !.list = Applied(@, Head(up))]
  /\ Emit(Head(up))
  /\ UNCHANGED <<phone, connected, down, ui, view, mirrorLeft, raced>>

\* dismiss_notification, for a row of the panel.
DismissNotification(i) ==
  /\ Contains(panel.list, i) /\ i \notin ui /\ MirrorSpend("dismissals")
  /\ hub' = [hub EXCEPT !.list = Applied(@, Note(i, TRUE))]
  /\ Emit(Note(i, TRUE))
  /\ ui' = ui \cup {i}
  /\ RacedIf(i, Mentions(osq, i) \/ Mentions(up, i))
  /\ UNCHANGED <<phone, connected, up, down, view>>

\* broadcast to the peers of this moment.
BroadcastDismissal(i) ==
  /\ i \in ui /\ ui' = ui \ {i}
  /\ down' = IF connected THEN Append(down, i) ELSE down
  /\ RacedIf(i, ~connected)
  /\ UNCHANGED <<phone, connected, up, hub, stream, view, mirrorLeft>>

-----------------------------------------------------------------------------
(* The panel. *)

\* applyNotification prepends what the hub appends.
PanelApplied(list, e) ==
  IF e.dismissal THEN Without(list, e.id) ELSE <<e.id>> \o Without(list, e.id)

PanelEvent ==
  /\ stream # <<>> /\ stream' = Tail(stream)
  /\ LET e == Head(stream)
     IN panel' = IF e.kind = "battery" THEN [panel EXCEPT !.battery = e.level]
                 ELSE [panel EXCEPT !.list = PanelApplied(@, e)]
  /\ UNCHANGED <<phone, connected, up, down, daemon, snapshot, switches, mirrorLeft, raced>>

\* get_local_state is answered, every five seconds and on other occasions (a
\* budget bounds the polls that find nothing to repair) ...
GetLocalState(r) ==
  /\ snapshot[r] = NoSnapshot
  /\ \/ MirrorSpend("polls")
     \/ panel # hub /\ stream = <<>> /\ UNCHANGED mirrorLeft
  /\ snapshot' = [snapshot EXCEPT ![r] = hub]
  /\ UNCHANGED <<phone, connected, up, down, daemon, stream, panel, switches, raced>>

\* ... and the answer replaces what the panel shows.
RefreshedMut(shown, answer) ==
  Showing(answer.list \o SelectSeq(shown.list, LAMBDA i : ~Contains(answer.list, i)), answer.battery, answer.sync)
Refreshed(shown, answer) == answer
Refresh(r) ==
  /\ snapshot[r] # NoSnapshot
  /\ panel' = Refreshed(panel, snapshot[r])
  /\ snapshot' = [snapshot EXCEPT ![r] = NoSnapshot]
  /\ relabels' = IF panel'.sync = panel.sync THEN relabels ELSE Append(relabels, panel'.sync)
  /\ UNCHANGED <<phone, connected, up, down, daemon, stream, clicks, box, astray, mirrorLeft, raced>>

-----------------------------------------------------------------------------
(* The clipboard-sync switches. *)

still == <<phone, connected, up, down, ui, stream, panel, snapshot, raced>>
Clicked(c, at) == clicks[c].at = at
Go(c, at) == clicks' = [clicks EXCEPT ![c].at = at]
Overlap(c) == astray' = (astray \/ \E d \in Switches \ {c} : ~Clicked(d, "idle"))

\* toggle_clipboard_sync: the menu library may flip the mark before it reports the click.
TrayClick(c) ==
  /\ c # Window /\ Clicked(c, "idle") /\ MirrorSpend("switches")
  /\ box' \in BOOLEAN
  /\ clicks' = [clicks EXCEPT ![c] = [at |-> "asked", want |-> ~box', was |-> box]]
  /\ Overlap(c)
  /\ UNCHANGED <<still, hub, relabels>>

\* The panel's switch is disabled until it is answered.
WindowClick ==
  /\ Clicked(Window, "idle") /\ MirrorSpend("switches")
  /\ clicks' = [clicks EXCEPT ![Window] = [at |-> "asked", want |-> ~panel.sync, was |-> panel.sync]]
  /\ Overlap(Window)
  /\ UNCHANGED <<still, hub, box, relabels>>

\* set_clipboard_sync_enabled stores the flag, writes the file (Startup) ...
SetClipboardSync(c) ==
  /\ Clicked(c, "asked") /\ Go(c, "stored")
  /\ hub' = [hub EXCEPT !.sync = clicks[c].want]
  /\ UNCHANGED <<still, box, relabels, astray, mirrorLeft>>

\* ... and answers with the flag of that moment.
SyncAnswer(c) ==
  /\ Clicked(c, "stored")
  /\ clicks' = [clicks EXCEPT ![c].at = "answered", ![c].want = hub.sync]
  /\ UNCHANGED <<still, hub, box, relabels, astray, mirrorLeft>>

\* No daemon, or an error: a mark that was flipped stays so.
SyncFails(c) ==
  /\ Clicked(c, "asked") /\ MirrorSpend("faults")
  /\ Go(c, "idle")
  /\ astray' = (astray \/ (c # Window /\ clicks[c].want = clicks[c].was))
  /\ UNCHANGED <<still, hub, box, relabels>>

\* The tray is set to the answer; either end asks the panel to refresh.
Corrected(c) ==
  /\ Clicked(c, "answered") /\ Go(c, "idle")
  /\ box' = IF c = Window THEN box ELSE clicks[c].want
  /\ UNCHANGED <<still, hub, relabels, astray, mirrorLeft>>

\* update_tray, when what the panel shows changes (Refresh) or its language does.
LanguageChanges ==
  /\ MirrorSpend("locales")
  /\ relabels' = Append(relabels, panel.sync)
  /\ UNCHANGED <<still, hub, clicks, box, astray>>
UpdateTray ==
  /\ relabels # <<>>
  /\ box' = Head(relabels) /\ relabels' = Tail(relabels)
  /\ UNCHANGED <<still, hub, clicks, astray, mirrorLeft>>

-----------------------------------------------------------------------------
MirrorNext ==
  \/ \E i \in Ids : \/ NotificationPosted(i) \/ NotificationRemoved(i)
                    \/ CancelByNotificationId(i)
                    \/ DismissNotification(i) \/ BroadcastDismissal(i)
  \/ SetAccess \/ OnEvent \/ HandleInbound
  \/ \E l \in Levels : BatteryChanges(l) \/ BatterySend(l)
  \/ BatteryRead
  \/ Disconnect \/ Reconnect \/ UpdateBattery \/ ApplyNotification
  \/ PanelEvent
  \/ \E r \in Refreshes : GetLocalState(r) \/ Refresh(r)
  \/ \E c \in Switches : \/ TrayClick(c) \/ SetClipboardSync(c) \/ SyncAnswer(c)
                          \/ SyncFails(c) \/ Corrected(c)
  \/ WindowClick \/ LanguageChanges \/ UpdateTray

\* The queues are served, the panel polls every five seconds while it is
\* visible, and the battery is reported every minute.
MirrorFairness ==
  /\ WF_mirrorVars(UpdateBattery) /\ WF_mirrorVars(ApplyNotification)
  /\ WF_mirrorVars(PanelEvent) /\ WF_mirrorVars(OnEvent) /\ WF_mirrorVars(Reconnect)
  /\ WF_mirrorVars(BatteryRead)
  /\ \A l \in Levels : WF_mirrorVars(BatterySend(l))
  /\ \A r \in Refreshes : WF_mirrorVars(GetLocalState(r)) /\ WF_mirrorVars(Refresh(r))
  /\ \A c \in Switches : /\ WF_mirrorVars(SetClipboardSync(c))
                          /\ WF_mirrorVars(SyncAnswer(c) \/ Corrected(c))
  /\ WF_mirrorVars(UpdateTray)

-----------------------------------------------------------------------------
MirrorSpec == MirrorInit /\ [][MirrorNext]_mirrorVars

-----------------------------------------------------------------------------
(* Properties. *)

Quiet == /\ connected /\ access
         /\ osq = <<>> /\ up = <<>> /\ down = <<>> /\ ui = {} /\ cancels = {}

\* Once nothing is on its way, the daemon lists exactly what the phone shows,
\* however often an id was posted, cleared and dismissed from either end; only
\* an id of which a step was missed or crossed another may differ.
SettledAgree == Quiet => \A i \in Ids \ raced : i \in tray <=> Contains(hub.list, i)

\* Whatever events were lost to a slow panel, and however events, snapshots and
\* battery readings overtook each other, the panel ends up showing the hub's
\* notifications and flag, and the phone's battery; and the mark in the tray is
\* the flag, unless two clicks overlapped or one failed.
PanelSettles ==
  <>[](panel = hub /\ panel.battery = level /\ (astray \/ box = hub.sync))
=============================================================================
