--------------------------- MODULE ClipboardSync ---------------------------
(***************************************************************************)
(* Clipboard sync between one desktop daemon and the phones on its open    *)
(* streams: the daemon's poll loop and stream tasks around ClipboardSync   *)
(* (daemon/src/clipboard/mod.rs, lib.rs), the phone's ClipboardModel and   *)
(* ClipboardEchoGuard (mobile/lib/src/state/clipboard_model.dart).  On the *)
(* daemon every backend call and every lock is a step; on the phone every  *)
(* await is, since Dart runs the rest without interruption.                *)
(*                                                                         *)
(* Content is compared by its hash alone, so a content stands for its hash.*)
(* Every clipboard also carries a ghost: the end whose user copied it.     *)
(***************************************************************************)
EXTENDS Sequences, Naturals, FiniteSets

CONSTANTS
  Desktop, Phones,
  Contents,
  Big,        \* images above MAX_CLIPBOARD_BYTES
  Nothing,    \* an empty clipboard, and a hash that was never set
  ChannelCap, \* frames the outbound channel of a stream holds
  MaxCopies   \* bound of the model: copies and sends by users

Ends == Phones \cup {Desktop}
Clip == [what : Contents, by : Ends]

ASSUME ClipboardAssumption ==
  /\ Desktop \notin Phones /\ Big \subseteq Contents /\ Nothing \notin Contents \cup Clip
  /\ ChannelCap \in Nat \ {0} /\ MaxCopies \in Nat

VARIABLES
  os,       \* [Ends -> the operating system's clipboard]
  local,    \* [Ends -> last_local_hash]
  applied,  \* [Ends -> last_applied_hash]
  poll,     \* [Ends -> the poll: where it is and what it has read]
  targets,  \* phones the current broadcast has yet to send to
  applying, \* [Phones -> apply_incoming in the daemon's task of that stream]
  writes,   \* [Phones -> writes handed to the phone's OS, in order]
  down, up, \* [Phones -> frames to and from the phone]
  enabled,  \* clipboard_sync_enabled
  late,     \* ghost: frames applied since sync was switched off
  raced,    \* ghost: [Ends -> a poll and an application overlapped, or a write was lost]
  copies    \* what users did so far

engine == <<local, applied, poll, targets, applying>>
wires == <<down, up>>
vars == <<os, engine, writes, wires, enabled, late, raced, copies>>

Clips == Clip \cup {Nothing}
Hash == Contents \cup {Nothing}
Idle == [pc |-> "idle", clip |-> Nothing]

\* Every clipboard, hash and wire is well typed, and a step past the read has read something.
TypeOK ==
  /\ os \in [Ends -> Clips]
  /\ local \in [Ends -> Hash] /\ applied \in [Ends -> Hash]
  /\ poll \in [Ends -> [pc : {"idle", "read", "fresh", "publish", "sending"}, clip : Clips]]
  /\ applying \in [Phones -> [pc : {"idle", "gated", "set", "stored"}, clip : Clips]]
  /\ \A e \in Ends : poll[e].pc # "idle" => poll[e].clip \in Clip
  /\ \A p \in Phones : applying[p].pc # "idle" => applying[p].clip \in Clip
  /\ targets \subseteq Phones /\ (targets # {} => poll[Desktop].pc = "sending")
  /\ writes \in [Phones -> Seq(Clip)] /\ down \in [Phones -> Seq(Clip)] /\ up \in [Phones -> Seq(Clip)]
  /\ <<enabled, late, copies>> \in BOOLEAN \X Nat \X Nat
  /\ raced \in [Ends -> BOOLEAN]

Init ==
  /\ os = [e \in Ends |-> Nothing]
  /\ local = [e \in Ends |-> Nothing] /\ applied = [e \in Ends |-> Nothing]
  /\ poll = [e \in Ends |-> Idle] /\ targets = {}
  /\ applying = [p \in Phones |-> Idle] /\ writes = [p \in Phones |-> <<>>]
  /\ down = [p \in Phones |-> <<>>] /\ up = [p \in Phones |-> <<>>]
  /\ enabled = TRUE /\ late = 0
  /\ raced = [e \in Ends |-> FALSE] /\ copies = 0

\* Operations that are under way on the engine of an end.
Operations(e) ==
  (IF poll[e].pc \in {"read", "fresh", "publish"} THEN {<<"poll", e>>} ELSE {})
    \cup (IF e = Desktop
          THEN {<<"apply", p>> : p \in {q \in Phones : applying[q].pc \in {"set", "stored"}}}
          ELSE IF writes[e] = <<>> THEN {} ELSE {<<"apply", e>>})
Overlap(e) == \E x, y \in Operations(e) : x # y
MarkRaces == raced' = [e \in Ends |-> raced[e] \/ Overlap(e)']

-----------------------------------------------------------------------------
(* poll_local_change and the broadcast of what it returns. *)

Poll(e, pc) == poll[e].pc = pc
PollGoto(e, pc) == poll' = [poll EXCEPT ![e].pc = pc]
PollEnds(e) == poll' = [poll EXCEPT ![e] = Idle]

ReadClipboardEmptyMut ==
  /\ Poll(Desktop, "idle") /\ enabled
  /\ poll' = [poll EXCEPT ![Desktop] = [pc |-> "read", clip |-> os[Desktop]]]
  /\ UNCHANGED <<os, local, applied, targets, applying, writes, wires, enabled, late, copies>>
ReadClipboard ==
  /\ Poll(Desktop, "idle") /\ enabled
  /\ os[Desktop] # Nothing
  /\ poll' = [poll EXCEPT ![Desktop] = [pc |-> "read", clip |-> os[Desktop]]]
  /\ UNCHANGED <<os, local, applied, targets, applying, writes, wires, enabled, late, copies>>

CompareLocal ==
  /\ Poll(Desktop, "read")
  /\ IF local[Desktop] = poll[Desktop].clip.what THEN PollEnds(Desktop) ELSE PollGoto(Desktop, "fresh")
  /\ UNCHANGED <<os, local, applied, targets, applying, writes, wires, enabled, late, copies>>

CompareApplied ==
  /\ Poll(Desktop, "fresh")
  /\ LET h == poll[Desktop].clip.what IN
       IF applied[Desktop] = h
       THEN local' = [local EXCEPT ![Desktop] = h] /\ PollEnds(Desktop)
       ELSE PollGoto(Desktop, "publish") /\ UNCHANGED local
  /\ UNCHANGED <<os, applied, targets, applying, writes, wires, enabled, late, copies>>

PublishUnrecordedMut ==
  /\ Poll(Desktop, "publish")
  /\ targets' = (IF poll[Desktop].clip.what \in Big THEN {} ELSE Phones)
  /\ PollGoto(Desktop, "sending")
  /\ UNCHANGED <<os, local, applied, applying, writes, wires, enabled, late, copies>>
\* Oversized content is only recorded.
Publish ==
  /\ Poll(Desktop, "publish")
  /\ local' = [local EXCEPT ![Desktop] = poll[Desktop].clip.what]
  /\ targets' = (IF poll[Desktop].clip.what \in Big THEN {} ELSE Phones)
  /\ PollGoto(Desktop, "sending")
  /\ UNCHANGED <<os, applied, applying, writes, wires, enabled, late, copies>>

\* The loop waits for room in one channel after another, and polls again after the last.
SendTo(p) ==
  /\ p \in targets /\ Len(down[p]) < ChannelCap
  /\ down' = [down EXCEPT ![p] = Append(@, poll[Desktop].clip)]
  /\ targets' = targets \ {p}
  /\ UNCHANGED <<os, local, applied, poll, applying, writes, up, enabled, late, copies>>

BroadcastDone ==
  /\ Poll(Desktop, "sending") /\ targets = {}
  /\ PollEnds(Desktop)
  /\ UNCHANGED <<os, local, applied, targets, applying, writes, wires, enabled, late, copies>>

-----------------------------------------------------------------------------
(* apply_incoming, in the stream task of phone p. *)

ReceiveUngatedMut(p) ==
  /\ applying[p].pc = "idle" /\ up[p] # <<>>
  /\ applying' = [applying EXCEPT ![p] = [pc |-> "gated", clip |-> Head(up[p])]]
  /\ up' = [up EXCEPT ![p] = Tail(@)]
  /\ UNCHANGED <<os, local, applied, poll, targets, writes, down, enabled, late, copies>>
Receive(p) ==
  /\ applying[p].pc = "idle" /\ up[p] # <<>>
  /\ applying' = [applying EXCEPT ![p] =
                    IF enabled /\ Head(up[p]).what \notin Big
                    THEN [pc |-> "gated", clip |-> Head(up[p])] ELSE Idle]
  /\ up' = [up EXCEPT ![p] = Tail(@)]
  /\ UNCHANGED <<os, local, applied, poll, targets, writes, down, enabled, late, copies>>

\* backend.set_content
SetContent(p) ==
  /\ applying[p].pc = "gated"
  /\ os' = [os EXCEPT ![Desktop] = applying[p].clip]
  /\ applying' = [applying EXCEPT ![p].pc = "set"]
  /\ late' = IF enabled THEN late ELSE late + 1
  /\ UNCHANGED <<local, applied, poll, targets, writes, wires, enabled, copies>>

\* The backend failed: nothing is recorded.
SetContentFails(p) ==
  /\ applying[p].pc = "gated"
  /\ applying' = [applying EXCEPT ![p] = Idle]
  /\ UNCHANGED <<os, local, applied, poll, targets, writes, wires, enabled, late, copies>>

StoreNothingMut(p) ==
  /\ applying[p].pc = "set"
  /\ applying' = [applying EXCEPT ![p] = Idle]
  /\ UNCHANGED <<os, local, applied, poll, targets, writes, wires, enabled, late, copies>>
StoreApplied(p) ==
  /\ applying[p].pc = "set"
  /\ applied' = [applied EXCEPT ![Desktop] = applying[p].clip.what]
  /\ applying' = [applying EXCEPT ![p].pc = "stored"]
  /\ UNCHANGED <<os, local, poll, targets, writes, wires, enabled, late, copies>>

StoreLocal(p) ==
  /\ applying[p].pc = "stored"
  /\ local' = [local EXCEPT ![Desktop] = applying[p].clip.what]
  /\ applying' = [applying EXCEPT ![p] = Idle]
  /\ UNCHANGED <<os, applied, poll, targets, writes, wires, enabled, late, copies>>

-----------------------------------------------------------------------------
(* The phone. *)

PhoneRead(p) ==
  /\ Poll(p, "idle") /\ os[p] # Nothing
  /\ poll' = [poll EXCEPT ![p] = [pc |-> "read", clip |-> os[p]]]
  /\ UNCHANGED <<os, local, applied, targets, applying, writes, wires, enabled, late, copies>>

\* observeLocalChange, and _pushLocal of what is new.
Observed(p, h) == local' = [local EXCEPT ![p] = h]
IsNew(p, h) == h \notin {local[p], applied[p]}

PhoneObserve(p) ==
  /\ Poll(p, "read")
  /\ LET clip == poll[p].clip IN
       /\ up' = IF IsNew(p, clip.what) /\ clip.what \notin Big THEN [up EXCEPT ![p] = Append(@, clip)] ELSE up
       /\ Observed(p, clip.what)
  /\ PollEnds(p)
  /\ UNCHANGED <<os, applied, targets, applying, writes, down, enabled, late, copies>>

\* handleInbound: the hash is recorded before the OS has the content.
PhoneReceive(p) ==
  /\ down[p] # <<>>
  /\ applied' = [applied EXCEPT ![p] = Head(down[p]).what]
  /\ Observed(p, Head(down[p]).what)
  /\ writes' = [writes EXCEPT ![p] = Append(@, Head(down[p]))]
  /\ down' = [down EXCEPT ![p] = Tail(@)]
  /\ UNCHANGED <<os, poll, targets, applying, up, enabled, late, copies>>

PhoneWrite(p) ==
  /\ writes[p] # <<>>
  /\ os' = [os EXCEPT ![p] = Head(writes[p])]
  /\ writes' = [writes EXCEPT ![p] = Tail(@)]
  /\ UNCHANGED <<engine, wires, enabled, late, copies>>

\* An error of the OS is only logged; the hash stays.
PhoneWriteFails(p) ==
  /\ writes[p] # <<>>
  /\ writes' = [writes EXCEPT ![p] = Tail(@)]
  /\ raced' = [raced EXCEPT ![p] = TRUE]
  /\ UNCHANGED <<os, engine, wires, enabled, late, copies>>

\* The stream breaks and is opened again; what was on its way is lost.
StreamBreaks(p) ==
  /\ down[p] # <<>> \/ up[p] # <<>>
  /\ down' = [down EXCEPT ![p] = <<>>] /\ up' = [up EXCEPT ![p] = <<>>]
  /\ UNCHANGED <<os, engine, writes, enabled, late, copies>>

-----------------------------------------------------------------------------
(* The users. *)

Copy(e, c) ==
  /\ copies < MaxCopies /\ copies' = copies + 1
  /\ os' = [os EXCEPT ![e] = [what |-> c, by |-> e]]
  /\ UNCHANGED <<engine, writes, wires, enabled, late>>

\* sendClipboard: sent whatever the guard says, and text only.
SendButton(p, c) ==
  /\ c \notin Big
  /\ copies < MaxCopies /\ copies' = copies + 1
  /\ Observed(p, c)
  /\ up' = [up EXCEPT ![p] = Append(@, [what |-> c, by |-> p])]
  /\ UNCHANGED <<os, applied, poll, targets, applying, writes, down, enabled, late>>

SetEnabled ==
  /\ enabled' = ~enabled /\ late' = 0
  /\ UNCHANGED <<os, engine, writes, wires, copies>>

-----------------------------------------------------------------------------
PollLoop ==
  ReadClipboard \/ CompareLocal \/ CompareApplied \/ Publish
    \/ (\E p \in Phones : SendTo(p)) \/ BroadcastDone
StreamTask(p) == Receive(p) \/ SetContent(p) \/ SetContentFails(p) \/ StoreApplied(p) \/ StoreLocal(p)
PhonePoll(p) == PhoneRead(p) \/ PhoneObserve(p)
User ==
  \/ \E e \in Ends, c \in Contents : Copy(e, c)
  \/ \E p \in Phones, c \in Contents : SendButton(p, c)
  \/ SetEnabled

Next ==
  \/ /\ \/ PollLoop \/ User
        \/ \E p \in Phones : StreamTask(p) \/ PhonePoll(p) \/ PhoneReceive(p)
                             \/ PhoneWrite(p) \/ StreamBreaks(p)
     /\ MarkRaces
  \/ \E p \in Phones : PhoneWriteFails(p)

Spec == Init /\ [][Next]_vars

\* Timers fire, tasks run, phones read their stream and their OS writes end.
ClipFairness ==
  /\ WF_vars(PollLoop /\ MarkRaces)
  /\ \A p \in Phones :
       /\ WF_vars(StreamTask(p) /\ MarkRaces)
       /\ WF_vars(PhonePoll(p) /\ MarkRaces) /\ WF_vars(PhoneReceive(p) /\ MarkRaces)
       /\ WF_vars((PhoneWrite(p) /\ MarkRaces) \/ PhoneWriteFails(p))
FairSpec == Spec /\ ClipFairness

-----------------------------------------------------------------------------
(* Properties. *)

\* "applying an incoming update never gets re-broadcast back to its sender as if it were
\* a brand new local change": an end sends out what its own user copied, unless a poll
\* and an application have overlapped there or a write of the OS has failed.
EchoOnlyAfterRace ==
  [][/\ \A p \in Phones : Len(down'[p]) > Len(down[p]) =>
          raced[Desktop] \/ down'[p][Len(down'[p])].by = Desktop
     /\ \A p \in Phones : Len(up'[p]) > Len(up[p]) =>
          raced[p] \/ up'[p][Len(up'[p])].by = p]_vars

\* The two ends never keep answering each other: once users stop and operations stop
\* overlapping, the wires fall silent.
Silent == \A p \in Phones : down[p] = <<>> /\ up[p] = <<>>
EchoesDie == <>[](\A e \in Ends : ~Overlap(e)) => <>[]Silent

\* With sync switched off no phone changes the desktop's clipboard, but for the frames
\* that were past the check.
OffMeansOff == ~enabled => late <= Cardinality(Phones)
=============================================================================
