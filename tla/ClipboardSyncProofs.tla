------------------------ MODULE ClipboardSyncProofs ------------------------
(***************************************************************************)
(* Theorems about ClipboardSync, for any phones, any contents and any      *)
(* capacity of the channels, and about WaylandClipboard, for any number of *)
(* selections.                                                             *)
(***************************************************************************)
EXTENDS ClipboardSync, WaylandClipboard, CollectionTheorems, SequenceTheorems, FiniteSetTheorems, TLAPS

USE ClipboardAssumption

-----------------------------------------------------------------------------
(* Type correctness. *)

Poller == [pc : {"idle", "read", "fresh", "publish", "sending"}, clip : Clips]
Applier == [pc : {"idle", "gated", "set", "stored"}, clip : Clips]

\* A frame or a write joins its queue, or leaves it.
LEMMA QueueType ==
  ASSUME NEW q \in [Phones -> Seq(Clip)], NEW p \in Phones
  PROVE  /\ \A c \in Clip : [q EXCEPT ![p] = Append(@, c)] \in [Phones -> Seq(Clip)]
         /\ q[p] # <<>> => /\ Head(q[p]) \in Clip
                           /\ [q EXCEPT ![p] = Tail(@)] \in [Phones -> Seq(Clip)]
         /\ [q EXCEPT ![p] = <<>>] \in [Phones -> Seq(Clip)]
OBVIOUS

\* TypeOK, with the records named.
Typed ==
  /\ os \in [Ends -> Clips]
  /\ local \in [Ends -> Hash] /\ applied \in [Ends -> Hash]
  /\ poll \in [Ends -> Poller] /\ \A e \in Ends : poll[e].pc # "idle" => poll[e].clip \in Clip
  /\ applying \in [Phones -> Applier]
  /\ \A p \in Phones : applying[p].pc # "idle" => applying[p].clip \in Clip
  /\ targets \subseteq Phones /\ (targets # {} => poll[Desktop].pc = "sending")
  /\ writes \in [Phones -> Seq(Clip)] /\ down \in [Phones -> Seq(Clip)] /\ up \in [Phones -> Seq(Clip)]
  /\ enabled \in BOOLEAN /\ late \in Nat /\ copies \in Nat
  /\ raced \in [Ends -> BOOLEAN]

\* A poll is at its next step with what it has read.
LEMMA PollType ==
  ASSUME Typed, NEW e \in Ends, NEW r \in Poller, r.pc # "idle" => r.clip \in Clip,
         poll' = [poll EXCEPT ![e] = r]
  PROVE  /\ poll' \in [Ends -> Poller] /\ \A d \in Ends : poll'[d].pc # "idle" => poll'[d].clip \in Clip
         /\ poll'[e] = r /\ \A d \in Ends : d # e => poll'[d] = poll[d]
BY DEF Typed

LEMMA PollGotoType ==
  ASSUME Typed, NEW e \in Ends, NEW pc \in {"read", "fresh", "publish", "sending"},
         poll[e].pc # "idle", PollGoto(e, pc)
  PROVE  /\ poll' \in [Ends -> Poller] /\ \A d \in Ends : poll'[d].pc # "idle" => poll'[d].clip \in Clip
         /\ poll'[e].pc = pc /\ poll'[e].clip = poll[e].clip
         /\ \A d \in Ends : d # e => poll'[d] = poll[d]
<1> DEFINE r == [poll[e] EXCEPT !.pc = pc]
<1>1. poll[e] \in Poller /\ poll[e].clip \in Clip
  BY DEF Typed
<1>2. r \in Poller /\ r.clip = poll[e].clip /\ r.pc = pc
  BY <1>1 DEF Poller
<1>3. poll' = [poll EXCEPT ![e] = r]
  BY DEF PollGoto
<1> HIDE DEF r
<1> QED
  BY <1>1, <1>2, <1>3, PollType

LEMMA PollEndsType ==
  ASSUME Typed, NEW e \in Ends, PollEnds(e)
  PROVE  /\ poll' \in [Ends -> Poller] /\ \A d \in Ends : poll'[d].pc # "idle" => poll'[d].clip \in Clip
         /\ poll'[e] = Idle /\ \A d \in Ends : d # e => poll'[d] = poll[d]
<1>1. Idle \in Poller /\ Idle.pc = "idle"
  BY DEF Idle, Poller, Clips
<1>2. poll' = [poll EXCEPT ![e] = Idle]
  BY DEF PollEnds
<1> QED
  BY <1>1, <1>2, PollType

\* The application of a frame is at its next step with the frame.
LEMMA ApplyType ==
  ASSUME Typed, NEW p \in Phones, NEW r \in Applier, r.pc # "idle" => r.clip \in Clip,
         applying' = [applying EXCEPT ![p] = r]
  PROVE  /\ applying' \in [Phones -> Applier]
         /\ \A q \in Phones : applying'[q].pc # "idle" => applying'[q].clip \in Clip
         /\ applying'[p] = r /\ \A q \in Phones : q # p => applying'[q] = applying[q]
BY DEF Typed

LEMMA ApplyGotoType ==
  ASSUME Typed, NEW p \in Phones, NEW pc \in {"set", "stored"}, applying[p].pc # "idle",
         applying' = [applying EXCEPT ![p].pc = pc]
  PROVE  /\ applying' \in [Phones -> Applier]
         /\ \A q \in Phones : applying'[q].pc # "idle" => applying'[q].clip \in Clip
         /\ applying'[p].pc = pc /\ applying'[p].clip = applying[p].clip
         /\ \A q \in Phones : q # p => applying'[q] = applying[q]
<1> DEFINE r == [applying[p] EXCEPT !.pc = pc]
<1>1. applying[p] \in Applier /\ applying[p].clip \in Clip
  BY DEF Typed
<1>2. r \in Applier /\ r.clip = applying[p].clip /\ r.pc = pc
  BY <1>1 DEF Applier
<1>3. applying' = [applying EXCEPT ![p] = r]
  OBVIOUS
<1> HIDE DEF r
<1> QED
  BY <1>1, <1>2, <1>3, ApplyType

LEMMA ApplyEndsType ==
  ASSUME Typed, NEW p \in Phones, applying' = [applying EXCEPT ![p] = Idle]
  PROVE  /\ applying' \in [Phones -> Applier]
         /\ \A q \in Phones : applying'[q].pc # "idle" => applying'[q].clip \in Clip
         /\ applying'[p] = Idle /\ \A q \in Phones : q # p => applying'[q] = applying[q]
<1>1. Idle \in Applier /\ Idle.pc = "idle"
  BY DEF Idle, Applier, Clips
<1> QED
  BY <1>1, ApplyType

\* The steps of the poll loop.
LEMMA PollLoopType ==
  ASSUME Typed, PollLoop, MarkRaces
  PROVE  Typed'
<1> DEFINE D == Desktop
<1>1. D \in Ends /\ raced' \in [Ends -> BOOLEAN] /\ \A c \in Clip : c.what \in Hash
  BY DEF Ends, MarkRaces, Overlap, Clip, Hash
<1>2. CASE ReadClipboard
  <2> DEFINE r == [pc |-> "read", clip |-> os[D]]
  <2>1. os[D] \in Clip
    BY <1>1, <1>2 DEF ReadClipboard, Typed, Clips
  <2>2. r \in Poller /\ poll' = [poll EXCEPT ![D] = r]
    BY <1>2, <2>1 DEF ReadClipboard, Poller, Clips
  <2>3. poll' \in [Ends -> Poller] /\ \A e \in Ends : poll'[e].pc # "idle" => poll'[e].clip \in Clip
    BY <1>1, <2>1, <2>2, PollType
  <2>4. targets = {}
    BY <1>2 DEF Typed, ReadClipboard, Poll
  <2> QED
    BY <1>1, <1>2, <2>3, <2>4 DEF ReadClipboard, wires, Typed
<1>3. CASE CompareLocal
  <2>1. poll[D].pc = "read" /\ (PollEnds(D) \/ PollGoto(D, "fresh"))
    BY <1>3 DEF CompareLocal, Poll
  <2>2. poll' \in [Ends -> Poller] /\ \A e \in Ends : poll'[e].pc # "idle" => poll'[e].clip \in Clip
    BY <1>1, <2>1, PollGotoType, PollEndsType
  <2>3. targets = {}
    BY <2>1 DEF Typed
  <2> QED
    BY <1>1, <1>3, <2>2, <2>3 DEF CompareLocal, wires, Typed
<1>4. CASE CompareApplied
  <2>1. /\ poll[D].pc = "fresh" /\ (PollEnds(D) \/ PollGoto(D, "publish"))
        /\ local' = local \/ local' = [local EXCEPT ![D] = poll[D].clip.what]
    BY <1>4 DEF CompareApplied, Poll
  <2>2. poll' \in [Ends -> Poller] /\ \A e \in Ends : poll'[e].pc # "idle" => poll'[e].clip \in Clip
    BY <1>1, <2>1, PollGotoType, PollEndsType
  <2>3. targets = {} /\ poll[D].clip.what \in Hash
    BY <1>1, <2>1 DEF Typed
  <2>4. local' \in [Ends -> Hash]
    BY <1>1, <2>1, <2>3 DEF Typed
  <2> QED
    BY <1>1, <1>4, <2>2, <2>3, <2>4 DEF CompareApplied, wires, Typed
<1>5. CASE Publish
  <2>1. /\ poll[D].pc = "publish" /\ PollGoto(D, "sending") /\ targets' \subseteq Phones
        /\ local' = [local EXCEPT ![D] = poll[D].clip.what]
    BY <1>5 DEF Publish, Poll
  <2>2. /\ poll' \in [Ends -> Poller] /\ \A e \in Ends : poll'[e].pc # "idle" => poll'[e].clip \in Clip
        /\ poll'[D].pc = "sending"
    BY <1>1, <2>1, PollGotoType
  <2>3. poll[D].clip.what \in Hash
    BY <1>1, <2>1 DEF Typed
  <2>4. local' \in [Ends -> Hash]
    BY <1>1, <2>1, <2>3 DEF Typed
  <2> QED
    BY <1>1, <1>5, <2>1, <2>2, <2>4 DEF Publish, wires, Typed
<1>6. ASSUME NEW p \in Phones, SendTo(p) PROVE Typed'
  <2>1. poll[D].clip \in Clip /\ targets' \subseteq targets
    BY <1>1, <1>6 DEF SendTo, Typed
  <2>2. down' \in [Phones -> Seq(Clip)]
    BY <1>6, <2>1, QueueType DEF SendTo, Typed
  <2> QED
    BY <1>1, <1>6, <2>1, <2>2 DEF SendTo, Typed
<1>7. CASE BroadcastDone
  <2>1. poll' \in [Ends -> Poller] /\ \A e \in Ends : poll'[e].pc # "idle" => poll'[e].clip \in Clip
    BY <1>1, <1>7, PollEndsType DEF BroadcastDone
  <2> QED
    BY <1>1, <1>7, <2>1 DEF BroadcastDone, wires, Typed
<1> QED
  BY <1>2, <1>3, <1>4, <1>5, <1>6, <1>7 DEF PollLoop
\* The steps of the stream task of a phone.
LEMMA StreamTaskType ==
  ASSUME Typed, NEW p \in Phones, StreamTask(p), MarkRaces
  PROVE  Typed'
<1> DEFINE D == Desktop
           ApplyTyped == /\ applying' \in [Phones -> Applier]
                         /\ \A q \in Phones : applying'[q].pc # "idle" => applying'[q].clip \in Clip
<1>1. D \in Ends /\ raced' \in [Ends -> BOOLEAN] /\ \A c \in Clip : c.what \in Hash
  BY DEF Ends, MarkRaces, Overlap, Clip, Hash
<1>2. CASE Receive(p)
  <2>1. Head(up[p]) \in Clip /\ up' \in [Phones -> Seq(Clip)]
    BY <1>2, QueueType DEF Receive, Typed
  <2>2. ApplyTyped
    <3>1. CASE enabled /\ Head(up[p]).what \notin Big
      <4> DEFINE r == [pc |-> "gated", clip |-> Head(up[p])]
      <4>1. r \in Applier
        BY <2>1 DEF Applier, Clips
      <4>2. applying' = [applying EXCEPT ![p] = r]
        BY <1>2, <3>1 DEF Receive
      <4> QED
        BY <2>1, <4>1, <4>2, ApplyType
    <3>2. CASE ~(enabled /\ Head(up[p]).what \notin Big)
      <4>1. applying' = [applying EXCEPT ![p] = Idle]
        BY <1>2, <3>2 DEF Receive
      <4> QED
        BY <4>1, ApplyEndsType
    <3> QED
      BY <3>1, <3>2
  <2> QED
    BY <1>1, <1>2, <2>1, <2>2 DEF Receive, Typed
<1>3. CASE SetContent(p)
  <2>1. applying[p].pc = "gated" /\ applying[p].clip \in Clip
    BY <1>3 DEF SetContent, Typed
  <2>2. ApplyTyped
    BY <1>3, <2>1, ApplyGotoType DEF SetContent
  <2>3. os' \in [Ends -> Clips]
    BY <1>1, <1>3, <2>1 DEF SetContent, Typed, Clips
  <2>4. late' \in Nat
    BY <1>3 DEF SetContent, Typed
  <2> QED
    BY <1>1, <1>3, <2>2, <2>3, <2>4 DEF SetContent, wires, Typed
<1>4. CASE SetContentFails(p)
  <2>1. ApplyTyped
    BY <1>4, ApplyEndsType DEF SetContentFails
  <2> QED
    BY <1>1, <1>4, <2>1 DEF SetContentFails, wires, Typed
<1>5. CASE StoreApplied(p)
  <2>1. applying[p].pc = "set" /\ applying[p].clip \in Clip
    BY <1>5 DEF StoreApplied, Typed
  <2>2. ApplyTyped
    BY <1>5, <2>1, ApplyGotoType DEF StoreApplied
  <2>3. applied' \in [Ends -> Hash]
    BY <1>1, <1>5, <2>1 DEF StoreApplied, Typed
  <2> QED
    BY <1>1, <1>5, <2>2, <2>3 DEF StoreApplied, wires, Typed
<1>6. CASE StoreLocal(p)
  <2>1. applying[p].pc = "stored" /\ applying[p].clip \in Clip
    BY <1>6 DEF StoreLocal, Typed
  <2>2. ApplyTyped
    BY <1>6, ApplyEndsType DEF StoreLocal
  <2>3. local' \in [Ends -> Hash]
    BY <1>1, <1>6, <2>1 DEF StoreLocal, Typed
  <2> QED
    BY <1>1, <1>6, <2>2, <2>3 DEF StoreLocal, wires, Typed
<1> QED
  BY <1>2, <1>3, <1>4, <1>5, <1>6 DEF StreamTask

\* The steps of a phone, and of its stream.
LEMMA PhoneStepType ==
  ASSUME Typed, NEW p \in Phones,
         PhonePoll(p) \/ PhoneReceive(p) \/ PhoneWrite(p) \/ StreamBreaks(p), MarkRaces
  PROVE  Typed'
<1>1. p \in Ends /\ p # Desktop /\ raced' \in [Ends -> BOOLEAN] /\ \A c \in Clip : c.what \in Hash
  BY DEF Ends, MarkRaces, Overlap, Clip, Hash
<1>2. CASE PhoneRead(p)
  <2> DEFINE r == [pc |-> "read", clip |-> os[p]]
  <2>1. os[p] \in Clip
    BY <1>1, <1>2 DEF PhoneRead, Typed, Clips
  <2>2. r \in Poller /\ poll' = [poll EXCEPT ![p] = r]
    BY <1>2, <2>1 DEF PhoneRead, Poller, Clips
  <2>3. /\ poll' \in [Ends -> Poller] /\ \A e \in Ends : poll'[e].pc # "idle" => poll'[e].clip \in Clip
        /\ poll'[Desktop] = poll[Desktop]
    BY <1>1, <2>1, <2>2, PollType DEF Ends
  <2> QED
    BY <1>1, <1>2, <2>3 DEF PhoneRead, wires, Typed
<1>3. CASE PhoneObserve(p)
  <2>1. poll[p].clip \in Clip /\ PollEnds(p)
    BY <1>1, <1>3 DEF PhoneObserve, Poll, Typed
  <2>2. /\ poll' \in [Ends -> Poller] /\ \A e \in Ends : poll'[e].pc # "idle" => poll'[e].clip \in Clip
        /\ poll'[Desktop] = poll[Desktop]
    BY <1>1, <2>1, PollEndsType DEF Ends
  <2>3. up' \in [Phones -> Seq(Clip)]
    BY <1>3, <2>1, QueueType DEF PhoneObserve, Typed
  <2>4. local' \in [Ends -> Hash]
    BY <1>1, <1>3, <2>1 DEF PhoneObserve, Observed, Typed
  <2> QED
    BY <1>1, <1>3, <2>2, <2>3, <2>4 DEF PhoneObserve, Typed
<1>4. CASE PhoneReceive(p)
  <2>1. Head(down[p]) \in Clip /\ down' \in [Phones -> Seq(Clip)]
    BY <1>4, QueueType DEF PhoneReceive, Typed
  <2>2. writes' \in [Phones -> Seq(Clip)]
    BY <1>4, <2>1, QueueType DEF PhoneReceive, Typed
  <2>3. local' \in [Ends -> Hash] /\ applied' \in [Ends -> Hash]
    BY <1>1, <1>4, <2>1 DEF PhoneReceive, Observed, Typed
  <2> QED
    BY <1>1, <1>4, <2>1, <2>2, <2>3 DEF PhoneReceive, Typed
<1>5. CASE PhoneWrite(p)
  <2>1. Head(writes[p]) \in Clip /\ writes' \in [Phones -> Seq(Clip)]
    BY <1>5, QueueType DEF PhoneWrite, Typed
  <2>2. os' \in [Ends -> Clips]
    BY <1>1, <1>5, <2>1 DEF PhoneWrite, Typed, Clips
  <2> QED
    BY <1>1, <1>5, <2>1, <2>2 DEF PhoneWrite, engine, wires, Typed
<1>6. CASE StreamBreaks(p)
  <2>1. down' \in [Phones -> Seq(Clip)] /\ up' \in [Phones -> Seq(Clip)]
    BY <1>6, QueueType DEF StreamBreaks, Typed
  <2> QED
    BY <1>1, <1>6, <2>1 DEF StreamBreaks, engine, Typed
<1> QED
  BY <1>2, <1>3, <1>4, <1>5, <1>6 DEF PhonePoll

\* The users, and a write of a phone that fails.
LEMMA UserType ==
  ASSUME Typed, (User /\ MarkRaces) \/ \E p \in Phones : PhoneWriteFails(p)
  PROVE  Typed'
<1>1. Phones \subseteq Ends /\ Contents \subseteq Hash
  BY DEF Ends, Hash
<1>2. MarkRaces => raced' \in [Ends -> BOOLEAN]
  BY DEF MarkRaces, Overlap
<1>3. ASSUME NEW e \in Ends, NEW c \in Contents, Copy(e, c), MarkRaces PROVE Typed'
  <2>1. [what |-> c, by |-> e] \in Clips
    BY DEF Clips, Clip
  <2>2. os' \in [Ends -> Clips] /\ copies' \in Nat
    BY <1>3, <2>1 DEF Copy, Typed
  <2> QED
    BY <1>2, <1>3, <2>2 DEF Copy, engine, wires, Typed
<1>4. ASSUME NEW p \in Phones, NEW c \in Contents, SendButton(p, c), MarkRaces PROVE Typed'
  <2>1. [what |-> c, by |-> p] \in Clip
    BY <1>1 DEF Clip
  <2>2. up' \in [Phones -> Seq(Clip)]
    BY <1>4, <2>1, QueueType DEF SendButton, Typed
  <2>3. local' \in [Ends -> Hash] /\ copies' \in Nat
    BY <1>1, <1>4 DEF SendButton, Observed, Typed
  <2> QED
    BY <1>2, <1>4, <2>2, <2>3 DEF SendButton, Typed
<1>5. ASSUME SetEnabled, MarkRaces PROVE Typed'
  BY <1>2, <1>5 DEF SetEnabled, engine, wires, Typed
<1>6. ASSUME NEW p \in Phones, PhoneWriteFails(p) PROVE Typed'
  <2>1. writes' \in [Phones -> Seq(Clip)]
    BY <1>6, QueueType DEF PhoneWriteFails, Typed
  <2>2. raced' \in [Ends -> BOOLEAN]
    BY <1>1, <1>6 DEF PhoneWriteFails, Typed
  <2> QED
    BY <1>6, <2>1, <2>2 DEF PhoneWriteFails, engine, wires, Typed
<1> QED
  BY <1>3, <1>4, <1>5, <1>6 DEF User

LEMMA TypedStep == Typed /\ [Next]_vars => Typed'
<1> SUFFICES ASSUME Typed, [Next]_vars PROVE Typed'
  OBVIOUS
<1>1. CASE UNCHANGED vars
  BY <1>1 DEF vars, engine, wires, Typed
<1> QED
  BY <1>1, PollLoopType, StreamTaskType, PhoneStepType, UserType DEF Next

LEMMA TypedAlways == Spec => []Typed
<1>1. Init => Typed
  <2> SUFFICES ASSUME Init PROVE Typed
    OBVIOUS
  <2>1. Idle \in Poller /\ Idle \in Applier /\ Idle.pc = "idle" /\ Nothing \in Clips /\ Nothing \in Hash
    BY DEF Idle, Poller, Applier, Clips, Hash
  <2>2. poll \in [Ends -> Poller] /\ \A e \in Ends : poll[e].pc = "idle"
    BY <2>1 DEF Init
  <2>3. applying \in [Phones -> Applier] /\ \A p \in Phones : applying[p].pc = "idle"
    BY <2>1 DEF Init
  <2> QED
    BY <2>1, <2>2, <2>3 DEF Init, Typed
<1> QED
  BY <1>1, TypedStep, PTL DEF Spec

\* Every clipboard, hash and wire is well typed, and a step past the read has read something.
THEOREM ClipboardTypeCorrect == Spec => []TypeOK
<1>1. Typed => TypeOK
  BY DEF Typed, TypeOK, Poller, Applier
<1> QED
  BY <1>1, TypedAlways, PTL

-----------------------------------------------------------------------------
(* The switch: the frames that may still be applied once sync is off. *)

Gated == {p \in Phones : applying[p].pc = "gated"}

\* While sync is off, a frame is applied only by a task that was past the check, and each
\* such task applies one.
SwitchInv == ~enabled => late + Cardinality(Gated) <= Cardinality(Phones)

\* With sync switched off, no phone changes the desktop's clipboard, but for the one frame
\* of its task that was past the check.
THEOREM OffIsOff ==
  ASSUME IsFiniteSet(Phones)
  PROVE  Spec => []OffMeansOff
<1>1. IsFiniteSet(Gated) /\ Cardinality(Gated) \in Nat /\ Cardinality(Phones) \in Nat
      /\ Cardinality(Gated) <= Cardinality(Phones)
  BY FS_Subset, FS_CardinalityType DEF Gated
<1>2. Init => SwitchInv
  BY DEF Init, SwitchInv
<1>3. Typed /\ SwitchInv /\ [Next]_vars => SwitchInv'
  <2> SUFFICES ASSUME Typed, SwitchInv, [Next]_vars PROVE SwitchInv'
    OBVIOUS
  <2>1. late \in Nat
    BY DEF Typed
  <2>2. ASSUME UNCHANGED <<applying, enabled, late>> PROVE SwitchInv'
    BY <2>2 DEF SwitchInv, Gated
  <2>3. ASSUME NEW p \in Phones, StreamTask(p) PROVE SwitchInv'
    <3>1. CASE Receive(p)
      <4>1. enabled' = enabled /\ late' = late
        BY <3>1 DEF Receive
      <4>2. ~enabled => Gated' \subseteq Gated
        BY <3>1 DEF Receive, Gated, Idle, Typed
      <4>3. IsFiniteSet(Gated) /\ Cardinality(Gated) \in Nat
        BY <1>1
      <4>4. ~enabled => Cardinality(Gated') <= Cardinality(Gated) /\ Cardinality(Gated') \in Nat
        BY <4>2, <4>3, FS_Subset, FS_CardinalityType
      <4> QED
        BY <1>1, <2>1, <4>1, <4>4 DEF SwitchInv
    <3>2. CASE SetContent(p)
      <4>1. p \in Gated /\ Gated' = Gated \ {p}
        BY <3>2 DEF SetContent, Gated, Typed, Applier
      <4>2. Cardinality(Gated') = Cardinality(Gated) - 1
        BY <1>1, <4>1, FS_RemoveElement
      <4>3. enabled' = enabled /\ (~enabled => late' = late + 1)
        BY <3>2 DEF SetContent
      <4> QED
        BY <1>1, <2>1, <4>2, <4>3 DEF SwitchInv
    <3>3. CASE SetContentFails(p) \/ StoreApplied(p) \/ StoreLocal(p)
      <4>1. enabled' = enabled /\ late' = late
        BY <3>3 DEF SetContentFails, StoreApplied, StoreLocal
      <4>2. Gated' \subseteq Gated
        <5>1. ASSUME applying' = [applying EXCEPT ![p] = Idle] PROVE Gated' \subseteq Gated
          BY <5>1, ApplyEndsType DEF Gated, Idle
        <5>2. CASE StoreApplied(p)
          BY <5>2, ApplyGotoType DEF StoreApplied, Gated
        <5> QED
          BY <3>3, <5>1, <5>2 DEF SetContentFails, StoreLocal
      <4>3. Cardinality(Gated') <= Cardinality(Gated) /\ Cardinality(Gated') \in Nat
        BY <1>1, <4>2, FS_Subset, FS_CardinalityType
      <4> QED
        BY <1>1, <2>1, <4>1, <4>3 DEF SwitchInv
    <3> QED
      BY <2>3, <3>1, <3>2, <3>3 DEF StreamTask
  <2>4. CASE SetEnabled
    <3>1. late' = 0 /\ Gated' = Gated
      BY <2>4 DEF SetEnabled, engine, Gated
    <3> QED
      BY <1>1, <3>1 DEF SwitchInv
  <2>5. PollLoop => UNCHANGED <<applying, enabled, late>>
    BY DEF PollLoop, ReadClipboard, CompareLocal, CompareApplied, Publish, SendTo, BroadcastDone
  <2>6. \A p \in Phones :
          PhonePoll(p) \/ PhoneReceive(p) \/ PhoneWrite(p) \/ StreamBreaks(p) \/ PhoneWriteFails(p)
            => UNCHANGED <<applying, enabled, late>>
    BY DEF PhonePoll, PhoneRead, PhoneObserve, PhoneReceive, PhoneWrite, StreamBreaks, PhoneWriteFails, engine
  <2>7. User => SetEnabled \/ UNCHANGED <<applying, enabled, late>>
    BY DEF User, Copy, SendButton, engine
  <2>8. CASE UNCHANGED vars
    BY <2>2, <2>8 DEF vars, engine
  <2> QED
    BY <2>2, <2>3, <2>4, <2>5, <2>6, <2>7, <2>8 DEF Next
<1>4. Typed /\ SwitchInv => OffMeansOff
  BY <1>1 DEF Typed, SwitchInv, OffMeansOff
<1> QED
  BY <1>2, <1>3, <1>4, TypedAlways, PTL DEF Spec
-----------------------------------------------------------------------------
(* Echoes: what an end sends out while no operations have overlapped there. *)

Polling == {"read", "fresh", "publish"}
Storing == {"set", "stored"}
Foreign(e, clip) == clip \in Clip /\ clip.by # e

\* Where operations overlap, raced says so.
RaceInv ==
  /\ \A p \in Phones : applying[p].pc \in Storing /\ ~raced[Desktop] =>
       /\ poll[Desktop].pc \notin Polling
       /\ \A q \in Phones : applying[q].pc \in Storing => q = p
  /\ \A p \in Phones : writes[p] # <<>> /\ ~raced[p] => poll[p].pc \notin Polling

\* What is on the desktop's clipboard and was not copied there is the content last applied, or
\* is just being applied; what a poll has read and was not copied there is the content last
\* applied; and what goes out was copied there.
DesktopInv ==
  ~raced[Desktop] =>
    /\ Foreign(Desktop, os[Desktop]) =>
         \/ applied[Desktop] = os[Desktop].what /\ \A p \in Phones : applying[p].pc # "set"
         \/ \E p \in Phones : applying[p].pc = "set" /\ applying[p].clip = os[Desktop]
    /\ poll[Desktop].pc \in {"read", "fresh"} /\ Foreign(Desktop, poll[Desktop].clip) =>
         applied[Desktop] = poll[Desktop].clip.what
    /\ poll[Desktop].pc \in {"publish", "sending"} => ~Foreign(Desktop, poll[Desktop].clip)

\* The same on a phone, where the hash is recorded before the writes that bring the content.
PhoneInv(p) ==
  ~raced[p] =>
    /\ writes[p] = <<>> /\ Foreign(p, os[p]) => applied[p] = os[p].what
    /\ writes[p] # <<>> => applied[p] = writes[p][Len(writes[p])].what
    /\ poll[p].pc = "read" /\ Foreign(p, poll[p].clip) => applied[p] = poll[p].clip.what

EchoInv == RaceInv /\ DesktopInv /\ \A p \in Phones : PhoneInv(p)

\* A race is never forgotten, and one that begins is recorded at once.
LEMMA RaceStep ==
  ASSUME Typed, RaceInv, [Next]_vars
  PROVE  RaceInv' /\ \A e \in Ends : raced[e] => raced'[e]
<1> USE DEF Polling, Storing
<1>1. Phones \subseteq Ends /\ Desktop \in Ends /\ raced \in [Ends -> BOOLEAN]
  BY DEF Ends, Typed
<1>2. CASE MarkRaces
  <2>1. \A e \in Ends : raced'[e] = (raced[e] \/ Overlap(e)')
    BY <1>2 DEF MarkRaces
  <2>2. ASSUME NEW p \in Phones, applying'[p].pc \in Storing, ~raced'[Desktop]
        PROVE  /\ poll'[Desktop].pc \notin Polling
               /\ \A q \in Phones : applying'[q].pc \in Storing => q = p
    <3>1. ~Overlap(Desktop)'
      BY <1>1, <2>1, <2>2
    <3>2. <<"apply", p>> \in Operations(Desktop)'
      BY <2>2 DEF Operations
    <3>3. poll'[Desktop].pc \in Polling => <<"poll", Desktop>> \in Operations(Desktop)'
      BY DEF Operations
    <3>4. \A q \in Phones : applying'[q].pc \in Storing => <<"apply", q>> \in Operations(Desktop)'
      BY DEF Operations
    <3>5. \A x \in Operations(Desktop)' : x = <<"apply", p>>
      BY <3>1, <3>2 DEF Overlap
    <3>6. \A q \in Phones : <<"apply", q>> = <<"apply", p>> => q = p
      OBVIOUS
    <3>7. <<"poll", Desktop>> # <<"apply", p>>
      OBVIOUS
    <3> QED
      BY <3>3, <3>4, <3>5, <3>6, <3>7
  <2>3. ASSUME NEW p \in Phones, writes'[p] # <<>>, ~raced'[p] PROVE poll'[p].pc \notin Polling
    <3>1. ~Overlap(p)'
      BY <1>1, <2>1, <2>3
    <3>2. <<"apply", p>> \in Operations(p)'
      BY <2>3 DEF Operations
    <3>3. poll'[p].pc \in Polling => <<"poll", p>> \in Operations(p)'
      BY DEF Operations
    <3>4. <<"poll", p>> # <<"apply", p>>
      OBVIOUS
    <3> QED
      BY <3>1, <3>2, <3>3, <3>4 DEF Overlap
  <2> QED
    BY <2>1, <2>2, <2>3 DEF RaceInv
<1>3. ASSUME NEW p \in Phones, PhoneWriteFails(p)
      PROVE  RaceInv' /\ \A e \in Ends : raced[e] => raced'[e]
  <2>1. /\ raced' = [raced EXCEPT ![p] = TRUE] /\ UNCHANGED <<poll, applying>>
        /\ writes' = [writes EXCEPT ![p] = Tail(@)]
    BY <1>3 DEF PhoneWriteFails, engine
  <2>2. /\ raced'[p] /\ \A e \in Ends : e # p => raced'[e] = raced[e]
        /\ \A q \in Phones : q # p => writes'[q] = writes[q]
    BY <1>1, <2>1 DEF Typed
  <2> QED
    BY <1>1, <2>1, <2>2 DEF RaceInv
<1>4. CASE UNCHANGED vars
  BY <1>4 DEF vars, engine, RaceInv
<1> QED
  BY <1>2, <1>3, <1>4 DEF Next

\* The steps of the poll loop keep it: a poll reads the clipboard while nothing is applied.
LEMMA DesktopPolls ==
  ASSUME Typed, RaceInv, DesktopInv, RaceInv', raced[Desktop] => raced'[Desktop], PollLoop
  PROVE  DesktopInv'
<1> DEFINE D == Desktop
<1> SUFFICES ASSUME ~raced'[D] PROVE DesktopInv'
  BY DEF DesktopInv
<1>1. D \in Ends /\ ~raced[D]
  BY DEF Ends
<1>2. CASE ReadClipboard
  <2>1. poll'[D] = [pc |-> "read", clip |-> os[D]] /\ UNCHANGED <<os, applied, applying>>
    BY <1>1, <1>2 DEF ReadClipboard, Typed
  <2>2. \A p \in Phones : applying[p].pc # "set"
    BY <2>1 DEF RaceInv, Polling, Storing
  <2> QED
    BY <1>1, <2>1, <2>2 DEF DesktopInv
<1>3. CASE CompareLocal
  <2>1. poll[D].pc = "read" /\ (PollEnds(D) \/ PollGoto(D, "fresh")) /\ UNCHANGED <<os, applied, applying>>
    BY <1>3 DEF CompareLocal, Poll
  <2>2. poll'[D].pc = "idle" \/ (poll'[D].pc = "fresh" /\ poll'[D].clip = poll[D].clip)
    BY <1>1, <2>1, PollGotoType, PollEndsType DEF Idle
  <2> QED
    BY <1>1, <2>1, <2>2 DEF DesktopInv
<1>4. CASE CompareApplied
  <2>1. /\ poll[D].pc = "fresh" /\ UNCHANGED <<os, applied, applying>>
        /\ PollEnds(D) \/ (PollGoto(D, "publish") /\ applied[D] # poll[D].clip.what)
    BY <1>4 DEF CompareApplied, Poll
  <2>2. poll'[D].pc = "idle"
          \/ (poll'[D].pc = "publish" /\ poll'[D].clip = poll[D].clip /\ applied[D] # poll[D].clip.what)
    BY <1>1, <2>1, PollGotoType, PollEndsType DEF Idle
  <2> QED
    BY <1>1, <2>1, <2>2 DEF DesktopInv
<1>5. CASE Publish
  <2>1. poll[D].pc = "publish" /\ PollGoto(D, "sending") /\ UNCHANGED <<os, applied, applying>>
    BY <1>5 DEF Publish, Poll
  <2>2. poll'[D].pc = "sending" /\ poll'[D].clip = poll[D].clip
    BY <1>1, <2>1, PollGotoType
  <2> QED
    BY <1>1, <2>1, <2>2 DEF DesktopInv
<1>6. ASSUME NEW p \in Phones, SendTo(p) PROVE DesktopInv'
  BY <1>1, <1>6 DEF SendTo, DesktopInv
<1>7. CASE BroadcastDone
  <2>1. PollEnds(D) /\ UNCHANGED <<os, applied, applying>>
    BY <1>7 DEF BroadcastDone
  <2>2. poll'[D].pc = "idle"
    BY <1>1, <2>1, PollEndsType DEF Idle
  <2> QED
    BY <1>1, <2>1, <2>2 DEF DesktopInv
<1> QED
  BY <1>2, <1>3, <1>4, <1>5, <1>6, <1>7 DEF PollLoop

\* The steps of a stream task keep it: a frame is applied while no poll is under way and no
\* other frame is applied.
LEMMA DesktopApplies ==
  ASSUME Typed, RaceInv, DesktopInv, RaceInv', raced[Desktop] => raced'[Desktop],
         NEW p \in Phones, StreamTask(p)
  PROVE  DesktopInv'
<1> DEFINE D == Desktop
<1> SUFFICES ASSUME ~raced'[D] PROVE DesktopInv'
  BY DEF DesktopInv
<1>1. D \in Ends /\ ~raced[D] /\ UNCHANGED poll
  BY DEF Ends, StreamTask, Receive, SetContent, SetContentFails, StoreApplied, StoreLocal
<1>2. CASE Receive(p)
  <2>1. applying[p].pc = "idle" /\ UNCHANGED <<os, applied>>
    BY <1>2 DEF Receive
  <2>2. applying'[p].pc # "set" /\ \A q \in Phones : q # p => applying'[q] = applying[q]
    BY <1>2 DEF Receive, Idle, Typed
  <2> QED
    BY <1>1, <2>1, <2>2 DEF DesktopInv
<1>3. CASE SetContent(p)
  <2>1. applying[p].pc = "gated" /\ applying' = [applying EXCEPT ![p].pc = "set"] /\ UNCHANGED applied
    BY <1>3 DEF SetContent
  <2>2. applying'[p].pc = "set" /\ applying'[p].clip = applying[p].clip
    BY <2>1, ApplyGotoType
  <2>3. os'[D] = applying[p].clip
    BY <1>1, <1>3 DEF SetContent, Typed
  <2>4. poll[D].pc \notin Polling
    BY <1>1, <2>2 DEF RaceInv, Storing
  <2> QED
    BY <1>1, <2>1, <2>2, <2>3, <2>4 DEF DesktopInv, Polling
<1>4. CASE SetContentFails(p)
  <2>1. applying[p].pc = "gated" /\ applying' = [applying EXCEPT ![p] = Idle] /\ UNCHANGED <<os, applied>>
    BY <1>4 DEF SetContentFails
  <2>2. applying'[p].pc = "idle" /\ \A q \in Phones : q # p => applying'[q] = applying[q]
    BY <2>1, ApplyEndsType DEF Idle
  <2> QED
    BY <1>1, <2>1, <2>2 DEF DesktopInv
<1>5. CASE StoreApplied(p)
  <2>1. applying[p].pc = "set" /\ applying' = [applying EXCEPT ![p].pc = "stored"] /\ UNCHANGED os
    BY <1>5 DEF StoreApplied
  <2>2. applying'[p].pc = "stored" /\ \A q \in Phones : q # p => applying'[q] = applying[q]
    BY <2>1, ApplyGotoType
  <2>3. applied'[D] = applying[p].clip.what
    BY <1>1, <1>5 DEF StoreApplied, Typed
  <2>4. poll[D].pc \notin Polling /\ \A q \in Phones : applying[q].pc = "set" => q = p
    BY <1>1, <2>1 DEF RaceInv, Storing
  <2>5. Foreign(D, os[D]) => os[D] = applying[p].clip
    BY <1>1, <2>1, <2>4 DEF DesktopInv
  <2>6. Foreign(D, os'[D]) => applied'[D] = os'[D].what /\ \A q \in Phones : applying'[q].pc # "set"
    BY <2>1, <2>2, <2>3, <2>4, <2>5
  <2> QED
    BY <1>1, <2>4, <2>6 DEF DesktopInv, Polling
<1>6. CASE StoreLocal(p)
  <2>1. applying[p].pc = "stored" /\ applying' = [applying EXCEPT ![p] = Idle] /\ UNCHANGED <<os, applied>>
    BY <1>6 DEF StoreLocal
  <2>2. applying'[p].pc = "idle" /\ \A q \in Phones : q # p => applying'[q] = applying[q]
    BY <2>1, ApplyEndsType DEF Idle
  <2> QED
    BY <1>1, <2>1, <2>2 DEF DesktopInv
<1> QED
  BY <1>2, <1>3, <1>4, <1>5, <1>6 DEF StreamTask
\* The head of a queue leaves it, and its last element stays last.
LEMMA HeadLeaves ==
  ASSUME NEW q \in Seq(Clip), q # <<>>
  PROVE  /\ Len(Tail(q)) = Len(q) - 1 /\ Len(q) \in Nat /\ Tail(q) \in Seq(Clip)
         /\ IF Tail(q) = <<>> THEN Head(q) = q[Len(q)] ELSE Tail(q)[Len(Tail(q))] = q[Len(q)]
<1>1. /\ Len(q) \in Nat \ {0} /\ Tail(q) \in Seq(Clip) /\ Len(Tail(q)) = Len(q) - 1
      /\ \A i \in 1 .. Len(Tail(q)) : Tail(q)[i] = q[i + 1]
  <2>1. Len(q) \in Nat \ {0}
    BY EmptySeq
  <2> QED
    BY <2>1, HeadTailProperties
<1>2. Head(q) = q[1]
  OBVIOUS
<1> DEFINE t == Tail(q)
<1>3. t \in Seq(Clip) /\ t # <<>> => Len(t) \in Nat \ {0}
  BY EmptySeq
<1>4. /\ t \in Seq(Clip) /\ Len(t) = Len(q) - 1
      /\ \A i \in 1 .. Len(t) : t[i] = q[i + 1]
  BY <1>1
<1> HIDE DEF t
<1>5. t = <<>> => Len(t) = 0
  OBVIOUS
<1>6. IF t = <<>> THEN Head(q) = q[Len(q)] ELSE t[Len(t)] = q[Len(q)]
  BY <1>1, <1>2, <1>3, <1>4, <1>5
<1> QED
  BY <1>1, <1>6 DEF t

\* The steps of a phone keep its own: it reads its clipboard while no write is under way.
LEMMA PhoneKeeps ==
  ASSUME Typed, RaceInv, NEW p \in Phones, PhoneInv(p), RaceInv', raced[p] => raced'[p],
         PhonePoll(p) \/ PhoneReceive(p) \/ PhoneWrite(p) \/ StreamBreaks(p)
  PROVE  PhoneInv(p)'
<1> SUFFICES ASSUME ~raced'[p] PROVE PhoneInv(p)'
  BY DEF PhoneInv
<1>1. p \in Ends /\ ~raced[p]
  BY DEF Ends
<1>2. CASE PhoneRead(p)
  <2>1. poll'[p] = [pc |-> "read", clip |-> os[p]] /\ UNCHANGED <<os, applied, writes>>
    BY <1>1, <1>2 DEF PhoneRead, Typed
  <2>2. writes[p] = <<>>
    BY <1>1, <2>1 DEF RaceInv, Polling
  <2> QED
    BY <1>1, <2>1, <2>2 DEF PhoneInv
<1>3. CASE PhoneObserve(p)
  <2>1. PollEnds(p) /\ UNCHANGED <<os, applied, writes>>
    BY <1>3 DEF PhoneObserve
  <2>2. poll'[p].pc = "idle"
    BY <1>1, <2>1, PollEndsType DEF Idle
  <2> QED
    BY <1>1, <2>1, <2>2 DEF PhoneInv
<1>4. CASE PhoneReceive(p)
  <2>1. Head(down[p]) \in Clip
    BY <1>4, QueueType DEF PhoneReceive, Typed
  <2>2. writes'[p] = Append(writes[p], Head(down[p])) /\ applied'[p] = Head(down[p]).what
    BY <1>1, <1>4 DEF PhoneReceive, Typed
  <2>3. writes[p] \in Seq(Clip)
    BY DEF Typed
  <2>4. writes'[p] # <<>> /\ writes'[p][Len(writes'[p])] = Head(down[p])
    BY <2>1, <2>2, <2>3
  <2>5. poll'[p].pc # "read"
    BY <2>4 DEF RaceInv, Polling
  <2> QED
    BY <2>2, <2>4, <2>5 DEF PhoneInv
<1>5. CASE PhoneWrite(p)
  <2>1. writes[p] \in Seq(Clip) /\ writes[p] # <<>> /\ UNCHANGED <<applied, poll>>
    BY <1>5 DEF PhoneWrite, engine, Typed
  <2>2. os'[p] = Head(writes[p]) /\ writes'[p] = Tail(writes[p])
    BY <1>1, <1>5 DEF PhoneWrite, Typed
  <2>3. applied[p] = writes[p][Len(writes[p])].what
    BY <1>1, <2>1 DEF PhoneInv
  <2>4. writes'[p] = <<>> => os'[p] = writes[p][Len(writes[p])]
    BY <2>1, <2>2, HeadLeaves
  <2>5. writes'[p] # <<>> => writes'[p][Len(writes'[p])] = writes[p][Len(writes[p])]
    BY <2>1, <2>2, HeadLeaves
  <2>6. poll'[p].pc # "read"
    BY <1>1, <2>1 DEF RaceInv, Polling
  <2> QED
    BY <2>1, <2>3, <2>4, <2>5, <2>6 DEF PhoneInv
<1>6. CASE StreamBreaks(p)
  BY <1>1, <1>6 DEF StreamBreaks, engine, PhoneInv
<1> QED
  BY <1>2, <1>3, <1>4, <1>5, <1>6 DEF PhonePoll

\* A step at one end leaves the other ends' alone.
LEMMA OtherEnds ==
  ASSUME Typed, NEW p \in Phones, MarkRaces,
         PhonePoll(p) \/ PhoneReceive(p) \/ PhoneWrite(p) \/ StreamBreaks(p)
  PROVE  /\ UNCHANGED <<os[Desktop], applied[Desktop], poll[Desktop], applying>>
         /\ \A q \in Phones : q # p => UNCHANGED <<os[q], applied[q], poll[q], writes[q]>>
<1>1. p # Desktop /\ Desktop \in Ends /\ Phones \subseteq Ends
  BY DEF Ends
<1>2. CASE PhoneRead(p)
  BY <1>1, <1>2 DEF PhoneRead, Typed
<1>3. CASE PhoneObserve(p)
  BY <1>1, <1>3 DEF PhoneObserve, PollEnds, Typed
<1>4. CASE PhoneReceive(p)
  BY <1>1, <1>4 DEF PhoneReceive, Typed
<1>5. CASE PhoneWrite(p)
  BY <1>1, <1>5 DEF PhoneWrite, engine, Typed
<1>6. CASE StreamBreaks(p)
  BY <1>1, <1>6 DEF StreamBreaks, engine, Typed
<1> QED
  BY <1>2, <1>3, <1>4, <1>5, <1>6 DEF PhonePoll

LEMMA EchoStep == Typed /\ EchoInv /\ [Next]_vars => EchoInv'
<1> SUFFICES ASSUME Typed, EchoInv, [Next]_vars PROVE EchoInv'
  OBVIOUS
<1> USE DEF EchoInv
<1>1. RaceInv' /\ \A e \in Ends : raced[e] => raced'[e]
  BY RaceStep
<1>2. Desktop \in Ends /\ Phones \subseteq Ends /\ \A p \in Phones : p # Desktop
  BY DEF Ends
\* What leaves an end's own state alone keeps its part, for a race only weakens it.
<1>3. ASSUME UNCHANGED <<os[Desktop], applied[Desktop], poll[Desktop], applying>> PROVE DesktopInv'
  BY <1>1, <1>2, <1>3 DEF DesktopInv
<1>4. ASSUME NEW p \in Phones, UNCHANGED <<os[p], applied[p], poll[p], writes[p]>> PROVE PhoneInv(p)'
  BY <1>1, <1>2, <1>4 DEF PhoneInv
<1>5. CASE PollLoop
  <2>1. DesktopInv'
    BY <1>1, <1>2, <1>5, DesktopPolls
  <2>2. ASSUME NEW p \in Phones PROVE UNCHANGED <<os[p], applied[p], poll[p], writes[p]>>
    <3>1. CASE ReadClipboard
      BY <1>2, <3>1 DEF ReadClipboard, Typed
    <3>2. CASE CompareLocal
      BY <1>2, <3>2 DEF CompareLocal, PollEnds, PollGoto, Typed
    <3>3. CASE CompareApplied
      BY <1>2, <3>3 DEF CompareApplied, PollEnds, PollGoto, Typed
    <3>4. CASE Publish
      BY <1>2, <3>4 DEF Publish, PollGoto, Typed
    <3>5. CASE BroadcastDone
      BY <1>2, <3>5 DEF BroadcastDone, PollEnds, Typed
    <3>6. ASSUME NEW q \in Phones, SendTo(q) PROVE UNCHANGED <<os, applied, poll, writes>>
      BY <3>6 DEF SendTo
    <3> QED
      BY <1>5, <3>1, <3>2, <3>3, <3>4, <3>5, <3>6 DEF PollLoop
  <2> QED
    BY <1>1, <1>4, <2>1, <2>2
<1>6. ASSUME NEW p \in Phones, StreamTask(p) PROVE EchoInv'
  <2>1. DesktopInv'
    BY <1>1, <1>2, <1>6, DesktopApplies
  <2>2. ASSUME NEW q \in Phones PROVE UNCHANGED <<os[q], applied[q], poll[q], writes[q]>>
    BY <1>2, <1>6 DEF StreamTask, Receive, SetContent, SetContentFails, StoreApplied, StoreLocal, Typed
  <2> QED
    BY <1>1, <1>4, <2>1, <2>2
<1>7. ASSUME NEW p \in Phones, PhonePoll(p) \/ PhoneReceive(p) \/ PhoneWrite(p) \/ StreamBreaks(p), MarkRaces
      PROVE  EchoInv'
  <2>1. PhoneInv(p)'
    BY <1>1, <1>2, <1>7, PhoneKeeps
  <2>2. DesktopInv' /\ \A q \in Phones : q # p => PhoneInv(q)'
    BY <1>3, <1>4, <1>7, OtherEnds
  <2> QED
    BY <1>1, <2>1, <2>2
<1>8. CASE User
  <2>1. ASSUME NEW e \in Ends, NEW c \in Contents, Copy(e, c) PROVE EchoInv'
    <3>1. os'[e].by = e /\ UNCHANGED <<applied, poll, applying, writes>>
      BY <2>1 DEF Copy, engine, Typed
    <3>2. \A d \in Ends : d # e => os'[d] = os[d]
      BY <2>1 DEF Copy, Typed
    <3>3. ~Foreign(e, os'[e])
      BY <3>1 DEF Foreign
    <3>4. DesktopInv'
      BY <1>1, <1>2, <3>1, <3>2, <3>3 DEF DesktopInv
    <3>5. ASSUME NEW p \in Phones PROVE PhoneInv(p)'
      BY <1>1, <1>2, <3>1, <3>2, <3>3 DEF PhoneInv
    <3> QED
      BY <1>1, <3>4, <3>5
  <2>2. (\E p \in Phones, c \in Contents : SendButton(p, c)) \/ SetEnabled => UNCHANGED <<os, applied, poll, applying, writes>>
    BY DEF SendButton, SetEnabled, engine
  <2> QED
    BY <1>1, <1>3, <1>4, <1>8, <2>1, <2>2 DEF User
<1>9. ASSUME NEW p \in Phones, PhoneWriteFails(p) PROVE EchoInv'
  <2>1. UNCHANGED <<os, applied, poll, applying>> /\ raced'[p]
    BY <1>2, <1>9 DEF PhoneWriteFails, engine, Typed
  <2>2. \A q \in Phones : q # p => writes'[q] = writes[q]
    BY <1>9 DEF PhoneWriteFails, Typed
  <2>3. PhoneInv(p)'
    BY <2>1 DEF PhoneInv
  <2> QED
    BY <1>1, <1>3, <1>4, <2>1, <2>2, <2>3
<1>10. CASE UNCHANGED vars
  BY <1>1, <1>3, <1>4, <1>10 DEF vars, engine
<1> QED
  BY <1>5, <1>6, <1>7, <1>8, <1>9, <1>10 DEF Next

\* An end sends out only what its own user copied, unless a poll and an application have
\* overlapped there or a write of its operating system was lost: the guards on both ends stop
\* every other echo, with any number of phones.
THEOREM EchoesOnlyAfterRaces == Spec => EchoOnlyAfterRace
<1>1. Init => EchoInv
  BY Nothing \notin Clip DEF Init, EchoInv, RaceInv, DesktopInv, PhoneInv, Foreign, Idle, Ends, Storing, Polling
<1>2. Typed /\ EchoInv /\ [Next]_vars => EchoInv'
  BY EchoStep
<1> DEFINE Out(p) == /\ Len(down'[p]) > Len(down[p]) =>
                          raced[Desktop] \/ down'[p][Len(down'[p])].by = Desktop
                     /\ Len(up'[p]) > Len(up[p]) =>
                          raced[p] \/ up'[p][Len(up'[p])].by = p
<1>3. ASSUME Typed, EchoInv, [Next]_vars, NEW p \in Phones PROVE Out(p)
  <2>1. /\ down[p] \in Seq(Clip) /\ up[p] \in Seq(Clip) /\ p \in Ends
        /\ Len(down[p]) \in Nat /\ Len(up[p]) \in Nat
    BY <1>3, LenProperties DEF Typed, Ends
  <2>2. down'[p] = down[p] /\ up'[p] = up[p] => Out(p)
    BY <2>1
  <2>3. ASSUME NEW q \in Phones, SendTo(q) PROVE Out(p)
    <3>1. poll[Desktop].pc = "sending" /\ poll[Desktop].clip \in Clip
      BY <1>3, <2>3 DEF SendTo, Typed, Ends
    <3>2. ~raced[Desktop] => poll[Desktop].clip.by = Desktop
      BY <1>3, <3>1 DEF EchoInv, DesktopInv, Foreign
    <3>3. up'[p] = up[p] /\ (down'[p] = down[p] \/ down'[p] = Append(down[p], poll[Desktop].clip))
      BY <1>3, <2>3 DEF SendTo, Typed
    <3> QED
      BY <2>1, <3>1, <3>2, <3>3
  <2>4. ASSUME NEW q \in Phones, PhoneObserve(q) PROVE Out(p)
    <3>1. poll[q].pc = "read" /\ poll[q].clip \in Clip /\ down' = down
      BY <1>3, <2>4 DEF PhoneObserve, Poll, Typed, Ends
    <3>2. IsNew(q, poll[q].clip.what) /\ ~raced[q] => poll[q].clip.by = q
      BY <1>3, <3>1 DEF EchoInv, PhoneInv, Foreign, IsNew
    <3>3. up'[p] = up[p] \/ (p = q /\ IsNew(q, poll[q].clip.what) /\ up'[p] = Append(up[p], poll[q].clip))
      BY <1>3, <2>4 DEF PhoneObserve, Typed
    <3> QED
      BY <2>1, <3>1, <3>2, <3>3
  <2>5. ASSUME NEW q \in Phones, NEW c \in Contents, SendButton(q, c) PROVE Out(p)
    <3>1. [what |-> c, by |-> q] \in Clip
      BY DEF Clip, Ends
    <3>2. down' = down /\ (up'[p] = up[p] \/ (p = q /\ up'[p] = Append(up[p], [what |-> c, by |-> q])))
      BY <1>3, <2>5 DEF SendButton, Typed
    <3> QED
      BY <2>1, <3>1, <3>2
  <2>6. ASSUME NEW q \in Phones, Receive(q) PROVE Out(p)
    <3>1. down' = down /\ (up'[p] = up[p] \/ (up[p] # <<>> /\ up'[p] = Tail(up[p])))
      BY <1>3, <2>6 DEF Receive, Typed
    <3>2. up'[p] = up[p] \/ Len(up'[p]) = Len(up[p]) - 1
      BY <2>1, <3>1, HeadLeaves
    <3> QED
      BY <2>1, <3>1, <3>2
  <2>7. ASSUME NEW q \in Phones, PhoneReceive(q) PROVE Out(p)
    <3>1. up' = up /\ (down'[p] = down[p] \/ (down[p] # <<>> /\ down'[p] = Tail(down[p])))
      BY <1>3, <2>7 DEF PhoneReceive, Typed
    <3>2. down'[p] = down[p] \/ Len(down'[p]) = Len(down[p]) - 1
      BY <2>1, <3>1, HeadLeaves
    <3> QED
      BY <2>1, <3>1, <3>2
  <2>8. ASSUME NEW q \in Phones, StreamBreaks(q) PROVE Out(p)
    <3>1. (up'[p] = up[p] \/ up'[p] = <<>>) /\ (down'[p] = down[p] \/ down'[p] = <<>>)
      BY <1>3, <2>8 DEF StreamBreaks, Typed
    <3> QED
      BY <2>1, <3>1
  <2>9. ASSUME NEW q \in Phones,
               SetContent(q) \/ SetContentFails(q) \/ StoreApplied(q) \/ StoreLocal(q) \/ PhoneRead(q)
                 \/ PhoneWrite(q) \/ PhoneWriteFails(q)
        PROVE  UNCHANGED <<down, up>>
    BY <2>9 DEF SetContent, SetContentFails, StoreApplied, StoreLocal, PhoneRead, PhoneWrite,
                PhoneWriteFails, wires
  <2>10. ReadClipboard \/ CompareLocal \/ CompareApplied \/ Publish \/ BroadcastDone
           \/ SetEnabled \/ (\E e \in Ends, c \in Contents : Copy(e, c)) \/ UNCHANGED vars
           => UNCHANGED <<down, up>>
    BY DEF ReadClipboard, CompareLocal, CompareApplied, Publish, BroadcastDone, SetEnabled, Copy, vars, wires
  <2> HIDE DEF Out
  <2> QED
    BY <1>3, <2>2, <2>3, <2>4, <2>5, <2>6, <2>7, <2>8, <2>9, <2>10
    DEF Next, PollLoop, StreamTask, PhonePoll, User
<1>4. Typed /\ EchoInv /\ [Next]_vars => [\A p \in Phones : Out(p)]_vars
  BY <1>3
<1>5. (\A p \in Phones : Out(p)) =>
        /\ \A p \in Phones : Len(down'[p]) > Len(down[p]) =>
             raced[Desktop] \/ down'[p][Len(down'[p])].by = Desktop
        /\ \A p \in Phones : Len(up'[p]) > Len(up[p]) =>
             raced[p] \/ up'[p][Len(up'[p])].by = p
  OBVIOUS
<1> QED
  BY <1>1, <1>2, <1>4, <1>5, TypedAlways, PTL DEF Spec, EchoOnlyAfterRace
-----------------------------------------------------------------------------
(* The Wayland clipboard: nothing of the newest selection is forgotten. *)

Selection == [by : {"us", "app"}, kind : {"text", "other", "none"}]
Dispatched == [kind : {"selection", "send", "paste", "finished", "nothing"}, of : Nat]

\* The event of the newest selection waits for the event-loop thread.
Announced == \E i \in DOMAIN wayland : wayland[i] = Msg("selection", Newest)

\* The newest selection is announced, is being read, or has been stored, unless the
\* ghost says why not.
NewestInHand ==
  \/ overtaken
  \/ latest = [of |-> Newest, kind |-> Outcome(Newest)]
  \/ Announced
  \/ Newest \in DOMAIN readers

CopyInv ==
  /\ made \in Seq(Selection)
  /\ wayland \in Seq(Dispatched)
  /\ NewestInHand

\* The head of the events leaves: the newest selection stays announced unless it was that.
LEMMA DispatchKeeps ==
  ASSUME wayland \in Seq(Dispatched), wayland # <<>>, wayland' = Tail(wayland), UNCHANGED made
  PROVE  /\ wayland' \in Seq(Dispatched)
         /\ Announced => Announced' \/ Head(wayland) = Msg("selection", Newest)
<1>1. /\ \A i \in DOMAIN wayland : i = 1 \/ (i - 1 \in DOMAIN wayland' /\ wayland'[i - 1] = wayland[i])
      /\ Head(wayland) = wayland[1] /\ wayland' \in Seq(Dispatched)
  BY TailPlaces
<1>2. Newest' = Newest
  BY DEF Newest
<1> QED
  BY <1>1, <1>2 DEF Announced

\* A new event waits behind the others.
LEMMA AnnounceKeeps ==
  ASSUME wayland \in Seq(Dispatched), NEW m \in Dispatched, wayland' = Append(wayland, m)
  PROVE  /\ wayland' \in Seq(Dispatched)
         /\ m = Msg("selection", Newest') => Announced'
         /\ Announced /\ UNCHANGED made => Announced'
<1>1. /\ \A i \in DOMAIN wayland : i \in DOMAIN wayland' /\ wayland'[i] = wayland[i]
      /\ Len(wayland) + 1 \in DOMAIN wayland' /\ wayland'[Len(wayland) + 1] = m
      /\ wayland' \in Seq(Dispatched)
  BY AppendPlaces
<1>2. UNCHANGED made => Newest' = Newest
  BY DEF Newest
<1> QED
  BY <1>1, <1>2 DEF Announced

\* Storing an outcome either stores the newest one or is overtaken.
LEMMA StoreKeeps == \A n, kind : Store(n, kind) /\ UNCHANGED made => NewestInHand'
BY DEF Store, NewestInHand, Outcome, Newest

\* A step that stores nothing and loses neither event nor reader of the newest selection.
LEMMA InHandFrame ==
  ASSUME NewestInHand, UNCHANGED <<made, latest>>, overtaken => overtaken',
         Announced => Announced' \/ overtaken' \/ Newest \in DOMAIN readers',
         Newest \in DOMAIN readers => overtaken' \/ Newest \in DOMAIN readers'
  PROVE  NewestInHand'
BY DEF NewestInHand, Outcome, Newest

LEMMA PipeKeeps == \A e, what : DOMAIN readers \subseteq DOMAIN Pipe(e, what)
BY DEF Pipe, Put

LEMMA CopyStart == CopyInit => CopyInv
<1> SUFFICES ASSUME CopyInit PROVE CopyInv
  OBVIOUS
<1>1. made = <<[by |-> "app", kind |-> "none"]>> /\ wayland = <<>> /\ latest = [of |-> 1, kind |-> "none"]
  BY DEF CopyInit
<1>2. made \in Seq(Selection) /\ Newest = 1 /\ Outcome(1) = "none"
  BY <1>1 DEF Selection, Newest, Outcome
<1> QED
  BY <1>1, <1>2 DEF CopyInv, NewestInHand

\* A new selection of another client or of the daemon is announced at once.
LEMMA NewSelectionKeeps ==
  ASSUME CopyInv, NEW s \in Selection, made' = Append(made, s),
         wayland' = Append(wayland, Msg("selection", Newest + 1))
  PROVE  CopyInv'
<1>1. made' \in Seq(Selection) /\ Newest' = Newest + 1 /\ Newest \in Nat
  BY DEF CopyInv, Newest
<1>2. Msg("selection", Newest + 1) \in Dispatched
  BY <1>1 DEF Msg, Dispatched
<1>3. wayland' \in Seq(Dispatched) /\ Announced'
  BY <1>1, <1>2, AnnounceKeeps DEF CopyInv
<1> QED
  BY <1>1, <1>3 DEF CopyInv, NewestInHand

\* No step forgets the newest selection.
LEMMA CopyStep == CopyInv /\ [CopyNext]_clipVars => CopyInv'
<1> SUFFICES ASSUME CopyInv, [CopyNext]_clipVars PROVE CopyInv'
  OBVIOUS
<1>1. made \in Seq(Selection) /\ wayland \in Seq(Dispatched) /\ NewestInHand
  BY DEF CopyInv
<1>2. \A k \in {"send", "paste", "finished"} : \A n \in Nat : Msg(k, n) \in Dispatched
  BY DEF Msg, Dispatched
<1>3. ASSUME NEW kind \in {"text", "other", "none"}, OtherCopies(kind) PROVE CopyInv'
  <2>1. [by |-> "app", kind |-> kind] \in Selection
    BY DEF Selection
  <2> QED
    BY <1>3, <2>1, NewSelectionKeeps DEF OtherCopies
<1>4. CASE WaylandSetContent
  <2>1. [by |-> "us", kind |-> "text"] \in Selection
    BY DEF Selection
  <2> QED
    BY <1>4, <2>1, NewSelectionKeeps DEF WaylandSetContent
<1>5. CASE OtherPastes \/ SeatLost
  <2>1. PICK m \in Dispatched : wayland' = Append(wayland, m)
    <3>1. source = Newest => source \in Nat
      BY <1>1 DEF Newest
    <3> QED
      BY <1>2, <1>5, <3>1 DEF OtherPastes, SeatLost
  <2>2. UNCHANGED <<made, latest, overtaken, readers>>
    BY <1>5 DEF OtherPastes, SeatLost
  <2>3. wayland' \in Seq(Dispatched) /\ (Announced => Announced')
    BY <1>1, <2>1, <2>2, AnnounceKeeps
  <2>4. NewestInHand'
    BY <1>1, <2>2, <2>3, InHandFrame
  <2> QED
    BY <1>1, <2>2, <2>3, <2>4 DEF CopyInv
<1>6. ASSUME NEW n \in 1..Newest, OtherWrites(n) PROVE CopyInv'
  <2>1. UNCHANGED <<made, wayland, latest, overtaken>> /\ DOMAIN readers \subseteq DOMAIN readers'
    BY <1>6 DEF OtherWrites, Put
  <2>2. Announced => Announced'
    BY <2>1 DEF Announced, Newest
  <2>3. NewestInHand'
    BY <1>1, <2>1, <2>2, InHandFrame
  <2> QED
    BY <1>1, <2>1, <2>3 DEF CopyInv
<1>7. CASE SelectionEmpty
  <2>1. wayland # <<>> /\ wayland' = Tail(wayland) /\ UNCHANGED made /\ Store(Event.of, "none")
    BY <1>7 DEF SelectionEmpty, Dispatching
  <2> QED
    BY <1>1, <2>1, DispatchKeeps, StoreKeeps DEF CopyInv
<1>8. CASE SelectionOffer
  <2>1. wayland # <<>> /\ UNCHANGED <<made, latest, overtaken>> /\ Ask(Event.of) /\ Event.kind = "selection"
    BY <1>8 DEF SelectionOffer
  <2>2. /\ Tail(wayland) \in Seq(Dispatched) /\ Event \in Dispatched
        /\ \A i \in DOMAIN wayland :
             wayland[i] = Event \/ \E j \in DOMAIN Tail(wayland) : Tail(wayland)[j] = wayland[i]
    BY <1>1, <2>1, TailPlaces DEF Event
  <2>3. wayland' = Tail(wayland) \/ \E n \in Nat : wayland' = Append(Tail(wayland), Msg("send", n))
    BY <2>1, <2>2 DEF Ask, Dispatched
  <2>4. /\ wayland' \in Seq(Dispatched)
        /\ \A j \in DOMAIN Tail(wayland) : j \in DOMAIN wayland' /\ wayland'[j] = Tail(wayland)[j]
    <3>1. ASSUME NEW n \in Nat, wayland' = Append(Tail(wayland), Msg("send", n))
          PROVE  /\ wayland' \in Seq(Dispatched)
                 /\ \A j \in DOMAIN Tail(wayland) : j \in DOMAIN wayland' /\ wayland'[j] = Tail(wayland)[j]
      BY <1>2, <2>2, <3>1, AppendPlaces
    <3> QED
      BY <2>2, <2>3, <3>1
  <2>5. DOMAIN readers \subseteq DOMAIN readers' /\ (Event.of = Newest => Newest \in DOMAIN readers')
    BY <2>1 DEF Ask, Put
  <2>6. Announced => Announced' \/ Newest \in DOMAIN readers'
    <3> SUFFICES ASSUME Announced, Event # Msg("selection", Newest) PROVE Announced'
      BY <2>5 DEF Msg
    <3>1. PICK i \in DOMAIN wayland : wayland[i] = Msg("selection", Newest)
      BY DEF Announced
    <3>2. PICK j \in DOMAIN Tail(wayland) : Tail(wayland)[j] = wayland[i]
      BY <2>2, <3>1
    <3>3. j \in DOMAIN wayland' /\ wayland'[j] = Msg("selection", Newest)
      BY <2>4, <3>1, <3>2
    <3>4. Newest' = Newest
      BY <2>1 DEF Newest
    <3> QED
      BY <3>3, <3>4 DEF Announced
  <2>7. NewestInHand'
    BY <1>1, <2>1, <2>5, <2>6, InHandFrame
  <2> QED
    BY <1>1, <2>1, <2>4, <2>7 DEF CopyInv
<1>9. CASE SelectionFails \/ SendStarts \/ SendDropped \/ DeviceFinished
  <2>1. wayland # <<>> /\ wayland' = Tail(wayland) /\ UNCHANGED <<made, latest>>
    BY <1>9 DEF SelectionFails, SendStarts, SendDropped, DeviceFinished, Dispatching
  <2>2. /\ DOMAIN readers \subseteq DOMAIN readers' /\ (overtaken => overtaken')
        /\ Head(wayland) = Msg("selection", Newest) => overtaken'
    <3>1. CASE SelectionFails
      <4>1. UNCHANGED readers /\ overtaken' = (overtaken \/ Event.of = Newest)
        BY <3>1 DEF SelectionFails
      <4>2. Head(wayland) = Msg("selection", Newest) => Event.of = Newest
        BY DEF Event, Msg
      <4>3. (overtaken \/ Event.of = Newest) => overtaken'
        BY <4>1
      <4> QED
        BY <4>1, <4>2, <4>3
    <3>2. CASE SendStarts
      BY <3>2 DEF SendStarts, Event, Msg
    <3>3. CASE SendDropped
      <4>1. Event.kind \in {"send", "paste"} /\ readers' = Pipe(Event, "nothing") /\ UNCHANGED overtaken
        BY <3>3 DEF SendDropped
      <4>2. Head(wayland) # Msg("selection", Newest)
        BY <4>1 DEF Event, Msg
      <4> QED
        BY <4>1, <4>2, PipeKeeps
    <3>4. CASE DeviceFinished
      BY <3>4 DEF DeviceFinished, Event, Msg
    <3> QED
      BY <1>9, <3>1, <3>2, <3>3, <3>4
  <2>4. wayland' \in Seq(Dispatched) /\ (Announced => Announced' \/ overtaken')
    BY <1>1, <2>1, <2>2, DispatchKeeps
  <2>5. NewestInHand'
    BY <1>1, <2>1, <2>2, <2>4, InHandFrame
  <2> QED
    BY <1>1, <2>1, <2>4, <2>5 DEF CopyInv
<1>10. CASE SendEnds
  <2>1. UNCHANGED <<made, wayland, latest, overtaken>> /\ DOMAIN readers \subseteq DOMAIN readers'
    BY <1>10, PipeKeeps DEF SendEnds
  <2>2. Announced => Announced'
    BY <2>1 DEF Announced, Newest
  <2>3. NewestInHand'
    BY <1>1, <2>1, <2>2, InHandFrame
  <2> QED
    BY <1>1, <2>1, <2>3 DEF CopyInv
<1>11. CASE LoopEnds
  BY <1>1, <1>11 DEF LoopEnds, CopyInv, NewestInHand
<1>12. ASSUME NEW n \in 1..Newest, ReaderDone(n) PROVE CopyInv'
  BY <1>1, <1>12, StoreKeeps DEF ReaderDone, CopyInv
<1>13. ASSUME NEW n \in 1..Newest, ReaderFails(n) PROVE CopyInv'
  <2>1. /\ UNCHANGED <<made, wayland, latest>> /\ (overtaken => overtaken')
        /\ Newest \in DOMAIN readers => overtaken' \/ Newest \in DOMAIN readers'
    BY <1>13, DropDef DEF ReaderFails
  <2>2. Announced => Announced'
    BY <2>1 DEF Announced, Newest
  <2>3. NewestInHand'
    BY <1>1, <2>1, <2>2, InHandFrame
  <2> QED
    BY <1>1, <2>1, <2>3 DEF CopyInv
<1>14. CASE UNCHANGED clipVars
  BY <1>1, <1>14 DEF clipVars, CopyInv, NewestInHand, Announced, Newest, Outcome
<1> QED
  BY <1>3, <1>4, <1>5, <1>6, <1>7, <1>8, <1>9, <1>10, <1>11, <1>12, <1>13, <1>14 DEF CopyNext

\* When nothing is under way the cache of the Wayland backend holds the newest selection,
\* in whatever order its reader threads, its own sources and the compositor take turns;
\* only a reader of an older selection that ends last, or a failed read, excuses it.
THEOREM CacheIsNewest == CopySpec => []LatestIsNewest
<1>1. CopyInv => LatestIsNewest
  <2> SUFFICES ASSUME CopyInv, wayland = <<>>, readers = EmptyMap, ~overtaken
               PROVE  latest = [of |-> Newest, kind |-> Outcome(Newest)]
    BY DEF LatestIsNewest
  <2>1. ~Announced /\ DOMAIN readers = {}
    BY DEF Announced, EmptyMap
  <2> QED
    BY <2>1 DEF CopyInv, NewestInHand
<1> QED
  BY <1>1, CopyStart, CopyStep, PTL DEF CopySpec
=============================================================================
