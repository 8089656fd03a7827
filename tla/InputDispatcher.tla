-------------------------- MODULE InputDispatcher --------------------------
(***************************************************************************)
(* Remote input: the stream task of each peer enqueues pointer and key     *)
(* events, one drain loop applies them to the input backend.  Between the  *)
(* enabled check and the queue lock, and between the pop and the backend   *)
(* call, every other task may run (daemon/src/input/mod.rs, lib.rs).       *)
(*                                                                         *)
(* A non-move stands for a key, button or scroll event.  Every event gets  *)
(* an id when it is queued, which the code does not have: the properties   *)
(* speak of the order of acceptance.                                       *)
(***************************************************************************)
EXTENDS Integers, Sequences, FiniteSets

CONSTANTS
  Peers,      \* the stream tasks
  Keys,       \* the keys and buttons
  MaxNonMove, \* MAX_QUEUED_NON_MOVE_EVENTS
  MaxEvents,  \* bound of the model: events ever queued
  MaxFailures \* bound of the model: backend calls that fail

ASSUME InputAssumption ==
  /\ MaxNonMove \in Nat \ {0}
  /\ MaxEvents \in Nat /\ MaxFailures \in Nat

VARIABLES
  queue,    \* the mutex-protected VecDeque
  enabled,  \* the AtomicBool gate
  arriving, \* [Peers -> events past the gate and before the lock, at most one]
  hand,     \* the event the drain loop popped and is applying, at most one
  ids,      \* ghost: ids given so far
  applied,  \* ghost: id of the last event handed to the backend
  late,     \* ghost: events queued since the gate was closed
  newest,   \* ghost: [Keys -> what the newest accepted event of the key says]
  held,     \* ghost: [Keys -> what the backend was last told of the key]
  lost,     \* ghost: the keys whose newest accepted event was dropped at the cap
  failures  \* ghost: backend calls that failed

vars == <<queue, enabled, arriving, hand, ids, applied, late, newest, held, lost, failures>>

Wire == [move : {TRUE}] \cup [move : {FALSE}, key : Keys, down : BOOLEAN]
Event == [id : Nat, wire : Wire]

AtMostOne(S) == \A x, y \in S : x = y

\* Every queued event is well formed; at most one event is in each task's hands.
TypeOK ==
  /\ queue \in Seq(Event)
  /\ enabled \in BOOLEAN
  /\ arriving \in [Peers -> SUBSET Wire]
  /\ \A p \in Peers : AtMostOne(arriving[p])
  /\ hand \subseteq Event /\ AtMostOne(hand)
  /\ <<ids, applied, late, failures>> \in Nat \X Nat \X Nat \X Nat
  /\ <<newest, held>> \in [Keys -> BOOLEAN] \X [Keys -> BOOLEAN]
  /\ lost \subseteq Keys

Init ==
  /\ queue = <<>> /\ enabled = TRUE
  /\ arriving = [p \in Peers |-> {}] /\ hand = {}
  /\ ids = 0 /\ applied = 0 /\ late = 0 /\ failures = 0
  /\ newest = [k \in Keys |-> FALSE] /\ held = [k \in Keys |-> FALSE]
  /\ lost = {}

NonMoves(q) == {i \in DOMAIN q : ~q[i].wire.move}

WithoutAt(q, n) == [i \in 1 .. Len(q) - 1 |-> IF i < n THEN q[i] ELSE q[i + 1]]

-----------------------------------------------------------------------------
(* enqueue, by the stream task of peer p. *)

\* The gate is read before the lock is taken.
ReceiveUncheckedMut(p) ==
  /\ arriving[p] = {}
  /\ \E w \in Wire : arriving' = [arriving EXCEPT ![p] = {w}]
  /\ UNCHANGED <<queue, enabled, hand, ids, applied, late, newest, held, lost, failures>>
Receive(p) ==
  /\ enabled
  /\ arriving[p] = {}
  /\ \E w \in Wire : arriving' = [arriving EXCEPT ![p] = {w}]
  /\ UNCHANGED <<queue, enabled, hand, ids, applied, late, newest, held, lost, failures>>

\* A move replaces the move at the back of the queue.
Coalesces(q, w) == w.move /\ q # <<>> /\ q[Len(q)].wire.move

RoomForAnyMut(q, w) == q
\* A full queue drops its oldest non-move for a new non-move.
RoomFor(q, w) ==
  IF w.move \/ Cardinality(NonMoves(q)) < MaxNonMove THEN q
  ELSE WithoutAt(q, CHOOSE i \in NonMoves(q) : \A j \in NonMoves(q) : i <= j)

\* The queue after event e.
QueuedIfRoomMut(q, e) ==
  IF Coalesces(q, e.wire) THEN [q EXCEPT ![Len(q)] = e]
  ELSE IF e.wire.move \/ Cardinality(NonMoves(q)) < MaxNonMove THEN Append(q, e) ELSE q
Queued(q, e) ==
  IF Coalesces(q, e.wire) THEN [q EXCEPT ![Len(q)] = e]
  ELSE Append(RoomFor(q, e.wire), e)

\* The key whose newest event a full queue drops.
DroppedKeys(q) ==
  IF Cardinality(NonMoves(q)) < MaxNonMove THEN {}
  ELSE {k \in Keys : \E i \in NonMoves(q) :
          q[i].wire.key = k /\ \A j \in NonMoves(q) : i <= j /\ (q[j].wire.key = k => i = j)}

Enqueue(p) ==
  /\ ids < MaxEvents
  /\ ids' = ids + 1
  /\ \E w \in arriving[p] :
       /\ queue' = Queued(queue, [id |-> ids + 1, wire |-> w])
       /\ newest' = IF w.move THEN newest ELSE [newest EXCEPT ![w.key] = w.down]
       /\ lost' = IF w.move THEN lost ELSE (lost \cup DroppedKeys(queue)) \ {w.key}
  /\ arriving' = [arriving EXCEPT ![p] = {}]
  /\ late' = IF enabled THEN late ELSE late + 1
  /\ UNCHANGED <<enabled, hand, applied, held, failures>>

-----------------------------------------------------------------------------
(* drain_and_apply, by the drain loop; set_enabled, by a local RPC. *)

PopAllMut ==
  /\ hand = {} /\ queue # <<>>
  /\ hand' = {queue[i] : i \in DOMAIN queue}
  /\ queue' = <<>>
  /\ UNCHANGED <<enabled, arriving, ids, applied, late, newest, held, lost, failures>>
PopUntilErrorMut ==
  /\ hand = {} /\ queue # <<>> /\ failures = 0
  /\ hand' = {Head(queue)}
  /\ queue' = Tail(queue)
  /\ UNCHANGED <<enabled, arriving, ids, applied, late, newest, held, lost, failures>>
Pop ==
  /\ hand = {} /\ queue # <<>>
  /\ hand' = {Head(queue)}
  /\ queue' = Tail(queue)
  /\ UNCHANGED <<enabled, arriving, ids, applied, late, newest, held, lost, failures>>

ApplyOk ==
  /\ \E e \in hand :
       /\ applied' = e.id
       /\ held' = IF e.wire.move THEN held ELSE [held EXCEPT ![e.wire.key] = e.wire.down]
  /\ hand' = {}
  /\ UNCHANGED <<queue, enabled, arriving, ids, late, newest, lost, failures>>

\* A backend error ends this drain; the event is gone, the rest waits for the next tick.
ApplyFailsRequeueMut ==
  /\ failures < MaxFailures
  /\ \E e \in hand : queue' = Append(queue, e)
  /\ hand' = {}
  /\ failures' = failures + 1
  /\ UNCHANGED <<enabled, arriving, ids, applied, late, newest, held, lost>>
ApplyFails ==
  /\ failures < MaxFailures
  /\ hand # {} /\ hand' = {}
  /\ failures' = failures + 1
  /\ UNCHANGED <<queue, enabled, arriving, ids, applied, late, newest, held, lost>>

SetEnabled ==
  /\ enabled' = ~enabled
  /\ late' = 0
  /\ UNCHANGED <<queue, arriving, hand, ids, applied, newest, held, lost, failures>>

Next ==
  \/ \E p \in Peers : Receive(p) \/ Enqueue(p)
  \/ Pop \/ ApplyOk \/ ApplyFails \/ SetEnabled

Spec == Init /\ [][Next]_vars

\* The drain loop ticks for ever and the backend call returns.
FairSpec == Spec /\ WF_vars(Pop) /\ WF_vars(ApplyOk \/ ApplyFails)

-----------------------------------------------------------------------------
(* Properties. *)

\* MAX_QUEUED_NON_MOVE_EVENTS: whatever the peers send, at most that many key, button
\* and scroll events wait.
NonMovesBounded == Cardinality(NonMoves(queue)) <= MaxNonMove

\* Press and release are never reordered, by coalescing, by dropping or by a failure: what
\* the backend has seen, the event being applied and the queue are in order of acceptance.
InOrder ==
  /\ \A i, j \in DOMAIN queue : i < j => queue[i].id < queue[j].id
  /\ \A i \in DOMAIN queue : applied < queue[i].id /\ queue[i].id <= ids
  /\ \A e \in hand : applied < e.id /\ e.id <= ids /\ \A i \in DOMAIN queue : e.id < queue[i].id
  /\ applied <= ids

\* Dropping and coalescing lose only what is stale: the newest event is the last one
\* in the queue, in the drain loop's hands or the last one applied, unless a failure ate it.
NewestSurvives ==
  (ids > 0 /\ failures = 0)
     => \/ \E i \in DOMAIN queue : queue[i].id = ids
        \/ \E e \in hand : e.id = ids
        \/ applied = ids

\* A closed gate lets through no more events than were past it when it closed, so no
\* backlog builds up while remote input is off.
NoBacklogWhileDisabled == ~enabled => late <= Cardinality(Peers)

\* Every queued non-move leaves the queue, also when the backend fails.
EventsLeave ==
  \A n \in 1 .. MaxEvents : (\E i \in DOMAIN queue : queue[i].id = n)
                              ~> ~(\E i \in DOMAIN queue : queue[i].id = n)

\* "the *current* key state": once the queue is drained and no backend call failed, the
\* backend knows the newest accepted state of every key, except where the cap dropped it.
KeyStateCatchesUp ==
  (queue = <<>> /\ hand = {} /\ failures = 0)
     => \A k \in Keys \ lost : held[k] = newest[k]
=============================================================================
