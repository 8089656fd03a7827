------------------------------ MODULE Pairing ------------------------------
(***************************************************************************)
(* The daemon's PairingManager (daemon/src/pairing/mod.rs).  Each of its   *)
(* three maps has a mutex of its own, and create_pending and confirm take  *)
(* them one after the other, so calls running on different threads         *)
(* interleave between two locks: one action below is one critical section. *)
(* The 6-digit code is abstract: a PIN is a member of Pins and a freshly   *)
(* drawn one was never drawn before.                                       *)
(***************************************************************************)
EXTENDS Integers, Sequences, FiniteSets, HashMaps

CONSTANTS Devices,      \* requester device ids
          Threads,      \* RPC handler threads
          Pins,         \* PIN codes that can be drawn
          PinTTL,       \* PIN_TTL
          Cooldown,     \* PAIR_COOLDOWN
          MaxAttempts,  \* MAX_ATTEMPTS
          MaxTracked,   \* MAX_TRACKED_DEVICES
          ChannelCap,   \* capacity of the two broadcast channels
          MaxClock,     \* bound on the wall clock, for model checking
          SerialClients \* TRUE: a device awaits each answer before it calls again

ASSUME TimeAssumption == PinTTL \in Nat /\ Cooldown \in Nat /\ MaxClock \in Nat
ASSUME LimitAssumption == MaxAttempts \in Nat \ {0} /\ MaxTracked \in Nat \ {0} /\ ChannelCap \in Nat \ {0}
ASSUME ClientAssumption == SerialClients \in BOOLEAN

VARIABLES
  clock,        \* now_ms()
  pending,      \* device -> [code, expires, attempts]
  lastCreated,  \* device -> time of its last fresh PIN
  prearmed,     \* the QR code's PIN: a set with at most one [code, expires]
  calls,        \* thread -> the call it is running and its locals
  requested,    \* the "pairing requested" broadcast channel
  completed,    \* the "pairing completed" broadcast channel
  hist          \* history: PIN -> [born, wrong, paired]

vars == <<clock, pending, lastCreated, prearmed, calls, requested, completed, hist>>

Code == [code : Pins, expires : Nat]
Entry == [code : Pins, expires : Nat, attempts : 0 .. MaxAttempts - 1]
Step == {"checkPending", "checkCooldown", "takeCode", "insert", "notify",
         "clearCooldown", "announce"}
Past == [born : Nat, wrong : Nat, paired : Nat]
Call == [pc : Step, dev : Devices, now : Nat, pin : SUBSET Code]

TypeOK ==
  /\ clock \in Nat
  /\ IsMap(pending, Devices, Entry)
  /\ IsMap(lastCreated, Devices, Nat)
  /\ prearmed \in SUBSET Code
  /\ IsMap(calls, Threads, Call)
  /\ requested \in Seq([dev : Devices, code : Pins])
  /\ completed \in Seq(Devices)
  /\ IsMap(hist, Pins, Past)

Init ==
  /\ clock = 0
  /\ pending = EmptyMap /\ lastCreated = EmptyMap /\ prearmed = {}
  /\ calls = EmptyMap
  /\ requested = <<>> /\ completed = <<>>
  /\ hist = EmptyMap

-----------------------------------------------------------------------------
(* The tests the code makes. *)

\* (Broken variants, named ...Mut, come before the operator each one breaks.)
ExpiredLateMut(c, now) == now > c.expires + 1
Expired(c, now) == now > c.expires

\* create_pending answers with the PIN that is already pending.
Reusable(d, now) == d \in DOMAIN pending /\ ~Expired(pending[d], now)

ThrottledOffByOneMut(d, now) ==
  IF d \in DOMAIN lastCreated
  THEN now - lastCreated[d] < Cooldown
  ELSE Cardinality(DOMAIN lastCreated) > MaxTracked

\* create_pending refuses a requester it has just served, or a new one past the cap.
Throttled(d, now) ==
  IF d \in DOMAIN lastCreated
  THEN now - lastCreated[d] < Cooldown
  ELSE Cardinality(DOMAIN lastCreated) >= MaxTracked

\* Wrong guesses after one more, and whether they lock the PIN out.
AttemptedUncountedMut(e) == e
Attempted(e) == [e EXCEPT !.attempts = @ + 1]
LockedOutLateMut(e) == Attempted(e).attempts > MaxAttempts
LockedOut(e) == Attempted(e).attempts >= MaxAttempts

-----------------------------------------------------------------------------
\* A broadcast channel keeps the newest ChannelCap messages for a slow subscriber.
Publish(ch, m) == Append(IF Len(ch) < ChannelCap THEN ch ELSE Tail(ch), m)

(* Bookkeeping of a thread's call. *)

Goto(t, pc) == calls' = [calls EXCEPT ![t].pc = pc]
Return(t) == calls' = Drop(calls, t)
At(t, pc) == t \in DOMAIN calls /\ calls[t].pc = pc

\* Thread t is free to serve device d.
CanServe(t, d) ==
  /\ t \notin DOMAIN calls
  /\ SerialClients => \A u \in DOMAIN calls : calls[u].dev # d

\* A code drawn at random: one never seen before.
Mint(p) ==
  /\ p \notin DOMAIN hist
  /\ hist' = Put(hist, p, [born |-> clock, wrong |-> 0, paired |-> 0])

-----------------------------------------------------------------------------
(* create_pending, one action per critical section. *)

BeginPair(t, d) ==
  /\ CanServe(t, d)
  /\ calls' = Put(calls, t, [pc |-> "checkPending", dev |-> d, now |-> clock, pin |-> {}])
  /\ UNCHANGED <<clock, pending, lastCreated, prearmed, requested, completed, hist>>

CheckPending(t) ==
  /\ At(t, "checkPending")
  /\ IF Reusable(calls[t].dev, calls[t].now) THEN Return(t) ELSE Goto(t, "checkCooldown")
  /\ UNCHANGED <<clock, pending, lastCreated, prearmed, requested, completed, hist>>

CheckCooldownPruneMut(t) ==
  LET d == calls[t].dev  now == calls[t].now
      fresh == {e \in DOMAIN lastCreated : now - lastCreated[e] < Cooldown}
      Pruned == [e \in fresh |-> lastCreated[e]]
  IN
  /\ At(t, "checkCooldown")
  /\ \/ Throttled(d, now) /\ Return(t) /\ lastCreated' = Pruned
     \/ ~Throttled(d, now) /\ Goto(t, "takeCode") /\ lastCreated' = Put(Pruned, d, now)
  /\ UNCHANGED <<clock, pending, prearmed, requested, completed, hist>>
CheckCooldown(t) ==
  LET d == calls[t].dev  now == calls[t].now IN
  /\ At(t, "checkCooldown")
  /\ \/ Throttled(d, now) /\ Return(t) /\ UNCHANGED lastCreated
     \/ ~Throttled(d, now) /\ Goto(t, "takeCode") /\ lastCreated' = Put(lastCreated, d, now)
  /\ UNCHANGED <<clock, pending, prearmed, requested, completed, hist>>

\* The armed code if it is still valid, a fresh one otherwise; left stays armed.
TakeCodeLeaving(t, left) ==
  LET now == calls[t].now
      Got(c) == calls' = [calls EXCEPT ![t].pc = "insert", ![t].pin = {c}]
  IN
  /\ At(t, "takeCode")
  /\ \/ \E c \in prearmed : ~Expired(c, now) /\ Got(c) /\ UNCHANGED hist
     \/ /\ \A c \in prearmed : Expired(c, now)
        /\ \E p \in Pins : Mint(p) /\ Got([code |-> p, expires |-> now + PinTTL])
  /\ prearmed' = left
  /\ UNCHANGED <<clock, pending, lastCreated, requested, completed>>

\* The code is taken, or dropped if it has expired: nothing stays armed.
TakeCodeByCopyMut(t) == TakeCodeLeaving(t, prearmed)
TakeCode(t) == TakeCodeLeaving(t, {})

InsertPending(t) ==
  /\ At(t, "insert")
  /\ \E c \in calls[t].pin :
        pending' = Put(pending, calls[t].dev,
                       [code |-> c.code, expires |-> c.expires, attempts |-> 0])
  /\ Goto(t, "notify")
  /\ UNCHANGED <<clock, lastCreated, prearmed, requested, completed, hist>>

NotifyFirstOnlyMut(t) ==
  /\ At(t, "notify")
  /\ \E c \in calls[t].pin :
        requested' = IF \E i \in DOMAIN requested : requested[i].dev = calls[t].dev
                     THEN requested
                     ELSE Publish(requested, [dev |-> calls[t].dev, code |-> c.code])
  /\ Return(t)
  /\ UNCHANGED <<clock, pending, lastCreated, prearmed, completed, hist>>

Notify(t) ==
  /\ At(t, "notify")
  /\ \E c \in calls[t].pin :
        requested' = Publish(requested, [dev |-> calls[t].dev, code |-> c.code])
  /\ Return(t)
  /\ UNCHANGED <<clock, pending, lastCreated, prearmed, completed, hist>>

-----------------------------------------------------------------------------
(* confirm: the check and its outcome under the pending lock, then, on     *)
(* success only, the cooldown entry and the completion event.              *)

ConfirmExpired(t, d) ==
  /\ CanServe(t, d) /\ d \in DOMAIN pending
  /\ Expired(pending[d], clock)
  /\ pending' = Drop(pending, d)
  /\ UNCHANGED <<clock, lastCreated, prearmed, calls, requested, completed, hist>>

ConfirmRight(t, d, guess) ==
  /\ CanServe(t, d) /\ d \in DOMAIN pending
  /\ ~Expired(pending[d], clock)
  /\ guess = pending[d].code
  /\ pending' = Drop(pending, d)
  /\ hist' = [hist EXCEPT ![guess].paired = @ + 1]
  /\ calls' = Put(calls, t, [pc |-> "clearCooldown", dev |-> d, now |-> clock, pin |-> {}])
  /\ UNCHANGED <<clock, lastCreated, prearmed, requested, completed>>

WrongGuess(t, d, guess) ==
  /\ CanServe(t, d) /\ d \in DOMAIN pending
  /\ ~Expired(pending[d], clock)
  /\ guess # pending[d].code
  /\ pending' = IF LockedOut(pending[d]) THEN Drop(pending, d)
                ELSE Put(pending, d, Attempted(pending[d]))
  /\ hist' = [hist EXCEPT ![pending[d].code].wrong = @ + 1]
  /\ UNCHANGED <<clock, prearmed, calls, requested, completed>>

ConfirmWrong(t, d, guess) ==
  WrongGuess(t, d, guess) /\ UNCHANGED lastCreated

ClearCooldown(t) ==
  /\ At(t, "clearCooldown")
  /\ lastCreated' = Drop(lastCreated, calls[t].dev)
  /\ Goto(t, "announce")
  /\ UNCHANGED <<clock, pending, prearmed, requested, completed, hist>>

Announce(t) ==
  /\ At(t, "announce")
  /\ completed' = Publish(completed, calls[t].dev)
  /\ Return(t)
  /\ UNCHANGED <<clock, pending, lastCreated, prearmed, requested, hist>>

-----------------------------------------------------------------------------
\* pre_arm: the newest QR code replaces one that was not used.
PreArm ==
  /\ \E p \in Pins : Mint(p) /\ prearmed' = {[code |-> p, expires |-> clock + PinTTL]}
  /\ UNCHANGED <<clock, pending, lastCreated, calls, requested, completed>>

Tick ==
  /\ clock < MaxClock
  /\ clock' = clock + 1
  /\ UNCHANGED <<pending, lastCreated, prearmed, calls, requested, completed, hist>>

ThreadStep(t) ==
  \/ \E d \in Devices : BeginPair(t, d)
  \/ CheckPending(t) \/ CheckCooldown(t) \/ TakeCode(t) \/ InsertPending(t) \/ Notify(t)
  \/ \E d \in Devices : ConfirmExpired(t, d)
  \/ \E d \in Devices, guess \in Pins : ConfirmRight(t, d, guess) \/ ConfirmWrong(t, d, guess)
  \/ ClearCooldown(t) \/ Announce(t)

Next == PreArm \/ Tick \/ \E t \in Threads : ThreadStep(t)

Spec == Init /\ [][Next]_vars

-----------------------------------------------------------------------------
(* Properties. *)

\* The threads that carry a code from the QR slot, or the random source, to pending.
Carriers == {t \in DOMAIN calls : calls[t].pc = "insert"}

\* A PIN lives in one place at a time: it is armed, or carried by one thread, or
\* pending for one requester.  (The armed code is one-shot: create_pending takes it,
\* so the code of one QR can never pair two requesters.)
PinHeldOnce ==
  /\ \A d, e \in DOMAIN pending : pending[d].code = pending[e].code => d = e
  /\ \A t, u \in Carriers : \A c \in calls[t].pin, b \in calls[u].pin : c.code = b.code => t = u
  /\ \A t \in Carriers : \A c \in calls[t].pin :
        /\ \A d \in DOMAIN pending : pending[d].code # c.code
        /\ \A a \in prearmed : a.code # c.code
  /\ \A a \in prearmed : \A d \in DOMAIN pending : pending[d].code # a.code

\* However calls interleave, a PIN sees at most MaxAttempts wrong guesses, pairs at
\* most once, and never after it was locked out: a repeated Pair, a second
\* requester or an armed code never resets the count of a PIN in use.
GuessesBounded ==
  \A p \in DOMAIN hist :
     /\ hist[p].wrong <= MaxAttempts
     /\ hist[p].paired <= 1
     /\ hist[p].paired = 1 => hist[p].wrong < MaxAttempts

\* What makes the two facts above inductive: a slot holds at most one code, a code
\* that is not pending yet was never guessed, and the attempts of a pending one are
\* exactly the wrong guesses made against it.
Unguessed(p) == p \in DOMAIN hist /\ hist[p].wrong = 0 /\ hist[p].paired = 0
PinInv ==
  /\ TypeOK /\ PinHeldOnce /\ GuessesBounded
  /\ \A a, b \in prearmed : a = b
  /\ \A t \in Carriers : \A a, b \in calls[t].pin : a = b
  /\ \A a \in prearmed : Unguessed(a.code)
  /\ \A t \in Carriers : \A c \in calls[t].pin : Unguessed(c.code)
  /\ \A d \in DOMAIN pending :
        /\ pending[d].code \in DOMAIN hist
        /\ hist[pending[d].code].wrong = pending[d].attempts
        /\ hist[pending[d].code].paired = 0

\* The number of PINs in memory is bounded: the cap on tracked requesters also
\* caps pending, although the cap is tested on last_created_ms.
PendingBounded == Cardinality(DOMAIN pending) <= MaxTracked

\* A requester with a live PIN is still remembered for the cooldown, so clearing
\* its PIN by a lockout cannot hand it a fresh one at once.
PendingIsTracked == DOMAIN pending \subseteq DOMAIN lastCreated

\* What makes them inductive when a device awaits its answers: one call per device,
\* a call on its way to pending is tracked, and the cooldown entry that confirm is
\* about to clear belongs to no live PIN.
SerialInv ==
  /\ TypeOK /\ PendingIsTracked
  /\ \A t, u \in DOMAIN calls : calls[t].dev = calls[u].dev => t = u
  /\ \A t \in DOMAIN calls :
        /\ calls[t].pc \in {"takeCode", "insert"} => calls[t].dev \in DOMAIN lastCreated
        /\ calls[t].pc = "clearCooldown" => calls[t].dev \notin DOMAIN pending
  /\ IsFiniteSet(DOMAIN lastCreated) /\ Cardinality(DOMAIN lastCreated) <= MaxTracked

\* Where a PIN is.
Armed(p) == \E c \in prearmed : c.code = p
Issued(p) == \E t \in Carriers : \E c \in calls[t].pin : c.code = p
Live(p) == \E d \in DOMAIN pending : pending[d].code = p

\* The manager implements the life of a PIN, whatever the interleaving.
StageOf(p) ==
  CASE p \notin DOMAIN hist -> "unborn"
    [] Armed(p) -> "armed"
    [] Issued(p) -> "issued"
    [] Live(p) -> "live"
    [] p \in DOMAIN hist /\ hist[p].paired > 0 -> "paired"
    [] OTHER -> "dead"

Lifecycle == INSTANCE PinLifecycle WITH
  life <- [p \in Pins |-> StageOf(p)],
  born <- [p \in Pins |-> IF p \in DOMAIN hist THEN hist[p].born ELSE 0],
  wrong <- [p \in Pins |-> IF p \in DOMAIN hist THEN hist[p].wrong ELSE 0]

ImplementsPinLifecycle == Lifecycle!Spec
=============================================================================
