--------------------------- MODULE PairingProofs ---------------------------
(***************************************************************************)
(* Theorems about Pairing and PairingDialog, for any sets of devices,      *)
(* threads and PINs and any values of the limits.                          *)
(***************************************************************************)
EXTENDS PairingDialog, CollectionTheorems, FiniteSetTheorems

USE TimeAssumption, LimitAssumption, ClientAssumption

-----------------------------------------------------------------------------
(* Type correctness. *)

\* A call may move to any step and stays well typed.
LEMMA GotoType ==
  ASSUME TypeOK, NEW t \in DOMAIN calls, NEW pc \in Step, Goto(t, pc)
  PROVE  /\ IsMap(calls', Threads, Call)
         /\ DOMAIN calls' = DOMAIN calls
         /\ calls'[t] = [calls[t] EXCEPT !.pc = pc]
         /\ \A u \in DOMAIN calls : u # t => calls'[u] = calls[u]
<1>1. IsMap(calls, Threads, Call)
  BY DEF TypeOK
<1>2. calls[t] \in Call
  BY <1>1 DEF IsMap
<1>3. [calls[t] EXCEPT !.pc = pc] \in Call
  BY <1>2 DEF Call
<1>4. calls' = [calls EXCEPT ![t] = [calls[t] EXCEPT !.pc = pc]]
  BY DEF Goto
<1> QED
  BY <1>1, <1>3, <1>4, ExceptMap

\* Returning from a call leaves the others as they are.
LEMMA ReturnType ==
  ASSUME TypeOK, NEW t, Return(t)
  PROVE  /\ IsMap(calls', Threads, Call)
         /\ DOMAIN calls' = DOMAIN calls \ {t}
         /\ \A u \in DOMAIN calls : u # t => calls'[u] = calls[u]
<1>1. IsMap(calls, Threads, Call)
  BY DEF TypeOK
<1> QED
  BY <1>1, DropMap, DropDef DEF Return

\* A PIN of the history gets one more wrong guess, or one more pairing.
LEMMA HistType ==
  ASSUME TypeOK, NEW p \in DOMAIN hist
  PROVE  /\ IsMap([hist EXCEPT ![p].wrong = @ + 1], Pins, Past)
         /\ IsMap([hist EXCEPT ![p].paired = @ + 1], Pins, Past)
<1>1. IsMap(hist, Pins, Past)
  BY DEF TypeOK
<1>2. hist[p] \in Past
  BY <1>1 DEF IsMap
<1>3. [hist[p] EXCEPT !.wrong = @ + 1] \in Past /\ [hist[p] EXCEPT !.paired = @ + 1] \in Past
  BY <1>2 DEF Past
<1>4. /\ [hist EXCEPT ![p].wrong = @ + 1] = [hist EXCEPT ![p] = [hist[p] EXCEPT !.wrong = @ + 1]]
      /\ [hist EXCEPT ![p].paired = @ + 1] = [hist EXCEPT ![p] = [hist[p] EXCEPT !.paired = @ + 1]]
  OBVIOUS
<1>5. \A v \in Past : IsMap([hist EXCEPT ![p] = v], Pins, Past)
  BY <1>1, ExceptMap
<1> QED
  BY <1>3, <1>4, <1>5

\* Drawing a PIN adds it to the history.
LEMMA MintType ==
  ASSUME TypeOK, NEW p \in Pins, Mint(p)
  PROVE  IsMap(hist', Pins, Past)
<1>1. [born |-> clock, wrong |-> 0, paired |-> 0] \in Past
  BY DEF TypeOK, Past
<1> QED
  BY <1>1, PutMap DEF TypeOK, Mint

\* Publishing keeps a channel a sequence of its messages.
LEMMA PublishType ==
  ASSUME NEW M, NEW ch \in Seq(M), NEW m \in M
  PROVE  Publish(ch, m) \in Seq(M)
<1>1. CASE Len(ch) < ChannelCap
  BY <1>1 DEF Publish
<1>2. CASE ~(Len(ch) < ChannelCap)
  <2>1. ch # <<>>
    BY <1>2
  <2> QED
    BY <1>2, <2>1 DEF Publish
<1> QED
  BY <1>1, <1>2

\* No step leaves the types.
LEMMA TypeNext == TypeOK /\ [Next]_vars => TypeOK'
<1> SUFFICES ASSUME TypeOK, [Next]_vars PROVE TypeOK'
  OBVIOUS
<1>1. ASSUME PreArm PROVE TypeOK'
  <2>1. PICK p \in Pins : Mint(p) /\ prearmed' = {[code |-> p, expires |-> clock + PinTTL]}
    BY <1>1 DEF PreArm
  <2>2. IsMap(hist', Pins, Past)
    BY <2>1, MintType
  <2>3. prearmed' \in SUBSET Code
    BY <2>1 DEF TypeOK, Code
  <2> QED
    BY <1>1, <2>2, <2>3 DEF PreArm, TypeOK
<1>2. ASSUME Tick PROVE TypeOK'
  BY <1>2 DEF Tick, TypeOK
<1>3. ASSUME NEW t \in Threads, NEW d \in Devices, BeginPair(t, d) PROVE TypeOK'
  <2>1. [pc |-> "checkPending", dev |-> d, now |-> clock, pin |-> {}] \in Call
    BY DEF Call, Step, TypeOK
  <2>2. IsMap(calls', Threads, Call)
    BY <1>3, <2>1, PutMap DEF BeginPair, TypeOK
  <2> QED
    BY <1>3, <2>2 DEF BeginPair, TypeOK
<1>4. ASSUME NEW t \in Threads, CheckPending(t) PROVE TypeOK'
  <2>1. t \in DOMAIN calls
    BY <1>4 DEF CheckPending, At
  <2>2. IsMap(calls', Threads, Call)
    BY <1>4, <2>1, ReturnType, GotoType DEF CheckPending, Step
  <2> QED
    BY <1>4, <2>2 DEF CheckPending, TypeOK
<1>5. ASSUME NEW t \in Threads, CheckCooldown(t) PROVE TypeOK'
  <2>1. t \in DOMAIN calls
    BY <1>5 DEF CheckCooldown, At
  <2>2. IsMap(calls', Threads, Call)
    BY <1>5, <2>1, ReturnType, GotoType DEF CheckCooldown, Step
  <2>3. calls[t].dev \in Devices /\ calls[t].now \in Nat
    BY <2>1 DEF TypeOK, IsMap, Call
  <2>4. IsMap(lastCreated', Devices, Nat)
    BY <1>5, <2>3, PutMap DEF CheckCooldown, TypeOK
  <2> QED
    BY <1>5, <2>2, <2>4 DEF CheckCooldown, TypeOK
<1>6. ASSUME NEW t \in Threads, TakeCode(t) PROVE TypeOK'
  <2>1. t \in DOMAIN calls
    BY <1>6 DEF TakeCode, TakeCodeLeaving, At
  <2>2. calls[t] \in Call
    BY <2>1 DEF TypeOK, IsMap
  <2>3. ASSUME NEW c \in Code, calls' = [calls EXCEPT ![t].pc = "insert", ![t].pin = {c}]
        PROVE  IsMap(calls', Threads, Call)
    <3>1. [calls[t] EXCEPT !.pc = "insert", !.pin = {c}] \in Call
      BY <2>2 DEF Call, Step
    <3>2. calls' = [calls EXCEPT ![t] = [calls[t] EXCEPT !.pc = "insert", !.pin = {c}]]
      BY <2>1, <2>3
    <3>3. IsMap(calls, Threads, Call)
      BY DEF TypeOK
    <3>4. \A v \in Call : IsMap([calls EXCEPT ![t] = v], Threads, Call)
      BY <2>1, <3>3, ExceptMap
    <3> QED
      BY <3>1, <3>2, <3>4
  <2>4. IsMap(calls', Threads, Call) /\ IsMap(hist', Pins, Past)
    <3>1. CASE \E c \in prearmed : /\ ~Expired(c, calls[t].now)
                                   /\ calls' = [calls EXCEPT ![t].pc = "insert", ![t].pin = {c}]
                                   /\ UNCHANGED hist
      BY <3>1, <2>3 DEF TypeOK
    <3>2. CASE \E p \in Pins : /\ Mint(p)
                               /\ calls' = [calls EXCEPT ![t].pc = "insert",
                                    ![t].pin = {[code |-> p, expires |-> calls[t].now + PinTTL]}]
      <4>1. PICK p \in Pins : /\ Mint(p)
                              /\ calls' = [calls EXCEPT ![t].pc = "insert",
                                   ![t].pin = {[code |-> p, expires |-> calls[t].now + PinTTL]}]
        BY <3>2
      <4>2. [code |-> p, expires |-> calls[t].now + PinTTL] \in Code
        BY <2>2 DEF Call, Code
      <4> QED
        BY <4>1, <4>2, <2>3, MintType
    <3> QED
      BY <1>6, <3>1, <3>2 DEF TakeCode, TakeCodeLeaving
  <2> QED
    BY <1>6, <2>4 DEF TakeCode, TakeCodeLeaving, TypeOK
<1>7. ASSUME NEW t \in Threads, InsertPending(t) PROVE TypeOK'
  <2>1. t \in DOMAIN calls
    BY <1>7 DEF InsertPending, At
  <2>2. IsMap(calls', Threads, Call)
    BY <1>7, <2>1, GotoType DEF InsertPending, Step
  <2>3. calls[t].dev \in Devices /\ calls[t].pin \subseteq Code
    BY <2>1 DEF TypeOK, IsMap, Call
  <2>4. \A c \in calls[t].pin : [code |-> c.code, expires |-> c.expires, attempts |-> 0] \in Entry
    BY <2>3 DEF Code, Entry
  <2>5. IsMap(pending', Devices, Entry)
    BY <1>7, <2>3, <2>4, PutMap DEF InsertPending, TypeOK
  <2> QED
    BY <1>7, <2>2, <2>5 DEF InsertPending, TypeOK
<1>8. ASSUME NEW t \in Threads, Notify(t) PROVE TypeOK'
  <2>1. t \in DOMAIN calls
    BY <1>8 DEF Notify, At
  <2>2. IsMap(calls', Threads, Call)
    BY <1>8, ReturnType DEF Notify
  <2>3. calls[t].dev \in Devices /\ calls[t].pin \subseteq Code
    BY <2>1 DEF TypeOK, IsMap, Call
  <2>4. \A c \in calls[t].pin : [dev |-> calls[t].dev, code |-> c.code] \in [dev : Devices, code : Pins]
    BY <2>3 DEF Code
  <2>5. requested' \in Seq([dev : Devices, code : Pins])
    <3>1. PICK c \in calls[t].pin :
             requested' = Publish(requested, [dev |-> calls[t].dev, code |-> c.code])
      BY <1>8 DEF Notify
    <3>2. requested \in Seq([dev : Devices, code : Pins])
      BY DEF TypeOK
    <3> QED
      BY <2>4, <3>1, <3>2, PublishType
  <2> QED
    BY <1>8, <2>2, <2>5 DEF Notify, TypeOK
<1>9. ASSUME NEW t \in Threads, NEW d \in Devices, ConfirmExpired(t, d) PROVE TypeOK'
  BY <1>9, DropMap DEF ConfirmExpired, TypeOK
<1>10. ASSUME NEW t \in Threads, NEW d \in Devices, NEW g \in Pins, ConfirmRight(t, d, g) PROVE TypeOK'
  <2>1. [pc |-> "clearCooldown", dev |-> d, now |-> clock, pin |-> {}] \in Call
    BY DEF Call, Step, TypeOK
  <2>2. IsMap(calls', Threads, Call)
    BY <1>10, <2>1, PutMap DEF ConfirmRight, TypeOK
  <2>3. IsMap(pending', Devices, Entry)
    BY <1>10, DropMap DEF ConfirmRight, TypeOK
  <2>4. IsMap(hist', Pins, Past)
    <3>1. CASE g \in DOMAIN hist
      BY <1>10, <3>1, HistType DEF ConfirmRight
    <3>2. CASE g \notin DOMAIN hist
      BY <1>10, <3>2 DEF ConfirmRight, TypeOK, IsMap
    <3> QED
      BY <3>1, <3>2
  <2> QED
    BY <1>10, <2>2, <2>3, <2>4 DEF ConfirmRight, TypeOK
<1>11. ASSUME NEW t \in Threads, NEW d \in Devices, NEW g \in Pins, ConfirmWrong(t, d, g) PROVE TypeOK'
  <2>1. pending[d] \in Entry
    BY <1>11 DEF ConfirmWrong, WrongGuess, TypeOK, IsMap
  <2>2. ~LockedOut(pending[d]) => Attempted(pending[d]) \in Entry
    BY <2>1 DEF LockedOut, Attempted, Entry
  <2>3. IsMap(pending', Devices, Entry)
    BY <1>11, <2>2, DropMap, PutMap DEF ConfirmWrong, WrongGuess, TypeOK
  <2>4. IsMap(hist', Pins, Past)
    <3>1. CASE pending[d].code \in DOMAIN hist
      BY <1>11, <3>1, HistType DEF ConfirmWrong, WrongGuess
    <3>2. CASE pending[d].code \notin DOMAIN hist
      BY <1>11, <3>2 DEF ConfirmWrong, WrongGuess, TypeOK, IsMap
    <3> QED
      BY <3>1, <3>2
  <2> QED
    BY <1>11, <2>3, <2>4 DEF ConfirmWrong, WrongGuess, TypeOK
<1>12. ASSUME NEW t \in Threads, ClearCooldown(t) PROVE TypeOK'
  <2>1. t \in DOMAIN calls
    BY <1>12 DEF ClearCooldown, At
  <2>2. IsMap(calls', Threads, Call)
    BY <1>12, <2>1, GotoType DEF ClearCooldown, Step
  <2> QED
    BY <1>12, <2>2, DropMap DEF ClearCooldown, TypeOK
<1>13. ASSUME NEW t \in Threads, Announce(t) PROVE TypeOK'
  <2>1. calls[t].dev \in Devices
    BY <1>13 DEF Announce, At, TypeOK, IsMap, Call
  <2>2. completed' \in Seq(Devices)
    BY <1>13, <2>1, PublishType DEF Announce, TypeOK
  <2> QED
    BY <1>13, <2>2, ReturnType DEF Announce, TypeOK
<1>14. CASE UNCHANGED vars
  BY <1>14 DEF vars, TypeOK
<1> QED
  BY <1>1, <1>2, <1>3, <1>4, <1>5, <1>6, <1>7, <1>8, <1>9, <1>10, <1>11, <1>12, <1>13, <1>14
     DEF Next, ThreadStep

\* Every reachable state is well typed.
THEOREM TypeCorrect == Spec => []TypeOK
<1>1. Init => TypeOK
  BY EmptyIsMap DEF Init, TypeOK
<1> QED
  BY <1>1, TypeNext, PTL DEF Spec

-----------------------------------------------------------------------------
(* One PIN, one place, a bounded number of guesses. *)

\* A step that leaves the codes where they are keeps the invariant.
LEMMA PinFrame ==
  ASSUME PinInv, TypeOK', UNCHANGED <<pending, prearmed, hist>>,
         \A t \in Carriers' : t \in Carriers /\ calls'[t].pin = calls[t].pin
  PROVE  PinInv'
<1>1. PinHeldOnce'
  BY DEF PinInv, PinHeldOnce
<1>2. GuessesBounded'
  BY DEF PinInv, GuessesBounded
<1>3. \A p : Unguessed(p) => Unguessed(p)'
  BY DEF Unguessed
<1> QED
  BY <1>1, <1>2, <1>3 DEF PinInv

\* A call that moves between two steps other than "insert", or returns, or begins,
\* carries no code before or after.
LEMMA CarriersFrame ==
  ASSUME NEW t, At(t, "insert") => FALSE,
         \A u \in DOMAIN calls' : u # t => u \in DOMAIN calls /\ calls'[u] = calls[u],
         t \in DOMAIN calls' => calls'[t].pc # "insert"
  PROVE  \A u \in Carriers' : u \in Carriers /\ calls'[u].pin = calls[u].pin
BY DEF Carriers, At

\* A freshly drawn PIN is in the history, unguessed, and was in no place before.
LEMMA MintFresh ==
  ASSUME PinInv, NEW p \in Pins, Mint(p)
  PROVE  /\ Unguessed(p)'
         /\ \A q : Unguessed(q) => Unguessed(q)' /\ q # p
         /\ \A q \in DOMAIN hist : q # p /\ q \in DOMAIN hist' /\ hist'[q] = hist[q]
         /\ DOMAIN hist' = DOMAIN hist \cup {p}
         /\ GuessesBounded'
<1>1. /\ DOMAIN hist' = DOMAIN hist \cup {p}
      /\ hist'[p] = [born |-> clock, wrong |-> 0, paired |-> 0]
      /\ \A q \in DOMAIN hist : q # p => hist'[q] = hist[q]
  BY DEF Mint, Put
<1>2. p \notin DOMAIN hist
  BY DEF Mint
<1>3. GuessesBounded'
  BY <1>1, <1>2 DEF GuessesBounded, PinInv
<1> QED
  BY <1>1, <1>2, <1>3 DEF Unguessed

\* The inductive step for the actions that move a code.
LEMMA PreArmInv == PinInv /\ TypeOK' /\ PreArm => PinInv'
<1> SUFFICES ASSUME PinInv, TypeOK', PreArm PROVE PinInv'
  OBVIOUS
<1>1. PICK p \in Pins : Mint(p) /\ prearmed' = {[code |-> p, expires |-> clock + PinTTL]}
  BY DEF PreArm
<1>2. UNCHANGED <<pending, calls>> /\ Carriers' = Carriers
  BY DEF PreArm, Carriers
<1>3. /\ Unguessed(p)'
      /\ \A q : Unguessed(q) => Unguessed(q)' /\ q # p
      /\ \A q \in DOMAIN hist : q # p /\ q \in DOMAIN hist' /\ hist'[q] = hist[q]
      /\ GuessesBounded'
  BY <1>1, MintFresh
<1>4. \A a \in prearmed' : a.code = p
  BY <1>1
<1>5. PinHeldOnce'
  BY <1>2, <1>3, <1>4 DEF PinInv, PinHeldOnce
<1>6. \A a, b \in prearmed' : a = b
  BY <1>1
<1>7. (\A a \in prearmed : Unguessed(a.code))' /\ (\A t \in Carriers : \A c \in calls[t].pin : Unguessed(c.code))'
  BY <1>2, <1>3, <1>4 DEF PinInv
<1>8. (\A d \in DOMAIN pending : /\ pending[d].code \in DOMAIN hist
                                 /\ hist[pending[d].code].wrong = pending[d].attempts
                                 /\ hist[pending[d].code].paired = 0)'
  BY <1>2, <1>3 DEF PinInv
<1>9. (\A t \in Carriers : \A a, b \in calls[t].pin : a = b)'
  BY <1>2 DEF PinInv
<1> QED
  BY <1>3, <1>5, <1>6, <1>7, <1>8, <1>9 DEF PinInv

LEMMA TakeCodeInv ==
  ASSUME PinInv, TypeOK', NEW t \in Threads, TakeCode(t)
  PROVE  PinInv'
<1>1. t \in DOMAIN calls /\ calls[t].pc = "takeCode"
  BY DEF TakeCode, TakeCodeLeaving, At
<1>2. calls[t] \in Call
  BY <1>1 DEF PinInv, TypeOK, IsMap
<1>3. prearmed' = {} /\ UNCHANGED pending
  BY DEF TakeCode, TakeCodeLeaving
\* Whatever code is taken, it was nowhere else and is unguessed.
<1>4. PICK c : /\ calls' = [calls EXCEPT ![t].pc = "insert", ![t].pin = {c}]
               /\ Unguessed(c.code)'
               /\ \A d \in DOMAIN pending : pending[d].code # c.code
               /\ \A u \in Carriers : \A b \in calls[u].pin : b.code # c.code
               /\ \A q : Unguessed(q) => Unguessed(q)'
               /\ \A q \in DOMAIN hist : q \in DOMAIN hist' /\ hist'[q] = hist[q]
               /\ GuessesBounded'
  <2>1. CASE \E c \in prearmed : /\ calls' = [calls EXCEPT ![t].pc = "insert", ![t].pin = {c}]
                                 /\ UNCHANGED hist
    <3>1. PICK c \in prearmed : /\ calls' = [calls EXCEPT ![t].pc = "insert", ![t].pin = {c}]
                                /\ UNCHANGED hist
      BY <2>1
    <3>2. Unguessed(c.code) /\ \A q : Unguessed(q) => Unguessed(q)'
      BY <3>1 DEF PinInv, Unguessed
    <3>3. GuessesBounded'
      BY <3>1 DEF PinInv, GuessesBounded
    <3>4. /\ \A d \in DOMAIN pending : pending[d].code # c.code
          /\ \A u \in Carriers : \A b \in calls[u].pin : b.code # c.code
      BY DEF PinInv, PinHeldOnce
    <3>5. Unguessed(c.code)' /\ \A q \in DOMAIN hist : q \in DOMAIN hist' /\ hist'[q] = hist[q]
      BY <3>1, <3>2
    <3> QED
      BY <3>1, <3>2, <3>3, <3>4, <3>5
  <2>2. CASE \E p \in Pins : /\ Mint(p)
                             /\ calls' = [calls EXCEPT ![t].pc = "insert",
                                  ![t].pin = {[code |-> p, expires |-> calls[t].now + PinTTL]}]
    <3>1. PICK p \in Pins : /\ Mint(p)
                            /\ calls' = [calls EXCEPT ![t].pc = "insert",
                                 ![t].pin = {[code |-> p, expires |-> calls[t].now + PinTTL]}]
      BY <2>2
    <3> DEFINE c == [code |-> p, expires |-> calls[t].now + PinTTL]
    <3>2. c.code = p
      OBVIOUS
    <3>3. /\ Unguessed(p)'
          /\ \A q : Unguessed(q) => Unguessed(q)' /\ q # p
          /\ \A q \in DOMAIN hist : q # p /\ q \in DOMAIN hist' /\ hist'[q] = hist[q]
          /\ GuessesBounded'
      BY <3>1, MintFresh
    <3>4. \A d \in DOMAIN pending : pending[d].code # p
      BY <3>3 DEF PinInv
    <3>5. \A u \in Carriers : \A b \in calls[u].pin : b.code # p
      BY <3>3 DEF PinInv
    <3> HIDE DEF c
    <3>6. calls' = [calls EXCEPT ![t].pc = "insert", ![t].pin = {c}]
      BY <3>1 DEF c
    <3> QED
      BY <3>2, <3>3, <3>4, <3>5, <3>6
  <2> QED
    BY <2>1, <2>2 DEF TakeCode, TakeCodeLeaving
<1>5. calls'[t].pc = "insert" /\ calls'[t].pin = {c}
  BY <1>1, <1>2, <1>4 DEF Call
<1>6. DOMAIN calls' = DOMAIN calls /\ \A u \in DOMAIN calls : u # t => calls'[u] = calls[u]
  BY <1>1, <1>4
<1>7. Carriers' = Carriers \cup {t} /\ t \notin Carriers
  BY <1>1, <1>5, <1>6 DEF Carriers
<1>8. \A u \in Carriers : calls'[u].pin = calls[u].pin
  BY <1>6, <1>7 DEF Carriers
<1>9. \A u \in Carriers' : \A b \in calls'[u].pin :
         (u = t /\ b = c) \/ (u \in Carriers /\ b \in calls[u].pin)
  BY <1>5, <1>7, <1>8
<1>10. PinHeldOnce'
  <2>1. (\A u, v \in Carriers : \A a \in calls[u].pin, b \in calls[v].pin : a.code = b.code => u = v)'
    BY <1>4, <1>9 DEF PinInv, PinHeldOnce
  <2>2. (\A u \in Carriers : \A a \in calls[u].pin :
           /\ \A d \in DOMAIN pending : pending[d].code # a.code
           /\ \A b \in prearmed : b.code # a.code)'
    BY <1>3, <1>4, <1>9 DEF PinInv, PinHeldOnce
  <2> QED
    BY <1>3, <2>1, <2>2 DEF PinInv, PinHeldOnce
<1>11. (\A u \in Carriers : \A a, b \in calls[u].pin : a = b)'
  BY <1>7, <1>9 DEF PinInv
<1>12. (\A u \in Carriers : \A a \in calls[u].pin : Unguessed(a.code))'
  BY <1>4, <1>9 DEF PinInv
<1>13. (\A d \in DOMAIN pending : /\ pending[d].code \in DOMAIN hist
                                  /\ hist[pending[d].code].wrong = pending[d].attempts
                                  /\ hist[pending[d].code].paired = 0)'
  BY <1>3, <1>4 DEF PinInv
<1> QED
  BY <1>3, <1>4, <1>10, <1>11, <1>12, <1>13 DEF PinInv

LEMMA InsertInv ==
  ASSUME PinInv, TypeOK', NEW t \in Threads, InsertPending(t)
  PROVE  PinInv'
<1> DEFINE d == calls[t].dev
<1>1. t \in Carriers
  BY DEF InsertPending, At, Carriers
<1>2. PICK c \in calls[t].pin :
         pending' = Put(pending, d, [code |-> c.code, expires |-> c.expires, attempts |-> 0])
  BY DEF InsertPending
<1>3. UNCHANGED <<prearmed, hist>>
  BY DEF InsertPending
<1>4. /\ DOMAIN calls' = DOMAIN calls
      /\ calls'[t] = [calls[t] EXCEPT !.pc = "notify"]
      /\ \A u \in DOMAIN calls : u # t => calls'[u] = calls[u]
  BY <1>1, GotoType DEF InsertPending, PinInv, Carriers, Step
<1>5. calls'[t].pc = "notify"
  BY <1>1, <1>4 DEF PinInv, TypeOK, IsMap, Call, Carriers
<1>6. \A u \in Carriers' : u # t /\ u \in Carriers /\ calls'[u].pin = calls[u].pin
  BY <1>4, <1>5 DEF Carriers
<1>7. Unguessed(c.code)
  BY <1>1, <1>2 DEF PinInv
<1>8. /\ DOMAIN pending' = DOMAIN pending \cup {d}
      /\ pending'[d] = [code |-> c.code, expires |-> c.expires, attempts |-> 0]
      /\ \A e \in DOMAIN pending : e # d => pending'[e] = pending[e]
  BY <1>2 DEF Put
<1>9. pending'[d].code = c.code /\ pending'[d].attempts = 0
  BY <1>8
<1>10. \A e \in DOMAIN pending' : e = d \/ (e \in DOMAIN pending /\ pending'[e] = pending[e])
  BY <1>8
<1> HIDE DEF d
<1>11. PinHeldOnce'
  <2>1. (\A e, f \in DOMAIN pending : pending[e].code = pending[f].code => e = f)'
    BY <1>1, <1>2, <1>9, <1>10 DEF PinInv, PinHeldOnce
  <2>2. (\A u, v \in Carriers : \A a \in calls[u].pin, b \in calls[v].pin : a.code = b.code => u = v)'
    BY <1>6 DEF PinInv, PinHeldOnce
  <2>3. (\A u \in Carriers : \A a \in calls[u].pin : \A e \in DOMAIN pending : pending[e].code # a.code)'
    BY <1>1, <1>2, <1>6, <1>9, <1>10 DEF PinInv, PinHeldOnce
  <2>4. (\A u \in Carriers : \A a \in calls[u].pin : \A b \in prearmed : b.code # a.code)'
    BY <1>3, <1>6 DEF PinInv, PinHeldOnce
  <2>5. (\A a \in prearmed : \A e \in DOMAIN pending : pending[e].code # a.code)'
    BY <1>1, <1>2, <1>3, <1>9, <1>10 DEF PinInv, PinHeldOnce
  <2> QED
    BY <2>1, <2>2, <2>3, <2>4, <2>5 DEF PinHeldOnce
<1>12. \A p : Unguessed(p) => Unguessed(p)'
  BY <1>3 DEF Unguessed
<1>13. (\A e \in DOMAIN pending : /\ pending[e].code \in DOMAIN hist
                                  /\ hist[pending[e].code].wrong = pending[e].attempts
                                  /\ hist[pending[e].code].paired = 0)'
  BY <1>3, <1>7, <1>9, <1>10 DEF PinInv, Unguessed
<1>14. GuessesBounded'
  BY <1>3 DEF PinInv, GuessesBounded
<1>15. (\A u \in Carriers : \A a, b \in calls[u].pin : a = b)'
  BY <1>6 DEF PinInv
<1>16. (\A a, b \in prearmed : a = b)' /\ (\A a \in prearmed : Unguessed(a.code))'
  BY <1>3, <1>12 DEF PinInv
<1>17. (\A u \in Carriers : \A a \in calls[u].pin : Unguessed(a.code))'
  BY <1>6, <1>12 DEF PinInv
<1> QED
  BY <1>11, <1>13, <1>14, <1>15, <1>16, <1>17 DEF PinInv

\* Removing a pending PIN, and changing the record of that PIN only, keeps the
\* invariant as long as the bounds on guesses hold.
LEMMA DropPendingInv ==
  ASSUME PinInv, TypeOK', NEW d \in DOMAIN pending,
         pending' = Drop(pending, d), UNCHANGED prearmed,
         \A t \in Carriers' : t \in Carriers /\ calls'[t].pin = calls[t].pin,
         \A q \in DOMAIN hist : q \in DOMAIN hist' /\ (q # pending[d].code => hist'[q] = hist[q]),
         GuessesBounded'
  PROVE  PinInv'
<1>1. DOMAIN pending' = DOMAIN pending \ {d} /\ \A e \in DOMAIN pending' : pending'[e] = pending[e]
  BY DEF Drop, Restrict
<1>2. \A e \in DOMAIN pending' : pending[e].code # pending[d].code
  BY <1>1 DEF PinInv, PinHeldOnce
<1>3. PinHeldOnce'
  BY <1>1 DEF PinInv, PinHeldOnce
<1>4. (\A a \in prearmed : Unguessed(a.code))'
  BY DEF PinInv, PinHeldOnce, Unguessed
<1>5. (\A t \in Carriers : \A c \in calls[t].pin : Unguessed(c.code))'
  BY DEF PinInv, PinHeldOnce, Unguessed
<1>6. (\A e \in DOMAIN pending : /\ pending[e].code \in DOMAIN hist
                                 /\ hist[pending[e].code].wrong = pending[e].attempts
                                 /\ hist[pending[e].code].paired = 0)'
  BY <1>1, <1>2 DEF PinInv
<1>7. (\A a, b \in prearmed : a = b)' /\ (\A t \in Carriers : \A a, b \in calls[t].pin : a = b)'
  BY DEF PinInv
<1> QED
  BY <1>3, <1>4, <1>5, <1>6, <1>7 DEF PinInv

LEMMA ConfirmRightInv ==
  ASSUME PinInv, TypeOK', NEW t \in Threads, NEW d \in Devices, NEW g \in Pins, ConfirmRight(t, d, g)
  PROVE  PinInv'
<1>1. /\ d \in DOMAIN pending /\ g = pending[d].code /\ t \notin DOMAIN calls
      /\ pending' = Drop(pending, d) /\ UNCHANGED prearmed
      /\ hist' = [hist EXCEPT ![g].paired = @ + 1]
  BY DEF ConfirmRight, CanServe
<1>2. /\ g \in DOMAIN hist /\ hist[g] \in Past
      /\ hist[g].wrong = pending[d].attempts /\ hist[g].paired = 0
      /\ pending[d].attempts \in 0 .. MaxAttempts - 1
  BY <1>1 DEF PinInv, TypeOK, IsMap, Entry
<1>3. /\ DOMAIN hist' = DOMAIN hist
      /\ \A q \in DOMAIN hist : q # g => hist'[q] = hist[q]
      /\ hist'[g].wrong = hist[g].wrong /\ hist'[g].paired = 1
  BY <1>1, <1>2 DEF Past
<1>4. GuessesBounded'
  BY <1>2, <1>3 DEF PinInv, GuessesBounded
<1>5. \A u \in Carriers' : u \in Carriers /\ calls'[u].pin = calls[u].pin
  BY <1>1 DEF ConfirmRight, Put, Carriers
<1> QED
  BY <1>1, <1>3, <1>4, <1>5, DropPendingInv

LEMMA ConfirmWrongInv ==
  ASSUME PinInv, TypeOK', NEW t \in Threads, NEW d \in Devices, NEW g \in Pins, ConfirmWrong(t, d, g)
  PROVE  PinInv'
<1> DEFINE p == pending[d].code
<1>1. /\ d \in DOMAIN pending /\ UNCHANGED <<prearmed, calls>>
      /\ hist' = [hist EXCEPT ![p].wrong = @ + 1]
  BY DEF ConfirmWrong, WrongGuess
<1>2. /\ p \in DOMAIN hist /\ hist[p] \in Past /\ pending[d] \in Entry
      /\ hist[p].wrong = pending[d].attempts /\ hist[p].paired = 0
      /\ pending[d].attempts \in 0 .. MaxAttempts - 1
  BY <1>1 DEF PinInv, TypeOK, IsMap, Entry
<1>3. /\ DOMAIN hist' = DOMAIN hist
      /\ \A q \in DOMAIN hist : q # p => hist'[q] = hist[q]
      /\ hist'[p].wrong = hist[p].wrong + 1 /\ hist'[p].paired = 0
  BY <1>1, <1>2 DEF Past
<1>4. GuessesBounded'
  BY <1>2, <1>3 DEF PinInv, GuessesBounded
<1>5. Carriers' = Carriers /\ \A u \in Carriers : calls'[u].pin = calls[u].pin
  BY <1>1 DEF Carriers
<1>6. CASE LockedOut(pending[d])
  <2>1. pending' = Drop(pending, d)
    BY <1>6 DEF ConfirmWrong, WrongGuess
  <2> QED
    BY <1>1, <1>3, <1>4, <1>5, <2>1, DropPendingInv
<1>7. CASE ~LockedOut(pending[d])
  <2>1. pending' = Put(pending, d, Attempted(pending[d]))
    BY <1>7 DEF ConfirmWrong, WrongGuess
  <2>2. /\ Attempted(pending[d]).code = p
        /\ Attempted(pending[d]).attempts = pending[d].attempts + 1
    BY <1>2 DEF Attempted, Entry
  <2>3. /\ DOMAIN pending' = DOMAIN pending
        /\ pending'[d] = Attempted(pending[d])
        /\ \A e \in DOMAIN pending : e # d => pending'[e] = pending[e]
    BY <1>1, <2>1 DEF Put
  <2>4. \A e \in DOMAIN pending : pending'[e].code = pending[e].code
    BY <2>2, <2>3
  <2> HIDE DEF p
  <2>5. PinHeldOnce'
    BY <1>1, <1>5, <2>3, <2>4 DEF PinInv, PinHeldOnce
  <2>6. \A q : q # p /\ Unguessed(q) => Unguessed(q)'
    BY <1>3 DEF Unguessed
  <2>7. (\A a \in prearmed : a.code # p) /\ (\A u \in Carriers : \A c \in calls[u].pin : c.code # p)
    BY <1>1 DEF PinInv, PinHeldOnce, p
  <2>8. (\A a \in prearmed : Unguessed(a.code))' /\ (\A u \in Carriers : \A c \in calls[u].pin : Unguessed(c.code))'
    BY <1>1, <1>5, <2>6, <2>7 DEF PinInv
  <2>9. (\A e \in DOMAIN pending : /\ pending[e].code \in DOMAIN hist
                                   /\ hist[pending[e].code].wrong = pending[e].attempts
                                   /\ hist[pending[e].code].paired = 0)'
    <3>1. \A e \in DOMAIN pending : e # d => pending[e].code # p
      BY <1>1 DEF PinInv, PinHeldOnce, p
    <3> QED
      BY <1>2, <1>3, <2>2, <2>3, <2>4, <3>1 DEF PinInv, p
  <2>10. (\A a, b \in prearmed : a = b)' /\ (\A u \in Carriers : \A a, b \in calls[u].pin : a = b)'
    BY <1>1, <1>5 DEF PinInv
  <2> QED
    BY <1>4, <2>5, <2>8, <2>9, <2>10 DEF PinInv
<1> QED
  BY <1>6, <1>7

\* The actions that leave every code where it is.
LEMMA QuietInv ==
  ASSUME PinInv, TypeOK', NEW t \in Threads,
         (\E d \in Devices : BeginPair(t, d)) \/ CheckPending(t) \/ CheckCooldown(t) \/ Notify(t)
           \/ ClearCooldown(t) \/ Announce(t)
  PROVE  PinInv'
<1>1. UNCHANGED <<pending, prearmed, hist>>
  BY DEF BeginPair, CheckPending, CheckCooldown, Notify, ClearCooldown, Announce
<1>2. ASSUME NEW pc \in Step, Goto(t, pc), t \in DOMAIN calls, pc # "insert", ~At(t, "insert")
      PROVE  \A u \in Carriers' : u \in Carriers /\ calls'[u].pin = calls[u].pin
  <2>1. /\ DOMAIN calls' = DOMAIN calls
        /\ calls'[t] = [calls[t] EXCEPT !.pc = pc]
        /\ \A u \in DOMAIN calls : u # t => calls'[u] = calls[u]
    BY <1>2, GotoType DEF PinInv
  <2>2. calls'[t].pc = pc
    BY <1>2, <2>1 DEF PinInv, TypeOK, IsMap, Call
  <2> QED
    BY <1>2, <2>1, <2>2, CarriersFrame
<1>3. ASSUME Return(t), ~At(t, "insert")
      PROVE  \A u \in Carriers' : u \in Carriers /\ calls'[u].pin = calls[u].pin
  BY <1>3, ReturnType, CarriersFrame DEF PinInv
<1>4. \A u \in Carriers' : u \in Carriers /\ calls'[u].pin = calls[u].pin
  <2>1. CASE \E d \in Devices : BeginPair(t, d)
    BY <2>1 DEF BeginPair, CanServe, Put, Carriers
  <2>2. CASE CheckPending(t)
    BY <2>2, <1>2, <1>3 DEF CheckPending, At, Step
  <2>3. CASE CheckCooldown(t)
    BY <2>3, <1>2, <1>3 DEF CheckCooldown, At, Step
  <2>4. CASE Notify(t)
    BY <2>4, <1>3 DEF Notify, At
  <2>5. CASE ClearCooldown(t)
    BY <2>5, <1>2 DEF ClearCooldown, At, Step
  <2>6. CASE Announce(t)
    BY <2>6, <1>3 DEF Announce, At
  <2> QED
    BY <2>1, <2>2, <2>3, <2>4, <2>5, <2>6
<1> QED
  BY <1>1, <1>4, PinFrame

LEMMA ConfirmExpiredInv ==
  ASSUME PinInv, TypeOK', NEW t \in Threads, NEW d \in Devices, ConfirmExpired(t, d)
  PROVE  PinInv'
<1>1. /\ d \in DOMAIN pending /\ pending' = Drop(pending, d)
      /\ UNCHANGED <<prearmed, calls, hist>>
  BY DEF ConfirmExpired
<1>2. GuessesBounded' /\ \A u \in Carriers' : u \in Carriers /\ calls'[u].pin = calls[u].pin
  BY <1>1 DEF PinInv, GuessesBounded, Carriers
<1> QED
  BY <1>1, <1>2, DropPendingInv

\* No step moves a PIN to a second place or forgets its guesses.
LEMMA PinNext == PinInv /\ TypeOK' /\ [Next]_vars => PinInv'
<1> SUFFICES ASSUME PinInv, TypeOK', [Next]_vars PROVE PinInv'
  OBVIOUS
<1>1. CASE PreArm
  BY <1>1, PreArmInv
<1>2. CASE Tick \/ UNCHANGED vars
  BY <1>2, PinFrame DEF Tick, vars, Carriers
<1>3. ASSUME NEW t \in Threads, ThreadStep(t) PROVE PinInv'
  <2>1. CASE TakeCode(t) \/ InsertPending(t)
    BY <2>1, TakeCodeInv, InsertInv
  <2>2. CASE \/ \E d \in Devices : ConfirmExpired(t, d)
             \/ \E d \in Devices, g \in Pins : ConfirmRight(t, d, g) \/ ConfirmWrong(t, d, g)
    BY <2>2, ConfirmExpiredInv, ConfirmRightInv, ConfirmWrongInv
  <2> QED
    BY <1>3, <2>1, <2>2, QuietInv DEF ThreadStep
<1> QED
  BY <1>1, <1>2, <1>3 DEF Next

\* At start no PIN exists.
LEMMA PinInit == Init => PinInv
<1> SUFFICES ASSUME Init PROVE PinInv
  OBVIOUS
<1>1. TypeOK
  BY EmptyIsMap DEF Init, TypeOK
<1> QED
  BY <1>1 DEF Init, PinInv, PinHeldOnce, GuessesBounded, EmptyMap, Carriers

\* The inductive invariant holds in every reachable state.
THEOREM PinInvariant == Spec => []PinInv
BY PinInit, PinNext, TypeCorrect, PTL DEF Spec

\* A PIN is in one place at a time: no QR code and no repeated request gives one PIN
\* to two requesters.
THEOREM OnePlacePerPin == Spec => []PinHeldOnce
<1>1. PinInv => PinHeldOnce
  BY DEF PinInv
<1> QED
  BY <1>1, PinInvariant, PTL

\* No PIN sees more than MaxAttempts wrong guesses, pairs twice, or pairs after its
\* lockout, for any number of devices and threads.
THEOREM BoundedGuesses == Spec => []GuessesBounded
<1>1. PinInv => GuessesBounded
  BY DEF PinInv
<1> QED
  BY <1>1, PinInvariant, PTL

-----------------------------------------------------------------------------
(* The cap on tracked requesters bounds the PINs in memory, when a device   *)
(* does not call again before it has its answer.                            *)

\* Tracking one more requester under the cap stays under the cap.
LEMMA TrackOne ==
  ASSUME NEW d, NEW v, IsFiniteSet(DOMAIN lastCreated),
         Cardinality(DOMAIN lastCreated) <= MaxTracked,
         d \in DOMAIN lastCreated \/ Cardinality(DOMAIN lastCreated) < MaxTracked
  PROVE  /\ IsFiniteSet(DOMAIN Put(lastCreated, d, v))
         /\ Cardinality(DOMAIN Put(lastCreated, d, v)) <= MaxTracked
<1>1. DOMAIN Put(lastCreated, d, v) = DOMAIN lastCreated \cup {d}
  BY DEF Put
<1>2. Cardinality(DOMAIN lastCreated) \in Nat
  BY FS_CardinalityType
<1>3. /\ IsFiniteSet(DOMAIN lastCreated \cup {d})
      /\ Cardinality(DOMAIN lastCreated \cup {d}) =
           IF d \in DOMAIN lastCreated THEN Cardinality(DOMAIN lastCreated)
           ELSE Cardinality(DOMAIN lastCreated) + 1
  BY FS_AddElement
<1> QED
  BY <1>1, <1>2, <1>3

\* Moving a call between steps keeps the per-call conjuncts, if the target step's
\* own obligation holds.
LEMMA SerialFrame ==
  ASSUME SerialInv, TypeOK', NEW t \in DOMAIN calls, NEW pc \in Step, Goto(t, pc),
         UNCHANGED <<lastCreated>>, DOMAIN pending' \subseteq DOMAIN pending \cup {calls[t].dev},
         calls[t].pc # "clearCooldown" \/ UNCHANGED pending,
         pc # "clearCooldown",
         pc = "insert" => calls[t].pc = "takeCode",
         pc # "takeCode",
         calls[t].dev \in DOMAIN lastCreated \/ UNCHANGED pending
  PROVE  SerialInv'
<1>1. /\ DOMAIN calls' = DOMAIN calls
      /\ calls'[t] = [calls[t] EXCEPT !.pc = pc]
      /\ \A u \in DOMAIN calls : u # t => calls'[u] = calls[u]
  BY GotoType DEF SerialInv
<1>2. calls'[t].pc = pc /\ calls'[t].dev = calls[t].dev
  BY <1>1 DEF SerialInv, TypeOK, IsMap, Call
<1>3. PendingIsTracked'
  BY DEF SerialInv, PendingIsTracked
<1>4. \A u, v \in DOMAIN calls' : calls'[u].dev = calls'[v].dev => u = v
  <2>1. \A u \in DOMAIN calls : calls'[u].dev = calls[u].dev
    BY <1>1, <1>2
  <2> QED
    BY <1>1, <2>1 DEF SerialInv
<1>5. ASSUME NEW u \in DOMAIN calls'
      PROVE  /\ calls'[u].pc \in {"takeCode", "insert"} => calls'[u].dev \in DOMAIN lastCreated'
             /\ calls'[u].pc = "clearCooldown" => calls'[u].dev \notin DOMAIN pending'
  <2>1. CASE u = t
    BY <1>2, <2>1 DEF SerialInv
  <2>2. CASE u # t
    <3>1. u \in DOMAIN calls /\ calls'[u] = calls[u] /\ calls[u].dev # calls[t].dev
      BY <1>1, <1>5, <2>2 DEF SerialInv
    <3> QED
      BY <3>1 DEF SerialInv
  <2> QED
    BY <2>1, <2>2
<1> QED
  BY <1>3, <1>4, <1>5 DEF SerialInv

\* A returning call takes its obligations with it.
LEMMA SerialReturn ==
  ASSUME SerialInv, TypeOK', NEW t, Return(t), UNCHANGED <<lastCreated, pending>>
  PROVE  SerialInv'
<1>1. \A u \in DOMAIN calls' : u \in DOMAIN calls /\ calls'[u] = calls[u]
  <2>1. TypeOK
    BY DEF SerialInv
  <2>2. DOMAIN calls' = DOMAIN calls \ {t} /\ \A u \in DOMAIN calls : u # t => calls'[u] = calls[u]
    BY <2>1, ReturnType
  <2> QED
    BY <2>2
<1>2. PendingIsTracked'
  BY DEF SerialInv, PendingIsTracked
<1>3. \A u, v \in DOMAIN calls' : calls'[u].dev = calls'[v].dev => u = v
  BY <1>1 DEF SerialInv
<1>4. \A u \in DOMAIN calls' :
        /\ calls'[u].pc \in {"takeCode", "insert"} => calls'[u].dev \in DOMAIN lastCreated'
        /\ calls'[u].pc = "clearCooldown" => calls'[u].dev \notin DOMAIN pending'
  BY <1>1 DEF SerialInv
<1> QED
  BY <1>2, <1>3, <1>4 DEF SerialInv

\* A call that begins, for a device with no other call.
LEMMA SerialBegin ==
  ASSUME SerialInv, TypeOK', SerialClients, NEW t, NEW d, CanServe(t, d), NEW c \in Call,
         calls' = Put(calls, t, c), c.dev = d, UNCHANGED lastCreated,
         DOMAIN pending' \subseteq DOMAIN pending,
         c.pc = "checkPending" \/ (c.pc = "clearCooldown" /\ d \notin DOMAIN pending')
  PROVE  SerialInv'
<1>1. /\ DOMAIN calls' = DOMAIN calls \cup {t} /\ t \notin DOMAIN calls
      /\ calls'[t] = c
      /\ \A u \in DOMAIN calls : u # t => calls'[u] = calls[u]
  BY DEF Put, CanServe
<1>2. \A u \in DOMAIN calls : calls[u].dev # d
  BY DEF CanServe
<1>3. PendingIsTracked'
  BY DEF SerialInv, PendingIsTracked
<1> QED
  BY <1>1, <1>2, <1>3 DEF SerialInv

\* No step of a device that awaits its answers exceeds the cap.
LEMMA SerialNext ==
  ASSUME SerialClients, SerialInv, TypeOK', [Next]_vars
  PROVE  SerialInv'
<1>1. CASE PreArm \/ Tick \/ UNCHANGED vars
  BY <1>1 DEF PreArm, Tick, vars, SerialInv, PendingIsTracked
<1>2. ASSUME NEW t \in Threads, NEW d \in Devices, BeginPair(t, d) PROVE SerialInv'
  <2>1. [pc |-> "checkPending", dev |-> d, now |-> clock, pin |-> {}] \in Call
    BY DEF Call, Step, SerialInv, TypeOK
  <2> QED
    BY <1>2, <2>1, SerialBegin DEF BeginPair
<1>3. ASSUME NEW t \in Threads, CheckPending(t) PROVE SerialInv'
  BY <1>3, SerialFrame, SerialReturn DEF CheckPending, At, Step
<1>4. ASSUME NEW t \in Threads, CheckCooldown(t) PROVE SerialInv'
  <2> DEFINE d == calls[t].dev
             now == calls[t].now
  <2>1. CASE Throttled(d, now) /\ Return(t) /\ UNCHANGED lastCreated
    BY <1>4, <2>1, SerialReturn DEF CheckCooldown
  <2>2. CASE ~Throttled(d, now) /\ Goto(t, "takeCode") /\ lastCreated' = Put(lastCreated, d, now)
    <3>1. t \in DOMAIN calls /\ UNCHANGED pending
      BY <1>4 DEF CheckCooldown, At
    <3>2. /\ DOMAIN calls' = DOMAIN calls
          /\ calls'[t] = [calls[t] EXCEPT !.pc = "takeCode"]
          /\ \A u \in DOMAIN calls : u # t => calls'[u] = calls[u]
      BY <2>2, <3>1, GotoType DEF SerialInv, Step
    <3>3. calls'[t].pc = "takeCode" /\ calls'[t].dev = d
      BY <3>1, <3>2 DEF SerialInv, TypeOK, IsMap, Call
    <3>4. DOMAIN lastCreated' = DOMAIN lastCreated \cup {d}
      BY <2>2 DEF Put
    <3>5. d \in DOMAIN lastCreated \/ Cardinality(DOMAIN lastCreated) < MaxTracked
      <4>1. Cardinality(DOMAIN lastCreated) \in Nat
        BY FS_CardinalityType DEF SerialInv
      <4> QED
        BY <2>2, <4>1 DEF Throttled
    <3>6. IsFiniteSet(DOMAIN lastCreated') /\ Cardinality(DOMAIN lastCreated') <= MaxTracked
      BY <2>2, <3>5, TrackOne DEF SerialInv
    <3>7. PendingIsTracked'
      BY <3>1, <3>4 DEF SerialInv, PendingIsTracked
    <3> QED
      BY <3>1, <3>2, <3>3, <3>4, <3>6, <3>7 DEF SerialInv
  <2> QED
    BY <1>4, <2>1, <2>2 DEF CheckCooldown
<1>5. ASSUME NEW t \in Threads, TakeCode(t) PROVE SerialInv'
  <2>1. /\ t \in DOMAIN calls /\ calls[t].pc = "takeCode" /\ calls[t] \in Call
        /\ UNCHANGED <<lastCreated, pending>>
    BY <1>5 DEF TakeCode, TakeCodeLeaving, At, SerialInv, TypeOK, IsMap
  <2>2. PICK x : calls' = [calls EXCEPT ![t].pc = "insert", ![t].pin = x]
    BY <1>5 DEF TakeCode, TakeCodeLeaving
  <2>3. /\ DOMAIN calls' = DOMAIN calls
        /\ calls'[t].pc = "insert" /\ calls'[t].dev = calls[t].dev
        /\ \A u \in DOMAIN calls : u # t => calls'[u] = calls[u]
    BY <2>1, <2>2 DEF Call
  <2> QED
    BY <2>1, <2>3 DEF SerialInv, PendingIsTracked
<1>6. ASSUME NEW t \in Threads, InsertPending(t) PROVE SerialInv'
  <2>1. t \in DOMAIN calls /\ calls[t].pc = "insert" /\ UNCHANGED lastCreated /\ Goto(t, "notify")
    BY <1>6 DEF InsertPending, At
  <2>2. DOMAIN pending' = DOMAIN pending \cup {calls[t].dev}
    BY <1>6 DEF InsertPending, Put
  <2>3. calls[t].dev \in DOMAIN lastCreated
    BY <2>1 DEF SerialInv
  <2> QED
    BY <2>1, <2>2, <2>3, SerialFrame DEF Step
<1>7. ASSUME NEW t \in Threads, Notify(t) \/ Announce(t) PROVE SerialInv'
  BY <1>7, SerialReturn DEF Notify, Announce
<1>8. ASSUME NEW t \in Threads, NEW d \in Devices, ConfirmExpired(t, d) PROVE SerialInv'
  <2>1. DOMAIN pending' \subseteq DOMAIN pending /\ UNCHANGED <<calls, lastCreated>>
    BY <1>8 DEF ConfirmExpired, Drop, Restrict
  <2> QED
    BY <2>1 DEF SerialInv, PendingIsTracked
<1>9. ASSUME NEW t \in Threads, NEW d \in Devices, NEW g \in Pins, ConfirmRight(t, d, g) PROVE SerialInv'
  <2>1. DOMAIN pending' = DOMAIN pending \ {d}
    BY <1>9 DEF ConfirmRight, Drop, Restrict
  <2>2. [pc |-> "clearCooldown", dev |-> d, now |-> clock, pin |-> {}] \in Call
    BY DEF Call, Step, SerialInv, TypeOK
  <2> QED
    BY <1>9, <2>1, <2>2, SerialBegin DEF ConfirmRight
<1>10. ASSUME NEW t \in Threads, NEW d \in Devices, NEW g \in Pins, ConfirmWrong(t, d, g) PROVE SerialInv'
  <2>1. DOMAIN pending' \subseteq DOMAIN pending /\ UNCHANGED <<calls, lastCreated>>
    BY <1>10 DEF ConfirmWrong, WrongGuess, Drop, Restrict, Put
  <2> QED
    BY <2>1 DEF SerialInv, PendingIsTracked
<1>11. ASSUME NEW t \in Threads, ClearCooldown(t) PROVE SerialInv'
  <2> DEFINE d == calls[t].dev
  <2>1. t \in DOMAIN calls /\ calls[t].pc = "clearCooldown" /\ UNCHANGED pending
    BY <1>11 DEF ClearCooldown, At
  <2>2. /\ DOMAIN calls' = DOMAIN calls
        /\ calls'[t] = [calls[t] EXCEPT !.pc = "announce"]
        /\ \A u \in DOMAIN calls : u # t => calls'[u] = calls[u]
    BY <1>11, <2>1, GotoType DEF ClearCooldown, SerialInv, Step
  <2>3. calls'[t].pc = "announce" /\ calls'[t].dev = d
    BY <2>1, <2>2 DEF SerialInv, TypeOK, IsMap, Call
  <2>4. DOMAIN lastCreated' = DOMAIN lastCreated \ {d}
    BY <1>11 DEF ClearCooldown, Drop, Restrict
  <2>5. IsFiniteSet(DOMAIN lastCreated') /\ Cardinality(DOMAIN lastCreated') <= MaxTracked
    <3>1. /\ IsFiniteSet(DOMAIN lastCreated \ {d})
          /\ Cardinality(DOMAIN lastCreated \ {d}) <= Cardinality(DOMAIN lastCreated)
      BY FS_Subset DEF SerialInv
    <3>2. Cardinality(DOMAIN lastCreated) \in Nat /\ Cardinality(DOMAIN lastCreated \ {d}) \in Nat
      BY <3>1, FS_CardinalityType DEF SerialInv
    <3> QED
      BY <2>4, <3>1, <3>2 DEF SerialInv
  <2>6. d \notin DOMAIN pending
    BY <2>1 DEF SerialInv
  <2>7. \A u \in DOMAIN calls : u # t => calls[u].dev # d
    BY <2>1 DEF SerialInv
  <2>8. PendingIsTracked'
    BY <2>1, <2>4, <2>6 DEF SerialInv, PendingIsTracked
  <2>9. \A u, v \in DOMAIN calls' : calls'[u].dev = calls'[v].dev => u = v
    <3>1. \A u \in DOMAIN calls : calls'[u].dev = calls[u].dev
      BY <2>2, <2>3
    <3> QED
      BY <2>2, <3>1 DEF SerialInv
  <2>10. ASSUME NEW u \in DOMAIN calls'
         PROVE  /\ calls'[u].pc \in {"takeCode", "insert"} => calls'[u].dev \in DOMAIN lastCreated'
                /\ calls'[u].pc = "clearCooldown" => calls'[u].dev \notin DOMAIN pending'
    <3>1. CASE u = t
      BY <2>3, <3>1
    <3>2. CASE u # t
      BY <2>1, <2>2, <2>4, <2>7, <3>2 DEF SerialInv
    <3> QED
      BY <3>1, <3>2
  <2> QED
    BY <2>5, <2>8, <2>9, <2>10 DEF SerialInv
<1> QED
  BY <1>1, <1>2, <1>3, <1>4, <1>5, <1>6, <1>7, <1>8, <1>9, <1>10, <1>11 DEF Next, ThreadStep

\* At start no requester is tracked.
LEMMA SerialInit == Init => SerialInv
<1> SUFFICES ASSUME Init PROVE SerialInv
  OBVIOUS
<1>1. TypeOK
  BY EmptyIsMap DEF Init, TypeOK
<1>2. DOMAIN lastCreated = {} /\ DOMAIN pending = {} /\ DOMAIN calls = {}
  BY DEF Init, EmptyMap
<1>3. IsFiniteSet({}) /\ Cardinality({}) = 0
  BY FS_EmptySet
<1> QED
  BY <1>1, <1>2, <1>3 DEF SerialInv, PendingIsTracked

\* If every device awaits its answers, SerialInv holds in every reachable state.
THEOREM SerialInvariant == ASSUME SerialClients PROVE Spec => []SerialInv
<1>1. SerialInv /\ TypeOK' /\ [Next]_vars => SerialInv'
  BY SerialNext
<1> QED
  BY <1>1, SerialInit, TypeCorrect, PTL DEF Spec

\* MAX_TRACKED_DEVICES bounds the PINs in memory, for devices that await their answers.
THEOREM BoundedPending == ASSUME SerialClients PROVE Spec => []PendingBounded
<1>1. SerialInv => PendingBounded
  <2> SUFFICES ASSUME SerialInv PROVE PendingBounded
    OBVIOUS
  <2>1. /\ IsFiniteSet(DOMAIN pending)
        /\ Cardinality(DOMAIN pending) <= Cardinality(DOMAIN lastCreated)
    BY FS_Subset DEF SerialInv, PendingIsTracked
  <2>2. Cardinality(DOMAIN pending) \in Nat /\ Cardinality(DOMAIN lastCreated) \in Nat
    BY <2>1, FS_CardinalityType DEF SerialInv
  <2> QED
    BY <2>1, <2>2 DEF SerialInv, PendingBounded
<1> QED
  BY <1>1, SerialInvariant, PTL
-----------------------------------------------------------------------------
(* The manager implements the life of a PIN. *)

\* The steps that move no code leave every code with its carrier.
LEMMA QuietCarriers ==
  ASSUME TypeOK, NEW t \in Threads,
         (\E d \in Devices : BeginPair(t, d)) \/ CheckPending(t) \/ CheckCooldown(t) \/ Notify(t)
           \/ ClearCooldown(t) \/ Announce(t)
  PROVE  /\ UNCHANGED <<clock, pending, prearmed, hist>>
         /\ Carriers' = Carriers /\ \A u \in Carriers : calls'[u].pin = calls[u].pin
         /\ \A u \in DOMAIN calls' : calls'[u].now = clock \/ (u \in DOMAIN calls /\ calls'[u].now = calls[u].now)
<1> DEFINE Kept == /\ Carriers' = Carriers /\ \A u \in Carriers : calls'[u].pin = calls[u].pin
                   /\ \A u \in DOMAIN calls' :
                        calls'[u].now = clock \/ (u \in DOMAIN calls /\ calls'[u].now = calls[u].now)
<1>1. ASSUME NEW pc \in Step, Goto(t, pc), t \in DOMAIN calls, pc # "insert", calls[t].pc # "insert" PROVE Kept
  <2>1. /\ DOMAIN calls' = DOMAIN calls
        /\ calls'[t] = [calls[t] EXCEPT !.pc = pc]
        /\ \A u \in DOMAIN calls : u # t => calls'[u] = calls[u]
    BY <1>1, GotoType
  <2>2. calls[t] \in Call
    BY <1>1 DEF TypeOK, IsMap
  <2>3. calls'[t].pc = pc /\ calls'[t].now = calls[t].now
    BY <2>1, <2>2 DEF Call
  <2>4. \A u \in DOMAIN calls : IF calls[u].pc = "insert" THEN calls'[u] = calls[u] ELSE calls'[u].pc # "insert"
    BY <1>1, <2>1, <2>3
  <2>5. Carriers' = Carriers /\ \A u \in Carriers : calls'[u].pin = calls[u].pin
    BY <2>1, <2>4 DEF Carriers
  <2> QED
    BY <2>1, <2>3, <2>5
<1>2. ASSUME Return(t), t \in DOMAIN calls, calls[t].pc # "insert" PROVE Kept
  <2>1. DOMAIN calls' = DOMAIN calls \ {t} /\ \A u \in DOMAIN calls : u # t => calls'[u] = calls[u]
    BY <1>2, ReturnType
  <2>2. Carriers' = Carriers /\ \A u \in Carriers : calls'[u].pin = calls[u].pin
    BY <1>2, <2>1 DEF Carriers
  <2> QED
    BY <2>1, <2>2
<1>3. CASE \E d \in Devices : BeginPair(t, d)
  <2>1. PICK d \in Devices : BeginPair(t, d)
    BY <1>3
  <2>2. t \notin DOMAIN calls
    BY <2>1 DEF BeginPair, CanServe
  <2>3. /\ DOMAIN calls' = DOMAIN calls \cup {t} /\ calls'[t].pc = "checkPending" /\ calls'[t].now = clock
        /\ \A u \in DOMAIN calls : calls'[u] = calls[u]
    BY <2>1, <2>2 DEF BeginPair, Put
  <2>4. Carriers' = Carriers /\ \A u \in Carriers : calls'[u].pin = calls[u].pin
    BY <2>2, <2>3 DEF Carriers
  <2>5. \A u \in DOMAIN calls' :
          calls'[u].now = clock \/ (u \in DOMAIN calls /\ calls'[u].now = calls[u].now)
    BY <2>2, <2>3
  <2> QED
    BY <2>1, <2>4, <2>5 DEF BeginPair
<1>4. CASE CheckPending(t)
  BY <1>4, <1>1, <1>2 DEF CheckPending, At, Step
<1>5. CASE CheckCooldown(t)
  BY <1>5, <1>1, <1>2 DEF CheckCooldown, At, Step
<1>6. CASE Notify(t)
  BY <1>6, <1>2 DEF Notify, At
<1>7. CASE ClearCooldown(t)
  BY <1>7, <1>1 DEF ClearCooldown, At, Step
<1>8. CASE Announce(t)
  BY <1>8, <1>2 DEF Announce, At
<1> QED
  BY <1>3, <1>4, <1>5, <1>6, <1>7, <1>8

\* take_code makes one more carrier, of the armed code or of a fresh one.
LEMMA TakeCodeMoves ==
  ASSUME PinInv, NEW t \in Threads, TakeCode(t)
  PROVE  \E c \in Code :
           /\ Carriers' = Carriers \cup {t} /\ t \notin Carriers
           /\ calls'[t].pin = {c} /\ \A u \in Carriers : calls'[u].pin = calls[u].pin
           /\ DOMAIN calls' = DOMAIN calls /\ \A u \in DOMAIN calls : calls'[u].now = calls[u].now
           /\ UNCHANGED <<clock, pending>> /\ prearmed' = {}
           /\ \/ c \in prearmed /\ UNCHANGED hist
              \/ Mint(c.code) /\ c.expires = calls[t].now + PinTTL
<1>1. t \in DOMAIN calls /\ calls[t].pc = "takeCode"
  BY DEF TakeCode, TakeCodeLeaving, At
<1>2. calls[t] \in Call
  BY <1>1 DEF PinInv, TypeOK, IsMap
<1>3. PICK c \in Code : /\ calls' = [calls EXCEPT ![t].pc = "insert", ![t].pin = {c}]
                        /\ \/ c \in prearmed /\ UNCHANGED hist
                           \/ Mint(c.code) /\ c.expires = calls[t].now + PinTTL
  <2>1. CASE \E c \in prearmed : /\ calls' = [calls EXCEPT ![t].pc = "insert", ![t].pin = {c}]
                                 /\ UNCHANGED hist
    BY <2>1 DEF PinInv, TypeOK
  <2>2. CASE \E p \in Pins : /\ Mint(p)
                             /\ calls' = [calls EXCEPT ![t].pc = "insert",
                                  ![t].pin = {[code |-> p, expires |-> calls[t].now + PinTTL]}]
    <3>1. PICK p \in Pins : /\ Mint(p)
                            /\ calls' = [calls EXCEPT ![t].pc = "insert",
                                 ![t].pin = {[code |-> p, expires |-> calls[t].now + PinTTL]}]
      BY <2>2
    <3> DEFINE c == [code |-> p, expires |-> calls[t].now + PinTTL]
    <3>2. c \in Code /\ c.code = p /\ c.expires = calls[t].now + PinTTL
      BY <1>2 DEF Call, Code
    <3>3. calls' = [calls EXCEPT ![t].pc = "insert", ![t].pin = {c}]
      BY <3>1
    <3> HIDE DEF c
    <3> QED
      BY <3>1, <3>2, <3>3
  <2> QED
    BY <2>1, <2>2 DEF TakeCode, TakeCodeLeaving
<1>4. calls'[t].pc = "insert" /\ calls'[t].pin = {c} /\ calls'[t].now = calls[t].now
  BY <1>1, <1>2, <1>3 DEF Call
<1>5. DOMAIN calls' = DOMAIN calls /\ \A u \in DOMAIN calls : u # t => calls'[u] = calls[u]
  BY <1>1, <1>3
<1>6. Carriers' = Carriers \cup {t} /\ t \notin Carriers
  BY <1>1, <1>4, <1>5 DEF Carriers
<1>7. UNCHANGED <<clock, pending>> /\ prearmed' = {}
  BY DEF TakeCode, TakeCodeLeaving
<1>8. \A u \in Carriers : calls'[u].pin = calls[u].pin
  BY <1>5, <1>6 DEF Carriers
<1>9. \A u \in DOMAIN calls : calls'[u].now = calls[u].now
  BY <1>4, <1>5
<1> QED
  BY <1>3, <1>4, <1>5, <1>6, <1>7, <1>8, <1>9

\* The insertion puts the one code its carrier had in pending, in the place of the code its
\* requester had before.
LEMMA InsertMoves ==
  ASSUME PinInv, NEW t \in Threads, InsertPending(t)
  PROVE  \E c \in Code, d \in Devices :
           /\ t \in Carriers /\ Carriers' = Carriers \ {t}
           /\ c \in calls[t].pin /\ \A b \in calls[t].pin : b = c
           /\ \A u \in Carriers' : calls'[u].pin = calls[u].pin
           /\ DOMAIN calls' = DOMAIN calls /\ \A u \in DOMAIN calls : calls'[u].now = calls[u].now
           /\ UNCHANGED <<clock, prearmed, hist>>
           /\ DOMAIN pending' = DOMAIN pending \cup {d}
           /\ pending'[d].code = c.code /\ pending'[d].expires = c.expires
           /\ \A e \in DOMAIN pending : e # d => pending'[e] = pending[e]
<1>1. t \in Carriers /\ t \in DOMAIN calls
  BY DEF InsertPending, At, Carriers
<1>2. calls[t] \in Call
  BY <1>1 DEF PinInv, TypeOK, IsMap
<1>3. PICK c \in calls[t].pin :
         pending' = Put(pending, calls[t].dev, [code |-> c.code, expires |-> c.expires, attempts |-> 0])
  BY DEF InsertPending
<1>4. c \in Code /\ calls[t].dev \in Devices /\ \A b \in calls[t].pin : b = c
  BY <1>1, <1>2, <1>3 DEF PinInv, Call
<1>5. /\ DOMAIN calls' = DOMAIN calls
      /\ calls'[t] = [calls[t] EXCEPT !.pc = "notify"]
      /\ \A u \in DOMAIN calls : u # t => calls'[u] = calls[u]
  BY <1>1, GotoType DEF InsertPending, PinInv, Step
<1>6. calls'[t].pc = "notify" /\ calls'[t].now = calls[t].now
  BY <1>2, <1>5 DEF Call
<1>7. Carriers' = Carriers \ {t} /\ \A u \in Carriers' : calls'[u].pin = calls[u].pin
  BY <1>5, <1>6 DEF Carriers
<1> DEFINE d == calls[t].dev
<1>8. /\ DOMAIN pending' = DOMAIN pending \cup {d}
      /\ pending'[d].code = c.code /\ pending'[d].expires = c.expires
      /\ \A e \in DOMAIN pending : e # d => pending'[e] = pending[e]
  <2> DEFINE r == [code |-> c.code, expires |-> c.expires, attempts |-> 0]
  <2>1. pending' = Put(pending, d, r)
    BY <1>3
  <2>2. r.code = c.code /\ r.expires = c.expires
    OBVIOUS
  <2> HIDE DEF r, d
  <2>3. /\ DOMAIN Put(pending, d, r) = DOMAIN pending \cup {d} /\ Put(pending, d, r)[d] = r
        /\ \A e \in DOMAIN pending : e # d => Put(pending, d, r)[e] = pending[e]
    BY DEF Put
  <2> QED
    BY <2>1, <2>2, <2>3
<1>9. UNCHANGED <<clock, prearmed, hist>>
  BY DEF InsertPending
<1>10. \A u \in DOMAIN calls : calls'[u].now = calls[u].now
  BY <1>5, <1>6
<1> HIDE DEF d
<1>11. d \in Devices
  BY <1>4 DEF d
<1> QED
  BY <1>1, <1>3, <1>4, <1>5, <1>7, <1>8, <1>9, <1>10, <1>11
\* What pairing in time needs: no call has a clock reading of the future, so no code in use
\* expires later than PinTTL after it was drawn.
Timely(c) == c.expires <= hist[c.code].born + PinTTL
Held(c) ==
  \/ c \in prearmed \/ \E t \in Carriers : c \in calls[t].pin
  \/ \E d \in DOMAIN pending : pending[d].code = c.code /\ pending[d].expires = c.expires
DeadlineInv ==
  /\ \A t \in DOMAIN calls : calls[t].now <= clock
  /\ \A c \in Code : Held(c) => Timely(c)

\* A code in use is in the history.
LEMMA HeldKnown == PinInv => \A c \in Code : Held(c) => c.code \in DOMAIN hist
BY DEF PinInv, Held, Unguessed

\* Every step leaves what is known of a PIN's birth, and brings at most one new code into use.
LEMMA DeadlineFrame ==
  ASSUME PinInv, DeadlineInv, clock' >= clock, clock \in Nat, clock' \in Nat,
         \A u \in DOMAIN calls' : calls'[u].now = clock \/ (u \in DOMAIN calls /\ calls'[u].now = calls[u].now),
         \A u \in DOMAIN calls : calls[u].now \in Nat,
         \A q \in DOMAIN hist : q \in DOMAIN hist' /\ hist'[q].born = hist[q].born,
         \A c \in Code : Held(c)' => Held(c) \/ Timely(c)'
  PROVE  DeadlineInv'
<1>1. \A u \in DOMAIN calls' : calls'[u].now <= clock'
  BY DEF DeadlineInv
<1>2. ASSUME NEW c \in Code, Held(c)' PROVE Timely(c)'
  BY <1>2, HeldKnown DEF DeadlineInv, Timely
<1> QED
  BY <1>1, <1>2 DEF DeadlineInv

LEMMA DeadlineStep ==
  ASSUME PinInv, TypeOK', DeadlineInv, [Next]_vars
  PROVE  DeadlineInv'
<1>1. /\ clock \in Nat /\ clock' \in Nat /\ PinTTL \in Nat
      /\ \A u \in DOMAIN calls : calls[u] \in Call /\ calls[u].now \in Nat
  BY DEF PinInv, TypeOK, IsMap, Call
<1>2. ASSUME NEW t \in Threads,
             (\E d \in Devices : BeginPair(t, d)) \/ CheckPending(t) \/ CheckCooldown(t) \/ Notify(t)
               \/ ClearCooldown(t) \/ Announce(t)
      PROVE  DeadlineInv'
  <2>1. /\ UNCHANGED <<clock, pending, prearmed, hist>>
        /\ Carriers' = Carriers /\ \A u \in Carriers : calls'[u].pin = calls[u].pin
        /\ \A u \in DOMAIN calls' :
             calls'[u].now = clock \/ (u \in DOMAIN calls /\ calls'[u].now = calls[u].now)
    BY <1>2, QuietCarriers DEF PinInv
  <2>2. \A c \in Code : Held(c)' => Held(c)
    BY <2>1 DEF Held
  <2> QED
    BY <1>1, <2>1, <2>2, DeadlineFrame
<1>3. CASE Tick \/ UNCHANGED vars
  <2>1. UNCHANGED <<calls, pending, prearmed, hist>> /\ clock' >= clock
    BY <1>1, <1>3 DEF Tick, vars
  <2>2. \A c \in Code : Held(c)' => Held(c)
    BY <2>1 DEF Held, Carriers
  <2> QED
    BY <1>1, <2>1, <2>2, DeadlineFrame
<1>4. CASE PreArm
  <2>1. PICK p \in Pins : Mint(p) /\ prearmed' = {[code |-> p, expires |-> clock + PinTTL]}
    BY <1>4 DEF PreArm
  <2>2. UNCHANGED <<clock, calls, pending>>
    BY <1>4 DEF PreArm
  <2>3. /\ \A q \in DOMAIN hist : q \in DOMAIN hist' /\ hist'[q] = hist[q]
        /\ hist'[p].born = clock
    BY <2>1 DEF Mint, Put
  <2>4. ASSUME NEW c \in Code, Held(c)' PROVE Held(c) \/ Timely(c)'
    <3>1. c \in prearmed' => c.code = p /\ c.expires = clock + PinTTL
      BY <2>1
    <3>2. c \notin prearmed' => Held(c)
      BY <2>2, <2>4 DEF Held, Carriers
    <3>3. c \in prearmed' => Timely(c)'
      BY <1>1, <2>3, <3>1 DEF Timely
    <3> QED
      BY <3>2, <3>3
  <2> QED
    BY <1>1, <2>2, <2>3, <2>4, DeadlineFrame
<1>5. ASSUME NEW t \in Threads, TakeCode(t) PROVE DeadlineInv'
  <2>1. PICK c \in Code :
           /\ Carriers' = Carriers \cup {t} /\ t \notin Carriers
           /\ calls'[t].pin = {c} /\ \A u \in Carriers : calls'[u].pin = calls[u].pin
           /\ DOMAIN calls' = DOMAIN calls /\ \A u \in DOMAIN calls : calls'[u].now = calls[u].now
           /\ UNCHANGED <<clock, pending>> /\ prearmed' = {}
           /\ \/ c \in prearmed /\ UNCHANGED hist
              \/ Mint(c.code) /\ c.expires = calls[t].now + PinTTL
    BY <1>5, TakeCodeMoves
  <2>2. \A q \in DOMAIN hist : q \in DOMAIN hist' /\ hist'[q] = hist[q]
    BY <2>1 DEF Mint, Put
  <2>3. t \in DOMAIN calls
    BY <1>5 DEF TakeCode, TakeCodeLeaving, At
  <2>4. Held(c) \/ Timely(c)'
    <3>1. CASE c \in prearmed
      BY <3>1 DEF Held
    <3>2. CASE Mint(c.code) /\ c.expires = calls[t].now + PinTTL
      <4>1. hist'[c.code].born = clock
        BY <3>2 DEF Mint, Put
      <4>2. calls[t].now <= clock
        BY <2>3 DEF DeadlineInv
      <4> QED
        BY <1>1, <2>3, <3>2, <4>1, <4>2 DEF Timely
    <3> QED
      BY <2>1, <3>1, <3>2
  <2>5. \A b \in Code : Held(b)' => b = c \/ Held(b)
    BY <2>1 DEF Held
  <2> QED
    BY <1>1, <2>1, <2>2, <2>4, <2>5, DeadlineFrame
<1>6. ASSUME NEW t \in Threads, InsertPending(t) PROVE DeadlineInv'
  <2>1. PICK c \in Code, d \in Devices :
           /\ t \in Carriers /\ Carriers' = Carriers \ {t}
           /\ c \in calls[t].pin /\ \A b \in calls[t].pin : b = c
           /\ \A u \in Carriers' : calls'[u].pin = calls[u].pin
           /\ DOMAIN calls' = DOMAIN calls /\ \A u \in DOMAIN calls : calls'[u].now = calls[u].now
           /\ UNCHANGED <<clock, prearmed, hist>>
           /\ DOMAIN pending' = DOMAIN pending \cup {d}
           /\ pending'[d].code = c.code /\ pending'[d].expires = c.expires
           /\ \A e \in DOMAIN pending : e # d => pending'[e] = pending[e]
    BY <1>6, InsertMoves
  <2>2. Held(c)
    BY <2>1 DEF Held
  <2>3. \A b \in Code : b.code = c.code /\ b.expires = c.expires => b = c
    BY DEF Code
  <2>4. \A b \in Code : Held(b)' => b = c \/ Held(b)
    BY <2>1, <2>3 DEF Held
  <2> QED
    BY <1>1, <2>1, <2>2, <2>4, DeadlineFrame
<1>7. ASSUME NEW t \in Threads, NEW d \in Devices, ConfirmExpired(t, d) PROVE DeadlineInv'
  <2>1. pending' = Drop(pending, d) /\ UNCHANGED <<clock, prearmed, calls, hist>>
    BY <1>7 DEF ConfirmExpired
  <2>2. \A c \in Code : Held(c)' => Held(c)
    BY <2>1 DEF Held, Carriers, Drop, Restrict
  <2> QED
    BY <1>1, <2>1, <2>2, DeadlineFrame
<1>8. ASSUME NEW t \in Threads, NEW d \in Devices, NEW g \in Pins, ConfirmRight(t, d, g) PROVE DeadlineInv'
  <2>1. /\ pending' = Drop(pending, d) /\ UNCHANGED <<clock, prearmed>> /\ t \notin DOMAIN calls
        /\ calls' = Put(calls, t, [pc |-> "clearCooldown", dev |-> d, now |-> clock, pin |-> {}])
        /\ hist' = [hist EXCEPT ![g].paired = @ + 1]
    BY <1>8 DEF ConfirmRight, CanServe
  <2>2. /\ Carriers' = Carriers /\ \A u \in Carriers : calls'[u].pin = calls[u].pin
        /\ \A u \in DOMAIN calls' :
             calls'[u].now = clock \/ (u \in DOMAIN calls /\ calls'[u].now = calls[u].now)
    BY <2>1 DEF Carriers, Put
  <2>3. \A q \in DOMAIN hist : q \in DOMAIN hist' /\ hist'[q].born = hist[q].born
    BY <2>1 DEF PinInv, TypeOK, IsMap, Past
  <2>4. \A c \in Code : Held(c)' => Held(c)
    BY <2>1, <2>2 DEF Held, Drop, Restrict
  <2>5. clock' = clock
    BY <2>1
  <2> QED
    BY <1>1, <2>2, <2>3, <2>4, <2>5, DeadlineFrame
<1>9. ASSUME NEW t \in Threads, NEW d \in Devices, NEW g \in Pins, ConfirmWrong(t, d, g) PROVE DeadlineInv'
  <2>1. /\ UNCHANGED <<clock, prearmed, calls>> /\ d \in DOMAIN pending
        /\ pending' = IF LockedOut(pending[d]) THEN Drop(pending, d)
                      ELSE Put(pending, d, Attempted(pending[d]))
        /\ hist' = [hist EXCEPT ![pending[d].code].wrong = @ + 1]
    BY <1>9 DEF ConfirmWrong, WrongGuess
  <2>2. \A q \in DOMAIN hist : q \in DOMAIN hist' /\ hist'[q].born = hist[q].born
    BY <2>1 DEF PinInv, TypeOK, IsMap, Past
  <2>3. pending[d] \in Entry
    BY <2>1 DEF PinInv, TypeOK, IsMap
  <2>4. Attempted(pending[d]).code = pending[d].code /\ Attempted(pending[d]).expires = pending[d].expires
    BY <2>3 DEF Attempted, Entry
  <2>5. \A e \in DOMAIN pending' : e \in DOMAIN pending /\ pending'[e].code = pending[e].code
                                     /\ pending'[e].expires = pending[e].expires
    BY <2>1, <2>4 DEF Drop, Restrict, Put
  <2>6. \A c \in Code : Held(c)' => Held(c)
    BY <2>1, <2>5 DEF Held, Carriers
  <2>7. \A u \in DOMAIN calls' : u \in DOMAIN calls /\ calls'[u].now = calls[u].now
    BY <2>1
  <2>8. clock' = clock
    BY <2>1
  <2> QED
    BY <1>1, <2>2, <2>6, <2>7, <2>8, DeadlineFrame
<1> QED
  BY <1>2, <1>3, <1>4, <1>5, <1>6, <1>7, <1>8, <1>9 DEF Next, ThreadStep
LEMMA DeadlineAlways == Spec => []DeadlineInv
<1>1. Init => DeadlineInv
  BY DEF Init, DeadlineInv, Held, Carriers, EmptyMap
<1>2. PinInv /\ TypeOK' /\ DeadlineInv /\ [Next]_vars => DeadlineInv'
  BY DeadlineStep
<1> QED
  BY <1>1, <1>2, PinInvariant, TypeCorrect, PTL DEF Spec

\* A PIN has one stage, since it is in one place, and a live one has guesses left.
Wrong(p) == IF p \in DOMAIN hist THEN hist[p].wrong ELSE 0
Born(p) == IF p \in DOMAIN hist THEN hist[p].born ELSE 0
Accepted(p) == p \in DOMAIN hist /\ hist[p].paired > 0
Staged ==
  \A p \in Pins :
    /\ StageOf(p) \in {"unborn", "armed", "issued", "live", "paired", "dead"}
    /\ StageOf(p) = "unborn" <=> p \notin DOMAIN hist
    /\ StageOf(p) = "armed" <=> Armed(p)
    /\ StageOf(p) = "issued" <=> Issued(p)
    /\ StageOf(p) = "live" <=> Live(p)
    /\ StageOf(p) = "paired" <=> Accepted(p)
    /\ Wrong(p) \in Nat /\ (Live(p) => Wrong(p) < MaxAttempts)

LEMMA StagedByPlace == PinInv => Staged
<1> SUFFICES ASSUME PinInv, NEW p \in Pins
             PROVE  /\ StageOf(p) \in {"unborn", "armed", "issued", "live", "paired", "dead"}
                    /\ StageOf(p) = "unborn" <=> p \notin DOMAIN hist
                    /\ StageOf(p) = "armed" <=> Armed(p)
                    /\ StageOf(p) = "issued" <=> Issued(p)
                    /\ StageOf(p) = "live" <=> Live(p)
                    /\ StageOf(p) = "paired" <=> Accepted(p)
                    /\ Wrong(p) \in Nat /\ (Live(p) => Wrong(p) < MaxAttempts)
  BY DEF Staged
<1>1. Armed(p) => p \in DOMAIN hist /\ ~Issued(p) /\ ~Live(p) /\ ~Accepted(p)
  BY DEF PinInv, PinHeldOnce, Armed, Issued, Live, Accepted, Unguessed
<1>2. Issued(p) => p \in DOMAIN hist /\ ~Armed(p) /\ ~Live(p) /\ ~Accepted(p)
  BY DEF PinInv, PinHeldOnce, Armed, Issued, Live, Accepted, Unguessed
<1>3. Live(p) => p \in DOMAIN hist /\ ~Armed(p) /\ ~Issued(p) /\ ~Accepted(p)
  BY DEF PinInv, PinHeldOnce, Armed, Issued, Live, Accepted
<1>4. Accepted(p) => p \in DOMAIN hist
  BY DEF Accepted
<1>5. Wrong(p) \in Nat
  BY DEF Wrong, PinInv, TypeOK, IsMap, Past
<1>6. Live(p) => Wrong(p) < MaxAttempts
  BY DEF Live, Wrong, PinInv, TypeOK, IsMap, Entry
<1>7. StageOf(p) = IF p \notin DOMAIN hist THEN "unborn" ELSE IF Armed(p) THEN "armed"
                   ELSE IF Issued(p) THEN "issued" ELSE IF Live(p) THEN "live"
                   ELSE IF Accepted(p) THEN "paired" ELSE "dead"
  BY <1>1, <1>2, <1>3, <1>4 DEF StageOf, Accepted
<1> QED
  BY <1>1, <1>2, <1>3, <1>4, <1>5, <1>6, <1>7

\* What one PIN may do in a step of PinLifecycle, in terms of the manager.
Moved(p) ==
  /\ StageOf(p)' = StageOf(p) \/ <<StageOf(p), StageOf(p)'>> \in Lifecycle!Moves
  /\ Born(p)' = IF StageOf(p) = "unborn" /\ StageOf(p)' # "unborn" THEN clock ELSE Born(p)
  /\ Wrong(p)' = Wrong(p) \/ (StageOf(p) = "live" /\ Wrong(p)' = Wrong(p) + 1)
  /\ (StageOf(p) = "live" /\ Wrong(p)' = MaxAttempts) => StageOf(p)' = "dead"
  /\ (StageOf(p) = "live" /\ StageOf(p)' = "paired") => clock <= Born(p) + PinTTL /\ Wrong(p)' = Wrong(p)

LEMMA LifecycleStep ==
  ASSUME Staged', clock' = clock, \A p \in Pins : Moved(p),
         NEW m, \A p \in Pins : p # m => StageOf(p)' = StageOf(p) \/ StageOf(p)' \notin {"issued", "armed", "paired"}
  PROVE  Lifecycle!Step
<1>1. \A p \in Pins : Lifecycle!Progress(p)
  BY DEF Moved, Lifecycle!Progress, Born, Wrong
<1>2. [p \in Pins |-> StageOf(p)]' \in [Pins -> Lifecycle!Stage]
  BY DEF Staged, Lifecycle!Stage
<1>3. ASSUME NEW p \in Pins, NEW q \in Pins, NEW s \in {"unborn", "live"},
             StageOf(p) = s, StageOf(p)' \in {"issued", "armed", "paired"},
             StageOf(q) = s, StageOf(q)' \in {"issued", "armed", "paired"}
      PROVE  p = q
  BY <1>3
<1> QED
  BY <1>1, <1>2, <1>3 DEF Lifecycle!Step

\* A PIN that no step of its own moves stays where it is, or is dropped where it is.
LEMMA StaysPut ==
  ASSUME Staged, Staged', NEW p \in Pins, Born(p)' = Born(p), Wrong(p)' = Wrong(p),
         StageOf(p)' = StageOf(p) \/ (StageOf(p) \in {"armed", "live"} /\ StageOf(p)' = "dead")
  PROVE  Moved(p)
<1>1. <<"armed", "dead">> \in Lifecycle!Moves /\ <<"live", "dead">> \in Lifecycle!Moves
  BY DEF Lifecycle!Moves
<1>2. StageOf(p)' = "live" => Wrong(p)' < MaxAttempts /\ Wrong(p)' \in Nat
  BY DEF Staged
<1> QED
  BY <1>1, <1>2 DEF Moved

\* The stage of a PIN depends only on where it is and what the history says of it.
LEMMA SameStage ==
  ASSUME Staged, Staged', NEW p \in Pins,
         Armed(p)' <=> Armed(p), Issued(p)' <=> Issued(p), Live(p)' <=> Live(p),
         p \in DOMAIN hist' <=> p \in DOMAIN hist, p \in DOMAIN hist => hist'[p].paired = hist[p].paired
  PROVE  StageOf(p)' = StageOf(p)
<1>1. Accepted(p)' <=> Accepted(p)
  BY DEF Accepted
<1> QED
  BY <1>1 DEF Staged
\* The drawing of a PIN is its birth, and leaves the others as they were.
LEMMA MintMoves ==
  ASSUME NEW m \in Pins, Mint(m)
  PROVE  /\ m \notin DOMAIN hist /\ m \in DOMAIN hist' /\ Born(m)' = clock /\ Wrong(m) = 0 /\ Wrong(m)' = 0
         /\ \A p \in Pins : p # m => /\ p \in DOMAIN hist' <=> p \in DOMAIN hist
                                     /\ p \in DOMAIN hist => hist'[p] = hist[p]
                                     /\ Born(p)' = Born(p) /\ Wrong(p)' = Wrong(p)
<1>1. /\ m \notin DOMAIN hist /\ DOMAIN hist' = DOMAIN hist \cup {m}
      /\ hist'[m] = [born |-> clock, wrong |-> 0, paired |-> 0]
      /\ \A p \in DOMAIN hist : hist'[p] = hist[p]
  BY DEF Mint, Put
<1> QED
  BY <1>1 DEF Born, Wrong

LEMMA PreArmLifecycle ==
  ASSUME PinInv, Staged, Staged', PreArm
  PROVE  Lifecycle!Step
<1>1. PICK m \in Pins : Mint(m) /\ prearmed' = {[code |-> m, expires |-> clock + PinTTL]}
  BY DEF PreArm
<1>2. UNCHANGED <<clock, calls, pending>>
  BY DEF PreArm
<1>3. \A p \in Pins : Armed(p)' <=> p = m
  BY <1>1 DEF Armed
<1>4. \A p \in Pins : (Issued(p)' <=> Issued(p)) /\ (Live(p)' <=> Live(p))
  BY <1>2 DEF Issued, Live, Carriers
<1>5. /\ m \notin DOMAIN hist /\ m \in DOMAIN hist' /\ Born(m)' = clock /\ Wrong(m) = 0 /\ Wrong(m)' = 0
      /\ \A p \in Pins : p # m => /\ p \in DOMAIN hist' <=> p \in DOMAIN hist
                                  /\ p \in DOMAIN hist => hist'[p] = hist[p]
                                  /\ Born(p)' = Born(p) /\ Wrong(p)' = Wrong(p)
  BY <1>1, MintMoves
<1>6. StageOf(m) = "unborn" /\ StageOf(m)' = "armed"
  BY <1>3, <1>5 DEF Staged
<1>7. Moved(m)
  BY <1>5, <1>6 DEF Moved, Lifecycle!Moves
<1>8. ASSUME NEW p \in Pins, p # m
      PROVE  StageOf(p)' = StageOf(p) \/ (StageOf(p) = "armed" /\ StageOf(p)' = "dead")
  <2>1. CASE Armed(p)
    <3>1. StageOf(p) = "armed" /\ p \in DOMAIN hist' /\ ~Armed(p)'
      BY <1>3, <1>5, <1>8, <2>1 DEF Staged
    <3>2. ~Issued(p)' /\ ~Live(p)'
      BY <1>4, <3>1 DEF Staged
    <3>3. ~Accepted(p)'
      BY <1>5, <1>8, <3>1 DEF Staged, Accepted
    <3> QED
      BY <3>1, <3>2, <3>3 DEF Staged
  <2>2. CASE ~Armed(p)
    BY <1>3, <1>4, <1>5, <1>8, <2>2, SameStage
  <2> QED
    BY <2>1, <2>2
<1>9. \A p \in Pins : Moved(p)
  BY <1>5, <1>7, <1>8, StaysPut
<1> QED
  BY <1>2, <1>8, <1>9, LifecycleStep

LEMMA TakeCodeLifecycle ==
  ASSUME PinInv, Staged, Staged', NEW t \in Threads, TakeCode(t)
  PROVE  Lifecycle!Step
<1>1. PICK c \in Code :
         /\ Carriers' = Carriers \cup {t} /\ t \notin Carriers
         /\ calls'[t].pin = {c} /\ \A u \in Carriers : calls'[u].pin = calls[u].pin
         /\ DOMAIN calls' = DOMAIN calls /\ \A u \in DOMAIN calls : calls'[u].now = calls[u].now
         /\ UNCHANGED <<clock, pending>> /\ prearmed' = {}
         /\ \/ c \in prearmed /\ UNCHANGED hist
            \/ Mint(c.code) /\ c.expires = calls[t].now + PinTTL
  BY TakeCodeMoves
<1>2. c.code \in Pins
  BY DEF Code
<1> DEFINE m == c.code
<1>3. \A p \in Pins : ~Armed(p)' /\ (Live(p)' <=> Live(p)) /\ (Issued(p)' <=> Issued(p) \/ p = m)
  BY <1>1 DEF Armed, Live, Issued
<1>4. CASE c \in prearmed /\ UNCHANGED hist
  <2>1. Armed(m) /\ \A p \in Pins : p # m => ~Armed(p)
    BY <1>4 DEF Armed, PinInv
  <2>2. StageOf(m) = "armed" /\ StageOf(m)' = "issued"
    BY <1>2, <1>3, <2>1 DEF Staged
  <2>3. \A p \in Pins : Born(p)' = Born(p) /\ Wrong(p)' = Wrong(p)
    BY <1>4 DEF Born, Wrong
  <2>4. Moved(m)
    BY <1>2, <2>2, <2>3 DEF Moved, Lifecycle!Moves
  <2>5. \A p \in Pins : p # m => StageOf(p)' = StageOf(p)
    BY <1>3, <1>4, <2>1, SameStage
  <2> HIDE DEF m
  <2>6. \A p \in Pins : Moved(p)
    BY <2>3, <2>4, <2>5, StaysPut
  <2> QED
    BY <1>1, <2>5, <2>6, LifecycleStep
<1>5. CASE Mint(m)
  <2>1. /\ m \notin DOMAIN hist /\ m \in DOMAIN hist' /\ Born(m)' = clock /\ Wrong(m) = 0 /\ Wrong(m)' = 0
        /\ \A p \in Pins : p # m => /\ p \in DOMAIN hist' <=> p \in DOMAIN hist
                                    /\ p \in DOMAIN hist => hist'[p] = hist[p]
                                    /\ Born(p)' = Born(p) /\ Wrong(p)' = Wrong(p)
    BY <1>2, <1>5, MintMoves
  <2>2. StageOf(m) = "unborn" /\ StageOf(m)' = "issued"
    BY <1>2, <1>3, <2>1 DEF Staged
  <2>3. Moved(m)
    BY <1>2, <2>1, <2>2 DEF Moved, Lifecycle!Moves
  <2> HIDE DEF m
  <2>4. ASSUME NEW p \in Pins, p # m
        PROVE  StageOf(p)' = StageOf(p) \/ (StageOf(p) = "armed" /\ StageOf(p)' = "dead")
    <3>1. CASE Armed(p)
      <4>1. StageOf(p) = "armed" /\ p \in DOMAIN hist' /\ ~Armed(p)'
        BY <1>3, <2>1, <2>4, <3>1 DEF Staged
      <4>2. ~Issued(p)' /\ ~Live(p)'
        BY <1>3, <2>4, <4>1 DEF Staged
      <4>3. ~Accepted(p)'
        BY <2>1, <2>4, <4>1 DEF Staged, Accepted
      <4> QED
        BY <4>1, <4>2, <4>3 DEF Staged
    <3>2. CASE ~Armed(p)
      BY <1>3, <2>1, <2>4, <3>2, SameStage
    <3> QED
      BY <3>1, <3>2
  <2>5. \A p \in Pins : Moved(p)
    BY <2>1, <2>3, <2>4, StaysPut
  <2> QED
    BY <1>1, <2>4, <2>5, LifecycleStep
<1> QED
  BY <1>1, <1>4, <1>5

LEMMA InsertLifecycle ==
  ASSUME PinInv, Staged, Staged', NEW t \in Threads, InsertPending(t)
  PROVE  Lifecycle!Step
<1>1. PICK c \in Code, d \in Devices :
         /\ t \in Carriers /\ Carriers' = Carriers \ {t}
         /\ c \in calls[t].pin /\ \A b \in calls[t].pin : b = c
         /\ \A u \in Carriers' : calls'[u].pin = calls[u].pin
         /\ DOMAIN calls' = DOMAIN calls /\ \A u \in DOMAIN calls : calls'[u].now = calls[u].now
         /\ UNCHANGED <<clock, prearmed, hist>>
         /\ DOMAIN pending' = DOMAIN pending \cup {d}
         /\ pending'[d].code = c.code /\ pending'[d].expires = c.expires
         /\ \A e \in DOMAIN pending : e # d => pending'[e] = pending[e]
  BY InsertMoves
<1> DEFINE m == c.code
<1>2. m \in Pins /\ Issued(m) /\ Live(m)'
  BY <1>1 DEF Code, Issued, Live
<1>3. \A p \in Pins : Born(p)' = Born(p) /\ Wrong(p)' = Wrong(p) /\ (Armed(p)' <=> Armed(p))
  BY <1>1 DEF Born, Wrong, Armed
<1>4. ASSUME NEW p \in Pins, p # m PROVE Issued(p)' <=> Issued(p)
  BY <1>1, <1>4 DEF Issued
<1>5. ASSUME NEW p \in Pins, p # m PROVE Live(p)' => Live(p)
  BY <1>1, <1>5 DEF Live
<1>6. StageOf(m) = "issued" /\ StageOf(m)' = "live" /\ Wrong(m)' < MaxAttempts /\ Wrong(m)' \in Nat
  BY <1>2 DEF Staged
<1> HIDE DEF m
<1>7. Moved(m)
  BY <1>2, <1>3, <1>6 DEF Moved, Lifecycle!Moves
<1>8. ASSUME NEW p \in Pins, p # m
      PROVE  StageOf(p)' = StageOf(p) \/ (StageOf(p) = "live" /\ StageOf(p)' = "dead")
  <2>1. CASE Live(p) /\ ~Live(p)'
    <3>1. StageOf(p) = "live" /\ p \in DOMAIN hist' /\ ~Issued(p)' /\ ~Armed(p)' /\ ~Accepted(p)'
      BY <1>1, <1>3, <1>4, <1>8, <2>1 DEF Staged, Accepted
    <3> QED
      BY <2>1, <3>1 DEF Staged
  <2>2. CASE Live(p)' <=> Live(p)
    BY <1>1, <1>3, <1>4, <1>8, <2>2, SameStage
  <2> QED
    BY <1>5, <1>8, <2>1, <2>2
<1>9. \A p \in Pins : Moved(p)
  BY <1>3, <1>7, <1>8, StaysPut
<1> QED
  BY <1>1, <1>8, <1>9, LifecycleStep

\* A pending PIN leaves, or stays with one more wrong guess; every other PIN stays put.
LEMMA ConfirmLifecycle ==
  ASSUME PinInv, Staged, Staged', clock' = clock, NEW d \in DOMAIN pending, UNCHANGED prearmed,
         NEW m \in Pins, m = pending[d].code, Moved(m),
         Carriers' = Carriers, \A u \in Carriers : calls'[u].pin = calls[u].pin,
         DOMAIN hist' = DOMAIN hist, \A q \in DOMAIN hist : q # m => hist'[q] = hist[q],
         DOMAIN pending' \in {DOMAIN pending, DOMAIN pending \ {d}},
         \A e \in DOMAIN pending' : pending'[e].code = pending[e].code
  PROVE  Lifecycle!Step
<1>1. \A p \in Pins : (Armed(p)' <=> Armed(p)) /\ (Issued(p)' <=> Issued(p))
  BY DEF Armed, Issued
<1>2. ASSUME NEW p \in Pins, p # m PROVE Live(p)' <=> Live(p)
  BY <1>2 DEF Live
<1>3. \A p \in Pins : p # m => Born(p)' = Born(p) /\ Wrong(p)' = Wrong(p)
  BY DEF Born, Wrong
<1>4. \A p \in Pins : p # m => StageOf(p)' = StageOf(p)
  BY <1>1, <1>2, SameStage
<1>5. \A p \in Pins : Moved(p)
  BY <1>3, <1>4, StaysPut
<1> QED
  BY <1>4, <1>5, LifecycleStep
LEMMA ConfirmExpiredLifecycle ==
  ASSUME PinInv, Staged, Staged', NEW t \in Threads, NEW d \in Devices, ConfirmExpired(t, d)
  PROVE  Lifecycle!Step
<1>0. PICK m : m = pending[d].code
  OBVIOUS
<1>1. /\ d \in DOMAIN pending /\ pending' = Drop(pending, d)
      /\ UNCHANGED <<clock, prearmed, calls, hist>>
  BY DEF ConfirmExpired
<1>2. DOMAIN pending' = DOMAIN pending \ {d} /\ \A e \in DOMAIN pending' : pending'[e] = pending[e]
  BY <1>0, <1>1 DEF Drop, Restrict
<1>3. m \in Pins /\ Live(m) /\ ~Live(m)'
  BY <1>0, <1>1, <1>2 DEF PinInv, PinHeldOnce, TypeOK, IsMap, Entry, Live
<1>4. Born(m)' = Born(m) /\ Wrong(m)' = Wrong(m)
  BY <1>0, <1>1 DEF Born, Wrong
<1>5. (Armed(m)' <=> Armed(m)) /\ (Issued(m)' <=> Issued(m)) /\ (Accepted(m)' <=> Accepted(m))
  BY <1>0, <1>1 DEF Armed, Issued, Carriers, Accepted
<1>6. StageOf(m) = "live" /\ StageOf(m)' = "dead"
  BY <1>0, <1>1, <1>3, <1>5 DEF Staged
<1>7. Moved(m)
  BY <1>0, <1>3, <1>4, <1>6, StaysPut
<1>8. Carriers' = Carriers /\ \A u \in Carriers : calls'[u].pin = calls[u].pin
  BY <1>0, <1>1 DEF Carriers
<1>9. UNCHANGED <<clock, prearmed, hist>> /\ \A e \in DOMAIN pending' : pending'[e].code = pending[e].code
  BY <1>1, <1>2
<1> QED
  BY <1>0, <1>1, <1>2, <1>3, <1>7, <1>8, <1>9, ConfirmLifecycle

\* The right guess is in time, for a code expires at most PinTTL after it was drawn.
LEMMA ConfirmRightLifecycle ==
  ASSUME PinInv, DeadlineInv, Staged, Staged',
         NEW t \in Threads, NEW d \in Devices, NEW g \in Pins, ConfirmRight(t, d, g)
  PROVE  Lifecycle!Step
<1>1. /\ d \in DOMAIN pending /\ g = pending[d].code /\ t \notin DOMAIN calls
      /\ pending' = Drop(pending, d) /\ UNCHANGED <<clock, prearmed>>
      /\ hist' = [hist EXCEPT ![g].paired = @ + 1]
      /\ ~Expired(pending[d], clock)
  BY DEF ConfirmRight, CanServe
<1>2. DOMAIN pending' = DOMAIN pending \ {d} /\ \A e \in DOMAIN pending' : pending'[e] = pending[e]
  BY <1>1 DEF Drop, Restrict
<1>3. Carriers' = Carriers /\ \A u \in Carriers : calls'[u].pin = calls[u].pin
  BY <1>1 DEF ConfirmRight, Put, Carriers
<1>4. /\ g \in DOMAIN hist /\ hist[g] \in Past /\ hist[g].paired = 0
      /\ pending[d] \in Entry /\ clock \in Nat
  BY <1>1 DEF PinInv, TypeOK, IsMap
<1>5. /\ DOMAIN hist' = DOMAIN hist
      /\ \A q \in DOMAIN hist : q # g => hist'[q] = hist[q]
      /\ hist'[g].wrong = hist[g].wrong /\ hist'[g].paired = 1 /\ hist'[g].born = hist[g].born
  BY <1>1, <1>4 DEF Past
<1>6. Born(g)' = Born(g) /\ Wrong(g)' = Wrong(g) /\ Accepted(g)' /\ Born(g) = hist[g].born
  BY <1>4, <1>5 DEF Born, Wrong, Accepted
<1>7. StageOf(g) = "live" /\ StageOf(g)' = "paired"
  BY <1>1, <1>6 DEF Staged, Live
<1>8. clock <= Born(g) + PinTTL
  <2> DEFINE c == [code |-> g, expires |-> pending[d].expires]
  <2>1. c \in Code /\ c.code = g /\ c.expires = pending[d].expires
    BY <1>4 DEF Code, Entry
  <2>2. Held(c)
    BY <1>1, <2>1 DEF Held
  <2> HIDE DEF c
  <2>3. c.expires <= hist[g].born + PinTTL
    BY <2>1, <2>2 DEF DeadlineInv, Timely
  <2>4. clock <= pending[d].expires /\ pending[d].expires \in Nat /\ hist[g].born \in Nat
    BY <1>1, <1>4 DEF Expired, Entry, Past
  <2> QED
    BY <1>4, <1>6, <2>1, <2>3, <2>4
<1>9. Wrong(g) < MaxAttempts /\ Wrong(g) \in Nat
  BY <1>1 DEF Staged, Live
<1>10. Moved(g)
  BY <1>6, <1>7, <1>8, <1>9 DEF Moved, Lifecycle!Moves
<1> QED
  BY <1>1, <1>2, <1>3, <1>5, <1>10, ConfirmLifecycle

\* The wrong guess that reaches MaxAttempts kills the PIN.
LEMMA ConfirmWrongLifecycle ==
  ASSUME PinInv, Staged, Staged', NEW t \in Threads, NEW d \in Devices, NEW g \in Pins, ConfirmWrong(t, d, g)
  PROVE  Lifecycle!Step
<1>0. PICK m : m = pending[d].code
  OBVIOUS
<1>1. /\ d \in DOMAIN pending /\ UNCHANGED <<clock, prearmed, calls>>
      /\ hist' = [hist EXCEPT ![m].wrong = @ + 1]
      /\ pending' = IF LockedOut(pending[d]) THEN Drop(pending, d)
                    ELSE Put(pending, d, Attempted(pending[d]))
  BY <1>0 DEF ConfirmWrong, WrongGuess
<1>2. /\ m \in Pins /\ m \in DOMAIN hist /\ hist[m] \in Past /\ pending[d] \in Entry
      /\ hist[m].wrong = pending[d].attempts /\ hist[m].paired = 0
  BY <1>0, <1>1 DEF PinInv, TypeOK, IsMap, Entry
<1>3. /\ DOMAIN hist' = DOMAIN hist
      /\ \A q \in DOMAIN hist : q # m => hist'[q] = hist[q]
      /\ hist'[m].wrong = hist[m].wrong + 1 /\ hist'[m].born = hist[m].born /\ hist'[m].paired = 0
  BY <1>0, <1>1, <1>2 DEF Past
<1>4. Born(m)' = Born(m) /\ Wrong(m)' = Wrong(m) + 1 /\ Wrong(m) = pending[d].attempts
  BY <1>0, <1>2, <1>3 DEF Born, Wrong
<1>5. Carriers' = Carriers /\ \A u \in Carriers : calls'[u].pin = calls[u].pin
  BY <1>0, <1>1 DEF Carriers
<1>6. /\ Attempted(pending[d]).code = m
      /\ LockedOut(pending[d]) <=> pending[d].attempts + 1 >= MaxAttempts
  BY <1>0, <1>2 DEF Attempted, LockedOut, Entry
<1>7. /\ DOMAIN pending' = IF LockedOut(pending[d]) THEN DOMAIN pending \ {d} ELSE DOMAIN pending
      /\ \A e \in DOMAIN pending' : pending'[e].code = pending[e].code
  BY <1>0, <1>1, <1>6 DEF Drop, Restrict, Put
<1>8. StageOf(m) = "live"
  BY <1>0, <1>1, <1>2 DEF Staged, Live
<1>9. (Armed(m)' <=> Armed(m)) /\ (Issued(m)' <=> Issued(m)) /\ ~Accepted(m)'
  BY <1>0, <1>1, <1>3, <1>5 DEF Armed, Issued, Accepted
<1>10. Live(m)' <=> ~LockedOut(pending[d])
  BY <1>0, <1>1, <1>7 DEF Live, PinInv, PinHeldOnce
<1>11. StageOf(m)' = IF LockedOut(pending[d]) THEN "dead" ELSE "live"
  BY <1>0, <1>2, <1>3, <1>8, <1>9, <1>10 DEF Staged
<1>12. Wrong(m) \in Nat /\ (Live(m)' => Wrong(m)' < MaxAttempts)
  BY <1>0, <1>2 DEF Staged
<1>13. Moved(m)
  BY <1>0, <1>4, <1>6, <1>8, <1>10, <1>11, <1>12 DEF Moved, Lifecycle!Moves
<1>14. UNCHANGED <<clock, prearmed>> /\ DOMAIN pending' \in {DOMAIN pending, DOMAIN pending \ {d}}
  BY <1>1, <1>7
<1> QED
  BY <1>0, <1>1, <1>2, <1>3, <1>5, <1>7, <1>13, <1>14, ConfirmLifecycle

\* The manager implements PinLifecycle: whatever the threads and the devices do, a PIN is
\* drawn once, is live for one requester at a time, is accepted at most once, in time and not
\* after MaxAttempts wrong guesses, and never comes back.
THEOREM ManagerImplementsLifecycle == Spec => ImplementsPinLifecycle
<1>1. Init => Lifecycle!Init
  <2>1. Init => \A p \in Pins : p \notin DOMAIN hist /\ ~Armed(p) /\ ~Issued(p) /\ ~Live(p)
    BY DEF Init, EmptyMap, Armed, Issued, Live, Carriers
  <2>2. Init => \A p \in Pins : StageOf(p) = "unborn"
    BY <2>1 DEF StageOf
  <2> QED
    BY <2>1, <2>2 DEF Init, Lifecycle!Init
<1>2. ASSUME PinInv, DeadlineInv, Staged, Staged', [Next]_vars
      PROVE  [Lifecycle!Next]_(Lifecycle!pvars)
  <2>1. ASSUME UNCHANGED <<pending, prearmed, hist>>, Carriers' = Carriers,
               \A u \in Carriers : calls'[u].pin = calls[u].pin
        PROVE  UNCHANGED << [p \in Pins |-> StageOf(p)],
                            [p \in Pins |-> IF p \in DOMAIN hist THEN hist[p].born ELSE 0],
                            [p \in Pins |-> IF p \in DOMAIN hist THEN hist[p].wrong ELSE 0] >>
    <3>1. \A p \in Pins : (Armed(p)' <=> Armed(p)) /\ (Issued(p)' <=> Issued(p)) /\ (Live(p)' <=> Live(p))
      BY <2>1 DEF Armed, Issued, Live
    <3>2. \A p \in Pins : StageOf(p)' = StageOf(p)
      BY <1>2, <2>1, <3>1, SameStage
    <3> QED
      BY <2>1, <3>2
  <2>2. CASE Tick
    <3>1. UNCHANGED <<pending, prearmed, calls, hist>> /\ clock' = clock + 1
      BY <2>2 DEF Tick
    <3> QED
      BY <2>1, <3>1 DEF Carriers, Lifecycle!Next, Lifecycle!Tick
  <2>3. CASE UNCHANGED vars
    <3>1. UNCHANGED <<clock, pending, prearmed, calls, hist>>
      BY <2>3 DEF vars
    <3> QED
      BY <2>1, <3>1 DEF Carriers, Lifecycle!pvars
  <2>4. CASE PreArm
    BY <1>2, <2>4, PreArmLifecycle DEF Lifecycle!Next
  <2>5. ASSUME NEW t \in Threads, ThreadStep(t) PROVE [Lifecycle!Next]_(Lifecycle!pvars)
    <3>1. CASE (\E d \in Devices : BeginPair(t, d)) \/ CheckPending(t) \/ CheckCooldown(t) \/ Notify(t)
                 \/ ClearCooldown(t) \/ Announce(t)
      <4>1. /\ UNCHANGED <<clock, pending, prearmed, hist>>
            /\ Carriers' = Carriers /\ \A u \in Carriers : calls'[u].pin = calls[u].pin
        BY <1>2, <3>1, QuietCarriers DEF PinInv
      <4> QED
        BY <2>1, <4>1 DEF Lifecycle!pvars
    <3>2. CASE TakeCode(t) \/ InsertPending(t)
      BY <1>2, <3>2, TakeCodeLifecycle, InsertLifecycle DEF Lifecycle!Next
    <3>3. CASE \/ \E d \in Devices : ConfirmExpired(t, d)
               \/ \E d \in Devices, g \in Pins : ConfirmRight(t, d, g) \/ ConfirmWrong(t, d, g)
      BY <1>2, <3>3, ConfirmExpiredLifecycle, ConfirmRightLifecycle, ConfirmWrongLifecycle
      DEF Lifecycle!Next
    <3> QED
      BY <2>5, <3>1, <3>2, <3>3 DEF ThreadStep
  <2> QED
    BY <1>2, <2>2, <2>3, <2>4, <2>5 DEF Next
<1>3. PinInv => Staged
  BY StagedByPlace
<1>4. PinInv /\ DeadlineInv /\ Staged /\ Staged' /\ [Next]_vars => [Lifecycle!Next]_(Lifecycle!pvars)
  BY <1>2
<1> QED
  BY <1>1, <1>3, <1>4, PinInvariant, DeadlineAlways, PTL DEF Spec, ImplementsPinLifecycle, Lifecycle!Spec
-----------------------------------------------------------------------------
(* The dialog: the PIN on screen is the one that confirm checks. *)

Message == [kind : {"requested"}, req : Request] \cup [kind : {"completed"}, dev : Devices]

\* The places of d's requests in the manager's channel and in the event stream.
InChannel(q, d) == {i \in DOMAIN q : q[i].dev = d}
InStream(b, d) == {i \in DOMAIN b : b[i].kind = "requested" /\ b[i].req.dev = d}

\* The newest request of d that is anywhere on its way, or shown, has the code c.
Newest(q, b, shown, d, c) ==
  /\ \A i \in InChannel(q, d) : (\A j \in InChannel(q, d) : j <= i) => q[i].code = c
  /\ InChannel(q, d) = {} =>
       \A i \in InStream(b, d) : (\A j \in InStream(b, d) : j <= i) => b[i].req.code = c
  /\ InChannel(q, d) = {} /\ InStream(b, d) = {} => \A r \in shown : r.dev = d => r.code = c

\* The calls that are about to announce the code they made pending.
Announcers == {t \in DOMAIN calls : calls[t].pc = "notify"}

AnnouncedIsPending ==
  \A t \in Announcers :
    calls[t].dev \in DOMAIN pending =>
      \A c \in calls[t].pin : pending[calls[t].dev].code = c.code
PendingIsAnnounced ==
  \A d \in DOMAIN pending :
    \/ \E t \in Announcers : calls[t].dev = d
    \/ pending[d].code \in missed
    \/ Newest(requested, inbox, prompt, d, pending[d].code)

DialogInv ==
  /\ SerialInv /\ PinInv
  /\ inbox \in Seq(Message)
  /\ AnnouncedIsPending /\ PendingIsAnnounced
-----------------------------------------------------------------------------
(* The two sequences, one step at a time. *)

\* What is published of d last is the newest of d.
LEMMA PublishedIsNewest ==
  ASSUME NEW q \in Seq(Request), NEW m \in Request, NEW b, NEW shown
  PROVE  Newest(Append(q, m), b, shown, m.dev, m.code)
<1> DEFINE r == Append(q, m)
<1>1. Len(q) + 1 \in InChannel(r, m.dev) /\ r[Len(q) + 1] = m
  BY AppendPlaces DEF InChannel
<1>2. \A i \in InChannel(r, m.dev) : Len(q) + 1 <= i => i = Len(q) + 1
  BY AppendPlaces DEF InChannel
<1> HIDE DEF r
<1>3. Newest(r, b, shown, m.dev, m.code)
  BY <1>1, <1>2 DEF Newest
<1> QED
  BY <1>3 DEF r

\* What is published of another requester changes nothing for d.
LEMMA PublishOther ==
  ASSUME NEW q \in Seq(Request), NEW m \in Request, NEW b, NEW shown, NEW d, NEW c,
         m.dev # d, Newest(q, b, shown, d, c)
  PROVE  Newest(Append(q, m), b, shown, d, c)
<1>1. InChannel(Append(q, m), d) = InChannel(q, d)
  BY AppendPlaces DEF InChannel
<1>2. \A i \in InChannel(q, d) : Append(q, m)[i] = q[i]
  BY AppendPlaces DEF InChannel
<1> QED
  BY <1>1, <1>2 DEF Newest

\* Dropping the oldest message of the channel keeps the newest of d, unless it was that one.
LEMMA DropOldest ==
  ASSUME NEW q \in Seq(Request), q # <<>>, NEW b, NEW shown, NEW d, NEW c,
         Newest(q, b, shown, d, c)
  PROVE  /\ Head(q).dev # d \/ InChannel(Tail(q), d) # {} => Newest(Tail(q), b, shown, d, c)
         /\ Head(q).dev = d /\ InChannel(Tail(q), d) = {} => Head(q).code = c
<1> DEFINE r == Tail(q)
<1>1. /\ \A i \in InChannel(r, d) : i \in Nat /\ i + 1 \in InChannel(q, d) /\ r[i] = q[i + 1]
      /\ \A i \in InChannel(q, d) : i \in Nat /\ (i = 1 \/ i - 1 \in InChannel(r, d))
  BY TailPlaces DEF InChannel
<1>2. Head(q) = q[1] /\ (Head(q).dev = d <=> 1 \in InChannel(q, d))
  BY TailPlaces DEF InChannel
<1> HIDE DEF r
<1>3. ASSUME NEW i \in InChannel(r, d), \A j \in InChannel(r, d) : j <= i
      PROVE  r[i].code = c
  <2>1. \A j \in InChannel(q, d) : j <= i + 1
    BY <1>1, <1>3
  <2> QED
    BY <1>1, <1>3, <2>1 DEF Newest
<1>4. Head(q).dev # d /\ InChannel(r, d) = {} => InChannel(q, d) = {}
  BY <1>1, <1>2
<1>5. Head(q).dev # d \/ InChannel(r, d) # {} => Newest(r, b, shown, d, c)
  BY <1>3, <1>4 DEF Newest
<1>6. Head(q).dev = d /\ InChannel(r, d) = {} => Head(q).code = c
  <2> SUFFICES ASSUME Head(q).dev = d, InChannel(r, d) = {} PROVE Head(q).code = c
    OBVIOUS
  <2>1. 1 \in InChannel(q, d) /\ \A j \in InChannel(q, d) : j <= 1
    BY <1>1, <1>2
  <2> QED
    BY <1>2, <2>1 DEF Newest
<1> QED
  BY <1>5, <1>6 DEF r
\* A message of the stream that asks nothing for d changes nothing for d.
LEMMA StreamOther ==
  ASSUME NEW q, NEW b \in Seq(Message), NEW m \in Message, NEW shown, NEW d, NEW c,
         ~(m.kind = "requested" /\ m.req.dev = d), Newest(q, b, shown, d, c)
  PROVE  Newest(q, Append(b, m), shown, d, c)
<1>1. InStream(Append(b, m), d) = InStream(b, d)
  BY AppendPlaces DEF InStream
<1>2. \A i \in InStream(b, d) : Append(b, m)[i] = b[i]
  BY AppendPlaces DEF InStream
<1> QED
  BY <1>1, <1>2 DEF Newest

\* The task that forwards a request moves the oldest of the channel behind the stream.
LEMMA ForwardKeeps ==
  ASSUME NEW q \in Seq(Request), q # <<>>, NEW b \in Seq(Message), NEW shown, NEW d, NEW c,
         Newest(q, b, shown, d, c)
  PROVE  Newest(Tail(q), Append(b, [kind |-> "requested", req |-> Head(q)]), shown, d, c)
<1> DEFINE m == [kind |-> "requested", req |-> Head(q)]
           s == Append(b, m)
<1>1. Head(q) \in Request /\ m \in Message
  BY TailPlaces DEF Message
<1>2. m.kind = "requested" /\ m.req = Head(q)
  OBVIOUS
<1> HIDE DEF m
<1>3. CASE Head(q).dev # d
  <2>1. Newest(Tail(q), b, shown, d, c)
    BY <1>3, DropOldest
  <2>2. ~(m.kind = "requested" /\ m.req.dev = d)
    BY <1>2, <1>3
  <2> QED
    BY <1>1, <2>1, <2>2, StreamOther DEF m
<1>4. CASE Head(q).dev = d /\ InChannel(Tail(q), d) # {}
  <2>1. Newest(Tail(q), b, shown, d, c)
    BY <1>4, DropOldest
  <2> QED
    BY <1>4, <2>1 DEF Newest
<1>5. CASE Head(q).dev = d /\ InChannel(Tail(q), d) = {}
  <2>1. Head(q).code = c
    BY <1>5, DropOldest
  <2>2. Len(b) + 1 \in InStream(s, d) /\ s[Len(b) + 1] = m
    BY <1>1, <1>2, <1>5, AppendPlaces DEF InStream
  <2>3. \A i \in InStream(s, d) : Len(b) + 1 <= i => i = Len(b) + 1
    BY <1>1, AppendPlaces DEF InStream
  <2> HIDE DEF s
  <2>4. Newest(Tail(q), s, shown, d, c)
    BY <1>2, <1>5, <2>1, <2>2, <2>3 DEF Newest
  <2> QED
    BY <2>4 DEF s, m
<1> QED
  BY <1>3, <1>4, <1>5

\* The webview takes the oldest event of the stream: a request replaces what is shown.
LEMMA DeliverKeeps ==
  ASSUME NEW q, NEW b \in Seq(Message), b # <<>>, NEW shown, NEW d, NEW c,
         Newest(q, b, shown, d, c)
  PROVE  /\ Head(b).kind = "requested" => Newest(q, Tail(b), {Head(b).req}, d, c)
         /\ Head(b).kind # "requested" => Newest(q, Tail(b), shown, d, c)
<1> DEFINE r == Tail(b)
<1>1. /\ \A i \in InStream(r, d) : i \in Nat /\ i + 1 \in InStream(b, d) /\ r[i] = b[i + 1]
      /\ \A i \in InStream(b, d) : i \in Nat /\ (i = 1 \/ i - 1 \in InStream(r, d))
  BY TailPlaces DEF InStream
<1>2. Head(b) = b[1] /\ (Head(b).kind = "requested" /\ Head(b).req.dev = d <=> 1 \in InStream(b, d))
  BY TailPlaces DEF InStream
<1> HIDE DEF r
<1>3. ASSUME InChannel(q, d) = {}, NEW i \in InStream(r, d), \A j \in InStream(r, d) : j <= i
      PROVE  r[i].req.code = c
  <2>1. \A j \in InStream(b, d) : j <= i + 1
    BY <1>1, <1>3
  <2> QED
    BY <1>1, <1>3, <2>1 DEF Newest
<1>4. CASE Head(b).kind = "requested"
  <2>1. ASSUME InChannel(q, d) = {}, InStream(r, d) = {}, Head(b).req.dev = d
        PROVE  Head(b).req.code = c
    <3>1. 1 \in InStream(b, d) /\ \A j \in InStream(b, d) : j <= 1
      BY <1>1, <1>2, <1>4, <2>1
    <3> QED
      BY <1>2, <2>1, <3>1 DEF Newest
  <2>2. Newest(q, r, {Head(b).req}, d, c)
    BY <1>3, <2>1 DEF Newest
  <2> QED
    BY <1>4, <2>2 DEF r
<1>5. CASE Head(b).kind # "requested"
  <2>1. InStream(r, d) = {} => InStream(b, d) = {}
    BY <1>1, <1>2, <1>5
  <2>2. Newest(q, r, shown, d, c)
    BY <1>3, <2>1 DEF Newest
  <2> QED
    BY <1>5, <2>2 DEF r
<1> QED
  BY <1>4, <1>5

\* Closing the dialog shows nothing.
LEMMA DismissKeeps ==
  ASSUME NEW q, NEW b, NEW shown, NEW d, NEW c, Newest(q, b, shown, d, c)
  PROVE  Newest(q, b, {}, d, c)
BY DEF Newest
-----------------------------------------------------------------------------
(* What is shown is what confirm checks: the manager's steps. *)

\* A step that makes nothing pending, announces nothing and moves no message.
LEMMA AnnounceFrame ==
  ASSUME AnnouncedIsPending, PendingIsAnnounced,
         UNCHANGED <<requested, inbox, prompt>>, missed \subseteq missed',
         \A d \in DOMAIN pending' : d \in DOMAIN pending /\ pending'[d].code = pending[d].code,
         Announcers' = Announcers,
         \A u \in Announcers : calls'[u].dev = calls[u].dev /\ calls'[u].pin = calls[u].pin
  PROVE  AnnouncedIsPending' /\ PendingIsAnnounced'
<1>1. AnnouncedIsPending'
  BY DEF AnnouncedIsPending
<1>2. ASSUME NEW d \in DOMAIN pending'
      PROVE  \/ \E t \in Announcers' : calls'[t].dev = d
             \/ pending'[d].code \in missed'
             \/ Newest(requested', inbox', prompt', d, pending'[d].code)
  <2>1. d \in DOMAIN pending /\ pending'[d].code = pending[d].code
    BY <1>2
  <2>2. CASE Newest(requested, inbox, prompt, d, pending[d].code)
    BY <2>1, <2>2 DEF Newest, InChannel, InStream
  <2>3. CASE \E t \in Announcers : calls[t].dev = d
    BY <2>3
  <2>4. CASE pending[d].code \in missed
    BY <2>1, <2>4
  <2> QED
    BY <2>1, <2>2, <2>3, <2>4 DEF PendingIsAnnounced
<1> QED
  BY <1>1, <1>2 DEF PendingIsAnnounced

\* The steps of a call that is not about to announce, and is not after the step.
LEMMA AnnouncersStay ==
  ASSUME TypeOK, NEW t \in Threads,
         (\E d \in Devices : BeginPair(t, d)) \/ CheckPending(t) \/ CheckCooldown(t) \/ TakeCode(t)
           \/ (\E d \in Devices, g \in Pins : ConfirmRight(t, d, g)) \/ ClearCooldown(t) \/ Announce(t)
  PROVE  Announcers' = Announcers /\ \A u \in Announcers : calls'[u] = calls[u]
<1> DEFINE Kept == Announcers' = Announcers /\ \A u \in Announcers : calls'[u] = calls[u]
<1>1. ASSUME NEW pc \in Step, Goto(t, pc), t \in DOMAIN calls, pc # "notify", calls[t].pc # "notify" PROVE Kept
  <2>1. /\ DOMAIN calls' = DOMAIN calls
        /\ calls'[t] = [calls[t] EXCEPT !.pc = pc]
        /\ \A u \in DOMAIN calls : u # t => calls'[u] = calls[u]
    BY <1>1, GotoType
  <2>2. calls[t] \in Call
    BY <1>1 DEF TypeOK, IsMap
  <2>3. calls'[t].pc # "notify"
    BY <1>1, <2>1, <2>2 DEF Call
  <2> QED
    BY <1>1, <2>1, <2>3 DEF Announcers
<1>2. ASSUME Return(t), t \in DOMAIN calls, calls[t].pc # "notify" PROVE Kept
  <2>1. DOMAIN calls' = DOMAIN calls \ {t} /\ \A u \in DOMAIN calls : u # t => calls'[u] = calls[u]
    BY <1>2, ReturnType
  <2> QED
    BY <1>2, <2>1 DEF Announcers
<1>3. ASSUME NEW c, t \notin DOMAIN calls, calls' = Put(calls, t, c), c.pc # "notify" PROVE Kept
  <2>1. /\ DOMAIN calls' = DOMAIN calls \cup {t} /\ calls'[t] = c
        /\ \A u \in DOMAIN calls : calls'[u] = calls[u]
    BY <1>3 DEF Put
  <2> QED
    BY <1>3, <2>1 DEF Announcers
<1>4. CASE \E d \in Devices : BeginPair(t, d)
  BY <1>4, <1>3 DEF BeginPair, CanServe
<1>5. CASE CheckPending(t)
  BY <1>5, <1>1, <1>2 DEF CheckPending, At, Step
<1>6. CASE CheckCooldown(t)
  BY <1>6, <1>1, <1>2 DEF CheckCooldown, At, Step
<1>7. CASE TakeCode(t)
  <2>1. t \in DOMAIN calls /\ calls[t].pc = "takeCode" /\ calls[t] \in Call
    BY <1>7 DEF TakeCode, TakeCodeLeaving, At, TypeOK, IsMap
  <2>2. PICK x : calls' = [calls EXCEPT ![t].pc = "insert", ![t].pin = x]
    BY <1>7 DEF TakeCode, TakeCodeLeaving
  <2>3. /\ DOMAIN calls' = DOMAIN calls /\ calls'[t].pc = "insert"
        /\ \A u \in DOMAIN calls : u # t => calls'[u] = calls[u]
    BY <2>1, <2>2 DEF Call
  <2> QED
    BY <2>1, <2>3 DEF Announcers
<1>8. CASE \E d \in Devices, g \in Pins : ConfirmRight(t, d, g)
  <2>1. PICK d \in Devices, g \in Pins : ConfirmRight(t, d, g)
    BY <1>8
  <2>2. /\ t \notin DOMAIN calls
        /\ calls' = Put(calls, t, [pc |-> "clearCooldown", dev |-> d, now |-> clock, pin |-> {}])
    BY <2>1 DEF ConfirmRight, CanServe
  <2> QED
    BY <2>2, <1>3
<1>9. CASE ClearCooldown(t)
  BY <1>9, <1>1 DEF ClearCooldown, At, Step
<1>10. CASE Announce(t)
  BY <1>10, <1>2 DEF Announce, At
<1> QED
  BY <1>4, <1>5, <1>6, <1>7, <1>8, <1>9, <1>10

\* A requester's code becomes pending: its announcement is still to come.
LEMMA InsertAnnounces ==
  ASSUME SerialInv, PinInv, AnnouncedIsPending, PendingIsAnnounced, NEW t \in Threads, InsertPending(t),
         UNCHANGED <<inbox, prompt, missed>>
  PROVE  AnnouncedIsPending' /\ PendingIsAnnounced'
<1> DEFINE d == calls[t].dev
<1>1. t \in Carriers /\ calls[t] \in Call /\ UNCHANGED requested
  BY DEF InsertPending, At, Carriers, PinInv, TypeOK, IsMap
<1>2. PICK c \in calls[t].pin :
         pending' = Put(pending, d, [code |-> c.code, expires |-> c.expires, attempts |-> 0])
  BY DEF InsertPending
<1>3. /\ DOMAIN calls' = DOMAIN calls
      /\ calls'[t] = [calls[t] EXCEPT !.pc = "notify"]
      /\ \A u \in DOMAIN calls : u # t => calls'[u] = calls[u]
  BY <1>1, GotoType DEF InsertPending, PinInv, Carriers, Step
<1>4. calls'[t].pc = "notify" /\ calls'[t].dev = calls[t].dev /\ calls'[t].pin = calls[t].pin
  BY <1>1, <1>3 DEF Call
<1>5. Announcers' = Announcers \cup {t}
  BY <1>1, <1>3, <1>4 DEF Announcers, Carriers
<1>6. /\ DOMAIN pending' = DOMAIN pending \cup {d}
      /\ pending'[d] = [code |-> c.code, expires |-> c.expires, attempts |-> 0]
      /\ \A e \in DOMAIN pending : e # d => pending'[e] = pending[e]
  BY <1>2 DEF Put
<1>7. \A b \in calls[t].pin : b.code = pending'[d].code
  BY <1>1, <1>2, <1>6 DEF PinInv
<1>8. \A u \in DOMAIN calls : u # t => calls[u].dev # d
  BY <1>1 DEF SerialInv, Carriers
<1>9. AnnouncedIsPending'
  <2> SUFFICES ASSUME NEW u \in Announcers', calls'[u].dev \in DOMAIN pending', NEW b \in calls'[u].pin
               PROVE  pending'[calls'[u].dev].code = b.code
    BY DEF AnnouncedIsPending
  <2>1. CASE u = t
    BY <1>4, <1>7, <2>1
  <2>2. CASE u # t
    <3>1. u \in Announcers /\ u \in DOMAIN calls /\ calls'[u] = calls[u] /\ calls[u].dev # d
      BY <1>3, <1>5, <1>8, <2>2 DEF Announcers
    <3> QED
      BY <1>6, <3>1 DEF AnnouncedIsPending
  <2> QED
    BY <2>1, <2>2
<1>10. ASSUME NEW e \in DOMAIN pending'
       PROVE  \/ \E u \in Announcers' : calls'[u].dev = e
              \/ pending'[e].code \in missed'
              \/ Newest(requested', inbox', prompt', e, pending'[e].code)
  <2>1. CASE e = d
    BY <1>4, <1>5, <2>1
  <2>2. CASE e # d
    <3>1. e \in DOMAIN pending /\ pending'[e] = pending[e]
      BY <1>6, <1>10, <2>2
    <3>2. CASE \E u \in Announcers : calls[u].dev = e
      BY <1>3, <1>4, <1>5, <3>2 DEF Announcers
    <3>3. CASE Newest(requested, inbox, prompt, e, pending[e].code)
      BY <1>1, <3>1, <3>3 DEF Newest, InChannel, InStream
    <3> QED
      BY <3>1, <3>2, <3>3 DEF PendingIsAnnounced
  <2> QED
    BY <2>1, <2>2
<1> QED
  BY <1>9, <1>10 DEF PendingIsAnnounced
\* The announcement: its message is the newest of the requester; a full channel drops
\* the oldest, which may be the newest of another requester.
LEMMA NotifyAnnounces ==
  ASSUME SerialInv, PinInv, AnnouncedIsPending, PendingIsAnnounced, NEW t \in Threads, Notify(t),
         UNCHANGED <<inbox, prompt>>,
         missed' = missed \cup {m.code : m \in Range(requested) \ Range(requested')}
  PROVE  AnnouncedIsPending' /\ PendingIsAnnounced'
<1> DEFINE d == calls[t].dev
           kept == IF Len(requested) < ChannelCap THEN requested ELSE Tail(requested)
<1>1. t \in Announcers /\ calls[t] \in Call /\ requested \in Seq(Request) /\ UNCHANGED pending
  BY DEF Notify, At, Announcers, PinInv, TypeOK, IsMap, Request
<1>2. PICK c \in calls[t].pin : requested' = Append(kept, [dev |-> d, code |-> c.code])
  BY DEF Notify, Publish
<1>3. DOMAIN calls' = DOMAIN calls \ {t} /\ \A u \in DOMAIN calls : u # t => calls'[u] = calls[u]
  <2>1. TypeOK /\ Return(t)
    BY DEF Notify, PinInv
  <2> QED
    BY <2>1, ReturnType
<1>4. Announcers' = Announcers \ {t}
  BY <1>3 DEF Announcers
<1>5. AnnouncedIsPending'
  BY <1>1, <1>3, <1>4 DEF AnnouncedIsPending, Announcers
<1>6. [dev |-> d, code |-> c.code] \in Request
  BY <1>1 DEF Call, Code, Request
<1>7. /\ kept \in Seq(Request)
      /\ kept # requested => requested # <<>> /\ kept = Tail(requested)
  <2>1. CASE Len(requested) < ChannelCap
    BY <1>1, <2>1
  <2>2. CASE ~(Len(requested) < ChannelCap)
    <3>1. requested # <<>>
      BY <1>1, <2>2
    <3> QED
      BY <1>1, <2>2, <3>1
  <2> QED
    BY <2>1, <2>2
<1> HIDE DEF kept
<1>8. ASSUME NEW e \in DOMAIN pending', e # d
      PROVE  \/ \E u \in Announcers' : calls'[u].dev = e
             \/ pending'[e].code \in missed'
             \/ Newest(requested', inbox', prompt', e, pending'[e].code)
  <2>1. e \in DOMAIN pending /\ pending'[e] = pending[e] /\ missed \subseteq missed'
    BY <1>1, <1>8
  <2>2. CASE \E u \in Announcers : calls[u].dev = e
    BY <1>3, <1>4, <1>8, <2>2 DEF Announcers
  <2>3. CASE Newest(requested, inbox, prompt, e, pending[e].code)
    <3>1. CASE Newest(kept, inbox, prompt, e, pending[e].code)
      BY <1>2, <1>6, <1>7, <1>8, <2>1, <3>1, PublishOther
    <3>2. CASE kept # requested /\ Head(requested).dev = e /\ InChannel(Tail(requested), e) = {}
      <4>1. Head(requested) \in Range(requested) /\ Head(requested).code = pending[e].code
        BY <1>1, <1>7, <2>3, <3>2, DropOldest, TailPlaces DEF Range
      <4>2. ASSUME Head(requested) \in Range(requested') PROVE FALSE
        <5>1. PICK i \in DOMAIN requested' : requested'[i] = Head(requested)
          BY <4>2 DEF Range
        <5>2. i = Len(kept) + 1 \/ (i \in DOMAIN kept /\ requested'[i] = kept[i])
          BY <1>2, <1>6, <1>7, <5>1, AppendPlaces
        <5>3. requested'[Len(kept) + 1].dev = d
          BY <1>2, <1>6, <1>7, AppendPlaces
        <5>4. i \in InChannel(Tail(requested), e)
          BY <1>7, <1>8, <3>2, <5>1, <5>2, <5>3 DEF InChannel
        <5> QED
          BY <3>2, <5>4
      <4> QED
        BY <2>1, <4>1, <4>2
    <3>3. CASE kept = requested
      BY <2>3, <3>1, <3>3
    <3>4. CASE kept # requested /\ (Head(requested).dev # e \/ InChannel(Tail(requested), e) # {})
      <4>1. Newest(Tail(requested), inbox, prompt, e, pending[e].code)
        BY <1>1, <1>7, <2>3, <3>4, DropOldest
      <4> QED
        BY <1>7, <3>1, <3>4, <4>1
    <3> QED
      BY <3>2, <3>3, <3>4
  <2> QED
    BY <2>1, <2>2, <2>3 DEF PendingIsAnnounced
<1>9. ASSUME d \in DOMAIN pending' PROVE Newest(requested', inbox', prompt', d, pending'[d].code)
  <2>1. pending'[d].code = c.code
    BY <1>1, <1>2, <1>9 DEF AnnouncedIsPending
  <2>2. Newest(requested', inbox', prompt', d, c.code)
    BY <1>2, <1>6, <1>7, PublishedIsNewest
  <2> QED
    BY <2>1, <2>2
<1> QED
  BY <1>5, <1>8, <1>9 DEF PendingIsAnnounced

\* No step of the manager makes the dialog lie.
LEMMA ManagerAnnounces ==
  ASSUME SerialInv, PinInv, AnnouncedIsPending, PendingIsAnnounced, ManagerStep
  PROVE  AnnouncedIsPending' /\ PendingIsAnnounced'
<1>1. /\ UNCHANGED <<inbox, prompt>> /\ missed \subseteq missed'
      /\ missed' = missed \cup {m.code : m \in Range(requested) \ Range(requested')}
  BY DEF ManagerStep
<1>2. requested' = requested => missed' = missed
  BY <1>1
<1>3. CASE PreArm \/ Tick
  BY <1>1, <1>3, AnnounceFrame DEF PreArm, Tick, Announcers
<1>4. ASSUME NEW t \in Threads, ThreadStep(t) PROVE AnnouncedIsPending' /\ PendingIsAnnounced'
  <2>1. CASE \/ (\E d \in Devices : BeginPair(t, d)) \/ CheckPending(t) \/ CheckCooldown(t) \/ TakeCode(t)
             \/ ClearCooldown(t) \/ Announce(t)
    <3>1. Announcers' = Announcers /\ \A u \in Announcers : calls'[u] = calls[u]
      BY <2>1, AnnouncersStay DEF PinInv
    <3>2. UNCHANGED <<pending, requested>>
      BY <2>1 DEF BeginPair, CheckPending, CheckCooldown, TakeCode, TakeCodeLeaving, ClearCooldown, Announce
    <3> QED
      BY <1>1, <3>1, <3>2, AnnounceFrame
  <2>2. ASSUME NEW d \in Devices, NEW g \in Pins, ConfirmRight(t, d, g)
        PROVE  AnnouncedIsPending' /\ PendingIsAnnounced'
    <3>1. Announcers' = Announcers /\ \A u \in Announcers : calls'[u] = calls[u]
      BY <2>2, AnnouncersStay DEF PinInv
    <3>2. \A e \in DOMAIN pending' : e \in DOMAIN pending /\ pending'[e].code = pending[e].code
      BY <2>2 DEF ConfirmRight, Drop, Restrict
    <3> QED
      BY <1>1, <2>2, <3>1, <3>2, AnnounceFrame DEF ConfirmRight
  <2>3. ASSUME NEW d \in Devices, ConfirmExpired(t, d) PROVE AnnouncedIsPending' /\ PendingIsAnnounced'
    <3>1. \A e \in DOMAIN pending' : e \in DOMAIN pending /\ pending'[e].code = pending[e].code
      BY <2>3 DEF ConfirmExpired, Drop, Restrict
    <3> QED
      BY <1>1, <2>3, <3>1, AnnounceFrame DEF ConfirmExpired, Announcers
  <2>4. ASSUME NEW d \in Devices, NEW g \in Pins, ConfirmWrong(t, d, g)
        PROVE  AnnouncedIsPending' /\ PendingIsAnnounced'
    <3>1. d \in DOMAIN pending /\ pending[d] \in Entry /\ UNCHANGED <<calls, requested>>
      BY <2>4 DEF ConfirmWrong, WrongGuess, PinInv, TypeOK, IsMap
    <3>2. Attempted(pending[d]).code = pending[d].code
      BY <3>1 DEF Attempted, Entry
    <3>3. \A e \in DOMAIN pending' : e \in DOMAIN pending /\ pending'[e].code = pending[e].code
      BY <2>4, <3>1, <3>2 DEF ConfirmWrong, WrongGuess, Drop, Restrict, Put
    <3> QED
      BY <1>1, <3>1, <3>3, AnnounceFrame DEF Announcers
  <2>5. CASE InsertPending(t)
    <3>1. missed' = missed
      BY <1>2, <2>5 DEF InsertPending
    <3> QED
      BY <1>1, <2>5, <3>1, InsertAnnounces
  <2>6. CASE Notify(t)
    BY <1>1, <2>6, NotifyAnnounces
  <2> QED
    BY <1>4, <2>1, <2>2, <2>3, <2>4, <2>5, <2>6 DEF ThreadStep
<1> QED
  BY <1>3, <1>4 DEF ManagerStep, Next
-----------------------------------------------------------------------------
(* What is shown is what confirm checks: the steps of the stream and of the dialog. *)

\* These steps leave the manager's maps alone.
LEMMA UiFrame ==
  ASSUME SerialInv, PinInv, UiNext
  PROVE  /\ TypeOK' /\ SerialInv' /\ PinInv'
         /\ UNCHANGED <<pending, calls, missed>>
<1>1. UNCHANGED <<clock, pending, lastCreated, prearmed, calls, hist, missed>>
  BY DEF UiNext, ForwardRequested, ForwardCompleted, DeliverRequested, DeliverCompleted, CloseTimer,
         UserDismiss, DismissPrompt, vars
<1>2. requested' \in Seq([dev : Devices, code : Pins]) /\ completed' \in Seq(Devices)
  <2>1. requested \in Seq([dev : Devices, code : Pins]) /\ completed \in Seq(Devices)
    BY DEF PinInv, TypeOK
  <2>2. requested' = requested \/ (requested # <<>> /\ requested' = Tail(requested))
    BY DEF UiNext, ForwardRequested, ForwardCompleted, DeliverRequested, DeliverCompleted, CloseTimer,
           UserDismiss, DismissPrompt, vars
  <2>3. completed' = completed \/ (completed # <<>> /\ completed' = Tail(completed))
    BY DEF UiNext, ForwardRequested, ForwardCompleted, DeliverRequested, DeliverCompleted, CloseTimer,
           UserDismiss, DismissPrompt, vars
  <2>4. requested' \in Seq([dev : Devices, code : Pins])
    <3> DEFINE X == [dev : Devices, code : Pins]
    <3> HIDE DEF X
    <3>1. requested \in Seq(X)
      BY <2>1 DEF X
    <3>2. requested' \in Seq(X)
      BY <2>2, <3>1, TailPlaces
    <3> QED
      BY <3>2 DEF X
  <2>5. completed' \in Seq(Devices)
    <3>1. completed \in Seq(Devices)
      BY <2>1
    <3>2. CASE completed' = completed
      BY <3>1, <3>2
    <3>3. CASE completed # <<>> /\ completed' = Tail(completed)
      <4>1. Tail(completed) \in Seq(Devices)
        BY <3>1, <3>3, TailPlaces
      <4> QED
        BY <3>3, <4>1
    <3> QED
      BY <2>3, <3>2, <3>3
  <2> QED
    BY <2>4, <2>5
<1>3. TypeOK'
  BY <1>1, <1>2 DEF PinInv, TypeOK
<1>4. SerialInv'
  BY <1>1, <1>3 DEF SerialInv, PendingIsTracked
<1>5. PinInv'
  BY <1>1, <1>3, PinFrame DEF Carriers
<1> QED
  BY <1>1, <1>3, <1>4, <1>5

\* Each of them keeps the newest request of every requester the newest.
LEMMA UiKeepsNewest ==
  ASSUME PinInv, inbox \in Seq(Message), UiNext
  PROVE  /\ inbox' \in Seq(Message)
         /\ \A d, c : Newest(requested, inbox, prompt, d, c) => Newest(requested', inbox', prompt', d, c)
<1>1. requested \in Seq(Request)
  BY DEF PinInv, TypeOK, Request
<1>2. CASE ForwardRequested
  <2>1. /\ requested # <<>> /\ requested' = Tail(requested) /\ UNCHANGED prompt
        /\ inbox' = Append(inbox, [kind |-> "requested", req |-> Head(requested)])
    BY <1>2 DEF ForwardRequested
  <2>2. [kind |-> "requested", req |-> Head(requested)] \in Message
    BY <1>1, <2>1, TailPlaces DEF Message
  <2>3. inbox' \in Seq(Message)
    BY <2>1, <2>2, AppendPlaces
  <2> QED
    BY <1>1, <2>1, <2>3, ForwardKeeps
<1>3. CASE ForwardCompleted
  <2> DEFINE m == [kind |-> "completed", dev |-> Head(completed)]
  <2>1. UNCHANGED <<requested, prompt>> /\ completed # <<>> /\ inbox' = Append(inbox, m)
    BY <1>3 DEF ForwardCompleted
  <2>2. m \in Message /\ m.kind # "requested"
    BY <2>1 DEF Message, PinInv, TypeOK
  <2> HIDE DEF m
  <2>3. inbox' \in Seq(Message)
    BY <2>1, <2>2, AppendPlaces
  <2> QED
    BY <2>1, <2>2, <2>3, StreamOther
<1>4. CASE DeliverRequested
  <2>1. /\ inbox # <<>> /\ Head(inbox).kind = "requested"
        /\ prompt' = {Head(inbox).req} /\ inbox' = Tail(inbox) /\ UNCHANGED requested
    BY <1>4 DEF DeliverRequested, ShowRequest, vars
  <2>2. inbox' \in Seq(Message)
    BY <2>1, TailPlaces
  <2> QED
    BY <2>1, <2>2, DeliverKeeps
<1>5. CASE DeliverCompleted
  <2>1. /\ inbox # <<>> /\ Head(inbox).kind = "completed"
        /\ inbox' = Tail(inbox) /\ UNCHANGED <<requested, prompt>>
    BY <1>5 DEF DeliverCompleted, ShowCompleted, vars
  <2>2. inbox' \in Seq(Message)
    BY <2>1, TailPlaces
  <2> QED
    BY <2>1, <2>2, DeliverKeeps
<1>6. CASE CloseTimer \/ UserDismiss
  <2>1. prompt' = {} /\ UNCHANGED <<requested, inbox>>
    BY <1>6 DEF CloseTimer, UserDismiss, DismissPrompt, vars
  <2> QED
    BY <2>1, DismissKeeps
<1> QED
  BY <1>2, <1>3, <1>4, <1>5, <1>6 DEF UiNext

LEMMA UiAnnounces ==
  ASSUME DialogInv, UiNext
  PROVE  DialogInv'
<1>1. SerialInv /\ PinInv /\ inbox \in Seq(Message) /\ AnnouncedIsPending /\ PendingIsAnnounced
  BY DEF DialogInv
<1>2. SerialInv' /\ PinInv' /\ UNCHANGED <<pending, calls, missed>>
  BY <1>1, UiFrame
<1>3. /\ inbox' \in Seq(Message)
      /\ \A d, c : Newest(requested, inbox, prompt, d, c) => Newest(requested', inbox', prompt', d, c)
  BY <1>1, UiKeepsNewest
<1>4. AnnouncedIsPending' /\ Announcers' = Announcers
  BY <1>1, <1>2 DEF AnnouncedIsPending, Announcers
<1>5. ASSUME NEW d \in DOMAIN pending'
      PROVE  \/ \E t \in Announcers' : calls'[t].dev = d
             \/ pending'[d].code \in missed'
             \/ Newest(requested', inbox', prompt', d, pending'[d].code)
  BY <1>1, <1>2, <1>3, <1>4 DEF PendingIsAnnounced
<1>6. PendingIsAnnounced'
  BY <1>5 DEF PendingIsAnnounced
<1> QED
  BY <1>2, <1>3, <1>4, <1>6 DEF DialogInv

\* The invariant of the manager, the stream and the dialog together.
LEMMA DialogNextInv ==
  ASSUME SerialClients, DialogInv, [DialogNext]_dialogVars
  PROVE  DialogInv'
<1>1. CASE ManagerStep
  <2>1. /\ [Next]_vars /\ UNCHANGED inbox
        /\ SerialInv /\ PinInv /\ inbox \in Seq(Message) /\ AnnouncedIsPending /\ PendingIsAnnounced
    BY <1>1 DEF ManagerStep, DialogInv
  <2>2. TypeOK'
    BY <2>1, TypeNext DEF PinInv
  <2>3. SerialInv' /\ PinInv'
    BY <2>1, <2>2, SerialNext, PinNext
  <2>4. AnnouncedIsPending' /\ PendingIsAnnounced'
    BY <1>1, <2>1, ManagerAnnounces
  <2> QED
    BY <2>1, <2>3, <2>4 DEF DialogInv
<1>2. CASE UiNext
  BY <1>2, UiAnnounces
<1>3. CASE UNCHANGED dialogVars
  <2>1. UNCHANGED <<clock, pending, lastCreated, prearmed, calls, requested, completed, hist,
                    inbox, prompt, missed>>
    BY <1>3 DEF dialogVars, vars, uiVars
  <2>2. SerialInv' /\ PinInv'
    <3>1. SerialInv /\ PinInv
      BY DEF DialogInv
    <3>2. TypeOK'
      BY <2>1, <3>1, TypeNext DEF vars, PinInv
    <3> QED
      BY <2>1, <3>1, <3>2, SerialNext, PinNext DEF vars
  <2>3. AnnouncedIsPending' /\ PendingIsAnnounced' /\ inbox' \in Seq(Message)
    BY <2>1, AnnounceFrame DEF DialogInv, Announcers
  <2> QED
    BY <2>2, <2>3 DEF DialogInv
<1> QED
  BY <1>1, <1>2, <1>3 DEF DialogNext

LEMMA DialogStart == DialogInit => DialogInv
<1> SUFFICES ASSUME DialogInit PROVE DialogInv
  OBVIOUS
<1>1. Init /\ inbox = <<>>
  BY DEF DialogInit
<1>2. SerialInv /\ PinInv
  BY <1>1, SerialInit, PinInit
<1>3. DOMAIN pending = {} /\ Announcers = {}
  BY <1>1 DEF Init, EmptyMap, Announcers
<1> QED
  BY <1>1, <1>2, <1>3 DEF DialogInv, AnnouncedIsPending, PendingIsAnnounced

\* Whoever reads the PIN on the desktop reads the one confirm will check, whatever the
\* order in which requests, completions and confirmations interleave: unless a call of
\* that requester runs, a newer announcement is on the way, or a full channel dropped it.
THEOREM ShownIsChecked == ASSUME SerialClients PROVE DialogSpec => []ShownPinIsChecked
<1>1. DialogInv => ShownPinIsChecked
  <2> SUFFICES ASSUME DialogInv, NEW r \in prompt, r.dev \in DOMAIN pending, ~OnTheWay(r.dev)
               PROVE  pending[r.dev].code \in missed \cup {r.code}
    BY DEF ShownPinIsChecked
  <2>1. InChannel(requested, r.dev) = {} /\ InStream(inbox, r.dev) = {}
    BY DEF OnTheWay, InChannel, InStream
  <2>2. ~\E t \in Announcers : calls[t].dev = r.dev
    BY DEF OnTheWay, Announcers
  <2>3. pending[r.dev].code \in missed \/ Newest(requested, inbox, prompt, r.dev, pending[r.dev].code)
    BY <2>2 DEF DialogInv, PendingIsAnnounced
  <2> QED
    BY <2>1, <2>3 DEF Newest
<1>2. DialogInv /\ [DialogNext]_dialogVars => DialogInv'
  BY DialogNextInv
<1> QED
  BY <1>1, <1>2, DialogStart, PTL DEF DialogSpec
=============================================================================
