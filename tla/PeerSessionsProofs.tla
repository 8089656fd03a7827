------------------------- MODULE PeerSessionsProofs -------------------------
(***************************************************************************)
(* Theorems about PeerSessions, for any devices, certificates, streams and *)
(* handlers, with database calls that may fail; and about Discovery, which *)
(* names the devices a session can be opened with, for any number of them. *)
(***************************************************************************)
EXTENDS PeerSessions, Discovery, CollectionTheorems, FiniteSetTheorems, TLAPS

-----------------------------------------------------------------------------
(* Lemmas about the operators the actions are built from. *)

\* Moving a stream on keeps the streams well typed and changes that stream's step alone.
LEMMA GotoDef ==
  ASSUME NEW c \in Conns, NEW pc \in StreamStep, conn \in [Conns -> Conn], Goto(c, pc)
  PROVE  /\ conn' \in [Conns -> Conn]
         /\ conn'[c].pc = pc
         /\ \A x \in Conns : conn'[x].dev = conn[x].dev
         /\ \A x \in Conns : x # c => conn'[x] = conn[x]
BY DEF Goto, Conn

\* A handler that starts is the only one that changes.
LEMMA BeginDef ==
  ASSUME NEW t \in PeerCalls \cup LocalCalls, NEW d \in Devices, NEW k \in Cert,
         NEW pc \in {"create", "upsert", "pin", "collect", "drop"},
         IsMap(tasks, PeerCalls \cup LocalCalls, Task), Begin(t, pc, d, k)
  PROVE  /\ IsMap(tasks', PeerCalls \cup LocalCalls, Task)
         /\ DOMAIN tasks' = DOMAIN tasks \cup {t}
         /\ tasks'[t] = [pc |-> pc, dev |-> d, cert |-> k, ids |-> {}]
         /\ \A x \in DOMAIN tasks : x # t => tasks'[x] = tasks[x]
<1> DEFINE new == [pc |-> pc, dev |-> d, cert |-> k, ids |-> {}]
<1>1. new \in Task
  BY DEF Task
<1>2. tasks' = Put(tasks, t, new)
  BY DEF Begin
<1> HIDE DEF new
<1>3. IsMap(Put(tasks, t, new), PeerCalls \cup LocalCalls, Task)
  BY <1>1, PutMap
<1>4. /\ DOMAIN Put(tasks, t, new) = DOMAIN tasks \cup {t}
      /\ Put(tasks, t, new)[t] = new
      /\ \A x \in DOMAIN tasks : x # t => Put(tasks, t, new)[x] = tasks[x]
  BY DEF Put
<1>5. new = [pc |-> pc, dev |-> d, cert |-> k, ids |-> {}]
  BY DEF new
<1> QED
  BY <1>2, <1>3, <1>4, <1>5

\* A handler that returns is gone, and the others are as they were.
LEMMA ReturnDef ==
  ASSUME NEW t, IsMap(tasks, PeerCalls \cup LocalCalls, Task), Return(t)
  PROVE  /\ IsMap(tasks', PeerCalls \cup LocalCalls, Task)
         /\ DOMAIN tasks' = DOMAIN tasks \ {t}
         /\ \A x \in DOMAIN tasks' : tasks'[x] = tasks[x]
<1>1. tasks' = Drop(tasks, t)
  BY DEF Return
<1>2. IsMap(Drop(tasks, t), PeerCalls \cup LocalCalls, Task)
  BY DropMap
<1>3. /\ DOMAIN Drop(tasks, t) = DOMAIN tasks \ {t}
      /\ \A x \in DOMAIN tasks : x # t => Drop(tasks, t)[x] = tasks[x]
  BY DropDef
<1> QED
  BY <1>1, <1>2, <1>3

\* An upsert adds the row and keeps the pin of a row that was there.
LEMMA UpsertDef ==
  ASSUME NEW d \in Devices, IsMap(rows, Devices, Cert)
  PROVE  /\ IsMap(Upsert(d), Devices, Cert)
         /\ DOMAIN Upsert(d) = DOMAIN rows \cup {d}
         /\ \A x \in DOMAIN rows : Upsert(d)[x] = rows[x]
         /\ d \notin DOMAIN rows => Upsert(d)[d] = NoCert
<1>1. CASE d \in DOMAIN rows
  BY <1>1 DEF Upsert
<1>2. CASE d \notin DOMAIN rows
  <2>1. Upsert(d) = Put(rows, d, NoCert) /\ NoCert \in Cert
    BY <1>2 DEF Upsert, Cert
  <2>2. IsMap(Put(rows, d, NoCert), Devices, Cert)
    BY <2>1, PutMap
  <2>3. /\ DOMAIN Put(rows, d, NoCert) = DOMAIN rows \cup {d}
        /\ Put(rows, d, NoCert)[d] = NoCert
        /\ \A x \in DOMAIN rows : x # d => Put(rows, d, NoCert)[x] = rows[x]
    BY PutDef
  <2> QED
    BY <1>2, <2>1, <2>2, <2>3
<1> QED
  BY <1>1, <1>2

-----------------------------------------------------------------------------
(* Trust comes from a PIN: the inductive invariant.                        *)

\* What TrustIsProven rests on: whoever is about to write a row or a pin has been vouched
\* for already.  ClosedIsOffline is inductive along with it.
Vouched ==
  /\ TrustIsProven
  /\ \A c \in Conns : StreamAt(c, "upsert") => \E k \in Cert : <<conn[c].dev, k>> \in proven
  /\ \A t \in DOMAIN tasks :
       /\ tasks[t].pc \in {"upsert", "pin"} => <<tasks[t].dev, tasks[t].cert>> \in proven
       /\ tasks[t].pc = "pin" => tasks[t].cert \in Certs
  /\ ClosedIsOffline

SessionInv == TypeOK /\ Vouched

LEMMA SessionInit == Init => SessionInv
<1> SUFFICES ASSUME Init PROVE SessionInv
  OBVIOUS
<1>1. IsMap(EmptyMap, Devices, Cert) /\ IsMap(EmptyMap, Conns, Devices)
      /\ IsMap(EmptyMap, PeerCalls \cup LocalCalls, Task) /\ DOMAIN EmptyMap = {}
  BY EmptyIsMap
<1>2. conn \in [Conns -> Conn]
  BY DEF Init, Conn, StreamStep
<1>3. TypeOK
  BY <1>1, <1>2 DEF Init, TypeOK
<1>4. Vouched
  BY <1>1 DEF Init, Vouched, TrustIsProven, ClosedIsOffline, StreamAt
<1> QED
  BY <1>3, <1>4 DEF SessionInv

\* A stream that moves on within its life, with nothing else changed but the count of
\* applied frames, keeps the invariant, if it comes to an upsert by finding the row.
LEMMA MoveStep ==
  ASSUME SessionInv, NEW c \in Conns, NEW pc \in StreamStep \ {"new", "closed"}, Goto(c, pc),
         pc = "upsert" => conn[c].dev \in DOMAIN rows,
         UNCHANGED <<rows, pinned, senders, bound, tasks, proven, forgotten>>,
         after' \in [Conns -> Nat]
  PROVE  SessionInv'
<1>1. /\ conn' \in [Conns -> Conn] /\ conn'[c].pc = pc
      /\ \A x \in Conns : conn'[x].dev = conn[x].dev
      /\ \A x \in Conns : x # c => conn'[x] = conn[x]
  BY GotoDef DEF SessionInv, TypeOK
<1>2. TypeOK'
  BY <1>1 DEF SessionInv, TypeOK, IsMap
<1>3. TrustIsProven'
  BY DEF SessionInv, Vouched, TrustIsProven
<1>4. (\A x \in Conns : StreamAt(x, "upsert") => \E k \in Cert : <<conn[x].dev, k>> \in proven)'
  <2> SUFFICES ASSUME NEW x \in Conns, conn'[x].pc = "upsert"
               PROVE  \E k \in Cert : <<conn'[x].dev, k>> \in proven
    BY DEF StreamAt
  <2>1. CASE x = c
    BY <1>1, <2>1 DEF SessionInv, Vouched, TrustIsProven
  <2>2. CASE x # c
    BY <1>1, <2>2 DEF SessionInv, Vouched, StreamAt
  <2> QED
    BY <2>1, <2>2
<1>5. ClosedIsOffline'
  BY <1>1 DEF SessionInv, Vouched, ClosedIsOffline, StreamAt
<1> QED
  BY <1>2, <1>3, <1>4, <1>5 DEF SessionInv, Vouched

\* A handler that goes on or returns as the same handler of the same device, with nothing
\* else changed that trust depends on, keeps the invariant.
LEMMA TaskStep ==
  ASSUME SessionInv, IsMap(tasks', PeerCalls \cup LocalCalls, Task),
         \A t \in DOMAIN tasks' :
           tasks'[t].pc \in {"upsert", "pin"} => t \in DOMAIN tasks /\ tasks'[t] = tasks[t],
         UNCHANGED <<rows, conn, senders, bound, proven, forgotten, after>>,
         pinned' \subseteq Devices
  PROVE  SessionInv'
<1>1. TypeOK'
  BY DEF SessionInv, TypeOK
<1>2. TrustIsProven' /\ ClosedIsOffline'
  BY DEF SessionInv, Vouched, TrustIsProven, ClosedIsOffline, StreamAt
<1> QED
  BY <1>1, <1>2 DEF SessionInv, Vouched, StreamAt

\* A row written by upsert for a device that was vouched for keeps the invariant.
LEMMA UpsertStep ==
  ASSUME SessionInv, NEW d \in Devices, \E k \in Cert : <<d, k>> \in proven,
         rows' = Upsert(d), UNCHANGED proven
  PROVE  IsMap(rows', Devices, Cert) /\ TrustIsProven'
<1>1. IsMap(rows, Devices, Cert)
  BY DEF SessionInv, TypeOK
<1>2. /\ IsMap(Upsert(d), Devices, Cert)
      /\ DOMAIN Upsert(d) = DOMAIN rows \cup {d}
      /\ \A x \in DOMAIN rows : Upsert(d)[x] = rows[x]
      /\ d \notin DOMAIN rows => Upsert(d)[d] = NoCert
  BY <1>1, UpsertDef
<1>3. NoCert \notin Certs
  BY SessionAssumption
<1>4. \A x \in DOMAIN rows' : \E k \in Cert : <<x, k>> \in proven
  BY <1>2 DEF SessionInv, Vouched, TrustIsProven
<1>5. \A x \in DOMAIN rows' : rows'[x] \in Certs => <<x, rows'[x]>> \in proven
  BY <1>2, <1>3 DEF SessionInv, Vouched, TrustIsProven
<1> QED
  BY <1>2, <1>4, <1>5 DEF TrustIsProven

\* Every step of the streams keeps the invariant.
LEMMA StreamSteps ==
  ASSUME SessionInv, NEW c \in Conns,
         Open(c) \/ ReceiveIdentity(c) \/ ReceiveFrame(c) \/ ReplySent(c) \/ HangUp(c) \/ Stream(c)
  PROVE  SessionInv'
<1>0. conn[c] \in Conn /\ conn \in [Conns -> Conn] /\ after \in [Conns -> Nat]
  BY DEF SessionInv, TypeOK
<1>1. CASE Open(c)
  <2>1. /\ conn' \in [Conns -> Conn] /\ conn'[c].pc = "reading"
        /\ \A x \in Conns : conn'[x].dev = conn[x].dev
        /\ \A x \in Conns : x # c => conn'[x] = conn[x]
    BY <1>0, <1>1, GotoDef DEF Open, StreamStep
  <2>2. TypeOK'
    BY <1>1, <2>1 DEF Open, ghosts, SessionInv, TypeOK, IsMap
  <2>3. Vouched'
    BY <1>1, <2>1 DEF Open, ghosts, SessionInv, Vouched, TrustIsProven, ClosedIsOffline, StreamAt
  <2> QED
    BY <2>2, <2>3 DEF SessionInv
<1>2. CASE ReceiveIdentity(c)
  <2>1. PICK d \in Devices : /\ conn' = [conn EXCEPT ![c].pc = "identified", ![c].dev = d]
                             /\ bound' = Put(bound, c, d)
    BY <1>2 DEF ReceiveIdentity
  <2>2. /\ conn' \in [Conns -> Conn] /\ conn'[c].pc = "identified"
        /\ \A x \in Conns : x # c => conn'[x] = conn[x]
    BY <1>0, <2>1 DEF Conn, StreamStep
  <2>3. IsMap(Put(bound, c, d), Conns, Devices) /\ DOMAIN Put(bound, c, d) = DOMAIN bound \cup {c}
    <3>1. IsMap(bound, Conns, Devices)
      BY DEF SessionInv, TypeOK
    <3> QED
      BY <3>1 DEF Put, IsMap
  <2>4. TypeOK'
    BY <1>2, <2>1, <2>2, <2>3 DEF ReceiveIdentity, ghosts, SessionInv, TypeOK, IsMap
  <2>5. Vouched'
    BY <1>2, <2>1, <2>2, <2>3
    DEF ReceiveIdentity, ghosts, SessionInv, Vouched, TrustIsProven, ClosedIsOffline, StreamAt
  <2> QED
    BY <2>4, <2>5 DEF SessionInv
<1>3. CASE UpsertIdentity(c)
  <2>1. \E k \in Cert : <<conn[c].dev, k>> \in proven
    BY <1>3 DEF UpsertIdentity, SessionInv, Vouched
  <2>2. conn[c].dev \in Devices
    BY <2>1 DEF SessionInv, TypeOK
  <2>3. /\ conn' \in [Conns -> Conn] /\ conn'[c].pc = "reply"
        /\ \A x \in Conns : conn'[x].dev = conn[x].dev
        /\ \A x \in Conns : x # c => conn'[x] = conn[x]
    BY <1>0, <1>3, GotoDef DEF UpsertIdentity, StreamStep
  <2>4. IsMap(rows', Devices, Cert) /\ TrustIsProven'
    <3>1. CASE rows' = Upsert(conn[c].dev)
      BY <1>3, <2>1, <2>2, <3>1, UpsertStep DEF UpsertIdentity, ghosts
    <3>2. CASE rows' = rows
      BY <1>3, <3>2 DEF UpsertIdentity, ghosts, SessionInv, TypeOK, IsMap, Vouched, TrustIsProven
    <3> QED
      BY <1>3, <3>1, <3>2 DEF UpsertIdentity
  <2>5. TypeOK'
    BY <1>3, <2>3, <2>4 DEF UpsertIdentity, ghosts, SessionInv, TypeOK, IsMap
  <2>6. Vouched'
    BY <1>3, <2>3, <2>4
    DEF UpsertIdentity, ghosts, SessionInv, Vouched, ClosedIsOffline, StreamAt
  <2> QED
    BY <2>5, <2>6 DEF SessionInv
<1>4. CASE Unregister(c)
  <2>1. /\ conn' \in [Conns -> Conn] /\ conn'[c].pc = "closed"
        /\ \A x \in Conns : conn'[x].dev = conn[x].dev
        /\ \A x \in Conns : x # c => conn'[x] = conn[x]
    BY <1>0, <1>4, GotoDef DEF Unregister, StreamStep
  <2>2. IsMap(Drop(bound, c), Conns, Devices) /\ DOMAIN Drop(bound, c) = DOMAIN bound \ {c}
    BY DropMap, DropDef DEF SessionInv, TypeOK
  <2>3. TypeOK'
    BY <1>4, <2>1, <2>2 DEF Unregister, ghosts, SessionInv, TypeOK, IsMap
  <2>4. Vouched'
    BY <1>4, <2>1, <2>2
    DEF Unregister, ghosts, SessionInv, Vouched, TrustIsProven, ClosedIsOffline, StreamAt
  <2> QED
    BY <2>3, <2>4 DEF SessionInv
<1>5. CASE HangUp(c)
  <2>1. /\ conn' \in [Conns -> Conn]
        /\ \A x \in Conns : conn'[x].pc = conn[x].pc /\ conn'[x].dev = conn[x].dev
    BY <1>0, <1>5 DEF HangUp, Conn
  <2>2. TypeOK'
    BY <1>5, <2>1 DEF HangUp, ghosts, SessionInv, TypeOK, IsMap
  <2>3. Vouched'
    <3>1. UNCHANGED <<rows, senders, bound, tasks, proven>>
      BY <1>5 DEF HangUp, ghosts
    <3>2. TrustIsProven'
      BY <3>1 DEF SessionInv, Vouched, TrustIsProven
    <3>3. \A x \in Conns : conn'[x].pc = "upsert" => \E k \in Cert : <<conn'[x].dev, k>> \in proven'
      BY <2>1, <3>1 DEF SessionInv, Vouched, StreamAt
    <3>4. ClosedIsOffline'
      BY <2>1, <3>1 DEF SessionInv, Vouched, ClosedIsOffline, StreamAt
    <3>5. (\A t \in DOMAIN tasks :
             /\ tasks[t].pc \in {"upsert", "pin"} => <<tasks[t].dev, tasks[t].cert>> \in proven
             /\ tasks[t].pc = "pin" => tasks[t].cert \in Certs)'
      BY <3>1 DEF SessionInv, Vouched
    <3> QED
      BY <3>2, <3>3, <3>4, <3>5 DEF Vouched, StreamAt
  <2> QED
    BY <2>2, <2>3 DEF SessionInv
<1>6. CASE LookupIdentity(c)
  BY <1>0, <1>6, MoveStep DEF LookupIdentity, ghosts, StreamStep
<1>7. CASE ReceiveFrame(c)
  BY <1>0, <1>7, MoveStep DEF ReceiveFrame, ghosts, StreamStep
<1>8. CASE GatePaired(c)
  BY <1>0, <1>8, MoveStep DEF GatePaired, ghosts, StreamStep
<1>9. CASE Apply(c)
  <2>1. after' \in [Conns -> Nat]
    BY <1>0, <1>9 DEF Apply
  <2> QED
    BY <1>9, <2>1, MoveStep DEF Apply, StreamStep
<1>10. CASE RefusePin(c)
  BY <1>0, <1>10, MoveStep DEF RefusePin, ghosts, StreamStep
<1>11. CASE ReplySent(c)
  BY <1>0, <1>11, MoveStep DEF ReplySent, ghosts, StreamStep
<1>12. CASE ReplyFails(c)
  BY <1>0, <1>12, MoveStep DEF ReplyFails, ghosts, StreamStep
<1>13. CASE EndOfStream(c)
  BY <1>0, <1>13, MoveStep DEF EndOfStream, ghosts, StreamStep
<1> QED
  BY <1>1, <1>2, <1>3, <1>4, <1>5, <1>6, <1>7, <1>8, <1>9, <1>10, <1>11, <1>12, <1>13 DEF Stream

\* Every step of the handlers keeps the invariant.
LEMMA HandlerSteps ==
  ASSUME SessionInv, NEW t \in PeerCalls \cup LocalCalls,
         PeerCall(t) \/ LocalCall(t) \/ Handler(t)
  PROVE  SessionInv'
<1>0. /\ IsMap(tasks, PeerCalls \cup LocalCalls, Task) /\ IsMap(rows, Devices, Cert)
      /\ IsMap(bound, Conns, Devices) /\ pinned \subseteq Devices
      /\ \A x \in DOMAIN tasks : tasks[x] \in Task
      /\ NoCert \in Cert /\ Certs \subseteq Cert /\ NoCert \notin Certs
  BY SessionAssumption DEF SessionInv, TypeOK, IsMap, Cert
<1>1. CASE \E d \in Devices : Pair(t, d)
  <2>1. PICK d \in Devices : Pair(t, d)
    BY <1>1
  <2>2. /\ IsMap(tasks', PeerCalls \cup LocalCalls, Task)
        /\ DOMAIN tasks' = DOMAIN tasks \cup {t}
        /\ tasks'[t] = [pc |-> "create", dev |-> d, cert |-> NoCert, ids |-> {}]
        /\ \A x \in DOMAIN tasks : x # t => tasks'[x] = tasks[x]
    BY <1>0, <2>1, BeginDef DEF Pair
  <2> QED
    BY <1>0, <2>1, <2>2, TaskStep DEF Pair, ghosts
<1>2. CASE \E d \in Devices : DisconnectDevice(t, d)
  <2>1. PICK d \in Devices : DisconnectDevice(t, d)
    BY <1>2
  <2>2. /\ IsMap(tasks', PeerCalls \cup LocalCalls, Task)
        /\ DOMAIN tasks' = DOMAIN tasks \cup {t}
        /\ tasks'[t] = [pc |-> "collect", dev |-> d, cert |-> NoCert, ids |-> {}]
        /\ \A x \in DOMAIN tasks : x # t => tasks'[x] = tasks[x]
    BY <1>0, <2>1, BeginDef DEF DisconnectDevice
  <2> QED
    BY <1>0, <2>1, <2>2, TaskStep DEF DisconnectDevice, ghosts
<1>3. CASE CreatePending(t)
  <2>1. /\ IsMap(tasks', PeerCalls \cup LocalCalls, Task)
        /\ DOMAIN tasks' = DOMAIN tasks \ {t}
        /\ \A x \in DOMAIN tasks' : tasks'[x] = tasks[x]
    BY <1>0, <1>3, ReturnDef DEF CreatePending
  <2>2. pinned' \subseteq Devices
    BY <1>0, <1>3 DEF CreatePending, TaskAt, Task
  <2> QED
    BY <1>3, <2>1, <2>2, TaskStep DEF CreatePending, ghosts
<1>4. CASE Collect(t)
  <2> DEFINE ids == {c \in DOMAIN bound : bound[c] = tasks[t].dev}
  <2>1. CASE ids = {}
    <3>1. Return(t)
      BY <1>4, <2>1 DEF Collect
    <3>2. /\ IsMap(tasks', PeerCalls \cup LocalCalls, Task)
          /\ DOMAIN tasks' = DOMAIN tasks \ {t}
          /\ \A x \in DOMAIN tasks' : tasks'[x] = tasks[x]
      BY <1>0, <3>1, ReturnDef
    <3> QED
      BY <1>0, <1>4, <3>2, TaskStep DEF Collect, ghosts
  <2>2. CASE ids # {}
    <3>1. t \in DOMAIN tasks /\ tasks[t] \in Task /\ ids \subseteq Conns
      BY <1>0, <1>4 DEF Collect, TaskAt, IsMap
    <3>2. tasks' = [tasks EXCEPT ![t].pc = "drop", ![t].ids = ids]
      BY <1>4, <2>2 DEF Collect
    <3>3. /\ DOMAIN tasks' = DOMAIN tasks /\ tasks'[t] \in Task /\ tasks'[t].pc = "drop"
          /\ \A x \in DOMAIN tasks : x # t => tasks'[x] = tasks[x]
      BY <3>1, <3>2 DEF Task
    <3>4. IsMap(tasks', PeerCalls \cup LocalCalls, Task)
      BY <1>0, <3>1, <3>2, <3>3 DEF IsMap
    <3> QED
      BY <1>0, <1>4, <3>3, <3>4, TaskStep DEF Collect, ghosts
  <2> QED
    BY <2>1, <2>2
<1>5. CASE \E d \in Devices, k \in Cert : ConfirmPin(t, d, k)
  <2>1. PICK d \in Devices, k \in Cert : ConfirmPin(t, d, k)
    BY <1>5
  <2>2. /\ IsMap(tasks', PeerCalls \cup LocalCalls, Task)
        /\ DOMAIN tasks' = DOMAIN tasks \cup {t}
        /\ tasks'[t] = [pc |-> "upsert", dev |-> d, cert |-> k, ids |-> {}]
        /\ \A x \in DOMAIN tasks : x # t => tasks'[x] = tasks[x]
    BY <1>0, <2>1, BeginDef DEF ConfirmPin
  <2>3. TypeOK'
    BY <2>1, <2>2 DEF ConfirmPin, SessionInv, TypeOK, IsMap
  <2>4. Vouched'
    BY <2>1, <2>2
    DEF ConfirmPin, SessionInv, Vouched, TrustIsProven, ClosedIsOffline, StreamAt
  <2> QED
    BY <2>3, <2>4 DEF SessionInv
<1>6. CASE \E d \in Devices, k \in Certs : RecordFingerprint(t, d, k)
  <2>1. PICK d \in Devices, k \in Certs : RecordFingerprint(t, d, k)
    BY <1>6
  <2>2. /\ IsMap(tasks', PeerCalls \cup LocalCalls, Task)
        /\ DOMAIN tasks' = DOMAIN tasks \cup {t}
        /\ tasks'[t] = [pc |-> "pin", dev |-> d, cert |-> k, ids |-> {}]
        /\ \A x \in DOMAIN tasks : x # t => tasks'[x] = tasks[x]
    BY <1>0, <2>1, BeginDef DEF RecordFingerprint
  <2>3. TypeOK'
    BY <1>0, <2>1, <2>2 DEF RecordFingerprint, SessionInv, TypeOK, IsMap
  <2>4. Vouched'
    BY <2>1, <2>2
    DEF RecordFingerprint, SessionInv, Vouched, TrustIsProven, ClosedIsOffline, StreamAt
  <2> QED
    BY <2>3, <2>4 DEF SessionInv
<1>7. CASE ConfirmUpsert(t)
  <2>1. /\ t \in DOMAIN tasks /\ tasks[t].pc = "upsert" /\ tasks[t] \in Task
        /\ <<tasks[t].dev, tasks[t].cert>> \in proven
        /\ tasks[t].dev \in Devices /\ tasks[t].cert \in Cert
    BY <1>0, <1>7 DEF ConfirmUpsert, TaskAt, Task, SessionInv, Vouched
  <2>2. /\ IsMap(tasks', PeerCalls \cup LocalCalls, Task)
        /\ \A x \in DOMAIN tasks' :
             /\ x \in DOMAIN tasks
             /\ x # t => tasks'[x] = tasks[x]
             /\ x = t => tasks[t].cert # NoCert /\ tasks'[t] = [tasks[t] EXCEPT !.pc = "pin"]
    <3>1. CASE Return(t)
      <4>1. /\ IsMap(tasks', PeerCalls \cup LocalCalls, Task)
            /\ DOMAIN tasks' = DOMAIN tasks \ {t}
            /\ \A x \in DOMAIN tasks' : tasks'[x] = tasks[x]
        BY <1>0, <3>1, ReturnDef
      <4> QED
        BY <4>1
    <3>2. CASE tasks[t].cert # NoCert /\ tasks' = [tasks EXCEPT ![t].pc = "pin"]
      <4>1. [tasks[t] EXCEPT !.pc = "pin"] \in Task
        BY <2>1 DEF Task
      <4>2. tasks' = [tasks EXCEPT ![t] = [tasks[t] EXCEPT !.pc = "pin"]]
        BY <3>2
      <4> QED
        BY <1>0, <2>1, <3>2, <4>1, <4>2 DEF IsMap
    <3> QED
      BY <1>7, <3>1, <3>2 DEF ConfirmUpsert
  <2>3. IsMap(rows', Devices, Cert) /\ TrustIsProven'
    <3>1. CASE rows' = Upsert(tasks[t].dev)
      BY <1>7, <2>1, <3>1, UpsertStep DEF ConfirmUpsert, ghosts
    <3>2. CASE rows' = rows
      BY <1>7, <3>2 DEF ConfirmUpsert, ghosts, SessionInv, TypeOK, IsMap, Vouched, TrustIsProven
    <3> QED
      BY <1>7, <3>1, <3>2 DEF ConfirmUpsert
  <2>4. TypeOK'
    BY <1>7, <2>2, <2>3 DEF ConfirmUpsert, ghosts, SessionInv, TypeOK, IsMap
  <2>5. \A x \in DOMAIN tasks' :
          /\ tasks'[x].pc \in {"upsert", "pin"} => <<tasks'[x].dev, tasks'[x].cert>> \in proven
          /\ tasks'[x].pc = "pin" => tasks'[x].cert \in Certs
    <3> SUFFICES ASSUME NEW x \in DOMAIN tasks'
                 PROVE  /\ tasks'[x].pc \in {"upsert", "pin"} => <<tasks'[x].dev, tasks'[x].cert>> \in proven
                        /\ tasks'[x].pc = "pin" => tasks'[x].cert \in Certs
      OBVIOUS
    <3>1. CASE x = t
      <4>1. /\ tasks'[x].dev = tasks[t].dev /\ tasks'[x].cert = tasks[t].cert
            /\ tasks[t].cert # NoCert
        BY <2>1, <2>2, <3>1 DEF Task
      <4>2. tasks[t].cert \in Certs
        BY <2>1, <4>1 DEF Cert
      <4> QED
        BY <2>1, <4>1, <4>2
    <3>2. CASE x # t
      BY <2>2, <3>2 DEF SessionInv, Vouched
    <3> QED
      BY <3>1, <3>2
  <2>6. ClosedIsOffline'
    BY <1>7 DEF ConfirmUpsert, SessionInv, Vouched, ClosedIsOffline, StreamAt
  <2> QED
    BY <1>7, <2>3, <2>4, <2>5, <2>6 DEF ConfirmUpsert, ghosts, SessionInv, Vouched, StreamAt
<1>8. CASE SetFingerprint(t)
  <2>1. /\ t \in DOMAIN tasks /\ tasks[t].pc = "pin"
        /\ <<tasks[t].dev, tasks[t].cert>> \in proven /\ tasks[t].cert \in Certs
    BY <1>8 DEF SetFingerprint, TaskAt, SessionInv, Vouched
  <2> DEFINE d == tasks[t].dev
             k == tasks[t].cert
  <2>2. /\ IsMap(tasks', PeerCalls \cup LocalCalls, Task)
        /\ DOMAIN tasks' = DOMAIN tasks \ {t}
        /\ \A x \in DOMAIN tasks' : tasks'[x] = tasks[x]
    BY <1>0, <1>8, ReturnDef DEF SetFingerprint
  <2>3. rows' = rows \/ (d \in DOMAIN rows /\ rows' = Put(rows, d, k))
    BY <1>8 DEF SetFingerprint
  <2>4. IsMap(rows', Devices, Cert) /\ TrustIsProven'
    <3>1. CASE rows' = rows
      BY <1>8, <3>1 DEF SetFingerprint, ghosts, SessionInv, TypeOK, IsMap, Vouched, TrustIsProven
    <3>2. CASE d \in DOMAIN rows /\ rows' = Put(rows, d, k)
      <4>1. IsMap(rows', Devices, Cert)
        BY <1>0, <2>1, <3>2 DEF Put, IsMap
      <4>2. DOMAIN rows' = DOMAIN rows
            /\ \A x \in DOMAIN rows : rows'[x] = IF x = d THEN k ELSE rows[x]
        BY <3>2 DEF Put
      <4>3. proven' = proven
        BY <1>8 DEF SetFingerprint, ghosts
      <4> QED
        BY <2>1, <4>1, <4>2, <4>3 DEF SessionInv, Vouched, TrustIsProven
    <3> QED
      BY <2>3, <3>1, <3>2
  <2>5. TypeOK'
    BY <1>8, <2>2, <2>4 DEF SetFingerprint, ghosts, SessionInv, TypeOK, IsMap
  <2>6. Vouched'
    BY <1>8, <2>2, <2>4 DEF SetFingerprint, ghosts, SessionInv, Vouched, ClosedIsOffline, StreamAt
  <2> QED
    BY <2>5, <2>6 DEF SessionInv
<1>9. CASE \E d \in Devices : ForgetDevice(t, d)
  <2>1. PICK d \in Devices : ForgetDevice(t, d)
    BY <1>9
  <2>2. /\ IsMap(tasks', PeerCalls \cup LocalCalls, Task)
        /\ DOMAIN tasks' = DOMAIN tasks \cup {t}
        /\ tasks'[t] = [pc |-> "collect", dev |-> d, cert |-> NoCert, ids |-> {}]
        /\ \A x \in DOMAIN tasks : x # t => tasks'[x] = tasks[x]
    BY <1>0, <2>1, BeginDef DEF ForgetDevice
  <2>3. /\ IsMap(Drop(rows, d), Devices, Cert) /\ DOMAIN Drop(rows, d) = DOMAIN rows \ {d}
        /\ \A x \in DOMAIN rows : x # d => Drop(rows, d)[x] = rows[x]
    BY <1>0, DropMap, DropDef
  <2>4. after' \in [Conns -> Nat] /\ rows' = Drop(rows, d)
    BY <2>1 DEF ForgetDevice, SessionInv, TypeOK
  <2>5. TypeOK'
    BY <2>1, <2>2, <2>3, <2>4 DEF ForgetDevice, SessionInv, TypeOK, IsMap
  <2>6. Vouched'
    BY <2>1, <2>2, <2>3, <2>4
    DEF ForgetDevice, SessionInv, Vouched, TrustIsProven, ClosedIsOffline, StreamAt
  <2> QED
    BY <2>5, <2>6 DEF SessionInv
<1>10. CASE DropStream(t)
  <2>1. t \in DOMAIN tasks /\ tasks[t] \in Task /\ tasks[t].pc = "drop"
    BY <1>0, <1>10 DEF DropStream, TaskAt
  <2>2. PICK c \in tasks[t].ids :
          /\ senders' = senders \ {c} /\ bound' = Drop(bound, c)
          /\ IF tasks[t].ids = {c} THEN Return(t) ELSE tasks' = [tasks EXCEPT ![t].ids = @ \ {c}]
    BY <1>10 DEF DropStream
  <2>3. /\ IsMap(tasks', PeerCalls \cup LocalCalls, Task)
        /\ \A x \in DOMAIN tasks' :
             /\ x \in DOMAIN tasks
             /\ x # t => tasks'[x] = tasks[x]
             /\ x = t => tasks'[t].pc = "drop"
    <3>1. CASE Return(t)
      <4>1. /\ IsMap(tasks', PeerCalls \cup LocalCalls, Task)
            /\ DOMAIN tasks' = DOMAIN tasks \ {t}
            /\ \A x \in DOMAIN tasks' : tasks'[x] = tasks[x]
        BY <1>0, <3>1, ReturnDef
      <4> QED
        BY <4>1
    <3>2. CASE tasks' = [tasks EXCEPT ![t].ids = @ \ {c}]
      <4>1. [tasks[t] EXCEPT !.ids = @ \ {c}] \in Task
        BY <2>1 DEF Task
      <4>2. tasks' = [tasks EXCEPT ![t] = [tasks[t] EXCEPT !.ids = @ \ {c}]]
        BY <3>2
      <4> QED
        BY <1>0, <2>1, <4>1, <4>2 DEF IsMap, Task
    <3> QED
      BY <2>2, <3>1, <3>2
  <2>4. IsMap(bound', Conns, Devices) /\ DOMAIN bound' = DOMAIN bound \ {c}
    BY <1>0, <2>2, DropMap, DropDef
  <2>5. TypeOK'
    BY <1>10, <2>2, <2>3, <2>4 DEF DropStream, ghosts, SessionInv, TypeOK, IsMap
  <2>6. TrustIsProven'
    BY <1>10 DEF DropStream, ghosts, SessionInv, Vouched, TrustIsProven
  <2>7. ClosedIsOffline'
    BY <1>10, <2>2, <2>4 DEF DropStream, SessionInv, Vouched, ClosedIsOffline, StreamAt
  <2> QED
    BY <1>10, <2>3, <2>5, <2>6, <2>7 DEF DropStream, ghosts, SessionInv, Vouched, StreamAt
<1> QED
  BY <1>1, <1>2, <1>3, <1>4, <1>5, <1>6, <1>7, <1>8, <1>9, <1>10
  DEF PeerCall, LocalCall, Handler

\* A step of the specification, or a stutter, keeps the invariant.
LEMMA SessionStep == SessionInv /\ [Next]_vars => SessionInv'
<1> SUFFICES ASSUME SessionInv, [Next]_vars PROVE SessionInv'
  OBVIOUS
<1>1. CASE \E c \in Conns : Open(c) \/ ReceiveIdentity(c) \/ ReceiveFrame(c) \/ ReplySent(c)
                              \/ HangUp(c) \/ Stream(c)
  BY <1>1, StreamSteps
<1>2. CASE \E t \in PeerCalls : PeerCall(t) \/ Handler(t)
  BY <1>2, HandlerSteps
<1>3. CASE \E t \in LocalCalls : LocalCall(t) \/ Handler(t)
  BY <1>3, HandlerSteps
<1>4. CASE \E d \in Devices : LosePin(d)
  <2>1. /\ UNCHANGED <<rows, conn, senders, bound, tasks, proven, forgotten, after>>
        /\ pinned' \subseteq Devices
    BY <1>4 DEF LosePin, ghosts, SessionInv, TypeOK
  <2>2. IsMap(tasks', PeerCalls \cup LocalCalls, Task)
    BY <2>1 DEF SessionInv, TypeOK, IsMap
  <2> QED
    BY <2>1, <2>2, TaskStep
<1>5. CASE UNCHANGED vars
  <2>1. UNCHANGED <<rows, conn, senders, bound, tasks, proven, forgotten, after, pinned>>
    BY <1>5 DEF vars
  <2>2. IsMap(tasks', PeerCalls \cup LocalCalls, Task) /\ pinned' \subseteq Devices
    BY <2>1 DEF SessionInv, TypeOK, IsMap
  <2> QED
    BY <2>1, <2>2, TaskStep
<1> QED
  BY <1>1, <1>2, <1>3, <1>4, <1>5 DEF Next

\* The tables, streams, handlers and the registry are well typed in every reachable state.
THEOREM SessionsTypeCorrect == Spec => []TypeOK
<1>1. SessionInv => TypeOK
  BY DEF SessionInv
<1> QED
  BY <1>1, SessionInit, SessionStep, PTL DEF Spec

\* Whoever is paired has proved a PIN and is pinned to a certificate that was vouched for,
\* whatever runs between the awaits of the handlers (service.rs, ConfirmPin and Identity).
THEOREM TrustComesFromPins == Spec => []TrustIsProven
<1>1. SessionInv => TrustIsProven
  BY DEF SessionInv, Vouched
<1> QED
  BY <1>1, SessionInit, SessionStep, PTL DEF Spec

\* A stream that ended is in neither map of the registry (PeerRegistry::unregister).
THEOREM EndedStreamsAreOffline == Spec => []ClosedIsOffline
<1>1. SessionInv => ClosedIsOffline
  BY DEF SessionInv, Vouched
<1> QED
  BY <1>1, SessionInit, SessionStep, PTL DEF Spec

-----------------------------------------------------------------------------
(* Action properties. *)

\* A step of a stream leaves the pins of the rows alone.
LEMMA StreamsKeepPins ==
  ASSUME SessionInv, NEW c \in Conns,
         Open(c) \/ ReceiveIdentity(c) \/ ReceiveFrame(c) \/ ReplySent(c) \/ HangUp(c) \/ Stream(c),
         NEW d \in DOMAIN rows \cap DOMAIN rows'
  PROVE  rows'[d] = rows[d]
<1>1. CASE UpsertIdentity(c) /\ rows' = Upsert(conn[c].dev)
  <2>1. conn[c].dev \in Devices /\ IsMap(rows, Devices, Cert)
    BY <1>1 DEF UpsertIdentity, SessionInv, Vouched, TypeOK
  <2> QED
    BY <1>1, <2>1, UpsertDef
<1>2. CASE ~(UpsertIdentity(c) /\ rows' = Upsert(conn[c].dev))
  BY <1>2 DEF Open, ReceiveIdentity, ReceiveFrame, ReplySent, HangUp, Stream, LookupIdentity,
              UpsertIdentity, GatePaired, Apply, RefusePin, ReplyFails, EndOfStream, Unregister
<1> QED
  BY <1>1, <1>2

\* A step of a handler changes a pin to a certificate only.
LEMMA HandlersKeepPins ==
  ASSUME SessionInv, NEW t \in PeerCalls \cup LocalCalls,
         PeerCall(t) \/ LocalCall(t) \/ Handler(t),
         NEW d \in DOMAIN rows \cap DOMAIN rows', rows[d] \in Certs
  PROVE  rows'[d] \in Certs
<1>0. IsMap(rows, Devices, Cert) /\ IsMap(tasks, PeerCalls \cup LocalCalls, Task)
  BY DEF SessionInv, TypeOK
<1>1. CASE ConfirmUpsert(t)
  <2>1. tasks[t].dev \in Devices
    BY <1>0, <1>1 DEF ConfirmUpsert, TaskAt, IsMap, Task
  <2>2. CASE rows' = Upsert(tasks[t].dev)
    BY <1>0, <2>1, <2>2, UpsertDef
  <2> QED
    BY <1>1, <2>2 DEF ConfirmUpsert
<1>2. CASE SetFingerprint(t)
  <2>1. tasks[t].cert \in Certs
    BY <1>2 DEF SetFingerprint, TaskAt, SessionInv, Vouched
  <2>2. CASE rows' = Put(rows, tasks[t].dev, tasks[t].cert)
    BY <2>1, <2>2 DEF Put
  <2> QED
    BY <1>2, <2>2 DEF SetFingerprint
<1>3. CASE \E x \in Devices : ForgetDevice(t, x)
  <2>1. PICK x \in Devices : rows' = Drop(rows, x)
    BY <1>3 DEF ForgetDevice
  <2> QED
    BY <2>1 DEF Drop, Restrict
<1>4. CASE PeerCall(t)
  BY <1>4 DEF PeerCall, Pair, ConfirmPin
<1>5. CASE LocalCall(t)
  BY <1>3, <1>5 DEF LocalCall, DisconnectDevice, RecordFingerprint
<1>6. CASE CreatePending(t) \/ Collect(t) \/ DropStream(t)
  BY <1>6 DEF CreatePending, Collect, DropStream
<1> QED
  BY <1>1, <1>2, <1>4, <1>5, <1>6 DEF Handler

\* No reconnect, no second pairing and no failing call unpins a device: a pin goes only
\* with its row (repository.rs, upsert_paired).
THEOREM PinsStay == Spec => PinIsNeverLost
<1> DEFINE Kept == \A d \in DOMAIN rows \cap DOMAIN rows' : rows[d] \in Certs => rows'[d] \in Certs
<1>1. SessionInv /\ [Next]_vars => [Kept]_vars
  <2> SUFFICES ASSUME SessionInv, Next, NEW d \in DOMAIN rows \cap DOMAIN rows', rows[d] \in Certs
               PROVE  rows'[d] \in Certs
    OBVIOUS
  <2>1. CASE \E c \in Conns : Open(c) \/ ReceiveIdentity(c) \/ ReceiveFrame(c) \/ ReplySent(c)
                                \/ HangUp(c) \/ Stream(c)
    BY <2>1, StreamsKeepPins
  <2>2. CASE \E t \in PeerCalls : PeerCall(t) \/ Handler(t)
    BY <2>2, HandlersKeepPins
  <2>3. CASE \E t \in LocalCalls : LocalCall(t) \/ Handler(t)
    BY <2>3, HandlersKeepPins
  <2>4. CASE \E x \in Devices : LosePin(x)
    BY <2>4 DEF LosePin
  <2> QED
    BY <2>1, <2>2, <2>3, <2>4 DEF Next
<1> QED
  BY <1>1, SessionInit, SessionStep, PTL DEF Spec, PinIsNeverLost

-----------------------------------------------------------------------------
(* Forgetting a device, when nobody forgets it between the awaits of its own calls. *)

\* What ForgottenStaysOut and ForgottenIsCutOff rest on: nobody is about to write the row
\* of a forgotten device, and a stream past the first check has applied nothing since.
CutOff ==
  /\ ForgottenStaysOut
  /\ \A c \in Conns : StreamAt(c, "upsert") => conn[c].dev \notin forgotten
  /\ \A t \in DOMAIN tasks : tasks[t].pc = "upsert" => tasks[t].dev \notin forgotten
  /\ \A c \in Conns : /\ after[c] <= 1
                      /\ StreamAt(c, "gatePin") /\ conn[c].dev \in forgotten => after[c] = 0

LEMMA CutOffInit == Init => CutOff
<1> SUFFICES ASSUME Init PROVE CutOff
  OBVIOUS
<1>1. DOMAIN EmptyMap = {}
  BY DEF EmptyMap
<1> QED
  BY <1>1 DEF Init, CutOff, ForgottenStaysOut, StreamAt

\* A step of a stream keeps a forgotten device out.
LEMMA StreamsKeepOut ==
  ASSUME SessionInv, CutOff, NEW c \in Conns,
         Open(c) \/ ReceiveIdentity(c) \/ ReceiveFrame(c) \/ ReplySent(c) \/ HangUp(c) \/ Stream(c)
  PROVE  CutOff'
<1>0. /\ conn \in [Conns -> Conn] /\ \A x \in Conns : conn[x] \in Conn
      /\ after \in [Conns -> Nat] /\ IsMap(rows, Devices, Cert)
  BY DEF SessionInv, TypeOK
<1>1. UNCHANGED <<tasks, forgotten>>
  BY DEF Open, ReceiveIdentity, ReceiveFrame, ReplySent, HangUp, Stream, LookupIdentity, ghosts,
         UpsertIdentity, GatePaired, Apply, RefusePin, ReplyFails, EndOfStream, Unregister
<1>2. \A x \in Conns : x # c => conn'[x] = conn[x]
  BY <1>0 DEF Open, ReceiveIdentity, ReceiveFrame, ReplySent, HangUp, Stream, LookupIdentity, Goto,
         UpsertIdentity, GatePaired, Apply, RefusePin, ReplyFails, EndOfStream, Unregister
<1>3. ForgottenStaysOut'
  <2>1. CASE UpsertIdentity(c) /\ rows' = Upsert(conn[c].dev)
    <3>1. conn[c].dev \in Devices /\ conn[c].dev \notin forgotten
      BY <2>1 DEF UpsertIdentity, SessionInv, Vouched, TypeOK, CutOff
    <3>2. DOMAIN rows' = DOMAIN rows \cup {conn[c].dev}
      BY <1>0, <2>1, <3>1, UpsertDef
    <3> QED
      BY <1>1, <3>1, <3>2 DEF CutOff, ForgottenStaysOut
  <2>2. CASE ~(UpsertIdentity(c) /\ rows' = Upsert(conn[c].dev))
    <3>1. rows' = rows
      BY <2>2 DEF Open, ReceiveIdentity, ReceiveFrame, ReplySent, HangUp, Stream, LookupIdentity,
                  UpsertIdentity, GatePaired, Apply, RefusePin, ReplyFails, EndOfStream, Unregister
    <3> QED
      BY <1>1, <3>1 DEF CutOff, ForgottenStaysOut
  <2> QED
    BY <2>1, <2>2
<1>4. \/ conn'[c].pc \notin {"upsert", "gatePin"}
      \/ conn'[c].dev = conn[c].dev /\ conn[c].dev \in DOMAIN rows
      \/ conn'[c].dev = conn[c].dev /\ conn'[c].pc = conn[c].pc
  BY <1>0 DEF Open, ReceiveIdentity, ReceiveFrame, ReplySent, HangUp, Stream, LookupIdentity, Goto,
         UpsertIdentity, GatePaired, Apply, RefusePin, ReplyFails, EndOfStream, Unregister, Conn
<1>5. CASE Apply(c)
  <2>1. conn'[c].pc = "reading" /\ StreamAt(c, "gatePin")
    BY <1>0, <1>5 DEF Apply, Goto, Conn
  <2>2. \A x \in Conns : x # c => after'[x] = after[x]
    BY <1>0, <1>5 DEF Apply
  <2>3. after'[c] <= 1
    <3>1. CASE conn[c].dev \in forgotten
      BY <1>0, <1>5, <2>1, <3>1 DEF Apply, CutOff
    <3>2. CASE conn[c].dev \notin forgotten
      BY <1>5, <3>2 DEF Apply, CutOff
    <3> QED
      BY <3>1, <3>2
  <2> QED
    BY <1>1, <1>2, <1>3, <2>1, <2>2, <2>3 DEF CutOff, StreamAt
<1>6. CASE ~Apply(c)
  <2>1. after' = after
    BY <1>6 DEF Open, ReceiveIdentity, ReceiveFrame, ReplySent, HangUp, Stream, LookupIdentity,
           ghosts, UpsertIdentity, GatePaired, RefusePin, ReplyFails, EndOfStream, Unregister
  <2>2. conn'[c].pc = "upsert" => conn'[c].dev \notin forgotten
    BY <1>4 DEF CutOff, ForgottenStaysOut, StreamAt
  <2>3. conn'[c].pc = "gatePin" /\ conn'[c].dev \in forgotten => after[c] = 0
    BY <1>4 DEF CutOff, ForgottenStaysOut, StreamAt
  <2> QED
    BY <1>1, <1>2, <1>3, <2>1, <2>2, <2>3 DEF CutOff, StreamAt
<1> QED
  BY <1>5, <1>6

\* A step of a handler keeps a forgotten device out.
LEMMA HandlersKeepOut ==
  ASSUME SessionInv, CutOff, QuietForget, NEW t \in PeerCalls \cup LocalCalls,
         PeerCall(t) \/ LocalCall(t) \/ Handler(t)
  PROVE  CutOff'
<1>0. /\ IsMap(tasks, PeerCalls \cup LocalCalls, Task) /\ IsMap(rows, Devices, Cert)
      /\ \A x \in DOMAIN tasks : tasks[x] \in Task
      /\ after \in [Conns -> Nat] /\ NoCert \in Cert
  BY DEF SessionInv, TypeOK, IsMap, Cert
<1>1. UNCHANGED conn
  BY DEF PeerCall, Pair, ConfirmPin, LocalCall, ForgetDevice, DisconnectDevice, RecordFingerprint,
         Handler, CreatePending, ConfirmUpsert, SetFingerprint, Collect, DropStream
<1>2. CASE \E d \in Devices, k \in Cert : ConfirmPin(t, d, k)
  <2>1. PICK d \in Devices, k \in Cert : ConfirmPin(t, d, k)
    BY <1>2
  <2>2. /\ DOMAIN tasks' = DOMAIN tasks \cup {t}
        /\ tasks'[t] = [pc |-> "upsert", dev |-> d, cert |-> k, ids |-> {}]
        /\ \A x \in DOMAIN tasks : x # t => tasks'[x] = tasks[x]
    BY <1>0, <2>1, BeginDef DEF ConfirmPin
  <2>3. forgotten' = forgotten \ {d} /\ UNCHANGED <<rows, after>>
    BY <2>1 DEF ConfirmPin
  <2> QED
    BY <1>1, <2>2, <2>3 DEF CutOff, ForgottenStaysOut, StreamAt
<1>3. CASE \E d \in Devices : ForgetDevice(t, d)
  <2>1. PICK d \in Devices : ForgetDevice(t, d)
    BY <1>3
  <2>2. /\ DOMAIN tasks' = DOMAIN tasks \cup {t}
        /\ tasks'[t] = [pc |-> "collect", dev |-> d, cert |-> NoCert, ids |-> {}]
        /\ \A x \in DOMAIN tasks : x # t => tasks'[x] = tasks[x]
    BY <1>0, <2>1, BeginDef DEF ForgetDevice
  <2>3. DOMAIN rows' = DOMAIN rows \ {d} /\ forgotten' = forgotten \cup {d}
    BY <2>1, DropDef DEF ForgetDevice
  <2>4. /\ \A c \in Conns : StreamAt(c, "upsert") => conn[c].dev # d
        /\ \A x \in DOMAIN tasks : tasks[x].pc = "upsert" => tasks[x].dev # d
    BY <2>1 DEF ForgetDevice, Quiet
  <2>5. \A c \in Conns : after'[c] = IF conn[c].dev = d THEN 0 ELSE after[c]
    BY <2>1 DEF ForgetDevice
  <2>6. \A c \in Conns : /\ after'[c] <= 1
                         /\ StreamAt(c, "gatePin") /\ conn[c].dev \in forgotten' => after'[c] = 0
    BY <2>3, <2>5 DEF CutOff
  <2> QED
    BY <1>1, <2>2, <2>3, <2>4, <2>6 DEF CutOff, ForgottenStaysOut, StreamAt
<1>4. CASE ConfirmUpsert(t)
  <2>1. /\ t \in DOMAIN tasks /\ tasks[t].dev \in Devices /\ tasks[t].dev \notin forgotten
    BY <1>0, <1>4 DEF ConfirmUpsert, TaskAt, Task, CutOff
  <2>2. DOMAIN rows' \subseteq DOMAIN rows \cup {tasks[t].dev}
    <3>1. CASE rows' = Upsert(tasks[t].dev)
      BY <1>0, <2>1, <3>1, UpsertDef
    <3> QED
      BY <1>4, <3>1 DEF ConfirmUpsert
  <2>3. \A x \in DOMAIN tasks' : x \in DOMAIN tasks /\ tasks'[x].dev = tasks[x].dev
                                 /\ (tasks'[x].pc = tasks[x].pc \/ tasks'[x].pc # "upsert")
    <3>1. CASE Return(t)
      <4>1. /\ DOMAIN tasks' = DOMAIN tasks \ {t}
            /\ \A x \in DOMAIN tasks' : tasks'[x] = tasks[x]
        BY <1>0, <3>1, ReturnDef
      <4> QED
        BY <4>1
    <3>2. CASE tasks' = [tasks EXCEPT ![t].pc = "pin"]
      BY <1>0, <2>1, <3>2 DEF Task
    <3> QED
      BY <1>4, <3>1, <3>2 DEF ConfirmUpsert
  <2>4. UNCHANGED <<forgotten, after>>
    BY <1>4 DEF ConfirmUpsert, ghosts
  <2> QED
    BY <1>1, <2>1, <2>2, <2>3, <2>4 DEF CutOff, ForgottenStaysOut, StreamAt
<1>5. CASE SetFingerprint(t)
  <2>1. DOMAIN rows' = DOMAIN rows
    BY <1>5 DEF SetFingerprint, Put
  <2>2. /\ DOMAIN tasks' = DOMAIN tasks \ {t}
        /\ \A x \in DOMAIN tasks' : tasks'[x] = tasks[x]
    BY <1>0, <1>5, ReturnDef DEF SetFingerprint
  <2>3. UNCHANGED <<forgotten, after>>
    BY <1>5 DEF SetFingerprint, ghosts
  <2> QED
    BY <1>1, <2>1, <2>2, <2>3 DEF CutOff, ForgottenStaysOut, StreamAt
<1>6. CASE UNCHANGED <<rows, forgotten, after>>
           /\ \A x \in DOMAIN tasks' : tasks'[x].pc = "upsert" =>
                x \in DOMAIN tasks /\ tasks[x].pc = "upsert" /\ tasks'[x].dev = tasks[x].dev
  BY <1>1, <1>6 DEF CutOff, ForgottenStaysOut, StreamAt
<1>7. CASE (\E d \in Devices : Pair(t, d) \/ DisconnectDevice(t, d))
           \/ \E d \in Devices, k \in Certs : RecordFingerprint(t, d, k)
  <2>1. PICK d \in Devices, k \in Cert, pc \in {"create", "collect", "pin"} : Begin(t, pc, d, k)
    <3>1. CASE \E d \in Devices : Pair(t, d) \/ DisconnectDevice(t, d)
      BY <1>0, <3>1 DEF Pair, DisconnectDevice
    <3>2. CASE \E d \in Devices, k \in Certs : RecordFingerprint(t, d, k)
      BY <3>2 DEF RecordFingerprint, Cert
    <3> QED
      BY <1>7, <3>1, <3>2
  <2>2. /\ DOMAIN tasks' = DOMAIN tasks \cup {t}
        /\ tasks'[t] = [pc |-> pc, dev |-> d, cert |-> k, ids |-> {}]
        /\ \A x \in DOMAIN tasks : x # t => tasks'[x] = tasks[x]
    BY <2>1 DEF Begin, Put
  <2>3. UNCHANGED <<rows, forgotten, after>>
    BY <1>7 DEF Pair, DisconnectDevice, RecordFingerprint, ghosts
  <2> QED
    BY <1>6, <2>2, <2>3
<1>8. CASE CreatePending(t) \/ Collect(t) \/ DropStream(t)
  <2>1. UNCHANGED <<rows, forgotten, after>>
    BY <1>8 DEF CreatePending, Collect, DropStream, ghosts
  <2>2. t \in DOMAIN tasks /\ tasks[t] \in Task /\ tasks[t].pc # "upsert"
    BY <1>0, <1>8 DEF CreatePending, Collect, DropStream, TaskAt
  <2>3. CASE Return(t)
    <3>1. /\ DOMAIN tasks' = DOMAIN tasks \ {t}
          /\ \A x \in DOMAIN tasks' : tasks'[x] = tasks[x]
      BY <1>0, <2>3, ReturnDef
    <3> QED
      BY <1>6, <2>1, <3>1
  <2>4. CASE ~Return(t)
    <3>1. /\ DOMAIN tasks' = DOMAIN tasks
          /\ \A x \in DOMAIN tasks : x # t => tasks'[x] = tasks[x]
          /\ tasks'[t].pc # "upsert"
      BY <1>8, <2>2, <2>4 DEF CreatePending, Collect, DropStream, Task
    <3> QED
      BY <1>6, <2>1, <3>1
  <2> QED
    BY <2>3, <2>4
<1> QED
  BY <1>2, <1>3, <1>4, <1>5, <1>7, <1>8 DEF PeerCall, LocalCall, Handler

\* A step of the specification, or a stutter, keeps a forgotten device out.
LEMMA CutOffStep == QuietForget /\ SessionInv /\ CutOff /\ [Next]_vars => CutOff'
<1> SUFFICES ASSUME QuietForget, SessionInv, CutOff, [Next]_vars PROVE CutOff'
  OBVIOUS
<1>1. CASE \E c \in Conns : Open(c) \/ ReceiveIdentity(c) \/ ReceiveFrame(c) \/ ReplySent(c)
                              \/ HangUp(c) \/ Stream(c)
  BY <1>1, StreamsKeepOut
<1>2. CASE \E t \in PeerCalls : PeerCall(t) \/ Handler(t)
  BY <1>2, HandlersKeepOut
<1>3. CASE \E t \in LocalCalls : LocalCall(t) \/ Handler(t)
  BY <1>3, HandlersKeepOut
<1>4. CASE (\E d \in Devices : LosePin(d)) \/ UNCHANGED vars
  <2>1. UNCHANGED <<rows, conn, tasks, forgotten, after>>
    BY <1>4 DEF LosePin, ghosts, vars
  <2> QED
    BY <2>1 DEF CutOff, ForgottenStaysOut, StreamAt
<1> QED
  BY <1>1, <1>2, <1>3, <1>4 DEF Next

\* A forgotten device stays out of the table until it confirms a new PIN, if nobody forgets
\* it between the awaits of its own calls (service.rs, ForgetDevice).
THEOREM ForgottenDevicesStayOut ==
  ASSUME QuietForget
  PROVE  Spec => []ForgottenStaysOut
<1>1. CutOff => ForgottenStaysOut
  BY DEF CutOff
<1>2. SessionInv /\ CutOff /\ [Next]_vars => CutOff'
  BY CutOffStep
<1> QED
  BY <1>1, <1>2, SessionInit, SessionStep, CutOffInit, PTL DEF Spec

\* Under the same condition each open stream of a forgotten device gets at most one more
\* frame applied (service.rs, verify_peer_identity).
THEOREM ForgottenDevicesAreCutOff ==
  ASSUME QuietForget
  PROVE  Spec => []ForgottenIsCutOff
<1>1. CutOff => ForgottenIsCutOff
  BY DEF CutOff, ForgottenIsCutOff
<1>2. SessionInv /\ CutOff /\ [Next]_vars => CutOff'
  BY CutOffStep
<1> QED
  BY <1>1, <1>2, SessionInit, SessionStep, CutOffInit, PTL DEF Spec
-----------------------------------------------------------------------------
(* Who takes a stream off the registry. *)

\* Only the local user's calls collect streams and drop them.
RolesInv == \A t \in DOMAIN tasks : tasks[t].pc \in {"collect", "drop"} => t \in LocalCalls

\* A step of a handler leaves the other handlers alone, and a peer's never comes to drop.
LEMMA RolesStep ==
  ASSUME SessionInv, RolesInv, NEW t \in PeerCalls \cup LocalCalls,
         (t \in PeerCalls /\ PeerCall(t)) \/ (t \in LocalCalls /\ LocalCall(t)) \/ Handler(t)
  PROVE  RolesInv'
<1>0. IsMap(tasks, PeerCalls \cup LocalCalls, Task)
  BY DEF SessionInv, TypeOK
<1>1. ASSUME NEW d \in Devices, NEW k \in Cert, NEW pc \in {"create", "upsert", "pin", "collect", "drop"},
             Begin(t, pc, d, k), pc \in {"collect", "drop"} => t \in LocalCalls
      PROVE  RolesInv'
  <2>1. /\ DOMAIN tasks' = DOMAIN tasks \cup {t}
        /\ tasks'[t] = [pc |-> pc, dev |-> d, cert |-> k, ids |-> {}]
        /\ \A x \in DOMAIN tasks : x # t => tasks'[x] = tasks[x]
    BY <1>0, <1>1, BeginDef
  <2>2. tasks'[t].pc = pc
    BY <2>1
  <2> QED
    BY <1>1, <2>1, <2>2 DEF RolesInv
<1>2. ASSUME Return(t) PROVE RolesInv'
  BY <1>0, <1>2, ReturnDef DEF RolesInv
<1>3. ASSUME DOMAIN tasks' = DOMAIN tasks, \A x \in DOMAIN tasks : x # t => tasks'[x] = tasks[x],
             tasks'[t].pc \in {"collect", "drop"} => t \in LocalCalls
      PROVE  RolesInv'
  BY <1>3 DEF RolesInv
<1>4. NoCert \in Cert /\ Certs \subseteq Cert
  BY DEF Cert
<1>5. CASE t \in PeerCalls /\ PeerCall(t)
  BY <1>1, <1>4, <1>5 DEF PeerCall, Pair, ConfirmPin
<1>6. CASE t \in LocalCalls /\ LocalCall(t)
  BY <1>1, <1>4, <1>6 DEF LocalCall, ForgetDevice, DisconnectDevice, RecordFingerprint
<1>7. CASE CreatePending(t) \/ SetFingerprint(t)
  BY <1>2, <1>7 DEF CreatePending, SetFingerprint
<1>8. CASE ConfirmUpsert(t)
  <2>1. CASE tasks' = [tasks EXCEPT ![t].pc = "pin"]
    <3>1. t \in DOMAIN tasks /\ tasks[t] \in Task
      BY <1>0, <1>8 DEF ConfirmUpsert, TaskAt, IsMap
    <3>2. tasks'[t].pc = "pin"
      BY <2>1, <3>1 DEF Task
    <3> QED
      BY <1>3, <2>1, <3>2
  <2> QED
    BY <1>2, <1>8, <2>1 DEF ConfirmUpsert
<1>9. CASE Collect(t)
  <2>1. t \in LocalCalls /\ t \in DOMAIN tasks
    BY <1>9 DEF Collect, TaskAt, RolesInv
  <2>2. CASE \E s : tasks' = [tasks EXCEPT ![t].pc = "drop", ![t].ids = s]
    BY <1>3, <2>1, <2>2
  <2> QED
    BY <1>2, <1>9, <2>2 DEF Collect
<1>10. CASE DropStream(t)
  <2>1. t \in LocalCalls /\ t \in DOMAIN tasks
    BY <1>10 DEF DropStream, TaskAt, RolesInv
  <2>2. CASE \E s : tasks' = [tasks EXCEPT ![t].ids = s]
    BY <1>3, <2>1, <2>2
  <2> QED
    BY <1>2, <1>10, <2>2 DEF DropStream
<1> QED
  BY <1>5, <1>6, <1>7, <1>8, <1>9, <1>10 DEF Handler

LEMMA RolesAlways == Spec => [](SessionInv /\ RolesInv)
<1>1. Init => RolesInv
  BY DEF Init, RolesInv, EmptyMap
<1>2. SessionInv /\ RolesInv /\ [Next]_vars => RolesInv'
  <2> SUFFICES ASSUME SessionInv, RolesInv, [Next]_vars PROVE RolesInv'
    OBVIOUS
  <2>1. ASSUME NEW c \in Conns,
               Open(c) \/ ReceiveIdentity(c) \/ ReceiveFrame(c) \/ ReplySent(c) \/ HangUp(c) \/ Stream(c)
        PROVE  tasks' = tasks
    BY <2>1 DEF Open, ReceiveIdentity, ReceiveFrame, ReplySent, HangUp, Stream, LookupIdentity,
                UpsertIdentity, GatePaired, Apply, RefusePin, ReplyFails, EndOfStream, Unregister
  <2>2. ASSUME NEW d \in Devices, LosePin(d) PROVE tasks' = tasks
    BY <2>2 DEF LosePin
  <2>3. CASE tasks' = tasks
    BY <2>3 DEF RolesInv
  <2>4. ASSUME NEW t \in PeerCalls, PeerCall(t) \/ Handler(t) PROVE RolesInv'
    BY <2>4, RolesStep
  <2>5. ASSUME NEW t \in LocalCalls, LocalCall(t) \/ Handler(t) PROVE RolesInv'
    BY <2>5, RolesStep
  <2>6. CASE UNCHANGED vars
    BY <2>3, <2>6 DEF vars
  <2> QED
    BY <2>1, <2>2, <2>3, <2>4, <2>5, <2>6 DEF Next
<1> QED
  BY <1>1, <1>2, SessionInit, SessionStep, PTL DEF Spec

\* A stream leaves the registry only by its own end, or by a disconnect or forget of the
\* local user that has collected it: nothing another stream does takes a device offline.
THEOREM StreamsLeaveByThemselves == Spec => OnlyOwnEndGoesOffline
<1> DEFINE Stays == \A c \in senders \cup DOMAIN bound : c \notin senders' \cup DOMAIN bound' => LeavesBy(c)
<1>1. SessionInv /\ RolesInv /\ [Next]_vars => [Stays]_vars
  <2> SUFFICES ASSUME SessionInv, RolesInv, Next PROVE Stays
    OBVIOUS
  <2>1. ASSUME NEW c \in Conns, Unregister(c) PROVE Stays
    BY <2>1 DEF Unregister, LeavesBy, Drop, Restrict
  <2>2. ASSUME NEW c \in Conns, ReceiveIdentity(c) PROVE Stays
    BY <2>2 DEF ReceiveIdentity, Put
  <2>3. ASSUME NEW c \in Conns, Open(c) PROVE Stays
    BY <2>3 DEF Open
  <2>4. ASSUME NEW c \in Conns,
               ReceiveFrame(c) \/ ReplySent(c) \/ HangUp(c) \/ LookupIdentity(c) \/ UpsertIdentity(c)
                 \/ GatePaired(c) \/ Apply(c) \/ RefusePin(c) \/ ReplyFails(c) \/ EndOfStream(c)
        PROVE  UNCHANGED <<senders, bound>>
    BY <2>4 DEF ReceiveFrame, ReplySent, HangUp, LookupIdentity, UpsertIdentity, GatePaired, Apply,
                RefusePin, ReplyFails, EndOfStream
  <2>5. ASSUME NEW t \in PeerCalls \cup LocalCalls, DropStream(t) PROVE Stays
    <3>1. t \in LocalCalls /\ TaskAt(t, "drop")
      BY <2>5 DEF DropStream, TaskAt, RolesInv
    <3>2. PICK c \in tasks[t].ids : senders' = senders \ {c} /\ bound' = Drop(bound, c)
      BY <2>5 DEF DropStream
    <3> QED
      BY <3>1, <3>2 DEF LeavesBy, Drop, Restrict
  <2>6. ASSUME NEW t \in PeerCalls \cup LocalCalls,
               PeerCall(t) \/ LocalCall(t) \/ CreatePending(t) \/ ConfirmUpsert(t) \/ SetFingerprint(t) \/ Collect(t)
        PROVE  UNCHANGED <<senders, bound>>
    BY <2>6 DEF PeerCall, LocalCall, Pair, ConfirmPin, ForgetDevice, DisconnectDevice, RecordFingerprint,
                CreatePending, ConfirmUpsert, SetFingerprint, Collect
  <2>7. \A d \in Devices : LosePin(d) => UNCHANGED <<senders, bound>>
    BY DEF LosePin
  <2>8. UNCHANGED <<senders, bound>> => Stays
    OBVIOUS
  <2> HIDE DEF Stays
  <2> QED
    BY <2>1, <2>2, <2>3, <2>4, <2>5, <2>6, <2>7, <2>8 DEF Next, Stream, Handler
<1> QED
  BY <1>1, RolesAlways, PTL DEF Spec, OnlyOwnEndGoesOffline
-----------------------------------------------------------------------------
(* Discovery: the limiter never hides a device that kept the rate. *)

\* The resolves handled since time s.
Since(r, s) == {n \in DOMAIN r : r[n] >= s}

WindowsAreTrue ==
  /\ IsMap(resolves, Adverts, [start : Nat, count : Nat])
  /\ \A d \in DOMAIN resolves :
       /\ resolves[d].start <= clock
       /\ resolves[d].count <= Cardinality(Since(recent[d], resolves[d].start))

NearbyEvent == [id : Adverts \cup {Unnamed}, addr : Addrs \cup {NoAddr}]

\* The events that wait about device d, and what the last of them says.
Waiting(q, d) == {i \in DOMAIN q : q[i].id = d}
LastTells(q, d, a) ==
  \A i \in Waiting(q, d) : (\A j \in Waiting(q, d) : j <= i) => q[i].addr = a

\* Device d is listed as it is, or a wait or an excuse explains why not.
Followed(d) ==
  /\ LastTells(mdns, d, world[d])
  /\ Waiting(mdns, d) = {} => d \in skipped \/ Nearby(d) = world[d]

NearbyInv ==
  /\ world \in [Adverts -> Addrs \cup {NoAddr}]
  /\ mdns \in Seq(NearbyEvent)
  /\ clock \in Nat /\ recent \in [Adverts -> Seq(Nat)]
  /\ WindowsAreTrue
  /\ Self \notin DOMAIN table
  /\ \A d \in Adverts \ {Self} : Followed(d)

\* One more resolve, now: every count of resolves grows or stays, by one if it reaches to now.
LEMMA SinceAppend ==
  ASSUME NEW r \in Seq(Nat), NEW now \in Nat, NEW s \in Nat
  PROVE  /\ IsFiniteSet(Since(r, s)) /\ Cardinality(Since(r, s)) \in Nat
         /\ Cardinality(Since(Append(r, now), s)) \in Nat
         /\ Cardinality(Since(r, s)) <= Cardinality(Since(Append(r, now), s))
         /\ s <= now => Cardinality(Since(Append(r, now), s)) = Cardinality(Since(r, s)) + 1
<1>1. Len(r) \in Nat /\ DOMAIN r = 1 .. Len(r)
  OBVIOUS
<1>2. IsFiniteSet(Since(r, s))
  <2>1. IsFiniteSet(1 .. Len(r)) /\ Since(r, s) \subseteq 1 .. Len(r)
    BY <1>1, FS_Interval DEF Since
  <2> QED
    BY <2>1, FS_Subset
<1>3. Since(Append(r, now), s) = Since(r, s) \cup {n \in {Len(r) + 1} : now >= s}
  BY AppendPlaces DEF Since
<1>4. Len(r) + 1 \notin Since(r, s)
  BY <1>1 DEF Since
<1>5. Cardinality(Since(r, s)) \in Nat
  BY <1>2, FS_CardinalityType
<1>6. CASE s <= now
  <2>1. Since(Append(r, now), s) = Since(r, s) \cup {Len(r) + 1}
    BY <1>3, <1>6
  <2>2. Cardinality(Since(r, s) \cup {Len(r) + 1}) = Cardinality(Since(r, s)) + 1
    BY <1>2, <1>4, FS_AddElement
  <2> QED
    BY <1>2, <1>5, <2>1, <2>2
<1>7. CASE ~(s <= now)
  <2>1. Since(Append(r, now), s) = Since(r, s)
    BY <1>3, <1>7
  <2> QED
    BY <1>2, <1>5, <1>7, <2>1
<1> QED
  BY <1>6, <1>7

\* Whoever finds the limiter exhausted has exceeded the rate.
LEMMA ExhaustedFloods ==
  ASSUME NearbyInv, NEW d \in Adverts, Exhausted(ResolveLimiter, resolves, d, clock)
  PROVE  Flooding(d)
<1> DEFINE w == resolves[d]
           In == {n \in DOMAIN recent[d] : clock - recent[d][n] < ResolveWindow}
<1>1. /\ d \in DOMAIN resolves /\ w \in [start : Nat, count : Nat] /\ clock \in Nat
      /\ clock - w.start < ResolveWindow /\ w.count >= Resolves
      /\ w.count <= Cardinality(Since(recent[d], w.start))
  BY DEF NearbyInv, WindowsAreTrue, IsMap, Exhausted, Live, ResolveLimiter, Limiter
<1>2. recent[d] \in Seq(Nat) /\ ResolveWindow \in Nat /\ Resolves \in Nat
  BY DiscoveryAssumption DEF NearbyInv
<1>3. \A n \in DOMAIN recent[d] : recent[d][n] \in Nat
  BY <1>2
<1>4. Since(recent[d], w.start) \subseteq In
  BY <1>1, <1>2, <1>3 DEF Since
<1>5. IsFiniteSet(In) /\ Cardinality(In) \in Nat
  <2>1. DOMAIN recent[d] = 1 .. Len(recent[d]) /\ Len(recent[d]) \in Nat
    BY <1>2
  <2>2. IsFiniteSet(1 .. Len(recent[d])) /\ In \subseteq 1 .. Len(recent[d])
    BY <2>1, FS_Interval
  <2>3. IsFiniteSet(In)
    BY <2>2, FS_Subset
  <2> QED
    BY <2>3, FS_CardinalityType
<1>6. Cardinality(Since(recent[d], w.start)) <= Cardinality(In)
  BY <1>4, <1>5, FS_Subset
<1>7. Cardinality(Since(recent[d], w.start)) \in Nat
  BY <1>1, <1>2, SinceAppend
<1> HIDE DEF In, w
<1>8. Cardinality(In) >= Resolves
  BY <1>1, <1>2, <1>5, <1>6, <1>7
<1> QED
  BY <1>8 DEF Flooding, In

\* A counted resolve: the limiter's counts stay below the true ones.
LEMMA CountedTrue ==
  ASSUME NearbyInv, NEW d \in Adverts, UNCHANGED clock,
         recent' = [recent EXCEPT ![d] = Append(@, clock)],
         \/ UNCHANGED resolves
         \/ resolves' = Counted(ResolveLimiter, resolves, d, clock)
  PROVE  WindowsAreTrue' /\ recent' \in [Adverts -> Seq(Nat)]
<1> DEFINE W == [start : Nat, count : Nat]
<1>1. /\ clock \in Nat /\ recent \in [Adverts -> Seq(Nat)] /\ IsMap(resolves, Adverts, W)
      /\ \A e \in DOMAIN resolves :
           /\ e \in Adverts /\ resolves[e] \in W /\ resolves[e].start <= clock
           /\ resolves[e].start \in Nat /\ resolves[e].count \in Nat
           /\ resolves[e].count <= Cardinality(Since(recent[e], resolves[e].start))
  BY DEF NearbyInv, WindowsAreTrue, IsMap
<1>2. /\ recent' \in [Adverts -> Seq(Nat)] /\ recent'[d] = Append(recent[d], clock)
      /\ \A e \in Adverts : e # d => recent'[e] = recent[e]
  BY <1>1
<1>3. \A e \in Adverts : \A s \in Nat :
        /\ Cardinality(Since(recent[e], s)) \in Nat
        /\ Cardinality(Since(recent'[e], s)) \in Nat
        /\ Cardinality(Since(recent[e], s)) <= Cardinality(Since(recent'[e], s))
        /\ e = d /\ s <= clock => Cardinality(Since(recent'[e], s)) = Cardinality(Since(recent[e], s)) + 1
  <2> SUFFICES ASSUME NEW e \in Adverts, NEW s \in Nat
               PROVE  /\ Cardinality(Since(recent[e], s)) \in Nat
                      /\ Cardinality(Since(recent'[e], s)) \in Nat
                      /\ Cardinality(Since(recent[e], s)) <= Cardinality(Since(recent'[e], s))
                      /\ e = d /\ s <= clock =>
                           Cardinality(Since(recent'[e], s)) = Cardinality(Since(recent[e], s)) + 1
    OBVIOUS
  <2>1. recent[e] \in Seq(Nat)
    BY <1>1
  <2>2. CASE e = d
    BY <1>1, <1>2, <2>1, <2>2, SinceAppend
  <2>3. CASE e # d
    <3>1. Cardinality(Since(recent[e], s)) \in Nat
      BY <1>1, <2>1, SinceAppend
    <3> QED
      BY <1>2, <2>3, <3>1
  <2> QED
    BY <2>2, <2>3
\* The entries other than d's are those of before, some of them pruned.
<1>4. /\ IsMap(resolves', Adverts, W)
      /\ \A e \in DOMAIN resolves' : (e \in DOMAIN resolves /\ resolves'[e] = resolves[e]) \/ e = d
      /\ d \in DOMAIN resolves' =>
           \/ d \in DOMAIN resolves /\ resolves'[d] = resolves[d]
           \/ /\ d \in DOMAIN resolves /\ resolves'[d].start = resolves[d].start
              /\ resolves'[d].count = resolves[d].count + 1
           \/ resolves'[d] = [start |-> clock, count |-> 1]
  <2>1. CASE UNCHANGED resolves
    BY <1>1, <2>1
  <2>2. CASE /\ d \in DOMAIN resolves /\ Live(ResolveLimiter, resolves[d], clock)
             /\ resolves' = Put(resolves, d, [resolves[d] EXCEPT !.count = @ + 1])
    <3>1. PICK v : v = [resolves[d] EXCEPT !.count = @ + 1]
      OBVIOUS
    <3>2. v \in W /\ v.start = resolves[d].start /\ v.count = resolves[d].count + 1
      BY <1>1, <2>2, <3>1
    <3>3. resolves' = Put(resolves, d, v)
      BY <2>2, <3>1
    <3> HIDE DEF W
    <3>4. IsMap(resolves', Adverts, W)
      BY <1>1, <3>2, <3>3, PutMap
    <3>5. /\ DOMAIN resolves' = DOMAIN resolves \cup {d} /\ resolves'[d] = v
          /\ \A e \in DOMAIN resolves : e # d => resolves'[e] = resolves[e]
      BY <3>3 DEF Put
    <3> QED
      BY <2>2, <3>2, <3>4, <3>5
  <2>3. CASE \E room : /\ DOMAIN room \subseteq DOMAIN resolves /\ IsMap(room, Adverts, W)
                       /\ \A e \in DOMAIN room : room[e] = resolves[e]
                       /\ resolves' = Put(room, d, [start |-> clock, count |-> 1])
    <3>1. PICK room : /\ DOMAIN room \subseteq DOMAIN resolves /\ IsMap(room, Adverts, W)
                      /\ \A e \in DOMAIN room : room[e] = resolves[e]
                      /\ resolves' = Put(room, d, [start |-> clock, count |-> 1])
      BY <2>3
    <3>2. [start |-> clock, count |-> 1] \in W
      BY <1>1
    <3> HIDE DEF W
    <3>3. IsMap(resolves', Adverts, W)
      BY <3>1, <3>2, PutMap
    <3>4. /\ DOMAIN resolves' = DOMAIN room \cup {d} /\ resolves'[d] = [start |-> clock, count |-> 1]
          /\ \A e \in DOMAIN room : e # d => resolves'[e] = room[e]
      BY <3>1 DEF Put
    <3> QED
      BY <3>1, <3>3, <3>4
  <2>4. IsMap(Pruned(ResolveLimiter, resolves, clock), Adverts, W)
        /\ DOMAIN Pruned(ResolveLimiter, resolves, clock) \subseteq DOMAIN resolves
        /\ \A e \in DOMAIN Pruned(ResolveLimiter, resolves, clock) :
             Pruned(ResolveLimiter, resolves, clock)[e] = resolves[e]
    BY <1>1, EmptyIsMap DEF Pruned, Restrict, IsMap
  <2> QED
    BY <1>1, <2>1, <2>2, <2>3, <2>4 DEF Counted
<1>5. ASSUME NEW e \in DOMAIN resolves'
      PROVE  /\ resolves'[e].start <= clock
             /\ resolves'[e].count <= Cardinality(Since(recent'[e], resolves'[e].start))
  <2>1. CASE e \in DOMAIN resolves /\ resolves'[e] = resolves[e]
    BY <1>1, <1>3, <2>1
  <2>2. CASE /\ e = d /\ d \in DOMAIN resolves /\ resolves'[d].start = resolves[d].start
             /\ resolves'[d].count = resolves[d].count + 1
    <3> DEFINE s == resolves[d].start
    <3>1. s \in Nat /\ s <= clock /\ resolves[d].count <= Cardinality(Since(recent[d], s))
      BY <1>1, <2>2
    <3>2. Cardinality(Since(recent'[d], s)) = Cardinality(Since(recent[d], s)) + 1
      BY <1>3, <3>1
    <3>3. Cardinality(Since(recent[d], s)) \in Nat /\ resolves[d].count \in Nat
      BY <1>1, <1>3, <2>2
    <3>4. resolves[d].count + 1 <= Cardinality(Since(recent'[d], s))
      BY <3>1, <3>2, <3>3
    <3> QED
      BY <2>2, <3>1, <3>4
  <2>3. CASE e = d /\ resolves'[d] = [start |-> clock, count |-> 1]
    <3>1. resolves'[e].start = clock /\ resolves'[e].count = 1
      BY <2>3
    <3> QED
      BY <1>1, <1>3, <2>3, <3>1
  <2> QED
    BY <1>4, <1>5, <2>1, <2>2, <2>3
<1> QED
  BY <1>2, <1>4, <1>5 DEF WindowsAreTrue
\* An event joins the queue: it is the last word about its device and none about another.
LEMMA EventJoins ==
  ASSUME NEW q \in Seq(NearbyEvent), NEW m \in NearbyEvent, NEW d, NEW a
  PROVE  /\ m.id = d => LastTells(Append(q, m), d, m.addr) /\ Waiting(Append(q, m), d) # {}
         /\ m.id # d => /\ LastTells(q, d, a) => LastTells(Append(q, m), d, a)
                        /\ Waiting(Append(q, m), d) = Waiting(q, d)
<1> DEFINE r == Append(q, m)
<1>1. /\ \A i \in DOMAIN q : i \in Nat /\ i <= Len(q) /\ i \in DOMAIN r /\ r[i] = q[i]
      /\ \A i \in DOMAIN r : i \in Nat /\ (i = Len(q) + 1 \/ i \in DOMAIN q)
      /\ Len(q) + 1 \in DOMAIN r /\ r[Len(q) + 1] = m /\ Len(q) \in Nat
  BY AppendPlaces
<1> HIDE DEF r
<1>2. ASSUME m.id = d PROVE LastTells(r, d, m.addr) /\ Waiting(r, d) # {}
  <2>1. Len(q) + 1 \in Waiting(r, d)
    BY <1>1, <1>2 DEF Waiting
  <2>2. \A i \in Waiting(r, d) : Len(q) + 1 <= i => i = Len(q) + 1
    BY <1>1 DEF Waiting
  <2> QED
    BY <1>1, <2>1, <2>2 DEF LastTells
<1>3. ASSUME m.id # d PROVE (LastTells(q, d, a) => LastTells(r, d, a)) /\ Waiting(r, d) = Waiting(q, d)
  <2>1. Waiting(r, d) = Waiting(q, d)
    BY <1>1, <1>3 DEF Waiting
  <2>2. \A i \in Waiting(q, d) : r[i] = q[i]
    BY <1>1 DEF Waiting
  <2> QED
    BY <2>1, <2>2 DEF LastTells
<1> QED
  BY <1>2, <1>3 DEF r

\* The head of the queue is handled: it was the last word about its device if none waits.
LEMMA EventLeaves ==
  ASSUME NEW q \in Seq(NearbyEvent), q # <<>>, NEW d, NEW a, LastTells(q, d, a)
  PROVE  /\ Tail(q) \in Seq(NearbyEvent) /\ Head(q) \in NearbyEvent
         /\ LastTells(Tail(q), d, a)
         /\ Waiting(Tail(q), d) = {} => Waiting(q, d) = {} \/ (Head(q).id = d /\ Head(q).addr = a)
<1> DEFINE r == Tail(q)
<1>1. /\ r \in Seq(NearbyEvent) /\ Head(q) \in NearbyEvent /\ Head(q) = q[1]
      /\ \A i \in Waiting(r, d) : i \in Nat /\ i + 1 \in Waiting(q, d) /\ r[i] = q[i + 1]
      /\ \A i \in Waiting(q, d) : i \in Nat /\ (i = 1 \/ i - 1 \in Waiting(r, d))
  BY TailPlaces DEF Waiting
<1> HIDE DEF r
<1>2. ASSUME NEW i \in Waiting(r, d), \A j \in Waiting(r, d) : j <= i PROVE r[i].addr = a
  <2>1. \A j \in Waiting(q, d) : j <= i + 1
    BY <1>1, <1>2
  <2> QED
    BY <1>1, <1>2, <2>1 DEF LastTells
<1>3. ASSUME Waiting(r, d) = {}, Waiting(q, d) # {} PROVE Head(q).id = d /\ Head(q).addr = a
  <2>1. 1 \in Waiting(q, d) /\ \A j \in Waiting(q, d) : j <= 1
    BY <1>1, <1>3
  <2> QED
    BY <1>1, <2>1 DEF LastTells, Waiting
<1>4. LastTells(r, d, a)
  BY <1>2 DEF LastTells
<1> QED
  BY <1>1, <1>3, <1>4 DEF r

LEMMA NearbyStart == NearbyInit => NearbyInv
<1> SUFFICES ASSUME NearbyInit PROVE NearbyInv
  OBVIOUS
<1>1. (CHOOSE a \in Addrs : TRUE) \in Addrs
  BY DiscoveryAssumption
<1>2. world \in [Adverts -> Addrs \cup {NoAddr}] /\ world[Self] \in Addrs
  BY <1>1, DiscoveryAssumption DEF NearbyInit
<1>3. mdns \in Seq(NearbyEvent) /\ \A i \in DOMAIN mdns : mdns[i].id = Self
  BY <1>2, DiscoveryAssumption DEF NearbyInit, NearbyEvent
<1>4. clock \in Nat /\ recent \in [Adverts -> Seq(Nat)] /\ table = EmptyMap /\ resolves = EmptyMap
  BY DEF NearbyInit
<1>5. DOMAIN table = {} /\ WindowsAreTrue
  BY <1>4, EmptyIsMap DEF WindowsAreTrue
<1>6. ASSUME NEW d \in Adverts \ {Self} PROVE Followed(d)
  <2>1. Waiting(mdns, d) = {}
    BY <1>3 DEF Waiting
  <2>2. world[d] = NoAddr /\ Nearby(d) = NoAddr
    BY <1>5 DEF NearbyInit, Nearby
  <2> QED
    BY <2>1, <2>2 DEF Followed, LastTells
<1> QED
  BY <1>2, <1>3, <1>4, <1>5, <1>6 DEF NearbyInv, NearbyEvent

\* The network tells of device d: its event is the last, and about the others nothing changes.
LEMMA ToldKeeps ==
  ASSUME NearbyInv, NEW m \in NearbyEvent, mdns' = Append(mdns, m),
         m.id \in Adverts => world' = [world EXCEPT ![m.id] = m.addr],
         m.id \notin Adverts => world' = world,
         UNCHANGED <<table, resolves, clock, recent, skipped>>
  PROVE  NearbyInv'
<1>1. mdns \in Seq(NearbyEvent) /\ world \in [Adverts -> Addrs \cup {NoAddr}]
  BY DEF NearbyInv, NearbyEvent
<1>2. mdns' \in Seq(NearbyEvent) /\ world' \in [Adverts -> Addrs \cup {NoAddr}]
  BY <1>1, AppendPlaces DEF NearbyEvent
<1>3. WindowsAreTrue'
  BY DEF NearbyInv, WindowsAreTrue
<1>4. ASSUME NEW d \in Adverts \ {Self} PROVE Followed(d)'
  <2>1. Followed(d) /\ Nearby(d)' = Nearby(d)
    BY DEF NearbyInv, Nearby
  <2>2. CASE m.id = d
    <3>1. world'[d] = m.addr
      BY <1>1, <2>2
    <3> QED
      BY <1>1, <2>2, <3>1, EventJoins DEF Followed
  <2>3. CASE m.id # d
    <3>1. world'[d] = world[d]
      BY <1>1, <2>3
    <3>2. LastTells(mdns', d, world[d]) /\ Waiting(mdns', d) = Waiting(mdns, d)
      BY <1>1, <2>1, <2>3, EventJoins DEF Followed
    <3> QED
      BY <2>1, <3>1, <3>2 DEF Followed
  <2> QED
    BY <2>2, <2>3
<1> QED
  BY <1>2, <1>3, <1>4 DEF NearbyInv, NearbyEvent

\* The browser thread handles its next event: of the devices it does not name nothing
\* changes, and the one it names is listed as the event says, or excused.
LEMMA HandledKeeps ==
  ASSUME NearbyInv, mdns # <<>>, mdns' = Tail(mdns), UNCHANGED <<world, clock>>,
         recent' \in [Adverts -> Seq(Nat)], WindowsAreTrue', Self \notin DOMAIN table',
         \A d \in Adverts \ {Next1.id} :
            /\ d \in DOMAIN table' <=> d \in DOMAIN table
            /\ d \in DOMAIN table => table'[d] = table[d]
            /\ d \in skipped => d \in skipped',
         Next1.id \in Adverts \ {Self} =>
            \/ Next1.id \in skipped'
            \/ Next1.id \in DOMAIN table' /\ table'[Next1.id] = Next1.addr
            \/ Next1.id \notin DOMAIN table' /\ Next1.addr = NoAddr
  PROVE  NearbyInv'
<1>1. mdns \in Seq(NearbyEvent)
  BY DEF NearbyInv, NearbyEvent
<1>2. mdns' \in Seq(NearbyEvent)
  BY <1>1, TailPlaces
<1>3. ASSUME NEW d \in Adverts \ {Self} PROVE Followed(d)'
  <2>1. Followed(d)
    BY DEF NearbyInv
  <2>2. /\ LastTells(mdns', d, world[d])
        /\ Waiting(mdns', d) = {} => Waiting(mdns, d) = {} \/ (Next1.id = d /\ Next1.addr = world[d])
    BY <1>1, <2>1, EventLeaves DEF Followed, Next1
  <2>3. Waiting(mdns, d) = {} => Next1.id # d
    BY <1>1, TailPlaces DEF Waiting, Next1
  <2>4. Waiting(mdns', d) = {} => d \in skipped' \/ Nearby(d)' = world[d]
    <3>1. CASE Waiting(mdns, d) = {}
      <4>1. d \in Adverts \ {Next1.id} /\ (d \in skipped \/ Nearby(d) = world[d])
        BY <2>1, <2>3, <3>1 DEF Followed
      <4> QED
        BY <4>1 DEF Nearby
    <3>2. CASE Next1.id = d /\ Next1.addr = world[d]
      BY <3>2 DEF Nearby
    <3> QED
      BY <2>2, <3>1, <3>2
  <2> QED
    BY <2>2, <2>4 DEF Followed
<1> QED
  BY <1>2, <1>3 DEF NearbyInv, NearbyEvent
\* No step of the network, of the browser thread or of time breaks it.
LEMMA NearbyStep == NearbyInv /\ [NearbyNext]_nearbyVars => NearbyInv'
<1> SUFFICES ASSUME NearbyInv, [NearbyNext]_nearbyVars PROVE NearbyInv'
  OBVIOUS
<1>1. /\ mdns \in Seq(NearbyEvent) /\ world \in [Adverts -> Addrs \cup {NoAddr}] /\ clock \in Nat
      /\ recent \in [Adverts -> Seq(Nat)] /\ Self \notin DOMAIN table
      /\ mdns # <<>> => Next1 \in NearbyEvent
  BY TailPlaces DEF NearbyInv, NearbyEvent, Next1
<1>2. ASSUME NEW d \in Adverts, NEW a \in Addrs \cup {NoAddr}, mdns' = Append(mdns, [id |-> d, addr |-> a]),
             world' = [world EXCEPT ![d] = a], UNCHANGED <<table, resolves, clock, recent, skipped>>
      PROVE  NearbyInv'
  <2>1. PICK m : m = [id |-> d, addr |-> a]
    OBVIOUS
  <2>2. m \in NearbyEvent /\ m.id = d /\ m.addr = a
    BY <2>1 DEF NearbyEvent
  <2> QED
    BY <1>2, <2>1, <2>2, ToldKeeps
<1>3. ASSUME NEW d \in Adverts, NEW a \in Addrs, Advertise(d, a) PROVE NearbyInv'
  BY <1>2, <1>3 DEF Advertise
<1>4. ASSUME NEW d \in Adverts, Withdraw(d) PROVE NearbyInv'
  BY <1>2, <1>4 DEF Withdraw
<1>5. CASE AdvertiseUnnamed
  <2>1. PICK a \in Addrs : mdns' = Append(mdns, [id |-> Unnamed, addr |-> a])
    BY <1>5 DEF AdvertiseUnnamed
  <2>2. PICK m : m = [id |-> Unnamed, addr |-> a]
    OBVIOUS
  <2>3. m \in NearbyEvent /\ m.id \notin Adverts
    BY <2>2, DiscoveryAssumption DEF NearbyEvent
  <2>4. UNCHANGED <<world, table, resolves, clock, recent, skipped>>
    BY <1>5 DEF AdvertiseUnnamed
  <2> QED
    BY <2>1, <2>2, <2>3, <2>4, ToldKeeps
<1>6. ASSUME UNCHANGED <<world, mdns, table, resolves, recent, skipped>>, clock' \in {clock, clock + 1}
      PROVE  NearbyInv'
  <2>1. clock' \in Nat /\ clock <= clock'
    BY <1>1, <1>6
  <2>2. WindowsAreTrue'
    BY <1>1, <1>6, <2>1 DEF NearbyInv, WindowsAreTrue, IsMap
  <2>3. \A d \in Adverts \ {Self} : Followed(d)'
    BY <1>6 DEF NearbyInv, Followed, Nearby
  <2> QED
    BY <1>1, <1>6, <2>1, <2>2, <2>3 DEF NearbyInv, NearbyEvent
<1>7. CASE Ignore
  <2>1. /\ mdns # <<>> /\ mdns' = Tail(mdns) /\ Next1.id \in {Unnamed, Self}
        /\ UNCHANGED <<world, table, resolves, clock, recent, skipped>>
    BY <1>7 DEF Ignore
  <2>2. WindowsAreTrue'
    BY <2>1 DEF NearbyInv, WindowsAreTrue
  <2> QED
    BY <1>1, <2>1, <2>2, HandledKeeps, DiscoveryAssumption
<1>8. CASE Resolved
  <2> DEFINE d == Next1.id
  <2>1. /\ mdns # <<>> /\ mdns' = Tail(mdns) /\ d \in Adverts \ {Self} /\ UNCHANGED <<world, clock>>
        /\ recent' = [recent EXCEPT ![d] = Append(@, clock)]
        /\ skipped' = IF Flooding(d) \/ CrowdedOut(d) THEN skipped \cup {d} ELSE skipped \ {d}
    BY <1>1, <1>8 DEF Resolved, NearbyEvent
  <2>2. CASE Exhausted(ResolveLimiter, resolves, d, clock)
    <3>1. UNCHANGED <<table, resolves>> /\ d \in skipped'
      BY <1>8, <2>1, <2>2, ExhaustedFloods DEF Resolved
    <3>2. WindowsAreTrue' /\ recent' \in [Adverts -> Seq(Nat)]
      BY <2>1, <3>1, CountedTrue
    <3> QED
      BY <1>1, <2>1, <3>1, <3>2, HandledKeeps
  <2>3. CASE ~Exhausted(ResolveLimiter, resolves, d, clock)
    <3>1. /\ resolves' = Counted(ResolveLimiter, resolves, d, clock)
          /\ table' = IF CrowdedOut(d) THEN table ELSE Put(table, d, Next1.addr)
      BY <1>8, <2>3 DEF Resolved
    <3>2. WindowsAreTrue' /\ recent' \in [Adverts -> Seq(Nat)]
      BY <2>1, <3>1, CountedTrue
    <3>3. CASE CrowdedOut(d)
      BY <1>1, <2>1, <3>1, <3>2, <3>3, HandledKeeps
    <3>4. CASE ~CrowdedOut(d)
      <4>1. /\ DOMAIN table' = DOMAIN table \cup {d} /\ table'[d] = Next1.addr
            /\ \A e \in DOMAIN table : e # d => table'[e] = table[e]
        BY <3>1, <3>4 DEF Put
      <4>2. \A e \in Adverts \ {d} : e \in skipped => e \in skipped'
        BY <2>1
      <4> QED
        BY <1>1, <2>1, <3>2, <4>1, <4>2, HandledKeeps
    <3> QED
      BY <3>3, <3>4
  <2> QED
    BY <2>2, <2>3
<1>9. CASE Removed
  <2>1. /\ mdns # <<>> /\ mdns' = Tail(mdns) /\ Next1.addr = NoAddr /\ UNCHANGED <<world, resolves, clock, recent>>
        /\ table' = Drop(table, Next1.id) /\ skipped' = skipped \ {Next1.id}
    BY <1>9 DEF Removed
  <2>2. WindowsAreTrue'
    BY <2>1 DEF NearbyInv, WindowsAreTrue
  <2>3. /\ DOMAIN table' = DOMAIN table \ {Next1.id}
        /\ \A e \in DOMAIN table : e # Next1.id => table'[e] = table[e]
    BY <2>1 DEF Drop, Restrict
  <2> QED
    BY <1>1, <2>1, <2>2, <2>3, HandledKeeps
<1>10. CASE Pass
  BY <1>6, <1>10 DEF Pass
<1>11. CASE UNCHANGED nearbyVars
  BY <1>6, <1>11 DEF nearbyVars
<1> QED
  BY <1>3, <1>4, <1>5, <1>7, <1>8, <1>9, <1>10, <1>11 DEF NearbyNext

\* Once its events are handled, a device is listed where it is, or not at all when it has
\* gone, whatever other devices do, however many keys the limiter pruned, and however
\* many devices there are; only its own flood or a full table excuses it.
THEOREM NearbyIsTrue == NearbySpec => []NearbyAgrees
<1>1. NearbyInv => NearbyAgrees
  BY DEF NearbyInv, NearbyAgrees, Followed, Waiting
<1> QED
  BY <1>1, NearbyStart, NearbyStep, PTL DEF NearbySpec
=============================================================================
