---------------------------- MODULE PeerSessions ----------------------------
(***************************************************************************)
(* Who is paired, who is online and whose frames are applied: the devices  *)
(* table, the PeerRegistry, the stream task of every SyncStream connection *)
(* and the RPCs that change them, Pair, ConfirmPin, RecordFingerprint,     *)
(* DisconnectDevice and ForgetDevice (daemon/src/grpc/service.rs,          *)
(* db/repository.rs).  Every database call is awaited and every lock is    *)
(* taken for one operation, so each of them is a step (unregister takes    *)
(* two, which is one step here: nothing reads both maps).  PINs are those  *)
(* of Pairing, reduced to whether one is pending.                          *)
(***************************************************************************)
EXTENDS HashMaps, Naturals, FiniteSets

CONSTANTS
  Devices,
  Certs,      \* fingerprints of certificates
  NoCert,     \* no certificate presented, or no fingerprint pinned
  NoDevice,   \* "unknown"
  Conns,      \* connection ids
  CertOf,     \* [Conns -> the certificate the connection presents]
  PeerCalls,  \* handlers of peers' RPCs that run at once
  LocalCalls, \* handlers of the local UI's RPCs that run at once
  DbMayFail,  \* whether a database call may return an error
  QuietForget \* assumption: nobody forgets a device between the awaits of its own calls

ASSUME SessionAssumption ==
  /\ NoCert \notin Certs /\ NoDevice \notin Devices
  /\ CertOf \in [Conns -> Certs \cup {NoCert}] /\ PeerCalls \cap LocalCalls = {}
  /\ <<DbMayFail, QuietForget>> \in BOOLEAN \X BOOLEAN

VARIABLES
  rows,      \* the devices table: device -> cert_fingerprint
  pinned,    \* devices with a pending PIN
  conn,      \* [Conns -> the stream task and its client]
  senders,   \* PeerRegistry.senders
  bound,     \* PeerRegistry.devices: connection -> device
  tasks,     \* running RPC handlers: task -> where it is
  proven,    \* ghost: device and certificate of every ConfirmPin or RecordFingerprint
  forgotten, \* ghost: devices forgotten and not confirmed since
  after      \* ghost: [Conns -> frames applied since the device was forgotten]

vars == <<rows, pinned, conn, senders, bound, tasks, proven, forgotten, after>>
ghosts == <<proven, forgotten, after>>

Cert == Certs \cup {NoCert}
StreamStep == {"new", "reading", "identified", "upsert", "gate", "gatePin", "reply",
               "leaving", "closed"}
Active == {"reading", "identified", "upsert", "gate", "gatePin", "reply"}
Conn == [pc : StreamStep,
         dev : Devices \cup {NoDevice},            \* peer_device_id
         gone : BOOLEAN]
Task == [pc : {"create", "upsert", "pin", "collect", "drop"},
         dev : Devices, cert : Cert, ids : SUBSET Conns]

\* Every row, stream and handler is well typed, and the registry holds only streams
\* that were opened.
TypeOK ==
  /\ IsMap(rows, Devices, Cert) /\ pinned \subseteq Devices
  /\ conn \in [Conns -> Conn]
  /\ senders \subseteq Conns /\ IsMap(bound, Conns, Devices)
  /\ IsMap(tasks, PeerCalls \cup LocalCalls, Task)
  /\ proven \subseteq Devices \X Cert /\ forgotten \subseteq Devices
  /\ after \in [Conns -> Nat]
  /\ \A c \in senders \cup DOMAIN bound : conn[c].pc # "new"

Init ==
  /\ rows = EmptyMap /\ pinned = {}
  /\ conn = [c \in Conns |-> [pc |-> "new", dev |-> NoDevice, gone |-> FALSE]]
  /\ senders = {} /\ bound = EmptyMap /\ tasks = EmptyMap
  /\ proven = {} /\ forgotten = {} /\ after = [c \in Conns |-> 0]

StreamAt(c, pc) == conn[c].pc = pc
Goto(c, pc) == conn' = [conn EXCEPT ![c].pc = pc]
TaskAt(t, pc) == t \in DOMAIN tasks /\ tasks[t].pc = pc
Begin(t, pc, d, k) == tasks' = Put(tasks, t, [pc |-> pc, dev |-> d, cert |-> k, ids |-> {}])
Return(t) == tasks' = Drop(tasks, t)
Free(t) == t \notin DOMAIN tasks

UpsertReplaceMut(d) == Put(rows, d, NoCert)
\* upsert_paired: the row of d, new or with the pin it had.
Upsert(d) == IF d \in DOMAIN rows THEN rows ELSE Put(rows, d, NoCert)

-----------------------------------------------------------------------------
(* sync_stream: the stream task of connection c. *)

OpenBindsMut(c) ==
  /\ StreamAt(c, "new")
  /\ Goto(c, "reading")
  /\ senders' = senders \cup {c} /\ bound' = Put(bound, c, conn[c].dev)
  /\ UNCHANGED <<rows, pinned, tasks, ghosts>>
Open(c) ==
  /\ StreamAt(c, "new")
  /\ Goto(c, "reading")
  /\ senders' = senders \cup {c}
  /\ UNCHANGED <<rows, pinned, bound, tasks, ghosts>>

\* An Identity frame binds the stream, whoever it claims to be.
ReceiveIdentity(c) ==
  /\ StreamAt(c, "reading") /\ ~conn[c].gone
  /\ \E d \in Devices :
       /\ conn' = [conn EXCEPT ![c].pc = "identified", ![c].dev = d]
       /\ bound' = Put(bound, c, d)
  /\ UNCHANGED <<rows, pinned, senders, tasks, ghosts>>

LookupIdentityAnyMut(c) ==
  /\ StreamAt(c, "identified")
  /\ Goto(c, "upsert")
  /\ UNCHANGED <<rows, pinned, senders, bound, tasks, ghosts>>
LookupIdentity(c) ==
  /\ StreamAt(c, "identified")
  /\ \/ conn[c].dev \in DOMAIN rows /\ Goto(c, "upsert")
     \/ (conn[c].dev \notin DOMAIN rows \/ DbMayFail) /\ Goto(c, "reply")
  /\ UNCHANGED <<rows, pinned, senders, bound, tasks, ghosts>>

UpsertIdentity(c) ==
  /\ StreamAt(c, "upsert")
  /\ rows' = Upsert(conn[c].dev) \/ (DbMayFail /\ rows' = rows)
  /\ Goto(c, "reply")
  /\ UNCHANGED <<pinned, senders, bound, tasks, ghosts>>

\* Any other frame goes through verify_peer_identity.
ReceiveFrame(c) ==
  /\ StreamAt(c, "reading") /\ ~conn[c].gone
  /\ Goto(c, "gate")
  /\ UNCHANGED <<rows, pinned, senders, bound, tasks, ghosts>>

GatePinOnlyMut(c) ==
  /\ StreamAt(c, "gate")
  /\ Goto(c, IF conn[c].dev = NoDevice THEN "reply" ELSE "gatePin")
  /\ UNCHANGED <<rows, pinned, senders, bound, tasks, ghosts>>
GatePaired(c) ==
  /\ StreamAt(c, "gate")
  /\ \/ conn[c].dev \in DOMAIN rows /\ Goto(c, "gatePin")
     \/ (conn[c].dev \notin DOMAIN rows \/ DbMayFail) /\ Goto(c, "reply")
  /\ UNCHANGED <<rows, pinned, senders, bound, tasks, ghosts>>

PinOf(d) == IF d \in DOMAIN rows THEN rows[d] ELSE NoCert

\* A missing row, a missing pin and a failed lookup all pass; the frame is applied.
Apply(c) ==
  /\ StreamAt(c, "gatePin")
  /\ PinOf(conn[c].dev) \in {NoCert, CertOf[c]} \/ DbMayFail
  /\ Goto(c, "reading")
  /\ after' = IF conn[c].dev \in forgotten THEN [after EXCEPT ![c] = @ + 1] ELSE after
  /\ UNCHANGED <<rows, pinned, senders, bound, tasks, proven, forgotten>>

RefusePin(c) ==
  /\ StreamAt(c, "gatePin")
  /\ PinOf(conn[c].dev) \notin {NoCert, CertOf[c]}
  /\ Goto(c, "reply")
  /\ UNCHANGED <<rows, pinned, senders, bound, tasks, ghosts>>

\* The echo or the error is sent into the bounded channel: it waits for as long as the
\* client does not read, and fails when it is gone.
ReplySent(c) ==
  /\ StreamAt(c, "reply") /\ ~conn[c].gone
  /\ Goto(c, "reading")
  /\ UNCHANGED <<rows, pinned, senders, bound, tasks, ghosts>>

ReplyFailsRetriesMut(c) ==
  /\ StreamAt(c, "reply") /\ conn[c].gone
  /\ Goto(c, "reply")
  /\ UNCHANGED <<rows, pinned, senders, bound, tasks, ghosts>>
ReplyFails(c) ==
  /\ StreamAt(c, "reply") /\ conn[c].gone
  /\ Goto(c, "leaving")
  /\ UNCHANGED <<rows, pinned, senders, bound, tasks, ghosts>>

EndOfStream(c) ==
  /\ StreamAt(c, "reading") /\ conn[c].gone
  /\ Goto(c, "leaving")
  /\ UNCHANGED <<rows, pinned, senders, bound, tasks, ghosts>>

UnregisterDeviceMut(c) ==
  /\ StreamAt(c, "leaving")
  /\ senders' = senders \ {c}
  /\ bound' = Restrict(bound, {x \in DOMAIN bound : bound[x] # conn[c].dev})
  /\ Goto(c, "closed")
  /\ UNCHANGED <<rows, pinned, tasks, ghosts>>
UnregisterSenderMut(c) ==
  /\ StreamAt(c, "leaving")
  /\ senders' = senders \ {c}
  /\ Goto(c, "closed")
  /\ UNCHANGED <<rows, pinned, bound, tasks, ghosts>>
Unregister(c) ==
  /\ StreamAt(c, "leaving")
  /\ senders' = senders \ {c}
  /\ bound' = Drop(bound, c)
  /\ Goto(c, "closed")
  /\ UNCHANGED <<rows, pinned, tasks, ghosts>>

HangUp(c) ==
  /\ conn[c].pc \in Active /\ ~conn[c].gone
  /\ conn' = [conn EXCEPT ![c].gone = TRUE]
  /\ UNCHANGED <<rows, pinned, senders, bound, tasks, ghosts>>

-----------------------------------------------------------------------------
(* The RPC handlers. *)

\* A paired device is accepted without a PIN, whatever certificate it has now.
Pair(t, d) ==
  /\ Free(t) /\ d \notin DOMAIN rows
  /\ Begin(t, "create", d, NoCert)
  /\ UNCHANGED <<rows, pinned, conn, senders, bound, ghosts>>

\* create_pending, which may refuse; a PIN also goes by itself.
CreatePending(t) ==
  /\ TaskAt(t, "create")
  /\ pinned' \in {pinned, pinned \cup {tasks[t].dev}}
  /\ Return(t)
  /\ UNCHANGED <<rows, conn, senders, bound, ghosts>>

LosePin(d) ==
  /\ d \in pinned
  /\ pinned' = pinned \ {d}
  /\ UNCHANGED <<rows, conn, senders, bound, tasks, ghosts>>

ConfirmPin(t, d, k) ==
  /\ Free(t) /\ d \in pinned
  /\ pinned' = pinned \ {d}
  /\ Begin(t, "upsert", d, k)
  /\ proven' = proven \cup {<<d, k>>}
  /\ forgotten' = forgotten \ {d}
  /\ UNCHANGED <<rows, conn, senders, bound, after>>

ConfirmUpsert(t) ==
  /\ TaskAt(t, "upsert")
  /\ \/ /\ rows' = Upsert(tasks[t].dev)
        /\ IF tasks[t].cert = NoCert THEN Return(t) ELSE tasks' = [tasks EXCEPT ![t].pc = "pin"]
     \/ DbMayFail /\ rows' = rows /\ Return(t)
  /\ UNCHANGED <<pinned, conn, senders, bound, ghosts>>

RecordFingerprint(t, d, k) ==
  /\ Free(t) /\ d \in DOMAIN rows
  /\ Begin(t, "pin", d, k)
  /\ proven' = proven \cup {<<d, k>>}
  /\ UNCHANGED <<rows, pinned, conn, senders, bound, forgotten, after>>

SetFingerprintInsertMut(t) ==
  /\ TaskAt(t, "pin")
  /\ rows' = Put(rows, tasks[t].dev, tasks[t].cert)
  /\ Return(t)
  /\ UNCHANGED <<pinned, conn, senders, bound, ghosts>>
\* An UPDATE: nothing happens if the row is gone.
SetFingerprint(t) ==
  /\ TaskAt(t, "pin")
  /\ LET d == tasks[t].dev IN
       rows' \in {IF d \in DOMAIN rows THEN Put(rows, d, tasks[t].cert) ELSE rows}
                   \cup (IF DbMayFail THEN {rows} ELSE {})
  /\ Return(t)
  /\ UNCHANGED <<pinned, conn, senders, bound, ghosts>>

Quiet(d) ==
  /\ \A c \in Conns : StreamAt(c, "upsert") => conn[c].dev # d
  /\ \A t \in DOMAIN tasks : tasks[t].pc = "upsert" => tasks[t].dev # d

ForgetDevice(t, d) ==
  /\ Free(t) /\ d \in DOMAIN rows
  /\ QuietForget => Quiet(d)
  /\ rows' = Drop(rows, d)
  /\ Begin(t, "collect", d, NoCert)
  /\ forgotten' = forgotten \cup {d}
  /\ after' = [c \in Conns |-> IF conn[c].dev = d THEN 0 ELSE after[c]]
  /\ UNCHANGED <<pinned, conn, senders, bound, proven>>

DisconnectDevice(t, d) ==
  /\ Free(t)
  /\ Begin(t, "collect", d, NoCert)
  /\ UNCHANGED <<rows, pinned, conn, senders, bound, ghosts>>

\* The streams are collected under one lock and removed under others.
Collect(t) ==
  /\ TaskAt(t, "collect")
  /\ LET ids == {c \in DOMAIN bound : bound[c] = tasks[t].dev} IN
       IF ids = {} THEN Return(t)
       ELSE tasks' = [tasks EXCEPT ![t].pc = "drop", ![t].ids = ids]
  /\ UNCHANGED <<rows, pinned, conn, senders, bound, ghosts>>

\* unregister of one of them, whatever device it has bound meanwhile.
DropStream(t) ==
  /\ TaskAt(t, "drop")
  /\ \E c \in tasks[t].ids :
       /\ senders' = senders \ {c}
       /\ bound' = Drop(bound, c)
       /\ IF tasks[t].ids = {c} THEN Return(t)
          ELSE tasks' = [tasks EXCEPT ![t].ids = @ \ {c}]
  /\ UNCHANGED <<rows, pinned, conn, ghosts>>

-----------------------------------------------------------------------------
Stream(c) ==
  \/ LookupIdentity(c) \/ UpsertIdentity(c) \/ GatePaired(c) \/ Apply(c) \/ RefusePin(c)
  \/ ReplyFails(c) \/ EndOfStream(c) \/ Unregister(c)

Handler(t) ==
  CreatePending(t) \/ ConfirmUpsert(t) \/ SetFingerprint(t)
    \/ Collect(t) \/ DropStream(t)

PeerCall(t) == \E d \in Devices : Pair(t, d) \/ \E k \in Cert : ConfirmPin(t, d, k)

LocalCall(t) ==
  \E d \in Devices :
    ForgetDevice(t, d) \/ DisconnectDevice(t, d) \/ \E k \in Certs : RecordFingerprint(t, d, k)

Next ==
  \/ \E c \in Conns : Open(c) \/ ReceiveIdentity(c) \/ ReceiveFrame(c) \/ ReplySent(c) \/ HangUp(c) \/ Stream(c)
  \/ \E t \in PeerCalls : PeerCall(t) \/ Handler(t)
  \/ \E t \in LocalCalls : LocalCall(t) \/ Handler(t)
  \/ \E d \in Devices : LosePin(d)

Spec == Init /\ [][Next]_vars

\* Stream tasks run and the database answers; no client need send, read or hang up.
FairSpec == Spec /\ \A c \in Conns : WF_vars(Stream(c))

-----------------------------------------------------------------------------
(* Properties. *)

\* Whoever is in the devices table once proved the PIN, and what is pinned for it is a
\* certificate the PIN or the local user vouched for, however the awaits interleave.
TrustIsProven ==
  \A d \in DOMAIN rows :
    /\ \E k \in Cert : <<d, k>> \in proven
    /\ rows[d] \in Certs => <<d, rows[d]>> \in proven

\* A pin goes only with its row: no reconnect or re-pairing unpins a device.
PinIsNeverLost ==
  [][\A d \in DOMAIN rows \cap DOMAIN rows' : rows[d] \in Certs => rows'[d] \in Certs]_vars

\* "removed from ListDevices ... must go through a fresh Pair/ConfirmPin": a forgotten
\* device is not in the table until it confirms a new PIN.
ForgottenStaysOut == forgotten \cap DOMAIN rows = {}

\* A forgotten device is cut off: of each of its open streams at most the frame that was
\* past the first check when it was forgotten is still applied.
ForgottenIsCutOff == \A c \in Conns : after[c] <= 1

\* Only DisconnectDevice and ForgetDevice of its own device take a live stream off the
\* registry: a device stays online whatever other streams of it end or are dropped.
LeavesBy(c) ==
  \/ StreamAt(c, "leaving")
  \/ \E t \in LocalCalls : TaskAt(t, "drop") /\ c \in tasks[t].ids
OnlyOwnEndGoesOffline ==
  [][\A c \in senders \cup DOMAIN bound : c \notin senders' \cup DOMAIN bound' => LeavesBy(c)]_vars

\* No stream that ended keeps its device online.
ClosedIsOffline == \A c \in Conns : StreamAt(c, "closed") => c \notin senders \cup DOMAIN bound

\* A client that is gone leaves the registry, also with its outbound channel full.
GoneClientsLeave ==
  \A c \in Conns : conn[c].gone ~> (c \notin senders \cup DOMAIN bound)
=============================================================================
