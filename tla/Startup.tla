------------------------------ MODULE Startup ------------------------------
(***************************************************************************)
(* What survives a restart of the daemon: its TLS identity, the key of the *)
(* encrypted pins, the pins and the two UI toggles (daemon/src/lib.rs run, *)
(* tls.rs, db/keys.rs, db/repository.rs, config.rs, grpc/service.rs).      *)
(* Three processes of one user share the data directory: the daemon, a     *)
(* "connectibled doctor" and the desktop app, which presents the same      *)
(* identity when it dials a peer (remote.rs, commands.rs).  Every file     *)
(* system or keyring call is a step, and a process may die between two.    *)
(*                                                                         *)
(* Random keys and certificates are fresh tokens.  A file under creation   *)
(* is Torn until it is written.  CONNECTIBLE_DB_KEY_FILE, which skips the  *)
(* keyring, is not set.                                                    *)
(***************************************************************************)
EXTENDS Doctor, FiniteSets

CONSTANTS
  Keys,       \* db encryption keys that may be drawn
  Pairs,      \* certificate and key pairs that may be generated
  PeerCerts,  \* the certificates the paired peer may present
  Sessions,   \* the sessions the daemon and the doctor may be started in
  None,       \* no file, no entry, no answer
  Torn,       \* a file created or truncated and not yet written
  Plain,      \* the "key" of a fingerprint stored before encryption
  Scenarios   \* bounds of the model: how often each of Bounded may happen

\* What is bounded: deaths of a process, toggle RPCs, dials of the desktop, new
\* certificates of the peer, changes of the keyring, and runs of the doctor.
Bounded == {"crashes", "toggles", "dials", "rekeys", "changes", "doctors"}

Toggles == {"clipboard", "input"}
Gates == [Toggles -> BOOLEAN]

ASSUME StartupAssumption ==
  /\ Sessions \subseteq Session
  /\ Scenarios \subseteq [Bounded -> Nat]
  /\ {None, Torn, Plain} \cap (Keys \cup Pairs \cup PeerCerts) = {}
  /\ None # Torn /\ {None, Torn} \cap Gates = {}
  /\ PeerCerts # {}

VARIABLES
  cert, key,   \* tls/cert.pem and tls/key.pem
  keyFile,     \* tls/db.key
  keyring,     \* the Secret Service entry
  late,        \* a key whose set_password outlived KEYRING_TIMEOUT
  reach,       \* how the keyring answers
  pin,         \* devices.cert_fingerprint of the paired peer
  toggleFile,  \* ui_toggles
  proc,        \* [Procs -> the state of a process]
  caps,        \* the backends this life of the daemon has
  gates,       \* clipboard_sync_enabled and InputDispatcher.enabled
  toggler,     \* [Toggles -> the state of its RPC handler]
  dial,        \* the desktop's dial: the pin it goes by, and how it came by it
  peer,        \* the certificate the peer presents
  verdict,     \* worst status of the doctor's last report
  want,        \* ghost: the last choice the user made for each toggle
  excused,     \* ghost: toggles whose choice a race or a crash may have lost
  announced,   \* ghost: certificates this machine has presented
  upset,       \* ghost: "keyring" if it has not answered the same way all along, or the
               \* doctor ran while the daemon loaded its key; "torn" if a process died
               \* while it made a file
  left         \* ghost: how often each of Bounded may still happen

files == <<cert, key>>
dbKey == <<keyFile, keyring, late, reach>>
toggles == <<toggleFile, caps, gates, toggler, want, excused>>
dialing == <<dial, peer>>
vars == <<files, dbKey, pin, toggles, proc, dialing, verdict, announced, upset, left>>

Procs == {"daemon", "doctor", "desktop"}
Loading == {"keyring", "store", "file", "createKey", "writeKey"}
Making == {"createCert", "writeCert", "createPem", "writePem"}
Writing == Making \cup {"writeKey"}
At == Loading \cup Making \cup
      {"down", "migrate", "tls", "toggles", "bind", "serving", "report", "dial", "record"}
Process == [at : At, db : Keys \cup {None}, tls : Pairs \cup {None}]
Down == [at |-> "down", db |-> None, tls |-> None]
Idle == [at |-> "idle", pair |-> [t \in Toggles |-> TRUE]]

TypeOK ==
  /\ cert \in Pairs \cup {None, Torn} /\ key \in Pairs \cup {None, Torn}
  /\ keyFile \in Keys \cup {None, Torn} /\ keyring \in Keys \cup {None}
  /\ late \subseteq Keys /\ reach \in {"fast", "slow", "unreachable"}
  /\ pin \in [by : Keys \cup {Plain}, cert : PeerCerts] \cup {None}
  /\ toggleFile \in Gates \cup {None, Torn}
  /\ proc \in [Procs -> Process]
  /\ caps \subseteq Toggles /\ gates \in Gates
  /\ toggler \in [Toggles -> [at : {"idle", "load", "truncate", "write"}, pair : Gates]]
  /\ dial \in [pin : PeerCerts \cup {None}, why : {"asked", "unanswered", "pairing"}] /\ peer \in PeerCerts
  /\ verdict \in {"none"} \cup Status
  /\ want \in Gates /\ excused \subseteq Toggles /\ announced \subseteq Pairs
  /\ left \in [Bounded -> Nat]
  /\ upset \subseteq {"keyring", "torn"}

\* A fresh install, or one whose only device was paired before pins were encrypted.
Init ==
  /\ cert = None /\ key = None /\ keyFile = None /\ keyring = None /\ late = {}
  /\ reach \in {"fast", "unreachable"}
  /\ peer = CHOOSE c \in PeerCerts : TRUE
  /\ pin \in {None, [by |-> Plain, cert |-> peer]}
  /\ toggleFile = None
  /\ proc = [p \in Procs |-> Down]
  /\ caps = {} /\ gates = [t \in Toggles |-> TRUE] /\ toggler = [t \in Toggles |-> Idle]
  /\ dial = [pin |-> None, why |-> "asked"]
  /\ verdict = "none"
  /\ want = [t \in Toggles |-> TRUE] /\ excused = {} /\ announced = {}
  /\ left \in Scenarios
  /\ upset = {}

-----------------------------------------------------------------------------
(* The database key: load_or_create_db_key, run by the daemon at start and *)
(* by the doctor's db-encryption-key-source check.                         *)

Go(p, at) == proc' = [proc EXCEPT ![p].at = at]

\* Where load_or_create_db_key returns to, with the key or with an error.
Got(p, k) ==
  proc' = [proc EXCEPT ![p] = [@ EXCEPT !.at = IF p = "daemon" THEN "migrate" ELSE "report",
                                        !.db = k]]
NoKey(p) == IF p = "daemon" THEN proc' = [proc EXCEPT ![p] = Down] ELSE Got(p, None)

\* random_key: one that nobody has.
RandomKey == CHOOSE k \in Keys : k \notin {keyFile, keyring} \cup late \cup {proc[p].db : p \in Procs}
                                         \cup (IF pin = None THEN {} ELSE {pin.by})

\* get_password: the entry, or NoEntry, for which a key is drawn.
ReadKeyring(p) ==
  /\ proc[p].at = "keyring" /\ reach = "fast"
  /\ \/ keyring # None /\ Got(p, keyring)
     \/ /\ keyring = None
        /\ proc' = [proc EXCEPT ![p] = [@ EXCEPT !.at = "store", !.db = RandomKey]]
  /\ UNCHANGED <<files, dbKey, pin, toggles, dialing, verdict, announced, upset, left>>

StoreInKeyringMut(p) ==
  /\ proc[p].at = "store" /\ reach = "fast"
  /\ Got(p, proc[p].db)
  /\ UNCHANGED <<files, dbKey, pin, toggles, dialing, verdict, announced, upset, left>>

\* set_password, then the key is used.
StoreInKeyring(p) ==
  /\ proc[p].at = "store" /\ reach = "fast"
  /\ keyring' = proc[p].db
  /\ Got(p, proc[p].db)
  /\ UNCHANGED <<files, keyFile, late, reach, pin, toggles, dialing, verdict, announced, upset, left>>

\* An error, or no answer within KEYRING_TIMEOUT: fall back to the key file.
\* A set_password that is merely slow goes on in its blocking task.
KeyringFails(p) ==
  /\ proc[p].at \in {"keyring", "store"} /\ reach # "fast"
  /\ late' = IF proc[p].at = "store" /\ reach = "slow" THEN late \cup {proc[p].db} ELSE late
  /\ proc' = [proc EXCEPT ![p] = [@ EXCEPT !.at = "file", !.db = None]]
  /\ UNCHANGED <<files, keyFile, keyring, reach, pin, toggles, dialing, verdict, announced, upset, left>>

StoreLate ==
  /\ reach # "unreachable"
  /\ \E k \in late : keyring' = k /\ late' = late \ {k}
  /\ UNCHANGED <<files, keyFile, reach, pin, toggles, proc, dialing, verdict, announced, upset, left>>

\* A keyring that is unlocked, locked or started between two calls.
KeyringChanges ==
  /\ left["changes"] > 0
  /\ left' = [left EXCEPT !["changes"] = @ - 1]
  /\ upset' = upset \cup {"keyring"}
  /\ reach' \in {"fast", "slow", "unreachable"} \ {reach}
  /\ UNCHANGED <<files, keyFile, keyring, late, pin, toggles, proc, dialing, verdict, announced>>

LoadKeyFileMut(p) ==
  /\ proc[p].at = "file" /\ Go(p, "createKey")
  /\ UNCHANGED <<files, dbKey, pin, toggles, dialing, verdict, announced, upset, left>>

\* load_or_create_key_file: an existing file is read, and a half-made one is malformed.
LoadKeyFile(p) ==
  /\ proc[p].at = "file"
  /\ \/ keyFile = None /\ Go(p, "createKey")
     \/ keyFile = Torn /\ NoKey(p)
     \/ keyFile \in Keys /\ Got(p, keyFile)
  /\ UNCHANGED <<files, dbKey, pin, toggles, dialing, verdict, announced, upset, left>>

\* write_key_file opens with create_new, which fails if another process was faster.
CreateKeyFile(p) ==
  /\ proc[p].at = "createKey"
  /\ \/ keyFile # None /\ NoKey(p) /\ UNCHANGED keyFile
     \/ /\ keyFile = None /\ keyFile' = Torn
        /\ proc' = [proc EXCEPT ![p] = [@ EXCEPT !.at = "writeKey", !.db = RandomKey]]
  /\ UNCHANGED <<files, keyring, late, reach, pin, toggles, dialing, verdict, announced, upset, left>>

WriteKeyFile(p) ==
  /\ proc[p].at = "writeKey"
  /\ keyFile' = proc[p].db
  /\ Got(p, proc[p].db)
  /\ UNCHANGED <<files, keyring, late, reach, pin, toggles, dialing, verdict, announced, upset, left>>

\* migrate_plaintext_fingerprints; a database error leaves the row and the start goes on.
Migrate ==
  LET p == "daemon" IN
  /\ proc[p].at = "migrate" /\ Go(p, "tls")
  /\ pin' \in IF pin # None /\ pin.by = Plain THEN {pin, [pin EXCEPT !.by = proc[p].db]} ELSE {pin}
  /\ UNCHANGED <<files, dbKey, toggles, dialing, verdict, announced, upset, left>>

-----------------------------------------------------------------------------
(* The TLS identity: load_or_create_identity_pem, run by the daemon at     *)
(* start and by the desktop in connect_pinned.                             *)

\* A pair that nobody has; the two files of a pair bear its name.
NewPair == CHOOSE t \in Pairs : t \notin {cert, key} \cup announced \cup {proc[p].tls : p \in Procs}

Identified(p, t) ==
  proc' = [proc EXCEPT ![p] = [@ EXCEPT !.at = IF p = "daemon" THEN "toggles" ELSE "dial", !.tls = t]]
NoIdentity(p) == proc' = [proc EXCEPT ![p] = Down]

\* Both files exist: read them, and fail on an empty one.  Otherwise generate both.
LoadIdentity(p) ==
  /\ proc[p].at = "tls"
  /\ \/ (cert = None \/ key = None) /\ Go(p, "createCert")
     \/ cert # None /\ key # None /\ Torn \in {cert, key} /\ NoIdentity(p)
     \/ cert \in Pairs /\ key \in Pairs /\ Identified(p, cert)
  /\ UNCHANGED <<files, dbKey, pin, toggles, dialing, verdict, announced, upset, left>>

CreateCertAnyMut(p) ==
  /\ proc[p].at = "createCert"
  /\ cert' = Torn
  /\ proc' = [proc EXCEPT ![p] = [@ EXCEPT !.at = "writeCert", !.tls = NewPair]]
  /\ UNCHANGED <<key, dbKey, pin, toggles, dialing, verdict, announced, upset, left>>

\* write_private opens with create_new: a file left by somebody else is an error.
CreateCert(p) ==
  /\ proc[p].at = "createCert"
  /\ \/ cert # None /\ NoIdentity(p) /\ UNCHANGED cert
     \/ /\ cert = None /\ cert' = Torn
        /\ proc' = [proc EXCEPT ![p] = [@ EXCEPT !.at = "writeCert", !.tls = NewPair]]
  /\ UNCHANGED <<key, dbKey, pin, toggles, dialing, verdict, announced, upset, left>>

WriteCert(p) ==
  /\ proc[p].at = "writeCert"
  /\ cert' = proc[p].tls /\ Go(p, "createPem")
  /\ UNCHANGED <<key, dbKey, pin, toggles, dialing, verdict, announced, upset, left>>

CreateKeyPem(p) ==
  /\ proc[p].at = "createPem"
  /\ \/ key # None /\ NoIdentity(p) /\ UNCHANGED key
     \/ key = None /\ key' = Torn /\ Go(p, "writePem")
  /\ UNCHANGED <<cert, dbKey, pin, toggles, dialing, verdict, announced, upset, left>>

WriteKeyPem(p) ==
  /\ proc[p].at = "writePem"
  /\ key' = proc[p].tls /\ Identified(p, proc[p].tls)
  /\ UNCHANGED <<cert, dbKey, pin, toggles, dialing, verdict, announced, upset, left>>

-----------------------------------------------------------------------------
(* The daemon's life around them.                                          *)

\* Started by systemd, the desktop or the user; key loading comes first.
Start ==
  /\ proc["daemon"].at = "down"
  /\ Go("daemon", "keyring")
  /\ upset' = upset \cup (IF proc["doctor"].at \in Loading THEN {"keyring"} ELSE {})
  /\ UNCHANGED <<files, dbKey, pin, toggles, dialing, verdict, announced, left>>

\* load_ui_toggles: a missing or empty file means everything on.
Decode(f) == IF f \in Gates THEN f ELSE [t \in Toggles |-> TRUE]

\* The input gate is set only if there is a backend.  A choice that was lost is
\* what the user sees from here on.
LoadToggles ==
  /\ proc["daemon"].at = "toggles"
  /\ Go("daemon", "bind")
  /\ \E s \in Sessions : caps' = Capabilities(s)
  /\ gates' = Decode(toggleFile)
  /\ want' = [t \in Toggles |-> IF t \in excused THEN gates'[t] ELSE want[t]]
  /\ excused' = {}
  /\ UNCHANGED <<files, dbKey, pin, toggleFile, toggler, dialing, verdict, announced, upset, left>>

\* Advertise, bind and serve: peers see the certificate from here on.
Serve ==
  /\ proc["daemon"].at = "bind"
  /\ Go("daemon", "serving")
  /\ announced' = announced \cup {proc["daemon"].tls}
  /\ UNCHANGED <<files, dbKey, pin, toggles, dialing, verdict, upset, left>>

\* SIGTERM: requests in flight finish, then the process exits.
Stop ==
  /\ proc["daemon"].at = "serving"
  /\ \A t \in Toggles : toggler[t].at = "idle"
  /\ proc' = [proc EXCEPT !["daemon"] = Down]
  /\ UNCHANGED <<files, dbKey, pin, toggles, dialing, verdict, announced, upset, left>>

\* A process dies.  With the daemon die its handlers, which may have set a flag
\* and not written it.
Crash(p) ==
  /\ proc[p].at # "down" /\ left["crashes"] > 0
  /\ left' = [left EXCEPT !["crashes"] = @ - 1]
  /\ proc' = [proc EXCEPT ![p] = Down]
  /\ upset' = IF proc[p].at \in Writing THEN upset \cup {"torn"} ELSE upset
  /\ LET busy == p = "daemon" /\ \E t \in Toggles : toggler[t].at # "idle"
     IN  excused' = IF busy THEN Toggles ELSE excused
  /\ toggler' = IF p = "daemon" THEN [t \in Toggles |-> Idle] ELSE toggler
  /\ UNCHANGED <<files, dbKey, pin, toggleFile, caps, gates, want, dialing, verdict, announced>>

-----------------------------------------------------------------------------
(* The toggles: set_clipboard_sync_enabled and set_remote_input_enabled,   *)
(* whose handlers run in parallel.                                         *)

\* Store the flag; without the backend the RPC is refused.
Toggle(t) ==
  /\ proc["daemon"].at = "serving" /\ t \in caps
  /\ toggler[t].at = "idle" /\ left["toggles"] > 0
  /\ left' = [left EXCEPT !["toggles"] = @ - 1]
  /\ \E v \in BOOLEAN : gates' = [gates EXCEPT ![t] = v] /\ want' = [want EXCEPT ![t] = v]
  /\ toggler' = [toggler EXCEPT ![t].at = "load"]
  /\ excused' = IF \E u \in Toggles : toggler[u].at # "idle" THEN Toggles ELSE Toggles \ caps
  /\ UNCHANGED <<files, dbKey, pin, toggleFile, caps, proc, dialing, verdict, announced, upset>>

LoadBothMut(t) ==
  /\ toggler[t].at = "load"
  /\ toggler' = [toggler EXCEPT ![t] =
       [at |-> "truncate", pair |-> [u \in Toggles |-> IF u = t THEN gates[u] ELSE TRUE]]]
  /\ UNCHANGED <<files, dbKey, pin, toggleFile, caps, gates, want, excused, proc, dialing,
                 verdict, announced, upset, left>>

\* persist_ui_toggles loads both flags; without an input backend that one counts as on.
LoadBoth(t) ==
  /\ toggler[t].at = "load"
  /\ toggler' = [toggler EXCEPT ![t] =
       [at |-> "truncate", pair |-> [u \in Toggles |-> gates[u] \/ (u = "input" /\ u \notin caps)]]]
  /\ UNCHANGED <<files, dbKey, pin, toggleFile, caps, gates, want, excused, proc, dialing,
                 verdict, announced, upset, left>>

\* std::fs::write truncates the file, then writes it.
Truncate(t) ==
  /\ toggler[t].at = "truncate"
  /\ toggleFile' = Torn
  /\ toggler' = [toggler EXCEPT ![t].at = "write"]
  /\ UNCHANGED <<files, dbKey, pin, caps, gates, want, excused, proc, dialing, verdict, announced, upset, left>>

WriteToggles(t) ==
  /\ toggler[t].at = "write"
  /\ toggleFile' = toggler[t].pair
  /\ toggler' = [toggler EXCEPT ![t] = Idle]
  /\ UNCHANGED <<files, dbKey, pin, caps, gates, want, excused, proc, dialing, verdict, announced, upset, left>>

-----------------------------------------------------------------------------
(* The desktop dials the paired peer: connect_with_tofu.                   *)

\* DeviceRepository::fingerprint: the pin, None, or an error under another key.
Readable == pin # None /\ pin.by \in {Plain, proc["daemon"].db}

\* pinned_fingerprint(...).await.ok().flatten(): a failed lookup counts as no pin.
\* The client may be stale: its daemon may be gone.
LookUp ==
  /\ proc["desktop"].at = "down" /\ announced # {} /\ left["dials"] > 0
  /\ left' = [left EXCEPT !["dials"] = @ - 1]
  /\ dial' = [pin |-> IF proc["daemon"].at = "serving" /\ Readable THEN pin.cert ELSE None,
              why |-> IF proc["daemon"].at = "serving" /\ (pin # None => Readable)
                      THEN "asked" ELSE "unanswered"]
  /\ Go("desktop", "tls")
  /\ UNCHANGED <<files, dbKey, pin, toggles, peer, verdict, announced, upset>>

\* pair_with_device dials with no pin and needs no daemon: the user compares a PIN.
Pair ==
  /\ proc["desktop"].at = "down" /\ left["dials"] > 0
  /\ left' = [left EXCEPT !["dials"] = @ - 1]
  /\ dial' = [pin |-> None, why |-> "pairing"]
  /\ Go("desktop", "tls")
  /\ UNCHANGED <<files, dbKey, pin, toggles, peer, verdict, announced, upset>>

DialTrustingMut ==
  /\ proc["desktop"].at = "dial"
  /\ announced' = announced \cup {proc["desktop"].tls}
  /\ Go("desktop", "record")
  /\ UNCHANGED <<files, dbKey, pin, toggles, dialing, verdict, upset, left>>

\* TofuVerifier::verify_server_cert: the pinned certificate, or on first use any.
\* A peer that is refused never sees ours; one that was pinned is not recorded again.
Dial ==
  /\ proc["desktop"].at = "dial"
  /\ announced' = IF dial.pin \in {None, peer} THEN announced \cup {proc["desktop"].tls} ELSE announced
  /\ IF dial.pin = None THEN Go("desktop", "record")
                        ELSE proc' = [proc EXCEPT !["desktop"] = Down]
  /\ UNCHANGED <<files, dbKey, pin, toggles, dialing, verdict, upset, left>>

\* record_fingerprint, on first use or from confirm_pin, overwrites what is there; a
\* daemon that is down records nothing.
Record ==
  /\ proc["desktop"].at = "record"
  /\ pin' = IF proc["daemon"].at = "serving" THEN [by |-> proc["daemon"].db, cert |-> peer] ELSE pin
  /\ proc' = [proc EXCEPT !["desktop"] = Down]
  /\ UNCHANGED <<files, dbKey, toggles, dialing, verdict, announced, upset, left>>

\* The peer is reinstalled, or another machine answers at its address.
PeerRekeys ==
  /\ left["rekeys"] > 0
  /\ left' = [left EXCEPT !["rekeys"] = @ - 1]
  /\ peer' \in PeerCerts \ {peer}
  /\ UNCHANGED <<files, dbKey, pin, toggles, proc, dial, verdict, announced, upset>>

-----------------------------------------------------------------------------
(* The doctor, "connectibled doctor" in a terminal.                        *)

\* Where the key was found: no key is ever in both places.
KeySource == IF proc["doctor"].db = None THEN "none"
             ELSE IF proc["doctor"].db = keyFile THEN "file" ELSE "keyring"

FactChecksMut == {"ok"}
FactChecks ==
  {DbEncryptionKeySource(KeySource), PortReachable(proc["daemon"].at = "serving"),
   TlsCertPresent(cert # None, key # None), PairedStore(1, IF pin = None THEN 0 ELSE 1)}

RunDoctor ==
  /\ proc["doctor"].at = "down" /\ left["doctors"] > 0
  /\ left' = [left EXCEPT !["doctors"] = @ - 1]
  /\ Go("doctor", "keyring")
  /\ upset' = upset \cup (IF proc["daemon"].at \in Loading THEN {"keyring"} ELSE {})
  /\ UNCHANGED <<files, dbKey, pin, toggles, dialing, verdict, announced>>

\* Registry::run_all rolls up the worst status.
Report ==
  /\ proc["doctor"].at = "report"
  /\ \E s \in Sessions : verdict' = RunAll(SessionChecks(s) \cup FactChecks)
  /\ proc' = [proc EXCEPT !["doctor"] = Down]
  /\ UNCHANGED <<files, dbKey, pin, toggles, dialing, announced, upset, left>>

-----------------------------------------------------------------------------
LoadKey(p) == ReadKeyring(p) \/ StoreInKeyring(p) \/ KeyringFails(p)
              \/ LoadKeyFile(p) \/ CreateKeyFile(p) \/ WriteKeyFile(p)
MakeIdentity(p) == LoadIdentity(p) \/ CreateCert(p) \/ WriteCert(p) \/ CreateKeyPem(p) \/ WriteKeyPem(p)
Persist(t) == LoadBoth(t) \/ Truncate(t) \/ WriteToggles(t)

Daemon == Start \/ LoadKey("daemon") \/ Migrate \/ MakeIdentity("daemon") \/ LoadToggles \/ Serve
Doctor == RunDoctor \/ LoadKey("doctor") \/ Report
Desktop == LookUp \/ Pair \/ MakeIdentity("desktop") \/ Dial \/ Record

Next ==
  \/ Daemon \/ Doctor \/ Desktop
  \/ Stop \/ StoreLate \/ KeyringChanges \/ PeerRekeys
  \/ \E p \in Procs : Crash(p)
  \/ \E t \in Toggles : Toggle(t) \/ Persist(t)

Spec == Init /\ [][Next]_vars

\* The processes run, and whoever starts the daemon starts it again.
FairSpec ==
  /\ Spec /\ WF_vars(Daemon)
  /\ WF_vars(LoadKey("doctor") \/ Report)
  /\ WF_vars(MakeIdentity("desktop") \/ Dial \/ Record)

-----------------------------------------------------------------------------
(* Properties                                                              *)

\* Nobody is writing the identity or the key file, and one of them is half made.
Broken ==
  /\ \A p \in Procs : proc[p].at \notin Writing
  /\ cert = Torn \/ key = Torn \/ keyFile = Torn \/ cert # key

\* The machine presents one certificate for ever, whoever generated it and however
\* often its processes race or restart (tls.rs:149), and only a crash leaves files
\* that the next start can neither read nor replace (tls.rs:208).
IdentityIsWhole ==
  /\ Cardinality(announced) <= 1
  /\ Broken => "torn" \in upset

\* A serving daemon can read every pin an earlier life wrote, as long as the keyring
\* has always answered the same way (keys.rs:61, repository.rs:78).
PinsReadable == proc["daemon"].at = "serving" /\ pin # None /\ "keyring" \notin upset => Readable

\* A pinned certificate is replaced by the one the peer presents only if the desktop
\* could not ask for the pin (commands.rs:77) or the user pairs anew: otherwise the
\* change is refused.
PinnedCertStays ==
  [][pin # None /\ pin' # None /\ pin'.cert # pin.cert => dial.why # "asked"]_vars

\* When the doctor has found no error, the next start works, as long as the keyring
\* answers as it did (environment.rs:185, network.rs:96).
CleanBillHolds == verdict # "none" /\ ExitCode(verdict) = 0 /\ "keyring" \notin upset => ~Broken

\* At start the toggles are as the user left them, unless two handlers overlapped,
\* the daemon died in one, or the input backend was missing when a choice was saved
\* (service.rs:289, config.rs:140).
TogglesRemembered ==
  [][LoadToggles => \A t \in Toggles \ excused : gates'[t] = want[t]]_vars

\* A daemon that is started again and again serves in the end, unless a crash left
\* half-made files.
Starts == []<>(proc["daemon"].at = "serving" \/ Broken)
=============================================================================
