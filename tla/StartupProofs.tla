---------------------------- MODULE StartupProofs ----------------------------
(***************************************************************************)
(* Theorems about Startup, for any keys, certificates and sessions and any *)
(* number of crashes, toggles, dials, certificates of the peer, changes of *)
(* the keyring and runs of the doctor.                                     *)
(***************************************************************************)
EXTENDS Startup, FiniteSetTheorems, TLAPS

\* A random key or a new certificate is one that nobody has: they never run out.
Inexhaustible == ~IsFiniteSet(Keys) /\ ~IsFiniteSet(Pairs)

-----------------------------------------------------------------------------
(* The invariants. *)

AtMostOne(S) == \A x, y \in S : x = y

Loaders == {"daemon", "doctor"}
Makers == {"daemon", "desktop"}

\* Every process is where it can be, with what it needs there.
Loaded == {"migrate", "tls", "toggles", "bind", "serving"} \cup Making
Identities == {"toggles", "bind", "serving", "dial", "record"}
Owning == {"writeCert", "createPem", "writePem"}
Places(p) ==
  CASE p = "daemon"  -> {"down", "migrate", "tls", "toggles", "bind", "serving"} \cup Loading \cup Making
    [] p = "doctor"  -> {"down", "report"} \cup Loading
    [] p = "desktop" -> {"down", "tls", "dial", "record"} \cup Making
Placed(p) ==
  /\ proc[p].at \in Places(p)
  /\ proc[p].at \in {"store", "writeKey"} => proc[p].db \in Keys
  /\ p = "daemon" /\ proc[p].at \in Loaded => proc[p].db \in Keys
  /\ proc[p].at \in Identities \cup Owning => proc[p].tls \in Pairs
Typed ==
  /\ TypeOK /\ IsFiniteSet(late) /\ IsFiniteSet(announced)
  /\ \A p \in Procs : Placed(p)

-----------------------------------------------------------------------------
(* Fresh keys and certificates. *)

\* An infinite set has an element outside of any finite one.
LEMMA Outside ==
  ASSUME NEW S, NEW T, ~IsFiniteSet(S), IsFiniteSet(T)
  PROVE  \E x \in S : x \notin T
<1> SUFFICES ASSUME \A x \in S : x \in T PROVE FALSE
  OBVIOUS
<1>1. S \subseteq T
  OBVIOUS
<1> QED
  BY <1>1, FS_Subset

\* A set of two or three values is finite.
LEMMA Few ==
  ASSUME NEW a, NEW b, NEW c
  PROVE  IsFiniteSet({a, b}) /\ IsFiniteSet({a, b, c})
<1>1. IsFiniteSet({a})
  BY FS_Singleton, Zenon
<1>2. IsFiniteSet({a} \cup {b})
  BY <1>1, FS_AddElement, Zenon
<1>3. {a, b} = {a} \cup {b} /\ {a, b, c} = ({a} \cup {b}) \cup {c}
  OBVIOUS
<1>4. IsFiniteSet(({a} \cup {b}) \cup {c})
  BY <1>2, FS_AddElement, Zenon
<1> QED
  BY <1>2, <1>3, <1>4, Zenon

\* What three processes have is finitely much.
LEMMA Held ==
  /\ IsFiniteSet({proc[p].db : p \in Procs})
  /\ IsFiniteSet({proc[p].tls : p \in Procs})
<1>1. {proc[p].db : p \in Procs} = {proc["daemon"].db, proc["doctor"].db, proc["desktop"].db}
  BY DEF Procs
<1>2. {proc[p].tls : p \in Procs} = {proc["daemon"].tls, proc["doctor"].tls, proc["desktop"].tls}
  BY DEF Procs
<1>3. IsFiniteSet({proc["daemon"].db, proc["doctor"].db, proc["desktop"].db})
  BY Few, Zenon
<1>4. IsFiniteSet({proc["daemon"].tls, proc["doctor"].tls, proc["desktop"].tls})
  BY Few, Zenon
<1> QED
  BY <1>1, <1>2, <1>3, <1>4, Zenon

\* random_key draws a key.
LEMMA FreshKey == ASSUME Inexhaustible, Typed PROVE RandomKey \in Keys
<1> DEFINE Owned == IF pin = None THEN {} ELSE {pin.by}
           Known == {keyFile, keyring} \cup late \cup {proc[p].db : p \in Procs}
<1>1. IsFiniteSet(Owned)
  BY FS_EmptySet, FS_Singleton
<1>2. IsFiniteSet({keyFile, keyring})
  BY Few, Zenon
<1>3. IsFiniteSet({keyFile, keyring} \cup late)
  BY <1>2, FS_Union DEF Typed
<1>4. IsFiniteSet(Known)
  BY <1>3, Held, FS_Union
<1>5. IsFiniteSet(Known \cup Owned)
  <2> HIDE DEF Known, Owned
  <2> QED
    BY <1>1, <1>4, FS_Union
<1>6. \E k \in Keys : k \notin Known \cup Owned
  <2> HIDE DEF Known, Owned
  <2> QED
    BY <1>5, Outside DEF Inexhaustible
<1> QED
  BY <1>6 DEF RandomKey

\* A generated pair is a pair.
LEMMA FreshPair == ASSUME Inexhaustible, Typed PROVE NewPair \in Pairs
<1> DEFINE Known == {cert, key} \cup announced
<1>1. IsFiniteSet({cert, key})
  BY Few, Zenon
<1>2. IsFiniteSet(Known)
  BY <1>1, FS_Union DEF Typed
<1>3. IsFiniteSet(Known \cup {proc[p].tls : p \in Procs})
  <2> HIDE DEF Known
  <2> QED
    BY <1>2, Held, FS_Union
<1>4. \E t \in Pairs : t \notin Known \cup {proc[p].tls : p \in Procs}
  <2> HIDE DEF Known
  <2> QED
    BY <1>3, Outside DEF Inexhaustible
<1> QED
  BY <1>4 DEF NewPair
-----------------------------------------------------------------------------
(* Type correctness. *)

LEMMA TypedInit == ASSUME Init PROVE Typed
<1>1. TypeOK
  <2>1. peer \in PeerCerts
    BY StartupAssumption DEF Init
  <2>2. proc \in [Procs -> Process]
    BY DEF Init, Process, Down, At
  <2>3. gates \in Gates /\ want \in Gates
    BY DEF Init, Gates
  <2>4. toggler \in [Toggles -> [at : {"idle", "load", "truncate", "write"}, pair : Gates]]
    BY DEF Init, Idle, Gates
  <2>5. left \in [Bounded -> Nat]
    BY StartupAssumption DEF Init
  <2> QED
    BY <2>1, <2>2, <2>3, <2>4, <2>5 DEF Init, TypeOK
<1>2. IsFiniteSet(late) /\ IsFiniteSet(announced)
  BY FS_EmptySet DEF Init
<1>3. \A p \in Procs : Placed(p)
  BY DEF Init, Placed, Places, Down, Loaded, Identities, Owning, Making, Procs
<1> QED
  BY <1>1, <1>2, <1>3 DEF Typed

\* Loading a key keeps the types.
LEMMA LoadKeyTyped ==
  ASSUME Typed, Inexhaustible, NEW p \in Loaders, LoadKey(p)
  PROVE  Typed'
<1> USE DEF Loaders, Process, At, Loading, Making
<1>0. TypeOK /\ IsFiniteSet(late) /\ IsFiniteSet(announced) /\ p \in Procs
  BY DEF Typed, Procs
<1>1. /\ proc \in [Procs -> Process] /\ keyFile \in Keys \cup {None, Torn} /\ keyring \in Keys \cup {None}
      /\ late \subseteq Keys
  BY <1>0 DEF TypeOK
<1>2. proc[p].at \in {"store", "writeKey"} => proc[p].db \in Keys
  BY <1>0 DEF Typed, Placed
<1>3. RandomKey \in Keys
  BY FreshKey
<1> DEFINE Next1 == IF p = "daemon" THEN "migrate" ELSE "report"
           Becomes(r) == /\ r \in Process /\ proc' = [proc EXCEPT ![p] = r]
                         /\ r.at \in {"down", Next1} \cup Loading
                         /\ r.at = "down" => p = "daemon"
                         /\ r.at \in {"store", "writeKey"} => r.db \in Keys
                         /\ r.at = "migrate" => r.db \in Keys
<1>4. \E r : Becomes(r)
  <2>1. ASSUME NEW k \in Keys \cup {None}, Got(p, k), p = "daemon" => k \in Keys
        PROVE  Becomes([proc[p] EXCEPT !.at = Next1, !.db = k])
    BY <1>0, <1>1, <2>1 DEF Got
  <2>2. ASSUME NoKey(p)
        PROVE  \E r : Becomes(r)
    <3>1. CASE p = "daemon"
      <4>1. Becomes(Down)
        BY <1>0, <1>1, <2>2, <3>1 DEF NoKey, Down
      <4> QED
        BY <4>1, Zenon
    <3>2. CASE p # "daemon"
      <4>1. Got(p, None)
        BY <2>2, <3>2 DEF NoKey
      <4> HIDE DEF Becomes, Next1
      <4> QED
        BY <2>1, <3>2, <4>1
    <3> QED
      BY <3>1, <3>2
  <2>3. ASSUME NEW at \in Loading, NEW k \in Keys \cup {None},
               proc' = [proc EXCEPT ![p] = [@ EXCEPT !.at = at, !.db = k]],
               at \in {"store", "writeKey"} => k \in Keys
        PROVE  Becomes([proc[p] EXCEPT !.at = at, !.db = k])
    BY <1>0, <1>1, <2>3
  <2>4. ASSUME Go(p, "createKey")
        PROVE  Becomes([proc[p] EXCEPT !.at = "createKey"])
    BY <1>0, <1>1, <2>4 DEF Go
  <2> HIDE DEF Becomes
  <2>5. CASE ReadKeyring(p)
    BY <1>1, <1>3, <2>1, <2>3, <2>5 DEF ReadKeyring
  <2>6. CASE StoreInKeyring(p)
    BY <1>2, <2>1, <2>6 DEF StoreInKeyring
  <2>7. CASE KeyringFails(p)
    BY <2>3, <2>7 DEF KeyringFails
  <2>8. CASE LoadKeyFile(p)
    BY <2>1, <2>2, <2>4, <2>8 DEF LoadKeyFile
  <2>9. CASE CreateKeyFile(p)
    BY <1>3, <2>2, <2>3, <2>9 DEF CreateKeyFile
  <2>10. CASE WriteKeyFile(p)
    BY <1>2, <2>1, <2>10 DEF WriteKeyFile
  <2> QED
    BY <2>5, <2>6, <2>7, <2>8, <2>9, <2>10 DEF LoadKey
<1>5. proc' \in [Procs -> Process]
  BY <1>1, <1>4
<1>6. keyFile' \in Keys \cup {None, Torn} /\ keyring' \in Keys \cup {None} /\ late' \subseteq Keys
  BY <1>1, <1>2, <1>3 DEF LoadKey, ReadKeyring, StoreInKeyring, KeyringFails, LoadKeyFile, CreateKeyFile,
     WriteKeyFile, dbKey
<1>7. UNCHANGED <<files, reach, pin, toggles, dialing, verdict, announced, upset, left>>
  BY DEF LoadKey, ReadKeyring, StoreInKeyring, KeyringFails, LoadKeyFile, CreateKeyFile, WriteKeyFile, dbKey
<1>8. TypeOK'
  BY <1>0, <1>5, <1>6, <1>7 DEF TypeOK, files, toggles, dialing
<1>9. IsFiniteSet(late') /\ IsFiniteSet(announced')
  <2>1. late' = late \/ late' = late \cup {proc[p].db}
    BY DEF LoadKey, ReadKeyring, StoreInKeyring, KeyringFails, LoadKeyFile, CreateKeyFile, WriteKeyFile, dbKey
  <2> QED
    BY <1>0, <1>7, <2>1, FS_AddElement, Zenon
<1>10. \A q \in Procs : Placed(q)'
  BY <1>0, <1>1, <1>4 DEF Typed, Placed, Places, Loaded, Identities, Owning, Procs
<1> QED
  BY <1>8, <1>9, <1>10 DEF Typed
\* So does making or loading the identity.
LEMMA MakeIdentityTyped ==
  ASSUME Typed, Inexhaustible, NEW p \in Makers, MakeIdentity(p)
  PROVE  Typed'
<1> USE DEF Makers, Process, At, Loading, Making
<1>0. TypeOK /\ IsFiniteSet(late) /\ IsFiniteSet(announced) /\ p \in Procs
  BY DEF Typed, Procs
<1>1. proc \in [Procs -> Process] /\ cert \in Pairs \cup {None, Torn} /\ key \in Pairs \cup {None, Torn}
  BY <1>0 DEF TypeOK
<1>2. /\ proc[p].at \in Owning => proc[p].tls \in Pairs
      /\ p = "daemon" /\ proc[p].at \in Loaded => proc[p].db \in Keys
  BY <1>0 DEF Typed, Placed
<1>3. NewPair \in Pairs
  BY FreshPair
<1> DEFINE Final == IF p = "daemon" THEN "toggles" ELSE "dial"
           Becomes(r) == /\ r \in Process /\ proc' = [proc EXCEPT ![p] = r]
                         /\ r.at \in {"down", Final} \cup Making
                         /\ r.at \in {Final} \cup Owning => r.tls \in Pairs
                         /\ p = "daemon" /\ r.at # "down" => r.db \in Keys
<1>4. \E r : Becomes(r)
  <2>1. ASSUME NEW t \in Pairs, Identified(p, t), proc[p].at \in {"tls"} \cup Making
        PROVE  Becomes([proc[p] EXCEPT !.at = Final, !.tls = t])
    BY <1>0, <1>1, <1>2, <2>1 DEF Identified, Loaded, Owning
  <2>2. ASSUME NoIdentity(p)
        PROVE  Becomes(Down)
    BY <1>0, <1>1, <2>2 DEF NoIdentity, Down, Owning
  <2>3. ASSUME NEW at \in Making, Go(p, at), proc[p].at \in {"tls"} \cup Making,
               at \in Owning => proc[p].tls \in Pairs
        PROVE  Becomes([proc[p] EXCEPT !.at = at])
    BY <1>0, <1>1, <1>2, <2>3 DEF Go, Loaded
  <2>4. ASSUME NEW t \in Pairs, proc' = [proc EXCEPT ![p] = [@ EXCEPT !.at = "writeCert", !.tls = t]],
               proc[p].at = "createCert"
        PROVE  Becomes([proc[p] EXCEPT !.at = "writeCert", !.tls = t])
    BY <1>0, <1>1, <1>2, <2>4 DEF Loaded
  <2>5. {"createCert", "createPem", "writePem"} \subseteq Making /\ "createCert" \notin Owning
    BY DEF Owning
  <2> HIDE DEF Becomes, Making
  <2>6. CASE LoadIdentity(p)
    BY <1>1, <2>1, <2>2, <2>3, <2>5, <2>6 DEF LoadIdentity
  <2>7. CASE CreateCert(p)
    BY <1>3, <2>2, <2>4, <2>7 DEF CreateCert
  <2>8. CASE WriteCert(p)
    BY <1>2, <2>3, <2>5, <2>8 DEF WriteCert, Owning, Making
  <2>9. CASE CreateKeyPem(p)
    BY <1>2, <2>2, <2>3, <2>5, <2>9 DEF CreateKeyPem, Owning, Making
  <2>10. CASE WriteKeyPem(p)
    BY <1>2, <2>1, <2>10 DEF WriteKeyPem, Owning, Making
  <2> QED
    BY <2>6, <2>7, <2>8, <2>9, <2>10 DEF MakeIdentity
<1>5. proc' \in [Procs -> Process]
  BY <1>1, <1>4
<1>6. cert' \in Pairs \cup {None, Torn} /\ key' \in Pairs \cup {None, Torn}
  BY <1>1, <1>2 DEF MakeIdentity, LoadIdentity, CreateCert, WriteCert, CreateKeyPem, WriteKeyPem, files, Owning
<1>7. UNCHANGED <<dbKey, pin, toggles, dialing, verdict, announced, upset, left>>
  BY DEF MakeIdentity, LoadIdentity, CreateCert, WriteCert, CreateKeyPem, WriteKeyPem
<1>8. TypeOK'
  BY <1>0, <1>5, <1>6, <1>7 DEF TypeOK, dbKey, toggles, dialing
<1>9. IsFiniteSet(late') /\ IsFiniteSet(announced')
  BY <1>0, <1>7 DEF dbKey
<1>10. \A q \in Procs : Placed(q)'
  BY <1>0, <1>1, <1>4 DEF Typed, Placed, Places, Loaded, Identities, Owning, Procs
<1> QED
  BY <1>8, <1>9, <1>10 DEF Typed

\* So does the rest of the daemon's life.
LEMMA DaemonTyped ==
  ASSUME Typed, Start \/ Migrate \/ LoadToggles \/ Serve \/ Stop
  PROVE  Typed'
<1> USE DEF Process, At, Loading, Making
<1>0. TypeOK /\ IsFiniteSet(late) /\ IsFiniteSet(announced) /\ \A p \in Procs : Placed(p)
  BY DEF Typed
<1>1. proc \in [Procs -> Process] /\ proc["daemon"] \in Process /\ "daemon" \in Procs
  BY <1>0 DEF TypeOK, Procs
<1>2. /\ proc["daemon"].at \in Loaded => proc["daemon"].db \in Keys
      /\ proc["daemon"].at \in Identities => proc["daemon"].tls \in Pairs
  BY <1>0, <1>1 DEF Placed
<1> DEFINE Becomes(r) == /\ r \in Process /\ proc' = [proc EXCEPT !["daemon"] = r]
                         /\ r.at \in {"down", "keyring", "tls", "bind", "serving"}
                         /\ r.at \in {"tls", "bind", "serving"} => r.db \in Keys
                         /\ r.at \in {"bind", "serving"} => r.tls \in Pairs
<1>3. \E r : Becomes(r)
  <2>1. CASE Start
    <3>1. Becomes([proc["daemon"] EXCEPT !.at = "keyring"])
      BY <1>1, <2>1 DEF Start, Go
    <3> QED
      BY <3>1, Zenon
  <2>2. CASE Migrate
    <3>1. Becomes([proc["daemon"] EXCEPT !.at = "tls"])
      BY <1>1, <1>2, <2>2 DEF Migrate, Go, Loaded
    <3> QED
      BY <3>1, Zenon
  <2>3. CASE LoadToggles
    <3>1. Becomes([proc["daemon"] EXCEPT !.at = "bind"])
      BY <1>1, <1>2, <2>3 DEF LoadToggles, Go, Loaded, Identities
    <3> QED
      BY <3>1, Zenon
  <2>4. CASE Serve
    <3>1. Becomes([proc["daemon"] EXCEPT !.at = "serving"])
      BY <1>1, <1>2, <2>4 DEF Serve, Go, Loaded, Identities
    <3> QED
      BY <3>1, Zenon
  <2>5. CASE Stop
    <3>1. Becomes(Down)
      BY <1>1, <2>5 DEF Stop, Down
    <3> QED
      BY <3>1, Zenon
  <2> QED
    BY <2>1, <2>2, <2>3, <2>4, <2>5
<1>4. proc' \in [Procs -> Process]
  BY <1>1, <1>3
<1>5. pin' \in [by : Keys \cup {Plain}, cert : PeerCerts] \cup {None}
  BY <1>0, <1>2 DEF TypeOK, Start, Migrate, LoadToggles, Serve, Stop, Loaded
<1>6. caps' \subseteq Toggles /\ gates' \in Gates /\ want' \in Gates /\ excused' \subseteq Toggles
  <2>1. CASE LoadToggles
    <3>1. Decode(toggleFile) \in Gates
      BY DEF Decode, Gates
    <3>2. \A s \in Sessions : Capabilities(s) \subseteq Toggles
      BY DEF Capabilities, Toggles
    <3> QED
      BY <1>0, <2>1, <3>1, <3>2 DEF LoadToggles, TypeOK, Gates
  <2>2. CASE ~LoadToggles
    BY <1>0, <2>2 DEF TypeOK, Start, Migrate, Serve, Stop, toggles
  <2> QED
    BY <2>1, <2>2
<1>7. announced' = announced \/ \E t \in Pairs : announced' = announced \cup {t}
  BY <1>2 DEF Start, Migrate, LoadToggles, Serve, Stop, Identities
<1>8. UNCHANGED <<files, dbKey, toggleFile, toggler, dialing, verdict, left>> /\ upset' \subseteq upset \cup {"keyring"}
  BY DEF Start, Migrate, LoadToggles, Serve, Stop, toggles
<1>9. TypeOK'
  BY <1>0, <1>4, <1>5, <1>6, <1>7, <1>8 DEF TypeOK, files, dbKey, dialing
<1>10. IsFiniteSet(late') /\ IsFiniteSet(announced')
  BY <1>0, <1>7, <1>8, FS_AddElement, Zenon DEF dbKey
<1>11. \A q \in Procs : Placed(q)'
  BY <1>0, <1>1, <1>3 DEF Placed, Places, Loaded, Identities, Owning, Procs
<1> QED
  BY <1>9, <1>10, <1>11 DEF Typed
\* The roll-up is the worst of the results.
LEMMA Worst ==
  ASSUME NEW S, S \subseteq Status
  PROVE  RunAll(S) \in Status /\ (RunAll(S) = "error" <=> "error" \in S)
<1> DEFINE T == {"ok"} \cup S
           Top(t) == \A u \in T : Severity[u] <= Severity[t]
<1>1. Severity["ok"] = 1 /\ Severity["warn"] = 2 /\ Severity["error"] = 3
  BY DEF Severity
<1>2. T \subseteq {"ok", "warn", "error"}
  BY DEF Status
<1>3. \E t \in T : Top(t)
  <2>1. CASE "error" \in T
    BY <1>1, <1>2, <2>1
  <2>2. CASE "error" \notin T /\ "warn" \in T
    BY <1>1, <1>2, <2>2
  <2>3. CASE "error" \notin T /\ "warn" \notin T
    BY <1>1, <1>2, <2>3
  <2> QED
    BY <2>1, <2>2, <2>3
<1>4. RunAll(S) = CHOOSE t \in T : Top(t)
  BY DEF RunAll, Max
<1>5. RunAll(S) \in T /\ Top(RunAll(S))
  <2> HIDE DEF T, Top
  <2> QED
    BY <1>3, <1>4
<1>6. "error" \in T => RunAll(S) = "error"
  BY <1>1, <1>2, <1>5
<1> QED
  BY <1>2, <1>5, <1>6 DEF Status

LEMMA ChecksReport == \A s : SessionChecks(s) \subseteq Status
BY DEF SessionChecks, Status, DaemonVersion, DirWritable, DiskSpace, LanAddress, DisplayServer, OpenerPresent,
   InputBackend, StuckPartials, RecentErrors, OkIf

LEMMA FactsReport ==
  /\ FactChecks \subseteq Status
  /\ "error" \notin FactChecks =>
       proc["doctor"].db # None /\ proc["daemon"].at = "serving" /\ cert # None /\ key # None
BY DEF FactChecks, KeySource, DbEncryptionKeySource, PortReachable, TlsCertPresent, PairedStore, OkIf, Status

\* So does the doctor.
LEMMA DoctorTyped ==
  ASSUME Typed, RunDoctor \/ Report
  PROVE  Typed'
<1> USE DEF Process, At, Loading, Making
<1>0. TypeOK /\ IsFiniteSet(late) /\ IsFiniteSet(announced) /\ \A p \in Procs : Placed(p)
  BY DEF Typed
<1>1. proc \in [Procs -> Process] /\ proc["doctor"] \in Process /\ "doctor" \in Procs
  BY <1>0 DEF TypeOK, Procs
<1> DEFINE Becomes(r) == r \in Process /\ proc' = [proc EXCEPT !["doctor"] = r] /\ r.at \in {"down", "keyring"}
<1>2. \E r : Becomes(r)
  <2>1. CASE RunDoctor
    <3>1. Becomes([proc["doctor"] EXCEPT !.at = "keyring"])
      BY <1>1, <2>1 DEF RunDoctor, Go
    <3> QED
      BY <3>1, Zenon
  <2>2. CASE Report
    <3>1. Becomes(Down)
      BY <1>1, <2>2 DEF Report, Down
    <3> QED
      BY <3>1, Zenon
  <2> QED
    BY <2>1, <2>2
<1>3. proc' \in [Procs -> Process]
  BY <1>1, <1>2
<1>4. verdict' \in {"none"} \cup Status
  <2>1. CASE RunDoctor
    BY <1>0, <2>1 DEF RunDoctor, TypeOK
  <2>2. CASE Report
    <3>1. PICK s : verdict' = RunAll(SessionChecks(s) \cup FactChecks)
      BY <2>2 DEF Report
    <3>2. SessionChecks(s) \cup FactChecks \subseteq Status
      BY ChecksReport, FactsReport
    <3> QED
      BY <3>1, <3>2, Worst
  <2> QED
    BY <2>1, <2>2
<1>5. left' = left \/ (left["doctors"] > 0 /\ left' = [left EXCEPT !["doctors"] = @ - 1])
  BY DEF RunDoctor, Report
<1>6. left' \in [Bounded -> Nat]
  BY <1>0, <1>5 DEF TypeOK, Bounded
<1>7. UNCHANGED <<files, dbKey, pin, toggles, dialing, announced>> /\ upset' \subseteq upset \cup {"keyring"}
  BY DEF RunDoctor, Report
<1>8. TypeOK'
  BY <1>0, <1>3, <1>4, <1>6, <1>7 DEF TypeOK, files, dbKey, toggles, dialing
<1>9. \A q \in Procs : Placed(q)'
  BY <1>0, <1>1, <1>2 DEF Placed, Places, Loaded, Identities, Owning, Procs
<1> QED
  BY <1>0, <1>7, <1>8, <1>9 DEF Typed, dbKey

\* So does the desktop.
LEMMA DesktopTyped ==
  ASSUME Typed, LookUp \/ Pair \/ Dial \/ Record
  PROVE  Typed'
<1> USE DEF Process, At, Loading, Making
<1>0. TypeOK /\ IsFiniteSet(late) /\ IsFiniteSet(announced) /\ \A p \in Procs : Placed(p)
  BY DEF Typed
<1>1. proc \in [Procs -> Process] /\ proc["desktop"] \in Process /\ "desktop" \in Procs /\ "daemon" \in Procs
  BY <1>0 DEF TypeOK, Procs
<1>2. /\ proc["daemon"].at = "serving" => proc["daemon"].db \in Keys
      /\ proc["desktop"].at \in Identities => proc["desktop"].tls \in Pairs
  BY <1>0, <1>1 DEF Placed, Loaded
<1> DEFINE Becomes(r) == /\ r \in Process /\ proc' = [proc EXCEPT !["desktop"] = r]
                         /\ r.at \in {"down", "tls", "record"}
                         /\ r.at = "record" => r.tls \in Pairs
<1>3. \E r : Becomes(r)
  <2>1. CASE LookUp \/ Pair
    <3>1. Becomes([proc["desktop"] EXCEPT !.at = "tls"])
      BY <1>1, <2>1 DEF LookUp, Pair, Go
    <3> QED
      BY <3>1, Zenon
  <2>2. CASE (Dial \/ Record) /\ proc' = [proc EXCEPT !["desktop"] = Down]
    <3>1. Becomes(Down)
      BY <1>1, <2>2 DEF Down
    <3> QED
      BY <3>1, Zenon
  <2>3. CASE Dial /\ Go("desktop", "record")
    <3>1. Becomes([proc["desktop"] EXCEPT !.at = "record"])
      BY <1>1, <1>2, <2>3 DEF Dial, Go, Identities
    <3> QED
      BY <3>1, Zenon
  <2> QED
    BY <2>1, <2>2, <2>3 DEF Dial, Record
<1>4. proc' \in [Procs -> Process]
  BY <1>1, <1>3
<1>5. pin' \in [by : Keys \cup {Plain}, cert : PeerCerts] \cup {None}
  BY <1>0, <1>2 DEF TypeOK, LookUp, Pair, Dial, Record
<1>6. dial' \in [pin : PeerCerts \cup {None}, why : {"asked", "unanswered", "pairing"}]
  BY <1>0, <1>1 DEF TypeOK, LookUp, Pair, Dial, Record, dialing, Readable
<1>7. left' \in [Bounded -> Nat]
  <2>1. left' = left \/ (left["dials"] > 0 /\ left' = [left EXCEPT !["dials"] = @ - 1])
    BY DEF LookUp, Pair, Dial, Record
  <2> QED
    BY <1>0, <2>1 DEF TypeOK, Bounded
<1>8. announced' = announced \/ \E t \in Pairs : announced' = announced \cup {t}
  BY <1>2 DEF LookUp, Pair, Dial, Record, Identities
<1>9. UNCHANGED <<files, dbKey, toggles, peer, verdict, upset>>
  BY DEF LookUp, Pair, Dial, Record, dialing
<1>10. TypeOK'
  BY <1>0, <1>4, <1>5, <1>6, <1>7, <1>8, <1>9 DEF TypeOK, files, dbKey, toggles
<1>11. IsFiniteSet(late') /\ IsFiniteSet(announced')
  BY <1>0, <1>8, <1>9, FS_AddElement, Zenon DEF dbKey
<1>12. \A q \in Procs : Placed(q)'
  BY <1>0, <1>1, <1>3 DEF Placed, Places, Loaded, Identities, Owning, Procs
<1> QED
  BY <1>10, <1>11, <1>12 DEF Typed
\* A crash takes the handlers of the daemon with it.
LEMMA CrashTyped ==
  ASSUME Typed, NEW p \in Procs, Crash(p)
  PROVE  Typed'
<1>0. TypeOK /\ IsFiniteSet(late) /\ IsFiniteSet(announced) /\ \A q \in Procs : Placed(q)
  BY DEF Typed
<1>1. Down \in Process
  BY DEF Down, Process, At
<1>2. proc' = [proc EXCEPT ![p] = Down]
  BY DEF Crash
<1>3. proc' \in [Procs -> Process]
  BY <1>0, <1>1, <1>2 DEF TypeOK
<1>4. left' \in [Bounded -> Nat]
  BY <1>0 DEF Crash, TypeOK, Bounded
<1>5. toggler' \in [Toggles -> [at : {"idle", "load", "truncate", "write"}, pair : Gates]]
  <2>1. Idle \in [at : {"idle", "load", "truncate", "write"}, pair : Gates]
    BY DEF Idle, Gates
  <2> QED
    BY <1>0, <2>1 DEF Crash, TypeOK
<1>6. excused' \subseteq Toggles /\ upset' \subseteq upset \cup {"torn"}
  BY <1>0 DEF Crash, TypeOK
<1>7. UNCHANGED <<files, dbKey, pin, toggleFile, caps, gates, want, dialing, verdict, announced>>
  BY DEF Crash
<1>8. TypeOK'
  BY <1>0, <1>3, <1>4, <1>5, <1>6, <1>7 DEF TypeOK, files, dbKey, dialing
<1>9. \A q \in Procs : Placed(q)'
  BY <1>0, <1>2 DEF TypeOK, Placed, Places, Down, Loaded, Loading, Identities, Owning, Making, Procs
<1> QED
  BY <1>0, <1>7, <1>8, <1>9 DEF Typed, dbKey

\* What a step that moves no process leaves alone.
LEMMA OthersPlaced ==
  ASSUME Typed, UNCHANGED proc
  PROVE  proc' \in [Procs -> Process] /\ \A q \in Procs : Placed(q)'
BY DEF Typed, TypeOK, Placed, Process, At, Places

\* So do the toggles and their handlers.
LEMMA ToggleTyped ==
  ASSUME Typed, NEW t \in Toggles, Toggle(t) \/ Persist(t)
  PROVE  Typed'
<1> DEFINE Handler == [at : {"idle", "load", "truncate", "write"}, pair : Gates]
<1>0. TypeOK /\ IsFiniteSet(late) /\ IsFiniteSet(announced)
  BY DEF Typed
<1>1. toggler \in [Toggles -> Handler] /\ gates \in Gates /\ want \in Gates
  BY <1>0 DEF TypeOK
<1>2. proc' \in [Procs -> Process] /\ \A q \in Procs : Placed(q)'
  BY OthersPlaced DEF Toggle, Persist, LoadBoth, Truncate, WriteToggles
<1>3. toggler' \in [Toggles -> Handler]
  <2>1. CASE Toggle(t) \/ Truncate(t)
    BY <1>1, <2>1 DEF Toggle, Truncate
  <2>2. CASE LoadBoth(t)
    <3>1. [u \in Toggles |-> gates[u] \/ (u = "input" /\ u \notin caps)] \in Gates
      BY <1>1 DEF Gates
    <3> QED
      BY <1>1, <2>2, <3>1 DEF LoadBoth
  <2>3. CASE WriteToggles(t)
    <3>1. Idle \in Handler
      BY DEF Idle, Gates
    <3> QED
      BY <1>1, <2>3, <3>1 DEF WriteToggles
  <2> QED
    BY <2>1, <2>2, <2>3 DEF Persist
<1>4. gates' \in Gates /\ want' \in Gates
  <2>1. CASE Toggle(t)
    BY <1>1, <2>1 DEF Toggle, Gates
  <2>2. CASE Persist(t)
    BY <1>1, <2>2 DEF Persist, LoadBoth, Truncate, WriteToggles
  <2> QED
    BY <2>1, <2>2
<1>5. toggleFile' \in Gates \cup {None, Torn}
  BY <1>0, <1>1 DEF TypeOK, Toggle, Persist, LoadBoth, Truncate, WriteToggles
<1>6. excused' \subseteq Toggles
  BY <1>0 DEF TypeOK, Toggle, Persist, LoadBoth, Truncate, WriteToggles
<1>7. left' \in [Bounded -> Nat]
  <2>1. left' = left \/ (left["toggles"] > 0 /\ left' = [left EXCEPT !["toggles"] = @ - 1])
    BY DEF Toggle, Persist, LoadBoth, Truncate, WriteToggles
  <2> QED
    BY <1>0, <2>1 DEF TypeOK, Bounded
<1>8. UNCHANGED <<files, dbKey, pin, caps, dialing, verdict, announced, upset>>
  BY DEF Toggle, Persist, LoadBoth, Truncate, WriteToggles
<1>9. TypeOK'
  BY <1>0, <1>2, <1>3, <1>4, <1>5, <1>6, <1>7, <1>8 DEF TypeOK, files, dbKey, dialing
<1> QED
  BY <1>0, <1>2, <1>8, <1>9 DEF Typed, dbKey

\* So does the world around: the keyring and the peer.
LEMMA OutsideTyped ==
  ASSUME Typed, StoreLate \/ KeyringChanges \/ PeerRekeys
  PROVE  Typed'
<1>0. TypeOK /\ IsFiniteSet(late) /\ IsFiniteSet(announced)
  BY DEF Typed
<1>1. proc' \in [Procs -> Process] /\ \A q \in Procs : Placed(q)'
  BY OthersPlaced DEF StoreLate, KeyringChanges, PeerRekeys
<1>2. keyring' \in Keys \cup {None} /\ late' \subseteq Keys /\ reach' \in {"fast", "slow", "unreachable"}
  BY <1>0 DEF TypeOK, StoreLate, KeyringChanges, PeerRekeys, dbKey
<1>3. peer' \in PeerCerts
  BY <1>0 DEF TypeOK, StoreLate, KeyringChanges, PeerRekeys, dialing
<1>4. left' \in [Bounded -> Nat]
  <2>1. \/ left' = left
        \/ \E b \in {"changes", "rekeys"} : left[b] > 0 /\ left' = [left EXCEPT ![b] = @ - 1]
    BY DEF StoreLate, KeyringChanges, PeerRekeys
  <2> QED
    BY <1>0, <2>1 DEF TypeOK, Bounded
<1>5. UNCHANGED <<files, keyFile, pin, toggles, dial, verdict, announced>> /\ upset' \subseteq upset \cup {"keyring"}
  BY DEF StoreLate, KeyringChanges, PeerRekeys, dialing, dbKey
<1>6. TypeOK'
  BY <1>0, <1>1, <1>2, <1>3, <1>4, <1>5 DEF TypeOK, files, toggles
<1>7. IsFiniteSet(late')
  BY <1>0, FS_RemoveElement, Zenon DEF StoreLate, KeyringChanges, PeerRekeys, dbKey
<1> QED
  BY <1>0, <1>1, <1>5, <1>6, <1>7 DEF Typed

LEMMA TypedStep == ASSUME Typed, Inexhaustible, [Next]_vars PROVE Typed'
<1>1. CASE UNCHANGED vars
  <2>1. proc' \in [Procs -> Process] /\ \A q \in Procs : Placed(q)'
    BY <1>1, OthersPlaced DEF vars
  <2> QED
    BY <1>1, <2>1 DEF Typed, TypeOK, vars, files, dbKey, toggles, dialing
<1>2. CASE \E p \in Loaders : LoadKey(p)
  BY <1>2, LoadKeyTyped
<1>3. CASE \E p \in Makers : MakeIdentity(p)
  BY <1>3, MakeIdentityTyped
<1>4. CASE Start \/ Migrate \/ LoadToggles \/ Serve \/ Stop
  BY <1>4, DaemonTyped
<1>5. CASE RunDoctor \/ Report
  BY <1>5, DoctorTyped
<1>6. CASE LookUp \/ Pair \/ Dial \/ Record
  BY <1>6, DesktopTyped
<1>7. CASE \E p \in Procs : Crash(p)
  BY <1>7, CrashTyped
<1>8. CASE \E t \in Toggles : Toggle(t) \/ Persist(t)
  BY <1>8, ToggleTyped
<1>9. CASE StoreLate \/ KeyringChanges \/ PeerRekeys
  BY <1>9, OutsideTyped
<1> QED
  BY <1>1, <1>2, <1>3, <1>4, <1>5, <1>6, <1>7, <1>8, <1>9
  DEF Next, Daemon, Doctor, Desktop, Loaders, Makers

LEMMA TypedAlways == ASSUME Inexhaustible PROVE Spec => []Typed
BY TypedInit, TypedStep, PTL DEF Spec

(* What is on disk, in the keyring and in each process has its type, a key *)
(* or certificate that is in use is a real one, and every process is at a  *)
(* step of its own.                                                        *)
THEOREM StartupTypeCorrect == ASSUME Inexhaustible PROVE Spec => []TypeOK
<1>1. Typed => TypeOK
  BY DEF Typed
<1> QED
  BY <1>1, TypedAlways, PTL
-----------------------------------------------------------------------------
(* The identity.  It has one maker, whose progress the two files show, and *)
(* so has the key file; a file that is half made and has no maker was left *)
(* by a crash.                                                             *)

Made(p) ==
  /\ proc[p].at = "writeCert" => cert = Torn /\ key = None
  /\ proc[p].at = "createPem" => cert = proc[p].tls /\ key = None
  /\ proc[p].at = "writePem" => cert = proc[p].tls /\ key = Torn
  /\ proc[p].at \in Identities => key = proc[p].tls
  /\ proc[p].at = "writeKey" => keyFile = Torn
Shown ==
  /\ cert \in {None, Torn} => key = None
  /\ key \in Pairs => cert = key
  /\ announced # {} => announced = {key} /\ key \in Pairs
Half ==
  /\ cert = Torn \/ key # cert => "torn" \in upset \/ \E p \in Procs : proc[p].at \in Owning
  /\ keyFile = Torn => "torn" \in upset \/ \E p \in Procs : proc[p].at = "writeKey"
OneMaker ==
  \A p, q \in Procs :
    p # q => ~(proc[p].at \in Owning /\ proc[q].at \in Owning) /\ ~(proc[p].at = "writeKey" /\ proc[q].at = "writeKey")
IdentityInv == OneMaker /\ (\A p \in Procs : Made(p)) /\ Shown /\ Half

LEMMA IdentityInit == ASSUME Init PROVE IdentityInv
BY StartupAssumption DEF Init, Down, IdentityInv, OneMaker, Made, Shown, Half, Owning, Identities

\* A process moves to where it makes no file, or its death is a reason to find one half made.
LEMMA IdentityQuiet ==
  ASSUME Typed, IdentityInv, NEW p \in Procs, NEW r, proc' = [proc EXCEPT ![p] = r],
         UNCHANGED <<cert, key, keyFile>>, upset \subseteq upset',
         announced' = announced \/ (key \in Pairs /\ announced' = announced \cup {key}),
         r.at \notin Owning \cup {"writeKey"}, r.at \in Identities => key = r.tls,
         proc[p].at \notin Owning \cup {"writeKey"} \/ "torn" \in upset'
  PROVE  IdentityInv'
<1>1. /\ proc'[p] = r
      /\ \A q \in Procs : q # p => proc'[q] = proc[q]
  BY DEF Typed, TypeOK
<1>2. OneMaker'
  BY <1>1 DEF IdentityInv, OneMaker
<1>3. \A q \in Procs : Made(q)'
  BY <1>1 DEF IdentityInv, Made, Owning
<1>4. Shown'
  BY DEF IdentityInv, Shown
<1>5. Half'
  <2>1. CASE "torn" \in upset'
    BY <2>1 DEF Half
  <2>2. CASE "torn" \notin upset'
    <3>1. proc[p].at \notin Owning \cup {"writeKey"} /\ "torn" \notin upset
      BY <2>2
    <3> QED
      BY <1>1, <3>1 DEF IdentityInv, Half
  <2> QED
    BY <2>1, <2>2
<1> QED
  BY <1>2, <1>3, <1>4, <1>5 DEF IdentityInv

\* No process moves, and no file changes.
LEMMA IdentityStill ==
  ASSUME IdentityInv, UNCHANGED <<proc, cert, key, keyFile, announced>>, upset \subseteq upset'
  PROVE  IdentityInv'
BY DEF IdentityInv, OneMaker, Made, Shown, Half

\* The steps of loading a key: they make the key file at most.
LEMMA LoadKeyIdentity ==
  ASSUME Typed, Typed', IdentityInv, NEW p \in Loaders, LoadKey(p)
  PROVE  IdentityInv'
<1>0. proc \in [Procs -> Process] /\ p \in Procs /\ Placed(p) /\ Made(p) /\ Shown /\ Half /\ OneMaker
  BY DEF Typed, TypeOK, Loaders, Procs, IdentityInv
<1>1. UNCHANGED <<cert, key, announced, upset>>
  BY DEF LoadKey, ReadKeyring, StoreInKeyring, KeyringFails, LoadKeyFile, CreateKeyFile, WriteKeyFile, files
<1>2. proc[p].at \in Loading
  BY DEF LoadKey, ReadKeyring, StoreInKeyring, KeyringFails, LoadKeyFile, CreateKeyFile, WriteKeyFile, Loading
<1> DEFINE Clear(r) == /\ proc' = [proc EXCEPT ![p] = r]
                       /\ r.at \in {"down", "migrate", "report", "store", "file", "createKey"}
<1>3. ASSUME NEW k, Got(p, k)
      PROVE  \E r : Clear(r)
  <2>1. Clear([proc[p] EXCEPT !.at = IF p = "daemon" THEN "migrate" ELSE "report", !.db = k])
    BY <1>0, <1>3 DEF Got, Process
  <2> QED
    BY <2>1, Zenon
<1>4. ASSUME NoKey(p)
      PROVE  \E r : Clear(r)
  <2>1. CASE p = "daemon"
    <3>1. Clear(Down)
      BY <1>4, <2>1 DEF NoKey, Down
    <3> QED
      BY <3>1, Zenon
  <2>2. CASE p # "daemon"
    BY <1>3, <1>4, <2>2 DEF NoKey
  <2> QED
    BY <2>1, <2>2
<1>5. ASSUME NEW k, NEW at \in {"store", "file"}, proc' = [proc EXCEPT ![p] = [@ EXCEPT !.at = at, !.db = k]]
      PROVE  \E r : Clear(r)
  <2>1. Clear([proc[p] EXCEPT !.at = at, !.db = k])
    BY <1>0, <1>5 DEF Process
  <2> QED
    BY <2>1, Zenon
<1>6. ASSUME Go(p, "createKey")
      PROVE  \E r : Clear(r)
  <2>1. Clear([proc[p] EXCEPT !.at = "createKey"])
    BY <1>0, <1>6 DEF Go, Process
  <2> QED
    BY <2>1, Zenon
<1>7. ASSUME NEW r, Clear(r), proc[p].at # "writeKey", UNCHANGED keyFile
      PROVE  IdentityInv'
  <2>1. proc[p].at \notin Owning \cup {"writeKey"}
    BY <1>2, <1>7 DEF Loading, Owning
  <2>2. r.at \notin Owning \cup {"writeKey"} \cup Identities
    BY <1>7 DEF Owning, Identities
  <2> QED
    BY <1>0, <1>1, <1>7, <2>1, <2>2, IdentityQuiet
<1> HIDE DEF Clear
<1>8. CASE ReadKeyring(p)
  <2>1. UNCHANGED keyFile /\ proc[p].at # "writeKey" /\ \E r : Clear(r)
    BY <1>3, <1>5, <1>8 DEF ReadKeyring, dbKey
  <2> QED
    BY <1>7, <2>1
<1>9. CASE StoreInKeyring(p)
  <2>1. UNCHANGED keyFile /\ proc[p].at # "writeKey" /\ \E r : Clear(r)
    BY <1>3, <1>9 DEF StoreInKeyring
  <2> QED
    BY <1>7, <2>1
<1>10. CASE KeyringFails(p)
  <2>1. UNCHANGED keyFile /\ proc[p].at # "writeKey" /\ \E r : Clear(r)
    BY <1>5, <1>10 DEF KeyringFails
  <2> QED
    BY <1>7, <2>1
<1>11. CASE LoadKeyFile(p)
  <2>1. UNCHANGED keyFile /\ proc[p].at # "writeKey" /\ \E r : Clear(r)
    BY <1>3, <1>4, <1>6, <1>11 DEF LoadKeyFile, dbKey
  <2> QED
    BY <1>7, <2>1
<1>12. CASE CreateKeyFile(p)
  <2>1. CASE keyFile # None
    <3>1. UNCHANGED keyFile /\ proc[p].at # "writeKey" /\ \E r : Clear(r)
      BY <1>4, <1>12, <2>1 DEF CreateKeyFile
    <3> QED
      BY <1>7, <3>1
  <2>2. CASE keyFile = None
    <3>1. keyFile' = Torn /\ proc' = [proc EXCEPT ![p] = [@ EXCEPT !.at = "writeKey", !.db = RandomKey]]
      BY <1>12, <2>2 DEF CreateKeyFile
    <3>2. proc'[p].at = "writeKey" /\ \A q \in Procs : q # p => proc'[q] = proc[q]
      BY <1>0, <3>1 DEF Process
    <3>3. \A q \in Procs : proc[q].at # "writeKey"
      BY <2>2, StartupAssumption DEF IdentityInv, Made
    <3>4. proc[p].at \notin Owning
      BY <1>2 DEF Loading, Owning
    <3>5. OneMaker'
      BY <1>0, <3>2, <3>3 DEF OneMaker, Owning
    <3>6. \A q \in Procs : Made(q)'
      BY <1>1, <3>1, <3>2 DEF IdentityInv, Made, Identities
    <3>7. Half' /\ Shown'
      BY <1>0, <1>1, <3>2, <3>4 DEF Half, Shown
    <3> QED
      BY <3>5, <3>6, <3>7 DEF IdentityInv
  <2> QED
    BY <2>1, <2>2
<1>13. CASE WriteKeyFile(p)
  <2>1. keyFile' \in Keys /\ proc[p].at = "writeKey"
    BY <1>0, <1>13 DEF WriteKeyFile, Placed
  <2>2. keyFile' # Torn
    BY <2>1, StartupAssumption
  <2>3. PICK r : Clear(r)
    BY <1>3, <1>13 DEF WriteKeyFile
  <2>4. /\ proc'[p] = r /\ \A q \in Procs : q # p => proc'[q] = proc[q]
        /\ r.at \notin Owning \cup {"writeKey"} \cup Identities
    BY <1>0, <2>3 DEF Clear, Owning, Identities
  <2>5. \A q \in Procs : q # p => proc[q].at # "writeKey"
    BY <1>0, <2>1 DEF OneMaker
  <2>6. OneMaker'
    BY <1>0, <2>4 DEF OneMaker
  <2>7. \A q \in Procs : Made(q)'
    BY <1>1, <2>4, <2>5 DEF IdentityInv, Made, Owning
  <2>8. Half' /\ Shown'
    BY <1>0, <1>1, <2>1, <2>2, <2>4 DEF Half, Shown, Owning
  <2> QED
    BY <2>6, <2>7, <2>8 DEF IdentityInv
<1> QED
  BY <1>8, <1>9, <1>10, <1>11, <1>12, <1>13 DEF LoadKey
\* The steps of loading or making the identity.
LEMMA MakeIdentityIdentity ==
  ASSUME Typed, Typed', IdentityInv, NEW p \in Makers, MakeIdentity(p)
  PROVE  IdentityInv'
<1>0. /\ proc \in [Procs -> Process] /\ p \in Procs /\ Placed(p) /\ Made(p) /\ Shown /\ Half /\ OneMaker
      /\ cert \in Pairs \cup {None, Torn} /\ key \in Pairs \cup {None, Torn}
  BY DEF Typed, TypeOK, Makers, Procs, IdentityInv
<1>1. UNCHANGED <<keyFile, announced, upset>>
  BY DEF MakeIdentity, LoadIdentity, CreateCert, WriteCert, CreateKeyPem, WriteKeyPem, dbKey
<1>2. None # Torn /\ None \notin Pairs /\ Torn \notin Pairs
  BY StartupAssumption
<1>3. ASSUME NEW r, proc' = [proc EXCEPT ![p] = r], r.at \in {"down", "createCert", "toggles", "dial"},
             r.at \in {"toggles", "dial"} => key = r.tls,
             proc[p].at \in {"tls", "createCert"}, UNCHANGED files
      PROVE  IdentityInv'
  <2>1. proc[p].at \notin Owning \cup {"writeKey"} /\ r.at \notin Owning \cup {"writeKey"}
    BY <1>3 DEF Owning
  <2>2. r.at \in Identities => key = r.tls
    BY <1>3 DEF Identities
  <2> QED
    BY <1>0, <1>1, <1>3, <2>1, <2>2, IdentityQuiet DEF files
<1>4. ASSUME NoIdentity(p), proc[p].at \in {"tls", "createCert"}, UNCHANGED files
      PROVE  IdentityInv'
  <2>1. Down.at = "down" /\ proc' = [proc EXCEPT ![p] = Down]
    BY <1>4 DEF NoIdentity, Down
  <2> QED
    BY <1>3, <1>4, <2>1
<1>5. ASSUME NEW at, Go(p, at)
      PROVE  /\ proc'[p].at = at /\ proc'[p].tls = proc[p].tls
             /\ \A q \in Procs : q # p => proc'[q] = proc[q]
  BY <1>0, <1>5 DEF Go, Process
<1>6. CASE LoadIdentity(p)
  <2>1. CASE Go(p, "createCert")
    <3>1. [proc[p] EXCEPT !.at = "createCert"].at = "createCert"
      BY <1>0 DEF Process
    <3> QED
      BY <1>3, <1>6, <2>1, <3>1 DEF LoadIdentity, Go
  <2>2. CASE NoIdentity(p)
    BY <1>4, <1>6, <2>2 DEF LoadIdentity
  <2>3. CASE cert \in Pairs /\ key \in Pairs /\ Identified(p, cert)
    <3> DEFINE r == [proc[p] EXCEPT !.at = IF p = "daemon" THEN "toggles" ELSE "dial", !.tls = cert]
    <3>1. r.at \in {"toggles", "dial"} /\ r.tls = cert
      BY <1>0 DEF Process
    <3>2. proc' = [proc EXCEPT ![p] = r]
      BY <2>3 DEF Identified
    <3>3. cert = key
      BY <1>0, <2>3 DEF Shown
    <3> HIDE DEF r
    <3> QED
      BY <1>3, <1>6, <3>1, <3>2, <3>3 DEF LoadIdentity
  <2> QED
    BY <1>6, <2>1, <2>2, <2>3 DEF LoadIdentity
<1>7. CASE CreateCert(p)
  <2>1. CASE cert # None
    BY <1>4, <1>7, <2>1 DEF CreateCert, files
  <2>2. CASE cert = None
    <3>1. /\ cert' = Torn /\ key' = key
          /\ proc' = [proc EXCEPT ![p] = [@ EXCEPT !.at = "writeCert", !.tls = NewPair]]
      BY <1>7, <2>2 DEF CreateCert
    <3>2. proc'[p].at = "writeCert" /\ \A q \in Procs : q # p => proc'[q] = proc[q]
      BY <1>0, <3>1 DEF Process
    <3>3. key = None /\ announced = {}
      BY <1>0, <1>2, <2>2 DEF Shown
    <3>4. \A q \in Procs : proc[q].at \notin Owning
      <4>1. \A q \in Procs : Made(q) /\ Placed(q)
        BY DEF Typed, IdentityInv
      <4> QED
        BY <1>2, <2>2, <4>1 DEF Made, Owning, Placed
    <3>5. OneMaker'
      BY <1>0, <1>7, <3>2, <3>4 DEF OneMaker, CreateCert
    <3>6. \A q \in Procs : Made(q)'
      BY <1>1, <3>1, <3>2, <3>3, <3>4 DEF IdentityInv, Made, Owning, Identities
    <3>7. Shown' /\ Half'
      BY <1>0, <1>1, <1>2, <1>7, <3>1, <3>2, <3>3 DEF Shown, Half, Owning, CreateCert
    <3> QED
      BY <3>5, <3>6, <3>7 DEF IdentityInv
  <2> QED
    BY <2>1, <2>2
<1>8. ASSUME proc[p].at \in Owning
      PROVE  /\ \A q \in Procs : q # p => proc[q].at \notin Owning
             /\ key \notin Pairs => \A q \in Procs : proc[q].at \notin Identities
  <2>1. \A q \in Procs : Made(q) /\ Placed(q)
    BY DEF Typed, IdentityInv
  <2> QED
    BY <1>0, <1>8, <2>1 DEF OneMaker, Made, Placed
<1>9. CASE WriteCert(p)
  <2>1. /\ proc[p].at = "writeCert" /\ cert' = proc[p].tls /\ key' = key /\ key = None
        /\ proc[p].tls \in Pairs
    BY <1>0, <1>9 DEF WriteCert, Made, Placed, Owning
  <2>2. /\ proc'[p].at = "createPem" /\ proc'[p].tls = proc[p].tls
        /\ \A q \in Procs : q # p => proc'[q] = proc[q]
    BY <1>5, <1>9 DEF WriteCert
  <2>3. OneMaker'
    BY <1>0, <1>8, <2>1, <2>2 DEF OneMaker, Owning
  <2>4. \A q \in Procs : Made(q)'
    BY <1>1, <1>2, <1>8, <2>1, <2>2 DEF IdentityInv, Made, Owning, Identities
  <2>5. Shown' /\ Half'
    BY <1>0, <1>1, <1>2, <2>1, <2>2 DEF Shown, Half, Owning
  <2> QED
    BY <2>3, <2>4, <2>5 DEF IdentityInv
<1>10. CASE CreateKeyPem(p)
  <2>1. /\ proc[p].at = "createPem" /\ cert = proc[p].tls /\ cert' = cert /\ key = None
        /\ proc[p].tls \in Pairs
    BY <1>0, <1>10 DEF CreateKeyPem, Made, Placed, Owning
  <2>2. key' = Torn /\ Go(p, "writePem")
    BY <1>10, <2>1 DEF CreateKeyPem
  <2>3. /\ proc'[p].at = "writePem" /\ proc'[p].tls = proc[p].tls
        /\ \A q \in Procs : q # p => proc'[q] = proc[q]
    BY <1>5, <2>2
  <2>4. OneMaker'
    BY <1>0, <1>8, <2>1, <2>3 DEF OneMaker, Owning
  <2>5. \A q \in Procs : Made(q)'
    BY <1>1, <1>2, <1>8, <2>1, <2>2, <2>3 DEF IdentityInv, Made, Owning, Identities
  <2>6. Shown' /\ Half'
    BY <1>0, <1>1, <1>2, <2>1, <2>2, <2>3 DEF Shown, Half, Owning
  <2> QED
    BY <2>4, <2>5, <2>6 DEF IdentityInv
<1>11. CASE WriteKeyPem(p)
  <2>1. /\ proc[p].at = "writePem" /\ cert = proc[p].tls /\ cert' = cert /\ key = Torn /\ key' = proc[p].tls
        /\ proc[p].tls \in Pairs
    BY <1>0, <1>11 DEF WriteKeyPem, Made, Placed, Owning
  <2>2. /\ proc'[p].at \in {"toggles", "dial"} /\ proc'[p].tls = proc[p].tls
        /\ \A q \in Procs : q # p => proc'[q] = proc[q]
    BY <1>0, <1>11 DEF WriteKeyPem, Identified, Process
  <2>3. OneMaker'
    BY <1>0, <2>1, <2>2 DEF OneMaker, Owning
  <2>4. \A q \in Procs : Made(q)'
    BY <1>1, <1>2, <1>8, <2>1, <2>2 DEF IdentityInv, Made, Owning, Identities
  <2>5. Shown' /\ Half'
    BY <1>0, <1>1, <1>2, <2>1, <2>2 DEF Shown, Half, Owning
  <2> QED
    BY <2>3, <2>4, <2>5 DEF IdentityInv
<1> QED
  BY <1>6, <1>7, <1>9, <1>10, <1>11 DEF MakeIdentity
\* The other steps of the three processes.
LEMMA OthersIdentity ==
  ASSUME Typed, IdentityInv,
         \/ Start \/ Migrate \/ LoadToggles \/ Serve \/ Stop \/ RunDoctor \/ Report
         \/ LookUp \/ Pair \/ Dial \/ Record \/ \E p \in Procs : Crash(p)
  PROVE  IdentityInv'
<1>0. /\ proc \in [Procs -> Process] /\ {"daemon", "doctor", "desktop"} \subseteq Procs
      /\ \A p \in Procs : Placed(p) /\ Made(p)
  BY DEF Typed, TypeOK, Procs, IdentityInv
<1>1. UNCHANGED <<cert, key, keyFile>> /\ upset \subseteq upset'
  BY DEF Start, Migrate, LoadToggles, Serve, Stop, RunDoctor, Report, LookUp, Pair, Dial, Record, Crash, files, dbKey
<1>2. ASSUME NEW p \in Procs, NEW r, proc' = [proc EXCEPT ![p] = r],
             r.at \in {"down", "keyring", "tls", "bind", "serving", "record"},
             r.at \in {"bind", "serving", "record"} => proc[p].at \in Identities /\ r.tls = proc[p].tls,
             proc[p].at \notin Owning \cup {"writeKey"} \/ "torn" \in upset',
             announced' = announced \/ (proc[p].at \in Identities /\ announced' = announced \cup {proc[p].tls})
      PROVE  IdentityInv'
  <2>1. proc[p].at \in Identities => key = proc[p].tls /\ key \in Pairs
    BY <1>0 DEF Made, Placed
  <2>2. r.at \notin Owning \cup {"writeKey"} /\ (r.at \in Identities => key = r.tls)
    BY <1>2, <2>1 DEF Owning, Identities
  <2>3. announced' = announced \/ (key \in Pairs /\ announced' = announced \cup {key})
    BY <1>2, <2>1
  <2> QED
    BY <1>1, <1>2, <2>2, <2>3, IdentityQuiet
<1>3. ASSUME NEW p \in Procs, NEW at \in {"keyring", "tls", "bind", "serving", "record"}, Go(p, at),
             at \in {"bind", "serving", "record"} => proc[p].at \in Identities,
             proc[p].at \notin Owning \cup {"writeKey"},
             announced' = announced \/ (proc[p].at \in Identities /\ announced' = announced \cup {proc[p].tls})
      PROVE  IdentityInv'
  <2> DEFINE r == [proc[p] EXCEPT !.at = at]
  <2>1. r.at = at /\ r.tls = proc[p].tls /\ proc' = [proc EXCEPT ![p] = r]
    BY <1>0, <1>3 DEF Process, Go
  <2> HIDE DEF r
  <2> QED
    BY <1>2, <1>3, <2>1
<1>4. ASSUME NEW p \in Procs, proc' = [proc EXCEPT ![p] = Down],
             proc[p].at \notin Owning \cup {"writeKey"} \/ "torn" \in upset',
             announced' = announced \/ (proc[p].at \in Identities /\ announced' = announced \cup {proc[p].tls})
      PROVE  IdentityInv'
  <2>1. Down.at = "down"
    BY DEF Down
  <2> QED
    BY <1>2, <1>4, <2>1
<1>5. CASE Start
  BY <1>0, <1>3, <1>5 DEF Start, Owning
<1>6. CASE Migrate
  BY <1>0, <1>3, <1>6 DEF Migrate, Owning
<1>7. CASE LoadToggles
  BY <1>0, <1>3, <1>7 DEF LoadToggles, Owning, Identities
<1>8. CASE Serve
  BY <1>0, <1>3, <1>8 DEF Serve, Owning, Identities
<1>9. CASE Stop
  BY <1>0, <1>4, <1>9 DEF Stop, Owning
<1>10. CASE RunDoctor
  BY <1>0, <1>3, <1>10 DEF RunDoctor, Owning
<1>11. CASE Report
  BY <1>0, <1>4, <1>11 DEF Report, Owning
<1>12. CASE LookUp \/ Pair
  BY <1>0, <1>3, <1>12 DEF LookUp, Pair, Owning
<1>13. CASE Dial
  BY <1>0, <1>3, <1>4, <1>13 DEF Dial, Owning, Identities
<1>14. CASE Record
  BY <1>0, <1>4, <1>14 DEF Record, Owning
<1>15. CASE \E p \in Procs : Crash(p)
  <2>1. PICK p \in Procs : Crash(p)
    BY <1>15
  <2>2. proc[p].at \notin Owning \cup {"writeKey"} \/ "torn" \in upset'
    BY <2>1 DEF Crash, Owning, Writing, Making
  <2> QED
    BY <1>4, <2>1, <2>2 DEF Crash
<1> QED
  BY <1>5, <1>6, <1>7, <1>8, <1>9, <1>10, <1>11, <1>12, <1>13, <1>14, <1>15

LEMMA IdentityStep == ASSUME Typed, Typed', IdentityInv, [Next]_vars PROVE IdentityInv'
<1>1. CASE UNCHANGED vars
  BY <1>1, IdentityStill DEF vars, files, dbKey
<1>2. CASE \E p \in Loaders : LoadKey(p)
  BY <1>2, LoadKeyIdentity
<1>3. CASE \E p \in Makers : MakeIdentity(p)
  BY <1>3, MakeIdentityIdentity
<1>4. CASE \/ Start \/ Migrate \/ LoadToggles \/ Serve \/ Stop \/ RunDoctor \/ Report
           \/ LookUp \/ Pair \/ Dial \/ Record \/ \E p \in Procs : Crash(p)
  BY <1>4, OthersIdentity
<1>5. CASE \E t \in Toggles : Toggle(t) \/ Persist(t)
  BY <1>5, IdentityStill DEF Toggle, Persist, LoadBoth, Truncate, WriteToggles, files, dbKey
<1>6. CASE StoreLate \/ KeyringChanges \/ PeerRekeys
  BY <1>6, IdentityStill DEF StoreLate, KeyringChanges, PeerRekeys, files, dbKey
<1> QED
  BY <1>1, <1>2, <1>3, <1>4, <1>5, <1>6 DEF Next, Daemon, Doctor, Desktop, Loaders, Makers

LEMMA IdentityAlways == ASSUME Inexhaustible PROVE Spec => []IdentityInv
BY TypedAlways, IdentityInit, IdentityStep, PTL DEF Spec

(* Whoever generates the identity and however often the processes race,    *)
(* restart or die (tls.rs:149, 208), the machine has presented one         *)
(* certificate, and half-made files are left only by a crash.              *)
THEOREM OneIdentity == ASSUME Inexhaustible PROVE Spec => []IdentityIsWhole
<1>1. ASSUME IdentityInv PROVE IdentityIsWhole
  <2>1. announced = {} \/ announced = {key}
    BY <1>1 DEF IdentityInv, Shown
  <2>2. Cardinality(announced) <= 1
    <3>1. CASE announced = {}
      BY <3>1, FS_EmptySet
    <3>2. CASE announced = {key}
      <4>1. Cardinality({key}) = 1
        BY FS_Singleton, Zenon
      <4> QED
        BY <3>2, <4>1
    <3> QED
      BY <2>1, <3>1, <3>2
  <2>3. Broken => "torn" \in upset
    <3>1. ASSUME \A p \in Procs : proc[p].at \notin Writing
          PROVE  \A p \in Procs : proc[p].at \notin Owning \cup {"writeKey"}
      BY <3>1 DEF Writing, Making, Owning
    <3>2. key = Torn => key # cert \/ cert = Torn
      OBVIOUS
    <3> QED
      BY <1>1, <3>1, <3>2 DEF Broken, IdentityInv, Half
  <2> QED
    BY <2>2, <2>3 DEF IdentityIsWhole
<1> QED
  BY <1>1, IdentityAlways, PTL
-----------------------------------------------------------------------------
(* The key of the pins.  As long as the keyring answers the same way, one  *)
(* place has the key, one process at a time looks for it, and whoever got  *)
(* it and whatever it encrypted agree with that place.                     *)

Steady == "keyring" \notin upset
TheKey == IF reach = "fast" THEN keyring ELSE keyFile

\* Process p at r.at with the key r.db.
Answered(p, r) ==
  /\ reach = "fast" => r.at \notin {"file", "createKey", "writeKey"} /\ (r.at = "store" => keyring = None)
  /\ reach # "fast" => r.at # "store"
  /\ p = "daemon" /\ r.at \in Loaded => r.db = TheKey
  /\ r.at = "report" => r.db \in {TheKey, None}
OneLoader == \A p, q \in Procs : p # q => ~(proc[p].at \in Loading /\ proc[q].at \in Loading)
OneKey ==
  /\ reach \in {"fast", "unreachable"} /\ late = {}
  /\ reach = "fast" => keyFile = None
  /\ reach # "fast" => keyring = None
  /\ OneLoader
  /\ \A p \in Procs : Answered(p, proc[p])
  /\ pin # None => pin.by \in {Plain, TheKey}
KeyInv == Steady => OneKey

LEMMA KeyInit == ASSUME Init PROVE KeyInv
<1>1. \A p \in Procs : proc[p].at = "down"
  BY DEF Init, Down
<1>2. OneLoader /\ \A p \in Procs : Answered(p, proc[p])
  BY <1>1 DEF OneLoader, Answered, Loading, Loaded, Making
<1> QED
  BY <1>2 DEF Init, KeyInv, OneKey

\* The places of the key stay as they are, and a process moves.
LEMMA KeyQuiet ==
  ASSUME Typed, OneKey, NEW p \in Procs, NEW r, proc' = [proc EXCEPT ![p] = r],
         UNCHANGED <<keyFile, keyring, reach, late>>, Answered(p, r),
         r.at \in Loading => \A q \in Procs \ {p} : proc[q].at \notin Loading,
         pin' # None => pin'.by \in {Plain, TheKey}
  PROVE  OneKey'
<1>1. /\ proc'[p] = r
      /\ \A q \in Procs : q # p => proc'[q] = proc[q]
  BY DEF Typed, TypeOK
<1>2. TheKey' = TheKey
  BY DEF TheKey
<1>3. OneLoader'
  BY <1>1 DEF OneKey, OneLoader
<1>4. \A q \in Procs : Answered(q, proc[q])'
  <2> TAKE q \in Procs
  <2>1. Answered(q, proc'[q])
    BY <1>1 DEF OneKey
  <2> QED
    BY <1>2, <2>1 DEF Answered
<1> QED
  BY <1>2, <1>3, <1>4 DEF OneKey

\* A place gets the key, or a file for it: nobody goes by the key that was not there.
LEMMA KeyPlaced ==
  ASSUME Typed, OneKey, TheKey \in {None, Torn}, NEW p \in Procs, proc[p].at \in Loading,
         NEW r, proc' = [proc EXCEPT ![p] = r], UNCHANGED <<pin, reach, late>>,
         Answered(p, r)', reach = "fast" => keyFile' = None, reach # "fast" => keyring' = None
  PROVE  OneKey'
<1>1. /\ proc'[p] = r
      /\ \A q \in Procs : q # p => proc'[q] = proc[q] /\ proc[q].at \notin Loading
  BY DEF Typed, TypeOK, OneKey, OneLoader
<1>2. TheKey \notin Keys /\ None \notin Keys /\ Torn \notin Keys /\ None # Torn
  BY StartupAssumption
<1>3. OneLoader'
  BY <1>1 DEF OneKey, OneLoader
<1>4. \A q \in Procs : Answered(q, proc[q])'
  <2> TAKE q \in Procs
  <2>1. CASE q = p
    BY <1>1, <2>1
  <2>2. CASE q # p
    <3>1. Placed(q) /\ Answered(q, proc[q]) /\ proc[q].db \in Keys \cup {None} /\ proc[q].at \notin Loading
      BY <1>1, <2>2 DEF Typed, TypeOK, OneKey, Process
    <3>2. proc[q].at = "report" => proc[q].db = None
      BY <1>2, <3>1 DEF Answered
    <3>3. ~(q = "daemon" /\ proc[q].at \in Loaded)
      BY <1>2, <3>1 DEF Answered, Placed
    <3>4. Answered(q, proc[q])'
      BY <1>1, <2>2, <3>1, <3>2, <3>3 DEF Answered, Loading
    <3> QED
      BY <3>4
  <2> QED
    BY <2>1, <2>2
<1>5. pin # None => pin.by = Plain
  <2>1. pin # None => pin.by \in Keys \cup {Plain}
    BY DEF Typed, TypeOK
  <2> QED
    BY <1>2, <2>1 DEF OneKey
<1> QED
  BY <1>3, <1>4, <1>5 DEF OneKey

LEMMA LoadKeyKey ==
  ASSUME Typed, IdentityInv, OneKey, NEW p \in Loaders, LoadKey(p)
  PROVE  OneKey'
<1>0. /\ proc \in [Procs -> Process] /\ p \in Procs /\ Placed(p) /\ Answered(p, proc[p]) /\ Made(p)
      /\ proc[p].at \in Loading /\ OneLoader /\ reach \in {"fast", "unreachable"}
      /\ pin # None => pin.by \in {Plain, TheKey}
  BY DEF Typed, TypeOK, Loaders, Procs, IdentityInv, OneKey, LoadKey, ReadKeyring, StoreInKeyring, KeyringFails,
     LoadKeyFile, CreateKeyFile, WriteKeyFile, Loading
<1>1. \A q \in Procs \ {p} : proc[q].at \notin Loading
  BY <1>0 DEF OneLoader
<1> DEFINE There(k) == [proc[p] EXCEPT !.at = IF p = "daemon" THEN "migrate" ELSE "report", !.db = k]
<1>2. \A k : /\ There(k).at = IF p = "daemon" THEN "migrate" ELSE "report"
             /\ There(k).db = k
  BY <1>0 DEF Process
<1>3. ASSUME NEW k, Got(p, k)
      PROVE  proc' = [proc EXCEPT ![p] = There(k)]
  BY <1>3 DEF Got
<1> HIDE DEF There
<1>4. ASSUME NEW r, proc' = [proc EXCEPT ![p] = r], Answered(p, r), UNCHANGED <<dbKey, pin>>
      PROVE  OneKey'
  BY <1>0, <1>1, <1>4, KeyQuiet DEF dbKey
<1>5. ASSUME NEW k, Got(p, k), k = TheKey \/ (p # "daemon" /\ k = None), UNCHANGED <<dbKey, pin>>
      PROVE  OneKey'
  <2>1. Answered(p, There(k))
    BY <1>2, <1>5 DEF Answered, Loaded, Making
  <2> QED
    BY <1>3, <1>4, <1>5, <2>1
<1>6. ASSUME NoKey(p), UNCHANGED <<dbKey, pin>>
      PROVE  OneKey'
  <2>1. CASE p = "daemon"
    <3>1. Answered(p, Down)
      BY DEF Answered, Down, Loaded, Making
    <3> QED
      BY <1>4, <1>6, <2>1, <3>1 DEF NoKey
  <2>2. CASE p # "daemon"
    BY <1>5, <1>6, <2>2 DEF NoKey
  <2> QED
    BY <2>1, <2>2
<1>7. ASSUME NEW at, NEW k
      PROVE  /\ [proc[p] EXCEPT !.at = at, !.db = k].at = at
             /\ [proc[p] EXCEPT !.at = at].at = at
  BY <1>0 DEF Process
<1>8. CASE ReadKeyring(p)
  <2>1. CASE keyring # None /\ Got(p, keyring)
    BY <1>5, <1>8, <2>1 DEF ReadKeyring, TheKey
  <2>2. CASE keyring = None /\ proc' = [proc EXCEPT ![p] = [@ EXCEPT !.at = "store", !.db = RandomKey]]
    <3>1. Answered(p, [proc[p] EXCEPT !.at = "store", !.db = RandomKey])
      BY <1>7, <1>8, <2>2 DEF Answered, ReadKeyring, Loaded, Making
    <3> QED
      BY <1>4, <1>8, <2>2, <3>1 DEF ReadKeyring
  <2> QED
    BY <1>8, <2>1, <2>2 DEF ReadKeyring
<1>9. ASSUME Got(p, proc[p].db), TheKey \in {None, Torn}, UNCHANGED <<pin, reach, late>>, TheKey' = proc[p].db,
              reach = "fast" => keyFile' = None, reach # "fast" => keyring' = None
       PROVE  OneKey'
  <2>1. PICK r : r = There(proc[p].db)
    OBVIOUS
  <2>2. /\ proc' = [proc EXCEPT ![p] = r] /\ r.db = TheKey'
        /\ r.at = IF p = "daemon" THEN "migrate" ELSE "report"
    BY <1>2, <1>3, <1>9, <2>1
  <2>3. Answered(p, r)'
    BY <2>2 DEF Answered, Loaded, Making
  <2> QED
    BY <1>0, <1>9, <2>2, <2>3, KeyPlaced
<1>10. CASE StoreInKeyring(p)
  <2>1. TheKey = None /\ reach = "fast" /\ reach' = reach /\ keyring' = proc[p].db /\ keyFile' = keyFile
    BY <1>0, <1>10 DEF StoreInKeyring, Answered, TheKey
  <2>2. TheKey' = proc[p].db /\ keyFile' = None
    BY <2>1 DEF TheKey, OneKey
  <2> QED
    BY <1>10, <1>9, <2>1, <2>2 DEF StoreInKeyring
<1>11. CASE KeyringFails(p)
  <2>1. proc[p].at = "keyring" /\ late' = late /\ reach # "fast"
    BY <1>0, <1>11 DEF KeyringFails, Answered
  <2>2. Answered(p, [proc[p] EXCEPT !.at = "file", !.db = None])
    BY <1>7, <2>1 DEF Answered, Loaded, Making
  <2> QED
    BY <1>4, <1>11, <2>1, <2>2 DEF KeyringFails, dbKey
<1>12. CASE LoadKeyFile(p)
  <2>1. reach # "fast"
    BY <1>0, <1>12 DEF LoadKeyFile, Answered
  <2>2. CASE Go(p, "createKey")
    <3>1. Answered(p, [proc[p] EXCEPT !.at = "createKey"])
      BY <1>7, <2>1 DEF Answered, Loaded, Making
    <3> QED
      BY <1>4, <1>12, <2>2, <3>1 DEF LoadKeyFile, Go
  <2>3. CASE NoKey(p)
    BY <1>6, <1>12, <2>3 DEF LoadKeyFile
  <2>4. CASE Got(p, keyFile)
    BY <1>5, <1>12, <2>1, <2>4 DEF LoadKeyFile, TheKey
  <2> QED
    BY <1>12, <2>2, <2>3, <2>4 DEF LoadKeyFile
<1>13. CASE CreateKeyFile(p)
  <2>1. reach # "fast"
    BY <1>0, <1>13 DEF CreateKeyFile, Answered
  <2>2. CASE keyFile # None
    BY <1>6, <1>13, <2>2 DEF CreateKeyFile, dbKey
  <2>3. CASE keyFile = None
    <3> DEFINE r == [proc[p] EXCEPT !.at = "writeKey", !.db = RandomKey]
    <3>1. TheKey = None /\ proc' = [proc EXCEPT ![p] = r] /\ UNCHANGED <<reach, keyring, late, pin>>
      BY <1>13, <2>1, <2>3 DEF CreateKeyFile, TheKey
    <3>2. r.at = "writeKey"
      BY <1>7
    <3>3. keyring' = None
      BY <2>1, <3>1 DEF OneKey
    <3>4. PICK s : s = r
      OBVIOUS
    <3> HIDE DEF r
    <3>5. Answered(p, s)'
      BY <2>1, <3>1, <3>2, <3>4 DEF Answered, Loaded, Making
    <3> QED
      BY <1>0, <2>1, <3>1, <3>3, <3>4, <3>5, KeyPlaced
  <2> QED
    BY <2>2, <2>3
<1>14. CASE WriteKeyFile(p)
  <2>1. reach # "fast" /\ keyFile = Torn /\ keyFile' = proc[p].db /\ reach' = reach /\ keyring' = keyring
    BY <1>0, <1>14 DEF WriteKeyFile, Answered, Made
  <2>2. TheKey = Torn /\ TheKey' = proc[p].db /\ keyring' = None
    BY <2>1 DEF TheKey, OneKey
  <2> QED
    BY <1>14, <1>9, <2>1, <2>2 DEF WriteKeyFile
<1> QED
  BY <1>8, <1>10, <1>11, <1>12, <1>13, <1>14 DEF LoadKey
\* The other steps of the three processes: the keyring is not asked, or not by two at once.
LEMMA OthersKey ==
  ASSUME Typed, OneKey, Steady',
         \/ \E p \in Makers : MakeIdentity(p)
         \/ Start \/ Migrate \/ LoadToggles \/ Serve \/ Stop \/ RunDoctor \/ Report
         \/ LookUp \/ Pair \/ Dial \/ Record \/ \E p \in Procs : Crash(p)
  PROVE  OneKey'
<1>0. /\ proc \in [Procs -> Process] /\ {"daemon", "doctor", "desktop"} = Procs /\ Makers \subseteq Procs
      /\ \A p \in Procs : Placed(p) /\ Answered(p, proc[p])
      /\ pin # None => pin.by \in {Plain, TheKey}
  BY DEF Typed, TypeOK, Procs, Makers, OneKey
<1>1. UNCHANGED <<keyFile, keyring, reach, late>>
  BY DEF Start, Migrate, LoadToggles, Serve, Stop, RunDoctor, Report, LookUp, Pair, Dial, Record, Crash, dbKey,
     MakeIdentity, LoadIdentity, CreateCert, WriteCert, CreateKeyPem, WriteKeyPem
<1>2. proc["daemon"].at \in Loaded => proc["daemon"].db = TheKey
  BY <1>0 DEF Answered
<1>3. pin' # None => pin'.by \in {Plain, TheKey}
  <2>1. CASE Migrate
    <3>1. proc["daemon"].at = "migrate" /\ proc["daemon"].db = TheKey
      BY <1>2, <2>1 DEF Migrate, Loaded
    <3>2. CASE pin' = pin
      BY <1>0, <3>2
    <3>3. CASE pin # None /\ pin' = [pin EXCEPT !.by = TheKey]
      <4>1. pin \in [by : Keys \cup {Plain}, cert : PeerCerts]
        BY <3>3 DEF Typed, TypeOK
      <4> QED
        BY <3>3, <4>1
    <3> QED
      BY <2>1, <3>1, <3>2, <3>3 DEF Migrate
  <2>2. CASE Record
    <3>1. proc["daemon"].at = "serving" => proc["daemon"].db = TheKey
      BY <1>2 DEF Loaded
    <3> QED
      BY <1>0, <2>2, <3>1 DEF Record
  <2>3. CASE ~Migrate /\ ~Record
    <3>1. pin' = pin
      BY <2>3 DEF Start, LoadToggles, Serve, Stop, RunDoctor, Report, LookUp, Pair, Dial, Crash,
         MakeIdentity, LoadIdentity, CreateCert, WriteCert, CreateKeyPem, WriteKeyPem
    <3> QED
      BY <1>0, <3>1
  <2> QED
    BY <2>1, <2>2, <2>3
<1>4. ASSUME NEW p \in Procs, NEW r, proc' = [proc EXCEPT ![p] = r], r.at \notin {"store", "report"},
             r.at \in Loading => r.at = "keyring" /\ \A q \in Procs \ {p} : proc[q].at \notin Loading,
             p = "daemon" /\ r.at \in Loaded => proc[p].at \in Loaded /\ r.db = proc[p].db
      PROVE  OneKey'
  <2>1. Answered(p, r)
    BY <1>0, <1>2, <1>4 DEF Answered, Loading
  <2> QED
    BY <1>1, <1>3, <1>4, <2>1, KeyQuiet
<1>5. ASSUME NEW p \in Procs, proc' = [proc EXCEPT ![p] = Down]
      PROVE  OneKey'
  <2>1. Down.at \notin Loading \cup Loaded \cup {"report"}
    BY DEF Down, Loading, Loaded, Making
  <2> QED
    BY <1>4, <1>5, <2>1 DEF Loading
<1>6. ASSUME NEW p \in Procs, NEW at \in {"tls", "bind", "serving", "dial", "record"} \cup Making, Go(p, at),
             p = "daemon" => proc[p].at \in Loaded
      PROVE  OneKey'
  <2> DEFINE r == [proc[p] EXCEPT !.at = at]
  <2>1. r.at = at /\ r.db = proc[p].db /\ proc' = [proc EXCEPT ![p] = r]
    BY <1>0, <1>6 DEF Process, Go
  <2>2. at \notin Loading \cup {"store", "report"}
    BY <1>6 DEF Loading, Making
  <2> HIDE DEF r
  <2> QED
    BY <1>4, <1>6, <2>1, <2>2
<1>7. ASSUME NEW p \in {"daemon", "doctor"}, Go(p, "keyring"),
             \A q \in {"daemon", "doctor"} \ {p} : proc[q].at \notin Loading
      PROVE  OneKey'
  <2> DEFINE r == [proc[p] EXCEPT !.at = "keyring"]
  <2>1. r.at = "keyring" /\ proc' = [proc EXCEPT ![p] = r]
    BY <1>0, <1>7 DEF Process, Go
  <2>2. "keyring" \notin Loaded \cup {"store", "report"}
    BY DEF Loaded, Making
  <2>3. proc["desktop"].at \notin Loading
    BY <1>0 DEF Placed, Places, Loading, Making
  <2>4. \A q \in Procs \ {p} : proc[q].at \notin Loading
    BY <1>0, <1>7, <2>3
  <2> HIDE DEF r
  <2> QED
    BY <1>0, <1>4, <1>7, <2>1, <2>2, <2>4
<1>8. CASE \E p \in Makers : MakeIdentity(p)
  <2>1. PICK p \in Makers : MakeIdentity(p)
    BY <1>8
  <2>2. p \in Procs /\ proc[p].at \in {"tls"} \cup Making
    BY <1>0, <2>1 DEF MakeIdentity, LoadIdentity, CreateCert, WriteCert, CreateKeyPem, WriteKeyPem, Making
  <2>3. {"createCert", "createPem", "writePem", "writeCert"} = Making /\ {"tls"} \cup Making \subseteq Loaded
    BY DEF Making, Loaded
  <2>4. ASSUME NEW t, NEW at \in {"writeCert", "toggles", "dial"},
               proc' = [proc EXCEPT ![p] = [@ EXCEPT !.at = at, !.tls = t]]
        PROVE  OneKey'
    <3> DEFINE r == [proc[p] EXCEPT !.at = at, !.tls = t]
    <3>1. r.at = at /\ r.db = proc[p].db /\ proc' = [proc EXCEPT ![p] = r]
      BY <1>0, <2>2, <2>4 DEF Process
    <3>2. at \notin Loading \cup {"store", "report"}
      BY <2>4 DEF Loading
    <3> HIDE DEF r
    <3> QED
      BY <1>4, <2>2, <2>3, <2>4, <3>1, <3>2
  <2>5. ASSUME NEW t, Identified(p, t) PROVE OneKey'
    BY <2>4, <2>5 DEF Identified
  <2>6. ASSUME NoIdentity(p) PROVE OneKey'
    BY <1>5, <2>2, <2>6 DEF NoIdentity
  <2>7. ASSUME NEW at \in Making, Go(p, at) PROVE OneKey'
    BY <1>6, <2>2, <2>3, <2>7
  <2>8. CASE LoadIdentity(p)
    BY <2>3, <2>5, <2>6, <2>7, <2>8 DEF LoadIdentity
  <2>9. CASE CreateCert(p)
    BY <2>4, <2>6, <2>9 DEF CreateCert
  <2>10. CASE WriteCert(p)
    BY <2>3, <2>7, <2>10 DEF WriteCert
  <2>11. CASE CreateKeyPem(p)
    BY <2>3, <2>6, <2>7, <2>11 DEF CreateKeyPem
  <2>12. CASE WriteKeyPem(p)
    BY <2>5, <2>12 DEF WriteKeyPem
  <2> QED
    BY <2>1, <2>8, <2>9, <2>10, <2>11, <2>12 DEF MakeIdentity
<1>9. CASE Start
  <2>1. proc["doctor"].at \notin Loading /\ Go("daemon", "keyring")
    BY <1>9 DEF Start, Steady
  <2> QED
    BY <1>7, <2>1
<1>10. CASE RunDoctor
  <2>1. proc["daemon"].at \notin Loading /\ Go("doctor", "keyring")
    BY <1>10 DEF RunDoctor, Steady
  <2> QED
    BY <1>7, <2>1
<1>11. CASE Migrate \/ LoadToggles \/ Serve
  BY <1>0, <1>6, <1>11 DEF Migrate, LoadToggles, Serve, Loaded
<1>12. CASE LookUp \/ Pair
  BY <1>0, <1>6, <1>12 DEF LookUp, Pair
<1>13. CASE Dial
  BY <1>0, <1>5, <1>6, <1>13 DEF Dial
<1>14. CASE Stop \/ Report \/ Record
  BY <1>0, <1>5, <1>14 DEF Stop, Report, Record
<1>15. CASE \E p \in Procs : Crash(p)
  BY <1>5, <1>15 DEF Crash
<1> QED
  BY <1>8, <1>9, <1>10, <1>11, <1>12, <1>13, <1>14, <1>15

LEMMA KeyStep == ASSUME Typed, IdentityInv, KeyInv, [Next]_vars PROVE KeyInv'
<1> SUFFICES ASSUME Steady' PROVE OneKey'
  BY DEF KeyInv
<1>1. upset \subseteq upset'
  BY DEF Next, Daemon, Doctor, Desktop, LoadKey, ReadKeyring, StoreInKeyring, KeyringFails, LoadKeyFile, CreateKeyFile,
     WriteKeyFile, MakeIdentity, LoadIdentity, CreateCert, WriteCert, CreateKeyPem, WriteKeyPem, Start, Migrate,
     LoadToggles, Serve, Stop, RunDoctor, Report, LookUp, Pair, Dial, Record, Crash, StoreLate, KeyringChanges,
     PeerRekeys, Toggle, Persist, LoadBoth, Truncate, WriteToggles, vars
<1>2. OneKey
  BY <1>1 DEF KeyInv, Steady
<1>3. ASSUME UNCHANGED <<dbKey, pin, proc>> PROVE OneKey'
  BY <1>2, <1>3 DEF OneKey, OneLoader, Answered, TheKey, dbKey
<1>4. CASE UNCHANGED vars
  BY <1>3, <1>4 DEF vars
<1>5. CASE \E p \in Loaders : LoadKey(p)
  BY <1>2, <1>5, LoadKeyKey
<1>6. CASE \/ \E p \in Makers : MakeIdentity(p)
           \/ Start \/ Migrate \/ LoadToggles \/ Serve \/ Stop \/ RunDoctor \/ Report
           \/ LookUp \/ Pair \/ Dial \/ Record \/ \E p \in Procs : Crash(p)
  BY <1>2, <1>6, OthersKey
<1>7. CASE (\E t \in Toggles : Toggle(t) \/ Persist(t)) \/ PeerRekeys
  BY <1>3, <1>7 DEF Toggle, Persist, LoadBoth, Truncate, WriteToggles, PeerRekeys
<1>8. CASE StoreLate
  BY <1>2, <1>8 DEF StoreLate, OneKey
<1>9. CASE KeyringChanges
  BY <1>9 DEF KeyringChanges, Steady
<1> QED
  BY <1>4, <1>5, <1>6, <1>7, <1>8, <1>9 DEF Next, Daemon, Doctor, Desktop, Loaders, Makers

LEMMA KeyAlways == ASSUME Inexhaustible PROVE Spec => []KeyInv
BY TypedAlways, IdentityAlways, KeyInit, KeyStep, PTL DEF Spec

(* A serving daemon reads every pin that an earlier life wrote (keys.rs:61, *)
(* repository.rs:78): as long as the keyring answers the same way, no race  *)
(* with a doctor, crash or restart brings another key into use.             *)
THEOREM PinsStayReadable == ASSUME Inexhaustible PROVE Spec => []PinsReadable
<1>1. ASSUME KeyInv PROVE PinsReadable
  <2> SUFFICES ASSUME proc["daemon"].at = "serving", pin # None, Steady PROVE Readable
    BY DEF PinsReadable, Steady
  <2>1. OneKey
    BY <1>1 DEF KeyInv
  <2>2. proc["daemon"].db = TheKey
    BY <2>1 DEF OneKey, Answered, Loaded, Procs
  <2> QED
    BY <2>1, <2>2 DEF OneKey, Readable
<1> QED
  BY <1>1, KeyAlways, PTL
-----------------------------------------------------------------------------
(* The doctor's clean bill. *)

BillInv == verdict # "none" /\ ExitCode(verdict) = 0 /\ Steady => key \in Pairs /\ TheKey \in Keys

\* What is whole stays: files are made once, and the keyring is written when it has no entry.
LEMMA WholeStays ==
  ASSUME Typed, IdentityInv, OneKey, Steady', [Next]_vars
  PROVE  /\ key \in Pairs => key' = key
         /\ TheKey \in Keys => TheKey' = TheKey
<1>0. /\ None \notin Keys \cup Pairs /\ Torn \notin Keys \cup Pairs
      /\ \A p \in Procs : Answered(p, proc[p]) /\ Made(p)
  BY StartupAssumption DEF OneKey, IdentityInv
<1>1. ASSUME UNCHANGED <<key, keyFile, keyring, reach>>
      PROVE  key' = key /\ TheKey' = TheKey
  BY <1>1 DEF TheKey
<1>2. CASE UNCHANGED vars
  BY <1>1, <1>2 DEF vars, files, dbKey
<1>3. CASE \E p \in Loaders : LoadKey(p)
  <2>1. PICK p \in Loaders : LoadKey(p)
    BY <1>3
  <2>2. p \in Procs /\ Answered(p, proc[p]) /\ Made(p)
    BY <1>0 DEF Loaders, Procs
  <2>3. CASE ReadKeyring(p) \/ KeyringFails(p) \/ LoadKeyFile(p)
    BY <1>1, <2>3 DEF ReadKeyring, KeyringFails, LoadKeyFile, files, dbKey
  <2>4. CASE StoreInKeyring(p)
    <3>1. TheKey = None /\ key' = key
      BY <2>2, <2>4 DEF StoreInKeyring, Answered, TheKey, files
    <3> QED
      BY <1>0, <3>1
  <2>5. CASE CreateKeyFile(p)
    <3>1. key' = key /\ reach' = reach /\ keyring' = keyring /\ reach # "fast"
      BY <2>2, <2>5 DEF CreateKeyFile, Answered, files
    <3>2. keyFile \in Keys => keyFile' = keyFile
      BY <1>0, <2>5 DEF CreateKeyFile
    <3> QED
      BY <3>1, <3>2 DEF TheKey
  <2>6. CASE WriteKeyFile(p)
    <3>1. TheKey = Torn /\ key' = key
      BY <2>2, <2>6 DEF WriteKeyFile, Answered, Made, TheKey, files
    <3> QED
      BY <1>0, <3>1
  <2> QED
    BY <2>1, <2>3, <2>4, <2>5, <2>6 DEF LoadKey
<1>4. CASE \E p \in Makers : MakeIdentity(p)
  <2>1. PICK p \in Makers : MakeIdentity(p)
    BY <1>4
  <2>2. p \in Procs /\ Made(p)
    BY <1>0 DEF Makers, Procs
  <2>3. TheKey' = TheKey
    BY <2>1 DEF MakeIdentity, LoadIdentity, CreateCert, WriteCert, CreateKeyPem, WriteKeyPem, dbKey, TheKey
  <2>4. key \in Pairs => key' = key
    BY <1>0, <2>1, <2>2 DEF MakeIdentity, LoadIdentity, CreateCert, WriteCert, CreateKeyPem, WriteKeyPem, files, Made
  <2> QED
    BY <2>3, <2>4
<1>5. CASE \/ Start \/ Migrate \/ LoadToggles \/ Serve \/ Stop \/ RunDoctor \/ Report
           \/ LookUp \/ Pair \/ Dial \/ Record \/ (\E p \in Procs : Crash(p))
           \/ (\E t \in Toggles : Toggle(t) \/ Persist(t)) \/ PeerRekeys
  BY <1>1, <1>5 DEF Start, Migrate, LoadToggles, Serve, Stop, RunDoctor, Report, LookUp, Pair, Dial, Record, Crash,
     Toggle, Persist, LoadBoth, Truncate, WriteToggles, PeerRekeys, files, dbKey
<1>6. CASE StoreLate
  BY <1>6 DEF StoreLate, OneKey
<1>7. CASE KeyringChanges
  BY <1>7 DEF KeyringChanges, Steady
<1> QED
  BY <1>2, <1>3, <1>4, <1>5, <1>6, <1>7 DEF Next, Daemon, Doctor, Desktop, Loaders, Makers

LEMMA BillInit == ASSUME Init PROVE BillInv
BY DEF Init, BillInv

LEMMA BillStep ==
  ASSUME Typed, IdentityInv, KeyInv, BillInv, [Next]_vars
  PROVE  BillInv'
<1> SUFFICES ASSUME verdict' # "none", ExitCode(verdict') = 0, Steady'
             PROVE  key' \in Pairs /\ TheKey' \in Keys
  BY DEF BillInv
<1>1. OneKey /\ Steady
  <2>1. upset \subseteq upset'
    BY DEF Next, Daemon, Doctor, Desktop, LoadKey, ReadKeyring, StoreInKeyring, KeyringFails, LoadKeyFile,
       CreateKeyFile, WriteKeyFile, MakeIdentity, LoadIdentity, CreateCert, WriteCert, CreateKeyPem, WriteKeyPem,
       Start, Migrate, LoadToggles, Serve, Stop, RunDoctor, Report, LookUp, Pair, Dial, Record, Crash, StoreLate,
       KeyringChanges, PeerRekeys, Toggle, Persist, LoadBoth, Truncate, WriteToggles, vars
  <2> QED
    BY <2>1 DEF KeyInv, Steady
<1>2. CASE Report
  <2>1. PICK s : verdict' = RunAll(SessionChecks(s) \cup FactChecks)
    BY <1>2 DEF Report
  <2>2. SessionChecks(s) \cup FactChecks \subseteq Status
    BY ChecksReport, FactsReport
  <2>3. verdict' # "error"
    BY DEF ExitCode
  <2>4. "error" \notin FactChecks
    BY <2>1, <2>2, <2>3, Worst
  <2>5. proc["doctor"].db # None /\ proc["daemon"].at = "serving"
    BY <2>4, FactsReport
  <2>6. proc["doctor"].db \in Keys /\ proc["doctor"].db = TheKey
    BY <1>1, <1>2, <2>5 DEF Report, OneKey, Answered, Typed, TypeOK, Process, Procs
  <2>7. key \in Pairs
    BY <2>5 DEF IdentityInv, Made, Typed, Placed, Identities, Procs
  <2> QED
    BY <1>1, <2>6, <2>7, WholeStays
<1>3. CASE ~Report
  <2>1. verdict' = verdict
    BY <1>3 DEF Next, Daemon, Doctor, Desktop, LoadKey, ReadKeyring, StoreInKeyring, KeyringFails, LoadKeyFile,
       CreateKeyFile, WriteKeyFile, MakeIdentity, LoadIdentity, CreateCert, WriteCert, CreateKeyPem, WriteKeyPem,
       Start, Migrate, LoadToggles, Serve, Stop, RunDoctor, LookUp, Pair, Dial, Record, Crash, StoreLate,
       KeyringChanges, PeerRekeys, Toggle, Persist, LoadBoth, Truncate, WriteToggles, vars
  <2> QED
    BY <1>1, <2>1, WholeStays DEF BillInv
<1> QED
  BY <1>2, <1>3

LEMMA BillAlways == ASSUME Inexhaustible PROVE Spec => []BillInv
BY TypedAlways, IdentityAlways, KeyAlways, BillInit, BillStep, PTL DEF Spec

(* When the doctor has found no error, the next start works as long as the *)
(* keyring answers as it did (environment.rs:185, network.rs:96), whatever *)
(* crashes in between.                                                     *)
THEOREM CleanBillIsKept == ASSUME Inexhaustible PROVE Spec => []CleanBillHolds
<1>1. ASSUME IdentityInv, KeyInv, BillInv PROVE CleanBillHolds
  <2> SUFFICES ASSUME verdict # "none", ExitCode(verdict) = 0, Steady PROVE ~Broken
    BY DEF CleanBillHolds, Steady
  <2>1. OneKey /\ key \in Pairs /\ TheKey \in Keys
    BY <1>1 DEF KeyInv, BillInv
  <2>2. cert = key /\ key # Torn /\ keyFile # Torn
    BY <1>1, <2>1, StartupAssumption DEF IdentityInv, Shown, OneKey, TheKey
  <2> QED
    BY <2>2 DEF Broken
<1> QED
  BY <1>1, IdentityAlways, KeyAlways, BillAlways, PTL

-----------------------------------------------------------------------------
(* The pinned certificate. *)

Dialing == {"tls", "dial", "record"} \cup Making
PinInv ==
  /\ proc["desktop"].at = "record" => dial.pin = None
  /\ proc["desktop"].at \in Dialing /\ dial.why = "asked" /\ dial.pin = None => pin = None

LEMMA PinInit == ASSUME Init PROVE PinInv
BY DEF Init, Down, PinInv, Dialing, Making, Procs

LEMMA PinStep == ASSUME Typed, PinInv, [Next]_vars PROVE PinInv'
<1>0. /\ proc \in [Procs -> Process] /\ "desktop" \in Procs
      /\ proc["desktop"].at \notin Loading
  BY DEF Typed, TypeOK, Procs, Placed, Places, Loading, Making
<1>1. ASSUME NEW p \in Procs \ {"desktop"}, NEW r, proc' = [proc EXCEPT ![p] = r], dial' = dial, pin = None => pin' = None
      PROVE  PinInv'
  BY <1>0, <1>1 DEF PinInv
<1>2. ASSUME proc["desktop"].at \in Dialing, dial' = dial, pin' = pin,
             proc'["desktop"].at = "record" => dial.pin = None
      PROVE  PinInv'
  BY <1>2 DEF PinInv
<1>3. ASSUME UNCHANGED <<proc, dial, pin>> PROVE PinInv'
  BY <1>3 DEF PinInv
<1>4. \A at : [proc["desktop"] EXCEPT !.at = at].at = at
  BY <1>0 DEF Process
<1>5. CASE UNCHANGED vars
  BY <1>3, <1>5 DEF vars, dialing
<1>6. CASE \E p \in Loaders : LoadKey(p)
  <2>1. PICK p \in Loaders : LoadKey(p)
    BY <1>6
  <2>2. p \in Procs \ {"desktop"} /\ \E r : proc' = [proc EXCEPT ![p] = r]
    BY <2>1 DEF LoadKey, ReadKeyring, StoreInKeyring, KeyringFails, LoadKeyFile, CreateKeyFile, WriteKeyFile,
       Got, NoKey, Go, Loaders, Procs
  <2>3. dial' = dial /\ pin' = pin
    BY <2>1 DEF LoadKey, ReadKeyring, StoreInKeyring, KeyringFails, LoadKeyFile, CreateKeyFile, WriteKeyFile, dialing
  <2> QED
    BY <1>1, <2>2, <2>3
<1>7. CASE MakeIdentity("daemon")
  <2>1. \E r : proc' = [proc EXCEPT !["daemon"] = r]
    BY <1>7 DEF MakeIdentity, LoadIdentity, CreateCert, WriteCert, CreateKeyPem, WriteKeyPem, Identified, NoIdentity, Go
  <2>2. dial' = dial /\ pin' = pin /\ "daemon" \in Procs \ {"desktop"}
    BY <1>7 DEF MakeIdentity, LoadIdentity, CreateCert, WriteCert, CreateKeyPem, WriteKeyPem, dialing, Procs
  <2> QED
    BY <1>1, <2>1, <2>2
<1>8. CASE MakeIdentity("desktop")
  <2>1. proc["desktop"].at \in Dialing /\ dial' = dial /\ pin' = pin
    BY <1>8 DEF MakeIdentity, LoadIdentity, CreateCert, WriteCert, CreateKeyPem, WriteKeyPem, dialing, Dialing, Making
  <2>2. ASSUME NEW at, at # "record", Go("desktop", at)
        PROVE  proc'["desktop"].at # "record"
    BY <1>0, <1>4, <2>2 DEF Go
  <2>3. ASSUME NEW at, NEW t, at # "record",
               proc' = [proc EXCEPT !["desktop"] = [@ EXCEPT !.at = at, !.tls = t]]
        PROVE  proc'["desktop"].at # "record"
    BY <1>0, <2>3 DEF Process
  <2>4. ASSUME NoIdentity("desktop")
        PROVE  proc'["desktop"].at # "record"
    BY <1>0, <2>4 DEF NoIdentity, Down
  <2>5. ASSUME LoadIdentity("desktop") PROVE proc'["desktop"].at # "record"
    BY <2>2, <2>3, <2>4, <2>5 DEF LoadIdentity, Identified
  <2>6. ASSUME CreateCert("desktop") PROVE proc'["desktop"].at # "record"
    BY <2>3, <2>4, <2>6 DEF CreateCert
  <2>7. ASSUME WriteCert("desktop") \/ CreateKeyPem("desktop") PROVE proc'["desktop"].at # "record"
    BY <2>2, <2>4, <2>7 DEF WriteCert, CreateKeyPem
  <2>8. ASSUME WriteKeyPem("desktop") PROVE proc'["desktop"].at # "record"
    BY <2>3, <2>8 DEF WriteKeyPem, Identified
  <2> QED
    BY <1>2, <1>8, <2>1, <2>5, <2>6, <2>7, <2>8 DEF MakeIdentity
<1>9. CASE Start \/ LoadToggles \/ Serve \/ Stop \/ RunDoctor \/ Report
  <2>1. \E p \in Procs \ {"desktop"} : \E r : proc' = [proc EXCEPT ![p] = r]
    BY <1>9 DEF Start, LoadToggles, Serve, Stop, RunDoctor, Report, Go, Procs
  <2>2. dial' = dial /\ pin' = pin
    BY <1>9 DEF Start, LoadToggles, Serve, Stop, RunDoctor, Report, dialing
  <2> QED
    BY <1>1, <2>1, <2>2
<1>10. CASE Migrate
  <2>1. \E r : proc' = [proc EXCEPT !["daemon"] = r]
    BY <1>10 DEF Migrate, Go
  <2>2. dial' = dial /\ (pin = None => pin' = None) /\ "daemon" \in Procs \ {"desktop"}
    BY <1>10 DEF Migrate, dialing, Procs
  <2> QED
    BY <1>1, <2>1, <2>2
<1>11. CASE LookUp
  <2>1. proc'["desktop"].at = "tls" /\ pin' = pin
    BY <1>0, <1>4, <1>11 DEF LookUp, Go
  <2>2. dial'.why = "asked" /\ dial'.pin = None => pin = None
    <3>1. pin # None => pin.cert \in PeerCerts /\ pin.cert # None
      BY StartupAssumption DEF Typed, TypeOK
    <3> QED
      BY <1>11, <3>1 DEF LookUp
  <2> QED
    BY <2>1, <2>2 DEF PinInv
<1>12. CASE Pair
  BY <1>0, <1>4, <1>12 DEF Pair, Go, PinInv
<1>13. CASE Dial
  <2>1. proc["desktop"].at \in Dialing /\ dial' = dial /\ pin' = pin
    BY <1>13 DEF Dial, dialing, Dialing
  <2>2. proc'["desktop"].at = "record" => dial.pin = None
    BY <1>0, <1>13 DEF Dial, Down
  <2> QED
    BY <1>2, <2>1, <2>2
<1>14. CASE Record \/ Crash("desktop")
  <2>1. proc'["desktop"].at = "down"
    BY <1>0, <1>14 DEF Record, Crash, Down
  <2> QED
    BY <2>1 DEF PinInv, Dialing, Making
<1>15. CASE \E p \in Procs \ {"desktop"} : Crash(p)
  BY <1>1, <1>15 DEF Crash, dialing
<1>16. CASE (\E t \in Toggles : Toggle(t) \/ Persist(t)) \/ StoreLate \/ KeyringChanges \/ PeerRekeys
  BY <1>3, <1>16 DEF Toggle, Persist, LoadBoth, Truncate, WriteToggles, StoreLate, KeyringChanges, PeerRekeys, dialing
<1> QED
  BY <1>5, <1>6, <1>7, <1>8, <1>9, <1>10, <1>11, <1>12, <1>13, <1>14, <1>15, <1>16
  DEF Next, Daemon, Doctor, Desktop, Loaders

LEMMA PinAlways == ASSUME Inexhaustible PROVE Spec => []PinInv
BY TypedAlways, PinInit, PinStep, PTL DEF Spec

(* A pinned certificate gives way to another only when the desktop could   *)
(* not ask for the pin (commands.rs:77) or the user pairs anew, whatever   *)
(* the daemon and the peer do between the look-up and the record.          *)
THEOREM PinsAreNotReplaced == ASSUME Inexhaustible PROVE Spec => PinnedCertStays
<1>1. ASSUME Typed, PinInv, [Next]_vars
      PROVE  [pin # None /\ pin' # None /\ pin'.cert # pin.cert => dial.why # "asked"]_vars
  <2> SUFFICES ASSUME Next, pin # None, pin' # None, pin'.cert # pin.cert PROVE dial.why # "asked"
    BY <1>1
  <2>1. CASE Record
    BY <1>1, <2>1 DEF Record, PinInv, Dialing
  <2>2. CASE Migrate
    <3>1. pin \in [by : Keys \cup {Plain}, cert : PeerCerts]
      BY <1>1 DEF Typed, TypeOK
    <3> QED
      BY <2>2, <3>1 DEF Migrate
  <2>3. CASE ~Record /\ ~Migrate
    <3>1. pin' = pin
      BY <2>3 DEF Next, Daemon, Doctor, Desktop, LoadKey, ReadKeyring, StoreInKeyring, KeyringFails, LoadKeyFile,
         CreateKeyFile, WriteKeyFile, MakeIdentity, LoadIdentity, CreateCert, WriteCert, CreateKeyPem, WriteKeyPem,
         Start, LoadToggles, Serve, Stop, RunDoctor, Report, LookUp, Pair, Dial, Crash, StoreLate,
         KeyringChanges, PeerRekeys, Toggle, Persist, LoadBoth, Truncate, WriteToggles
    <3> QED
      BY <3>1
  <2> QED
    BY <2>1, <2>2, <2>3
<1> QED
  BY <1>1, TypedAlways, PinAlways, PTL DEF Spec, PinnedCertStays
-----------------------------------------------------------------------------
(* The toggles.  The flags are what the user chose, and the file has, or   *)
(* the one handler that runs will write, every choice that is not excused. *)

Busy(t) == toggler[t].at # "idle"
ToggleInv ==
  /\ gates = want
  /\ \A t \in Toggles : Busy(t) => proc["daemon"].at = "serving" /\ Toggles \ caps \subseteq excused
  /\ excused # Toggles => \A t, u \in Toggles : Busy(t) /\ Busy(u) => t = u
  /\ (\A t \in Toggles : ~Busy(t)) => \A t \in Toggles \ excused : Decode(toggleFile)[t] = want[t]
  /\ \A t \in Toggles : toggler[t].at \in {"truncate", "write"}
       => \A u \in Toggles \ excused : toggler[t].pair[u] = want[u]

LEMMA ToggleInit == ASSUME Init PROVE ToggleInv
<1>1. toggleFile = None /\ None \notin Gates
  BY StartupAssumption DEF Init
<1>2. \A t \in Toggles : toggler[t].at = "idle"
  BY DEF Init, Idle
<1> QED
  BY <1>1, <1>2 DEF Init, ToggleInv, Busy, Decode

\* Nothing of the toggles changes, and a daemon that serves with a handler running serves on.
LEMMA ToggleQuiet ==
  ASSUME ToggleInv, UNCHANGED toggles,
         proc'["daemon"].at = proc["daemon"].at \/ proc["daemon"].at # "serving" \/ \A t \in Toggles : ~Busy(t)
  PROVE  ToggleInv'
BY DEF ToggleInv, Busy, Decode, toggles

\* No handler runs while the daemon does not serve.
LEMMA HandlersServe == ASSUME ToggleInv, proc["daemon"].at # "serving" PROVE \A t \in Toggles : ~Busy(t)
BY DEF ToggleInv

LEMMA LoadTogglesToggle == ASSUME Typed, ToggleInv, LoadToggles PROVE ToggleInv'
<1>1. \A t \in Toggles : ~Busy(t)
  BY HandlersServe DEF LoadToggles
<1>2. toggler' = toggler /\ toggleFile' = toggleFile /\ excused' = {} /\ gates' = Decode(toggleFile)
  BY DEF LoadToggles
<1>3. gates' \in [Toggles -> BOOLEAN]
  BY <1>2 DEF Decode, Gates
<1>4. \A t \in Toggles \ excused : want[t] = gates'[t]
  BY <1>1, <1>2 DEF ToggleInv
<1>5. want' = [t \in Toggles |-> gates'[t]]
  BY <1>4 DEF LoadToggles
<1>6. gates' = want'
  BY <1>3, <1>5
<1>7. \A t \in Toggles : Decode(toggleFile')[t] = want'[t]
  BY <1>2, <1>6
<1>8. \A t \in Toggles : toggler'[t].at = "idle"
  BY <1>1, <1>2 DEF Busy
<1> QED
  BY <1>6, <1>7, <1>8 DEF ToggleInv, Busy

LEMMA HandlerToggle ==
  ASSUME Typed, ToggleInv, NEW t \in Toggles, Toggle(t) \/ Persist(t)
  PROVE  ToggleInv'
<1> DEFINE Handler == [at : {"idle", "load", "truncate", "write"}, pair : Gates]
<1>0. /\ toggler \in [Toggles -> Handler] /\ gates \in Gates /\ want \in Gates
      /\ gates = want /\ excused \subseteq Toggles
  BY DEF Typed, TypeOK, ToggleInv
<1>1. proc' = proc /\ caps' = caps
  BY DEF Toggle, Persist, LoadBoth, Truncate, WriteToggles
<1>2. ASSUME NEW h, toggler' = [toggler EXCEPT ![t] = h]
      PROVE  toggler'[t] = h /\ \A u \in Toggles : u # t => toggler'[u] = toggler[u]
  BY <1>0, <1>2
<1>3. CASE Toggle(t)
  <2>1. /\ proc["daemon"].at = "serving" /\ t \in caps /\ toggler[t].at = "idle" /\ toggleFile' = toggleFile
        /\ excused' = IF \E u \in Toggles : Busy(u) THEN Toggles ELSE Toggles \ caps
    BY <1>3 DEF Toggle, Busy
  <2>2. toggler'[t].at = "load" /\ \A u \in Toggles : u # t => toggler'[u] = toggler[u]
    BY <1>0, <1>3 DEF Toggle
  <2>3. gates' = want'
    BY <1>0, <1>3 DEF Toggle
  <2>4. \A u \in Toggles : Busy(u)' => proc'["daemon"].at = "serving" /\ Toggles \ caps' \subseteq excused'
    BY <1>1, <2>1
  <2>5. excused' # Toggles => \A u \in Toggles : Busy(u)' => u = t
    BY <2>1, <2>2 DEF Busy
  <2>6. \A u \in Toggles : toggler'[u].at \in {"truncate", "write"} => excused' = Toggles
    BY <2>1, <2>2 DEF Busy
  <2>7. Busy(t)'
    BY <2>2 DEF Busy
  <2> QED
    BY <2>3, <2>4, <2>5, <2>6, <2>7 DEF ToggleInv
<1>4. CASE LoadBoth(t)
  <2> DEFINE both == [u \in Toggles |-> gates[u] \/ (u = "input" /\ u \notin caps)]
  <2>1. toggler[t].at = "load" /\ UNCHANGED <<gates, want, excused, toggleFile>>
    BY <1>4 DEF LoadBoth
  <2>2. /\ toggler'[t] = [at |-> "truncate", pair |-> both]
        /\ \A u \in Toggles : u # t => toggler'[u] = toggler[u]
    BY <1>2, <1>4 DEF LoadBoth
  <2>3. \A u \in Toggles : Busy(u)' <=> Busy(u)
    BY <2>1, <2>2 DEF Busy
  <2>4. Toggles \ caps \subseteq excused
    BY <2>1 DEF ToggleInv, Busy
  <2>5. \A u \in Toggles \ excused : both[u] = want[u]
    <3> TAKE u \in Toggles \ excused
    <3>1. u \in caps /\ gates[u] \in BOOLEAN /\ gates[u] = want[u]
      BY <1>0, <2>4 DEF Gates
    <3> QED
      BY <3>1
  <2>6. \A s \in Toggles : toggler'[s].at \in {"truncate", "write"}
          => \A u \in Toggles \ excused' : toggler'[s].pair[u] = want'[u]
    <3> HIDE DEF both
    <3> QED
      BY <2>1, <2>2, <2>5 DEF ToggleInv
  <2>7. Busy(t)'
    BY <2>2 DEF Busy
  <2> QED
    BY <1>0, <1>1, <2>1, <2>3, <2>6, <2>7 DEF ToggleInv
<1>5. CASE Truncate(t)
  <2>1. toggler[t].at = "truncate" /\ UNCHANGED <<gates, want, excused>>
    BY <1>5 DEF Truncate
  <2>2. /\ toggler'[t].at = "write" /\ toggler'[t].pair = toggler[t].pair
        /\ \A u \in Toggles : u # t => toggler'[u] = toggler[u]
    BY <1>0, <1>5 DEF Truncate
  <2>3. \A u \in Toggles : Busy(u)' <=> Busy(u)
    BY <2>1, <2>2 DEF Busy
  <2>4. \A s \in Toggles : toggler'[s].at \in {"truncate", "write"}
          => \A u \in Toggles \ excused' : toggler'[s].pair[u] = want'[u]
    BY <2>1, <2>2 DEF ToggleInv
  <2>5. Busy(t)'
    BY <2>2 DEF Busy
  <2> QED
    BY <1>0, <1>1, <2>1, <2>3, <2>4, <2>5 DEF ToggleInv
<1>6. CASE WriteToggles(t)
  <2>1. toggler[t].at = "write" /\ UNCHANGED <<gates, want, excused>> /\ toggleFile' = toggler[t].pair
    BY <1>6 DEF WriteToggles
  <2>2. toggler'[t].at = "idle" /\ \A u \in Toggles : u # t => toggler'[u] = toggler[u]
    BY <1>2, <1>6 DEF WriteToggles, Idle
  <2>3. \A u \in Toggles : Busy(u)' => Busy(u)
    BY <2>2 DEF Busy
  <2>4. Decode(toggleFile') = toggler[t].pair
    <3>1. toggler[t].pair \in Gates
      BY <1>0
    <3> QED
      BY <2>1, <3>1 DEF Decode
  <2>5. \A u \in Toggles \ excused : Decode(toggleFile')[u] = want[u]
    BY <2>1, <2>4 DEF ToggleInv
  <2>6. \A s \in Toggles : toggler'[s].at \in {"truncate", "write"}
          => \A u \in Toggles \ excused' : toggler'[s].pair[u] = want'[u]
    BY <2>1, <2>2 DEF ToggleInv
  <2> QED
    BY <1>0, <1>1, <2>1, <2>3, <2>5, <2>6 DEF ToggleInv
<1> QED
  BY <1>3, <1>4, <1>5, <1>6 DEF Persist

LEMMA CrashToggle ==
  ASSUME Typed, ToggleInv, NEW p \in Procs, Crash(p)
  PROVE  ToggleInv'
<1>0. proc \in [Procs -> Process] /\ "daemon" \in Procs /\ UNCHANGED <<toggleFile, caps, gates, want>>
  BY DEF Typed, TypeOK, Procs, Crash
<1>1. CASE p # "daemon"
  <2>1. proc'["daemon"] = proc["daemon"] /\ toggler' = toggler /\ excused' = excused
    BY <1>0, <1>1 DEF Crash
  <2> QED
    BY <1>0, <2>1, ToggleQuiet DEF toggles
<1>2. CASE p = "daemon"
  <2>1. \A t \in Toggles : toggler'[t].at = "idle"
    BY <1>2 DEF Crash, Idle
  <2>2. CASE \E t \in Toggles : Busy(t)
    <3>1. excused' = Toggles
      BY <1>2, <2>2 DEF Crash, Busy
    <3> QED
      BY <1>0, <2>1, <3>1 DEF ToggleInv, Busy
  <2>3. CASE \A t \in Toggles : ~Busy(t)
    <3>1. excused' = excused
      BY <1>2, <2>3 DEF Crash, Busy
    <3> QED
      BY <1>0, <2>1, <2>3, <3>1 DEF ToggleInv, Busy, Decode
  <2> QED
    BY <2>2, <2>3
<1> QED
  BY <1>1, <1>2

LEMMA ToggleStep == ASSUME Typed, ToggleInv, [Next]_vars PROVE ToggleInv'
<1>0. proc \in [Procs -> Process] /\ {"daemon", "doctor", "desktop"} = Procs
  BY DEF Typed, TypeOK, Procs
<1>1. ASSUME UNCHANGED toggles,
             \/ proc' = proc
             \/ proc["daemon"].at # "serving"
             \/ \A t \in Toggles : ~Busy(t)
             \/ \E p \in Procs \ {"daemon"} : \E r : proc' = [proc EXCEPT ![p] = r]
      PROVE  ToggleInv'
  BY <1>0, <1>1, ToggleQuiet
<1>2. CASE UNCHANGED vars
  BY <1>1, <1>2 DEF vars
<1>3. CASE \E p \in Loaders : LoadKey(p)
  <2>1. PICK p \in Loaders : LoadKey(p)
    BY <1>3
  <2>2. proc[p].at # "serving" /\ \E r : proc' = [proc EXCEPT ![p] = r]
    BY <2>1 DEF LoadKey, ReadKeyring, StoreInKeyring, KeyringFails, LoadKeyFile, CreateKeyFile, WriteKeyFile,
       Got, NoKey, Go
  <2>3. UNCHANGED toggles
    BY <2>1 DEF LoadKey, ReadKeyring, StoreInKeyring, KeyringFails, LoadKeyFile, CreateKeyFile, WriteKeyFile
  <2> QED
    BY <1>0, <1>1, <2>2, <2>3 DEF Loaders
<1>4. CASE \E p \in Makers : MakeIdentity(p)
  <2>1. PICK p \in Makers : MakeIdentity(p)
    BY <1>4
  <2>2. proc[p].at # "serving" /\ \E r : proc' = [proc EXCEPT ![p] = r]
    BY <2>1 DEF MakeIdentity, LoadIdentity, CreateCert, WriteCert, CreateKeyPem, WriteKeyPem, Identified, NoIdentity, Go
  <2>3. UNCHANGED toggles
    BY <2>1 DEF MakeIdentity, LoadIdentity, CreateCert, WriteCert, CreateKeyPem, WriteKeyPem
  <2> QED
    BY <1>0, <1>1, <2>2, <2>3 DEF Makers
<1>5. CASE Start \/ Migrate \/ Serve
  BY <1>1, <1>5 DEF Start, Migrate, Serve
<1>6. CASE Stop
  BY <1>1, <1>6 DEF Stop, Busy
<1>7. CASE RunDoctor \/ Report
  BY <1>0, <1>1, <1>7 DEF RunDoctor, Report, Go
<1>8. CASE LookUp \/ Pair \/ Dial \/ Record
  BY <1>0, <1>1, <1>8 DEF LookUp, Pair, Dial, Record, Go
<1>9. CASE StoreLate \/ KeyringChanges \/ PeerRekeys
  BY <1>1, <1>9 DEF StoreLate, KeyringChanges, PeerRekeys
<1>10. CASE LoadToggles
  BY <1>10, LoadTogglesToggle
<1>11. CASE \E t \in Toggles : Toggle(t) \/ Persist(t)
  BY <1>11, HandlerToggle
<1>12. CASE \E p \in Procs : Crash(p)
  BY <1>12, CrashToggle
<1> QED
  BY <1>2, <1>3, <1>4, <1>5, <1>6, <1>7, <1>8, <1>9, <1>10, <1>11, <1>12
  DEF Next, Daemon, Doctor, Desktop, Loaders, Makers

LEMMA ToggleAlways == ASSUME Inexhaustible PROVE Spec => []ToggleInv
BY TypedAlways, ToggleInit, ToggleStep, PTL DEF Spec

(* A start restores the choices the user made (service.rs:289,             *)
(* config.rs:140), whatever crashed or restarted since, unless handlers    *)
(* overlapped, the daemon died in one, or a backend was missing.           *)
THEOREM ChoicesSurvive == ASSUME Inexhaustible PROVE Spec => TogglesRemembered
<1>1. ASSUME ToggleInv
      PROVE  [LoadToggles => \A t \in Toggles \ excused : gates'[t] = want[t]]_vars
  <2> SUFFICES ASSUME LoadToggles, NEW t \in Toggles \ excused PROVE gates'[t] = want[t]
    OBVIOUS
  <2>1. \A u \in Toggles : ~Busy(u)
    BY <1>1, HandlersServe DEF LoadToggles
  <2>2. gates' = Decode(toggleFile)
    BY DEF LoadToggles
  <2> QED
    BY <1>1, <2>1, <2>2 DEF ToggleInv
<1> QED
  BY <1>1, ToggleAlways, PTL DEF TogglesRemembered
=============================================================================
