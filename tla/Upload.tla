------------------------------- MODULE Upload -------------------------------
(***************************************************************************)
(* Receiving files: PrepareUpload mints a ticket and offers to resume from *)
(* the partial on disk, UploadFile streams the rest into it and moves the  *)
(* verified file into the download directory (daemon/src/transfer/,        *)
(* grpc/service.rs).  One call is one send attempt, client side and        *)
(* handler; a retry is another call of the same file.  Every await of the  *)
(* handler ends a step, a connection may drop in any of them and the       *)
(* daemon may restart.                                                     *)
(*                                                                         *)
(* A file is N blocks, of which only the position and "is it the block     *)
(* that was hashed" matter: TRUE, or FALSE for the zeros of a sparse file  *)
(* and for what the sender read after the file changed under it.           *)
(***************************************************************************)
EXTENDS Integers, Sequences, FiniteSets

CONSTANTS
  Calls, Files, Names,
  FileOf,       \* [Calls -> Files]
  NameOf,       \* [Files -> Names]: file_name
  N,            \* blocks of a file
  Slots,        \* 0 .. n, the suffixes unique_destination tries
  MaxTickets,   \* MAX_TICKETS
  Hashed,       \* whether senders declare a hash
  Exclusive,    \* assumption on clients: a file is resent only after its last call ended
  RenameMayFail, \* whether a rename can fail (another filesystem, or any other reason)
  MaxGrowth,    \* blocks a sender reads past N, when the file grows under it
  FaultBudgets  \* bounds of the model: how many connections drop, streams end early or
                \* moves fail; blocks are read after the file changed; daemons restart

ASSUME UploadAssumption ==
  /\ Calls \subseteq Nat /\ FileOf \in [Calls -> Files] /\ NameOf \in [Files -> Names]
  /\ N \in Nat \ {0} /\ MaxTickets \in Nat /\ Slots \subseteq Nat
  /\ <<Hashed, Exclusive, RenameMayFail>> \in BOOLEAN \X BOOLEAN \X BOOLEAN
  /\ MaxGrowth \in Nat /\ FaultBudgets \subseteq [drops : Nat, changes : Nat, restarts : Nat]

VARIABLES
  call,      \* [Calls -> the state of a send attempt]
  tickets,   \* UploadRegistry.tickets: the calls whose token is live
  content,   \* [inodes -> blocks]; a call creates at most a partial and a copy
  part,      \* [Files -> the inode file_id.part names, at most one]
  downloads, \* [Names \X Slots -> the inode under that name, at most one]
  faults     \* what the environment may still do

vars == <<call, tickets, content, part, downloads, faults>>

Inode == Calls \X {"part", "copy"}

Step == {"new", "prepared", "resolved", "opened", "sized", "receiving", "verified", "named",
         "copying", "completed", "incomplete", "mismatch", "declined", "failed"}
Running == {"prepared", "resolved", "opened", "sized", "receiving", "verified", "named", "copying"}

Call == [pc : Step,
         offset : Nat,             \* resume_offset_bytes
         fd : SUBSET Inode,        \* the open file, or the source of the copy
         pos : Nat,                \* bytes_written
         digest : Seq(BOOLEAN),    \* the blocks the hasher has seen
         slot : SUBSET Slots]      \* the suffix unique_destination chose

\* Every call, file and directory entry is well typed; a path names at most one file.
TypeOK ==
  /\ call \in [Calls -> Call]
  /\ tickets \subseteq Calls
  /\ content \in [Inode -> Seq(BOOLEAN)]
  /\ part \in [Files -> SUBSET Inode] /\ \A f \in Files : Cardinality(part[f]) <= 1
  /\ downloads \in [Names \X Slots -> SUBSET Inode]
  /\ \A e \in Names \X Slots : Cardinality(downloads[e]) <= 1
  /\ \A c \in Calls : Cardinality(call[c].fd) <= 1 /\ Cardinality(call[c].slot) <= 1

Init ==
  /\ call = [c \in Calls |-> [pc |-> "new", offset |-> 0, fd |-> {}, pos |-> 0,
                              digest |-> <<>>, slot |-> {}]]
  /\ tickets = {}
  /\ content = [i \in Inode |-> <<>>]
  /\ part = [f \in Files |-> {}]
  /\ downloads = [e \in Names \X Slots |-> {}]
  /\ faults \in FaultBudgets

-----------------------------------------------------------------------------
(* Files. *)

Good == [i \in 1 .. N |-> TRUE]

SetLen(q, n) == [i \in 1 .. n |-> IF i <= Len(q) THEN q[i] ELSE FALSE]

\* Writing past the end leaves a hole of zeros.
WriteAt(q, n, b) == [SetLen(q, IF n > Len(q) THEN n ELSE Len(q)) EXCEPT ![n] = b]

PartLen(f) == IF part[f] = {} THEN 0 ELSE Len(content[CHOOSE i \in part[f] : TRUE])

Fault(kind) == faults[kind] > 0 /\ faults' = [faults EXCEPT ![kind] = @ - 1]

-----------------------------------------------------------------------------
(* PrepareUpload. *)

\* A ticket outlives the stream, so that the upload can be resumed; finish spends it.
Live(c) == c \in tickets
Spend(c) == tickets' = tickets \ {c}

\* Attempts at a file are numbered in the order they start.
MayStart(c) ==
  \A d \in Calls : FileOf[d] = FileOf[c] =>
    /\ d < c => call[d].pc # "new"
    /\ Exclusive => call[d].pc \notin Running

PrepareFromZeroMut(c) ==
  /\ call[c].pc = "new" /\ MayStart(c) /\ Cardinality(tickets) < MaxTickets
  /\ tickets' = tickets \cup {c}
  /\ call' = [call EXCEPT ![c].pc = "prepared"]
  /\ UNCHANGED <<content, part, downloads, faults>>
\* UploadRegistry::accept: the offer is the length of the partial.
Prepare(c) ==
  /\ call[c].pc = "new" /\ MayStart(c) /\ Cardinality(tickets) < MaxTickets
  /\ tickets' = tickets \cup {c}
  /\ call' = [call EXCEPT ![c].pc = "prepared", ![c].offset = PartLen(FileOf[c])]
  /\ UNCHANGED <<content, part, downloads, faults>>

\* The call is refused: the device is not paired (any more), calls too often, or its
\* batch or its file's size is out of range. No ticket is made.
Refuse(c) ==
  /\ call[c].pc = "new" /\ MayStart(c) /\ Fault("drops")
  /\ call' = [call EXCEPT ![c].pc = "failed"]
  /\ UNCHANGED <<tickets, content, part, downloads>>

\* A full registry declines the file.
Decline(c) ==
  /\ call[c].pc = "new" /\ MayStart(c) /\ Cardinality(tickets) >= MaxTickets
  /\ call' = [call EXCEPT ![c].pc = "declined"]
  /\ UNCHANGED <<tickets, content, part, downloads, faults>>

-----------------------------------------------------------------------------
(* UploadFile: the header, then UploadWriter::open in its three awaits. *)

Resolve(c) ==
  /\ call[c].pc = "prepared"
  /\ call' = [call EXCEPT ![c].pc = IF Live(c) THEN "resolved" ELSE "failed"]
  /\ UNCHANGED <<tickets, content, part, downloads, faults>>

OpenPartNewMut(c) ==
  /\ call[c].pc = "resolved"
  /\ part' = [part EXCEPT ![FileOf[c]] = @ \cup {<<c, "part">>}]
  /\ call' = [call EXCEPT ![c].pc = "opened", ![c].fd = {<<c, "part">>}]
  /\ UNCHANGED <<tickets, content, downloads, faults>>
OpenPart(c) ==
  /\ call[c].pc = "resolved"
  /\ LET f == FileOf[c]
         i == IF part[f] = {} THEN {<<c, "part">>} ELSE part[f]
     IN  /\ part' = [part EXCEPT ![f] = i]
         /\ call' = [call EXCEPT ![c].pc = "opened", ![c].fd = i]
  /\ UNCHANGED <<tickets, content, downloads, faults>>

Truncate(c) ==
  /\ call[c].pc = "opened"
  /\ content' = [i \in Inode |-> IF i \in call[c].fd THEN SetLen(content[i], call[c].offset)
                                 ELSE content[i]]
  /\ call' = [call EXCEPT ![c].pc = "sized"]
  /\ UNCHANGED <<tickets, part, downloads, faults>>

SeedTrustedMut(c) ==
  /\ call[c].pc = "sized"
  /\ call' = [call EXCEPT ![c].pc = "receiving", ![c].pos = call[c].offset,
                          ![c].digest = [n \in 1 .. call[c].offset |-> TRUE]]
  /\ UNCHANGED <<tickets, content, part, downloads, faults>>
\* The hash is seeded with the prefix on disk.
Seed(c) ==
  /\ call[c].pc = "sized"
  /\ \E i \in call[c].fd :
       LET have == IF Len(content[i]) < call[c].offset THEN Len(content[i]) ELSE call[c].offset
       IN  call' = [call EXCEPT ![c].pc = "receiving", ![c].pos = call[c].offset,
                                ![c].digest = SubSeq(content[i], 1, have)]
  /\ UNCHANGED <<tickets, content, part, downloads, faults>>

\* UploadWriter::write, at the handle's own position.
Receive(c) ==
  /\ call[c].pc = "receiving" /\ call[c].pos < N + MaxGrowth
  /\ \E good \in BOOLEAN :
       LET next == call[c].pos + 1 IN
       /\ IF good THEN next <= N /\ UNCHANGED faults ELSE Fault("changes")
       /\ content' = [i \in Inode |-> IF i \in call[c].fd THEN WriteAt(content[i], next, good)
                                      ELSE content[i]]
       /\ call' = [call EXCEPT ![c].pos = next, ![c].digest = Append(call[c].digest, good)]
  /\ UNCHANGED <<tickets, part, downloads>>

-----------------------------------------------------------------------------
(* UploadWriter::finish. *)

VerifiedByLengthMut(c) == call[c].pos >= N
Verified(c) == ~Hashed \/ call[c].digest = Good

\* The sender cancels: the stream ends early and the partial is kept.
EndEarly(c) ==
  /\ call[c].pc = "receiving" /\ call[c].pos < N /\ Fault("drops")
  /\ call' = [call EXCEPT ![c].pc = "incomplete"]
  /\ UNCHANGED <<tickets, content, part, downloads>>

EndVerified(c) ==
  /\ call[c].pc = "receiving" /\ call[c].pos >= N /\ Verified(c)
  /\ call' = [call EXCEPT ![c].pc = "verified"]
  /\ UNCHANGED <<tickets, content, part, downloads, faults>>

EndMismatchKeepMut(c) ==
  /\ call[c].pc = "receiving" /\ call[c].pos >= N /\ ~Verified(c)
  /\ call' = [call EXCEPT ![c].pc = "mismatch"]
  /\ Spend(c)
  /\ UNCHANGED <<content, part, downloads, faults>>
\* The partial is removed by path, whatever file that is by now.
EndMismatch(c) ==
  /\ call[c].pc = "receiving" /\ call[c].pos >= N /\ ~Verified(c)
  /\ part' = [part EXCEPT ![FileOf[c]] = {}]
  /\ call' = [call EXCEPT ![c].pc = "mismatch"]
  /\ Spend(c)
  /\ UNCHANGED <<content, downloads, faults>>

FreeSlots(c) == {n \in Slots : downloads[<<NameOf[FileOf[c]], n>>] = {}}

ChooseFirstNameMut(c) ==
  /\ call[c].pc = "verified"
  /\ call' = [call EXCEPT ![c].pc = "named", ![c].slot = {0}]
  /\ UNCHANGED <<tickets, content, part, downloads, faults>>
\* unique_destination
ChooseName(c) ==
  /\ call[c].pc = "verified"
  /\ \E n \in FreeSlots(c) :
       /\ \A m \in FreeSlots(c) : n <= m
       /\ call' = [call EXCEPT ![c].pc = "named", ![c].slot = {n}]
  /\ UNCHANGED <<tickets, content, part, downloads, faults>>

Place(c, i) ==
  downloads' = [e \in Names \X Slots |->
                  IF e[1] = NameOf[FileOf[c]] /\ e[2] \in call[c].slot THEN {i} ELSE downloads[e]]

\* move_into_place, by a rename; the name is not tested again.
Rename(c) ==
  /\ call[c].pc = "named"
  /\ \E i \in part[FileOf[c]] : Place(c, i)
  /\ part' = [part EXCEPT ![FileOf[c]] = {}]
  /\ call' = [call EXCEPT ![c].pc = "completed"]
  /\ Spend(c)
  /\ UNCHANGED <<content, faults>>

\* A failed rename falls back to a copy, which has created its file and is not done;
\* then it is, and the partial goes.
StartCopy(c) ==
  /\ call[c].pc = "named" /\ RenameMayFail
  /\ part[FileOf[c]] # {}
  /\ Place(c, <<c, "copy">>)
  /\ call' = [call EXCEPT ![c].pc = "copying", ![c].fd = part[FileOf[c]]]
  /\ UNCHANGED <<tickets, content, part, faults>>

FinishCopy(c) ==
  /\ call[c].pc = "copying"
  /\ \E i \in call[c].fd : content' = [content EXCEPT ![<<c, "copy">>] = content[i]]
  /\ part' = [part EXCEPT ![FileOf[c]] = {}]
  /\ call' = [call EXCEPT ![c].pc = "completed"]
  /\ Spend(c)
  /\ UNCHANGED <<downloads, faults>>

\* The partial was moved or removed by another call, or rename and copy both fail (a full
\* disk): ticket, partial and whatever was copied stay.
MoveFails(c) ==
  /\ \/ call[c].pc = "named" /\ part[FileOf[c]] = {} /\ UNCHANGED faults
     \/ call[c].pc = "named" /\ RenameMayFail /\ Fault("drops")
     \/ call[c].pc = "copying" /\ Fault("drops")
  /\ call' = [call EXCEPT ![c].pc = "failed"]
  /\ UNCHANGED <<tickets, content, part, downloads>>

-----------------------------------------------------------------------------
(* The environment. *)

\* The connection drops: the handler returns at its next await; ticket and partial stay.
Drop(c) ==
  /\ call[c].pc \in Running /\ Fault("drops")
  /\ call' = [call EXCEPT ![c].pc = "failed"]
  /\ UNCHANGED <<tickets, content, part, downloads>>

\* The registry is in memory; the partials are not.
Restart ==
  /\ Fault("restarts")
  /\ call' = [c \in Calls |-> IF call[c].pc \in Running \ {"prepared"}
                              THEN [call[c] EXCEPT !.pc = "failed"] ELSE call[c]]
  /\ tickets' = {}
  /\ UNCHANGED <<content, part, downloads>>

Handler(c) ==
  \/ Resolve(c) \/ OpenPart(c) \/ Truncate(c) \/ Seed(c)
  \/ Receive(c) \/ EndVerified(c) \/ EndMismatch(c)
  \/ ChooseName(c) \/ Rename(c) \/ StartCopy(c) \/ FinishCopy(c) \/ MoveFails(c)

Next ==
  \/ \E c \in Calls : Prepare(c) \/ Refuse(c) \/ Decline(c) \/ Handler(c) \/ EndEarly(c) \/ Drop(c)
  \/ Restart

Spec == Init /\ [][Next]_vars

\* Handlers run, and the user keeps retrying.
FairSpec == Spec /\ \A c \in Calls : WF_vars(Prepare(c) \/ Decline(c)) /\ WF_vars(Handler(c))

-----------------------------------------------------------------------------
(* Properties. *)

\* "completed + verified": a file reported completed holds what the sender hashed, for as
\* long as it is under its name, whatever dropped, resumed or restarted on the way.
CompletedIsIntact ==
  \A c \in Calls : call[c].pc = "completed" =>
    \A n \in call[c].slot : \A i \in downloads[<<NameOf[FileOf[c]], n>>] : content[i] = Good

\* "Picks a collision-safe destination filename": no completed file replaces another.
CompletedIsKept ==
  \A c, d \in Calls :
    (c # d /\ call[c].pc = "completed" /\ call[d].pc = "completed"
       /\ NameOf[FileOf[c]] = NameOf[FileOf[d]]) => call[c].slot # call[d].slot

\* "can reject an over-long upload": a completed file has the size that was declared.
CompletedHasDeclaredSize ==
  \A c \in Calls : call[c].pc = "completed" => call[c].pos = N

\* Bytes received are kept for the resume: a partial only grows until it is moved away,
\* or removed after a mismatch.
PartialOnlyGrows ==
  [][\A f \in Files : \A i \in part[f] :
       i \in part'[f] => Len(content'[i]) >= Len(content[i])]_vars

\* Complete files appear in the download directory whole, under a free name, and stay: no
\* other call's rename, copy or failure takes one away.
DownloadsSpec ==
  INSTANCE Downloads WITH
    Copies <- Inode,
    shelf <- [e \in Names \X Slots |-> {i \in downloads[e] : content[i] = Good}]
ImplementsDownloads == DownloadsSpec!Spec

\* Neither dropped connections, nor a corrupted partial, nor a restart keeps a file out
\* for good: with more attempts than faults it arrives, or the user is told that the
\* registry is full of abandoned tickets.
EveryFileArrives ==
  \A f \in Files :
    <>(\E c \in Calls : FileOf[c] = f /\ call[c].pc \in {"completed", "declined"})
=============================================================================
