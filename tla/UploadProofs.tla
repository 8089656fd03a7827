---------------------------- MODULE UploadProofs ----------------------------
(***************************************************************************)
(* Theorems about what a phone sends: Upload, for any calls, files and     *)
(* names, any number of blocks and of suffixes, and any budget of faults;  *)
(* and Mirror, for any ids, and any bound on what the phone remembers.     *)
(***************************************************************************)
EXTENDS Upload, Mirror, SequenceTheorems, FiniteSetTheorems, TLAPS

-----------------------------------------------------------------------------
(* Blocks on disk. *)

\* The constants that a proof can count on.
LEMMA Constants ==
  /\ FileOf \in [Calls -> Files] /\ NameOf \in [Files -> Names]
  /\ N \in Nat \ {0}
BY UploadAssumption

\* A function on 1 .. n is a sequence of n elements.
LEMMA FunctionIsSeq ==
  ASSUME NEW n \in Nat, NEW q \in [1 .. n -> BOOLEAN]
  PROVE  q \in Seq(BOOLEAN) /\ Len(q) = n
<1>1. q \in Seq(BOOLEAN)
  BY SeqDef
<1>2. DOMAIN q = 1 .. n /\ DOMAIN q = 1 .. Len(q) /\ Len(q) \in Nat
  BY <1>1, LenProperties
<1> QED
  BY <1>1, <1>2

\* The hashed file is N blocks.
LEMMA GoodIsSeq == Good \in Seq(BOOLEAN) /\ Len(Good) = N
BY Constants, FunctionIsSeq DEF Good

\* Cutting or extending a file gives blocks again.
LEMMA SetLenType ==
  ASSUME NEW q, NEW k \in Nat, q \in [1 .. k -> BOOLEAN], k = Len(q), NEW n \in Nat
  PROVE  SetLen(q, n) \in [1 .. n -> BOOLEAN]
<1>1. \A i \in 1 .. n : i <= k => i \in 1 .. k
  OBVIOUS
<1>2. \A i \in 1 .. n : (IF i <= k THEN q[i] ELSE FALSE) \in BOOLEAN
  <2> TAKE i \in 1 .. n
  <2>1. CASE i <= k
    <3>1. q[i] \in BOOLEAN
      BY <1>1, <2>1
    <3> QED
      BY <2>1, <3>1, Zenon
  <2>2. CASE ~(i <= k)
    BY <2>2, Zenon
  <2> QED
    BY <2>1, <2>2
<1> QED
  BY <1>2, Zenon DEF SetLen

\* set_len gives the file that length, and changes nothing when it has it already.
LEMMA SetLenProperties ==
  ASSUME NEW q \in Seq(BOOLEAN), NEW n \in Nat
  PROVE  /\ SetLen(q, n) \in Seq(BOOLEAN) /\ Len(SetLen(q, n)) = n
         /\ n = Len(q) => SetLen(q, n) = q
<1>1. q \in [1 .. Len(q) -> BOOLEAN] /\ Len(q) \in Nat
  BY LenProperties
<1>2. SetLen(q, n) \in [1 .. n -> BOOLEAN]
  BY <1>1, SetLenType
<1>3. n = Len(q) => SetLen(q, n) = q
  BY <1>1 DEF SetLen
<1> QED
  BY <1>2, <1>3, FunctionIsSeq

\* Writing right after the last block appends.
LEMMA WriteAtEnd ==
  ASSUME NEW S, FALSE \in S, NEW q \in Seq(S), NEW b \in S
  PROVE  WriteAt(q, Len(q) + 1, b) = Append(q, b)
<1> DEFINE n == Len(q) + 1
<1>1. Len(q) \in Nat /\ q \in [1 .. Len(q) -> S]
  BY LenProperties
<1>2. /\ Append(q, b) \in Seq(S) /\ Len(Append(q, b)) = n
      /\ \A i \in 1 .. Len(q) : Append(q, b)[i] = q[i]
      /\ Append(q, b)[n] = b
  BY <1>1, AppendProperties
<1>3. Append(q, b) \in [1 .. n -> S]
  BY <1>2, LenProperties
<1>4. SetLen(q, n) = [i \in 1 .. n |-> IF i <= Len(q) THEN q[i] ELSE FALSE]
  BY DEF SetLen
<1>5. WriteAt(q, n, b) = [SetLen(q, n) EXCEPT ![n] = b]
  BY <1>1 DEF WriteAt
<1>6. \A i \in 1 .. n : WriteAt(q, n, b)[i] = Append(q, b)[i]
  <2> TAKE i \in 1 .. n
  <2>1. CASE i = n
    BY <1>1, <1>2, <1>4, <1>5, <2>1
  <2>2. CASE i # n
    <3>1. i \in 1 .. Len(q) /\ i <= Len(q)
      BY <1>1, <2>2
    <3>2. WriteAt(q, n, b)[i] = q[i]
      BY <1>4, <1>5, <2>2, <3>1
    <3> QED
      BY <1>2, <3>1, <3>2
  <2> QED
    BY <2>1, <2>2
<1>7. DOMAIN WriteAt(q, n, b) = 1 .. n
  BY <1>4, <1>5
<1>8. WriteAt(q, n, b) = [i \in 1 .. n |-> WriteAt(q, n, b)[i]]
  BY <1>4, <1>5
<1> QED
  BY <1>3, <1>6, <1>8

\* A write never shortens the file.
LEMMA WriteAtProperties ==
  ASSUME NEW q \in Seq(BOOLEAN), NEW n \in Nat \ {0}, NEW b \in BOOLEAN
  PROVE  /\ WriteAt(q, n, b) \in Seq(BOOLEAN)
         /\ Len(WriteAt(q, n, b)) >= Len(q)
<1>1. q \in [1 .. Len(q) -> BOOLEAN] /\ Len(q) \in Nat
  BY LenProperties
<1> DEFINE m == IF n > Len(q) THEN n ELSE Len(q)
<1>2. m \in Nat /\ n \in 1 .. m /\ m >= Len(q)
  BY <1>1
<1>3. SetLen(q, m) \in [1 .. m -> BOOLEAN]
  BY <1>1, <1>2, SetLenType
<1>4. WriteAt(q, n, b) \in [1 .. m -> BOOLEAN]
  BY <1>2, <1>3 DEF WriteAt
<1> QED
  BY <1>2, <1>4, FunctionIsSeq

\* A set with at most one element has cardinality at most one.
LEMMA SmallSet ==
  ASSUME NEW S, \A x, y \in S : x = y
  PROVE  Cardinality(S) <= 1
<1>1. CASE S = {}
  BY <1>1, FS_EmptySet
<1>2. CASE S # {}
  <2>1. PICK x \in S : S = {x}
    BY <1>2
  <2>2. Cardinality({x}) = 1
    BY FS_Singleton
  <2> QED
    BY <2>1, <2>2
<1> QED
  BY <1>1, <1>2

-----------------------------------------------------------------------------
(* The invariants. *)

AtMostOne(S) == \A x, y \in S : x = y

\* TypeOK, with "at most one" in the form the steps use, and the faults.
Typed ==
  /\ call \in [Calls -> Call]
  /\ tickets \subseteq Calls
  /\ content \in [Inode -> Seq(BOOLEAN)]
  /\ part \in [Files -> SUBSET Inode] /\ \A f \in Files : AtMostOne(part[f])
  /\ downloads \in [Names \X Slots -> SUBSET Inode]
  /\ \A e \in Names \X Slots : AtMostOne(downloads[e])
  /\ \A c \in Calls : AtMostOne(call[c].fd) /\ AtMostOne(call[c].slot)
  /\ faults \in [drops : Nat, changes : Nat, restarts : Nat]

Path(c) == part[FileOf[c]]      \* the partial of the file that c sends
Partial(c) == <<c, "part">>     \* the partial that c would create
Copy(c) == <<c, "copy">>        \* the copy that c would create

\* One call of a file runs at a time.
Alone ==
  \A c, d \in Calls :
    FileOf[c] = FileOf[d] /\ call[c].pc \in Running /\ call[d].pc \in Running => c = d

\* A partial is in its file's place and nowhere else; it is new until its call opens it.
Partials ==
  /\ \A f \in Files : \A i \in part[f] :
       /\ i[2] = "part" /\ FileOf[i[1]] = f
       /\ \A e \in Names \X Slots : i \notin downloads[e]
  /\ \A c \in Calls : call[c].pc \in {"new", "prepared", "resolved"} =>
       /\ content[Partial(c)] = <<>> /\ \A f \in Files : Partial(c) \notin part[f]
       /\ \A e \in Names \X Slots : Partial(c) \notin downloads[e]

\* What a running call has in hand is what is on disk: the offer is the partial's length,
\* the open file is the file's partial, the digest is of all its blocks.
InHand(c) ==
  /\ call[c].pc \in {"new", "prepared", "resolved"} => call[c].fd = {}
  /\ call[c].pc \in {"prepared", "resolved"} => call[c].offset = PartLen(FileOf[c])
  /\ call[c].pc \in Running \ {"prepared", "resolved"} =>
       call[c].fd = Path(c) /\ Path(c) # {}
  /\ call[c].pc \in {"opened", "sized"} => \A i \in Path(c) : Len(content[i]) = call[c].offset
  /\ call[c].pc = "receiving" =>
       \A i \in Path(c) : content[i] = call[c].digest /\ Len(content[i]) = call[c].pos

\* The inductive invariant behind PartialOnlyGrows.
PartialInv == Alone /\ Partials /\ \A c \in Calls : InHand(c)

\* What the digest vouched for is what is moved, and it had the declared size.
Vouched(c) ==
  /\ call[c].pc \in {"verified", "named", "copying"} => \A i \in Path(c) : content[i] = Good
  /\ call[c].pc \in {"verified", "named", "copying", "completed"} => call[c].pos = N

\* Two files never ask for one name. Files of one name, received together, do share a slot.
NamesApart == \A f, g \in Files : NameOf[f] = NameOf[g] => f = g

Entry(c, n) == downloads[<<NameOf[FileOf[c]], n>>]

\* The slot of a call is free until the file is placed, holds the unfinished copy until
\* that is done, and a whole file from then on.
Placed(c) ==
  /\ call[c].pc \in {"named", "copying", "completed"} => call[c].slot # {}
  /\ \A n \in call[c].slot :
       /\ call[c].pc = "named" => Entry(c, n) = {}
       /\ call[c].pc = "copying" => Entry(c, n) = {Copy(c)}
       /\ call[c].pc = "completed" => Entry(c, n) # {} /\ \A i \in Entry(c, n) : content[i] = Good

\* A copy is only in its call's slot, and empty until it is complete.
Copies ==
  \A c \in Calls :
    /\ call[c].pc # "completed" => content[Copy(c)] = <<>>
    /\ \A e \in Names \X Slots : Copy(c) \in downloads[e] =>
         /\ call[c].pc \in {"copying", "completed", "failed"}
         /\ e[1] = NameOf[FileOf[c]] /\ e[2] \in call[c].slot

\* The inductive invariant behind CompletedIsIntact and the refinement of Downloads.
PlaceInv ==
  /\ \A c \in Calls : Vouched(c)
  /\ NamesApart => Copies /\ \A c \in Calls : Placed(c)
  /\ ~RenameMayFail =>
       /\ \A c \in Calls : call[c].pc # "copying"
       /\ \A e \in Names \X Slots : \A i \in downloads[e] : content[i] = Good

-----------------------------------------------------------------------------
(* Type correctness. *)

\* A step of a call, whatever the handler is at.
CallStep(c) == Prepare(c) \/ Refuse(c) \/ Decline(c) \/ Handler(c) \/ EndEarly(c) \/ Drop(c)

\* Only the call that moves changes.
LEMMA MoveType ==
  ASSUME Typed, NEW c \in Calls, NEW r \in Call, AtMostOne(r.fd), AtMostOne(r.slot),
         call' = [call EXCEPT ![c] = r]
  PROVE  /\ call' \in [Calls -> Call]
         /\ \A d \in Calls : AtMostOne(call'[d].fd) /\ AtMostOne(call'[d].slot)
BY DEF Typed

\* Spending a fault leaves the budget natural.
LEMMA FaultType ==
  ASSUME Typed, NEW kind \in {"drops", "changes", "restarts"}, Fault(kind)
  PROVE  faults' \in [drops : Nat, changes : Nat, restarts : Nat]
BY DEF Typed, Fault

\* A step that only moves the call on, and may spend a fault, keeps the types.
LEMMA GotoType ==
  ASSUME Typed, NEW c \in Calls, NEW pc \in Step, call' = [call EXCEPT ![c].pc = pc]
  PROVE  /\ call' \in [Calls -> Call]
         /\ \A d \in Calls : AtMostOne(call'[d].fd) /\ AtMostOne(call'[d].slot)
<1>1. call[c] \in Call /\ AtMostOne(call[c].fd) /\ AtMostOne(call[c].slot)
  BY DEF Typed
<1> DEFINE r == [call[c] EXCEPT !.pc = pc]
<1>2. r \in Call /\ r.fd = call[c].fd /\ r.slot = call[c].slot
  BY <1>1 DEF Call
<1>3. call' = [call EXCEPT ![c] = r]
  OBVIOUS
<1> QED
  BY <1>1, <1>2, <1>3, MoveType

\* The length of the partial is a number of blocks.
LEMMA PartLenType ==
  ASSUME Typed, NEW f \in Files
  PROVE  /\ PartLen(f) \in Nat
         /\ \A i \in part[f] : PartLen(f) = Len(content[i])
<1>1. CASE part[f] = {}
  BY <1>1 DEF PartLen
<1>2. CASE part[f] # {}
  <2>1. PICK i \in part[f] : part[f] = {i}
    BY <1>2 DEF Typed, AtMostOne
  <2>2. (CHOOSE j \in part[f] : TRUE) = i
    BY <2>1
  <2>3. content[i] \in Seq(BOOLEAN)
    BY <2>1 DEF Typed
  <2>4. Len(content[i]) \in Nat
    BY <2>3, LenProperties
  <2> QED
    BY <1>2, <2>1, <2>2, <2>4 DEF PartLen
<1> QED
  BY <1>1, <1>2

\* A directory entry that is placed holds one file.
LEMMA PlaceType ==
  ASSUME Typed, NEW c \in Calls, NEW i \in Inode, Place(c, i)
  PROVE  /\ downloads' \in [Names \X Slots -> SUBSET Inode]
         /\ \A e \in Names \X Slots : AtMostOne(downloads'[e])
BY DEF Typed, Place, AtMostOne

\* The file a partial is removed from, or that a call opens, has at most one.
LEMMA PartType ==
  ASSUME Typed, NEW f \in Files, NEW S \in SUBSET Inode, AtMostOne(S),
         part' = [part EXCEPT ![f] = S]
  PROVE  part' \in [Files -> SUBSET Inode] /\ \A g \in Files : AtMostOne(part'[g])
BY DEF Typed
\* Every step of a call keeps the types.
LEMMA CallStepType ==
  ASSUME Typed, NEW c \in Calls, CallStep(c)
  PROVE  Typed'
<1> USE Constants
<1>1. call[c] \in Call /\ AtMostOne(call[c].fd) /\ AtMostOne(call[c].slot)
  BY DEF Typed
<1>2. FileOf[c] \in Files /\ AtMostOne(part[FileOf[c]]) /\ AtMostOne({})
  BY DEF Typed, AtMostOne
<1>3. ASSUME NEW pc \in Step, call' = [call EXCEPT ![c].pc = pc], tickets' \subseteq Calls,
             content' = content, part' = part, downloads' = downloads,
             faults' \in [drops : Nat, changes : Nat, restarts : Nat]
      PROVE  Typed'
  BY <1>3, GotoType DEF Typed
<1>4. CASE Prepare(c)
  <2> DEFINE r == [call[c] EXCEPT !.pc = "prepared", !.offset = PartLen(FileOf[c])]
  <2>1. r \in Call /\ r.fd = call[c].fd /\ r.slot = call[c].slot
    BY <1>1, <1>2, PartLenType DEF Call, Step
  <2>2. call' = [call EXCEPT ![c] = r]
    BY <1>4 DEF Prepare
  <2> QED
    BY <1>1, <1>4, <2>1, <2>2, MoveType DEF Prepare, Typed
<1>5. CASE Refuse(c) \/ EndEarly(c) \/ Drop(c) \/ MoveFails(c)
  <2>1. \E pc \in Step : call' = [call EXCEPT ![c].pc = pc]
    BY <1>5 DEF Refuse, EndEarly, Drop, MoveFails, Step
  <2>2. Fault("drops") \/ UNCHANGED faults
    BY <1>5 DEF Refuse, EndEarly, Drop, MoveFails
  <2> QED
    BY <1>3, <1>5, <2>1, <2>2, FaultType DEF Refuse, EndEarly, Drop, MoveFails, Typed
<1>6. CASE Decline(c) \/ Resolve(c) \/ EndVerified(c)
  <2>1. \E pc \in Step : call' = [call EXCEPT ![c].pc = pc]
    BY <1>6 DEF Decline, Resolve, EndVerified, Step
  <2> QED
    BY <1>3, <1>6, <2>1 DEF Decline, Resolve, EndVerified, Typed
<1>7. CASE OpenPart(c)
  <2> DEFINE i == IF Path(c) = {} THEN {Partial(c)} ELSE Path(c)
             r == [call[c] EXCEPT !.pc = "opened", !.fd = i]
  <2>1. i \in SUBSET Inode /\ AtMostOne(i)
    <3>1. {Partial(c)} \in SUBSET Inode /\ AtMostOne({Partial(c)})
      BY DEF Partial, AtMostOne, Inode
    <3>2. Path(c) \in SUBSET Inode /\ AtMostOne(Path(c))
      BY <1>2 DEF Path, Typed
    <3> QED
      BY <3>1, <3>2
  <2>2. part' = [part EXCEPT ![FileOf[c]] = i] /\ call' = [call EXCEPT ![c] = r]
    BY <1>7 DEF OpenPart, Path, Partial
  <2>3. r \in Call /\ r.fd = i /\ r.slot = call[c].slot
    BY <1>1, <2>1 DEF Call, Step
  <2> HIDE DEF i, r
  <2> QED
    BY <1>1, <1>2, <1>7, <2>1, <2>2, <2>3, MoveType, PartType DEF OpenPart, Typed
<1>8. CASE Truncate(c)
  <2>1. call[c].offset \in Nat
    BY <1>1 DEF Call
  <2>2. \A i \in Inode : SetLen(content[i], call[c].offset) \in Seq(BOOLEAN)
    BY <2>1, SetLenProperties DEF Typed
  <2>3. content' \in [Inode -> Seq(BOOLEAN)]
    BY <1>8, <2>2 DEF Truncate, Typed
  <2>4. "sized" \in Step /\ call' = [call EXCEPT ![c].pc = "sized"]
    BY <1>8 DEF Truncate, Step
  <2> QED
    BY <1>8, <2>3, <2>4, GotoType DEF Truncate, Typed
<1>9. CASE Seed(c)
  <2>1. PICK i \in call[c].fd :
          LET have == IF Len(content[i]) < call[c].offset THEN Len(content[i]) ELSE call[c].offset
          IN  call' = [call EXCEPT ![c].pc = "receiving", ![c].pos = call[c].offset,
                                   ![c].digest = SubSeq(content[i], 1, have)]
    BY <1>9 DEF Seed
  <2> DEFINE have == IF Len(content[i]) < call[c].offset THEN Len(content[i]) ELSE call[c].offset
             q == SubSeq(content[i], 1, have)
             r == [call[c] EXCEPT !.pc = "receiving", !.pos = call[c].offset, !.digest = q]
  <2>2. content[i] \in Seq(BOOLEAN) /\ call[c].offset \in Nat
    BY <1>1 DEF Typed, Call
  <2>3. have \in Nat /\ have <= Len(content[i])
    BY <2>2, LenProperties
  <2>4. \A k \in 1 .. have : content[i][k] \in BOOLEAN
    BY <2>2, <2>3, ElementOfSeq, LenProperties
  <2>5. q \in Seq(BOOLEAN)
    BY <2>3, <2>4, SubSeqProperties
  <2>6. call' = [call EXCEPT ![c] = r]
    BY <2>1
  <2>7. r \in Call /\ r.fd = call[c].fd /\ r.slot = call[c].slot
    BY <1>1, <2>2, <2>5 DEF Call, Step
  <2> HIDE DEF r
  <2> QED
    BY <1>1, <1>9, <2>6, <2>7, MoveType DEF Seed, Typed
<1>10. CASE Receive(c)
  <2> DEFINE next == call[c].pos + 1
  <2>1. PICK good \in BOOLEAN :
          /\ UNCHANGED faults \/ Fault("changes")
          /\ content' = [i \in Inode |-> IF i \in call[c].fd THEN WriteAt(content[i], next, good)
                                         ELSE content[i]]
          /\ call' = [call EXCEPT ![c].pos = next, ![c].digest = Append(call[c].digest, good)]
    BY <1>10 DEF Receive
  <2> DEFINE r == [call[c] EXCEPT !.pos = next, !.digest = Append(call[c].digest, good)]
  <2>2. next \in Nat \ {0} /\ Append(call[c].digest, good) \in Seq(BOOLEAN)
    BY <1>1, AppendProperties DEF Call
  <2>3. r \in Call /\ r.fd = call[c].fd /\ r.slot = call[c].slot
    BY <1>1, <2>2 DEF Call
  <2>4. call' = [call EXCEPT ![c] = r]
    BY <2>1
  <2>5. \A i \in Inode : WriteAt(content[i], next, good) \in Seq(BOOLEAN)
    BY <2>2, WriteAtProperties DEF Typed
  <2>6. content' \in [Inode -> Seq(BOOLEAN)]
    BY <2>1, <2>5 DEF Typed
  <2> HIDE DEF r
  <2> QED
    BY <1>1, <1>10, <2>1, <2>3, <2>4, <2>6, MoveType, FaultType DEF Receive, Typed
<1>11. CASE EndMismatch(c)
  <2>1. "mismatch" \in Step /\ call' = [call EXCEPT ![c].pc = "mismatch"] /\ tickets' \subseteq Calls
    BY <1>11 DEF EndMismatch, Step, Spend, Typed
  <2> QED
    BY <1>2, <1>11, <2>1, GotoType, PartType DEF EndMismatch, Typed
<1>12. CASE ChooseName(c)
  <2>1. PICK n \in FreeSlots(c) : call' = [call EXCEPT ![c].pc = "named", ![c].slot = {n}]
    BY <1>12 DEF ChooseName
  <2> DEFINE r == [call[c] EXCEPT !.pc = "named", !.slot = {n}]
  <2>2. r \in Call /\ r.fd = call[c].fd /\ AtMostOne(r.slot)
    BY <1>1, <2>1 DEF Call, Step, FreeSlots, AtMostOne
  <2>3. call' = [call EXCEPT ![c] = r]
    BY <2>1
  <2> HIDE DEF r
  <2> QED
    BY <1>1, <1>12, <2>2, <2>3, MoveType DEF ChooseName, Typed
<1>13. CASE Rename(c)
  <2>1. PICK i \in part[FileOf[c]] : Place(c, i)
    BY <1>13 DEF Rename
  <2>2. i \in Inode
    BY <1>2, <2>1 DEF Typed
  <2>3. "completed" \in Step /\ call' = [call EXCEPT ![c].pc = "completed"] /\ tickets' \subseteq Calls
    BY <1>13 DEF Rename, Step, Spend, Typed
  <2> QED
    BY <1>2, <1>13, <2>1, <2>2, <2>3, GotoType, PlaceType, PartType DEF Rename, Typed
<1>14. CASE StartCopy(c)
  <2> DEFINE r == [call[c] EXCEPT !.pc = "copying", !.fd = part[FileOf[c]]]
  <2>1. r \in Call /\ AtMostOne(r.fd) /\ r.slot = call[c].slot
    BY <1>1, <1>2 DEF Call, Step, Typed
  <2>2. call' = [call EXCEPT ![c] = r] /\ Copy(c) \in Inode /\ Place(c, Copy(c))
    BY <1>14 DEF StartCopy, Copy, Inode
  <2> HIDE DEF r
  <2> QED
    BY <1>1, <1>14, <2>1, <2>2, MoveType, PlaceType DEF StartCopy, Typed
<1>15. CASE FinishCopy(c)
  <2>1. PICK i \in call[c].fd : content' = [content EXCEPT ![<<c, "copy">>] = content[i]]
    BY <1>15 DEF FinishCopy
  <2>2. content' \in [Inode -> Seq(BOOLEAN)]
    BY <1>1, <2>1 DEF Typed, Call
  <2>3. "completed" \in Step /\ call' = [call EXCEPT ![c].pc = "completed"] /\ tickets' \subseteq Calls
    BY <1>15 DEF FinishCopy, Step, Spend, Typed
  <2> QED
    BY <1>2, <1>15, <2>2, <2>3, GotoType, PartType DEF FinishCopy, Typed
<1> QED
  BY <1>4, <1>5, <1>6, <1>7, <1>8, <1>9, <1>10, <1>11, <1>12, <1>13, <1>14, <1>15
     DEF CallStep, Handler
\* A restart keeps the types.
LEMMA RestartType ==
  ASSUME Typed, Restart
  PROVE  Typed'
<1>1. \A c \in Calls :
        /\ [call[c] EXCEPT !.pc = "failed"] \in Call
        /\ [call[c] EXCEPT !.pc = "failed"].fd = call[c].fd
        /\ [call[c] EXCEPT !.pc = "failed"].slot = call[c].slot
  <2> TAKE c \in Calls
  <2>1. call[c] \in Call
    BY DEF Typed
  <2> QED
    BY <2>1 DEF Call, Step
<1>2. call' \in [Calls -> Call] /\ \A c \in Calls : AtMostOne(call'[c].fd) /\ AtMostOne(call'[c].slot)
  BY <1>1 DEF Restart, Typed
<1> QED
  BY <1>2, FaultType DEF Restart, Typed

\* Every reachable state has the types the proofs use.
LEMMA TypedAlways == Spec => []Typed
<1>1. Init => Typed
  BY UploadAssumption, EmptySeq DEF Init, Typed, Call, Step, AtMostOne
<1>2. Typed /\ [Next]_vars => Typed'
  <2> SUFFICES ASSUME Typed, [Next]_vars PROVE Typed'
    OBVIOUS
  <2>1. ASSUME NEW c \in Calls, CallStep(c) PROVE Typed'
    BY <2>1, CallStepType
  <2>2. CASE Restart
    BY <2>2, RestartType
  <2>3. CASE UNCHANGED vars
    BY <2>3 DEF vars, Typed
  <2> QED
    BY <2>1, <2>2, <2>3 DEF Next, CallStep
<1> QED
  BY <1>1, <1>2, PTL DEF Spec

\* Every call, file and directory entry is well typed, and a path names at most one file.
THEOREM TypeCorrect == Spec => []TypeOK
<1>1. Typed => TypeOK
  BY SmallSet DEF Typed, TypeOK, AtMostOne
<1> QED
  BY <1>1, TypedAlways, PTL
-----------------------------------------------------------------------------
(* The partials. *)

\* What a step of a call can touch: its own state, its file's partial, its own copy, and
\* directory entries, where it puts its file's partial, which leaves its place, or its copy.
LEMMA OwnFileOnly ==
  ASSUME Typed, NEW c \in Calls, CallStep(c), \A i \in call[c].fd : i \in Path(c)
  PROVE  /\ \A d \in Calls : d # c => call'[d] = call[d]
         /\ call[c].pc = "new" => UNCHANGED <<content, part, downloads>>
         /\ call[c].pc \in Running \cup {"new"}
         /\ \A f \in Files : f # FileOf[c] => part'[f] = part[f]
         /\ \/ part' = part
            \/ call[c].pc = "resolved" /\ Path(c) = {} /\ Path(c)' = {Partial(c)}
            \/ Path(c)' = {} /\ call'[c].pc \notin Running
         /\ \A i \in Inode : i \notin Path(c) /\ i # Copy(c) => content'[i] = content[i]
         /\ \A e \in Names \X Slots :
              \/ downloads'[e] = downloads[e]
              \/ Path(c)' = {} /\ downloads'[e] \subseteq Path(c)
              \/ downloads'[e] = {Copy(c)}
<1> USE Constants
<1>1. CASE Prepare(c) \/ Refuse(c) \/ Decline(c)
  BY <1>1 DEF Prepare, Refuse, Decline, Typed
<1>2. CASE Resolve(c) \/ EndVerified(c) \/ EndEarly(c) \/ Drop(c) \/ MoveFails(c) \/ Seed(c)
           \/ ChooseName(c)
  BY <1>2 DEF Resolve, EndVerified, EndEarly, Drop, MoveFails, Seed, ChooseName, Running, Typed
<1>3. CASE OpenPart(c)
  BY <1>3 DEF OpenPart, Running, Typed, Path, Partial
<1>4. CASE Truncate(c) \/ Receive(c)
  BY <1>4 DEF Truncate, Receive, Running, Typed
<1>5. CASE EndMismatch(c)
  BY <1>5 DEF EndMismatch, Running, Typed, Path
<1>6. CASE Rename(c)
  BY <1>6 DEF Rename, Place, Running, Typed, Path
<1>7. CASE StartCopy(c)
  BY <1>7 DEF StartCopy, Place, Running, Typed, Copy
<1>8. CASE FinishCopy(c)
  BY <1>8 DEF FinishCopy, Running, Typed, Path, Copy
<1> QED
  BY <1>1, <1>2, <1>3, <1>4, <1>5, <1>6, <1>7, <1>8 DEF CallStep, Handler

\* Only set_len, a write and the end of a copy change what is in files.
LEMMA OtherContents ==
  ASSUME Typed, NEW c \in Calls, CallStep(c), ~Truncate(c), ~Receive(c), NEW i \in Inode, i # Copy(c)
  PROVE  content'[i] = content[i]
BY DEF CallStep, Handler, Prepare, Refuse, Decline, EndEarly, Drop, Resolve, OpenPart, Seed,
   EndVerified, EndMismatch, ChooseName, Rename, StartCopy, FinishCopy, MoveFails, Typed, Copy

\* A call runs from Prepare on, and does not go back to what it was before it opened the file.
LEMMA Forward ==
  ASSUME Typed, NEW c \in Calls, CallStep(c)
  PROVE  /\ call'[c].pc \in Running => call[c].pc \in Running \/ Prepare(c)
         /\ call'[c].pc \in {"new", "prepared", "resolved"} =>
              call[c].pc \in {"new", "prepared", "resolved"} /\ part' = part
<1>1. CASE Prepare(c)
  BY <1>1 DEF Prepare, Typed, Call
<1>2. CASE Refuse(c) \/ Decline(c) \/ EndEarly(c) \/ Drop(c) \/ MoveFails(c)
  <2>1. call'[c].pc \in {"failed", "declined", "incomplete"}
    BY <1>2 DEF Refuse, Decline, EndEarly, Drop, MoveFails, Typed, Call
  <2> QED
    BY <2>1 DEF Running
<1>3. CASE Resolve(c)
  BY <1>3 DEF Resolve, Running, Typed, Call
<1>4. CASE OpenPart(c) \/ Truncate(c) \/ Seed(c)
  <2>1. call[c].pc \in {"resolved", "opened", "sized"} /\ call'[c].pc \in {"opened", "sized", "receiving"}
    BY <1>4 DEF OpenPart, Truncate, Seed, Typed, Call
  <2> QED
    BY <2>1 DEF Running
<1>5. CASE Receive(c)
  <2>1. call'[c].pc = "receiving" /\ call[c].pc = "receiving"
    BY <1>5 DEF Receive, Typed, Call
  <2> QED
    BY <2>1 DEF Running
<1>6. CASE EndVerified(c) \/ EndMismatch(c) \/ ChooseName(c)
  <2>1. call[c].pc \in {"receiving", "verified"} /\ call'[c].pc \in {"verified", "mismatch", "named"}
    BY <1>6 DEF EndVerified, EndMismatch, ChooseName, Typed, Call
  <2> QED
    BY <2>1 DEF Running
<1>7. CASE Rename(c) \/ StartCopy(c) \/ FinishCopy(c)
  <2>1. call[c].pc \in {"named", "copying"} /\ call'[c].pc \in {"copying", "completed"}
    BY <1>7 DEF Rename, StartCopy, FinishCopy, Typed, Call
  <2> QED
    BY <2>1 DEF Running
<1> QED
  BY <1>1, <1>2, <1>3, <1>4, <1>5, <1>6, <1>7 DEF CallStep, Handler

\* Once it runs, a call was running; it starts when no other call of its file runs.
LEMMA AloneStep ==
  ASSUME Exclusive, Typed, Alone, NEW c \in Calls, CallStep(c), \A i \in call[c].fd : i \in Path(c)
  PROVE  Alone'
<1> USE Constants
<1>1. \A d \in Calls : d # c => call'[d] = call[d]
  BY OwnFileOnly
<1>2. CASE Prepare(c)
  <2>1. \A d \in Calls : FileOf[d] = FileOf[c] => call[d].pc \notin Running
    BY <1>2 DEF Prepare, MayStart
  <2> QED
    BY <1>1, <2>1 DEF Alone
<1>3. CASE ~Prepare(c)
  <2>1. call'[c].pc \in Running => call[c].pc \in Running
    BY <1>3, Forward
  <2> QED
    BY <1>1, <2>1 DEF Alone
<1> QED
  BY <1>2, <1>3

\* A step keeps partials in their place and apart from the received files.
LEMMA PartialsStep ==
  ASSUME Typed, Partials, NEW c \in Calls, CallStep(c), \A i \in call[c].fd : i \in Path(c)
  PROVE  Partials'
<1> USE Constants
<1>1. ASSUME NEW f \in Files, NEW i \in part'[f]
      PROVE  /\ i[2] = "part" /\ FileOf[i[1]] = f
             /\ \A e \in Names \X Slots : i \notin downloads'[e]
  <2>1. i \in part[f] \/ (f = FileOf[c] /\ i = Partial(c) /\ call[c].pc = "resolved" /\ Path(c) = {})
    BY <1>1, OwnFileOnly DEF Path
  <2>2. i[2] = "part" /\ FileOf[i[1]] = f /\ \A e \in Names \X Slots : i \notin downloads[e]
    BY <2>1 DEF Partials, Partial
  <2>3. ASSUME NEW e \in Names \X Slots, Path(c)' = {}, downloads'[e] \subseteq Path(c)
        PROVE  i \notin downloads'[e]
    <3>1. f # FileOf[c]
      BY <1>1, <2>3 DEF Path
    <3>2. \A j \in Path(c) : FileOf[j[1]] = FileOf[c]
      BY DEF Partials, Path
    <3> QED
      BY <2>2, <2>3, <3>1, <3>2
  <2>4. i # Copy(c)
    BY <2>2 DEF Copy
  <2> QED
    BY <2>2, <2>3, <2>4, OwnFileOnly
<1>2. ASSUME NEW d \in Calls, call'[d].pc \in {"new", "prepared", "resolved"}
      PROVE  /\ content'[Partial(d)] = <<>> /\ \A f \in Files : Partial(d) \notin part'[f]
             /\ \A e \in Names \X Slots : Partial(d) \notin downloads'[e]
  <2>1. call[d].pc \in {"new", "prepared", "resolved"} /\ (d = c => part' = part)
    <3>1. CASE d = c
      BY <1>2, <3>1, Forward
    <3>2. CASE d # c
      BY <1>2, <3>2, OwnFileOnly
    <3> QED
      BY <3>1, <3>2
  <2>2. /\ content[Partial(d)] = <<>> /\ \A f \in Files : Partial(d) \notin part[f]
        /\ \A e \in Names \X Slots : Partial(d) \notin downloads[e]
    BY <2>1 DEF Partials
  <2>3. Partial(d) \in Inode /\ Partial(d) # Copy(c) /\ (d # c => Partial(d) # Partial(c))
    BY DEF Partial, Copy, Inode
  <2>4. \A f \in Files : Partial(d) \notin part'[f]
    BY <2>1, <2>2, <2>3, OwnFileOnly DEF Path
  <2>5. Partial(d) \notin Path(c)
    BY <2>2 DEF Path
  <2> QED
    BY <2>2, <2>3, <2>4, <2>5, OwnFileOnly
<1> QED
  BY <1>1, <1>2 DEF Partials
\* The file a call reads or writes is its file's partial.
LEMMA OpenIsPartial ==
  ASSUME Typed, PartialInv, NEW c \in Calls, CallStep(c)
  PROVE  \A i \in call[c].fd : i \in Path(c)
<1>1. call[c].pc \in Running \cup {"new"}
  BY DEF CallStep, Handler, Prepare, Refuse, Decline, EndEarly, Drop, Resolve, OpenPart,
     Truncate, Seed, Receive, EndVerified, EndMismatch, ChooseName, Rename, StartCopy, FinishCopy,
     MoveFails, Running
<1> QED
  BY <1>1 DEF PartialInv, InHand

\* A step leaves the other calls alone, and the partials of those that run.
LEMMA OthersUndisturbed ==
  ASSUME Typed, PartialInv, NEW c \in Calls, CallStep(c), NEW d \in Calls, d # c
  PROVE  /\ call'[d] = call[d]
         /\ call[d].pc \in Running => Path(d)' = Path(d) /\ \A i \in Path(d) : content'[i] = content[i]
<1> USE Constants
<1>1. \A i \in call[c].fd : i \in Path(c)
  BY OpenIsPartial
<1>2. FileOf[d] \in Files /\ Path(d) \in SUBSET Inode
  BY DEF Path, Typed
<1>3. CASE FileOf[d] # FileOf[c]
  <2>1. Path(d)' = Path(d)
    BY <1>1, <1>2, <1>3, OwnFileOnly DEF Path
  <2>2. \A i \in Path(d) : i \notin Path(c) /\ i # Copy(c)
    BY <1>2, <1>3 DEF PartialInv, Partials, Path, Copy
  <2> QED
    BY <1>1, <1>2, <2>1, <2>2, OwnFileOnly
<1>4. CASE FileOf[d] = FileOf[c] /\ call[c].pc = "new"
  BY <1>1, <1>4, OwnFileOnly DEF Path
<1>5. CASE FileOf[d] = FileOf[c] /\ call[c].pc \in Running
  <2>1. call[d].pc \notin Running
    BY <1>5 DEF PartialInv, Alone
  <2> QED
    BY <1>1, <2>1, OwnFileOnly
<1> QED
  BY <1>1, <1>3, <1>4, <1>5, OwnFileOnly

\* What the other calls have in hand stays as it was.
LEMMA OthersInHand ==
  ASSUME Typed, PartialInv, NEW c \in Calls, CallStep(c), NEW d \in Calls, d # c
  PROVE  InHand(d)'
<1>1. call'[d] = call[d] /\ InHand(d)
  BY OthersUndisturbed DEF PartialInv
<1>2. CASE call[d].pc \notin Running
  BY <1>1, <1>2 DEF InHand, Running
<1>3. CASE call[d].pc \in Running
  <2>1. Path(d)' = Path(d) /\ \A i \in Path(d) : content'[i] = content[i]
    BY <1>3, OthersUndisturbed
  <2>2. PartLen(FileOf[d])' = PartLen(FileOf[d])
    <3>1. CASE Path(d) = {}
      BY <2>1, <3>1 DEF PartLen, Path
    <3>2. CASE Path(d) # {}
      <4>1. (CHOOSE i \in Path(d) : TRUE) \in Path(d)
        BY <3>2
      <4> QED
        BY <2>1, <3>2, <4>1 DEF PartLen, Path
    <3> QED
      BY <3>1, <3>2
  <2> QED
    BY <1>1, <2>1, <2>2 DEF InHand
<1> QED
  BY <1>2, <1>3

\* What the call itself has in hand is on disk after its step.
LEMMA OwnInHand ==
  ASSUME Typed, PartialInv, NEW c \in Calls, CallStep(c)
  PROVE  InHand(c)'
<1> USE Constants
<1>1. InHand(c) /\ call[c] \in Call
  BY DEF PartialInv, Typed
<1>2. FileOf[c] \in Files /\ Path(c) \in SUBSET Inode /\ AtMostOne(Path(c))
  BY DEF Path, Typed
<1>3. ASSUME call'[c].pc \notin Running \cup {"new"} PROVE InHand(c)'
  BY <1>3 DEF InHand, Running
<1>4. CASE Prepare(c)
  <2>1. /\ call'[c].pc = "prepared" /\ call'[c].fd = call[c].fd /\ call'[c].offset = PartLen(FileOf[c])
        /\ call[c].pc = "new"
    BY <1>4 DEF Prepare, Typed, Call
  <2>2. PartLen(FileOf[c])' = PartLen(FileOf[c])
    BY <1>4 DEF Prepare, PartLen
  <2> QED
    BY <1>1, <2>1, <2>2 DEF InHand
<1>5. CASE Refuse(c) \/ Decline(c) \/ EndEarly(c) \/ Drop(c) \/ MoveFails(c)
  <2>1. call'[c].pc \in {"failed", "declined", "incomplete"}
    BY <1>5 DEF Refuse, Decline, EndEarly, Drop, MoveFails, Typed, Call
  <2> QED
    BY <1>3, <2>1 DEF Running
<1>6. CASE EndMismatch(c) \/ Rename(c) \/ FinishCopy(c)
  <2>1. call'[c].pc \in {"mismatch", "completed"}
    BY <1>6 DEF EndMismatch, Rename, FinishCopy, Typed, Call
  <2> QED
    BY <1>3, <2>1 DEF Running
<1>7. CASE Resolve(c)
  <2>1. /\ call[c].pc = "prepared" /\ call'[c].pc \in {"resolved", "failed"}
        /\ call'[c].fd = call[c].fd /\ call'[c].offset = call[c].offset
    BY <1>7 DEF Resolve, Typed, Call
  <2>2. PartLen(FileOf[c])' = PartLen(FileOf[c])
    BY <1>7 DEF Resolve, PartLen
  <2> QED
    BY <1>1, <2>1, <2>2 DEF InHand, Running
<1>8. CASE OpenPart(c)
  <2> DEFINE i == IF Path(c) = {} THEN {Partial(c)} ELSE Path(c)
  <2>1. /\ call'[c].pc = "opened" /\ call'[c].fd = i /\ call'[c].offset = call[c].offset
        /\ call[c].pc = "resolved" /\ content' = content
    BY <1>8 DEF OpenPart, Path, Partial, Typed, Call
  <2>2. Path(c)' = i
    BY <1>8, <1>2 DEF OpenPart, Path, Partial, Typed
  <2>3. \A j \in i : Len(content[j]) = call[c].offset
    <3>1. CASE Path(c) = {}
      <4>1. content[Partial(c)] = <<>> /\ Len(<<>>) = 0
        BY <2>1, EmptySeq DEF PartialInv, Partials
      <4>2. call[c].offset = 0
        BY <1>1, <2>1, <3>1 DEF InHand, PartLen, Path
      <4> QED
        BY <3>1, <4>1, <4>2
    <3>2. CASE Path(c) # {}
      BY <1>1, <1>2, <2>1, <3>2, PartLenType DEF InHand, Path
    <3> QED
      BY <3>1, <3>2
  <2>4. i # {}
    OBVIOUS
  <2> HIDE DEF i
  <2> QED
    BY <2>1, <2>2, <2>3, <2>4 DEF InHand, Running
<1>9. CASE Truncate(c)
  <2>1. /\ call'[c].pc = "sized" /\ call'[c].fd = call[c].fd /\ call'[c].offset = call[c].offset
        /\ call[c].pc = "opened" /\ Path(c)' = Path(c)
    BY <1>9 DEF Truncate, Path, Typed, Call
  <2>2. call[c].fd = Path(c) /\ Path(c) # {}
    BY <1>1, <2>1 DEF InHand, Running
  <2>3. \A i \in Path(c) : content'[i] = SetLen(content[i], call[c].offset)
    BY <1>2, <1>9, <2>2 DEF Truncate
  <2>4. \A i \in Path(c) : Len(content'[i]) = call[c].offset
    <3> TAKE i \in Path(c)
    <3>1. content[i] \in Seq(BOOLEAN) /\ call[c].offset \in Nat
      BY <1>1, <1>2 DEF Typed, Call
    <3>2. Len(SetLen(content[i], call[c].offset)) = call[c].offset
      BY <3>1, SetLenProperties
    <3> QED
      BY <2>3, <3>2
  <2> QED
    BY <2>1, <2>2, <2>4 DEF InHand, Running
<1>10. CASE Seed(c)
  <2>1. call[c].pc = "sized" /\ content' = content /\ Path(c)' = Path(c)
    BY <1>10 DEF Seed, Path
  <2>2. call[c].fd = Path(c) /\ \A i \in Path(c) : Len(content[i]) = call[c].offset
    BY <1>1, <2>1 DEF InHand, Running
  <2>3. PICK i \in call[c].fd :
          LET have == IF Len(content[i]) < call[c].offset THEN Len(content[i]) ELSE call[c].offset
          IN  call' = [call EXCEPT ![c].pc = "receiving", ![c].pos = call[c].offset,
                                   ![c].digest = SubSeq(content[i], 1, have)]
    BY <1>10 DEF Seed
  <2>4. i \in Inode /\ i \in Path(c) /\ content[i] \in Seq(BOOLEAN) /\ Len(content[i]) \in Nat
    BY <1>2, <2>2, <2>3, LenProperties DEF Typed
  <2>5. call' = [call EXCEPT ![c].pc = "receiving", ![c].pos = call[c].offset,
                             ![c].digest = SubSeq(content[i], 1, Len(content[i]))]
    BY <2>2, <2>3, <2>4
  <2>6. SubSeq(content[i], 1, Len(content[i])) = content[i]
    BY <2>4, SubSeqFull
  <2>7. /\ call'[c].pc = "receiving" /\ call'[c].fd = call[c].fd
        /\ call'[c].pos = Len(content[i]) /\ call'[c].digest = content[i]
    BY <2>2, <2>4, <2>5, <2>6 DEF Typed, Call
  <2>8. \A j \in Path(c) : j = i
    BY <1>2, <2>4 DEF AtMostOne
  <2> QED
    BY <2>1, <2>2, <2>4, <2>7, <2>8 DEF InHand, Running
<1>11. CASE Receive(c)
  <2> DEFINE next == call[c].pos + 1
  <2>1. PICK good \in BOOLEAN :
          /\ content' = [i \in Inode |-> IF i \in call[c].fd THEN WriteAt(content[i], next, good)
                                         ELSE content[i]]
          /\ call' = [call EXCEPT ![c].pos = next, ![c].digest = Append(call[c].digest, good)]
    BY <1>11 DEF Receive
  <2>2. call[c].pc = "receiving" /\ Path(c)' = Path(c)
    BY <1>11 DEF Receive, Path
  <2>3. /\ call'[c].pc = "receiving" /\ call'[c].fd = call[c].fd
        /\ call'[c].pos = next /\ call'[c].digest = Append(call[c].digest, good)
    BY <2>1, <2>2 DEF Typed, Call
  <2>4. /\ call[c].fd = Path(c) /\ Path(c) # {}
        /\ \A i \in Path(c) : content[i] = call[c].digest /\ Len(content[i]) = call[c].pos
    BY <1>1, <2>2 DEF InHand, Running
  <2>5. ASSUME NEW i \in Path(c)
        PROVE  content'[i] = Append(call[c].digest, good) /\ Len(content'[i]) = next
    <3>1. content[i] \in Seq(BOOLEAN) /\ content[i] = call[c].digest /\ Len(content[i]) = call[c].pos
      BY <1>2, <2>4 DEF Typed
    <3>2. content'[i] = WriteAt(content[i], next, good)
      BY <1>2, <2>1, <2>4
    <3>3. WriteAt(content[i], Len(content[i]) + 1, good) = Append(content[i], good)
      BY <3>1, WriteAtEnd
    <3>4. Len(Append(content[i], good)) = Len(content[i]) + 1
      BY <3>1, AppendProperties
    <3> QED
      BY <3>1, <3>2, <3>3, <3>4
  <2> QED
    BY <2>2, <2>3, <2>4, <2>5 DEF InHand, Running
<1>12. CASE EndVerified(c) \/ ChooseName(c)
  <2>1. /\ call[c].pc \in {"receiving", "verified"} /\ call'[c].pc \in {"verified", "named"}
        /\ call'[c].fd = call[c].fd /\ Path(c)' = Path(c)
    BY <1>12 DEF EndVerified, ChooseName, Path, Typed, Call
  <2> QED
    BY <1>1, <2>1 DEF InHand, Running
<1>13. CASE StartCopy(c)
  <2>1. call'[c].pc = "copying" /\ call'[c].fd = Path(c) /\ Path(c)' = Path(c) /\ Path(c) # {}
    BY <1>13 DEF StartCopy, Path, Typed, Call
  <2> QED
    BY <2>1 DEF InHand, Running
<1> QED
  BY <1>4, <1>5, <1>6, <1>7, <1>8, <1>9, <1>10, <1>11, <1>12, <1>13 DEF CallStep, Handler
\* With one call of a file at a time, what a call has in hand is always what is on disk.
LEMMA PartialAlways ==
  ASSUME Exclusive
  PROVE  Spec => [](Typed /\ PartialInv)
<1>1. Init => Typed /\ PartialInv
  <2> SUFFICES ASSUME Init PROVE Typed /\ PartialInv
    OBVIOUS
  <2>1. Typed
    BY UploadAssumption, EmptySeq DEF Init, Typed, Call, Step, AtMostOne
  <2>2. \A c \in Calls : call[c].pc = "new" /\ call[c].fd = {} /\ Partial(c) \in Inode
    BY DEF Init, Partial, Inode
  <2> QED
    BY <2>1, <2>2 DEF Init, PartialInv, Alone, Partials, InHand, Running
<1>2. Typed /\ PartialInv /\ [Next]_vars => Typed' /\ PartialInv'
  <2> SUFFICES ASSUME Typed, PartialInv, [Next]_vars PROVE Typed' /\ PartialInv'
    OBVIOUS
  <2>1. ASSUME NEW c \in Calls, CallStep(c) PROVE Typed' /\ PartialInv'
    <3>1. Typed'
      BY <2>1, CallStepType
    <3>2. \A i \in call[c].fd : i \in Path(c)
      BY <2>1, OpenIsPartial
    <3>3. Alone' /\ Partials'
      BY <2>1, <3>2, AloneStep, PartialsStep DEF PartialInv
    <3>4. \A d \in Calls : InHand(d)'
      BY <2>1, OthersInHand, OwnInHand
    <3> QED
      BY <3>1, <3>3, <3>4 DEF PartialInv
  <2>2. CASE Restart
    <3>1. Typed'
      BY <2>2, RestartType
    <3>2. \A c \in Calls :
            /\ call'[c].pc = call[c].pc /\ call'[c].fd = call[c].fd /\ call'[c].offset = call[c].offset
                 /\ call[c].pc \notin Running \ {"prepared"}
            \/ call'[c].pc = "failed"
      BY <2>2 DEF Restart, Typed, Call
    <3>3. \A f \in Files : PartLen(f)' = PartLen(f)
      BY <2>2 DEF Restart, PartLen
    <3>4. UNCHANGED <<content, part, downloads>>
      BY <2>2 DEF Restart
    <3>5. Alone' /\ Partials'
      BY <3>2, <3>4 DEF PartialInv, Alone, Partials, Running
    <3>6. \A c \in Calls : InHand(c)'
      BY Constants, <3>2, <3>3, <3>4 DEF PartialInv, InHand, Running, Path
    <3> QED
      BY <3>1, <3>5, <3>6 DEF PartialInv
  <2>3. CASE UNCHANGED vars
    <3>1. Typed' /\ Alone' /\ Partials'
      BY <2>3 DEF vars, Typed, PartialInv, Alone, Partials
    <3>2. \A f \in Files : PartLen(f)' = PartLen(f)
      BY <2>3 DEF vars, PartLen
    <3>3. \A c \in Calls : InHand(c)'
      BY Constants, <2>3, <3>2 DEF vars, PartialInv, InHand, Path
    <3> QED
      BY <3>1, <3>3 DEF PartialInv
  <2> QED
    BY <2>1, <2>2, <2>3 DEF Next, CallStep
<1> QED
  BY <1>1, <1>2, PTL DEF Spec

\* A retry never costs bytes: while it is in its place, a partial only grows, whichever
\* connections dropped and whatever restarted. Two calls of one file at a time may cut
\* each other's partial, so the theorem asks for one.
THEOREM PartialsOnlyGrow ==
  ASSUME Exclusive
  PROVE  Spec => PartialOnlyGrows
<1> DEFINE Grows == \A f \in Files : \A i \in part[f] :
                      i \in part'[f] => Len(content'[i]) >= Len(content[i])
<1>1. Typed /\ PartialInv /\ [Next]_vars => [Grows]_vars
  <2> SUFFICES ASSUME Typed, PartialInv, Next,
                      NEW f \in Files, NEW i \in part[f]
               PROVE  Len(content'[i]) >= Len(content[i])
    BY DEF Grows
  <2>1. /\ i \in Inode /\ content[i] \in Seq(BOOLEAN) /\ Len(content[i]) \in Nat
        /\ i[2] = "part" /\ FileOf[i[1]] = f
    BY LenProperties DEF Typed, PartialInv, Partials
  <2>2. CASE Restart
    BY <2>1, <2>2 DEF Restart
  <2>3. ASSUME NEW c \in Calls, CallStep(c) PROVE Len(content'[i]) >= Len(content[i])
    <3>1. CASE i \notin Path(c)
      <4>1. i # Copy(c)
        BY <2>1 DEF Copy
      <4>2. content'[i] = content[i]
        BY <2>1, <2>3, <3>1, <4>1, OpenIsPartial, OwnFileOnly
      <4> QED
        BY <2>1, <4>2
    <3>2. CASE Truncate(c) /\ i \in Path(c)
      <4>1. call[c].pc = "opened" /\ call[c].offset \in Nat
        BY <3>2 DEF Truncate, Typed, Call
      <4>2. call[c].fd = Path(c) /\ Len(content[i]) = call[c].offset
        BY <3>2, <4>1 DEF PartialInv, InHand, Running
      <4>3. content'[i] = SetLen(content[i], call[c].offset)
        BY <2>1, <3>2, <4>2 DEF Truncate
      <4> QED
        BY <2>1, <4>1, <4>2, <4>3, SetLenProperties
    <3>3. CASE Receive(c) /\ i \in Path(c)
      <4>1. PICK good \in BOOLEAN :
              content' = [j \in Inode |-> IF j \in call[c].fd
                                          THEN WriteAt(content[j], call[c].pos + 1, good)
                                          ELSE content[j]]
        BY <3>3 DEF Receive
      <4>2. content'[i] = WriteAt(content[i], call[c].pos + 1, good) \/ content'[i] = content[i]
        BY <2>1, <4>1
      <4>3. call[c].pos + 1 \in Nat \ {0}
        BY DEF Typed, Call
      <4> QED
        BY <2>1, <4>2, <4>3, WriteAtProperties
    <3>4. CASE ~Truncate(c) /\ ~Receive(c) /\ i \in Path(c)
      <4>1. i # Copy(c)
        BY <2>1 DEF Copy
      <4>2. content'[i] = content[i]
        BY <2>1, <2>3, <3>4, <4>1, OtherContents
      <4> QED
        BY <2>1, <4>2
    <3> QED
      BY <2>3, <3>1, <3>2, <3>3, <3>4
  <2> QED
    BY <2>2, <2>3 DEF Next, CallStep
<1>2. PartialOnlyGrows <=> [][Grows]_vars
  BY DEF PartialOnlyGrows
<1> QED
  BY <1>1, <1>2, PartialAlways, PTL DEF Spec
-----------------------------------------------------------------------------
(* The received files. *)

\* An empty file is not the one that was sent.
LEMMA EmptyIsNotGood == <<>> # Good
BY Constants, GoodIsSeq, EmptySeq

\* Only the file whose digest matched goes on.
LEMMA VouchedStep ==
  ASSUME Hashed, Typed, PartialInv, PlaceInv, NEW c \in Calls, CallStep(c), NEW d \in Calls
  PROVE  Vouched(d)'
<1> USE Constants
<1>1. Vouched(d)
  BY DEF PlaceInv
<1>2. CASE d # c
  BY <1>1, <1>2, OthersUndisturbed DEF Vouched, Running
<1>3. CASE d = c /\ EndVerified(c)
  <2>1. /\ call[c].pc = "receiving" /\ call[c].digest = Good
        /\ call'[c].pc = "verified" /\ call'[c].pos = call[c].pos
        /\ Path(c)' = Path(c) /\ content' = content
    BY <1>3 DEF EndVerified, Verified, Path, Typed, Call
  <2>2. /\ Path(c) # {}
        /\ \A i \in Path(c) : content[i] = Good /\ Len(content[i]) = call[c].pos
    BY <2>1 DEF PartialInv, InHand, Running
  <2> QED
    BY <1>3, <2>1, <2>2, GoodIsSeq DEF Vouched
<1>4. CASE d = c /\ (ChooseName(c) \/ StartCopy(c))
  <2>1. /\ call[c].pc \in {"verified", "named"} /\ call'[c].pos = call[c].pos
        /\ Path(c)' = Path(c) /\ content' = content
    BY <1>4 DEF ChooseName, StartCopy, Path, Typed, Call
  <2> QED
    BY <1>1, <1>4, <2>1 DEF Vouched
<1>5. CASE d = c /\ (Rename(c) \/ FinishCopy(c))
  <2>1. /\ call[c].pc \in {"named", "copying"} /\ call'[c].pos = call[c].pos
        /\ call'[c].pc = "completed"
    BY <1>5 DEF Rename, FinishCopy, Typed, Call
  <2> QED
    BY <1>1, <1>5, <2>1 DEF Vouched
<1>6. CASE d = c /\ (Prepare(c) \/ Resolve(c) \/ OpenPart(c) \/ Truncate(c) \/ Seed(c) \/ Receive(c))
  <2>1. call'[c].pc \in {"prepared", "resolved", "opened", "sized", "receiving", "failed"}
    BY <1>6 DEF Prepare, Resolve, OpenPart, Truncate, Seed, Receive, Typed, Call
  <2> QED
    BY <1>6, <2>1 DEF Vouched
<1>7. CASE d = c /\ (Refuse(c) \/ Decline(c) \/ EndEarly(c) \/ Drop(c) \/ MoveFails(c) \/ EndMismatch(c))
  <2>1. call'[c].pc \in {"failed", "declined", "incomplete", "mismatch"}
    BY <1>7 DEF Refuse, Decline, EndEarly, Drop, MoveFails, EndMismatch, Typed, Call
  <2> QED
    BY <1>7, <2>1 DEF Vouched
<1> QED
  BY <1>2, <1>3, <1>4, <1>5, <1>6, <1>7 DEF CallStep, Handler
\* A slot changes only where it is chosen, a copy only when it is finished, and a directory
\* entry only where the file is placed.
LEMMA PlaceEffects ==
  ASSUME Typed, NEW c \in Calls, CallStep(c)
  PROVE  /\ ~ChooseName(c) => call'[c].slot = call[c].slot
         /\ call[c].pc # "completed"
         /\ call'[c].pc = "named" => ChooseName(c)
         /\ call'[c].pc = "copying" => StartCopy(c)
         /\ call'[c].pc = "completed" => Rename(c) \/ FinishCopy(c)
         /\ call[c].pc = "copying" => call'[c].pc \in {"completed", "failed"}
         /\ ~Rename(c) /\ ~StartCopy(c) => downloads' = downloads
<1>1. CASE Prepare(c)
  BY <1>1 DEF Prepare, Typed, Call
<1>2. CASE Refuse(c) \/ Decline(c) \/ EndEarly(c) \/ Drop(c) \/ MoveFails(c) \/ EndMismatch(c)
  <2>1. /\ call'[c].pc \in {"failed", "declined", "incomplete", "mismatch"}
        /\ call'[c].slot = call[c].slot /\ downloads' = downloads
    BY <1>2 DEF Refuse, Decline, EndEarly, Drop, MoveFails, EndMismatch, Typed, Call
  <2>2. call[c].pc # "completed"
    BY <1>2 DEF Refuse, Decline, EndEarly, Drop, MoveFails, EndMismatch, Running
  <2>3. call[c].pc = "copying" => call'[c].pc = "failed"
    BY <1>2 DEF Refuse, Decline, EndEarly, Drop, MoveFails, EndMismatch, Typed, Call
  <2> QED
    BY <2>1, <2>2, <2>3
<1>3. CASE Resolve(c)
  BY <1>3 DEF Resolve, Typed, Call
<1>4. CASE OpenPart(c) \/ Truncate(c) \/ Seed(c) \/ Receive(c)
  <2>1. /\ call[c].pc \in {"resolved", "opened", "sized", "receiving"}
        /\ call'[c].pc \in {"opened", "sized", "receiving"}
        /\ call'[c].slot = call[c].slot /\ downloads' = downloads
    BY <1>4 DEF OpenPart, Truncate, Seed, Receive, Typed, Call
  <2> QED
    BY <2>1
<1>5. CASE EndVerified(c)
  BY <1>5 DEF EndVerified, Typed, Call
<1>6. CASE ChooseName(c)
  <2>1. call[c].pc = "verified" /\ call'[c].pc = "named" /\ downloads' = downloads
    BY <1>6 DEF ChooseName, Typed, Call
  <2> QED
    BY <1>6, <2>1
<1>7. CASE Rename(c)
  BY <1>7 DEF Rename, Typed, Call
<1>8. CASE StartCopy(c)
  BY <1>8 DEF StartCopy, Typed, Call
<1>9. CASE FinishCopy(c)
  BY <1>9 DEF FinishCopy, Typed, Call
<1> QED
  BY <1>1, <1>2, <1>3, <1>4, <1>5, <1>6, <1>7, <1>8, <1>9 DEF CallStep, Handler

\* What Place does to the directory.
LEMMA PlaceDef ==
  ASSUME NEW c \in Calls, NEW i, Place(c, i), NEW e \in Names \X Slots
  PROVE  downloads'[e] = IF e[1] = NameOf[FileOf[c]] /\ e[2] \in call[c].slot THEN {i} ELSE downloads[e]
BY DEF Place

\* A copy appears in its call's slot, and stays empty until it is finished.
LEMMA CopiesStep ==
  ASSUME Typed, PartialInv, Copies, NEW c \in Calls, CallStep(c)
  PROVE  Copies'
<1> USE Constants
<1> SUFFICES ASSUME NEW d \in Calls
             PROVE  /\ call'[d].pc # "completed" => content'[Copy(d)] = <<>>
                    /\ \A e \in Names \X Slots : Copy(d) \in downloads'[e] =>
                         /\ call'[d].pc \in {"copying", "completed", "failed"}
                         /\ e[1] = NameOf[FileOf[d]] /\ e[2] \in call'[d].slot
  BY DEF Copies, Copy
<1>1. Copy(d) \in Inode /\ Copy(d) \notin Path(c) /\ (d # c => Copy(d) # Copy(c))
  BY DEF Copy, Inode, PartialInv, Partials, Path
<1>2. d # c => call'[d] = call[d]
  BY OthersUndisturbed
<1>3. ASSUME call'[d].pc # "completed" PROVE content'[Copy(d)] = <<>>
  <2>1. content[Copy(d)] = <<>>
    BY <1>2, <1>3, PlaceEffects DEF Copies
  <2>2. CASE d # c
    BY <1>1, <2>1, <2>2, OpenIsPartial, OwnFileOnly
  <2>3. CASE d = c
    <3>1. ~FinishCopy(c)
      BY <1>3, <2>3 DEF FinishCopy, Typed, Call
    <3>2. CASE Truncate(c) \/ Receive(c)
      <4>1. Copy(c) \notin call[c].fd
        BY <1>1, <2>3, OpenIsPartial
      <4> QED
        BY <1>1, <2>1, <2>3, <3>2, <4>1 DEF Truncate, Receive
    <3>3. CASE ~Truncate(c) /\ ~Receive(c)
      BY <2>1, <2>3, <3>1, <3>3 DEF CallStep, Handler, Prepare, Refuse, Decline, EndEarly, Drop, Resolve,
         OpenPart, Seed, EndVerified, EndMismatch, ChooseName, Rename, StartCopy, MoveFails
    <3> QED
      BY <3>2, <3>3
  <2> QED
    BY <2>2, <2>3
<1>4. ASSUME NEW e \in Names \X Slots, Copy(d) \in downloads'[e]
      PROVE  /\ call'[d].pc \in {"copying", "completed", "failed"}
             /\ e[1] = NameOf[FileOf[d]] /\ e[2] \in call'[d].slot
  <2>1. CASE Copy(d) \in downloads[e]
    <3>1. /\ call[d].pc \in {"copying", "completed", "failed"}
          /\ e[1] = NameOf[FileOf[d]] /\ e[2] \in call[d].slot
      BY <2>1 DEF Copies
    <3>2. CASE d = c
      <4>1. call[c].pc \in Running \cup {"new"} /\ ~(call[c].pc = "copying" /\ ChooseName(c))
        BY OpenIsPartial, OwnFileOnly DEF ChooseName
      <4>2. call[c].pc = "copying"
        BY <3>1, <3>2, <4>1 DEF Running
      <4> QED
        BY <3>1, <3>2, <4>1, <4>2, PlaceEffects
    <3> QED
      BY <1>2, <3>1, <3>2
  <2>2. CASE Copy(d) \notin downloads[e]
    <3>1. d = c /\ downloads' # downloads
      BY <1>1, <1>4, <2>2, OpenIsPartial, OwnFileOnly
    <3>2. ~Rename(c)
      <4> SUFFICES ASSUME Rename(c) PROVE FALSE
        OBVIOUS
      <4>1. PICK i \in part[FileOf[c]] : Place(c, i)
        BY DEF Rename
      <4>2. downloads'[e] = {i} \/ downloads'[e] = downloads[e]
        BY <4>1 DEF Place
      <4>3. i # Copy(d)
        BY <1>1, <3>1, <4>1 DEF Path
      <4> QED
        BY <1>4, <2>2, <4>2, <4>3
    <3>3. StartCopy(c)
      BY <3>1, <3>2, PlaceEffects
    <3>4. e[1] = NameOf[FileOf[c]] /\ e[2] \in call[c].slot
      BY <1>4, <2>2, <3>3, PlaceDef DEF StartCopy
    <3>5. call'[c].pc = "copying" /\ call'[c].slot = call[c].slot
      BY <3>3 DEF StartCopy, Typed, Call
    <3> QED
      BY <3>1, <3>4, <3>5
  <2> QED
    BY <2>1, <2>2
<1> QED
  BY <1>3, <1>4
\* The entries of other calls stay, and keep what is in them, while every file has its own name.
LEMMA OthersPlaced ==
  ASSUME NamesApart, Typed, PartialInv, Copies, \A d \in Calls : Placed(d),
         NEW c \in Calls, CallStep(c), NEW d \in Calls, d # c
  PROVE  Placed(d)'
<1> USE Constants
<1>1. call'[d] = call[d] /\ Placed(d)
  BY OthersUndisturbed
<1>2. FileOf[c] \in Files /\ FileOf[d] \in Files
  OBVIOUS
<1>3. ASSUME NEW n \in call[d].slot, call[d].pc \in {"named", "copying", "completed"}
      PROVE  Entry(d, n)' = Entry(d, n)
  <2> DEFINE e == <<NameOf[FileOf[d]], n>>
  <2>1. e \in Names \X Slots
    BY <1>3 DEF Typed, Call
  <2> SUFFICES ASSUME downloads'[e] # downloads[e] PROVE FALSE
    BY DEF Entry
  <2>2. Rename(c) \/ StartCopy(c)
    BY PlaceEffects
  <2>3. PICK i \in Inode : Place(c, i)
    <3>1. CASE Rename(c)
      BY <3>1 DEF Rename, Typed
    <3>2. CASE StartCopy(c)
      BY <3>2 DEF StartCopy, Inode
    <3> QED
      BY <2>2, <3>1, <3>2
  <2>4. e[1] = NameOf[FileOf[c]] /\ e[2] \in call[c].slot
    BY <2>1, <2>3, PlaceDef
  <2>5. FileOf[d] = FileOf[c] /\ n \in call[c].slot
    BY <1>2, <2>4 DEF NamesApart
  <2>6. call[c].pc = "named"
    BY <2>2 DEF Rename, StartCopy
  <2>7. Entry(c, n) = {} /\ Entry(d, n) = Entry(c, n)
    BY <2>5, <2>6 DEF Placed, Entry
  <2>8. call[d].pc = "completed"
    BY <1>3, <2>5, <2>6 DEF PartialInv, Alone, Running
  <2> QED
    BY <1>1, <1>3, <2>7, <2>8 DEF Placed
<1>4. ASSUME NEW n \in call[d].slot, call[d].pc = "completed", NEW i \in Entry(d, n)
      PROVE  content'[i] = content[i]
  <2> DEFINE e == <<NameOf[FileOf[d]], n>>
  <2>1. e \in Names \X Slots /\ i \in downloads[e]
    BY <1>4 DEF Typed, Call, Entry
  <2>2. i \in Inode /\ content[i] = Good
    BY <1>1, <1>4, <2>1 DEF Typed, Placed
  <2>3. i \notin Path(c)
    BY <2>1 DEF PartialInv, Partials, Path
  <2>4. i # Copy(c)
    BY <2>2, PlaceEffects, EmptyIsNotGood DEF Copies
  <2> QED
    BY <2>2, <2>3, <2>4, OpenIsPartial, OwnFileOnly
<1> QED
  BY <1>1, <1>3, <1>4 DEF Placed

\* A call's own slot is free until it places the file, and then holds it whole.
LEMMA OwnPlaced ==
  ASSUME Typed, PartialInv, NEW c \in Calls, CallStep(c), Vouched(c), Placed(c)
  PROVE  Placed(c)'
<1> USE Constants
<1>1. ASSUME NEW n \in Slots PROVE <<NameOf[FileOf[c]], n>> \in Names \X Slots
  BY <1>1
<1>2. call[c].slot \in SUBSET Slots
  BY DEF Typed, Call
<1>3. CASE ChooseName(c)
  <2>1. PICK n \in FreeSlots(c) : call' = [call EXCEPT ![c].pc = "named", ![c].slot = {n}]
    BY <1>3 DEF ChooseName
  <2>2. call'[c].pc = "named" /\ call'[c].slot = {n}
    BY <2>1 DEF Typed, Call
  <2>3. downloads' = downloads
    BY <1>3 DEF ChooseName
  <2>4. Entry(c, n)' = {}
    BY <2>3 DEF FreeSlots, Entry
  <2> QED
    BY <2>2, <2>4 DEF Placed
<1>4. CASE Rename(c)
  <2>1. PICK i \in Path(c) : Place(c, i)
    BY <1>4 DEF Rename, Path
  <2>2. /\ call[c].pc = "named" /\ call'[c].pc = "completed" /\ call'[c].slot = call[c].slot
        /\ content' = content
    BY <1>4 DEF Rename, Typed, Call
  <2>3. \A n \in call[c].slot : Entry(c, n)' = {i}
    BY <1>1, <1>2, <2>1, PlaceDef DEF Entry
  <2>4. content[i] = Good
    BY <2>1, <2>2 DEF Vouched
  <2> QED
    BY <2>2, <2>3, <2>4 DEF Placed
<1>5. CASE StartCopy(c)
  <2>1. /\ call[c].pc = "named" /\ call'[c].pc = "copying" /\ call'[c].slot = call[c].slot
        /\ Place(c, Copy(c))
    BY <1>5 DEF StartCopy, Copy, Typed, Call
  <2>2. \A n \in call[c].slot : Entry(c, n)' = {Copy(c)}
    BY <1>1, <1>2, <2>1, PlaceDef DEF Entry
  <2> QED
    BY <2>1, <2>2 DEF Placed
<1>6. CASE FinishCopy(c)
  <2>1. /\ call[c].pc = "copying" /\ call'[c].pc = "completed" /\ call'[c].slot = call[c].slot
        /\ downloads' = downloads
    BY <1>6 DEF FinishCopy, Typed, Call
  <2>2. PICK i \in call[c].fd : content' = [content EXCEPT ![Copy(c)] = content[i]]
    BY <1>6 DEF FinishCopy, Copy
  <2>3. i \in Path(c)
    BY OpenIsPartial
  <2>4. content'[Copy(c)] = Good
    BY <2>1, <2>2, <2>3 DEF Vouched, Typed, Copy, Inode
  <2>5. \A n \in call[c].slot : Entry(c, n)' = {Copy(c)}
    BY <2>1 DEF Placed, Entry
  <2> QED
    BY <2>1, <2>4, <2>5 DEF Placed
<1>7. CASE ~ChooseName(c) /\ ~Rename(c) /\ ~StartCopy(c) /\ ~FinishCopy(c)
  <2>1. call'[c].pc \notin {"named", "copying", "completed"}
    BY <1>7, PlaceEffects
  <2> QED
    BY <2>1 DEF Placed
<1> QED
  BY <1>3, <1>4, <1>5, <1>6, <1>7
\* Without a copy, what is in the directory was renamed there, whole.
LEMMA RenamedStep ==
  ASSUME ~RenameMayFail, Typed, PartialInv, PlaceInv, NEW c \in Calls, CallStep(c)
  PROVE  /\ \A d \in Calls : call'[d].pc # "copying"
         /\ \A e \in Names \X Slots : \A i \in downloads'[e] : content'[i] = Good
<1> USE Constants
<1>1. ~StartCopy(c) /\ ~FinishCopy(c)
  BY DEF StartCopy, FinishCopy, PlaceInv
<1>2. \A d \in Calls : call'[d].pc # "copying"
  BY <1>1, OthersUndisturbed, PlaceEffects DEF PlaceInv
<1>3. ASSUME NEW e \in Names \X Slots, NEW i \in downloads[e] PROVE content'[i] = Good
  <2>1. i \in Inode /\ i \notin Path(c) /\ content[i] = Good
    BY <1>3 DEF Typed, PartialInv, Partials, Path, PlaceInv
  <2>2. i \notin call[c].fd
    BY <2>1, OpenIsPartial
  <2>3. CASE Truncate(c) \/ Receive(c)
    BY <2>1, <2>2, <2>3 DEF Truncate, Receive
  <2>4. CASE ~Truncate(c) /\ ~Receive(c)
    BY <1>1, <2>1, <2>4 DEF CallStep, Handler, Prepare, Refuse, Decline, EndEarly, Drop, Resolve,
       OpenPart, Seed, EndVerified, EndMismatch, ChooseName, Rename, MoveFails
  <2> QED
    BY <2>3, <2>4
<1>4. CASE Rename(c)
  <2>1. PICK i \in Path(c) : Place(c, i)
    BY <1>4 DEF Rename, Path
  <2>2. content[i] = Good /\ content' = content
    BY <1>4, <2>1 DEF Rename, PlaceInv, Vouched
  <2> QED
    BY <1>2, <1>3, <2>1, <2>2 DEF Place
<1>5. CASE ~Rename(c)
  BY <1>1, <1>2, <1>3, <1>5, PlaceEffects
<1> QED
  BY <1>4, <1>5

\* The invariant behind CompletedIsIntact and the refinement of Downloads.
LEMMA PlaceAlways ==
  ASSUME Exclusive, Hashed
  PROVE  Spec => [](Typed /\ PartialInv /\ PlaceInv)
<1>1. Init => PlaceInv
  <2> SUFFICES ASSUME Init PROVE PlaceInv
    OBVIOUS
  <2>1. \A c \in Calls : call[c].pc = "new" /\ call[c].slot = {} /\ content[Copy(c)] = <<>>
    BY DEF Init, Copy, Inode
  <2>2. \A e \in Names \X Slots : downloads[e] = {}
    BY DEF Init
  <2> QED
    BY <2>1, <2>2 DEF PlaceInv, Vouched, Copies, Placed
<1>2. Typed /\ PartialInv /\ PlaceInv /\ [Next]_vars => PlaceInv'
  <2> SUFFICES ASSUME Typed, PartialInv, PlaceInv, [Next]_vars PROVE PlaceInv'
    OBVIOUS
  <2>1. ASSUME NEW c \in Calls, CallStep(c) PROVE PlaceInv'
    <3>1. \A d \in Calls : Vouched(d)'
      BY <2>1, VouchedStep
    <3>2. ASSUME NamesApart PROVE Copies' /\ \A d \in Calls : Placed(d)'
      <4>1. Copies /\ \A d \in Calls : Placed(d) /\ Vouched(d)
        BY <3>2 DEF PlaceInv
      <4>2. Copies'
        BY <2>1, <4>1, CopiesStep
      <4>3. Placed(c)'
        BY <2>1, <4>1, OwnPlaced
      <4>4. \A d \in Calls : d # c => Placed(d)'
        BY <2>1, <3>2, <4>1, OthersPlaced
      <4> QED
        BY <4>2, <4>3, <4>4
    <3>3. ~RenameMayFail =>
            /\ \A d \in Calls : call'[d].pc # "copying"
            /\ \A e \in Names \X Slots : \A i \in downloads'[e] : content'[i] = Good
      BY <2>1, RenamedStep
    <3>4. NamesApart' <=> NamesApart
      BY DEF NamesApart
    <3> QED
      BY <3>1, <3>2, <3>3, <3>4 DEF PlaceInv
  <2>2. CASE Restart
    <3>1. \A c \in Calls :
            /\ call'[c].pc = call[c].pc \/ (call'[c].pc = "failed" /\ call[c].pc \in Running)
            /\ call'[c].slot = call[c].slot /\ call'[c].pos = call[c].pos
      BY <2>2 DEF Restart, Typed, Call
    <3>2. content' = content /\ part' = part /\ downloads' = downloads
      BY <2>2 DEF Restart
    <3>3. \A c \in Calls : Vouched(c)'
      BY <3>1, <3>2 DEF PlaceInv, Vouched, Path
    <3>4. ASSUME NamesApart PROVE Copies' /\ \A c \in Calls : Placed(c)'
      <4>1. Copies'
        BY <3>1, <3>2, <3>4 DEF PlaceInv, Copies, Running
      <4>2. \A c \in Calls : Placed(c)'
        BY <3>1, <3>2, <3>4 DEF PlaceInv, Placed, Entry
      <4> QED
        BY <4>1, <4>2
    <3>5. NamesApart' <=> NamesApart
      BY DEF NamesApart
    <3> QED
      BY <3>1, <3>2, <3>3, <3>4, <3>5 DEF PlaceInv
  <2>3. CASE UNCHANGED vars
    BY <2>3 DEF vars, PlaceInv, Vouched, Copies, Placed, Path, Entry, NamesApart
  <2> QED
    BY <2>1, <2>2, <2>3 DEF Next, CallStep
<1> QED
  BY <1>1, <1>2, PartialAlways, PTL DEF Spec

\* A file reported completed holds what the sender hashed, for as long as it is under its
\* name, whatever dropped, resumed, failed or restarted on the way. It takes a hash, and one
\* call of a file at a time (the run UploadOverlap shows why); and where renames can fail, and
\* files are copied, that no two files ask for one name at the same time.
THEOREM CompletedIntact ==
  ASSUME Exclusive, Hashed, RenameMayFail => NamesApart
  PROVE  Spec => []CompletedIsIntact
<1>1. Typed /\ PlaceInv => CompletedIsIntact
  <2> SUFFICES ASSUME Typed, PlaceInv, NEW c \in Calls, call[c].pc = "completed",
                      NEW n \in call[c].slot, NEW i \in downloads[<<NameOf[FileOf[c]], n>>]
               PROVE  content[i] = Good
    BY DEF CompletedIsIntact
  <2>1. CASE NamesApart
    BY <2>1 DEF PlaceInv, Placed, Entry
  <2>2. CASE ~RenameMayFail
    <3>1. <<NameOf[FileOf[c]], n>> \in Names \X Slots
      BY Constants DEF Typed, Call
    <3> QED
      BY <2>2, <3>1 DEF PlaceInv
  <2>3. NamesApart \/ ~RenameMayFail
    OBVIOUS
  <2> QED
    BY <2>1, <2>2, <2>3
<1> QED
  BY <1>1, PlaceAlways, PTL

\* A completed file has the size that was declared, and not that of a file that grew while
\* it was sent.
THEOREM CompletedSize ==
  ASSUME Exclusive, Hashed
  PROVE  Spec => []CompletedHasDeclaredSize
<1>1. PlaceInv => CompletedHasDeclaredSize
  BY DEF PlaceInv, Vouched, CompletedHasDeclaredSize
<1> QED
  BY <1>1, PlaceAlways, PTL
-----------------------------------------------------------------------------
(* The refinement of Downloads. *)

\* What an observer of the download directory sees: the entries that hold a whole file.
Shelf == [e \in Names \X Slots |-> {i \in downloads[e] : content[i] = Good}]

\* Only the end of a rename or of a copy shows: it delivers one file under a name that was free.
LEMMA DeliverStep ==
  ASSUME NamesApart, Typed, PartialInv, PlaceInv, NEW c \in Calls, CallStep(c)
  PROVE  DownloadsSpec!Next \/ Shelf' = Shelf
<1> USE Constants
<1>1. Copies /\ Placed(c) /\ Vouched(c)
  BY DEF PlaceInv
<1>2. ASSUME NEW n \in Slots, NEW i \in Inode,
             Shelf[<<NameOf[FileOf[c]], n>>] = {},
             Shelf' = [Shelf EXCEPT ![<<NameOf[FileOf[c]], n>>] = {i}]
      PROVE  DownloadsSpec!Next
  <2>1. <<NameOf[FileOf[c]], n>> \in Names \X Slots
    OBVIOUS
  <2> QED
    BY <1>2, <2>1 DEF DownloadsSpec!Next, DownloadsSpec!Deliver, Shelf
<1>3. ASSUME call[c].slot # {} PROVE \E n \in Slots : call[c].slot = {n}
  <2>1. call[c].slot \in SUBSET Slots /\ AtMostOne(call[c].slot)
    BY DEF Typed, Call
  <2> QED
    BY <1>3, <2>1 DEF AtMostOne
<1>4. CASE Rename(c)
  <2>1. PICK i \in Path(c) : Place(c, i)
    BY <1>4 DEF Rename, Path
  <2>2. call[c].pc = "named" /\ content' = content
    BY <1>4 DEF Rename
  <2>3. PICK n \in Slots : call[c].slot = {n}
    BY <1>1, <1>3, <2>2 DEF Placed
  <2> DEFINE e0 == <<NameOf[FileOf[c]], n>>
  <2>4. downloads[e0] = {} /\ content[i] = Good /\ i \in Inode
    BY <1>1, <2>1, <2>2, <2>3 DEF Placed, Entry, Vouched, Path, Typed
  <2>5. \A e \in Names \X Slots : downloads'[e] = IF e = e0 THEN {i} ELSE downloads[e]
    BY <2>1, <2>3 DEF Place
  <2>6. Shelf[e0] = {}
    BY <2>4 DEF Shelf
  <2>7. Shelf' = [Shelf EXCEPT ![e0] = {i}]
    BY <2>2, <2>4, <2>5 DEF Shelf
  <2> QED
    BY <1>2, <2>4, <2>6, <2>7
<1>5. CASE StartCopy(c)
  <2>1. Place(c, Copy(c)) /\ content' = content /\ call[c].pc = "named"
    BY <1>5 DEF StartCopy, Copy
  <2>2. content[Copy(c)] # Good
    BY <1>1, <2>1, EmptyIsNotGood DEF Copies
  <2>3. ASSUME NEW e \in Names \X Slots
        PROVE  {i \in downloads'[e] : content'[i] = Good} = {i \in downloads[e] : content[i] = Good}
    <3>1. CASE e[1] = NameOf[FileOf[c]] /\ e[2] \in call[c].slot
      <4>1. e = <<NameOf[FileOf[c]], e[2]>>
        BY <3>1
      <4>2. downloads[e] = {} /\ downloads'[e] = {Copy(c)}
        BY <1>1, <2>1, <3>1, <4>1 DEF Placed, Entry, Place
      <4> QED
        BY <2>1, <2>2, <4>2
    <3>2. CASE ~(e[1] = NameOf[FileOf[c]] /\ e[2] \in call[c].slot)
      BY <2>1, <3>2 DEF Place
    <3> QED
      BY <3>1, <3>2
  <2> QED
    BY <2>3 DEF Shelf
<1>6. CASE FinishCopy(c)
  <2>1. call[c].pc = "copying" /\ downloads' = downloads
    BY <1>6 DEF FinishCopy
  <2>2. PICK i \in call[c].fd : content' = [content EXCEPT ![Copy(c)] = content[i]]
    BY <1>6 DEF FinishCopy, Copy
  <2>3. PICK n \in Slots : call[c].slot = {n}
    BY <1>1, <1>3, <2>1 DEF Placed
  <2> DEFINE e0 == <<NameOf[FileOf[c]], n>>
  <2>4. content[Copy(c)] # Good /\ Copy(c) \in Inode /\ content[i] = Good
    BY <1>1, <2>1, <2>2, EmptyIsNotGood, OpenIsPartial DEF Copies, Copy, Inode, Vouched
  <2>5. downloads[e0] = {Copy(c)}
    BY <1>1, <2>1, <2>3 DEF Placed, Entry
  <2>6. \A e \in Names \X Slots : e # e0 => Copy(c) \notin downloads[e]
    BY <1>1, <2>3 DEF Copies
  <2>7. \A j \in Inode : content'[j] = IF j = Copy(c) THEN Good ELSE content[j]
    BY <2>2, <2>4 DEF Typed
  <2>8. Shelf[e0] = {}
    BY <2>4, <2>5 DEF Shelf
  <2>9. ASSUME NEW e \in Names \X Slots
        PROVE  {j \in downloads'[e] : content'[j] = Good}
                 = IF e = e0 THEN {Copy(c)} ELSE {j \in downloads[e] : content[j] = Good}
    <3>1. downloads[e] \in SUBSET Inode
      BY DEF Typed
    <3> QED
      BY <2>1, <2>4, <2>5, <2>6, <2>7, <3>1
  <2>10. Shelf' = [Shelf EXCEPT ![e0] = {Copy(c)}]
    BY <2>9 DEF Shelf
  <2> QED
    BY <1>2, <2>4, <2>8, <2>10
<1>7. CASE ~Rename(c) /\ ~StartCopy(c) /\ ~FinishCopy(c)
  <2>1. downloads' = downloads
    BY <1>7, PlaceEffects
  <2>2. ASSUME NEW e \in Names \X Slots, NEW i \in downloads[e] PROVE content'[i] = content[i]
    <3>1. i \in Inode /\ i \notin Path(c)
      BY <2>2 DEF Typed, PartialInv, Partials, Path
    <3>2. i \notin call[c].fd
      BY <3>1, OpenIsPartial
    <3>3. CASE Truncate(c) \/ Receive(c)
      BY <3>1, <3>2, <3>3 DEF Truncate, Receive
    <3>4. CASE ~Truncate(c) /\ ~Receive(c)
      BY <1>7, <3>1, <3>4 DEF CallStep, Handler, Prepare, Refuse, Decline, EndEarly, Drop, Resolve,
         OpenPart, Seed, EndVerified, EndMismatch, ChooseName, MoveFails
    <3> QED
      BY <3>3, <3>4
  <2> QED
    BY <2>1, <2>2 DEF Shelf
<1> QED
  BY <1>4, <1>5, <1>6, <1>7

\* Complete files appear in the download directory whole, under a free name, and stay: no
\* other call's rename, copy or failure takes one away. Files of one name that end at once
\* are left out: both find the same name free, and the second replaces the first.
THEOREM UploadImplementsDownloads ==
  ASSUME Exclusive, Hashed, NamesApart
  PROVE  Spec => ImplementsDownloads
<1>1. Init => DownloadsSpec!Init
  <2> SUFFICES ASSUME Init PROVE DownloadsSpec!Init
    OBVIOUS
  <2>1. \A e \in Names \X Slots : {i \in downloads[e] : content[i] = Good} = {}
    BY DEF Init
  <2> QED
    BY <2>1 DEF DownloadsSpec!Init
<1>2. Typed /\ PartialInv /\ PlaceInv /\ [Next]_vars => [DownloadsSpec!Next]_Shelf
  <2> SUFFICES ASSUME Typed, PartialInv, PlaceInv, [Next]_vars
               PROVE  DownloadsSpec!Next \/ Shelf' = Shelf
    OBVIOUS
  <2>1. ASSUME NEW c \in Calls, CallStep(c) PROVE DownloadsSpec!Next \/ Shelf' = Shelf
    BY <2>1, DeliverStep
  <2>2. CASE Restart
    BY <2>2 DEF Restart, Shelf
  <2>3. CASE UNCHANGED vars
    BY <2>3 DEF vars, Shelf
  <2> QED
    BY <2>1, <2>2, <2>3 DEF Next, CallStep
<1> QED
  BY <1>1, <1>2, PlaceAlways, PTL DEF Spec, ImplementsDownloads, DownloadsSpec!Spec, Shelf
\* No completed file replaces another: two completed calls have two places in the directory.
THEOREM CompletedKept ==
  ASSUME Exclusive, Hashed, NamesApart
  PROVE  Spec => []CompletedIsKept
<1>1. Init => CompletedIsKept
  BY DEF Init, CompletedIsKept
<1>2. Typed /\ PartialInv /\ PlaceInv /\ CompletedIsKept /\ [Next]_vars => CompletedIsKept'
  <2> SUFFICES ASSUME Typed, PartialInv, PlaceInv, CompletedIsKept, [Next]_vars
               PROVE  CompletedIsKept'
    OBVIOUS
  <2>1. ASSUME NEW c \in Calls, CallStep(c) PROVE CompletedIsKept'
    <3>1. \A d \in Calls : d # c => call'[d] = call[d]
      BY <2>1, OthersUndisturbed
    <3>2. CASE Rename(c) \/ FinishCopy(c)
      <4>1. call'[c].slot = call[c].slot /\ call[c].pc \in {"named", "copying"}
        BY <2>1, <3>2, PlaceEffects DEF Rename, FinishCopy, ChooseName
      <4>2. PICK n \in call[c].slot : \A i \in Entry(c, n) : content[i] # Good
        BY <4>1, EmptyIsNotGood DEF PlaceInv, Placed, Copies
      <4>3. ASSUME NEW d \in Calls, d # c, call[d].pc = "completed",
                   NameOf[FileOf[d]] = NameOf[FileOf[c]]
            PROVE  call[d].slot # call[c].slot
        <5> SUFFICES ASSUME call[d].slot = call[c].slot PROVE FALSE
          OBVIOUS
        <5>1. Entry(d, n) # {} /\ \A i \in Entry(d, n) : content[i] = Good
          BY <4>2, <4>3 DEF PlaceInv, Placed
        <5>2. Entry(d, n) = Entry(c, n)
          BY <4>3 DEF Entry
        <5> QED
          BY <4>2, <5>1, <5>2
      <4> QED
        BY <3>1, <4>1, <4>3 DEF CompletedIsKept
    <3>3. CASE ~Rename(c) /\ ~FinishCopy(c)
      <4>1. call'[c].pc # "completed"
        BY <2>1, <3>3, PlaceEffects
      <4> QED
        BY <3>1, <4>1 DEF CompletedIsKept
    <3> QED
      BY <3>2, <3>3
  <2>2. CASE Restart
    <3>1. \A c \in Calls : /\ call'[c].pc = "completed" => call[c].pc = "completed"
                           /\ call'[c].slot = call[c].slot
      BY <2>2 DEF Restart, Typed, Call
    <3> QED
      BY <3>1 DEF CompletedIsKept
  <2>3. CASE UNCHANGED vars
    BY <2>3 DEF vars, CompletedIsKept
  <2> QED
    BY <2>1, <2>2, <2>3 DEF Next, CallStep
<1> QED
  BY <1>1, <1>2, PlaceAlways, PTL DEF Spec

-----------------------------------------------------------------------------
(* The mirrored notifications: what the queues say of an id.               *)

Notes == [kind : {"note"}, id : Ids, dismissal : BOOLEAN]
Frames == Notes \cup [kind : {"battery"}, level : Levels]
IsNote(e, i) == e.kind = "note" /\ e.id = i

\* The last event of i in q is a post; every event of i is a dismissal; every
\* post of i comes after a dismissal of i.
LastPosts(q, i) ==
  \E n \in DOMAIN q : /\ IsNote(q[n], i) /\ ~q[n].dismissal
                      /\ \A m \in DOMAIN q : m > n => ~IsNote(q[m], i)
OnlyDismisses(q, i) == \A n \in DOMAIN q : IsNote(q[n], i) => q[n].dismissal
DismissedFirst(q, i) ==
  \A n \in DOMAIN q : IsNote(q[n], i) /\ ~q[n].dismissal =>
    \E m \in DOMAIN q : m < n /\ IsNote(q[m], i) /\ q[m].dismissal

Distinct(s) == \A m, n \in DOMAIN s : s[m] = s[n] => m = n

\* An event at the end of a queue ...
LEMMA EventPut ==
  ASSUME NEW q \in Seq(Frames), NEW e \in Frames, NEW i
  PROVE  /\ Append(q, e) \in Seq(Frames)
         /\ Mentions(Append(q, e), i) <=> Mentions(q, i) \/ IsNote(e, i)
         /\ LastPosts(Append(q, e), i) <=>
              IF IsNote(e, i) THEN ~e.dismissal ELSE LastPosts(q, i)
         /\ OnlyDismisses(Append(q, e), i) <=>
              OnlyDismisses(q, i) /\ (IsNote(e, i) => e.dismissal)
         /\ DismissedFirst(q, i) /\ (IsNote(e, i) => e.dismissal \/ Mentions(q, i))
              => DismissedFirst(Append(q, e), i)
<1> DEFINE r == Append(q, e)
           l == Len(q)
<1>1. /\ r \in Seq(Frames) /\ DOMAIN q = 1..l /\ DOMAIN r = 1..(l + 1) /\ l \in Nat
      /\ r[l + 1] = e /\ \A n \in 1..l : r[n] = q[n]
  OBVIOUS
<1> HIDE DEF r, l
<1>2. Mentions(r, i) <=> Mentions(q, i) \/ IsNote(e, i)
  BY <1>1 DEF Mentions, IsNote
<1>3. LastPosts(r, i) <=> IF IsNote(e, i) THEN ~e.dismissal ELSE LastPosts(q, i)
  <2>1. CASE IsNote(e, i)
    BY <1>1, <2>1 DEF LastPosts
  <2>2. CASE ~IsNote(e, i)
    BY <1>1, <2>2 DEF LastPosts
  <2> QED BY <2>1, <2>2
<1>4. OnlyDismisses(r, i) <=> OnlyDismisses(q, i) /\ (IsNote(e, i) => e.dismissal)
  BY <1>1 DEF OnlyDismisses
<1>5. ASSUME DismissedFirst(q, i), IsNote(e, i) => e.dismissal \/ Mentions(q, i)
      PROVE  DismissedFirst(r, i)
  <2> SUFFICES ASSUME NEW n \in 1..(l + 1), IsNote(r[n], i), ~r[n].dismissal
               PROVE  \E m \in 1..(l + 1) : m < n /\ IsNote(r[m], i) /\ r[m].dismissal
    BY <1>1 DEF DismissedFirst
  <2>1. CASE n \in 1..l
    <3>1. PICK m \in 1..l : m < n /\ IsNote(q[m], i) /\ q[m].dismissal
      BY <1>1, <1>5, <2>1 DEF DismissedFirst
    <3> QED BY <1>1, <3>1
  <2>2. CASE n = l + 1
    <3>1. PICK k \in 1..l : IsNote(q[k], i)
      BY <1>1, <1>5, <2>2 DEF Mentions, IsNote
    <3>2. PICK m \in 1..l : IsNote(q[m], i) /\ q[m].dismissal
      BY <1>1, <1>5, <3>1 DEF DismissedFirst
    <3> QED BY <1>1, <2>2, <3>2
  <2> QED BY <1>1, <2>1, <2>2
<1> QED BY <1>1, <1>2, <1>3, <1>4, <1>5 DEF r

\* ... and one taken from its head.
LEMMA EventTaken ==
  ASSUME NEW q \in Seq(Frames), q # <<>>, NEW i
  PROVE  /\ Tail(q) \in Seq(Frames) /\ Head(q) \in Frames
         /\ Mentions(q, i) <=> Mentions(Tail(q), i) \/ IsNote(Head(q), i)
         /\ LastPosts(q, i) <=> IF Mentions(Tail(q), i) THEN LastPosts(Tail(q), i)
                                ELSE IsNote(Head(q), i) /\ ~Head(q).dismissal
         /\ OnlyDismisses(q, i) <=>
              OnlyDismisses(Tail(q), i) /\ (IsNote(Head(q), i) => Head(q).dismissal)
         /\ DismissedFirst(q, i) => IF IsNote(Head(q), i) THEN Head(q).dismissal
                                    ELSE DismissedFirst(Tail(q), i)
<1> DEFINE t == Tail(q)
           h == Head(q)
           l == Len(q)
<1>1. /\ t \in Seq(Frames) /\ h \in Frames /\ l \in Nat \ {0}
      /\ DOMAIN q = 1..l /\ DOMAIN t = 1..(l - 1)
      /\ h = q[1] /\ \A n \in 1..(l - 1) : t[n] = q[n + 1]
  OBVIOUS
<1>2. /\ 1 \in 1..l
      /\ \A n \in 1..l : n = 1 \/ (n - 1 \in 1..(l - 1) /\ q[n] = t[n - 1])
      /\ \A n \in 1..(l - 1) : n + 1 \in 1..l /\ q[n + 1] = t[n]
  BY <1>1
<1> HIDE DEF t, h, l
<1>3. Mentions(q, i) <=> Mentions(t, i) \/ IsNote(h, i)
  <2>1. ASSUME NEW n \in 1..l, IsNote(q[n], i) PROVE Mentions(t, i) \/ IsNote(h, i)
    BY <1>1, <1>2, <2>1 DEF Mentions, IsNote
  <2>2. ASSUME NEW n \in 1..(l - 1), IsNote(t[n], i) PROVE Mentions(q, i)
    <3>1. n + 1 \in 1..l /\ q[n + 1] = t[n]
      BY <1>2
    <3> QED BY <1>1, <2>2, <3>1 DEF Mentions, IsNote
  <2>3. IsNote(h, i) => Mentions(q, i)
    BY <1>1, <1>2 DEF Mentions, IsNote
  <2>4. Mentions(q, i) => \E n \in 1..l : IsNote(q[n], i)
    BY <1>1 DEF Mentions, IsNote
  <2>5. Mentions(t, i) => \E n \in 1..(l - 1) : IsNote(t[n], i)
    BY <1>1 DEF Mentions, IsNote
  <2> QED BY <2>1, <2>2, <2>3, <2>4, <2>5
<1>4. LastPosts(q, i) <=> IF Mentions(t, i) THEN LastPosts(t, i) ELSE IsNote(h, i) /\ ~h.dismissal
  <2>1. ASSUME NEW n \in 1..l, IsNote(q[n], i), ~q[n].dismissal,
               \A m \in 1..l : m > n => ~IsNote(q[m], i)
        PROVE  IF Mentions(t, i) THEN LastPosts(t, i) ELSE IsNote(h, i) /\ ~h.dismissal
    <3>1. CASE n = 1
      <4>1. ASSUME NEW m \in 1..(l - 1) PROVE ~IsNote(t[m], i)
        <5>1. m + 1 \in 1..l /\ m + 1 > n /\ q[m + 1] = t[m]
          BY <1>1, <1>2, <3>1
        <5> QED BY <2>1, <5>1
      <4>2. ~Mentions(t, i)
        BY <1>1, <4>1 DEF Mentions, IsNote
      <4> QED BY <1>1, <2>1, <3>1, <4>2
    <3>2. CASE n # 1
      <4>1. n - 1 \in 1..(l - 1) /\ q[n] = t[n - 1]
        BY <1>2, <3>2
      <4>2. ASSUME NEW m \in 1..(l - 1), m > n - 1 PROVE ~IsNote(t[m], i)
        <5>1. m + 1 \in 1..l /\ m + 1 > n /\ q[m + 1] = t[m]
          BY <1>1, <1>2, <4>2
        <5> QED BY <2>1, <5>1
      <4>3. LastPosts(t, i)
        BY <1>1, <2>1, <4>1, <4>2 DEF LastPosts
      <4> QED BY <4>3, <1>1 DEF LastPosts, Mentions, IsNote
    <3> QED BY <3>1, <3>2
  <2>2. ASSUME NEW n \in 1..(l - 1), IsNote(t[n], i), ~t[n].dismissal,
               \A m \in 1..(l - 1) : m > n => ~IsNote(t[m], i)
        PROVE  LastPosts(q, i)
    <3>1. n + 1 \in 1..l /\ q[n + 1] = t[n]
      BY <1>2
    <3>2. ASSUME NEW m \in 1..l, m > n + 1 PROVE ~IsNote(q[m], i)
      <4>1. m - 1 \in 1..(l - 1) /\ m - 1 > n /\ q[m] = t[m - 1]
        BY <1>1, <1>2, <3>2
      <4> QED BY <2>2, <4>1
    <3> QED BY <1>1, <2>2, <3>1, <3>2 DEF LastPosts
  <2>3. ASSUME ~Mentions(t, i), IsNote(h, i), ~h.dismissal PROVE LastPosts(q, i)
    <3>1. ASSUME NEW m \in 1..l, m > 1 PROVE ~IsNote(q[m], i)
      <4>1. m - 1 \in 1..(l - 1) /\ q[m] = t[m - 1]
        BY <1>1, <1>2, <3>1
      <4> QED BY <1>1, <2>3, <4>1 DEF Mentions, IsNote
    <3> QED BY <1>1, <1>2, <2>3, <3>1 DEF LastPosts
  <2>4. LastPosts(q, i) => \E n \in 1..l : /\ IsNote(q[n], i) /\ ~q[n].dismissal
                                           /\ \A m \in 1..l : m > n => ~IsNote(q[m], i)
    BY <1>1 DEF LastPosts
  <2>5. LastPosts(t, i) => \E n \in 1..(l - 1) : /\ IsNote(t[n], i) /\ ~t[n].dismissal
                                                 /\ \A m \in 1..(l - 1) : m > n => ~IsNote(t[m], i)
    BY <1>1 DEF LastPosts
  <2> QED BY <2>1, <2>2, <2>3, <2>4, <2>5
<1>5. OnlyDismisses(q, i) <=> OnlyDismisses(t, i) /\ (IsNote(h, i) => h.dismissal)
  <2>1. ASSUME OnlyDismisses(q, i) PROVE OnlyDismisses(t, i) /\ (IsNote(h, i) => h.dismissal)
    BY <1>1, <1>2, <2>1 DEF OnlyDismisses
  <2>2. ASSUME OnlyDismisses(t, i), IsNote(h, i) => h.dismissal PROVE OnlyDismisses(q, i)
    BY <1>1, <1>2, <2>2 DEF OnlyDismisses
  <2> QED BY <2>1, <2>2
<1>6. ASSUME DismissedFirst(q, i)
      PROVE  IF IsNote(h, i) THEN h.dismissal ELSE DismissedFirst(t, i)
  <2>1. IsNote(h, i) => h.dismissal
    BY <1>1, <1>6 DEF DismissedFirst
  <2>2. ASSUME ~IsNote(h, i), NEW n \in 1..(l - 1), IsNote(t[n], i), ~t[n].dismissal
        PROVE  \E m \in 1..(l - 1) : m < n /\ IsNote(t[m], i) /\ t[m].dismissal
    <3>0. n + 1 \in 1..l /\ q[n + 1] = t[n]
      BY <1>2
    <3>1. PICK m \in 1..l : m < n + 1 /\ IsNote(q[m], i) /\ q[m].dismissal
      BY <1>1, <1>6, <2>2, <3>0 DEF DismissedFirst
    <3>2. m - 1 \in 1..(l - 1) /\ m - 1 < n /\ q[m] = t[m - 1]
      BY <1>1, <1>2, <2>2, <3>1
    <3> QED BY <3>1, <3>2
  <2> QED BY <1>1, <2>1, <2>2 DEF DismissedFirst
<1> QED BY <1>1, <1>3, <1>4, <1>5, <1>6 DEF t, h

LEMMA EventsOf ==
  ASSUME NEW q, NEW i
  PROVE  /\ LastPosts(q, i) => Mentions(q, i) /\ ~OnlyDismisses(q, i)
         /\ ~Mentions(q, i) => OnlyDismisses(q, i)
         /\ OnlyDismisses(q, i) => DismissedFirst(q, i)
BY DEF LastPosts, Mentions, OnlyDismisses, DismissedFirst, IsNote

LEMMA RemovedAt ==
  ASSUME NEW X, NEW s \in Seq(X), NEW n \in DOMAIN s
  PROVE  /\ RemoveAt(s, n) \in Seq(X) /\ Len(RemoveAt(s, n)) = Len(s) - 1
         /\ \A k \in 1..(Len(s) - 1) : RemoveAt(s, n)[k] = IF k < n THEN s[k] ELSE s[k + 1]
<1>0. n \in 1..Len(s) /\ Len(s) \in Nat
  OBVIOUS
<1> DEFINE a == SubSeq(s, 1, n - 1)
           b == SubSeq(s, n + 1, Len(s))
<1>1. a \in Seq(X) /\ Len(a) = n - 1 /\ \A k \in 1..(n - 1) : a[k] = s[k]
  BY <1>0
<1>2. b \in Seq(X) /\ Len(b) = Len(s) - n /\ \A k \in 1..(Len(s) - n) : b[k] = s[n + k]
  BY <1>0
<1>3. RemoveAt(s, n) = a \o b
  BY DEF RemoveAt
<1> HIDE DEF a, b
<1>4. a \o b \in Seq(X) /\ Len(a \o b) = Len(s) - 1
  BY <1>0, <1>1, <1>2
<1>5. ASSUME NEW k \in 1..(Len(s) - 1) PROVE (a \o b)[k] = IF k < n THEN s[k] ELSE s[k + 1]
  <2>1. CASE k < n
    BY <1>0, <1>1, <1>2, <2>1
  <2>2. CASE ~(k < n)
    <3>1. k - (n - 1) \in 1..(Len(s) - n) /\ (a \o b)[k] = b[k - (n - 1)]
      BY <1>0, <1>1, <1>2, <2>2
    <3> QED BY <1>0, <1>2, <2>2, <3>1
  <2> QED BY <2>1, <2>2
<1> QED BY <1>3, <1>4, <1>5

\* retain and LinkedHashSet.remove: the id is gone, the others stay.
LEMMA IdRemoved ==
  ASSUME NEW s \in Seq(Ids), Distinct(s), NEW i
  PROVE  /\ RemoveFirst(s, i) \in Seq(Ids) /\ Distinct(RemoveFirst(s, i))
         /\ \A j : Contains(RemoveFirst(s, i), j) <=> Contains(s, j) /\ j # i
<1>1. CASE ~Contains(s, i)
  BY <1>1 DEF RemoveFirst, Contains
<1>2. CASE Contains(s, i)
  <2>1. PICK n \in 1..Len(s) : s[n] = i
    BY <1>2 DEF Contains
  <2>2. Len(s) \in Nat /\ DOMAIN s = 1..Len(s)
    OBVIOUS
  <2>3. \A k \in 1..Len(s) : s[k] = i <=> k = n
    BY <2>1, <2>2 DEF Distinct
  <2> DEFINE r == RemoveAt(s, n)
  <2>4. RemoveFirst(s, i) = r
    <3>1. {k \in 1..Len(s) : s[k] = i} = {n}
      BY <2>3
    <3>2. Min({n}) = n
      BY <2>2 DEF Min
    <3> QED BY <2>1, <3>1, <3>2 DEF RemoveFirst, SelectInSeq
  <2>7. /\ r \in Seq(Ids) /\ Len(r) = Len(s) - 1 /\ DOMAIN r = 1..(Len(s) - 1)
        /\ \A k \in 1..(Len(s) - 1) : r[k] = IF k < n THEN s[k] ELSE s[k + 1]
    <3>1. n \in DOMAIN s
      BY <2>2
    <3>2. /\ r \in Seq(Ids) /\ Len(r) = Len(s) - 1
          /\ \A k \in 1..(Len(s) - 1) : r[k] = IF k < n THEN s[k] ELSE s[k + 1]
      BY <3>1, RemovedAt
    <3> HIDE DEF r
    <3> QED BY <3>2
  <2> HIDE DEF r
  <2>8. ASSUME NEW k \in 1..(Len(s) - 1), NEW m \in 1..(Len(s) - 1), r[k] = r[m] PROVE k = m
    <3>1. CASE k < n /\ m < n
      BY <2>2, <2>7, <2>8, <3>1 DEF Distinct
    <3>2. CASE k < n /\ ~(m < n)
      <4>1. k \in 1..Len(s) /\ m + 1 \in 1..Len(s) /\ s[k] = s[m + 1] /\ k # m + 1
        BY <2>2, <2>7, <2>8, <3>2
      <4> QED BY <2>2, <4>1 DEF Distinct
    <3>3. CASE ~(k < n) /\ m < n
      <4>1. k + 1 \in 1..Len(s) /\ m \in 1..Len(s) /\ s[k + 1] = s[m] /\ k + 1 # m
        BY <2>2, <2>7, <2>8, <3>3
      <4> QED BY <2>2, <4>1 DEF Distinct
    <3>4. CASE ~(k < n) /\ ~(m < n)
      <4>1. k + 1 \in 1..Len(s) /\ m + 1 \in 1..Len(s) /\ s[k + 1] = s[m + 1]
        BY <2>2, <2>7, <2>8, <3>4
      <4>2. k + 1 = m + 1
        BY <2>2, <4>1 DEF Distinct
      <4> QED BY <4>2
    <3> QED BY <3>1, <3>2, <3>3, <3>4
  <2>9. ASSUME NEW j, Contains(r, j) PROVE Contains(s, j) /\ j # i
    BY <2>2, <2>3, <2>7, <2>9 DEF Contains
  <2>10. ASSUME NEW j, Contains(s, j), j # i PROVE Contains(r, j)
    <3>1. PICK k \in 1..Len(s) : s[k] = j
      BY <2>10 DEF Contains
    <3>2. CASE k < n
      BY <2>2, <2>7, <3>1, <3>2 DEF Contains
    <3>3. CASE k > n
      <4>1. k - 1 \in 1..(Len(s) - 1) /\ ~(k - 1 < n) /\ r[k - 1] = s[k]
        BY <2>2, <2>7, <3>1, <3>3
      <4> QED BY <2>7, <3>1, <4>1 DEF Contains
    <3> QED BY <2>1, <2>2, <2>10, <3>1, <3>2, <3>3
  <2>11. Distinct(r)
    BY <2>7, <2>8 DEF Distinct
  <2> QED BY <2>4, <2>7, <2>9, <2>10, <2>11
<1> QED BY <1>1, <1>2

\* An id at the end of a list without it.
LEMMA IdAppended ==
  ASSUME NEW s \in Seq(Ids), Distinct(s), NEW i \in Ids, ~Contains(s, i)
  PROVE  /\ Append(s, i) \in Seq(Ids) /\ Distinct(Append(s, i))
         /\ \A j : Contains(Append(s, i), j) <=> Contains(s, j) \/ j = i
<1>1. /\ Append(s, i) \in Seq(Ids) /\ Len(s) \in Nat /\ DOMAIN s = 1..Len(s)
      /\ Len(Append(s, i)) = Len(s) + 1 /\ DOMAIN Append(s, i) = 1..(Len(s) + 1)
      /\ Append(s, i)[Len(s) + 1] = i /\ \A k \in 1..Len(s) : Append(s, i)[k] = s[k]
  OBVIOUS
<1>2. Distinct(Append(s, i))
  BY <1>1 DEF Distinct, Contains
<1>3. \A j : Contains(Append(s, i), j) <=> Contains(s, j) \/ j = i
  BY <1>1 DEF Contains
<1> QED BY <1>1, <1>2, <1>3

\* _remember: what is neither the new id nor evicted stays.
LEMMA IdRemembered ==
  ASSUME NEW s \in Seq(Ids), Distinct(s), NEW i \in Ids
  PROVE  /\ Remember(s, i) \in Seq(Ids) /\ Distinct(Remember(s, i))
         /\ Contains(Remember(s, i), i)
         /\ \A j : Contains(Remember(s, i), j) => Contains(s, j) \/ j = i
         /\ \A j : Contains(s, j) /\ j \notin Evicted(s, i) => Contains(Remember(s, i), j)
<1> DEFINE a == Append(RemoveFirst(s, i), i)
<1>1. /\ a \in Seq(Ids) /\ Distinct(a)
      /\ \A j : Contains(a, j) <=> Contains(s, j) \/ j = i
      /\ a[Len(a)] = i
  <2>1. /\ RemoveFirst(s, i) \in Seq(Ids) /\ Distinct(RemoveFirst(s, i))
        /\ \A j : Contains(RemoveFirst(s, i), j) <=> Contains(s, j) /\ j # i
    BY IdRemoved
  <2>2. /\ a \in Seq(Ids) /\ Distinct(a)
        /\ \A j : Contains(a, j) <=> Contains(RemoveFirst(s, i), j) \/ j = i
    BY <2>1, IdAppended
  <2> QED BY <2>1, <2>2
<1>2. Remember(s, i) = IF Len(a) > MaxForwarded THEN Tail(a) ELSE a
  BY DEF Remember
<1> HIDE DEF a
<1>3. Len(a) \in Nat /\ DOMAIN a = 1..Len(a) /\ Len(a) >= 1
  BY <1>1 DEF Contains
<1>4. CASE Len(a) > MaxForwarded
  <2>1. /\ Len(a) >= 2 /\ Tail(a) \in Seq(Ids) /\ Len(Tail(a)) = Len(a) - 1
        /\ DOMAIN Tail(a) = 1..(Len(a) - 1) /\ \A k \in 1..(Len(a) - 1) : Tail(a)[k] = a[k + 1]
    BY <1>1, <1>3, <1>4, MirrorAssumption
  <2>2. Distinct(Tail(a))
    BY <1>1, <1>3, <2>1 DEF Distinct
  <2>3. Len(a) - 1 \in 1..(Len(a) - 1) /\ Tail(a)[Len(a) - 1] = i
    BY <1>1, <1>3, <2>1
  <2>4. Contains(Tail(a), i)
    BY <2>1, <2>3 DEF Contains
  <2>5. \A j : Contains(Tail(a), j) => Contains(a, j)
    BY <1>3, <2>1 DEF Contains
  <2>6. \A j : Contains(s, j) /\ j \notin Evicted(s, i) => Contains(Remember(s, i), j)
    BY <1>2, <1>4, <2>1 DEF Evicted, ToSet, Contains
  <2> QED BY <1>1, <1>2, <1>4, <2>1, <2>2, <2>4, <2>5, <2>6
<1>5. CASE ~(Len(a) > MaxForwarded)
  BY <1>1, <1>2, <1>5
<1> QED BY <1>4, <1>5

-----------------------------------------------------------------------------
(* SettledAgree: what is on its way accounts for every difference.         *)

MirrorType ==
  /\ tray \subseteq Ids /\ cancels \subseteq Ids /\ ui \subseteq Ids
  /\ access \in BOOLEAN /\ connected \in BOOLEAN
  /\ osq \in Seq(Notes) /\ up \in Seq(Frames) /\ down \in Seq(Ids)
  /\ forwarded \in Seq(Ids) /\ Distinct(forwarded)
  /\ suppress \in Seq(Ids) /\ Distinct(suppress)
  /\ DOMAIN hub = {"list", "battery", "sync"}
  /\ hub.list \in Seq(Ids) /\ Distinct(hub.list)

\* The daemon lists i, or will when the phone's frames have arrived.
Listed(i) == IF Mentions(up, i) THEN LastPosts(up, i) ELSE Contains(hub.list, i)

Mirrored(i) ==
  \* What Android has yet to hand over ends in what the phone shows.
  /\ Mentions(osq, i) => access /\ (LastPosts(osq, i) <=> i \in tray)
  \* Without access nothing of i is listed; with it, and nothing of i to be
  \* handed over, the phone shows what is listed.
  /\ ~access => ~Listed(i)
  /\ access /\ ~Mentions(osq, i) /\ ~Dismissing(i) => (Listed(i) <=> i \in tray)
  \* While i is being dismissed nothing on its way can list it again.
  /\ Dismissing(i) => /\ OnlyDismisses(osq, i) /\ OnlyDismisses(up, i)
                      /\ ~Contains(hub.list, i)
  \* A removal is only swallowed when the daemon has dropped i already.
  /\ Contains(suppress, i) =>
       Dismissing(i) \/ (Mentions(osq, i) /\ DismissedFirst(osq, i) /\ ~Listed(i))
  \* A removal of what is listed is forwarded.
  /\ Listed(i) => Contains(forwarded, i)

MirrorInv == MirrorType /\ \A i \in Ids \ raced : Mirrored(i)

LEMMA NotesAreFrames ==
  /\ \A q \in Seq(Notes) : q \in Seq(Frames)
  /\ \A i \in Ids, d \in BOOLEAN : Note(i, d) \in Notes /\ Note(i, d) \in Frames
  /\ \A i, j, d : /\ IsNote(Note(i, d), j) <=> i = j
                  /\ Note(i, d).dismissal = d /\ Note(i, d).id = i
  /\ \A e \in Notes : e \in Frames /\ e.kind = "note" /\ e.id \in Ids /\ e.dismissal \in BOOLEAN
<1>1. Notes \subseteq Frames
  BY DEF Frames
<1>2. ASSUME NEW q \in Seq(Notes) PROVE q \in Seq(Frames)
  BY <1>1
<1>3. \A i \in Ids, d \in BOOLEAN : Note(i, d) \in Notes
  BY DEF Note, Notes
<1> QED BY <1>1, <1>2, <1>3 DEF Note, Notes, IsNote

LEMMA NotePut ==
  ASSUME NEW q \in Seq(Notes), NEW i \in Ids, NEW d \in BOOLEAN, NEW j
  PROVE  LET r == Append(q, Note(i, d))
         IN /\ r \in Seq(Notes)
            /\ Mentions(r, j) <=> Mentions(q, j) \/ i = j
            /\ LastPosts(r, j) <=> IF i = j THEN ~d ELSE LastPosts(q, j)
            /\ OnlyDismisses(r, j) <=> OnlyDismisses(q, j) /\ (i = j => d)
            /\ DismissedFirst(q, j) /\ (i = j => d \/ Mentions(q, j)) => DismissedFirst(r, j)
<1> DEFINE e == Note(i, d)
<1>1. /\ q \in Seq(Frames) /\ e \in Notes /\ e \in Frames
      /\ (IsNote(e, j) <=> i = j) /\ e.dismissal = d
  BY NotesAreFrames
<1> HIDE DEF e
<1>2. Append(q, e) \in Seq(Notes)
  BY <1>1
<1> QED BY <1>1, <1>2, EventPut DEF e

LEMMA MirrorStarts == MirrorInit => MirrorInv
<1> SUFFICES ASSUME MirrorInit PROVE MirrorInv
  OBVIOUS
<1>1. /\ tray = {} /\ cancels = {} /\ ui = {} /\ access = TRUE /\ connected = TRUE
      /\ osq = <<>> /\ up = <<>> /\ down = <<>> /\ forwarded = <<>> /\ suppress = <<>>
      /\ DOMAIN hub = {"list", "battery", "sync"} /\ hub.list = <<>>
  BY DEF MirrorInit, Showing
<1>2. MirrorType
  BY <1>1 DEF MirrorType, Distinct
<1>3. \A i : ~Mentions(<<>>, i) /\ ~Contains(<<>>, i)
  BY DEF Mentions, Contains
<1>4. ToSet(<<>>) = {}
  BY DEF ToSet
<1> QED BY <1>1, <1>2, <1>3, <1>4 DEF MirrorInv, Mirrored, Listed, Dismissing

\* A step that leaves the notifications alone.
LEMMA MirrorKept ==
  ASSUME MirrorInv, DOMAIN hub' = DOMAIN hub, hub'.list = hub.list,
         UNCHANGED <<tray, osq, cancels, access, connected, forwarded, suppress, up, down, ui, raced>>
  PROVE  MirrorInv'
BY DEF MirrorInv, MirrorType, Mirrored, Listed, Dismissing

LEMMA PostedMirrors ==
  ASSUME MirrorInv, NEW i \in Ids, NotificationPosted(i)
  PROVE  MirrorInv'
<1> DEFINE e == Note(i, FALSE)
<1>1. MirrorType'
  <2>1. /\ osq' \in {osq, Append(osq, e)} /\ tray' = tray \cup {i}
        /\ UNCHANGED <<access, connected, cancels, ui, down, suppress, forwarded, up, hub>>
    BY DEF NotificationPosted, daemon
  <2>2. Append(osq, e) \in Seq(Notes)
    BY NotePut DEF MirrorInv, MirrorType
  <2> HIDE DEF e
  <2> QED BY <2>1, <2>2 DEF MirrorInv, MirrorType
<1>2. ASSUME NEW j \in Ids, j \notin raced' PROVE Mirrored(j)'
  <2>1. j \notin raced /\ Mirrored(j) /\ (j = i => ~Dismissing(i))
    BY <1>2 DEF MirrorInv, NotificationPosted, RacedIf
  <2>2. /\ Mentions(Append(osq, e), j) <=> Mentions(osq, j) \/ i = j
        /\ LastPosts(Append(osq, e), j) <=> IF i = j THEN TRUE ELSE LastPosts(osq, j)
        /\ OnlyDismisses(Append(osq, e), j) <=> OnlyDismisses(osq, j) /\ i # j
        /\ DismissedFirst(osq, j) /\ (i = j => Mentions(osq, j)) => DismissedFirst(Append(osq, e), j)
    BY NotePut DEF MirrorInv, MirrorType
  <2>3. /\ osq' = IF access THEN Append(osq, e) ELSE osq
        /\ tray' = tray \cup {i}
        /\ UNCHANGED <<access, cancels, ui, down, suppress, forwarded, up, hub>>
    BY DEF NotificationPosted, daemon
  <2> HIDE DEF e
  <2> QED BY <2>1, <2>2, <2>3 DEF Mirrored, Listed, Dismissing
<1> QED BY <1>1, <1>2 DEF MirrorInv

LEMMA RemovedMirrors ==
  ASSUME MirrorInv, NEW i \in Ids, NotificationRemoved(i) \/ CancelByNotificationId(i)
  PROVE  MirrorInv'
<1> DEFINE e == Note(i, TRUE)
<1>1. /\ osq' \in {osq, Append(osq, e)} /\ tray' \in {tray, tray \ {i}}
      /\ cancels' \in {cancels, cancels \ {i}}
      /\ UNCHANGED <<access, connected, ui, down, suppress, forwarded, up, hub>>
  BY DEF NotificationRemoved, CancelByNotificationId, daemon
<1>2. MirrorType'
  <2>1. Append(osq, e) \in Seq(Notes)
    BY NotePut DEF MirrorInv, MirrorType
  <2> HIDE DEF e
  <2> QED BY <1>1, <2>1 DEF MirrorInv, MirrorType
<1>3. ASSUME NEW j \in Ids, j \notin raced' PROVE Mirrored(j)'
  <2>1. j \notin raced /\ Mirrored(j)
    BY <1>3 DEF MirrorInv, NotificationRemoved, CancelByNotificationId, RacedIf
  <2>2. /\ Mentions(Append(osq, e), j) <=> Mentions(osq, j) \/ i = j
        /\ LastPosts(Append(osq, e), j) <=> IF i = j THEN FALSE ELSE LastPosts(osq, j)
        /\ OnlyDismisses(Append(osq, e), j) <=> OnlyDismisses(osq, j)
        /\ DismissedFirst(osq, j) => DismissedFirst(Append(osq, e), j)
    BY NotePut DEF MirrorInv, MirrorType
  <2>3. OnlyDismisses(osq, j) => DismissedFirst(osq, j)
    BY EventsOf
  <2>4. OnlyDismisses(up, j) => ~LastPosts(up, j)
    BY EventsOf
  <2>5. CASE j # i
    <3> HIDE DEF e
    <3>1. Dismissing(j)' <=> Dismissing(j)
      BY <1>1, <2>5 DEF Dismissing
    <3>2. (j \in tray)' <=> j \in tray
      BY <1>1, <2>5
    <3>3. Listed(j)' <=> Listed(j)
      BY <1>1 DEF Listed
    <3>4. /\ Mentions(osq', j) <=> Mentions(osq, j)
          /\ LastPosts(osq', j) <=> LastPosts(osq, j)
          /\ OnlyDismisses(osq', j) <=> OnlyDismisses(osq, j)
          /\ DismissedFirst(osq, j) => DismissedFirst(osq', j)
      BY <1>1, <2>2, <2>5
    <3> QED BY <1>1, <2>1, <3>1, <3>2, <3>3, <3>4 DEF Mirrored
  <2>6. CASE j = i
    <3>1. /\ osq' = IF access THEN Append(osq, e) ELSE osq
          /\ j \notin tray'
      BY <1>3, <2>1, <2>6 DEF NotificationRemoved, CancelByNotificationId, RacedIf
    <3>2. Dismissing(j)' => Dismissing(j)
      BY <1>1 DEF Dismissing
    <3>3. ~access => UNCHANGED cancels
      BY <1>3, <2>1, <2>6 DEF NotificationRemoved, CancelByNotificationId, RacedIf
    <3>4. Listed(j)' <=> Listed(j)
      BY <1>1 DEF Listed
    <3>5. Dismissing(j) => ~Listed(j)
      BY <2>1, <2>4 DEF Mirrored, Listed
    <3> HIDE DEF e
    <3>6. CASE access
      BY <1>1, <2>1, <2>2, <2>3, <2>6, <3>1, <3>2, <3>4, <3>5, <3>6 DEF Mirrored
    <3>7. CASE ~access
      <4>1. Dismissing(j)' <=> Dismissing(j)
        BY <1>1, <3>3, <3>7 DEF Dismissing
      <4> QED BY <1>1, <2>1, <3>1, <3>4, <3>7, <4>1 DEF Mirrored
    <3> QED BY <3>6, <3>7 DEF MirrorInv, MirrorType
  <2> QED BY <2>5, <2>6
<1> QED BY <1>2, <1>3 DEF MirrorInv

LEMMA AccessMirrors ==
  ASSUME MirrorInv, SetAccess
  PROVE  MirrorInv'
<1>1. /\ access' = ~access
      /\ forwarded' = (IF access THEN <<>> ELSE forwarded)
      /\ suppress' = (IF access THEN <<>> ELSE suppress)
      /\ UNCHANGED <<tray, osq, cancels, connected, up, down, hub, ui>>
  BY DEF SetAccess, daemon
<1>2. MirrorType'
  BY <1>1 DEF MirrorInv, MirrorType, Distinct
<1>3. ASSUME NEW j \in Ids, j \notin raced' PROVE Mirrored(j)'
  <2>1. j \notin raced /\ Mirrored(j) /\ j \notin tray /\ ~Mentions(osq, j)
    BY <1>3 DEF MirrorInv, SetAccess
  <2>2. ~Contains(<<>>, j)
    BY DEF Contains
  <2>3. OnlyDismisses(up, j) => ~LastPosts(up, j)
    BY EventsOf
  <2>4. ~Listed(j)
    BY <2>1, <2>3 DEF Mirrored, Listed, MirrorInv, MirrorType
  <2>5. ~Listed(j)' /\ (Dismissing(j)' <=> Dismissing(j))
    BY <1>1, <2>4 DEF Listed, Dismissing
  <2> QED BY <1>1, <2>1, <2>2, <2>5 DEF Mirrored
<1> QED BY <1>2, <1>3 DEF MirrorInv

LEMMA HandledMirrors ==
  ASSUME MirrorInv, OnEvent
  PROVE  MirrorInv'
<1> DEFINE e == Head(osq)
           i == e.id
<1>1. /\ osq # <<>> /\ osq' = Tail(osq)
      /\ UNCHANGED <<tray, cancels, access, connected, down, hub, ui>>
  BY DEF OnEvent, daemon
<1>2. /\ e \in Notes /\ e \in Frames /\ i \in Ids /\ e.kind = "note" /\ e.dismissal \in BOOLEAN
      /\ osq' \in Seq(Notes) /\ osq \in Seq(Frames) /\ up \in Seq(Frames)
      /\ forwarded \in Seq(Ids) /\ Distinct(forwarded)
      /\ suppress \in Seq(Ids) /\ Distinct(suppress)
  <2>1. e \in Notes /\ osq' \in Seq(Notes)
    BY <1>1 DEF MirrorInv, MirrorType
  <2> QED BY <2>1, NotesAreFrames DEF MirrorInv, MirrorType
<1>3. \A j : /\ Mentions(osq, j) <=> Mentions(osq', j) \/ i = j
             /\ LastPosts(osq, j) <=> IF Mentions(osq', j) THEN LastPosts(osq', j)
                                      ELSE i = j /\ ~e.dismissal
             /\ OnlyDismisses(osq, j) <=> OnlyDismisses(osq', j) /\ (i = j => e.dismissal)
             /\ DismissedFirst(osq, j) => IF i = j THEN e.dismissal ELSE DismissedFirst(osq', j)
  BY <1>1, <1>2, EventTaken DEF IsNote
<1>4. \A j : /\ Append(up, e) \in Seq(Frames)
             /\ Mentions(Append(up, e), j) <=> Mentions(up, j) \/ i = j
             /\ LastPosts(Append(up, e), j) <=> IF i = j THEN ~e.dismissal ELSE LastPosts(up, j)
             /\ OnlyDismisses(Append(up, e), j) <=> OnlyDismisses(up, j) /\ (i = j => e.dismissal)
  BY <1>2, EventPut DEF IsNote
<1>5. \A j : /\ Dismissing(j)' <=> Dismissing(j)
             /\ OnlyDismisses(up, j) => ~LastPosts(up, j)
  BY <1>1, EventsOf DEF Dismissing
<1>6. /\ Forget(forwarded, i) \in Seq(Ids) /\ Distinct(Forget(forwarded, i))
      /\ \A j : Contains(Forget(forwarded, i), j) <=> Contains(forwarded, j) /\ j # i
      /\ SuppressConsumed(i) \in Seq(Ids) /\ Distinct(SuppressConsumed(i))
      /\ \A j : Contains(SuppressConsumed(i), j) <=> Contains(suppress, j) /\ j # i
  BY <1>2, IdRemoved DEF Forget, SuppressConsumed
<1>7. /\ Remember(forwarded, i) \in Seq(Ids) /\ Distinct(Remember(forwarded, i))
      /\ Contains(Remember(forwarded, i), i)
      /\ \A j : Contains(forwarded, j) /\ j \notin Evicted(forwarded, i)
                  => Contains(Remember(forwarded, i), j)
  BY <1>2, IdRemembered
<1>8. \/ /\ ~connected /\ raced' = raced \cup {i}
         /\ UNCHANGED <<forwarded, suppress, up>>
      \/ /\ connected /\ e.dismissal
         /\ IF Contains(suppress, i)
            THEN suppress' = SuppressConsumed(i) /\ up' = up
            ELSE /\ up' = (IF Contains(forwarded, i) THEN Append(up, e) ELSE up)
                 /\ suppress' = suppress
         /\ forwarded' = Forget(forwarded, i) /\ raced' = raced
      \/ /\ connected /\ ~e.dismissal
         /\ forwarded' = Remember(forwarded, i)
         /\ raced' = raced \cup Evicted(forwarded, i)
         /\ up' = Append(up, e) /\ suppress' = suppress
  BY DEF OnEvent
<1> HIDE DEF e, i
<1>9. MirrorType'
  BY <1>1, <1>2, <1>4, <1>6, <1>7, <1>8 DEF MirrorInv, MirrorType
<1>10. ASSUME NEW j \in Ids, j \notin raced' PROVE Mirrored(j)'
  <2>1. j \notin raced /\ Mirrored(j)
    BY <1>8, <1>10 DEF MirrorInv
  <2>2. CASE ~connected
    <3>1. j # i /\ UNCHANGED <<forwarded, suppress, up>>
      BY <1>8, <1>10, <2>2
    <3> QED BY <1>1, <1>3, <1>5, <2>1, <3>1 DEF Mirrored, Listed
  <2>3. CASE connected /\ e.dismissal /\ Contains(suppress, i)
    <3>1. suppress' = SuppressConsumed(i) /\ up' = up /\ forwarded' = Forget(forwarded, i)
      BY <1>8, <2>3
    <3>2. Listed(j)' <=> Listed(j)
      BY <1>1, <3>1 DEF Listed
    <3>3. j = i => ~Listed(j)
      BY <1>5, <2>1, <2>3 DEF Mirrored, Listed
    <3> QED BY <1>1, <1>3, <1>5, <1>6, <2>1, <2>3, <3>1, <3>2, <3>3 DEF Mirrored
  <2>4. CASE connected /\ e.dismissal /\ ~Contains(suppress, i)
    <3>1. /\ up' = (IF Contains(forwarded, i) THEN Append(up, e) ELSE up)
          /\ suppress' = suppress /\ forwarded' = Forget(forwarded, i)
      BY <1>8, <2>4
    <3>2. j # i => (Listed(j)' <=> Listed(j))
      BY <1>1, <1>4, <3>1 DEF Listed
    <3>3. j = i => ~Listed(j)'
      BY <1>1, <1>4, <2>1, <2>4, <3>1 DEF Mirrored, Listed
    <3>4. OnlyDismisses(up', j) <=> OnlyDismisses(up, j)
      BY <1>4, <2>4, <3>1
    <3> QED BY <1>1, <1>3, <1>5, <1>6, <2>1, <2>4, <3>1, <3>2, <3>3, <3>4 DEF Mirrored
  <2>5. CASE connected /\ ~e.dismissal
    <3>1. /\ forwarded' = Remember(forwarded, i) /\ up' = Append(up, e) /\ suppress' = suppress
          /\ j \notin Evicted(forwarded, i)
      BY <1>8, <1>10, <2>5
    <3>2. Listed(j)' <=> (i = j \/ Listed(j))
      BY <1>1, <1>4, <2>5, <3>1 DEF Listed
    <3>3. j = i => ~Dismissing(j) /\ ~Contains(suppress, j)
      BY <1>3, <2>1, <2>5 DEF Mirrored
    <3> QED BY <1>1, <1>3, <1>4, <1>5, <1>7, <2>1, <2>5, <3>1, <3>2, <3>3 DEF Mirrored
  <2> QED BY <1>2, <2>2, <2>3, <2>4, <2>5 DEF MirrorInv, MirrorType
<1> QED BY <1>9, <1>10 DEF MirrorInv

\* What is on its way down.
LEMMA DownTaken ==
  ASSUME NEW q \in Seq(Ids), q # <<>>
  PROVE  /\ Head(q) \in Ids /\ Tail(q) \in Seq(Ids)
         /\ ToSet(q) = {Head(q)} \cup ToSet(Tail(q))
<1>1. /\ Len(q) \in Nat \ {0} /\ DOMAIN q = 1..Len(q) /\ DOMAIN Tail(q) = 1..(Len(q) - 1)
      /\ Head(q) = q[1] /\ \A n \in 1..(Len(q) - 1) : Tail(q)[n] = q[n + 1]
  OBVIOUS
<1>2. \A n \in 1..Len(q) : n = 1 \/ (n - 1 \in 1..(Len(q) - 1) /\ q[n] = Tail(q)[n - 1])
  BY <1>1
<1>3. Head(q) \in Ids /\ Tail(q) \in Seq(Ids)
  OBVIOUS
<1>4. ASSUME NEW n \in 1..Len(q) PROVE q[n] \in {Head(q)} \cup ToSet(Tail(q))
  BY <1>1, <1>2 DEF ToSet
<1>5. ASSUME NEW n \in 1..(Len(q) - 1) PROVE Tail(q)[n] \in ToSet(q)
  <2>1. n + 1 \in 1..Len(q) /\ Tail(q)[n] = q[n + 1]
    BY <1>1
  <2> QED BY <1>1, <2>1 DEF ToSet
<1>6. Head(q) \in ToSet(q)
  <2>1. 1 \in DOMAIN q
    BY <1>1
  <2> QED BY <1>1, <2>1 DEF ToSet
<1>7. ToSet(q) \subseteq {Head(q)} \cup ToSet(Tail(q))
  BY <1>1, <1>4 DEF ToSet
<1>8. ToSet(Tail(q)) \subseteq ToSet(q)
  BY <1>1, <1>5 DEF ToSet
<1> QED BY <1>3, <1>6, <1>7, <1>8

LEMMA DownPut ==
  ASSUME NEW q \in Seq(Ids), NEW i \in Ids
  PROVE  Append(q, i) \in Seq(Ids) /\ ToSet(Append(q, i)) = ToSet(q) \cup {i}
<1>1. /\ Len(q) \in Nat /\ DOMAIN q = 1..Len(q) /\ DOMAIN Append(q, i) = 1..(Len(q) + 1)
      /\ Append(q, i)[Len(q) + 1] = i /\ \A n \in 1..Len(q) : Append(q, i)[n] = q[n]
  OBVIOUS
<1> QED BY <1>1 DEF ToSet

LEMMA InboundMirrors ==
  ASSUME MirrorInv, HandleInbound
  PROVE  MirrorInv'
<1> DEFINE i == Head(down)
<1>1. /\ down # <<>> /\ down' = Tail(down)
      /\ suppress' = Remember(suppress, i) /\ cancels' = cancels \cup {i}
      /\ UNCHANGED <<tray, osq, access, connected, forwarded, up, hub, ui, raced>>
  BY DEF HandleInbound, daemon
<1>2. i \in Ids /\ down' \in Seq(Ids) /\ ToSet(down) = {i} \cup ToSet(down')
  BY <1>1, DownTaken DEF MirrorInv, MirrorType
<1> HIDE DEF i
<1>3. /\ suppress' \in Seq(Ids) /\ Distinct(suppress')
      /\ \A j : Contains(suppress', j) => Contains(suppress, j) \/ j = i
  BY <1>1, <1>2, IdRemembered DEF MirrorInv, MirrorType
<1>4. MirrorType'
  BY <1>1, <1>2, <1>3 DEF MirrorInv, MirrorType
<1>5. ASSUME NEW j PROVE (Dismissing(j)' <=> Dismissing(j)) /\ Dismissing(i)
  BY <1>1, <1>2 DEF Dismissing
<1>6. ASSUME NEW j PROVE Listed(j)' <=> Listed(j)
  BY <1>1 DEF Listed
<1>7. ASSUME NEW j \in Ids, j \notin raced' PROVE Mirrored(j)'
  BY <1>1, <1>3, <1>5, <1>6, <1>7 DEF MirrorInv, Mirrored
<1> QED BY <1>4, <1>7 DEF MirrorInv

LEMMA BatterySentMirrors ==
  ASSUME MirrorInv, NEW l \in Levels, BatterySend(l)
  PROVE  MirrorInv'
<1> DEFINE e == Charge(l)
<1>1. /\ up' \in {up, Append(up, e)}
      /\ UNCHANGED <<tray, osq, cancels, access, connected, forwarded, suppress, down, hub, ui, raced>>
  BY DEF BatterySend, daemon
<1>2. e \in Frames /\ e.kind = "battery"
  BY DEF Charge, Frames
<1>3. \A j : /\ Append(up, e) \in Seq(Frames)
             /\ Mentions(Append(up, e), j) <=> Mentions(up, j)
             /\ LastPosts(Append(up, e), j) <=> LastPosts(up, j)
             /\ OnlyDismisses(Append(up, e), j) <=> OnlyDismisses(up, j)
  BY <1>2, EventPut DEF MirrorInv, MirrorType, IsNote
<1> HIDE DEF e
<1>4. MirrorType'
  BY <1>1, <1>3 DEF MirrorInv, MirrorType
<1> QED BY <1>1, <1>3, <1>4 DEF MirrorInv, Mirrored, Listed, Dismissing

LEMMA SessionMirrors ==
  ASSUME MirrorInv, Disconnect \/ Reconnect
  PROVE  MirrorInv'
<1>1. CASE Reconnect
  <2>1. /\ connected' = TRUE
        /\ UNCHANGED <<tray, osq, cancels, access, forwarded, suppress, up, down, hub, ui, raced>>
    BY <1>1 DEF Reconnect, phone, daemon
  <2> QED BY <2>1 DEF MirrorInv, MirrorType, Mirrored, Listed, Dismissing
<1>2. CASE Disconnect
  <2>1. /\ connected' = FALSE /\ up' = <<>> /\ down' = <<>>
        /\ UNCHANGED <<tray, osq, cancels, access, forwarded, suppress, hub, ui>>
    BY <1>2 DEF Disconnect, phone, daemon
  <2>2. MirrorType'
    <3>1. <<>> \in Seq(Frames) /\ <<>> \in Seq(Ids) /\ MirrorType
      BY DEF MirrorInv
    <3> HIDE DEF Frames
    <3> QED BY <2>1, <3>1 DEF MirrorType
  <2>3. ASSUME NEW j \in Ids, j \notin raced' PROVE Mirrored(j)'
    <3>1. j \notin raced /\ Mirrored(j) /\ j \notin ToSet(down) /\ ~Mentions(up, j)
      BY <1>2, <2>3 DEF MirrorInv, Disconnect
    <3>2. ~Mentions(<<>>, j) /\ ToSet(<<>>) = {} /\ OnlyDismisses(<<>>, j)
      BY DEF Mentions, ToSet, OnlyDismisses
    <3> QED BY <2>1, <3>1, <3>2 DEF Mirrored, Listed, Dismissing
  <2> QED BY <2>2, <2>3 DEF MirrorInv
<1> QED BY <1>1, <1>2

\* The daemon's list after an event.
LEMMA IdApplied ==
  ASSUME NEW s \in Seq(Ids), Distinct(s), NEW e \in Notes
  PROVE  /\ Applied(s, e) \in Seq(Ids) /\ Distinct(Applied(s, e))
         /\ \A j : Contains(Applied(s, e), j) <=>
              IF e.id = j THEN ~e.dismissal ELSE Contains(s, j)
<1>1. e.id \in Ids /\ e.dismissal \in BOOLEAN
  BY DEF Notes
<1> DEFINE w == Without(s, e.id)
<1>2. w \in Seq(Ids) /\ Distinct(w) /\ \A j : Contains(w, j) <=> Contains(s, j) /\ j # e.id
  BY <1>1, IdRemoved DEF Without
<1> HIDE DEF w
<1>3. /\ Append(w, e.id) \in Seq(Ids) /\ Distinct(Append(w, e.id))
      /\ \A j : Contains(Append(w, e.id), j) <=> Contains(w, j) \/ j = e.id
  BY <1>1, <1>2, IdAppended
<1>4. Applied(s, e) = IF e.dismissal THEN w ELSE Append(w, e.id)
  BY DEF Applied, w
<1> QED BY <1>1, <1>2, <1>3, <1>4

LEMMA ArrivedMirrors ==
  ASSUME MirrorInv, UpdateBattery \/ ApplyNotification
  PROVE  MirrorInv'
<1> DEFINE e == Head(up)
<1>1. /\ up # <<>> /\ up' = Tail(up)
      /\ UNCHANGED <<tray, osq, cancels, access, connected, forwarded, suppress, down, ui, raced>>
  BY DEF UpdateBattery, ApplyNotification, Arrives, phone
<1>2. /\ DOMAIN hub = {"list", "battery", "sync"} /\ up \in Seq(Frames)
      /\ hub.list \in Seq(Ids) /\ Distinct(hub.list)
  BY DEF MirrorInv, MirrorType
<1>3. /\ e \in Frames /\ up' \in Seq(Frames)
      /\ \A j : /\ Mentions(up, j) <=> Mentions(up', j) \/ IsNote(e, j)
                /\ LastPosts(up, j) <=> IF Mentions(up', j) THEN LastPosts(up', j)
                                        ELSE IsNote(e, j) /\ ~e.dismissal
                /\ OnlyDismisses(up, j) <=> OnlyDismisses(up', j) /\ (IsNote(e, j) => e.dismissal)
  BY <1>1, <1>2, EventTaken
<1>4. \/ /\ e.kind = "battery" /\ DOMAIN hub' = DOMAIN hub /\ hub'.list = hub.list
      \/ /\ e \in Notes /\ e.kind = "note" /\ DOMAIN hub' = DOMAIN hub
         /\ hub'.list = Applied(hub.list, e)
  <2>1. CASE UpdateBattery
    BY <1>2, <2>1 DEF UpdateBattery, Arrives
  <2>2. CASE ApplyNotification
    <3>1. e.kind = "note" /\ hub' = [hub EXCEPT !.list = Applied(@, e)]
      BY <2>2 DEF ApplyNotification, Arrives
    <3>2. e \in Notes
      BY <1>3, <3>1 DEF Frames
    <3> QED BY <1>2, <3>1, <3>2
  <2> QED BY <2>1, <2>2
<1> HIDE DEF e
<1>5. ASSUME NEW j PROVE Dismissing(j)' <=> Dismissing(j)
  BY <1>1 DEF Dismissing
<1>6. CASE e.kind = "battery"
  <2>1. /\ DOMAIN hub' = DOMAIN hub /\ hub'.list = hub.list
        /\ \A j : ~IsNote(e, j)
    BY <1>4, <1>6 DEF IsNote
  <2>2. MirrorType'
    BY <1>1, <1>3, <2>1 DEF MirrorInv, MirrorType
  <2>3. \A j : Listed(j)' <=> Listed(j)
    BY <1>3, <2>1 DEF Listed
  <2> QED BY <1>1, <1>3, <1>5, <2>1, <2>2, <2>3 DEF MirrorInv, Mirrored
<1>7. CASE e.kind = "note"
  <2>1. /\ e \in Notes /\ DOMAIN hub' = DOMAIN hub /\ hub'.list = Applied(hub.list, e)
        /\ \A j : IsNote(e, j) <=> e.id = j
    BY <1>4, <1>7 DEF IsNote
  <2>2. /\ hub'.list \in Seq(Ids) /\ Distinct(hub'.list)
        /\ \A j : Contains(hub'.list, j) <=> IF e.id = j THEN ~e.dismissal ELSE Contains(hub.list, j)
    BY <1>2, <2>1, IdApplied
  <2>3. MirrorType'
    BY <1>1, <1>3, <2>1, <2>2 DEF MirrorInv, MirrorType
  <2>4. \A j : Listed(j)' <=> Listed(j)
    BY <1>3, <2>1, <2>2 DEF Listed
  <2> QED BY <1>1, <1>3, <1>5, <2>1, <2>2, <2>3, <2>4 DEF MirrorInv, Mirrored
<1> QED BY <1>4, <1>6, <1>7

LEMMA DismissedMirrors ==
  ASSUME MirrorInv, NEW i \in Ids, DismissNotification(i)
  PROVE  MirrorInv'
<1> DEFINE e == Note(i, TRUE)
<1>1. /\ hub' = [hub EXCEPT !.list = Applied(@, e)] /\ ui' = ui \cup {i}
      /\ UNCHANGED <<tray, osq, cancels, access, connected, forwarded, suppress, up, down>>
  BY DEF DismissNotification, phone
<1>2. e \in Notes /\ e.dismissal /\ e.id = i
  BY NotesAreFrames
<1> HIDE DEF e
<1>3. /\ DOMAIN hub' = DOMAIN hub /\ hub'.list \in Seq(Ids) /\ Distinct(hub'.list)
      /\ \A j : Contains(hub'.list, j) <=> Contains(hub.list, j) /\ j # i
  <2>1. DOMAIN hub' = DOMAIN hub /\ hub'.list = Applied(hub.list, e)
    BY <1>1 DEF MirrorInv, MirrorType
  <2> QED BY <1>2, <2>1, IdApplied DEF MirrorInv, MirrorType
<1>4. MirrorType'
  BY <1>1, <1>3 DEF MirrorInv, MirrorType
<1>5. ASSUME NEW j \in Ids, j \notin raced' PROVE Mirrored(j)'
  <2>1. j \notin raced /\ Mirrored(j) /\ (j = i => ~Mentions(osq, j) /\ ~Mentions(up, j))
    BY <1>5 DEF MirrorInv, DismissNotification, RacedIf
  <2>2. /\ Dismissing(j)' <=> j = i \/ Dismissing(j)
        /\ Listed(j)' <=> j # i /\ Listed(j)
    BY <1>1, <1>3, <2>1 DEF Dismissing, Listed
  <2>3. ~Mentions(osq, j) => OnlyDismisses(osq, j)
    BY EventsOf
  <2>4. ~Mentions(up, j) => OnlyDismisses(up, j)
    BY EventsOf
  <2> QED BY <1>1, <1>3, <2>1, <2>2, <2>3, <2>4 DEF Mirrored
<1> QED BY <1>4, <1>5 DEF MirrorInv

LEMMA BroadcastMirrors ==
  ASSUME MirrorInv, NEW i \in Ids, BroadcastDismissal(i)
  PROVE  MirrorInv'
<1>1. /\ i \in ui /\ ui' = ui \ {i}
      /\ down' = (IF connected THEN Append(down, i) ELSE down)
      /\ UNCHANGED <<tray, osq, cancels, access, connected, forwarded, suppress, up, hub>>
  BY DEF BroadcastDismissal, phone
<1>2. Append(down, i) \in Seq(Ids) /\ ToSet(Append(down, i)) = ToSet(down) \cup {i}
  BY DownPut DEF MirrorInv, MirrorType
<1>3. MirrorType'
  BY <1>1, <1>2 DEF MirrorInv, MirrorType
<1>4. ASSUME NEW j \in Ids, j \notin raced' PROVE Mirrored(j)'
  <2>1. j \notin raced /\ Mirrored(j) /\ (j = i => connected)
    BY <1>4 DEF MirrorInv, BroadcastDismissal, RacedIf
  <2>2. Dismissing(j)' <=> Dismissing(j)
    BY <1>1, <1>2, <2>1 DEF Dismissing
  <2>3. Listed(j)' <=> Listed(j)
    BY <1>1 DEF Listed
  <2> QED BY <1>1, <2>1, <2>2, <2>3 DEF Mirrored
<1> QED BY <1>3, <1>4 DEF MirrorInv

\* Everything else leaves the notifications alone.
LEMMA RestKeeps ==
  ASSUME MirrorInv,
         \/ \E l \in Levels : BatteryChanges(l)
         \/ BatteryRead \/ PanelEvent
         \/ \E r \in Refreshes : GetLocalState(r) \/ Refresh(r)
         \/ \E c \in Switches : \/ TrayClick(c) \/ SetClipboardSync(c) \/ SyncAnswer(c)
                                 \/ SyncFails(c) \/ Corrected(c)
         \/ WindowClick \/ LanguageChanges \/ UpdateTray
         \/ UNCHANGED mirrorVars
  PROVE  MirrorInv'
<1>1. UNCHANGED <<tray, osq, cancels, access, connected, forwarded, suppress, up, down, ui, raced>>
  BY DEF BatteryChanges, BatteryRead, PanelEvent, GetLocalState, Refresh, TrayClick, SetClipboardSync,
         SyncAnswer, SyncFails, Corrected, WindowClick, LanguageChanges, UpdateTray, still, phone, daemon,
         mirrorVars
<1>2. DOMAIN hub' = DOMAIN hub /\ hub'.list = hub.list
  <2>1. CASE \E c \in Switches : SetClipboardSync(c)
    BY <2>1 DEF SetClipboardSync, MirrorInv, MirrorType
  <2>2. CASE ~\E c \in Switches : SetClipboardSync(c)
    <3>1. hub' = hub
      BY <2>2 DEF BatteryChanges, BatteryRead, PanelEvent, GetLocalState, Refresh, TrayClick,
                  SyncAnswer, SyncFails, Corrected, WindowClick, LanguageChanges, UpdateTray, daemon, mirrorVars
    <3> QED BY <3>1
  <2> QED BY <2>1, <2>2
<1> QED BY <1>1, <1>2, MirrorKept

\* Once nothing is on its way, the daemon lists exactly what the phone shows
\* (SettledAgree), for every number of ids, events, sessions and grants, and
\* every bound on what the phone remembers.
THEOREM NotificationsAgree == MirrorSpec => []SettledAgree
<1>1. MirrorInit => MirrorInv
  BY MirrorStarts
<1>2. MirrorInv /\ [MirrorNext]_mirrorVars => MirrorInv'
  BY PostedMirrors, RemovedMirrors, AccessMirrors, HandledMirrors, InboundMirrors, BatterySentMirrors,
     SessionMirrors, ArrivedMirrors, DismissedMirrors, BroadcastMirrors, RestKeeps DEF MirrorNext
<1>3. MirrorInv => SettledAgree
  <2> SUFFICES ASSUME MirrorInv, Quiet, NEW i \in Ids \ raced
               PROVE  i \in tray <=> Contains(hub.list, i)
    BY DEF SettledAgree
  <2>1. ~Mentions(<<>>, i) /\ ToSet(<<>>) = {}
    BY DEF Mentions, ToSet
  <2>2. Mirrored(i) /\ ~Mentions(osq, i) /\ ~Mentions(up, i) /\ ~Dismissing(i) /\ access
    BY <2>1 DEF MirrorInv, Quiet, Dismissing
  <2> QED BY <2>2 DEF Mirrored, Listed
<1> QED BY <1>1, <1>2, <1>3, PTL DEF MirrorSpec
=============================================================================
