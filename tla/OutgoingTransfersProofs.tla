---------------------- MODULE OutgoingTransfersProofs ----------------------
(***************************************************************************)
(* Proofs about the files the desktop sends: the table of cancel handles   *)
(* is that of the running sends, and the rows the user reads say what      *)
(* happened, for any number of sends, files, chunks, buffered events and   *)
(* rows, under every behaviour of the bridge below.                        *)
(***************************************************************************)
EXTENDS OutgoingTransfers, CollectionTheorems, SequenceTheorems

Terminals == {"completed", "canceled", "failed"}
Events == {"progress"} \cup Terminals
Verified == {"whole", "corrupt", "short"}

SendRecord ==
  [pc : {"idle", "dial", "prepare", "upload", "finish", "drain", "ended"},
   file : Files \cup {None}, daemon : Procs \cup {None},
   permit : BOOLEAN, flag : BOOLEAN,
   feeder : {"none", "reading", "reporting", "done"},
   sent : 0..Chunks, got : 0..Chunks,
   answer : {None, "refused", "broken"} \cup Verified,
   chan : Seq(Events), last : Events \cup {None}]

Row == [send : Sends, status : Terminals]

TypeOK ==
  /\ client \in Procs \cup {None}
  /\ send \in [Sends -> SendRecord]
  /\ IsMap(transfers, Files, Sends)
  /\ IsMap(rows, Files, Events)
  /\ history \in Seq(Row)

\* Nothing but progress was reported so far.
Quiet(r) ==
  /\ r.last \in {None, "progress"}
  /\ \A n \in 1..Len(r.chan) : r.chan[n] = "progress"

\* The event that will be shown last: the newest one on its way to the panel.
Latest(r) == IF r.chan = <<>> THEN r.last ELSE r.chan[Len(r.chan)]
Told(r) ==
  /\ Latest(r) \in Terminals
  /\ Latest(r) = "completed" <=> r.answer = "whole"
  /\ Latest(r) = "canceled" => r.permit

\* What the locals of a call say of each other.
Coherent(r) ==
  /\ r.flag => r.permit
  /\ IF r.pc = "idle" THEN r.file = None ELSE r.file \in Files
  /\ r.pc \in {"idle", "dial", "prepare", "ended"} =>
       r.chan = <<>> /\ r.last = None /\ r.feeder = "none"
  /\ r.pc \in {"idle", "dial", "prepare"} => r.answer = None
  /\ r.pc = "upload" => r.answer \in {None} \cup Verified /\ Quiet(r)
  /\ r.pc \in {"finish", "drain"} =>
       \/ r.answer \in {"refused", "broken"} /\ Quiet(r)
       \/ r.answer \in Verified /\ Told(r)
  /\ r.answer \in Verified => r.pc = "ended" \/ r.feeder = "done"

\* The only call that ever sent its file.
Alone(s) == \A t \in Sends \ {s} : send[t].file # send[s].file

\* The panel shows the last event of a file only one call sent.
Shown(s) ==
  send[s].last # None /\ Alone(s) =>
    /\ send[s].file \in DOMAIN rows
    /\ rows[send[s].file] = send[s].last

TrueRow(row) ==
  /\ send[row.send].pc = "ended"
  /\ row.status = "completed" <=> send[row.send].answer = "whole"
  /\ row.status = "canceled" => send[row.send].permit
  /\ send[row.send].answer \notin {"refused", "broken"} /\ Alone(row.send) =>
       /\ send[row.send].file \in DOMAIN rows
       /\ rows[send[row.send].file] = row.status

SendsCohere == \A s \in Sends : Coherent(send[s])
RowsShown == \A s \in Sends : Shown(s)
RowsTrue == \A n \in DOMAIN history : TrueRow(history[n])

HistoryInv == TypeOK /\ SendsCohere /\ RowsShown /\ RowsTrue
-----------------------------------------------------------------------------
(* One step of one call. *)

\* Sends that had different files keep them apart.
LEMMA AloneKept ==
  ASSUME send \in [Sends -> SendRecord], NEW s \in Sends, NEW r,
         send' = [send EXCEPT ![s] = r], r.file = send[s].file
  PROVE  \A t \in Sends : Alone(t)' <=> Alone(t)
<1>1. \A t \in Sends : send'[t].file = send[t].file
  OBVIOUS
<1>2. QED
  BY <1>1 DEF Alone

\* From c to r, a call stays in its file, and what it already told stays told.
Continues(c, r) ==
  /\ r \in SendRecord /\ Coherent(r)
  /\ r.file = c.file /\ r.last = c.last
  /\ c.permit => r.permit
  /\ c.pc = "ended" => r.pc = "ended" /\ r.answer = c.answer
OnlySend(s, r) == send' = [send EXCEPT ![s] = r] /\ UNCHANGED <<client, rows, history>>

\* A call's step that leaves its file, the panel and the history alone.
LEMMA OneSend ==
  ASSUME HistoryInv, NEW s \in Sends, NEW r, NEW c, c = send[s],
         OnlySend(s, r), Continues(c, r), IsMap(transfers', Files, Sends)
  PROVE  HistoryInv'
<1> USE DEF HistoryInv, OnlySend, Continues
<1>1. TypeOK'
  BY DEF TypeOK
<1>2. /\ send'[s] = r
      /\ \A t \in Sends \ {s} : send'[t] = send[t]
  BY DEF TypeOK
<1>3. SendsCohere'
  <2> SUFFICES ASSUME NEW t \in Sends
               PROVE  Coherent(send'[t])
    BY DEF SendsCohere, Coherent, Quiet, Told, Latest
  <2>1. QED
    BY <1>2 DEF SendsCohere
<1>4. \A t \in Sends : Alone(t)' <=> Alone(t)
  BY AloneKept DEF TypeOK
<1>5. RowsShown'
  <2>1. \A t \in Sends : send'[t].last = send[t].last /\ send'[t].file = send[t].file
    BY <1>2
  <2>2. QED
    BY <1>4, <2>1 DEF RowsShown, Shown
<1>6. RowsTrue'
  <2> SUFFICES ASSUME NEW n \in DOMAIN history
               PROVE  TrueRow(history[n])'
    BY DEF RowsTrue
  <2>1. history[n] \in Row
    BY LenProperties, ElementOfSeq DEF TypeOK
  <2>2. PICK row : row = history[n]
    OBVIOUS
  <2>3. row.send \in Sends /\ TrueRow(row)
    BY <2>1, <2>2 DEF Row, RowsTrue
  <2>4. /\ send'[row.send].file = send[row.send].file
        /\ send[row.send].permit => send'[row.send].permit
        /\ send'[row.send].pc = "ended"
        /\ send'[row.send].answer = send[row.send].answer
    BY <1>2, <2>3 DEF TrueRow
  <2>5. TrueRow(row)'
    BY <1>4, <2>3, <2>4 DEF TrueRow
  <2>6. QED
    BY <2>2, <2>5
<1>7. QED
  BY <1>1, <1>3, <1>5, <1>6

\* What is known of a call's locals.
LEMMA SendFacts ==
  ASSUME HistoryInv, NEW s \in Sends, NEW c, c = send[s]
  PROVE  /\ send \in [Sends -> SendRecord]
         /\ c \in SendRecord /\ Coherent(c)
         /\ IsMap(transfers, Files, Sends)
BY DEF HistoryInv, TypeOK, SendsCohere

\* The steps that change the place of a call, its flags and its counters.
LEMMA PlainSteps ==
  ASSUME HistoryInv, NEW s \in Sends,
         \/ DialFails(s) \/ Register(s) \/ Refused(s) \/ Accepted(s) \/ Watch(s)
         \/ FeederEnds(s) \/ Answer(s) \/ Finish(s) \/ Feed(s) \/ Receive(s) \/ Broken(s)
  PROVE  HistoryInv'
<1>1. PICK c : c = send[s]
  OBVIOUS
<1>2. c \in SendRecord /\ Coherent(c) /\ IsMap(transfers, Files, Sends)
  BY <1>1, SendFacts
<1>3. send \in [Sends -> SendRecord]
  BY SendFacts
<1>4. CASE DialFails(s)
  <2>1. PICK r : r = [c EXCEPT !.pc = "ended"]
    OBVIOUS
  <2>2. OnlySend(s, r)
    BY <1>4, <1>1, <1>2, <1>3, <2>1 DEF OnlySend, DialFails, Go, SendRecord, bridgeVars
  <2>3. r \in SendRecord
    BY <1>4, <1>1, <1>2, <2>1, TransferAssumption
    DEF DialFails, Go, SendRecord, Verified
  <2>4. /\ r.file = c.file /\ r.last = c.last /\ r.chan = c.chan
        /\ r.permit = c.permit /\ c.pc # "ended"
    BY <1>4, <1>1, <1>2, <2>1 DEF DialFails, Go, SendRecord, Coherent
  <2>5. (Quiet(c) => Quiet(r)) /\ (c.chan = <<>> /\ c.last = None => Quiet(r))
    BY <2>4 DEF Quiet
  <2>6. r.answer = c.answer /\ Told(c) => Told(r)
    BY <2>4 DEF Told, Latest
  <2>7. Coherent(r)
    BY <1>4, <1>1, <1>2, <2>1, <2>4, <2>5, <2>6, TransferAssumption
    DEF DialFails, Go, SendRecord, Coherent, Verified
  <2>8. IsMap(transfers', Files, Sends)
    BY <1>2, <1>4 DEF DialFails, Go
  <2>9. QED
    BY <1>1, <2>2, <2>3, <2>4, <2>7, <2>8, OneSend DEF Continues
<1>5. CASE Register(s)
  <2>1. PICK r : r = [c EXCEPT !.pc = "prepare"]
    OBVIOUS
  <2>2. OnlySend(s, r)
    BY <1>5, <1>1, <1>2, <1>3, <2>1 DEF OnlySend, Register, Go, SendRecord, bridgeVars
  <2>3. r \in SendRecord
    BY <1>5, <1>1, <1>2, <2>1, TransferAssumption
    DEF Register, Go, SendRecord, Verified
  <2>4. /\ r.file = c.file /\ r.last = c.last /\ r.chan = c.chan
        /\ r.permit = c.permit /\ c.pc # "ended"
    BY <1>5, <1>1, <1>2, <2>1 DEF Register, Go, SendRecord, Coherent
  <2>5. (Quiet(c) => Quiet(r)) /\ (c.chan = <<>> /\ c.last = None => Quiet(r))
    BY <2>4 DEF Quiet
  <2>6. r.answer = c.answer /\ Told(c) => Told(r)
    BY <2>4 DEF Told, Latest
  <2>7. Coherent(r)
    BY <1>5, <1>1, <1>2, <2>1, <2>4, <2>5, <2>6, TransferAssumption
    DEF Register, Go, SendRecord, Coherent, Verified
  <2>8. IsMap(transfers', Files, Sends)
    <3>1. send[s].file \in Files
      BY <1>1, <1>2, <1>5 DEF Register, Go, Coherent
    <3>2. QED
      BY <1>2, <1>5, <3>1, PutMap DEF Register, Go
  <2>9. QED
    BY <1>1, <2>2, <2>3, <2>4, <2>7, <2>8, OneSend DEF Continues
<1>6. CASE Refused(s)
  <2>1. PICK r : r = [c EXCEPT !.pc = "finish", !.answer = "refused"]
    OBVIOUS
  <2>2. OnlySend(s, r)
    BY <1>6, <1>1, <1>2, <1>3, <2>1 DEF OnlySend, Refused, SendRecord, bridgeVars
  <2>3. r \in SendRecord
    BY <1>6, <1>1, <1>2, <2>1, TransferAssumption
    DEF Refused, SendRecord, Verified
  <2>4. /\ r.file = c.file /\ r.last = c.last /\ r.chan = c.chan
        /\ r.permit = c.permit /\ c.pc # "ended"
    BY <1>6, <1>1, <1>2, <2>1 DEF Refused, SendRecord, Coherent
  <2>5. (Quiet(c) => Quiet(r)) /\ (c.chan = <<>> /\ c.last = None => Quiet(r))
    BY <2>4 DEF Quiet
  <2>6. r.answer = c.answer /\ Told(c) => Told(r)
    BY <2>4 DEF Told, Latest
  <2>7. Coherent(r)
    BY <1>6, <1>1, <1>2, <2>1, <2>4, <2>5, <2>6, TransferAssumption
    DEF Refused, SendRecord, Coherent, Verified
  <2>8. IsMap(transfers', Files, Sends)
    BY <1>2, <1>6 DEF Refused
  <2>9. QED
    BY <1>1, <2>2, <2>3, <2>4, <2>7, <2>8, OneSend DEF Continues
<1>7. CASE Accepted(s)
  <2>1. PICK o \in 0..Chunks :
          send' = [send EXCEPT ![s].pc = "upload", ![s].feeder = "reading",
                            ![s].sent = o, ![s].got = o]
    BY <1>7 DEF Accepted, Verified
  <2>2. PICK r : r = [c EXCEPT !.pc = "upload", !.feeder = "reading", !.sent = o, !.got = o]
    OBVIOUS
  <2>3. OnlySend(s, r)
    BY <1>7, <2>1, <1>1, <1>2, <1>3, <2>2 DEF OnlySend, Accepted, SendRecord, bridgeVars
  <2>4. r \in SendRecord
    BY <1>7, <2>1, <1>1, <1>2, <2>2, TransferAssumption
    DEF Accepted, SendRecord, Verified
  <2>5. /\ r.file = c.file /\ r.last = c.last /\ r.chan = c.chan
        /\ r.permit = c.permit /\ c.pc # "ended"
    BY <1>7, <2>1, <1>1, <1>2, <2>2 DEF Accepted, SendRecord, Coherent
  <2>6. (Quiet(c) => Quiet(r)) /\ (c.chan = <<>> /\ c.last = None => Quiet(r))
    BY <2>5 DEF Quiet
  <2>7. r.answer = c.answer /\ Told(c) => Told(r)
    BY <2>5 DEF Told, Latest
  <2>8. Coherent(r)
    BY <1>7, <2>1, <1>1, <1>2, <2>2, <2>5, <2>6, <2>7, TransferAssumption
    DEF Accepted, SendRecord, Coherent, Verified
  <2>9. IsMap(transfers', Files, Sends)
    BY <1>2, <1>7 DEF Accepted
  <2>10. QED
    BY <1>1, <2>3, <2>4, <2>5, <2>8, <2>9, OneSend DEF Continues
<1>8. CASE Watch(s)
  <2>1. PICK r : r = [c EXCEPT !.flag = TRUE]
    OBVIOUS
  <2>2. OnlySend(s, r)
    BY <1>8, <1>1, <1>2, <1>3, <2>1 DEF OnlySend, Watch, SendRecord, bridgeVars
  <2>3. r \in SendRecord
    BY <1>8, <1>1, <1>2, <2>1, TransferAssumption
    DEF Watch, SendRecord, Verified
  <2>4. /\ r.file = c.file /\ r.last = c.last /\ r.chan = c.chan
        /\ r.permit = c.permit /\ c.pc # "ended"
    BY <1>8, <1>1, <1>2, <2>1 DEF Watch, SendRecord, Coherent
  <2>5. (Quiet(c) => Quiet(r)) /\ (c.chan = <<>> /\ c.last = None => Quiet(r))
    BY <2>4 DEF Quiet
  <2>6. r.answer = c.answer /\ Told(c) => Told(r)
    BY <2>4 DEF Told, Latest
  <2>7. Coherent(r)
    BY <1>8, <1>1, <1>2, <2>1, <2>4, <2>5, <2>6, TransferAssumption
    DEF Watch, SendRecord, Coherent, Verified
  <2>8. IsMap(transfers', Files, Sends)
    BY <1>2, <1>8 DEF Watch
  <2>9. QED
    BY <1>1, <2>2, <2>3, <2>4, <2>7, <2>8, OneSend DEF Continues
<1>9. CASE FeederEnds(s)
  <2>1. PICK r : r = [c EXCEPT !.feeder = "done"]
    OBVIOUS
  <2>2. OnlySend(s, r)
    BY <1>9, <1>1, <1>2, <1>3, <2>1 DEF OnlySend, FeederEnds, SendRecord, bridgeVars
  <2>3. r \in SendRecord
    BY <1>9, <1>1, <1>2, <2>1, TransferAssumption
    DEF FeederEnds, SendRecord, Verified
  <2>4. /\ r.file = c.file /\ r.last = c.last /\ r.chan = c.chan
        /\ r.permit = c.permit /\ c.pc # "ended"
    BY <1>9, <1>1, <1>2, <2>1 DEF FeederEnds, SendRecord, Coherent
  <2>5. (Quiet(c) => Quiet(r)) /\ (c.chan = <<>> /\ c.last = None => Quiet(r))
    BY <2>4 DEF Quiet
  <2>6. r.answer = c.answer /\ Told(c) => Told(r)
    BY <2>4 DEF Told, Latest
  <2>7. Coherent(r)
    BY <1>9, <1>1, <1>2, <2>1, <2>4, <2>5, <2>6, TransferAssumption
    DEF FeederEnds, SendRecord, Coherent, Verified
  <2>8. IsMap(transfers', Files, Sends)
    BY <1>2, <1>9 DEF FeederEnds
  <2>9. QED
    BY <1>1, <2>2, <2>3, <2>4, <2>7, <2>8, OneSend DEF Continues
<1>10. CASE Answer(s)
  <2>1. PICK a \in Verified :
          send' = [send EXCEPT ![s].answer = a]
    BY <1>10 DEF Answer, Streaming, Verified
  <2>2. PICK r : r = [c EXCEPT !.answer = a]
    OBVIOUS
  <2>3. OnlySend(s, r)
    BY <1>10, <2>1, <1>1, <1>2, <1>3, <2>2 DEF OnlySend, Answer, Streaming, SendRecord, bridgeVars
  <2>4. r \in SendRecord
    BY <1>10, <2>1, <1>1, <1>2, <2>2, TransferAssumption
    DEF Answer, Streaming, SendRecord, Verified
  <2>5. /\ r.file = c.file /\ r.last = c.last /\ r.chan = c.chan
        /\ r.permit = c.permit /\ c.pc # "ended"
    BY <1>10, <2>1, <1>1, <1>2, <2>2 DEF Answer, Streaming, SendRecord, Coherent
  <2>6. (Quiet(c) => Quiet(r)) /\ (c.chan = <<>> /\ c.last = None => Quiet(r))
    BY <2>5 DEF Quiet
  <2>7. r.answer = c.answer /\ Told(c) => Told(r)
    BY <2>5 DEF Told, Latest
  <2>8. Coherent(r)
    BY <1>10, <2>1, <1>1, <1>2, <2>2, <2>5, <2>6, <2>7, TransferAssumption
    DEF Answer, Streaming, SendRecord, Coherent, Verified
  <2>9. IsMap(transfers', Files, Sends)
    BY <1>2, <1>10 DEF Answer, Streaming
  <2>10. QED
    BY <1>1, <2>3, <2>4, <2>5, <2>8, <2>9, OneSend DEF Continues
<1>11. CASE Finish(s)
  <2>1. PICK r : r = [c EXCEPT !.pc = "drain"]
    OBVIOUS
  <2>2. OnlySend(s, r)
    BY <1>11, <1>1, <1>2, <1>3, <2>1 DEF OnlySend, Finish, Go, SendRecord, bridgeVars
  <2>3. r \in SendRecord
    BY <1>11, <1>1, <1>2, <2>1, TransferAssumption
    DEF Finish, Go, SendRecord, Verified
  <2>4. /\ r.file = c.file /\ r.last = c.last /\ r.chan = c.chan
        /\ r.permit = c.permit /\ c.pc # "ended"
    BY <1>11, <1>1, <1>2, <2>1 DEF Finish, Go, SendRecord, Coherent
  <2>5. (Quiet(c) => Quiet(r)) /\ (c.chan = <<>> /\ c.last = None => Quiet(r))
    BY <2>4 DEF Quiet
  <2>6. r.answer = c.answer /\ Told(c) => Told(r)
    BY <2>4 DEF Told, Latest
  <2>7. Coherent(r)
    BY <1>11, <1>1, <1>2, <2>1, <2>4, <2>5, <2>6, TransferAssumption
    DEF Finish, Go, SendRecord, Coherent, Verified
  <2>8. IsMap(transfers', Files, Sends)
    BY <1>2, <1>11, DropMap DEF Finish, Go
  <2>9. QED
    BY <1>1, <2>2, <2>3, <2>4, <2>7, <2>8, OneSend DEF Continues
<1>12. CASE Feed(s)
  <2>1. PICK f \in {"reading", "reporting"} :
          send' = [send EXCEPT ![s].sent = @ + 1, ![s].feeder = f]
    BY <1>12 DEF Feed, Streaming, Verified
  <2>2. PICK r : r = [c EXCEPT !.sent = @ + 1, !.feeder = f]
    OBVIOUS
  <2>3. OnlySend(s, r)
    BY <1>12, <2>1, <1>1, <1>2, <1>3, <2>2 DEF OnlySend, Feed, Streaming, SendRecord, bridgeVars
  <2>4. r \in SendRecord
    <3>1. c.sent + 1 \in 0..Chunks
      BY <1>1, <1>2, <1>12, TransferAssumption DEF Feed, SendRecord
    <3>2. QED
      BY <1>2, <2>1, <2>2, <3>1 DEF SendRecord
  <2>5. /\ r.file = c.file /\ r.last = c.last /\ r.chan = c.chan
        /\ r.permit = c.permit /\ c.pc # "ended"
    BY <1>12, <2>1, <1>1, <1>2, <2>2 DEF Feed, Streaming, SendRecord, Coherent
  <2>6. (Quiet(c) => Quiet(r)) /\ (c.chan = <<>> /\ c.last = None => Quiet(r))
    BY <2>5 DEF Quiet
  <2>7. r.answer = c.answer /\ Told(c) => Told(r)
    BY <2>5 DEF Told, Latest
  <2>8. Coherent(r)
    BY <1>12, <2>1, <1>1, <1>2, <2>2, <2>5, <2>6, <2>7, TransferAssumption
    DEF Feed, Streaming, SendRecord, Coherent, Verified
  <2>9. IsMap(transfers', Files, Sends)
    BY <1>2, <1>12 DEF Feed, Streaming
  <2>10. QED
    BY <1>1, <2>3, <2>4, <2>5, <2>8, <2>9, OneSend DEF Continues
<1>13. CASE Receive(s)
  <2>1. PICK r : r = [c EXCEPT !.got = @ + 1]
    OBVIOUS
  <2>2. OnlySend(s, r)
    BY <1>13, <1>1, <1>2, <1>3, <2>1 DEF OnlySend, Receive, Streaming, SendRecord, bridgeVars
  <2>3. r \in SendRecord
    BY <1>13, <1>1, <1>2, <2>1, TransferAssumption
    DEF Receive, Streaming, SendRecord, Verified
  <2>4. /\ r.file = c.file /\ r.last = c.last /\ r.chan = c.chan
        /\ r.permit = c.permit /\ c.pc # "ended"
    BY <1>13, <1>1, <1>2, <2>1 DEF Receive, Streaming, SendRecord, Coherent
  <2>5. (Quiet(c) => Quiet(r)) /\ (c.chan = <<>> /\ c.last = None => Quiet(r))
    BY <2>4 DEF Quiet
  <2>6. r.answer = c.answer /\ Told(c) => Told(r)
    BY <2>4 DEF Told, Latest
  <2>7. Coherent(r)
    BY <1>13, <1>1, <1>2, <2>1, <2>4, <2>5, <2>6, TransferAssumption
    DEF Receive, Streaming, SendRecord, Coherent, Verified
  <2>8. IsMap(transfers', Files, Sends)
    BY <1>2, <1>13 DEF Receive, Streaming
  <2>9. QED
    BY <1>1, <2>2, <2>3, <2>4, <2>7, <2>8, OneSend DEF Continues
<1>14. CASE Broken(s)
  <2>1. PICK r : r = [c EXCEPT !.answer = "broken", !.pc = "finish"]
    OBVIOUS
  <2>2. OnlySend(s, r)
    BY <1>14, <1>1, <1>2, <1>3, <2>1 DEF OnlySend, Broken, Streaming, SendRecord, bridgeVars
  <2>3. r \in SendRecord
    BY <1>14, <1>1, <1>2, <2>1, TransferAssumption
    DEF Broken, Streaming, SendRecord, Verified
  <2>4. /\ r.file = c.file /\ r.last = c.last /\ r.chan = c.chan
        /\ r.permit = c.permit /\ c.pc # "ended"
    BY <1>14, <1>1, <1>2, <2>1 DEF Broken, Streaming, SendRecord, Coherent
  <2>5. (Quiet(c) => Quiet(r)) /\ (c.chan = <<>> /\ c.last = None => Quiet(r))
    BY <2>4 DEF Quiet
  <2>6. r.answer = c.answer /\ Told(c) => Told(r)
    BY <2>4 DEF Told, Latest
  <2>7. Coherent(r)
    BY <1>14, <1>1, <1>2, <2>1, <2>4, <2>5, <2>6, TransferAssumption
    DEF Broken, Streaming, SendRecord, Coherent, Verified
  <2>8. IsMap(transfers', Files, Sends)
    BY <1>2, <1>14 DEF Broken, Streaming
  <2>9. QED
    BY <1>1, <2>2, <2>3, <2>4, <2>7, <2>8, OneSend DEF Continues
<1>15. QED
  BY <1>4, <1>5, <1>6, <1>7, <1>8, <1>9, <1>10, <1>11, <1>12, <1>13, <1>14
\* The two tasks that report: progress, and once the terminal event.
LEMMA ReportingSteps ==
  ASSUME HistoryInv, NEW s \in Sends, Report(s) \/ Terminal(s)
  PROVE  HistoryInv'
<1>1. PICK c : c = send[s]
  OBVIOUS
<1>2. c \in SendRecord /\ Coherent(c) /\ IsMap(transfers, Files, Sends) /\ c.chan \in Seq(Events)
  BY <1>1, SendFacts DEF SendRecord
<1>3. send \in [Sends -> SendRecord]
  BY SendFacts
<1>4. CASE Report(s)
  <2>1. PICK r : r = [c EXCEPT !.feeder = "reading", !.chan = Append(c.chan, "progress")]
    OBVIOUS
  <2>2. OnlySend(s, r)
    BY <1>1, <1>2, <1>3, <1>4, <2>1 DEF OnlySend, Report, SendRecord, bridgeVars
  <2>3. PICK ch : ch = Append(c.chan, "progress")
    OBVIOUS
  <2>4. /\ ch \in Seq(Events)
        /\ Len(ch) = Len(c.chan) + 1 /\ Len(c.chan) \in Nat
        /\ \A n \in 1..Len(c.chan) : ch[n] = c.chan[n]
        /\ ch[Len(c.chan) + 1] = "progress"
    BY <1>2, <2>3, AppendProperties, LenProperties DEF Events
  <2>5. r.chan = ch /\ r.file = c.file /\ r.last = c.last /\ r.permit = c.permit
    BY <1>2, <2>1, <2>3 DEF SendRecord
  <2>6. Quiet(c) => Quiet(r)
    BY <2>4, <2>5 DEF Quiet
  <2>7. c.feeder = "reporting" /\ c.pc \in {"upload", "finish", "drain"}
    BY <1>1, <1>2, <1>4 DEF Report, Coherent, SendRecord
  <2>8. r \in SendRecord
    BY <1>2, <2>1, <2>3, <2>4 DEF SendRecord
  <2>9. Coherent(r)
    BY <1>2, <2>1, <2>6, <2>7, TransferAssumption DEF Coherent, SendRecord, Verified
  <2>10. IsMap(transfers', Files, Sends)
    BY <1>2, <1>4 DEF Report
  <2>11. QED
    BY <1>1, <2>2, <2>5, <2>7, <2>8, <2>9, <2>10, OneSend DEF Continues
<1>5. CASE Terminal(s)
  <2>1. PICK e : e = Outcome(s)
    OBVIOUS
  <2>2. /\ e \in Terminals
        /\ e = "completed" <=> c.answer = "whole"
        /\ e = "canceled" => c.permit
        /\ c.pc = "upload" /\ c.answer \in Verified /\ c.feeder = "done"
    BY <1>1, <1>2, <1>5, <2>1 DEF Terminal, Outcome, Terminals, Coherent
  <2>3. PICK r : r = [c EXCEPT !.pc = "finish", !.chan = Append(c.chan, e)]
    OBVIOUS
  <2>4. OnlySend(s, r)
    BY <1>1, <1>2, <1>3, <1>5, <2>1, <2>3 DEF OnlySend, Terminal, SendRecord, bridgeVars
  <2>5. PICK ch : ch = Append(c.chan, e)
    OBVIOUS
  <2>6. /\ ch \in Seq(Events) /\ ch # <<>>
        /\ Len(ch) = Len(c.chan) + 1 /\ ch[Len(c.chan) + 1] = e
    BY <1>2, <2>2, <2>5, AppendProperties DEF Events
  <2>7. /\ r.chan = ch /\ r.file = c.file /\ r.last = c.last /\ r.permit = c.permit
        /\ r.answer = c.answer /\ r.pc = "finish" /\ r.feeder = "done" /\ r.flag = c.flag
    BY <1>2, <2>2, <2>3, <2>5 DEF SendRecord
  <2>8. r \in SendRecord
    BY <1>2, <2>3, <2>5, <2>6 DEF SendRecord
  <2>9. Told(r)
    BY <2>2, <2>6, <2>7 DEF Told, Latest
  <2>10. Coherent(r)
    BY <1>2, <2>2, <2>7, <2>9, TransferAssumption DEF Coherent, Verified
  <2>11. IsMap(transfers', Files, Sends)
    BY <1>2, <1>5 DEF Terminal
  <2>12. QED
    BY <1>1, <2>2, <2>4, <2>7, <2>8, <2>10, <2>11, OneSend DEF Continues
<1>6. QED
  BY <1>4, <1>5

\* A cancel reaches one call, in whatever place it is.
LEMMA CancelStep ==
  ASSUME HistoryInv, NEW f \in Files, Cancel(f)
  PROVE  HistoryInv'
<1>1. PICK s \in Sends : s = transfers[f]
  BY DEF Cancel, HistoryInv, TypeOK, IsMap
<1>2. PICK c : c = send[s]
  OBVIOUS
<1>3. c \in SendRecord /\ Coherent(c) /\ IsMap(transfers, Files, Sends)
  BY <1>2, SendFacts
<1>4. send \in [Sends -> SendRecord]
  BY SendFacts, <1>1
<1>5. PICK r : r = [c EXCEPT !.permit = TRUE]
  OBVIOUS
<1>6. OnlySend(s, r)
  BY <1>1, <1>2, <1>3, <1>4, <1>5 DEF OnlySend, Cancel, SendRecord, bridgeVars
<1>7. r \in SendRecord
  BY <1>3, <1>5 DEF SendRecord
<1>8. /\ r.file = c.file /\ r.last = c.last /\ r.chan = c.chan /\ r.permit = TRUE
      /\ r.pc = c.pc /\ r.answer = c.answer /\ r.feeder = c.feeder /\ r.flag = c.flag
  BY <1>3, <1>5 DEF SendRecord
<1>9. (Quiet(c) => Quiet(r)) /\ (Told(c) => Told(r))
  BY <1>8 DEF Quiet, Told, Latest
<1>10. Coherent(r)
  BY <1>3, <1>8, <1>9 DEF Coherent
<1>11. IsMap(transfers', Files, Sends)
  BY <1>3 DEF Cancel
<1>12. QED
  BY <1>2, <1>6, <1>7, <1>8, <1>10, <1>11, OneSend DEF Continues
\* A row of the history names a call that has ended.
LEMMA RowFacts ==
  ASSUME HistoryInv, NEW n \in DOMAIN history, NEW row, row = history[n]
  PROVE  /\ row \in Row /\ row.send \in Sends
         /\ TrueRow(row) /\ send[row.send].pc = "ended"
<1>1. history[n] \in Row
  BY LenProperties, ElementOfSeq DEF HistoryInv, TypeOK
<1>2. QED
  BY <1>1 DEF HistoryInv, RowsTrue, Row, TrueRow

\* A new call shares a file with no call that had it to itself.
LEMMA BeginStep ==
  ASSUME HistoryInv, NEW s \in Sends, NEW f \in Files, Begin(s, f)
  PROVE  HistoryInv'
<1>1. PICK c : c = send[s]
  OBVIOUS
<1>2. /\ c \in SendRecord /\ Coherent(c) /\ IsMap(transfers, Files, Sends)
      /\ send \in [Sends -> SendRecord] /\ c.pc = "idle"
  BY <1>1, SendFacts DEF Begin
<1>3. c.file = None /\ c.chan = <<>> /\ c.last = None /\ c.answer = None /\ c.feeder = "none"
  BY <1>2 DEF Coherent
<1>4. client \in Procs
  BY DEF Begin, HistoryInv, TypeOK
<1>5. PICK r : r = [c EXCEPT !.pc = "dial", !.file = f, !.daemon = client]
  OBVIOUS
<1>6. send' = [send EXCEPT ![s] = r]
  BY <1>1, <1>2, <1>5 DEF Begin, SendRecord
<1>7. r \in SendRecord
  BY <1>2, <1>4, <1>5 DEF SendRecord
<1>8. /\ r.pc = "dial" /\ r.file = f /\ r.chan = <<>> /\ r.last = None /\ r.answer = None
      /\ r.feeder = "none" /\ r.flag = c.flag /\ r.permit = c.permit
  BY <1>2, <1>3, <1>5 DEF SendRecord
<1>9. Coherent(r)
  BY <1>2, <1>8, TransferAssumption DEF Coherent, Verified
<1>10. UNCHANGED <<client, transfers, rows, history>>
  BY DEF Begin
<1>11. TypeOK'
  BY <1>2, <1>6, <1>7, <1>10 DEF HistoryInv, TypeOK
<1>12. /\ send'[s] = r
       /\ \A t \in Sends \ {s} : send'[t] = send[t]
  BY <1>2, <1>6
<1>13. SendsCohere'
  <2> SUFFICES ASSUME NEW t \in Sends
               PROVE  Coherent(send'[t])
    BY DEF SendsCohere, Coherent, Quiet, Told, Latest
  <2>1. QED
    BY <1>9, <1>12 DEF HistoryInv, SendsCohere
<1>14. \A t \in Sends : t # s /\ send[t].file \in Files /\ Alone(t)' => Alone(t)
  BY <1>1, <1>3, <1>12, TransferAssumption DEF Alone
<1>15. RowsShown'
  <2> SUFFICES ASSUME NEW t \in Sends, send'[t].last # None, Alone(t)'
               PROVE  send'[t].file \in DOMAIN rows /\ rows[send'[t].file] = send'[t].last
    BY <1>10 DEF RowsShown, Shown
  <2>1. t # s /\ send'[t] = send[t]
    BY <1>8, <1>12
  <2>2. send[t].file \in Files
    BY <2>1 DEF HistoryInv, SendsCohere, Coherent
  <2>3. QED
    BY <1>14, <2>1, <2>2 DEF HistoryInv, RowsShown, Shown
<1>16. RowsTrue'
  <2> SUFFICES ASSUME NEW n \in DOMAIN history
               PROVE  TrueRow(history[n])'
    BY <1>10 DEF RowsTrue
  <2>1. PICK row : row = history[n]
    OBVIOUS
  <2>2. row.send \in Sends /\ TrueRow(row) /\ send[row.send].pc = "ended"
    BY <2>1, RowFacts
  <2>3. row.send # s /\ send'[row.send] = send[row.send] /\ send[row.send].file \in Files
    BY <1>1, <1>2, <1>12, <2>2 DEF HistoryInv, SendsCohere, Coherent
  <2>4. TrueRow(row)'
    BY <1>10, <1>14, <2>2, <2>3 DEF TrueRow
  <2>5. QED
    BY <1>10, <2>1, <2>4
<1>17. QED
  BY <1>11, <1>13, <1>15, <1>16 DEF HistoryInv

\* The oldest event of a call reaches the panel.
LEMMA PumpStep ==
  ASSUME HistoryInv, NEW s \in Sends, Pump(s)
  PROVE  HistoryInv'
<1>1. PICK c : c = send[s]
  OBVIOUS
<1>2. /\ c \in SendRecord /\ Coherent(c) /\ IsMap(transfers, Files, Sends)
      /\ send \in [Sends -> SendRecord] /\ c.chan # <<>> /\ c.chan \in Seq(Events)
  BY <1>1, SendFacts DEF Pump, SendRecord
<1>3. PICK e, tl : e = Head(c.chan) /\ tl = Tail(c.chan)
  OBVIOUS
<1>4. PICK r : r = [c EXCEPT !.last = e, !.chan = tl]
  OBVIOUS
<1>5. send' = [send EXCEPT ![s] = r] /\ rows' = Put(rows, c.file, e)
  BY <1>1, <1>2, <1>3, <1>4 DEF Pump, SendRecord
<1>6. UNCHANGED <<client, transfers, history>>
  BY DEF Pump, bridgeVars
<1>7. /\ e \in Events /\ tl \in Seq(Events)
      /\ Len(c.chan) \in Nat /\ Len(c.chan) # 0 /\ e = c.chan[1]
      /\ Len(tl) = Len(c.chan) - 1
      /\ \A n \in 1..Len(tl) : tl[n] = c.chan[n + 1]
  BY <1>2, <1>3, HeadTailProperties, LenProperties, EmptySeq
<1>8. /\ r.pc = c.pc /\ r.file = c.file /\ r.chan = tl /\ r.last = e /\ r.answer = c.answer
      /\ r.feeder = c.feeder /\ r.flag = c.flag /\ r.permit = c.permit
  BY <1>2, <1>4 DEF SendRecord
<1>9. r \in SendRecord
  BY <1>2, <1>4, <1>7 DEF SendRecord
<1>10. Latest(r) = Latest(c)
  <2>1. CASE tl = <<>>
    <3>1. Len(tl) = 0 /\ Len(c.chan) = 1
      BY <1>7, <2>1
    <3>2. QED
      BY <1>2, <1>7, <1>8, <2>1, <3>1 DEF Latest
  <2>2. CASE tl # <<>>
    <3>1. Len(tl) \in Nat /\ Len(tl) # 0
      BY <1>7, <2>2, EmptySeq
    <3>2. tl[Len(tl)] = c.chan[Len(c.chan)]
      <4>1. Len(tl) \in 1..Len(tl) /\ Len(tl) + 1 = Len(c.chan)
        <5>1. PICK k, n : k = Len(tl) /\ n = Len(c.chan)
          OBVIOUS
        <5>2. k \in Nat /\ k # 0 /\ n \in Nat /\ k = n - 1
          BY <1>7, <3>1, <5>1
        <5>3. k \in 1..k /\ k + 1 = n
          BY <5>2
        <5>4. QED
          BY <5>1, <5>3
      <4>2. tl[Len(tl)] = c.chan[Len(tl) + 1]
        BY <1>7, <4>1
      <4>3. QED
        BY <4>1, <4>2
    <3>3. QED
      BY <1>2, <1>8, <2>2, <3>2 DEF Latest
  <2>3. QED
    BY <2>1, <2>2
<1>11. (Quiet(c) => Quiet(r)) /\ (Told(c) => Told(r))
  <2>1. Quiet(c) => Quiet(r)
    BY <1>7, <1>8 DEF Quiet
  <2>2. QED
    BY <1>8, <1>10, <2>1 DEF Told
<1>12. c.pc \in {"upload", "finish", "drain"} /\ c.file \in Files
  BY <1>2 DEF Coherent, SendRecord
<1>13. Coherent(r)
  BY <1>2, <1>8, <1>11, <1>12 DEF Coherent
<1>14. TypeOK'
  <2>1. IsMap(rows', Files, Events)
    BY <1>5, <1>7, <1>12, PutMap DEF HistoryInv, TypeOK
  <2>2. QED
    BY <1>2, <1>5, <1>6, <1>9, <2>1 DEF HistoryInv, TypeOK
<1>15. /\ send'[s] = r
       /\ \A t \in Sends \ {s} : send'[t] = send[t]
       /\ \A t \in Sends : Alone(t)' <=> Alone(t)
  BY <1>1, <1>2, <1>5, <1>8, AloneKept
<1>16. SendsCohere'
  <2> SUFFICES ASSUME NEW t \in Sends
               PROVE  Coherent(send'[t])
    BY DEF SendsCohere, Coherent, Quiet, Told, Latest
  <2>1. QED
    BY <1>13, <1>15 DEF HistoryInv, SendsCohere
<1>17. c.file \in DOMAIN rows' /\ rows'[c.file] = e
  BY <1>5 DEF Put
<1>18. \A t \in Sends : t # s /\ Alone(t) /\ send[t].file \in DOMAIN rows =>
          send[t].file \in DOMAIN rows' /\ rows'[send[t].file] = rows[send[t].file]
  BY <1>1, <1>5 DEF Alone, Put
<1>19. RowsShown'
  <2> SUFFICES ASSUME NEW t \in Sends, send'[t].last # None, Alone(t)'
               PROVE  send'[t].file \in DOMAIN rows' /\ rows'[send'[t].file] = send'[t].last
    BY DEF RowsShown, Shown
  <2>1. CASE t = s
    BY <1>8, <1>15, <1>17, <2>1
  <2>2. CASE t # s
    BY <1>15, <1>18, <2>2 DEF HistoryInv, RowsShown, Shown
  <2>3. QED
    BY <2>1, <2>2
<1>20. RowsTrue'
  <2> SUFFICES ASSUME NEW n \in DOMAIN history
               PROVE  TrueRow(history[n])'
    BY <1>6 DEF RowsTrue
  <2>1. PICK row : row = history[n]
    OBVIOUS
  <2>2. row.send \in Sends /\ TrueRow(row) /\ send[row.send].pc = "ended"
    BY <2>1, RowFacts
  <2>3. row.send # s /\ send'[row.send] = send[row.send]
    BY <1>1, <1>12, <1>15, <2>2
  <2>4. TrueRow(row)'
    BY <1>15, <1>18, <2>2, <2>3 DEF TrueRow
  <2>5. QED
    BY <1>6, <2>1, <2>4
<1>21. QED
  BY <1>14, <1>16, <1>19, <1>20 DEF HistoryInv
\* Trimming the table invents no row.
LEMMA TrimKeepsRows ==
  ASSUME NEW table \in Seq(Row), NEW row \in Row, NEW new,
         new = Trimmed(Append(table, row))
  PROVE  /\ new \in Seq(Row)
         /\ \A n \in DOMAIN new :
              new[n] = row \/ \E k \in DOMAIN table : new[n] = table[k]
<1>1. PICK long : long = Append(table, row)
  OBVIOUS
<1>2. /\ long \in Seq(Row) /\ Len(table) \in Nat /\ Len(long) = Len(table) + 1
      /\ DOMAIN long = 1..Len(long) /\ DOMAIN table = 1..Len(table)
      /\ \A k \in 1..Len(table) : long[k] = table[k]
      /\ long[Len(table) + 1] = row
  BY <1>1, AppendProperties, LenProperties
<1>3. \A k \in 1..Len(long) : long[k] = row \/ \E j \in DOMAIN table : long[k] = table[j]
  <2> TAKE k \in 1..Len(long)
  <2>1. CASE k = Len(table) + 1
    BY <1>2, <2>1
  <2>2. CASE k # Len(table) + 1
    <3>1. k \in 1..Len(table)
      BY <1>2, <2>2
    <3>2. QED
      BY <1>2, <3>1
  <2>3. QED
    BY <2>1, <2>2
<1>4. CASE Len(long) <= MaxRows
  <2>1. new = long
    BY <1>1, <1>2, <1>4, TransferAssumption DEF Trimmed
  <2>2. QED
    BY <1>2, <1>3, <2>1
<1>5. CASE Len(long) > MaxRows
  <2>1. PICK m \in Int : m = Len(long) - MaxRows + 1
    BY <1>2, TransferAssumption
  <2>2. new = SubSeq(long, m, Len(long))
    BY <1>1, <1>5, <2>1 DEF Trimmed
  <2>3. m \in 2..Len(long) /\ Len(long) \in Int
    BY <1>2, <1>5, <2>1, TransferAssumption
  <2>4. \A k \in m..Len(long) : long[k] \in Row
    BY <1>2, <2>3, ElementOfSeq
  <2>5. /\ new \in Seq(Row)
        /\ Len(new) = Len(long) - m + 1
        /\ \A k \in 1..Len(long) - m + 1 : new[k] = long[m + k - 1]
    BY <2>2, <2>3, <2>4, SubSeqProperties
  <2>6. DOMAIN new = 1..Len(new)
    BY <2>5, LenProperties
  <2>7. \A n \in DOMAIN new : m + n - 1 \in 1..Len(long) /\ new[n] = long[m + n - 1]
    BY <2>3, <2>5, <2>6
  <2>8. QED
    BY <1>3, <2>5, <2>7
<1>6. QED
  BY <1>2, <1>4, <1>5, TransferAssumption

\* The call is over: its row says what its last event said.
LEMMA RecordStep ==
  ASSUME HistoryInv, NEW s \in Sends, Record(s)
  PROVE  HistoryInv'
<1>1. PICK c : c = send[s]
  OBVIOUS
<1>2. /\ c \in SendRecord /\ Coherent(c) /\ IsMap(transfers, Files, Sends)
      /\ send \in [Sends -> SendRecord]
      /\ c.chan = <<>> /\ c.pc = "drain" /\ c.file \in Files
  BY <1>1, SendFacts DEF Record, Coherent
<1>3. PICK r : r = [Idle EXCEPT !.pc = "ended", !.file = c.file, !.permit = c.permit,
                                !.answer = c.answer]
  OBVIOUS
<1>4. send' = [send EXCEPT ![s] = r] /\ UNCHANGED <<client, transfers, rows>>
  BY <1>1, <1>3 DEF Record, bridgeVars
<1>5. /\ r.pc = "ended" /\ r.file = c.file /\ r.chan = <<>> /\ r.last = None
      /\ r.answer = c.answer /\ r.feeder = "none" /\ r.flag = FALSE /\ r.permit = c.permit
  BY <1>3 DEF Idle
<1>6. r \in SendRecord
  <2>1. r = [pc |-> "ended", file |-> c.file, daemon |-> None, permit |-> c.permit,
             flag |-> FALSE, feeder |-> "none", sent |-> 0, got |-> 0, answer |-> c.answer,
             chan |-> <<>>, last |-> None]
    BY <1>3 DEF Idle
  <2>2. 0 \in 0..Chunks /\ <<>> \in Seq(Events)
    BY TransferAssumption, EmptySeq
  <2>3. c.file \in Files \cup {None} /\ c.permit \in BOOLEAN
        /\ c.answer \in {None, "refused", "broken"} \cup Verified
    BY <1>2 DEF SendRecord
  <2>4. QED
    BY <2>1, <2>2, <2>3 DEF SendRecord
<1>7. Coherent(r)
  BY <1>2, <1>5 DEF Coherent
<1>8. /\ send'[s] = r
      /\ \A t \in Sends \ {s} : send'[t] = send[t]
      /\ \A t \in Sends : Alone(t)' <=> Alone(t)
  BY <1>1, <1>2, <1>4, <1>5, AloneKept
<1>9. SendsCohere'
  <2> SUFFICES ASSUME NEW t \in Sends
               PROVE  Coherent(send'[t])
    BY DEF SendsCohere, Coherent, Quiet, Told, Latest
  <2>1. QED
    BY <1>7, <1>8 DEF HistoryInv, SendsCohere
<1>10. RowsShown'
  <2> SUFFICES ASSUME NEW t \in Sends, send'[t].last # None, Alone(t)'
               PROVE  send'[t].file \in DOMAIN rows /\ rows[send'[t].file] = send'[t].last
    BY <1>4 DEF RowsShown, Shown
  <2>1. t # s /\ send'[t] = send[t]
    BY <1>5, <1>8
  <2>2. QED
    BY <1>8, <2>1 DEF HistoryInv, RowsShown, Shown
<1>11. \A row \in Row : TrueRow(row) => TrueRow(row)'
  <2> SUFFICES ASSUME NEW row \in Row, TrueRow(row)
               PROVE  TrueRow(row)'
    OBVIOUS
  <2>1. row.send \in Sends /\ row.send # s /\ send'[row.send] = send[row.send]
    BY <1>1, <1>2, <1>8 DEF Row, TrueRow
  <2>2. QED
    BY <1>4, <1>8, <2>1 DEF TrueRow
<1>12. PICK new : new = [send |-> s, status |-> StatusOf(s)]
  OBVIOUS
<1>13. new \in Row /\ new.send = s /\ new.status = StatusOf(s)
  <2>1. StatusOf(s) \in Terminals
    BY DEF StatusOf, Terminals
  <2>2. QED
    BY <1>12, <2>1 DEF Row
<1>14. c.answer \in {"refused", "broken"} => StatusOf(s) = "failed"
  <2>1. c.answer \in {"refused", "broken"} => c.last \in {None, "progress"}
    BY <1>2 DEF Coherent, Quiet, Verified
  <2>2. QED
    BY <1>1, <2>1, TransferAssumption DEF StatusOf
<1>15. c.answer \notin {"refused", "broken"} =>
         /\ StatusOf(s) = c.last /\ c.last # None
         /\ c.last = "completed" <=> c.answer = "whole"
         /\ c.last = "canceled" => c.permit
  <2>1. c.answer \notin {"refused", "broken"} => c.answer \in Verified /\ Told(c) /\ Latest(c) = c.last
    BY <1>2 DEF Coherent, Latest
  <2>2. QED
    BY <1>1, <2>1, TransferAssumption DEF Told, StatusOf, Terminals
<1>16. TrueRow(new)'
  <2>1. send'[s].pc = "ended" /\ send'[s].answer = c.answer /\ send'[s].permit = c.permit
        /\ send'[s].file = c.file
    BY <1>5, <1>8
  <2>2. c.answer \notin {"refused", "broken"} /\ Alone(s) =>
          c.file \in DOMAIN rows /\ rows[c.file] = StatusOf(s)
    BY <1>1, <1>15 DEF HistoryInv, RowsShown, Shown
  <2>3. PICK st : st = StatusOf(s)
    OBVIOUS
  <2>4. new.send = s /\ new.status = st
    BY <1>13, <2>3
  <2>5. /\ st = "completed" <=> c.answer = "whole"
        /\ st = "canceled" => c.permit
    BY <1>14, <1>15, <2>3
  <2>6. QED
    BY <1>4, <1>8, <2>1, <2>2, <2>3, <2>4, <2>5 DEF TrueRow
<1>17. history' = history \/ history' = Trimmed(Append(history, new))
  BY <1>12 DEF Record, RecordTransferHistory
<1>18. history \in Seq(Row) /\ \A n \in DOMAIN history : history[n] \in Row /\ TrueRow(history[n])
  BY RowFacts DEF HistoryInv, TypeOK
<1>19. PICK h : h = history'
  OBVIOUS
<1>20. h \in Seq(Row) /\ \A n \in DOMAIN h :
          h[n] = new \/ \E k \in DOMAIN history : h[n] = history[k]
  BY <1>13, <1>17, <1>18, <1>19, TrimKeepsRows
<1>21. RowsTrue'
  <2> SUFFICES ASSUME NEW n \in DOMAIN history'
               PROVE  TrueRow(history[n])'
    BY DEF RowsTrue
  <2>1. PICK row : row = history'[n]
    OBVIOUS
  <2>2. row = new \/ (row \in Row /\ TrueRow(row))
    BY <1>18, <1>19, <1>20, <2>1
  <2>3. TrueRow(row)'
    BY <1>11, <1>16, <2>2
  <2>4. QED
    BY <2>1, <2>3
<1>22. TypeOK'
  BY <1>2, <1>4, <1>6, <1>19, <1>20 DEF HistoryInv, TypeOK
<1>23. QED
  BY <1>9, <1>10, <1>21, <1>22 DEF HistoryInv
\* The bridge replaces the daemon under the calls and touches nothing of theirs.
LEMMA BridgeStep ==
  ASSUME HistoryInv, UNCHANGED sendVars, client' \in Procs \cup {None}
  PROVE  HistoryInv'
<1>1. UNCHANGED <<send, transfers, history, rows>>
  BY DEF sendVars
<1>2. TypeOK'
  BY <1>1 DEF HistoryInv, TypeOK
<1>3. SendsCohere' /\ RowsShown' /\ RowsTrue'
  BY <1>1 DEF HistoryInv, SendsCohere, RowsShown, RowsTrue, Coherent, Quiet, Told, Latest,
              Shown, TrueRow, Alone
<1>4. QED
  BY <1>2, <1>3 DEF HistoryInv

\* The commands borrow a connection to a process, or none.
LEMMA ClientIsProcess ==
  ASSUME client \in Procs \cup {None}, BridgeNext
  PROVE  client' \in Procs \cup {None}
BY DEF BridgeNext, ServiceStarts, Bind, Crash, PressStart, CheckRunning, Spawn, PressStop,
       Connect, ConnectFails, Subscribe, SubscribeFails, StreamEnds, Clear, Ask, Listen,
       AnsweredYes, AnsweredOffline, Serving

LEMMA HistoryInvInit == Init => HistoryInv
<1> SUFFICES ASSUME Init PROVE HistoryInv
  OBVIOUS
<1>1. /\ client = None /\ send = [s \in Sends |-> Idle] /\ transfers = EmptyMap
      /\ rows = EmptyMap /\ history = <<>>
  BY DEF Init, BridgeInit
<1>2. Idle \in SendRecord
  <2>1. 0 \in 0..Chunks /\ <<>> \in Seq(Events)
    BY TransferAssumption, EmptySeq
  <2>2. QED
    BY <2>1 DEF Idle, SendRecord
<1>3. Coherent(Idle)
  BY TransferAssumption DEF Coherent, Idle, Verified
<1>4. history \in Seq(Row) /\ DOMAIN history = {}
  BY <1>1, EmptySeq, LenProperties
<1>5. TypeOK
  BY <1>1, <1>2, <1>4, EmptyIsMap DEF TypeOK
<1>6. SendsCohere
  BY <1>1, <1>3 DEF SendsCohere
<1>7. RowsShown
  BY <1>1 DEF RowsShown, Shown, Idle
<1>8. RowsTrue
  BY <1>4 DEF RowsTrue
<1>9. QED
  BY <1>5, <1>6, <1>7, <1>8 DEF HistoryInv

LEMMA HistoryInvNext == HistoryInv /\ [Next]_vars => HistoryInv'
<1> SUFFICES ASSUME HistoryInv, [Next]_vars
             PROVE  HistoryInv'
  OBVIOUS
<1>1. CASE BridgeNext /\ UNCHANGED sendVars
  BY <1>1, ClientIsProcess, BridgeStep DEF HistoryInv, TypeOK
<1>2. ASSUME NEW s \in Sends, NEW f \in Files, Begin(s, f)
      PROVE  HistoryInv'
  BY <1>2, BeginStep
<1>3. ASSUME NEW s \in Sends, SendStep(s) \/ Feed(s) \/ Report(s) \/ Receive(s) \/ Broken(s)
      PROVE  HistoryInv'
  BY <1>3, PlainSteps, ReportingSteps, PumpStep, RecordStep DEF SendStep
<1>4. ASSUME NEW f \in Files, Cancel(f)
      PROVE  HistoryInv'
  BY <1>4, CancelStep
<1>5. CASE UNCHANGED vars
  <2>1. UNCHANGED sendVars /\ client' = client
    BY <1>5 DEF vars, bridgeVars
  <2>2. QED
    BY <2>1, BridgeStep DEF HistoryInv, TypeOK
<1>6. QED
  BY <1>1, <1>2, <1>3, <1>4, <1>5 DEF Next

LEMMA HistoryInvAlways == Spec => []HistoryInv
BY HistoryInvInit, HistoryInvNext, PTL DEF Spec

(* The locals of every call, the table of cancel handles, the panel's rows  *)
(* and the history have their types in every state.                         *)
THEOREM TransfersTypeCorrect == Spec => []TypeOK
<1>1. HistoryInv => TypeOK
  BY DEF HistoryInv
<1>2. QED
  BY <1>1, HistoryInvAlways, PTL

(* A row of the outgoing history says completed exactly when the receiver   *)
(* held the whole file, canceled only if the user canceled, and what the    *)
(* panel shows, unless the send was refused, broken or one of two.          *)
THEOREM HistoryIsTrue == Spec => []HistoryTellsTheTruth
<1>1. HistoryInv => HistoryTellsTheTruth
  <2> SUFFICES ASSUME HistoryInv, NEW n \in DOMAIN history
               PROVE  LET s == history[n].send
                          status == history[n].status
                      IN /\ status = "completed" <=> send[s].answer = "whole"
                         /\ status = "canceled" => send[s].permit
                         /\ \/ send[s].answer \in {"refused", "broken"}
                            \/ \E t \in Sends \ {s} : send[t].file = send[s].file
                            \/ rows[send[s].file] = status
    BY DEF HistoryTellsTheTruth
  <2>1. PICK row : row = history[n]
    OBVIOUS
  <2>2. TrueRow(row)
    BY <2>1, RowFacts
  <2>3. QED
    BY <2>1, <2>2 DEF TrueRow, Alone
<1>2. QED
  BY <1>1, HistoryInvAlways, PTL
-----------------------------------------------------------------------------
(* The cancel handles. *)
\* The handle of f, if there is one, is that of the one send of f that runs.
Handled(f) ==
  /\ f \in DOMAIN transfers => Running(transfers[f]) /\ send[transfers[f]].file = f
  /\ \A s \in Sends : Running(s) /\ send[s].file = f =>
       f \in DOMAIN transfers /\ transfers[f] = s

HandlesInv == \A f \in Files \ doubled : Handled(f)

\* The table's type makes this the property itself.
LEMMA HandlesInvMatch == TypeOK /\ HandlesInv => HandlesMatchSends
<1> SUFFICES ASSUME TypeOK, HandlesInv, NEW f \in Files \ doubled
             PROVE  {s \in Sends : Running(s) /\ send[s].file = f}
                      = IF f \in DOMAIN transfers THEN {transfers[f]} ELSE {}
  BY DEF HandlesMatchSends
<1>1. Handled(f) /\ (f \in DOMAIN transfers => transfers[f] \in Sends)
  BY DEF HandlesInv, TypeOK, IsMap
<1>2. CASE f \in DOMAIN transfers
  BY <1>1, <1>2 DEF Handled
<1>3. CASE f \notin DOMAIN transfers
  BY <1>1, <1>3 DEF Handled
<1>4. QED
  BY <1>2, <1>3

\* A step that starts and ends no send leaves the handles as they are.
LEMMA HandlesStay ==
  ASSUME TypeOK, HandlesInv, UNCHANGED <<transfers, doubled>>,
         \A s \in Sends : (Running(s)' <=> Running(s))
                          /\ (Running(s) => send'[s].file = send[s].file)
  PROVE  HandlesInv'
<1> SUFFICES ASSUME NEW f \in Files \ doubled
             PROVE  Handled(f)'
  BY DEF HandlesInv
<1>1. Handled(f) /\ (f \in DOMAIN transfers => transfers[f] \in Sends)
  BY DEF HandlesInv, TypeOK, IsMap
<1>2. ASSUME f \in DOMAIN transfers
      PROVE  Running(transfers[f])' /\ send'[transfers[f]].file = f
  <2>1. PICK t \in Sends : t = transfers[f]
    BY <1>1, <1>2
  <2>2. Running(t) /\ send[t].file = f
    BY <1>1, <1>2, <2>1 DEF Handled
  <2>3. Running(t)' /\ send'[t].file = f
    BY <2>2
  <2>4. QED
    BY <2>1, <2>3 DEF Running
<1>3. QED
  BY <1>1, <1>2 DEF Handled

\* A send starts: it takes the handle of its file, or shares the file.
LEMMA RegisterHandles ==
  ASSUME HistoryInv, HandlesInv, NEW s \in Sends, Register(s)
  PROVE  HandlesInv'
<1>1. /\ send \in [Sends -> SendRecord] /\ IsMap(transfers, Files, Sends)
      /\ \A t \in Sends : send[t] \in SendRecord
  BY DEF HistoryInv, TypeOK
<1>2. PICK f : f = send[s].file
  OBVIOUS
<1>3. f \in Files
  BY <1>1, <1>2 DEF Register, HistoryInv, SendsCohere, Coherent
<1>4. /\ Running(s)' /\ send'[s].file = f /\ ~Running(s)
      /\ \A t \in Sends \ {s} : (Running(t)' <=> Running(t)) /\ send'[t].file = send[t].file
  BY <1>1, <1>2 DEF Register, Go, Running, SendRecord
<1>5. /\ f \in DOMAIN transfers' /\ transfers'[f] = s
      /\ DOMAIN transfers' = DOMAIN transfers \cup {f}
      /\ \A g \in DOMAIN transfers : g # f => transfers'[g] = transfers[g]
  BY <1>2 DEF Register, Put
<1>6. f \notin doubled' => \A t \in Sends \ {s} : ~(Running(t) /\ send[t].file = f)
  BY <1>2, <1>3 DEF Register
<1>7. \A g \in Files \ doubled' : Handled(g)
  BY DEF Register, HandlesInv
<1>8. ASSUME NEW g \in Files \ doubled'
      PROVE  Handled(g)'
  <2>1. CASE g = f
    BY <1>4, <1>5, <1>6, <2>1 DEF Handled, Running
  <2>2. CASE g # f
    <3>1. Handled(g) /\ (g \in DOMAIN transfers => transfers[g] \in Sends)
      BY <1>1, <1>7 DEF IsMap
    <3>2. ASSUME g \in DOMAIN transfers'
          PROVE  Running(transfers[g])' /\ send'[transfers'[g]].file = g
      <4>1. PICK t \in Sends : t = transfers[g] /\ t = transfers'[g]
        BY <1>5, <2>2, <3>1, <3>2
      <4>2. Running(t) /\ send[t].file = g
        BY <1>5, <2>2, <3>1, <3>2, <4>1 DEF Handled
      <4>3. Running(t)' /\ send'[t].file = g
        BY <1>4, <4>2
      <4>4. QED
        BY <4>1, <4>3 DEF Running
    <3>3. \A t \in Sends : Running(t)' /\ send'[t].file = g =>
            g \in DOMAIN transfers' /\ transfers'[g] = t
      BY <1>4, <1>5, <2>2, <3>1 DEF Handled
    <3>4. QED
      BY <3>2, <3>3 DEF Handled, Running
  <2>3. QED
    BY <2>1, <2>2
<1>9. QED
  BY <1>8 DEF HandlesInv

\* A send ends: the handle it removes was its own.
LEMMA FinishHandles ==
  ASSUME HistoryInv, HandlesInv, NEW s \in Sends, Finish(s)
  PROVE  HandlesInv'
<1>1. /\ send \in [Sends -> SendRecord] /\ IsMap(transfers, Files, Sends)
      /\ \A t \in Sends : send[t] \in SendRecord
  BY DEF HistoryInv, TypeOK
<1>2. PICK f : f = send[s].file
  OBVIOUS
<1>3. /\ Running(s) /\ ~Running(s)'
      /\ \A t \in Sends \ {s} : (Running(t)' <=> Running(t)) /\ send'[t].file = send[t].file
  BY <1>1 DEF Finish, Go, Running, SendRecord
<1>4. /\ DOMAIN transfers' = DOMAIN transfers \ {f}
      /\ \A g \in DOMAIN transfers : g # f => transfers'[g] = transfers[g]
  BY <1>2 DEF Finish, Drop, Restrict
<1>5. ASSUME NEW g \in Files \ doubled'
      PROVE  Handled(g)'
  <2>1. Handled(g) /\ (g \in DOMAIN transfers => transfers[g] \in Sends)
    BY <1>1 DEF Finish, HandlesInv, IsMap
  <2>2. CASE g = f
    <3>1. g \notin DOMAIN transfers'
      BY <1>4, <2>2
    <3>2. \A t \in Sends \ {s} : ~(Running(t) /\ send[t].file = g)
      BY <1>2, <1>3, <2>1, <2>2 DEF Handled
    <3>3. \A t \in Sends : ~(Running(t)' /\ send'[t].file = g)
      BY <1>3, <3>2
    <3>4. QED
      BY <3>1, <3>3 DEF Handled, Running
  <2>3. CASE g # f
    <3>1. ASSUME g \in DOMAIN transfers'
          PROVE  Running(transfers[g])' /\ send'[transfers'[g]].file = g
      <4>1. PICK t \in Sends : t = transfers[g] /\ t = transfers'[g]
        BY <1>4, <2>1, <2>3, <3>1
      <4>2. Running(t) /\ send[t].file = g
        BY <1>4, <2>1, <3>1, <4>1 DEF Handled
      <4>3. Running(t)' /\ send'[t].file = g
        BY <1>2, <1>3, <2>3, <4>2
      <4>4. QED
        BY <4>1, <4>3 DEF Running
    <3>2. \A t \in Sends : Running(t)' /\ send'[t].file = g =>
            g \in DOMAIN transfers' /\ transfers'[g] = t
      BY <1>3, <1>4, <2>1, <2>3 DEF Handled
    <3>3. QED
      BY <3>1, <3>2 DEF Handled, Running
  <2>4. QED
    BY <2>2, <2>3
<1>6. QED
  BY <1>5 DEF HandlesInv

LEMMA HandlesInvNext ==
  ASSUME HistoryInv, HandlesInv, [Next]_vars
  PROVE  HandlesInv'
<1>1. /\ send \in [Sends -> SendRecord] /\ TypeOK
      /\ \A s \in Sends : send[s] \in SendRecord
  BY DEF HistoryInv, TypeOK
<1>2. CASE UNCHANGED sendVars
  BY <1>1, <1>2, HandlesStay DEF sendVars, Running
<1>3. ASSUME NEW s \in Sends, NEW f \in Files, Begin(s, f)
      PROVE  HandlesInv'
  <2>1. \A t \in Sends : (Running(t)' <=> Running(t))
                         /\ (Running(t) => send'[t].file = send[t].file)
    BY <1>1, <1>3 DEF Begin, Running, SendRecord
  <2>2. QED
    BY <1>1, <1>3, <2>1, HandlesStay DEF Begin
<1>4. ASSUME NEW f \in Files, Cancel(f)
      PROVE  HandlesInv'
  <2>1. transfers[f] \in Sends
    BY <1>1, <1>4 DEF Cancel, TypeOK, IsMap
  <2>2. \A t \in Sends : (Running(t)' <=> Running(t))
                         /\ (Running(t) => send'[t].file = send[t].file)
    BY <1>1, <1>4, <2>1 DEF Cancel, Running, SendRecord
  <2>3. QED
    BY <1>1, <1>4, <2>2, HandlesStay DEF Cancel
<1>5. ASSUME NEW s \in Sends,
             \/ DialFails(s) \/ Refused(s) \/ Accepted(s) \/ Watch(s) \/ FeederEnds(s)
             \/ Answer(s) \/ Terminal(s) \/ Pump(s) \/ Feed(s) \/ Report(s) \/ Receive(s)
             \/ Broken(s)
      PROVE  HandlesInv'
  <2>1. \A t \in Sends \ {s} : send'[t] = send[t]
    BY <1>1, <1>5 DEF DialFails, Go, Refused, Accepted, Watch, FeederEnds, Answer, Terminal,
                      Pump, Feed, Report, Receive, Broken
  <2>2. (Running(s)' <=> Running(s)) /\ send'[s].file = send[s].file
    <3>1. CASE DialFails(s) \/ Refused(s) \/ Watch(s) \/ FeederEnds(s) \/ Terminal(s)
      BY <1>1, <3>1 DEF DialFails, Go, Refused, Watch, FeederEnds, Terminal, Running, SendRecord
    <3>2. CASE Accepted(s)
      BY <1>1, <3>2 DEF Accepted, Running, SendRecord
    <3>3. CASE Answer(s)
      BY <1>1, <3>3 DEF Answer, Running, SendRecord
    <3>4. CASE Feed(s)
      BY <1>1, <3>4 DEF Feed, Running, SendRecord
    <3>5. CASE Report(s) \/ Receive(s) \/ Pump(s)
      BY <1>1, <3>5 DEF Report, Receive, Pump, Running, SendRecord
    <3>6. CASE Broken(s)
      BY <1>1, <3>6 DEF Broken, Streaming, Running, SendRecord
    <3>7. QED
      BY <1>5, <3>1, <3>2, <3>3, <3>4, <3>5, <3>6
  <2>3. UNCHANGED <<transfers, doubled>>
    BY <1>5 DEF DialFails, Refused, Accepted, Watch, FeederEnds, Answer, Terminal,
                Pump, Feed, Report, Receive, Broken
  <2>4. \A t \in Sends : (Running(t)' <=> Running(t))
                         /\ (Running(t) => send'[t].file = send[t].file)
    BY <2>1, <2>2 DEF Running
  <2>5. QED
    BY <1>1, <2>3, <2>4, HandlesStay
<1>6. ASSUME NEW s \in Sends, Record(s)
      PROVE  HandlesInv'
  <2>1. \A t \in Sends \ {s} : send'[t] = send[t]
    BY <1>1, <1>6 DEF Record
  <2>2. ~Running(s) /\ ~Running(s)'
    BY <1>1, <1>6 DEF Record, Running, Idle
  <2>3. \A t \in Sends : (Running(t)' <=> Running(t))
                         /\ (Running(t) => send'[t].file = send[t].file)
    BY <2>1, <2>2 DEF Running
  <2>4. QED
    BY <1>1, <1>6, <2>3, HandlesStay DEF Record
<1>7. CASE UNCHANGED vars
  BY <1>2, <1>7 DEF vars
<1>8. QED
  BY <1>2, <1>3, <1>4, <1>5, <1>6, <1>7, RegisterHandles, FinishHandles DEF Next, SendStep

(* The cancel handle of a file is that of the one send of it that runs, and  *)
(* no send that runs is without one, unless two calls sent it at once.       *)
THEOREM HandlesAreTheSends == Spec => []HandlesMatchSends
<1>1. Init => HandlesInv
  <2> SUFFICES ASSUME Init
               PROVE  HandlesInv
    OBVIOUS
  <2>1. DOMAIN transfers = {} /\ \A s \in Sends : ~Running(s)
    BY DEF Init, EmptyMap, Running, Idle
  <2>2. QED
    BY <2>1 DEF HandlesInv, Handled
<1>2. HistoryInv /\ HistoryInv' /\ HandlesInv /\ [Next]_vars => HandlesInv'
  BY HandlesInvNext
<1>3. HistoryInv => TypeOK
  BY DEF HistoryInv
<1>4. QED
  BY <1>1, <1>2, <1>3, HandlesInvMatch, HistoryInvAlways, PTL DEF Spec
=============================================================================
