------------------------- MODULE OutgoingTransfers -------------------------
(***************************************************************************)
(* The files the desktop sends: send_file and cancel_transfer              *)
(* (commands.rs), the table of cancel handles (state.rs) and the feeder,   *)
(* cancel watcher and progress pump of upload_file (core/remote.rs).       *)
(* A file stands for the transfer id, which is a digest of the address,    *)
(* the path and the file's size and time.                                  *)
(***************************************************************************)
EXTENDS DesktopBridge, Sequences, HashMaps

CONSTANTS
  Sends,      \* calls of send_file
  Files,
  Chunks,     \* chunks per file
  Window,     \* chunks between the feeder and the receiver's disk
  EventCap,   \* capacity of the progress channel (64)
  MaxRows     \* rows of the transfer history (500)

ASSUME TransferAssumption ==
  /\ Chunks \in Nat \ {0} /\ Window \in Nat \ {0} /\ EventCap \in Nat \ {0} /\ MaxRows \in Nat \ {0}
  \* None is not a file, and not what a receiver answers or the panel shows.
  /\ None \notin Files
  /\ None \notin {"refused", "broken", "whole", "corrupt", "short"}
  /\ None \notin {"progress", "completed", "canceled", "failed"}

VARIABLES
  send,       \* [Sends -> the call's locals and its three tasks]
  transfers,  \* cancel handles: file -> the send that holds the Notify
  history,    \* the daemon's rows of sends, oldest first: [send, status]
  rows,       \* the panel's rows: file -> last event shown
  doubled     \* ghost: files two calls were sending at once

sendVars == <<send, transfers, history, rows, doubled>>
vars == <<bridgeVars, sendVars>>

Idle == [pc |-> "idle", file |-> None, daemon |-> None, permit |-> FALSE, flag |-> FALSE,
         feeder |-> "none", sent |-> 0, got |-> 0, answer |-> None, chan |-> <<>>, last |-> None]

Init ==
  /\ BridgeInit
  /\ send = [s \in Sends |-> Idle]
  /\ transfers = EmptyMap
  /\ history = <<>>
  /\ rows = EmptyMap
  /\ doubled = {}

Running(s) == send[s].pc \in {"prepare", "upload", "finish"}
Go(s, pc) == send' = [send EXCEPT ![s].pc = pc]

-----------------------------------------------------------------------------
(* send_file, up to the upload. *)

\* The connecting screen covers the panel until it is connected.
\* require_client: the handle to the daemon is the one of this moment.
Begin(s, f) ==
  /\ panel.connected /\ panel.listens
  /\ send[s].pc = "idle" /\ client # None /\ Spend("sends")
  /\ send' = [send EXCEPT ![s].pc = "dial", ![s].file = f, ![s].daemon = client]
  /\ UNCHANGED <<procs, child, calls, client, bridge, panel, transfers, history, rows, doubled>>

\* connect_with_tofu fails: nothing was registered and nothing is recorded.
DialFails(s) ==
  /\ send[s].pc = "dial"
  /\ Go(s, "ended")
  /\ UNCHANGED <<bridgeVars, transfers, history, rows, doubled>>

\* register_transfer: a handle another call left under this id is overwritten.
Register(s) ==
  /\ send[s].pc = "dial"
  /\ Go(s, "prepare")
  /\ transfers' = Put(transfers, send[s].file, s)
  /\ doubled' = doubled \cup {f \in Files : f = send[s].file
                                 /\ \E t \in Sends \ {s} : Running(t) /\ send[t].file = f}
  /\ UNCHANGED <<bridgeVars, history, rows>>

\* An unreadable file, an RPC error, no offer, or a declined one.
Refused(s) ==
  /\ send[s].pc = "prepare"
  /\ send' = [send EXCEPT ![s].pc = "finish", ![s].answer = "refused"]
  /\ UNCHANGED <<bridgeVars, transfers, history, rows, doubled>>

\* The receiver says how much it already holds.
Accepted(s) ==
  /\ send[s].pc = "prepare"
  /\ \E offset \in 0..Chunks :
       send' = [send EXCEPT ![s].pc = "upload", ![s].feeder = "reading",
                            ![s].sent = offset, ![s].got = offset]
  /\ UNCHANGED <<bridgeVars, transfers, history, rows, doubled>>

-----------------------------------------------------------------------------
(* upload_file: watcher, feeder, receiver, answer. *)

\* notify_one before the watcher waits is kept as its permit.
Watch(s) ==
  /\ send[s].pc = "upload" /\ send[s].permit /\ ~send[s].flag
  /\ send' = [send EXCEPT ![s].flag = TRUE]
  /\ UNCHANGED <<bridgeVars, transfers, history, rows, doubled>>

Streaming(s) == send[s].pc = "upload" /\ send[s].answer = None

Feed(s) ==
  /\ send[s].feeder = "reading" /\ Streaming(s)
  /\ ~send[s].flag /\ send[s].sent < Chunks
  /\ send[s].sent - send[s].got < Window
  /\ \E next \in {"reading", "reporting"} :  \* at most one report per 250 ms
       send' = [send EXCEPT ![s].sent = @ + 1, ![s].feeder = next]
  /\ UNCHANGED <<bridgeVars, transfers, history, rows, doubled>>

Report(s) ==
  /\ send[s].feeder = "reporting" /\ Len(send[s].chan) < EventCap
  /\ send' = [send EXCEPT ![s].feeder = "reading", ![s].chan = Append(@, "progress")]
  /\ UNCHANGED <<bridgeVars, transfers, history, rows, doubled>>

\* Canceled, at the end of the file, unreadable, or the stream has no reader.
FeederEnds(s) ==
  /\ send[s].feeder = "reading"
  /\ send' = [send EXCEPT ![s].feeder = "done"]
  /\ UNCHANGED <<bridgeVars, transfers, history, rows, doubled>>

Receive(s) ==
  /\ Streaming(s) /\ send[s].got < send[s].sent
  /\ send' = [send EXCEPT ![s].got = @ + 1]
  /\ UNCHANGED <<bridgeVars, transfers, history, rows, doubled>>

\* The stream was closed: the receiver, daemon or phone, verifies what it has.
Answer(s) ==
  /\ Streaming(s) /\ send[s].feeder = "done" /\ send[s].got = send[s].sent
  /\ \E a \in IF send[s].got = Chunks THEN {"whole", "corrupt"} ELSE {"short"} :
       send' = [send EXCEPT ![s].answer = a]
  /\ UNCHANGED <<bridgeVars, transfers, history, rows, doubled>>

\* An RPC error returns at once: no terminal event, and the feeder is not awaited.
Broken(s) ==
  /\ Streaming(s)
  /\ send' = [send EXCEPT ![s].answer = "broken", ![s].pc = "finish"]
  /\ UNCHANGED <<bridgeVars, transfers, history, rows, doubled>>

OutcomeMut(s) == IF send[s].flag THEN "canceled"
                 ELSE IF send[s].answer = "whole" THEN "completed" ELSE "failed"
Outcome(s) == IF send[s].answer = "whole" THEN "completed"
              ELSE IF send[s].flag THEN "canceled" ELSE "failed"

Terminal(s) ==
  /\ send[s].pc = "upload" /\ send[s].answer # None
  /\ send[s].feeder = "done" /\ Len(send[s].chan) < EventCap
  /\ send' = [send EXCEPT ![s].pc = "finish", ![s].chan = Append(@, Outcome(s))]
  /\ UNCHANGED <<bridgeVars, transfers, history, rows, doubled>>

-----------------------------------------------------------------------------
(* send_file, from the upload's result on. *)

FinishMut(s) ==
  /\ send[s].pc = "finish"
  /\ Go(s, "drain")
  /\ transfers' = IF send[s].answer \in {"refused", "broken"} THEN transfers
                  ELSE Drop(transfers, send[s].file)
  /\ UNCHANGED <<bridgeVars, history, rows, doubled>>
Finish(s) ==
  /\ send[s].pc = "finish"
  /\ Go(s, "drain")
  /\ transfers' = Drop(transfers, send[s].file)
  /\ UNCHANGED <<bridgeVars, history, rows, doubled>>

PumpMut(s) ==
  /\ send[s].pc = "drain" /\ send[s].chan # <<>>
  /\ send' = [send EXCEPT ![s].last = Head(send[s].chan), ![s].chan = Tail(@)]
  /\ rows' = Put(rows, send[s].file, Head(send[s].chan))
  /\ UNCHANGED <<bridgeVars, transfers, history, doubled>>
Pump(s) ==
  /\ send[s].chan # <<>>
  /\ send' = [send EXCEPT ![s].last = Head(send[s].chan), ![s].chan = Tail(@)]
  /\ rows' = Put(rows, send[s].file, Head(send[s].chan))
  /\ UNCHANGED <<bridgeVars, transfers, history, doubled>>

StatusOf(s) ==
  CASE send[s].last \in {"completed", "canceled"} -> send[s].last
    [] send[s].last = None /\ send[s].answer = "whole" -> "completed"
    [] OTHER -> "failed"

\* record: an insert, and a trim to the newest rows.
Trimmed(table) ==
  IF Len(table) > MaxRows THEN SubSeq(table, Len(table) - MaxRows + 1, Len(table)) ELSE table
RecordTransferHistory(s) ==
  history' = Trimmed(Append(history, [send |-> s, status |-> StatusOf(s)]))

\* The pump ends when every sender of its channel is gone, the feeder's too.
\* The row is lost if no daemon is there, or the connection's loss shows only now.
Record(s) ==
  /\ send[s].pc = "drain" /\ send[s].chan = <<>> /\ send[s].feeder \in {"none", "done"}
  /\ send' = [send EXCEPT ![s] = [Idle EXCEPT !.pc = "ended", !.file = send[s].file,
                            !.permit = send[s].permit, !.answer = send[s].answer]]
  /\ \/ Serving # {} /\ RecordTransferHistory(s)
     \/ send[s].daemon \notin Serving /\ history' = history
  /\ UNCHANGED <<bridgeVars, transfers, rows, doubled>>

\* The cancel button of an active row.
Cancel(f) ==
  /\ f \in DOMAIN rows /\ rows[f] = "progress" /\ f \in DOMAIN transfers
  /\ send' = [send EXCEPT ![transfers[f]].permit = TRUE]
  /\ UNCHANGED <<bridgeVars, transfers, history, rows, doubled>>

SendStep(s) ==
  \/ DialFails(s) \/ Register(s) \/ Refused(s) \/ Accepted(s) \/ Watch(s)
  \/ FeederEnds(s) \/ Answer(s) \/ Terminal(s) \/ Finish(s) \/ Pump(s) \/ Record(s)

Next ==
  \/ BridgeNext /\ UNCHANGED sendVars
  \/ \E s \in Sends : \/ \E f \in Files : Begin(s, f)
                      \/ SendStep(s) \/ Feed(s) \/ Report(s) \/ Receive(s)
                      \/ Broken(s)
  \/ \E f \in Files : Cancel(f)

Spec == Init /\ [][Next]_vars

\* Every task is scheduled, the peer answers or its connection breaks.
FairSpec ==
  /\ Spec /\ BridgeFairness
  /\ \A s \in Sends : /\ WF_vars(DialFails(s) \/ Register(s))
                      /\ WF_vars(Refused(s) \/ Accepted(s))
                      /\ WF_vars(Feed(s) \/ Report(s) \/ FeederEnds(s))
                      /\ WF_vars(Receive(s) \/ Answer(s))
                      /\ WF_vars(Terminal(s) \/ Finish(s))
                      /\ WF_vars(Pump(s))
                      /\ WF_vars(Record(s))

-----------------------------------------------------------------------------
(* The outgoing row the daemon keeps says what happened: completed exactly  *)
(* when the receiver had the whole file, canceled only when the user        *)
(* canceled. The panel's row says the same, except after an RPC error or a  *)
(* refusal, which have no terminal event: the row of such a send stays      *)
(* active although the comment in send_file says the last event is always   *)
(* the terminal one.                                                        *)
HistoryTellsTheTruth ==
  \A n \in DOMAIN history :
    LET s == history[n].send
        status == history[n].status
    IN /\ status = "completed" <=> send[s].answer = "whole"
       /\ status = "canceled" => send[s].permit
       /\ \/ send[s].answer \in {"refused", "broken"}
          \/ \E t \in Sends \ {s} : send[t].file = send[s].file
          \/ rows[send[s].file] = status

(* The cancel handles are those of the sends that run, so that the button   *)
(* of an active row always reaches its send; unless two calls sent the same *)
(* file at once, when the second hides the first and the first to finish    *)
(* removes the handle of the other.                                         *)
HandlesMatchSends ==
  \A f \in Files \ doubled :
    {s \in Sends : Running(s) /\ send[s].file = f}
      = IF f \in DOMAIN transfers THEN {transfers[f]} ELSE {}

(* A send ends: feeder, progress channel, pump, receiver and the call that  *)
(* awaits them never wait on each other in a circle, canceled or not.       *)
SendsEnd == \A s \in Sends : send[s].pc # "idle" ~> send[s].pc = "ended"
=============================================================================
