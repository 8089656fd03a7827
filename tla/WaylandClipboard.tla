-------------------------- MODULE WaylandClipboard --------------------------
(***************************************************************************)
(* The Wayland clipboard (clipboard/wayland_backend.rs): a thread          *)
(* dispatches the compositor's events, one reader thread per selection     *)
(* fetches its data through a pipe, and the owner of a selection writes    *)
(* into that pipe: this daemon for what it set itself.                     *)
(* Selections are numbered in the order the compositor made them.          *)
(***************************************************************************)
EXTENDS Integers, Sequences, HashMaps

CONSTANT CopyBudgets  \* bounds of the model: a record of budgets

VARIABLES
  made,       \* ghost: the selections, [by: "us" or "app", kind]
  wayland,    \* events the event-loop thread has yet to dispatch
  serving,    \* the request the event-loop thread is writing data for, or NoRequest
  readers,    \* reader threads: selection -> what is in its pipe
  latest,     \* latest_selection: [of: the selection it came from, kind]
  source,     \* active_source: the selection it offers, or 0
  finished,
  copyLeft,   \* budgets
  overtaken   \* ghost: the newest outcome was overwritten by an older reader, or never came

clipVars == <<made, wayland, serving, readers, latest, source, finished, copyLeft, overtaken>>

Msg(kind, n) == [kind |-> kind, of |-> n]
NoRequest == Msg("nothing", 0)
\* The pipe of request e, if a reader still holds its other end.
Pipe(e, what) ==
  IF e.kind = "send" /\ e.of \in DOMAIN readers THEN Put(readers, e.of, what) ELSE readers

CopyInit ==
  /\ made = <<[by |-> "app", kind |-> "none"]>>
  /\ wayland = <<>> /\ serving = NoRequest /\ readers = EmptyMap
  /\ latest = [of |-> 1, kind |-> "none"]
  /\ source = 0 /\ finished = FALSE
  /\ copyLeft \in CopyBudgets
  /\ overtaken = FALSE

CopySpend(what) ==
  /\ copyLeft[what] > 0
  /\ copyLeft' = [copyLeft EXCEPT ![what] = @ - 1]

Newest == Len(made)
\* What the cache should hold for selection n.
Outcome(n) == IF made[n].kind = "text" THEN "text" ELSE "none"

-----------------------------------------------------------------------------
(* The compositor and the other clients. *)

\* Another client copies text, copies what we cannot read, or clears.
OtherCopies(kind) ==
  /\ CopySpend("copies")
  /\ made' = Append(made, [by |-> "app", kind |-> kind])
  /\ wayland' = Append(wayland, Msg("selection", Newest + 1))
  /\ UNCHANGED <<serving, readers, latest, source, finished, overtaken>>

\* Another client pastes what we offer.
OtherPastes ==
  /\ source = Newest /\ CopySpend("pastes")
  /\ wayland' = Append(wayland, Msg("paste", source))
  /\ UNCHANGED <<made, serving, readers, latest, source, finished, overtaken>>

\* The owner of a selection writes its data, or exits first.
OtherWrites(n) ==
  /\ n \in DOMAIN readers /\ readers[n] = "asked" /\ made[n].by = "app"
  /\ \/ readers' = Put(readers, n, "data") /\ UNCHANGED copyLeft
     \/ CopySpend("faults") /\ readers' = Put(readers, n, "nothing")
  /\ UNCHANGED <<made, wayland, serving, latest, source, finished, overtaken>>

\* The seat goes away: the device is finished.
SeatLost ==
  /\ CopySpend("losses")
  /\ wayland' = Append(wayland, Msg("finished", 0))
  /\ UNCHANGED <<made, serving, readers, latest, source, finished, overtaken>>

-----------------------------------------------------------------------------
(* set_content, by the poll loop or a peer's frame. *)

\* The new source takes the selection; the previous one is destroyed.
WaylandSetContent ==
  /\ ~finished /\ CopySpend("sets")
  /\ made' = Append(made, [by |-> "us", kind |-> "text"])
  /\ wayland' = Append(wayland, Msg("selection", Newest + 1))
  /\ source' = Newest + 1
  /\ UNCHANGED <<serving, readers, latest, finished, overtaken>>

-----------------------------------------------------------------------------
(* The event-loop thread. *)

ReadInHandlerMut ==
  /\ wayland # <<>> /\ serving = NoRequest /\ wayland' = Tail(wayland)
  /\ \A n \in DOMAIN readers : readers[n] # "asked"
Dispatching == wayland # <<>> /\ serving = NoRequest /\ wayland' = Tail(wayland)
Event == Head(wayland)

\* latest_selection := the outcome of selection n.
Store(n, kind) ==
  /\ latest' = [of |-> n, kind |-> kind]
  /\ overtaken' = (n # Newest \/ kind # Outcome(n))

\* The compositor asks the owner to write: the daemon through its own event loop.
\* An offer that was superseded may have lost its owner: its pipe is closed.
Ask(n) ==
  \/ /\ readers' = Put(readers, n, "asked")
     /\ wayland' = IF made[n].by = "us" THEN Append(Tail(wayland), Msg("send", n))
                   ELSE Tail(wayland)
  \/ /\ n # Newest
     /\ readers' = Put(readers, n, "nothing")
     /\ wayland' = Tail(wayland)

\* Selection: no offer, or none of SUPPORTED_MIME_TYPES, empties the cache.
KeepUnsupportedMut ==
  /\ Dispatching /\ Event.kind = "selection" /\ Outcome(Event.of) = "none"
  /\ IF made[Event.of].kind = "none" THEN Store(Event.of, "none")
     ELSE UNCHANGED <<latest, overtaken>>
  /\ UNCHANGED <<made, serving, readers, source, finished, copyLeft>>
SelectionEmpty ==
  /\ Dispatching /\ Event.kind = "selection" /\ Outcome(Event.of) = "none"
  /\ Store(Event.of, "none")
  /\ UNCHANGED <<made, serving, readers, source, finished, copyLeft>>

\* Selection: request_offer_read, and a thread that reads the pipe.
SelectionOffer ==
  /\ wayland # <<>> /\ serving = NoRequest
  /\ Event.kind = "selection" /\ Outcome(Event.of) = "text"
  /\ Ask(Event.of)
  /\ UNCHANGED <<made, serving, latest, source, finished, copyLeft, overtaken>>

\* No pipe, no flush or no thread: the cache keeps what it has.
SelectionFails ==
  /\ Dispatching /\ Event.kind = "selection" /\ Outcome(Event.of) = "text"
  /\ CopySpend("faults")
  /\ overtaken' = (overtaken \/ Event.of = Newest)
  /\ UNCHANGED <<made, serving, readers, latest, source, finished>>

\* Send: the data is written here, in the event-loop thread; a request for a
\* source that was destroyed is dropped with its end of the pipe.
SendStarts ==
  /\ Dispatching /\ Event.kind \in {"send", "paste"} /\ Event.of = source
  /\ serving' = Event
  /\ UNCHANGED <<made, readers, latest, source, finished, copyLeft, overtaken>>
SendDropped ==
  /\ Dispatching /\ Event.kind \in {"send", "paste"} /\ Event.of # source
  /\ readers' = Pipe(Event, "nothing")
  /\ UNCHANGED <<made, serving, latest, source, finished, copyLeft, overtaken>>

\* write_all returns once the other end has read it all.
SendEnds ==
  /\ serving # NoRequest
  /\ serving' = NoRequest
  /\ readers' = Pipe(serving, "data")
  /\ UNCHANGED <<made, wayland, latest, source, finished, copyLeft, overtaken>>

DeviceFinished ==
  /\ Dispatching /\ Event.kind = "finished"
  /\ finished' = TRUE
  /\ UNCHANGED <<made, serving, readers, latest, source, copyLeft, overtaken>>

\* blocking_dispatch fails: the connection is gone, and with it every event
\* and every pipe nobody has written into.
LoopEnds ==
  /\ ~finished /\ copyLeft["losses"] > 0
  /\ copyLeft' = [b \in DOMAIN copyLeft |-> 0]
  /\ finished' = TRUE
  /\ wayland' = <<>> /\ serving' = NoRequest
  /\ readers' = [n \in DOMAIN readers |-> IF readers[n] = "asked" THEN "nothing" ELSE readers[n]]
  /\ overtaken' = TRUE
  /\ UNCHANGED <<made, latest, source>>

-----------------------------------------------------------------------------
(* A reader thread. *)

\* The pipe is at its end: what came out of it is the latest selection now.
ReaderDone(n) ==
  /\ n \in DOMAIN readers /\ readers[n] # "asked"
  /\ readers' = Drop(readers, n)
  /\ Store(n, IF readers[n] = "data" THEN "text" ELSE "empty")
  /\ UNCHANGED <<made, wayland, serving, source, finished, copyLeft>>

\* The read fails and is only logged.
ReaderFails(n) ==
  /\ n \in DOMAIN readers /\ CopySpend("faults")
  /\ readers' = Drop(readers, n)
  /\ overtaken' = (overtaken \/ n = Newest)
  /\ UNCHANGED <<made, wayland, serving, latest, source, finished>>

-----------------------------------------------------------------------------
CopyNext ==
  \/ \E kind \in {"text", "other", "none"} : OtherCopies(kind)
  \/ OtherPastes \/ SeatLost \/ WaylandSetContent
  \/ SelectionEmpty \/ SelectionOffer \/ SelectionFails
  \/ SendStarts \/ SendDropped \/ SendEnds \/ DeviceFinished \/ LoopEnds
  \/ \E n \in 1..Newest : OtherWrites(n) \/ ReaderDone(n) \/ ReaderFails(n)

CopySpec == CopyInit /\ [][CopyNext]_clipVars

\* The thread dispatches, and a client that asks for data, or is asked for
\* some, reads or writes it: nothing in the code times out.
CopyFairness ==
  /\ WF_clipVars(SelectionEmpty) /\ WF_clipVars(SelectionOffer \/ SelectionFails)
  /\ WF_clipVars(SendStarts) /\ WF_clipVars(SendDropped) /\ WF_clipVars(SendEnds)
  /\ WF_clipVars(DeviceFinished)
  /\ WF_clipVars(\E n \in 1..Newest : OtherWrites(n))
  /\ WF_clipVars(\E n \in 1..Newest : ReaderDone(n))

-----------------------------------------------------------------------------
(* Properties. *)

\* When nothing is under way, the cache holds what the newest selection holds,
\* its text or nothing; it can only be older when a reader thread of an older
\* selection finished last, or the newest one could not be read.
LatestIsNewest ==
  (wayland = <<>> /\ readers = EmptyMap /\ serving = NoRequest)
    => \/ overtaken
       \/ latest = [of |-> Newest, kind |-> Outcome(Newest)]

\* Every selection is read to its end, the daemon's own too, which the same
\* thread has to serve: neither waits for the other.
SelectionsAreRead == <>[](wayland = <<>> /\ readers = EmptyMap /\ serving = NoRequest)
=============================================================================
