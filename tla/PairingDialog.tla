--------------------------- MODULE PairingDialog ---------------------------
(***************************************************************************)
(* How a pairing request reaches the local user: the daemon's two          *)
(* broadcast channels, the tasks that forward each of them into one local  *)
(* event stream (SubscribeLocalEvents), and the desktop's single PIN       *)
(* dialog (hooks/useDaemon.ts and components/PairingDialog.tsx).           *)
(***************************************************************************)
EXTENDS Pairing

VARIABLES
  inbox,          \* the merged local event stream, in delivery order
  prompt,         \* pairingPrompt: the request shown, a set with at most one
  justCompleted,  \* pairingJustCompleted
  paired,         \* the mounted dialog shows the success beat
  closing,        \* the dialog's 700 ms close timer is armed
  missed          \* ghost: PINs whose announcement the full channel dropped

uiVars == <<inbox, prompt, justCompleted, paired, closing, missed>>
dialogVars == <<vars, uiVars>>

Request == [dev : Devices, code : Pins]

\* The dialog's state is well typed: pairingPrompt holds one request or none, whatever
\* the order in which useDaemon.ts receives the two kinds of event.
DialogTypeOK ==
  /\ inbox \in Seq([kind : {"requested"}, req : Request] \cup [kind : {"completed"}, dev : Devices])
  /\ prompt \in {{}} \cup {{r} : r \in Request}
  /\ <<justCompleted, paired, closing>> \in BOOLEAN \X BOOLEAN \X BOOLEAN
  /\ missed \in SUBSET Pins

DialogInit ==
  /\ Init
  /\ inbox = <<>> /\ prompt = {}
  /\ justCompleted = FALSE /\ paired = FALSE /\ closing = FALSE
  /\ missed = {}

-----------------------------------------------------------------------------
(* One forwarding task per channel: the order between channels is not kept. *)

ForwardRequested ==
  /\ requested # <<>>
  /\ inbox' = Append(inbox, [kind |-> "requested", req |-> Head(requested)])
  /\ requested' = Tail(requested)
  /\ UNCHANGED <<clock, pending, lastCreated, prearmed, calls, completed, hist,
                 prompt, justCompleted, paired, closing, missed>>

ForwardCompleted ==
  /\ completed # <<>>
  /\ inbox' = Append(inbox, [kind |-> "completed", dev |-> Head(completed)])
  /\ completed' = Tail(completed)
  /\ UNCHANGED <<clock, pending, lastCreated, prearmed, calls, requested, hist,
                 prompt, justCompleted, paired, closing, missed>>

ShowRequestKeepTimerMut(req) ==
  /\ prompt' = {req}
  /\ justCompleted' = FALSE
  /\ UNCHANGED closing
  /\ paired' = (paired /\ prompt # {})
ShowRequestIfFreeMut(req) ==
  /\ prompt' = (IF prompt = {} THEN {req} ELSE prompt)
  /\ UNCHANGED <<justCompleted, closing, paired>>
ShowRequestStackMut(req) ==
  /\ prompt' = prompt \cup {req}
  /\ justCompleted' = FALSE
  /\ closing' = FALSE
  /\ UNCHANGED paired
\* A new request replaces the prompt; if that turns justCompleted off, the effect's
\* cleanup clears the timer.  A mounted dialog keeps its paired flag.
ShowRequest(req) ==
  /\ prompt' = {req}
  /\ justCompleted' = FALSE
  /\ closing' = FALSE
  /\ paired' = (paired /\ prompt # {})

DeliverRequested ==
  /\ inbox # <<>> /\ Head(inbox).kind = "requested"
  /\ ShowRequest(Head(inbox).req)
  /\ inbox' = Tail(inbox)
  /\ UNCHANGED <<vars, missed>>

\* The mounted dialog's effect runs when justCompleted turns on and it is not paired yet.
ShowCompleted ==
  /\ justCompleted' = TRUE
  /\ LET beat == prompt # {} /\ ~justCompleted /\ ~paired IN
       /\ paired' = (paired \/ beat)
       /\ closing' = (closing \/ beat)
  /\ UNCHANGED prompt

DeliverCompleted ==
  /\ inbox # <<>> /\ Head(inbox).kind = "completed"
  /\ ShowCompleted
  /\ inbox' = Tail(inbox)
  /\ UNCHANGED <<vars, missed>>

\* dismissPairingPrompt: the dialog unmounts.
DismissPrompt ==
  /\ prompt' = {}
  /\ justCompleted' = FALSE /\ paired' = FALSE /\ closing' = FALSE
  /\ UNCHANGED <<vars, inbox, missed>>

CloseTimer == closing /\ DismissPrompt
UserDismiss == prompt # {} /\ DismissPrompt

UiNext == ForwardRequested \/ ForwardCompleted \/ DeliverRequested \/ DeliverCompleted
            \/ CloseTimer \/ UserDismiss

\* A receiver that lags skips what the channel no longer holds.
ManagerStep ==
  /\ Next
  /\ missed' = missed \cup {m.code : m \in Range(requested) \ Range(requested')}
  /\ UNCHANGED <<inbox, prompt, justCompleted, paired, closing>>

DialogNext == ManagerStep \/ UiNext

DialogSpec == DialogInit /\ [][DialogNext]_dialogVars

\* The forwarding tasks, the webview's event loop and its timers run; nothing is
\* assumed of the peers, of the clock or of the user.
DialogFairness ==
  /\ WF_dialogVars(ForwardRequested) /\ WF_dialogVars(ForwardCompleted)
  /\ WF_dialogVars(DeliverRequested) /\ WF_dialogVars(DeliverCompleted)
  /\ WF_dialogVars(CloseTimer)

FairDialogSpec == DialogSpec /\ DialogFairness

-----------------------------------------------------------------------------
(* Properties. *)

\* The close timer of one pairing never dismisses the PIN of the next: while it is
\* armed, the prompt on screen is the one the success beat was shown for.
TimerClosesOnlyPaired == closing => (paired /\ justCompleted /\ prompt # {})

\* Every PIN the daemon announces comes on screen, also while another one is shown:
\* the newest request wins.  Only a channel that fills up may drop one.
EveryRequestShown ==
  \A p \in Pins : (\E i \in DOMAIN requested : requested[i].code = p)
                    ~> (p \in missed \/ \E r \in prompt : r.code = p)

\* Who reads the dialog reads the PIN that confirm will check: unless a call of that
\* requester is running or a newer announcement of its is still on the way, or was dropped.
OnTheWay(d) ==
  \/ \E t \in DOMAIN calls : calls[t].dev = d
  \/ \E i \in DOMAIN requested : requested[i].dev = d
  \/ \E i \in DOMAIN inbox : inbox[i].kind = "requested" /\ inbox[i].req.dev = d
ShownPinIsChecked ==
  \A r \in prompt : (r.dev \in DOMAIN pending /\ ~OnTheWay(r.dev))
                     => pending[r.dev].code \in missed \cup {r.code}
=============================================================================
