------------------------------ MODULE MCPhone ------------------------------
(***************************************************************************)
(* A phone's session with its peers, and the clipboard sync that runs on   *)
(* an open one.  They share no state, so each is explored on its own.      *)
(***************************************************************************)
EXTENDS ClipboardSync, PhoneSession

VARIABLE part  \* the component whose behaviour this is

Budget(taps, outages) == [b \in {"taps", "outages"} |-> IF b = "taps" THEN taps ELSE outages]
MCSessionBudgets == {Budget(2, 1), Budget(3, 0), Budget(1, 2)}

-----------------------------------------------------------------------------
PhoneInit == /\ Init /\ SessionInit
             /\ part \in {"clipboard", "session"}
             \* The clipboard needs no budget of the session: one value will do.
             /\ part = "clipboard" => sessionLeft = CHOOSE b \in SessionBudgets : TRUE

PhoneNext ==
  \/ part = "clipboard" /\ Next /\ UNCHANGED <<sessionVars, part>>
  \/ part = "session" /\ SessionNext /\ UNCHANGED <<vars, part>>

\* No action that is fair is enabled in a part that rests in its initial state.
PhoneSpec == PhoneInit /\ [][PhoneNext]_<<vars, sessionVars, part>> /\ ClipFairness /\ SessionFairness
=============================================================================
