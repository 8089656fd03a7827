---------------------------- MODULE PinLifecycle ----------------------------
(***************************************************************************)
(* What the pairing manager promises about one PIN, whoever asks for it    *)
(* and however the calls interleave.  A PIN is minted once, is live for at *)
(* most one requester, survives fewer than MaxAttempts wrong guesses, and  *)
(* is accepted at most once and only before its deadline.  A dead or a     *)
(* paired PIN never comes back.                                            *)
(***************************************************************************)
EXTENDS Naturals

CONSTANTS Pins,         \* the PIN codes that may be drawn
          PinTTL,       \* lifetime of a PIN
          MaxAttempts   \* wrong guesses that lock a PIN out

VARIABLES clock,        \* wall clock
          life,         \* life[p]: where PIN p is in its life
          born,         \* born[p]: when p was minted (0 before)
          wrong         \* wrong[p]: wrong guesses made against p

pvars == <<clock, life, born, wrong>>

Stage == {"unborn", "armed", "issued", "live", "paired", "dead"}

\* The stages a PIN may move to from each stage.
Moves == { <<"unborn", "armed">>, <<"unborn", "issued">>,
           <<"armed", "issued">>, <<"armed", "dead">>,
           <<"issued", "live">>,
           <<"live", "paired">>, <<"live", "dead">> }

Init == /\ clock = 0
        /\ life = [p \in Pins |-> "unborn"]
        /\ born = [p \in Pins |-> 0]
        /\ wrong = [p \in Pins |-> 0]

Tick == clock' = clock + 1 /\ UNCHANGED <<life, born, wrong>>

\* One PIN keeps its stage or moves; minting it stamps it, pairing with it
\* needs it to be in time and not locked out.
Progress(p) ==
  /\ life'[p] = life[p] \/ <<life[p], life'[p]>> \in Moves
  /\ born'[p] = IF life[p] = "unborn" /\ life'[p] # "unborn" THEN clock ELSE born[p]
  /\ wrong'[p] = wrong[p] \/ (life[p] = "live" /\ wrong'[p] = wrong[p] + 1)
  /\ (life[p] = "live" /\ wrong'[p] = MaxAttempts) => life'[p] = "dead"
  /\ (life[p] = "live" /\ life'[p] = "paired") =>
        clock <= born[p] + PinTTL /\ wrong'[p] = wrong[p]

\* One call of the manager: it mints at most one PIN and pairs at most one.
Step ==
  /\ UNCHANGED clock
  /\ life' \in [Pins -> Stage]
  /\ born' = [p \in Pins |-> born'[p]]
  /\ wrong' = [p \in Pins |-> wrong'[p]]
  /\ \A p \in Pins : Progress(p)
  /\ \A p, q \in Pins : \A s \in {"unborn", "live"} :
        /\ life[p] = s /\ life'[p] \in {"issued", "armed", "paired"}
        /\ life[q] = s /\ life'[q] \in {"issued", "armed", "paired"}
        => p = q

Next == Tick \/ Step

Spec == Init /\ [][Next]_pvars
=============================================================================
