----------------------------- MODULE Downloads -----------------------------
(***************************************************************************)
(* What receiving files promises of the download directory: a copy appears *)
(* there complete, under a name that was free, and stays as it is.         *)
(***************************************************************************)
CONSTANTS
  Copies, \* the received copies of files
  Names,  \* the names they ask for
  Slots   \* "name", "name (1)", "name (2)", ...

VARIABLE shelf  \* [Names \X Slots -> the copy under that name, at most one]

Init == shelf = [e \in Names \X Slots |-> {}]

Deliver(c, e) ==
  /\ shelf[e] = {}
  /\ shelf' = [shelf EXCEPT ![e] = {c}]

Next == \E c \in Copies, e \in Names \X Slots : Deliver(c, e)

Spec == Init /\ [][Next]_shelf
=============================================================================
