--------------------------- MODULE ActionContract ---------------------------
(***************************************************************************)
(* What the action ledger promises a marketplace, whatever the runs behind *)
(* it do: a change is attempted only when no earlier attempt at it is open *)
(* and none was accepted.  An attempt whose outcome never becomes known    *)
(* stays open, so that the change is not made again.                       *)
(***************************************************************************)
CONSTANT Changes

VARIABLES
  open,      \* the changes with an attempt that is not known to have failed
  accepted   \* the changes the marketplace accepted

Init == open = {} /\ accepted = {}

Attempt(k) ==
  /\ k \notin open \cup accepted
  /\ open' = open \cup {k}
  /\ UNCHANGED accepted

Accept(k) ==
  /\ k \in open
  /\ open' = open \ {k}
  /\ accepted' = accepted \cup {k}

Fail(k) ==
  /\ k \in open
  /\ open' = open \ {k}
  /\ UNCHANGED accepted

Next == \E k \in Changes : Attempt(k) \/ Accept(k) \/ Fail(k)

Spec == Init /\ [][Next]_<<open, accepted>>
=============================================================================
