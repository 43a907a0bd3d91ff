--------------------------- MODULE DepositOutcome ---------------------------
(***************************************************************************)
(* What the bridge promises of every deposit, whichever chains it runs     *)
(* between: it ends at most once, paid on the destination chain,           *)
(* returned on the source chain or closed in another way, and an outcome   *)
(* is never undone. The detailed modules implement this specification.     *)
(***************************************************************************)

CONSTANTS
  Deposits,  \* identities of deposits
  Ways       \* the ways in which one can end

\* outcome[d]: the ways in which deposit d has ended so far.
VARIABLE outcome

Init == outcome = [d \in Deposits |-> {}]

End(d, way) ==
  /\ outcome[d] = {}
  /\ outcome' = [outcome EXCEPT ![d] = {way}]

Next == \E d \in Deposits, way \in Ways : End(d, way)

Spec == Init /\ [][Next]_outcome
=============================================================================
