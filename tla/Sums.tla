-------------------------------- MODULE Sums --------------------------------
(***************************************************************************)
(* The sum of a quantity over a finite set, as the accounting properties   *)
(* of the modules state it.  SumsProofs proves the laws it obeys.          *)
(***************************************************************************)
EXTENDS FiniteSetsExt

\* The sum of w[x] for all x in S.
SumOver(w, S) == MapThenSumSet(LAMBDA x : w[x], S)
=============================================================================
