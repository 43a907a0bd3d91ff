------------------------------ MODULE MCSolToGlc ------------------------------
(***************************************************************************)
(* Constants of the TLC instances of SolToGlc.                             *)
(***************************************************************************)
EXTENDS SolToGlc

\* Index 1 fits the reserve alone, both together do not.
Grosses == [r \in Obligations |-> r + 1]
Nets == [r \in Obligations |-> r]
=============================================================================
