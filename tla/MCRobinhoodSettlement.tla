------------------------ MODULE MCRobinhoodSettlement ------------------------
(***************************************************************************)
(* Constants of the TLC instances of RobinhoodSettlement.                  *)
(***************************************************************************)
EXTENDS RobinhoodSettlement

\* Two amounts that no sum confuses.
Nets == [r \in Requests |-> r]
=============================================================================
