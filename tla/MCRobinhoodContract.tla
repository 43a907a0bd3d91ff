------------------------- MODULE MCRobinhoodContract -------------------------
(* A small deployment: four addresses, two limit records, canonical scale 2. *)
EXTENDS RobinhoodContract, TLC

Lim(max, rolling, floor) ==
  [inboundMin |-> 2, inboundMax |-> max, inboundRolling |-> rolling,
   outboundMin |-> 2, outboundMax |-> max, outboundRolling |-> rolling,
   protectedMin |-> floor]

FewLimits == {Lim(2, 4, 2), Lim(2, 2, 4)}
TheFirstLimits == Lim(2, 4, 2)
=============================================================================
