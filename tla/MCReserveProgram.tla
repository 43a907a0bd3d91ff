--------------------------- MODULE MCReserveProgram ---------------------------
(***************************************************************************)
(* Constants of the two TLC instances of ReserveProgram: settlement (two   *)
(* keys, one deposit, two obligations, a limit change) and governance (key *)
(* rotations, treasury policies and admins, with an outflow in between).   *)
(***************************************************************************)
EXTENDS ReserveProgram

CONSTANTS k1, k2, k3, vault, t1, t2

OneKeySet == {[keys |-> <<k1, k2>>, threshold |-> 2]}
NoTreasuries == {}

SettlementLimits ==
    [minTransfer |-> 1, perTransfer |-> 2, protectedMinimum |-> 1, rollingLimit |-> 3]
FewLimitChanges ==
    [minTransfer |-> {}, perTransfer |-> {}, protectedMinimum |-> {0}, rollingLimit |-> {}]

\* The second and third key set, and the last treasury list, would be refused.
RotationKeySets ==
    {[keys |-> <<k1, k2>>, threshold |-> 2], [keys |-> <<k1, k1>>, threshold |-> 2],
     [keys |-> <<k2, k3>>, threshold |-> 1]}
PolicyLists == {<<t1>>, <<t2>>, <<t1, vault>>}
GovernanceLimits ==
    [minTransfer |-> 0, perTransfer |-> 1, protectedMinimum |-> 0, rollingLimit |-> 9]
NoLimitChanges == [f \in DOMAIN GovernanceLimits |-> {}]
=============================================================================
