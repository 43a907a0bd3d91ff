------------------------------ MODULE Validation ------------------------------
(***************************************************************************)
(* What initialize, the rotation instructions and the rebalance-policy     *)
(* instructions accept as an attestation key set and as a treasury         *)
(* allowlist (programs/glc-reserve-bridge/src/validation.rs).              *)
(***************************************************************************)
EXTENDS Integers, Sequences

CONSTANTS
    MaxAttestationKeys,     \* MAX_ATTESTATION_KEYS (8 in the program)
    MaxTreasuries,          \* MAX_TREASURY_DESTINATIONS (4 in the program)
    DefaultKey              \* Pubkey::default()

MinThreshold == 2

NoDuplicates(s) == \A i, j \in DOMAIN s : s[i] = s[j] => i = j

ValidKeySet_RepeatsAllowed(keys, threshold) ==
    /\ keys # <<>>
    /\ Len(keys) <= MaxAttestationKeys
    /\ threshold >= MinThreshold
    /\ threshold <= Len(keys)

\* validate_attestation_key_set
ValidKeySet(keys, threshold) ==
    /\ keys # <<>>
    /\ Len(keys) <= MaxAttestationKeys
    /\ threshold >= MinThreshold
    /\ threshold <= Len(keys)
    /\ \A i \in DOMAIN keys : keys[i] # DefaultKey
    /\ NoDuplicates(keys)

\* validate_rebalance_policy
ValidTreasuries(treasuries, reserveAccount) ==
    /\ treasuries # <<>>
    /\ Len(treasuries) <= MaxTreasuries
    /\ \A i \in DOMAIN treasuries : treasuries[i] \notin {DefaultKey, reserveAccount}
    /\ NoDuplicates(treasuries)
=============================================================================
