----------------------------- MODULE Attestation -----------------------------
(***************************************************************************)
(* The threshold proof every privileged instruction of the Solana program  *)
(* asks for: the count of unique current signers in the ed25519 precompile *)
(* instruction that precedes the call (verification.rs).                   *)
(*                                                                         *)
(* An entry of that instruction is [wellFormed, msg, key]: byte offsets,   *)
(* lengths and instruction indexes are abstracted to wellFormed; that the  *)
(* signature itself is valid is the precompile's own check.                *)
(***************************************************************************)
EXTENDS Validation, FiniteSets, SequencesExt

Rejected == [ok |-> FALSE, seen |-> {}, count |-> 0]

\* keys.iter().position(|k| *k == signer): the first index, 0 when absent.
Position(keys, key) ==
    LET at == {i \in DOMAIN keys : keys[i] = key}
    IN  IF at = {} THEN 0 ELSE Min(at)

CountSigner_RepeatsCounted(acc, entry, expected, keys) ==
    IF acc.ok /\ entry.wellFormed /\ entry.msg = expected /\ Position(keys, entry.key) # 0
    THEN [acc EXCEPT !.count = @ + 1]
    ELSE Rejected

\* One iteration of count_unique_attestation_signers.
CountSigner(acc, entry, expected, keys) ==
    LET i == Position(keys, entry.key)
    IN  IF /\ acc.ok
           /\ entry.wellFormed
           /\ entry.msg = expected
           /\ i # 0
           /\ i \notin acc.seen
        THEN [ok |-> TRUE, seen |-> acc.seen \cup {i}, count |-> acc.count + 1]
        ELSE Rejected

\* count_unique_attestation_signers: an error is Rejected.
CountUniqueAttestationSigners(data, expected, keys) ==
    IF data = <<>> THEN Rejected
    ELSE FoldLeft(LAMBDA acc, entry : CountSigner(acc, entry, expected, keys),
                  [ok |-> TRUE, seen |-> {}, count |-> 0], data)

\* The check every caller makes of the count.
ThresholdMet(data, expected, keys, threshold) ==
    LET r == CountUniqueAttestationSigners(data, expected, keys)
    IN  r.ok /\ r.count >= threshold

-----------------------------------------------------------------------------
\* Distinct current keys with a well-formed entry over the expected message.
Signers(data, expected, keys) ==
    {data[i].key : i \in {j \in DOMAIN data : data[j].wellFormed /\ data[j].msg = expected}}
        \cap ToSet(keys)

\* A proof the program accepts carries signatures of at least two, and at
\* least threshold, different current keys over exactly the expected message
\* (count_unique_attestation_signers as release_from_reserve uses it).
AcceptedMeansQuorum(data, expected, keys, threshold) ==
    LET signers == Signers(data, expected, keys)
    IN  ThresholdMet(data, expected, keys, threshold) =>
            Cardinality(signers) >= threshold /\ Cardinality(signers) >= 2
                /\ DefaultKey \notin signers

\* Conversely a quorum's proof is never refused for its order or for extra
\* current signers: only a foreign, repeated or mismatching entry spoils it.
CleanQuorumAccepted(data, expected, keys, threshold) ==
    Cardinality(Signers(data, expected, keys)) = Len(data) /\ Len(data) >= threshold
        => ThresholdMet(data, expected, keys, threshold)
=============================================================================
