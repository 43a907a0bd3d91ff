----------------------------- MODULE VaultCoins -----------------------------
(***************************************************************************)
(* How the Goldcoin vault pays: coin selection, change, payout and split   *)
(* transactions, the P2SH redeem script and the multisig scriptSig         *)
(* (goldcoin/coin.rs, split.rs, payout.rs, vault.rs, multisig.rs).         *)
(*                                                                         *)
(* A UTXO is [id, amount], id being (txid, vout) in its own order.  Byte   *)
(* sizes keep their role, a price per input and per output, and lose their *)
(* values: InputBytes stands for multisig_input_bytes of the vault.        *)
(***************************************************************************)
EXTENDS Naturals, FiniteSets, SequencesExt, FiniteSetsExt

CONSTANTS
    OverheadBytes,      \* TX_OVERHEAD_BYTES
    OutputBytes,        \* P2PKH_OUTPUT_BYTES
    KiloByte,           \* bytes a fee rate is quoted for (1000)
    MinChunkFloor,      \* MIN_CHUNK_FLOOR_ATOMIC
    MaxVaultSigners,    \* MAX_VAULT_SIGNERS
    MinThreshold        \* MIN_THRESHOLD

CeilDiv(a, b) == (a + b - 1) \div b

Amounts(utxos) == MapThenSumSet(LAMBDA i : utxos[i].amount, DOMAIN utxos)

SumOf(amounts) == FoldLeft(LAMBDA total, a : total + a, 0, amounts)

-----------------------------------------------------------------------------
(* Sizes and fees *)

\* multisig_input_bytes: threshold signatures, the redeem script and the two
\* length prefixes that grow with what they count.
MultisigInputBytes(threshold, redeemLen, sigBytes) ==
    LET pushPrefix == CASE redeemLen < 76 -> 1
                        [] redeemLen \in 76..255 -> 2
                        [] OTHER -> 3
        scriptSig == 1 + threshold * (1 + sigBytes) + pushPrefix + redeemLen
    IN  36 + (IF scriptSig < 253 THEN 1 ELSE 3) + scriptSig + 4

FeeFor(inputs, outputs, rate, inputBytes) ==
    CeilDiv((OverheadBytes + inputs * inputBytes + outputs * OutputBytes) * rate, KiloByte)

-----------------------------------------------------------------------------
(* Coin selection *)

Selection(utxos, fee) ==
    [ok |-> TRUE, selected |-> utxos, total |-> SumOf([i \in DOMAIN utxos |-> utxos[i].amount]),
     fee |-> fee]

Refusal(why) == [ok |-> FALSE, why |-> why]

\* The lengths of the prefixes of utxos that pay amount and their own fee.
Covering(utxos, amount, rate, inputBytes, maxInputs) ==
    {k \in DOMAIN utxos :
        /\ k <= maxInputs
        /\ SumOf([i \in 1..k |-> utxos[i].amount]) >= amount + FeeFor(k, 2, rate, inputBytes)}

Cheapest(utxos) ==
    CHOOSE u \in utxos : \A v \in utxos :
        u.amount < v.amount \/ (u.amount = v.amount /\ u.id <= v.id)

Ascending(utxos) ==
    SetToSortSeq(utxos, LAMBDA u, v : u.amount < v.amount \/ (u.amount = v.amount /\ u.id < v.id))

\* The order the ledger lists its pool in: largest first.
Descending(utxos) ==
    SetToSortSeq(utxos, LAMBDA u, v : u.amount > v.amount \/ (u.amount = v.amount /\ u.id < v.id))

ChangeOf(result, amount) ==
    IF result.total <= amount + result.fee THEN 0 ELSE result.total - amount - result.fee

\* Smallest coins first, none as large as the single candidate.
SmallestFirstCombination(candidates, excludeAtOrAbove, amount, rate, inputBytes, maxInputs) ==
    LET asc == Ascending({u \in ToSet(candidates) : u.amount < excludeAtOrAbove})
        ks  == Covering(asc, amount, rate, inputBytes, maxInputs)
    IN  IF ks = {} THEN Refusal("None")
        ELSE Selection(SubSeq(asc, 1, Min(ks)), FeeFor(Min(ks), 2, rate, inputBytes))

\* Largest first: the candidates as given, up to the first covering prefix.
Greedy(candidates, amount, rate, inputBytes, maxInputs) ==
    LET ks == Covering(candidates, amount, rate, inputBytes, maxInputs)
    IN  CASE ks # {} -> Selection(SubSeq(candidates, 1, Min(ks)), FeeFor(Min(ks), 2, rate, inputBytes))
          [] ks = {} /\ Len(candidates) > maxInputs -> Refusal("TooManyInputs")
          [] OTHER -> Refusal("Insufficient")

Select_SmallestFirst(candidates, amount, rate, inputBytes, maxInputs) ==
    SmallestFirstCombination(candidates, 1000, amount, rate, inputBytes, maxInputs)

\* select: an exact coin, else the smallest covering coin or the combination
\* of smaller ones that leaves less change, else largest first.
Select(candidates, amount, rate, inputBytes, maxInputs) ==
    LET fee1  == FeeFor(1, 1, rate, inputBytes)
        fee2  == FeeFor(1, 2, rate, inputBytes)
        exact == {i \in DOMAIN candidates : candidates[i].amount = amount + fee1}
        large == {u \in ToSet(candidates) : u.amount >= amount + fee2}
        one   == Selection(<<Cheapest(large)>>, fee2)
        combo == SmallestFirstCombination(candidates, Cheapest(large).amount,
                                          amount, rate, inputBytes, maxInputs)
    IN  CASE exact # {} -> Selection(<<candidates[Min(exact)]>>, fee1)
          [] exact = {} /\ large # {} ->
                IF combo.ok /\ ChangeOf(combo, amount) < ChangeOf(one, amount) THEN combo ELSE one
          [] OTHER -> Greedy(candidates, amount, rate, inputBytes, maxInputs)

\* effective_zero_conf_depth: a maximum depth of 0 switches the feature off in
\* either mode.
EffectiveZeroConfDepth(policy) ==
    CASE policy.maxDepth = 0 -> 0
      [] policy.maxDepth # 0 /\ policy.mode = "DepthLimited" -> policy.maxDepth
      [] OTHER -> policy.chainLimit

\* The unconfirmed ancestors a selection would build on.
UnconfirmedDepth(utxos) ==
    SumOf([i \in DOMAIN utxos |-> IF utxos[i].confs = 0 THEN utxos[i].depth ELSE 0])

\* The k unconfirmed coins with the deepest ancestry.
Deepest(coins, k) ==
    LET order == SetToSortSeq({c \in coins : c.confs = 0},
                              LAMBDA u, v : u.depth > v.depth \/ (u.depth = v.depth /\ u.id > v.id))
    IN  ToSet(SubSeq(order, 1, k))

\* The selection of rederive_plan: mature coins alone when they suffice, else
\* the bridge's own young change too, dropping the deepest coins until the
\* selection is within the chain budget or cannot pay.
SelectPayout(confirmed, change, amount, policy, inputBytes) ==
    LET Try(pool) == Select(Descending(pool), amount, policy.rate, inputBytes, policy.maxInputs)
        young     == {c \in change : c.confs >= 1 \/ c.depth <= EffectiveZeroConfDepth(policy)}
        Round(k)  == Try(confirmed \cup (young \ Deepest(young, k)))
        Stops(k)  == \/ ~Round(k).ok
                     \/ policy.mode = "DepthLimited"
                     \/ UnconfirmedDepth(Round(k).selected) <= policy.chainLimit
        first     == Try(confirmed)
    IN  IF first.ok \/ first.why # "Insufficient" \/ EffectiveZeroConfDepth(policy) = 0
        THEN first
        ELSE Round(Min({k \in 0..Cardinality(young) : Stops(k)}))

\* finalize: dust goes to the fee.
Finalize(result, amount, dust) ==
    LET raw == ChangeOf(result, amount)
    IN  IF raw > 0 /\ raw < dust THEN [change |-> 0, fee |-> result.fee + raw]
                                 ELSE [change |-> raw, fee |-> result.fee]

\* distribute_evenly: the first total % count chunks take one unit more.
DistributeEvenly(total, count) ==
    [i \in 1..count |-> IF i <= total % count THEN total \div count + 1 ELSE total \div count]

\* A fan-out of n change outputs pays its fee and leaves no output below dust.
FanoutFits(leftover, n, inputs, inputBytes, rate, dust) ==
    LET fee == FeeFor(inputs, 1 + n, rate, inputBytes)
    IN  fee <= leftover /\ (leftover - fee) \div n >= dust

\* finalize_fanout: as many change outputs as the target asks for, one fewer
\* at a time until they fit; with none left everything over is the fee.
FinalizeFanout(result, amount, inputs, inputBytes, rate, dust, target, maxOutputs) ==
    LET leftover == IF result.total <= amount THEN 0 ELSE result.total - amount
        wanted   == IF leftover = 0 THEN 0
                    ELSE Min({Max({1, CeilDiv(leftover, Max({target, 1}))}), Max({maxOutputs, 1})})
        fitting  == {n \in 1..wanted : FanoutFits(leftover, n, inputs, inputBytes, rate, dust)}
    IN  IF fitting = {} THEN [changes |-> <<>>, fee |-> leftover]
        ELSE LET fee == FeeFor(inputs, 1 + Max(fitting), rate, inputBytes)
             IN  [changes |-> DistributeEvenly(leftover - fee, Max(fitting)), fee |-> fee]

-----------------------------------------------------------------------------
(* Splits of one large coin into vault-sized chunks *)

\* plan_split.
PlanSplit(source, chunkTarget, rate, inputBytes) ==
    LET n   == CeilDiv(source, Max({chunkTarget, 1}))
        fee == FeeFor(1, n, rate, inputBytes)
    IN  CASE chunkTarget = 0 -> Refusal("InvalidChunkTarget")
          [] chunkTarget # 0 /\ n < 2 -> Refusal("NotWorthSplitting")
          [] chunkTarget # 0 /\ n >= 2 /\ source < fee -> Refusal("InsufficientForFee")
          [] chunkTarget # 0 /\ n >= 2 /\ source >= fee /\ (source - fee) \div n < MinChunkFloor ->
                Refusal("ChunkBelowFloor")
          [] OTHER -> [ok |-> TRUE, outputs |-> DistributeEvenly(source - fee, n), fee |-> fee]

\* reconstruct_plan: from the stored chunk count and fee alone.
ReconstructPlan(source, count, fee) ==
    IF source < fee THEN Refusal("InsufficientForFee")
    ELSE [ok |-> TRUE, outputs |-> DistributeEvenly(source - fee, count), fee |-> fee]

\* matches_expected_split_output: what sync adopts as a split's own chunk.
MatchesExpectedSplitOutput(source, fee, count, vout, amount) ==
    vout < count /\ fee <= source /\ DistributeEvenly(source - fee, count)[vout + 1] = amount

-----------------------------------------------------------------------------
(* Transactions: inputs are utxo ids, outputs [value, script] *)

\* build_unsigned_tx of a payout plan: the destination first, then change.
BuildUnsignedTx(plan) ==
    [inputs  |-> [i \in DOMAIN plan.inputs |-> plan.inputs[i].id],
     outputs |-> <<[value |-> plan.payout, script |-> plan.dest]>>
                 \o [i \in DOMAIN plan.changes |-> [value |-> plan.changes[i], script |-> "vault"]]]

\* verify_payout_tx: what a signer checks before it signs.
VerifyPayoutTx(tx, plan) ==
    /\ tx.inputs = [i \in DOMAIN plan.inputs |-> plan.inputs[i].id]
    /\ Len(tx.outputs) = 1 + Len(plan.changes)
    /\ Cardinality({i \in DOMAIN tx.outputs : tx.outputs[i].script = plan.dest}) = 1
    /\ \A i \in DOMAIN tx.outputs : tx.outputs[i].script = plan.dest => tx.outputs[i].value = plan.payout
    /\ \A i \in DOMAIN plan.changes : tx.outputs[i + 1] = [value |-> plan.changes[i], script |-> "vault"]
    /\ Amounts(plan.inputs) = plan.payout + SumOf(plan.changes) + plan.fee

\* build_unsigned_split_tx and verify_split_tx.
BuildUnsignedSplitTx(source, plan) ==
    [inputs  |-> <<source.id>>,
     outputs |-> [i \in DOMAIN plan.outputs |-> [value |-> plan.outputs[i], script |-> "vault"]]]

VerifySplitTx(tx, source, plan) ==
    /\ tx.inputs = <<source.id>>
    /\ tx.outputs = [i \in DOMAIN plan.outputs |-> [value |-> plan.outputs[i], script |-> "vault"]]
    /\ source.amount = SumOf(plan.outputs) + plan.fee

-----------------------------------------------------------------------------
(* The vault's script: a sequence of opcode and key tokens *)

\* validate_signer_set; a key token outside ValidKeys has a bad prefix byte.
ValidSignerSet(keys, threshold, validKeys) ==
    /\ keys # <<>>
    /\ Len(keys) <= MaxVaultSigners
    /\ threshold >= MinThreshold
    /\ threshold <= Len(keys)
    /\ ToSet(keys) \subseteq validKeys
    /\ IsInjective(keys)

\* build_redeem_script: OP_m, the keys, OP_n, OP_CHECKMULTISIG.
BuildRedeemScript(keys, threshold) ==
    <<[op |-> "n", n |-> threshold]>>
    \o [i \in DOMAIN keys |-> [op |-> "key", key |-> keys[i]]]
    \o <<[op |-> "n", n |-> Len(keys)], [op |-> "checkmultisig"]>>

\* from_redeem_script_hex: the leading run of key pushes, then exactly two
\* more opcodes.
FromRedeemScript(script, validKeys) ==
    LET run  == {k \in 0..Len(script) - 1 : \A i \in 2..k + 1 : script[i].op = "key"}
        vals == [i \in 1..Max(run) |-> script[i + 1].key]
        pos  == Max(run) + 2
    IN  IF /\ Len(script) >= 3
           /\ script[1].op = "n"
           /\ pos + 1 = Len(script)
           /\ script[pos].op = "n"
           /\ script[pos + 1].op = "checkmultisig"
           /\ script[pos].n = Len(vals)
           /\ ValidSignerSet(vals, script[1].n, validKeys)
        THEN [ok |-> TRUE, keys |-> vals, threshold |-> script[1].n]
        ELSE Refusal("MalformedRedeemScript")

\* assemble: every partial from a different vault key and valid, exactly
\* threshold of them, placed in the vault's key order.
Assemble(keys, threshold, partials) ==
    LET signers == {partials[i].key : i \in DOMAIN partials}
    IN  IF /\ signers \subseteq ToSet(keys)
           /\ Cardinality(signers) = Len(partials)
           /\ \A i \in DOMAIN partials : partials[i].valid
           /\ Len(partials) = threshold
        THEN [ok |-> TRUE, sigs |-> SelectSeq(keys, LAMBDA k : k \in signers)]
        ELSE Refusal("NotSpendable")

\* external: OP_CHECKMULTISIG walks keys and signatures once, both in order,
\* and fails when a signature finds no later key.
CheckMultisig(keys, threshold, sigs) ==
    /\ Len(sigs) = threshold
    /\ \E at \in [DOMAIN sigs -> DOMAIN keys] :
        /\ \A i \in DOMAIN sigs : keys[at[i]] = sigs[i]
        /\ \A i, j \in DOMAIN sigs : i < j => at[i] < at[j]

-----------------------------------------------------------------------------
(* Deposit binding: the OP_RETURN output of a legacy deposit *)

\* extract_request_binding over the outputs' scripts: hex that does not decode
\* is skipped, and so is anything that is not an OP_RETURN.
ExtractRequestBinding(outs) ==
    LET rets == SelectSeq(outs, LAMBDA o : o.kind = "op_return")
    IN  CASE rets = <<>> -> Refusal("no_request_binding")
          [] rets # <<>> /\ ~rets[1].sized -> Refusal("malformed_request_binding")
          [] Len(rets) > 1 /\ rets[1].sized -> Refusal("ambiguous_request_binding")
          [] OTHER -> [ok |-> TRUE, request |-> rets[1].request]

\* vault_output_candidates.
VaultOutputCandidates(outs) == {i \in DOMAIN outs : outs[i].kind = "vault"}

-----------------------------------------------------------------------------
(* What the algorithms promise.                                            *)

\* Some choice of at most max coins pays: without change, or with it.
Feasible(pool, amount, rate, inputBytes, max) ==
    \/ \E i \in DOMAIN pool : pool[i].amount = amount + FeeFor(1, 1, rate, inputBytes)
    \/ \E S \in SUBSET DOMAIN pool :
          /\ Cardinality(S) \in 1..max
          /\ MapThenSumSet(LAMBDA i : pool[i].amount, S)
                >= amount + FeeFor(Cardinality(S), 2, rate, inputBytes)

\* The three stages of select refuse exactly the payouts no choice of coins
\* can make.
NeverRefusedWhenPayable(pool, amount, rate, inputBytes, max) ==
    Select(pool, amount, rate, inputBytes, max).ok
        <=> Feasible(pool, amount, rate, inputBytes, max)

\* The transaction built from a selection is the one its plan describes: it
\* spends what it pays, changes and burns, its fee covers its size and
\* overpays by less than one more output with dust would cost, and no change
\* output is dust.
PayoutConservesValue(pool, amount, rate, inputBytes, max, dust, target, outputs) ==
    LET r == Select(pool, amount, rate, inputBytes, max)
        n == Len(r.selected)
        f == FinalizeFanout(r, amount, n, inputBytes, rate, dust, target, outputs)
        plan == [inputs |-> r.selected, payout |-> amount, dest |-> "dest",
                 changes |-> f.changes, fee |-> f.fee]
    IN  r.ok =>
            /\ VerifyPayoutTx(BuildUnsignedTx(plan), plan)
            /\ f.fee >= FeeFor(n, 1 + Len(f.changes), rate, inputBytes)
            /\ f.fee < FeeFor(n, 2 + Len(f.changes), rate, inputBytes) + dust
            /\ \A i \in DOMAIN f.changes : f.changes[i] >= dust

\* Unconfirmed change is spent only when the switch allows it, within the
\* mempool's chain limit, and only for a payout mature coins cannot make.
YoungCoinsWithinBudget(coins, matureAt, amount, policy, inputBytes) ==
    LET mature == {c \in coins : c.confs >= matureAt}
        r == SelectPayout(mature, coins \ mature, amount, policy, inputBytes)
    IN  r.ok /\ UnconfirmedDepth(r.selected) > 0 =>
            /\ policy.maxDepth > 0
            /\ policy.mode = "BridgeOwnedRecursive" =>
                  UnconfirmedDepth(r.selected) <= policy.chainLimit
            /\ ~ Feasible(Descending(mature), amount, policy.rate, inputBytes, policy.maxInputs)

\* A split is recovered from its row alone (count and fee): the plan rebuilt
\* after a restart is the plan that was signed, and every output is a usable
\* coin the pool sync recognises as the split's own.
SplitRecoverable(source, target, rate, inputBytes) ==
    LET p == PlanSplit(source, target, rate, inputBytes)
        s == [id |-> 1, amount |-> source]
    IN  p.ok =>
            /\ VerifySplitTx(BuildUnsignedSplitTx(s, p), s, p)
            /\ ReconstructPlan(source, Len(p.outputs), p.fee) = p
            /\ \A i \in DOMAIN p.outputs :
                  /\ p.outputs[i] \in MinChunkFloor..target
                  /\ MatchesExpectedSplitOutput(source, p.fee, Len(p.outputs), i - 1, p.outputs[i])

\* A redeem script that parses is the script of the vault it parses to.
ScriptNamesItsVault(script, keys) ==
    LET v == FromRedeemScript(script, keys)
    IN  v.ok => BuildRedeemScript(v.keys, v.threshold) = script

\* A scriptSig is assembled from exactly a threshold of valid partials, in
\* whatever order they arrive, and then the node's CHECKMULTISIG passes.
ScriptSigSpends(keys, threshold, partials) ==
    LET a == Assemble(keys, threshold, partials)
    IN  a.ok <=> /\ \A i \in DOMAIN partials : partials[i].valid /\ partials[i].key \in ToSet(keys)
                 /\ Len(partials) = threshold
                 /\ a.ok /\ CheckMultisig(keys, threshold, a.sigs)
=============================================================================
