---------------------------- MODULE MCComponents ----------------------------
(***************************************************************************)
(* The bridge's pure algorithms against their reference definitions, on    *)
(* every input of a bounded set, and four small state machines: the rate   *)
(* book, the program's rolling volume, the Robinhood indexer and the       *)
(* ledger's schema ladder.  A behaviour belongs to one of them: `part'     *)
(* names it.  Of an algorithm, v1 is the input, chosen in the first step;  *)
(* of a state machine, v1, v2, ... are its variables in the order of its   *)
(* declaration.                                                            *)
(***************************************************************************)
EXTENDS Integers, Sequences, FiniteSets, SequencesExt

CONSTANTS Absent, k1, k2, k3, foreign, zero, NoDeposit, d1, p1

VARIABLES part, v1, v2, v3, v4, v5, v6, v7, v8, v9, v10, v11, v12

vars == <<part, v1, v2, v3, v4, v5, v6, v7, v8, v9, v10, v11, v12>>

-----------------------------------------------------------------------------
(* Inputs of the algorithms.                                               *)

\* Vault coins, the largest first, with the ages of young ones.
Pools(amounts, max) ==
    {s \in UNION {[1..n -> amounts] : n \in 0..max} :
        \A i \in 1..(Len(s) - 1) : s[i] >= s[i + 1]}
Coin(s) == [i \in DOMAIN s |-> [id |-> i, amount |-> s[i]]]
CoinInputs ==
    [pool : {Coin(s) : s \in Pools({1, 3, 4, 9}, 4)}, amount : {1, 3, 7}, max : 1..3,
     dust : {1, 2}, target : {2, 5}, outs : 1..3]
Ages == [amount : {1, 4, 9}, confs : {0}, depth : {1, 2}]
            \cup [amount : {1, 4, 9}, confs : {5}, depth : {1}]
YoungInputs ==
    [coins : {{[id |-> i, amount |-> s[i].amount, confs |-> s[i].confs, depth |-> s[i].depth] :
                  i \in DOMAIN s} : s \in BoundedSeq(Ages, 3)},
     amount : {1, 3, 7},
     policy : [mode : {"DepthLimited", "BridgeOwnedRecursive"}, maxDepth : {0, 1, 2},
               chainLimit : {2, 3}, rate : {1}, maxInputs : {2}]]
SplitInputs == [source : 1..15, target : {0, 1, 4, 7}, rate : 0..2]

Tokens == [op : {"n"}, n : 1..3] \cup [op : {"key"}, key : {k1, k2, foreign}]
              \cup {[op |-> "checkmultisig"]}
Scripts == [script : BoundedSeq(Tokens, 5)]
PartialInputs ==
    [keys : {k \in [1..3 -> {k1, k2, k3}] : Cardinality(ToSet(k)) = 3}, threshold : 2..3,
     partials : BoundedSeq([key : {k1, k2, k3, foreign}, valid : BOOLEAN], 3)]

\* A custody domain's policy, and documents it may be shown.
DomainPolicy ==
    [domain |-> "here", actions |-> {"payout", "refund", "settlement", "treasury_withdraw"},
     routes |-> {"GlcToRhn", "RhnToGlc"},
     chains |-> [GlcToRhn |-> [source |-> 1, dest |-> 2], RhnToGlc |-> [source |-> 2, dest |-> 1]],
     treasuries |-> {"t1"}, token |-> "tok", maxAmount |-> 1, maxTtl |-> 1, epoch |-> 0]
DocumentFields ==
    [route : {Absent, "GlcToRhn", "RhnToGlc", "RhnToSol"}, source : {Absent, 1}, dest : {Absent, 2},
     treasury : {Absent, "t1", "t2"}, token : {Absent, "tok"}, index : {Absent, 0},
     recipient : {Absent, "r"}, amount : {Absent, 0, 1, 2}]
Documents ==
    [kind : DomainPolicy.actions, fields : DocumentFields, epoch : 0..1, expiry : 0..2,
     honest : BOOLEAN]
OperationIds ==
    [kind : {"payout"}, route : {"GlcToRhn"}, a : 0..3, b : 0..1, c : 0..3]
        \cup [kind : {"payout"}, route : {"SolToRhn"}, a : 0..3, b : 0..3, c : 0..3]
        \cup [kind : {"refund", "settlement"}, route : {"RhnToGlc", "RhnToSol"},
              a : 0..3, b : {0}, c : {0}]
        \cup [kind : {"treasury_withdraw"}, route : {"none"}, a : 0..3, b : 0..1, c : 0..3]

ClaimPolicy(classes) ==
    [program |-> "p", mint |-> "m", classes |-> classes, treasuries |-> {"t1"}, maxAmount |-> 1,
     approved |-> {"c1"}]
ClaimInputs ==
    [policy : {ClaimPolicy(c) : c \in {{"settlement"}, {"withdrawal"}, {"settlement", "governance"}}},
     msg : [tag : {"claim", "governance", "other"},
            action : {"release", "completion", "treasury_withdraw", "refund_withdraw",
                      "rebalance_withdraw", "new"},
            len : {90, 138, 146, 166, 178, 210}, program : {"p", "x"}, mint : {"m", "x"},
            amount : 1..2, destination : {"t1", "t2"}, commitment : {"c1", "c2"}]]
QuorumInputs ==
    [signers : BoundedSeq({"a", "b", "c"}, 3), authorized : SUBSET {"a", "b", "c"},
     answers : [1..3 -> {"ok", "refused", "late", "foreign"}]]
SettlementInputs ==
    [direction : {"GlcToSol", "SolToGlc", "SolToRhn", "RhnToSol"},
     state : {"SourceFinalized", "Completed"}, bound : BOOLEAN, gross : 1..3, fee : 0..1,
     net : 0..3, onchain : 1..3, payoutState : {"Broadcast", "Confirmed", "Completed", "Finalized"}]

\* The proof of up to three entries, against every valid key set.
ProofKeys == {zero, k1, k2, k3}
ProofInputs ==
    [data : BoundedSeq([wellFormed : BOOLEAN, msg : {"m1", "m2"}, key : ProofKeys], 3),
     keys : BoundedSeq(ProofKeys, 3), threshold : 0..3]

RoutePolicy == [minimum |-> 10, maximum |-> 50, maximumRobinhood |-> 20]

-----------------------------------------------------------------------------
(* The instances.                                                          *)

Vault == INSTANCE VaultCoins WITH
        OverheadBytes <- 0, OutputBytes <- 1, KiloByte <- 2, MinChunkFloor <- 2,
        MaxVaultSigners <- 3, MinThreshold <- 2
Signing == INSTANCE SigningPolicies
Proof == INSTANCE Attestation WITH MaxAttestationKeys <- 3, MaxTreasuries <- 1, DefaultKey <- zero
Units == INSTANCE Amounts WITH MaxU64 <- 60, MaxU128 <- 1000, BpsDenominator <- 5

OneRail == INSTANCE RateBook WITH
        MaxU64 <- 60, MaxU128 <- 1000, BpsDenominator <- 4, Prices <- {2, 3},
        Staleness <- 1, Band <- 1, FeeBps <- 1, Scale <- 1, Grosses <- {5},
        Rails <- {"solana"}, Lags <- {0, 1}, Window <- 2, MaxSamples <- 5,
        MaxClock <- 5, clock <- v1, history <- v2, printed <- v3, capped <- v4

TwoRails == INSTANCE RateBook WITH
        MaxU64 <- 60, MaxU128 <- 1000, BpsDenominator <- 4, Prices <- {2, 3},
        Staleness <- 1, Band <- 1, FeeBps <- 1, Scale <- 1, Grosses <- {5, 50},
        Rails <- {"goldcoin", "solana"}, Lags <- {0}, Window <- 1, MaxSamples <- 3,
        MaxClock <- 3, clock <- v1, history <- v2, printed <- v3, capped <- v4

Volume == INSTANCE RollingVolume WITH
        Amounts <- {1, 3}, LimitValues <- {2, 3}, Seconds <- 3, MaxClock <- 6,
        MaxTransfers <- 3, window <- v1, limit <- v2, paused <- v3, clock <- v4,
        log <- v5, resets <- v6

Indexer == INSTANCE RobinhoodIndexer WITH
        Deposits <- {d1}, NoDeposit <- NoDeposit, Depth <- 2, StartBlock <- 1,
        ChunkSize <- 2, MaxHeight <- 4, MaxReorgs <- 1, MaxReorgDepth <- 2,
        Events <- {"fail", "clear", "recover", "wrongchain", "badroute", "removed"},
        chain <- v1, mined <- v2, reorgs <- v3, anchors <- v4, obs <- v5,
        halt <- v6, outside <- v7, pc <- v8, head <- v9, from <- v10, logs <- v11,
        torn <- v12

Reorganised == INSTANCE RobinhoodIndexer WITH
        Deposits <- {d1}, NoDeposit <- NoDeposit, Depth <- 2, StartBlock <- 1,
        ChunkSize <- 2, MaxHeight <- 4, MaxReorgs <- 2, MaxReorgDepth <- 2,
        Events <- {"clear"},
        chain <- v1, mined <- v2, reorgs <- v3, anchors <- v4, obs <- v5,
        halt <- v6, outside <- v7, pc <- v8, head <- v9, from <- v10, logs <- v11,
        torn <- v12

Schema == INSTANCE LedgerSchema WITH
        Processes <- {p1}, StartVersions <- {8, 15, 21, 25, 30, 36},
        CrashIn <- 9..37 \ {22, 26, 33}, MaxCrashes <- 2, db <- v1, version <- v2,
        proc <- v3, filled <- v4, crashes <- v5

\* The variables a module with n of its own leaves alone.
Beyond1 == <<v2, v3, v4, v5, v6, v7, v8, v9, v10, v11, v12>>
Beyond4 == <<v5, v6, v7, v8, v9, v10, v11, v12>>
Beyond5 == <<v6, v7, v8, v9, v10, v11, v12>>
Beyond6 == <<v7, v8, v9, v10, v11, v12>>
Idle6 == v7 = "idle" /\ v8 = "idle" /\ v9 = "idle" /\ v10 = "idle" /\ v11 = "idle" /\ v12 = "idle"
Idle5 == v6 = "idle" /\ Idle6
Idle4 == v5 = "idle" /\ Idle5
Idle1 == v2 = "idle" /\ v3 = "idle" /\ v4 = "idle" /\ Idle4

\* One algorithm is given one input.
Given(name, inputs) ==
    part = name /\ v1 = <<>> /\ v1' \in inputs /\ UNCHANGED <<part, Beyond1>>

Ask ==
    \/ Given("Coins", CoinInputs)
    \/ Given("Young", YoungInputs)
    \/ Given("Split", SplitInputs)
    \/ Given("Script", Scripts)
    \/ Given("Partials", PartialInputs)
    \/ Given("Document", Documents)
    \/ Given("Operation", OperationIds)
    \/ Given("Claim", ClaimInputs)
    \/ Given("Quorum", QuorumInputs)
    \/ Given("Settlement", SettlementInputs)
    \/ Given("Proof", {x \in ProofInputs : Proof!ValidKeySet(x.keys, x.threshold)})
    \/ Given("Convert", [amount : 0..60, from : 0..2, to : 0..2])
    \/ Given("Robinhood", [amount : 0..1000, scale : {10}])
    \/ Given("Quote", [gross : 0..30, source : 1..3, destination : 1..3, bps : 0..5,
                       decimals : 0..2])
    \/ Given("Limit", [limit : 0..12, source : 1..3, destination : 1..3, bps : 0..5,
                       scale : {1, 3}, buffer : 0..1])
    \/ Given("Gross", [maxNet : 0..60, bps : 0..6])
    \/ Given("Minimum", [bps : 0..5, floor : 0..12])
    \/ Given("Wide", [a : 0..15, b : 0..15, d : 0..15])
    \/ Given("Price", [int : BoundedSeq({0, 1, 9}, 2), frac : BoundedSeq({0, 1, 9}, 2),
                       exponent : -2..1])
    \/ Given("Pool", [sqrt : 0..12, eth : 0..12, first : BOOLEAN, shift : -1..1])

Algorithms ==
    {"Coins", "Young", "Split", "Script", "Partials", "Document", "Operation", "Claim", "Quorum",
     "Settlement", "Proof", "Convert", "Robinhood", "Quote", "Limit", "Gross", "Minimum", "Wide",
     "Price", "Pool"}

Init ==
    \/ part \in Algorithms /\ v1 = <<>> /\ Idle1
    \/ part = "OneRail" /\ OneRail!Init /\ Idle4
    \/ part = "TwoRails" /\ TwoRails!Init /\ Idle4
    \/ part = "Volume" /\ Volume!Init /\ Idle6
    \/ part = "Indexer" /\ Indexer!Init
    \/ part = "Reorganised" /\ Reorganised!Init
    \/ part = "Schema" /\ Schema!Init /\ Idle5

Next ==
    \/ Ask
    \/ part = "OneRail" /\ OneRail!Next /\ UNCHANGED <<part, Beyond4>>
    \/ part = "TwoRails" /\ TwoRails!Next /\ UNCHANGED <<part, Beyond4>>
    \/ part = "Volume" /\ Volume!Next /\ UNCHANGED <<part, Beyond6>>
    \/ part = "Indexer" /\ Indexer!Next /\ UNCHANGED part
    \/ part = "Reorganised" /\ Reorganised!Next /\ UNCHANGED part
    \/ part = "Schema" /\ Schema!Next /\ UNCHANGED <<part, Beyond5>>

Spec == Init /\ [][Next]_vars

-----------------------------------------------------------------------------
Asked(name) == part = name /\ v1 # <<>>

\* The vault's coins: selection refuses only what no choice of coins can pay,
\* a payout conserves value and pays a fair fee, young coins stay within their
\* budget, a split is recovered from its row, a redeem script names its vault,
\* and an assembled scriptSig spends (coin.rs, split.rs, vault.rs, multisig.rs).
CoinsSound ==
    /\ Asked("Coins") =>
        /\ Vault!NeverRefusedWhenPayable(v1.pool, v1.amount, 1, 2, v1.max)
        /\ Vault!PayoutConservesValue(v1.pool, v1.amount, 1, 2, v1.max, v1.dust, v1.target, v1.outs)
    /\ Asked("Young") => Vault!YoungCoinsWithinBudget(v1.coins, 5, v1.amount, v1.policy, 2)
    /\ Asked("Split") => Vault!SplitRecoverable(v1.source, v1.target, v1.rate, 2)
    /\ Asked("Script") => Vault!ScriptNamesItsVault(v1.script, {k1, k2, k3})
    /\ Asked("Partials") => Vault!ScriptSigSpends(v1.keys, v1.threshold, v1.partials)

\* The signing domains: a domain signs what the document it shows says and
\* its policy permits, no two operations share a request id, claims are read
\* whole, settlement alone never moves more than the deposit, and a quorum is
\* two domains (auth.rs, policy.rs, attestor.rs, remote signers).
SigningSound ==
    /\ Asked("Document") =>
        LET digest == Signing!Digest("here", v1.kind, v1.fields, "q", v1.epoch, v1.expiry)
        IN  Signing!SignsWhatItShows(DomainPolicy,
                [domain |-> "here", kind |-> v1.kind, fields |-> v1.fields, request |-> "q",
                 epoch |-> v1.epoch, expiry |-> v1.expiry,
                 expected |-> IF v1.honest THEN digest ELSE <<>>], 0)
    /\ Asked("Operation") => \A y \in OperationIds : Signing!SameIdSameOperation(v1, y)
    /\ Asked("Claim") => Signing!ClaimsUnderstood(v1.policy, v1.msg)
    /\ Asked("Quorum") => Signing!QuorumIsTwo(v1.signers, v1.authorized, v1.answers)
    /\ Asked("Settlement") =>
        Signing!SettlementSuffices(ClaimPolicy({}), [program |-> "p", mint |-> "m"], v1)

\* The program's own checks: the threshold proof it accepts is a quorum and a
\* clean quorum is accepted; the rolling bucket counts exactly, and no stretch
\* of a window's length carries more than twice the limit (verification.rs,
\* limits.rs).
ProgramChecksSound ==
    /\ Asked("Proof") =>
        /\ Proof!AcceptedMeansQuorum(v1.data, "m1", v1.keys, v1.threshold)
        /\ Proof!CleanQuorumAccepted(v1.data, "m1", v1.keys, v1.threshold)
    /\ part = "Volume" => Volume!BucketCountsExactly /\ Volume!BurstAtMostDouble

\* Amounts and prices: conversions, quotes, advertised maxima and minima and
\* 256-bit arithmetic give the exact integers their definitions ask for
\* (amount_conversion.rs, fees, chain_policy.rs, bridge_rate).
AmountsExact ==
    /\ Asked("Convert") => Units!ConversionIsExact(v1.amount, v1.from, v1.to)
    /\ Asked("Robinhood") => Units!RobinhoodIsExact(v1.amount, v1.scale)
    /\ Asked("Quote") =>
        Units!QuoteAddsUp(v1.gross, v1.source, v1.destination, v1.bps, v1.decimals, 1)
    /\ Asked("Limit") =>
        Units!AdvertisedMaximumIsExact(v1.limit, v1.source, v1.destination, v1.bps, v1.scale,
                                       v1.buffer)
    /\ Asked("Gross") => Units!GrossForNetIsExact(v1.maxNet, v1.bps)
    /\ Asked("Minimum") => Units!MinimumIsDeliverable(RoutePolicy, v1.bps, v1.floor)
    /\ Asked("Wide") => Units!MulDivIsExact(v1.a, v1.b, v1.d, 4)
    /\ Asked("Price") => Units!PriceIsFloor(v1.int, v1.frac, v1.exponent, 1, 3)
    /\ Asked("Pool") => Units!PoolPriceIsClose(v1.sqrt, v1.eth, v1.first, v1.shift, 4)

\* The rate book: forgetting old samples never changes a price, and a deposit
\* is settled without a look only at a rate that was covered and calm.
RateBookSound ==
    /\ part = "OneRail" => OneRail!RateBookSound
    /\ part = "TwoRails" => TwoRails!RateBookSound

\* The Robinhood indexer, with the chain free to reorganise between any two of
\* its reads: no deposit is passed over, what is final is on the canonical
\* chain or about to be found orphaned, and a reorganisation shallower than
\* the confirmation depth never halts it, but for blocks that changed behind
\* the reads of one tick (robinhood/indexer.rs).
IndexedFaithfully ==
    /\ part = "Indexer" => Indexer!IndexedFaithfully /\ Indexer!ShallowReorgsNeverHalt
    /\ part = "Reorganised" => Reorganised!IndexedFaithfully /\ Reorganised!ShallowReorgsNeverHalt

\* The schema ladder: killed during any migration but v22, v26, v33 and v38,
\* twice, and run again, it never fails and ends with every declared object
\* and every row (schema.rs).
InterruptedUpgradeRecovers ==
    part = "Schema" => Schema!TypeOK /\ Schema!InterruptedUpgradeRecovers
=============================================================================
