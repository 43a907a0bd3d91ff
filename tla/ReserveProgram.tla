---------------------------- MODULE ReserveProgram ----------------------------
(***************************************************************************)
(* The Solana program that holds the GLC reserve                           *)
(* (programs/glc-reserve-bridge/src): its accounts, and one action per     *)
(* instruction.  The program-upgrade instructions are in UpgradeTimelock.  *)
(*                                                                         *)
(* A Solana transaction is atomic and the instructions below all write the *)
(* accounts they share under the runtime's write locks, so an instruction  *)
(* is one step.  What is not atomic is the road to it: attestation keys    *)
(* sign a message at one time and anybody submits it at any later time,    *)
(* any number of times, after pauses, limit changes, key rotations and     *)
(* policy changes.  signed is the set of all messages that a threshold of  *)
(* the key set of the epoch inside the message has ever signed; it only    *)
(* grows.  (Attestation models how one such proof is verified.)            *)
(*                                                                         *)
(* Left out: account addresses and bumps, token-extension review, rent,    *)
(* events.  A token account is identified with its owner: the program      *)
(* derives the associated account of a recipient or requester itself.      *)
(***************************************************************************)
EXTENDS Limits, Validation, Sums, FiniteSets

CONSTANTS
    Admins,             \* keys that can be admin; the first authority is one
    Users,              \* depositors and release recipients
    PubKeys,            \* candidate attestation keys
    TokenAccounts,      \* candidate withdrawal destinations, the reserve's own included
    ReserveAccount,     \* the reserve's own token account
    Deposits,           \* Goldcoin outpoints (txid, vout) claims are made for
    Amounts,            \* amounts instructions are called with (0 included)
    GlcAddresses,       \* destinations recorded in obligations, all of valid length
    PayoutTxids,        \* Goldcoin payout transactions
    Nonces,             \* withdrawal nonces ...
    RefundNonces,       \* ... and those with the NONCE_DOMAIN_REFUND bit set
    KeySets,            \* [keys, threshold] candidates, invalid ones included
    TreasuryLists,      \* allowlist candidates, invalid ones included
    Limits0,            \* the limits initialize is called with
    LimitValues,        \* set_limit: the values tried for each field
    GovernanceTimelock, \* governance_timelock_seconds
    RollingSeconds,     \* rolling_window_seconds
    Kinds,              \* kinds of message the keys sign in this instance
    PauseScopes,        \* circuit breakers the admin flips in this instance
    MaxClock, MaxObligations, MaxEpoch, MaxVersion, MaxSigned, MaxFunding  \* bounds

NoPayout == "none"
LimitFields == {"minTransfer", "perTransfer", "protectedMinimum", "rollingLimit"}

ASSUME ConstantsAssumption ==
    /\ Admins # {}
    /\ Amounts \subseteq Nat
    /\ KeySets \subseteq [keys : Seq(PubKeys), threshold : Nat]
    /\ TreasuryLists \subseteq Seq(TokenAccounts)
    /\ PauseScopes \subseteq {"paused", "releasePaused", "depositPaused"}
    /\ NoPayout \notin PayoutTxids
    /\ RefundNonces \subseteq Nonces
    /\ Limits0 \in [LimitFields -> Nat]
    /\ Limits0.perTransfer > 0 /\ Limits0.rollingLimit > 0
    /\ LimitValues \in [LimitFields -> SUBSET Nat]
    /\ GovernanceTimelock \in Nat \ {0}
    /\ RollingSeconds \in Nat \ {0}
    /\ {MaxClock, MaxObligations, MaxEpoch, MaxVersion, MaxSigned, MaxFunding} \subseteq Nat

VARIABLES
    config,             \* BridgeConfig
    keySet,             \* AttestationKeySet
    window,             \* the two RollingVolumeWindow accounts
    claims,             \* the DepositClaim accounts that exist
    obligations,        \* the WithdrawalObligation accounts, by index
    withdrawals,        \* the RebalanceWithdrawal records that exist
    policy,             \* RebalancePolicy
    pendingRotation,    \* PendingGovernanceAction
    pendingPolicy,      \* PendingRebalancePolicy
    reserve,            \* balance of the reserve token account
    clock,              \* Clock::unix_timestamp
    signed,             \* messages a threshold of keys has signed
    funded,             \* history: tokens sent to the reserve outside the program
    policyLog           \* history: the allowlist of every policy version

settlementVars == <<claims, obligations, withdrawals, reserve, window>>
governanceVars == <<keySet, policy, pendingRotation, pendingPolicy, policyLog>>
vars == <<config, keySet, window, claims, obligations, withdrawals, policy,
          pendingRotation, pendingPolicy, reserve, clock, signed, funded, policyLog>>

Directions == {"GoldcoinToSolana", "SolanaToGoldcoin"}
NoRotation == [open |-> FALSE, epoch |-> 0, since |-> 0, eta |-> 0, keys |-> <<>>, threshold |-> 0]
NoProposal == [open |-> FALSE, epoch |-> 0, since |-> 0, eta |-> 0, treasuries |-> <<>>]
NoPolicy == [exists |-> FALSE, version |-> 0, treasuries |-> <<>>]

-----------------------------------------------------------------------------
(* The canonical messages (shared/src/claim.rs, shared/src/governance.rs): *)
(* distinct kinds can never be byte-equal, and every kind binds the epoch. *)

ReleaseClaim(e, d, a, r) == <<"release", e, d, a, r>>
CompletionClaim(e, i, t, a, addr) == <<"completion", e, i, t, a, addr>>
TreasuryClaim(e, n, a, dest, v) == <<"treasury", e, n, a, dest, v>>
RefundClaim(e, n, a, i, r) == <<"refund", e, n, a, i, r>>
RotationProposal(e, ks, th) == <<"propose_rotation", e, ks, th>>
RotationCancel(e, eta) == <<"cancel_rotation", e, eta>>
PolicyInitialization(e, ts) == <<"initialize_policy", e, ts>>
PolicyProposal(e, ts) == <<"propose_policy", e, ts>>
PolicyCancel(e, eta) == <<"cancel_policy", e, eta>>

\* What the keys of the current epoch may be asked to sign.  The off-chain
\* signing policies narrow this further; the program relies on none of them.
Signable(kind) ==
    LET e == keySet.epoch IN
    CASE kind = "release" ->
            {ReleaseClaim(e, d, a, r) : d \in Deposits, a \in Amounts, r \in Users}
      [] kind = "completion" ->
            {CompletionClaim(e, i, t, a, g) :
                i \in DOMAIN obligations, t \in PayoutTxids, a \in Amounts, g \in GlcAddresses}
      [] kind = "treasury" ->
            {TreasuryClaim(e, n, a, dest, policy.version) :
                n \in Nonces, a \in Amounts, dest \in TokenAccounts}
      [] kind = "refund" ->
            {RefundClaim(e, n, a, i, obligations[i].requester) :
                n \in Nonces, a \in Amounts, i \in DOMAIN obligations}
      [] kind = "propose_rotation" -> {RotationProposal(e, k.keys, k.threshold) : k \in KeySets}
      [] kind = "cancel_rotation" -> {RotationCancel(e, t) : t \in {pendingRotation.eta}}
      [] kind = "initialize_policy" -> {PolicyInitialization(e, ts) : ts \in TreasuryLists}
      [] kind = "propose_policy" -> {PolicyProposal(e, ts) : ts \in TreasuryLists}
      [] kind = "cancel_policy" -> {PolicyCancel(e, t) : t \in {pendingPolicy.eta}}

\* External: a threshold of the current keys signs one message.
Attest(m) ==
    /\ config.initialized
    /\ Cardinality(signed) < MaxSigned
    /\ m \notin signed
    /\ signed' = signed \cup {m}
    /\ UNCHANGED <<config, settlementVars, governanceVars, clock, funded>>

\* require_threshold_approval: the previous instruction proves that a
\* threshold of current keys signed exactly this message.
Approved(m) == m \in signed

-----------------------------------------------------------------------------
(* Setup *)

Init ==
    /\ config = [initialized |-> FALSE, mintSet |-> FALSE,
                 admin |-> CHOOSE a \in Admins : TRUE, pendingAdmin |-> {},
                 paused |-> FALSE, releasePaused |-> FALSE, depositPaused |-> FALSE,
                 minTransfer |-> 0, perTransfer |-> 0, protectedMinimum |-> 0,
                 rollingLimit |-> 0]
    /\ keySet = [epoch |-> 0, threshold |-> 0, keys |-> <<>>]
    /\ window = [d \in Directions |-> [start |-> 0, total |-> 0]]
    /\ claims = {} /\ obligations = <<>> /\ withdrawals = {}
    /\ policy = NoPolicy /\ pendingRotation = NoRotation /\ pendingPolicy = NoProposal
    /\ reserve = 0 /\ clock = 0 /\ signed = {} /\ funded = 0 /\ policyLog = <<>>

\* Once, by the deployer, who becomes admin.
Initialize(ks) ==
    /\ ~config.initialized
    /\ ValidKeySet(ks.keys, ks.threshold)
    /\ config' = [config EXCEPT !.initialized = TRUE,
                                !.minTransfer = Limits0.minTransfer,
                                !.perTransfer = Limits0.perTransfer,
                                !.protectedMinimum = Limits0.protectedMinimum,
                                !.rollingLimit = Limits0.rollingLimit]
    /\ keySet' = [epoch |-> 0, threshold |-> ks.threshold, keys |-> ks.keys]
    /\ window' = [d \in Directions |-> [start |-> clock, total |-> 0]]
    /\ UNCHANGED <<claims, obligations, withdrawals, policy, pendingRotation,
                   pendingPolicy, reserve, clock, signed, funded, policyLog>>

\* Once, by the admin: records the mint; every token instruction needs it.
InitializeReserveVault ==
    /\ config.initialized
    /\ ~config.mintSet
    /\ config' = [config EXCEPT !.mintSet = TRUE]
    /\ UNCHANGED <<settlementVars, governanceVars, clock, signed, funded>>

\* External: an operator or anybody sends tokens to the reserve account.
FundReserve(a) ==
    /\ config.mintSet
    /\ funded + a <= MaxFunding
    /\ reserve' = reserve + a
    /\ funded' = funded + a
    /\ UNCHANGED <<config, claims, obligations, withdrawals, window, governanceVars,
                   clock, signed>>

Tick ==
    /\ clock < MaxClock
    /\ clock' = clock + 1
    /\ UNCHANGED <<config, settlementVars, governanceVars, signed, funded>>

-----------------------------------------------------------------------------
(* Settlement *)

\* The rolling-volume part of a transfer in one direction.
VolumeOK(dir, a) == RollingVolumeOK(window[dir], clock, RollingSeconds, config.rollingLimit, a)
ChargeVolume(dir, a) ==
    window' = [window EXCEPT ![dir] = RecordedVolume(window[dir], clock, RollingSeconds, a)]

Unclaimed_NoGuard(d) == TRUE

\* The claim account's init is the replay guard: it fails if one exists.
Unclaimed(d) == \A c \in claims : c.deposit # d

\* The caller's attestation_epoch must be the key set's.
CurrentEpoch(e) == e = keySet.epoch

ReleaseApproved_AnyAmount(e, d, a, r) == \E b \in Amounts : Approved(ReleaseClaim(e, d, b, r))

\* The threshold proof of a release binds deposit, amount and recipient.
ReleaseApproved(e, d, a, r) == Approved(ReleaseClaim(e, d, a, r))

\* Goldcoin deposit d pays a to r out of the reserve.
ReleaseFromReserve(d, a, r, e) ==
    /\ config.mintSet
    /\ Unclaimed(d)
    /\ ~config.paused /\ ~config.releasePaused
    /\ CurrentEpoch(e)
    /\ TransferAmountOK(config, a)
    /\ ProtectedMinimumOK(reserve, config.protectedMinimum, a)
    /\ ReleaseApproved(e, d, a, r)
    /\ VolumeOK("GoldcoinToSolana", a)
    /\ ChargeVolume("GoldcoinToSolana", a)
    /\ reserve' = reserve - a
    /\ claims' = claims \cup {[deposit |-> d, amount |-> a, recipient |-> r, epoch |-> e]}
    /\ UNCHANGED <<config, obligations, withdrawals, governanceVars, clock, signed, funded>>

\* A user moves a into the reserve and is owed a payout to addr on Goldcoin.
DepositToReserve(u, a, addr) ==
    /\ config.mintSet
    /\ ~config.paused /\ ~config.depositPaused
    /\ TransferAmountOK(config, a)
    /\ Len(obligations) < MaxObligations
    /\ VolumeOK("SolanaToGoldcoin", a)
    /\ ChargeVolume("SolanaToGoldcoin", a)
    /\ reserve' = reserve + a
    /\ obligations' = Append(obligations, [amount |-> a, requester |-> u, addr |-> addr,
                                           status |-> "Pending", payout |-> NoPayout])
    /\ UNCHANGED <<config, claims, withdrawals, governanceVars, clock, signed, funded>>

IsPending_OnlyNotCompleted(i) == obligations[i].status # "Completed"

\* Both ways of closing an obligation start from Pending.
IsPending(i) == obligations[i].status = "Pending"

\* The keys attest that Goldcoin transaction t paid net amount a to the
\* obligation's own address.  (t stands for the txid and its height.)
RecordGoldcoinCompletion(i, t, a, e) ==
    /\ ~config.paused
    /\ a > 0
    /\ CurrentEpoch(e)
    /\ IsPending(i)
    /\ obligations[i].payout = NoPayout
    /\ t # NoPayout
    /\ Approved(CompletionClaim(e, i, t, a, obligations[i].addr))
    /\ obligations' = [obligations EXCEPT ![i] = [@ EXCEPT !.payout = t, !.status = "Completed"]]
    /\ UNCHANGED <<config, claims, withdrawals, reserve, window, governanceVars, clock,
                   signed, funded>>

\* The RebalanceWithdrawal record's init: one per nonce, both classes together.
NonceUnused(n) == \A w \in withdrawals : w.nonce # n

\* The threshold proof of a treasury withdrawal binds the policy version too.
TreasuryApproved(e, n, a, dest) == Approved(TreasuryClaim(e, n, a, dest, policy.version))

\* is_allowlisted: an exact match in the governed list.
Allowlisted(dest) == \E i \in DOMAIN policy.treasuries : policy.treasuries[i] = dest

\* The admin, with a threshold proof and while paused, moves a to an account
\* of the governed allowlist.
TreasuryWithdraw(n, a, dest, e) ==
    /\ config.mintSet
    /\ config.paused
    /\ CurrentEpoch(e)
    /\ a > 0
    /\ n \notin RefundNonces
    /\ NonceUnused(n)
    /\ policy.exists
    /\ Allowlisted(dest)
    /\ dest # ReserveAccount
    /\ ProtectedMinimumOK(reserve, config.protectedMinimum, a)
    /\ TreasuryApproved(e, n, a, dest)
    /\ reserve' = reserve - a
    /\ withdrawals' = withdrawals \cup
            {[nonce |-> n, class |-> "treasury", amount |-> a, dest |-> dest, epoch |-> e,
              ref |-> policy.version]}
    /\ UNCHANGED <<config, claims, obligations, window, governanceVars, clock, signed, funded>>

\* The admin, with a threshold proof and while paused, returns obligation i's
\* deposit to its requester.
RefundWithdraw(n, a, i, e) ==
    /\ config.mintSet
    /\ config.paused
    /\ CurrentEpoch(e)
    /\ a > 0
    /\ n \in RefundNonces
    /\ NonceUnused(n)
    /\ IsPending(i)
    /\ a = obligations[i].amount
    /\ ProtectedMinimumOK(reserve, config.protectedMinimum, a)
    /\ Approved(RefundClaim(e, n, a, i, obligations[i].requester))
    /\ reserve' = reserve - a
    /\ withdrawals' = withdrawals \cup
            {[nonce |-> n, class |-> "refund", amount |-> a,
              dest |-> obligations[i].requester, epoch |-> e, ref |-> i]}
    /\ obligations' = [obligations EXCEPT ![i] = [@ EXCEPT !.status = "Refunded"]]
    /\ UNCHANGED <<config, claims, window, governanceVars, clock, signed, funded>>

-----------------------------------------------------------------------------
(* Administration: immediate, admin signature only *)

\* A flip to the value already held is refused.
SetPaused(scope, p) ==
    /\ config.initialized
    /\ config[scope] # p
    /\ config' = [config EXCEPT ![scope] = p]
    /\ UNCHANGED <<settlementVars, governanceVars, clock, signed, funded>>

SetLimit(field, v) ==
    /\ config.initialized
    /\ field \in {"perTransfer", "rollingLimit"} => v > 0
    /\ config' = [config EXCEPT ![field] = v]
    /\ UNCHANGED <<settlementVars, governanceVars, clock, signed, funded>>

TransferAdmin(a) ==
    /\ config.initialized
    /\ a # config.admin
    /\ config' = [config EXCEPT !.pendingAdmin = {a}]
    /\ UNCHANGED <<settlementVars, governanceVars, clock, signed, funded>>

AcceptAdmin(a) ==
    /\ a \in config.pendingAdmin
    /\ config' = [config EXCEPT !.admin = a, !.pendingAdmin = {}]
    /\ UNCHANGED <<settlementVars, governanceVars, clock, signed, funded>>

ResetRollingVolumeWindow(dir) ==
    /\ config.paused
    /\ window' = [window EXCEPT ![dir] = [start |-> clock, total |-> 0]]
    /\ UNCHANGED <<config, claims, obligations, withdrawals, reserve, governanceVars, clock,
                   signed, funded>>

-----------------------------------------------------------------------------
(* Governance: threshold proof, then the timelock; execution is open to all *)

\* The earliest execution time of what is proposed now.
Eta == clock + GovernanceTimelock

StillCurrent_NotChecked(pending) == TRUE

\* The key set that approved a queued change is still the one in force.
StillCurrent(pending) == keySet.epoch = pending.epoch

\* The pending account is a singleton: init fails while one is open.
ProposeAttestationKeyRotation(ks, th) ==
    /\ config.initialized
    /\ ~pendingRotation.open
    /\ ValidKeySet(ks, th)
    /\ Approved(RotationProposal(keySet.epoch, ks, th))
    /\ pendingRotation' = [open |-> TRUE, epoch |-> keySet.epoch, since |-> clock,
                           eta |-> Eta, keys |-> ks, threshold |-> th]
    /\ UNCHANGED <<config, settlementVars, keySet, policy, pendingPolicy, policyLog, clock,
                   signed, funded>>

ExecuteAttestationKeyRotation ==
    /\ pendingRotation.open
    /\ clock >= pendingRotation.eta
    /\ StillCurrent(pendingRotation)
    /\ ValidKeySet(pendingRotation.keys, pendingRotation.threshold)
    /\ keySet' = [epoch |-> keySet.epoch + 1, threshold |-> pendingRotation.threshold,
                  keys |-> pendingRotation.keys]
    /\ pendingRotation' = NoRotation
    /\ UNCHANGED <<config, settlementVars, policy, pendingPolicy, policyLog, clock, signed,
                   funded>>

CancelAttestationKeyRotation ==
    /\ pendingRotation.open
    /\ Approved(RotationCancel(keySet.epoch, pendingRotation.eta))
    /\ pendingRotation' = NoRotation
    /\ UNCHANGED <<config, settlementVars, keySet, policy, pendingPolicy, policyLog, clock,
                   signed, funded>>

InitializeRebalancePolicy(ts) ==
    /\ config.mintSet
    /\ ~policy.exists
    /\ ValidTreasuries(ts, ReserveAccount)
    /\ Approved(PolicyInitialization(keySet.epoch, ts))
    /\ policy' = [exists |-> TRUE, version |-> 0, treasuries |-> ts]
    /\ policyLog' = Append(policyLog, ts)
    /\ UNCHANGED <<config, settlementVars, keySet, pendingRotation, pendingPolicy, clock,
                   signed, funded>>

ProposeRebalancePolicy(ts) ==
    /\ policy.exists
    /\ ~pendingPolicy.open
    /\ ValidTreasuries(ts, ReserveAccount)
    /\ Approved(PolicyProposal(keySet.epoch, ts))
    /\ pendingPolicy' = [open |-> TRUE, epoch |-> keySet.epoch, since |-> clock,
                         eta |-> Eta, treasuries |-> ts]
    /\ UNCHANGED <<config, settlementVars, keySet, policy, pendingRotation, policyLog, clock,
                   signed, funded>>

ExecuteRebalancePolicy ==
    /\ policy.exists
    /\ pendingPolicy.open
    /\ clock >= pendingPolicy.eta
    /\ StillCurrent(pendingPolicy)
    /\ ValidTreasuries(pendingPolicy.treasuries, ReserveAccount)
    /\ policy' = [exists |-> TRUE, version |-> policy.version + 1,
                  treasuries |-> pendingPolicy.treasuries]
    /\ policyLog' = Append(policyLog, pendingPolicy.treasuries)
    /\ pendingPolicy' = NoProposal
    /\ UNCHANGED <<config, settlementVars, keySet, pendingRotation, clock, signed, funded>>

CancelRebalancePolicy ==
    /\ pendingPolicy.open
    /\ Approved(PolicyCancel(keySet.epoch, pendingPolicy.eta))
    /\ pendingPolicy' = NoProposal
    /\ UNCHANGED <<config, settlementVars, keySet, policy, pendingRotation, policyLog, clock,
                   signed, funded>>

-----------------------------------------------------------------------------
Epochs == 0..MaxEpoch

Settle ==
    \/ \E d \in Deposits, a \in Amounts, r \in Users, e \in Epochs : ReleaseFromReserve(d, a, r, e)
    \/ \E u \in Users, a \in Amounts, g \in GlcAddresses : DepositToReserve(u, a, g)
    \/ \E i \in DOMAIN obligations, t \in PayoutTxids, a \in Amounts, e \in Epochs :
            RecordGoldcoinCompletion(i, t, a, e)
    \/ \E n \in Nonces, a \in Amounts, dest \in TokenAccounts, e \in Epochs :
            TreasuryWithdraw(n, a, dest, e)
    \/ \E n \in Nonces, a \in Amounts, i \in DOMAIN obligations, e \in Epochs :
            RefundWithdraw(n, a, i, e)

Administer ==
    \/ \E scope \in PauseScopes, p \in BOOLEAN : SetPaused(scope, p)
    \/ \E f \in LimitFields : \E v \in LimitValues[f] : SetLimit(f, v)
    \/ \E a \in Admins : TransferAdmin(a)
    \/ \E a \in Admins : AcceptAdmin(a)
    \/ \E d \in Directions : ResetRollingVolumeWindow(d)

Govern ==
    \/ \E k \in KeySets : ProposeAttestationKeyRotation(k.keys, k.threshold)
    \/ keySet.epoch < MaxEpoch /\ ExecuteAttestationKeyRotation
    \/ CancelAttestationKeyRotation
    \/ \E ts \in TreasuryLists : InitializeRebalancePolicy(ts)
    \/ \E ts \in TreasuryLists : ProposeRebalancePolicy(ts)
    \/ policy.version < MaxVersion /\ ExecuteRebalancePolicy
    \/ CancelRebalancePolicy

Environment ==
    \/ \E k \in KeySets : Initialize(k)
    \/ InitializeReserveVault
    \/ \E a \in Amounts : FundReserve(a)
    \/ Tick
    \/ \E kind \in Kinds : \E m \in Signable(kind) : Attest(m)

Next == Settle \/ Administer \/ Govern \/ Environment

Spec == Init /\ [][Next]_vars

-----------------------------------------------------------------------------
(* Properties *)

ConfigType ==
    config \in [initialized : BOOLEAN, mintSet : BOOLEAN, admin : Admins,
                pendingAdmin : SUBSET Admins, paused : BOOLEAN, releasePaused : BOOLEAN,
                depositPaused : BOOLEAN, minTransfer : Nat, perTransfer : Nat,
                protectedMinimum : Nat, rollingLimit : Nat]

Claim == [deposit : Deposits, amount : Nat, recipient : Users, epoch : Nat]
Obligation == [amount : Nat, requester : Users, addr : GlcAddresses,
               status : {"Pending", "Completed", "Refunded"},
               payout : PayoutTxids \cup {NoPayout}]
Withdrawal == [nonce : Nonces, class : {"treasury", "refund"}, amount : Nat,
               dest : TokenAccounts \cup Users, epoch : Nat, ref : Nat]

SettlementType ==
    /\ claims \subseteq Claim
    /\ obligations \in Seq(Obligation)
    /\ withdrawals \subseteq Withdrawal
    /\ reserve \in Nat
    /\ window \in [Directions -> [start : Nat, total : Nat]]

GovernanceType ==
    /\ keySet \in [epoch : Nat, threshold : Nat, keys : Seq(PubKeys)]
    /\ policy \in [exists : BOOLEAN, version : Nat, treasuries : Seq(TokenAccounts)]
    /\ pendingRotation \in [open : BOOLEAN, epoch : Nat, since : Nat, eta : Nat,
                            keys : Seq(PubKeys), threshold : Nat]
    /\ pendingPolicy \in [open : BOOLEAN, epoch : Nat, since : Nat, eta : Nat,
                          treasuries : Seq(TokenAccounts)]
    /\ policyLog \in Seq(Seq(TokenAccounts))

\* The shape of every account, and of the clock.
TypeOK == ConfigType /\ SettlementType /\ GovernanceType /\ clock \in Nat /\ funded \in Nat

\* A Goldcoin deposit is paid out of the reserve at most once, whatever
\* messages were signed for it and however often they are submitted
\* (release_from_reserve's DepositClaim init).
OneReleasePerDeposit ==
    \A c1, c2 \in claims : c1.deposit = c2.deposit => c1 = c2

RefundsOf(i) == {w \in withdrawals : w.class = "refund" /\ w.ref = i}

SettledAtMostOnce(i) ==
    /\ (RefundsOf(i) # {}) <=> (obligations[i].status = "Refunded")
    /\ \A w1, w2 \in RefundsOf(i) : w1 = w2
    /\ (obligations[i].payout # NoPayout) <=> (obligations[i].status = "Completed")
    /\ \A w \in RefundsOf(i) : /\ w.amount = obligations[i].amount
                               /\ w.dest = obligations[i].requester

\* "An obligation leaves Pending exactly once" (state.rs, refund_withdraw.rs):
\* it is refunded by at most one withdrawal record, under any nonce, and
\* never both refunded on Solana and completed on Goldcoin.
ObligationSettledOnce == \A i \in DOMAIN obligations : SettledAtMostOnce(i)

Total(records) == SumOver([r \in records |-> r.amount], records)
Deposited == SumOver([i \in DOMAIN obligations |-> obligations[i].amount], DOMAIN obligations)

\* Every token that ever entered or left the reserve is accounted for by an
\* obligation, a claim or a withdrawal record: no instruction moves tokens
\* without leaving its record, and none leaves a record without moving them.
ReserveAccounted ==
    reserve + Total(claims) + Total(withdrawals) = funded + Deposited

\* Whatever moved tokens out, or closed an obligation, a threshold of keys had
\* signed exactly that: the deposit, amount and recipient; the nonce, amount,
\* destination and policy version; the obligation and its requester.
EveryOutflowAttested ==
    /\ \A c \in claims : ReleaseClaim(c.epoch, c.deposit, c.amount, c.recipient) \in signed
    /\ \A w \in withdrawals :
        IF w.class = "treasury"
        THEN TreasuryClaim(w.epoch, w.nonce, w.amount, w.dest, w.ref) \in signed
        ELSE RefundClaim(w.epoch, w.nonce, w.amount, w.ref, w.dest) \in signed

\* Nothing moves unexplained: every token is accounted for by a record, and
\* every record by the signatures of a threshold of keys.
EveryTokenExplained == ReserveAccounted /\ EveryOutflowAttested

\* A treasury withdrawal went to an account that the policy version its
\* approvers signed had allowlisted (treasury_withdraw binds policy.version).
TreasuryPaidAsGoverned ==
    \A w \in withdrawals : w.class = "treasury" =>
        /\ w.ref + 1 \in DOMAIN policyLog
        /\ \E i \in DOMAIN policyLog[w.ref + 1] : policyLog[w.ref + 1][i] = w.dest
        /\ w.dest # ReserveAccount

\* The key set can always produce a proof: threshold distinct, usable keys.
\* A rotation into a set that cannot would leave the reserve locked for good.
QuorumAlwaysPossible ==
    config.initialized =>
        LET usable == {keySet.keys[i] : i \in DOMAIN keySet.keys} \ {DefaultKey}
        IN  Cardinality(usable) >= keySet.threshold /\ keySet.threshold >= 2

\* A queued rotation is never stale, so its own epoch check never refuses it
\* and it stays executable once due: the one thing that ends an epoch is the
\* execution that closes the singleton pending account.
QueuedRotationStaysValid ==
    pendingRotation.open =>
        /\ pendingRotation.epoch = keySet.epoch
        /\ ValidKeySet(pendingRotation.keys, pendingRotation.threshold)

\* What governance can never lose: a usable quorum, a queued rotation that
\* stays executable, and treasuries paid as their policy said.
GovernedAsPromised ==
    /\ QuorumAlwaysPossible /\ QueuedRotationStaysValid
    /\ TreasuryPaidAsGoverned /\ EveryOutflowAttested

\* No instruction takes the reserve below the protected minimum in force.
FloorHeld == [][reserve' < reserve => reserve' >= config.protectedMinimum]_vars

\* An approval dies with the key set that gave it: whatever is paid or
\* completed in this step was signed under the epoch in force in this step.
CurrentEpochStep ==
    /\ \A c \in claims' \ claims : c.epoch = keySet.epoch
    /\ \A w \in withdrawals' \ withdrawals : w.epoch = keySet.epoch
    /\ \A i \in DOMAIN obligations :
         obligations'[i].status = "Completed" /\ obligations[i].status # "Completed" =>
             \E a \in Amounts : CompletionClaim(keySet.epoch, i, obligations'[i].payout, a,
                                                obligations[i].addr) \in signed

\* The keys and the allowlist change only to something that has stood on
\* chain, unreplaced, for the whole timelock and whose approving key set is
\* still the one in force (governance.rs, rebalance_policy.rs).
TimelockedStep ==
    /\ config.initialized /\ keySet' # keySet =>
         /\ pendingRotation.open
         /\ clock - pendingRotation.since >= GovernanceTimelock
         /\ RotationProposal(keySet.epoch, keySet'.keys, keySet'.threshold) \in signed
    /\ policy.exists /\ policy' # policy =>
         /\ pendingPolicy.open
         /\ clock - pendingPolicy.since >= GovernanceTimelock
         /\ PolicyProposal(keySet.epoch, policy'.treasuries) \in signed
    /\ pendingRotation.open /\ pendingRotation'.open => pendingRotation' = pendingRotation
    /\ pendingPolicy.open /\ pendingPolicy'.open => pendingPolicy' = pendingPolicy

\* Keys and allowlist change only after standing announced for the timelock,
\* and every outflow is approved by the keys of its own moment
\* (governance.rs, rebalance_policy.rs, the proof check of each outflow).
ChangesAreAnnounced == [][TimelockedStep /\ CurrentEpochStep]_vars
=============================================================================
