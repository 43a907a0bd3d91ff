------------------------- MODULE ReserveProgramProofs -------------------------
(***************************************************************************)
(* Proofs about ReserveProgram, for every value of its constants.          *)
(***************************************************************************)
EXTENDS ReserveProgram, SumsProofs, SequenceTheorems

\* What a transfer records in its direction's window is a window again.
LEMMA ChargeType ==
    ASSUME SettlementType, clock \in Nat, NEW dir \in Directions, NEW a \in Nat,
           ChargeVolume(dir, a)
    PROVE  window' \in [Directions -> [start : Nat, total : Nat]]
<1>1. RecordedVolume(window[dir], clock, RollingSeconds, a) \in [start : Nat, total : Nat]
    BY ConstantsAssumption DEF SettlementType, RecordedVolume, CurrentBucket
<1> QED
    BY <1>1 DEF ChargeVolume, SettlementType

\* Replacing one element of a sequence by another of the same set.
LEMMA ReplaceElement ==
    ASSUME NEW S, NEW s \in Seq(S), NEW i \in DOMAIN s, NEW x \in S
    PROVE  [s EXCEPT ![i] = x] \in Seq(S)
OBVIOUS

\* Every settlement instruction keeps the shape of the accounts.
LEMMA SettleType == TypeOK /\ Settle => TypeOK'
<1> SUFFICES ASSUME TypeOK, Settle PROVE TypeOK'
    OBVIOUS
<1>a. Amounts \subseteq Nat /\ Epochs \subseteq Nat
    BY ConstantsAssumption DEF Epochs
<1>1. ASSUME NEW d \in Deposits, NEW a \in Amounts, NEW r \in Users, NEW e \in Epochs,
             ReleaseFromReserve(d, a, r, e)
      PROVE  TypeOK'
  <2>1. ConfigType' /\ GovernanceType' /\ clock' \in Nat /\ funded' \in Nat
    BY <1>1 DEF TypeOK, ConfigType, GovernanceType, ReleaseFromReserve, governanceVars
  <2>2. window' \in [Directions -> [start : Nat, total : Nat]]
    BY <1>1, <1>a, ChargeType DEF TypeOK, ReleaseFromReserve, Directions
  <2>3. reserve' \in Nat
    BY <1>1, <1>a DEF TypeOK, SettlementType, ConfigType, ReleaseFromReserve, ProtectedMinimumOK
  <2>4. claims' \subseteq Claim
    BY <1>1, <1>a DEF TypeOK, SettlementType, ReleaseFromReserve, Claim
  <2> QED
    BY <1>1, <2>1, <2>2, <2>3, <2>4 DEF TypeOK, SettlementType, ReleaseFromReserve
<1>2. ASSUME NEW u \in Users, NEW a \in Amounts, NEW g \in GlcAddresses,
             DepositToReserve(u, a, g)
      PROVE  TypeOK'
  <2>1. ConfigType' /\ GovernanceType' /\ clock' \in Nat /\ funded' \in Nat
    BY <1>2 DEF TypeOK, ConfigType, GovernanceType, DepositToReserve, governanceVars
  <2>2. window' \in [Directions -> [start : Nat, total : Nat]]
    BY <1>2, <1>a, ChargeType DEF TypeOK, DepositToReserve, Directions
  <2>3. reserve' \in Nat
    BY <1>2, <1>a DEF TypeOK, SettlementType, DepositToReserve
  <2>4. obligations' \in Seq(Obligation)
    BY <1>2, <1>a DEF TypeOK, SettlementType, DepositToReserve, Obligation
  <2> QED
    BY <1>2, <2>1, <2>2, <2>3, <2>4 DEF TypeOK, SettlementType, DepositToReserve
<1>3. ASSUME NEW i \in DOMAIN obligations, NEW t \in PayoutTxids, NEW a \in Amounts,
             NEW e \in Epochs, RecordGoldcoinCompletion(i, t, a, e)
      PROVE  TypeOK'
  <2>1. ConfigType' /\ GovernanceType' /\ clock' \in Nat /\ funded' \in Nat
    BY <1>3 DEF TypeOK, ConfigType, GovernanceType, RecordGoldcoinCompletion, governanceVars
  <2> DEFINE o == [obligations[i] EXCEPT !.payout = t, !.status = "Completed"]
  <2>o. obligations[i] \in Obligation
    BY DEF TypeOK, SettlementType
  <2>a. o \in Obligation
    BY <2>o DEF Obligation
  <2>2. obligations' \in Seq(Obligation)
    BY <1>3, <2>a, ReplaceElement DEF TypeOK, SettlementType, RecordGoldcoinCompletion
  <2> QED
    BY <1>3, <2>1, <2>2 DEF TypeOK, SettlementType, RecordGoldcoinCompletion
<1>4. ASSUME NEW n \in Nonces, NEW a \in Amounts, NEW dest \in TokenAccounts,
             NEW e \in Epochs, TreasuryWithdraw(n, a, dest, e)
      PROVE  TypeOK'
  <2>1. ConfigType' /\ GovernanceType' /\ clock' \in Nat /\ funded' \in Nat
    BY <1>4 DEF TypeOK, ConfigType, GovernanceType, TreasuryWithdraw, governanceVars
  <2>2. reserve' \in Nat
    BY <1>4, <1>a DEF TypeOK, SettlementType, ConfigType, TreasuryWithdraw, ProtectedMinimumOK
  <2>3. withdrawals' \subseteq Withdrawal
    <3> DEFINE w == [nonce |-> n, class |-> "treasury", amount |-> a, dest |-> dest,
                     epoch |-> e, ref |-> policy.version]
    <3>1. w \in Withdrawal
      BY <1>a DEF TypeOK, GovernanceType, Withdrawal
    <3> QED
      BY <1>4, <3>1 DEF TypeOK, SettlementType, TreasuryWithdraw
  <2> QED
    BY <1>4, <2>1, <2>2, <2>3 DEF TypeOK, SettlementType, TreasuryWithdraw
<1>5. ASSUME NEW n \in Nonces, NEW a \in Amounts, NEW i \in DOMAIN obligations,
             NEW e \in Epochs, RefundWithdraw(n, a, i, e)
      PROVE  TypeOK'
  <2>1. ConfigType' /\ GovernanceType' /\ clock' \in Nat /\ funded' \in Nat
    BY <1>5 DEF TypeOK, ConfigType, GovernanceType, RefundWithdraw, governanceVars
  <2>2. reserve' \in Nat
    BY <1>5, <1>a DEF TypeOK, SettlementType, ConfigType, RefundWithdraw, ProtectedMinimumOK
  <2>o. i \in Nat /\ obligations[i] \in Obligation
    BY DEF TypeOK, SettlementType
  <2>3. obligations[i].requester \in Users
    BY <2>o DEF Obligation
  <2>4. withdrawals' \subseteq Withdrawal
    <3> DEFINE w == [nonce |-> n, class |-> "refund", amount |-> a,
                     dest |-> obligations[i].requester, epoch |-> e, ref |-> i]
    <3>1. w \in Withdrawal
      BY <1>a, <2>o, <2>3 DEF Withdrawal
    <3> QED
      BY <1>5, <3>1 DEF TypeOK, SettlementType, RefundWithdraw
  <2> DEFINE o == [obligations[i] EXCEPT !.status = "Refunded"]
  <2>a. o \in Obligation
    BY <2>o DEF Obligation
  <2>5. obligations' \in Seq(Obligation)
    BY <1>5, <2>a, ReplaceElement DEF TypeOK, SettlementType, RefundWithdraw
  <2> QED
    BY <1>5, <2>1, <2>2, <2>4, <2>5 DEF TypeOK, SettlementType, RefundWithdraw
<1> QED
    BY <1>1, <1>2, <1>3, <1>4, <1>5 DEF Settle

\* Every admin instruction keeps the shape of the accounts.
LEMMA AdministerType == TypeOK /\ Administer => TypeOK'
<1> SUFFICES ASSUME TypeOK, Administer PROVE TypeOK'
    OBVIOUS
<1>1. ASSUME NEW scope \in PauseScopes, NEW q \in BOOLEAN, SetPaused(scope, q)
      PROVE  TypeOK'
  <2>1. scope \in {"paused", "releasePaused", "depositPaused"}
    BY ConstantsAssumption
  <2>2. ConfigType'
    BY <1>1, <2>1 DEF TypeOK, ConfigType, SetPaused
  <2> QED
    BY <1>1, <2>2 DEF TypeOK, SettlementType, GovernanceType, SetPaused, settlementVars,
        governanceVars
<1>2. ASSUME NEW f \in LimitFields, NEW v \in LimitValues[f], SetLimit(f, v)
      PROVE  TypeOK'
  <2>1. v \in Nat
    BY ConstantsAssumption
  <2>2. ConfigType'
    BY <1>2, <2>1 DEF TypeOK, ConfigType, SetLimit, LimitFields
  <2> QED
    BY <1>2, <2>2 DEF TypeOK, SettlementType, GovernanceType, SetLimit, settlementVars,
        governanceVars
<1>3. ASSUME NEW a \in Admins, TransferAdmin(a) \/ AcceptAdmin(a)
      PROVE  TypeOK'
  <2>1. ConfigType'
    <3> DEFINE c == [config EXCEPT !.pendingAdmin = {}]
    <3>1. CASE TransferAdmin(a)
      <4>1. {a} \in SUBSET Admins /\ config' = [config EXCEPT !.pendingAdmin = {a}]
        BY <3>1 DEF TransferAdmin
      <4> QED
        BY <4>1 DEF TypeOK, ConfigType
    <3>2. CASE AcceptAdmin(a)
      <4>1. config' = [c EXCEPT !.admin = a]
        BY <3>2 DEF AcceptAdmin, TypeOK, ConfigType
      <4>2. c \in [initialized : BOOLEAN, mintSet : BOOLEAN, admin : Admins,
                   pendingAdmin : SUBSET Admins, paused : BOOLEAN, releasePaused : BOOLEAN,
                   depositPaused : BOOLEAN, minTransfer : Nat, perTransfer : Nat,
                   protectedMinimum : Nat, rollingLimit : Nat]
        BY DEF TypeOK, ConfigType
      <4> HIDE DEF c
      <4> QED
        BY <4>1, <4>2 DEF ConfigType
    <3> QED
      BY <1>3, <3>1, <3>2
  <2> QED
    BY <1>3, <2>1 DEF TypeOK, SettlementType, GovernanceType, TransferAdmin, AcceptAdmin,
        settlementVars, governanceVars
<1>4. ASSUME NEW d \in Directions, ResetRollingVolumeWindow(d)
      PROVE  TypeOK'
  <2>1. ConfigType' /\ GovernanceType' /\ clock' \in Nat /\ funded' \in Nat
    BY <1>4 DEF TypeOK, ConfigType, GovernanceType, ResetRollingVolumeWindow, governanceVars
  <2>2. SettlementType'
    BY <1>4 DEF TypeOK, SettlementType, ResetRollingVolumeWindow
  <2> QED
    BY <2>1, <2>2 DEF TypeOK
<1> QED
    BY <1>1, <1>2, <1>3, <1>4 DEF Administer

\* Every governance instruction keeps the shape of the accounts.
LEMMA GovernType == TypeOK /\ Govern => TypeOK'
<1> SUFFICES ASSUME TypeOK, Govern, GovernanceType' PROVE TypeOK'
  <2>1. TypeOK /\ Govern => GovernanceType'
    <3> SUFFICES ASSUME TypeOK, Govern PROVE GovernanceType'
        OBVIOUS
    <3>1. ASSUME NEW k \in KeySets, ProposeAttestationKeyRotation(k.keys, k.threshold)
          PROVE  GovernanceType'
      <4>1. k.keys \in Seq(PubKeys) /\ k.threshold \in Nat
        BY ConstantsAssumption
      <4>2. clock + GovernanceTimelock \in Nat
        BY ConstantsAssumption DEF TypeOK
      <4> QED
        BY <3>1, <4>1, <4>2 DEF TypeOK, GovernanceType, ProposeAttestationKeyRotation, Eta
    <3>2. CASE ExecuteAttestationKeyRotation
      <4>1. keySet' \in [epoch : Nat, threshold : Nat, keys : Seq(PubKeys)]
        <5>1. /\ keySet.epoch + 1 \in Nat /\ pendingRotation.threshold \in Nat
              /\ pendingRotation.keys \in Seq(PubKeys)
          <6>1. keySet \in [epoch : Nat, threshold : Nat, keys : Seq(PubKeys)]
            BY DEF TypeOK, GovernanceType
          <6>2. keySet.epoch \in Nat
            BY <6>1
          <6>3. pendingRotation \in [open : BOOLEAN, epoch : Nat, since : Nat, eta : Nat,
                                     keys : Seq(PubKeys), threshold : Nat]
            BY DEF TypeOK, GovernanceType
          <6>4. pendingRotation.threshold \in Nat /\ pendingRotation.keys \in Seq(PubKeys)
            BY <6>3
          <6> QED
            BY <6>2, <6>4
        <5>2. keySet' = [epoch |-> keySet.epoch + 1, threshold |-> pendingRotation.threshold,
                         keys |-> pendingRotation.keys]
          BY <3>2 DEF ExecuteAttestationKeyRotation
        <5> QED
          BY <5>1, <5>2
      <4> QED
        BY <3>2, <4>1 DEF TypeOK, GovernanceType, ExecuteAttestationKeyRotation, NoRotation
    <3>6. CASE CancelAttestationKeyRotation
      BY <3>6 DEF TypeOK, GovernanceType, CancelAttestationKeyRotation, NoRotation
    <3>3. ASSUME NEW ts \in TreasuryLists, InitializeRebalancePolicy(ts)
          PROVE  GovernanceType'
      <4>1. ts \in Seq(TokenAccounts)
        BY ConstantsAssumption
      <4>2. policyLog' \in Seq(Seq(TokenAccounts))
        BY <3>3, <4>1, AppendProperties DEF TypeOK, GovernanceType, InitializeRebalancePolicy
      <4> QED
        BY <3>3, <4>1, <4>2 DEF TypeOK, GovernanceType, InitializeRebalancePolicy
    <3>7. ASSUME NEW ts \in TreasuryLists, ProposeRebalancePolicy(ts)
          PROVE  GovernanceType'
      <4>1. ts \in Seq(TokenAccounts)
        BY ConstantsAssumption
      <4>2. clock + GovernanceTimelock \in Nat
        BY ConstantsAssumption DEF TypeOK
      <4> QED
        BY <3>7, <4>1, <4>2 DEF TypeOK, GovernanceType, ProposeRebalancePolicy, Eta
    <3>4. CASE ExecuteRebalancePolicy
      <4>0. pendingPolicy.treasuries \in Seq(TokenAccounts) /\ policyLog \in Seq(Seq(TokenAccounts))
        BY DEF TypeOK, GovernanceType
      <4>a. Append(policyLog, pendingPolicy.treasuries) \in Seq(Seq(TokenAccounts))
        BY <4>0
      <4>1. policyLog' \in Seq(Seq(TokenAccounts))
        BY <3>4, <4>a DEF ExecuteRebalancePolicy
      <4>b. policy.version \in Nat
        BY DEF TypeOK, GovernanceType
      <4>c. policy.version + 1 \in Nat
        BY <4>b
      <4>2. policy' \in [exists : BOOLEAN, version : Nat, treasuries : Seq(TokenAccounts)]
        BY <3>4, <4>0, <4>c DEF ExecuteRebalancePolicy
      <4> QED
        BY <3>4, <4>1, <4>2 DEF TypeOK, GovernanceType, ExecuteRebalancePolicy, NoProposal
    <3>5. CASE CancelRebalancePolicy
      BY <3>5 DEF TypeOK, GovernanceType, CancelRebalancePolicy, NoProposal
    <3> QED
      BY <3>1, <3>2, <3>3, <3>4, <3>5, <3>6, <3>7 DEF Govern
  <2> QED
    BY <2>1
<1>1. UNCHANGED <<config, settlementVars, clock, funded>>
    BY DEF Govern, ProposeAttestationKeyRotation, ExecuteAttestationKeyRotation,
        CancelAttestationKeyRotation, InitializeRebalancePolicy, ProposeRebalancePolicy,
        ExecuteRebalancePolicy, CancelRebalancePolicy
<1> QED
    BY <1>1 DEF TypeOK, ConfigType, SettlementType, settlementVars

\* Setup, funding, signing and the clock keep the shape of the accounts.
LEMMA EnvironmentType == TypeOK /\ Environment => TypeOK'
<1> SUFFICES ASSUME TypeOK, Environment PROVE TypeOK'
    OBVIOUS
<1>1. ASSUME NEW k \in KeySets, Initialize(k)
      PROVE  TypeOK'
  <2>1. ConfigType'
    BY <1>1, ConstantsAssumption DEF TypeOK, ConfigType, Initialize, LimitFields
  <2>2. GovernanceType'
    <3>1. k.keys \in Seq(PubKeys) /\ k.threshold \in Nat
      BY ConstantsAssumption
    <3> QED
      BY <1>1, <3>1 DEF TypeOK, GovernanceType, Initialize
  <2> QED
    BY <1>1, <2>1, <2>2 DEF TypeOK, SettlementType, Initialize
<1>2. CASE InitializeReserveVault
  <2>1. ConfigType'
    BY <1>2 DEF TypeOK, ConfigType, InitializeReserveVault
  <2> QED
    BY <1>2, <2>1 DEF TypeOK, SettlementType, GovernanceType, InitializeReserveVault,
        settlementVars, governanceVars
<1>3. ASSUME NEW a \in Amounts, FundReserve(a)
      PROVE  TypeOK'
  <2>1. ConfigType' /\ GovernanceType'
    BY <1>3 DEF TypeOK, ConfigType, GovernanceType, FundReserve, governanceVars
  <2>2. SettlementType' /\ funded' \in Nat /\ clock' \in Nat
    BY <1>3, ConstantsAssumption DEF TypeOK, SettlementType, FundReserve
  <2> QED
    BY <2>1, <2>2 DEF TypeOK
<1>4. CASE Tick
  <2>1. clock' \in Nat
    BY <1>4 DEF TypeOK, Tick
  <2>2. UNCHANGED <<config, settlementVars, governanceVars, funded>>
    BY <1>4 DEF Tick
  <2> QED
    BY <2>1, <2>2 DEF TypeOK, ConfigType, SettlementType, GovernanceType, settlementVars,
        governanceVars
<1>5. ASSUME NEW m, Attest(m)
      PROVE  TypeOK'
    BY <1>5 DEF TypeOK, ConfigType, SettlementType, GovernanceType, Attest, settlementVars,
        governanceVars
<1> QED
    BY <1>1, <1>2, <1>3, <1>4, <1>5 DEF Environment

\* Every account keeps its shape under every instruction of the program:
\* in particular the reserve balance and the amounts in the records stay
\* natural numbers, so no transfer was ever taken from too small a reserve.
THEOREM TypeCorrect == Spec => []TypeOK
<1>1. Init => TypeOK
  <2> SUFFICES ASSUME Init PROVE TypeOK
    OBVIOUS
  <2>1. (CHOOSE a \in Admins : TRUE) \in Admins
    BY ConstantsAssumption
  <2>2. ConfigType
    BY <2>1 DEF Init, ConfigType
  <2> QED
    BY <2>2 DEF Init, TypeOK, SettlementType, GovernanceType, NoPolicy, NoRotation, NoProposal
<1>2. TypeOK /\ [Next]_vars => TypeOK'
  <2>1. TypeOK /\ UNCHANGED vars => TypeOK'
    BY DEF vars, TypeOK, ConfigType, SettlementType, GovernanceType
  <2> QED
    BY <2>1, SettleType, AdministerType, GovernType, EnvironmentType DEF Next
<1> QED
    BY <1>1, <1>2, PTL DEF Spec

-----------------------------------------------------------------------------
(* Which instruction can touch what: the frames the invariants rest on.    *)

\* Outside the settlement instructions no claim, obligation or withdrawal
\* record changes, and signatures are only ever added.
LEMMA OutsideSettlement ==
    ASSUME Administer \/ Govern \/ Environment \/ UNCHANGED vars
    PROVE  UNCHANGED <<claims, obligations, withdrawals>> /\ signed \subseteq signed'
<1>1. CASE Administer
    BY <1>1 DEF Administer, SetPaused, SetLimit, TransferAdmin, AcceptAdmin,
        ResetRollingVolumeWindow, settlementVars
<1>2. CASE Govern
    BY <1>2 DEF Govern, ProposeAttestationKeyRotation, ExecuteAttestationKeyRotation,
        CancelAttestationKeyRotation, InitializeRebalancePolicy, ProposeRebalancePolicy,
        ExecuteRebalancePolicy, CancelRebalancePolicy, settlementVars
<1>3. CASE Environment
    BY <1>3 DEF Environment, Initialize, InitializeReserveVault, FundReserve, Tick, Attest,
        settlementVars
<1>4. CASE UNCHANGED vars
    BY <1>4 DEF vars
<1> QED
    BY <1>1, <1>2, <1>3, <1>4

\* A Goldcoin deposit is released at most once: the claim's init guard is
\* enough, for any number of deposits, signed messages and submissions.
THEOREM ReleasedOnce == Spec => []OneReleasePerDeposit
<1>1. Init => OneReleasePerDeposit
    BY DEF Init, OneReleasePerDeposit
<1>2. OneReleasePerDeposit /\ [Next]_vars => OneReleasePerDeposit'
  <2> SUFFICES ASSUME OneReleasePerDeposit, [Next]_vars PROVE OneReleasePerDeposit'
    OBVIOUS
  <2>1. ASSUME NEW d \in Deposits, NEW a \in Amounts, NEW r \in Users, NEW e \in Epochs,
               ReleaseFromReserve(d, a, r, e)
        PROVE  OneReleasePerDeposit'
    BY <2>1 DEF OneReleasePerDeposit, ReleaseFromReserve, Unclaimed
  <2>2. CASE UNCHANGED claims
    BY <2>2 DEF OneReleasePerDeposit
  <2>3. Settle => UNCHANGED claims \/
            \E d \in Deposits, a \in Amounts, r \in Users, e \in Epochs :
                ReleaseFromReserve(d, a, r, e)
    BY ZenonT(60) DEF Settle, DepositToReserve, RecordGoldcoinCompletion, TreasuryWithdraw, RefundWithdraw
  <2> QED
    BY <2>1, <2>2, <2>3, OutsideSettlement DEF Next
<1> QED
    BY <1>1, <1>2, PTL DEF Spec

-----------------------------------------------------------------------------
(* Obligations *)

\* Every refund record names an obligation that exists: with it
\* ObligationSettledOnce is inductive (a new obligation has no refund yet).
RefundsNameObligations ==
    \A w \in withdrawals : w.class = "refund" => w.ref \in DOMAIN obligations

\* Only these three instructions touch obligations or refund records.
LEMMA ObligationFrame ==
    ASSUME [Next]_vars
    PROVE  \/ UNCHANGED <<obligations, withdrawals>>
           \/ \E u \in Users, a \in Amounts, g \in GlcAddresses : DepositToReserve(u, a, g)
           \/ \E j \in DOMAIN obligations, t \in PayoutTxids, a \in Amounts, e \in Epochs :
                RecordGoldcoinCompletion(j, t, a, e)
           \/ \E n \in Nonces, a \in Amounts, dest \in TokenAccounts, e \in Epochs :
                TreasuryWithdraw(n, a, dest, e)
           \/ \E n \in Nonces, a \in Amounts, j \in DOMAIN obligations, e \in Epochs :
                RefundWithdraw(n, a, j, e)
<1>1. CASE Settle
    BY <1>1 DEF Settle, ReleaseFromReserve
<1> QED
    BY <1>1, OutsideSettlement DEF Next

\* An obligation leaves Pending once: refunded by one record, or completed,
\* never both, and refunded to its own requester in full.
THEOREM ObligationsSettledOnce == Spec => []ObligationSettledOnce
<1>1. Init => RefundsNameObligations /\ ObligationSettledOnce
    BY DEF Init, RefundsNameObligations, ObligationSettledOnce, RefundsOf
<1>2. ASSUME TypeOK, RefundsNameObligations, ObligationSettledOnce, [Next]_vars
      PROVE  RefundsNameObligations' /\ ObligationSettledOnce'
  <2>1. CASE UNCHANGED <<obligations, withdrawals>>
    BY <1>2, <2>1 DEF RefundsNameObligations, ObligationSettledOnce, SettledAtMostOnce, RefundsOf
  <2>2. ASSUME NEW u \in Users, NEW a \in Amounts, NEW g \in GlcAddresses,
               DepositToReserve(u, a, g)
        PROVE  RefundsNameObligations' /\ ObligationSettledOnce'
    <3> DEFINE o == [amount |-> a, requester |-> u, addr |-> g, status |-> "Pending",
                     payout |-> NoPayout]
    <3>1. obligations' = Append(obligations, o) /\ withdrawals' = withdrawals
      BY <2>2 DEF DepositToReserve
    <3>2. obligations \in Seq(Obligation)
      BY <1>2 DEF TypeOK, SettlementType
    <3>k. PICK k \in Nat : k = Len(obligations) + 1
      BY <3>2
    <3>3. DOMAIN obligations' = DOMAIN obligations \cup {k} /\ k \notin DOMAIN obligations
      BY <3>1, <3>2, <3>k
    <3>4. \A i \in DOMAIN obligations : obligations'[i] = obligations[i]
      BY <3>1, <3>2
    <3>5. obligations'[k].status = "Pending" /\ obligations'[k].payout = NoPayout
      BY <3>1, <3>2, <3>k
    <3>6. RefundsNameObligations'
      BY <1>2, <3>1, <3>3 DEF RefundsNameObligations
    <3>7. RefundsOf(k)' = {}
      BY <1>2, <3>1, <3>3 DEF RefundsOf, RefundsNameObligations
    <3>8. ASSUME NEW i \in DOMAIN obligations' PROVE SettledAtMostOnce(i)'
      <4>1. CASE i = k
        BY <4>1, <3>5, <3>7 DEF SettledAtMostOnce
      <4>2. CASE i \in DOMAIN obligations
        BY <4>2, <1>2, <3>1, <3>4 DEF ObligationSettledOnce, SettledAtMostOnce, RefundsOf
      <4> QED
        BY <4>1, <4>2, <3>3
    <3> QED
      BY <3>6, <3>8 DEF ObligationSettledOnce
  <2>3. ASSUME NEW j \in DOMAIN obligations, NEW t \in PayoutTxids, NEW a \in Amounts,
               NEW e \in Epochs, RecordGoldcoinCompletion(j, t, a, e)
        PROVE  RefundsNameObligations' /\ ObligationSettledOnce'
    <3> DEFINE o == [obligations[j] EXCEPT !.payout = t, !.status = "Completed"]
    <3>1. obligations' = [obligations EXCEPT ![j] = o] /\ withdrawals' = withdrawals
      BY <2>3 DEF RecordGoldcoinCompletion
    <3>2. obligations \in Seq(Obligation) /\ obligations[j] \in Obligation
      BY <1>2 DEF TypeOK, SettlementType
    <3>3. /\ o.payout = t /\ o.status = "Completed" /\ t # NoPayout
          /\ o.amount = obligations[j].amount /\ o.requester = obligations[j].requester
      BY <3>2, ConstantsAssumption DEF Obligation
    <3>4. /\ DOMAIN obligations' = DOMAIN obligations /\ obligations'[j] = o
          /\ \A i \in DOMAIN obligations : i # j => obligations'[i] = obligations[i]
      BY <3>1, <3>2
    <3>5. obligations[j].status = "Pending"
      BY <2>3 DEF RecordGoldcoinCompletion, IsPending
    <3> HIDE DEF o
    <3>6. ASSUME NEW i \in DOMAIN obligations' PROVE SettledAtMostOnce(i)'
      <4>1. CASE i = j
        BY <4>1, <1>2, <3>1, <3>3, <3>4, <3>5 DEF ObligationSettledOnce, SettledAtMostOnce,
            RefundsOf
      <4>2. CASE i # j
        BY <4>2, <1>2, <3>1, <3>4 DEF ObligationSettledOnce, SettledAtMostOnce, RefundsOf
      <4> QED
        BY <4>1, <4>2
    <3> QED
      BY <1>2, <3>1, <3>4, <3>6 DEF ObligationSettledOnce, RefundsNameObligations
  <2>4. ASSUME NEW n \in Nonces, NEW a \in Amounts, NEW dest \in TokenAccounts,
               NEW e \in Epochs, TreasuryWithdraw(n, a, dest, e)
        PROVE  RefundsNameObligations' /\ ObligationSettledOnce'
    BY <1>2, <2>4 DEF RefundsNameObligations, ObligationSettledOnce, SettledAtMostOnce,
        RefundsOf, TreasuryWithdraw
  <2>5. ASSUME NEW n \in Nonces, NEW a \in Amounts, NEW j \in DOMAIN obligations,
               NEW e \in Epochs, RefundWithdraw(n, a, j, e)
        PROVE  RefundsNameObligations' /\ ObligationSettledOnce'
    <3> DEFINE o == [obligations[j] EXCEPT !.status = "Refunded"]
               w == [nonce |-> n, class |-> "refund", amount |-> a,
                     dest |-> obligations[j].requester, epoch |-> e, ref |-> j]
    <3>1. obligations' = [obligations EXCEPT ![j] = o] /\ withdrawals' = withdrawals \cup {w}
      BY <2>5 DEF RefundWithdraw
    <3>2. obligations \in Seq(Obligation) /\ obligations[j] \in Obligation
      BY <1>2 DEF TypeOK, SettlementType
    <3>3. /\ o.payout = obligations[j].payout /\ o.status = "Refunded"
          /\ o.amount = obligations[j].amount /\ o.requester = obligations[j].requester
      BY <3>2 DEF Obligation
    <3>4. /\ DOMAIN obligations' = DOMAIN obligations /\ obligations'[j] = o
          /\ \A i \in DOMAIN obligations : i # j => obligations'[i] = obligations[i]
      BY <3>1, <3>2
    <3>5. obligations[j].status = "Pending" /\ a = obligations[j].amount
      BY <2>5 DEF RefundWithdraw, IsPending
    <3>6. w.class = "refund" /\ w.ref = j /\ w.amount = a /\ w.dest = obligations[j].requester
      OBVIOUS
    <3> HIDE DEF o, w
    <3>7. RefundsOf(j) = {}
      BY <1>2, <3>5 DEF ObligationSettledOnce, SettledAtMostOnce
    <3>8. RefundsOf(j)' = {w}
      BY <3>1, <3>6, <3>7 DEF RefundsOf
    <3>9. ASSUME NEW i \in DOMAIN obligations' PROVE SettledAtMostOnce(i)'
      <4>1. CASE i = j
        BY <4>1, <1>2, <3>3, <3>4, <3>5, <3>6, <3>8 DEF ObligationSettledOnce, SettledAtMostOnce
      <4>2. CASE i # j
        <5>1. RefundsOf(i)' = RefundsOf(i)
          BY <4>2, <3>1, <3>6 DEF RefundsOf
        <5> QED
          BY <4>2, <5>1, <1>2, <3>4 DEF ObligationSettledOnce, SettledAtMostOnce
      <4> QED
        BY <4>1, <4>2
    <3> QED
      BY <1>2, <3>1, <3>4, <3>6, <3>9 DEF ObligationSettledOnce, RefundsNameObligations
  <2> QED
    BY <1>2, <2>1, <2>2, <2>3, <2>4, <2>5, ObligationFrame
<1> QED
    BY <1>1, <1>2, TypeCorrect, PTL DEF Spec

-----------------------------------------------------------------------------
(* The reserve *)

\* Only these instructions move tokens or leave a record of them.
LEMMA TokenFrame ==
    ASSUME [Next]_vars
    PROVE  \/ UNCHANGED <<claims, obligations, withdrawals, reserve, funded>>
           \/ Settle
           \/ \E a \in Amounts : FundReserve(a)
<1>1. CASE Administer
    BY <1>1 DEF Administer, SetPaused, SetLimit, TransferAdmin, AcceptAdmin,
        ResetRollingVolumeWindow, settlementVars
<1>2. CASE Govern
    BY <1>2 DEF Govern, ProposeAttestationKeyRotation, ExecuteAttestationKeyRotation,
        CancelAttestationKeyRotation, InitializeRebalancePolicy, ProposeRebalancePolicy,
        ExecuteRebalancePolicy, CancelRebalancePolicy, settlementVars
<1>3. CASE Environment
    BY <1>3 DEF Environment, Initialize, InitializeReserveVault, Tick, Attest, settlementVars
<1>4. CASE UNCHANGED vars
    BY <1>4 DEF vars
<1> QED
    BY <1>1, <1>2, <1>3, <1>4 DEF Next

\* An outflow checks the protected minimum against the balance it leaves, so
\* no order of instructions and limit changes takes the reserve below the
\* minimum in force at the moment of the outflow.
THEOREM FloorNeverBroken == Spec => FloorHeld
<1>1. ASSUME TypeOK, [Next]_vars
      PROVE  reserve' < reserve => reserve' >= config.protectedMinimum
  <2>a. Amounts \subseteq Nat /\ reserve \in Nat /\ config.protectedMinimum \in Nat
    BY <1>1, ConstantsAssumption DEF TypeOK, SettlementType, ConfigType
  <2>1. CASE Settle
    <3>1. ASSUME NEW a \in Amounts, ProtectedMinimumOK(reserve, config.protectedMinimum, a),
                 reserve' = reserve - a
          PROVE  reserve' >= config.protectedMinimum
      BY <2>a, <3>1 DEF ProtectedMinimumOK
    <3>2. ASSUME NEW u \in Users, NEW a \in Amounts, NEW g \in GlcAddresses,
                 DepositToReserve(u, a, g)
          PROVE  ~(reserve' < reserve)
      BY <2>a, <3>2 DEF DepositToReserve
    <3>3. ASSUME NEW i \in DOMAIN obligations, NEW t \in PayoutTxids, NEW a \in Amounts,
                 NEW e \in Epochs, RecordGoldcoinCompletion(i, t, a, e)
          PROVE  ~(reserve' < reserve)
      BY <2>a, <3>3 DEF RecordGoldcoinCompletion
    <3> QED
      BY <2>1, <3>1, <3>2, <3>3 DEF Settle, ReleaseFromReserve, TreasuryWithdraw, RefundWithdraw
  <2>2. CASE \E a \in Amounts : FundReserve(a)
    BY <2>2, <2>a DEF FundReserve
  <2> QED
    BY <1>1, <2>1, <2>2, <2>a, TokenFrame
<1> QED
    BY <1>1, TypeCorrect, PTL DEF Spec, FloorHeld

\* The records are finitely many: what the sums of the accounting range over.
RecordsFinite == IsFiniteSet(claims) /\ IsFiniteSet(withdrawals)

\* A new record adds its amount to the total of its kind.
LEMMA TotalAdds ==
    ASSUME NEW R, IsFiniteSet(R), \A r \in R : r.amount \in Nat, NEW x, x \notin R, x.amount \in Nat
    PROVE  /\ Total(R \cup {x}) = Total(R) + x.amount
           /\ Total(R) \in Nat
<1> DEFINE w == [r \in R \cup {x} |-> r.amount]
           v == [r \in R |-> r.amount]
<1>1. /\ \A r \in R : w[r] = v[r] /\ v[r] \in Nat
      /\ w[x] = x.amount
    OBVIOUS
<1> HIDE DEF w, v
<1>2. SumOver(w, R \cup {x}) = SumOver(v, R) + w[x]
    BY <1>1, SumAdd
<1>3. SumOver(v, R) \in Nat
    BY <1>1, SumType
<1> QED
    BY <1>1, <1>2, <1>3 DEF Total, w, v

LEMMA DepositAmounts ==
    ASSUME TypeOK
    PROVE  /\ \A i \in DOMAIN obligations : obligations[i].amount \in Nat
           /\ IsFiniteSet(DOMAIN obligations)
<1>1. obligations \in Seq(Obligation)
    BY DEF TypeOK, SettlementType
<1>2. ASSUME NEW i \in DOMAIN obligations PROVE obligations[i].amount \in Nat
  <2>1. obligations[i] \in Obligation
    BY <1>1
  <2> QED
    BY <2>1 DEF Obligation
<1>3. DOMAIN obligations = 1 .. Len(obligations) /\ Len(obligations) \in Nat
    BY <1>1
<1> QED
    BY <1>2, <1>3, FS_Interval

\* The records' amounts are what TypeOK says, so their totals are numbers.
LEMMA TotalsType ==
    ASSUME TypeOK, RecordsFinite
    PROVE  /\ Total(claims) \in Nat /\ Total(withdrawals) \in Nat /\ Deposited \in Nat
           /\ reserve \in Nat /\ funded \in Nat
<1> DEFINE c == [r \in claims |-> r.amount]
           w == [r \in withdrawals |-> r.amount]
           d == [i \in DOMAIN obligations |-> obligations[i].amount]
<1>1. \A r \in claims : c[r] \in Nat
    BY DEF TypeOK, SettlementType, Claim
<1>2. \A r \in withdrawals : w[r] \in Nat
    BY DEF TypeOK, SettlementType, Withdrawal
<1>3. \A i \in DOMAIN obligations : d[i] \in Nat
    BY DepositAmounts
<1>4. IsFiniteSet(DOMAIN obligations)
    BY DepositAmounts
<1> HIDE DEF c, w, d
<1>5. SumOver(c, claims) \in Nat /\ SumOver(w, withdrawals) \in Nat
    BY <1>1, <1>2, SumType DEF RecordsFinite
<1>6. SumOver(d, DOMAIN obligations) \in Nat
    BY <1>3, <1>4, SumType
<1> QED
    BY <1>5, <1>6 DEF Total, Deposited, c, w, d, TypeOK, SettlementType

\* Replacing an obligation by one of the same amount leaves what was
\* deposited; appending one adds its amount.
LEMMA DepositedSame ==
    ASSUME TypeOK, NEW j \in DOMAIN obligations, NEW o, o.amount = obligations[j].amount,
           obligations' = [obligations EXCEPT ![j] = o]
    PROVE  Deposited' = Deposited
<1>1. obligations \in Seq(Obligation)
    BY DEF TypeOK, SettlementType
<1>2. /\ DOMAIN obligations' = DOMAIN obligations
      /\ \A i \in DOMAIN obligations : obligations'[i].amount = obligations[i].amount
    BY <1>1
<1> QED
    BY <1>2 DEF Deposited

LEMMA DepositedAdds ==
    ASSUME TypeOK, NEW o \in Obligation, obligations' = Append(obligations, o)
    PROVE  Deposited' = Deposited + o.amount
<1>1. obligations \in Seq(Obligation)
    BY DEF TypeOK, SettlementType
<1>k. PICK k \in Nat : k = Len(obligations) + 1
    BY <1>1
<1>2. /\ DOMAIN obligations' = DOMAIN obligations \cup {k} /\ k \notin DOMAIN obligations
      /\ obligations'[k] = o
      /\ \A i \in DOMAIN obligations : obligations'[i] = obligations[i]
    BY <1>1, <1>k
<1> DEFINE S == DOMAIN obligations
           w == [i \in S \cup {k} |-> obligations'[i].amount]
           v == [i \in S |-> obligations[i].amount]
<1>3. IsFiniteSet(S)
    BY DepositAmounts
<1>4. \A i \in S : obligations[i].amount \in Nat
    BY DepositAmounts
<1>5. /\ \A i \in S : w[i] = v[i] /\ v[i] \in Nat
      /\ w[k] = o.amount /\ o.amount \in Nat
    BY <1>2, <1>4 DEF Obligation
<1>6. Deposited' = SumOver(w, S \cup {k}) /\ Deposited = SumOver(v, S)
    BY <1>2 DEF Deposited
<1> HIDE DEF S, w, v
<1>7. SumOver(w, S \cup {k}) = SumOver(v, S) + w[k]
    BY <1>2, <1>3, <1>5, SumAdd DEF S
<1> QED
    BY <1>5, <1>6, <1>7

\* What the accounting needs of one new record: it is new, and its amount is
\* the tokens that moved.
LEMMA OutflowAccounted ==
    ASSUME TypeOK, RecordsFinite, ReserveAccounted, NEW a \in Nat, reserve' = reserve - a,
           funded' = funded, Deposited' = Deposited,
           \/ /\ Total(claims)' = Total(claims) + a
              /\ withdrawals' = withdrawals
           \/ /\ Total(withdrawals)' = Total(withdrawals) + a
              /\ claims' = claims
    PROVE  ReserveAccounted'
<1>1. /\ Total(claims) \in Nat /\ Total(withdrawals) \in Nat /\ Deposited \in Nat
      /\ reserve \in Nat /\ funded \in Nat
    BY TotalsType
<1>2. withdrawals' = withdrawals => Total(withdrawals)' = Total(withdrawals)
    BY DEF Total
<1>3. claims' = claims => Total(claims)' = Total(claims)
    BY DEF Total
<1> QED
    BY <1>1, <1>2, <1>3 DEF ReserveAccounted

\* What comes in is either deposited or funded.
LEMMA InflowAccounted ==
    ASSUME TypeOK, RecordsFinite, ReserveAccounted, NEW a \in Nat, reserve' = reserve + a,
           UNCHANGED <<claims, withdrawals>>,
           \/ Deposited' = Deposited + a /\ funded' = funded
           \/ Deposited' = Deposited /\ funded' = funded + a
    PROVE  ReserveAccounted'
<1>1. /\ Total(claims) \in Nat /\ Total(withdrawals) \in Nat /\ Deposited \in Nat
      /\ reserve \in Nat /\ funded \in Nat
    BY TotalsType
<1>2. Total(withdrawals)' = Total(withdrawals) /\ Total(claims)' = Total(claims)
    BY DEF Total
<1> QED
    BY <1>1, <1>2 DEF ReserveAccounted

\* Every record stands for tokens that moved and for a proof that a threshold
\* of keys gave: inductive together with the finiteness of the records.
LEMMA SettleExplained ==
    ASSUME TypeOK, RecordsFinite, EveryTokenExplained, Settle
    PROVE  RecordsFinite' /\ EveryTokenExplained'
<1>a. Amounts \subseteq Nat
    BY ConstantsAssumption
<1> USE DEF EveryTokenExplained
<1>1. ASSUME NEW d \in Deposits, NEW a \in Amounts, NEW r \in Users, NEW e \in Epochs,
             ReleaseFromReserve(d, a, r, e)
      PROVE  RecordsFinite' /\ EveryTokenExplained'
  <2> DEFINE c == [deposit |-> d, amount |-> a, recipient |-> r, epoch |-> e]
  <2>1. /\ claims' = claims \cup {c} /\ reserve' = reserve - a
        /\ UNCHANGED <<obligations, withdrawals, funded, signed>>
    BY <1>1 DEF ReleaseFromReserve
  <2>2. c \notin claims
    BY <1>1 DEF ReleaseFromReserve, Unclaimed
  <2>3. \A x \in claims : x.amount \in Nat
    BY DEF TypeOK, SettlementType, Claim
  <2>4. Total(claims \cup {c}) = Total(claims) + a
    BY <1>a, <2>2, <2>3, TotalAdds DEF RecordsFinite
  <2>5. Total(claims)' = Total(claims) + a
    BY <2>1, <2>4 DEF Total
  <2>6. Deposited' = Deposited
    BY <2>1 DEF Deposited
  <2>7. ReserveAccounted'
    BY <1>a, <2>1, <2>5, <2>6, OutflowAccounted
  <2>8. ReleaseClaim(c.epoch, c.deposit, c.amount, c.recipient) \in signed
    BY <1>1 DEF ReleaseFromReserve, ReleaseApproved, Approved
  <2> HIDE DEF c
  <2>9. EveryOutflowAttested'
    BY <2>1, <2>8 DEF EveryOutflowAttested
  <2>10. RecordsFinite'
    BY <2>1, FS_AddElement DEF RecordsFinite
  <2> QED
    BY <2>7, <2>9, <2>10
<1>2. ASSUME NEW u \in Users, NEW a \in Amounts, NEW g \in GlcAddresses,
             DepositToReserve(u, a, g)
      PROVE  RecordsFinite' /\ EveryTokenExplained'
  <2> DEFINE o == [amount |-> a, requester |-> u, addr |-> g, status |-> "Pending",
                   payout |-> NoPayout]
  <2>1. /\ obligations' = Append(obligations, o) /\ reserve' = reserve + a
        /\ UNCHANGED <<claims, withdrawals, funded, signed>>
    BY <1>2 DEF DepositToReserve
  <2>2. o \in Obligation
    BY <1>a DEF Obligation
  <2>3. Deposited' = Deposited + a
    BY <2>1, <2>2, DepositedAdds
  <2>4. ReserveAccounted'
    BY <1>a, <2>1, <2>3, InflowAccounted
  <2> QED
    BY <2>1, <2>4 DEF EveryOutflowAttested, RecordsFinite
<1>3. ASSUME NEW i \in DOMAIN obligations, NEW t \in PayoutTxids, NEW a \in Amounts,
             NEW e \in Epochs, RecordGoldcoinCompletion(i, t, a, e)
      PROVE  RecordsFinite' /\ EveryTokenExplained'
  <2> DEFINE o == [obligations[i] EXCEPT !.payout = t, !.status = "Completed"]
  <2>1. /\ obligations' = [obligations EXCEPT ![i] = o]
        /\ UNCHANGED <<claims, withdrawals, funded, signed, reserve>>
    BY <1>3 DEF RecordGoldcoinCompletion
  <2>2. obligations[i] \in Obligation
    BY DEF TypeOK, SettlementType
  <2>3. o.amount = obligations[i].amount
    BY <2>2 DEF Obligation
  <2> HIDE DEF o
  <2>4. Deposited' = Deposited
    BY <2>1, <2>3, DepositedSame
  <2> QED
    BY <2>1, <2>4 DEF EveryOutflowAttested, RecordsFinite, ReserveAccounted, Total
<1>4. ASSUME NEW n \in Nonces, NEW a \in Amounts, NEW dest \in TokenAccounts,
             NEW e \in Epochs, TreasuryWithdraw(n, a, dest, e)
      PROVE  RecordsFinite' /\ EveryTokenExplained'
  <2> DEFINE w == [nonce |-> n, class |-> "treasury", amount |-> a, dest |-> dest, epoch |-> e,
                   ref |-> policy.version]
  <2>1. /\ withdrawals' = withdrawals \cup {w} /\ reserve' = reserve - a
        /\ UNCHANGED <<obligations, claims, funded, signed>>
    BY <1>4 DEF TreasuryWithdraw
  <2>2. w \notin withdrawals
    BY <1>4 DEF TreasuryWithdraw, NonceUnused
  <2>3. \A x \in withdrawals : x.amount \in Nat
    BY DEF TypeOK, SettlementType, Withdrawal
  <2>4. Total(withdrawals \cup {w}) = Total(withdrawals) + a
    BY <1>a, <2>2, <2>3, TotalAdds DEF RecordsFinite
  <2>5. Total(withdrawals)' = Total(withdrawals) + a
    BY <2>1, <2>4 DEF Total
  <2>6. Deposited' = Deposited
    BY <2>1 DEF Deposited
  <2>7. ReserveAccounted'
    BY <1>a, <2>1, <2>5, <2>6, OutflowAccounted
  <2>8. w.class = "treasury" /\ TreasuryClaim(w.epoch, w.nonce, w.amount, w.dest, w.ref) \in signed
    BY <1>4 DEF TreasuryWithdraw, TreasuryApproved, Approved
  <2> HIDE DEF w
  <2>9. EveryOutflowAttested'
    BY <2>1, <2>8 DEF EveryOutflowAttested
  <2>10. RecordsFinite'
    BY <2>1, FS_AddElement DEF RecordsFinite
  <2> QED
    BY <2>7, <2>9, <2>10
<1>5. ASSUME NEW n \in Nonces, NEW a \in Amounts, NEW i \in DOMAIN obligations,
             NEW e \in Epochs, RefundWithdraw(n, a, i, e)
      PROVE  RecordsFinite' /\ EveryTokenExplained'
  <2> DEFINE w == [nonce |-> n, class |-> "refund", amount |-> a,
                   dest |-> obligations[i].requester, epoch |-> e, ref |-> i]
             o == [obligations[i] EXCEPT !.status = "Refunded"]
  <2>1. /\ withdrawals' = withdrawals \cup {w} /\ reserve' = reserve - a
        /\ obligations' = [obligations EXCEPT ![i] = o]
        /\ UNCHANGED <<claims, funded, signed>>
    BY <1>5 DEF RefundWithdraw
  <2>2. w \notin withdrawals
    BY <1>5 DEF RefundWithdraw, NonceUnused
  <2>3. \A x \in withdrawals : x.amount \in Nat
    BY DEF TypeOK, SettlementType, Withdrawal
  <2>4. Total(withdrawals \cup {w}) = Total(withdrawals) + a
    BY <1>a, <2>2, <2>3, TotalAdds DEF RecordsFinite
  <2>5. Total(withdrawals)' = Total(withdrawals) + a
    BY <2>1, <2>4 DEF Total
  <2>o. obligations[i] \in Obligation
    BY DEF TypeOK, SettlementType
  <2>p. o.amount = obligations[i].amount
    BY <2>o DEF Obligation
  <2>8. w.class = "refund" /\ RefundClaim(w.epoch, w.nonce, w.amount, w.ref, w.dest) \in signed
    BY <1>5 DEF RefundWithdraw, Approved
  <2> HIDE DEF w, o
  <2>6. Deposited' = Deposited
    BY <2>1, <2>p, DepositedSame
  <2>7. ReserveAccounted'
    BY <1>a, <2>1, <2>5, <2>6, OutflowAccounted
  <2>9. EveryOutflowAttested'
    BY <2>1, <2>8 DEF EveryOutflowAttested
  <2>10. RecordsFinite'
    BY <2>1, FS_AddElement DEF RecordsFinite
  <2> QED
    BY <2>7, <2>9, <2>10
<1> QED
    BY <1>1, <1>2, <1>3, <1>4, <1>5 DEF Settle

\* No token enters or leaves the reserve unexplained: at every moment the
\* balance is what was funded and deposited less the recorded outflows, and
\* for each of them a threshold of keys signed exactly what was paid.
THEOREM TokensExplained == Spec => []EveryTokenExplained
<1>1. Init => RecordsFinite /\ EveryTokenExplained
  <2> SUFFICES ASSUME Init PROVE RecordsFinite /\ EveryTokenExplained
    OBVIOUS
  <2>1. claims = {} /\ withdrawals = {} /\ DOMAIN obligations = {} /\ reserve = 0 /\ funded = 0
    BY DEF Init
  <2>2. Total(claims) = 0 /\ Total(withdrawals) = 0 /\ Deposited = 0
    BY <2>1, SumEmpty DEF Total, Deposited
  <2> QED
    BY <2>1, <2>2, FS_EmptySet DEF RecordsFinite, EveryTokenExplained, ReserveAccounted,
        EveryOutflowAttested
<1>2. ASSUME TypeOK, RecordsFinite, EveryTokenExplained, [Next]_vars
      PROVE  RecordsFinite' /\ EveryTokenExplained'
  <2>1. CASE Settle
    BY <1>2, <2>1, SettleExplained
  <2>2. CASE UNCHANGED <<claims, obligations, withdrawals>> /\ signed \subseteq signed'
             /\ UNCHANGED <<reserve, funded>>
    BY <1>2, <2>2 DEF RecordsFinite, EveryTokenExplained, ReserveAccounted, EveryOutflowAttested,
        Total, Deposited
  <2>3. ASSUME NEW a \in Amounts, FundReserve(a)
        PROVE  RecordsFinite' /\ EveryTokenExplained'
    <3>1. /\ reserve' = reserve + a /\ funded' = funded + a /\ a \in Nat
          /\ UNCHANGED <<claims, obligations, withdrawals, signed>>
      BY <2>3, ConstantsAssumption DEF FundReserve, settlementVars
    <3>2. Deposited' = Deposited
      BY <3>1 DEF Deposited
    <3>3. ReserveAccounted'
      BY <1>2, <3>1, <3>2, InflowAccounted DEF EveryTokenExplained
    <3> QED
      BY <1>2, <3>1, <3>3 DEF RecordsFinite, EveryTokenExplained, EveryOutflowAttested
  <2> QED
    BY <1>2, <2>1, <2>2, <2>3, TokenFrame, OutsideSettlement DEF Next
<1> QED
    BY <1>1, <1>2, TypeCorrect, PTL DEF Spec

-----------------------------------------------------------------------------
(* Governance *)

\* What a queued change carries until it is executed or cancelled: the
\* approval of the keys, its announcement time and, for a rotation, a key
\* set that is still fit to take over.
RotationQueued ==
    pendingRotation.open =>
        /\ config.initialized
        /\ pendingRotation.epoch = keySet.epoch
        /\ ValidKeySet(pendingRotation.keys, pendingRotation.threshold)
        /\ pendingRotation.eta = pendingRotation.since + GovernanceTimelock
        /\ RotationProposal(pendingRotation.epoch, pendingRotation.keys,
                            pendingRotation.threshold) \in signed

PolicyQueued ==
    pendingPolicy.open =>
        /\ pendingPolicy.eta = pendingPolicy.since + GovernanceTimelock
        /\ PolicyProposal(pendingPolicy.epoch, pendingPolicy.treasuries) \in signed

KeysUsable == config.initialized => ValidKeySet(keySet.keys, keySet.threshold)

\* The log holds the allowlist of every version, the current one last.
PolicyLogged ==
    IF policy.exists
    THEN /\ Len(policyLog) = policy.version + 1
         /\ policyLog[policy.version + 1] = policy.treasuries
    ELSE policyLog = <<>>

\* The inductive invariant of governance.
GovernanceInv == RotationQueued /\ PolicyQueued /\ KeysUsable /\ PolicyLogged

\* Only the governance instructions and initialize write the governance
\* accounts, and nothing un-initializes the program.
LEMMA GovernanceFrame ==
    ASSUME TypeOK, [Next]_vars
    PROVE  \/ Govern
           \/ \E k \in KeySets : Initialize(k)
           \/ /\ UNCHANGED governanceVars
              /\ config'.initialized = config.initialized
              /\ signed \subseteq signed'
<1>1. CASE Settle
  <2>1. UNCHANGED <<config, governanceVars, signed>>
    BY <1>1, ZenonT(60) DEF Settle, ReleaseFromReserve, DepositToReserve, RecordGoldcoinCompletion,
        TreasuryWithdraw, RefundWithdraw
  <2> QED
    BY <2>1
<1>2. CASE Administer
  <2>1. ASSUME NEW scope \in PauseScopes, NEW q \in BOOLEAN, SetPaused(scope, q)
        PROVE  config'.initialized = config.initialized
    <3>1. scope \in {"paused", "releasePaused", "depositPaused"}
      BY ConstantsAssumption
    <3> QED
      BY <2>1, <3>1 DEF SetPaused, TypeOK, ConfigType
  <2>2. ASSUME NEW f \in LimitFields, NEW v \in LimitValues[f], SetLimit(f, v)
        PROVE  config'.initialized = config.initialized
    BY <2>2 DEF SetLimit, LimitFields, TypeOK, ConfigType
  <2>3. ASSUME NEW a \in Admins, TransferAdmin(a) \/ AcceptAdmin(a)
        PROVE  config'.initialized = config.initialized
    BY <2>3 DEF TransferAdmin, AcceptAdmin, TypeOK, ConfigType
  <2>4. UNCHANGED <<governanceVars, signed>>
    BY <1>2 DEF Administer, SetPaused, SetLimit, TransferAdmin, AcceptAdmin,
        ResetRollingVolumeWindow
  <2>5. ASSUME NEW d \in Directions, ResetRollingVolumeWindow(d)
        PROVE  config'.initialized = config.initialized
    BY <2>5 DEF ResetRollingVolumeWindow
  <2> QED
    BY <1>2, <2>1, <2>2, <2>3, <2>4, <2>5 DEF Administer
<1>3. CASE Environment
  <2>1. CASE InitializeReserveVault
    BY <2>1 DEF InitializeReserveVault, TypeOK, ConfigType
  <2> QED
    BY <1>3, <2>1 DEF Environment, FundReserve, Tick, Attest
<1>4. CASE UNCHANGED vars
    BY <1>4 DEF vars, governanceVars
<1> QED
    BY <1>1, <1>2, <1>3, <1>4 DEF Next

\* Every queued change stays approved, announced and executable, and the key
\* set in force is always a valid one.
LEMMA GovernanceKept ==
    ASSUME TypeOK, GovernanceInv, [Next]_vars
    PROVE  GovernanceInv'
<1>t. /\ keySet \in [epoch : Nat, threshold : Nat, keys : Seq(PubKeys)]
      /\ policy \in [exists : BOOLEAN, version : Nat, treasuries : Seq(TokenAccounts)]
      /\ policyLog \in Seq(Seq(TokenAccounts)) /\ clock \in Nat /\ GovernanceTimelock \in Nat
    BY ConstantsAssumption DEF TypeOK, GovernanceType
<1>1. ASSUME NEW k \in KeySets, ProposeAttestationKeyRotation(k.keys, k.threshold)
      PROVE  GovernanceInv'
    BY <1>1, <1>t DEF GovernanceInv, RotationQueued, PolicyQueued, KeysUsable, PolicyLogged,
        ProposeAttestationKeyRotation, Approved, Eta
<1>2. CASE ExecuteAttestationKeyRotation
    BY <1>2, <1>t DEF GovernanceInv, RotationQueued, PolicyQueued, KeysUsable, PolicyLogged,
        ExecuteAttestationKeyRotation, NoRotation
<1>3. CASE CancelAttestationKeyRotation
    BY <1>3 DEF GovernanceInv, RotationQueued, PolicyQueued, KeysUsable, PolicyLogged,
        CancelAttestationKeyRotation, NoRotation
<1>4. ASSUME NEW ts \in TreasuryLists, InitializeRebalancePolicy(ts)
      PROVE  GovernanceInv'
  <2>1. PolicyLogged'
    <3>1. policyLog' = <<ts>> /\ policy' = [exists |-> TRUE, version |-> 0, treasuries |-> ts]
      BY <1>4 DEF InitializeRebalancePolicy, GovernanceInv, PolicyLogged
    <3> QED
      BY <3>1 DEF PolicyLogged
  <2> QED
    BY <1>4, <2>1 DEF GovernanceInv, RotationQueued, PolicyQueued, KeysUsable,
        InitializeRebalancePolicy
<1>5. ASSUME NEW ts \in TreasuryLists, ProposeRebalancePolicy(ts)
      PROVE  GovernanceInv'
    BY <1>5, <1>t DEF GovernanceInv, RotationQueued, PolicyQueued, KeysUsable, PolicyLogged,
        ProposeRebalancePolicy, Approved, Eta
<1>6. CASE ExecuteRebalancePolicy
  <2>1. PolicyLogged'
    <3> DEFINE ts == pendingPolicy.treasuries
               n == policy.version + 1
    <3>1. /\ policyLog' = Append(policyLog, ts)
          /\ policy' = [exists |-> TRUE, version |-> n, treasuries |-> ts]
          /\ Len(policyLog) = n
      BY <1>6 DEF ExecuteRebalancePolicy, GovernanceInv, PolicyLogged
    <3>2. n \in Nat
      BY <1>t
    <3> HIDE DEF n, ts
    <3>3. Len(policyLog') = n + 1 /\ policyLog'[n + 1] = ts
      BY <1>t, <3>1, <3>2
    <3> QED
      BY <3>1, <3>3 DEF PolicyLogged
  <2> QED
    BY <1>6, <2>1 DEF GovernanceInv, RotationQueued, PolicyQueued, KeysUsable,
        ExecuteRebalancePolicy, NoProposal
<1>7. CASE CancelRebalancePolicy
    BY <1>7 DEF GovernanceInv, RotationQueued, PolicyQueued, KeysUsable, PolicyLogged,
        CancelRebalancePolicy, NoProposal
<1>8. ASSUME NEW k \in KeySets, Initialize(k)
      PROVE  GovernanceInv'
    BY <1>8 DEF GovernanceInv, RotationQueued, PolicyQueued, KeysUsable, PolicyLogged, Initialize
<1>9. CASE UNCHANGED governanceVars /\ config'.initialized = config.initialized
           /\ signed \subseteq signed'
    BY <1>9 DEF governanceVars, GovernanceInv, RotationQueued, PolicyQueued, KeysUsable,
        PolicyLogged
<1> QED
    BY <1>1, <1>2, <1>3, <1>4, <1>5, <1>6, <1>7, <1>8, <1>9, GovernanceFrame DEF Govern

LEMMA GovernanceAlways == Spec => []GovernanceInv
<1>1. Init => GovernanceInv
    BY DEF Init, GovernanceInv, RotationQueued, PolicyQueued, KeysUsable, PolicyLogged,
        NoRotation, NoProposal, NoPolicy
<1>2. TypeOK /\ GovernanceInv /\ [Next]_vars => GovernanceInv'
    BY GovernanceKept
<1> QED
    BY <1>1, <1>2, TypeCorrect, PTL DEF Spec

\* Distinct usable keys, at least a threshold of them.
LEMMA ValidKeysReachThreshold ==
    ASSUME NEW keys \in Seq(PubKeys), NEW th \in Nat, ValidKeySet(keys, th)
    PROVE  /\ Cardinality({keys[i] : i \in DOMAIN keys} \ {DefaultKey}) >= th
           /\ th >= 2
<1> DEFINE image == {keys[i] : i \in DOMAIN keys}
           n == Len(keys)
<1>1. /\ n \in Nat /\ DOMAIN keys = 1 .. n /\ th <= n /\ th >= 2
      /\ DefaultKey \notin image
    BY DEF ValidKeySet, MinThreshold
<1>2. keys \in Bijection(1 .. n, image)
  <2>1. keys \in [1 .. n -> image]
    BY <1>1
  <2>2. \A i, j \in 1 .. n : keys[i] = keys[j] => i = j
    BY <1>1 DEF ValidKeySet, NoDuplicates
  <2>3. \A x \in image : \E i \in 1 .. n : keys[i] = x
    BY <1>1
  <2> QED
    BY <2>1, <2>2, <2>3 DEF Bijection, Injection, Surjection, IsInjective
<1>3. ExistsBijection(1 .. n, image)
    BY <1>2 DEF ExistsBijection
<1>4. IsFiniteSet(1 .. n) /\ Cardinality(1 .. n) = n
    BY <1>1, FS_Interval
<1>5. Cardinality(image) = n
    BY <1>3, <1>4, FS_Bijection
<1>6. image \ {DefaultKey} = image
    BY <1>1
<1> QED
    BY <1>1, <1>5, <1>6

\* The log of allowlists only grows, and a treasury withdrawal is paid under
\* its last entry.
LEMMA TreasuriesKept ==
    ASSUME TypeOK, GovernanceInv, TreasuryPaidAsGoverned, [Next]_vars
    PROVE  TreasuryPaidAsGoverned'
<1> DEFINE Fine(w, log) == /\ w.ref + 1 \in DOMAIN log
                           /\ \E i \in DOMAIN log[w.ref + 1] : log[w.ref + 1][i] = w.dest
                           /\ w.dest # ReserveAccount
<1>t. /\ policyLog \in Seq(Seq(TokenAccounts))
      /\ policy \in [exists : BOOLEAN, version : Nat, treasuries : Seq(TokenAccounts)]
    BY DEF TypeOK, GovernanceType
<1>0. \A w \in withdrawals : w.class = "treasury" => Fine(w, policyLog)
    BY DEF TreasuryPaidAsGoverned
<1>1. /\ DOMAIN policyLog \subseteq DOMAIN policyLog'
      /\ \A k \in DOMAIN policyLog : policyLog'[k] = policyLog[k]
  <2>1. \/ UNCHANGED policyLog
        \/ \E ts \in Seq(TokenAccounts) : policyLog' = Append(policyLog, ts)
    <3>1. pendingPolicy.treasuries \in Seq(TokenAccounts) /\ TreasuryLists \subseteq Seq(TokenAccounts)
      BY ConstantsAssumption DEF TypeOK, GovernanceType
    <3>2. CASE Govern
      BY <3>1, <3>2 DEF Govern, ProposeAttestationKeyRotation, ExecuteAttestationKeyRotation,
        CancelAttestationKeyRotation, InitializeRebalancePolicy, ProposeRebalancePolicy,
        ExecuteRebalancePolicy, CancelRebalancePolicy
    <3> QED
      BY <3>2, GovernanceFrame DEF Initialize, governanceVars
  <2>2. ASSUME NEW ts \in Seq(TokenAccounts), policyLog' = Append(policyLog, ts)
        PROVE  /\ DOMAIN policyLog \subseteq DOMAIN policyLog'
               /\ \A k \in DOMAIN policyLog : policyLog'[k] = policyLog[k]
    <3> DEFINE log == Append(policyLog, ts)
    <3>1. /\ DOMAIN policyLog \subseteq DOMAIN log
          /\ \A k \in DOMAIN policyLog : log[k] = policyLog[k]
      BY <1>t
    <3> HIDE DEF log
    <3> QED
      BY <2>2, <3>1 DEF log
  <2> QED
    BY <2>1, <2>2
<1>2. ASSUME NEW w \in withdrawals, w.class = "treasury" PROVE Fine(w, policyLog')
    BY <1>0, <1>1, <1>2
<1>3. CASE UNCHANGED withdrawals
  <2> HIDE DEF Fine
  <2>1. \A w \in withdrawals' : w.class = "treasury" => Fine(w, policyLog')
    BY <1>2, <1>3
  <2> QED
    BY <2>1 DEF TreasuryPaidAsGoverned, Fine
<1>4. ASSUME NEW n \in Nonces, NEW a \in Amounts, NEW dest \in TokenAccounts,
             NEW e \in Epochs, TreasuryWithdraw(n, a, dest, e)
      PROVE  TreasuryPaidAsGoverned'
  <2> DEFINE x == [nonce |-> n, class |-> "treasury", amount |-> a, dest |-> dest, epoch |-> e,
                   ref |-> policy.version]
             v == policy.version + 1
  <2>1. withdrawals' = withdrawals \cup {x} /\ policyLog' = policyLog
    BY <1>4 DEF TreasuryWithdraw, governanceVars
  <2>2. /\ policy.exists /\ dest # ReserveAccount
        /\ \E i \in DOMAIN policy.treasuries : policy.treasuries[i] = dest
    BY <1>4 DEF TreasuryWithdraw, Allowlisted
  <2>3. Len(policyLog) = v /\ policyLog[v] = policy.treasuries
    BY <2>2 DEF GovernanceInv, PolicyLogged
  <2>4. v \in DOMAIN policyLog
    BY <1>t, <2>3
  <2>5. x.ref + 1 = v /\ x.dest = dest
    OBVIOUS
  <2>6. Fine(x, policyLog)
    BY <2>2, <2>3, <2>4, <2>5
  <2> HIDE DEF Fine, x
  <2>7. \A w \in withdrawals' : w.class = "treasury" => Fine(w, policyLog')
    BY <1>0, <2>1, <2>6
  <2> QED
    BY <2>7 DEF TreasuryPaidAsGoverned, Fine
<1>5. ASSUME NEW n \in Nonces, NEW a \in Amounts, NEW j \in DOMAIN obligations,
             NEW e \in Epochs, RefundWithdraw(n, a, j, e)
      PROVE  TreasuryPaidAsGoverned'
  <2> DEFINE x == [nonce |-> n, class |-> "refund", amount |-> a,
                   dest |-> obligations[j].requester, epoch |-> e, ref |-> j]
  <2>1. withdrawals' = withdrawals \cup {x} /\ x.class = "refund"
    BY <1>5 DEF RefundWithdraw
  <2> HIDE DEF Fine, x
  <2>2. \A w \in withdrawals' : w.class = "treasury" => Fine(w, policyLog')
    BY <1>2, <2>1
  <2> QED
    BY <2>2 DEF TreasuryPaidAsGoverned, Fine
<1>6. \/ UNCHANGED withdrawals
      \/ \E n \in Nonces, a \in Amounts, dest \in TokenAccounts, e \in Epochs :
            TreasuryWithdraw(n, a, dest, e)
      \/ \E n \in Nonces, a \in Amounts, j \in DOMAIN obligations, e \in Epochs :
            RefundWithdraw(n, a, j, e)
    BY ObligationFrame DEF DepositToReserve, RecordGoldcoinCompletion
<1> QED
    BY <1>3, <1>4, <1>5, <1>6

\* Governance keeps its promises for every key set, allowlist and timelock:
\* the keys in force can always reach their threshold, a queued rotation
\* stays executable, every treasury payment followed the allowlist its
\* approvers signed, and every outflow was signed.
THEOREM GovernancePromises == Spec => []GovernedAsPromised
<1>1. Init => TreasuryPaidAsGoverned
    BY DEF Init, TreasuryPaidAsGoverned
<1>2. TypeOK /\ GovernanceInv /\ TreasuryPaidAsGoverned /\ [Next]_vars => TreasuryPaidAsGoverned'
    BY TreasuriesKept
<1>3. TypeOK /\ GovernanceInv => QuorumAlwaysPossible /\ QueuedRotationStaysValid
  <2> SUFFICES ASSUME TypeOK, GovernanceInv
               PROVE  QuorumAlwaysPossible /\ QueuedRotationStaysValid
    OBVIOUS
  <2>1. keySet.keys \in Seq(PubKeys) /\ keySet.threshold \in Nat
    BY DEF TypeOK, GovernanceType
  <2>2. QuorumAlwaysPossible
    BY <2>1, ValidKeysReachThreshold DEF GovernanceInv, KeysUsable, QuorumAlwaysPossible
  <2>3. QueuedRotationStaysValid
    BY DEF GovernanceInv, RotationQueued, QueuedRotationStaysValid
  <2> QED
    BY <2>2, <2>3
<1>4. EveryTokenExplained => EveryOutflowAttested
    BY DEF EveryTokenExplained
<1> QED
    BY <1>1, <1>2, <1>3, <1>4, TypeCorrect, GovernanceAlways, TokensExplained, PTL
    DEF Spec, GovernedAsPromised

-----------------------------------------------------------------------------
(* What a step may never do *)

\* A step that changes the keys or the allowlist executes what stood
\* announced for the whole timelock under the keys still in force.
LEMMA StepTimelocked ==
    ASSUME TypeOK, GovernanceInv, [Next]_vars
    PROVE  TimelockedStep
<1>t. /\ clock \in Nat /\ GovernanceTimelock \in Nat
      /\ pendingRotation.since \in Nat /\ pendingPolicy.since \in Nat
    BY ConstantsAssumption DEF TypeOK, GovernanceType
<1>1. ASSUME NEW k \in KeySets, ProposeAttestationKeyRotation(k.keys, k.threshold)
      PROVE  TimelockedStep
    BY <1>1 DEF ProposeAttestationKeyRotation, TimelockedStep
<1>2. CASE ExecuteAttestationKeyRotation
  <2>1. /\ pendingRotation.open /\ clock >= pendingRotation.since + GovernanceTimelock
        /\ RotationProposal(keySet.epoch, pendingRotation.keys, pendingRotation.threshold)
             \in signed
    BY <1>2 DEF ExecuteAttestationKeyRotation, GovernanceInv, RotationQueued
  <2>2. clock - pendingRotation.since >= GovernanceTimelock
    BY <1>t, <2>1
  <2>3. keySet'.keys = pendingRotation.keys /\ keySet'.threshold = pendingRotation.threshold
    BY <1>2 DEF ExecuteAttestationKeyRotation
  <2>4. ~pendingRotation'.open /\ UNCHANGED <<policy, pendingPolicy>>
    BY <1>2 DEF ExecuteAttestationKeyRotation, NoRotation
  <2> QED
    BY <2>1, <2>2, <2>3, <2>4 DEF TimelockedStep
<1>3. CASE CancelAttestationKeyRotation
    BY <1>3 DEF CancelAttestationKeyRotation, TimelockedStep, NoRotation
<1>4. ASSUME NEW ts \in TreasuryLists, InitializeRebalancePolicy(ts)
      PROVE  TimelockedStep
    BY <1>4 DEF InitializeRebalancePolicy, TimelockedStep
<1>5. ASSUME NEW ts \in TreasuryLists, ProposeRebalancePolicy(ts)
      PROVE  TimelockedStep
    BY <1>5 DEF ProposeRebalancePolicy, TimelockedStep
<1>6. CASE ExecuteRebalancePolicy
  <2>1. /\ pendingPolicy.open /\ clock >= pendingPolicy.since + GovernanceTimelock
        /\ PolicyProposal(keySet.epoch, pendingPolicy.treasuries) \in signed
    BY <1>6 DEF ExecuteRebalancePolicy, GovernanceInv, PolicyQueued, StillCurrent
  <2>2. clock - pendingPolicy.since >= GovernanceTimelock
    BY <1>t, <2>1
  <2>3. policy'.treasuries = pendingPolicy.treasuries
    BY <1>6 DEF ExecuteRebalancePolicy
  <2>4. ~pendingPolicy'.open /\ UNCHANGED <<keySet, pendingRotation>>
    BY <1>6 DEF ExecuteRebalancePolicy, NoProposal
  <2> QED
    BY <2>1, <2>2, <2>3, <2>4 DEF TimelockedStep
<1>7. CASE CancelRebalancePolicy
    BY <1>7 DEF CancelRebalancePolicy, TimelockedStep, NoProposal
<1>8. ASSUME NEW k \in KeySets, Initialize(k)
      PROVE  TimelockedStep
    BY <1>8 DEF Initialize, TimelockedStep
<1>9. CASE UNCHANGED governanceVars
    BY <1>9 DEF governanceVars, TimelockedStep
<1> QED
    BY <1>1, <1>2, <1>3, <1>4, <1>5, <1>6, <1>7, <1>8, <1>9, GovernanceFrame DEF Govern

\* An outflow or a completion is approved by the keys of its own moment.
LEMMA StepOfCurrentEpoch ==
    ASSUME TypeOK, [Next]_vars
    PROVE  CurrentEpochStep
<1>o. obligations \in Seq(Obligation)
    BY DEF TypeOK, SettlementType
<1>1. ASSUME NEW d \in Deposits, NEW a \in Amounts, NEW r \in Users, NEW e \in Epochs,
             ReleaseFromReserve(d, a, r, e)
      PROVE  CurrentEpochStep
    BY <1>1 DEF ReleaseFromReserve, CurrentEpoch, CurrentEpochStep
<1>2. ASSUME NEW u \in Users, NEW a \in Amounts, NEW g \in GlcAddresses,
             DepositToReserve(u, a, g)
      PROVE  CurrentEpochStep
  <2> DEFINE o == [amount |-> a, requester |-> u, addr |-> g, status |-> "Pending",
                   payout |-> NoPayout]
  <2>1. obligations' = Append(obligations, o) /\ UNCHANGED <<claims, withdrawals>>
    BY <1>2 DEF DepositToReserve
  <2>2. \A i \in DOMAIN obligations : obligations'[i] = obligations[i]
    BY <1>o, <2>1
  <2> QED
    BY <2>1, <2>2 DEF CurrentEpochStep
<1>3. ASSUME NEW j \in DOMAIN obligations, NEW t \in PayoutTxids, NEW a \in Amounts,
             NEW e \in Epochs, RecordGoldcoinCompletion(j, t, a, e)
      PROVE  CurrentEpochStep
  <2> DEFINE o == [obligations[j] EXCEPT !.payout = t, !.status = "Completed"]
  <2>1. /\ obligations' = [obligations EXCEPT ![j] = o]
        /\ UNCHANGED <<claims, withdrawals>>
        /\ CompletionClaim(keySet.epoch, j, t, a, obligations[j].addr) \in signed
    BY <1>3 DEF RecordGoldcoinCompletion, CurrentEpoch, Approved
  <2>2. obligations[j] \in Obligation
    BY <1>o
  <2>3. o.payout = t
    BY <2>2 DEF Obligation
  <2> HIDE DEF o
  <2>4. /\ obligations'[j] = o
        /\ \A i \in DOMAIN obligations : i # j => obligations'[i] = obligations[i]
    BY <1>o, <2>1
  <2> QED
    BY <2>1, <2>3, <2>4 DEF CurrentEpochStep
<1>4. ASSUME NEW n \in Nonces, NEW a \in Amounts, NEW dest \in TokenAccounts,
             NEW e \in Epochs, TreasuryWithdraw(n, a, dest, e)
      PROVE  CurrentEpochStep
    BY <1>4 DEF TreasuryWithdraw, CurrentEpoch, CurrentEpochStep
<1>5. ASSUME NEW n \in Nonces, NEW a \in Amounts, NEW j \in DOMAIN obligations,
             NEW e \in Epochs, RefundWithdraw(n, a, j, e)
      PROVE  CurrentEpochStep
  <2> DEFINE o == [obligations[j] EXCEPT !.status = "Refunded"]
             w == [nonce |-> n, class |-> "refund", amount |-> a,
                   dest |-> obligations[j].requester, epoch |-> e, ref |-> j]
  <2>1. /\ obligations' = [obligations EXCEPT ![j] = o] /\ claims' = claims
        /\ withdrawals' = withdrawals \cup {w} /\ w.epoch = keySet.epoch
    BY <1>5 DEF RefundWithdraw, CurrentEpoch
  <2>2. obligations[j] \in Obligation
    BY <1>o
  <2>3. o.status = "Refunded"
    BY <2>2 DEF Obligation
  <2> HIDE DEF o, w
  <2>4. /\ obligations'[j] = o
        /\ \A i \in DOMAIN obligations : i # j => obligations'[i] = obligations[i]
    BY <1>o, <2>1
  <2> QED
    BY <2>1, <2>3, <2>4 DEF CurrentEpochStep
<1>6. CASE UNCHANGED <<claims, obligations, withdrawals>>
    BY <1>6 DEF CurrentEpochStep
<1> QED
    BY <1>1, <1>2, <1>3, <1>4, <1>5, <1>6, OutsideSettlement DEF Next, Settle

\* The keys and the allowlist change only to what stood announced for the
\* whole timelock, and no approval outlives the key set that gave it.
THEOREM ChangesAnnounced == Spec => ChangesAreAnnounced
<1>1. TypeOK /\ GovernanceInv /\ [Next]_vars => TimelockedStep /\ CurrentEpochStep
    BY StepTimelocked, StepOfCurrentEpoch
<1> QED
    BY <1>1, TypeCorrect, GovernanceAlways, PTL DEF Spec, ChangesAreAnnounced
=============================================================================
