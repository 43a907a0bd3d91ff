----------------------- MODULE RobinhoodContractProofs -----------------------
(***************************************************************************)
(* Proofs about RobinhoodContract, for every value of its constants.       *)
(***************************************************************************)
EXTENDS RobinhoodContract, SumsProofs

-----------------------------------------------------------------------------
(* The inductive invariant *)

\* Obligations are created in the order of their indices.
Filled ==
  \E n \in Nat : \A i \in Indices : obligations[i].status # "None" <=> i < n

\* Every payout made consumed its request and fell into the window that was
\* current when it was made; no later window began before it.
PayoutsRecorded ==
  /\ payouts \subseteq [id : RequestIds, amount : Nat, at : Nat]
  /\ IsFiniteSet(payouts)
  /\ \A p \in payouts : /\ <<"payout", p.id>> \in executed
                        /\ p.at < outboundWindow.start + RollingWindow
  /\ outboundWindow.start <= clock

IInv == ReserveSound /\ Filled /\ PayoutsRecorded

LEMMA IndicesFinite == IsFiniteSet(Indices) /\ Indices \subseteq Nat
BY RhcBoundsAssumption, FS_Interval DEF Indices

\* The next index is the first that holds no obligation.
LEMMA NextIndex ==
  ASSUME Filled, ObligationCount < MaxDeposits
  PROVE  /\ ObligationCount \in Indices
         /\ \A i \in Indices : obligations[i].status # "None" <=> i < ObligationCount
<1>1. PICK n \in Nat : \A i \in Indices : obligations[i].status # "None" <=> i < n
  BY DEF Filled
<1> DEFINE F == {i \in Indices : obligations[i].status # "None"}
<1>m. MaxDeposits \in Nat
  BY RhcBoundsAssumption
<1>f. F \subseteq Indices /\ \A i \in Indices : i \in F <=> i < n
  BY <1>1
<1>g. Cardinality(F) = ObligationCount
  BY DEF ObligationCount
<1> HIDE DEF F
<1>2. CASE n < MaxDeposits
  <2>1. F = 0 .. n - 1
    <3> DEFINE I == 0 .. n - 1
    <3>1. \A i \in Int : i \in F <=> i \in I
      BY <1>f, <1>2, <1>m DEF Indices
    <3>2. F \subseteq Int /\ I \subseteq Int
      BY <1>f, IndicesFinite
    <3> HIDE DEF I
    <3>3. F = I
      BY <3>1, <3>2
    <3> QED
      BY <3>3 DEF I
  <2>2. Cardinality(F) = n
    BY <2>1, FS_Interval
  <2>3. ObligationCount = n
    BY <2>2, <1>g
  <2> QED
    BY <1>1, <1>2, <1>m, <2>3 DEF Indices
<1>3. CASE ~(n < MaxDeposits)
  <2>1. F = 0 .. MaxDeposits - 1
    <3> DEFINE I == 0 .. MaxDeposits - 1
    <3>1. \A i \in Int : i \in F <=> i \in I
      BY <1>f, <1>3, <1>m DEF Indices
    <3>2. F \subseteq Int /\ I \subseteq Int
      BY <1>f, IndicesFinite
    <3> HIDE DEF I
    <3>3. F = I
      BY <3>1, <3>2
    <3> QED
      BY <3>3 DEF I
  <2>2. Cardinality(F) = MaxDeposits
    BY <2>1, <1>m, FS_Interval
  <2>3. ObligationCount = MaxDeposits
    BY <2>2, <1>g
  <2> QED
    BY <2>3, <1>m
<1> QED
  BY <1>2, <1>3

\* The state kept by a call that touches neither obligations, reserve, limits
\* nor the outbound window.
Quiet == UNCHANGED <<obligations, outstandingCount, outstandingPrincipal, payouts, outboundWindow>>

\* The liability counters and the window depend on these variables alone.
LEMMA QuietKeeps ==
  ASSUME IInv, Quiet, executed \subseteq executed', clock' \in Nat, clock <= clock'
  PROVE  LiabilityIsPending' /\ WindowIsExact' /\ Filled' /\ PayoutsRecorded'
<1>1. LiabilityIsPending'
  BY DEF IInv, ReserveSound, Quiet, LiabilityIsPending, Open
<1>2. WindowIsExact'
  BY DEF IInv, ReserveSound, Quiet, WindowIsExact
<1>3. Filled'
  BY DEF IInv, Quiet, Filled
<1>4. PayoutsRecorded'
  <2>1. outboundWindow.start \in Nat /\ clock \in Nat
    BY DEF IInv, ReserveSound, TypeOK
  <2> QED
    BY <2>1 DEF IInv, Quiet, PayoutsRecorded
<1> QED
  BY <1>1, <1>2, <1>3, <1>4

\* The amounts of the obligations, as the sums take them.
AmountAt == [i \in Indices |-> obligations[i].amount]

LEMMA OpenFacts ==
  ASSUME TypeOK
  PROVE  /\ IsFiniteSet(Open) /\ Open \subseteq Indices /\ Cardinality(Open) \in Nat
         /\ \A i \in Indices : AmountAt[i] = obligations[i].amount /\ AmountAt[i] \in Nat
<1>1. IsFiniteSet(Open) /\ Open \subseteq Indices
  BY IndicesFinite, FS_Subset DEF Open
<1>2. \A i \in Indices : obligations[i].amount \in Nat
  BY DEF TypeOK
<1> QED
  BY <1>1, <1>2, FS_CardinalityType DEF AmountAt

\* Adding a pending obligation raises both counters by what it is.
LEMMA DepositLiability ==
  ASSUME TypeOK, LiabilityIsPending, NEW k \in Indices, obligations[k].status = "None",
         NEW o \in [status : {"Pending"}, route : Routes \cup {"none"}, amount : Nat],
         obligations' = [obligations EXCEPT ![k] = o],
         outstandingCount' = outstandingCount + 1,
         outstandingPrincipal' = outstandingPrincipal + o.amount
  PROVE  LiabilityIsPending'
<1>1. /\ obligations'[k] = o /\ o.status = "Pending"
      /\ \A i \in Indices : i # k => obligations'[i] = obligations[i]
  BY DEF TypeOK
<1>2. Open' = Open \cup {k} /\ k \notin Open
  BY <1>1 DEF Open
<1>3. /\ \A i \in Open : AmountAt'[i] = AmountAt[i] /\ AmountAt[i] \in Nat
      /\ AmountAt'[k] = o.amount /\ o.amount \in Nat
  BY <1>1, <1>2, OpenFacts DEF AmountAt
<1>4. IsFiniteSet(Open)
  BY OpenFacts
<1>5. Cardinality(Open') = Cardinality(Open) + 1
  BY <1>2, <1>4, FS_AddElement
<1>6. SumOver(AmountAt', Open') = SumOver(AmountAt, Open) + o.amount
  BY <1>2, <1>3, <1>4, SumAdd
<1> QED
  BY <1>5, <1>6 DEF LiabilityIsPending, AmountAt

\* Closing a pending obligation lowers them by the same.
LEMMA CloseLiability ==
  ASSUME TypeOK, LiabilityIsPending, NEW k \in Indices, Pending(k),
         NEW status \in Statuses \ {"None", "Pending"}, Close(k, status),
         ReleaseLiability(obligations[k].amount)
  PROVE  LiabilityIsPending'
<1>1. /\ \A i \in Indices : obligations'[i].amount = obligations[i].amount
      /\ obligations'[k].status = status
      /\ \A i \in Indices : i # k => obligations'[i] = obligations[i]
  BY DEF TypeOK, Close
<1>2. Open' = Open \ {k} /\ k \in Open
  BY <1>1 DEF Open, Pending
<1>3. AmountAt' = AmountAt
  BY <1>1 DEF AmountAt
<1>4. /\ IsFiniteSet(Open) /\ Cardinality(Open) \in Nat
      /\ \A i \in Open : AmountAt[i] \in Nat /\ AmountAt[k] = obligations[k].amount
  BY OpenFacts
<1>5. Cardinality(Open') = Cardinality(Open) - 1
  BY <1>2, <1>4, FS_RemoveElement
<1>6. SumOver(AmountAt, Open) = AmountAt[k] + SumOver(AmountAt, Open \ {k})
  BY <1>2, <1>4, SumRemove
<1>7. SumOver(AmountAt, Open \ {k}) \in Nat
  BY <1>4, FS_Subset, SumType
<1>8. AmountAt[k] \in Nat /\ AmountAt[k] = obligations[k].amount
  BY <1>2, <1>4
<1>9. outstandingPrincipal' = SumOver(AmountAt', Open')
  BY <1>2, <1>3, <1>6, <1>7, <1>8 DEF LiabilityIsPending, AmountAt, ReleaseLiability
<1> QED
  BY <1>5, <1>9 DEF LiabilityIsPending, AmountAt, ReleaseLiability

-----------------------------------------------------------------------------
(* One lemma per kind of call *)

LEMMA DepositStep ==
  ASSUME IInv, NEW route \in Routes, NEW amount \in Amounts, Deposit(route, amount)
  PROVE  IInv'
<1> DEFINE k == ObligationCount
           o == [status |-> "Pending", route |-> route, amount |-> amount]
<1>t. TypeOK /\ LiabilityIsPending /\ DepositorsCovered /\ amount \in Nat
  BY RhcAmountsAssumption DEF IInv, ReserveSound
<1>1. /\ obligations' = [obligations EXCEPT ![k] = o] /\ k < MaxDeposits
      /\ outstandingCount' = outstandingCount + 1
      /\ outstandingPrincipal' = outstandingPrincipal + amount
      /\ balance' = balance + amount
      /\ inboundWindow' = ConsumedWindow(inboundWindow, amount)
      /\ UNCHANGED <<roleVars, gateVars, outboundWindow, governanceNonce, executed,
                     migration, clock, payouts>>
  BY DEF Deposit
<1>2. k \in Indices /\ \A i \in Indices : obligations[i].status # "None" <=> i < k
  BY <1>1, NextIndex DEF IInv
<1>3. k \in Nat /\ obligations[k].status = "None"
  BY <1>2, IndicesFinite
<1>4. o \in [status : {"Pending"}, route : Routes \cup {"none"}, amount : Nat]
  BY <1>t
<1>5. o.amount = amount /\ o.status = "Pending"
  OBVIOUS
<1> HIDE DEF k, o
<1>6. LiabilityIsPending'
  BY <1>t, <1>1, <1>2, <1>3, <1>4, <1>5, DepositLiability
<1>7. inboundWindow' \in [start : Nat, total : Nat]
  BY <1>t, <1>1 DEF TypeOK, ConsumedWindow
<1>8. o \in [status : Statuses, route : Routes \cup {"none"}, amount : Nat]
  BY <1>4 DEF Statuses
<1>9. obligations' \in [Indices -> [status : Statuses, route : Routes \cup {"none"}, amount : Nat]]
  BY <1>t, <1>1, <1>8 DEF TypeOK
<1>10. TypeOK'
  BY <1>t, <1>1, <1>7, <1>9 DEF TypeOK, roleVars, gateVars
<1>11. DepositorsCovered'
  BY <1>t, <1>1 DEF TypeOK, DepositorsCovered
<1>12. WindowIsExact' /\ PayoutsRecorded'
  BY <1>1 DEF IInv, ReserveSound, WindowIsExact, PayoutsRecorded
<1>13. Filled'
  <2>1. /\ obligations'[k].status # "None"
        /\ \A i \in Indices : i # k => obligations'[i] = obligations[i]
    BY <1>t, <1>1, <1>2, <1>5 DEF TypeOK
  <2>2. \A i \in Indices : obligations'[i].status # "None" <=> i < k + 1
    BY <1>2, <1>3, <2>1, IndicesFinite
  <2> QED
    BY <1>3, <2>2 DEF Filled
<1> QED
  BY <1>6, <1>10, <1>11, <1>12, <1>13 DEF IInv, ReserveSound

\* A payout is charged to the window it falls into: the current one, or a new
\* one that begins with it.
LEMMA PayoutStep ==
  ASSUME IInv, NEW route \in Routes, NEW id \in RequestIds, NEW amount \in Amounts,
         ExecutePayout(route, id, amount)
  PROVE  IInv'
<1> DEFINE q == [id |-> id, amount |-> amount, at |-> clock]
           W == ConsumedWindow(outboundWindow, amount)
           since == {p \in payouts : p.at >= outboundWindow.start}
           w == [p \in payouts |-> p.amount]
           v == [p \in payouts \cup {q} |-> p.amount]
<1>t. /\ TypeOK /\ LiabilityIsPending /\ DepositorsCovered /\ WindowIsExact /\ PayoutsRecorded
      /\ amount \in Nat /\ RollingWindow \in Nat \ {0}
  BY RhcAmountsAssumption DEF IInv, ReserveSound
<1>u. /\ clock \in Nat /\ outboundWindow \in [start : Nat, total : Nat] /\ balance \in Nat
      /\ outstandingPrincipal \in Nat /\ limits.protectedMin \in Nat
  BY <1>t DEF TypeOK, LimitFields
<1>1. /\ payouts' = payouts \cup {q} /\ outboundWindow' = W /\ balance' = balance - amount
      /\ SpendableReserve(amount)
      /\ <<"payout", id>> \notin executed /\ executed' = executed \cup {<<"payout", id>>}
      /\ UNCHANGED <<roleVars, gateVars, liabilityVars, inboundWindow, governanceNonce,
                     migration, clock>>
  BY DEF ExecutePayout, ConsumeRequest
<1>2. q \notin payouts
  BY <1>t, <1>1 DEF PayoutsRecorded
<1>3. balance' \in Nat /\ DepositorsCovered'
  BY <1>t, <1>u, <1>1 DEF SpendableReserve, DepositorsCovered, liabilityVars
<1>4. W \in [start : Nat, total : Nat]
  BY <1>t, <1>u DEF ConsumedWindow
<1>5. TypeOK'
  BY <1>t, <1>1, <1>3, <1>4 DEF TypeOK, roleVars, gateVars, liabilityVars
<1>6. LiabilityIsPending' /\ Filled'
  BY <1>t, <1>1 DEF IInv, LiabilityIsPending, Open, Filled, liabilityVars
<1>7. IsFiniteSet(payouts) /\ IsFiniteSet(payouts \cup {q})
  BY <1>t, FS_AddElement DEF PayoutsRecorded
<1>8. q.id = id /\ q.amount = amount /\ q.at = clock
      /\ q \in [id : RequestIds, amount : Nat, at : Nat]
  BY <1>t, <1>u
<1>9. \A p \in payouts : /\ p.amount \in Nat /\ p.at \in Nat
                         /\ p.at < outboundWindow.start + RollingWindow
  BY <1>t DEF PayoutsRecorded
<1>10. outboundWindow.total = SumOver(w, since)
  BY <1>t DEF WindowIsExact
<1>11. /\ \A p \in payouts : v[p] = p.amount /\ w[p] = p.amount
       /\ v[q] = amount
  BY <1>8
<1>12. v = [p \in payouts' |-> p.amount]
  BY <1>1
<1> HIDE DEF q, w, v
<1>13. CASE clock - outboundWindow.start >= RollingWindow
  <2>1. W = [start |-> clock, total |-> amount]
    BY <1>13 DEF ConsumedWindow
  <2>2. \A p \in payouts : p.at < clock
    BY <1>9, <1>13, <1>t, <1>u
  <2>3. {p \in payouts' : p.at >= clock} = {q}
    BY <1>1, <1>8, <1>9, <1>u, <2>2
  <2>4. SumOver(v, {q}) = amount
    BY <1>11, <1>t, SumSingle
  <2>5. outboundWindow'.start = clock /\ outboundWindow'.total = amount
    BY <1>1, <2>1
  <2>6. WindowIsExact'
    BY <1>12, <2>3, <2>4, <2>5 DEF WindowIsExact
  <2>7. PayoutsRecorded'
    <3>1. \A p \in payouts' : p.at < clock + RollingWindow
      BY <1>1, <1>8, <1>9, <1>t, <1>u, <2>2
    <3> QED
      BY <1>1, <1>7, <1>8, <1>t, <1>u, <2>1, <3>1 DEF PayoutsRecorded
  <2> QED
    BY <1>3, <1>5, <1>6, <2>6, <2>7 DEF IInv, ReserveSound
<1>14. CASE ~(clock - outboundWindow.start >= RollingWindow)
  <2>1. /\ W.start = outboundWindow.start /\ W.total = outboundWindow.total + amount
    BY <1>14, <1>u DEF ConsumedWindow
  <2>2. clock >= outboundWindow.start
    BY <1>t, <1>u DEF PayoutsRecorded
  <2>3. {p \in payouts' : p.at >= outboundWindow.start} = since \cup {q}
    BY <1>1, <1>8, <2>2
  <2>4. IsFiniteSet(since) /\ since \subseteq payouts /\ q \notin since
    BY <1>2, <1>7, FS_Subset
  <2> HIDE DEF since
  <2>5. SumOver(v, since \cup {q}) = SumOver(w, since) + v[q]
    BY <1>9, <1>11, <1>t, <2>4, SumAdd
  <2>6. WindowIsExact'
    BY <1>1, <1>10, <1>11, <1>12, <2>1, <2>3, <2>5 DEF WindowIsExact
  <2>7. PayoutsRecorded'
    <3>1. \A p \in payouts' : p.at < outboundWindow.start + RollingWindow
      BY <1>1, <1>8, <1>9, <1>14, <1>t, <1>u
    <3> QED
      BY <1>1, <1>7, <1>8, <1>t, <1>u, <2>1, <2>2, <3>1 DEF PayoutsRecorded
  <2> QED
    BY <1>3, <1>5, <1>6, <2>6, <2>7 DEF IInv, ReserveSound
<1> QED
  BY <1>13, <1>14

LEMMA CloseStep ==
  ASSUME IInv, NEW id \in RequestIds, NEW k \in Indices,
         ExecuteRefund(id, k) \/ ExecuteSettlement(id, k) \/ ExecuteAbandonment(id, k)
  PROVE  IInv'
<1>t. TypeOK /\ LiabilityIsPending /\ DepositorsCovered /\ obligations[k].amount \in Nat
  BY DEF IInv, ReserveSound, TypeOK
<1>1. PICK status \in Statuses \ {"None", "Pending"} : Close(k, status)
  BY DEF ExecuteRefund, ExecuteSettlement, ExecuteAbandonment, Statuses
<1>2. /\ Pending(k) /\ ReleaseLiability(obligations[k].amount)
      /\ \/ balance' = balance
         \/ balance >= obligations[k].amount /\ balance' = balance - obligations[k].amount
      /\ executed \subseteq executed'
      /\ UNCHANGED <<roleVars, gateVars, windowVars, governanceNonce, migration, clock, payouts>>
  BY DEF ExecuteRefund, ExecuteSettlement, ExecuteAbandonment, ConsumeRequest
<1>3. LiabilityIsPending'
  BY <1>t, <1>1, <1>2, CloseLiability
<1>4. /\ balance' \in Nat /\ outstandingCount' \in Nat /\ outstandingPrincipal' \in Nat
      /\ DepositorsCovered'
  BY <1>t, <1>2 DEF TypeOK, DepositorsCovered, ReleaseLiability
<1>5. obligations' \in [Indices -> [status : Statuses, route : Routes \cup {"none"}, amount : Nat]]
  BY <1>t, <1>1 DEF TypeOK, Close
<1>6. TypeOK'
  BY <1>t, <1>2, <1>4, <1>5 DEF TypeOK, roleVars, gateVars, windowVars
<1>7. WindowIsExact' /\ PayoutsRecorded'
  BY <1>2 DEF IInv, ReserveSound, WindowIsExact, PayoutsRecorded, windowVars
<1>8. Filled'
  <2>1. \A i \in Indices : (obligations'[i].status = "None") <=> (obligations[i].status = "None")
    BY <1>t, <1>1, <1>2 DEF TypeOK, Close, Pending
  <2> QED
    BY <2>1 DEF IInv, Filled
<1> QED
  BY <1>3, <1>4, <1>6, <1>7, <1>8 DEF IInv, ReserveSound

LEMMA TreasuryStep ==
  ASSUME IInv, NEW id \in RequestIds, NEW amount \in Amounts, ExecuteTreasuryWithdraw(id, amount)
  PROVE  IInv'
<1>t. TypeOK /\ DepositorsCovered /\ amount \in Nat
  BY RhcAmountsAssumption DEF IInv, ReserveSound
<1>1. /\ balance' = balance - amount /\ SpendableReserve(amount) /\ executed \subseteq executed'
      /\ UNCHANGED <<roleVars, gateVars, liabilityVars, windowVars, governanceNonce,
                     migration, clock, payouts>>
  BY DEF ExecuteTreasuryWithdraw, ConsumeRequest
<1>2. /\ balance \in Nat /\ outstandingPrincipal \in Nat /\ limits.protectedMin \in Nat
      /\ clock \in Nat
  BY <1>t DEF TypeOK, LimitFields
<1>3. balance' \in Nat /\ DepositorsCovered'
  BY <1>t, <1>1, <1>2 DEF SpendableReserve, DepositorsCovered, liabilityVars
<1>4. TypeOK'
  BY <1>t, <1>1, <1>3 DEF TypeOK, roleVars, gateVars, windowVars, liabilityVars
<1>5. Quiet /\ clock' \in Nat /\ clock <= clock'
  BY <1>1, <1>2 DEF Quiet, liabilityVars, windowVars
<1> QED
  BY <1>1, <1>3, <1>4, <1>5, QuietKeeps DEF IInv, ReserveSound

\* What a nonce-bound call leaves of the nonce.
LEMMA GovernanceCounts ==
  ASSUME TypeOK, Governance(governanceNonce)
  PROVE  governanceNonce' \in 0 .. MaxNonce /\ governanceNonce' # governanceNonce
BY RhcBoundsAssumption DEF TypeOK, Governance

\* The calls of guardians and governance that move no token.
Administers ==
  \/ \E account \in Accounts, deposits, outgoing \in BOOLEAN :
       GuardianPause(account, deposits, outgoing)
  \/ \E deposits, outgoing \in BOOLEAN : SetPaused(deposits, outgoing)
  \/ \E route \in Routes, enabled \in BOOLEAN : SetRouteEnabled(route, enabled)
  \/ \E triple \in Triples : RotateSigners(triple) \/ RotateGuardians(triple)
  \/ \E lim \in LimitSets : SetLimits(lim)
  \/ \E successor \in Successors : CommitMigration(successor)
  \/ \E account \in Accounts : VetoMigration(account)

LEMMA AdministersFrame ==
  ASSUME Administers
  PROVE  UNCHANGED <<windowVars, liabilityVars, executed, balance, clock, payouts>>
BY DEF Administers, GuardianPause, SetPaused, SetRouteEnabled, RotateSigners, RotateGuardians,
       SetLimits, CommitMigration, VetoMigration

LEMMA AdministersType ==
  ASSUME TypeOK, Administers
  PROVE  TypeOK'
<1>f. UNCHANGED <<windowVars, liabilityVars, executed, balance, clock, payouts>>
  BY AdministersFrame
<1> USE DEF roleVars, gateVars, windowVars, liabilityVars
<1>1. ASSUME NEW account \in Accounts, NEW deposits \in BOOLEAN, NEW outgoing \in BOOLEAN,
             GuardianPause(account, deposits, outgoing)
      PROVE  TypeOK'
  BY <1>1 DEF TypeOK, GuardianPause
<1>2. ASSUME NEW deposits \in BOOLEAN, NEW outgoing \in BOOLEAN, SetPaused(deposits, outgoing)
      PROVE  TypeOK'
  <2>1. governanceNonce' \in 0 .. MaxNonce
    BY <1>2, GovernanceCounts DEF SetPaused
  <2> QED
    BY <1>2, <2>1 DEF TypeOK, SetPaused
<1>3. ASSUME NEW route \in Routes, NEW enabled \in BOOLEAN, SetRouteEnabled(route, enabled)
      PROVE  TypeOK'
  <2>1. governanceNonce' \in 0 .. MaxNonce
    BY <1>3, GovernanceCounts DEF SetRouteEnabled
  <2>2. routeEnabled' \in [Routes -> BOOLEAN]
    BY <1>3 DEF TypeOK, SetRouteEnabled
  <2> QED
    BY <1>3, <2>1, <2>2 DEF TypeOK, SetRouteEnabled
<1>4. ASSUME NEW triple \in Triples, RotateSigners(triple)
      PROVE  TypeOK'
  <2>1. governanceNonce' \in 0 .. MaxNonce
    BY <1>4, GovernanceCounts DEF RotateSigners
  <2>2. signerEpoch' \in 0 .. MaxEpoch
    BY <1>4, RhcBoundsAssumption DEF TypeOK, RotateSigners
  <2> QED
    BY <1>4, <2>1, <2>2 DEF TypeOK, RotateSigners
<1>5. ASSUME NEW triple \in Triples, RotateGuardians(triple)
      PROVE  TypeOK'
  <2>1. governanceNonce' \in 0 .. MaxNonce
    BY <1>5, GovernanceCounts DEF RotateGuardians
  <2> QED
    BY <1>5, <2>1 DEF TypeOK, RotateGuardians
<1>6. ASSUME NEW lim \in LimitSets, SetLimits(lim)
      PROVE  TypeOK'
  <2>1. governanceNonce' \in 0 .. MaxNonce
    BY <1>6, GovernanceCounts DEF SetLimits
  <2>2. limits' \in [LimitFields -> Nat]
    BY <1>6, RhcLimitsAssumption DEF SetLimits
  <2> QED
    BY <1>6, <2>1, <2>2 DEF TypeOK, SetLimits
<1>7. ASSUME NEW successor \in Successors, CommitMigration(successor)
      PROVE  TypeOK'
  <2>1. governanceNonce' \in 0 .. MaxNonce
    BY <1>7, GovernanceCounts DEF CommitMigration
  <2> QED
    BY <1>7, <2>1 DEF TypeOK, CommitMigration
<1>8. ASSUME NEW account \in Accounts, VetoMigration(account)
      PROVE  TypeOK'
  BY <1>8 DEF TypeOK, VetoMigration
<1> QED
  BY <1>1, <1>2, <1>3, <1>4, <1>5, <1>6, <1>7, <1>8 DEF Administers

LEMMA AdministersStep ==
  ASSUME IInv, Administers
  PROVE  IInv'
<1>1. TypeOK' /\ UNCHANGED <<windowVars, liabilityVars, executed, balance, clock, payouts>>
  BY AdministersType, AdministersFrame DEF IInv, ReserveSound
<1>2. clock \in Nat
  BY DEF IInv, ReserveSound, TypeOK
<1>3. Quiet /\ clock' \in Nat /\ clock <= clock' /\ executed \subseteq executed'
  BY <1>1, <1>2 DEF Quiet, windowVars, liabilityVars
<1>4. DepositorsCovered'
  BY <1>1 DEF IInv, ReserveSound, DepositorsCovered, liabilityVars
<1> QED
  BY <1>1, <1>3, <1>4, QuietKeeps DEF IInv, ReserveSound

\* The balance leaves only when nobody is owed anything.
LEMMA FinalizeStep ==
  ASSUME IInv, FinalizeMigration
  PROVE  IInv'
<1>1. /\ balance' = 0 /\ outstandingPrincipal = 0 /\ Governance(governanceNonce)
      /\ UNCHANGED <<roleVars, gateVars, windowVars, liabilityVars, executed, clock, payouts>>
  BY DEF FinalizeMigration
<1>2. governanceNonce' \in 0 .. MaxNonce /\ clock \in Nat /\ TypeOK
  BY <1>1, GovernanceCounts DEF IInv, ReserveSound, TypeOK
<1>3. TypeOK'
  BY <1>1, <1>2 DEF TypeOK, roleVars, gateVars, windowVars, liabilityVars
<1>4. DepositorsCovered'
  BY <1>1 DEF DepositorsCovered, liabilityVars
<1>5. Quiet /\ clock' \in Nat /\ clock <= clock' /\ executed \subseteq executed'
  BY <1>1, <1>2 DEF Quiet, windowVars, liabilityVars
<1> QED
  BY <1>3, <1>4, <1>5, QuietKeeps DEF IInv, ReserveSound

LEMMA TickStep ==
  ASSUME IInv, Tick
  PROVE  IInv'
<1>1. /\ clock' = clock + 1
      /\ UNCHANGED <<roleVars, gateVars, windowVars, liabilityVars, governanceNonce,
                     executed, migration, balance, payouts>>
  BY DEF Tick
<1>2. clock \in Nat /\ TypeOK
  BY DEF IInv, ReserveSound, TypeOK
<1>3. clock' \in Nat /\ clock <= clock'
  BY <1>1, <1>2
<1>4. TypeOK'
  BY <1>1, <1>2, <1>3 DEF TypeOK, roleVars, gateVars, windowVars, liabilityVars
<1>5. DepositorsCovered'
  BY <1>1 DEF IInv, ReserveSound, DepositorsCovered, liabilityVars
<1>6. Quiet /\ executed \subseteq executed'
  BY <1>1 DEF Quiet, windowVars, liabilityVars
<1> QED
  BY <1>3, <1>4, <1>5, <1>6, QuietKeeps DEF IInv, ReserveSound

LEMMA StutterKeeps ==
  ASSUME IInv, UNCHANGED vars
  PROVE  IInv'
<1>1. UNCHANGED <<roleVars, gateVars, windowVars, liabilityVars, governanceNonce,
                  executed, migration, balance, clock, payouts>>
  BY DEF vars
<1>2. clock \in Nat /\ TypeOK
  BY DEF IInv, ReserveSound, TypeOK
<1>3. TypeOK'
  BY <1>1, <1>2 DEF TypeOK, roleVars, gateVars, windowVars, liabilityVars
<1>4. DepositorsCovered'
  BY <1>1 DEF IInv, ReserveSound, DepositorsCovered, liabilityVars
<1>5. Quiet /\ clock' \in Nat /\ clock <= clock' /\ executed \subseteq executed'
  BY <1>1, <1>2 DEF Quiet, windowVars, liabilityVars
<1> QED
  BY <1>3, <1>4, <1>5, QuietKeeps DEF IInv, ReserveSound

-----------------------------------------------------------------------------
(* The invariant holds *)

LEMMA InitHolds ==
  ASSUME Init
  PROVE  IInv
<1>1. TypeOK
  <2>1. limits \in [LimitFields -> Nat]
    BY RhcLimitsAssumption DEF Init
  <2>2. obligations \in [Indices -> [status : Statuses, route : Routes \cup {"none"}, amount : Nat]]
    BY DEF Init, NoObligation, Statuses
  <2> QED
    BY <2>1, <2>2, RhcRolesAssumption, RhcAmountsAssumption, RhcBoundsAssumption DEF Init, TypeOK
<1>2. DepositorsCovered
  BY RhcAmountsAssumption DEF Init, DepositorsCovered
<1>3. Open = {}
  BY DEF Init, Open, NoObligation
<1>4. LiabilityIsPending
  BY <1>3, FS_EmptySet, SumEmpty DEF Init, LiabilityIsPending
<1>5. {p \in payouts : p.at >= outboundWindow.start} = {} /\ outboundWindow.total = 0
  BY DEF Init
<1>6. WindowIsExact
  BY <1>5, SumEmpty DEF WindowIsExact
<1>7. \A i \in Indices : obligations[i].status # "None" <=> i < 0
  BY IndicesFinite DEF Init, NoObligation
<1>8. Filled
  BY <1>7 DEF Filled
<1>9. PayoutsRecorded
  BY FS_EmptySet DEF Init, PayoutsRecorded
<1> QED
  BY <1>1, <1>2, <1>4, <1>6, <1>8, <1>9 DEF IInv, ReserveSound

\* The next-state relation, by the lemmas above.
LEMMA NextSplit ==
  ASSUME Next
  PROVE  \/ \E route \in Routes, amount \in Amounts : Deposit(route, amount)
         \/ \E route \in Routes, id \in RequestIds, amount \in Amounts :
              ExecutePayout(route, id, amount)
         \/ \E id \in RequestIds, amount \in Amounts : ExecuteTreasuryWithdraw(id, amount)
         \/ \E id \in RequestIds, k \in Indices :
              ExecuteRefund(id, k) \/ ExecuteSettlement(id, k) \/ ExecuteAbandonment(id, k)
         \/ Administers
         \/ FinalizeMigration
         \/ Tick
BY DEF Next, Administers

LEMMA InvariantKept ==
  ASSUME IInv, [Next]_vars
  PROVE  IInv'
BY NextSplit, DepositStep, PayoutStep, TreasuryStep, CloseStep, AdministersStep, FinalizeStep,
   TickStep, StutterKeeps

LEMMA InvariantHolds == Spec => []IInv
<1>1. Init => IInv
  BY InitHolds
<1>2. IInv /\ [Next]_vars => IInv'
  BY InvariantKept
<1> QED
  BY <1>1, <1>2, PTL DEF Spec

\* In every state of GlcRobinhoodBridge, whatever the calls and their order:
\* the depositors still owed money are covered by the balance, the two
\* liability counters are the count and the sum of the pending obligations,
\* and the outbound window counts every payout since it began and no other.
THEOREM ReserveAlwaysSound == Spec => []ReserveSound
<1>1. IInv => ReserveSound
  BY DEF IInv
<1> QED
  BY <1>1, InvariantHolds, PTL

-----------------------------------------------------------------------------
(* What a call may not do *)

\* A call that consumes a request changes the set of consumed ones.
LEMMA ConsumedShows ==
  ASSUME NEW action, NEW id, ConsumeRequest(action, id)
  PROVE  executed' # executed
BY DEF ConsumeRequest

LEMMA ConfinedDeposit ==
  ASSUME IInv, NEW route \in Routes, NEW amount \in Amounts, Deposit(route, amount)
  PROVE  HeadroomKept /\ LoneKeyOnlyCloses
<1>1. /\ outstandingPrincipal' = outstandingPrincipal + amount /\ balance' = balance + amount
      /\ UNCHANGED <<roleVars, gateVars, migration>>
  BY DEF Deposit
<1>2. /\ balance \in Nat /\ outstandingPrincipal \in Nat /\ limits.protectedMin \in Nat
      /\ amount \in Nat
  BY RhcAmountsAssumption DEF IInv, ReserveSound, TypeOK, LimitFields
<1>3. HeadroomKept
  BY <1>1, <1>2 DEF HeadroomKept
<1>4. balance' >= balance
  BY <1>1, <1>2
<1> QED
  BY <1>1, <1>3, <1>4 DEF LoneKeyOnlyCloses, gateVars

\* Payouts and withdrawals stop at the floor and the debts.
LEMMA ConfinedSpending ==
  ASSUME IInv, NEW id \in RequestIds, NEW amount \in Amounts,
         \/ \E route \in Routes : ExecutePayout(route, id, amount)
         \/ ExecuteTreasuryWithdraw(id, amount)
  PROVE  HeadroomKept /\ LoneKeyOnlyCloses
<1>1. /\ balance' = balance - amount /\ SpendableReserve(amount)
      /\ outstandingPrincipal' = outstandingPrincipal
      /\ ConsumeRequest("payout", id) \/ ConsumeRequest("treasury", id)
  BY DEF ExecutePayout, ExecuteTreasuryWithdraw, liabilityVars
<1>2. /\ balance \in Nat /\ outstandingPrincipal \in Nat /\ limits.protectedMin \in Nat
      /\ amount \in Nat
  BY RhcAmountsAssumption DEF IInv, ReserveSound, TypeOK, LimitFields
<1>3. HeadroomKept
  BY <1>1, <1>2 DEF HeadroomKept, SpendableReserve
<1>4. executed' # executed
  BY <1>1, ConsumedShows
<1> QED
  BY <1>3, <1>4 DEF LoneKeyOnlyCloses

\* A close gives up at least as much debt as balance.
LEMMA ConfinedClose ==
  ASSUME IInv, NEW id \in RequestIds, NEW k \in Indices,
         ExecuteRefund(id, k) \/ ExecuteSettlement(id, k) \/ ExecuteAbandonment(id, k)
  PROVE  HeadroomKept /\ LoneKeyOnlyCloses
<1> DEFINE owed == obligations[k].amount
<1>1. /\ ReleaseLiability(owed)
      /\ balance' = balance \/ balance' = balance - owed
      /\ \E action \in {"refund", "settle", "abandon"} : ConsumeRequest(action, id)
  BY DEF ExecuteRefund, ExecuteSettlement, ExecuteAbandonment
<1>2. /\ balance \in Nat /\ outstandingPrincipal \in Nat /\ limits.protectedMin \in Nat
      /\ owed \in Nat
  BY DEF IInv, ReserveSound, TypeOK, LimitFields
<1> HIDE DEF owed
<1>3. HeadroomKept
  BY <1>1, <1>2 DEF HeadroomKept, ReleaseLiability
<1>4. executed' # executed
  BY <1>1, ConsumedShows
<1> QED
  BY <1>3, <1>4 DEF LoneKeyOnlyCloses

LEMMA ConfinedAdministration ==
  ASSUME IInv, Administers
  PROVE  HeadroomKept /\ LoneKeyOnlyCloses
<1>f. UNCHANGED <<windowVars, liabilityVars, executed, balance, clock, payouts>>
  BY AdministersFrame
<1>t. TypeOK /\ balance \in Nat
  BY DEF IInv, ReserveSound, TypeOK
<1>1. HeadroomKept
  BY <1>f DEF HeadroomKept, liabilityVars
<1>2. ASSUME NEW account \in Accounts, NEW deposits \in BOOLEAN, NEW outgoing \in BOOLEAN,
             GuardianPause(account, deposits, outgoing)
      PROVE  LoneKeyOnlyCloses
  BY <1>2, <1>t DEF GuardianPause, LoneKeyOnlyCloses
<1>3. ASSUME NEW account \in Accounts, VetoMigration(account)
      PROVE  LoneKeyOnlyCloses
  BY <1>3, <1>t DEF VetoMigration, LoneKeyOnlyCloses, gateVars
<1>4. ASSUME Governance(governanceNonce)
      PROVE  LoneKeyOnlyCloses
  BY <1>4, <1>t, GovernanceCounts DEF LoneKeyOnlyCloses
<1>5. CASE \E deposits, outgoing \in BOOLEAN : SetPaused(deposits, outgoing)
  BY <1>1, <1>4, <1>5 DEF SetPaused
<1>6. CASE \E route \in Routes, enabled \in BOOLEAN : SetRouteEnabled(route, enabled)
  BY <1>1, <1>4, <1>6 DEF SetRouteEnabled
<1>7. CASE \E triple \in Triples : RotateSigners(triple) \/ RotateGuardians(triple)
  BY <1>1, <1>4, <1>7 DEF RotateSigners, RotateGuardians
<1>8. CASE \E lim \in LimitSets : SetLimits(lim)
  BY <1>1, <1>4, <1>8 DEF SetLimits
<1>9. CASE \E successor \in Successors : CommitMigration(successor)
  BY <1>1, <1>4, <1>9 DEF CommitMigration
<1> QED
  BY <1>1, <1>2, <1>3, <1>5, <1>6, <1>7, <1>8, <1>9 DEF Administers

LEMMA ConfinedMigration ==
  ASSUME IInv, FinalizeMigration
  PROVE  HeadroomKept /\ LoneKeyOnlyCloses
<1>1. /\ migration' = [migration EXCEPT !.state = "migrated"] /\ migration.state = "committed"
      /\ Governance(governanceNonce)
  BY DEF FinalizeMigration
<1>2. governanceNonce' # governanceNonce
  BY <1>1, GovernanceCounts DEF IInv, ReserveSound
<1> QED
  BY <1>1, <1>2 DEF HeadroomKept, LoneKeyOnlyCloses

LEMMA ConfinedTick ==
  ASSUME IInv, Tick
  PROVE  HeadroomKept /\ LoneKeyOnlyCloses
<1>1. balance \in Nat /\ UNCHANGED <<roleVars, gateVars, liabilityVars, migration, balance>>
  BY DEF IInv, ReserveSound, TypeOK, Tick
<1> QED
  BY <1>1 DEF HeadroomKept, LoneKeyOnlyCloses, gateVars, liabilityVars

\* No call of the contract eats into the headroom above floor and debts
\* (other than the quorum's change of the limits and its migration), and none
\* that a single key makes opens, moves or reconfigures anything.
THEOREM CallsConfined == Spec => CallsAreConfined
<1>1. IInv /\ [Next]_vars => [HeadroomKept /\ LoneKeyOnlyCloses]_vars
  BY NextSplit, ConfinedDeposit, ConfinedSpending, ConfinedClose, ConfinedAdministration,
     ConfinedMigration, ConfinedTick
<1> QED
  BY <1>1, InvariantHolds, PTL DEF Spec, CallsAreConfined

-----------------------------------------------------------------------------
(* The refinement of DepositOutcome *)

\* How a closed obligation ended.
WayOf(status) ==
  CASE status = "Settled" -> "paid"
    [] status = "Refunded" -> "returned"
    [] OTHER -> "kept"

\* Closing a pending obligation is an End step of the abstract specification.
LEMMA CloseEnds ==
  ASSUME TypeOK, NEW k \in Indices, Pending(k),
         NEW status \in {"Settled", "Refunded", "Abandoned"}, Close(k, status)
  PROVE  Promise!Next
<1>1. /\ obligations'[k].status = status
      /\ \A i \in Indices : i # k => obligations'[i] = obligations[i]
  BY DEF TypeOK, Close
<1>2. Outcomes[k] = {}
  BY DEF Outcomes, Pending
<1>3. Outcomes'[k] = {WayOf(status)}
  BY <1>1 DEF Outcomes, WayOf
<1>4. \A i \in Indices : i # k => Outcomes'[i] = Outcomes[i]
  BY <1>1 DEF Outcomes
<1>5. Outcomes' = [Outcomes EXCEPT ![k] = {WayOf(status)}]
  BY <1>3, <1>4 DEF Outcomes
<1>6. WayOf(status) \in {"paid", "returned", "kept"}
  BY DEF WayOf
<1>7. Promise!End(k, WayOf(status))
  BY <1>2, <1>5 DEF Promise!End
<1> QED
  BY <1>6, <1>7 DEF Promise!Next

\* A deposit opens an obligation, which has not ended.
LEMMA DepositEndsNothing ==
  ASSUME IInv, NEW route \in Routes, NEW amount \in Amounts, Deposit(route, amount)
  PROVE  Outcomes' = Outcomes
<1> DEFINE k == ObligationCount
<1>1. /\ obligations' = [obligations EXCEPT ![k] =
                           [status |-> "Pending", route |-> route, amount |-> amount]]
      /\ k < MaxDeposits
  BY DEF Deposit
<1>2. k \in Indices /\ obligations[k].status = "None"
  <2>1. k \in Indices /\ \A i \in Indices : obligations[i].status # "None" <=> i < k
    BY <1>1, NextIndex DEF IInv
  <2> QED
    BY <2>1, IndicesFinite
<1> HIDE DEF k
<1>3. /\ obligations'[k].status = "Pending"
      /\ \A i \in Indices : i # k => obligations'[i] = obligations[i]
  BY <1>1, <1>2 DEF IInv, ReserveSound, TypeOK
<1> QED
  BY <1>2, <1>3 DEF Outcomes

\* The contract implements DepositOutcome: whatever quorums sign and whoever
\* relays it, an obligation ends once, and its end is never undone.
THEOREM ObligationsRefine == Spec => ObligationEndsOnce
<1>1. Init => Promise!Init
  BY DEF Init, NoObligation, Outcomes, Promise!Init
<1>2. ASSUME IInv, [Next]_vars
      PROVE  [Promise!Next]_Outcomes
  <2>1. CASE \E route \in Routes, amount \in Amounts : Deposit(route, amount)
    BY <1>2, <2>1, DepositEndsNothing
  <2>2. CASE \E id \in RequestIds, k \in Indices :
               ExecuteRefund(id, k) \/ ExecuteSettlement(id, k) \/ ExecuteAbandonment(id, k)
    <3>1. PICK k \in Indices, status \in {"Settled", "Refunded", "Abandoned"} :
            Pending(k) /\ Close(k, status)
      BY <2>2 DEF ExecuteRefund, ExecuteSettlement, ExecuteAbandonment
    <3>2. TypeOK
      BY <1>2 DEF IInv, ReserveSound
    <3> QED
      BY <3>1, <3>2, CloseEnds
  <2>3. CASE obligations' = obligations
    BY <2>3 DEF Outcomes
  <2>4. ASSUME \/ \E route \in Routes, id \in RequestIds, amount \in Amounts :
                    ExecutePayout(route, id, amount)
               \/ \E id \in RequestIds, amount \in Amounts : ExecuteTreasuryWithdraw(id, amount)
               \/ FinalizeMigration \/ Tick \/ UNCHANGED vars
        PROVE  obligations' = obligations
    BY <2>4 DEF ExecutePayout, ExecuteTreasuryWithdraw, FinalizeMigration, Tick, vars, liabilityVars
  <2>5. ASSUME Administers PROVE obligations' = obligations
    BY <2>5, AdministersFrame DEF liabilityVars
  <2> QED
    BY <1>2, <2>1, <2>2, <2>3, <2>4, <2>5, NextSplit
<1> QED
  BY <1>1, <1>2, InvariantHolds, PTL DEF Spec, ObligationEndsOnce, Promise!Spec
=============================================================================
