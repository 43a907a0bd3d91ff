---------------------------- MODULE GlcToSolProofs ----------------------------
(***************************************************************************)
(* Proofs about GlcToSol, for every value of its constants: a finalized    *)
(* deposit stays final, a landed release stands for a final deposit and    *)
(* pays its request's net, no request has both a submitted release and a   *)
(* refund, the counters of the reserve row are exact, and what is promised *)
(* is covered by the live reserve.                                         *)
(***************************************************************************)
EXTENDS GlcToSol, SumsProofs

RowsTyped == ServiceTypeOK /\ ChainTypeOK

\* The states a finalized request may be in.
PostFinality == {"SourceFinalized", "DestinationSubmitted", "Settled", "ManualReview",
                 "RefundPending", "RefundBroadcast", "Refunded", "Closed"}

\* What a row's state says of its other columns, and of its deposit.
RowLinked(row, deposit) ==
  /\ row.finalized => deposit \in {"deep", "reversed"} /\ row.state \in PostFinality
  /\ row.state \in {"SourceFinalized", "DestinationSubmitted", "Settled"} => row.finalized
  /\ row.sig # 0 => row.state \in {"DestinationSubmitted", "Settled"}
  /\ row.refund \in {"Built", "Signed"} => row.state = "RefundPending"
  /\ row.refund = "Broadcast" => row.state = "RefundBroadcast"
  /\ row.refund = "Refunded" => row.state = "Refunded"

RowsLinked == \A r \in Requests : RowLinked(req[r], dep[r].status)

\* A release being made, in flight or landed belongs to a finalized request
\* and is for its net.
ReleasesLinked ==
  /\ \A r \in Requests : landed[r].tx # 0 =>
       req[r].finalized /\ landed[r].amount = req[r].net
  /\ \A t \in inflight : req[t.req].finalized /\ t.amount = req[t.req].net
  /\ orch # Idle => req[orch.req].finalized

\* The inductive invariant.
IInv == RowsTyped /\ RowsLinked /\ ReleasesLinked

FinalityKept(old, new) == old.finalized => new.finalized /\ new.net = old.net

\* What is shown of each step.
StepOK == IInv' /\ \A r \in Requests : FinalityKept(req[r], req'[r])

\* Rows that keep finality and net keep every release linked.
LEMMA ReleasesStayLinked ==
  ASSUME IInv, req' \in [Requests -> RequestRow],
         \A r \in Requests : FinalityKept(req[r], req'[r]),
         UNCHANGED <<orch, inflight, landed>>
  PROVE  ReleasesLinked'
BY DEF IInv, RowsTyped, ServiceTypeOK, ChainTypeOK, ReleasesLinked, FinalityKept, Idle

\* A ledger transaction that rewrites one row, into a linked one.
LEMMA RowStep ==
  ASSUME IInv, NEW r \in Requests, NEW row \in RequestRow,
         req' = [req EXCEPT ![r] = row],
         FinalityKept(req[r], row),
         RowLinked(row, dep[r].status),
         UNCHANGED <<glcPaused, orch, chainVars, clock>>
  PROVE  StepOK
<1>1. req' \in [Requests -> RequestRow] /\ req'[r] = row
  BY DEF IInv, RowsTyped, ServiceTypeOK
<1>2. \A q \in Requests : q # r => req'[q] = req[q]
  BY DEF IInv, RowsTyped, ServiceTypeOK
<1>3. RowsTyped'
  BY <1>1 DEF IInv, RowsTyped, ServiceTypeOK, ChainTypeOK, chainVars
<1>4. RowsLinked'
  BY <1>1, <1>2 DEF IInv, RowsLinked, chainVars
<1>5. \A q \in Requests : FinalityKept(req[q], req'[q])
  BY <1>1, <1>2 DEF FinalityKept
<1>6. ReleasesLinked'
  BY <1>1, <1>5, ReleasesStayLinked DEF chainVars
<1> QED
  BY <1>3, <1>4, <1>5, <1>6 DEF IInv, StepOK

\* A step that leaves the requests, their deposits and the releases alone.
LEMMA FrameStep ==
  ASSUME IInv, UNCHANGED <<req, orch, dep, inflight, landed, sends>>,
         glcPaused' \in BOOLEAN, clock' \in Nat, refundTx' \subseteq Requests,
         retained' \subseteq Requests, solBalance' \in Nat, limit' \in [min : Nat, max : Nat]
  PROVE  StepOK
BY DEF IInv, RowsTyped, ServiceTypeOK, ChainTypeOK, RowsLinked, ReleasesLinked, StepOK,
       FinalityKept

\* create_request takes an unused id.
LEMMA CreateStep ==
  ASSUME IInv, NEW r \in Requests, NEW net \in Amounts, CreateRequest(r, net)
  PROVE  StepOK
<1> DEFINE row == [req[r] EXCEPT !.state = "AwaitingDeposit", !.net = net,
                                 !.expiry = clock + ReservationTtl]
<1>a. net \in Nat /\ clock + ReservationTtl \in Nat
  BY AmountsAssumption, ConfigAssumption DEF IInv, RowsTyped, ServiceTypeOK
<1>1. req[r] \in RequestRow /\ RowLinked(req[r], dep[r].status)
  BY DEF IInv, RowsTyped, ServiceTypeOK, RowsLinked
<1>2. row \in RequestRow
  BY <1>1, <1>a DEF RequestRow, States, Notes
<1>3. FinalityKept(req[r], row) /\ RowLinked(row, dep[r].status)
  BY <1>1, <1>a DEF CreateRequest, FinalityKept, RowLinked, RequestRow, PostFinality
<1>4. req' = [req EXCEPT ![r] = row] /\ UNCHANGED <<glcPaused, orch, chainVars, clock>>
  BY DEF CreateRequest
<1> QED
  BY <1>2, <1>3, <1>4, RowStep

\* A late deposit that finds no capacity parks an expired request.
LEMMA LateStep ==
  ASSUME IInv, NEW r \in Requests, LateDepositNoCapacity(r)
  PROVE  StepOK
<1> DEFINE row == [req[r] EXCEPT !.state = "ManualReview",
                                 !.note = "late_deposit_no_capacity"]
<1>1. req[r] \in RequestRow /\ RowLinked(req[r], dep[r].status)
  BY DEF IInv, RowsTyped, ServiceTypeOK, RowsLinked
<1>2. row \in RequestRow
  BY <1>1 DEF RequestRow, States, Notes
<1>3. FinalityKept(req[r], row) /\ RowLinked(row, dep[r].status)
  BY <1>1 DEF LateDepositNoCapacity, Observable, FinalityKept, RowLinked, RequestRow, PostFinality
<1>4. req' = [req EXCEPT ![r] = row] /\ UNCHANGED <<glcPaused, orch, chainVars, clock>>
  BY DEF LateDepositNoCapacity, Observable
<1> QED
  BY <1>2, <1>3, <1>4, RowStep

\* A deposit of another amount parks a request that is not final.
LEMMA MismatchStep ==
  ASSUME IInv, NEW r \in Requests, AmountMismatch(r)
  PROVE  StepOK
<1> DEFINE row == [req[r] EXCEPT !.state = "ManualReview",
                                 !.note = "deposit_amount_mismatch",
                                 !.expiry = ExpiryOf(r)]
<1>a. ExpiryOf(r) \in Nat
  BY DEF ExpiryOf, IInv, RowsTyped, ServiceTypeOK, RequestRow
<1>1. req[r] \in RequestRow /\ RowLinked(req[r], dep[r].status)
  BY DEF IInv, RowsTyped, ServiceTypeOK, RowsLinked
<1>2. row \in RequestRow
  BY <1>1, <1>a DEF RequestRow, States, Notes
<1>3. FinalityKept(req[r], row) /\ RowLinked(row, dep[r].status)
  BY <1>1, <1>a DEF AmountMismatch, Observable, FinalityKept, RowLinked, RequestRow, PostFinality
<1>4. req' = [req EXCEPT ![r] = row] /\ UNCHANGED <<glcPaused, orch, chainVars, clock>>
  BY DEF AmountMismatch, Observable
<1> QED
  BY <1>2, <1>3, <1>4, RowStep

\* The locked net, the note and the state of an observed deposit: whatever
\* the rate and the gates say, the row was not final before.
LEMMA LockStep ==
  ASSUME IInv, NEW r \in Requests, NEW struck \in Amounts,
         NEW rate, NEW gate, LockAndObserve(r, struck, rate, gate)
  PROVE  StepOK
<1>1. req[r] \in RequestRow /\ RowLinked(req[r], dep[r].status)
  BY DEF IInv, RowsTyped, ServiceTypeOK, RowsLinked
<1>2. struck \in Nat /\ ExpiryOf(r) \in Nat
  BY <1>1, AmountsAssumption DEF ExpiryOf, RequestRow
<1> DEFINE net == LockedNet(r, struck, rate)
           note == ParkReason(r, struck, rate, gate)
           state == IF note = "none" THEN "Confirming" ELSE "ManualReview"
           hold == IF gate = "burst" THEN "held" ELSE req[r].hold
           row == [req[r] EXCEPT !.state = state, !.net = net, !.note = note,
                                 !.expiry = ExpiryOf(r), !.hold = hold]
<1>3. /\ net \in Nat
      /\ note \in Notes
      /\ state \in {"Confirming", "ManualReview"}
      /\ hold \in {"none", "held", "refund"}
  BY <1>1, <1>2 DEF LockedNet, ParkReason, Notes, RequestRow
<1>4. /\ req' = [req EXCEPT ![r] = row]
      /\ UNCHANGED <<glcPaused, orch, chainVars, clock>>
      /\ req[r].state \in {"AwaitingDeposit", "Expired"}
  BY DEF LockAndObserve, Observable
<1> HIDE DEF net, note, state, hold
<1>5. row \in RequestRow
  BY <1>1, <1>2, <1>3 DEF RequestRow, States
<1>6. FinalityKept(req[r], row) /\ RowLinked(row, dep[r].status)
  BY <1>1, <1>3, <1>4 DEF FinalityKept, RowLinked, RequestRow, PostFinality
<1> QED
  BY <1>4, <1>5, <1>6, RowStep

\* A deposit at depth becomes final.
LEMMA FinalizeStep ==
  ASSUME IInv, NEW r \in Requests, MarkGlcSourceFinalized(r)
  PROVE  StepOK
<1> DEFINE row == [req[r] EXCEPT !.state = "SourceFinalized", !.finalized = TRUE]
<1>1. req[r] \in RequestRow /\ RowLinked(req[r], dep[r].status)
  BY DEF IInv, RowsTyped, ServiceTypeOK, RowsLinked
<1>2. row \in RequestRow
  BY <1>1 DEF RequestRow, States, Notes
<1>3. FinalityKept(req[r], row) /\ RowLinked(row, dep[r].status)
  BY <1>1 DEF MarkGlcSourceFinalized, DepthReached, FinalityKept, RowLinked, RequestRow, PostFinality
<1>4. req' = [req EXCEPT ![r] = row] /\ UNCHANGED <<glcPaused, orch, chainVars, clock>>
  BY DEF MarkGlcSourceFinalized, DepthReached
<1> QED
  BY <1>2, <1>3, <1>4, RowStep

\* A deposit spent before finality parks its request.
LEMMA SpentStep ==
  ASSUME IInv, NEW r \in Requests, MarkGlcDepositSpentBeforeFinalized(r)
  PROVE  StepOK
<1> DEFINE row == [req[r] EXCEPT !.state = "ManualReview",
                                 !.note = "deposit_spent_before_finalized"]
<1>1. req[r] \in RequestRow /\ RowLinked(req[r], dep[r].status)
  BY DEF IInv, RowsTyped, ServiceTypeOK, RowsLinked
<1>2. row \in RequestRow
  BY <1>1 DEF RequestRow, States, Notes
<1>3. FinalityKept(req[r], row) /\ RowLinked(row, dep[r].status)
  BY <1>1 DEF MarkGlcDepositSpentBeforeFinalized, FinalityKept, RowLinked, RequestRow, PostFinality
<1>4. req' = [req EXCEPT ![r] = row] /\ UNCHANGED <<glcPaused, orch, chainVars, clock>>
  BY DEF MarkGlcDepositSpentBeforeFinalized
<1> QED
  BY <1>2, <1>3, <1>4, RowStep

\* A finalized request out of the program's bounds is parked.
LEMMA ParkStep ==
  ASSUME IInv, NEW r \in Requests, ParkForDestinationBounds(r)
  PROVE  StepOK
<1> DEFINE row == [req[r] EXCEPT !.state = "ManualReview",
                                 !.note = "destination_payout_out_of_bounds"]
<1>1. req[r] \in RequestRow /\ RowLinked(req[r], dep[r].status)
  BY DEF IInv, RowsTyped, ServiceTypeOK, RowsLinked
<1>2. row \in RequestRow
  BY <1>1 DEF RequestRow, States, Notes
<1>3. FinalityKept(req[r], row) /\ RowLinked(row, dep[r].status)
  BY <1>1 DEF ParkForDestinationBounds, FinalityKept, RowLinked, RequestRow, PostFinality
<1>4. req' = [req EXCEPT ![r] = row] /\ UNCHANGED <<glcPaused, orch, chainVars, clock>>
  BY DEF ParkForDestinationBounds
<1> QED
  BY <1>2, <1>3, <1>4, RowStep

\* A confirmed release settles its request.
LEMMA ConfirmStep ==
  ASSUME IInv, NEW r \in Requests, MarkReleaseConfirmed(r)
  PROVE  StepOK
<1> DEFINE row == [req[r] EXCEPT !.state = "Settled"]
<1>1. req[r] \in RequestRow /\ RowLinked(req[r], dep[r].status)
  BY DEF IInv, RowsTyped, ServiceTypeOK, RowsLinked
<1>2. row \in RequestRow
  BY <1>1 DEF RequestRow, States, Notes
<1>3. FinalityKept(req[r], row) /\ RowLinked(row, dep[r].status)
  BY <1>1 DEF MarkReleaseConfirmed, Settle, FinalityKept, RowLinked, RequestRow, PostFinality
<1>4. req' = [req EXCEPT ![r] = row] /\ UNCHANGED <<glcPaused, orch, chainVars, clock>>
  BY DEF MarkReleaseConfirmed, Settle
<1> QED
  BY <1>2, <1>3, <1>4, RowStep

\* A request parked for its bounds resumes, when it has neither release nor refund.
LEMMA ResumeStep ==
  ASSUME IInv, NEW r \in Requests, ResumeDestinationBound(r)
  PROVE  StepOK
<1> DEFINE row == [req[r] EXCEPT !.state = "SourceFinalized", !.note = "none"]
<1>1. req[r] \in RequestRow /\ RowLinked(req[r], dep[r].status)
  BY DEF IInv, RowsTyped, ServiceTypeOK, RowsLinked
<1>2. row \in RequestRow
  BY <1>1 DEF RequestRow, States, Notes
<1>3. FinalityKept(req[r], row) /\ RowLinked(row, dep[r].status)
  BY <1>1 DEF ResumeDestinationBound, Resumable, Parked, FinalityKept, RowLinked, RequestRow, PostFinality
<1>4. req' = [req EXCEPT ![r] = row] /\ UNCHANGED <<glcPaused, orch, chainVars, clock>>
  BY DEF ResumeDestinationBound, Resumable, Parked
<1> QED
  BY <1>2, <1>3, <1>4, RowStep

\* Operator holds leave every link alone.
LEMMA HoldStep ==
  ASSUME IInv, NEW r \in Requests, SetManualReviewHold(r)
  PROVE  StepOK
<1> DEFINE row == [req[r] EXCEPT !.hold = "held"]
<1>1. req[r] \in RequestRow /\ RowLinked(req[r], dep[r].status)
  BY DEF IInv, RowsTyped, ServiceTypeOK, RowsLinked
<1>2. row \in RequestRow
  BY <1>1 DEF RequestRow, States, Notes
<1>3. FinalityKept(req[r], row) /\ RowLinked(row, dep[r].status)
  BY <1>1 DEF SetManualReviewHold, FinalityKept, RowLinked, RequestRow, PostFinality
<1>4. req' = [req EXCEPT ![r] = row] /\ UNCHANGED <<glcPaused, orch, chainVars, clock>>
  BY DEF SetManualReviewHold
<1> QED
  BY <1>2, <1>3, <1>4, RowStep

\* So does clearing one.
LEMMA ClearHoldStep ==
  ASSUME IInv, NEW r \in Requests, ClearManualReviewHold(r)
  PROVE  StepOK
<1> DEFINE row == [req[r] EXCEPT !.hold = "none"]
<1>1. req[r] \in RequestRow /\ RowLinked(req[r], dep[r].status)
  BY DEF IInv, RowsTyped, ServiceTypeOK, RowsLinked
<1>2. row \in RequestRow
  BY <1>1 DEF RequestRow, States, Notes
<1>3. FinalityKept(req[r], row) /\ RowLinked(row, dep[r].status)
  BY <1>1 DEF ClearManualReviewHold, FinalityKept, RowLinked, RequestRow, PostFinality
<1>4. req' = [req EXCEPT ![r] = row] /\ UNCHANGED <<glcPaused, orch, chainVars, clock>>
  BY DEF ClearManualReviewHold
<1> QED
  BY <1>2, <1>3, <1>4, RowStep

\* And so does a recorded decision.
LEMMA DecisionStep ==
  ASSUME IInv, NEW r \in Requests, RecordOperatorDecision(r)
  PROVE  StepOK
<1> DEFINE row == [req[r] EXCEPT !.hold = "refund"]
<1>1. req[r] \in RequestRow /\ RowLinked(req[r], dep[r].status)
  BY DEF IInv, RowsTyped, ServiceTypeOK, RowsLinked
<1>2. row \in RequestRow
  BY <1>1 DEF RequestRow, States, Notes
<1>3. FinalityKept(req[r], row) /\ RowLinked(row, dep[r].status)
  BY <1>1 DEF RecordOperatorDecision, FinalityKept, RowLinked, RequestRow, PostFinality
<1>4. req' = [req EXCEPT ![r] = row] /\ UNCHANGED <<glcPaused, orch, chainVars, clock>>
  BY DEF RecordOperatorDecision
<1> QED
  BY <1>2, <1>3, <1>4, RowStep

\* A closure needs a request without release and refund.
LEMMA CloseStep ==
  ASSUME IInv, NEW r \in Requests, CloseManualReview(r)
  PROVE  StepOK
<1> DEFINE row == [req[r] EXCEPT !.state = "Closed"]
<1>1. req[r] \in RequestRow /\ RowLinked(req[r], dep[r].status)
  BY DEF IInv, RowsTyped, ServiceTypeOK, RowsLinked
<1>2. row \in RequestRow
  BY <1>1 DEF RequestRow, States, Notes
<1>3. FinalityKept(req[r], row) /\ RowLinked(row, dep[r].status)
  BY <1>1 DEF CloseManualReview, Parked, FinalityKept, RowLinked, RequestRow, PostFinality
<1>4. req' = [req EXCEPT ![r] = row] /\ UNCHANGED <<glcPaused, orch, chainVars, clock>>
  BY DEF CloseManualReview, Parked
<1> QED
  BY <1>2, <1>3, <1>4, RowStep

\* A refund begins on a parked request without a submitted release.
LEMMA BeginRefundStep ==
  ASSUME IInv, NEW r \in Requests, BeginGoldcoinRefund(r)
  PROVE  StepOK
<1> DEFINE row == [req[r] EXCEPT !.state = "RefundPending", !.refund = "Built"]
<1>1. req[r] \in RequestRow /\ RowLinked(req[r], dep[r].status)
  BY DEF IInv, RowsTyped, ServiceTypeOK, RowsLinked
<1>2. row \in RequestRow
  BY <1>1 DEF RequestRow, States, Notes
<1>3. FinalityKept(req[r], row) /\ RowLinked(row, dep[r].status)
  BY <1>1 DEF BeginGoldcoinRefund, Parked, FinalityKept, RowLinked, RequestRow, PostFinality
<1>4. req' = [req EXCEPT ![r] = row] /\ UNCHANGED <<glcPaused, orch, chainVars, clock>>
  BY DEF BeginGoldcoinRefund, Parked
<1> QED
  BY <1>2, <1>3, <1>4, RowStep

\* Signing a refund keeps the request in RefundPending.
LEMMA SignRefundStep ==
  ASSUME IInv, NEW r \in Requests, RecordGoldcoinRefundSigned(r)
  PROVE  StepOK
<1> DEFINE row == [req[r] EXCEPT !.refund = "Signed"]
<1>1. req[r] \in RequestRow /\ RowLinked(req[r], dep[r].status)
  BY DEF IInv, RowsTyped, ServiceTypeOK, RowsLinked
<1>2. row \in RequestRow
  BY <1>1 DEF RequestRow, States, Notes
<1>3. FinalityKept(req[r], row) /\ RowLinked(row, dep[r].status)
  BY <1>1 DEF RecordGoldcoinRefundSigned, FinalityKept, RowLinked, RequestRow, PostFinality
<1>4. req' = [req EXCEPT ![r] = row] /\ UNCHANGED <<glcPaused, orch, chainVars, clock>>
  BY DEF RecordGoldcoinRefundSigned
<1> QED
  BY <1>2, <1>3, <1>4, RowStep

\* A broadcast refund.
LEMMA RefundBroadcastStep ==
  ASSUME IInv, NEW r \in Requests, RecordGoldcoinRefundBroadcast(r)
  PROVE  StepOK
<1> DEFINE row == [req[r] EXCEPT !.state = "RefundBroadcast", !.refund = "Broadcast"]
<1>1. req[r] \in RequestRow /\ RowLinked(req[r], dep[r].status)
  BY DEF IInv, RowsTyped, ServiceTypeOK, RowsLinked
<1>2. row \in RequestRow
  BY <1>1 DEF RequestRow, States, Notes
<1>3. FinalityKept(req[r], row) /\ RowLinked(row, dep[r].status)
  BY <1>1 DEF RecordGoldcoinRefundBroadcast, FinalityKept, RowLinked, RequestRow, PostFinality
<1>4. req' = [req EXCEPT ![r] = row] /\ UNCHANGED <<glcPaused, orch, chainVars, clock>>
  BY DEF RecordGoldcoinRefundBroadcast
<1> QED
  BY <1>2, <1>3, <1>4, RowStep

\* A confirmed refund.
LEMMA RefundConfirmedStep ==
  ASSUME IInv, NEW r \in Requests, RecordGoldcoinRefundConfirmed(r)
  PROVE  StepOK
<1> DEFINE row == [req[r] EXCEPT !.state = "Refunded", !.refund = "Refunded"]
<1>1. req[r] \in RequestRow /\ RowLinked(req[r], dep[r].status)
  BY DEF IInv, RowsTyped, ServiceTypeOK, RowsLinked
<1>2. row \in RequestRow
  BY <1>1 DEF RequestRow, States, Notes
<1>3. FinalityKept(req[r], row) /\ RowLinked(row, dep[r].status)
  BY <1>1 DEF RecordGoldcoinRefundConfirmed, FinalityKept, RowLinked, RequestRow, PostFinality
<1>4. req' = [req EXCEPT ![r] = row] /\ UNCHANGED <<glcPaused, orch, chainVars, clock>>
  BY DEF RecordGoldcoinRefundConfirmed
<1> QED
  BY <1>2, <1>3, <1>4, RowStep

\* The expiry sweep and a rollback touch only rows that are not final.
LEMMA BulkStep ==
  ASSUME IInv, NEW S \in SUBSET Requests, NEW to \in {"Expired", "AwaitingDeposit"},
         \A r \in S : req[r].state \in {"AwaitingDeposit", "Confirming"},
         req' = [r \in Requests |->
                   IF r \in S THEN [req[r] EXCEPT !.state = to] ELSE req[r]],
         UNCHANGED <<glcPaused, orch, chainVars, clock>>
  PROVE  StepOK
<1>1. ASSUME NEW r \in Requests
      PROVE  /\ req'[r] \in RequestRow
             /\ FinalityKept(req[r], req'[r])
             /\ RowLinked(req'[r], dep[r].status)
  <2>1. req[r] \in RequestRow /\ RowLinked(req[r], dep[r].status)
    BY DEF IInv, RowsTyped, ServiceTypeOK, RowsLinked
  <2>2. CASE r \in S
    <3> DEFINE row == [req[r] EXCEPT !.state = to]
    <3>1. row \in RequestRow
      BY <2>1 DEF RequestRow, States
    <3>2. FinalityKept(req[r], row) /\ RowLinked(row, dep[r].status)
      BY <2>1, <2>2 DEF FinalityKept, RowLinked, RequestRow, PostFinality
    <3> QED
      BY <2>2, <3>1, <3>2
  <2>3. CASE r \notin S
    BY <2>1, <2>3 DEF FinalityKept
  <2> QED
    BY <2>2, <2>3
<1>2. req' \in [Requests -> RequestRow]
  BY <1>1
<1>3. RowsTyped'
  BY <1>2 DEF IInv, RowsTyped, ServiceTypeOK, ChainTypeOK, chainVars
<1>4. RowsLinked'
  BY <1>1 DEF RowsLinked, chainVars
<1>5. ReleasesLinked'
  BY <1>1, <1>2, ReleasesStayLinked DEF chainVars
<1> QED
  BY <1>1, <1>3, <1>4, <1>5 DEF IInv, StepOK

\* submit_release records the attestation of a finalized request.
LEMMA AttestStep ==
  ASSUME IInv, NEW r \in Requests, AttestRelease(r)
  PROVE  StepOK
<1> DEFINE row == [req[r] EXCEPT !.attested = TRUE]
<1>1. req[r] \in RequestRow /\ RowLinked(req[r], dep[r].status)
  BY DEF IInv, RowsTyped, ServiceTypeOK, RowsLinked
<1>2. row \in RequestRow
  BY <1>1 DEF RequestRow
<1>3. row.finalized /\ row.net = req[r].net /\ RowLinked(row, dep[r].status)
  BY <1>1 DEF AttestRelease, RowLinked, RequestRow
<1>4. req' = [req EXCEPT ![r] = row] /\ orch' = [step |-> "attested", req |-> r]
      /\ UNCHANGED <<glcPaused, chainVars, clock>>
  BY DEF AttestRelease
<1> HIDE DEF row
<1>5. req' \in [Requests -> RequestRow] /\ req'[r] = row
      /\ \A q \in Requests : q # r => req'[q] = req[q]
  BY <1>2, <1>4 DEF IInv, RowsTyped, ServiceTypeOK
<1>6. RowsTyped'
  BY <1>4, <1>5 DEF IInv, RowsTyped, ServiceTypeOK, ChainTypeOK, chainVars
<1>7. RowsLinked'
  BY <1>3, <1>4, <1>5 DEF IInv, RowsLinked, chainVars
<1>8. ReleasesLinked'
  BY <1>3, <1>4, <1>5 DEF IInv, RowsTyped, ChainTypeOK, ReleasesLinked, chainVars
<1> QED
  BY <1>3, <1>5, <1>6, <1>7, <1>8 DEF IInv, StepOK, FinalityKept

\* A request is marked submitted only from SourceFinalized.
LEMMA SubmittedStep ==
  ASSUME IInv, RecordReleaseSubmitted
  PROVE  StepOK
<1> DEFINE r == orch.req
           row == [req[r] EXCEPT !.state = "DestinationSubmitted", !.sig = orch.tx]
<1>1. r \in Requests /\ orch.tx \in Nat
  BY DEF IInv, RowsTyped, ServiceTypeOK, RecordReleaseSubmitted, Idle
<1>2. req[r] \in RequestRow /\ RowLinked(req[r], dep[r].status)
  BY <1>1 DEF IInv, RowsTyped, ServiceTypeOK, RowsLinked
<1>3. orch' = Idle /\ UNCHANGED <<glcPaused, chainVars, clock>>
  BY DEF RecordReleaseSubmitted
<1>4. CASE req[r].state = "SourceFinalized"
  <2>1. row \in RequestRow
    BY <1>1, <1>2 DEF RequestRow, States
  <2>2. row.finalized /\ row.net = req[r].net /\ RowLinked(row, dep[r].status)
    BY <1>1, <1>2, <1>4 DEF RowLinked, RequestRow, PostFinality
  <2>3. req' = [req EXCEPT ![r] = row]
    BY <1>4 DEF RecordReleaseSubmitted
  <2> HIDE DEF row, r
  <2>4. req' \in [Requests -> RequestRow] /\ req'[r] = row
        /\ \A q \in Requests : q # r => req'[q] = req[q]
    BY <1>1, <2>1, <2>3 DEF IInv, RowsTyped, ServiceTypeOK
  <2>5. RowsTyped'
    BY <1>3, <2>4 DEF IInv, RowsTyped, ServiceTypeOK, ChainTypeOK, chainVars
  <2>6. RowsLinked'
    BY <1>3, <2>2, <2>4 DEF IInv, RowsLinked, chainVars
  <2>7. ReleasesLinked'
    BY <1>3, <2>2, <2>4 DEF IInv, RowsTyped, ChainTypeOK, ReleasesLinked, chainVars
  <2> QED
    BY <2>2, <2>4, <2>5, <2>6, <2>7 DEF IInv, StepOK, FinalityKept
<1>5. CASE req[r].state # "SourceFinalized"
  <2>1. req' = req
    BY <1>5 DEF RecordReleaseSubmitted
  <2> QED
    BY <1>3, <2>1 DEF IInv, RowsTyped, ServiceTypeOK, ChainTypeOK, RowsLinked,
                      ReleasesLinked, chainVars, StepOK, FinalityKept
<1> QED
  BY <1>4, <1>5

\* A stopped or failed submission leaves the rows as they are.
LEMMA AbandonStep ==
  ASSUME IInv, AbandonRelease
  PROVE  StepOK
BY DEF AbandonRelease, IInv, RowsTyped, ServiceTypeOK, ChainTypeOK, RowsLinked,
       ReleasesLinked, chainVars, StepOK, FinalityKept

\* What is sent is for the net of the finalized request in hand.
LEMMA SendStep ==
  ASSUME IInv, SendRelease
  PROVE  StepOK
<1> DEFINE r == orch.req
           t == [req |-> r, tx |-> sends[r] + 1, amount |-> req[r].net]
<1>1. r \in Requests /\ orch # Idle
  BY DEF IInv, RowsTyped, ServiceTypeOK, SendRelease, Idle
<1>2. req[r] \in RequestRow /\ sends[r] \in Nat /\ req[r].finalized
  BY <1>1 DEF IInv, RowsTyped, ServiceTypeOK, ChainTypeOK, ReleasesLinked
<1>3. t \in [req : Requests, tx : Nat, amount : Nat]
  BY <1>1, <1>2 DEF RequestRow
<1>4. inflight' = inflight \union {t} /\ sends' = [sends EXCEPT ![r] = @ + 1]
      /\ orch' = [step |-> "sent", req |-> r, tx |-> sends[r] + 1]
      /\ UNCHANGED <<req, glcPaused, dep, refundTx, landed, retained, solBalance, limit, clock>>
  BY DEF SendRelease
<1>5. ServiceTypeOK'
  BY <1>1, <1>2, <1>4 DEF IInv, RowsTyped, ServiceTypeOK
<1>6. ChainTypeOK'
  BY <1>1, <1>2, <1>3, <1>4 DEF IInv, RowsTyped, ChainTypeOK
<1>7. RowsLinked'
  BY <1>4 DEF IInv, RowsLinked
<1>8. ReleasesLinked'
  BY <1>1, <1>2, <1>4 DEF IInv, ReleasesLinked
<1> QED
  BY <1>4, <1>5, <1>6, <1>7, <1>8 DEF IInv, RowsTyped, StepOK, FinalityKept

\* A release that lands stays linked to the request it was sent for.
LEMMA LandStep ==
  ASSUME IInv, NEW t \in inflight, LandRelease(t) \/ DropRelease(t)
  PROVE  StepOK
<1>1. t \in [req : Requests, tx : Nat, amount : Nat]
  BY DEF IInv, RowsTyped, ChainTypeOK
<1>2. CASE LandRelease(t)
  <2>1. solBalance' \in Nat
    BY <1>1, <1>2, ConfigAssumption DEF LandRelease, IInv, RowsTyped, ChainTypeOK
  <2>2. landed' \in [Requests -> [tx : Nat, amount : Nat]]
    BY <1>1, <1>2 DEF LandRelease, IInv, RowsTyped, ChainTypeOK
  <2>3. RowsTyped'
    BY <1>1, <1>2, <2>1, <2>2 DEF LandRelease, IInv, RowsTyped, ServiceTypeOK, ChainTypeOK
  <2>4. RowsLinked'
    BY <1>2 DEF LandRelease, IInv, RowsLinked
  <2>5. ReleasesLinked'
    BY <1>1, <1>2 DEF LandRelease, IInv, RowsTyped, ChainTypeOK, ReleasesLinked
  <2> QED
    BY <1>2, <2>3, <2>4, <2>5 DEF IInv, LandRelease, StepOK, FinalityKept
<1>3. CASE DropRelease(t)
  BY <1>3 DEF DropRelease, IInv, RowsTyped, ServiceTypeOK, ChainTypeOK, RowsLinked,
              ReleasesLinked, StepOK, FinalityKept
<1> QED
  BY <1>2, <1>3

\* A deposit moves on its chain: a final one can only be reversed.
LEMMA DepositStep ==
  ASSUME IInv, NEW r \in Requests, NEW d,
         d \in [status : {"none", "mined", "deep", "spent", "reversed"}, exact : BOOLEAN],
         dep' = [dep EXCEPT ![r] = d],
         dep[r].status \in {"deep", "reversed"} /\ req[r].finalized => d.status = "reversed",
         UNCHANGED <<req, glcPaused, orch, refundTx, inflight, sends, landed,
                     retained, solBalance, limit, clock>>
  PROVE  StepOK
<1>1. RowsTyped'
  BY DEF IInv, RowsTyped, ServiceTypeOK, ChainTypeOK
<1>2. RowsLinked'
  <2> SUFFICES ASSUME NEW q \in Requests PROVE RowLinked(req[q], dep'[q].status)
    BY DEF RowsLinked
  <2>1. RowLinked(req[q], dep[q].status)
    BY DEF IInv, RowsLinked
  <2>2. dep'[q] = IF q = r THEN d ELSE dep[q]
    BY DEF IInv, RowsTyped, ChainTypeOK
  <2> QED
    BY <2>1, <2>2 DEF RowLinked
<1>3. ReleasesLinked'
  BY DEF IInv, ReleasesLinked
<1> QED
  BY <1>1, <1>2, <1>3 DEF IInv, StepOK, FinalityKept

\* Every move of a request's deposit.
LEMMA ChainMoves ==
  ASSUME IInv, NEW r \in Requests, ChainStep(r)
  PROVE  StepOK
<1>0. dep[r] \in [status : {"none", "mined", "deep", "spent", "reversed"}, exact : BOOLEAN]
      /\ RowLinked(req[r], dep[r].status) /\ req[r] \in RequestRow
  BY DEF IInv, RowsTyped, ServiceTypeOK, ChainTypeOK, RowsLinked
<1>1. ASSUME NEW exact \in BOOLEAN, MineDeposit(r, exact) PROVE StepOK
  <2> DEFINE d == [status |-> "mined", exact |-> exact]
  <2>1. d \in [status : {"none", "mined", "deep", "spent", "reversed"}, exact : BOOLEAN]
    OBVIOUS
  <2> QED
    BY <1>0, <1>1, <2>1, DepositStep DEF MineDeposit
<1>2. ASSUME NEW from \in {"mined", "deep"}, NEW to \in {"none", "deep", "spent", "reversed"},
             DepositMoves(r, from, to),
             from = "deep" /\ req[r].finalized => to = "reversed"
      PROVE  StepOK
  <2> DEFINE d == [dep[r] EXCEPT !.status = to]
  <2>1. d \in [status : {"none", "mined", "deep", "spent", "reversed"}, exact : BOOLEAN]
        /\ d.status = to
    BY <1>0
  <2>2. dep' = [dep EXCEPT ![r] = d] /\ dep[r].status = from
        /\ UNCHANGED <<req, glcPaused, orch, refundTx, inflight, sends, landed,
                       retained, solBalance, limit, clock>>
    BY <1>2 DEF DepositMoves
  <2> QED
    BY <1>2, <2>1, <2>2, DepositStep
<1>3. ASSUME ForgetSignature(r) PROVE StepOK
  BY <1>3, FrameStep DEF ForgetSignature, IInv, RowsTyped, ServiceTypeOK, ChainTypeOK
<1>4. CASE SpendDeposit(r)
  BY <1>0, <1>2, <1>4 DEF SpendDeposit, RowLinked, PostFinality
<1> QED
  BY <1>1, <1>2, <1>3, <1>4 DEF ChainStep, BuryDeposit, OrphanDeposit, ReverseDeposit

\* The steps that touch neither rows nor releases.
LEMMA OtherSteps ==
  ASSUME IInv,
         \/ RecordPostFinalityReorg \/ Reconcile \/ Tick
         \/ \E r \in Requests : BroadcastRefund(r)
         \/ \E b \in BOOLEAN : SetSolanaPaused(b) \/ SetGoldcoinPaused(b)
         \/ \E a \in Amounts : FundReserve(a) \/ WithdrawTreasury(a)
         \/ \E l \in Limits : SetLimit(l)
  PROVE  StepOK
<1> USE DEF IInv, RowsTyped, ServiceTypeOK, ChainTypeOK, chainVars
<1>1. CASE RecordPostFinalityReorg
  BY <1>1, FrameStep DEF RecordPostFinalityReorg, PauseGoldcoinOnReorg, PauseSolanaOnReorg
<1>2. CASE Reconcile
  BY <1>2, FrameStep DEF Reconcile
<1>3. CASE Tick
  BY <1>3, FrameStep DEF Tick
<1>4. CASE \E r \in Requests : BroadcastRefund(r)
  BY <1>4, FrameStep DEF BroadcastRefund
<1>5. CASE \E b \in BOOLEAN : SetSolanaPaused(b) \/ SetGoldcoinPaused(b)
  BY <1>5, FrameStep DEF SetSolanaPaused, SetGoldcoinPaused
<1>6. CASE \E a \in Amounts : FundReserve(a) \/ WithdrawTreasury(a)
  <2>1. solBalance' \in Nat
    BY <1>6, AmountsAssumption, ConfigAssumption DEF FundReserve, WithdrawTreasury
  <2> QED
    BY <1>6, <2>1, FrameStep DEF FundReserve, WithdrawTreasury
<1>7. CASE \E l \in Limits : SetLimit(l)
  BY <1>7, FrameStep, LimitsAssumption DEF SetLimit, Limits
<1> QED
  BY <1>1, <1>2, <1>3, <1>4, <1>5, <1>6, <1>7

\* An empty ledger has nothing linked.
LEMMA InitIInv == Init => IInv
<1> SUFFICES ASSUME Init PROVE IInv
  OBVIOUS
<1>1. NoRequest \in RequestRow
  BY DEF NoRequest, RequestRow, States, Notes
<1>2. ServiceTypeOK
  BY <1>1 DEF Init, ServiceTypeOK
<1>3. ChainTypeOK
  BY ConfigAssumption, LimitsAssumption DEF Init, Limits, ChainTypeOK
<1>4. RowsLinked
  BY DEF Init, RowsLinked, RowLinked, NoRequest
<1>5. ReleasesLinked
  BY DEF Init, ReleasesLinked
<1> QED
  BY <1>2, <1>3, <1>4, <1>5 DEF IInv, RowsTyped

\* Every step of Next keeps the invariant.
LEMMA NextOK == IInv /\ [Next]_vars => StepOK
<1> SUFFICES ASSUME IInv, [Next]_vars PROVE StepOK
  OBVIOUS
<1>1. ASSUME NEW r \in Requests, RequestStep(r) PROVE StepOK
  <2>1. ASSUME RecordGlcDepositObserved(r) PROVE StepOK
    BY <2>1, LateStep, MismatchStep, LockStep DEF RecordGlcDepositObserved
  <2> QED
    BY <1>1, <2>1, CreateStep, FinalizeStep, SpentStep, ParkStep, AttestStep, ConfirmStep
       DEF RequestStep
<1>2. ASSUME NEW r \in Requests, OperatorStep(r) PROVE StepOK
  BY <1>2, ResumeStep, HoldStep, ClearHoldStep, DecisionStep, CloseStep, BeginRefundStep,
     SignRefundStep, OtherSteps, RefundBroadcastStep, RefundConfirmedStep DEF OperatorStep
<1>3. ASSUME ServiceStep PROVE StepOK
  <2>1. CASE ExpireReservations
    <3> DEFINE S == {r \in Requests : Expirable(r)}
    <3>1. \A r \in S : req[r].state \in {"AwaitingDeposit", "Confirming"}
      BY DEF Expirable
    <3> QED
      BY <2>1, <3>1, BulkStep DEF ExpireReservations
  <2>2. CASE GoldcoinRollbackReorg
    <3> DEFINE S == {r \in Requests : Orphaned(r)}
    <3>1. \A r \in S : req[r].state \in {"AwaitingDeposit", "Confirming"}
      BY DEF Orphaned
    <3> QED
      BY <2>2, <3>1, BulkStep DEF GoldcoinRollbackReorg
  <2> QED
    BY <1>3, <2>1, <2>2, SendStep, SubmittedStep, AbandonStep, OtherSteps DEF ServiceStep
<1>4. CASE UNCHANGED vars
  BY <1>4 DEF vars, IInv, RowsTyped, ServiceTypeOK, ChainTypeOK, RowsLinked, ReleasesLinked,
              StepOK, FinalityKept
<1>5. CASE Next
  BY <1>1, <1>2, <1>3, <1>5, ChainMoves, LandStep, OtherSteps DEF Next
<1> QED
  BY <1>4, <1>5

\* The inductive invariant holds in every reachable state.
THEOREM Linked == Spec => []IInv
<1>1. IInv /\ [Next]_vars => IInv'
  BY NextOK DEF StepOK
<1> QED
  BY <1>1, InitIInv, PTL DEF Spec

\* Whatever reorgs, requotes, restarts and resubmissions came before, a
\* landed release (release_from_reserve) stands for a deposit that reached
\* the confirmation depth and pays the net of its request.
THEOREM ReleasedIsFinal == Spec => []ReleasedForFinalDeposit
<1>1. IInv => ReleasedForFinalDeposit
  BY DEF IInv, RowsLinked, ReleasesLinked, RowLinked, ReleasedForFinalDeposit, PostFinality
<1> QED
  BY <1>1, Linked, PTL

\* No request ever has both a submitted release and a refund row
\* (record_release_submitted, begin_goldcoin_refund, resume).
THEOREM NeverBoth == Spec => []SubmittedOrRefunded
<1>1. IInv => SubmittedOrRefunded
  BY DEF IInv, RowsTyped, ServiceTypeOK, RequestRow, RowsLinked, RowLinked, SubmittedOrRefunded
<1> QED
  BY <1>1, Linked, PTL

\* No ledger transaction takes a finalized request back before finality
\* (goldcoin_rollback_reorg, expire_reservations, observation).
THEOREM FinalityKeptForEver == Spec => FinalityIsOneWay
<1>1. IInv /\ [Next]_vars =>
        [\A r \in Requests : req[r].finalized =>
           req'[r].state \notin {"Absent", "AwaitingDeposit", "Confirming", "Expired"}]_vars
  <2> SUFFICES ASSUME IInv, [Next]_vars, NEW r \in Requests, req[r].finalized
               PROVE  req'[r].state \notin {"Absent", "AwaitingDeposit", "Confirming", "Expired"}
    OBVIOUS
  <2>1. IInv' /\ req'[r].finalized
    BY NextOK DEF StepOK, FinalityKept
  <2> QED
    BY <2>1 DEF IInv, RowsLinked, RowLinked, PostFinality
<1> QED
  BY <1>1, Linked, PTL DEF Spec, FinalityIsOneWay

-----------------------------------------------------------------------------
(* The counters of the reserve row.                                         *)

\* What one row contributes to reserved_liquidity and to pending_obligations.
Holding(row) ==
  /\ row.state \notin {"Absent", "Expired", "Settled", "Refunded"}
  /\ row.note # "late_deposit_no_capacity"
Held(row) == IF Holding(row) THEN row.net ELSE 0

Owing(row) == row.finalized /\ row.state # "Settled"
Owed(row) == IF Owing(row) THEN row.net ELSE 0

\* The two sums, as state functions.
HeldTotal == NetOf(Reserving)
OwedTotal == NetOf(Pending)

\* What the note of a row says of its reservation: only a review, and what
\* follows one, has a note, and a late deposit without capacity has no refund
\* and was never final.
RowNoted(row) ==
  /\ row.state \in {"Absent", "AwaitingDeposit", "Expired", "Confirming", "SourceFinalized",
                    "DestinationSubmitted", "Settled"} => row.note = "none"
  /\ row.refund # "none" => row.note # "late_deposit_no_capacity"
  /\ row.finalized => row.note # "late_deposit_no_capacity"

RowsNoted == \A r \in Requests : RowNoted(req[r])

CInv == ReserveTypeOK /\ RowsNoted /\ CountersMatchRequests

\* One rewritten row moves both sums by its own shares.
LEMMA SharesMove ==
  ASSUME req \in [Requests -> RequestRow], NEW r \in Requests, NEW row \in RequestRow,
         req' = [req EXCEPT ![r] = row]
  PROVE  /\ HeldTotal' + Held(req[r]) = HeldTotal + Held(row)
         /\ OwedTotal' + Owed(req[r]) = OwedTotal + Owed(row)
         /\ HeldTotal \in Nat /\ HeldTotal' \in Nat
         /\ OwedTotal \in Nat /\ OwedTotal' \in Nat
<1> DEFINE w == [q \in Requests |-> req[q].net]
           v == [q \in Requests |-> req'[q].net]
           A == Reserving
           B == {q \in Requests : Holding(req'[q])}
           C == Pending
           D == {q \in Requests : Owing(req'[q])}
<1>1. /\ req' \in [Requests -> RequestRow] /\ req'[r] = row
      /\ \A q \in Requests : q # r => req'[q] = req[q]
  OBVIOUS
<1>2. A = {q \in Requests : Holding(req[q])} /\ C = {q \in Requests : Owing(req[q])}
  BY DEF Reserving, Pending, Holding, Owing
<1>3. (\A q \in Requests : w[q] \in Nat /\ v[q] \in Nat) /\ w[r] = req[r].net /\ v[r] = row.net
      /\ \A q \in Requests : q # r => w[q] = v[q]
  BY <1>1 DEF RequestRow
<1>4. HeldTotal' = SumOver(v, B) /\ OwedTotal' = SumOver(v, D)
      /\ HeldTotal = SumOver(w, A) /\ OwedTotal = SumOver(w, C)
  BY DEF HeldTotal, OwedTotal, NetOf, Reserving, Pending, Holding, Owing
<1>5. IsFiniteSet(A) /\ IsFiniteSet(C)
  BY <1>2, FS_Subset, RequestsAssumption
<1>6. A \ {r} = B \ {r} /\ C \ {r} = D \ {r}
  BY <1>1, <1>2
<1>7. Held(req[r]) = (IF r \in A THEN w[r] ELSE 0) /\ Held(row) = (IF r \in B THEN v[r] ELSE 0)
      /\ Owed(req[r]) = (IF r \in C THEN w[r] ELSE 0) /\ Owed(row) = (IF r \in D THEN v[r] ELSE 0)
  BY <1>1, <1>2, <1>3 DEF Held, Owed
<1>a. (\A q \in A : w[q] \in Nat) /\ (\A q \in B : v[q] \in Nat)
      /\ (\A q \in C : w[q] \in Nat) /\ (\A q \in D : v[q] \in Nat)
      /\ (\A q \in A \ {r} : w[q] = v[q]) /\ (\A q \in C \ {r} : w[q] = v[q])
  BY <1>2, <1>3
<1>b. AgreeBut(w, v, A, B, r) /\ AgreeBut(w, v, C, D, r)
  <2> HIDE DEF w, v, A, B, C, D
  <2> QED
    BY <1>5, <1>6, <1>a DEF AgreeBut
<1> HIDE DEF w, v, A, B, C, D
<1>8. MovesBy(w, v, A, B, r) /\ MovesBy(w, v, C, D, r)
  BY ONLY <1>b, SumMovesBy
<1> QED
  BY <1>4, <1>7, <1>8 DEF MovesBy

\* A transaction that rewrites one row and moves the counters by its shares.
LEMMA BookedRow ==
  ASSUME IInv, CInv, NEW r \in Requests, NEW row \in RequestRow,
         req' = [req EXCEPT ![r] = row], RowNoted(row),
         reserve'.reserved = reserve.reserved + Held(row) - Held(req[r]),
         reserve'.pending = reserve.pending + Owed(row) - Owed(req[r]),
         ReserveTypeOK'
  PROVE  CInv'
<1>1. req \in [Requests -> RequestRow] /\ req[r] \in RequestRow
  BY DEF IInv, RowsTyped, ServiceTypeOK
<1>2. /\ HeldTotal' + Held(req[r]) = HeldTotal + Held(row)
      /\ OwedTotal' + Owed(req[r]) = OwedTotal + Owed(row)
      /\ HeldTotal \in Nat /\ HeldTotal' \in Nat
      /\ OwedTotal \in Nat /\ OwedTotal' \in Nat
  BY <1>1, SharesMove
<1>3. Held(row) \in Nat /\ Held(req[r]) \in Nat /\ Owed(row) \in Nat /\ Owed(req[r]) \in Nat
  BY <1>1 DEF Held, Owed, RequestRow
<1>4. reserve.reserved = HeldTotal /\ reserve.pending = OwedTotal
  BY DEF CInv, CountersMatchRequests, HeldTotal, OwedTotal
<1>5. reserve'.reserved = HeldTotal' /\ reserve'.pending = OwedTotal'
  BY <1>2, <1>3, <1>4
<1>6. CountersMatchRequests'
  BY <1>5 DEF CountersMatchRequests, HeldTotal, OwedTotal
<1>7. RowsNoted'
  BY <1>1 DEF CInv, RowsNoted
<1> QED
  BY <1>6, <1>7 DEF CInv

\* Most rewrites leave both shares, and the counters, alone.
LEMMA QuietRow ==
  ASSUME IInv, CInv, NEW r \in Requests, NEW row \in RequestRow,
         req' = [req EXCEPT ![r] = row], RowNoted(row),
         Held(row) = Held(req[r]), Owed(row) = Owed(req[r]),
         UNCHANGED <<reserve.reserved, reserve.pending>>, ReserveTypeOK'
  PROVE  CInv'
<1>1. req[r] \in RequestRow
  BY DEF IInv, RowsTyped, ServiceTypeOK
<1>2. Held(row) \in Nat /\ Owed(row) \in Nat
  BY DEF Held, Owed, RequestRow
<1>3. reserve.reserved \in Int /\ reserve.pending \in Int
  BY DEF CInv, ReserveTypeOK
<1>4. /\ reserve'.reserved = reserve.reserved + Held(row) - Held(req[r])
      /\ reserve'.pending = reserve.pending + Owed(row) - Owed(req[r])
  BY <1>2, <1>3
<1> QED
  BY <1>4, BookedRow

\* Steps that touch no row, and at most flag and balance of the reserve.
LEMMA BookFrame ==
  ASSUME CInv, UNCHANGED req, UNCHANGED <<reserve.reserved, reserve.pending>>, ReserveTypeOK'
  PROVE  CInv'
BY DEF CInv, RowsNoted, CountersMatchRequests, NetOf, Reserving, Pending

\* The rows of an admitted reservation: created, observed, made again, parked.
LEMMA AdmissionBooked ==
  ASSUME IInv, CInv, NEW r \in Requests,
         \/ \E net \in Amounts : CreateRequest(r, net)
         \/ RecordGlcDepositObserved(r)
  PROVE  CInv'
<1>0. req[r] \in RequestRow /\ RowLinked(req[r], dep[r].status) /\ RowNoted(req[r])
  BY DEF IInv, RowsTyped, ServiceTypeOK, RowsLinked, CInv, RowsNoted
<1>t. reserve \in [balance : Int, reserved : Int, pending : Int, settled : Int, paused : BOOLEAN]
  BY DEF CInv, ReserveTypeOK
<1>1. ASSUME NEW net \in Amounts, CreateRequest(r, net) PROVE CInv'
  <2> DEFINE row == [req[r] EXCEPT !.state = "AwaitingDeposit", !.net = net,
                                   !.expiry = clock + ReservationTtl]
  <2>a. net \in Nat /\ clock + ReservationTtl \in Nat
    BY AmountsAssumption, ConfigAssumption DEF IInv, RowsTyped, ServiceTypeOK
  <2>1. row \in RequestRow
    BY <1>0, <2>a DEF RequestRow, States, Notes
  <2>2. req' = [req EXCEPT ![r] = row] /\ reserve' = [reserve EXCEPT !.reserved = @ + net]
        /\ req[r].state = "Absent"
    BY <1>1 DEF CreateRequest
  <2>3. RowNoted(row) /\ Held(row) = net /\ Held(req[r]) = 0 /\ Owed(row) = 0 /\ Owed(req[r]) = 0
    BY <1>0, <2>2, <2>a DEF RowNoted, RowLinked, PostFinality, Held, Holding, Owed, Owing, RequestRow
  <2>4. ReserveTypeOK' /\ reserve'.reserved = reserve.reserved + net /\ reserve'.pending = reserve.pending
    BY <1>t, <2>2, <2>a DEF ReserveTypeOK
  <2>5. /\ reserve'.reserved = reserve.reserved + Held(row) - Held(req[r])
        /\ reserve'.pending = reserve.pending + Owed(row) - Owed(req[r])
    BY <1>t, <2>3, <2>4, <2>a
  <2> HIDE DEF row
  <2> QED
    BY <2>1, <2>2, <2>3, <2>4, <2>5, BookedRow
<1>2. ASSUME LateDepositNoCapacity(r) PROVE CInv'
  <2> DEFINE row == [req[r] EXCEPT !.state = "ManualReview",
                                   !.note = "late_deposit_no_capacity"]
  <2>1. row \in RequestRow
    BY <1>0 DEF RequestRow, States, Notes
  <2>2. req' = [req EXCEPT ![r] = row] /\ reserve' = reserve /\ req[r].state = "Expired"
    BY <1>2 DEF LateDepositNoCapacity
  <2>3. RowNoted(row) /\ Held(row) = Held(req[r]) /\ Owed(row) = Owed(req[r])
    BY <1>0, <2>2 DEF RowNoted, RowLinked, PostFinality, Held, Holding, Owed, Owing, RequestRow
  <2>4. ReserveTypeOK' /\ UNCHANGED <<reserve.reserved, reserve.pending>>
    BY <1>t, <2>2 DEF ReserveTypeOK
  <2> HIDE DEF row
  <2> QED
    BY <2>1, <2>2, <2>3, <2>4, QuietRow
<1>3. ASSUME AmountMismatch(r) PROVE CInv'
  <2> DEFINE row == [req[r] EXCEPT !.state = "ManualReview", !.note = "deposit_amount_mismatch",
                                   !.expiry = ExpiryOf(r)]
  <2>a. ExpiryOf(r) \in Nat /\ Rereserve(r) \in Nat
    BY <1>0 DEF ExpiryOf, Rereserve, RequestRow
  <2>1. row \in RequestRow
    BY <1>0, <2>a DEF RequestRow, States, Notes
  <2>2. req' = [req EXCEPT ![r] = row] /\ reserve' = [reserve EXCEPT !.reserved = @ + Rereserve(r)]
        /\ req[r].state \in {"AwaitingDeposit", "Expired"}
    BY <1>3 DEF AmountMismatch, Observable
  <2>3. RowNoted(row) /\ Held(row) = Held(req[r]) + Rereserve(r) /\ Owed(row) = 0 /\ Owed(req[r]) = 0
    BY <1>0, <2>2, <2>a DEF RowNoted, RowLinked, PostFinality, Held, Holding, Owed, Owing, RequestRow, Rereserve
  <2>4. ReserveTypeOK' /\ reserve'.reserved = reserve.reserved + Rereserve(r)
        /\ reserve'.pending = reserve.pending /\ Held(req[r]) \in Nat
    BY <1>0, <1>t, <2>2, <2>a DEF ReserveTypeOK, Held, RequestRow
  <2>5. /\ reserve'.reserved = reserve.reserved + Held(row) - Held(req[r])
        /\ reserve'.pending = reserve.pending + Owed(row) - Owed(req[r])
    BY <1>t, <2>3, <2>4, <2>a
  <2> HIDE DEF row
  <2> QED
    BY <2>1, <2>2, <2>3, <2>4, <2>5, BookedRow
<1>4. ASSUME NEW struck \in Amounts, NEW rate, NEW gate, LockAndObserve(r, struck, rate, gate)
      PROVE  CInv'
  <2> DEFINE net == LockedNet(r, struck, rate)
             note == ParkReason(r, struck, rate, gate)
             state == IF note = "none" THEN "Confirming" ELSE "ManualReview"
             hold == IF gate = "burst" THEN "held" ELSE req[r].hold
             row == [req[r] EXCEPT !.state = state, !.net = net, !.note = note,
                                   !.expiry = ExpiryOf(r), !.hold = hold]
  <2>a. ExpiryOf(r) \in Nat /\ Rereserve(r) \in Nat /\ struck \in Nat
    BY <1>0, AmountsAssumption DEF ExpiryOf, Rereserve, RequestRow
  <2>b. /\ net \in Nat
        /\ note \in Notes \ {"late_deposit_no_capacity"}
        /\ state \in {"Confirming", "ManualReview"} /\ (state = "Confirming" => note = "none")
        /\ hold \in {"none", "held", "refund"}
    BY <1>0, <2>a DEF LockedNet, ParkReason, Notes, RequestRow
  <2>2. req' = [req EXCEPT ![r] = row]
        /\ reserve' = [reserve EXCEPT !.reserved = @ + Rereserve(r) + (net - req[r].net)]
        /\ req[r].state \in {"AwaitingDeposit", "Expired"}
    BY <1>4 DEF LockAndObserve, Observable
  <2> HIDE DEF net, note, state, hold
  <2>1. row \in RequestRow
    BY <1>0, <2>a, <2>b DEF RequestRow, States
  <2>3. RowNoted(row) /\ Held(row) = net /\ Held(req[r]) + Rereserve(r) = req[r].net
        /\ Owed(row) = 0 /\ Owed(req[r]) = 0 /\ Held(req[r]) \in Nat
    BY <1>0, <2>2, <2>a, <2>b DEF RowNoted, RowLinked, PostFinality, Held, Holding, Owed, Owing,
       RequestRow, Rereserve
  <2>4. ReserveTypeOK' /\ reserve'.reserved = reserve.reserved + Rereserve(r) + (net - req[r].net)
        /\ reserve'.pending = reserve.pending /\ req[r].net \in Nat
    BY <1>0, <1>t, <2>2, <2>a, <2>b DEF ReserveTypeOK, RequestRow
  <2>5. /\ reserve'.reserved = reserve.reserved + Held(row) - Held(req[r])
        /\ reserve'.pending = reserve.pending + Owed(row) - Owed(req[r])
    BY <1>t, <2>3, <2>4, <2>a, <2>b
  <2> HIDE DEF row
  <2> QED
    BY <2>1, <2>2, <2>3, <2>4, <2>5, BookedRow
<1> QED
  BY <1>1, <1>2, <1>3, <1>4 DEF RecordGlcDepositObserved

\* Finality adds an obligation, a settlement removes both shares, a confirmed
\* refund the reservation alone.
LEMMA SettlementBooked ==
  ASSUME IInv, CInv, NEW r \in Requests,
         MarkGlcSourceFinalized(r) \/ MarkReleaseConfirmed(r) \/ RecordGoldcoinRefundConfirmed(r)
  PROVE  CInv'
<1>0. req[r] \in RequestRow /\ RowLinked(req[r], dep[r].status) /\ RowNoted(req[r])
  BY DEF IInv, RowsTyped, ServiceTypeOK, RowsLinked, CInv, RowsNoted
<1>t. reserve \in [balance : Int, reserved : Int, pending : Int, settled : Int, paused : BOOLEAN]
  BY DEF CInv, ReserveTypeOK
<1>n. req[r].net \in Nat
  BY <1>0 DEF RequestRow
<1>1. ASSUME MarkGlcSourceFinalized(r) PROVE CInv'
  <2> DEFINE row == [req[r] EXCEPT !.state = "SourceFinalized", !.finalized = TRUE]
  <2>1. row \in RequestRow
    BY <1>0 DEF RequestRow, States, Notes
  <2>2. req' = [req EXCEPT ![r] = row] /\ reserve' = [reserve EXCEPT !.pending = @ + req[r].net]
        /\ req[r].state = "Confirming"
    BY <1>1 DEF MarkGlcSourceFinalized
  <2>3. RowNoted(row) /\ Held(row) = Held(req[r]) /\ Owed(row) = req[r].net /\ Owed(req[r]) = 0
        /\ Held(row) \in Nat
    BY <1>0, <2>2 DEF RowNoted, RowLinked, PostFinality, Held, Holding, Owed, Owing, RequestRow
  <2>4. ReserveTypeOK' /\ reserve'.reserved = reserve.reserved
        /\ reserve'.pending = reserve.pending + req[r].net
    BY <1>t, <1>n, <2>2 DEF ReserveTypeOK
  <2>5. /\ reserve'.reserved = reserve.reserved + Held(row) - Held(req[r])
        /\ reserve'.pending = reserve.pending + Owed(row) - Owed(req[r])
    BY <1>t, <1>n, <2>3, <2>4
  <2> HIDE DEF row
  <2> QED
    BY <2>1, <2>2, <2>3, <2>4, <2>5, BookedRow
<1>2. ASSUME MarkReleaseConfirmed(r) PROVE CInv'
  <2> DEFINE row == [req[r] EXCEPT !.state = "Settled"]
  <2>1. row \in RequestRow
    BY <1>0 DEF RequestRow, States, Notes
  <2>2. req' = [req EXCEPT ![r] = row] /\ req[r].state = "DestinationSubmitted"
        /\ reserve' = [reserve EXCEPT !.reserved = @ - req[r].net, !.pending = @ - req[r].net,
                                !.settled = @ + req[r].net, !.balance = @ - req[r].net]
    BY <1>2 DEF MarkReleaseConfirmed, Settle
  <2>3. RowNoted(row) /\ Held(row) = 0 /\ Held(req[r]) = req[r].net /\ Owed(row) = 0
        /\ Owed(req[r]) = req[r].net
    BY <1>0, <2>2 DEF RowNoted, RowLinked, PostFinality, Held, Holding, Owed, Owing, RequestRow
  <2>4. ReserveTypeOK' /\ reserve'.reserved = reserve.reserved - req[r].net
        /\ reserve'.pending = reserve.pending - req[r].net
    <3>1. reserve' = [balance |-> reserve.balance - req[r].net,
                      reserved |-> reserve.reserved - req[r].net,
                      pending |-> reserve.pending - req[r].net,
                      settled |-> reserve.settled + req[r].net, paused |-> reserve.paused]
      BY <1>t, <2>2
    <3>2. /\ reserve.balance - req[r].net \in Int /\ reserve.reserved - req[r].net \in Int
          /\ reserve.pending - req[r].net \in Int /\ reserve.settled + req[r].net \in Int
      BY <1>t, <1>n
    <3> QED
      BY <1>t, <3>1, <3>2 DEF ReserveTypeOK
  <2>5. /\ reserve'.reserved = reserve.reserved + Held(row) - Held(req[r])
        /\ reserve'.pending = reserve.pending + Owed(row) - Owed(req[r])
    BY <1>t, <1>n, <2>3, <2>4
  <2> HIDE DEF row
  <2> QED
    BY <2>1, <2>2, <2>3, <2>4, <2>5, BookedRow
<1>3. ASSUME RecordGoldcoinRefundConfirmed(r) PROVE CInv'
  <2> DEFINE row == [req[r] EXCEPT !.state = "Refunded", !.refund = "Refunded"]
  <2>1. row \in RequestRow
    BY <1>0 DEF RequestRow, States, Notes
  <2>2. req' = [req EXCEPT ![r] = row] /\ req[r].refund = "Broadcast"
        /\ reserve' = [reserve EXCEPT !.reserved = @ - req[r].net]
    BY <1>3 DEF RecordGoldcoinRefundConfirmed
  <2>3. RowNoted(row) /\ Held(row) = 0 /\ Held(req[r]) = req[r].net /\ Owed(row) = Owed(req[r])
        /\ Owed(row) \in Nat
    BY <1>0, <2>2 DEF RowNoted, RowLinked, PostFinality, Held, Holding, Owed, Owing, RequestRow
  <2>4. ReserveTypeOK' /\ reserve'.reserved = reserve.reserved - req[r].net
        /\ reserve'.pending = reserve.pending
    BY <1>t, <1>n, <2>2 DEF ReserveTypeOK
  <2>5. /\ reserve'.reserved = reserve.reserved + Held(row) - Held(req[r])
        /\ reserve'.pending = reserve.pending + Owed(row) - Owed(req[r])
    BY <1>t, <1>n, <2>3, <2>4
  <2> HIDE DEF row
  <2> QED
    BY <2>1, <2>2, <2>3, <2>4, <2>5, BookedRow
<1> QED
  BY <1>1, <1>2, <1>3

\* The rewrites that keep both shares: parks, resumes, holds, decisions,
\* closures, the attestation and the steps of a refund before its end.
LEMMA QuietSteps ==
  ASSUME IInv, CInv, NEW r \in Requests,
         \/ MarkGlcDepositSpentBeforeFinalized(r)
         \/ ParkForDestinationBounds(r)
         \/ AttestRelease(r)
         \/ ResumeDestinationBound(r)
         \/ SetManualReviewHold(r)
         \/ ClearManualReviewHold(r)
         \/ RecordOperatorDecision(r)
         \/ CloseManualReview(r)
         \/ BeginGoldcoinRefund(r)
         \/ RecordGoldcoinRefundSigned(r)
         \/ RecordGoldcoinRefundBroadcast(r)
  PROVE  CInv'
<1>0. req[r] \in RequestRow /\ RowLinked(req[r], dep[r].status) /\ RowNoted(req[r])
  BY DEF IInv, RowsTyped, ServiceTypeOK, RowsLinked, CInv, RowsNoted
<1>q. ASSUME NEW row \in RequestRow, req' = [req EXCEPT ![r] = row], reserve' = reserve,
             RowNoted(row) /\ Held(row) = Held(req[r]) /\ Owed(row) = Owed(req[r])
      PROVE  CInv'
  <2>1. ReserveTypeOK' /\ UNCHANGED <<reserve.reserved, reserve.pending>>
    BY <1>q DEF CInv, ReserveTypeOK
  <2> QED
    BY <1>q, <2>1, QuietRow
<1>1. CASE MarkGlcDepositSpentBeforeFinalized(r)
  <2> DEFINE row == [req[r] EXCEPT !.state = "ManualReview", !.note = "deposit_spent_before_finalized"]
  <2>1. row \in RequestRow
    BY <1>0 DEF RequestRow, States, Notes
  <2>2. req' = [req EXCEPT ![r] = row] /\ reserve' = reserve
    BY <1>1 DEF MarkGlcDepositSpentBeforeFinalized
  <2>3. RowNoted(row) /\ Held(row) = Held(req[r]) /\ Owed(row) = Owed(req[r])
    BY <1>0, <1>1 DEF MarkGlcDepositSpentBeforeFinalized, RowNoted, RowLinked, PostFinality, Held, Holding,
       Owed, Owing, RequestRow
  <2> HIDE DEF row
  <2> QED
    BY <1>q, <2>1, <2>2, <2>3
<1>2. CASE ParkForDestinationBounds(r)
  <2> DEFINE row == [req[r] EXCEPT !.state = "ManualReview", !.note = "destination_payout_out_of_bounds"]
  <2>1. row \in RequestRow
    BY <1>0 DEF RequestRow, States, Notes
  <2>2. req' = [req EXCEPT ![r] = row] /\ reserve' = reserve
    BY <1>2 DEF ParkForDestinationBounds
  <2>3. RowNoted(row) /\ Held(row) = Held(req[r]) /\ Owed(row) = Owed(req[r])
    BY <1>0, <1>2 DEF ParkForDestinationBounds, RowNoted, RowLinked, PostFinality, Held, Holding,
       Owed, Owing, RequestRow
  <2> HIDE DEF row
  <2> QED
    BY <1>q, <2>1, <2>2, <2>3
<1>3. CASE AttestRelease(r)
  <2> DEFINE row == [req[r] EXCEPT !.attested = TRUE]
  <2>1. row \in RequestRow
    BY <1>0 DEF RequestRow, States, Notes
  <2>2. req' = [req EXCEPT ![r] = row] /\ reserve' = reserve
    BY <1>3 DEF AttestRelease
  <2>3. RowNoted(row) /\ Held(row) = Held(req[r]) /\ Owed(row) = Owed(req[r])
    BY <1>0, <1>3 DEF AttestRelease, RowNoted, RowLinked, PostFinality, Held, Holding,
       Owed, Owing, RequestRow
  <2> HIDE DEF row
  <2> QED
    BY <1>q, <2>1, <2>2, <2>3
<1>4. CASE ResumeDestinationBound(r)
  <2> DEFINE row == [req[r] EXCEPT !.state = "SourceFinalized", !.note = "none"]
  <2>1. row \in RequestRow
    BY <1>0 DEF RequestRow, States, Notes
  <2>2. req' = [req EXCEPT ![r] = row] /\ reserve' = reserve
    BY <1>4 DEF ResumeDestinationBound
  <2>3. RowNoted(row) /\ Held(row) = Held(req[r]) /\ Owed(row) = Owed(req[r])
    BY <1>0, <1>4 DEF ResumeDestinationBound, Resumable, Parked, RowNoted, RowLinked, PostFinality, Held, Holding,
       Owed, Owing, RequestRow
  <2> HIDE DEF row
  <2> QED
    BY <1>q, <2>1, <2>2, <2>3
<1>5. CASE SetManualReviewHold(r)
  <2> DEFINE row == [req[r] EXCEPT !.hold = "held"]
  <2>1. row \in RequestRow
    BY <1>0 DEF RequestRow, States, Notes
  <2>2. req' = [req EXCEPT ![r] = row] /\ reserve' = reserve
    BY <1>5 DEF SetManualReviewHold
  <2>3. RowNoted(row) /\ Held(row) = Held(req[r]) /\ Owed(row) = Owed(req[r])
    BY <1>0, <1>5 DEF SetManualReviewHold, RowNoted, RowLinked, PostFinality, Held, Holding,
       Owed, Owing, RequestRow
  <2> HIDE DEF row
  <2> QED
    BY <1>q, <2>1, <2>2, <2>3
<1>6. CASE ClearManualReviewHold(r)
  <2> DEFINE row == [req[r] EXCEPT !.hold = "none"]
  <2>1. row \in RequestRow
    BY <1>0 DEF RequestRow, States, Notes
  <2>2. req' = [req EXCEPT ![r] = row] /\ reserve' = reserve
    BY <1>6 DEF ClearManualReviewHold
  <2>3. RowNoted(row) /\ Held(row) = Held(req[r]) /\ Owed(row) = Owed(req[r])
    BY <1>0, <1>6 DEF ClearManualReviewHold, RowNoted, RowLinked, PostFinality, Held, Holding,
       Owed, Owing, RequestRow
  <2> HIDE DEF row
  <2> QED
    BY <1>q, <2>1, <2>2, <2>3
<1>7. CASE RecordOperatorDecision(r)
  <2> DEFINE row == [req[r] EXCEPT !.hold = "refund"]
  <2>1. row \in RequestRow
    BY <1>0 DEF RequestRow, States, Notes
  <2>2. req' = [req EXCEPT ![r] = row] /\ reserve' = reserve
    BY <1>7 DEF RecordOperatorDecision
  <2>3. RowNoted(row) /\ Held(row) = Held(req[r]) /\ Owed(row) = Owed(req[r])
    BY <1>0, <1>7 DEF RecordOperatorDecision, RowNoted, RowLinked, PostFinality, Held, Holding,
       Owed, Owing, RequestRow
  <2> HIDE DEF row
  <2> QED
    BY <1>q, <2>1, <2>2, <2>3
<1>8. CASE CloseManualReview(r)
  <2> DEFINE row == [req[r] EXCEPT !.state = "Closed"]
  <2>1. row \in RequestRow
    BY <1>0 DEF RequestRow, States, Notes
  <2>2. req' = [req EXCEPT ![r] = row] /\ reserve' = reserve
    BY <1>8 DEF CloseManualReview
  <2>3. RowNoted(row) /\ Held(row) = Held(req[r]) /\ Owed(row) = Owed(req[r])
    BY <1>0, <1>8 DEF CloseManualReview, Parked, RowNoted, RowLinked, PostFinality, Held, Holding,
       Owed, Owing, RequestRow
  <2> HIDE DEF row
  <2> QED
    BY <1>q, <2>1, <2>2, <2>3
<1>9. CASE BeginGoldcoinRefund(r)
  <2> DEFINE row == [req[r] EXCEPT !.state = "RefundPending", !.refund = "Built"]
  <2>1. row \in RequestRow
    BY <1>0 DEF RequestRow, States, Notes
  <2>2. req' = [req EXCEPT ![r] = row] /\ reserve' = reserve
    BY <1>9 DEF BeginGoldcoinRefund
  <2>3. RowNoted(row) /\ Held(row) = Held(req[r]) /\ Owed(row) = Owed(req[r])
    BY <1>0, <1>9 DEF BeginGoldcoinRefund, Parked, RefundableReasons, RowNoted, RowLinked, PostFinality, Held, Holding,
       Owed, Owing, RequestRow
  <2> HIDE DEF row
  <2> QED
    BY <1>q, <2>1, <2>2, <2>3
<1>10. CASE RecordGoldcoinRefundSigned(r)
  <2> DEFINE row == [req[r] EXCEPT !.refund = "Signed"]
  <2>1. row \in RequestRow
    BY <1>0 DEF RequestRow, States, Notes
  <2>2. req' = [req EXCEPT ![r] = row] /\ reserve' = reserve
    BY <1>10 DEF RecordGoldcoinRefundSigned
  <2>3. RowNoted(row) /\ Held(row) = Held(req[r]) /\ Owed(row) = Owed(req[r])
    BY <1>0, <1>10 DEF RecordGoldcoinRefundSigned, RowNoted, RowLinked, PostFinality, Held, Holding,
       Owed, Owing, RequestRow
  <2> HIDE DEF row
  <2> QED
    BY <1>q, <2>1, <2>2, <2>3
<1>11. CASE RecordGoldcoinRefundBroadcast(r)
  <2> DEFINE row == [req[r] EXCEPT !.state = "RefundBroadcast", !.refund = "Broadcast"]
  <2>1. row \in RequestRow
    BY <1>0 DEF RequestRow, States, Notes
  <2>2. req' = [req EXCEPT ![r] = row] /\ reserve' = reserve
    BY <1>11 DEF RecordGoldcoinRefundBroadcast
  <2>3. RowNoted(row) /\ Held(row) = Held(req[r]) /\ Owed(row) = Owed(req[r])
    BY <1>0, <1>11 DEF RecordGoldcoinRefundBroadcast, RowNoted, RowLinked, PostFinality, Held, Holding,
       Owed, Owing, RequestRow
  <2> HIDE DEF row
  <2> QED
    BY <1>q, <2>1, <2>2, <2>3
<1> QED
  BY <1>1, <1>2, <1>3, <1>4, <1>5, <1>6, <1>7, <1>8, <1>9, <1>10, <1>11

\* record_release_submitted keeps the shares of a finalized request.
LEMMA SubmissionQuiet ==
  ASSUME IInv, CInv, RecordReleaseSubmitted
  PROVE  CInv'
<1> DEFINE r == orch.req
           row == [req[r] EXCEPT !.state = "DestinationSubmitted", !.sig = orch.tx]
<1>1. r \in Requests /\ orch.tx \in Nat
  BY DEF IInv, RowsTyped, ServiceTypeOK, RecordReleaseSubmitted, Idle
<1>2. req[r] \in RequestRow /\ RowLinked(req[r], dep[r].status) /\ RowNoted(req[r])
  BY <1>1 DEF IInv, RowsTyped, ServiceTypeOK, RowsLinked, CInv, RowsNoted
<1>3. reserve' = reserve
  BY DEF RecordReleaseSubmitted
<1>4. ReserveTypeOK' /\ UNCHANGED <<reserve.reserved, reserve.pending>>
  BY <1>3 DEF CInv, ReserveTypeOK
<1>5. CASE req[r].state = "SourceFinalized"
  <2>1. row \in RequestRow
    BY <1>1, <1>2 DEF RequestRow, States
  <2>2. req' = [req EXCEPT ![r] = row]
    BY <1>5 DEF RecordReleaseSubmitted
  <2>3. RowNoted(row) /\ Held(row) = Held(req[r]) /\ Owed(row) = Owed(req[r])
    BY <1>2, <1>5 DEF RowNoted, RowLinked, PostFinality, Held, Holding, Owed, Owing, RequestRow
  <2> HIDE DEF row, r
  <2> QED
    BY <1>1, <1>4, <2>1, <2>2, <2>3, QuietRow
<1>6. CASE req[r].state # "SourceFinalized"
  <2>1. req' = req
    BY <1>6 DEF RecordReleaseSubmitted
  <2> QED
    BY <1>4, <2>1, BookFrame
<1> QED
  BY <1>5, <1>6

\* The sweep: what is expired leaves the sum in one piece.
LEMMA ExpiryBooked ==
  ASSUME IInv, CInv, ExpireReservations
  PROVE  CInv'
<1> DEFINE due == {r \in Requests : Expirable(r)}
           w == [q \in Requests |-> req[q].net]
<1>1. /\ req' = [r \in Requests |->
                   IF r \in due THEN [req[r] EXCEPT !.state = "Expired"] ELSE req[r]]
      /\ reserve' = [reserve EXCEPT !.reserved = @ - NetOf(due)]
  BY DEF ExpireReservations
<1>2. \A r \in Requests : req[r] \in RequestRow /\ RowLinked(req[r], dep[r].status) /\ RowNoted(req[r])
  BY DEF IInv, RowsTyped, ServiceTypeOK, RowsLinked, CInv, RowsNoted
<1>3. \A r \in due : r \in Requests /\ req[r].state = "AwaitingDeposit"
  BY DEF Expirable
<1>4. \A r \in Requests : /\ RowNoted(req'[r]) /\ req'[r].net = req[r].net
                          /\ Owing(req'[r]) <=> Owing(req[r])
                          /\ Holding(req'[r]) <=> Holding(req[r]) /\ r \notin due
                          /\ r \in due => Holding(req[r])
  <2> SUFFICES ASSUME NEW r \in Requests
               PROVE  /\ RowNoted(req'[r]) /\ req'[r].net = req[r].net
                      /\ Owing(req'[r]) <=> Owing(req[r])
                      /\ Holding(req'[r]) <=> Holding(req[r]) /\ r \notin due
                      /\ r \in due => Holding(req[r])
    OBVIOUS
  <2>1. CASE r \in due
    <3>1. req'[r] = [req[r] EXCEPT !.state = "Expired"] /\ req[r].state = "AwaitingDeposit"
      BY <1>1, <1>3, <2>1
    <3>2. req[r] \in RequestRow /\ RowLinked(req[r], dep[r].status) /\ RowNoted(req[r])
      BY <1>2
    <3> HIDE DEF due
    <3> QED
      BY <2>1, <3>1, <3>2 DEF RowNoted, RowLinked, PostFinality, Owing, Holding, RequestRow
  <2>2. CASE r \notin due
    <3>1. req'[r] = req[r] /\ RowNoted(req[r])
      BY <1>1, <1>2, <2>2
    <3> HIDE DEF due
    <3> QED
      BY <2>2, <3>1
  <2> QED
    BY <2>1, <2>2
<1>5. Reserving' = Reserving \ due /\ Pending' = Pending /\ due \subseteq Reserving
  BY <1>4 DEF Reserving, Pending, Holding, Owing
<1>6. IsFiniteSet(Reserving) /\ (\A q \in Reserving : w[q] \in Nat) /\ Reserving \subseteq Requests
      /\ IsFiniteSet(Pending) /\ (\A q \in Pending : w[q] \in Nat) /\ Pending \subseteq Requests
  BY <1>2, FS_Subset, RequestsAssumption DEF Reserving, Pending, RequestRow
<1> DEFINE v == [q \in Requests |-> req'[q].net]
<1>7. v = w
  BY <1>4
<1>8. HeldTotal' = SumOver(v, Reserving') /\ OwedTotal' = SumOver(v, Pending')
      /\ HeldTotal = SumOver(w, Reserving) /\ OwedTotal = SumOver(w, Pending)
      /\ NetOf(due) = SumOver(w, due)
  BY DEF HeldTotal, OwedTotal, NetOf
<1> HIDE DEF w, v, due
<1>9. SumOver(w, Reserving) = SumOver(w, due) + SumOver(w, Reserving \ due)
  BY <1>5, <1>6, SumSplit
<1>10. SumOver(w, due) \in Nat /\ SumOver(w, Reserving \ due) \in Nat
  <2>1. IsFiniteSet(due) /\ IsFiniteSet(Reserving \ due) /\ (\A q \in due : w[q] \in Nat)
        /\ \A q \in Reserving \ due : w[q] \in Nat
    BY <1>5, <1>6, FS_Subset
  <2> QED
    BY <2>1, SumType
<1>11. HeldTotal' = HeldTotal - NetOf(due) /\ OwedTotal' = OwedTotal /\ NetOf(due) \in Nat
  BY <1>5, <1>7, <1>8, <1>9, <1>10
<1>12. ReserveTypeOK' /\ reserve'.reserved = reserve.reserved - NetOf(due)
       /\ reserve'.pending = reserve.pending
  BY <1>1, <1>11 DEF CInv, ReserveTypeOK
<1>13. CountersMatchRequests'
  BY <1>11, <1>12 DEF CInv, CountersMatchRequests, HeldTotal, OwedTotal
<1>14. RowsNoted'
  BY <1>4 DEF RowsNoted
<1> QED
  BY <1>12, <1>13, <1>14 DEF CInv

\* A rollback keeps every reservation, and none of its rows is final.
LEMMA RollbackQuiet ==
  ASSUME IInv, CInv, GoldcoinRollbackReorg
  PROVE  CInv'
<1> DEFINE hit == {r \in Requests : Orphaned(r)}
           w == [q \in Requests |-> req[q].net]
           v == [q \in Requests |-> req'[q].net]
<1>1. /\ req' = [r \in Requests |->
                   IF r \in hit THEN [req[r] EXCEPT !.state = "AwaitingDeposit"] ELSE req[r]]
      /\ reserve' = reserve
  BY DEF GoldcoinRollbackReorg
<1>2. \A r \in Requests : req[r] \in RequestRow /\ RowLinked(req[r], dep[r].status) /\ RowNoted(req[r])
  BY DEF IInv, RowsTyped, ServiceTypeOK, RowsLinked, CInv, RowsNoted
<1>3. \A r \in hit : req[r].state = "Confirming"
  BY DEF Orphaned
<1>4. \A r \in Requests : /\ RowNoted(req'[r]) /\ req'[r].net = req[r].net
                          /\ Owing(req'[r]) <=> Owing(req[r])
                          /\ Holding(req'[r]) <=> Holding(req[r])
  <2> SUFFICES ASSUME NEW r \in Requests
               PROVE  /\ RowNoted(req'[r]) /\ req'[r].net = req[r].net
                      /\ Owing(req'[r]) <=> Owing(req[r])
                      /\ Holding(req'[r]) <=> Holding(req[r])
    OBVIOUS
  <2>0. req[r] \in RequestRow /\ RowLinked(req[r], dep[r].status) /\ RowNoted(req[r])
    BY <1>2
  <2>1. CASE r \in hit
    <3>1. req'[r] = [req[r] EXCEPT !.state = "AwaitingDeposit"] /\ req[r].state = "Confirming"
      BY <1>1, <1>3, <2>1
    <3> HIDE DEF hit
    <3> QED
      BY <2>0, <3>1 DEF RowNoted, RowLinked, PostFinality, Owing, Holding, RequestRow
  <2>2. CASE r \notin hit
    BY <1>1, <2>0, <2>2
  <2> QED
    BY <2>1, <2>2
<1>5. Reserving' = Reserving /\ Pending' = Pending /\ v = w
  BY <1>4 DEF Reserving, Pending, Holding, Owing
<1>6. HeldTotal' = SumOver(v, Reserving') /\ OwedTotal' = SumOver(v, Pending')
      /\ HeldTotal = SumOver(w, Reserving) /\ OwedTotal = SumOver(w, Pending)
  BY DEF HeldTotal, OwedTotal, NetOf
<1>7. HeldTotal' = HeldTotal /\ OwedTotal' = OwedTotal
  BY <1>5, <1>6
<1>8. CountersMatchRequests'
  BY <1>1, <1>7 DEF CInv, CountersMatchRequests, HeldTotal, OwedTotal
<1>9. RowsNoted'
  BY <1>4 DEF RowsNoted
<1> QED
  BY <1>1, <1>8, <1>9 DEF CInv, ReserveTypeOK

\* Every other step leaves the rows alone.
LEMMA FramesBooked ==
  ASSUME IInv, CInv, UNCHANGED req,
         \/ reserve' = reserve
         \/ RecordPostFinalityReorg \/ Reconcile
         \/ \E b \in BOOLEAN : SetSolanaPaused(b)
  PROVE  CInv'
<1>1. ReserveTypeOK' /\ UNCHANGED <<reserve.reserved, reserve.pending>>
  <2>t. reserve \in [balance : Int, reserved : Int, pending : Int, settled : Int, paused : BOOLEAN]
        /\ solBalance \in Nat
    BY DEF CInv, ReserveTypeOK, IInv, RowsTyped, ChainTypeOK
  <2>1. CASE reserve' = reserve
    BY <2>1, <2>t DEF ReserveTypeOK
  <2>2. CASE RecordPostFinalityReorg
    BY <2>2, <2>t DEF RecordPostFinalityReorg, PauseGoldcoinOnReorg, PauseSolanaOnReorg, ReserveTypeOK
  <2>3. CASE Reconcile
    <3>1. PICK p \in BOOLEAN : reserve' = [reserve EXCEPT !.paused = p, !.balance = solBalance]
      <4>1. Breach \in BOOLEAN /\ reserve.paused \in BOOLEAN
        BY <2>t DEF Breach
      <4>2. (reserve.paused \/ Breach) \in BOOLEAN
        BY <4>1
      <4> QED
        BY <2>3, <4>2 DEF Reconcile
    <3>2. reserve' = [balance |-> solBalance, reserved |-> reserve.reserved,
                      pending |-> reserve.pending, settled |-> reserve.settled, paused |-> p]
      BY <2>t, <3>1
    <3>3. reserve.reserved \in Int /\ reserve.pending \in Int /\ reserve.settled \in Int
          /\ solBalance \in Int
      BY <2>t
    <3>4. ReserveTypeOK'
      BY <3>2, <3>3 DEF ReserveTypeOK
    <3>5. UNCHANGED <<reserve.reserved, reserve.pending>>
      BY <3>2
    <3> QED
      BY <3>4, <3>5
  <2>4. CASE \E b \in BOOLEAN : SetSolanaPaused(b)
    BY <2>4, <2>t DEF SetSolanaPaused, ReserveTypeOK
  <2> QED
    BY <2>1, <2>2, <2>3, <2>4
<1> QED
  BY <1>1, BookFrame

\* Every step keeps the counters exact.
LEMMA NextBooked == IInv /\ CInv /\ [Next]_vars => CInv'
<1> SUFFICES ASSUME IInv, CInv, [Next]_vars PROVE CInv'
  OBVIOUS
<1>1. ASSUME NEW r \in Requests, RequestStep(r) PROVE CInv'
  BY <1>1, AdmissionBooked, SettlementBooked, QuietSteps DEF RequestStep
<1>2. ASSUME NEW r \in Requests, OperatorStep(r) PROVE CInv'
  <2>1. CASE BroadcastRefund(r)
    BY <2>1, FramesBooked DEF BroadcastRefund
  <2> QED
    BY <1>2, <2>1, SettlementBooked, QuietSteps DEF OperatorStep
<1>3. ASSUME NEW r \in Requests, ChainStep(r) PROVE CInv'
  <2>1. UNCHANGED <<req, reserve>>
    BY <1>3 DEF ChainStep, MineDeposit, BuryDeposit, OrphanDeposit, ReverseDeposit, SpendDeposit,
       DepositMoves, ForgetSignature
  <2> QED
    BY <2>1, FramesBooked
<1>4. ASSUME ServiceStep PROVE CInv'
  <2>1. CASE RecordPostFinalityReorg
    BY <2>1, FramesBooked DEF RecordPostFinalityReorg, PauseGoldcoinOnReorg, PauseSolanaOnReorg
  <2>2. CASE Reconcile
    BY <2>2, FramesBooked DEF Reconcile
  <2>3. CASE SendRelease \/ AbandonRelease
    BY <2>3, FramesBooked DEF SendRelease, AbandonRelease
  <2> QED
    BY <1>4, <2>1, <2>2, <2>3, ExpiryBooked, RollbackQuiet, SubmissionQuiet DEF ServiceStep
<1>5. ASSUME \E b \in BOOLEAN : SetSolanaPaused(b) \/ SetGoldcoinPaused(b) PROVE CInv'
  <2>1. CASE \E b \in BOOLEAN : SetSolanaPaused(b)
    BY <2>1, FramesBooked DEF SetSolanaPaused
  <2>2. CASE \E b \in BOOLEAN : SetGoldcoinPaused(b)
    BY <2>2, FramesBooked DEF SetGoldcoinPaused
  <2> QED
    BY <1>5, <2>1, <2>2
<1>6. ASSUME \/ \E t \in inflight : LandRelease(t) \/ DropRelease(t)
             \/ \E a \in Amounts : FundReserve(a) \/ WithdrawTreasury(a)
             \/ \E l \in Limits : SetLimit(l)
             \/ Tick \/ UNCHANGED vars
      PROVE  CInv'
  BY <1>6, FramesBooked DEF LandRelease, DropRelease, FundReserve, WithdrawTreasury,
     SetLimit, Tick, vars
<1> QED
  BY <1>1, <1>2, <1>3, <1>4, <1>5, <1>6 DEF Next

\* The counters begin at zero, with no request.
LEMMA InitBooked == Init => CInv
<1> SUFFICES ASSUME Init PROVE CInv
  OBVIOUS
<1>1. ReserveTypeOK
  BY ConfigAssumption DEF Init, ReserveTypeOK
<1>2. RowsNoted
  BY DEF Init, RowsNoted, RowNoted, NoRequest
<1>3. Reserving = {} /\ Pending = {}
  BY DEF Init, Reserving, Pending, NoRequest
<1>4. NetOf(Reserving) = 0 /\ NetOf(Pending) = 0
  BY <1>3, SumEmpty DEF NetOf
<1>5. reserve.reserved = 0 /\ reserve.pending = 0
  BY DEF Init
<1> QED
  BY <1>1, <1>2, <1>4, <1>5 DEF CInv, CountersMatchRequests

\* reserved_liquidity and pending_obligations are updated by a dozen functions
\* of ledger/mod.rs; for any number of requests and any order of expiries,
\* late deposits, requotes, reorgs, parks, refunds and settlements each stays
\* the sum over the requests it stands for, and every row keeps its shape.
THEOREM CountersExact == Spec => [](TypeOK /\ CountersMatchRequests)
<1>1. IInv /\ CInv /\ [Next]_vars => (IInv /\ CInv)'
  BY NextOK, NextBooked DEF StepOK
<1>2. Init => IInv /\ CInv
  BY InitIInv, InitBooked
<1>3. IInv /\ CInv => TypeOK /\ CountersMatchRequests
  BY DEF IInv, RowsTyped, CInv, TypeOK
<1> QED
  BY <1>1, <1>2, <1>3, PTL DEF Spec

-----------------------------------------------------------------------------
(* What is promised stays covered by the live reserve.                      *)

Ended(row) == row.state \in {"Settled", "Refunded"}

\* The requests whose reservation is still carried although their release has
\* landed, and what that release took from the reserve.
Paid == {r \in Reserving : landed[r].tx # 0}
PaidTotal == NetOf(Paid)

\* A release that landed, is in flight or is recorded as final has its mark.
ReleasesTracked ==
  /\ \A t \in inflight : t.tx # 0
  /\ \A r \in retained : landed[r].tx # 0
  /\ \A r \in Requests : req[r].state = "Settled" => landed[r].tx # 0

\* The cached balance is behind by no more than what landed and is still
\* reserved; what is reserved is covered once that much is added back.
Covered ==
  /\ reserve.balance <= solBalance + PaidTotal
  /\ ProtectedMinimum + reserve.reserved <= solBalance + PaidTotal

OInv == ReleasesTracked /\ Covered

\* A sum over requests that a step leaves alone.
LEMMA PaidKept ==
  ASSUME IInv, CInv, StepOK, CInv', UNCHANGED landed,
         \A q \in Requests : landed[q].tx # 0 => (Ended(req'[q]) <=> Ended(req[q]))
  PROVE  PaidTotal' = PaidTotal /\ PaidTotal \in Nat
<1> DEFINE w == [q \in Requests |-> req[q].net]
           v == [q \in Requests |-> req'[q].net]
           P == Paid
           Q == Paid'
<1>1. \A q \in Requests : landed[q].tx # 0 =>
        /\ req[q].finalized /\ req'[q].finalized /\ req'[q].net = req[q].net
        /\ RowLinked(req[q], dep[q].status) /\ RowLinked(req'[q], dep'[q].status)
        /\ RowNoted(req[q]) /\ RowNoted(req'[q])
  BY DEF IInv, ReleasesLinked, StepOK, FinalityKept, RowsLinked, CInv, RowsNoted
<1>2. \A q \in Requests : landed[q].tx # 0 =>
        /\ (q \in Reserving) <=> ~Ended(req[q])
        /\ (q \in Reserving') <=> ~Ended(req'[q])
  BY <1>1 DEF RowLinked, RowNoted, PostFinality, Reserving, Ended
<1>3. Q = P
  BY <1>2 DEF Paid, Reserving
<1>4. P \subseteq Requests /\ IsFiniteSet(P)
  BY FS_Subset, RequestsAssumption DEF Paid, Reserving
<1>5. \A q \in P : w[q] = v[q] /\ w[q] \in Nat
  BY <1>1, <1>4 DEF Paid, Reserving, IInv, RowsTyped, ServiceTypeOK, RequestRow
<1>6. PaidTotal = SumOver(w, P) /\ PaidTotal' = SumOver(v, Q)
  BY DEF PaidTotal, NetOf
<1> HIDE DEF w, v, P, Q
<1>7. SumOver(w, P) = SumOver(v, P) /\ SumOver(w, P) \in Nat
  BY <1>4, <1>5, SumAgrees, SumType
<1> QED
  BY <1>3, <1>6, <1>7

\* With the paid requests left alone, capacity checks and reconciliation keep
\* the reserve covered.
LEMMA StaysCovered ==
  ASSUME CInv, CInv', Covered, PaidTotal' = PaidTotal, PaidTotal \in Nat,
         solBalance \in Nat, solBalance' \in Nat, solBalance' >= solBalance,
         reserve'.balance = reserve.balance \/ reserve'.balance = solBalance,
         \/ reserve'.reserved <= reserve.reserved
         \/ reserve'.reserved <= reserve.balance - ProtectedMinimum
  PROVE  Covered'
<1>1. /\ reserve.balance \in Int /\ reserve.reserved \in Int
      /\ reserve'.balance \in Int /\ reserve'.reserved \in Int
  BY DEF CInv, ReserveTypeOK
<1>2. ProtectedMinimum \in Nat
  BY ConfigAssumption
<1>3. /\ reserve'.balance <= solBalance' + PaidTotal'
      /\ ProtectedMinimum + reserve'.reserved <= solBalance' + PaidTotal'
  BY <1>1, <1>2 DEF Covered
<1> QED
  BY <1>3 DEF Covered

\* A step that leaves the chain, the cached balance and the ended requests
\* alone, and reserves at most what the capacity check allows.
LEMMA LedgerCovered ==
  ASSUME IInv, CInv, OInv, StepOK, CInv',
         UNCHANGED <<landed, inflight, retained, solBalance>>,
         reserve'.balance = reserve.balance,
         \/ reserve'.reserved <= reserve.reserved
         \/ reserve'.reserved <= reserve.balance - ProtectedMinimum,
         \A q \in Requests :
           /\ Ended(req'[q]) <=> Ended(req[q])
           /\ req'[q].state = "Settled" => req[q].state = "Settled"
  PROVE  OInv'
<1>1. PaidTotal' = PaidTotal /\ PaidTotal \in Nat
  BY PaidKept
<1>2. solBalance \in Nat /\ solBalance' \in Nat /\ solBalance' >= solBalance
  BY DEF IInv, RowsTyped, ChainTypeOK
<1>3. Covered'
  BY <1>1, <1>2, StaysCovered DEF OInv
<1>4. ReleasesTracked'
  BY DEF OInv, ReleasesTracked
<1> QED
  BY <1>3, <1>4 DEF OInv

\* One row, not ended before or after, or as ended as before.
LEMMA RowCovered ==
  ASSUME IInv, CInv, OInv, StepOK, CInv', NEW r \in Requests, NEW row \in RequestRow,
         req' = [req EXCEPT ![r] = row], row.state = req[r].state \/ ~(Ended(row) \/ Ended(req[r])),
         UNCHANGED chainVars, reserve'.balance = reserve.balance,
         \/ reserve'.reserved <= reserve.reserved
         \/ reserve'.reserved <= reserve.balance - ProtectedMinimum
  PROVE  OInv'
<1>1. req'[r] = row /\ \A q \in Requests : q # r => req'[q] = req[q]
  BY DEF IInv, RowsTyped, ServiceTypeOK
<1>2. \A q \in Requests : /\ Ended(req'[q]) <=> Ended(req[q])
                          /\ req'[q].state = "Settled" => req[q].state = "Settled"
  BY <1>1 DEF Ended
<1> QED
  BY <1>2, LedgerCovered DEF chainVars

\* A reservation is made, made again or moved within the capacity of its moment.
LEMMA AdmissionCovered ==
  ASSUME IInv, CInv, OInv, StepOK, CInv', NEW r \in Requests,
         \/ \E net \in Amounts : CreateRequest(r, net)
         \/ RecordGlcDepositObserved(r)
  PROVE  OInv'
<1>0. req[r] \in RequestRow /\ RowLinked(req[r], dep[r].status) /\ RowNoted(req[r])
  BY DEF IInv, RowsTyped, ServiceTypeOK, RowsLinked, CInv, RowsNoted
<1>n. req[r].net \in Nat /\ Rereserve(r) \in Nat /\ ExpiryOf(r) \in Nat
  BY <1>0 DEF RequestRow, Rereserve, ExpiryOf
<1>t. reserve \in [balance : Int, reserved : Int, pending : Int, settled : Int, paused : BOOLEAN]
  BY DEF CInv, ReserveTypeOK
<1>p. ProtectedMinimum \in Nat
  BY ConfigAssumption
<1>1. ASSUME NEW net \in Amounts, CreateRequest(r, net) PROVE OInv'
  <2> DEFINE row == [req[r] EXCEPT !.state = "AwaitingDeposit", !.net = net,
                                   !.expiry = clock + ReservationTtl]
  <2>a. net \in Nat /\ clock + ReservationTtl \in Nat
    BY AmountsAssumption, ConfigAssumption DEF IInv, RowsTyped, ServiceTypeOK
  <2>1. row \in RequestRow
    BY <1>0, <2>a DEF RequestRow, States, Notes
  <2>2. req' = [req EXCEPT ![r] = row] /\ reserve' = [reserve EXCEPT !.reserved = @ + net]
        /\ req[r].state = "Absent" /\ UNCHANGED chainVars
        /\ net <= reserve.balance - ProtectedMinimum - reserve.reserved
    BY <1>1 DEF CreateRequest, CapacityOK, Available
  <2>3. ~(Ended(row) \/ Ended(req[r]))
    BY <1>0, <2>2 DEF Ended, RequestRow
  <2>4. reserve'.balance = reserve.balance
        /\ reserve'.reserved <= reserve.balance - ProtectedMinimum
    BY <1>t, <1>p, <2>2, <2>a
  <2> HIDE DEF row
  <2> QED
    BY <2>1, <2>2, <2>3, <2>4, RowCovered
<1>2. ASSUME LateDepositNoCapacity(r) PROVE OInv'
  <2> DEFINE row == [req[r] EXCEPT !.state = "ManualReview",
                                   !.note = "late_deposit_no_capacity"]
  <2>1. row \in RequestRow
    BY <1>0 DEF RequestRow, States, Notes
  <2>2. req' = [req EXCEPT ![r] = row] /\ reserve' = reserve /\ req[r].state = "Expired"
        /\ UNCHANGED chainVars
    BY <1>2 DEF LateDepositNoCapacity
  <2>3. ~(Ended(row) \/ Ended(req[r]))
    BY <1>0, <2>2 DEF Ended, RequestRow
  <2>4. reserve'.balance = reserve.balance /\ reserve'.reserved <= reserve.reserved
    BY <1>t, <2>2
  <2> HIDE DEF row
  <2> QED
    BY <2>1, <2>2, <2>3, <2>4, RowCovered
<1>r. ASSUME Reservable(r)
      PROVE  \/ Rereserve(r) = 0
             \/ Rereserve(r) = req[r].net
                /\ req[r].net <= reserve.balance - ProtectedMinimum - reserve.reserved
  BY <1>r DEF Rereserve, Reservable, CapacityOK, Available
<1>3. ASSUME AmountMismatch(r) PROVE OInv'
  <2> DEFINE row == [req[r] EXCEPT !.state = "ManualReview", !.note = "deposit_amount_mismatch",
                                   !.expiry = ExpiryOf(r)]
  <2>1. row \in RequestRow
    BY <1>0, <1>n DEF RequestRow, States, Notes
  <2>2. req' = [req EXCEPT ![r] = row] /\ reserve' = [reserve EXCEPT !.reserved = @ + Rereserve(r)]
        /\ req[r].state \in {"AwaitingDeposit", "Expired"} /\ Reservable(r) /\ UNCHANGED chainVars
    BY <1>3 DEF AmountMismatch, Observable
  <2>3. ~(Ended(row) \/ Ended(req[r]))
    BY <1>0, <2>2 DEF Ended, RequestRow
  <2>4. reserve'.balance = reserve.balance /\ reserve'.reserved = reserve.reserved + Rereserve(r)
    BY <1>t, <2>2
  <2>5. \/ reserve'.reserved <= reserve.reserved
        \/ reserve'.reserved <= reserve.balance - ProtectedMinimum
    BY <1>r, <1>n, <1>t, <1>p, <2>2, <2>4
  <2> HIDE DEF row
  <2> QED
    BY <2>1, <2>2, <2>3, <2>4, <2>5, RowCovered
<1>4. ASSUME NEW struck \in Amounts, NEW rate, NEW gate, LockAndObserve(r, struck, rate, gate)
      PROVE  OInv'
  <2> DEFINE net == LockedNet(r, struck, rate)
             note == ParkReason(r, struck, rate, gate)
             state == IF note = "none" THEN "Confirming" ELSE "ManualReview"
             hold == IF gate = "burst" THEN "held" ELSE req[r].hold
             row == [req[r] EXCEPT !.state = state, !.net = net, !.note = note,
                                   !.expiry = ExpiryOf(r), !.hold = hold]
  <2>a. struck \in Nat
    BY AmountsAssumption
  <2>b. /\ net \in Nat /\ note \in Notes /\ state \in {"Confirming", "ManualReview"}
        /\ hold \in {"none", "held", "refund"}
    BY <1>0, <2>a DEF LockedNet, ParkReason, Notes, RequestRow
  <2>2. req' = [req EXCEPT ![r] = row]
        /\ reserve' = [reserve EXCEPT !.reserved = @ + Rereserve(r) + (net - req[r].net)]
        /\ req[r].state \in {"AwaitingDeposit", "Expired"} /\ Reservable(r) /\ UNCHANGED chainVars
    BY <1>4 DEF LockAndObserve, Observable
  <2>c. \/ net = req[r].net
        \/ net - req[r].net <= 0
        \/ net - req[r].net <= reserve.balance - ProtectedMinimum - reserve.reserved - Rereserve(r)
    BY DEF LockedNet, Absorbed, Available
  <2> HIDE DEF net, note, state, hold
  <2>1. row \in RequestRow
    BY <1>0, <1>n, <2>b DEF RequestRow, States
  <2>3. ~(Ended(row) \/ Ended(req[r]))
    BY <1>0, <2>2, <2>b DEF Ended, RequestRow
  <2>4. reserve'.balance = reserve.balance
        /\ reserve'.reserved = reserve.reserved + Rereserve(r) + (net - req[r].net)
    BY <1>t, <2>2
  <2>5. \/ reserve'.reserved <= reserve.reserved
        \/ reserve'.reserved <= reserve.balance - ProtectedMinimum
    BY <1>r, <1>n, <1>t, <1>p, <2>2, <2>4, <2>b, <2>c
  <2> HIDE DEF row
  <2> QED
    BY <2>1, <2>2, <2>3, <2>4, <2>5, RowCovered
<1> QED
  BY <1>1, <1>2, <1>3, <1>4 DEF RecordGlcDepositObserved

\* The rewrites of one row that neither reserve nor end anything.
LEMMA QuietCovered ==
  ASSUME IInv, CInv, OInv, StepOK, CInv', NEW r \in Requests,
         \/ MarkGlcSourceFinalized(r)
         \/ MarkGlcDepositSpentBeforeFinalized(r)
         \/ ParkForDestinationBounds(r)
         \/ AttestRelease(r)
         \/ ResumeDestinationBound(r)
         \/ SetManualReviewHold(r)
         \/ ClearManualReviewHold(r)
         \/ RecordOperatorDecision(r)
         \/ CloseManualReview(r)
         \/ BeginGoldcoinRefund(r)
         \/ RecordGoldcoinRefundSigned(r)
         \/ RecordGoldcoinRefundBroadcast(r)
  PROVE  OInv'
<1>0. req[r] \in RequestRow /\ RowLinked(req[r], dep[r].status)
      /\ req \in [Requests -> RequestRow] /\ req' \in [Requests -> RequestRow]
  BY DEF IInv, RowsTyped, ServiceTypeOK, RowsLinked, StepOK
<1>t. reserve \in [balance : Int, reserved : Int, pending : Int, settled : Int, paused : BOOLEAN]
  BY DEF CInv, ReserveTypeOK
<1>1. /\ UNCHANGED chainVars
      /\ reserve' = reserve \/ reserve' = [reserve EXCEPT !.pending = @ + req[r].net]
  BY DEF MarkGlcSourceFinalized, MarkGlcDepositSpentBeforeFinalized, ParkForDestinationBounds,
         AttestRelease, ResumeDestinationBound, SetManualReviewHold, ClearManualReviewHold,
         RecordOperatorDecision, CloseManualReview, BeginGoldcoinRefund,
         RecordGoldcoinRefundSigned, RecordGoldcoinRefundBroadcast
<1>2. \E x : req' = [req EXCEPT ![r] = x]
  BY DEF MarkGlcSourceFinalized, MarkGlcDepositSpentBeforeFinalized, ParkForDestinationBounds,
         AttestRelease, ResumeDestinationBound, SetManualReviewHold, ClearManualReviewHold,
         RecordOperatorDecision, CloseManualReview, BeginGoldcoinRefund,
         RecordGoldcoinRefundSigned, RecordGoldcoinRefundBroadcast
<1>3. req' = [req EXCEPT ![r] = req'[r]]
  BY <1>0, <1>2
<1>4. \/ req[r].state \in {"Confirming", "SourceFinalized", "ManualReview"}
      \/ req[r].refund \in {"Built", "Signed"}
      \/ ClearManualReviewHold(r)
  BY DEF MarkGlcSourceFinalized, MarkGlcDepositSpentBeforeFinalized, ParkForDestinationBounds,
         AttestRelease, ResumeDestinationBound, SetManualReviewHold, Parked, Resumable,
         RecordOperatorDecision, CloseManualReview, BeginGoldcoinRefund,
         RecordGoldcoinRefundSigned, RecordGoldcoinRefundBroadcast
<1>5. \/ req'[r].state = req[r].state
      \/ req'[r].state \in {"SourceFinalized", "ManualReview", "Closed", "RefundPending",
                            "RefundBroadcast"}
  <2>1. CASE MarkGlcSourceFinalized(r) \/ MarkGlcDepositSpentBeforeFinalized(r)
    <3>1. CASE MarkGlcSourceFinalized(r)
      BY <1>0, <3>1 DEF MarkGlcSourceFinalized, RequestRow
    <3>2. CASE MarkGlcDepositSpentBeforeFinalized(r)
      BY <1>0, <3>2 DEF MarkGlcDepositSpentBeforeFinalized, RequestRow
    <3> QED
      BY <2>1, <3>1, <3>2
  <2>2. CASE ParkForDestinationBounds(r) \/ ResumeDestinationBound(r)
    <3>0. PICK st \in {"SourceFinalized", "ManualReview"} : \E n :
            req' = [req EXCEPT ![r] = [req[r] EXCEPT !.state = st, !.note = n]]
      BY <2>2 DEF ParkForDestinationBounds, ResumeDestinationBound
    <3>1. PICK n : req' = [req EXCEPT ![r] = [req[r] EXCEPT !.state = st, !.note = n]]
      BY <3>0
    <3>2. req'[r] = [req[r] EXCEPT !.state = st, !.note = n]
      BY <1>0, <3>1
    <3>3. req'[r].state = st
      BY <1>0, <3>2 DEF RequestRow
    <3> QED
      BY <3>0, <3>3
  <2>3. CASE AttestRelease(r) \/ SetManualReviewHold(r) \/ ClearManualReviewHold(r)
             \/ RecordOperatorDecision(r)
    BY <1>0, <2>3 DEF AttestRelease, SetManualReviewHold, ClearManualReviewHold,
       RecordOperatorDecision, RequestRow
  <2>4. CASE CloseManualReview(r) \/ RecordGoldcoinRefundSigned(r)
    BY <1>0, <2>4 DEF CloseManualReview, RecordGoldcoinRefundSigned, RequestRow
  <2>5. CASE BeginGoldcoinRefund(r) \/ RecordGoldcoinRefundBroadcast(r)
    <3>0. PICK st \in {"RefundPending", "RefundBroadcast"} : \E f :
            req' = [req EXCEPT ![r] = [req[r] EXCEPT !.state = st, !.refund = f]]
      BY <2>5 DEF BeginGoldcoinRefund, RecordGoldcoinRefundBroadcast
    <3>1. PICK f : req' = [req EXCEPT ![r] = [req[r] EXCEPT !.state = st, !.refund = f]]
      BY <3>0
    <3>2. req'[r] = [req[r] EXCEPT !.state = st, !.refund = f]
      BY <1>0, <3>1
    <3>3. req'[r].state = st
      BY <1>0, <3>2 DEF RequestRow
    <3> QED
      BY <3>0, <3>3
  <2> QED
    BY <2>1, <2>2, <2>3, <2>4, <2>5
<1>6. ClearManualReviewHold(r) => req'[r].state = req[r].state
  BY <1>0 DEF ClearManualReviewHold, RequestRow
<1>7. req'[r].state = req[r].state \/ ~(Ended(req'[r]) \/ Ended(req[r]))
  BY <1>0, <1>4, <1>5, <1>6 DEF Ended, RowLinked
<1>8. reserve'.balance = reserve.balance /\ reserve'.reserved <= reserve.reserved
  BY <1>1, <1>t
<1>9. req'[r] \in RequestRow
  BY <1>0
<1> QED
  BY <1>1, <1>3, <1>7, <1>8, <1>9, RowCovered

\* The release of a request that never was paid elsewhere is the one that
\* settles it: the cache, the reservation and the paid sum lose its net.
LEMMA SettlementCovered ==
  ASSUME IInv, CInv, OInv, StepOK, CInv', NEW r \in Requests, MarkReleaseConfirmed(r)
  PROVE  OInv'
<1> DEFINE w == [q \in Requests |-> req[q].net]
           v == [q \in Requests |-> req'[q].net]
           P == Paid
           Q == Paid'
           net == req[r].net
<1>0. req[r] \in RequestRow /\ RowLinked(req[r], dep[r].status) /\ RowNoted(req[r])
      /\ req \in [Requests -> RequestRow] /\ req' \in [Requests -> RequestRow]
  BY DEF IInv, RowsTyped, ServiceTypeOK, RowsLinked, StepOK, CInv, RowsNoted
<1>1. /\ req' = [req EXCEPT ![r].state = "Settled"] /\ req[r].state = "DestinationSubmitted"
      /\ reserve' = [reserve EXCEPT !.reserved = @ - req[r].net, !.pending = @ - req[r].net,
                                !.settled = @ + req[r].net, !.balance = @ - req[r].net]
      /\ r \in retained /\ UNCHANGED chainVars
  BY DEF MarkReleaseConfirmed, Settle
<1>2. landed[r].tx # 0
  BY <1>1 DEF OInv, ReleasesTracked
<1>3. r \in P /\ Q = P \ {r}
  <2>1. r \in Reserving /\ Reserving' = Reserving \ {r}
    BY <1>0, <1>1 DEF Reserving, RowNoted, RequestRow
  <2> QED
    BY <1>1, <1>2, <2>1 DEF Paid, chainVars
<1>4. P \subseteq Requests /\ IsFiniteSet(P) /\ v = w
  BY <1>0, <1>1, FS_Subset, RequestsAssumption DEF Paid, Reserving, RequestRow
<1>5. \A q \in P : w[q] \in Nat
  BY <1>0, <1>4 DEF RequestRow
<1>6. PaidTotal = SumOver(w, P) /\ PaidTotal' = SumOver(v, Q) /\ w[r] = net /\ net \in Nat
  BY <1>0 DEF PaidTotal, NetOf, RequestRow
<1> HIDE DEF w, v, P, Q, net
<1>7. SumOver(w, P) = w[r] + SumOver(w, P \ {r})
  BY <1>3, <1>4, <1>5, SumRemove
<1>8. SumOver(w, P \ {r}) \in Nat
  <2>1. IsFiniteSet(P \ {r}) /\ \A q \in P \ {r} : w[q] \in Nat
    BY <1>4, <1>5, FS_Subset
  <2> QED
    BY <2>1, SumType
<1>9. PaidTotal = PaidTotal' + net /\ PaidTotal' \in Nat
  BY <1>3, <1>4, <1>6, <1>7, <1>8
<1>10. /\ reserve.balance \in Int /\ reserve.reserved \in Int
       /\ reserve'.balance = reserve.balance - net /\ reserve'.reserved = reserve.reserved - net
  BY <1>1 DEF CInv, ReserveTypeOK, net
<1>11. solBalance' = solBalance /\ solBalance \in Nat /\ ProtectedMinimum \in Nat
  BY <1>1, ConfigAssumption DEF chainVars, IInv, RowsTyped, ChainTypeOK
<1>12. /\ reserve'.balance <= solBalance' + PaidTotal'
       /\ ProtectedMinimum + reserve'.reserved <= solBalance' + PaidTotal'
  BY <1>6, <1>9, <1>10, <1>11 DEF OInv, Covered
<1>13. ReleasesTracked'
  BY <1>0, <1>1, <1>2 DEF OInv, ReleasesTracked, chainVars
<1> QED
  BY <1>12, <1>13 DEF OInv, Covered

\* A confirmed refund of a request whose release never landed gives its
\* reservation back; the paid sum does not know it.
LEMMA RefundCovered ==
  ASSUME IInv, CInv, OInv, StepOK, CInv', NeverReleasedAndRefunded', NEW r \in Requests,
         RecordGoldcoinRefundConfirmed(r)
  PROVE  OInv'
<1>0. req[r] \in RequestRow /\ req \in [Requests -> RequestRow]
  BY DEF IInv, RowsTyped, ServiceTypeOK
<1>1. /\ req' = [req EXCEPT ![r] = [@ EXCEPT !.state = "Refunded", !.refund = "Refunded"]]
      /\ reserve' = [reserve EXCEPT !.reserved = @ - req[r].net]
      /\ UNCHANGED chainVars
  BY DEF RecordGoldcoinRefundConfirmed
<1>2. req'[r].state = "Refunded" /\ \A q \in Requests : q # r => req'[q] = req[q]
  BY <1>0, <1>1 DEF RequestRow
<1>3. landed[r].tx = 0
  BY <1>1, <1>2 DEF NeverReleasedAndRefunded, chainVars
<1>4. PaidTotal' = PaidTotal /\ PaidTotal \in Nat
  BY <1>1, <1>2, <1>3, PaidKept DEF chainVars
<1>5. solBalance \in Nat /\ solBalance' \in Nat /\ solBalance' >= solBalance
  BY <1>1 DEF IInv, RowsTyped, ChainTypeOK, chainVars
<1>6. reserve'.balance = reserve.balance /\ reserve'.reserved <= reserve.reserved
  BY <1>0, <1>1 DEF CInv, ReserveTypeOK, RequestRow
<1>7. Covered'
  BY <1>4, <1>5, <1>6, StaysCovered DEF OInv
<1>8. ReleasesTracked'
  BY <1>1, <1>2 DEF OInv, ReleasesTracked, chainVars
<1> QED
  BY <1>7, <1>8 DEF OInv

\* A landing release takes its net from the live balance and adds it to the
\* paid sum: its request is neither settled nor refunded.
LEMMA LandingCovered ==
  ASSUME IInv, CInv, OInv, StepOK, CInv', NeverReleasedAndRefunded', NEW t \in inflight,
         LandRelease(t)
  PROVE  OInv'
<1> DEFINE r == t.req
           w == [q \in Requests |-> req[q].net]
           P == Paid
           Q == Paid'
<1>0. r \in Requests /\ t.tx \in Nat /\ t.tx # 0 /\ t.amount = req[r].net /\ req[r].finalized
  BY DEF IInv, RowsTyped, ChainTypeOK, ReleasesLinked, OInv, ReleasesTracked
<1>1. req[r] \in RequestRow /\ RowLinked(req[r], dep[r].status) /\ RowNoted(req[r])
      /\ req \in [Requests -> RequestRow]
  BY <1>0 DEF IInv, RowsTyped, ServiceTypeOK, RowsLinked, CInv, RowsNoted
<1>2. /\ landed[r].tx = 0 /\ landed' = [landed EXCEPT ![r] = [tx |-> t.tx, amount |-> t.amount]]
      /\ inflight' = inflight \ {t} /\ retained' = retained \union {r}
      /\ solBalance' = solBalance - t.amount /\ UNCHANGED <<req, reserve>>
  BY DEF LandRelease
<1>3. landed'[r].tx # 0 /\ \A q \in Requests : q # r => landed'[q] = landed[q]
  BY <1>0, <1>2 DEF IInv, RowsTyped, ChainTypeOK
<1>4. req[r].state \notin {"Settled", "Refunded"}
  BY <1>0, <1>2, <1>3 DEF OInv, ReleasesTracked, NeverReleasedAndRefunded
<1>5. r \in Reserving /\ Reserving' = Reserving
  BY <1>0, <1>1, <1>2, <1>4 DEF Reserving, RowLinked, RowNoted, PostFinality
<1>6. r \in Q /\ P = Q \ {r}
  BY <1>0, <1>2, <1>3, <1>5 DEF Paid, Reserving
<1>7. Q \subseteq Requests /\ IsFiniteSet(Q)
  BY <1>5, FS_Subset, RequestsAssumption DEF Paid, Reserving
<1>8. \A q \in Q : w[q] \in Nat
  BY <1>1, <1>7 DEF RequestRow
<1>9. PaidTotal = SumOver(w, P) /\ PaidTotal' = SumOver(w, Q) /\ w[r] = req[r].net
      /\ req[r].net \in Nat
  BY <1>0, <1>1, <1>2 DEF PaidTotal, NetOf, RequestRow
<1> HIDE DEF w, P, Q
<1>10. SumOver(w, Q) = w[r] + SumOver(w, Q \ {r})
  BY <1>6, <1>7, <1>8, SumRemove
<1>11. SumOver(w, Q \ {r}) \in Nat
  <2>1. IsFiniteSet(Q \ {r}) /\ \A q \in Q \ {r} : w[q] \in Nat
    BY <1>7, <1>8, FS_Subset
  <2> QED
    BY <2>1, SumType
<1>12. PaidTotal' = PaidTotal + req[r].net /\ PaidTotal \in Nat
  BY <1>6, <1>9, <1>10, <1>11
<1>13. reserve.balance \in Int /\ reserve.reserved \in Int /\ solBalance \in Nat
       /\ ProtectedMinimum \in Nat /\ solBalance' = solBalance - req[r].net
  BY <1>0, <1>2, ConfigAssumption DEF CInv, ReserveTypeOK, IInv, RowsTyped, ChainTypeOK
<1>14. /\ reserve'.balance <= solBalance' + PaidTotal'
       /\ ProtectedMinimum + reserve'.reserved <= solBalance' + PaidTotal'
  BY <1>2, <1>9, <1>12, <1>13 DEF OInv, Covered
<1>15. ReleasesTracked'
  BY <1>0, <1>2, <1>3 DEF OInv, ReleasesTracked, IInv, RowsTyped, ChainTypeOK
<1> QED
  BY <1>14, <1>15 DEF OInv, Covered

\* The steps that rewrite no row and land nothing; a treasury withdrawal is
\* not among them.
LEMMA FramesCovered ==
  ASSUME IInv, CInv, OInv, StepOK, CInv', UNCHANGED <<req, landed>>,
         solBalance' \in Nat, solBalance' >= solBalance,
         retained' \subseteq retained,
         inflight' \subseteq inflight \/ SendRelease,
         reserve' = reserve \/ RecordPostFinalityReorg \/ Reconcile
           \/ \E b \in BOOLEAN : SetSolanaPaused(b)
  PROVE  OInv'
<1>1. PaidTotal' = PaidTotal /\ PaidTotal \in Nat
  BY PaidKept
<1>2. /\ reserve'.balance = reserve.balance \/ reserve'.balance = solBalance
      /\ reserve'.reserved = reserve.reserved
  <2>t. reserve \in [balance : Int, reserved : Int, pending : Int, settled : Int, paused : BOOLEAN]
    BY DEF CInv, ReserveTypeOK
  <2>1. CASE Reconcile
    <3>1. reserve' = [reserve EXCEPT !.paused = reserve.paused \/ Breach, !.balance = solBalance]
      BY <2>1 DEF Reconcile
    <3>2. reserve'.balance = solBalance /\ reserve'.reserved = reserve.reserved
      BY <2>t, <3>1
    <3> QED
      BY <3>2
  <2>2. CASE reserve' = reserve \/ RecordPostFinalityReorg \/ \E b \in BOOLEAN : SetSolanaPaused(b)
    BY <2>2, <2>t DEF RecordPostFinalityReorg,
       PauseGoldcoinOnReorg, PauseSolanaOnReorg, SetSolanaPaused
  <2> QED
    BY <2>1, <2>2
<1>3. reserve'.reserved <= reserve.reserved
  BY <1>2 DEF CInv, ReserveTypeOK
<1>4. solBalance \in Nat
  BY DEF IInv, RowsTyped, ChainTypeOK
<1>5. Covered'
  BY <1>1, <1>2, <1>3, <1>4, StaysCovered DEF OInv
<1>6. \A t \in inflight' : t.tx # 0
  <2>1. CASE inflight' \subseteq inflight
    BY <2>1 DEF OInv, ReleasesTracked
  <2>2. CASE SendRelease
    <3>1. orch.req \in Requests /\ sends[orch.req] \in Nat
      BY <2>2 DEF SendRelease, IInv, RowsTyped, ServiceTypeOK, ChainTypeOK, Idle
    <3>2. inflight' = inflight \union
          {[req |-> orch.req, tx |-> sends[orch.req] + 1, amount |-> req[orch.req].net]}
      BY <2>2 DEF SendRelease
    <3> QED
      BY <3>1, <3>2 DEF OInv, ReleasesTracked
  <2> QED
    BY <2>1, <2>2
<1>7. ReleasesTracked'
  BY <1>6 DEF OInv, ReleasesTracked
<1> QED
  BY <1>5, <1>7 DEF OInv

\* The sweep and the rollback touch no ended request.
LEMMA BulkCovered ==
  ASSUME IInv, CInv, OInv, StepOK, CInv', ExpireReservations \/ GoldcoinRollbackReorg
  PROVE  OInv'
<1>0. \A q \in Requests : req[q] \in RequestRow
  BY DEF IInv, RowsTyped, ServiceTypeOK
<1>1. PICK hit \in SUBSET Requests, st \in {"Expired", "AwaitingDeposit"} :
        /\ req' = [q \in Requests |-> IF q \in hit THEN [req[q] EXCEPT !.state = st] ELSE req[q]]
        /\ \A q \in hit : req[q].state \in {"AwaitingDeposit", "Confirming"}
  <2>1. CASE ExpireReservations
    <3>1. \A q \in {x \in Requests : Expirable(x)} : req[q].state \in {"AwaitingDeposit", "Confirming"}
      BY DEF Expirable
    <3> QED
      BY <2>1, <3>1 DEF ExpireReservations
  <2>2. CASE GoldcoinRollbackReorg
    <3>1. \A q \in {x \in Requests : Orphaned(x)} : req[q].state \in {"AwaitingDeposit", "Confirming"}
      BY DEF Orphaned
    <3> QED
      BY <2>2, <3>1 DEF GoldcoinRollbackReorg
  <2> QED
    BY <2>1, <2>2
<1>2. \A q \in Requests : /\ Ended(req'[q]) <=> Ended(req[q])
                          /\ req'[q].state = "Settled" => req[q].state = "Settled"
  <2> SUFFICES ASSUME NEW q \in Requests
               PROVE  /\ Ended(req'[q]) <=> Ended(req[q])
                      /\ req'[q].state = "Settled" => req[q].state = "Settled"
    OBVIOUS
  <2>1. CASE q \in hit
    <3>1. req'[q] = [req[q] EXCEPT !.state = st]
      BY <1>1, <2>1
    <3>2. req'[q].state = st
      BY <1>0, <3>1 DEF RequestRow
    <3> QED
      BY <1>1, <2>1, <3>2 DEF Ended
  <2>2. CASE q \notin hit
    BY <1>1, <2>2
  <2> QED
    BY <2>1, <2>2
<1>3. UNCHANGED <<landed, inflight, retained, solBalance>>
  BY DEF ExpireReservations, GoldcoinRollbackReorg, chainVars
<1>4. reserve'.balance = reserve.balance /\ reserve'.reserved <= reserve.reserved
  <2>t. reserve \in [balance : Int, reserved : Int, pending : Int, settled : Int, paused : BOOLEAN]
    BY DEF CInv, ReserveTypeOK
  <2>1. CASE ExpireReservations
    <3> DEFINE due == {q \in Requests : Expirable(q)}
               w == [q \in Requests |-> req[q].net]
    <3>1. reserve' = [reserve EXCEPT !.reserved = @ - NetOf(due)] /\ NetOf(due) = SumOver(w, due)
      BY <2>1 DEF ExpireReservations, NetOf
    <3>2. IsFiniteSet(due) /\ \A q \in due : w[q] \in Nat
      BY <1>0, FS_Subset, RequestsAssumption DEF RequestRow
    <3> HIDE DEF due, w
    <3>3. SumOver(w, due) \in Nat
      BY <3>2, SumType
    <3> QED
      BY <2>t, <3>1, <3>3
  <2>2. CASE GoldcoinRollbackReorg
    BY <2>t, <2>2 DEF GoldcoinRollbackReorg
  <2> QED
    BY <2>1, <2>2
<1> QED
  BY <1>2, <1>3, <1>4, LedgerCovered

\* A submission is recorded for a request that is not ended.
LEMMA SubmissionCovered ==
  ASSUME IInv, CInv, OInv, StepOK, CInv', RecordReleaseSubmitted
  PROVE  OInv'
<1> DEFINE r == orch.req
<1>1. r \in Requests
  BY DEF IInv, RowsTyped, ServiceTypeOK, RecordReleaseSubmitted, Idle
<1>2. req \in [Requests -> RequestRow] /\ req[r] \in RequestRow
  BY <1>1 DEF IInv, RowsTyped, ServiceTypeOK
<1>3. UNCHANGED chainVars /\ reserve' = reserve
  BY DEF RecordReleaseSubmitted
<1>4. \A q \in Requests : /\ Ended(req'[q]) <=> Ended(req[q])
                          /\ req'[q].state = "Settled" => req[q].state = "Settled"
  <2>1. CASE req[r].state = "SourceFinalized"
    <3>1. req' = [req EXCEPT ![r] = [req[r] EXCEPT !.state = "DestinationSubmitted", !.sig = orch.tx]]
      BY <2>1 DEF RecordReleaseSubmitted
    <3>2. req'[r] = [req[r] EXCEPT !.state = "DestinationSubmitted", !.sig = orch.tx]
          /\ \A q \in Requests : q # r => req'[q] = req[q]
      BY <1>1, <1>2, <3>1
    <3>3. req'[r].state = "DestinationSubmitted"
      BY <1>2, <3>2 DEF RequestRow
    <3> HIDE DEF r
    <3> QED
      BY <2>1, <3>2, <3>3 DEF Ended
  <2>2. CASE req[r].state # "SourceFinalized"
    BY <2>2 DEF RecordReleaseSubmitted
  <2> QED
    BY <2>1, <2>2
<1>5. reserve'.balance = reserve.balance /\ reserve'.reserved <= reserve.reserved
  BY <1>3 DEF CInv, ReserveTypeOK
<1> QED
  BY <1>3, <1>4, <1>5, LedgerCovered DEF chainVars

\* Every step but a treasury withdrawal keeps what is promised covered, as
\* long as no released request is refunded.
LEMMA NextCovered ==
  ASSUME "treasury" \notin Events
  PROVE  IInv /\ CInv /\ OInv /\ NeverReleasedAndRefunded' /\ [Next]_vars => OInv'
<1> SUFFICES ASSUME IInv, CInv, OInv, NeverReleasedAndRefunded', [Next]_vars PROVE OInv'
  OBVIOUS
<1>0. StepOK /\ CInv'
  BY NextOK, NextBooked
<1>b. solBalance \in Nat
  BY DEF IInv, RowsTyped, ChainTypeOK
<1>1. ASSUME NEW r \in Requests, RequestStep(r) PROVE OInv'
  BY <1>0, <1>1, AdmissionCovered, QuietCovered, SettlementCovered DEF RequestStep
<1>2. ASSUME NEW r \in Requests, OperatorStep(r) PROVE OInv'
  <2>1. CASE BroadcastRefund(r)
    BY <1>0, <1>b, <2>1, FramesCovered DEF BroadcastRefund
  <2> QED
    BY <1>0, <1>2, <2>1, QuietCovered, RefundCovered DEF OperatorStep
<1>3. ASSUME NEW r \in Requests, ChainStep(r) PROVE OInv'
  <2>1. UNCHANGED <<req, reserve, landed, solBalance, inflight>> /\ retained' \subseteq retained
    BY <1>3 DEF ChainStep, MineDeposit, BuryDeposit, OrphanDeposit, ReverseDeposit, SpendDeposit,
       DepositMoves, ForgetSignature
  <2> QED
    BY <1>0, <1>b, <2>1, FramesCovered
<1>4. ASSUME ServiceStep PROVE OInv'
  <2>1. CASE RecordPostFinalityReorg
    <3>1. UNCHANGED <<req, landed, solBalance, inflight, retained>>
      BY <2>1 DEF RecordPostFinalityReorg, PauseGoldcoinOnReorg, PauseSolanaOnReorg, chainVars
    <3> QED
      BY <1>0, <1>b, <2>1, <3>1, FramesCovered
  <2>2. CASE Reconcile
    BY <1>0, <1>b, <2>2, FramesCovered DEF Reconcile, chainVars
  <2>3. CASE SendRelease
    BY <1>0, <1>b, <2>3, FramesCovered DEF SendRelease
  <2>4. CASE AbandonRelease
    BY <1>0, <1>b, <2>4, FramesCovered DEF AbandonRelease, chainVars
  <2> QED
    BY <1>0, <1>4, <2>1, <2>2, <2>3, <2>4, BulkCovered, SubmissionCovered DEF ServiceStep
<1>5. ASSUME NEW b \in BOOLEAN, SetSolanaPaused(b) \/ SetGoldcoinPaused(b) PROVE OInv'
  <2>1. CASE SetSolanaPaused(b)
    BY <1>0, <1>b, <2>1, FramesCovered DEF SetSolanaPaused, chainVars
  <2>2. CASE SetGoldcoinPaused(b)
    BY <1>0, <1>b, <2>2, FramesCovered DEF SetGoldcoinPaused, chainVars
  <2> QED
    BY <1>5, <2>1, <2>2
<1>6. ASSUME NEW t \in inflight, LandRelease(t) \/ DropRelease(t) PROVE OInv'
  <2>1. CASE DropRelease(t)
    BY <1>0, <1>b, <2>1, FramesCovered DEF DropRelease
  <2> QED
    BY <1>0, <1>6, <2>1, LandingCovered
<1>7. ASSUME NEW a \in Amounts, FundReserve(a) PROVE OInv'
  <2>1. a \in Nat
    BY AmountsAssumption
  <2>2. solBalance' \in Nat /\ solBalance' >= solBalance
    BY <1>7, <1>b, <2>1 DEF FundReserve
  <2> QED
    BY <1>0, <1>7, <2>2, FramesCovered DEF FundReserve
<1>8. ASSUME NEW l \in Limits, SetLimit(l) PROVE OInv'
  BY <1>0, <1>b, <1>8, FramesCovered DEF SetLimit
<1>9. ASSUME Tick \/ UNCHANGED vars PROVE OInv'
  BY <1>0, <1>b, <1>9, FramesCovered DEF Tick, vars, chainVars
<1> QED
  BY <1>1, <1>2, <1>3, <1>4, <1>5, <1>6, <1>7, <1>8, <1>9 DEF Next, WithdrawTreasury

LEMMA InitCovered == Init => OInv
<1> SUFFICES ASSUME Init PROVE OInv
  OBVIOUS
<1>1. ReleasesTracked
  BY DEF Init, ReleasesTracked, NoRequest
<1>2. Paid = {}
  BY DEF Init, Paid, Reserving
<1>3. PaidTotal = 0
  BY <1>2, SumEmpty DEF PaidTotal, NetOf
<1>4. Covered
  BY <1>3, ConfigAssumption DEF Init, Covered
<1> QED
  BY <1>1, <1>4 DEF OInv

\* Covered is what NeverOvercommitted says, once the paid requests are taken
\* out of the reserving ones.
LEMMA CoveredSuffices == IInv /\ CInv /\ OInv => NeverOvercommitted
<1> SUFFICES ASSUME IInv, CInv, OInv PROVE NeverOvercommitted
  OBVIOUS
<1> DEFINE w == [q \in Requests |-> req[q].net]
           R == Reserving
           P == Paid
<1>1. R \subseteq Requests /\ IsFiniteSet(R) /\ P \subseteq R
  BY FS_Subset, RequestsAssumption DEF Reserving, Paid
<1>2. \A q \in R : w[q] \in Nat
  BY <1>1 DEF IInv, RowsTyped, ServiceTypeOK, RequestRow
<1>3. {r \in Reserving : landed[r].tx = 0} = R \ P
  BY DEF Paid
<1>4. NetOf({r \in Reserving : landed[r].tx = 0}) = SumOver(w, R \ P)
      /\ PaidTotal = SumOver(w, P) /\ NetOf(Reserving) = SumOver(w, R)
  BY <1>3 DEF NetOf, PaidTotal
<1>5. reserve.reserved = NetOf(Reserving)
  BY DEF CInv, CountersMatchRequests
<1> HIDE DEF w, R, P
<1>6. SumOver(w, R) = SumOver(w, P) + SumOver(w, R \ P)
  BY <1>1, <1>2, SumSplit
<1>7. SumOver(w, P) \in Nat /\ SumOver(w, R \ P) \in Nat
  <2>1. IsFiniteSet(P) /\ IsFiniteSet(R \ P) /\ (\A q \in P : w[q] \in Nat)
        /\ \A q \in R \ P : w[q] \in Nat
    BY <1>1, <1>2, FS_Subset
  <2> QED
    BY <2>1, SumType
<1>8. solBalance \in Nat /\ ProtectedMinimum \in Nat
  BY ConfigAssumption DEF IInv, RowsTyped, ChainTypeOK
<1>9. solBalance >= ProtectedMinimum + SumOver(w, R \ P)
  BY <1>4, <1>5, <1>6, <1>7, <1>8 DEF OInv, Covered
<1> QED
  BY <1>4, <1>9 DEF NeverOvercommitted

\* Reservations are granted against a cached balance that lags behind the
\* releases in flight (available_capacity, reconcile). As long as the treasury
\* takes nothing out and no released request is refunded, what is promised and
\* not yet paid stays covered by the live reserve above its floor, for any
\* number of requests, limit changes, reorgs, restarts and lost releases.
THEOREM PromisesCovered ==
  ASSUME "treasury" \notin Events
  PROVE  Spec /\ []NeverReleasedAndRefunded => []NeverOvercommitted
<1>1. Init => IInv /\ CInv /\ OInv
  BY InitIInv, InitBooked, InitCovered
<1>2. IInv /\ CInv /\ OInv /\ NeverReleasedAndRefunded' /\ [Next]_vars => (IInv /\ CInv /\ OInv)'
  BY NextOK, NextBooked, NextCovered DEF StepOK
<1>3. IInv /\ CInv /\ OInv => NeverOvercommitted
  BY CoveredSuffices
<1> QED
  BY <1>1, <1>2, <1>3, PTL DEF Spec

=============================================================================
