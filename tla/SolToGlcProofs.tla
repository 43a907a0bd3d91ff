---------------------------- MODULE SolToGlcProofs ----------------------------
(***************************************************************************)
(* Proofs about SolToGlc, for every value of its constants: a request is   *)
(* paid or refunded, never both; the ledger claims no outcome the chains   *)
(* do not have; no refund transaction exists without its row; the counters *)
(* of the reserve row are exact; and the open refunds fit together.        *)
(***************************************************************************)
EXTENDS SolToGlc, SumsProofs

Paid == {"Confirmed", "Completed"}

\* The state of a request says which payout and which refund it has.
StateFits(row) ==
  /\ row.payout = "Built" => row.state = "SourceFinalized"
  /\ row.payout = "Signed" <=> row.state = "SettlementAuthorized"
  /\ row.payout = "Broadcast" <=> row.state = "DestinationSubmitted"
  /\ row.payout = "Confirmed" <=> row.state = "DestinationConfirmed"
  /\ row.payout = "Completed" <=> row.state = "Settled"
  /\ row.refund = "Pending" <=> row.state = "RefundPending"
  /\ row.refund = "Broadcast" <=> row.state = "RefundBroadcast"
  /\ row.refund = "Confirmed" <=> row.state = "Refunded"

\* What a row says of the chains, and the chains of the row.
ChainFits(row, ob, glc, comp, ref) ==
  /\ ob = "Completed" => row.payout \in Paid
  /\ ob = "Refunded" => row.refund \in {"Broadcast", "Confirmed"}
  /\ row.payout \in Paid => glc = "deep"
  /\ row.payout = "Completed" => ob = "Completed"
  /\ row.refund = "Confirmed" => ob = "Refunded"
  /\ comp # <<>> => row.payout \in Paid
  /\ ref # <<>> => row.refund \in {"Broadcast", "Confirmed"}
  /\ \A i \in DOMAIN comp : comp[i] = "landed" => ob = "Completed"
  /\ \A i \in DOMAIN ref : ref[i] = "landed" => ob = "Refunded"
  /\ row.completion # 0 => row.completion \in DOMAIN comp
  /\ row.refund = "Broadcast" => row.refundSig \in DOMAIN ref

RowFits(row, r) ==
  StateFits(row) /\ ChainFits(row, obligation[r], glcTx[r], completionTx[r], refundTx[r])

RowsFit == \A r \in Obligations : RowFits(req[r], r)

\* What the orchestrator and the operators' commands rely on.
OrchFits(work) ==
  work.step \in {"attested", "submitted"} => req[work.req].payout \in Paid

CommandFits(work) ==
  work.step \in Tracking => work.sig \in DOMAIN refundTx[work.req]

ProcessesFit == OrchFits(orch) /\ \A o \in Operators : CommandFits(op[o])

\* The inductive invariant.
IInv == ServiceTypeOK /\ ChainTypeOK /\ RowsFit /\ ProcessesFit

\* Nothing a process may have noted of a request is taken back.
PaidKept(r) == req[r].payout \in Paid => req'[r].payout \in Paid

OrchKept ==
  \/ orch' = orch
  \/ orch'.step \in {"attested", "submitted"} => req'[orch'.req].payout \in Paid

CommandsKept ==
  \A o \in Operators :
    \/ op'[o] = op[o]
    \/ op'[o].step \in Tracking => op'[o].sig \in DOMAIN refundTx'[op'[o].req]

\* The balance of the Solana reserve is a number.
LEMMA SumsTyped ==
  ASSUME NEW S \in SUBSET Obligations
  PROVE  NetOf(S) \in Nat /\ GrossOf(S) \in Nat /\ IsFiniteSet(S)
<1>1. IsFiniteSet(S) /\ (\A r \in S : Net[r] \in Nat) /\ (\A r \in S : Gross[r] \in Nat)
  BY FS_Subset, ObligationsAssumption, AmountsAssumption
<1> QED
  BY <1>1, SumType DEF NetOf, GrossOf

LEMMA LiveSolTyped == LiveSol \in Int
<1>1. /\ {r \in Obligations : obligation[r] # "none"} \in SUBSET Obligations
      /\ {r \in Obligations : obligation[r] = "Refunded"} \in SUBSET Obligations
  OBVIOUS
<1>2. SolInitial \in Nat
  BY ConfigAssumption
<1> QED
  BY <1>1, <1>2, SumsTyped DEF LiveSol

\* What a process holds names a request, and a signature when it tracks one.
LEMMA StepShape ==
  ASSUME NEW work \in Steps
  PROVE  /\ work.step \in {"attested", "submitted"} => work.req \in Obligations
         /\ work.step \in Tracking => work.req \in Obligations /\ work.sig \in Nat
BY DEF Steps, Idle, Tracking

\* A step that touches one request and its transactions, and fits them.
LEMMA OneRequest ==
  ASSUME IInv, ServiceTypeOK', ChainTypeOK', NEW r \in Obligations,
         \A q \in Obligations \ {r} :
           /\ req'[q] = req[q] /\ obligation'[q] = obligation[q] /\ glcTx'[q] = glcTx[q]
           /\ completionTx'[q] = completionTx[q] /\ refundTx'[q] = refundTx[q],
         StateFits(req'[r]),
         ChainFits(req'[r], obligation'[r], glcTx'[r], completionTx'[r], refundTx'[r]),
         PaidKept(r), DOMAIN refundTx[r] \subseteq DOMAIN refundTx'[r],
         OrchKept, CommandsKept
  PROVE  IInv'
<1>1. RowsFit'
  BY DEF IInv, RowsFit, RowFits
<1>2. \A q \in Obligations : PaidKept(q) /\ DOMAIN refundTx[q] \subseteq DOMAIN refundTx'[q]
  BY DEF PaidKept
<1>3. OrchFits(orch)'
  <2>1. orch \in Steps /\ (orch.step \in {"attested", "submitted"} => req[orch.req].payout \in Paid)
    BY DEF IInv, ServiceTypeOK, ProcessesFit, OrchFits
  <2> QED
    BY <1>2, <2>1, StepShape DEF OrchKept, OrchFits, PaidKept
<1>4. ASSUME NEW o \in Operators PROVE CommandFits(op[o])'
  <2>1. op[o] \in Steps /\ (op[o].step \in Tracking => op[o].sig \in DOMAIN refundTx[op[o].req])
    BY DEF IInv, ServiceTypeOK, ProcessesFit, CommandFits
  <2> QED
    BY <1>2, <2>1, StepShape DEF CommandsKept, CommandFits
<1> QED
  BY <1>1, <1>3, <1>4 DEF IInv, ProcessesFit

\* A ledger transaction that rewrites one row.
LEMMA RowStep ==
  ASSUME IInv, NEW r \in Obligations, NEW row \in RequestRow,
         req' = [req EXCEPT ![r] = row], RowFits(row, r),
         req[r].payout \in Paid => row.payout \in Paid,
         orch' \in Steps, op' \in [Operators -> Steps], UNCHANGED chainVars,
         orch' = orch \/ orch'.step \notin {"attested", "submitted"},
         \A o \in Operators : op'[o] = op[o] \/ op'[o].step \notin Tracking
  PROVE  IInv'
<1>1. ServiceTypeOK' /\ req'[r] = row /\ \A q \in Obligations \ {r} : req'[q] = req[q]
  BY DEF IInv, ServiceTypeOK
<1>2. ChainTypeOK'
  BY DEF IInv, ChainTypeOK, chainVars
<1>3. OrchKept /\ CommandsKept /\ PaidKept(r)
  BY <1>1 DEF OrchKept, CommandsKept, PaidKept
<1>4. StateFits(req'[r])
      /\ ChainFits(req'[r], obligation'[r], glcTx'[r], completionTx'[r], refundTx'[r])
  BY <1>1 DEF RowFits, chainVars
<1> QED
  BY <1>1, <1>2, <1>3, <1>4, OneRequest DEF chainVars

\* The same, when no process moves either.
LEMMA PlainRowStep ==
  ASSUME IInv, NEW r \in Obligations, NEW row \in RequestRow,
         req' = [req EXCEPT ![r] = row], RowFits(row, r),
         req[r].payout \in Paid => row.payout \in Paid,
         UNCHANGED <<orch, op, chainVars>>
  PROVE  IInv'
<1>1. orch' \in Steps /\ op' \in [Operators -> Steps]
  BY DEF IInv, ServiceTypeOK
<1> QED
  BY <1>1, RowStep

\* A step that leaves the rows and their transactions alone.
LEMMA FrameStep ==
  ASSUME IInv, UNCHANGED <<req, obligation, glcTx, completionTx, refundTx>>,
         paused' \in BOOLEAN, manual' \in [Obligations -> {"none", "exported", "sent"}],
         orch' \in Steps, op' \in [Operators -> Steps], OrchKept, CommandsKept
  PROVE  IInv'
<1>1. ServiceTypeOK' /\ ChainTypeOK'
  BY DEF IInv, ServiceTypeOK, ChainTypeOK
<1>2. RowsFit'
  BY DEF IInv, RowsFit, RowFits
<1>3. OrchFits(orch)'
  BY DEF IInv, ProcessesFit, OrchFits, OrchKept
<1>4. \A o \in Operators : CommandFits(op[o])'
  BY DEF IInv, ProcessesFit, CommandFits, CommandsKept
<1> QED
  BY <1>1, <1>2, <1>3, <1>4 DEF IInv, ProcessesFit

\* A row, typed and fitting, as every lemma below needs it.
LEMMA Row ==
  ASSUME IInv, NEW r \in Obligations
  PROVE  /\ req[r] \in RequestRow
         /\ StateFits(req[r])
         /\ ChainFits(req[r], obligation[r], glcTx[r], completionTx[r], refundTx[r])
         /\ completionTx[r] \in Seq({"flight", "landed", "failed", "dropped", "forgotten"})
         /\ refundTx[r] \in Seq({"signed", "flight", "landed", "failed", "dropped"})
BY DEF IInv, ServiceTypeOK, ChainTypeOK, RowsFit, RowFits

-----------------------------------------------------------------------------
(* Folding and review.                                                      *)

\* A deposit is folded into a row that has neither payout nor refund.
LEMMA FoldStep ==
  ASSUME IInv, NEW r \in Obligations, NEW limited, NEW utxoLow, NEW burst, NEW refused,
         FoldSolDeposit(r, limited, utxoLow, burst, refused)
  PROVE  IInv'
<1> DEFINE note == ParkReason(r, limited, utxoLow, burst, refused)
           state == IF note = "none" THEN "SourceFinalized" ELSE "ManualReview"
           admitted == note = "none"
           hold == IF burst THEN "burst" ELSE "none"
           row == [NoRequest EXCEPT !.state = state, !.note = note,
                                    !.advanced = admitted, !.hold = hold]
<1>1. /\ note \in Notes /\ state \in {"SourceFinalized", "ManualReview"}
      /\ admitted \in BOOLEAN /\ hold \in {"burst", "none"}
  BY DEF ParkReason, Blocker, Notes
<1>2. /\ req[r].state = "Absent"
      /\ req' = [req EXCEPT ![r] = row]
      /\ UNCHANGED <<orch, op, chainVars>>
  BY DEF FoldSolDeposit, SetRow
<1> HIDE DEF note, state, admitted, hold
<1>3. row \in RequestRow
  BY <1>1 DEF RequestRow, NoRequest, States
<1>4. row.payout = "none" /\ row.refund = "none" /\ row.completion = 0 /\ row.state = state
  BY DEF NoRequest
<1> HIDE DEF row
<1>5. RowFits(row, r) /\ (req[r].payout \in Paid => row.payout \in Paid)
  BY <1>1, <1>2, <1>4, Row DEF StateFits, ChainFits, RowFits, Paid, RequestRow
<1> QED
  BY <1>2, <1>3, <1>5, PlainRowStep

\* A parked request with neither payout nor refund is admitted.
LEMMA ResumeStep ==
  ASSUME IInv, NEW r \in Obligations, Resume(r)
  PROVE  IInv'
<1> DEFINE row == [req[r] EXCEPT !.state = "SourceFinalized", !.note = "none",
                              !.hold = "none", !.advanced = TRUE]
<1>1. row \in RequestRow
  <2>1. PICK k \in RequestRow : k = req[r]
    BY Row
  <2> DEFINE a == [k EXCEPT !.state = "SourceFinalized"]
             b == [a EXCEPT !.note = "none"]
             c == [b EXCEPT !.hold = "none", !.advanced = TRUE]
  <2>2. row = c
    BY <2>1
  <2>3. "SourceFinalized" \in States /\ "none" \in Notes
    BY DEF States, Notes
  <2>4. a \in RequestRow
    BY <2>3 DEF RequestRow
  <2>5. b \in RequestRow
    <3> HIDE DEF a
    <3> QED
      BY <2>3, <2>4 DEF RequestRow
  <2>6. c \in RequestRow
    <3> HIDE DEF b
    <3> QED
      BY <2>5 DEF RequestRow
  <2> QED
    BY <2>2, <2>6
<1>2. RowFits(row, r) /\ (req[r].payout \in Paid => row.payout \in Paid)
  BY Row DEF Resume, Resumable, SetRow, StateFits, ChainFits, RowFits, Paid, RequestRow
<1>3. req' = [req EXCEPT ![r] = row] /\ UNCHANGED <<orch, op, chainVars>>
  BY DEF Resume, Resumable, SetRow
<1> QED
  BY <1>1, <1>2, <1>3, PlainRowStep

\* Holds and decisions are told by no other column.
LEMMA HoldStep ==
  ASSUME IInv, NEW r \in Obligations,
         NEW hold \in {"none", "operator", "burst", "operator_refund", "burst_refund"},
         RowOnly(r, [req[r] EXCEPT !.hold = hold])
  PROVE  IInv'
<1> DEFINE row == [req[r] EXCEPT !.hold = hold]
<1>1. row \in RequestRow
  BY Row DEF RequestRow
<1>2. RowFits(row, r) /\ (req[r].payout \in Paid => row.payout \in Paid)
  BY Row DEF StateFits, ChainFits, RowFits, Paid, RequestRow
<1> QED
  BY <1>1, <1>2, PlainRowStep DEF RowOnly, SetRow

\* A request is closed out of review, without payout or refund.
LEMMA CloseStep ==
  ASSUME IInv, NEW r \in Obligations, req[r].state = "ManualReview",
         RowOnly(r, [req[r] EXCEPT !.state = "Closed"])
  PROVE  IInv'
<1> DEFINE row == [req[r] EXCEPT !.state = "Closed"]
<1>1. row \in RequestRow
  BY Row DEF RequestRow, States
<1>2. RowFits(row, r) /\ (req[r].payout \in Paid => row.payout \in Paid)
  BY Row DEF StateFits, ChainFits, RowFits, Paid, RequestRow
<1> QED
  BY <1>1, <1>2, PlainRowStep DEF RowOnly, SetRow

\* The out-of-band refund leaves the rows and their transactions alone.
LEMMA ManualStep ==
  ASSUME IInv, NEW r \in Obligations, NEW from, NEW to \in {"exported", "sent"},
         ManualRefundMoves(r, from, to)
  PROVE  IInv'
BY FrameStep DEF ManualRefundMoves, ledgerVars, IInv, ServiceTypeOK, ChainTypeOK, OrchKept,
                 CommandsKept

\* Every step of the review.
LEMMA ReviewStep ==
  ASSUME IInv, NEW r \in Obligations, Review(r)
  PROVE  IInv'
<1>1. CASE AutoResume(r) \/ ResumeManualReview(r) \/ ProcessHeldManualReview(r)
  BY <1>1, ResumeStep DEF AutoResume, ResumeManualReview, ProcessHeldManualReview
<1>2. CASE SetManualReviewHold(r) \/ ClearManualReviewHold(r)
  BY <1>2, HoldStep DEF SetManualReviewHold, ClearManualReviewHold
<1>3. CASE DecideRefund(r)
  <2> DEFINE hold == IF req[r].hold = "burst" THEN "burst_refund" ELSE "operator_refund"
  <2>1. RowOnly(r, [req[r] EXCEPT !.hold = hold])
    BY <1>3, Row DEF DecideRefund, RequestRow
  <2> QED
    BY <2>1, HoldStep
<1>4. CASE CloseManualReview(r) \/ RecordManualSolanaRefund(r)
  BY <1>4, CloseStep DEF CloseManualReview, Closable, RecordManualSolanaRefund,
                         ManualRefundEligible
<1>5. CASE ExportManualRefund(r) \/ SendManualRefund(r)
  BY <1>5, ManualStep DEF ExportManualRefund, SendManualRefund
<1> QED
  BY <1>1, <1>2, <1>3, <1>4, <1>5 DEF Review

-----------------------------------------------------------------------------
(* The payout and its completion.                                           *)

\* What the orchestrator and the commands may hold.
LEMMA HeldSteps ==
  ASSUME NEW r \in Obligations
  PROVE  /\ Idle \in Steps /\ Idle.step = "idle"
         /\ \A step \in {"built", "signed", "paid", "attested", "submitted", "planned",
                         "begun", "proved"} :
              /\ Working(step, r) \in Steps
              /\ Working(step, r).step = step /\ Working(step, r).req = r
BY DEF Steps, Idle, Working

\* A transaction of the orchestrator that leaves no completion in hand.
LEMMA TickRowStep ==
  ASSUME IInv, NEW r \in Obligations, NEW row \in RequestRow,
         req' = [req EXCEPT ![r] = row], RowFits(row, r),
         req[r].payout \in Paid => row.payout \in Paid,
         orch' \in {Idle, Working("built", r), Working("signed", r)},
         UNCHANGED <<op, chainVars>>
  PROVE  IInv'
<1>1. orch' \in Steps /\ orch'.step \notin {"attested", "submitted"}
  BY HeldSteps
<1>2. op' \in [Operators -> Steps]
  BY DEF IInv, ServiceTypeOK
<1> QED
  BY <1>1, <1>2, RowStep

\* The payout is planned, signed and marked sent in this order.
LEMMA PayoutRows ==
  ASSUME IInv, NEW r \in Obligations,
         NEW row \in {[req[r] EXCEPT !.payout = "Built"],
                      [req[r] EXCEPT !.payout = "Signed", !.state = "SettlementAuthorized"],
                      [req[r] EXCEPT !.payout = "Broadcast", !.state = "DestinationSubmitted"]},
         \/ /\ row = [req[r] EXCEPT !.payout = "Built"]
            /\ req[r].state = "SourceFinalized"
         \/ /\ row = [req[r] EXCEPT !.payout = "Signed", !.state = "SettlementAuthorized"]
            /\ req[r].payout = "Built"
         \/ /\ row = [req[r] EXCEPT !.payout = "Broadcast", !.state = "DestinationSubmitted"]
            /\ req[r].payout = "Signed"
  PROVE  row \in RequestRow /\ RowFits(row, r) /\ req[r].payout \notin Paid
<1>1. row \in RequestRow
  BY Row DEF RequestRow, States
<1>2. CASE /\ row = [req[r] EXCEPT !.payout = "Built"]
           /\ req[r].state = "SourceFinalized"
  BY <1>2, Row DEF StateFits, ChainFits, RowFits, Paid, RequestRow
<1>3. CASE /\ row = [req[r] EXCEPT !.payout = "Signed", !.state = "SettlementAuthorized"]
           /\ req[r].payout = "Built"
  BY <1>3, <1>1, Row DEF StateFits, ChainFits, RowFits, Paid, RequestRow
<1>4. CASE /\ row = [req[r] EXCEPT !.payout = "Broadcast", !.state = "DestinationSubmitted"]
           /\ req[r].payout = "Signed"
  BY <1>4, <1>1, Row DEF StateFits, ChainFits, RowFits, Paid, RequestRow
<1> QED
  BY <1>1, <1>2, <1>3, <1>4

\* The payout is sent, or already there: a buried one stays buried.
LEMMA SendPayoutStep ==
  ASSUME IInv, NEW r \in Obligations, BroadcastPayout(r),
         UNCHANGED <<req, obligation, paused, completionTx, refundTx, manual>>,
         orch' \in Steps, op' \in [Operators -> Steps], OrchKept, CommandsKept
  PROVE  IInv'
<1>1. glcTx[r] \in {"none", "mempool", "mined", "deep"}
  BY DEF IInv, ChainTypeOK
<1> DEFINE sent == IF glcTx[r] = "none" THEN "mempool" ELSE glcTx[r]
<1>2. glcTx' = [glcTx EXCEPT ![r] = sent]
  BY <1>1 DEF BroadcastPayout, IInv, ChainTypeOK
<1>3. sent \in {"none", "mempool", "mined", "deep"} /\ (glcTx[r] = "deep" => sent = "deep")
  BY <1>1
<1> HIDE DEF sent
<1>4. glcTx'[r] = sent /\ \A q \in Obligations \ {r} : glcTx'[q] = glcTx[q]
  BY <1>2 DEF IInv, ChainTypeOK
<1>5. ServiceTypeOK' /\ ChainTypeOK'
  BY <1>2, <1>3 DEF IInv, ServiceTypeOK, ChainTypeOK
<1>6. StateFits(req'[r])
      /\ ChainFits(req'[r], obligation'[r], glcTx'[r], completionTx'[r], refundTx'[r])
  BY <1>3, <1>4, Row DEF ChainFits
<1>7. PaidKept(r)
  BY DEF PaidKept
<1> QED
  BY <1>4, <1>5, <1>6, <1>7, OneRequest

\* Every step of the payout.
LEMMA PayoutStep ==
  ASSUME IInv, NEW r \in Obligations, Payout(r)
  PROVE  IInv'
<1>1. CASE BuildPayout(r)
  <2> DEFINE row == [req[r] EXCEPT !.payout = "Built"]
  <2>1. row \in RequestRow /\ RowFits(row, r) /\ req[r].payout \notin Paid
    BY <1>1, PayoutRows DEF BuildPayout
  <2> QED
    BY <1>1, <2>1, TickRowStep DEF BuildPayout, SetRow
<1>2. CASE RecordGoldcoinPayoutSigned(r)
  <2> DEFINE row == [req[r] EXCEPT !.payout = "Signed", !.state = "SettlementAuthorized"]
  <2>1. row \in RequestRow /\ RowFits(row, r) /\ req[r].payout \notin Paid
    BY <1>2, PayoutRows DEF RecordGoldcoinPayoutSigned
  <2> QED
    BY <1>2, <2>1, TickRowStep DEF RecordGoldcoinPayoutSigned, SetRow
<1>3. CASE SendPayout(r)
  <2>1. orch' \in Steps /\ OrchKept
    BY <1>3, HeldSteps DEF SendPayout, OrchKept
  <2>2. op' \in [Operators -> Steps] /\ CommandsKept
    BY <1>3 DEF SendPayout, CommandsKept, IInv, ServiceTypeOK
  <2> QED
    BY <1>3, <2>1, <2>2, SendPayoutStep DEF SendPayout, ledgerVars
<1>4. CASE RecordGoldcoinPayoutBroadcast(r)
  <2>1. CASE req[r].payout = "Signed"
    <3> DEFINE row == [req[r] EXCEPT !.payout = "Broadcast", !.state = "DestinationSubmitted"]
    <3>1. row \in RequestRow /\ RowFits(row, r) /\ req[r].payout \notin Paid
      BY <2>1, PayoutRows
    <3> QED
      BY <1>4, <2>1, <3>1, TickRowStep DEF RecordGoldcoinPayoutBroadcast, PayoutBroadcast, SetRow
  <2>2. CASE req[r].payout # "Signed"
    <3>1. UNCHANGED <<req, op, chainVars>> /\ orch' = Idle
      BY <1>4, <2>2 DEF RecordGoldcoinPayoutBroadcast, PayoutBroadcast
    <3> QED
      BY <3>1, FrameStep, HeldSteps DEF chainVars, IInv, ServiceTypeOK, ChainTypeOK, OrchKept,
                                        CommandsKept
  <2> QED
    BY <2>1, <2>2
<1>5. CASE UpdateGoldcoinPayoutConfirmations(r)
  <2> DEFINE row == [req[r] EXCEPT !.payout = "Confirmed", !.state = "DestinationConfirmed"]
  <2>1. row \in RequestRow
    BY Row DEF RequestRow, States
  <2>2. RowFits(row, r) /\ row.payout \in Paid
    BY <1>5, Row DEF UpdateGoldcoinPayoutConfirmations, DepthReached, StateFits, ChainFits,
                     RowFits, Paid, RequestRow
  <2> QED
    BY <1>5, <2>1, <2>2, PlainRowStep DEF UpdateGoldcoinPayoutConfirmations, RowOnly, SetRow
<1> QED
  BY <1>1, <1>2, <1>3, <1>4, <1>5 DEF Payout

\* A completion settles only what the chain has completed.
LEMMA SettleStep ==
  ASSUME IInv, NEW r \in Obligations, MarkGoldcoinCompletionConfirmed(r)
  PROVE  IInv'
<1> DEFINE row == [req[r] EXCEPT !.payout = "Completed", !.state = "Settled"]
<1>1. row \in RequestRow /\ row.payout \in Paid
  BY Row DEF RequestRow, States, Paid
<1>2. req[r].payout = "Confirmed" /\ obligation[r] = "Completed"
  <2>1. CASE ProvenComplete(r)
    BY <2>1 DEF MarkGoldcoinCompletionConfirmed, ProvenComplete
  <2>2. CASE CompletionStatus(r) = "landed"
    <3>1. req[r].completion # 0 /\ completionTx[r][req[r].completion] = "landed"
      BY <2>2 DEF CompletionStatus
    <3> QED
      BY <3>1, Row DEF ChainFits, MarkGoldcoinCompletionConfirmed
  <2> QED
    BY <2>1, <2>2 DEF MarkGoldcoinCompletionConfirmed
<1>3. RowFits(row, r)
  BY <1>2, Row DEF StateFits, ChainFits, RowFits, Paid, RequestRow
<1> QED
  BY <1>1, <1>3, PlainRowStep DEF MarkGoldcoinCompletionConfirmed, Settle, SetRow

\* A completion is attested, sent and recorded for a buried payout.
LEMMA CompletionStep ==
  ASSUME IInv, NEW r \in Obligations, Completion(r)
  PROVE  IInv'
<1>0. op \in [Operators -> Steps] /\ orch \in Steps
  BY DEF IInv, ServiceTypeOK
<1>1. CASE SubmitCompletion(r)
  <2>1. orch' \in Steps /\ orch'.req = r
    BY <1>1, HeldSteps DEF SubmitCompletion
  <2>2. OrchKept /\ CommandsKept
    BY <1>1, <2>1 DEF SubmitCompletion, ledgerVars, OrchKept, CommandsKept, Paid
  <2> QED
    BY <1>0, <1>1, <2>1, <2>2, FrameStep
       DEF SubmitCompletion, ledgerVars, chainVars, IInv, ChainTypeOK
<1>2. CASE SendCompletion(r)
  <2>1. orch' \in Steps /\ orch'.req = r
    BY <1>2, HeldSteps DEF SendCompletion
  <2>2. req[r].payout \in Paid
    <3>1. orch.step = "attested" /\ orch.req = r
      BY <1>2, HeldSteps DEF SendCompletion
    <3> QED
      BY <3>1 DEF IInv, ProcessesFit, OrchFits
  <2> DEFINE comp == Append(completionTx[r], "flight")
  <2>3. /\ comp \in Seq({"flight", "landed", "failed", "dropped", "forgotten"})
        /\ DOMAIN completionTx[r] \subseteq DOMAIN comp
        /\ \A i \in DOMAIN comp : comp[i] = "landed" =>
             i \in DOMAIN completionTx[r] /\ completionTx[r][i] = "landed"
    BY Row
  <2>4. completionTx' = [completionTx EXCEPT ![r] = comp]
    BY <1>2 DEF SendCompletion, IInv, ChainTypeOK
  <2> HIDE DEF comp
  <2>5. completionTx'[r] = comp /\ \A q \in Obligations \ {r} : completionTx'[q] = completionTx[q]
    BY <2>4 DEF IInv, ChainTypeOK
  <2>6. UNCHANGED <<req, op, obligation, paused, glcTx, refundTx, manual>>
    BY <1>2 DEF SendCompletion, ledgerVars
  <2>7. ServiceTypeOK' /\ ChainTypeOK'
    BY <2>1, <2>3, <2>4, <2>6 DEF IInv, ServiceTypeOK, ChainTypeOK
  <2>8. StateFits(req'[r])
        /\ ChainFits(req'[r], obligation'[r], glcTx'[r], completionTx'[r], refundTx'[r])
    BY <2>2, <2>3, <2>5, <2>6, Row DEF ChainFits
  <2>9. OrchKept /\ CommandsKept /\ PaidKept(r)
    BY <2>1, <2>2, <2>6 DEF OrchKept, CommandsKept, PaidKept
  <2> QED
    BY <2>5, <2>6, <2>7, <2>8, <2>9, OneRequest
<1>3. CASE RecordGoldcoinCompletionSubmitted(r)
  <2> DEFINE sent == Len(completionTx[r])
             times == req[r].submissions + 1
             row == [req[r] EXCEPT !.completion = sent, !.submissions = times]
  <2>1. /\ sent \in Nat /\ times \in Nat
        /\ sent # 0 => sent \in DOMAIN completionTx[r]
    BY Row DEF RequestRow
  <2>2. req' = [req EXCEPT ![r] = row] /\ orch' = Idle /\ UNCHANGED <<op, chainVars>>
    BY <1>3, Row DEF RecordGoldcoinCompletionSubmitted, SetRow, RequestRow
  <2> HIDE DEF sent, times
  <2>3. row \in RequestRow
    BY <2>1, Row DEF RequestRow
  <2>4. RowFits(row, r) /\ (req[r].payout \in Paid => row.payout \in Paid)
    BY <2>1, Row DEF StateFits, ChainFits, RowFits, RequestRow
  <2> QED
    BY <2>2, <2>3, <2>4, TickRowStep
<1> QED
  BY <1>1, <1>2, <1>3, SettleStep DEF Completion

\* A tick that stops holds nothing any more.
LEMMA AbandonTickStep ==
  ASSUME IInv, AbandonTick
  PROVE  IInv'
<1>1. Idle \in Steps /\ Idle.step = "idle"
  BY DEF Idle, Steps
<1> QED
  BY <1>1, FrameStep DEF AbandonTick, ledgerVars, chainVars, IInv, ServiceTypeOK, ChainTypeOK,
                         OrchKept, CommandsKept

-----------------------------------------------------------------------------
(* Refund commands.                                                         *)

\* A command moves on, and what it tracks exists.
LEMMA CommandMoves ==
  ASSUME IInv, NEW o \in Operators, NEW next \in Steps, Command(o, next),
         next.step \in Tracking => next.sig \in DOMAIN refundTx'[next.req]
  PROVE  op' \in [Operators -> Steps] /\ CommandsKept
BY DEF Command, CommandsKept, IInv, ServiceTypeOK

\* A command that changes nothing else.
LEMMA CommandStepOnly ==
  ASSUME IInv, NEW o \in Operators, NEW next \in Steps, Command(o, next),
         next.step \in Tracking => next.sig \in DOMAIN refundTx[next.req],
         UNCHANGED <<req, orch, chainVars>>
  PROVE  IInv'
<1>1. op' \in [Operators -> Steps] /\ CommandsKept
  BY CommandMoves DEF chainVars
<1> QED
  BY <1>1, FrameStep DEF chainVars, IInv, ServiceTypeOK, ChainTypeOK, OrchKept

\* A command that rewrites the row of its request and tracks nothing.
LEMMA CommandRowStep ==
  ASSUME IInv, NEW o \in Operators, NEW next \in Steps, next.step \notin Tracking,
         Command(o, next), NEW r \in Obligations, NEW row \in RequestRow,
         req' = [req EXCEPT ![r] = row], RowFits(row, r),
         req[r].payout \in Paid => row.payout \in Paid,
         UNCHANGED <<orch, chainVars>>
  PROVE  IInv'
<1>1. /\ op' \in [Operators -> Steps]
      /\ \A p \in Operators : op'[p] = op[p] \/ op'[p].step \notin Tracking
  BY DEF Command, IInv, ServiceTypeOK
<1>2. orch' \in Steps
  BY DEF IInv, ServiceTypeOK
<1> QED
  BY <1>1, <1>2, RowStep

\* A refund is confirmed once the chain has it; a repeat changes nothing.
LEMMA ConfirmStep ==
  ASSUME IInv, NEW o \in Operators, NEW r \in Obligations, obligation[r] = "Refunded",
         MarkSolanaRefundConfirmed(r), Command(o, Idle), UNCHANGED <<orch, chainVars>>
  PROVE  IInv'
<1>0. Idle \in Steps /\ Idle.step \notin Tracking
  BY DEF Idle, Steps, Tracking
<1>1. CASE req[r].refund = "Broadcast"
  <2> DEFINE row == [req[r] EXCEPT !.refund = "Confirmed", !.state = "Refunded"]
  <2>1. row \in RequestRow
    BY Row DEF RequestRow, States
  <2>2. RowFits(row, r) /\ (req[r].payout \in Paid => row.payout \in Paid)
    BY <1>1, Row DEF StateFits, ChainFits, RowFits, Paid, RequestRow
  <2>3. req' = [req EXCEPT ![r] = row]
    BY <1>1 DEF MarkSolanaRefundConfirmed, SetRow
  <2> HIDE DEF row
  <2> QED
    BY <1>0, <2>1, <2>2, <2>3, CommandRowStep
<1>2. CASE req[r].refund # "Broadcast"
  BY <1>0, <1>2, CommandStepOnly DEF MarkSolanaRefundConfirmed
<1> QED
  BY <1>1, <1>2

\* The commands that start, plan, return and recover.
LEMMA StartStep ==
  ASSUME IInv, NEW o \in Operators, NEW r \in Obligations,
         ExecuteRefund(o, r) \/ ProveRefundNeverLanded(o, r)
  PROVE  IInv'
<1>1. CASE ProveRefundNeverLanded(o, r)
  <2>1. Working("proved", r) \in Steps /\ Working("proved", r).step \notin Tracking
    BY DEF Working, Steps, Tracking
  <2> QED
    BY <1>1, <2>1, CommandStepOnly DEF ProveRefundNeverLanded, ledgerVars
<1>2. CASE ExecuteRefund(o, r) /\ req[r].refund # "Broadcast"
  <2>1. \A step \in {"planned", "begun"} :
          Working(step, r) \in Steps /\ Working(step, r).step \notin Tracking
    BY DEF Working, Steps, Tracking
  <2>2. PICK step \in {"planned", "begun"} : Command(o, Working(step, r))
    BY <1>2 DEF ExecuteRefund
  <2> QED
    BY <1>2, <2>1, <2>2, CommandStepOnly DEF ExecuteRefund, ledgerVars
<1>3. CASE ExecuteRefund(o, r) /\ req[r].refund = "Broadcast"
  <2> DEFINE next == [step |-> "recovering", req |-> r, sig |-> req[r].refundSig]
  <2>1. next \in Steps
    BY Row DEF Steps, Tracking, RequestRow
  <2>2. next.sig \in DOMAIN refundTx[next.req]
    BY <1>3, Row DEF ChainFits
  <2> QED
    BY <1>3, <2>1, <2>2, CommandStepOnly DEF ExecuteRefund, ledgerVars
<1> QED
  BY <1>1, <1>2, <1>3

\* A refund begins on a parked row and returns before it is signed.
LEMMA BeginReturnStep ==
  ASSUME IInv, NEW o \in Operators, NEW r \in Obligations,
         BeginSolanaRefund(o, r) \/ ReturnRefundToManualReview(o, r)
  PROVE  IInv'
<1>0. /\ Working("begun", r) \in Steps /\ Working("begun", r).step \notin Tracking
      /\ Idle \in Steps /\ Idle.step \notin Tracking
  BY DEF Idle, Working, Steps, Tracking
<1>1. CASE BeginSolanaRefund(o, r)
  <2> DEFINE row == [req[r] EXCEPT !.refund = "Pending", !.state = "RefundPending"]
  <2>1. row \in RequestRow
    BY Row DEF RequestRow, States
  <2>2. RowFits(row, r) /\ (req[r].payout \in Paid => row.payout \in Paid)
    BY <1>1, Row DEF BeginSolanaRefund, RefundEligible, StateFits, ChainFits, RowFits, Paid,
                     RequestRow
  <2>3. req' = [req EXCEPT ![r] = row] /\ Command(o, Working("begun", r))
        /\ UNCHANGED <<orch, chainVars>>
    BY <1>1 DEF BeginSolanaRefund, SetRow
  <2> HIDE DEF row
  <2> QED
    BY <1>0, <2>1, <2>2, <2>3, CommandRowStep
<1>2. CASE ReturnRefundToManualReview(o, r)
  <2> DEFINE row == [req[r] EXCEPT !.state = "ManualReview", !.refund = "none"]
  <2>1. row \in RequestRow
    BY Row DEF RequestRow, States
  <2>2. RowFits(row, r) /\ (req[r].payout \in Paid => row.payout \in Paid)
    BY <1>2, Row DEF ReturnRefundToManualReview, Returnable, StateFits, ChainFits, RowFits, Paid,
                     RequestRow
  <2>3. req' = [req EXCEPT ![r] = row] /\ Command(o, Idle) /\ UNCHANGED <<orch, chainVars>>
    BY <1>2 DEF ReturnRefundToManualReview, SetRow
  <2> HIDE DEF row
  <2> QED
    BY <1>0, <2>1, <2>2, <2>3, CommandRowStep
<1> QED
  BY <1>1, <1>2

\* A signed refund is recorded in the step that signs it.
LEMMA SignRefundStep ==
  ASSUME IInv, NEW o \in Operators, NEW r \in Obligations, RecordSolanaRefundBroadcast(o, r)
  PROVE  IInv'
<1> DEFINE sig == Len(refundTx[r]) + 1
           ref == Append(refundTx[r], "signed")
           row == [req[r] EXCEPT !.refund = "Broadcast", !.refundSig = sig,
                                 !.state = "RefundBroadcast"]
           next == [step |-> "recorded", req |-> r, sig |-> sig]
<1>1. /\ sig \in Nat /\ sig \in DOMAIN ref
      /\ ref \in Seq({"signed", "flight", "landed", "failed", "dropped"})
      /\ DOMAIN refundTx[r] \subseteq DOMAIN ref
      /\ \A i \in DOMAIN ref : ref[i] = "landed" =>
           i \in DOMAIN refundTx[r] /\ refundTx[r][i] = "landed"
  BY Row
<1>2. /\ req[r].refund \in {"Pending", "Broadcast"} /\ obligation[r] = "Pending"
      /\ req' = [req EXCEPT ![r] = row]
      /\ Command(o, next)
      /\ UNCHANGED <<orch, obligation, paused, glcTx, completionTx, manual>>
  BY DEF RecordSolanaRefundBroadcast, RefundOpen, SetRow
<1>3. refundTx' = [refundTx EXCEPT ![r] = ref]
  BY DEF RecordSolanaRefundBroadcast, IInv, ChainTypeOK
<1> HIDE DEF sig, ref
<1>4. row \in RequestRow
  <2>1. "RefundBroadcast" \in States /\ req[r] \in RequestRow
    BY Row DEF States
  <2> QED
    BY <1>1, <2>1 DEF RequestRow
<1>5. /\ StateFits(row) /\ ChainFits(row, obligation[r], glcTx[r], completionTx[r], ref)
      /\ req[r].payout \notin Paid
  <2>1. StateFits(row) /\ req[r].payout \notin Paid
    BY <1>1, <1>2, Row DEF StateFits, Paid, RequestRow
  <2>2. ChainFits(row, obligation[r], glcTx[r], completionTx[r], ref)
    BY <1>1, <1>2, Row, SMTT(30) DEF StateFits, ChainFits, Paid, RequestRow
  <2> QED
    BY <2>1, <2>2
<1>6. next \in Steps /\ next.sig = sig /\ next.req = r
  BY <1>1 DEF Steps, Tracking
<1> HIDE DEF row, next
<1>7. refundTx'[r] = ref /\ \A q \in Obligations \ {r} : refundTx'[q] = refundTx[q]
  BY <1>3 DEF IInv, ChainTypeOK
<1>8. op' \in [Operators -> Steps] /\ CommandsKept
  BY <1>1, <1>2, <1>6, <1>7, CommandMoves
<1>9. ServiceTypeOK' /\ req'[r] = row /\ \A q \in Obligations \ {r} : req'[q] = req[q]
  BY <1>2, <1>4, <1>8 DEF IInv, ServiceTypeOK
<1>10. ChainTypeOK'
  BY <1>1, <1>2, <1>3 DEF IInv, ChainTypeOK
<1>11. OrchKept /\ PaidKept(r)
  BY <1>2, <1>5 DEF OrchKept, PaidKept
<1> QED
  BY <1>1, <1>2, <1>5, <1>7, <1>8, <1>9, <1>10, <1>11, OneRequest

\* One element of a sequence replaced.
LEMMA ReplaceOne ==
  ASSUME NEW S, NEW s \in Seq(S), NEW i \in DOMAIN s, NEW v \in S
  PROVE  /\ [s EXCEPT ![i] = v] \in Seq(S)
         /\ DOMAIN [s EXCEPT ![i] = v] = DOMAIN s
         /\ [s EXCEPT ![i] = v][i] = v
         /\ \A j \in DOMAIN s : j # i => [s EXCEPT ![i] = v][j] = s[j]
         /\ s # <<>>
OBVIOUS

\* A refund transaction moves, and takes the obligation with it when it lands.
LEMMA RefundTxStep ==
  ASSUME IInv, NEW r \in Obligations, NEW i \in DOMAIN refundTx[r],
         NEW v \in {"signed", "flight", "landed", "failed", "dropped"},
         NEW ob \in {"none", "Pending", "Completed", "Refunded"},
         refundTx' = [refundTx EXCEPT ![r] = [refundTx[r] EXCEPT ![i] = v]],
         obligation' = [obligation EXCEPT ![r] = ob],
         ob = obligation[r] \/ (obligation[r] = "Pending" /\ ob = "Refunded"),
         v = "landed" => ob = "Refunded",
         UNCHANGED <<req, orch, paused, glcTx, completionTx, manual>>,
         op' \in [Operators -> Steps], CommandsKept
  PROVE  IInv'
<1> DEFINE ref == [refundTx[r] EXCEPT ![i] = v]
<1>1. /\ ref \in Seq({"signed", "flight", "landed", "failed", "dropped"})
      /\ DOMAIN ref = DOMAIN refundTx[r]
      /\ ref[i] = v /\ \A j \in DOMAIN ref : j # i => ref[j] = refundTx[r][j]
      /\ refundTx[r] # <<>>
  BY Row, ReplaceOne
<1>2. refundTx' = [refundTx EXCEPT ![r] = ref]
  OBVIOUS
<1> HIDE DEF ref
<1>3. /\ refundTx'[r] = ref /\ \A q \in Obligations \ {r} : refundTx'[q] = refundTx[q]
      /\ obligation'[r] = ob /\ \A q \in Obligations \ {r} : obligation'[q] = obligation[q]
  BY <1>2 DEF IInv, ChainTypeOK
<1>4. ServiceTypeOK' /\ ChainTypeOK'
  BY <1>1, <1>2 DEF IInv, ServiceTypeOK, ChainTypeOK
<1>5. StateFits(req[r]) /\ ChainFits(req[r], ob, glcTx[r], completionTx[r], ref)
  BY <1>1, Row, SMTT(20) DEF StateFits, ChainFits, Paid, RequestRow
<1>6. OrchKept /\ PaidKept(r)
  BY DEF OrchKept, PaidKept
<1> QED
  BY <1>1, <1>3, <1>4, <1>5, <1>6, OneRequest

\* Every other step of a command under way.
LEMMA UnderWayStep ==
  ASSUME IInv, NEW o \in Operators, CommandStep(o)
  PROVE  IInv'
<1>0. /\ op[o] \in Steps /\ Idle \in Steps /\ Idle.step \notin Tracking
      /\ op[o].step \in Tracking => op[o].sig \in DOMAIN refundTx[op[o].req]
  BY DEF IInv, ServiceTypeOK, ProcessesFit, CommandFits, Idle, Steps, Tracking
<1>1. CASE AbandonCommand(o)
  BY <1>0, <1>1, CommandStepOnly DEF AbandonCommand, ledgerVars
<1> SUFFICES ASSUME op[o].step \in Tracking PROVE IInv'
  BY <1>1 DEF CommandStep, SendRefund, ConfirmRefund, RecoverBroadcast, Tracking
<1> DEFINE r == op[o].req
           i == op[o].sig
<1>2. r \in Obligations /\ i \in DOMAIN refundTx[r]
  BY <1>0, StepShape
<1>3. \A step \in Tracking : [op[o] EXCEPT !.step = step] \in Steps
        /\ [op[o] EXCEPT !.step = step].req = r /\ [op[o] EXCEPT !.step = step].sig = i
  BY <1>0 DEF Steps, Idle, Tracking
<1>4. CASE SendRefund(o)
  <2> DEFINE v == IF refundTx[r][i] = "signed" THEN "flight" ELSE refundTx[r][i]
             next == [op[o] EXCEPT !.step = "confirming"]
  <2>1. v \in {"signed", "flight", "landed", "failed", "dropped"}
        /\ (v = "landed" => obligation[r] = "Refunded")
    BY <1>2, Row DEF ChainFits
  <2>2. refundTx' = [refundTx EXCEPT ![r] = [refundTx[r] EXCEPT ![i] = v]]
    BY <1>2, <1>4 DEF SendRefund, IInv, ChainTypeOK
  <2>3. /\ obligation' = [obligation EXCEPT ![r] = obligation[r]]
        /\ obligation[r] \in {"none", "Pending", "Completed", "Refunded"}
    BY <1>2, <1>4 DEF SendRefund, IInv, ChainTypeOK
  <2>4. DOMAIN refundTx'[r] = DOMAIN refundTx[r]
    BY <1>2, <2>2 DEF IInv, ChainTypeOK
  <2>5. Command(o, next) /\ next \in Steps /\ next.sig \in DOMAIN refundTx'[next.req]
    BY <1>2, <1>3, <1>4, <2>4 DEF SendRefund, Tracking
  <2>6. op' \in [Operators -> Steps] /\ CommandsKept
    BY <2>5, CommandMoves
  <2>7. UNCHANGED <<req, orch, paused, glcTx, completionTx, manual>>
    BY <1>4 DEF SendRefund, ledgerVars
  <2> HIDE DEF v, r, i
  <2> QED
    BY <1>2, <2>1, <2>2, <2>3, <2>6, <2>7, RefundTxStep
<1>5. CASE ConfirmRefund(o)
  <2>1. refundTx[r][i] = "landed" /\ MarkSolanaRefundConfirmed(r) /\ Command(o, Idle)
        /\ UNCHANGED <<orch, chainVars>>
    BY <1>5 DEF ConfirmRefund
  <2>2. obligation[r] = "Refunded"
    BY <1>2, <2>1, Row DEF ChainFits
  <2> QED
    BY <1>2, <2>1, <2>2, ConfirmStep
<1>6. CASE RecoverBroadcast(o)
  <2>0. UNCHANGED <<orch, chainVars>>
    BY <1>6 DEF RecoverBroadcast
  <2>1. CASE obligation[r] = "Refunded" /\ MarkSolanaRefundConfirmed(r) /\ Command(o, Idle)
    BY <1>2, <2>0, <2>1, ConfirmStep
  <2>2. CASE Command(o, [op[o] EXCEPT !.step = "waiting"]) /\ UNCHANGED req
    <3> DEFINE next == [op[o] EXCEPT !.step = "waiting"]
    <3>1. next \in Steps /\ next.sig \in DOMAIN refundTx[next.req]
      BY <1>2, <1>3 DEF Tracking
    <3> QED
      BY <2>0, <2>2, <3>1, CommandStepOnly
  <2>3. CASE Command(o, Working("begun", r)) /\ UNCHANGED req
    <3>1. Working("begun", r) \in Steps /\ Working("begun", r).step \notin Tracking
      BY <1>2 DEF Working, Steps, Tracking
    <3> QED
      BY <2>0, <2>3, <3>1, CommandStepOnly
  <2> QED
    BY <1>6, <2>1, <2>2, <2>3 DEF RecoverBroadcast
<1> QED
  BY <1>1, <1>4, <1>5, <1>6 DEF CommandStep

\* retry-goldcoin-payout sends a signed payout and records it as the tick does.
LEMMA RetryStep ==
  ASSUME IInv, NEW o \in Operators, NEW r \in Obligations,
         RecoverStuckPayout(o, r) \/ RecordRecoveredPayout(o, r)
  PROVE  IInv'
<1>0. /\ Working("paid", r) \in Steps /\ Working("paid", r).step \notin Tracking
      /\ Idle \in Steps /\ Idle.step \notin Tracking
  BY DEF Idle, Working, Steps, Tracking
<1>1. CASE RecoverStuckPayout(o, r)
  <2>1. Command(o, Working("paid", r))
    BY <1>1 DEF RecoverStuckPayout, Command
  <2>2. op' \in [Operators -> Steps] /\ CommandsKept
    BY <1>0, <2>1, CommandMoves
  <2>3. orch' \in Steps /\ OrchKept
    BY <1>1 DEF RecoverStuckPayout, OrchKept, IInv, ServiceTypeOK
  <2> QED
    BY <1>1, <2>2, <2>3, SendPayoutStep DEF RecoverStuckPayout, ledgerVars
<1>2. CASE RecordRecoveredPayout(o, r)
  <2>1. Command(o, Idle) /\ UNCHANGED <<orch, chainVars>>
    BY <1>2 DEF RecordRecoveredPayout, Command
  <2>2. CASE req[r].payout = "Signed"
    <3> DEFINE row == [req[r] EXCEPT !.payout = "Broadcast", !.state = "DestinationSubmitted"]
    <3>1. row \in RequestRow /\ RowFits(row, r) /\ req[r].payout \notin Paid
      BY <2>2, PayoutRows
    <3>2. req' = [req EXCEPT ![r] = row]
      BY <1>2, <2>2 DEF RecordRecoveredPayout, PayoutBroadcast, SetRow
    <3> HIDE DEF row
    <3> QED
      BY <1>0, <2>1, <3>1, <3>2, CommandRowStep
  <2>3. CASE req[r].payout # "Signed"
    BY <1>0, <1>2, <2>1, <2>3, CommandStepOnly DEF RecordRecoveredPayout, PayoutBroadcast
  <2> QED
    BY <2>2, <2>3
<1> QED
  BY <1>1, <1>2

-----------------------------------------------------------------------------
(* The chains.                                                              *)

\* A completion transaction moves, and takes the obligation with it.
LEMMA CompletionTxStep ==
  ASSUME IInv, NEW r \in Obligations, NEW i \in DOMAIN completionTx[r],
         NEW v \in {"flight", "landed", "failed", "dropped", "forgotten"},
         NEW ob \in {"none", "Pending", "Completed", "Refunded"},
         completionTx' = [completionTx EXCEPT ![r] = [completionTx[r] EXCEPT ![i] = v]],
         obligation' = [obligation EXCEPT ![r] = ob],
         ob = obligation[r] \/ (obligation[r] = "Pending" /\ ob = "Completed"),
         v = "landed" => ob = "Completed",
         UNCHANGED <<req, orch, op, paused, glcTx, refundTx, manual>>
  PROVE  IInv'
<1> DEFINE comp == [completionTx[r] EXCEPT ![i] = v]
<1>1. /\ comp \in Seq({"flight", "landed", "failed", "dropped", "forgotten"})
      /\ DOMAIN comp = DOMAIN completionTx[r]
      /\ comp[i] = v /\ \A j \in DOMAIN comp : j # i => comp[j] = completionTx[r][j]
      /\ completionTx[r] # <<>>
  BY Row, ReplaceOne
<1>2. completionTx' = [completionTx EXCEPT ![r] = comp]
  OBVIOUS
<1> HIDE DEF comp
<1>3. /\ completionTx'[r] = comp /\ \A q \in Obligations \ {r} : completionTx'[q] = completionTx[q]
      /\ obligation'[r] = ob /\ \A q \in Obligations \ {r} : obligation'[q] = obligation[q]
  BY <1>2 DEF IInv, ChainTypeOK
<1>4. ServiceTypeOK' /\ ChainTypeOK'
  BY <1>1, <1>2 DEF IInv, ServiceTypeOK, ChainTypeOK
<1>5. StateFits(req[r]) /\ ChainFits(req[r], ob, glcTx[r], comp, refundTx[r])
  BY <1>1, Row DEF StateFits, ChainFits, Paid, RequestRow
<1>6. OrchKept /\ CommandsKept /\ PaidKept(r)
  BY DEF OrchKept, CommandsKept, PaidKept
<1> QED
  BY <1>3, <1>4, <1>5, <1>6, OneRequest

\* A deposit is made, or a payout not yet buried moves.
LEMMA DepositOrPayoutMoves ==
  ASSUME IInv, NEW r \in Obligations,
         \/ DepositToReserve(r)
         \/ \E from \in {"mempool", "mined"}, to \in {"mempool", "mined", "deep"} :
              PayoutMoves(r, from, to)
  PROVE  IInv'
<1>0. UNCHANGED <<req, orch, op, paused, completionTx, refundTx, manual>>
  BY DEF DepositToReserve, PayoutMoves, ledgerVars
<1>1. /\ obligation'[r] \in {obligation[r], "Pending"}
      /\ obligation'[r] = obligation[r] \/ obligation[r] = "none"
      /\ glcTx'[r] = glcTx[r] \/ glcTx[r] # "deep"
      /\ \A q \in Obligations \ {r} : obligation'[q] = obligation[q] /\ glcTx'[q] = glcTx[q]
  BY DEF DepositToReserve, PayoutMoves, IInv, ChainTypeOK
<1>2. ServiceTypeOK' /\ ChainTypeOK'
  <2>1. /\ obligation' \in [Obligations -> {"none", "Pending", "Completed", "Refunded"}]
        /\ glcTx' \in [Obligations -> {"none", "mempool", "mined", "deep"}]
    <3>1. CASE DepositToReserve(r)
      BY <3>1 DEF DepositToReserve, IInv, ChainTypeOK
    <3>2. CASE \E from \in {"mempool", "mined"}, to \in {"mempool", "mined", "deep"} :
                 PayoutMoves(r, from, to)
      BY <3>2 DEF PayoutMoves, IInv, ChainTypeOK
    <3> QED
      BY <3>1, <3>2
  <2> QED
    BY <1>0, <2>1 DEF IInv, ServiceTypeOK, ChainTypeOK
<1>3. StateFits(req[r])
      /\ ChainFits(req[r], obligation'[r], glcTx'[r], completionTx[r], refundTx[r])
  BY <1>1, Row DEF StateFits, ChainFits, Paid
<1>4. OrchKept /\ CommandsKept /\ PaidKept(r)
  BY <1>0 DEF OrchKept, CommandsKept, PaidKept
<1> QED
  BY <1>0, <1>1, <1>2, <1>3, <1>4, OneRequest

\* Every step of the chains.
LEMMA ChainMoves ==
  ASSUME IInv, NEW r \in Obligations, Chain(r)
  PROVE  IInv'
<1>0. /\ obligation[r] \in {"none", "Pending", "Completed", "Refunded"}
      /\ obligation = [obligation EXCEPT ![r] = obligation[r]]
      /\ op \in [Operators -> Steps]
  BY DEF IInv, ServiceTypeOK, ChainTypeOK
<1>1. ASSUME NEW i \in DOMAIN completionTx[r],
             LandCompletion(r, i) \/ DropCompletion(r, i) \/ ForgetCompletion(r, i)
      PROVE  IInv'
  <2>1. UNCHANGED <<req, orch, op, paused, glcTx, refundTx, manual>>
    BY <1>1 DEF LandCompletion, DropCompletion, ForgetCompletion, ledgerVars
  <2>2. CASE LandCompletion(r, i)
    <3> DEFINE done == ~paused /\ obligation[r] = "Pending"
               v == IF done THEN "landed" ELSE "failed"
               ob == IF done THEN "Completed" ELSE obligation[r]
    <3>1. completionTx' = [completionTx EXCEPT ![r] = [completionTx[r] EXCEPT ![i] = v]]
      BY <2>2 DEF LandCompletion, IInv, ChainTypeOK
    <3>2. obligation' = [obligation EXCEPT ![r] = ob]
      BY <2>2 DEF LandCompletion, IInv, ChainTypeOK
    <3>3. /\ v \in {"flight", "landed", "failed", "dropped", "forgotten"}
          /\ ob \in {"none", "Pending", "Completed", "Refunded"}
          /\ ob = obligation[r] \/ (obligation[r] = "Pending" /\ ob = "Completed")
          /\ v = "landed" => ob = "Completed"
      BY <1>0
    <3> HIDE DEF v, ob
    <3> QED
      BY <1>1, <2>1, <3>1, <3>2, <3>3, CompletionTxStep
  <2>3. CASE DropCompletion(r, i) \/ ForgetCompletion(r, i)
    <3>1. PICK v \in {"dropped", "forgotten"} :
            completionTx' = [completionTx EXCEPT ![r] = [completionTx[r] EXCEPT ![i] = v]]
      BY <2>3 DEF DropCompletion, ForgetCompletion, IInv, ChainTypeOK
    <3>2. obligation' = [obligation EXCEPT ![r] = obligation[r]]
      BY <1>0, <2>3 DEF DropCompletion, ForgetCompletion
    <3> QED
      BY <1>0, <1>1, <2>1, <3>1, <3>2, CompletionTxStep
  <2> QED
    BY <1>1, <2>2, <2>3
<1>2. ASSUME NEW i \in DOMAIN refundTx[r], LandRefund(r, i) \/ ExpireRefund(r, i)
      PROVE  IInv'
  <2>1. /\ UNCHANGED <<req, orch, paused, glcTx, completionTx, manual>>
        /\ op' \in [Operators -> Steps] /\ CommandsKept
    BY <1>0, <1>2 DEF LandRefund, ExpireRefund, ledgerVars, CommandsKept
  <2>2. CASE LandRefund(r, i)
    <3> DEFINE done == PausedAboveFloor(r) /\ obligation[r] = "Pending"
               v == IF done THEN "landed" ELSE "failed"
               ob == IF done THEN "Refunded" ELSE obligation[r]
    <3>1. refundTx' = [refundTx EXCEPT ![r] = [refundTx[r] EXCEPT ![i] = v]]
      BY <2>2 DEF LandRefund, IInv, ChainTypeOK
    <3>2. obligation' = [obligation EXCEPT ![r] = ob]
      BY <2>2 DEF LandRefund, IInv, ChainTypeOK
    <3>3. /\ v \in {"signed", "flight", "landed", "failed", "dropped"}
          /\ ob \in {"none", "Pending", "Completed", "Refunded"}
          /\ ob = obligation[r] \/ (obligation[r] = "Pending" /\ ob = "Refunded")
          /\ v = "landed" => ob = "Refunded"
      BY <1>0
    <3> HIDE DEF v, ob
    <3> QED
      BY <1>2, <2>1, <3>1, <3>2, <3>3, RefundTxStep
  <2>3. CASE ExpireRefund(r, i)
    <3>1. refundTx' = [refundTx EXCEPT ![r] = [refundTx[r] EXCEPT ![i] = "dropped"]]
      BY <2>3 DEF ExpireRefund, IInv, ChainTypeOK
    <3>2. obligation' = [obligation EXCEPT ![r] = obligation[r]]
      BY <1>0, <2>3 DEF ExpireRefund
    <3> QED
      BY <1>0, <1>2, <2>1, <3>1, <3>2, RefundTxStep
  <2> QED
    BY <1>2, <2>2, <2>3
<1>3. CASE DepositToReserve(r) \/ MinePayout(r) \/ BuryPayout(r) \/ ReorgPayout(r)
  BY <1>3, DepositOrPayoutMoves DEF MinePayout, BuryPayout, ReorgPayout
<1> QED
  BY <1>1, <1>2, <1>3 DEF Chain

\* Gates, balances and the bridge's pause touch no request.
LEMMA GatesStep ==
  ASSUME IInv, Gates \/ SetBridgePaused
  PROVE  IInv'
<1>1. UNCHANGED <<req, orch, op, obligation, glcTx, completionTx, refundTx, manual>>
  BY DEF Gates, EvaluateLiquidityAdmissionGate, ReconcileGoldcoin, SetGates,
         SetBridgePaused, chainVars, ledgerVars
<1>2. paused' \in BOOLEAN
  BY DEF Gates, EvaluateLiquidityAdmissionGate, ReconcileGoldcoin, SetGates,
         SetBridgePaused, chainVars, IInv, ChainTypeOK
<1>3. OrchKept /\ CommandsKept
  BY <1>1 DEF OrchKept, CommandsKept
<1> QED
  BY <1>1, <1>2, <1>3, FrameStep DEF IInv, ServiceTypeOK, ChainTypeOK

\* A reconciliation reads a balance and writes it later.
LEMMA ReconcileStep ==
  ASSUME IInv, ObserveSolana \/ ReconcileSolana
  PROVE  IInv'
<1>1. Idle \in Steps /\ Idle.step = "idle"
  BY DEF Idle, Steps
<1>2. orch' \in Steps /\ orch'.step \notin {"attested", "submitted"}
  BY <1>1, LiveSolTyped DEF ObserveSolana, ReconcileSolana, Steps
<1> QED
  BY <1>2, FrameStep DEF ObserveSolana, ReconcileSolana, ledgerVars, chainVars, IInv,
     ServiceTypeOK, ChainTypeOK, OrchKept, CommandsKept

-----------------------------------------------------------------------------
(* The theorems.                                                            *)

\* An empty ledger, with nothing on the chains, fits.
LEMMA InitIInv == Init => IInv
<1> SUFFICES ASSUME Init PROVE IInv
  OBVIOUS
<1>1. NoRequest \in RequestRow /\ Idle \in Steps
  BY DEF NoRequest, RequestRow, States, Notes, Idle, Steps
<1>2. ServiceTypeOK
  BY <1>1 DEF Init, ServiceTypeOK
<1>a. /\ <<>> \in Seq({"flight", "landed", "failed", "dropped", "forgotten"})
      /\ <<>> \in Seq({"signed", "flight", "landed", "failed", "dropped"})
  OBVIOUS
<1>3. ChainTypeOK
  BY <1>a DEF Init, ChainTypeOK
<1>4. RowsFit
  BY DEF Init, RowsFit, RowFits, StateFits, ChainFits, NoRequest, Paid
<1>5. ProcessesFit
  BY DEF Init, ProcessesFit, OrchFits, CommandFits, Idle, Tracking
<1> QED
  BY <1>2, <1>3, <1>4, <1>5 DEF IInv

\* Every step of Next keeps the invariant.
LEMMA NextIInv == IInv /\ [Next]_vars => IInv'
<1> SUFFICES ASSUME IInv, [Next]_vars PROVE IInv'
  OBVIOUS
<1>1. ASSUME NEW r \in Obligations, Fold(r) PROVE IInv'
  BY <1>1, FoldStep DEF Fold
<1>2. ASSUME NEW o \in Operators, NEW r \in Obligations, RefundCommand(o, r) PROVE IInv'
  BY <1>2, StartStep, BeginReturnStep, SignRefundStep, RetryStep DEF RefundCommand
<1>3. CASE UNCHANGED vars
  BY <1>3, FrameStep DEF vars, ledgerVars, chainVars, IInv, ServiceTypeOK, ChainTypeOK,
                         OrchKept, CommandsKept
<1>4. CASE Next
  BY <1>1, <1>2, <1>4, ReviewStep, PayoutStep, CompletionStep, ChainMoves, UnderWayStep,
     AbandonTickStep, GatesStep, ReconcileStep DEF Next
<1> QED
  BY <1>3, <1>4

\* Rows, transactions and processes fit one another in every reachable state.
THEOREM Fitted == Spec => []IInv
BY InitIInv, NextIInv, PTL DEF Spec

\* Whatever order ticks, operators' commands and the chains take, and
\* wherever a command stops, a request being paid on Goldcoin
\* (build_and_broadcast_payout) is never refunded on Solana, nor can a refund
\* transaction still land (begin_solana_refund, return to review).
THEOREM PaidNeverRefunded == Spec => []PaidOrRefunded
<1>1. IInv => PaidOrRefunded
  <2> SUFFICES ASSUME IInv, NEW r \in Obligations, req[r].payout # "none"
               PROVE  obligation[r] # "Refunded" /\ refundTx[r] = <<>>
    BY DEF PaidOrRefunded
  <2>1. req[r].refund \notin {"Broadcast", "Confirmed"}
    BY Row DEF StateFits, RequestRow
  <2> QED
    BY <2>1, Row DEF ChainFits
<1> QED
  BY <1>1, Fitted, PTL

\* The ledger settles and refunds only what the chains did
\* (mark_goldcoin_completion_confirmed, mark_solana_refund_confirmed), and an
\* obligation is completed only for a payout buried to the required depth.
THEOREM OutcomesAreReal == Spec => []LedgerFollowsChain
<1>1. IInv => LedgerFollowsChain
  <2> SUFFICES ASSUME IInv, NEW r \in Obligations
               PROVE  /\ req[r].state = "Settled" => obligation[r] = "Completed"
                      /\ req[r].state = "Refunded" => obligation[r] = "Refunded"
                      /\ obligation[r] = "Completed" =>
                           glcTx[r] = "deep" /\ req[r].state \in {"DestinationConfirmed", "Settled"}
    BY DEF LedgerFollowsChain
  <2> QED
    BY Row DEF StateFits, ChainFits, Paid
<1> QED
  BY <1>1, Fitted, PTL

\* Persist before broadcast: a refund transaction that may still land, and
\* one that landed, has its row in the ledger (record_solana_refund_broadcast).
THEOREM RefundsRecorded == Spec => []RefundNeverUnrecorded
<1>1. IInv => RefundNeverUnrecorded
  <2> SUFFICES ASSUME IInv, NEW r \in Obligations,
                      obligation[r] = "Refunded" \/ DOMAIN refundTx[r] # {}
               PROVE  req[r].refund \in {"Broadcast", "Confirmed"}
    BY DEF RefundNeverUnrecorded
  <2> QED
    BY Row DEF ChainFits
<1> QED
  BY <1>1, Fitted, PTL

-----------------------------------------------------------------------------
(* The counters of the Goldcoin reserve.                                    *)

\* The states of an admitted request.
Payable == {"SourceFinalized", "SettlementAuthorized", "DestinationSubmitted",
            "DestinationConfirmed", "Settled"}

AdvancedFits(row) == row.advanced <=> row.state \in Payable

\* The admitted requests that are not settled, what they sum up to, and what
\* one row adds to it.
Owing(row) == row.advanced /\ row.state # "Settled"
OwedTotal == NetOf({r \in Obligations : req[r].advanced /\ req[r].state # "Settled"})
Share(row, r) == IF Owing(row) THEN Net[r] ELSE 0

BookTyped ==
  /\ book \in [balance : Int, reserved : Int, pending : Int, paused : BOOLEAN,
               admissionClosed : BOOLEAN, liquidityClosed : BOOLEAN]
  /\ solBalance \in Int /\ autoResume \in BOOLEAN

BInv ==
  /\ BookTyped
  /\ \A r \in Obligations : AdvancedFits(req[r])
  /\ book.reserved = OwedTotal /\ book.pending = OwedTotal

\* One rewritten row moves the sum by its own share.
LEMMA OwedMoves ==
  ASSUME req \in [Obligations -> RequestRow], NEW r \in Obligations, NEW row \in RequestRow,
         req' = [req EXCEPT ![r] = row]
  PROVE  /\ OwedTotal' + Share(req[r], r) = OwedTotal + Share(row, r)
         /\ OwedTotal \in Nat /\ OwedTotal' \in Nat
         /\ Share(req[r], r) \in Nat /\ Share(row, r) \in Nat
<1> DEFINE A == {q \in Obligations : Owing(req[q])}
           B == {q \in Obligations : Owing(req'[q])}
<1>1. req'[r] = row /\ \A q \in Obligations : q # r => req'[q] = req[q]
  OBVIOUS
<1>2. A \ {r} = B \ {r} /\ A \in SUBSET Obligations /\ B \in SUBSET Obligations
  BY <1>1
<1>3. (r \in A <=> Owing(req[r])) /\ (r \in B <=> Owing(row))
  BY <1>1
<1>4. OwedTotal = SumOver(Net, A) /\ OwedTotal' = SumOver(Net, B)
  BY DEF OwedTotal, NetOf, Owing
<1>5. \A q \in Obligations : Net[q] \in Nat
  BY AmountsAssumption
<1> HIDE DEF A, B
<1>6. IsFiniteSet(A)
  BY <1>2, SumsTyped
<1>7. AgreeBut(Net, Net, A, B, r)
  BY <1>2, <1>5, <1>6 DEF AgreeBut
<1>8. MovesBy(Net, Net, A, B, r)
  BY ONLY <1>7, SumMovesBy
<1> QED
  BY <1>3, <1>4, <1>5, <1>8 DEF Share, MovesBy

\* A transaction that rewrites one row and moves both counters by its share.
LEMMA BookedRow ==
  ASSUME IInv, BInv, NEW r \in Obligations, NEW row \in RequestRow,
         req' = [req EXCEPT ![r] = row], AdvancedFits(row), BookTyped',
         book'.reserved = book.reserved + Share(row, r) - Share(req[r], r),
         book'.pending = book.pending + Share(row, r) - Share(req[r], r)
  PROVE  BInv'
<1>1. req \in [Obligations -> RequestRow]
  BY DEF IInv, ServiceTypeOK
<1>2. /\ OwedTotal' + Share(req[r], r) = OwedTotal + Share(row, r)
      /\ OwedTotal \in Nat /\ OwedTotal' \in Nat
      /\ Share(req[r], r) \in Nat /\ Share(row, r) \in Nat
  BY <1>1, OwedMoves
<1>3. book'.reserved = OwedTotal' /\ book'.pending = OwedTotal'
  BY <1>2 DEF BInv
<1>4. \A q \in Obligations : AdvancedFits(req'[q])
  BY <1>1 DEF BInv
<1> QED
  BY <1>3, <1>4 DEF BInv

\* Steps that rewrite no row and neither counter.
LEMMA BookFrame ==
  ASSUME BInv, UNCHANGED req, UNCHANGED <<book.reserved, book.pending>>, BookTyped'
  PROVE  BInv'
BY DEF BInv, OwedTotal, NetOf

\* Admission adds the net to both counters.
LEMMA AdmitAdds ==
  ASSUME BookTyped, NEW r \in Obligations
  PROVE  /\ Admit(r) \in [balance : Int, reserved : Int, pending : Int, paused : BOOLEAN,
                          admissionClosed : BOOLEAN, liquidityClosed : BOOLEAN]
         /\ Admit(r).reserved = book.reserved + Net[r]
         /\ Admit(r).pending = book.pending + Net[r]
<1>1. Net[r] \in Nat
  BY AmountsAssumption
<1>b. book \in [balance : Int, reserved : Int, pending : Int, paused : BOOLEAN,
                admissionClosed : BOOLEAN, liquidityClosed : BOOLEAN]
  BY DEF BookTyped
<1>2. Admit(r) = [balance |-> book.balance, reserved |-> book.reserved + Net[r],
                  pending |-> book.pending + Net[r], paused |-> book.paused,
                  admissionClosed |-> book.admissionClosed,
                  liquidityClosed |-> book.liquidityClosed]
  <2> DEFINE a == book.reserved + Net[r]
             b == book.pending + Net[r]
  <2>1. Admit(r) = [book EXCEPT !.reserved = a, !.pending = b]
    BY <1>b DEF Admit
  <2> HIDE DEF a, b
  <2>2. Admit(r) = [balance |-> book.balance, reserved |-> a, pending |-> b,
                    paused |-> book.paused, admissionClosed |-> book.admissionClosed,
                    liquidityClosed |-> book.liquidityClosed]
    BY <1>b, <2>1
  <2> QED
    BY <2>2 DEF a, b
<1>3. book.reserved + Net[r] \in Int /\ book.pending + Net[r] \in Int /\ book.balance \in Int
      /\ book.paused \in BOOLEAN /\ book.admissionClosed \in BOOLEAN
      /\ book.liquidityClosed \in BOOLEAN
  BY <1>1 DEF BookTyped
<1> QED
  BY <1>2, <1>3

\* A fold reserves for an admitted deposit, and for no other.
LEMMA FoldBooked ==
  ASSUME IInv, BInv, NEW r \in Obligations, NEW limited, NEW utxoLow, NEW burst, NEW refused,
         FoldSolDeposit(r, limited, utxoLow, burst, refused)
  PROVE  BInv'
<1> DEFINE note == ParkReason(r, limited, utxoLow, burst, refused)
           state == IF note = "none" THEN "SourceFinalized" ELSE "ManualReview"
           admitted == note = "none"
           hold == IF burst THEN "burst" ELSE "none"
           row == [NoRequest EXCEPT !.state = state, !.note = note,
                                    !.advanced = admitted, !.hold = hold]
           closed == NextLiquidityClosed
           base == IF admitted THEN Admit(r) ELSE book
<1>1. /\ note \in Notes /\ state \in {"SourceFinalized", "ManualReview"}
      /\ (admitted <=> state = "SourceFinalized")
      /\ admitted \in BOOLEAN /\ hold \in {"burst", "none"}
  BY DEF ParkReason, Blocker, Notes
<1>2. /\ req[r].state = "Absent" /\ req' = [req EXCEPT ![r] = row]
      /\ book' = [base EXCEPT !.liquidityClosed = closed]
      /\ UNCHANGED <<solBalance, autoResume>>
  BY DEF FoldSolDeposit, SetRow
<1>c. closed \in BOOLEAN
  BY DEF NextLiquidityClosed
<1>n. Net[r] \in Nat
  BY AmountsAssumption
<1>b. BookTyped
  BY DEF BInv
<1> HIDE DEF note, state, admitted, hold, closed
<1>3. row \in RequestRow
  BY <1>1 DEF RequestRow, NoRequest, States
<1>4. row.state = state /\ row.advanced = admitted
  BY DEF NoRequest
<1> HIDE DEF row
<1>5. AdvancedFits(row) /\ Share(row, r) = (IF admitted THEN Net[r] ELSE 0)
  BY <1>1, <1>4 DEF AdvancedFits, Payable, Share, Owing
<1>6. Share(req[r], r) = 0
  BY <1>2 DEF BInv, AdvancedFits, Payable, Share, Owing
<1>7. /\ base \in [balance : Int, reserved : Int, pending : Int, paused : BOOLEAN,
                   admissionClosed : BOOLEAN, liquidityClosed : BOOLEAN]
      /\ base.reserved = book.reserved + (IF admitted THEN Net[r] ELSE 0)
      /\ base.pending = book.pending + (IF admitted THEN Net[r] ELSE 0)
  <2>1. CASE admitted
    BY <1>b, <2>1, AdmitAdds
  <2>2. CASE ~admitted
    BY <1>b, <2>2 DEF BookTyped
  <2> QED
    BY <2>1, <2>2
<1> HIDE DEF base
<1>8. BookTyped' /\ book'.reserved = base.reserved /\ book'.pending = base.pending
  BY <1>2, <1>c, <1>7, <1>b DEF BookTyped
<1>9. /\ book'.reserved = book.reserved + Share(row, r) - Share(req[r], r)
      /\ book'.pending = book.pending + Share(row, r) - Share(req[r], r)
  BY <1>5, <1>6, <1>7, <1>8, <1>n, <1>b DEF BookTyped
<1> QED
  BY <1>2, <1>3, <1>5, <1>8, <1>9, BookedRow

\* So does a resume, of a request that was not admitted before.
LEMMA ResumeBooked ==
  ASSUME IInv, IInv', BInv, NEW r \in Obligations, Resume(r)
  PROVE  BInv'
<1> DEFINE row == [req[r] EXCEPT !.state = "SourceFinalized", !.note = "none",
                              !.hold = "none", !.advanced = TRUE]
<1>1. req' = [req EXCEPT ![r] = row] /\ req[r].state = "ManualReview" /\ book' = Admit(r)
      /\ UNCHANGED <<solBalance, autoResume>>
  BY DEF Resume, Resumable, SetRow
<1>0. req \in [Obligations -> RequestRow] /\ req[r] \in RequestRow /\ req' \in [Obligations -> RequestRow]
  BY DEF IInv, ServiceTypeOK
<1>2. row.state = "SourceFinalized" /\ row.advanced = TRUE
  BY <1>0 DEF RequestRow
<1> HIDE DEF row
<1>3. row \in RequestRow
  BY <1>0, <1>1
<1>4. AdvancedFits(row) /\ Share(row, r) = Net[r] /\ Share(req[r], r) = 0
  BY <1>1, <1>2 DEF BInv, AdvancedFits, Payable, Share, Owing
<1>5. BookTyped' /\ book'.reserved = book.reserved + Net[r] /\ book'.pending = book.pending + Net[r]
  BY <1>1, AdmitAdds DEF BInv, BookTyped
<1>6. /\ book'.reserved = book.reserved + Share(row, r) - Share(req[r], r)
      /\ book'.pending = book.pending + Share(row, r) - Share(req[r], r)
  BY <1>4, <1>5, AmountsAssumption DEF BInv, BookTyped
<1> QED
  BY <1>1, <1>3, <1>4, <1>5, <1>6, BookedRow

\* A settlement takes the net out of both counters, once: it finds the request
\* admitted and leaves it settled.
LEMMA SettleBooked ==
  ASSUME IInv, BInv, NEW r \in Obligations, MarkGoldcoinCompletionConfirmed(r)
  PROVE  BInv'
<1> DEFINE row == [req[r] EXCEPT !.payout = "Completed", !.state = "Settled"]
<1>1. /\ req' = [req EXCEPT ![r] = row] /\ req[r].payout = "Confirmed"
      /\ book' = [book EXCEPT !.reserved = @ - Net[r], !.pending = @ - Net[r], !.balance = @ - Net[r]]
      /\ UNCHANGED <<solBalance, autoResume>>
  BY DEF MarkGoldcoinCompletionConfirmed, Settle, SetRow
<1>2. req[r].state = "DestinationConfirmed"
  BY <1>1, Row DEF StateFits
<1>3. row \in RequestRow /\ row.state = "Settled" /\ row.advanced = req[r].advanced
  BY Row DEF RequestRow, States
<1> HIDE DEF row
<1>4. AdvancedFits(row) /\ Share(row, r) = 0 /\ Share(req[r], r) = Net[r]
  BY <1>2, <1>3 DEF BInv, AdvancedFits, Payable, Share, Owing
<1>n. Net[r] \in Nat
  BY AmountsAssumption
<1>b. book \in [balance : Int, reserved : Int, pending : Int, paused : BOOLEAN,
                admissionClosed : BOOLEAN, liquidityClosed : BOOLEAN]
  BY DEF BInv, BookTyped
<1>5. book' = [balance |-> book.balance - Net[r], reserved |-> book.reserved - Net[r],
               pending |-> book.pending - Net[r], paused |-> book.paused,
               admissionClosed |-> book.admissionClosed, liquidityClosed |-> book.liquidityClosed]
  BY <1>1, <1>b
<1>6. book.reserved - Net[r] \in Int /\ book.pending - Net[r] \in Int /\ book.balance - Net[r] \in Int
  BY <1>n, <1>b
<1>7. BookTyped'
  BY <1>1, <1>5, <1>6, <1>b DEF BookTyped, BInv
<1>8. book'.reserved = book.reserved - Net[r] /\ book'.pending = book.pending - Net[r]
  BY <1>5
<1>9. /\ book'.reserved = book.reserved + Share(row, r) - Share(req[r], r)
      /\ book'.pending = book.pending + Share(row, r) - Share(req[r], r)
  BY <1>4, <1>8, <1>n, <1>b
<1> QED
  BY <1>1, <1>3, <1>4, <1>7, <1>9, BookedRow

\* A row as far as the counters see it.
SameShare(old, new) ==
  /\ new.advanced = old.advanced
  /\ new.state \in Payable <=> old.state \in Payable
  /\ new.state = "Settled" <=> old.state = "Settled"
  /\ new.state = "Absent" <=> old.state = "Absent"

\* And as far as the cap on submissions and the open refunds do.
SameCount(old, new) == SameShare(old, new) /\ new.submissions = old.submissions
SameRow(old, new) == SameCount(old, new) /\ new.refund = old.refund

\* Whatever rows are rewritten, none changes its share.
LEMMA SharesKept ==
  ASSUME BInv, \A q \in Obligations : SameShare(req[q], req'[q]),
         BookTyped', UNCHANGED <<book.reserved, book.pending>>
  PROVE  BInv'
<1>1. {r \in Obligations : req'[r].advanced /\ req'[r].state # "Settled"}
        = {r \in Obligations : req[r].advanced /\ req[r].state # "Settled"}
  BY DEF SameShare
<1>2. OwedTotal' = OwedTotal
  BY <1>1 DEF OwedTotal, NetOf
<1>3. \A q \in Obligations : AdvancedFits(req'[q])
  BY DEF BInv, AdvancedFits, SameShare
<1> QED
  BY <1>2, <1>3 DEF BInv

LEMMA OneRowKept ==
  ASSUME IInv, NEW r \in Obligations, NEW row, req' = [req EXCEPT ![r] = row]
  PROVE  /\ SameRow(req[r], row) => \A q \in Obligations : SameRow(req[q], req'[q])
         /\ SameCount(req[r], row) => \A q \in Obligations : SameCount(req[q], req'[q])
         /\ SameShare(req[r], row) => \A q \in Obligations : SameShare(req[q], req'[q])
BY DEF IInv, ServiceTypeOK, SameShare, SameCount, SameRow

\* The review, but for a resume, and the payout keep every share.
LEMMA ReviewAndPayoutKeep ==
  ASSUME IInv, NEW r \in Obligations,
         \/ Review(r) /\ ~Resume(r)
         \/ Payout(r)
  PROVE  (\A q \in Obligations : SameRow(req[q], req'[q])) /\ UNCHANGED <<book, solBalance, autoResume>>
<1>0. req[r] \in RequestRow /\ StateFits(req[r])
  BY Row
<1>f. ASSUME UNCHANGED req PROVE \A q \in Obligations : SameRow(req[q], req'[q])
  BY <1>f DEF SameShare, SameCount, SameRow
<1>1. ASSUME NEW h, RowOnly(r, [req[r] EXCEPT !.hold = h])
      PROVE  (\A q \in Obligations : SameRow(req[q], req'[q])) /\ UNCHANGED <<book, solBalance, autoResume>>
  <2>1. SameRow(req[r], [req[r] EXCEPT !.hold = h])
    BY <1>0 DEF SameShare, SameCount, SameRow, RequestRow
  <2> QED
    BY <1>1, <2>1, OneRowKept DEF RowOnly, SetRow
<1>2. CASE SetManualReviewHold(r) \/ ClearManualReviewHold(r) \/ DecideRefund(r)
  BY <1>1, <1>2 DEF SetManualReviewHold, ClearManualReviewHold, DecideRefund
<1>3. CASE CloseManualReview(r) \/ RecordManualSolanaRefund(r)
  <2>1. RowOnly(r, [req[r] EXCEPT !.state = "Closed"]) /\ req[r].state = "ManualReview"
    BY <1>3 DEF CloseManualReview, Closable, RecordManualSolanaRefund, ManualRefundEligible
  <2>2. SameRow(req[r], [req[r] EXCEPT !.state = "Closed"])
    BY <1>0, <2>1 DEF SameShare, SameCount, SameRow, RequestRow, Payable
  <2> QED
    BY <2>1, <2>2, OneRowKept DEF RowOnly, SetRow
<1>4. CASE ExportManualRefund(r) \/ SendManualRefund(r)
  BY <1>4, <1>f DEF ExportManualRefund, SendManualRefund, ManualRefundMoves, ledgerVars
<1>5. CASE BuildPayout(r)
  <2>1. SameRow(req[r], [req[r] EXCEPT !.payout = "Built"])
    BY <1>0 DEF SameShare, SameCount, SameRow, RequestRow
  <2> QED
    BY <1>5, <2>1, OneRowKept DEF BuildPayout, SetRow
<1>6. CASE RecordGoldcoinPayoutSigned(r)
  <2>1. SameRow(req[r], [req[r] EXCEPT !.payout = "Signed", !.state = "SettlementAuthorized"])
    BY <1>0, <1>6 DEF RecordGoldcoinPayoutSigned, SameShare, SameCount, SameRow, RequestRow, StateFits, Payable
  <2> QED
    BY <1>6, <2>1, OneRowKept DEF RecordGoldcoinPayoutSigned, SetRow
<1>7. CASE SendPayout(r)
  BY <1>7, <1>f DEF SendPayout, ledgerVars
<1>8. CASE RecordGoldcoinPayoutBroadcast(r)
  <2>1. CASE req[r].payout = "Signed"
    <3>1. SameRow(req[r], [req[r] EXCEPT !.payout = "Broadcast", !.state = "DestinationSubmitted"])
      BY <1>0, <2>1 DEF SameShare, SameCount, SameRow, RequestRow, StateFits, Payable
    <3> QED
      BY <1>8, <2>1, <3>1, OneRowKept DEF RecordGoldcoinPayoutBroadcast, PayoutBroadcast, SetRow
  <2>2. CASE req[r].payout # "Signed"
    BY <1>8, <1>f, <2>2 DEF RecordGoldcoinPayoutBroadcast, PayoutBroadcast
  <2> QED
    BY <2>1, <2>2
<1>9. CASE UpdateGoldcoinPayoutConfirmations(r)
  <2>1. SameRow(req[r], [req[r] EXCEPT !.payout = "Confirmed", !.state = "DestinationConfirmed"])
    BY <1>0, <1>9 DEF UpdateGoldcoinPayoutConfirmations, SameShare, SameCount, SameRow, RequestRow, StateFits, Payable
  <2> QED
    BY <1>9, <2>1, OneRowKept DEF UpdateGoldcoinPayoutConfirmations, RowOnly, SetRow
<1> QED
  BY <1>2, <1>3, <1>4, <1>5, <1>6, <1>7, <1>8, <1>9
     DEF Review, Payout, AutoResume, ResumeManualReview, ProcessHeldManualReview

\* So do the commands of an operator; a confirmed refund alone touches a
\* reserve row, the other chain's.
LEMMA CommandsKeep ==
  ASSUME IInv, NEW o \in Operators,
         \/ \E r \in Obligations : RefundCommand(o, r)
         \/ CommandStep(o)
  PROVE  /\ \A q \in Obligations : SameCount(req[q], req'[q])
         /\ UNCHANGED <<book, autoResume>>
         /\ solBalance' = solBalance \/ \E r \in Obligations : solBalance' = solBalance - Gross[r]
<1>f. ASSUME UNCHANGED <<req, book, autoResume, solBalance>>
      PROVE  /\ \A q \in Obligations : SameCount(req[q], req'[q])
             /\ UNCHANGED <<book, autoResume>> /\ solBalance' = solBalance
  BY <1>f DEF SameShare, SameCount
<1>r. ASSUME NEW r \in Obligations, NEW row, SameCount(req[r], row), SetRow(r, row)
      PROVE  \A q \in Obligations : SameCount(req[q], req'[q])
  BY <1>r, OneRowKept DEF SetRow
<1>1. ASSUME NEW r \in Obligations, ExecuteRefund(o, r) \/ ProveRefundNeverLanded(o, r)
               \/ RecoverStuckPayout(o, r)
      PROVE  UNCHANGED <<req, book, autoResume, solBalance>>
  BY <1>1 DEF ExecuteRefund, ProveRefundNeverLanded, RecoverStuckPayout, ledgerVars
<1>2. ASSUME NEW r \in Obligations, BeginSolanaRefund(o, r)
      PROVE  /\ \A q \in Obligations : SameCount(req[q], req'[q])
             /\ UNCHANGED <<book, autoResume, solBalance>>
  <2>1. SameCount(req[r], [req[r] EXCEPT !.refund = "Pending", !.state = "RefundPending"])
    BY <1>2, Row DEF BeginSolanaRefund, RefundEligible, SameShare, SameCount, RequestRow, Payable
  <2> QED
    BY <1>2, <1>r, <2>1 DEF BeginSolanaRefund
<1>3. ASSUME NEW r \in Obligations, RecordSolanaRefundBroadcast(o, r)
      PROVE  /\ \A q \in Obligations : SameCount(req[q], req'[q])
             /\ UNCHANGED <<book, autoResume, solBalance>>
  <2> DEFINE sig == Len(refundTx[r]) + 1
             row == [req[r] EXCEPT !.refund = "Broadcast", !.refundSig = sig,
                                   !.state = "RefundBroadcast"]
  <2>1. req[r].state \in {"RefundPending", "RefundBroadcast"} /\ SetRow(r, row)
        /\ UNCHANGED <<book, autoResume, solBalance>>
    BY <1>3, Row DEF RecordSolanaRefundBroadcast, RefundOpen, StateFits
  <2>2. row.advanced = req[r].advanced /\ row.state = "RefundBroadcast"
        /\ row.submissions = req[r].submissions
    BY Row DEF RequestRow
  <2> HIDE DEF row
  <2>3. SameCount(req[r], row)
    BY <2>1, <2>2 DEF SameShare, SameCount, Payable
  <2> QED
    BY <1>r, <2>1, <2>3
<1>4. ASSUME NEW r \in Obligations, ReturnRefundToManualReview(o, r)
      PROVE  /\ \A q \in Obligations : SameCount(req[q], req'[q])
             /\ UNCHANGED <<book, autoResume, solBalance>>
  <2>1. SameCount(req[r], [req[r] EXCEPT !.state = "ManualReview", !.refund = "none"])
    BY <1>4, Row DEF ReturnRefundToManualReview, Returnable, SameShare, SameCount, RequestRow, Payable
  <2> QED
    BY <1>4, <1>r, <2>1 DEF ReturnRefundToManualReview
<1>5. ASSUME NEW r \in Obligations, RecordRecoveredPayout(o, r)
      PROVE  /\ \A q \in Obligations : SameCount(req[q], req'[q])
             /\ UNCHANGED <<book, autoResume, solBalance>>
  <2>1. CASE req[r].payout = "Signed"
    <3>1. SameCount(req[r], [req[r] EXCEPT !.payout = "Broadcast", !.state = "DestinationSubmitted"])
      BY <2>1, Row DEF SameShare, SameCount, RequestRow, StateFits, Payable
    <3> QED
      BY <1>5, <1>r, <2>1, <3>1 DEF RecordRecoveredPayout, PayoutBroadcast
  <2>2. CASE req[r].payout # "Signed"
    BY <1>5, <1>f, <2>2 DEF RecordRecoveredPayout, PayoutBroadcast
  <2> QED
    BY <2>1, <2>2
<1>6. ASSUME NEW r \in Obligations, MarkSolanaRefundConfirmed(r), UNCHANGED <<book, autoResume>>
      PROVE  /\ \A q \in Obligations : SameCount(req[q], req'[q])
             /\ solBalance' = solBalance \/ solBalance' = solBalance - Gross[r]
  <2>1. CASE req[r].refund = "Broadcast"
    <3>1. SameCount(req[r], [req[r] EXCEPT !.refund = "Confirmed", !.state = "Refunded"])
      BY <2>1, Row DEF SameShare, SameCount, RequestRow, StateFits, Payable
    <3> QED
      BY <1>6, <1>r, <2>1, <3>1 DEF MarkSolanaRefundConfirmed
  <2>2. CASE req[r].refund # "Broadcast"
    BY <1>6, <1>f, <2>2 DEF MarkSolanaRefundConfirmed
  <2> QED
    BY <2>1, <2>2
<1>7. ASSUME SendRefund(o) \/ AbandonCommand(o) PROVE UNCHANGED <<req, book, autoResume, solBalance>>
  BY <1>7 DEF SendRefund, AbandonCommand, ledgerVars
<1>8. ASSUME ConfirmRefund(o) \/ RecoverBroadcast(o)
      PROVE  /\ op[o].req \in Obligations /\ UNCHANGED <<book, autoResume>>
             /\ MarkSolanaRefundConfirmed(op[o].req) \/ UNCHANGED <<req, solBalance>>
  <2>1. op[o].step \in Tracking /\ op[o] \in Steps
    BY <1>8 DEF ConfirmRefund, RecoverBroadcast, Tracking, IInv, ServiceTypeOK
  <2> QED
    BY <1>8, <2>1, StepShape DEF ConfirmRefund, RecoverBroadcast
<1>9. CASE \E r \in Obligations : RefundCommand(o, r)
  BY <1>9, <1>f, <1>1, <1>2, <1>3, <1>4, <1>5 DEF RefundCommand
<1>10. CASE CommandStep(o)
  BY <1>10, <1>f, <1>6, <1>7, <1>8 DEF CommandStep
<1> QED
  BY <1>9, <1>10

\* Recording a submission counts it, and nothing else the counters see.
LEMMA RecordCompletionKeeps ==
  ASSUME IInv, NEW r \in Obligations, RecordGoldcoinCompletionSubmitted(r)
  PROVE  /\ \A q \in Obligations : SameShare(req[q], req'[q]) /\ req'[q].refund = req[q].refund
         /\ \A q \in Obligations : q # r => req'[q] = req[q]
         /\ req'[r].submissions = req[r].submissions + 1
         /\ orch = Working("submitted", r) /\ orch' = Idle
         /\ UNCHANGED <<book, solBalance, autoResume>>
<1> DEFINE c == Len(completionTx[r])
           n == req[r].submissions + 1
           row == [req[r] EXCEPT !.completion = c, !.submissions = n]
<1>1. /\ req' = [req EXCEPT ![r] = row] /\ orch = Working("submitted", r) /\ orch' = Idle
      /\ UNCHANGED <<book, solBalance, autoResume>>
  BY DEF RecordGoldcoinCompletionSubmitted, SetRow
<1>2. req \in [Obligations -> RequestRow]
  BY DEF IInv, ServiceTypeOK
<1> HIDE DEF c, n
<1>3. SameShare(req[r], row) /\ row.submissions = n /\ row.refund = req[r].refund
  BY <1>2 DEF SameShare, RequestRow
<1> HIDE DEF row
<1>4. req'[r] = row /\ \A q \in Obligations : q # r => req'[q] = req[q]
  BY <1>1, <1>2
<1>5. \A q \in Obligations : SameShare(req[q], req'[q]) /\ req'[q].refund = req[q].refund
  BY <1>3, <1>4 DEF SameShare
<1> QED
  BY <1>1, <1>3, <1>4, <1>5 DEF n

\* Gates and observed balances leave both counters alone.
LEMMA GatesKeep ==
  ASSUME BookTyped, Gates
  PROVE  BookTyped' /\ UNCHANGED <<req, orch, book.reserved, book.pending>>
<1>b. book \in [balance : Int, reserved : Int, pending : Int, paused : BOOLEAN,
                admissionClosed : BOOLEAN, liquidityClosed : BOOLEAN]
      /\ solBalance \in Int /\ autoResume \in BOOLEAN
  BY DEF BookTyped
<1>1. CASE EvaluateLiquidityAdmissionGate
  <2>1. NextLiquidityClosed \in BOOLEAN
    BY DEF NextLiquidityClosed
  <2>2. PICK c \in BOOLEAN : book' = [book EXCEPT !.liquidityClosed = c]
    BY <1>1, <2>1 DEF EvaluateLiquidityAdmissionGate
  <2> QED
    BY <1>1, <1>b, <2>2 DEF EvaluateLiquidityAdmissionGate, BookTyped
<1>3. ASSUME NEW v \in VaultBalances, NEW breach \in BOOLEAN, ReconcileGoldcoin(v, breach)
      PROVE  BookTyped' /\ UNCHANGED <<req, orch, book.reserved, book.pending>>
  <2>1. v \in Int
    BY ConfigAssumption
  <2>2. (book.paused \/ breach) \in BOOLEAN
    BY <1>b
  <2>3. PICK p \in BOOLEAN : book' = [book EXCEPT !.balance = v, !.paused = p]
    BY <1>3, <2>2 DEF ReconcileGoldcoin
  <2>4. book' = [balance |-> v, reserved |-> book.reserved, pending |-> book.pending, paused |-> p,
                 admissionClosed |-> book.admissionClosed, liquidityClosed |-> book.liquidityClosed]
    BY <1>b, <2>3
  <2>5. book.reserved \in Int /\ book.pending \in Int /\ book.admissionClosed \in BOOLEAN
        /\ book.liquidityClosed \in BOOLEAN
    BY <1>b
  <2>6. book' \in [balance : Int, reserved : Int, pending : Int, paused : BOOLEAN,
                   admissionClosed : BOOLEAN, liquidityClosed : BOOLEAN]
    BY <2>1, <2>4, <2>5
  <2>7. UNCHANGED <<book.reserved, book.pending>>
    BY <2>4
  <2> QED
    BY <1>3, <1>b, <2>6, <2>7 DEF ReconcileGoldcoin, BookTyped
<1>4. ASSUME NEW pause \in Settings("pause", book.paused),
             NEW closed \in Settings("admission", book.admissionClosed),
             NEW auto \in Settings("auto", autoResume), SetGates(pause, closed, auto)
      PROVE  BookTyped' /\ UNCHANGED <<req, orch, book.reserved, book.pending>>
  <2>1. pause \in BOOLEAN /\ closed \in BOOLEAN /\ auto \in BOOLEAN
    BY <1>b DEF Settings
  <2>2. book' = [book EXCEPT !.paused = pause, !.admissionClosed = closed]
    BY <1>4 DEF SetGates
  <2>3. book' = [balance |-> book.balance, reserved |-> book.reserved, pending |-> book.pending,
                 paused |-> pause, admissionClosed |-> closed,
                 liquidityClosed |-> book.liquidityClosed]
    BY <1>b, <2>2
  <2>4. book.reserved \in Int /\ book.pending \in Int /\ book.balance \in Int
        /\ book.liquidityClosed \in BOOLEAN
    BY <1>b
  <2>5. book' \in [balance : Int, reserved : Int, pending : Int, paused : BOOLEAN,
                   admissionClosed : BOOLEAN, liquidityClosed : BOOLEAN]
    BY <2>1, <2>3, <2>4
  <2>6. UNCHANGED <<book.reserved, book.pending>>
    BY <2>3
  <2> QED
    BY <1>4, <1>b, <2>1, <2>5, <2>6 DEF SetGates, BookTyped
<1> QED
  BY <1>1, <1>3, <1>4 DEF Gates

\* Every step keeps the counters exact.
LEMMA NextBooked == IInv /\ BInv /\ [Next]_vars => BInv'
<1> SUFFICES ASSUME IInv, BInv, [Next]_vars PROVE BInv'
  OBVIOUS
<1>0. IInv'
  BY NextIInv
<1>b. BookTyped
  BY DEF BInv
<1>f. ASSUME UNCHANGED ledgerVars PROVE BInv'
  <2>1. UNCHANGED <<req, book.reserved, book.pending>> /\ BookTyped'
    BY <1>b, <1>f DEF ledgerVars, BookTyped
  <2> QED
    BY <2>1, BookFrame
<1>s. ASSUME \A q \in Obligations : SameShare(req[q], req'[q]), UNCHANGED <<book, autoResume>>,
             solBalance' \in Int
      PROVE  BInv'
  <2>1. BookTyped' /\ UNCHANGED <<book.reserved, book.pending>>
    BY <1>b, <1>s DEF BookTyped
  <2> QED
    BY <1>s, <2>1, SharesKept
<1>i. solBalance \in Int
  BY <1>b DEF BookTyped
<1>1. ASSUME NEW r \in Obligations, Fold(r) PROVE BInv'
  BY <1>1, FoldBooked DEF Fold
<1>2. ASSUME NEW r \in Obligations, Review(r) \/ Payout(r) PROVE BInv'
  <2>1. CASE Resume(r)
    BY <1>0, <2>1, ResumeBooked
  <2>2. CASE ~Resume(r)
    BY <1>2, <1>s, <1>i, <2>2, ReviewAndPayoutKeep DEF SameRow, SameCount
  <2> QED
    BY <2>1, <2>2
<1>3. ASSUME NEW r \in Obligations, Completion(r) PROVE BInv'
  <2>1. CASE SubmitCompletion(r) \/ SendCompletion(r)
    BY <1>f, <2>1 DEF SubmitCompletion, SendCompletion
  <2>2. CASE RecordGoldcoinCompletionSubmitted(r)
    BY <1>s, <1>i, <2>2, RecordCompletionKeeps
  <2> QED
    BY <1>3, <2>1, <2>2, SettleBooked DEF Completion
<1>4. ASSUME NEW r \in Obligations, Chain(r) PROVE UNCHANGED ledgerVars
  BY <1>4 DEF Chain, DepositToReserve, MinePayout, BuryPayout, ReorgPayout, PayoutMoves,
     LandCompletion, DropCompletion, ForgetCompletion, LandRefund, ExpireRefund
<1>5. ASSUME NEW o \in Operators,
             (\E r \in Obligations : RefundCommand(o, r)) \/ CommandStep(o)
      PROVE  BInv'
  <2>1. /\ \A q \in Obligations : SameCount(req[q], req'[q])
        /\ UNCHANGED <<book, autoResume>>
        /\ solBalance' = solBalance \/ \E r \in Obligations : solBalance' = solBalance - Gross[r]
    BY <1>5, CommandsKeep
  <2>2. solBalance' \in Int
    BY <1>i, <2>1, AmountsAssumption
  <2> QED
    BY <1>s, <2>1, <2>2 DEF SameCount
<1>6. ASSUME Gates PROVE BInv'
  BY <1>b, <1>6, GatesKeep, BookFrame
<1>7. ASSUME AbandonTick \/ SetBridgePaused \/ UNCHANGED vars PROVE UNCHANGED ledgerVars
  BY <1>7 DEF AbandonTick, SetBridgePaused, vars
<1>8. ASSUME ObserveSolana \/ ReconcileSolana PROVE BInv'
  <2>1. orch.step = "observed" => orch.balance \in Int
    BY DEF IInv, ServiceTypeOK, Steps, Idle, Tracking
  <2>2. UNCHANGED <<req, book, autoResume>> /\ solBalance' \in Int
    BY <1>8, <1>i, <2>1 DEF ObserveSolana, ReconcileSolana, ledgerVars
  <2>3. UNCHANGED <<req, book.reserved, book.pending>> /\ BookTyped'
    BY <1>b, <2>2 DEF BookTyped
  <2> QED
    BY <2>3, BookFrame
<1> QED
  BY <1>1, <1>2, <1>3, <1>4, <1>5, <1>6, <1>7, <1>8, <1>f DEF Next

\* Nothing is owed and nothing counted at the start.
LEMMA InitBooked == Init => BInv
<1> SUFFICES ASSUME Init PROVE BInv
  OBVIOUS
<1>1. PICK v \in VaultBalances :
        book = [balance |-> v, reserved |-> 0, pending |-> 0, paused |-> FALSE,
                admissionClosed |-> FALSE, liquidityClosed |-> FALSE]
  BY DEF Init
<1>2. v \in Int /\ SolInitial \in Int
  BY ConfigAssumption
<1>3. BookTyped /\ book.reserved = 0 /\ book.pending = 0
  <2>1. solBalance = SolInitial /\ autoResume = FALSE
    BY DEF Init
  <2>2. FALSE \in BOOLEAN /\ 0 \in Int
    OBVIOUS
  <2> QED
    BY <1>1, <1>2, <2>1, <2>2 DEF BookTyped
<1>4. \A r \in Obligations : req[r].advanced = FALSE /\ req[r].state = "Absent"
  BY DEF Init, NoRequest
<1>5. {r \in Obligations : req[r].advanced /\ req[r].state # "Settled"} = {}
  BY <1>4
<1>6. OwedTotal = 0
  BY <1>5, SumEmpty DEF OwedTotal, NetOf
<1> QED
  BY <1>3, <1>4, <1>6 DEF BInv, AdvancedFits, Payable

\* A completion is in hand only while another submission is allowed.
QInv ==
  /\ \A r \in Obligations : req[r].submissions <= MaxSubmissions
  /\ orch.step \in {"attested", "submitted"} => req[orch.req].submissions < MaxSubmissions

\* Every step that counts no submission and takes no completion in hand.
LEMMA CountKept ==
  ASSUME IInv, QInv, \A q \in Obligations : req'[q].submissions = req[q].submissions,
         orch' = orch \/ orch'.step \notin {"attested", "submitted"}
  PROVE  QInv'
<1>1. orch.step \in {"attested", "submitted"} => orch.req \in Obligations
  BY StepShape DEF IInv, ServiceTypeOK
<1> QED
  BY <1>1 DEF QInv

\* The cap of MAX_COMPLETION_SUBMISSIONS holds across ticks that stop
\* between the attestation, the send and the record.
LEMMA NextCounted == IInv /\ QInv /\ [Next]_vars => QInv'
<1> SUFFICES ASSUME IInv, QInv, [Next]_vars PROVE QInv'
  OBVIOUS
<1>t. req \in [Obligations -> RequestRow]
  BY DEF IInv, ServiceTypeOK
<1>f. ASSUME UNCHANGED <<req, orch>> PROVE QInv'
  BY <1>f, CountKept
<1>1. ASSUME NEW r \in Obligations, Fold(r) PROVE QInv'
  <2>1. PICK row : req' = [req EXCEPT ![r] = row] /\ row.submissions = 0 /\ orch = Idle /\ orch' = Idle
    <3>1. PICK a, b, c, d : FoldSolDeposit(r, a, b, c, d)
      BY <1>1 DEF Fold
    <3> DEFINE note == ParkReason(r, a, b, c, d)
               new == [NoRequest EXCEPT
                         !.state = IF note = "none" THEN "SourceFinalized" ELSE "ManualReview",
                         !.note = note, !.advanced = note = "none",
                         !.hold = IF c THEN "burst" ELSE "none"]
    <3>2. req' = [req EXCEPT ![r] = new] /\ orch = Idle /\ orch' = Idle
      BY <3>1 DEF FoldSolDeposit, SetRow
    <3> HIDE DEF note
    <3>3. new.submissions = 0
      BY DEF NoRequest
    <3> HIDE DEF new
    <3> QED
      BY <3>2, <3>3
  <2>2. \A q \in Obligations : req'[q].submissions = IF q = r THEN 0 ELSE req[q].submissions
    BY <1>t, <2>1
  <2> QED
    BY <2>1, <2>2, ConfigAssumption DEF QInv, Idle
<1>2. ASSUME NEW r \in Obligations, Resume(r) PROVE QInv'
  <2> DEFINE row == [req[r] EXCEPT !.state = "SourceFinalized", !.note = "none",
                                !.hold = "none", !.advanced = TRUE]
  <2>1. req' = [req EXCEPT ![r] = row] /\ orch' = orch
    BY <1>2 DEF Resume, SetRow
  <2>2. row.submissions = req[r].submissions
    BY <1>t DEF RequestRow
  <2> HIDE DEF row
  <2>3. \A q \in Obligations : req'[q].submissions = req[q].submissions
    BY <1>t, <2>1, <2>2
  <2> QED
    BY <2>1, <2>3, CountKept
<1>3. ASSUME NEW r \in Obligations, Review(r), ~Resume(r) PROVE QInv'
  <2>1. orch' = orch
    BY <1>3 DEF Review, AutoResume, ResumeManualReview, ProcessHeldManualReview,
       SetManualReviewHold, ClearManualReviewHold, DecideRefund, CloseManualReview,
       ExportManualRefund, SendManualRefund, RecordManualSolanaRefund, RowOnly,
       ManualRefundMoves
  <2> QED
    BY <1>3, <2>1, CountKept, ReviewAndPayoutKeep DEF SameRow, SameCount
<1>4. ASSUME NEW r \in Obligations, Payout(r) PROVE QInv'
  <2>1. orch' = orch \/ orch'.step \notin {"attested", "submitted"}
    BY <1>4 DEF Payout, BuildPayout, RecordGoldcoinPayoutSigned, SendPayout,
       RecordGoldcoinPayoutBroadcast, UpdateGoldcoinPayoutConfirmations, RowOnly, Working, Idle
  <2> QED
    BY <1>4, <2>1, CountKept, ReviewAndPayoutKeep DEF SameRow, SameCount
<1>5. ASSUME NEW r \in Obligations, SubmitCompletion(r) \/ SendCompletion(r) PROVE QInv'
  <2>1. UNCHANGED req /\ orch'.step \in {"attested", "submitted"} /\ orch'.req = r
    BY <1>5 DEF SubmitCompletion, SendCompletion, ledgerVars, Working
  <2>2. req[r].submissions < MaxSubmissions
    BY <1>5 DEF SubmitCompletion, SendCompletion, Working, QInv
  <2> QED
    BY <2>1, <2>2 DEF QInv
<1>6. ASSUME NEW r \in Obligations, RecordGoldcoinCompletionSubmitted(r) PROVE QInv'
  <2>1. /\ \A q \in Obligations : q # r => req'[q] = req[q]
        /\ req'[r].submissions = req[r].submissions + 1
        /\ orch = Working("submitted", r) /\ orch' = Idle
    BY <1>6, RecordCompletionKeeps
  <2>2. req[r].submissions \in Nat /\ req[r].submissions < MaxSubmissions
    BY <1>t, <2>1 DEF RequestRow, QInv, Working
  <2>3. req'[r].submissions <= MaxSubmissions
    BY <2>1, <2>2, ConfigAssumption
  <2>4. orch'.step = "idle"
    BY <2>1 DEF Idle
  <2> QED
    BY <2>1, <2>3, <2>4 DEF QInv
<1>7. ASSUME NEW r \in Obligations, MarkGoldcoinCompletionConfirmed(r) PROVE QInv'
  <2> DEFINE row == [req[r] EXCEPT !.payout = "Completed", !.state = "Settled"]
  <2>1. req' = [req EXCEPT ![r] = row] /\ orch' = orch
    BY <1>7 DEF MarkGoldcoinCompletionConfirmed, Settle, SetRow
  <2>2. row.submissions = req[r].submissions
    BY <1>t DEF RequestRow
  <2> HIDE DEF row
  <2>3. \A q \in Obligations : req'[q].submissions = req[q].submissions
    BY <1>t, <2>1, <2>2
  <2> QED
    BY <2>1, <2>3, CountKept
<1>8. ASSUME NEW r \in Obligations, Chain(r) PROVE UNCHANGED <<req, orch>>
  BY <1>8 DEF Chain, DepositToReserve, MinePayout, BuryPayout, ReorgPayout, PayoutMoves,
     LandCompletion, DropCompletion, ForgetCompletion, LandRefund, ExpireRefund, ledgerVars
<1>9. ASSUME NEW o \in Operators,
             (\E r \in Obligations : RefundCommand(o, r)) \/ CommandStep(o)
      PROVE  QInv'
  <2>1. orch' = orch
    BY <1>9 DEF RefundCommand, ExecuteRefund, BeginSolanaRefund, RecordSolanaRefundBroadcast,
       ProveRefundNeverLanded, ReturnRefundToManualReview, RecoverStuckPayout,
       RecordRecoveredPayout, CommandStep, SendRefund, ConfirmRefund, RecoverBroadcast,
       AbandonCommand
  <2> QED
    BY <1>9, <2>1, CommandsKeep, CountKept DEF SameCount
<1>10. ASSUME Gates PROVE UNCHANGED <<req, orch>>
  BY <1>10 DEF Gates, EvaluateLiquidityAdmissionGate, ReconcileGoldcoin, SetGates
<1>11. ASSUME AbandonTick \/ ObserveSolana \/ ReconcileSolana PROVE QInv'
  <2>1. UNCHANGED req /\ orch'.step \in {"idle", "observed"}
    BY <1>11 DEF AbandonTick, ObserveSolana, ReconcileSolana, ledgerVars, Idle
  <2> QED
    BY <2>1, CountKept
<1>12. ASSUME SetBridgePaused \/ UNCHANGED vars PROVE UNCHANGED <<req, orch>>
  BY <1>12 DEF SetBridgePaused, vars, ledgerVars
<1> QED
  BY <1>1, <1>2, <1>3, <1>4, <1>5, <1>6, <1>7, <1>8, <1>9, <1>10, <1>11, <1>12, <1>f
     DEF Next, Completion

LEMMA InitCounted == Init => QInv
BY ConfigAssumption DEF Init, QInv, NoRequest, Idle

\* A refund noted as overlapped is confirmed.
OInv == \A r \in overlapped : r \in Obligations /\ req[r].refund = "Confirmed"

\* No step takes a confirmed refund back, and only a confirmation is noted.
LEMMA NextOverlap == IInv /\ OInv /\ [Next]_vars => OInv'
<1> SUFFICES ASSUME IInv, OInv, [Next]_vars PROVE OInv'
  OBVIOUS
<1>t. req \in [Obligations -> RequestRow]
  BY DEF IInv, ServiceTypeOK
<1>c. ASSUME \A q \in Obligations : req[q].refund = "Confirmed" => req'[q].refund = "Confirmed",
             UNCHANGED overlapped
      PROVE  OInv'
  BY <1>c DEF OInv
<1>r. ASSUME NEW r \in Obligations, NEW row, req' = [req EXCEPT ![r] = row],
             req[r].refund # "Confirmed", UNCHANGED overlapped
      PROVE  OInv'
  <2>1. \A q \in Obligations : req[q].refund = "Confirmed" => req'[q].refund = "Confirmed"
    BY <1>t, <1>r
  <2> QED
    BY <1>c, <1>r, <2>1
<1>f. ASSUME UNCHANGED ledgerVars PROVE OInv'
  BY <1>c, <1>f DEF ledgerVars
<1>1. ASSUME NEW r \in Obligations, Fold(r) PROVE OInv'
  <2>1. PICK a, b, c, d : FoldSolDeposit(r, a, b, c, d)
    BY <1>1 DEF Fold
  <2>2. req[r].state = "Absent" /\ UNCHANGED overlapped /\ \E row : SetRow(r, row)
    BY <2>1 DEF FoldSolDeposit
  <2>3. req[r].refund # "Confirmed"
    BY <2>2, Row DEF StateFits, RequestRow
  <2> QED
    BY <1>r, <2>2, <2>3 DEF SetRow
<1>2. ASSUME NEW r \in Obligations, Resume(r) PROVE OInv'
  <2>1. req[r].refund # "Confirmed" /\ UNCHANGED overlapped /\ \E row : SetRow(r, row)
    BY <1>2 DEF Resume, Resumable
  <2> QED
    BY <1>r, <2>1 DEF SetRow
<1>3. ASSUME NEW r \in Obligations, (Review(r) /\ ~Resume(r)) \/ Payout(r) PROVE OInv'
  <2>1. UNCHANGED overlapped
    BY <1>3 DEF Review, AutoResume, ResumeManualReview, ProcessHeldManualReview,
       SetManualReviewHold, ClearManualReviewHold, DecideRefund, CloseManualReview,
       ExportManualRefund, SendManualRefund, RecordManualSolanaRefund, RowOnly,
       ManualRefundMoves, Payout, BuildPayout, RecordGoldcoinPayoutSigned, SendPayout,
       RecordGoldcoinPayoutBroadcast, UpdateGoldcoinPayoutConfirmations, ledgerVars
  <2>2. \A q \in Obligations : req'[q].refund = req[q].refund
    BY <1>3, ReviewAndPayoutKeep DEF SameRow
  <2> QED
    BY <1>c, <2>1, <2>2
<1>4. ASSUME NEW r \in Obligations, Completion(r) PROVE OInv'
  <2>1. CASE SubmitCompletion(r) \/ SendCompletion(r)
    BY <1>f, <2>1 DEF SubmitCompletion, SendCompletion
  <2>2. CASE RecordGoldcoinCompletionSubmitted(r)
    <3>1. \A q \in Obligations : req'[q].refund = req[q].refund
      BY <2>2, RecordCompletionKeeps
    <3> QED
      BY <1>c, <2>2, <3>1 DEF RecordGoldcoinCompletionSubmitted
  <2>3. CASE MarkGoldcoinCompletionConfirmed(r)
    <3>1. req[r].payout = "Confirmed" /\ UNCHANGED overlapped /\ \E row : SetRow(r, row)
      BY <2>3 DEF MarkGoldcoinCompletionConfirmed, Settle
    <3>2. req[r].refund # "Confirmed"
      BY <3>1, Row DEF StateFits, RequestRow
    <3> QED
      BY <1>r, <3>1, <3>2 DEF SetRow
  <2> QED
    BY <1>4, <2>1, <2>2, <2>3 DEF Completion
<1>5. ASSUME NEW r \in Obligations, Chain(r) PROVE UNCHANGED ledgerVars
  BY <1>5 DEF Chain, DepositToReserve, MinePayout, BuryPayout, ReorgPayout, PayoutMoves,
     LandCompletion, DropCompletion, ForgetCompletion, LandRefund, ExpireRefund
<1>6. ASSUME NEW o \in Operators, NEW r \in Obligations, RefundCommand(o, r) PROVE OInv'
  <2>1. CASE ExecuteRefund(o, r) \/ ProveRefundNeverLanded(o, r) \/ RecoverStuckPayout(o, r)
    BY <1>f, <2>1 DEF ExecuteRefund, ProveRefundNeverLanded, RecoverStuckPayout
  <2>2. CASE RecordRecoveredPayout(o, r)
    <3>1. CASE req[r].payout = "Signed"
      <4>1. UNCHANGED overlapped /\ \E row : SetRow(r, row)
        BY <2>2, <3>1 DEF RecordRecoveredPayout, PayoutBroadcast
      <4>2. req[r].refund # "Confirmed"
        BY <3>1, Row DEF StateFits, RequestRow
      <4> QED
        BY <1>r, <4>1, <4>2 DEF SetRow
    <3>2. CASE req[r].payout # "Signed"
      BY <1>c, <2>2, <3>2 DEF RecordRecoveredPayout, PayoutBroadcast
    <3> QED
      BY <3>1, <3>2
  <2>3. CASE BeginSolanaRefund(o, r)
    <3>1. req[r].refund # "Confirmed" /\ UNCHANGED overlapped /\ \E row : SetRow(r, row)
      BY <2>3 DEF BeginSolanaRefund, RefundEligible
    <3> QED
      BY <1>r, <3>1 DEF SetRow
  <2>4. CASE RecordSolanaRefundBroadcast(o, r)
    <3>1. req[r].refund # "Confirmed" /\ UNCHANGED overlapped /\ \E row : SetRow(r, row)
      BY <2>4 DEF RecordSolanaRefundBroadcast, RefundOpen
    <3> QED
      BY <1>r, <3>1 DEF SetRow
  <2>5. CASE ReturnRefundToManualReview(o, r)
    <3>1. req[r].refund # "Confirmed" /\ UNCHANGED overlapped /\ \E row : SetRow(r, row)
      BY <2>5 DEF ReturnRefundToManualReview, Returnable
    <3> QED
      BY <1>r, <3>1 DEF SetRow
  <2> QED
    BY <1>6, <2>1, <2>2, <2>3, <2>4, <2>5 DEF RefundCommand
<1>7. ASSUME NEW r \in Obligations, MarkSolanaRefundConfirmed(r) PROVE OInv'
  <2>1. CASE req[r].refund = "Broadcast"
    <3> DEFINE row == [req[r] EXCEPT !.refund = "Confirmed", !.state = "Refunded"]
    <3>1. req' = [req EXCEPT ![r] = row] /\ overlapped' \subseteq overlapped \cup {r}
      BY <1>7, <2>1 DEF MarkSolanaRefundConfirmed, SetRow
    <3>2. row.refund = "Confirmed"
      BY <1>t DEF RequestRow
    <3> HIDE DEF row
    <3>3. req'[r].refund = "Confirmed" /\ \A q \in Obligations : q # r => req'[q] = req[q]
      BY <1>t, <3>1, <3>2
    <3> QED
      BY <3>1, <3>3 DEF OInv
  <2>2. CASE req[r].refund # "Broadcast"
    BY <1>c, <1>7, <2>2 DEF MarkSolanaRefundConfirmed
  <2> QED
    BY <2>1, <2>2
<1>8. ASSUME NEW o \in Operators, CommandStep(o) PROVE OInv'
  <2>1. CASE SendRefund(o) \/ AbandonCommand(o)
    BY <1>f, <2>1 DEF SendRefund, AbandonCommand
  <2>2. CASE ConfirmRefund(o) \/ RecoverBroadcast(o)
    <3>1. op[o].step \in Tracking /\ op[o] \in Steps
      BY <2>2 DEF ConfirmRefund, RecoverBroadcast, Tracking, IInv, ServiceTypeOK
    <3>2. op[o].req \in Obligations
      BY <3>1, StepShape
    <3>3. MarkSolanaRefundConfirmed(op[o].req) \/ UNCHANGED <<req, overlapped>>
      BY <2>2 DEF ConfirmRefund, RecoverBroadcast
    <3> QED
      BY <1>c, <1>7, <3>2, <3>3
  <2> QED
    BY <1>8, <2>1, <2>2 DEF CommandStep
<1>9. ASSUME Gates \/ AbandonTick \/ SetBridgePaused \/ ObserveSolana \/ ReconcileSolana
               \/ UNCHANGED vars
      PROVE  UNCHANGED <<req, overlapped>>
  BY <1>9 DEF Gates, EvaluateLiquidityAdmissionGate, ReconcileGoldcoin, SetGates, AbandonTick,
     SetBridgePaused, ObserveSolana, ReconcileSolana, vars, ledgerVars
<1> QED
  BY <1>1, <1>2, <1>3, <1>4, <1>5, <1>6, <1>8, <1>9, <1>c, <1>f DEF Next

\* Every column stays in its range, with no more completions submitted than
\* MAX_COMPLETION_SUBMISSIONS, and both counters of the Goldcoin reserve are
\* at every moment the nets of the admitted requests not yet settled: fold,
\* resume and settlement never miss one and never count one twice.
THEOREM BooksExact == Spec => [](TypeOK /\ CountersMatchRequests)
<1>1. IInv /\ BInv /\ QInv /\ OInv => TypeOK /\ CountersMatchRequests
  <2> SUFFICES ASSUME IInv, BInv, QInv, OInv PROVE TypeOK /\ CountersMatchRequests
    OBVIOUS
  <2>1. {r \in Obligations : req[r].advanced /\ req[r].state # "Settled"} \in SUBSET Obligations
    OBVIOUS
  <2>2. OwedTotal \in Nat
    BY <2>1, SumsTyped DEF OwedTotal
  <2>3. book.reserved \in Nat /\ book.pending \in Nat
    BY <2>2 DEF BInv
  <2>4. BookTypeOK
    BY <2>3 DEF BInv, BookTyped, BookTypeOK, OInv
  <2>5. CountersMatchRequests
    BY DEF BInv, CountersMatchRequests, OwedTotal
  <2> QED
    BY <2>4, <2>5 DEF TypeOK, IInv, QInv
<1>2. Init => OInv
  BY DEF Init, OInv
<1> QED
  BY <1>1, <1>2, Fitted, InitBooked, NextBooked, InitCounted, NextCounted, NextOverlap, PTL DEF Spec

-----------------------------------------------------------------------------
(* The open refunds and the Solana reserve.                                 *)

\* The refunds begun and not landed, and those landed and not yet taken out of
\* the cached balance.
Unlanded == {r \in OpenRefunds : obligation[r] = "Pending"}
Unbooked == {r \in OpenRefunds : obligation[r] = "Refunded"}
Arrived == {r \in Obligations : obligation[r] # "none"}
Repaid == {r \in Obligations : obligation[r] = "Refunded"}

\* What the reserve holds, and the debits a reconciliation may have overwritten.
Reach == LiveSol + GrossOf(overlapped)

\* A request is folded only from a deposit; the cached balance, and the one a
\* reconciliation has read, overstate the reserve by no more than the refunds
\* not booked and the debits overwritten; and the open refunds fit together.
AInv == \A r \in Obligations : obligation[r] = "none" => req[r].state = "Absent"

FInv ==
  /\ solBalance \in Int
  /\ solBalance <= Reach + GrossOf(Unbooked)
  /\ orch.step = "observed" => orch.balance \in Int /\ orch.balance <= Reach + GrossOf(Unbooked)
  /\ RefundsFitTogether

\* A step that reads no balance.
NoReading == orch' = orch \/ orch'.step # "observed"

\* A set that gains or loses one request moves its sum by that deposit.
Moves(S, T, r) ==
  /\ (r \in S <=> r \in T) => GrossOf(T) = GrossOf(S)
  /\ r \notin S /\ r \in T => GrossOf(T) = GrossOf(S) + Gross[r]
  /\ r \in S /\ r \notin T => GrossOf(T) = GrossOf(S) - Gross[r]

LEMMA GrossMoves ==
  ASSUME NEW A \in SUBSET Obligations, NEW B \in SUBSET Obligations, NEW r \in Obligations,
         A \ {r} = B \ {r}
  PROVE  Moves(A, B, r) /\ GrossOf(A) \in Nat /\ GrossOf(B) \in Nat /\ Gross[r] \in Nat
<1> DEFINE w == Gross
<1>1. AgreeBut(w, w, A, B, r)
  BY AmountsAssumption, SumsTyped DEF AgreeBut
<1>2. w[r] \in Nat /\ GrossOf(A) = SumOver(w, A) /\ GrossOf(B) = SumOver(w, B)
  BY AmountsAssumption DEF GrossOf
<1>3. \A x : w[x] = Gross[x]
  OBVIOUS
<1> HIDE DEF w
<1>4. MovesBy(w, w, A, B, r)
  BY ONLY <1>1, SumMovesBy
<1> DEFINE a == GrossOf(A)
           b == GrossOf(B)
           g == Gross[r]
<1>5. /\ a \in Nat /\ b \in Nat /\ g \in Nat
      /\ b + (IF r \in A THEN g ELSE 0) = a + (IF r \in B THEN g ELSE 0)
  BY <1>2, <1>3, <1>4 DEF MovesBy
<1> HIDE DEF a, b, g
<1>6. /\ (r \in A <=> r \in B) => b = a
      /\ r \notin A /\ r \in B => b = a + g
      /\ r \in A /\ r \notin B => b = a - g
  BY <1>5
<1> QED
  BY <1>5, <1>6 DEF a, b, g, Moves

\* The sums at hand are natural numbers.
LEMMA RefundSums ==
  ASSUME OInv
  PROVE  /\ GrossOf(Arrived) \in Nat /\ GrossOf(Repaid) \in Nat /\ GrossOf(overlapped) \in Nat
         /\ GrossOf(Unlanded) \in Nat /\ GrossOf(Unbooked) \in Nat
         /\ Reach = SolInitial + GrossOf(Arrived) - GrossOf(Repaid) + GrossOf(overlapped)
         /\ LiveSol \in Int /\ Reach = LiveSol + GrossOf(overlapped)
         /\ SolInitial \in Nat /\ SolMinimum \in Nat /\ SolReserved \in Nat
<1>1. /\ Arrived \in SUBSET Obligations /\ Repaid \in SUBSET Obligations
      /\ Unlanded \in SUBSET Obligations /\ Unbooked \in SUBSET Obligations
      /\ overlapped \in SUBSET Obligations
  BY DEF Arrived, Repaid, Unlanded, Unbooked, OpenRefunds, OInv
<1>2. LiveSol = SolInitial + GrossOf(Arrived) - GrossOf(Repaid)
  BY DEF LiveSol, Arrived, Repaid
<1> QED
  BY <1>1, <1>2, SumsTyped, ConfigAssumption, LiveSolTyped DEF Reach

\* What fits together, in the names above.
LEMMA Fits ==
  ASSUME OInv
  PROVE  RefundsFitTogether <=>
           (Unlanded # {} => GrossOf(Unlanded) <= Reach - SolMinimum - SolReserved)
<1>1. RefundsFitTogether <=> (Unlanded # {} =>
        GrossOf(Unlanded) <= LiveSol - SolMinimum - SolReserved + GrossOf(overlapped))
  BY DEF RefundsFitTogether, Unlanded
<1> QED
  BY <1>1, RefundSums

\* One request moves: its obligation, its refund row, or both.
LEMMA OneRefundMoves ==
  ASSUME NEW r \in Obligations,
         \A q \in Obligations : q # r => req'[q].refund = req[q].refund
                                         /\ obligation'[q] = obligation[q]
  PROVE  /\ Moves(Arrived, Arrived', r) /\ Moves(Repaid, Repaid', r)
         /\ Moves(Unlanded, Unlanded', r) /\ Moves(Unbooked, Unbooked', r)
         /\ Unlanded' \ {r} = Unlanded \ {r} /\ Gross[r] \in Nat
<1>1. /\ Arrived \in SUBSET Obligations /\ Arrived' \in SUBSET Obligations
      /\ Arrived \ {r} = Arrived' \ {r}
  BY DEF Arrived
<1>2. /\ Repaid \in SUBSET Obligations /\ Repaid' \in SUBSET Obligations
      /\ Repaid \ {r} = Repaid' \ {r}
  BY DEF Repaid
<1>3. /\ Unlanded \in SUBSET Obligations /\ Unlanded' \in SUBSET Obligations
      /\ Unlanded \ {r} = Unlanded' \ {r}
  BY DEF Unlanded, OpenRefunds
<1>4. /\ Unbooked \in SUBSET Obligations /\ Unbooked' \in SUBSET Obligations
      /\ Unbooked \ {r} = Unbooked' \ {r}
  BY DEF Unbooked, OpenRefunds
<1> QED
  BY <1>1, <1>2, <1>3, <1>4, GrossMoves

\* The sums decide: each step below says where its request goes.
LEMMA FitsAfter ==
  ASSUME OInv, OInv', FInv, NoReading, NEW live \in Int, NEW unlanded \in Int, NEW unbooked \in Int,
         Reach' = live, GrossOf(Unlanded') = unlanded, GrossOf(Unbooked') = unbooked,
         solBalance' \in Int, solBalance' <= live + unbooked,
         orch.step = "observed" => Reach + GrossOf(Unbooked) <= live + unbooked,
         Unlanded' # {} => unlanded <= live - SolMinimum - SolReserved
  PROVE  FInv'
<1>1. RefundsFitTogether'
  <2>1. (Unlanded # {} => GrossOf(Unlanded) <= Reach - SolMinimum - SolReserved)'
    BY DEF GrossOf
  <2>2. (RefundsFitTogether <=>
           (Unlanded # {} => GrossOf(Unlanded) <= Reach - SolMinimum - SolReserved))'
    BY Fits, PTL
  <2> QED
    BY <2>1, <2>2
<1>2. GrossOf(Unbooked)' = unbooked
  BY DEF GrossOf
<1>3. (orch.step = "observed" => orch.balance \in Int /\ orch.balance <= Reach + GrossOf(Unbooked))'
  BY <1>2, RefundSums DEF FInv, NoReading
<1> QED
  BY <1>1, <1>2, <1>3 DEF FInv

LEMMA LiveAfter ==
  ASSUME UNCHANGED overlapped
  PROVE  /\ Reach = SolInitial + GrossOf(Arrived) - GrossOf(Repaid) + GrossOf(overlapped)
         /\ Reach' = SolInitial + GrossOf(Arrived') - GrossOf(Repaid') + GrossOf(overlapped)
BY DEF Reach, LiveSol, Arrived, Repaid, GrossOf

\* Steps that move no obligation, no refund row and no cached balance.
LEMMA RefundFrame ==
  ASSUME OInv, OInv', FInv, NoReading, UNCHANGED <<obligation, solBalance, overlapped>>,
         \A q \in Obligations : req'[q].refund = req[q].refund
  PROVE  FInv'
<1>1. OpenRefunds' = OpenRefunds
  BY DEF OpenRefunds
<1>2. Unbooked' = Unbooked /\ Unlanded' = Unlanded
  BY <1>1 DEF Unbooked, Unlanded
<1>3. Reach' = Reach /\ Reach \in Int
  BY RefundSums DEF Reach, LiveSol, GrossOf
<1>4. Unlanded' # {} => GrossOf(Unlanded) <= Reach - SolMinimum - SolReserved
  BY <1>2, Fits DEF FInv
<1>5. solBalance \in Int /\ solBalance <= Reach + GrossOf(Unbooked)
  BY DEF FInv
<1> QED
  BY <1>2, <1>3, <1>4, <1>5, RefundSums, FitsAfter

\* A deposit adds to the reserve, and no refund of it is open.
LEMMA DepositFits ==
  ASSUME IInv, AInv, OInv, OInv', FInv, NoReading, NEW r \in Obligations, DepositToReserve(r)
  PROVE  FInv'
<1>1. /\ obligation[r] = "none" /\ obligation' = [obligation EXCEPT ![r] = "Pending"]
      /\ UNCHANGED <<req, solBalance, overlapped>>
  BY DEF DepositToReserve, ledgerVars
<1>2. req[r].refund = "none"
  BY <1>1, Row DEF AInv, StateFits, RequestRow
<1>3. obligation'[r] = "Pending" /\ \A q \in Obligations : q # r => obligation'[q] = obligation[q]
  BY <1>1 DEF IInv, ChainTypeOK
<1>4. /\ r \notin Arrived /\ r \in Arrived' /\ r \notin Repaid /\ r \notin Repaid'
      /\ r \notin Unlanded /\ r \notin Unlanded' /\ r \notin Unbooked /\ r \notin Unbooked'
  BY <1>1, <1>2, <1>3 DEF Arrived, Repaid, Unlanded, Unbooked, OpenRefunds
<1>5. \A q \in Obligations : q # r => req'[q].refund = req[q].refund /\ obligation'[q] = obligation[q]
  BY <1>1, <1>3
<1>6. /\ GrossOf(Arrived') = GrossOf(Arrived) + Gross[r] /\ GrossOf(Repaid') = GrossOf(Repaid)
      /\ GrossOf(Unlanded') = GrossOf(Unlanded) /\ GrossOf(Unbooked') = GrossOf(Unbooked)
  BY <1>4, <1>5, OneRefundMoves DEF Moves
<1>7. Unlanded' = Unlanded /\ Gross[r] \in Nat
  <2>1. Unlanded' \ {r} = Unlanded \ {r} /\ Gross[r] \in Nat
    BY <1>5, OneRefundMoves
  <2> QED
    BY <1>4, <2>1
<1>8. Reach' = Reach + Gross[r] /\ Reach \in Int
  BY <1>1, <1>6, <1>7, RefundSums, LiveAfter
<1>10. solBalance \in Int /\ solBalance <= Reach + Gross[r] + GrossOf(Unbooked)
  BY <1>7, <1>8, RefundSums DEF FInv
<1>11. Reach + Gross[r] \in Int /\ GrossOf(Unlanded) \in Int /\ GrossOf(Unbooked) \in Int
  BY <1>7, <1>8, RefundSums
<1> DEFINE live == Reach + Gross[r]
<1>12. /\ live \in Int /\ Reach' = live /\ GrossOf(Unlanded') = GrossOf(Unlanded)
       /\ GrossOf(Unbooked') = GrossOf(Unbooked) /\ solBalance' = solBalance
       /\ solBalance \in Int /\ solBalance <= live + GrossOf(Unbooked)
       /\ GrossOf(Unlanded) \in Int /\ GrossOf(Unbooked) \in Int
       /\ Reach + GrossOf(Unbooked) <= live + GrossOf(Unbooked)
  BY <1>1, <1>6, <1>7, <1>8, <1>10, <1>11, RefundSums
<1>13. Unlanded' # {} => GrossOf(Unlanded) <= live - SolMinimum - SolReserved
  BY <1>7, <1>8, RefundSums, Fits DEF FInv
<1> HIDE DEF live
<1> QED
  BY <1>12, <1>13, FitsAfter

\* A refund that lands leaves the reserve and the open refunds together.
LEMMA LandingFits ==
  ASSUME IInv, OInv, OInv', FInv, NoReading, NEW r \in Obligations, NEW i \in DOMAIN refundTx[r], LandRefund(r, i)
  PROVE  FInv'
<1>0. UNCHANGED <<req, solBalance, overlapped>>
  BY DEF LandRefund, ledgerVars
<1>1. CASE obligation' = obligation
  BY <1>0, <1>1, RefundFrame
<1>2. CASE obligation' # obligation
  <2>0. obligation \in [Obligations -> {"none", "Pending", "Completed", "Refunded"}]
    BY DEF IInv, ChainTypeOK
  <2>1. obligation[r] = "Pending" /\ obligation' = [obligation EXCEPT ![r] = "Refunded"]
    BY <1>2, <2>0 DEF LandRefund
  <2>2. req[r].refund = "Broadcast"
    BY <2>1, Row DEF ChainFits
  <2>3. obligation'[r] = "Refunded" /\ \A q \in Obligations : q # r => obligation'[q] = obligation[q]
    BY <2>0, <2>1
  <2>4. /\ r \in Arrived /\ r \in Arrived' /\ r \notin Repaid /\ r \in Repaid'
        /\ r \in Unlanded /\ r \notin Unlanded' /\ r \notin Unbooked /\ r \in Unbooked'
    BY <1>0, <2>1, <2>2, <2>3 DEF Arrived, Repaid, Unlanded, Unbooked, OpenRefunds
  <2>5. \A q \in Obligations : q # r => req'[q].refund = req[q].refund /\ obligation'[q] = obligation[q]
    BY <1>0, <2>3
  <2>6. /\ GrossOf(Arrived') = GrossOf(Arrived) /\ GrossOf(Repaid') = GrossOf(Repaid) + Gross[r]
        /\ GrossOf(Unlanded') = GrossOf(Unlanded) - Gross[r]
        /\ GrossOf(Unbooked') = GrossOf(Unbooked) + Gross[r]
    BY <2>4, <2>5, OneRefundMoves DEF Moves
  <2>7. Gross[r] \in Nat
    BY AmountsAssumption
  <2>8. Reach' = Reach - Gross[r] /\ Reach \in Int
    BY <1>0, <2>6, <2>7, RefundSums, LiveAfter
  <2>9. GrossOf(Unlanded) <= Reach - SolMinimum - SolReserved
    BY <2>4, Fits DEF FInv
  <2>10. GrossOf(Unlanded) - Gross[r] <= Reach - Gross[r] - SolMinimum - SolReserved
    BY <2>7, <2>8, <2>9, RefundSums
  <2>11. solBalance \in Int /\ solBalance <= Reach - Gross[r] + (GrossOf(Unbooked) + Gross[r])
    BY <2>7, <2>8, RefundSums DEF FInv
  <2>12. Reach - Gross[r] \in Int /\ GrossOf(Unlanded) - Gross[r] \in Int
         /\ GrossOf(Unbooked) + Gross[r] \in Int
         /\ Reach + GrossOf(Unbooked) <= Reach - Gross[r] + (GrossOf(Unbooked) + Gross[r])
    BY <2>7, <2>8, RefundSums
  <2> QED
    BY <1>0, <2>6, <2>8, <2>10, <2>11, <2>12, FitsAfter
<1> QED
  BY <1>1, <1>2

\* A completion that lands moves an obligation no refund can still pay.
LEMMA CompletionFits ==
  ASSUME IInv, OInv, OInv', FInv, NoReading, NEW r \in Obligations, NEW i \in DOMAIN completionTx[r], LandCompletion(r, i)
  PROVE  FInv'
<1>0. UNCHANGED <<req, solBalance, overlapped>>
  BY DEF LandCompletion, ledgerVars
<1>1. CASE obligation' = obligation
  BY <1>0, <1>1, RefundFrame
<1>2. CASE obligation' # obligation
  <2>0. obligation \in [Obligations -> {"none", "Pending", "Completed", "Refunded"}]
    BY DEF IInv, ChainTypeOK
  <2>1. obligation[r] = "Pending" /\ obligation' = [obligation EXCEPT ![r] = "Completed"]
    BY <1>2, <2>0 DEF LandCompletion
  <2>2. req[r].refund = "none"
    BY Row DEF ChainFits, StateFits, RequestRow, Paid
  <2>3. obligation'[r] = "Completed" /\ \A q \in Obligations : q # r => obligation'[q] = obligation[q]
    BY <2>0, <2>1
  <2>4. Arrived' = Arrived /\ Repaid' = Repaid
    BY <2>1, <2>3 DEF Arrived, Repaid
  <2>5. Unlanded' = Unlanded /\ Unbooked' = Unbooked
    BY <1>0, <2>2, <2>3 DEF Unlanded, Unbooked, OpenRefunds
  <2>6. Reach' = Reach /\ Reach \in Int
    BY <1>0, <2>4, LiveAfter, RefundSums
  <2>7. Unlanded' # {} => GrossOf(Unlanded) <= Reach - SolMinimum - SolReserved
    BY <2>5, Fits DEF FInv
  <2>8. solBalance \in Int /\ solBalance <= Reach + GrossOf(Unbooked)
    BY DEF FInv
  <2> QED
    BY <1>0, <2>5, <2>6, <2>7, <2>8, RefundSums, FitsAfter
<1> QED
  BY <1>1, <1>2

\* A refund is begun only where it fits beside the others: whatever the cache
\* still counts of landed refunds, their open rows hold back.
LEMMA BeginFits ==
  ASSUME IInv, OInv, OInv', FInv, NoReading, NEW o \in Operators, NEW r \in Obligations, BeginSolanaRefund(o, r)
  PROVE  FInv'
<1> DEFINE row == [req[r] EXCEPT !.refund = "Pending", !.state = "RefundPending"]
<1>1. /\ req' = [req EXCEPT ![r] = row] /\ UNCHANGED <<obligation, solBalance, overlapped>>
      /\ req[r].refund = "none" /\ RefundCapacityOK(r)
  BY DEF BeginSolanaRefund, RefundEligible, SetRow, chainVars
<1>2. row.refund = "Pending"
  BY Row DEF RequestRow
<1> HIDE DEF row
<1>3. req'[r].refund = "Pending" /\ \A q \in Obligations : q # r => req'[q] = req[q]
  BY <1>1, <1>2 DEF IInv, ServiceTypeOK
<1>4. Arrived' = Arrived /\ Repaid' = Repaid
  BY <1>1 DEF Arrived, Repaid
<1>5. Reach' = Reach /\ Reach \in Int
  BY <1>1, <1>4, LiveAfter, RefundSums
<1>6. Unbooked' = Unbooked
  <2>1. obligation[r] # "Refunded"
    BY <1>1, Row DEF ChainFits
  <2> QED
    BY <1>1, <1>3, <2>1 DEF Unbooked, OpenRefunds
<1>7. r \notin OpenRefunds /\ OpenRefunds \ {r} = OpenRefunds
  BY <1>1 DEF OpenRefunds
<1>8. GrossOf(Unlanded) + GrossOf(Unbooked) <= GrossOf(OpenRefunds) /\ GrossOf(OpenRefunds) \in Nat
  <2>1. /\ OpenRefunds \in SUBSET Obligations /\ Unbooked \in SUBSET OpenRefunds
        /\ Unlanded \in SUBSET (OpenRefunds \ Unbooked)
        /\ OpenRefunds \ Unbooked \in SUBSET Obligations
    BY DEF OpenRefunds, Unbooked, Unlanded
  <2>2. /\ IsFiniteSet(OpenRefunds) /\ IsFiniteSet(OpenRefunds \ Unbooked)
        /\ GrossOf(OpenRefunds) \in Nat /\ GrossOf(OpenRefunds \ Unbooked) \in Nat
    BY <2>1, SumsTyped
  <2>3. \A x \in OpenRefunds : Gross[x] \in Nat
    BY <2>1, AmountsAssumption
  <2> HIDE DEF OpenRefunds, Unbooked, Unlanded
  <2>4. GrossOf(OpenRefunds) = GrossOf(Unbooked) + GrossOf(OpenRefunds \ Unbooked)
    BY <2>1, <2>2, <2>3, SumSplit DEF GrossOf
  <2>5. GrossOf(Unlanded) <= GrossOf(OpenRefunds \ Unbooked)
    BY <2>1, <2>2, <2>3, SumMonotone DEF GrossOf
  <2> QED
    BY <2>2, <2>4, <2>5, RefundSums
<1>9. Gross[r] \in Nat
  BY AmountsAssumption
<1>10. GrossOf(Unlanded') <= GrossOf(Unlanded) + Gross[r] /\ GrossOf(Unlanded') \in Int
  <2>1. \A q \in Obligations : q # r => req'[q].refund = req[q].refund /\ obligation'[q] = obligation[q]
    BY <1>1, <1>3
  <2>2. Moves(Unlanded, Unlanded', r)
    BY <2>1, OneRefundMoves
  <2>3. r \notin Unlanded
    BY <1>7 DEF Unlanded
  <2>4. GrossOf(Unlanded') = GrossOf(Unlanded) + Gross[r] \/ GrossOf(Unlanded') = GrossOf(Unlanded)
    BY <2>2, <2>3 DEF Moves
  <2> QED
    BY <1>9, <2>4, RefundSums
<1>11. Gross[r] <= solBalance - SolMinimum - SolReserved - GrossOf(OpenRefunds)
  BY <1>1, <1>7 DEF RefundCapacityOK
<1>12. solBalance \in Int /\ solBalance <= Reach + GrossOf(Unbooked)
  BY DEF FInv
<1>13. GrossOf(Unlanded) + Gross[r] <= Reach - SolMinimum - SolReserved
  BY <1>5, <1>8, <1>9, <1>11, <1>12, RefundSums
<1>14. GrossOf(Unlanded') <= Reach - SolMinimum - SolReserved
  BY <1>5, <1>9, <1>10, <1>13, RefundSums
<1>15. solBalance' = solBalance /\ GrossOf(Unbooked) \in Int
  BY <1>1, RefundSums
<1> QED
  BY <1>5, <1>6, <1>10, <1>12, <1>14, <1>15, FitsAfter

\* A return to review takes one refund out of the open ones.
LEMMA ReturnFits ==
  ASSUME IInv, OInv, OInv', FInv, NoReading, NEW o \in Operators, NEW r \in Obligations, ReturnRefundToManualReview(o, r)
  PROVE  FInv'
<1> DEFINE row == [req[r] EXCEPT !.state = "ManualReview", !.refund = "none"]
<1>1. /\ req' = [req EXCEPT ![r] = row] /\ UNCHANGED <<obligation, solBalance, overlapped>>
      /\ req[r].refund = "Pending"
  BY DEF ReturnRefundToManualReview, Returnable, SetRow, chainVars
<1>2. row.refund = "none"
  BY Row DEF RequestRow
<1> HIDE DEF row
<1>3. req'[r].refund = "none" /\ \A q \in Obligations : q # r => req'[q] = req[q]
  BY <1>1, <1>2 DEF IInv, ServiceTypeOK
<1>4. Arrived' = Arrived /\ Repaid' = Repaid
  BY <1>1 DEF Arrived, Repaid
<1>5. Reach' = Reach /\ Reach \in Int
  BY <1>1, <1>4, LiveAfter, RefundSums
<1>6. Unbooked' = Unbooked /\ Unlanded' \in SUBSET Unlanded
  <2>1. obligation[r] # "Refunded"
    BY <1>1, Row DEF ChainFits
  <2> QED
    BY <1>1, <1>3, <2>1 DEF Unbooked, Unlanded, OpenRefunds
<1>7. GrossOf(Unlanded') <= GrossOf(Unlanded) /\ GrossOf(Unlanded') \in Int
  <2>1. Unlanded \in SUBSET Obligations /\ Unlanded' \in SUBSET Obligations
    BY DEF Unlanded, OpenRefunds
  <2>2. IsFiniteSet(Unlanded) /\ GrossOf(Unlanded') \in Nat /\ \A x \in Unlanded : Gross[x] \in Nat
    BY <2>1, SumsTyped, AmountsAssumption
  <2> QED
    BY <1>6, <2>2, SumMonotone DEF GrossOf
<1>8. Unlanded' # {} => GrossOf(Unlanded') <= Reach - SolMinimum - SolReserved
  <2>1. Unlanded' # {} => GrossOf(Unlanded) <= Reach - SolMinimum - SolReserved
    BY <1>6, Fits DEF FInv
  <2> QED
    BY <1>5, <1>7, <2>1, RefundSums
<1>9. solBalance' = solBalance /\ solBalance \in Int /\ solBalance <= Reach + GrossOf(Unbooked)
      /\ GrossOf(Unbooked) \in Int
  BY <1>1, RefundSums DEF FInv
<1> QED
  BY <1>5, <1>6, <1>7, <1>8, <1>9, FitsAfter

\* Recording a signature keeps the refund open.
LEMMA SignedStaysOpen ==
  ASSUME IInv, OInv, OInv', FInv, NoReading, NEW o \in Operators, NEW r \in Obligations, RecordSolanaRefundBroadcast(o, r)
  PROVE  FInv'
<1> DEFINE sig == Len(refundTx[r]) + 1
           row == [req[r] EXCEPT !.refund = "Broadcast", !.refundSig = sig,
                                 !.state = "RefundBroadcast"]
<1>1. /\ req' = [req EXCEPT ![r] = row] /\ UNCHANGED <<obligation, solBalance, overlapped>>
      /\ req[r].refund \in {"Pending", "Broadcast"}
  BY DEF RecordSolanaRefundBroadcast, RefundOpen, SetRow
<1> HIDE DEF sig
<1>2. row.refund = "Broadcast"
  BY Row DEF RequestRow
<1> HIDE DEF row
<1>3. req'[r].refund = "Broadcast" /\ \A q \in Obligations : q # r => req'[q] = req[q]
  BY <1>1, <1>2 DEF IInv, ServiceTypeOK
<1>4. OpenRefunds' = OpenRefunds
  BY <1>1, <1>3 DEF OpenRefunds
<1>5. Unbooked' = Unbooked /\ Unlanded' = Unlanded /\ Arrived' = Arrived /\ Repaid' = Repaid
  BY <1>1, <1>4 DEF Unbooked, Unlanded, Arrived, Repaid
<1>6. Reach' = Reach /\ Reach \in Int
  BY <1>1, <1>5, LiveAfter, RefundSums
<1>7. Unlanded' # {} => GrossOf(Unlanded) <= Reach - SolMinimum - SolReserved
  BY <1>5, Fits DEF FInv
<1>8. solBalance' = solBalance /\ solBalance \in Int /\ solBalance <= Reach + GrossOf(Unbooked)
      /\ GrossOf(Unbooked) \in Int /\ GrossOf(Unlanded) \in Int
  BY <1>1, RefundSums DEF FInv
<1> QED
  BY <1>5, <1>6, <1>7, <1>8, FitsAfter

\* A confirmed refund leaves the cache and its open row together.
LEMMA ConfirmFits ==
  ASSUME IInv, OInv, OInv', FInv, NEW r \in Obligations, obligation[r] = "Refunded",
         MarkSolanaRefundConfirmed(r), UNCHANGED <<orch, obligation>>
  PROVE  FInv'
<1>n. NoReading
  BY DEF NoReading
<1>1. CASE req[r].refund # "Broadcast"
  BY <1>n, <1>1, RefundFrame DEF MarkSolanaRefundConfirmed
<1>2. CASE req[r].refund = "Broadcast"
  <2> DEFINE row == [req[r] EXCEPT !.refund = "Confirmed", !.state = "Refunded"]
  <2>1. /\ req' = [req EXCEPT ![r] = row] /\ solBalance' = solBalance - Gross[r]
        /\ overlapped' = IF orch.step = "observed" THEN overlapped \cup {r} ELSE overlapped
    BY <1>2 DEF MarkSolanaRefundConfirmed, SetRow
  <2>2. row.refund = "Confirmed"
    BY Row DEF RequestRow
  <2> HIDE DEF row
  <2>3. req'[r].refund = "Confirmed" /\ \A q \in Obligations : q # r => req'[q] = req[q]
    BY <2>1, <2>2 DEF IInv, ServiceTypeOK
  <2>4. Unlanded' = Unlanded /\ r \in Unbooked /\ r \notin Unbooked'
    BY <1>2, <2>3 DEF Unlanded, Unbooked, OpenRefunds
  <2>5. \A q \in Obligations : q # r => req'[q].refund = req[q].refund /\ obligation'[q] = obligation[q]
    BY <2>3
  <2>6. GrossOf(Unbooked') = GrossOf(Unbooked) - Gross[r] /\ Gross[r] \in Nat
    BY <2>4, <2>5, OneRefundMoves DEF Moves
  <2>7. LiveSol' = LiveSol
    BY DEF LiveSol, GrossOf
  \* The debit the reading in hand will overwrite.
  <2> DEFINE over == IF orch.step = "observed" THEN Gross[r] ELSE 0
  <2>8. GrossOf(overlapped') = GrossOf(overlapped) + over
    <3>1. r \notin overlapped /\ overlapped \in SUBSET Obligations /\ overlapped' \in SUBSET Obligations
      BY <1>2 DEF OInv
    <3>2. CASE orch.step = "observed"
      <4>1. overlapped \ {r} = overlapped' \ {r} /\ r \in overlapped'
        BY <2>1, <3>2
      <4>2. Moves(overlapped, overlapped', r)
        BY <3>1, <4>1, GrossMoves
      <4> QED
        BY <3>1, <3>2, <4>1, <4>2 DEF Moves
    <3>3. CASE orch.step # "observed"
      BY <2>1, <3>3, RefundSums
    <3> QED
      BY <3>2, <3>3
  <2>9. Reach' = Reach + over /\ Reach \in Int
    <3>1. Reach' = LiveSol + GrossOf(overlapped')
      BY <2>7 DEF Reach, GrossOf
    <3> QED
      BY <2>6, <2>8, <3>1, RefundSums
  <2>10. over \in Nat /\ (orch.step = "observed" => over = Gross[r])
    BY <2>6
  <2>11. Unlanded' # {} => GrossOf(Unlanded) <= Reach - SolMinimum - SolReserved
    BY <2>4, Fits DEF FInv
  <2>12. solBalance \in Int /\ solBalance <= Reach + GrossOf(Unbooked)
    BY DEF FInv
  <2> HIDE DEF over
  <2> DEFINE live == Reach + over
             unbooked == GrossOf(Unbooked) - Gross[r]
  <2>13. /\ live \in Int /\ unbooked \in Int /\ GrossOf(Unlanded) \in Int
         /\ solBalance - Gross[r] \in Int /\ solBalance - Gross[r] <= live + unbooked
         /\ orch.step = "observed" => Reach + GrossOf(Unbooked) <= live + unbooked
         /\ Unlanded' # {} => GrossOf(Unlanded) <= live - SolMinimum - SolReserved
    BY <2>6, <2>9, <2>10, <2>11, <2>12, RefundSums
  <2>14. Reach' = live /\ GrossOf(Unbooked') = unbooked /\ GrossOf(Unlanded') = GrossOf(Unlanded)
    BY <2>4, <2>6, <2>9
  <2> HIDE DEF live, unbooked
  <2> QED
    BY <1>n, <2>1, <2>13, <2>14, FitsAfter
<1> QED
  BY <1>1, <1>2

\* Every step keeps the open refunds within the reserve.
LEMMA NextFits == IInv /\ AInv /\ OInv /\ FInv /\ [Next]_vars => FInv'
<1> SUFFICES ASSUME IInv, AInv, OInv, FInv, [Next]_vars PROVE FInv'
  OBVIOUS
<1>o. OInv'
  BY NextOverlap
<1>w. ASSUME NEW r \in Obligations, Payout(r) \/ Completion(r) PROVE NoReading
  BY <1>w DEF NoReading, Payout, BuildPayout, RecordGoldcoinPayoutSigned, SendPayout,
     RecordGoldcoinPayoutBroadcast, UpdateGoldcoinPayoutConfirmations, RowOnly, Completion,
     SubmitCompletion, SendCompletion, RecordGoldcoinCompletionSubmitted,
     MarkGoldcoinCompletionConfirmed, Settle, Working, Idle
<1>v. ASSUME NEW r \in Obligations, Fold(r) \/ Review(r) \/ Chain(r) PROVE NoReading
  BY <1>v DEF NoReading, Fold, FoldSolDeposit, Review, AutoResume, ResumeManualReview,
     ProcessHeldManualReview, Resume, SetManualReviewHold, ClearManualReviewHold, DecideRefund,
     CloseManualReview, ExportManualRefund, SendManualRefund, RecordManualSolanaRefund, RowOnly,
     ManualRefundMoves, Chain, DepositToReserve, MinePayout, BuryPayout, ReorgPayout, PayoutMoves,
     LandCompletion, DropCompletion, ForgetCompletion, LandRefund, ExpireRefund
<1>u. ASSUME NEW o \in Operators, (\E r \in Obligations : RefundCommand(o, r)) \/ CommandStep(o)
      PROVE  UNCHANGED orch
  BY <1>u DEF RefundCommand, ExecuteRefund, BeginSolanaRefund, RecordSolanaRefundBroadcast,
     ProveRefundNeverLanded, ReturnRefundToManualReview, RecoverStuckPayout,
     RecordRecoveredPayout, CommandStep, SendRefund, ConfirmRefund, RecoverBroadcast,
     AbandonCommand
<1>x. ASSUME Gates \/ AbandonTick \/ SetBridgePaused \/ UNCHANGED vars PROVE NoReading
  <2>1. UNCHANGED orch \/ orch' = Idle
    BY <1>x DEF Gates, EvaluateLiquidityAdmissionGate, ReconcileGoldcoin, SetGates, AbandonTick,
       SetBridgePaused, vars
  <2> QED
    BY <2>1 DEF NoReading, Idle
<1>t. req \in [Obligations -> RequestRow]
  BY DEF IInv, ServiceTypeOK
<1>f. ASSUME NoReading, UNCHANGED <<req, obligation, solBalance, overlapped>> PROVE FInv'
  BY <1>f, <1>o, RefundFrame
<1>r. ASSUME NEW r \in Obligations, NEW row, req' = [req EXCEPT ![r] = row],
             row.refund = req[r].refund, NoReading,
             UNCHANGED <<obligation, solBalance, overlapped>>
      PROVE  FInv'
  <2>1. \A q \in Obligations : req'[q].refund = req[q].refund
    BY <1>t, <1>r
  <2> QED
    BY <1>o, <1>r, <2>1, RefundFrame
<1>1. ASSUME NEW r \in Obligations, Fold(r) PROVE FInv'
  <2>n. NoReading
    BY <1>v, <1>1
  <2>1. PICK a, b, c, d : FoldSolDeposit(r, a, b, c, d)
    BY <1>1 DEF Fold
  <2> DEFINE note == ParkReason(r, a, b, c, d)
             new == [NoRequest EXCEPT
                       !.state = IF note = "none" THEN "SourceFinalized" ELSE "ManualReview",
                       !.note = note, !.advanced = note = "none",
                       !.hold = IF c THEN "burst" ELSE "none"]
  <2>2. req' = [req EXCEPT ![r] = new] /\ req[r].state = "Absent" /\ UNCHANGED <<obligation, solBalance, overlapped>>
    BY <2>1 DEF FoldSolDeposit, SetRow, chainVars
  <2> HIDE DEF note
  <2>3. new.refund = "none"
    BY DEF NoRequest
  <2> HIDE DEF new
  <2>4. req[r].refund = "none"
    BY <2>2, Row DEF StateFits, RequestRow
  <2> QED
    BY <1>r, <2>n, <2>2, <2>3, <2>4
<1>2. ASSUME NEW r \in Obligations, Resume(r) PROVE FInv'
  <2>n. NoReading
    BY <1>2 DEF Resume, NoReading
  <2> DEFINE row == [req[r] EXCEPT !.state = "SourceFinalized", !.note = "none",
                                !.hold = "none", !.advanced = TRUE]
  <2>1. req' = [req EXCEPT ![r] = row] /\ UNCHANGED <<obligation, solBalance, overlapped>>
    BY <1>2 DEF Resume, SetRow, chainVars
  <2>2. row.refund = req[r].refund
    BY <1>t DEF RequestRow
  <2> HIDE DEF row
  <2> QED
    BY <1>r, <2>n, <2>1, <2>2
<1>3. ASSUME NEW r \in Obligations, (Review(r) /\ ~Resume(r)) \/ Payout(r) PROVE FInv'
  <2>n. NoReading
    BY <1>v, <1>w, <1>3
  <2>1. UNCHANGED <<obligation, overlapped>>
    BY <1>3 DEF Review, AutoResume, ResumeManualReview, ProcessHeldManualReview,
       SetManualReviewHold, ClearManualReviewHold, DecideRefund, CloseManualReview,
       ExportManualRefund, SendManualRefund, RecordManualSolanaRefund, RowOnly,
       ManualRefundMoves, Payout, BuildPayout, RecordGoldcoinPayoutSigned, SendPayout,
       RecordGoldcoinPayoutBroadcast, UpdateGoldcoinPayoutConfirmations, chainVars, ledgerVars
  <2>2. (\A q \in Obligations : req'[q].refund = req[q].refund) /\ solBalance' = solBalance
    BY <1>3, ReviewAndPayoutKeep DEF SameRow
  <2> QED
    BY <1>o, <2>n, <2>1, <2>2, RefundFrame
<1>4. ASSUME NEW r \in Obligations, Completion(r) PROVE FInv'
  <2>n. NoReading
    BY <1>w, <1>4
  <2>1. CASE SubmitCompletion(r) \/ SendCompletion(r)
    BY <1>f, <2>n, <2>1 DEF SubmitCompletion, SendCompletion, ledgerVars, chainVars
  <2>2. CASE RecordGoldcoinCompletionSubmitted(r)
    <3>1. UNCHANGED <<obligation, overlapped>>
      BY <2>2 DEF RecordGoldcoinCompletionSubmitted, chainVars
    <3>2. (\A q \in Obligations : req'[q].refund = req[q].refund) /\ solBalance' = solBalance
      BY <2>2, RecordCompletionKeeps
    <3> QED
      BY <1>o, <2>n, <3>1, <3>2, RefundFrame
  <2>3. CASE MarkGoldcoinCompletionConfirmed(r)
    <3> DEFINE row == [req[r] EXCEPT !.payout = "Completed", !.state = "Settled"]
    <3>1. req' = [req EXCEPT ![r] = row] /\ UNCHANGED <<obligation, solBalance, overlapped>>
      BY <2>3 DEF MarkGoldcoinCompletionConfirmed, Settle, SetRow, chainVars
    <3>2. row.refund = req[r].refund
      BY <1>t DEF RequestRow
    <3> HIDE DEF row
    <3> QED
      BY <1>r, <2>n, <3>1, <3>2
  <2> QED
    BY <1>4, <2>1, <2>2, <2>3 DEF Completion
<1>5. ASSUME NEW r \in Obligations, Chain(r) PROVE FInv'
  <2>n. NoReading
    BY <1>v, <1>5
  <2>1. CASE MinePayout(r) \/ BuryPayout(r) \/ ReorgPayout(r)
    BY <1>f, <2>n, <2>1 DEF MinePayout, BuryPayout, ReorgPayout, PayoutMoves, ledgerVars
  <2>2. ASSUME NEW i \in DOMAIN completionTx[r], DropCompletion(r, i) \/ ForgetCompletion(r, i)
        PROVE  FInv'
    BY <1>f, <2>n, <2>2 DEF DropCompletion, ForgetCompletion, ledgerVars
  <2>3. ASSUME NEW i \in DOMAIN refundTx[r], ExpireRefund(r, i) PROVE FInv'
    BY <1>f, <2>n, <2>3 DEF ExpireRefund, ledgerVars
  <2> QED
    BY <1>o, <1>5, <2>n, <2>1, <2>2, <2>3, DepositFits, LandingFits, CompletionFits DEF Chain
<1>6. ASSUME NEW o \in Operators, NEW r \in Obligations, RefundCommand(o, r) PROVE FInv'
  <2>n. NoReading
    BY <1>u, <1>6 DEF NoReading
  <2>1. CASE ExecuteRefund(o, r) \/ ProveRefundNeverLanded(o, r) \/ RecoverStuckPayout(o, r)
    BY <1>f, <2>n, <2>1 DEF ExecuteRefund, ProveRefundNeverLanded, RecoverStuckPayout, ledgerVars,
       chainVars
  <2>2. CASE RecordRecoveredPayout(o, r)
    <3>1. CASE req[r].payout = "Signed"
      <4> DEFINE row == [req[r] EXCEPT !.payout = "Broadcast", !.state = "DestinationSubmitted"]
      <4>1. req' = [req EXCEPT ![r] = row] /\ UNCHANGED <<obligation, solBalance, overlapped>>
        BY <2>2, <3>1 DEF RecordRecoveredPayout, PayoutBroadcast, SetRow, chainVars
      <4>2. row.refund = req[r].refund
        BY <1>t DEF RequestRow
      <4> HIDE DEF row
      <4> QED
        BY <1>r, <2>n, <4>1, <4>2
    <3>2. CASE req[r].payout # "Signed"
      BY <1>f, <2>n, <2>2, <3>2 DEF RecordRecoveredPayout, PayoutBroadcast, chainVars
    <3> QED
      BY <3>1, <3>2
  <2> QED
    BY <1>o, <1>6, <2>n, <2>1, <2>2, BeginFits, ReturnFits, SignedStaysOpen DEF RefundCommand
<1>7. ASSUME NEW o \in Operators, CommandStep(o) PROVE FInv'
  <2>n. NoReading /\ UNCHANGED orch
    BY <1>u, <1>7 DEF NoReading
  <2>1. CASE SendRefund(o) \/ AbandonCommand(o)
    BY <1>f, <2>n, <2>1 DEF SendRefund, AbandonCommand, ledgerVars, chainVars
  <2>2. CASE ConfirmRefund(o) \/ RecoverBroadcast(o)
    <3>1. op[o].step \in Tracking /\ op[o] \in Steps
      BY <2>2 DEF ConfirmRefund, RecoverBroadcast, Tracking, IInv, ServiceTypeOK
    <3>2. op[o].req \in Obligations /\ op[o].sig \in DOMAIN refundTx[op[o].req]
      BY <3>1, StepShape DEF IInv, ProcessesFit, CommandFits
    <3>3. UNCHANGED obligation
      BY <2>2 DEF ConfirmRefund, RecoverBroadcast, chainVars
    <3>4. \/ obligation[op[o].req] = "Refunded" /\ MarkSolanaRefundConfirmed(op[o].req)
          \/ UNCHANGED <<req, solBalance, overlapped>>
      BY <2>2, <3>2, Row DEF ConfirmRefund, RecoverBroadcast, ChainFits
    <3> QED
      BY <1>f, <2>n, <1>o, <3>2, <3>3, <3>4, ConfirmFits
  <2> QED
    BY <1>7, <2>1, <2>2 DEF CommandStep
<1>8. ASSUME Gates \/ AbandonTick \/ SetBridgePaused \/ UNCHANGED vars PROVE FInv'
  <2>1. UNCHANGED <<req, obligation, solBalance, overlapped>>
    BY <1>8 DEF Gates, EvaluateLiquidityAdmissionGate, ReconcileGoldcoin, SetGates, AbandonTick,
       SetBridgePaused, vars, ledgerVars, chainVars
  <2> QED
    BY <1>f, <1>x, <1>8, <2>1
<1>9. ASSUME ObserveSolana PROVE FInv'
  <2>1. orch'.balance = LiveSol /\ UNCHANGED <<req, obligation, solBalance, overlapped>>
    BY <1>9 DEF ObserveSolana, ledgerVars, chainVars
  <2>2. (orch.step = "observed" => orch.balance \in Int /\ orch.balance <= Reach + GrossOf(Unbooked))'
    <3>1. Reach' = Reach /\ GrossOf(Unbooked)' = GrossOf(Unbooked)
      BY <2>1 DEF Reach, LiveSol, Unbooked, OpenRefunds, GrossOf
    <3> QED
      BY <2>1, <3>1, RefundSums
  <2>3. (solBalance \in Int /\ solBalance <= Reach + GrossOf(Unbooked) /\ RefundsFitTogether)'
    BY <2>1 DEF FInv, Reach, LiveSol, Unbooked, RefundsFitTogether, OpenRefunds, GrossOf
  <2> QED
    BY <2>2, <2>3 DEF FInv
<1>10. ASSUME ReconcileSolana PROVE FInv'
  <2>1. /\ orch.step = "observed" /\ solBalance' = orch.balance /\ NoReading
        /\ UNCHANGED <<req, obligation, overlapped>>
    BY <1>10 DEF ReconcileSolana, NoReading, Idle, chainVars
  <2>2. Reach' = Reach /\ Reach \in Int /\ Unbooked' = Unbooked /\ Unlanded' = Unlanded
    BY <2>1, RefundSums DEF Reach, LiveSol, Unbooked, Unlanded, OpenRefunds, GrossOf
  <2>3. Unlanded' # {} => GrossOf(Unlanded) <= Reach - SolMinimum - SolReserved
    BY <2>2, Fits DEF FInv
  <2>4. solBalance' \in Int /\ solBalance' <= Reach + GrossOf(Unbooked)
    BY <2>1 DEF FInv
  <2> QED
    BY <1>o, <2>1, <2>2, <2>3, <2>4, RefundSums, FitsAfter
<1> QED
  BY <1>1, <1>2, <1>3, <1>4, <1>5, <1>6, <1>7, <1>8, <1>9, <1>10 DEF Next

\* A row exists only for a deposit that was made.
LEMMA NextFolded == IInv /\ AInv /\ [Next]_vars => AInv'
<1> SUFFICES ASSUME IInv, AInv, [Next]_vars PROVE AInv'
  OBVIOUS
<1>t. req \in [Obligations -> RequestRow]
      /\ obligation \in [Obligations -> {"none", "Pending", "Completed", "Refunded"}]
  BY DEF IInv, ServiceTypeOK, ChainTypeOK
<1>s. ASSUME \A q \in Obligations : req[q].state = "Absent" => req'[q].state = "Absent",
             \A q \in Obligations : obligation'[q] = "none" => obligation[q] = "none"
      PROVE  AInv'
  BY <1>s DEF AInv
<1>r. ASSUME NEW r \in Obligations, NEW row, req' = [req EXCEPT ![r] = row],
             obligation[r] # "none" \/ req[r].state # "Absent", UNCHANGED obligation
      PROVE  AInv'
  BY <1>t, <1>r DEF AInv
<1>1. ASSUME NEW r \in Obligations, Fold(r) PROVE AInv'
  <2>1. PICK a, b, c, d : FoldSolDeposit(r, a, b, c, d)
    BY <1>1 DEF Fold
  <2>2. obligation[r] # "none" /\ UNCHANGED obligation
    BY <2>1 DEF FoldSolDeposit, chainVars
  <2>3. \E row : SetRow(r, row)
    BY <2>1 DEF FoldSolDeposit
  <2>4. \E row : req' = [req EXCEPT ![r] = row]
    BY <2>3 DEF SetRow
  <2> QED
    BY <1>r, <2>2, <2>4
<1>2. ASSUME NEW r \in Obligations, Resume(r) PROVE AInv'
  <2>1. req[r].state # "Absent" /\ UNCHANGED obligation /\ \E row : req' = [req EXCEPT ![r] = row]
    BY <1>2 DEF Resume, Resumable, SetRow, chainVars
  <2> QED
    BY <1>r, <2>1
<1>3. ASSUME NEW r \in Obligations, (Review(r) /\ ~Resume(r)) \/ Payout(r) PROVE AInv'
  <2>1. UNCHANGED obligation
    BY <1>3 DEF Review, AutoResume, ResumeManualReview, ProcessHeldManualReview,
       SetManualReviewHold, ClearManualReviewHold, DecideRefund, CloseManualReview,
       ExportManualRefund, SendManualRefund, RecordManualSolanaRefund, RowOnly,
       ManualRefundMoves, Payout, BuildPayout, RecordGoldcoinPayoutSigned, SendPayout,
       RecordGoldcoinPayoutBroadcast, UpdateGoldcoinPayoutConfirmations, chainVars
  <2> QED
    BY <1>3, <1>s, <2>1, ReviewAndPayoutKeep DEF SameRow, SameCount, SameShare
<1>4. ASSUME NEW r \in Obligations, Completion(r) PROVE AInv'
  <2>1. CASE SubmitCompletion(r) \/ SendCompletion(r)
    BY <1>s, <2>1 DEF SubmitCompletion, SendCompletion, ledgerVars, chainVars
  <2>2. CASE RecordGoldcoinCompletionSubmitted(r)
    BY <1>s, <2>2, RecordCompletionKeeps DEF RecordGoldcoinCompletionSubmitted, chainVars, SameShare
  <2>3. CASE MarkGoldcoinCompletionConfirmed(r)
    <3>1. req[r].payout = "Confirmed" /\ UNCHANGED obligation /\ \E row : req' = [req EXCEPT ![r] = row]
      BY <2>3 DEF MarkGoldcoinCompletionConfirmed, Settle, SetRow, chainVars
    <3>2. req[r].state # "Absent"
      BY <3>1, Row DEF StateFits
    <3> QED
      BY <1>r, <3>1, <3>2
  <2> QED
    BY <1>4, <2>1, <2>2, <2>3 DEF Completion
<1>5. ASSUME NEW r \in Obligations, Chain(r) PROVE AInv'
  <2>1. UNCHANGED req
    BY <1>5 DEF Chain, DepositToReserve, MinePayout, BuryPayout, ReorgPayout, PayoutMoves,
       LandCompletion, DropCompletion, ForgetCompletion, LandRefund, ExpireRefund, ledgerVars
  <2>2. \A q \in Obligations : obligation'[q] = "none" => obligation[q] = "none"
    BY <1>5, <1>t DEF Chain, DepositToReserve, MinePayout, BuryPayout, ReorgPayout, PayoutMoves,
       LandCompletion, DropCompletion, ForgetCompletion, LandRefund, ExpireRefund
  <2> QED
    BY <1>s, <2>1, <2>2
<1>6. ASSUME NEW o \in Operators, (\E r \in Obligations : RefundCommand(o, r)) \/ CommandStep(o)
      PROVE  AInv'
  <2>1. UNCHANGED obligation
    BY <1>6 DEF RefundCommand, ExecuteRefund, BeginSolanaRefund, RecordSolanaRefundBroadcast,
       ProveRefundNeverLanded, ReturnRefundToManualReview, RecoverStuckPayout,
       RecordRecoveredPayout, CommandStep, SendRefund, ConfirmRefund, RecoverBroadcast,
       AbandonCommand, chainVars
  <2> QED
    BY <1>6, <1>s, <2>1, CommandsKeep DEF SameCount, SameShare
<1>7. ASSUME Gates \/ AbandonTick \/ SetBridgePaused \/ ObserveSolana \/ ReconcileSolana
               \/ UNCHANGED vars
      PROVE  UNCHANGED <<req, obligation>>
  BY <1>7 DEF Gates, EvaluateLiquidityAdmissionGate, ReconcileGoldcoin, SetGates,
     AbandonTick, SetBridgePaused, ObserveSolana, ReconcileSolana, vars, ledgerVars, chainVars
<1> QED
  BY <1>1, <1>2, <1>3, <1>4, <1>5, <1>6, <1>7, <1>s DEF Next

LEMMA InitFits == Init => AInv /\ FInv
<1> SUFFICES ASSUME Init PROVE AInv /\ FInv
  OBVIOUS
<1>1. \A r \in Obligations : req[r].state = "Absent" /\ req[r].refund = "none" /\ obligation[r] = "none"
  BY DEF Init, NoRequest
<1>2. OpenRefunds = {} /\ Unbooked = {} /\ Unlanded = {} /\ Arrived = {} /\ Repaid = {}
  BY <1>1 DEF OpenRefunds, Unbooked, Unlanded, Arrived, Repaid
<1>3. GrossOf({}) = 0
  BY SumEmpty DEF GrossOf
<1>4. LiveSol = SolInitial /\ solBalance = SolInitial /\ SolInitial \in Nat
  <2>1. LiveSol = SolInitial + GrossOf(Arrived) - GrossOf(Repaid)
    BY DEF LiveSol, Arrived, Repaid
  <2> QED
    BY <1>2, <1>3, <2>1, ConfigAssumption DEF Init
<1>5. RefundsFitTogether
  BY <1>2 DEF RefundsFitTogether, Unlanded
<1>6. Reach = SolInitial /\ orch.step = "idle"
  BY <1>3, <1>4 DEF Init, Reach, Idle
<1> QED
  BY <1>1, <1>2, <1>3, <1>4, <1>5, <1>6 DEF AInv, FInv

\* The refunds begun and not yet landed can all be paid without touching the
\* Solana reserve's protected minimum or what the other direction has reserved
\* (begin_solana_refund), although the balance each was checked against is a
\* cache that may still count refunds already landed; what is missing is at
\* most the debits that a reconciliation, holding an older reading, overwrote
\* (refresh_reserve_balance).
THEOREM RefundsAlwaysFit == Spec => []RefundsFitTogether
<1>1. IInv /\ AInv /\ OInv /\ FInv => RefundsFitTogether
  BY DEF FInv
<1>2. Init => OInv
  BY DEF Init, OInv
<1> QED
  BY <1>1, <1>2, Fitted, InitFits, NextFolded, NextOverlap, NextFits, PTL DEF Spec
=============================================================================
