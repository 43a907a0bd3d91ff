------------------------------- MODULE SolToGlc -------------------------------
(***************************************************************************)
(* The Solana-to-Goldcoin direction of the off-chain service: deposits     *)
(* folded into the ledger, parks and resumes, the Goldcoin payout, its     *)
(* completion on Solana, and the refund of a deposit that is never paid    *)
(* (service/src/ledger/mod.rs, orchestrator.rs, solana/refund.rs,          *)
(* goldcoin/payout_recovery.rs).                                           *)
(*                                                                         *)
(* Three kinds of process share the ledger: the orchestrator, which works  *)
(* on one request at a time; operators, each running one glc-admin         *)
(* command; and the chains. A ledger function is one write transaction and *)
(* one step; a command or a tick that reads a chain, signs, sends and      *)
(* records takes several, and may stop between any two of them.            *)
(*                                                                         *)
(* The verdicts of the wallet windows, the rapid-burst rule, the price     *)
(* feed and the mature-UTXO floor are inputs here, and the minimum review  *)
(* time of a burst hold is not counted.                                    *)
(***************************************************************************)
EXTENDS Integers, Sequences, FiniteSets, Sums

CONSTANTS
  Obligations,    \* indices of the Solana WithdrawalObligations
  Operators,      \* processes running glc-admin commands
  Gross,          \* Gross[r]: the deposit, in the Solana reserve's unit
  Net,            \* Net[r]: net_destination_atomic
  GlcMinimum,     \* protected_minimum of the Goldcoin reserve
  SolMinimum,     \* protected_minimum of the Solana reserve
  SolReserved,    \* its reserved_liquidity, kept by the other direction
  SolInitial,     \* its balance before the deposits
  Buffer, Reopen, \* admission_buffer_atomic and admission_reopen_atomic
  VaultBalances,  \* what the Goldcoin vault may be observed to hold
  MaxSubmissions, \* MAX_COMPLETION_SUBMISSIONS
  MaxSends,       \* bound on completion transactions signed per request
  MaxRefundSends, \* bound on refund transactions signed per request
  Events          \* the disturbances of AllEvents that an instance explores

\* What users, operators and the chains may do beyond the plain course.
AllEvents == {"limits", "burst", "refused", "hold", "close", "pause", "admission",
              "auto", "observe", "retry", "reorg", "drop", "forget", "manual", "crash"}

ASSUME EventsAssumption == Events \subseteq AllEvents
ASSUME ObligationsAssumption == IsFiniteSet(Obligations)
ASSUME AmountsAssumption ==
  Gross \in [Obligations -> Nat \ {0}] /\ Net \in [Obligations -> Nat \ {0}]
ASSUME ConfigAssumption ==
  /\ GlcMinimum \in Nat /\ SolMinimum \in Nat /\ SolReserved \in Nat /\ SolInitial \in Nat
  /\ Buffer \in Nat /\ Reopen \in Nat /\ Buffer <= Reopen
  /\ VaultBalances \subseteq Nat /\ VaultBalances # {}
  /\ MaxSubmissions \in Nat /\ MaxSends \in Nat /\ MaxRefundSends \in Nat

VARIABLES
  req,          \* bridge_requests with their goldcoin_payouts and solana_refunds rows
  book,         \* the GoldcoinReserve row of reserve_ledger
  solBalance,   \* cached total_reserve_balance of the SolanaReserve row
  autoResume,   \* bridge_settings.auto_resume_manual_review
  orch,         \* what the orchestrator is doing; lost when it stops
  op,           \* what each operator's command is doing; lost when it stops
  obligation,   \* status of the WithdrawalObligation account
  paused,       \* BridgeConfig.paused
  glcTx,        \* the payout transaction on the Goldcoin chain
  completionTx, \* record_goldcoin_completion transactions, in signing order
  refundTx,     \* refund_withdraw transactions, in signing order
  manual,       \* the out-of-band refund: exported, sent by the standalone tool
  overlapped    \* history: refunds booked while a reconciliation held an older reading

chainVars == <<obligation, paused, glcTx, completionTx, refundTx, manual>>
ledgerVars == <<req, book, solBalance, overlapped, autoResume>>
vars == <<ledgerVars, orch, op, chainVars>>

States == {"Absent", "SourceFinalized", "ManualReview", "SettlementAuthorized",
           "DestinationSubmitted", "DestinationConfirmed", "Settled",
           "RefundPending", "RefundBroadcast", "Refunded", "Closed"}

\* manual_review_note; the four gates an operator opens are one reason.
Notes == {"none", "gate_closed_at_fold", "wallet_24h_limit", "utxo_liquidity_low_at_fold",
          "liquidity_buffer_low_at_fold", "insufficient_capacity_at_fold",
          "rapid_burst_hold", "bridge_rate"}

\* RECOVERABLE_MANUAL_REVIEW_REASONS: a refused quote leaves nothing to pay.
Recoverable == Notes \ {"none", "bridge_rate"}

\* REFUNDABLE_MANUAL_REVIEW_REASONS.
Refundable == Notes \ {"none"}

\* is_auto_resumable_manual_review_reason.
AutoResumable(note) ==
  \/ note \in {"utxo_liquidity_low_at_fold", "wallet_24h_limit"}
  \/ note = "liquidity_buffer_low_at_fold" /\ ~book.liquidityClosed

NoRequest == [state |-> "Absent", note |-> "none", hold |-> "none", advanced |-> FALSE,
              payout |-> "none", completion |-> 0, submissions |-> 0,
              refund |-> "none", refundSig |-> 0]

Idle == [step |-> "idle"]

Init ==
  /\ req = [r \in Obligations |-> NoRequest]
  /\ book \in [balance : VaultBalances, reserved : {0}, pending : {0}, paused : {FALSE},
               admissionClosed : {FALSE}, liquidityClosed : {FALSE}]
  /\ solBalance = SolInitial
  /\ autoResume = FALSE
  /\ orch = Idle
  /\ op = [o \in Operators |-> Idle]
  /\ obligation = [r \in Obligations |-> "none"]
  /\ paused = FALSE
  /\ glcTx = [r \in Obligations |-> "none"]
  /\ completionTx = [r \in Obligations |-> <<>>]
  /\ refundTx = [r \in Obligations |-> <<>>]
  /\ manual = [r \in Obligations |-> "none"]
  /\ overlapped = {}

\* The same row with some columns changed, everything else left alone.
SetRow(r, row) == req' = [req EXCEPT ![r] = row]

NetOf(S) == SumOver(Net, S)
GrossOf(S) == SumOver(Gross, S)

-----------------------------------------------------------------------------
(* Admission.                                                               *)

Headroom == book.balance - GlcMinimum - book.reserved

\* The hysteresis of the confirmed-liquidity gate.
NextLiquidityClosed ==
  Buffer > 0 /\ Headroom < (IF book.liquidityClosed THEN Reopen ELSE Buffer)

BufferOK(r) == Buffer = 0 \/ Headroom - Net[r] >= Buffer

\* The admission decision: the reason of the highest-ranked closed gate.
Blocker(r, limited, utxoLow) ==
  CASE book.admissionClosed \/ book.paused -> "gate_closed_at_fold"
    [] limited -> "wallet_24h_limit"
    [] utxoLow -> "utxo_liquidity_low_at_fold"
    [] NextLiquidityClosed \/ ~BufferOK(r) -> "liquidity_buffer_low_at_fold"
    [] Net[r] > Headroom -> "insufficient_capacity_at_fold"
    [] OTHER -> "none"

\* A burst match outranks a refused quote, which outranks a closed gate.
ParkReason(r, limited, utxoLow, burst, refused) ==
  IF burst THEN "rapid_burst_hold"
  ELSE IF refused THEN "bridge_rate"
  ELSE Blocker(r, limited, utxoLow)

Admit(r) == [book EXCEPT !.reserved = @ + Net[r], !.pending = @ + Net[r]]

\* Folding reads the obligation once; an index already folded is skipped.
FoldSolDeposit(r, limited, utxoLow, burst, refused) ==
  LET note == ParkReason(r, limited, utxoLow, burst, refused)
      admitted == note = "none"
  IN
  /\ orch = Idle
  /\ obligation[r] # "none"
  /\ req[r].state = "Absent"
  /\ SetRow(r, [NoRequest EXCEPT
                  !.state = IF admitted THEN "SourceFinalized" ELSE "ManualReview",
                  !.note = note, !.advanced = admitted,
                  !.hold = IF burst THEN "burst" ELSE "none"])
  /\ book' = [(IF admitted THEN Admit(r) ELSE book)
                EXCEPT !.liquidityClosed = NextLiquidityClosed]
  /\ UNCHANGED <<solBalance, overlapped, autoResume, orch, op, chainVars>>

-----------------------------------------------------------------------------
(* Parked requests: resume, hold, decide, close.                            *)

\* What resume_manual_review_inbound re-checks. The wallet windows and the
\* mature-UTXO floor may refuse too: a resume never has to happen.
Resumable(r) ==
  /\ req[r].refund = "none"
  /\ req[r].state = "ManualReview"
  /\ req[r].note \in Recoverable
  /\ req[r].payout = "none"
  /\ Net[r] <= Headroom
  /\ BufferOK(r)

Resume(r) ==
  /\ Resumable(r)
  /\ SetRow(r, [req[r] EXCEPT !.state = "SourceFinalized", !.note = "none",
                              !.hold = "none", !.advanced = TRUE])
  /\ book' = Admit(r)
  /\ UNCHANGED <<solBalance, overlapped, autoResume, orch, op, chainVars>>

\* The daemon's pass over the parks whose cause clears by itself.
AutoResume(r) ==
  /\ orch = Idle
  /\ autoResume /\ ~book.paused /\ ~book.admissionClosed
  /\ req[r].hold = "none"
  /\ AutoResumable(req[r].note)
  /\ Resume(r)

ResumeManualReview(r) == req[r].hold = "none" /\ Resume(r)

\* Decision and resume in one transaction; a row decided for a refund is no
\* longer held, so it is refused.
ProcessHeldManualReview(r) == req[r].hold \in {"operator", "burst"} /\ Resume(r)

\* Every other change of one ledger row.
RowOnly(r, row) ==
  SetRow(r, row) /\ UNCHANGED <<book, solBalance, overlapped, autoResume, orch, op, chainVars>>

Holdable(r) == req[r].state = "ManualReview" /\ req[r].payout = "none"

\* hold: "none", "operator", "burst", or either of them decided for a refund.
SetManualReviewHold(r) ==
  /\ "hold" \in Events
  /\ Holdable(r)
  /\ req[r].hold \notin {"burst", "burst_refund"}
  /\ RowOnly(r, [req[r] EXCEPT !.hold = "operator"])

\* The state is not looked at.
ClearManualReviewHold(r) ==
  /\ req[r].hold \in {"operator", "operator_refund"}
  /\ RowOnly(r, [req[r] EXCEPT !.hold = "none"])

DecideRefund(r) ==
  /\ Holdable(r)
  /\ req[r].hold \in {"operator", "burst"}
  /\ req[r].refund = "none"
  /\ RowOnly(r, [req[r] EXCEPT
                   !.hold = IF @ = "burst" THEN "burst_refund" ELSE "operator_refund"])

Closable(r) ==
  /\ req[r].state = "ManualReview"
  /\ req[r].payout \in {"none", "Built", "Signed"}
  /\ req[r].refund = "none"

CloseManualReview(r) ==
  /\ "close" \in Events
  /\ Closable(r)
  /\ RowOnly(r, [req[r] EXCEPT !.state = "Closed"])

-----------------------------------------------------------------------------
(* The Goldcoin payout: build_and_broadcast_payout and its recovery.        *)

Working(step, r) == [step |-> step, req |-> r]

BuildPayout(r) ==
  /\ orch = Idle
  /\ req[r].state = "SourceFinalized"
  /\ req[r].payout = "none"
  /\ req[r].refund = "none"
  /\ SetRow(r, [req[r] EXCEPT !.payout = "Built"])
  /\ orch' = Working("built", r)
  /\ UNCHANGED <<book, solBalance, overlapped, autoResume, op, chainVars>>

RecordGoldcoinPayoutSigned(r) ==
  /\ orch = Working("built", r)
  /\ req[r].payout = "Built"
  /\ SetRow(r, [req[r] EXCEPT !.payout = "Signed", !.state = "SettlementAuthorized"])
  /\ orch' = Working("signed", r)
  /\ UNCHANGED <<book, solBalance, overlapped, autoResume, op, chainVars>>

\* The node takes the transaction, or has it already.
BroadcastPayout(r) ==
  glcTx' = [glcTx EXCEPT ![r] = IF @ = "none" THEN "mempool" ELSE @]

SendPayout(r) ==
  /\ orch = Working("signed", r)
  /\ BroadcastPayout(r)
  /\ orch' = Working("paid", r)
  /\ UNCHANGED <<ledgerVars, op, obligation, paused, completionTx, refundTx, manual>>

\* Only a Signed row changes; a later one is a repeat.
PayoutBroadcast(r) ==
  IF req[r].payout = "Signed"
  THEN SetRow(r, [req[r] EXCEPT !.payout = "Broadcast", !.state = "DestinationSubmitted"])
  ELSE UNCHANGED req

RecordGoldcoinPayoutBroadcast(r) ==
  /\ orch = Working("paid", r)
  /\ PayoutBroadcast(r)
  /\ orch' = Idle
  /\ UNCHANGED <<book, solBalance, overlapped, autoResume, op, chainVars>>

\* retry-goldcoin-payout: the stored plan is signed and sent again.
RecoverStuckPayout(o, r) ==
  /\ "retry" \in Events
  /\ op[o] = Idle
  /\ req[r].payout = "Signed"
  /\ BroadcastPayout(r)
  /\ op' = [op EXCEPT ![o] = Working("paid", r)]
  /\ UNCHANGED <<ledgerVars, orch, obligation, paused, completionTx, refundTx, manual>>

RecordRecoveredPayout(o, r) ==
  /\ op[o] = Working("paid", r)
  /\ PayoutBroadcast(r)
  /\ op' = [op EXCEPT ![o] = Idle]
  /\ UNCHANGED <<book, solBalance, overlapped, autoResume, orch, chainVars>>

\* required_goldcoin_confirmations reached.
DepthReached_FirstBlock(r) == glcTx[r] \in {"mined", "deep"}

DepthReached(r) == glcTx[r] = "deep"

UpdateGoldcoinPayoutConfirmations(r) ==
  /\ orch = Idle
  /\ req[r].payout = "Broadcast"
  /\ DepthReached(r)
  /\ RowOnly(r, [req[r] EXCEPT !.payout = "Confirmed", !.state = "DestinationConfirmed"])

-----------------------------------------------------------------------------
(* The completion on Solana.                                                *)

\* The status a node reports for the tracked completion signature; a
\* transaction not yet landed, expired or forgotten has none.
CompletionStatus(r) ==
  IF req[r].completion = 0 THEN "unsubmitted"
  ELSE LET s == completionTx[r][req[r].completion]
       IN  IF s \in {"landed", "failed"} THEN s ELSE "none"

\* The one body of a confirmed completion.
Settle(r) ==
  /\ SetRow(r, [req[r] EXCEPT !.payout = "Completed", !.state = "Settled"])
  /\ book' = [book EXCEPT !.reserved = @ - Net[r], !.pending = @ - Net[r],
                          !.balance = @ - Net[r]]
  /\ UNCHANGED <<solBalance, overlapped, autoResume, orch, op, chainVars>>

\* prove: the chain's own record, with no conflicting outcome in the ledger.
ProvenComplete_TrackedOnly(r) == req[r].payout = "Confirmed" /\ CompletionStatus(r) = "landed"

ProvenComplete(r) ==
  /\ req[r].refund = "none"
  /\ req[r].state = "DestinationConfirmed"
  /\ req[r].payout = "Confirmed"
  /\ obligation[r] = "Completed"

\* The poll: a success settles; anything else is settled by the chain alone.
MarkGoldcoinCompletionConfirmed(r) ==
  /\ orch = Idle
  /\ req[r].payout = "Confirmed"
  /\ CompletionStatus(r) = "landed" \/ ProvenComplete(r)
  /\ Settle(r)

\* A completion is sent when none was recorded, or the recorded one is no
\* longer observable, once the chain has been asked, and under the cap.
SubmitCompletion(r) ==
  /\ orch = Idle
  /\ req[r].payout = "Confirmed"
  /\ CompletionStatus(r) \in {"unsubmitted", "none"}
  /\ req[r].refund = "none" /\ obligation[r] # "Completed"
  /\ req[r].submissions < MaxSubmissions
  /\ orch' = Working("attested", r)
  /\ UNCHANGED <<ledgerVars, op, chainVars>>

\* The node simulates before it accepts.
SendCompletion(r) ==
  /\ orch = Working("attested", r)
  /\ Len(completionTx[r]) < MaxSends
  /\ ~paused /\ obligation[r] = "Pending"
  /\ completionTx' = [completionTx EXCEPT ![r] = Append(@, "flight")]
  /\ orch' = Working("submitted", r)
  /\ UNCHANGED <<ledgerVars, op, obligation, paused, glcTx, refundTx, manual>>

\* Latest wins; the signature just sent is the last one signed.
RecordGoldcoinCompletionSubmitted(r) ==
  /\ orch = Working("submitted", r)
  /\ req[r].payout = "Confirmed"
  /\ SetRow(r, [req[r] EXCEPT !.completion = Len(completionTx[r]), !.submissions = @ + 1])
  /\ orch' = Idle
  /\ UNCHANGED <<book, solBalance, overlapped, autoResume, op, chainVars>>

\* A tick that fails part-way, or a process that stops.
AbandonTick ==
  /\ orch # Idle
  /\ "crash" \in Events \/ orch.step = "attested"
  /\ orch' = Idle
  /\ UNCHANGED <<ledgerVars, op, chainVars>>

-----------------------------------------------------------------------------
(* The refund of a parked deposit: refund-manual-review, one command per    *)
(* operator, and its return to review.                                      *)

LiveSol ==
  SolInitial + GrossOf({r \in Obligations : obligation[r] # "none"})
             - GrossOf({r \in Obligations : obligation[r] = "Refunded"})

\* verify_execute_preconditions.
PausedAboveFloor(r) == paused /\ LiveSol >= Gross[r] + SolMinimum

OpenRefunds == {r \in Obligations : req[r].refund \in {"Pending", "Broadcast"}}

RefundCapacityOK(r) ==
  Gross[r] <= solBalance - SolMinimum - SolReserved - GrossOf(OpenRefunds \ {r})

\* first_failure_for_begin finds nothing.
RefundEligible(r) ==
  /\ req[r].refund = "none"
  /\ req[r].state = "ManualReview"
  /\ req[r].note \in Refundable
  /\ req[r].payout = "none"
  /\ ~req[r].advanced
  /\ req[r].hold \notin {"operator", "burst"}

Command(o, next) == op' = [op EXCEPT ![o] = next]

\* build_refund_plan insists on a Pending obligation whatever the refund's
\* own state; only then are the three cases told apart.
ExecuteRefund(o, r) ==
  /\ op[o] = Idle
  /\ req[r].state # "Absent" /\ req[r].refund # "Confirmed"
  /\ obligation[r] = "Pending"
  /\ \/ /\ req[r].refund = "Broadcast"
        /\ Command(o, [step |-> "recovering", req |-> r, sig |-> req[r].refundSig])
     \/ /\ req[r].refund # "Broadcast"
        /\ PausedAboveFloor(r)
        /\ Command(o, Working(IF req[r].refund = "none" THEN "planned" ELSE "begun", r))
  /\ UNCHANGED <<ledgerVars, orch, chainVars>>

BeginSolanaRefund(o, r) ==
  /\ op[o] = Working("planned", r)
  /\ RefundEligible(r)
  /\ RefundCapacityOK(r)
  /\ SetRow(r, [req[r] EXCEPT !.refund = "Pending", !.state = "RefundPending"])
  /\ Command(o, Working("begun", r))
  /\ UNCHANGED <<book, solBalance, overlapped, autoResume, orch, chainVars>>

\* The row must still be open; the request was moved by begin or by an
\* earlier broadcast.
RefundOpen_NotChecked(r) == req[r].refund # "Confirmed"

RefundOpen(r) == req[r].refund \in {"Pending", "Broadcast"}

\* Pause, floor and nonce are read again, the transaction is simulated, and
\* its signature recorded before it is sent. Latest wins.
RecordSolanaRefundBroadcast(o, r) ==
  LET sig == Len(refundTx[r]) + 1 IN
  /\ op[o] = Working("begun", r)
  /\ PausedAboveFloor(r) /\ obligation[r] = "Pending"
  /\ sig <= MaxRefundSends
  /\ RefundOpen(r)
  /\ SetRow(r, [req[r] EXCEPT !.refund = "Broadcast", !.refundSig = sig,
                              !.state = "RefundBroadcast"])
  /\ refundTx' = [refundTx EXCEPT ![r] = Append(@, "signed")]
  /\ Command(o, [step |-> "recorded", req |-> r, sig |-> sig])
  /\ UNCHANGED <<book, solBalance, overlapped, autoResume, orch, obligation, paused, glcTx,
                 completionTx, manual>>

SendRefund(o) ==
  /\ op[o].step = "recorded"
  /\ refundTx' = [refundTx EXCEPT ![op[o].req][op[o].sig] =
                     IF @ = "signed" THEN "flight" ELSE @]
  /\ Command(o, [op[o] EXCEPT !.step = "confirming"])
  /\ UNCHANGED <<ledgerVars, orch, obligation, paused, glcTx, completionTx, manual>>

\* The terminal transition; a repeat changes nothing.
MarkSolanaRefundConfirmed(r) ==
  IF req[r].refund = "Broadcast"
  THEN /\ SetRow(r, [req[r] EXCEPT !.refund = "Confirmed", !.state = "Refunded"])
       /\ solBalance' = solBalance - Gross[r]
       /\ overlapped' = IF orch.step = "observed" THEN overlapped \cup {r} ELSE overlapped
  ELSE UNCHANGED <<req, solBalance, overlapped>>

\* confirm_transaction saw the transaction succeed.
ConfirmRefund(o) ==
  /\ op[o].step \in {"confirming", "waiting"}
  /\ refundTx[op[o].req][op[o].sig] = "landed"
  /\ MarkSolanaRefundConfirmed(op[o].req)
  /\ Command(o, Idle)
  /\ UNCHANGED <<book, autoResume, orch, chainVars>>

\* recover_broadcast: the nonce record decides first, then the recorded
\* signature; a transaction that can still land is waited for, a dead one
\* is signed again under the same nonce.
RecoverBroadcast(o) ==
  LET r == op[o].req
      tx == refundTx[r][op[o].sig]
  IN
  /\ op[o].step \in {"recovering", "waiting"}
  /\ \/ /\ op[o].step = "recovering" /\ obligation[r] = "Refunded"
        /\ MarkSolanaRefundConfirmed(r)
        /\ Command(o, Idle)
     \/ /\ op[o].step = "recovering" /\ obligation[r] # "Refunded"
        /\ tx \in {"signed", "flight"}
        /\ Command(o, [op[o] EXCEPT !.step = "waiting"])
        /\ UNCHANGED <<req, solBalance, overlapped>>
     \/ /\ obligation[r] # "Refunded"
        /\ tx = "dropped" \/ (tx = "failed" /\ op[o].step = "recovering")
        /\ Command(o, Working("begun", r))
        /\ UNCHANGED <<req, solBalance, overlapped>>
  /\ UNCHANGED <<book, autoResume, orch, chainVars>>

\* The chain proof of refund-return: no nonce record, obligation Pending.
ProveRefundNeverLanded(o, r) ==
  /\ op[o] = Idle
  /\ req[r].state = "RefundPending"
  /\ obligation[r] = "Pending"
  /\ Command(o, Working("proved", r))
  /\ UNCHANGED <<ledgerVars, orch, chainVars>>

\* Only a refund that never reached the network goes back to review.
Returnable_AnyOpenRefund(r) == req[r].refund # "Confirmed"

Returnable(r) ==
  req[r].state = "RefundPending" /\ req[r].refund = "Pending" /\ req[r].payout = "none"

ReturnRefundToManualReview(o, r) ==
  /\ op[o] = Working("proved", r)
  /\ Returnable(r)
  /\ SetRow(r, [req[r] EXCEPT !.state = "ManualReview", !.refund = "none"])
  /\ Command(o, Idle)
  /\ UNCHANGED <<book, solBalance, overlapped, autoResume, orch, chainVars>>

\* A command that is refused, times out or is interrupted.
AbandonCommand(o) ==
  /\ op[o] # Idle
  /\ Command(o, Idle)
  /\ UNCHANGED <<ledgerVars, orch, chainVars>>

\* The out-of-band refund: exported read-only, paid by a standalone tool,
\* imported by closing the request.
ManualRefundEligible(r) ==
  req[r].state = "ManualReview" /\ req[r].payout = "none" /\ req[r].refund = "none"

ManualRefundMoves(r, from, to) ==
  /\ "manual" \in Events
  /\ manual[r] = from
  /\ manual' = [manual EXCEPT ![r] = to]
  /\ UNCHANGED <<ledgerVars, orch, op, obligation, paused, glcTx, completionTx, refundTx>>

ExportManualRefund(r) == ManualRefundEligible(r) /\ ManualRefundMoves(r, "none", "exported")
SendManualRefund(r) == ManualRefundMoves(r, "exported", "sent")

RecordManualSolanaRefund(r) ==
  /\ manual[r] = "sent"
  /\ ManualRefundEligible(r)
  /\ RowOnly(r, [req[r] EXCEPT !.state = "Closed"])

-----------------------------------------------------------------------------
(* Gates and balances.                                                      *)

\* The orchestrator's own evaluation, beside the one of every fold.
EvaluateLiquidityAdmissionGate ==
  /\ orch = Idle
  /\ book' = [book EXCEPT !.liquidityClosed = NextLiquidityClosed]
  /\ UNCHANGED <<req, solBalance, overlapped, autoResume, orch, op, chainVars>>

\* A balance that covers the pending payouts and did not drop is no breach;
\* the terms that excuse another one (our own change, settlements in flight)
\* are an input.
MayBreach(v) == v < GlcMinimum + book.pending \/ v < book.balance

\* reconcile: the pause sticks, and the observation replaces the cache.
ReconcileGoldcoin(v, breach) ==
  /\ "observe" \in Events
  /\ orch = Idle
  /\ breach => MayBreach(v)
  /\ book' = [book EXCEPT !.balance = v, !.paused = @ \/ breach]
  /\ UNCHANGED <<req, solBalance, overlapped, autoResume, orch, op, chainVars>>

\* tick_solana_reconciliation awaits the token account; the cache is
\* overwritten with that reading, whatever was booked in between.
ObserveSolana ==
  /\ orch = Idle
  /\ orch' = [step |-> "observed", balance |-> LiveSol]
  /\ UNCHANGED <<ledgerVars, op, chainVars>>

ReconcileSolana ==
  /\ orch.step = "observed"
  /\ solBalance' = orch.balance
  /\ orch' = Idle
  /\ UNCHANGED <<req, book, overlapped, autoResume, op, chainVars>>

\* Operators pause the reserve, close its admission, or switch auto-resume.
SetGates(pause, closed, auto) ==
  /\ book' = [book EXCEPT !.paused = pause, !.admissionClosed = closed]
  /\ autoResume' = auto
  /\ UNCHANGED <<req, solBalance, overlapped, orch, op, chainVars>>

-----------------------------------------------------------------------------
(* The chains.                                                              *)

DepositToReserve(r) ==
  /\ obligation[r] = "none"
  /\ ~paused
  /\ obligation' = [obligation EXCEPT ![r] = "Pending"]
  /\ UNCHANGED <<ledgerVars, orch, op, paused, glcTx, completionTx, refundTx, manual>>

\* An executed transaction changes the obligation or fails as a whole.
LandCompletion(r, i) ==
  LET done == ~paused /\ obligation[r] = "Pending" IN
  /\ completionTx[r][i] = "flight"
  /\ completionTx' = [completionTx EXCEPT ![r][i] = IF done THEN "landed" ELSE "failed"]
  /\ obligation' = [obligation EXCEPT ![r] = IF done THEN "Completed" ELSE @]
  /\ UNCHANGED <<ledgerVars, orch, op, paused, glcTx, refundTx, manual>>

LandRefund(r, i) ==
  LET done == PausedAboveFloor(r) /\ obligation[r] = "Pending" IN
  /\ refundTx[r][i] = "flight"
  /\ refundTx' = [refundTx EXCEPT ![r][i] = IF done THEN "landed" ELSE "failed"]
  /\ obligation' = [obligation EXCEPT ![r] = IF done THEN "Refunded" ELSE @]
  /\ UNCHANGED <<ledgerVars, orch, op, paused, glcTx, completionTx, manual>>

\* A blockhash expires; a node's status cache forgets.
DropCompletion(r, i) ==
  /\ "drop" \in Events /\ completionTx[r][i] = "flight"
  /\ completionTx' = [completionTx EXCEPT ![r][i] = "dropped"]
  /\ UNCHANGED <<ledgerVars, orch, op, obligation, paused, glcTx, refundTx, manual>>

ForgetCompletion(r, i) ==
  /\ "forget" \in Events /\ completionTx[r][i] \in {"landed", "failed"}
  /\ completionTx' = [completionTx EXCEPT ![r][i] = "forgotten"]
  /\ UNCHANGED <<ledgerVars, orch, op, obligation, paused, glcTx, refundTx, manual>>

ExpireRefund(r, i) ==
  /\ "drop" \in Events /\ refundTx[r][i] \in {"signed", "flight"}
  /\ refundTx' = [refundTx EXCEPT ![r][i] = "dropped"]
  /\ UNCHANGED <<ledgerVars, orch, op, obligation, paused, glcTx, completionTx, manual>>

\* The payout is mined and buried; a reorg takes a shallow one back.
PayoutMoves(r, from, to) ==
  /\ glcTx[r] = from
  /\ glcTx' = [glcTx EXCEPT ![r] = to]
  /\ UNCHANGED <<ledgerVars, orch, op, obligation, paused, completionTx, refundTx, manual>>

MinePayout(r) == PayoutMoves(r, "mempool", "mined")
BuryPayout(r) == PayoutMoves(r, "mined", "deep")
ReorgPayout(r) == "reorg" \in Events /\ PayoutMoves(r, "mined", "mempool")

SetBridgePaused ==
  /\ paused' = ~paused
  /\ UNCHANGED <<ledgerVars, orch, op, obligation, glcTx, completionTx, refundTx, manual>>

-----------------------------------------------------------------------------
Verdicts(event) == IF event \in Events THEN BOOLEAN ELSE {FALSE}
Settings(event, now) == IF event \in Events THEN BOOLEAN ELSE {now}

Fold(r) ==
  \E limited, utxoLow \in Verdicts("limits"), burst \in Verdicts("burst"),
     refused \in Verdicts("refused") : FoldSolDeposit(r, limited, utxoLow, burst, refused)

Review(r) ==
  \/ AutoResume(r) \/ ResumeManualReview(r) \/ ProcessHeldManualReview(r)
  \/ SetManualReviewHold(r) \/ ClearManualReviewHold(r) \/ DecideRefund(r)
  \/ CloseManualReview(r)
  \/ ExportManualRefund(r) \/ SendManualRefund(r) \/ RecordManualSolanaRefund(r)

Payout(r) ==
  \/ BuildPayout(r) \/ RecordGoldcoinPayoutSigned(r) \/ SendPayout(r)
  \/ RecordGoldcoinPayoutBroadcast(r) \/ UpdateGoldcoinPayoutConfirmations(r)

Completion(r) ==
  \/ SubmitCompletion(r) \/ SendCompletion(r) \/ RecordGoldcoinCompletionSubmitted(r)
  \/ MarkGoldcoinCompletionConfirmed(r)

RefundCommand(o, r) ==
  \/ ExecuteRefund(o, r) \/ BeginSolanaRefund(o, r) \/ RecordSolanaRefundBroadcast(o, r)
  \/ ProveRefundNeverLanded(o, r) \/ ReturnRefundToManualReview(o, r)
  \/ RecoverStuckPayout(o, r) \/ RecordRecoveredPayout(o, r)

CommandStep(o) == SendRefund(o) \/ ConfirmRefund(o) \/ RecoverBroadcast(o) \/ AbandonCommand(o)

Gates ==
  \/ EvaluateLiquidityAdmissionGate
  \/ \E v \in VaultBalances, breach \in BOOLEAN : ReconcileGoldcoin(v, breach)
  \/ \E pause \in Settings("pause", book.paused),
        closed \in Settings("admission", book.admissionClosed),
        auto \in Settings("auto", autoResume) : SetGates(pause, closed, auto)

Chain(r) ==
  \/ DepositToReserve(r) \/ MinePayout(r) \/ BuryPayout(r) \/ ReorgPayout(r)
  \/ \E i \in DOMAIN completionTx[r] :
       LandCompletion(r, i) \/ DropCompletion(r, i) \/ ForgetCompletion(r, i)
  \/ \E i \in DOMAIN refundTx[r] : LandRefund(r, i) \/ ExpireRefund(r, i)

Next ==
  \/ \E r \in Obligations : Fold(r) \/ Review(r) \/ Payout(r) \/ Completion(r) \/ Chain(r)
  \/ \E o \in Operators, r \in Obligations : RefundCommand(o, r)
  \/ \E o \in Operators : CommandStep(o)
  \/ AbandonTick \/ Gates \/ SetBridgePaused \/ ObserveSolana \/ ReconcileSolana

Spec == Init /\ [][Next]_vars

\* A tick ends its work on a request, by finishing it or giving it up.
TickStep ==
  \/ AbandonTick \/ ReconcileSolana
  \/ \E r \in Obligations :
       \/ RecordGoldcoinPayoutSigned(r) \/ SendPayout(r) \/ RecordGoldcoinPayoutBroadcast(r)
       \/ SendCompletion(r) \/ RecordGoldcoinCompletionSubmitted(r)

\* Every tick polls each Confirmed payout, whatever came between two ticks.
FairSpec ==
  /\ Spec
  /\ WF_vars(TickStep)
  /\ \A r \in Obligations : SF_vars(MarkGoldcoinCompletionConfirmed(r))

\* Operators rerun a refund that is not finished until it is, and give its
\* confirmation the time it needs again and again.
RerunSpec ==
  /\ Spec
  /\ \A o \in Operators :
       /\ \A r \in Obligations : SF_vars(req[r].refund = "Broadcast" /\ ExecuteRefund(o, r))
       /\ SF_vars(ConfirmRefund(o)) /\ SF_vars(RecoverBroadcast(o))

-----------------------------------------------------------------------------
(* Properties.                                                              *)

RequestRow ==
  [state : States, note : Notes,
   hold : {"none", "operator", "burst", "operator_refund", "burst_refund"},
   advanced : BOOLEAN,
   payout : {"none", "Built", "Signed", "Broadcast", "Confirmed", "Completed"},
   completion : Nat, submissions : Nat,
   refund : {"none", "Pending", "Broadcast", "Confirmed"}, refundSig : Nat]

Tracking == {"recovering", "recorded", "confirming", "waiting"}

Steps ==
  {Idle}
    \cup [step : {"built", "signed", "paid", "attested", "submitted", "planned", "begun",
                  "proved"}, req : Obligations]
    \cup [step : Tracking, req : Obligations, sig : Nat]
    \cup [step : {"observed"}, balance : Int]

BookTypeOK ==
  /\ book \in [balance : Int, reserved : Nat, pending : Nat, paused : BOOLEAN,
               admissionClosed : BOOLEAN, liquidityClosed : BOOLEAN]
  /\ solBalance \in Int /\ autoResume \in BOOLEAN /\ overlapped \subseteq Obligations

ServiceTypeOK ==
  /\ req \in [Obligations -> RequestRow]
  /\ orch \in Steps
  /\ op \in [Operators -> Steps]

ChainTypeOK ==
  /\ obligation \in [Obligations -> {"none", "Pending", "Completed", "Refunded"}]
  /\ paused \in BOOLEAN
  /\ glcTx \in [Obligations -> {"none", "mempool", "mined", "deep"}]
  /\ completionTx \in
       [Obligations -> Seq({"flight", "landed", "failed", "dropped", "forgotten"})]
  /\ refundTx \in [Obligations -> Seq({"signed", "flight", "landed", "failed", "dropped"})]
  /\ manual \in [Obligations -> {"none", "exported", "sent"}]

\* Every column and every process stays in its range; in particular the
\* counters of the Goldcoin reserve never go below zero and a completion is
\* never submitted more often than the cap allows.
TypeOK ==
  /\ BookTypeOK /\ ServiceTypeOK /\ ChainTypeOK
  /\ \A r \in Obligations : req[r].submissions <= MaxSubmissions

\* Both counters of the Goldcoin reserve are the nets of the admitted
\* requests not yet settled, whichever of fold, resume and settlement moved
\* them and however often a completion is observed.
CountersMatchRequests ==
  LET owed == NetOf({r \in Obligations : req[r].advanced /\ req[r].state # "Settled"})
  IN  book.reserved = owed /\ book.pending = owed

\* A request that is being paid on Goldcoin is not refunded on Solana, and no
\* refund transaction that could still land remains: the exclusion holds
\* across returns to review, reruns and commands stopped half-way.
PaidOrRefunded ==
  \A r \in Obligations : req[r].payout # "none" =>
    /\ obligation[r] # "Refunded"
    /\ \A i \in DOMAIN refundTx[r] : refundTx[r][i] \notin {"signed", "flight", "landed"}

\* The ledger never claims an outcome the chains do not have, and the Solana
\* obligation is never completed for a payout that is not buried.
LedgerFollowsChain ==
  \A r \in Obligations :
    /\ req[r].state = "Settled" => obligation[r] = "Completed"
    /\ req[r].state = "Refunded" => obligation[r] = "Refunded"
    /\ obligation[r] = "Completed" =>
         glcTx[r] = "deep" /\ req[r].state \in {"DestinationConfirmed", "Settled"}

\* A refund transaction never exists without its row: whatever was signed is
\* in the ledger before it can move funds, also across crashes and returns.
RefundNeverUnrecorded ==
  \A r \in Obligations :
    obligation[r] = "Refunded" \/ (\E i \in DOMAIN refundTx[r] : refundTx[r][i] \in {"signed", "flight"})
      => req[r].refund \in {"Broadcast", "Confirmed"}

\* The refunds begun and not yet landed can all be paid without touching the
\* protected minimum or what is reserved for the other direction, although
\* each was checked against a cached balance and against the others' rows. A
\* reconciliation that overwrites the debit of a refund booked after its
\* reading is the one exception, and costs no more than that debit.
RefundsFitTogether ==
  LET open == {r \in OpenRefunds : obligation[r] = "Pending"}
  IN  open # {} =>
        GrossOf(open) <= LiveSol - SolMinimum - SolReserved + GrossOf(overlapped)

\* A completed obligation is settled in the ledger in the end, although the
\* signature that completed it may be unrecorded, superseded or forgotten.
CompletedIsSettled ==
  \A r \in Obligations : obligation[r] = "Completed" ~> req[r].state = "Settled"

\* "rerun this command to continue confirmation or recovery": a refund that
\* landed is recorded in the end when its operators keep rerunning it.
LandedRefundRecorded ==
  \A r \in Obligations : obligation[r] = "Refunded" ~> req[r].state = "Refunded"

=============================================================================
