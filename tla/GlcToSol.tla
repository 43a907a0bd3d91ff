------------------------------- MODULE GlcToSol -------------------------------
(***************************************************************************)
(* The Goldcoin-to-Solana direction of the off-chain service: the request  *)
(* life cycle and the Solana reserve's counters kept by the ledger         *)
(* (service/src/ledger/mod.rs), driven by the Goldcoin indexer, the        *)
(* orchestrator's release ticks and the operator's commands, against the   *)
(* two chains.                                                             *)
(*                                                                         *)
(* Every ledger function is one SQLite write transaction, hence one step.  *)
(* submit_release is not: it records the attestation, sends the            *)
(* transaction and records the submission in three steps, between which    *)
(* the process may stop and the chains and the operator move.              *)
(*                                                                         *)
(* A request's recipient, wallets, fee and quote columns are left out; its *)
(* net destination amount, the only figure the counters see, is kept.      *)
(* Wallet windows, the rapid-burst rule and the price feed appear as the   *)
(* verdict they return.                                                    *)
(***************************************************************************)
EXTENDS Integers, FiniteSets, Sums

CONSTANTS
  Requests,          \* request ids
  Amounts,           \* net destination amounts a quote may give
  MinTransferAmounts,\* values the program's min_transfer_amount may take
  PerTransferLimits, \* values the program's per_transfer_limit may take
  ProtectedMinimum,  \* protected_minimum of the Solana reserve
  InitialBalance,    \* its balance when the ledger is configured
  Tolerance,         \* reconciliation tolerance
  ReservationTtl,    \* reservation_ttl_secs
  MaxClock,          \* bound on the clock
  MaxSends,          \* bound on release transactions sent per request
  MaxBalance,        \* bound on the reserve's on-chain balance
  Events             \* the disturbances of AllEvents that an instance explores

\* What users, operators, the price feed and the chains may do beyond the
\* plain course of a transfer.
AllEvents == {"burst", "wallet", "refused", "band", "mismatch", "orphan", "reverse",
              "spend", "drop", "forget", "fund", "treasury", "hold", "close",
              "pause"}

ASSUME EventsAssumption == Events \subseteq AllEvents
ASSUME RequestsAssumption == IsFiniteSet(Requests)
ASSUME AmountsAssumption == Amounts \subseteq Nat \ {0}
ASSUME LimitsAssumption ==
  /\ MinTransferAmounts \subseteq Nat /\ MinTransferAmounts # {}
  /\ PerTransferLimits \subseteq Nat \ {0} /\ PerTransferLimits # {}
ASSUME ConfigAssumption ==
  /\ ProtectedMinimum \in Nat
  /\ InitialBalance \in Nat
  /\ Tolerance \in Nat
  /\ ReservationTtl \in Nat \ {0}
  /\ MaxClock \in Nat
  /\ MaxSends \in Nat
  /\ MaxBalance \in Nat
  /\ InitialBalance >= ProtectedMinimum

VARIABLES
  req,       \* bridge_requests with their goldcoin_refunds and attestation rows
  reserve,   \* the SolanaReserve row of reserve_ledger
  glcPaused, \* paused flag of the GoldcoinReserve row
  orch,      \* what submit_release is doing now; lost when the process stops
  dep,       \* the user's deposit on the Goldcoin chain
  refundTx,  \* requests whose refund transaction reached the Goldcoin network
  inflight,  \* release transactions sent and neither landed nor dropped
  sends,     \* release transactions signed so far, per request
  landed,    \* DepositClaim: which release transaction paid, with its amount
  retained,  \* requests whose landed signature the node still reports
  solBalance,\* the reserve token account
  limit,     \* the program's min_transfer_amount and per_transfer_limit
  clock

chainVars == <<dep, refundTx, inflight, sends, landed, retained, solBalance, limit>>
vars == <<req, reserve, glcPaused, orch, dep, refundTx, inflight, sends, landed,
          retained, solBalance, limit, clock>>

States == {"Absent", "AwaitingDeposit", "Confirming", "SourceFinalized",
           "DestinationSubmitted", "Settled", "Expired", "ManualReview",
           "RefundPending", "RefundBroadcast", "Refunded", "Closed"}

\* manual_review_note, by its reason prefix.
Notes == {"none", "late_deposit_no_capacity", "deposit_amount_mismatch",
          "bridge_rate", "insufficient_capacity_at_lock", "wallet_24h_limit",
          "rapid_burst_hold", "deposit_spent_before_finalized",
          "destination_payout_out_of_bounds"}

\* REFUNDABLE_GLC_MANUAL_REVIEW_REASONS.
RefundableReasons ==
  {"deposit_amount_mismatch", "bridge_rate", "insufficient_capacity_at_lock",
   "wallet_24h_limit", "destination_payout_out_of_bounds"}

NoRequest == [state |-> "Absent", net |-> 0, note |-> "none", expiry |-> 0,
              finalized |-> FALSE, attested |-> FALSE, sig |-> 0,
              refund |-> "none", hold |-> "none"]

Idle == [step |-> "idle"]

\* What initialize and set_limit may have written.
Limits == [min : MinTransferAmounts, max : PerTransferLimits]

Init ==
  /\ req = [r \in Requests |-> NoRequest]
  /\ reserve = [balance |-> InitialBalance, reserved |-> 0, pending |-> 0,
                settled |-> 0, paused |-> FALSE]
  /\ glcPaused = FALSE
  /\ orch = Idle
  /\ dep = [r \in Requests |-> [status |-> "none", exact |-> TRUE]]
  /\ refundTx = {}
  /\ inflight = {}
  /\ sends = [r \in Requests |-> 0]
  /\ landed = [r \in Requests |-> [tx |-> 0, amount |-> 0]]
  /\ retained = {}
  /\ solBalance = InitialBalance
  /\ limit \in Limits
  /\ clock = 0

Available == reserve.balance - ProtectedMinimum - reserve.reserved

\* Sum of the net amounts of a set of requests.
NetOf(S) == SumOver([r \in Requests |-> req[r].net], S)

-----------------------------------------------------------------------------
(* Admission and expiry.                                                    *)

CapacityOK(net) == net <= Available

\* A refusal (paused, admission closed, wallet window, no capacity) writes nothing.
CreateRequest(r, net) ==
  /\ req[r].state = "Absent"
  /\ ~reserve.paused
  /\ CapacityOK(net)
  /\ clock + ReservationTtl <= MaxClock
  /\ req' = [req EXCEPT ![r] = [@ EXCEPT !.state = "AwaitingDeposit", !.net = net,
                                         !.expiry = clock + ReservationTtl]]
  /\ reserve' = [reserve EXCEPT !.reserved = @ + net]
  /\ UNCHANGED <<glcPaused, orch, chainVars, clock>>

Expirable_WhenUnpaused(r) ==
  /\ req[r].state = "AwaitingDeposit" /\ req[r].expiry # 0 /\ req[r].expiry <= clock
  /\ ~reserve.paused

Expirable(r) ==
  req[r].state = "AwaitingDeposit" /\ req[r].expiry # 0 /\ req[r].expiry <= clock

\* One sweep expires every reservation past its TTL.
ExpireReservations ==
  LET due == {r \in Requests : Expirable(r)} IN
  /\ due # {}
  /\ req' = [r \in Requests |->
               IF r \in due THEN [req[r] EXCEPT !.state = "Expired"] ELSE req[r]]
  /\ reserve' = [reserve EXCEPT !.reserved = @ - NetOf(due)]
  /\ UNCHANGED <<glcPaused, orch, chainVars, clock>>

-----------------------------------------------------------------------------
(* The Goldcoin indexer.                                                    *)

\* A reorg below a finalized deposit halts the indexer until an operator acts.
ReversedAfterFinality == {r \in Requests : req[r].finalized /\ dep[r].status = "reversed"}
IndexerRunning == ReversedAfterFinality = {}

Observable_ParkedToo(r) ==
  /\ IndexerRunning
  /\ dep[r].status \in {"mined", "deep"}
  /\ req[r].state \in {"AwaitingDeposit", "Expired", "ManualReview"}

Observable(r) ==
  /\ IndexerRunning
  /\ dep[r].status \in {"mined", "deep"}
  /\ req[r].state \in {"AwaitingDeposit", "Expired"}

\* A deposit for an expired reservation finds no capacity left.
LateDepositNoCapacity(r) ==
  /\ Observable(r)
  /\ req[r].state = "Expired"
  /\ ~CapacityOK(req[r].net)
  /\ req' = [req EXCEPT ![r] = [@ EXCEPT !.state = "ManualReview",
                                         !.note = "late_deposit_no_capacity"]]
  /\ UNCHANGED <<reserve, glcPaused, orch, chainVars, clock>>

Rereserve_Forgotten(r) == 0

\* An expired reservation is made again, without an expiry, before the
\* deposit is bound to it.
Rereserve(r) == IF req[r].state = "Expired" THEN req[r].net ELSE 0

ExpiryOf(r) == IF req[r].state = "Expired" THEN 0 ELSE req[r].expiry

Reservable(r) == req[r].state = "Expired" => CapacityOK(req[r].net)

AmountMismatch(r) ==
  /\ Observable(r) /\ Reservable(r)
  /\ ~dep[r].exact
  /\ req' = [req EXCEPT ![r] = [@ EXCEPT !.state = "ManualReview",
                                         !.note = "deposit_amount_mismatch",
                                         !.expiry = ExpiryOf(r)]]
  /\ reserve' = [reserve EXCEPT !.reserved = @ + Rereserve(r)]
  /\ UNCHANGED <<glcPaused, orch, chainVars, clock>>

\* The reserve, with the recreated reservation if any, can absorb the move
\* from the indicative net to the struck one.
Absorbed(r, struck) ==
  LET delta == struck - req[r].net IN delta <= 0 \/ delta <= Available - Rereserve(r)

LockedNet(r, struck, rate) ==
  IF rate # "refused" /\ Absorbed(r, struck) THEN struck ELSE req[r].net

\* Why an exact deposit is parked: a burst outranks the wallet window, which
\* outranks the rate.
ParkReason(r, struck, rate, gate) ==
  CASE gate = "burst" -> "rapid_burst_hold"
    [] gate = "wallet" -> "wallet_24h_limit"
    [] gate = "pass" /\ rate = "refused" -> "bridge_rate"
    [] gate = "pass" /\ rate # "refused" /\ ~Absorbed(r, struck)
         -> "insufficient_capacity_at_lock"
    [] gate = "pass" /\ rate = "band" /\ Absorbed(r, struck) -> "bridge_rate"
    [] OTHER -> "none"

\* The quote is locked: the net moves to the struck amount when the reserve
\* can absorb the difference. A parked request keeps its reservation.
LockAndObserve(r, struck, rate, gate) ==
  LET net == LockedNet(r, struck, rate)
      note == ParkReason(r, struck, rate, gate)
  IN
  /\ Observable(r) /\ Reservable(r)
  /\ dep[r].exact
  /\ req' = [req EXCEPT ![r] =
       [@ EXCEPT !.state = IF note = "none" THEN "Confirming" ELSE "ManualReview",
                 !.net = net, !.note = note, !.expiry = ExpiryOf(r),
                 !.hold = IF gate = "burst" THEN "held" ELSE req[r].hold]]
  /\ reserve' = [reserve EXCEPT !.reserved = @ + Rereserve(r) + (net - req[r].net)]
  /\ UNCHANGED <<glcPaused, orch, chainVars, clock>>

\* record_glc_deposit_observed_from: the outcomes of one observation.
RecordGlcDepositObserved(r) ==
  \/ LateDepositNoCapacity(r)
  \/ AmountMismatch(r)
  \/ \E struck \in Amounts, rate \in {"ok"} \union (Events \intersect {"refused", "band"}),
        gate \in {"pass"} \union (Events \intersect {"burst", "wallet"}) :
          LockAndObserve(r, struck, rate, gate)

DepthReached_AnyConfirmation(r) == dep[r].status \in {"mined", "deep"}

DepthReached(r) == dep[r].status = "deep"

MarkGlcSourceFinalized(r) ==
  /\ IndexerRunning
  /\ req[r].state = "Confirming"
  /\ DepthReached(r)
  /\ req' = [req EXCEPT ![r] = [@ EXCEPT !.state = "SourceFinalized", !.finalized = TRUE]]
  /\ reserve' = [reserve EXCEPT !.pending = @ + req[r].net]
  /\ UNCHANGED <<glcPaused, orch, chainVars, clock>>

MarkGlcDepositSpentBeforeFinalized(r) ==
  /\ IndexerRunning
  /\ req[r].state = "Confirming"
  /\ dep[r].status = "spent"
  /\ req' = [req EXCEPT ![r] = [@ EXCEPT !.state = "ManualReview",
                                         !.note = "deposit_spent_before_finalized"]]
  /\ UNCHANGED <<reserve, glcPaused, orch, chainVars, clock>>

Orphaned(r) ==
  req[r].state = "Confirming" /\ dep[r].status \in {"none", "reversed"}

\* goldcoin_rollback_reorg: back to AwaitingDeposit; the reservation, its
\* expiry and the locked net are left as they are.
GoldcoinRollbackReorg ==
  LET affected == {r \in Requests : Orphaned(r)} IN
  /\ IndexerRunning
  /\ affected # {}
  /\ req' = [r \in Requests |->
       IF r \in affected THEN [req[r] EXCEPT !.state = "AwaitingDeposit"] ELSE req[r]]
  /\ UNCHANGED <<reserve, glcPaused, orch, chainVars, clock>>

\* The audit row and the two pauses are committed one after the other; a
\* stop between them is made good by the restarted indexer.
PauseGoldcoinOnReorg ==
  /\ ~IndexerRunning /\ ~glcPaused
  /\ glcPaused' = TRUE
  /\ UNCHANGED <<req, reserve, orch, chainVars, clock>>

PauseSolanaOnReorg ==
  /\ ~IndexerRunning /\ ~reserve.paused
  /\ reserve' = [reserve EXCEPT !.paused = TRUE]
  /\ UNCHANGED <<req, glcPaused, orch, chainVars, clock>>

RecordPostFinalityReorg == PauseGoldcoinOnReorg \/ PauseSolanaOnReorg

-----------------------------------------------------------------------------
(* Release settlement: submit_release and the confirmation tick.            *)

\* The bounds the program puts on the amount it pays out.
WithinBounds(net) == limit.min <= net /\ net <= limit.max

OutOfBounds(r) == ~WithinBounds(req[r].net)

\* The park keeps the reservation and the obligation of a Goldcoin deposit.
ParkForDestinationBounds(r) ==
  /\ orch = Idle
  /\ req[r].state = "SourceFinalized"
  /\ OutOfBounds(r)
  /\ req' = [req EXCEPT ![r] = [@ EXCEPT !.state = "ManualReview",
                                         !.note = "destination_payout_out_of_bounds"]]
  /\ UNCHANGED <<reserve, glcPaused, orch, chainVars, clock>>

AttestRelease(r) ==
  /\ orch = Idle
  /\ req[r].state = "SourceFinalized"
  /\ ~OutOfBounds(r)
  /\ sends[r] < MaxSends
  /\ req' = [req EXCEPT ![r].attested = TRUE]
  /\ orch' = [step |-> "attested", req |-> r]
  /\ UNCHANGED <<reserve, glcPaused, chainVars, clock>>

\* The node simulates the transaction before it forwards it.
PreflightOK(r) ==
  /\ landed[r].tx = 0
  /\ WithinBounds(req[r].net)
  /\ solBalance - req[r].net >= ProtectedMinimum

SendRelease ==
  /\ orch.step = "attested"
  /\ LET r == orch.req IN
     /\ PreflightOK(r)
     /\ sends' = [sends EXCEPT ![r] = @ + 1]
     /\ inflight' = inflight \union
          {[req |-> r, tx |-> sends[r] + 1, amount |-> req[r].net]}
     /\ orch' = [step |-> "sent", req |-> r, tx |-> sends[r] + 1]
  /\ UNCHANGED <<req, reserve, glcPaused, dep, refundTx, landed, retained,
                 solBalance, limit, clock>>

RecordReleaseSubmitted ==
  /\ orch.step = "sent"
  /\ LET r == orch.req IN
     req' = IF req[r].state = "SourceFinalized"
            THEN [req EXCEPT ![r] = [@ EXCEPT !.state = "DestinationSubmitted",
                                              !.sig = orch.tx]]
            ELSE req
  /\ orch' = Idle
  /\ UNCHANGED <<reserve, glcPaused, chainVars, clock>>

\* A failed call abandons the request until the next tick; so does a restart.
AbandonRelease ==
  /\ orch # Idle
  /\ orch' = Idle
  /\ UNCHANGED <<req, reserve, glcPaused, chainVars, clock>>

Settle(r) ==
  /\ req' = [req EXCEPT ![r].state = "Settled"]
  /\ reserve' = [reserve EXCEPT !.reserved = @ - req[r].net, !.pending = @ - req[r].net,
                                !.settled = @ + req[r].net, !.balance = @ - req[r].net]

\* The recorded signature is reported as finalized. Once the node has
\* forgotten it, the chain-terminal proof refuses this direction, and
\* nothing is written.
MarkReleaseConfirmed(r) ==
  /\ req[r].state = "DestinationSubmitted"
  /\ landed[r].tx = req[r].sig
  /\ r \in retained
  /\ Settle(r)
  /\ UNCHANGED <<glcPaused, orch, chainVars, clock>>

-----------------------------------------------------------------------------
(* Operator: manual review, Goldcoin refunds, pauses.                       *)

Parked(r) == req[r].state = "ManualReview" /\ req[r].sig = 0

Resumable_ByNote(r) == req[r].note = "destination_payout_out_of_bounds"

Resumable(r) ==
  /\ Parked(r)
  /\ req[r].note = "destination_payout_out_of_bounds"
  /\ req[r].hold = "none"
  /\ ~req[r].attested
  /\ req[r].refund = "none"

ResumeDestinationBound(r) ==
  /\ Resumable(r)
  /\ req[r].finalized
  /\ ~OutOfBounds(r)
  /\ reserve.reserved >= req[r].net /\ reserve.pending >= req[r].net
  /\ reserve.balance >= ProtectedMinimum + reserve.reserved
  /\ req' = [req EXCEPT ![r] = [@ EXCEPT !.state = "SourceFinalized", !.note = "none"]]
  /\ UNCHANGED <<reserve, glcPaused, orch, chainVars, clock>>

SetManualReviewHold(r) ==
  /\ "hold" \in Events
  /\ Parked(r)
  /\ req[r].note # "rapid_burst_hold"
  /\ req[r].hold # "held"
  /\ req' = [req EXCEPT ![r].hold = "held"]
  /\ UNCHANGED <<reserve, glcPaused, orch, chainVars, clock>>

ClearManualReviewHold(r) ==
  /\ req[r].hold # "none"
  /\ req[r].note # "rapid_burst_hold"
  /\ req' = [req EXCEPT ![r].hold = "none"]
  /\ UNCHANGED <<reserve, glcPaused, orch, chainVars, clock>>

\* `process` has no path for a Goldcoin deposit and is rolled back, so
\* `refund` is the only decision that is ever recorded.
RecordOperatorDecision(r) ==
  /\ Parked(r)
  /\ req[r].hold = "held"
  /\ req[r].refund = "none"
  /\ req' = [req EXCEPT ![r].hold = "refund"]
  /\ UNCHANGED <<reserve, glcPaused, orch, chainVars, clock>>

\* No reserve counter is touched, whatever the request still holds.
CloseManualReview(r) ==
  /\ "close" \in Events
  /\ Parked(r)
  /\ req[r].refund = "none"
  /\ req' = [req EXCEPT ![r].state = "Closed"]
  /\ UNCHANGED <<reserve, glcPaused, orch, chainVars, clock>>

NoSolanaRelease(r) == landed[r].tx = 0

\* execute_refund up to begin_goldcoin_refund: local pause, the database
\* checks, a deep deposit, and no DepositClaim on Solana.
BeginGoldcoinRefund(r) ==
  /\ glcPaused
  /\ Parked(r)
  /\ req[r].note \in RefundableReasons
  /\ req[r].hold # "held"
  /\ req[r].refund = "none"
  /\ dep[r].status = "deep"
  /\ NoSolanaRelease(r)
  /\ req' = [req EXCEPT ![r] = [@ EXCEPT !.state = "RefundPending", !.refund = "Built"]]
  /\ UNCHANGED <<reserve, glcPaused, orch, chainVars, clock>>

\* Signing follows at once, or in a later invocation that checks again.
RecordGoldcoinRefundSigned(r) ==
  /\ req[r].refund = "Built"
  /\ req' = [req EXCEPT ![r].refund = "Signed"]
  /\ UNCHANGED <<reserve, glcPaused, orch, chainVars, clock>>

\* The signed transaction is sent, and sent again after a restart: the
\* node answers the second time that it has it.
BroadcastRefund(r) ==
  /\ req[r].refund = "Signed"
  /\ refundTx' = refundTx \union {r}
  /\ UNCHANGED <<req, reserve, glcPaused, orch, dep, inflight, sends, landed, retained,
                 solBalance, limit, clock>>

RecordGoldcoinRefundBroadcast(r) ==
  /\ req[r].refund = "Signed"
  /\ r \in refundTx
  /\ req' = [req EXCEPT ![r] = [@ EXCEPT !.state = "RefundBroadcast", !.refund = "Broadcast"]]
  /\ UNCHANGED <<reserve, glcPaused, orch, chainVars, clock>>

\* commit_goldcoin_refund_terminal: the reservation is released, once; the
\* pending obligation is not.
RecordGoldcoinRefundConfirmed(r) ==
  /\ req[r].refund = "Broadcast"
  /\ req' = [req EXCEPT ![r] = [@ EXCEPT !.state = "Refunded", !.refund = "Refunded"]]
  /\ reserve' = [reserve EXCEPT !.reserved = @ - req[r].net]
  /\ UNCHANGED <<glcPaused, orch, chainVars, clock>>

SetSolanaPaused(b) ==
  /\ "pause" \in Events
  /\ reserve.paused # b
  /\ reserve' = [reserve EXCEPT !.paused = b]
  /\ UNCHANGED <<req, glcPaused, orch, chainVars, clock>>

SetGoldcoinPaused(b) ==
  /\ glcPaused # b
  /\ glcPaused' = b
  /\ UNCHANGED <<req, reserve, orch, chainVars, clock>>

-----------------------------------------------------------------------------
(* Reconciliation of the cached balance.                                    *)

InFlightAmount == NetOf({r \in Requests : req[r].state = "DestinationSubmitted"})

Breach ==
  LET drop == IF solBalance < reserve.balance THEN reserve.balance - solBalance ELSE 0
      residual == IF drop > InFlightAmount THEN drop - InFlightAmount ELSE 0
  IN solBalance < ProtectedMinimum + reserve.pending \/ residual > Tolerance

Reconcile ==
  /\ reserve.balance # solBalance \/ Breach
  /\ reserve' = [reserve EXCEPT !.paused = @ \/ Breach, !.balance = solBalance]
  /\ UNCHANGED <<req, glcPaused, orch, chainVars, clock>>

-----------------------------------------------------------------------------
(* The chains, the user and time.                                           *)

\* The indexer rolls an orphaned deposit back before it reads the blocks that
\* replace it, so a new deposit never stands in for the orphaned one.
MineDeposit(r, exact) ==
  /\ req[r].state \notin {"Absent", "Confirming"}
  /\ dep[r].status = "none"
  /\ exact \/ "mismatch" \in Events
  /\ dep' = [dep EXCEPT ![r] = [status |-> "mined", exact |-> exact]]
  /\ UNCHANGED <<req, reserve, glcPaused, orch, refundTx, inflight, sends, landed,
                 retained, solBalance, limit, clock>>

\* from a status to the next: buried, orphaned, spent by the vault, or
\* reversed by a reorg deeper than the confirmation depth.
DepositMoves(r, from, to) ==
  /\ dep[r].status = from
  /\ dep' = [dep EXCEPT ![r].status = to]
  /\ UNCHANGED <<req, reserve, glcPaused, orch, refundTx, inflight, sends, landed,
                 retained, solBalance, limit, clock>>

BuryDeposit(r) == DepositMoves(r, "mined", "deep")
OrphanDeposit(r) == "orphan" \in Events /\ DepositMoves(r, "mined", "none")
ReverseDeposit(r) == "reverse" \in Events /\ DepositMoves(r, "deep", "reversed")
SpendDeposit(r) ==
  "spend" \in Events /\ req[r].state = "Confirming" /\ DepositMoves(r, "deep", "spent")

\* release_from_reserve executes: the DepositClaim is unused, the amount
\* is within the program's bounds and the floor holds.
LandRelease(t) ==
  /\ landed[t.req].tx = 0
  /\ WithinBounds(t.amount)
  /\ solBalance - t.amount >= ProtectedMinimum
  /\ inflight' = inflight \ {t}
  /\ landed' = [landed EXCEPT ![t.req] = [tx |-> t.tx, amount |-> t.amount]]
  /\ retained' = retained \union {t.req}
  /\ solBalance' = solBalance - t.amount
  /\ UNCHANGED <<req, reserve, glcPaused, orch, dep, refundTx, sends, limit, clock>>

DropRelease(t) ==
  /\ "drop" \in Events
  /\ inflight' = inflight \ {t}
  /\ UNCHANGED <<req, reserve, glcPaused, orch, dep, refundTx, sends, landed, retained,
                 solBalance, limit, clock>>

ForgetSignature(r) ==
  /\ "forget" \in Events
  /\ r \in retained
  /\ retained' = retained \ {r}
  /\ UNCHANGED <<req, reserve, glcPaused, orch, dep, refundTx, inflight, sends, landed,
                 solBalance, limit, clock>>

FundReserve(a) ==
  /\ "fund" \in Events
  /\ solBalance + a <= MaxBalance
  /\ solBalance' = solBalance + a
  /\ UNCHANGED <<req, reserve, glcPaused, orch, dep, refundTx, inflight, sends, landed,
                 retained, limit, clock>>

\* A treasury withdrawal takes what the program's floor leaves, whatever the
\* service has promised to requests.
WithdrawTreasury(a) ==
  /\ "treasury" \in Events
  /\ solBalance - a >= ProtectedMinimum
  /\ solBalance' = solBalance - a
  /\ UNCHANGED <<req, reserve, glcPaused, orch, dep, refundTx, inflight, sends, landed,
                 retained, limit, clock>>

\* set_limit changes one field of BridgeConfig, at once.
SetLimit(l) ==
  /\ l # limit
  /\ l.min = limit.min \/ l.max = limit.max
  /\ limit' = l
  /\ UNCHANGED <<req, reserve, glcPaused, orch, dep, refundTx, inflight, sends, landed,
                 retained, solBalance, clock>>

Tick ==
  /\ clock < MaxClock
  /\ clock' = clock + 1
  /\ UNCHANGED <<req, reserve, glcPaused, orch, chainVars>>

-----------------------------------------------------------------------------
RequestStep(r) ==
  \/ \E net \in Amounts : CreateRequest(r, net)
  \/ RecordGlcDepositObserved(r)
  \/ MarkGlcSourceFinalized(r)
  \/ MarkGlcDepositSpentBeforeFinalized(r)
  \/ ParkForDestinationBounds(r)
  \/ AttestRelease(r)
  \/ MarkReleaseConfirmed(r)

OperatorStep(r) ==
  \/ ResumeDestinationBound(r)
  \/ SetManualReviewHold(r)
  \/ ClearManualReviewHold(r)
  \/ RecordOperatorDecision(r)
  \/ CloseManualReview(r)
  \/ BeginGoldcoinRefund(r)
  \/ RecordGoldcoinRefundSigned(r)
  \/ BroadcastRefund(r)
  \/ RecordGoldcoinRefundBroadcast(r)
  \/ RecordGoldcoinRefundConfirmed(r)

ChainStep(r) ==
  \/ \E exact \in BOOLEAN : MineDeposit(r, exact)
  \/ BuryDeposit(r)
  \/ OrphanDeposit(r)
  \/ ReverseDeposit(r)
  \/ SpendDeposit(r)
  \/ ForgetSignature(r)

ServiceStep ==
  \/ ExpireReservations
  \/ GoldcoinRollbackReorg
  \/ RecordPostFinalityReorg
  \/ SendRelease
  \/ RecordReleaseSubmitted
  \/ AbandonRelease
  \/ Reconcile

Next ==
  \/ \E r \in Requests : RequestStep(r) \/ OperatorStep(r) \/ ChainStep(r)
  \/ ServiceStep
  \/ \E b \in BOOLEAN : SetSolanaPaused(b) \/ SetGoldcoinPaused(b)
  \/ \E t \in inflight : LandRelease(t) \/ DropRelease(t)
  \/ \E a \in Amounts : FundReserve(a) \/ WithdrawTreasury(a)
  \/ \E l \in Limits : SetLimit(l)
  \/ Tick

Spec == Init /\ [][Next]_vars

\* The daemon ticks for as long as it runs, and time passes: the indexer,
\* the expiry sweep and the confirmation poll are run again every tick, and
\* a submission in hand is recorded.
Fairness ==
  /\ WF_vars(Tick)
  /\ WF_vars(ExpireReservations)
  /\ WF_vars(GoldcoinRollbackReorg)
  /\ WF_vars(RecordReleaseSubmitted)
  /\ \A r \in Requests :
       /\ WF_vars(RecordGlcDepositObserved(r))
       /\ WF_vars(MarkGlcSourceFinalized(r))
       /\ WF_vars(MarkReleaseConfirmed(r))

FairSpec == Spec /\ Fairness

-----------------------------------------------------------------------------
(* Properties.                                                              *)

RequestRow ==
  [state : States, net : Nat, note : Notes, expiry : Nat,
   finalized : BOOLEAN, attested : BOOLEAN, sig : Nat,
   refund : {"none", "Built", "Signed", "Broadcast", "Refunded"},
   hold : {"none", "held", "refund"}]

ReserveTypeOK ==
  reserve \in [balance : Int, reserved : Int, pending : Int, settled : Int, paused : BOOLEAN]

ServiceTypeOK ==
  /\ req \in [Requests -> RequestRow]
  /\ orch \in {Idle} \union [step : {"attested"}, req : Requests]
              \union [step : {"sent"}, req : Requests, tx : Nat]
  /\ glcPaused \in BOOLEAN
  /\ clock \in Nat

ChainTypeOK ==
  /\ dep \in [Requests -> [status : {"none", "mined", "deep", "spent", "reversed"},
                           exact : BOOLEAN]]
  /\ refundTx \subseteq Requests
  /\ inflight \subseteq [req : Requests, tx : Nat, amount : Nat]
  /\ sends \in [Requests -> Nat]
  /\ landed \in [Requests -> [tx : Nat, amount : Nat]]
  /\ retained \subseteq Requests
  /\ solBalance \in Nat
  /\ limit \in [min : Nat, max : Nat]

\* Every row keeps its shape (bridge_requests, reserve_ledger,
\* goldcoin_refunds), the cached counters stay integers, and the live
\* balance never goes below zero.
TypeOK == ReserveTypeOK /\ ServiceTypeOK /\ ChainTypeOK

\* The requests whose reservation the ledger carries: from creation to
\* settlement, expiry or a confirmed refund, a closed request included; a
\* late deposit that found no capacity carries none.
Reserving ==
  {r \in Requests :
     /\ req[r].state \notin {"Absent", "Expired", "Settled", "Refunded"}
     /\ req[r].note # "late_deposit_no_capacity"}

\* The finalized requests that never settled. A confirmed refund and a
\* closure leave their amount in the counter.
Pending == {r \in Requests : req[r].finalized /\ req[r].state # "Settled"}

\* reserved_liquidity and pending_obligations are running counters updated
\* by a dozen functions (3401, 3553, 4005, 2934, 8900, 10480 of
\* ledger/mod.rs); after any sequence of expiries, late deposits, requotes,
\* reorgs, parks, refunds and settlements each equals the sum over the
\* requests it stands for.
CountersMatchRequests ==
  reserve.reserved = NetOf(Reserving) /\ reserve.pending = NetOf(Pending)

\* A request whose release landed is not refunded. It fails when set_limit
\* takes the bounds from under a release in flight: the next tick parks the
\* request, a refund is begun, and the release lands once the bounds are back.
NeverReleasedAndRefunded ==
  \A r \in Requests : landed[r].tx # 0 => req[r].state # "Refunded"

\* What the service has promised and not yet paid is covered by the live
\* reserve above the floor, although admission reads a cached balance that
\* lags behind the releases in flight (available_capacity, reconcile).
NeverOvercommitted ==
  solBalance >= ProtectedMinimum + NetOf({r \in Reserving : landed[r].tx = 0})

\* The reserve pays a request only once its deposit was buried to the
\* confirmation depth, and pays the net the ledger holds for it, whatever
\* reorgs, requotes and resubmissions came before.
ReleasedForFinalDeposit ==
  \A r \in Requests : landed[r].tx # 0 =>
    /\ dep[r].status \in {"deep", "reversed"}
    /\ landed[r].amount = req[r].net
    /\ req[r].state \in {"SourceFinalized", "DestinationSubmitted", "Settled",
                         "ManualReview", "RefundPending", "RefundBroadcast",
                         "Refunded", "Closed"}

\* A request has a submitted release or a refund, never both, through
\* parks, resumes, holds and restarts (begin_goldcoin_refund refuses a
\* destination txid, resume_glc_to_sol_destination_bound a refund row).
SubmittedOrRefunded ==
  \A r \in Requests : ~(req[r].sig # 0 /\ req[r].refund # "none")

\* A finalized deposit is never taken back to a state that can expire or
\* be bound again: goldcoin_rollback_reorg leaves it alone.
FinalityIsOneWay ==
  [][\A r \in Requests : req[r].finalized =>
       req'[r].state \notin {"Absent", "AwaitingDeposit", "Confirming", "Expired"}]_vars

\* A reservation with a deadline is not held for ever by a user who never
\* pays: the sweep releases it, paused or not (expire_reservations).
ReservationsExpire ==
  \A r \in Requests :
    (req[r].state = "AwaitingDeposit" /\ req[r].expiry # 0)
      ~> (req[r].state # "AwaitingDeposit")

-----------------------------------------------------------------------------
(* What the repository says of the program and the program does not do.     *)

\* docs/05: pending_obligations is a subset of reserved_liquidity.
PendingWithinReserved == reserve.pending <= reserve.reserved

\* docs/05: the sweeper releases every AwaitingDeposit request past its
\* expiry, so none waits for ever.
EveryReservationExpires ==
  \A r \in Requests :
    (req[r].state = "AwaitingDeposit") ~> (req[r].state # "AwaitingDeposit")

=============================================================================
