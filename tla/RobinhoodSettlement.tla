------------------------- MODULE RobinhoodSettlement -------------------------
(***************************************************************************)
(* The Robinhood leg of the service: every operation it sends to the       *)
(* bridge contract (payout, settlement, refund, treasury withdrawal) from  *)
(* authorization to finality, and what each outcome does to its request    *)
(* (service/src/robinhood/{settlement,submitter,refund,treasury_withdraw,  *)
(* reconcile_settlement}.rs, service/src/ledger/robinhood_tx.rs).          *)
(*                                                                         *)
(* A ledger function is one write transaction and one step. A tick or a    *)
(* command reads the chain, signs, sends and records in several; it may    *)
(* stop between any two of them, and two processes may drive one row: the  *)
(* daemon and the treasury command both run tick_broadcast and             *)
(* tick_receipts over every row of the ledger.                             *)
(***************************************************************************)
EXTENDS Integers, Sequences, FiniteSets, Sums

CONSTANTS
  Requests,        \* bridge requests and, for Treasury, rebalance requests
  Directions,      \* the directions the requests of an instance may have
  Daemon,          \* the settlement loop
  Admins,          \* processes running one operator command each
  Net,             \* Net[r]: what the request moves, canonical units
  InitialBalance,  \* balance of the RobinhoodReserve row
  Ttl,             \* authorization_ttl
  MaxClock,        \* bound on the clock
  MaxEpoch,        \* bound on signer rotations
  MaxReplacements, \* max_replacements
  MaxReorgs,       \* bound on reorganisations of the Robinhood chain
  MaxForeign,      \* bound on nonces another process spends
  Events           \* the disturbances an instance explores

AllEvents == {"stop", "lost", "pause", "park", "refund", "resume", "race"}
AllDirections == {"GlcToRhn", "SolToRhn", "RhnToGlc", "RhnToSol", "Treasury"}

ASSUME RhnEventsAssumption == Events \subseteq AllEvents
ASSUME RhnDirectionsAssumption == Directions \subseteq AllDirections
ASSUME RhnAmountsAssumption ==
  /\ Net \in [Requests -> Nat \ {0}]
  /\ InitialBalance \in Nat
\* The reserve covers what the requests of an instance move together: a payout
\* is admitted within the capacity left, and the contract refuses to send what
\* it does not hold.
ASSUME RhnFundsAssumption ==
  IsFiniteSet(Requests) /\ SumOver(Net, Requests) <= InitialBalance
ASSUME RhnProcessesAssumption == Daemon \notin Admins
ASSUME RhnBoundsAssumption ==
  /\ Ttl \in Nat \ {0} /\ MaxClock \in Nat /\ MaxEpoch \in Nat
  /\ MaxReplacements \in Nat /\ MaxReorgs \in Nat /\ MaxForeign \in Nat

VARIABLES
  dir,      \* bridge_requests.direction, fixed at creation
  req,      \* bridge_requests (or rebalance_requests) and the folded observation
  row,      \* robinhood_transactions with their stored signatures
  book,     \* the RobinhoodReserve row of reserve_ledger
  floor,    \* the observed nonce of evm_submitter_nonces
  work,     \* what each process is doing; lost when it stops
  clock,    \* wall-clock time
  epoch,    \* the contract's signer epoch
  paused,   \* the contract refuses payouts
  pool,     \* signed transactions some node holds
  mined,    \* the submitter's mined transactions: position n has nonce n - 1
  final,    \* how many of them are past the required confirmations
  forks,    \* reorganisations so far: how many heights may have shifted
  paidOut   \* requests whose destination chain has paid them

ledgerVars == <<dir, req, row, book, floor>>
chainVars == <<clock, epoch, paused, pool, mined, final, forks, paidOut>>
vars == <<ledgerVars, work, chainVars>>

Workers == {Daemon} \cup Admins
Kinds == {"Payout", "Settlement", "Refund", "TreasuryWithdraw"}
Ops == Requests \X Kinds

ToRobinhood(r) == dir[r] \in {"GlcToRhn", "SolToRhn"}
FromRobinhood(r) == dir[r] \in {"RhnToGlc", "RhnToSol"}

TxStates == {"none", "Authorizing", "Authorized", "Signed", "Broadcast",
             "Included", "Finalized", "Reverted", "ManualReview"}
InFlight == {"Broadcast", "Included"}

ReqStates == {"SourceFinalized", "ManualReview", "DestinationSubmitted",
              "DestinationConfirmed", "Settled", "RefundPending", "Refunded",
              "Approved", "Executed", "Confirmed", "Failed"}

\* A payload is told apart by the epoch and the deadline it binds.
Payload == [epoch |-> epoch, expiry |-> clock + Ttl]
NoPayload == [epoch |-> -1, expiry |-> -1]

NoRow == [state |-> "none", auth |-> NoPayload, sigs |-> NoPayload,
          nonce |-> -1, version |-> -1, receipt |-> -1]

Idle == [step |-> "idle"]

Init ==
  /\ dir \in [Requests -> Directions]
  /\ req = [r \in Requests |->
              [state |-> IF dir[r] = "Treasury" THEN "Approved" ELSE "SourceFinalized",
               note |-> "none", completion |-> FALSE, observed |-> FALSE]]
  /\ row = [o \in Ops |-> NoRow]
  /\ LET held == SumOver(Net, {r \in Requests : ToRobinhood(r)})
     IN book = [balance |-> InitialBalance, reserved |-> held, pending |-> held]
  /\ floor = 0
  /\ work = [w \in Workers |-> Idle]
  /\ clock = 0 /\ epoch = 0 /\ paused = FALSE
  /\ pool = {} /\ mined = <<>> /\ final = 0 /\ forks = 0
  /\ paidOut = {}

-----------------------------------------------------------------------------
(* The contract, as far as one operation sees it.                           *)

\* requestExecuted(action, id) at the latest block.
Executed(o) == \E i \in DOMAIN mined : mined[i].op = o /\ mined[i].ok

\* The same, past the required confirmations.
ExecutedForGood(o) == \E i \in 1 .. final : mined[i].op = o /\ mined[i].ok

\* An obligation leaves Pending through its settlement or its refund.
ObligationPending(r) == ~Executed(<<r, "Settlement">>) /\ ~Executed(<<r, "Refund">>)

\* What estimateGas and execution both evaluate: the stored quorum must have
\* signed the payload the call carries, in the current epoch and in time. A
\* treasury withdrawal needs the contract paused, the payouts need it open.
WouldSucceed(o) ==
  /\ row[o].sigs = row[o].auth
  /\ row[o].auth.epoch = epoch
  /\ clock <= row[o].auth.expiry
  /\ ~Executed(o)
  /\ o[2] \in {"Settlement", "Refund"} => ObligationPending(o[1])
  /\ o[2] = "Payout" => ~paused
  /\ o[2] = "TreasuryWithdraw" => paused

-----------------------------------------------------------------------------
(* Ledger functions on the operation rows.                                  *)

Step(w, s) == work' = [work EXCEPT ![w] = s]
Done(w) == Step(w, Idle)

Nonces == {row[o].nonce : o \in Ops} \ {-1}

\* allocate_robinhood_nonce: one past the highest recorded, never below what
\* the chain has been seen to count.
NextNonce ==
  LET recorded == IF Nonces = {} THEN 0 ELSE Max(Nonces) + 1
  IN IF recorded > floor THEN recorded ELSE floor

\* record_evm_submitter_nonce: the floor only rises. The count of a node may
\* include the transactions it still holds.
ReconcileNonce(w) ==
  /\ work[w] = Idle
  /\ floor < Len(mined)
  /\ floor' = Len(mined)
  /\ UNCHANGED <<dir, req, row, book, work, chainVars>>

RowTo(o, state) == [row EXCEPT ![o].state = state]

\* mark_robinhood_tx_manual_review: refused only for a finalized row.
ReviewRow(o) ==
  IF row[o].state = "Finalized" THEN row ELSE RowTo(o, "ManualReview")

-----------------------------------------------------------------------------
(* Ledger functions on the requests.                                        *)

Release(r) ==
  [book EXCEPT !.reserved = @ - Net[r], !.pending = @ - Net[r]]

\* park_for_destination_bounds: a Goldcoin-sourced request keeps what it
\* reserved, because its deposit may still be resumed or refunded.
ParkForDestinationBounds(r) ==
  /\ work[Daemon] = Idle
  /\ "park" \in Events
  /\ ToRobinhood(r)
  /\ req[r].state = "SourceFinalized"
  /\ row[<<r, "Payout">>].state \in {"none", "Authorizing"}
  /\ req' = [req EXCEPT ![r].state = "ManualReview", ![r].note = "bounds"]
  /\ book' = IF dir[r] = "GlcToRhn" THEN book ELSE Release(r)
  /\ UNCHANGED <<dir, row, floor, work, chainVars>>

\* mark_robinhood_payout_settled; a second call changes nothing.
PayoutSettled(r) ==
  IF req[r].state \in {"Settled", "DestinationConfirmed"} THEN UNCHANGED <<req, book>>
  ELSE /\ req' = [req EXCEPT ![r].state =
                    IF dir[r] = "GlcToRhn" THEN "Settled" ELSE "DestinationConfirmed"]
       /\ book' = [Release(r) EXCEPT !.balance = @ - Net[r]]

\* mark_robinhood_settlement_confirmed: only behind a confirmed destination.
SettlementConfirmed(r) ==
  /\ req' = IF req[r].state = "DestinationConfirmed"
            THEN [req EXCEPT ![r].state = "Settled"] ELSE req
  /\ UNCHANGED book

\* mark_robinhood_refund_confirmed.
RefundConfirmed(r) ==
  /\ req' = IF req[r].state = "RefundPending"
            THEN [req EXCEPT ![r].state = "Refunded"] ELSE req
  /\ UNCHANGED book

\* record_rebalance_executed, the first transaction of either outcome of a
\* treasury withdrawal: refused unless the rebalance is still Approved.
RebalanceExecuted(r) ==
  /\ req' = IF req[r].state = "Approved"
            THEN [req EXCEPT ![r].state = "Executed"] ELSE req
  /\ UNCHANGED book

\* on_finalized.
OnFinalized(o) ==
  CASE o[2] = "Payout" -> PayoutSettled(o[1])
    [] o[2] = "Settlement" -> SettlementConfirmed(o[1])
    [] o[2] = "Refund" -> RefundConfirmed(o[1])
    [] o[2] = "TreasuryWithdraw" -> RebalanceExecuted(o[1])

\* Mutant: the reservation is given back for either direction.
OnReverted_AlwaysReleases(o) ==
  /\ req' = [req EXCEPT ![o[1]].state = "ManualReview", ![o[1]].note = "reverted"]
  /\ book' = Release(o[1])

\* on_reverted: mark_robinhood_request_manual_review gives back what an active
\* request reserved; the rebalance of a treasury withdrawal is executed first
\* and failed next.
OnReverted(o) ==
  LET r == o[1] IN
  IF o[2] = "TreasuryWithdraw" THEN RebalanceExecuted(r)
  ELSE IF req[r].state \in {"Settled", "Refunded", "ManualReview"}
  THEN UNCHANGED <<req, book>>
  ELSE /\ req' = [req EXCEPT ![r].state = "ManualReview", ![r].note = "reverted"]
       /\ book' = IF ToRobinhood(r) /\ req[r].state = "SourceFinalized"
                  THEN Release(r) ELSE book

-----------------------------------------------------------------------------
(* Authorization.                                                           *)

Begin(w, o) == Step(w, [step |-> "begin", op |-> o, auth |-> Payload])

\* authorize_payout: a row still Authorizing is taken up again, under a payload
\* computed from the clock and the epoch of this tick.
AuthorizePayout(r) ==
  /\ work[Daemon] = Idle
  /\ ToRobinhood(r)
  /\ req[r].state = "SourceFinalized"
  /\ row[<<r, "Payout">>].state \in {"none", "Authorizing"}
  /\ Begin(Daemon, <<r, "Payout">>)
  /\ UNCHANGED <<ledgerVars, chainVars>>

\* authorize_settlement: only once the destination chain has paid for good.
AuthorizeSettlement(r) ==
  /\ work[Daemon] = Idle
  /\ FromRobinhood(r)
  /\ req[r].state = "DestinationConfirmed"
  /\ row[<<r, "Settlement">>].state \in {"none", "Authorizing"}
  /\ Begin(Daemon, <<r, "Settlement">>)
  /\ UNCHANGED <<ledgerVars, chainVars>>

\* begin_refund up to its last read of the chain.
CheckRefund(w, r) ==
  /\ w \in Admins /\ work[w] = Idle
  /\ "refund" \in Events
  /\ FromRobinhood(r)
  /\ row[<<r, "Refund">>].state = "none" /\ row[<<r, "Settlement">>].state = "none"
  /\ req[r].state = "ManualReview"
  /\ r \notin paidOut
  /\ ObligationPending(r)
  /\ Begin(w, <<r, "Refund">>)
  /\ UNCHANGED <<ledgerVars, chainVars>>

\* The capacity the withdrawal must leave untouched, and the amount it moves.
WithdrawalFits(r) == book.balance - Net[r] >= book.reserved /\ book.balance - Net[r] >= book.pending

\* treasury_withdraw::begin: a row still Authorizing is rebuilt from its own
\* columns, so the quorum signs what the row records.
BeginTreasuryWithdraw(w, r) ==
  LET o == <<r, "TreasuryWithdraw">> IN
  /\ w \in Admins /\ work[w] = Idle
  /\ dir[r] = "Treasury"
  /\ \/ /\ row[o].state = "none"
        /\ req[r].state = "Approved"
        /\ paused
        /\ WithdrawalFits(r)
        /\ Begin(w, o)
     \/ /\ row[o].state = "Authorizing"
        /\ Step(w, [step |-> "collect", op |-> o, auth |-> row[o].auth])
  /\ UNCHANGED <<ledgerVars, chainVars>>

\* begin_robinhood_tx: the row of this operation, created or found. It looks
\* at no request state; the caller's payload is the one it goes on to sign.
BeginRobinhoodTx(w) ==
  LET o == work[w].op IN
  /\ work[w].step = "begin"
  /\ row' = IF row[o].state = "none"
            THEN [row EXCEPT ![o] = [NoRow EXCEPT !.state = "Authorizing",
                                                  !.auth = work[w].auth]]
            ELSE row
  /\ Step(w, [work[w] EXCEPT !.step = "collect"])
  /\ UNCHANGED <<dir, req, book, floor, chainVars>>

\* collect_quorum, then record_robinhood_authorization: a stored pair is never
\* replaced, and only an Authorizing row takes one.
RecordRobinhoodAuthorization(w) ==
  LET o == work[w].op
      fresh == row[o].sigs = NoPayload /\ row[o].state = "Authorizing"
      same == row[o].sigs = work[w].auth
      next == IF o[2] = "Refund" THEN [step |-> "pending", op |-> o] ELSE Idle
  IN
  /\ work[w].step = "collect"
  /\ row' = IF fresh THEN [row EXCEPT ![o].sigs = work[w].auth, ![o].state = "Authorized"]
            ELSE row
  /\ Step(w, IF fresh \/ same THEN next ELSE Idle)
  /\ UNCHANGED <<dir, req, book, floor, chainVars>>

\* mark_robinhood_refund_pending, the last step of begin_refund.
MarkRobinhoodRefundPending(w) ==
  LET r == work[w].op[1] IN
  /\ work[w].step = "pending"
  /\ req' = IF req[r].state = "ManualReview"
            THEN [req EXCEPT ![r].state = "RefundPending"] ELSE req
  /\ Done(w)
  /\ UNCHANGED <<dir, row, book, floor, chainVars>>

-----------------------------------------------------------------------------
(* Broadcast.                                                               *)

\* prove(), the chain: the settlement executed, deep enough, as a transaction
\* of the submitter with the nonce of the row.
SettledOnChain(o) ==
  \E i \in 1 .. final : mined[i].op = o /\ mined[i].ok /\ row[o].nonce = i - 1

\* prove(), the ledger: the row's bytes are persisted and it is the only
\* operation of its request.
OnlyOperation(o) ==
  /\ row[o].version >= 0
  /\ \A k \in Kinds \ {o[2]} : row[<<o[1], k>>].state = "none"

\* prove(): the destination was paid, nothing was refunded, and the request is
\* exactly behind the chain.
SettlementProven(o) ==
  /\ o[2] = "Settlement"
  /\ SettledOnChain(o)
  /\ OnlyOperation(o)
  /\ o[1] \in paidOut
  /\ req[o[1]].state = "DestinationConfirmed"
  /\ row[o].state # "Reverted"

\* reconcile_robinhood_settlement_from_chain: row, request and observation in
\* one transaction.
Reconcile(o) ==
  /\ row' = [row EXCEPT ![o].state = "Finalized"]
  /\ req' = [req EXCEPT ![o[1]].state = "Settled", ![o[1]].observed = TRUE]

\* A row that cannot go on: completed from the chain where that is proved,
\* stopped for a human otherwise.
ResolveOrReview(o) ==
  IF SettlementProven(o) THEN Reconcile(o) ELSE row' = ReviewRow(o) /\ UNCHANGED req

\* sign_and_send's early returns: an expired authorization, an operation the
\* contract already reports executed.
SignRefused(w, o) ==
  /\ work[w] = Idle
  /\ row[o].state = "Authorized"
  /\ \/ clock >= row[o].auth.expiry /\ row' = ReviewRow(o) /\ UNCHANGED req
     \/ clock < row[o].auth.expiry /\ Executed(o) /\ ResolveOrReview(o)
  /\ UNCHANGED <<dir, book, floor, work, chainVars>>

\* The gate and the gas estimate pass. Every failure leaves the row alone.
SignAndSend(w, o) ==
  /\ work[w] = Idle
  /\ row[o].state = "Authorized"
  /\ clock < row[o].auth.expiry
  /\ WouldSucceed(o)
  /\ Step(w, [step |-> "nonce", op |-> o])
  /\ UNCHANGED <<ledgerVars, chainVars>>

\* Mutant: every attempt takes a nonce of its own.
AllocateRobinhoodNonce_Fresh(w) ==
  LET o == work[w].op IN
  /\ work[w].step = "nonce"
  /\ row' = [row EXCEPT ![o].nonce = NextNonce]
  /\ Step(w, [work[w] EXCEPT !.step = "sign"])
  /\ UNCHANGED <<dir, req, book, floor, chainVars>>

\* allocate_robinhood_nonce: a nonce already allocated is returned unchanged.
AllocateRobinhoodNonce(w) ==
  LET o == work[w].op
      allocates == row[o].nonce = -1 /\ row[o].state = "Authorized"
  IN
  /\ work[w].step = "nonce"
  /\ row' = IF allocates THEN [row EXCEPT ![o].nonce = NextNonce] ELSE row
  /\ Step(w, IF allocates \/ row[o].nonce # -1 THEN [work[w] EXCEPT !.step = "sign"] ELSE Idle)
  /\ UNCHANGED <<dir, req, book, floor, chainVars>>

\* record_robinhood_signed. Two processes may sign at different fees: the
\* second finds other bytes stored and is refused, or finds its own.
RecordRobinhoodSigned(w) ==
  LET o == work[w].op IN
  /\ work[w].step = "sign"
  /\ \/ /\ row[o].version = -1 /\ row[o].state = "Authorized"
        /\ row' = [row EXCEPT ![o].version = 0, ![o].state = "Signed"]
        /\ Step(w, [work[w] EXCEPT !.step = "send"])
     \/ /\ row[o].version = 0
        /\ UNCHANGED row
        /\ Step(w, [work[w] EXCEPT !.step = "send"])
     \/ /\ row[o].version >= 0 \/ row[o].state # "Authorized"
        /\ UNCHANGED row
        /\ Done(w)
  /\ UNCHANGED <<dir, req, book, floor, chainVars>>

\* send_raw_transaction of the stored bytes. Whatever the node answers, or if
\* nothing comes back, the attempt is recorded next.
SendRawTransaction(w) ==
  LET o == work[w].op IN
  /\ work[w].step = "send"
  /\ \/ pool' = pool \cup {[op |-> o, version |-> row[o].version]}
     \/ "lost" \in Events /\ UNCHANGED pool
  /\ Step(w, [work[w] EXCEPT !.step = "sent"])
  /\ UNCHANGED <<ledgerVars, clock, epoch, paused, mined, final, forks, paidOut>>

RecordRobinhoodBroadcast(w) ==
  LET o == work[w].op IN
  /\ work[w].step = "sent"
  /\ row' = IF row[o].state \in {"Signed", "Broadcast"} THEN RowTo(o, "Broadcast") ELSE row
  /\ Done(w)
  /\ UNCHANGED <<dir, req, book, floor, chainVars>>

\* rebroadcast_or_replace before anything is due: the same bytes again.
Rebroadcast(w, o) ==
  /\ work[w] = Idle
  /\ row[o].state = "Broadcast"
  /\ [op |-> o, version |-> row[o].version] \notin pool
  /\ Step(w, [step |-> "send", op |-> o])
  /\ UNCHANGED <<ledgerVars, chainVars>>

\* replacement_due: the same nonce and call at a higher fee; the new hash is
\* the one whose receipt is polled from here on.
RecordRobinhoodReplacement(w, o) ==
  /\ work[w] = Idle
  /\ row[o].state = "Broadcast"
  /\ row[o].version < MaxReplacements
  /\ row' = [row EXCEPT ![o].version = @ + 1]
  /\ Step(w, [step |-> "send", op |-> o])
  /\ UNCHANGED <<dir, req, book, floor, chainVars>>

\* Mutant: a replacement restarts the wait for ever.
GiveUpBroadcast_NotOnceReplaced(w, o) ==
  /\ work[w] = Idle
  /\ row[o].state = "Broadcast" /\ row[o].version = 0
  /\ ResolveOrReview(o)
  /\ UNCHANGED <<dir, book, floor, work, chainVars>>

\* broadcast_is_stale, whatever the version, or the replacement budget is spent.
GiveUpBroadcast(w, o) ==
  /\ work[w] = Idle
  /\ row[o].state = "Broadcast"
  /\ ResolveOrReview(o)
  /\ UNCHANGED <<dir, book, floor, work, chainVars>>

-----------------------------------------------------------------------------
(* Receipts.                                                                *)

\* update_robinhood_confirmations: the required confirmations are there.
DeepEnough(i) == i <= final

\* record_robinhood_receipt: the height of the first receipt is kept, and a
\* later receipt agrees with it by its height alone, in whichever block.
ReceiptAgrees(o, t) == row[o].receipt \in {-1, t.block}

\* poll_receipt of the tracked hash: a receipt at another height than the
\* recorded one stops the row.
PollReceipt(w, o) ==
  /\ work[w] = Idle
  /\ row[o].state \in InFlight
  /\ \E i \in DOMAIN mined :
       LET t == mined[i]
           deep == DeepEnough(i)
       IN
       /\ t.op = o /\ t.version = row[o].version
       /\ \/ /\ ~ReceiptAgrees(o, t)
             /\ row' = RowTo(o, "ManualReview") /\ UNCHANGED work
          \/ /\ ReceiptAgrees(o, t) /\ ~t.ok
             /\ row' = [row EXCEPT ![o].state = "Reverted", ![o].receipt = t.block]
             /\ Step(w, [step |-> "reverted", op |-> o])
          \/ /\ ReceiptAgrees(o, t) /\ t.ok
             /\ deep \/ row[o].state = "Broadcast"
             /\ row' = [row EXCEPT ![o].state = IF deep THEN "Finalized" ELSE "Included",
                                   ![o].receipt = t.block]
             /\ Step(w, IF deep THEN [step |-> "verify", op |-> o] ELSE Idle)
  /\ UNCHANGED <<dir, req, book, floor, chainVars>>

\* The row of a reverted transaction is stopped, then its request is parked.
ReviewReverted(w) ==
  /\ work[w].step = "reverted"
  /\ row' = ReviewRow(work[w].op)
  /\ Step(w, [work[w] EXCEPT !.step = "park"])
  /\ UNCHANGED <<dir, req, book, floor, chainVars>>

ParkReverted(w) ==
  LET o == work[w].op IN
  /\ work[w].step = "park"
  /\ OnReverted(o)
  /\ Step(w, IF o[2] = "TreasuryWithdraw" THEN [work[w] EXCEPT !.step = "fail"] ELSE Idle)
  /\ UNCHANGED <<dir, row, floor, chainVars>>

\* fail_rebalance: terminal, and no amount leaves the reserve row.
FailRebalance(w) ==
  LET r == work[w].op[1] IN
  /\ work[w].step = "fail"
  /\ req' = IF req[r].state = "Executed" THEN [req EXCEPT ![r].state = "Failed"] ELSE req
  /\ Done(w)
  /\ UNCHANGED <<dir, row, book, floor, chainVars>>

\* verify_operation_effect, after the row is already Finalized: an error here
\* ends the poll, and a Finalized row is never polled again.
VerifyOperationEffect(w) ==
  /\ work[w].step = "verify"
  /\ Executed(work[w].op)
  /\ Step(w, [work[w] EXCEPT !.step = "complete"])
  /\ UNCHANGED <<ledgerVars, chainVars>>

CompleteOperation(w) ==
  LET o == work[w].op IN
  /\ work[w].step = "complete"
  /\ OnFinalized(o)
  /\ Step(w, CASE o[2] = "Settlement" -> [work[w] EXCEPT !.step = "observe"]
               [] o[2] = "TreasuryWithdraw" /\ req[o[1]].state = "Approved" ->
                    [work[w] EXCEPT !.step = "confirm"]
               [] OTHER -> Idle)
  /\ UNCHANGED <<dir, row, floor, chainVars>>

\* confirm_rebalance with the approved amount, which leaves the reserve row.
ConfirmRebalance(w) ==
  LET r == work[w].op[1] IN
  /\ work[w].step = "confirm"
  /\ IF req[r].state = "Executed"
     THEN /\ req' = [req EXCEPT ![r].state = "Confirmed"]
          /\ book' = [book EXCEPT !.balance = @ - Net[r]]
     ELSE UNCHANGED <<req, book>>
  /\ Done(w)
  /\ UNCHANGED <<dir, row, floor, chainVars>>

\* mark_robinhood_observation_settled.
MarkObservationSettled(w) ==
  /\ work[w].step = "observe"
  /\ req' = [req EXCEPT ![work[w].op[1]].observed = TRUE]
  /\ Done(w)
  /\ UNCHANGED <<dir, row, book, floor, chainVars>>

-----------------------------------------------------------------------------
(* The rest of a request's life.                                            *)

\* A Robinhood deposit may be folded into ManualReview instead; an operator or
\* the auto-resume pass takes it up again unless a refund row exists.
ParkDeposit(r) ==
  /\ "park" \in Events
  /\ FromRobinhood(r)
  /\ req[r].state = "SourceFinalized" /\ req[r].note = "none"
  /\ r \notin paidOut
  /\ req' = [req EXCEPT ![r].state = "ManualReview", ![r].note = "parked"]
  /\ UNCHANGED <<dir, row, book, floor, work, chainVars>>

RefundBeginning(r) == \E w \in Workers : work[w] # Idle /\ work[w].op = <<r, "Refund">>

\* Mutant: a resume that does not look for the refund row.
ResumeManualReview_IgnoresRefund(r) ==
  /\ "resume" \in Events
  /\ FromRobinhood(r)
  /\ req[r].state = "ManualReview" /\ req[r].note = "parked"
  /\ req' = [req EXCEPT ![r].state = "SourceFinalized", ![r].note = "resumed"]
  /\ UNCHANGED <<dir, row, book, floor, work, chainVars>>

\* resume_manual_review_inbound. "race" lets it run while a refund of the same
\* request is between its checks and its row.
ResumeManualReview(r) ==
  /\ "resume" \in Events
  /\ "race" \in Events \/ ~RefundBeginning(r)
  /\ FromRobinhood(r)
  /\ req[r].state = "ManualReview" /\ req[r].note = "parked"
  /\ row[<<r, "Refund">>].state = "none"
  /\ req' = [req EXCEPT ![r].state = "SourceFinalized", ![r].note = "resumed"]
  /\ UNCHANGED <<dir, row, book, floor, work, chainVars>>

\* The one interleaving that lets a request be both paid and refunded.
ResumesIntoRefund == \E r \in Requests : RefundBeginning(r) /\ ResumeManualReview(r)

\* The Goldcoin payout or the Solana release of a Robinhood deposit, sent and
\* later confirmed by the orchestrator.
PayDestination(r) ==
  /\ FromRobinhood(r)
  /\ req[r].state = "SourceFinalized"
  /\ req' = [req EXCEPT ![r].state = "DestinationSubmitted"]
  /\ paidOut' = paidOut \cup {r}
  /\ UNCHANGED <<dir, row, book, floor, work, clock, epoch, paused, pool, mined, final, forks>>

ConfirmDestination(r) ==
  /\ FromRobinhood(r)
  /\ req[r].state = "DestinationSubmitted"
  /\ req' = [req EXCEPT ![r].state = "DestinationConfirmed"]
  /\ UNCHANGED <<dir, row, book, floor, work, chainVars>>

\* record_robinhood_payout_completion_submitted: the completion on Solana of a
\* payout that is final on Robinhood.
RecordPayoutCompletionSubmitted(r) ==
  /\ dir[r] = "SolToRhn"
  /\ req[r].state = "DestinationConfirmed" /\ ~req[r].completion
  /\ row[<<r, "Payout">>].state = "Finalized"
  /\ req' = [req EXCEPT ![r].completion = TRUE]
  /\ UNCHANGED <<dir, row, book, floor, work, chainVars>>

MarkPayoutCompletionConfirmed(r) ==
  /\ dir[r] = "SolToRhn"
  /\ req[r].state = "DestinationConfirmed" /\ req[r].completion
  /\ req' = [req EXCEPT ![r].state = "Settled"]
  /\ UNCHANGED <<dir, row, book, floor, work, chainVars>>

\* The operator's robinhood-reconcile-settlement command.
ReconcileSettlement(o) ==
  /\ SettlementProven(o)
  /\ Reconcile(o)
  /\ UNCHANGED <<dir, book, floor, work, chainVars>>

-----------------------------------------------------------------------------
(* Faults and the chain.                                                    *)

\* A process stops, or a read of a node or a signer fails, between two steps.
Stop(w) ==
  /\ "stop" \in Events
  /\ work[w] # Idle
  /\ Done(w)
  /\ UNCHANGED <<ledgerVars, chainVars>>

Tick ==
  /\ clock < MaxClock
  /\ clock' = clock + 1
  /\ UNCHANGED <<ledgerVars, work, epoch, paused, pool, mined, final, forks, paidOut>>

RotateSigners ==
  /\ epoch < MaxEpoch
  /\ epoch' = epoch + 1
  /\ UNCHANGED <<ledgerVars, work, clock, paused, pool, mined, final, forks, paidOut>>

TogglePause ==
  /\ "pause" \in Events
  /\ paused' = ~paused
  /\ UNCHANGED <<ledgerVars, work, clock, epoch, pool, mined, final, forks, paidOut>>

\* Where the next transaction may land: heights never fall along the chain,
\* and after a reorganisation what it dropped lands at the height it had or at
\* a later one.
Heights == {b \in 0 .. forks : \A i \in DOMAIN mined : mined[i].block <= b}

\* The next nonce is spent by one of the transactions carrying it.
Mine ==
  /\ \E t \in pool, b \in Heights :
       /\ row[t.op].nonce = Len(mined)
       /\ mined' = Append(mined, [op |-> t.op, version |-> t.version,
                                  ok |-> WouldSucceed(t.op), block |-> b])
  /\ UNCHANGED <<ledgerVars, work, clock, epoch, paused, pool, final, forks, paidOut>>

ForeignOp == <<>>

\* Another process with the submitter's key spends the next nonce.
MineForeign ==
  /\ Cardinality({i \in DOMAIN mined : mined[i].op = ForeignOp}) < MaxForeign
  /\ \E b \in Heights :
       mined' = Append(mined, [op |-> ForeignOp, version |-> 0, ok |-> TRUE, block |-> b])
  /\ UNCHANGED <<ledgerVars, work, clock, epoch, paused, pool, final, forks, paidOut>>

Deepen ==
  /\ final < Len(mined)
  /\ final' = final + 1
  /\ UNCHANGED <<ledgerVars, work, clock, epoch, paused, pool, mined, forks, paidOut>>

\* The last block is reorganised away before it is deep enough.
Reorg ==
  /\ forks < MaxReorgs
  /\ final < Len(mined)
  /\ mined' = SubSeq(mined, 1, Len(mined) - 1)
  /\ forks' = forks + 1
  /\ UNCHANGED <<ledgerVars, work, clock, epoch, paused, pool, final, paidOut>>

\* A node drops a transaction it holds.
Evict(t) ==
  /\ "lost" \in Events
  /\ pool' = pool \ {t}
  /\ UNCHANGED <<ledgerVars, work, clock, epoch, paused, mined, final, forks, paidOut>>

DaemonStep(w) ==
  \/ BeginRobinhoodTx(w) \/ RecordRobinhoodAuthorization(w)
  \/ AllocateRobinhoodNonce(w) \/ RecordRobinhoodSigned(w)
  \/ SendRawTransaction(w) \/ RecordRobinhoodBroadcast(w)
  \/ ReviewReverted(w) \/ ParkReverted(w) \/ FailRebalance(w)
  \/ VerifyOperationEffect(w) \/ CompleteOperation(w) \/ ConfirmRebalance(w)
  \/ MarkObservationSettled(w)

Next ==
  \/ \E r \in Requests :
       \/ AuthorizePayout(r) \/ AuthorizeSettlement(r) \/ ParkForDestinationBounds(r)
       \/ ParkDeposit(r) \/ ResumeManualReview(r)
       \/ PayDestination(r) \/ ConfirmDestination(r)
       \/ RecordPayoutCompletionSubmitted(r) \/ MarkPayoutCompletionConfirmed(r)
  \/ \E w \in Workers, r \in Requests : CheckRefund(w, r) \/ BeginTreasuryWithdraw(w, r)
  \/ \E w \in Workers : DaemonStep(w) \/ MarkRobinhoodRefundPending(w) \/ Stop(w)
  \/ \E w \in Workers, o \in Ops :
       \/ SignRefused(w, o) \/ SignAndSend(w, o) \/ Rebroadcast(w, o)
       \/ RecordRobinhoodReplacement(w, o) \/ GiveUpBroadcast(w, o) \/ PollReceipt(w, o)
  \/ \E w \in Workers : ReconcileNonce(w)
  \/ \E o \in Ops : ReconcileSettlement(o)
  \/ \E t \in pool : Evict(t)
  \/ Tick \/ RotateSigners \/ TogglePause
  \/ Mine \/ MineForeign \/ Deepen \/ Reorg

Spec == Init /\ [][Next]_vars

\* The settlement loop ticks for ever and takes each row that is due; the chain
\* mines what its nodes hold and buries what it mined. Nothing is assumed of
\* operators, of the clock or of the faults.
Takes(o) ==
  \/ SignAndSend(Daemon, o) \/ SignRefused(Daemon, o)
  \/ PollReceipt(Daemon, o) \/ GiveUpBroadcast(Daemon, o)

Fairness ==
  /\ WF_vars(DaemonStep(Daemon))
  /\ \A r \in Requests : WF_vars(AuthorizePayout(r)) /\ WF_vars(AuthorizeSettlement(r))
  /\ \A o \in Ops : SF_vars(Takes(o))
  /\ WF_vars(Mine) /\ WF_vars(Deepen)

FairSpec == Spec /\ Fairness

-----------------------------------------------------------------------------
(* Properties.                                                              *)

RowType ==
  [state : TxStates, auth : [epoch : -1 .. MaxEpoch, expiry : -1 .. MaxClock + Ttl],
   sigs : [epoch : -1 .. MaxEpoch, expiry : -1 .. MaxClock + Ttl],
   nonce : Nat \cup {-1}, version : -1 .. MaxReplacements, receipt : -1 .. MaxReorgs]

\* Rows, requests, counters and the chain keep their shape; a counter of the
\* reserve never goes negative.
TypeOK ==
  /\ dir \in [Requests -> Directions]
  /\ req \in [Requests -> [state : ReqStates, note : {"none", "parked", "bounds", "reverted", "resumed"},
                           completion : BOOLEAN, observed : BOOLEAN]]
  /\ row \in [Ops -> RowType]
  /\ book \in [balance : Nat, reserved : Nat, pending : Nat]
  /\ floor \in Nat /\ clock \in 0 .. MaxClock /\ epoch \in 0 .. MaxEpoch
  /\ final \in 0 .. Len(mined) /\ forks \in 0 .. MaxReorgs /\ paidOut \subseteq Requests

\* The operation whose execution completes a request in its present state.
CompletedBy(r) ==
  CASE ToRobinhood(r) /\ req[r].state \in {"DestinationConfirmed", "Settled"} -> {"Payout"}
    [] FromRobinhood(r) /\ req[r].state = "Settled" -> {"Settlement"}
    [] FromRobinhood(r) /\ req[r].state = "Refunded" -> {"Refund"}
    [] dir[r] = "Treasury" /\ req[r].state = "Confirmed" -> {"TreasuryWithdraw"}
    [] OTHER -> {}

\* A request is completed only by an operation the contract has executed in a
\* block that can no longer be reorganised away, whichever replacement landed
\* and whichever process recorded it (poll_receipt, on_finalized, reconcile).
CompletedMeansExecuted ==
  \A r \in Requests : \A k \in CompletedBy(r) : ExecutedForGood(<<r, k>>)

Holding(r) ==
  ToRobinhood(r) /\ \/ req[r].state = "SourceFinalized"
                    \/ req[r].state = "ManualReview" /\ req[r].note = "bounds"
                       /\ dir[r] = "GlcToRhn"

LeftReserve(r) == CompletedBy(r) \cap {"Payout", "TreasuryWithdraw"} # {}

\* The Robinhood reserve row always accounts for exactly the requests that may
\* still be paid from it and for what has left it, through every retry, revert
\* and late completion.
ReserveRowMatchesRequests ==
  LET held == SumOver(Net, {r \in Requests : Holding(r)})
      spent == SumOver(Net, {r \in Requests : LeftReserve(r)})
  IN book = [balance |-> InitialBalance - spent, reserved |-> held, pending |-> held]

\* A transaction a node holds or has mined is never unknown to the ledger: its
\* row holds its nonce alone and remembers at least its version, so a restart
\* finds everything that was sent (nonce and bytes are recorded before sending).
NothingUnaccounted ==
  /\ \A t \in pool \cup {mined[i] : i \in {j \in DOMAIN mined : mined[j].op # ForeignOp}} :
       /\ row[t.op].version >= t.version
       /\ row[t.op].nonce >= 0
       /\ row[t.op].state \notin {"none", "Authorizing", "Authorized"}
  /\ \A o, p \in Ops : row[o].nonce = row[p].nonce /\ row[o].nonce >= 0 => o = p

\* The service's books and the chain never disagree: completions, the reserve
\* row and every sent transaction are accounted for, after any stop, revert,
\* replacement or reorganisation.
BooksFollowChain ==
  /\ TypeOK
  /\ CompletedMeansExecuted
  /\ ReserveRowMatchesRequests
  /\ NothingUnaccounted

\* How each request has ended on the chains, for good on Robinhood.
Outcomes ==
  [r \in Requests |->
     (IF r \in paidOut \/ ExecutedForGood(<<r, "Payout">>) THEN {"paid"} ELSE {})
     \cup (IF ExecutedForGood(<<r, "Refund">>) THEN {"returned"} ELSE {})]

Deposit == INSTANCE DepositOutcome WITH
  Deposits <- Requests, Ways <- {"paid", "returned"}, outcome <- Outcomes

\* The settlement machinery implements the promise of DepositOutcome: a request
\* ends once, paid or returned, through retries, replacements and reorgs.
EndsOnce == Deposit!Spec

\* A deposit that was paid on its destination chain is never refunded on
\* Robinhood (begin_refund: "doing both would be paying twice").
NeverPaidAndRefunded ==
  \A r \in Requests : ~(r \in paidOut /\ Executed(<<r, "Refund">>))

\* A nonce, once recorded, is never changed or given away, and a replacement
\* only raises the version under it.
NoncesAreForever ==
  [][\A o \in Ops : /\ row[o].nonce >= 0 => row'[o].nonce = row[o].nonce
                    /\ row'[o].version >= row[o].version
                    /\ row[o].sigs # NoPayload => row'[o].sigs = row[o].sigs]_vars

\* Every quorum stored for an operation signed the payload its row records
\* (RobinhoodTxState: "a crash mid-collection resumes with the same payload").
SignaturesMatchPayload ==
  \A o \in Ops : row[o].sigs # NoPayload => row[o].sigs = row[o].auth

\* Persisted bytes are eventually sent (sign_and_send: "a crash at any point is
\* recovered by re-broadcasting these exact bytes").
SignedIsEventuallySent ==
  \A o \in Ops : row[o].state = "Signed" ~> row[o].state # "Signed"

\* A row that recorded an inclusion the chain has since dropped: it is neither
\* sent again nor given up, both of which look at Broadcast rows only.
Stranded(o) ==
  /\ row[o].state = "Included"
  /\ \A i \in DOMAIN mined : ~(mined[i].op = o /\ mined[i].version = row[o].version)

\* Every payout that is due reaches an outcome, whatever is lost, replaced or
\* overtaken: its operation is finalized or a human is told. The one exception
\* is a payout whose recorded inclusion a reorganisation removes and whose
\* transaction never returns to the chain: it waits for ever (tick_receipts
\* finds no receipt, tick_broadcast skips Included rows).
PayoutsResolve ==
  \A r \in Requests : LET o == <<r, "Payout">> IN
    ToRobinhood(r) => \/ <>(row[o].state \in {"Finalized", "Reverted", "ManualReview"})
                      \/ <>[]Stranded(o)
=============================================================================
