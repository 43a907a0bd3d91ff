------------------------------ MODULE VaultPool ------------------------------
(***************************************************************************)
(* The Goldcoin vault's coins over time: the vault_utxos table, payouts    *)
(* and refunds that reserve them, splits that reshape the pool, and the    *)
(* node whose chain all of it follows.                                     *)
(*                                                                         *)
(* Two processes write the ledger: the daemon, whose ticks sync the table, *)
(* pay requests and shape the pool, and the operator's glc-admin; a refund *)
(* runs in the daemon too, in the handler of the operator's HTTP call and  *)
(* on a connection of its own.  Every ledger call is one SQLite            *)
(* transaction; between two calls the others, the node and a crash may     *)
(* intervene, so a tick is as many actions here as it has calls and        *)
(* awaits.  The reserve pause a refund asks for is read once, before any   *)
(* of its steps, and is left out: payouts may go on beside it.             *)
(*                                                                         *)
(* A transaction is [kind, n]; a coin is [tx, vout].  Amounts are kept     *)
(* where a guard compares them, with fees left to VaultCoins, and so is    *)
(* which of the payable coin sets select picks.                            *)
(***************************************************************************)
EXTENDS Integers, FiniteSets, FiniteSetsExt, Functions

CONSTANTS
    Roots,          \* coins the vault starts with, mature
    Requests,       \* requests the vault pays: payouts and refunds
    Refunds,        \* those of them refunded: Goldcoin deposits in ManualReview
    Splits,         \* vault_utxo_splits row ids
    RootAmount,     \* amount of a root coin
    PayAmount,      \* net_destination_atomic, or the deposit to refund
    MinConfirmations,   \* vault_min_confirmations and the payout depth
    ZeroConfDepth,  \* effective_zero_conf_depth
    MaxInputs,      \* max_inputs
    TargetCount,    \* target_available_count
    MaxEvictions,   \* bound: mempool evictions explored
    Events          \* what else may happen: crash, floor, operator, expiry

NoRequest == -1

\* What the proofs need of the constants.
ConstantsOK ==
    NoRequest \notin Requests /\ Refunds \subseteq Requests /\ MinConfirmations \in Nat

VARIABLES
    node,       \* what the Goldcoin node knows: -1 unknown, 0 mempool, n deep
    row,        \* vault_utxos
    pay,        \* goldcoin_payouts and goldcoin_refunds, inputs and change
    split,      \* vault_utxo_splits
    work,       \* the daemon's payout in hand, lost in a crash
    errand,     \* the refund handlers' calls in hand, lost in a crash
    seen,       \* the daemon's list_unspent answer, not yet applied
    held,       \* splits whose signed bytes a process is about to send
    probed,     \* operator abandons between the probe and the ledger call
    floorOK,    \* floor_refusal is None (reserve_ledger against the fee)
    evictions,  \* history: evictions so far
    leaked,     \* history: coins left Reserved by an attempt that died
    revoked     \* history: splits abandoned after they were signed, or whose
                \*          source a refund took from under the live claim

vars == <<node, row, pay, split, work, errand, seen, held, probed, floorOK, evictions, leaked,
          revoked>>

-----------------------------------------------------------------------------
(* Transactions and coins *)

RootTx(i) == [kind |-> "root", n |-> i]
PayTx(r) == [kind |-> "pay", n |-> r]
SplitTx(s) == [kind |-> "split", n |-> s]

Txs == {RootTx(i) : i \in Roots} \cup {PayTx(r) : r \in Requests} \cup {SplitTx(s) : s \in Splits}

Coin(tx, vout) == [tx |-> tx, vout |-> vout]

\* Vault outputs: a payout's change (vout 1) and a split's two chunks.
Coins ==
    {Coin(RootTx(i), 0) : i \in Roots} \cup {Coin(PayTx(r), 1) : r \in Requests}
    \cup {Coin(SplitTx(s), v) : s \in Splits, v \in 0..1}

NoCoin == Coin(RootTx(-1), 0)
NoTx == [kind |-> "none", n |-> 0]
Nothing == {NoCoin}

Known(tx) == node[tx] >= 0

\* The coins a transaction the service has built spends.
Inputs(tx) ==
    CASE tx.kind = "pay" -> pay[tx.n].inputs
      [] tx.kind = "split" -> {split[tx.n].source}
      [] OTHER -> {}

SpentOnNode(c) == \E tx \in Txs : Known(tx) /\ c \in Inputs(tx)

\* Outputs the transaction really has.
Outputs(tx) ==
    CASE tx.kind = "root" -> {Coin(tx, 0)}
      [] tx.kind = "pay" -> IF pay[tx.n].change > 0 THEN {Coin(tx, 1)} ELSE {}
      [] OTHER -> {Coin(tx, 0), Coin(tx, 1)}

AmountOf(c) ==
    CASE c.tx.kind = "root" -> RootAmount
      [] c.tx.kind = "pay" -> pay[c.tx.n].change
      [] OTHER -> row[split[c.tx.n].source].amount \div 2

\* list_unspent: every vault output the node sees as unspent, with its depth.
Unspent == {c \in UNION {Outputs(tx) : tx \in {t \in Txs : Known(t)}} : ~SpentOnNode(c)}

-----------------------------------------------------------------------------
NoRow == [state |-> "none", amount |-> 0, confs |-> 0, by |-> NoRequest, spentBy |-> NoTx,
          hold |-> FALSE]
NoWork == [step |-> "idle", request |-> NoRequest, inputs |-> {}]
NoErrand == [step |-> "idle", inputs |-> {}]

Init ==
    /\ node = [tx \in Txs |-> IF tx.kind = "root" THEN MinConfirmations ELSE -1]
    /\ row = [c \in Coins |-> IF c.tx.kind = "root"
                              THEN [NoRow EXCEPT !.state = "Available", !.amount = RootAmount,
                                                 !.confs = MinConfirmations]
                              ELSE NoRow]
    /\ pay = [r \in Requests |-> [state |-> "none", inputs |-> {}, change |-> 0, confs |-> 0, depth |-> 0]]
    /\ split = [s \in Splits |-> [state |-> "none", source |-> NoCoin, txid |-> FALSE,
                                  missing |-> FALSE, watched |-> TRUE]]
    /\ work = NoWork
    /\ errand = [q \in Refunds |-> NoErrand]
    /\ seen = Nothing
    /\ held = {} /\ probed = [s \in Splits |-> "no"]
    /\ floorOK = TRUE
    /\ evictions = 0
    /\ leaked = {} /\ revoked = {}

-----------------------------------------------------------------------------
(* The ledger's views of the pool *)

LiveSplit(s) == split[s].state \in {"Built", "Signed", "Broadcast"}

LiveSplitClaim_BuiltOnly(c) == \E s \in Splits : split[s].state = "Built" /\ split[s].source = c

\* live_split_claim_exclusion.
LiveSplitClaim(c) == \E s \in Splits : LiveSplit(s) /\ split[s].source = c

AvailableVaultUtxos == {c \in Coins : row[c].state = "Available" /\ ~LiveSplitClaim(c)}

\* A recorded change outpoint of a broadcast payout.
ChangeOutpoint(c) == c.tx.kind = "pay" /\ pay[c.tx.n].depth > 0

\* zero_conf_change_vault_utxos_with_depth.
ZeroConfChange ==
    {c \in Coins : /\ ZeroConfDepth > 0
                   /\ row[c].state = "Unconfirmed"
                   /\ ~row[c].hold
                   /\ ChangeOutpoint(c)
                   /\ row[c].confs >= 1 \/ pay[c.tx.n].depth <= ZeroConfDepth}

MatureTotal == MapThenSumSet(LAMBDA c : row[c].amount, AvailableVaultUtxos)

\* reserve_snapshot's pending_obligations: every payout not yet completed.
PendingObligations ==
    PayAmount * Cardinality({r \in Requests \ Refunds : pay[r].state # "Completed"})

-----------------------------------------------------------------------------
(* The node: mining, eviction *)

Mine(tx) ==
    /\ node[tx] \in 0..MinConfirmations - 1
    /\ \A c \in Inputs(tx) : node[c.tx] > node[tx]
    /\ node' = [node EXCEPT ![tx] = @ + 1]
    /\ UNCHANGED <<row, pay, split, work, errand, seen, held, probed, floorOK, evictions, leaked, revoked>>

\* A mempool transaction nothing in the mempool builds on is dropped.
Evict(tx) ==
    /\ evictions < MaxEvictions
    /\ node[tx] = 0
    /\ \A c \in Outputs(tx) : ~SpentOnNode(c)
    /\ node' = [node EXCEPT ![tx] = -1]
    /\ evictions' = evictions + 1
    /\ UNCHANGED <<row, pay, split, work, errand, seen, held, probed, floorOK, leaked, revoked>>

\* send_raw_transaction: accepted when every input is there and unspent; a
\* transaction the node already knows is as good as accepted.
Accepted(tx) ==
    \/ Known(tx)
    \/ \A c \in Inputs(tx) : Known(c.tx) /\ c \in Outputs(c.tx) /\ ~SpentOnNode(c)

Sent(tx) == [node EXCEPT ![tx] = IF Known(tx) THEN @ ELSE 0]

-----------------------------------------------------------------------------
(* tick_vault_utxos: list_unspent, then one ledger transaction *)

ListUnspent ==
    /\ work.step = "idle"
    /\ seen = Nothing
    /\ seen' = {[coin |-> c, confs |-> node[c.tx], amount |-> AmountOf(c)] : c \in Unspent}
    /\ UNCHANGED <<node, row, pay, split, work, errand, held, probed, floorOK, evictions, leaked, revoked>>

SyncedRow_ForgetsSpender(r, obs) ==
    [r EXCEPT !.confs = obs.confs, !.amount = IF r.state = "none" THEN obs.amount ELSE @,
              !.state = CASE r.state = "Reserved" -> "Reserved"
                          [] OTHER -> IF obs.confs >= MinConfirmations THEN "Available" ELSE "Unconfirmed"]

\* The upsert of sync_vault_utxos: a reserved coin stays reserved, a coin our
\* own transaction spent stays spent, anything else follows the node.
SyncedRow(r, obs) ==
    [r EXCEPT !.confs = obs.confs, !.amount = IF r.state = "none" THEN obs.amount ELSE @,
              !.state = CASE r.state = "Reserved" -> "Reserved"
                          [] r.state = "Spent" /\ (r.spentBy # NoTx \/ r.by # NoRequest) -> "Spent"
                          [] OTHER -> IF obs.confs >= MinConfirmations THEN "Available" ELSE "Unconfirmed"]

SyncVaultUtxos ==
    /\ seen # Nothing
    /\ LET at(c) == {o \in seen : o.coin = c}
       IN  row' = [c \in Coins |->
             CASE at(c) # {} -> SyncedRow(row[c], CHOOSE o \in at(c) : TRUE)
               [] /\ at(c) = {}
                  /\ row[c].state \in {"Available", "Unconfirmed"}
                  /\ ~\E s \in Splits : c.tx = SplitTx(s) /\ split[s].state = "Broadcast" ->
                        [row[c] EXCEPT !.state = "Spent"]
               [] OTHER -> row[c]]
    /\ seen' = Nothing
    /\ UNCHANGED <<node, pay, split, work, errand, held, probed, floorOK, evictions, leaked, revoked>>

\* tick_validate_zero_conf_parents for one parent.
ValidateZeroConfParent(r) ==
    LET c == Coin(PayTx(r), 1)
    IN  /\ work.step = "idle" /\ seen = Nothing
        /\ ZeroConfDepth > 0
        /\ row[c].state = "Unconfirmed" /\ row[c].confs = 0 /\ ChangeOutpoint(c)
        /\ row' = [row EXCEPT ![c].hold = ~Known(PayTx(r))]
        /\ UNCHANGED <<node, pay, split, work, errand, seen, held, probed, floorOK, evictions, leaked, revoked>>

-----------------------------------------------------------------------------
(* build_and_broadcast_payout, one action per ledger call *)

\* rederive_plan and the signers' answers: the mature pool when it can pay,
\* the bridge's own young change too when it cannot.
PlanPayout(r, inputs) ==
    LET total(S) == MapThenSumSet(LAMBDA c : row[c].amount, S)
        young    == total(AvailableVaultUtxos) < PayAmount
    IN  /\ work.step = "idle" /\ seen = Nothing
        /\ pay[r].state = "none"
        /\ inputs \subseteq (AvailableVaultUtxos \cup (IF young THEN ZeroConfChange ELSE {}))
        /\ Cardinality(inputs) <= MaxInputs
        /\ total(inputs) >= PayAmount
        /\ \A c \in inputs : total(inputs \ {c}) < PayAmount
        /\ work' = [step |-> "planned", request |-> r, inputs |-> inputs]
        /\ UNCHANGED <<node, row, pay, split, errand, seen, held, probed, floorOK, evictions, leaked, revoked>>

\* The row predicate of reserve_vault_utxos.
Reservable(c) ==
    /\ ~LiveSplitClaim(c)
    /\ \/ row[c].state = "Available"
       \/ c \in ZeroConfChange

\* reserve_vault_utxos: all of them or none.
ReserveVaultUtxos ==
    /\ work.step = "planned"
    /\ IF \A c \in work.inputs : Reservable(c)
       THEN /\ row' = [c \in Coins |-> IF c \in work.inputs
                            THEN [row[c] EXCEPT !.state = "Reserved", !.by = work.request] ELSE row[c]]
            /\ work' = [work EXCEPT !.step = "reserved"]
       ELSE row' = row /\ work' = NoWork
    /\ UNCHANGED <<node, pay, split, errand, seen, held, probed, floorOK, evictions, leaked, revoked>>

RecordPayoutBuilt ==
    LET total == MapThenSumSet(LAMBDA c : row[c].amount, work.inputs)
    IN  /\ work.step = "reserved"
        /\ pay' = [pay EXCEPT ![work.request] =
                     [state |-> "Built", inputs |-> work.inputs, change |-> total - PayAmount,
                      confs |-> 0, depth |-> 0]]
        /\ work' = [work EXCEPT !.step = "built"]
        /\ UNCHANGED <<node, row, split, errand, seen, held, probed, floorOK, evictions, leaked, revoked>>

RecordPayoutSigned ==
    /\ work.step = "built"
    /\ pay' = [pay EXCEPT ![work.request].state = "Signed"]
    /\ work' = [work EXCEPT !.step = "signed"]
    /\ UNCHANGED <<node, row, split, errand, seen, held, probed, floorOK, evictions, leaked, revoked>>

\* A refused broadcast leaves the payout Signed for the operator.
SendPayout ==
    LET tx == PayTx(work.request)
    IN  /\ work.step = "signed"
        /\ IF Accepted(tx)
           THEN node' = Sent(tx) /\ work' = [work EXCEPT !.step = "sent"]
           ELSE node' = node /\ work' = NoWork
        /\ UNCHANGED <<row, pay, split, errand, seen, held, probed, floorOK, evictions, leaked, revoked>>

\* The deepest still-unconfirmed payout change among a payout's inputs.
ParentDepth(inputs) ==
    Max({0} \cup {pay[c.tx.n].depth : c \in {d \in inputs : ChangeOutpoint(d) /\ pay[d.tx.n].confs = 0}})

\* record_goldcoin_payout_broadcast: also records the change outpoint.
PayoutBroadcast(r) ==
    [pay EXCEPT ![r].state = "Broadcast",
                ![r].depth = IF pay[r].change > 0 THEN ParentDepth(pay[r].inputs) + 1 ELSE 0]

RecordPayoutBroadcast ==
    /\ work.step = "sent"
    /\ pay' = IF pay[work.request].state = "Signed" THEN PayoutBroadcast(work.request) ELSE pay
    /\ work' = NoWork
    /\ UNCHANGED <<node, row, split, errand, seen, held, probed, floorOK, evictions, leaked, revoked>>

\* recover_stuck_goldcoin_payout: the exact persisted plan, signed again.  Its
\* inputs must still be reserved for it (get_goldcoin_payout_inputs).
RetryPayout(r) ==
    /\ "operator" \in Events
    /\ pay[r].state = "Signed"
    /\ \A c \in pay[r].inputs : row[c].state = "Reserved" /\ row[c].by = r
    /\ Accepted(PayTx(r))
    /\ node' = Sent(PayTx(r))
    /\ pay' = PayoutBroadcast(r)
    /\ UNCHANGED <<row, split, work, errand, seen, held, probed, floorOK, evictions, leaked, revoked>>

\* update_goldcoin_payout_confirmations: never downwards.
UpdatePayoutConfirmations(r) ==
    /\ work.step = "idle" /\ seen = Nothing
    /\ pay[r].state = "Broadcast" /\ Known(PayTx(r))
    /\ node[PayTx(r)] > pay[r].confs \/ node[PayTx(r)] >= MinConfirmations
    /\ pay' = [pay EXCEPT ![r].confs = Max({@, node[PayTx(r)]}),
                          ![r].state = IF node[PayTx(r)] >= MinConfirmations THEN "Confirmed" ELSE @]
    /\ UNCHANGED <<node, row, split, work, errand, seen, held, probed, floorOK, evictions, leaked, revoked>>

\* goldcoin_completion_confirmed_in: the request settles, and every coin held
\* for it is spent by its payout.
CompletePayout(r) ==
    /\ work.step = "idle" /\ seen = Nothing
    /\ pay[r].state = "Confirmed"
    /\ pay' = [pay EXCEPT ![r].state = "Completed"]
    /\ row' = [c \in Coins |-> IF row[c].by = r
                  THEN [row[c] EXCEPT !.state = "Spent", !.spentBy = PayTx(r)] ELSE row[c]]
    /\ UNCHANGED <<node, split, work, errand, seen, held, probed, floorOK, evictions, leaked, revoked>>

\* The daemon dies: what it held in memory is gone.
Crash ==
    /\ "crash" \in Events
    /\ work # NoWork \/ seen # Nothing \/ held # {} \/ \E q \in Refunds : errand[q] # NoErrand
    /\ leaked' = IF work.step = "reserved" THEN leaked \cup work.inputs ELSE leaked
    /\ work' = NoWork /\ seen' = Nothing /\ held' = {} /\ errand' = [q \in Refunds |-> NoErrand]
    /\ UNCHANGED <<node, row, pay, split, probed, floorOK, evictions, revoked>>

-----------------------------------------------------------------------------
(* Refunds: execute_refund, one action per ledger call and await *)

\* The coins select picks of the mature pool; they are reserved by a later
\* ledger call.  A call in hand that is given up gives way to the next.
PlanRefund(q, inputs) ==
    LET total(S) == MapThenSumSet(LAMBDA c : row[c].amount, S)
    IN  /\ pay[q].state = "none"
        /\ inputs \subseteq AvailableVaultUtxos
        /\ Cardinality(inputs) <= MaxInputs
        /\ total(inputs) >= PayAmount
        /\ \A c \in inputs : total(inputs \ {c}) < PayAmount
        /\ errand' = [errand EXCEPT ![q] = [step |-> "planned", inputs |-> inputs]]
        /\ UNCHANGED <<node, row, pay, split, work, seen, held, probed, floorOK, evictions, leaked, revoked>>

\* The row predicate of begin_goldcoin_refund: unlike Reservable it does not
\* look at the splits' claims.
Takeable(c) == row[c].state = "Available"

\* begin_goldcoin_refund: the refund row, its inputs and their reservation, all
\* or nothing.
BeginRefund(q) ==
    LET inputs == errand[q].inputs
        total  == MapThenSumSet(LAMBDA c : row[c].amount, inputs)
    IN  /\ errand[q].step = "planned"
        /\ errand' = [errand EXCEPT ![q] = NoErrand]
        /\ IF pay[q].state = "none" /\ \A c \in inputs : Takeable(c)
           THEN /\ pay' = [pay EXCEPT ![q] = [state |-> "Built", inputs |-> inputs,
                                             change |-> total - PayAmount, confs |-> 0, depth |-> 0]]
                /\ row' = [c \in Coins |-> IF c \in inputs
                              THEN [row[c] EXCEPT !.state = "Reserved", !.by = q] ELSE row[c]]
                /\ revoked' = revoked \cup {s \in Splits : LiveSplit(s) /\ split[s].source \in inputs}
           ELSE UNCHANGED <<pay, row, revoked>>
        /\ UNCHANGED <<node, split, work, seen, held, probed, floorOK, evictions, leaked>>

\* record_goldcoin_refund_signed, of the plan just begun or of the persisted
\* one: a Built row is signed by whichever call finds it.
SignRefund(q) ==
    /\ pay[q].state = "Built"
    /\ pay' = [pay EXCEPT ![q].state = "Signed"]
    /\ UNCHANGED <<node, row, split, work, errand, seen, held, probed, floorOK, evictions, leaked, revoked>>

\* rebroadcast: the stored bytes, as often as the operator calls.
SendRefund(q) ==
    /\ pay[q].state = "Signed"
    /\ Accepted(PayTx(q))
    /\ node' = Sent(PayTx(q))
    /\ errand' = [errand EXCEPT ![q] = [step |-> "sent", inputs |-> {}]]
    /\ UNCHANGED <<row, pay, split, work, seen, held, probed, floorOK, evictions, leaked, revoked>>

\* record_goldcoin_refund_broadcast: the reserved inputs are spent, here and not
\* at the terminal state as a payout's are.
RecordRefundBroadcast(q) ==
    /\ errand[q].step = "sent"
    /\ errand' = [errand EXCEPT ![q] = NoErrand]
    /\ IF pay[q].state = "Signed"
       THEN /\ pay' = [pay EXCEPT ![q].state = "RefundBroadcast"]
            /\ row' = [c \in Coins |-> IF row[c].by = q
                          THEN [row[c] EXCEPT !.state = "Spent", !.spentBy = PayTx(q)] ELSE row[c]]
       ELSE UNCHANGED <<pay, row>>
    /\ UNCHANGED <<node, split, work, seen, held, probed, floorOK, evictions, leaked, revoked>>

\* tick_glc_refund_confirmations of one refund.
ConfirmRefund(q) ==
    /\ work.step = "idle" /\ seen = Nothing
    /\ pay[q].state = "RefundBroadcast"
    /\ node[PayTx(q)] >= MinConfirmations
    /\ pay' = [pay EXCEPT ![q].state = "Refunded"]
    /\ UNCHANGED <<node, row, split, work, errand, seen, held, probed, floorOK, evictions, leaked, revoked>>

-----------------------------------------------------------------------------
(* Splits: run_shaping_tick and split-vault-utxo share every step *)

\* Which new split run_shaping_tick or split-vault-utxo may start.
SplitCandidate(c) ==
    /\ c \in AvailableVaultUtxos
    /\ row[c].amount >= 2
    /\ ~\E s \in Splits : split[s].state \notin {"none", "Abandoned"} /\ split[s].source = c
    /\ MatureTotal - row[c].amount >= PendingObligations
    /\ floorOK

\* The automatic tick also waits for the pool and for earlier chunks; the
\* operator's command does not.
ShapingDue ==
    /\ Cardinality(AvailableVaultUtxos) + Cardinality(ZeroConfChange) < TargetCount
    /\ ~\E c \in Coins : row[c].state = "Unconfirmed" /\ c.tx.kind = "split"
                          /\ split[c.tx.n].state \in {"Broadcast", "Confirmed"} /\ ~split[c.tx.n].missing

\* execute_fresh_split up to record_vault_utxo_split_built.
BuildSplit(s, c) ==
    /\ split[s].state = "none"
    /\ \A t \in Splits : t < s => split[t].state # "none"
    /\ SplitCandidate(c)
    /\ ShapingDue \/ "operator" \in Events
    /\ split' = [split EXCEPT ![s].state = "Built", ![s].source = c]
    /\ UNCHANGED <<node, row, pay, work, errand, seen, held, probed, floorOK, evictions, leaked, revoked>>

\* sign_and_broadcast_built_split up to record_vault_utxo_split_signed; the
\* signers re-read the row and the floor.
SignSplit(s) ==
    /\ split[s].state = "Built"
    /\ row[split[s].source].state = "Available"
    /\ MatureTotal >= PendingObligations
    /\ floorOK
    /\ split' = [split EXCEPT ![s].state = "Signed"]
    /\ held' = held \cup {s}
    /\ UNCHANGED <<node, row, pay, work, errand, seen, probed, floorOK, evictions, leaked, revoked>>

\* resume_pending_split of a Built row that may no longer be signed.
ReleaseBuiltSplit(s) ==
    /\ split[s].state = "Built"
    /\ \/ row[split[s].source].state # "Available"
       \/ MatureTotal < PendingObligations
       \/ ~floorOK
    /\ split' = [split EXCEPT ![s].state = "Abandoned"]
    /\ UNCHANGED <<node, row, pay, work, errand, seen, held, probed, floorOK, evictions, leaked, revoked>>

\* The send of a process that signed or resumed the split: no ledger read in
\* between, so an abandon of the row does not stop it.
SendSplit(s) ==
    /\ s \in held
    /\ node' = IF Accepted(SplitTx(s)) THEN Sent(SplitTx(s)) ELSE node
    /\ held' = held \ {s}
    /\ UNCHANGED <<row, pay, split, work, errand, seen, probed, floorOK, evictions, leaked, revoked>>

\* resume_pending_split of a Signed row the node does not know.
ResumeSignedSplit(s) ==
    /\ split[s].state = "Signed" /\ s \notin held
    /\ ~Known(SplitTx(s))
    /\ row[split[s].source].state = "Available"
    /\ floorOK
    /\ held' = held \cup {s}
    /\ UNCHANGED <<node, row, pay, split, work, errand, seen, probed, floorOK, evictions, leaked, revoked>>

ChunkRow(s, r) ==
    IF r.state = "none" THEN [NoRow EXCEPT !.state = "Unconfirmed", !.amount = row[split[s].source].amount \div 2]
    ELSE r

\* record_vault_utxo_split_broadcast, by whoever finds the node knows the
\* transaction: the sender, the next tick's resume or heal_split_bookkeeping.
RecordSplitBroadcast(s) ==
    LET src == split[s].source
    IN  /\ split[s].state = "Signed"
        /\ Known(SplitTx(s))
        /\ row[src].state \in {"Available", "Spent"}
        /\ split' = [split EXCEPT ![s].state = "Broadcast", ![s].txid = TRUE]
        /\ row' = [c \in Coins |->
             CASE c = src -> [row[c] EXCEPT !.state = "Spent",
                                            !.spentBy = IF @ = NoTx THEN SplitTx(s) ELSE @]
               [] c # src /\ c.tx = SplitTx(s) -> ChunkRow(s, row[c])
               [] OTHER -> row[c]]
        /\ UNCHANGED <<node, pay, work, errand, seen, held, probed, floorOK, evictions, leaked, revoked>>

\* Pass 1 of maintain_broadcast_splits.
ConfirmSplit(s) ==
    /\ split[s].state = "Broadcast"
    /\ \E c \in Coins : c.tx = SplitTx(s) /\ row[c].confs >= MinConfirmations
    /\ split' = [split EXCEPT ![s].state = "Confirmed", ![s].missing = FALSE]
    /\ UNCHANGED <<node, row, pay, work, errand, seen, held, probed, floorOK, evictions, leaked, revoked>>

\* drive_one_broadcast_split: known clears the flag, absent sends the stored
\* bytes again.
DriveBroadcastSplit(s) ==
    /\ split[s].state = "Broadcast"
    /\ split[s].missing \/ ~Known(SplitTx(s))
    /\ node' = IF Accepted(SplitTx(s)) THEN Sent(SplitTx(s)) ELSE node
    /\ split' = [split EXCEPT ![s].missing = ~Accepted(SplitTx(s))]
    /\ UNCHANGED <<row, pay, work, errand, seen, held, probed, floorOK, evictions, leaked, revoked>>

\* maintain_broadcast_splits: a known transaction of an abandoned split.
ReadoptSplit(s) ==
    /\ split[s].state = "Abandoned" /\ split[s].txid /\ split[s].watched
    /\ Known(SplitTx(s))
    /\ split' = [split EXCEPT ![s].state = "Broadcast", ![s].missing = FALSE]
    /\ UNCHANGED <<node, row, pay, work, errand, seen, held, probed, floorOK, evictions, leaked, revoked>>

\* READOPT_WATCH_SECS run out.
WatchExpires(s) ==
    /\ "expiry" \in Events
    /\ split[s].state = "Abandoned" /\ split[s].txid /\ split[s].watched
    /\ split' = [split EXCEPT ![s].watched = FALSE]
    /\ UNCHANGED <<node, row, pay, work, errand, seen, held, probed, floorOK, evictions, leaked, revoked>>

\* split-vault-utxo --abandon: a Built row needs no probe, signed bytes need
\* the node not to know them.
ProbeSplit(s) ==
    /\ "operator" \in Events
    /\ LiveSplit(s) /\ probed[s] = "no"
    /\ split[s].state = "Built" \/ ~Known(SplitTx(s))
    /\ probed' = [probed EXCEPT ![s] = IF split[s].state = "Built" THEN "built" ELSE "absent"]
    /\ UNCHANGED <<node, row, pay, split, work, errand, seen, held, floorOK, evictions, leaked, revoked>>

\* abandon_vault_utxo_split with the txid the probe was about.
AbandonSplit(s) ==
    LET known == split[s].txid \/ probed[s] = "absent"
    IN  /\ probed[s] # "no"
        /\ probed' = [probed EXCEPT ![s] = "no"]
        /\ IF LiveSplit(s)
           THEN /\ split' = [split EXCEPT ![s].state = "Abandoned", ![s].txid = known]
                /\ row' = [c \in Coins |->
                     IF known /\ c.tx = SplitTx(s) /\ row[c].state \in {"Unconfirmed", "Available"}
                     THEN [row[c] EXCEPT !.state = "Spent"] ELSE row[c]]
                /\ revoked' = IF split[s].state = "Built" THEN revoked ELSE revoked \cup {s}
           ELSE UNCHANGED <<split, row, revoked>>
        /\ UNCHANGED <<node, pay, work, errand, seen, held, floorOK, evictions, leaked>>

\* The reserve moves above or below what the split's fee needs.
MoveFloor ==
    /\ "floor" \in Events
    /\ floorOK' = ~floorOK
    /\ UNCHANGED <<node, row, pay, split, work, errand, seen, held, probed, evictions, leaked, revoked>>

-----------------------------------------------------------------------------
Next ==
    \/ \E tx \in Txs : Mine(tx) \/ Evict(tx)
    \/ ListUnspent \/ SyncVaultUtxos
    \/ \E r \in Requests \ Refunds :
        \/ ValidateZeroConfParent(r)
        \/ \E inputs \in SUBSET Coins : PlanPayout(r, inputs)
        \/ RetryPayout(r) \/ UpdatePayoutConfirmations(r) \/ CompletePayout(r)
    \/ ReserveVaultUtxos \/ RecordPayoutBuilt \/ RecordPayoutSigned \/ SendPayout
    \/ RecordPayoutBroadcast
    \/ Crash
    \/ \E q \in Refunds :
        \/ \E inputs \in SUBSET Coins : PlanRefund(q, inputs)
        \/ BeginRefund(q) \/ SignRefund(q) \/ SendRefund(q) \/ RecordRefundBroadcast(q)
        \/ ConfirmRefund(q)
    \/ \E s \in Splits :
        \/ \E c \in Coins : BuildSplit(s, c)
        \/ SignSplit(s) \/ ReleaseBuiltSplit(s) \/ SendSplit(s) \/ ResumeSignedSplit(s)
        \/ RecordSplitBroadcast(s) \/ ConfirmSplit(s) \/ DriveBroadcastSplit(s)
        \/ ReadoptSplit(s) \/ WatchExpires(s) \/ ProbeSplit(s) \/ AbandonSplit(s)
    \/ MoveFloor

Spec == Init /\ [][Next]_vars

-----------------------------------------------------------------------------
(* Properties *)

RowStates == {"none", "Available", "Unconfirmed", "Reserved", "Spent"}
PayStates == {"none", "Built", "Signed", "Broadcast", "Confirmed", "Completed", "RefundBroadcast", "Refunded"}
SplitStates == {"none", "Built", "Signed", "Broadcast", "Confirmed", "Abandoned"}

\* Every variable has its type; a Reserved row names the request that holds
\* it (the table's CHECK) and a transaction in hand names real coins.
TypeOK ==
    /\ node \in [Txs -> -1..MinConfirmations]
    /\ \A c \in Coins : /\ row[c].state \in RowStates
                        /\ row[c].by \in Requests \cup {NoRequest}
                        /\ row[c].state = "Reserved" => row[c].by # NoRequest
    /\ \A r \in Requests : pay[r].state \in PayStates /\ pay[r].inputs \subseteq Coins
    /\ \A s \in Splits : split[s].state \in SplitStates /\ split[s].source \in Coins \cup {NoCoin}
    /\ work.inputs \subseteq Coins
    /\ held \subseteq Splits

\* No two payouts or refunds spend the same coin, and neither spends the source
\* of a split whose claim was not revoked: whatever the two processes, the
\* node and crashes do, the service signs two spends of one coin only where a
\* signed split was abandoned, or a refund began against a split built since
\* the refund read the pool (reserve_vault_utxos, begin_goldcoin_refund,
\* live_split_claim_exclusion, sync_vault_utxos).
NeverSpentTwice ==
    /\ \A r, q \in Requests : r # q => pay[r].inputs \cap pay[q].inputs = {}
    /\ \A r \in Requests, s \in Splits \ revoked :
        LiveSplit(s) \/ split[s].state = "Confirmed" => split[s].source \notin pay[r].inputs
    /\ \A s, t \in Splits \ revoked :
        s # t /\ split[s].state \in {"Signed", "Broadcast", "Confirmed"}
              /\ split[t].state \in {"Signed", "Broadcast", "Confirmed"} => split[s].source # split[t].source

\* What available_vault_utxos offers as mature is unspent on the node, unless a
\* revoked split's transaction surfaced: no stale list_unspent answer and no
\* late bookkeeping puts a spent coin back into the pool.
OfferedCoinsAreUnspent ==
    \A c \in AvailableVaultUtxos :
        SpentOnNode(c) => \E s \in revoked : split[s].source = c

\* The payouts and refunds whose coins are booked as spent.
Closed == {"Completed", "RefundBroadcast", "Refunded"}

\* A coin is Reserved exactly while a payout not completed or a refund not
\* broadcast that has it as an input, the daemon's payout in hand or a dead
\* attempt holds it: nothing frees a held coin and nothing else holds one.
HoldsAreExplained ==
    {c \in Coins : row[c].state = "Reserved"} =
        (IF work.step = "reserved" THEN work.inputs ELSE {})
        \cup (UNION {pay[r].inputs : r \in {q \in Requests : pay[q].state \notin Closed}})
        \cup {c \in leaked : pay[row[c].by].state \notin Closed}

\* The chain of payouts not yet mined that a transaction builds on.
Lineage[n \in 0..Cardinality(Requests)] ==
    [tx \in Txs |-> IF n = 0 \/ node[tx] # 0 \/ tx.kind # "pay" THEN 0
                    ELSE 1 + Max({0} \cup {Lineage[n - 1][c.tx] : c \in Inputs(tx)})]

\* However late confirmations are recorded, an unconfirmed payout never builds
\* on more unconfirmed payouts than the configured depth
\* (unconfirmed_ancestor_depth).
UnconfirmedChainBounded ==
    \A tx \in Txs : Lineage[Cardinality(Requests)][tx] <= ZeroConfDepth + 1

\* Everything the pool promises at every moment.
PoolSound ==
    /\ TypeOK
    /\ NeverSpentTwice
    /\ OfferedCoinsAreUnspent
    /\ HoldsAreExplained
    /\ UnconfirmedChainBounded

\* Money moves one way: the inputs of a payout or a refund never change once
\* built, a completed payout and a refund on its way stay so, and a coin one of
\* our transactions spent is never offered again.
SpendingStep ==
    /\ \A r \in Requests : pay[r].state # "none" =>
        /\ pay'[r].inputs = pay[r].inputs
        /\ pay[r].state \in Closed => pay'[r].state \in Closed
    /\ \A c \in Coins : row[c].state = "Spent" /\ row[c].spentBy # NoTx => row'[c].state = "Spent"
=============================================================================
