# GLC reserve bridge: TLA+ models and proofs

This directory models the GLC reserve bridge: a Solana program that holds a
reserve of the GLC token, a Goldcoin multisig vault that holds the native coin,
an EVM contract on Robinhood Chain that holds a third reserve, a service that
moves obligations between the three, and the tools with which people configure,
govern and repair it.

## The system and its parts

| part | state | operations | interacts with |
|------|-------|------------|----------------|
| Solana program (`programs/glc-reserve-bridge`, `shared`) | limits, pause flags, key set and epoch, deposit claims, withdrawal obligations and records, treasury policy, queued governance, reserve balance | release, deposit, completion, treasury and refund withdrawal, admin, rotation, policy, upgrade | attestation signers (threshold proofs over claims), token program, service |
| Robinhood contract (`contracts`) | signers, guardians, pauses, routes, limits and windows, obligations, liability counters, migration | deposit, payout, settlement, refund, abandonment, treasury withdrawal, governance by quorum, guardian pause and cancel | settlement service, governance tools |
| Ledger (`service/src/ledger`) | `bridge_requests`, `reserve_ledger`, payout and refund rows, holds, attestation records, vault coins, Robinhood transactions and observations, rebalances, settings, in SQLite with a schema ladder | one write transaction per function | daemon, `glc-admin` and the admin API, concurrently |
| Orchestrator and daemons | nothing durable | ticks: index, reconcile, admit, pay, poll, auto-resume, shape the vault, settle on Robinhood | ledger, three chains' nodes, signers |
| Goldcoin side (`service/src/goldcoin`) | vault, coins, splits | deposits, selection, payouts, refunds, splits, recovery | Goldcoin node |
| Solana side (`service/src/solana`) | cursors | folding obligations, refunds, completions, manual refunds, reconciliation of one request | Solana node |
| Robinhood side (`service/src/robinhood`) | transaction rows and nonces, indexed blocks | authorization, broadcast, replacement, receipts, indexing, recovery | EVM node, KMS signers |
| Admission (`admission`, `wallet_window`, `rapid_burst`, `routes`, `fold`) | windows over the request history, switches | verdicts | folds, resumes, public API |
| Amounts and rate (`fees`, `amount_conversion`, `bridge_rate`, `min_transfer`) | price history | conversions, smoothing | every quote |
| Signers (`signing`, `robinhood/auth`) | keys, policy | re-derive, refuse or sign; collect a quorum | ledger, chains |
| People's tools (`admin_api`, `glc-admin`, treasury and governance tools, configuration) | files, plans, audit rows | switches, reviews, rebalances, custody transitions, governance documents, edits, start | everything above |

What is hard in this system: a ledger shared by a daemon and by operators'
commands, each of which reads a chain, decides, signs, sends and records in
separate steps; transactions that may land late, be dropped, replaced, or be
forgotten by the node that knew them; reorganisations on both sides of the
confirmation depth; counters (`reserved_liquidity`, `pending_obligations`, the
cached balance, liabilities) updated by a dozen functions; approvals that outlive
the keys, policy or limits they were given under; kills between two statements;
and deadlines. What makes each part correct: a claim is paid at most once, only
with a current quorum's approval and above its floor; a deposit ends once, paid
or returned; counters stand for what they count; a coin is spent once; what
landed on a chain ends up in the ledger; and what people do takes effect as they
read and approved it.

## Modules

| module | models | state and actions |
|--------|--------|-------------------|
| `Limits`, `Validation`, `Attestation` | `limits.rs`, `validation.rs`, `verification.rs` | operators |
| `RollingVolume` | `limits.rs` with its callers | one window and its clock |
| `UpgradeTimelock` | `instructions/upgrade_timelock.rs` | the upgrade authority, the queued proposal, the deployed buffer |
| `ReserveProgram` | every other instruction | accounts as variables, one action per instruction; `signed` holds every message (with its epoch) that a threshold has ever signed, so an approval may be used late, twice, or never |
| `GlcToSol` | Goldcoin-to-Solana requests | `req` (a row with its refund and attestation columns), `reserve` (the SolanaReserve row), `orch` (the release being made; lost at a crash), the deposits and releases on the chains |
| `SolToGlc` | Solana-to-Goldcoin requests | `req` (a row with its payout and refund rows), `book` (the GoldcoinReserve row), `orch`, `op` (one command per operator), obligations and every transaction signed so far |
| `Intake` | folding, late binding and admission on all routes | request rows with their windows and holds, one reserve, route switches, clock |
| `RobinhoodContract` | `GlcRobinhoodBridge.sol` | storage as variables, one action per external function |
| `RobinhoodSettlement` | `ledger/robinhood_tx.rs`, `robinhood/{settlement,submitter,refund,treasury_withdraw,reconcile_settlement}.rs` | requests, transaction rows, the reserve row, each process's work in hand, and a chain with a mempool, mined transactions and a finality mark |
| `RobinhoodIndexer` | `robinhood/{indexer,recover_deposit}.rs`, `ledger/robinhood.rs` | indexed blocks, cursor, observations, a chain that reorganises at any moment, between the reads of one tick too |
| `VaultPool` | the vault's coins over time | coin rows, payouts, Goldcoin refunds, splits, the node, the work the daemon (`work`), the operator (`held`) and the refund handlers (`errand`) hold between two ledger calls |
| `VaultCoins` | coin selection, change, fan-out, verification and assembly | operators |
| `SigningPolicies` | what signers re-derive and refuse, quorum collection | operators |
| `Amounts`, `RateBook` | conversions and bounds; feeds, windows and smoothing | operators; a clock and a price history |
| `LedgerSchema` | `ledger/schema.rs` | the shape of a database and the position on the ladder; `Kill` between statements |
| `AdminControls` | the admin API, its guards and audit | switches, reserves, requests, audit rows, an action in hand per identity |
| `Custody` | rebalances, custody transitions, in-flight operations, reconciliation | requests, approvals, evidence, books, the chain's balance |
| `TreasuryTools` | the three offline tools | plans, signatures, the operator's keypair, destination accounts and chain state that move |
| `RobinhoodGovernance` | governance documents and sessions | domains' readings and approvals, the landed call, the contract |
| `ServiceConfig` | loading, editing, preflight and start | files, sessions, deployment, what the daemon has written |
| `DepositOutcome` | the promise all routes share | how each deposit has ended |
| `Sums` | sums over finite sets, for the accounts of the program, the contract and the ledger | operators |
| `ReserveProgramProofs`, `GlcToSolProofs`, `SolToGlcProofs`, `RobinhoodContractProofs`, `RobinhoodSettlementProofs`, `RollingVolumeProofs`, `VaultPoolProofs`, `SumsProofs` | proofs about the module of that name | |

A ledger function is one write transaction, hence one action. A tick or a
command that crosses a chain call is a sequence of actions through a variable
that holds the work in hand (`orch`, `op`, `work`), which a crash empties. Names
are those of the source. A verdict that another module models is an input here
(`\E`), so every verdict is explored. `RobinhoodSettlement` takes the contract by
what one operation sees of it; the contract itself is `RobinhoodContract`, and
both implement `DepositOutcome`.

`DepositOutcome` is the abstract specification: a deposit ends at most once, paid
on its destination, returned, or (in the contract) kept by abandonment, and an
outcome is never undone. `RobinhoodSettlement!EndsOnce` and
`RobinhoodContract!ObligationEndsOnce` are refinements, `INSTANCE DepositOutcome
WITH outcome <- Outcomes`, where `Outcomes` reads the chain (executed for good)
and not the ledger.

Abstractions worth knowing. Amounts are small naturals except in `Amounts`,
where widths matter and are parameters. A claim, a document or a transaction is
the record of the fields it binds. In `GlcToSol` and `SolToGlc` the Goldcoin
payout has one transaction; `VaultPool` has its inputs and change. Definitions
whose names end in `_` and a word are mutants of the definition that follows
them and take part in no specification.

## Suites

`MCComponents`, `MCRequests` and `MCOperations` check many small instances in
one run. A behaviour of a suite is a behaviour of one instance: the variable
`part` names it and never changes, and the suite's variables stand for the
instance's, in the order of its declaration. Each property says, for every part, that the instance's own property
holds. For the pure algorithms the initial states are the inputs and the
property compares the operator with its reference definition.

## Runs

| run | instance | shows |
|-----|----------|-------|
| `reserve_settlement` | two keys, one deposit, two obligations, replays, limit changes | at most one release per deposit; an obligation is completed or refunded, once and in full; the balance is accounted for and every outflow attested; the floor held when funds leave |
| `reserve_governance` | two admins, three keys, two treasuries, a timelock of one second | keys and allowlist change only through a proposal that stood its whole delay; a queued rotation stays executable for the epoch it ends; a quorum can always be formed; a treasury withdrawal went where its signers' allowlist version allowed |
| `glc_to_sol_races` | 1 request, nearly every disturbance, both transfer bounds moving, 2 sends | releases only for final deposits and for the net; never a submitted release and a refund; finality is one-way; reservations with a deadline expire |
| `sol_to_glc_races` | 1 deposit, 2 operators, commands stopped anywhere, drops, forgotten statuses, reorgs, holds, closures, retries | paid or refunded, never both; the ledger claims no outcome the chains do not have; no refund transaction without its row; a completed obligation is settled in the end |
| `requests` | 2 requests in each Solana direction; 2 deposits over five routes with windows, bursts and switches; late deposits | counters equal what they stand for, promises are covered, refunds fit together; payouts to a wallet keep their window and held deposits wait for their decision; what is advertised as open is admitted. (The wallet window and the burst window are equal and take one deposit each, so the wallet park never decides alone; the advertised capacity is compared without windows) |
| `robinhood_settlement` | 1 request of each direction, daemon and one command, one replacement, one reorganisation, stops, pauses, parks, resumes, refunds, a signer rotation | completion means execution that cannot be reorganised away; the reserve row and the mempool are accounted for; nonces and quorums never change; a deposit ends once |
| `robinhood_liveness` | 1 payout, lost transactions, a replacement, a foreign nonce, one reorganisation | it is finalized, reverted or put before a human; the one exception is a payout recorded Included whose block was dropped and which no chain holds any more (`Stranded`): no tick sends it again |
| `robinhood_contract` | 4 accounts, 2 deposits, 2 limit records, rotations, pauses, treasury, migration | depositors stay covered; liability and window counters are exact; headroom is kept; a lone key can only close; obligations end once |
| `components` | bounded inputs of the algorithms; rate book, rolling volume and schema ladder; the indexer with every event and one reorganisation, and with two reorganisations | selection finds every payable set and keeps its budgets; signers sign what they re-derive; proofs mean quorums; conversions are exact; rates come from whole windows; at most twice the limit in a window; indexed deposits are the chain's, but for blocks a tick read in part; a killed upgrade recovers |
| `operations` | 22 instances: switches, reviews, rebalances, custody, the offline tools, Robinhood governance, configuration and start, program upgrades, and the vault's pool (two payouts with crashes; a payout against splits by daemon and operator with evictions; three payouts over unconfirmed change; a payout, a split and a Goldcoin refund) | no coin is spent twice or offered while spent, holds are explained, the unconfirmed chain is bounded and spending is final; an upgrade stood its whole delay; the rest in the properties' comments in `MCOperations` |
| `paid_and_refunded`, `landed_refund` | | counterexamples, below |

Bounds. `Events` names the disturbances an instance explores, so that instances
with several requests stay small while single-request instances take all; each
event is in some passing run. Two sends or one replacement are the least that
make two transactions of one operation coexist; two operators suffice for one
command to overtake another; a chain of three payouts is the least that exceeds
a depth of one. Amounts are chosen so that either request fits and both do not.
Clocks run just past the longest deadline of the instance. The schema ladder
starts from versions 8, 15, 21, 25, 30 and 36, between them every step above 8.
No run uses `SYMMETRY`: most check temporal or action properties, for which it
is not sound. Deadlock is not checked: every instance has terminal states, where all
requests are settled, refunded or closed or all bounds are used up.

Fairness. `GlcToSol!Fairness`: time passes and the daemon's tick keeps running
its phases. `SolToGlc!FairSpec`: a tick ends, and every tick polls each confirmed
payout, whatever happened between two ticks, hence strong fairness of the poll.
`RobinhoodSettlement!Fairness`: the settlement loop takes each due row again and
again and finishes what it has begun, the chain mines what its nodes hold and
buries what it mined; nothing is assumed of the clock, of operators or of
faults. `SolToGlc!RerunSpec` serves `landed_refund` only: operators rerun the
refund command and give it time to confirm again and again.

## Where the code and its documentation disagree

Two disagreements are runs that TLC refutes:

* `paid_and_refunded`. `begin_refund` reads the request, awaits the chain and
  then records a refund without looking at the request again; resumed in
  between, the deposit is paid and refunded. `robinhood_settlement` excludes this
  one interleaving (`RefundBeginning`, lifted by the event `race`).
* `landed_refund`. `execute_refund` builds its plan, which insists that the
  obligation is still Pending, before it looks for a landed broadcast. A refund
  that landed while its command timed out can therefore never be recorded.

The following definitions state a sentence of the repository that the code does
not keep; adding one to a cfg of its module yields the counterexample:

* `GlcToSol!PendingWithinReserved` (`docs/05-reserve-accounting.md:36`): refunding
  a request parked after finality leaves its pending obligation for ever.
* `GlcToSol!EveryReservationExpires` (`docs/05-reserve-accounting.md:62`): a
  reservation recreated for a late deposit has no deadline, and a reorg leaves it
  waiting for ever.
* `RobinhoodSettlement!SignaturesMatchPayload` (`ledger/robinhood_tx.rs:147-149`): a
  retried authorization recomputes epoch and expiry while the row keeps the old
  ones.
* `RobinhoodSettlement!SignedIsEventuallySent` (`robinhood/settlement.rs:1091-1092`):
  no tick picks up a row left Signed by a stop.
* `RobinhoodIndexer!PromotionIsSound` (`robinhood/indexer.rs:346-348`, "whole
  ancestry ... canonical"): a reorganisation between the read of the logs (`391`)
  and the read of the cursor's hash (`521-525`) puts the cursor on a branch whose
  logs were never read, and logs flagged as removed are dropped (`402-416`) while
  the cursor still moves past their block, although the comment there says that
  nothing is lost by it. A deposit may be passed over, or promoted on a dead
  branch. `IndexedFaithfully` excepts exactly the blocks so read (`torn`).
* `GlcToSol!NeverReleasedAndRefunded` (`docs/09-runbook.md:1895`, a refund is
  refused on "any sign a Solana release has begun"): a tick that dies between the send and the record of its signature
  leaves the request SourceFinalized; if `set_limit` moves either bound past the
  net then, the next tick parks the request, it is refunded, and the release
  lands once the bounds are back.
* `RobinhoodGovernance!ScopedChange`: a landed document rewrites the whole record, so
  it lifts a guardian's pause or loses a change that came in between.
* `Custody!ExplainedOnce` (`ledger/mod.rs:8285-8300`): an in-flight operation explains
  a drop at every tick.
* `AdminControls!EveryMutationRecorded`: the audit row of an executed Goldcoin refund
  is written after the fact (`admin_api/glc_refund_exec.rs:371`).
* `Intake!RefusedIsNeverPaid`: a burst hold masks a refusal (`robinhood/fold.rs:305`).

Others were met while modelling, in short. Requests: closing a parked Goldcoin
deposit keeps its reservation; a Goldcoin refund ignores the stored attestation
record (`ledger/mod.rs:9913`); `tick_release_settlements` never reads the pause
flag; a landed release whose signature the node forgot is refused by `prove`
(`solana/reconcile_request.rs:418`); a rotation cancelled and proposed again
within one second has the same eta (`governance.rs:259-263`); `mined_height` is
never corrected after a reorg (`ledger/mod.rs:11806`); the out-of-band refund takes
no hold (`ledger/manual_refund.rs:143`); `available_capacity` does not subtract open
Solana refunds (`ledger/mod.rs:2227`); two Goldcoin requests to one wallet can park
behind each other (`ledger/mod.rs:3570-3600`); a reconciliation reads the reserve
before an await and writes it after (`orchestrator.rs:1264`,
`reconciliation/mod.rs:208`), and so undoes the debit of a refund confirmed in
between. Robinhood: a row is Finalized before
its effect is verified (`settlement.rs:1535-1542`); an Included row reorganised
away is never sent again (`1170`); a receipt is compared by its block number only
(`ledger/robinhood_tx.rs:1225`, where the comment above speaks of a different
block), so a transaction mined again at the same height passes; `park_for_foreign_contract` keeps its
reservation (`ledger/mod.rs:4508`). Vault: reserve and record_built are two
transactions (`orchestrator.rs:1886-1898`); abandoning a Signed split leaves its
source Available (`ledger/mod.rs:11057-11163`); `begin_goldcoin_refund` takes a coin
that a live split has claimed (`10227-10231`), so that coin is signed twice; only the first threshold signers
are asked (`signing/goldcoin_vault.rs:558`). Schema: the v26 and v38 rebuilds are
outside a transaction (`schema.rs:3672-3818`, `2991-3007`), and a fresh database
killed mid-ladder cannot be opened again (`97-100`). Custody: confirming a
rebalance after a reconcile tick counts it twice (`ledger/mod.rs:12466-12521`); a
stop between Finalized and confirm leaves it open (`treasury_withdraw.rs:577-597`);
`on_reverted` writes Executed and then Failed in two calls (`625`), and an
operator who confirms between them books a withdrawal that paid nothing
(`Custody!BookedWasPaid` speaks of what the settlement service closed). Controls: a
closed route outranks an empty reserve, so the guarded unpause succeeds over an
empty reserve while a switch is off (`admission.rs:415-433`, `guard.rs:218-258`);
`guard.rs:214-217` says that switches are deliberately no refusal. Tools:
`glc-treasury-withdraw` checks the destination's mint and token program when it
plans, and neither the extensions nor the admin key at all, so what passes its
checks may still be refused for a rotated epoch, a signer who is not the admin or
a destination that changed; `ToolAgreesWithProgram` states both directions.
Configuration: concurrent edits may lose an update (`fees/edit.rs:243-245`).
Amounts: `max_gross_for_net_at_bps` reports Overflow when only its estimate
overflows (`amount_conversion.rs:471-475`).

## Proofs

TLAPS proves the following for every value of the constants that satisfies the
modules' `ASSUME`s: amounts, bounds and delays are naturals, sets of requests,
deposits and keys are finite where something is summed over them, the pause
scopes and routes are those of the code. What else a theorem assumes is said
with it.

Sums. Every account (a balance, a liability counter, a rolling window, a
reservation) is `SumOver(f, S)` of the module `Sums`. `SumsProofs!SumRemove` is
the law that makes these accounts provable: a sum over a finite set is any member
plus the sum over the rest, whatever order the fold picks its members in. The
provers have no induction over sets, so each law is proved by a minimal
counterexample: strict inclusion of finite sets is well founded, so among the
subsets for which the law fails one is minimal, and that one cannot fail. A new
member, a part of a set and a union (`SumAdd`, `SumMonotone`, `SumUnion`) follow,
and `SumMove`: when one entry of a table changes its value, its membership or
both, the sum moves by the entry's old and new share, which is how the ledger
keeps every counter.

`ReserveProgram`:

* `TypeCorrect`: `TypeOK` is inductive as it stands; it contains that the
  reserve never goes below zero, which rests on `enforce_protected_minimum`
  being checked in every instruction that pays.
* `ReleasedOnce`: from `TypeOK` and the fact that only settlement instructions
  touch the claims.
* `ObligationsSettledOnce`: needs, beside the property, that a refund record's
  reference is an existing obligation in state Refunded, so that a second refund
  or a completion finds it not Pending.
* `FloorNeverBroken`: an action property, instruction by instruction.
* `TokensExplained`: balance and records move together. The proof has one step
  per record kind, each a use of `SumAdd`; that the set of records is finite
  belongs to the invariant, because nothing bounds it.
* `GovernancePromises`, `ChangesAnnounced`: the inductive part says that a queued
  rotation is for the present epoch, has usable keys and the eta of its
  proposal (`RotationQueued`), the same for a queued policy (`PolicyQueued`), that
  the active keys are usable (`KeysUsable`) and that every version a withdrawal
  can name is in the log (`PolicyLogged`). Without `RotationQueued` an execution
  could install a threshold above the number of keys: the program checks keys at
  proposal only.

`GlcToSol`:

* `Linked`: the inductive invariant `IInv`. Neither "a landed release is for a
  final deposit" nor "never both" is inductive alone: a release that is attested
  or in flight must already belong to a finalized request and be for its net
  (`ReleasesLinked`), and a row's state must determine which of signature and
  refund it may carry (`RowsLinked`). Each action has a lemma; most follow from
  `RowStep`, the general fact about a transaction that rewrites one row and
  keeps its finality and net.
* `ReleasedIsFinal`, `NeverBoth` and `FinalityKeptForEver` follow.
* `CountersExact`: `reserved_liquidity` and `pending_obligations` are the sums over
  the requests that hold and owe them. Which transaction owes the counters what
  is decided by the note of a parked row (a late deposit that found no capacity
  holds nothing, and neither a refund nor finality can meet it), so the invariant
  adds what a note says of its row (`RowsNoted`).
* `PromisesCovered`: reservations are granted against `reserve.balance`, a cache
  that a landed release lowers only when it is confirmed. The invariant says how
  far the cache may be wrong: by no more than the releases landed and not yet
  recorded, and with these the live reserve covers floor and reservations
  (`Covered`), while limits move, chains reorganise and ticks die. Two hypotheses,
  both needed: the treasury may withdraw what is promised, because the program
  knows the floor and not the reservations; and `[]NeverReleasedAndRefunded`,
  because a request refunded although its release landed frees its reservation
  without the cache ever being lowered. That hypothesis is about the behaviour
  and not about the constants: it is what `set_limit` can break, as said above,
  and every behaviour in which it happens to hold is covered.

`SolToGlc`:

* `Fitted`: the inductive invariant `IInv`. It says that a row's state determines
  its payout and its refund (`StateFits`), that a completion or a refund
  transaction exists only for a row that has got that far, and landed only if
  the obligation says so (`ChainFits`), and what the processes rely on between two
  of their steps: a completion in hand is for a confirmed payout, and a tracked
  refund signature exists (`ProcessesFit`). `StateFits` is the part that is easy to
  miss: it is why a payout row excludes every refund transaction, although no
  guard of the refund's later steps looks at the payout.
* `PaidNeverRefunded`, `OutcomesAreReal` and `RefundsRecorded` follow.
* `BooksExact`: both counters of the Goldcoin reserve row are the sum over the
  admitted requests not yet settled; a row is admitted exactly in the
  states from SourceFinalized to Settled (`AdvancedFits`). That
  completions are capped needs, beside the cap, that one in hand was taken below
  it (`QInv`).
* `RefundsAlwaysFit`: the open Solana refunds fit together above the protected
  minimum and the other direction's reservations. `begin_solana_refund` checks
  each against a cached balance that still counts refunds already landed, and
  subtracts the refunds of all open rows. The invariant that makes this enough is
  that the cache exceeds the live reserve by at most the refunds landed and not
  booked (`FInv`), which are among the open rows it subtracts; and that nothing is
  folded before its deposit arrived (`AInv`). A reconciliation holds its reading
  across an await, and the refunds booked meanwhile (`overlapped`) are counted
  again by its write; the invariant says the same of the reading in hand as of
  the cache, and the theorem allows exactly these refunds.

`RobinhoodContract`:

* `ReserveAlwaysSound`: solvency, exact liability counters and exact windows.
  Beside the property itself the invariant needs that every id below the counter
  has an obligation and none above (`Filled`), so that a deposit adds a new
  summand, and that every payout is recorded under the request it consumed
  (`PayoutsRecorded`).
* `CallsConfined`: an action property. No call lowers the headroom above floor and
  debts below zero, and one that spends neither a governance nonce nor a signed
  request only closes.
* `ObligationsRefine`: the contract implements `DepositOutcome`; initial states
  map to initial states, every call maps to one `End` or to a stutter.

`RobinhoodSettlement`:

* `BooksAlwaysFollowChain`, `NoncesNeverReused`. The invariant of the run is not
  inductive: what makes it true between two ledger calls is what each process
  has in hand. `WorkGood` says what a process may be about to do (an
  authorization not yet stored is for a row that is still unsigned; a broadcast
  in hand is of a stored version; a payout being authorized belongs to the
  daemon, and while it is unsigned its request is still SourceFinalized, so a
  park can be told apart from a send). `RowsGood` ties a row's state to its
  stored quorum, versions and receipt, and `RequestsGood` a request's state to
  its row. `SentAccounted` and `NonceUnique` hold for what is in the mempool and
  mined, so that a receipt is the receipt of the row's own operation, although it is
  compared by height only: a version mined again at the height of its old receipt
  is the same operation. A treasury withdrawal closes its rebalance in two ledger
  calls (`RebalanceExecuted`, then `ConfirmRebalance` or `FailRebalance`), with a
  stop between them. The
  counters of the reserve row are sums over requests and are moved by
  `SumRemove` one request at a time.
* `RhnFundsAssumption`: the initial reserve covers the payouts of all requests
  together. The ledger's balance is an unsigned counter; in the code it cannot
  underflow because admission reserves within capacity and the contract refuses
  to send what it does not hold. Both are outside this module (`Intake`,
  `RobinhoodContract`), and the assumption stands for them.
* `DepositsEndOnce`: the refinement of `DepositOutcome`, for every set of events and
  every behaviour in which no request is resumed while a refund of it is between
  its checks and its row (`[][~ResumesIntoRefund]_vars`); `paid_and_refunded` shows
  that this hypothesis is needed and that the code does not ensure it.
  The invariant it adds (`Exclusive`) says that from the moment a
  refund has been checked its request stays parked or being refunded and is not
  paid; every other guard of the two roads is then enough. A step ends at most
  one deposit because confirmations deepen one transaction at a time, and it
  undoes none because a reorganisation stays above the final mark.

`RollingVolume`:

* `BurstsBounded`: limits.rs charges a fixed bucket, and what that bounds in an
  arbitrary stretch of time is not obvious. The invariant remembers, after a
  bucket has closed, that the transfers of the last window before the present
  bucket are within one limit (`JustBefore`); a stretch that holds the newest
  transfer lies in the present bucket and in that time, hence two limits. It
  assumes a non-empty window and natural limits and amounts (`Configured`).

`VaultPool`, for any number of coins, requests and splits:

* `SpentOnce`, `OfferedUnspent`, `HoldsExplained`, `MoneyMovesOneWay`: all rest on
  one inductive invariant, `VInv`, about who holds which coin. A coin a request or a refund has
  taken (`reserved_by`) is Reserved until its holder has closed (a payout completed, a refund
  broadcast) and Spent after,
  and the inputs of a payout name that request as their holder (`HoldsFit`); hence
  no two of them share a coin, and `sync_vault_utxos`, which spares exactly the rows
  Reserved or spent by us, cannot free one. The daemon's work between two ledger
  calls is for a request without a payout row, and what it has reserved names that
  request (`WorkFits`); a crash there moves the coins to `leaked`. A split that is
  not revoked has a source no request has taken, shares it with no other such
  split, and once broadcast or confirmed its source is recorded as spent by us
  (`ClaimsFit`): while it is live `live_split_claim_exclusion` protects the source,
  and after confirmation, when that exclusion no longer sees the row, the recorded
  spender does. What the node or a sender has of a split was signed, and an abandon
  that knew a txid is a revocation (`SentFit`).
* A refund's handler plans, begins, signs, sends and records in calls of their own
  (`errand`). `BeginRefund` looks at the coin's state only, so it may take the source
  of a live split; that split is then revoked, and the refund is held to the same
  rules as a payout.
* The exception for revoked splits is the code's: signed bytes cannot be recalled,
  an abandon frees the source although a holder of the bytes may still send them,
  and a refund takes a source that is claimed. The pause flag that stops a refund
  is left out of this module, so refunds are explored with and without it.
* They assume `ConstantsOK` (no request has the id that stands for none, the depth
  is a natural), which the run `operations` evaluates on its instances.

Together, `CountersExact`, `PromisesCovered`, `BooksExact` and
`RefundsAlwaysFit` state for every instance what `ReserveBooksExact` of the run
`requests` checks on two requests, the cover under the hypotheses above; and the
four theorems about `VaultPool` state `SpendingIsFinal` and every part of
`PoolSound` of the run `operations` but `UnconfirmedChainBounded`.

Only model-checked: liveness (fairness and `ENABLED` are beyond this prover);
`UnconfirmedChainBounded` and the algorithms of `components`, which are recursive
over data; admission, custody, control plane, tools, governance documents,
configuration and the upgrade timelock.

## Not modelled

`PROJECT.json` lists every part with its status. Left out for good: views,
formatting and argument parsing of the HTTP APIs and of `glc-admin`; health,
metrics and alerts, which report on state they do not change; byte encodings,
hashing and key derivation, which model checking cannot reach and the
repository's vectors cover; the wire formats of price feeds, signers and RPC
nodes. The Goldcoin and Solana indexers are modelled by what they do to a
request; their cursors, heights and lag are not.

## Plan

1. `UpgradeTimelock!NoticedStep` and the counters of `Intake` as theorems.
2. The Goldcoin chain with heights, the indexer's lag and `mined_height`.
3. Composition: both Solana directions over one reserve row.
