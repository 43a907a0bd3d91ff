-------------------------- MODULE RobinhoodContract --------------------------
(***************************************************************************)
(* The reserve contract on the Robinhood chain                             *)
(* (contracts/src/GlcRobinhoodBridge.sol). One action per external         *)
(* function; a revert is the absence of a step. Arithmetic is Solidity     *)
(* 0.8's: a subtraction below zero reverts, so it is a guard.              *)
(*                                                                         *)
(* Whether a quorum has signed a message is not tracked: any two signers   *)
(* of any epoch may have signed anything, at any time, for any epoch they  *)
(* held and any governance nonce. What _authorize, _governance and         *)
(* _consumeRequest make of such a message is.                              *)
(***************************************************************************)
EXTENDS Integers, FiniteSets, Sums

CONSTANTS
  Accounts,        \* addresses that may be signers or guardians
  FirstSigners,    \* the signers and guardians of the constructor
  FirstGuardians,
  Routes,          \* routes an instance uses
  RequestIds,      \* request ids that quorums name
  Amounts,         \* token amounts that calls carry
  LimitSets,       \* limit records governance may install, the first included
  FirstLimits,
  Treasury,        \* TRUE when the deployment names a treasury
  CanonicalScale,  \* CANONICAL_SCALE
  RollingWindow,   \* ROLLING_WINDOW_SECONDS
  Successors,      \* contracts that identify as successors of this one
  Funding,         \* what the operator sends the contract at deployment
  MaxDeposits, MaxNonce, MaxEpoch, MaxClock  \* bounds

Inbound == {"RhnToGlc", "RhnToSol"}
Outbound == {"GlcToRhn", "SolToRhn"}

\* _validateSignerTriple, _validateGuardianTriple: three different addresses.
Triples == {t \in SUBSET Accounts : Cardinality(t) = 3}

\* _requireCanonicalAmount.
CanonicalAmount(a) == a > 0 /\ a % CanonicalScale = 0

\* _validateLimits.
ValidLimits(lim) ==
  /\ lim.inboundMin > 0 /\ lim.outboundMin > 0
  /\ lim.inboundMin <= lim.inboundMax /\ lim.outboundMin <= lim.outboundMax
  /\ lim.inboundMax <= lim.inboundRolling /\ lim.outboundMax <= lim.outboundRolling
  /\ \A f \in DOMAIN lim : lim[f] % CanonicalScale = 0

LimitFields ==
  {"inboundMin", "inboundMax", "inboundRolling",
   "outboundMin", "outboundMax", "outboundRolling", "protectedMin"}

ASSUME RhcRolesAssumption == FirstSigners \in Triples /\ FirstGuardians \in Triples
ASSUME RhcRoutesAssumption == Routes \subseteq Inbound \cup Outbound
ASSUME RhcLimitsAssumption ==
  /\ LimitSets \subseteq [LimitFields -> Nat]
  /\ FirstLimits \in LimitSets /\ ValidLimits(FirstLimits)
ASSUME RhcAmountsAssumption ==
  /\ Amounts \subseteq Nat /\ Funding \in Nat
  /\ CanonicalScale \in Nat \ {0} /\ RollingWindow \in Nat \ {0} /\ Treasury \in BOOLEAN
ASSUME RhcBoundsAssumption ==
  MaxDeposits \in Nat /\ MaxNonce \in Nat /\ MaxEpoch \in Nat /\ MaxClock \in Nat

VARIABLES
  signers, signerEpoch, guardians,
  depositsPaused, payoutsPaused,
  routeEnabled,     \* _routeEnabled
  governanceNonce,
  limits,           \* _limits
  inboundWindow, outboundWindow,
  obligations,      \* _obligations; obligationCount is the size of its domain
  outstandingCount, outstandingPrincipal,
  executed,         \* _executedRequest, by action and request id
  migration,        \* "none", "committed" or "migrated", with the successor
  balance,          \* TOKEN.balanceOf(address(this))
  clock,            \* block.timestamp
  payouts           \* history: the payouts made, with their times

roleVars == <<signers, signerEpoch, guardians>>
gateVars == <<depositsPaused, payoutsPaused, routeEnabled, limits>>
windowVars == <<inboundWindow, outboundWindow>>
liabilityVars == <<obligations, outstandingCount, outstandingPrincipal>>
vars == <<roleVars, gateVars, windowVars, liabilityVars, governanceNonce,
          executed, migration, balance, clock, payouts>>

Indices == 0 .. MaxDeposits - 1
NoObligation == [status |-> "None", route |-> "none", amount |-> 0]
NoMigration == [state |-> "none", successor |-> "none"]
ObligationCount == Cardinality({i \in Indices : obligations[i].status # "None"})

\* The constructor: everything closed, both windows starting now.
Init ==
  /\ signers = FirstSigners /\ signerEpoch = 0 /\ guardians = FirstGuardians
  /\ depositsPaused = TRUE /\ payoutsPaused = TRUE
  /\ routeEnabled = [r \in Routes |-> FALSE]
  /\ governanceNonce = 0
  /\ limits = FirstLimits
  /\ inboundWindow = [start |-> 0, total |-> 0]
  /\ outboundWindow = [start |-> 0, total |-> 0]
  /\ obligations = [i \in Indices |-> NoObligation]
  /\ outstandingCount = 0 /\ outstandingPrincipal = 0
  /\ executed = {}
  /\ migration = NoMigration
  /\ balance = Funding
  /\ clock = 0
  /\ payouts = {}

-----------------------------------------------------------------------------
(* What the external functions share.                                       *)

Migrated == migration.state = "migrated"

\* _requireRouteOpen: the pause overrides the route's own flag.
RouteOpen(route) ==
  /\ IF route \in Inbound THEN ~depositsPaused ELSE ~payoutsPaused
  /\ routeEnabled[route]

\* _authorize: in time, under the current epoch, by two different current
\* signers.
Authorized(epoch, expiry, by) ==
  /\ clock <= expiry
  /\ epoch = signerEpoch
  /\ Cardinality(by) = 2 /\ by \subseteq signers

\* The signatures a caller may come with.
Quorums == {q \in SUBSET Accounts : Cardinality(q) = 2}

SignedByAny ==
  \E epoch \in 0 .. signerEpoch, expiry \in {MaxClock}, by \in Quorums :
    Authorized(epoch, expiry, by)

\* _governance: the nonce and the epoch are the contract's own.
Governance(nonce) ==
  /\ nonce = governanceNonce
  /\ nonce < MaxNonce
  /\ \E by \in Quorums : Authorized(signerEpoch, MaxClock, by)
  /\ governanceNonce' = nonce + 1

\* _consumeRequest.
ConsumeRequest(action, id) ==
  /\ <<action, id>> \notin executed
  /\ executed' = executed \cup {<<action, id>>}

\* _consumeWindow: the window restarts at the first use after it ran out.
ConsumedWindow(window, amount) ==
  IF clock - window.start >= RollingWindow
  THEN [start |-> clock, total |-> amount]
  ELSE [window EXCEPT !.total = @ + amount]

\* _requireSpendableReserve.
SpendableReserve(amount) ==
  /\ balance >= amount
  /\ balance - amount >= limits.protectedMin
  /\ balance - amount - limits.protectedMin >= outstandingPrincipal

\* _releaseLiability.
ReleaseLiability(amount) ==
  /\ outstandingCount >= 1 /\ outstandingPrincipal >= amount
  /\ outstandingCount' = outstandingCount - 1
  /\ outstandingPrincipal' = outstandingPrincipal - amount

-----------------------------------------------------------------------------
(* Transfers.                                                               *)

\* deposit: the next obligation, pending, and counted as owed.
Deposit(route, amount) ==
  LET index == ObligationCount
      window == ConsumedWindow(inboundWindow, amount)
  IN
  /\ migration.state = "none"
  /\ index < MaxDeposits
  /\ route \in Inbound /\ RouteOpen(route)
  /\ CanonicalAmount(amount)
  /\ amount >= limits.inboundMin /\ amount <= limits.inboundMax
  /\ window.total <= limits.inboundRolling
  /\ inboundWindow' = window
  /\ balance' = balance + amount
  /\ obligations' = [obligations EXCEPT ![index] =
                       [status |-> "Pending", route |-> route, amount |-> amount]]
  /\ outstandingCount' = outstandingCount + 1
  /\ outstandingPrincipal' = outstandingPrincipal + amount
  /\ UNCHANGED <<roleVars, gateVars, outboundWindow, governanceNonce, executed,
                 migration, clock, payouts>>

\* executePayout.
ExecutePayout(route, id, amount) ==
  LET window == ConsumedWindow(outboundWindow, amount) IN
  /\ ~Migrated
  /\ route \in Outbound /\ RouteOpen(route)
  /\ CanonicalAmount(amount)
  /\ amount >= limits.outboundMin /\ amount <= limits.outboundMax
  /\ SpendableReserve(amount)
  /\ SignedByAny
  /\ ConsumeRequest("payout", id)
  /\ window.total <= limits.outboundRolling
  /\ outboundWindow' = window
  /\ balance' = balance - amount
  /\ payouts' = payouts \cup {[id |-> id, amount |-> amount, at |-> clock]}
  /\ UNCHANGED <<roleVars, gateVars, liabilityVars, inboundWindow, governanceNonce,
                 migration, clock>>

\* executeTreasuryWithdraw: to the immutable treasury, both directions paused.
ExecuteTreasuryWithdraw(id, amount) ==
  /\ ~Migrated
  /\ Treasury
  /\ depositsPaused /\ payoutsPaused
  /\ CanonicalAmount(amount)
  /\ SpendableReserve(amount)
  /\ SignedByAny
  /\ ConsumeRequest("treasury", id)
  /\ balance' = balance - amount
  /\ UNCHANGED <<roleVars, gateVars, liabilityVars, windowVars, governanceNonce,
                 migration, clock, payouts>>

\* Mutant: the close does not ask whether the obligation is still open.
Pending_Any(index) == obligations[index].status # "None"

\* The obligation exists and nothing has closed it.
Pending(index) == obligations[index].status = "Pending"

Close(index, status) ==
  obligations' = [obligations EXCEPT ![index].status = status]

\* executeRefund: depositor and amount are those of the obligation.
ExecuteRefund(id, index) ==
  LET amount == obligations[index].amount IN
  /\ ~Migrated
  /\ Pending(index)
  /\ SignedByAny
  /\ ConsumeRequest("refund", id)
  /\ Close(index, "Refunded")
  /\ ReleaseLiability(amount)
  /\ balance >= amount
  /\ balance' = balance - amount
  /\ UNCHANGED <<roleVars, gateVars, windowVars, governanceNonce, migration, clock, payouts>>

\* executeSettlement: no tokens move.
ExecuteSettlement(id, index) ==
  /\ ~Migrated
  /\ Pending(index)
  /\ SignedByAny
  /\ ConsumeRequest("settle", id)
  /\ Close(index, "Settled")
  /\ ReleaseLiability(obligations[index].amount)
  /\ UNCHANGED <<roleVars, gateVars, windowVars, governanceNonce, migration,
                 balance, clock, payouts>>

\* executeAbandonment: the principal stays and is owed to nobody.
ExecuteAbandonment(id, index) ==
  /\ ~Migrated
  /\ Pending(index)
  /\ SignedByAny
  /\ ConsumeRequest("abandon", id)
  /\ Close(index, "Abandoned")
  /\ ReleaseLiability(obligations[index].amount)
  /\ UNCHANGED <<roleVars, gateVars, windowVars, governanceNonce, migration,
                 balance, clock, payouts>>

-----------------------------------------------------------------------------
(* Guardians and governance.                                                *)

\* Mutant: a guardian's call sets both flags to what it says.
GuardianPause_Sets(account, deposits, outgoing) ==
  /\ account \in guardians
  /\ deposits \/ outgoing
  /\ depositsPaused' = deposits
  /\ payoutsPaused' = outgoing
  /\ UNCHANGED <<roleVars, routeEnabled, limits, windowVars, liabilityVars, governanceNonce,
                 executed, migration, balance, clock, payouts>>

\* guardianPause, also after a migration: it only ever closes.
GuardianPause(account, deposits, outgoing) ==
  /\ account \in guardians
  /\ deposits \/ outgoing
  /\ depositsPaused' = (depositsPaused \/ deposits)
  /\ payoutsPaused' = (payoutsPaused \/ outgoing)
  /\ UNCHANGED <<roleVars, routeEnabled, limits, windowVars, liabilityVars, governanceNonce,
                 executed, migration, balance, clock, payouts>>

\* setPaused: nothing reopens once a migration is committed.
SetPaused(deposits, outgoing) ==
  /\ ~Migrated
  /\ migration.state = "committed" => deposits /\ outgoing
  /\ Governance(governanceNonce)
  /\ depositsPaused' = deposits /\ payoutsPaused' = outgoing
  /\ UNCHANGED <<roleVars, routeEnabled, limits, windowVars, liabilityVars,
                 executed, migration, balance, clock, payouts>>

SetRouteEnabled(route, enabled) ==
  /\ ~Migrated
  /\ migration.state = "committed" => ~enabled
  /\ Governance(governanceNonce)
  /\ routeEnabled' = [routeEnabled EXCEPT ![route] = enabled]
  /\ UNCHANGED <<roleVars, depositsPaused, payoutsPaused, limits, windowVars, liabilityVars,
                 executed, migration, balance, clock, payouts>>

\* rotateSigners: a new epoch, even for the same three.
RotateSigners(triple) ==
  /\ ~Migrated
  /\ signerEpoch < MaxEpoch
  /\ Governance(governanceNonce)
  /\ signers' = triple /\ signerEpoch' = signerEpoch + 1
  /\ UNCHANGED <<guardians, gateVars, windowVars, liabilityVars,
                 executed, migration, balance, clock, payouts>>

RotateGuardians(triple) ==
  /\ ~Migrated
  /\ Governance(governanceNonce)
  /\ guardians' = triple
  /\ UNCHANGED <<signers, signerEpoch, gateVars, windowVars, liabilityVars,
                 executed, migration, balance, clock, payouts>>

SetLimits(lim) ==
  /\ ~Migrated
  /\ Governance(governanceNonce)
  /\ ValidLimits(lim)
  /\ limits' = lim
  /\ UNCHANGED <<roleVars, depositsPaused, payoutsPaused, routeEnabled, windowVars,
                 liabilityVars, executed, migration, balance, clock, payouts>>

\* commitMigration: to a contract that identifies as a successor.
CommitMigration(successor) ==
  /\ migration.state = "none"
  /\ depositsPaused /\ payoutsPaused
  /\ Governance(governanceNonce)
  /\ migration' = [state |-> "committed", successor |-> successor]
  /\ UNCHANGED <<roleVars, gateVars, windowVars, liabilityVars,
                 executed, balance, clock, payouts>>

\* Mutant: the count is looked at, the money is moved while it is not zero.
FinalizeMigration_IgnoresDebts ==
  /\ migration.state = "committed"
  /\ outstandingCount <= 1
  /\ Governance(governanceNonce)
  /\ migration' = [migration EXCEPT !.state = "migrated"]
  /\ balance' = 0
  /\ UNCHANGED <<roleVars, gateVars, windowVars, liabilityVars, executed, clock, payouts>>

\* finalizeMigration: the whole balance, once nobody is owed anything.
FinalizeMigration ==
  /\ migration.state = "committed"
  /\ outstandingCount = 0 /\ outstandingPrincipal = 0
  /\ Governance(governanceNonce)
  /\ migration' = [migration EXCEPT !.state = "migrated"]
  /\ balance' = 0
  /\ UNCHANGED <<roleVars, gateVars, windowVars, liabilityVars, executed, clock, payouts>>

\* vetoMigration: any one guardian, until the migration is final.
VetoMigration(account) ==
  /\ account \in guardians
  /\ migration.state = "committed"
  /\ migration' = NoMigration
  /\ UNCHANGED <<roleVars, gateVars, windowVars, liabilityVars, governanceNonce,
                 executed, balance, clock, payouts>>

\* Blocks go on; a window is compared with their timestamps.
Tick ==
  /\ clock < MaxClock
  /\ clock' = clock + 1
  /\ UNCHANGED <<roleVars, gateVars, windowVars, liabilityVars, governanceNonce,
                 executed, migration, balance, payouts>>

Next ==
  \/ \E route \in Routes, amount \in Amounts : Deposit(route, amount)
  \/ \E route \in Routes, id \in RequestIds, amount \in Amounts : ExecutePayout(route, id, amount)
  \/ \E id \in RequestIds, amount \in Amounts : ExecuteTreasuryWithdraw(id, amount)
  \/ \E id \in RequestIds, index \in Indices :
       \/ ExecuteRefund(id, index) \/ ExecuteSettlement(id, index)
       \/ ExecuteAbandonment(id, index)
  \/ \E account \in Accounts, deposits, outgoing \in BOOLEAN :
       GuardianPause(account, deposits, outgoing)
  \/ \E deposits, outgoing \in BOOLEAN : SetPaused(deposits, outgoing)
  \/ \E route \in Routes, enabled \in BOOLEAN : SetRouteEnabled(route, enabled)
  \/ \E triple \in Triples : RotateSigners(triple) \/ RotateGuardians(triple)
  \/ \E lim \in LimitSets : SetLimits(lim)
  \/ \E successor \in Successors : CommitMigration(successor)
  \/ \E account \in Accounts : VetoMigration(account)
  \/ FinalizeMigration
  \/ Tick

Spec == Init /\ [][Next]_vars

-----------------------------------------------------------------------------
(* Properties.                                                              *)

Statuses == {"None", "Pending", "Settled", "Refunded", "Abandoned"}

\* Every word of the contract's storage keeps its type.
TypeOK ==
  /\ signers \in Triples /\ signerEpoch \in 0 .. MaxEpoch /\ guardians \in Triples
  /\ depositsPaused \in BOOLEAN /\ payoutsPaused \in BOOLEAN
  /\ routeEnabled \in [Routes -> BOOLEAN]
  /\ governanceNonce \in 0 .. MaxNonce
  /\ limits \in [LimitFields -> Nat]
  /\ inboundWindow \in [start : Nat, total : Nat]
  /\ outboundWindow \in [start : Nat, total : Nat]
  /\ obligations \in [Indices -> [status : Statuses, route : Routes \cup {"none"}, amount : Nat]]
  /\ outstandingCount \in Nat /\ outstandingPrincipal \in Nat
  /\ balance \in Nat /\ clock \in Nat

\* While the contract holds the reserve it can give every depositor who is
\* still owed money that money back, whatever was paid out, withdrawn or
\* reconfigured in between (_requireSpendableReserve, finalizeMigration).
DepositorsCovered == balance >= outstandingPrincipal

Open == {i \in Indices : obligations[i].status = "Pending"}

\* The two liability counters are exactly the pending obligations, so the gate
\* of finalizeMigration and the floor of every payout count the right debts.
LiabilityIsPending ==
  /\ outstandingCount = Cardinality(Open)
  /\ outstandingPrincipal = SumOver([i \in Indices |-> obligations[i].amount], Open)

\* The outbound window counts every payout made since it started and no other,
\* through restarts of the window and changes of the limits (_consumeWindow).
WindowIsExact ==
  outboundWindow.total =
    SumOver([p \in payouts |-> p.amount], {p \in payouts : p.at >= outboundWindow.start})

\* The reserve is sound: depositors are covered, the liability counters and
\* the outbound window count exactly what they stand for.
ReserveSound ==
  /\ TypeOK
  /\ DepositorsCovered
  /\ LiabilityIsPending
  /\ WindowIsExact

\* No call, except the quorum's own change of the limits or its migration,
\* makes the reserve lose the headroom above floor and debts that it had.
HeadroomKept ==
  /\ limits' = limits /\ migration'.state # "migrated"
  /\ balance >= limits.protectedMin + outstandingPrincipal
  => balance' >= limits.protectedMin + outstandingPrincipal'

\* A single key can only close: without a quorum's nonce or request consumed,
\* no direction reopens, no route or role changes, no token leaves, and a
\* migration can only be called off.
LoneKeyOnlyCloses ==
  governanceNonce' = governanceNonce /\ executed' = executed =>
    /\ depositsPaused => depositsPaused'
    /\ payoutsPaused => payoutsPaused'
    /\ UNCHANGED <<routeEnabled, limits, roleVars>>
    /\ balance' >= balance
    /\ migration' \in {migration, NoMigration}

\* What no call of the contract may do: eat into the headroom above floor and
\* debts, or open, move or reconfigure anything on a single key's word
\* (_requireSpendableReserve, guardianPause, vetoMigration).
CallsAreConfined == [][HeadroomKept /\ LoneKeyOnlyCloses]_vars

Outcomes ==
  [i \in Indices |->
     CASE obligations[i].status = "Settled" -> {"paid"}
       [] obligations[i].status = "Refunded" -> {"returned"}
       [] obligations[i].status = "Abandoned" -> {"kept"}
       [] OTHER -> {}]

Promise == INSTANCE DepositOutcome WITH
  Deposits <- Indices, Ways <- {"paid", "returned", "kept"}, outcome <- Outcomes

\* The contract implements DepositOutcome: an obligation ends once, and no
\* second refund, settlement or abandonment of it succeeds.
ObligationEndsOnce == Promise!Spec
=============================================================================
