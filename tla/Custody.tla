------------------------------- MODULE Custody -------------------------------
(***************************************************************************)
(* Moving reserve funds by hand: rebalance requests and custody            *)
(* transitions (ledger/mod.rs, glc-admin, admin_api.rs), the treasury      *)
(* withdrawal that the service itself executes on Robinhood                *)
(* (robinhood/treasury_withdraw.rs), and the reconciliation that compares  *)
(* the cached balance with the chain (reconciliation/mod.rs).              *)
(*                                                                         *)
(* A ledger call is one SQLite transaction and one action here.  What the  *)
(* code does in several (the check and the insert of a withdrawal, the     *)
(* promotion of its receipt and the two booking calls after it) is several *)
(* actions, with crashes, operators and other processes in between.        *)
(***************************************************************************)
EXTENDS Integers, FiniteSets, Sequences, SequencesExt

CONSTANTS
    Ids,            \* rebalance requests
    Transitions,    \* custody transitions
    Names,          \* operators
    Nobody,
    Refs,           \* references of transfers made with custody tooling
    NoRef,
    Procs,          \* glc-admin processes executing a withdrawal
    Directions,     \* reserves the instance moves funds of
    Kinds,          \* subset of {"Deposit", "Withdraw"}
    Required,       \* values of required_approvals
    Amount,         \* amount of every rebalance, in canonical units
    Start,          \* every reserve's first balance
    Floor,          \* protected_minimum + pending_obligations
    Tolerance,      \* reconciliation_tolerance
    MaxThefts,      \* bound: losses nobody authorised
    MaxTicks,       \* bound: reconciliation passes
    MaxCrashes,     \* bound: stops of the settling process
    Events          \* which of "theft", "unpause", "close", "aged" happen

VARIABLES
    chain,          \* the balances on chain
    book,           \* [total, paused]: reserve_ledger of each reserve
    rebalance,      \* rebalance_requests
    transition,     \* custody_transitions
    moved,          \* rebalance -> reference of its transfer, once it landed
    op,             \* robinhood_transactions of kind TreasuryWithdraw
    checked,        \* process -> the rebalance it found eligible, or Nobody
    todo,           \* operation -> booking calls the settler still has to make
    halted,         \* contract: depositsPaused and payoutsPaused
    thefts, ticks, crashes,
    explained       \* total of the drops a tick explained by operations in flight

onchain  == <<chain, halted, thefts>>
requests == <<rebalance, moved>>
settler  == <<op, checked, todo>>
bounds   == <<ticks, crashes>>
vars == <<onchain, book, requests, transition, settler, bounds, explained>>

Robinhood == "RobinhoodReserve"
Settler == "system:robinhood"   \* the actor the settling process logs
Operator == "operator"
NoRequest == [state |-> "none", direction |-> Robinhood, kind |-> "Withdraw",
              required |-> 1, approved |-> <<>>, ref |-> NoRef, closedBy |-> Nobody]
NoTransition == [state |-> "none", kind |-> "none", required |-> 1,
                 approved |-> <<>>, verifier |-> Nobody]

Init ==
    /\ chain = [d \in Directions |-> Start]
    /\ book = [d \in Directions |-> [total |-> Start, paused |-> FALSE]]
    /\ rebalance = [i \in Ids |-> NoRequest]
    /\ transition = [t \in Transitions |-> NoTransition]
    /\ moved = [i \in Ids |-> NoRef]
    /\ op = <<>>
    /\ checked = [p \in Procs |-> Nobody]
    /\ todo = <<>>
    /\ halted = FALSE
    /\ thefts = 0 /\ ticks = 0 /\ crashes = 0
    /\ explained = 0

-----------------------------------------------------------------------------
(* Rebalance requests *)

Signed(k) == IF k = "Deposit" THEN Amount ELSE -Amount

InState(i, states) == rebalance[i].state \in states
MoveTo(i, s) == rebalance' = [rebalance EXCEPT ![i].state = s]
Close(i, s, by) == rebalance' = [rebalance EXCEPT ![i].state = s, ![i].closedBy = by]

ProposeRebalance(i, d, k, n) ==
    /\ InState(i, {"none"})
    /\ rebalance' = [rebalance EXCEPT ![i] =
          [NoRequest EXCEPT !.state = "Proposed", !.direction = d, !.kind = k,
                            !.required = n]]
    /\ UNCHANGED <<onchain, book, moved, transition, settler, bounds, explained>>

WithApproval_CountsAgain(approved, who) == Append(approved, who)

\* An approver is a name, kept once.
WithApproval(approved, who) ==
    IF who \in ToSet(approved) THEN approved ELSE Append(approved, who)

ApproveRebalance(i, who) ==
    /\ InState(i, {"Proposed"})
    /\ LET approved == WithApproval(rebalance[i].approved, who)
       IN rebalance' = [rebalance EXCEPT
             ![i].approved = approved,
             ![i].state = IF Len(approved) >= rebalance[i].required
                          THEN "Approved" ELSE @]
    /\ UNCHANGED <<onchain, book, moved, transition, settler, bounds, explained>>

CloseRebalance(i, to, from) ==
    /\ "close" \in Events
    /\ InState(i, from)
    /\ MoveTo(i, to)
    /\ UNCHANGED <<onchain, book, moved, transition, settler, bounds, explained>>

RejectRebalance(i) == CloseRebalance(i, "Rejected", {"Proposed"})
CancelRebalance(i) == CloseRebalance(i, "Cancelled", {"Proposed", "Approved"})

\* ux_rebalance_tx_reference: a reference belongs to one request for ever.
RefIsFree(ref) == \A j \in Ids : rebalance[j].ref # ref

RecordExecuted(i, ref) ==
    /\ InState(i, {"Approved"})
    /\ RefIsFree(ref)
    /\ rebalance' = [rebalance EXCEPT ![i].state = "Executed", ![i].ref = ref]

\* The operator names the transfer; nothing compares it with the chain.
RecordRebalanceExecuted(i, ref) ==
    /\ RecordExecuted(i, ref)
    /\ UNCHANGED <<onchain, book, moved, transition, settler, bounds, explained>>

ConfirmRebalance(i, by) ==
    /\ InState(i, {"Executed"})
    /\ Close(i, "Confirmed", by)
    /\ book' = [book EXCEPT ![rebalance[i].direction].total =
                    @ + Signed(rebalance[i].kind)]

\* rebalance-confirm: the operator's word that the transfer landed; nothing
\* compares it with the chain or with the operation of a Robinhood withdrawal.
OperatorConfirms(i) ==
    /\ ConfirmRebalance(i, Operator)
    /\ UNCHANGED <<onchain, moved, transition, settler, bounds, explained>>

FailRebalance(i, by) ==
    /\ InState(i, {"Executed"})
    /\ Close(i, "Failed", by)

OperatorFails(i) ==
    /\ "close" \in Events
    /\ FailRebalance(i, Operator)
    /\ UNCHANGED <<onchain, book, moved, transition, settler, bounds, explained>>

-----------------------------------------------------------------------------
(* The world outside the ledger *)

\* Custody tooling executes an approved request: glc-rebalance-withdraw,
\* glc-treasury-withdraw, or a plain transfer into the reserve.
Transfer(i, ref) ==
    /\ InState(i, {"Approved", "Executed"})
    /\ moved[i] = NoRef
    /\ \A j \in Ids : moved[j] # ref
    /\ ~(rebalance[i].direction = Robinhood /\ rebalance[i].kind = "Withdraw")
    /\ InState(i, {"Executed"}) => rebalance[i].ref = ref
    /\ moved' = [moved EXCEPT ![i] = ref]
    /\ chain' = [chain EXCEPT ![rebalance[i].direction] = @ + Signed(rebalance[i].kind)]
    /\ UNCHANGED <<halted, thefts, book, rebalance, transition, settler, bounds, explained>>

Theft(d) ==
    /\ "theft" \in Events /\ thefts < MaxThefts
    /\ chain[d] >= Amount
    /\ thefts' = thefts + 1
    /\ chain' = [chain EXCEPT ![d] = @ - Amount]
    /\ UNCHANGED <<halted, book, requests, transition, settler, bounds, explained>>

HaltContract ==
    /\ Robinhood \in Directions
    /\ halted' = ~halted
    /\ UNCHANGED <<chain, thefts, book, requests, transition, settler, bounds, explained>>

-----------------------------------------------------------------------------
(* Reconciliation *)

InFlightStates == {"Broadcast", "Included", "Finalized"}

\* robinhood_outbound_in_flight_atomic: what left for the treasury and the
\* book has not been debited for.  A Finalized row stops counting when its
\* request is Confirmed or it has aged.
InFlight(d) ==
    IF d # Robinhood THEN 0
    ELSE Amount * Cardinality({o \in DOMAIN op :
            /\ op[o].state \in InFlightStates
            /\ op[o].state = "Finalized" =>
                 ~op[o].aged /\ rebalance[op[o].rebalance].state # "Confirmed"})

Least(a, b) == IF a < b THEN a ELSE b

Drop(d) == IF chain[d] < book[d].total THEN book[d].total - chain[d] ELSE 0
ExplainedDrop(d) == Least(Drop(d), InFlight(d))
Breach(d) == chain[d] < Floor \/ Drop(d) - ExplainedDrop(d) > Tolerance

Reconcile(d) ==
    /\ ticks < MaxTicks
    /\ ticks' = ticks + 1
    /\ explained' = explained + ExplainedDrop(d)
    /\ book' = [book EXCEPT ![d] = [total |-> chain[d], paused |-> @.paused \/ Breach(d)]]
    /\ UNCHANGED <<onchain, requests, transition, settler, crashes>>

Unpause(d) ==
    /\ "unpause" \in Events
    /\ book[d].paused
    /\ book' = [book EXCEPT ![d].paused = FALSE]
    /\ UNCHANGED <<onchain, requests, transition, settler, bounds, explained>>

Pause(d) ==
    /\ ~book[d].paused
    /\ \E t \in Transitions : transition[t].state = "Approved"
    /\ book' = [book EXCEPT ![d].paused = TRUE]
    /\ UNCHANGED <<onchain, requests, transition, settler, bounds, explained>>

-----------------------------------------------------------------------------
(* The Robinhood withdrawal *)

Operations(i) == {o \in DOMAIN op : op[o].rebalance = i}

\* treasury_withdrawal_identity: of the rebalance alone.
Identity(i, p) == <<i, "treasury">>

\* assess, the ledger's half: the request, and what stays in the book.
EligibleInLedger(i) ==
    /\ InState(i, {"Approved"})
    /\ rebalance[i].direction = Robinhood /\ rebalance[i].kind = "Withdraw"
    /\ book[Robinhood].total - Amount >= Floor

\* assess, the contract's half: paused both ways, and funded.
EligibleOnChain == halted /\ chain[Robinhood] >= Amount

\* begin, up to its first write: no operation yet, assessed, gate passed.
BeginChecks(p, i) ==
    /\ checked[p] = Nobody
    /\ Operations(i) = {}
    /\ EligibleInLedger(i)
    /\ EligibleOnChain
    /\ checked' = [checked EXCEPT ![p] = i]
    /\ UNCHANGED <<onchain, book, requests, transition, op, todo, bounds, explained>>

\* begin_robinhood_tx: created, or the row of that contract request id exists.
BeginInserts(p) ==
    /\ checked[p] # Nobody
    /\ LET i == checked[p]
           o == Identity(i, p)
       IN op' = IF o \in DOMAIN op THEN op
                ELSE [x \in DOMAIN op \cup {o} |->
                        IF x = o THEN [rebalance |-> i, state |-> "Authorizing",
                                       mined |-> "no", aged |-> FALSE]
                        ELSE op[x]]
    /\ checked' = [checked EXCEPT ![p] = Nobody]
    /\ UNCHANGED <<onchain, book, requests, transition, todo, bounds, explained>>

Advance(o, from, to) ==
    /\ op[o].state = from
    /\ op' = [op EXCEPT ![o].state = to]

\* collect_quorum and record_robinhood_authorization: at once or on a later run.
Authorize(o) ==
    /\ Advance(o, "Authorizing", "Authorized")
    /\ UNCHANGED <<onchain, book, requests, transition, checked, todo, bounds, explained>>

\* tick_broadcast: signed and sent under a nonce of its own.
Broadcast(o) ==
    /\ Advance(o, "Authorized", "Broadcast")
    /\ UNCHANGED <<onchain, book, requests, transition, checked, todo, bounds, explained>>

\* executeTreasuryWithdraw: paused both ways, funded, never executed before.
Mine(o) ==
    /\ op[o].state = "Broadcast" /\ op[o].mined = "no"
    /\ LET paid == halted /\ chain[Robinhood] >= Amount
       IN /\ op' = [op EXCEPT ![o].mined = IF paid THEN "paid" ELSE "reverted"]
          /\ chain' = IF paid THEN [chain EXCEPT ![Robinhood] = @ - Amount] ELSE chain
    /\ UNCHANGED <<halted, thefts, book, requests, transition, checked, todo,
                   bounds, explained>>

OwnRef(o) == <<"hash", o>>
Owes(o, calls) == [x \in DOMAIN todo \cup {o} |-> IF x = o THEN calls ELSE todo[x]]

\* poll_receipt: a revert is parked and its request failed, in further calls.
PollReverted(o) ==
    /\ op[o].mined = "reverted"
    /\ Advance(o, "Broadcast", "ManualReview")
    /\ todo' = Owes(o, IF InState(op[o].rebalance, {"Approved"})
                       THEN <<"execute", "fail">> ELSE <<"fail">>)
    /\ UNCHANGED <<onchain, book, requests, transition, checked, bounds, explained>>

PollIncluded(o) ==
    /\ op[o].mined = "paid"
    /\ Advance(o, "Broadcast", "Included")
    /\ UNCHANGED <<onchain, book, requests, transition, checked, todo, bounds, explained>>

\* At depth: Finalized is written first, the booking follows.
Promote(o) ==
    /\ Advance(o, "Included", "Finalized")
    /\ todo' = Owes(o, <<"execute", "confirm">>)
    /\ UNCHANGED <<onchain, book, requests, transition, checked, bounds, explained>>

\* The next call of on_finalized or on_reverted; an error drops the rest.
Book(o) ==
    /\ o \in DOMAIN todo /\ todo[o] # <<>>
    /\ LET i == op[o].rebalance
           call == Head(todo[o])
       IN \/ /\ \/ call = "execute" /\ RecordExecuted(i, OwnRef(o)) /\ UNCHANGED book
                \/ call = "confirm" /\ ConfirmRebalance(i, Settler)
                \/ call = "fail" /\ FailRebalance(i, Settler) /\ UNCHANGED book
             /\ todo' = Owes(o, Tail(todo[o]))
          \/ /\ ~InState(i, IF call = "execute" THEN {"Approved"} ELSE {"Executed"})
             /\ todo' = Owes(o, <<>>)
             /\ UNCHANGED <<rebalance, book>>
    /\ UNCHANGED <<onchain, moved, transition, op, checked, bounds, explained>>

\* Calls not made yet are never made: the row is terminal and not polled again.
Crash ==
    /\ crashes < MaxCrashes
    /\ crashes' = crashes + 1
    /\ todo' = [o \in DOMAIN todo |-> <<>>]
    /\ checked' = [p \in Procs |-> Nobody]
    /\ UNCHANGED <<onchain, book, requests, transition, op, ticks, explained>>

\* UNRESOLVED_BROADCAST_INCIDENT_SECS pass.
Age(o) ==
    /\ "aged" \in Events
    /\ op[o].state = "Finalized" /\ ~op[o].aged
    /\ op' = [op EXCEPT ![o].aged = TRUE]
    /\ UNCHANGED <<onchain, book, requests, transition, checked, todo, bounds, explained>>

-----------------------------------------------------------------------------
(* Custody transitions *)

UnchangedButTransition ==
    UNCHANGED <<onchain, book, requests, settler, bounds, explained>>
TransitionTo(t, from, to) ==
    /\ transition[t].state \in from
    /\ transition' = [transition EXCEPT ![t].state = to]

ProposeCustodyTransition(t, kind, n) ==
    /\ transition[t].state = "none"
    /\ transition' = [transition EXCEPT ![t] =
          [NoTransition EXCEPT !.state = "Proposed", !.kind = kind, !.required = n]]
    /\ UnchangedButTransition

VerifyNewIdentity(t, who) ==
    /\ transition[t].state = "Proposed"
    /\ transition' = [transition EXCEPT ![t].state = "IdentityVerified",
                                        ![t].verifier = who]
    /\ UnchangedButTransition

ApproveCustodyTransition(t, who) ==
    /\ transition[t].state = "IdentityVerified"
    /\ LET approved == WithApproval(transition[t].approved, who)
       IN transition' = [transition EXCEPT
             ![t].approved = approved,
             ![t].state = IF Len(approved) >= transition[t].required
                          THEN "Approved" ELSE @]
    /\ UnchangedButTransition

CloseCustodyTransition(t) ==
    /\ "close" \in Events
    /\ \/ TransitionTo(t, {"Proposed", "IdentityVerified"}, "Rejected")
       \/ TransitionTo(t, {"Proposed", "IdentityVerified", "Approved"}, "Cancelled")
    /\ UnchangedButTransition

MustBePaused(kind) ==
    IF kind = "GoldcoinVaultSweep" THEN {"GoldcoinReserve"}
    ELSE {"GoldcoinReserve", "SolanaReserve"}

RecordCustodyTransitionExecuted(t) ==
    /\ \A d \in MustBePaused(transition[t].kind) \cap Directions : book[d].paused
    /\ TransitionTo(t, {"Approved"}, "Executed")
    /\ UnchangedButTransition

ConfirmCustodyTransition(t) ==
    TransitionTo(t, {"Executed"}, "Confirmed") /\ UnchangedButTransition
FailCustodyTransition(t) ==
    TransitionTo(t, {"Executed"}, "Failed") /\ UnchangedButTransition
RollbackCustodyTransition(t) ==
    TransitionTo(t, {"Failed"}, "RolledBack") /\ UnchangedButTransition

-----------------------------------------------------------------------------
RebalanceStep(i) ==
    \/ \E d \in Directions, k \in Kinds, n \in Required : ProposeRebalance(i, d, k, n)
    \/ \E who \in Names : ApproveRebalance(i, who)
    \/ RejectRebalance(i) \/ CancelRebalance(i)
    \/ \E ref \in Refs : RecordRebalanceExecuted(i, ref) \/ Transfer(i, ref)
    \/ OperatorConfirms(i) \/ OperatorFails(i)

\* robinhood-treasury-withdraw --execute, up to its authorization.
ProcessStep(p) == BeginInserts(p) \/ \E i \in Ids : BeginChecks(p, i)

OperationStep(o) ==
    \/ Authorize(o) \/ Broadcast(o) \/ Mine(o)
    \/ PollReverted(o) \/ PollIncluded(o) \/ Promote(o) \/ Book(o) \/ Age(o)

TransitionStep(t) ==
    \/ \E kind \in {"GoldcoinVaultSweep", "AttestationKeyRotation"}, n \in Required :
          ProposeCustodyTransition(t, kind, n)
    \/ \E who \in Names : VerifyNewIdentity(t, who) \/ ApproveCustodyTransition(t, who)
    \/ CloseCustodyTransition(t)
    \/ RecordCustodyTransitionExecuted(t)
    \/ ConfirmCustodyTransition(t) \/ FailCustodyTransition(t)
    \/ RollbackCustodyTransition(t)

Next ==
    \/ \E i \in Ids : RebalanceStep(i)
    \/ \E t \in Transitions : TransitionStep(t)
    \/ \E o \in DOMAIN op : OperationStep(o)
    \/ \E p \in Procs : ProcessStep(p)
    \/ \E d \in Directions : Theft(d) \/ Reconcile(d) \/ Unpause(d) \/ Pause(d)
    \/ HaltContract
    \/ Crash

Spec == Init /\ [][Next]_vars

-----------------------------------------------------------------------------
(* Properties *)

Acted == {"Approved", "Executed", "Confirmed", "Failed", "RolledBack"}

\* Whatever went past approval was approved by as many different people as the
\* proposal asked for; for a transition somebody verified the new identity too.
EnoughPeople ==
    /\ \A i \in Ids : InState(i, Acted) =>
          Cardinality(ToSet(rebalance[i].approved)) >= rebalance[i].required
    /\ \A t \in Transitions : transition[t].state \in Acted =>
          /\ Cardinality(ToSet(transition[t].approved)) >= transition[t].required
          /\ transition[t].verifier # Nobody

\* One transfer is evidence for one request.
EvidenceUsedOnce ==
    \A i, j \in Ids :
        rebalance[i].ref = rebalance[j].ref /\ rebalance[i].ref # NoRef => i = j

\* However many processes execute it, and wherever they stop, a rebalance is
\* withdrawn at most once, and only after it was approved.
WithdrawnOnce ==
    \A i \in Ids :
        LET paid == {o \in Operations(i) : op[o].mined = "paid"}
        IN /\ Cardinality(paid) <= 1
           /\ paid # {} =>
                 Cardinality(ToSet(rebalance[i].approved)) >= rebalance[i].required

\* What the settler itself booked agrees with the contract, whatever operators
\* record, confirm or fail between its two calls: a withdrawal it confirmed was
\* paid, one it failed was not. (An operator may confirm a withdrawal that
\* reverted, once on_reverted has recorded it as executed.)
BookedWasPaid ==
    \A i \in Ids : \A o \in Operations(i) :
        rebalance[i].closedBy = Settler =>
            op[o].mined = (IF rebalance[i].state = "Confirmed" THEN "paid" ELSE "reverted")

CustodySound == EnoughPeople /\ EvidenceUsedOnce /\ WithdrawnOnce /\ BookedWasPaid

\* robinhood_outbound_in_flight_atomic: an operation explains a drop once, up to
\* the moment the cached balance reflects it, so that the drops explained never
\* exceed what the operations sent.
ExplainedOnce ==
    explained <= Amount * Cardinality({o \in DOMAIN op :
                     op[o].state \in InFlightStates \cup {"ManualReview"}})
=============================================================================
