-------------------------------- MODULE Intake --------------------------------
(***************************************************************************)
(* Admission on all six routes: which deposits enter the payout flow, which *)
(* are parked for review, and which requests are refused before anything    *)
(* is sent (service/src/ledger/wallet_window.rs, rapid_burst.rs,            *)
(* admission.rs, the folds and resumes of ledger/mod.rs and                 *)
(* ledger/robinhood_tx.rs, robinhood/fold.rs, routes.rs).                   *)
(*                                                                         *)
(* The four observed-deposit routes are decided by a fold, the two that     *)
(* start from Goldcoin once when the request is made and again when its     *)
(* deposit is seen.  Each of these is one write transaction and one step.   *)
(* What happens after admission is the other modules' subject: here a paid  *)
(* request only gives its reservation back.                                 *)
(***************************************************************************)
EXTENDS Integers, Sequences, FiniteSets, FiniteSetsExt

CONSTANTS
  Ids,             \* bridge_requests.id, in order of insertion: 1..n
  Routes,          \* the routes of Route::ALL that are used
  Wallets,         \* wallet bytes; the same bytes may occur on every chain
  NoWallet,        \* an undeclared, untraceable or undeliverable wallet
  Amounts,         \* gross amounts
  Fee,             \* the fee each is charged: net = gross - Fee
  WalletWindow,    \* WALLET_WINDOW_SECS
  Burst,           \* rapid_burst_policy: window, source, destination, pair, capMin, capMax, hold
  Ttl,             \* reservation_ttl_secs
  Balances,        \* total_reserve_balance - protected_minimum, as reconciled
  Buffer, Reopen,  \* admission_buffer_atomic, admission_reopen_atomic of the Goldcoin reserve
  MinUtxos,        \* utxo_pool_min_available_count
  UtxoCounts,      \* counts of mature unreserved vault coins
  ConfigRoutes,    \* RoutesConfig: routes enabled in the config file
  Operational,     \* chains whose adapter reports Operational
  MaxClock,        \* bound: last second explored
  MaxChanges,      \* bound: operator switches, reconciliations and reorgs
  Events           \* the disturbances explored

Source(r) == CASE r \in {"GlcToSol", "GlcToRhn"} -> "goldcoin"
               [] r \in {"SolToGlc", "SolToRhn"} -> "solana"
               [] OTHER -> "robinhood"
Destination(r) == CASE r \in {"SolToGlc", "RhnToGlc"} -> "goldcoin"
                    [] r \in {"GlcToSol", "RhnToSol"} -> "solana"
                    [] OTHER -> "robinhood"
Reserves == {Destination(r) : r \in Routes}
DefaultEnabled(r) == r \in {"GlcToSol", "SolToGlc"}
OperatorSettable(r) == ~ DefaultEnabled(r)
Requested(r) == Source(r) = "goldcoin"

VARIABLES
  row,        \* bridge_requests
  reserve,    \* reserve_ledger: spendable balance, reserved, switches, pool
  routeOn,    \* bridge_routes.enabled
  routeShut,  \* route_admission.admission_closed
  clock,
  changes     \* how many of MaxChanges were used

vars == <<row, reserve, routeOn, routeShut, clock, changes>>

Counted == {"AwaitingDeposit", "Confirming", "SourceFinalized", "Settled", "ManualReview", "Refunded"}
Excluded == {"Expired", "Cancelled"}  \* of RATE_LIMIT_EXCLUDED_STATES_SQL_IN, those any code sets

NoRow == [state |-> "Absent"]
Exists(i) == row[i] # NoRow
Known == {i \in Ids : Exists(i)}
NextId == IF Known = {} THEN Min(Ids) ELSE Max(Known) + 1

Init ==
  /\ row = [i \in Ids |-> NoRow]
  /\ reserve \in [Reserves -> [spendable : {Max(Balances)}, reserved : {0}, paused : {FALSE},
                               closed : {FALSE}, liqClosed : {FALSE}, utxos : {Max(UtxoCounts)}]]
  /\ routeOn = {r \in Routes : DefaultEnabled(r) \/ "opened" \in Events}
  /\ routeShut = {}
  /\ clock = 0
  /\ changes = 0

-----------------------------------------------------------------------------
\* Wallet windows.

\* The wallet a row holds in a role, and the chain it is on.
WalletOf(i, role) == IF role = "source" THEN row[i].src ELSE row[i].dst
ChainOf(route, role) == IF role = "source" THEN Source(route) ELSE Destination(route)

\* Rows of a wallet, on whatever routes give its chain that role.
RowsOf(chain, role, wallet) ==
  {i \in Known : ChainOf(row[i].route, role) = chain /\ WalletOf(i, role) = wallet}

InWindow_ForgetsParked(i) ==
  row[i].created > clock - WalletWindow /\ row[i].state \in Counted \ {"ManualReview"}

InWindow(i) == row[i].created > clock - WalletWindow /\ row[i].state \in Counted

\* scope is the set of rows that may block.
WindowBlocked(chain, role, wallet, scope) ==
  wallet # NoWallet /\ \E i \in RowsOf(chain, role, wallet) \cap scope : InWindow(i)

Others(i) == Known \ {i}
Predecessors(i) ==
  {j \in Known : row[j].created < row[i].created \/ (row[j].created = row[i].created /\ j < i)}

RateLimits(route, src, dst, scope) ==
  [source |-> WindowBlocked(Source(route), "source", src, scope),
   recipient |-> WindowBlocked(Destination(route), "destination", dst, scope)]

\* The rapid-burst rule: every row created in the window counts, whatever
\* its state; the request at hand is one more.
InBurst(i) == row[i].created > clock - Burst.window

RapidBurst(route, src, dst, gross, scope) ==
  LET recent == {i \in Known \cap scope : InBurst(i)}
      fromSrc == RowsOf(Source(route), "source", src) \cap recent
      toDst == RowsOf(Destination(route), "destination", dst) \cap recent
      Over(rows, limit) == Cardinality(rows) + 1 > limit
  IN \/ /\ src # NoWallet /\ dst # NoWallet
        /\ Over({i \in fromSrc \cap toDst : row[i].route = route}, Burst.pair)
     \/ src # NoWallet /\ Over(fromSrc, Burst.source)
     \/ dst # NoWallet /\ Over(toDst, Burst.destination)
     \/ /\ Burst.capMin > 0 /\ gross >= Burst.capMin
        /\ Over({i \in recent : row[i].route = route /\ row[i].gross >= Burst.capMin}, Burst.capMax)

-----------------------------------------------------------------------------
\* The shared admission decision.

Headroom(c) == reserve[c].spendable - reserve[c].reserved
BufferOf(c) == IF c = "goldcoin" THEN Buffer ELSE 0

NextLiquidityClosed(c) ==
  BufferOf(c) > 0 /\ Headroom(c) < (IF reserve[c].liqClosed THEN Reopen ELSE Buffer)

UtxoLiquidityOK(c) == c # "goldcoin" \/ MinUtxos = 0 \/ reserve[c].utxos > MinUtxos
LiquidityBufferOK(c, net) == BufferOf(c) = 0 \/ Headroom(c) - net >= BufferOf(c)

NoLimits == [source |-> FALSE, recipient |-> FALSE]

\* The highest-ranked gate that refuses this much on this route, or "none".
Blocker(route, net, limits, liqClosed) ==
  LET c == Destination(route)
  IN CASE route \in routeShut -> "route_admission_closed"
       [] reserve[c].closed -> "admission_closed"
       [] reserve[c].paused -> "reserve_paused"
       [] limits.source -> "wallet_source"
       [] limits.recipient -> "wallet_destination"
       [] ~ UtxoLiquidityOK(c) -> "utxo_liquidity_low"
       [] liqClosed \/ ~ LiquidityBufferOK(c, net) -> "liquidity_buffer_low"
       [] net > Headroom(c) -> "insufficient_capacity"
       [] OTHER -> "none"

\* What a read-only caller is told: the persisted gate, never moved.
RouteBlockerAt_ReserveOnly(route, net) ==
  LET c == Destination(route)
  IN IF reserve[c].paused \/ net > Headroom(c) THEN "reserve" ELSE "none"
RouteBlockerAt(route, net) == Blocker(route, net, NoLimits, reserve[Destination(route)].liqClosed)

MaxAdmissible(route) ==
  LET c == Destination(route)
  IN IF RouteBlockerAt(route, 1) # "none" THEN 0
     ELSE Max({0, Headroom(c) - BufferOf(c)})

\* RouteGate: the config file, the ledger's row, both adapters.
EnsureEnabled(route) ==
  /\ route \in ConfigRoutes
  /\ route \in routeOn
  /\ {Source(route), Destination(route)} \subseteq Operational

WalletNotes == {"wallet_source", "wallet_destination"}
Recoverable == WalletNotes \cup
  {"band", "admission_closed", "route_admission_closed", "reserve_paused", "insufficient_capacity",
   "utxo_liquidity_low", "liquidity_buffer_low", "rapid_burst_hold"}

-----------------------------------------------------------------------------
\* The two Goldcoin-sourced routes.

NewRow(route, src, dst, gross, net, state, note, refusal) ==
  [route |-> route, src |-> src, dst |-> dst, gross |-> gross, net |-> net, refusal |-> refusal,
   created |-> clock, state |-> state, note |-> note,
   expires |-> IF Requested(route) THEN clock + Ttl ELSE MaxClock + 1,
   reviewAfter |-> IF note = "rapid_burst_hold" THEN clock + Burst.hold ELSE 0,
   held |-> note = "rapid_burst_hold", decision |-> "none", decidedAt |-> 0,
   admitted |-> IF state = "SourceFinalized" THEN clock ELSE -1,
   traced |-> ~ Requested(route), parkedBy |-> {}]

Reserve(c, n) == [reserve EXCEPT ![c].reserved = @ + n]

\* POST /transfers: refused without a trace by the first closed gate.
CreateRequest(route, src, dst, gross) ==
  LET c == Destination(route)
      limits == RateLimits(route, src, dst, Known)
  IN /\ Requested(route) /\ dst # NoWallet
     /\ NextId \in Ids
     /\ EnsureEnabled(route)
     /\ ~ reserve[c].paused
     /\ route \notin routeShut
     /\ ~ limits.source /\ ~ limits.recipient
     /\ gross - Fee <= Headroom(c)
     /\ row' = [row EXCEPT ![NextId] = 
       NewRow(route, src, dst, gross, gross - Fee, "AwaitingDeposit", "none", "none")]
     /\ reserve' = Reserve(c, gross - Fee)
     /\ UNCHANGED <<routeOn, routeShut, clock, changes>>

\* One sweep over every reservation past its TTL.
ExpireReservations ==
  LET due == {i \in Known : row[i].state = "AwaitingDeposit" /\ row[i].expires <= clock}
  IN /\ due # {}
     /\ row' = [i \in Ids |-> IF i \in due THEN [row[i] EXCEPT !.state = "Expired"] ELSE row[i]]
     /\ reserve' = [c \in Reserves |-> [reserve[c] EXCEPT !.reserved =
          @ - MapThenSumSet(LAMBDA i : row[i].net, {i \in due : Destination(row[i].route) = c})]]
     /\ UNCHANGED <<routeOn, routeShut, clock, changes>>

CancelRequest(i) ==
  /\ "cancel" \in Events
  /\ row[i].state = "AwaitingDeposit"
  /\ row' = [row EXCEPT ![i].state = "Cancelled"]
  /\ reserve' = Reserve(Destination(row[i].route), - row[i].net)
  /\ UNCHANGED <<routeOn, routeShut, clock, changes>>

\* The deposit is seen, funded from the wallets `traced`, first input first;
\* a deposit none of whose inputs could be resolved keeps the declared wallet.
TracedWallets(traced) == {traced[k] : k \in DOMAIN traced} \ {NoWallet}
StoredSource(i, traced) == IF TracedWallets(traced) = {} THEN row[i].src ELSE traced[1]

ObservedLimits(i, traced) ==
  [source |-> \E w \in TracedWallets(traced) : WindowBlocked("goldcoin", "source", w, Others(i)),
   recipient |-> WindowBlocked(Destination(row[i].route), "destination", row[i].dst, Others(i))]

ObservedBurst(i, traced) ==
  \E w \in IF TracedWallets(traced) = {} THEN {NoWallet} ELSE TracedWallets(traced) :
     RapidBurst(row[i].route, w, row[i].dst, row[i].gross, Others(i))

\* Why it parks, or "none"; rate is the outcome of the quote lock.
ObservedNote(i, traced, rate) ==
  LET burst == ObservedBurst(i, traced)
      limits == ObservedLimits(i, traced)
  IN CASE burst -> "rapid_burst_hold"
       [] ~ burst /\ limits.source -> "wallet_source"
       [] ~ burst /\ ~ limits.source /\ limits.recipient -> "wallet_destination"
       [] OTHER -> rate

\* The requests whose window parks this one: a record of the step, read only
\* by ParkedBehindADeposit.
BlockingStates(i, traced) ==
  LET rows == UNION {RowsOf("goldcoin", "source", w) : w \in TracedWallets(traced)}
                \cup RowsOf(Destination(row[i].route), "destination", row[i].dst)
  IN {[by |-> row[j].state, id |-> j] : j \in {j \in rows \ {i} : InWindow(j)}}

\* A late deposit takes its capacity back before anything else is looked at,
\* and parks without a reservation when the reserve has none left.
ObserveDeposit(i, traced, rate) ==
  LET r == row[i]
      c == Destination(r.route)
      late == r.state = "Expired"
      note == ObservedNote(i, traced, rate)
  IN /\ r.state \in {"AwaitingDeposit", "Expired"}
     /\ IF late /\ r.net > Headroom(c)
        THEN /\ row' = [row EXCEPT ![i] = [r EXCEPT !.state = "ManualReview", !.note = "no_capacity"]]
             /\ UNCHANGED reserve
        ELSE /\ row' = [row EXCEPT ![i] =
                  [r EXCEPT !.src = StoredSource(i, traced), !.note = note,
                            !.traced = TracedWallets(traced) # {},
                            !.state = IF note = "none" THEN "Confirming" ELSE "ManualReview",
                            !.admitted = IF note = "none" THEN clock ELSE @,
                            !.held = note = "rapid_burst_hold",
                            !.reviewAfter = IF note = "rapid_burst_hold" THEN clock + Burst.hold ELSE @,
                            !.parkedBy = IF note \in WalletNotes THEN BlockingStates(i, traced) ELSE {},
                            !.expires = IF late THEN MaxClock + 1 ELSE @]]
             /\ reserve' = IF late THEN Reserve(c, r.net) ELSE reserve
     /\ UNCHANGED <<routeOn, routeShut, clock, changes>>

\* The block that carried the deposit is orphaned before it is final.
MarkGlcReorged(i) ==
  /\ "reorg" \in Events /\ changes < MaxChanges
  /\ row[i].state = "Confirming"
  /\ row' = [row EXCEPT ![i].state = "AwaitingDeposit", ![i].admitted = -1]
  /\ changes' = changes + 1
  /\ UNCHANGED <<reserve, routeOn, routeShut, clock>>

FinalizeDeposit(i) ==
  /\ row[i].state = "Confirming"
  /\ row' = [row EXCEPT ![i].state = "SourceFinalized"]
  /\ UNCHANGED <<reserve, routeOn, routeShut, clock, changes>>

-----------------------------------------------------------------------------
\* The four observed-deposit routes.

\* What a caller can find wrong with the deposit itself, before the gates.
UndeliverableDestination == {"undeliverable"}   \* not an address of the destination chain
SourceLimitRefusal == {"limits"}                \* outside the route's transfer limits
UndeliverableAmount == {"inexact"}              \* net not expressible in the mint's decimals
RateRefusal == {"rate", "band"}                 \* no quote, or a move past the band

RefusalsOf(route) ==
  (IF "refusal" \in Events
   THEN UndeliverableDestination \cup SourceLimitRefusal
        \cup IF route = "RhnToSol" THEN UndeliverableAmount ELSE {}
   ELSE {})
  \cup (IF "rate" \in Events THEN RateRefusal ELSE {})
  \cup {"none"}

\* A legacy route has no enablement gate at its fold.
RouteOpen(route) == DefaultEnabled(route) \/ EnsureEnabled(route)

\* The burst rule names the park before any refusal, a refusal before the
\* route switch, the switch before the shared gates.
FoldNote(route, src, dst, gross, net, refusal, liqClosed) ==
  LET burst == RapidBurst(route, src, dst, gross, Known)
  IN CASE burst -> "rapid_burst_hold"
       [] ~ burst /\ refusal # "none" -> refusal
       [] ~ burst /\ refusal = "none" /\ ~ RouteOpen(route) -> "route_disabled"
       [] OTHER -> Blocker(route, net, RateLimits(route, src, dst, Known), liqClosed)

\* The amount a row may ever pay out: a Solana-bound one that was refused
\* before its net was converted carries none.
FoldNet(route, gross, refusal) ==
  IF route = "RhnToSol" /\ refusal \notin RateRefusal \cup {"none"} THEN 0 ELSE gross - Fee

\* The row, the reservation if it is payable, and the liquidity gate.
FoldDeposit(route, src, dst, gross, refusal) ==
  LET c == Destination(route)
      net == FoldNet(route, gross, refusal)
      liq == NextLiquidityClosed(c)
      note == FoldNote(route, src, dst, gross, net, refusal, liq)
      state == IF note = "none" THEN "SourceFinalized" ELSE "ManualReview"
  IN /\ src # NoWallet
     /\ dst = NoWallet <=> refusal \in UndeliverableDestination
     /\ refusal \in RefusalsOf(route)
     /\ NextId \in Ids
     /\ row' = [row EXCEPT ![NextId] = NewRow(route, src, dst, gross, net, state, note, refusal)]
     /\ reserve' = [reserve EXCEPT ![c].liqClosed = liq,
                                   ![c].reserved = IF note = "none" THEN @ + net ELSE @]
     /\ UNCHANGED <<routeOn, routeShut, clock, changes>>

FoldObservation(src, dst, gross, refusal) == FoldDeposit("RhnToGlc", src, dst, gross, refusal)
FoldObservationToSolana(src, dst, gross, refusal) == FoldDeposit("RhnToSol", src, dst, gross, refusal)
FoldSolDepositToRobinhood(src, dst, gross, refusal) == FoldDeposit("SolToRhn", src, dst, gross, refusal)
FoldSolDeposit(src, dst, gross, refusal) == FoldDeposit("SolToGlc", src, dst, gross, refusal)

\* The checks a resume makes again, whatever the park was for.  A
\* Goldcoin-sourced park has no resume here.  The cross routes move the
\* liquidity gate; neither they nor the Goldcoin-bound routes are judged by it.
QuoteLocked(i) == row[i].note \notin RateRefusal \ {"band"}

ResumeWindowsOpen(i) ==
  /\ ~ WindowBlocked(Source(row[i].route), "source", row[i].src, Predecessors(i))
  /\ ~ WindowBlocked(Destination(row[i].route), "destination", row[i].dst, Predecessors(i))

Fits(i) ==
  LET c == Destination(row[i].route)
  IN row[i].net <= Headroom(c) /\ LiquidityBufferOK(c, row[i].net)

CrossRouteResumable(i) ==
  /\ row[i].state = "ManualReview" /\ row[i].route \in {"SolToRhn", "RhnToSol"}
  /\ row[i].note \in Recoverable /\ QuoteLocked(i)
  /\ row[i].net > 0
  /\ ResumeWindowsOpen(i)
  /\ Fits(i)

InboundResumable(i) ==
  /\ row[i].state = "ManualReview" /\ row[i].route \in {"SolToGlc", "RhnToGlc"}
  /\ row[i].note \in Recoverable /\ QuoteLocked(i)
  /\ ResumeWindowsOpen(i)
  /\ UtxoLiquidityOK("goldcoin")
  /\ Fits(i)

ResumeAllowed(i) == CrossRouteResumable(i) \/ InboundResumable(i)

Readmit(i) ==
  LET c == Destination(row[i].route)
  IN reserve' = [reserve EXCEPT ![c].reserved = @ + row[i].net,
                                ![c].liqClosed = IF c = "goldcoin" THEN @ ELSE NextLiquidityClosed(c)]

ResumeManualReview(i) ==
  /\ ResumeAllowed(i)
  /\ ~ row[i].held
  /\ row' = [row EXCEPT ![i].state = "SourceFinalized", ![i].admitted = clock]
  /\ Readmit(i)
  /\ UNCHANGED <<routeOn, routeShut, clock, changes>>

\* The `process` decision and its resume, one transaction.
DecisionDue(i) == clock >= row[i].reviewAfter

ProcessHeld(i) ==
  /\ row[i].state = "ManualReview" /\ row[i].held
  /\ DecisionDue(i)
  /\ ResumeAllowed(i)
  /\ row' = [row EXCEPT ![i].state = "SourceFinalized", ![i].admitted = clock,
                        ![i].decision = "process", ![i].decidedAt = clock, ![i].held = FALSE]
  /\ Readmit(i)
  /\ UNCHANGED <<routeOn, routeShut, clock, changes>>

\* The `refund` decision; only it may be taken early, as an emergency.
DecideRefund(i, emergency) ==
  /\ row[i].state = "ManualReview" /\ row[i].held
  /\ row[i].decision = "none"
  /\ emergency \/ DecisionDue(i)
  /\ row' = [row EXCEPT ![i].decision = "refund", ![i].decidedAt = clock]
  /\ UNCHANGED <<reserve, routeOn, routeShut, clock, changes>>

\* A refund of a park.  A Goldcoin-sourced park still holds its reservation
\* (unless it never got its capacity back) and gives it up.
RefundPark(i) ==
  /\ "refund" \in Events
  /\ row[i].state = "ManualReview"
  /\ row[i].held => row[i].decision = "refund"
  /\ row' = [row EXCEPT ![i].state = "Refunded"]
  /\ reserve' = IF Requested(row[i].route) /\ row[i].note # "no_capacity"
                THEN Reserve(Destination(row[i].route), - row[i].net) ELSE reserve
  /\ UNCHANGED <<routeOn, routeShut, clock, changes>>

\* The payout settles: the reservation and the balance both go.
Settle(i) ==
  LET c == Destination(row[i].route)
  IN /\ "settle" \in Events
     /\ row[i].state = "SourceFinalized"
     /\ row' = [row EXCEPT ![i].state = "Settled"]
     /\ reserve' = [reserve EXCEPT ![c].reserved = @ - row[i].net, ![c].spendable = @ - row[i].net]
     /\ UNCHANGED <<routeOn, routeShut, clock, changes>>

-----------------------------------------------------------------------------
\* Operators, reconciliation, time.

Change == changes < MaxChanges /\ changes' = changes + 1 /\ UNCHANGED <<row, clock>>

SetPaused(c, p) ==
  /\ "pause" \in Events /\ Change
  /\ reserve[c].paused # p
  /\ reserve' = [reserve EXCEPT ![c].paused = p]
  /\ UNCHANGED <<routeOn, routeShut>>

SetAdmission(c, p) ==
  /\ "admission" \in Events /\ Change
  /\ reserve[c].closed # p
  /\ reserve' = [reserve EXCEPT ![c].closed = p]
  /\ UNCHANGED <<routeOn, routeShut>>

SetRouteEnabled(route, on) ==
  /\ "routes" \in Events /\ Change
  /\ OperatorSettable(route)
  /\ (route \in routeOn) # on
  /\ routeOn' = IF on THEN routeOn \cup {route} ELSE routeOn \ {route}
  /\ UNCHANGED <<reserve, routeShut>>

SetRouteAdmission(route, shut) ==
  /\ "routes" \in Events /\ Change
  /\ (route \in routeShut) # shut
  /\ routeShut' = IF shut THEN routeShut \cup {route} ELSE routeShut \ {route}
  /\ UNCHANGED <<reserve, routeOn>>

\* A reconciliation pass stores what the chain holds, then the orchestrator
\* evaluates the liquidity gate of the Goldcoin reserve.
Reconcile(b, u) ==
  /\ "reconcile" \in Events /\ Change
  /\ LET seen == [reserve EXCEPT !["goldcoin"].spendable = b, !["goldcoin"].utxos = u]
         g == seen["goldcoin"]
         head == b - g.reserved
     IN /\ seen # reserve
        /\ reserve' = [seen EXCEPT !["goldcoin"].liqClosed =
             Buffer > 0 /\ head < (IF g.liqClosed THEN Reopen ELSE Buffer)]
  /\ UNCHANGED <<routeOn, routeShut>>

Tick ==
  /\ clock < MaxClock
  /\ clock' = clock + 1
  /\ UNCHANGED <<row, reserve, routeOn, routeShut, changes>>

Traces == {<<w>> : w \in Wallets \cup {NoWallet}}
          \cup IF "inputs" \in Events THEN {<<v, w>> : v, w \in Wallets} ELSE {}
Rates == {"none"} \cup IF "rate" \in Events THEN RateRefusal ELSE {}
AllRefusals == UNION {RefusalsOf(r) : r \in Routes}

Next ==
  \/ \E r \in Routes, s, d \in Wallets \cup {NoWallet}, a \in Amounts : CreateRequest(r, s, d, a)
  \/ ExpireReservations
  \/ \E i \in Known : CancelRequest(i)
  \/ \E i \in Known, t \in Traces, q \in Rates : ObserveDeposit(i, t, q)
  \/ \E i \in Known : MarkGlcReorged(i)
  \/ \E i \in Known : FinalizeDeposit(i)
  \/ \E s, d \in Wallets \cup {NoWallet}, a \in Amounts, f \in AllRefusals :
        \/ "RhnToGlc" \in Routes /\ FoldObservation(s, d, a, f)
        \/ "RhnToSol" \in Routes /\ FoldObservationToSolana(s, d, a, f)
        \/ "SolToRhn" \in Routes /\ FoldSolDepositToRobinhood(s, d, a, f)
        \/ "SolToGlc" \in Routes /\ FoldSolDeposit(s, d, a, f)
  \/ \E i \in Known : ResumeManualReview(i)
  \/ \E i \in Known : ProcessHeld(i)
  \/ \E i \in Known, e \in BOOLEAN : DecideRefund(i, e)
  \/ \E i \in Known : RefundPark(i)
  \/ \E i \in Known : Settle(i)
  \/ \E c \in Reserves, p \in BOOLEAN : SetPaused(c, p)
  \/ \E c \in Reserves, p \in BOOLEAN : SetAdmission(c, p)
  \/ \E r \in Routes, p \in BOOLEAN : SetRouteEnabled(r, p)
  \/ \E r \in Routes, p \in BOOLEAN : SetRouteAdmission(r, p)
  \/ \E b \in Balances, u \in UtxoCounts : Reconcile(b, u)
  \/ Tick

Spec == Init /\ [][Next]_vars

-----------------------------------------------------------------------------
Admitted(i) == Exists(i) /\ row[i].admitted >= 0
ShareWallet(i, j) ==
  \E role \in {"source", "destination"} :
     /\ WalletOf(i, role) = WalletOf(j, role) /\ WalletOf(i, role) # NoWallet
     /\ role = "source" => row[i].traced /\ row[j].traced
     /\ ChainOf(row[i].route, role) = ChainOf(row[j].route, role)

\* "On every bridge route, BOTH the source wallet and the destination wallet
\* may be used at most once inside a rolling window" (wallet_window.rs): of two
\* admitted requests that share a wallet in one role on one chain (a source
\* only where the deposit was traced to it), whatever routes, parks, expiries, reorgs and resumes came in between, one entered
\* the payout flow no earlier than a full window after the other was created.
PaidApart ==
  \A i, j \in Ids : i < j /\ Admitted(i) /\ Admitted(j) /\ ShareWallet(i, j) =>
     \/ row[j].admitted >= row[i].created + WalletWindow
     \/ row[i].admitted >= row[j].created + WalletWindow

\* A rapid-burst hold is "NEVER auto-resumed" and ends "only through an
\* explicit operator process or refund decision, normally not before
\* review_after" (ledger/mod.rs): one that was ever admitted was decided
\* `process` in that very step, after its minimum review time.
HeldUntilDecided ==
  \A i \in Known : row[i].note = "rapid_burst_hold" /\ row[i].admitted >= 0 =>
     /\ row[i].decision = "process"
     /\ row[i].decidedAt = row[i].admitted
     /\ row[i].decidedAt >= row[i].reviewAfter

\* The reservation column is what the rows say it is, on every reserve.
ReservedMatchesRows ==
  \A c \in Reserves : reserve[c].reserved =
     MapThenSumSet(LAMBDA i : row[i].net,
       {i \in Known : /\ Destination(row[i].route) = c
                      /\ \/ row[i].state \in {"AwaitingDeposit", "Confirming", "SourceFinalized"}
                         \/ /\ row[i].state = "ManualReview" /\ Requested(row[i].route)
                            /\ row[i].note # "no_capacity"})

\* The wallet rule, the burst hold and the reservation column together.
AdmissionSound == PaidApart /\ HeldUntilDecided /\ ReservedMatchesRows

\* "An availability answer and the fold that follows it cannot disagree about
\* the rules" (inbound_admission_gates): whatever amount a switched-on route is
\* advertised for, a deposit of that size folded now by a wallet with no
\* history is admitted, and one unit more than MaxAdmissible is not.
AdvertisedIsAdmitted ==
  \A r \in Routes : ~ Requested(r) /\ EnsureEnabled(r) =>
     LET c == Destination(r)
         fold(n) == Blocker(r, n, NoLimits, NextLiquidityClosed(c))
     IN /\ \A n \in 1..Max(Balances) : RouteBlockerAt(r, n) = "none" => fold(n) = "none"
        /\ MaxAdmissible(r) > 0 =>
             /\ fold(MaxAdmissible(r)) = "none"
             /\ fold(MaxAdmissible(r) + 1) # "none"

\* "A destination that cannot be paid out is a deposit that must be REFUNDED"
\* (validate_goldcoin_destination), and so is one outside the transfer limits
\* or one for which no quote could be struck: a deposit refused for its own
\* sake never enters the payout flow, whatever else was held against it.
RefusedIsNeverPaid ==
  \A i \in Known : row[i].refusal \notin {"none", "band"} => row[i].admitted < 0

\* "Whichever of the two deposits is observed second is the one that parks"
\* (WalletWindowScope::ExcludingRequest): a Goldcoin deposit parked for a
\* window was preceded by another deposit of that wallet, not by a request
\* nobody has funded.
ParkedBehindADeposit ==
  \A i \in Known : row[i].parkedBy # {} =>
     \E b \in row[i].parkedBy : b.by # "AwaitingDeposit"
=============================================================================
