----------------------------- MODULE MCRequests -----------------------------
(***************************************************************************)
(* Requests that compete for one reserve, checked in one run: two          *)
(* Goldcoin-to-Solana requests (GlcToSol), two Solana-to-Goldcoin requests *)
(* (SolToGlc), and the admission, wallet-window and rapid-burst rules over *)
(* all routes (Intake).  A behaviour is a behaviour of one instance:       *)
(* `part' names it, and v1, v2, ... stand for that module's variables, in  *)
(* the order of its declaration.                                           *)
(***************************************************************************)
EXTENDS Naturals

CONSTANTS r1, r2, o1, w1, nw

VARIABLES part, v1, v2, v3, v4, v5, v6, v7, v8, v9, v10, v11, v12, v13

vars == <<part, v1, v2, v3, v4, v5, v6, v7, v8, v9, v10, v11, v12, v13>>

-----------------------------------------------------------------------------
(* Constants of the instances.                                             *)

\* Obligation 1 fits the Goldcoin reserve alone, both together do not.
Grosses == [i \in {1, 2} |-> i + 1]
Nets == [i \in {1, 2} |-> i]

Burst == [window |-> 2, source |-> 1, destination |-> 1, pair |-> 1, capMin |-> 0, capMax |-> 0,
          hold |-> 1]
Configured == {"SolToGlc", "RhnToGlc", "GlcToSol", "RhnToSol", "GlcToRhn"}
Chains == {"goldcoin", "solana", "robinhood"}

-----------------------------------------------------------------------------
(* The instances.                                                          *)

GlcToSol == INSTANCE GlcToSol WITH
        Requests <- {r1, r2}, Amounts <- {2, 3}, MinTransferAmounts <- {1},
        PerTransferLimits <- {2, 3},
        ProtectedMinimum <- 1, InitialBalance <- 5, Tolerance <- 0,
        ReservationTtl <- 1, MaxClock <- 2, MaxSends <- 1, MaxBalance <- 5,
        Events <- {"mismatch", "orphan"}, req <- v1, reserve <- v2,
        glcPaused <- v3, orch <- v4, dep <- v5, refundTx <- v6, inflight <- v7,
        sends <- v8, landed <- v9, retained <- v10, solBalance <- v11,
        limit <- v12, clock <- v13

SolToGlc == INSTANCE SolToGlc WITH
        Obligations <- {1, 2}, Operators <- {o1}, Gross <- Grosses, Net <- Nets,
        GlcMinimum <- 2, SolMinimum <- 2, SolReserved <- 1, SolInitial <- 2,
        Buffer <- 1, Reopen <- 2, VaultBalances <- {3, 4}, MaxSubmissions <- 2,
        MaxSends <- 1, MaxRefundSends <- 1,
        Events <- {"pause", "auto", "observe"}, req <- v1, book <- v2,
        solBalance <- v3, autoResume <- v4, orch <- v5, op <- v6, obligation <- v7,
        paused <- v8, glcTx <- v9, completionTx <- v10, refundTx <- v11,
        manual <- v12, overlapped <- v13

Deposits == INSTANCE Intake WITH
        Ids <- {1, 2}, Wallets <- {w1}, NoWallet <- nw, Amounts <- {2}, Fee <- 1,
        WalletWindow <- 2, Burst <- Burst, Ttl <- 1, Balances <- {1, 2},
        Buffer <- 1, Reopen <- 2, MinUtxos <- 1, UtxoCounts <- {1, 2},
        ConfigRoutes <- Configured, Operational <- Chains, MaxClock <- 2,
        Routes <- {"GlcToSol", "SolToGlc", "RhnToGlc", "SolToRhn", "RhnToSol"},
        MaxChanges <- 0, Events <- {"opened", "refund", "refusal"}, row <- v1,
        reserve <- v2, routeOn <- v3, routeShut <- v4, clock <- v5, changes <- v6

Switches == INSTANCE Intake WITH
        Ids <- {1, 2}, Wallets <- {w1}, NoWallet <- nw, Amounts <- {2}, Fee <- 1,
        WalletWindow <- 2, Burst <- Burst, Ttl <- 1, Balances <- {1, 2},
        Buffer <- 1, Reopen <- 2, MinUtxos <- 1, UtxoCounts <- {1, 2},
        ConfigRoutes <- Configured, Operational <- Chains, MaxClock <- 2,
        Routes <- {"GlcToSol", "SolToGlc", "RhnToSol"}, MaxChanges <- 1,
        Events <- {"opened", "pause", "admission", "routes", "reconcile", "settle", "cancel", "reorg", "rate"},
        row <- v1, reserve <- v2, routeOn <- v3, routeShut <- v4, clock <- v5,
        changes <- v6

Late == INSTANCE Intake WITH
        Ids <- {1, 2}, Wallets <- {w1}, NoWallet <- nw, Amounts <- {2}, Fee <- 1,
        WalletWindow <- 2, Burst <- Burst, Ttl <- 1, Balances <- {1}, Buffer <- 1,
        Reopen <- 2, MinUtxos <- 1, UtxoCounts <- {1, 2},
        ConfigRoutes <- Configured, Operational <- Chains, MaxClock <- 2,
        Routes <- {"GlcToSol"}, MaxChanges <- 0, Events <- {}, row <- v1,
        reserve <- v2, routeOn <- v3, routeShut <- v4, clock <- v5, changes <- v6

\* The variables a module with n of its own leaves alone.
Beyond6 == <<v7, v8, v9, v10, v11, v12, v13>>
Idle6 == v7 = "idle" /\ v8 = "idle" /\ v9 = "idle" /\ v10 = "idle" /\ v11 = "idle" /\ v12 = "idle" /\ v13 = "idle"

Init ==
    \/ part = "GlcToSol" /\ GlcToSol!Init
    \/ part = "SolToGlc" /\ SolToGlc!Init
    \/ part = "Deposits" /\ Deposits!Init /\ Idle6
    \/ part = "Switches" /\ Switches!Init /\ Idle6
    \/ part = "Late" /\ Late!Init /\ Idle6

Next ==
    \/ part = "GlcToSol" /\ GlcToSol!Next /\ UNCHANGED part
    \/ part = "SolToGlc" /\ SolToGlc!Next /\ UNCHANGED part
    \/ part = "Deposits" /\ Deposits!Next /\ UNCHANGED <<part, Beyond6>>
    \/ part = "Switches" /\ Switches!Next /\ UNCHANGED <<part, Beyond6>>
    \/ part = "Late" /\ Late!Next /\ UNCHANGED <<part, Beyond6>>

Spec == Init /\ [][Next]_vars

-----------------------------------------------------------------------------
\* Two requests compete for one reserve row, in each direction: every row is
\* well formed, reserved_liquidity and pending_obligations are the sums over
\* the requests that hold them, and what is promised is covered by the live
\* reserve unless a request was released and refunded (reserve_and_create_request,
\* expiry, lock, settlement). Open Solana refunds never ask for more than the
\* reserve holds above its protected minimum and reservations, but for a debit
\* that a reconciliation overwrote (begin_solana_refund, refresh_reserve_balance).
ReserveBooksExact ==
    /\ part = "GlcToSol" =>
         /\ GlcToSol!TypeOK /\ GlcToSol!CountersMatchRequests
         /\ GlcToSol!NeverReleasedAndRefunded => GlcToSol!NeverOvercommitted
    /\ part = "SolToGlc" =>
         SolToGlc!TypeOK /\ SolToGlc!CountersMatchRequests /\ SolToGlc!RefundsFitTogether

\* Intake: payouts to one wallet stay a window apart, a held deposit stays
\* held until its decision, and the reservations are the sum of the rows.
AdmissionSound ==
    /\ part = "Deposits" => Deposits!AdmissionSound
    /\ part = "Switches" => Switches!AdmissionSound
    /\ part = "Late" => Late!AdmissionSound

\* Intake: what the capacity endpoint advertises as open, the intake admits.
AdvertisedIsAdmitted ==
    /\ part = "Deposits" => Deposits!AdvertisedIsAdmitted
    /\ part = "Switches" => Switches!AdvertisedIsAdmitted
    /\ part = "Late" => Late!AdvertisedIsAdmitted
=============================================================================
