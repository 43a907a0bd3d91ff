---------------------------- MODULE MCOperations ----------------------------
(***************************************************************************)
(* What surrounds settlement, checked in one run: the admin commands       *)
(* (AdminControls), the rebalance and custody books (Custody), the offline *)
(* treasury tools (TreasuryTools), the Robinhood governance command        *)
(* (RobinhoodGovernance), the configuration and its editors                *)
(* (ServiceConfig), the vault's pool of coins (VaultPool: two payouts that *)
(* compete for two coins, a payout against the daemon's splits and then    *)
(* against the operator's too, payouts that spend each other's unconfirmed *)
(* change, and a refund against a payout and a split) and the program's    *)
(* upgrade timelock.  A behaviour is a behaviour of one instance of one of *)
(* these modules: `part' names it, and the variables v1, v2, ... stand for *)
(* that module's own, in the order of its declaration.                     *)
(***************************************************************************)
EXTENDS Naturals, Sequences

CONSTANTS
    Absent,                                     \* a key a file does not state
    i1, i2, t1, ann, bob, nobody, r1, noRef, daemon, command,  \* of Custody
    c1, c2, m1, m2, m3                                         \* of VaultPool

VARIABLES part, v1, v2, v3, v4, v5, v6, v7, v8, v9, v10, v11, v12, v13, v14

vars == <<part, v1, v2, v3, v4, v5, v6, v7, v8, v9, v10, v11, v12, v13, v14>>

-----------------------------------------------------------------------------
(* Constants of the instances.                                             *)

HttpCommands ==
    {"process", "resume", "close", "unpause", "admission_open", "route_admission_open"}
CliCommands ==
    {"route_enable", "route_disable", "admission_close", "route_admission_close",
     "hold", "hold_release", "refund_decision", "pause", "manual_refund_import",
     "refund_begin", "refund_broadcast", "refund_confirm", "refund_return", "reconcile",
     "auto_resume_on", "auto_resume_off"}

GovLimits ==
    [inMin |-> 2, inMax |-> 2, inRoll |-> 4, outMin |-> 2, outMax |-> 2, outRoll |-> 4, floor |-> 0]
GovPolicy == [inbound |-> 2, outbound |-> 1, daily |-> 4]
AllOpen == [deposits |-> FALSE, payouts |-> FALSE]
AllPaused == [deposits |-> TRUE, payouts |-> TRUE]
GovActions ==
    {"set_limits", "set_pause", "set_route_enabled", "commit_migration", "finalize_migration"}

\* Three custody domains with different policies.
GovDomains == <<"d1", "d2", "d3">>
GovAllowed == [d1 |-> GovActions, d2 |-> GovActions \ {"set_route_enabled"},
               d3 |-> {"set_pause", "set_route_enabled"}]
GovTtl == [d1 |-> 2, d2 |-> 2, d3 |-> 1]
GovPinned == [d1 |-> 9, d2 |-> 0, d3 |-> 9]

PauseCommand(b) == [verb |-> "pause", scope |-> "deposits", paused |-> b]
RouteCommand == [verb |-> "route", route |-> "GlcToRhn", enabled |-> TRUE]
BreakerCommands == {PauseCommand(TRUE), RouteCommand}
LimitCommands ==
    {PauseCommand(b) : b \in BOOLEAN}
        \cup {[verb |-> "set-limits", policy |-> GovPolicy, overrides |-> o] :
                 o \in {<<>>, [floor |-> 2], [inMin |-> 3]}}
        \cup {[verb |-> "set-limits", policy |-> [GovPolicy EXCEPT !.outbound = 3],
               overrides |-> <<>>]}
MigrationCommands ==
    {[verb |-> v, successor |-> a] :
        v \in {"commit-migration", "finalize-migration"}, a \in {"next", "bridge"}}
        \cup {RouteCommand}

\* One configuration file, and the ways operators get it wrong.
RemoteQuorum(keys, urls, t) ==
    [keys |-> keys, threshold |-> t, files |-> <<>>,
     remote |-> [i \in DOMAIN keys |-> [key |-> keys[i], url |-> urls[i]]]]
FileQuorum(keys, t) == [keys |-> keys, threshold |-> t, files |-> keys, remote |-> <<>>]
Operators(e) == << [name |-> "n1", env |-> "e1"], [name |-> "n2", env |-> e] >>

File ==
    [wellFormed |-> TRUE, commitment |-> "finalized", mode |-> "production",
     attestation |-> RemoteQuorum(<<"a", "b">>, <<"u1", "u2">>, 2),
     vault |-> RemoteQuorum(<<"v", "w">>, <<"u3", "u4">>, 2),
     admin |-> [bind |-> TRUE, probe |-> 1, operators |-> Operators("e2")],
     bounds |-> [c \in {"solana", "goldcoin", "robinhood"} |-> [minimum |-> 0, critical |-> 1]],
     glc |-> [fanout |-> 1, chainLimit |-> 24, least |-> 1, warning |-> 1, buffer |-> 1,
              reopen |-> 1, minSource |-> Absent, target |-> 1, splitOutputs |-> 2,
              height |-> Absent, hash |-> Absent],
     burst |-> [window |-> 1, hold |-> 0, source |-> 1, destination |-> 1, pair |-> 1,
                capMin |-> 0, capMax |-> 0],
     rate |-> [mode |-> "live", poll |-> 1, staleness |-> 1, window |-> 1, band |-> 1,
               feeds |-> [goldcoin |-> "nonkyc", solana |-> "jupiter",
                          robinhood |-> "uniswap_v4"]],
     rhn |-> [enabled |-> {"GlcToRhn"},
              indexer |-> [chain |-> 1, bridge |-> "b", token |-> "t", depth |-> 1],
              settlement |->
                 [chain |-> 1, bridge |-> "b", submitter |-> "p", signers |-> <<"x", "y", "z">>,
                  confirmations |-> 1, priority |-> 0, maxFee |-> 1, envelope |-> "eip1559",
                  leastBalance |-> 1, files |-> <<>>,
                  remote |-> << [key |-> "x", url |-> "ux"], [key |-> "y", url |-> "uy"] >>],
              policy |-> [fee |-> 1, legacy |-> 2, inbound |-> Absent, outbound |-> Absent,
                          rolling |-> 4]],
     fees |-> Absent]

GlcRoutes == {"GlcToSol", "SolToGlc", "GlcToRhn", "RhnToGlc"}
AllRoutes == GlcRoutes \cup {"SolToRhn", "RhnToSol"}

EditedFiles ==
    { File, [File EXCEPT !.glc.reopen = 0], [File EXCEPT !.rhn.policy.rolling = 3],
      [File EXCEPT !.fees = [r \in GlcRoutes |-> 1]] }
Files ==
    { File,
      [File EXCEPT !.mode = "dev", !.attestation = FileQuorum(<<"a", "a">>, 2),
                   !.vault = FileQuorum(<<"v">>, 1),
                   !.rhn.settlement.remote = <<>>, !.rhn.settlement.files = <<"x", "y">>],
      [File EXCEPT !.rhn = Absent],
      [File EXCEPT !.rate.mode = "fixed_unit", !.rate.feeds = Absent, !.rhn = Absent],
      [File EXCEPT !.rhn.enabled = {"GlcToRhn", "SolToRhn"}],
      [File EXCEPT !.rhn.policy = Absent],
      [File EXCEPT !.rhn.settlement = Absent],
      [File EXCEPT !.fees = [r \in AllRoutes |-> 2],
                   !.rhn.enabled = AllRoutes \ {"GlcToSol", "SolToGlc"}],
      [File EXCEPT !.fees = [r \in GlcRoutes |-> 1]],
      [File EXCEPT !.attestation = RemoteQuorum(<<"a", "a">>, <<"u1", "u2">>, 2)],
      [File EXCEPT !.attestation = RemoteQuorum(<<"a", "b">>, <<"u1", "u1">>, 2)],
      [File EXCEPT !.vault = RemoteQuorum(<<"v">>, <<"u3">>, 2)],
      [File EXCEPT !.admin.operators = <<>>],
      [File EXCEPT !.admin.operators = Operators("e1")],
      [File EXCEPT !.bounds.solana.critical = 0],
      [File EXCEPT !.glc.reopen = 0],
      [File EXCEPT !.glc.hash = "h"],
      [File EXCEPT !.burst.capMin = 1],
      [File EXCEPT !.rate.poll = 2],
      [File EXCEPT !.rhn.settlement.submitter = "x"],
      [File EXCEPT !.rhn.settlement.remote = << [key |-> "q", url |-> "ux"] >>],
      [File EXCEPT !.rhn.policy.rolling = 3] }

Deployment ==
    [chain |-> 1, code |-> {"b", "t"}, protocol |-> TRUE, migrated |-> FALSE, token |-> "t",
     decimals |-> 18, signers |-> {"x", "y", "z"}, domain |-> <<1, "b">>,
     distinctChains |-> TRUE, baseFee |-> TRUE, inboundMax |-> 2, outboundMax |-> 2,
     inboundRolling |-> 2, outboundRolling |-> 2, outboundMin |-> 1, routes |-> {"GlcToRhn"},
     treasury |-> "y2", committed |-> FALSE, balance |-> 1]
Deployments ==
    { Deployment, [Deployment EXCEPT !.migrated = TRUE], [Deployment EXCEPT !.inboundMax = 1],
      [Deployment EXCEPT !.signers = {"x", "y", "w"}],
      [Deployment EXCEPT !.outboundMax = 3, !.committed = TRUE] }
Edits ==
    { [kind |-> "fee", route |-> "GlcToRhn", bps |-> 0],
      [kind |-> "fee", route |-> "RhnToSol", bps |-> 3],
      [kind |-> "fee", route |-> "SolToGlc", bps |-> 4],
      [kind |-> "policy", fee |-> 3, inbound |-> 1, outbound |-> 2, rolling |-> 4] }

-----------------------------------------------------------------------------
(* The instances.                                                          *)

Switches == INSTANCE AdminControls WITH
        NoProc <- "no process", People <- {"h1", "h2"}, NoOne <- "no one",
        Tokens <- {"t1", "t2"}, MaxUnaudited <- 1, MaxTurns <- 1,
        Procs <- {"p1", "p2"}, Executors <- {}, Reviews <- {},
        Routes <- {"GlcToRhn"}, Addressed <- {"goldcoin", "robinhood"},
        HttpVerbs <- {"unpause", "route_admission_open"},
        CliVerbs <- {"route_admission_close", "pause"}, Events <- {"fail", "crash", "busy"},
        tokenOf <- v1, up <- v2, db <- v3, work <- v4, lock <- v5, health <- v6,
        turns <- v7, pc <- v8, cmd <- v9, who <- v10, actor <- v11, oldv <- v12,
        result <- v13, reply <- v14

Console == INSTANCE AdminControls WITH
        NoProc <- "no process", NoOne <- "no one", Tokens <- {"t1", "t2"},
        MaxUnaudited <- 1, MaxTurns <- 1, People <- {"h1"}, Procs <- {"p1"},
        Executors <- {"h1"}, Reviews <- {"q1"}, Routes <- {"GlcToRhn"},
        Addressed <- {"goldcoin", "robinhood"}, HttpVerbs <- HttpCommands,
        CliVerbs <- CliCommands, Events <- {"fail", "crash", "refund"},
        tokenOf <- v1, up <- v2, db <- v3, work <- v4, lock <- v5, health <- v6,
        turns <- v7, pc <- v8, cmd <- v9, who <- v10, actor <- v11, oldv <- v12,
        result <- v13, reply <- v14

Reviews == INSTANCE AdminControls WITH
        NoProc <- "no process", People <- {"h1", "h2"}, NoOne <- "no one",
        Tokens <- {"t1", "t2"}, MaxUnaudited <- 1, MaxTurns <- 1,
        Procs <- {"p1", "p2"}, Executors <- {"h1"}, Reviews <- {"q1"},
        Routes <- {}, Addressed <- {"goldcoin"},
        HttpVerbs <- {"process", "resume"},
        CliVerbs <- {"hold", "refund_decision", "refund_begin", "refund_broadcast"},
        Events <- {"fail", "refund"}, tokenOf <- v1, up <- v2, db <- v3,
        work <- v4, lock <- v5, health <- v6, turns <- v7, pc <- v8, cmd <- v9,
        who <- v10, actor <- v11, oldv <- v12, result <- v13, reply <- v14

Withdrawals == INSTANCE Custody WITH
        Names <- {ann, bob}, Nobody <- nobody, Refs <- {r1}, NoRef <- noRef,
        Required <- {2}, Amount <- 2, Start <- 6, Floor <- 0, Tolerance <- 1,
        Kinds <- {"Withdraw"}, Ids <- {i1}, Transitions <- {},
        Procs <- {daemon, command}, Directions <- {"RobinhoodReserve"},
        MaxThefts <- 0, MaxTicks <- 0, MaxCrashes <- 1, Events <- {"close"},
        chain <- v1, book <- v2, rebalance <- v3, transition <- v4, moved <- v5,
        op <- v6, checked <- v7, todo <- v8, halted <- v9, thefts <- v10,
        ticks <- v11, crashes <- v12, explained <- v13

Evidence == INSTANCE Custody WITH
        Names <- {ann, bob}, Nobody <- nobody, Refs <- {r1}, NoRef <- noRef,
        Required <- {2}, Amount <- 2, Start <- 6, Floor <- 0, Tolerance <- 1,
        Kinds <- {"Deposit", "Withdraw"}, Ids <- {i1, i2}, Transitions <- {},
        Procs <- {}, Directions <- {"SolanaReserve", "RobinhoodReserve"},
        MaxThefts <- 0, MaxTicks <- 0, MaxCrashes <- 1, Events <- {"close"},
        chain <- v1, book <- v2, rebalance <- v3, transition <- v4, moved <- v5,
        op <- v6, checked <- v7, todo <- v8, halted <- v9, thefts <- v10,
        ticks <- v11, crashes <- v12, explained <- v13

InFlight == INSTANCE Custody WITH
        Names <- {ann, bob}, Nobody <- nobody, Refs <- {r1}, NoRef <- noRef,
        Required <- {2}, Amount <- 2, Start <- 6, Floor <- 0, Tolerance <- 1,
        Kinds <- {"Deposit", "Withdraw"}, Ids <- {i1}, Transitions <- {},
        Procs <- {daemon}, Directions <- {"RobinhoodReserve"}, MaxThefts <- 1,
        MaxTicks <- 2, MaxCrashes <- 1, Events <- {"theft", "aged"}, chain <- v1,
        book <- v2, rebalance <- v3, transition <- v4, moved <- v5, op <- v6,
        checked <- v7, todo <- v8, halted <- v9, thefts <- v10, ticks <- v11,
        crashes <- v12, explained <- v13

Rebalances == INSTANCE Custody WITH
        Names <- {ann, bob}, Nobody <- nobody, Refs <- {r1}, NoRef <- noRef,
        Required <- {2}, Amount <- 2, Start <- 6, Floor <- 0, Tolerance <- 1,
        Kinds <- {"Deposit", "Withdraw"}, Ids <- {i1}, Transitions <- {t1},
        Procs <- {daemon}, Directions <- {"GoldcoinReserve"}, MaxThefts <- 1,
        MaxTicks <- 1, MaxCrashes <- 0, Events <- {"theft", "unpause", "close"},
        chain <- v1, book <- v2, rebalance <- v3, transition <- v4, moved <- v5,
        op <- v6, checked <- v7, todo <- v8, halted <- v9, thefts <- v10,
        ticks <- v11, crashes <- v12, explained <- v13

WithdrawTool == INSTANCE TreasuryTools WITH
        ReserveAccount <- "ra", DefaultKey <- "dk", MaxAttestationKeys <- 3,
        MaxTreasuries <- 2, Keys <- {"k1", "k2", "k3"}, Keypairs <- {"a1"}, Admin <- "a1",
        KeySets <- {{"k1", "k2"}, {"k2", "k3"}}, RefundNonces <- {2},
        ProtectedMinimum <- 1, Delay <- 1, Coins <- {"c1"},
        Value <- [c \in {"c1"} |-> 3], VaultKeys <- {"k1", "k2"},
        VaultThreshold <- 2, MaxEpoch <- 1, MaxVersion <- 1,
        Accounts <- {"x", "ra"}, Lists <- {}, Nonces <- {1, 2}, Amounts <- {0, 2},
        StartBalance <- 4, StartLists <- {<<"x">>}, MaxClock <- 0,
        MaxInFlight <- 1, Tools <- {"withdraw"},
        Events <- {"rotate", "pause", "outflow", "tamper"}, chain <- v1,
        plan <- v2, attested <- v3, partials <- v4, sent <- v5, unspent <- v6,
        clock <- v7

PolicyTool == INSTANCE TreasuryTools WITH
        ReserveAccount <- "ra", DefaultKey <- "dk", MaxAttestationKeys <- 3,
        MaxTreasuries <- 2, Keys <- {"k1", "k2", "k3"}, Keypairs <- {"a1"}, Admin <- "a1",
        KeySets <- {{"k1", "k2"}, {"k2", "k3"}}, RefundNonces <- {2},
        ProtectedMinimum <- 1, Delay <- 1, Coins <- {"c1"},
        Value <- [c \in {"c1"} |-> 3], VaultKeys <- {"k1", "k2"},
        VaultThreshold <- 2, MaxEpoch <- 1, MaxVersion <- 1,
        Accounts <- {"x", "ra", "dk"}, Lists <- {<<"x">>, <<"x", "x">>, <<"ra">>},
        Nonces <- {}, Amounts <- {}, StartBalance <- 4,
        StartLists <- {<<>>, <<"x">>}, MaxClock <- 1, MaxInFlight <- 1,
        Tools <- {"policy"}, Events <- {"rotate", "tamper"}, chain <- v1,
        plan <- v2, attested <- v3, partials <- v4, sent <- v5, unspent <- v6,
        clock <- v7

BothTools == INSTANCE TreasuryTools WITH
        ReserveAccount <- "ra", DefaultKey <- "dk", MaxAttestationKeys <- 3,
        MaxTreasuries <- 2, Keys <- {"k1", "k2"}, KeySets <- {{"k1", "k2"}},
        Keypairs <- {"a1", "a2"}, Admin <- "a1",
        RefundNonces <- {2}, ProtectedMinimum <- 1, Delay <- 1, Coins <- {"c1"},
        Value <- [c \in {"c1"} |-> 3], VaultKeys <- {"k1", "k2"},
        VaultThreshold <- 2, MaxEpoch <- 1, MaxVersion <- 1,
        Accounts <- {"x", "y"}, Lists <- {<<"x">>, <<"y">>}, Nonces <- {1},
        Amounts <- {2}, StartBalance <- 3, StartLists <- {<<"x">>}, MaxClock <- 1,
        MaxInFlight <- 2, Tools <- {"withdraw", "policy"}, Events <- {"account"},
        chain <- v1, plan <- v2, attested <- v3, partials <- v4, sent <- v5,
        unspent <- v6, clock <- v7

GoldcoinTool == INSTANCE TreasuryTools WITH
        ReserveAccount <- "ra", DefaultKey <- "dk", MaxAttestationKeys <- 3,
        MaxTreasuries <- 2, Keys <- {"k1", "k2", "k3"}, Keypairs <- {"a1"}, Admin <- "a1",
        KeySets <- {{"k1", "k2"}, {"k2", "k3"}}, RefundNonces <- {2},
        ProtectedMinimum <- 1, Delay <- 1, Coins <- {"c1"},
        Value <- [c \in {"c1"} |-> 3], VaultKeys <- {"k1", "k2"},
        VaultThreshold <- 2, MaxEpoch <- 1, MaxVersion <- 1,
        Accounts <- {"x", "y"}, Lists <- {}, Nonces <- {}, Amounts <- {2},
        StartBalance <- 4, StartLists <- {<<"x">>}, MaxClock <- 0,
        MaxInFlight <- 1, Tools <- {"goldcoin"}, Events <- {"tamper", "payout"},
        chain <- v1, plan <- v2, attested <- v3, partials <- v4, sent <- v5,
        unspent <- v6, clock <- v7

Breakers == INSTANCE RobinhoodGovernance WITH
        Sessions <- {"s1", "s2"}, Domains <- GovDomains, Allowed <- GovAllowed,
        MaxTtl <- GovTtl, Pinned <- GovPinned, NoEpoch <- 9, Ttl <- 1, Scale <- 2,
        StartLimits <- GovLimits, Successors <- {"next"}, Zero <- "zero",
        Bridge <- "bridge", MaxClock <- 1, MaxNonce <- 2,
        Commands <- BreakerCommands, StartPaused <- AllOpen, StartDebts <- 0,
        Events <- {"guardian"}, chain <- v1, session <- v2, sigs <- v3, pool <- v4,
        receipts <- v5, clock <- v6, read <- v7, landed <- v8

LimitSets == INSTANCE RobinhoodGovernance WITH
        Sessions <- {"s1", "s2"}, Domains <- GovDomains, Allowed <- GovAllowed,
        MaxTtl <- GovTtl, Pinned <- GovPinned, NoEpoch <- 9, Ttl <- 1, Scale <- 2,
        StartLimits <- GovLimits, Successors <- {"next"}, Zero <- "zero",
        Bridge <- "bridge", MaxClock <- 1, MaxNonce <- 2,
        Commands <- LimitCommands, StartPaused <- AllOpen, StartDebts <- 0,
        Events <- {"down", "mismatch"}, chain <- v1, session <- v2, sigs <- v3,
        pool <- v4, receipts <- v5, clock <- v6, read <- v7, landed <- v8

Migration == INSTANCE RobinhoodGovernance WITH
        Sessions <- {"s1", "s2"}, Domains <- GovDomains, Allowed <- GovAllowed,
        MaxTtl <- GovTtl, Pinned <- GovPinned, NoEpoch <- 9, Ttl <- 1, Scale <- 2,
        StartLimits <- GovLimits, Successors <- {"next"}, Zero <- "zero",
        Bridge <- "bridge", MaxClock <- 1, MaxNonce <- 2,
        Commands <- MigrationCommands, StartPaused <- AllPaused, StartDebts <- 1,
        Events <- {"veto", "rotate", "owed"}, chain <- v1, session <- v2,
        sigs <- v3, pool <- v4, receipts <- v5, clock <- v6, read <- v7,
        landed <- v8

Edit == INSTANCE ServiceConfig WITH
        Absent <- Absent, ZeroAddress <- "zero", Requests <- Edits, MaxBps <- 3,
        DefaultBps <- 2, SourceMinimum <- 4, Documents <- EditedFiles,
        Sessions <- {"s1", "s2"}, Deployments <- {Deployment}, MaxClock <- 1,
        MaxWrites <- 3, Events <- {"hand"}, file <- v1, byTool <- v2,
        backups <- v3, sessions <- v4, daemon <- v5, bounds <- v6, contract <- v7,
        foresaw <- v8, clock <- v9, writes <- v10

Start == INSTANCE ServiceConfig WITH
        Absent <- Absent, ZeroAddress <- "zero", Requests <- Edits, MaxBps <- 3,
        DefaultBps <- 2, SourceMinimum <- 4, Documents <- Files, Sessions <- {},
        Deployments <- Deployments, MaxClock <- 0, MaxWrites <- 2,
        Events <- {"hand", "deployment", "start", "signer"}, file <- v1,
        byTool <- v2, backups <- v3, sessions <- v4, daemon <- v5, bounds <- v6,
        contract <- v7, foresaw <- v8, clock <- v9, writes <- v10

Payouts == INSTANCE VaultPool WITH
        PayAmount <- 1, ZeroConfDepth <- 1, TargetCount <- 3, Roots <- {c1, c2},
        Requests <- {m1, m2}, Refunds <- {}, Splits <- {}, RootAmount <- 3,
        MinConfirmations <- 2, MaxInputs <- 2, MaxEvictions <- 1,
        Events <- {"crash"}, node <- v1, row <- v2, pay <- v3, split <- v4,
        work <- v5, errand <- v6, seen <- v7, held <- v8, probed <- v9,
        floorOK <- v10, evictions <- v11, leaked <- v12, revoked <- v13

Shaping == INSTANCE VaultPool WITH
        PayAmount <- 1, ZeroConfDepth <- 1, TargetCount <- 3, Roots <- {c1, c2},
        Requests <- {m1}, Refunds <- {}, Splits <- {1}, RootAmount <- 3,
        MinConfirmations <- 1, MaxInputs <- 2, MaxEvictions <- 1,
        Events <- {"crash", "expiry", "floor"}, node <- v1, row <- v2, pay <- v3,
        split <- v4, work <- v5, errand <- v6, seen <- v7, held <- v8,
        probed <- v9, floorOK <- v10, evictions <- v11, leaked <- v12,
        revoked <- v13

Operated == INSTANCE VaultPool WITH
        PayAmount <- 1, ZeroConfDepth <- 1, TargetCount <- 3, Roots <- {c1, c2},
        Requests <- {m1}, Refunds <- {}, Splits <- {1}, RootAmount <- 3,
        MinConfirmations <- 1, MaxInputs <- 2, MaxEvictions <- 0,
        Events <- {"crash", "operator", "expiry", "floor"}, node <- v1, row <- v2,
        pay <- v3, split <- v4, work <- v5, errand <- v6, seen <- v7, held <- v8,
        probed <- v9, floorOK <- v10, evictions <- v11, leaked <- v12,
        revoked <- v13

Chained == INSTANCE VaultPool WITH
        PayAmount <- 1, ZeroConfDepth <- 1, TargetCount <- 3, Roots <- {c1},
        Requests <- {m1, m2, m3}, Refunds <- {}, Splits <- {}, RootAmount <- 4,
        MinConfirmations <- 1, MaxInputs <- 1, MaxEvictions <- 0, Events <- {},
        node <- v1, row <- v2, pay <- v3, split <- v4, work <- v5, errand <- v6,
        seen <- v7, held <- v8, probed <- v9, floorOK <- v10, evictions <- v11,
        leaked <- v12, revoked <- v13

Refunding == INSTANCE VaultPool WITH
        PayAmount <- 1, ZeroConfDepth <- 0, TargetCount <- 3, Roots <- {c1, c2},
        Requests <- {m1, m2}, Refunds <- {m2}, Splits <- {1}, RootAmount <- 2,
        MinConfirmations <- 1, MaxInputs <- 1, MaxEvictions <- 0,
        Events <- {"crash"}, node <- v1, row <- v2, pay <- v3, split <- v4,
        work <- v5, errand <- v6, seen <- v7, held <- v8, probed <- v9,
        floorOK <- v10, evictions <- v11, leaked <- v12, revoked <- v13

Upgrade == INSTANCE UpgradeTimelock WITH
        Buffers <- {"b1", "b2"}, UpgradeTimelock0 <- 2, MaxClock <- 6,
        authority <- v1, pending <- v2, code <- v3, clock <- v4, noticed <- v5

\* What the theorems about VaultPool assume of its constants.
ASSUME PoolConstants ==
    /\ Payouts!ConstantsOK /\ Shaping!ConstantsOK
    /\ Operated!ConstantsOK /\ Chained!ConstantsOK
    /\ Refunding!ConstantsOK

\* The variables a module with n of its own leaves alone.
Beyond5 == <<v6, v7, v8, v9, v10, v11, v12, v13, v14>>
Beyond7 == <<v8, v9, v10, v11, v12, v13, v14>>
Beyond8 == <<v9, v10, v11, v12, v13, v14>>
Beyond10 == <<v11, v12, v13, v14>>
Beyond13 == <<v14>>
Idle13 == v14 = "idle"
Idle10 == v11 = "idle" /\ v12 = "idle" /\ v13 = "idle" /\ Idle13
Idle8 == v9 = "idle" /\ v10 = "idle" /\ Idle10
Idle7 == v8 = "idle" /\ Idle8
Idle5 == v6 = "idle" /\ v7 = "idle" /\ Idle7

Init ==
    \/ part = "Switches" /\ Switches!Init
    \/ part = "Console" /\ Console!Init
    \/ part = "Reviews" /\ Reviews!Init
    \/ part = "Withdrawals" /\ Withdrawals!Init /\ Idle13
    \/ part = "Evidence" /\ Evidence!Init /\ Idle13
    \/ part = "InFlight" /\ InFlight!Init /\ Idle13
    \/ part = "Rebalances" /\ Rebalances!Init /\ Idle13
    \/ part = "WithdrawTool" /\ WithdrawTool!Init /\ Idle7
    \/ part = "PolicyTool" /\ PolicyTool!Init /\ Idle7
    \/ part = "BothTools" /\ BothTools!Init /\ Idle7
    \/ part = "GoldcoinTool" /\ GoldcoinTool!Init /\ Idle7
    \/ part = "Breakers" /\ Breakers!Init /\ Idle8
    \/ part = "LimitSets" /\ LimitSets!Init /\ Idle8
    \/ part = "Migration" /\ Migration!Init /\ Idle8
    \/ part = "Edit" /\ Edit!Init /\ Idle10
    \/ part = "Start" /\ Start!Init /\ Idle10
    \/ part = "Payouts" /\ Payouts!Init /\ Idle13
    \/ part = "Shaping" /\ Shaping!Init /\ Idle13
    \/ part = "Operated" /\ Operated!Init /\ Idle13
    \/ part = "Chained" /\ Chained!Init /\ Idle13
    \/ part = "Refunding" /\ Refunding!Init /\ Idle13
    \/ part = "Upgrade" /\ Upgrade!Init /\ Idle5

Next ==
    \/ part = "Switches" /\ Switches!Next /\ UNCHANGED part
    \/ part = "Console" /\ Console!Next /\ UNCHANGED part
    \/ part = "Reviews" /\ Reviews!Next /\ UNCHANGED part
    \/ part = "Withdrawals" /\ Withdrawals!Next /\ UNCHANGED <<part, Beyond13>>
    \/ part = "Evidence" /\ Evidence!Next /\ UNCHANGED <<part, Beyond13>>
    \/ part = "InFlight" /\ InFlight!Next /\ UNCHANGED <<part, Beyond13>>
    \/ part = "Rebalances" /\ Rebalances!Next /\ UNCHANGED <<part, Beyond13>>
    \/ part = "WithdrawTool" /\ WithdrawTool!Next /\ UNCHANGED <<part, Beyond7>>
    \/ part = "PolicyTool" /\ PolicyTool!Next /\ UNCHANGED <<part, Beyond7>>
    \/ part = "BothTools" /\ BothTools!Next /\ UNCHANGED <<part, Beyond7>>
    \/ part = "GoldcoinTool" /\ GoldcoinTool!Next /\ UNCHANGED <<part, Beyond7>>
    \/ part = "Breakers" /\ Breakers!Next /\ UNCHANGED <<part, Beyond8>>
    \/ part = "LimitSets" /\ LimitSets!Next /\ UNCHANGED <<part, Beyond8>>
    \/ part = "Migration" /\ Migration!Next /\ UNCHANGED <<part, Beyond8>>
    \/ part = "Edit" /\ Edit!Next /\ UNCHANGED <<part, Beyond10>>
    \/ part = "Start" /\ Start!Next /\ UNCHANGED <<part, Beyond10>>
    \/ part = "Payouts" /\ Payouts!Next /\ UNCHANGED <<part, Beyond13>>
    \/ part = "Shaping" /\ Shaping!Next /\ UNCHANGED <<part, Beyond13>>
    \/ part = "Operated" /\ Operated!Next /\ UNCHANGED <<part, Beyond13>>
    \/ part = "Chained" /\ Chained!Next /\ UNCHANGED <<part, Beyond13>>
    \/ part = "Refunding" /\ Refunding!Next /\ UNCHANGED <<part, Beyond13>>
    \/ part = "Upgrade" /\ Upgrade!Next /\ UNCHANGED <<part, Beyond5>>

Spec == Init /\ [][Next]_vars

-----------------------------------------------------------------------------
\* The admin API and glc-admin: replaying admin_audit_log gives the switches
\* now in force, an answered request did what its answer says, every row names
\* the operator whose token or shell acted, and nothing is reopened unless the
\* reserve passed its safety checks in the same transaction.
ControlPlaneSound ==
    /\ part = "Switches" => Switches!ControlPlaneSound
    /\ part = "Console" => Console!ControlPlaneSound
    /\ part = "Reviews" => Reviews!ControlPlaneSound

\* Rebalances and custody transitions: nothing is acted on before enough
\* different people approved, one transfer is evidence for one request, and an
\* approved withdrawal is paid at most once whatever crashes and whoever races,
\* and booked only when it was.
CustodySound ==
    /\ part = "Withdrawals" => Withdrawals!CustodySound
    /\ part = "Evidence" => Evidence!CustodySound
    /\ part = "InFlight" => InFlight!CustodySound
    /\ part = "Rebalances" => Rebalances!CustodySound

\* The offline treasury tools: against chain state that moved since the plan
\* was written, the program takes nothing a tool's own checks would stop, and
\* refuses what they let through only for a fact the tool is known to leave to
\* it; and what the vault's keys sign is the plan that was built.
ToolsSound ==
    /\ part = "WithdrawTool" => WithdrawTool!ToolsSound
    /\ part = "PolicyTool" => PolicyTool!ToolsSound
    /\ part = "BothTools" => BothTools!ToolsSound
    /\ part = "GoldcoinTool" => GoldcoinTool!ToolsSound

\* glc-admin's Robinhood governance: what lands is what each custody domain
\* read and approved, limits follow the configured policy, "verified" means
\* installed, and a migration ends with nothing owed.
GovernanceSound ==
    /\ part = "Breakers" => Breakers!GovernanceSound
    /\ part = "LimitSets" => LimitSets!GovernanceSound
    /\ part = "Migration" => Migration!GovernanceSound

\* The configuration: what a tool installs loads, a fee edit moves one route,
\* an open route is priced, no quorum seats a key or a URL twice, and a start the
\* preflight passed is not refused by the checks the preflight made.
ConfigSound ==
    /\ part = "Edit" => Edit!ConfigSound
    /\ part = "Start" => Start!ConfigSound

\* The vault's pool: no coin is spent twice by payouts, refunds and splits that
\* were not revoked, no spent coin is offered, every hold is explained and the
\* chain of unconfirmed payouts stays within its depth (reserve_vault_utxos,
\* begin_goldcoin_refund, sync_vault_utxos, the split bookkeeping,
\* unconfirmed_ancestor_depth).  A split is revoked when it is abandoned after
\* signing, and when a refund takes its source: begin_goldcoin_refund looks at
\* the coin's state and not at the claim, so a split built since the refund
\* read the pool does not stop it.
PoolSound ==
    /\ part = "Payouts" => Payouts!PoolSound
    /\ part = "Shaping" => Shaping!PoolSound
    /\ part = "Operated" => Operated!PoolSound
    /\ part = "Chained" => Chained!PoolSound
    /\ part = "Refunding" => Refunding!PoolSound

\* Money moves one way: the inputs of a payout or a refund never change once
\* recorded, a completed payout and a broadcast refund stay so and a coin one
\* of our transactions spent is never offered again, whatever the sync saw
\* (sync_vault_utxos, complete_payout, begin_goldcoin_refund,
\* abandon_vault_utxo_split).
SpendingIsFinal ==
    [][/\ part = "Payouts" => Payouts!SpendingStep
       /\ part = "Shaping" => Shaping!SpendingStep
       /\ part = "Operated" => Operated!SpendingStep
       /\ part = "Chained" => Chained!SpendingStep
       /\ part = "Refunding" => Refunding!SpendingStep]_vars

\* The program's code changes only to a buffer that stood announced for the
\* whole timelock (upgrade_timelock.rs).
UpgradesAreAnnounced == [][part = "Upgrade" => Upgrade!NoticedStep]_vars
=============================================================================
