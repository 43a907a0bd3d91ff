---------------------------- MODULE LedgerSchema ----------------------------
(***************************************************************************)
(* The ledger's schema ladder (ledger/schema.rs): thirty-eight migrations, *)
(* each a list of SQLite statements, run by every process that opens the   *)
(* database.  schema_version is written once, after the last of them, so a *)
(* process killed half way leaves an old version over a newer shape and    *)
(* the next open runs the whole ladder again from that version.            *)
(*                                                                         *)
(* The database is a set of objects: tables, the columns, checks and       *)
(* indexes a migration names, and "rows" for the data a table held before  *)
(* the upgrade began.  A statement outside a transaction commits by        *)
(* itself; a block with tx set commits as a whole or not at all.           *)
(***************************************************************************)
EXTENDS Naturals, FiniteSets, SequencesExt

CONSTANTS
    Processes,     \* processes opening the database at the same time
    StartVersions, \* schema versions the upgrade may start from (0: a new file)
    CrashIn,       \* migrations during which a process may be killed
    MaxCrashes     \* bound: kills

VARIABLES
    db,            \* the objects of the database
    version,       \* schema_version, 0 while the table is empty
    proc,          \* process -> where it stands in the ladder
    filled,        \* the tables that held rows when the upgrade began
    crashes

vars == <<db, version, proc, filled, crashes>>

Current == 38

-----------------------------------------------------------------------------
(* Objects and statements *)

Obj(t, k, n) == [tab |-> t, kind |-> k, name |-> n]
Table(t)     == Obj(t, "table", "")
Col(t, c)    == Obj(t, "column", c)
Check(t, c)  == Obj(t, "check", c)
Ix(t, i)     == Obj(t, "index", i)
Rows(t)      == Obj(t, "rows", "")

Of(t, objs) == {o \in objs : o.tab = t}

Moved(from, to, objs) == {[o EXCEPT !.tab = to] : o \in Of(from, objs)}

Stmt(op, t, objs, other) == [op |-> op, tab |-> t, objs |-> objs, other |-> other]

Create(t, objs)    == Stmt("create", t, objs \cup {Table(t)}, "")
CreateIf(t, objs)  == Stmt("createIf", t, objs \cup {Table(t)}, "")
Add(t, c)          == Stmt("add", t, {Col(t, c)}, "")
AddIf(t, c)        == Stmt("addIf", t, {Col(t, c)}, "")
Index(t, i)        == Stmt("add", t, {Ix(t, i)}, "")
IndexIf(t, i)      == Stmt("addIf", t, {Ix(t, i)}, "")
Drop(t)            == Stmt("drop", t, {}, "")
DropIf(t)          == Stmt("dropIf", t, {}, "")
Rename(from, to)   == Stmt("rename", from, {}, to)
Copy(to, from)     == Stmt("copy", to, {}, from)
Require(t)         == Stmt("require", t, {}, "")
Widen(t, c)        == Stmt("widen", t, {Check(t, c)}, "")
Clone(t, c)        == Stmt("clone", t, {Check(t, c)}, "rebuild")
Reattach(t)        == Stmt("reattach", t, {}, "")

Creates(ts) == [i \in DOMAIN ts |-> Create(ts[i], {})]

Block(unless, tx, body) == [unless |-> unless, tx |-> tx, body |-> body]

Plain(body) == Block({}, FALSE, body)

\* widen_check_constraint outside a transaction, statement by statement.
WidenSteps(t, c) ==
    Block({Check(t, c)}, FALSE,
          <<Clone(t, c), Copy("rebuild", t), Drop(t), Rename("rebuild", t), Reattach(t)>>)

\* Whether a statement succeeds, and the database after it.  attached is what
\* the process remembers of the indexes of the table it is rebuilding.
Succeeds(objs, s) ==
    CASE s.op = "create" -> Table(s.tab) \notin objs
      [] s.op \in {"createIf", "dropIf", "reattach"} -> TRUE
      [] s.op = "add" -> Table(s.tab) \in objs /\ s.objs \cap objs = {}
      [] s.op \in {"addIf", "drop", "require", "widen"} -> Table(s.tab) \in objs
      [] s.op = "clone" -> Table(s.tab) \in objs /\ Table(s.other) \notin objs
      [] s.op = "rename" -> Table(s.tab) \in objs /\ Table(s.other) \notin objs
      [] s.op = "copy" -> Table(s.tab) \in objs /\ Table(s.other) \in objs

Effect(objs, s, attached) ==
    CASE s.op \in {"create", "add", "addIf"} -> objs \cup s.objs
      [] s.op = "createIf" -> IF Table(s.tab) \in objs THEN objs ELSE objs \cup s.objs
      [] s.op \in {"drop", "dropIf"} -> objs \ Of(s.tab, objs)
      [] s.op = "rename" -> (objs \ Of(s.tab, objs)) \cup Moved(s.tab, s.other, objs)
      [] s.op = "copy" -> objs \cup {Rows(s.tab) : o \in objs \cap {Rows(s.other)}}
      [] s.op = "require" -> objs
      [] s.op = "widen" -> objs \cup s.objs
      [] s.op = "clone" ->
            objs \cup Moved(s.tab, s.other,
                            {o \in objs : o.kind \in {"table", "column", "check"}} \cup s.objs)
      [] s.op = "reattach" -> objs \cup attached

-----------------------------------------------------------------------------
(* The ladder *)

BridgeRequestsV21 ==
    {Col("bridge_requests", c) : c \in {"gross_amount", "fees", "deposit_address",
        "deposit_script", "deposit_redeem_script", "observed_amount", "source_chain"}}

V1 == <<Plain(Creates(<<"goldcoin_indexed_blocks", "goldcoin_reorg_events",
                        "solana_indexer_state", "bridge_requests">>)
              \o <<Index("bridge_requests", "ux_glc_source"), Index("bridge_requests", "ux_sol_source"),
                   Index("bridge_requests", "ix_state")>>
              \o Creates(<<"bridge_request_state_log", "reserve_ledger", "reconciliation_findings">>))>>

V2 == <<Plain(<<Create("vault_utxos", {}), Index("vault_utxos", "ix_state")>>
              \o Creates(<<"goldcoin_payouts", "goldcoin_payout_inputs">>))>>

V3 == <<Plain(<<Add("goldcoin_payouts", "mined_height"), Add("goldcoin_payouts", "completion_signature"),
                Add("goldcoin_payouts", "completion_submitted"), Add("goldcoin_payouts", "completed_at")>>)>>

V4 == <<Plain(Creates(<<"attestation_records", "signature_grant_log">>)
              \o <<Index("signature_grant_log", "ix_request")>>)>>

V5 == <<Plain(<<Add("bridge_requests", "gross_amount"), Add("bridge_requests", "fees"),
                Add("reserve_ledger", "accrued_fees")>>)>>

V6 == <<Plain(<<Create("rebalance_requests", {}), Index("rebalance_requests", "ux_tx_reference"),
                Index("rebalance_requests", "ix_state"), Create("rebalance_state_log", {})>>)>>

V7 == <<Plain(Creates(<<"post_finality_reorg_events">>))>>

V8 == <<Plain(<<Create("custody_transitions", {}), Index("custody_transitions", "ux_tx_reference"),
                Index("custody_transitions", "ix_state"), Create("custody_transition_state_log", {})>>)>>

V9 == <<Plain(<<AddIf("bridge_requests", "deposit_address"), AddIf("bridge_requests", "deposit_script"),
                AddIf("bridge_requests", "deposit_redeem_script"),
                IndexIf("bridge_requests", "ux_deposit_script")>>)>>

V10 == <<Plain(<<CreateIf("vault_utxo_splits", {}), IndexIf("vault_utxo_splits", "ux_source")>>)>>

V11 == <<Plain(<<AddIf("reserve_ledger", "admission_closed"), AddIf("reserve_ledger", "admission_reason")>>)>>

V12 == <<Plain(<<CreateIf("goldcoin_payout_change_outputs", {}),
                 AddIf("reserve_ledger", "utxo_pool_min"), AddIf("reserve_ledger", "utxo_pool_warning")>>)>>

V13 == <<Plain(<<IndexIf("bridge_requests", "ix_recipient_window")>>)>>

V14 == <<Plain(<<CreateIf("goldcoin_payout_change_outpoints", {}),
                 AddIf("vault_utxos", "zero_conf_hold_reason")>>)>>

V15 == <<Plain(<<CreateIf("admin_audit_log", {}), IndexIf("admin_audit_log", "ix_at"),
                 IndexIf("admin_audit_log", "ix_action"), IndexIf("admin_audit_log", "ix_actor")>>)>>

SplitsRebuild ==
    <<DropIf("splits_v16"), Create("splits_v16", {Col("splits_v16", "missing_inputs_since")}),
      Copy("splits_v16", "vault_utxo_splits"), Drop("vault_utxo_splits"),
      Rename("splits_v16", "vault_utxo_splits"), Index("vault_utxo_splits", "ux_source"),
      Index("vault_utxo_splits", "ix_state"), Index("vault_utxo_splits", "ix_txid")>>

V16_Untransacted == <<Block({Col("vault_utxo_splits", "missing_inputs_since")}, FALSE, SplitsRebuild)>>

\* The rebuild is one transaction, so that a kill leaves the old table.
V16 == <<Block({Col("vault_utxo_splits", "missing_inputs_since")}, TRUE, SplitsRebuild)>>

V17 == <<Plain(<<CreateIf("solana_refunds", {}), IndexIf("solana_refunds", "ix_state")>>)>>

V18 == <<Plain(<<AddIf("reserve_ledger", "buffer"), AddIf("reserve_ledger", "reopen"),
                 AddIf("reserve_ledger", "liquidity_closed"), AddIf("reserve_ledger", "liquidity_closed_at")>>)>>

V19 == <<Plain(<<CreateIf("goldcoin_refunds", {}), CreateIf("goldcoin_refund_inputs", {}),
                 IndexIf("goldcoin_refunds", "ix_state")>>)>>

V20 == <<Plain(<<AddIf("bridge_requests", "observed_amount")>>)>>

IndexesV21 ==
    <<Index("bridge_requests", "ux_glc_source"), Index("bridge_requests", "ix_state"),
      Index("bridge_requests", "ux_deposit_script"),
      Index("bridge_requests", "ix_recipient_window"), Index("bridge_requests", "ux_obligation_source"),
      Index("bridge_requests", "ux_solana_obligation")>>

\* bridge_requests is rebuilt under its qualified identity: every column the
\* earlier migrations added is listed again, and every index made again.
V21 ==
    <<Block({Col("bridge_requests", "source_chain")}, TRUE,
        <<DropIf("requests_v21"), Create("requests_v21", Moved("bridge_requests", "requests_v21", BridgeRequestsV21)),
          Copy("requests_v21", "bridge_requests"), Drop("bridge_requests"),
          Rename("requests_v21", "bridge_requests")>> \o IndexesV21)>>

V22 ==
    <<Block({Table("robinhood_deposit_observations")}, FALSE,
        Creates(<<"robinhood_scanned_blocks", "robinhood_indexer_state", "robinhood_deposit_observations">>)
        \o <<Index("robinhood_deposit_observations", "ux_obligation"),
             Index("robinhood_deposit_observations", "ux_log_identity"),
             Index("robinhood_deposit_observations", "ix_finality"), Create("robinhood_reorg_events", {})>>)>>

WideningsV23 ==
    <<Widen("bridge_requests", "four directions"), Widen("reserve_ledger", "three reserves"),
      Widen("robinhood_deposit_observations", "settled"),
      Add("robinhood_deposit_observations", "folded_request_id"),
      Index("robinhood_deposit_observations", "ux_request")>>

TransactionTablesV23 ==
    Creates(<<"evm_submitter_state", "robinhood_transactions">>)
    \o <<Index("robinhood_transactions", "ux_operation"), Index("robinhood_transactions", "ux_contract_request"),
         Index("robinhood_transactions", "ux_nonce"), Index("robinhood_transactions", "ix_state"),
         Create("robinhood_authorization_signatures", {}),
         Index("robinhood_authorization_signatures", "ux_distinct")>>

V23 == <<Block({Table("robinhood_transactions")}, TRUE, WideningsV23 \o TransactionTablesV23)>>

V24 == <<Plain(<<CreateIf("bridge_routes", {})>>)>>

V25 == <<Plain(<<CreateIf("route_admission", {})>>)>>

TransactionsRebuild ==
    <<Create("tx_v26", {Col("tx_v26", "rebalance_request_id")}), Copy("tx_v26", "robinhood_transactions"),
      Drop("robinhood_transactions"), Rename("tx_v26", "robinhood_transactions"),
      Index("robinhood_transactions", "ux_operation"), Index("robinhood_transactions", "ux_contract_request"),
      Index("robinhood_transactions", "ux_nonce"), Index("robinhood_transactions", "ix_state"),
      Index("robinhood_transactions", "ux_rebalance")>>

\* Neither the widening nor the rebuild is in a transaction.
V26 ==
    <<Plain(<<Require("robinhood_transactions")>>),
      WidenSteps("rebalance_requests", "three reserves"),
      Block({Col("robinhood_transactions", "rebalance_request_id")}, FALSE, TransactionsRebuild)>>

V27 ==
    <<Block({}, TRUE,
        <<Widen("bridge_requests", "six directions"), Widen("robinhood_transactions", "four routes"),
          Widen("robinhood_transactions", "payout routes"), Widen("route_admission", "four routes"),
          AddIf("robinhood_transactions", "completion_signature"),
          AddIf("robinhood_transactions", "completion_submitted")>>)>>

V28 == <<Plain(<<AddIf("bridge_requests", "source_wallet"), IndexIf("bridge_requests", "ix_source_wallet")>>)>>

V29 == <<Plain(<<AddIf("bridge_requests", "hold_note"), AddIf("bridge_requests", "hold_until")>>)>>

V30 == <<Plain(<<AddIf("bridge_requests", "disposition"), AddIf("bridge_requests", "hold_reason"),
                 AddIf("bridge_requests", "review_after"), AddIf("bridge_requests", "operator_decision"),
                 CreateIf("rapid_burst_policy", {})>>)>>

V31 == <<Plain(<<AddIf("robinhood_indexer_state", "bound_contract")>>)>>

V32 == <<Plain(<<CreateIf("request_closures", {Check("request_closures", "retained")})>>)>>

V33 ==
    <<Plain(<<CreateIf("bridge_settings", {}), Require("request_closures")>>),
      Block({Check("request_closures", "retained")}, FALSE,
        <<Create("closures_v33", {Check("closures_v33", "retained")}), Copy("closures_v33", "request_closures"),
          Drop("request_closures"), Rename("closures_v33", "request_closures")>>),
      Block({Col("rapid_burst_policy", "cap_sized_min")}, FALSE,
        <<Add("rapid_burst_policy", "cap_sized_min"), Add("rapid_burst_policy", "max_cap_sized")>>)>>

V34 == <<Plain(<<AddIf("goldcoin_payouts", "completion_submissions")>>)>>

V35 == <<Plain(<<CreateIf("manual_solana_refunds", {}), IndexIf("manual_solana_refunds", "ix_batch")>>)>>

V36 == <<Plain(<<CreateIf("solana_refunds_retired", {}), IndexIf("solana_refunds_retired", "ix_request")>>)>>

V37 == <<Plain(<<AddIf("bridge_requests", "quote_prices"), AddIf("bridge_requests", "quote_times"),
                 AddIf("bridge_requests", "quote_locked_at")>>)>>

V38 == <<WidenSteps("route_admission", "six routes")>>

Ladder ==
    <<V1, V2, V3, V4, V5, V6, V7, V8, V9, V10, V11, V12, V13, V14, V15, V16, V17, V18, V19, V20,
      V21, V22, V23, V24, V25, V26, V27, V28, V29, V30, V31, V32, V33, V34, V35, V36, V37, V38>>

-----------------------------------------------------------------------------
(* Running a block or a version as a whole *)

Skipped(objs, b) == b.unless # {} /\ b.unless \subseteq objs

Attached(t, objs) == {o \in Of(t, objs) : o.kind = "index"}

RunBody(objs, b) ==
    LET rebuilt == {b.body[i].tab : i \in {j \in DOMAIN b.body : b.body[j].op = "clone"}}
        kept    == UNION {Attached(t, objs) : t \in rebuilt}
    IN  FoldLeft(LAMBDA o, s : Effect(o, s, kept), objs, b.body)

\* No statement of a transaction fails.
Commits(objs, b) ==
    FoldLeft(LAMBDA r, s : [ok |-> r.ok /\ Succeeds(r.objs, s), objs |-> Effect(r.objs, s, {})],
             [ok |-> TRUE, objs |-> objs], b.body).ok

RunVersion(objs, v) ==
    FoldLeft(LAMBDA o, b : IF Skipped(o, b) THEN o ELSE RunBody(o, b), objs, Ladder[v])

-----------------------------------------------------------------------------
(* Opening the database *)

Closed == [at |-> "closed", v |-> 0, b |-> 0, s |-> 0, attached |-> {}]

Init ==
    /\ db = {} /\ version = 0 /\ filled = {}
    /\ proc = [p \in Processes |-> Closed]
    /\ crashes = 0

\* Earlier releases of the service brought the database, run by run, to the
\* version this upgrade starts from, and filled its tables.
EarlierRelease ==
    /\ filled = {} /\ version + 1 \in 1..(Current - 1)
    /\ \A p \in Processes : proc[p] = Closed
    /\ crashes = 0
    /\ version' = version + 1
    /\ db' = RunVersion(db, version + 1)
    /\ UNCHANGED <<filled, proc, crashes>>

Fill ==
    /\ filled = {} /\ version \in StartVersions \ {0}
    /\ \A p \in Processes : proc[p] = Closed
    /\ crashes = 0
    /\ filled' = {o.tab : o \in db}
    /\ db' = db \cup {Rows(o.tab) : o \in db}
    /\ UNCHANGED <<version, proc, crashes>>

\* The start of a version, or after the last the write of schema_version.
Position(v, b) ==
    IF v > Current THEN [Closed EXCEPT !.at = "stamp"]
    ELSE [Closed EXCEPT !.at = "block", !.v = v, !.b = b]

Open(p) ==
    /\ proc[p].at = "closed"
    /\ filled # {} \/ (version = 0 /\ 0 \in StartVersions)
    /\ version <= Current     \* SchemaTooNew otherwise
    /\ proc' = [proc EXCEPT ![p] = Position(version + 1, 1)]
    /\ UNCHANGED <<db, version, filled, crashes>>

\* After a block: the next one of its version, or the next version.
Thereafter(v, b) == IF b < Len(Ladder[v]) THEN Position(v, b + 1) ELSE Position(v + 1, 1)

\* The block's probe is read, outside any transaction.
Probe(p) ==
    LET at == proc[p]
        blk == Ladder[at.v][at.b]
    IN  /\ at.at = "block"
        /\ proc' = [proc EXCEPT ![p] =
                        IF Skipped(db, blk) THEN Thereafter(at.v, at.b)
                        ELSE [at EXCEPT !.at = "stmt", !.s = 1]]
        /\ UNCHANGED <<db, version, filled, crashes>>

Failed(p) == proc' = [proc EXCEPT ![p] = [Closed EXCEPT !.at = "failed"]]

\* A whole transaction, or one statement that commits by itself.
Execute(p) ==
    LET at   == proc[p]
        blk  == Ladder[at.v][at.b]
        stmt == blk.body[at.s]
        held == IF stmt.op = "clone" THEN Attached(stmt.tab, db) ELSE at.attached
        ok   == IF blk.tx THEN Commits(db, blk) ELSE Succeeds(db, stmt)
        last == blk.tx \/ at.s = Len(blk.body)
    IN  /\ at.at = "stmt"
        /\ \/ /\ ok
              /\ db' = IF blk.tx THEN RunBody(db, blk) ELSE Effect(db, stmt, at.attached)
              /\ proc' = [proc EXCEPT ![p] =
                      IF last THEN Thereafter(at.v, at.b)
                      ELSE [at EXCEPT !.s = @ + 1, !.attached = held]]
           \/ /\ ~ok
              /\ Failed(p)
              /\ UNCHANGED db
        /\ UNCHANGED <<version, filled, crashes>>

\* UPDATE schema_version, after the last migration.
Stamp(p) ==
    /\ proc[p].at = "stamp"
    /\ version' = Current
    /\ proc' = [proc EXCEPT ![p] = [Closed EXCEPT !.at = "open"]]
    /\ UNCHANGED <<db, filled, crashes>>

\* The process is killed; an open transaction is rolled back by the next open.
Kill(p) ==
    /\ crashes < MaxCrashes
    /\ proc[p].at \in {"block", "stmt"} /\ proc[p].v \in CrashIn
    /\ proc' = [proc EXCEPT ![p] = Closed]
    /\ crashes' = crashes + 1
    /\ UNCHANGED <<db, version, filled>>

Next ==
    \/ EarlierRelease \/ Fill
    \/ \E p \in Processes : Open(p) \/ Probe(p) \/ Execute(p) \/ Stamp(p) \/ Kill(p)

Spec == Init /\ [][Next]_vars

-----------------------------------------------------------------------------
(* Properties *)

TypeOK ==
    /\ version \in 0..Current
    /\ \A p \in Processes : proc[p].at \in {"closed", "block", "stmt", "stamp", "open", "failed"}

\* Whatever some migration declares, under the name its table ends with; the
\* one index a rebuild replaces is left out.
TemporaryNames ==
    [rebuild |-> "", splits_v16 |-> "vault_utxo_splits", requests_v21 |-> "bridge_requests",
     tx_v26 |-> "robinhood_transactions", closures_v33 |-> "request_closures"]

Declared ==
    LET stmts == UNION {UNION {Range(b.body) : b \in Range(Ladder[v])} : v \in 1..Current}
        objs  == UNION {s.objs : s \in stmts}
    IN  {IF o.tab \in DOMAIN TemporaryNames THEN [o EXCEPT !.tab = TemporaryNames[@]] ELSE o : o \in objs}
        \ {Ix("bridge_requests", "ux_sol_source")}

\* A ladder run again after a kill never fails, and a process that opens the
\* database finds every table, column, check and index any migration declares,
\* the replay guards among them, with the rows it held before (schema.rs
\* 38-41: every migration is structurally idempotent, so rolling forward
\* re-applies cleanly and loses nothing).
InterruptedUpgradeRecovers ==
    \A p \in Processes :
        /\ proc[p].at # "failed"
        /\ proc[p].at = "open" => db = Declared \cup {Rows(t) : t \in filled}
=============================================================================
