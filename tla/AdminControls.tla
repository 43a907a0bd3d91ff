---------------------------- MODULE AdminControls ----------------------------
(***************************************************************************)
(* The operators' control plane: admin_api.rs with its guard and auth      *)
(* submodules, the glc-admin commands that share its audited functions,    *)
(* and the ledger writes they make.                                        *)
(*                                                                         *)
(* Every mutation runs in one BEGIN IMMEDIATE scope (audited_mutation):    *)
(* read the old value, run the mutation in a savepoint, append the audit   *)
(* row, commit.  The steps are separate actions, so that a crash, a        *)
(* storage error or another operator's request may fall between them; the  *)
(* write lock is what keeps other writers out.                             *)
(*                                                                         *)
(* What is controlled is a function from controls to values: the local     *)
(* pauses, Goldcoin's admission flag, each route's enablement and          *)
(* admission, the auto-resume setting, and the review record of a parked   *)
(* request.  The audit trail is the sequence of its rows; a write that the *)
(* code makes without a row (a breaker's pause, the refund executor) is    *)
(* kept in the same sequence, marked unaudited.                            *)
(***************************************************************************)
EXTENDS Naturals, Sequences, SequencesExt

CONSTANTS
    Procs,          \* requests in flight: an HTTP task or a glc-admin process each
    NoProc,
    People,         \* operators of [admin_operators]
    NoOne,
    Tokens,         \* bearer tokens
    Executors,      \* operators with may_execute_glc_refunds
    Reviews,        \* requests in ManualReview
    Routes,         \* routes the instance uses
    HttpVerbs,      \* commands the instance issues through the admin listener
    CliVerbs,       \* and through glc-admin
    Addressed,      \* reserves the instance touches
    MaxUnaudited,   \* bound: breaker pauses
    MaxTurns,       \* bound: changes of the reserves' health
    Events          \* which of "fail", "crash", "busy", "refund" happen

VARIABLES
    tokenOf,        \* the token each operator's token_env holds
    up,             \* the admin listener started
    db,             \* [control, trail]: the committed ledger
    work,           \* the same, inside the open BEGIN IMMEDIATE scope
    lock,           \* who holds that scope
    health,         \* what the reserve's safety checks would say
    turns,
    pc, cmd, who, actor, oldv, result, reply

perProc == <<pc, cmd, who, actor, oldv, result, reply>>
vars == <<tokenOf, up, db, work, lock, health, turns, perProc>>

Reserves == {"goldcoin", "solana", "robinhood"}
Destination(r) ==
    CASE r \in {"GlcToSol", "RhnToSol"} -> "solana"
      [] r \in {"SolToGlc", "RhnToGlc"} -> "goldcoin"
      [] OTHER -> "robinhood"

\* The two Goldcoin-Solana routes have no enablement row.
IsOperatorSettable(r) == r \notin {"GlcToSol", "SolToGlc"}

-----------------------------------------------------------------------------
(* Controls, and what a command addresses *)

PauseVerbs     == {"pause", "unpause"}
AdmissionVerbs == {"admission_close", "admission_open"}
RouteVerbs     == {"route_enable", "route_disable", "route_admission_close",
                   "route_admission_open"}
SettingVerbs   == {"auto_resume_on", "auto_resume_off"}

\* What each verb may name.
Commands(verbs) ==
    UNION { {[verb |-> v, on |-> x] :
             x \in CASE v \in PauseVerbs \cup AdmissionVerbs -> Addressed
                     [] v \in RouteVerbs   -> Routes
                     [] v \in SettingVerbs -> {"setting"}
                     [] OTHER -> Reviews} : v \in verbs }
NoCommand == [verb |-> "none", on |-> "none"]

\* The control a command writes.
Target(c) ==
    CASE c.verb \in PauseVerbs     -> <<"paused", c.on>>
      [] c.verb \in AdmissionVerbs -> <<"admission_closed", c.on>>
      [] c.verb \in {"route_enable", "route_disable"} -> <<"enabled", c.on>>
      [] c.verb \in {"route_admission_close", "route_admission_open"} ->
             <<"route_admission_closed", c.on>>
      [] c.verb \in SettingVerbs   -> <<"auto_resume", c.on>>
      [] OTHER -> <<"review", c.on>>

\* retired: a Solana refund of the request was begun and taken back.
Review(state, hold, decision) ==
    [state |-> state, hold |-> hold, decision |-> decision, retired |-> FALSE]

\* What a mutation comes to: the outcome its row records and the value it leaves.
Done(v)   == [outcome |-> "success", to |-> v]
NoOp(v)   == [outcome |-> "no-op", to |-> v]
Refuse(v) == [outcome |-> "error", to |-> v]
When(guard, v, w) == IF guard THEN Done(w) ELSE Refuse(v)

InitialControl ==
    [t \in ({"paused"} \X Reserves) \cup {<<"admission_closed", "goldcoin">>}
           \cup ({"enabled", "route_admission_closed"} \X Routes)
           \cup {<<"auto_resume", "setting">>} \cup ({"review"} \X Reviews) |->
        IF t[1] = "review"
        THEN Review("ManualReview", "normal", "none")
        ELSE FALSE]

\* A burst hold is placed by the fold, so a request may arrive holding one.
Init ==
    /\ tokenOf \in [People -> Tokens]
    /\ up = FALSE
    /\ \E burst \in SUBSET Reviews :
          db = [trail |-> <<>>,
                control |-> [t \in DOMAIN InitialControl |->
                    IF t[1] = "review" /\ t[2] \in burst
                    THEN Review("ManualReview", "rapid_burst_hold", "none")
                    ELSE InitialControl[t]]]
    /\ work = db
    /\ lock = NoProc
    /\ health = [r \in Reserves |-> "good"]
    /\ turns = 0
    /\ pc = [p \in Procs |-> "Idle"]
    /\ cmd = [p \in Procs |-> NoCommand]
    /\ who = [p \in Procs |-> NoOne]
    /\ actor = [p \in Procs |-> NoOne]
    /\ oldv = [p \in Procs |-> FALSE]
    /\ result = [p \in Procs |-> Refuse(FALSE)]
    /\ reply = [p \in Procs |-> "none"]

-----------------------------------------------------------------------------
(* The guards of guard.rs, evaluated inside the scope *)

ReserveSafetyChecks_OfAnother(r) == \E s \in Reserves : health[s] # "low"

\* check_invariant, check_utxo_liquidity_for_admission and
\* check_liquidity_buffer_for_admission: "low" stands for any of them failing.
ReserveSafetyChecks(r) == health[r] # "low"

OpenAdmissionGuarded(r) == ReserveSafetyChecks(r)
OpenRouteAdmissionGuarded(route) == ReserveSafetyChecks(Destination(route))

GateClosed(control, route) ==
    LET gate == <<"route_admission_closed", route>>
    IN gate \in DOMAIN control /\ control[gate]

\* route_blocker of GlcToRhn with the pause taken out: the highest-ranked gate
\* that would still refuse, and a closed route gate ranks above capacity.
RouteBlocker ==
    IF GateClosed(work.control, "GlcToRhn") THEN "RouteAdmissionClosed"
    ELSE IF health["robinhood"] = "empty" THEN "InsufficientCapacity" ELSE "none"

\* A reserve that passes those checks may still be unable to fund GlcToRhn; the
\* unpause is refused when that is what the evaluator names.
UnpauseRobinhoodReserveGuarded ==
    ReserveSafetyChecks("robinhood") /\ RouteBlocker # "InsufficientCapacity"

-----------------------------------------------------------------------------
(* The mutations: what each makes of the value it finds *)

\* Pausing and closing are never refused; reopening is where the guards are,
\* except for the Goldcoin and Solana pauses.
SetLocalPause(r, paused, v) ==
    When(paused \/ r # "robinhood" \/ UnpauseRobinhoodReserveGuarded, v, paused)
SetAdmission(r, closed, v) ==
    When(r = "goldcoin" /\ (closed \/ OpenAdmissionGuarded(r)), v, closed)
SetRouteEnabled(r, enabled, v) == When(IsOperatorSettable(r), v, enabled)
SetRouteAdmission(r, closed, v) ==
    When(closed \/ OpenRouteAdmissionGuarded(r), v, closed)
SetManualReviewAutoResume(enabled) == Done(enabled)

Parked(v) == v.state = "ManualReview"
Held(v)   == v.hold # "normal"

\* A resume re-checks the reserve it will draw on.
Resumable(v) == Parked(v) /\ health["goldcoin"] = "good"

ManualReviewHold(v) ==
    When(Parked(v) /\ v.hold # "rapid_burst_hold", v,
         [v EXCEPT !.hold = "operator_hold", !.decision = "none"])
ManualReviewHoldRelease(v) ==
    IF ~Held(v) THEN NoOp(v)
    ELSE When(v.hold # "rapid_burst_hold", v, [v EXCEPT !.hold = "normal", !.decision = "release"])

\* The decision and the resume are one savepoint: a refused resume takes the
\* recorded decision back with it.
ManualReviewProcess(v) ==
    When(Held(v) /\ Resumable(v), v, [v EXCEPT !.state = "SourceFinalized", !.decision = "process"])
ManualReviewRefundDecision(v) ==
    When(Parked(v) /\ Held(v), v, [v EXCEPT !.decision = "refund"])
ResumeManualReview(v) ==
    IF v.state = "SourceFinalized" THEN NoOp(v)
    ELSE When(~Held(v) /\ Resumable(v), v, [v EXCEPT !.state = "SourceFinalized"])
ManualReviewClose(v) ==
    IF v.state = "Closed" THEN NoOp(v)
    ELSE When(Parked(v), v, [v EXCEPT !.state = "Closed"])

\* A refund paid outside the bridge is imported as a closure.
ManualRefundImport(v) ==
    IF v.state = "Closed" THEN NoOp(v)
    ELSE When(Parked(v), v, [v EXCEPT !.state = "Closed"])

\* The Solana refund's lifecycle, driven from glc-admin.
BeginSolanaRefund(v) ==
    When(Parked(v) /\ (Held(v) => v.decision = "refund"), v,
         [v EXCEPT !.state = "RefundPending"])
RecordSolanaRefundBroadcast(v) ==
    When(v.state = "RefundPending", v, [v EXCEPT !.state = "RefundBroadcast"])
MarkSolanaRefundConfirmed(v) ==
    When(v.state = "RefundBroadcast", v, [v EXCEPT !.state = "Refunded"])
RefundReturnToManualReview(v) ==
    IF Parked(v) /\ v.retired THEN NoOp(v)
    ELSE When(v.state = "RefundPending", v,
              [v EXCEPT !.state = "ManualReview", !.retired = TRUE])

\* A settlement proved from the chain is applied to the stuck row.
ReconcileSettlement(v) ==
    IF v.state = "Settled" THEN NoOp(v)
    ELSE When(v.state = "SourceFinalized", v, [v EXCEPT !.state = "Settled"])

Run(c, v) ==
    CASE c.verb = "pause"                   -> SetLocalPause(c.on, TRUE, v)
      [] c.verb = "unpause"                 -> SetLocalPause(c.on, FALSE, v)
      [] c.verb = "admission_close"         -> SetAdmission(c.on, TRUE, v)
      [] c.verb = "admission_open"          -> SetAdmission(c.on, FALSE, v)
      [] c.verb = "route_enable"            -> SetRouteEnabled(c.on, TRUE, v)
      [] c.verb = "route_disable"           -> SetRouteEnabled(c.on, FALSE, v)
      [] c.verb = "route_admission_close"   -> SetRouteAdmission(c.on, TRUE, v)
      [] c.verb = "route_admission_open"    -> SetRouteAdmission(c.on, FALSE, v)
      [] c.verb = "auto_resume_on"          -> SetManualReviewAutoResume(TRUE)
      [] c.verb = "auto_resume_off"         -> SetManualReviewAutoResume(FALSE)
      [] c.verb = "hold"                    -> ManualReviewHold(v)
      [] c.verb = "hold_release"            -> ManualReviewHoldRelease(v)
      [] c.verb = "process"                 -> ManualReviewProcess(v)
      [] c.verb = "refund_decision"         -> ManualReviewRefundDecision(v)
      [] c.verb = "resume"                  -> ResumeManualReview(v)
      [] c.verb = "close"                   -> ManualReviewClose(v)
      [] c.verb = "manual_refund_import"    -> ManualRefundImport(v)
      [] c.verb = "refund_begin"            -> BeginSolanaRefund(v)
      [] c.verb = "refund_broadcast"        -> RecordSolanaRefundBroadcast(v)
      [] c.verb = "refund_confirm"          -> MarkSolanaRefundConfirmed(v)
      [] c.verb = "refund_return"           -> RefundReturnToManualReview(v)
      [] c.verb = "reconcile"               -> ReconcileSettlement(v)

\* Only Goldcoin's admission flag exists; asking for another reads nothing.
OldValue(c, control) ==
    IF Target(c) \in DOMAIN control THEN control[Target(c)] ELSE "None"

-----------------------------------------------------------------------------
(* The listener and its tokens *)

\* OperatorRegistry::new refuses two operators with one token.
RegistryAccepted == \A a, b \in People : a # b => tokenOf[a] # tokenOf[b]

StartListener ==
    /\ ~up /\ RegistryAccepted
    /\ up' = TRUE
    /\ UNCHANGED <<tokenOf, db, work, lock, health, turns, perProc>>

\* verify_bearer_with_capabilities scans every operator and keeps a match.
Verified(t) == {a \in People : tokenOf[a] = t}

\* POST and PUT requests; there is none for route enablement or for holds.
\* A browser's request, an unknown token or an empty note is turned away
\* before the ledger is opened.
Request(p, c, t) ==
    /\ up /\ pc[p] = "Idle" /\ reply[p] = "none"
    /\ IF Verified(t) = {}
       THEN /\ reply' = [reply EXCEPT ![p] = "unauthorized"]
            /\ UNCHANGED <<pc, cmd, who, actor>>
       ELSE /\ \E a \in Verified(t), h \in {q \in People : tokenOf[q] = t} :
                  /\ actor' = [actor EXCEPT ![p] = a]
                  /\ who' = [who EXCEPT ![p] = h]
            /\ cmd' = [cmd EXCEPT ![p] = c]
            /\ pc' = [pc EXCEPT ![p] = "Begin"]
            /\ UNCHANGED reply
    /\ UNCHANGED <<tokenOf, up, db, work, lock, health, turns, oldv, result>>

\* glc-admin opens the same ledger file under the operator's own login.
CliCommand(p, c) ==
    /\ pc[p] = "Idle" /\ reply[p] = "none"
    /\ actor' = [actor EXCEPT ![p] = "cli"]
    /\ who' = [who EXCEPT ![p] = "cli"]
    /\ cmd' = [cmd EXCEPT ![p] = c]
    /\ pc' = [pc EXCEPT ![p] = "Begin"]
    /\ UNCHANGED <<tokenOf, up, db, work, lock, health, turns, oldv, result, reply>>

-----------------------------------------------------------------------------
(* audited_mutation, one step at a time *)

\* The handler returns: its locals are gone.
Answer(p, r) ==
    /\ pc' = [pc EXCEPT ![p] = "Idle"]
    /\ reply' = [reply EXCEPT ![p] = r]
    /\ cmd' = [cmd EXCEPT ![p] = NoCommand]
    /\ who' = [who EXCEPT ![p] = NoOne]
    /\ actor' = [actor EXCEPT ![p] = NoOne]
    /\ oldv' = [oldv EXCEPT ![p] = FALSE]
    /\ result' = [result EXCEPT ![p] = Refuse(FALSE)]

Rollback(p) ==
    /\ work' = db /\ lock' = NoProc
    /\ Answer(p, "storage")

\* BEGIN IMMEDIATE takes the write lock and the old value is read under it; a
\* read that fails rolls the scope back with nothing written.
BeginAdminAction(p) ==
    /\ pc[p] = "Begin" /\ lock = NoProc
    /\ lock' = p
    /\ work' = db
    /\ oldv' = [oldv EXCEPT ![p] = OldValue(cmd[p], db.control)]
    /\ pc' = [pc EXCEPT ![p] = "Mutate"]
    /\ UNCHANGED <<tokenOf, up, db, health, turns, cmd, who, actor, result, reply>>

\* SQLITE_BUSY: another scope outlived the busy timeout.
LedgerBusy(p) ==
    /\ "busy" \in Events
    /\ pc[p] = "Begin" /\ lock # NoProc
    /\ Answer(p, "storage")
    /\ UNCHANGED <<tokenOf, up, db, work, lock, health, turns>>

Mutation(p) ==
    /\ pc[p] = "Mutate" /\ lock = p
    /\ LET ran == Run(cmd[p], OldValue(cmd[p], work.control))
       IN  /\ result' = [result EXCEPT ![p] = ran]
           /\ work' = IF ran.outcome = "success"
                      THEN [work EXCEPT !.control[Target(cmd[p])] = ran.to]
                      ELSE work
    /\ pc' = [pc EXCEPT ![p] = "Append"]
    /\ UNCHANGED <<tokenOf, up, db, lock, health, turns, cmd, who, actor, oldv, reply>>

\* safe is the guard's verdict on the reserve a command opens, kept to state
\* what an opening was allowed on.
AuditRow(p) ==
    [by |-> p, person |-> who[p], actor |-> actor[p], cmd |-> cmd[p],
     old |-> oldv[p], new |-> result[p].to, outcome |-> result[p].outcome,
     safe |-> health]

AppendAdminAudit(p) ==
    /\ pc[p] = "Append" /\ lock = p
    /\ work' = [work EXCEPT !.trail = Append(@, AuditRow(p))]
    /\ pc' = [pc EXCEPT ![p] = "Commit"]
    /\ UNCHANGED <<tokenOf, up, db, lock, health, turns, cmd, who, actor, oldv,
                   result, reply>>

CommitAdminAction(p) ==
    /\ pc[p] = "Commit" /\ lock = p
    /\ db' = work /\ lock' = NoProc
    /\ Answer(p, IF result[p].outcome = "error" THEN "refused" ELSE "ok")
    /\ UNCHANGED <<tokenOf, up, work, health, turns>>

\* The old-value read, the audit append or the commit reports an error.
StorageFails(p) ==
    /\ "fail" \in Events
    /\ pc[p] \in {"Mutate", "Append", "Commit"} /\ lock = p
    /\ Rollback(p)
    /\ UNCHANGED <<tokenOf, up, db, health, turns>>

\* The process dies: SQLite discards its scope and nobody is answered.
Crash(p) ==
    /\ "crash" \in Events
    /\ pc[p] # "Idle"
    /\ Answer(p, "lost")
    /\ IF lock = p THEN lock' = NoProc /\ work' = db ELSE UNCHANGED <<lock, work>>
    /\ UNCHANGED <<tokenOf, up, db, health, turns>>

-----------------------------------------------------------------------------
(* Writers that leave no audit row *)

Unaudited(t, v) ==
    [by |-> NoProc, person |-> NoOne, actor |-> NoOne,
     cmd |-> [verb |-> "unaudited", on |-> t], old |-> v, new |-> v,
     outcome |-> "unaudited", safe |-> health]

WriteUnaudited(t, v) ==
    db' = [control |-> [db.control EXCEPT ![t] = v],
           trail |-> Append(db.trail, Unaudited(t, v))]

\* A breach, a spent quota or a deep reorganisation pauses the reserve.
AutomaticPause(r) ==
    /\ lock = NoProc
    /\ Len(SelectSeq(db.trail, LAMBDA row : row.by = NoProc)) < MaxUnaudited
    /\ ~db.control[<<"paused", r>>]
    /\ WriteUnaudited(<<"paused", r>>, TRUE)
    /\ work' = db'
    /\ UNCHANGED <<tokenOf, up, lock, health, turns, perProc>>

\* POST /refunds/glc/{id}/execute: the refund is begun, signed and broadcast
\* in the executor's own transactions, under the Goldcoin pause; the audit
\* row follows when everything has succeeded, and its failure is ignored.
ExecuteGlcRefund(p, q, t) ==
    /\ "refund" \in Events
    /\ up /\ pc[p] = "Idle" /\ reply[p] = "none" /\ lock = NoProc
    /\ \E a \in Verified(t) \cap Executors :
          /\ actor' = [actor EXCEPT ![p] = a]
          /\ who' = [who EXCEPT ![p] = a]
    /\ cmd' = [cmd EXCEPT ![p] = [verb |-> "execute_glc_refund", on |-> q]]
    /\ LET v == db.control[<<"review", q>>]
       IN  /\ v.state = "ManualReview" /\ db.control[<<"paused", "goldcoin">>]
           /\ WriteUnaudited(<<"review", q>>, [v EXCEPT !.state = "RefundPending"])
    /\ work' = db'
    /\ pc' = [pc EXCEPT ![p] = "Executed"]
    /\ UNCHANGED <<tokenOf, up, lock, health, turns, oldv, result, reply>>

RefundAudited(p) ==
    /\ pc[p] = "Executed" /\ lock = NoProc
    /\ \/ /\ db' = [db EXCEPT !.trail = Append(@, 
               [AuditRow(p) EXCEPT !.outcome = "success"])]
          /\ work' = db'
       \/ "fail" \in Events /\ UNCHANGED <<db, work>>
    /\ Answer(p, "executed")
    /\ UNCHANGED <<tokenOf, up, lock, health, turns>>

\* Settlement, deposits and balance refreshes move a reserve in and out of
\* what the checks accept; they are ledger writes too, so they wait for the lock.
HealthChanges(r, h) ==
    /\ lock = NoProc /\ turns < MaxTurns
    /\ health[r] # h
    /\ health' = [health EXCEPT ![r] = h]
    /\ turns' = turns + 1
    /\ UNCHANGED <<tokenOf, up, db, work, lock, perProc>>

Next ==
    \/ StartListener
    \/ \E p \in Procs, c \in Commands(HttpVerbs), t \in Tokens : Request(p, c, t)
    \/ \E p \in Procs, c \in Commands(CliVerbs) : CliCommand(p, c)
    \/ \E p \in Procs :
          \/ BeginAdminAction(p)
          \/ LedgerBusy(p)
          \/ Mutation(p)
          \/ AppendAdminAudit(p)
          \/ CommitAdminAction(p)
          \/ StorageFails(p)
          \/ Crash(p)
          \/ RefundAudited(p)
    \/ \E p \in Procs, q \in Reviews, t \in Tokens : ExecuteGlcRefund(p, q, t)
    \/ \E r \in Addressed : AutomaticPause(r)
    \/ \E r \in Addressed, h \in {"good", "empty", "low"} : HealthChanges(r, h)

Spec == Init /\ [][Next]_vars

-----------------------------------------------------------------------------
(* Properties *)

Rows(p) == {i \in 1..Len(db.trail) : db.trail[i].by = p}

\* One row of the trail applied to the controls it was written against.
Replayed(control, row) ==
    CASE row.outcome = "unaudited" -> [control EXCEPT ![row.cmd.on] = row.new]
      [] row.outcome = "success" /\ row.cmd.verb # "execute_glc_refund" ->
             [control EXCEPT ![Target(row.cmd)] = row.new]
      [] OTHER -> control

\* The controls before row i, from the trail alone.  The request that was
\* already burst-held at the start is read off the current control, which no
\* command but a hold or its release changes.
Before(start, i) == FoldLeft(Replayed, start, SubSeq(db.trail, 1, i - 1))

Starts ==
    {[t \in DOMAIN InitialControl |->
        IF t[1] = "review" /\ t[2] \in burst
        THEN Review("ManualReview", "rapid_burst_hold", "none")
        ELSE InitialControl[t]] : burst \in SUBSET Reviews}

\* Replaying the audit trail yields the ledger's controls, and every row's old
\* value is the one the row before it left: no mutation without its row, none
\* recorded that did not happen, no two operators recording one transition
\* (the audited_mutation doc, admin_api.rs).
TrailReplays ==
    \E s \in Starts :
        /\ Before(s, Len(db.trail) + 1) = db.control
        /\ \A i \in 1..Len(db.trail) :
              db.trail[i].outcome # "unaudited" /\
              db.trail[i].cmd.verb # "execute_glc_refund" =>
                  db.trail[i].old = OldValue(db.trail[i].cmd, Before(s, i))

\* What the operator is told is what the trail says: ok and refused mean one
\* row with that outcome, a storage error or a refused token means none.
AnsweredTruthfully ==
    \A p \in Procs :
        CASE reply[p] = "ok" -> \E i \in Rows(p) :
                Rows(p) = {i} /\ db.trail[i].outcome \in {"success", "no-op"}
          [] reply[p] = "refused" -> \E i \in Rows(p) :
                Rows(p) = {i} /\ db.trail[i].outcome = "error"
          [] reply[p] = "executed" -> TRUE
          [] OTHER -> Rows(p) = {}

\* A row names the operator who acted, although it is a token that acted.
RowsNameTheOperator ==
    \A i \in 1..Len(db.trail) : db.trail[i].actor = db.trail[i].person

\* Admission, a route and the Robinhood gate reopen only while the reserve
\* that will pay passes its checks, at the moment of the write; the Robinhood
\* pause is not cleared onto an open route the reserve cannot fund.  (Behind a
\* closed route gate it is: the gate outranks capacity in route_blocker.)
OpenedOnlyWhenSafe ==
    \A i \in 1..Len(db.trail) :
        LET row == db.trail[i] IN
        row.outcome = "success" =>
            /\ row.cmd.verb = "admission_open" => row.safe["goldcoin"] # "low"
            /\ row.cmd.verb = "route_admission_open" =>
                   row.safe[Destination(row.cmd.on)] # "low"
            /\ row.cmd = [verb |-> "unpause", on |-> "robinhood"] =>
                   /\ row.safe["robinhood"] # "low"
                   /\ ~GateClosed(Before(InitialControl, i), "GlcToRhn") =>
                          row.safe["robinhood"] = "good"

\* The operators' trail is complete, true and attributed, and openings are safe.
ControlPlaneSound ==
    TrailReplays /\ AnsweredTruthfully /\ RowsNameTheOperator /\ OpenedOnlyWhenSafe

\* Every mutation is recorded in admin_audit_log (admin_api.rs, module doc);
\* the refund executor appends its row last and ignores a failure.
EveryMutationRecorded ==
    \A p \in Procs : reply[p] \in {"ok", "executed"} => \E i \in Rows(p) : TRUE
=============================================================================
