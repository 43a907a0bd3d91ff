------------------------- MODULE RobinhoodGovernance -------------------------
(***************************************************************************)
(* Governing the Robinhood contract from glc-admin: the                    *)
(* robinhood-governance-* commands, the session that plans, has signed,    *)
(* sends and verifies one action, the custody domains that sign it, and    *)
(* the part of the contract that an action reaches.                        *)
(*                                                                         *)
(* A session reads the contract call by call, waits for people and         *)
(* machines, and sends a transaction that may land long after it stopped   *)
(* waiting.  Meanwhile guardians pause and veto, other sessions govern,    *)
(* and the signer set is rotated.  A custody domain sees nothing but a     *)
(* document over HTTP; who sent it, and what it was told, is not its       *)
(* concern.                                                                *)
(***************************************************************************)
EXTENDS Integers, Sequences, FiniteSets, TLC

CONSTANTS
    Sessions,        \* glc-admin processes, each running one command
    Commands,        \* the command lines an operator may type
    Domains,         \* custody domains in the order the config lists them
    Allowed,         \* [domain -> actions its policy permits]
    MaxTtl,          \* [domain -> longest authorization it will sign]
    Pinned,          \* [domain -> signer epoch it pins, or NoEpoch]
    NoEpoch,
    Ttl,             \* settlement.authorization_ttl
    Scale,           \* Robinhood units per canonical unit
    StartLimits, StartPaused, StartDebts,
    Successors,      \* addresses with code that answer as this protocol
    Zero, Bridge,    \* the zero address and the contract's own
    MaxClock, MaxNonce,
    Events           \* "guardian", "veto", "rotate", "owed", "mismatch", "down"

Threshold == 2
Actions == {"set_limits", "set_pause", "set_route_enabled", "commit_migration", "finalize_migration"}

VARIABLES
    chain,     \* the contract's governed state
    session,   \* [Sessions -> what each process holds]
    sigs,      \* signatures the custody domains have given out
    pool,      \* transactions sent and neither landed nor reverted
    receipts,  \* [Sessions -> "none", "success" or "reverted"]
    clock,
    read,      \* history: [domain, auth, at] each domain approved
    landed     \* history: [auth, by, at, before, after] of each governed step

vars == <<chain, session, sigs, pool, receipts, clock, read, landed>>

-----------------------------------------------------------------------------
(* Limits *)

\* widen: canonical to Robinhood units
Widen(canonical) == canonical * Scale

\* RobinhoodPolicyBinding::new accepts the policy.
BindingAccepts(policy) ==
    /\ policy.daily % 2 = 0
    /\ policy.inbound <= policy.daily \div 2
    /\ policy.outbound <= policy.daily \div 2

\* Half the strict 24-hour policy: the contract's fixed window lets twice
\* its limit through within a day.
ExpectedOnchainRolling(policy) == Widen(policy.daily \div 2)

\* validate_limits, the contract's rules before anyone is asked to sign
ValidateLimits(limits) ==
    /\ \A field \in DOMAIN limits : limits[field] % Scale = 0
    /\ limits.inMin > 0 /\ limits.outMin > 0
    /\ limits.inMax > 0 /\ limits.outMax > 0
    /\ limits.inMin <= limits.inMax /\ limits.outMin <= limits.outMax
    /\ limits.inMax <= limits.inRoll /\ limits.outMax <= limits.outRoll

Override(overrides, field, current) ==
    IF field \in DOMAIN overrides THEN overrides[field] ELSE current[field]

\* limits_from_policy: maxima and windows from the policy, minima and the
\* protected minimum from the chain unless the command line names them.
LimitsFromPolicy(policy, current, overrides) ==
    [inMin |-> Override(overrides, "inMin", current),
     inMax |-> Widen(policy.inbound),
     inRoll |-> ExpectedOnchainRolling(policy),
     outMin |-> Override(overrides, "outMin", current),
     outMax |-> Widen(policy.outbound),
     outRoll |-> ExpectedOnchainRolling(policy),
     floor |-> Override(overrides, "floor", current)]

\* RobinhoodPolicyBinding::compare, a disagreement per direction and figure
PolicyMismatches(policy, limits) ==
    {f \in {"inMax", "outMax", "inRoll", "outRoll"} :
        limits[f] # [inMax |-> Widen(policy.inbound), outMax |-> Widen(policy.outbound),
                     inRoll |-> Widen(policy.daily \div 2),
                     outRoll |-> Widen(policy.daily \div 2)][f]}

-----------------------------------------------------------------------------
(* Authorizations *)

\* GovernancePayload: the action and everything its digest binds
Payload(action, body) == [action |-> action, body |-> body]

\* GovernanceAuth; its EIP-712 digest tells apart exactly what this tells
\* apart, so it stands for the digest too.
Auth(payload, epoch, nonce, expiry) ==
    [payload |-> payload, epoch |-> epoch, nonce |-> nonce, expiry |-> expiry]

\* EvmGovernanceSignRequest::from_auth: structured fields and the digest
\* they are expected to give
Document(auth) == [fields |-> auth, expected |-> auth]

\* What a domain may be sent for it: a client that encodes differently
\* shows fields that are not the digest's.
Documents(auth) ==
    {Document(auth)} \cup
    {[Document(auth) EXCEPT !.fields.payload = p] :
        p \in IF "mismatch" \in Events
              THEN {Payload("set_pause", [deposits |-> TRUE, payouts |-> TRUE])} ELSE {}}

\* apply_to: what a snapshot becomes.  The fields are those of `Effects`.
ApplyTo(effects, payload) ==
    CASE payload.action = "set_limits" -> [effects EXCEPT !.limits = payload.body]
      [] payload.action = "set_pause" -> [effects EXCEPT !.paused = payload.body]
      [] payload.action = "set_route_enabled" ->
            [effects EXCEPT !.routes[payload.body.route] = payload.body.enabled]
      [] payload.action = "commit_migration" ->
            [effects EXCEPT !.committed = TRUE, !.successor = payload.body]
      [] payload.action = "finalize_migration" -> [effects EXCEPT !.migrated = TRUE]

\* The part of a snapshot an action may change and the verification compares
Effects ==
    [limits |-> chain.limits, paused |-> chain.paused, routes |-> chain.routes,
     committed |-> chain.committed, successor |-> chain.successor,
     migrated |-> chain.migrated]

-----------------------------------------------------------------------------
(* A custody domain *)

\* reconstruct_payload: limits are validated again, a successor is neither
\* zero nor this bridge.
Reconstructs(payload) ==
    CASE payload.action = "set_limits" -> ValidateLimits(payload.body)
      [] payload.action \in {"commit_migration", "finalize_migration"} ->
            payload.body \notin {Zero, Bridge}
      [] OTHER -> TRUE

Evaluate_SignsAsAsked(d, document) ==
    /\ Allowed[d] # {} /\ document.fields.payload.action \in Allowed[d]
    /\ Pinned[d] \in {NoEpoch, document.fields.epoch}
    /\ clock < document.fields.expiry /\ document.fields.expiry - clock <= MaxTtl[d]
    /\ Reconstructs(document.fields.payload)

\* EvmGovernancePolicy::evaluate
Evaluate(d, document) ==
    /\ Allowed[d] # {}
    /\ document.fields.payload.action \in Actions
    /\ Pinned[d] \in {NoEpoch, document.fields.epoch}
    /\ document.fields.payload.action \in Allowed[d]
    /\ clock < document.fields.expiry
    /\ document.fields.expiry - clock <= MaxTtl[d]
    /\ Reconstructs(document.fields.payload)
    /\ document.expected = document.fields

\* sign_and_respond: the KMS signs the digest and the answer recovers to
\* this domain's own address.
Signature(d, document) == [key |-> d, digest |-> document.expected]

\* What one approved request leaves behind
Approves(d, document) ==
    /\ Evaluate(d, document)
    /\ sigs' = sigs \cup {Signature(d, document)}
    /\ read' = read \cup {[domain |-> d, auth |-> document.fields, at |-> clock]}

-----------------------------------------------------------------------------
(* The contract *)

\* _governance and _authorize: the contract's own nonce and epoch, in time,
\* two signatures by two different signers over what it was called with.
Authorized(tx) ==
    /\ tx.auth.nonce = chain.nonce
    /\ clock <= tx.auth.expiry
    /\ tx.auth.epoch = chain.epoch
    /\ Cardinality(tx.by) = Threshold
    /\ \A k \in tx.by : [key |-> k, digest |-> tx.auth] \in sigs

\* setLimits, setPaused, setRouteEnabled, commitMigration,
\* finalizeMigration: what each requires besides the quorum.
Permitted(payload) ==
    /\ ~chain.migrated
    /\ CASE payload.action = "set_limits" -> ValidateLimits(payload.body)
         [] payload.action = "set_pause" ->
                chain.committed => payload.body.deposits /\ payload.body.payouts
         [] payload.action = "set_route_enabled" -> chain.committed => ~payload.body.enabled
         [] payload.action = "commit_migration" ->
                /\ ~chain.committed
                /\ chain.paused.deposits /\ chain.paused.payouts
                /\ payload.body \in Successors
         [] payload.action = "finalize_migration" ->
                /\ chain.committed /\ payload.body = chain.successor
                /\ clock >= chain.finalizableAt
                /\ chain.debts = 0

Executes(tx) == Permitted(tx.auth.payload) /\ Authorized(tx)

\* The contract after one governed step
Governed(payload) ==
    LET e == ApplyTo(Effects, payload)
    IN  [chain EXCEPT !.limits = e.limits, !.paused = e.paused, !.routes = e.routes,
                      !.committed = e.committed, !.successor = e.successor,
                      !.migrated = e.migrated, !.nonce = @ + 1,
                      !.finalizableAt = IF payload.action = "commit_migration"
                                        THEN clock ELSE @]

-----------------------------------------------------------------------------
(* A session *)

Idle == [pc |-> "idle"]

Init ==
    /\ chain = [limits |-> StartLimits, paused |-> StartPaused,
                routes |-> [r \in {"GlcToRhn", "RhnToGlc"} |-> FALSE],
                nonce |-> 0, epoch |-> 0, committed |-> FALSE, successor |-> Zero,
                finalizableAt |-> 0, migrated |-> FALSE, debts |-> StartDebts]
    /\ session = [s \in Sessions |-> Idle]
    /\ receipts = [s \in Sessions |-> "none"]
    /\ sigs = {} /\ pool = {} /\ clock = 0 /\ read = {} /\ landed = {}

Becomes(s, record) == session' = [session EXCEPT ![s] = record]
Ends(s, how) == Becomes(s, [pc |-> how, cmd |-> session[s].cmd])

\* The payload a command builds from its arguments and a first read of the
\* chain: the limits it derives from, or the flag it does not name.
PayloadOf(cmd) ==
    CASE cmd.verb = "set-limits" ->
            Payload("set_limits", LimitsFromPolicy(cmd.policy, chain.limits, cmd.overrides))
      [] cmd.verb = "pause" ->
            Payload("set_pause", [chain.paused EXCEPT ![cmd.scope] = cmd.paused])
      [] cmd.verb = "route" ->
            Payload("set_route_enabled", [route |-> cmd.route, enabled |-> cmd.enabled])
      [] cmd.verb = "commit-migration" -> Payload("commit_migration", cmd.successor)
      [] cmd.verb = "finalize-migration" -> Payload("finalize_migration", cmd.successor)

\* What the command checks before run_governance: the policy binds and the
\* derived limits are valid; a successor is an address with this protocol's
\* code (check_successor), or for finalize just not zero (parse_successor).
CommandAccepted(cmd) ==
    CASE cmd.verb = "set-limits" ->
            BindingAccepts(cmd.policy) /\ ValidateLimits(PayloadOf(cmd).body)
      [] cmd.verb = "commit-migration" -> cmd.successor \in Successors \ {Zero, Bridge}
      [] cmd.verb = "finalize-migration" -> cmd.successor # Zero
      [] OTHER -> TRUE

\* cmd_robinhood_governance_set_limits, _pause, _route, _commit_migration
\* and _finalize_migration
Command(s, cmd) ==
    /\ session[s].pc = "idle"
    /\ Becomes(s, IF CommandAccepted(cmd)
                  THEN [pc |-> "planning", cmd |-> cmd, payload |-> PayloadOf(cmd)]
                  ELSE [pc |-> "refused", cmd |-> cmd])
    /\ UNCHANGED <<chain, sigs, pool, receipts, clock, read, landed>>

\* run_governance reads `before`: read_state asks for the limits, the
\* pauses and the routes first
ReadEffects(s) ==
    /\ session[s].pc = "planning"
    /\ Becomes(s, [session[s] EXCEPT !.pc = "reading"] @@ [before |-> Effects])
    /\ UNCHANGED <<chain, sigs, pool, receipts, clock, read, landed>>

\* plan's own refusals
Plannable(payload, before) ==
    /\ ~chain.migrated
    /\ payload.action = "commit_migration" =>
        before.paused.deposits /\ before.paused.payouts /\ ~chain.committed
    /\ payload.action = "finalize_migration" =>
        /\ chain.committed /\ payload.body = chain.successor
        /\ clock >= chain.finalizableAt
        /\ chain.debts = 0

\* ... and the nonce, the epoch and the migration last.  A plan that would
\* change nothing is refused.
Plan(s) ==
    LET me == session[s]
        before == [me.before EXCEPT !.committed = chain.committed,
                                    !.successor = chain.successor,
                                    !.migrated = chain.migrated]
        after == ApplyTo(before, me.payload)
    IN  /\ me.pc = "reading"
        /\ IF Plannable(me.payload, before) /\ after # before
           THEN Becomes(s, [pc |-> "planned", cmd |-> me.cmd, after |-> after,
                            auth |-> Auth(me.payload, chain.epoch, chain.nonce, clock + Ttl)])
           ELSE Ends(s, "refused")
        /\ UNCHANGED <<chain, sigs, pool, receipts, clock, read, landed>>

\* execute re-reads the nonce and the epoch, and only them
CheckFresh(s) ==
    /\ session[s].auth.nonce = chain.nonce
    /\ session[s].auth.epoch = chain.epoch

Execute(s) ==
    /\ session[s].pc = "planned"
    /\ IF CheckFresh(s)
       THEN Becomes(s, [session[s] EXCEPT !.pc = "gathering"] @@ [asked |-> 0, by |-> {}])
       ELSE Ends(s, "stale")
    /\ UNCHANGED <<chain, sigs, pool, receipts, clock, read, landed>>

\* The next domain in config order is asked; a refusal or an outage is
\* skipped over.
AskDomain(s) ==
    LET me == session[s]
        d == Domains[me.asked + 1]
        next == [me EXCEPT !.asked = @ + 1]
    IN  /\ me.pc = "gathering"
        /\ me.asked < Len(Domains) /\ Cardinality(me.by) < Threshold
        /\ \E document \in Documents(me.auth) :
            \/ /\ Approves(d, document)
               /\ Becomes(s, [next EXCEPT !.by = @ \cup {d}])
            \/ /\ ~Evaluate(d, document) \/ "down" \in Events
               /\ Becomes(s, next)
               /\ UNCHANGED <<sigs, read>>
        /\ UNCHANGED <<chain, pool, receipts, clock, landed>>

\* Without two signatures the session ends; with two it estimates gas,
\* which runs the call against the state of the moment, and sends.
Submit(s) ==
    LET me == session[s]
        tx == [session |-> s, auth |-> me.auth, by |-> me.by]
    IN  /\ me.pc = "gathering"
        /\ me.asked = Len(Domains) \/ Cardinality(me.by) = Threshold
        /\ IF Cardinality(me.by) # Threshold THEN Ends(s, "unsigned") /\ UNCHANGED pool
           ELSE IF ~Executes(tx) THEN Ends(s, "reverts") /\ UNCHANGED pool
           ELSE Becomes(s, [me EXCEPT !.pc = "waiting"]) /\ pool' = pool \cup {tx}
        /\ UNCHANGED <<chain, sigs, receipts, clock, read, landed>>

\* A sent transaction is included: it runs or reverts.
Land(tx) ==
    /\ tx \in pool
    /\ pool' = pool \ {tx}
    /\ IF Executes(tx)
       THEN /\ chain' = Governed(tx.auth.payload)
            /\ landed' = landed \cup {[auth |-> tx.auth, by |-> tx.by, at |-> clock,
                                       cmd |-> session[tx.session].cmd,
                                       before |-> Effects,
                                       after |-> ApplyTo(Effects, tx.auth.payload)]}
            /\ receipts' = [receipts EXCEPT ![tx.session] = "success"]
       ELSE /\ receipts' = [receipts EXCEPT ![tx.session] = "reverted"]
            /\ UNCHANGED <<chain, landed>>
    /\ UNCHANGED <<session, sigs, clock, read>>

\* The receipt decides: the contract is read once more and compared with
\* the plan.
Verify(s) ==
    /\ session[s].pc = "waiting"
    /\ receipts[s] # "none"
    /\ Ends(s, IF receipts[s] = "reverted" THEN "reverted"
               ELSE IF Effects = session[s].after THEN "verified" ELSE "disagrees")
    /\ UNCHANGED <<chain, sigs, pool, receipts, clock, read, landed>>

\* 300 seconds without a receipt: the session gives up, the transaction is
\* still out there.
ReceiptTimeout(s) ==
    /\ session[s].pc = "waiting"
    /\ receipts[s] = "none"
    /\ Ends(s, "timeout")
    /\ UNCHANGED <<chain, sigs, pool, receipts, clock, read, landed>>

-----------------------------------------------------------------------------
(* Everyone else *)

\* guardianPause: one guardian, no governance nonce
GuardianPause(flag) ==
    /\ "guardian" \in Events
    /\ ~chain.paused[flag]
    /\ chain' = [chain EXCEPT !.paused[flag] = TRUE]
    /\ UNCHANGED <<session, sigs, pool, receipts, clock, read, landed>>

VetoMigration ==
    /\ "veto" \in Events
    /\ chain.committed /\ ~chain.migrated
    /\ chain' = [chain EXCEPT !.committed = FALSE, !.successor = Zero, !.finalizableAt = 0]
    /\ UNCHANGED <<session, sigs, pool, receipts, clock, read, landed>>

\* rotateSigners, signed outside this tool
RotateSigners ==
    /\ "rotate" \in Events
    /\ ~chain.migrated /\ chain.nonce < MaxNonce
    /\ chain' = [chain EXCEPT !.nonce = @ + 1, !.epoch = @ + 1]
    /\ UNCHANGED <<session, sigs, pool, receipts, clock, read, landed>>

\* The last pending obligation settles, or a deposit makes a new one.
Owed ==
    /\ "owed" \in Events
    /\ ~chain.paused.deposits \/ chain.debts = 1
    /\ chain' = [chain EXCEPT !.debts = 1 - @]
    /\ UNCHANGED <<session, sigs, pool, receipts, clock, read, landed>>

Tick ==
    /\ clock < MaxClock
    /\ clock' = clock + 1
    /\ UNCHANGED <<chain, session, sigs, pool, receipts, read, landed>>

Next ==
    \/ \E s \in Sessions :
        \/ \E cmd \in Commands : Command(s, cmd)
        \/ ReadEffects(s)
        \/ Plan(s)
        \/ Execute(s)
        \/ AskDomain(s)
        \/ Submit(s)
        \/ Verify(s)
        \/ ReceiptTimeout(s)
    \/ \E tx \in pool : Land(tx)
    \/ \E flag \in {"deposits", "payouts"} : GuardianPause(flag)
    \/ VetoMigration
    \/ RotateSigners
    \/ Owed
    \/ Tick

Spec == Init /\ [][Next]_vars

-----------------------------------------------------------------------------
(* Properties *)

\* Whatever governance changed, two custody domains had each read exactly
\* that action, were permitted to sign it, and it was in time both when
\* they read it and when it landed.
InstalledAsRead ==
    \A step \in landed :
        /\ step.at <= step.auth.expiry
        /\ Cardinality(step.by) = Threshold
        /\ \A d \in step.by :
            /\ step.auth.payload.action \in Allowed[d]
            /\ \E r \in read : /\ r.domain = d /\ r.auth = step.auth
                               /\ r.at < step.auth.expiry

\* A set-limits step brings the contract to the policy it was derived from:
\* both maxima, and a window whose worst day is the policy's.
LimitsFollowPolicy ==
    \A step \in landed : step.cmd.verb = "set-limits" =>
        /\ PolicyMismatches(step.cmd.policy, step.after.limits) = {}
        /\ 2 * step.after.limits.inRoll <= Widen(step.cmd.policy.daily)

\* "INSTALLED and VERIFIED" is only said by a session whose own action
\* landed, and no two actions landed under one nonce.
VerifiedIsInstalled ==
    /\ \A s \in Sessions : session[s].pc = "verified" =>
        \E step \in landed : step.cmd = session[s].cmd
    /\ \A x, y \in landed : x.auth.nonce = y.auth.nonce => x = y

\* Once the reserve has left for the successor nothing is owed here, nothing
\* can be again, and the successor is one that was checked.
MigratedCleanly ==
    chain.migrated => /\ chain.successor \in Successors
                      /\ chain.paused.deposits /\ chain.paused.payouts
                      /\ chain.debts = 0

GovernanceSound == InstalledAsRead /\ LimitsFollowPolicy /\ VerifiedIsInstalled /\ MigratedCleanly

\* A pause command changes the direction it names and carries the other
\* across unchanged; a route or limits command changes no pause.  The
\* comments of cmd_robinhood_governance_pause promise it.
ScopedChange ==
    \A step \in landed : \A flag \in {"deposits", "payouts"} :
        step.before.paused[flag] # step.after.paused[flag] =>
            step.cmd.verb = "pause" /\ step.cmd.scope = flag
==============================================================================
