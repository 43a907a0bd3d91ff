---------------------------- MODULE ServiceConfig ----------------------------
(***************************************************************************)
(* The configuration file of the service: what Config::load accepts, how   *)
(* `glc-admin fees-set` and `chain-policy-apply` edit it, how the daemon   *)
(* starts from it, and what `robinhood-preflight` tells an operator about  *)
(* such a start beforehand.                                                *)
(*                                                                         *)
(* A document is a record with one field per section.  An optional section *)
(* or key that the file does not state is Absent; keys, addresses and      *)
(* endpoints are opaque.  Texts (URLs, hex, decimal amounts) are the       *)
(* Boolean `wellFormed` of their section: whether every one of them parses.*)
(***************************************************************************)
EXTENDS Integers, Sequences, FiniteSets, Functions

CONSTANTS
    Absent,        \* a key or section the file does not state
    ZeroAddress,
    Documents,     \* the files an operator may write by hand
    Requests,      \* the edits operators ask of the tools
    Sessions,      \* concurrent runs of an editing tool
    Deployments,   \* the Robinhood contract as it may stand on its chain
    MaxBps,        \* fees::MAX_FEE_BPS
    DefaultBps,    \* BRIDGE_FEE_BPS
    SourceMinimum, \* the least amount a source transfer may carry
    MaxClock,      \* bound: seconds
    MaxWrites,     \* bound: edits begun, by hand or tool, and changes of the deployment
    Events         \* which of "start" (of the daemon), "hand" edits, "signer"
                   \* and "rpc" failures, "deployment" changes happen

VARIABLES
    file,      \* the document at the configured path
    byTool,    \* whether a tool, not a hand, wrote it last
    backups,   \* the backup files: the second in their name -> document
    sessions,  \* each tool run: its phase, request, what it read, its candidate
    daemon,    \* the daemon: its phase, its document, what start established
    bounds,    \* the reserve bounds in the ledger's rows
    contract,  \* the deployment now
    foresaw,   \* the last preflight: the document and deployment it passed
    clock, writes

vars == <<file, byTool, backups, sessions, daemon, bounds, contract, foresaw,
          clock, writes>>

GlcRoutes == {"GlcToSol", "SolToGlc", "GlcToRhn", "RhnToGlc"}

CrossRoutes == {"SolToRhn", "RhnToSol"}

ExecutableRoutes == GlcRoutes \cup CrossRoutes

RobinhoodRoutes == ExecutableRoutes \ {"GlcToSol", "SolToGlc"}

-----------------------------------------------------------------------------
(* Config::load, section by section.                                       *)

FindDuplicate(s) == ~ IsInjective(s)

(* A threshold of a key list, and in production one remote signer for each *)
(* key, in the same order, all different and at different endpoints.       *)
SignersResolve(mode, q) ==
    /\ q.threshold \in 1 .. Len(q.keys)
    /\ mode = "dev" => q.remote = <<>>
    /\ mode = "production" =>
         /\ q.files = <<>>
         /\ Len(q.remote) = Len(q.keys)
         /\ \A i \in DOMAIN q.keys : q.remote[i].key = q.keys[i]
         /\ ~ FindDuplicate(q.keys)
         /\ ~ FindDuplicate([i \in DOMAIN q.remote |-> q.remote[i].url])

AttestationResolves(doc) == SignersResolve(doc.mode, doc.attestation)

VaultResolves(doc) == SignersResolve(doc.mode, doc.vault)

BoundsResolve(b) == b.critical > b.minimum

AdminResolves(doc) ==
    /\ doc.admin.bind <=> doc.admin.operators # <<>>
    /\ ~ FindDuplicate([i \in DOMAIN doc.admin.operators |-> doc.admin.operators[i].name])
    /\ ~ FindDuplicate([i \in DOMAIN doc.admin.operators |-> doc.admin.operators[i].env])
    /\ doc.admin.probe > 0

MinSource(g) == IF g.minSource = Absent THEN 4 * g.target ELSE g.minSource

GoldcoinResolves(g) ==
    /\ g.fanout >= 1
    /\ g.chainLimit \in 1 .. 24
    /\ g.warning >= g.least
    /\ g.reopen >= g.buffer
    /\ MinSource(g) >= 2 * g.target
    /\ g.splitOutputs >= 2

CheckpointResolves(g) ==
    /\ g.height = Absent <=> g.hash = Absent
    /\ g.height # Absent => g.height >= 0

(* RobinhoodIndexerConfig::new                                             *)
IndexerAccepted(x) ==
    /\ x.bridge # ZeroAddress /\ x.token # ZeroAddress /\ x.bridge # x.token
    /\ x.depth > 0

IndexerResolves(doc) == doc.rhn.indexer # Absent => IndexerAccepted(doc.rhn.indexer)

(* RobinhoodSettlementConfig::new                                          *)
SettlementAccepted(s, x) ==
    /\ x # Absent
    /\ s.chain = x.chain /\ s.bridge = x.bridge
    /\ IsInjective(s.signers)
    /\ {s.submitter, s.bridge} \cap Range(s.signers) = {}
    /\ ZeroAddress \notin Range(s.signers) \cup {s.submitter}
    /\ s.bridge # s.submitter
    /\ s.confirmations > 0 /\ s.priority < s.maxFee

SettlementResolves(doc) ==
    doc.rhn.settlement # Absent =>
      /\ Len(doc.rhn.settlement.signers) = 3
      /\ SettlementAccepted(doc.rhn.settlement, doc.rhn.indexer)

AuthSignersResolve(doc) ==
    LET s == doc.rhn.settlement IN
    /\ doc.mode = "dev" => s.remote = <<>>
    /\ doc.mode = "production" =>
         /\ s.files = <<>>
         /\ \A i \in DOMAIN s.remote :
              s.remote[i].key \in Range(s.signers) /\ s.remote[i].key # s.submitter
         /\ ~ FindDuplicate([i \in DOMAIN s.remote |-> s.remote[i].key])
         /\ ~ FindDuplicate([i \in DOMAIN s.remote |-> s.remote[i].url])

(* ChainPolicy::new                                                        *)
PolicyAccepted(p) ==
    /\ p.fee \in 0 .. MaxBps
    /\ p.inbound > 0 /\ p.outbound > 0
    /\ p.rolling >= p.inbound /\ p.rolling >= p.outbound

(* RobinhoodPolicyBinding::new: the contract holds half the rolling figure *)
(* per bucket, and that half covers either maximum.                        *)
BindingAccepted(p) ==
    /\ p.rolling % 2 = 0
    /\ p.rolling \div 2 >= p.inbound /\ p.rolling \div 2 >= p.outbound

(* [robinhood.policy] states one legacy figure, or both directions.        *)
PolicyOf(doc) ==
    IF doc.rhn = Absent \/ doc.rhn.policy = Absent THEN Absent
    ELSE LET p == doc.rhn.policy IN
         IF p.legacy # Absent
           THEN [fee |-> p.fee, inbound |-> p.legacy, outbound |-> p.legacy,
                 rolling |-> p.rolling]
           ELSE [fee |-> p.fee, inbound |-> p.inbound, outbound |-> p.outbound,
                 rolling |-> p.rolling]

PolicyResolves(doc) ==
    PolicyOf(doc) # Absent =>
      /\ LET p == doc.rhn.policy IN
           \/ p.legacy # Absent /\ p.inbound = Absent /\ p.outbound = Absent
           \/ p.legacy = Absent /\ p.inbound # Absent /\ p.outbound # Absent
      /\ PolicyAccepted(PolicyOf(doc)) /\ BindingAccepted(PolicyOf(doc))

FeeBpsFor(doc, chain) ==
    IF chain = "robinhood" /\ PolicyOf(doc) # Absent THEN PolicyOf(doc).fee ELSE DefaultBps

ConfigEnabled(doc, route) ==
    \/ route \in {"GlcToSol", "SolToGlc"}
    \/ doc.rhn # Absent /\ route \in doc.rhn.enabled

(* Without a [fees] section the routes to and from Goldcoin carry the rate *)
(* of their other chain forward; a Solana-Robinhood route has none.        *)
RouteFees(doc) ==
    IF doc.fees # Absent THEN doc.fees
    ELSE [r \in GlcRoutes |->
            FeeBpsFor(doc, IF r \in {"GlcToSol", "SolToGlc"} THEN "solana" ELSE "robinhood")]

CoversRequiredRoutes_AnyCross(doc) == GlcRoutes \subseteq DOMAIN RouteFees(doc)

CoversRequiredRoutes(doc) ==
    \A r \in ExecutableRoutes :
       (r \in CrossRoutes /\ ~ ConfigEnabled(doc, r)) \/ r \in DOMAIN RouteFees(doc)

FeesResolve(doc) ==
    /\ DOMAIN RouteFees(doc) \subseteq ExecutableRoutes
    /\ \A r \in DOMAIN RouteFees(doc) : RouteFees(doc)[r] \in 0 .. MaxBps
    /\ CoversRequiredRoutes(doc)

BurstResolves(b) ==
    /\ b.window > 0 /\ b.hold >= 0
    /\ b.source >= 1 /\ b.destination >= 1 /\ b.pair >= 1
    /\ b.capMin = 0 <=> b.capMax = 0

FeedsResolve(feeds) ==
    /\ feeds # Absent
    /\ DOMAIN feeds = {"goldcoin", "solana", "robinhood"}
    /\ feeds.goldcoin = "nonkyc" /\ feeds.solana = "jupiter"
    /\ feeds.robinhood = "uniswap_v4"

RateResolves(r) ==
    /\ r # Absent
    /\ r.poll > 0 /\ r.staleness > 0 /\ r.window \in 1 .. 86400
    /\ r.poll <= r.staleness
    /\ r.band \in 1 .. 10000
    /\ IF r.mode = "live" THEN FeedsResolve(r.feeds) ELSE r.feeds = Absent

(* resolve: the whole document.                                            *)
Resolves(doc) ==
    /\ doc.wellFormed
    /\ doc.commitment = "finalized"
    /\ \A c \in DOMAIN doc.bounds : BoundsResolve(doc.bounds[c])
    /\ AttestationResolves(doc) /\ VaultResolves(doc)
    /\ AdminResolves(doc)
    /\ GoldcoinResolves(doc.glc) /\ CheckpointResolves(doc.glc)
    /\ doc.rhn # Absent =>
         /\ IndexerResolves(doc)
         /\ SettlementResolves(doc)
         /\ doc.rhn.settlement # Absent => AuthSignersResolve(doc)
    /\ PolicyResolves(doc) /\ FeesResolve(doc)
    /\ BurstResolves(doc.burst) /\ RateResolves(doc.rate)

-----------------------------------------------------------------------------
(* The editing tools.                                                      *)

Down == [phase |-> "down", doc |-> Absent, verified |-> FALSE, wired |-> {}, tasks |-> {}]

Idle == [phase |-> "idle", request |-> Absent, read |-> Absent, candidate |-> Absent]

Init ==
    /\ file \in {d \in Documents : Resolves(d)}
    /\ byTool = FALSE
    /\ backups = [t \in {} |-> Absent]
    /\ sessions = [s \in Sessions |-> Idle]
    /\ daemon = Down
    /\ bounds = [c \in {} |-> Absent]
    /\ contract \in Deployments
    /\ foresaw = Absent
    /\ clock = 0 /\ writes = 0

(* fees::edit::plan, what it writes into the document it read: the one     *)
(* route's key, and any key another executable route lacks, at the rate    *)
(* the loaded file gives that route.                                       *)
SeededFees(loaded, text, route, bps) ==
    LET known == IF text.fees = Absent THEN {} ELSE DOMAIN text.fees
        seeded == {r \in ExecutableRoutes \ (known \cup {route}) :
                     r \in DOMAIN RouteFees(loaded)}
    IN [r \in known \cup seeded \cup {route} |->
          IF r = route THEN bps
          ELSE IF r \in known THEN text.fees[r] ELSE RouteFees(loaded)[r]]

MovesOneRoute(loaded, candidate, route) ==
    \A r \in ExecutableRoutes \ {route} :
       /\ r \in DOMAIN RouteFees(loaded) <=> r \in DOMAIN RouteFees(candidate)
       /\ r \in DOMAIN RouteFees(loaded) => RouteFees(loaded)[r] = RouteFees(candidate)[r]

PlannedFeeEdit(loaded, text, q) ==
    [text EXCEPT !.fees = SeededFees(loaded, text, q.route, q.bps)]

FeePlanAccepted(loaded, text, q) ==
    LET candidate == PlannedFeeEdit(loaded, text, q) IN
    /\ q.route \in ExecutableRoutes /\ q.bps \in 0 .. MaxBps
    /\ q.route \in DOMAIN RouteFees(loaded) \cup CrossRoutes
    /\ Resolves(candidate)
    /\ RouteFees(candidate)[q.route] = q.bps
    /\ MovesOneRoute(loaded, candidate, q.route)

(* chain_policy::edit::plan: the legacy key goes, the four figures are set.*)
PlannedPolicyEdit(text, q) ==
    LET p == [fee |-> q.fee, legacy |-> Absent, inbound |-> q.inbound,
              outbound |-> q.outbound, rolling |-> q.rolling]
    IN IF text.rhn = Absent
         THEN [text EXCEPT !.rhn = [enabled |-> {}, indexer |-> Absent,
                                    settlement |-> Absent, policy |-> p]]
         ELSE [text EXCEPT !.rhn.policy = p]

PolicyPlanAccepted(text, q) ==
    /\ PolicyAccepted([fee |-> q.fee, inbound |-> q.inbound, outbound |-> q.outbound,
                       rolling |-> q.rolling])
    /\ Resolves(PlannedPolicyEdit(text, q))

(* A run of a tool loads the file first ...                                *)
EditLoad(s, q) ==
    /\ sessions[s].phase = "idle" /\ writes < MaxWrites
    /\ Resolves(file)
    /\ writes' = writes + 1
    /\ sessions' = [sessions EXCEPT ![s] =
                      [phase |-> "loaded", request |-> q, read |-> file, candidate |-> Absent]]
    /\ UNCHANGED <<file, byTool, backups, daemon, bounds, contract, foresaw, clock>>

(* ... then reads it again as text, writes the candidate beside it and     *)
(* loads the candidate: refused, the candidate is removed.                 *)
EditPlan(s) ==
    LET q == sessions[s].request
        loaded == sessions[s].read
    IN
    /\ sessions[s].phase = "loaded"
    /\ sessions' = [sessions EXCEPT ![s] =
         IF q.kind = "fee" /\ FeePlanAccepted(loaded, file, q)
           THEN [@ EXCEPT !.phase = "planned", !.candidate = PlannedFeeEdit(loaded, file, q)]
         ELSE IF q.kind = "policy" /\ PolicyPlanAccepted(file, q)
           THEN [@ EXCEPT !.phase = "planned", !.candidate = PlannedPolicyEdit(file, q)]
         ELSE Idle]
    /\ UNCHANGED <<file, byTool, backups, daemon, bounds, contract, foresaw, clock, writes>>

(* Without --execute the plan is shown and its candidate removed.          *)
EditDiscard(s) ==
    /\ sessions[s].phase = "planned"
    /\ sessions' = [sessions EXCEPT ![s] = Idle]
    /\ UNCHANGED <<file, byTool, backups, daemon, bounds, contract, foresaw, clock, writes>>

(* install, first half: the file is copied to the backup of this second,   *)
(* replacing a backup of the same name.                                    *)
EditBackup(s) ==
    /\ sessions[s].phase = "planned"
    /\ backups' = [t \in DOMAIN backups \cup {clock} |->
                     IF t = clock THEN file ELSE backups[t]]
    /\ sessions' = [sessions EXCEPT ![s].phase = "backed_up"]
    /\ UNCHANGED <<file, byTool, daemon, bounds, contract, foresaw, clock, writes>>

(* install, second half: the candidate is renamed over the file.           *)
EditInstall(s) ==
    /\ sessions[s].phase = "backed_up"
    /\ file' = sessions[s].candidate
    /\ byTool' = TRUE
    /\ sessions' = [sessions EXCEPT ![s] = Idle]
    /\ UNCHANGED <<backups, daemon, bounds, contract, foresaw, clock, writes>>

-----------------------------------------------------------------------------
(* The deployment, as preflight::verify reads it, and the daemon's start.  *)

VerifyChecks(doc, c) ==
    LET s == doc.rhn.settlement  x == doc.rhn.indexer IN
    << [name |-> "chain_id", holds |-> c.chain = s.chain],
       [name |-> "bridge_contract_code", holds |-> s.bridge \in c.code],
       [name |-> "bridge_protocol_id", holds |-> c.protocol],
       [name |-> "not_migrated", holds |-> ~ c.migrated],
       [name |-> "bridge_token", holds |-> c.token = x.token],
       [name |-> "token_contract_code", holds |-> c.token \in c.code],
       [name |-> "token_decimals", holds |-> c.decimals = 18],
       [name |-> "bridge_signer_set", holds |-> c.signers = Range(s.signers)],
       [name |-> "eip712_domain_separator", holds |-> c.domain = <<s.chain, s.bridge>>],
       [name |-> "route_chains", holds |-> c.distinctChains],
       [name |-> "tx_envelope", holds |-> c.baseFee <=> s.envelope = "eip1559"] >>

Verified(doc, c) ==
    \A i \in DOMAIN VerifyChecks(doc, c) : VerifyChecks(doc, c)[i].holds

(* is_backend_over_claim: the file claims more than the contract allows.   *)
OverClaims(p, c) ==
    \/ p.inbound > c.inboundMax \/ p.outbound > c.outboundMax
    \/ c.inboundRolling < p.rolling \div 2 \/ c.outboundRolling < p.rolling \div 2

(* PolicyMismatch: any disagreement, also the ones a start tolerates.      *)
PolicyDiffers(p, c) ==
    \/ p.inbound # c.inboundMax \/ p.outbound # c.outboundMax
    \/ c.inboundRolling # p.rolling \div 2 \/ c.outboundRolling # p.rolling \div 2

HasSettlement(doc) == doc.rhn # Absent /\ doc.rhn.settlement # Absent

(* push_source_minimum_check: what the least source transfer delivers on a *)
(* priced route to Robinhood is not below the contract's outboundMin.      *)
MinimumDeliverable(doc, c) ==
    \A r \in {"GlcToRhn", "SolToRhn"} \cap DOMAIN RouteFees(doc) :
       c.outboundMin <= SourceMinimum - (SourceMinimum * RouteFees(doc)[r]) \div (MaxBps + 1)

(* push_policy_checks: without a policy both are UNVERIFIED, not FAIL.     *)
PolicyChecksPass(doc, c) ==
    PolicyOf(doc) # Absent =>
      ~ PolicyDiffers(PolicyOf(doc), c) /\ MinimumDeliverable(doc, c)

(* load_robinhood_auth_signers: key files in dev, remote ones otherwise.   *)
AuthSigners(doc) ==
    IF doc.mode = "dev" THEN doc.rhn.settlement.files
    ELSE [i \in DOMAIN doc.rhn.settlement.remote |-> doc.rhn.settlement.remote[i].key]

(* The contract's route switches are the ones the operator expects, and    *)
(* the submitter can pay for gas.                                          *)
RoutesAndGasPass(doc, c, expected) ==
    c.routes = expected /\ c.balance >= doc.rhn.settlement.leastBalance

(* The treasury, no committed migration, and a quorum of signers.          *)
CustodyChecksPass(doc, c) ==
    c.treasury # ZeroAddress /\ ~ c.committed /\ Len(AuthSigners(doc)) >= 2

(* operator_preflight reports no FAIL.                                     *)
PreflightPasses(doc, c, expected) ==
    /\ Verified(doc, c)
    /\ RoutesAndGasPass(doc, c, expected)
    /\ PolicyChecksPass(doc, c)
    /\ CustodyChecksPass(doc, c)

Preflight(expected) ==
    /\ "start" \in Events
    /\ Resolves(file) /\ HasSettlement(file)
    /\ foresaw' = IF PreflightPasses(file, contract, expected)
                    THEN [doc |-> file, contract |-> contract] ELSE Absent
    /\ foresaw' # foresaw
    /\ UNCHANGED <<file, byTool, backups, sessions, daemon, bounds, contract, clock, writes>>

(* load_signers: dev reads one key file per key, production asks every     *)
(* remote signer for its key; one that does not answer refuses the start.  *)
SignersLoad(doc) ==
    \A q \in {doc.attestation, doc.vault} : doc.mode = "dev" => q.files = q.keys

StartLoad ==
    /\ "start" \in Events
    /\ daemon.phase = "down"
    /\ Resolves(file) /\ SignersLoad(file)
    /\ daemon' = [daemon EXCEPT !.phase = "loaded", !.doc = file]
    /\ UNCHANGED <<file, byTool, backups, sessions, bounds, contract, foresaw, clock, writes>>

(* Every reserve section is written into its ledger row; the row of a      *)
(* section the file no longer has stays.                                   *)
StartConfigure ==
    /\ daemon.phase = "loaded"
    /\ bounds' = [c \in DOMAIN bounds \cup DOMAIN daemon.doc.bounds |->
                    IF c \in DOMAIN daemon.doc.bounds THEN daemon.doc.bounds[c]
                    ELSE bounds[c]]
    /\ daemon' = [daemon EXCEPT !.phase = "configured"]
    /\ UNCHANGED <<file, byTool, backups, sessions, contract, foresaw, clock, writes>>

(* The live rate feeds read a pool over the Robinhood indexer's RPC.       *)
FeedsStart(doc) ==
    doc.rate.mode = "live" => doc.rhn # Absent /\ doc.rhn.indexer # Absent

(* The deployment is verified and the policy compared with it, both fatal. *)
StartGate(doc, c) ==
    /\ FeedsStart(doc)
    /\ HasSettlement(doc) =>
         /\ Verified(doc, c)
         /\ PolicyOf(doc) # Absent => ~ OverClaims(PolicyOf(doc), c)

CrossFolds(doc) == CrossRoutes \cap DOMAIN RouteFees(doc)

(* The loops a start spawns, each from the sections it needs.              *)
AdminTask(doc) == IF doc.admin.bind THEN {"admin"} ELSE {}

ServiceTasks(doc) ==
    {"health", "compat", "orchestrator"} \cup IF doc.rate.mode = "live" THEN {"rates"} ELSE {}

RobinhoodTasks(doc) ==
    IF doc.rhn = Absent \/ doc.rhn.indexer = Absent THEN {}
    ELSE {"indexer"} \cup
         IF "robinhood" \in DOMAIN doc.bounds THEN {"reserve", "audit"} ELSE {}

SettlementTask(doc) == IF HasSettlement(doc) THEN {"settlement"} ELSE {}

(* The route gate holds a verified deployment or none; a Solana-Robinhood  *)
(* route is folded exactly when it has a rate; then every loop is spawned. *)
StartServe ==
    LET doc == daemon.doc IN
    /\ daemon.phase = "configured"
    /\ daemon' = IF StartGate(doc, contract)
                   THEN [daemon EXCEPT !.phase = "up",
                          !.verified = HasSettlement(doc),
                          !.wired = CrossFolds(doc),
                          !.tasks = ServiceTasks(doc) \cup AdminTask(doc)
                                      \cup RobinhoodTasks(doc) \cup SettlementTask(doc)]
                   ELSE Down
    /\ UNCHANGED <<file, byTool, backups, sessions, bounds, contract, foresaw, clock, writes>>

(* A signer or an RPC that does not answer ends the start where it is.     *)
StartFails ==
    /\ Events \cap {"signer", "rpc"} # {}
    /\ daemon.phase \in {"loaded", "configured"}
    /\ daemon' = Down
    /\ UNCHANGED <<file, byTool, backups, sessions, bounds, contract, foresaw, clock, writes>>

(* A signal ends the orchestrator's loop, and the others are joined.       *)
Stop ==
    /\ daemon.phase = "up"
    /\ daemon' = Down
    /\ UNCHANGED <<file, byTool, backups, sessions, bounds, contract, foresaw, clock, writes>>

HandEdit ==
    /\ "hand" \in Events /\ writes < MaxWrites
    /\ file' \in Documents \ {file}
    /\ byTool' = FALSE
    /\ writes' = writes + 1
    /\ UNCHANGED <<backups, sessions, daemon, bounds, contract, foresaw, clock>>

DeploymentChanges ==
    /\ "deployment" \in Events /\ writes < MaxWrites
    /\ contract' \in Deployments \ {contract}
    /\ writes' = writes + 1
    /\ UNCHANGED <<file, byTool, backups, sessions, daemon, bounds, foresaw, clock>>

Tick ==
    /\ clock < MaxClock
    /\ clock' = clock + 1
    /\ UNCHANGED <<file, byTool, backups, sessions, daemon, bounds, contract, foresaw, writes>>

Next ==
    \/ \E s \in Sessions :
         \/ \E q \in Requests : EditLoad(s, q)
         \/ EditPlan(s)
         \/ EditDiscard(s)
         \/ EditBackup(s)
         \/ EditInstall(s)
    \/ \E expected \in SUBSET RobinhoodRoutes : Preflight(expected)
    \/ StartLoad
    \/ StartConfigure
    \/ StartServe
    \/ StartFails
    \/ Stop
    \/ HandEdit
    \/ DeploymentChanges
    \/ Tick

Spec == Init /\ [][Next]_vars

-----------------------------------------------------------------------------
(* A file that a tool installed loads, whatever was done to the file       *)
(* between the tool's reads and its rename (edit.rs: nothing is installed  *)
(* that the real parser has not accepted).                                 *)
InstalledLoads == byTool => Resolves(file)

(* A fee edit moves exactly one route: against the version the tool loaded,*)
(* every other route resolves to the same rate, also when the [fees]       *)
(* section is created by this edit or changed between the tool's two reads.*)
FeeEditMovesOneRoute ==
    \A s \in Sessions :
       (sessions[s].phase \in {"planned", "backed_up"} /\ sessions[s].request.kind = "fee") =>
         LET before == RouteFees(sessions[s].read)
             after == RouteFees(sessions[s].candidate)
             r == sessions[s].request.route
         IN /\ after[r] = sessions[s].request.bps
            /\ DOMAIN after = DOMAIN before \cup {r}
            /\ \A o \in DOMAIN before \ {r} : after[o] = before[o]

(* A running daemon has a rate for every route its gate can open; a route  *)
(* to or from Robinhood, which opens only on a deployment this start       *)
(* verified, has the loops that index and settle it, and a Solana-Robinhood*)
(* one its fold.                                                           *)
OpenRouteIsPriced ==
    daemon.phase = "up" =>
      \A r \in ExecutableRoutes :
         (ConfigEnabled(daemon.doc, r) /\ (r \in RobinhoodRoutes => daemon.verified)) =>
           /\ r \in DOMAIN RouteFees(daemon.doc)
           /\ r \in CrossRoutes => r \in daemon.wired
           /\ r \in RobinhoodRoutes => {"indexer", "settlement"} \subseteq daemon.tasks

(* In production no two seats of a quorum are one key or one endpoint, and *)
(* the account that pays gas holds no seat: a daemon that is up needs as   *)
(* many separate custodians as its thresholds say.                         *)
QuorumsAreSeparate ==
    (daemon.phase = "up" /\ daemon.doc.mode = "production") =>
      /\ \A q \in {daemon.doc.attestation, daemon.doc.vault} :
           /\ Cardinality({q.remote[i].key : i \in DOMAIN q.remote}) = Len(q.keys)
           /\ Cardinality({q.remote[i].url : i \in DOMAIN q.remote}) = Len(q.keys)
           /\ Len(q.keys) >= q.threshold
      /\ HasSettlement(daemon.doc) =>
           LET s == daemon.doc.rhn.settlement IN
           /\ Cardinality(Range(s.signers)) = 3
           /\ s.submitter \notin Range(s.signers) \cup {s.remote[i].key : i \in DOMAIN s.remote}

(* What robinhood-preflight passed, the daemon's own gate does not refuse, *)
(* while neither the file nor the deployment has changed since.            *)
PreflightForeseesStart ==
    foresaw # Absent => StartGate(foresaw.doc, foresaw.contract)

ConfigSound ==
    /\ InstalledLoads
    /\ FeeEditMovesOneRoute
    /\ OpenRouteIsPriced
    /\ QuorumsAreSeparate
    /\ PreflightForeseesStart
=============================================================================
