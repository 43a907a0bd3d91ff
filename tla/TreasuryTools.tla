---------------------------- MODULE TreasuryTools ----------------------------
(***************************************************************************)
(* The operator tools that move reserve funds or change the treasury       *)
(* allowlist outside the daemon: glc-treasury-withdraw and                 *)
(* glc-rebalance-policy on Solana, glc-rebalance-withdraw on Goldcoin.     *)
(*                                                                         *)
(* Each works through files: `plan` reads the chain and writes a plan,     *)
(* `attest` (or `sign`) re-checks it on another host and collects          *)
(* signatures, `execute` (or `broadcast`) re-checks it against the chain   *)
(* as it is by then, simulates, and sends.  Hours and other operators pass *)
(* between the steps, files travel between hosts, and a transaction lands  *)
(* after the state it was simulated in has moved on.  The program side is  *)
(* instructions/treasury_withdraw.rs and instructions/rebalance_policy.rs. *)
(***************************************************************************)
EXTENDS FiniteSets, Functions, FiniteSetsExt, Limits, Validation

CONSTANTS
    Accounts,           \* token accounts a treasury list may name
    ReserveAccount,     \* the reserve's own token account
    Lists,              \* treasury lists an operator may type
    Keys,               \* attestation keys that exist
    Keypairs, Admin,    \* keypairs an operator may hand to --admin-keypair, and
                        \* the key that is the admin's (a handover in mid-flight
                        \* is, to a transaction, having the wrong one)
    KeySets,            \* sets of keys a rotation may install
    Nonces, RefundNonces, Amounts,
    StartBalance, ProtectedMinimum, Delay,
    Coins, Value,       \* vault coins and what each is worth
    VaultKeys, VaultThreshold,
    StartLists,         \* allowlists in force at the start; <<>>: no policy yet
    MaxEpoch, MaxVersion, MaxClock,
    MaxInFlight,        \* transactions sent and not yet landed
    Tools,              \* the tools in use: "withdraw", "policy", "goldcoin"
    Events              \* "rotate", "pause", "outflow", "tamper", "payout",
                        \* "account"

Threshold == 2
NoFile == [kind |-> "none"]
NoPending == [open |-> FALSE, list |-> <<>>, eta |-> 0, epoch |-> 0]

VARIABLES
    chain,      \* BridgeConfig, key set, policy, pending policy, reserve, nonces,
                \* and what became of each token account
    plan,       \* the plan file of each tool
    attested,   \* the attested plan file of each Solana tool
    partials,   \* partial-signature files: [key, tx]
    sent,       \* transactions broadcast and not yet landed or dropped
    unspent,    \* vault coins the Goldcoin node lists
    clock
vars == <<chain, plan, attested, partials, sent, unspent, clock>>

SolanaTools == {"withdraw", "policy"}
File(t) == plan[t]

-----------------------------------------------------------------------------
(* What is signed *)

\* treasury_withdraw_claim_message
ClaimMessage(p) == <<"treasury", p.epoch, p.nonce, p.amount, p.dest, p.version>>

\* governance_message over rebalance_policy_params or cancel_params
GovernanceMessage(action, epoch, params) == <<action, epoch, params>>

TakesParameters(action) == action \in {"init", "propose"}
Params(p) == IF TakesParameters(p.action) THEN p.list ELSE p.eta

MessageOf(t, p) ==
    IF t = "withdraw" THEN ClaimMessage(p) ELSE GovernanceMessage(p.action, p.epoch, Params(p))

\* verify_plan_not_tampered of both tools: the recorded message is the one
\* the file's own fields give.
NotTampered(t, p) ==
    /\ p.message = MessageOf(t, p)
    /\ t = "policy" => (TakesParameters(p.action) <=> p.list # <<>>)

\* Who validly signed a message, among the keys that are current now.
Signers(sigs, message) == {k \in chain.keys : [key |-> k, message |-> message] \in sigs}

\* collect_valid_attestations
CollectValidAttestations(sigs, message) ==
    Cardinality(Signers(sigs, message)) >= chain.threshold

-----------------------------------------------------------------------------
(* The checks of glc-treasury-withdraw *)

\* resolve_treasury: the named treasury, or the only one there is.
ResolveTreasury(requested) ==
    CASE requested # "default" -> {requested} \cap Range(chain.policy.list)
      [] Len(chain.policy.list) = 1 -> Range(chain.policy.list)
      [] OTHER -> {}

\* verify_against_policy
VerifyAgainstPolicy(dest, nonce) ==
    /\ nonce \notin RefundNonces
    /\ dest \in Range(chain.policy.list)

\* verify_destination, which only `plan` calls: mint and token program; no
\* stage looks at extensions.
VerifyDestination(dest) == chain.account[dest] # "foreign"

CurrentlyValid_IgnoresFloor(amount, nonce) ==
    amount # 0 /\ chain.paused /\ chain.balance >= amount /\ nonce \notin chain.used

\* verify_withdrawal_is_currently_valid
CurrentlyValid(amount, nonce) ==
    /\ amount # 0
    /\ chain.paused
    /\ chain.balance >= amount + ProtectedMinimum
    /\ nonce \notin chain.used

\* fetch_policy and the version check `attest` and `execute` make.
PolicyUnchanged(p) == chain.policy.exists /\ chain.policy.version = p.version

WithdrawChecks(p) ==
    /\ NotTampered("withdraw", p)
    /\ CurrentlyValid(p.amount, p.nonce)
    /\ PolicyUnchanged(p)
    /\ VerifyAgainstPolicy(p.dest, p.nonce)

-----------------------------------------------------------------------------
(* The checks of glc-rebalance-policy *)

\* validate_policy_params, written again in the tool so that a bad list is
\* refused before anyone is asked to sign it.
ValidatePolicyParams(list) ==
    /\ list # <<>>
    /\ Len(list) <= MaxTreasuries
    /\ \A i \in DOMAIN list :
        /\ list[i] # DefaultKey
        /\ list[i] # ReserveAccount
        /\ \A j \in 1..(i - 1) : list[j] # list[i]

\* verify_action_preconditions
VerifyActionPreconditions(action) ==
    CASE action = "init" -> ~chain.policy.exists
      [] action = "propose" -> chain.policy.exists /\ ~chain.pending.open
      [] action = "cancel" -> chain.pending.open

\* verify_epoch_is_current
VerifyEpochIsCurrent(p) == p.epoch = chain.epoch

PolicyChecks(p) ==
    /\ NotTampered("policy", p)
    /\ VerifyEpochIsCurrent(p)
    /\ VerifyActionPreconditions(p.action)
    /\ TakesParameters(p.action) => ValidatePolicyParams(p.list)

\* cmd_apply carries no plan: the proposal was the approval.
ApplyChecks == chain.pending.open /\ chain.policy.exists /\ chain.pending.epoch = chain.epoch

-----------------------------------------------------------------------------
(* What the program accepts, and does *)

\* require_threshold_approval: the Ed25519 proof in front of the instruction
\* is over the message the program expects.
Approved(tx, message) ==
    tx.message = message /\ Cardinality(Signers(tx.sigs, message)) >= chain.threshold

\* What the program looks at and `execute` does not: that the admin
\* signed, and that the destination is a token account of the reserve mint,
\* under its token program, with supported extensions and no other.
SignedByAdmin(tx) == tx.by = Admin
DestinationFit(tx) == chain.account[tx.dest] = "fit"

\* treasury_withdraw, the constraints of its accounts included
WithdrawAccepted(tx) ==
    /\ SignedByAdmin(tx)
    /\ DestinationFit(tx)
    /\ chain.paused
    /\ tx.epoch = chain.epoch
    /\ tx.amount > 0
    /\ tx.nonce \notin RefundNonces
    /\ chain.policy.exists
    /\ tx.dest \in Range(chain.policy.list)
    /\ tx.dest # ReserveAccount
    /\ ProtectedMinimumOK(chain.balance, ProtectedMinimum, tx.amount)
    /\ tx.nonce \notin chain.used
    /\ Approved(tx, <<"treasury", chain.epoch, tx.nonce, tx.amount, tx.dest, chain.policy.version>>)

\* initialize_, propose_, cancel_ and execute_rebalance_policy
GovernanceAccepted(tx) ==
    CASE tx.action = "init" ->
            /\ ~chain.policy.exists
            /\ ValidTreasuries(tx.list, ReserveAccount)
            /\ Approved(tx, GovernanceMessage("init", chain.epoch, tx.list))
      [] tx.action = "propose" ->
            /\ chain.policy.exists /\ ~chain.pending.open
            /\ ValidTreasuries(tx.list, ReserveAccount)
            /\ Approved(tx, GovernanceMessage("propose", chain.epoch, tx.list))
      [] tx.action = "cancel" ->
            /\ chain.pending.open
            /\ Approved(tx, GovernanceMessage("cancel", chain.epoch, chain.pending.eta))
      [] tx.action = "apply" ->
            /\ chain.pending.open /\ chain.policy.exists
            /\ clock >= chain.pending.eta
            /\ chain.epoch = chain.pending.epoch
            /\ ValidTreasuries(chain.pending.list, ReserveAccount)

Accepted(tx) == IF tx.tool = "withdraw" THEN WithdrawAccepted(tx) ELSE GovernanceAccepted(tx)

Executed(tx) ==
    CASE tx.tool = "withdraw" ->
            [chain EXCEPT !.balance = @ - tx.amount, !.used = @ \cup {tx.nonce}]
      [] tx.tool = "policy" /\ tx.action = "init" ->
            [chain EXCEPT !.policy = [exists |-> TRUE, version |-> 0, list |-> tx.list]]
      [] tx.tool = "policy" /\ tx.action = "propose" ->
            [chain EXCEPT !.pending = [open |-> TRUE, list |-> tx.list, eta |-> clock + Delay,
                                       epoch |-> chain.epoch]]
      [] tx.tool = "policy" /\ tx.action = "cancel" -> [chain EXCEPT !.pending = NoPending]
      [] OTHER ->
            [chain EXCEPT !.policy = [@ EXCEPT !.version = @ + 1, !.list = chain.pending.list],
                          !.pending = NoPending]

-----------------------------------------------------------------------------
(* Files and transactions of the Solana tools *)

\* build_instructions: the instruction takes the file's fields, the signature
\* proof the file's message; a withdrawal is also signed with the keypair of
\* --admin-keypair, whichever that is, and a policy change with none.
Transaction(t, f, by) ==
    IF t = "withdraw"
    THEN [tool |-> t, epoch |-> f.plan.epoch, nonce |-> f.plan.nonce, amount |-> f.plan.amount,
          dest |-> f.plan.dest, message |-> f.plan.message, sigs |-> f.sigs, by |-> by]
    ELSE [tool |-> t, action |-> f.plan.action, list |-> f.plan.list,
          message |-> f.plan.message, sigs |-> f.sigs]

ApplyTransaction ==
    [tool |-> "policy", action |-> "apply", list |-> <<>>, message |-> <<>>, sigs |-> {}]

Sealed(t, p) == [p EXCEPT !.message = MessageOf(t, p)]

\* cmd_plan of glc-treasury-withdraw
PlanWithdraw(requested, amount, nonce) ==
    /\ "withdraw" \in Tools
    /\ chain.policy.exists
    /\ CurrentlyValid(amount, nonce)
    /\ \E dest \in ResolveTreasury(requested) :
        /\ VerifyAgainstPolicy(dest, nonce)
        /\ VerifyDestination(dest)
        /\ plan' = [plan EXCEPT !["withdraw"] =
               Sealed("withdraw",
                      [kind |-> "plan", epoch |-> chain.epoch, threshold |-> chain.threshold,
                       nonce |-> nonce, amount |-> amount, dest |-> dest,
                       version |-> chain.policy.version, message |-> <<>>])]
    /\ UNCHANGED <<chain, attested, partials, sent, unspent, clock>>

\* cmd_plan of glc-rebalance-policy
PlanPolicy(action, list) ==
    /\ "policy" \in Tools
    /\ VerifyActionPreconditions(action)
    /\ IF TakesParameters(action) THEN ValidatePolicyParams(list) ELSE list = <<>>
    /\ plan' = [plan EXCEPT !["policy"] =
           Sealed("policy",
                  [kind |-> "plan", action |-> action, epoch |-> chain.epoch,
                   threshold |-> chain.threshold, list |-> list,
                   eta |-> IF TakesParameters(action) THEN 0 ELSE chain.pending.eta,
                   message |-> <<>>])]
    /\ UNCHANGED <<chain, attested, partials, sent, unspent, clock>>

\* What `attest` checks again on the approval host.  glc-treasury-withdraw
\* does not compare the plan's epoch with the live one.
AttestChecks(t) ==
    IF t = "withdraw" THEN WithdrawChecks(File(t))
    ELSE /\ PolicyChecks(File(t))
         /\ ~TakesParameters(File(t).action) => chain.pending.eta = File(t).eta

\* cmd_attest: each named signer answers, refuses or times out; whether it is
\* a current key is only looked at by `execute`.
Attest(t, answered) ==
    /\ File(t).kind = "plan"
    /\ AttestChecks(t)
    /\ Cardinality(answered) >= File(t).threshold
    /\ attested' = [attested EXCEPT ![t] =
           [kind |-> "attested", plan |-> File(t),
            sigs |-> {[key |-> k, message |-> File(t).message] : k \in answered}]]
    /\ UNCHANGED <<chain, plan, partials, sent, unspent, clock>>

\* Everything execute_withdrawal and execute_governance look at before they
\* build the transaction.
ExecuteChecks(t) ==
    /\ IF t = "withdraw" THEN WithdrawChecks(attested[t].plan) ELSE PolicyChecks(attested[t].plan)
    /\ CollectValidAttestations(attested[t].sigs, attested[t].plan.message)

\* cmd_execute with --execute: the simulation runs the program on the state
\* of now, and nothing is sent unless it succeeds.
Execute(t, by) ==
    /\ attested[t].kind = "attested"
    /\ ExecuteChecks(t)
    /\ Accepted(Transaction(t, attested[t], by))
    /\ sent' = sent \cup {Transaction(t, attested[t], by)}
    /\ UNCHANGED <<chain, plan, attested, partials, unspent, clock>>

\* cmd_apply with --execute
Apply ==
    /\ "policy" \in Tools
    /\ ApplyChecks
    /\ Accepted(ApplyTransaction)
    /\ sent' = sent \cup {ApplyTransaction}
    /\ UNCHANGED <<chain, plan, attested, partials, unspent, clock>>

\* external: a sent transaction executes on the state it meets, or its
\* blockhash expires or the program refuses it.
Land(tx) ==
    /\ tx \in sent
    /\ Accepted(tx)
    /\ chain' = Executed(tx)
    /\ sent' = sent \ {tx}
    /\ UNCHANGED <<plan, attested, partials, unspent, clock>>

Drop(tx) ==
    /\ tx \in sent
    /\ sent' = sent \ {tx}
    /\ UNCHANGED <<chain, plan, attested, partials, unspent, clock>>

-----------------------------------------------------------------------------
(* glc-rebalance-withdraw, the Goldcoin side *)

CoinsValue(coins) == MapThenSumSet(LAMBDA c : Value[c], coins)

\* build_unsigned_tx of plan_to_payout_plan: inputs, payout, change
UnsignedTx(p) == <<p.inputs, p.dest, p.amount, p.change>>

\* verify_payout_tx
Conserves(p) == CoinsValue(p.inputs) = p.amount + p.change + p.fee

\* cmd_plan: coins come from the node's list_unspent alone; the ledger, and
\* the payouts that hold some of those coins, are not consulted.
PlanGoldcoin(dest, amount, coins, fee) ==
    /\ "goldcoin" \in Tools
    /\ coins \subseteq unspent /\ coins # {}
    /\ CoinsValue(coins) >= amount + fee
    /\ LET p == [kind |-> "plan", inputs |-> coins, dest |-> dest, amount |-> amount, fee |-> fee,
                 change |-> CoinsValue(coins) - amount - fee, tx |-> <<>>]
       IN  plan' = [plan EXCEPT !["goldcoin"] = [p EXCEPT !.tx = UnsignedTx(p)]]
    /\ UNCHANGED <<chain, attested, partials, sent, unspent, clock>>

\* cmd_sign: the plan conserves value and its recorded bytes are the
\* transaction its own fields give.
SignerAccepts(p) == Conserves(p) /\ UnsignedTx(p) = p.tx

Sign(k) ==
    /\ File("goldcoin").kind = "plan"
    /\ SignerAccepts(File("goldcoin"))
    /\ k \in VaultKeys
    /\ partials' = partials \cup {[key |-> k, tx |-> UnsignedTx(File("goldcoin"))]}
    /\ UNCHANGED <<chain, plan, attested, sent, unspent, clock>>

\* assemble_signed_tx: exactly threshold files, of different vault keys, each
\* over this very transaction.
Assembles(p, files) ==
    /\ Cardinality(files) = VaultThreshold
    /\ Cardinality({f.key : f \in files}) = VaultThreshold
    /\ \A f \in files : f.key \in VaultKeys /\ f.tx = UnsignedTx(p)

\* cmd_broadcast with --execute: --confirm-paused is a promise; with
\* --solana-rpc-url the live flag is read too.  The node refuses a spent input.
Broadcast(files, checkLive) ==
    /\ File("goldcoin").kind = "plan"
    /\ checkLive => chain.paused
    /\ Conserves(File("goldcoin"))
    /\ Assembles(File("goldcoin"), files)
    /\ File("goldcoin").inputs \subseteq unspent
    /\ sent' = sent \cup {[tool |-> "goldcoin", tx |-> UnsignedTx(File("goldcoin")),
                           by |-> {f.key : f \in files}]}
    /\ unspent' = unspent \ File("goldcoin").inputs
    /\ UNCHANGED <<chain, plan, attested, partials, clock>>

-----------------------------------------------------------------------------
(* What happens meanwhile *)

\* a governed key rotation
Rotate(keys) ==
    /\ "rotate" \in Events
    /\ chain.epoch < MaxEpoch
    /\ chain' = [chain EXCEPT !.epoch = @ + 1, !.keys = keys]
    /\ UNCHANGED <<plan, attested, partials, sent, unspent, clock>>

\* set_paused of the program
TogglePause ==
    /\ "pause" \in Events
    /\ chain' = [chain EXCEPT !.paused = ~@]
    /\ UNCHANGED <<plan, attested, partials, sent, unspent, clock>>

\* releases and refunds draw on the same reserve
Outflow(a) ==
    /\ "outflow" \in Events
    /\ ProtectedMinimumOK(chain.balance, ProtectedMinimum, a)
    /\ chain' = [chain EXCEPT !.balance = @ - a]
    /\ UNCHANGED <<plan, attested, partials, sent, unspent, clock>>

\* external: the owner of a token account closes it or makes another of the
\* same address, adds an extension the program does not support, or puts it
\* right.  The reserve's own account has the program's PDA for its owner.
ChangeAccount(a, becomes) ==
    /\ "account" \in Events
    /\ a # ReserveAccount
    /\ chain.account[a] # becomes
    /\ chain' = [chain EXCEPT !.account[a] = becomes]
    /\ UNCHANGED <<plan, attested, partials, sent, unspent, clock>>

\* the daemon's own payout spends a vault coin
Payout(c) ==
    /\ "payout" \in Events
    /\ c \in unspent
    /\ unspent' = unspent \ {c}
    /\ UNCHANGED <<chain, plan, attested, partials, sent, clock>>

\* A file is edited or corrupted on its way between hosts: a field, with or
\* without the message it seals.
TamperedWithdraw(p) ==
    UNION {{[p EXCEPT !.amount = a, !.dest = d],
            Sealed("withdraw", [p EXCEPT !.amount = a, !.dest = d])} :
           a \in Amounts, d \in Accounts}
TamperedPolicy(p) ==
    UNION {{[p EXCEPT !.list = l], Sealed("policy", [p EXCEPT !.list = l])} : l \in Lists}

Tamper(t) ==
    /\ "tamper" \in Events
    /\ \/ /\ File(t).kind = "plan"
          /\ \E p \in IF t = "withdraw" THEN TamperedWithdraw(File(t)) ELSE TamperedPolicy(File(t)) :
                plan' = [plan EXCEPT ![t] = p]
          /\ UNCHANGED attested
       \/ /\ attested[t].kind = "attested"
          /\ \E p \in IF t = "withdraw" THEN TamperedWithdraw(attested[t].plan)
                                        ELSE TamperedPolicy(attested[t].plan) :
                attested' = [attested EXCEPT ![t].plan = p]
          /\ UNCHANGED plan
    /\ UNCHANGED <<chain, partials, sent, unspent, clock>>

TamperGoldcoin(dest, resealed) ==
    /\ "tamper" \in Events
    /\ File("goldcoin").kind = "plan"
    /\ LET p == [File("goldcoin") EXCEPT !.dest = dest]
       IN  plan' = [plan EXCEPT !["goldcoin"] =
                       IF resealed THEN [p EXCEPT !.tx = UnsignedTx(p)] ELSE p]
    /\ UNCHANGED <<chain, attested, partials, sent, unspent, clock>>

Tick ==
    /\ clock < MaxClock
    /\ clock' = clock + 1
    /\ UNCHANGED <<chain, plan, attested, partials, sent, unspent>>

Init ==
    /\ \E l \in StartLists :
        chain = [paused |-> TRUE, balance |-> StartBalance, epoch |-> 0, threshold |-> Threshold,
                 keys |-> CHOOSE s \in KeySets : TRUE, used |-> {}, pending |-> NoPending,
                 account |-> [a \in Accounts |-> "fit"],
                 policy |-> [exists |-> l # <<>>, version |-> 0, list |-> l]]
    /\ plan = [t \in {"withdraw", "policy", "goldcoin"} |-> NoFile]
    /\ attested = [t \in SolanaTools |-> NoFile]
    /\ partials = {} /\ sent = {}
    /\ unspent = Coins
    /\ clock = 0

SolanaStep ==
    \/ \E r \in Accounts \cup {"default"}, a \in Amounts, n \in Nonces : PlanWithdraw(r, a, n)
    \/ \E action \in {"init", "propose", "cancel"}, l \in Lists \cup {<<>>} : PlanPolicy(action, l)
    \/ \E t \in SolanaTools, s \in SUBSET Keys : Attest(t, s)
    \/ \E t \in SolanaTools, by \in Keypairs : Cardinality(sent) < MaxInFlight /\ Execute(t, by)
    \/ Cardinality(sent) < MaxInFlight /\ Apply
    \/ \E tx \in {x \in sent : x.tool \in SolanaTools} :
            (tx.tool = "policy" /\ tx.action = "apply" => chain.policy.version < MaxVersion) /\ Land(tx)
    \/ \E tx \in {x \in sent : x.tool \in SolanaTools} : Drop(tx)

GoldcoinStep ==
    \/ \E d \in Accounts, a \in Amounts, cs \in SUBSET Coins, fee \in {1} : PlanGoldcoin(d, a, cs, fee)
    \/ \E k \in Keys : Sign(k)
    \/ \E files \in SUBSET partials, live \in BOOLEAN : Broadcast(files, live)

EnvironmentStep ==
    \/ \E ks \in KeySets : Rotate(ks)
    \/ TogglePause
    \/ \E a \in Accounts, s \in {"fit", "extended", "foreign"} : ChangeAccount(a, s)
    \/ \E a \in Amounts \ {0} : Outflow(a)
    \/ \E c \in Coins : Payout(c)
    \/ \E t \in SolanaTools : Tamper(t)
    \/ \E d \in Accounts, sealed \in BOOLEAN : TamperGoldcoin(d, sealed)
    \/ Tick

Next == SolanaStep \/ GoldcoinStep \/ EnvironmentStep

Spec == Init /\ [][Next]_vars

-----------------------------------------------------------------------------
\* The checks the tools make and the checks the program makes are written
\* twice, in different crates.  Whatever has happened to the chain and to the
\* files since they were written, the program takes no plan that `execute`
\* would stop, so no check of the tool is stricter than the program; and when
\* the program refuses a plan `execute` let through to the simulation, it is
\* for one of the facts the tool leaves to it: the epoch of a withdrawal,
\* whose key signed as the admin, and what has become of the destination
\* account since it was planned; the eta a cancellation names; the timelock of `apply`.
\* (A cancellation whose file grew a treasury list is refused by the tool
\* alone.)
ToolAgreesWithProgram ==
    /\ attested["withdraw"].kind = "attested" =>
        \A by \in Keypairs :
            LET p == attested["withdraw"].plan
                tx == Transaction("withdraw", attested["withdraw"], by)
            IN  /\ WithdrawAccepted(tx) => ExecuteChecks("withdraw")
                /\ ExecuteChecks("withdraw") /\ ~WithdrawAccepted(tx) =>
                       p.epoch # chain.epoch \/ ~SignedByAdmin(tx) \/ ~DestinationFit(tx)
    /\ attested["policy"].kind = "attested" =>
        LET p == attested["policy"].plan
        IN  ExecuteChecks("policy") /\ (p.action = "cancel" => p.eta = chain.pending.eta)
                <=> /\ \A by \in Keypairs : GovernanceAccepted(Transaction("policy", attested["policy"], by))
                    /\ p.action = "cancel" => p.list = <<>>
    /\ ApplyChecks /\ clock >= chain.pending.eta
            <=> GovernanceAccepted(ApplyTransaction)

\* A Goldcoin transaction that was broadcast carries the signatures of
\* threshold vault keys over itself, made from files whose recorded bytes
\* were the ones shown; no file edit between the hosts gets another one out.
GoldcoinAsSigned ==
    \A s \in sent : s.tool = "goldcoin" =>
        /\ Cardinality(s.by) = VaultThreshold
        /\ \A k \in s.by : [key |-> k, tx |-> s.tx] \in partials

\* The tools of both chains are sound.
ToolsSound == ToolAgreesWithProgram /\ GoldcoinAsSigned
==============================================================================
