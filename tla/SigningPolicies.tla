--------------------------- MODULE SigningPolicies ---------------------------
(***************************************************************************)
(* What a custody domain is willing to sign, and what the daemon takes for *)
(* a quorum.                                                               *)
(*                                                                         *)
(* A domain is shown a document (Robinhood) or a message (Solana) by a     *)
(* host it does not trust, rebuilds what the signature would mean from     *)
(* what it was shown, holds that against its own configuration, and signs  *)
(* only what it rebuilt.  The daemon asks domains in turn and accepts two  *)
(* different, authorized answers over the digest it derived itself.        *)
(*                                                                         *)
(* A hash is injective here, as everywhere in this project: it is          *)
(* represented by the tuple of what goes into it.                          *)
(***************************************************************************)
EXTENDS Integers, Sequences, FiniteSets, FiniteSetsExt, SequencesExt

\* A field that is not there
CONSTANT Absent

-----------------------------------------------------------------------------
(* Robinhood authorizations: auth.rs *)

DepositRoutes == {"RhnToGlc", "RhnToSol"}
PayoutRoutes == {"GlcToRhn", "SolToRhn"}
RouteBound == {"payout", "refund", "settlement"}

\* is_deposit_route and contract_route, as each struct_hash asks them: an
\* authorization whose route does not fit its kind has no encoding.
Encodable(kind, route) ==
    CASE kind = "payout" -> route \in PayoutRoutes
      [] kind \in {"refund", "settlement"} -> route \in DepositRoutes
      [] OTHER -> TRUE

\* The optional fields a kind's struct hash binds
Bound(kind) ==
    CASE kind = "payout" -> {"route", "source", "dest", "token", "recipient", "amount"}
      [] kind = "refund" -> {"route", "source", "dest", "token", "index", "recipient", "amount"}
      [] kind = "settlement" -> {"route", "source", "dest", "index"}
      [] kind = "treasury_withdraw" -> {"token", "treasury", "amount"}

OptionalFields == {"route", "source", "dest", "treasury", "token", "index", "recipient", "amount"}

\* PayoutAuth, RefundAuth, SettlementAuth and TreasuryWithdrawAuth under
\* their EIP-712 domain
Digest(domain, kind, fields, request, epoch, expiry) ==
    <<domain, kind, [f \in Bound(kind) |-> fields[f]], request, epoch, expiry>>

\* EvmAuthSignRequest::from_request: what the daemon sends for a digest
FromRequest(digest) ==
    [domain |-> digest[1], kind |-> digest[2],
     fields |-> [f \in OptionalFields |-> IF f \in Bound(digest[2]) THEN digest[3][f] ELSE Absent],
     request |-> digest[4], epoch |-> digest[5], expiry |-> digest[6],
     expected |-> digest]

-----------------------------------------------------------------------------
(* EvmSignerPolicy::evaluate *)

\* The route half: a route-bound kind names a permitted route and exactly
\* the chain pair this domain holds for it; a withdrawal names neither.
RouteAccepted(policy, doc) ==
    IF doc.kind = "treasury_withdraw"
    THEN \A f \in {"route", "source", "dest"} : doc.fields[f] = Absent
    ELSE /\ doc.fields.treasury = Absent
         /\ doc.fields.route \in policy.routes
         /\ doc.fields.source = policy.chains[doc.fields.route].source
         /\ doc.fields.dest = policy.chains[doc.fields.route].dest

\* Expiry ahead, not further than this domain's own ceiling, and the epoch
\* it pins if it pins one
WindowAccepted(policy, doc, now) ==
    /\ now < doc.expiry
    /\ doc.expiry - now <= policy.maxTtl
    /\ policy.epoch \in {Absent, doc.epoch}

\* require_token and require_amount; a withdrawal has no ceiling but is
\* never of nothing.
TokenAccepted(policy, doc) == doc.fields.token = policy.token
AmountAccepted(policy, doc) ==
    /\ doc.fields.amount # Absent
    /\ IF doc.kind = "treasury_withdraw" THEN doc.fields.amount # 0
                                         ELSE doc.fields.amount <= policy.maxAmount

\* The payload half, kind by kind: what it binds is required and what it
\* does not bind is refused.
PayloadAccepted(policy, doc) ==
    CASE doc.kind = "payout" ->
            /\ doc.fields.index = Absent
            /\ TokenAccepted(policy, doc)
            /\ doc.fields.recipient # Absent
            /\ AmountAccepted(policy, doc)
      [] doc.kind = "refund" ->
            /\ TokenAccepted(policy, doc)
            /\ doc.fields.index # Absent
            /\ doc.fields.recipient # Absent
            /\ AmountAccepted(policy, doc)
      [] doc.kind = "settlement" ->
            /\ \A f \in {"token", "recipient", "amount"} : doc.fields[f] = Absent
            /\ doc.fields.index # Absent
      [] doc.kind = "treasury_withdraw" ->
            /\ doc.fields.index = Absent /\ doc.fields.recipient = Absent
            /\ TokenAccepted(policy, doc)
            /\ doc.fields.treasury \in policy.treasuries
            /\ AmountAccepted(policy, doc)

\* The digest is rebuilt from the fields; the one the requester expects is
\* only compared with it.
Evaluate(policy, doc, now) ==
    /\ doc.kind \in policy.actions
    /\ doc.domain = policy.domain
    /\ RouteAccepted(policy, doc)
    /\ WindowAccepted(policy, doc, now)
    /\ PayloadAccepted(policy, doc)
    /\ Encodable(doc.kind, doc.fields.route)
    /\ doc.expected = Digest(doc.domain, doc.kind, doc.fields, doc.request, doc.epoch, doc.expiry)

-----------------------------------------------------------------------------
(* Request identities: derive_request_id and what callers give it *)

\* A number written over a fixed count of digits, as to_be_bytes writes it
ToBytes(n, width) == [i \in 1..width |-> (n \div 2 ^ (width - i)) % 2]

GoldcoinSourceIdentity(txid, vout, row) == ToBytes(txid, 3) \o ToBytes(vout, 1) \o ToBytes(row, 2)
SolanaSourceIdentity(program, index, row) == ToBytes(program, 3) \o ToBytes(index, 2) \o ToBytes(row, 2)
ObligationIdentity(index) == ToBytes(index, 2)
TreasuryWithdrawalIdentity(row, at, amount) == ToBytes(row, 2) \o ToBytes(at, 2) \o ToBytes(amount, 2)

RouteByte_Constant(route) == 1
\* contract_route_id; zero is no route
RouteByte(route) ==
    CASE route = "GlcToRhn" -> 1 [] route = "RhnToGlc" -> 2 [] route = "SolToRhn" -> 3
      [] route = "RhnToSol" -> 4 [] OTHER -> 0
ActionByte(kind) ==
    CASE kind = "payout" -> 1 [] kind = "refund" -> 2 [] kind = "settlement" -> 3 [] OTHER -> 4

\* The preimage is a plain concatenation: nothing separates the identity
\* from what precedes it.
DeriveRequestId(kind, route, contract, chain, identity) ==
    <<ActionByte(kind), RouteByte(route)>> \o ToBytes(contract, 1) \o ToBytes(chain, 1) \o identity

\* Which identity an operation derives its request id from
IdentityOf(op) ==
    CASE op.kind = "treasury_withdraw" -> TreasuryWithdrawalIdentity(op.a, op.b, op.c)
      [] op.kind = "payout" /\ op.route = "GlcToRhn" -> GoldcoinSourceIdentity(op.a, op.b, op.c)
      [] op.kind = "payout" -> SolanaSourceIdentity(op.a, op.b, op.c)
      [] OTHER -> ObligationIdentity(op.a)
RequestIdOf(op) == DeriveRequestId(op.kind, op.route, 0, 1, IdentityOf(op))

-----------------------------------------------------------------------------
(* Solana messages: parse_claim and SignerPolicy::evaluate *)

\* The exact length of each family, by its action
ClaimLength ==
    [release |-> 166, completion |-> 146, treasury_withdraw |-> 178, refund_withdraw |-> 210,
     rebalance_withdraw |-> 138]
GovernanceLength == 90

\* parse_claim: tag, action and length must agree; the retired withdrawal
\* family is recognised and refused.
ParseClaim(msg) ==
    CASE msg.tag = "governance" -> IF msg.len = GovernanceLength THEN "governance" ELSE "refused"
      [] msg.tag # "claim" \/ msg.action \notin DOMAIN ClaimLength -> "refused"
      [] msg.len # ClaimLength[msg.action] -> "refused"
      [] msg.action = "rebalance_withdraw" -> "refused"
      [] OTHER -> msg.action

\* ClaimRequest::class
ActionClass(claim) ==
    CASE claim \in {"release", "completion"} -> "settlement"
      [] claim \in {"treasury_withdraw", "refund_withdraw"} -> "withdrawal"
      [] claim = "governance" -> "governance"
      [] OTHER -> "none"

\* SignerPolicy::evaluate
EvaluateClaim(policy, msg) ==
    LET claim == ParseClaim(msg)
    IN  /\ claim # "refused"
        /\ msg.program = policy.program
        /\ ActionClass(claim) \in policy.classes
        /\ claim \in {"release", "treasury_withdraw", "refund_withdraw"} => msg.mint = policy.mint
        /\ claim = "treasury_withdraw" => msg.destination \in policy.treasuries
        /\ claim \in {"treasury_withdraw", "refund_withdraw"} => msg.amount <= policy.maxAmount
        /\ claim = "governance" => msg.commitment \in policy.approved

-----------------------------------------------------------------------------
(* Gathering a quorum *)

SignerThreshold == 2

\* What RemoteEvmAuthSigner::sign_authorization reports for an answer: a
\* signature it has checked, an error to go on from, or one to stop at.
\*   ok        recovers to the domain's address over this digest
\*   refused   an HTTP error, a malformed body, an outage
\*   foreign   recovers to another address, or over another digest
\*   late      nothing before the timeout
Tolerable(answer) == answer \in {"refused", "late"}

\* collect_quorum's walk over the signers in config order
Collect(signers, authorized, answers) ==
    LET Step(state, i) ==
          IF state.stop \/ Cardinality(state.by) = SignerThreshold \/ signers[i] \in state.by
          THEN state
          ELSE IF Tolerable(answers[i]) THEN state
          ELSE IF answers[i] # "ok" \/ signers[i] \notin authorized
               THEN [state EXCEPT !.stop = TRUE]
          ELSE [state EXCEPT !.by = @ \cup {signers[i]}]
    IN  FoldLeft(Step, [by |-> {}, stop |-> FALSE], [i \in DOMAIN signers |-> i])

\* The authorization quorum, or nothing: a domain that answers with
\* something it should not have ends the attempt, an outage does not.
Quorum(signers, authorized, answers) ==
    LET c == Collect(signers, authorized, answers)
    IN  IF ~c.stop /\ Len(signers) >= SignerThreshold /\ Cardinality(c.by) = SignerThreshold
        THEN c.by ELSE {}

-----------------------------------------------------------------------------
(* Independent attestation on Solana: attestation.rs *)

\* The message each domain rebuilds for itself from the ledger row and the
\* chain; release_claim_message and goldcoin_completion_message
ClaimMessage(action, env, amount) ==
    [tag |-> "claim", action |-> action, len |-> ClaimLength[action], program |-> env.program,
     mint |-> env.mint, amount |-> amount, destination |-> Absent, commitment |-> Absent]

\* independently_attest_release: a finalized source, its outpoint and a
\* breakdown that adds up
AttestsRelease(request) ==
    /\ request.direction \in {"GlcToSol", "RhnToSol"}
    /\ request.state = "SourceFinalized"
    /\ request.bound
    /\ request.net + request.fee = request.gross

\* The payout a completion may rest on
PayoutFinal(request) ==
    CASE request.direction = "SolToGlc" -> request.payoutState \in {"Confirmed", "Completed"}
      [] request.direction = "SolToRhn" -> request.payoutState = "Finalized"
      [] OTHER -> FALSE

\* independently_attest_completion: what was paid is what the obligation on
\* chain, net of the fee the request was priced with, called for.
AttestsCompletion(request) ==
    /\ request.bound
    /\ PayoutFinal(request)
    /\ request.onchain - request.fee = request.net

-----------------------------------------------------------------------------
(* What these decisions must satisfy, input by input *)

\* A domain signs exactly the documents its policy permits in their one
\* canonical form: nothing it was shown is left unsigned, nothing it signs
\* was not shown, and what an honest daemon builds is never refused for
\* its shape.
SignsWhatItShows(policy, doc, now) ==
    Evaluate(policy, doc, now) <=>
        /\ doc = FromRequest(Digest(doc.domain, doc.kind, doc.fields, doc.request,
                                    doc.epoch, doc.expiry))
        /\ \A f \in Bound(doc.kind) : doc.fields[f] # Absent
        /\ Encodable(doc.kind, doc.fields.route)
        /\ doc.kind \in policy.actions /\ doc.domain = policy.domain
        /\ now < doc.expiry /\ doc.expiry <= now + policy.maxTtl
        /\ policy.epoch \in {Absent, doc.epoch}
        /\ "token" \in Bound(doc.kind) => doc.fields.token = policy.token
        /\ doc.kind \in RouteBound =>
            /\ doc.fields.route \in policy.routes
            /\ <<doc.fields.source, doc.fields.dest>> =
                <<policy.chains[doc.fields.route].source, policy.chains[doc.fields.route].dest>>
            /\ doc.fields.amount \in {Absent} \cup 0..policy.maxAmount
        /\ doc.kind = "treasury_withdraw" =>
            doc.fields.treasury \in policy.treasuries /\ doc.fields.amount > 0

\* Two operations share a request id only if they are the same operation:
\* the contract consumes an id once, so a shared one would be a payout that
\* can never be made.
SameIdSameOperation(x, y) == RequestIdOf(x) = RequestIdOf(y) => x = y

\* A Solana domain signs a withdrawal only with a credential for
\* withdrawals, to a treasury it holds itself, within its ceiling, and
\* never a message of the retired family or one that is not a whole
\* message of its family.
ClaimsUnderstood(policy, msg) ==
    EvaluateClaim(policy, msg) =>
        /\ msg.tag = "governance" => msg.len = GovernanceLength /\ msg.commitment \in policy.approved
        /\ msg.tag = "claim" =>
            /\ msg.len = ClaimLength[msg.action] /\ msg.action # "rebalance_withdraw"
            /\ msg.action \in {"treasury_withdraw", "refund_withdraw"} =>
                "withdrawal" \in policy.classes /\ msg.amount <= policy.maxAmount
            /\ msg.action = "treasury_withdraw" => msg.destination \in policy.treasuries

\* The daemon settles with a credential for settlement alone: every message
\* it has attested is one such a domain signs, and none of them moves more
\* or less than the deposit on the other chain, net of its fee.
SettlementSuffices(policy, env, request) ==
    /\ AttestsRelease(request) \/ AttestsCompletion(request) =>
        EvaluateClaim([policy EXCEPT !.classes = {"settlement"}, !.program = env.program,
                                     !.mint = env.mint],
                      ClaimMessage(IF AttestsRelease(request) THEN "release" ELSE "completion",
                                   env, request.net))
    /\ AttestsCompletion(request) => request.net = request.onchain - request.fee
    /\ ~(AttestsRelease(request) /\ AttestsCompletion(request))

\* A quorum is two different authorized domains that each answered with
\* their own signature, and outages alone never prevent one while two such
\* domains answer.
QuorumIsTwo(signers, authorized, answers) ==
    LET good == {signers[i] : i \in {j \in DOMAIN signers :
                     answers[j] = "ok" /\ signers[j] \in authorized}}
        q == Quorum(signers, authorized, answers)
    IN  /\ q # {} => Cardinality(q) = SignerThreshold /\ q \subseteq good
        /\ Cardinality(good) >= SignerThreshold
           /\ (\A i \in DOMAIN signers : answers[i] = "ok" => signers[i] \in authorized)
           /\ (\A i \in DOMAIN signers : answers[i] # "foreign")
           => q # {}

==============================================================================
