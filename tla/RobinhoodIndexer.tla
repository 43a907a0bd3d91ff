-------------------------- MODULE RobinhoodIndexer --------------------------
(***************************************************************************)
(* The Robinhood deposit indexer (robinhood/indexer.rs) over its ledger    *)
(* tables (ledger/robinhood.rs), the chain it reads, and the operator's    *)
(* recover-deposit tool (robinhood/recover_deposit.rs).                    *)
(*                                                                         *)
(* One tick is many RPC calls with the chain free to move between them:    *)
(* read the head, check the cursor's hash, then per chunk read the logs,   *)
(* check the blocks that held deposits, read the hash the cursor will      *)
(* carry, commit, and finally promote what is deep enough.                 *)
(*                                                                         *)
(* A block is [id, dep]: id stands for its hash and dep is the deposit it  *)
(* carries, if any.  A deposit's obligation index is its rank on the       *)
(* chain, so two branches may give one index to two deposits.              *)
(***************************************************************************)
EXTENDS Naturals, Integers, FiniteSets, FiniteSetsExt, Sequences

CONSTANTS
    Deposits,        \* depositors, at most one deposit to a block
    NoDeposit,
    Depth,           \* confirmation_depth, at least 1
    StartBlock,      \* start_block
    ChunkSize,       \* max_log_block_range
    MaxHeight,       \* bound: height of the chain
    MaxReorgs,       \* bound: reorganisations
    MaxReorgDepth,   \* bound: blocks one reorganisation replaces
    Events           \* which of "fail", "wrongchain", "badroute", "removed", "clear",
                     \* "recover" happen

VARIABLES
    chain,           \* the canonical chain, 1..height
    mined,           \* blocks ever mined, the next block's id
    reorgs,          \* depth of every reorganisation so far, as a sequence
    anchors,         \* robinhood_scanned_blocks: height -> id
    obs,             \* robinhood_deposit_observations
    halt,            \* robinhood_indexer_state.halt_reason, or "None"
    torn,            \* ids of blocks a tick read in part: replaced, or put in
                     \* place, behind the reads it commits, and those whose log
                     \* the endpoint flagged as removed
    outside,         \* the endpoint served another chain or contract, or a
                     \* deposit was recovered past the scanner
    pc, head, from,  \* the tick in progress
    logs             \* what the chunk in progress has read

chainVars == <<chain, mined, reorgs, torn>>
tickVars  == <<pc, head, from, logs>>
vars == <<chainVars, anchors, obs, halt, outside, tickVars>>

Observation(i, d, b, id, finality) ==
    [index |-> i, dep |-> d, block |-> b, id |-> id, finality |-> finality]

Init ==
    /\ chain = <<[id |-> 1, dep |-> NoDeposit]>>
    /\ mined = 1
    /\ reorgs = <<>>
    /\ torn = {}
    /\ anchors = <<>>
    /\ obs = {}
    /\ halt = "None"
    /\ outside = FALSE
    /\ pc = "Idle" /\ head = 0 /\ from = 0 /\ logs = {}

-----------------------------------------------------------------------------
(* The chain *)

Mine(d) ==
    /\ Len(chain) < MaxHeight
    /\ chain' = Append(chain, [id |-> mined + 1, dep |-> d])
    /\ mined' = mined + 1
    /\ UNCHANGED <<reorgs, torn, anchors, obs, halt, outside, tickVars>>

To == Min({from + ChunkSize - 1, head})

\* The heights whose part in this tick is behind it: below the chunk once the
\* cursor was checked, and in the chunk once its logs were read.
AlreadyRead ==
    CASE pc = "Logs" -> 1..(from - 1)
      [] pc \in {"Verify", "Apply"} -> 1..To
      [] OTHER -> {}

\* The last n blocks give way to as many of another branch, at any moment.
Reorg(n, deps) ==
    /\ Len(reorgs) < MaxReorgs
    /\ n < Len(chain)
    /\ LET kept == Len(chain) - n
       IN  /\ chain' = SubSeq(chain, 1, kept)
                         \o [i \in 1..n |-> [id |-> mined + i, dep |-> deps[i]]]
           /\ torn' = torn \cup UNION {{chain[b].id, mined + b - kept} :
                                       b \in AlreadyRead \cap ((kept + 1)..Len(chain))}
    /\ mined' = mined + n
    /\ reorgs' = Append(reorgs, n)
    /\ UNCHANGED <<anchors, obs, halt, outside, tickVars>>

\* block_by_number: the block's hash, if the endpoint has such a block.
CanonicalHash(b) == IF b \in 1..Len(chain) THEN chain[b].id ELSE 0

IsCanonical(b, id) == CanonicalHash(b) = id

ObligationIndex(b) == Cardinality({h \in 1..b : chain[h].dep # NoDeposit})

\* eth_getLogs over a range of blocks, each log decoded into what it asserts.
Logs(lo, hi) ==
    {Observation(ObligationIndex(b), chain[b].dep, b, chain[b].id, "Provisional") :
        b \in {h \in lo..hi : h <= Len(chain) /\ chain[h].dep # NoDeposit}}

-----------------------------------------------------------------------------
(* The ledger *)

Cursor == IF DOMAIN anchors = {} THEN 0 ELSE Max(DOMAIN anchors)

Live(o) == o.finality # "Reorged"

FinalAbove(b) == {o \in obs : o.finality = "Final" /\ o.block > b}

\* record_observation: the live row of the same obligation, if there is one,
\* must assert exactly the same.
Recorded(o) == {p \in obs : Live(p) /\ p.index = o.index}

Conflicts(o) == \E p \in Recorded(o) : [p EXCEPT !.finality = o.finality] # o

WithObservations(new) == obs \cup {o \in new : Recorded(o) = {}}

\* Anchors within the confirmation depth of the cursor stay, and the highest
\* of the older ones.
Pruned(table, cursor) ==
    LET floor == cursor - Depth
        older == {b \in DOMAIN table : b < floor}
        kept  == {b \in DOMAIN table : b >= floor} \cup (IF older = {} THEN {} ELSE {Max(older)})
    IN  [b \in kept |-> table[b]]

\* robinhood_record_halt keeps the first reason.
Halted(reason) == IF halt = "None" THEN reason ELSE halt

EndTick ==
    /\ pc' = "Idle"
    /\ head' = 0 /\ from' = 0 /\ logs' = {}

HaltWith(reason) ==
    /\ halt' = Halted(reason)
    /\ EndTick
    /\ UNCHANGED <<anchors, obs>>

-----------------------------------------------------------------------------
(* One tick *)

StartTick ==
    /\ pc = "Idle" /\ halt = "None"
    /\ head' = Len(chain)
    /\ pc' = "Check"
    /\ UNCHANGED <<chainVars, anchors, obs, halt, outside, from, logs>>

\* The endpoint answers with another chain id.
ChainIdMismatch ==
    /\ "wrongchain" \in Events
    /\ pc = "Idle" /\ halt = "None"
    /\ outside' = TRUE
    /\ HaltWith("ChainIdMismatch")
    /\ UNCHANGED chainVars

FinalizedFrontier == IF head + 1 >= Depth THEN head + 1 - Depth ELSE 0

ScanFrom(b) ==
    /\ from' = b
    /\ pc' = IF b <= head THEN "Logs" ELSE "Promote"
    /\ UNCHANGED <<head, logs>>

Matching == {b \in DOMAIN anchors : IsCanonical(b, anchors[b])}

RollbackReorg_KeepsObservations(fork) ==
    /\ obs' = obs
    /\ anchors' = [b \in {a \in DOMAIN anchors : a <= fork} |-> anchors[b]]

\* robinhood_rollback_reorg.
RollbackReorg(fork) ==
    /\ obs' = {IF o.finality = "Provisional" /\ o.block > fork
               THEN [o EXCEPT !.finality = "Reorged"] ELSE o : o \in obs}
    /\ anchors' = [b \in {a \in DOMAIN anchors : a <= fork} |-> anchors[b]]

\* reconcile_reorg: back to the highest anchor that is still canonical, unless
\* that would contradict a final observation.
ReconcileReorg ==
    LET deepest == Min(DOMAIN anchors)
        fork    == Max(Matching)
    IN  \/ /\ Matching = {}
           /\ HaltWith(IF FinalAbove(deepest - 1) # {} THEN "PostFinalityReorg"
                       ELSE "ReorgBeyondRetainedAnchors")
        \/ /\ Matching # {} /\ FinalAbove(fork) # {}
           /\ HaltWith("PostFinalityReorg")
        \/ /\ Matching # {} /\ FinalAbove(fork) = {}
           /\ RollbackReorg(fork)
           /\ ScanFrom(fork + 1)
           /\ UNCHANGED halt

CheckCursor ==
    /\ pc = "Check"
    /\ IF Cursor = 0 \/ Cursor \in Matching
       THEN /\ ScanFrom(IF Cursor = 0 THEN StartBlock ELSE Cursor + 1)
            /\ UNCHANGED <<anchors, obs, halt>>
       ELSE ReconcileReorg
    /\ UNCHANGED <<chainVars, outside>>

\* The chunk's logs, but for those the endpoint flags as removed: they are
\* skipped and the chunk goes on.
ReadLogs ==
    /\ pc = "Logs"
    /\ \E removed \in SUBSET Logs(from, To) :
        /\ removed # {} => "removed" \in Events
        /\ logs' = Logs(from, To) \ removed
        /\ torn' = torn \cup {o.id : o \in removed}
    /\ pc' = "Verify"
    /\ UNCHANGED <<chain, mined, reorgs, anchors, obs, halt, outside, head, from>>

\* A log that names a route the bridge contract never emits.
UnexpectedContractRoute ==
    /\ "badroute" \in Events
    /\ pc = "Logs"
    /\ outside' = TRUE
    /\ HaltWith("UnexpectedContractRoute")
    /\ UNCHANGED chainVars

\* Each block that held a deposit is read again; a hash that is not the log's
\* fails the tick.
VerifyDepositBlocks ==
    /\ pc = "Verify"
    /\ IF \A o \in logs : IsCanonical(o.block, o.id)
       THEN pc' = "Apply" /\ UNCHANGED <<head, from, logs>>
       ELSE EndTick
    /\ UNCHANGED <<chainVars, anchors, obs, halt, outside>>

\* The block at the finality frontier, not below the configured start.
StabilityAnchor == Max({FinalizedFrontier, StartBlock})

NewAnchors ==
    {o.block : o \in logs} \cup {To} \cup (IF StabilityAnchor < To THEN {StabilityAnchor} ELSE {})

\* The stability anchor and the cursor's hash are read, and the range is
\* committed in one transaction: robinhood_apply_scan_range.
ApplyScanRange ==
    /\ pc = "Apply"
    /\ \/ /\ \E b \in NewAnchors : CanonicalHash(b) = 0     \* MissingBlock
          /\ EndTick
          /\ UNCHANGED <<anchors, obs, halt>>
       \/ /\ \A b \in NewAnchors : CanonicalHash(b) # 0
          /\ \E o \in logs : Conflicts(o)
          /\ HaltWith("ObservationConflict")
       \/ /\ \A b \in NewAnchors : CanonicalHash(b) # 0
          /\ ~ \E o \in logs : Conflicts(o)
          /\ obs' = WithObservations(logs)
          /\ anchors' =
                Pruned([b \in DOMAIN anchors \cup NewAnchors |->
                          CASE b \in {To, StabilityAnchor} \cap NewAnchors -> CanonicalHash(b)
                            [] b \in NewAnchors \ {To, StabilityAnchor} ->
                                 (CHOOSE o \in logs : o.block = b).id
                            [] OTHER -> anchors[b]], To)
          /\ from' = To + 1
          /\ pc' = IF To + 1 <= head THEN "Logs" ELSE "Promote"
          /\ logs' = {}
          /\ UNCHANGED <<halt, head>>
    /\ UNCHANGED <<chainVars, outside>>

DeepEnough(b) == b <= head - Depth + 1

\* robinhood_promote_final, against the head the tick began with.
PromoteFinal ==
    /\ pc = "Promote"
    /\ obs' = {IF o.finality = "Provisional" /\ DeepEnough(o.block)
               THEN [o EXCEPT !.finality = "Final"] ELSE o : o \in obs}
    /\ EndTick
    /\ UNCHANGED <<chainVars, anchors, halt, outside>>

\* An RPC call that fails past its retries ends the tick where it stands, as
\* does a crash of the process.
TickFails ==
    /\ "fail" \in Events
    /\ pc # "Idle"
    /\ EndTick
    /\ UNCHANGED <<chainVars, anchors, obs, halt, outside>>

-----------------------------------------------------------------------------
(* The operator *)

ClearHalt ==
    /\ "clear" \in Events
    /\ halt # "None"
    /\ halt' = "None"
    /\ UNCHANGED <<chainVars, anchors, obs, outside, tickVars>>

\* recover_deposit: one deposit, found by its transaction, recorded as final
\* without the scanner.
RecoverDeposit(b) ==
    /\ "recover" \in Events
    /\ chain[b].dep # NoDeposit
    /\ Len(chain) - b >= Depth
    /\ \E o \in Logs(b, b) :
          /\ ~Conflicts(o)
          /\ obs' = WithObservations({[o EXCEPT !.finality = "Final"]})
    /\ outside' = TRUE
    /\ UNCHANGED <<chainVars, anchors, halt, tickVars>>

Tick ==
    \/ StartTick \/ ChainIdMismatch \/ CheckCursor
    \/ ReadLogs \/ UnexpectedContractRoute \/ VerifyDepositBlocks
    \/ ApplyScanRange \/ PromoteFinal \/ TickFails

Next ==
    \/ \E d \in Deposits \cup {NoDeposit} : Mine(d)
    \/ \E n \in 1..MaxReorgDepth : \E deps \in [1..n -> Deposits \cup {NoDeposit}] : Reorg(n, deps)
    \/ Tick
    \/ ClearHalt
    \/ \E b \in 1..Len(chain) : RecoverDeposit(b)

Spec == Init /\ [][Next]_vars

-----------------------------------------------------------------------------
(* Properties *)

TypeOK ==
    /\ anchors \in [DOMAIN anchors -> Nat] /\ DOMAIN anchors \subseteq 1..MaxHeight
    /\ obs \subseteq [index : 1..MaxHeight, dep : Deposits, block : 1..MaxHeight, id : Nat,
                      finality : {"Provisional", "Final", "Reorged"}]
    /\ halt \in {"None", "ChainIdMismatch", "PostFinalityReorg", "ReorgBeyondRetainedAnchors",
                 "ObservationConflict", "UnexpectedContractRoute"}
    /\ pc \in {"Idle", "Check", "Logs", "Verify", "Apply", "Promote"}

\* Every deposit the cursor has passed on the canonical chain has a live
\* observation of exactly that block (the promise of
\* robinhood_apply_scan_range: never cursored but not recorded), whatever
\* reorganised between the ticks and in them.  The one exception is a block
\* that came, within one tick, behind the tick's reads: below the chunk after
\* the cursor's hash was checked, or in the chunk after its logs were read and
\* before the hash of its last block was; or whose log was flagged as removed.
NothingSkipped ==
    Cursor \in Matching =>
        \A b \in StartBlock..Cursor :
            chain[b].dep # NoDeposit /\ chain[b].id \notin torn =>
                \E o \in obs : Live(o) /\ o.block = b /\ o.id = chain[b].id

\* What is recorded as final is on the canonical chain, or the indexer has
\* halted, or its next tick is bound to find its cursor orphaned; but for a
\* deposit whose block was replaced, within one tick, behind the tick's reads.
FinalIsCanonical ==
    \A o \in obs : o.finality = "Final" =>
        \/ IsCanonical(o.block, o.id)
        \/ halt # "None"
        \/ Cursor \notin Matching
        \/ o.id \in torn

\* An obligation has at most one live observation.
OneLiveRow ==
    \A o, p \in obs : Live(o) /\ Live(p) /\ o.index = p.index => o = p

IndexedFaithfully == TypeOK /\ NothingSkipped /\ FinalIsCanonical /\ OneLiveRow

\* Reorganisations shallower than the confirmation depth never halt the
\* indexer: the anchors that survive pruning always hold a fork point below
\* them and above every final observation.  (A deposit recovered before the
\* scanner has seen the reorganisation below it can halt it, and so can what
\* a tick recorded of a branch that was replaced behind its reads.)
ShallowReorgsNeverHalt ==
    (\A i \in DOMAIN reorgs : reorgs[i] < Depth) /\ ~outside /\ torn = {} => halt = "None"

\* While a tick promotes, the cursor's block is canonical, and every
\* observation it makes final is on the canonical chain with it (the premise
\* of robinhood_promote_final, which checks no hash).
PromotionIsSound ==
    [][ \A o \in obs : o.finality = "Provisional" /\ [o EXCEPT !.finality = "Final"] \in obs'
            => IsCanonical(o.block, o.id) ]_vars
=============================================================================
