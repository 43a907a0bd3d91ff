---------------------------- MODULE RollingVolume ----------------------------
(***************************************************************************)
(* One direction's RollingVolumeWindow account over time: transfers that   *)
(* the fixed-bucket limit admits, the admin's limit changes and manual     *)
(* window resets, and the passing of on-chain time.  What the limit is     *)
(* FOR is a bound on the volume of any stretch of time, not on a bucket:   *)
(* log keeps every admitted transfer so that the bound can be stated.      *)
(***************************************************************************)
EXTENDS Limits, Sequences, FiniteSets, Sums

CONSTANTS
    Amounts,        \* amounts transfers are attempted with
    LimitValues,    \* rolling_volume_limit values initialize/set_limit use
    Seconds,        \* rolling_window_seconds
    MaxClock,       \* bound: the last on-chain second explored
    MaxTransfers    \* bound: admitted transfers explored

VARIABLES
    window,     \* the account: [start, total]
    limit,      \* BridgeConfig.rolling_volume_limit
    paused,     \* BridgeConfig.paused
    clock,      \* Clock::unix_timestamp
    log,        \* history: the admitted transfers, [at, amount]
    resets      \* history: transfers admitted before the last manual reset

vars == <<window, limit, paused, clock, log, resets>>

Init ==
    /\ limit \in LimitValues
    /\ paused = FALSE
    /\ clock = 0
    /\ window = [start |-> clock, total |-> 0]
    /\ log = <<>>
    /\ resets = 0

\* A release or a deposit that passed every other check.
EnforceAndRecordRollingVolume(amount) ==
    /\ ~paused
    /\ Len(log) < MaxTransfers
    /\ RollingVolumeOK(window, clock, Seconds, limit, amount)
    /\ window' = RecordedVolume(window, clock, Seconds, amount)
    /\ log' = Append(log, [at |-> clock, amount |-> amount])
    /\ UNCHANGED <<limit, paused, clock, resets>>

\* Admin: a fresh bucket from now; only while globally paused.
ResetRollingVolumeWindow ==
    /\ paused
    /\ window' = [start |-> clock, total |-> 0]
    /\ resets' = Len(log)
    /\ UNCHANGED <<limit, paused, clock, log>>

\* Admin: set_limit(RollingVolumeLimit, v), immediate; the bucket is kept.
SetRollingVolumeLimit(v) ==
    /\ v > 0
    /\ limit' = v
    /\ UNCHANGED <<window, paused, clock, log, resets>>

SetPaused(p) ==
    /\ paused # p
    /\ paused' = p
    /\ UNCHANGED <<window, limit, clock, log, resets>>

Tick ==
    /\ clock < MaxClock
    /\ clock' = clock + 1
    /\ UNCHANGED <<window, limit, paused, log, resets>>

Next ==
    \/ \E a \in Amounts \ {0} : EnforceAndRecordRollingVolume(a)
    \/ ResetRollingVolumeWindow
    \/ \E v \in LimitValues : SetRollingVolumeLimit(v)
    \/ \E p \in BOOLEAN : SetPaused(p)
    \/ Tick

Spec == Init /\ [][Next]_vars

-----------------------------------------------------------------------------
VolumeOf(idx) == SumOver([i \in DOMAIN log |-> log[i].amount], idx)

\* "It never under-counts volume within a bucket" (limits.rs): the stored
\* total is exactly the volume admitted since the bucket opened, whatever
\* limit changes, expiries and manual resets came in between.
BucketCountsExactly ==
    window.total = VolumeOf({i \in DOMAIN log : i > resets /\ log[i].at >= window.start})

\* What the fixed bucket does bound (limits.rs and state.rs only say that a
\* burst across a bucket boundary can exceed the limit): between manual
\* resets, no stretch of rolling_window_seconds ever carries more than twice
\* the largest limit configured.
BurstAtMostDouble ==
    \A t \in 0..clock :
        VolumeOf({i \in DOMAIN log : i > resets /\ log[i].at \in t..(t + Seconds - 1)})
            <= 2 * Max(LimitValues)
=============================================================================
