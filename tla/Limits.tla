------------------------------- MODULE Limits -------------------------------
(***************************************************************************)
(* The limit checks that release_from_reserve, deposit_to_reserve and the  *)
(* two withdrawal instructions of the Solana program share                 *)
(* (programs/glc-reserve-bridge/src/limits.rs).                            *)
(*                                                                         *)
(* Amounts are u64 in the program and every sum is a checked_add whose     *)
(* overflow is an error.  A sum that overflows also exceeds the u64 value  *)
(* it is compared with, so over the naturals the comparison alone rejects  *)
(* exactly the same calls.                                                 *)
(***************************************************************************)
EXTENDS Integers

\* enforce_transfer_amount: positive, at least the dust floor, at most the
\* per-transfer ceiling.
TransferAmountOK(cfg, amount) ==
    /\ amount > 0
    /\ amount >= cfg.minTransfer
    /\ amount <= cfg.perTransfer

CurrentBucket_RollsEverySecond(w, now, seconds) ==
    IF now # w.start THEN [start |-> now, total |-> 0] ELSE w

\* The bucket enforce_and_record_rolling_volume charges: a new one when the
\* current one is at least rolling_window_seconds old, else the current one.
CurrentBucket(w, now, seconds) ==
    IF now - w.start >= seconds THEN [start |-> now, total |-> 0] ELSE w

\* The check of enforce_and_record_rolling_volume ...
RollingVolumeOK(w, now, seconds, limit, amount) ==
    CurrentBucket(w, now, seconds).total + amount <= limit

\* ... and what it stores, only when the check has passed.
RecordedVolume(w, now, seconds, amount) ==
    LET b == CurrentBucket(w, now, seconds)
    IN  [start |-> b.start, total |-> b.total + amount]

ProtectedMinimumOK_BalanceOnly(balance, protectedMinimum, amount) == balance >= amount
ProtectedMinimumOK_Skipped(balance, protectedMinimum, amount) == TRUE

\* enforce_protected_minimum: the outflow must leave the floor in the reserve.
ProtectedMinimumOK(balance, protectedMinimum, amount) ==
    balance >= amount + protectedMinimum
=============================================================================
