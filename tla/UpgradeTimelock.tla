--------------------------- MODULE UpgradeTimelock ---------------------------
(***************************************************************************)
(* The timelocked program upgrade of the Solana program                    *)
(* (instructions/upgrade_timelock.rs), with the loader's upgrade authority *)
(* it takes over.  Propose and cancel are the admin's, execution is open   *)
(* to everybody.                                                           *)
(***************************************************************************)
EXTENDS Integers

CONSTANTS
    Buffers,            \* buffer accounts holding candidate bytecode
    UpgradeTimelock0,   \* upgrade_timelock_seconds, fixed by initialize
    MaxClock            \* bound: the last on-chain second explored

VARIABLES
    authority,  \* ProgramData.upgrade_authority_address: "deployer" or "pda"
    pending,    \* PendingProgramUpgrade
    code,       \* the buffer the running program came from
    clock,
    noticed     \* history: last proposal of each buffer still standing, or -1

vars == <<authority, pending, code, clock, noticed>>

NoUpgrade == [open |-> FALSE, buffer |-> "none", proposedAt |-> 0, eta |-> 0]

Init ==
    /\ authority = "deployer"
    /\ pending = NoUpgrade
    /\ code = "genesis"
    /\ clock = 0
    /\ noticed = [b \in Buffers |-> -1]

\* The current authority hands over to the program's own signing PDA.
AcceptUpgradeAuthority ==
    /\ authority = "deployer"
    /\ authority' = "pda"
    /\ UNCHANGED <<pending, code, clock, noticed>>

\* Singleton: init fails while an upgrade is pending.
ProposeUpgrade(b) ==
    /\ ~pending.open
    /\ UpgradeTimelock0 > 0
    /\ pending' = [open |-> TRUE, buffer |-> b, proposedAt |-> clock,
                   eta |-> clock + UpgradeTimelock0]
    /\ noticed' = [noticed EXCEPT ![b] = clock]
    /\ UNCHANGED <<authority, code, clock>>

CancelUpgrade ==
    /\ pending.open
    /\ pending' = NoUpgrade
    /\ noticed' = [noticed EXCEPT ![pending.buffer] = -1]
    /\ UNCHANGED <<authority, code, clock>>

ExecuteUpgrade_AnyBuffer(b) ==
    /\ pending.open
    /\ clock >= pending.eta
    /\ authority = "pda"
    /\ code' = b
    /\ pending' = NoUpgrade
    /\ UNCHANGED <<authority, clock, noticed>>

ExecuteUpgrade(b) ==
    /\ pending.open
    /\ clock >= pending.eta
    /\ b = pending.buffer
    /\ authority = "pda"
    /\ code' = b
    /\ pending' = NoUpgrade
    /\ noticed' = [noticed EXCEPT ![b] = -1]
    /\ UNCHANGED <<authority, clock>>

\* External: while the deployer holds the authority it can upgrade directly,
\* outside the program.
DeployerUpgrade(b) ==
    /\ authority = "deployer"
    /\ code' = b
    /\ UNCHANGED <<authority, pending, clock, noticed>>

Tick ==
    /\ clock < MaxClock
    /\ clock' = clock + 1
    /\ UNCHANGED <<authority, pending, code, noticed>>

Next ==
    \/ AcceptUpgradeAuthority
    \/ \E b \in Buffers : ProposeUpgrade(b) \/ ExecuteUpgrade(b) \/ DeployerUpgrade(b)
    \/ CancelUpgrade
    \/ Tick

Spec == Init /\ [][Next]_vars

-----------------------------------------------------------------------------
\* Once the PDA holds the authority the running code changes only to a buffer
\* whose latest proposal has stood uncancelled for the whole timelock, and the
\* authority never goes back.
NoticedStep ==
    authority = "pda" =>
        /\ authority' = "pda"
        /\ code' # code =>
            /\ noticed[code'] >= 0
            /\ clock - noticed[code'] >= UpgradeTimelock0
=============================================================================
