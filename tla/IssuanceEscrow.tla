--------------------------- MODULE IssuanceEscrow ---------------------------
(***************************************************************************)
(* The IssuanceLiquidityEscrow application                                 *)
(* (contracts/issuance-escrow/src/issuance-escrow.algo.ts): the USDC that  *)
(* issuers deposit while their assets are verified, in ONE account, with   *)
(* one box per asset that says whose money it is and whether it was paid.  *)
(* The caller is always the admin: every method asserts it.                *)
(***************************************************************************)
EXTENDS Integers, FiniteSets

CONSTANTS
    Assets,         \* asset ids (UUIDs), the keys of the boxes
    NoLock,         \* the value of a box that does not exist
    MaxLock,        \* bound: largest amount of one lock
    MaxEscrowUsdc,  \* bound: USDC the application account holds
    MaxPayouts      \* bound: payments ever made for one asset

VARIABLES
    escrowPaused,
    escrowOptedIn,   \* has the application account opted into USDC?
    issuanceLocks,   \* asset -> the box "il:<asset>"
    escrowUsdc,      \* USDC balance of the application account
    released,        \* history: releases to a vault, per asset
    returned         \* history: returns to the issuer, per asset

issuanceEscrowVars ==
    <<escrowPaused, escrowOptedIn, issuanceLocks, escrowUsdc, released, returned>>

PENDING == 0
RELEASED_TO_VAULT == 1
RETURNED_TO_ISSUER == 2

(* itob: eight bytes, most significant first (for the numbers below 256    *)
(* that a status can be).                                                  *)
Itob(n) == [i \in 1..8 |-> IF i = 8 THEN n ELSE 0]

(* The box is issuer(32) + itob(amount)(8) + itob(status)(8); the issuer   *)
(* is determined by the asset.                                             *)
Lock == [amount: 1..MaxLock, status: [1..8 -> 0..2]]

ASSUME IssuanceEscrowAssumption ==
    /\ NoLock \notin Lock
    /\ MaxLock \in Nat
    /\ MaxEscrowUsdc \in Nat
    /\ MaxPayouts \in Nat

Recorded(a) == issuanceLocks[a] # NoLock

(* The number that itob has written. *)
StoredStatus(a) == issuanceLocks[a].status[8]

(* btoi(record.slice(40, 41)): the first byte of the eight. *)
ReadStatus(a) == issuanceLocks[a].status[1]

(* The same slip on the writing side: only the byte that is read changes. *)
WriteStatus_AsRead(a, status) ==
    issuanceLocks' = [issuanceLocks EXCEPT ![a].status[1] = status]

WriteStatus(a, status) ==
    issuanceLocks' = [issuanceLocks EXCEPT ![a].status = Itob(status)]

-----------------------------------------------------------------------------
(* createApplication *)
IssuanceEscrowInit ==
    /\ escrowPaused = FALSE
    /\ escrowOptedIn = FALSE
    /\ issuanceLocks = [a \in Assets |-> NoLock]
    /\ escrowUsdc = 0
    /\ released = [a \in Assets |-> 0]
    /\ returned = [a \in Assets |-> 0]

EscrowOptIntoUsdc ==
    /\ escrowOptedIn' = TRUE
    /\ UNCHANGED <<escrowPaused, issuanceLocks, escrowUsdc, released, returned>>

(* The issuer's own transfer, no call of the contract. *)
IssuerDeposit(amount) ==
    /\ escrowOptedIn
    /\ escrowUsdc + amount <= MaxEscrowUsdc
    /\ escrowUsdc' = escrowUsdc + amount
    /\ UNCHANGED <<escrowPaused, escrowOptedIn, issuanceLocks, released, returned>>

(* What recordIssuanceLock asserts; it looks at no deposit. *)
MayRecordLock(a) == ~escrowPaused /\ ~Recorded(a)

RecordIssuanceLock(a, amount) ==
    /\ MayRecordLock(a)
    /\ issuanceLocks' = [issuanceLocks EXCEPT ![a] =
                            [amount |-> amount, status |-> Itob(PENDING)]]
    /\ UNCHANGED <<escrowPaused, escrowOptedIn, escrowUsdc, released, returned>>

Payable(a) ==
    /\ Recorded(a)
    /\ ReadStatus(a) = PENDING
    /\ issuanceLocks[a].amount <= escrowUsdc

MayRelease(a) == ~escrowPaused /\ Payable(a)

(* The caller makes sure that the vault has opted into USDC. *)
ReleaseToVault(a) ==
    /\ MayRelease(a)
    /\ released[a] < MaxPayouts
    /\ escrowUsdc' = escrowUsdc - issuanceLocks[a].amount
    /\ WriteStatus(a, RELEASED_TO_VAULT)
    /\ released' = [released EXCEPT ![a] = @ + 1]
    /\ UNCHANGED <<escrowPaused, escrowOptedIn, returned>>

(* A pause does not stop it. *)
MayReturn(a) == Payable(a)

ReturnToIssuer(a) ==
    /\ MayReturn(a)
    /\ returned[a] < MaxPayouts
    /\ escrowUsdc' = escrowUsdc - issuanceLocks[a].amount
    /\ WriteStatus(a, RETURNED_TO_ISSUER)
    /\ returned' = [returned EXCEPT ![a] = @ + 1]
    /\ UNCHANGED <<escrowPaused, escrowOptedIn, released>>

PauseEscrow(paused) ==
    /\ escrowPaused' = paused
    /\ UNCHANGED <<escrowOptedIn, issuanceLocks, escrowUsdc, released, returned>>

IssuanceEscrowNext ==
    \/ EscrowOptIntoUsdc
    \/ \E amount \in 1..MaxLock : IssuerDeposit(amount)
    \/ \E a \in Assets, amount \in 1..MaxLock : RecordIssuanceLock(a, amount)
    \/ \E a \in Assets : ReleaseToVault(a)
    \/ \E a \in Assets : ReturnToIssuer(a)
    \/ \E paused \in BOOLEAN : PauseEscrow(paused)

IssuanceEscrowSpec ==
    IssuanceEscrowInit /\ [][IssuanceEscrowNext]_issuanceEscrowVars

-----------------------------------------------------------------------------
(* Type correctness: a box holds what recordIssuanceLock writes. *)
IssuanceEscrowTypeOK ==
    /\ escrowPaused \in BOOLEAN
    /\ escrowOptedIn \in BOOLEAN
    /\ issuanceLocks \in [Assets -> Lock \cup {NoLock}]
    /\ escrowUsdc \in Nat
    /\ released \in [Assets -> Nat]
    /\ returned \in [Assets -> Nat]

Payouts(a) == released[a] + returned[a]

(* A lock is pending exactly until the first payment: the box never goes   *)
(* back to PENDING, is never deleted and is never recorded again, so the   *)
(* last byte of a box always tells whether its money has gone (the code    *)
(* keeps this right although releaseToVault and returnToIssuer read a      *)
(* different byte).                                                        *)
StatusTellsPayment ==
    \A a \in Assets :
        Payouts(a) > 0 <=> Recorded(a) /\ StoredStatus(a) # PENDING

(* The assertion 'Escrow not in PENDING state' of releaseToVault and       *)
(* returnToIssuer: a lock pays once, to the vault or back to the issuer.   *)
OnePayoutPerLock == \A a \in Assets : Payouts(a) <= 1
=============================================================================
