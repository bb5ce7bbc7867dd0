------------------------------- MODULE Escrow -------------------------------
(***************************************************************************)
(* The EscrowContract application (contracts/escrow/src/escrow.algo.ts):   *)
(* USDC held for pending buy orders, one box per order.  An application    *)
(* call is one atomic step: an assertion that fails, or an inner transfer  *)
(* the contract cannot pay, leaves no trace, so it is a guard here.        *)
(***************************************************************************)
EXTENDS Naturals

CONSTANTS
    Orders,        \* order ids, the keys of the boxes
    Accounts,      \* Algorand addresses
    Admin,         \* the admin address given to createApplication
    NoHold,        \* the value of a box that does not exist
    MaxAmount,     \* bound: largest amount of one lock
    MaxRecorded,   \* bound: total amount ever locked under one order id
    MaxUsdc        \* bound: USDC the application account holds

VARIABLES
    settlementContractAddress,
    isPaused,
    optedIn,       \* has the application account opted into USDC?
    escrowHolds,   \* order -> the box "e:<order>": buyer, amount, locked flag
    usdc,          \* USDC balance of the application account
    recorded,      \* history: total amount recorded as locked, per order
    paidOut,       \* history: total paid to sellers and treasury, per order
    refunded       \* history: total returned to buyers, per order

escrowConfig == <<settlementContractAddress, isPaused, optedIn>>
escrowLedger == <<escrowHolds, usdc, recorded, paidOut, refunded>>
escrowVars   == <<escrowConfig, escrowLedger>>

Hold == [buyer: Accounts, amount: 1..MaxAmount, locked: BOOLEAN]

(* NoHold stands for "no box": it is no record the contract writes. *)
ASSUME EscrowAssumption ==
    /\ Admin \in Accounts
    /\ NoHold \notin Hold
    /\ MaxAmount \in Nat
    /\ MaxRecorded \in Nat
    /\ MaxUsdc \in Nat

-----------------------------------------------------------------------------
Exists(o)   == escrowHolds[o] # NoHold
IsLocked(o) == Exists(o) /\ escrowHolds[o].locked
Released(o) == Exists(o) /\ ~escrowHolds[o].locked

(* The amount an order still has under lock. *)
Live(o) == IF IsLocked(o) THEN escrowHolds[o].amount ELSE 0

IsOperator(caller) == caller \in {settlementContractAddress, Admin}

(* createApplication *)
EscrowInit ==
    /\ settlementContractAddress \in Accounts
    /\ isPaused = FALSE
    /\ optedIn = FALSE
    /\ escrowHolds = [o \in Orders |-> NoHold]
    /\ usdc = 0
    /\ recorded = [o \in Orders |-> 0]
    /\ paidOut = [o \in Orders |-> 0]
    /\ refunded = [o \in Orders |-> 0]

-----------------------------------------------------------------------------
(* The transfer a buyer's wallet makes before the lock is recorded         *)
(* (buildEscrowLockTransaction).  Algorand rejects it before the opt-in.   *)
Deposit(amount) ==
    /\ optedIn
    /\ usdc + amount <= MaxUsdc
    /\ usdc' = usdc + amount
    /\ UNCHANGED <<escrowConfig, escrowHolds, recorded, paidOut, refunded>>

(* What recordLock asserts.  It looks at no payment and at no caller. *)
MayRecord(o) == ~isPaused /\ ~Exists(o)

RecordLock(o, buyer, amount) ==
    /\ MayRecord(o)
    /\ recorded[o] + amount <= MaxRecorded
    /\ escrowHolds' = [escrowHolds EXCEPT ![o] =
                          [buyer |-> buyer, amount |-> amount, locked |-> TRUE]]
    /\ recorded' = [recorded EXCEPT ![o] = @ + amount]
    /\ UNCHANGED <<escrowConfig, usdc, paidOut, refunded>>

(* A bug releaseToSeller could have: the locked flag is not looked at. *)
MayRelease_AnyFlag(o, total) == Exists(o) /\ total <= escrowHolds[o].amount

(* What releaseToSeller asserts of the order's box. *)
MayRelease(o, total) == IsLocked(o) /\ total <= escrowHolds[o].amount

(* Pays the seller, then the treasury if there is a fee, and clears the     *)
(* flag.  What the release leaves of the locked amount stays in the         *)
(* application account: the box keeps its amount but can never pay again.   *)
ReleaseToSeller(caller, o, amount, feeAmount) ==
    /\ IsOperator(caller)
    /\ ~isPaused
    /\ MayRelease(o, amount + feeAmount)
    /\ amount + feeAmount <= usdc
    /\ escrowHolds' = [escrowHolds EXCEPT ![o].locked = FALSE]
    /\ usdc' = usdc - (amount + feeAmount)
    /\ paidOut' = [paidOut EXCEPT ![o] = @ + (amount + feeAmount)]
    /\ UNCHANGED <<escrowConfig, recorded, refunded>>

(* What returnToBuyer asserts: a pause does not stop it. *)
MayReturn(o) == IsLocked(o)

WithoutBox(o) == [escrowHolds EXCEPT ![o] = NoHold]

(* Pays the whole locked amount back and deletes the box. *)
ReturnToBuyer(caller, o) ==
    /\ IsOperator(caller)
    /\ MayReturn(o)
    /\ escrowHolds[o].amount <= usdc
    /\ escrowHolds' = WithoutBox(o)
    /\ usdc' = usdc - escrowHolds[o].amount
    /\ refunded' = [refunded EXCEPT ![o] = @ + escrowHolds[o].amount]
    /\ UNCHANGED <<escrowConfig, recorded, paidOut>>

OptIntoUsdc(caller) ==
    /\ caller = Admin
    /\ optedIn' = TRUE
    /\ UNCHANGED <<settlementContractAddress, isPaused, escrowLedger>>

UpdateSettlementContract(caller, newAddress) ==
    /\ caller = Admin
    /\ settlementContractAddress' = newAddress
    /\ UNCHANGED <<isPaused, optedIn, escrowLedger>>

Pause(caller) ==
    /\ caller = Admin
    /\ isPaused' = TRUE
    /\ UNCHANGED <<settlementContractAddress, optedIn, escrowLedger>>

Unpause(caller) ==
    /\ caller = Admin
    /\ isPaused' = FALSE
    /\ UNCHANGED <<settlementContractAddress, optedIn, escrowLedger>>

EscrowNext ==
    \/ \E amount \in 1..MaxAmount : Deposit(amount)
    \/ \E o \in Orders, buyer \in Accounts, amount \in 1..MaxAmount :
           RecordLock(o, buyer, amount)
    \/ \E caller \in Accounts, o \in Orders, amount, fee \in 0..MaxAmount :
           ReleaseToSeller(caller, o, amount, fee)
    \/ \E caller \in Accounts, o \in Orders : ReturnToBuyer(caller, o)
    \/ \E caller \in Accounts : OptIntoUsdc(caller)
    \/ \E caller, new \in Accounts : UpdateSettlementContract(caller, new)
    \/ \E caller \in Accounts : Pause(caller)
    \/ \E caller \in Accounts : Unpause(caller)

EscrowSpec == EscrowInit /\ [][EscrowNext]_escrowVars

-----------------------------------------------------------------------------
(* Type correctness: boxes hold what recordLock writes. *)
EscrowTypeOK ==
    /\ settlementContractAddress \in Accounts
    /\ isPaused \in BOOLEAN
    /\ optedIn \in BOOLEAN
    /\ escrowHolds \in [Orders -> Hold \cup {NoHold}]
    /\ usdc \in Nat
    /\ recorded \in [Orders -> Nat]
    /\ paidOut \in [Orders -> Nat]
    /\ refunded \in [Orders -> Nat]

(* Over any history of locks, releases, refunds and re-locks under one     *)
(* order id, what was paid out plus what could still be paid never exceeds *)
(* what was locked: no lock is spent twice (the two isLocked assertions of *)
(* releaseToSeller and returnToBuyer).                                     *)
PayoutsWithinLocks ==
    \A o \in Orders : paidOut[o] + refunded[o] + Live(o) <= recorded[o]

(* A release is the last thing that ever happens to an order id: its box   *)
(* is never rewritten, re-locked or deleted, and the order never pays      *)
(* again (releaseToSeller keeps the box, recordLock refuses an existing    *)
(* one, returnToBuyer refuses a cleared flag).                             *)
ReleasedIsFinal ==
    [][\A o \in Orders : Released(o) =>
           /\ escrowHolds'[o] = escrowHolds[o]
           /\ paidOut'[o] = paidOut[o]
           /\ refunded'[o] = refunded[o]]_escrowVars

=============================================================================
