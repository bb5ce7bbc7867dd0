-------------------------- MODULE SettlementProofs --------------------------
(* What holds of the escrow contract for any orders, accounts and bounds,  *)
(* and of the settlement system over it for any trades, runs, groups,      *)
(* faults and bounds.                                                      *)
EXTENDS Settlement, SumTheorems

-----------------------------------------------------------------------------
(* The escrow contract by itself. *)

(* No step of the contract leaves the types. *)
LEMMA EscrowTypeStep ==
    ASSUME EscrowTypeOK, [EscrowNext]_escrowVars
    PROVE  EscrowTypeOK'
<1> USE EscrowAssumption DEF EscrowTypeOK, escrowConfig, escrowLedger
<1>1. ASSUME NEW amount \in 1..MaxAmount, Deposit(amount)
      PROVE  EscrowTypeOK'
  BY <1>1 DEF Deposit
<1>2. ASSUME NEW o \in Orders, NEW buyer \in Accounts,
             NEW amount \in 1..MaxAmount, RecordLock(o, buyer, amount)
      PROVE  EscrowTypeOK'
  BY <1>2 DEF RecordLock, Hold
<1>3. ASSUME NEW caller \in Accounts, NEW o \in Orders,
             NEW amount \in 0..MaxAmount, NEW fee \in 0..MaxAmount,
             ReleaseToSeller(caller, o, amount, fee)
      PROVE  EscrowTypeOK'
  <2>1. escrowHolds[o] \in Hold
    BY <1>3 DEF ReleaseToSeller, MayRelease, IsLocked, Exists
  <2>2. escrowHolds' \in [Orders -> Hold \cup {NoHold}]
    BY <1>3, <2>1 DEF ReleaseToSeller, Hold
  <2>3. QED
    BY <1>3, <2>2 DEF ReleaseToSeller
<1>4. ASSUME NEW caller \in Accounts, NEW o \in Orders,
             ReturnToBuyer(caller, o)
      PROVE  EscrowTypeOK'
  <2>1. escrowHolds[o] \in Hold
    BY <1>4 DEF ReturnToBuyer, MayReturn, IsLocked, Exists
  <2>2. QED
    BY <1>4, <2>1 DEF ReturnToBuyer, WithoutBox, Hold
<1>5. ASSUME NEW caller \in Accounts,
             \/ OptIntoUsdc(caller) \/ Pause(caller) \/ Unpause(caller)
             \/ \E new \in Accounts : UpdateSettlementContract(caller, new)
      PROVE  EscrowTypeOK'
  BY <1>5 DEF OptIntoUsdc, Pause, Unpause, UpdateSettlementContract
<1>6. CASE UNCHANGED escrowVars
  BY <1>6 DEF escrowVars
<1>7. QED
  BY <1>1, <1>2, <1>3, <1>4, <1>5, <1>6 DEF EscrowNext

(* The contract starts well typed. *)
LEMMA EscrowTypeInit == EscrowInit => EscrowTypeOK
<1> SUFFICES ASSUME EscrowInit PROVE EscrowTypeOK
  OBVIOUS
<1>1. isPaused \in BOOLEAN /\ optedIn \in BOOLEAN
  BY Zenon DEF EscrowInit
<1>2. escrowHolds \in [Orders -> Hold \cup {NoHold}]
  BY DEF EscrowInit
<1>3. QED
  BY <1>1, <1>2 DEF EscrowInit, EscrowTypeOK

(* Every reachable state is well typed: boxes hold what recordLock writes. *)
THEOREM EscrowTypeCorrect == EscrowSpec => []EscrowTypeOK
BY EscrowTypeInit, EscrowTypeStep, PTL DEF EscrowSpec

(* The step lemma behind the payout bound, for one order.                  *)
LEMMA PayoutStep ==
    ASSUME EscrowTypeOK, PayoutsWithinLocks, [EscrowNext]_escrowVars
    PROVE  PayoutsWithinLocks'
<1> USE EscrowAssumption DEF EscrowTypeOK, PayoutsWithinLocks,
        escrowConfig, escrowLedger
<1> DEFINE Bound(q) == paidOut[q] + refunded[q] + Live(q) <= recorded[q]
<1>1. ASSUME NEW amount \in 1..MaxAmount, Deposit(amount)
      PROVE  PayoutsWithinLocks'
  BY <1>1 DEF Deposit, Live, IsLocked, Exists
<1>2. ASSUME NEW o \in Orders, NEW buyer \in Accounts,
             NEW amount \in 1..MaxAmount, RecordLock(o, buyer, amount)
      PROVE  PayoutsWithinLocks'
  <2> SUFFICES ASSUME NEW q \in Orders PROVE Bound(q)'
    OBVIOUS
  <2>1. CASE q # o
    BY <1>2, <2>1 DEF RecordLock, Live, IsLocked, Exists
  <2>2. CASE q = o
    <3>1. Live(q) = 0 /\ Live(q)' = amount
      <4> DEFINE new == [buyer |-> buyer, amount |-> amount, locked |-> TRUE]
      <4>1. escrowHolds'[q] = new /\ new \in Hold
        BY <1>2, <2>2 DEF RecordLock, Hold
      <4>2. QED
        BY <1>2, <2>2, <4>1
           DEF RecordLock, MayRecord, Live, IsLocked, Exists
    <3>2. QED
      BY <1>2, <2>2, <3>1 DEF RecordLock
  <2>3. QED
    BY <2>1, <2>2
<1>3. ASSUME NEW caller \in Accounts, NEW o \in Orders,
             NEW amount \in 0..MaxAmount, NEW fee \in 0..MaxAmount,
             ReleaseToSeller(caller, o, amount, fee)
      PROVE  PayoutsWithinLocks'
  <2> SUFFICES ASSUME NEW q \in Orders PROVE Bound(q)'
    OBVIOUS
  <2>0. escrowHolds[o] \in Hold
    BY <1>3 DEF ReleaseToSeller, MayRelease, IsLocked, Exists
  <2>1. CASE q # o
    BY <1>3, <2>1 DEF ReleaseToSeller, Live, IsLocked, Exists
  <2>2. CASE q = o
    <3>1. Live(q)' = 0 /\ amount + fee <= Live(q) /\ Live(q) \in Nat
      BY <1>3, <2>0, <2>2
         DEF ReleaseToSeller, MayRelease, Live, IsLocked, Exists, Hold
    <3>2. QED
      BY <1>3, <2>2, <3>1 DEF ReleaseToSeller
  <2>3. QED
    BY <2>1, <2>2
<1>4. ASSUME NEW caller \in Accounts, NEW o \in Orders,
             ReturnToBuyer(caller, o)
      PROVE  PayoutsWithinLocks'
  <2> SUFFICES ASSUME NEW q \in Orders PROVE Bound(q)'
    OBVIOUS
  <2>0. escrowHolds[o] \in Hold
    BY <1>4 DEF ReturnToBuyer, MayReturn, IsLocked, Exists
  <2>1. CASE q # o
    BY <1>4, <2>1 DEF ReturnToBuyer, WithoutBox, Live, IsLocked, Exists
  <2>2. CASE q = o
    <3>1. Live(q)' = 0 /\ Live(q) = escrowHolds[o].amount /\ Live(q) \in Nat
      BY <1>4, <2>0, <2>2
         DEF ReturnToBuyer, WithoutBox, MayReturn, Live, IsLocked, Exists, Hold
    <3>2. QED
      BY <1>4, <2>2, <3>1 DEF ReturnToBuyer
  <2>3. QED
    BY <2>1, <2>2
<1>5. ASSUME NEW caller \in Accounts,
             \/ OptIntoUsdc(caller) \/ Pause(caller) \/ Unpause(caller)
             \/ \E new \in Accounts : UpdateSettlementContract(caller, new)
      PROVE  PayoutsWithinLocks'
  BY <1>5 DEF OptIntoUsdc, Pause, Unpause, UpdateSettlementContract,
              Live, IsLocked, Exists
<1>6. CASE UNCHANGED escrowVars
  BY <1>6 DEF escrowVars, Live, IsLocked, Exists
<1>7. QED
  BY <1>1, <1>2, <1>3, <1>4, <1>5, <1>6 DEF EscrowNext

(* No lock is ever spent twice: per order, what was paid plus what can     *)
(* still be paid stays within what was locked.                             *)
THEOREM PayoutSafety == EscrowSpec => []PayoutsWithinLocks
<1>1. EscrowInit => PayoutsWithinLocks
  <2> SUFFICES ASSUME EscrowInit, NEW o \in Orders
               PROVE  paidOut[o] + refunded[o] + Live(o) <= recorded[o]
    BY DEF PayoutsWithinLocks
  <2>1. Live(o) = 0
    BY Zenon DEF EscrowInit, Live, IsLocked, Exists
  <2>2. QED
    BY <2>1 DEF EscrowInit
<1>2. QED
  BY <1>1, PayoutStep, EscrowTypeCorrect, PTL DEF EscrowSpec

(* A released order is final: no step rewrites its box or pays it again.   *)
THEOREM ReleaseIsFinal == EscrowSpec => ReleasedIsFinal
<1> DEFINE Final == \A o \in Orders : Released(o) =>
                       /\ escrowHolds'[o] = escrowHolds[o]
                       /\ paidOut'[o] = paidOut[o]
                       /\ refunded'[o] = refunded[o]
<1>1. EscrowTypeOK /\ [EscrowNext]_escrowVars => [Final]_escrowVars
  <2> SUFFICES ASSUME EscrowTypeOK, EscrowNext, NEW q \in Orders, Released(q)
               PROVE  /\ escrowHolds'[q] = escrowHolds[q]
                      /\ paidOut'[q] = paidOut[q]
                      /\ refunded'[q] = refunded[q]
    OBVIOUS
  <2> USE DEF EscrowTypeOK, escrowConfig, escrowLedger,
              Released, IsLocked, Exists
  <2>1. ASSUME NEW o \in Orders, NEW buyer \in Accounts,
               NEW amount \in 1..MaxAmount, RecordLock(o, buyer, amount)
        PROVE  q # o
    BY <2>1 DEF RecordLock, MayRecord
  <2>2. ASSUME NEW caller \in Accounts, NEW o \in Orders,
               NEW amount \in 0..MaxAmount, NEW fee \in 0..MaxAmount,
               ReleaseToSeller(caller, o, amount, fee)
        PROVE  q # o
    BY <2>2 DEF ReleaseToSeller, MayRelease
  <2>3. ASSUME NEW caller \in Accounts, NEW o \in Orders,
               ReturnToBuyer(caller, o)
        PROVE  q # o
    BY <2>3 DEF ReturnToBuyer, MayReturn
  <2>4. QED
    BY <2>1, <2>2, <2>3
       DEF EscrowNext, Deposit, RecordLock, ReleaseToSeller, ReturnToBuyer,
           WithoutBox,
           OptIntoUsdc, UpdateSettlementContract, Pause, Unpause
<1>2. QED
  BY <1>1, EscrowTypeCorrect, PTL DEF EscrowSpec, ReleasedIsFinal

-----------------------------------------------------------------------------
(* The settlement system. *)

(* The fee and what is left of the price for the seller are amounts.       *)
LEMMA PaidAmounts ==
    ASSUME NEW t \in Trades, Payable(t)
    PROVE  /\ PlatformFee(t) \in Nat
           /\ UsdcAmount[t] - PlatformFee(t) \in Nat
           /\ UsdcAmount[t] \in Nat
<1>1. UsdcAmount[t] \in Nat /\ MinFee \in Nat /\ FeeDivisor \in Nat \ {0}
  BY SettlementAssumption
<1>2. UsdcAmount[t] \div FeeDivisor \in Nat
  BY <1>1
<1>3. PlatformFee(t) \in Nat
  BY <1>1, <1>2 DEF PlatformFee
<1>4. QED
  BY <1>1, <1>3 DEF Payable

(* Whatever the composed system does, the escrow contract does one of its  *)
(* own steps or nothing.                                                   *)
LEMMA EscrowStep ==
    ASSUME TypeOK, [Next]_vars
    PROVE  [EscrowNext]_escrowVars
<1> USE EscrowAssumption, SettlementAssumption
<1>1. ASSUME NEW r \in Runs, NEW t \in Trades, Deliver(r, t)
      PROVE  UNCHANGED escrowVars
  BY <1>1 DEF Deliver, chainVars
<1>2. ASSUME NEW r \in Runs, RunStep(r) \/ WriteFails(r) \/ RunDies(r)
      PROVE  UNCHANGED escrowVars
  BY <1>2 DEF RunStep, BeginAttempt, GiveUp, CheckPasses, CheckFails,
       Broadcast, BroadcastReplyLost, BroadcastAsserts, BroadcastRejected,
       RecordTx, WaitSucceeds, WaitTimesOut, WaitAsserts, MarkSettled, Finish,
       ReadTxId, LookupSettles, LookupFails, TimerFires, WriteFails, RunDies,
       rest, chainVars
<1>3. ASSUME Crash PROVE UNCHANGED escrowVars
  BY <1>3 DEF Crash, rest, chainVars
<1>4. ASSUME NEW x \in Txs, Confirm(x) PROVE [EscrowNext]_escrowVars
  <2> DEFINE t == txTrade[x]
             amount == UsdcAmount[t] - PlatformFee(t)
             fee == PlatformFee(t)
  <2>1. t \in Trades /\ Payable(t) /\ PayLeg(t)
    BY <1>4 DEF Confirm, TypeOK, ServiceTypeOK
  <2>2. CASE ~Backed(t)
    BY <2>1, <2>2 DEF PayLeg
  <2>3. CASE Backed(t)
    <3>1. ReleaseToSeller(Admin, OrderOf[t], amount, fee)
      BY <2>1, <2>3 DEF PayLeg
    <3>2. OrderOf[t] \in Orders
      BY <2>3 DEF Backed
    <3>3. amount \in Nat /\ fee \in Nat
      BY <2>1, PaidAmounts
    <3>4. escrowHolds[OrderOf[t]] \in Hold
      BY <3>1, <3>2 DEF ReleaseToSeller, MayRelease, IsLocked, Exists,
                        TypeOK, EscrowTypeOK
    <3>5. amount + fee <= escrowHolds[OrderOf[t]].amount
      BY <3>1 DEF ReleaseToSeller, MayRelease
    <3>6. amount \in 0..MaxAmount /\ fee \in 0..MaxAmount
      <4> HIDE DEF amount, fee
      <4> QED
        BY <3>3, <3>4, <3>5 DEF Hold
    <3>7. QED
      BY <3>1, <3>2, <3>6 DEF EscrowNext
  <2>4. QED
    BY <2>2, <2>3
<1>5. ASSUME NEW x \in Txs, Reject(x) \/ Drop(x) PROVE UNCHANGED escrowVars
  BY <1>5 DEF Reject, Drop
<1>6. ASSUME NEW t \in Trades, BuyerOptsIn(t) PROVE UNCHANGED escrowVars
  BY <1>6 DEF BuyerOptsIn, chainVars
<1>7. ASSUME EscrowUsed PROVE EscrowNext
  BY <1>7 DEF EscrowUsed, EscrowCall, EscrowNext
<1>8. CASE UNCHANGED vars
  BY <1>8 DEF vars, chainVars
<1>9. QED
  BY <1>1, <1>2, <1>3, <1>4, <1>5, <1>6, <1>7, <1>8 DEF Next, TxStep

-----------------------------------------------------------------------------
(* Type correctness of the service, the network and the users. *)

LEMMA ServiceTypeInit == Init => ServiceTypeOK
<1> SUFFICES ASSUME Init PROVE ServiceTypeOK
  OBVIOUS
<1> USE SettlementAssumption DEF Init
<1>1. runs \in [Runs -> Run] /\ \A r \in Runs : runs[r].pc = "idle"
  BY DEF IdleRun, Run, PC
<1>2. record \in [Trades -> Row]
  BY DEF NoRecord, Row, Status, Reason
<1>3. txState \in [Txs -> TxStatus] /\ \A x \in Txs : txState[x] = "unused"
  BY DEF TxStatus
<1>4. QED
  BY <1>1, <1>2, <1>3 DEF ServiceTypeOK

(* A run that is not idle has a trade to work for. *)
LEMMA BusyRun ==
    ASSUME ServiceTypeOK, NEW r \in Runs, runs[r].pc # "idle"
    PROVE  runs[r] \in Run /\ runs[r].trade \in Trades
BY DEF ServiceTypeOK

(* The steps of a run that leave the chain alone. *)
LEMMA RunTypeStep ==
    ASSUME ServiceTypeOK, NEW r \in Runs,
           RunStep(r) \/ WriteFails(r) \/ RunDies(r)
    PROVE  ServiceTypeOK'
<1> USE DEF rest, chainVars
<1>1. runs[r].pc # "idle"
  BY DEF RunStep, BeginAttempt, GiveUp, CheckPasses, CheckFails,
     Broadcast, BroadcastReplyLost, BroadcastAsserts, BroadcastRejected,
     RecordTx, WaitSucceeds, WaitTimesOut, WaitAsserts, MarkSettled, Finish,
     ReadTxId, LookupSettles, LookupFails, TimerFires, WriteFails, RunDies
<1>2. runs[r] \in Run /\ runs[r].trade \in Trades
  BY <1>1, BusyRun
<1> DEFINE RunsOK == /\ runs \in [Runs -> Run]
                      /\ \A q \in Runs : runs[q].pc # "idle" =>
                                                runs[q].trade \in Trades
<1>3. RunsOK'
  <2>1. \/ runs' = [runs EXCEPT ![r] = IdleRun]
        \/ \E pc \in PC : runs' = [runs EXCEPT ![r].pc = pc]
        \/ \E pc \in PC, x \in Txs \cup {NoTx} :
               runs' = [runs EXCEPT ![r].pc = pc, ![r].tx = x]
        \/ runs' = [runs EXCEPT ![r].pc = "attempt",
                                ![r].attempt = runs[r].attempt + 1,
                                ![r].tx = NoTx]
    BY <1>2 DEF RunStep, BeginAttempt, GiveUp, CheckPasses, CheckFails,
       Broadcast, BroadcastReplyLost, BroadcastAsserts, BroadcastRejected,
       RecordTx, WaitSucceeds, WaitTimesOut, WaitAsserts, MarkSettled, Finish,
       ReadTxId, LookupSettles, LookupFails, TimerFires, WriteFails, RunDies,
       Goto, GotoWith, Done, PC, ServiceTypeOK, Row
  <2>2. IdleRun \in Run /\ "attempt" \in PC
    BY DEF Run, IdleRun, PC
  <2>3. CASE runs' = [runs EXCEPT ![r] = IdleRun]
    BY <2>2, <2>3 DEF ServiceTypeOK, IdleRun
  <2>4. ASSUME NEW pc \in PC, runs' = [runs EXCEPT ![r].pc = pc]
        PROVE  RunsOK'
    BY <1>2, <2>4 DEF ServiceTypeOK, Run
  <2>5. ASSUME NEW pc \in PC, NEW x \in Txs \cup {NoTx},
               runs' = [runs EXCEPT ![r].pc = pc, ![r].tx = x]
        PROVE  RunsOK'
    BY <1>2, <2>5 DEF ServiceTypeOK, Run
  <2>6. CASE runs' = [runs EXCEPT ![r].pc = "attempt",
                                 ![r].attempt = runs[r].attempt + 1,
                                 ![r].tx = NoTx]
    <3>1. runs[r].attempt + 1 \in Nat
      BY <1>2 DEF Run
    <3>2. ASSUME NEW n \in Nat,
                 runs' = [runs EXCEPT ![r].pc = "attempt", ![r].attempt = n,
                                      ![r].tx = NoTx]
          PROVE  RunsOK'
      BY <1>2, <2>2, <3>2 DEF ServiceTypeOK, Run
    <3>3. QED
      BY <2>6, <3>1, <3>2
  <2>7. QED
    BY <2>1, <2>3, <2>4, <2>5, <2>6
<1>4. record' \in [Trades -> Row]
  <2> DEFINE t == runs[r].trade
  <2>1. \/ UNCHANGED record
        \/ record' = [record EXCEPT ![t].status = "SUBMITTING"]
        \/ \E status \in {"CONFIRMING", "SETTLED"} :
               record' = [record EXCEPT ![t].status = status,
                                        ![t].onChainTxId = runs[r].tx]
        \/ \E why \in {"max retries", "already released"} :
               record' = [record EXCEPT ![t].status = "FAILED",
                                        ![t].reason = why]
    BY DEF RunStep, BeginAttempt, GiveUp, CheckPasses, CheckFails,
       Broadcast, BroadcastReplyLost, BroadcastAsserts, BroadcastRejected,
       RecordTx, WaitSucceeds, WaitTimesOut, WaitAsserts, MarkSettled, Finish,
       ReadTxId, LookupSettles, LookupFails, TimerFires, WriteFails, RunDies,
       SetStatus, SetStatusTx, SetFailed, CloseFailed
  <2>2. record[t] \in Row /\ runs[r].tx \in Txs \cup {NoTx}
    BY <1>2 DEF ServiceTypeOK, Run
  <2>3. [record[t] EXCEPT !.status = "SUBMITTING"] \in Row
    BY <2>2 DEF Row, Status
  <2>4. \A status \in {"CONFIRMING", "SETTLED"} :
            [record[t] EXCEPT !.status = status,
                              !.onChainTxId = runs[r].tx] \in Row
    BY <2>2 DEF Row, Status
  <2>5. \A why \in {"max retries", "already released"} :
            [record[t] EXCEPT !.status = "FAILED", !.reason = why] \in Row
    BY <2>2 DEF Row, Status, Reason
  <2>6. CASE record' = [record EXCEPT ![t].status = "SUBMITTING"]
    BY <1>2, <2>3, <2>6 DEF ServiceTypeOK
  <2>7. ASSUME NEW status \in {"CONFIRMING", "SETTLED"},
               record' = [record EXCEPT ![t].status = status,
                                        ![t].onChainTxId = runs[r].tx]
        PROVE  record' \in [Trades -> Row]
    BY <1>2, <2>4, <2>7 DEF ServiceTypeOK
  <2>8. ASSUME NEW why \in {"max retries", "already released"},
               record' = [record EXCEPT ![t].status = "FAILED",
                                        ![t].reason = why]
        PROVE  record' \in [Trades -> Row]
    BY <1>2, <2>5, <2>8 DEF ServiceTypeOK
  <2>9. QED
    BY <2>1, <2>6, <2>7, <2>8 DEF ServiceTypeOK
<1>5. \/ UNCHANGED <<txState, txTrade>>
      \/ \E x \in Txs : Submit(x, runs[r].trade)
  BY DEF RunStep, BeginAttempt, GiveUp, CheckPasses, CheckFails,
     Broadcast, BroadcastReplyLost, BroadcastAsserts, BroadcastRejected,
     RecordTx, WaitSucceeds, WaitTimesOut, WaitAsserts, MarkSettled, Finish,
     ReadTxId, LookupSettles, LookupFails, TimerFires, WriteFails, RunDies
<1>6. /\ UNCHANGED <<deliveries, sellerTokens, delivered, buyersOptedIn>>
      /\ unfrozen' = unfrozen \/ unfrozen' = unfrozen \cup {runs[r].trade}
  BY DEF RunStep, BeginAttempt, GiveUp, CheckPasses, CheckFails,
     Broadcast, BroadcastReplyLost, BroadcastAsserts, BroadcastRejected,
     RecordTx, WaitSucceeds, WaitTimesOut, WaitAsserts, MarkSettled, Finish,
     ReadTxId, LookupSettles, LookupFails, TimerFires, WriteFails, RunDies
<1>7. /\ txState' \in [Txs -> TxStatus]
      /\ txTrade' \in [Txs -> Trades \cup {NoTrade}]
      /\ \A x \in Txs : txState'[x] # "unused" => txTrade'[x] \in Trades
  BY <1>2, <1>5 DEF Submit, ServiceTypeOK, TxStatus
<1>8. QED
  BY <1>2, <1>3, <1>4, <1>6, <1>7 DEF ServiceTypeOK

(* No step leaves the types, and the escrow's own lemma covers its part. *)
LEMMA TypeStep ==
    ASSUME TypeOK, [Next]_vars
    PROVE  TypeOK'
<1> USE SettlementAssumption DEF chainVars
<1>0. ServiceTypeOK
  BY DEF TypeOK
<1>1. ASSUME NEW r \in Runs, NEW t \in Trades, Deliver(r, t)
      PROVE  ServiceTypeOK'
  <2>1. record[t] \in Row
    BY <1>0 DEF ServiceTypeOK
  <2>2. [record[t] EXCEPT !.status = "AWAITING_SIGNATURES",
                          !.reason = "none"] \in Row
    BY <2>1 DEF Row, Status, Reason
  <2>3. record' \in [Trades -> Row]
    BY <1>0, <1>1, <2>2 DEF Deliver, ServiceTypeOK
  <2>4. [pc |-> "attempt", trade |-> t, attempt |-> 1, tx |-> NoTx] \in Run
    BY DEF Run, PC
  <2>5. deliveries' \in [Trades -> Nat]
    BY <1>0, <1>1 DEF Deliver, ServiceTypeOK
  <2>6. /\ runs' \in [Runs -> Run]
        /\ \A q \in Runs : runs'[q].pc # "idle" => runs'[q].trade \in Trades
    BY <1>0, <1>1, <2>4 DEF Deliver, ServiceTypeOK
  <2>7. QED
    BY <1>0, <1>1, <2>3, <2>5, <2>6 DEF Deliver, ServiceTypeOK
<1>2. ASSUME NEW r \in Runs, RunStep(r) \/ WriteFails(r) \/ RunDies(r)
      PROVE  ServiceTypeOK'
  BY <1>0, <1>2, RunTypeStep
<1>3. ASSUME Crash PROVE ServiceTypeOK'
  BY <1>0, <1>3 DEF Crash, rest, ServiceTypeOK, Run, IdleRun, PC
<1>4. ASSUME NEW x \in Txs, Confirm(x) PROVE ServiceTypeOK'
  <2> DEFINE t == txTrade[x]
             s == SellerOf[t]
  <2>1. t \in Trades /\ s \in Accounts
    BY <1>0, <1>4 DEF Confirm, ServiceTypeOK
  <2>2. Cardinality({}) = 0 /\ sellerTokens[s] \in Nat
    BY <1>0, <2>1, FS_EmptySet DEF ServiceTypeOK
  <2>3. {y \in {} : SellerOf[txTrade[y]] = s} = {}
    OBVIOUS
  <2>4. 0 < sellerTokens[s]
    BY <1>4, <2>2, <2>3 DEF Confirm, ClawbackWorks
  <2>5. sellerTokens' = [sellerTokens EXCEPT ![s] = sellerTokens[s] - 1]
    BY <1>4 DEF Confirm
  <2>6. sellerTokens' \in [Accounts -> Nat]
    <3> HIDE DEF s
    <3> QED
      BY <1>0, <2>1, <2>2, <2>4, <2>5 DEF ServiceTypeOK
  <2>7. delivered' \in [Trades -> Nat]
    BY <1>0, <1>4, <2>1 DEF Confirm, ServiceTypeOK
  <2>8. /\ txState' \in [Txs -> TxStatus]
        /\ \A y \in Txs : txState'[y] # "unused" => txTrade'[y] \in Trades
    BY <1>0, <1>4, <2>1 DEF Confirm, ServiceTypeOK, TxStatus
  <2>9. QED
    BY <1>0, <1>4, <2>6, <2>7, <2>8 DEF Confirm, ServiceTypeOK
<1>5. ASSUME NEW x \in Txs, Reject(x) \/ Drop(x) PROVE ServiceTypeOK'
  <2>1. /\ txState' \in [Txs -> TxStatus]
        /\ \A y \in Txs : txState'[y] # "unused" => txTrade'[y] \in Trades
    BY <1>0, <1>5 DEF Reject, Drop, ServiceTypeOK, TxStatus
  <2>2. QED
    BY <1>0, <1>5, <2>1 DEF Reject, Drop, ServiceTypeOK
<1>6. ASSUME NEW t \in Trades, BuyerOptsIn(t) PROVE ServiceTypeOK'
  BY <1>0, <1>6 DEF BuyerOptsIn, ServiceTypeOK
<1>7. ASSUME EscrowUsed PROVE ServiceTypeOK'
  BY <1>0, <1>7 DEF EscrowUsed, ServiceTypeOK
<1>8. ASSUME UNCHANGED vars PROVE ServiceTypeOK'
  BY <1>0, <1>8 DEF vars, ServiceTypeOK
<1>9. ServiceTypeOK'
  BY <1>1, <1>2, <1>3, <1>4, <1>5, <1>6, <1>7, <1>8 DEF Next, TxStep
<1>10. EscrowTypeOK'
  BY EscrowStep, EscrowTypeStep DEF TypeOK
<1>11. QED
  BY <1>9, <1>10 DEF TypeOK

(* Every reachable state of the composed system is well typed. *)
THEOREM TypeCorrect == Spec => []TypeOK
<1>1. Init => TypeOK
  BY ServiceTypeInit, EscrowTypeInit DEF Init, TypeOK
<1>2. QED
  BY <1>1, TypeStep, PTL DEF Spec

(* The composed system uses the escrow contract only as the contract's own *)
(* specification allows, so what is proved of the contract holds of it.    *)
THEOREM UsesEscrow == Spec => EscrowSpec
<1>1. Init => EscrowInit
  BY DEF Init
<1>2. QED
  BY <1>1, EscrowStep, TypeCorrect, PTL DEF Spec, EscrowSpec

-----------------------------------------------------------------------------
(* The inductive invariant.  SettledIsOnChain alone is not inductive: what *)
(* a run writes to the row depends on what the run, or the row it read,    *)
(* remembers about a group.                                                *)

(* Group x was broadcast for trade t. *)
OfTrade(x, t) == x \in Txs /\ txState[x] # "unused" /\ txTrade[x] = t

HoldsGroup(run) ==
    /\ run.pc \in {"sent", "waiting", "confirmed", "finishing"} =>
           OfTrade(run.tx, run.trade)
    /\ run.pc \in {"confirmed", "finishing"} => Confirmed(run.tx)
    /\ run.pc = "lookup" => run.tx = NoTx \/ OfTrade(run.tx, run.trade)

RunsHoldTheirGroup == \A r \in Runs : HoldsGroup(runs[r])

RowsNameTheirGroup ==
    \A t \in Trades : record[t].onChainTxId = NoTx
                      \/ OfTrade(record[t].onChainTxId, t)

GroupsDelivered == \A x \in Txs : Confirmed(x) => delivered[txTrade[x]] > 0

GroupInv == /\ RunsHoldTheirGroup
            /\ RowsNameTheirGroup
            /\ SettledIsOnChain

IInv == /\ TypeOK
        /\ GroupInv
        /\ DeliveryVersusPayment
        /\ GroupsDelivered
        /\ UnfrozenAfterDelivery

(* A broadcast group keeps its trade, and an executed one stays executed. *)
LEMMA GroupsOnlyGrow ==
    ASSUME TypeOK, [Next]_vars, NEW x \in Txs
    PROVE  /\ txState[x] # "unused" =>
                  txState'[x] # "unused" /\ txTrade'[x] = txTrade[x]
           /\ Confirmed(x) => Confirmed(x)'
<1> USE DEF rest, chainVars, Confirmed, ConfirmedTxs, TypeOK, ServiceTypeOK
<1>1. ASSUME NEW r \in Runs, RunStep(r) \/ WriteFails(r) \/ RunDies(r)
      PROVE  UNCHANGED <<txState, txTrade>>
             \/ \E y \in Txs : Submit(y, runs[r].trade)
  BY <1>1 DEF RunStep, BeginAttempt, GiveUp, CheckPasses, CheckFails,
     Broadcast, BroadcastReplyLost, BroadcastAsserts, BroadcastRejected,
     RecordTx, WaitSucceeds, WaitTimesOut, WaitAsserts, MarkSettled, Finish,
     ReadTxId, LookupSettles, LookupFails, TimerFires, WriteFails, RunDies
<1>2. ASSUME NEW y \in Txs, Confirm(y) \/ Reject(y) \/ Drop(y)
      PROVE  /\ txTrade' = txTrade
             /\ txState[y] = "pending"
             /\ \E s \in {"confirmed", "rejected", "dropped"} :
                    txState' = [txState EXCEPT ![y] = s]
  BY <1>2 DEF Confirm, Reject, Drop
<1>3. ASSUME NEW y \in Txs, NEW t \in Trades \cup {NoTrade}, Submit(y, t)
      PROVE  /\ txState[y] = "unused"
             /\ txState' = [txState EXCEPT ![y] = "pending"]
             /\ txTrade' = [txTrade EXCEPT ![y] = t]
  BY <1>3 DEF Submit
<1>4. \/ UNCHANGED <<txState, txTrade>>
      \/ \E y \in Txs, t \in Trades \cup {NoTrade} : Submit(y, t)
      \/ \E y \in Txs : Confirm(y) \/ Reject(y) \/ Drop(y)
  <2>1. ASSUME NEW r \in Runs PROVE runs[r].trade \in Trades \cup {NoTrade}
    BY <2>1 DEF Run
  <2>2. QED
    BY <1>1, <2>1 DEF Next, Deliver, Crash, BuyerOptsIn, EscrowUsed, TxStep,
       vars
<1>5. QED
  BY <1>2, <1>3, <1>4

LEMMA OfTradeStays ==
    ASSUME TypeOK, [Next]_vars, NEW x, NEW t, OfTrade(x, t)
    PROVE  OfTrade(x, t)'
BY GroupsOnlyGrow DEF OfTrade

LEMMA ConfirmedStays ==
    ASSUME TypeOK, [Next]_vars, NEW x, Confirmed(x)
    PROVE  Confirmed(x)'
<1>1. x \in Txs
  BY DEF Confirmed, ConfirmedTxs
<1>2. QED
  BY <1>1, GroupsOnlyGrow

(* One run's step: what it remembers afterwards ... *)
LEMMA RunHolds ==
    ASSUME IInv, [Next]_vars, NEW r \in Runs,
           RunStep(r) \/ WriteFails(r) \/ RunDies(r)
    PROVE  HoldsGroup(runs[r])'
<1> DEFINE t == runs[r].trade
           x == runs[r].tx
           Now(pc, y) == /\ runs'[r].pc = pc
                         /\ runs'[r].tx = y
                         /\ runs'[r].trade = t
<1>1. runs \in [Runs -> Run] /\ runs[r] \in Run /\ HoldsGroup(runs[r])
  BY DEF IInv, GroupInv, RunsHoldTheirGroup, TypeOK, ServiceTypeOK
<1>2. \A y \in Txs : txState[y] # "unused" =>
          txState'[y] # "unused" /\ txTrade'[y] = txTrade[y]
  BY GroupsOnlyGrow DEF IInv
<1>3. \A y \in Txs : txState[y] = "confirmed" => txState'[y] = "confirmed"
  BY GroupsOnlyGrow DEF IInv, Confirmed, ConfirmedTxs
<1>4. runs[r].pc # "idle" => t \in Trades
  BY DEF IInv, TypeOK, ServiceTypeOK
<1> USE DEF HoldsGroup, OfTrade, Confirmed, ConfirmedTxs
<1>5. CASE Broadcast(r)
  <2>1. PICK y \in Txs : Submit(y, t) /\ GotoWith(r, "sent", y)
    BY <1>5 DEF Broadcast
  <2>2. txState'[y] = "pending" /\ txTrade'[y] = t
    BY <1>5, <2>1 DEF Submit, IInv, TypeOK, ServiceTypeOK
  <2>3. Now("sent", y)
    BY <1>1, <2>1 DEF GotoWith, Run
  <2>4. QED
    BY <2>2, <2>3
<1>6. CASE ReadTxId(r)
  <2>1. record[t].onChainTxId = NoTx \/ OfTrade(record[t].onChainTxId, t)
    BY <1>4, <1>6 DEF ReadTxId, IInv, GroupInv, RowsNameTheirGroup
  <2>2. Now("lookup", record[t].onChainTxId)
    BY <1>1, <1>6 DEF ReadTxId, GotoWith, Run
  <2>3. QED
    BY <1>2, <2>1, <2>2
<1>7. CASE RecordTx(r) \/ MarkSettled(r) \/ WaitSucceeds(r)
  <2>1. \/ Now("waiting", x) /\ runs[r].pc = "sent"
        \/ Now("finishing", x) /\ runs[r].pc = "confirmed"
        \/ Now("confirmed", x) /\ runs[r].pc = "waiting" /\ Confirmed(x)
    BY <1>1, <1>7 DEF RecordTx, MarkSettled, WaitSucceeds, SeenConfirmed,
       Goto, Run
  <2>2. QED
    BY <1>1, <1>2, <1>3, <2>1
<1>8. CASE \/ BeginAttempt(r) \/ GiveUp(r) \/ CheckPasses(r) \/ CheckFails(r)
           \/ BroadcastReplyLost(r) \/ BroadcastAsserts(r)
           \/ BroadcastRejected(r) \/ WaitTimesOut(r) \/ WaitAsserts(r)
           \/ Finish(r) \/ LookupSettles(r) \/ LookupFails(r) \/ TimerFires(r)
           \/ WriteFails(r) \/ RunDies(r)
  <2> DEFINE Elsewhere == {"idle", "attempt", "checking", "sending", "backoff",
                           "asserted"}
  <2>1. \/ \E pc \in Elsewhere : runs' = [runs EXCEPT ![r].pc = pc]
        \/ runs' = [runs EXCEPT ![r] = IdleRun]
        \/ runs' = [runs EXCEPT ![r].pc = "attempt",
                                ![r].attempt = runs[r].attempt + 1,
                                ![r].tx = NoTx]
    BY <1>8 DEF BeginAttempt, GiveUp, CheckPasses, CheckFails,
       BroadcastReplyLost, BroadcastAsserts, BroadcastRejected,
       WaitTimesOut, WaitAsserts, Finish, LookupSettles, LookupFails,
       TimerFires, WriteFails, RunDies, Goto, Done
  <2>2. runs'[r].pc \in Elsewhere
    BY <1>1, <2>1 DEF IdleRun, Run
  <2>3. QED
    BY <2>2
<1>9. QED
  BY <1>5, <1>6, <1>7, <1>8 DEF RunStep

(* ... and what the rows say.  Only the row of its own trade can change.   *)
LEMMA RowHolds ==
    ASSUME IInv, [Next]_vars, NEW r \in Runs,
           RunStep(r) \/ WriteFails(r) \/ RunDies(r)
    PROVE  RowsNameTheirGroup' /\ SettledIsOnChain'
<1> DEFINE t == runs[r].trade
           x == runs[r].tx
           RowOK(row, u) ==
               /\ row.onChainTxId = NoTx \/ OfTrade(row.onChainTxId, u)
               /\ row.status = "SETTLED" => Confirmed(row.onChainTxId)
<1>1. runs[r] \in Run /\ HoldsGroup(runs[r]) /\ record \in [Trades -> Row]
  BY DEF IInv, GroupInv, RunsHoldTheirGroup, TypeOK, ServiceTypeOK
<1>2. \A y \in Txs : txState[y] # "unused" =>
          txState'[y] # "unused" /\ txTrade'[y] = txTrade[y]
  BY GroupsOnlyGrow DEF IInv
<1>3. \A y \in Txs : txState[y] = "confirmed" => txState'[y] = "confirmed"
  BY GroupsOnlyGrow DEF IInv, Confirmed, ConfirmedTxs
<1>4. runs[r].pc # "idle" => t \in Trades
  BY DEF IInv, TypeOK, ServiceTypeOK
<1> USE DEF OfTrade, Confirmed, ConfirmedTxs
<1>5. \A u \in Trades : RowOK(record[u], u)
  BY SettlementAssumption
     DEF IInv, GroupInv, RowsNameTheirGroup, SettledIsOnChain
<1>6. SUFFICES ASSUME NEW u \in Trades PROVE RowOK(record[u], u)'
  BY SettlementAssumption DEF RowsNameTheirGroup, SettledIsOnChain
<1>7. CASE UNCHANGED record
  BY <1>2, <1>3, <1>5, <1>7
<1>8. CASE RecordTx(r) \/ MarkSettled(r) \/ LookupSettles(r)
  <2>1. /\ OfTrade(x, t)
        /\ runs[r].pc # "sent" => Confirmed(x)
        /\ \E s \in {"CONFIRMING", "SETTLED"} :
              /\ record' = [record EXCEPT ![t].status = s,
                                          ![t].onChainTxId = x]
              /\ runs[r].pc = "sent" => s = "CONFIRMING"
    BY <1>1, <1>8, SettlementAssumption
       DEF RecordTx, MarkSettled, LookupSettles, FoundConfirmed, SetStatusTx,
           HoldsGroup
  <2>2. CASE u = t
    <3>1. /\ record'[t].onChainTxId = x
          /\ record'[t].status = "SETTLED" => runs[r].pc # "sent"
      BY <1>1, <2>1, <2>2 DEF Row
    <3>2. QED
      BY <1>2, <1>3, <2>1, <2>2, <3>1
  <2>3. CASE u # t
    <3>1. record'[u] = record[u]
      BY <1>1, <2>1, <2>3
    <3>2. QED
      BY <1>2, <1>3, <1>5, <3>1
  <2>4. QED
    BY <2>2, <2>3
<1>9. CASE BeginAttempt(r) \/ GiveUp(r) \/ LookupFails(r)
  <2>1. \/ record' = [record EXCEPT ![t].status = "SUBMITTING"]
        \/ \E why : record' = [record EXCEPT ![t].status = "FAILED",
                                             ![t].reason = why]
    BY <1>9 DEF BeginAttempt, GiveUp, LookupFails, CloseFailed,
       SetStatus, SetFailed
  <2> DEFINE Same ==
               /\ record'[u].onChainTxId = record[u].onChainTxId
               /\ record'[u].status = "SETTLED" => record[u].status = "SETTLED"
  <2>2. Same
    <3>1. record[u] \in Row
      BY <1>1
    <3>2. CASE record' = [record EXCEPT ![t].status = "SUBMITTING"]
      BY <1>1, <3>1, <3>2 DEF Row
    <3>3. ASSUME NEW why, record' = [record EXCEPT ![t].status = "FAILED",
                                                   ![t].reason = why]
          PROVE  Same
      BY <1>1, <3>1, <3>3 DEF Row
    <3>4. QED
      BY <2>1, <3>2, <3>3
  <2>3. QED
    BY <1>2, <1>3, <1>5, <2>2
<1>10. QED
  BY <1>7, <1>8, <1>9 DEF RunStep, CheckPasses, CheckFails,
     Broadcast, BroadcastReplyLost, BroadcastAsserts, BroadcastRejected,
     WaitSucceeds, WaitTimesOut, WaitAsserts, Finish, ReadTxId, TimerFires,
     WriteFails, RunDies

LEMMA GroupStep ==
    ASSUME IInv, [Next]_vars
    PROVE  GroupInv'
<1>1. /\ runs \in [Runs -> Run]
      /\ record \in [Trades -> Row]
      /\ \A q \in Runs : HoldsGroup(runs[q])
      /\ RowsNameTheirGroup /\ SettledIsOnChain
  BY DEF IInv, GroupInv, RunsHoldTheirGroup, TypeOK, ServiceTypeOK
<1>2. \A y \in Txs : txState[y] # "unused" =>
          txState'[y] # "unused" /\ txTrade'[y] = txTrade[y]
  BY GroupsOnlyGrow DEF IInv
<1>3. \A y \in Txs : txState[y] = "confirmed" => txState'[y] = "confirmed"
  BY GroupsOnlyGrow DEF IInv, Confirmed, ConfirmedTxs
<1> USE DEF OfTrade, Confirmed, ConfirmedTxs, rest, chainVars
<1>4. ASSUME NEW q \in Runs, runs'[q] = runs[q] \/ runs'[q].pc = "idle"
                             \/ runs'[q].pc = "attempt"
      PROVE  HoldsGroup(runs[q])'
  BY <1>1, <1>2, <1>3, <1>4 DEF HoldsGroup
<1>5. ASSUME \A t \in Trades :
                 /\ record'[t].onChainTxId = record[t].onChainTxId
                 /\ record'[t].status = "SETTLED" => record[t].status = "SETTLED"
      PROVE  RowsNameTheirGroup' /\ SettledIsOnChain'
  BY <1>1, <1>2, <1>3, <1>5 DEF RowsNameTheirGroup, SettledIsOnChain
<1>6. ASSUME NEW r \in Runs, RunStep(r) \/ WriteFails(r) \/ RunDies(r)
      PROVE  GroupInv'
  <2>1. ASSUME NEW q \in Runs, q # r PROVE runs'[q] = runs[q]
    BY <1>1, <1>6, <2>1 DEF RunStep, BeginAttempt, GiveUp, CheckPasses,
       CheckFails, Broadcast, BroadcastReplyLost, BroadcastAsserts,
       BroadcastRejected, RecordTx, WaitSucceeds, WaitTimesOut, WaitAsserts,
       MarkSettled, Finish, ReadTxId, LookupSettles, LookupFails, TimerFires,
       WriteFails, RunDies, Goto, GotoWith, Done
  <2>2. RunsHoldTheirGroup'
    BY <1>4, <1>6, <2>1, RunHolds DEF RunsHoldTheirGroup
  <2>3. QED
    BY <1>6, <2>2, RowHolds DEF GroupInv
<1>7. ASSUME NEW r \in Runs, NEW t \in Trades, Deliver(r, t) PROVE GroupInv'
  <2>1. \A q \in Runs : runs'[q] = runs[q] \/ runs'[q].pc = "attempt"
    BY <1>1, <1>7 DEF Deliver
  <2>2. record' = [record EXCEPT ![t].status = "AWAITING_SIGNATURES",
                                 ![t].reason = "none"]
    BY <1>7 DEF Deliver
  <2>3. \A u \in Trades :
            /\ record'[u].onChainTxId = record[u].onChainTxId
            /\ record'[u].status = "SETTLED" => record[u].status = "SETTLED"
    BY <1>1, <2>2 DEF Row
  <2>4. QED
    BY <1>4, <1>5, <2>1, <2>3 DEF GroupInv, RunsHoldTheirGroup
<1>8. CASE Crash
  BY <1>4, <1>5, <1>8 DEF Crash, IdleRun, GroupInv, RunsHoldTheirGroup
<1>9. CASE UNCHANGED <<runs, record>>
  BY <1>4, <1>5, <1>9 DEF GroupInv, RunsHoldTheirGroup
<1>10. QED
  BY <1>6, <1>7, <1>8, <1>9 DEF Next, TxStep, Confirm, Reject, Drop,
     BuyerOptsIn, EscrowUsed, vars

-----------------------------------------------------------------------------
(* Delivery versus payment. *)

(* The network executes one group, the contract is called outside of any   *)
(* group, or neither the boxes nor the executed groups change.             *)
LEMMA ChainStep ==
    ASSUME TypeOK, [Next]_vars
    PROVE  \/ /\ escrowHolds' = escrowHolds
              /\ ConfirmedTxs' = ConfirmedTxs
              /\ \A x \in ConfirmedTxs : txTrade'[x] = txTrade[x]
              /\ delivered' = delivered
           \/ \E x \in Txs : Confirm(x)
           \/ EscrowUsed
<1> DEFINE Same == /\ escrowHolds' = escrowHolds
                   /\ ConfirmedTxs' = ConfirmedTxs
                   /\ \A x \in ConfirmedTxs : txTrade'[x] = txTrade[x]
                   /\ delivered' = delivered
<1> USE DEF rest, chainVars, escrowVars, escrowLedger, ConfirmedTxs
<1>1. ASSUME NEW x \in Txs, NEW t, Submit(x, t),
             UNCHANGED <<delivered, escrowVars>>
      PROVE  Same
  BY <1>1 DEF Submit, TypeOK, ServiceTypeOK
<1>2. ASSUME NEW r \in Runs, Broadcast(r) \/ BroadcastReplyLost(r)
      PROVE  Same
  BY <1>1, <1>2 DEF Broadcast, BroadcastReplyLost
<1>3. ASSUME NEW x \in Txs, Reject(x) \/ Drop(x)
      PROVE  Same
  BY <1>3 DEF Reject, Drop, TypeOK, ServiceTypeOK
<1>4. ASSUME NEW r \in Runs, RunStep(r) \/ WriteFails(r) \/ RunDies(r)
      PROVE  Same
  BY <1>2, <1>4 DEF RunStep, BeginAttempt, GiveUp, CheckPasses, CheckFails,
     BroadcastAsserts, BroadcastRejected, RecordTx, WaitSucceeds,
     WaitTimesOut, WaitAsserts, MarkSettled, Finish, ReadTxId, LookupSettles,
     LookupFails, TimerFires, WriteFails, RunDies
<1>5. QED
  BY <1>3, <1>4 DEF Next, Deliver, Crash, TxStep, BuyerOptsIn, vars

(* What executing a group does to the boxes. *)
LEMMA ConfirmEffect ==
    ASSUME TypeOK, NEW x \in Txs, Confirm(x)
    PROVE  /\ txTrade[x] \in Trades
           /\ x \notin ConfirmedTxs
           /\ ConfirmedTxs' = ConfirmedTxs \cup {x}
           /\ txTrade' = txTrade
           /\ record' = record
           /\ IF OrderOf[txTrade[x]] \in Orders
              THEN /\ IsLocked(OrderOf[txTrade[x]])
                   /\ escrowHolds' =
                        [escrowHolds EXCEPT ![OrderOf[txTrade[x]]].locked = FALSE]
              ELSE escrowHolds' = escrowHolds
<1>1. txTrade[x] \in Trades /\ txTrade' = txTrade /\ record' = record
  BY DEF Confirm, TypeOK, ServiceTypeOK
<1>2. x \notin ConfirmedTxs /\ ConfirmedTxs' = ConfirmedTxs \cup {x}
  BY DEF Confirm, ConfirmedTxs, TypeOK, ServiceTypeOK
<1>3. PayLeg(txTrade[x])
  BY DEF Confirm
<1>4. QED
  BY <1>1, <1>2, <1>3 DEF PayLeg, Backed, ReleaseToSeller, MayRelease,
     escrowVars, escrowLedger

(* What a call outside of any group does to the boxes: it locks an order   *)
(* without a box, returns a locked one, or leaves the boxes alone.         *)
LEMMA EscrowUsedEffect ==
    ASSUME TypeOK, EscrowUsed
    PROVE  /\ ConfirmedTxs' = ConfirmedTxs
           /\ txTrade' = txTrade
           /\ record' = record
           /\ \/ escrowHolds' = escrowHolds
              \/ \E o \in Orders, hold \in Hold :
                    /\ ~Exists(o)
                    /\ hold.locked
                    /\ escrowHolds' = [escrowHolds EXCEPT ![o] = hold]
              \/ \E o \in Orders :
                    /\ IsLocked(o)
                    /\ escrowHolds' = [escrowHolds EXCEPT ![o] = NoHold]
<1>1. UNCHANGED <<txState, txTrade, record>> /\ EscrowCall
  BY DEF EscrowUsed
<1> USE DEF escrowConfig, escrowLedger
<1>2. ASSUME NEW o \in Orders, NEW buyer \in Accounts,
             NEW amount \in 1..MaxAmount, RecordLock(o, buyer, amount)
      PROVE  \E hold \in Hold :
                /\ ~Exists(o)
                /\ hold.locked
                /\ escrowHolds' = [escrowHolds EXCEPT ![o] = hold]
  BY <1>2 DEF RecordLock, MayRecord, Hold
<1>3. ASSUME NEW caller \in Accounts, NEW o \in Orders, ReturnToBuyer(caller, o)
      PROVE  /\ IsLocked(o)
             /\ escrowHolds' = [escrowHolds EXCEPT ![o] = NoHold]
  BY <1>3 DEF ReturnToBuyer, MayReturn, WithoutBox
<1>4. QED
  BY <1>1, <1>2, <1>3 DEF EscrowCall, Deposit, OptIntoUsdc, Pause, Unpause,
     UpdateSettlementContract, ConfirmedTxs

(* Clearing a lock's flag releases that order and no other. *)
LEMMA ReleaseFlips ==
    ASSUME EscrowTypeOK, NEW p \in Orders, IsLocked(p),
           escrowHolds' = [escrowHolds EXCEPT ![p].locked = FALSE]
    PROVE  /\ ~Released(p)
           /\ Released(p)'
           /\ \A o \in Orders \ {p} : escrowHolds'[o] = escrowHolds[o]
<1>1. escrowHolds \in [Orders -> Hold \cup {NoHold}] /\ escrowHolds[p] \in Hold
  BY DEF EscrowTypeOK, IsLocked, Exists
<1>2. escrowHolds'[p] = [escrowHolds[p] EXCEPT !.locked = FALSE]
  BY <1>1
<1>3. [escrowHolds[p] EXCEPT !.locked = FALSE] \in Hold
  BY <1>1 DEF Hold
<1>4. escrowHolds'[p] # NoHold
  BY <1>2, <1>3, EscrowAssumption
<1>5. ~escrowHolds'[p].locked
  BY <1>1, <1>2 DEF Hold
<1>6. QED
  BY <1>1, <1>4, <1>5 DEF Released, IsLocked, Exists

(* The claim for one order, over the set of executed groups. *)
PaidOnce(o) ==
    /\ Released(o) <=> \E x \in ConfirmedTxs : OrderOf[txTrade[x]] = o
    /\ \A x, y \in ConfirmedTxs :
           (OrderOf[txTrade[x]] = o /\ OrderOf[txTrade[y]] = o) => x = y

LEMMA PaidOnceEverywhere ==
    DeliveryVersusPayment <=> \A o \in Orders : PaidOnce(o)
<1>1. ConfirmedTxs \subseteq Txs
  BY DEF ConfirmedTxs
<1>2. QED
  BY <1>1 DEF DeliveryVersusPayment, PaidOnce, Confirmed, Released

LEMMA PaymentStep ==
    ASSUME TypeOK, DeliveryVersusPayment, [Next]_vars
    PROVE  DeliveryVersusPayment'
<1>0. (\A o \in Orders : PaidOnce(o))' => DeliveryVersusPayment'
  BY PaidOnceEverywhere, PTL
<1>1. SUFFICES ASSUME NEW o \in Orders PROVE PaidOnce(o)'
  BY <1>0
<1>2. PaidOnce(o) /\ \A q \in Orders : PaidOnce(q)
  BY PaidOnceEverywhere
<1>3. escrowHolds \in [Orders -> Hold \cup {NoHold}] /\ EscrowTypeOK
  BY DEF TypeOK, EscrowTypeOK
<1>4. ASSUME escrowHolds'[o] = escrowHolds[o] \/ (Released(o) <=> Released(o)'),
             ConfirmedTxs' = ConfirmedTxs,
             \A x \in ConfirmedTxs : txTrade'[x] = txTrade[x]
      PROVE  PaidOnce(o)'
  BY <1>2, <1>4 DEF PaidOnce, Released, Exists
<1>5. ASSUME NEW x \in Txs, Confirm(x) PROVE PaidOnce(o)'
  <2>1. PICK p : p = OrderOf[txTrade[x]]
    OBVIOUS
  <2>2. /\ x \notin ConfirmedTxs
        /\ ConfirmedTxs' = ConfirmedTxs \cup {x}
        /\ txTrade' = txTrade
    BY <1>5, ConfirmEffect
  <2>3. CASE p \in Orders
    <3>1. IsLocked(p) /\ escrowHolds' = [escrowHolds EXCEPT ![p].locked = FALSE]
      BY <1>5, <2>1, <2>3, ConfirmEffect
    <3>2. /\ ~Released(p)
          /\ Released(p)'
          /\ \A q \in Orders \ {p} : escrowHolds'[q] = escrowHolds[q]
      BY <1>3, <2>3, <3>1, ReleaseFlips
    <3>3. CASE o = p
      BY <1>2, <2>1, <2>2, <3>2, <3>3 DEF PaidOnce
    <3>4. CASE o # p
      BY <1>2, <2>1, <2>2, <3>2, <3>4 DEF PaidOnce, Released, Exists
    <3>5. QED
      BY <3>3, <3>4
  <2>4. CASE p \notin Orders
    <3>1. escrowHolds' = escrowHolds
      BY <1>5, <2>1, <2>4, ConfirmEffect
    <3>2. QED
      BY <1>2, <2>1, <2>2, <2>4, <3>1 DEF PaidOnce, Released, Exists
  <2>5. QED
    BY <2>3, <2>4
<1>6. CASE EscrowUsed
  <2>1. ConfirmedTxs' = ConfirmedTxs /\ txTrade' = txTrade
    BY <1>6, EscrowUsedEffect DEF TypeOK
  <2>2. CASE escrowHolds' = escrowHolds
    BY <1>4, <2>1, <2>2
  <2>3. ASSUME NEW q \in Orders, NEW hold \in Hold, ~Exists(q), hold.locked,
               escrowHolds' = [escrowHolds EXCEPT ![q] = hold]
        PROVE  escrowHolds'[o] = escrowHolds[o] \/ (Released(o) <=> Released(o)')
    BY <1>3, <2>3 DEF Released, Exists
  <2>4. ASSUME NEW q \in Orders, IsLocked(q),
               escrowHolds' = [escrowHolds EXCEPT ![q] = NoHold]
        PROVE  escrowHolds'[o] = escrowHolds[o] \/ (Released(o) <=> Released(o)')
    BY <1>3, <2>4 DEF Released, IsLocked, Exists
  <2>5. QED
    BY <1>4, <1>6, <2>1, <2>2, <2>3, <2>4, EscrowUsedEffect
<1>7. QED
  BY <1>4, <1>5, <1>6, ChainStep

-----------------------------------------------------------------------------
(* Delivered tokens, and the whole invariant. *)

LEMMA DeliveredStep ==
    ASSUME IInv, [Next]_vars
    PROVE  GroupsDelivered' /\ UnfrozenAfterDelivery'
<1> USE DEF Confirmed
<1>1. /\ delivered \in [Trades -> Nat] /\ ConfirmedTxs \subseteq Txs
      /\ \A x \in ConfirmedTxs : txTrade[x] \in Trades
      /\ unfrozen \subseteq Trades
  BY DEF IInv, TypeOK, ServiceTypeOK, ConfirmedTxs
<1>2. \A x \in ConfirmedTxs : delivered[txTrade[x]] > 0
  BY <1>1 DEF IInv, GroupsDelivered
<1>3. \A t \in unfrozen : delivered[t] > 0
  BY DEF IInv, UnfrozenAfterDelivery
<1>4. ASSUME NEW x \in Txs, Confirm(x)
      PROVE  GroupsDelivered' /\ UnfrozenAfterDelivery'
  <2>1. /\ txTrade[x] \in Trades /\ txTrade' = txTrade
        /\ ConfirmedTxs' = ConfirmedTxs \cup {x}
    BY <1>4, ConfirmEffect DEF IInv
  <2>2. /\ delivered' = [delivered EXCEPT ![txTrade[x]] =
                             delivered[txTrade[x]] + 1]
        /\ unfrozen' = unfrozen
    BY <1>4 DEF Confirm
  <2>3. \A t \in Trades : delivered'[t] >= delivered[t]
    BY <1>1, <2>1, <2>2
  <2>4. delivered'[txTrade[x]] > 0
    BY <1>1, <2>1, <2>2
  <2>5. \A t \in Trades : delivered[t] > 0 => delivered'[t] > 0
    BY <1>1, <2>1, <2>2
  <2>6. QED
    BY <1>1, <1>2, <1>3, <2>1, <2>2, <2>4, <2>5
       DEF GroupsDelivered, UnfrozenAfterDelivery
<1>5. ASSUME ~(\E x \in Txs : Confirm(x))
      PROVE  GroupsDelivered' /\ UnfrozenAfterDelivery'
  <2>1. /\ ConfirmedTxs' = ConfirmedTxs
        /\ \A x \in ConfirmedTxs : txTrade'[x] = txTrade[x]
        /\ delivered' = delivered
    BY <1>5, ChainStep DEF IInv, EscrowUsed, ConfirmedTxs
  <2>2. unfrozen' = unfrozen
        \/ \E r \in Runs : Finish(r) /\ unfrozen' = unfrozen \cup {runs[r].trade}
    BY <1>5 DEF Next, Deliver, Crash, TxStep, BuyerOptsIn, EscrowUsed, vars,
       Reject, Drop, RunStep, BeginAttempt, GiveUp, CheckPasses, CheckFails,
       Broadcast, BroadcastReplyLost, BroadcastAsserts, BroadcastRejected,
       RecordTx, WaitSucceeds, WaitTimesOut, WaitAsserts, MarkSettled, Finish,
       ReadTxId, LookupSettles, LookupFails, TimerFires, WriteFails, RunDies,
       rest
  <2>3. ASSUME NEW r \in Runs, Finish(r) PROVE delivered[runs[r].trade] > 0
    BY <1>2, <2>3 DEF Finish, IInv, GroupInv, RunsHoldTheirGroup, HoldsGroup,
       OfTrade
  <2>4. QED
    BY <1>2, <1>3, <2>1, <2>2, <2>3 DEF GroupsDelivered, UnfrozenAfterDelivery
<1>6. QED
  BY <1>4, <1>5

LEMMA InvInit == Init => IInv
<1> SUFFICES ASSUME Init PROVE IInv
  OBVIOUS
<1>1. TypeOK
  BY ServiceTypeInit, EscrowTypeInit DEF Init, TypeOK
<1>2. ConfirmedTxs = {}
  BY DEF Init, ConfirmedTxs
<1>3. GroupInv
  BY DEF Init, GroupInv, RunsHoldTheirGroup, HoldsGroup, IdleRun,
     RowsNameTheirGroup, SettledIsOnChain, NoRecord
<1>4. DeliveryVersusPayment
  BY <1>2 DEF Init, EscrowInit, DeliveryVersusPayment, Confirmed, Released,
     Exists
<1>5. QED
  BY <1>1, <1>2, <1>3, <1>4 DEF Init, IInv, GroupsDelivered, Confirmed,
     UnfrozenAfterDelivery

LEMMA InvStep ==
    ASSUME IInv, [Next]_vars
    PROVE  IInv'
BY TypeStep, GroupStep, PaymentStep, DeliveredStep DEF IInv

LEMMA Invariance == Spec => []IInv
BY InvInit, InvStep, PTL DEF Spec

(* A row that says SETTLED names an executed group of its own trade. *)
THEOREM SettledRowsAreTrue == Spec => []SettledIsOnChain
<1>1. IInv => SettledIsOnChain
  BY DEF IInv, GroupInv
<1>2. QED
  BY <1>1, Invariance, PTL

(* An escrowed order is paid out exactly when one group delivered tokens   *)
(* for it, and never for a second group.                                   *)
THEOREM PaymentIsDelivery == Spec => []DeliveryVersusPayment
<1>1. IInv => DeliveryVersusPayment
  BY DEF IInv
<1>2. QED
  BY <1>1, Invariance, PTL

(* A buyer is unfrozen only after tokens arrived. *)
THEOREM UnfreezeIsLate == Spec => []UnfrozenAfterDelivery
<1>1. IInv => UnfrozenAfterDelivery
  BY DEF IInv
<1>2. QED
  BY <1>1, Invariance, PTL

-----------------------------------------------------------------------------
(* The refinement: every step is a step of the ledger or leaves it alone.  *)

(* Only one row changes at a time. *)
LEMMA OneRow ==
    ASSUME TypeOK, [Next]_vars
    PROVE  \/ record' = record
           \/ \E t \in Trades : \A u \in Trades \ {t} : record'[u] = record[u]
<1>1. ASSUME NEW r \in Runs, RunStep(r) \/ WriteFails(r) \/ RunDies(r)
      PROVE  \/ record' = record
             \/ \E t \in Trades : \A u \in Trades \ {t} : record'[u] = record[u]
  <2>1. runs[r].pc # "idle" => runs[r].trade \in Trades
    BY DEF TypeOK, ServiceTypeOK
  <2>2. record \in [Trades -> Row]
    BY DEF TypeOK, ServiceTypeOK
  <2>3. CASE record' # record
    <3>1. \A u \in Trades \ {runs[r].trade} : record'[u] = record[u]
      BY <1>1, <2>2, <2>3 DEF RunStep, BeginAttempt, GiveUp, CheckPasses,
         CheckFails, Broadcast, BroadcastReplyLost, BroadcastAsserts,
         BroadcastRejected, RecordTx, WaitSucceeds, WaitTimesOut, WaitAsserts,
         MarkSettled, Finish, ReadTxId, LookupSettles, LookupFails, TimerFires,
         WriteFails, RunDies, SetStatus, SetStatusTx, SetFailed, CloseFailed
    <3>2. runs[r].pc # "idle"
      BY <1>1, <2>3 DEF RunStep, BeginAttempt, GiveUp, CheckPasses,
         CheckFails, Broadcast, BroadcastReplyLost, BroadcastAsserts,
         BroadcastRejected, RecordTx, WaitSucceeds, WaitTimesOut, WaitAsserts,
         MarkSettled, Finish, ReadTxId, LookupSettles, LookupFails, TimerFires,
         WriteFails, RunDies
    <3>3. QED
      BY <2>1, <3>1, <3>2
  <2>4. QED
    BY <2>3
<1>2. ASSUME NEW r \in Runs, NEW t \in Trades, Deliver(r, t)
      PROVE  \A u \in Trades \ {t} : record'[u] = record[u]
  BY <1>2 DEF Deliver, TypeOK, ServiceTypeOK
<1>3. QED
  BY <1>1, <1>2 DEF Next, Crash, TxStep, Confirm, Reject, Drop, BuyerOptsIn,
     EscrowUsed, vars, rest

(* The boxes decide the ledger's view of an order. *)
LEMMA CustodyStep ==
    ASSUME EscrowTypeOK, NEW p \in Orders,
           \A o \in Orders \ {p} : escrowHolds'[o] = escrowHolds[o]
    PROVE  custodyBar' = [custodyBar EXCEPT ![p] = CustodyOf(p)']
BY DEF custodyBar, CustodyOf, IsLocked, Exists

LEMMA LedgerStep ==
    ASSUME IInv, IInv', [Next]_vars
    PROVE  [Ledger!Next]_(Ledger!ledgerVars)
<1> DEFINE Stutters == /\ exchangedBar' = exchangedBar
                       /\ custodyBar' = custodyBar
<1> USE DEF Ledger!Next, Ledger!ledgerVars
<1>1. TypeOK /\ EscrowTypeOK /\ escrowHolds \in [Orders -> Hold \cup {NoHold}]
  BY DEF IInv, TypeOK, EscrowTypeOK
<1>2. ASSUME NEW o \in Orders
      PROVE  /\ custodyBar[o] = CustodyOf(o)
             /\ IsLocked(o) => CustodyOf(o) = "held"
             /\ ~Exists(o) => CustodyOf(o) = "none"
  BY DEF custodyBar, CustodyOf, IsLocked, Exists
<1>3. ASSUME NEW x \in Txs, Confirm(x) PROVE Ledger!Next
  <2>0. PICK t : t = txTrade[x]
    OBVIOUS
  <2>1. /\ t \in Trades /\ reportedBar' = reportedBar
        /\ exchangedBar' = exchangedBar \cup {t}
    <3>1. /\ txTrade[x] \in Trades /\ txTrade' = txTrade /\ record' = record
          /\ ConfirmedTxs' = ConfirmedTxs \cup {x}
      BY <1>1, <1>3, ConfirmEffect
    <3>2. exchangedBar' = exchangedBar \cup {t}
      BY <2>0, <3>1 DEF exchangedBar
    <3>3. QED
      BY <2>0, <3>1, <3>2 DEF reportedBar
  <2>2. CASE OrderOf[t] \in Orders
    <3>1. PICK p \in Orders : p = OrderOf[t]
      BY <2>2
    <3>2. IsLocked(p) /\ escrowHolds' = [escrowHolds EXCEPT ![p].locked = FALSE]
      BY <1>1, <1>3, <2>0, <3>1, ConfirmEffect
    <3>3. Released(p)' /\ \A o \in Orders \ {p} : escrowHolds'[o] = escrowHolds[o]
      BY <1>1, <3>2, ReleaseFlips
    <3>4. CustodyOf(p)' = "released"
      BY <3>3 DEF CustodyOf, Released, IsLocked
    <3>5. custodyBar' = [custodyBar EXCEPT ![p] = "released"]
      BY <1>1, <3>3, <3>4, CustodyStep
    <3>6. custodyBar[p] = "held"
      BY <1>2, <3>2
    <3>7. Ledger!Exchange(t)
      BY <2>1, <3>1, <3>5, <3>6 DEF Ledger!Exchange
    <3>8. QED
      BY <2>1, <3>7
  <2>3. CASE OrderOf[t] \notin Orders
    <3>1. escrowHolds' = escrowHolds
      BY <1>1, <1>3, <2>0, <2>3, ConfirmEffect
    <3>2. custodyBar' = custodyBar
      BY <3>1 DEF custodyBar, CustodyOf, IsLocked, Exists
    <3>3. Ledger!ExchangeDirect(t)
      BY <2>1, <2>3, <3>2 DEF Ledger!ExchangeDirect
    <3>4. QED
      BY <2>1, <3>3
  <2>4. QED
    BY <2>2, <2>3
<1>4. CASE EscrowUsed
  <2>1. exchangedBar' = exchangedBar /\ reportedBar' = reportedBar
    BY <1>1, <1>4, EscrowUsedEffect DEF exchangedBar, reportedBar
  <2>2. CASE escrowHolds' = escrowHolds
    BY <2>1, <2>2 DEF custodyBar, CustodyOf, IsLocked, Exists
  <2>3. ASSUME NEW o \in Orders, NEW hold \in Hold, ~Exists(o), hold.locked,
               escrowHolds' = [escrowHolds EXCEPT ![o] = hold]
        PROVE  Ledger!HoldFunds(o)
    <3>1. CustodyOf(o)' = "held"
      BY <1>1, <2>3, EscrowAssumption DEF CustodyOf, IsLocked, Exists
    <3>2. custodyBar' = [custodyBar EXCEPT ![o] = "held"]
      BY <1>1, <2>3, <3>1, CustodyStep
    <3>3. QED
      BY <1>2, <2>1, <2>3, <3>2 DEF Ledger!HoldFunds
  <2>4. ASSUME NEW o \in Orders, IsLocked(o),
               escrowHolds' = [escrowHolds EXCEPT ![o] = NoHold]
        PROVE  Ledger!Refund(o)
    <3>1. CustodyOf(o)' = "none"
      BY <1>1, <2>4 DEF CustodyOf, IsLocked, Exists
    <3>2. custodyBar' = [custodyBar EXCEPT ![o] = "none"]
      BY <1>1, <2>4, <3>1, CustodyStep
    <3>3. QED
      BY <1>2, <2>1, <2>4, <3>2 DEF Ledger!Refund
  <2>5. QED
    BY <1>1, <1>4, <2>2, <2>3, <2>4, EscrowUsedEffect
<1>5. CASE Stutters
  <2>1. CASE record' = record
    BY <1>5, <2>1 DEF reportedBar
  <2>2. ASSUME NEW t \in Trades, \A u \in Trades \ {t} : record'[u] = record[u]
        PROVE  [Ledger!Next]_(Ledger!ledgerVars)
    <3>1. CASE t \in reportedBar'
      <4>1. t \in exchangedBar'
        BY <3>1 DEF IInv, GroupInv, SettledIsOnChain, reportedBar,
           exchangedBar, Confirmed
      <4>2. reportedBar' = reportedBar \cup {t}
        BY <2>2, <3>1 DEF reportedBar
      <4>3. Ledger!Report(t)
        BY <1>5, <4>1, <4>2 DEF Ledger!Report
      <4>4. QED
        BY <4>3
    <3>2. CASE t \notin reportedBar'
      <4>1. reportedBar' = reportedBar \ {t}
        BY <2>2, <3>2 DEF reportedBar
      <4>2. Ledger!Retract(t)
        BY <1>5, <4>1 DEF Ledger!Retract
      <4>3. QED
        BY <4>2
    <3>3. QED
      BY <3>1, <3>2
  <2>3. QED
    BY <1>1, <2>1, <2>2, OneRow
<1>6. CASE /\ escrowHolds' = escrowHolds
           /\ ConfirmedTxs' = ConfirmedTxs
           /\ \A x \in ConfirmedTxs : txTrade'[x] = txTrade[x]
  <2>1. Stutters
    BY <1>6 DEF custodyBar, CustodyOf, IsLocked, Exists, exchangedBar
  <2>2. QED
    BY <1>5, <2>1
<1>7. QED
  BY <1>1, <1>3, <1>4, <1>6, ChainStep

(* What the contract promises on its own holds inside the system as well.  *)
THEOREM PayoutsStaySafe == Spec => []PayoutsWithinLocks
BY UsesEscrow, PayoutSafety, PTL

(* The settlement system implements the abstract ledger. *)
THEOREM LedgerIsImplemented == Spec => ImplementsLedger
<1>1. Init => Ledger!Init
  BY DEF Init, Ledger!Init, EscrowInit, ConfirmedTxs, NoRecord, IsLocked, Exists,
     custodyBar, CustodyOf, exchangedBar, reportedBar
<1>2. QED
  BY <1>1, LedgerStep, Invariance, PTL DEF Spec, ImplementsLedger, Ledger!Spec

(* What the ledger promises holds in all its behaviours. *)
LedgerTyped == custodyBar \in [Orders -> Ledger!Custody]

LEMMA PromiseStep ==
    ASSUME LedgerTyped, Ledger!LedgerInv, [Ledger!Next]_(Ledger!ledgerVars)
    PROVE  LedgerTyped' /\ Ledger!LedgerInv'
<1> USE DEF LedgerTyped, Ledger!LedgerInv, Ledger!Custody
<1>1. CASE UNCHANGED Ledger!ledgerVars
  BY <1>1 DEF Ledger!ledgerVars
<1>2. ASSUME NEW o \in Orders, Ledger!HoldFunds(o) \/ Ledger!Refund(o)
      PROVE  LedgerTyped' /\ Ledger!LedgerInv'
  BY <1>2 DEF Ledger!HoldFunds, Ledger!Refund
<1>3. ASSUME NEW t \in Trades, Ledger!Exchange(t)
      PROVE  LedgerTyped' /\ Ledger!LedgerInv'
  BY <1>3 DEF Ledger!Exchange
<1>4. ASSUME NEW t \in Trades, Ledger!ExchangeDirect(t)
      PROVE  LedgerTyped' /\ Ledger!LedgerInv'
  BY <1>4 DEF Ledger!ExchangeDirect
<1>5. ASSUME NEW t \in Trades, Ledger!Report(t) \/ Ledger!Retract(t)
      PROVE  LedgerTyped' /\ Ledger!LedgerInv'
  BY <1>5 DEF Ledger!Report, Ledger!Retract
<1>6. QED
  BY <1>1, <1>2, <1>3, <1>4, <1>5 DEF Ledger!Next

(* Whoever implements the ledger pays an order's money out exactly when    *)
(* one trade of the order, and no second one, has been exchanged, and      *)
(* reports only exchanged trades; so the settlement system does.           *)
THEOREM LedgerSafe == (Ledger!Spec => []Ledger!LedgerInv) /\ (Spec => []Ledger!LedgerInv)
<1>1. Ledger!Init => LedgerTyped /\ Ledger!LedgerInv
  BY DEF Ledger!Init, LedgerTyped, Ledger!LedgerInv, Ledger!Custody
<1>2. Ledger!Spec => []Ledger!LedgerInv
  BY <1>1, PromiseStep, PTL DEF Ledger!Spec
<1>3. QED
  BY <1>2, LedgerIsImplemented, PTL DEF ImplementsLedger

-----------------------------------------------------------------------------
(* The attempts a run has left pay for the groups of its trade: an attempt  *)
(* is spent before its group is broadcast, so that even a broadcast whose   *)
(* reply is lost has been paid for.                                         *)

GroupsOf(t) == {x \in Txs : txTrade[x] = t}

AttemptsLeft(run) ==
    IF run.pc = "idle" THEN 0
    ELSE IF run.pc \in {"attempt", "checking", "sending"} THEN MaxRetries + 1 - run.attempt
    ELSE MaxRetries - run.attempt

LeftFor(t) == [r \in Runs |-> IF runs[r].trade = t THEN AttemptsLeft(runs[r]) ELSE 0]

LeftSum(t) == SumFunctionOnSet(LeftFor(t), Runs)

WithinBudget(run) ==
    run.pc # "idle" =>
        run.attempt <= (IF run.pc = "attempt" THEN MaxRetries + 1 ELSE MaxRetries)

BudgetInv ==
    /\ \A r \in Runs : WithinBudget(runs[r])
    /\ \A x \in Txs : txState[x] = "unused" => txTrade[x] = NoTrade
    /\ \A t \in Trades :
           Cardinality(GroupsOf(t)) + LeftSum(t) <= MaxRetries * deliveries[t]

LEMMA LeftIsNat ==
    ASSUME NEW run \in Run, WithinBudget(run)
    PROVE  AttemptsLeft(run) \in Nat
BY SettlementAssumption DEF Run, PC, WithinBudget, AttemptsLeft

LEMMA LeftForIsNat ==
    ASSUME TypeOK, BudgetInv, NEW t
    PROVE  /\ \A r \in Runs : LeftFor(t)[r] \in Nat
           /\ LeftSum(t) \in Nat
<1>1. \A r \in Runs : LeftFor(t)[r] \in Nat
  <2> TAKE r \in Runs
  <2>1. runs[r] \in Run /\ WithinBudget(runs[r])
    BY DEF TypeOK, ServiceTypeOK, BudgetInv
  <2>2. AttemptsLeft(runs[r]) \in Nat
    BY <2>1, LeftIsNat
  <2>3. QED
    BY <2>2 DEF LeftFor
<1>2. QED
  BY <1>1, SettlementAssumption, SumIsNat DEF LeftSum

LEMMA GroupsAreFinite ==
    ASSUME NEW t
    PROVE  IsFiniteSet(GroupsOf(t)) /\ Cardinality(GroupsOf(t)) \in Nat
<1>1. IsFiniteSet(GroupsOf(t))
  BY SettlementAssumption, FS_Subset DEF GroupsOf
<1>2. QED
  BY <1>1, FS_CardinalityType

(* One run moves on, and the attempts left to it change with it. *)
LEMMA LeftMoves ==
    ASSUME TypeOK, BudgetInv, NEW r \in Runs, NEW run \in Run, WithinBudget(run),
           runs' = [runs EXCEPT ![r] = run], NEW t
    PROVE  /\ \A q \in Runs : WithinBudget(runs'[q])
           /\ LeftSum(t)'
                  = LeftSum(t)
                    - (IF runs[r].trade = t THEN AttemptsLeft(runs[r]) ELSE 0)
                    + (IF run.trade = t THEN AttemptsLeft(run) ELSE 0)
<1>1. runs'[r] = run /\ \A q \in Runs : q # r => runs'[q] = runs[q]
  BY DEF TypeOK, ServiceTypeOK
<1>2. \A q \in Runs : WithinBudget(runs'[q])
  BY <1>1 DEF BudgetInv
<1> DEFINE new == [q \in Runs |-> IF runs'[q].trade = t THEN AttemptsLeft(runs'[q]) ELSE 0]
<1>3. LeftFor(t)' = new
  BY DEF LeftFor, AttemptsLeft
<1>4. /\ new[r] = IF run.trade = t THEN AttemptsLeft(run) ELSE 0
      /\ \A q \in Runs : q # r => new[q] = LeftFor(t)[q]
  BY <1>1 DEF LeftFor
<1>5. AttemptsLeft(run) \in Nat
  BY LeftIsNat
<1> HIDE DEF new
<1>6. SumFunctionOnSet(new, Runs) = LeftSum(t) - LeftFor(t)[r] + new[r]
  <2>1. new[r] \in Int /\ \A q \in Runs : LeftFor(t)[q] \in Int
    BY <1>4, <1>5, LeftForIsNat
  <2>2. QED
    BY <1>4, <2>1, SettlementAssumption, SumChanged DEF LeftSum
<1>7. LeftFor(t)[r] = IF runs[r].trade = t THEN AttemptsLeft(runs[r]) ELSE 0
  BY DEF LeftFor
<1>8. QED
  BY <1>2, <1>3, <1>4, <1>6, <1>7 DEF LeftSum

(* A step of a run either broadcasts one group of its trade and has one     *)
(* attempt fewer left, or broadcasts nothing and has no more left.          *)
LEMMA RunSpends ==
    ASSUME TypeOK, TypeOK', BudgetInv, NEW r \in Runs,
           RunStep(r) \/ WriteFails(r) \/ RunDies(r)
    PROVE  /\ runs' = [runs EXCEPT ![r] = runs'[r]] /\ WithinBudget(runs'[r])
           /\ runs'[r].trade = runs[r].trade \/ AttemptsLeft(runs'[r]) = 0
           /\ \/ /\ UNCHANGED <<txState, txTrade>>
                 /\ AttemptsLeft(runs'[r]) <= AttemptsLeft(runs[r])
              \/ /\ \E x \in Txs : Submit(x, runs[r].trade)
                 /\ runs'[r].trade = runs[r].trade
                 /\ AttemptsLeft(runs'[r]) = AttemptsLeft(runs[r]) - 1
<1> DEFINE old == runs[r]
           new == runs'[r]
           Early == {"attempt", "checking", "sending"}
           Sends == \E x \in Txs : Submit(x, old.trade)
           Same == new.trade = old.trade /\ new.attempt = old.attempt
<1>1. /\ old \in Run /\ WithinBudget(old) /\ new \in Run
      /\ runs \in [Runs -> Run] /\ runs' \in [Runs -> Run] /\ MaxRetries \in Nat
  BY SettlementAssumption DEF TypeOK, ServiceTypeOK, BudgetInv
<1>2. /\ runs' = [runs EXCEPT ![r] = new] /\ old.pc # "idle"
      /\ \/ new = IdleRun /\ UNCHANGED <<txState, txTrade>>
         \/ /\ Same /\ UNCHANGED <<txState, txTrade>>
            /\ old.pc \in Early /\ new.pc \in {"checking", "sending"}
            /\ old.attempt <= MaxRetries
         \/ /\ Same /\ UNCHANGED <<txState, txTrade>>
            /\ new.pc \notin Early \cup {"idle"} /\ old.attempt <= MaxRetries
         \/ Same /\ Sends /\ old.pc = "sending" /\ new.pc \in {"sent", "backoff"}
         \/ /\ new.trade = old.trade /\ new.attempt = old.attempt + 1
            /\ old.pc = "backoff" /\ new.pc = "attempt" /\ UNCHANGED <<txState, txTrade>>
  <2> USE <1>1 DEF Run, Goto, GotoWith, Done, rest, chainVars
  <2>1. CASE BeginAttempt(r) \/ CheckPasses(r)
    BY <2>1 DEF BeginAttempt, CheckPasses, OutOfRetries, WithinBudget
  <2>2. CASE GiveUp(r) \/ Finish(r) \/ LookupSettles(r) \/ LookupFails(r) \/ RunDies(r)
    BY <2>2 DEF GiveUp, Finish, LookupSettles, LookupFails, RunDies, IdleRun
  <2>3. CASE Broadcast(r) \/ BroadcastReplyLost(r)
    BY <2>3 DEF Broadcast, BroadcastReplyLost
  <2>4. CASE CheckFails(r) \/ BroadcastAsserts(r) \/ BroadcastRejected(r) \/ RecordTx(r)
    BY <2>4 DEF CheckFails, BroadcastAsserts, BroadcastRejected, RecordTx, WithinBudget
  <2>5. CASE WaitSucceeds(r) \/ WaitTimesOut(r) \/ WaitAsserts(r) \/ MarkSettled(r) \/ ReadTxId(r)
    BY <2>5 DEF WaitSucceeds, WaitTimesOut, WaitAsserts, MarkSettled, ReadTxId, WithinBudget
  <2>6. CASE TimerFires(r)
    BY <2>6 DEF TimerFires
  <2>7. CASE WriteFails(r)
    BY <2>7 DEF WriteFails, OutOfRetries, WithinBudget
  <2>8. QED
    BY <2>1, <2>2, <2>3, <2>4, <2>5, <2>6, <2>7 DEF RunStep
<1>3. AttemptsLeft(old) \in Nat /\ WithinBudget(IdleRun) /\ AttemptsLeft(IdleRun) = 0
  BY <1>1, LeftIsNat DEF IdleRun, WithinBudget, AttemptsLeft
<1>4. old.attempt \in Nat /\ new.attempt \in Nat
  BY <1>1 DEF Run
<1> HIDE DEF old, new
<1>5. /\ WithinBudget(new)
      /\ new.trade = old.trade \/ AttemptsLeft(new) = 0
      /\ \/ UNCHANGED <<txState, txTrade>> /\ AttemptsLeft(new) <= AttemptsLeft(old)
         \/ /\ Sends /\ new.trade = old.trade
            /\ AttemptsLeft(new) = AttemptsLeft(old) - 1
  BY <1>1, <1>2, <1>3, <1>4 DEF WithinBudget, AttemptsLeft
<1>6. QED
  BY <1>2, <1>5 DEF old, new

(* A broadcast adds one group to its trade and none to another. *)
LEMMA SubmitAdds ==
    ASSUME TypeOK, BudgetInv, NEW x \in Txs, NEW u \in Trades, Submit(x, u), NEW t \in Trades
    PROVE  Cardinality(GroupsOf(t))' = Cardinality(GroupsOf(t)) + (IF t = u THEN 1 ELSE 0)
<1>1. /\ txTrade[x] = NoTrade /\ NoTrade \notin Trades
      /\ txTrade' = [txTrade EXCEPT ![x] = u] /\ DOMAIN txTrade = Txs
  BY SettlementAssumption DEF Submit, BudgetInv, TypeOK, ServiceTypeOK
<1>2. GroupsOf(t)' = IF t = u THEN GroupsOf(t) \cup {x} ELSE GroupsOf(t)
  BY <1>1 DEF GroupsOf
<1>3. x \notin GroupsOf(t)
  BY <1>1 DEF GroupsOf
<1>4. QED
  BY <1>2, <1>3, GroupsAreFinite, FS_AddElement

LEMMA BudgetAfterRun ==
    ASSUME TypeOK, TypeOK', BudgetInv, NEW r \in Runs,
           RunStep(r) \/ WriteFails(r) \/ RunDies(r)
    PROVE  BudgetInv'
<1> DEFINE old == runs[r]
           new == runs'[r]
           Mine(t, run) == IF run.trade = t THEN AttemptsLeft(run) ELSE 0
<1>1. /\ new \in Run /\ old \in Run /\ WithinBudget(new) /\ WithinBudget(old)
      /\ runs' = [runs EXCEPT ![r] = new]
      /\ old.trade \in Trades
  <2>1. old.pc # "idle"
    BY DEF RunStep, BeginAttempt, GiveUp, CheckPasses, CheckFails,
     Broadcast, BroadcastReplyLost, BroadcastAsserts, BroadcastRejected,
     RecordTx, WaitSucceeds, WaitTimesOut, WaitAsserts, MarkSettled, Finish,
     ReadTxId, LookupSettles, LookupFails, TimerFires, WriteFails, RunDies
  <2>2. QED
    BY <2>1, RunSpends DEF TypeOK, ServiceTypeOK, BudgetInv
<1>2. AttemptsLeft(new) \in Nat /\ AttemptsLeft(old) \in Nat
  BY <1>1, LeftIsNat
<1>3. deliveries' = deliveries
  BY DEF RunStep, BeginAttempt, GiveUp, CheckPasses, CheckFails,
     Broadcast, BroadcastReplyLost, BroadcastAsserts, BroadcastRejected,
     RecordTx, WaitSucceeds, WaitTimesOut, WaitAsserts, MarkSettled, Finish,
     ReadTxId, LookupSettles, LookupFails, TimerFires, WriteFails, RunDies, rest, chainVars
<1>4. /\ new.trade = old.trade \/ AttemptsLeft(new) = 0
      /\ \/ UNCHANGED <<txState, txTrade>> /\ AttemptsLeft(new) <= AttemptsLeft(old)
         \/ /\ \E x \in Txs : Submit(x, old.trade)
            /\ new.trade = old.trade /\ AttemptsLeft(new) = AttemptsLeft(old) - 1
  BY RunSpends
<1> HIDE DEF new, old
<1>5. ASSUME NEW t \in Trades
      PROVE  /\ \A q \in Runs : WithinBudget(runs'[q])
             /\ LeftSum(t)'
                  = LeftSum(t) - Mine(t, old) + Mine(t, new)
  BY <1>1, LeftMoves DEF old
<1>6. ASSUME NEW t \in Trades
      PROVE  Cardinality(GroupsOf(t))' + LeftSum(t)'
                 <= MaxRetries * deliveries'[t]
  <2> DEFINE sum == LeftSum(t)
             groups == Cardinality(GroupsOf(t))
  <2>1. /\ sum \in Int /\ groups \in Nat
        /\ groups + sum <= MaxRetries * deliveries'[t] /\ MaxRetries * deliveries'[t] \in Int
    <3>1. MaxRetries \in Nat /\ deliveries[t] \in Nat
      BY SettlementAssumption DEF TypeOK, ServiceTypeOK
    <3>2. QED
      BY <1>3, <3>1, LeftForIsNat, GroupsAreFinite DEF BudgetInv
  <2>2. sum' = sum - Mine(t, old) + Mine(t, new)
    BY <1>5
  <2>3. CASE UNCHANGED <<txState, txTrade>> /\ AttemptsLeft(new) <= AttemptsLeft(old)
    <3>1. groups' = groups
      BY <2>3 DEF GroupsOf
    <3>2. Mine(t, new) <= Mine(t, old) /\ Mine(t, new) \in Int /\ Mine(t, old) \in Int
      BY <1>2, <1>4, <2>3
    <3> HIDE DEF sum, groups, Mine
    <3>3. groups' + sum' <= MaxRetries * deliveries'[t]
      BY <2>1, <2>2, <3>1, <3>2
    <3>4. QED
      BY <3>3 DEF groups, sum
  <2>4. ASSUME NEW x \in Txs, Submit(x, old.trade), new.trade = old.trade,
               AttemptsLeft(new) = AttemptsLeft(old) - 1
        PROVE  groups' + sum' <= MaxRetries * deliveries'[t]
    <3>1. groups' = groups + (IF t = old.trade THEN 1 ELSE 0)
      BY <1>1, <2>4, SubmitAdds
    <3>2. Mine(t, new) = Mine(t, old) - (IF t = old.trade THEN 1 ELSE 0)
      BY <1>2, <2>4
    <3>3. Mine(t, new) \in Int /\ Mine(t, old) \in Int
      BY <1>2
    <3> HIDE DEF sum, groups, Mine
    <3>4. QED
      BY <2>1, <2>2, <3>1, <3>2, <3>3
  <2>5. QED
    BY <1>4, <2>3, <2>4
<1>7. \A x \in Txs : txState'[x] = "unused" => txTrade'[x] = NoTrade
  <2>1. CASE UNCHANGED <<txState, txTrade>>
    BY <2>1 DEF BudgetInv
  <2>2. ASSUME NEW x \in Txs, Submit(x, old.trade)
        PROVE  \A y \in Txs : txState'[y] = "unused" => txTrade'[y] = NoTrade
    BY <2>2 DEF Submit, BudgetInv, TypeOK, ServiceTypeOK
  <2>3. QED
    BY <1>4, <2>1, <2>2
<1>8. \A q \in Runs : WithinBudget(runs'[q])
  BY <1>1, <1>5
<1>9. QED
  BY <1>6, <1>7, <1>8 DEF BudgetInv

(* A delivery brings the attempts that its run may spend. *)
LEMMA BudgetAfterDeliver ==
    ASSUME TypeOK, BudgetInv, NEW r \in Runs, NEW u \in Trades, Deliver(r, u)
    PROVE  BudgetInv'
<1> DEFINE new == [pc |-> "attempt", trade |-> u, attempt |-> 1, tx |-> NoTx]
<1>1. /\ runs' = [runs EXCEPT ![r] = new] /\ runs[r].pc = "idle"
      /\ deliveries' = [deliveries EXCEPT ![u] = deliveries[u] + 1]
      /\ UNCHANGED <<txState, txTrade>>
  BY DEF Deliver, chainVars
<1>2. MaxRetries \in Nat /\ NoTrade \notin Trades
  BY SettlementAssumption
<1>3. /\ new \in Run /\ WithinBudget(new) /\ AttemptsLeft(new) = MaxRetries /\ new.trade = u
      /\ AttemptsLeft(runs[r]) = 0
  BY <1>1, <1>2 DEF Run, PC, WithinBudget, AttemptsLeft
<1> HIDE DEF new
<1>4. ASSUME NEW t \in Trades
      PROVE  /\ \A q \in Runs : WithinBudget(runs'[q])
             /\ LeftSum(t)'
                  = LeftSum(t) + (IF t = u THEN MaxRetries ELSE 0)
  <2>1. LeftSum(t) \in Int
    BY LeftForIsNat
  <2>2. /\ \A q \in Runs : WithinBudget(runs'[q])
        /\ LeftSum(t)'
             = LeftSum(t)
               - (IF runs[r].trade = t THEN AttemptsLeft(runs[r]) ELSE 0)
               + (IF new.trade = t THEN AttemptsLeft(new) ELSE 0)
    <3>1. runs' = [runs EXCEPT ![r] = new] /\ new \in Run /\ WithinBudget(new)
      BY <1>1, <1>3
    <3>2. \A run \in Run : WithinBudget(run) /\ runs' = [runs EXCEPT ![r] = run] =>
              /\ \A q \in Runs : WithinBudget(runs'[q])
              /\ LeftSum(t)' = LeftSum(t)
                    - (IF runs[r].trade = t THEN AttemptsLeft(runs[r]) ELSE 0)
                    + (IF run.trade = t THEN AttemptsLeft(run) ELSE 0)
      BY LeftMoves
    <3>3. QED
      BY <3>1, <3>2
  <2>3. QED
    BY <1>2, <1>3, <2>1, <2>2
<1>5. ASSUME NEW t \in Trades
      PROVE  Cardinality(GroupsOf(t))' + LeftSum(t)'
                 <= MaxRetries * deliveries'[t]
  <2> DEFINE sum == LeftSum(t)
             groups == Cardinality(GroupsOf(t))
  <2>1. groups' = groups /\ groups \in Nat
    BY <1>1, GroupsAreFinite DEF GroupsOf
  <2>2. sum' = sum + (IF t = u THEN MaxRetries ELSE 0) /\ sum \in Nat
    BY <1>4, LeftForIsNat
  <2>3. deliveries'[t] = deliveries[t] + (IF t = u THEN 1 ELSE 0) /\ deliveries[t] \in Nat
    BY <1>1 DEF TypeOK, ServiceTypeOK
  <2>4. groups + sum <= MaxRetries * deliveries[t]
    BY DEF BudgetInv
  <2> HIDE DEF sum, groups
  <2>5. MaxRetries * deliveries'[t] = MaxRetries * deliveries[t] + (IF t = u THEN MaxRetries ELSE 0)
    BY <1>2, <2>3
  <2>6. MaxRetries * deliveries[t] \in Int
    BY <1>2, <2>3
  <2>7. groups' + sum' <= MaxRetries * deliveries'[t]
    BY <1>2, <2>1, <2>2, <2>4, <2>5, <2>6
  <2>8. QED
    BY <2>7 DEF sum, groups
<1>6. \A q \in Runs : WithinBudget(runs'[q])
  BY <1>4
<1>7. QED
  BY <1>1, <1>5, <1>6 DEF BudgetInv

LEMMA BudgetStep ==
    ASSUME TypeOK, TypeOK', BudgetInv, [Next]_vars
    PROVE  BudgetInv'
<1>1. CASE UNCHANGED <<runs, deliveries, txTrade>> /\ \A x \in Txs : txState'[x] = "unused" => txState[x] = "unused"
  BY <1>1 DEF BudgetInv, WithinBudget, GroupsOf, LeftSum, LeftFor, AttemptsLeft
<1>2. CASE Crash
  <2>1. /\ runs' = [r \in Runs |-> IdleRun] /\ UNCHANGED <<deliveries, txState, txTrade>>
    BY <1>2 DEF Crash, rest, chainVars
  <2>2. ASSUME NEW t \in Trades
        PROVE  LeftSum(t)' = 0
    <3> DEFINE new == [q \in Runs |-> IF runs'[q].trade = t THEN AttemptsLeft(runs'[q]) ELSE 0]
    <3>1. LeftFor(t)' = new
      BY DEF LeftFor, AttemptsLeft
    <3>2. \A q \in Runs : new[q] = 0
      BY <2>1 DEF IdleRun, AttemptsLeft
    <3> HIDE DEF new
    <3>3. SumFunctionOnSet(new, Runs) = 0
      BY <3>2, SettlementAssumption, SumOfZeros
    <3>4. QED
      BY <3>1, <3>3 DEF LeftSum
  <2>3. ASSUME NEW t \in Trades
        PROVE  Cardinality(GroupsOf(t))' + LeftSum(t)'
                   <= MaxRetries * deliveries'[t]
    <3>1. GroupsOf(t)' = GroupsOf(t)
      BY <2>1 DEF GroupsOf
    <3>2. /\ MaxRetries * deliveries[t] \in Int
          /\ Cardinality(GroupsOf(t)) + LeftSum(t) <= MaxRetries * deliveries[t]
      <4>1. MaxRetries \in Nat /\ deliveries[t] \in Nat
        BY SettlementAssumption DEF TypeOK, ServiceTypeOK
      <4>2. QED
        BY <4>1 DEF BudgetInv
    <3>3. Cardinality(GroupsOf(t)) \in Nat /\ LeftSum(t) \in Nat
      BY GroupsAreFinite, LeftForIsNat
    <3>4. QED
      BY <2>1, <2>2, <3>1, <3>2, <3>3
  <2>4. \A q \in Runs : WithinBudget(runs'[q])
    BY <2>1 DEF IdleRun, WithinBudget
  <2>5. QED
    BY <2>1, <2>3, <2>4 DEF BudgetInv
<1>3. ASSUME NEW x \in Txs, TxStep(x)
      PROVE  BudgetInv'
  BY <1>1, <1>3 DEF TxStep, Confirm, Reject, Drop, TypeOK, ServiceTypeOK
<1>4. CASE EscrowUsed \/ \E t \in Trades : BuyerOptsIn(t)
  BY <1>1, <1>4 DEF EscrowUsed, BuyerOptsIn, chainVars
<1>5. CASE UNCHANGED vars
  BY <1>1, <1>5 DEF vars, chainVars
<1>6. QED
  BY <1>2, <1>3, <1>4, <1>5, BudgetAfterDeliver, BudgetAfterRun DEF Next

LEMMA BudgetFromInit == Init => BudgetInv
<1> SUFFICES ASSUME Init PROVE BudgetInv
  OBVIOUS
<1>1. /\ \A r \in Runs : runs[r] = IdleRun
      /\ \A x \in Txs : txTrade[x] = NoTrade
      /\ \A t \in Trades : deliveries[t] = 0
      /\ MaxRetries \in Nat /\ NoTrade \notin Trades
  BY SettlementAssumption DEF Init
<1>2. ASSUME NEW t \in Trades
      PROVE  Cardinality(GroupsOf(t)) = 0 /\ LeftSum(t) = 0
  <2>1. GroupsOf(t) = {}
    BY <1>1 DEF GroupsOf
  <2>2. \A r \in Runs : LeftFor(t)[r] = 0
    BY <1>1 DEF LeftFor, IdleRun, AttemptsLeft
  <2>3. QED
    BY <2>1, <2>2, SettlementAssumption, SumOfZeros, FS_EmptySet DEF LeftSum
<1>3. QED
  BY <1>1, <1>2 DEF BudgetInv, WithinBudget, IdleRun

(* One delivery of a trade broadcasts at most SETTLEMENT_MAX_RETRIES        *)
(* groups, over lost replies, failed writes, restarts and runs that work    *)
(* for one trade at once, for any number of runs and any limit.             *)
THEOREM RetriesAreBounded == Spec => []RetryBudget
<1>1. TypeOK /\ BudgetInv => RetryBudget
  <2> SUFFICES ASSUME TypeOK, BudgetInv, NEW t \in Trades
               PROVE  Cardinality(GroupsOf(t)) <= MaxRetries * deliveries[t]
    BY DEF RetryBudget, GroupsOf
  <2>1. MaxRetries \in Nat /\ deliveries[t] \in Nat
    BY SettlementAssumption DEF TypeOK, ServiceTypeOK
  <2>2. MaxRetries * deliveries[t] \in Int
    BY <2>1
  <2>3. QED
    BY <2>2, LeftForIsNat, GroupsAreFinite DEF BudgetInv
<1>2. QED
  BY <1>1, BudgetFromInit, BudgetStep, TypeCorrect, PTL DEF Spec
-----------------------------------------------------------------------------
(* Progress, as far as it is a matter of safety: a run does not turn back,  *)
(* and a trade that is not closed has a run.                                *)

LEMMA DistanceTyped ==
    ASSUME NEW run \in Run, WithinBudget(run), run.pc # "idle"
    PROVE  /\ Ahead[run.pc] \in 1..8
           /\ ToGo(run) = 9 * (MaxRetries + 1 - run.attempt) + Ahead[run.pc]
           /\ ToGo(run) \in Nat \ {0}
<1>1. run.pc \in PC \ {"idle"} /\ run.attempt \in Nat /\ MaxRetries \in Nat
  BY SettlementAssumption DEF Run
<1>2. run.attempt <= MaxRetries + 1
  BY <1>1 DEF WithinBudget
<1>3. Ahead[run.pc] \in 1..8
  BY <1>1 DEF PC, Ahead
<1>4. ToGo(run) = 9 * (MaxRetries + 1 - run.attempt) + Ahead[run.pc]
  BY <1>1 DEF ToGo
<1>5. QED
  BY <1>1, <1>2, <1>3, <1>4

(* A later await of the same attempt is nearer to the end. *)
LEMMA LaterIsNearer ==
    ASSUME NEW old \in Run, WithinBudget(old), old.pc # "idle",
           NEW new \in Run, WithinBudget(new), new.pc # "idle",
           \/ new.attempt = old.attempt /\ Ahead[new.pc] < Ahead[old.pc]
           \/ new.attempt = old.attempt + 1
    PROVE  ToGo(new) \in 0..(ToGo(old) - 1)
<1>1. /\ MaxRetries \in Nat /\ old.attempt \in Nat /\ new.attempt \in Nat
      /\ old.attempt <= MaxRetries + 1 /\ new.attempt <= MaxRetries + 1
  BY SettlementAssumption DEF Run, WithinBudget
<1>2. /\ Ahead[old.pc] \in 1..8 /\ Ahead[new.pc] \in 1..8
      /\ ToGo(old) = 9 * (MaxRetries + 1 - old.attempt) + Ahead[old.pc]
      /\ ToGo(new) = 9 * (MaxRetries + 1 - new.attempt) + Ahead[new.pc]
      /\ ToGo(old) \in Nat \ {0} /\ ToGo(new) \in Nat \ {0}
  BY DistanceTyped
<1> HIDE DEF Ahead, ToGo
<1>3. ToGo(new) < ToGo(old)
  BY <1>1, <1>2
<1>4. QED
  BY <1>2, <1>3

LEMMA RunDescends ==
    ASSUME TypeOK, TypeOK', BudgetInv, BudgetInv', NEW r \in Runs,
           RunStep(r) \/ WriteFails(r) \/ RunDies(r)
    PROVE  /\ runs[r].pc # "idle"
           /\ \A q \in Runs : q # r => runs'[q] = runs[q]
           /\ ToGo(runs'[r]) \in 0..(ToGo(runs[r]) - 1)
<1> DEFINE old == runs[r]
           new == runs'[r]
<1>1. /\ old \in Run /\ WithinBudget(old) /\ new \in Run /\ WithinBudget(new)
      /\ runs \in [Runs -> Run]
  BY DEF TypeOK, ServiceTypeOK, BudgetInv
<1>2. runs' = [runs EXCEPT ![r] = new]
  BY RunSpends
<1>3. /\ old.pc # "idle"
      /\ \/ new = IdleRun
         \/ /\ new.pc # "idle" /\ new.attempt = old.attempt
            /\ Ahead[new.pc] < Ahead[old.pc]
         \/ new.pc # "idle" /\ new.attempt = old.attempt + 1
  <2> USE <1>1 DEF Run, Goto, GotoWith, Done, PC, Ahead
  <2>1. CASE BeginAttempt(r) \/ CheckPasses(r) \/ CheckFails(r)
    BY <2>1 DEF BeginAttempt, CheckPasses, CheckFails
  <2>2. CASE GiveUp(r) \/ Finish(r) \/ LookupSettles(r) \/ LookupFails(r) \/ RunDies(r)
    BY <2>2 DEF GiveUp, Finish, LookupSettles, LookupFails, RunDies
  <2>3. CASE Broadcast(r)
    BY <2>3 DEF Broadcast
  <2>4. CASE BroadcastReplyLost(r) \/ BroadcastAsserts(r) \/ BroadcastRejected(r)
    BY <2>4 DEF BroadcastReplyLost, BroadcastAsserts, BroadcastRejected
  <2>5. CASE RecordTx(r) \/ WaitSucceeds(r) \/ WaitTimesOut(r) \/ WaitAsserts(r)
    BY <2>5 DEF RecordTx, WaitSucceeds, WaitTimesOut, WaitAsserts
  <2>6. CASE MarkSettled(r) \/ ReadTxId(r)
    BY <2>6 DEF MarkSettled, ReadTxId
  <2>7. CASE TimerFires(r)
    BY <2>7 DEF TimerFires
  <2>8. CASE WriteFails(r)
    BY <2>8 DEF WriteFails
  <2>9. QED
    BY <2>1, <2>2, <2>3, <2>4, <2>5, <2>6, <2>7, <2>8 DEF RunStep
<1>4. ToGo(new) \in 0..(ToGo(old) - 1)
  <2> HIDE DEF old, new
  <2>1. ToGo(old) \in Nat \ {0} /\ ToGo(IdleRun) = 0
    BY <1>1, <1>3, DistanceTyped DEF ToGo, IdleRun
  <2>2. CASE new = IdleRun
    BY <2>1, <2>2
  <2>3. CASE new.pc # "idle"
    BY <1>1, <1>3, <2>3, LaterIsNearer DEF IdleRun
  <2>4. QED
    BY <1>3, <2>2, <2>3
<1>5. QED
  BY <1>1, <1>2, <1>3, <1>4

(* A run takes at most 9 * SETTLEMENT_MAX_RETRIES + 8 steps: every step it  *)
(* takes, its catch block and its timers included, brings it nearer to its  *)
(* end, under any faults.                                                   *)
THEOREM RunsNeverTurnBack == Spec => RunsMoveOn
<1> DEFINE MovesOn ==
      \A r \in Runs : runs[r].pc # "idle" /\ runs'[r] # runs[r] =>
          ToGo(runs'[r]) \in 0..(ToGo(runs[r]) - 1)
<1>1. ASSUME TypeOK, TypeOK', BudgetInv, BudgetInv', [Next]_vars
      PROVE  MovesOn
  <2>1. CASE UNCHANGED runs
    BY <2>1
  <2>2. ASSUME NEW q \in Runs, NEW t \in Trades, Deliver(q, t)
        PROVE  MovesOn
    BY <2>2 DEF Deliver, TypeOK, ServiceTypeOK
  <2>3. ASSUME NEW q \in Runs, RunStep(q) \/ WriteFails(q) \/ RunDies(q)
        PROVE  MovesOn
    BY <1>1, <2>3, RunDescends
  <2>4. CASE Crash
    <3> SUFFICES ASSUME NEW r \in Runs, runs[r].pc # "idle"
                 PROVE  ToGo(runs'[r]) \in 0..(ToGo(runs[r]) - 1)
      OBVIOUS
    <3>1. ToGo(runs[r]) \in Nat \ {0}
      BY <1>1, DistanceTyped DEF TypeOK, ServiceTypeOK, BudgetInv
    <3>2. ToGo(runs'[r]) = 0
      BY <2>4 DEF Crash, IdleRun, ToGo
    <3>3. QED
      BY <3>1, <3>2
  <2>5. CASE \/ \E x \in Txs : TxStep(x)
             \/ \E t \in Trades : BuyerOptsIn(t)
             \/ EscrowUsed \/ UNCHANGED vars
    BY <2>1, <2>5 DEF TxStep, Confirm, Reject, Drop, BuyerOptsIn, EscrowUsed, vars
  <2>6. QED
    BY <1>1, <2>2, <2>3, <2>4, <2>5 DEF Next
<1>2. Spec => []BudgetInv
  BY BudgetFromInit, BudgetStep, TypeCorrect, PTL DEF Spec
<1>3. QED
  BY <1>1, <1>2, TypeCorrect, PTL DEF Spec, RunsMoveOn

(* What a run that goes on does to the row of its trade, and what it leaves *)
(* behind when it ends.                                                     *)
AtWork(run, t) == run.trade = t /\ run.pc \notin {"idle", "finishing"}

LEMMA RunsCloseRows ==
    ASSUME TypeOK, TypeOK', NEW r \in Runs, RunStep(r)
    PROVE  /\ \A q \in Runs : q # r => runs'[q] = runs[q]
           /\ UNCHANGED deliveries
           /\ \A t \in Trades : t # runs[r].trade => record'[t] = record[t]
           /\ \/ AtWork(runs'[r], runs[r].trade)
              \/ record'[runs[r].trade].status \in {"SETTLED", "FAILED"}
              \/ runs[r].pc = "finishing" /\ UNCHANGED record
<1>1. /\ runs[r] \in Run /\ runs \in [Runs -> Run] /\ record \in [Trades -> Row]
      /\ runs[r].pc # "idle" => runs[r].trade \in Trades
  BY DEF TypeOK, ServiceTypeOK
<1> USE <1>1 DEF Run, Row, Goto, GotoWith, Done, rest, SetStatus, SetStatusTx, SetFailed, AtWork,
        Terminal
<1>2. CASE BeginAttempt(r) \/ CheckPasses(r) \/ CheckFails(r)
  BY <1>2 DEF BeginAttempt, CheckPasses, CheckFails
<1>3. CASE GiveUp(r)
  BY <1>3 DEF GiveUp
<1>4. CASE LookupFails(r)
  BY <1>4 DEF LookupFails, CloseFailed
<1>5. CASE Finish(r)
  BY <1>5 DEF Finish
<1>6. CASE Broadcast(r) \/ BroadcastReplyLost(r)
  BY <1>6 DEF Broadcast, BroadcastReplyLost
<1>7. CASE BroadcastAsserts(r) \/ BroadcastRejected(r)
  BY <1>7 DEF BroadcastAsserts, BroadcastRejected
<1>8. CASE RecordTx(r)
  BY <1>8 DEF RecordTx
<1>9. CASE WaitSucceeds(r) \/ WaitTimesOut(r) \/ WaitAsserts(r)
  BY <1>9 DEF WaitSucceeds, WaitTimesOut, WaitAsserts
<1>10. CASE MarkSettled(r)
  BY <1>10 DEF MarkSettled
<1>11. CASE ReadTxId(r) \/ TimerFires(r)
  BY <1>11 DEF ReadTxId, TimerFires
<1>12. CASE LookupSettles(r)
  BY <1>12 DEF LookupSettles
<1>13. QED
  BY <1>2, <1>3, <1>4, <1>5, <1>6, <1>7, <1>8, <1>9, <1>10, <1>11, <1>12 DEF RunStep

ProcessLives == {"crash", "db"} \cap Faults = {}

(* While the process and its database live, a delivered trade is closed or  *)
(* has a run at work, however many runs of it overlap and however they end. *)
THEOREM OpenTradesAreWorkedOn == ProcessLives => (Spec => []OpenTradesHaveARun)
<1> SUFFICES ASSUME ProcessLives PROVE Spec => []OpenTradesHaveARun
  OBVIOUS
<1> DEFINE Inv == ProcessLives /\ OpenTradesHaveARun
<1>1. Init => OpenTradesHaveARun
  BY DEF Init, OpenTradesHaveARun
<1>2. ASSUME ProcessLives, TypeOK, TypeOK', OpenTradesHaveARun, [Next]_vars
      PROVE  OpenTradesHaveARun'
  <2> USE DEF OpenTradesHaveARun, AtWork
  <2>1. CASE UNCHANGED <<runs, deliveries, record>>
    BY <1>2, <2>1 DEF Terminal
  <2>2. ASSUME NEW r \in Runs, NEW u \in Trades, Deliver(r, u)
        PROVE  OpenTradesHaveARun'
    <3>1. /\ runs[r].pc = "idle" /\ runs \in [Runs -> Run] /\ record \in [Trades -> Row]
          /\ deliveries \in [Trades -> Nat]
      BY <1>2, <2>2 DEF Deliver, TypeOK, ServiceTypeOK
    <3>2. /\ AtWork(runs'[r], u)
          /\ \A q \in Runs : q # r => runs'[q] = runs[q]
          /\ \A t \in Trades : t # u => record'[t] = record[t] /\ deliveries'[t] = deliveries[t]
      BY <2>2, <3>1 DEF Deliver
    <3>3. QED
      BY <1>2, <3>1, <3>2 DEF Terminal
  <2>3. ASSUME NEW r \in Runs, RunStep(r)
        PROVE  OpenTradesHaveARun'
    BY <1>2, <2>3, RunsCloseRows DEF Terminal
  <2>4. ~Crash /\ \A r \in Runs : ~WriteFails(r) /\ ~RunDies(r)
    BY <1>2 DEF ProcessLives, Crash, WriteFails, RunDies
  <2>5. CASE \/ \E x \in Txs : TxStep(x)
             \/ \E t \in Trades : BuyerOptsIn(t)
             \/ EscrowUsed \/ UNCHANGED vars
    BY <2>1, <2>5 DEF TxStep, Confirm, Reject, Drop, BuyerOptsIn, EscrowUsed, vars
  <2>6. QED
    BY <1>2, <2>2, <2>3, <2>4, <2>5 DEF Next
<1>3. ProcessLives /\ TypeOK /\ TypeOK' /\ OpenTradesHaveARun /\ [Next]_vars
          => OpenTradesHaveARun'
  BY <1>2
<1>4. QED
  BY <1>1, <1>3, TypeCorrect, PTL DEF Spec
=============================================================================
