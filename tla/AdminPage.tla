---------------------------- MODULE AdminPage ----------------------------
(***************************************************************************)
(* The administrators' page (apps/web admin/page.tsx) for one asset: its   *)
(* card, the review modal, which posts a decision per stage, one after the *)
(* other, and the buttons that deploy and activate.  What a page shows is  *)
(* as old as its last loadData.  The asset service is reduced to what the  *)
(* page can tell; Issuance has the whole of it.                            *)
(***************************************************************************)
EXTENDS Integers, FiniteSets

CONSTANTS Admins, NoAsset0, NoReview,
          LastStage,      \* bound: 5 in the code
          MaxCalls        \* bound: requests in progress

VARIABLES
    asset,       \* the row: status, verification, escrow, and whether it has an asaId
    logged,      \* verificationLogs: stage and decision
    card,        \* of an administrator: the asset as loadData read it, or NoAsset0
    review,      \* reviewAsset, the snapshot the modal works on, or NoReview
    plan,        \* stageDecisions
    asking,      \* rejectConfirm
    loop,        \* doSubmitReview: the stage it is at, 0 when it does not run
    waiting,     \* it waits for the answer to that stage
    submitted,   \* review, plan and confirmation that the loop captured
    calls,       \* requests in progress in the service
    returned     \* how the issuer's USDC was returned: "no", "confirmed", "unasked"

adminVars == <<asset, logged, card, review, plan, asking, loop, waiting, submitted, calls,
               returned>>
modalVars == <<review, plan, asking, loop, waiting, submitted>>

Stages == 1..LastStage
AllApproved == [s \in Stages |-> "APPROVED"]
NothingSubmitted == [review |-> NoReview, plan |-> AllApproved, confirmed |-> FALSE]

AdminInit ==
    /\ asset = [status |-> "SUBMITTED", verification |-> "PENDING", escrow |-> "PENDING", asa |-> FALSE]
    /\ logged = {}
    /\ card = [a \in Admins |-> NoAsset0]
    /\ review = [a \in Admins |-> NoReview]
    /\ plan = [a \in Admins |-> AllApproved]
    /\ asking = [a \in Admins |-> FALSE]
    /\ loop = [a \in Admins |-> 0] /\ waiting = [a \in Admins |-> FALSE]
    /\ submitted = [a \in Admins |-> NothingSubmitted]
    /\ calls = {} /\ returned = "no"

(* A rejected asset is not listed. *)
Listed0 == IF asset.status = "REJECTED" THEN NoAsset0
           ELSE [verification |-> asset.verification, escrow |-> asset.escrow,
                 asa |-> asset.asa, status |-> asset.status, logs |-> logged]

LoadData(a) ==
    /\ card' = [card EXCEPT ![a] = Listed0]
    /\ card' # card
    /\ UNCHANGED <<asset, logged, modalVars, calls, returned>>

DecisionOf(snapshot, s) ==
    IF <<s, "REJECTED">> \in snapshot.logs THEN "REJECTED" ELSE "APPROVED"

OpenReview(a) ==
    /\ card[a] # NoAsset0 /\ card[a].verification # "APPROVED"
    /\ review[a] = NoReview /\ loop[a] = 0
    /\ review' = [review EXCEPT ![a] = card[a]]
    /\ plan' = [plan EXCEPT ![a] = [s \in Stages |-> DecisionOf(card[a], s)]]
    /\ UNCHANGED <<asset, logged, card, asking, loop, waiting, submitted, calls, returned>>

Open(snapshot, s) == \A d \in {"APPROVED", "REJECTED"} : <<s, d>> \notin snapshot.logs

Decide(a, s) ==
    /\ review[a] # NoReview /\ ~asking[a]
    /\ Open(review[a], s)
    /\ plan' = [plan EXCEPT ![a][s] = IF @ = "APPROVED" THEN "REJECTED" ELSE "APPROVED"]
    /\ UNCHANGED <<asset, logged, card, review, asking, loop, waiting, submitted, calls, returned>>

CloseReview(a) ==
    /\ review[a] # NoReview /\ ~asking[a]
    /\ review' = [review EXCEPT ![a] = NoReview]
    /\ plan' = [plan EXCEPT ![a] = AllApproved]
    /\ UNCHANGED <<asset, logged, card, asking, loop, waiting, submitted, calls, returned>>

(* Fault: the first open stage decides whether it asks. *)
AsksFirst_FirstOpen(a) ==
    \E s \in Stages :
        /\ Open(review[a], s) /\ plan[a][s] = "REJECTED"
        /\ \A t \in 1..(s - 1) : ~Open(review[a], t)
        /\ review[a].escrow = "PENDING"

(* submitReview asks before a rejection that will return the deposit, as   *)
(* far as the snapshot tells.                                              *)
AsksFirst(a) ==
    \E s \in Stages :
        Open(review[a], s) /\ plan[a][s] = "REJECTED" /\ review[a].escrow = "PENDING"

StartLoop(a, confirmed) ==
    /\ loop' = [loop EXCEPT ![a] = 1]
    /\ submitted' = [submitted EXCEPT ![a] =
           [review |-> review[a], plan |-> plan[a], confirmed |-> confirmed]]

SubmitReview(a) ==
    /\ review[a] # NoReview /\ ~asking[a] /\ loop[a] = 0
    /\ IF AsksFirst(a)
       THEN /\ asking' = [asking EXCEPT ![a] = TRUE]
            /\ UNCHANGED <<loop, submitted>>
       ELSE /\ StartLoop(a, FALSE)
            /\ UNCHANGED asking
    /\ UNCHANGED <<asset, logged, card, review, plan, waiting, calls, returned>>

Confirm(a) ==
    /\ asking[a]
    /\ asking' = [asking EXCEPT ![a] = FALSE]
    /\ StartLoop(a, TRUE)
    /\ UNCHANGED <<asset, logged, card, review, plan, waiting, calls, returned>>

Dismiss(a) ==
    /\ asking[a]
    /\ asking' = [asking EXCEPT ![a] = FALSE]
    /\ UNCHANGED <<asset, logged, card, review, plan, loop, waiting, submitted, calls, returned>>

NewCall(a, kind, s, decision, confirmed) ==
    /\ Cardinality(calls) < MaxCalls
    /\ calls' = calls \cup {[admin |-> a, kind |-> kind, stage |-> s, decision |-> decision,
                             confirmed |-> confirmed, step |-> "read", escrow |-> "PENDING",
                             awaited |-> TRUE]}

(* doSubmitReview: a stage the snapshot has a log of is passed over, every *)
(* other is posted, also after one that was rejected.                      *)
PostStage(a) ==
    /\ loop[a] \in Stages /\ ~waiting[a]
    /\ IF Open(submitted[a].review, loop[a])
       THEN /\ NewCall(a, "stage", loop[a], submitted[a].plan[loop[a]], submitted[a].confirmed)
            /\ waiting' = [waiting EXCEPT ![a] = TRUE]
            /\ UNCHANGED loop
       ELSE /\ loop' = [loop EXCEPT ![a] = @ + 1]
            /\ UNCHANGED <<waiting, calls>>
    /\ UNCHANGED <<asset, logged, card, review, plan, asking, submitted, returned>>

(* The loop has ended: loadData.  The modal keeps its snapshot, and its    *)
(* Submit button: reviewResult waits for a transaction id that the service *)
(* does not answer with.                                                   *)
EndLoop(a) ==
    /\ loop[a] > LastStage
    /\ loop' = [loop EXCEPT ![a] = 0]
    /\ submitted' = [submitted EXCEPT ![a] = NothingSubmitted]
    /\ card' = [card EXCEPT ![a] = Listed0]
    /\ UNCHANGED <<asset, logged, review, plan, asking, waiting, calls, returned>>

(* deployAsa, activateMarket: the button of an action is disabled while    *)
(* the page waits for it, which it does for 180 seconds.                   *)
Click(a, kind) ==
    /\ card[a] # NoAsset0
    /\ \/ kind = "deploy" /\ card[a].verification = "APPROVED" /\ ~card[a].asa
       \/ kind = "activate" /\ card[a].status = "PRE_MARKET"
    /\ \A c \in calls : c.admin = a => ~c.awaited
    /\ NewCall(a, kind, 0, "APPROVED", FALSE)
    /\ UNCHANGED <<asset, logged, card, modalVars, returned>>

-----------------------------------------------------------------------------
(* The service.  A call goes on at its next step. *)
To(c, step) == calls' = (calls \ {c}) \cup {[c EXCEPT !.step = step]}

(* findById, and the guards of deployAsaToMainnet and activateMarket. *)
ReadAsset(c) ==
    /\ c.step = "read"
    /\ CASE c.kind = "stage" ->
              calls' = (calls \ {c}) \cup {[c EXCEPT !.step = "log", !.escrow = asset.escrow]}
         [] c.kind = "deploy" ->
              To(c, IF asset.verification = "APPROVED" /\ ~asset.asa THEN "write" ELSE "failed")
         [] c.kind = "activate" ->
              IF asset.status = "PRE_MARKET" /\ asset.asa
              THEN calls' = (calls \ {c}) \cup {[c EXCEPT !.step = "write", !.escrow = asset.escrow]}
              ELSE To(c, "failed")
    /\ UNCHANGED <<asset, logged, card, modalVars, returned>>

AddLog(c) ==
    /\ c.step = "log"
    /\ logged' = logged \cup {<<c.stage, c.decision>>}
    /\ To(c, "write")
    /\ UNCHANGED <<asset, card, modalVars, returned>>

(* The row's update after a decision: any rejection, or an approval of the *)
(* last stage; then the return, for a deposit the row had as PENDING.      *)
WriteDecision(c) ==
    /\ c.kind = "stage" /\ c.step = "write"
    /\ asset' = IF c.decision = "REJECTED"
                THEN [asset EXCEPT !.verification = "REJECTED", !.status = "REJECTED"]
                ELSE IF c.stage = LastStage THEN [asset EXCEPT !.verification = "APPROVED"]
                ELSE asset
    /\ To(c, IF c.decision = "REJECTED" /\ c.escrow = "PENDING" THEN "return" ELSE "answered")
    /\ UNCHANGED <<logged, card, modalVars, returned>>

(* The escrow contract pays, for another time as well, or refuses. *)
Return0(c) ==
    /\ c.step = "return"
    /\ \/ /\ returned' = IF c.confirmed /\ returned # "unasked" THEN "confirmed" ELSE "unasked"
          /\ To(c, "save")
       \/ /\ To(c, "answered")
          /\ UNCHANGED returned
    /\ UNCHANGED <<asset, logged, card, modalVars>>

SaveReturn(c) ==
    /\ c.step = "save"
    /\ asset' = [asset EXCEPT !.escrow = "RETURNED_TO_ISSUER"]
    /\ To(c, "answered")
    /\ UNCHANGED <<logged, card, modalVars, returned>>

WriteDeployed(c) ==
    /\ c.kind = "deploy" /\ c.step = "write"
    /\ asset' = [asset EXCEPT !.asa = TRUE, !.status = "PRE_MARKET"]
    /\ To(c, "answered")
    /\ UNCHANGED <<logged, card, modalVars, returned>>

(* A deposit the call read as PENDING is released and the row says so,     *)
(* whoever was paid meanwhile; then the market is listed, or not: the call *)
(* may end between the two.                                                *)
WriteActive(c) ==
    /\ c.kind = "activate" /\ c.step = "write"
    /\ \E listed \in BOOLEAN :
          /\ asset' = [escrow |-> IF c.escrow = "PENDING" THEN "RELEASED_TO_VAULT" ELSE asset.escrow,
                       status |-> IF listed THEN "ACTIVE" ELSE asset.status,
                       verification |-> asset.verification, asa |-> asset.asa]
          /\ To(c, IF listed THEN "answered" ELSE "failed")
    /\ UNCHANGED <<logged, card, modalVars, returned>>

(* Anything the service awaits may throw, and the process may stop. *)
CallFails0(c) ==
    /\ c.step \notin {"answered", "failed"}
    /\ To(c, "failed")
    /\ UNCHANGED <<asset, logged, card, modalVars, returned>>

-----------------------------------------------------------------------------
(* An answer: the loop goes on to the next stage or, on an error, stops.   *)
Answered0(c) ==
    /\ c.step \in {"answered", "failed"}
    /\ calls' = calls \ {c}
    /\ IF c.kind = "stage" /\ c.awaited
       THEN /\ waiting' = [waiting EXCEPT ![c.admin] = FALSE]
            /\ loop' = [loop EXCEPT ![c.admin] = IF c.step = "failed" THEN 0 ELSE @ + 1]
            /\ UNCHANGED card
       ELSE /\ card' = IF c.awaited /\ c.step = "answered"
                       THEN [card EXCEPT ![c.admin] = Listed0] ELSE card
            /\ UNCHANGED <<waiting, loop>>
    /\ UNCHANGED <<asset, logged, review, plan, asking, submitted, returned>>

(* The page stops waiting, after 10 or 180 seconds; the service goes on.   *)
TimesOut0(c) ==
    /\ c.awaited /\ c.step \notin {"answered", "failed"}
    /\ calls' = (calls \ {c}) \cup {[c EXCEPT !.awaited = FALSE]}
    /\ IF c.kind = "stage"
       THEN /\ waiting' = [waiting EXCEPT ![c.admin] = FALSE]
            /\ loop' = [loop EXCEPT ![c.admin] = 0]
       ELSE UNCHANGED <<waiting, loop>>
    /\ UNCHANGED <<asset, logged, card, review, plan, asking, submitted, returned>>

AdminNext ==
    \/ \E a \in Admins :
          \/ LoadData(a) \/ OpenReview(a) \/ CloseReview(a) \/ SubmitReview(a) \/ Confirm(a)
          \/ Dismiss(a) \/ PostStage(a) \/ EndLoop(a)
          \/ \E s \in Stages : Decide(a, s)
          \/ Click(a, "deploy") \/ Click(a, "activate")
    \/ \E c \in calls :
          \/ ReadAsset(c) \/ AddLog(c) \/ WriteDecision(c) \/ Return0(c) \/ SaveReturn(c)
          \/ WriteDeployed(c) \/ WriteActive(c) \/ CallFails0(c) \/ Answered0(c) \/ TimesOut0(c)

AdminSpec == AdminInit /\ [][AdminNext]_adminVars

-----------------------------------------------------------------------------
(* Two administrators review from snapshots of any age, and calls fail or  *)
(* are answered late: the issuer's deposit is never returned by a review   *)
(* that did not ask first, because a deposit that a snapshot does not have *)
(* as PENDING is never PENDING again, although the contract would pay it   *)
(* out as often as it is called (admin/page.tsx:105).                      *)
ReturnsAreConfirmed == returned # "unasked"
=============================================================================
