----------------------------- MODULE MCPortal -----------------------------
(* The parts around the contracts, which share no state: each behaviour is *)
(* one of one part, chosen at the start, and every part is cut down to the *)
(* case its instance is about.                                             *)
EXTENDS Kyc, Whitelist, LiquidityPanel, LaunchWizard, AdminPage, IssuerDesk, Documents, PriceFeed,
        Analytics

CONSTANTS u1, u2, h1, h2, w1, id0, id1, id2, t1, t2, i1, i2, a1, a2

VARIABLE instance

KycInstances == {"kyc", "kyb", "two users"}
AdminInstances == {"one admin", "two reviewers"}

MCAnnualLimit == [tier \in KycTiers |-> IF tier = 1 THEN 2 ELSE 0]

MCInit ==
    /\ instance \in KycInstances \cup AdminInstances \cup {"whitelist", "swap", "liquidity", "launch",
                                                          "desk", "documents", "feed", "analytics"}
    /\ KycInit /\ WhitelistInit /\ SwapInit /\ LiquidityInit /\ LaunchInit /\ AdminInit
    /\ DeskInit /\ DocumentsInit /\ FeedInit /\ AnalyticsInit
    /\ holding[t1] = "none" /\ holding[t2] = "free"
    /\ instance = "kyb" \/ \A u \in KycUsers : asked[u] = "INVESTOR"
    /\ instance = "documents" \/ ~devMode
    /\ instance = "whitelist" \/ ~skips
    /\ lpHeld[t1] = NotIn /\ lpHeld[t2] = 1

sideVars == <<deskVars, documentVars, feedVars, analyticsVars>>
portalVars == <<kycVars, whitelistVars, swapVars, lpVars, launchVars, adminVars>>

KycSteps ==
    /\ instance \in KycInstances
    /\ KycNext
    /\ instance = "kyc" =>          \* one user, one request at a time
          /\ UNCHANGED kyb
          /\ page'[u1].refused = {} /\ handler'[h2] = Free
          /\ profile'[u2] = NoProfile /\ page'[u2] = NewPage /\ u2 \notin entry'
          /\ \A v \in verdicts' : v[2] # "RETRY"
    /\ instance = "kyb" =>          \* companies, and what is refused
          /\ applicants' = <<>> /\ entry' = {} /\ page'[u2] = NewPage
    /\ instance = "two users" =>    \* parallel requests, without the pages
          /\ UNCHANGED <<kyb, page, entry, overdue>>
          /\ handler'[h2].op \in {"none", "verdict"}
          /\ \A v \in verdicts' : v[1] = 1 => v[2] # "RETRY"
    /\ UNCHANGED <<whitelistVars, swapVars, lpVars, launchVars, adminVars, sideVars>>

WhitelistSteps ==
    /\ instance = "whitelist"
    /\ WhitelistNext
    /\ UNCHANGED <<kycVars, swapVars, lpVars, launchVars, adminVars, sideVars>>

(* A wallet that is connected may be changed, but is not disconnected. *)
StaysConnected == connected = NoTrader \/ connected' # NoTrader

SwapSteps ==
    /\ instance = "swap"
    /\ SwapNext
    /\ StaysConnected
    /\ Cardinality(quoting') <= 1
    /\ UNCHANGED <<kycVars, whitelistVars, lpVars, launchVars, adminVars, sideVars>>

LiquiditySteps ==
    /\ instance = "liquidity"
    /\ LiquidityNext
    /\ StaysConnected
    /\ Cardinality(lpQuoting') <= 1    \* one amount is quoted at a time
    /\ \E t \in Tabs : lpTimer'[t] = 0 /\ lpQuote'[t] = 0
    /\ UNCHANGED <<kycVars, whitelistVars, launchVars, adminVars, sideVars>>

(* The wallet stays connected; the second page is filled in once. *)
LaunchSteps ==
    /\ instance = "launch"
    /\ LaunchNext
    /\ \A p \in Pages : issuer'[p] = NoIssuer => issuer[p] = NoIssuer
    /\ issuer'["issuer"] # i2
    /\ form'["issuer"].amount <= 1 /\ form'["issuer"].ticker = form["issuer"].ticker
    /\ \A post \in posts' : ~post.awaited => post.page = "web"
    /\ form'["web"].ticker # form["web"].ticker => stage["web"] = "idle"
    /\ form'["web"].amount = 0 => form["web"].amount = 0 \/ attempt'["web"] = NoAttempt
    /\ \/ form'["issuer"] = form["issuer"]
       \/ attempt["issuer"] = NoAttempt /\ posts = {}
    /\ issuer'["issuer"] = issuer["issuer"] \/ sent = <<>>
    /\ UNCHANGED <<kycVars, whitelistVars, swapVars, lpVars, adminVars, sideVars>>

(* A plan is changed, and a list loaded, while it matters. *)
AdminSteps ==
    /\ instance \in AdminInstances
    /\ AdminNext
    /\ \A a \in Admins :
          /\ plan'[a] # plan[a] => loop[a] = 0
          /\ card'[a] # card[a] /\ calls' = calls /\ loop'[a] = loop[a]
               => review[a] = NoReview /\ \A c \in calls : c.admin # a
    /\ instance = "one admin" =>
          /\ card'[a2] = NoAsset0 /\ Cardinality(calls') <= 1
          /\ \A c \in calls' : c.kind # "stage" => review[a1] = NoReview
    /\ instance = "two reviewers" =>
          /\ \A c \in calls' : c.awaited /\ c.kind = "stage" /\ c.step # "failed"
          /\ plan'[a2] = AllApproved /\ plan'[a1][LastStage] = "APPROVED"
    /\ UNCHANGED <<kycVars, whitelistVars, swapVars, lpVars, launchVars, sideVars>>

(* The hook and the page of the asset are looked at one at a time. *)
DeskSteps ==
    /\ instance = "desk"
    /\ DeskNext
    /\ signing' \cup replies' # {} =>
          manual' = NoWallet /\ holders' = {} /\ optIn' = NoOptIn /\ isOptedIn' = "unknown"
    /\ UNCHANGED <<portalVars, documentVars, feedVars, analyticsVars>>

DocumentsSteps ==
    /\ instance = "documents"
    /\ DocumentsNext
    /\ UNCHANGED <<portalVars, deskVars, feedVars, analyticsVars>>

(* A run of the cron ends before the next, 5 minutes later. *)
FeedSteps ==
    /\ instance = "feed"
    /\ FeedNext
    /\ Cardinality(cronReads') <= 1
    /\ UNCHANGED <<portalVars, deskVars, documentVars, analyticsVars>>

AnalyticsSteps ==
    /\ instance = "analytics"
    /\ AnalyticsNext
    /\ UNCHANGED <<portalVars, deskVars, documentVars, feedVars>>

MCNext ==
    /\ \/ KycSteps \/ WhitelistSteps \/ SwapSteps \/ LiquiditySteps \/ LaunchSteps \/ AdminSteps
       \/ DeskSteps \/ DocumentsSteps \/ FeedSteps \/ AnalyticsSteps
    /\ UNCHANGED instance
=============================================================================
