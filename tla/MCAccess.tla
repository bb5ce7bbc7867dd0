------------------------------ MODULE MCAccess ------------------------------
(* Three instances in one run: a tab with a query next to its fetch of the *)
(* user and one sign-in at a time; a tab without queries where two         *)
(* sign-ins overlap; the same for two wallets whose automatic accounts     *)
(* have one email, because their addresses begin alike.                    *)
EXTENDS WebClient, TLC

CONSTANTS w1, w2, e1, p1, me, q, f1, f2

VARIABLE instance

MCPlaceholder == w1 :> p1 @@ w2 :> p1

MCInit == Init /\ instance \in {"queries", "signins", "twins"}

MCNext ==
    /\ Next
    /\ instance = "queries" =>
           nonces' = 0 /\ call'[f2] = Idle /\ (accounts[e1] # NoOne => ~Suspended(e1))'
    /\ instance \in {"signins", "twins"} => store' = 0 /\ page' = "login"
    /\ IF instance = "twins" THEN \A c \in Calls : call'[c].op \in {"none", "walletLogin"}
       ELSE challenge'[w2] = 0 /\ \A c \in Calls : call'[c].wallet # w2
    /\ UNCHANGED instance

MCSpec == MCInit /\ [][MCNext]_<<vars, instance>>
=============================================================================
