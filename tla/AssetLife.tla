----------------------------- MODULE AssetLife -----------------------------
(***************************************************************************)
(* What issuance promises about an asset, with no request, transaction or  *)
(* wallet in it: the deposit is paid to the asset's vault or back to its   *)
(* issuer, the platform notes no payment that was not made, opens a market *)
(* with the deposit's money only, and lists the asset when its market is   *)
(* open.  The asset service with its contracts implements this module.     *)
(***************************************************************************)
CONSTANT Assets

VARIABLES
    paid,      \* asset -> where its deposit has been paid to
    noted,     \* asset -> the payment its row tells of
    funded,    \* assets whose vault owns the LP tokens of a seeded pool
    listed     \* assets that investors can trade

lifeVars == <<paid, noted, funded, listed>>

Payees == {"vault", "issuer"}

Init ==
    /\ paid = [a \in Assets |-> {}]
    /\ noted = [a \in Assets |-> "none"]
    /\ funded = {}
    /\ listed = {}

(* A second payment of one lock goes to either payee, or to both. *)
Pay(a, payee) ==
    /\ paid' = [paid EXCEPT ![a] = @ \cup {payee}]
    /\ UNCHANGED <<noted, funded, listed>>

Note(a, payee) ==
    /\ payee \in paid[a]
    /\ noted' = [noted EXCEPT ![a] = payee]
    /\ UNCHANGED <<paid, funded, listed>>

(* No market is made with another asset's deposit or the admin's money. *)
OpenMarket(a) ==
    /\ "vault" \in paid[a]
    /\ funded' = funded \cup {a}
    /\ UNCHANGED <<paid, noted, listed>>

List(a) ==
    /\ a \in funded
    /\ listed' = listed \cup {a}
    /\ UNCHANGED <<paid, noted, funded>>

(* A rejection, or a deployment that overlaps the activation. *)
Delist(a) ==
    /\ listed' = listed \ {a}
    /\ UNCHANGED <<paid, noted, funded>>

Next ==
    \E a \in Assets :
        \/ \E payee \in Payees : Pay(a, payee) \/ Note(a, payee)
        \/ OpenMarket(a) \/ List(a) \/ Delist(a)

Spec == Init /\ [][Next]_lifeVars

-----------------------------------------------------------------------------
(* What follows from the promise: a listed asset has an open market, whose *)
(* money came from the asset's own deposit, and rows tell only of payments *)
(* that were made.                                                         *)
LifeInv ==
    /\ listed \subseteq funded
    /\ \A a \in Assets : /\ a \in funded => "vault" \in paid[a]
                         /\ noted[a] # "none" => noted[a] \in paid[a]
=============================================================================
