----------------------------- MODULE MCIssuance -----------------------------
(* Instances of the issuance pipeline for TLC. *)
EXTENDS Issuance

CONSTANTS a1, a2, d1, d2, r1, r2

OwnDeposit    == [a \in Assets |-> IF a = a1 THEN d1 ELSE d2]
SharedDeposit == [a \in Assets |-> d1]
OneUsdc       == [a \in Assets |-> 1]
SendsOne      == [d \in Deposits |-> 1]
SendsTwo      == [d \in Deposits |-> 2]
=============================================================================
