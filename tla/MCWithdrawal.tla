----------------------------- MODULE MCWithdrawal -----------------------------
(* Three requests for TLC: two of one amount and one of another, more than  *)
(* the funds allow together.                                                *)
EXTENDS Withdrawal

CONSTANTS w1, w2, w3

MCAmount == [w \in Requests |-> IF w = w3 THEN 2 ELSE 1]
=============================================================================
