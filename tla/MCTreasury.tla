----------------------------- MODULE MCTreasury -----------------------------
(* Instances of Treasury for TLC: two users who trade with each other.     *)
EXTENDS Treasury

CONSTANTS b, s, d1, d2, in1, in2, w1

\* Both deals are the buyer's; the second one has no fees.
MCTerms ==
  [d \in Deals |->
     IF d = d1 THEN [buyer |-> b, seller |-> s, amount |-> 2, buyerFee |-> 1, sellerFee |-> 1]
     ELSE [buyer |-> b, seller |-> s, amount |-> 1, buyerFee |-> 0, sellerFee |-> 0]]

\* The first deposit pays for both deals, the second is the seller's first money.
MCIncoming ==
  [i \in Deposits |-> IF i = in1 THEN [user |-> b, amount |-> 4] ELSE [user |-> s, amount |-> 1]]

MCOutgoing == [w \in Withdrawals |-> [user |-> s, amount |-> 1]]
=============================================================================
