----------------------------- MODULE MCDealFlow -----------------------------
(* Instances of DealFlow for TLC: a buyer, the seller and the escrow admins. *)
EXTENDS DealFlow, TLC

\* The admins differ in nothing but their name, as long as none is a party.
AdminSymmetry == Permutations(Admins)
=============================================================================
