--------------------------- MODULE EscrowPromise ---------------------------
(***************************************************************************)
(* What the group escrow promises the two parties, without saying how the  *)
(* bot stores it: one admin accepts an open deal, and only that admin can  *)
(* turn a reported payment down or confirm it; once the payment is         *)
(* confirmed, or the deal is closed, nothing happens to the deal again.    *)
(***************************************************************************)
CONSTANTS
  Admins,  \* the users who may act as the escrow admin
  None     \* the absence of an admin

VARIABLES
  phase,     \* where the deal stands
  acceptor   \* the admin who accepted it, or None

promise == <<phase, acceptor>>

Phases == {"open", "accepted", "reported", "received", "closed"}

PromiseInit == phase = "open" /\ acceptor = None

Accept(a) ==
  /\ phase = "open"
  /\ phase' = "accepted"
  /\ acceptor' = a

Report ==
  /\ phase = "accepted"
  /\ phase' = "reported"
  /\ UNCHANGED acceptor

\* The acceptor's verdict on a reported payment: refused or confirmed.
Verdict(a) ==
  /\ phase = "reported"
  /\ acceptor = a
  /\ phase' \in {"accepted", "received"}
  /\ UNCHANGED acceptor

\* Cancellation or expiry, any time before the payment is confirmed.
Close ==
  /\ phase \in {"open", "accepted", "reported"}
  /\ phase' = "closed"
  /\ UNCHANGED acceptor

PromiseNext ==
  \/ \E a \in Admins : Accept(a) \/ Verdict(a)
  \/ Report
  \/ Close

PromiseSpec == PromiseInit /\ [][PromiseNext]_promise
=============================================================================
