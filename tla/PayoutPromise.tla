---------------------------- MODULE PayoutPromise ----------------------------
(***************************************************************************)
(* What withdrawing promises the owner of the money: what is taken out of  *)
(* the balance is paid out or returned, never both and never twice, and    *)
(* the request says only what has happened.                                *)
(***************************************************************************)
CONSTANT Requests

VARIABLES
  money,   \* where the money of each request is
  told     \* what the request says has become of it

vars == <<money, told>>

Init ==
  /\ money = [w \in Requests |-> "balance"]
  /\ told = [w \in Requests |-> "nothing"]

Reserve(w) ==
  /\ money[w] = "balance"
  /\ money' = [money EXCEPT ![w] = "reserved"]
  /\ UNCHANGED told

PayOut(w) ==
  /\ money[w] = "reserved"
  /\ money' = [money EXCEPT ![w] = "paid"]
  /\ UNCHANGED told

Return(w) ==
  /\ money[w] = "reserved"
  /\ money' = [money EXCEPT ![w] = "returned"]
  /\ UNCHANGED told

Tell(w) ==
  /\ money[w] \in {"paid", "returned"} /\ told[w] = "nothing"
  /\ told' = [told EXCEPT ![w] = money[w]]
  /\ UNCHANGED money

Next == \E w \in Requests : Reserve(w) \/ PayOut(w) \/ Return(w) \/ Tell(w)

Spec == Init /\ [][Next]_vars
=============================================================================
