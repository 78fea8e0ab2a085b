---------------------------- MODULE LedgerPromise ----------------------------
(***************************************************************************)
(* What the ledger promises the operations that use it: each one happens   *)
(* at once and at most once, with every debit covered at that moment and   *)
(* with all of its entries, and what reverses another one follows it.      *)
(***************************************************************************)
EXTENDS Integers

CONSTANTS
  Slots,        \* balances
  Opening,      \* what they are at the start
  Operations,   \* pairs of an idempotency key and its entries
  Reversals     \* pairs of a key and the key it takes back

VARIABLES
  executed,   \* keys of the operations that happened
  balance

vars == <<executed, balance>>

Init ==
  /\ executed = {}
  /\ balance = Opening

Execute(key, entries) ==
  /\ key \notin executed
  /\ \A r \in Reversals : r[1] = key => r[2] \in executed
  /\ \A s \in Slots : balance[s] + entries[s] >= 0
  /\ executed' = executed \cup {key}
  /\ balance' = [s \in Slots |-> balance[s] + entries[s]]

Next == \E op \in Operations : Execute(op[1], op[2])

Spec == Init /\ [][Next]_vars
=============================================================================
