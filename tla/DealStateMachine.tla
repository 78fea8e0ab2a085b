-------------------------- MODULE DealStateMachine --------------------------
(***************************************************************************)
(* The table of deal status changes of src/lib/stateMachine.ts, and the    *)
(* status sets the services test.  The module has no state: the modules    *)
(* that move a deal ask CanTransition exactly where the code calls it.     *)
(***************************************************************************)

Buyer == "BUYER"
Seller == "SELLER"
Admin == "ADMIN"
System == "SYSTEM"

Parties == {Buyer, Seller}
Roles == Parties \cup {Admin, System}

\* Status of a deal whose escrow is not settled yet, by era of the product.
GroupFlowStates == {"CREATED", "JOINED", "AWAITING_PAYMENT", "PAYMENT_REPORTED"}
EscrowStates == {"FUNDED", "DELIVERED", "RELEASE_REQUESTED", "REFUND_REQUESTED",
                 "DISPUTED", "UNDER_REVIEW"}
CustodialStates == {"AWAITING_FUNDING", "IN_PROGRESS", "RELEASE_PENDING"}

ActiveStates == GroupFlowStates \cup EscrowStates \cup CustodialStates
TerminalStates == {"COMPLETED", "REFUNDED", "RELEASED", "CANCELLED", "EXPIRED",
                   "PAYMENT_RECEIVED"}
DisputableStates == {"FUNDED", "DELIVERED", "RELEASE_REQUESTED", "REFUND_REQUESTED",
                     "IN_PROGRESS", "RELEASE_PENDING"}
ExpirableStates == {"CREATED", "JOINED", "AWAITING_PAYMENT", "AWAITING_FUNDING"}

Status == ActiveStates \cup TerminalStates

\* Every row of the table whose source is in "from", whose target is in "to"
\* and whose trigger is in "by".
Rows(from, to, by) == from \X to \X by

\* The rows of the flow new deals follow: acceptance, payment report, verdict.
PaymentTransitions ==
  Rows({"CREATED"}, {"JOINED"}, {Seller})
    \cup Rows({"CREATED"}, {"AWAITING_PAYMENT"}, {Admin})
    \cup Rows({"JOINED"}, {"AWAITING_PAYMENT"}, {System})
    \cup Rows({"AWAITING_PAYMENT"}, {"PAYMENT_REPORTED"}, Parties)
    \cup Rows({"PAYMENT_REPORTED"},
              {"AWAITING_PAYMENT", "PAYMENT_RECEIVED", "FUNDED"}, {Admin})

\* Release, refund and dispute of a funded deal.
SettlementTransitions ==
  Rows({"FUNDED"}, {"DELIVERED"}, {Seller})
    \cup Rows({"FUNDED", "DELIVERED"},
              {"RELEASE_REQUESTED", "REFUND_REQUESTED"}, Parties)
    \cup Rows({"RELEASE_REQUESTED"}, {"COMPLETED", "DELIVERED", "FUNDED"}, {Admin})
    \cup Rows({"REFUND_REQUESTED"}, {"REFUNDED", "DELIVERED", "FUNDED"}, {Admin})
    \cup Rows({"FUNDED", "DELIVERED", "RELEASE_REQUESTED", "REFUND_REQUESTED"},
              {"DISPUTED"}, Parties)
    \cup Rows({"DISPUTED"}, {"UNDER_REVIEW"}, {Admin})
    \cup Rows({"UNDER_REVIEW"}, {"RELEASED", "REFUNDED"}, {Admin})

\* Expiry, and cancellation before the payment is verified.
ClosingTransitions ==
  Rows({"CREATED", "JOINED", "AWAITING_PAYMENT"}, {"EXPIRED"}, {System})
    \cup Rows(GroupFlowStates, {"CANCELLED"}, {Buyer, Admin})
    \cup Rows({"JOINED", "AWAITING_PAYMENT"}, {"CANCELLED"}, {Seller})

\* The custodial era, kept for old rows.
CustodialTransitions ==
  Rows({"JOINED"}, {"AWAITING_FUNDING"}, {System})
    \cup Rows({"AWAITING_FUNDING"}, {"FUNDED", "EXPIRED"}, {System})
    \cup Rows({"AWAITING_FUNDING"}, {"CANCELLED"}, Parties)
    \cup Rows({"FUNDED"}, {"IN_PROGRESS"}, {System})
    \cup Rows({"IN_PROGRESS"}, {"DELIVERED"}, {Seller})
    \cup Rows({"DELIVERED"}, {"RELEASE_PENDING"}, {Buyer})
    \cup Rows({"RELEASE_PENDING"}, {"COMPLETED"}, {System})
    \cup Rows({"IN_PROGRESS", "RELEASE_PENDING"}, {"DISPUTED"}, Parties)

Transitions == PaymentTransitions \cup SettlementTransitions
                 \cup ClosingTransitions \cup CustodialTransitions

CanTransition(from, to, by) == <<from, to, by>> \in Transitions

\* The targets role "by" may choose from status "from".
NextStates(from, by) == {to \in Status : CanTransition(from, to, by)}
=============================================================================
