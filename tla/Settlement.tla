----------------------------- MODULE Settlement -----------------------------
(***************************************************************************)
(* Release, refund and dispute of one funded deal: the operations of       *)
(* src/services/dealService.ts that settle the escrow outside the bot.  No *)
(* new deal becomes FUNDED; the rows of the earlier flow still are, and    *)
(* the services and the admin's buttons still work on them.                *)
(*                                                                         *)
(* Requests, answers and payouts lock the row in a transaction: one action *)
(* each.  transition, openDispute and the two admin handlers that open a   *)
(* review make separate database calls: "call" holds, per instance of the  *)
(* bot, the call it makes next.  Fees are left out: amounts are gross.     *)
(***************************************************************************)
EXTENDS DealStateMachine, Integers

CONSTANTS
  Amount,     \* deals.amount, in the smallest unit anybody asks for
  None,       \* SQL NULL
  Instances   \* bot processes alive at the same time

ASSUME SettlementAssumption == Amount \in Nat \ {0} /\ None \notin Parties

VARIABLES
  status,     \* deals.status
  settled,    \* deals.released_amount and deals.refunded_amount
  remaining,  \* deals.remaining_amount
  request,    \* the {release,refund}_requested_* and *_agreed_* columns
  completed,  \* deals.completed_at is set
  paid,       \* total of the ESCROW_RELEASE and of the REFUND history rows
  dispute,    \* disputes.status of the deal's dispute, if it has one
  call,       \* the database call each instance makes next
  consent     \* history: the last answer "yes", until a new request voids it

vars == <<status, settled, remaining, request, completed, paid, dispute, call, consent>>

-----------------------------------------------------------------------------
(* Columns and helpers                                                     *)

Kinds == {"release", "refund"}
Requested == [release |-> "RELEASE_REQUESTED", refund |-> "REFUND_REQUESTED"]
Final == [release |-> "COMPLETED", refund |-> "REFUNDED"]

RequestOf == [by : Parties, amount : 1..Amount, from : {"FUNDED", "DELIVERED"},
              agreed : Parties \cup {None}]
Calls == {"none", "deliver", "freeze", "record", "open", "ask", "review"}

Idle(p) == call[p] = "none"
Go(p, next) == call' = [call EXCEPT ![p] = next]
Other(u) == IF u = Buyer THEN Seller ELSE Buyer

Left == Amount - settled["release"] - settled["refund"]
\* Seeded fault: the request is compared with itself, so it always ends the deal.
LeftForRequest(k) == request[k].amount
\* What a payout compares the request with: the release overlooks refunds.
LeftFor(k) == IF k = "release" THEN Amount - settled["release"] ELSE Left


-----------------------------------------------------------------------------
Init ==
  /\ status = "FUNDED"
  /\ settled = [k \in Kinds |-> 0]
  /\ remaining = Amount
  /\ request = [k \in Kinds |-> None]
  /\ completed = FALSE
  /\ paid = [k \in Kinds |-> 0]
  /\ dispute = "none"
  /\ call = [p \in Instances |-> "none"]
  /\ consent = [k \in Kinds |-> None]

-----------------------------------------------------------------------------
(* Operations in one transaction                                           *)

\* Seeded fault: the amount is checked against the deal and not what is left.
RequestUnchecked(k, u, n) ==
  /\ CanTransition(status, Requested[k], u)
  /\ Left > 0
  /\ status' = Requested[k]
  /\ request' = [request EXCEPT ![k] =
                   [by |-> u, amount |-> n, from |-> status, agreed |-> None]]
  /\ consent' = [consent EXCEPT ![k] = None]
  /\ UNCHANGED <<settled, remaining, completed, paid, dispute, call>>
\* A participant asks for a payout of n, or of all that is left.
Request(k, u, n) ==
  /\ CanTransition(status, Requested[k], u)
  /\ n <= Left
  /\ status' = Requested[k]
  /\ request' = [request EXCEPT ![k] =
                   [by |-> u, amount |-> n, from |-> status, agreed |-> None]]
  /\ consent' = [consent EXCEPT ![k] = None]
  /\ UNCHANGED <<settled, remaining, completed, paid, dispute, call>>

RequestRelease(u, n) == Request("release", u, n)
RequestRefund(u, n) == Request("refund", u, n)

\* Seeded fault: an old request can be agreed to when the deal has moved on.
AgreeAnyTime(k, u) ==
  /\ request[k] # None
  /\ request[k].by # u
  /\ request' = [request EXCEPT ![k].agreed = u]
  /\ consent' = [consent EXCEPT ![k] = [by |-> u, amount |-> request[k].amount]]
  /\ UNCHANGED <<status, settled, remaining, completed, paid, dispute, call>>
\* Seeded fault: a request can be agreed to by the one who made it.
AgreeToOwn(k, u) ==
  /\ status = Requested[k]
  /\ request' = [request EXCEPT ![k].agreed = u]
  /\ consent' = [consent EXCEPT ![k] = [by |-> u, amount |-> request[k].amount]]
  /\ UNCHANGED <<status, settled, remaining, completed, paid, dispute, call>>
\* The counterparty agrees; answering again, either way, stays possible.
Agree(k, u) ==
  /\ status = Requested[k]
  /\ request[k].by # u
  /\ request' = [request EXCEPT ![k].agreed = u]
  /\ consent' = [consent EXCEPT ![k] = [by |-> u, amount |-> request[k].amount]]
  /\ UNCHANGED <<status, settled, remaining, completed, paid, dispute, call>>

\* The counterparty refuses: the deal continues where it was.
Refuse(k, u) ==
  /\ status = Requested[k]
  /\ request[k].by # u
  /\ CanTransition(status, request[k].from, Admin)
  /\ status' = request[k].from
  /\ request' = [request EXCEPT ![k] = None]
  /\ UNCHANGED <<settled, remaining, completed, paid, dispute, call, consent>>

AgreeRelease(u) == Agree("release", u) \/ Refuse("release", u)
AgreeRefund(u) == Agree("refund", u) \/ Refuse("refund", u)

\* The escrow admin marks an agreed request as paid, in part or to the end.
Confirm(k) ==
  /\ status = Requested[k]
  /\ request[k].agreed # None
  /\ request[k].amount <= LeftFor(k)
  /\ LET left == LeftFor(k) - request[k].amount
         next == IF left = 0 THEN Final[k] ELSE request[k].from
     IN /\ CanTransition(status, next, Admin)
        /\ status' = next
        /\ completed' = (completed \/ left = 0)
        /\ remaining' = left
  /\ settled' = [settled EXCEPT ![k] = @ + request[k].amount]
  /\ paid' = [paid EXCEPT ![k] = @ + request[k].amount]
  /\ request' = [request EXCEPT ![k] = None]
  /\ UNCHANGED <<dispute, call, consent>>

ConfirmManualRelease == Confirm("release")
CompleteManualRefund == Confirm("refund")

\* Seeded fault: a second press of the confirmation pays once more.
ResolveAgain(k, final) ==
  /\ CanTransition(status, final, Admin) \/ status \in {"RELEASED", "REFUNDED"}
  /\ status' = final
  /\ completed' = TRUE
  /\ paid' = [paid EXCEPT ![k] = @ + Amount]
  /\ dispute' = IF dispute = "none" THEN "none" ELSE "resolved"
  /\ UNCHANGED <<settled, remaining, request, call, consent>>
\* The admin decides a dispute: the whole amount goes to one party.
Resolve(k, final) ==
  /\ CanTransition(status, final, Admin)
  /\ status' = final
  /\ completed' = TRUE
  /\ paid' = [paid EXCEPT ![k] = @ + Amount]
  /\ dispute' = IF dispute = "none" THEN "none" ELSE "resolved"
  /\ UNCHANGED <<settled, remaining, request, call, consent>>

ManualRefund == Resolve("refund", "REFUNDED")
ManualReleaseForDispute == Resolve("release", "RELEASED")

-----------------------------------------------------------------------------
(* Operations that read first and write later                              *)

DeliverRead(p) ==
  /\ Idle(p)
  /\ CanTransition(status, "DELIVERED", Seller)
  /\ Go(p, "deliver")
  /\ UNCHANGED <<status, settled, remaining, request, completed, paid, dispute, consent>>

DisputeRead(p) ==
  /\ Idle(p)
  /\ status \in DisputableStates
  /\ Go(p, "freeze")
  /\ UNCHANGED <<status, settled, remaining, request, completed, paid, dispute, consent>>

\* Seeded fault: the review is opened without looking for the dispute row.
ReviewFindNoRow(p) ==
  /\ Idle(p)
  /\ Go(p, "ask")
  /\ UNCHANGED <<status, settled, remaining, request, completed, paid, dispute, consent>>
\* The escrow admin opens a review: of a deal with a dispute row, of one
\* without, or by taking a listed dispute over.
ReviewFind(p) ==
  /\ Idle(p)
  /\ Go(p, IF dispute = "none" THEN "open" ELSE "ask")
  /\ UNCHANGED <<status, settled, remaining, request, completed, paid, dispute, consent>>

AssignDispute(p) ==
  /\ Idle(p)
  /\ dispute # "none"
  /\ dispute' = "under_review"
  /\ Go(p, "ask")
  /\ UNCHANGED <<status, settled, remaining, request, completed, paid, consent>>

\* Seeded fault: a status the schema does not have.
StatusAfterUnknown == [deliver |-> "DELIVERED", freeze |-> "DISPUTED", review |-> "IN_REVIEW"]
\* The write of transition and of openDispute, whatever the row holds by then.
\* No target is terminal, so completed_at is left as it is.
StatusAfter == [deliver |-> "DELIVERED", freeze |-> "DISPUTED", review |-> "UNDER_REVIEW"]
WriteStatus(p) ==
  /\ call[p] \in DOMAIN StatusAfter
  /\ status' = StatusAfter[call[p]]
  /\ Go(p, IF call[p] = "freeze" THEN "record" ELSE "none")
  /\ UNCHANGED <<settled, remaining, request, completed, paid, dispute, consent>>

\* The dispute row is inserted; a second row for the deal is an error.
InsertDispute(p) ==
  /\ call[p] \in {"record", "open"}
  /\ dispute' = IF dispute = "none" THEN "open" ELSE dispute
  /\ Go(p, IF call[p] = "open" /\ dispute = "none" THEN "ask" ELSE "none")
  /\ UNCHANGED <<status, settled, remaining, request, completed, paid, consent>>

ReviewRead(p) ==
  /\ call[p] = "ask"
  /\ Go(p, IF CanTransition(status, "UNDER_REVIEW", Admin) THEN "review" ELSE "none")
  /\ UNCHANGED <<status, settled, remaining, request, completed, paid, dispute, consent>>

\* The instance is stopped between two of its database calls.
Crash(p) ==
  /\ ~Idle(p)
  /\ Go(p, "none")
  /\ UNCHANGED <<status, settled, remaining, request, completed, paid, dispute, consent>>

-----------------------------------------------------------------------------

Transaction ==
  \/ \E u \in Parties, n \in 1..Amount : RequestRelease(u, n) \/ RequestRefund(u, n)
  \/ \E u \in Parties : AgreeRelease(u) \/ AgreeRefund(u)
  \/ ConfirmManualRelease \/ CompleteManualRefund
  \/ ManualRefund \/ ManualReleaseForDispute

Step(p) ==
  \/ DeliverRead(p) \/ DisputeRead(p) \/ ReviewFind(p) \/ AssignDispute(p)
  \/ WriteStatus(p) \/ InsertDispute(p) \/ ReviewRead(p)
  \/ Crash(p)

Next ==
  \/ (\E p \in Instances : Idle(p)) /\ Transaction
  \/ \E p \in Instances : Step(p)

Spec == Init /\ [][Next]_vars
-----------------------------------------------------------------------------
(* Properties                                                              *)

\* Every column, history total and call record holds a value of its type.
TypeOK ==
  /\ status \in Status
  /\ settled \in [Kinds -> Nat]
  /\ remaining \in Nat
  /\ request \in [Kinds -> RequestOf \cup {None}]
  /\ completed \in BOOLEAN
  /\ paid \in [Kinds -> Nat]
  /\ dispute \in {"none", "open", "under_review", "resolved"}
  /\ call \in [Instances -> Calls]
  /\ consent \in [Kinds -> [by : Parties, amount : 1..Amount] \cup {None}]

\* Releases, refunds and the request that waits never add up to more than the
\* deal holds, although confirmManualRelease overlooks earlier refunds: the
\* bound it leaves out was checked when the request was made.
PrincipalCovers ==
  /\ settled["release"] + settled["refund"] <= Amount
  /\ \A k \in Kinds : status = Requested[k] => request[k].amount <= Left

\* Money is released or refunded on a request only in the amount, and with the
\* agreement, the other party gave to that very request: an agreement that a
\* stale write of transition left behind in the row never counts for the next.
PaidWithConsent ==
  [][\A k \in Kinds : settled'[k] # settled[k] =>
       consent[k] = [by |-> Other(request[k].by),
                     amount |-> settled'[k] - settled[k]]]_vars

\* A deal is COMPLETED only when nothing of it is left to pay: partial payouts
\* in any order never end it early.
CompletedIsPaidOut == status = "COMPLETED" => Left = 0

\* With one thread of control every status change is a row of the transition
\* table, also openDispute's, which does not ask it.
StatusChangesAreTransitions ==
  [][\E by \in Roles : CanTransition(status, status', by)]_status

\* With one thread of control completed_at is set on the deals that ended and
\* on no other.
CompletedIffTerminal == completed <=> status \in TerminalStates

\* With one thread of control the released and refunded columns agree with the
\* payment history until an admin decides the deal as a whole, and a deal that
\* is decided is never paid again.
HistoryMatchesColumns ==
  LET owed(k) == paid[k] - settled[k] IN
  \/ owed("release") = 0 /\ owed("refund") = 0
  \/ owed("release") = Amount /\ owed("refund") = 0 /\ status = "RELEASED"
  \/ owed("release") = 0 /\ owed("refund") = Amount /\ status = "REFUNDED"

\* With one thread of control a deal under review has a dispute row that is
\* not resolved, and a resolved dispute means the admin decided the deal, also
\* when openDispute dies between its two writes or the row existed before.
DisputeMatchesDeal ==
  /\ status = "UNDER_REVIEW" => dispute \in {"open", "under_review"}
  /\ dispute = "resolved" => status \in {"RELEASED", "REFUNDED"}

\* With one thread of control a dispute freezes the deal: until an admin
\* decides it, no request, answer or payout touches it.
DisputeFreezes ==
  [][(status \in {"DISPUTED", "UNDER_REVIEW"}) =>
       /\ UNCHANGED <<settled, request, remaining>>
       /\ status' \in {status, "UNDER_REVIEW", "RELEASED", "REFUNDED"}]_vars
=============================================================================
