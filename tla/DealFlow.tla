------------------------------ MODULE DealFlow ------------------------------
(***************************************************************************)
(* One deal of the group escrow, from its creation to the escrow admin's   *)
(* confirmation of the payment (src/services/dealService.ts, with the      *)
(* checks of the handlers in src/bot that call it).                        *)
(*                                                                         *)
(* Operations that run inside prisma.$transaction and lock the row are one *)
(* action each.  cancel, expireDeals, submitEvidence and join read the row *)
(* and write it in separate database calls: each is split where the code   *)
(* awaits, and an instance of the bot that is between two such calls holds *)
(* what it read in "call".  A crash of the instance loses the call.        *)
(***************************************************************************)
EXTENDS DealStateMachine, Sequences, FiniteSetsExt

CONSTANTS
  Users,       \* everyone who talks to the bot
  BuyerId,     \* the deal's buyer
  SellerId,    \* the seller named in the deal form
  Admins,      \* users the router lets act as escrow admin of the deal
  None,        \* SQL NULL
  Instances,   \* bot processes (and workers) alive at the same time
  TwoStepOps,  \* which of the unlocked operations are in use
  MaxReports   \* bound on payment reports, for model checking

ASSUME DealFlowAssumption ==
  /\ BuyerId \in Users /\ SellerId \in Users /\ BuyerId # SellerId
  /\ Admins \subseteq Users
  /\ None \notin Users
  /\ TwoStepOps \subseteq {"cancel", "expire", "evidence", "join"}
  /\ MaxReports \in Nat

VARIABLES
  status,      \* deals.status
  sellerId,    \* deals.seller_id
  payerRole,   \* who sends the money: payment_method and crypto_payer
  agreed,      \* the parties with an *_agreed_at timestamp
  acceptedBy,  \* deals.accepted_by (set together with accepted_at)
  expiresAt,   \* deals.expires_at: NULL, still to come, or gone by
  completed,   \* deals.completed_at is set
  verifiedBy,  \* deals.payment_verified_by
  reports,     \* payment_reports of the deal, oldest first
  locks,       \* number of ESCROW_LOCK history rows written
  rejecting,   \* admins whose session asks for a rejection reason
  evidenceAsked, \* the buyer holds a "Submit Evidence" button
  call         \* the unlocked operation each instance is in the middle of

dealVars == <<status, sellerId, payerRole, agreed, acceptedBy, expiresAt,
              completed, verifiedBy, locks>>
sessionVars == <<rejecting, evidenceAsked>>
vars == <<dealVars, reports, sessionVars, call>>

-----------------------------------------------------------------------------
(* Rows and helpers                                                        *)

Report == [status : {"PENDING", "VERIFIED", "REJECTED"},
           by : Users, verifiedBy : Users \cup {None}, amended : BOOLEAN]

\* A call in progress: the operation, who asked, and either the report it
\* works on or the number of writes it has done so far.
Calls == [op : {"cancel", "join"}, by : Users, at : {0, 1}]
           \cup [op : {"expire"}, by : {None}, at : {0}]
           \cup [op : {"evidence"}, by : {BuyerId}, at : Nat]
NoCall == [op |-> "none", by |-> None, at |-> 0]

Idle(p) == call[p] = NoCall
Begin(p, op, by, at) == call' = [call EXCEPT ![p] = [op |-> op, by |-> by, at |-> at]]
Return(p) == call' = [call EXCEPT ![p] = NoCall]

Payer == IF payerRole = Seller THEN sellerId ELSE BuyerId
RoleOf(u) == IF u = BuyerId THEN Buyer ELSE IF u = sellerId THEN Seller ELSE Admin

PendingIn(reps) == {i \in DOMAIN reps : reps[i].status = "PENDING"}
Pending == PendingIn(reports)

\* Seeded fault: the verdict is stored with a status the schema does not have.
DecideUnknownStatus(a, verdict) ==
  [i \in DOMAIN reports |->
     IF Pending # {} /\ i = Max(Pending)
     THEN [reports[i] EXCEPT !.status = "APPROVED"] ELSE reports[i]]
\* Seeded fault: a rejection leaves the report pending.
DecideOnlyVerified(a, verdict) ==
  [i \in DOMAIN reports |->
     IF verdict = "VERIFIED" /\ Pending # {} /\ i = Max(Pending)
     THEN [reports[i] EXCEPT !.status = verdict,
                               !.verifiedBy = IF verdict = "VERIFIED" THEN a ELSE @]
     ELSE reports[i]]
\* The newest pending report, if there is one, gets its verdict.
Decide(a, verdict) ==
  [i \in DOMAIN reports |->
     IF Pending # {} /\ i = Max(Pending)
     THEN [reports[i] EXCEPT !.status = verdict,
                               !.verifiedBy = IF verdict = "VERIFIED" THEN a ELSE @]
     ELSE reports[i]]

\* Only the admin who accepted the deal decides; an old row without one is
\* open to every admin.
MayDecide(a) == acceptedBy \in {None, a}

-----------------------------------------------------------------------------
(* A deal is posted from a finished form: both parties are named.          *)

Init ==
  /\ status = "CREATED"
  /\ sellerId = SellerId
  /\ payerRole \in Parties
  /\ agreed = {}
  /\ acceptedBy = None
  /\ expiresAt = "none"
  /\ completed = FALSE
  /\ verifiedBy = None
  /\ reports = <<>>
  /\ locks = 0
  /\ rejecting = {}
  /\ evidenceAsked = FALSE
  /\ call = [p \in Instances |-> NoCall]

-----------------------------------------------------------------------------
(* Operations in one transaction                                           *)

AgreeToDeal(u) ==
  /\ status = "CREATED"
  /\ u \in {BuyerId, sellerId}
  /\ RoleOf(u) \notin agreed
  /\ agreed' = agreed \cup {RoleOf(u)}
  /\ UNCHANGED <<status, sellerId, payerRole, acceptedBy, expiresAt, completed,
                 verifiedBy, locks, reports, sessionVars, call>>

\* What acceptance writes.
Accepted(a) ==
  /\ status' = "AWAITING_PAYMENT"
  /\ acceptedBy' = a
  /\ expiresAt' = "running"
  /\ UNCHANGED <<sellerId, payerRole, agreed, completed, verifiedBy, locks,
                 reports, sessionVars, call>>

\* Seeded fault: one party's agreement is enough.
AdminAcceptOneAgreement(a) ==
  /\ a \in Admins
  /\ acceptedBy = None
  /\ agreed # {}
  /\ CanTransition(status, "AWAITING_PAYMENT", Admin)
  /\ Accepted(a)
AdminAccept(a) ==
  /\ a \in Admins
  /\ acceptedBy = None
  /\ agreed = Parties
  /\ CanTransition(status, "AWAITING_PAYMENT", Admin)
  /\ Accepted(a)

ReportPayment(u) ==
  /\ Len(reports) < MaxReports
  /\ u = Payer
  /\ CanTransition(status, "PAYMENT_REPORTED", IF u = BuyerId THEN Buyer ELSE Seller)
  /\ status' = "PAYMENT_REPORTED"
  /\ reports' = Append(reports, [status |-> "PENDING", by |-> u,
                                 verifiedBy |-> None, amended |-> FALSE])
  /\ UNCHANGED <<sellerId, payerRole, agreed, acceptedBy, expiresAt, completed,
                 verifiedBy, locks, sessionVars, call>>

\* "Not Received" on the verification message: the session now waits for the
\* reason.  The message exists once a payment was reported.
AskRejectReason(a) ==
  /\ a \in Admins
  /\ reports # <<>>
  /\ MayDecide(a)
  /\ rejecting' = rejecting \cup {a}
  /\ UNCHANGED <<dealVars, reports, evidenceAsked, call>>

\* The admin starts a deal form, or presses "Not Received" on another deal: the
\* session asks for this reason no more.
DropReason(a) ==
  /\ a \in rejecting
  /\ rejecting' = rejecting \ {a}
  /\ UNCHANGED <<dealVars, reports, evidenceAsked, call>>

\* Seeded fault: a late reason is not checked against the table any more.
RejectableAlways(a) == MayDecide(a)
Rejectable(a) == MayDecide(a) /\ CanTransition(status, "AWAITING_PAYMENT", Admin)

\* The reason arrives, as the admin's next text, however late.
RejectPayment(a) ==
  /\ a \in rejecting
  /\ rejecting' = rejecting \ {a}
  /\ IF Rejectable(a)
     THEN /\ status' = "AWAITING_PAYMENT"
          /\ verifiedBy' = None
          /\ reports' = Decide(a, "REJECTED")
     ELSE UNCHANGED <<status, verifiedBy, reports>>
  /\ UNCHANGED <<sellerId, payerRole, agreed, acceptedBy, expiresAt, completed,
                 locks, evidenceAsked, call>>

\* Seeded fault: a second confirmation is not refused.
VerifiableAgain(a) ==
  MayDecide(a) /\ (CanTransition(status, "PAYMENT_RECEIVED", Admin) \/ status = "PAYMENT_RECEIVED")
\* Seeded fault: a payment can be confirmed before it is reported.
VerifiableEarly(a) ==
  MayDecide(a) /\ status \in {"AWAITING_PAYMENT", "PAYMENT_REPORTED"}
Verifiable(a) == MayDecide(a) /\ CanTransition(status, "PAYMENT_RECEIVED", Admin)

VerifyPayment(a) ==
  /\ a \in Admins
  /\ reports # <<>>
  /\ locks <= MaxReports
  /\ Verifiable(a)
  /\ status' = "PAYMENT_RECEIVED"
  /\ verifiedBy' = a
  /\ completed' = TRUE
  /\ reports' = Decide(a, "VERIFIED")
  /\ locks' = locks + 1
  /\ UNCHANGED <<sellerId, payerRole, agreed, acceptedBy, expiresAt, sessionVars, call>>

RequestEvidence(a) ==
  /\ a \in Admins
  /\ reports # <<>>
  /\ MayDecide(a)
  /\ evidenceAsked' = TRUE
  /\ UNCHANGED <<dealVars, reports, rejecting, call>>

\* The payment deadline set at acceptance goes by.
DeadlinePasses ==
  /\ expiresAt = "running"
  /\ expiresAt' = "past"
  /\ UNCHANGED <<status, sellerId, payerRole, agreed, acceptedBy, completed,
                 verifiedBy, locks, reports, sessionVars, call>>

-----------------------------------------------------------------------------
(* Operations that read first and write later                              *)

\* What the closing write of cancel and expireDeals does, whatever the row
\* holds by then.
CloseAs(final) ==
  /\ status' = final
  /\ completed' = TRUE
  /\ UNCHANGED <<sellerId, payerRole, agreed, acceptedBy, expiresAt, verifiedBy,
                 locks, reports, sessionVars>>

CancelRead(p, u) ==
  /\ "cancel" \in TwoStepOps /\ Idle(p)
  /\ u \in {BuyerId, sellerId} \cup Admins
  /\ CanTransition(status, "CANCELLED", RoleOf(u))
  /\ Begin(p, "cancel", u, 0)
  /\ UNCHANGED <<dealVars, reports, sessionVars>>

CancelWrite(p) ==
  /\ call[p].op = "cancel"
  /\ CloseAs("CANCELLED")
  /\ Return(p)

Overdue == expiresAt = "past" /\ status \in ExpirableStates

ExpireRead(p) ==
  /\ "expire" \in TwoStepOps /\ Idle(p)
  /\ Overdue
  /\ Begin(p, "expire", None, 0)
  /\ UNCHANGED <<dealVars, reports, sessionVars>>

ExpireWrite(p) ==
  /\ call[p].op = "expire"
  /\ CloseAs("EXPIRED")
  /\ Return(p)

\* Seeded fault: the newest report is amended even when it is decided.
EvidenceTargetAny == Len(reports)
\* The report new evidence belongs to; 0 stands for the deal row itself.
EvidenceTarget == IF Pending = {} THEN 0 ELSE Max(Pending)

EvidenceRead(p) ==
  /\ "evidence" \in TwoStepOps /\ Idle(p)
  /\ evidenceAsked
  /\ Begin(p, "evidence", BuyerId, EvidenceTarget)
  /\ UNCHANGED <<dealVars, reports, sessionVars>>

EvidenceWrite(p) ==
  /\ call[p].op = "evidence"
  /\ reports' = [i \in DOMAIN reports |->
                   IF i = call[p].at THEN [reports[i] EXCEPT !.amended = TRUE] ELSE reports[i]]
  /\ Return(p)
  /\ UNCHANGED <<dealVars, sessionVars>>

\* The invitation path of the first product version.
JoinRead(p, u) ==
  /\ "join" \in TwoStepOps /\ Idle(p)
  /\ u \in Users \ {BuyerId}
  /\ status = "CREATED"
  /\ Begin(p, "join", u, 0)
  /\ UNCHANGED <<dealVars, reports, sessionVars>>

JoinSeller(p) ==
  /\ call[p].op = "join" /\ call[p].at = 0
  /\ sellerId' = call[p].by
  /\ status' = "JOINED"
  /\ Begin(p, "join", call[p].by, 1)
  /\ UNCHANGED <<payerRole, agreed, acceptedBy, expiresAt, completed, verifiedBy,
                 locks, reports, sessionVars>>

JoinPayment(p) ==
  /\ call[p].op = "join" /\ call[p].at = 1
  /\ status' = "AWAITING_PAYMENT"
  /\ expiresAt' = "running"
  /\ Return(p)
  /\ UNCHANGED <<sellerId, payerRole, agreed, acceptedBy, completed, verifiedBy,
                 locks, reports, sessionVars>>

\* The instance is stopped between two of its database calls.
Crash(p) ==
  /\ ~Idle(p)
  /\ Return(p)
  /\ UNCHANGED <<dealVars, reports, sessionVars>>

-----------------------------------------------------------------------------

Transaction ==
  \/ \E u \in Users : AgreeToDeal(u) \/ ReportPayment(u)
  \/ \E a \in Admins : \/ AdminAccept(a) \/ VerifyPayment(a)
                       \/ AskRejectReason(a) \/ DropReason(a) \/ RejectPayment(a)
                       \/ RequestEvidence(a)

Step(p) ==
  \/ \E u \in Users : CancelRead(p, u) \/ JoinRead(p, u)
  \/ CancelWrite(p)
  \/ ExpireRead(p) \/ ExpireWrite(p)
  \/ EvidenceRead(p) \/ EvidenceWrite(p)
  \/ JoinSeller(p) \/ JoinPayment(p)
  \/ Crash(p)

Next ==
  \/ (\E p \in Instances : Idle(p)) /\ Transaction
  \/ \E p \in Instances : Step(p)
  \/ DeadlinePasses

Spec == Init /\ [][Next]_vars
-----------------------------------------------------------------------------
(* Properties                                                              *)

\* A rejection or verification decides one report: at most one is verified.
Verified == {i \in DOMAIN reports : reports[i].status = "VERIFIED"}

\* The statuses in which money of the payer may be on its way or with the
\* escrow admin.
PayingStates == {"AWAITING_PAYMENT", "PAYMENT_REPORTED", "PAYMENT_RECEIVED"}

\* Every column, session slot and call record holds a value of its type: in
\* particular a report carries one of the three PaymentReportStatus values.
TypeOK ==
  /\ status \in Status
  /\ sellerId \in Users
  /\ payerRole \in Parties
  /\ agreed \subseteq Parties
  /\ acceptedBy \in Admins \cup {None}
  /\ expiresAt \in {"none", "running", "past"}
  /\ completed \in BOOLEAN
  /\ verifiedBy \in Admins \cup {None}
  /\ reports \in Seq(Report)
  /\ locks \in Nat
  /\ rejecting \subseteq Admins
  /\ evidenceAsked \in BOOLEAN
  /\ call \in [Instances -> Calls \cup {NoCall}]

\* A deal waits for a verdict exactly when one report of it does: every other
\* report was decided by verifyPayment or rejectPayment before the payer could
\* report again.  Only closing the deal may leave a report pending.
PendingReportInv ==
  /\ \A i, j \in Pending : i = j
  /\ status = "PAYMENT_REPORTED" => Pending # {}
  /\ Pending # {} => status \in {"PAYMENT_REPORTED", "CANCELLED", "EXPIRED"}

\* Nobody is asked for money, or has paid, before both parties agreed to the
\* posted terms and an escrow admin took the deal (adminAccept), although
\* rejectPayment moves a deal to AWAITING_PAYMENT without looking at either.
AgreedBeforePayment ==
  status \in PayingStates => agreed = Parties /\ acceptedBy # None

\* A confirmed payment was confirmed by the admin who accepted the deal, on a
\* report of the payer: no other escrow admin gets there first.
ReceivedByAcceptor ==
  verifiedBy # None =>
    /\ verifiedBy = acceptedBy
    /\ \E i \in Verified : reports[i].verifiedBy = acceptedBy

\* The payment history gets one ESCROW_LOCK row for the deal, together with the
\* one report that is verified, however the admins' confirmations, rejections
\* and the unlocked writes interleave.
RecordedOnce ==
  /\ locks <= 1
  /\ locks = 0 <=> Verified = {}
  /\ \A i, j \in Verified : i = j

\* completed_at is set on the deals that ended and on no other, also when a
\* stale write of cancel or expireDeals replaces one ending by another.
CompletedIffTerminal == completed <=> status \in TerminalStates

\* Two admins who press Accept at the same time cannot both own the deal, and a
\* rejected payment does not open it to another admin (adminAccept).
AcceptanceIsFinal == [][acceptedBy # None => acceptedBy' = acceptedBy]_vars

\* With one thread of control every status change is a row of the transition
\* table, also those that expireDeals and join write without asking it.
StatusChangesAreTransitions ==
  [][\E by \in Roles : CanTransition(status, status', by)]_status

\* A deal that reached a terminal status keeps it.
TerminalIsFinal == [][(status \in TerminalStates) => status' = status]_vars

\* With one thread of control the deal is PAYMENT_RECEIVED exactly when a
\* report is verified: no reason, cancellation or sweep that arrives late parts
\* the deal's status from its payment history.
StatusMatchesReports == status = "PAYMENT_RECEIVED" <=> Verified # {}

\* With one thread of control a report that was decided is an audit record:
\* late evidence does not change it (submitEvidence).
DecidedReportsFrozen ==
  [][\A i \in DOMAIN reports :
       reports[i].status # "PENDING" => reports'[i] = reports[i]]_reports

\* With one thread of control the flow keeps the promise of EscrowPromise: one
\* acceptance, verdicts by the acceptor on a reported payment only, and nothing
\* after the payment is received or the deal closed.
PhaseOf == [CREATED |-> "open", AWAITING_PAYMENT |-> "accepted",
            PAYMENT_REPORTED |-> "reported", PAYMENT_RECEIVED |-> "received",
            CANCELLED |-> "closed", EXPIRED |-> "closed"]
Promise == INSTANCE EscrowPromise WITH phase <- PhaseOf[status], acceptor <- acceptedBy
KeepsPromise == Promise!PromiseSpec
=============================================================================
