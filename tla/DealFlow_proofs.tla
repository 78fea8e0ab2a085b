--------------------------- MODULE DealFlow_proofs ---------------------------
(***************************************************************************)
(* What holds of DealFlow for every set of users, admins and instances.    *)
(*                                                                         *)
(* Two assumptions divide the results.  NoJoin leaves out the invitation   *)
(* path of the first product version, which binds a seller and opens the   *)
(* deal for payment without agreement or acceptance.  OneThread says that  *)
(* one thread of control runs all operations, as one polling bot does.     *)
(***************************************************************************)
EXTENDS DealFlow, SequenceTheorems, WellFoundedInduction, TLAPS

NoJoin == "join" \notin TwoStepOps
OneThread == \E p \in Instances : Instances = {p}

-----------------------------------------------------------------------------
(* Types                                                                   *)

\* A verdict keeps the reports a sequence of reports of the same length.
LEMMA DecideType ==
  ASSUME reports \in Seq(Report), NEW a \in Users, NEW v \in {"VERIFIED", "REJECTED"}
  PROVE  /\ Decide(a, v) \in Seq(Report)
         /\ DOMAIN Decide(a, v) = DOMAIN reports
  <1> DEFINE d == Decide(a, v)
             w(r) == IF v = "VERIFIED" THEN a ELSE r.verifiedBy
             m(r) == [r EXCEPT !.status = v, !.verifiedBy = w(r)]
  <1>1. DOMAIN d = DOMAIN reports
    BY DEF Decide
  <1>2. ASSUME NEW i \in DOMAIN reports
        PROVE  d[i] \in Report
    <2>1. reports[i] \in Report
      BY <1>2
    <2>2. m(reports[i]) \in Report
      BY <2>1 DEF Report
    <2>3. d[i] \in {reports[i], m(reports[i])}
      BY <1>2 DEF Decide
    <2> QED
      BY <2>1, <2>2, <2>3
  <1>3. DOMAIN reports = 1 .. Len(reports) /\ Len(reports) \in Nat
    OBVIOUS
  <1>4. d \in [1 .. Len(reports) -> Report]
    <2>1. d = [i \in DOMAIN reports |-> d[i]]
      BY DEF Decide
    <2> QED
      BY <1>2, <1>3, <2>1
  <1>5. d \in Seq(Report)
    BY <1>3, <1>4, SeqDef
  <1> QED
    BY <1>1, <1>5

\* A nonempty set of report numbers has a greatest element.
LEMMA GreatestExists ==
  ASSUME NEW n \in Nat, NEW S \in SUBSET (1 .. n), S # {}
  PROVE  Max(S) \in S /\ \A y \in S : Max(S) >= y
  <1> DEFINE T == {n - x : x \in S}
  <1>1. T \subseteq Nat /\ T # {}
    <2>1. \A x \in S : n - x \in Nat
      OBVIOUS
    <2>2. PICK x \in S : TRUE
      OBVIOUS
    <2>3. n - x \in T
      OBVIOUS
    <2> QED
      BY <2>1, <2>3
  <1>2. PICK m \in T : \A y \in T : ~ (<<y, m>> \in OpToRel(<, Nat))
    BY <1>1, NatLessThanWellFounded, WFMin
  <1>3. PICK x \in S : m = n - x
    OBVIOUS
  <1>4. \A y \in S : x >= y
    <2> TAKE y \in S
    <2>1. n - y \in T /\ n - y \in Nat /\ m \in Nat
      BY <1>1
    <2>2. ~ (n - y < m)
      BY <1>2, <2>1 DEF OpToRel
    <2> QED
      BY <1>3, <2>2
  <1> HIDE DEF T
  <1> QED
    BY <1>4 DEF Max

\* Evidence goes to the deal row or to an existing, pending report.
LEMMA EvidenceTargetType ==
  ASSUME reports \in Seq(Report)
  PROVE  EvidenceTarget \in Nat /\ (EvidenceTarget # 0 => EvidenceTarget \in Pending)
  <1>1. Pending \in SUBSET (1 .. Len(reports)) /\ Len(reports) \in Nat
    BY DEF Pending, PendingIn
  <1>2. CASE Pending = {}
    BY <1>2 DEF EvidenceTarget
  <1>3. CASE Pending # {}
    <2>1. Max(Pending) \in Pending
      BY <1>1, <1>3, GreatestExists
    <2>2. EvidenceTarget = Max(Pending)
      BY <1>3 DEF EvidenceTarget
    <2>3. EvidenceTarget \in Pending
      BY <2>1, <2>2
    <2> QED
      BY <1>1, <2>3
  <1> QED
    BY <1>2, <1>3

\* Amending a report keeps the reports a sequence of reports.
LEMMA AmendType ==
  ASSUME reports \in Seq(Report), NEW n
  PROVE  [i \in DOMAIN reports |->
            IF i = n THEN [reports[i] EXCEPT !.amended = TRUE] ELSE reports[i]]
           \in Seq(Report)
  <1> DEFINE d == [i \in DOMAIN reports |->
                    IF i = n THEN [reports[i] EXCEPT !.amended = TRUE] ELSE reports[i]]
  <1>1. \A i \in DOMAIN reports : d[i] \in Report
    <2> TAKE i \in DOMAIN reports
    <2>1. reports[i] \in Report
      OBVIOUS
    <2>2. [reports[i] EXCEPT !.amended = TRUE] \in Report
      BY <2>1 DEF Report
    <2>3. d[i] \in {reports[i], [reports[i] EXCEPT !.amended = TRUE]}
      OBVIOUS
    <2> QED
      BY <2>1, <2>2, <2>3
  <1>2. DOMAIN reports = 1 .. Len(reports) /\ Len(reports) \in Nat
    OBVIOUS
  <1>3. d \in [1 .. Len(reports) -> Report]
    BY <1>1, <1>2
  <1> QED
    BY <1>2, <1>3, SeqDef

\* TypeOK is inductive: every operation of every instance, in any order and cut
\* short anywhere, leaves columns, session slots and call records well-typed.
LEMMA TypeStep == TypeOK /\ [Next]_vars => TypeOK'
  <1> SUFFICES ASSUME TypeOK, [Next]_vars
               PROVE  TypeOK'
    OBVIOUS
  <1> USE DealFlowAssumption
  <1>1. ASSUME NEW u \in Users, AgreeToDeal(u)
        PROVE  TypeOK'
    BY <1>1 DEF AgreeToDeal, TypeOK, RoleOf, Parties, Buyer, Seller, Admin, sessionVars
  <1>2. ASSUME NEW u \in Users, ReportPayment(u)
        PROVE  TypeOK'
    BY <1>2 DEF ReportPayment, TypeOK, Report, Status, ActiveStates, GroupFlowStates, sessionVars
  <1>3. ASSUME NEW a \in Admins, AdminAccept(a)
        PROVE  TypeOK'
    BY <1>3 DEF AdminAccept, Accepted, TypeOK, Status, ActiveStates, GroupFlowStates, sessionVars
  <1>4. ASSUME NEW a \in Admins, VerifyPayment(a)
        PROVE  TypeOK'
    BY <1>4, DecideType DEF VerifyPayment, TypeOK, Status, TerminalStates, sessionVars
  <1>5. ASSUME NEW a \in Admins, AskRejectReason(a) \/ DropReason(a) \/ RequestEvidence(a)
        PROVE  TypeOK'
    BY <1>5 DEF AskRejectReason, DropReason, RequestEvidence, TypeOK, dealVars
  <1>6. ASSUME NEW a \in Admins, RejectPayment(a)
        PROVE  TypeOK'
    BY <1>6, DecideType DEF RejectPayment, TypeOK, Status, ActiveStates, GroupFlowStates
  <1>7. ASSUME DeadlinePasses
        PROVE  TypeOK'
    BY <1>7 DEF DeadlinePasses, TypeOK, sessionVars
  <1>8. ASSUME NEW p \in Instances, NEW u \in Users, CancelRead(p, u) \/ JoinRead(p, u)
        PROVE  TypeOK'
    BY <1>8 DEF CancelRead, JoinRead, Begin, Calls, TypeOK, dealVars, sessionVars
  <1>9. ASSUME NEW p \in Instances, CancelWrite(p) \/ ExpireWrite(p)
        PROVE  TypeOK'
    BY <1>9 DEF CancelWrite, ExpireWrite, CloseAs, Return, TypeOK, Status, TerminalStates,
                sessionVars
  <1>10. ASSUME NEW p \in Instances, ExpireRead(p)
         PROVE  TypeOK'
    BY <1>10 DEF ExpireRead, Begin, Calls, TypeOK, dealVars, sessionVars
  <1>11. ASSUME NEW p \in Instances, Crash(p)
         PROVE  TypeOK'
    BY <1>11 DEF Crash, Return, TypeOK, dealVars, sessionVars
  <1>12. ASSUME NEW p \in Instances, EvidenceRead(p)
         PROVE  TypeOK'
    BY <1>12, EvidenceTargetType DEF EvidenceRead, Begin, Calls, TypeOK, dealVars, sessionVars
  <1>13. ASSUME NEW p \in Instances, EvidenceWrite(p)
         PROVE  TypeOK'
    BY <1>13, AmendType DEF EvidenceWrite, Return, TypeOK, dealVars, sessionVars
  <1>14. ASSUME NEW p \in Instances, JoinSeller(p)
         PROVE  TypeOK'
    BY <1>14 DEF JoinSeller, Begin, Calls, NoCall, TypeOK, Status, ActiveStates, GroupFlowStates,
                 sessionVars
  <1>15. ASSUME NEW p \in Instances, JoinPayment(p)
         PROVE  TypeOK'
    BY <1>15 DEF JoinPayment, Return, TypeOK, Status, ActiveStates, GroupFlowStates, sessionVars
  <1>16. ASSUME UNCHANGED vars
         PROVE  TypeOK'
    BY <1>16 DEF vars, dealVars, sessionVars, TypeOK
  <1> QED
    BY <1>1, <1>2, <1>3, <1>4, <1>5, <1>6, <1>7, <1>8, <1>9, <1>10, <1>11, <1>12, <1>13,
       <1>14, <1>15, <1>16
       DEF Next, Transaction, Step

LEMMA TypeInit == Init => TypeOK
  <1> SUFFICES ASSUME Init
               PROVE  TypeOK
    OBVIOUS
  <1>1. call \in [Instances -> Calls \cup {NoCall}]
    BY DEF Init
  <1>2. reports \in Seq(Report)
    BY DEF Init
  <1> QED
    BY <1>1, <1>2, DealFlowAssumption
       DEF Init, TypeOK, Status, ActiveStates, GroupFlowStates, Parties

\* At every moment of every run the stored deal, its reports and the sessions
\* hold values of the types the schema gives them.
THEOREM TypeCorrect == Spec => []TypeOK
  BY TypeInit, TypeStep, PTL DEF Spec

-----------------------------------------------------------------------------
(* Agreement and acceptance come before the money                          *)

\* The statuses a deal can take when nobody joins by invitation.
FlowStates == {"CREATED", "AWAITING_PAYMENT", "PAYMENT_REPORTED", "PAYMENT_RECEIVED",
               "CANCELLED", "EXPIRED"}

\* AgreedBeforePayment alone is not inductive: RejectPayment may move a deal to
\* AWAITING_PAYMENT from CREATED as well.  It never does, because an admin is
\* asked for a reason only once there is a report, and there is a report only
\* once the deal was accepted, which CREATED excludes.
FlowInv ==
  /\ \A p \in Instances : call[p].op # "join"
  /\ status \in FlowStates
  /\ acceptedBy # None => agreed = Parties /\ status # "CREATED"
  /\ status \in PayingStates => acceptedBy # None
  /\ reports # <<>> => acceptedBy # None
  /\ rejecting # {} => reports # <<>>

\* What the transition table says of the targets the group flow asks for.
LEMMA TableFacts ==
  ASSUME NEW s
  PROVE  /\ CanTransition(s, "AWAITING_PAYMENT", Admin) => s \in {"CREATED", "PAYMENT_REPORTED"}
         /\ \A by \in Parties :
              CanTransition(s, "PAYMENT_REPORTED", by) <=> s = "AWAITING_PAYMENT"
         /\ CanTransition(s, "PAYMENT_RECEIVED", Admin) <=> s = "PAYMENT_REPORTED"
         /\ \A by \in Roles : CanTransition(s, "CANCELLED", by) =>
              s \in GroupFlowStates \cup {"AWAITING_FUNDING"}
  BY DEF CanTransition, Transitions, PaymentTransitions, SettlementTransitions,
         ClosingTransitions, CustodialTransitions, Rows, Roles, Parties, Buyer, Seller,
         Admin, System, GroupFlowStates

LEMMA FlowStep ==
  ASSUME NoJoin, TypeOK, FlowInv, [Next]_vars
  PROVE  FlowInv'
  <1> USE DealFlowAssumption
  <1>1. ASSUME NEW u \in Users, AgreeToDeal(u)
        PROVE  FlowInv'
    BY <1>1 DEF AgreeToDeal, FlowInv, TypeOK, PayingStates, sessionVars
  <1>2. ASSUME NEW u \in Users, ReportPayment(u)
        PROVE  FlowInv'
    <2>1. status = "AWAITING_PAYMENT"
      BY <1>2, TableFacts DEF ReportPayment, Parties
    <2> QED
      BY <1>2, <2>1 DEF ReportPayment, FlowInv, TypeOK, FlowStates, PayingStates, sessionVars
  <1>3. ASSUME NEW a \in Admins, AdminAccept(a)
        PROVE  FlowInv'
    BY <1>3 DEF AdminAccept, Accepted, FlowInv, FlowStates, PayingStates, sessionVars
  <1>4. ASSUME NEW a \in Admins, VerifyPayment(a)
        PROVE  FlowInv'
    <2>1. status = "PAYMENT_REPORTED"
      BY <1>4, TableFacts DEF VerifyPayment, Verifiable
    <2>2. reports' \in Seq(Report) /\ DOMAIN reports' = DOMAIN reports /\ reports # <<>>
      BY <1>4, DecideType DEF VerifyPayment, TypeOK
    <2>3. reports' # <<>>
      BY <2>2 DEF TypeOK
    <2> QED
      BY <1>4, <2>1, <2>3 DEF VerifyPayment, FlowInv, FlowStates, PayingStates, sessionVars
  <1>5. ASSUME NEW a \in Admins, AskRejectReason(a) \/ DropReason(a) \/ RequestEvidence(a)
        PROVE  FlowInv'
    BY <1>5 DEF AskRejectReason, DropReason, RequestEvidence, FlowInv, dealVars
  <1>6. ASSUME NEW a \in Admins, RejectPayment(a)
        PROVE  FlowInv'
    <2>1. acceptedBy # None /\ reports # <<>> /\ status # "CREATED"
      BY <1>6 DEF RejectPayment, FlowInv
    <2>2. CASE Rejectable(a)
      <3>1. reports' \in Seq(Report) /\ DOMAIN reports' = DOMAIN reports
        BY <1>6, <2>2, DecideType DEF RejectPayment, TypeOK
      <3>2. reports' # <<>>
        BY <2>1, <3>1 DEF TypeOK
      <3> QED
        BY <1>6, <2>1, <2>2, <3>2 DEF RejectPayment, FlowInv, FlowStates, PayingStates
    <2>3. CASE ~Rejectable(a)
      BY <1>6, <2>1, <2>3 DEF RejectPayment, FlowInv, FlowStates, PayingStates
    <2> QED
      BY <2>2, <2>3
  <1>7. ASSUME DeadlinePasses
        PROVE  FlowInv'
    BY <1>7 DEF DeadlinePasses, FlowInv, sessionVars
  <1>8. ASSUME NEW p \in Instances, NEW u \in Users, CancelRead(p, u)
        PROVE  FlowInv'
    BY <1>8 DEF CancelRead, Begin, FlowInv, TypeOK, dealVars, sessionVars
  <1>9. ASSUME NEW p \in Instances, CancelWrite(p) \/ ExpireWrite(p)
        PROVE  FlowInv'
    BY <1>9 DEF CancelWrite, ExpireWrite, CloseAs, Return, NoCall, FlowInv, FlowStates,
                PayingStates, TypeOK, sessionVars
  <1>10. ASSUME NEW p \in Instances, ExpireRead(p) \/ EvidenceRead(p)
         PROVE  FlowInv'
    BY <1>10 DEF ExpireRead, EvidenceRead, Begin, FlowInv, TypeOK, dealVars, sessionVars
  <1>11. ASSUME NEW p \in Instances, Crash(p)
         PROVE  FlowInv'
    BY <1>11 DEF Crash, Return, NoCall, FlowInv, TypeOK, dealVars, sessionVars
  <1>12. ASSUME NEW p \in Instances, EvidenceWrite(p)
         PROVE  FlowInv'
    <2>1. reports' \in Seq(Report) /\ DOMAIN reports' = DOMAIN reports
      BY <1>12, AmendType DEF EvidenceWrite, TypeOK
    <2>2. reports' # <<>> <=> reports # <<>>
      BY <2>1 DEF TypeOK
    <2> QED
      BY <1>12, <2>2 DEF EvidenceWrite, Return, NoCall, FlowInv, TypeOK, dealVars, sessionVars
  <1>13. ASSUME NEW p \in Instances, NEW u \in Users,
                JoinRead(p, u) \/ JoinSeller(p) \/ JoinPayment(p)
         PROVE  FlowInv'
    BY <1>13 DEF JoinRead, JoinSeller, JoinPayment, NoJoin, FlowInv
  <1>14. ASSUME UNCHANGED vars
         PROVE  FlowInv'
    BY <1>14 DEF vars, dealVars, sessionVars, FlowInv
  <1> QED
    BY <1>1, <1>2, <1>3, <1>4, <1>5, <1>6, <1>7, <1>8, <1>9, <1>10, <1>11, <1>12, <1>13, <1>14
       DEF Next, Transaction, Step

LEMMA FlowInit == Init => FlowInv
  BY DEF Init, FlowInv, FlowStates, PayingStates, NoCall

LEMMA FlowInvariant ==
  ASSUME NoJoin
  PROVE  Spec => []FlowInv
  <1>1. TypeOK /\ FlowInv /\ [Next]_vars => FlowInv'
    BY FlowStep
  <1> QED
    BY TypeCorrect, FlowInit, <1>1, PTL DEF Spec

\* Whatever the number of bot instances, and however their unlocked writes
\* overlap, a deal that asks for or has received money was agreed to by both
\* parties and accepted by an admin.
THEOREM AgreementComesFirst ==
  ASSUME NoJoin
  PROVE  Spec => []AgreedBeforePayment
  <1>1. FlowInv => AgreedBeforePayment
    BY DEF FlowInv, AgreedBeforePayment
  <1> QED
    BY FlowInvariant, <1>1, PTL

-----------------------------------------------------------------------------
(* The verdict on the payment and its history                              *)

\* RecordedOnce needs that a verified deal never comes back to
\* PAYMENT_REPORTED, also not through a stale write, which only replaces one
\* terminal status by another.
HistoryInv ==
  /\ PendingReportInv
  /\ RecordedOnce
  /\ ReceivedByAcceptor
  /\ CompletedIffTerminal
  /\ locks # 0 => status \in TerminalStates

\* With one pending report, the verdict decides that one and no other.
LEMMA DecideFacts ==
  ASSUME TypeOK, PendingReportInv, Pending # {},
         NEW a \in Users, NEW v \in {"VERIFIED", "REJECTED"}
  PROVE  \E n \in DOMAIN reports :
           /\ Pending = {n}
           /\ Decide(a, v)[n].status = v
           /\ v = "VERIFIED" => Decide(a, v)[n].verifiedBy = a
           /\ \A i \in DOMAIN reports \ {n} : Decide(a, v)[i] = reports[i]
  <1>1. PICK n \in Pending : Pending = {n}
    BY DEF PendingReportInv
  <1>2. n \in DOMAIN reports /\ n \in Nat /\ reports[n] \in Report
    BY <1>1 DEF Pending, PendingIn, TypeOK
  <1>3. Max(Pending) = n
    BY <1>1, <1>2 DEF Max
  <1>4. Decide(a, v)[n] = [reports[n] EXCEPT !.status = v,
                             !.verifiedBy = IF v = "VERIFIED" THEN a ELSE @]
    BY <1>1, <1>2, <1>3 DEF Decide
  <1>5. \A i \in DOMAIN reports \ {n} : Decide(a, v)[i] = reports[i]
    BY <1>1, <1>2, <1>3 DEF Decide
  <1>6. /\ Decide(a, v)[n].status = v
        /\ v = "VERIFIED" => Decide(a, v)[n].verifiedBy = a
    BY <1>2, <1>4 DEF Report
  <1> QED
    BY <1>1, <1>2, <1>5, <1>6

\* Steps that leave the reports and their verdict alone, and the status as well
\* or replace it by an ending.
LEMMA HistoryUntouched ==
  ASSUME TypeOK, HistoryInv,
         UNCHANGED <<reports, locks, verifiedBy, acceptedBy>>,
         \/ UNCHANGED <<status, completed>>
         \/ completed' = TRUE /\ status' \in {"CANCELLED", "EXPIRED"}
         \/ completed' = completed /\ status \in ActiveStates /\ Pending = {} /\ status' = "AWAITING_PAYMENT"
  PROVE  HistoryInv'
  BY DEF HistoryInv, PendingReportInv, RecordedOnce, ReceivedByAcceptor, CompletedIffTerminal,
         Pending, PendingIn, Verified, TerminalStates, ActiveStates, GroupFlowStates,
         EscrowStates, CustodialStates, TypeOK

\* A reported payment is turned down by the admin who holds the deal.
LEMMA HistoryReject ==
  ASSUME TypeOK, FlowInv, HistoryInv, NEW a \in Admins, RejectPayment(a), Rejectable(a)
  PROVE  HistoryInv'
  <1>1. a \in Users
    BY DealFlowAssumption
  <1>2. status = "PAYMENT_REPORTED"
    BY TableFacts DEF Rejectable, RejectPayment, FlowInv
  <1>3. Pending # {} /\ PendingReportInv /\ locks = 0 /\ Verified = {} /\ completed = FALSE
    BY <1>2 DEF HistoryInv, PendingReportInv, RecordedOnce, CompletedIffTerminal, TerminalStates,
                TypeOK
  <1>4. PICK n \in DOMAIN reports :
          /\ Pending = {n}
          /\ Decide(a, "REJECTED")[n].status = "REJECTED"
          /\ \A i \in DOMAIN reports \ {n} : Decide(a, "REJECTED")[i] = reports[i]
    BY <1>1, <1>3, DecideFacts
  <1>5. /\ reports' = Decide(a, "REJECTED")
        /\ DOMAIN reports' = DOMAIN reports
    BY <1>1, DecideType DEF RejectPayment, TypeOK
  <1>6. Pending' = {} /\ Verified' = {}
    BY <1>3, <1>4, <1>5 DEF Pending, PendingIn, Verified
  <1>7. status' = "AWAITING_PAYMENT" /\ verifiedBy' = None /\ UNCHANGED <<locks, completed>>
    BY DEF RejectPayment
  <1> QED
    BY <1>3, <1>6, <1>7 DEF HistoryInv, PendingReportInv, RecordedOnce, ReceivedByAcceptor,
                            CompletedIffTerminal, TerminalStates

\* The payment is confirmed.
LEMMA HistoryVerify ==
  ASSUME TypeOK, FlowInv, HistoryInv, NEW a \in Admins, VerifyPayment(a)
  PROVE  HistoryInv'
  <1>1. a \in Users
    BY DealFlowAssumption
  <1>2. status = "PAYMENT_REPORTED" /\ acceptedBy = a
    BY TableFacts DEF VerifyPayment, Verifiable, MayDecide, FlowInv
  <1>3. Pending # {} /\ PendingReportInv /\ locks = 0 /\ Verified = {}
    BY <1>2 DEF HistoryInv, PendingReportInv, RecordedOnce, TerminalStates
  <1>4. PICK n \in DOMAIN reports :
          /\ Pending = {n}
          /\ Decide(a, "VERIFIED")[n].status = "VERIFIED"
          /\ Decide(a, "VERIFIED")[n].verifiedBy = a
          /\ \A i \in DOMAIN reports \ {n} : Decide(a, "VERIFIED")[i] = reports[i]
    BY <1>1, <1>3, DecideFacts
  <1>5. /\ reports' = Decide(a, "VERIFIED")
        /\ DOMAIN reports' = DOMAIN reports
    BY <1>1, DecideType DEF VerifyPayment, TypeOK
  <1>6. Pending' = {} /\ Verified' = {n}
    BY <1>3, <1>4, <1>5 DEF Pending, PendingIn, Verified
  <1>7. /\ status' = "PAYMENT_RECEIVED" /\ verifiedBy' = a /\ acceptedBy' = a
        /\ completed' = TRUE /\ locks' = 1
    BY <1>2, <1>3 DEF VerifyPayment
  <1>8. reports'[n].verifiedBy = acceptedBy'
    BY <1>4, <1>5, <1>7
  <1> QED
    BY <1>6, <1>7, <1>8 DEF HistoryInv, PendingReportInv, RecordedOnce, ReceivedByAcceptor,
                            CompletedIffTerminal, TerminalStates

\* The payer reports, which only a deal without a pending report allows.
LEMMA HistoryReport ==
  ASSUME TypeOK, HistoryInv, NEW u \in Users, ReportPayment(u)
  PROVE  HistoryInv'
  <1>1. status = "AWAITING_PAYMENT"
    BY TableFacts DEF ReportPayment, Parties
  <1>2. Pending = {} /\ locks = 0 /\ Verified = {} /\ completed = FALSE /\ verifiedBy = None
    BY <1>1 DEF HistoryInv, PendingReportInv, RecordedOnce, ReceivedByAcceptor,
                CompletedIffTerminal, TerminalStates, TypeOK
  <1> DEFINE n == Len(reports) + 1
  <1>3. /\ DOMAIN reports = 1 .. Len(reports) /\ Len(reports) \in Nat
        /\ DOMAIN reports' = 1 .. n
        /\ reports'[n].status = "PENDING"
        /\ \A i \in DOMAIN reports : reports'[i] = reports[i]
    BY DEF ReportPayment, TypeOK
  <1>4. Pending' = {n} /\ Verified' = {}
    BY <1>2, <1>3 DEF Pending, PendingIn, Verified
  <1>5. status' = "PAYMENT_REPORTED" /\ UNCHANGED <<verifiedBy, locks, completed>>
    BY DEF ReportPayment
  <1> QED
    BY <1>2, <1>4, <1>5 DEF HistoryInv, PendingReportInv, RecordedOnce, ReceivedByAcceptor,
                            CompletedIffTerminal, TerminalStates

\* Evidence, however late, changes no verdict.
LEMMA HistoryEvidence ==
  ASSUME TypeOK, HistoryInv, NEW p \in Instances, EvidenceWrite(p)
  PROVE  HistoryInv'
  <1>1. /\ DOMAIN reports' = DOMAIN reports
        /\ \A i \in DOMAIN reports : /\ reports'[i].status = reports[i].status
                                     /\ reports'[i].verifiedBy = reports[i].verifiedBy
    <2>1. DOMAIN reports' = DOMAIN reports
      BY DEF EvidenceWrite
    <2>2. ASSUME NEW i \in DOMAIN reports
          PROVE  /\ reports'[i].status = reports[i].status
                 /\ reports'[i].verifiedBy = reports[i].verifiedBy
      <3>1. reports[i] \in Report
        BY <2>2 DEF TypeOK
      <3>2. reports'[i] \in {reports[i], [reports[i] EXCEPT !.amended = TRUE]}
        BY <2>2 DEF EvidenceWrite
      <3> QED
        BY <3>1, <3>2 DEF Report
    <2> QED
      BY <2>1, <2>2
  <1>2. Pending' = Pending /\ Verified' = Verified
    BY <1>1 DEF Pending, PendingIn, Verified
  <1>3. UNCHANGED <<status, acceptedBy, verifiedBy, locks, completed>>
    BY DEF EvidenceWrite, dealVars
  <1>4. Verified \subseteq DOMAIN reports
    BY DEF Verified
  <1> QED
    BY <1>1, <1>2, <1>3, <1>4 DEF HistoryInv, PendingReportInv, RecordedOnce, ReceivedByAcceptor,
                                  CompletedIffTerminal

LEMMA HistoryStep ==
  ASSUME NoJoin, TypeOK, FlowInv, HistoryInv, [Next]_vars
  PROVE  HistoryInv'
  <1>1. ASSUME NEW u \in Users, AgreeToDeal(u)
        PROVE  HistoryInv'
    BY <1>1, HistoryUntouched DEF AgreeToDeal
  <1>2. ASSUME NEW a \in Admins, AdminAccept(a)
        PROVE  HistoryInv'
    <2>1. acceptedBy = None /\ acceptedBy \notin Users
      BY <1>2, DealFlowAssumption DEF AdminAccept
    <2>2. status = "CREATED" /\ reports = <<>>
      BY <1>2, <2>1, TableFacts DEF AdminAccept, FlowInv, PayingStates
    <2>3. Pending = {} /\ Verified = {}
      BY <2>2 DEF Pending, PendingIn, Verified
    <2>4. verifiedBy = None
      BY <2>3 DEF HistoryInv, ReceivedByAcceptor
    <2>5. UNCHANGED <<reports, locks, verifiedBy, completed>> /\ status' = "AWAITING_PAYMENT"
      BY <1>2 DEF AdminAccept, Accepted
    <2>6. Pending' = {} /\ Verified' = {}
      BY <2>3, <2>5 DEF Pending, PendingIn, Verified
    <2> QED
      BY <2>2, <2>3, <2>4, <2>5, <2>6
         DEF HistoryInv, PendingReportInv, RecordedOnce, ReceivedByAcceptor,
             CompletedIffTerminal, TerminalStates
  <1>3. ASSUME NEW a \in Admins, AskRejectReason(a) \/ DropReason(a) \/ RequestEvidence(a)
        PROVE  HistoryInv'
    BY <1>3, HistoryUntouched DEF AskRejectReason, DropReason, RequestEvidence, dealVars
  <1>4. ASSUME NEW a \in Admins, RejectPayment(a), ~Rejectable(a)
        PROVE  HistoryInv'
    BY <1>4, HistoryUntouched DEF RejectPayment
  <1>5. ASSUME DeadlinePasses
        PROVE  HistoryInv'
    BY <1>5, HistoryUntouched DEF DeadlinePasses
  <1>6. ASSUME NEW p \in Instances, NEW u \in Users,
               \/ CancelRead(p, u) \/ ExpireRead(p) \/ EvidenceRead(p) \/ Crash(p)
               \/ UNCHANGED vars
        PROVE  HistoryInv'
    BY <1>6, HistoryUntouched DEF CancelRead, ExpireRead, EvidenceRead, Crash, vars, dealVars
  <1>7. ASSUME NEW p \in Instances, CancelWrite(p) \/ ExpireWrite(p)
        PROVE  HistoryInv'
    BY <1>7, HistoryUntouched DEF CancelWrite, ExpireWrite, CloseAs
  <1>8. ASSUME NEW p \in Instances, NEW u \in Users,
               JoinRead(p, u) \/ JoinSeller(p) \/ JoinPayment(p)
        PROVE  HistoryInv'
    BY <1>8 DEF JoinRead, JoinSeller, JoinPayment, NoJoin, FlowInv
  <1>9. ASSUME UNCHANGED vars
        PROVE  HistoryInv'
    BY <1>9, HistoryUntouched DEF vars, dealVars
  <1> QED
    BY <1>1, <1>2, <1>3, <1>4, <1>5, <1>6, <1>7, <1>8, <1>9, DealFlowAssumption,
       HistoryReject, HistoryVerify, HistoryReport, HistoryEvidence
       DEF Next, Transaction, Step

LEMMA HistoryInit == Init => HistoryInv
  BY DEF Init, HistoryInv, PendingReportInv, RecordedOnce, ReceivedByAcceptor,
         CompletedIffTerminal, Pending, PendingIn, Verified, TerminalStates

LEMMA HistoryInvariant ==
  ASSUME NoJoin
  PROVE  Spec => []HistoryInv
  <1>1. TypeOK /\ FlowInv /\ HistoryInv /\ [Next]_vars => HistoryInv'
    BY HistoryStep
  <1> QED
    BY TypeCorrect, FlowInvariant, HistoryInit, <1>1, PTL DEF Spec

\* A deal waits for a verdict exactly when one of its reports does.
THEOREM OneReportPending ==
  ASSUME NoJoin
  PROVE  Spec => []PendingReportInv
  <1>1. HistoryInv => PendingReportInv
    BY DEF HistoryInv
  <1> QED
    BY HistoryInvariant, <1>1, PTL

\* Only the admin who accepted the deal ever confirms its payment.
THEOREM AcceptorConfirms ==
  ASSUME NoJoin
  PROVE  Spec => []ReceivedByAcceptor
  <1>1. HistoryInv => ReceivedByAcceptor
    BY DEF HistoryInv
  <1> QED
    BY HistoryInvariant, <1>1, PTL

\* No interleaving of confirmations, rejections and stale writes records the
\* payment twice.
THEOREM PaymentRecordedOnce ==
  ASSUME NoJoin
  PROVE  Spec => []RecordedOnce
  <1>1. HistoryInv => RecordedOnce
    BY DEF HistoryInv
  <1> QED
    BY HistoryInvariant, <1>1, PTL

\* The completion time is set exactly on the deals that ended.
THEOREM CompletionMatchesStatus ==
  ASSUME NoJoin
  PROVE  Spec => []CompletedIffTerminal
  <1>1. HistoryInv => CompletedIffTerminal
    BY DEF HistoryInv
  <1> QED
    BY HistoryInvariant, <1>1, PTL

-----------------------------------------------------------------------------
(* Acceptance                                                              *)

\* Once accepted, a deal belongs to one admin for good, invitations and
\* overlapping instances included.
THEOREM OneAcceptance == Spec => AcceptanceIsFinal
  <1>1. TypeOK /\ [Next]_vars => [acceptedBy # None => acceptedBy' = acceptedBy]_vars
    BY DEF Next, Transaction, Step, AgreeToDeal, ReportPayment, AdminAccept, VerifyPayment,
           AskRejectReason, DropReason, RejectPayment, RequestEvidence, DeadlinePasses,
           CancelRead, JoinRead,
           CancelWrite, ExpireRead, ExpireWrite, CloseAs, EvidenceRead, EvidenceWrite, JoinSeller,
           JoinPayment, Crash, vars, dealVars, sessionVars
  <1> QED
    BY TypeCorrect, <1>1, PTL DEF Spec, AcceptanceIsFinal

-----------------------------------------------------------------------------
(* One thread of control                                                   *)

\* What an unlocked operation found when it read the row still holds when it
\* writes, because the thread that is in the middle of it is the only one.
ThreadInv ==
  \A p \in Instances :
    /\ call[p].op = "cancel" => CanTransition(status, "CANCELLED", RoleOf(call[p].by))
    /\ call[p].op = "expire" => status \in ExpirableStates
    /\ call[p].op = "evidence" => call[p].at = 0 \/ call[p].at \in Pending

LEMMA ThreadStep ==
  ASSUME OneThread, NoJoin, TypeOK, FlowInv, ThreadInv, [Next]_vars
  PROVE  ThreadInv'
  <1>1. PICK p \in Instances : Instances = {p}
    BY DEF OneThread
  <1>2. CASE call'[p] = NoCall
    BY <1>1, <1>2 DEF ThreadInv, NoCall
  <1>3. ASSUME NEW u \in Users, CancelRead(p, u)
        PROVE  ThreadInv'
    <2>1. call'[p].op = "cancel" /\ call'[p].by = u
      BY <1>3 DEF CancelRead, Begin, TypeOK
    <2>2. UNCHANGED <<status, sellerId>> /\ CanTransition(status, "CANCELLED", RoleOf(u))
      BY <1>3 DEF CancelRead, dealVars
    <2> QED
      BY <1>1, <2>1, <2>2 DEF ThreadInv, RoleOf, CanTransition
  <1>4. ASSUME ExpireRead(p)
        PROVE  ThreadInv'
    BY <1>1, <1>4 DEF ExpireRead, Begin, Overdue, ThreadInv, TypeOK, dealVars
  <1>5. ASSUME EvidenceRead(p)
        PROVE  ThreadInv'
    <2>1. call'[p].op = "evidence" /\ call'[p].at = EvidenceTarget
      BY <1>5 DEF EvidenceRead, Begin, TypeOK
    <2>2. EvidenceTarget = 0 \/ EvidenceTarget \in Pending
      BY EvidenceTargetType DEF TypeOK
    <2>3. Pending' = Pending
      BY <1>5 DEF EvidenceRead, Pending, PendingIn
    <2> QED
      BY <1>1, <2>1, <2>2, <2>3 DEF ThreadInv
  <1>6. CASE Transaction /\ Idle(p)
    <2>1. call' = call
      BY <1>6 DEF Transaction, AgreeToDeal, ReportPayment, AdminAccept, Accepted, VerifyPayment,
                  AskRejectReason, DropReason, RejectPayment, RequestEvidence
    <2> QED
      BY <1>2, <1>6, <2>1 DEF Idle
  <1>7. CASE DeadlinePasses \/ UNCHANGED vars
    BY <1>7 DEF DeadlinePasses, vars, dealVars, ThreadInv, RoleOf, CanTransition, Pending,
                PendingIn
  <1>8. CASE CancelWrite(p) \/ ExpireWrite(p) \/ EvidenceWrite(p) \/ Crash(p)
    <2>1. call'[p] = NoCall
      BY <1>8 DEF CancelWrite, ExpireWrite, EvidenceWrite, Crash, Return, TypeOK
    <2> QED
      BY <1>2, <2>1
  <1>9. ASSUME NEW u \in Users, JoinRead(p, u) \/ JoinSeller(p) \/ JoinPayment(p)
        PROVE  FALSE
    BY <1>9 DEF JoinRead, JoinSeller, JoinPayment, NoJoin, FlowInv
  <1> QED
    BY <1>1, <1>3, <1>4, <1>5, <1>6, <1>7, <1>8, <1>9, DealFlowAssumption DEF Next, Step

LEMMA ThreadInvariant ==
  ASSUME OneThread, NoJoin
  PROVE  Spec => []ThreadInv
  <1>1. Init => ThreadInv
    BY DEF Init, ThreadInv, NoCall
  <1>2. TypeOK /\ FlowInv /\ ThreadInv /\ [Next]_vars => ThreadInv'
    BY ThreadStep
  <1> QED
    BY TypeCorrect, FlowInvariant, <1>1, <1>2, PTL DEF Spec

\* How one step changes the status: not at all, or along a row of the table.
LEMMA StatusStep ==
  ASSUME NoJoin, TypeOK, FlowInv, ThreadInv, [Next]_vars, status' # status
  PROVE  /\ \E by \in Roles : CanTransition(status, status', by)
         /\ status \in {"CREATED", "AWAITING_PAYMENT", "PAYMENT_REPORTED"}
  <1> USE DealFlowAssumption DEF Roles, Parties, Buyer, Seller, Admin, System
  <1>1. \A s \in FlowStates :
          (\E t \in Status : \E by \in Roles : CanTransition(s, t, by))
            => s \in {"CREATED", "AWAITING_PAYMENT", "PAYMENT_REPORTED"}
    BY DEF FlowStates, CanTransition, Transitions, PaymentTransitions, SettlementTransitions,
           ClosingTransitions, CustodialTransitions, Rows, GroupFlowStates
  <1>2. status' \in Status /\ status \in FlowStates
    BY TypeStep DEF TypeOK, FlowInv
  <1>3. ASSUME NEW u \in Users, ReportPayment(u)
        PROVE  \E by \in Roles : CanTransition(status, status', by)
    BY <1>3 DEF ReportPayment
  <1>4. ASSUME NEW a \in Admins, AdminAccept(a) \/ VerifyPayment(a) \/ RejectPayment(a)
        PROVE  \E by \in Roles : CanTransition(status, status', by)
    BY <1>4 DEF AdminAccept, Accepted, VerifyPayment, Verifiable, RejectPayment, Rejectable
  <1>5. ASSUME NEW p \in Instances, CancelWrite(p)
        PROVE  \E by \in Roles : CanTransition(status, status', by)
    BY <1>5 DEF CancelWrite, CloseAs, ThreadInv, RoleOf
  <1>6. ASSUME NEW p \in Instances, ExpireWrite(p)
        PROVE  \E by \in Roles : CanTransition(status, status', by)
    <2>1. status' = "EXPIRED" /\ status \in {"CREATED", "AWAITING_PAYMENT"}
      BY <1>2, <1>6 DEF ExpireWrite, CloseAs, ThreadInv, ExpirableStates, FlowStates
    <2>2. CanTransition(status, "EXPIRED", System)
      BY <2>1 DEF CanTransition, Transitions, ClosingTransitions, Rows
    <2> QED
      BY <2>1, <2>2
  <1>7. ASSUME NEW p \in Instances, NEW u \in Users,
               JoinRead(p, u) \/ JoinSeller(p) \/ JoinPayment(p)
        PROVE  FALSE
    BY <1>7 DEF JoinRead, JoinSeller, JoinPayment, NoJoin, FlowInv
  <1>8. \E by \in Roles : CanTransition(status, status', by)
    BY <1>3, <1>4, <1>5, <1>6, <1>7
       DEF Next, Transaction, Step, AgreeToDeal, AskRejectReason, DropReason, RequestEvidence,
           DeadlinePasses,
           CancelRead, ExpireRead, EvidenceRead, EvidenceWrite, Crash, vars, dealVars
  <1> QED
    BY <1>1, <1>2, <1>8

\* One thread of control never leaves the transition table, even though
\* cancel checks it before its write and expireDeals does not ask it at all.
THEOREM OneThreadKeepsTable ==
  ASSUME OneThread, NoJoin
  PROVE  Spec => StatusChangesAreTransitions
  <1>1. TypeOK /\ FlowInv /\ ThreadInv /\ [Next]_vars
          => [\E by \in Roles : CanTransition(status, status', by)]_status
    BY StatusStep
  <1> QED
    BY TypeCorrect, FlowInvariant, ThreadInvariant, <1>1, PTL
       DEF Spec, StatusChangesAreTransitions

\* One thread of control never reopens or relabels a deal that ended.  With two
\* threads it does: the run stale_cancel shows how.
THEOREM OneThreadKeepsEnding ==
  ASSUME OneThread, NoJoin
  PROVE  Spec => TerminalIsFinal
  <1>1. TypeOK /\ FlowInv /\ ThreadInv /\ [Next]_vars
          => [(status \in TerminalStates) => status' = status]_vars
    BY StatusStep DEF TerminalStates
  <1> QED
    BY TypeCorrect, FlowInvariant, ThreadInvariant, <1>1, PTL DEF Spec, TerminalIsFinal

\* The phases of EscrowPromise by status.
LEMMA Phases ==
  /\ PhaseOf["CREATED"] = "open" /\ PhaseOf["AWAITING_PAYMENT"] = "accepted"
  /\ PhaseOf["PAYMENT_REPORTED"] = "reported" /\ PhaseOf["PAYMENT_RECEIVED"] = "received"
  /\ PhaseOf["CANCELLED"] = "closed" /\ PhaseOf["EXPIRED"] = "closed"
  BY DEF PhaseOf

\* Every step of the detailed flow is a step of the promise or changes nothing
\* of what it speaks about.
LEMMA PromiseStep ==
  ASSUME NoJoin, TypeOK, FlowInv, ThreadInv, [Next]_vars
  PROVE  [Promise!PromiseNext]_(Promise!promise)
  <1> USE Phases DEF Promise!PromiseNext, Promise!promise
  <1>1. ASSUME NEW u \in Users, ReportPayment(u)
        PROVE  Promise!Report
    <2>1. status = "AWAITING_PAYMENT"
      BY <1>1, TableFacts DEF ReportPayment, Parties
    <2> QED
      BY <1>1, <2>1 DEF ReportPayment, Promise!Report
  <1>2. ASSUME NEW a \in Admins, AdminAccept(a)
        PROVE  Promise!Accept(a)
    <2>1. acceptedBy = None /\ status = "CREATED"
      BY <1>2, TableFacts DEF AdminAccept, FlowInv, PayingStates
    <2> QED
      BY <1>2, <2>1 DEF AdminAccept, Accepted, Promise!Accept
  <1>3. ASSUME NEW a \in Admins, VerifyPayment(a)
        PROVE  Promise!Verdict(a)
    <2>1. status = "PAYMENT_REPORTED" /\ acceptedBy = a
      BY <1>3, TableFacts DEF VerifyPayment, Verifiable, MayDecide, FlowInv
    <2> QED
      BY <1>3, <2>1 DEF VerifyPayment, Promise!Verdict
  <1>4. ASSUME NEW a \in Admins, RejectPayment(a), Rejectable(a)
        PROVE  Promise!Verdict(a)
    <2>1. status = "PAYMENT_REPORTED" /\ acceptedBy = a
      BY <1>4, TableFacts DEF RejectPayment, Rejectable, MayDecide, FlowInv
    <2> QED
      BY <1>4, <2>1 DEF RejectPayment, Promise!Verdict
  <1>5. ASSUME NEW p \in Instances, CancelWrite(p) \/ ExpireWrite(p)
        PROVE  Promise!Close
    <2>1. status' \in {"CANCELLED", "EXPIRED"} /\ UNCHANGED acceptedBy
      BY <1>5 DEF CancelWrite, ExpireWrite, CloseAs
    <2>2. RoleOf(call[p].by) \in Roles
      BY DEF RoleOf, Roles, Parties
    <2>3. status \in GroupFlowStates \cup {"AWAITING_FUNDING"} \/ status \in ExpirableStates
      BY <1>5, <2>2, TableFacts DEF CancelWrite, ExpireWrite, ThreadInv
    <2>4. status \in {"CREATED", "AWAITING_PAYMENT", "PAYMENT_REPORTED"}
      BY <2>3 DEF FlowInv, FlowStates, GroupFlowStates, ExpirableStates
    <2> QED
      BY <2>1, <2>4 DEF Promise!Close
  <1>6. ASSUME NEW p \in Instances, NEW u \in Users,
               JoinRead(p, u) \/ JoinSeller(p) \/ JoinPayment(p)
        PROVE  FALSE
    BY <1>6 DEF JoinRead, JoinSeller, JoinPayment, NoJoin, FlowInv
  <1>7. CASE UNCHANGED <<status, acceptedBy>>
    BY <1>7
  <1> QED
    BY <1>1, <1>2, <1>3, <1>4, <1>5, <1>6, <1>7, DealFlowAssumption
       DEF Next, Transaction, Step, AgreeToDeal, AskRejectReason, DropReason, RejectPayment,
           RequestEvidence,
           DeadlinePasses, CancelRead, ExpireRead, EvidenceRead, EvidenceWrite, Crash, vars,
           dealVars

\* With one thread of control the bot implements the escrow's promise to the
\* parties.
THEOREM OneThreadKeepsPromise ==
  ASSUME OneThread, NoJoin
  PROVE  Spec => KeepsPromise
  <1>1. Init => Promise!PromiseInit
    BY Phases DEF Init, Promise!PromiseInit
  <1>2. TypeOK /\ FlowInv /\ ThreadInv /\ [Next]_vars
          => [Promise!PromiseNext]_(Promise!promise)
    BY PromiseStep
  <1> QED
    BY TypeCorrect, FlowInvariant, ThreadInvariant, <1>1, <1>2, PTL
       DEF Spec, KeepsPromise, Promise!PromiseSpec

\* With one thread of control late evidence never touches a decided report.
LEMMA FrozenStep ==
  ASSUME NoJoin, TypeOK, FlowInv, HistoryInv, ThreadInv, [Next]_vars,
         NEW i \in DOMAIN reports, reports[i].status # "PENDING"
  PROVE  reports'[i] = reports[i]
  <1>1. i \notin Pending
    BY DEF Pending, PendingIn
  <1>2. ASSUME NEW a, NEW v
        PROVE  Decide(a, v)[i] = reports[i]
    <2>1. Pending \in SUBSET (1 .. Len(reports)) /\ Len(reports) \in Nat
      BY DEF Pending, PendingIn, TypeOK
    <2>2. Pending # {} => Max(Pending) \in Pending
      BY <2>1, GreatestExists
    <2>3. ~(Pending # {} /\ i = Max(Pending))
      BY <1>1, <2>2
    <2> QED
      BY <2>3 DEF Decide
  <1>3. ASSUME NEW a \in Admins, VerifyPayment(a) \/ RejectPayment(a)
        PROVE  reports'[i] = reports[i]
    BY <1>2, <1>3 DEF VerifyPayment, RejectPayment
  <1>4. ASSUME NEW u \in Users, ReportPayment(u)
        PROVE  reports'[i] = reports[i]
    BY <1>4 DEF ReportPayment, TypeOK
  <1>5. ASSUME NEW p \in Instances, EvidenceWrite(p)
        PROVE  reports'[i] = reports[i]
    <2>1. i # call[p].at
      BY <1>1, <1>5 DEF EvidenceWrite, ThreadInv, TypeOK
    <2> QED
      BY <1>5, <2>1 DEF EvidenceWrite
  <1> QED
    BY <1>3, <1>4, <1>5
       DEF Next, Transaction, Step, AgreeToDeal, AdminAccept, Accepted, AskRejectReason,
           DropReason, RequestEvidence, DeadlinePasses, CancelRead, CancelWrite, ExpireRead,
           ExpireWrite,
           CloseAs, EvidenceRead, JoinRead, JoinSeller, JoinPayment, Crash, vars

THEOREM OneThreadFreezesReports ==
  ASSUME OneThread, NoJoin
  PROVE  Spec => DecidedReportsFrozen
  <1>1. TypeOK /\ FlowInv /\ HistoryInv /\ ThreadInv /\ [Next]_vars
          => [\A i \in DOMAIN reports :
                reports[i].status # "PENDING" => reports'[i] = reports[i]]_reports
    BY FrozenStep
  <1> QED
    BY TypeCorrect, FlowInvariant, HistoryInvariant, ThreadInvariant, <1>1, PTL
       DEF Spec, DecidedReportsFrozen

\* A step that confirms the payment verifies a report; any other step keeps the
\* verified reports, and the status as far as PAYMENT_RECEIVED goes.
LEMMA MatchStep ==
  ASSUME NoJoin, TypeOK, FlowInv, HistoryInv, ThreadInv, StatusMatchesReports, [Next]_vars
  PROVE  StatusMatchesReports'
  <1>1. ASSUME NEW a \in Admins, VerifyPayment(a)
        PROVE  StatusMatchesReports'
    <2>1. HistoryInv' /\ locks' = locks + 1 /\ locks \in Nat /\ status' = "PAYMENT_RECEIVED"
      BY <1>1, HistoryVerify DEF VerifyPayment, TypeOK
    <2> QED
      BY <2>1 DEF HistoryInv, RecordedOnce, StatusMatchesReports
  <1>2. ASSUME UNCHANGED locks,
               UNCHANGED status \/ (status # "PAYMENT_RECEIVED" /\ status' # "PAYMENT_RECEIVED")
        PROVE  StatusMatchesReports'
    <2>1. HistoryInv'
      BY HistoryStep
    <2>2. Verified' # {} <=> Verified # {}
      BY <1>2, <2>1 DEF HistoryInv, RecordedOnce
    <2> QED
      BY <1>2, <2>2 DEF StatusMatchesReports
  <1>3. status' # status => status # "PAYMENT_RECEIVED"
    BY StatusStep
  <1>4. (\A a \in Admins : ~VerifyPayment(a)) =>
          UNCHANGED locks /\ (UNCHANGED status \/ status' # "PAYMENT_RECEIVED")
    <2>1. ASSUME NEW p \in Instances, NEW u \in Users,
                 JoinRead(p, u) \/ JoinSeller(p) \/ JoinPayment(p)
          PROVE  FALSE
      BY <2>1 DEF JoinRead, JoinSeller, JoinPayment, NoJoin, FlowInv
    <2> QED
      BY <2>1, DealFlowAssumption
         DEF Next, Transaction, Step, AgreeToDeal, ReportPayment, AdminAccept, Accepted,
             AskRejectReason, DropReason, RejectPayment, RequestEvidence, DeadlinePasses,
             CancelRead,
             CancelWrite, ExpireRead, ExpireWrite, CloseAs, EvidenceRead, EvidenceWrite, Crash,
             vars, dealVars
  <1> QED
    BY <1>1, <1>2, <1>3, <1>4

\* With one thread of control a deal is PAYMENT_RECEIVED exactly when one of
\* its reports was verified.
THEOREM OneThreadStatusMatchesReports ==
  ASSUME OneThread, NoJoin
  PROVE  Spec => []StatusMatchesReports
  <1>1. Init => StatusMatchesReports
    BY DEF Init, StatusMatchesReports, Verified
  <1>2. TypeOK /\ FlowInv /\ HistoryInv /\ ThreadInv /\ StatusMatchesReports /\ [Next]_vars
          => StatusMatchesReports'
    BY MatchStep
  <1> QED
    BY TypeCorrect, FlowInvariant, HistoryInvariant, ThreadInvariant, <1>1, <1>2, PTL DEF Spec
=============================================================================
