-------------------------- MODULE Settlement_proofs --------------------------
(***************************************************************************)
(* What holds of Settlement for every amount and any number of instances:  *)
(* payouts on request stay within the principal and follow the agreement   *)
(* given to that request, whatever status the unlocked writes leave.  With *)
(* one thread of control, status, history and dispute row agree as well.   *)
(***************************************************************************)
EXTENDS Settlement, TLAPS

\* A request that waits is a complete record, and the agreement it carries is
\* the one the other party gave to it.
RequestInv ==
  \A k \in Kinds : status = Requested[k] =>
    /\ request[k] \in RequestOf
    /\ request[k].agreed # None =>
         consent[k] = [by |-> Other(request[k].by), amount |-> request[k].amount]

Inv == TypeOK /\ RequestInv /\ PrincipalCovers /\ CompletedIsPaidOut

\* The states a participant's request can start from, and where the waiting
\* statuses stand among the others.
LEMMA RequestTable ==
  /\ \A k \in Kinds, u \in Parties :
       CanTransition(status, Requested[k], u) => status \in {"FUNDED", "DELIVERED"}
  /\ Requested["release"] = "RELEASE_REQUESTED" /\ Requested["refund"] = "REFUND_REQUESTED"
  /\ Final["release"] = "COMPLETED" /\ Final["refund"] = "REFUNDED"
  BY DEF Kinds, Requested, Final, Parties, Buyer, Seller, Admin, System, CanTransition,
     Transitions, PaymentTransitions, SettlementTransitions, ClosingTransitions,
     CustodialTransitions, Rows, GroupFlowStates

\* The initial row has nothing settled and nothing requested.
LEMMA InvInit == Init => Inv
  <1> SUFFICES ASSUME Init PROVE Inv
    OBVIOUS
  <1>1. TypeOK
    BY SettlementAssumption DEF Init, TypeOK, Kinds, Calls, Status, ActiveStates, EscrowStates
  <1>2. RequestInv
    BY RequestTable DEF Init, RequestInv, Kinds
  <1>3. PrincipalCovers
    BY SettlementAssumption, RequestTable DEF Init, PrincipalCovers, Kinds
  <1>4. CompletedIsPaidOut
    BY DEF Init, CompletedIsPaidOut
  <1> QED
    BY <1>1, <1>2, <1>3, <1>4 DEF Inv

\* A request leaves the columns alone and fits what is left.
LEMMA RequestStep ==
  ASSUME Inv, NEW k \in Kinds, NEW u \in Parties, NEW n \in 1 .. Amount, Request(k, u, n)
  PROVE  Inv'
  <1> USE SettlementAssumption DEF Inv
  <1>1. status \in {"FUNDED", "DELIVERED"}
    BY RequestTable DEF Request
  <1> DEFINE r == [by |-> u, amount |-> n, from |-> status, agreed |-> None]
  <1>2. r \in RequestOf
    BY <1>1 DEF RequestOf
  <1>3. /\ status' = Requested[k] /\ Requested[k] \in Status
        /\ request' = [request EXCEPT ![k] = r]
        /\ consent' = [consent EXCEPT ![k] = None]
        /\ n <= Left
        /\ UNCHANGED <<settled, remaining, completed, paid, dispute, call>>
    BY RequestTable DEF Request, Kinds, Status, ActiveStates, EscrowStates
  <1>4. request'[k] = r
    BY <1>3 DEF TypeOK
  <1> HIDE DEF r
  <1>5. TypeOK'
    BY <1>2, <1>3 DEF TypeOK
  <1>6. \A j \in Kinds : status' = Requested[j] => j = k
    BY <1>3, RequestTable DEF Kinds
  <1>7. RequestInv'
    BY <1>2, <1>4, <1>6 DEF RequestInv, r
  <1>8. PrincipalCovers'
    BY <1>3, <1>4, <1>6 DEF PrincipalCovers, Left, r
  <1>9. CompletedIsPaidOut'
    BY <1>3, RequestTable DEF CompletedIsPaidOut, Kinds
  <1> QED
    BY <1>5, <1>7, <1>8, <1>9

\* An answer changes no amount; a "yes" is recorded with the request it is for.
LEMMA AnswerStep ==
  ASSUME Inv, NEW k \in Kinds, NEW u \in Parties, Agree(k, u) \/ Refuse(k, u)
  PROVE  Inv'
  <1> USE SettlementAssumption DEF Inv
  <1>1. /\ status = Requested[k] /\ request[k] \in RequestOf
        /\ request[k].by # u
        /\ \A j \in Kinds : status = Requested[j] => j = k
    BY RequestTable DEF Agree, Refuse, RequestInv, Kinds
  <1>2. CASE Agree(k, u)
    <2> DEFINE r == [request[k] EXCEPT !.agreed = u]
               c == [by |-> u, amount |-> request[k].amount]
    <2>1. /\ request' = [request EXCEPT ![k] = r]
          /\ consent' = [consent EXCEPT ![k] = c]
          /\ UNCHANGED <<status, settled, remaining, completed, paid, dispute, call>>
      BY <1>2 DEF Agree
    <2>2. /\ r \in RequestOf /\ r.by = request[k].by /\ r.amount = request[k].amount
          /\ r.agreed = u
          /\ c \in [by : Parties, amount : 1 .. Amount]
      BY <1>1 DEF RequestOf
    <2>3. c = [by |-> Other(r.by), amount |-> r.amount]
      BY <1>1, <2>2 DEF RequestOf, Other, Parties
    <2>4. request'[k] = r /\ consent'[k] = c
      BY <2>1 DEF TypeOK
    <2> HIDE DEF r, c
    <2>5. TypeOK'
      BY <2>1, <2>2 DEF TypeOK
    <2>6. RequestInv'
      BY <1>1, <2>1, <2>2, <2>3, <2>4 DEF RequestInv
    <2>7. PrincipalCovers' /\ CompletedIsPaidOut'
      BY <1>1, <2>1, <2>2, <2>4 DEF PrincipalCovers, CompletedIsPaidOut, Left
    <2> QED
      BY <2>5, <2>6, <2>7
  <1>3. CASE Refuse(k, u)
    <2>1. /\ status' \in {"FUNDED", "DELIVERED"}
          /\ request' = [request EXCEPT ![k] = None]
          /\ UNCHANGED <<settled, remaining, completed, paid, dispute, call, consent>>
      BY <1>1, <1>3 DEF Refuse, RequestOf
    <2>2. TypeOK'
      BY <2>1 DEF TypeOK, Status, ActiveStates, EscrowStates
    <2>3. RequestInv' /\ PrincipalCovers' /\ CompletedIsPaidOut'
      BY <2>1, RequestTable DEF RequestInv, PrincipalCovers, CompletedIsPaidOut, Kinds, Left
    <2> QED
      BY <2>2, <2>3
  <1> QED
    BY <1>2, <1>3

\* What a confirmed payout does to the totals: the amount is the one agreed to
\* and fits what is left, also where the release overlooks refunds.
LEMMA ConfirmFacts ==
  ASSUME Inv, NEW k \in Kinds, Confirm(k)
  PROVE  /\ request[k] \in RequestOf /\ request[k].amount <= Left
         /\ settled' = [settled EXCEPT ![k] = @ + request[k].amount]
         /\ Left' = Left - request[k].amount
         /\ remaining' = LeftFor(k) - request[k].amount
         /\ remaining' \in Nat
         /\ consent[k] = [by |-> Other(request[k].by), amount |-> request[k].amount]
         /\ status' = IF remaining' = 0 THEN Final[k] ELSE request[k].from
  <1> USE SettlementAssumption DEF Inv
  <1>1. request[k] \in RequestOf /\ request[k].amount <= Left
    BY DEF Confirm, RequestInv, PrincipalCovers
  <1>2. request[k].amount \in Nat /\ settled["release"] \in Nat /\ settled["refund"] \in Nat
    BY <1>1 DEF RequestOf, TypeOK, Kinds
  <1>3. settled' = [settled EXCEPT ![k] = @ + request[k].amount]
    BY DEF Confirm
  <1>4. Left' = Left - request[k].amount
    BY <1>2, <1>3 DEF Left, TypeOK, Kinds
  <1>5. remaining' = LeftFor(k) - request[k].amount /\ remaining' \in Nat
    BY <1>1, <1>2 DEF Confirm, LeftFor, Left
  <1>6. consent[k] = [by |-> Other(request[k].by), amount |-> request[k].amount]
    BY DEF Confirm, RequestInv
  <1>7. status' = IF remaining' = 0 THEN Final[k] ELSE request[k].from
    BY DEF Confirm
  <1> QED
    BY <1>1, <1>3, <1>4, <1>5, <1>6, <1>7

\* A payout keeps the bound, and ends the deal as COMPLETED only with nothing
\* left to pay.
LEMMA ConfirmStep ==
  ASSUME Inv, NEW k \in Kinds, Confirm(k)
  PROVE  Inv'
  <1> USE SettlementAssumption DEF Inv
  <1>1. /\ request[k] \in RequestOf /\ request[k].amount <= Left
        /\ settled' = [settled EXCEPT ![k] = @ + request[k].amount]
        /\ Left' = Left - request[k].amount
        /\ remaining' = LeftFor(k) - request[k].amount /\ remaining' \in Nat
        /\ status' = IF remaining' = 0 THEN Final[k] ELSE request[k].from
    BY ConfirmFacts
  <1>2. /\ request[k].amount \in Nat /\ request[k].from \in {"FUNDED", "DELIVERED"}
        /\ settled["release"] \in Nat /\ settled["refund"] \in Nat
    BY <1>1 DEF RequestOf, TypeOK, Kinds
  <1>3. status' \in {"FUNDED", "DELIVERED", "COMPLETED", "REFUNDED"}
    BY <1>1, <1>2, RequestTable DEF Kinds
  <1>4. TypeOK'
    <2>1. settled' \in [Kinds -> Nat]
      BY <1>1, <1>2 DEF TypeOK
    <2>2. paid' \in [Kinds -> Nat]
      BY <1>2 DEF Confirm, TypeOK
    <2>3. request' \in [Kinds -> RequestOf \cup {None}] /\ completed' \in BOOLEAN
      BY DEF Confirm, TypeOK
    <2> QED
      BY <1>1, <1>3, <2>1, <2>2, <2>3
         DEF Confirm, TypeOK, Status, ActiveStates, EscrowStates, TerminalStates
  <1>5. Left' >= 0
    BY <1>1, <1>2 DEF Left
  <1>6. RequestInv' /\ PrincipalCovers'
    <2>1. \A j \in Kinds : status' # Requested[j]
      BY <1>3, RequestTable DEF Kinds
    <2>2. settled'["release"] \in Nat /\ settled'["refund"] \in Nat
      BY <1>4 DEF TypeOK, Kinds
    <2> QED
      BY <1>5, <2>1, <2>2 DEF RequestInv, PrincipalCovers, Left
  <1>7. CompletedIsPaidOut'
    <2> SUFFICES ASSUME status' = "COMPLETED" PROVE Left' = 0
      BY DEF CompletedIsPaidOut
    <2>1. k = "release" /\ remaining' = 0
      BY <1>1, <1>2, RequestTable DEF Kinds
    <2>2. Left' <= remaining'
      BY <1>1, <1>2, <2>1 DEF Left, LeftFor
    <2>3. Left' \in Int
      BY <1>1, <1>2 DEF Left
    <2> QED
      BY <1>5, <2>1, <2>2, <2>3
  <1> QED
    BY <1>4, <1>6, <1>7

\* The other operations pay nothing on a request and leave none waiting: the
\* admin's decision, and the writes that do not look at the row again.
LEMMA OtherStep ==
  ASSUME Inv,
         \/ ManualRefund \/ ManualReleaseForDispute
         \/ \E p \in Instances : Step(p)
         \/ UNCHANGED vars
  PROVE  Inv'
  <1> USE SettlementAssumption DEF Inv
  <1>1. /\ UNCHANGED <<settled, request, consent>>
        /\ status' \in {status, "REFUNDED", "RELEASED", "DELIVERED", "DISPUTED", "UNDER_REVIEW"}
    BY DEF ManualRefund, ManualReleaseForDispute, Resolve, Step, DeliverRead, DisputeRead,
       ReviewFind, AssignDispute, WriteStatus, StatusAfter, InsertDispute, ReviewRead, Crash, vars
  <1>2. TypeOK'
    <2>1. remaining' \in Nat /\ completed' \in BOOLEAN
      BY DEF TypeOK, ManualRefund, ManualReleaseForDispute, Resolve, Step, DeliverRead,
         DisputeRead, ReviewFind, AssignDispute, WriteStatus, InsertDispute, ReviewRead, Crash, vars
    <2>2. paid' \in [Kinds -> Nat]
      BY DEF TypeOK, Kinds, ManualRefund, ManualReleaseForDispute, Resolve, Step, DeliverRead,
         DisputeRead, ReviewFind, AssignDispute, WriteStatus, InsertDispute, ReviewRead, Crash, vars
    <2>3. dispute' \in {"none", "open", "under_review", "resolved"}
      BY DEF TypeOK, ManualRefund, ManualReleaseForDispute, Resolve, Step, DeliverRead,
         DisputeRead, ReviewFind, AssignDispute, WriteStatus, InsertDispute, ReviewRead, Crash, vars
    <2>4. call' \in [Instances -> Calls]
      BY DEF TypeOK, Calls, Go, ManualRefund, ManualReleaseForDispute, Resolve, Step, DeliverRead,
         DisputeRead, ReviewFind, AssignDispute, WriteStatus, InsertDispute, ReviewRead, Crash, vars
    <2> QED
      BY <1>1, <2>1, <2>2, <2>3, <2>4
         DEF TypeOK, Status, ActiveStates, EscrowStates, TerminalStates
  <1>3. RequestInv'
    BY <1>1, RequestTable DEF RequestInv, Kinds
  <1>4. PrincipalCovers' /\ CompletedIsPaidOut'
    BY <1>1, RequestTable DEF PrincipalCovers, CompletedIsPaidOut, Left, Kinds
  <1> QED
    BY <1>2, <1>3, <1>4

LEMMA InvStep == Inv /\ [Next]_vars => Inv'
  <1> SUFFICES ASSUME Inv, [Next]_vars PROVE Inv'
    OBVIOUS
  <1>1. CASE Transaction
    <2>1. ASSUME NEW u \in Parties, NEW n \in 1 .. Amount,
                 RequestRelease(u, n) \/ RequestRefund(u, n)
          PROVE  Inv'
      BY <2>1, RequestStep DEF RequestRelease, RequestRefund, Kinds
    <2>2. ASSUME NEW u \in Parties, AgreeRelease(u) \/ AgreeRefund(u)
          PROVE  Inv'
      BY <2>2, AnswerStep DEF AgreeRelease, AgreeRefund, Kinds
    <2>3. CASE ConfirmManualRelease \/ CompleteManualRefund
      BY <2>3, ConfirmStep DEF ConfirmManualRelease, CompleteManualRefund, Kinds
    <2>4. CASE ManualRefund \/ ManualReleaseForDispute
      BY <2>4, OtherStep
    <2> QED
      BY <1>1, <2>1, <2>2, <2>3, <2>4 DEF Transaction
  <1>2. CASE (\E p \in Instances : Step(p)) \/ UNCHANGED vars
    BY <1>2, OtherStep
  <1> QED
    BY <1>1, <1>2 DEF Next

LEMMA Invariant == Spec => []Inv
  BY InvInit, InvStep, PTL DEF Spec

-----------------------------------------------------------------------------

\* Columns, history totals and call records are well-typed in every state.
THEOREM SettlementTypeCorrect == Spec => []TypeOK
  <1>1. Inv => TypeOK
    BY DEF Inv
  <1> QED
    BY Invariant, <1>1, PTL

\* Releases, refunds and the waiting request never add up to more than the
\* deal's amount, for every amount and any number of instances.
THEOREM PayoutsFitPrincipal == Spec => []PrincipalCovers
  <1>1. Inv => PrincipalCovers
    BY DEF Inv
  <1> QED
    BY Invariant, <1>1, PTL

\* A deal is COMPLETED only with nothing left to pay.
THEOREM CompletionIsPaidOut == Spec => []CompletedIsPaidOut
  <1>1. Inv => CompletedIsPaidOut
    BY DEF Inv
  <1> QED
    BY Invariant, <1>1, PTL

\* Every payout on a request is of the amount the other party agreed to, for
\* that request, whatever the unlocked status writes left in the row.
THEOREM PayoutsFollowConsent == Spec => PaidWithConsent
  <1> DEFINE A == \A k \in Kinds : settled'[k] # settled[k] =>
                    consent[k] = [by |-> Other(request[k].by),
                                  amount |-> settled'[k] - settled[k]]
  <1>1. Inv /\ [Next]_vars => [A]_vars
    <2> SUFFICES ASSUME Inv, Next, NEW k \in Kinds, settled'[k] # settled[k]
                 PROVE  consent[k] = [by |-> Other(request[k].by),
                                      amount |-> settled'[k] - settled[k]]
      OBVIOUS
    <2>1. PICK j \in Kinds : Confirm(j)
      BY DEF Next, Transaction, Step, RequestRelease, RequestRefund, Request, AgreeRelease,
         AgreeRefund, Agree, Refuse, ConfirmManualRelease, CompleteManualRefund, ManualRefund,
         ManualReleaseForDispute, Resolve, DeliverRead, DisputeRead, ReviewFind, AssignDispute,
         WriteStatus, InsertDispute, ReviewRead, Crash, Kinds
    <2>2. /\ request[j] \in RequestOf
          /\ settled' = [settled EXCEPT ![j] = @ + request[j].amount]
          /\ consent[j] = [by |-> Other(request[j].by), amount |-> request[j].amount]
      BY <2>1, ConfirmFacts
    <2>3. j = k
      BY <2>2 DEF Inv, TypeOK
    <2>4. settled'[k] - settled[k] = request[k].amount
      BY <2>2, <2>3 DEF Inv, TypeOK, RequestOf
    <2> QED
      BY <2>2, <2>3, <2>4
  <1> QED
    BY Invariant, <1>1, PTL DEF Spec, PaidWithConsent
-----------------------------------------------------------------------------
(* One thread of control                                                   *)

\* At most one instance of the bot is alive.
OneThread == \A p, q \in Instances : p = q

\* What an instance read before it writes still holds: nothing else acts.
CallInv ==
  \A p \in Instances :
    /\ call[p] = "deliver" => CanTransition(status, "DELIVERED", Seller)
    /\ call[p] = "freeze" => status \in DisputableStates
    /\ call[p] = "record" => status = "DISPUTED"
    /\ call[p] = "ask" => dispute # "none"
    /\ call[p] = "review" => status = "DISPUTED" /\ dispute # "none"

ThreadInv == CallInv /\ HistoryMatchesColumns /\ DisputeMatchesDeal /\ CompletedIffTerminal

\* The rows of the table that a settlement uses.
LEMMA SettlementTable ==
  /\ \A k \in Kinds, u \in Parties :
       CanTransition(status, Requested[k], u) => status \in {"FUNDED", "DELIVERED"}
  /\ CanTransition(status, "DELIVERED", Seller) => status \in {"FUNDED", "IN_PROGRESS"}
  /\ CanTransition(status, "UNDER_REVIEW", Admin) <=> status = "DISPUTED"
  /\ CanTransition(status, "RELEASED", Admin) <=> status = "UNDER_REVIEW"
  /\ CanTransition(status, "REFUNDED", Admin) => status \in {"UNDER_REVIEW", "REFUND_REQUESTED"}
  /\ status \in DisputableStates => CanTransition(status, "DISPUTED", Buyer)
  BY DEF Kinds, Requested, Parties, Buyer, Seller, Admin, System, CanTransition, Transitions,
     PaymentTransitions, SettlementTransitions, ClosingTransitions, CustodialTransitions, Rows,
     GroupFlowStates, DisputableStates

LEMMA ThreadInit == Init => ThreadInv
  BY DEF Init, ThreadInv, CallInv, HistoryMatchesColumns, DisputeMatchesDeal,
     CompletedIffTerminal, TerminalStates, Kinds

\* A transaction finds the one instance idle.
LEMMA ThreadTransaction ==
  ASSUME Inv, ThreadInv, OneThread, NEW p \in Instances, Idle(p), Transaction
  PROVE  ThreadInv'
  <1> USE DEF Inv
  <1>1. CallInv'
    <2>1. call' = call
      BY DEF Transaction, RequestRelease, RequestRefund, Request, AgreeRelease, AgreeRefund,
         Agree, Refuse, ConfirmManualRelease, CompleteManualRefund, Confirm, ManualRefund,
         ManualReleaseForDispute, Resolve
    <2> QED
      BY <2>1 DEF CallInv, OneThread, Idle
  <1>2. CASE \E k \in Kinds, u \in Parties :
               (\E n \in 1 .. Amount : Request(k, u, n)) \/ Agree(k, u) \/ Refuse(k, u)
    <2>1. PICK k \in Kinds, u \in Parties :
               (\E n \in 1 .. Amount : Request(k, u, n)) \/ Agree(k, u) \/ Refuse(k, u)
      BY <1>2
    <2>2. UNCHANGED <<settled, paid, dispute, completed>>
      BY <2>1 DEF Request, Agree, Refuse
    <2>3. status \in {"FUNDED", "DELIVERED", "RELEASE_REQUESTED", "REFUND_REQUESTED"}
      BY <2>1, SettlementTable DEF Request, Agree, Refuse, Requested, Kinds
    <2>4. status' \in {"FUNDED", "DELIVERED", "RELEASE_REQUESTED", "REFUND_REQUESTED"}
      BY <2>1, <2>3 DEF Request, Agree, Refuse, Requested, Kinds, RequestInv, RequestOf
    <2> QED
      BY <1>1, <2>2, <2>3, <2>4
         DEF ThreadInv, HistoryMatchesColumns, DisputeMatchesDeal, CompletedIffTerminal,
             TerminalStates
  <1>3. CASE \E k \in Kinds : Confirm(k)
    <2>1. PICK k \in Kinds : Confirm(k)
      BY <1>3
    <2>2. /\ request[k] \in RequestOf
          /\ settled' = [settled EXCEPT ![k] = @ + request[k].amount]
          /\ paid' = [paid EXCEPT ![k] = @ + request[k].amount]
          /\ dispute' = dispute
          /\ status \in {"RELEASE_REQUESTED", "REFUND_REQUESTED"}
      <3>1. /\ request[k] \in RequestOf
            /\ settled' = [settled EXCEPT ![k] = @ + request[k].amount]
        BY <2>1, ConfirmFacts
      <3>2. /\ paid' = [paid EXCEPT ![k] = @ + request[k].amount]
            /\ dispute' = dispute /\ status = Requested[k]
        BY <2>1 DEF Confirm
      <3> QED
        BY <3>1, <3>2 DEF Requested, Kinds
    <2>3. /\ completed' = (completed \/ remaining' = 0)
          /\ status' = IF remaining' = 0 THEN Final[k] ELSE request[k].from
      BY <2>1 DEF Confirm
    <2>4. status' \in {"FUNDED", "DELIVERED", "COMPLETED", "REFUNDED"}
      BY <2>2, <2>3 DEF RequestOf, Final, Kinds
    <2>5. CompletedIffTerminal'
      <3>1. completed = FALSE
        BY <2>2 DEF ThreadInv, CompletedIffTerminal, TerminalStates, TypeOK
      <3>2. Final[k] \in TerminalStates /\ request[k].from \notin TerminalStates
        BY <2>2 DEF Final, Kinds, RequestOf, TerminalStates
      <3>3. CASE remaining' = 0
        BY <2>3, <3>2, <3>3 DEF CompletedIffTerminal
      <3>4. CASE remaining' # 0
        BY <2>3, <3>1, <3>2, <3>4 DEF CompletedIffTerminal
      <3> QED
        BY <3>3, <3>4
    <2>6. DisputeMatchesDeal'
      BY <2>2, <2>4 DEF ThreadInv, DisputeMatchesDeal
    <2>7. HistoryMatchesColumns'
      <3>1. request[k].amount \in Int
        BY <2>2 DEF RequestOf
      <3>2. \A j \in Kinds : paid[j] \in Int /\ settled[j] \in Int /\ paid[j] - settled[j] = 0
        BY <2>2 DEF ThreadInv, HistoryMatchesColumns, TypeOK, Kinds
      <3>3. \A j \in Kinds : paid'[j] - settled'[j] = 0
        BY <2>2, <3>1, <3>2 DEF TypeOK
      <3> QED
        BY <3>3 DEF HistoryMatchesColumns, Kinds
    <2> QED
      BY <1>1, <2>5, <2>6, <2>7 DEF ThreadInv
  <1>4. CASE ManualRefund \/ ManualReleaseForDispute
    <2>1. PICK k \in Kinds : Resolve(k, IF k = "refund" THEN "REFUNDED" ELSE "RELEASED")
      BY <1>4 DEF ManualRefund, ManualReleaseForDispute, Kinds
    <2>2. /\ status \in {"UNDER_REVIEW", "REFUND_REQUESTED"}
          /\ status' = IF k = "refund" THEN "REFUNDED" ELSE "RELEASED"
          /\ completed' = TRUE /\ settled' = settled
          /\ paid' = [paid EXCEPT ![k] = @ + Amount]
          /\ dispute' = IF dispute = "none" THEN "none" ELSE "resolved"
      BY <2>1, SettlementTable DEF Resolve, Kinds
    <2>3. CompletedIffTerminal' /\ DisputeMatchesDeal'
      BY <2>2 DEF CompletedIffTerminal, DisputeMatchesDeal, TerminalStates
    <2>4. HistoryMatchesColumns'
      <3>1. \A j \in Kinds : paid[j] \in Int /\ settled[j] \in Int /\ paid[j] - settled[j] = 0
        BY <2>2 DEF ThreadInv, HistoryMatchesColumns, TypeOK, Kinds
      <3>2. \A j \in Kinds : paid'[j] - settled'[j] = IF j = k THEN Amount ELSE 0
        BY <2>2, <3>1, SettlementAssumption DEF TypeOK
      <3> QED
        BY <2>2, <3>2 DEF HistoryMatchesColumns, Kinds
    <2> QED
      BY <1>1, <2>3, <2>4 DEF ThreadInv
  <1> QED
    BY <1>2, <1>3, <1>4
       DEF Transaction, RequestRelease, RequestRefund, AgreeRelease, AgreeRefund,
           ConfirmManualRelease, CompleteManualRefund, Kinds

\* An instance's own call finds the row as it read it.
LEMMA ThreadCall ==
  ASSUME Inv, ThreadInv, OneThread, NEW p \in Instances, Step(p)
  PROVE  ThreadInv'
  <1> USE DEF Inv
  <1>1. PICK next \in Calls : call' = [call EXCEPT ![p] = next]
    BY DEF Step, DeliverRead, DisputeRead, ReviewFind, AssignDispute, WriteStatus, InsertDispute,
       ReviewRead, Crash, Go, Calls
  <1>2. \A q \in Instances : call[q] = call[p] /\ call'[q] = next
    BY <1>1 DEF OneThread, TypeOK
  <1>3. /\ UNCHANGED <<settled, paid, completed>>
        /\ dispute \in {"none", "open", "under_review", "resolved"}
    BY DEF Step, DeliverRead, DisputeRead, ReviewFind, AssignDispute, WriteStatus, InsertDispute,
       ReviewRead, Crash, TypeOK
  <1>4. CASE DeliverRead(p) \/ DisputeRead(p) \/ ReviewFind(p) \/ ReviewRead(p) \/ Crash(p)
    <2>1. UNCHANGED <<status, dispute>>
      BY <1>4 DEF DeliverRead, DisputeRead, ReviewFind, ReviewRead, Crash
    <2>2. \/ next = "none"
          \/ next = "deliver" /\ CanTransition(status, "DELIVERED", Seller)
          \/ next = "freeze" /\ status \in DisputableStates
          \/ next = "open" /\ dispute = "none"
          \/ next = "ask" /\ dispute # "none"
          \/ next = "review" /\ call[p] = "ask" /\ CanTransition(status, "UNDER_REVIEW", Admin)
      BY <1>2, <1>4 DEF DeliverRead, DisputeRead, ReviewFind, ReviewRead, Crash, Go, TypeOK
    <2>3. next = "review" => status = "DISPUTED" /\ dispute # "none"
      BY <2>2, SettlementTable DEF ThreadInv, CallInv
    <2>4. CanTransition(status, "DELIVERED", Seller)' <=> CanTransition(status, "DELIVERED", Seller)
      BY <2>1 DEF CanTransition
    <2>5. CallInv'
      BY <1>2, <2>1, <2>2, <2>3, <2>4 DEF CallInv
    <2> QED
      BY <1>3, <2>1, <2>5
         DEF ThreadInv, HistoryMatchesColumns, DisputeMatchesDeal, CompletedIffTerminal
  <1>5. CASE AssignDispute(p)
    <2>1. status' = status /\ dispute' = "under_review" /\ next = "ask"
      BY <1>2, <1>5 DEF AssignDispute, Go, TypeOK
    <2> QED
      BY <1>2, <1>3, <2>1
         DEF ThreadInv, CallInv, HistoryMatchesColumns, DisputeMatchesDeal, CompletedIffTerminal
  <1>6. CASE WriteStatus(p)
    <2>1. /\ \/ call[p] = "deliver" /\ status' = "DELIVERED" /\ next = "none"
             \/ call[p] = "freeze" /\ status' = "DISPUTED" /\ next = "record"
             \/ call[p] = "review" /\ status' = "UNDER_REVIEW" /\ next = "none"
          /\ dispute' = dispute
      BY <1>2, <1>6 DEF WriteStatus, StatusAfter, Go, TypeOK
    <2>2. status \in DisputableStates \cup {"DISPUTED"} /\ status \notin TerminalStates
      BY <2>1, SettlementTable DEF ThreadInv, CallInv, DisputableStates, TerminalStates
    <2>3. CallInv'
      BY <1>2, <2>1 DEF CallInv
    <2>4. status' \notin TerminalStates
      BY <2>1 DEF TerminalStates
    <2>5. CompletedIffTerminal'
      BY <1>3, <2>2, <2>4 DEF ThreadInv, CompletedIffTerminal
    <2>6. DisputeMatchesDeal'
      BY <1>3, <2>1, <2>2 DEF ThreadInv, CallInv, DisputeMatchesDeal, DisputableStates
    <2>7. HistoryMatchesColumns'
      BY <1>3, <2>2 DEF ThreadInv, HistoryMatchesColumns, TerminalStates
    <2> QED
      BY <2>3, <2>5, <2>6, <2>7 DEF ThreadInv
  <1>7. CASE InsertDispute(p)
    <2>1. /\ status' = status
          /\ dispute' = IF dispute = "none" THEN "open" ELSE dispute
          /\ next \in {"ask", "none"}
      BY <1>2, <1>7 DEF InsertDispute, Go, TypeOK
    <2> QED
      BY <1>2, <1>3, <2>1
         DEF ThreadInv, CallInv, HistoryMatchesColumns, DisputeMatchesDeal, CompletedIffTerminal
  <1> QED
    BY <1>4, <1>5, <1>6, <1>7 DEF Step

LEMMA ThreadInvariant == OneThread /\ Spec => [](Inv /\ ThreadInv)
  <1> SUFFICES ASSUME OneThread PROVE Spec => [](Inv /\ ThreadInv)
    OBVIOUS
  <1>1. Init => Inv /\ ThreadInv
    BY InvInit, ThreadInit
  <1>2. Inv /\ ThreadInv /\ [Next]_vars => (Inv /\ ThreadInv)'
    <2> SUFFICES ASSUME Inv, ThreadInv, [Next]_vars PROVE ThreadInv'
      BY InvStep
    <2>1. CASE UNCHANGED vars
      BY <2>1 DEF vars, ThreadInv, CallInv, HistoryMatchesColumns, DisputeMatchesDeal,
         CompletedIffTerminal
    <2> QED
      BY <2>1, ThreadTransaction, ThreadCall DEF Next
  <1> QED
    BY <1>1, <1>2, PTL DEF Spec

\* With one thread of control the payment history agrees with the released and
\* refunded columns until an admin decides the deal as a whole, once.
THEOREM OneThreadHistory == OneThread /\ Spec => []HistoryMatchesColumns
  BY ThreadInvariant, PTL DEF ThreadInv

\* With one thread of control a deal under review has an unresolved dispute
\* row and a resolved one a decision, crashes between the writes included.
THEOREM OneThreadDispute == OneThread /\ Spec => []DisputeMatchesDeal
  BY ThreadInvariant, PTL DEF ThreadInv

\* With one thread of control completed_at is set exactly on ended deals.
THEOREM OneThreadCompletion == OneThread /\ Spec => []CompletedIffTerminal
  BY ThreadInvariant, PTL DEF ThreadInv

\* With one thread of control no request, answer or payout touches a disputed
\* deal.
THEOREM OneThreadDisputeFreezes == OneThread /\ Spec => DisputeFreezes
  <1> SUFFICES ASSUME OneThread PROVE Spec => DisputeFreezes
    OBVIOUS
  <1> DEFINE A == (status \in {"DISPUTED", "UNDER_REVIEW"}) =>
                    /\ UNCHANGED <<settled, request, remaining>>
                    /\ status' \in {status, "UNDER_REVIEW", "RELEASED", "REFUNDED"}
  <1>1. Inv /\ ThreadInv /\ [Next]_vars => [A]_vars
    <2> SUFFICES ASSUME ThreadInv, Next, status \in {"DISPUTED", "UNDER_REVIEW"}
                 PROVE  /\ UNCHANGED <<settled, request, remaining>>
                        /\ status' \in {status, "UNDER_REVIEW", "RELEASED", "REFUNDED"}
      OBVIOUS
    <2>1. CASE Transaction
      <3>1. ManualRefund \/ ManualReleaseForDispute
        BY <2>1, SettlementTable
           DEF Transaction, RequestRelease, RequestRefund, Request, AgreeRelease, AgreeRefund,
               Agree, Refuse, ConfirmManualRelease, CompleteManualRefund, Confirm, Kinds, Requested
      <3> QED
        BY <3>1 DEF ManualRefund, ManualReleaseForDispute, Resolve
    <2>2. CASE \E p \in Instances : Step(p)
      <3>1. PICK p \in Instances : Step(p)
        BY <2>2
      <3>2. UNCHANGED <<settled, request, remaining>>
        BY <3>1 DEF Step, DeliverRead, DisputeRead, ReviewFind, AssignDispute, WriteStatus,
           InsertDispute, ReviewRead, Crash
      <3>3. CASE WriteStatus(p)
        <4>1. call[p] = "review"
          BY <3>3, SettlementTable
             DEF WriteStatus, StatusAfter, ThreadInv, CallInv, DisputableStates
        <4> QED
          BY <3>2, <3>3, <4>1 DEF WriteStatus, StatusAfter
      <3>4. CASE ~WriteStatus(p)
        BY <3>1, <3>2, <3>4 DEF Step, DeliverRead, DisputeRead, ReviewFind, AssignDispute,
           InsertDispute, ReviewRead, Crash
      <3> QED
        BY <3>3, <3>4
    <2> QED
      BY <2>1, <2>2 DEF Next
  <1> QED
    BY <1>1, ThreadInvariant, PTL DEF Spec, DisputeFreezes

\* With one thread of control every status change of a funded deal is a row of
\* the transition table, openDispute's included, which does not ask it.
THEOREM OneThreadKeepsTable == OneThread /\ Spec => StatusChangesAreTransitions
  <1> SUFFICES ASSUME OneThread PROVE Spec => StatusChangesAreTransitions
    OBVIOUS
  <1> DEFINE A == \E by \in Roles : CanTransition(status, status', by)
  <1>1. Inv /\ ThreadInv /\ [Next]_vars => [A]_status
    <2> SUFFICES ASSUME Inv, ThreadInv, Next, status' # status
                 PROVE  \E by \in Roles : CanTransition(status, status', by)
      BY DEF vars
    <2> USE DEF Roles, Parties
    <2>1. CASE \E k \in Kinds, u \in Parties, n \in 1 .. Amount : Request(k, u, n)
      BY <2>1 DEF Request
    <2>2. CASE \E k \in Kinds, u \in Parties : Agree(k, u) \/ Refuse(k, u)
      BY <2>2 DEF Agree, Refuse
    <2>3. CASE \E k \in Kinds : Confirm(k)
      BY <2>3 DEF Confirm
    <2>4. CASE ManualRefund \/ ManualReleaseForDispute
      BY <2>4 DEF ManualRefund, ManualReleaseForDispute, Resolve
    <2>5. CASE \E p \in Instances : Step(p)
      <3>1. PICK p \in Instances : WriteStatus(p)
        BY <2>5 DEF Step, DeliverRead, DisputeRead, ReviewFind, AssignDispute, InsertDispute,
           ReviewRead, Crash
      <3>2. \/ call[p] = "deliver" /\ status' = "DELIVERED"
            \/ call[p] = "freeze" /\ status' = "DISPUTED"
            \/ call[p] = "review" /\ status' = "UNDER_REVIEW"
        BY <3>1 DEF WriteStatus, StatusAfter
      <3> QED
        BY <3>2, SettlementTable DEF ThreadInv, CallInv
    <2> QED
      BY <2>1, <2>2, <2>3, <2>4, <2>5
         DEF Next, Transaction, RequestRelease, RequestRefund, AgreeRelease, AgreeRefund,
             ConfirmManualRelease, CompleteManualRefund, Kinds
  <1> QED
    BY <1>1, ThreadInvariant, PTL DEF Spec, StatusChangesAreTransitions
=============================================================================
