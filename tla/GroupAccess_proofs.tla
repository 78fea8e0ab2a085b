-------------------------- MODULE GroupAccess_proofs --------------------------
(***************************************************************************)
(* What holds of GroupAccess for every set of users, admins and instances: *)
(* it implements DealFlow, so that the theorems of DealFlow_proofs are     *)
(* theorems of the bot with its authorization, and with one thread of      *)
(* control nobody acts on rights that were taken away.                     *)
(***************************************************************************)
EXTENDS GroupAccess, DealFlow_proofs

-----------------------------------------------------------------------------
(* The deal under authorization is the deal of DealFlow                    *)

\* An instance that is busy with a handler's checks is in no unlocked
\* operation of the deal.
OneThing == \A p \in Instances : handler[p] # NoHandler => Idle(p)

AccessInv == TypeOK /\ AccessTypeOK /\ OneThing

\* The check and the answer leave the deal as it is, and what follows the check
\* is an operation of the deal.
LEMMA StepIsFlowStep ==
  ASSUME AccessInv, [AccessNext]_accessVars
  PROVE  [Next]_vars
  <1> USE DealFlowAssumption
  <1>1. CASE OwnerCommand
    BY <1>1 DEF OwnerCommand, AllowGroup, DisallowGroup, AddAdmin, RemoveAdmin
  <1>2. ASSUME NEW p \in Instances, Check(p)
        PROVE  UNCHANGED vars
    BY <1>2 DEF Check, PressCancel, Press, AcceptChecks, Leave
  <1>3. ASSUME NEW p \in Instances, Act(p)
        PROVE  Next
    <2>1. handler[p] # NoHandler
      BY <1>3 DEF Act, TakeOn, Confirm, AskEvidence, AskReason, Cancel, NoHandler
    <2>2. Idle(p)
      BY <2>1 DEF AccessInv, OneThing
    <2>3. handler[p].for \in Users
      BY <2>1 DEF AccessInv, AccessTypeOK, Handlers
    <2>4. CASE TakeOn(p) \/ Confirm(p) \/ AskEvidence(p) \/ AskReason(p)
      <3>1. handler[p].for \in Admins
        BY <2>4 DEF TakeOn, Confirm, AskEvidence, AskReason, AdminAccept, VerifyPayment,
                    RequestEvidence, AskRejectReason
      <3>2. Transaction
        BY <2>4, <3>1 DEF TakeOn, Confirm, AskEvidence, AskReason, Transaction
      <3> QED
        BY <2>2, <3>2 DEF Next
    <2>5. CASE Cancel(p)
      BY <2>3, <2>5 DEF Cancel, Next, Step
    <2> QED
      BY <1>3, <2>4, <2>5 DEF Act
  <1>4. CASE DealStep
    <2>1. CASE Answered
      BY <2>1 DEF Answered, SomeFree, Free, Next, Transaction
    <2>2. ASSUME NEW p \in Instances, Ongoing(p)
          PROVE  Next
      BY <2>2 DEF Ongoing, Next, Step
    <2> QED
      BY <1>4, <2>1, <2>2 DEF DealStep, Next
  <1>5. CASE UNCHANGED accessVars
    BY <1>5 DEF accessVars
  <1> QED
    BY <1>1, <1>2, <1>3, <1>4, <1>5 DEF AccessNext

\* The rows of the group and the records of the handlers keep their types.
LEMMA AccessTypeStep ==
  ASSUME AccessTypeOK, [AccessNext]_accessVars
  PROVE  AccessTypeOK'
  <1>1. CASE OwnerCommand
    BY <1>1 DEF OwnerCommand, AllowGroup, DisallowGroup, AddAdmin, RemoveAdmin, AccessTypeOK
  <1>2. ASSUME NEW p \in Instances, Check(p)
        PROVE  AccessTypeOK'
    <2>1. ASSUME NEW u \in Users, PressCancel(p, u)
          PROVE  AccessTypeOK'
      BY <2>1 DEF PressCancel, GoOn, AccessTypeOK, Handlers, groupVars
    <2>2. ASSUME NEW u \in Users, NEW button \in Buttons, Press(p, u, button)
          PROVE  AccessTypeOK'
      BY <2>2 DEF Press, GoOn, AccessTypeOK, Handlers, groupVars
    <2>3. CASE AcceptChecks(p)
      <3>1. handler[p].for \in Users
        BY <2>3 DEF AcceptChecks, AccessTypeOK, Handlers, NoHandler
      <3> QED
        BY <2>3, <3>1 DEF AcceptChecks, GoOn, AccessTypeOK, Handlers, groupVars
    <2>4. CASE Leave(p)
      BY <2>4 DEF Leave, Finish, AccessTypeOK, Handlers, groupVars
    <2> QED
      BY <1>2, <2>1, <2>2, <2>3, <2>4 DEF Check
  <1>3. ASSUME NEW p \in Instances, Act(p)
        PROVE  AccessTypeOK'
    BY <1>3 DEF Act, Finish, AccessTypeOK, Handlers, groupVars
  <1>4. CASE DealStep \/ UNCHANGED accessVars
    BY <1>4 DEF DealStep, accessVars, AccessTypeOK, groupVars
  <1> QED
    BY <1>1, <1>2, <1>3, <1>4 DEF AccessNext

\* A handler starts on a free instance, and an unlocked operation of the deal
\* on an instance that has no handler.
LEMMA OneThingStep ==
  ASSUME AccessInv, [AccessNext]_accessVars
  PROVE  OneThing'
  <1> USE DEF AccessInv
  <1>1. CASE OwnerCommand
    BY <1>1 DEF OwnerCommand, AllowGroup, DisallowGroup, AddAdmin, RemoveAdmin, OneThing, Idle,
                vars
  <1>2. ASSUME NEW p \in Instances, Check(p)
        PROVE  OneThing'
    <2>1. UNCHANGED call
      BY <1>2 DEF Check, PressCancel, Press, AcceptChecks, Leave, vars
    <2>2. Idle(p)
      BY <1>2 DEF Check, PressCancel, Press, AcceptChecks, Leave, Free, OneThing, NoHandler
    <2>3. \A q \in Instances : q # p => handler'[q] = handler[q]
      BY <1>2 DEF Check, PressCancel, Press, AcceptChecks, Leave, GoOn, Finish, AccessTypeOK
    <2> QED
      BY <2>1, <2>2, <2>3 DEF OneThing, Idle
  <1>3. ASSUME NEW p \in Instances, Act(p)
        PROVE  OneThing'
    <2>1. handler'[p] = NoHandler /\ \A q \in Instances : q # p => handler'[q] = handler[q]
      BY <1>3 DEF Act, Finish, AccessTypeOK
    <2>2. \A q \in Instances : q # p => call'[q] = call[q]
      BY <1>3 DEF Act, TakeOn, Confirm, AskEvidence, AskReason, Cancel, AdminAccept, Accepted,
                  VerifyPayment, RequestEvidence, AskRejectReason, CancelRead, Begin, TypeOK
    <2> QED
      BY <2>1, <2>2 DEF OneThing, Idle
  <1>4. CASE DealStep
    <2>1. CASE Answered \/ DeadlinePasses
      BY <1>4, <2>1 DEF DealStep, Answered, AgreeToDeal, ReportPayment, RejectPayment, DropReason, dealVars,
                        DeadlinePasses, OneThing, Idle
    <2>2. ASSUME NEW p \in Instances, Ongoing(p)
          PROVE  OneThing'
      <3>1. handler[p] = NoHandler
        BY <2>2 DEF Ongoing, CancelWrite, ExpireWrite, EvidenceWrite, Crash,
                    OneThing, Idle, NoCall
      <3>2. \A q \in Instances : q # p => call'[q] = call[q]
        BY <2>2 DEF Ongoing, ExpireRead, EvidenceRead, CancelWrite, ExpireWrite,
                    EvidenceWrite, Crash, Begin, Return, TypeOK
      <3> QED
        BY <1>4, <3>1, <3>2 DEF DealStep, OneThing, Idle
    <2> QED
      BY <1>4, <2>1, <2>2 DEF DealStep
  <1>5. CASE UNCHANGED accessVars
    BY <1>5 DEF accessVars, vars, OneThing, Idle
  <1> QED
    BY <1>1, <1>2, <1>3, <1>4, <1>5 DEF AccessNext

LEMMA AccessInvariant == AccessSpec => []AccessInv
  <1>1. AccessInit => AccessInv
    <2> SUFFICES ASSUME AccessInit
                 PROVE  AccessInv
      OBVIOUS
    <2>1. TypeOK
      BY TypeInit DEF AccessInit
    <2> QED
      BY <2>1 DEF AccessInit, AccessInv, AccessTypeOK, OneThing, Handlers
  <1>2. AccessInv /\ [AccessNext]_accessVars => AccessInv'
    <2> SUFFICES ASSUME AccessInv, [AccessNext]_accessVars
                 PROVE  AccessInv'
      OBVIOUS
    <2>1. TypeOK'
      BY StepIsFlowStep, TypeStep DEF AccessInv
    <2> QED
      BY <2>1, AccessTypeStep, OneThingStep DEF AccessInv
  <1> QED
    BY <1>1, <1>2, PTL DEF AccessSpec

\* The rows of the group and the handlers under way are well-typed throughout.
THEOREM AccessTypeCorrect == AccessSpec => []AccessTypeOK
  BY AccessInvariant, PTL DEF AccessInv

\* GroupAccess implements DealFlow: its initial states are initial states of
\* the deal and its steps are steps of the deal or leave it alone.
THEOREM AccessKeepsFlow == AccessSpec => KeepsFlow
  <1>1. AccessInit => Init
    BY DEF AccessInit
  <1>2. AccessInv /\ [AccessNext]_accessVars => [Next]_vars
    BY StepIsFlowStep
  <1> QED
    BY AccessInvariant, <1>1, <1>2, PTL DEF AccessSpec, KeepsFlow, Spec

\* So a deal under authorization asks for money only after both parties agreed
\* and an admin accepted it, however often the owner changes the admins.
THEOREM AccessAgreementFirst ==
  ASSUME NoJoin
  PROVE  AccessSpec => []AgreedBeforePayment
  BY AccessKeepsFlow, AgreementComesFirst, PTL DEF KeepsFlow

-----------------------------------------------------------------------------
(* One thread of control                                                   *)

\* What a handler checked is still so when it calls the service.
RightsInv ==
  \A p \in Instances :
    LET u == handler[p].for IN
    /\ handler[p].does \in Buttons => AuthorizedForDealAction(u)
    /\ handler[p].does = "takeOn" => approved /\ AuthorizedForGroup(u)
    /\ handler[p].does = "cancel" => AuthorizedToCancel(u)

LEMMA RightsStep ==
  ASSUME OneThread, AccessInv, RightsInv, [AccessNext]_accessVars
  PROVE  RightsInv'
  <1>1. PICK p \in Instances : Instances = {p}
    BY DEF OneThread
  <1> USE DEF AccessInv
  <1>2. CASE handler'[p] = NoHandler
    BY <1>1, <1>2 DEF RightsInv, NoHandler, Buttons
  <1>3. CASE OwnerCommand
    <2>1. handler'[p] = NoHandler
      BY <1>1, <1>3 DEF OwnerCommand, SomeFree, Free, AllowGroup, DisallowGroup, AddAdmin,
                        RemoveAdmin
    <2> QED
      BY <1>2, <2>1
  <1>4. CASE Check(p)
    <2>1. UNCHANGED <<approved, assigned, sellerId>>
      BY <1>4 DEF Check, PressCancel, Press, AcceptChecks, Leave, groupVars, vars, dealVars
    <2>2. ASSUME NEW u \in Users, PressCancel(p, u)
          PROVE  RightsInv'
      <3>1. handler'[p] = [does |-> "cancel", for |-> u] /\ AuthorizedToCancel(u)
        BY <2>2 DEF PressCancel, GoOn, AccessTypeOK
      <3> QED
        BY <1>1, <2>1, <3>1 DEF RightsInv, Buttons, AuthorizedToCancel, AuthorizedForDealAction
    <2>3. ASSUME NEW u \in Users, NEW button \in Buttons, Press(p, u, button)
          PROVE  RightsInv'
      <3>1. /\ handler'[p].for = u
            /\ handler'[p].does # "refuse" => handler'[p].does \in Buttons /\ AuthorizedForDealAction(u)
        BY <2>3 DEF Press, GoOn, AccessTypeOK
      <3> QED
        BY <1>1, <2>1, <3>1 DEF RightsInv, Buttons, AuthorizedForDealAction
    <2>4. CASE AcceptChecks(p)
      <3>1. /\ handler'[p] = [does |-> "takeOn", for |-> handler[p].for]
            /\ approved /\ AuthorizedForGroup(handler[p].for)
        BY <2>4 DEF AcceptChecks, MayTakeOn, GoOn, AccessTypeOK
      <3> QED
        BY <1>1, <2>1, <3>1 DEF RightsInv, Buttons, AuthorizedForGroup, AuthorizedForDealAction
    <2>5. CASE Leave(p)
      BY <1>2, <2>5 DEF Leave, Finish, AccessTypeOK
    <2> QED
      BY <1>4, <2>2, <2>3, <2>4, <2>5 DEF Check
  <1>5. CASE Act(p)
    BY <1>2, <1>5 DEF Act, Finish, AccessTypeOK
  <1>6. CASE DealStep
    <2>1. CASE Answered \/ DeadlinePasses
      <3>1. UNCHANGED <<approved, assigned, handler, sellerId>>
        BY <1>6, <2>1 DEF DealStep, groupVars, Answered, AgreeToDeal, ReportPayment,
                          RejectPayment, DropReason, dealVars,
                          DeadlinePasses
      <3> QED
        BY <3>1 DEF RightsInv, AuthorizedForDealAction, AuthorizedForGroup, AuthorizedToCancel
    <2>2. CASE Ongoing(p)
      <3>1. handler[p] = NoHandler
        BY <2>2 DEF Ongoing, CancelWrite, ExpireWrite, EvidenceWrite, Crash,
                    OneThing, Idle, NoCall
      <3> QED
        BY <1>2, <1>6, <3>1 DEF DealStep
    <2> QED
      BY <1>1, <1>6, <2>1, <2>2 DEF DealStep
  <1>7. CASE UNCHANGED accessVars
    BY <1>7 DEF accessVars, vars, dealVars, groupVars, RightsInv, AuthorizedForDealAction,
                AuthorizedForGroup, AuthorizedToCancel
  <1> QED
    BY <1>1, <1>3, <1>4, <1>5, <1>6, <1>7 DEF AccessNext

\* The three acts that need rights are done by the handler that checked them.
LEMMA ActStep ==
  ASSUME AccessInv, RightsInv, [AccessNext]_accessVars
  PROVE  /\ acceptedBy' # acceptedBy => approved /\ AuthorizedForGroup(acceptedBy')
         /\ verifiedBy' \notin {None, verifiedBy} => AuthorizedForDealAction(verifiedBy')
         /\ \A p \in Instances :
              (call'[p].op = "cancel" /\ Idle(p)) => AuthorizedToCancel(call'[p].by)
  <1> DEFINE Rightful ==
        /\ acceptedBy' # acceptedBy => approved /\ AuthorizedForGroup(acceptedBy')
        /\ verifiedBy' \notin {None, verifiedBy} => AuthorizedForDealAction(verifiedBy')
        /\ \A p \in Instances :
             (call'[p].op = "cancel" /\ Idle(p)) => AuthorizedToCancel(call'[p].by)
  <1> USE DEF AccessInv
  <1>1. CASE UNCHANGED <<acceptedBy, verifiedBy, call>>
    BY <1>1 DEF Idle, NoCall
  <1>2. CASE OwnerCommand \/ UNCHANGED accessVars
    BY <1>1, <1>2 DEF OwnerCommand, AllowGroup, DisallowGroup, AddAdmin, RemoveAdmin, accessVars,
                      vars,
                      dealVars
  <1>3. ASSUME NEW p \in Instances, Check(p)
        PROVE  Rightful
    BY <1>1, <1>3 DEF Check, PressCancel, Press, AcceptChecks, Leave, vars, dealVars
  <1>4. ASSUME NEW p \in Instances, Act(p)
        PROVE  Rightful
    <2>1. CASE TakeOn(p)
      <3>1. /\ acceptedBy' = handler[p].for /\ UNCHANGED <<verifiedBy, call>>
            /\ approved /\ AuthorizedForGroup(handler[p].for)
        BY <2>1 DEF TakeOn, AdminAccept, Accepted, RightsInv
      <3> QED
        BY <3>1 DEF Idle, NoCall
    <2>2. CASE Confirm(p)
      <3>1. /\ verifiedBy' = handler[p].for /\ UNCHANGED <<acceptedBy, call>>
            /\ AuthorizedForDealAction(handler[p].for)
        BY <2>2 DEF Confirm, VerifyPayment, RightsInv, Buttons
      <3> QED
        BY <3>1 DEF Idle, NoCall
    <2>3. CASE AskEvidence(p) \/ AskReason(p)
      BY <1>1, <2>3 DEF AskEvidence, AskReason, RequestEvidence, AskRejectReason, dealVars
    <2>4. CASE Cancel(p)
      <3>1. /\ UNCHANGED <<acceptedBy, verifiedBy>>
            /\ AuthorizedToCancel(handler[p].for)
            /\ call'[p].by = handler[p].for
            /\ \A q \in Instances : q # p => call'[q] = call[q]
        BY <2>4 DEF Cancel, CancelRead, Begin, RightsInv, TypeOK, dealVars
      <3> QED
        BY <3>1 DEF Idle, NoCall
    <2> QED
      BY <1>4, <2>1, <2>2, <2>3, <2>4 DEF Act
  <1>5. CASE DealStep
    <2>1. CASE Answered \/ DeadlinePasses
      <3>1. UNCHANGED <<acceptedBy, call>> /\ verifiedBy' \in {None, verifiedBy}
        BY <2>1 DEF Answered, AgreeToDeal, ReportPayment, RejectPayment, DropReason, dealVars,
                    DeadlinePasses
      <3> QED
        BY <3>1 DEF Idle, NoCall
    <2>2. ASSUME NEW p \in Instances, Ongoing(p)
          PROVE  Rightful
      <3>1. UNCHANGED <<acceptedBy, verifiedBy>>
        BY <2>2 DEF Ongoing, ExpireRead, EvidenceRead, CancelWrite, ExpireWrite, CloseAs,
                    EvidenceWrite, Crash, dealVars
      <3>2. \A q \in Instances : Idle(q) => call'[q].op # "cancel"
        BY <2>2 DEF Ongoing, ExpireRead, EvidenceRead, CancelWrite, ExpireWrite,
                    EvidenceWrite, Crash, Begin, Return, TypeOK, Idle, NoCall
      <3> QED
        BY <3>1, <3>2
    <2> QED
      BY <1>5, <2>1, <2>2 DEF DealStep
  <1> QED
    BY <1>2, <1>3, <1>4, <1>5 DEF AccessNext

\* With one thread of control nobody accepts, confirms or cancels on rights the
\* owner has taken away, nor in a group that is no longer approved.
THEOREM OneThreadActsWithRights ==
  ASSUME OneThread
  PROVE  AccessSpec => ActsWithRights
  <1>1. AccessInit => RightsInv
    BY DEF AccessInit, RightsInv, NoHandler, Buttons
  <1>2. AccessInv /\ RightsInv /\ [AccessNext]_accessVars => RightsInv'
    BY RightsStep
  <1>3. AccessInv /\ RightsInv /\ [AccessNext]_accessVars =>
          [/\ acceptedBy' # acceptedBy => approved /\ AuthorizedForGroup(acceptedBy')
           /\ verifiedBy' \notin {None, verifiedBy} => AuthorizedForDealAction(verifiedBy')
           /\ \A p \in Instances :
                (call'[p].op = "cancel" /\ Idle(p)) => AuthorizedToCancel(call'[p].by)]_accessVars
    BY ActStep
  <1> QED
    BY AccessInvariant, <1>1, <1>2, <1>3, PTL DEF AccessSpec, ActsWithRights
=============================================================================
