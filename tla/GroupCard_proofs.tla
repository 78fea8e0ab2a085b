-------------------------- MODULE GroupCard_proofs --------------------------
(***************************************************************************)
(* What holds of GroupCard for every set of users, admins and instances:   *)
(* posting and editing the card change nothing of the deal and of the      *)
(* rights to it, so that the theorems of GroupAccess_proofs carry over;    *)
(* whatever is lost or shown late, nobody is misled by it, and a report    *)
(* can be decided; and one instance alone keeps the card up to date.       *)
(***************************************************************************)
EXTENDS GroupCard, GroupAccess_proofs

-----------------------------------------------------------------------------
(* The deal with its card is the deal of GroupAccess                       *)

LEMMA CardStepIsAccessStep ==
  ASSUME [CardNext]_allVars
  PROVE  [AccessNext]_accessVars
  <1>1. ASSUME NEW p \in Instances, CardStep(p)
        PROVE  UNCHANGED accessVars
    BY <1>1 DEF CardStep, PostCard, RecordCard, PostingFails, Fetch, Show, ShowFails, Tell,
                BreaksOff
  <1>2. ASSUME NEW p \in Instances, DealOnCard(p)
        PROVE  AccessNext
    <2>1. CASE AgreeOrReport(p)
      BY <2>1 DEF AgreeOrReport, Available, AccessNext, DealStep, Answered, SomeFree
    <2>2. CASE Reason(p)
      BY <2>2 DEF Reason, Available, AccessNext, DealStep, Answered, SomeFree
    <2>3. CASE ReasonDropped(p)
      BY <2>3 DEF ReasonDropped, Available, AccessNext, DealStep, Answered, SomeFree
    <2>4. CASE CheckOnCard(p)
      BY <2>4 DEF CheckOnCard, AccessNext
    <2>5. CASE ActOnCard(p)
      BY <2>5 DEF ActOnCard, AccessNext
    <2>6. CASE CallOnCard(p)
      BY <2>6 DEF CallOnCard, AccessNext, DealStep, Ongoing
    <2> QED
      BY <1>2, <2>1, <2>2, <2>3, <2>4, <2>5, <2>6 DEF DealOnCard
  <1>3. CASE OwnerMeanwhile
    BY <1>3 DEF OwnerMeanwhile, AccessNext
  <1>4. CASE DeadlineMeanwhile
    BY <1>4 DEF DeadlineMeanwhile, AccessNext, DealStep
  <1>5. CASE UNCHANGED allVars
    BY <1>5 DEF allVars
  <1> QED
    BY <1>1, <1>2, <1>3, <1>4, <1>5 DEF CardNext

\* The card and its messages are an addition to GroupAccess and change nothing
\* of it: neither the deal nor anybody's right.
THEOREM CardKeepsAccess == CardSpec => AccessSpec
  <1>1. CardInit => AccessInit
    BY DEF CardInit
  <1>2. [CardNext]_allVars => [AccessNext]_accessVars
    BY CardStepIsAccessStep
  <1> QED
    BY <1>1, <1>2, PTL DEF CardSpec, AccessSpec

\* With one thread of control nobody acts on rights taken away, with the card
\* and its messages in between as well.
THEOREM CardActsWithRights ==
  ASSUME OneThread
  PROVE  CardSpec => ActsWithRights
  BY CardKeepsAccess, OneThreadActsWithRights, PTL

\* With one thread of control the deal with its card keeps the promise.
THEOREM CardKeepsPromise ==
  ASSUME OneThread, NoJoin
  PROVE  CardSpec => KeepsPromise
  BY CardKeepsAccess, AccessKeepsFlow, OneThreadKeepsPromise, PTL DEF KeepsFlow

-----------------------------------------------------------------------------
(* Types                                                                   *)

CardTypes ==
  /\ posted \in BOOLEAN
  /\ card \in Cards \cup {NoCard}
  /\ held \subseteq Admins
  /\ missed \subseteq {"card", "verdict"}
  /\ render \in [Instances -> Jobs \cup {NoJob}]

\* What is shown of a well-typed deal is a card.
LEMMA ShownIsCard ==
  ASSUME TypeOK, NEW pay \in BOOLEAN
  PROVE  Shown(pay) \in Cards
  BY DEF TypeOK, Shown, Cards

LEMMA JobTypes ==
  ASSUME render \in [Instances -> Jobs \cup {NoJob}], NEW p \in Instances
  PROVE  /\ render[p].seen \in Cards \cup {NoCard}
         /\ render[p].next \in {"fetch", "show", "tell"} => render[p].by \in Operations
  BY DEF Jobs, NoJob

LEMMA CardTypesStep ==
  ASSUME TypeOK, AccessTypeOK, CardTypes, [CardNext]_allVars
  PROVE  CardTypes'
  <1> USE DealFlowAssumption
  <1>1. ASSUME NEW p \in Instances, CardStep(p)
        PROVE  CardTypes'
    <2>1. /\ render[p].seen \in Cards \cup {NoCard}
          /\ render[p].next \in {"fetch", "show", "tell"} => render[p].by \in Operations
      BY JobTypes DEF CardTypes
    <2>2. CASE PostCard(p)
      BY <2>2, ShownIsCard DEF PostCard, Continue, CardTypes, Jobs
    <2>3. CASE RecordCard(p) \/ PostingFails(p) \/ BreaksOff(p)
      BY <2>3 DEF RecordCard, PostingFails, BreaksOff, Done, CardTypes
    <2>4. CASE Fetch(p)
      <3>1. WithDetails(render[p].by) \in BOOLEAN
        BY DEF WithDetails
      <3>2. Shown(WithDetails(render[p].by)) \in Cards
        BY <3>1, ShownIsCard
      <3> QED
        BY <2>1, <2>4, <3>2 DEF Fetch, Continue, CardTypes, Jobs
    <2>5. CASE Show(p)
      BY <2>1, <2>5 DEF Show, AfterCard, Continue, Done, CardTypes, Jobs, Operations
    <2>6. CASE ShowFails(p)
      BY <2>1, <2>6 DEF ShowFails, AfterCard, Continue, Done, CardTypes, Jobs, Operations
    <2>7. CASE Tell(p)
      BY <2>7 DEF Tell, Done, CardTypes, TypeOK
    <2> QED
      BY <1>1, <2>2, <2>3, <2>4, <2>5, <2>6, <2>7 DEF CardStep
  <1>2. ASSUME NEW p \in Instances, DealOnCard(p)
        PROVE  CardTypes'
    <2>1. CASE AgreeOrReport(p)
      BY <2>1 DEF AgreeOrReport, Renders, Continue, CardTypes, Jobs, Operations
    <2>2. CASE Reason(p)
      BY <2>2 DEF Reason, Renders, Continue, CardTypes, Jobs, Operations
    <2>3. CASE ReasonDropped(p)
      BY <2>3 DEF ReasonDropped, CardTypes
    <2>4. CASE CheckOnCard(p)
      BY <2>4 DEF CheckOnCard, cardVars, CardTypes
    <2>5. CASE ActOnCard(p)
      BY <2>5 DEF ActOnCard, Renders, Continue, CardTypes, Jobs, Operations
    <2>6. CASE CallOnCard(p)
      <3>1. UNCHANGED <<posted, card, held>>
        BY <2>6 DEF CallOnCard
      <3>2. missed' \in {missed, missed \cup {"card"}}
        BY <2>6 DEF CallOnCard
      <3>3. \/ render' = render
            \/ Renders(p, "cancel")
            \/ Continue(p, "tell", "evidence", NoCard)
        BY <2>6 DEF CallOnCard
      <3>4. render' \in [Instances -> Jobs \cup {NoJob}]
        BY <3>3 DEF Renders, Continue, CardTypes, Jobs, Operations
      <3> QED
        BY <3>1, <3>2, <3>4 DEF CardTypes
    <2> QED
      BY <1>2, <2>1, <2>2, <2>3, <2>4, <2>5, <2>6 DEF DealOnCard
  <1>3. CASE OwnerMeanwhile \/ DeadlineMeanwhile \/ UNCHANGED allVars
    BY <1>3 DEF OwnerMeanwhile, DeadlineMeanwhile, allVars, cardVars, CardTypes
  <1> QED
    BY <1>1, <1>2, <1>3 DEF CardNext

LEMMA CardTypesInit == CardInit => CardTypes
  <1> SUFFICES ASSUME CardInit
               PROVE  CardTypes
    OBVIOUS
  <1> DEFINE first == [next |-> "post", by |-> "post", seen |-> NoCard]
  <1>1. first \in Jobs
    BY DEF Jobs
  <1>2. PICK p \in Instances : render = [q \in Instances |-> IF q = p THEN first ELSE NoJob]
    BY DEF CardInit
  <1> HIDE DEF first
  <1>3. render \in [Instances -> Jobs \cup {NoJob}]
    BY <1>1, <1>2
  <1> QED
    BY <1>3 DEF CardInit, CardTypes

\* The card, the holders of buttons and the jobs of the instances are well-typed
\* throughout.
THEOREM CardTypeCorrect == CardSpec => []CardTypeOK
  <1>1. CardSpec => [](TypeOK /\ AccessTypeOK)
    <2>1. AccessInv => TypeOK /\ AccessTypeOK
      BY DEF AccessInv
    <2> QED
      BY <2>1, CardKeepsAccess, AccessInvariant, PTL
  <1>2. TypeOK /\ AccessTypeOK /\ CardTypes /\ [CardNext]_allVars => CardTypes'
    BY CardTypesStep
  <1>3. AccessTypeOK /\ CardTypes => CardTypeOK
    BY DEF CardTypeOK, CardTypes
  <1> QED
    BY <1>1, <1>2, <1>3, CardTypesInit, PTL DEF CardSpec

-----------------------------------------------------------------------------
(* Nobody is misled                                                        *)

\* The history row of the verified payment comes with the final status.
ReceivedInv == status = "PAYMENT_RECEIVED" => locks # 0

LEMMA ReceivedStep ==
  ASSUME NoJoin, TypeOK, FlowInv, ReceivedInv, [Next]_vars
  PROVE  ReceivedInv'
  <1>1. CASE \E a \in Admins : VerifyPayment(a)
    BY <1>1 DEF VerifyPayment, ReceivedInv, TypeOK
  <1>2. CASE ~(\E a \in Admins : VerifyPayment(a))
    <2>1. locks' = locks /\ (status' = status \/ status' # "PAYMENT_RECEIVED")
      BY <1>2 DEF Next, Transaction, Step, AgreeToDeal, ReportPayment, AdminAccept, Accepted,
                  AskRejectReason, DropReason, RejectPayment, RequestEvidence, DeadlinePasses,
                  CancelRead, JoinRead, CancelWrite, ExpireRead, ExpireWrite, CloseAs,
                  EvidenceRead, EvidenceWrite, JoinSeller, JoinPayment, Crash, vars, dealVars
    <2> QED
      BY <2>1 DEF ReceivedInv
  <1> QED
    BY <1>1, <1>2

\* The invariants of the deal the argument rests on.
DealInv == TypeOK /\ FlowInv /\ HistoryInv /\ ReceivedInv

LEMMA CardKeepsDeal ==
  ASSUME NoJoin
  PROVE  CardSpec => []DealInv
  <1>1. Init => ReceivedInv
    BY DEF Init, ReceivedInv
  <1>2. TypeOK /\ FlowInv /\ ReceivedInv /\ [Next]_vars => ReceivedInv'
    BY ReceivedStep
  <1>3. Spec => []ReceivedInv
    BY TypeCorrect, FlowInvariant, <1>1, <1>2, PTL DEF Spec
  <1>4. TypeOK /\ FlowInv /\ HistoryInv /\ ReceivedInv => DealInv
    BY DEF DealInv
  <1> QED
    BY CardKeepsAccess, AccessKeepsFlow, TypeCorrect, FlowInvariant, HistoryInvariant, <1>3, <1>4,
       PTL DEF KeepsFlow

\* What a card says of the deal is not taken back by any step of the deal.
Truthful(c) ==
  /\ c.pay => agreed = Parties /\ acceptedBy # None
  /\ c.status = "PAYMENT_RECEIVED" => Verified # {}

Settled(p) == WithDetails(render[p].by) => agreed = Parties /\ acceptedBy # None

\* NotMisled alone is not inductive: what an instance has read, or is about to
\* render, must be true as well, and an acceptance under way needs the card.
CardInv ==
  /\ Truthful(card)
  /\ held \subseteq {acceptedBy} \ {None}
  /\ acceptedBy # None => posted
  /\ \A p \in Instances : /\ Truthful(render[p].seen)
                          /\ Settled(p)
                          /\ handler[p].does = "takeOn" => posted

\* Agreements, the acceptance and the verdict are not taken back.
LEMMA KeptFacts ==
  ASSUME NoJoin, DealInv, DealInv', [Next]_vars
  PROVE  /\ agreed = Parties => agreed' = Parties
         /\ acceptedBy # None => acceptedBy' = acceptedBy
         /\ Verified # {} => Verified' # {}
  <1>1. /\ agreed \subseteq agreed' /\ agreed' \subseteq Parties
        /\ acceptedBy # None => acceptedBy' = acceptedBy
        /\ locks' \in {locks, locks + 1}
    <2>1. agreed' \subseteq Parties
      BY DEF DealInv, TypeOK
    <2>2. agreed \subseteq agreed' /\ (acceptedBy # None => acceptedBy' = acceptedBy)
      BY DEF Next, Transaction, Step, AgreeToDeal, ReportPayment, AdminAccept, Accepted,
             VerifyPayment, AskRejectReason, DropReason, RejectPayment, RequestEvidence,
             DeadlinePasses, CancelRead, JoinRead, CancelWrite, ExpireRead, ExpireWrite, CloseAs,
             EvidenceRead, EvidenceWrite, JoinSeller, JoinPayment, Crash, vars, dealVars
    <2>3. locks' \in {locks, locks + 1}
      BY DEF Next, Transaction, Step, AgreeToDeal, ReportPayment, AdminAccept, Accepted,
             VerifyPayment, AskRejectReason, DropReason, RejectPayment, RequestEvidence,
             DeadlinePasses, CancelRead, JoinRead, CancelWrite, ExpireRead, ExpireWrite, CloseAs,
             EvidenceRead, EvidenceWrite, JoinSeller, JoinPayment, Crash, vars, dealVars
    <2> QED
      BY <2>1, <2>2, <2>3
  <1>2. /\ locks = 0 <=> Verified = {}
        /\ locks' = 0 <=> Verified' = {}
        /\ locks \in Nat
    BY DEF DealInv, HistoryInv, RecordedOnce, TypeOK
  <1> QED
    BY <1>1, <1>2

LEMMA TruthKept ==
  ASSUME NoJoin, DealInv, DealInv', [Next]_vars, NEW c, Truthful(c)
  PROVE  Truthful(c)'
  BY KeptFacts DEF Truthful

\* The card of the deal as it is tells the truth, also with the payment details
\* once the deal is accepted.
LEMMA ShownIsTrue ==
  ASSUME DealInv, NEW pay \in BOOLEAN, pay => agreed = Parties /\ acceptedBy # None
  PROVE  Truthful(Shown(pay))
  BY DEF DealInv, HistoryInv, RecordedOnce, ReceivedInv, Truthful, Shown

LEMMA NoCardIsTrue == Truthful(NoCard)
  BY DEF Truthful, NoCard

\* What one instance has read and is rendering is as it should be.
Sound(p) == Truthful(render[p].seen) /\ Settled(p)

LEMMA SoundKept ==
  ASSUME NoJoin, DealInv, DealInv', [Next]_vars, CardTypes, NEW p \in Instances, Sound(p),
         render'[p].seen = render[p].seen, render'[p].by = render[p].by
  PROVE  Sound(p)'
  <1>1. PICK c : c = render[p].seen
    OBVIOUS
  <1>2. Truthful(c)'
    BY <1>1, TruthKept DEF Sound
  <1>3. Settled(p)'
    BY KeptFacts DEF Sound, Settled
  <1> QED
    BY <1>1, <1>2, <1>3 DEF Sound, Truthful

\* A job that has read nothing yet.
LEMMA FreshIsSound ==
  ASSUME NEW p \in Instances, render'[p].seen = NoCard,
         WithDetails(render'[p].by) => agreed' = Parties /\ acceptedBy' # None
  PROVE  Sound(p)'
  BY DEF Sound, Truthful, Settled, NoCard

LEMMA NoDetails ==
  /\ \A by \in {"none", "post", "agree", "report", "verify", "cancel", "evidence"} :
       ~WithDetails(by)
  /\ WithDetails("accept") /\ WithDetails("reject")
  BY DEF WithDetails

\* Sending changes nothing of the deal; what is put on the card was true when
\* it was read and still is.
LEMMA CardInvSend ==
  ASSUME NoJoin, DealInv, DealInv', CardTypes, CardInv, [Next]_vars,
         NEW p \in Instances, CardStep(p)
  PROVE  CardInv'
  <1>1. /\ UNCHANGED <<agreed, acceptedBy, handler, reports>>
        /\ \A q \in Instances : q # p => render'[q] = render[q]
    BY DEF CardStep, PostCard, RecordCard, PostingFails, Fetch, Show, ShowFails, Tell,
           BreaksOff, AfterCard, Continue, Done, CardTypes, accessVars, vars, dealVars
  <1>2. \A q \in Instances : q # p => Sound(q)'
    BY <1>1, SoundKept DEF CardInv, Sound
  <1>3. Truthful(card) /\ Truthful(render[p].seen) /\ Settled(p)
    BY DEF CardInv
  <1>4. \A c : Truthful(c) => Truthful(c)'
    BY <1>1 DEF Truthful, Verified
  <1>5. posted => posted'
    BY DEF CardStep, PostCard, RecordCard, PostingFails, Fetch, Show, ShowFails, Tell, BreaksOff
  <1>6. held' \subseteq {acceptedBy'} \ {None}
    BY <1>1 DEF CardInv, CardStep, PostCard, RecordCard, PostingFails, Fetch, Show, ShowFails,
                Tell, BreaksOff
  <1>7. Truthful(card)'
    <2>1. CASE PostCard(p)
      <3>1. card' = Shown(FALSE)
        BY <2>1 DEF PostCard
      <3>2. PICK c : c = Shown(FALSE)
        OBVIOUS
      <3>3. Truthful(c)'
        BY <1>4, <3>2, ShownIsTrue
      <3> QED
        BY <3>1, <3>2, <3>3 DEF Truthful
    <2>2. CASE card' \in {card, render[p].seen}
      <3>1. PICK c : c = card'
        OBVIOUS
      <3>2. Truthful(c)'
        BY <1>3, <1>4, <2>2, <3>1
      <3> QED
        BY <3>1, <3>2 DEF Truthful
    <2> QED
      BY <2>1, <2>2 DEF CardStep, RecordCard, PostingFails, Fetch, Show, ShowFails, Tell,
                        BreaksOff
  <1>8. Sound(p)'
    <2>1. CASE Fetch(p)
      <3> DEFINE pay == WithDetails(render[p].by)
      <3>1. PICK c : c = IF posted THEN Shown(pay) ELSE NoCard
        OBVIOUS
      <3>2. Truthful(c)
        <4>1. pay \in BOOLEAN /\ (pay => agreed = Parties /\ acceptedBy # None)
          BY <1>3 DEF WithDetails, Settled
        <4> HIDE DEF pay
        <4> QED
          BY <3>1, <4>1, ShownIsTrue, NoCardIsTrue
      <3>3. render'[p].seen = c /\ render'[p].by = render[p].by
        BY <2>1, <3>1 DEF Fetch, Continue, CardTypes
      <3> QED
        BY <1>1, <1>3, <1>4, <3>2, <3>3 DEF Sound, Settled, Truthful
    <2>2. CASE PostCard(p)
      BY <2>2, NoDetails, FreshIsSound DEF PostCard, Continue, CardTypes
    <2>3. CASE Done(p)
      BY <2>3, NoDetails, FreshIsSound DEF Done, CardTypes, NoJob
    <2>4. CASE Continue(p, "tell", "report", NoCard)
      BY <2>4, NoDetails, FreshIsSound DEF Continue, CardTypes
    <2> QED
      BY <2>1, <2>2, <2>3, <2>4 DEF CardStep, RecordCard, PostingFails, Show, ShowFails, Tell,
                                    BreaksOff, AfterCard
  <1> QED
    BY <1>1, <1>2, <1>5, <1>6, <1>7, <1>8 DEF CardInv, Sound

\* An operation of the deal leaves the card, and what it leaves to be rendered
\* is not read yet.
LEMMA CardInvDeal ==
  ASSUME NoJoin, DealInv, DealInv', AccessTypeOK, CardTypes, CardInv, [Next]_vars,
         NEW p \in Instances, DealOnCard(p)
  PROVE  CardInv'
  <1>1. /\ UNCHANGED <<card, posted>> /\ held' \subseteq held
        /\ \A q \in Instances : q # p => render'[q] = render[q]
    BY DEF DealOnCard, AgreeOrReport, Reason, ReasonDropped, CheckOnCard, ActOnCard, CallOnCard,
           Renders, Continue, CardTypes, cardVars
  <1>2. \A q \in Instances : q # p => Sound(q)'
    BY <1>1, SoundKept DEF CardInv, Sound
  <1>3. Truthful(card)'
    <2>1. PICK c : c = card
      OBVIOUS
    <2>2. Truthful(c)'
      BY <2>1, TruthKept DEF CardInv
    <2> QED
      BY <1>1, <2>1, <2>2 DEF Truthful
  <1>4. held' \subseteq {acceptedBy'} \ {None}
    BY <1>1, KeptFacts DEF CardInv
  <1>5. acceptedBy' # None => posted
    <2>1. CASE acceptedBy' = acceptedBy
      BY <2>1 DEF CardInv
    <2>2. CASE acceptedBy' # acceptedBy
      <3>1. ActOnCard(p) /\ TakeOn(p)
        BY <2>2 DEF DealOnCard, AgreeOrReport, Reason, ReasonDropped, CheckOnCard, ActOnCard,
             CallOnCard, Check, PressCancel, Press, AcceptChecks, Leave, Act, Confirm,
             AskEvidence, AskReason, Cancel, AgreeToDeal, ReportPayment, RejectPayment, DropReason,
             VerifyPayment, RequestEvidence, AskRejectReason, CancelRead, ExpireRead, EvidenceRead,
             CancelWrite, ExpireWrite, EvidenceWrite, CloseAs, Crash, vars, dealVars
      <3> QED
        BY <3>1 DEF TakeOn, CardInv
    <2> QED
      BY <2>1, <2>2
  <1>6. \A q \in Instances : handler'[q].does = "takeOn" => posted
    <2>1. CASE CheckOnCard(p)
      <3>1. \A q \in Instances : q # p => handler'[q] = handler[q]
        BY <2>1 DEF CheckOnCard, Check, PressCancel, Press, AcceptChecks, Leave, GoOn, Finish,
                    AccessTypeOK
      <3> QED
        BY <2>1, <3>1 DEF CheckOnCard, CardInv
    <2>2. CASE ActOnCard(p)
      BY <2>2 DEF ActOnCard, Act, Finish, AccessTypeOK, NoHandler, CardInv
    <2>3. CASE UNCHANGED handler
      BY <2>3 DEF CardInv
    <2> QED
      BY <2>1, <2>2, <2>3 DEF DealOnCard, AgreeOrReport, Reason, ReasonDropped, CallOnCard
  <1>7. Sound(p)'
    <2>1. CASE UNCHANGED render
      BY <2>1, SoundKept DEF CardInv, Sound
    <2>2. ASSUME NEW by, Renders(p, by),
                 WithDetails(by) => agreed' = Parties /\ acceptedBy' # None
          PROVE  Sound(p)'
      BY <2>2, FreshIsSound DEF Renders, Continue, CardTypes
    <2>3. CASE Continue(p, "tell", "evidence", NoCard)
      BY <2>3, NoDetails, FreshIsSound DEF Continue, CardTypes
    <2>4. CASE AgreeOrReport(p) \/ CallOnCard(p)
      BY <2>1, <2>2, <2>3, <2>4, NoDetails DEF AgreeOrReport, CallOnCard
    <2>5. CASE Reason(p)
      <3>1. agreed' = Parties /\ acceptedBy' # None
        BY <2>5, KeptFacts DEF Reason, RejectPayment, DealInv, FlowInv
      <3> QED
        BY <2>1, <2>2, <2>5, <3>1 DEF Reason
    <2>6. CASE ActOnCard(p)
      <3>1. CASE handler[p].does = "takeOn" /\ Renders(p, "accept")
        <4>1. TakeOn(p)
          BY <2>6, <3>1 DEF ActOnCard, Act, TakeOn, Confirm, AskEvidence, AskReason, Cancel
        <4>2. agreed' = Parties /\ acceptedBy' # None
          BY <4>1, DealFlowAssumption DEF TakeOn, AdminAccept, Accepted
        <4> QED
          BY <2>2, <3>1, <4>2
      <3> QED
        BY <2>1, <2>2, <2>6, <3>1, NoDetails DEF ActOnCard
    <2> QED
      BY <2>1, <2>4, <2>5, <2>6 DEF DealOnCard, ReasonDropped, CheckOnCard, cardVars
  <1> QED
    BY <1>1, <1>2, <1>3, <1>4, <1>5, <1>6, <1>7 DEF CardInv, Sound

LEMMA CardInvStep ==
  ASSUME NoJoin, DealInv, DealInv', AccessInv, CardTypes, CardInv, [CardNext]_allVars
  PROVE  CardInv'
  <1>1. [Next]_vars
    BY CardStepIsAccessStep, StepIsFlowStep
  <1>2. CASE \E p \in Instances : CardStep(p) \/ DealOnCard(p)
    BY <1>1, <1>2, CardInvSend, CardInvDeal DEF AccessInv
  <1>3. CASE OwnerMeanwhile \/ DeadlineMeanwhile \/ UNCHANGED allVars
    <2>1. /\ UNCHANGED <<card, held, posted, render, handler>>
          /\ UNCHANGED <<agreed, acceptedBy, reports>>
      <3>1. CASE OwnerMeanwhile
        <4>1. UNCHANGED <<vars, handler>>
          BY <3>1 DEF OwnerMeanwhile, OwnerCommand, AllowGroup, DisallowGroup, AddAdmin,
                      RemoveAdmin
        <4> QED
          BY <3>1, <4>1 DEF OwnerMeanwhile, cardVars, vars, dealVars
      <3>2. CASE DeadlineMeanwhile
        BY <3>2 DEF DeadlineMeanwhile, DeadlinePasses, cardVars
      <3>3. CASE UNCHANGED allVars
        BY <3>3 DEF allVars, accessVars, cardVars, vars, dealVars
      <3> QED
        BY <1>3, <3>1, <3>2, <3>3
    <2> QED
      BY <2>1 DEF CardInv, Truthful, Settled, Verified
  <1> QED
    BY <1>2, <1>3 DEF CardNext

LEMMA CardInvInit == CardInit => CardInv
  <1> SUFFICES ASSUME CardInit
               PROVE  CardInv
    OBVIOUS
  <1>1. acceptedBy = None /\ held = {} /\ card = NoCard /\ handler = [p \in Instances |-> NoHandler]
    BY DEF CardInit, AccessInit, Init
  <1>2. \A p \in Instances : render[p].seen = NoCard /\ render[p].by \in {"post", "none"}
    BY DEF CardInit, NoJob
  <1>3. \A p \in Instances : handler[p].does # "takeOn"
    BY <1>1 DEF NoHandler
  <1> QED
    BY <1>1, <1>2, <1>3, NoCardIsTrue, NoDetails DEF CardInv, Settled

\* Without the invitation path nobody is misled by the card or the buttons,
\* for any number of instances that render the same deal, however late they are
\* and whichever of their messages is lost.
THEOREM NobodyMisled ==
  ASSUME NoJoin
  PROVE  CardSpec => []NotMisled
  <1>1. CardSpec => []AccessInv
    BY CardKeepsAccess, AccessInvariant, PTL
  <1>2. CardSpec => []CardTypes
    <2>1. CardTypeOK => CardTypes
      BY DEF CardTypeOK, CardTypes
    <2> QED
      BY <2>1, CardTypeCorrect, PTL
  <1>3. DealInv /\ DealInv' /\ AccessInv /\ CardTypes /\ CardInv /\ [CardNext]_allVars => CardInv'
    BY CardInvStep
  <1>4. DealInv /\ CardInv => NotMisled
    BY DEF DealInv, FlowInv, CardInv, Truthful, NotMisled
  <1> QED
    BY CardKeepsDeal, CardInvInit, <1>1, <1>2, <1>3, <1>4, PTL DEF CardSpec

-----------------------------------------------------------------------------
(* A reported payment can be decided                                       *)

\* An instance is on its way to the acceptor with a report.
Bringing(p) == render[p].by = "report" /\ render[p].next \in {"fetch", "show", "tell"}

\* ReportIsAnswerable with the report that is still being brought.
AnswerInv ==
  status = "PAYMENT_REPORTED" =>
    \/ "verdict" \in missed
    \/ acceptedBy \in held \cup rejecting
    \/ \E p \in Instances : Bringing(p)

\* Sending: the report is brought on until the acceptor has the buttons, or it
\* is noted that they were lost.
LEMMA AnswerSend ==
  ASSUME DealInv, CardTypes, AnswerInv, NEW p \in Instances, CardStep(p)
  PROVE  AnswerInv'
  <1> SUFFICES ASSUME status = "PAYMENT_REPORTED"
               PROVE  AnswerInv'
    BY DEF AnswerInv, CardStep, PostCard, RecordCard, PostingFails, Fetch, Show, ShowFails, Tell,
           BreaksOff, accessVars, vars, dealVars
  <1>1. /\ UNCHANGED <<status, acceptedBy, rejecting>>
        /\ \A q \in Instances : q # p => render'[q] = render[q]
        /\ held \subseteq held'
    <2>1. UNCHANGED accessVars
      BY DEF CardStep, PostCard, RecordCard, PostingFails, Fetch, Show, ShowFails, Tell,
             BreaksOff
    <2>2. \A q \in Instances : q # p => render'[q] = render[q]
      BY DEF CardStep, PostCard, RecordCard, PostingFails, Fetch, Show, ShowFails, Tell,
             BreaksOff, AfterCard, Continue, Done, CardTypes
    <2>3. held \subseteq held'
      BY DEF CardStep, PostCard, RecordCard, PostingFails, Fetch, Show, ShowFails, Tell,
             BreaksOff
    <2> QED
      BY <2>1, <2>2, <2>3 DEF accessVars, vars, dealVars, sessionVars
  <1>2. \/ "verdict" \in missed
        \/ acceptedBy \in held \cup rejecting
        \/ \E q \in Instances : Bringing(q)
    BY DEF AnswerInv
  <1>3. CASE Tell(p)
    <2>1. acceptedBy \in held'
      BY <1>3 DEF Tell, DealInv, FlowInv, PayingStates
    <2> QED
      BY <1>1, <2>1 DEF AnswerInv
  <1>4. CASE ~Tell(p)
    <2>1. "verdict" \in missed => "verdict" \in missed'
      BY <1>4 DEF CardStep, PostCard, RecordCard, PostingFails, Fetch, Show, ShowFails, BreaksOff
    <2>2. CASE acceptedBy \in held \cup rejecting \/ "verdict" \in missed
      BY <1>1, <2>1, <2>2 DEF AnswerInv
    <2>3. CASE \E q \in Instances : Bringing(q)
      <3>1. PICK q \in Instances : Bringing(q)
        BY <2>3
      <3>2. CASE q # p
        BY <1>1, <3>1, <3>2 DEF AnswerInv, Bringing
      <3>3. CASE q = p
        <4>1. Fetch(p) \/ Show(p) \/ ShowFails(p) => Bringing(p)'
          BY <3>1, <3>3 DEF Bringing, Fetch, Show, ShowFails, AfterCard, Continue, CardTypes
        <4>2. BreaksOff(p) => "verdict" \in missed'
          BY <3>1, <3>3 DEF Bringing, BreaksOff
        <4>3. Fetch(p) \/ Show(p) \/ ShowFails(p) \/ BreaksOff(p)
          BY <1>4, <3>1, <3>3 DEF Bringing, CardStep, PostCard, RecordCard, PostingFails
        <4> QED
          BY <4>1, <4>2, <4>3 DEF AnswerInv
      <3> QED
        BY <3>2, <3>3
    <2> QED
      BY <1>2, <2>2, <2>3
  <1> QED
    BY <1>3, <1>4

\* The deal: a report sets out to the acceptor, and whoever loses the buttons
\* is asked for the reason, which the table accepts while the report waits.
LEMMA AnswerDeal ==
  ASSUME DealInv, AccessInv, CardTypes, AnswerInv, NEW p \in Instances, DealOnCard(p)
  PROVE  AnswerInv'
  <1> SUFFICES ASSUME status' = "PAYMENT_REPORTED"
               PROVE  AnswerInv'
    BY DEF AnswerInv
  <1>1. CASE \E u \in Users : ReportPayment(u) /\ Renders(p, "report")
    <2>1. Bringing(p)'
      BY <1>1 DEF Bringing, Renders, Continue, CardTypes
    <2> QED
      BY <2>1 DEF AnswerInv
  <1>2. CASE \E u \in Users : AgreeToDeal(u)
    BY <1>2 DEF AgreeToDeal
  <1>3. CASE Reason(p)
    <2>1. PICK a \in Admins :
               /\ RejectPayment(a)
               /\ IF Rejectable(a) THEN Renders(p, "reject") ELSE UNCHANGED render
      BY <1>3 DEF Reason
    <2>2. /\ ~Rejectable(a) /\ status = "PAYMENT_REPORTED"
          /\ UNCHANGED <<acceptedBy, held, missed, render>>
          /\ rejecting' = rejecting \ {a}
      BY <1>3, <2>1 DEF Reason, RejectPayment
    <2>3. CanTransition("PAYMENT_REPORTED", "AWAITING_PAYMENT", Admin)
      BY DEF CanTransition, Transitions, PaymentTransitions, Rows
    <2>4. a # acceptedBy
      BY <2>2, <2>3 DEF Rejectable, MayDecide
    <2> QED
      BY <2>2, <2>4 DEF AnswerInv, Bringing
  <1>4. CASE ReasonDropped(p)
    <2>1. PICK a \in Admins : /\ DropReason(a)
                              /\ missed' = missed \cup (IF a \in held THEN {} ELSE {"verdict"})
      BY <1>4 DEF ReasonDropped
    <2>2. /\ UNCHANGED <<status, acceptedBy, held, render>>
          /\ rejecting' = rejecting \ {a}
      BY <1>4, <2>1 DEF ReasonDropped, DropReason, dealVars
    <2> QED
      BY <2>1, <2>2 DEF AnswerInv, Bringing
  <1>5. CASE CheckOnCard(p)
    <2>1. UNCHANGED <<status, acceptedBy, rejecting, held, missed, render>>
      BY <1>5 DEF CheckOnCard, Check, PressCancel, Press, AcceptChecks, Leave, cardVars, vars,
                  dealVars, sessionVars
    <2> QED
      BY <2>1 DEF AnswerInv, Bringing
  <1>6. CASE ActOnCard(p)
    <2>1. handler[p].does \in {"reject", "evidence", "cancel"}
      BY <1>6 DEF ActOnCard, Act, TakeOn, Confirm, AskEvidence, AskReason, Cancel, AdminAccept,
                  Accepted, VerifyPayment
    <2>2. UNCHANGED <<status, acceptedBy, render, missed>>
      BY <1>6, <2>1 DEF ActOnCard, Act, TakeOn, Confirm, AskEvidence, AskReason, Cancel,
                        RequestEvidence, AskRejectReason, CancelRead, dealVars
    <2>3. held \cup rejecting \subseteq held' \cup rejecting'
      BY <1>6, <2>1 DEF ActOnCard, Act, TakeOn, Confirm, AskEvidence, AskReason, Cancel,
                        RequestEvidence, AskRejectReason, CancelRead, sessionVars
    <2> QED
      BY <2>2, <2>3 DEF AnswerInv, Bringing
  <1>7. CASE CallOnCard(p)
    <2>1. ~CancelWrite(p) /\ ~ExpireWrite(p)
      BY <1>7 DEF CancelWrite, ExpireWrite, CloseAs
    <2>2. UNCHANGED <<status, acceptedBy, rejecting, held, missed>>
      BY <1>7, <2>1 DEF CallOnCard, ExpireRead, EvidenceRead, EvidenceWrite, Crash, dealVars,
                        sessionVars
    <2>3. ~Bringing(p)
      BY <1>7 DEF CallOnCard, Quiet, NoJob, Bringing
    <2>4. \A q \in Instances : q # p => render'[q] = render[q]
      BY <1>7, <2>1 DEF CallOnCard, Continue, CardTypes
    <2> QED
      BY <2>2, <2>3, <2>4 DEF AnswerInv, Bringing
  <1> QED
    BY <1>1, <1>2, <1>3, <1>4, <1>5, <1>6, <1>7 DEF DealOnCard, AgreeOrReport

\* Every step of the deal with its card.
LEMMA AnswerStep ==
  ASSUME DealInv, AccessInv, CardTypes, AnswerInv, [CardNext]_allVars
  PROVE  AnswerInv'
  <1>1. CASE \E p \in Instances : CardStep(p) \/ DealOnCard(p)
    BY <1>1, AnswerSend, AnswerDeal
  <1>2. CASE OwnerMeanwhile \/ DeadlineMeanwhile \/ UNCHANGED allVars
    <2>1. UNCHANGED <<status, acceptedBy, rejecting, cardVars>>
      BY <1>2 DEF OwnerMeanwhile, OwnerCommand, AllowGroup, DisallowGroup, AddAdmin, RemoveAdmin,
                  DeadlineMeanwhile, DeadlinePasses, allVars, accessVars, vars, dealVars,
                  sessionVars
    <2> QED
      BY <2>1 DEF AnswerInv, Bringing, cardVars
  <1> QED
    BY <1>1, <1>2 DEF CardNext

\* The invariants of the rights and of the card together.
LEMMA CardTypesInvariant == CardSpec => [](AccessInv /\ CardTypes)
  <1>1. CardTypeOK => CardTypes
    BY DEF CardTypeOK, CardTypes
  <1> QED
    BY <1>1, CardTypeCorrect, CardKeepsAccess, AccessInvariant, PTL

\* Without the invitation path a reported payment can be decided, whatever
\* overlaps: unless it is known that the message or the reason was lost, the
\* acceptor has the buttons or is being asked for the reason.
THEOREM ReportsAreAnswerable ==
  ASSUME NoJoin
  PROVE  CardSpec => []ReportIsAnswerable
  <1>1. CardInit => AnswerInv
    BY DEF CardInit, AccessInit, Init, AnswerInv
  <1>2. DealInv /\ AccessInv /\ CardTypes /\ AnswerInv /\ [CardNext]_allVars => AnswerInv'
    BY AnswerStep
  <1>3. AnswerInv => ReportIsAnswerable
    BY DEF AnswerInv, ReportIsAnswerable, Quiet, NoJob, Bringing
  <1> QED
    BY CardKeepsDeal, CardTypesInvariant, <1>1, <1>2, <1>3, PTL DEF CardSpec

-----------------------------------------------------------------------------
(* The card shows the deal                                                 *)

Fresh == card = Shown(status = "AWAITING_PAYMENT")

\* How far the one instance is with showing the deal as it is.
FreshInv ==
  \A p \in Instances :
    /\ render[p].next \in {"post", "record"} => status = "CREATED"
    /\ render[p].next = "record" => card = Shown(FALSE)
    /\ render[p].next = "fetch" => (WithDetails(render[p].by) <=> status = "AWAITING_PAYMENT")
    /\ render[p].next = "show" => render[p].seen \in {NoCard, Shown(status = "AWAITING_PAYMENT")}
    /\ render[p].next \in {"none", "tell"} => "card" \in missed \/ Fresh
    /\ handler[p] # NoHandler => Quiet(p)

\* The parts of the deal that a card shows stay as they are.
LEMMA ShownKept ==
  ASSUME UNCHANGED <<status, agreed>>
  PROVE  /\ Shown(FALSE)' = Shown(FALSE)
         /\ Shown(status = "AWAITING_PAYMENT")' = Shown(status = "AWAITING_PAYMENT")
  BY DEF Shown

\* The one instance is through, and the card is right or known to be not.
LEMMA QuietAndFresh ==
  ASSUME NEW p, Instances = {p}, render'[p] = NoJob, "card" \in missed' \/ Fresh'
  PROVE  FreshInv'
  <1>1. /\ render'[p].next = "none"
        /\ Quiet(p)'
    BY DEF NoJob, Quiet
  <1> QED
    BY <1>1 DEF FreshInv

\* Sending: the card is what was read, or its update is known to be lost.
LEMMA FreshSend ==
  ASSUME CardTypes, FreshInv, NEW p, Instances = {p}, CardStep(p)
  PROVE  FreshInv'
  <1>1. /\ UNCHANGED <<status, agreed, handler>>
        /\ ~Quiet(p)
    <2>1. UNCHANGED accessVars
      BY DEF CardStep, PostCard, RecordCard, PostingFails, Fetch, Show, ShowFails, Tell,
             BreaksOff
    <2>2. render[p].next # "none"
      BY DEF CardStep, PostCard, RecordCard, PostingFails, Fetch, Show, ShowFails, Tell,
             BreaksOff
    <2> QED
      BY <2>1, <2>2 DEF Quiet, NoJob, accessVars, vars, dealVars
  <1>2. handler[p] = NoHandler
    BY <1>1 DEF FreshInv
  <1>3. CASE PostCard(p)
    BY <1>1, <1>2, <1>3, ShownKept DEF PostCard, Continue, FreshInv, CardTypes
  <1>4. CASE RecordCard(p)
    <2>1. status = "CREATED" /\ card = Shown(FALSE)
      BY <1>4 DEF RecordCard, FreshInv
    <2>2. Fresh /\ card' = card
      BY <1>4, <2>1 DEF RecordCard, Fresh, Shown
    <2>3. Fresh'
      BY <1>1, <2>2, ShownKept DEF Fresh
    <2>4. render'[p] = NoJob
      BY <1>4 DEF RecordCard, Done, CardTypes
    <2> QED
      BY <2>3, <2>4, QuietAndFresh
  <1>5. CASE PostingFails(p) \/ BreaksOff(p) \/ Tell(p)
    <2>1. render'[p] = NoJob
      BY <1>5 DEF PostingFails, BreaksOff, Tell, Done, CardTypes
    <2>2. "card" \in missed' \/ Fresh'
      <3>1. CASE PostingFails(p) \/ (BreaksOff(p) /\ render[p].next # "tell")
        BY <3>1 DEF PostingFails, BreaksOff
      <3>2. CASE Tell(p) \/ (BreaksOff(p) /\ render[p].next = "tell")
        <4>1. "card" \in missed \/ Fresh
          BY <3>2 DEF Tell, FreshInv
        <4>2. card' = card /\ ("card" \in missed => "card" \in missed')
          BY <3>2 DEF Tell, BreaksOff
        <4> QED
          BY <1>1, <4>1, <4>2, ShownKept DEF Fresh
      <3> QED
        BY <1>5, <3>1, <3>2
    <2> QED
      BY <2>1, <2>2, QuietAndFresh
  <1>6. CASE Fetch(p)
    <2>1. WithDetails(render[p].by) = (status = "AWAITING_PAYMENT")
      BY <1>6 DEF Fetch, FreshInv, WithDetails
    <2>2. /\ render'[p].seen \in {NoCard, Shown(status = "AWAITING_PAYMENT")}
          /\ render'[p].next = "show"
      BY <1>6, <2>1 DEF Fetch, Continue, CardTypes
    <2> QED
      BY <1>1, <1>2, <2>2, ShownKept DEF FreshInv
  <1>7. CASE Show(p) \/ ShowFails(p)
    <2>1. "card" \in missed' \/ card' = Shown(status = "AWAITING_PAYMENT")
      BY <1>7 DEF Show, ShowFails, FreshInv
    <2>2. "card" \in missed' \/ Fresh'
      BY <1>1, <2>1, ShownKept DEF Fresh
    <2>3. render'[p].next \in {"none", "tell"}
      BY <1>7 DEF Show, ShowFails, AfterCard, Continue, Done, NoJob, CardTypes
    <2> QED
      BY <1>1, <1>2, <2>2, <2>3 DEF FreshInv
  <1> QED
    BY <1>3, <1>4, <1>5, <1>6, <1>7 DEF CardStep

\* An operation that changes what the card shows is rendered next, with the
\* payment details exactly when it leaves the deal waiting for the payment.
LEMMA FreshDeal ==
  ASSUME AccessInv, CardTypes, FreshInv, NEW p, Instances = {p}, DealOnCard(p)
  PROVE  FreshInv'
  <1>1. Quiet(p)
    <2>1. CASE ActOnCard(p)
      <3>1. handler[p].does # "none"
        BY <2>1 DEF ActOnCard
      <3> QED
        BY <3>1 DEF FreshInv, NoHandler
    <2> QED
      BY <2>1 DEF DealOnCard, AgreeOrReport, Reason, ReasonDropped, CheckOnCard, CallOnCard,
                  Available
  <1>2. "card" \in missed \/ Fresh
    BY <1>1 DEF FreshInv, Quiet, NoJob
  <1>3. CASE UNCHANGED <<status, agreed, card, render, missed>>
    <2>1. render'[p] = NoJob
      BY <1>1, <1>3 DEF Quiet
    <2>2. "card" \in missed' \/ Fresh'
      BY <1>2, <1>3, ShownKept DEF Fresh
    <2> QED
      BY <2>1, <2>2, QuietAndFresh
  <1>4. ASSUME NEW by, Renders(p, by), WithDetails(by) <=> status' = "AWAITING_PAYMENT",
               handler'[p] = NoHandler
        PROVE  FreshInv'
    BY <1>4 DEF Renders, Continue, FreshInv, CardTypes
  <1>5. CASE AgreeOrReport(p)
    <2>1. PICK u \in Users : \/ AgreeToDeal(u) /\ Renders(p, "agree")
                             \/ ReportPayment(u) /\ Renders(p, "report")
      BY <1>5 DEF AgreeOrReport
    <2>2. status' # "AWAITING_PAYMENT" /\ handler'[p] = NoHandler
      BY <1>5, <2>1 DEF AgreeOrReport, Available, Free, AgreeToDeal, ReportPayment
    <2> QED
      BY <1>4, <2>1, <2>2, NoDetails
  <1>6. CASE Reason(p)
    <2>1. PICK a \in Admins :
               /\ RejectPayment(a)
               /\ IF Rejectable(a) THEN Renders(p, "reject") ELSE UNCHANGED render
      BY <1>6 DEF Reason
    <2>2. CASE Rejectable(a)
      <3>1. status' = "AWAITING_PAYMENT" /\ handler'[p] = NoHandler
        BY <1>6, <2>1, <2>2 DEF Reason, Available, Free, RejectPayment
      <3> QED
        BY <1>4, <2>1, <2>2, <3>1, NoDetails
    <2>3. CASE ~Rejectable(a)
      <3>1. UNCHANGED <<status, agreed, card, render, missed, handler>>
        BY <1>6, <2>1, <2>3 DEF Reason, RejectPayment
      <3> QED
        BY <1>3, <3>1
    <2> QED
      BY <2>2, <2>3
  <1>7. CASE ReasonDropped(p)
    <2>1. /\ UNCHANGED <<status, agreed, card, render, handler>>
          /\ "card" \in missed => "card" \in missed'
      BY <1>7 DEF ReasonDropped, DropReason, dealVars
    <2>2. render'[p] = NoJob
      BY <1>1, <2>1 DEF Quiet
    <2>3. "card" \in missed' \/ Fresh'
      BY <1>2, <2>1, ShownKept DEF Fresh
    <2> QED
      BY <2>2, <2>3, QuietAndFresh
  <1>8. CASE CheckOnCard(p)
    BY <1>3, <1>8 DEF CheckOnCard, Check, PressCancel, Press, AcceptChecks, Leave, cardVars, vars,
                      dealVars
  <1>9. CASE ActOnCard(p)
    <2>1. handler'[p] = NoHandler
      BY <1>9 DEF ActOnCard, Act, Finish, AccessInv, AccessTypeOK
    <2>2. CASE handler[p].does = "takeOn"
      <3>1. status' = "AWAITING_PAYMENT" /\ Renders(p, "accept")
        BY <1>9, <2>2 DEF ActOnCard, Act, TakeOn, Confirm, AskEvidence, AskReason, Cancel,
                          AdminAccept, Accepted
      <3> QED
        BY <1>4, <2>1, <3>1, NoDetails
    <2>3. CASE handler[p].does = "verify"
      <3>1. status' = "PAYMENT_RECEIVED" /\ Renders(p, "verify")
        BY <1>9, <2>3 DEF ActOnCard, Act, TakeOn, Confirm, AskEvidence, AskReason, Cancel,
                          VerifyPayment
      <3> QED
        BY <1>4, <2>1, <3>1, NoDetails
    <2>4. CASE handler[p].does \notin {"takeOn", "verify"}
      <3>1. UNCHANGED <<card, render, missed>>
        BY <1>9, <2>4 DEF ActOnCard
      <3>2. UNCHANGED <<status, agreed>>
        BY <1>9, <2>4
           DEF ActOnCard, Act, TakeOn, Confirm, AskEvidence, AskReason, Cancel, RequestEvidence,
               AskRejectReason, CancelRead, dealVars
      <3> QED
        BY <1>3, <3>1, <3>2
    <2> QED
      BY <2>2, <2>3, <2>4
  <1>10. CASE CallOnCard(p)
    <2>1. UNCHANGED <<handler, card>>
      BY <1>10 DEF CallOnCard
    <2>2. CASE CancelWrite(p) /\ Renders(p, "cancel")
      <3>1. handler[p] = NoHandler
        BY <2>2 DEF CancelWrite, AccessInv, OneThing, Idle, NoCall
      <3>2. status' # "AWAITING_PAYMENT"
        BY <2>2 DEF CancelWrite, CloseAs
      <3> QED
        BY <1>4, <2>1, <2>2, <3>1, <3>2, NoDetails
    <2>3. CASE ExpireWrite(p) /\ missed' = missed \cup {"card"} /\ UNCHANGED render
      BY <1>1, <2>3, QuietAndFresh DEF Quiet
    <2>4. CASE EvidenceWrite(p) /\ Continue(p, "tell", "evidence", NoCard) /\ UNCHANGED missed
      <3>1. UNCHANGED <<status, agreed>>
        BY <2>4 DEF EvidenceWrite, dealVars
      <3>2. handler[p] = NoHandler
        BY <2>4 DEF EvidenceWrite, AccessInv, OneThing, Idle, NoCall
      <3>3. render'[p].next = "tell"
        BY <2>4 DEF Continue, CardTypes
      <3>4. "card" \in missed' \/ Fresh'
        BY <1>2, <2>1, <2>4, <3>1, ShownKept DEF Fresh
      <3> QED
        BY <2>1, <3>2, <3>3, <3>4 DEF FreshInv
    <2>5. CASE (ExpireRead(p) \/ EvidenceRead(p) \/ Crash(p)) /\ UNCHANGED <<missed, render>>
      BY <1>3, <2>1, <2>5 DEF ExpireRead, EvidenceRead, Crash, dealVars
    <2> QED
      BY <1>10, <2>2, <2>3, <2>4, <2>5 DEF CallOnCard
  <1> QED
    BY <1>5, <1>6, <1>7, <1>8, <1>9, <1>10 DEF DealOnCard

\* With one thread of control the card shows the deal as it is whenever the
\* instance is through, unless the last update of the card was lost.
THEOREM OneThreadCardShowsDeal ==
  ASSUME OneThread
  PROVE  CardSpec => []CardShowsDeal
  <1>1. PICK p \in Instances : Instances = {p}
    BY DEF OneThread
  <1>2. CardInit => FreshInv
    <2> SUFFICES ASSUME CardInit
                 PROVE  FreshInv
      OBVIOUS
    <2>1. render[p].next = "post" /\ status = "CREATED" /\ handler[p] = NoHandler
      BY <1>1 DEF CardInit, AccessInit, Init
    <2> QED
      BY <1>1, <2>1 DEF FreshInv
  <1>3. AccessInv /\ CardTypes /\ FreshInv /\ [CardNext]_allVars => FreshInv'
    <2> SUFFICES ASSUME AccessInv, CardTypes, FreshInv, [CardNext]_allVars
                 PROVE  FreshInv'
      OBVIOUS
    <2>1. CASE CardStep(p) \/ DealOnCard(p)
      BY <1>1, <2>1, FreshSend, FreshDeal
    <2>2. CASE OwnerMeanwhile \/ DeadlineMeanwhile \/ UNCHANGED allVars
      <3>1. UNCHANGED <<status, agreed, handler, cardVars>>
        BY <2>2 DEF OwnerMeanwhile, OwnerCommand, AllowGroup, DisallowGroup, AddAdmin,
                    RemoveAdmin, DeadlineMeanwhile, DeadlinePasses, allVars, accessVars, vars,
                    dealVars
      <3> QED
        BY <3>1, ShownKept DEF FreshInv, Fresh, Quiet, cardVars
    <2> QED
      BY <1>1, <2>1, <2>2 DEF CardNext
  <1>4. FreshInv => CardShowsDeal
    BY <1>1 DEF FreshInv, CardShowsDeal, Fresh, Quiet, NoJob
  <1> QED
    BY CardTypesInvariant, <1>2, <1>3, <1>4, PTL DEF CardSpec
=============================================================================
