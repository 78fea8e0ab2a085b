--------------------------- MODULE DealForm_proofs ---------------------------
(***************************************************************************)
(* What holds of the deal form for any number of chats, forms, old buttons *)
(* and lost answers.                                                       *)
(***************************************************************************)
EXTENDS DealForm, TLAPS

-----------------------------------------------------------------------------
(* The order of the steps                                                  *)

LEMMA StepOrder ==
  /\ Steps = {"payment_method", "role", "counterparty", "amount", "crypto_payer", "category",
              "description", "deal_duration", "release_condition", "refund_condition", "preview"}
  /\ Position["payment_method"] = 1 /\ Position["role"] = 2 /\ Position["counterparty"] = 3
  /\ Position["amount"] = 4 /\ Position["crypto_payer"] = 5 /\ Position["category"] = 6
  /\ Position["description"] = 7 /\ Position["deal_duration"] = 8
  /\ Position["release_condition"] = 9 /\ Position["refund_condition"] = 10
  /\ Position["preview"] = 11
  BY DEF Steps, Position

LEMMA FollowingStep ==
  ASSUME NEW s \in Steps \ {"preview"}
  PROVE  \E t \in Steps : Position[t] = Position[s] + 1
  BY StepOrder

\* The next question comes later, and leaves out the crypto payer of an INR deal
\* only.
LEMMA NextStepLater ==
  ASSUME NEW s \in Steps \ {"preview"}, NEW method
  PROVE  /\ NextStep(s, method) \in Steps
         /\ Position[NextStep(s, method)] > Position[s]
         /\ \A t \in Steps :
              /\ Position[t] < Position[NextStep(s, method)]
              /\ t = "crypto_payer" => method = "CRYPTO"
              => Position[t] <= Position[s]
         /\ \A t \in Steps : Position[t] <= Position[s] => t = s \/ Position[t] < Position[s]
  <1>1. \A t \in Steps : Position[t] \in 1..11
    BY StepOrder
  <1>2. \A t \in Steps : Position[t] = Position[s] => t = s
    BY StepOrder
  <1>3. CASE s = "amount" /\ method # "CRYPTO"
    BY <1>1, <1>2, <1>3, StepOrder DEF NextStep
  <1>4. CASE ~(s = "amount" /\ method # "CRYPTO")
    <2> DEFINE n == CHOOSE t \in Steps : Position[t] = Position[s] + 1
    <2>1. n \in Steps /\ Position[n] = Position[s] + 1
      BY FollowingStep
    <2>2. NextStep(s, method) = n
      BY <1>4 DEF NextStep
    <2> HIDE DEF n
    <2> QED
      BY <1>1, <1>2, <2>1, <2>2
  <1> QED
    BY <1>3, <1>4

-----------------------------------------------------------------------------
(* Types                                                                   *)

Datas == [method : {"INR", "CRYPTO", None}, asset : {"INR", "USDT", None},
          target : Groups \cup {None}, entered : [Steps -> 0..MaxForms]]

LEMMA BlankType == Blank \in Datas
  <1>1. 0 \in 0..MaxForms
    BY DealFormAssumption
  <1> QED
    BY <1>1 DEF Blank, Datas

LEMMA RecordedType ==
  ASSUME TypeOK, NEW s \in Steps, NEW method \in {"INR", "CRYPTO", None}
  PROVE  /\ Recorded(s, method) \in Datas
         /\ Recorded(s, method).entered = [data.entered EXCEPT ![s] = form]
         /\ s # "payment_method" => Recorded(s, method).method = data.method
         /\ s = "payment_method" =>
              /\ Recorded(s, method).method = method
              /\ method = "CRYPTO" => Recorded(s, method).asset = "USDT"
         /\ s = "amount" /\ data.method # "CRYPTO" => Recorded(s, method).asset = "INR"
         /\ s # "payment_method" /\ ~(s = "amount" /\ data.method # "CRYPTO") =>
              Recorded(s, method).asset = data.asset
  <1> DEFINE d == [data EXCEPT !.entered[s] = form]
  <1>1. d \in Datas /\ d.entered = [data.entered EXCEPT ![s] = form] /\ d.method = data.method
        /\ d.asset = data.asset
    BY DEF TypeOK, Datas
  <1>2. \/ s = "payment_method"
           /\ Recorded(s, method) = [d EXCEPT !.method = method,
                                              !.asset = IF method = "CRYPTO" THEN "USDT" ELSE @]
        \/ /\ s = "amount" /\ data.method # "CRYPTO"
           /\ Recorded(s, method) = [d EXCEPT !.asset = "INR"]
        \/ /\ s # "payment_method" /\ ~(s = "amount" /\ data.method # "CRYPTO")
           /\ Recorded(s, method) = d
    BY DEF Recorded
  <1> HIDE DEF d
  <1> QED
    BY <1>1, <1>2 DEF Datas

\* The questions and the chat they are bound to.
CaptureType == asked \in [Kinds -> Chats \cup {None}] /\ bound \in Chats \cup {None}

LEMMA CapturesStep ==
  ASSUME CaptureType,
         \/ Abandon \/ UNCHANGED captureVars \/ \E c \in Chats : PassText(c)
         \/ \E k \in Kinds, c \in Chats : Ask(k, c) \/ AnswerText(c, k) \/ AnswerPhoto(k)
         \/ \E c \in Chats : RetrySetting(c)
  PROVE  CaptureType'
  <1> USE DEF CaptureType
  <1>1. NoQuestions \in [Kinds -> Chats \cup {None}]
    BY DEF NoQuestions
  <1>2. ASSUME NEW ks PROVE Without(ks) \in [Kinds -> Chats \cup {None}]
    BY DEF Without
  <1>3. CASE Abandon \/ \E c \in Chats : PassText(c)
    BY <1>1, <1>3 DEF Abandon, PassText
  <1>4. CASE UNCHANGED captureVars
    BY <1>4 DEF captureVars
  <1>5. ASSUME NEW k \in Kinds, NEW c \in Chats, Ask(k, c) \/ AnswerText(c, k) \/ AnswerPhoto(k)
        PROVE  CaptureType'
    BY <1>2, <1>5 DEF Ask, AnswerText, AnswerPhoto
  <1>6. ASSUME NEW c \in Chats, RetrySetting(c)
        PROVE  CaptureType'
    BY <1>2, <1>6 DEF RetrySetting
  <1> QED
    BY <1>3, <1>4, <1>5, <1>6

-----------------------------------------------------------------------------
(* What a step does to the form                                            *)

\* The form is closed.
Closes == step' = None /\ form' = form /\ data' \in Datas

\* It is left where it is, and no report or evidence newly asked for.
Keeps ==
  /\ step' = step /\ form' = form
  /\ data' \in Datas
  /\ data'.entered = data.entered /\ data'.method = data.method /\ data'.asset = data.asset
  /\ \A k \in Kinds \cap Droppable : asked'[k] \in {None, asked[k]}

Begins ==
  /\ form' = form + 1 /\ form' \in Forms
  /\ step' = "payment_method" /\ data' \in Datas
  /\ asked' = NoQuestions

Advances ==
  \E s \in Steps \ {"preview"}, method \in {"INR", "CRYPTO", None} :
    /\ step = s /\ ~expired
    /\ step' = NextStep(s, data.method) /\ form' = form
    /\ data' = Recorded(s, method)
    /\ asked' \in {asked, NoQuestions}

\* What a step does to the deals made.
MakesNone == UNCHANGED dealVars
Makes == Active /\ ~expired /\ made' = [made EXCEPT ![form] = @ + 1] /\ lost' = lost
MakesUnanswered ==
  /\ Active /\ ~expired /\ lost[form] < MaxLost
  /\ made' = [made EXCEPT ![form] = @ + 1]
  /\ lost' = [lost EXCEPT ![form] = @ + 1]

LEMMA ClearCloses ==
  ASSUME ClearForm
  PROVE  Closes
  BY BlankType DEF ClearForm, Closes

LEMMA BeginBegins ==
  ASSUME TypeOK, NEW c \in Chats, Abandon, BeginFlow(c),
         data' \in {Blank, [Blank EXCEPT !.target = TargetOf(c)],
                    [data EXCEPT !.target = TargetOf(c)]}
  PROVE  Begins
  <1>1. form' \in Forms /\ form' = form + 1
    BY DealFormAssumption DEF BeginFlow, TypeOK, Forms
  <1>2. TargetOf(c) \in Groups \cup {None}
    BY DEF TargetOf
  <1>3. \A d \in Datas : [d EXCEPT !.target = TargetOf(c)] \in Datas
    BY <1>2 DEF Datas
  <1>4. data' \in Datas
    BY <1>3, BlankType DEF TypeOK, Datas
  <1> QED
    BY <1>1, <1>4 DEF Begins, BeginFlow, Abandon

LEMMA StartShape ==
  ASSUME TypeOK, NEW c \in Chats, StartDealForm(c)
  PROVE  (Keeps \/ Begins) /\ MakesNone
  <1>1. CASE Refused(c) /\ UNCHANGED <<flowVars, offered>>
    BY <1>1 DEF StartDealForm, Keeps, MakesNone, Abandon, NoQuestions, flowVars, TypeOK, Datas
  <1>2. CASE /\ ~Refused(c) /\ Active /\ ~expired
             /\ data' = [data EXCEPT !.target = TargetOf(c)]
             /\ UNCHANGED <<step, token, flowChat, expired, buttons, form>>
    <2>1. TargetOf(c) \in Groups \cup {None}
      BY DEF TargetOf
    <2> QED
      BY <1>2, <2>1 DEF StartDealForm, Keeps, MakesNone, Abandon, NoQuestions, TypeOK, Datas
  <1>3. CASE /\ BeginFlow(c)
             /\ data' = IF Active THEN Blank ELSE [data EXCEPT !.target = TargetOf(c)]
    BY <1>3, BeginBegins DEF StartDealForm, MakesNone
  <1> QED
    BY <1>1, <1>2, <1>3 DEF StartDealForm

LEMMA StartOverShape ==
  ASSUME TypeOK, NEW c \in Chats, StartOver(c)
  PROVE  (Closes \/ Begins) /\ MakesNone
  BY ClearCloses, BeginBegins DEF StartOver, MakesNone

LEMMA ChooseShape ==
  ASSUME TypeOK, NEW b \in buttons, NEW method \in {"INR", "CRYPTO"}, Choose(b, method)
  PROVE  Advances /\ MakesNone
  <1>1. b[1] \in Steps \ {"preview"} /\ step = b[1]
    BY DEF Choose, Current, TypeOK, Active
  <1>2. ~expired
    BY DEF Choose, Current, Fresh
  <1> QED
    BY <1>1, <1>2 DEF Choose, Advance, Advances, MakesNone, captureVars

LEMMA FormTextShape ==
  ASSUME TypeOK, NEW c \in Chats, FormText(c)
  PROVE  (Closes \/ Advances) /\ MakesNone
  <1>1. CASE ClearForm
    BY <1>1, ClearCloses DEF FormText, MakesNone
  <1>2. CASE ~expired /\ step \notin ButtonSteps /\ Advance(step, data.method)
    <2>1. step \in Steps \ {"preview"}
      BY <1>2 DEF FormText, TypeOK, Active, ButtonSteps
    <2>2. data.method \in {"INR", "CRYPTO", None}
      BY DEF TypeOK
    <2> QED
      BY <1>2, <2>1, <2>2 DEF FormText, PassText, Advance, Advances, MakesNone
  <1> QED
    BY <1>1, <1>2 DEF FormText

LEMMA CaptureShape ==
  ASSUME TypeOK, UNCHANGED <<flowVars, dealVars>>,
         \/ UNCHANGED asked \/ \E c \in Chats : PassText(c)
         \/ \E k \in Kinds, c \in Chats : AnswerText(c, k) \/ AnswerPhoto(k)
         \/ \E c \in Chats : RetrySetting(c)
  PROVE  Keeps /\ MakesNone
  <1>1. \A k \in Kinds \cap Droppable : asked'[k] \in {None, asked[k]}
    <2>1. CASE \E c \in Chats : PassText(c)
      BY <2>1 DEF PassText, NoQuestions
    <2>2. ASSUME NEW k \in Kinds, NEW c \in Chats, AnswerText(c, k) \/ AnswerPhoto(k)
          PROVE  \A l \in Kinds : asked'[l] \in {None, asked[l]}
      BY <2>2 DEF AnswerText, AnswerPhoto, Without
    <2>3. ASSUME NEW c \in Chats, RetrySetting(c)
          PROVE  \A l \in Kinds \cap Droppable : asked'[l] \in {None, asked[l]}
      BY <2>3 DEF RetrySetting, Without, Droppable
    <2> QED
      BY <2>1, <2>2, <2>3
  <1> QED
    BY <1>1 DEF Keeps, MakesNone, flowVars, TypeOK, Datas

LEMMA PromptShape ==
  ASSUME TypeOK, NEW k \in Kinds, NEW c \in Chats, Prompt(k, c)
  PROVE  (Closes \/ Keeps) /\ MakesNone
  <1>1. CASE k \in Droppable
    BY <1>1 DEF Prompt, Closes, MakesNone, TypeOK, Datas
  <1>2. CASE k \notin Droppable
    BY <1>2 DEF Prompt, Ask, Keeps, MakesNone, TypeOK, Datas
  <1> QED
    BY <1>1, <1>2

LEMMA ConfirmShape ==
  ASSUME TypeOK, NEW b \in buttons, Confirm(b) \/ ConfirmRefused(b) \/ ConfirmUnanswered(b)
  PROVE  \/ Closes /\ (Makes \/ MakesNone)
         \/ Keeps /\ MakesUnanswered
  <1>1. CASE Confirm(b)
    BY <1>1, ClearCloses DEF Confirm, Confirms, Fresh, Current, Makes
  <1>2. CASE ConfirmRefused(b)
    BY <1>2, ClearCloses DEF ConfirmRefused, MakesNone
  <1>3. CASE ConfirmUnanswered(b)
    BY <1>3 DEF ConfirmUnanswered, Confirms, Fresh, Current, Keeps, MakesUnanswered,
                captureVars, flowVars, TypeOK, Datas
  <1> QED
    BY <1>1, <1>2, <1>3

\* Every step closes, keeps, begins or advances the form, and a deal is made only
\* of a form that is closed by it, or by a step that was lost.
LEMMA StepShape ==
  ASSUME TypeOK, [Next]_vars
  PROVE  \/ (Closes \/ Keeps \/ Begins \/ Advances) /\ MakesNone
         \/ Closes /\ Makes
         \/ Keeps /\ MakesUnanswered
  <1>1. ASSUME NEW c \in Chats, StartDealForm(c) \/ Continue(c) \/ Restart(c) \/ Edit(c)
        PROVE  (Closes \/ Keeps \/ Begins) /\ MakesNone
    BY <1>1, StartShape, StartOverShape DEF Continue, Restart, Edit
  <1>2. ASSUME NEW c \in Chats, OtherText(c)
        PROVE  Keeps /\ MakesNone
    BY <1>2, CaptureShape DEF OtherText
  <1>3. CASE Answer
    <2>1. ASSUME NEW k \in Kinds, AnswerPhoto(k)
          PROVE  \E l \in Kinds, c \in Chats : AnswerText(c, l) \/ AnswerPhoto(l)
      BY <2>1 DEF Chats
    <2> QED
      BY <1>3, <2>1, CaptureShape DEF Answer
  <1>4. CASE PressExpired \/ SessionLost
    BY <1>4, ClearCloses DEF PressExpired, SessionLost, MakesNone
  <1>5. CASE CancelForm
    BY <1>5 DEF CancelForm, Closes, MakesNone, TypeOK, Datas
  <1>6. CASE TimePasses \/ OwnerCommand \/ UNCHANGED vars
    BY <1>6 DEF TimePasses, OwnerCommand, vars, Keeps, MakesNone, captureVars, flowVars, dealVars,
                TypeOK, Datas
  <1> QED
    BY <1>1, <1>2, <1>3, <1>4, <1>5, <1>6, PromptShape, ConfirmShape, ChooseShape, FormTextShape
    DEF Next

LEMMA TypeInit ==
  ASSUME Init
  PROVE  TypeOK
  <1>1. 0 \in 0..MaxForms /\ 0 \in 0..MaxLost
    BY DealFormAssumption
  <1> QED
    BY <1>1, BlankType DEF Init, TypeOK, NoQuestions, Datas

\* The variables that StepShape says nothing of.
OtherTypes ==
  /\ CaptureType
  /\ approved \subseteq Groups
  /\ token \in Nat
  /\ flowChat \in Chats \cup {None}
  /\ expired \in BOOLEAN
  /\ buttons \subseteq ButtonSteps \X Nat
  /\ offered \in BOOLEAN

LEMMA OthersStep ==
  ASSUME TypeOK, [Next]_vars
  PROVE  OtherTypes'
  <1>1. OtherTypes
    BY DEF OtherTypes, CaptureType, TypeOK
  <1>2. ASSUME ClearForm \/ (\E c \in Chats : BeginFlow(c)) \/ (\E s, method : Advance(s, method))
               \/ UNCHANGED <<token, flowChat, expired, buttons>>
        PROVE  /\ token' \in Nat /\ flowChat' \in Chats \cup {None} /\ expired' \in BOOLEAN
               /\ buttons' \subseteq ButtonSteps \X Nat
    <2>1. ASSUME NEW s
          PROVE  buttons \cup Rendered(s, token + 1) \subseteq ButtonSteps \X Nat
      BY <1>1 DEF Rendered, OtherTypes
    <2>2. expired' \in BOOLEAN
      <3>1. expired' = FALSE \/ expired' = expired
        BY <1>2 DEF ClearForm, BeginFlow, Advance
      <3> QED
        BY <1>1, <3>1, Zenon DEF OtherTypes
    <2>3. token' \in {token, token + 1} /\ flowChat' \in Chats \cup {None}
      BY <1>1, <1>2 DEF ClearForm, BeginFlow, Advance, OtherTypes
    <2>4. buttons' = buttons \/ \E s : buttons' = buttons \cup Rendered(s, token + 1)
      BY <1>2, Zenon DEF ClearForm, BeginFlow, Advance
    <2> QED
      BY <1>1, <2>1, <2>2, <2>3, <2>4 DEF OtherTypes
  <1>3. ASSUME Abandon \/ UNCHANGED captureVars, UNCHANGED approved,
               UNCHANGED offered \/ offered' = TRUE,
               ClearForm \/ (\E c \in Chats : BeginFlow(c)) \/ (\E s, method : Advance(s, method))
               \/ UNCHANGED <<token, flowChat, expired, buttons>>
        PROVE  OtherTypes'
    <2>1. CaptureType'
      BY <1>1, <1>3, CapturesStep DEF OtherTypes
    <2>2. /\ token' \in Nat /\ flowChat' \in Chats \cup {None} /\ expired' \in BOOLEAN
          /\ buttons' \subseteq ButtonSteps \X Nat
      BY <1>2, <1>3
    <2> QED
      BY <1>1, <1>3, <2>1, <2>2 DEF OtherTypes
  <1>4. ASSUME NEW c \in Chats, StartDealForm(c) \/ StartOver(c)
        PROVE  OtherTypes'
    BY <1>3, <1>4 DEF StartDealForm, StartOver, flowVars
  <1>5. ASSUME NEW c \in Chats, FormText(c) \/ OtherText(c)
        PROVE  OtherTypes'
    <2>1. CaptureType'
      BY <1>1, <1>5, CapturesStep DEF FormText, OtherText, OtherTypes
    <2>2. /\ token' \in Nat /\ flowChat' \in Chats \cup {None} /\ expired' \in BOOLEAN
          /\ buttons' \subseteq ButtonSteps \X Nat
      BY <1>2, <1>5 DEF FormText, OtherText, flowVars
    <2> QED
      BY <1>1, <1>5, <2>1, <2>2 DEF OtherTypes, FormText, OtherText
  <1>6. ASSUME NEW k \in Kinds, NEW c \in Chats, Prompt(k, c)
        PROVE  OtherTypes'
    <2>1. CaptureType'
      BY <1>1, <1>6, CapturesStep DEF Prompt, OtherTypes
    <2> QED
      BY <1>1, <1>6, <2>1 DEF OtherTypes, Prompt
  <1>7. ASSUME NEW b \in buttons,
               \/ \E method \in {"INR", "CRYPTO"} : Choose(b, method)
               \/ Confirm(b) \/ ConfirmRefused(b) \/ ConfirmUnanswered(b)
        PROVE  OtherTypes'
    BY <1>3, <1>7 DEF Choose, Confirm, ConfirmRefused, ConfirmUnanswered, flowVars
  <1>8. CASE PressExpired \/ CancelForm \/ SessionLost \/ TimePasses
    <2>1. CASE PressExpired \/ CancelForm \/ SessionLost
      BY <1>3, <2>1 DEF PressExpired, CancelForm, SessionLost
    <2>2. CASE TimePasses
      <3>1. expired' \in BOOLEAN
        BY <2>2, Zenon DEF TimePasses
      <3> QED
        BY <1>1, <2>2, <3>1 DEF TimePasses, OtherTypes, CaptureType, captureVars
    <2> QED
      BY <1>8, <2>1, <2>2
  <1>9. CASE Answer
    <2>1. CaptureType'
      BY <1>1, <1>9, CapturesStep DEF Answer, Chats, OtherTypes
    <2> QED
      BY <1>1, <1>9, <2>1 DEF Answer, OtherTypes, flowVars
  <1>10. CASE OwnerCommand \/ UNCHANGED vars
    BY <1>1, <1>10 DEF OwnerCommand, vars, OtherTypes, CaptureType, captureVars, flowVars
  <1> QED
    BY <1>4, <1>5, <1>6, <1>7, <1>8, <1>9, <1>10 DEF Next, Continue, Restart, Edit

LEMMA TypeStep ==
  ASSUME TypeOK, [Next]_vars
  PROVE  TypeOK'
  <1>1. step' \in Steps \cup {None} /\ data' \in Datas /\ form' \in 0..MaxForms
    <2>1. CASE Advances
      <3>1. PICK s \in Steps \ {"preview"}, method \in {"INR", "CRYPTO", None} :
              /\ step' = NextStep(s, data.method) /\ data' = Recorded(s, method) /\ form' = form
        BY <2>1 DEF Advances
      <3> QED
        BY <3>1, NextStepLater, RecordedType DEF TypeOK
    <2>2. CASE Closes \/ Keeps
      BY <2>2 DEF Closes, Keeps, TypeOK
    <2>3. CASE Begins
      BY <2>3, StepOrder, DealFormAssumption DEF Begins, Forms
    <2> QED
      BY <2>1, <2>2, <2>3, StepShape
  <1>2. made' \in [Forms -> Nat] /\ lost' \in [Forms -> 0..MaxLost]
    BY StepShape, DealFormAssumption DEF MakesNone, Makes, MakesUnanswered, dealVars, TypeOK
  <1> QED
    BY <1>1, <1>2, OthersStep DEF TypeOK, OtherTypes, CaptureType, Datas

-----------------------------------------------------------------------------
(* One deal per form, one question at a time, answers of this form         *)

\* A form that is open has made no deal but those whose answer was lost.
DealInv ==
  /\ OneDealPerForm
  /\ Active => form \in Forms /\ made[form] <= lost[form]
  /\ \A f \in Forms : f > form => made[f] <= lost[f]

\* AssetFollowsMethod before the amount as well, where USDT is already decided.
AssetInv ==
  Active =>
    /\ Position[step] > 1 /\ data.method = "CRYPTO" => data.asset = "USDT"
    /\ Position[step] > 4 /\ data.method # "CRYPTO" => data.asset = "INR"

FormInv == TypeOK /\ DealInv /\ OneFlow /\ AnswersAreOfThisForm /\ AssetInv

LEMMA DealStep ==
  ASSUME TypeOK, TypeOK', DealInv, [Next]_vars
  PROVE  DealInv'
  <1> USE DEF TypeOK, DealInv, OneDealPerForm, Active
  <1>1. CASE (Closes \/ Keeps) /\ MakesNone
    BY <1>1 DEF Closes, Keeps, MakesNone, dealVars
  <1>2. CASE Begins /\ MakesNone
    BY <1>2 DEF Begins, MakesNone, dealVars, Forms
  <1>3. CASE Advances /\ MakesNone
    BY <1>3, DealFormAssumption DEF Advances, MakesNone, dealVars
  <1>4. CASE Closes /\ Makes
    BY <1>4 DEF Closes, Makes, Forms
  <1>5. CASE Keeps /\ MakesUnanswered
    BY <1>5, DealFormAssumption DEF Keeps, MakesUnanswered, Forms
  <1> QED
    BY <1>1, <1>2, <1>3, <1>4, <1>5, StepShape

LEMMA FlowStep ==
  ASSUME TypeOK, TypeOK', OneFlow, [Next]_vars
  PROVE  OneFlow'
  <1> USE DEF TypeOK, OneFlow, Waiting, Active
  <1>1. CASE Closes
    BY <1>1 DEF Closes
  <1>2. CASE Keeps
    BY <1>2 DEF Keeps
  <1>3. CASE Begins
    BY <1>3 DEF Begins, NoQuestions
  <1>4. CASE Advances
    BY <1>4, DealFormAssumption DEF Advances, NoQuestions
  <1> QED
    BY <1>1, <1>2, <1>3, <1>4, StepShape

LEMMA AnswersStep ==
  ASSUME TypeOK, TypeOK', AnswersAreOfThisForm, [Next]_vars
  PROVE  AnswersAreOfThisForm'
  <1> USE DEF AnswersAreOfThisForm, Active, Earlier
  <1>1. CASE Closes
    BY <1>1 DEF Closes
  <1>2. CASE Keeps
    BY <1>2 DEF Keeps
  <1>3. CASE Begins
    BY <1>3, StepOrder DEF Begins
  <1>4. CASE Advances
    <2>1. PICK s \in Steps \ {"preview"}, method \in {"INR", "CRYPTO", None} :
            /\ step = s
            /\ step' = NextStep(s, data.method) /\ form' = form
            /\ data' = Recorded(s, method)
      BY <1>4 DEF Advances
    <2>2. /\ data'.entered = [data.entered EXCEPT ![s] = form]
          /\ s # "payment_method" => data'.method = data.method
      BY <2>1, RecordedType
    <2>3. data.entered \in [Steps -> 0..MaxForms]
      BY DEF TypeOK
    <2>4. SUFFICES ASSUME NEW t \in Steps, Position[t] < Position[step'],
                          t = "crypto_payer" => data'.method = "CRYPTO"
                   PROVE  data'.entered[t] = form
      BY <2>1
    <2>5. CASE t = s
      BY <2>2, <2>3, <2>5
    <2>6. CASE t # s
      <3>1. s = "payment_method" => t # "crypto_payer"
        BY <2>1, <2>4, StepOrder, NextStepLater
      <3>2. Position[t] < Position[s]
        BY <2>1, <2>2, <2>4, <2>6, <3>1, NextStepLater
      <3>3. data.entered[t] = form
        BY <2>1, <2>2, <2>4, <3>1, <3>2, DealFormAssumption
      <3> QED
        BY <2>2, <2>3, <2>6, <3>3
    <2> QED
      BY <2>5, <2>6
  <1> QED
    BY <1>1, <1>2, <1>3, <1>4, StepShape

LEMMA AssetStep ==
  ASSUME TypeOK, TypeOK', AssetInv, [Next]_vars
  PROVE  AssetInv'
  <1> USE DEF AssetInv, Active
  <1>1. CASE Closes
    BY <1>1 DEF Closes
  <1>2. CASE Keeps
    BY <1>2 DEF Keeps
  <1>3. CASE Begins
    BY <1>3, StepOrder DEF Begins
  <1>4. CASE Advances
    <2>1. PICK s \in Steps \ {"preview"}, method \in {"INR", "CRYPTO", None} :
            /\ step = s /\ step' = NextStep(s, data.method) /\ data' = Recorded(s, method)
      BY <1>4 DEF Advances
    <2>2. step # None
      BY <2>1, DealFormAssumption
    <2>3. Position[step'] > 4 => s = "amount" \/ Position[s] > 4
      BY <2>1, NextStepLater, StepOrder
    <2>4. CASE s = "payment_method"
      <3>1. /\ Recorded(s, method).method = method
            /\ method = "CRYPTO" => Recorded(s, method).asset = "USDT"
        BY <2>4, RecordedType
      <3>2. ~(Position[step'] > 4)
        BY <2>3, <2>4, StepOrder
      <3> QED
        BY <2>1, <3>1, <3>2
    <2>5. CASE s # "payment_method"
      <3>1. Position[s] > 1
        BY <2>5, StepOrder
      <3>2. data'.method = data.method
        BY <2>1, <2>5, RecordedType
      <3>3. CASE s = "amount" /\ data.method # "CRYPTO"
        <4>1. s \in Steps
          OBVIOUS
        <4>2. /\ Recorded(s, method) \in Datas
              /\ s = "amount" /\ data.method # "CRYPTO" => Recorded(s, method).asset = "INR"
          BY <4>1, RecordedType
        <4> QED
          BY <2>1, <3>2, <3>3, <4>2
      <3>4. CASE ~(s = "amount" /\ data.method # "CRYPTO")
        <4>1. data'.asset = data.asset
          BY <2>1, <2>5, <3>4, RecordedType
        <4>2. data'.method = "CRYPTO" => data'.asset = "USDT"
          BY <2>1, <2>2, <3>1, <3>2, <4>1
        <4>3. Position[step'] > 4 /\ data'.method # "CRYPTO" => data'.asset = "INR"
          BY <2>1, <2>2, <2>3, <3>2, <3>4, <4>1
        <4> QED
          BY <4>2, <4>3
      <3> QED
        BY <3>3, <3>4
    <2> QED
      BY <2>4, <2>5
  <1> QED
    BY <1>1, <1>2, <1>3, <1>4, StepShape

\* The invariant of the form: its types, the deals it made, the questions open
\* next to it, and its answers.
THEOREM FormInvariant == Spec => []FormInv
  <1>1. Init => FormInv
    <2> SUFFICES ASSUME Init PROVE FormInv
      OBVIOUS
    <2>1. DealInv
      BY DEF Init, DealInv, OneDealPerForm, Active
    <2>2. OneFlow /\ AnswersAreOfThisForm /\ AssetInv
      BY DEF Init, OneFlow, AnswersAreOfThisForm, AssetInv, Active
    <2> QED
      BY <2>1, <2>2, TypeInit DEF FormInv
  <1>2. FormInv /\ [Next]_vars => FormInv'
    BY TypeStep, DealStep, FlowStep, AnswersStep, AssetStep DEF FormInv
  <1> QED
    BY <1>1, <1>2, PTL DEF Spec

\* The session, the buttons and the questions keep their types.
THEOREM FormTypeCorrect == Spec => []TypeOK
  BY FormInvariant, PTL DEF FormInv

\* A form makes one deal, and one more for each confirmation that was lost after
\* the deal was stored.
THEOREM FormMakesOneDeal == Spec => []OneDealPerForm
  BY FormInvariant, PTL DEF FormInv, DealInv

\* While a report or evidence is asked for, there is no form.
THEOREM FormIsTheOnlyFlow == Spec => []OneFlow
  BY FormInvariant, PTL DEF FormInv

\* Whatever old forms left in the session, a deal is made from answers that were
\* given in its own form.
THEOREM FormAnswersAreItsOwn == Spec => []AnswersAreOfThisForm
  BY FormInvariant, PTL DEF FormInv

\* The asset of the deal is that of the payment method of its form.
THEOREM FormAssetFollowsMethod == Spec => []AssetFollowsMethod
  <1>1. FormInv => AssetFollowsMethod
    <2>1. FormInv /\ Active => step \in Steps
      BY DEF FormInv, TypeOK, Active
    <2>2. Position["amount"] = 4 /\ \A s \in Steps : Position[s] \in Nat
      BY StepOrder
    <2> QED
      BY <2>1, <2>2 DEF FormInv, AssetInv, AssetFollowsMethod
  <1> QED
    BY <1>1, FormInvariant, PTL

\* No step, of a button of whatever age or otherwise, takes a form back.
THEOREM FormNeverRewinds == Spec => NeverRewinds
  <1>1. ASSUME TypeOK, [Next]_vars
        PROVE  Active /\ step' # None /\ form' = form => Position[step'] >= Position[step]
    <2>1. \A s \in Steps : Position[s] \in Nat
      BY StepOrder
    <2>2. CASE Closes \/ Keeps
      <3>1. Active => step \in Steps
        BY <1>1 DEF TypeOK, Active
      <3> QED
        BY <2>1, <2>2, <3>1 DEF Closes, Keeps
    <2>3. CASE Begins
      BY <2>3 DEF Begins, TypeOK
    <2>4. CASE Advances
      BY <2>1, <2>4, NextStepLater DEF Advances
    <2> QED
      BY <1>1, <2>2, <2>3, <2>4, StepShape
  <1> QED
    BY <1>1, FormInvariant, PTL DEF Spec, NeverRewinds, FormInv

\* An expired form takes no answer and makes no deal.
THEOREM FormExpiredIsOver == Spec => ExpiredIsOver
  <1>1. ASSUME TypeOK, [Next]_vars
        PROVE  Active /\ expired => made' = made /\ (form' = form => step' \in {step, None})
    <2>1. CASE (Closes \/ Keeps) /\ MakesNone
      BY <2>1 DEF Closes, Keeps, MakesNone, dealVars
    <2>2. CASE Begins /\ MakesNone
      BY <2>2 DEF Begins, MakesNone, dealVars, TypeOK
    <2>3. CASE Advances \/ Makes \/ MakesUnanswered
      BY <2>3 DEF Advances, Makes, MakesUnanswered
    <2> QED
      BY <1>1, <2>1, <2>2, <2>3, StepShape
  <1> QED
    BY <1>1, FormInvariant, PTL DEF Spec, ExpiredIsOver, FormInv
=============================================================================
