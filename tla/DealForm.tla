------------------------------ MODULE DealForm ------------------------------
(***************************************************************************)
(* The form with which a user describes a deal, from the first question to *)
(* the card in the escrow group (src/src/bot/scenes/dealForm.ts), next to  *)
(* the other questions the bot puts to that user (Captures).               *)
(*                                                                         *)
(* A button carries the version token that was current when its message    *)
(* was sent.  Old messages stay in the chat, so their buttons can be       *)
(* pressed at any time.                                                    *)
(***************************************************************************)
EXTENDS Captures, Integers

CONSTANTS
  Configured,  \* the escrow group of forms that were started in private, or None
  MaxForms,    \* bound on the forms the user begins
  MaxLost      \* bound on the confirmations that are not answered

Position == [payment_method |-> 1, role |-> 2, counterparty |-> 3, amount |-> 4,
             crypto_payer |-> 5, category |-> 6, description |-> 7, deal_duration |-> 8,
             release_condition |-> 9, refund_condition |-> 10, preview |-> 11]
Steps == DOMAIN Position
ButtonSteps == {"payment_method", "role", "crypto_payer", "category", "preview"}
Forms == 1..MaxForms

ASSUME DealFormAssumption ==
  /\ Configured \in Groups \cup {None}
  /\ None \notin Steps
  /\ MaxForms \in Nat
  /\ MaxLost \in Nat

VARIABLES
  approved,  \* groups with an APPROVED row in group_authorizations
  step,      \* createDealStep
  data,      \* the other createDeal fields
  token,     \* the last version token, counted
  flowChat,  \* flowChatId
  expired,   \* isFlowExpired(flowExpiresAt)
  buttons,   \* step and token of every step button in the user's chats
  offered,   \* a message offers to continue or to restart
  form,      \* number of forms begun
  made,      \* deals created from each form
  lost       \* those of them whose handler failed before it was answered

flowVars == <<step, data, token, flowChat, expired, buttons, form>>
dealVars == <<made, lost>>
vars == <<captureVars, approved, flowVars, offered, dealVars>>

-----------------------------------------------------------------------------

\* For each step, the form in which it was last answered.
Blank == [method |-> None, asset |-> None, target |-> None, entered |-> [s \in Steps |-> 0]]

Active == step # None

\* Seeded fault: a private chat is taken for the deal's group.
TargetOfAny(c) == c
TargetOf(c) == IF c \in Groups THEN c ELSE None

\* Seeded fault: questions that have an answer are not asked again.
NextStepUnanswered(s, method) ==
  LET open == {t \in Steps : Position[t] > Position[s] /\ data.entered[t] = 0}
  IN  CHOOSE t \in open : \A u \in open : Position[t] <= Position[u]
NextStep(s, method) ==
  IF s = "amount" /\ method # "CRYPTO" THEN "category"
  ELSE CHOOSE t \in Steps : Position[t] = Position[s] + 1

Rendered(s, t) == IF s \in ButtonSteps THEN {<<s, t>>} ELSE {}

\* Seeded fault: any step button of an active form is taken.
CurrentAlways(b) == Active
\* isFormCallbackCurrent, for the buttons that drive a step.
Current(b) == Active /\ b[1] = step /\ b[2] = token

ClearForm ==
  /\ step' = None
  /\ data' = Blank
  /\ flowChat' = None
  /\ expired' = FALSE
  /\ UNCHANGED <<token, buttons, form>>

BeginFlow(c) ==
  /\ form < MaxForms
  /\ form' = form + 1
  /\ step' = "payment_method"
  /\ token' = token + 1
  /\ flowChat' = c
  /\ expired' = FALSE
  /\ buttons' = buttons \cup Rendered("payment_method", token + 1)

Refused(c) == c \in Groups \ approved

\* The menu's button, the command and the word "form".  The target is set before
\* the form under way is looked at; an expired one takes the target with it.
StartDealForm(c) ==
  /\ Abandon
  /\ \/ Refused(c) /\ UNCHANGED <<flowVars, offered>>
     \/ /\ ~Refused(c) /\ Active /\ ~expired
        /\ data' = [data EXCEPT !.target = TargetOf(c)]
        /\ offered' = TRUE
        /\ UNCHANGED <<step, token, flowChat, expired, buttons, form>>
     \/ /\ ~Refused(c) /\ ~(Active /\ ~expired)
        /\ BeginFlow(c)
        /\ data' = IF Active THEN Blank ELSE [data EXCEPT !.target = TargetOf(c)]
        /\ UNCHANGED offered
  /\ UNCHANGED <<approved, dealVars>>

\* The form is cleared, then a new one started.
StartOver(c) ==
  /\ Abandon
  /\ \/ Refused(c) /\ ClearForm
     \/ ~Refused(c) /\ BeginFlow(c) /\ data' = [Blank EXCEPT !.target = TargetOf(c)]
  /\ UNCHANGED <<approved, offered, dealVars>>

-----------------------------------------------------------------------------
(* Answers                                                                 *)

Recorded(s, method) ==
  LET d == [data EXCEPT !.entered[s] = form] IN
  CASE s = "payment_method" ->
         [d EXCEPT !.method = method, !.asset = IF method = "CRYPTO" THEN "USDT" ELSE @]
    [] s = "amount" /\ data.method # "CRYPTO" -> [d EXCEPT !.asset = "INR"]
    [] OTHER -> d

\* The answer to step s is stored, the token rotated and the next question asked.
Advance(s, method) ==
  /\ data' = Recorded(s, method)
  /\ step' = NextStep(s, data.method)
  /\ token' = token + 1
  /\ expired' = FALSE
  /\ buttons' = buttons \cup Rendered(step', token + 1)
  /\ UNCHANGED <<flowChat, form>>

\* Every form button first looks at the age of the form.
PressExpired ==
  /\ Active /\ expired
  /\ ClearForm
  /\ UNCHANGED <<captureVars, approved, offered, dealVars>>

Fresh == ~(Active /\ expired)

Choose(b, method) ==
  /\ Fresh
  /\ b \in buttons /\ b[1] # "preview" /\ Current(b)
  /\ Advance(b[1], method)
  /\ UNCHANGED <<captureVars, approved, offered, dealVars>>

\* Seeded fault: text does not look at the age of the form.
FormTextAnyAge(c) ==
  /\ PassText(c)
  /\ Active /\ flowChat = c
  /\ step \notin ButtonSteps /\ Advance(step, data.method)
  /\ UNCHANGED <<approved, offered, dealVars>>
\* Text that no other question took, in the chat of the form.
FormText(c) ==
  /\ PassText(c)
  /\ Active /\ flowChat = c
  /\ \/ expired /\ ClearForm
     \/ ~expired /\ step \notin ButtonSteps /\ Advance(step, data.method)
  /\ UNCHANGED <<approved, offered, dealVars>>

\* Text the form does not take either: another chat, no form, a step with
\* buttons, or a value that is not accepted.
OtherText(c) ==
  /\ PassText(c)
  /\ Active /\ flowChat = c => ~expired
  /\ UNCHANGED <<approved, flowVars, offered, dealVars>>

\* Continue shows the current question again, with the token it already has;
\* without a form it starts one.
Continue(c) ==
  /\ offered /\ ~Active
  /\ StartDealForm(c)

Restart(c) ==
  /\ offered /\ Fresh
  /\ StartOver(c)

\* Edit carries a token which nobody compares: any preview ever shown will do.
Edit(c) ==
  /\ \E b \in buttons : b[1] = "preview"
  /\ Fresh
  /\ StartOver(c)

\* menu:main leaves everything but the step.
CancelForm ==
  /\ step' = None
  /\ UNCHANGED <<captureVars, approved, data, token, flowChat, expired, buttons, form, offered,
                 dealVars>>

-----------------------------------------------------------------------------
(* Confirmation                                                            *)

Home == IF data.target # None THEN data.target ELSE Configured

Confirms(b) == Fresh /\ b \in buttons /\ b[1] = "preview" /\ Current(b)

\* Seeded fault: the form stays open when the deal is created.
ConfirmStaysOpen(b) ==
  /\ Confirms(b)
  /\ Home \in approved
  /\ made' = [made EXCEPT ![form] = @ + 1]
  /\ UNCHANGED <<captureVars, approved, flowVars, offered, lost>>
Confirm(b) ==
  /\ Confirms(b)
  /\ Home \in approved
  /\ made' = [made EXCEPT ![form] = @ + 1]
  /\ ClearForm
  /\ UNCHANGED <<captureVars, approved, offered, lost>>

\* No approved group, or the deal's terms are refused.
ConfirmRefused(b) ==
  /\ Confirms(b)
  /\ ClearForm
  /\ UNCHANGED <<captureVars, approved, offered, dealVars>>

\* The deal is created, but the instance stops, the answer cannot be sent or Redis
\* does not take the session: the form is as before, and the button still works.
ConfirmUnanswered(b) ==
  /\ Confirms(b)
  /\ Home \in approved
  /\ lost[form] < MaxLost
  /\ made' = [made EXCEPT ![form] = @ + 1]
  /\ lost' = [lost EXCEPT ![form] = @ + 1]
  /\ UNCHANGED <<captureVars, approved, flowVars, offered>>

-----------------------------------------------------------------------------
(* Other questions, time and the owner                                     *)

\* A report of payment and evidence end the form; the other prompts leave it.
Prompt(k, c) ==
  /\ Ask(k, c)
  /\ step' = IF k \in Droppable THEN None ELSE step
  /\ UNCHANGED <<approved, data, token, flowChat, expired, buttons, form, offered, dealVars>>

Answer ==
  /\ \/ \E c \in Chats : RetrySetting(c) \/ \E k \in Kinds : AnswerText(c, k)
     \/ \E k \in Kinds : AnswerPhoto(k)
  /\ UNCHANGED <<approved, flowVars, offered, dealVars>>

\* Twice FLOW_TTL_MS goes by without an answer: flowExpiresAt lies one lifetime
\* ahead, and isFlowExpired adds another.
TimePasses ==
  /\ Active /\ ~expired
  /\ expired' = TRUE
  /\ UNCHANGED <<captureVars, approved, step, data, token, flowChat, buttons, form, offered,
                 dealVars>>

\* Without Redis the sessions are in the memory of the instance, and with it they
\* last a day.
SessionLost ==
  /\ Abandon /\ ClearForm
  /\ UNCHANGED <<approved, offered, dealVars>>

OwnerCommand ==
  /\ \E g \in Groups : approved' \in {approved \cup {g}, approved \ {g}}
  /\ UNCHANGED <<captureVars, flowVars, offered, dealVars>>

Init ==
  /\ asked = NoQuestions /\ bound = None
  /\ approved = Groups
  /\ step = None /\ data = Blank
  /\ token = 0 /\ flowChat = None /\ expired = FALSE
  /\ buttons = {} /\ offered = FALSE
  /\ form = 0
  /\ made = [f \in Forms |-> 0] /\ lost = [f \in Forms |-> 0]

Next ==
  \/ \E c \in Chats :
       \/ StartDealForm(c) \/ Continue(c) \/ Restart(c) \/ Edit(c)
       \/ FormText(c) \/ OtherText(c)
       \/ \E k \in Kinds : Prompt(k, c)
  \/ \E b \in buttons :
       \/ \E method \in {"INR", "CRYPTO"} : Choose(b, method)
       \/ Confirm(b) \/ ConfirmRefused(b) \/ ConfirmUnanswered(b)
  \/ PressExpired \/ CancelForm \/ SessionLost
  \/ Answer
  \/ TimePasses
  \/ OwnerCommand

Spec == Init /\ [][Next]_vars
-----------------------------------------------------------------------------
(* Properties                                                              *)

\* The session, the chats' buttons and the questions hold values of their types.
TypeOK ==
  /\ asked \in [Kinds -> Chats \cup {None}]
  /\ bound \in Chats \cup {None}
  /\ approved \subseteq Groups
  /\ step \in Steps \cup {None}
  /\ data \in [method : {"INR", "CRYPTO", None}, asset : {"INR", "USDT", None},
               target : Groups \cup {None}, entered : [Steps -> 0..MaxForms]]
  /\ token \in Nat
  /\ flowChat \in Chats \cup {None}
  /\ expired \in BOOLEAN
  /\ buttons \subseteq ButtonSteps \X Nat
  /\ offered \in BOOLEAN
  /\ form \in 0..MaxForms
  /\ made \in [Forms -> Nat]
  /\ lost \in [Forms -> 0..MaxLost]

\* Steps before s that the form asks for with this payment method.
Earlier(s) ==
  {t \in Steps : Position[t] < Position[s] /\ (t = "crypto_payer" => data.method = "CRYPTO")}

\* What the preview shows and the deal is created from was all entered in this
\* form: nothing is left over from one that was cancelled with menu:main, which
\* clears no field.
AnswersAreOfThisForm == Active => \A s \in Earlier(step) : data.entered[s] = form

\* The asset of the deal is that of the payment method chosen in this form, also
\* after a cancelled form for the other method (createDealFromForm).
AssetFollowsMethod ==
  Active /\ Position[step] > Position["amount"] =>
    data.asset = IF data.method = "CRYPTO" THEN "USDT" ELSE "INR"

\* A button of an older message never takes a form back to a step it has left
\* (isFormCallbackCurrent); only a new form begins at the beginning.
NeverRewinds ==
  [][Active /\ step' # None /\ form' = form => Position[step'] >= Position[step]]_vars

\* However often the preview is confirmed, and from whichever of its messages, a
\* form makes one deal, and one more for each confirmation that was lost after
\* the deal was stored (createDealFromForm).
OneDealPerForm == \A f \in Forms : made[f] <= 1 + lost[f]

\* A form that expired takes no answer and makes no deal, in whichever way it
\* is reached: by a button, a text, a command or an old message.
ExpiredIsOver ==
  [][Active /\ expired => made' = made /\ (form' = form => step' \in {step, None})]_vars

\* While a report of payment or evidence is asked for there is no form, so that
\* no text meant for one is taken by the other.
OneFlow == \A k \in Waiting : k \in Droppable => ~Active
=============================================================================
