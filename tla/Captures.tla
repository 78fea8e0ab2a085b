------------------------------ MODULE Captures ------------------------------
(***************************************************************************)
(* The questions the bot has put to one user and waits for the answer to   *)
(* (the pending... fields of SessionData in src/src/bot/context.ts): who   *)
(* asks, which text or photo answers, and what is left behind.             *)
(*                                                                         *)
(* There is one field per kind of question, and one chat they all share.   *)
(* The updates of a user are handled one after the other, so each update   *)
(* is one action on the stored session.                                    *)
(***************************************************************************)
EXTENDS Naturals, FiniteSets

CONSTANTS
  Groups,  \* group chats
  Dm,      \* the user's private chat with the bot
  None,    \* no chat, no step
  Kinds    \* the kinds of question in use

Chats == Groups \cup {Dm}

\* The order in which a text is offered to the questions.
Rank == [dispute |-> 1, report |-> 2, evidence |-> 3, reject |-> 4, reference |-> 5,
         payout |-> 6, refundReference |-> 7, setting |-> 8]

ASSUME CapturesAssumption ==
  /\ Dm \notin Groups
  /\ None \notin Chats
  /\ Kinds \subseteq DOMAIN Rank

VARIABLES
  asked,  \* the chat in which each kind of question was put, or None
  bound   \* pendingFlowChatId

captureVars == <<asked, bound>>

-----------------------------------------------------------------------------

Waiting == {k \in Kinds : asked[k] # None}

\* A report or evidence that the deal no longer waits for is dropped, and the
\* text goes on to the next question.
Droppable == {"report", "evidence"}

\* The questions that release the chat when they are answered.
Unbinding == {"dispute", "report", "evidence", "setting"}

NoQuestions == [k \in Kinds |-> None]

Ask(k, c) ==
  /\ asked' = [asked EXCEPT ![k] = c]
  /\ bound' = c

\* A text in another chat than the one of the last question is not offered.
Heard(c) == bound \in {None, c}

\* The questions before k, which must all be out of date.
Dropped(k) == {l \in Waiting : Rank[l] < Rank[k]}

Reaches(c, k) ==
  /\ Heard(c)
  /\ k \in Waiting
  /\ Dropped(k) \subseteq Droppable

Without(ks) == [k \in Kinds |-> IF k \in ks THEN None ELSE asked[k]]

AnswerText(c, k) ==
  /\ Reaches(c, k)
  /\ asked' = Without(Dropped(k) \cup {k})
  /\ bound' = IF k \in Unbinding \/ Dropped(k) # {} THEN None ELSE bound

\* A value that is too short or too long is asked for again.
RetrySetting(c) ==
  /\ Reaches(c, "setting")
  /\ asked' = [Without(Dropped("setting")) EXCEPT !["setting"] = c]
  /\ bound' = c

\* Photos answer a report or evidence, from any chat.
AnswerPhoto(k) ==
  /\ k \in Waiting \cap Droppable
  /\ k = "evidence" => "report" \notin Waiting
  /\ asked' = Without({k})
  /\ UNCHANGED bound

\* No question takes the text: it is offered to the deal form.
PassText(c) ==
  /\ Heard(c)
  /\ Waiting \subseteq Droppable
  /\ asked' = NoQuestions
  /\ bound' = IF Waiting = {} THEN bound ELSE None

\* Seeded fault: the form leaves the questions open.
AbandonNothing == UNCHANGED captureVars
Abandon ==
  /\ asked' = NoQuestions
  /\ bound' = None
=============================================================================
