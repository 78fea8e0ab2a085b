----------------------------- MODULE GroupCard -----------------------------
(***************************************************************************)
(* What the group and the escrow admin are shown of the deal.  The bot     *)
(* posts one message per deal into the group, its card, and edits it after *)
(* every operation: it calls the service, reads the row again and renders  *)
(* what it read, in separate awaits.  The admin who accepted the deal gets *)
(* the buttons for the verdict in a direct message.  A message may fail to *)
(* be sent, an error is only logged, and an instance may stop in between.  *)
(* The deal and the rights of its users are those of GroupAccess.          *)
(***************************************************************************)
EXTENDS GroupAccess

VARIABLES
  posted,   \* the deal has its group_chat_id and group_message_id
  card,     \* what the message in the group shows
  held,     \* admins who have a message with the buttons for the verdict
  missed,   \* "card": the last change of the deal is not on the card;
            \* "verdict": the acceptor has nothing to decide on the report with
  render    \* what each instance still has to send for the handler it is in

cardVars == <<posted, card, held, missed, render>>
allVars == <<accessVars, cardVars>>

-----------------------------------------------------------------------------
(* The card                                                                *)

\* A card shows the status, while it is CREATED who agreed, and the payment
\* details with [I've Paid], or a keyboard without them.
Cards == [status : Status, agreed : SUBSET Parties, pay : BOOLEAN]
NoCard == [status |-> "none", agreed |-> {}, pay |-> FALSE]

Shown(pay) ==
  [status |-> status, agreed |-> IF status = "CREATED" THEN agreed ELSE {}, pay |-> pay]

\* Seeded fault: a rejection leaves the card with the status alone.
DetailsAfterAccept(by) == by = "accept"
\* Seeded fault: the payment details are put on the card with the agreement.
DetailsAfterAgreement(by) == by \in {"agree", "accept", "reject"}
\* The handlers that put the payment details on the card, whatever the status
\* they read.
WithDetails(by) == by \in {"accept", "reject"}

Operations == {"agree", "accept", "report", "reject", "verify", "cancel", "evidence"}
NoJob == [next |-> "none", by |-> "none", seen |-> NoCard]
Jobs == [next : {"post", "record"}, by : {"post"}, seen : {NoCard}]
          \cup [next : {"fetch", "show", "tell"}, by : Operations, seen : Cards \cup {NoCard}]

Quiet(p) == render[p] = NoJob
Available(p) == Free(p) /\ Quiet(p)
Continue(p, next, by, seen) ==
  render' = [render EXCEPT ![p] = [next |-> next, by |-> by, seen |-> seen]]
Done(p) == render' = [render EXCEPT ![p] = NoJob]

\* The form has stored the deal, and its instance goes on to post the card.
CardInit ==
  /\ AccessInit
  /\ posted = FALSE
  /\ card = NoCard
  /\ held = {}
  /\ missed = {}
  /\ \E p \in Instances :
       render = [q \in Instances |->
                   IF q = p THEN [next |-> "post", by |-> "post", seen |-> NoCard] ELSE NoJob]

-----------------------------------------------------------------------------
(* Posting the card                                                        *)

PostCard(p) ==
  /\ render[p].next = "post"
  /\ approved
  /\ card' = Shown(FALSE)
  /\ Continue(p, "record", "post", NoCard)
  /\ UNCHANGED <<accessVars, posted, held, missed>>

RecordCard(p) ==
  /\ render[p].next = "record"
  /\ posted' = TRUE
  /\ Done(p)
  /\ UNCHANGED <<accessVars, card, held, missed>>

\* The group is not approved any more, a call fails or the instance stops: the
\* deal keeps no group, although its card may be there.
PostingFails(p) ==
  /\ render[p].next \in {"post", "record"}
  /\ missed' = missed \cup {"card"}
  /\ Done(p)
  /\ UNCHANGED <<accessVars, posted, card, held>>

-----------------------------------------------------------------------------
(* Operations of the deal, and what they leave to be sent                  *)

Renders(p, by) == Continue(p, "fetch", by, NoCard)

\* The parties' operations: agreement on the card, the report from the card or
\* from the view of the deal.
AgreeOrReport(p) ==
  /\ Available(p) /\ card # NoCard
  /\ \E u \in Users : \/ AgreeToDeal(u) /\ Renders(p, "agree")
                      \/ ReportPayment(u) /\ Renders(p, "report")
  /\ UNCHANGED <<groupVars, handler, posted, card, held, missed>>

\* The reason arrives; when the service refuses it, nothing is rendered.
Reason(p) ==
  /\ Available(p)
  /\ \E a \in Admins : /\ RejectPayment(a)
                       /\ IF Rejectable(a) THEN Renders(p, "reject") ELSE UNCHANGED render
  /\ UNCHANGED <<groupVars, handler, posted, card, held, missed>>

\* The reason is dropped; the buttons went when it was asked for.
ReasonDropped(p) ==
  /\ Available(p)
  /\ \E a \in Admins : /\ DropReason(a)
                       /\ missed' = missed \cup (IF a \in held THEN {} ELSE {"verdict"})
  /\ UNCHANGED <<groupVars, handler, posted, card, held, render>>

\* The admins' buttons and the cancellation.  Without its group the deal cannot
\* be accepted, and nobody can cancel before its creator was answered.
CheckOnCard(p) ==
  /\ Quiet(p)
  /\ Check(p)
  /\ handler'[p].does = "takeOn" => posted
  /\ handler'[p].does = "cancel" => \A q \in Instances : render[q].next # "post"
  /\ UNCHANGED cardVars

\* "Not Received" turns the message with the buttons into the question.
ActOnCard(p) ==
  /\ Act(p)
  /\ \/ handler[p].does = "takeOn" /\ Renders(p, "accept") /\ UNCHANGED held
     \/ handler[p].does = "verify" /\ Renders(p, "verify") /\ UNCHANGED held
     \/ /\ handler[p].does = "reject"
        /\ held' = held \ {handler[p].for}
        /\ UNCHANGED render
     \/ handler[p].does \in {"evidence", "cancel"} /\ UNCHANGED <<held, render>>
  /\ UNCHANGED <<posted, card, missed>>

\* The unlocked operations.  The sweep of expired deals edits no card.
CallOnCard(p) ==
  /\ Quiet(p)
  /\ \/ /\ handler[p] = NoHandler
        /\ ExpireRead(p) \/ EvidenceRead(p)
        /\ UNCHANGED <<missed, render>>
     \/ CancelWrite(p) /\ Renders(p, "cancel") /\ UNCHANGED missed
     \/ ExpireWrite(p) /\ missed' = missed \cup {"card"} /\ UNCHANGED render
     \/ EvidenceWrite(p) /\ Continue(p, "tell", "evidence", NoCard) /\ UNCHANGED missed
     \/ Crash(p) /\ UNCHANGED <<missed, render>>
  /\ UNCHANGED <<groupVars, handler, posted, card, held>>

OwnerMeanwhile ==
  /\ \E p \in Instances : Available(p)
  /\ OwnerCommand
  /\ UNCHANGED cardVars

DeadlineMeanwhile ==
  /\ DeadlinePasses
  /\ UNCHANGED <<groupVars, handler, cardVars>>

-----------------------------------------------------------------------------
(* Sending                                                                 *)

\* The row is read again, and shown later as it was then.  A deal that was not
\* posted has no card to edit.
Fetch(p) ==
  /\ render[p].next = "fetch"
  /\ Continue(p, "show", render[p].by,
              IF posted THEN Shown(WithDetails(render[p].by)) ELSE NoCard)
  /\ UNCHANGED <<accessVars, posted, card, held, missed>>

\* After the card, a report is brought to the admin who accepted the deal.
AfterCard(p) ==
  IF render[p].by = "report" THEN Continue(p, "tell", "report", NoCard) ELSE Done(p)

Show(p) ==
  /\ render[p].next = "show"
  /\ render[p].seen # NoCard
  /\ card' = render[p].seen
  /\ missed' = missed \ {"card"}
  /\ AfterCard(p)
  /\ UNCHANGED <<accessVars, posted, held>>

\* There is no card, or the edit fails, which is only logged.
ShowFails(p) ==
  /\ render[p].next = "show"
  /\ missed' = missed \cup {"card"}
  /\ AfterCard(p)
  /\ UNCHANGED <<accessVars, posted, card, held>>

\* Seeded fault: the message goes to the bot owner.
TellOwner(p) ==
  /\ render[p].next = "tell"
  /\ held' = held \cup {Owner}
  /\ missed' = missed \ {"verdict"}
  /\ Done(p)
  /\ UNCHANGED <<accessVars, posted, card>>
\* The buttons for the verdict: a message to the acceptor and nobody else.
Tell(p) ==
  /\ render[p].next = "tell"
  /\ held' = held \cup ({acceptedBy} \ {None})
  /\ missed' = missed \ {"verdict"}
  /\ Done(p)
  /\ UNCHANGED <<accessVars, posted, card>>

\* The answer to the user fails before the card is reached, the message to the
\* acceptor fails, or the instance stops: the rest of the handler is left out.
BreaksOff(p) ==
  /\ render[p].next \in {"fetch", "show", "tell"}
  /\ missed' = missed
       \cup (IF render[p].next # "tell" THEN {"card"} ELSE {})
       \cup (IF render[p].by = "report" THEN {"verdict"} ELSE {})
  /\ Done(p)
  /\ UNCHANGED <<accessVars, posted, card, held>>

CardStep(p) ==
  \/ PostCard(p) \/ RecordCard(p) \/ PostingFails(p)
  \/ Fetch(p) \/ Show(p) \/ ShowFails(p) \/ Tell(p) \/ BreaksOff(p)

DealOnCard(p) ==
  \/ AgreeOrReport(p) \/ Reason(p) \/ ReasonDropped(p)
  \/ CheckOnCard(p) \/ ActOnCard(p) \/ CallOnCard(p)

CardNext ==
  \/ \E p \in Instances : CardStep(p) \/ DealOnCard(p)
  \/ OwnerMeanwhile
  \/ DeadlineMeanwhile

CardSpec == CardInit /\ [][CardNext]_allVars
-----------------------------------------------------------------------------
(* Properties                                                              *)

\* The card, the holders of buttons and the jobs of the instances hold values
\* of their types, and so do the rows and handlers of GroupAccess.
CardTypeOK ==
  /\ AccessTypeOK
  /\ posted \in BOOLEAN
  /\ card \in Cards \cup {NoCard}
  /\ held \subseteq Admins
  /\ missed \subseteq {"card", "verdict"}
  /\ render \in [Instances -> Jobs \cup {NoJob}]

\* Whatever message is lost and however old the row a handler renders, nobody
\* is misled: the payment details are shown after both parties agreed and an
\* admin took the deal, a payment is shown as received after it was verified,
\* the buttons for the verdict are with the acceptor alone, and no money is
\* asked for on a deal whose card could not be kept.
NotMisled ==
  /\ card.pay => agreed = Parties /\ acceptedBy # None
  /\ card.status = "PAYMENT_RECEIVED" => Verified # {}
  /\ held \subseteq {acceptedBy}
  /\ status \in PayingStates => posted

\* With one thread of control the card shows the deal as it is once the handler
\* is through, with the payment details exactly while the payment is awaited,
\* unless the last update of the card was lost; a later one makes up for it.
CardShowsDeal ==
  (\A p \in Instances : Quiet(p)) /\ "card" \notin missed =>
    card = Shown(status = "AWAITING_PAYMENT")

\* With one thread of control a reported payment can be decided: unless the
\* message was lost or the reason dropped, the acceptor has the buttons or is
\* being asked for the reason.
ReportIsAnswerable ==
  /\ \A p \in Instances : Quiet(p)
  /\ status = "PAYMENT_REPORTED"
  /\ "verdict" \notin missed
  => acceptedBy \in held \cup rejecting
=============================================================================
