---------------------------- MODULE GroupAccess ----------------------------
(***************************************************************************)
(* Who may act on the deal of DealFlow: the approval of its group and the  *)
(* escrow admins the bot owner assigns to it, while deals are under way.   *)
(* The handlers of src/bot read these rows, await, and call the deal's     *)
(* service; what was read can be out of date by then when two instances of *)
(* the bot run.  Every step of the deal is a step of DealFlow.             *)
(***************************************************************************)
EXTENDS DealFlow

CONSTANTS
  Owner,         \* BOT_OWNER_TELEGRAM_ID
  GlobalAdmins   \* ADMIN_TELEGRAM_IDS

\* Admins, of DealFlow, are here all users who are or can be made admins.
ASSUME GroupAccessAssumption == Owner \in Admins /\ GlobalAdmins \subseteq Admins

VARIABLES
  approved,   \* group_authorizations.status is APPROVED for the deal's group
  assigned,   \* users with an ACTIVE group_admins row of the deal's group
  handler     \* what each instance goes on to do for a user it has checked

groupVars == <<approved, assigned>>
accessVars == <<vars, groupVars, handler>>

-----------------------------------------------------------------------------
(* Authorization                                                           *)

NoHandler == [does |-> "none", for |-> None]
Buttons == {"accept", "verify", "reject", "evidence"}
Handlers == [does : Buttons \cup {"refuse", "takeOn", "cancel"}, for : Users] \cup {NoHandler}

Free(p) == Idle(p) /\ handler[p] = NoHandler
SomeFree == \E p \in Instances : Free(p)
GoOn(p, does, u) == handler' = [handler EXCEPT ![p] = [does |-> does, for |-> u]]
Finish(p) == handler' = [handler EXCEPT ![p] = NoHandler]

\* The router of the deal's admin buttons.
AuthorizedForDealAction(u) == u \in GlobalAdmins \cup assigned
\* The rule for acceptance: the owner may act in every group.
AuthorizedForGroup(u) == u = Owner \/ AuthorizedForDealAction(u)
\* Cancellation is open to the parties too.
AuthorizedToCancel(u) == u \in {BuyerId, sellerId} \/ AuthorizedForDealAction(u)

AccessInit ==
  /\ Init
  /\ approved = TRUE
  /\ assigned = {}
  /\ handler = [p \in Instances |-> NoHandler]

-----------------------------------------------------------------------------
(* Commands of the bot owner, inside the group                             *)

AllowGroup ==
  /\ approved' = TRUE
  /\ UNCHANGED <<vars, assigned, handler>>

\* Assignments and deals stay as they are.
DisallowGroup ==
  /\ approved' = FALSE
  /\ UNCHANGED <<vars, assigned, handler>>

AddAdmin(u) ==
  /\ approved
  /\ assigned' = assigned \cup {u}
  /\ UNCHANGED <<vars, approved, handler>>

RemoveAdmin(u) ==
  /\ u \in assigned
  /\ assigned' = assigned \ {u}
  /\ UNCHANGED <<vars, approved, handler>>

-----------------------------------------------------------------------------
(* Handlers: the check, and later the call of the service                  *)

\* Somebody presses an admin button of the deal: "Accept Deal", once both
\* parties agreed, or a button of the message about a reported payment.
Press(p, u, button) ==
  /\ Free(p)
  /\ IF button = "accept" THEN agreed = Parties ELSE reports # <<>>
  /\ GoOn(p, IF AuthorizedForDealAction(u) THEN button ELSE "refuse", u)
  /\ UNCHANGED <<vars, groupVars>>

\* Seeded fault: the group's approval is not looked up again.
MayTakeOnAnywhere(u) == acceptedBy = None /\ agreed = Parties /\ AuthorizedForGroup(u)
\* What the acceptance checks before it calls the service.
MayTakeOn(u) == approved /\ acceptedBy = None /\ agreed = Parties /\ AuthorizedForGroup(u)

AcceptChecks(p) ==
  /\ handler[p].does = "accept"
  /\ MayTakeOn(handler[p].for)
  /\ GoOn(p, "takeOn", handler[p].for)
  /\ UNCHANGED <<vars, groupVars>>

TakeOn(p) == handler[p].does = "takeOn" /\ AdminAccept(handler[p].for)
Confirm(p) == handler[p].does = "verify" /\ VerifyPayment(handler[p].for)
AskEvidence(p) == handler[p].does = "evidence" /\ RequestEvidence(handler[p].for)
AskReason(p) == handler[p].does = "reject" /\ AskRejectReason(handler[p].for)
Cancel(p) == handler[p].does = "cancel" /\ CancelRead(p, handler[p].for)

\* What follows a button that passed its checks.
Act(p) ==
  /\ TakeOn(p) \/ Confirm(p) \/ AskEvidence(p) \/ AskReason(p) \/ Cancel(p)
  /\ Finish(p)
  /\ UNCHANGED groupVars

PressCancel(p, u) ==
  /\ "cancel" \in TwoStepOps /\ Free(p)
  /\ AuthorizedToCancel(u)
  /\ GoOn(p, "cancel", u)
  /\ UNCHANGED <<vars, groupVars>>

\* The handler ends without a change: it answers "Unauthorized", a check or the
\* service refuses, or the instance is stopped.
Leave(p) ==
  /\ handler[p] # NoHandler
  /\ Finish(p)
  /\ UNCHANGED <<vars, groupVars>>

-----------------------------------------------------------------------------
(* Steps of the deal that ask for no admin's rights                        *)

\* The parties' buttons and the admin's text with the reason, or the admin's
\* turn to something else.
Answered ==
  /\ SomeFree
  /\ \/ \E u \in Users : AgreeToDeal(u) \/ ReportPayment(u)
     \/ \E a \in Admins : RejectPayment(a) \/ DropReason(a)

\* Unlocked operations begin on a free instance and then run to their end.  The
\* invitation of DealFlow is not one of them: no group takes part in it.
Ongoing(p) ==
  \/ handler[p] = NoHandler /\ (ExpireRead(p) \/ EvidenceRead(p))
  \/ CancelWrite(p) \/ ExpireWrite(p) \/ EvidenceWrite(p)
  \/ Crash(p)

OwnerCommand ==
  /\ SomeFree
  /\ AllowGroup \/ DisallowGroup \/ \E u \in Admins : AddAdmin(u) \/ RemoveAdmin(u)

Check(p) ==
  \/ \E u \in Users : PressCancel(p, u) \/ \E button \in Buttons : Press(p, u, button)
  \/ AcceptChecks(p)
  \/ Leave(p)

DealStep ==
  /\ Answered \/ DeadlinePasses \/ \E p \in Instances : Ongoing(p)
  /\ UNCHANGED <<groupVars, handler>>

AccessNext == OwnerCommand \/ (\E p \in Instances : Check(p) \/ Act(p)) \/ DealStep

AccessSpec == AccessInit /\ [][AccessNext]_accessVars
-----------------------------------------------------------------------------
(* Properties                                                              *)

\* The group's rows and the handlers under way hold values of their types.
AccessTypeOK ==
  /\ approved \in BOOLEAN
  /\ assigned \subseteq Admins
  /\ handler \in [Instances -> Handlers]

\* The handlers with their checks use the deal only as DealFlow describes it, so
\* that its guarantees hold whatever the owner does to the group meanwhile.
KeepsFlow == Spec

\* With one thread of control a deal is accepted, confirmed or cancelled for a
\* user who has the right to it at that very step, in a group that is approved
\* when the deal is accepted: no command of the owner comes in between.
ActsWithRights ==
  [][/\ acceptedBy' # acceptedBy => approved /\ AuthorizedForGroup(acceptedBy')
     /\ verifiedBy' \notin {None, verifiedBy} => AuthorizedForDealAction(verifiedBy')
     /\ \A p \in Instances :
          (call'[p].op = "cancel" /\ Idle(p)) => AuthorizedToCancel(call'[p].by)]_accessVars
=============================================================================
