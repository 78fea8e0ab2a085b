# Verification of the Telegram escrow bot

This directory holds TLA+ specifications of the bot in `src/`, the TLC
configurations that check them on small instances, and proofs that the TLA+
proof system checks for every value of the constants. `PROJECT.json` lists the
runs, the theorems, the seeded faults, the source lines behind every
definition and the hazards of the code.

## The system

The bot lets a buyer and a seller agree on a deal in a Telegram group; an
escrow admin of that group accepts it, receives the money *outside* the bot,
and confirms it. An older, custodial product (balances, ledger, deposits,
withdrawals) is still in the repository and partly reachable.

| Component | State | Operations | Interacts with |
|---|---|---|---|
| Deal status table (`lib/stateMachine.ts`) | none | `canTransition`, `getNextStates`, status sets | asked by every deal operation, not by all writes |
| Deal flow (`services/dealService.ts`, handlers in `bot/admin.ts`, `bot/index.ts`) | `deals` row, `payment_reports`, history rows, session slots for a rejection reason and for evidence | create, agree, accept, report, verify, reject, cancel, expire, evidence, join | status table, groups, group card |
| Settlement (`dealService.ts`, admin buttons) | released / refunded / remaining amounts, request columns, `disputes` row, history rows | request, answer, pay out, deliver, dispute, review, decide | status table |
| Custodial deal operations (`dealService.ts`: `fund`, `release`, `resolveDispute`) | deal row and balances | move locked money together with the status | treasury |
| Treasury and ledger | balances, ledger transactions and entries, idempotency keys | credit, lock, release, refund, reserve, reverse | deposit monitor, withdrawals, custodial deals |
| Withdrawals (`workers/withdrawal.ts`) | request rows, Bull queue, history rows | request, process, retry | treasury |
| Deposit monitor and addresses | deposits, last block (Redis) and time (memory) polled, address table | poll TRC20 and BEP20, record, confirm, credit | treasury, chains |
| Group authorization (`groupService.ts`) | approved groups, active admins per group | allow, disallow, add, remove, authorize | acceptance, the admin router |
| Deal form (`dealForm.ts`, `lib/flow.ts`) | form step, token, chat, expiry, target group in the session | start, advance, edit, restart, finish | creation, group card |
| Pending captures (`bot/index.ts`) | session slots waiting for a text or photo, one chat binding | arm, consume, drop | deal flow, settings |
| Group card (`dealForm.ts`) | group and message id on the deal, text last rendered | post, edit | every deal operation |
| Notifications (`notificationService.ts`) | messages with buttons in people's chats | tell the acceptor, the admins, the parties | deal flow, group card |
| Listings, settings, users, texts, startup | | | no deal state depends on them |

### What is hard in it

* **Unlocked read, later write.** `_lockDeal` operations run in one
  transaction with the row locked. `cancel`, `join`, `transition` and
  `openDispute` also say `FOR UPDATE`, but outside a transaction, so the lock
  is gone before the write; `expireDeals` and `submitEvidence` do not lock.
* **Two processes.** grammY's long polling handles one update after the other,
  so one process is one thread of control. `src/src/index.ts` describes that
  two processes are alive during a deploy and retries until the old one stops.
* **Answers of people.** A rejection reason, evidence or a button of an old
  message arrive when the deal has moved on.
* **Several rows per operation**: deal and dispute, deal and report, request
  columns and amounts; some in one transaction, some not.
* **Messages that may be lost.** A stored change, the card that shows it and the
  buttons for the next one are separate calls, and errors of Telegram are logged.
* **Chains and queues.** Polls overlap, fail in part and are restarted, blocks are
  replaced; the withdrawal job is retried, and a worker stops between two awaits.
* **Two tables of truth**: the transition table and the writes that skip it.

### What makes each component correct

* Deal flow: no payment before both agreements and an acceptance; one admin per
  deal, and only this admin's verdict; one verdict per report; the history
  records a payment once; a deal that ended stays as it is.
* Settlement: payouts fit in the principal; every payout on a request has the
  other party's consent to that request; a dispute freezes the deal;
  the history agrees with the columns; one decision per dispute.
* Treasury: no balance negative, balances equal the sum of ledger entries, each
  key executed once, the ledger nets to zero, and a transaction of several awaits
  is as if it had happened at once.
* Withdrawals: reserved money is paid out or returned, not both, also after a
  crash and a retry. Deposit monitor: each deposit on the chain is credited at
  most once, and once it is deep enough.
* Group authorization: acceptance by an admin of an approved group, at the time
  of the acceptance. Deal form: only the newest buttons act, in the chat of the
  form, and a deal is made only from the form's own answers. Captures: a
  text goes to the question it answers. Group card: it shows the deal, asks nobody to
  pay too early, and the verdict's buttons reach the acceptor and nobody else.

## Modules

| Module | Models | Proofs |
|---|---|---|
| `DealStateMachine` | the transition table and the status sets, as constant operators | used by the proof modules |
| `EscrowPromise` | abstract: what the group flow promises the parties | |
| `DealFlow` (`MCDealFlow` for TLC) | one deal from creation to PAYMENT_RECEIVED | `DealFlow_proofs` |
| `GroupAccess` | DealFlow together with the group's approval, its admins and the handlers that check them | `GroupAccess_proofs` |
| `GroupCard` | GroupAccess together with the card, the verdict's buttons and the messages that may be lost | `GroupCard_proofs` |
| `Settlement` | one FUNDED deal to its settlement | `Settlement_proofs` |
| `LedgerPromise` | abstract: what the ledger promises the operations that use it | |
| `Treasury` (`MCTreasury` for TLC) | balances, ledger, idempotency keys and the deals whose money they hold | `Treasury_proofs` |
| `Captures` | the questions the bot waits for one user to answer, and the chat they share | |
| `DealForm` | the form with its buttons, chat, target group and expiry, on top of `Captures` | `DealForm_proofs` |
| `DepositMonitor` | polls of two chains, deposits, cursors, credits | `DepositMonitor_proofs` |
| `PayoutPromise` | abstract: what a withdrawal promises the owner of the money | |
| `Withdrawal` (`MCWithdrawal` for TLC) | requests, reservation, queue, worker, history | `Withdrawal_proofs` |

**DealFlow.** Each column of the deal row a decision depends on is a variable.
`agreed` stands for the two agreement times, `expiresAt` for the deadline as
seen from now (none, running, past). Two further variables are not in the deal
row: `reports`, the `payment_reports` rows in order of creation, and `locks`,
the number of ESCROW_LOCK history rows. `rejecting` and `evidenceAsked` are
what the sessions and the messages in the chat let people do later. A
transaction with `_lockDeal` is one action; it needs an idle instance. An
unlocked operation is a Read and a Write action (`join` has two writes), and
`call[p]` holds what instance `p` is in the middle of and what it read. `Crash`
forgets the call. `RejectPayment` consumes the session slot even when the
service refuses, as the handler does. Buttons exist once their message was
sent: a verdict needs an earlier report, evidence needs an earlier request (an
assumption about the messages, see GroupCard). The
router's check that a user is an escrow admin is the constant `Admins`;
its change over time is in `GroupAccess`. The invitation path
(`join`) has a service method and a handler, but its command hands a single
character of the invitation to it; it is modelled because the service promises
it and `single` includes it. `expireDeals` has no caller in `src/`; it is
modelled as the sweep its comment describes.

**GroupAccess** extends DealFlow: every step of the deal is DealFlow's own
action, and the module adds when a user gets to it. `approved` is the row of
the deal's group in `group_authorizations`, `assigned` the active rows of
`group_admins`. A press of a button is a step of its own: the router compares
the user with `GlobalAdmins` and `assigned`, and `handler[p]` then holds who was
let through to what, until the instance goes on. Acceptance has a second step,
the checks of `acceptDealFromGroup`, before the call of `adminAccept`; `Leave`
is every way a handler ends without a change. The commands of the owner are one
step each (`/addadmin` reads the approval and writes the assignment in two
calls; nothing else decides on that pair). The text with a rejection reason, and the
buttons of the parties, ask for no rights and act at once. `Admins` is
now everyone who is or can become an admin. An instance runs one
handler or one unlocked operation at a time, and the owner's command needs a
free instance too. The session holds one reason at a time: `DropReason` is the
admin who starts a form, or presses Not Received on another deal, instead of answering.

**GroupCard** extends GroupAccess: every step of the deal and of the rights is
GroupAccess' own, and the module adds what is sent. `render[p]` is what an instance
still has to send for the handler it is in: post and record the card, read the row
again, edit the card with what it read (`seen`), and bring the verdict's buttons to
the acceptor. Any of these may fail or be the last thing the instance does
(`PostingFails`, `ShowFails`, `BreaksOff`). `card` is the status, the agreements and
whether the payment details are on it; `held` says who has the buttons, which a press of
Not Received takes away. `missed` records what was not shown, for the properties
only. A press needs no entry in `held` or `card`: old messages keep their buttons, and
the payer also reaches I've Paid from the view of the deal. The buttons of the verdict
(Payment Received, Not Received, Request Evidence) are assumed to exist only once a
payment was reported (`reports # <<>>` in DealFlow and GroupAccess): the bot puts them on
messages about a reported payment only (`bot/admin.ts:170`, `428`, `bot/index.ts:795`).
Neither the handler of Not Received (`bot/admin.ts:485-503`) nor `rejectPayment` checks
it, and the table lets an admin open payment from CREATED, so what is shown of
rejections rests on that assumption. An
expiry edits no card. Left out: the admins' message with an Accept button (the card has
the same button) and the one short text that replaces a cancelled card.

**Settlement.** `settled` and `paid` are functions from the kind of payout
(release or refund) to the amount in the deal's column and in the payment
history; `request` holds the six columns of the request of each kind. `call[p]`
is the database call an instance makes next: `deliver` and `review` are writes
of `transition`, `freeze` and `record` the two of `openDispute`, `open` and `ask`
the steps of the admin's review button. `consent` is a history variable: what the
other party last said yes to, voided by the next request; no action reads it. The
module is at the level of the service: the bot's router answers that
the deliver, release and refund buttons of parties are disabled, while the
admin's buttons and the dispute button still call the service. The initial
state is a row that is FUNDED, which only rows of the earlier flow are. Fees
are left out: they are computed from the amount and no decision depends on them.
No module models `escrow_audit_logs` and notifications (written, never
read by a decision).

**Treasury.** One asset; amounts are whole numbers and the fees of a deal part
of its terms. `balance` has two slots per account, `rows` says which accounts
have a row, `posted` counts the executions of each idempotency key, and `noted`
is the sum of an account's ledger entries. `CheckKey` is `checkIdempotency`,
outside the transaction. A transaction is two actions: one locks the
existing rows it reads and remembers what they held in `work[p]`, `Commit`
writes the values computed from it, posts the key and the entries, and sets the
deal's status. In between every other instance can act, except on locked rows;
the commit waits for the rows it writes, and fails when the key was posted.
`Effect` has the one place where the treasury's loop does to a balance
something else than its entry says, the FEE entry. A Prisma upsert on the unique
key overwrites a row that came into being meanwhile. There are two
implementations of the escrow operations: those of `treasuryService`, which know keys and no
status, and those of `dealService` (`fund`, `release`, `resolveDispute`), which lock the
deal as well; they are not mixed, so the constant `Api` chooses. The status
changes without money (`transition`, `cancel`, `expireDeals`) are a read and a
write. The manual settlement in use today (module Settlement) sets COMPLETED,
REFUNDED and RELEASED without touching a balance, and is left out here: it works on
deals that were paid outside the bot. `LedgerPromise` is the ledger as its callers
see it: an operation happens at once and at most once, its debits covered at that moment.
`Operations` lists what each key stands for, and `KeepsLedger` says that Treasury implements
it. Treasury lets `reverse` start only after `reserve`, as its caller does;
that the caller does is `UsesLedger` of Withdrawal. None of the escrow operations has a caller in `src/`; the
tests call those of the deal, and deposits and withdrawals use the rest.

**Captures.** `asked` has, for each kind of question (the `pending...` fields of the
session), the chat where it was put, and `bound` is `pendingFlowChatId`, which all
of them share. `Rank` is the order in which the text handler tries them. A
report or evidence the deal no longer waits for is dropped and the text goes on,
so `Reaches` and `PassText` say which questions must be out of date for a text to
arrive; whether they are is up to the deal and a free choice here. The session is stored
per user and the updates of a user are handled one after the other, so a whole
handler is one action.

**DealForm** adds the session's form fields. `data` keeps what decisions depend on
(payment method, asset, target group) and, for each step, the number of the form
in which it was last answered; this is how values left over from an
earlier form show. `token` counts the version tokens, which the code draws at random. Old
messages stay, so `buttons` only grows, and a button can be pressed in any
chat at any time. `expired` is `isFlowExpired`: the code stores the time of expiry and
adds the lifetime again, so it becomes true after two lifetimes (60 minutes, where
`lib/flow.ts` and the user documentation say 30). `StartDealForm` is every entry point;
`StartOver` is Restart and Edit, which clear the form first. Edit carries a
token nobody compares, so the Edit button of any old preview discards the form under way:
it begins a new one and so does not contradict `NeverRewinds`, but the documentation says
that old buttons never restart a flow. `ConfirmUnanswered` is a confirmation whose
deal is stored and whose session is not: grammY writes the session after the handler, and
not when the handler throws. `Configured` is the escrow group of the settings or else the
first approved one, as a constant. Which values a step accepts is left out (a refused
one is `OtherText`), and posting the card belongs to the group card.

**DepositMonitor.** Both chains grow together and a block number is also its time;
every transfer goes to a listed address of its own. `poll[p]` is one call of `poll`: its
part, from where on it asks, the latest block it knows of, what is left to look at, and
the transfer it is processing with what row and depth asked for. Asking the chain
and looking up the row are one step; the write follows in another, so that two polls
can both find a transfer new. `creditDeposit` is one step on the transfer's key, with
the check and the transaction folded (Treasury has them apart). `lastSeen` is lost in a
restart, `lastBlock` is not. Faults (`Fault`: a failed call, a restart, a reorganisation) are
bounded, and happen at any point. A chain answers with transfers that are in a block
(`AnswersTron`, `AnswersBsc`), also when the scan starts before its first one. A reorganisation never touches a block that is deep
enough. `passedBy` is a history variable: BEP20 transfers
the code is known not to look at again (before the first scan, outside the window of a
late one, moved by a reorganisation, or without a row after a failed first credit). TRC20 has more
such ways (a transfer between the request and `EndTron`, a failed record), and no property
says that TRC20 deposits arrive. Rows without an owner are unreachable, and that
all TRC20 transfers have log index 0 is left out.

**Withdrawal.** The awaits of `requestWithdrawal` (`call[p]`) and `processWithdrawal`
(`work[k]`) are actions, and the queue's job has a state of its own. `takes` says whether the
worker gets the jobs at all: the processor is registered for jobs named "withdrawal"
(`workers/withdrawal.ts:276`), and the jobs are added without a name, so as the
code stands none is processed; the model has both. The signer either pays or
fails without paying. `ReserveFails` and `WorkFails` include a ledger transaction that committed
and whose answer is lost. A worker that is alive keeps its job: the queue's double
delivery to a slow worker is not modelled. The treasury's part, one step each, is what
`LedgerPromise` allows (`UsesLedger`): Treasury implements that ledger and
Withdrawal uses it. A key is used once, so a request that
failed can never be repeated with the same amount and address (`Ask`).

**Seeded faults.** A definition under a comment "Seeded fault" is a plausible
mistake in the definition that follows it. No specification uses it;
`PROJECT.json` names, for each property, the fault that makes it fail.

## Runs

| Run | Instance | Shows |
|---|---|---|
| `overlap` | 2 processes, 2 admins, 2 reports, all unlocked operations but `join` | the locked operations keep agreement, acceptance, verdict and history consistent whatever overlaps |
| `single` | 1 process, 3 reports, all unlocked operations and `join` | status follows the reports, decided reports are frozen |
| `stale_cancel` | 2 processes | **violated**: a terminal status is final |
| `group` | 1 process, owner and 1 admin, 2 reports, all unlocked operations but `join`, any message lost | nobody acts on rights that were taken away; the card and the buttons never mislead, the card shows the deal unless its last update was lost, a reported payment can be decided; the whole implements `EscrowPromise` |
| `settle` | 1 process, amount 3 | payouts fit the principal and follow consent; history, dispute, with crashes |
| `treasury_overlap` | 2 processes, the treasury's own operations, all rows exist | no overdraft, no lost credit, no money made or lost, no key executed twice; implements `LedgerPromise` |
| `treasury_single` | 1 process, the deal's operations, 2 deals of one buyer, no rows at the start | status and locked balance agree with the money held |
| `treasury_first_row` | 2 processes, no rows at the start | **violated**: a balance is the sum of its entries |
| `form` | 1 group, private chat, 2 forms, 1 lost answer; report, rejection reason and setting asked in between | one deal per form, from its own answers; old buttons do not rewind it, an expired form is over, no report or evidence is asked for next to it |
| `deposit` | 2 polls, a transfer on each chain, 3 blocks, 1 fault | each deposit is credited once and for good, the block counter leaves none behind but those the code passes by, and the rest arrive |
| `deposit_trc20` | 1 poll, no fault | **violated**: a recorded TRC20 deposit is confirmed once deep enough |
| `withdraw` | 3 requests (two of one amount), 2 instances, 1 worker, 2 attempts, 1 fault | paid or returned, never both or twice; the ledger is used as `LedgerPromise` has it; history rows have a cause; provided that the worker gets the jobs (`takes`, which is false for the code as it stands), a fault strands at most one request |

Every property is written with a comment that names the code it is about.
Deadlock is checked in `group`, `form` and `deposit`, where the owner or the timer
can always act, and not in the other runs: a deal that ended has no next step, nor a
ledger whose keys are all executed, nor users who withdrew all, which is what they should do.

**One process and two.** `single`, `settle`, `group` and `treasury_single` have one process: they show what
late answers, crashes, lost messages and sequences of operations do, and nothing about two
instances in the middle of their awaits. `overlap`, `treasury_overlap` and `withdraw` have two,
`deposit` two overlapping polls, and the theorems that do not assume `OneThread` any number:
`PayoutsFitPrincipal`, `CompletionIsPaidOut` and `PayoutsFollowConsent` say of overlapping
instances what `settle` checks with one, and `LedgerReconciles` says of the deal's operations what
`treasury_overlap` checks of the treasury's. What only one thread guarantees is false
with two: `stale_cancel` shows one such case; in the others, too, a write follows a read that is
out of date. An instance writes evidence to a report the other decided meanwhile
(`DecidedReportsFrozen`), accepts for an admin whom the owner removes after the check
(`ActsWithRights`), moves a deal out of DISPUTED (`DisputeFreezes`) or cancels one that is funded in
between (`MoneyFollowsStatus`).

**Bounds.** `MaxReports` bounds the payment reports of a deal: with two, a
report is rejected and another follows, which every property about verdicts
and reports compares; the third of `single` lets a reason arrive after two
rounds. Two admins are an acceptor and somebody else
(in `group`, the owner and one whom the owner assigns and removes). Two instances are what a
deploy has, and one call in progress per instance is what a sequential thread
has. An amount of 3 has partial
payouts of unequal size and three in a row, and the theorems of Settlement cover
overlapping instances where that is true. A second form
is where buttons and values of the first are stale; the token is bounded by the forms
and their steps. A report, a rejection reason and a setting are one question of each
kind the form treats differently: one that closes it, one that stays open, one that is
asked again. In Treasury the deposits and the
withdrawal are those of the configuration: the buyer's deposit covers both deals, so that
the locked balance can be confused between them, and the seller has money from
two sources, so that two transactions meet on one row. In `deposit` the window is shorter than
three blocks, so that a scan can come too late; two confirmations of BEP20 leave room for a
record before the credit and a reorganisation between them, and one fault lets each failure happen at each
point. In `withdraw` two requests of one amount share the history, and the funds do not
cover all three. One worker is what the code starts; the proofs have any number. The safety
proofs hold without the bounds.

**Fairness.** `DepositMonitor` assumes weak fairness of each poll: the timer starts
one after the other for ever and a poll goes on with its loop, since calls return or
throw. It assumes none of the chains and none of the faults. `Withdrawal` assumes
weak fairness of an instance that is in the middle of a request, of the worker and of
the queue that hands out jobs and stalled jobs; users need not ask. The faults need no
fairness and are bounded, which is why liveness is stated up to them (`FaultStrandsOne` counts
them, `DepositsArrive` names `passedBy`). No other specification states fairness and
no liveness is claimed for deals: every step of a deal waits for a person, and the sweep that
would end one has no caller.

## What the violations show

* `stale_cancel`: `cancel` reads PAYMENT_REPORTED, the other process confirms
  the payment, and `cancel` writes CANCELLED over PAYMENT_RECEIVED, a change
  the table does not have (`lib/stateMachine.ts:5` says every change passes
  it). It needs two processes: `OneThreadKeepsEnding` proves the property
  with one.
* `treasury_first_row`: `FOR UPDATE` locks nothing where there is no row yet. Two
  first credits of a user both start from zero, and the second one overwrites the
  first. `LedgerReconciles` proves the property where the rows exist, and with one
  thread of control also where they do not.
* `deposit_trc20`: a TRC20 transfer in the latest block is seen with too few confirmations and recorded
  as PENDING. The next poll asks for newer transfers only, and `confirmPendingDeposits` asks for
  the confirmations of BEP20 rows and compares those stored for TRC20
  (`blockchainMonitor.ts:406`). The comment at 328-330 says the block number is fetched because
  such deposits "would stay PENDING forever".

Three more facts of the code that the models contain and no property forbids, as
the repository promises nothing else: an admin who was removed after Not Received
still sends the reason and rejects (`bot/index.ts:630`); after a
partial refund `confirmManualRelease` computes what remains without it, so the deal
goes on with an amount nobody can request (`dealService.ts:543`); and
`startDealForm` replaces the target group before it notices that a form is under way, so
its deal goes to the group of the last button (`dealForm.ts:274`).

## Proofs

`tlapm` checks all of them; nothing is assumed but the named assumptions on the
constants (`DealFlowAssumption`, `GroupAccessAssumption`, `SettlementAssumption`,
`TreasuryAssumption`, `FiniteAssumption`, `CapturesAssumption`, `DealFormAssumption`, `DepositAssumption`,
`WithdrawalAssumption`). `FiniteAssumption` says that a database has finitely many users,
deals, deposits and withdrawals.

`DealFlow_proofs`:

* `TypeCorrect` and `OneAcceptance` hold for `Spec` as it is.
* `AgreementComesFirst`, `OneReportPending`, `AcceptorConfirms`,
  `PaymentRecordedOnce` and `CompletionMatchesStatus` assume `NoJoin`, that the
  invitation path is not in use, as in the bot today. The properties are not
  inductive alone: a rejection moves to AWAITING_PAYMENT with only a table
  look-up, so the invariant (`FlowInv`, `HistoryInv`) adds that a rejection
  slot, a report and a deadline exist only after an acceptance, and that a stale
  write can only close a deal.
* `OneThreadKeepsTable`, `OneThreadKeepsEnding`, `OneThreadKeepsPromise`,
  `OneThreadFreezesReports` and `OneThreadStatusMatchesReports` assume `OneThread`:
  at most one instance. `ThreadInv` says that what a call read still holds
  when it writes, because nothing else takes a step in between but the clock.
  `OneThreadKeepsPromise` is the refinement of `EscrowPromise`: each step
  is an abstract step or a stutter.

`GroupAccess_proofs`:

* `AccessKeepsFlow`: each step of `AccessSpec` is a step of DealFlow or leaves
  the deal alone, for any number of instances. The step needs `OneThing`, that an
  instance with a handler is in no unlocked operation. Through it every
  theorem of DealFlow_proofs is one of the bot with its authorization;
  `AccessAgreementFirst` spells out one of them.
* `AccessTypeCorrect`: the rows of the group and the handlers keep their types.
* `OneThreadActsWithRights` assumes `OneThread`: `RightsInv` says that what a
  handler checked still holds, since the owner's commands need the one instance
  to be free. With two instances it does not hold: the checks are outside the
  transaction of `adminAccept`.

`GroupCard_proofs`:

* `CardKeepsAccess`: every step of `CardSpec` is a step of GroupAccess or leaves it alone, for
  any number of instances, and so of DealFlow: `CardActsWithRights` and
  `CardKeepsPromise` (one thread) follow.
* `CardTypeCorrect`, for `CardSpec` as it is.
* `NobodyMisled` assumes `NoJoin` and holds for any number of instances. The inductive
  invariant adds to it that the cards still to be sent are as truthful as the one in the group
  (what an old row allowed is still allowed, since agreements, acceptance and a verified
  report are never taken back), and the theorems of DealFlow on agreement and reports.
* `ReportsAreAnswerable` (`NoJoin`, any number of overlapping instances): `AnswerInv` adds to
  the property the report that an instance is still bringing to the acceptor.
* `OneThreadCardShowsDeal`: `FreshInv` says how far the one instance is with showing the deal,
  and every operation that changes what a card shows renders it next, with the payment
  details exactly when it leaves the deal waiting for the payment.

`Settlement_proofs`: `PayoutsFitPrincipal`
and `CompletionIsPaidOut` need no hypothesis on the instances. They are inductive together with `TypeOK` and
`RequestInv` (which relates the agreement in a row to `consent`): a release
compares with a limit that overlooks refunds, and is still covered since the
request was compared with the right one and only that request can be
paid. `PayoutsFollowConsent` follows: a stale write can bring a request back
but no other agreement. `OneThreadHistory`, `OneThreadDispute`, `OneThreadDisputeFreezes`,
`OneThreadCompletion` and `OneThreadKeepsTable` assume `OneThread`; `CallInv` says that what
a call of `transition`, `openDispute` or the review read still holds when it writes.

`Treasury_proofs`:

* `NoOverdraft` and `KeysExecutedOnce` hold for `Spec` as it is, missing rows and
  both interfaces included. `WorkInv` says that a transaction under way debits only
  what it read, and no more than it read; it writes absolute values, so what
  happened since cannot make the result negative.
* `MoneyIsConserved` holds for `Spec` as it is too: any number of instances, missing rows
  and lost credits. It compares sums over the accounts, the deposits and the
  withdrawals, so the module first proves what `SumFunctionOnSet` does on finite sets
  (`SumAdd`, `SumPlus`, `SumThree`). Induction comes without a number or an operator
  parameter: a set of subsets closed under adding an element holds the whole set, since
  otherwise there was a minimal one outside it (`SubsetInduction`). `OperationInv` is the
  strengthening: what a transaction under way will post is one of `Operations`, and
  `OperationNet` says what each of these brings into the system.
* `LedgerReconciles` and `TransactionsAreAtomic` assume `AllRows` or `OneThread`.
  `AllRows` is that every balance has its row and `refundEscrow` returns no fees; then
  `LockInv` says that what a transaction read is locked and unchanged, and that no two
  lock the same row. `OneThread` is one instance running the deal's operations, from
  missing rows. Either gives `FreshInv`: what a transaction read is still
  there when it commits. Without the rows the properties are false
  (`treasury_first_row`), and with fees returned by `refundEscrow` too: it
  has no caller, and debits the platform in the ledger and credits it in
  its balance (`Effect`). `TransactionsAreAtomic` is the refinement of
  `LedgerPromise`: a commit is one step of the ledger and nothing else is seen.
* `OneThreadMoneyFollowsStatus` assumes one instance and the operations of the deal.
  `ThreadInv` says that the status a transaction was started in still holds at its
  commit, and that a change without money does not cross the border between
  holding money and not. With two it is false: the `cancel` of
  `stale_cancel` does the same to a deal that is funded in between.
* `OneThreadLockedIsHeld`, under the same hypothesis: each commit moves the locked
  balance of the deal's buyer by what it adds to or takes from the sum of the deals held
  (`CommitKeepsHeld`), and no other step changes either.

`DepositMonitor_proofs`, all for `Spec` as it is, any number of polls, transfers, blocks and
faults: `TypeCorrect`, `CreditedOnce`, `CreditsAreFinal` and `CounterLeavesNothing`. The first
credit and the confirmation of a recorded row agree on one key, so a duplicate
means a credit; that a transfer being credited is deep enough is kept since deep blocks stay.
For the counter the invariant says of every poll under way that the blocks it will set
the counter to are looked at, recorded or still on its list.

`Withdrawal_proofs`, for any number of instances, workers, attempts and faults: `TypeCorrect`,
`SettledRowsHaveCause`, `WithdrawalKeepsPayout`, the refinement of `PayoutPromise`, and
`WithdrawalUsesLedger`, that of `LedgerPromise`. Their
invariant relates the status of a request, the executions of its two keys, the payment and
where its one call, job and worker are: the status BROADCASTING is what keeps
a retried job from paying again.

`DealForm_proofs`: `StepShape` says that every step closes, keeps, begins or advances the
form, and that a deal is made only of a fresh form that closes with it, or by a
step whose session was lost. All properties of `form` follow for any number of chats, forms and
lost answers. `DealInv` adds that an open form made no deal but the lost ones and
that forms not yet begun made none; `AssetInv` that USDT is decided with the payment
method and INR with the amount; `NextStepLater` is the order of the questions.

Only model-checked: the liveness properties `DepositsArrive` and `FaultStrandsOne`. Some properties are proved
and in no run, since the run would repeat the theorem: `ReceivedByAcceptor`, `CompletedIffTerminal`,
`AcceptanceIsFinal`, `StatusChangesAreTransitions`, `AssetFollowsMethod`, `KeepsFlow`, `CardTypeOK`,
`PostedOnce` (part of `KeepsLedger`). Outside the prover's reach: liveness, ENABLED, and RECURSIVE operators (the modules have none). The library's
induction theorems cannot be used, as they have an operator as a parameter; sums over finite
sets are proved as said above, without them.

## Not modelled

* Deposit addresses: key derivation and encoding have no state a model could hold, and
  their allocation is one insert with a unique key.
* Messages other than the card and the verdict's buttons, listings, user moderation, payment
  settings and texts: single reads and writes, and no property of a deal depends on them.
* Redis and Telegram themselves, the chains' nodes, the signer and the queue's
  internals: external, modelled by how the code uses them.
* The transactions shown to users and `escrow_audit_logs`, except the history rows of withdrawals and of
  settlements that a property is about: written, and read by no decision.
* `README.md` of the repository (240-245) calls the monitor and the withdrawal queue disabled
  legacy, while the Docker targets still start both workers; they are modelled as they run.
