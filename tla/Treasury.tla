------------------------------ MODULE Treasury ------------------------------
(***************************************************************************)
(* The balances and the ledger of the custodial product, in one asset      *)
(* (src/services/treasuryService.ts), and the operations of a deal that    *)
(* move money together with its status (fund, release and resolveDispute   *)
(* of src/services/dealService.ts).                                        *)
(*                                                                         *)
(* A transaction locks the balance rows it reads and writes back absolute  *)
(* values.  It is two actions, one that locks and reads and one that       *)
(* writes and commits, so that other transactions can come in between: a   *)
(* row that does not exist yet cannot be locked.                           *)
(***************************************************************************)
EXTENDS DealStateMachine, Integers, FiniteSetsExt

CONSTANTS
  Users,        \* owners of balances, without the platform
  House,        \* HOUSE_USER_ID
  Opened,       \* accounts that have a balance row from the start
  Deals,        \* funded deals, with their Terms
  Deposits,     \* deposits seen on a chain, with Incoming
  Withdrawals,  \* withdrawal requests, with Outgoing
  Terms, Incoming, Outgoing,
  Instances,    \* processes that run transactions at the same time
  None,         \* no status
  Api,          \* whose escrow operations are in use: "deal" or "treasury"
  RefundsFee    \* BUYER_FEE_REFUND_ON_REFUND

Accounts == Users \cup {House}

ASSUME TreasuryAssumption ==
  /\ House \notin Users
  /\ Opened \subseteq Accounts
  /\ Terms \in [Deals -> [buyer : Users, seller : Users, amount : Nat \ {0},
                          buyerFee : Nat, sellerFee : Nat]]
  /\ \A d \in Deals : Terms[d].buyer # Terms[d].seller /\ Terms[d].sellerFee < Terms[d].amount
  /\ Incoming \in [Deposits -> [user : Users, amount : Nat \ {0}]]
  /\ Outgoing \in [Withdrawals -> [user : Users, amount : Nat \ {0}]]
  /\ None \notin Status
  /\ Api \in {"deal", "treasury"}
  /\ RefundsFee \in BOOLEAN

\* The rows of a database.
ASSUME FiniteAssumption ==
  IsFiniteSet(Users) /\ IsFiniteSet(Deals) /\ IsFiniteSet(Deposits) /\ IsFiniteSet(Withdrawals)

VARIABLES
  rows,      \* accounts with a row in balances
  balance,   \* available and locked of each account, 0 without a row
  posted,    \* number of ledger transactions with each idempotency key
  noted,     \* sum of the ledger entries of each account
  status,    \* deals.status
  work       \* the transaction or status change each instance is in

vars == <<rows, balance, posted, noted, status, work>>

-----------------------------------------------------------------------------
(* Ledger entries                                                          *)

Slots == {<<a, c>> : a \in Accounts, c \in {"available", "locked"}}
Available(a) == <<a, "available">>
Locked(a) == <<a, "locked">>
Total(a) == balance[Available(a)] + balance[Locked(a)]

EscrowKeys == {<<k, d>> : k \in {"fund", "release", "refund"}, d \in Deals}
DepositKeys == {<<"deposit", d>> : d \in Deposits}
WithdrawalKeys == {<<k, w>> : k \in {"reserve", "reverse"}, w \in Withdrawals}
Keys == EscrowKeys \cup DepositKeys \cup WithdrawalKeys

NoEntries == [s \in Slots |-> 0]

\* Entries as the sum per balance they are meant for.
FundEntries(t) ==
  [NoEntries EXCEPT ![Available(t.buyer)] = -(t.amount + t.buyerFee),
                    ![Locked(t.buyer)] = t.amount,
                    ![Available(House)] = t.buyerFee]
ReleaseEntries(t) ==
  [NoEntries EXCEPT ![Locked(t.buyer)] = -t.amount,
                    ![Available(t.seller)] = t.amount - t.sellerFee,
                    ![Available(House)] = t.sellerFee]
RefundEntries(t, fee) ==
  [NoEntries EXCEPT ![Locked(t.buyer)] = -t.amount,
                    ![Available(t.buyer)] = t.amount + fee,
                    ![Available(House)] = -fee]
PaymentEntries(user, amount) == [NoEntries EXCEPT ![Available(user)] = amount]

\* What an entry does to its balance.  The treasury's loop credits a FEE entry,
\* which is an entry of the platform, by its absolute value.
Effect(e) ==
  [s \in Slots |-> IF Api = "treasury" /\ s = Available(House) /\ e[s] < 0 THEN -e[s] ELSE e[s]]

Touched(e) == {a \in Accounts : e[Available(a)] # 0 \/ e[Locked(a)] # 0}

-----------------------------------------------------------------------------
(* Transactions                                                            *)

\* What an instance remembers between reading and writing: the key of the
\* ledger transaction and its entries, the accounts it read and what they held,
\* the rows it keeps locked, and the status the deal gets.
NoWork == [key |-> <<"none", None>>, entries |-> NoEntries, reads |-> {},
           seen |-> NoEntries, locks |-> {}, to |-> None]

Idle(p) == work[p] = NoWork
Checked(p, key) == work[p] = [NoWork EXCEPT !.key = key]
End(p) == work' = [work EXCEPT ![p] = NoWork]
FreeFor(p, accounts) == \A q \in Instances \ {p} : work[q].locks \cap accounts = {}
DealFree(p, d) ==
  \A q \in Instances \ {p} : work[q].key \notin {<<"fund", d>>, <<"release", d>>, <<"refund", d>>}

\* Seeded fault: only debits of locked balances are checked.
CoveredLocked(e) ==
  ~\E a \in Accounts : Effect(e)[Locked(a)] < 0 /\ balance[Locked(a)] + Effect(e)[Locked(a)] < 0
\* Every debit is covered by what was read.
Covered(e) == ~\E s \in Slots : Effect(e)[s] < 0 /\ balance[s] + Effect(e)[s] < 0

\* Seeded fault: the row lock is forgotten.
LockAndReadUnlocked(p, key, e, reads, to) ==
  /\ Covered(e)
  /\ work' = [work EXCEPT ![p] =
       [key |-> key, entries |-> e, reads |-> reads,
        seen |-> [s \in Slots |-> IF s[1] \in reads THEN balance[s] ELSE 0],
        locks |-> {}, to |-> to]]
\* SELECT ... FOR UPDATE of the balances.
LockAndRead(p, key, e, reads, to) ==
  /\ FreeFor(p, reads)
  /\ Covered(e)
  /\ work' = [work EXCEPT ![p] =
       [key |-> key, entries |-> e, reads |-> reads,
        seen |-> [s \in Slots |-> IF s[1] \in reads THEN balance[s] ELSE 0],
        locks |-> reads \cap rows, to |-> to]]

\* checkIdempotency, before the transaction and without a lock; the escrow
\* operations of the treasury call ensureHouseAccount first.  The worker asks
\* for the reversal of what was reserved.
CheckKey(p, key) ==
  /\ Idle(p)
  /\ key \in EscrowKeys => Api = "treasury"
  /\ \A w \in Withdrawals : key = <<"reverse", w>> => posted[<<"reserve", w>>] > 0
  /\ posted[key] = 0
  /\ rows' = IF key \in EscrowKeys THEN rows \cup {House} ELSE rows
  /\ work' = [work EXCEPT ![p].key = key]
  /\ UNCHANGED <<balance, posted, noted, status>>

\* The transaction of an operation of the treasury.
Lock(p, key, e, reads) ==
  /\ Checked(p, key)
  /\ LockAndRead(p, key, e, reads, None)
  /\ UNCHANGED <<rows, balance, posted, noted, status>>

CreditDeposit(p, d) ==
  Lock(p, <<"deposit", d>>, PaymentEntries(Incoming[d].user, Incoming[d].amount),
       {Incoming[d].user})
ReserveWithdrawal(p, w) ==
  Lock(p, <<"reserve", w>>, PaymentEntries(Outgoing[w].user, -Outgoing[w].amount),
       {Outgoing[w].user})
ReverseWithdrawal(p, w) ==
  Lock(p, <<"reverse", w>>, PaymentEntries(Outgoing[w].user, Outgoing[w].amount),
       {Outgoing[w].user})

\* The escrow operations of the treasury know keys, but no deal status.
FundEscrow(p, d) ==
  Lock(p, <<"fund", d>>, FundEntries(Terms[d]), {Terms[d].buyer, House})
ReleaseEscrow(p, d) ==
  Lock(p, <<"release", d>>, ReleaseEntries(Terms[d]), {Terms[d].buyer, Terms[d].seller, House})
RefundEscrow(p, d) ==
  LET fee == IF RefundsFee THEN Terms[d].buyerFee ELSE 0 IN
  Lock(p, <<"refund", d>>, RefundEntries(Terms[d], fee),
       {Terms[d].buyer} \cup IF fee > 0 THEN {House} ELSE {})

-----------------------------------------------------------------------------
(* Escrow operations of the deal: ledger and status in one transaction     *)

DealEscrow(p, d, from, key, e, reads, to) ==
  /\ Api = "deal" /\ Idle(p)
  /\ DealFree(p, d)
  /\ status[d] = from
  /\ LockAndRead(p, key, e, reads, to)
  /\ UNCHANGED <<rows, balance, posted, noted, status>>

\* The platform's balance is not read here: its fee is added when it is written.
Fund(p, d) ==
  DealEscrow(p, d, "AWAITING_FUNDING", <<"fund", d>>, FundEntries(Terms[d]),
             {Terms[d].buyer}, "FUNDED")

ReleaseFrom(p, d, from, to) ==
  /\ posted[<<"release", d>>] = 0
  /\ DealEscrow(p, d, from, <<"release", d>>, ReleaseEntries(Terms[d]),
                {Terms[d].buyer, Terms[d].seller, House}, to)

Release(p, d) == ReleaseFrom(p, d, "DELIVERED", "COMPLETED")

\* The admin's decision on a dispute.
DecideRelease(p, d) == ReleaseFrom(p, d, "UNDER_REVIEW", "RELEASED")

\* The buyer's fee is returned as far as the platform's balance allows it.
FeeBack(d) ==
  IF RefundsFee /\ balance[Available(House)] >= Terms[d].buyerFee THEN Terms[d].buyerFee ELSE 0

\* Seeded fault: the refund does not end the deal.
DecideRefundStatusKept(p, d) ==
  /\ posted[<<"refund", d>>] = 0
  /\ DealEscrow(p, d, "UNDER_REVIEW", <<"refund", d>>, RefundEntries(Terms[d], FeeBack(d)),
                {Terms[d].buyer, House}, None)
DecideRefund(p, d) ==
  /\ posted[<<"refund", d>>] = 0
  /\ DealEscrow(p, d, "UNDER_REVIEW", <<"refund", d>>, RefundEntries(Terms[d], FeeBack(d)),
                {Terms[d].buyer, House}, "REFUNDED")

-----------------------------------------------------------------------------
(* Writing and commit                                                      *)

\* Accounts whose rows are upserted.  Funding and release write the platform's
\* row although its fee is zero.
Upserted(w) ==
  Touched(w.entries) \cup IF w.key[1] \in {"fund", "release"} THEN {House} ELSE {}

\* The treasury's loop writes both columns of an account, the others only those
\* that changed.
Writes(w) ==
  {s \in Slots : IF w.key \in EscrowKeys /\ Api = "treasury" THEN s[1] \in Upserted(w)
                 ELSE w.entries[s] # 0}

\* Absolute values for the accounts that were read, an increment for others.
Written(w, s) == Effect(w.entries)[s] + IF s[1] \in w.reads THEN w.seen[s] ELSE balance[s]

Posting(p, w) ==
  /\ FreeFor(p, Upserted(w))
  /\ rows' = rows \cup Upserted(w)
  /\ balance' = [s \in Slots |-> IF s \in Writes(w) THEN Written(w, s) ELSE balance[s]]
  /\ posted' = [posted EXCEPT ![w.key] = @ + 1]
  /\ noted' = [a \in Accounts |-> noted[a] + w.entries[Available(a)] + w.entries[Locked(a)]]
  /\ status' = IF w.to = None THEN status ELSE [status EXCEPT ![w.key[2]] = w.to]
  /\ End(p)

\* Seeded fault: the idempotency key has no unique index.
CommitAnyKey(p) == work[p].reads # {} /\ Posting(p, work[p])
\* The unique index on the key refuses a second transaction.
Commit(p) == work[p].reads # {} /\ posted[work[p].key] = 0 /\ Posting(p, work[p])

\* A check, a constraint or a deadlock ends the transaction, or the instance stops.
Rollback(p) ==
  /\ ~Idle(p)
  /\ End(p)
  /\ UNCHANGED <<rows, balance, posted, noted, status>>

-----------------------------------------------------------------------------
(* Status changes without money: transition, cancel and expireDeals read   *)
(* the deal and write it by its id later.  The first two wait for its row  *)
(* but lock it for the length of the query only.                           *)

Moves == {"IN_PROGRESS", "DELIVERED", "RELEASE_PENDING", "DISPUTED", "UNDER_REVIEW", "CANCELLED"}

\* Seeded fault: a funded deal can be cancelled.
MayBecomeCancelled(d, to) == to = "CANCELLED" \/ \E by \in Roles : CanTransition(status[d], to, by)
MayBecome(d, to) ==
  \/ to \in Moves /\ \E by \in Roles : CanTransition(status[d], to, by)
  \/ to = "EXPIRED" /\ status[d] \in ExpirableStates

ReadStatus(p, d, to) ==
  /\ Api = "deal" /\ Idle(p)
  /\ to # "EXPIRED" => DealFree(p, d)
  /\ MayBecome(d, to)
  /\ work' = [work EXCEPT ![p] = [NoWork EXCEPT !.key = <<"status", d>>, !.to = to]]
  /\ UNCHANGED <<rows, balance, posted, noted, status>>

WriteStatus(p, d) ==
  /\ work[p].key = <<"status", d>>
  /\ DealFree(p, d)
  /\ status' = [status EXCEPT ![d] = work[p].to]
  /\ End(p)
  /\ UNCHANGED <<rows, balance, posted, noted>>

-----------------------------------------------------------------------------

Init ==
  /\ rows = Opened
  /\ balance = NoEntries
  /\ posted = [k \in Keys |-> 0]
  /\ noted = [a \in Accounts |-> 0]
  /\ status = [d \in Deals |-> "AWAITING_FUNDING"]
  /\ work = [p \in Instances |-> NoWork]

Step(p) ==
  \/ \E key \in Keys : CheckKey(p, key)
  \/ \E d \in Deposits : CreditDeposit(p, d)
  \/ \E w \in Withdrawals : ReserveWithdrawal(p, w) \/ ReverseWithdrawal(p, w)
  \/ \E d \in Deals :
       \/ FundEscrow(p, d) \/ ReleaseEscrow(p, d) \/ RefundEscrow(p, d)
       \/ Fund(p, d) \/ Release(p, d) \/ DecideRelease(p, d) \/ DecideRefund(p, d)
       \/ \E to \in Moves \cup {"EXPIRED"} : ReadStatus(p, d, to)
       \/ WriteStatus(p, d)
  \/ Commit(p)
  \/ Rollback(p)

Next == \E p \in Instances : Step(p)

Spec == Init /\ [][Next]_vars
-----------------------------------------------------------------------------
(* Properties                                                              *)

\* Balances, ledger and work hold values of their types; no balance is ever
\* negative, whatever overlaps, since every debit is checked on a locked row.
TypeOK ==
  /\ rows \subseteq Accounts
  /\ balance \in [Slots -> Nat]
  /\ posted \in [Keys -> Nat]
  /\ noted \in [Accounts -> Int]
  /\ status \in [Deals -> Status]
  /\ work \in [Instances ->
       [key : Keys \cup {<<"none", None>>} \cup {<<"status", d>> : d \in Deals},
        entries : [Slots -> Int], reads : SUBSET Accounts, seen : [Slots -> Nat],
        locks : SUBSET Accounts, to : Status \cup {None}]]

\* The balance of every account is the sum of its ledger entries, what
\* reconcileUserBalances and reconcilePlatformFees look for.
Reconciles == \A a \in Accounts : Total(a) = noted[a]

\* No idempotency key is executed twice, also when two processes pass the check
\* of the key together.
PostedOnce == \A k \in Keys : posted[k] <= 1

Done(k) == posted[k] > 0
IncomingAmount == [d \in Deposits |-> Incoming[d].amount]
OutgoingAmount == [w \in Withdrawals |-> Outgoing[w].amount]
\* The ledger nets to zero: money enters with deposits and leaves with
\* withdrawals that were not reversed, and no fee or payout is made of nothing.
Conserved ==
  SumFunctionOnSet(noted, Accounts)
    = SumFunctionOnSet(IncomingAmount, {d \in Deposits : Done(<<"deposit", d>>)})
      - SumFunctionOnSet(OutgoingAmount, {w \in Withdrawals : Done(<<"reserve", w>>)})
      + SumFunctionOnSet(OutgoingAmount, {w \in Withdrawals : Done(<<"reverse", w>>)})

HoldingStates ==
  {"FUNDED", "IN_PROGRESS", "DELIVERED", "RELEASE_PENDING", "DISPUTED", "UNDER_REVIEW"}
Held(d) == Done(<<"fund", d>>) /\ ~Done(<<"release", d>>) /\ ~Done(<<"refund", d>>)

\* With one thread of control the status of a deal says whether its money is
\* held: it was funded, and neither released nor refunded, and never both.
MoneyFollowsStatus ==
  \A d \in Deals :
    /\ Held(d) <=> status[d] \in HoldingStates
    /\ ~(Done(<<"release", d>>) /\ Done(<<"refund", d>>))

DealAmount == [d \in Deals |-> Terms[d].amount]
\* With one thread of control the locked balance of a user is the sum of the
\* deals whose status says they are funded: none lives on another's money.
LockedIsHeld ==
  \A u \in Users :
    balance[Locked(u)] =
      SumFunctionOnSet(DealAmount, {d \in Deals : Terms[d].buyer = u /\ status[d] \in HoldingStates})

\* What each key of the ledger stands for; a refund returns the buyer's fee or not.
Operations ==
  {<<<<"deposit", d>>, PaymentEntries(Incoming[d].user, Incoming[d].amount)>> : d \in Deposits}
    \cup {<<<<"reserve", w>>, PaymentEntries(Outgoing[w].user, -Outgoing[w].amount)>>
            : w \in Withdrawals}
    \cup {<<<<"reverse", w>>, PaymentEntries(Outgoing[w].user, Outgoing[w].amount)>>
            : w \in Withdrawals}
    \cup {<<<<"fund", d>>, FundEntries(Terms[d])>> : d \in Deals}
    \cup {<<<<"release", d>>, ReleaseEntries(Terms[d])>> : d \in Deals}
    \cup UNION {{<<<<"refund", d>>, RefundEntries(Terms[d], fee)>> : fee \in {0, Terms[d].buyerFee}}
                  : d \in Deals}

Ledger == INSTANCE LedgerPromise WITH
  Opening <- NoEntries,
  Reversals <- {<<<<"reverse", w>>, <<"reserve", w>>>> : w \in Withdrawals},
  executed <- {k \in Keys : Done(k)}

\* Where every balance has its row, or with one thread of control, a transaction
\* of several awaits is one step of the ledger, whatever other transactions do
\* in between: its debits are covered when it commits and no entry is lost.
KeepsLedger == Ledger!Spec
=============================================================================
