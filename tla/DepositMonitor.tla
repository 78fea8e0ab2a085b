---------------------------- MODULE DepositMonitor ----------------------------
(***************************************************************************)
(* The monitor that credits USDT sent to the bot's deposit addresses       *)
(* (src/services/blockchainMonitor.ts): it polls TRON by time and BSC by   *)
(* block number, records transfers with too few confirmations and looks    *)
(* the recorded ones up again.  A tick of its timer starts a poll even     *)
(* while earlier polls still run.                                          *)
(*                                                                         *)
(* Every transfer goes to an address of its own that is in the address     *)
(* table.  Both chains grow together, and the number of a block is also    *)
(* its time.                                                               *)
(***************************************************************************)
EXTENDS Integers, FiniteSets

CONSTANTS
  Trc20, Bep20,          \* transfers on TRON and on BSC
  Polls,                 \* polls that can run at the same time
  None,
  TrcConfs, BepConfs,    \* getMinConfirmations
  TrcLookback,           \* how far the first TRON poll of a process looks back
  BepLookback,           \* how far the first BSC poll looks back
  Window,                \* the largest number of blocks one BSC poll looks back
  Batch,                 \* recorded transfers one poll looks up again
  MaxBlock,              \* bound: blocks
  MaxFaults              \* bound: failed calls, restarts and reorganisations

Transfers == Trc20 \cup Bep20

ASSUME DepositAssumption ==
  /\ Trc20 \cap Bep20 = {}
  /\ None \notin Transfers \cup {"PENDING", "CONFIRMED"}
  /\ {TrcConfs, BepConfs} \subseteq Nat \ {0}
  /\ {TrcLookback, BepLookback, Window, Batch, MaxBlock, MaxFaults} \subseteq Nat

VARIABLES
  head,       \* the latest block
  block,      \* the block a transfer is in, 0 when the chain does not have it
  row,        \* status of the transfer's row in blockchain_deposits
  times,      \* executions of the ledger key of the transfer
  lastSeen,   \* lastPollTimestamp of TRC20, in memory
  lastBlock,  \* BEP20:lastBlock, in Redis
  poll,       \* what each poll is doing
  passedBy,   \* history: BEP20 transfers the monitor does not look at again
  faults

chain == <<head, block>>
books == <<row, times>>
cursors == <<lastSeen, lastBlock>>
vars == <<chain, books, cursors, poll, passedBy, faults>>

-----------------------------------------------------------------------------
(* The chains                                                              *)

RequiredConfs(t) == IF t \in Trc20 THEN TrcConfs ELSE BepConfs

OnChain(t) == block[t] > 0
Deep(t, at) == OnChain(t) /\ at - block[t] >= RequiredConfs(t)

NewBlock ==
  /\ head < MaxBlock
  /\ head' = head + 1
  /\ \E included \in SUBSET {t \in Transfers : ~OnChain(t)} :
       block' = [t \in Transfers |-> IF t \in included THEN head + 1 ELSE block[t]]
  /\ UNCHANGED <<books, cursors, poll, passedBy, faults>>

\* At most MaxFaults times something goes wrong.
Fault == faults < MaxFaults /\ faults' = faults + 1

\* A BEP20 transfer without a row stays without one.
PassBy(t) == passedBy \cup {u \in Bep20 : u = t /\ row[u] = None}

\* The latest blocks are replaced: a transfer in them drops out, or appears in
\* another block that the scan may have behind it.  Blocks that are deep enough
\* are never replaced.
Reorganise(t) ==
  /\ Fault
  /\ OnChain(t) /\ ~Deep(t, head)
  /\ \E b \in (0 .. head) \ {block[t]} :
       /\ b = 0 \/ head - b < RequiredConfs(t)
       /\ block' = [block EXCEPT ![t] = b]
       /\ passedBy' = IF b > 0 THEN PassBy(t) ELSE passedBy
  /\ UNCHANGED <<head, books, cursors, poll>>

-----------------------------------------------------------------------------
(* A poll                                                                  *)

\* after: the block from which on it asks; mark: the latest block it knows of;
\* todo: transfers whose address, or recorded row, is still to be looked at;
\* item: the transfer being processed, and what its row and depth asked for.
Parts == {"idle", "tron", "toBsc", "bsc", "toPending", "pending"}
PollRecord == [at : Parts, after : Int, mark : Nat, todo : SUBSET Transfers,
               item : Transfers \cup {None}, does : {"look", "record", "credit", "confirm"}]
Idle == [at |-> "idle", after |-> 0, mark |-> 0, todo |-> {}, item |-> None, does |-> "look"]

\* No poll of the process, or of any process, has set the cursor.
Never == -1

\* The block counter may come from an earlier time, after which nobody polled.
Init ==
  /\ head = 1
  /\ block \in [Transfers -> 0 .. 1]
  /\ row = [t \in Transfers |-> None]
  /\ times = [t \in Transfers |-> 0]
  /\ lastSeen = Never /\ lastBlock \in {Never, 0}
  /\ poll = [p \in Polls |-> Idle]
  /\ passedBy = {}
  /\ faults = 0

Begin(p, at, after, mark, todo) ==
  poll' = [poll EXCEPT ![p] =
    [at |-> at, after |-> after, mark |-> mark, todo |-> todo, item |-> None, does |-> "look"]]
Goto(p, at) == poll' = [poll EXCEPT ![p] = [Idle EXCEPT !.at = at]]
Looking(p, at) == poll[p].at = at /\ poll[p].item = None
AllDone(p, at) == Looking(p, at) /\ poll[p].todo = {}

\* The transfer t is next, and its row and depth say what to do about it.
Take(p, t, does) ==
  poll' = [poll EXCEPT ![p].todo = @ \ {t}, ![p].item = t, ![p].does = does]
Skip(p, t) == poll' = [poll EXCEPT ![p].todo = @ \ {t}]
Done(p) == poll' = [poll EXCEPT ![p].item = None, ![p].does = "look"]

-----------------------------------------------------------------------------
(* TRON                                                                    *)

BeginTron(p) ==
  /\ poll[p].at = "idle"
  /\ Begin(p, "tron", IF lastSeen = Never THEN head - TrcLookback ELSE lastSeen, head, Trc20)
  /\ UNCHANGED <<chain, books, cursors, passedBy, faults>>

\* Seeded fault: the time of the next block is noted.
EndTronAhead(p) ==
  /\ AllDone(p, "tron")
  /\ lastSeen' = head + 1
  /\ Goto(p, "toBsc")
  /\ UNCHANGED <<chain, books, lastBlock, passedBy, faults>>
\* Transfers that got into a block after their address was asked for are behind
\* the time that is set here.
EndTron(p) ==
  /\ AllDone(p, "tron")
  /\ lastSeen' = head
  /\ Goto(p, "toBsc")
  /\ UNCHANGED <<chain, books, lastBlock, passedBy, faults>>

-----------------------------------------------------------------------------
(* BSC                                                                     *)

\* Blocks a poll that knows of block mark asks for.
Scanned(b, after, mark) == b > after /\ b >= mark - Window /\ b <= mark

BeginBsc(p) ==
  LET after == IF lastBlock = Never THEN head - BepLookback - 1 ELSE lastBlock IN
  /\ poll[p].at = "toBsc"
  /\ Begin(p, "bsc", after, head, Bep20)
  /\ passedBy' = passedBy \cup
       {t \in Bep20 : OnChain(t) /\ row[t] = None /\ block[t] > lastBlock
                        /\ ~Scanned(block[t], after, head)}
  /\ UNCHANGED <<chain, books, cursors, faults>>

\* Seeded fault: the counter is set to the latest block, asked for once more.
EndBscHead(p) ==
  /\ AllDone(p, "bsc")
  /\ lastBlock' = head
  /\ Goto(p, "toPending")
  /\ UNCHANGED <<chain, books, lastSeen, passedBy, faults>>
EndBsc(p) ==
  /\ AllDone(p, "bsc")
  /\ lastBlock' = poll[p].mark
  /\ Goto(p, "toPending")
  /\ UNCHANGED <<chain, books, lastSeen, passedBy, faults>>

-----------------------------------------------------------------------------
(* processDeposit                                                          *)

\* What the row and the depth of a transfer ask for.
Wanted(status, deep) ==
  CASE status = "CONFIRMED"            -> "nothing"
    [] status = "PENDING" /\ deep      -> "confirm"
    [] status = "PENDING" /\ ~deep     -> "nothing"
    [] status = None /\ deep           -> "credit"
    [] status = None /\ ~deep          -> "record"

Process(p, t, status, deep) ==
  IF Wanted(status, deep) = "nothing" THEN Skip(p, t) ELSE Take(p, t, Wanted(status, deep))

\* A chain answers only with transfers that are in a block: TRON with those since
\* a time, BSC with those of a range of blocks.
AnswersTron(p, t) == OnChain(t) /\ block[t] > poll[p].after
AnswersBsc(p, t) == OnChain(t) /\ Scanned(block[t], poll[p].after, poll[p].mark)

\* The address of t is asked for: the chain answers with t, or without it.  TRON's
\* depth is that at the beginning of the poll.
LookTron(p, t) ==
  /\ Looking(p, "tron") /\ t \in poll[p].todo
  /\ IF AnswersTron(p, t)
     THEN Process(p, t, row[t], Deep(t, poll[p].mark))
     ELSE Skip(p, t)
  /\ UNCHANGED <<chain, books, cursors, passedBy, faults>>

LookBsc(p, t) ==
  /\ Looking(p, "bsc") /\ t \in poll[p].todo
  /\ IF AnswersBsc(p, t)
     THEN Process(p, t, row[t], Deep(t, head))
     ELSE Skip(p, t)
  /\ UNCHANGED <<chain, books, cursors, passedBy, faults>>

\* The look-up of the row fails and counts as none, or TRON's block number of
\* the transfer is not to be had and it counts as not confirmed at all.
LookBadly(p, t) ==
  /\ Fault
  /\ t \in poll[p].todo
  /\ \/ Looking(p, "tron") /\ AnswersTron(p, t)
     \/ Looking(p, "bsc") /\ AnswersBsc(p, t)
  /\ \/ Process(p, t, None, Deep(t, IF t \in Trc20 THEN poll[p].mark ELSE head))
     \/ t \in Trc20 /\ Process(p, t, row[t], FALSE)
  /\ UNCHANGED <<chain, books, cursors, passedBy>>

\* The upsert leaves the status of a row that is there meanwhile as it is.
Record(p) ==
  LET t == poll[p].item IN
  /\ poll[p].does = "record"
  /\ row' = [row EXCEPT ![t] = IF @ = None THEN "PENDING" ELSE @]
  /\ Done(p)
  /\ UNCHANGED <<chain, times, cursors, passedBy, faults>>

\* The ledger transaction of creditDeposit, which writes the row as well; its key
\* is executed once.
Executed(t) == IF times[t] = 0 THEN [times EXCEPT ![t] = 1] ELSE times

\* Seeded fault: a new transfer is credited without looking at the key.
CreditTwice(p) ==
  LET t == poll[p].item IN
  /\ poll[p].does = "credit"
  /\ times' = [times EXCEPT ![t] = @ + 1]
  /\ row' = [row EXCEPT ![t] = "CONFIRMED"]
  /\ Done(p)
  /\ UNCHANGED <<chain, cursors, passedBy, faults>>
\* A transfer without a row, or which had none when it was looked up.
Credit(p) ==
  LET t == poll[p].item IN
  /\ poll[p].does = "credit"
  /\ times' = Executed(t)
  /\ row' = [row EXCEPT ![t] = IF times[t] = 0 THEN "CONFIRMED" ELSE @]
  /\ Done(p)
  /\ UNCHANGED <<chain, cursors, passedBy, faults>>

\* A recorded transfer: a duplicate of the key also confirms the row.
ConfirmAndCredit(p) ==
  LET t == poll[p].item IN
  /\ poll[p].does = "confirm"
  /\ times' = Executed(t)
  /\ row' = [row EXCEPT ![t] = "CONFIRMED"]
  /\ Done(p)
  /\ UNCHANGED <<chain, cursors, passedBy, faults>>

\* A credit that fails is logged and the poll goes on; without a row nobody asks
\* for the transfer again.
CreditFails(p) ==
  LET t == poll[p].item IN
  /\ Fault
  /\ poll[p].does \in {"credit", "confirm"}
  /\ passedBy' = PassBy(t)
  /\ Done(p)
  /\ UNCHANGED <<chain, books, cursors>>

\* TRON's poll goes on with the next transfer, and its time moves past this one.
RecordFails(p) ==
  /\ Fault
  /\ poll[p].at = "tron" /\ poll[p].does = "record"
  /\ Done(p)
  /\ UNCHANGED <<chain, books, cursors, passedBy>>

-----------------------------------------------------------------------------
(* confirmPendingDeposits                                                  *)

\* A number of rows, in no particular order.
BeginPending(p) ==
  LET pending == {t \in Transfers : row[t] = "PENDING"} IN
  /\ poll[p].at = "toPending"
  /\ \E taken \in SUBSET pending :
       /\ Cardinality(taken) <= Batch
       /\ Cardinality(taken) < Batch => taken = pending
       /\ Begin(p, "pending", 0, 0, taken)
  /\ UNCHANGED <<chain, books, cursors, passedBy, faults>>

\* Seeded fault: a transaction that has no receipt any more counts as in block 0.
CheckRowNoReceipt(p, t) ==
  /\ Looking(p, "pending") /\ t \in poll[p].todo
  /\ IF t \in Bep20 /\ head - block[t] >= BepConfs THEN Take(p, t, "confirm") ELSE Skip(p, t)
  /\ UNCHANGED <<chain, books, cursors, passedBy, faults>>
\* Seeded fault: BEP20 transfers are left with the confirmations of their row.
CheckRowStored(p, t) ==
  /\ Looking(p, "pending") /\ t \in poll[p].todo
  /\ Skip(p, t)
  /\ UNCHANGED <<chain, books, cursors, passedBy, faults>>
\* The confirmations of a BEP20 transfer are asked for.  Those of a TRC20
\* transfer are still the ones it was recorded with, which were too few.
CheckRow(p, t) ==
  /\ Looking(p, "pending") /\ t \in poll[p].todo
  /\ IF t \in Bep20 /\ Deep(t, head) THEN Take(p, t, "confirm") ELSE Skip(p, t)
  /\ UNCHANGED <<chain, books, cursors, passedBy, faults>>

EndPending(p) ==
  /\ AllDone(p, "pending")
  /\ Goto(p, "idle")
  /\ UNCHANGED <<chain, books, cursors, passedBy, faults>>

-----------------------------------------------------------------------------
(* Failures                                                                *)

\* A call to the chain, to Redis or to the database throws out of the loop: the
\* poll goes on with its next part and the cursor stays where it was.
PartFails(p) ==
  /\ Fault
  /\ \/ Looking(p, "tron") /\ Goto(p, "toBsc")
     \/ poll[p].at = "bsc" /\ Goto(p, "toPending")
     \/ poll[p].at = "pending" /\ Goto(p, "idle")
  /\ UNCHANGED <<chain, books, cursors, passedBy>>

\* The monitor is restarted.
Restart ==
  /\ Fault
  /\ poll' = [p \in Polls |-> Idle]
  /\ lastSeen' = Never
  /\ UNCHANGED <<chain, books, lastBlock, passedBy>>

PollStep(p) ==
  \/ BeginTron(p) \/ EndTron(p) \/ BeginBsc(p) \/ EndBsc(p) \/ BeginPending(p) \/ EndPending(p)
  \/ \E t \in Transfers : LookTron(p, t) \/ LookBsc(p, t) \/ CheckRow(p, t)
  \/ Record(p) \/ Credit(p) \/ ConfirmAndCredit(p)

Failure(p) ==
  (\E t \in Transfers : LookBadly(p, t)) \/ CreditFails(p) \/ RecordFails(p) \/ PartFails(p)

Next ==
  \/ NewBlock \/ Restart
  \/ \E t \in Transfers : Reorganise(t)
  \/ \E p \in Polls : PollStep(p) \/ Failure(p)

\* The timer starts the next poll and a poll under way goes on.  The chains, and
\* what goes wrong, are left to themselves.
Spec == Init /\ [][Next]_vars /\ \A p \in Polls : WF_vars(PollStep(p))
-----------------------------------------------------------------------------
(* Properties                                                              *)

\* Everything the monitor keeps holds values of its type.
DepositTypeOK ==
  /\ head \in Nat /\ block \in [Transfers -> 0 .. head]
  /\ row \in [Transfers -> {None, "PENDING", "CONFIRMED"}]
  /\ times \in [Transfers -> Nat]
  /\ lastSeen \in Never .. head /\ lastBlock \in Never .. head
  /\ poll \in [Polls -> PollRecord] /\ \A p \in Polls : poll[p].mark <= head
  /\ passedBy \subseteq Bep20
  /\ faults \in Nat

\* A deposit says CONFIRMED exactly when its amount was credited, once, whatever
\* polls overlap, fail or are started again: a duplicate of the ledger key, which
\* confirms the row, was a credit.
ConfirmedIsCredited ==
  \A t \in Transfers : times[t] = IF row[t] = "CONFIRMED" THEN 1 ELSE 0

\* What was credited is on the chain, deep enough to stay there.
CreditedIsFinal == \A t \in Transfers : times[t] > 0 => Deep(t, head)

\* The block counter of BSC leaves no transfer behind without a row, but for
\* those the monitor passes by: blocks before the first scan or outside the window of a
\* late one, a transfer that a reorganisation moved, a first credit that failed.
ScannedIsRecorded ==
  \A t \in Bep20 : block[t] \in 1 .. lastBlock => row[t] # None \/ t \in passedBy

\* Recorded rows that a poll which takes them up does not confirm.
Stuck == {t \in Transfers : row[t] = "PENDING" /\ ~(t \in Bep20 /\ Deep(t, head))}

\* As long as a poll takes up more recorded rows than are stuck, a BEP20 transfer
\* that is deep enough is credited in the end, if the monitor does not pass it by:
\* polls may overlap, fail in part and be started anew.
DepositsArrive ==
  \A t \in Bep20 :
    [](Cardinality(Stuck \ {t}) < Batch) =>
      (Deep(t, head) ~> (row[t] = "CONFIRMED" \/ t \in passedBy))

\* A recorded TRC20 deposit is confirmed once the chain is deep enough: the block
\* number of the transfer is fetched so that it does not stay PENDING for ever.
Trc20Confirmed ==
  \A t \in Trc20 : (row[t] = "PENDING" /\ Deep(t, head)) ~> row[t] = "CONFIRMED"
=============================================================================
