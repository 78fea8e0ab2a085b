------------------------------ MODULE Withdrawal ------------------------------
(***************************************************************************)
(* Withdrawals of one user in one asset (src/workers/withdrawal.ts): the   *)
(* bot creates a request, reserves its amount and puts a job into a Bull   *)
(* queue; a worker process takes the job, has the payment broadcast, and   *)
(* returns the amount when that fails.                                     *)
(*                                                                         *)
(* The broadcast is the work of a signer that the repository does not have *)
(* (broadcastOnChain always fails); here it sends the payment or fails     *)
(* without sending.  A worker that is alive keeps its job.                 *)
(***************************************************************************)
EXTENDS Integers, FiniteSets

CONSTANTS
  Requests,     \* requests with different keys (amount and address)
  Amount,       \* amount of each request
  Funds,        \* available balance at the start
  Instances,    \* bot processes
  Workers,      \* worker processes
  None,
  Attempts,     \* attempts at a job
  MaxFaults     \* bound: failed calls and stopped processes

RequestStatus == {"PENDING", "QUEUED", "BROADCASTING", "CONFIRMING", "COMPLETED", "FAILED", "REVERSED"}
JobState == {"waiting", "active", "failed", "completed"}

ASSUME WithdrawalAssumption ==
  /\ Amount \in [Requests -> Nat \ {0}] /\ Funds \in Nat
  /\ None \notin Requests \cup RequestStatus \cup JobState \cup {"CONFIRMED"}
  /\ Attempts \in Nat \ {0} /\ MaxFaults \in Nat

VARIABLES
  available,  \* the user's available balance
  status,     \* withdrawal_requests.status
  reserved, reversed,  \* executions of the ledger keys of a request
  sent,       \* payments on the chain
  history,    \* status of the user's transaction row made for a request
  job,        \* state of the request's job in the queue
  tries,      \* failed attempts at it
  call,       \* the request an instance is making
  work,       \* the job a worker is at
  takes,      \* the worker's processor is registered for these jobs
  faults

ledger == <<available, reserved, reversed>>
queue == <<job, tries>>
vars == <<ledger, status, sent, history, queue, call, work, takes, faults>>

-----------------------------------------------------------------------------
(* Processes                                                               *)

\* The request a process is at, and the call it makes next.
Nothing == [w |-> None, next |-> "none"]
Call == [w : Requests, next : {"reserve", "fail", "queue", "enqueue", "note"}] \cup {Nothing}
Work == [w : Requests,
         next : {"check", "mark", "broadcast", "reverse", "markReversed", "noteFailed",
                 "record", "noteConfirmed", "complete"}] \cup {Nothing}

\* Whether the worker gets the jobs: its processor is named "withdrawal" and the
\* jobs are added without a name, so that as the code stands it does not.
Init ==
  /\ available = Funds
  /\ status = [w \in Requests |-> None]
  /\ reserved = [w \in Requests |-> 0]
  /\ reversed = [w \in Requests |-> 0]
  /\ sent = [w \in Requests |-> 0]
  /\ history = [w \in Requests |-> None]
  /\ job = [w \in Requests |-> None]
  /\ tries = [w \in Requests |-> 0]
  /\ call = [p \in Instances |-> Nothing]
  /\ work = [k \in Workers |-> Nothing]
  /\ takes \in BOOLEAN
  /\ faults = 0

Set(w, to) == status' = [status EXCEPT ![w] = to]
Calls(p, w, next) == call' = [call EXCEPT ![p] = [w |-> w, next |-> next]]
Hangs(p) == call' = [call EXCEPT ![p] = Nothing]
Works(k, w, next) == work' = [work EXCEPT ![k] = [w |-> w, next |-> next]]
Rests(k) == work' = [work EXCEPT ![k] = Nothing]
Fault == faults < MaxFaults /\ faults' = faults + 1

-----------------------------------------------------------------------------
(* requestWithdrawal                                                       *)

\* Seeded fault: the request with the same key is not noticed.
AskAgain(p, w) ==
  /\ call[p] = Nothing
  /\ available >= Amount[w]
  /\ Set(w, "PENDING")
  /\ Calls(p, w, "reserve")
  /\ UNCHANGED <<ledger, sent, history, queue, work, takes, faults>>
\* A key is used once: the same amount to the same address is refused for ever.
Ask(p, w) ==
  /\ call[p] = Nothing
  /\ available >= Amount[w]
  /\ status[w] = None
  /\ Set(w, "PENDING")
  /\ Calls(p, w, "reserve")
  /\ UNCHANGED <<ledger, sent, history, queue, work, takes, faults>>

\* Seeded fault: the balance is not compared again under the lock.
DebitBlind(w) ==
  /\ available' = available - Amount[w]
  /\ reserved' = [reserved EXCEPT ![w] = @ + 1]
  /\ UNCHANGED reversed
Debit(w) ==
  /\ available >= Amount[w]
  /\ available' = available - Amount[w]
  /\ reserved' = [reserved EXCEPT ![w] = @ + 1]
  /\ UNCHANGED reversed

\* The balance can have been used by another request since it was compared.
Reserve(p) ==
  LET w == call[p].w IN
  /\ call[p].next = "reserve"
  /\ \/ Debit(w) /\ Calls(p, w, "queue")
     \/ available < Amount[w] /\ Calls(p, w, "fail") /\ UNCHANGED ledger
  /\ UNCHANGED <<status, sent, history, queue, work, takes, faults>>

\* The transaction fails, or it commits and the answer is lost.
ReserveFails(p) ==
  LET w == call[p].w IN
  /\ Fault
  /\ call[p].next = "reserve"
  /\ Debit(w) \/ UNCHANGED ledger
  /\ Calls(p, w, "fail")
  /\ UNCHANGED <<status, sent, history, queue, work, takes>>

MarkFailed(p) ==
  /\ call[p].next = "fail"
  /\ Set(call[p].w, "FAILED")
  /\ Hangs(p)
  /\ UNCHANGED <<ledger, sent, history, queue, work, takes, faults>>

MarkQueued(p) ==
  /\ call[p].next = "queue"
  /\ Set(call[p].w, "QUEUED")
  /\ Calls(p, call[p].w, "enqueue")
  /\ UNCHANGED <<ledger, sent, history, queue, work, takes, faults>>

Enqueue(p) ==
  /\ call[p].next = "enqueue"
  /\ job' = [job EXCEPT ![call[p].w] = "waiting"]
  /\ Calls(p, call[p].w, "note")
  /\ UNCHANGED <<ledger, status, sent, history, tries, work, takes, faults>>

\* Without Redis the request stays QUEUED without a job.
EnqueueFails(p) ==
  /\ Fault
  /\ call[p].next = "enqueue"
  /\ Calls(p, call[p].w, "note")
  /\ UNCHANGED <<ledger, status, sent, history, queue, work, takes>>

\* The user's history comes last; the worker may be done by then.
Note(p) ==
  /\ call[p].next = "note"
  /\ history' = [history EXCEPT ![call[p].w] = "PENDING"]
  /\ Hangs(p)
  /\ UNCHANGED <<ledger, status, sent, queue, work, takes, faults>>

\* The instance stops, or a call of the database throws.
InstanceStops(p) ==
  /\ Fault
  /\ call[p] # Nothing
  /\ Hangs(p)
  /\ UNCHANGED <<ledger, status, sent, history, queue, work, takes>>

-----------------------------------------------------------------------------
(* The queue                                                               *)

\* An attempt failed; the job waits for the next one.
AttemptFails(w) ==
  /\ tries' = [tries EXCEPT ![w] = @ + 1]
  /\ job' = [job EXCEPT ![w] = IF tries[w] + 1 < Attempts THEN "waiting" ELSE "failed"]

Take(k, w) ==
  /\ takes
  /\ work[k] = Nothing /\ job[w] = "waiting"
  /\ job' = [job EXCEPT ![w] = "active"]
  /\ Works(k, w, "check")
  /\ UNCHANGED <<ledger, status, sent, history, tries, call, takes, faults>>

\* "Missing process handler for job type".
NoHandler(k, w) ==
  /\ ~takes
  /\ work[k] = Nothing /\ job[w] = "waiting"
  /\ AttemptFails(w)
  /\ UNCHANGED <<ledger, status, sent, history, call, work, takes, faults>>

\* A job whose worker is gone stalls: it is given to a worker again, or given up
\* when that happened before.
Redeliver(w) ==
  /\ job[w] = "active" /\ \A k \in Workers : work[k].w # w
  /\ \E to \in {"waiting", "failed"} : job' = [job EXCEPT ![w] = to]
  /\ UNCHANGED <<ledger, status, sent, history, tries, call, work, takes, faults>>

-----------------------------------------------------------------------------
(* processWithdrawal                                                       *)

Throws(k) == AttemptFails(work[k].w) /\ Rests(k)

\* Seeded fault: a request the last attempt left at BROADCASTING is tried again.
CheckRequestAgain(k) ==
  /\ work[k].next = "check"
  /\ \/ status[work[k].w] \in {"QUEUED", "BROADCASTING"} /\ Works(k, work[k].w, "mark")
        /\ UNCHANGED queue
     \/ status[work[k].w] \notin {"QUEUED", "BROADCASTING"} /\ Throws(k)
  /\ UNCHANGED <<ledger, status, sent, history, call, takes, faults>>
CheckRequest(k) ==
  /\ work[k].next = "check"
  /\ \/ status[work[k].w] = "QUEUED" /\ Works(k, work[k].w, "mark") /\ UNCHANGED queue
     \/ status[work[k].w] # "QUEUED" /\ Throws(k)
  /\ UNCHANGED <<ledger, status, sent, history, call, takes, faults>>

MarkBroadcasting(k) ==
  /\ work[k].next = "mark"
  /\ Set(work[k].w, "BROADCASTING")
  /\ Works(k, work[k].w, "broadcast")
  /\ UNCHANGED <<ledger, sent, history, queue, call, takes, faults>>

Broadcast(k) ==
  /\ work[k].next = "broadcast"
  /\ sent' = [sent EXCEPT ![work[k].w] = @ + 1]
  /\ Works(k, work[k].w, "record")
  /\ UNCHANGED <<ledger, status, history, queue, call, takes, faults>>

\* Seeded fault: the error is thrown on before the amount is returned.
BroadcastFailsOut(k) ==
  /\ work[k].next = "broadcast"
  /\ Throws(k)
  /\ UNCHANGED <<ledger, status, sent, history, call, takes, faults>>
BroadcastFails(k) ==
  /\ work[k].next = "broadcast"
  /\ Works(k, work[k].w, "reverse")
  /\ UNCHANGED <<ledger, status, sent, history, queue, call, takes, faults>>

Credit(w) ==
  /\ reversed[w] = 0
  /\ reversed' = [reversed EXCEPT ![w] = 1]
  /\ available' = available + Amount[w]
  /\ UNCHANGED reserved

Reverse(k) ==
  /\ work[k].next = "reverse"
  /\ Credit(work[k].w)
  /\ Works(k, work[k].w, "markReversed")
  /\ UNCHANGED <<status, sent, history, queue, call, takes, faults>>

MarkReversed(k) ==
  /\ work[k].next = "markReversed"
  /\ Set(work[k].w, "REVERSED")
  /\ Works(k, work[k].w, "noteFailed")
  /\ UNCHANGED <<ledger, sent, history, queue, call, takes, faults>>

\* Seeded fault: the rows are looked for without the amount.
SettledAll(w, from, to) == [v \in Requests |-> IF history[v] = from THEN to ELSE history[v]]
\* The rows of the user's history are found by their amount.
Settled(w, from, to) ==
  [v \in Requests |-> IF history[v] = from /\ Amount[v] = Amount[w] THEN to ELSE history[v]]

\* The error of the broadcast is thrown on, and counts as a failed attempt.
NoteFailed(k) ==
  /\ work[k].next = "noteFailed"
  /\ history' = Settled(work[k].w, "PENDING", "FAILED")
  /\ Throws(k)
  /\ UNCHANGED <<ledger, status, sent, call, takes, faults>>

Record(k) ==
  /\ work[k].next = "record"
  /\ Set(work[k].w, "CONFIRMING")
  /\ Works(k, work[k].w, "noteConfirmed")
  /\ UNCHANGED <<ledger, sent, history, queue, call, takes, faults>>

NoteConfirmed(k) ==
  /\ work[k].next = "noteConfirmed"
  /\ history' = Settled(work[k].w, "PENDING", "CONFIRMED")
  /\ Works(k, work[k].w, "complete")
  /\ UNCHANGED <<ledger, status, sent, queue, call, takes, faults>>

Complete(k) ==
  /\ work[k].next = "complete"
  /\ Set(work[k].w, "COMPLETED")
  /\ job' = [job EXCEPT ![work[k].w] = "completed"]
  /\ Rests(k)
  /\ UNCHANGED <<ledger, sent, history, tries, call, takes, faults>>

\* A call of the database throws; the reversal may have been committed.
WorkFails(k) ==
  /\ Fault
  /\ work[k] # Nothing
  /\ \/ UNCHANGED ledger
     \/ work[k].next = "reverse" /\ Credit(work[k].w)
  /\ Throws(k)
  /\ UNCHANGED <<status, sent, history, call, takes>>

WorkerStops(k) ==
  /\ Fault
  /\ work[k] # Nothing
  /\ Rests(k)
  /\ UNCHANGED <<ledger, status, sent, history, queue, call, takes>>

-----------------------------------------------------------------------------
(* The system                                                              *)

\* What an instance goes on to do once it was asked.
CallStep(p) == Reserve(p) \/ MarkFailed(p) \/ MarkQueued(p) \/ Enqueue(p) \/ Note(p)

WorkStep(k) ==
  \/ \E w \in Requests : Take(k, w) \/ NoHandler(k, w)
  \/ CheckRequest(k) \/ MarkBroadcasting(k) \/ Broadcast(k) \/ BroadcastFails(k)
  \/ Reverse(k) \/ MarkReversed(k) \/ NoteFailed(k) \/ Record(k) \/ NoteConfirmed(k) \/ Complete(k)

Next ==
  \/ \E p \in Instances :
       \/ \E w \in Requests : Ask(p, w)
       \/ CallStep(p) \/ ReserveFails(p) \/ EnqueueFails(p) \/ InstanceStops(p)
  \/ \E k \in Workers : WorkStep(k) \/ WorkFails(k) \/ WorkerStops(k)
  \/ \E w \in Requests : Redeliver(w)

\* Processes go on with what they began, and the queue hands out its jobs.
\* Users need not ask.
Spec ==
  /\ Init /\ [][Next]_vars
  /\ \A p \in Instances : WF_vars(CallStep(p))
  /\ \A k \in Workers : WF_vars(WorkStep(k))
  /\ \A w \in Requests : WF_vars(Redeliver(w))

-----------------------------------------------------------------------------
(* Properties                                                              *)

\* Rows, jobs and processes hold values of their types, and nothing is overdrawn.
WithdrawalTypeOK ==
  /\ available \in Nat
  /\ status \in [Requests -> RequestStatus \cup {None}]
  /\ {reserved, reversed, sent} \subseteq [Requests -> Nat]
  /\ history \in [Requests -> {None, "PENDING", "FAILED", "CONFIRMED"}]
  /\ job \in [Requests -> JobState \cup {None}]
  /\ tries \in [Requests -> Nat]
  /\ call \in [Instances -> Call] /\ work \in [Workers -> Work]
  /\ takes \in BOOLEAN /\ faults \in Nat

\* Where the money of a request is, if it is in one place.
MoneyOf(w) ==
  CASE reserved[w] = 0 /\ sent[w] = 0 /\ reversed[w] = 0 -> "balance"
    [] reserved[w] = 1 /\ sent[w] = 0 /\ reversed[w] = 0 -> "reserved"
    [] reserved[w] = 1 /\ sent[w] = 1 /\ reversed[w] = 0 -> "paid"
    [] reserved[w] = 1 /\ sent[w] = 0 /\ reversed[w] = 1 -> "returned"
    [] OTHER -> "amiss"
ToldOf(w) ==
  CASE status[w] = "COMPLETED" -> "paid" [] status[w] = "REVERSED" -> "returned" [] OTHER -> "nothing"

Promise == INSTANCE PayoutPromise WITH
  money <- [w \in Requests |-> MoneyOf(w)], told <- [w \in Requests |-> ToldOf(w)]

\* However often a job is tried or given to another worker, and wherever a process stops,
\* the amount of a request is paid out or returned, not both and not twice,
\* and COMPLETED and REVERSED say which.
KeepsPayout == Promise!Spec

\* The treasury's operations on the available balance, as the ledger promises them.
Moved(n) == [s \in {"available"} |-> n]
Ledger == INSTANCE LedgerPromise WITH
  Slots <- {"available"},
  Opening <- Moved(Funds),
  Operations <- {<<<<"reserve", w>>, Moved(-Amount[w])>> : w \in Requests}
                  \cup {<<<<"reverse", w>>, Moved(Amount[w])>> : w \in Requests},
  Reversals <- {<<<<"reverse", w>>, <<"reserve", w>>>> : w \in Requests},
  executed <- {<<"reserve", w>> : w \in {v \in Requests : reserved[v] > 0}}
                \cup {<<"reverse", w>> : w \in {v \in Requests : reversed[v] > 0}},
  balance <- Moved(available)

\* Requests, retries and lost answers use the ledger as it is to be used: an amount
\* is reserved once and while it is covered, and returned once and only after that.
UsesLedger == Ledger!Spec

\* A settled row of the history has a request of its amount that ended like that,
\* though not always its own: rows are found by their amount.
HistoryHasCause ==
  \A w \in Requests :
    /\ history[w] = "CONFIRMED" => \E v \in Requests : Amount[v] = Amount[w] /\ sent[v] > 0
    /\ history[w] = "FAILED" => \E v \in Requests : Amount[v] = Amount[w] /\ reversed[v] > 0

\* Requests whose money was taken and whose status does not say what became of it.
Stranded == {w \in Requests : reserved[w] > 0 /\ status[w] \notin {"COMPLETED", "REVERSED"}}

\* Where the worker gets the jobs, a fault leaves at most one request behind: all
\* others are paid out or returned in the end.
FaultStrandsOne == takes => <>[](Cardinality(Stranded) <= faults)
=============================================================================
