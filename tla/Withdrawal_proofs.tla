-------------------------- MODULE Withdrawal_proofs --------------------------
(***************************************************************************)
(* What holds of Withdrawal for every set of requests, any number of bot   *)
(* instances and workers, and any number of faults.                        *)
(***************************************************************************)
EXTENDS Withdrawal, TLAPS

-----------------------------------------------------------------------------
(* The inductive invariant                                                 *)

\* What the row of a request says of its money.
Unpaid(w) == sent[w] = 0 /\ reversed[w] = 0
RowOK(w) ==
  /\ status[w] = None => reserved[w] = 0
  /\ status[w] \in {"PENDING", "FAILED"} => reserved[w] \in {0, 1}
  /\ status[w] \notin {None, "PENDING", "FAILED"} => reserved[w] = 1
  /\ status[w] \in {None, "PENDING", "FAILED", "QUEUED"} => Unpaid(w)
  /\ status[w] = "BROADCASTING" =>
       /\ sent[w] \in {0, 1} /\ reversed[w] \in {0, 1}
       /\ sent[w] = 0 \/ reversed[w] = 0
  /\ status[w] \in {"CONFIRMING", "COMPLETED"} => sent[w] = 1 /\ reversed[w] = 0
  /\ status[w] = "REVERSED" => sent[w] = 0 /\ reversed[w] = 1
  /\ job[w] # None => status[w] \notin {None, "PENDING", "FAILED"}

\* A request that is being made has no job yet.
Makes(c) == c.next \in {"reserve", "fail", "queue", "enqueue"}
CallOK(c) ==
  Makes(c) =>
    /\ job[c.w] = None
    /\ status[c.w] = IF c.next = "enqueue" THEN "QUEUED" ELSE "PENDING"
    /\ c.next = "reserve" => reserved[c.w] = 0
    /\ c.next = "queue" => reserved[c.w] = 1

\* A worker is where the row says it is.
WorkOK(r) ==
  r # Nothing =>
    /\ job[r.w] = "active"
    /\ r.next = "mark" => status[r.w] = "QUEUED"
    /\ r.next \in {"broadcast", "reverse"} => status[r.w] = "BROADCASTING" /\ Unpaid(r.w)
    /\ r.next = "markReversed" =>
         status[r.w] = "BROADCASTING" /\ sent[r.w] = 0 /\ reversed[r.w] = 1
    /\ r.next = "noteFailed" => status[r.w] = "REVERSED"
    /\ r.next = "record" => status[r.w] = "BROADCASTING" /\ sent[r.w] = 1 /\ reversed[r.w] = 0
    /\ r.next \in {"noteConfirmed", "complete"} => status[r.w] = "CONFIRMING"

RowInv == \A w \in Requests : RowOK(w)
CallInv ==
  /\ \A p \in Instances : CallOK(call[p])
  /\ \A p, q \in Instances :
       (Makes(call[p]) /\ Makes(call[q]) /\ call[p].w = call[q].w) => p = q
WorkInv ==
  /\ \A k \in Workers : WorkOK(work[k])
  /\ \A k, l \in Workers : (work[k] # Nothing /\ work[k].w = work[l].w) => k = l

IInv == WithdrawalTypeOK /\ RowInv /\ CallInv /\ WorkInv

\* Nothing but the rows of one request changes.
Only(w) ==
  \A v \in Requests \ {w} :
    /\ status'[v] = status[v] /\ job'[v] = job[v]
    /\ reserved'[v] = reserved[v] /\ reversed'[v] = reversed[v] /\ sent'[v] = sent[v]

-----------------------------------------------------------------------------
(* Steps on one request                                                    *)

\* An instance that makes a request is alone with it.
LEMMA CallLocal ==
  ASSUME IInv, NEW p \in Instances, NEW w \in Requests, NEW c \in Call,
         \A q \in Instances \ {p} : Makes(call[q]) => call[q].w # w,
         job[w] = None,
         call' = [call EXCEPT ![p] = c], c = Nothing \/ c.w = w, work' = work,
         WithdrawalTypeOK', Only(w), RowOK(w)', CallOK(c)'
  PROVE  IInv'
  <1> USE DEF IInv
  <1>1. call'[p] = c /\ \A q \in Instances \ {p} : call'[q] = call[q]
    BY DEF WithdrawalTypeOK
  <1>2. \A q \in Instances \ {p} : Makes(call[q]) => call[q].w \in Requests \ {w}
    BY DEF WithdrawalTypeOK, Call, Nothing, Makes
  <1>3. ~Makes(Nothing)
    BY DEF Makes, Nothing
  <1>4. \A k \in Workers : work[k] # Nothing => work[k].w \in Requests \ {w}
    BY WithdrawalAssumption DEF WorkInv, WorkOK, WithdrawalTypeOK, Work, JobState
  <1>5. RowInv'
    BY DEF RowInv, RowOK, Only, Unpaid
  <1>6. CallInv'
    <2>1. \A q \in Instances : CallOK(call[q])'
      BY <1>1, <1>2 DEF CallInv, CallOK, Only, Makes
    <2>2. ASSUME NEW q \in Instances, NEW r \in Instances,
                 Makes(call'[q]), Makes(call'[r]), call'[q].w = call'[r].w
          PROVE  q = r
      BY <1>1, <1>2, <1>3, <2>2 DEF CallInv
    <2> QED
      BY <2>1, <2>2 DEF CallInv, Makes
  <1>7. WorkInv'
    BY <1>4 DEF WorkInv, WorkOK, Only, Unpaid
  <1> QED
    BY <1>5, <1>6, <1>7

\* A worker at a job is alone with its request.
LEMMA WorkLocal ==
  ASSUME IInv, NEW k \in Workers, NEW w \in Requests, NEW r \in Work,
         \A l \in Workers \ {k} : work[l] # Nothing => work[l].w # w,
         job[w] # None,
         work' = [work EXCEPT ![k] = r], r = Nothing \/ r.w = w, call' = call,
         WithdrawalTypeOK', Only(w), RowOK(w)', WorkOK(r)'
  PROVE  IInv'
  <1> USE DEF IInv
  <1>1. work'[k] = r /\ \A l \in Workers \ {k} : work'[l] = work[l]
    BY DEF WithdrawalTypeOK
  <1>2. \A l \in Workers \ {k} : work[l] # Nothing => work[l].w \in Requests \ {w}
    BY DEF WithdrawalTypeOK, Work
  <1>3. \A q \in Instances : Makes(call[q]) => call[q].w \in Requests \ {w}
    BY DEF CallInv, CallOK, WithdrawalTypeOK, Call, Nothing, Makes
  <1>4. RowInv'
    BY DEF RowInv, RowOK, Only, Unpaid
  <1>5. CallInv'
    BY <1>3 DEF CallInv, CallOK, Only, Makes
  <1>6. WorkInv'
    <2>1. \A l \in Workers : WorkOK(work[l])'
      BY <1>1, <1>2 DEF WorkInv, WorkOK, Only, Unpaid
    <2>2. ASSUME NEW l \in Workers, NEW n \in Workers,
                 work'[l] # Nothing, work'[l].w = work'[n].w
          PROVE  l = n
      <3>1. Nothing.w = None
        BY DEF Nothing
      <3>2. \A x \in Work : x # Nothing => x.w \in Requests
        BY DEF Work
      <3>3. work'[l] \in Work /\ work'[n] \in Work
        BY DEF WithdrawalTypeOK
      <3>4. work'[n] # Nothing
        BY <2>2, <3>1, <3>2, <3>3, WithdrawalAssumption
      <3> QED
        BY <1>1, <1>2, <2>2, <3>4 DEF WorkInv
    <2> QED
      BY <2>1, <2>2 DEF WorkInv
  <1> QED
    BY <1>4, <1>5, <1>6
-----------------------------------------------------------------------------
(* requestWithdrawal                                                       *)

LEMMA AskStep ==
  ASSUME IInv, NEW p \in Instances, NEW w \in Requests, Ask(p, w)
  PROVE  IInv'
  <1> USE DEF IInv
  <1>1. PICK c : c = [w |-> w, next |-> "reserve"]
    OBVIOUS
  <1>2. c \in Call /\ c.w = w
    BY <1>1 DEF Call
  <1>3. call' = [call EXCEPT ![p] = c] /\ UNCHANGED <<available, reserved, reversed, sent, job, work>>
    BY <1>1 DEF Ask, Calls, ledger, queue
  <1>4. status[w] = None /\ RowOK(w)
    BY DEF Ask, RowInv
  <1>5. job[w] = None /\ reserved[w] = 0 /\ Unpaid(w)
    BY <1>4, WithdrawalAssumption DEF RowOK, RequestStatus
  <1>6. \A q \in Instances \ {p} : Makes(call[q]) => call[q].w # w
    BY <1>4, WithdrawalAssumption DEF CallInv, CallOK, RequestStatus
  <1>7. status' = [status EXCEPT ![w] = "PENDING"]
    BY DEF Ask, Set
  <1>8. WithdrawalTypeOK'
    BY <1>2, <1>3, <1>7 DEF Ask, WithdrawalTypeOK, RequestStatus, queue
  <1>9. Only(w) /\ RowOK(w)' /\ CallOK(c)'
    BY <1>1, <1>3, <1>5, <1>7, WithdrawalAssumption
       DEF Only, RowOK, CallOK, Unpaid, WithdrawalTypeOK, RequestStatus
  <1> QED
    BY <1>2, <1>3, <1>5, <1>6, <1>8, <1>9, CallLocal

\* What is known of the request an instance is making.
LEMMA MakingFacts ==
  ASSUME IInv, NEW p \in Instances, Makes(call[p])
  PROVE  /\ call[p].w \in Requests /\ job[call[p].w] = None /\ RowOK(call[p].w)
         /\ CallOK(call[p])
         /\ \A q \in Instances \ {p} : Makes(call[q]) => call[q].w # call[p].w
  BY DEF IInv, WithdrawalTypeOK, Call, Nothing, Makes, CallInv, CallOK, RowInv

LEMMA ReserveStep ==
  ASSUME IInv, NEW p \in Instances, Reserve(p) \/ ReserveFails(p)
  PROVE  IInv'
  <1> USE DEF IInv
  <1>1. PICK w \in Requests : w = call[p].w
    BY MakingFacts DEF Reserve, ReserveFails, Makes
  <1>2. PICK next \in {"queue", "fail"} :
          /\ call' = [call EXCEPT ![p] = [w |-> w, next |-> next]]
          /\ Debit(w) \/ (next = "fail" /\ UNCHANGED ledger)
    BY <1>1 DEF Reserve, ReserveFails, Calls
  <1>3. PICK c : c = [w |-> w, next |-> next]
    OBVIOUS
  <1>4. c \in Call /\ c.w = w /\ call' = [call EXCEPT ![p] = c]
    BY <1>2, <1>3 DEF Call
  <1>5. UNCHANGED <<status, sent, history, job, tries, work, takes>> /\ faults' \in Nat
    BY DEF Reserve, ReserveFails, Fault, WithdrawalTypeOK, queue
  <1>6. /\ job[w] = None /\ status[w] = "PENDING" /\ reserved[w] = 0 /\ RowOK(w)
        /\ \A q \in Instances \ {p} : Makes(call[q]) => call[q].w # w
    BY <1>1, MakingFacts DEF Reserve, ReserveFails, Makes, CallOK
  <1>7. /\ available' \in Nat /\ reversed' = reversed
        /\ \/ reserved' = [reserved EXCEPT ![w] = 1]
           \/ next = "fail" /\ reserved' = reserved
    BY <1>2, <1>6, WithdrawalAssumption DEF Debit, WithdrawalTypeOK, ledger
  <1>8. WithdrawalTypeOK'
    BY <1>4, <1>5, <1>7 DEF WithdrawalTypeOK
  <1>9. Only(w) /\ RowOK(w)' /\ CallOK(c)'
    BY <1>3, <1>5, <1>6, <1>7, WithdrawalAssumption
       DEF Only, RowOK, CallOK, Unpaid, WithdrawalTypeOK, RequestStatus, Makes
  <1> QED
    BY <1>4, <1>5, <1>6, <1>8, <1>9, CallLocal

LEMMA MarkStep ==
  ASSUME IInv, NEW p \in Instances, MarkFailed(p) \/ MarkQueued(p)
  PROVE  IInv'
  <1> USE DEF IInv
  <1>1. PICK w \in Requests : w = call[p].w
    BY MakingFacts DEF MarkFailed, MarkQueued, Makes
  <1>2. /\ job[w] = None /\ status[w] = "PENDING" /\ RowOK(w)
        /\ call[p].next = "queue" => reserved[w] = 1
        /\ \A q \in Instances \ {p} : Makes(call[q]) => call[q].w # w
    BY <1>1, MakingFacts DEF MarkFailed, MarkQueued, Makes, CallOK
  <1>3. PICK c \in Call :
          /\ call' = [call EXCEPT ![p] = c]
          /\ \/ c = Nothing /\ Set(w, "FAILED")
             \/ c = [w |-> w, next |-> "enqueue"] /\ call[p].next = "queue" /\ Set(w, "QUEUED")
    BY <1>1 DEF MarkFailed, MarkQueued, Hangs, Calls, Call
  <1>4. UNCHANGED <<available, reserved, reversed, sent, history, job, tries, work, takes, faults>>
    BY DEF MarkFailed, MarkQueued, ledger, queue
  <1>5. WithdrawalTypeOK'
    BY <1>3, <1>4 DEF WithdrawalTypeOK, RequestStatus, Set
  <1>6. Only(w) /\ RowOK(w)' /\ CallOK(c)'
    BY <1>2, <1>3, <1>4, WithdrawalAssumption
       DEF Only, RowOK, CallOK, Unpaid, WithdrawalTypeOK, RequestStatus, Makes, Nothing, Set
  <1> QED
    BY <1>2, <1>3, <1>4, <1>5, <1>6, CallLocal

LEMMA EnqueueStep ==
  ASSUME IInv, NEW p \in Instances, Enqueue(p) \/ EnqueueFails(p)
  PROVE  IInv'
  <1> USE DEF IInv
  <1>1. PICK w \in Requests : w = call[p].w
    BY MakingFacts DEF Enqueue, EnqueueFails, Makes
  <1>2. /\ job[w] = None /\ status[w] = "QUEUED" /\ RowOK(w)
        /\ \A q \in Instances \ {p} : Makes(call[q]) => call[q].w # w
    BY <1>1, MakingFacts DEF Enqueue, EnqueueFails, Makes, CallOK
  <1>3. PICK c : c = [w |-> w, next |-> "note"]
    OBVIOUS
  <1>4. c \in Call /\ c.w = w /\ ~Makes(c) /\ call' = [call EXCEPT ![p] = c]
    BY <1>1, <1>3 DEF Enqueue, EnqueueFails, Calls, Call, Makes
  <1>5. /\ job' = job \/ job' = [job EXCEPT ![w] = "waiting"]
        /\ UNCHANGED <<available, status, reserved, reversed, sent, history, tries, work, takes>>
        /\ faults' \in Nat
    BY <1>1 DEF Enqueue, EnqueueFails, Fault, WithdrawalTypeOK, ledger, queue
  <1>6. WithdrawalTypeOK'
    BY <1>4, <1>5 DEF WithdrawalTypeOK, JobState
  <1>7. Only(w) /\ RowOK(w)' /\ CallOK(c)'
    BY <1>2, <1>4, <1>5, WithdrawalAssumption
       DEF Only, RowOK, CallOK, Unpaid, WithdrawalTypeOK, RequestStatus
  <1> QED
    BY <1>2, <1>4, <1>5, <1>6, <1>7, CallLocal

\* An instance that is done, or stops, leaves the rows alone.
LEMMA HangStep ==
  ASSUME IInv, NEW p \in Instances, Note(p) \/ InstanceStops(p)
  PROVE  IInv'
  <1> USE DEF IInv
  <1>1. /\ call' = [call EXCEPT ![p] = Nothing]
        /\ UNCHANGED <<available, status, reserved, reversed, sent, job, tries, work, takes>>
        /\ history' \in [Requests -> {None, "PENDING", "FAILED", "CONFIRMED"}] /\ faults' \in Nat
    BY DEF Note, InstanceStops, Hangs, Fault, WithdrawalTypeOK, ledger, queue
  <1>2. WithdrawalTypeOK'
    BY <1>1 DEF WithdrawalTypeOK, Call
  <1>3. ~Makes(Nothing)
    BY DEF Makes, Nothing
  <1>4. RowInv' /\ WorkInv'
    BY <1>1 DEF RowInv, RowOK, WorkInv, WorkOK, Unpaid
  <1>5. \A q \in Instances : call'[q] = IF q = p THEN Nothing ELSE call[q]
    BY <1>1 DEF WithdrawalTypeOK
  <1>6. CallInv'
    <2>1. \A q \in Instances : CallOK(call[q])'
      BY <1>1, <1>3, <1>5 DEF CallInv, CallOK, Makes
    <2>2. \A q, r \in Instances :
            (Makes(call'[q]) /\ Makes(call'[r]) /\ call'[q].w = call'[r].w) => q = r
      BY <1>3, <1>5 DEF CallInv
    <2> QED
      BY <2>1, <2>2 DEF CallInv, Makes
  <1> QED
    BY <1>2, <1>4, <1>6

-----------------------------------------------------------------------------
(* The queue and the workers                                               *)

\* What is known of the request a worker is at.
LEMMA WorkingFacts ==
  ASSUME IInv, NEW k \in Workers, work[k].next # "none"
  PROVE  /\ work[k] # Nothing /\ work[k].w \in Requests /\ job[work[k].w] = "active"
         /\ RowOK(work[k].w) /\ WorkOK(work[k])
         /\ \A l \in Workers \ {k} : work[l] # Nothing => work[l].w # work[k].w
  BY DEF IInv, WithdrawalTypeOK, Work, Nothing, WorkInv, WorkOK, RowInv

\* A waiting job has no worker.
LEMMA WaitingFacts ==
  ASSUME IInv, NEW w \in Requests, job[w] = "waiting"
  PROVE  RowOK(w) /\ \A l \in Workers : work[l] # Nothing => work[l].w # w
  BY DEF IInv, WorkInv, WorkOK, RowInv

LEMMA TakeStep ==
  ASSUME IInv, NEW k \in Workers, NEW w \in Requests, Take(k, w) \/ NoHandler(k, w)
  PROVE  IInv'
  <1> USE DEF IInv
  <1>1. /\ job[w] = "waiting" /\ work[k] = Nothing
        /\ UNCHANGED <<available, status, reserved, reversed, sent, history, call, takes, faults>>
    BY DEF Take, NoHandler, ledger
  <1>2. RowOK(w) /\ \A l \in Workers : work[l] # Nothing => work[l].w # w
    BY <1>1, WaitingFacts
  <1>3. PICK r \in Work, to \in JobState :
          /\ work' = [work EXCEPT ![k] = r] /\ job' = [job EXCEPT ![w] = to]
          /\ r = Nothing \/ (r = [w |-> w, next |-> "check"] /\ to = "active")
    <2>1. CASE Take(k, w)
      BY <2>1 DEF Take, Works, Work, JobState
    <2>2. CASE NoHandler(k, w)
      <3>1. work' = [work EXCEPT ![k] = Nothing]
        BY <1>1, <2>2 DEF NoHandler, WithdrawalTypeOK
      <3>2. \E to \in JobState : job' = [job EXCEPT ![w] = to]
        BY <2>2 DEF NoHandler, AttemptFails, JobState
      <3> QED
        BY <3>1, <3>2 DEF Work
    <2> QED
      BY <2>1, <2>2
  <1>4. tries' \in [Requests -> Nat]
    BY DEF Take, NoHandler, AttemptFails, WithdrawalTypeOK
  <1>5. WithdrawalTypeOK'
    BY <1>1, <1>3, <1>4 DEF WithdrawalTypeOK
  <1>6. Only(w) /\ RowOK(w)' /\ WorkOK(r)'
    BY <1>1, <1>2, <1>3, WithdrawalAssumption
       DEF Only, RowOK, WorkOK, Unpaid, WithdrawalTypeOK, JobState
  <1> QED
    BY <1>1, <1>2, <1>3, <1>5, <1>6, WorkLocal, WithdrawalAssumption DEF JobState

LEMMA RedeliverStep ==
  ASSUME IInv, NEW w \in Requests, Redeliver(w)
  PROVE  IInv'
  <1> USE DEF IInv
  <1>1. PICK to \in JobState : job' = [job EXCEPT ![w] = to]
    BY DEF Redeliver, JobState
  <1>2. /\ job[w] = "active" /\ \A k \in Workers : work[k].w # w
        /\ UNCHANGED <<available, status, reserved, reversed, sent, history, tries, call, work,
                        takes, faults>>
    BY DEF Redeliver, ledger
  <1>3. WithdrawalTypeOK'
    BY <1>1, <1>2 DEF WithdrawalTypeOK
  <1>4. RowInv'
    BY <1>1, <1>2, WithdrawalAssumption DEF RowInv, RowOK, Unpaid, WithdrawalTypeOK, JobState
  <1>5. CallInv'
    BY <1>1, <1>2, WithdrawalAssumption
       DEF CallInv, CallOK, Makes, WithdrawalTypeOK, Call, Nothing, JobState
  <1>6. WorkInv'
    BY <1>1, <1>2 DEF WorkInv, WorkOK, Unpaid, WithdrawalTypeOK, Work
  <1> QED
    BY <1>3, <1>4, <1>5, <1>6

\* A worker that goes on changes its own request.
LEMMA OnwardStep ==
  ASSUME IInv, NEW k \in Workers, NEW w \in Requests, NEW r \in Work,
         work[k].next # "none", w = work[k].w,
         work' = [work EXCEPT ![k] = r], r = Nothing \/ r.w = w, UNCHANGED call,
         WithdrawalTypeOK', Only(w), RowOK(w)', WorkOK(r)'
  PROVE  IInv'
  BY WorkingFacts, WorkLocal, WithdrawalAssumption DEF JobState

\* A worker that leaves its job leaves the status and the payment alone, and
\* returns the amount at most where it had to.
LEMMA LeaveStep ==
  ASSUME IInv, NEW k \in Workers, work[k].next # "none",
         work' = [work EXCEPT ![k] = Nothing],
         UNCHANGED <<status, sent, call, takes>>,
         UNCHANGED ledger \/ (work[k].next = "reverse" /\ Credit(work[k].w)),
         history' \in [Requests -> {None, "PENDING", "FAILED", "CONFIRMED"}],
         AttemptFails(work[k].w) \/ UNCHANGED queue, faults' \in Nat
  PROVE  IInv'
  <1> USE DEF IInv
  <1>1. PICK w \in Requests : w = work[k].w
    BY WorkingFacts
  <1>2. /\ job[w] = "active" /\ RowOK(w) /\ WorkOK(work[k]) /\ work[k] # Nothing
    BY <1>1, WorkingFacts
  <1>3. \E to \in JobState : job' = [job EXCEPT ![w] = to]
    BY <1>1, <1>2 DEF AttemptFails, queue, JobState, WithdrawalTypeOK
  <1>4. tries' \in [Requests -> Nat]
    BY DEF AttemptFails, queue, WithdrawalTypeOK
  <1>5. /\ available' \in Nat /\ reserved' = reserved
        /\ \/ reversed' = reversed
           \/ reversed' = [reversed EXCEPT ![w] = 1] /\ work[k].next = "reverse"
    BY <1>1, WithdrawalAssumption DEF Credit, ledger, WithdrawalTypeOK
  <1>6. WithdrawalTypeOK'
    <2>1. Nothing \in Work
      BY DEF Work
    <2>2. work' \in [Workers -> Work]
      BY <2>1 DEF WithdrawalTypeOK
    <2>3. job' \in [Requests -> JobState \cup {None}]
      BY <1>3 DEF WithdrawalTypeOK
    <2>4. {reserved', reversed', sent'} \subseteq [Requests -> Nat]
      BY <1>5 DEF WithdrawalTypeOK
    <2> QED
      BY <1>4, <1>5, <2>2, <2>3, <2>4 DEF WithdrawalTypeOK
  <1>7. Only(w) /\ RowOK(w)'
    BY <1>1, <1>2, <1>3, <1>5, WithdrawalAssumption
       DEF Only, RowOK, WorkOK, Unpaid, WithdrawalTypeOK, RequestStatus, JobState
  <1>8. Nothing \in Work /\ WorkOK(Nothing)'
    BY DEF Work, WorkOK
  <1>9. PICK r \in Work : r = Nothing
    BY <1>8
  <1> QED
    BY <1>1, <1>6, <1>7, <1>8, <1>9, OnwardStep

LEMMA LeavesStep ==
  ASSUME IInv, NEW k \in Workers,
         \/ NoteFailed(k) \/ WorkFails(k) \/ WorkerStops(k)
         \/ CheckRequest(k) /\ status[work[k].w] # "QUEUED"
  PROVE  IInv'
  <1> USE DEF IInv
  <1>1. work[k] # Nothing => work[k].next # "none"
    BY DEF WithdrawalTypeOK, Work
  <1>2. work[k].next # "none"
    BY <1>1 DEF NoteFailed, WorkFails, WorkerStops, CheckRequest
  <1>3. /\ work' = [work EXCEPT ![k] = Nothing] /\ UNCHANGED <<status, sent, call, takes>>
        /\ AttemptFails(work[k].w) \/ UNCHANGED queue
        /\ UNCHANGED ledger \/ (work[k].next = "reverse" /\ Credit(work[k].w))
    BY DEF NoteFailed, WorkFails, WorkerStops, CheckRequest, Throws, Rests
  <1>4. /\ history' \in [Requests -> {None, "PENDING", "FAILED", "CONFIRMED"}]
        /\ faults' \in Nat
    BY DEF NoteFailed, WorkFails, WorkerStops, CheckRequest, Settled, Fault, WithdrawalTypeOK
  <1> QED
    BY <1>2, <1>3, <1>4, LeaveStep

\* A worker goes on, with a new status of the request where it writes one.
Writes == {"mark", "broadcast", "reverse", "noteFailed", "noteConfirmed", "complete"}
Written(k, w, next, to) ==
  /\ work' = [work EXCEPT ![k] = [w |-> w, next |-> next]]
  /\ \/ /\ next \in {"mark", "reverse", "complete"} /\ status' = status
     \/ /\ next \notin {"mark", "reverse", "complete"} /\ status' = [status EXCEPT ![w] = to]
  /\ next = "mark" => status[w] = "QUEUED"
  /\ next = "broadcast" => work[k].next = "mark" /\ to = "BROADCASTING"
  /\ next = "reverse" => work[k].next = "broadcast"
  /\ next = "noteFailed" => work[k].next = "markReversed" /\ to = "REVERSED"
  /\ next = "noteConfirmed" => work[k].next = "record" /\ to = "CONFIRMING"
  /\ next = "complete" => work[k].next = "noteConfirmed"

LEMMA WriteStep ==
  ASSUME IInv, NEW k \in Workers,
         \/ CheckRequest(k) /\ status[work[k].w] = "QUEUED"
         \/ MarkBroadcasting(k) \/ BroadcastFails(k) \/ MarkReversed(k)
         \/ Record(k) \/ NoteConfirmed(k)
  PROVE  IInv'
  <1> USE DEF IInv
  <1>1. work[k].next # "none"
    BY DEF CheckRequest, MarkBroadcasting, BroadcastFails, MarkReversed, Record, NoteConfirmed
  <1>2. PICK w \in Requests : w = work[k].w
    BY <1>1, WorkingFacts
  <1>3. /\ job[w] = "active" /\ RowOK(w) /\ WorkOK(work[k]) /\ work[k] # Nothing
    BY <1>1, <1>2, WorkingFacts
  <1>4. /\ UNCHANGED <<available, reserved, reversed, sent, job, tries, call, takes, faults>>
        /\ history' \in [Requests -> {None, "PENDING", "FAILED", "CONFIRMED"}]
    BY DEF CheckRequest, MarkBroadcasting, BroadcastFails, MarkReversed, Record, NoteConfirmed,
           Settled, WithdrawalTypeOK, ledger, queue
  <1>5. PICK next \in Writes, to \in RequestStatus : Written(k, w, next, to)
    <2>1. CASE CheckRequest(k) /\ status[work[k].w] = "QUEUED"
      <3>1. Written(k, w, "mark", "QUEUED")
        BY <1>2, <2>1 DEF Written, CheckRequest, Works
      <3> QED
        BY <3>1 DEF Writes, RequestStatus
    <2>2. CASE MarkBroadcasting(k)
      <3>1. Written(k, w, "broadcast", "BROADCASTING")
        BY <1>2, <2>2 DEF Written, MarkBroadcasting, Works, Set
      <3> QED
        BY <3>1 DEF Writes, RequestStatus
    <2>3. CASE BroadcastFails(k)
      <3>1. Written(k, w, "reverse", "QUEUED")
        BY <1>2, <2>3 DEF Written, BroadcastFails, Works, Set
      <3> QED
        BY <3>1 DEF Writes, RequestStatus
    <2>4. CASE MarkReversed(k)
      <3>1. Written(k, w, "noteFailed", "REVERSED")
        BY <1>2, <2>4 DEF Written, MarkReversed, Works, Set
      <3> QED
        BY <3>1 DEF Writes, RequestStatus
    <2>5. CASE Record(k)
      <3>1. Written(k, w, "noteConfirmed", "CONFIRMING")
        BY <1>2, <2>5 DEF Written, Record, Works, Set
      <3> QED
        BY <3>1 DEF Writes, RequestStatus
    <2>6. CASE NoteConfirmed(k)
      <3>1. Written(k, w, "complete", "QUEUED")
        BY <1>2, <2>6 DEF Written, NoteConfirmed, Works, Set
      <3> QED
        BY <3>1 DEF Writes, RequestStatus
    <2> QED
      BY <2>1, <2>2, <2>3, <2>4, <2>5, <2>6
  <1>6. PICK r : r = [w |-> w, next |-> next]
    OBVIOUS
  <1>7. r \in Work /\ r.w = w /\ r.next = next /\ work' = [work EXCEPT ![k] = r]
    BY <1>5, <1>6 DEF Work, Writes, Written
  <1>8. WithdrawalTypeOK'
    <2>1. status' \in [Requests -> RequestStatus \cup {None}]
      BY <1>5 DEF WithdrawalTypeOK, Written
    <2>2. work' \in [Workers -> Work]
      BY <1>7 DEF WithdrawalTypeOK
    <2> QED
      BY <1>4, <2>1, <2>2 DEF WithdrawalTypeOK
  <1>9. /\ next = "mark" => status'[w] = "QUEUED" /\ Unpaid(w)
        /\ next \in {"reverse", "broadcast"} => status'[w] = "BROADCASTING" /\ Unpaid(w)
        /\ next = "noteFailed" => status'[w] = "REVERSED" /\ sent[w] = 0 /\ reversed[w] = 1
        /\ next \in {"noteConfirmed", "complete"} =>
             status'[w] = "CONFIRMING" /\ sent[w] = 1 /\ reversed[w] = 0
        /\ reserved[w] = 1
    <2>1. status \in [Requests -> RequestStatus \cup {None}]
      BY DEF WithdrawalTypeOK
    <2> QED
      BY <1>2, <1>3, <1>5, <2>1, WithdrawalAssumption DEF RowOK, WorkOK, Written, Unpaid, JobState
  <1>10. Only(w)
    BY <1>4, <1>5 DEF Only, Written, WithdrawalTypeOK
  <1>11. RowOK(w)'
    <2>1. next \in Writes
      OBVIOUS
    <2>2. CASE next = "mark"
      BY <1>4, <1>9, <2>2, WithdrawalAssumption DEF RowOK, Unpaid, RequestStatus
    <2>3. CASE next \in {"reverse", "broadcast"}
      <3>1. /\ status'[w] = "BROADCASTING" /\ None # "BROADCASTING"
            /\ sent'[w] = 0 /\ reversed'[w] = 0 /\ reserved'[w] = 1
        BY <1>4, <1>9, <2>3, WithdrawalAssumption DEF Unpaid, RequestStatus
      <3> QED
        BY <3>1 DEF RowOK, Unpaid
    <2>4. CASE next \in {"noteFailed", "noteConfirmed", "complete"}
      BY <1>4, <1>9, <2>4, WithdrawalAssumption DEF RowOK, Unpaid, RequestStatus
    <2> QED
      BY <2>1, <2>2, <2>3, <2>4 DEF Writes
  <1>12. WorkOK(r)'
    BY <1>3, <1>4, <1>7, <1>9 DEF WorkOK, Unpaid, Writes
  <1> QED
    BY <1>1, <1>2, <1>4, <1>7, <1>8, <1>10, <1>11, <1>12, OnwardStep

\* The payment, its return and the end of the job.
LEMMA MoneyStep ==
  ASSUME IInv, NEW k \in Workers, Broadcast(k) \/ Reverse(k) \/ Complete(k)
  PROVE  IInv'
  <1> USE DEF IInv
  <1>1. work[k].next # "none"
    BY DEF Broadcast, Reverse, Complete
  <1>2. PICK w \in Requests : w = work[k].w
    BY <1>1, WorkingFacts
  <1>3. /\ job[w] = "active" /\ RowOK(w) /\ WorkOK(work[k]) /\ work[k] # Nothing
    BY <1>1, <1>2, WorkingFacts
  <1>4. CASE Broadcast(k)
    <2>1. PICK r : r = [w |-> w, next |-> "record"]
      OBVIOUS
    <2>2. r \in Work /\ r.w = w /\ r.next = "record" /\ work' = [work EXCEPT ![k] = r]
      BY <1>2, <1>4, <2>1 DEF Work, Broadcast, Works
    <2>3. /\ sent[w] = 0 /\ reversed[w] = 0 /\ status[w] = "BROADCASTING"
          /\ sent' = [sent EXCEPT ![w] = @ + 1]
          /\ UNCHANGED <<available, status, reserved, reversed, history, job, tries, call,
                          takes, faults>>
      BY <1>2, <1>3, <1>4 DEF Broadcast, WorkOK, Unpaid, ledger, queue
    <2>4. sent' \in [Requests -> Nat] /\ sent'[w] = 1 /\ work' \in [Workers -> Work]
      BY <2>2, <2>3 DEF WithdrawalTypeOK
    <2>5. WithdrawalTypeOK'
      BY <2>3, <2>4 DEF WithdrawalTypeOK
    <2>6. Only(w) /\ RowOK(w)' /\ WorkOK(r)'
      BY <1>3, <2>2, <2>3, <2>4, WithdrawalAssumption
         DEF Only, RowOK, WorkOK, Unpaid, WithdrawalTypeOK, RequestStatus
    <2> QED
      BY <1>1, <1>2, <2>2, <2>3, <2>5, <2>6, OnwardStep
  <1>5. CASE Reverse(k)
    <2>1. PICK r : r = [w |-> w, next |-> "markReversed"]
      OBVIOUS
    <2>2. r \in Work /\ r.w = w /\ r.next = "markReversed" /\ work' = [work EXCEPT ![k] = r]
      BY <1>2, <1>5, <2>1 DEF Work, Reverse, Works
    <2>3. /\ sent[w] = 0 /\ status[w] = "BROADCASTING"
          /\ reversed' = [reversed EXCEPT ![w] = 1] /\ available' = available + Amount[w]
          /\ UNCHANGED <<status, sent, reserved, history, job, tries, call, takes, faults>>
      BY <1>2, <1>3, <1>5 DEF Reverse, Credit, WorkOK, Unpaid, queue
    <2>4. /\ reversed' \in [Requests -> Nat] /\ available' \in Nat
          /\ reversed'[w] = 1 /\ work' \in [Workers -> Work]
      <3>1. Amount[w] \in Nat
        BY WithdrawalAssumption
      <3>2. available' \in Nat
        BY <2>3, <3>1 DEF WithdrawalTypeOK
      <3> QED
        BY <2>2, <2>3, <3>2 DEF WithdrawalTypeOK
    <2>5. WithdrawalTypeOK'
      BY <2>3, <2>4 DEF WithdrawalTypeOK
    <2>6. Only(w) /\ RowOK(w)' /\ WorkOK(r)'
      BY <1>3, <2>2, <2>3, <2>4, WithdrawalAssumption
         DEF Only, RowOK, WorkOK, Unpaid, WithdrawalTypeOK, RequestStatus
    <2> QED
      BY <1>1, <1>2, <2>2, <2>3, <2>5, <2>6, OnwardStep
  <1>6. CASE Complete(k)
    <2>1. Nothing \in Work
      BY DEF Work
    <2>2. /\ work' = [work EXCEPT ![k] = Nothing] /\ status[w] = "CONFIRMING"
          /\ status' = [status EXCEPT ![w] = "COMPLETED"]
          /\ job' = [job EXCEPT ![w] = "completed"]
          /\ UNCHANGED <<available, reserved, reversed, sent, history, tries, call, takes, faults>>
      BY <1>2, <1>3, <1>6 DEF Complete, Rests, Set, WorkOK, ledger
    <2>3. WithdrawalTypeOK'
      BY <2>1, <2>2 DEF WithdrawalTypeOK, RequestStatus, JobState
    <2>4. Only(w) /\ RowOK(w)' /\ WorkOK(Nothing)'
      BY <1>3, <2>2, WithdrawalAssumption
         DEF Only, RowOK, WorkOK, Unpaid, WithdrawalTypeOK, RequestStatus
    <2>5. PICK r \in Work : r = Nothing
      BY <2>1
    <2> QED
      BY <1>1, <1>2, <2>2, <2>3, <2>4, <2>5, OnwardStep
  <1> QED
    BY <1>4, <1>5, <1>6

-----------------------------------------------------------------------------
(* The invariant                                                           *)

LEMMA InitIInv == Init => IInv
  <1> SUFFICES ASSUME Init PROVE IInv
    OBVIOUS
  <1> USE WithdrawalAssumption DEF Init
  <1>1. WithdrawalTypeOK
    BY DEF WithdrawalTypeOK, Call, Work
  <1>2. RowInv
    BY DEF RowInv, RowOK, Unpaid, RequestStatus
  <1>3. WorkInv
    BY DEF WorkInv, WorkOK
  <1>4. CallInv
    BY DEF CallInv, CallOK, Makes, Nothing
  <1> QED
    BY <1>1, <1>2, <1>3, <1>4 DEF IInv

LEMMA NextIInv ==
  ASSUME IInv, [Next]_vars
  PROVE  IInv'
  <1>1. CASE UNCHANGED vars
    BY <1>1 DEF vars, ledger, queue, IInv, WithdrawalTypeOK, RowInv, RowOK, Unpaid, CallInv,
               CallOK, WorkInv, WorkOK
  <1>2. ASSUME NEW p \in Instances, NEW w \in Requests, Ask(p, w)
        PROVE  IInv'
    BY <1>2, AskStep
  <1>3. ASSUME NEW p \in Instances, CallStep(p) \/ ReserveFails(p) \/ EnqueueFails(p)
                                    \/ InstanceStops(p)
        PROVE  IInv'
    BY <1>3, ReserveStep, MarkStep, EnqueueStep, HangStep DEF CallStep
  <1>4. ASSUME NEW k \in Workers, WorkStep(k) \/ WorkFails(k) \/ WorkerStops(k)
        PROVE  IInv'
    BY <1>4, TakeStep, LeavesStep, WriteStep, MoneyStep DEF WorkStep
  <1>5. ASSUME NEW w \in Requests, Redeliver(w)
        PROVE  IInv'
    BY <1>5, RedeliverStep
  <1> QED
    BY <1>1, <1>2, <1>3, <1>4, <1>5 DEF Next

LEMMA Inductive == Spec => []IInv
  BY InitIInv, NextIInv, PTL DEF Spec

\* Whatever stops, fails or is delivered again, every row, job and process holds
\* a value of its type and the balance is not overdrawn.
THEOREM TypeCorrect == Spec => []WithdrawalTypeOK
  BY Inductive, PTL DEF IInv

-----------------------------------------------------------------------------
(* The promise                                                             *)

\* What the promise sees of a request, by its row.
LEMMA MoneyFacts ==
  ASSUME NEW w \in Requests
  PROVE  /\ reserved[w] = 0 /\ Unpaid(w) => MoneyOf(w) = "balance"
         /\ reserved[w] = 1 /\ Unpaid(w) => MoneyOf(w) = "reserved"
         /\ reserved[w] = 1 /\ sent[w] = 1 /\ reversed[w] = 0 => MoneyOf(w) = "paid"
         /\ reserved[w] = 1 /\ sent[w] = 0 /\ reversed[w] = 1 => MoneyOf(w) = "returned"
         /\ status[w] = "COMPLETED" => ToldOf(w) = "paid"
         /\ status[w] = "REVERSED" => ToldOf(w) = "returned"
         /\ status[w] \notin {"COMPLETED", "REVERSED"} => ToldOf(w) = "nothing"
  BY DEF MoneyOf, ToldOf, Unpaid

\* The parts of a step the promise can see.
Moves(w) ==
  \/ MoneyOf(w)' = MoneyOf(w) /\ ToldOf(w)' = ToldOf(w)
  \/ MoneyOf(w) = "balance" /\ MoneyOf(w)' = "reserved" /\ ToldOf(w)' = ToldOf(w)
  \/ MoneyOf(w) = "reserved" /\ MoneyOf(w)' \in {"paid", "returned"} /\ ToldOf(w)' = ToldOf(w)
  \/ /\ MoneyOf(w) \in {"paid", "returned"} /\ MoneyOf(w)' = MoneyOf(w)
     /\ ToldOf(w) = "nothing" /\ ToldOf(w)' = MoneyOf(w)

LEMMA PromiseAt ==
  ASSUME NEW w \in Requests, Moves(w),
         \A v \in Requests \ {w} : MoneyOf(v)' = MoneyOf(v) /\ ToldOf(v)' = ToldOf(v)
  PROVE  [Promise!Next]_(Promise!vars)
  <1> DEFINE money == [v \in Requests |-> MoneyOf(v)]
             told == [v \in Requests |-> ToldOf(v)]
  <1>1. /\ money' = [money EXCEPT ![w] = MoneyOf(w)']
        /\ told' = [told EXCEPT ![w] = ToldOf(w)']
    OBVIOUS
  <1>2. MoneyOf(w)' = MoneyOf(w) => money' = money
    BY <1>1
  <1>3. ToldOf(w)' = ToldOf(w) => told' = told
    BY <1>1
  <1>4. money[w] = MoneyOf(w) /\ told[w] = ToldOf(w)
    OBVIOUS
  <1> HIDE DEF money, told
  <1>5. CASE MoneyOf(w)' = MoneyOf(w) /\ ToldOf(w)' = ToldOf(w)
    BY <1>2, <1>3, <1>5 DEF Promise!vars, money, told
  <1>6. CASE MoneyOf(w) = "balance" /\ MoneyOf(w)' = "reserved" /\ ToldOf(w)' = ToldOf(w)
    <2>1. money[w] = "balance" /\ money' = [money EXCEPT ![w] = "reserved"] /\ told' = told
      BY <1>1, <1>3, <1>4, <1>6
    <2> QED
      BY <2>1 DEF Promise!Next, Promise!Reserve, money, told
  <1>7. CASE MoneyOf(w) = "reserved" /\ MoneyOf(w)' = "paid" /\ ToldOf(w)' = ToldOf(w)
    <2>1. money[w] = "reserved" /\ money' = [money EXCEPT ![w] = "paid"] /\ told' = told
      BY <1>1, <1>3, <1>4, <1>7
    <2> QED
      BY <2>1 DEF Promise!Next, Promise!PayOut, money, told
  <1>8. CASE MoneyOf(w) = "reserved" /\ MoneyOf(w)' = "returned" /\ ToldOf(w)' = ToldOf(w)
    <2>1. money[w] = "reserved" /\ money' = [money EXCEPT ![w] = "returned"] /\ told' = told
      BY <1>1, <1>3, <1>4, <1>8
    <2> QED
      BY <2>1 DEF Promise!Next, Promise!Return, money, told
  <1>9. CASE /\ MoneyOf(w) \in {"paid", "returned"} /\ MoneyOf(w)' = MoneyOf(w)
             /\ ToldOf(w) = "nothing" /\ ToldOf(w)' = MoneyOf(w)
    <2>1. /\ money[w] \in {"paid", "returned"} /\ told[w] = "nothing"
          /\ told' = [told EXCEPT ![w] = money[w]] /\ money' = money
      BY <1>1, <1>2, <1>4, <1>9
    <2> QED
      BY <2>1 DEF Promise!Next, Promise!Tell, money, told
  <1> QED
    BY <1>5, <1>6, <1>7, <1>8, <1>9 DEF Moves

\* Only one row changes, and it moves.
LEMMA PromiseOne ==
  ASSUME NEW w \in Requests, Moves(w),
         \A v \in Requests \ {w} :
           /\ status'[v] = status[v] /\ sent'[v] = sent[v]
           /\ reserved'[v] = reserved[v] /\ reversed'[v] = reversed[v]
  PROVE  [Promise!Next]_(Promise!vars)
  BY PromiseAt DEF MoneyOf, ToldOf

\* Steps that write a status which says nothing of the money.
LEMMA SilentStep ==
  ASSUME IInv, NEW w \in Requests, NEW to \in RequestStatus \ {"COMPLETED", "REVERSED"},
         status[w] \notin {"COMPLETED", "REVERSED"},
         status' = [status EXCEPT ![w] = to], UNCHANGED <<reserved, reversed, sent>>
  PROVE  [Promise!Next]_(Promise!vars)
  <1>1. status'[w] = to /\ \A v \in Requests \ {w} : status'[v] = status[v]
    BY DEF IInv, WithdrawalTypeOK
  <1>2. MoneyOf(w)' = MoneyOf(w)
    BY DEF MoneyOf
  <1>3. ToldOf(w)' = "nothing" /\ ToldOf(w) = "nothing"
    BY <1>1 DEF ToldOf
  <1> QED
    BY <1>1, <1>2, <1>3, PromiseOne DEF Moves

\* The amount leaves the balance.
LEMMA DebitPromise ==
  ASSUME IInv, NEW w \in Requests, Debit(w), status[w] = "PENDING", reserved[w] = 0,
         UNCHANGED <<status, sent>>
  PROVE  [Promise!Next]_(Promise!vars)
  <1>1. Unpaid(w) /\ Unpaid(w)'
    BY DEF IInv, RowInv, RowOK, Debit, Unpaid
  <1>2. reserved'[w] = 1 /\ \A v \in Requests \ {w} : reserved'[v] = reserved[v]
    BY DEF IInv, WithdrawalTypeOK, Debit
  <1>3. MoneyOf(w) = "balance" /\ MoneyOf(w)' = "reserved"
    BY <1>1, <1>2 DEF MoneyOf, Unpaid
  <1>4. ToldOf(w)' = ToldOf(w)
    BY DEF ToldOf
  <1> QED
    BY <1>2, <1>3, <1>4, PromiseOne DEF Moves, Debit

\* The amount goes back to the balance.
LEMMA CreditPromise ==
  ASSUME IInv, NEW w \in Requests, Credit(w), reserved[w] = 1, Unpaid(w),
         UNCHANGED <<status, sent>>
  PROVE  [Promise!Next]_(Promise!vars)
  <1>1. reversed'[w] = 1 /\ \A v \in Requests \ {w} : reversed'[v] = reversed[v]
    BY DEF IInv, WithdrawalTypeOK, Credit
  <1>2. MoneyOf(w) = "reserved" /\ MoneyOf(w)' = "returned"
    BY <1>1 DEF MoneyOf, Unpaid, Credit
  <1>3. ToldOf(w)' = ToldOf(w)
    BY DEF ToldOf
  <1> QED
    BY <1>1, <1>2, <1>3, PromiseOne DEF Moves, Credit

\* The amount is paid out.
LEMMA BroadcastPromise ==
  ASSUME IInv, NEW k \in Workers, Broadcast(k)
  PROVE  [Promise!Next]_(Promise!vars)
  <1>1. PICK w \in Requests : w = work[k].w
    BY WorkingFacts DEF Broadcast
  <1>2. status[w] = "BROADCASTING" /\ Unpaid(w) /\ RowOK(w)
    BY <1>1, WorkingFacts DEF Broadcast, WorkOK
  <1>3. reserved[w] = 1
    BY <1>2, WithdrawalAssumption DEF RowOK, RequestStatus
  <1>4. sent'[w] = 1 /\ \A v \in Requests \ {w} : sent'[v] = sent[v]
    BY <1>1, <1>2 DEF IInv, WithdrawalTypeOK, Broadcast, Unpaid
  <1>5. MoneyOf(w) = "reserved" /\ MoneyOf(w)' = "paid"
    BY <1>2, <1>3, <1>4 DEF MoneyOf, Unpaid, Broadcast, ledger
  <1>6. ToldOf(w)' = ToldOf(w)
    BY DEF ToldOf, Broadcast
  <1> QED
    BY <1>4, <1>5, <1>6, PromiseOne DEF Moves, Broadcast, ledger

\* The request says what has become of its amount.
LEMMA TellPromise ==
  ASSUME IInv, NEW k \in Workers, MarkReversed(k) \/ Complete(k)
  PROVE  [Promise!Next]_(Promise!vars)
  <1>1. PICK w \in Requests : w = work[k].w
    BY WorkingFacts DEF MarkReversed, Complete
  <1>2. RowOK(w) /\ WorkOK(work[k]) /\ work[k] # Nothing
    BY <1>1, WorkingFacts DEF MarkReversed, Complete
  <1>3. UNCHANGED <<reserved, reversed, sent>>
    BY DEF MarkReversed, Complete, ledger
  <1>4. MoneyOf(w)' = MoneyOf(w)
    BY <1>3 DEF MoneyOf
  <1>5. CASE MarkReversed(k)
    <2>1. status[w] = "BROADCASTING" /\ sent[w] = 0 /\ reversed[w] = 1
      BY <1>1, <1>2, <1>5 DEF MarkReversed, WorkOK
    <2>2. reserved[w] = 1
      BY <1>2, <2>1, WithdrawalAssumption DEF RowOK, RequestStatus
    <2>3. status'[w] = "REVERSED" /\ \A v \in Requests \ {w} : status'[v] = status[v]
      BY <1>1, <1>5 DEF MarkReversed, Set, IInv, WithdrawalTypeOK
    <2>4. MoneyOf(w) = "returned" /\ ToldOf(w) = "nothing" /\ ToldOf(w)' = "returned"
      BY <2>1, <2>2, <2>3 DEF MoneyOf, ToldOf
    <2> QED
      BY <1>3, <1>4, <2>3, <2>4, PromiseOne DEF Moves
  <1>6. CASE Complete(k)
    <2>1. status[w] = "CONFIRMING"
      BY <1>1, <1>2, <1>6 DEF Complete, WorkOK
    <2>2. reserved[w] = 1 /\ sent[w] = 1 /\ reversed[w] = 0
      BY <1>2, <2>1, WithdrawalAssumption DEF RowOK, RequestStatus
    <2>3. status'[w] = "COMPLETED" /\ \A v \in Requests \ {w} : status'[v] = status[v]
      BY <1>1, <1>6 DEF Complete, Set, IInv, WithdrawalTypeOK
    <2>4. MoneyOf(w) = "paid" /\ ToldOf(w) = "nothing" /\ ToldOf(w)' = "paid"
      BY <2>1, <2>2, <2>3 DEF MoneyOf, ToldOf
    <2> QED
      BY <1>3, <1>4, <2>3, <2>4, PromiseOne DEF Moves
  <1> QED
    BY <1>5, <1>6

\* Every step is a step of the promise, or one it does not see.
LEMMA PromiseStep ==
  ASSUME IInv, [Next]_vars
  PROVE  [Promise!Next]_(Promise!vars)
  <1>1. CASE UNCHANGED <<status, reserved, reversed, sent>>
    BY <1>1 DEF Promise!vars, MoneyOf, ToldOf
  <1>2. ASSUME NEW p \in Instances, NEW w \in Requests, Ask(p, w)
        PROVE  [Promise!Next]_(Promise!vars)
    BY <1>2, SilentStep, WithdrawalAssumption DEF Ask, Set, ledger, RequestStatus
  <1>3. ASSUME NEW p \in Instances, Reserve(p) \/ ReserveFails(p)
        PROVE  [Promise!Next]_(Promise!vars)
    <2>1. PICK w \in Requests : w = call[p].w
      BY <1>3, MakingFacts DEF Reserve, ReserveFails, Makes
    <2>2. status[w] = "PENDING" /\ reserved[w] = 0
      BY <1>3, <2>1, MakingFacts DEF Reserve, ReserveFails, Makes, CallOK
    <2>3. Debit(w) \/ UNCHANGED ledger
      BY <1>3, <2>1 DEF Reserve, ReserveFails
    <2>4. UNCHANGED <<status, sent>>
      BY <1>3 DEF Reserve, ReserveFails
    <2> QED
      BY <1>1, <2>2, <2>3, <2>4, DebitPromise DEF ledger
  <1>4. ASSUME NEW p \in Instances, MarkFailed(p) \/ MarkQueued(p)
        PROVE  [Promise!Next]_(Promise!vars)
    <2>1. PICK w \in Requests : w = call[p].w
      BY <1>4, MakingFacts DEF MarkFailed, MarkQueued, Makes
    <2>2. status[w] = "PENDING"
      BY <1>4, <2>1, MakingFacts DEF MarkFailed, MarkQueued, Makes, CallOK
    <2> QED
      BY <1>4, <2>1, <2>2, SilentStep DEF MarkFailed, MarkQueued, Set, ledger, RequestStatus
  <1>5. ASSUME NEW k \in Workers, MarkBroadcasting(k) \/ Record(k)
        PROVE  [Promise!Next]_(Promise!vars)
    <2>1. PICK w \in Requests : w = work[k].w
      BY <1>5, WorkingFacts DEF MarkBroadcasting, Record
    <2>2. status[w] \in {"QUEUED", "BROADCASTING"}
      BY <1>5, <2>1, WorkingFacts DEF MarkBroadcasting, Record, WorkOK
    <2> QED
      BY <1>5, <2>1, <2>2, SilentStep DEF MarkBroadcasting, Record, Set, ledger, RequestStatus
  <1>6. ASSUME NEW k \in Workers, work[k].next = "reverse", Credit(work[k].w),
               UNCHANGED <<status, sent>>
        PROVE  [Promise!Next]_(Promise!vars)
    <2>1. PICK w \in Requests : w = work[k].w
      BY <1>6, WorkingFacts
    <2>2. status[w] = "BROADCASTING" /\ Unpaid(w) /\ RowOK(w)
      BY <1>6, <2>1, WorkingFacts DEF WorkOK
    <2>3. reserved[w] = 1
      BY <2>2, WithdrawalAssumption DEF RowOK, RequestStatus
    <2> QED
      BY <1>6, <2>1, <2>2, <2>3, CreditPromise
  <1>7. ASSUME NEW k \in Workers, Broadcast(k) \/ MarkReversed(k) \/ Complete(k)
        PROVE  [Promise!Next]_(Promise!vars)
    BY <1>7, BroadcastPromise, TellPromise
  <1>8. ASSUME NEW k \in Workers, WorkStep(k) \/ WorkFails(k) \/ WorkerStops(k)
        PROVE  [Promise!Next]_(Promise!vars)
    BY <1>1, <1>5, <1>6, <1>7, <1>8
       DEF WorkStep, Take, NoHandler, CheckRequest, BroadcastFails, Reverse, NoteFailed,
           NoteConfirmed, WorkFails, WorkerStops, ledger
  <1>9. ASSUME NEW p \in Instances,
               CallStep(p) \/ ReserveFails(p) \/ EnqueueFails(p) \/ InstanceStops(p)
        PROVE  [Promise!Next]_(Promise!vars)
    BY <1>1, <1>3, <1>4, <1>9 DEF CallStep, Enqueue, EnqueueFails, Note, InstanceStops, ledger
  <1> QED
    BY <1>1, <1>2, <1>8, <1>9 DEF Next, Redeliver, vars, ledger

\* However often a job is tried or delivered, and wherever a process stops, an
\* amount is paid out or returned, never both and never twice, and the request
\* says only what has happened.
THEOREM WithdrawalKeepsPayout == Spec => KeepsPayout
  <1>1. Init => Promise!Init
    BY WithdrawalAssumption DEF Init, Promise!Init, MoneyOf, ToldOf, RequestStatus
  <1>2. IInv /\ [Next]_vars => [Promise!Next]_(Promise!vars)
    BY PromiseStep
  <1> QED
    BY Inductive, <1>1, <1>2, PTL DEF Spec, KeepsPayout, Promise!Spec

-----------------------------------------------------------------------------
(* The ledger                                                              *)

\* The keys the ledger has executed.
Used ==
  {<<"reserve", w>> : w \in {v \in Requests : reserved[v] > 0}}
    \cup {<<"reverse", w>> : w \in {v \in Requests : reversed[v] > 0}}

\* A covered operation that is not done yet happens at once.
LEMMA LedgerAt ==
  ASSUME NEW w \in Requests, NEW k, NEW n \in Int, available \in Nat,
         \/ k = <<"reserve", w>> /\ n = -Amount[w]
         \/ k = <<"reverse", w>> /\ n = Amount[w] /\ <<"reserve", w>> \in Used,
         k \notin Used, Used' = Used \cup {k},
         available + n >= 0, available' = available + n
  PROVE  [Ledger!Next]_(Ledger!vars)
  <1>1. PICK e : e = Moved(n)
    OBVIOUS
  <1>2. \A s \in {"available"} : Moved(available)[s] + e[s] >= 0
    BY <1>1 DEF Moved
  <1>3. Moved(available)' = [s \in {"available"} |-> Moved(available)[s] + e[s]]
    BY <1>1 DEF Moved
  <1>4. \A r \in {<<<<"reverse", v>>, <<"reserve", v>>>> : v \in Requests} :
          r[1] = k => r[2] \in Used
    OBVIOUS
  <1>5. Ledger!Execute(k, e)
    BY <1>2, <1>3, <1>4 DEF Ledger!Execute, Used
  <1>6. PICK op : op = <<k, e>>
    OBVIOUS
  <1>7. op \in {<<<<"reserve", v>>, Moved(-Amount[v])>> : v \in Requests}
                 \cup {<<<<"reverse", v>>, Moved(Amount[v])>> : v \in Requests}
    BY <1>1, <1>6
  <1>8. Ledger!Execute(op[1], op[2])
    BY <1>5, <1>6
  <1> QED
    BY <1>7, <1>8 DEF Ledger!Next

LEMMA LedgerDebit ==
  ASSUME IInv, NEW w \in Requests, Debit(w), reserved[w] = 0
  PROVE  [Ledger!Next]_(Ledger!vars)
  <1>1. reserved' = [reserved EXCEPT ![w] = 1] /\ reversed' = reversed
    BY DEF Debit, IInv, WithdrawalTypeOK
  <1>2. Used' = Used \cup {<<"reserve", w>>} /\ <<"reserve", w>> \notin Used
    BY <1>1 DEF Used, IInv, WithdrawalTypeOK
  <1>3. /\ available \in Nat /\ -Amount[w] \in Int
        /\ available + -Amount[w] >= 0 /\ available' = available + -Amount[w]
    <2>1. available \in Nat /\ Amount[w] \in Nat
      BY WithdrawalAssumption DEF IInv, WithdrawalTypeOK
    <2> QED
      BY <2>1 DEF Debit
  <1> QED
    BY <1>2, <1>3, LedgerAt

LEMMA LedgerCredit ==
  ASSUME IInv, NEW w \in Requests, Credit(w), reserved[w] = 1
  PROVE  [Ledger!Next]_(Ledger!vars)
  <1>1. reversed[w] = 0 /\ reversed' = [reversed EXCEPT ![w] = 1] /\ reserved' = reserved
    BY DEF Credit
  <1>2. /\ Used' = Used \cup {<<"reverse", w>>} /\ <<"reverse", w>> \notin Used
        /\ <<"reserve", w>> \in Used
    BY <1>1 DEF Used, IInv, WithdrawalTypeOK
  <1>3. /\ available \in Nat /\ Amount[w] \in Int
        /\ available + Amount[w] >= 0 /\ available' = available + Amount[w]
    <2>1. available \in Nat /\ Amount[w] \in Nat
      BY WithdrawalAssumption DEF IInv, WithdrawalTypeOK
    <2> QED
      BY <2>1 DEF Credit
  <1> QED
    BY <1>2, <1>3, LedgerAt

\* The row of a request says that its amount was reserved before a worker returns it.
LEMMA LedgerStep ==
  ASSUME IInv, [Next]_vars
  PROVE  [Ledger!Next]_(Ledger!vars)
  <1>1. CASE UNCHANGED ledger
    BY <1>1 DEF Ledger!vars, ledger, Moved
  <1>2. ASSUME NEW p \in Instances, Reserve(p) \/ ReserveFails(p)
        PROVE  [Ledger!Next]_(Ledger!vars)
    <2>1. PICK w \in Requests : w = call[p].w
      BY <1>2, MakingFacts DEF Reserve, ReserveFails, Makes
    <2>2. reserved[w] = 0
      BY <1>2, <2>1, MakingFacts DEF Reserve, ReserveFails, Makes, CallOK
    <2>3. Debit(w) \/ UNCHANGED ledger
      BY <1>2, <2>1 DEF Reserve, ReserveFails
    <2> QED
      BY <1>1, <2>2, <2>3, LedgerDebit
  <1>3. ASSUME NEW p \in Instances,
               \/ CallStep(p) \/ ReserveFails(p) \/ EnqueueFails(p) \/ InstanceStops(p)
               \/ \E w \in Requests : Ask(p, w)
        PROVE  [Ledger!Next]_(Ledger!vars)
    BY <1>1, <1>2, <1>3
       DEF CallStep, MarkFailed, MarkQueued, Enqueue, EnqueueFails, Note, InstanceStops, Ask
  <1>4. ASSUME NEW k \in Workers, work[k].next = "reverse", Credit(work[k].w)
        PROVE  [Ledger!Next]_(Ledger!vars)
    <2>1. PICK w \in Requests : w = work[k].w
      BY <1>4, WorkingFacts
    <2>2. status[w] = "BROADCASTING" /\ RowOK(w)
      BY <1>4, <2>1, WorkingFacts DEF WorkOK
    <2>3. reserved[w] = 1
      BY <2>2, WithdrawalAssumption DEF RowOK, RequestStatus
    <2> QED
      BY <1>4, <2>1, <2>3, LedgerCredit
  <1>5. ASSUME NEW k \in Workers, WorkStep(k) \/ WorkFails(k) \/ WorkerStops(k)
        PROVE  UNCHANGED ledger \/ (work[k].next = "reverse" /\ Credit(work[k].w))
    <2>1. (WorkStep(k) /\ ~Reverse(k)) \/ WorkerStops(k) => UNCHANGED ledger
      BY DEF WorkStep, Take, NoHandler, CheckRequest, MarkBroadcasting, Broadcast, BroadcastFails,
             MarkReversed, NoteFailed, Record, NoteConfirmed, Complete, WorkerStops
    <2> QED
      BY <1>5, <2>1 DEF Reverse, WorkFails
  <1> QED
    BY <1>1, <1>3, <1>4, <1>5 DEF Next, Redeliver, vars

\* With every retry, repeated delivery and lost answer, the ledger is used as it is to
\* be: an amount is reserved once and while it is covered, and returned once and after it.
THEOREM WithdrawalUsesLedger == Spec => UsesLedger
  <1>1. Init => Ledger!Init
    <2> SUFFICES ASSUME Init PROVE Ledger!Init
      OBVIOUS
    <2>1. Used = {} /\ available = Funds
      BY DEF Init, Used
    <2> QED
      BY <2>1 DEF Ledger!Init, Used
  <1>2. IInv /\ [Next]_vars => [Ledger!Next]_(Ledger!vars)
    BY LedgerStep
  <1> QED
    BY Inductive, <1>1, <1>2, PTL DEF Spec, UsesLedger, Ledger!Spec

-----------------------------------------------------------------------------
(* The user's history                                                      *)

\* Payments and returns are never taken back.
LEMMA Forward ==
  ASSUME IInv, [Next]_vars
  PROVE  \A v \in Requests :
           (sent[v] > 0 => sent'[v] > 0) /\ (reversed[v] > 0 => reversed'[v] > 0)
  <1>1. CASE UNCHANGED <<sent, reversed>>
    BY <1>1
  <1>2. ASSUME NEW w \in Requests, Credit(w), UNCHANGED sent
        PROVE  \A v \in Requests :
                 (sent[v] > 0 => sent'[v] > 0) /\ (reversed[v] > 0 => reversed'[v] > 0)
    BY <1>2 DEF Credit, IInv, WithdrawalTypeOK
  <1>3. ASSUME NEW k \in Workers, Broadcast(k)
        PROVE  \A v \in Requests :
                 (sent[v] > 0 => sent'[v] > 0) /\ (reversed[v] > 0 => reversed'[v] > 0)
    BY <1>3 DEF Broadcast, ledger, IInv, WithdrawalTypeOK
  <1>4. ASSUME NEW k \in Workers, WorkStep(k) \/ WorkFails(k) \/ WorkerStops(k)
        PROVE  \/ UNCHANGED <<sent, reversed>> \/ Broadcast(k)
               \/ Credit(work[k].w) /\ work[k].next = "reverse" /\ UNCHANGED sent
    BY <1>4 DEF WorkStep, Take, NoHandler, CheckRequest, MarkBroadcasting, BroadcastFails, Reverse,
                MarkReversed, NoteFailed, Record, NoteConfirmed, Complete, WorkFails, WorkerStops,
                ledger
  <1>5. ASSUME NEW k \in Workers, WorkStep(k) \/ WorkFails(k) \/ WorkerStops(k)
        PROVE  \A v \in Requests :
                 (sent[v] > 0 => sent'[v] > 0) /\ (reversed[v] > 0 => reversed'[v] > 0)
    BY <1>1, <1>2, <1>3, <1>4, <1>5, WorkingFacts
  <1>6. ASSUME NEW p \in Instances,
               \/ CallStep(p) \/ ReserveFails(p) \/ EnqueueFails(p) \/ InstanceStops(p)
               \/ \E w \in Requests : Ask(p, w)
        PROVE  UNCHANGED <<sent, reversed>>
    BY <1>6 DEF CallStep, Reserve, ReserveFails, Debit, MarkFailed, MarkQueued, Enqueue,
                EnqueueFails, Note, InstanceStops, Ask, ledger
  <1> QED
    BY <1>1, <1>5, <1>6 DEF Next, Redeliver, vars, ledger

LEMMA CauseStep ==
  ASSUME IInv, HistoryHasCause, [Next]_vars
  PROVE  HistoryHasCause'
  <1>1. \A v \in Requests :
          (sent[v] > 0 => sent'[v] > 0) /\ (reversed[v] > 0 => reversed'[v] > 0)
    BY Forward
  <1>2. CASE UNCHANGED history
    BY <1>1, <1>2 DEF HistoryHasCause
  <1>3. ASSUME NEW p \in Instances, Note(p)
        PROVE  HistoryHasCause'
    BY <1>1, <1>3 DEF Note, HistoryHasCause, IInv, WithdrawalTypeOK
  <1>4. ASSUME NEW k \in Workers, NoteFailed(k)
        PROVE  HistoryHasCause'
    <2>1. PICK w \in Requests : w = work[k].w
      BY <1>4, WorkingFacts DEF NoteFailed
    <2>2. status[w] = "REVERSED" /\ RowOK(w)
      BY <1>4, <2>1, WorkingFacts DEF NoteFailed, WorkOK
    <2>3. reversed[w] > 0
      BY <2>2 DEF RowOK
    <2>4. history' = [v \in Requests |-> IF history[v] = "PENDING" /\ Amount[v] = Amount[w]
                                         THEN "FAILED" ELSE history[v]]
      BY <1>4, <2>1 DEF NoteFailed, Settled
    <2> QED
      BY <1>1, <2>3, <2>4 DEF HistoryHasCause
  <1>5. ASSUME NEW k \in Workers, NoteConfirmed(k)
        PROVE  HistoryHasCause'
    <2>1. PICK w \in Requests : w = work[k].w
      BY <1>5, WorkingFacts DEF NoteConfirmed
    <2>2. status[w] = "CONFIRMING" /\ RowOK(w)
      BY <1>5, <2>1, WorkingFacts DEF NoteConfirmed, WorkOK
    <2>3. sent[w] > 0
      BY <2>2 DEF RowOK
    <2>4. history' = [v \in Requests |-> IF history[v] = "PENDING" /\ Amount[v] = Amount[w]
                                         THEN "CONFIRMED" ELSE history[v]]
      BY <1>5, <2>1 DEF NoteConfirmed, Settled
    <2> QED
      BY <1>1, <2>3, <2>4 DEF HistoryHasCause
  <1>6. ASSUME NEW k \in Workers, WorkStep(k) \/ WorkFails(k) \/ WorkerStops(k)
        PROVE  UNCHANGED history \/ NoteFailed(k) \/ NoteConfirmed(k)
    BY <1>6 DEF WorkStep, Take, NoHandler, CheckRequest, MarkBroadcasting, Broadcast,
                BroadcastFails, Reverse, MarkReversed, Record, Complete, WorkFails, WorkerStops
  <1>7. ASSUME NEW p \in Instances,
               \/ CallStep(p) \/ ReserveFails(p) \/ EnqueueFails(p) \/ InstanceStops(p)
               \/ \E w \in Requests : Ask(p, w)
        PROVE  UNCHANGED history \/ Note(p)
    BY <1>7 DEF CallStep, Reserve, ReserveFails, MarkFailed, MarkQueued, Enqueue, EnqueueFails,
                InstanceStops, Ask
  <1> QED
    BY <1>2, <1>3, <1>4, <1>5, <1>6, <1>7 DEF Next, Redeliver, vars

\* A settled row of the user's history has a request of its amount that ended
\* like that, in whatever order the requests, the jobs and the history come.
THEOREM SettledRowsHaveCause == Spec => []HistoryHasCause
  <1>1. Init => HistoryHasCause
    BY WithdrawalAssumption DEF Init, HistoryHasCause, RequestStatus
  <1>2. IInv /\ HistoryHasCause /\ [Next]_vars => HistoryHasCause'
    BY CauseStep
  <1> QED
    BY Inductive, <1>1, <1>2, PTL DEF Spec
=============================================================================
