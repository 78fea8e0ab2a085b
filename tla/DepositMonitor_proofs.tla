------------------------- MODULE DepositMonitor_proofs -------------------------
(***************************************************************************)
(* What holds of DepositMonitor for every set of transfers and any number  *)
(* of overlapping polls, faults and restarts.                              *)
(***************************************************************************)
EXTENDS DepositMonitor, TLAPS

-----------------------------------------------------------------------------
(* The inductive invariant                                                 *)

\* A transfer about to be credited is deep enough, and each part of a poll looks
\* at its own chain.
Good(r) ==
  /\ r \in PollRecord /\ r.mark <= head
  /\ r.item = None <=> r.does = "look"
  /\ r.does \in {"credit", "confirm"} => Deep(r.item, head)
  /\ r.at = "tron" => r.todo \subseteq Trc20
  /\ r.at = "bsc" => r.todo \subseteq Bep20
PollInv == \A p \in Polls : Good(poll[p])

\* What a scan of BSC has behind it is recorded, and the rest is still to do.
Behind(r) ==
  r.at = "bsc" =>
    \A t \in Bep20 : block[t] \in 1 .. r.mark =>
      \/ row[t] # None \/ t \in passedBy
      \/ t \in r.todo /\ Scanned(block[t], r.after, r.mark)
      \/ t = r.item
ScanInv == \A p \in Polls : Behind(poll[p])

IInv ==
  DepositTypeOK /\ PollInv /\ ConfirmedIsCredited /\ CreditedIsFinal /\ ScanInv /\ ScannedIsRecorded

-----------------------------------------------------------------------------
(* The chains move                                                         *)

LEMMA NewBlockStep ==
  ASSUME IInv, NewBlock
  PROVE  IInv'
  <1> USE DepositAssumption DEF IInv, chain, books, cursors, Transfers
  <1>1. /\ head \in Nat /\ head' = head + 1
        /\ \A t \in Transfers : block[t] \in 0 .. head /\ block'[t] \in {block[t], head + 1}
        /\ \A t \in Transfers : block[t] > 0 => block'[t] = block[t]
        /\ UNCHANGED <<row, times, lastSeen, lastBlock, poll, passedBy, faults>>
    BY DEF NewBlock, DepositTypeOK, OnChain
  <1>2. DepositTypeOK'
    <2>1. block' \in [Transfers -> 0 .. head']
      BY <1>1 DEF NewBlock, DepositTypeOK
    <2>2. \A p \in Polls : poll[p].mark \in Nat /\ poll[p].mark <= head
      BY DEF DepositTypeOK, PollRecord
    <2>3. \A p \in Polls : poll'[p].mark <= head'
      BY <1>1, <2>2
    <2> QED
      BY <1>1, <2>1, <2>3 DEF DepositTypeOK, Never
  <1>3. \A t \in Transfers : Deep(t, head) => Deep(t, head)'
    BY <1>1 DEF Deep, OnChain, RequiredConfs
  <1>4. PollInv'
    <2> SUFFICES ASSUME NEW p \in Polls
                 PROVE  Good(poll[p])'
      BY <1>1 DEF PollInv
    <2>1. Good(poll[p])
      BY DEF PollInv
    <2>2. poll[p].does \in {"credit", "confirm"} => poll[p].item \in Transfers
      BY <2>1 DEF Good, PollRecord
    <2>3. poll[p].mark \in Nat
      BY <2>1 DEF Good, PollRecord
    <2> QED
      BY <1>1, <1>3, <2>1, <2>2, <2>3 DEF Good
  <1>5. ConfirmedIsCredited' /\ CreditedIsFinal'
    BY <1>1, <1>3 DEF ConfirmedIsCredited, CreditedIsFinal
  <1>6. ScanInv'
    <2>1. \A p \in Polls : poll[p].mark \in Nat /\ poll[p].mark <= head
      BY DEF DepositTypeOK, PollRecord
    <2>2. ASSUME NEW p \in Polls, NEW t \in Bep20, block'[t] \in 1 .. poll[p].mark
          PROVE  block'[t] = block[t]
      BY <1>1, <2>1, <2>2
    <2> QED
      BY <1>1, <2>2 DEF ScanInv, Behind, Scanned
  <1>7. ScannedIsRecorded'
    BY <1>1 DEF ScannedIsRecorded, DepositTypeOK, Never
  <1> QED
    BY <1>2, <1>4, <1>5, <1>6, <1>7

LEMMA ReorganiseStep ==
  ASSUME IInv, NEW r \in Transfers, Reorganise(r)
  PROVE  IInv'
  <1> USE DepositAssumption DEF IInv, chain, books, cursors, Transfers
  <1>1. /\ ~Deep(r, head) /\ head \in Nat
        /\ block'[r] \in 0 .. head /\ block' \in [Transfers -> 0 .. head]
        /\ \A t \in Transfers \ {r} : block'[t] = block[t]
        /\ UNCHANGED <<head, row, times, lastSeen, lastBlock, poll>>
        /\ faults' \in Nat
    BY DEF Reorganise, Fault, DepositTypeOK
  <1>2. /\ passedBy \subseteq passedBy' /\ passedBy' \subseteq Bep20
        /\ (block'[r] > 0 /\ r \in Bep20 /\ row[r] = None) => r \in passedBy'
    BY DEF Reorganise, PassBy, DepositTypeOK
  <1>3. DepositTypeOK'
    BY <1>1, <1>2 DEF DepositTypeOK
  <1>4. \A t \in Transfers : Deep(t, head) => Deep(t, head)'
    BY <1>1 DEF Deep, OnChain, RequiredConfs
  <1>5. PollInv'
    <2> SUFFICES ASSUME NEW p \in Polls
                 PROVE  Good(poll[p])'
      BY <1>1 DEF PollInv
    <2>1. Good(poll[p])
      BY DEF PollInv
    <2>2. poll[p].does \in {"credit", "confirm"} => poll[p].item \in Transfers
      BY <2>1 DEF Good, PollRecord
    <2> QED
      BY <1>1, <1>4, <2>1, <2>2 DEF Good
  <1>6. ConfirmedIsCredited' /\ CreditedIsFinal'
    BY <1>1, <1>4 DEF ConfirmedIsCredited, CreditedIsFinal
  <1>7. ScanInv'
    <2> SUFFICES ASSUME NEW p \in Polls, NEW t \in Bep20,
                        poll[p].at = "bsc", block'[t] \in 1 .. poll[p].mark
                 PROVE  \/ row[t] # None \/ t \in passedBy'
                        \/ t \in poll[p].todo /\ Scanned(block'[t], poll[p].after, poll[p].mark)
                        \/ t = poll[p].item
      BY <1>1 DEF ScanInv, Behind, Scanned
    <2>1. CASE t = r
      BY <1>2, <2>1
    <2>2. CASE t # r
      BY <1>1, <1>2, <2>2 DEF ScanInv, Behind
    <2> QED
      BY <2>1, <2>2
  <1>8. ScannedIsRecorded'
    <2> SUFFICES ASSUME NEW t \in Bep20, block'[t] \in 1 .. lastBlock
                 PROVE  row[t] # None \/ t \in passedBy'
      BY <1>1 DEF ScannedIsRecorded
    <2>1. CASE t = r
      BY <1>2, <2>1
    <2>2. CASE t # r
      BY <1>1, <1>2, <2>2 DEF ScannedIsRecorded
    <2> QED
      BY <2>1, <2>2
  <1> QED
    BY <1>3, <1>5, <1>6, <1>7, <1>8
-----------------------------------------------------------------------------
(* A poll goes on                                                          *)

\* A step that changes no row and no cursor needs a look at its own poll only.
LEMMA QuietStep ==
  ASSUME IInv, NEW p \in Polls, NEW r,
         poll' = [poll EXCEPT ![p] = r],
         UNCHANGED <<chain, books, cursors>>,
         passedBy \subseteq passedBy', passedBy' \subseteq Bep20, faults' \in Nat,
         Good(r), Behind(r)'
  PROVE  IInv'
  <1> USE DEF IInv, chain, books, cursors
  <1>1. poll'[p] = r /\ \A q \in Polls : q # p => poll'[q] = poll[q]
    BY DEF DepositTypeOK
  <1>2. DepositTypeOK'
    <2>1. r \in PollRecord /\ r.mark <= head
      BY DEF Good
    <2>2. poll' \in [Polls -> PollRecord]
      BY <2>1 DEF DepositTypeOK
    <2> QED
      BY <1>1, <2>1, <2>2 DEF DepositTypeOK
  <1>3. PollInv'
    BY <1>1 DEF PollInv, Good, Deep, OnChain
  <1>4. ScanInv'
    <2> SUFFICES ASSUME NEW q \in Polls
                 PROVE  Behind(poll[q])'
      BY DEF ScanInv
    <2>1. CASE q = p
      BY <1>1, <2>1
    <2>2. CASE q # p
      BY <1>1, <2>2 DEF ScanInv, Behind
    <2> QED
      BY <2>1, <2>2
  <1>5. ConfirmedIsCredited' /\ CreditedIsFinal' /\ ScannedIsRecorded'
    BY DEF ConfirmedIsCredited, CreditedIsFinal, ScannedIsRecorded, Deep, OnChain
  <1> QED
    BY <1>2, <1>3, <1>4, <1>5

\* Processing a transfer whose depth is known keeps what the scan has to know.
LEMMA ProcessStep ==
  ASSUME IInv, NEW p \in Polls, NEW t \in poll[p].todo, NEW status, NEW deep \in BOOLEAN,
         Looking(p, poll[p].at), Process(p, t, status, deep),
         deep => Deep(t, head),
         poll[p].at = "bsc" /\ status # None => row[t] # None,
         status \in {None, "PENDING", "CONFIRMED"},
         UNCHANGED <<chain, books, cursors, passedBy>>, faults' \in Nat
  PROVE  IInv'
  <1> USE DepositAssumption DEF Looking
  <1>1. Good(poll[p]) /\ Behind(poll[p]) /\ t \in Transfers
    BY DEF IInv, PollInv, ScanInv, Good, PollRecord
  <1>2. poll \in [Polls -> PollRecord] /\ passedBy \subseteq Bep20
    BY DEF IInv, DepositTypeOK
  <1>3. CASE Wanted(status, deep) = "nothing"
    <2> PICK r : r = [poll[p] EXCEPT !.todo = @ \ {t}]
      OBVIOUS
    <2>1. poll' = [poll EXCEPT ![p] = r]
      BY <1>2, <1>3 DEF Process, Skip
    <2>2. status # None
      BY <1>3 DEF Wanted
    <2>3. Good(r)
      BY <1>1 DEF Good, PollRecord
    <2>4. Behind(r)'
      BY <1>1, <2>2 DEF Behind, chain, books, PollRecord, Good
    <2> QED
      BY <1>2, <2>1, <2>3, <2>4, QuietStep
  <1>4. CASE Wanted(status, deep) # "nothing"
    <2> DEFINE d == Wanted(status, deep)
    <2> PICK r : r = [poll[p] EXCEPT !.todo = @ \ {t}, !.item = t, !.does = d]
      OBVIOUS
    <2>1. poll' = [poll EXCEPT ![p] = r]
      BY <1>2, <1>4 DEF Process, Take
    <2>2. d \in {"record", "credit", "confirm"} /\ (d \in {"credit", "confirm"} => Deep(t, head))
      BY <1>4 DEF Wanted
    <2>3. Good(r)
      BY <1>1, <2>2 DEF Good, PollRecord
    <2>4. Behind(r)'
      <3>1. /\ r.at = poll[p].at /\ r.mark = poll[p].mark /\ r.after = poll[p].after
            /\ r.todo = poll[p].todo \ {t} /\ r.item = t
        BY <1>1 DEF Good, PollRecord
      <3>2. \A u \in Bep20 : u # poll[p].item
        BY DEF Transfers
      <3> QED
        BY <1>1, <3>1, <3>2 DEF Behind, chain, books
    <2> QED
      BY <1>2, <2>1, <2>3, <2>4, QuietStep
  <1> QED
    BY <1>3, <1>4

LEMMA LookStep ==
  ASSUME IInv, NEW p \in Polls, NEW t \in Transfers,
         LookTron(p, t) \/ LookBsc(p, t) \/ LookBadly(p, t)
  PROVE  IInv'
  <1> USE DepositAssumption
  <1>1. /\ Looking(p, poll[p].at) /\ t \in poll[p].todo
        /\ UNCHANGED <<chain, books, cursors, passedBy>> /\ faults' \in Nat
    <2>1. faults \in Nat
      BY DEF IInv, DepositTypeOK
    <2>2. CASE LookTron(p, t)
      BY <2>1, <2>2 DEF LookTron, Looking
    <2>3. CASE LookBsc(p, t)
      BY <2>1, <2>3 DEF LookBsc, Looking
    <2>4. CASE LookBadly(p, t)
      BY <2>1, <2>4 DEF LookBadly, Looking, Fault
    <2> QED
      BY <2>2, <2>3, <2>4
  <1>2. Good(poll[p]) /\ Behind(poll[p])
    BY DEF IInv, PollInv, ScanInv
  <1>3. Deep(t, poll[p].mark) => Deep(t, head)
    BY <1>2 DEF IInv, DepositTypeOK, Good, PollRecord, Deep, OnChain, RequiredConfs, Transfers
  <1>4. row[t] \in {None, "PENDING", "CONFIRMED"}
    BY DEF IInv, DepositTypeOK
  <1>5. Deep(t, head) \in BOOLEAN /\ Deep(t, poll[p].mark) \in BOOLEAN
    BY DEF Deep
  <1>6. ASSUME poll[p].at = "tron" \/ ~AnswersBsc(p, t),
               Skip(p, t)
        PROVE  IInv'
    <2> PICK r : r = [poll[p] EXCEPT !.todo = @ \ {t}]
      OBVIOUS
    <2>1. poll' = [poll EXCEPT ![p] = r]
      BY <1>6 DEF Skip, IInv, DepositTypeOK
    <2>2. Good(r)
      BY <1>2 DEF Good, PollRecord
    <2>3. Behind(r)'
      <3>1. /\ r.at = poll[p].at /\ r.mark = poll[p].mark /\ r.after = poll[p].after
            /\ r.todo = poll[p].todo \ {t} /\ r.item = poll[p].item
        BY <1>2 DEF Good, PollRecord
      <3>2. ASSUME NEW u \in Bep20, block[u] \in 1 .. r.mark, poll[p].at = "bsc",
                   Scanned(block[u], poll[p].after, poll[p].mark)
            PROVE  u # t
        BY <1>6, <3>2 DEF AnswersBsc, OnChain
      <3> QED
        BY <1>1, <1>2, <3>1, <3>2 DEF Behind, chain, books
    <2> QED
      BY <1>1, <2>1, <2>2, <2>3, QuietStep DEF IInv, DepositTypeOK
  <1>7. CASE LookTron(p, t)
    <2>1. poll[p].at = "tron"
      BY <1>7 DEF LookTron, Looking
    <2>2. CASE Process(p, t, row[t], Deep(t, poll[p].mark))
      BY <1>1, <1>3, <1>4, <1>5, <2>1, <2>2, ProcessStep
    <2> QED
      BY <1>6, <1>7, <2>1, <2>2 DEF LookTron
  <1>8. CASE LookBsc(p, t)
    <2>1. CASE Process(p, t, row[t], Deep(t, head))
      BY <1>1, <1>4, <1>5, <2>1, ProcessStep
    <2> QED
      BY <1>6, <1>8, <2>1 DEF LookBsc
  <1>9. CASE LookBadly(p, t)
    <2>1. CASE t \in Trc20 /\ Process(p, t, row[t], FALSE)
      <3>1. poll[p].at # "bsc"
        BY <1>1, <1>2, <2>1 DEF Good
      <3> QED
        BY <1>1, <1>4, <2>1, <3>1, ProcessStep
    <2>2. PICK deep \in BOOLEAN : deep = Deep(t, IF t \in Trc20 THEN poll[p].mark ELSE head)
      BY <1>5
    <2>3. CASE Process(p, t, None, Deep(t, IF t \in Trc20 THEN poll[p].mark ELSE head))
      <3>1. Process(p, t, None, deep) /\ (deep => Deep(t, head))
        BY <1>3, <2>2, <2>3
      <3> QED
        BY <1>1, <3>1, ProcessStep
    <2> QED
      BY <1>9, <2>1, <2>3 DEF LookBadly
  <1> QED
    BY <1>7, <1>8, <1>9

\* Beginnings, rows that are looked up again, and parts that fail.
LEMMA TurnStep ==
  ASSUME IInv, NEW p \in Polls,
         \/ BeginTron(p) \/ BeginBsc(p) \/ BeginPending(p) \/ EndPending(p)
         \/ PartFails(p) \/ RecordFails(p) \/ CreditFails(p)
         \/ \E t \in Transfers : CheckRow(p, t)
  PROVE  IInv'
  <1> USE DepositAssumption
  <1>1. Good(poll[p]) /\ Behind(poll[p])
    BY DEF IInv, PollInv, ScanInv
  <1>2. poll \in [Polls -> PollRecord] /\ passedBy \subseteq Bep20 /\ head \in Nat
    BY DEF IInv, DepositTypeOK
  <1>3. Idle \in PollRecord
    BY DEF Idle, PollRecord, Parts
  <1>4. ASSUME NEW at \in Parts \ {"tron", "bsc"}, Goto(p, at),
               UNCHANGED <<chain, books, cursors, passedBy>>, faults' \in Nat
        PROVE  IInv'
    <2>0. PICK r : r = [Idle EXCEPT !.at = at]
      OBVIOUS
    <2>1. poll' = [poll EXCEPT ![p] = r]
      BY <1>2, <1>4, <2>0 DEF Goto
    <2>2. r = [at |-> at, after |-> 0, mark |-> 0, todo |-> {}, item |-> None, does |-> "look"]
      BY <2>0 DEF Idle
    <2>3. r \in PollRecord
      <3>1. 0 \in Int /\ 0 \in Nat /\ {} \in SUBSET Transfers
        OBVIOUS
      <3>2. at \in Parts
        BY <1>4
      <3> QED
        BY <2>2, <3>1, <3>2 DEF PollRecord
    <2>4. Good(r)
      BY <1>2, <2>2, <2>3 DEF Good
    <2>5. Behind(r)'
      BY <2>2 DEF Behind
    <2> QED
      BY <1>2, <1>4, <2>1, <2>4, <2>5, QuietStep
  <1>5. ASSUME NEW at \in Parts, NEW after \in Int, NEW mark \in 0 .. head, NEW todo,
               todo \subseteq Transfers,
               at = "tron" => todo \subseteq Trc20, at = "bsc" => todo \subseteq Bep20,
               Begin(p, at, after, mark, todo),
               at = "bsc" => \A t \in Bep20 : block[t] \in 1 .. mark =>
                  \/ row[t] # None \/ t \in passedBy'
                  \/ t \in todo /\ Scanned(block[t], after, mark),
               UNCHANGED <<chain, books, cursors, faults>>,
               passedBy \subseteq passedBy', passedBy' \subseteq Bep20
        PROVE  IInv'
    <2> PICK r : r = [at |-> at, after |-> after, mark |-> mark, todo |-> todo,
                      item |-> None, does |-> "look"]
      OBVIOUS
    <2>1. poll' = [poll EXCEPT ![p] = r]
      BY <1>2, <1>5 DEF Begin
    <2>2. Good(r)
      BY <1>2, <1>5 DEF Good, PollRecord
    <2>3. Behind(r)'
      BY <1>5 DEF Behind, chain, books
    <2>4. faults' \in Nat
      BY <1>5 DEF IInv, DepositTypeOK
    <2> QED
      BY <1>5, <2>1, <2>2, <2>3, <2>4, QuietStep
  <1>6. CASE BeginTron(p)
    <2>1. lastSeen \in Int /\ head - TrcLookback \in Int
      BY <1>2 DEF IInv, DepositTypeOK, Never
    <2>2. PICK after \in Int : after = IF lastSeen = Never THEN head - TrcLookback ELSE lastSeen
      BY <2>1
    <2>3. Begin(p, "tron", after, head, Trc20)
      BY <1>6, <2>2 DEF BeginTron
    <2> QED
      BY <1>2, <1>5, <1>6, <2>3 DEF BeginTron, Parts, Transfers
  <1>7. CASE BeginBsc(p)
    <2>1. lastBlock \in Int /\ lastBlock >= -1 /\ head - BepLookback - 1 \in Int
      BY <1>2 DEF IInv, DepositTypeOK, Never
    <2>2. PICK after \in Int : after = IF lastBlock = Never THEN head - BepLookback - 1 ELSE lastBlock
      BY <2>1
    <2>3. /\ Begin(p, "bsc", after, head, Bep20)
          /\ passedBy' = passedBy \cup
               {t \in Bep20 : OnChain(t) /\ row[t] = None /\ block[t] > lastBlock
                                /\ ~Scanned(block[t], after, head)}
      BY <1>7, <2>2 DEF BeginBsc
    <2>4. ASSUME NEW t \in Bep20, block[t] \in 1 .. head, row[t] = None, t \notin passedBy'
          PROVE  Scanned(block[t], after, head)
      <3>1. block[t] > lastBlock
        BY <2>1, <2>3, <2>4 DEF IInv, ScannedIsRecorded
      <3> QED
        BY <2>3, <2>4, <3>1 DEF OnChain
    <2>5. passedBy \subseteq passedBy' /\ passedBy' \subseteq Bep20
      BY <1>2, <2>3
    <2> QED
      BY <1>2, <1>5, <1>7, <2>3, <2>4, <2>5 DEF BeginBsc, Parts, Transfers
  <1>8. CASE BeginPending(p)
    <2>1. PICK taken \in SUBSET {t \in Transfers : row[t] = "PENDING"} :
            Begin(p, "pending", 0, 0, taken)
      BY <1>8 DEF BeginPending
    <2> QED
      BY <1>2, <1>5, <1>8, <2>1 DEF BeginPending, Parts
  <1>9. CASE EndPending(p) \/ PartFails(p)
    BY <1>4, <1>9 DEF EndPending, PartFails, Fault, Parts, IInv, DepositTypeOK
  <1>10. CASE RecordFails(p) \/ CreditFails(p)
    <2> PICK r : r = [poll[p] EXCEPT !.item = None, !.does = "look"]
      OBVIOUS
    <2>1. poll' = [poll EXCEPT ![p] = r]
      BY <1>2, <1>10 DEF RecordFails, CreditFails, Done
    <2>2. /\ UNCHANGED <<chain, books, cursors>> /\ faults' \in Nat
          /\ passedBy \subseteq passedBy' /\ passedBy' \subseteq Bep20
          /\ poll[p].at = "bsc" /\ poll[p].item \in Bep20 /\ row[poll[p].item] = None
               => poll[p].item \in passedBy'
      BY <1>2, <1>10 DEF RecordFails, CreditFails, Fault, PassBy, IInv, DepositTypeOK
    <2>3. Good(r)
      BY <1>1 DEF Good, PollRecord
    <2>4. Behind(r)'
      <3>1. /\ r.at = poll[p].at /\ r.mark = poll[p].mark /\ r.after = poll[p].after
            /\ r.todo = poll[p].todo /\ r.item = None
        BY <1>1 DEF Good, PollRecord
      <3> QED
        BY <1>1, <2>2, <3>1 DEF Behind, chain, books
    <2> QED
      BY <2>1, <2>2, <2>3, <2>4, QuietStep
  <1>11. ASSUME NEW t \in Transfers, CheckRow(p, t)
         PROVE  IInv'
    <2>1. poll[p].at = "pending" /\ poll[p].item = None /\ t \in poll[p].todo
      BY <1>11 DEF CheckRow, Looking
    <2>2. PICK r : /\ \/ Deep(t, head) /\ r = [poll[p] EXCEPT !.todo = @ \ {t}, !.item = t, !.does = "confirm"]
                      \/ r = [poll[p] EXCEPT !.todo = @ \ {t}]
                   /\ poll' = [poll EXCEPT ![p] = r]
      <3>1. CASE Skip(p, t)
        BY <1>2, <3>1 DEF Skip
      <3>2. CASE Deep(t, head) /\ Take(p, t, "confirm")
        BY <1>2, <3>2 DEF Take
      <3> QED
        BY <1>11, <3>1, <3>2 DEF CheckRow
    <2>3. Good(r)
      BY <1>1, <2>1, <2>2 DEF Good, PollRecord
    <2>4. Behind(r)'
      BY <1>1, <2>1, <2>2 DEF Behind, Good, PollRecord
    <2>5. faults' \in Nat
      BY <1>11 DEF CheckRow, IInv, DepositTypeOK
    <2> QED
      BY <1>2, <1>11, <2>2, <2>3, <2>4, <2>5, QuietStep DEF CheckRow
  <1> QED
    BY <1>6, <1>7, <1>8, <1>9, <1>10, <1>11

\* The cursors move: TRON's to now, that of BSC to the block its scan knew of.
LEMMA EndStep ==
  ASSUME IInv, NEW p \in Polls, EndTron(p) \/ EndBsc(p)
  PROVE  IInv'
  <1> USE DepositAssumption DEF chain, books
  <1>1. Good(poll[p]) /\ Behind(poll[p])
    BY DEF IInv, PollInv, ScanInv
  <1>2. /\ head \in Nat /\ lastSeen \in Never .. head /\ lastBlock \in Never .. head
        /\ poll \in [Polls -> PollRecord]
    BY DEF IInv, DepositTypeOK
  <1>3. /\ UNCHANGED <<head, block, row, times, passedBy, faults>>
        /\ lastSeen' \in Never .. head
        /\ lastBlock' = lastBlock \/ (poll[p].at = "bsc" /\ lastBlock' = poll[p].mark)
        /\ poll[p].todo = {} /\ poll[p].item = None
    <2>1. CASE EndTron(p)
      <3>1. lastSeen' = head /\ UNCHANGED <<head, block, row, times, lastBlock, passedBy, faults>>
        BY <2>1 DEF EndTron
      <3>2. poll[p].todo = {} /\ poll[p].item = None
        BY <2>1 DEF EndTron, AllDone, Looking
      <3>3. head \in Never .. head
        BY <1>2 DEF Never
      <3> QED
        BY <3>1, <3>2, <3>3
    <2>2. CASE EndBsc(p)
      BY <1>2, <2>2 DEF EndBsc, AllDone, Looking
    <2> QED
      BY <2>1, <2>2
  <1>4. PICK r : /\ r \in PollRecord /\ r.at \notin {"tron", "bsc"} /\ Good(r)
                 /\ poll' = [poll EXCEPT ![p] = r]
    <2>1. PICK at \in {"toBsc", "toPending"} : Goto(p, at)
      BY DEF EndTron, EndBsc
    <2>2. PICK r : r = [Idle EXCEPT !.at = at]
      OBVIOUS
    <2>3. r = [at |-> at, after |-> 0, mark |-> 0, todo |-> {}, item |-> None, does |-> "look"]
      BY <2>2 DEF Idle
    <2>4. r \in PollRecord
      <3>1. 0 \in Int /\ 0 \in Nat /\ {} \in SUBSET Transfers
        OBVIOUS
      <3> QED
        BY <2>1, <2>3, <3>1 DEF PollRecord, Parts
    <2>5. Good(r)
      BY <1>2, <2>1, <2>3, <2>4 DEF Good
    <2>6. poll' = [poll EXCEPT ![p] = r]
      BY <1>2, <2>1, <2>2 DEF Goto
    <2> QED
      BY <2>1, <2>3, <2>4, <2>5, <2>6
  <1>5. poll'[p] = r /\ \A q \in Polls : q # p => poll'[q] = poll[q]
    BY <1>2, <1>4
  <1>6. lastBlock' \in Never .. head
    BY <1>1, <1>2, <1>3 DEF Good, PollRecord, Never
  <1>7. DepositTypeOK'
    <2>1. poll' \in [Polls -> PollRecord]
      BY <1>2, <1>4
    <2>2. \A q \in Polls : poll'[q].mark <= head
      BY <1>4, <1>5 DEF Good, IInv, DepositTypeOK
    <2> QED
      BY <1>3, <1>6, <2>1, <2>2 DEF IInv, DepositTypeOK
  <1>8. PollInv'
    BY <1>3, <1>4, <1>5 DEF IInv, PollInv, Good, Deep, OnChain
  <1>9. ScanInv'
    BY <1>3, <1>4, <1>5 DEF IInv, ScanInv, Behind
  <1>10. ScannedIsRecorded'
    <2> SUFFICES ASSUME NEW t \in Bep20, block[t] \in 1 .. lastBlock'
                 PROVE  row[t] # None \/ t \in passedBy
      BY <1>3 DEF ScannedIsRecorded
    <2>1. CASE lastBlock' = lastBlock
      BY <2>1 DEF IInv, ScannedIsRecorded
    <2>2. CASE poll[p].at = "bsc" /\ lastBlock' = poll[p].mark
      BY <1>1, <1>3, <2>2 DEF Behind, Transfers
    <2> QED
      BY <1>3, <2>1, <2>2
  <1>11. ConfirmedIsCredited' /\ CreditedIsFinal'
    BY <1>3 DEF IInv, ConfirmedIsCredited, CreditedIsFinal, Deep, OnChain
  <1> QED
    BY <1>7, <1>8, <1>9, <1>10, <1>11 DEF IInv

\* The rows are written.
LEMMA WriteStep ==
  ASSUME IInv, NEW p \in Polls, Record(p) \/ Credit(p) \/ ConfirmAndCredit(p)
  PROVE  IInv'
  <1> USE DepositAssumption DEF chain, books, cursors
  <1> DEFINE t == poll[p].item
  <1>1. Good(poll[p]) /\ Behind(poll[p]) /\ t \in Transfers
    BY DEF IInv, PollInv, ScanInv, Good, PollRecord, Record, Credit, ConfirmAndCredit
  <1>2. /\ row \in [Transfers -> {None, "PENDING", "CONFIRMED"}] /\ times \in [Transfers -> Nat]
        /\ poll \in [Polls -> PollRecord]
    BY DEF IInv, DepositTypeOK
  <1>3. times[t] = IF row[t] = "CONFIRMED" THEN 1 ELSE 0
    BY <1>1 DEF IInv, ConfirmedIsCredited
  <1>4. /\ UNCHANGED <<head, block, lastSeen, lastBlock, passedBy, faults>> /\ Done(p)
        /\ row' \in [Transfers -> {None, "PENDING", "CONFIRMED"}] /\ times' \in [Transfers -> Nat]
        /\ \A u \in Transfers : u # t => row'[u] = row[u] /\ times'[u] = times[u]
        /\ row'[t] # None
        /\ times'[t] = IF row'[t] = "CONFIRMED" THEN 1 ELSE 0
        /\ times'[t] > 0 => times[t] > 0 \/ Deep(t, head)
    <2>1. CASE Record(p)
      BY <1>1, <1>2, <1>3, <2>1 DEF Record
    <2>2. CASE Credit(p) \/ ConfirmAndCredit(p)
      <3>1. Deep(t, head)
        BY <1>1, <2>2 DEF Good, Credit, ConfirmAndCredit
      <3>2. times' = Executed(t)
        BY <2>2 DEF Credit, ConfirmAndCredit
      <3>3. times' \in [Transfers -> Nat] /\ times'[t] = 1
            /\ \A u \in Transfers : u # t => times'[u] = times[u]
        BY <1>1, <1>2, <1>3, <3>2 DEF Executed
      <3>4. row' = [row EXCEPT ![t] = "CONFIRMED"]
        BY <1>1, <1>2, <1>3, <2>2 DEF Credit, ConfirmAndCredit
      <3> QED
        BY <1>1, <1>2, <2>2, <3>1, <3>3, <3>4 DEF Credit, ConfirmAndCredit
    <2> QED
      BY <2>1, <2>2
  <1>5. PICK r : r = [poll[p] EXCEPT !.item = None, !.does = "look"]
    OBVIOUS
  <1>6. /\ r \in PollRecord /\ r.at = poll[p].at /\ r.mark = poll[p].mark /\ r.after = poll[p].after
        /\ r.todo = poll[p].todo /\ r.item = None /\ r.does = "look"
    BY <1>1, <1>5 DEF Good, PollRecord
  <1>7. poll' = [poll EXCEPT ![p] = r]
    BY <1>2, <1>4, <1>5 DEF Done
  <1>8. poll'[p] = r /\ \A q \in Polls : q # p => poll'[q] = poll[q]
    BY <1>2, <1>7
  <1> HIDE DEF t
  <1>9. DepositTypeOK'
    <2>1. poll' \in [Polls -> PollRecord]
      BY <1>2, <1>6, <1>7
    <2>2. \A q \in Polls : poll'[q].mark <= head
      BY <1>6, <1>8 DEF IInv, DepositTypeOK
    <2> QED
      BY <1>4, <2>1, <2>2 DEF IInv, DepositTypeOK
  <1>10. PollInv'
    <2>1. Good(r)
      BY <1>1, <1>6 DEF Good
    <2> QED
      BY <1>4, <1>8, <2>1 DEF IInv, PollInv, Good, Deep, OnChain
  <1>11. \A u \in Transfers : row[u] # None => row'[u] # None
    BY <1>4
  <1>12. ScanInv'
    <2> SUFFICES ASSUME NEW q \in Polls
                 PROVE  Behind(poll[q])'
      BY DEF ScanInv
    <2>1. CASE q = p
      <3>1. \A u \in Bep20 : u = poll[p].item => row'[u] # None
        BY <1>4 DEF t
      <3> QED
        BY <1>1, <1>4, <1>6, <1>8, <1>11, <2>1, <3>1 DEF Behind, Transfers
    <2>2. CASE q # p
      BY <1>4, <1>8, <1>11, <2>2 DEF IInv, ScanInv, Behind, Transfers
    <2> QED
      BY <2>1, <2>2
  <1>13. ScannedIsRecorded'
    BY <1>4, <1>11 DEF IInv, ScannedIsRecorded, Transfers
  <1>14. ConfirmedIsCredited'
    BY <1>4 DEF IInv, ConfirmedIsCredited
  <1>15. CreditedIsFinal'
    <2>1. \A u \in Transfers : times'[u] > 0 => Deep(u, head)
      BY <1>2, <1>4 DEF IInv, CreditedIsFinal
    <2> QED
      BY <1>4, <2>1 DEF CreditedIsFinal, Deep, OnChain
  <1> QED
    BY <1>9, <1>10, <1>12, <1>13, <1>14, <1>15 DEF IInv

\* A new process knows of no poll under way.
LEMMA RestartStep ==
  ASSUME IInv, Restart
  PROVE  IInv'
  <1> USE DEF chain, books
  <1>1. /\ \A p \in Polls : poll'[p] = Idle
        /\ UNCHANGED <<head, block, row, times, lastBlock, passedBy>> /\ lastSeen' = Never
        /\ head \in Nat
    BY DEF Restart, IInv, DepositTypeOK
  <1>2. Idle \in PollRecord
    <2>1. 0 \in Int /\ 0 \in Nat /\ {} \in SUBSET Transfers
      OBVIOUS
    <2> QED
      BY <2>1 DEF Idle, PollRecord, Parts
  <1>3. DepositTypeOK'
    BY <1>1, <1>2 DEF Restart, Fault, IInv, DepositTypeOK, Never, Idle
  <1>4. PollInv' /\ ScanInv'
    BY <1>1, <1>2 DEF PollInv, ScanInv, Good, Behind, Idle
  <1> QED
    BY <1>1, <1>3, <1>4
       DEF IInv, ConfirmedIsCredited, CreditedIsFinal, ScannedIsRecorded, Deep, OnChain

-----------------------------------------------------------------------------
(* Theorems                                                                *)

LEMMA Invariant == Spec => []IInv
  <1>1. Init => IInv
    <2> SUFFICES ASSUME Init
                 PROVE  IInv
      OBVIOUS
    <2>1. Idle \in PollRecord
      <3>1. 0 \in Int /\ 0 \in Nat /\ {} \in SUBSET Transfers
        OBVIOUS
      <3> QED
        BY <3>1 DEF Idle, PollRecord, Parts
    <2>2. DepositTypeOK
      BY <2>1 DEF Init, DepositTypeOK, Never, Idle
    <2>3. PollInv /\ ScanInv
      BY <2>1 DEF Init, PollInv, ScanInv, Good, Behind, Idle
    <2>4. ConfirmedIsCredited /\ CreditedIsFinal
      BY DepositAssumption DEF Init, ConfirmedIsCredited, CreditedIsFinal
    <2>5. ScannedIsRecorded
      BY DEF Init, ScannedIsRecorded, Never
    <2> QED
      BY <2>2, <2>3, <2>4, <2>5 DEF IInv
  <1>2. IInv /\ [Next]_vars => IInv'
    <2> SUFFICES ASSUME IInv, [Next]_vars
                 PROVE  IInv'
      OBVIOUS
    <2>1. CASE UNCHANGED vars
      BY <2>1 DEF vars, chain, books, cursors, IInv, DepositTypeOK, PollInv, ScanInv, Good, Behind,
                  ConfirmedIsCredited, CreditedIsFinal, ScannedIsRecorded, Deep, OnChain
    <2>2. ASSUME NEW p \in Polls, PollStep(p)
          PROVE  IInv'
      BY <2>2, LookStep, TurnStep, EndStep, WriteStep DEF PollStep
    <2>3. ASSUME NEW p \in Polls, Failure(p)
          PROVE  IInv'
      BY <2>3, LookStep, TurnStep DEF Failure
    <2> QED
      BY <2>1, <2>2, <2>3, NewBlockStep, ReorganiseStep, RestartStep DEF Next
  <1> QED
    BY <1>1, <1>2, PTL DEF Spec

\* The rows, cursors and polls keep their types, and no cursor is ahead of the chain.
THEOREM TypeCorrect == Spec => []DepositTypeOK
  BY Invariant, PTL DEF IInv

\* However many polls overlap, fail or are restarted, a deposit is credited at
\* most once, and its row says CONFIRMED exactly when it was.
THEOREM CreditedOnce == Spec => []ConfirmedIsCredited
  BY Invariant, PTL DEF IInv

\* No credit is for a transfer that left the chain or still can.
THEOREM CreditsAreFinal == Spec => []CreditedIsFinal
  BY Invariant, PTL DEF IInv

\* The block counter of BSC is never ahead of what was recorded, but for the
\* transfers the code is known to pass by.
THEOREM CounterLeavesNothing == Spec => []ScannedIsRecorded
  BY Invariant, PTL DEF IInv
=============================================================================
