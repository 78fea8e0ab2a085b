--------------------------- MODULE Treasury_proofs ---------------------------
(***************************************************************************)
(* What holds of Treasury for every set of users, deals, deposits,         *)
(* withdrawals and instances: no balance is overdrawn, no key is executed  *)
(* twice, and the ledger nets to zero.  Where every account has its row,   *)
(* or with one thread of control, a transaction is one step of the ledger, *)
(* and the balances are the sums of its entries.  With one thread of       *)
(* control the status of a deal says whether its money is held, and what   *)
(* is locked is what the deals hold.                                       *)
(***************************************************************************)
EXTENDS Treasury, FiniteSetTheorems, TLAPS

-----------------------------------------------------------------------------
(* Sums over finite sets                                                   *)

\* Among subsets of a finite set one has no other below it: induction on the size
\* of a set, stated without a number.
LEMMA MinimalSubset ==
  ASSUME NEW S, IsFiniteSet(S), NEW B \in SUBSET (SUBSET S), B # {}
  PROVE  \E m \in B : \A y \in B : y \subseteq m => y = m
  <1>1. IsWellFoundedOn(StrictSubsetOrdering(S), SUBSET S)
    BY FS_StrictSubsetOrderingWellFounded, FS_FiniteSubsetsOfFinite
  <1>2. PICK m \in B : \A y \in B : ~ (<<y, m>> \in StrictSubsetOrdering(S))
    BY <1>1, WFMin
  <1> QED
    BY <1>2 DEF StrictSubsetOrdering

\* A set of subsets of a finite set that is closed under adding an element
\* holds the set itself.
LEMMA SubsetInduction ==
  ASSUME NEW S, IsFiniteSet(S), NEW B \in SUBSET (SUBSET S), {} \in B,
         \A T \in B : \A x \in S \ T : T \cup {x} \in B
  PROVE  S \in B
  <1> SUFFICES ASSUME (SUBSET S) \ B # {} PROVE FALSE
    OBVIOUS
  <1>0. PICK Rest : Rest = (SUBSET S) \ B
    OBVIOUS
  <1>1. PICK m \in Rest : \A y \in Rest : y \subseteq m => y = m
    BY <1>0, MinimalSubset
  <1>2. PICK x \in m : TRUE
    BY <1>0, <1>1
  <1>3. PICK T : T = m \ {x}
    OBVIOUS
  <1>4. T \in B /\ x \in S \ T /\ T \cup {x} = m
    BY <1>0, <1>1, <1>3
  <1>5. T \cup {x} \in B
    BY <1>4
  <1> QED
    BY <1>0, <1>4, <1>5

\* The recursion inside SumFunctionOnSet: the element it takes first, and the
\* table of partial sums it stands for.
Pick(s) == CHOOSE x \in s : TRUE
Adds(it, f, S) == it = [s \in SUBSET S |-> IF s = {} THEN 0 ELSE f[Pick(s)] + it[s \ {Pick(s)}]]

LEMMA SumDef ==
  ASSUME NEW f, NEW S
  PROVE  SumFunctionOnSet(f, S) = (CHOOSE it : Adds(it, f, S))[S]
  BY DEF SumFunctionOnSet, FoldFunctionOnSet, MapThenFoldSet, Adds, Pick

LEMMA PickIn ==
  ASSUME NEW s, s # {}
  PROVE  Pick(s) \in s
  BY DEF Pick

\* Two ways to add up agree where both are defined.
LEMMA AddsUnique ==
  ASSUME NEW f, NEW A, NEW B, NEW i, NEW j, Adds(i, f, A), Adds(j, f, B),
         NEW s, IsFiniteSet(s), s \subseteq A, s \subseteq B
  PROVE  i[s] = j[s]
  <1> DEFINE Bad == {t \in SUBSET s : i[t] # j[t]}
  <1> SUFFICES ASSUME Bad # {} PROVE FALSE
    OBVIOUS
  <1>1. PICK m \in Bad : \A y \in Bad : y \subseteq m => y = m
    <2>1. Bad \in SUBSET (SUBSET s)
      OBVIOUS
    <2> HIDE DEF Bad
    <2> QED
      BY <2>1, MinimalSubset
  <1>2. m \subseteq s /\ m \in SUBSET A /\ m \in SUBSET B
    OBVIOUS
  <1>3. /\ i[m] = IF m = {} THEN 0 ELSE f[Pick(m)] + i[m \ {Pick(m)}]
        /\ j[m] = IF m = {} THEN 0 ELSE f[Pick(m)] + j[m \ {Pick(m)}]
    BY <1>2 DEF Adds
  <1>4. m # {}
    BY <1>1, <1>3
  <1>5. m \ {Pick(m)} \subseteq m /\ m \ {Pick(m)} # m
    BY <1>4, PickIn
  <1>6. i[m \ {Pick(m)}] = j[m \ {Pick(m)}]
    BY <1>1, <1>2, <1>5
  <1> QED
    BY <1>1, <1>3, <1>4, <1>6

\* Every finite set has a table of partial sums.
LEMMA AddsExists ==
  ASSUME NEW f, NEW S, IsFiniteSet(S)
  PROVE  \E it : Adds(it, f, S)
  <1> DEFINE Sum(T) == (CHOOSE it : Adds(it, f, T))[T]
             Bad == {T \in SUBSET S : ~\E it : Adds(it, f, T)}
  <1> SUFFICES ASSUME Bad # {} PROVE FALSE
    OBVIOUS
  <1>1. PICK m \in Bad : \A y \in Bad : y \subseteq m => y = m
    <2>1. Bad \in SUBSET (SUBSET S)
      OBVIOUS
    <2> HIDE DEF Bad
    <2> QED
      BY <2>1, MinimalSubset
  <1>2. m \subseteq S /\ IsFiniteSet(m)
    BY FS_Subset
  <1>3. \A T \in SUBSET m : T # m => Adds(CHOOSE it : Adds(it, f, T), f, T)
    BY <1>1, <1>2
  <1>4. ASSUME NEW t \in SUBSET m, t # m
        PROVE  Sum(t) = IF t = {} THEN 0 ELSE f[Pick(t)] + Sum(t \ {Pick(t)})
    <2> DEFINE i == CHOOSE it : Adds(it, f, t)
               r == t \ {Pick(t)}
               j == CHOOSE it : Adds(it, f, r)
    <2>1. Adds(i, f, t) /\ Sum(t) = i[t] /\ Sum(r) = j[r]
      BY <1>3, <1>4
    <2>2. r \subseteq t /\ r \subseteq m /\ r # m /\ IsFiniteSet(r)
      BY <1>2, <1>4, FS_Subset
    <2>3. Adds(j, f, r)
      BY <1>3, <2>2
    <2> HIDE DEF i, j
    <2>4. i[r] = j[r]
      BY <2>1, <2>2, <2>3, AddsUnique
    <2>5. i[t] = IF t = {} THEN 0 ELSE f[Pick(t)] + i[r]
      BY <2>1 DEF Adds
    <2> QED
      BY <2>1, <2>4, <2>5
  <1> HIDE DEF Sum
  <1>5. PICK it : it = [s \in SUBSET m |-> IF s = {} THEN 0 ELSE f[Pick(s)] + Sum(s \ {Pick(s)})]
    OBVIOUS
  <1>6. ASSUME NEW s \in SUBSET m, s # {}
        PROVE  it[s \ {Pick(s)}] = Sum(s \ {Pick(s)})
    <2> DEFINE r == s \ {Pick(s)}
    <2>1. r \in SUBSET m /\ r # m
      BY <1>6, PickIn
    <2> HIDE DEF r
    <2>2. it[r] = IF r = {} THEN 0 ELSE f[Pick(r)] + Sum(r \ {Pick(r)})
      BY <1>5, <2>1
    <2>3. Sum(r) = IF r = {} THEN 0 ELSE f[Pick(r)] + Sum(r \ {Pick(r)})
      BY <1>4, <2>1
    <2> QED
      BY <2>2, <2>3 DEF r
  <1>7. Adds(it, f, m)
    BY <1>5, <1>6 DEF Adds
  <1> QED
    BY <1>1, <1>7

\* The recursion equation of sums.
LEMMA SumStep ==
  ASSUME NEW f, NEW S, IsFiniteSet(S)
  PROVE  SumFunctionOnSet(f, S) =
           IF S = {} THEN 0 ELSE f[Pick(S)] + SumFunctionOnSet(f, S \ {Pick(S)})
  <1> DEFINE r == S \ {Pick(S)}
  <1>1. PICK i : i = (CHOOSE it : Adds(it, f, S))
    OBVIOUS
  <1>2. PICK j : j = (CHOOSE it : Adds(it, f, r))
    OBVIOUS
  <1>3. r \subseteq S /\ IsFiniteSet(r)
    BY FS_Subset
  <1>4. Adds(i, f, S) /\ Adds(j, f, r)
    BY <1>1, <1>2, <1>3, AddsExists
  <1>5. i[r] = j[r]
    BY <1>3, <1>4, AddsUnique
  <1>6. i[S] = IF S = {} THEN 0 ELSE f[Pick(S)] + i[r]
    BY <1>4 DEF Adds
  <1>7. SumFunctionOnSet(f, S) = i[S] /\ SumFunctionOnSet(f, r) = j[r]
    BY <1>1, <1>2, SumDef
  <1> QED
    BY <1>5, <1>6, <1>7

LEMMA SumEmpty ==
  ASSUME NEW f
  PROVE  SumFunctionOnSet(f, {}) = 0
  BY SumStep, FS_EmptySet

\* A sum of integers is an integer.
LEMMA SumType ==
  ASSUME NEW f, NEW S, IsFiniteSet(S), \A x \in S : f[x] \in Int
  PROVE  SumFunctionOnSet(f, S) \in Int
  <1> DEFINE Bad == {T \in SUBSET S : SumFunctionOnSet(f, T) \notin Int}
  <1> SUFFICES ASSUME Bad # {} PROVE FALSE
    OBVIOUS
  <1>1. PICK m \in Bad : \A y \in Bad : y \subseteq m => y = m
    <2>1. Bad \in SUBSET (SUBSET S)
      OBVIOUS
    <2> HIDE DEF Bad
    <2> QED
      BY <2>1, MinimalSubset
  <1>2. m \subseteq S /\ IsFiniteSet(m) /\ SumFunctionOnSet(f, m) \notin Int
    BY FS_Subset
  <1>3. m # {}
    BY <1>2, SumEmpty
  <1>4. Pick(m) \in m /\ m \ {Pick(m)} # m /\ m \ {Pick(m)} \subseteq m
    BY <1>3, PickIn
  <1>5. SumFunctionOnSet(f, m \ {Pick(m)}) \in Int /\ f[Pick(m)] \in Int
    BY <1>1, <1>2, <1>4
  <1>6. SumFunctionOnSet(f, m) = f[Pick(m)] + SumFunctionOnSet(f, m \ {Pick(m)})
    BY <1>2, <1>3, SumStep
  <1> QED
    BY <1>2, <1>5, <1>6

\* The order of adding does not matter.
LEMMA SumRemove ==
  ASSUME NEW f, NEW S, IsFiniteSet(S), \A x \in S : f[x] \in Int, NEW x \in S
  PROVE  SumFunctionOnSet(f, S) = f[x] + SumFunctionOnSet(f, S \ {x})
  <1> DEFINE Sum(T) == SumFunctionOnSet(f, T)
             Bad == {T \in SUBSET S : \E y \in T : Sum(T) # f[y] + Sum(T \ {y})}
  <1> HIDE DEF Sum
  <1> SUFFICES ASSUME Bad # {} PROVE FALSE
    <2> S \notin Bad
      OBVIOUS
    <2> QED
      BY DEF Sum
  <1>1. PICK m \in Bad : \A y \in Bad : y \subseteq m => y = m
    <2>1. Bad \in SUBSET (SUBSET S)
      OBVIOUS
    <2> HIDE DEF Bad
    <2> QED
      BY <2>1, MinimalSubset
  <1>2. PICK y \in m : Sum(m) # f[y] + Sum(m \ {y})
    OBVIOUS
  <1>3. m \subseteq S
    OBVIOUS
  <1> DEFINE p == Pick(m)
             both == m \ {p, y}
  <1>4. p \in m
    BY PickIn
  <1>5. \A T \in SUBSET m : IsFiniteSet(T) /\ Sum(T) \in Int
    <2> SUFFICES ASSUME NEW T \in SUBSET m
                 PROVE  IsFiniteSet(T) /\ Sum(T) \in Int
      OBVIOUS
    <2>1. IsFiniteSet(T) /\ \A z \in T : f[z] \in Int
      BY <1>3, FS_Subset
    <2> QED
      BY <2>1, SumType DEF Sum
  <1>6. Sum(m) = f[p] + Sum(m \ {p})
    BY <1>4, <1>5, SumStep DEF Sum
  <1>7. p # y
    BY <1>2, <1>6
  <1> HIDE DEF p
  <1>8. m \ {p} \notin Bad /\ m \ {y} \notin Bad /\ m \ {p} \in SUBSET S /\ m \ {y} \in SUBSET S
    BY <1>1, <1>3, <1>4
  <1>9. /\ Sum(m \ {p}) = f[y] + Sum((m \ {p}) \ {y})
        /\ Sum(m \ {y}) = f[p] + Sum((m \ {y}) \ {p})
    BY <1>4, <1>7, <1>8
  <1>10. (m \ {p}) \ {y} = both /\ (m \ {y}) \ {p} = both /\ both \in SUBSET m
    OBVIOUS
  <1>11. f[p] \in Int /\ f[y] \in Int /\ Sum(both) \in Int
    BY <1>3, <1>4, <1>5, <1>10
  <1>12. Sum(m \ {p}) = f[y] + Sum(both) /\ Sum(m \ {y}) = f[p] + Sum(both)
    BY <1>9, <1>10
  <1> HIDE DEF both, Bad
  <1> QED
    BY <1>2, <1>6, <1>11, <1>12

\* A new element adds its value.
LEMMA SumAdd ==
  ASSUME NEW f, NEW S, IsFiniteSet(S), NEW x, x \notin S,
         \A y \in S \cup {x} : f[y] \in Int
  PROVE  SumFunctionOnSet(f, S \cup {x}) = f[x] + SumFunctionOnSet(f, S)
  <1>1. PICK T : T = S \cup {x}
    OBVIOUS
  <1>2. IsFiniteSet(T)
    BY <1>1, FS_AddElement
  <1>3. x \in T /\ T \ {x} = S /\ \A y \in T : f[y] \in Int
    BY <1>1
  <1>4. SumFunctionOnSet(f, T) = f[x] + SumFunctionOnSet(f, T \ {x})
    BY <1>2, <1>3, SumRemove
  <1> QED
    BY <1>1, <1>3, <1>4

\* The sum of the sums of two functions.
LEMMA SumPlus ==
  ASSUME NEW f, NEW g, NEW h, NEW S, IsFiniteSet(S),
         \A x \in S : f[x] \in Int /\ g[x] \in Int /\ h[x] = f[x] + g[x]
  PROVE  SumFunctionOnSet(h, S) = SumFunctionOnSet(f, S) + SumFunctionOnSet(g, S)
  <1> DEFINE Good == {T \in SUBSET S :
                        SumFunctionOnSet(h, T) = SumFunctionOnSet(f, T) + SumFunctionOnSet(g, T)}
  <1>1. {} \in Good
    BY SumEmpty
  <1>2. ASSUME NEW T \in Good, NEW x \in S \ T
        PROVE  T \cup {x} \in Good
    <2>1. IsFiniteSet(T) /\ T \subseteq S
      BY FS_Subset
    <2>2. \A y \in T \cup {x} : f[y] \in Int /\ g[y] \in Int /\ h[y] \in Int
      BY <2>1
    <2>3. /\ SumFunctionOnSet(f, T \cup {x}) = f[x] + SumFunctionOnSet(f, T)
          /\ SumFunctionOnSet(g, T \cup {x}) = g[x] + SumFunctionOnSet(g, T)
          /\ SumFunctionOnSet(h, T \cup {x}) = h[x] + SumFunctionOnSet(h, T)
      BY <2>1, <2>2, SumAdd
    <2>4. /\ SumFunctionOnSet(f, T) \in Int /\ SumFunctionOnSet(g, T) \in Int
          /\ SumFunctionOnSet(h, T) = SumFunctionOnSet(f, T) + SumFunctionOnSet(g, T)
      BY <2>1, <2>2, SumType
    <2>5. h[x] = f[x] + g[x] /\ f[x] \in Int /\ g[x] \in Int
      OBVIOUS
    <2>6. T \cup {x} \in SUBSET S
      BY <2>1
    <2>7. SumFunctionOnSet(h, T \cup {x})
            = SumFunctionOnSet(f, T \cup {x}) + SumFunctionOnSet(g, T \cup {x})
      BY <2>3, <2>4, <2>5
    <2> QED
      BY <2>6, <2>7
  <1>3. Good \in SUBSET (SUBSET S)
    OBVIOUS
  <1>4. S \in Good
    <2> HIDE DEF Good
    <2> QED
      BY <1>1, <1>2, <1>3, SubsetInduction
  <1> QED
    BY <1>4

\* What is zero does not count.
LEMMA SumZero ==
  ASSUME NEW f, NEW S, IsFiniteSet(S), \A x \in S : f[x] = 0
  PROVE  SumFunctionOnSet(f, S) = 0
  <1> DEFINE Good == {T \in SUBSET S : SumFunctionOnSet(f, T) = 0}
  <1>1. {} \in Good
    BY SumEmpty
  <1>2. ASSUME NEW T \in Good, NEW x \in S \ T
        PROVE  T \cup {x} \in Good
    <2>1. IsFiniteSet(T) /\ T \cup {x} \in SUBSET S /\ \A y \in T \cup {x} : f[y] \in Int
      BY FS_Subset
    <2>2. SumFunctionOnSet(f, T \cup {x}) = f[x] + SumFunctionOnSet(f, T)
      BY <2>1, SumAdd
    <2> QED
      BY <2>1, <2>2
  <1>3. Good \in SUBSET (SUBSET S)
    OBVIOUS
  <1>4. S \in Good
    <2> HIDE DEF Good
    <2> QED
      BY <1>1, <1>2, <1>3, SubsetInduction
  <1> QED
    BY <1>4

\* A sum grows by what one element gains.
LEMMA SumOne ==
  ASSUME NEW f, NEW S, IsFiniteSet(S), \A x \in S : f[x] \in Int,
         NEW a \in S, \A x \in S : x # a => f[x] = 0
  PROVE  SumFunctionOnSet(f, S) = f[a]
  <1>1. PICK T : T = S \ {a}
    OBVIOUS
  <1>2. IsFiniteSet(T) /\ \A x \in T : f[x] = 0
    BY <1>1, FS_RemoveElement
  <1>3. SumFunctionOnSet(f, T) = 0
    BY <1>2, SumZero
  <1>4. SumFunctionOnSet(f, S) = f[a] + SumFunctionOnSet(f, T)
    BY <1>1, SumRemove
  <1> QED
    BY <1>3, <1>4

\* Where two or three elements count, the sum is theirs.
LEMMA SumTwo ==
  ASSUME NEW f, NEW S, IsFiniteSet(S), \A x \in S : f[x] \in Int,
         NEW a \in S, NEW b \in S, a # b, \A x \in S : x \notin {a, b} => f[x] = 0
  PROVE  SumFunctionOnSet(f, S) = f[a] + f[b]
  <1>1. PICK T : T = S \ {a}
    OBVIOUS
  <1>2. IsFiniteSet(T) /\ b \in T /\ (\A x \in T : f[x] \in Int) /\ \A x \in T : x # b => f[x] = 0
    BY <1>1, FS_RemoveElement
  <1>3. SumFunctionOnSet(f, T) = f[b]
    BY <1>2, SumOne
  <1> QED
    BY <1>1, <1>3, SumRemove

LEMMA SumThree ==
  ASSUME NEW f, NEW S, IsFiniteSet(S), \A x \in S : f[x] \in Int,
         NEW a \in S, NEW b \in S, NEW c \in S, a # b, a # c, b # c,
         \A x \in S : x \notin {a, b, c} => f[x] = 0
  PROVE  SumFunctionOnSet(f, S) = f[a] + f[b] + f[c]
  <1>1. PICK T : T = S \ {a}
    OBVIOUS
  <1>2. /\ IsFiniteSet(T) /\ b \in T /\ c \in T
        /\ \A x \in T : f[x] \in Int
        /\ \A x \in T : x \notin {b, c} => f[x] = 0
    BY <1>1, FS_RemoveElement
  <1>3. SumFunctionOnSet(f, T) = f[b] + f[c]
    BY <1>2, SumTwo
  <1>4. SumFunctionOnSet(f, S) = f[a] + SumFunctionOnSet(f, T)
    BY <1>1, SumRemove
  <1> QED
    BY <1>3, <1>4

-----------------------------------------------------------------------------
(* Entries                                                                 *)

\* An account has two balances, which are no other account's.
LEMMA SlotFacts ==
  /\ \A a \in Accounts : Available(a) \in Slots /\ Locked(a) \in Slots
  /\ \A a, b \in Accounts : Available(a) # Locked(b)
  /\ \A a, b \in Accounts : a # b => Available(a) # Available(b) /\ Locked(a) # Locked(b)
  /\ \A s \in Slots : s[1] \in Accounts /\ (s = Available(s[1]) \/ s = Locked(s[1]))
  /\ \A a \in Accounts : Available(a)[1] = a /\ Locked(a)[1] = a
  BY DEF Slots, Available, Locked

\* Debits are of the balances the operations check.
LEMMA EntryFacts ==
  ASSUME NEW d \in Deals, NEW fee \in Nat
  PROVE  LET t == Terms[d] IN
         /\ FundEntries(t) \in [Slots -> Int]
         /\ \A s \in Slots : FundEntries(t)[s] < 0 => s = Available(t.buyer)
         /\ ReleaseEntries(t) \in [Slots -> Int]
         /\ \A s \in Slots : ReleaseEntries(t)[s] < 0 => s = Locked(t.buyer)
         /\ RefundEntries(t, fee) \in [Slots -> Int]
         /\ \A s \in Slots : RefundEntries(t, fee)[s] < 0 =>
              s = Locked(t.buyer) \/ (s = Available(House) /\ fee > 0)
  <1> DEFINE t == Terms[d]
  <1>1. /\ t.buyer \in Accounts /\ t.seller \in Accounts /\ House \in Accounts
        /\ t.buyer # House /\ t.seller # House /\ t.buyer # t.seller
        /\ t.amount \in Nat \ {0} /\ t.buyerFee \in Nat /\ t.sellerFee \in Nat
        /\ t.sellerFee < t.amount
    BY TreasuryAssumption DEF Accounts
  <1> HIDE DEF t
  <1>2. \A s \in Slots : FundEntries(t)[s] = IF s = Available(House) THEN t.buyerFee
                           ELSE IF s = Locked(t.buyer) THEN t.amount
                           ELSE IF s = Available(t.buyer) THEN -(t.amount + t.buyerFee) ELSE 0
    BY <1>1, SlotFacts DEF FundEntries, NoEntries
  <1>3. \A s \in Slots : ReleaseEntries(t)[s] = IF s = Available(House) THEN t.sellerFee
                           ELSE IF s = Available(t.seller) THEN t.amount - t.sellerFee
                           ELSE IF s = Locked(t.buyer) THEN -t.amount ELSE 0
    BY <1>1, SlotFacts DEF ReleaseEntries, NoEntries
  <1>4. \A s \in Slots : RefundEntries(t, fee)[s] = IF s = Available(House) THEN -fee
                           ELSE IF s = Available(t.buyer) THEN t.amount + fee
                           ELSE IF s = Locked(t.buyer) THEN -t.amount ELSE 0
    BY <1>1, SlotFacts DEF RefundEntries, NoEntries
  <1>5. /\ FundEntries(t) \in [Slots -> Int]
        /\ \A s \in Slots : FundEntries(t)[s] < 0 => s = Available(t.buyer)
    <2>1. FundEntries(t) \in [Slots -> Int]
      BY <1>1, SlotFacts DEF FundEntries, NoEntries
    <2> QED
      BY <1>1, <1>2, <2>1, SlotFacts
  <1>6. /\ ReleaseEntries(t) \in [Slots -> Int]
        /\ \A s \in Slots : ReleaseEntries(t)[s] < 0 => s = Locked(t.buyer)
    <2>1. ReleaseEntries(t) \in [Slots -> Int]
      BY <1>1, SlotFacts DEF ReleaseEntries, NoEntries
    <2> QED
      BY <1>1, <1>3, <2>1, SlotFacts
  <1>7. /\ RefundEntries(t, fee) \in [Slots -> Int]
        /\ \A s \in Slots : RefundEntries(t, fee)[s] < 0 =>
             s = Locked(t.buyer) \/ (s = Available(House) /\ fee > 0)
    <2>1. RefundEntries(t, fee) \in [Slots -> Int]
      BY <1>1, SlotFacts DEF RefundEntries, NoEntries
    <2> QED
      BY <1>1, <1>4, <2>1, SlotFacts
  <1> QED
    BY <1>5, <1>6, <1>7 DEF t

LEMMA PaymentFacts ==
  ASSUME NEW u \in Users, NEW n \in Int
  PROVE  /\ PaymentEntries(u, n) \in [Slots -> Int]
         /\ \A s \in Slots : PaymentEntries(u, n)[s] < 0 => s = Available(u)
  <1>1. u \in Accounts
    BY DEF Accounts
  <1>2. \A s \in Slots : PaymentEntries(u, n)[s] = IF s = Available(u) THEN n ELSE 0
    BY <1>1, SlotFacts DEF PaymentEntries, NoEntries
  <1>3. PaymentEntries(u, n) \in [Slots -> Int]
    BY <1>1, SlotFacts DEF PaymentEntries, NoEntries
  <1> QED
    BY <1>2, <1>3

-----------------------------------------------------------------------------
(* Types and overdrafts                                                    *)

\* What the steps that lock rows have in common.
Locks(p) ==
  \/ \E d \in Deposits : CreditDeposit(p, d)
  \/ \E w \in Withdrawals : ReserveWithdrawal(p, w) \/ ReverseWithdrawal(p, w)
  \/ \E d \in Deals :
       \/ FundEscrow(p, d) \/ ReleaseEscrow(p, d) \/ RefundEscrow(p, d)
       \/ Fund(p, d) \/ Release(p, d) \/ DecideRelease(p, d) \/ DecideRefund(p, d)

Locking(p, key, e, reads, to) ==
  /\ key \in Keys /\ e \in [Slots -> Int] /\ reads \subseteq Accounts /\ reads # {}
  /\ to = None \/ (to \in Status /\ key[2] \in Deals)
  /\ \A s \in Slots : e[s] < 0 => s[1] \in reads
  /\ ~RefundsFee => e[Available(House)] >= 0
  /\ LockAndRead(p, key, e, reads, to)
  /\ UNCHANGED <<rows, balance, posted, noted, status>>

LEMMA LocksIsLocking ==
  ASSUME TypeOK, NEW p \in Instances, Locks(p)
  PROVE  \E key, e, reads, to : Locking(p, key, e, reads, to)
  <1> USE TreasuryAssumption
  <1>1. ASSUME NEW d \in Deposits, CreditDeposit(p, d)
        PROVE  \E key, e, reads, to : Locking(p, key, e, reads, to)
    <2> DEFINE u == Incoming[d].user
               e == PaymentEntries(u, Incoming[d].amount)
    <2>1. u \in Users /\ u \in Accounts /\ House \in Accounts \ {u} /\ Incoming[d].amount \in Int
      BY DEF Accounts
    <2>2. /\ e \in [Slots -> Int] /\ \A s \in Slots : e[s] < 0 => s = Available(u)
          /\ e[Available(House)] >= 0
      BY <2>1, PaymentFacts, SlotFacts
    <2>3. <<"deposit", d>> \in Keys
      BY DEF Keys, DepositKeys
    <2>4. Locking(p, <<"deposit", d>>, e, {u}, None)
      BY <1>1, <2>1, <2>2, <2>3, SlotFacts DEF Locking, CreditDeposit, Lock
    <2> QED
      BY <2>4
  <1>2. ASSUME NEW w \in Withdrawals, ReserveWithdrawal(p, w) \/ ReverseWithdrawal(p, w)
        PROVE  \E key, e, reads, to : Locking(p, key, e, reads, to)
    <2> DEFINE u == Outgoing[w].user
               n == Outgoing[w].amount
    <2>1. u \in Users /\ u \in Accounts /\ House \in Accounts \ {u} /\ n \in Int /\ -n \in Int
      BY DEF Accounts
    <2>2. \A m \in Int : /\ PaymentEntries(u, m) \in [Slots -> Int]
                         /\ \A s \in Slots : PaymentEntries(u, m)[s] < 0 => s[1] \in {u}
                         /\ PaymentEntries(u, m)[Available(House)] >= 0
      BY <2>1, PaymentFacts, SlotFacts
    <2>3. <<"reserve", w>> \in Keys /\ <<"reverse", w>> \in Keys
      BY DEF Keys, WithdrawalKeys
    <2>4. CASE ReserveWithdrawal(p, w)
      <3>1. Locking(p, <<"reserve", w>>, PaymentEntries(u, -n), {u}, None)
        BY <2>1, <2>2, <2>3, <2>4 DEF Locking, ReserveWithdrawal, Lock
      <3> QED
        BY <3>1
    <2>5. CASE ReverseWithdrawal(p, w)
      <3>1. Locking(p, <<"reverse", w>>, PaymentEntries(u, n), {u}, None)
        BY <2>1, <2>2, <2>3, <2>5 DEF Locking, ReverseWithdrawal, Lock
      <3> QED
        BY <3>1
    <2> QED
      BY <1>2, <2>4, <2>5
  <1>3. ASSUME NEW d \in Deals,
               \/ FundEscrow(p, d) \/ ReleaseEscrow(p, d) \/ RefundEscrow(p, d)
               \/ Fund(p, d) \/ Release(p, d) \/ DecideRelease(p, d) \/ DecideRefund(p, d)
        PROVE  \E key, e, reads, to : Locking(p, key, e, reads, to)
    <2> DEFINE t == Terms[d]
               back == IF RefundsFee THEN t.buyerFee ELSE 0
    <2>1. /\ t.buyer \in Accounts /\ t.seller \in Accounts /\ House \in Accounts
          /\ t.buyer # House
      BY DEF Accounts
    <2>2. back \in Nat /\ FeeBack(d) \in Nat /\ (~RefundsFee => back = 0 /\ FeeBack(d) = 0)
      BY DEF FeeBack
    <2>3. {<<"fund", d>>, <<"release", d>>, <<"refund", d>>} \subseteq Keys
      BY DEF Keys, EscrowKeys
    <2>4. {"FUNDED", "COMPLETED", "RELEASED", "REFUNDED"} \subseteq Status
      BY DEF Status, ActiveStates, EscrowStates, TerminalStates
    <2>5. /\ FundEntries(t) \in [Slots -> Int]
          /\ \A s \in Slots : FundEntries(t)[s] < 0 => s[1] = t.buyer
          /\ ReleaseEntries(t) \in [Slots -> Int]
          /\ \A s \in Slots : ReleaseEntries(t)[s] < 0 => s[1] = t.buyer
          /\ FundEntries(t)[Available(House)] >= 0 /\ ReleaseEntries(t)[Available(House)] >= 0
      BY <2>1, EntryFacts, SlotFacts
    <2>6. \A fee \in Nat :
            /\ RefundEntries(t, fee) \in [Slots -> Int]
            /\ \A s \in Slots : RefundEntries(t, fee)[s] < 0 =>
                 s[1] = t.buyer \/ (s[1] = House /\ fee > 0)
            /\ fee = 0 => RefundEntries(t, fee)[Available(House)] >= 0
      <3> SUFFICES ASSUME NEW fee \in Nat
                   PROVE  /\ RefundEntries(t, fee) \in [Slots -> Int]
                          /\ \A s \in Slots : RefundEntries(t, fee)[s] < 0 =>
                               s[1] = t.buyer \/ (s[1] = House /\ fee > 0)
                          /\ fee = 0 => RefundEntries(t, fee)[Available(House)] >= 0
        OBVIOUS
      <3>1. /\ RefundEntries(t, fee) \in [Slots -> Int]
            /\ \A s \in Slots : RefundEntries(t, fee)[s] < 0 =>
                 s = Locked(t.buyer) \/ (s = Available(House) /\ fee > 0)
        BY EntryFacts
      <3>2. Available(House) \in Slots /\ Available(House) # Locked(t.buyer)
        BY <2>1, SlotFacts
      <3> HIDE DEF t
      <3>3. fee = 0 => RefundEntries(t, fee)[Available(House)] >= 0
        BY <3>1, <3>2
      <3> QED
        BY <2>1, <3>1, <3>3, SlotFacts
    <2> HIDE DEF t, back
    <2>7. CASE FundEscrow(p, d)
      <3>1. Locking(p, <<"fund", d>>, FundEntries(t), {t.buyer, House}, None)
        BY <2>1, <2>3, <2>5, <2>7 DEF Locking, FundEscrow, Lock, t
      <3> QED
        BY <3>1
    <2>8. CASE ReleaseEscrow(p, d)
      <3>1. Locking(p, <<"release", d>>, ReleaseEntries(t), {t.buyer, t.seller, House}, None)
        BY <2>1, <2>3, <2>5, <2>8 DEF Locking, ReleaseEscrow, Lock, t
      <3> QED
        BY <3>1
    <2>9. CASE RefundEscrow(p, d)
      <3> DEFINE reads == {t.buyer} \cup IF back > 0 THEN {House} ELSE {}
      <3>1. reads \subseteq Accounts /\ reads # {} /\ t.buyer \in reads
            /\ (back > 0 => House \in reads)
        BY <2>1
      <3>2. Lock(p, <<"refund", d>>, RefundEntries(t, back), reads)
        BY <2>9 DEF RefundEscrow, t, back
      <3> HIDE DEF reads
      <3>3. Locking(p, <<"refund", d>>, RefundEntries(t, back), reads, None)
        BY <2>2, <2>3, <2>6, <3>1, <3>2 DEF Locking, Lock
      <3> QED
        BY <3>3
    <2>10. CASE Fund(p, d)
      <3>1. Locking(p, <<"fund", d>>, FundEntries(t), {t.buyer}, "FUNDED")
        BY <2>1, <2>3, <2>4, <2>5, <2>10 DEF Locking, Fund, DealEscrow, t
      <3> QED
        BY <3>1
    <2>11. CASE Release(p, d) \/ DecideRelease(p, d)
      <3>1. PICK to \in {"COMPLETED", "RELEASED"} : ReleaseFrom(p, d, status[d], to)
        BY <2>11 DEF Release, DecideRelease, ReleaseFrom, DealEscrow
      <3>2. Locking(p, <<"release", d>>, ReleaseEntries(t), {t.buyer, t.seller, House}, to)
        BY <2>1, <2>3, <2>4, <2>5, <3>1 DEF Locking, ReleaseFrom, DealEscrow, t
      <3> QED
        BY <3>2
    <2>12. CASE DecideRefund(p, d)
      <3>1. Locking(p, <<"refund", d>>, RefundEntries(t, FeeBack(d)), {t.buyer, House},
                    "REFUNDED")
        BY <2>1, <2>2, <2>3, <2>4, <2>6, <2>12 DEF Locking, DecideRefund, DealEscrow, t
      <3> QED
        BY <3>1
    <2> QED
      BY <1>3, <2>7, <2>8, <2>9, <2>10, <2>11, <2>12
  <1> QED
    BY <1>1, <1>2, <1>3 DEF Locks

\* What an instance is about to write covers its debits.
Covers(w) ==
  \A s \in Slots : Effect(w.entries)[s] < 0 =>
    s[1] \in w.reads /\ w.seen[s] + Effect(w.entries)[s] >= 0

WorkInv ==
  \A p \in Instances :
    /\ work[p].reads # {} =>
         /\ work[p].key \in Keys /\ Covers(work[p])
         /\ work[p].to # None => work[p].key[2] \in Deals
    /\ \A d \in Deals : work[p].key = <<"status", d>> => work[p].to \in Status

LEMMA EffectType ==
  ASSUME NEW e \in [Slots -> Int]
  PROVE  /\ Effect(e) \in [Slots -> Int]
         /\ \A s \in Slots : Effect(e)[s] < 0 => e[s] < 0
         /\ \A s \in Slots : e[s] >= 0 => Effect(e)[s] = e[s]
         /\ Api = "deal" => Effect(e) = e
  BY DEF Effect

\* A key of the ledger is not that of a status change.
LEMMA KeyFacts ==
  \A key \in Keys : \A d : key # <<"status", d>>
  BY DEF Keys, EscrowKeys, DepositKeys, WithdrawalKeys

\* The keys of a deal's operations are different ones.
LEMMA EscrowKeyFacts ==
  /\ \A d \in Deals :
       {<<"fund", d>>, <<"release", d>>, <<"refund", d>>} \subseteq Keys \cap EscrowKeys
  /\ \A k \in EscrowKeys :
       k[2] \in Deals /\ k \in {<<"fund", k[2]>>, <<"release", k[2]>>, <<"refund", k[2]>>}
  /\ \A k \in Keys \ EscrowKeys : \A d : k \notin {<<"fund", d>>, <<"release", d>>, <<"refund", d>>}
  BY DEF Keys, EscrowKeys, DepositKeys, WithdrawalKeys

\* The kinds of keys, by what they stand for.
LEMMA KeyKinds ==
  /\ \A d \in Deposits : <<"deposit", d>> \in Keys \cap DepositKeys
  /\ \A w \in Withdrawals : /\ {<<"reserve", w>>, <<"reverse", w>>} \subseteq Keys
                            /\ {<<"reserve", w>>, <<"reverse", w>>} \cap (DepositKeys \cup EscrowKeys) = {}
  /\ \A d \in Deals : {<<"fund", d>>, <<"release", d>>, <<"refund", d>>} \subseteq Keys \cap EscrowKeys
  /\ DepositKeys \cap EscrowKeys = {}
  BY DEF Keys, EscrowKeys, DepositKeys, WithdrawalKeys

LEMMA NoWorkFacts ==
  /\ NoEntries \in [Slots -> Nat] /\ NoEntries \in [Slots -> Int]
  /\ NoWork.reads = {} /\ NoWork.locks = {} /\ NoWork.to = None
  /\ NoWork.seen = NoEntries /\ NoWork.entries = NoEntries
  /\ NoWork.key = <<"none", None>>
  BY DEF NoWork, NoEntries

\* The work an instance has after each kind of step.
LEMMA WorkAfterLocking ==
  ASSUME TypeOK, WorkInv, NEW p \in Instances, NEW key, NEW e, NEW reads, NEW to,
         Locking(p, key, e, reads, to)
  PROVE  (TypeOK /\ WorkInv)'
  <1> DEFINE w == [key |-> key, entries |-> e, reads |-> reads,
                   seen |-> [s \in Slots |-> IF s[1] \in reads THEN balance[s] ELSE 0],
                   locks |-> reads \cap rows, to |-> to]
  <1>1. /\ work' = [work EXCEPT ![p] = w]
        /\ UNCHANGED <<rows, balance, posted, noted, status>>
    BY DEF Locking, LockAndRead
  <1>2. w.key = key /\ w.entries = e /\ w.reads = reads /\ w.to = to /\ w.locks = reads \cap rows
    OBVIOUS
  <1>3. \A s \in Slots : w.seen[s] = IF s[1] \in reads THEN balance[s] ELSE 0
    OBVIOUS
  <1>4. w \in [key : Keys, entries : [Slots -> Int], reads : SUBSET Accounts, seen : [Slots -> Nat],
              locks : SUBSET Accounts, to : Status \cup {None}]
    <2>1. w.seen \in [Slots -> Nat]
      BY DEF TypeOK
    <2> QED
      BY <2>1 DEF Locking
  <1>5. Covers(w)
    <2>1. \A s \in Slots : ~(Effect(e)[s] < 0 /\ balance[s] + Effect(e)[s] < 0)
      BY DEF Locking, LockAndRead, Covered
    <2>2. \A s \in Slots : Effect(e)[s] < 0 => s[1] \in reads
      BY EffectType DEF Locking
    <2>3. \A s \in Slots : Effect(e)[s] \in Int /\ balance[s] \in Nat
      BY EffectType DEF Locking, TypeOK
    <2> HIDE DEF w
    <2> QED
      BY <1>2, <1>3, <2>1, <2>2, <2>3 DEF Covers
  <1> HIDE DEF w
  <1>6. \A q \in Instances : work'[q] = IF q = p THEN w ELSE work[q]
    BY <1>1 DEF TypeOK
  <1>7. TypeOK'
    BY <1>1, <1>2, <1>4, <1>6 DEF TypeOK, Locking
  <1>8. WorkInv'
    <2>1. key \in Keys /\ (to # None => key[2] \in Deals) /\ \A d \in Deals : key # <<"status", d>>
      BY KeyFacts DEF Locking
    <2>2. \A v : Covers(v)' <=> Covers(v)
      BY DEF Covers, Effect, Available
    <2> QED
      BY <1>2, <1>5, <1>6, <2>1, <2>2 DEF WorkInv
  <1> QED
    BY <1>7, <1>8

LEMMA CommitStep ==
  ASSUME TypeOK, WorkInv, NEW p \in Instances, Commit(p)
  PROVE  (TypeOK /\ WorkInv)'
  <1> DEFINE w == work[p]
  <1>1. /\ w.key \in Keys /\ Covers(w) /\ (w.to # None => w.key[2] \in Deals /\ w.to \in Status)
        /\ w.entries \in [Slots -> Int] /\ w.seen \in [Slots -> Nat]
    BY DEF Commit, WorkInv, TypeOK
  <1>2. Posting(p, w)
    BY DEF Commit
  <1>3. \A q \in Instances : work'[q] = IF q = p THEN NoWork ELSE work[q]
    BY <1>2 DEF TypeOK, Posting, End
  <1>4. rows' \subseteq Accounts
    BY <1>2, TreasuryAssumption DEF Posting, Upserted, Touched, TypeOK, Accounts
  <1>5. balance' \in [Slots -> Nat]
    <2>1. \A s \in Slots : Written(w, s) \in Nat
      BY <1>1, EffectType DEF Written, Covers, TypeOK
    <2> QED
      BY <1>2, <2>1 DEF Posting, TypeOK
  <1>6. posted' \in [Keys -> Nat] /\ noted' \in [Accounts -> Int]
    BY <1>1, <1>2, SlotFacts DEF Posting, TypeOK
  <1>7. status' \in [Deals -> Status]
    BY <1>1, <1>2 DEF Posting, TypeOK
  <1>8. TypeOK'
    BY <1>2, <1>4, <1>5, <1>6, <1>7, NoWorkFacts DEF TypeOK, Posting, End, NoWork
  <1>9. WorkInv'
    BY <1>3, NoWorkFacts DEF WorkInv, Covers, Effect, Available
  <1> QED
    BY <1>8, <1>9

\* The steps that post nothing and read no balance.
LEMMA OtherStep ==
  ASSUME TypeOK, WorkInv, NEW p \in Instances,
         \/ \E key \in Keys : CheckKey(p, key)
         \/ Rollback(p)
         \/ \E d \in Deals : \/ \E to \in Moves \cup {"EXPIRED"} : ReadStatus(p, d, to)
                             \/ WriteStatus(p, d)
  PROVE  (TypeOK /\ WorkInv)'
  <1>1. ASSUME NEW v, work' = [work EXCEPT ![p] = v], v.reads = {},
               v \in [key : Keys \cup {<<"none", None>>} \cup {<<"status", d>> : d \in Deals},
                      entries : [Slots -> Int], reads : SUBSET Accounts,
                      seen : [Slots -> Nat], locks : SUBSET Accounts,
                      to : Status \cup {None}],
               \A d \in Deals : v.key = <<"status", d>> => v.to \in Status,
               rows' \subseteq Accounts, status' \in [Deals -> Status],
               UNCHANGED <<balance, posted, noted>>
        PROVE  (TypeOK /\ WorkInv)'
    <2>1. \A q \in Instances : work'[q] = IF q = p THEN v ELSE work[q]
      BY <1>1 DEF TypeOK
    <2>2. TypeOK'
      BY <1>1 DEF TypeOK
    <2>3. WorkInv'
      BY <1>1, <2>1 DEF WorkInv, Covers, Effect, Available
    <2> QED
      BY <2>2, <2>3
  <1>2. ASSUME NEW key \in Keys, CheckKey(p, key)
        PROVE  (TypeOK /\ WorkInv)'
    <2> DEFINE v == [NoWork EXCEPT !.key = key]
    <2>1. work' = [work EXCEPT ![p] = v]
      BY <1>2 DEF CheckKey, Idle, TypeOK
    <2>2. /\ v \in [key : Keys, entries : [Slots -> Int], reads : SUBSET Accounts,
                    seen : [Slots -> Nat], locks : SUBSET Accounts, to : Status \cup {None}]
          /\ v.reads = {} /\ v.key = key
      BY NoWorkFacts DEF NoWork
    <2>3. rows' \subseteq Accounts
      BY <1>2 DEF CheckKey, TypeOK, Accounts
    <2> HIDE DEF v
    <2> QED
      BY <1>1, <1>2, <2>1, <2>2, <2>3, KeyFacts DEF CheckKey, TypeOK
  <1>3. CASE Rollback(p)
    BY <1>1, <1>3, NoWorkFacts DEF Rollback, End, TypeOK, NoWork
  <1>4. ASSUME NEW d \in Deals, NEW to \in Moves \cup {"EXPIRED"}, ReadStatus(p, d, to)
        PROVE  (TypeOK /\ WorkInv)'
    <2> DEFINE v == [NoWork EXCEPT !.key = <<"status", d>>, !.to = to]
    <2>1. to \in Status
      BY DEF Moves, Status, ActiveStates, EscrowStates, CustodialStates, TerminalStates
    <2>2. v.to = to /\ v.reads = {}
          /\ v \in [key : {<<"status", d>>}, entries : [Slots -> Int], reads : SUBSET Accounts,
                    seen : [Slots -> Nat], locks : SUBSET Accounts, to : Status \cup {None}]
      BY <2>1, NoWorkFacts DEF NoWork
    <2> HIDE DEF v
    <2>3. work' = [work EXCEPT ![p] = v] /\ UNCHANGED <<rows, balance, posted, noted, status>>
      BY <1>4 DEF ReadStatus, v
    <2> QED
      BY <1>1, <2>1, <2>2, <2>3 DEF TypeOK
  <1>5. ASSUME NEW d \in Deals, WriteStatus(p, d)
        PROVE  (TypeOK /\ WorkInv)'
    <2>1. work[p].to \in Status
      BY <1>5 DEF WriteStatus, WorkInv
    <2> QED
      BY <1>1, <1>5, <2>1, NoWorkFacts DEF WriteStatus, End, TypeOK, NoWork
  <1> QED
    BY <1>2, <1>3, <1>4, <1>5

LEMMA TypeStep == TypeOK /\ WorkInv /\ [Next]_vars => (TypeOK /\ WorkInv)'
  <1> SUFFICES ASSUME TypeOK, WorkInv, [Next]_vars
               PROVE  (TypeOK /\ WorkInv)'
    OBVIOUS
  <1>1. CASE UNCHANGED vars
    BY <1>1 DEF vars, TypeOK, WorkInv, Covers, Effect, Available
  <1>2. ASSUME NEW p \in Instances, Step(p)
        PROVE  (TypeOK /\ WorkInv)'
    <2>1. CASE Locks(p)
      <3>1. PICK key, e, reads, to : Locking(p, key, e, reads, to)
        BY <2>1, LocksIsLocking
      <3> QED
        BY <3>1, WorkAfterLocking
    <2>2. CASE Commit(p)
      BY <2>2, CommitStep
    <2>3. CASE ~Locks(p) /\ ~Commit(p)
      BY <1>2, <2>3, OtherStep DEF Step, Locks
    <2> QED
      BY <2>1, <2>2, <2>3
  <1> QED
    BY <1>1, <1>2 DEF Next

LEMMA TypeInit == Init => TypeOK /\ WorkInv
  <1> SUFFICES ASSUME Init PROVE TypeOK /\ WorkInv
    OBVIOUS
  <1>1. "AWAITING_FUNDING" \in Status
    BY DEF Status, ActiveStates, CustodialStates
  <1>2. TypeOK
    BY <1>1, NoWorkFacts, TreasuryAssumption DEF Init, TypeOK, NoWork
  <1>3. WorkInv
    BY NoWorkFacts DEF Init, WorkInv
  <1> QED
    BY <1>2, <1>3

LEMMA TypeInvariant == Spec => [](TypeOK /\ WorkInv)
  <1> QED
    BY TypeInit, TypeStep, PTL DEF Spec

\* No balance is ever negative: what a transaction debits was checked on a row
\* it read, and it writes what it read less the debit.
THEOREM NoOverdraft == Spec => []TypeOK
  <1> QED
    BY TypeInvariant, PTL

-----------------------------------------------------------------------------
(* Idempotency                                                             *)

LEMMA PostedStep == TypeOK /\ WorkInv /\ PostedOnce /\ [Next]_vars => PostedOnce'
  <1> SUFFICES ASSUME TypeOK, WorkInv, PostedOnce, [Next]_vars
               PROVE  PostedOnce'
    OBVIOUS
  <1>1. CASE UNCHANGED posted
    BY <1>1 DEF PostedOnce
  <1>2. ASSUME NEW p \in Instances, Commit(p)
        PROVE  PostedOnce'
    <2>1. /\ work[p].key \in Keys /\ posted[work[p].key] = 0
          /\ posted' = [posted EXCEPT ![work[p].key] = @ + 1]
      BY <1>2 DEF Commit, Posting, WorkInv
    <2>2. \A k \in Keys : posted'[k] = IF k = work[p].key THEN 1 ELSE posted[k]
      BY <2>1 DEF TypeOK
    <2> QED
      BY <2>2 DEF PostedOnce
  <1>3. ASSUME NEW p \in Instances, Step(p), ~Commit(p)
        PROVE  UNCHANGED posted
    <2>1. CASE Locks(p)
      BY <2>1, LocksIsLocking DEF Locking
    <2>2. CASE ~Locks(p)
      BY <1>3, <2>2 DEF Step, Locks, CheckKey, ReadStatus, WriteStatus, Rollback
    <2> QED
      BY <2>1, <2>2
  <1> QED
    BY <1>1, <1>2, <1>3 DEF Next, vars

\* No key of the ledger is executed twice, whatever passes the check together:
\* the unique index refuses the second transaction.
THEOREM KeysExecutedOnce == Spec => []PostedOnce
  <1>1. Init => PostedOnce
    BY DEF Init, PostedOnce
  <1> QED
    BY <1>1, PostedStep, TypeInvariant, PTL DEF Spec

-----------------------------------------------------------------------------
(* The ledger nets to zero                                                 *)

\* What an operation brings into the system or takes out of it.
Net(key) ==
  IF key \in DepositKeys THEN Incoming[key[2]].amount
  ELSE IF key \in EscrowKeys THEN 0
  ELSE IF key[1] = "reserve" THEN -Outgoing[key[2]].amount ELSE Outgoing[key[2]].amount

\* What entries do to an account.
Change(e) == [a \in Accounts |-> e[Available(a)] + e[Locked(a)]]

LEMMA AccountsFinite == IsFiniteSet(Accounts)
  BY FiniteAssumption, FS_AddElement DEF Accounts

\* The entries of a payment net to its amount, those of an escrow operation to
\* zero.
LEMMA PaymentNet ==
  ASSUME NEW u \in Users, NEW n \in Int
  PROVE  SumFunctionOnSet(Change(PaymentEntries(u, n)), Accounts) = n
  <1>1. u \in Accounts
    BY DEF Accounts
  <1>2. \A s \in Slots : PaymentEntries(u, n)[s] = IF s = Available(u) THEN n ELSE 0
    BY <1>1, SlotFacts DEF PaymentEntries, NoEntries
  <1>3. \A a \in Accounts : Change(PaymentEntries(u, n))[a] = IF a = u THEN n ELSE 0
    BY <1>1, <1>2, SlotFacts DEF Change
  <1> QED
    BY <1>1, <1>3, AccountsFinite, SumOne

LEMMA EscrowNet ==
  ASSUME NEW d \in Deals, NEW fee \in Nat
  PROVE  LET t == Terms[d] IN
         /\ SumFunctionOnSet(Change(FundEntries(t)), Accounts) = 0
         /\ SumFunctionOnSet(Change(ReleaseEntries(t)), Accounts) = 0
         /\ SumFunctionOnSet(Change(RefundEntries(t, fee)), Accounts) = 0
  <1> DEFINE t == Terms[d]
  <1>1. /\ t.buyer \in Accounts /\ t.seller \in Accounts /\ House \in Accounts
        /\ t.buyer # House /\ t.seller # House /\ t.buyer # t.seller
        /\ t.amount \in Nat \ {0} /\ t.buyerFee \in Nat /\ t.sellerFee \in Nat
    BY TreasuryAssumption DEF Accounts
  <1> HIDE DEF t
  <1>2. \A s \in Slots : FundEntries(t)[s] = IF s = Available(House) THEN t.buyerFee
                           ELSE IF s = Locked(t.buyer) THEN t.amount
                           ELSE IF s = Available(t.buyer) THEN -(t.amount + t.buyerFee) ELSE 0
    BY <1>1, SlotFacts DEF FundEntries, NoEntries
  <1>3. \A s \in Slots : ReleaseEntries(t)[s] = IF s = Available(House) THEN t.sellerFee
                           ELSE IF s = Available(t.seller) THEN t.amount - t.sellerFee
                           ELSE IF s = Locked(t.buyer) THEN -t.amount ELSE 0
    BY <1>1, SlotFacts DEF ReleaseEntries, NoEntries
  <1>4. \A s \in Slots : RefundEntries(t, fee)[s] = IF s = Available(House) THEN -fee
                           ELSE IF s = Available(t.buyer) THEN t.amount + fee
                           ELSE IF s = Locked(t.buyer) THEN -t.amount ELSE 0
    BY <1>1, SlotFacts DEF RefundEntries, NoEntries
  <1>5. SumFunctionOnSet(Change(FundEntries(t)), Accounts) = 0
    <2>1. \A a \in Accounts : Change(FundEntries(t))[a] =
            IF a = House THEN t.buyerFee ELSE IF a = t.buyer THEN -t.buyerFee ELSE 0
      BY <1>1, <1>2, SlotFacts DEF Change
    <2>2. SumFunctionOnSet(Change(FundEntries(t)), Accounts)
            = Change(FundEntries(t))[House] + Change(FundEntries(t))[t.buyer]
      BY <1>1, <2>1, AccountsFinite, SumTwo
    <2> QED
      BY <1>1, <2>1, <2>2
  <1>6. SumFunctionOnSet(Change(ReleaseEntries(t)), Accounts) = 0
    <2>1. \A a \in Accounts : Change(ReleaseEntries(t))[a] =
            IF a = House THEN t.sellerFee ELSE IF a = t.seller THEN t.amount - t.sellerFee
            ELSE IF a = t.buyer THEN -t.amount ELSE 0
      BY <1>1, <1>3, SlotFacts DEF Change
    <2>2. SumFunctionOnSet(Change(ReleaseEntries(t)), Accounts)
            = Change(ReleaseEntries(t))[House] + Change(ReleaseEntries(t))[t.seller]
              + Change(ReleaseEntries(t))[t.buyer]
      BY <1>1, <2>1, AccountsFinite, SumThree
    <2> QED
      BY <1>1, <2>1, <2>2
  <1>7. SumFunctionOnSet(Change(RefundEntries(t, fee)), Accounts) = 0
    <2>1. \A a \in Accounts : Change(RefundEntries(t, fee))[a] =
            IF a = House THEN -fee ELSE IF a = t.buyer THEN fee ELSE 0
      BY <1>1, <1>4, SlotFacts DEF Change
    <2>2. SumFunctionOnSet(Change(RefundEntries(t, fee)), Accounts)
            = Change(RefundEntries(t, fee))[House] + Change(RefundEntries(t, fee))[t.buyer]
      BY <1>1, <2>1, AccountsFinite, SumTwo
    <2> QED
      BY <1>1, <2>1, <2>2
  <1> QED
    BY <1>5, <1>6, <1>7 DEF t

\* Whatever a key stands for, its entries net to what it brings or takes.
LEMMA OperationNet ==
  ASSUME NEW op \in Operations
  PROVE  /\ op[1] \in Keys
         /\ op[2] \in [Slots -> Int]
         /\ SumFunctionOnSet(Change(op[2]), Accounts) = Net(op[1])
  <1>1. ASSUME NEW d \in Deposits,
               op = <<<<"deposit", d>>, PaymentEntries(Incoming[d].user, Incoming[d].amount)>>
        PROVE  /\ op[1] \in Keys /\ op[2] \in [Slots -> Int]
               /\ SumFunctionOnSet(Change(op[2]), Accounts) = Net(op[1])
    <2>1. Incoming[d].user \in Users /\ Incoming[d].amount \in Int
      BY TreasuryAssumption
    <2>2. Net(op[1]) = Incoming[d].amount
      BY <1>1, KeyKinds DEF Net
    <2> QED
      BY <1>1, <2>1, <2>2, PaymentNet, PaymentFacts, KeyKinds
  <1>2. ASSUME NEW w \in Withdrawals, NEW n, NEW kind,
               \/ kind = "reserve" /\ n = -Outgoing[w].amount
               \/ kind = "reverse" /\ n = Outgoing[w].amount,
               op = <<<<kind, w>>, PaymentEntries(Outgoing[w].user, n)>>
        PROVE  /\ op[1] \in Keys /\ op[2] \in [Slots -> Int]
               /\ SumFunctionOnSet(Change(op[2]), Accounts) = Net(op[1])
    <2>1. Outgoing[w].user \in Users /\ n \in Int
      BY <1>2, TreasuryAssumption
    <2>2. Net(op[1]) = n /\ op[1] \in Keys
      BY <1>2, KeyKinds DEF Net
    <2> QED
      BY <1>2, <2>1, <2>2, PaymentNet, PaymentFacts
  <1>3. ASSUME NEW d \in Deals, NEW fee \in Nat,
               \/ op = <<<<"fund", d>>, FundEntries(Terms[d])>>
               \/ op = <<<<"release", d>>, ReleaseEntries(Terms[d])>>
               \/ op = <<<<"refund", d>>, RefundEntries(Terms[d], fee)>>
        PROVE  /\ op[1] \in Keys /\ op[2] \in [Slots -> Int]
               /\ SumFunctionOnSet(Change(op[2]), Accounts) = Net(op[1])
    <2>0. op[1] \in {<<"fund", d>>, <<"release", d>>, <<"refund", d>>}
      BY <1>3
    <2>1. Net(op[1]) = 0 /\ op[1] \in Keys
      BY <2>0, KeyKinds DEF Net
    <2>2. /\ SumFunctionOnSet(Change(FundEntries(Terms[d])), Accounts) = 0
          /\ SumFunctionOnSet(Change(ReleaseEntries(Terms[d])), Accounts) = 0
          /\ SumFunctionOnSet(Change(RefundEntries(Terms[d], fee)), Accounts) = 0
      BY EscrowNet
    <2>3. /\ FundEntries(Terms[d]) \in [Slots -> Int] /\ ReleaseEntries(Terms[d]) \in [Slots -> Int]
          /\ RefundEntries(Terms[d], fee) \in [Slots -> Int]
      BY EntryFacts
    <2>4. op[2] \in {FundEntries(Terms[d]), ReleaseEntries(Terms[d]), RefundEntries(Terms[d], fee)}
      BY <1>3
    <2> QED
      BY <2>1, <2>2, <2>3, <2>4
  <1>4. CASE \E d \in Deposits :
               op = <<<<"deposit", d>>, PaymentEntries(Incoming[d].user, Incoming[d].amount)>>
    BY <1>1, <1>4
  <1>5. CASE \E w \in Withdrawals :
               \/ op = <<<<"reserve", w>>, PaymentEntries(Outgoing[w].user, -Outgoing[w].amount)>>
               \/ op = <<<<"reverse", w>>, PaymentEntries(Outgoing[w].user, Outgoing[w].amount)>>
    BY <1>2, <1>5
  <1>6. CASE \E d \in Deals : \E fee \in {0, Terms[d].buyerFee} :
               \/ op = <<<<"fund", d>>, FundEntries(Terms[d])>>
               \/ op = <<<<"release", d>>, ReleaseEntries(Terms[d])>>
               \/ op = <<<<"refund", d>>, RefundEntries(Terms[d], fee)>>
    <2>1. \A d \in Deals : {0, Terms[d].buyerFee} \subseteq Nat
      BY TreasuryAssumption
    <2> QED
      BY <1>3, <1>6, <2>1
  <1> QED
    BY <1>4, <1>5, <1>6 DEF Operations

\* Every key has its entries.
LEMMA OperationForms ==
  /\ \A d \in Deposits :
       <<<<"deposit", d>>, PaymentEntries(Incoming[d].user, Incoming[d].amount)>> \in Operations
  /\ \A w \in Withdrawals :
       /\ <<<<"reserve", w>>, PaymentEntries(Outgoing[w].user, -Outgoing[w].amount)>> \in Operations
       /\ <<<<"reverse", w>>, PaymentEntries(Outgoing[w].user, Outgoing[w].amount)>> \in Operations
  /\ \A d \in Deals :
       /\ <<<<"fund", d>>, FundEntries(Terms[d])>> \in Operations
       /\ <<<<"release", d>>, ReleaseEntries(Terms[d])>> \in Operations
       /\ \A fee \in {0, Terms[d].buyerFee} :
            <<<<"refund", d>>, RefundEntries(Terms[d], fee)>> \in Operations
  BY DEF Operations

\* What an instance remembers of the rows it locked.
LEMMA LockedWork ==
  ASSUME TypeOK, NEW p \in Instances, NEW key, NEW e, NEW reads, NEW to,
         LockAndRead(p, key, e, reads, to)
  PROVE  /\ work'[p].key = key /\ work'[p].entries = e /\ work'[p].reads = reads /\ work'[p].to = to
         /\ \A s \in Slots : s[1] \in reads => work'[p].seen[s] = balance[s]
         /\ \A q \in Instances \ {p} : work'[q] = work[q]
  BY DEF LockAndRead, TypeOK

\* A transaction is one of the operations, with the key that was checked or a
\* deal's.
LEMMA LocksAnOperation ==
  ASSUME TypeOK, NEW p \in Instances, Locks(p)
  PROVE  /\ <<work'[p].key, work'[p].entries>> \in Operations
         /\ work'[p].key = work[p].key \/ work'[p].key \in EscrowKeys
  <1>1. ASSUME NEW key, NEW e, NEW reads, NEW to, LockAndRead(p, key, e, reads, to),
               <<key, e>> \in Operations, key \in EscrowKeys \/ Checked(p, key)
        PROVE  /\ <<work'[p].key, work'[p].entries>> \in Operations
               /\ work'[p].key = work[p].key \/ work'[p].key \in EscrowKeys
    <2>1. work'[p].key = key /\ work'[p].entries = e
      BY <1>1, LockedWork
    <2>2. Checked(p, key) => work[p].key = key
      BY DEF Checked, NoWork
    <2> QED
      BY <1>1, <2>1, <2>2
  <1>2. CASE \E d \in Deposits : CreditDeposit(p, d)
    BY <1>1, <1>2, OperationForms DEF CreditDeposit, Lock
  <1>3. ASSUME NEW w \in Withdrawals, ReserveWithdrawal(p, w) \/ ReverseWithdrawal(p, w)
        PROVE  /\ <<work'[p].key, work'[p].entries>> \in Operations
               /\ work'[p].key = work[p].key \/ work'[p].key \in EscrowKeys
    <2>1. CASE ReserveWithdrawal(p, w)
      BY <1>1, <2>1, OperationForms DEF ReserveWithdrawal, Lock
    <2>2. CASE ReverseWithdrawal(p, w)
      BY <1>1, <2>2, OperationForms DEF ReverseWithdrawal, Lock
    <2> QED
      BY <1>3, <2>1, <2>2
  <1>4. ASSUME NEW d \in Deals,
               \/ FundEscrow(p, d) \/ ReleaseEscrow(p, d) \/ RefundEscrow(p, d)
               \/ Fund(p, d) \/ Release(p, d) \/ DecideRelease(p, d) \/ DecideRefund(p, d)
        PROVE  /\ <<work'[p].key, work'[p].entries>> \in Operations
               /\ work'[p].key = work[p].key \/ work'[p].key \in EscrowKeys
    <2>1. {<<"fund", d>>, <<"release", d>>, <<"refund", d>>} \subseteq EscrowKeys
      BY EscrowKeyFacts
    <2>2. CASE FundEscrow(p, d) \/ Fund(p, d)
      BY <1>1, <2>1, <2>2, OperationForms DEF FundEscrow, Fund, Lock, DealEscrow
    <2>3. CASE ReleaseEscrow(p, d) \/ Release(p, d) \/ DecideRelease(p, d)
      BY <1>1, <2>1, <2>3, OperationForms
         DEF ReleaseEscrow, Release, DecideRelease, ReleaseFrom, Lock, DealEscrow
    <2>4. CASE RefundEscrow(p, d)
      <3>1. PICK fee \in {0, Terms[d].buyerFee} : \E reads :
              Lock(p, <<"refund", d>>, RefundEntries(Terms[d], fee), reads)
        BY <2>4 DEF RefundEscrow
      <3> QED
        BY <1>1, <2>1, <3>1, OperationForms DEF Lock
    <2>5. CASE DecideRefund(p, d)
      <3>1. FeeBack(d) \in {0, Terms[d].buyerFee}
        BY DEF FeeBack
      <3> QED
        BY <1>1, <2>1, <2>5, <3>1, OperationForms DEF DecideRefund, DealEscrow
    <2> QED
      BY <1>4, <2>2, <2>3, <2>4, <2>5
  <1> QED
    BY <1>2, <1>3, <1>4 DEF Locks

\* The steps that neither lock nor commit leave the ledger alone, and the
\* instance keeps nothing that it read.
LEMMA OtherWork ==
  ASSUME TypeOK, NEW p \in Instances, Step(p), ~Locks(p), ~Commit(p)
  PROVE  /\ UNCHANGED <<balance, posted, noted>>
         /\ rows' \in {rows, rows \cup {House}}
         /\ work'[p].reads = {} /\ work'[p].locks = {}
         /\ \A q \in Instances \ {p} : work'[q] = work[q]
         /\ \A w \in Withdrawals : work'[p].key = <<"reverse", w>> => Done(<<"reserve", w>>)
  <1>1. ASSUME NEW v, work' = [work EXCEPT ![p] = v], v.reads = {}, v.locks = {},
               \A w \in Withdrawals : v.key = <<"reverse", w>> => Done(<<"reserve", w>>)
        PROVE  /\ work'[p].reads = {} /\ work'[p].locks = {}
               /\ \A q \in Instances \ {p} : work'[q] = work[q]
               /\ \A w \in Withdrawals : work'[p].key = <<"reverse", w>> => Done(<<"reserve", w>>)
    BY <1>1 DEF TypeOK
  <1>2. CASE \E key \in Keys : CheckKey(p, key)
    <2>1. PICK key \in Keys : CheckKey(p, key)
      BY <1>2
    <2> DEFINE v == [NoWork EXCEPT !.key = key]
    <2>2. work' = [work EXCEPT ![p] = v] /\ v.key = key /\ v.reads = {} /\ v.locks = {}
      BY <2>1, NoWorkFacts DEF CheckKey, Idle, NoWork, TypeOK
    <2>3. UNCHANGED <<balance, posted, noted>> /\ rows' \in {rows, rows \cup {House}}
      BY <2>1 DEF CheckKey
    <2>4. \A w \in Withdrawals : key = <<"reverse", w>> => Done(<<"reserve", w>>)
      BY <2>1 DEF CheckKey, Done
    <2> HIDE DEF v
    <2> QED
      BY <1>1, <2>2, <2>3, <2>4
  <1>3. CASE Rollback(p) \/ \E d \in Deals : WriteStatus(p, d)
    <2>1. /\ UNCHANGED <<balance, posted, noted, rows>>
          /\ work' = [work EXCEPT ![p] = NoWork]
      BY <1>3 DEF Rollback, WriteStatus, End
    <2>2. \A w : NoWork.key # <<"reverse", w>>
      BY NoWorkFacts
    <2>3. NoWork.reads = {} /\ NoWork.locks = {}
      BY NoWorkFacts
    <2> QED
      BY <1>1, <2>1, <2>2, <2>3
  <1>4. CASE \E d \in Deals : \E to \in Moves \cup {"EXPIRED"} : ReadStatus(p, d, to)
    <2>1. PICK d \in Deals, to \in Moves \cup {"EXPIRED"} : ReadStatus(p, d, to)
      BY <1>4
    <2> DEFINE v == [NoWork EXCEPT !.key = <<"status", d>>, !.to = to]
    <2>2. /\ work' = [work EXCEPT ![p] = v] /\ v.key = <<"status", d>> /\ v.reads = {} /\ v.locks = {}
          /\ UNCHANGED <<balance, posted, noted, rows>>
      BY <2>1, NoWorkFacts DEF ReadStatus, NoWork
    <2>3. \A w : v.key # <<"reverse", w>>
      BY <2>2
    <2> HIDE DEF v
    <2> QED
      BY <1>1, <2>2, <2>3
  <1> QED
    BY <1>2, <1>3, <1>4 DEF Step, Locks

\* Only a commit changes a balance or the ledger.
LEMMA OnlyCommitPosts ==
  ASSUME TypeOK, NEW p \in Instances, Step(p), ~Commit(p)
  PROVE  UNCHANGED <<balance, posted, noted>>
  <1>1. CASE Locks(p)
    BY <1>1, LocksIsLocking DEF Locking
  <1> QED
    BY <1>1, OtherWork

\* A transaction under way is one of the operations, and a reversal follows what
\* was reserved.
OperationInv ==
  \A p \in Instances :
    /\ work[p].reads # {} => <<work[p].key, work[p].entries>> \in Operations
    /\ \A w \in Withdrawals : work[p].key = <<"reverse", w>> => Done(<<"reserve", w>>)

\* A commit posts its key for the first time, and its entries with it.
LEMMA CommitPosts ==
  ASSUME TypeOK, WorkInv, NEW p \in Instances, Commit(p)
  PROVE  /\ work[p].key \in Keys /\ ~Done(work[p].key) /\ work[p].reads # {}
         /\ \A k \in Keys : Done(k)' <=> Done(k) \/ k = work[p].key
         /\ noted' = [a \in Accounts |-> noted[a] + Change(work[p].entries)[a]]
         /\ work'[p] = NoWork
         /\ \A q \in Instances \ {p} : work'[q] = work[q]
  <1>1. /\ work[p].key \in Keys /\ posted[work[p].key] = 0 /\ work[p].reads # {}
        /\ posted' = [posted EXCEPT ![work[p].key] = @ + 1]
        /\ work' = [work EXCEPT ![p] = NoWork]
    BY DEF Commit, Posting, End, WorkInv
  <1>2. \A k \in Keys : Done(k)' <=> Done(k) \/ k = work[p].key
    BY <1>1 DEF Done, TypeOK
  <1>3. noted' = [a \in Accounts |-> noted[a] + Change(work[p].entries)[a]]
    <2>1. \A a \in Accounts :
            noted[a] + work[p].entries[Available(a)] + work[p].entries[Locked(a)]
              = noted[a] + Change(work[p].entries)[a]
      <3>1. \A a \in Accounts : /\ noted[a] \in Int
                                /\ work[p].entries[Available(a)] \in Int
                                /\ work[p].entries[Locked(a)] \in Int
        BY SlotFacts DEF TypeOK
      <3> QED
        BY <3>1 DEF Change
    <2>2. noted' = [a \in Accounts |->
                      noted[a] + work[p].entries[Available(a)] + work[p].entries[Locked(a)]]
      BY DEF Commit, Posting
    <2> QED
      BY <2>1, <2>2
  <1> QED
    BY <1>1, <1>2, <1>3 DEF Done, TypeOK

LEMMA OperationStep ==
  ASSUME TypeOK, WorkInv, OperationInv, [Next]_vars
  PROVE  OperationInv'
  <1>1. CASE UNCHANGED vars
    BY <1>1 DEF vars, OperationInv, Done
  <1>2. ASSUME NEW p \in Instances, UNCHANGED posted,
               \A q \in Instances \ {p} : work'[q] = work[q],
               work'[p].reads # {} => <<work'[p].key, work'[p].entries>> \in Operations,
               \A w \in Withdrawals : work'[p].key = <<"reverse", w>> => Done(<<"reserve", w>>)
        PROVE  OperationInv'
    <2>1. \A k : Done(k)' <=> Done(k)
      BY <1>2 DEF Done
    <2> QED
      BY <1>2, <2>1 DEF OperationInv
  <1>3. ASSUME NEW p \in Instances, Locks(p)
        PROVE  OperationInv'
    <2>1. PICK key, e, reads, to : Locking(p, key, e, reads, to)
      BY <1>3, LocksIsLocking
    <2>2. UNCHANGED posted /\ \A q \in Instances \ {p} : work'[q] = work[q]
      BY <2>1, LockedWork DEF Locking
    <2>3. \A w \in Withdrawals : <<"reverse", w>> \notin EscrowKeys
      BY KeyKinds
    <2> QED
      BY <1>2, <1>3, <2>2, <2>3, LocksAnOperation DEF OperationInv
  <1>4. ASSUME NEW p \in Instances, Commit(p)
        PROVE  OperationInv'
    <2>1. \A w \in Withdrawals : Done(<<"reserve", w>>) => Done(<<"reserve", w>>)'
      BY <1>4, CommitPosts, KeyKinds
    <2>2. \A w : NoWork.key # <<"reverse", w>>
      BY NoWorkFacts
    <2> QED
      BY <1>4, <2>1, <2>2, CommitPosts, NoWorkFacts DEF OperationInv
  <1>5. ASSUME NEW p \in Instances, Step(p), ~Locks(p), ~Commit(p)
        PROVE  OperationInv'
    BY <1>2, <1>5, OtherWork
  <1> QED
    BY <1>1, <1>3, <1>4, <1>5 DEF Next

LEMMA OperationInit == Init => OperationInv
  <1> SUFFICES ASSUME Init PROVE OperationInv
    OBVIOUS
  <1>1. \A p \in Instances : work[p].reads = {} /\ work[p].key = <<"none", None>>
    BY NoWorkFacts DEF Init
  <1> QED
    BY <1>1 DEF OperationInv

LEMMA OperationInvariant == Spec => []OperationInv
  <1>1. TypeOK /\ WorkInv /\ OperationInv /\ [Next]_vars => OperationInv'
    BY OperationStep
  <1> QED
    BY <1>1, OperationInit, TypeInvariant, PTL DEF Spec

\* The deposits, reservations and reversals that were posted.
Executed(kind, S) == {x \in S : Done(<<kind, x>>)}

LEMMA ConservedSums ==
  Conserved <=>
    SumFunctionOnSet(noted, Accounts)
      = SumFunctionOnSet(IncomingAmount, Executed("deposit", Deposits))
        - SumFunctionOnSet(OutgoingAmount, Executed("reserve", Withdrawals))
        + SumFunctionOnSet(OutgoingAmount, Executed("reverse", Withdrawals))
  BY DEF Conserved, Executed

\* What is posted for the first time joins the sum of its kind.
LEMMA ExecutedGrows ==
  ASSUME NEW k, ~Done(k), NEW kind, NEW S, IsFiniteSet(S),
         \A x \in S : Done(<<kind, x>>)' <=> Done(<<kind, x>>) \/ <<kind, x>> = k,
         NEW f, \A x \in S : f[x] \in Int
  PROVE  /\ SumFunctionOnSet(f, Executed(kind, S)) \in Int
         /\ (\A x \in S : <<kind, x>> # k) =>
              SumFunctionOnSet(f, Executed(kind, S)') = SumFunctionOnSet(f, Executed(kind, S))
         /\ \A x \in S : <<kind, x>> = k =>
              SumFunctionOnSet(f, Executed(kind, S)') = f[x] + SumFunctionOnSet(f, Executed(kind, S))
  <1>1. PICK T : T = Executed(kind, S)
    OBVIOUS
  <1>2. PICK U : U = Executed(kind, S)'
    OBVIOUS
  <1>3. T \subseteq S /\ IsFiniteSet(T)
    <2>1. T \subseteq S
      BY <1>1 DEF Executed
    <2> QED
      BY <2>1, FS_Subset
  <1>4. SumFunctionOnSet(f, T) \in Int
    BY <1>3, SumType
  <1>5. (\A x \in S : <<kind, x>> # k) => U = T
    BY <1>1, <1>2 DEF Executed
  <1>6. ASSUME NEW x \in S, <<kind, x>> = k
        PROVE  SumFunctionOnSet(f, U) = f[x] + SumFunctionOnSet(f, T)
    <2>1. U = T \cup {x} /\ x \notin T
      BY <1>1, <1>2, <1>6 DEF Executed
    <2> QED
      BY <1>3, <2>1, SumAdd
  <1> QED
    BY <1>1, <1>2, <1>4, <1>5, <1>6

LEMMA AmountTypes ==
  /\ \A d \in Deposits : IncomingAmount[d] = Incoming[d].amount /\ IncomingAmount[d] \in Int
  /\ \A w \in Withdrawals : OutgoingAmount[w] = Outgoing[w].amount /\ OutgoingAmount[w] \in Int
  /\ \A d \in Deals : DealAmount[d] = Terms[d].amount /\ DealAmount[d] \in Int
  BY TreasuryAssumption DEF IncomingAmount, OutgoingAmount, DealAmount

\* A commit adds to both sides what its operation brings or takes.
LEMMA CommitConserves ==
  ASSUME TypeOK, WorkInv, OperationInv, Conserved, NEW p \in Instances, Commit(p)
  PROVE  Conserved'
  <1> DEFINE k == work[p].key
             e == work[p].entries
             In == SumFunctionOnSet(IncomingAmount, Executed("deposit", Deposits))
             Out == SumFunctionOnSet(OutgoingAmount, Executed("reserve", Withdrawals))
             Back == SumFunctionOnSet(OutgoingAmount, Executed("reverse", Withdrawals))
             In2 == SumFunctionOnSet(IncomingAmount, Executed("deposit", Deposits)')
             Out2 == SumFunctionOnSet(OutgoingAmount, Executed("reserve", Withdrawals)')
             Back2 == SumFunctionOnSet(OutgoingAmount, Executed("reverse", Withdrawals)')
  <1>1. /\ k \in Keys /\ ~Done(k)
        /\ \A j \in Keys : Done(j)' <=> Done(j) \/ j = k
        /\ noted' = [a \in Accounts |-> noted[a] + Change(e)[a]]
        /\ <<k, e>> \in Operations
    BY CommitPosts DEF OperationInv
  <1>2. SumFunctionOnSet(Change(e), Accounts) = Net(k) /\ e \in [Slots -> Int]
    BY <1>1, OperationNet
  <1>3. SumFunctionOnSet(noted', Accounts) = SumFunctionOnSet(noted, Accounts) + Net(k)
    <2>1. \A a \in Accounts : noted[a] \in Int /\ Change(e)[a] \in Int
                              /\ noted'[a] = noted[a] + Change(e)[a]
      BY <1>1, <1>2, SlotFacts DEF Change, TypeOK
    <2> QED
      BY <1>2, <2>1, AccountsFinite, SumPlus
  <1>4. /\ In \in Int
        /\ (\A d \in Deposits : <<"deposit", d>> # k) => In2 = In
        /\ \A d \in Deposits : <<"deposit", d>> = k => In2 = Incoming[d].amount + In
    <2>1. \A d \in Deposits : Done(<<"deposit", d>>)' <=> Done(<<"deposit", d>>) \/ <<"deposit", d>> = k
      BY <1>1, KeyKinds
    <2> QED
      BY <1>1, <2>1, ExecutedGrows, FiniteAssumption, AmountTypes
  <1>5. /\ Out \in Int
        /\ (\A w \in Withdrawals : <<"reserve", w>> # k) => Out2 = Out
        /\ \A w \in Withdrawals : <<"reserve", w>> = k => Out2 = Outgoing[w].amount + Out
    <2>1. \A w \in Withdrawals : Done(<<"reserve", w>>)' <=> Done(<<"reserve", w>>) \/ <<"reserve", w>> = k
      BY <1>1, KeyKinds
    <2> QED
      BY <1>1, <2>1, ExecutedGrows, FiniteAssumption, AmountTypes
  <1>6. /\ Back \in Int
        /\ (\A w \in Withdrawals : <<"reverse", w>> # k) => Back2 = Back
        /\ \A w \in Withdrawals : <<"reverse", w>> = k => Back2 = Outgoing[w].amount + Back
    <2>1. \A w \in Withdrawals : Done(<<"reverse", w>>)' <=> Done(<<"reverse", w>>) \/ <<"reverse", w>> = k
      BY <1>1, KeyKinds
    <2> QED
      BY <1>1, <2>1, ExecutedGrows, FiniteAssumption, AmountTypes
  <1>7. SumFunctionOnSet(noted, Accounts) = In - Out + Back
    BY ConservedSums
  <1>8. SumFunctionOnSet(noted, Accounts) \in Int
    BY <1>4, <1>5, <1>6, <1>7
  <1>9. Conserved' <=> SumFunctionOnSet(noted', Accounts) = In2 - Out2 + Back2
    BY DEF Conserved, Executed
  <1> HIDE DEF k, e, In, Out, Back, In2, Out2, Back2
  <1>10. SumFunctionOnSet(noted', Accounts) = In2 - Out2 + Back2
    <2>1. ASSUME NEW d \in Deposits, k = <<"deposit", d>>
          PROVE  SumFunctionOnSet(noted', Accounts) = In2 - Out2 + Back2
      <3>1. Net(k) = Incoming[d].amount /\ Incoming[d].amount \in Int
        BY <2>1, KeyKinds, TreasuryAssumption DEF Net
      <3>2. In2 = Incoming[d].amount + In
        BY <1>4, <2>1
      <3>3. Out2 = Out /\ Back2 = Back
        BY <1>5, <1>6, <2>1
      <3> QED
        BY <1>3, <1>4, <1>5, <1>6, <1>7, <3>1, <3>2, <3>3
    <2>2. ASSUME NEW w \in Withdrawals, k = <<"reserve", w>>
          PROVE  SumFunctionOnSet(noted', Accounts) = In2 - Out2 + Back2
      <3>0. Outgoing[w].amount \in Int
        BY TreasuryAssumption
      <3>1. Net(k) = -Outgoing[w].amount
        BY <2>2, KeyKinds DEF Net
      <3>2. Out2 = Outgoing[w].amount + Out
        BY <1>5, <2>2
      <3>3. In2 = In /\ Back2 = Back
        BY <1>4, <1>6, <2>2
      <3> QED
        BY <1>3, <1>4, <1>5, <1>6, <1>7, <3>0, <3>1, <3>2, <3>3
    <2>3. ASSUME NEW w \in Withdrawals, k = <<"reverse", w>>
          PROVE  SumFunctionOnSet(noted', Accounts) = In2 - Out2 + Back2
      <3>0. Outgoing[w].amount \in Int
        BY TreasuryAssumption
      <3>1. Net(k) = Outgoing[w].amount
        BY <2>3, KeyKinds DEF Net
      <3>2. Back2 = Outgoing[w].amount + Back
        BY <1>6, <2>3
      <3>3. In2 = In /\ Out2 = Out
        BY <1>4, <1>5, <2>3
      <3> QED
        BY <1>3, <1>4, <1>5, <1>6, <1>7, <3>0, <3>1, <3>2, <3>3
    <2>4. CASE k \in EscrowKeys
      <3>1. Net(k) = 0
        BY <2>4, KeyKinds DEF Net
      <3>2. In2 = In /\ Out2 = Out /\ Back2 = Back
        BY <1>4, <1>5, <1>6, <2>4, KeyKinds
      <3> QED
        BY <1>3, <1>8, <1>7, <3>1, <3>2
    <2> QED
      BY <1>1, <2>1, <2>2, <2>3, <2>4 DEF Keys, DepositKeys, WithdrawalKeys
  <1> QED
    BY <1>9, <1>10

LEMMA ConservedStep ==
  ASSUME TypeOK, WorkInv, OperationInv, Conserved, [Next]_vars
  PROVE  Conserved'
  <1>1. CASE UNCHANGED <<posted, noted>>
    BY <1>1 DEF Conserved, Done
  <1> QED
    BY <1>1, OnlyCommitPosts, CommitConserves DEF Next, vars

LEMMA ConservedInit == Init => Conserved
  <1> SUFFICES ASSUME Init PROVE Conserved
    OBVIOUS
  <1>1. SumFunctionOnSet(noted, Accounts) = 0
    BY AccountsFinite, SumZero DEF Init
  <1>2. \A k \in Keys : ~Done(k)
    BY DEF Init, Done
  <1>3. /\ Executed("deposit", Deposits) = {}
        /\ Executed("reserve", Withdrawals) = {} /\ Executed("reverse", Withdrawals) = {}
    BY <1>2, KeyKinds DEF Executed
  <1>4. \A f : SumFunctionOnSet(f, {}) = 0
    BY SumEmpty
  <1> QED
    BY <1>1, <1>3, <1>4, ConservedSums

\* The ledger nets to zero for any number of instances, and also where rows are
\* missing: a credit can be lost on a balance, but never in the ledger.
THEOREM MoneyIsConserved == Spec => []Conserved
  <1>1. TypeOK /\ WorkInv /\ OperationInv /\ [Next]_vars => OperationInv'
    BY OperationStep
  <1>2. TypeOK /\ WorkInv /\ OperationInv /\ Conserved /\ [Next]_vars => Conserved'
    BY ConservedStep
  <1> QED
    BY <1>1, <1>2, OperationInit, ConservedInit, TypeInvariant, PTL DEF Spec

-----------------------------------------------------------------------------
(* The balances are the sums of the ledger                                 *)

\* Where every row exists, what an instance has read is locked and nobody
\* changes it, and the rows of two instances are different ones.
LockInv ==
  /\ rows = Accounts
  /\ \A p \in Instances :
       /\ work[p].locks = work[p].reads
       /\ work[p].reads # {} => Effect(work[p].entries) = work[p].entries
       /\ \A s \in Slots : s[1] \in work[p].locks => work[p].seen[s] = balance[s]
       /\ \A q \in Instances \ {p} : work[p].locks \cap work[q].locks = {}

\* All rows exist, and refundEscrow returns no fees.
AllRows == Opened = Accounts /\ (Api = "treasury" => ~RefundsFee)

LEMMA LockAfterLocking ==
  ASSUME AllRows, TypeOK, LockInv, NEW p \in Instances,
         NEW key, NEW e, NEW reads, NEW to, Locking(p, key, e, reads, to)
  PROVE  LockInv'
  <1> DEFINE seen == [s \in Slots |-> IF s[1] \in reads THEN balance[s] ELSE 0]
             w == [key |-> key, entries |-> e, reads |-> reads, seen |-> seen,
                   locks |-> reads \cap rows, to |-> to]
  <1>1. /\ work' = [work EXCEPT ![p] = w] /\ UNCHANGED <<rows, balance>>
        /\ reads \subseteq Accounts /\ e \in [Slots -> Int] /\ FreeFor(p, reads)
    BY DEF Locking, LockAndRead
  <1>2. w.reads = reads /\ w.locks = reads /\ w.entries = e /\ w.seen = seen
    BY <1>1 DEF LockInv
  <1>3. Effect(e) = e
    BY <1>1, TreasuryAssumption DEF Effect, Locking, AllRows
  <1>4. \A s \in Slots : s[1] \in reads => seen[s] = balance[s]
    OBVIOUS
  <1> HIDE DEF seen, w
  <1>5. \A q \in Instances : work'[q] = IF q = p THEN w ELSE work[q]
    BY <1>1 DEF TypeOK
  <1>6. \A v : Effect(v)' = Effect(v)
    BY DEF Effect, Available
  <1> QED
    BY <1>1, <1>2, <1>3, <1>4, <1>5, <1>6 DEF LockInv, FreeFor

\* What a transaction read is what the balances still hold, and its entries are
\* booked as they are.
FreshInv ==
  \A p \in Instances : work[p].reads # {} =>
    /\ Effect(work[p].entries) = work[p].entries
    /\ \A s \in Slots : s[1] \in work[p].reads => work[p].seen[s] = balance[s]

\* What is locked is fresh.
LEMMA LockedIsFresh == LockInv => FreshInv
  BY DEF LockInv, FreshInv

\* A commit adds every entry to its balance, whatever was committed since the
\* transaction read it.
LEMMA CommitAdds ==
  ASSUME TypeOK, WorkInv, FreshInv, NEW p \in Instances, Commit(p)
  PROVE  \A s \in Slots : balance'[s] = balance[s] + work[p].entries[s]
  <1> DEFINE w == work[p]
  <1>1. /\ Posting(p, w) /\ w.reads # {} /\ w.entries \in [Slots -> Int]
        /\ Effect(w.entries) = w.entries
        /\ \A s \in Slots : s[1] \in w.reads => w.seen[s] = balance[s]
    BY DEF Commit, FreshInv, TypeOK
  <1> HIDE DEF w
  <1>2. \A s \in Slots : Written(w, s) = balance[s] + w.entries[s]
    BY <1>1 DEF Written, TypeOK
  <1>3. \A s \in Slots : s \notin Writes(w) => w.entries[s] = 0
    BY SlotFacts DEF Writes, Upserted, Touched
  <1> QED
    BY <1>1, <1>2, <1>3 DEF Posting, TypeOK, w

LEMMA LockAfterCommit ==
  ASSUME TypeOK, WorkInv, LockInv, NEW p \in Instances, Commit(p)
  PROVE  LockInv'
  <1> DEFINE w == work[p]
  <1>1. Posting(p, w)
    BY DEF Commit
  <1>2. \A q \in Instances : work'[q] = IF q = p THEN NoWork ELSE work[q]
    BY <1>1 DEF TypeOK, Posting, End
  <1>3. rows' = Accounts
    BY <1>1, TreasuryAssumption DEF Posting, Upserted, Touched, LockInv, Accounts
  <1>4. \A s \in Slots : s[1] \notin Upserted(w) => balance'[s] = balance[s]
    <2>1. \A s \in Slots : s[1] \notin Upserted(w) => w.entries[s] = 0
      BY SlotFacts DEF Upserted, Touched
    <2> QED
      BY <2>1, CommitAdds, LockedIsFresh DEF TypeOK
  <1>5. \A q \in Instances \ {p} : work[q].locks \cap Upserted(w) = {}
    BY <1>1 DEF Posting, FreeFor
  <1>6. \A v : Effect(v)' = Effect(v)
    BY DEF Effect, Available
  <1> HIDE DEF w
  <1>7. ASSUME NEW q \in Instances \ {p}
        PROVE  \A s \in Slots : s[1] \in work[q].locks => work[q].seen[s] = balance'[s]
    BY <1>4, <1>5 DEF LockInv
  <1>8. ASSUME NEW q \in Instances
        PROVE  /\ work'[q].locks = work'[q].reads
               /\ work'[q].reads # {} => Effect(work'[q].entries) = work'[q].entries
               /\ \A s \in Slots : s[1] \in work'[q].locks => work'[q].seen[s] = balance'[s]
               /\ \A o \in Instances \ {q} : work'[q].locks \cap work'[o].locks = {}
    <2>1. CASE q = p
      <3>1. work'[q] = NoWork
        BY <1>2, <2>1
      <3> QED
        BY <3>1, NoWorkFacts
    <2>2. CASE q # p
      <3>1. work'[q] = work[q]
        BY <1>2, <2>2
      <3>2. \A o \in Instances \ {q} : work'[q].locks \cap work'[o].locks = {}
        BY <1>2, <3>1, NoWorkFacts DEF LockInv
      <3> QED
        BY <1>7, <2>2, <3>1, <3>2 DEF LockInv
    <2> QED
      BY <2>1, <2>2
  <1> QED
    BY <1>3, <1>6, <1>8 DEF LockInv

LEMMA LockStep ==
  ASSUME AllRows, TypeOK, WorkInv, LockInv, [Next]_vars
  PROVE  LockInv'
  <1>0. \A v : Effect(v)' = Effect(v)
    BY DEF Effect, Available
  <1>1. CASE UNCHANGED vars
    BY <1>0, <1>1 DEF vars, LockInv
  <1>2. ASSUME NEW p \in Instances, Locks(p)
        PROVE  LockInv'
    BY <1>2, LocksIsLocking, LockAfterLocking
  <1>3. ASSUME NEW p \in Instances, Step(p), ~Locks(p), ~Commit(p)
        PROVE  LockInv'
    <2>1. /\ UNCHANGED balance /\ rows' = rows
          /\ work'[p].reads = {} /\ work'[p].locks = {}
          /\ \A q \in Instances \ {p} : work'[q] = work[q]
      BY <1>3, OtherWork DEF LockInv, Accounts
    <2>2. ASSUME NEW q \in Instances
          PROVE  /\ work'[q].locks = work'[q].reads
                 /\ work'[q].reads # {} => Effect(work'[q].entries) = work'[q].entries
                 /\ \A s \in Slots : s[1] \in work'[q].locks => work'[q].seen[s] = balance'[s]
                 /\ \A o \in Instances \ {q} : work'[q].locks \cap work'[o].locks = {}
      <3>1. CASE q = p
        BY <2>1, <3>1
      <3>2. CASE q # p
        BY <2>1, <3>2 DEF LockInv
      <3> QED
        BY <3>1, <3>2
    <2> QED
      BY <1>0, <2>1, <2>2 DEF LockInv
  <1> QED
    BY <1>1, <1>2, <1>3, LockAfterCommit DEF Next

LEMMA LockInit == AllRows /\ Init => LockInv
  BY NoWorkFacts DEF Init, LockInv, AllRows

\* A single instance, running the deal's operations.
OneThread == Api = "deal" /\ \A p, q \in Instances : p = q

\* With one thread of control nobody writes between the reading and the commit,
\* also where a row is missing.
LEMMA FreshStep ==
  ASSUME OneThread, TypeOK, WorkInv, FreshInv, [Next]_vars
  PROVE  FreshInv'
  <1>0. \A v : Effect(v)' = Effect(v)
    BY DEF Effect, Available
  <1>1. CASE UNCHANGED vars
    BY <1>0, <1>1 DEF vars, FreshInv
  <1>2. ASSUME NEW p \in Instances, Locks(p)
        PROVE  FreshInv'
    <2>1. PICK key, e, reads, to : Locking(p, key, e, reads, to)
      BY <1>2, LocksIsLocking
    <2>2. /\ work'[p].entries = e /\ work'[p].reads = reads
          /\ \A s \in Slots : s[1] \in reads => work'[p].seen[s] = balance[s]
          /\ UNCHANGED balance /\ e \in [Slots -> Int]
      BY <2>1, LockedWork DEF Locking
    <2>3. Effect(e) = e
      BY <2>2, EffectType DEF OneThread
    <2> QED
      BY <1>0, <2>2, <2>3 DEF FreshInv, OneThread
  <1>3. ASSUME NEW p \in Instances, Step(p), ~Locks(p)
        PROVE  FreshInv'
    <2>1. work'[p].reads = {}
      BY <1>3, CommitPosts, OtherWork, NoWorkFacts
    <2> QED
      BY <2>1 DEF FreshInv, OneThread
  <1> QED
    BY <1>1, <1>2, <1>3 DEF Next

LEMMA FreshInit == Init => FreshInv
  <1> SUFFICES ASSUME Init PROVE FreshInv
    OBVIOUS
  <1>1. \A p \in Instances : work[p].reads = {}
    BY NoWorkFacts DEF Init
  <1> QED
    BY <1>1 DEF FreshInv

LEMMA FreshInvariant ==
  ASSUME AllRows \/ OneThread
  PROVE  Spec => []FreshInv
  <1>1. CASE AllRows
    <2>1. Init => LockInv
      BY <1>1, LockInit
    <2>2. TypeOK /\ WorkInv /\ LockInv /\ [Next]_vars => LockInv'
      BY <1>1, LockStep
    <2> QED
      BY <2>1, <2>2, LockedIsFresh, TypeInvariant, PTL DEF Spec
  <1>2. CASE OneThread
    <2>1. TypeOK /\ WorkInv /\ FreshInv /\ [Next]_vars => FreshInv'
      BY <1>2, FreshStep
    <2> QED
      BY <2>1, FreshInit, TypeInvariant, PTL DEF Spec
  <1> QED
    BY <1>1, <1>2

LEMMA ReconcilesStep ==
  ASSUME TypeOK, WorkInv, FreshInv, Reconciles, [Next]_vars
  PROVE  Reconciles'
  <1>1. CASE UNCHANGED <<balance, noted>>
    BY <1>1 DEF Reconciles, Total, Available, Locked
  <1>2. ASSUME NEW p \in Instances, Commit(p)
        PROVE  Reconciles'
    <2>1. \A a \in Accounts :
            noted'[a] = noted[a] + work[p].entries[Available(a)] + work[p].entries[Locked(a)]
      BY <1>2 DEF Commit, Posting
    <2>2. \A a \in Accounts : /\ balance[Available(a)] \in Nat /\ balance[Locked(a)] \in Nat
                              /\ work[p].entries[Available(a)] \in Int
                              /\ work[p].entries[Locked(a)] \in Int
      BY SlotFacts DEF TypeOK
    <2>3. \A a \in Accounts :
            /\ balance'[Available(a)] = balance[Available(a)] + work[p].entries[Available(a)]
            /\ balance'[Locked(a)] = balance[Locked(a)] + work[p].entries[Locked(a)]
      BY <1>2, CommitAdds, SlotFacts
    <2>4. \A a \in Accounts : Total(a)' = noted'[a]
      <3>1. \A a \in Accounts : balance[Available(a)] + balance[Locked(a)] = noted[a]
        BY DEF Reconciles, Total
      <3>2. \A a \in Accounts : balance'[Available(a)] + balance'[Locked(a)] = noted'[a]
        BY <2>1, <2>2, <2>3, <3>1
      <3> QED
        BY <3>2 DEF Total, Available, Locked
    <2> QED
      BY <2>4 DEF Reconciles
  <1> QED
    BY <1>1, <1>2, OnlyCommitPosts DEF Next, vars

\* No credit is lost and no balance changes without an entry.  Where every balance
\* has its row (and refundEscrow returns no fees) this holds whatever overlaps,
\* since every row a transaction computed from is locked until it is written; with
\* one thread of control it also holds from missing rows.
THEOREM LedgerReconciles ==
  ASSUME AllRows \/ OneThread
  PROVE  Spec => []Reconciles
  <1>1. Init => Reconciles
    <2> SUFFICES ASSUME Init PROVE Reconciles
      OBVIOUS
    <2>1. \A a \in Accounts : balance[Available(a)] = 0 /\ balance[Locked(a)] = 0
      BY SlotFacts DEF Init, NoEntries
    <2> QED
      BY <2>1 DEF Init, Reconciles, Total
  <1>2. TypeOK /\ WorkInv /\ FreshInv /\ Reconciles /\ [Next]_vars => Reconciles'
    BY ReconcilesStep
  <1>3. Spec => []FreshInv
    BY FreshInvariant
  <1> QED
    BY <1>1, <1>2, <1>3, TypeInvariant, PTL DEF Spec

-----------------------------------------------------------------------------
(* A transaction is one step of the ledger                                 *)

\* A commit is the operation of its key, at once and for the first time.
LEMMA CommitExecutes ==
  ASSUME TypeOK, WorkInv, OperationInv, FreshInv, NEW p \in Instances, Commit(p)
  PROVE  Ledger!Next
  <1> DEFINE k == work[p].key
             e == work[p].entries
             Before == {j \in Keys : Done(j)}
  <1>1. /\ k \in Keys /\ ~Done(k) /\ \A j \in Keys : Done(j)' <=> Done(j) \/ j = k
        /\ <<k, e>> \in Operations
        /\ \A w \in Withdrawals : k = <<"reverse", w>> => Done(<<"reserve", w>>)
    BY CommitPosts DEF OperationInv
  <1>2. \A s \in Slots : balance'[s] = balance[s] + e[s]
    BY CommitAdds
  <1>3. balance' \in [Slots -> Nat]
    BY CommitStep DEF TypeOK
  <1>4. \A s \in Slots : balance[s] + e[s] >= 0
    BY <1>2, <1>3
  <1>5. balance' = [s \in Slots |-> balance[s] + e[s]]
    BY <1>2, <1>3
  <1>6. {j \in Keys : Done(j)}' = Before \cup {k} /\ k \notin Before
    BY <1>1
  <1>7. \A w \in Withdrawals : k = <<"reverse", w>> => <<"reserve", w>> \in Before
    BY <1>1, KeyKinds
  <1> HIDE DEF k, e, Before
  <1>8. \A r \in {<<<<"reverse", w>>, <<"reserve", w>>>> : w \in Withdrawals} :
          r[1] = k => r[2] \in Before
    BY <1>7
  <1>9. Ledger!Execute(k, e)
    BY <1>4, <1>5, <1>6, <1>8 DEF Ledger!Execute, Before
  <1> QED
    BY <1>1, <1>9 DEF Ledger!Next

LEMMA LedgerStep ==
  ASSUME TypeOK, WorkInv, OperationInv, FreshInv, [Next]_vars
  PROVE  [Ledger!Next]_(Ledger!vars)
  <1>1. CASE UNCHANGED <<balance, posted>>
    BY <1>1 DEF Ledger!vars, Done
  <1> QED
    BY <1>1, OnlyCommitPosts, CommitExecutes DEF Next, vars

\* A transaction of several awaits is one step of the ledger, whatever other
\* transactions do in between, where every balance has its row (and refundEscrow
\* returns no fees) or there is one thread of control.
THEOREM TransactionsAreAtomic ==
  ASSUME AllRows \/ OneThread
  PROVE  Spec => KeepsLedger
  <1>1. Init => Ledger!Init
    <2> SUFFICES ASSUME Init PROVE Ledger!Init
      OBVIOUS
    <2>1. {k \in Keys : Done(k)} = {}
      BY DEF Init, Done
    <2> QED
      BY <2>1 DEF Init, Ledger!Init
  <1>2. Spec => []FreshInv
    BY FreshInvariant
  <1>3. TypeOK /\ WorkInv /\ OperationInv /\ FreshInv /\ [Next]_vars
          => [Ledger!Next]_(Ledger!vars)
    BY LedgerStep
  <1> QED
    BY <1>1, <1>2, <1>3, OperationInvariant, TypeInvariant, PTL
       DEF Spec, KeepsLedger, Ledger!Spec

-----------------------------------------------------------------------------
(* One thread of control: the status follows the money                     *)

DealStates == Moves \cup {"AWAITING_FUNDING", "FUNDED", "COMPLETED", "RELEASED", "REFUNDED",
                          "EXPIRED"}

\* What the transaction or the status change under way will do suits the status
\* it was started in.
Suits(w, d) ==
  /\ w.key = <<"fund", d>> => status[d] = "AWAITING_FUNDING" /\ w.to = "FUNDED"
  /\ w.key = <<"release", d>> => status[d] \in HoldingStates /\ w.to \in {"COMPLETED", "RELEASED"}
  /\ w.key = <<"refund", d>> => status[d] \in HoldingStates /\ w.to = "REFUNDED"
  /\ w.key = <<"status", d>> =>
       w.to \in DealStates /\ (status[d] \in HoldingStates <=> w.to \in HoldingStates)

ThreadInv ==
  /\ MoneyFollowsStatus
  /\ \A d \in Deals : /\ status[d] \in DealStates
                      /\ Done(<<"release", d>>) \/ Done(<<"refund", d>>) => Done(<<"fund", d>>)
  /\ \A p \in Instances :
       /\ work[p].key \notin EscrowKeys /\ work[p].reads # {} => work[p].to = None
       /\ \A d \in Deals : Suits(work[p], d)

\* A change without money keeps a deal among those that hold money, or among
\* those that hold none.
LEMMA MovesKeepHolding ==
  ASSUME NEW d \in Deals, status[d] \in DealStates, NEW to, MayBecome(d, to)
  PROVE  to \in DealStates /\ (status[d] \in HoldingStates <=> to \in HoldingStates)
  <1>1. CASE to = "EXPIRED" /\ status[d] \in ExpirableStates
    BY <1>1 DEF DealStates, HoldingStates, ExpirableStates
  <1>2. CASE to \in Moves /\ \E by \in Roles : CanTransition(status[d], to, by)
    BY <1>2 DEF Moves, DealStates, HoldingStates, CanTransition, Transitions, PaymentTransitions,
                SettlementTransitions, ClosingTransitions, CustodialTransitions, Rows,
                GroupFlowStates, Parties, Roles, Buyer, Seller, Admin, System
  <1> QED
    BY <1>1, <1>2 DEF MayBecome

\* After a step that posts nothing and leaves the deals alone.
LEMMA ThreadAfterStart ==
  ASSUME OneThread, TypeOK, ThreadInv, NEW p \in Instances, NEW v,
         work' = [work EXCEPT ![p] = v], UNCHANGED <<posted, status>>,
         v.key \notin EscrowKeys /\ v.reads # {} => v.to = None,
         \A d \in Deals : Suits(v, d)
  PROVE  ThreadInv'
  <1>1. \A q \in Instances : work'[q] = v
    BY DEF TypeOK, OneThread
  <1>2. \A d \in Deals : Suits(v, d)'
    BY DEF Suits
  <1> QED
    BY <1>1, <1>2 DEF ThreadInv, MoneyFollowsStatus, Held, Done, Suits

\* Locking a row records the status the operation was started in.
LEMMA ThreadLocks ==
  ASSUME OneThread, TypeOK, ThreadInv, NEW p \in Instances, Locks(p)
  PROVE  ThreadInv'
  <1> USE TreasuryAssumption
  <1>1. ASSUME NEW key, NEW e, NEW reads, NEW to, LockAndRead(p, key, e, reads, to),
               UNCHANGED <<posted, status>>, key \notin EscrowKeys => to = None,
               \A d \in Deals :
                 /\ key = <<"fund", d>> => status[d] = "AWAITING_FUNDING" /\ to = "FUNDED"
                 /\ key = <<"release", d>> =>
                      status[d] \in HoldingStates /\ to \in {"COMPLETED", "RELEASED"}
                 /\ key = <<"refund", d>> => status[d] \in HoldingStates /\ to = "REFUNDED"
                 /\ key # <<"status", d>>
        PROVE  ThreadInv'
    <2> DEFINE w == [key |-> key, entries |-> e, reads |-> reads,
                     seen |-> [s \in Slots |-> IF s[1] \in reads THEN balance[s] ELSE 0],
                     locks |-> reads \cap rows, to |-> to]
    <2>1. work' = [work EXCEPT ![p] = w] /\ w.key = key /\ w.to = to
      BY <1>1 DEF LockAndRead
    <2> HIDE DEF w
    <2>2. \A d \in Deals : Suits(w, d)
      BY <1>1, <2>1 DEF Suits
    <2> QED
      BY <1>1, <2>1, <2>2, ThreadAfterStart
  <1>2. ASSUME NEW d \in Deposits, CreditDeposit(p, d)
        PROVE  ThreadInv'
    <2>1. <<"deposit", d>> \in Keys \ EscrowKeys
      BY DEF Keys, DepositKeys, EscrowKeys
    <2> QED
      BY <1>1, <1>2, <2>1, EscrowKeyFacts, KeyFacts DEF CreditDeposit, Lock
  <1>3. ASSUME NEW w \in Withdrawals, ReserveWithdrawal(p, w) \/ ReverseWithdrawal(p, w)
        PROVE  ThreadInv'
    <2>1. {<<"reserve", w>>, <<"reverse", w>>} \subseteq Keys \ EscrowKeys
      BY DEF Keys, WithdrawalKeys, EscrowKeys
    <2> QED
      BY <1>1, <1>3, <2>1, EscrowKeyFacts, KeyFacts DEF ReserveWithdrawal, ReverseWithdrawal, Lock
  <1>4. ASSUME NEW d \in Deals, FundEscrow(p, d) \/ ReleaseEscrow(p, d) \/ RefundEscrow(p, d)
        PROVE  FALSE
    <2>1. PICK key \in {<<"fund", d>>, <<"release", d>>, <<"refund", d>>} : Checked(p, key)
      BY <1>4 DEF FundEscrow, ReleaseEscrow, RefundEscrow, Lock
    <2>2. work[p].key = key /\ work[p].to = None
      BY <2>1 DEF Checked, NoWork
    <2>3. None \notin {"FUNDED", "COMPLETED", "RELEASED", "REFUNDED"}
      BY DEF Status, ActiveStates, EscrowStates, TerminalStates
    <2> QED
      BY <2>1, <2>2, <2>3 DEF ThreadInv, Suits
  <1>5. ASSUME NEW d \in Deals,
               Fund(p, d) \/ Release(p, d) \/ DecideRelease(p, d) \/ DecideRefund(p, d)
        PROVE  ThreadInv'
    <2>1. {<<"fund", d>>, <<"release", d>>, <<"refund", d>>} \subseteq Keys \cap EscrowKeys
      BY EscrowKeyFacts
    <2>2. {"DELIVERED", "UNDER_REVIEW"} \subseteq HoldingStates
      BY DEF HoldingStates
    <2>3. CASE Fund(p, d)
      BY <1>1, <2>1, <2>3, KeyFacts DEF Fund, DealEscrow
    <2>4. CASE Release(p, d)
      BY <1>1, <2>1, <2>2, <2>4, KeyFacts DEF Release, ReleaseFrom, DealEscrow
    <2>5. CASE DecideRelease(p, d)
      BY <1>1, <2>1, <2>2, <2>5, KeyFacts DEF DecideRelease, ReleaseFrom, DealEscrow
    <2>6. CASE DecideRefund(p, d)
      BY <1>1, <2>1, <2>2, <2>6, KeyFacts DEF DecideRefund, DealEscrow
    <2> QED
      BY <1>5, <2>3, <2>4, <2>5, <2>6
  <1> QED
    BY <1>2, <1>3, <1>4, <1>5 DEF Locks

\* A commit moves the money and the status together.
LEMMA ThreadCommits ==
  ASSUME OneThread, TypeOK, WorkInv, ThreadInv, NEW p \in Instances, Commit(p)
  PROVE  ThreadInv'
  <1> DEFINE k == work[p].key
             to == work[p].to
  <1>1. /\ k \in Keys /\ posted[k] = 0 /\ work[p].reads # {}
        /\ posted' = [posted EXCEPT ![k] = @ + 1]
        /\ status' = IF to = None THEN status ELSE [status EXCEPT ![k[2]] = to]
        /\ work' = [work EXCEPT ![p] = NoWork]
    BY DEF Commit, Posting, End, WorkInv
  <1>2. \A q \in Instances : work'[q] = NoWork
    BY <1>1 DEF TypeOK, OneThread
  <1>3. \A d \in Deals : Suits(NoWork, d)'
    BY NoWorkFacts DEF Suits
  <1>4. \A j \in Keys : Done(j)' <=> (Done(j) \/ j = k)
    BY <1>1 DEF Done, TypeOK
  <1>5. \A d \in Deals : Suits(work[p], d)
    BY DEF ThreadInv
  <1>6. None \notin {"FUNDED", "COMPLETED", "RELEASED", "REFUNDED"}
    BY TreasuryAssumption DEF Status, ActiveStates, EscrowStates, TerminalStates
  <1>7. ASSUME NEW d \in Deals
        PROVE  /\ (Held(d) <=> status[d] \in HoldingStates)'
               /\ ~(Done(<<"release", d>>) /\ Done(<<"refund", d>>))'
               /\ status'[d] \in DealStates
               /\ (Done(<<"release", d>>) \/ Done(<<"refund", d>>) => Done(<<"fund", d>>))'
    <2> DEFINE F == <<"fund", d>>
               R == <<"release", d>>
               B == <<"refund", d>>
    <2>1. F \in Keys /\ R \in Keys /\ B \in Keys /\ F # R /\ F # B /\ R # B
      BY EscrowKeyFacts
    <2>2. /\ Held(d) <=> Done(F) /\ ~Done(R) /\ ~Done(B)
          /\ (Held(d) <=> Done(F) /\ ~Done(R) /\ ~Done(B))'
      BY DEF Held
    <2>3. /\ Held(d) <=> status[d] \in HoldingStates
          /\ ~(Done(R) /\ Done(B)) /\ (Done(R) \/ Done(B) => Done(F))
          /\ status[d] \in DealStates
      BY DEF ThreadInv, MoneyFollowsStatus
    <2>4. ~Done(k)
      BY <1>1 DEF Done
    <2>5. CASE k = F
      <3>1. status[d] = "AWAITING_FUNDING" /\ status'[d] = "FUNDED"
        BY <1>1, <1>5, <1>6, <2>5 DEF Suits, TypeOK
      <3> QED
        BY <1>4, <2>1, <2>2, <2>3, <2>4, <2>5, <3>1 DEF HoldingStates, DealStates
    <2>6. CASE k = R
      <3>1. status[d] \in HoldingStates /\ status'[d] \in {"COMPLETED", "RELEASED"}
        BY <1>1, <1>5, <1>6, <2>6 DEF Suits, TypeOK
      <3> QED
        BY <1>4, <2>1, <2>2, <2>3, <2>6, <3>1 DEF HoldingStates, DealStates
    <2>7. CASE k = B
      <3>1. status[d] \in HoldingStates /\ status'[d] = "REFUNDED"
        BY <1>1, <1>5, <1>6, <2>7 DEF Suits, TypeOK
      <3> QED
        BY <1>4, <2>1, <2>2, <2>3, <2>7, <3>1 DEF HoldingStates, DealStates
    <2>8. CASE k \notin {F, R, B}
      <3>1. status'[d] = status[d]
        BY <1>1, <2>8, EscrowKeyFacts DEF ThreadInv, TypeOK
      <3> QED
        BY <1>4, <2>1, <2>2, <2>3, <2>8, <3>1
    <2> QED
      BY <2>5, <2>6, <2>7, <2>8
  <1> QED
    BY <1>2, <1>3, <1>7, NoWorkFacts DEF ThreadInv, MoneyFollowsStatus

LEMMA ThreadStep ==
  ASSUME OneThread, TypeOK, WorkInv, ThreadInv, [Next]_vars
  PROVE  ThreadInv'
  <1>1. CASE UNCHANGED vars
    BY <1>1 DEF vars, ThreadInv, MoneyFollowsStatus, Held, Done, Suits
  <1>2. ASSUME NEW p \in Instances, NEW key \in Keys, CheckKey(p, key)
        PROVE  ThreadInv'
    <2> DEFINE v == [NoWork EXCEPT !.key = key]
    <2>1. work' = [work EXCEPT ![p] = v] /\ v.key = key /\ v.reads = {}
      BY <1>2, NoWorkFacts DEF CheckKey, Idle, NoWork, TypeOK
    <2>2. key \notin EscrowKeys /\ UNCHANGED <<posted, status>>
      BY <1>2 DEF CheckKey, OneThread
    <2> HIDE DEF v
    <2>3. \A d \in Deals : Suits(v, d)
      BY <2>1, <2>2, EscrowKeyFacts, KeyFacts DEF Suits
    <2> QED
      BY <2>1, <2>2, <2>3, ThreadAfterStart
  <1>3. ASSUME NEW p \in Instances, Rollback(p)
        PROVE  ThreadInv'
    <2>1. \A d \in Deals : Suits(NoWork, d)
      BY NoWorkFacts DEF Suits
    <2> QED
      BY <1>3, <2>1, NoWorkFacts, ThreadAfterStart DEF Rollback, End
  <1>4. ASSUME NEW p \in Instances, NEW d \in Deals, NEW to, ReadStatus(p, d, to)
        PROVE  ThreadInv'
    <2> DEFINE v == [NoWork EXCEPT !.key = <<"status", d>>, !.to = to]
    <2>1. work' = [work EXCEPT ![p] = v] /\ v.key = <<"status", d>> /\ v.reads = {} /\ v.to = to
      BY <1>4, NoWorkFacts DEF ReadStatus, NoWork
    <2>2. to \in DealStates /\ (status[d] \in HoldingStates <=> to \in HoldingStates)
      BY <1>4, MovesKeepHolding DEF ReadStatus, ThreadInv
    <2> HIDE DEF v
    <2>3. \A c \in Deals : Suits(v, c)
      BY <2>1, <2>2 DEF Suits
    <2> QED
      BY <1>4, <2>1, <2>3, ThreadAfterStart DEF ReadStatus
  <1>5. ASSUME NEW p \in Instances, NEW d \in Deals, WriteStatus(p, d)
        PROVE  ThreadInv'
    <2>1. /\ status' = [status EXCEPT ![d] = work[p].to] /\ UNCHANGED posted
          /\ work' = [work EXCEPT ![p] = NoWork]
          /\ work[p].to \in DealStates
          /\ status[d] \in HoldingStates <=> work[p].to \in HoldingStates
      BY <1>5 DEF WriteStatus, End, ThreadInv, Suits
    <2>2. \A q \in Instances : work'[q] = NoWork
      BY <2>1 DEF TypeOK, OneThread
    <2>3. \A c \in Deals : Suits(NoWork, c)'
      BY NoWorkFacts DEF Suits
    <2>4. \A c \in Deals : /\ status'[c] \in DealStates
                           /\ status'[c] \in HoldingStates <=> status[c] \in HoldingStates
      BY <2>1 DEF TypeOK, ThreadInv
    <2>5. \A c \in Deals : /\ Done(<<"fund", c>>)' <=> Done(<<"fund", c>>)
                           /\ Done(<<"release", c>>)' <=> Done(<<"release", c>>)
                           /\ Done(<<"refund", c>>)' <=> Done(<<"refund", c>>)
      BY <2>1 DEF Done
    <2>6. MoneyFollowsStatus'
      BY <2>4, <2>5 DEF ThreadInv, MoneyFollowsStatus, Held
    <2> QED
      BY <2>2, <2>3, <2>4, <2>5, <2>6, NoWorkFacts DEF ThreadInv
  <1>6. ASSUME NEW p \in Instances, Step(p)
        PROVE  ThreadInv'
    BY <1>2, <1>3, <1>4, <1>5, <1>6, ThreadLocks, ThreadCommits DEF Step, Locks
  <1> QED
    BY <1>1, <1>6 DEF Next

LEMMA ThreadInit == Init => ThreadInv
  <1> SUFFICES ASSUME Init PROVE ThreadInv
    OBVIOUS
  <1>1. \A d \in Deals : /\ ~Done(<<"fund", d>>) /\ ~Done(<<"release", d>>)
                         /\ ~Done(<<"refund", d>>) /\ status[d] = "AWAITING_FUNDING"
    <2>1. \A k \in Keys : ~Done(k)
      BY DEF Init, Done
    <2>2. \A d \in Deals : {<<"fund", d>>, <<"release", d>>, <<"refund", d>>} \subseteq Keys
      BY EscrowKeyFacts
    <2> QED
      BY <2>1, <2>2 DEF Init
  <1>2. "AWAITING_FUNDING" \notin HoldingStates /\ "AWAITING_FUNDING" \in DealStates
    BY DEF HoldingStates, DealStates
  <1>3. \A p \in Instances : work[p] = NoWork
    BY DEF Init
  <1>4. \A d \in Deals : Suits(NoWork, d)
    BY NoWorkFacts DEF Suits
  <1> QED
    BY <1>1, <1>2, <1>3, <1>4, NoWorkFacts DEF ThreadInv, MoneyFollowsStatus, Held

\* With one thread of control the status of every deal says whether its money is
\* held, and no money is both released and refunded.
THEOREM OneThreadMoneyFollowsStatus ==
  ASSUME OneThread
  PROVE  Spec => []MoneyFollowsStatus
  <1>1. Init => ThreadInv
    BY ThreadInit
  <1>2. TypeOK /\ WorkInv /\ ThreadInv /\ [Next]_vars => ThreadInv'
    BY ThreadStep
  <1>3. ThreadInv => MoneyFollowsStatus
    BY DEF ThreadInv
  <1> QED
    BY <1>1, <1>2, <1>3, TypeInvariant, PTL DEF Spec

-----------------------------------------------------------------------------
(* One thread of control: the locked balance                               *)

\* Only an escrow operation of one of a buyer's deals touches the locked balance.
LEMMA LockedEntries ==
  ASSUME NEW op \in Operations, NEW u \in Users
  PROVE  /\ \A d \in Deals : op[1] = <<"fund", d>> =>
              op[2][Locked(u)] = IF Terms[d].buyer = u THEN Terms[d].amount ELSE 0
         /\ \A d \in Deals : op[1] \in {<<"release", d>>, <<"refund", d>>} =>
              op[2][Locked(u)] = IF Terms[d].buyer = u THEN -Terms[d].amount ELSE 0
         /\ op[1] \notin EscrowKeys => op[2][Locked(u)] = 0
  <1>1. u \in Accounts /\ Locked(u) \in Slots /\ \A a \in Accounts : Available(a) # Locked(u)
    BY SlotFacts DEF Accounts
  <1>2. \A v \in Users : \A n : PaymentEntries(v, n)[Locked(u)] = 0
    BY <1>1 DEF PaymentEntries, NoEntries, Accounts
  <1>3. ASSUME NEW d \in Deals
        PROVE  /\ FundEntries(Terms[d])[Locked(u)]
                    = IF Terms[d].buyer = u THEN Terms[d].amount ELSE 0
               /\ ReleaseEntries(Terms[d])[Locked(u)]
                    = IF Terms[d].buyer = u THEN -Terms[d].amount ELSE 0
               /\ \A fee : RefundEntries(Terms[d], fee)[Locked(u)]
                    = IF Terms[d].buyer = u THEN -Terms[d].amount ELSE 0
    <2> DEFINE t == Terms[d]
    <2>1. /\ t.buyer \in Accounts /\ t.seller \in Accounts /\ House \in Accounts
          /\ Locked(t.buyer) = Locked(u) <=> t.buyer = u
      BY <1>1, SlotFacts, TreasuryAssumption DEF Accounts
    <2> HIDE DEF t
    <2>2. FundEntries(t)[Locked(u)] = IF t.buyer = u THEN t.amount ELSE 0
      BY <1>1, <2>1 DEF FundEntries, NoEntries
    <2>3. ReleaseEntries(t)[Locked(u)] = IF t.buyer = u THEN -t.amount ELSE 0
      BY <1>1, <2>1 DEF ReleaseEntries, NoEntries
    <2>4. \A fee : RefundEntries(t, fee)[Locked(u)] = IF t.buyer = u THEN -t.amount ELSE 0
      BY <1>1, <2>1 DEF RefundEntries, NoEntries
    <2> QED
      BY <2>2, <2>3, <2>4 DEF t
  <1>4. CASE \E d \in Deposits :
               op = <<<<"deposit", d>>, PaymentEntries(Incoming[d].user, Incoming[d].amount)>>
    <2>1. PICK d \in Deposits :
            op = <<<<"deposit", d>>, PaymentEntries(Incoming[d].user, Incoming[d].amount)>>
      BY <1>4
    <2>2. op[2][Locked(u)] = 0
      BY <1>2, <2>1, TreasuryAssumption
    <2> QED
      BY <2>1, <2>2
  <1>5. CASE \E w \in Withdrawals : \E n :
               \/ op = <<<<"reserve", w>>, PaymentEntries(Outgoing[w].user, n)>>
               \/ op = <<<<"reverse", w>>, PaymentEntries(Outgoing[w].user, n)>>
    <2>1. PICK w \in Withdrawals : \E n :
               \/ op = <<<<"reserve", w>>, PaymentEntries(Outgoing[w].user, n)>>
               \/ op = <<<<"reverse", w>>, PaymentEntries(Outgoing[w].user, n)>>
      BY <1>5
    <2>2. op[2][Locked(u)] = 0
      BY <1>2, <2>1, TreasuryAssumption
    <2> QED
      BY <2>1, <2>2
  <1>6. CASE \E d \in Deals : \E fee :
               \/ op = <<<<"fund", d>>, FundEntries(Terms[d])>>
               \/ op = <<<<"release", d>>, ReleaseEntries(Terms[d])>>
               \/ op = <<<<"refund", d>>, RefundEntries(Terms[d], fee)>>
    <2>6. PICK d \in Deals : \E fee :
               \/ op = <<<<"fund", d>>, FundEntries(Terms[d])>>
               \/ op = <<<<"release", d>>, ReleaseEntries(Terms[d])>>
               \/ op = <<<<"refund", d>>, RefundEntries(Terms[d], fee)>>
      BY <1>6
    <2>1. PICK fee :
               \/ op = <<<<"fund", d>>, FundEntries(Terms[d])>>
               \/ op = <<<<"release", d>>, ReleaseEntries(Terms[d])>>
               \/ op = <<<<"refund", d>>, RefundEntries(Terms[d], fee)>>
      BY <2>6
    <2>2. {<<"fund", d>>, <<"release", d>>, <<"refund", d>>} \subseteq EscrowKeys
      BY EscrowKeyFacts
    <2>3. CASE op = <<<<"fund", d>>, FundEntries(Terms[d])>>
      BY <1>3, <2>2, <2>3
    <2>4. CASE op = <<<<"release", d>>, ReleaseEntries(Terms[d])>>
      BY <1>3, <2>2, <2>4
    <2>5. CASE op = <<<<"refund", d>>, RefundEntries(Terms[d], fee)>>
      BY <1>3, <2>2, <2>5
    <2> QED
      BY <2>1, <2>3, <2>4, <2>5
  <1> QED
    BY <1>4, <1>5, <1>6 DEF Operations

\* The deals of a buyer whose money is held.
HeldFor(u) == {d \in Deals : Terms[d].buyer = u /\ Held(d)}

\* By the status or by the keys, the same deals are held.
LEMMA LockedIsHeldSums ==
  MoneyFollowsStatus =>
    (LockedIsHeld <=>
       \A u \in Users : balance[Locked(u)] = SumFunctionOnSet(DealAmount, HeldFor(u)))
  <1> SUFFICES ASSUME MoneyFollowsStatus
               PROVE  \A u \in Users :
                        HeldFor(u) = {d \in Deals : Terms[d].buyer = u /\ status[d] \in HoldingStates}
    BY DEF LockedIsHeld
  <1> QED
    BY DEF MoneyFollowsStatus, HeldFor

LEMMA HeldSum ==
  ASSUME NEW u
  PROVE  IsFiniteSet(HeldFor(u)) /\ SumFunctionOnSet(DealAmount, HeldFor(u)) \in Int
  <1>1. PICK S : S = HeldFor(u)
    OBVIOUS
  <1>2. S \subseteq Deals
    BY <1>1 DEF HeldFor
  <1>3. IsFiniteSet(S)
    BY <1>2, FiniteAssumption, FS_Subset
  <1>4. SumFunctionOnSet(DealAmount, S) \in Int
    BY <1>2, <1>3, AmountTypes, SumType
  <1> QED
    BY <1>1, <1>3, <1>4

\* The locked balance of a buyer gains what a funded deal brings and loses what
\* a released or refunded one takes.
LEMMA CommitKeepsHeld ==
  ASSUME OneThread, TypeOK, WorkInv, OperationInv, FreshInv, ThreadInv,
         NEW p \in Instances, Commit(p), NEW u \in Users,
         balance[Locked(u)] = SumFunctionOnSet(DealAmount, HeldFor(u))
  PROVE  balance'[Locked(u)] = SumFunctionOnSet(DealAmount, HeldFor(u)')
  <1> DEFINE k == work[p].key
             e == work[p].entries
  <1>1. PICK S : S = HeldFor(u)
    OBVIOUS
  <1>2. PICK T : T = HeldFor(u)'
    OBVIOUS
  <1>3. /\ k \in Keys /\ ~Done(k) /\ \A j \in Keys : Done(j)' <=> Done(j) \/ j = k
        /\ <<k, e>> \in Operations
    BY CommitPosts DEF OperationInv
  <1>4. Locked(u) \in Slots /\ balance'[Locked(u)] = balance[Locked(u)] + e[Locked(u)]
    BY CommitAdds, SlotFacts DEF Accounts
  <1>5. IsFiniteSet(S) /\ SumFunctionOnSet(DealAmount, S) \in Int
        /\ balance[Locked(u)] = SumFunctionOnSet(DealAmount, S)
    BY <1>1, HeldSum
  <1>6. IsFiniteSet(T)
    <2>1. T \subseteq Deals
      BY <1>2 DEF HeldFor
    <2> QED
      BY <2>1, FiniteAssumption, FS_Subset
  <1>7. \A d \in Deals : /\ d \in S <=> Terms[d].buyer = u /\ Held(d)
                         /\ d \in T <=> Terms[d].buyer = u /\ Held(d)'
    BY <1>1, <1>2 DEF HeldFor
  <1>8. S \subseteq Deals /\ T \subseteq Deals
    BY <1>1, <1>2 DEF HeldFor
  <1>9. \A d \in Deals :
          /\ Held(d) <=> Done(<<"fund", d>>) /\ ~Done(<<"release", d>>) /\ ~Done(<<"refund", d>>)
          /\ Held(d)' <=> /\ Done(<<"fund", d>>) \/ k = <<"fund", d>>
                          /\ ~(Done(<<"release", d>>) \/ k = <<"release", d>>)
                          /\ ~(Done(<<"refund", d>>) \/ k = <<"refund", d>>)
          /\ Done(<<"release", d>>) \/ Done(<<"refund", d>>) => Done(<<"fund", d>>)
    BY <1>3, EscrowKeyFacts DEF Held, ThreadInv
  <1> HIDE DEF e, k
  <1>0. \A d \in Deals : DealAmount[d] = Terms[d].amount /\ DealAmount[d] \in Int
    BY AmountTypes
  <1>10. ASSUME NEW d \in Deals, k = <<"fund", d>>
         PROVE  balance'[Locked(u)] = SumFunctionOnSet(DealAmount, T)
    <2>1. e[Locked(u)] = IF Terms[d].buyer = u THEN Terms[d].amount ELSE 0
      BY <1>3, <1>10, LockedEntries
    <2>2. ~Held(d) /\ Held(d)' /\ \A c \in Deals : c # d => (Held(c)' <=> Held(c))
      BY <1>3, <1>9, <1>10
    <2>3. CASE Terms[d].buyer = u
      <3>1. d \notin S /\ T = S \cup {d}
        BY <1>7, <1>8, <2>2, <2>3
      <3>2. \A c \in S \cup {d} : DealAmount[c] \in Int
        BY <1>8, AmountTypes
      <3>3. SumFunctionOnSet(DealAmount, T) = DealAmount[d] + SumFunctionOnSet(DealAmount, S)
        BY <1>5, <3>1, <3>2, SumAdd
      <3> QED
        BY <1>0, <1>4, <1>5, <2>1, <2>3, <3>3
    <2>4. CASE Terms[d].buyer # u
      <3>1. T = S
        BY <1>7, <1>8, <2>2, <2>4
      <3> QED
        BY <1>4, <1>5, <2>1, <2>4, <3>1
    <2> QED
      BY <2>3, <2>4
  <1>11. ASSUME NEW d \in Deals, k \in {<<"release", d>>, <<"refund", d>>}
         PROVE  balance'[Locked(u)] = SumFunctionOnSet(DealAmount, T)
    <2>1. e[Locked(u)] = IF Terms[d].buyer = u THEN -Terms[d].amount ELSE 0
      BY <1>3, <1>11, LockedEntries
    <2>2. Held(d)
      BY <1>11 DEF ThreadInv, Suits, MoneyFollowsStatus, k
    <2>3. ~Held(d)' /\ \A c \in Deals : c # d => (Held(c)' <=> Held(c))
      <3>1. CASE k = <<"release", d>>
        BY <1>9, <3>1
      <3>2. CASE k = <<"refund", d>>
        BY <1>9, <3>2
      <3> QED
        BY <1>11, <3>1, <3>2
    <2>4. CASE Terms[d].buyer = u
      <3>1. d \in S /\ d \notin T /\ S = T \cup {d}
        BY <1>7, <1>8, <2>2, <2>3, <2>4
      <3>2. \A c \in T \cup {d} : DealAmount[c] \in Int
        BY <1>8, AmountTypes
      <3>3. /\ SumFunctionOnSet(DealAmount, S) = DealAmount[d] + SumFunctionOnSet(DealAmount, T)
            /\ SumFunctionOnSet(DealAmount, T) \in Int
        BY <1>6, <3>1, <3>2, SumAdd, SumType
      <3> QED
        BY <1>0, <1>4, <1>5, <2>1, <2>4, <3>3
    <2>5. CASE Terms[d].buyer # u
      <3>1. T = S
        BY <1>7, <1>8, <2>3, <2>5
      <3> QED
        BY <1>4, <1>5, <2>1, <2>5, <3>1
    <2> QED
      BY <2>4, <2>5
  <1>12. ASSUME k \notin EscrowKeys
         PROVE  balance'[Locked(u)] = SumFunctionOnSet(DealAmount, T)
    <2>1. e[Locked(u)] = 0
      BY <1>3, <1>12, LockedEntries
    <2>2. \A c \in Deals : Held(c)' <=> Held(c)
      BY <1>9, <1>12, EscrowKeyFacts
    <2>3. T = S
      BY <1>7, <1>8, <2>2
    <2> QED
      BY <1>4, <1>5, <2>1, <2>3
  <1>13. balance'[Locked(u)] = SumFunctionOnSet(DealAmount, T)
    BY <1>10, <1>11, <1>12, EscrowKeyFacts
  <1> QED
    BY <1>2, <1>13

LEMMA LockedStep ==
  ASSUME OneThread, TypeOK, WorkInv, OperationInv, FreshInv, ThreadInv, LockedIsHeld, [Next]_vars
  PROVE  LockedIsHeld'
  <1>1. \A u \in Users : balance[Locked(u)] = SumFunctionOnSet(DealAmount, HeldFor(u))
    BY LockedIsHeldSums DEF ThreadInv
  <1>2. ThreadInv'
    BY ThreadStep
  <1>3. \A u \in Users : balance'[Locked(u)] = SumFunctionOnSet(DealAmount, HeldFor(u)')
    <2>1. CASE UNCHANGED <<balance, posted>>
      BY <1>1, <2>1 DEF HeldFor, Held, Done
    <2> QED
      BY <1>1, <2>1, OnlyCommitPosts, CommitKeepsHeld DEF Next, vars
  <1>4. (MoneyFollowsStatus =>
           (LockedIsHeld <=>
              \A u \in Users : balance[Locked(u)] = SumFunctionOnSet(DealAmount, HeldFor(u))))'
    BY LockedIsHeldSums, PTL
  <1>5. \A u \in Users : Locked(u)' = Locked(u)
    BY DEF Locked
  <1> QED
    BY <1>2, <1>3, <1>4, <1>5 DEF ThreadInv

\* With one thread of control every locked balance is the sum of the deals whose
\* status says they are funded, through disputes, cancellations and expiry.
THEOREM OneThreadLockedIsHeld ==
  ASSUME OneThread
  PROVE  Spec => []LockedIsHeld
  <1>1. Init => LockedIsHeld
    <2> SUFFICES ASSUME Init PROVE LockedIsHeld
      OBVIOUS
    <2>1. \A u \in Users : balance[Locked(u)] = 0
      BY SlotFacts DEF Init, NoEntries, Accounts
    <2>2. ASSUME NEW u \in Users
          PROVE  {d \in Deals : Terms[d].buyer = u /\ status[d] \in HoldingStates} = {}
      BY DEF Init, HoldingStates
    <2>3. \A f : SumFunctionOnSet(f, {}) = 0
      BY SumEmpty
    <2> QED
      BY <2>1, <2>2, <2>3 DEF LockedIsHeld
  <1>2. Init => ThreadInv
    BY ThreadInit
  <1>3. TypeOK /\ WorkInv /\ ThreadInv /\ [Next]_vars => ThreadInv'
    BY ThreadStep
  <1>4. TypeOK /\ WorkInv /\ OperationInv /\ FreshInv /\ ThreadInv /\ LockedIsHeld /\ [Next]_vars
          => LockedIsHeld'
    BY LockedStep
  <1>5. Spec => []FreshInv
    BY FreshInvariant
  <1> QED
    BY <1>1, <1>2, <1>3, <1>4, <1>5, OperationInvariant, TypeInvariant, PTL DEF Spec
=============================================================================
