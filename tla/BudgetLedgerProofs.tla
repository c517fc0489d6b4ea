------------------------- MODULE BudgetLedgerProofs -------------------------
(***************************************************************************)
(* The invariants of BudgetLedger for every set of runs, every ceiling and *)
(* every number of reservations.  The steps only add one entry to a sum or *)
(* change one of its entries, so TotalAppend and TotalUpdate carry the     *)
(* three sums through every action.                                        *)
(***************************************************************************)
EXTENDS BudgetLedger, SequenceTheorems, WellFoundedInduction, TLAPS

(***************************************************************************)
(* What the sum of Totals does when its sequence changes.  The library's   *)
(* induction theorems take a predicate as a parameter; every induction     *)
(* here is by the least counterexample instead, which needs only that a    *)
(* nonempty set of naturals has a least element.                           *)
(***************************************************************************)
(* A nonempty set of natural numbers has a least element. *)
LEMMA LeastElement ==
  ASSUME NEW T \in SUBSET Nat, T # {}
  PROVE  \E x \in T : \A y \in T : x <= y
<1> DEFINE R == {ss \in Nat \X Nat : ss[1] < ss[2]}
<1>1. IsWellFoundedOn(R, Nat)
  BY NatLessThanWellFounded DEF OpToRel
<1>2. \E x \in T : \A y \in T : ~ (<<y, x>> \in R)
  <2> HIDE DEF R
  <2> QED BY <1>1, WFMin
<1>3. PICK x \in T : \A y \in T : ~ (<<y, x>> \in R)
  BY <1>2
<1>4. ASSUME NEW y \in T PROVE x <= y
  <2>1. <<y, x>> \in Nat \X Nat
    OBVIOUS
  <2>2. ~ (y < x)
    BY <1>3, <2>1, Zenon
  <2>3. QED BY <2>2
<1>5. QED BY <1>4

(* The sums over the prefixes of f, as a function that can be exhibited.   *)
IsPrefixSum(q, f, n) ==
  /\ q \in [0..n -> Int]
  /\ q[0] = 0
  /\ \A i \in 1..n : q[i] = q[i - 1] + f[i]

(* Two prefix-sum functions of one sequence agree. *)
LEMMA PrefixSumUnique ==
  ASSUME NEW n \in Nat, NEW f, NEW p, NEW q,
         p[0] = q[0],
         \A i \in 1..n : p[i] = p[i - 1] + f[i] /\ q[i] = q[i - 1] + f[i]
  PROVE  \A i \in 0..n : p[i] = q[i]
<1> DEFINE D == {i \in 0..n : p[i] # q[i]}
<1>1. ASSUME D # {} PROVE FALSE
  <2>1. D \in SUBSET Nat
    OBVIOUS
  <2>2. PICK m \in D : \A y \in D : m <= y
    <3> HIDE DEF D
    <3> QED BY <1>1, <2>1, LeastElement
  <2>3. m \in 0..n /\ p[m] # q[m]
    OBVIOUS
  <2>4. m \in 1..n
    BY <2>3
  <2>5. m - 1 \in 0..n /\ m - 1 \notin D
    BY <2>2, <2>4
  <2>6. p[m - 1] = q[m - 1]
    BY <2>5
  <2>7. QED BY <2>3, <2>4, <2>6
<1>2. QED BY <1>1

(* Every sequence of integers has a prefix-sum function. *)
LEMMA PrefixSumExists ==
  ASSUME NEW n \in Nat, NEW f, \A i \in 1..n : f[i] \in Int
  PROVE  \E q : IsPrefixSum(q, f, n)
<1> DEFINE D == {m \in 0..n : ~ \E q : IsPrefixSum(q, f, m)}
<1>1. ASSUME D # {} PROVE FALSE
  <2>1. D \in SUBSET Nat
    OBVIOUS
  <2>2. PICK m \in D : \A y \in D : m <= y
    <3> HIDE DEF D
    <3> QED BY <1>1, <2>1, LeastElement
  <2>3. m \in 0..n /\ ~ \E q : IsPrefixSum(q, f, m)
    OBVIOUS
  <2>4. IsPrefixSum([i \in 0..0 |-> 0], f, 0)
    BY DEF IsPrefixSum
  <2>5. m \in 1..n
    BY <2>3, <2>4
  <2>6. m - 1 \in 0..n /\ m - 1 \notin D
    BY <2>2, <2>5
  <2>7. PICK q : IsPrefixSum(q, f, m - 1)
    BY <2>6
  <2> DEFINE r == [i \in 0..m |-> IF i = m THEN q[m - 1] + f[m] ELSE q[i]]
  <2>8. IsPrefixSum(r, f, m)
    <3>1. q \in [0..(m - 1) -> Int] /\ q[0] = 0
          /\ \A i \in 1..(m - 1) : q[i] = q[i - 1] + f[i]
      BY <2>7 DEF IsPrefixSum
    <3>2. r \in [0..m -> Int]
      BY <3>1, <2>5
    <3>3. r[0] = 0
      BY <3>1, <2>5
    <3>4. ASSUME NEW i \in 1..m PROVE r[i] = r[i - 1] + f[i]
      <4>1. CASE i = m
        BY <4>1, <2>5
      <4>2. CASE i # m
        BY <4>2, <3>1, <2>5
      <4>3. QED BY <4>1, <4>2
    <3> HIDE DEF r
    <3>5. QED BY <3>2, <3>3, <3>4 DEF IsPrefixSum
  <2>9. QED BY <2>3, <2>8
<1>2. n \notin D
  BY <1>1
<1>3. QED BY <1>2

(* The sum is the last value of any prefix-sum function. *)
LEMMA TotalIsPrefixSum ==
  ASSUME NEW n \in Nat, NEW f, NEW q, IsPrefixSum(q, f, n)
  PROVE  Total(f, n) = q[n]
<1> DEFINE upto == CHOOSE p : p = [i \in 0..n |-> IF i = 0 THEN 0 ELSE p[i - 1] + f[i]]
<1>1. q = [i \in 0..n |-> IF i = 0 THEN 0 ELSE q[i - 1] + f[i]]
  BY DEF IsPrefixSum
<1>2. upto = [i \in 0..n |-> IF i = 0 THEN 0 ELSE upto[i - 1] + f[i]]
  BY <1>1
<1>3. Total(f, n) = upto[n]
  BY DEF Total
<1> HIDE DEF upto
<1>4. upto[0] = q[0] /\ \A i \in 1..n : upto[i] = upto[i - 1] + f[i]
  BY <1>1, <1>2
<1>5. \A i \in 1..n : q[i] = q[i - 1] + f[i]
  BY DEF IsPrefixSum
<1>6. \A i \in 0..n : upto[i] = q[i]
  BY <1>4, <1>5, PrefixSumUnique
<1>7. QED BY <1>3, <1>6

(* An empty sum is 0, and the sum of integers is an integer. *)
LEMMA TotalEmpty == ASSUME NEW f PROVE Total(f, 0) = 0
<1>1. IsPrefixSum([i \in 0..0 |-> 0], f, 0)
  BY DEF IsPrefixSum
<1>2. QED BY <1>1, TotalIsPrefixSum

LEMMA TotalType ==
  ASSUME NEW n \in Nat, NEW f, \A i \in 1..n : f[i] \in Int
  PROVE  Total(f, n) \in Int
<1>1. PICK q : IsPrefixSum(q, f, n)
  BY PrefixSumExists
<1>2. q[n] \in Int
  BY ONLY <1>1, n \in Nat DEF IsPrefixSum
<1>3. QED BY <1>1, <1>2, TotalIsPrefixSum

(* One more entry adds that entry. *)
LEMMA TotalAppend ==
  ASSUME NEW n \in Nat, NEW f, NEW g,
         \A i \in 1..n : f[i] \in Int /\ g[i] = f[i], g[n + 1] \in Int
  PROVE  Total(g, n + 1) = Total(f, n) + g[n + 1]
<1>1. \A i \in 1..(n + 1) : g[i] \in Int
  OBVIOUS
<1>2. PICK q : IsPrefixSum(q, g, n + 1)
  BY <1>1, PrefixSumExists
<1> DEFINE p == [i \in 0..n |-> q[i]]
<1>3. IsPrefixSum(p, f, n)
  BY <1>2 DEF IsPrefixSum
<1>4. Total(f, n) = p[n] /\ Total(g, n + 1) = q[n + 1]
  BY <1>2, <1>3, TotalIsPrefixSum
<1>5. QED BY <1>2, <1>4 DEF IsPrefixSum

(* Changing one entry changes the sum by the difference. *)
LEMMA TotalUpdate ==
  ASSUME NEW n \in Nat, NEW f, NEW g, NEW k \in 1..n,
         \A i \in 1..n : f[i] \in Int /\ g[i] \in Int,
         \A i \in 1..n : i # k => g[i] = f[i]
  PROVE  Total(g, n) = Total(f, n) + (g[k] - f[k])
<1>1. PICK p : IsPrefixSum(p, f, n)
  BY PrefixSumExists
<1> DEFINE q == [i \in 0..n |-> IF i < k THEN p[i] ELSE p[i] + (g[k] - f[k])]
<1>2. p \in [0..n -> Int] /\ p[0] = 0 /\ \A i \in 1..n : p[i] = p[i - 1] + f[i]
  BY <1>1 DEF IsPrefixSum
<1>3. IsPrefixSum(q, g, n)
  <2>1. q \in [0..n -> Int] /\ q[0] = 0
    <3>1. g[k] - f[k] \in Int
      OBVIOUS
    <3>2. \A i \in 0..n : p[i] \in Int /\ p[i] + (g[k] - f[k]) \in Int
      BY <3>1, <1>2
    <3>3. 0 \in 0..n /\ 0 < k
      OBVIOUS
    <3>4. QED BY <3>2, <3>3, <1>2
  <2>2. ASSUME NEW i \in 1..n PROVE q[i] = q[i - 1] + g[i]
    <3>1. CASE i < k
      <4>1. i \in 0..n /\ i - 1 \in 0..n /\ i - 1 < k /\ g[i] = f[i]
        BY <3>1
      <4>2. q[i] = p[i] /\ q[i - 1] = p[i - 1]
        BY <3>1, <4>1
      <4> HIDE DEF q
      <4>3. QED BY <4>1, <4>2, <1>2
    <3>2. CASE i = k
      BY <3>2, <1>2
    <3>3. CASE i > k
      <4>1. i - 1 \in 0..n /\ ~ (i - 1 < k) /\ ~ (i < k) /\ g[i] = f[i]
        BY <3>3
      <4>2. q[i] = p[i] + (g[k] - f[k]) /\ q[i - 1] = p[i - 1] + (g[k] - f[k])
        BY <4>1
      <4>3. p[i] = p[i - 1] + f[i] /\ p[i - 1] \in Int /\ p[i] \in Int
        BY <4>1, <1>2
      <4> HIDE DEF q
      <4>4. QED BY <4>1, <4>2, <4>3
    <3>4. QED BY <3>1, <3>2, <3>3
  <2> HIDE DEF q
  <2>3. QED BY <2>1, <2>2 DEF IsPrefixSum
<1>4. Total(f, n) = p[n] /\ Total(g, n) = q[n]
  BY <1>1, <1>3, TotalIsPrefixSum
<1>5. QED BY <1>4, <1>2

(* Equal entries, equal sums. *)
LEMMA TotalSame ==
  ASSUME NEW n \in Nat, NEW f, NEW g,
         \A i \in 1..n : f[i] \in Int /\ g[i] = f[i]
  PROVE  Total(g, n) = Total(f, n)
<1>1. PICK p : IsPrefixSum(p, f, n)
  BY PrefixSumExists
<1>2. IsPrefixSum(p, g, n)
  BY <1>1 DEF IsPrefixSum
<1>3. QED BY <1>1, <1>2, TotalIsPrefixSum

(* Nothing but zeros sums to zero. *)
LEMMA TotalZero ==
  ASSUME NEW n \in Nat, NEW f, \A i \in 1..n : f[i] = 0
  PROVE  Total(f, n) = 0
<1>1. IsPrefixSum([i \in 0..n |-> 0], f, n)
  BY DEF IsPrefixSum
<1>2. QED BY <1>1, TotalIsPrefixSum

(* A sum of naturals is a natural. *)
LEMMA TotalNat ==
  ASSUME NEW n \in Nat, NEW f, \A i \in 1..n : f[i] \in Nat
  PROVE  Total(f, n) \in Nat
<1>1. PICK q : IsPrefixSum(q, f, n)
  BY PrefixSumExists
<1>2. q \in [0..n -> Int] /\ q[0] = 0 /\ \A i \in 1..n : q[i] = q[i - 1] + f[i]
  BY <1>1 DEF IsPrefixSum
<1> DEFINE D == {i \in 0..n : q[i] \notin Nat}
<1>3. ASSUME D # {} PROVE FALSE
  <2>1. D \in SUBSET Nat
    OBVIOUS
  <2>2. PICK m \in D : \A y \in D : m <= y
    <3> HIDE DEF D
    <3> QED BY <1>3, <2>1, LeastElement
  <2>3. m \in 1..n
    BY <1>2
  <2>4. m - 1 \in 0..n /\ m - 1 \notin D
    BY <2>2, <2>3
  <2>5. QED BY <2>3, <2>4, <1>2
<1>4. q[n] \in Nat
  BY <1>3
<1>5. QED BY <1>1, <1>4, TotalIsPrefixSum

-----------------------------------------------------------------------------
(* The windows, the clamp and the rows.                                    *)
LEMMA WindowFacts ==
  /\ \A d \in Days : Global(d) \in Windows
  /\ \A r \in Runs : Request(r) \in Windows
  /\ \A d \in Days, r \in Runs : Global(d) # Request(r)
  /\ \A d, e \in Days : Global(d) = Global(e) => d = e
BY DEF Global, Request, Windows

LEMMA ClampNat == \A x \in Int : Clamp(x) \in Nat
BY DEF Clamp

(* What a row of the table is made of. *)
LEMMA RowType ==
  ASSUME TypeOK, NEW i \in Ids
  PROVE  /\ reservations[i] \in Reservation
         /\ reservations[i].run \in Runs
         /\ reservations[i].amount \in Nat
         /\ reservations[i].state \in {"reserved", "reconciled"}
         /\ reservations[i].key \in Days \cup {NoKey}
         /\ reservations[i].age \in Ages \cup {NoKey}
         /\ reservations[i].opened \in Days
         /\ reservations[i].charged \in Nat
<1>1. reservations[i] \in Reservation
  BY ElementOfSeq DEF TypeOK, Ids
<1>2. QED BY <1>1 DEF Reservation

(* The terms of the three sums are integers. *)
LEMMA TermTypes ==
  ASSUME TypeOK, NEW w
  PROVE  /\ \A i \in Ids : /\ Outstanding(w)[i] \in Nat
                           /\ Charges(w)[i] \in Nat
                           /\ Overruns(w)[i] \in Nat
         /\ Len(reservations) \in Nat
<1>1. ASSUME NEW i \in Ids
      PROVE  /\ Outstanding(w)[i] \in Nat
             /\ Charges(w)[i] \in Nat
             /\ Overruns(w)[i] \in Nat
  <2>1. reservations[i].amount \in Nat /\ reservations[i].charged \in Nat
    BY RowType
  <2>2. Clamp(reservations[i].charged - reservations[i].amount) \in Nat
    BY <2>1, ClampNat
  <2>3. QED BY <2>1, <2>2 DEF Outstanding, Charges, Overruns
<1>2. Len(reservations) \in Nat
  BY LenProperties DEF TypeOK
<1>3. QED BY <1>1, <1>2

-----------------------------------------------------------------------------
(* The new table after each operation on it. *)

LEMMA ReserveRows ==
  ASSUME TypeOK, NEW r \in Runs, NEW a \in Amounts, NEW known \in BOOLEAN,
         Reserve(r, a, known)
  PROVE  LET n == Len(reservations) + 1 IN
         /\ reservations' \in Seq(Reservation)
         /\ Len(reservations') = n /\ Len(reservations) \in Nat
         /\ n \in Nat /\ n \notin Ids /\ Ids' = Ids \cup {n} /\ Ids \subseteq Ids'
         /\ \A j \in Ids : reservations'[j] = reservations[j]
         /\ reservations'[n].run = r
         /\ reservations'[n].amount = a
         /\ reservations'[n].state = "reserved"
         /\ reservations'[n].key = today
         /\ reservations'[n].age = 0
         /\ reservations'[n].opened = today
         /\ reservations'[n].charged = 0
<1> DEFINE new == [run |-> r, amount |-> a, state |-> "reserved", key |-> today,
                   age |-> 0, opened |-> today, charged |-> 0]
           n == Len(reservations) + 1
<1>1. reservations \in Seq(Reservation) /\ today \in Days
  BY DEF TypeOK
<1>2. 0 \in Ages
  BY BoundsAssumption DEF Ages
<1>3. new \in Reservation
  BY <1>1, <1>2, AmountsAssumption DEF Reservation
<1>4. reservations' = Append(reservations, new)
  BY DEF Reserve, Book
<1> HIDE DEF new
<1>5. /\ reservations' \in Seq(Reservation)
      /\ Len(reservations') = n
      /\ \A j \in 1..Len(reservations) : reservations'[j] = reservations[j]
      /\ reservations'[n] = new
  BY <1>1, <1>3, <1>4
<1>6. Len(reservations) \in Nat
  BY <1>1, LenProperties
<1>7. n \in Nat /\ n \notin Ids /\ Ids' = Ids \cup {n} /\ Ids \subseteq Ids'
  BY <1>5, <1>6 DEF Ids
<1>8. QED BY <1>5, <1>6, <1>7 DEF Ids, new

LEMMA SettleRows ==
  ASSUME TypeOK, NEW i \in Ids, NEW cost \in Int, Settle(i, cost)
  PROVE  /\ reservations' \in Seq(Reservation)
         /\ Len(reservations') = Len(reservations)
         /\ Ids' = Ids
         /\ \A j \in Ids \ {i} : reservations'[j] = reservations[j]
         /\ reservations[i].state = "reserved"
         /\ reservations'[i].state = "reconciled"
         /\ reservations'[i].charged = Clamp(cost)
         /\ reservations'[i].run = reservations[i].run
         /\ reservations'[i].amount = reservations[i].amount
         /\ reservations'[i].key = reservations[i].key
         /\ reservations'[i].age = reservations[i].age
         /\ reservations'[i].opened = reservations[i].opened
<1> DEFINE row == [reservations[i] EXCEPT !.state = "reconciled",
                                          !.charged = Clamp(cost)]
<1>1. reservations \in Seq(Reservation) /\ i \in 1..Len(reservations)
  BY DEF TypeOK, Ids
<1>2. reservations[i] \in Reservation
  BY RowType
<1>3. row \in Reservation
  BY <1>2, ClampNat DEF Reservation
<1>4. reservations' = [reservations EXCEPT ![i] = row]
  BY <1>1 DEF Settle
<1>5. /\ row.state = "reconciled"
      /\ row.charged = Clamp(cost)
      /\ row.run = reservations[i].run
      /\ row.amount = reservations[i].amount
      /\ row.key = reservations[i].key
      /\ row.age = reservations[i].age
      /\ row.opened = reservations[i].opened
  BY <1>2 DEF Reservation
<1> HIDE DEF row
<1>6. /\ reservations' \in Seq(Reservation)
      /\ Len(reservations') = Len(reservations)
      /\ \A j \in 1..Len(reservations) :
           reservations'[j] = IF j = i THEN row ELSE reservations[j]
  BY <1>1, <1>3, <1>4, ExceptSeq
<1>7. QED BY <1>5, <1>6, <1>1 DEF Ids, Settle

LEMMA TickRows ==
  ASSUME TypeOK, Tick
  PROVE  /\ reservations' \in Seq(Reservation)
         /\ Len(reservations') = Len(reservations)
         /\ Ids' = Ids
         /\ \A j \in Ids :
              /\ reservations'[j].run = reservations[j].run
              /\ reservations'[j].amount = reservations[j].amount
              /\ reservations'[j].state = reservations[j].state
              /\ reservations'[j].key = reservations[j].key
              /\ reservations'[j].opened = reservations[j].opened
              /\ reservations'[j].charged = reservations[j].charged
              /\ reservations'[j].age = Older(reservations[j].age)
<1>1. reservations \in Seq(Reservation) /\ Len(reservations) \in Nat
  BY LenProperties DEF TypeOK
<1>2. reservations' = [j \in 1..Len(reservations) |->
                         [reservations[j] EXCEPT !.age = Older(@)]]
  BY DEF Tick, Ids
<1>3. ASSUME NEW j \in 1..Len(reservations)
      PROVE  /\ reservations'[j] \in Reservation
             /\ reservations'[j].run = reservations[j].run
             /\ reservations'[j].amount = reservations[j].amount
             /\ reservations'[j].state = reservations[j].state
             /\ reservations'[j].key = reservations[j].key
             /\ reservations'[j].opened = reservations[j].opened
             /\ reservations'[j].charged = reservations[j].charged
             /\ reservations'[j].age = Older(reservations[j].age)
  <2>1. reservations'[j] = [reservations[j] EXCEPT !.age = Older(@)]
    BY <1>2
  <2>2. reservations[j] \in Reservation /\ reservations[j].age \in Ages \cup {NoKey}
    BY RowType DEF Ids
  <2>3. Older(reservations[j].age) \in Ages \cup {NoKey}
    BY <2>2, BoundsAssumption DEF Older, Ages
  <2>4. QED BY <2>1, <2>2, <2>3 DEF Reservation
<1>4. reservations' \in [1..Len(reservations) -> Reservation]
  BY <1>2, <1>3
<1>5. reservations' \in Seq(Reservation) /\ Len(reservations') = Len(reservations)
  BY <1>1, <1>4
<1>6. QED BY <1>3, <1>5 DEF Ids
-----------------------------------------------------------------------------
(* Type correctness. *)

LEMMA PostType ==
  ASSUME NEW f \in [Windows -> Int], NEW ws, NEW d \in Int
  PROVE  Post(f, ws, d) \in [Windows -> Int]
BY DEF Post

LEMMA InsertType ==
  ASSUME NEW rows \in [Windows -> Nat \cup {NoRow}], NEW w \in Windows, NEW c \in Nat
  PROVE  /\ InsertOrIgnore(rows, w, c) \in [Windows -> Nat \cup {NoRow}]
         /\ InsertOrIgnore(rows, w, c)[w] # NoRow
         /\ \A v \in Windows : v # w \/ rows[v] # NoRow =>
                                 InsertOrIgnore(rows, w, c)[v] = rows[v]
         /\ rows[w] = NoRow => InsertOrIgnore(rows, w, c)[w] = c
BY NullsAssumption DEF InsertOrIgnore

LEMMA InitType == Init => TypeOK
<1>1. ASSUME InitFresh PROVE TypeOK
  <2>1. reservations \in Seq(Reservation) /\ held \subseteq Ids /\ batch \subseteq Ids
    BY <1>1 DEF InitFresh, Ids
  <2>2. QED BY <1>1, <2>1, BoundsAssumption DEF InitFresh, TypeOK, Days
<1>2. ASSUME InitMigrated PROVE TypeOK
  <2>1. PICK r \in Runs, a \in Amounts, c \in RequestCeilings, k \in {0, NoKey} :
          /\ today = 0
          /\ ceiling = [w \in Windows |->
                          IF w = Global(0) THEN GlobalCeiling
                          ELSE IF w = Request(r) THEN c ELSE NoRow]
          /\ reserved = [w \in Windows |->
                           IF w \in {Global(0), Request(r)} THEN a ELSE 0]
          /\ spent = [w \in Windows |-> 0]
          /\ reservations = <<[run |-> r, amount |-> a, state |-> "reserved",
                               key |-> k, age |-> NoKey, opened |-> 0, charged |-> 0]>>
          /\ held = {}
          /\ batch = {}
    BY <1>2 DEF InitMigrated
  <2>2. a \in Nat /\ c \in Nat /\ 0 \in Days
    BY AmountsAssumption, CeilingsAssumption, BoundsAssumption DEF Days
  <2>3. [run |-> r, amount |-> a, state |-> "reserved", key |-> k, age |-> NoKey,
         opened |-> 0, charged |-> 0] \in Reservation
    BY <2>2 DEF Reservation
  <2>4. reservations \in Seq(Reservation)
    BY <2>1, <2>3
  <2>5. ceiling \in [Windows -> Nat \cup {NoRow}]
    BY <2>1, <2>2, CeilingsAssumption
  <2>6. reserved \in [Windows -> Int] /\ spent \in [Windows -> Int]
    BY <2>1, <2>2
  <2>7. QED BY <2>1, <2>2, <2>4, <2>5, <2>6 DEF TypeOK
<1>3. QED BY <1>1, <1>2 DEF Init

LEMMA NextType == TypeOK /\ [Next]_vars => TypeOK'
<1> SUFFICES ASSUME TypeOK, [Next]_vars PROVE TypeOK'
  OBVIOUS
<1> USE DEF TypeOK
<1>1. ASSUME NEW r \in Runs, NEW c \in RequestCeilings, InitializeRequest(r, c)
      PROVE  TypeOK'
  <2>1. ceiling' \in [Windows -> Nat \cup {NoRow}]
    BY <1>1, InsertType, WindowFacts, CeilingsAssumption DEF InitializeRequest
  <2>2. Ids' = Ids
    BY <1>1 DEF InitializeRequest, Ids
  <2>3. QED BY <1>1, <2>1, <2>2 DEF InitializeRequest
<1>2. ASSUME NEW r \in Runs, NEW a \in Amounts, NEW known \in BOOLEAN,
             Reserve(r, a, known)
      PROVE  TypeOK'
  <2>1. /\ reservations' \in Seq(Reservation)
        /\ Ids' = Ids \cup {Len(reservations) + 1}
    BY <1>2, ReserveRows, Zenon
  <2>2. ceiling' \in [Windows -> Nat \cup {NoRow}]
    BY <1>2, InsertType, WindowFacts, CeilingsAssumption DEF Reserve, Book
  <2>3. reserved' \in [Windows -> Int]
    <3>1. a \in Int
      BY AmountsAssumption
    <3>2. reserved' = Post(reserved, {Global(today), Request(r)}, a)
      BY <1>2 DEF Reserve, Book
    <3>3. QED BY <3>1, <3>2, PostType
  <2>4. held' \subseteq Ids' /\ batch' \subseteq Ids'
    BY <1>2, <2>1 DEF Reserve, Book
  <2>5. QED BY <1>2, <2>1, <2>2, <2>3, <2>4 DEF Reserve, Book
<1>3. ASSUME NEW i \in Ids, NEW cost \in Int, Settle(i, cost)
      PROVE  /\ reservations' \in Seq(Reservation)
             /\ Ids' = Ids
             /\ ceiling' = ceiling
             /\ reserved' \in [Windows -> Int]
             /\ spent' \in [Windows -> Int]
  <2>1. reservations' \in Seq(Reservation) /\ Ids' = Ids
    BY <1>3, SettleRows, Zenon
  <2>2. reservations[i].amount \in Nat
    BY RowType, Zenon
  <2>3. 0 - reservations[i].amount \in Int
    BY ONLY <2>2, SMT
  <2>4. Clamp(cost) \in Nat
    BY ONLY ClampNat, cost \in Int, Zenon
  <2>5. Clamp(cost) \in Int
    BY ONLY <2>4, SMT
  <2>6. QED BY <1>3, <2>1, <2>3, <2>5, PostType DEF Settle
<1>4. ASSUME NEW i \in Ids, NEW cost \in Costs, Reconcile(i, cost) PROVE TypeOK'
  BY <1>3, <1>4, CostsAssumption DEF Reconcile
<1>5. ASSUME NEW i \in Ids, Forget(i) PROVE TypeOK'
  BY <1>5 DEF Forget, ledgerVars, Ids
<1>6. ASSUME SweepSelect PROVE TypeOK'
  BY <1>6 DEF SweepSelect, ledgerVars, Ids, Stale
<1>7. ASSUME NEW i \in Ids, SweepCancel(i) PROVE TypeOK'
  BY <1>3, <1>7 DEF SweepCancel
<1>8. ASSUME NEW i \in Ids, SweepSkip(i) PROVE TypeOK'
  BY <1>8 DEF SweepSkip, ledgerVars, Ids
<1>9. ASSUME Restart PROVE TypeOK'
  BY <1>9 DEF Restart, ledgerVars
<1>10. ASSUME Tick PROVE TypeOK'
  <2>1. reservations' \in Seq(Reservation) /\ Ids' = Ids
    BY <1>10, TickRows, Zenon
  <2>2. QED BY <1>10, <2>1 DEF Tick, ledgerVars
<1>11. CASE UNCHANGED vars
  BY <1>11 DEF vars, ledgerVars, Ids
<1>12. QED
  BY <1>1, <1>2, <1>4, <1>5, <1>6, <1>7, <1>8, <1>9, <1>10, <1>11 DEF Next

(* The tables and the process keep the shape the code gives them. *)
THEOREM TypeCorrect == Spec => []TypeOK
<1>1. Init => TypeOK
  BY InitType
<1>2. TypeOK /\ [Next]_vars => TypeOK'
  BY NextType
<1>3. QED BY <1>1, <1>2, PTL DEF Spec
-----------------------------------------------------------------------------
(* The three sums through each operation. *)

Sums == ReservedIsOutstanding /\ SpentIsCharged /\ CeilingHolds

(* Opening a row books nothing: a window without a row has nothing in it. *)
LEMMA AbsentRowIsEmpty ==
  ASSUME IInv, NEW w \in Windows, ceiling[w] = NoRow
  PROVE  reserved[w] = 0 /\ spent[w] = 0
<1>1. ASSUME NEW i \in Ids PROVE ~ Bills(i, w)
  BY DEF IInv, RowsExist, Bills
<1>2. \A i \in 1..Len(reservations) : Outstanding(w)[i] = 0 /\ Charges(w)[i] = 0
  BY <1>1 DEF Outstanding, Charges, Ids
<1>3. Len(reservations) \in Nat
  BY TermTypes DEF IInv
<1>4. Total(Outstanding(w), Len(reservations)) = 0
      /\ Total(Charges(w), Len(reservations)) = 0
  BY <1>2, <1>3, TotalZero
<1>5. QED BY <1>4 DEF IInv, ReservedIsOutstanding, SpentIsCharged

(* A step that changes no amount, state, window or charge keeps the sums.  *)
LEMMA SumsUnchanged ==
  ASSUME IInv, Ids' = Ids, Len(reservations') = Len(reservations),
         UNCHANGED <<reserved, spent>>,
         \A w \in Windows : \/ ceiling'[w] = ceiling[w]
                            \/ ceiling[w] = NoRow /\ ceiling'[w] \in Nat,
         \A j \in Ids :
           /\ reservations'[j].run = reservations[j].run
           /\ reservations'[j].amount = reservations[j].amount
           /\ reservations'[j].state = reservations[j].state
           /\ reservations'[j].opened = reservations[j].opened
           /\ reservations'[j].charged = reservations[j].charged
  PROVE  Sums'
<1>1. ASSUME NEW w \in Windows
      PROVE  /\ Outstanding(w)' = Outstanding(w)
             /\ Charges(w)' = Charges(w)
             /\ Overruns(w)' = Overruns(w)
  <2>1. \A j \in Ids : Bills(j, w)' <=> Bills(j, w)
    BY DEF Bills
  <2>2. Outstanding(w)' = Outstanding(w)
    BY <2>1, Zenon DEF Outstanding
  <2>3. Charges(w)' = Charges(w)
    BY <2>1, Zenon DEF Charges
  <2>4. Overruns(w)' = Overruns(w)
    BY <2>1, Zenon DEF Overruns
  <2>5. QED BY <2>2, <2>3, <2>4
<1>2. ReservedIsOutstanding'
  BY <1>1 DEF IInv, ReservedIsOutstanding
<1>3. SpentIsCharged'
  BY <1>1 DEF IInv, SpentIsCharged
<1>4. ASSUME NEW w \in Windows, ceiling'[w] # NoRow
      PROVE  reserved'[w] + spent'[w]
               <= ceiling'[w] + Total(Overruns(w)', Len(reservations'))
  <2>1. CASE ceiling'[w] = ceiling[w]
    BY <1>1, <1>4, <2>1 DEF IInv, CeilingHolds
  <2>2. CASE ceiling[w] = NoRow /\ ceiling'[w] \in Nat
    <3>1. reserved[w] = 0 /\ spent[w] = 0
      BY <2>2, AbsentRowIsEmpty
    <3>2. Total(Overruns(w), Len(reservations)) \in Nat
      BY TermTypes, TotalNat DEF IInv, Ids
    <3>3. QED BY <1>1, <2>2, <3>1, <3>2
  <2>3. QED BY <2>1, <2>2
<1>5. QED BY <1>2, <1>3, <1>4 DEF Sums, CeilingHolds

LEMMA SumsReserve ==
  ASSUME IInv, NEW r \in Runs, NEW a \in Amounts, NEW known \in BOOLEAN,
         Reserve(r, a, known)
  PROVE  Sums'
<1> DEFINE ws == {Global(today), Request(r)}
<1> PICK n : n = Len(reservations) + 1
  OBVIOUS
<1>1. a \in Nat /\ today \in Days /\ ws \subseteq Windows
  BY AmountsAssumption, WindowFacts DEF IInv, TypeOK
<1>2. /\ Len(reservations) \in Nat /\ Len(reservations') = n
      /\ Ids' = Ids \cup {n} /\ n \notin Ids
      /\ \A j \in Ids : reservations'[j] = reservations[j]
      /\ reservations'[n].run = r /\ reservations'[n].amount = a
      /\ reservations'[n].state = "reserved" /\ reservations'[n].opened = today
      /\ reservations'[n].charged = 0
  <2>1. TypeOK
    BY DEF IInv
  <2>2. QED BY <2>1, ReserveRows, Zenon
<1>3. /\ ceiling' = InsertOrIgnore(ceiling, Global(today), GlobalCeiling)
      /\ reserved' = Post(reserved, ws, a)
      /\ spent' = spent
      /\ ceiling[Request(r)] # NoRow
      /\ \A w \in ws : reserved[w] + spent[w] + a <= ceiling'[w]
  BY DEF Reserve, Book, Affordable, Fits
<1>4. /\ \A w \in ws : ceiling'[w] # NoRow
      /\ \A w \in Windows \ ws : ceiling'[w] = ceiling[w]
      /\ ceiling' \in [Windows -> Nat \cup {NoRow}]
  <2>1. /\ ceiling \in [Windows -> Nat \cup {NoRow}]
        /\ Global(today) \in Windows /\ GlobalCeiling \in Nat
        /\ Request(r) \in Windows /\ Global(today) # Request(r)
    BY <1>1, CeilingsAssumption, WindowFacts DEF IInv, TypeOK
  <2>2. /\ ceiling' \in [Windows -> Nat \cup {NoRow}]
        /\ ceiling'[Global(today)] # NoRow
        /\ \A v \in Windows : v # Global(today) => ceiling'[v] = ceiling[v]
    BY <2>1, <1>3, NullsAssumption DEF InsertOrIgnore
  <2>3. QED BY <2>1, <2>2, <1>3
<1>5. \A w \in Windows : reserved'[w] = IF w \in ws THEN reserved[w] + a ELSE reserved[w]
  BY <1>3, <1>4 DEF Post
<1>6. ASSUME NEW w \in Windows
      PROVE  /\ Total(Outstanding(w)', n) =
                  Total(Outstanding(w), n - 1) + (IF w \in ws THEN a ELSE 0)
             /\ Total(Charges(w)', n) = Total(Charges(w), n - 1)
             /\ Total(Overruns(w)', n) = Total(Overruns(w), n - 1)
  <2>1. \A j \in Ids : Bills(j, w)' <=> Bills(j, w)
    BY <1>2 DEF Bills
  <2>2. Bills(n, w)' <=> w \in ws
    BY <1>2 DEF Bills
  <2>3. \A j \in Ids : /\ Outstanding(w)'[j] = Outstanding(w)[j]
                       /\ Charges(w)'[j] = Charges(w)[j]
                       /\ Overruns(w)'[j] = Overruns(w)[j]
    BY <2>1, <1>2 DEF Outstanding, Charges, Overruns
  <2>4. /\ Outstanding(w)'[n] = IF w \in ws THEN a ELSE 0
        /\ Charges(w)'[n] = 0
        /\ Overruns(w)'[n] = 0
    BY <2>2, <1>2 DEF Outstanding, Charges, Overruns
  <2>5. \A j \in Ids : /\ Outstanding(w)[j] \in Int
                       /\ Charges(w)[j] \in Int
                       /\ Overruns(w)[j] \in Int
    BY TermTypes DEF IInv
  <2> DEFINE m == Len(reservations)
             g1 == Outstanding(w)'
             g2 == Charges(w)'
             g3 == Overruns(w)'
  <2>6. n = m + 1 /\ n - 1 = m /\ Ids = 1..m
    BY <1>2 DEF Ids
  <2>7. m \in Nat
    BY <1>2
  <2>8. Total(Outstanding(w)', m + 1) = Total(Outstanding(w), m) + Outstanding(w)'[m + 1]
    <3>1. g1[m + 1] \in Int /\ \A j \in 1..m : Outstanding(w)[j] \in Int /\ g1[j] = Outstanding(w)[j]
      BY <1>1, <2>3, <2>4, <2>5, <2>6
    <3> HIDE DEF g1, g2, g3, m
    <3>2. Total(g1, m + 1) = Total(Outstanding(w), m) + g1[m + 1]
      BY <3>1, <2>7, TotalAppend
    <3>3. QED BY <3>2 DEF g1
  <2>9. Total(Charges(w)', m + 1) = Total(Charges(w), m) + Charges(w)'[m + 1]
    <3>1. g2[m + 1] \in Int /\ \A j \in 1..m : Charges(w)[j] \in Int /\ g2[j] = Charges(w)[j]
      BY <2>3, <2>4, <2>5, <2>6
    <3> HIDE DEF g1, g2, g3, m
    <3>2. Total(g2, m + 1) = Total(Charges(w), m) + g2[m + 1]
      BY <3>1, <2>7, TotalAppend
    <3>3. QED BY <3>2 DEF g2
  <2>10. Total(Overruns(w)', m + 1) = Total(Overruns(w), m) + Overruns(w)'[m + 1]
    <3>1. g3[m + 1] \in Int /\ \A j \in 1..m : Overruns(w)[j] \in Int /\ g3[j] = Overruns(w)[j]
      BY <2>3, <2>4, <2>5, <2>6
    <3> HIDE DEF g1, g2, g3, m
    <3>2. Total(g3, m + 1) = Total(Overruns(w), m) + g3[m + 1]
      BY <3>1, <2>7, TotalAppend
    <3>3. QED BY <3>2 DEF g3
  <2>11. Total(Charges(w), m) \in Int /\ Total(Overruns(w), m) \in Int
    <3>1. \A j \in 1..m : Charges(w)[j] \in Int /\ Overruns(w)[j] \in Int
      BY <2>5, <2>6
    <3> HIDE DEF m
    <3>2. QED BY <3>1, <2>7, TotalType
  <2>12. QED BY <2>4, <2>8, <2>9, <2>10, <2>11, <2>6
<1>7. \A w \in Windows : reserved[w] \in Int /\ spent[w] \in Int
  BY DEF IInv, TypeOK
<1>8. n - 1 = Len(reservations)
  BY <1>2
<1>9. ASSUME NEW w \in Windows PROVE reserved'[w] = Total(Outstanding(w)', n)
  BY <1>5, <1>6, <1>7, <1>8 DEF IInv, ReservedIsOutstanding
<1>10. ASSUME NEW w \in Windows PROVE spent'[w] = Total(Charges(w)', n)
  BY <1>3, <1>6, <1>8 DEF IInv, SpentIsCharged
<1>11. ASSUME NEW w \in Windows, ceiling'[w] # NoRow
       PROVE  reserved'[w] + spent'[w] <= ceiling'[w] + Total(Overruns(w)', n)
  <2>1. Total(Overruns(w), n - 1) \in Nat
    BY <1>8, TermTypes, TotalNat DEF IInv, Ids
  <2>2. ceiling'[w] \in Nat
    BY <1>4, <1>11
  <2>3. CASE w \in ws
    <3>1. reserved[w] + spent[w] + a <= ceiling'[w]
      BY <1>3, <2>3
    <3>2. reserved'[w] = reserved[w] + a /\ spent'[w] = spent[w]
      BY <1>3, <1>5, <2>3
    <3> HIDE DEF ws
    <3>3. QED BY <3>1, <3>2, <2>1, <2>2, <1>1, <1>6, <1>7
  <2>4. CASE w \notin ws
    <3>1. ceiling'[w] = ceiling[w] /\ reserved'[w] = reserved[w] /\ spent'[w] = spent[w]
      BY <1>3, <1>4, <1>5, <2>4
    <3>2. reserved[w] + spent[w] <= ceiling[w] + Total(Overruns(w), n - 1)
      BY <3>1, <1>8, <1>11 DEF IInv, CeilingHolds
    <3>3. QED BY <3>1, <3>2, <1>6
  <2>5. QED BY <2>3, <2>4
<1>12. QED
  BY <1>2, <1>9, <1>10, <1>11
  DEF Sums, ReservedIsOutstanding, SpentIsCharged, CeilingHolds

LEMMA SumsSettle ==
  ASSUME IInv, NEW i \in Ids, NEW cost \in Int, Settle(i, cost),
         reservations[i].age # NoKey
  PROVE  Sums'
<1> DEFINE a == reservations[i].amount
           c == Clamp(cost)
           ws == {Global(reservations[i].opened), Request(reservations[i].run)}
           m == Len(reservations)
<1>1. a \in Nat /\ c \in Nat /\ reservations[i].charged \in Nat
  BY RowType, ClampNat DEF IInv
<1>2. /\ Len(reservations') = Len(reservations)
      /\ Ids' = Ids
      /\ \A j \in Ids \ {i} : reservations'[j] = reservations[j]
      /\ reservations[i].state = "reserved"
      /\ reservations'[i].state = "reconciled"
      /\ reservations'[i].charged = c
      /\ reservations'[i].run = reservations[i].run
      /\ reservations'[i].amount = a
      /\ reservations'[i].opened = reservations[i].opened
  <2>1. TypeOK
    BY DEF IInv
  <2>2. QED BY <2>1, SettleRows, Zenon
<1>3. m \in Nat /\ Ids = 1..m
  BY TermTypes DEF IInv, Ids
<1>4. SettleWindow(i) = Global(reservations[i].opened)
  BY DEF IInv, KeysSound, SettleWindow
<1>5. \A w \in ws : ceiling[w] # NoRow
  BY DEF IInv, RowsExist
<1>6. /\ ceiling' = ceiling
      /\ reserved' = Post(reserved, ws, 0 - a)
      /\ spent' = Post(spent, ws, c)
  BY <1>4 DEF Settle
<1>7. \A w \in Windows :
        /\ reserved'[w] = IF w \in ws THEN reserved[w] + (0 - a) ELSE reserved[w]
        /\ spent'[w] = IF w \in ws THEN spent[w] + c ELSE spent[w]
  BY <1>5, <1>6 DEF Post
<1>8. \A w \in Windows : reserved[w] \in Int /\ spent[w] \in Int
  BY DEF IInv, TypeOK
<1>9. reservations[i].charged = 0
  BY <1>2 DEF IInv, PendingUncharged
<1>10. ASSUME NEW w \in Windows
       PROVE  /\ Total(Outstanding(w)', m) =
                   Total(Outstanding(w), m) + (IF w \in ws THEN 0 - a ELSE 0)
              /\ Total(Charges(w)', m) =
                   Total(Charges(w), m) + (IF w \in ws THEN c ELSE 0)
              /\ Total(Overruns(w)', m) =
                   Total(Overruns(w), m) + (IF w \in ws THEN Clamp(c - a) ELSE 0)
              /\ Total(Overruns(w), m) \in Nat
  <2>1. \A j \in Ids : Bills(j, w)' <=> Bills(j, w)
    BY <1>2 DEF Bills
  <2>2. Bills(i, w) <=> w \in ws
    BY DEF Bills
  <2>3. \A j \in Ids \ {i} : /\ Outstanding(w)'[j] = Outstanding(w)[j]
                             /\ Charges(w)'[j] = Charges(w)[j]
                             /\ Overruns(w)'[j] = Overruns(w)[j]
    BY <2>1, <1>2 DEF Outstanding, Charges, Overruns
  <2>4. /\ Outstanding(w)[i] = IF w \in ws THEN a ELSE 0
        /\ Charges(w)[i] = 0
        /\ Overruns(w)[i] = 0
    BY <2>2, <1>2, <1>9 DEF Outstanding, Charges, Overruns
  <2>5. /\ Outstanding(w)'[i] = 0
        /\ Charges(w)'[i] = IF w \in ws THEN c ELSE 0
        /\ Overruns(w)'[i] = IF w \in ws THEN Clamp(c - a) ELSE 0
    BY <2>1, <2>2, <1>2 DEF Outstanding, Charges, Overruns
  <2>6. \A j \in Ids : /\ Outstanding(w)[j] \in Nat
                       /\ Charges(w)[j] \in Nat
                       /\ Overruns(w)[j] \in Nat
    BY TermTypes DEF IInv
  <2>7. Clamp(c - a) \in Nat
    BY <1>1, ClampNat
  <2> DEFINE f1 == Outstanding(w)
             f2 == Charges(w)
             f3 == Overruns(w)
             g1 == Outstanding(w)'
             g2 == Charges(w)'
             g3 == Overruns(w)'
  <2>8. \A j \in 1..m : /\ f1[j] \in Int /\ f2[j] \in Int /\ f3[j] \in Nat
                        /\ g1[j] \in Int /\ g2[j] \in Int /\ g3[j] \in Int
                        /\ j # i => g1[j] = f1[j] /\ g2[j] = f2[j] /\ g3[j] = f3[j]
    <3>1. ASSUME NEW j \in 1..m, j # i
          PROVE  g1[j] = f1[j] /\ g2[j] = f2[j] /\ g3[j] = f3[j]
      BY <1>3, <2>3, <3>1
    <3>2. ASSUME NEW j \in 1..m
          PROVE  f1[j] \in Int /\ f2[j] \in Int /\ f3[j] \in Nat
      BY <1>3, <2>6
    <3>3. g1[i] \in Int /\ g2[i] \in Int /\ g3[i] \in Int
      <4> HIDE DEF a, c, ws
      <4>1. QED BY <2>5, <2>7, <1>1
    <3> HIDE DEF f1, f2, f3, g1, g2, g3
    <3>4. QED BY <3>1, <3>2, <3>3
  <2>9. i \in 1..m
    BY <1>3
  <2>10. /\ Total(g1, m) = Total(f1, m) + (g1[i] - f1[i])
         /\ Total(g2, m) = Total(f2, m) + (g2[i] - f2[i])
         /\ Total(g3, m) = Total(f3, m) + (g3[i] - f3[i])
         /\ Total(f1, m) \in Int /\ Total(f2, m) \in Int /\ Total(f3, m) \in Nat
    <3> HIDE DEF f1, f2, f3, g1, g2, g3, m
    <3>1. Total(g1, m) = Total(f1, m) + (g1[i] - f1[i])
      BY <1>3, <2>8, <2>9, TotalUpdate
    <3>2. Total(g2, m) = Total(f2, m) + (g2[i] - f2[i])
      BY <1>3, <2>8, <2>9, TotalUpdate
    <3>3. Total(g3, m) = Total(f3, m) + (g3[i] - f3[i])
      <4>1. \A j \in 1..m : f3[j] \in Int /\ g3[j] \in Int
        BY <2>8
      <4>2. \A j \in 1..m : j # i => g3[j] = f3[j]
        BY <2>8
      <4>3. QED BY <1>3, <2>9, <4>1, <4>2, TotalUpdate
    <3>4. Total(f1, m) \in Int /\ Total(f2, m) \in Int
      BY <1>3, <2>8, TotalType
    <3>5. Total(f3, m) \in Nat
      BY <1>3, <2>8, TotalNat
    <3>6. QED BY <3>1, <3>2, <3>3, <3>4, <3>5
  <2> HIDE DEF a, c, ws, m
  <2>11. QED BY <1>1, <2>4, <2>5, <2>7, <2>10
<1>11. ASSUME NEW w \in Windows PROVE reserved'[w] = Total(Outstanding(w)', m)
  <2>1. reserved[w] = Total(Outstanding(w), m)
    BY DEF IInv, ReservedIsOutstanding
  <2> HIDE DEF a, c, ws, m
  <2>2. QED BY <2>1, <1>1, <1>7, <1>8, <1>10
<1>12. ASSUME NEW w \in Windows PROVE spent'[w] = Total(Charges(w)', m)
  <2>1. spent[w] = Total(Charges(w), m)
    BY DEF IInv, SpentIsCharged
  <2> HIDE DEF a, c, ws, m
  <2>2. QED BY <2>1, <1>1, <1>7, <1>8, <1>10
<1>13. ASSUME NEW w \in Windows, ceiling'[w] # NoRow
       PROVE  reserved'[w] + spent'[w] <= ceiling'[w] + Total(Overruns(w)', m)
  <2>1. /\ ceiling'[w] = ceiling[w] /\ ceiling[w] \in Nat
        /\ reserved[w] + spent[w] <= ceiling[w] + Total(Overruns(w), m)
    BY <1>6, <1>13 DEF IInv, TypeOK, CeilingHolds
  <2>2. Clamp(c - a) \in Nat /\ Clamp(c - a) >= c - a
    BY <1>1 DEF Clamp
  <2> HIDE DEF a, c, ws, m
  <2>3. QED BY <2>1, <2>2, <1>1, <1>7, <1>8, <1>10
<1>14. QED
  BY <1>2, <1>11, <1>12, <1>13
  DEF Sums, ReservedIsOutstanding, SpentIsCharged, CeilingHolds
-----------------------------------------------------------------------------
(* The inductive invariant. *)

Rest == RowsExist /\ KeysSound /\ MigratedUntouched /\ PendingUncharged /\ BatchStale

LEMMA InitInvariant == Init => IInv
<1>1. ASSUME InitFresh, TypeOK PROVE IInv
  <2>1. Ids = {} /\ Len(reservations) = 0 /\ batch = {}
    BY <1>1 DEF InitFresh, Ids
  <2>2. Rest
    BY <2>1 DEF Rest, RowsExist, KeysSound, MigratedUntouched, PendingUncharged, BatchStale
  <2>3. \A w \in Windows : ceiling[w] = NoRow /\ reserved[w] = 0 /\ spent[w] = 0
    BY <1>1 DEF InitFresh
  <2>4. QED
    BY <1>1, <2>1, <2>2, <2>3, TotalEmpty
    DEF IInv, Rest, ReservedIsOutstanding, SpentIsCharged, CeilingHolds
<1>2. ASSUME InitMigrated, TypeOK PROVE IInv
  <2>1. PICK r \in Runs, a \in Amounts, c \in RequestCeilings, k \in {0, NoKey} :
          /\ a <= GlobalCeiling /\ a <= c
          /\ ceiling = [w \in Windows |->
                          IF w = Global(0) THEN GlobalCeiling
                          ELSE IF w = Request(r) THEN c ELSE NoRow]
          /\ reserved = [w \in Windows |->
                           IF w \in {Global(0), Request(r)} THEN a ELSE 0]
          /\ spent = [w \in Windows |-> 0]
          /\ reservations = <<[run |-> r, amount |-> a, state |-> "reserved",
                               key |-> k, age |-> NoKey, opened |-> 0, charged |-> 0]>>
          /\ held = {}
          /\ batch = {}
    BY <1>2 DEF InitMigrated
  <2>2. /\ Len(reservations) = 1 /\ Ids = {1}
        /\ reservations[1].run = r /\ reservations[1].amount = a
        /\ reservations[1].state = "reserved" /\ reservations[1].key = k
        /\ reservations[1].age = NoKey /\ reservations[1].opened = 0
        /\ reservations[1].charged = 0
    BY <2>1 DEF Ids
  <2>3. 0 \in Days /\ a \in Nat /\ c \in Nat /\ GlobalCeiling \in Nat
    BY BoundsAssumption, AmountsAssumption, CeilingsAssumption DEF Days
  <2>4. /\ Global(0) \in Windows /\ Request(r) \in Windows /\ Global(0) # Request(r)
        /\ ceiling[Global(0)] = GlobalCeiling /\ ceiling[Request(r)] = c
        /\ \A w \in Windows \ {Global(0), Request(r)} : ceiling[w] = NoRow
    BY <2>1, <2>3, WindowFacts
  <2>5. Rest
    BY <2>1, <2>2, <2>3, <2>4, NullsAssumption
    DEF Rest, RowsExist, KeysSound, MigratedUntouched, PendingUncharged, BatchStale
  <2>6. ASSUME NEW w \in Windows
        PROVE  /\ Total(Outstanding(w), 1) = IF w \in {Global(0), Request(r)} THEN a ELSE 0
               /\ Total(Charges(w), 1) = 0
               /\ Total(Overruns(w), 1) = 0
    <3> DEFINE zero == [j \in {} |-> 0]
    <3>1. /\ Outstanding(w)[1] = IF w \in {Global(0), Request(r)} THEN a ELSE 0
          /\ Charges(w)[1] = 0
          /\ Overruns(w)[1] = 0
      BY <2>2 DEF Outstanding, Charges, Overruns, Bills
    <3>2. \A f : f[1] \in Int => Total(f, 1) = f[1]
      <4>1. SUFFICES ASSUME NEW f, f[1] \in Int PROVE Total(f, 0 + 1) = Total(f, 0) + f[1]
        BY TotalEmpty
      <4>2. QED BY <4>1, TotalAppend
    <3>3. QED BY <3>1, <3>2, <2>3
  <2>7. ReservedIsOutstanding /\ SpentIsCharged
    BY <2>1, <2>2, <2>6 DEF ReservedIsOutstanding, SpentIsCharged
  <2>8. CeilingHolds
    BY <2>1, <2>2, <2>3, <2>4, <2>6 DEF CeilingHolds
  <2>9. QED BY <1>2, <2>5, <2>7, <2>8 DEF IInv, Rest
<1>3. QED BY <1>1, <1>2, InitType DEF Init

LEMMA NextInvariant == IInv /\ [Next]_vars => IInv'
<1> SUFFICES ASSUME IInv, [Next]_vars PROVE IInv'
  OBVIOUS
<1>1. TypeOK /\ TypeOK' /\ Rest
  BY NextType DEF IInv, Rest
<1>2. SUFFICES Rest' /\ Sums'
  BY <1>1 DEF IInv, Rest, Sums
<1>3. ASSUME UNCHANGED <<ceiling, reserved, spent, reservations>>,
             held' \subseteq held,
             batch' \subseteq batch \cup Stale
      PROVE  Rest' /\ Sums'
  <2>1. Ids' = Ids
    BY <1>3 DEF Ids
  <2>2. Sums'
    BY <1>3, <2>1, SumsUnchanged
  <2>3. Rest'
    BY <1>1, <1>3, <2>1
    DEF Rest, RowsExist, KeysSound, MigratedUntouched, PendingUncharged, BatchStale, Stale
  <2>4. QED BY <2>2, <2>3
<1>4. ASSUME NEW r \in Runs, NEW c \in RequestCeilings, InitializeRequest(r, c)
      PROVE  Rest' /\ Sums'
  <2> DEFINE rows == InsertOrIgnore(ceiling, Global(today), GlobalCeiling)
  <2>1. /\ ceiling \in [Windows -> Nat \cup {NoRow}]
        /\ Global(today) \in Windows /\ Request(r) \in Windows
        /\ GlobalCeiling \in Nat /\ c \in Nat
    BY <1>1, WindowFacts, CeilingsAssumption DEF TypeOK
  <2>2. /\ rows \in [Windows -> Nat \cup {NoRow}]
        /\ \A w \in Windows : \/ rows[w] = ceiling[w]
                              \/ ceiling[w] = NoRow /\ rows[w] \in Nat
    BY <2>1 DEF InsertOrIgnore
  <2>3. ceiling' = InsertOrIgnore(rows, Request(r), c)
    BY <1>4 DEF InitializeRequest
  <2> HIDE DEF rows
  <2>4. \A w \in Windows : \/ ceiling'[w] = ceiling[w]
                           \/ ceiling[w] = NoRow /\ ceiling'[w] \in Nat
    BY <2>1, <2>2, <2>3 DEF InsertOrIgnore
  <2>5. Ids' = Ids /\ UNCHANGED <<reserved, spent, reservations, held, batch>>
    BY <1>4 DEF InitializeRequest, Ids
  <2>6. Sums'
    BY <2>4, <2>5, SumsUnchanged
  <2>7. \A i \in Ids : /\ Global(reservations[i].opened) \in Windows
                       /\ Request(reservations[i].run) \in Windows
    BY <1>1, RowType, WindowFacts
  <2>8. RowsExist'
    BY <1>1, <2>4, <2>5, <2>7, NullsAssumption DEF Rest, RowsExist
  <2>9. QED
    BY <1>1, <2>5, <2>6, <2>8
    DEF Rest, KeysSound, MigratedUntouched, PendingUncharged, BatchStale
<1>5. ASSUME NEW r \in Runs, NEW a \in Amounts, NEW known \in BOOLEAN,
             Reserve(r, a, known)
      PROVE  Rest' /\ Sums'
  <2>1. Sums'
    BY <1>5, SumsReserve, Zenon
  <2>2. PICK n : n = Len(reservations) + 1
    OBVIOUS
  <2>3. /\ Ids' = Ids \cup {n} /\ n \notin Ids
        /\ \A j \in Ids : reservations'[j] = reservations[j]
        /\ reservations'[n].run = r
        /\ reservations'[n].state = "reserved"
        /\ reservations'[n].key = today
        /\ reservations'[n].age = 0
        /\ reservations'[n].opened = today
        /\ reservations'[n].charged = 0
    BY <1>1, <1>5, <2>2, ReserveRows, Zenon
  <2>4. /\ ceiling' = InsertOrIgnore(ceiling, Global(today), GlobalCeiling)
        /\ ceiling[Request(r)] # NoRow /\ batch' = batch
        /\ held' \subseteq held \cup {n}
    BY <1>5, <2>2 DEF Reserve, Book
  <2>5. /\ ceiling \in [Windows -> Nat \cup {NoRow}]
        /\ Global(today) \in Windows /\ Request(r) \in Windows /\ GlobalCeiling \in Nat
        /\ today \in Nat
    BY <1>1, WindowFacts, CeilingsAssumption DEF TypeOK, Days
  <2>6. /\ ceiling'[Global(today)] # NoRow
        /\ \A w \in Windows : ceiling[w] # NoRow => ceiling'[w] # NoRow
    BY <2>4, <2>5, InsertType
  <2>7. \A i \in Ids : /\ Global(reservations[i].opened) \in Windows
                       /\ Request(reservations[i].run) \in Windows
    BY <1>1, RowType, WindowFacts
  <2>8. RowsExist'
    BY <1>1, <2>3, <2>4, <2>5, <2>6, <2>7 DEF Rest, RowsExist
  <2>9. today # NoKey /\ 0 # NoKey
    BY <2>5, NullsAssumption
  <2>10. (KeysSound /\ MigratedUntouched /\ PendingUncharged)'
    BY <1>1, <2>3, <2>4, <2>9
    DEF Rest, KeysSound, MigratedUntouched, PendingUncharged
  <2>11. BatchStale'
    BY <1>1, <2>3, <2>4 DEF Rest, BatchStale, TypeOK
  <2>12. QED BY <2>1, <2>8, <2>10, <2>11 DEF Rest
<1>6. ASSUME NEW i \in Ids, NEW cost \in Int, Settle(i, cost), i \in held \cup batch,
             held' = held, batch' \subseteq batch
      PROVE  Rest' /\ Sums'
  <2>1. reservations[i].age # NoKey
    BY <1>1, <1>6 DEF Rest, MigratedUntouched
  <2>2. Sums'
    BY <1>6, <2>1, SumsSettle
  <2>3. /\ Ids' = Ids
        /\ \A j \in Ids \ {i} : reservations'[j] = reservations[j]
        /\ reservations'[i].state = "reconciled"
        /\ reservations'[i].run = reservations[i].run
        /\ reservations'[i].key = reservations[i].key
        /\ reservations'[i].age = reservations[i].age
        /\ reservations'[i].opened = reservations[i].opened
    BY <1>1, <1>6, SettleRows, Zenon
  <2>4. ceiling' = ceiling
    BY <1>6 DEF Settle
  <2>5. RowsExist' /\ KeysSound'
    BY <1>1, <2>3, <2>4 DEF Rest, RowsExist, KeysSound
  <2>6. MigratedUntouched' /\ PendingUncharged'
    BY <1>1, <1>6, <2>1, <2>3 DEF Rest, MigratedUntouched, PendingUncharged
  <2>7. BatchStale'
    BY <1>1, <1>6, <2>3 DEF Rest, BatchStale, TypeOK
  <2>8. QED BY <2>2, <2>5, <2>6, <2>7 DEF Rest
<1>7. ASSUME NEW i \in Ids, NEW cost \in Costs, Reconcile(i, cost)
      PROVE  Rest' /\ Sums'
  BY <1>6, <1>7, CostsAssumption DEF Reconcile
<1>8. ASSUME NEW i \in Ids, Forget(i) PROVE Rest' /\ Sums'
  BY <1>3, <1>8 DEF Forget, ledgerVars
<1>9. ASSUME SweepSelect PROVE Rest' /\ Sums'
  BY <1>3, <1>9 DEF SweepSelect, ledgerVars
<1>10. ASSUME NEW i \in Ids, SweepCancel(i) PROVE Rest' /\ Sums'
  BY <1>6, <1>10 DEF SweepCancel
<1>11. ASSUME NEW i \in Ids, SweepSkip(i) PROVE Rest' /\ Sums'
  BY <1>3, <1>11 DEF SweepSkip, ledgerVars
<1>12. ASSUME Restart PROVE Rest' /\ Sums'
  BY <1>3, <1>12 DEF Restart, ledgerVars
<1>13. ASSUME Tick PROVE Rest' /\ Sums'
  <2>1. /\ Ids' = Ids /\ Len(reservations') = Len(reservations)
        /\ UNCHANGED <<ceiling, reserved, spent, held, batch>>
        /\ \A j \in Ids :
             /\ reservations'[j].run = reservations[j].run
             /\ reservations'[j].amount = reservations[j].amount
             /\ reservations'[j].state = reservations[j].state
             /\ reservations'[j].key = reservations[j].key
             /\ reservations'[j].opened = reservations[j].opened
             /\ reservations'[j].charged = reservations[j].charged
             /\ reservations'[j].age = Older(reservations[j].age)
    BY <1>1, <1>13, TickRows DEF Tick, ledgerVars
  <2>2. Sums'
    BY <2>1, SumsUnchanged
  <2>3. \A j \in Ids : /\ reservations[j].age = NoKey => Older(reservations[j].age) = NoKey
                       /\ reservations[j].age # NoKey =>
                            Older(reservations[j].age) \in Nat
                            /\ Older(reservations[j].age) >= reservations[j].age
                            /\ reservations[j].age \in Nat
    BY <1>1, RowType, BoundsAssumption DEF Older, Ages
  <2>4. \A j \in Ids : Older(reservations[j].age) = NoKey <=> reservations[j].age = NoKey
    BY <2>3, NullsAssumption
  <2>5. RowsExist' /\ KeysSound' /\ MigratedUntouched' /\ PendingUncharged'
    BY <1>1, <2>1, <2>4
    DEF Rest, RowsExist, KeysSound, MigratedUntouched, PendingUncharged
  <2>6. ASSUME NEW j \in batch'
        PROVE  reservations'[j].age # NoKey /\ reservations'[j].age > StaleAge
    <3>1. j \in Ids /\ reservations[j].age # NoKey /\ reservations[j].age > StaleAge
      BY <1>1, <2>1 DEF Rest, BatchStale, TypeOK
    <3>2. QED BY <2>1, <2>3, <2>4, <3>1, BoundsAssumption
  <2>7. QED BY <2>2, <2>5, <2>6 DEF Rest, BatchStale
<1>14. CASE UNCHANGED vars
  BY <1>3, <1>14 DEF vars, ledgerVars
<1>15. QED
  BY <1>4, <1>5, <1>7, <1>8, <1>9, <1>10, <1>11, <1>12, <1>13, <1>14 DEF Next

(* IInv holds in every reachable state. *)
THEOREM Invariance == Spec => []IInv
<1>1. Init => IInv
  BY InitInvariant
<1>2. IInv /\ [Next]_vars => IInv'
  BY NextInvariant
<1>3. QED BY <1>1, <1>2, PTL DEF Spec

(* The reserved counter of every daily and every request window is exactly *)
(* the sum of the pending reservations made in it, whatever interleaving   *)
(* of owners, sweeps, midnights and restarts led there.                    *)
THEOREM ReservedConserved == Spec => []ReservedIsOutstanding
<1>1. IInv => ReservedIsOutstanding
  BY DEF IInv
<1>2. QED BY <1>1, Invariance, PTL

(* The spent counter is exactly the sum of what the settlements recorded.  *)
THEOREM SpentConserved == Spec => []SpentIsCharged
<1>1. IInv => SpentIsCharged
  BY DEF IInv
<1>2. QED BY <1>1, Invariance, PTL

(* A window exceeds its ceiling by no more than its calls overran their    *)
(* own reservations.                                                       *)
THEOREM CeilingRespected == Spec => []CeilingHolds
<1>1. IInv => CeilingHolds
  BY DEF IInv
<1>2. QED BY <1>1, Invariance, PTL

-----------------------------------------------------------------------------
(* The action properties: only three actions touch the table's rows.       *)

LEMMA RowSteps ==
  ASSUME IInv, Next
  PROVE  \/ UNCHANGED <<spent, reservations>>
         \/ spent' = spent /\ \A j \in Ids :
              /\ reservations'[j].state = reservations[j].state
              /\ reservations'[j].charged = reservations[j].charged
         \/ \E i \in Ids, cost \in Int :
              /\ Settle(i, cost)
              /\ i \in held \/ (i \in batch /\ cost = 0)
<1>1. TypeOK
  BY DEF IInv
<1>2. ASSUME NEW r \in Runs, NEW a \in Amounts, NEW known \in BOOLEAN,
             Reserve(r, a, known)
      PROVE  spent' = spent /\ \A j \in Ids : reservations'[j] = reservations[j]
  <2>1. \A j \in Ids : reservations'[j] = reservations[j]
    BY <1>1, <1>2, ReserveRows, Zenon
  <2>2. spent' = spent
    BY <1>2 DEF Reserve, Book
  <2>3. QED BY <2>1, <2>2
<1>3. ASSUME Tick
      PROVE  spent' = spent /\ \A j \in Ids :
               /\ reservations'[j].state = reservations[j].state
               /\ reservations'[j].charged = reservations[j].charged
  BY <1>1, <1>3, TickRows DEF Tick, ledgerVars
<1>4. ASSUME NEW i \in Ids, NEW cost \in Costs, Reconcile(i, cost)
      PROVE  cost \in Int /\ Settle(i, cost) /\ i \in held
  BY <1>4, CostsAssumption DEF Reconcile
<1>5. ASSUME NEW i \in Ids, SweepCancel(i)
      PROVE  Settle(i, 0) /\ i \in batch
  BY <1>5 DEF SweepCancel
<1>6. CASE \/ \E r \in Runs, c \in RequestCeilings : InitializeRequest(r, c)
           \/ \E i \in Ids : Forget(i)
           \/ SweepSelect
           \/ \E i \in Ids : SweepSkip(i)
           \/ Restart
  BY <1>6 DEF InitializeRequest, Forget, SweepSelect, SweepSkip, Restart, ledgerVars
<1>7. CASE \E r \in Runs, a \in Amounts, known \in BOOLEAN : Reserve(r, a, known)
  BY <1>2, <1>7
<1>8. CASE \E i \in Ids, cost \in Costs : Reconcile(i, cost)
  BY <1>4, <1>8
<1>9. CASE \E i \in Ids : SweepCancel(i)
  BY <1>5, <1>9
<1>10. QED BY <1>3, <1>6, <1>7, <1>8, <1>9 DEF Next

(* A reservation is settled once and spent money is never un-booked. *)
THEOREM SettledOnceTheorem == Spec => SettledOnce
<1>1. IInv /\ [Next]_vars => [SpentOnlyGrows /\ \A i \in Ids : StaysSettled(i)]_vars
  <2> SUFFICES ASSUME IInv, Next
               PROVE  SpentOnlyGrows /\ \A j \in Ids : StaysSettled(j)
    OBVIOUS
  <2>1. \A w \in Windows : spent[w] \in Int
    BY DEF IInv, TypeOK
  <2>2. CASE spent' = spent /\ \A j \in Ids :
               /\ reservations'[j].state = reservations[j].state
               /\ reservations'[j].charged = reservations[j].charged
    BY <2>1, <2>2 DEF SpentOnlyGrows, StaysSettled
  <2>3. ASSUME NEW i \in Ids, NEW cost \in Int, Settle(i, cost)
        PROVE  SpentOnlyGrows /\ \A j \in Ids : StaysSettled(j)
    <3>1. TypeOK
      BY DEF IInv
    <3>2. /\ reservations[i].state = "reserved"
          /\ \A j \in Ids \ {i} : reservations'[j] = reservations[j]
      BY <2>3, <3>1, SettleRows, Zenon
    <3>3. \A j \in Ids : StaysSettled(j)
      BY <3>2 DEF StaysSettled
    <3>4. Clamp(cost) \in Nat
      BY ClampNat
    <3>5. spent' = Post(spent, {SettleWindow(i), Request(reservations[i].run)}, Clamp(cost))
      BY <2>3 DEF Settle
    <3>6. SpentOnlyGrows
      BY <2>1, <3>4, <3>5 DEF SpentOnlyGrows, Post
    <3>7. QED BY <3>3, <3>6
  <2>4. QED BY <2>2, <2>3, RowSteps
<1>2. QED BY <1>1, Invariance, PTL DEF Spec, SettledOnce

(* What is not its owner's doing happens only to a stale reservation. *)
THEOREM OnlyStaleAreSweptTheorem == Spec => OnlyStaleAreSwept
<1>1. IInv /\ [Next]_vars => [\A i \in Ids : OwnedOrStale(i)]_vars
  <2> SUFFICES ASSUME IInv, Next PROVE \A j \in Ids : OwnedOrStale(j)
    OBVIOUS
  <2>1. CASE \A j \in Ids : reservations'[j].state = reservations[j].state
    BY <2>1 DEF OwnedOrStale
  <2>2. ASSUME NEW i \in Ids, NEW cost \in Int, Settle(i, cost),
               i \in held \/ (i \in batch /\ cost = 0)
        PROVE  \A j \in Ids : OwnedOrStale(j)
    <3>1. TypeOK
      BY DEF IInv
    <3>2. /\ reservations'[i].charged = Clamp(cost)
          /\ \A j \in Ids \ {i} : reservations'[j] = reservations[j]
      BY <2>2, <3>1, SettleRows, Zenon
    <3>3. i \in batch => reservations[i].age # NoKey /\ reservations[i].age > StaleAge
      BY DEF IInv, BatchStale
    <3>4. Clamp(0) = 0
      BY DEF Clamp
    <3>5. QED BY <2>2, <3>2, <3>3, <3>4 DEF OwnedOrStale
  <2>3. QED BY <2>1, <2>2, RowSteps
<1>2. QED BY <1>1, Invariance, PTL DEF Spec, OnlyStaleAreSwept
=============================================================================
