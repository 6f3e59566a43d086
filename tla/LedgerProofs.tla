------------------------------ MODULE LedgerProofs ------------------------------
(***************************************************************************)
(* What apply_execution does to a position, for every price and quantity;    *)
(* how a sum changes with one of its summands; and the ledger, for every set *)
(* of accounts, instruments, prices and quantities and any number of         *)
(* executions.                                                               *)
(***************************************************************************)
EXTENDS Ledger, FiniteSetTheorems, WellFoundedInduction, TLAPS

--------------------------------------------------------------------------------
(* One execution *)

Execution == [price : Int, quantity : Int]

LEMMA SignFacts ==
  ASSUME NEW n \in Int
  PROVE  /\ Magnitude(n) \in Nat /\ Signum(n) \in {-1, 0, 1}
         /\ Magnitude(n) * Signum(n) = n
         /\ Magnitude(n) = 0 <=> n = 0
  BY DEF Magnitude, Signum

LEMMA BasisType ==
  ASSUME NEW p \in Position, p.quantity # 0
  PROVE  CostBasis(p) \in Int
  <1>1. Magnitude(p.quantity) \in Nat /\ Magnitude(p.quantity) > 0
    BY SignFacts DEF Position
  <1>2. Signum(p.quantity) * p.cost \in Int
    BY SignFacts DEF Position
  <1> QED
    BY <1>1, <1>2 DEF CostBasis

\* The closing and the opening part make up the execution; the closing part
\* never takes the position beyond flat.
LEMMA PartsOfExecution ==
  ASSUME NEW p \in Position, NEW e \in Execution
  PROVE  /\ OpeningQuantity(p, e) \in Int
         /\ ~Closes(p, e) => OpeningQuantity(p, e) = e.quantity
         /\ Closes(p, e) =>
              /\ ClosingQuantity(p, e) \in Int
              /\ ClosingQuantity(p, e) + OpeningQuantity(p, e) = e.quantity
              /\ OpeningQuantity(p, e) # 0 => p.quantity + ClosingQuantity(p, e) = 0
  BY DEF Position, Execution, Closes, ClosingQuantity, OpeningQuantity, Excess, Magnitude, Signum

LEMMA ClosedFacts ==
  ASSUME NEW p \in Position, NEW e \in Execution, Closes(p, e)
  PROVE  /\ Closed(p, e) \in Position
         /\ Closed(p, e).quantity = p.quantity + ClosingQuantity(p, e)
         /\ Closed(p, e).quantity = 0 => Closed(p, e).cost = 0
  <1>1. ClosingQuantity(p, e) \in Int /\ CostBasis(p) \in Int
    BY PartsOfExecution, BasisType DEF Closes
  <1>2. /\ p.quantity \in Int /\ p.cost \in Int /\ p.closedGain \in Int /\ e.price \in Int
    BY DEF Position, Execution
  <1> DEFINE q == p.quantity + ClosingQuantity(p, e)
             c == IF q = 0 THEN 0 ELSE p.cost + ClosingQuantity(p, e) * CostBasis(p)
             g == p.closedGain + (-ClosingQuantity(p, e)) * (e.price - CostBasis(p))
  <1>3. q \in Int /\ c \in Int /\ g \in Int
    BY <1>1, <1>2
  <1>4. Closed(p, e) = [p EXCEPT !.quantity = q, !.cost = c, !.closedGain = g]
    BY DEF Closed
  <1>5. q = 0 => c = 0
    OBVIOUS
  <1>6. q = p.quantity + ClosingQuantity(p, e)
    OBVIOUS
  <1> HIDE DEF q, c, g
  <1> QED
    BY <1>3, <1>4, <1>5, <1>6 DEF Position

(* An execution changes the position by exactly its quantity, whether it opens,  *)
(* adds, reduces, closes or turns the position round; a flat position costs      *)
(* nothing, if that was so before.                                               *)
THEOREM ExecutionApplied ==
  ASSUME NEW p \in Position, NEW e \in Execution
  PROVE  /\ ApplyExecution(p, e) \in Position
         /\ ApplyExecution(p, e).quantity = p.quantity + e.quantity
         /\ (p.quantity = 0 => p.cost = 0)
              => (ApplyExecution(p, e).quantity = 0 => ApplyExecution(p, e).cost = 0)
  <1> DEFINE base == IF Closes(p, e) THEN Closed(p, e) ELSE p
             opening == OpeningQuantity(p, e)
  <1>1. opening \in Int /\ e.price \in Int /\ e.quantity \in Int /\ p.quantity \in Int
    BY PartsOfExecution DEF Execution, Position
  <1>2. /\ base \in Position
        /\ (p.quantity = 0 => p.cost = 0) => (base.quantity = 0 => base.cost = 0)
    BY ClosedFacts
  <1>3. base.quantity + opening = p.quantity + e.quantity
    <2>1. CASE Closes(p, e)
      BY <1>1, <2>1, ClosedFacts, PartsOfExecution
    <2>2. CASE ~Closes(p, e)
      BY <1>1, <2>2, PartsOfExecution
    <2> QED
      BY <2>1, <2>2
  <1>4. base.quantity + opening = 0 => base.quantity = 0 /\ opening = 0
    <2>1. CASE Closes(p, e)
      BY <1>1, <1>2, <2>1, ClosedFacts, PartsOfExecution DEF Position
    <2>2. CASE ~Closes(p, e)
      BY <1>1, <2>2, PartsOfExecution DEF Closes, Signum
    <2> QED
      BY <2>1, <2>2
  <1>5. ApplyExecution(p, e) = [base EXCEPT !.quantity = @ + opening, !.cost = @ + opening * e.price]
    BY DEF ApplyExecution
  <1> HIDE DEF base, opening
  <1>6. /\ base.quantity + opening \in Int /\ base.cost + opening * e.price \in Int
        /\ opening = 0 => base.cost + opening * e.price = base.cost
    BY <1>1, <1>2 DEF Position
  <1> QED
    BY <1>2, <1>3, <1>4, <1>5, <1>6 DEF Position

\* The rounding error that is cleared when the closing part leaves the position flat.
RoundingCleared(p, e) ==
  IF Closes(p, e) /\ p.quantity + ClosingQuantity(p, e) = 0
  THEN p.cost + ClosingQuantity(p, e) * CostBasis(p) ELSE 0

LEMMA Distribute ==
  ASSUME NEW a \in Int, NEW b \in Int, NEW c \in Int
  PROVE  /\ (-a) * (b - c) = a * c - a * b
         /\ (b + c) * a = b * a + c * a
  OBVIOUS

LEMMA DivisionRest ==
  ASSUME NEW n \in Int, NEW m \in Nat, m > 0
  PROVE  n - m * (n \div m) \in 0..(m - 1)
  OBVIOUS

(* The books balance at every execution: what it costs is added to the cost of   *)
(* the position less its gain, but for a rounding error of less than one unit of *)
(* money for each unit closed, which is cleared when the position is flat.       *)
THEOREM MoneyConserved ==
  ASSUME NEW p \in Position, NEW e \in Execution
  PROVE  /\ ApplyExecution(p, e).cost - ApplyExecution(p, e).closedGain
              = (p.cost - p.closedGain) + ExecutionCost(e) - RoundingCleared(p, e)
         /\ RoundingCleared(p, e) # 0
              => Signum(p.quantity) * RoundingCleared(p, e) \in 0..(Magnitude(p.quantity) - 1)
  <1> DEFINE closing == ClosingQuantity(p, e)
             opening == OpeningQuantity(p, e)
             basis == CostBasis(p)
  <1>0. /\ e.price \in Int /\ e.quantity \in Int /\ p.quantity \in Int
        /\ p.cost \in Int /\ p.closedGain \in Int /\ opening \in Int
    BY PartsOfExecution DEF Execution, Position
  <1>1. CASE ~Closes(p, e)
    <2>1. opening = e.quantity /\ RoundingCleared(p, e) = 0
      BY <1>1, PartsOfExecution DEF RoundingCleared
    <2>2. e.quantity * e.price = e.price * e.quantity /\ e.quantity * e.price \in Int
      BY <1>0
    <2> HIDE DEF opening
    <2>3. ApplyExecution(p, e) =
            [p EXCEPT !.quantity = @ + opening, !.cost = @ + opening * e.price]
      BY <1>1 DEF ApplyExecution, opening
    <2> QED
      BY <1>0, <2>1, <2>2, <2>3 DEF Position, ExecutionCost
  <1>2. CASE Closes(p, e)
    <2>1. closing \in Int /\ basis \in Int /\ closing + opening = e.quantity
      BY <1>2, PartsOfExecution, BasisType DEF Closes
    <2> DEFINE left == p.quantity + closing
               c == IF left = 0 THEN 0 ELSE p.cost + closing * basis
               g == p.closedGain + (-closing) * (e.price - basis)
    <2>2. /\ ApplyExecution(p, e).cost = c + opening * e.price
          /\ ApplyExecution(p, e).closedGain = g
      <3>1. Closed(p, e) = [p EXCEPT !.quantity = left, !.cost = c, !.closedGain = g]
        BY DEF Closed
      <3>2. Closed(p, e).cost = c /\ Closed(p, e).closedGain = g /\ Closed(p, e) \in Position
        BY <1>2, <3>1, ClosedFacts DEF Position
      <3>3. ApplyExecution(p, e) =
              [Closed(p, e) EXCEPT !.quantity = @ + opening, !.cost = @ + opening * e.price]
        BY <1>2 DEF ApplyExecution
      <3> HIDE DEF c, g, left, opening
      <3> QED
        BY <3>2, <3>3 DEF Position
    <2>3. c = (p.cost + closing * basis) - RoundingCleared(p, e)
      BY <1>0, <1>2, <2>1 DEF RoundingCleared
    <2>4. /\ (-closing) * (e.price - basis) = closing * basis - closing * e.price
          /\ (closing + opening) * e.price = closing * e.price + opening * e.price
      BY <1>0, <2>1, Distribute
    <2>5. RoundingCleared(p, e) \in Int
      BY <1>0, <2>1 DEF RoundingCleared
    <2>6. ExecutionCost(e) = closing * e.price + opening * e.price
      BY <1>0, <2>1, <2>4 DEF ExecutionCost
    <2>7. ApplyExecution(p, e).cost - ApplyExecution(p, e).closedGain
            = (p.cost - p.closedGain) + ExecutionCost(e) - RoundingCleared(p, e)
      <3>1. closing * basis \in Int /\ closing * e.price \in Int /\ opening * e.price \in Int
        BY <1>0, <2>1
      <3>2. g = p.closedGain + (closing * basis - closing * e.price)
        BY <2>4
      <3> HIDE DEF c, g, closing, opening, basis
      <3> QED
        BY <1>0, <2>2, <2>3, <2>5, <2>6, <3>1, <3>2
    <2>8. RoundingCleared(p, e) # 0
            => Signum(p.quantity) * RoundingCleared(p, e) \in 0..(Magnitude(p.quantity) - 1)
      <3> DEFINE s == Signum(p.quantity)
                 m == Magnitude(p.quantity)
      <3> SUFFICES ASSUME p.quantity + closing = 0
                   PROVE  s * (p.cost + closing * basis) \in 0..(m - 1)
        BY DEF RoundingCleared
      <3>1. s \in {-1, 1} /\ m \in Nat /\ m > 0 /\ p.quantity = m * s
        BY <1>0, <1>2, SignFacts DEF Closes, Signum
      <3>2. closing = -(m * s)
        BY <1>0, <2>1, <3>1
      <3>3. basis = (s * p.cost) \div m
        BY DEF CostBasis
      <3>4. s * p.cost - m * basis \in 0..(m - 1)
        <4>1. s * p.cost \in Int
          BY <1>0, <3>1
        <4> HIDE DEF basis, s, m
        <4> QED
          BY <3>1, <3>3, <4>1, DivisionRest
      <3>5. s * (p.cost + closing * basis) = s * p.cost - m * basis
        <4> HIDE DEF basis, s, m, closing
        <4>1. CASE s = 1
          BY <1>0, <2>1, <3>1, <3>2, <4>1
        <4>2. CASE s = -1
          BY <1>0, <2>1, <3>1, <3>2, <4>2
        <4> QED
          BY <3>1, <4>1, <4>2
      <3> QED
        BY <3>4, <3>5
    <2> QED
      BY <2>7, <2>8
  <1> QED
    BY <1>1, <1>2

--------------------------------------------------------------------------------
(* Sums *)

\* Induction over the naturals, as the existence of a least counterexample.
LEMMA LeastElement ==
  ASSUME NEW S \in SUBSET Nat, S # {}
  PROVE  \E n \in S : \A m \in S : n <= m
  <1>1. IsWellFoundedOn(OpToRel(<, Nat), Nat)
    BY NatLessThanWellFounded
  <1>2. PICK n \in S : \A m \in S : ~ (<<m, n>> \in OpToRel(<, Nat))
    BY <1>1, WFMin
  <1>3. \A m \in S : ~(m < n)
    BY <1>2 DEF OpToRel
  <1> QED
    BY <1>3

First(T) == CHOOSE x \in T : TRUE

LEMMA Smaller ==
  ASSUME NEW S, IsFiniteSet(S), NEW T \in SUBSET S
  PROVE  /\ IsFiniteSet(T) /\ Cardinality(T) \in Nat /\ Cardinality(T) <= Cardinality(S)
         /\ Cardinality(T) = 0 <=> T = {}
         /\ T # {} => /\ First(T) \in T /\ T \ {First(T)} \in SUBSET S
                      /\ Cardinality(T \ {First(T)}) = Cardinality(T) - 1
  <1>1. IsFiniteSet(T) /\ Cardinality(T) \in Nat /\ Cardinality(T) <= Cardinality(S)
    BY FS_Subset, FS_CardinalityType
  <1>2. Cardinality(T) = 0 <=> T = {}
    BY <1>1, FS_EmptySet
  <1>3. T # {} => First(T) \in T
    BY DEF First
  <1> QED
    BY <1>1, <1>2, <1>3, FS_RemoveElement

\* s gives the sums of f over the subsets of S with at most n elements.
IsSum(s, f, S, n) ==
  /\ s[{}] = 0
  /\ \A T \in SUBSET S :
       Cardinality(T) <= n => /\ s[T] \in Int
                              /\ T # {} => s[T] = f[First(T)] + s[T \ {First(T)}]

LEMMA SumExists ==
  ASSUME NEW S, IsFiniteSet(S), NEW f \in [S -> Int]
  PROVE  \E s : IsSum(s, f, S, Cardinality(S))
  <1> DEFINE N == Cardinality(S)
             Bad == {n \in 0..N : ~ \E s : IsSum(s, f, S, n)}
  <1>0. N \in Nat
    BY FS_CardinalityType
  <1> HIDE DEF N
  <1>1. SUFFICES ASSUME Bad # {} PROVE FALSE
    BY <1>0 DEF N
  <1>2. PICK m \in Bad : \A k \in Bad : m <= k
    <2>1. Bad \in SUBSET Nat
      BY <1>0
    <2> QED
      BY <1>1, <2>1, LeastElement
  <1>3. m # 0
    <2> DEFINE z == [T \in SUBSET S |-> 0]
    <2>1. ASSUME NEW T \in SUBSET S, Cardinality(T) <= 0 PROVE T = {}
      <3>1. Cardinality(T) \in Nat /\ (Cardinality(T) = 0 <=> T = {})
        BY Smaller
      <3> QED
        BY <2>1, <3>1
    <2>2. IsSum(z, f, S, 0)
      BY <2>1 DEF IsSum
    <2> QED
      BY <2>2
  <1>4. m \in 1..N /\ m - 1 \in 0..N /\ m - 1 \notin Bad
    BY <1>0, <1>2, <1>3
  <1>5. PICK s : IsSum(s, f, S, m - 1)
    BY <1>4
  <1> DEFINE t == [T \in SUBSET S |->
                     IF Cardinality(T) = m THEN f[First(T)] + s[T \ {First(T)}] ELSE s[T]]
  <1>6. IsSum(t, f, S, m)
    <2>1. t[{}] = 0
      BY <1>4, <1>5, FS_EmptySet DEF IsSum
    <2>2. ASSUME NEW T \in SUBSET S, Cardinality(T) <= m
          PROVE  /\ t[T] \in Int
                 /\ T # {} => t[T] = f[First(T)] + t[T \ {First(T)}]
      <3> DEFINE U == T \ {First(T)}
      <3>1. /\ Cardinality(T) \in Nat /\ (Cardinality(T) = 0 <=> T = {})
            /\ T # {} => First(T) \in S /\ U \in SUBSET S /\ Cardinality(U) = Cardinality(T) - 1
        BY Smaller
      <3>2. T # {} => f[First(T)] \in Int
        BY <3>1
      <3> HIDE DEF U
      <3>3. T # {} => Cardinality(U) <= m - 1 /\ Cardinality(U) # m
        BY <1>4, <2>2, <3>1
      <3>4. T # {} => t[U] = s[U] /\ s[U] \in Int
        BY <1>5, <3>1, <3>3 DEF IsSum
      <3>5. CASE Cardinality(T) = m
        BY <1>4, <3>1, <3>2, <3>4, <3>5 DEF U
      <3>6. CASE Cardinality(T) # m
        <4>1. Cardinality(T) <= m - 1
          BY <1>4, <2>2, <3>1, <3>6
        <4>2. t[T] = s[T]
          BY <3>6
        <4> QED
          BY <1>5, <3>4, <4>1, <4>2 DEF IsSum, U
      <3> QED
        BY <3>5, <3>6
    <2> HIDE DEF t
    <2> QED
      BY <2>1, <2>2 DEF IsSum
  <1> HIDE DEF t
  <1> QED
    BY <1>2, <1>6

LEMMA SumIsSum ==
  ASSUME NEW S, IsFiniteSet(S), NEW f \in [S -> Int]
  PROVE  \E s : IsSum(s, f, S, Cardinality(S)) /\ SumOver(f, S) = s[S]
  <1> DEFINE Step(g) ==
               [T \in SUBSET S |->
                  IF T = {} THEN 0 ELSE LET x == CHOOSE x \in T : TRUE IN f[x] + g[T \ {x}]]
             sum[T \in SUBSET S] ==
               IF T = {} THEN 0 ELSE LET x == CHOOSE x \in T : TRUE IN f[x] + sum[T \ {x}]
             N == Cardinality(S)
  <1>0. N \in Nat /\ \A T \in SUBSET S : Cardinality(T) <= N
    BY Smaller, FS_CardinalityType
  <1>1. PICK s : IsSum(s, f, S, N)
    BY SumExists
  <1> DEFINE t == [T \in SUBSET S |-> s[T]]
  <1>2. t = Step(t)
    <2>1. ASSUME NEW T \in SUBSET S
          PROVE  t[T] = IF T = {} THEN 0 ELSE f[First(T)] + t[T \ {First(T)}]
      <3>1. T # {} => T \ {First(T)} \in SUBSET S
        OBVIOUS
      <3> QED
        BY <1>0, <1>1, <3>1 DEF IsSum
    <2> QED
      BY <2>1 DEF First
  <1>3. sum = Step(sum)
    BY <1>2
  <1>4. SumOver(f, S) = sum[S]
    BY DEF SumOver
  <1> HIDE DEF sum, t
  <1>5. ASSUME NEW T \in SUBSET S
        PROVE  sum[T] = IF T = {} THEN 0 ELSE f[First(T)] + sum[T \ {First(T)}]
    BY <1>3 DEF First
  <1>6. \A T \in SUBSET S : sum[T] = s[T]
    <2> DEFINE Bad == {n \in 0..N : \E T \in SUBSET S : Cardinality(T) = n /\ sum[T] # s[T]}
    <2>1. Bad \in SUBSET Nat
      BY <1>0
    <2>2. ASSUME Bad # {} PROVE FALSE
      <3>1. PICK m \in Bad : \A k \in Bad : m <= k
        BY <2>1, <2>2, LeastElement
      <3>2. PICK T \in SUBSET S : Cardinality(T) = m /\ sum[T] # s[T]
        BY <3>1
      <3> DEFINE U == T \ {First(T)}
      <3>3. T # {}
        BY <1>1, <1>5, <3>2 DEF IsSum
      <3>4. U \in SUBSET S /\ Cardinality(U) = m - 1 /\ m - 1 \in 0..N
        <4>1. m \in 0..N /\ Cardinality(T) \in Nat /\ Cardinality(T) # 0
          BY <3>3, Smaller
        <4> QED
          BY <1>0, <3>2, <3>3, <4>1, Smaller
      <3>5. sum[U] = s[U]
        BY <1>0, <3>1, <3>4
      <3> QED
        BY <1>0, <1>1, <1>5, <3>2, <3>3, <3>5 DEF IsSum
    <2>3. ASSUME NEW T \in SUBSET S PROVE sum[T] = s[T]
      <3>1. Cardinality(T) \in 0..N
        <4>1. Cardinality(T) \in Nat /\ Cardinality(T) <= N
          BY <1>0, Smaller
        <4> QED
          BY <1>0, <4>1
      <3> QED
        BY <2>2, <3>1
    <2> QED
      BY <2>3
  <1> QED
    BY <1>1, <1>4, <1>6

LEMMA SumType ==
  ASSUME NEW S, IsFiniteSet(S), NEW f \in [S -> Int]
  PROVE  SumOver(f, S) \in Int
  <1>1. PICK s : IsSum(s, f, S, Cardinality(S)) /\ SumOver(f, S) = s[S]
    BY SumIsSum
  <1>2. S \in SUBSET S /\ Cardinality(S) <= Cardinality(S)
    BY FS_CardinalityType
  <1> QED
    BY <1>1, <1>2 DEF IsSum

\* A sum of zeros.
LEMMA SumOfZeros ==
  ASSUME NEW S, IsFiniteSet(S)
  PROVE  SumOver([x \in S |-> 0], S) = 0
  <1> DEFINE f == [x \in S |-> 0]
             N == Cardinality(S)
             Bad(s) == {n \in 0..N : \E T \in SUBSET S : Cardinality(T) = n /\ s[T] # 0}
  <1>0. N \in Nat /\ \A T \in SUBSET S : Cardinality(T) <= N
    BY Smaller, FS_CardinalityType
  <1>1. PICK s : IsSum(s, f, S, N) /\ SumOver(f, S) = s[S]
    BY SumIsSum
  <1>2. ASSUME Bad(s) # {} PROVE FALSE
    <2>1. PICK m \in Bad(s) : \A k \in Bad(s) : m <= k
      <3>1. Bad(s) \in SUBSET Nat
        BY <1>0
      <3> QED
        BY <1>2, <3>1, LeastElement
    <2>2. PICK T \in SUBSET S : Cardinality(T) = m /\ s[T] # 0
      BY <2>1
    <2> DEFINE U == T \ {First(T)}
    <2>3. T # {}
      BY <1>1, <2>2 DEF IsSum
    <2>4. /\ U \in SUBSET S /\ First(T) \in S /\ Cardinality(U) = m - 1 /\ m - 1 \in 0..N
      <3>1. m \in 0..N /\ Cardinality(T) \in Nat /\ Cardinality(T) # 0
        BY <2>3, Smaller
      <3> QED
        BY <1>0, <2>2, <2>3, <3>1, Smaller
    <2>5. s[U] = 0
      BY <1>0, <2>1, <2>4
    <2> QED
      BY <1>0, <1>1, <2>2, <2>3, <2>4, <2>5 DEF IsSum
  <1>3. N \in 0..N
    BY <1>0
  <1> QED
    BY <1>1, <1>2, <1>3

\* A sum changes by what one summand changes.
LEMMA SumChanges ==
  ASSUME NEW S, IsFiniteSet(S), NEW f \in [S -> Int], NEW g \in [S -> Int],
         NEW x \in S, NEW d \in Int, g[x] = f[x] + d, \A y \in S : y # x => g[y] = f[y]
  PROVE  SumOver(g, S) = SumOver(f, S) + d
  <1> DEFINE N == Cardinality(S)
             By(T) == IF x \in T THEN d ELSE 0
             Bad(s, r) == {n \in 0..N : \E T \in SUBSET S :
                             Cardinality(T) = n /\ r[T] # s[T] + By(T)}
  <1>0. N \in Nat /\ \A T \in SUBSET S : Cardinality(T) <= N
    BY Smaller, FS_CardinalityType
  <1>1. PICK s : IsSum(s, f, S, N) /\ SumOver(f, S) = s[S]
    BY SumIsSum
  <1>2. PICK r : IsSum(r, g, S, N) /\ SumOver(g, S) = r[S]
    BY SumIsSum
  <1>3. ASSUME Bad(s, r) # {} PROVE FALSE
    <2>1. PICK m \in Bad(s, r) : \A k \in Bad(s, r) : m <= k
      <3>1. Bad(s, r) \in SUBSET Nat
        BY <1>0
      <3> QED
        BY <1>3, <3>1, LeastElement
    <2>2. PICK T \in SUBSET S : Cardinality(T) = m /\ r[T] # s[T] + By(T)
      BY <2>1
    <2> DEFINE U == T \ {First(T)}
    <2>3. T # {}
      <3>1. s[{}] = 0 /\ r[{}] = 0 /\ By({}) = 0
        BY <1>1, <1>2 DEF IsSum
      <3> QED
        BY <2>2, <3>1
    <2>4. /\ U \in SUBSET S /\ First(T) \in T /\ First(T) \in S
          /\ Cardinality(U) = m - 1 /\ m - 1 \in 0..N
      <3>1. m \in 0..N /\ Cardinality(T) \in Nat /\ Cardinality(T) # 0
        BY <2>3, Smaller
      <3> QED
        BY <1>0, <2>2, <2>3, <3>1, Smaller
    <2>5. r[U] = s[U] + By(U)
      BY <1>0, <2>1, <2>4
    <2>6. /\ r[T] = g[First(T)] + r[U] /\ s[T] = f[First(T)] + s[U]
          /\ s[U] \in Int /\ r[U] \in Int
      BY <1>0, <1>1, <1>2, <2>3, <2>4 DEF IsSum
    <2>7. f[First(T)] \in Int /\ g[First(T)] \in Int
      BY <2>4
    <2>8. CASE First(T) = x
      BY <2>2, <2>4, <2>5, <2>6, <2>7, <2>8
    <2>9. CASE First(T) # x
      <3>1. By(U) = By(T) /\ By(T) \in Int /\ g[First(T)] = f[First(T)]
        BY <2>4, <2>9
      <3> QED
        BY <2>2, <2>5, <2>6, <2>7, <3>1
    <2> QED
      BY <2>8, <2>9
  <1>4. N \in 0..N /\ S \in SUBSET S
    BY <1>0
  <1> QED
    BY <1>1, <1>2, <1>3, <1>4

--------------------------------------------------------------------------------
(* The largest and the smallest of a finite set *)

LEMMA FiniteMaxMin ==
  ASSUME NEW S \in SUBSET Int, IsFiniteSet(S), S # {}
  PROVE  /\ \E x \in S : \A y \in S : x >= y
         /\ \E x \in S : \A y \in S : x <= y
  <1> DEFINE N == Cardinality(S)
             HasBoth(T) == /\ \E x \in T : \A y \in T : x >= y
                           /\ \E x \in T : \A y \in T : x <= y
             Bad == {n \in 1..N : \E T \in SUBSET S : Cardinality(T) = n /\ ~HasBoth(T)}
  <1>0. N \in Nat /\ N > 0
    BY Smaller, FS_CardinalityType, FS_EmptySet
  <1>1. ASSUME Bad # {} PROVE FALSE
    <2>1. PICK m \in Bad : \A k \in Bad : m <= k
      <3>1. Bad \in SUBSET Nat
        BY <1>0
      <3> QED
        BY <1>1, <3>1, LeastElement
    <2>2. PICK T \in SUBSET S : Cardinality(T) = m /\ ~HasBoth(T)
      BY <2>1
    <2> DEFINE f == First(T)
               U == T \ {f}
    <2>3. m \in 1..N /\ Cardinality(T) # 0
      BY <1>0, <2>1, <2>2
    <2>4. T # {} /\ f \in T /\ f \in Int /\ U \in SUBSET S /\ Cardinality(U) = m - 1
      BY <2>2, <2>3, Smaller
    <2>5. CASE U = {}
      <3>1. T = {f}
        BY <2>4, <2>5
      <3> QED
        BY <2>2, <2>4, <3>1
    <2>6. CASE U # {}
      <3>1. Cardinality(U) # 0
        <4>1. \A V \in SUBSET S : Cardinality(V) = 0 => V = {}
          BY Smaller
        <4> HIDE DEF U
        <4> QED
          BY <2>4, <2>6, <4>1
      <3>2. m - 1 \in 1..N /\ m - 1 \notin Bad
        BY <1>0, <2>1, <2>3, <2>4, <3>1
      <3>3. HasBoth(U)
        BY <2>4, <3>2
      <3>4. PICK x \in U, z \in U : \A y \in U : x >= y /\ z <= y
        BY <3>3
      <3>5. x \in Int /\ z \in Int /\ x \in T /\ z \in T /\ \A y \in T : y = f \/ y \in U
        BY <2>4, <3>4
      <3>6. \E v \in T : \A y \in T : v >= y
        <4>1. CASE x >= f
          BY <3>4, <3>5, <4>1
        <4>2. CASE f >= x
          BY <2>4, <3>4, <3>5, <4>2
        <4> QED
          BY <2>4, <3>5, <4>1, <4>2
      <3>7. \E v \in T : \A y \in T : v <= y
        <4>1. CASE z <= f
          BY <3>4, <3>5, <4>1
        <4>2. CASE f <= z
          BY <2>4, <3>4, <3>5, <4>2
        <4> QED
          BY <2>4, <3>5, <4>1, <4>2
      <3> QED
        BY <2>2, <3>6, <3>7
    <2> QED
      BY <2>5, <2>6
  <1>2. N \in 1..N /\ S \in SUBSET S
    BY <1>0
  <1> QED
    BY <1>1, <1>2

LEMMA BoundFacts ==
  /\ LowestPrice \in Int /\ HighestPrice \in Int /\ LargestFill \in Nat
  /\ \A x \in Prices : LowestPrice <= x /\ x <= HighestPrice
  /\ \A q \in Quantities : Magnitude(q) <= LargestFill
  <1> DEFINE M == {Magnitude(q) : q \in Quantities}
             f == [q \in Quantities |-> Magnitude(q)]
  <1>1. M \in SUBSET Nat /\ M # {}
    <2>1. \A q \in Quantities : Magnitude(q) \in Nat
      BY LedgerAssumption, SignFacts
    <2>2. PICK q \in Quantities : TRUE
      BY LedgerAssumption
    <2>3. Magnitude(q) \in M
      OBVIOUS
    <2> QED
      BY <2>1, <2>3
  <1>2. IsFiniteSet(M)
    <2>1. f \in Surjection(Quantities, M)
      BY DEF Surjection
    <2> QED
      BY <2>1, LedgerAssumption, FS_Surjection
  <1>3. \E x \in M : \A y \in M : x >= y
    <2>1. M \in SUBSET Int
      BY <1>1
    <2> QED
      BY <1>1, <1>2, <2>1, FiniteMaxMin
  <1>4. Max(M) \in M /\ \A y \in M : Max(M) >= y
    BY <1>3 DEF Max
  <1>5. /\ \E x \in Prices : \A y \in Prices : x >= y
        /\ \E x \in Prices : \A y \in Prices : x <= y
    BY LedgerAssumption, FiniteMaxMin
  <1>6. /\ Max(Prices) \in Prices /\ \A y \in Prices : Max(Prices) >= y
        /\ Min(Prices) \in Prices /\ \A y \in Prices : Min(Prices) <= y
    BY <1>5 DEF Max, Min
  <1>7. LargestFill = Max(M) /\ \A q \in Quantities : Magnitude(q) \in M
    BY DEF LargestFill
  <1> HIDE DEF M
  <1>8. LargestFill \in Nat /\ \A q \in Quantities : Magnitude(q) <= LargestFill
    BY <1>1, <1>4, <1>7
  <1>9. /\ LowestPrice \in Int /\ HighestPrice \in Int
        /\ \A x \in Prices : LowestPrice <= x /\ x <= HighestPrice
    BY <1>6, LedgerAssumption DEF LowestPrice, HighestPrice
  <1> QED
    BY <1>8, <1>9

--------------------------------------------------------------------------------
(* What one execution does to the average cost *)

\* The average of a position of h units lies between lo and hi, but for loss.
Between(h, cost, lo, hi, loss) ==
  cost >= h * lo - loss /\ cost <= h * hi + loss

LEMMA Times ==
  ASSUME NEW k \in Nat, NEW x \in Int, NEW y \in Int, x <= y
  PROVE  k * x <= k * y
  <1>1. k * (y - x) >= 0
    BY y - x \in Nat
  <1>2. k * (y - x) = k * y - k * x
    OBVIOUS
  <1> QED
    BY <1>1, <1>2

\* k of h units are left; they keep the basis b and the rest r of the division.
LEMMA PartialClose ==
  ASSUME NEW h \in Nat, NEW k \in Nat, k <= h, NEW b \in Int, NEW r \in Nat, r <= h,
         NEW lo \in Int, NEW hi \in Int, NEW loss \in Nat,
         Between(h, h * b + r, lo, hi, loss)
  PROVE  Between(k, k * b + r, lo, hi, loss + h)
  <1>1. /\ h * b \in Int /\ k * b \in Int /\ h * lo \in Int /\ k * lo \in Int
        /\ h * hi \in Int /\ k * hi \in Int
        /\ h * b + r >= h * lo - loss /\ h * b + r <= h * hi + loss
    BY DEF Between
  <1>2. k * b + r >= k * lo - (loss + h)
    <2>1. CASE b >= lo
      <3>1. k * b >= k * lo
        BY <2>1, Times
      <3> QED
        BY <1>1, <3>1
    <2>2. CASE b < lo
      <3>1. k * (lo - b) <= h * (lo - b)
        <4>1. lo - b \in Nat
          BY <2>2
        <4>2. (lo - b) * k <= (lo - b) * h
          BY <4>1, Times
        <4> QED
          BY <4>1, <4>2
      <3>2. k * (lo - b) = k * lo - k * b /\ h * (lo - b) = h * lo - h * b
        OBVIOUS
      <3> QED
        BY <1>1, <3>1, <3>2
    <2> QED
      BY <2>1, <2>2
  <1>3. k * b + r <= k * hi + (loss + h)
    <2>1. CASE b <= hi
      <3>1. k * b <= k * hi
        BY <2>1, Times
      <3> QED
        BY <1>1, <3>1
    <2>2. CASE b > hi
      <3>1. k * (b - hi) <= h * (b - hi)
        <4>1. b - hi \in Nat
          BY <2>2
        <4>2. (b - hi) * k <= (b - hi) * h
          BY <4>1, Times
        <4> QED
          BY <4>1, <4>2
      <3>2. k * (b - hi) = k * b - k * hi /\ h * (b - hi) = h * b - h * hi
        OBVIOUS
      <3> QED
        BY <1>1, <3>1, <3>2
    <2> QED
      BY <2>1, <2>2
  <1> QED
    BY <1>2, <1>3 DEF Between

\* d units more at a price within the range.
LEMMA AddWithin ==
  ASSUME NEW h \in Nat, NEW d \in Nat, NEW c \in Int, NEW price \in Int,
         NEW lo \in Int, NEW hi \in Int, lo <= price, price <= hi, NEW loss \in Nat,
         Between(h, c, lo, hi, loss)
  PROVE  Between(h + d, c + d * price, lo, hi, loss)
  <1>1. d * lo <= d * price /\ d * price <= d * hi
    BY Times
  <1>2. (h + d) * lo = h * lo + d * lo /\ (h + d) * hi = h * hi + d * hi
    OBVIOUS
  <1>3. /\ h * lo \in Int /\ h * hi \in Int /\ d * lo \in Int /\ d * hi \in Int
        /\ d * price \in Int /\ c >= h * lo - loss /\ c <= h * hi + loss
    BY DEF Between
  <1> QED
    BY <1>1, <1>2, <1>3 DEF Between

\* The average of a position, in the form the lemmas above have it.
Average(p, lo, hi, loss) ==
  Between(Magnitude(p.quantity), Signum(p.quantity) * p.cost, lo, hi, loss)

LEMMA SignTimes ==
  ASSUME NEW n \in Int, NEW x \in Int
  PROVE  Signum(n) * (n * x) = Magnitude(n) * x
  <1>1. CASE n > 0
    BY <1>1 DEF Signum, Magnitude
  <1>2. CASE n < 0
    <2>1. (-1) * (n * x) = (-n) * x
      OBVIOUS
    <2> QED
      BY <1>2, <2>1 DEF Signum, Magnitude
  <1>3. CASE n = 0
    BY <1>3 DEF Signum, Magnitude
  <1> QED
    BY <1>1, <1>2, <1>3

\* A position that an execution has opened from flat.
LEMMA OpenedFromFlat ==
  ASSUME NEW n \in Int, NEW price \in Int, NEW lo \in Int, NEW hi \in Int,
         lo <= price, price <= hi, NEW loss \in Nat
  PROVE  Between(Magnitude(n), Signum(n) * (n * price), lo, hi, loss)
  <1>1. Magnitude(n) \in Nat /\ Signum(n) * (n * price) = Magnitude(n) * price
    BY SignFacts, SignTimes
  <1>2. Between(Magnitude(n), Magnitude(n) * price, lo, hi, loss)
    <2> DEFINE d == Magnitude(n)
    <2>1. d \in Nat
      BY <1>1
    <2> HIDE DEF d
    <2>2. d * lo <= d * price /\ d * price <= d * hi
      BY <2>1, Times
    <2>3. d * lo \in Int /\ d * hi \in Int /\ d * price \in Int
      BY <2>1
    <2>4. Between(d, d * price, lo, hi, loss)
      BY <2>2, <2>3 DEF Between
    <2> QED
      BY <2>4 DEF d
  <1> QED
    BY <1>1, <1>2

\* One execution moves the average within the prices, but for the rounding of the
\* basis of the units that are left when a part is closed.
LEMMA AverageStep ==
  ASSUME NEW p \in Position, p.quantity = 0 => p.cost = 0, NEW e \in Execution,
         NEW lo \in Int, NEW hi \in Int, lo <= e.price, e.price <= hi, NEW loss \in Nat,
         Average(p, lo, hi, loss)
  PROVE  Average(ApplyExecution(p, e), lo, hi, loss + Magnitude(p.quantity))
  <1> DEFINE next == ApplyExecution(p, e)
             opening == OpeningQuantity(p, e)
             closing == ClosingQuantity(p, e)
             q == p.quantity
             h == Magnitude(q)
             s == Signum(q)
  <1>1. /\ q \in Int /\ p.cost \in Int /\ e.quantity \in Int /\ e.price \in Int
        /\ opening \in Int /\ h \in Nat /\ s \in {-1, 0, 1} /\ s * p.cost \in Int
    <2>1. q \in Int /\ p.cost \in Int /\ e.quantity \in Int /\ e.price \in Int /\ opening \in Int
      BY PartsOfExecution DEF Position, Execution
    <2>2. h \in Nat /\ s \in {-1, 0, 1}
      BY <2>1, SignFacts
    <2> QED
      BY <2>1, <2>2
  <1>2. loss + h \in Nat
    BY <1>1
  <1>3. next.quantity = q + e.quantity
    BY ExecutionApplied
  <1>4. CASE ~Closes(p, e)
    <2>1. next.cost = p.cost + e.quantity * e.price
      <3>1. opening = e.quantity
        BY <1>4, PartsOfExecution
      <3>2. next = [p EXCEPT !.quantity = @ + opening, !.cost = @ + opening * e.price]
        BY <1>4 DEF ApplyExecution
      <3> HIDE DEF next, opening
      <3> QED
        BY <3>1, <3>2 DEF Position
    <2>2. CASE q = 0
      <3>1. e.quantity * e.price \in Int
        BY <1>1
      <3>2. next.quantity = e.quantity /\ next.cost = e.quantity * e.price
        BY <1>1, <1>3, <2>1, <2>2, <3>1
      <3> QED
        BY <1>1, <1>2, <3>2, OpenedFromFlat DEF Average
    <2>3. CASE q # 0
      <3>1. Signum(e.quantity) = s
        BY <1>4, <2>3 DEF Closes
      <3>2. Magnitude(q + e.quantity) = h + Magnitude(e.quantity) /\ Signum(q + e.quantity) = s
        BY <1>1, <2>3, <3>1 DEF Signum, Magnitude
      <3> DEFINE d == Magnitude(e.quantity)
                 cost == s * p.cost
      <3>3. d \in Nat /\ d * e.price \in Int /\ e.quantity * e.price \in Int
        BY <1>1, SignFacts
      <3>4. s * (e.quantity * e.price) = d * e.price
        BY <1>1, <3>1, SignTimes
      <3>5. s * (p.cost + e.quantity * e.price) = cost + d * e.price
        <4>1. s * (p.cost + e.quantity * e.price) = s * p.cost + s * (e.quantity * e.price)
          <5> DEFINE x == e.quantity * e.price
          <5> HIDE DEF x, s
          <5>1. x \in Int
            BY <3>3 DEF x
          <5> QED
            BY <1>1, <5>1
        <4> QED
          BY <3>4, <4>1
      <3>6. Between(h, cost, lo, hi, loss)
        BY DEF Average
      <3>7. Between(h, cost, lo, hi, loss + h)
        <4>1. h * lo \in Int /\ h * hi \in Int /\ cost \in Int
          BY <1>1
        <4> HIDE DEF h, cost
        <4> QED
          BY <1>1, <3>6, <4>1 DEF Between
      <3>8. Between(h + d, cost + d * e.price, lo, hi, loss + h)
        <4> HIDE DEF h, cost, d
        <4> QED
          BY <1>1, <1>2, <3>3, <3>7, AddWithin DEF cost
      <3> QED
        BY <1>3, <2>1, <3>2, <3>5, <3>8 DEF Average
    <2> QED
      BY <2>2, <2>3
  <1>5. CASE Closes(p, e)
    <2>1. q # 0 /\ closing \in Int /\ closing + opening = e.quantity
      BY <1>5, PartsOfExecution DEF Closes
    <2>2. CostBasis(p) \in Int /\ closing * CostBasis(p) \in Int
      BY <1>1, <2>1, BasisType
    <2>3. next.cost = (IF q + closing = 0 THEN 0 ELSE p.cost + closing * CostBasis(p))
                      + opening * e.price
      <3>1. Closed(p, e).cost = IF q + closing = 0 THEN 0 ELSE p.cost + closing * CostBasis(p)
        BY DEF Closed, Position
      <3>2. next = [Closed(p, e) EXCEPT !.quantity = @ + opening, !.cost = @ + opening * e.price]
        BY <1>5 DEF ApplyExecution
      <3>3. Closed(p, e) \in Position
        BY <1>5, ClosedFacts
      <3> HIDE DEF next, opening, closing
      <3> QED
        BY <3>1, <3>2, <3>3 DEF Position
    <2>4. CASE opening # 0
      <3>1. q + closing = 0
        BY <1>5, <2>4, PartsOfExecution
      <3>2. q + e.quantity = opening /\ opening * e.price \in Int
        BY <1>1, <2>1, <3>1
      <3>3. next.quantity = opening /\ next.cost = opening * e.price
        BY <1>3, <2>3, <3>1, <3>2
      <3> QED
        BY <1>1, <1>2, <3>3, OpenedFromFlat DEF Average
    <2>5. CASE opening = 0
      <3>1. closing = e.quantity /\ next.quantity = q + closing
        BY <1>1, <1>3, <2>1, <2>5
      <3>2. opening * e.price = 0
        BY <1>1, <2>5
      <3>3. CASE q + closing = 0
        <4>1. next.quantity = 0 /\ next.cost = 0
          BY <2>3, <3>1, <3>2, <3>3
        <4>2. Magnitude(0) = 0 /\ Signum(0) = 0
          BY DEF Magnitude, Signum
        <4>3. Between(0, 0 * 0, lo, hi, loss + h)
          BY <1>2 DEF Between
        <4> QED
          BY <4>1, <4>2, <4>3 DEF Average
      <3>4. CASE q + closing # 0
        <4> DEFINE k == Magnitude(q + closing)
                   b == CostBasis(p)
                   r == s * p.cost - h * b
        <4>1. next.cost = p.cost + closing * b
          BY <1>1, <2>2, <2>3, <3>2, <3>4
        <4>2. s \in {-1, 1} /\ q = s * h /\ h > 0
          BY <1>1, <2>1, SignFacts DEF Signum
        <4>3. /\ k \in Nat /\ k <= h /\ Signum(q + closing) = s /\ closing = s * (k - h)
          <5>1. Excess(p, e) <= 0
            BY <1>1, <1>5, <2>5 DEF OpeningQuantity, Excess, Magnitude, Signum, Execution
          <5> QED
            BY <1>1, <1>5, <2>1, <3>1, <3>4, <5>1 DEF Closes, Excess, Magnitude, Signum
        <4>4. r \in Nat /\ r <= h
          <5>1. b = (s * p.cost) \div h
            BY DEF CostBasis
          <5>2. s * p.cost - h * b \in 0..(h - 1)
            <6> HIDE DEF b, h, s
            <6> QED
              BY <1>1, <4>2, <5>1, DivisionRest
          <5> QED
            BY <1>1, <5>2
        <4>5. h * b + r = s * p.cost
          BY <1>1, <2>2
        <4>6. Between(h, h * b + r, lo, hi, loss)
          BY <4>5 DEF Average
        <4>7. Between(k, k * b + r, lo, hi, loss + h)
          <5> HIDE DEF k, h, b, r
          <5> QED
            BY <1>1, <2>2, <4>3, <4>4, <4>6, PartialClose DEF b
        <4>8. s * (p.cost + closing * b) = k * b + r
          <5>1. s * (s * ((k - h) * b)) = (k - h) * b
            <6> DEFINE x == (k - h) * b
            <6>1. x \in Int
              BY <1>1, <2>2, <4>3
            <6> HIDE DEF x, s
            <6>2. s * (s * x) = x
              <7>1. CASE s = 1
                BY <6>1, <7>1
              <7>2. CASE s = -1
                BY <6>1, <7>2
              <7> QED
                BY <4>2, <7>1, <7>2
            <6> QED
              BY <6>2 DEF x
          <5>2. closing * b = s * ((k - h) * b)
            <6>1. k - h \in Int /\ b \in Int
              BY <1>1, <2>2, <4>3
            <6> HIDE DEF closing, k, h, b, s
            <6> QED
              BY <4>2, <4>3, <6>1
          <5>3. (k - h) * b = k * b - h * b /\ k * b \in Int /\ h * b \in Int
            <6>1. k \in Int /\ h \in Int /\ b \in Int
              BY <1>1, <2>2, <4>3
            <6> HIDE DEF k, h, b
            <6> QED
              BY <6>1
          <5>4. s * (p.cost + closing * b) = s * p.cost + s * (closing * b)
            <6> DEFINE x == closing * b
            <6>1. x \in Int
              BY <2>2
            <6> HIDE DEF x, s
            <6>2. s * (p.cost + x) = s * p.cost + s * x
              <7>1. CASE s = 1
                BY <1>1, <6>1, <7>1
              <7>2. CASE s = -1
                BY <1>1, <6>1, <7>2
              <7> QED
                BY <4>2, <7>1, <7>2
            <6> QED
              BY <6>2 DEF x
          <5> HIDE DEF k, h, b, closing, s
          <5> QED
            BY <1>1, <5>1, <5>2, <5>3, <5>4 DEF r
        <4> QED
          BY <3>1, <4>1, <4>3, <4>7, <4>8 DEF Average
      <3> QED
        BY <3>3, <3>4
    <2> QED
      BY <2>4, <2>5
  <1> QED
    BY <1>4, <1>5

--------------------------------------------------------------------------------

\* No position is larger than the executions booked so far can have made it.
HeldBounded ==
  \A a \in Accounts, i \in Instruments :
    Magnitude(position[a][i].quantity) <= fills[a] * LargestFill

\* The inductive invariant of the ledger.
LedgerInv ==
  /\ LedgerTypeOK /\ FlatCostsNothing /\ HeldBounded
  /\ MoneyIsConserved /\ AverageIsAPrice

LEMMA LossFacts ==
  ASSUME NEW n \in Nat, NEW largest \in Nat, NEW h \in Nat, h <= n * largest
  PROVE  /\ n * largest \in Nat /\ n * n * largest \in Nat
         /\ (n + 1) * largest = n * largest + largest
         /\ n * n * largest + h <= (n + 1) * (n + 1) * largest
  <1>1. n * largest \in Nat /\ n * n * largest \in Nat
    OBVIOUS
  <1>2. (n + 1) * largest = n * largest + largest
    OBVIOUS
  <1>3. (n + 1) * (n + 1) * largest = n * n * largest + 2 * (n * largest) + largest
    OBVIOUS
  <1> QED
    BY <1>1, <1>2, <1>3

LEMMA BetweenWeaker ==
  ASSUME NEW h \in Nat, NEW c \in Int, NEW lo \in Int, NEW hi \in Int,
         NEW loss \in Nat, NEW more \in Nat, loss <= more, Between(h, c, lo, hi, loss)
  PROVE  Between(h, c, lo, hi, more)
  <1>1. h * lo \in Int /\ h * hi \in Int
    OBVIOUS
  <1> QED
    BY <1>1 DEF Between

LEMMA Triangle ==
  ASSUME NEW m \in Int, NEW n \in Int
  PROVE  Magnitude(m + n) <= Magnitude(m) + Magnitude(n)
  BY DEF Magnitude

\* What account a has put into the position in instrument i, and the sum of it.
Put(a) == [i \in Instruments |-> position[a][i].cost - position[a][i].closedGain]

LEMMA InvestedFacts ==
  ASSUME LedgerTypeOK, NEW a \in Accounts
  PROVE  /\ Put(a) \in [Instruments -> Int]
         /\ Invested(a) = SumOver(Put(a), Instruments) /\ Invested(a) \in Int
  <1>1. Put(a) \in [Instruments -> Int]
    BY DEF LedgerTypeOK, Position, Put
  <1>2. Invested(a) = SumOver(Put(a), Instruments)
    BY DEF Invested, Put
  <1> QED
    BY <1>1, <1>2, SumType, LedgerAssumption

LEMMA InitLedgerInv == LedgerInit => LedgerInv
  <1> SUFFICES ASSUME LedgerInit PROVE LedgerInv
    OBVIOUS
  <1>1. LedgerTypeOK /\ FlatCostsNothing
    BY LedgerAssumption DEF LedgerInit, LedgerTypeOK, FlatCostsNothing, Flat, Position
  <1>2. Magnitude(0) = 0 /\ Signum(0) = 0
    BY DEF Magnitude, Signum
  <1>3. HeldBounded
    BY <1>2, BoundFacts DEF LedgerInit, HeldBounded, Flat
  <1>4. \A a \in Accounts : RoundingLoss(a) = 0
    <2>1. \A a \in Accounts : fills[a] = 0
      BY DEF LedgerInit
    <2>2. LargestFill \in Nat /\ 0 * 0 = 0
      BY BoundFacts
    <2>3. 0 * LargestFill = 0
      BY <2>2
    <2> QED
      BY <2>1, <2>2, <2>3 DEF RoundingLoss
  <1>5. ASSUME NEW a \in Accounts
        PROVE  Magnitude(cash[a] + Invested(a) - InitialCash) <= RoundingLoss(a)
    <2>1. Put(a) = [i \in Instruments |-> 0]
      BY <1>5 DEF LedgerInit, Put, Flat
    <2>2. Invested(a) = 0
      BY <1>1, <1>5, <2>1, InvestedFacts, SumOfZeros, LedgerAssumption
    <2>3. cash[a] + Invested(a) - InitialCash = 0
      BY <1>5, <2>2, LedgerAssumption DEF LedgerInit
    <2> QED
      BY <1>2, <1>4, <1>5, <2>3
  <1>6. AverageIsAPrice
    BY <1>2, <1>4, BoundFacts DEF LedgerInit, AverageIsAPrice, Flat
  <1> QED
    BY <1>1, <1>3, <1>5, <1>6 DEF LedgerInv, MoneyIsConserved

LEMMA NextLedgerInv == LedgerInv /\ [LedgerNext]_ledgerVars => LedgerInv'
  <1> SUFFICES ASSUME LedgerInv, [LedgerNext]_ledgerVars PROVE LedgerInv'
    OBVIOUS
  <1>1. ASSUME NEW a \in Accounts, NEW i \in Instruments, NEW e \in Fill, Book(a, i, e)
        PROVE  LedgerInv'
    <2>1. e \in Execution /\ e.price \in Prices /\ e.quantity \in Quantities
      BY LedgerAssumption DEF Fill, Execution
    <2>2. e.price \in Int /\ e.quantity \in Int /\ ExecutionCost(e) \in Int
      <3>1. e.price \in Int /\ e.quantity \in Int
        BY <2>1 DEF Execution
      <3> QED
        BY <3>1 DEF ExecutionCost
    <2> DEFINE p == position[a][i]
               next == ApplyExecution(p, e)
               n == fills[a]
               h == Magnitude(p.quantity)
               cleared == RoundingCleared(p, e)
    <2>3. p \in Position /\ (p.quantity = 0 => p.cost = 0) /\ n \in Nat
      BY <1>1 DEF LedgerInv, LedgerTypeOK, FlatCostsNothing
    <2>4. /\ next \in Position /\ (next.quantity = 0 => next.cost = 0)
          /\ next.quantity = p.quantity + e.quantity
      BY <2>1, <2>3, ExecutionApplied
    <2>5. h \in Nat /\ h <= n * LargestFill
      BY <1>1, <2>3, SignFacts DEF LedgerInv, HeldBounded, Position
    <2>6. /\ position' = [position EXCEPT ![a][i] = next]
          /\ cash' = [cash EXCEPT ![a] = @ - ExecutionCost(e)]
          /\ fills' = [fills EXCEPT ![a] = @ + 1]
      BY <1>1 DEF Book
    <2> HIDE DEF next
    <2>7. /\ position'[a][i] = next
          /\ \A b \in Accounts, j \in Instruments :
               b # a \/ j # i => position'[b][j] = position[b][j]
          /\ cash'[a] = cash[a] - ExecutionCost(e) /\ cash[a] \in Int
          /\ fills'[a] = n + 1
          /\ \A b \in Accounts : b # a => cash'[b] = cash[b] /\ fills'[b] = fills[b]
      BY <1>1, <2>6 DEF LedgerInv, LedgerTypeOK
    <2>8. LedgerTypeOK'
      <3>1. cash' \in [Accounts -> Int] /\ fills' \in [Accounts -> Nat]
        BY <1>1, <2>2, <2>3, <2>6 DEF LedgerInv, LedgerTypeOK
      <3> QED
        BY <2>4, <2>6, <3>1 DEF LedgerInv, LedgerTypeOK
    <2>9. FlatCostsNothing'
      BY <2>4, <2>7 DEF LedgerInv, FlatCostsNothing
    <2>10. /\ n * LargestFill \in Nat /\ n * n * LargestFill \in Nat
           /\ (n + 1) * LargestFill = n * LargestFill + LargestFill
           /\ n * n * LargestFill + h <= (n + 1) * (n + 1) * LargestFill
      BY <2>3, <2>5, LossFacts, BoundFacts
    <2>11. /\ RoundingLoss(a) = n * n * LargestFill
           /\ RoundingLoss(a)' = (n + 1) * (n + 1) * LargestFill
           /\ RoundingLoss(a) \in Nat /\ RoundingLoss(a)' \in Nat
           /\ RoundingLoss(a) + h <= RoundingLoss(a)'
           /\ \A b \in Accounts : b # a => RoundingLoss(b)' = RoundingLoss(b)
      <3>1. LargestFill' = LargestFill
        BY DEF LargestFill
      <3>2. (n + 1) * (n + 1) * LargestFill \in Nat
        BY <2>3, BoundFacts
      <3> QED
        BY <2>7, <2>10, <3>1, <3>2 DEF RoundingLoss
    <2>12. HeldBounded'
      <3>1. Magnitude(next.quantity) <= (n + 1) * LargestFill
        <4>1. Magnitude(next.quantity) <= h + Magnitude(e.quantity)
          BY <2>2, <2>3, <2>4, Triangle DEF Position
        <4>2. Magnitude(e.quantity) <= LargestFill /\ Magnitude(e.quantity) \in Nat
          BY <2>1, <2>2, BoundFacts, SignFacts
        <4>3. Magnitude(next.quantity) \in Nat
          BY <2>4, SignFacts DEF Position
        <4> QED
          BY <2>5, <2>10, <4>1, <4>2, <4>3, BoundFacts
      <3>2. LargestFill' = LargestFill
        BY DEF LargestFill
      <3>3. /\ \A b \in Accounts, j \in Instruments :
                 Magnitude(position[b][j].quantity) <= fills[b] * LargestFill
        BY DEF LedgerInv, HeldBounded
      <3> SUFFICES ASSUME NEW b \in Accounts, NEW j \in Instruments
                   PROVE  Magnitude(position'[b][j].quantity) <= fills'[b] * LargestFill
        BY <3>2 DEF HeldBounded
      <3>4. CASE b = a /\ j = i
        BY <2>7, <3>1, <3>4
      <3>5. CASE b # a
        BY <2>7, <3>3, <3>5
      <3>6. CASE b = a /\ j # i
        <4>1. position'[b][j] = position[b][j] /\ fills'[b] = n + 1
          BY <2>7, <3>6
        <4>2. position[b][j] \in Position /\ Magnitude(position[b][j].quantity) \in Nat
          <5>1. position[b][j] \in Position
            BY DEF LedgerInv, LedgerTypeOK
          <5> QED
            BY <5>1, SignFacts DEF Position
        <4>3. Magnitude(position[b][j].quantity) <= n * LargestFill
          BY <3>3, <3>6
        <4> QED
          BY <2>10, <4>1, <4>2, <4>3, BoundFacts
      <3> QED
        BY <3>4, <3>5, <3>6
    <2>13. AverageIsAPrice'
      <3> SUFFICES ASSUME NEW b \in Accounts, NEW j \in Instruments
                   PROVE  Average(position'[b][j], LowestPrice, HighestPrice, RoundingLoss(b)')
        BY DEF AverageIsAPrice, Average, Between, LowestPrice, HighestPrice
      <3>1. Average(position[b][j], LowestPrice, HighestPrice, RoundingLoss(b))
        BY DEF LedgerInv, AverageIsAPrice, Average, Between
      <3>2. CASE b = a /\ j = i
        <4>1. LowestPrice <= e.price /\ e.price <= HighestPrice
          BY <2>1, BoundFacts
        <4>2. Average(next, LowestPrice, HighestPrice, RoundingLoss(a) + h)
          BY <2>1, <2>2, <2>3, <2>11, <3>1, <3>2, <4>1, AverageStep, BoundFacts DEF next
        <4>3. /\ Magnitude(next.quantity) \in Nat /\ Signum(next.quantity) * next.cost \in Int
              /\ RoundingLoss(a) + h \in Nat
          BY <2>4, <2>5, <2>11, SignFacts DEF Position
        <4>4. Average(next, LowestPrice, HighestPrice, RoundingLoss(a)')
          BY <2>11, <4>2, <4>3, BetweenWeaker, BoundFacts DEF Average
        <4> QED
          BY <2>7, <3>2, <4>4
      <3>3. CASE b # a
        BY <2>7, <2>11, <3>1, <3>3
      <3>4. CASE b = a /\ j # i
        <4>1. position[b][j] \in Position
          BY DEF LedgerInv, LedgerTypeOK
        <4>2. /\ Magnitude(position[b][j].quantity) \in Nat
              /\ Signum(position[b][j].quantity) * position[b][j].cost \in Int
          BY <4>1, SignFacts DEF Position
        <4>3. RoundingLoss(a) <= RoundingLoss(a)'
          BY <2>5, <2>11
        <4> QED
          BY <2>7, <2>11, <3>1, <3>4, <4>2, <4>3, BetweenWeaker, BoundFacts DEF Average
      <3> QED
        BY <3>2, <3>3, <3>4
    <2>14. MoneyIsConserved'
      <3> SUFFICES ASSUME NEW b \in Accounts
                   PROVE  Magnitude(cash'[b] + Invested(b)' - InitialCash) <= RoundingLoss(b)'
        BY DEF MoneyIsConserved
      <3>1. Magnitude(cash[b] + Invested(b) - InitialCash) <= RoundingLoss(b)
        BY DEF LedgerInv, MoneyIsConserved
      <3>2. /\ Put(b) \in [Instruments -> Int] /\ Invested(b) \in Int
            /\ Invested(b) = SumOver(Put(b), Instruments)
        BY InvestedFacts DEF LedgerInv
      <3>3. /\ Put(b)' \in [Instruments -> Int] /\ Invested(b)' \in Int
            /\ Invested(b)' = SumOver(Put(b)', Instruments)
        <4>1. Put(b)' \in [Instruments -> Int]
          BY <2>8 DEF LedgerTypeOK, Position, Put
        <4>2. Invested(b)' = SumOver(Put(b)', Instruments)
          BY DEF Invested, Put
        <4> QED
          BY <4>1, <4>2, SumType, LedgerAssumption
      <3>4. CASE b # a
        <4>1. Put(b)' = Put(b)
          BY <2>7, <3>4 DEF Put
        <4> QED
          BY <2>7, <2>11, <3>1, <3>2, <3>3, <3>4, <4>1
      <3>5. CASE b = a
        <4>1. /\ next.cost - next.closedGain
                   = (p.cost - p.closedGain) + ExecutionCost(e) - cleared
              /\ cleared # 0 => Signum(p.quantity) * cleared \in 0..(h - 1)
          BY <2>1, <2>3, MoneyConserved DEF next
        <4>2. /\ p.cost \in Int /\ p.closedGain \in Int /\ p.quantity \in Int
              /\ next.cost \in Int /\ next.closedGain \in Int
          BY <2>3, <2>4 DEF Position
        <4>3. cleared \in Int
          <5>1. CASE Closes(p, e)
            BY <2>1, <2>3, <4>2, <5>1, PartsOfExecution, BasisType DEF RoundingCleared, Closes
          <5>2. CASE ~Closes(p, e)
            BY <5>2 DEF RoundingCleared
          <5> QED
            BY <5>1, <5>2
        <4> HIDE DEF cleared, h
        <4>4. Magnitude(cleared) <= h
          <5>1. Signum(p.quantity) \in {-1, 0, 1} /\ Magnitude(cleared) \in Nat
            BY <4>2, <4>3, SignFacts
          <5>2. CASE cleared = 0
            BY <2>5, <5>2 DEF Magnitude
          <5>3. CASE cleared # 0
            <6> DEFINE t == Signum(p.quantity)
            <6>1. t * cleared \in 0..(h - 1) /\ t \in {-1, 0, 1}
              BY <4>1, <5>1, <5>3
            <6>4. t # 0
              <7>1. p.quantity # 0
                BY <5>3 DEF cleared, RoundingCleared, Closes
              <7> QED
                BY <4>2, <7>1 DEF Signum
            <6> HIDE DEF t
            <6>2. CASE t = 1
              BY <2>5, <4>3, <6>1, <6>2 DEF Magnitude
            <6>3. CASE t = -1
              BY <2>5, <4>3, <6>1, <6>3 DEF Magnitude
            <6> QED
              BY <6>1, <6>2, <6>3, <6>4
          <5> QED
            BY <5>2, <5>3
        <4> DEFINE d == ExecutionCost(e) - cleared
        <4>5. d \in Int
          BY <2>2, <4>3
        <4>6. Put(a)'[i] = Put(a)[i] + d /\ \A j \in Instruments : j # i => Put(a)'[j] = Put(a)[j]
          <5>1. Put(a)'[i] = next.cost - next.closedGain /\ Put(a)[i] = p.cost - p.closedGain
            BY <1>1, <2>7 DEF Put
          <5>2. \A j \in Instruments : j # i => Put(a)'[j] = Put(a)[j]
            BY <1>1, <2>7 DEF Put
          <5> HIDE DEF p
          <5> QED
            BY <2>2, <4>1, <4>2, <4>3, <5>1, <5>2
        <4>7. Invested(a)' = Invested(a) + d
          <5> HIDE DEF d
          <5> QED
            BY <1>1, <3>2, <3>3, <3>5, <4>5, <4>6, SumChanges, LedgerAssumption
        <4> DEFINE was == cash[a] + Invested(a) - InitialCash
        <4>8. cash'[a] + Invested(a)' - InitialCash = was - cleared /\ was \in Int
          BY <2>2, <2>7, <3>2, <3>5, <4>3, <4>7, LedgerAssumption
        <4>9. Magnitude(was) <= RoundingLoss(a)
          BY <3>1, <3>5
        <4> HIDE DEF was
        <4>10. Magnitude(was - cleared) <= Magnitude(was) + Magnitude(cleared)
          BY <4>3, <4>8 DEF Magnitude
        <4>11. /\ Magnitude(was) \in Nat /\ Magnitude(cleared) \in Nat
               /\ Magnitude(was - cleared) \in Nat
          BY <4>3, <4>8, SignFacts
        <4> QED
          BY <2>5, <2>11, <3>5, <4>4, <4>8, <4>9, <4>10, <4>11
      <3> QED
        BY <3>4, <3>5
    <2> QED
      BY <2>8, <2>9, <2>12, <2>13, <2>14 DEF LedgerInv
  <1>2. CASE UNCHANGED ledgerVars
    BY <1>2 DEF ledgerVars, LedgerInv, LedgerTypeOK, FlatCostsNothing, HeldBounded,
                MoneyIsConserved, AverageIsAPrice, Invested, RoundingLoss, LargestFill,
                LowestPrice, HighestPrice
  <1> QED
    BY <1>1, <1>2 DEF LedgerNext

(* Whatever executions are booked, in whatever order, a flat position costs      *)
(* nothing: no rounding error of apply_execution outlives the position.          *)
THEOREM FlatStaysFree == LedgerSpec => []FlatCostsNothing
  <1>1. LedgerInv => FlatCostsNothing
    BY DEF LedgerInv
  <1> QED
    BY <1>1, InitLedgerInv, NextLedgerInv, PTL DEF LedgerSpec

(* The type invariant of the ledger. *)
THEOREM LedgerTypes == LedgerSpec => []LedgerTypeOK
  <1>1. LedgerInv => LedgerTypeOK
    BY DEF LedgerInv
  <1> QED
    BY <1>1, InitLedgerInv, NextLedgerInv, PTL DEF LedgerSpec

(* Through any number of executions, the cash an account has paid is in the cost  *)
(* of its positions, less the gain it has realised: all that the divisions of     *)
(* apply_execution can have lost is one unit of money for each unit held at each  *)
(* booking.                                                                       *)
THEOREM MoneyStays == LedgerSpec => []MoneyIsConserved
  <1>1. LedgerInv => MoneyIsConserved
    BY DEF LedgerInv
  <1> QED
    BY <1>1, InitLedgerInv, NextLedgerInv, PTL DEF LedgerSpec

(* The average cost of a position is a price between the lowest and the highest   *)
(* it was traded at, up to the rounding, however the executions open, reduce,     *)
(* close and turn it round.                                                       *)
THEOREM AverageStaysAPrice == LedgerSpec => []AverageIsAPrice
  <1>1. LedgerInv => AverageIsAPrice
    BY DEF LedgerInv
  <1> QED
    BY <1>1, InitLedgerInv, NextLedgerInv, PTL DEF LedgerSpec

================================================================================
