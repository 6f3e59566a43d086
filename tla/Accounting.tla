------------------------------- MODULE Accounting -------------------------------
(***************************************************************************)
(* apply_execution of trade_handling/execution_handling.rs: what an          *)
(* execution does to a position.                                             *)
(*                                                                          *)
(* Money is counted in its smallest unit.  The only operation that rounds is *)
(* the division that gives the cost basis; the code divides f32s.            *)
(***************************************************************************)
EXTENDS Integers

CONSTANTS
  Accounts,
  Instruments,     \* the instruments the broker has loaded
  InitialCash      \* the cash create_account_for_actor gives an account

Position == [quantity : Int, cost : Int, closedGain : Int]
Flat == [quantity |-> 0, cost |-> 0, closedGain |-> 0]

Magnitude(n) == IF n < 0 THEN -n ELSE n
Signum(n) == IF n > 0 THEN 1 ELSE IF n < 0 THEN -1 ELSE 0

\* The execution trades against the position.
NeverCloses(p, e) == FALSE
Closes(p, e) == p.quantity # 0 /\ Signum(e.quantity) # Signum(p.quantity)

\* By how much the execution is larger than the position it trades against.
Excess(p, e) == Magnitude(e.quantity) - Magnitude(p.quantity)

\* The part that closes: the execution, but not beyond flat.
ClosingQuantity(p, e) ==
  IF Excess(p, e) > 0 THEN e.quantity - Excess(p, e) * Signum(e.quantity) ELSE e.quantity

\* The part that opens or adds to a position.
OpeningQuantity(p, e) ==
  IF ~Closes(p, e) THEN e.quantity
  ELSE IF Excess(p, e) > 0 THEN Excess(p, e) * Signum(e.quantity) ELSE 0

\* The average cost of one unit of the position.
CostBasis(p) == (Signum(p.quantity) * p.cost) \div Magnitude(p.quantity)

ClosedWithRoundingLeft(p, e) ==
  LET closing == ClosingQuantity(p, e) IN
  [p EXCEPT !.quantity = @ + closing,
            !.cost = @ + closing * CostBasis(p),
            !.closedGain = @ + (-closing) * (e.price - CostBasis(p))]

ClosedAtPrice(p, e) ==
  [ClosedWithRoundingLeft(p, e) EXCEPT
     !.closedGain = p.closedGain + (-ClosingQuantity(p, e)) * e.price]

\* The closing part; a position that is flat has its rounding errors cleared.
Closed(p, e) ==
  LET closing == ClosingQuantity(p, e)
      left == p.quantity + closing IN
  [p EXCEPT !.quantity = left,
            !.cost = IF left = 0 THEN 0 ELSE @ + closing * CostBasis(p),
            !.closedGain = @ + (-closing) * (e.price - CostBasis(p))]

ApplyExecution(p, e) ==
  LET base == IF Closes(p, e) THEN Closed(p, e) ELSE p
      opening == OpeningQuantity(p, e) IN
  [base EXCEPT !.quantity = @ + opening, !.cost = @ + opening * e.price]

\* What the execution costs the account (less than nothing for a sale).
ExecutionCost(e) == e.price * e.quantity

\* The sum of f[x] over the elements x of S.
SumOver(f, S) ==
  LET sum[T \in SUBSET S] ==
        IF T = {} THEN 0 ELSE LET x == CHOOSE x \in T : TRUE IN f[x] + sum[T \ {x}]
  IN sum[S]

================================================================================
