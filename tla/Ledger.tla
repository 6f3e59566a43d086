--------------------------------- MODULE Ledger ---------------------------------
(***************************************************************************)
(* What the handling of executions promises: each execution is booked in     *)
(* one step, against the cash of its account and its position in the         *)
(* instrument.                                                               *)
(***************************************************************************)
EXTENDS Accounting, FiniteSets, FiniteSetsExt

CONSTANTS
  Prices,          \* the prices an execution may have
  Quantities       \* bought (positive) or sold (negative) quantities

ASSUME LedgerAssumption ==
  /\ Prices \subseteq Int /\ IsFiniteSet(Prices) /\ Prices # {}
  /\ Quantities \subseteq Int /\ IsFiniteSet(Quantities) /\ Quantities # {}
  /\ IsFiniteSet(Instruments)
  /\ InitialCash \in Int

VARIABLES
  cash,            \* cash[a]: the cash of account a
  position,        \* position[a][i]: the position of account a in instrument i
  fills            \* fills[a]: how many executions of account a have been booked

\* An execution, as far as the ledger is concerned.
Fill == [price : Prices, quantity : Quantities]

--------------------------------------------------------------------------------

LedgerInit ==
  /\ cash = [a \in Accounts |-> InitialCash]
  /\ position = [a \in Accounts |-> [i \in Instruments |-> Flat]]
  /\ fills = [a \in Accounts |-> 0]

Book(a, i, e) ==
  /\ cash' = [cash EXCEPT ![a] = @ - ExecutionCost(e)]
  /\ position' = [position EXCEPT ![a][i] = ApplyExecution(@, e)]
  /\ fills' = [fills EXCEPT ![a] = @ + 1]

LedgerNext == \E a \in Accounts, i \in Instruments, e \in Fill : Book(a, i, e)

ledgerVars == <<cash, position, fills>>

LedgerSpec == LedgerInit /\ [][LedgerNext]_ledgerVars

--------------------------------------------------------------------------------
(* Properties *)

\* Type invariant of the ledger.
LedgerTypeOK ==
  /\ cash \in [Accounts -> Int]
  /\ position \in [Accounts -> [Instruments -> Position]]
  /\ fills \in [Accounts -> Nat]

LargestFill == Max({Magnitude(q) : q \in Quantities})
LowestPrice == Min(Prices)
HighestPrice == Max(Prices)

\* What the rounding of the cost basis may have cost so far: less than one unit
\* of money for each unit held, at every booking.
RoundingLoss(a) == fills[a] * fills[a] * LargestFill

\* The value an account has put into its positions, and the gain it has realised.
Invested(a) ==
  SumOver([i \in Instruments |-> position[a][i].cost - position[a][i].closedGain], Instruments)

\* However executions open, add to, reduce, close and turn round the positions,
\* no money appears or vanishes: cash that left the account is in the cost of its
\* positions, less the gain it has realised, up to the rounding of the basis.
MoneyIsConserved ==
  \A a \in Accounts : Magnitude(cash[a] + Invested(a) - InitialCash) <= RoundingLoss(a)

\* A flat position costs nothing, whatever path led to it.
FlatCostsNothing ==
  \A a \in Accounts, i \in Instruments :
    position[a][i].quantity = 0 => position[a][i].cost = 0

\* The average cost of a position lies between the prices it was traded at, also
\* after an execution has turned the position round (long to short or back).
AverageIsAPrice ==
  \A a \in Accounts, i \in Instruments :
    LET p == position[a][i]
        cost == Signum(p.quantity) * p.cost
        held == Magnitude(p.quantity) IN
    /\ cost >= held * LowestPrice - RoundingLoss(a)
    /\ cost <= held * HighestPrice + RoundingLoss(a)

================================================================================
