------------------------------- MODULE MCLedger -------------------------------
(* An instance of Ledger for TLC: prices in cents. *)
EXTENDS Ledger

CentPrices == {700, 1100, 1201}
Lots == {-3, -2, 1, 2}
StartingCash == 10000

\* The bound on the executions of an account.
MaxFills == 4
BoundedNext ==
  \/ \E a \in Accounts, i \in Instruments, e \in Fill : fills[a] < MaxFills /\ Book(a, i, e)
  \/ (\A a \in Accounts : fills[a] = MaxFills) /\ UNCHANGED ledgerVars
BoundedSpec == LedgerInit /\ [][BoundedNext]_ledgerVars
================================================================================
