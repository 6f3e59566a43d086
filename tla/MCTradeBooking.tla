---------------------------- MODULE MCTradeBooking ----------------------------
(* Instances of TradeBooking for TLC. *)
EXTENDS TradeBooking

CONSTANTS a1, a2, i1, i2, iUnknown, x1, x2

Ex(x, a, i, p, q) == [exchange |-> x, account |-> a, instrument |-> i, price |-> p, quantity |-> q]

\* Two exchanges that trade for the same account, each with its own instrument,
\* an instrument that was never loaded, and an account with one exchange only.
Reported == {Ex(x1, a1, i1, 700, 2), Ex(x1, a1, i1, 1100, -3), Ex(x2, a1, i2, 900, 1),
             Ex(x2, a1, iUnknown, 500, 1), Ex(x1, a2, i1, 500, -1)}

StartingCash == 10000
================================================================================
