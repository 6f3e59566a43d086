------------------------------ MODULE MCStompClient ------------------------------
(* Small instances of StompClient for TLC. *)
EXTENDS StompClient, TLC

CONSTANTS updates, depth, lastTrade, l1, l2

OneDestination == {updates}
OneFeed == {{updates}}

\* The updates of an account, and the market data of an instrument.
AllDestinations == {updates, depth, lastTrade}
AccountAndMarket == {{updates}, {depth, lastTrade}}

OneListener == {l1}
TwoListeners == {l1, l2}

ClientSymmetry == Permutations(Listeners) \cup Permutations({depth, lastTrade})

================================================================================
