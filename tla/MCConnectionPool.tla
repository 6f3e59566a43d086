---------------------------- MODULE MCConnectionPool ----------------------------
(* A small instance of ConnectionPool for TLC. *)
EXTENDS ConnectionPool

CONSTANTS s1, s2, c1, u1, e1, x1

TwoSubmits == {s1, s2}
OneCancel == {c1}
OneUpdate == {u1}
OneExecution == {e1}
OneExchange == {x1}
NoTask == {}
FromOneExchange == [t \in Handlers |-> x1]

================================================================================
