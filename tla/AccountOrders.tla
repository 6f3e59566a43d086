----------------------------- MODULE AccountOrders -----------------------------
(***************************************************************************)
(* What order entry promises: the orders of an account are a numbered list   *)
(* without gaps, in which a client's order id occurs once, and an order is    *)
(* sent to the exchange at most once and only when it is in the list.        *)
(***************************************************************************)
EXTENDS Integers, Sequences

CONSTANTS Accounts, ExtIds

VARIABLES
  book,            \* book[a]: the ext_order_id of a's orders, by order number
  atExchange       \* atExchange[a]: the numbers of the orders sent to the exchange

bookVars == <<book, atExchange>>

Init ==
  /\ book = [a \in Accounts |-> <<>>]
  /\ atExchange = [a \in Accounts |-> {}]

Enter(a, x) ==
  /\ \A n \in DOMAIN book[a] : book[a][n] # x
  /\ book' = [book EXCEPT ![a] = Append(@, x)]
  /\ UNCHANGED atExchange

Send(a, n) ==
  /\ n \in DOMAIN book[a] /\ n \notin atExchange[a]
  /\ atExchange' = [atExchange EXCEPT ![a] = @ \cup {n}]
  /\ UNCHANGED book

Next == \E a \in Accounts :
  \/ \E x \in ExtIds : Enter(a, x)
  \/ \E n \in DOMAIN book[a] : Send(a, n)

Spec == Init /\ [][Next]_bookVars

================================================================================
