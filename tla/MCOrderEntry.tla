----------------------------- MODULE MCOrderEntry -----------------------------
(* Small instances of OrderEntry for TLC. *)
EXTENDS OrderEntry, TLC

CONSTANTS r1, r2, l1, l2, e0, e1, e2, a1, id1, A, B, x7, x8

\* One exchange is there from the beginning; an administrator may create the other,
\* or try the same code again.
OneExchange == {[id |-> e0, code |-> A]}

\* One instrument that is active or not, or two.
SomeListings == {x7 :> "Active", x7 :> "Inactive", (x7 :> "Active" @@ x8 :> "Active")}

Leg(k, q) == [key |-> k, ratio |-> q]

\* Buy and sell at prices that cross or just touch, and a spread of two legs.
SomeForms == {[legs |-> <<Leg(1, 1)>>, quantity |-> 1, price |-> 5],
              [legs |-> <<Leg(1, 1)>>, quantity |-> -1, price |-> 5],
              [legs |-> <<Leg(2, -1), Leg(1, 1)>>, quantity |-> 1, price |-> 4]}

SomeScenarios == {{r1, r2, l1, l2}, {e1, e2, l1, l2}}

Interchangeable == Permutations({r1, r2}) \cup Permutations({l1, l2}) \cup Permutations({e1, e2})

\* What a request that has returned holds in memory is gone; what it has not
\* committed, too.
Live(f) == [r \in Requests |-> IF pc[r] = "done" THEN <<>> ELSE <<f[r]>>]
Legs == [r \in Requests |-> IF pc[r] = "done" /\ orders[r].number = 0 THEN <<>> ELSE legs[r]]
Returned == {<<r, s>> \in returned : r # s /\ (pc[s] # "done" \/ orders[s].number > 0)}
LiveView == <<registryVars, orders, viable, Returned, lastNumber, numberLock, sent, pc,
              Live(form), Live(draft), Live(instrument), Legs>>
================================================================================
