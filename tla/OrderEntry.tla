------------------------------- MODULE OrderEntry -------------------------------
(***************************************************************************)
(* How an order gets into the account's book and to the exchange: check_order *)
(* and submit_order of rest_api/order_api.rs with the validator, the order    *)
(* numbers and unique indexes of persistence/orders.rs, over the instruments  *)
(* of InstrumentRegistry, which an administrator loads at the same time.      *)
(*                                                                          *)
(* What happens to an order once it is saved and sent is in OrderLifecycle:   *)
(* here an order that is viable may cease to be, and one that has ended may   *)
(* come back.                                                                *)
(***************************************************************************)
EXTENDS InstrumentRegistry, Sequences

CONSTANTS
  Requests,        \* submit_order requests
  Accounts,
  ExtIds,          \* ids clients give their orders; a request without one gets a new uuid
  Forms            \* what a client may ask for: legs (key, ratio), quantity, price

ASSUME EntryAssumption ==
  /\ Requests \cap (Admins \cup ExtIds \cup {None}) = {}
  /\ \A f \in Forms : /\ f.quantity \in Int /\ f.price \in Int
                      /\ \A n \in DOMAIN f.legs : f.legs[n].ratio \in Int

VARIABLES
  orders,          \* orders[r]: the order_base row request r has committed, or NoOrder
  legs,            \* legs[r]: the order's legs by instrument id, once resolved
  viable,          \* the requests whose order is Pending, Open or PendingCancel
  returned,        \* <<r, s>>: the order of r has ended and come back, s was checked in between
  lastNumber,      \* order_number_generator: the committed lastOrderNumber of an account
  numberLock,      \* numberLock[a]: the request whose open transaction has updated it
  sent,            \* the requests whose order has been sent to the exchange
  pc, form,        \* of request r: where it is, what was asked for
  draft,           \* the order in memory; seen: the number of orders there were at its check
  instrument       \* the copy of the first leg's instrument submit_order works with

bookVars == <<orders, viable, returned, lastNumber, numberLock, sent>>
memVars == <<form, draft, legs, instrument>>
entryVars == <<bookVars, pc, memVars>>
vars == <<registryVars, entryVars>>

NoOrder == [number |-> 0, account |-> None, ext |-> None, quantity |-> 0, price |-> 0,
            status |-> "none", seen |-> 0]
NoForm == [account |-> None, ext |-> None, legs |-> <<>>, quantity |-> 0, price |-> 0]

Saved(a) == {r \in Requests : orders[r].number > 0 /\ orders[r].account = a}

UnchangedRegistry == UNCHANGED registryVars

--------------------------------------------------------------------------------
(* check_order *)

\* A client asks; the legs name instruments by any key it may have.
Ask(r, a, x, f) ==
  /\ started /\ pc[r] = "idle"
  /\ pc' = [pc EXCEPT ![r] = "check"]
  /\ form' = [form EXCEPT ![r] =
       [account |-> a, ext |-> x, legs |-> f.legs, quantity |-> f.quantity, price |-> f.price]]
  /\ UNCHANGED <<bookVars, draft, legs, instrument>> /\ UnchangedRegistry

Known(f) == \A n \in DOMAIN f.legs : f.legs[n].key \in DOMAIN byKey

\* validate_order: would the new quantity at the new price trade against the
\* other order?
PricesStrictlyCross(q, p, otherQ, otherP) ==
  \/ q > 0 /\ otherQ < 0 /\ p > otherP
  \/ q < 0 /\ otherQ > 0 /\ p < otherP
PricesCross(q, p, otherQ, otherP) ==
  \/ q > 0 /\ otherQ < 0 /\ p >= otherP
  \/ q < 0 /\ otherQ > 0 /\ p <= otherP

EntityLegs(f) ==
  [n \in DOMAIN f.legs |-> [id |-> byKey[f.legs[n].key].id, ratio |-> f.legs[n].ratio]]

Crosses(f, s) ==
  \E n \in DOMAIN f.legs, m \in DOMAIN legs[s] :
    /\ EntityLegs(f)[n].id = legs[s][m].id
    /\ PricesCross(f.quantity * f.legs[n].ratio, f.price,
                   orders[s].quantity * legs[s][m].ratio, orders[s].price)

ViableOrdersOf(a) == Saved(a) \cap viable

Passes(f) ==
  /\ f.quantity # 0 /\ Known(f)
  /\ \A s \in ViableOrdersOf(f.account) : ~Crosses(f, s)

\* get_orders in a transaction of its own, which is rolled back; then the
\* validator.  The order that passes goes on without any lock.
Check(r) ==
  /\ pc[r] = "check"
  /\ \/ /\ Passes(form[r])
        /\ pc' = [pc EXCEPT ![r] = "resolve"]
        /\ draft' = [draft EXCEPT ![r].seen = lastNumber[form[r].account]]
     \/ /\ ~Passes(form[r])
        /\ pc' = [pc EXCEPT ![r] = "done"]
        /\ UNCHANGED draft
  /\ UNCHANGED <<bookVars, form, legs, instrument>> /\ UnchangedRegistry

--------------------------------------------------------------------------------
(* submit_order *)

\* The first leg's instrument decides the exchange and whether the order is
\* rejected at once (inactive or expired); without legs the request is refused.
Resolve(r) ==
  LET f == form[r]
      first == byKey[f.legs[1].key] IN
  /\ pc[r] = "resolve"
  /\ \/ /\ f.legs # <<>>
        /\ instrument' = [instrument EXCEPT ![r] = first]
        /\ legs' = [legs EXCEPT ![r] = EntityLegs(f)]
        /\ draft' = [draft EXCEPT ![r] =
             [number |-> 0, account |-> f.account, ext |-> f.ext, quantity |-> f.quantity,
              price |-> f.price, seen |-> draft[r].seen,
              status |-> IF first.status = "Active" THEN "Pending" ELSE "Rejected"]]
        /\ pc' = [pc EXCEPT ![r] = "save"]
     \/ /\ f.legs = <<>>
        /\ pc' = [pc EXCEPT ![r] = "done"]
        /\ UNCHANGED <<draft, legs, instrument>>
  /\ UNCHANGED <<bookVars, form>> /\ UnchangedRegistry

\* The unique index (accountId, extOrderId) and the foreign key of order_leg.
ExtIgnored(d) == TRUE
ExtFree(d) == \A s \in Saved(d.account) : orders[s].ext # d.ext
LegsIgnored(r) == TRUE
LegsReferToRows(r) == \A n \in DOMAIN legs[r] : legs[r][n].id \in DOMAIN instrumentTable

\* save_order: the upsert of the account's order number waits for the transaction
\* that has updated it, and keeps the row until the end of its own.
GeneratorIgnored(a) == TRUE
GeneratorFree(a) == numberLock[a] = None

SaveOrder(r) ==
  LET d == draft[r] IN
  /\ pc[r] = "save"
  /\ GeneratorFree(d.account)
  /\ \/ /\ ExtFree(d) /\ LegsReferToRows(r)
        /\ numberLock' = [numberLock EXCEPT ![d.account] = r]
        /\ draft' = [draft EXCEPT ![r].number = lastNumber[d.account] + 1]
        /\ pc' = [pc EXCEPT ![r] = "commit"]
     \/ /\ ~ExtFree(d) \/ ~LegsReferToRows(r)
        /\ pc' = [pc EXCEPT ![r] = "done"]
        /\ UNCHANGED <<numberLock, draft>>
  /\ UNCHANGED <<orders, viable, returned, lastNumber, sent, form, legs, instrument>> /\ UnchangedRegistry

Commits(r, at) ==
  LET d == draft[r] IN
  /\ orders' = [orders EXCEPT ![r] = d]
  /\ viable' = IF d.status = "Pending" THEN viable \cup {r} ELSE viable
  /\ lastNumber' = [lastNumber EXCEPT ![d.account] = d.number]
  /\ numberLock' = [numberLock EXCEPT ![d.account] = None]
  /\ pc' = [pc EXCEPT ![r] = at]
  /\ UNCHANGED <<returned, sent, memVars>>

CommitOrder(r) ==
  /\ pc[r] = "commit"
  /\ Commits(r, IF draft[r].status = "Pending" THEN "send" ELSE "done")
  /\ UnchangedRegistry

\* exchange_client.submit_order, if the exchange has a holder.
Send(r) ==
  /\ pc[r] = "send"
  /\ sent' = IF instrument[r].exchange \in {h.id : h \in holders} THEN sent \cup {r} ELSE sent
  /\ pc' = [pc EXCEPT ![r] = "done"]
  /\ UNCHANGED <<orders, viable, returned, lastNumber, numberLock, memVars>> /\ UnchangedRegistry

--------------------------------------------------------------------------------
(* What else happens *)

\* The order is filled, rejected, canceled or expires.
OrderEnds(r) ==
  /\ r \in viable
  /\ viable' = viable \ {r}
  /\ UNCHANGED <<orders, returned, lastNumber, numberLock, sent, pc, memVars>> /\ UnchangedRegistry

Checked(s) == pc[s] \notin {"idle", "check"}

\* A state of the order from before its end is applied after it, as order_state_handling.rs
\* passes over older times only: on a tie, or when the end has the time of a broker
\* whose clock is behind (OrderLifecycle).
OrderReturns(r) ==
  /\ r \in sent \ viable
  /\ mishaps > 0
  /\ mishaps' = mishaps - 1                        \* bound: not together with a failure
  /\ viable' = viable \cup {r}
  /\ returned' = returned \cup ({r} \X {s \in Requests : Checked(s)})
  /\ UNCHANGED <<orders, lastNumber, numberLock, sent, pc, memVars>>
  /\ UNCHANGED <<tables, memory, started, admin, issued, clean>>

Drop(r, outcome) ==
  /\ pc' = [pc EXCEPT ![r] = outcome]
  /\ numberLock' = [a \in Accounts |-> IF numberLock[a] = r THEN None ELSE numberLock[a]]

\* A database operation fails and the transaction is rolled back, with the order
\* number; or the COMMIT is done and its answer lost.
EntryFailure(r) ==
  /\ mishaps > 0
  /\ mishaps' = mishaps - 1
  /\ \/ /\ pc[r] \in {"check", "save", "commit"}
        /\ Drop(r, "done")
        /\ UNCHANGED <<orders, viable, returned, lastNumber, sent, memVars>>
     \/ pc[r] = "commit" /\ Commits(r, "done")
  /\ UNCHANGED <<tables, memory, started, admin, issued, clean>>

\* Every request in the broker is lost.
Crash ==
  /\ Restart
  /\ pc' = [r \in Requests |-> IF pc[r] = "idle" THEN "idle" ELSE "done"]
  /\ numberLock' = [a \in Accounts |-> None]
  /\ UNCHANGED <<orders, viable, returned, lastNumber, sent, memVars>>

--------------------------------------------------------------------------------

EntryInit ==
  /\ orders = [r \in Requests |-> NoOrder]
  /\ viable = {}
  /\ returned = {}
  /\ lastNumber = [a \in Accounts |-> 0]
  /\ numberLock = [a \in Accounts |-> None]
  /\ sent = {}
  /\ form = [r \in Requests |-> NoForm]
  /\ draft = [r \in Requests |-> NoOrder]
  /\ legs = [r \in Requests |-> <<>>]
  /\ instrument = [r \in Requests |-> None]

CONSTANT Scenarios     \* which requests are made: sets of Requests, Creates and Loads

Init ==
  /\ RegistryInit
  /\ EntryInit
  /\ \E s \in Scenarios :
       /\ admin = [t \in Admins |-> IF t \in s THEN Idle ELSE [Idle EXCEPT !.at = "done"]]
       /\ pc = [r \in Requests |-> IF r \in s THEN "idle" ELSE "done"]

EntryStep(r) ==
  \/ \E a \in Accounts, x \in ExtIds \cup {r}, f \in Forms : Ask(r, a, x, f)
  \/ Check(r) \/ Resolve(r) \/ SaveOrder(r) \/ CommitOrder(r) \/ Send(r)
  \/ OrderEnds(r) \/ OrderReturns(r) \/ EntryFailure(r)

Next ==
  \/ AdminStep /\ UNCHANGED entryVars
  \/ \E r \in Requests : EntryStep(r)
  \/ Crash

Spec == Init /\ [][Next]_vars

--------------------------------------------------------------------------------
(* Properties *)

ClientIds == ExtIds \cup Requests

OrderRow == [number : Nat, account : Accounts \cup {None}, ext : ClientIds \cup {None},
             quantity : Int, price : Int, status : {"none", "Pending", "Rejected"}, seen : Nat]

\* Type invariant of the tables and of the requests.
TypeOK ==
  /\ orders \in [Requests -> OrderRow]
  /\ viable \subseteq Requests /\ sent \subseteq Requests
  /\ returned \subseteq Requests \X Requests
  /\ lastNumber \in [Accounts -> Nat]
  /\ numberLock \in [Accounts -> Requests \cup {None}]
  /\ \A r \in Requests : pc[r] = "commit" <=> \E a \in Accounts : numberLock[a] = r
  /\ pc \in [Requests -> {"idle", "check", "resolve", "save", "commit", "send", "done"}]
  /\ draft \in [Requests -> OrderRow]

\* The numbers of an account's orders are 1, 2, 3, ... in the order of their
\* commits: concurrent submissions, rollbacks and restarts leave no gap and use
\* no number twice.
NumbersAreConsecutive ==
  \A a \in Accounts :
    /\ {orders[r].number : r \in Saved(a)} = 1..lastNumber[a]
    /\ \A r, s \in Saved(a) : orders[r].number = orders[s].number => r = s

\* Order s would trade with order r at once: the same instrument, one buys, the
\* other sells, and the prices meet.
TradesWith(s, r) ==
  \E n \in DOMAIN legs[s], m \in DOMAIN legs[r] :
    LET q == orders[s].quantity * legs[s][n].ratio
        p == orders[r].quantity * legs[r][m].ratio IN
    /\ legs[s][n].id = legs[r][m].id
    /\ q * p < 0
    /\ (q > 0 /\ orders[s].price >= orders[r].price) \/ (p > 0 /\ orders[r].price >= orders[s].price)

\* The check and the saving are two transactions, so an account can come to have
\* two orders that trade with each other; but only when the second was checked
\* before the first was committed, or when the first had ended by then and came
\* back to life afterwards.
SelfTradeOnlyWhenRacing ==
  \A r, s \in viable :
    /\ orders[r].account = orders[s].account
    /\ orders[r].number < orders[s].number
    /\ TradesWith(s, r)
    /\ <<r, s>> \notin returned
    => orders[s].seen < orders[r].number

\* get_orders fails as a whole if an instrument of an order is not in memory:
\* with every load that failed and every restart, all of them are.
OrdersSurviveRestart ==
  started => \A r \in Requests : orders[r].number > 0 =>
    \A n \in DOMAIN legs[r] : legs[r][n].id \in DOMAIN byId

\* The ext_order_ids of an account's orders by number, and the numbers sent.
BookOf == [a \in Accounts |-> [n \in 1..lastNumber[a] |->
             orders[CHOOSE r \in Saved(a) : orders[r].number = n].ext]]
SentOf == [a \in Accounts |-> {orders[r].number : r \in Saved(a) \cap sent}]

\* The tables and the calls to the exchange implement the account's numbered
\* list: a client that repeats a request under the same id, after whatever
\* failure, never has its order entered or sent twice.
Book == INSTANCE AccountOrders WITH
  ExtIds <- ClientIds, book <- BookOf, atExchange <- SentOf
ImplementsAccountOrders == Book!Spec

================================================================================
