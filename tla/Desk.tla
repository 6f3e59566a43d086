---------------------------------- MODULE Desk ----------------------------------
(***************************************************************************)
(* The trading page of the static site: resources/static/app/js/openbroker.js *)
(* keeps what the broker has sent, works out market values and totals, and    *)
(* calls app.js, which shows them in tables.                                 *)
(*                                                                          *)
(* A datum is its version number; a total is the list of what has been added *)
(* up.  StompJs keeps the connection and opens another after a loss.  The      *)
(* broker commits changes of an account and broadcasts them in tasks of their *)
(* own, as it answers GETs, so messages of one connection come in any order;  *)
(* market data it sends to the subscribers and then retains for others.       *)
(***************************************************************************)
EXTENDS Integers

CONSTANTS
  Accounts,
  Instruments,
  Listed,          \* the instruments there were when the page was loaded, all active
  Held,            \* the <<account, instrument>> with a position and an order
  MaxEvents        \* bound: changes at the broker, connections lost and GETs that fail

ASSUME DeskAssumption ==
  /\ Listed \subseteq Instruments /\ Held \subseteq Accounts \X Instruments
  /\ MaxEvents \in Nat

VARIABLES
  server,          \* what the broker has: version numbers
  unsent,          \* the messages of changes committed and not broadcast yet
  retained,        \* retained_messages: the versions a new subscriber is sent
  link,            \* the connection of StompJs: up or down
  served,          \* the destinations subscribed to on the connection
  requests,        \* the GETs on their way: [account, scope]
  inflight,        \* the messages on their way
  stage,           \* of the page: loading, instruments or ready
  connected,       \* #connected, which a loss does not always reset
  timers,          \* setTimeouts of onConnect
  subscriptions,   \* #subscriptions
  holders,         \* the accounts with an entry in #accountHolders
  page,            \* what is kept and what is shown
  events,          \* how many are left
  excused          \* the destinations, and the rows of orders, that may be wrong

serverVars == <<server, unsent, retained>>
linkVars == <<link, served, requests, inflight>>
pageVars == <<stage, connected, timers, subscriptions, holders, page>>
vars == <<serverVars, linkVars, pageVars, events, excused>>

--------------------------------------------------------------------------------
(* What the page keeps and shows *)

Nothing == [x \in {} |-> 0]
NoTotals == [cash |-> -1, positions |-> Nothing]   \* undefined
NaN == [cash |-> -2, positions |-> Nothing]        \* {}: no numbers to add up

NoMarket == <<0, 0>>
Market(p, i) == <<p.depth[i], p.last[i]>>

\* What #updateAccountTotals adds up: the cash and the positions with the market
\* each was last valued at.
Sum(p, a) ==
  [cash |-> p.balance[a],
   positions |-> [h \in {h \in Held : h[1] = a /\ p.position[h] > 0} |-> <<p.position[h], p.value[h]>>]]

UpdateAccountTotals(p, as) ==
  [p EXCEPT
     !.totals = [a \in Accounts |-> IF a \in as THEN Sum(p, a) ELSE @[a]],
     !.cashRow = [a \in Accounts |-> IF a \in as /\ p.balance[a] > 0 THEN p.balance[a] ELSE @[a]],
     !.totalRow = [a \in Accounts |-> IF a \in as /\ p.balance[a] > 0 THEN Sum(p, a) ELSE @[a]]]

\* An account without totals is left out of the sum, and the next time spoils it.
TotalsKept(p) == p
UpdateTotals(p) ==
  [p EXCEPT
     !.allRow = [a \in {a \in holders : p.totals[a] # NoTotals} |-> p.totals[a]],
     !.totals = [a \in Accounts |-> IF a \in holders /\ @[a] = NoTotals THEN NaN ELSE @[a]]]

\* Each handler passes over what is not newer than what it has.
AnyVersion(old, new) == TRUE
Newer(old, new) == old < new

HandleBalance(p, a, v) ==
  IF Newer(p.balance[a], v) THEN UpdateTotals(UpdateAccountTotals([p EXCEPT !.balance[a] = v], {a}))
  ELSE p

\* #updatePositionWithMarket for the positions hs in instrument i: each is valued,
\* then shown; for an instrument the page does not know, positionCallback throws.
Valued(p, i, hs) ==
  [p EXCEPT
     !.value = [h \in Held |-> IF h \in hs THEN Market(p, i) ELSE @[h]],
     !.positionRow = [h \in Held |->
        IF h \in hs /\ i \in Listed THEN <<p.position[h], Market(p, i)>> ELSE @[h]]]

HandlePosition(p, h, v) ==
  LET stored == Valued([p EXCEPT !.position[h] = v], h[2], {h}) IN
  IF ~Newer(p.position[h], v) THEN p
  ELSE IF h[2] \in Listed THEN UpdateTotals(UpdateAccountTotals(stored, {h[1]}))
  ELSE stored

\* orderStateCallback throws likewise.
HandleOrderState(p, h, v) ==
  IF ~Newer(p.order[h], v) THEN p
  ELSE [p EXCEPT !.order[h] = v, !.orderRow[h] = IF h[2] \in Listed THEN v ELSE @]

\* #setMarketData of a depth or a last trade p already has: all positions in it,
\* then the totals, then the row of the market.
RowOnly(p, i) == [p EXCEPT !.marketRow[i] = Market(p, i)]
SetMarketData(p, i) ==
  LET hs == {h \in Held : h[1] \in holders /\ h[2] = i /\ p.position[h] > 0} IN
  [UpdateTotals(UpdateAccountTotals(Valued(p, i, hs), {h[1] : h \in hs}))
     EXCEPT !.marketRow[i] = Market(p, i)]

HandleDepth(p, i, v) ==
  IF Newer(p.depth[i], v) THEN SetMarketData([p EXCEPT !.depth[i] = v], i) ELSE p
HandleLastTrade(p, i, v) ==
  IF Newer(p.last[i], v) THEN SetMarketData([p EXCEPT !.last[i] = v], i) ELSE p

EmptyPage ==
  [balance |-> [a \in Accounts |-> 0], position |-> [h \in Held |-> 0], order |-> [h \in Held |-> 0],
   depth |-> [i \in Instruments |-> 0], last |-> [i \in Instruments |-> 0],
   value |-> [h \in Held |-> NoMarket], totals |-> [a \in Accounts |-> NoTotals],
   cashRow |-> [a \in Accounts |-> 0], totalRow |-> [a \in Accounts |-> NoTotals],
   positionRow |-> [h \in Held |-> <<0, NoMarket>>], orderRow |-> [h \in Held |-> 0],
   marketRow |-> [i \in Instruments |-> NoMarket], allRow |-> Nothing]

--------------------------------------------------------------------------------
(* The broker *)

Updates(a) == [kind |-> "updates", of |-> a]
Depth(i) == [kind |-> "depth", of |-> i]
LastTrade(i) == [kind |-> "last_trade", of |-> i]

\* A message to a destination: the versions it carries.
BalanceMsg(a, v) == [to |-> Updates(a), balance |-> v]
PositionMsg(h, v) == [to |-> Updates(h[1]), held |-> h, position |-> v]
FillMsg(h, b, v) == [to |-> Updates(h[1]), balance |-> b, held |-> h, position |-> v]
OrderMsg(h, v) == [to |-> Updates(h[1]), held |-> h, order |-> v]
DepthMsg(i, v) == [to |-> Depth(i), version |-> v]
LastTradeMsg(i, v) == [to |-> LastTrade(i), version |-> v]

Send(m) == inflight' = inflight \cup IF m.to \in served THEN {m} ELSE {}

\* A message is due to be broadcast; or, when the answer of the COMMIT is lost or the
\* row cannot be converted, the handler returns and nobody is told.
Tell(m) ==
  \/ unsent' = unsent \cup {m} /\ UNCHANGED excused
  \/ excused' = excused \cup {m.to} /\ UNCHANGED unsent

\* A task commits: an execution changes the balance and the position and is told in
\* one message; an order changes its state.
Commit(h) ==
  /\ events > 0
  /\ events' = events - 1
  /\ \/ /\ server' = [server EXCEPT !.balance[h[1]] = @ + 1, !.position[h] = @ + 1]
        /\ Tell(FillMsg(h, server'.balance[h[1]], server'.position[h]))
     \/ /\ server' = [server EXCEPT !.order[h] = @ + 1]
        /\ Tell(OrderMsg(h, server'.order[h]))
  /\ UNCHANGED <<retained, linkVars, pageVars>>

\* ... and then broadcasts (send_account_message); tasks overtake each other.
Broadcast(m) ==
  /\ m \in unsent
  /\ unsent' = unsent \ {m}
  /\ Send(m)
  /\ UNCHANGED <<server, retained, link, served, requests, pageVars, events, excused>>

\* A handler whose second update has failed broadcasts the state in its memory, under
\* a version that another may yet commit: the row of the order may be wrong for good.
OrderRow(h) == [kind |-> "order", of |-> h]

BroadcastUncommitted(h) ==
  /\ events > 0
  /\ events' = events - 1
  /\ \E v \in 2..(server.order[h] + 1) : Send(OrderMsg(h, v))
  /\ excused' = excused \cup {OrderRow(h)}
  /\ UNCHANGED <<serverVars, link, served, requests, pageVars>>

\* send_retained_message: market data is sent to the subscribers ...
Relay(i) ==
  /\ i \in Listed /\ Market(retained, i) = Market(server, i)
  /\ events > 0
  /\ events' = events - 1
  /\ \/ /\ server' = [server EXCEPT !.depth[i] = @ + 1]
        /\ Send(DepthMsg(i, server'.depth[i]))
     \/ /\ server' = [server EXCEPT !.last[i] = @ + 1]
        /\ Send(LastTradeMsg(i, server'.last[i]))
  /\ UNCHANGED <<unsent, retained, link, served, requests, pageVars, excused>>

\* ... and then, under another lock, retained.
Retain(i) ==
  /\ Market(retained, i) # Market(server, i)
  /\ retained' = [retained EXCEPT !.depth[i] = server.depth[i], !.last[i] = server.last[i]]
  /\ UNCHANGED <<server, unsent, linkVars, pageVars, events, excused>>

\* The GETs for an account; one that is bound to find no row sends nothing.
Scopes(a) == {"balance"} \cup IF \E h \in Held : h[1] = a THEN {"positions", "orders"} ELSE {}

Replies(r) ==
  LET mine == {h \in Held : h[1] = r.account} IN
  CASE r.scope = "balance" -> {BalanceMsg(r.account, server.balance[r.account])}
    [] r.scope = "positions" ->
         {PositionMsg(h, server.position[h]) : h \in {h \in mine : server.position[h] > 0}}
    [] r.scope = "orders" -> {OrderMsg(h, server.order[h]) : h \in {h \in mine : server.order[h] > 0}}

\* A GET is read from the tables and answered; or it fails and nobody is told.
Answer(r) ==
  /\ r \in requests
  /\ requests' = requests \ {r}
  /\ \/ /\ inflight' = inflight \cup Replies(r)
        /\ UNCHANGED <<events, excused>>
     \/ /\ events > 0
        /\ events' = events - 1
        /\ excused' = excused \cup {Updates(r.account)}
        /\ UNCHANGED inflight
  /\ UNCHANGED <<serverVars, link, served, pageVars>>

--------------------------------------------------------------------------------
(* The page and its connection *)

\* #sendsubscribe on an open connection: the market data that is retained is sent,
\* an account's is asked for.
Retained(ds) ==
  {DepthMsg(i, retained.depth[i]) : i \in {i \in Instruments : Depth(i) \in ds /\ retained.depth[i] > 0}}
  \cup {LastTradeMsg(i, retained.last[i]) :
          i \in {i \in Instruments : LastTrade(i) \in ds /\ retained.last[i] > 0}}

\* Market data sent before the page subscribed and retained after: it is missed.
\* What the page gets all of makes up for what it missed before.
Between(d) ==
  \E i \in Instruments : \/ (d = Depth(i) /\ retained.depth[i] < server.depth[i])
                        \/ (d = LastTrade(i) /\ retained.last[i] < server.last[i])
Excused(ds) == (excused \ {d \in ds : ~Between(d)}) \cup {d \in ds \ served : Between(d)}

SubscribeOnly(ds) ==
  /\ served' = served \cup ds
  /\ inflight' = inflight \cup Retained(ds)
  /\ excused' = Excused(ds)
  /\ UNCHANGED requests
SendSubscribe(ds) ==
  /\ served' = served \cup ds
  /\ inflight' = inflight \cup Retained(ds)
  /\ requests' = requests \cup
       UNION {[account : {a}, scope : Scopes(a)] : a \in {a \in Accounts : Updates(a) \in ds}}
  /\ excused' = Excused(ds)

\* The answer to GET instruments: the market data to subscribe to is noted, StompJs
\* is activated and the accounts are asked for.
ProcessInstruments ==
  /\ stage = "loading"
  /\ stage' = "instruments"
  /\ subscriptions' = {Depth(i) : i \in Listed} \cup {LastTrade(i) : i \in Listed}
  /\ UNCHANGED <<serverVars, linkVars, connected, timers, holders, page, events, excused>>

\* The answer to GET accounts.  With a connection each account is subscribed at
\* once; if it is lost and #connected does not say so, the subscription throws and
\* the accounts that follow are never looked at.
ProcessAccounts ==
  /\ stage = "instruments"
  /\ stage' = "ready"
  /\ \/ /\ connected => link = "up"
        /\ holders' = Accounts
        /\ IF connected THEN SendSubscribe({Updates(a) : a \in Accounts})
           ELSE UNCHANGED <<served, requests, inflight, excused>>
     \/ /\ connected /\ link # "up"
        /\ \E a \in Accounts :
             /\ holders' = {a}
             /\ excused' = excused \cup {Updates(b) : b \in Accounts \ {a}}
        /\ UNCHANGED <<served, requests, inflight>>
  /\ subscriptions' = subscriptions \cup {Updates(a) : a \in holders'}
  /\ UNCHANGED <<serverVars, link, connected, timers, page, events>>

\* StompJs has a connection: onConnect.
OnConnect ==
  /\ stage # "loading" /\ link = "down"
  /\ link' = "up"
  /\ connected' = TRUE
  /\ timers' = timers + 1
  /\ UNCHANGED <<serverVars, served, requests, inflight, stage, subscriptions, holders, page, events,
                 excused>>

\* The timeout of onConnect, up to five seconds later: every destination, or an
\* exception if the connection is gone.
SubscribeAll ==
  /\ timers > 0
  /\ timers' = timers - 1
  /\ \/ link = "up" /\ SendSubscribe(subscriptions)
     \/ link = "down" /\ UNCHANGED <<served, requests, inflight, excused>>
  /\ UNCHANGED <<serverVars, link, stage, connected, subscriptions, holders, page, events>>

\* The connection is lost with all that is on its way; onWebSocketError, if it is
\* called, notes it.
Loss ==
  /\ link = "up" /\ events > 0
  /\ events' = events - 1
  /\ link' = "down"
  /\ served' = {} /\ requests' = {} /\ inflight' = {}
  /\ connected' \in BOOLEAN
  /\ UNCHANGED <<serverVars, stage, timers, subscriptions, holders, page, excused>>

\* A message arrives: #handleUpdate takes balance, position and order_state one
\* after the other; #handleDepth, #handleLastTrade.
Handle(p, m) ==
  CASE m.to.kind = "depth" -> HandleDepth(p, m.to.of, m.version)
    [] m.to.kind = "last_trade" -> HandleLastTrade(p, m.to.of, m.version)
    [] m.to.kind = "updates" ->
         LET q == IF "balance" \in DOMAIN m THEN HandleBalance(p, m.to.of, m.balance) ELSE p
             r == IF "position" \in DOMAIN m THEN HandlePosition(q, m.held, m.position) ELSE q IN
         IF "order" \in DOMAIN m THEN HandleOrderState(r, m.held, m.order) ELSE r

Receive(m) ==
  /\ m \in inflight
  /\ inflight' = inflight \ {m}
  /\ page' = Handle(page, m)
  /\ UNCHANGED <<serverVars, link, served, requests, stage, connected, timers, subscriptions,
                 holders, events, excused>>

--------------------------------------------------------------------------------

Init ==
  /\ server = [balance |-> [a \in Accounts |-> 1], position |-> [h \in Held |-> 0],
               order |-> [h \in Held |-> 0], depth |-> [i \in Instruments |-> 0],
               last |-> [i \in Instruments |-> 0]]
  /\ unsent = {}
  /\ retained = [depth |-> [i \in Instruments |-> 0], last |-> [i \in Instruments |-> 0]]
  /\ link = "down" /\ served = {} /\ requests = {} /\ inflight = {}
  /\ stage = "loading" /\ connected = FALSE /\ timers = 0
  /\ subscriptions = {} /\ holders = {}
  /\ page = EmptyPage
  /\ events = MaxEvents
  /\ excused = {}

Next ==
  \/ \E h \in Held : Commit(h) \/ BroadcastUncommitted(h)
  \/ \E m \in unsent : Broadcast(m)
  \/ \E i \in Instruments : Relay(i) \/ Retain(i)
  \/ \E r \in requests : Answer(r)
  \/ ProcessInstruments \/ ProcessAccounts \/ OnConnect \/ SubscribeAll \/ Loss
  \/ \E m \in inflight : Receive(m)

Spec == Init /\ [][Next]_vars

\* The requests of the page are answered, StompJs connects again, timers fire; the
\* broker's handlers go on, GETs are answered and messages arrive.
Fairness ==
  /\ WF_vars(ProcessInstruments) /\ WF_vars(ProcessAccounts)
  /\ WF_vars(OnConnect) /\ WF_vars(SubscribeAll)
  /\ WF_vars(\E m \in unsent : Broadcast(m)) /\ WF_vars(\E i \in Instruments : Retain(i))
  /\ WF_vars(\E r \in requests : Answer(r))
  /\ WF_vars(\E m \in inflight : Receive(m))

FairSpec == Spec /\ Fairness

--------------------------------------------------------------------------------
(* Properties *)

UnlistedPosition(a) ==
  \E h \in Held : h[1] = a /\ h[2] \notin Listed /\ page.position[h] > 0

\* The totals of an account and of all accounts are those of the cash, positions
\* and market the page has, after every message and in whatever order messages
\* come; unless a position is in an instrument the page does not know.
TotalsAddUp ==
  \A a \in holders :
    page.totals[a] \notin {NoTotals, NaN} /\ ~UnlistedPosition(a) =>
      /\ page.totals[a] = Sum(page, a)
      /\ a \in DOMAIN page.allRow /\ page.allRow[a] = Sum(page, a)
      /\ page.balance[a] > 0 => page.totalRow[a] = Sum(page, a)

\* Rows show what the page has: positions at the current market, the state that
\* decides whether there is a Cancel button, cash and market.
RowsAreCurrent ==
  /\ \A h \in Held : h[2] \in Listed =>
       /\ page.position[h] > 0 => page.positionRow[h] = <<page.position[h], Market(page, h[2])>>
       /\ page.orderRow[h] = page.order[h]
  /\ page.cashRow = page.balance
  /\ \A i \in Instruments : page.marketRow[i] = Market(page, i)

\* Snapshots and broadcasts overtake each other: no row ever goes back.
RowsNeverGoBack ==
  [][/\ \A a \in Accounts : page'.cashRow[a] >= page.cashRow[a]
     /\ \A h \in Held : /\ page'.positionRow[h][1] >= page.positionRow[h][1]
                        /\ page'.orderRow[h] >= page.orderRow[h]
     /\ \A i \in Instruments : \A n \in 1..2 : page'.marketRow[i][n] >= page.marketRow[i][n]]_vars

ShowsAll(a) ==
  /\ page.cashRow[a] = server.balance[a]
  /\ \A h \in Held : h[1] = a /\ h[2] \in Listed =>
       /\ page.positionRow[h][1] = server.position[h]
       /\ OrderRow(h) \notin excused => page.orderRow[h] = server.order[h]

MayBeBehind(d) == IF d \in excused THEN 0..1 ELSE {0}

ShowsMarket(i) ==
  /\ server.depth[i] - page.marketRow[i][1] \in MayBeBehind(Depth(i))
  /\ server.last[i] - page.marketRow[i][2] \in MayBeBehind(LastTrade(i))

\* When the broker is quiet and the connection stays, the page comes to show all of
\* it, whatever was lost before.  Left out: an account that the answer to GET accounts
\* found without the connection it believed it had; until the page subscribes again,
\* an account whose GET failed or a change of which was committed and not told; an
\* order whose state was broadcast and not committed.  A market may be behind by the
\* message sent just before the page subscribed and retained just after.
Settles ==
  <>[](/\ \A a \in Accounts : Updates(a) \notin excused => ShowsAll(a)
       /\ \A i \in Listed : ShowsMarket(i))

================================================================================
