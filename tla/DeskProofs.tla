------------------------------- MODULE DeskProofs -------------------------------
(***************************************************************************)
(* The trading page, for any accounts, instruments and positions, and any    *)
(* number of changes, losses and failing GETs.                               *)
(*                                                                          *)
(* A handler computes a page from a page, so the argument is about pages: if  *)
(* what a page shows agrees with what it keeps, it does so after every        *)
(* handler, whatever version the message carries.  The rest is that messages  *)
(* reach the page only for accounts it has an entry for.                     *)
(***************************************************************************)
EXTENDS Desk, TLAPS

Fields ==
  {"balance", "position", "order", "depth", "last", "value", "totals", "cashRow", "totalRow",
   "positionRow", "orderRow", "marketRow", "allRow"}

\* What #updateAccountTotals and #updateTotals change.
TotalsFields == {"totals", "cashRow", "totalRow", "allRow"}

\* What is kept are version numbers.
Versions(p) ==
  /\ p.balance \in [Accounts -> Nat]
  /\ p.position \in [Held -> Nat] /\ p.order \in [Held -> Nat]
  /\ p.depth \in [Instruments -> Nat] /\ p.last \in [Instruments -> Nat]

\* A row shows what is kept; the row of a position or an order in an instrument
\* the page does not know is behind it, never ahead.
PositionShown(p, h) ==
  /\ p.positionRow[h][1] \in Nat /\ p.positionRow[h][1] <= p.position[h]
  /\ h[2] \in Listed /\ p.position[h] > 0
       => p.positionRow[h] = <<p.position[h], Market(p, h[2])>>

OrderShown(p, h) ==
  /\ p.orderRow[h] \in Nat /\ p.orderRow[h] <= p.order[h]
  /\ h[2] \in Listed => p.orderRow[h] = p.order[h]

CashShown(p) ==
  p.cashRow \in [Accounts -> Nat] /\ \A a \in Accounts : p.cashRow[a] = p.balance[a]

MarketShown(p) ==
  DOMAIN p.marketRow = Instruments /\ \A i \in Instruments : p.marketRow[i] = Market(p, i)

\* Totals that are numbers are those of the data, unless a position was taken in
\* before its instrument made the callback throw.
Numbers(p, a) == p.totals[a] \notin {NoTotals, NaN}

Unlisted(p, a) == \E h \in Held : h[1] = a /\ h[2] \notin Listed /\ p.position[h] > 0

AddsUp(p, a) ==
  Numbers(p, a) /\ ~Unlisted(p, a) =>
    /\ p.totals[a] = Sum(p, a)
    /\ p.balance[a] > 0 => p.totalRow[a] = Sum(p, a)

InGrandTotal(p, a) ==
  Numbers(p, a) => a \in DOMAIN p.allRow /\ p.allRow[a] = p.totals[a]

\* Nothing is kept of an account without an entry.
OnlyOf(p, known) ==
  /\ \A h \in Held : p.position[h] > 0 => h[1] \in known
  /\ \A a \in Accounts \ known : p.totals[a] = NoTotals

\* A page whose rows and totals are right, given the accounts with an entry; the
\* rows of the markets come last.
RightButMarkets(p, known) ==
  /\ DOMAIN p = Fields /\ Versions(p) /\ OnlyOf(p, known)
  /\ \A h \in Held : PositionShown(p, h) /\ OrderShown(p, h)
  /\ CashShown(p) /\ p.orderRow \in [Held -> Nat]
  /\ \A a \in known : AddsUp(p, a) /\ InGrandTotal(p, a)

Right(p, known) == RightButMarkets(p, known) /\ MarketShown(p)

\* No row of q is older than that of p.
Follows(p, q) ==
  /\ \A a \in Accounts : q.cashRow[a] >= p.cashRow[a]
  /\ \A h \in Held : q.positionRow[h][1] >= p.positionRow[h][1] /\ q.orderRow[h] >= p.orderRow[h]
  /\ \A i \in Instruments : \A n \in 1..2 : q.marketRow[i][n] >= p.marketRow[i][n]

--------------------------------------------------------------------------------
(* The inductive invariant *)

\* Destinations the page may be subscribed to, and messages and GETs that may be
\* on their way, given the accounts with an entry.
Destination(known) ==
  {Depth(i) : i \in Instruments} \cup {LastTrade(i) : i \in Instruments} \cup {Updates(a) : a \in known}

FitUpdate(m, known) ==
  /\ m.to.kind = "updates" /\ m.to.of \in known
  /\ "balance" \in DOMAIN m => m.balance \in Nat
  /\ "position" \in DOMAIN m => m.held \in Held /\ m.held[1] = m.to.of /\ m.position \in Nat
  /\ "order" \in DOMAIN m => m.held \in Held /\ m.order \in Nat

FitMarket(m) ==
  m.to.kind \in {"depth", "last_trade"} /\ m.to.of \in Instruments /\ m.version \in Nat

Fit(m, known) == FitUpdate(m, known) \/ FitMarket(m)

ServerVersions ==
  /\ DOMAIN server = {"balance", "position", "order", "depth", "last"}
  /\ Versions(server)
  /\ DOMAIN retained = {"depth", "last"}
  /\ retained.depth \in [Instruments -> Nat] /\ retained.last \in [Instruments -> Nat]

LinkInv ==
  /\ served \subseteq Destination(holders) /\ subscriptions \subseteq Destination(holders)
  /\ \A r \in requests : r.account \in holders /\ r.scope \in {"balance", "positions", "orders"}
  /\ \A m \in inflight : Fit(m, holders)
  /\ \A m \in unsent : FitUpdate(m, Accounts)

StageInv ==
  /\ holders \subseteq Accounts
  /\ stage # "ready" => holders = {}

DeskInv ==
  /\ ServerVersions /\ StageInv /\ LinkInv
  /\ Right(page, holders)

--------------------------------------------------------------------------------
(* Totals *)

\* What an account's data add up to depends on its cash, its positions and what
\* those it has are valued at.
LEMMA SameSum ==
  ASSUME NEW p, NEW q, NEW a, p.balance[a] = q.balance[a],
         \A h \in Held : h[1] = a =>
           /\ p.position[h] = q.position[h]
           /\ p.position[h] > 0 => p.value[h] = q.value[h]
  PROVE  Sum(p, a) = Sum(q, a)
<1> DEFINE P == {h \in Held : h[1] = a /\ p.position[h] > 0}
           Q == {h \in Held : h[1] = a /\ q.position[h] > 0}
<1>1. P = Q
  OBVIOUS
<1>2. \A h \in P : p.position[h] = q.position[h] /\ p.value[h] = q.value[h]
  OBVIOUS
<1>3. [h \in P |-> <<p.position[h], p.value[h]>>] = [h \in Q |-> <<q.position[h], q.value[h]>>]
  BY <1>1, <1>2
<1> HIDE DEF P, Q
<1>4. /\ Sum(p, a) = [cash |-> p.balance[a], positions |-> [h \in P |-> <<p.position[h], p.value[h]>>]]
      /\ Sum(q, a) = [cash |-> q.balance[a], positions |-> [h \in Q |-> <<q.position[h], q.value[h]>>]]
  BY DEF Sum, P, Q
<1> QED BY <1>3, <1>4

Totalled(p, as) == UpdateTotals(UpdateAccountTotals(p, as))

\* The totals of an account, as #updateTotals finds them.
Interim(p, as, a) == IF a \in as THEN Sum(p, a) ELSE p.totals[a]

\* What the totals of account a are in page q, if in p they were worked out anew
\* for the accounts as.
Retotalled(p, q, as, a) ==
  /\ q.cashRow[a] = IF a \in as /\ p.balance[a] > 0 THEN p.balance[a] ELSE p.cashRow[a]
  /\ q.totalRow[a] = IF a \in as /\ p.balance[a] > 0 THEN Sum(p, a) ELSE p.totalRow[a]
  /\ q.totals[a] = IF a \in holders /\ Interim(p, as, a) = NoTotals THEN NaN ELSE Interim(p, as, a)
  /\ a \in holders /\ Interim(p, as, a) # NoTotals
       => a \in DOMAIN q.allRow /\ q.allRow[a] = Interim(p, as, a)

KeepsData(p, q) == DOMAIN q = Fields /\ \A f \in Fields \ TotalsFields : q[f] = p[f]

\* #updateAccountTotals and #updateTotals, field by field.
LEMMA TotalledFields ==
  ASSUME NEW p, DOMAIN p = Fields, NEW as
  PROVE  /\ KeepsData(p, Totalled(p, as))
         /\ Totalled(p, as).cashRow = [a \in Accounts |-> Totalled(p, as).cashRow[a]]
         /\ \A a \in Accounts : Retotalled(p, Totalled(p, as), as, a)
<1> DEFINE T == [a \in Accounts |-> IF a \in as THEN Sum(p, a) ELSE p.totals[a]]
           C == [a \in Accounts |-> IF a \in as /\ p.balance[a] > 0 THEN p.balance[a] ELSE p.cashRow[a]]
           R == [a \in Accounts |-> IF a \in as /\ p.balance[a] > 0 THEN Sum(p, a) ELSE p.totalRow[a]]
           u == UpdateAccountTotals(p, as)
           A == [a \in {a \in holders : u.totals[a] # NoTotals} |-> u.totals[a]]
           N == [a \in Accounts |-> IF a \in holders /\ u.totals[a] = NoTotals THEN NaN ELSE u.totals[a]]
           q == UpdateTotals(u)
<1>1. u = [p EXCEPT !.totals = T, !.cashRow = C, !.totalRow = R]
  BY DEF UpdateAccountTotals
<1>2. q = [u EXCEPT !.allRow = A, !.totals = N]
  BY DEF UpdateTotals
<1> HIDE DEF T, C, R
<1>3. /\ DOMAIN u = Fields /\ u.totals = T /\ u.cashRow = C /\ u.totalRow = R
      /\ \A f \in Fields \ TotalsFields : u[f] = p[f]
  BY <1>1 DEF Fields, TotalsFields
<1> HIDE DEF u, A, N, q
<1>4. /\ DOMAIN q = Fields /\ q.allRow = A /\ q.totals = N /\ q.cashRow = u.cashRow /\ q.totalRow = u.totalRow
      /\ \A f \in Fields \ TotalsFields : q[f] = u[f]
  BY <1>2, <1>3 DEF Fields, TotalsFields
<1>5. Totalled(p, as) = q
  BY DEF Totalled, q, u
<1>6. \A f \in Fields \ TotalsFields : q[f] = p[f]
  BY <1>3, <1>4
<1>7. q.cashRow = C /\ q.totalRow = R /\ q.totals = N /\ q.allRow = A
  BY <1>3, <1>4
<1>8. ASSUME NEW a \in Accounts
      PROVE  Retotalled(p, q, as, a)
  <2>1. u.totals[a] = Interim(p, as, a)
    BY <1>3, <1>8 DEF T, Interim
  <2> QED BY <1>7, <1>8, <2>1 DEF N, A, C, R, Retotalled
<1>9. q.cashRow = [a \in Accounts |-> q.cashRow[a]]
  BY <1>7 DEF C
<1> QED BY <1>4, <1>5, <1>6, <1>8, <1>9 DEF KeepsData

\* When the totals are worked out anew for the accounts whose data have changed,
\* all totals are right again, and so is the grand total.
LEMMA TotalledIsRight ==
  ASSUME NEW p, DOMAIN p = Fields, NEW as, as \subseteq holders, StageInv,
         \A a \in holders \ as : AddsUp(p, a)
  PROVE  /\ \A a \in holders : AddsUp(Totalled(p, as), a) /\ InGrandTotal(Totalled(p, as), a)
         /\ \A a \in Accounts \ holders : Totalled(p, as).totals[a] = p.totals[a]
<1> DEFINE q == Totalled(p, as)
<1>1. KeepsData(p, q) /\ \A a \in Accounts : Retotalled(p, q, as, a)
  BY TotalledFields
<1>2. q.balance = p.balance /\ q.position = p.position /\ q.value = p.value
  BY <1>1 DEF KeepsData, Fields, TotalsFields
<1>3. \A a \in Accounts :
        /\ q.totalRow[a] = IF a \in as /\ p.balance[a] > 0 THEN Sum(p, a) ELSE p.totalRow[a]
        /\ q.totals[a] = IF a \in holders /\ Interim(p, as, a) = NoTotals THEN NaN ELSE Interim(p, as, a)
        /\ a \in holders /\ Interim(p, as, a) # NoTotals
             => a \in DOMAIN q.allRow /\ q.allRow[a] = Interim(p, as, a)
  BY <1>1 DEF Retotalled
<1> HIDE DEF q
<1>4. ASSUME NEW a \in holders
      PROVE  AddsUp(q, a) /\ InGrandTotal(q, a)
  <2> DEFINE t == Interim(p, as, a)
  <2>1. a \in Accounts
    BY <1>4 DEF StageInv
  <2>2. Sum(q, a) = Sum(p, a)
    BY <1>2, SameSum
  <2>3. Numbers(q, a) => q.totals[a] = t /\ a \in DOMAIN q.allRow /\ q.allRow[a] = t
    BY <1>3, <1>4, <2>1 DEF Numbers
  <2>4. InGrandTotal(q, a)
    BY <2>3 DEF InGrandTotal
  <2>5. SUFFICES ASSUME Numbers(q, a), ~Unlisted(q, a)
                 PROVE  /\ q.totals[a] = Sum(q, a)
                        /\ q.balance[a] > 0 => q.totalRow[a] = Sum(q, a)
    BY <2>4 DEF AddsUp
  <2>6. CASE a \in as
    BY <1>2, <1>3, <2>1, <2>2, <2>3, <2>5, <2>6 DEF Interim
  <2>7. CASE a \notin as
    <3>1. q.totals[a] = p.totals[a] /\ q.totalRow[a] = p.totalRow[a]
      BY <1>3, <2>1, <2>3, <2>5, <2>7 DEF Interim
    <3>2. Numbers(p, a) /\ ~Unlisted(p, a)
      BY <1>2, <2>5, <3>1 DEF Numbers, Unlisted
    <3>3. AddsUp(p, a)
      BY <1>4, <2>7
    <3> QED BY <1>2, <2>2, <3>1, <3>2, <3>3 DEF AddsUp
  <2> QED BY <2>6, <2>7
<1>5. \A a \in Accounts \ holders : q.totals[a] = p.totals[a]
  BY <1>3 DEF Interim
<1> QED BY <1>4, <1>5 DEF q

\* A page whose totals are worked out anew for the accounts with new data, and
\* whose cash rows are behind for those only, is right.
LEMMA TotalledPage ==
  ASSUME NEW p, DOMAIN p = Fields, Versions(p), OnlyOf(p, holders), StageInv,
         NEW as, as \subseteq holders,
         \A h \in Held : PositionShown(p, h) /\ OrderShown(p, h),
         p.cashRow \in [Accounts -> Nat], p.orderRow \in [Held -> Nat],
         \A a \in Accounts : p.cashRow[a] = p.balance[a] \/ (a \in as /\ p.balance[a] > 0),
         \A a \in holders \ as : AddsUp(p, a)
  PROVE  RightButMarkets(Totalled(p, as), holders) /\ KeepsData(p, Totalled(p, as))
<1> DEFINE q == Totalled(p, as)
<1>1. /\ KeepsData(p, q) /\ \A a \in Accounts : Retotalled(p, q, as, a)
      /\ q.cashRow = [a \in Accounts |-> q.cashRow[a]]
  BY TotalledFields
<1>2. /\ \A a \in holders : AddsUp(q, a) /\ InGrandTotal(q, a)
      /\ \A a \in Accounts \ holders : q.totals[a] = p.totals[a]
  BY TotalledIsRight
<1> HIDE DEF q
<1>3. /\ DOMAIN q = Fields
      /\ q.balance = p.balance /\ q.position = p.position /\ q.order = p.order
      /\ q.depth = p.depth /\ q.last = p.last
      /\ q.positionRow = p.positionRow /\ q.orderRow = p.orderRow
  BY <1>1 DEF KeepsData, Fields, TotalsFields
<1>4. Versions(q)
  BY <1>3 DEF Versions
<1>5. OnlyOf(q, holders)
  BY <1>2, <1>3 DEF OnlyOf
<1>6. \A h \in Held : PositionShown(q, h) /\ OrderShown(q, h)
  <2> SUFFICES ASSUME NEW h \in Held PROVE PositionShown(q, h) /\ OrderShown(q, h)
    OBVIOUS
  <2>1. PositionShown(p, h) /\ OrderShown(p, h)
    OBVIOUS
  <2> QED BY <1>3, <2>1 DEF PositionShown, OrderShown, Market
<1>7. CashShown(q)
  <2>1. \A a \in Accounts : q.cashRow[a] = q.balance[a]
    BY <1>1, <1>3 DEF Retotalled
  <2> QED BY <1>1, <1>3, <2>1 DEF CashShown, Versions
<1> QED BY <1>1, <1>2, <1>3, <1>4, <1>5, <1>6, <1>7 DEF RightButMarkets, q

--------------------------------------------------------------------------------
(* The handlers *)

\* The rows of a right page are numbers.
LEMMA RowsAreNumbers ==
  ASSUME NEW p, Right(p, holders)
  PROVE  /\ \A a \in Accounts : p.cashRow[a] \in Nat
         /\ \A h \in Held : p.positionRow[h][1] \in Nat /\ p.orderRow[h] \in Nat
         /\ \A i \in Instruments : \A n \in 1..2 : p.marketRow[i][n] \in Nat
<1>1. \A a \in Accounts : p.cashRow[a] \in Nat
  BY DEF Right, RightButMarkets, CashShown
<1>2. \A h \in Held : p.positionRow[h][1] \in Nat /\ p.orderRow[h] \in Nat
  BY DEF Right, RightButMarkets, PositionShown, OrderShown
<1>3. \A i \in Instruments : \A n \in 1..2 : p.marketRow[i][n] \in Nat
  <2> SUFFICES ASSUME NEW i \in Instruments, NEW n \in 1..2 PROVE p.marketRow[i][n] \in Nat
    OBVIOUS
  <2>1. p.marketRow[i] = <<p.depth[i], p.last[i]>> /\ p.depth[i] \in Nat /\ p.last[i] \in Nat
    BY DEF Right, RightButMarkets, MarketShown, Market, Versions
  <2>2. n = 1 \/ n = 2
    OBVIOUS
  <2> QED BY <2>1, <2>2
<1> QED BY <1>1, <1>2, <1>3

\* A page follows itself.
LEMMA FollowsItself ==
  ASSUME NEW p, Right(p, holders)
  PROVE  Follows(p, p)
BY RowsAreNumbers DEF Follows

\* A balance: its account's totals are worked out anew.
LEMMA BalanceHandled ==
  ASSUME NEW p, Right(p, holders), StageInv, NEW a \in holders, NEW v \in Nat
  PROVE  /\ Right(HandleBalance(p, a, v), holders)
         /\ Follows(p, HandleBalance(p, a, v))
<1> DEFINE s == [p EXCEPT !.balance[a] = v]
           q == Totalled(s, {a})
<1>1. CASE ~Newer(p.balance[a], v)
  <2>1. HandleBalance(p, a, v) = p
    BY <1>1 DEF HandleBalance
  <2> QED BY <2>1, FollowsItself
<1>2. CASE Newer(p.balance[a], v)
  <2>1. HandleBalance(p, a, v) = q
    BY <1>2 DEF HandleBalance, Totalled
  <2>2. /\ DOMAIN p = Fields /\ Versions(p) /\ OnlyOf(p, holders) /\ MarketShown(p)
        /\ \A h \in Held : PositionShown(p, h) /\ OrderShown(p, h)
        /\ CashShown(p) /\ p.orderRow \in [Held -> Nat] /\ \A b \in holders : AddsUp(p, b)
    BY DEF Right, RightButMarkets
  <2>3. a \in Accounts /\ p.balance[a] \in Nat /\ p.balance[a] < v
    BY <1>2, <2>2 DEF StageInv, Versions, Newer
  <2>4. /\ DOMAIN s = Fields
        /\ \A f \in Fields \ {"balance"} : s[f] = p[f]
        /\ s.balance = [p.balance EXCEPT ![a] = v]
    BY <2>2 DEF Fields
  <2> HIDE DEF s
  <2>5. /\ s.position = p.position /\ s.order = p.order /\ s.depth = p.depth /\ s.last = p.last
        /\ s.value = p.value /\ s.totals = p.totals /\ s.cashRow = p.cashRow
        /\ s.totalRow = p.totalRow /\ s.positionRow = p.positionRow /\ s.orderRow = p.orderRow
        /\ s.marketRow = p.marketRow
    BY <2>4 DEF Fields
  <2>6. Versions(s)
    BY <2>2, <2>4, <2>5 DEF Versions
  <2>7. OnlyOf(s, holders)
    BY <2>2, <2>5 DEF OnlyOf
  <2>8. \A h \in Held : PositionShown(s, h) /\ OrderShown(s, h)
    <3> SUFFICES ASSUME NEW h \in Held PROVE PositionShown(s, h) /\ OrderShown(s, h)
      OBVIOUS
    <3>1. PositionShown(p, h) /\ OrderShown(p, h)
      BY <2>2
    <3> QED BY <2>5, <3>1 DEF PositionShown, OrderShown, Market
  <2>9. \A b \in Accounts : b # a => s.balance[b] = p.balance[b]
    BY <2>2, <2>4 DEF Versions
  <2>10. s.balance[a] = v /\ v > 0
    BY <2>2, <2>3, <2>4 DEF Versions
  <2>11. /\ s.cashRow \in [Accounts -> Nat] /\ s.orderRow \in [Held -> Nat]
         /\ \A b \in Accounts : s.cashRow[b] = s.balance[b] \/ (b \in {a} /\ s.balance[b] > 0)
    BY <2>2, <2>5, <2>9, <2>10 DEF CashShown
  <2>12. \A b \in holders \ {a} : AddsUp(s, b)
    <3> SUFFICES ASSUME NEW b \in holders \ {a} PROVE AddsUp(s, b)
      OBVIOUS
    <3>1. b \in Accounts /\ s.balance[b] = p.balance[b]
      BY <2>9 DEF StageInv
    <3>2. Sum(s, b) = Sum(p, b)
      BY <2>5, <3>1, SameSum
    <3>3. AddsUp(p, b)
      BY <2>2
    <3> QED BY <2>5, <3>1, <3>2, <3>3 DEF AddsUp, Numbers, Unlisted
  <2>13. RightButMarkets(q, holders) /\ KeepsData(s, q)
    BY <2>4, <2>6, <2>7, <2>8, <2>11, <2>12, TotalledPage
  <2> HIDE DEF q
  <2>14. /\ q.depth = p.depth /\ q.last = p.last /\ q.marketRow = p.marketRow
         /\ q.positionRow = p.positionRow /\ q.orderRow = p.orderRow /\ q.balance = s.balance
    BY <2>5, <2>13 DEF KeepsData, Fields, TotalsFields
  <2>15. Right(q, holders)
    BY <2>2, <2>13, <2>14 DEF Right, MarketShown, Market
  <2>16. \A b \in Accounts : q.cashRow[b] >= p.cashRow[b]
    <3> SUFFICES ASSUME NEW b \in Accounts PROVE q.cashRow[b] >= p.cashRow[b]
      OBVIOUS
    <3>1. p.cashRow[b] = p.balance[b] /\ p.balance[b] \in Nat
      BY <2>2 DEF CashShown, Versions
    <3>2. q.cashRow[b] = s.balance[b]
      BY <2>13, <2>14 DEF RightButMarkets, CashShown
    <3>3. b # a => s.balance[b] = p.balance[b]
      BY <2>9
    <3> QED BY <2>3, <2>10, <3>1, <3>2, <3>3
  <2>17. Follows(p, p)
    BY FollowsItself
  <2> QED BY <2>1, <2>14, <2>15, <2>16, <2>17 DEF Follows
<1> QED BY <1>1, <1>2

\* The state of an order: its row follows, unless the page does not know the
\* instrument.
LEMMA OrderStateHandled ==
  ASSUME NEW p, Right(p, holders), NEW h \in Held, NEW v \in Nat
  PROVE  /\ Right(HandleOrderState(p, h, v), holders)
         /\ Follows(p, HandleOrderState(p, h, v))
<1> DEFINE row == IF h[2] \in Listed THEN v ELSE p.orderRow[h]
           q == [p EXCEPT !.order[h] = v, !.orderRow[h] = row]
<1>1. CASE ~Newer(p.order[h], v)
  <2>1. HandleOrderState(p, h, v) = p
    BY <1>1 DEF HandleOrderState
  <2> QED BY <2>1, FollowsItself
<1>2. CASE Newer(p.order[h], v)
  <2>1. HandleOrderState(p, h, v) = q
    BY <1>2 DEF HandleOrderState
  <2>2. /\ DOMAIN p = Fields /\ Versions(p) /\ OnlyOf(p, holders) /\ MarketShown(p)
        /\ \A g \in Held : PositionShown(p, g) /\ OrderShown(p, g)
        /\ CashShown(p) /\ p.orderRow \in [Held -> Nat]
        /\ \A b \in holders : AddsUp(p, b) /\ InGrandTotal(p, b)
    BY DEF Right, RightButMarkets
  <2>3. p.order[h] \in Nat /\ p.order[h] < v /\ p.orderRow[h] \in Nat /\ p.orderRow[h] <= p.order[h]
    BY <1>2, <2>2 DEF Versions, Newer, OrderShown
  <2>4. row \in Nat /\ p.orderRow[h] <= row /\ row <= v /\ (h[2] \in Listed => row = v)
    BY <2>3
  <2> HIDE DEF row
  <2>5. /\ DOMAIN q = Fields
        /\ \A f \in Fields \ {"order", "orderRow"} : q[f] = p[f]
        /\ q.order = [p.order EXCEPT ![h] = v] /\ q.orderRow = [p.orderRow EXCEPT ![h] = row]
    BY <2>2 DEF Fields
  <2> HIDE DEF q
  <2>6. /\ q.position = p.position /\ q.balance = p.balance /\ q.depth = p.depth /\ q.last = p.last
        /\ q.value = p.value /\ q.totals = p.totals /\ q.cashRow = p.cashRow
        /\ q.totalRow = p.totalRow /\ q.positionRow = p.positionRow
        /\ q.marketRow = p.marketRow /\ q.allRow = p.allRow
    BY <2>5 DEF Fields
  <2>7. Versions(q) /\ q.orderRow \in [Held -> Nat]
    BY <2>2, <2>4, <2>5, <2>6 DEF Versions
  <2>8. /\ q.order[h] = v /\ q.orderRow[h] = row
        /\ \A g \in Held : g # h => q.order[g] = p.order[g] /\ q.orderRow[g] = p.orderRow[g]
    BY <2>2, <2>5 DEF Versions
  <2>9. \A g \in Held : PositionShown(q, g) /\ OrderShown(q, g)
    <3> SUFFICES ASSUME NEW g \in Held PROVE PositionShown(q, g) /\ OrderShown(q, g)
      OBVIOUS
    <3>1. PositionShown(p, g) /\ OrderShown(p, g)
      BY <2>2
    <3> QED BY <2>4, <2>6, <2>8, <3>1 DEF PositionShown, OrderShown, Market
  <2>10. \A b \in holders : AddsUp(q, b) /\ InGrandTotal(q, b)
    <3> SUFFICES ASSUME NEW b \in holders PROVE AddsUp(q, b) /\ InGrandTotal(q, b)
      OBVIOUS
    <3>1. AddsUp(p, b) /\ InGrandTotal(p, b)
      BY <2>2
    <3>2. Sum(q, b) = Sum(p, b)
      BY <2>6, SameSum
    <3> QED BY <2>6, <3>1, <3>2 DEF AddsUp, InGrandTotal, Numbers, Unlisted
  <2>11. OnlyOf(q, holders) /\ CashShown(q) /\ MarketShown(q)
    BY <2>2, <2>6 DEF OnlyOf, CashShown, MarketShown, Market
  <2>12. Right(q, holders)
    BY <2>5, <2>7, <2>9, <2>10, <2>11 DEF Right, RightButMarkets
  <2>13. \A g \in Held : q.orderRow[g] >= p.orderRow[g]
    BY <2>2, <2>4, <2>8
  <2>14. Follows(p, p)
    BY FollowsItself
  <2> QED BY <2>1, <2>6, <2>12, <2>13, <2>14 DEF Follows
<1> QED BY <1>1, <1>2

\* What q keeps and shows of position h, if in p the positions hs in instrument i
\* were valued anew.
Revalued(p, q, i, hs, h) ==
  /\ h \in hs => q.value[h] = Market(p, i)
  /\ h \notin hs => q.value[h] = p.value[h]
  /\ h \in hs /\ i \in Listed => q.positionRow[h] = <<p.position[h], Market(p, i)>>
  /\ h \notin hs \/ i \notin Listed => q.positionRow[h] = p.positionRow[h]

OnlyValued(p, q) == DOMAIN q = Fields /\ \A f \in Fields \ {"value", "positionRow"} : q[f] = p[f]

\* #updatePositionWithMarket, field by field.
LEMMA ValuedFields ==
  ASSUME NEW p, DOMAIN p = Fields, NEW i, NEW hs
  PROVE  /\ OnlyValued(p, Valued(p, i, hs))
         /\ \A h \in Held : Revalued(p, Valued(p, i, hs), i, hs, h)
<1> DEFINE V == [h \in Held |-> IF h \in hs THEN Market(p, i) ELSE p.value[h]]
           R == [h \in Held |-> IF h \in hs /\ i \in Listed THEN <<p.position[h], Market(p, i)>>
                                ELSE p.positionRow[h]]
           q == Valued(p, i, hs)
<1>1. q = [p EXCEPT !.value = V, !.positionRow = R]
  BY DEF Valued
<1> HIDE DEF V, R, q
<1>2. /\ DOMAIN q = Fields /\ q.value = V /\ q.positionRow = R
      /\ \A f \in Fields \ {"value", "positionRow"} : q[f] = p[f]
  BY <1>1 DEF Fields
<1>3. ASSUME NEW h \in Held PROVE Revalued(p, q, i, hs, h)
  BY <1>2, <1>3 DEF V, R, Revalued
<1> QED BY <1>2, <1>3 DEF q, OnlyValued

\* A position is kept and valued; if its instrument makes positionCallback throw,
\* neither its row nor any total is touched.
LEMMA PositionHandled ==
  ASSUME NEW p, Right(p, holders), StageInv, NEW h \in Held, h[1] \in holders, NEW v \in Nat
  PROVE  /\ Right(HandlePosition(p, h, v), holders)
         /\ Follows(p, HandlePosition(p, h, v))
<1> DEFINE e == [p EXCEPT !.position[h] = v]
           s == Valued(e, h[2], {h})
           q == Totalled(s, {h[1]})
<1>1. CASE ~Newer(p.position[h], v)
  <2>1. HandlePosition(p, h, v) = p
    BY <1>1 DEF HandlePosition
  <2> QED BY <2>1, FollowsItself
<1>2. CASE Newer(p.position[h], v)
  <2>1. HandlePosition(p, h, v) = IF h[2] \in Listed THEN q ELSE s
    BY <1>2 DEF HandlePosition, Totalled
  <2>2. /\ DOMAIN p = Fields /\ Versions(p) /\ OnlyOf(p, holders) /\ MarketShown(p)
        /\ \A g \in Held : PositionShown(p, g) /\ OrderShown(p, g)
        /\ CashShown(p) /\ p.orderRow \in [Held -> Nat]
        /\ \A b \in holders : AddsUp(p, b) /\ InGrandTotal(p, b)
    BY DEF Right, RightButMarkets
  <2>3. /\ p.position[h] \in Nat /\ p.position[h] < v /\ v > 0
        /\ p.positionRow[h][1] \in Nat /\ p.positionRow[h][1] <= p.position[h]
    BY <1>2, <2>2 DEF Versions, Newer, PositionShown
  <2>4. /\ DOMAIN e = Fields
        /\ \A f \in Fields \ {"position"} : e[f] = p[f]
        /\ e.position = [p.position EXCEPT ![h] = v]
    BY <2>2 DEF Fields
  <2> HIDE DEF e
  <2>5. OnlyValued(e, s) /\ \A g \in Held : Revalued(e, s, h[2], {h}, g)
    BY <2>4, ValuedFields
  <2> HIDE DEF s
  <2>6. /\ s.order = p.order /\ s.balance = p.balance /\ s.depth = p.depth /\ s.last = p.last
        /\ s.totals = p.totals /\ s.cashRow = p.cashRow
        /\ s.totalRow = p.totalRow /\ s.orderRow = p.orderRow
        /\ s.marketRow = p.marketRow /\ s.allRow = p.allRow /\ s.position = e.position
        /\ e.value = p.value /\ e.positionRow = p.positionRow /\ e.depth = p.depth /\ e.last = p.last
    BY <2>4, <2>5 DEF OnlyValued, Fields
  <2>7. /\ s.position \in [Held -> Nat] /\ s.position[h] = v
        /\ \A g \in Held : g # h => s.position[g] = p.position[g]
    BY <2>2, <2>4, <2>6 DEF Versions
  <2>8. \A g \in Held :
          /\ g # h => s.value[g] = p.value[g] /\ s.positionRow[g] = p.positionRow[g]
          /\ h[2] \notin Listed => s.positionRow[g] = p.positionRow[g]
    BY <2>5, <2>6 DEF Revalued
  <2>9. h[2] \in Listed => s.positionRow[h] = <<v, Market(s, h[2])>>
    BY <2>5, <2>6, <2>7 DEF Revalued, Market
  <2>10. Versions(s) /\ s.orderRow \in [Held -> Nat]
    BY <2>2, <2>6, <2>7 DEF Versions
  <2>11. OnlyOf(s, holders)
    BY <2>2, <2>6, <2>7 DEF OnlyOf
  <2>12. \A g \in Held : PositionShown(s, g) /\ OrderShown(s, g)
    <3> SUFFICES ASSUME NEW g \in Held PROVE PositionShown(s, g) /\ OrderShown(s, g)
      OBVIOUS
    <3>1. PositionShown(p, g) /\ OrderShown(p, g)
      BY <2>2
    <3>2. OrderShown(s, g)
      BY <2>6, <3>1 DEF OrderShown
    <3>3. CASE g # h
      BY <2>6, <2>7, <2>8, <3>1, <3>2, <3>3 DEF PositionShown, Market
    <3>4. CASE g = h /\ h[2] \in Listed
      BY <2>7, <2>9, <3>2, <3>4 DEF PositionShown
    <3>5. CASE g = h /\ h[2] \notin Listed
      BY <2>3, <2>7, <2>8, <3>2, <3>5 DEF PositionShown
    <3> QED BY <3>3, <3>4, <3>5
  <2>13. \A b \in holders \ {h[1]} : AddsUp(s, b)
    <3> SUFFICES ASSUME NEW b \in holders \ {h[1]} PROVE AddsUp(s, b)
      OBVIOUS
    <3>1. \A g \in Held : g[1] = b => s.position[g] = p.position[g] /\ s.value[g] = p.value[g]
      BY <2>7, <2>8
    <3>2. Sum(s, b) = Sum(p, b)
      BY <2>6, <3>1, SameSum
    <3>3. Unlisted(s, b) <=> Unlisted(p, b)
      BY <3>1 DEF Unlisted
    <3>4. AddsUp(p, b)
      BY <2>2
    <3> QED BY <2>6, <3>2, <3>3, <3>4 DEF AddsUp, Numbers
  <2>14. CashShown(s) /\ MarketShown(s)
    BY <2>2, <2>6 DEF CashShown, MarketShown, Market
  <2>15. \A g \in Held : s.positionRow[g][1] >= p.positionRow[g][1]
    <3> SUFFICES ASSUME NEW g \in Held PROVE s.positionRow[g][1] >= p.positionRow[g][1]
      OBVIOUS
    <3>1. p.positionRow[g][1] \in Nat
      BY <2>2 DEF PositionShown
    <3>2. CASE g # h \/ h[2] \notin Listed
      BY <2>8, <3>1, <3>2
    <3>3. CASE g = h /\ h[2] \in Listed
      BY <2>3, <2>9, <3>3
    <3> QED BY <3>2, <3>3
  <2>16. Follows(p, p)
    BY FollowsItself
  <2>17. CASE h[2] \in Listed
    <3>1. RightButMarkets(q, holders) /\ KeepsData(s, q)
      <4>1. {h[1]} \subseteq holders
        OBVIOUS
      <4>2. \A b \in Accounts : s.cashRow[b] = s.balance[b] \/ (b \in {h[1]} /\ s.balance[b] > 0)
        BY <2>14 DEF CashShown
      <4>3. s.cashRow \in [Accounts -> Nat]
        BY <2>14 DEF CashShown
      <4> QED BY <2>5, <2>10, <2>11, <2>12, <2>13, <4>1, <4>2, <4>3, TotalledPage DEF OnlyValued
    <3> HIDE DEF q
    <3>2. /\ q.depth = s.depth /\ q.last = s.last /\ q.marketRow = s.marketRow
          /\ q.positionRow = s.positionRow /\ q.orderRow = s.orderRow /\ q.balance = s.balance
      BY <3>1 DEF KeepsData, Fields, TotalsFields
    <3>3. Right(q, holders)
      BY <2>14, <3>1, <3>2 DEF Right, MarketShown, Market
    <3>4. \A b \in Accounts : q.cashRow[b] = p.cashRow[b]
      BY <2>2, <2>6, <3>1, <3>2 DEF RightButMarkets, CashShown
    <3>5. Follows(p, q)
      BY <2>6, <2>15, <2>16, <3>2, <3>4 DEF Follows
    <3> QED BY <2>1, <2>17, <3>3, <3>5
  <2>18. CASE h[2] \notin Listed
    <3>1. AddsUp(s, h[1])
      BY <2>3, <2>7, <2>18 DEF AddsUp, Unlisted
    <3>2. \A b \in holders : AddsUp(s, b) /\ InGrandTotal(s, b)
      BY <2>2, <2>6, <2>13, <3>1 DEF InGrandTotal, Numbers
    <3>3. Right(s, holders)
      BY <2>5, <2>10, <2>11, <2>12, <2>14, <3>2 DEF Right, RightButMarkets, OnlyValued
    <3>4. Follows(p, s)
      BY <2>6, <2>15, <2>16 DEF Follows
    <3> QED BY <2>1, <2>18, <3>3, <3>4
  <2> QED BY <2>17, <2>18
<1> QED BY <1>1, <1>2

\* The row of a market has no part in anything else.
LEMMA MarketRowApart ==
  ASSUME NEW q, RightButMarkets(q, holders), NEW r, DOMAIN r = Fields,
         \A f \in Fields \ {"marketRow"} : r[f] = q[f]
  PROVE  RightButMarkets(r, holders)
<1>1. /\ r.balance = q.balance /\ r.position = q.position /\ r.order = q.order /\ r.depth = q.depth
      /\ r.last = q.last /\ r.value = q.value /\ r.totals = q.totals /\ r.cashRow = q.cashRow
      /\ r.totalRow = q.totalRow /\ r.positionRow = q.positionRow /\ r.orderRow = q.orderRow
      /\ r.allRow = q.allRow
  BY DEF Fields
<1>2. /\ Versions(q) /\ OnlyOf(q, holders) /\ CashShown(q) /\ q.orderRow \in [Held -> Nat]
      /\ \A h \in Held : PositionShown(q, h) /\ OrderShown(q, h)
      /\ \A a \in holders : AddsUp(q, a) /\ InGrandTotal(q, a)
  BY DEF RightButMarkets
<1>3. Versions(r) /\ OnlyOf(r, holders) /\ CashShown(r)
  BY <1>1, <1>2 DEF Versions, OnlyOf, CashShown
<1>4. \A h \in Held : PositionShown(r, h) /\ OrderShown(r, h)
  BY <1>1, <1>2 DEF PositionShown, OrderShown, Market
<1>5. \A a \in holders : AddsUp(r, a) /\ InGrandTotal(r, a)
  <2> SUFFICES ASSUME NEW a \in holders PROVE AddsUp(r, a) /\ InGrandTotal(r, a)
    OBVIOUS
  <2>1. AddsUp(q, a) /\ InGrandTotal(q, a)
    BY <1>2
  <2>2. Sum(r, a) = Sum(q, a)
    BY <1>1, SameSum
  <2> QED BY <1>1, <2>1, <2>2 DEF AddsUp, InGrandTotal, Numbers, Unlisted
<1> QED BY <1>1, <1>2, <1>3, <1>4, <1>5 DEF RightButMarkets

\* Market data: the positions in the instrument are valued anew, and the totals of
\* the accounts that have them; no other total has changed.  Page m is p with the
\* new data.
LEMMA MarketDataSet ==
  ASSUME NEW p, Right(p, holders), StageInv, NEW i \in Instruments,
         NEW m, DOMAIN m = Fields, \A f \in Fields \ {"depth", "last"} : m[f] = p[f],
         m.depth \in [Instruments -> Nat], m.last \in [Instruments -> Nat],
         m.depth[i] >= p.depth[i], m.last[i] >= p.last[i],
         \A j \in Instruments \ {i} : m.depth[j] = p.depth[j] /\ m.last[j] = p.last[j]
  PROVE  /\ Right(SetMarketData(m, i), holders)
         /\ Follows(p, SetMarketData(m, i))
<1> DEFINE hs == {h \in Held : h[1] \in holders /\ h[2] = i /\ m.position[h] > 0}
           as == {h[1] : h \in hs}
           s == Valued(m, i, hs)
           q == Totalled(s, as)
           r == [q EXCEPT !.marketRow[i] = Market(q, i)]
<1>1. /\ DOMAIN p = Fields /\ Versions(p) /\ OnlyOf(p, holders) /\ MarketShown(p)
      /\ \A g \in Held : PositionShown(p, g) /\ OrderShown(p, g)
      /\ CashShown(p) /\ p.orderRow \in [Held -> Nat]
      /\ \A b \in holders : AddsUp(p, b) /\ InGrandTotal(p, b)
  BY DEF Right, RightButMarkets
<1>2. OnlyValued(m, s) /\ \A g \in Held : Revalued(m, s, i, hs, g)
  BY ValuedFields
<1>3. SetMarketData(m, i) = [q EXCEPT !.marketRow[i] = Market(m, i)]
  BY DEF SetMarketData, Totalled
<1>4. /\ as \subseteq holders
      /\ \A g \in Held : g \in hs <=> g[1] \in holders /\ g[2] = i /\ m.position[g] > 0
      /\ \A g \in Held : g \in hs => g[1] \in as
  OBVIOUS
<1> HIDE DEF hs, as, s, q, r
<1>5. /\ s.order = p.order /\ s.balance = p.balance /\ s.position = p.position
      /\ s.depth = m.depth /\ s.last = m.last
      /\ s.totals = p.totals /\ s.cashRow = p.cashRow /\ s.totalRow = p.totalRow
      /\ s.orderRow = p.orderRow /\ s.marketRow = p.marketRow /\ s.allRow = p.allRow
      /\ m.position = p.position /\ m.value = p.value /\ m.positionRow = p.positionRow
  BY <1>2 DEF OnlyValued, Fields
<1>6. /\ \A j \in Instruments \ {i} : Market(s, j) = Market(p, j)
      /\ Market(s, i) = Market(m, i)
  BY <1>5 DEF Market
<1>7. Versions(s) /\ OnlyOf(s, holders) /\ s.orderRow \in [Held -> Nat]
  BY <1>1, <1>5 DEF Versions, OnlyOf
<1>8. \A g \in Held : g[2] \in Instruments
  BY DeskAssumption
<1>9. ASSUME NEW g \in Held
      PROVE  PositionShown(s, g) /\ OrderShown(s, g) /\ s.positionRow[g][1] >= p.positionRow[g][1]
  <2>1. PositionShown(p, g) /\ OrderShown(p, g) /\ Revalued(m, s, i, hs, g)
    BY <1>1, <1>2
  <2>2. OrderShown(s, g)
    BY <1>5, <2>1 DEF OrderShown
  <2>3. /\ p.position[g] \in Nat /\ p.positionRow[g][1] \in Nat
        /\ p.positionRow[g][1] <= p.position[g]
    BY <1>1, <2>1 DEF Versions, PositionShown
  <2>4. CASE g \in hs /\ i \in Listed
    <3>1. g[2] = i /\ s.positionRow[g] = <<p.position[g], Market(s, i)>>
      BY <1>4, <1>5, <1>6, <2>1, <2>4 DEF Revalued
    <3>2. s.positionRow[g][1] = p.position[g]
      BY <3>1
    <3>3. PositionShown(s, g)
      BY <1>5, <2>3, <3>1, <3>2 DEF PositionShown
    <3> QED BY <2>2, <2>3, <3>2, <3>3
  <2>5. CASE g \notin hs \/ i \notin Listed
    <3>1. s.positionRow[g] = p.positionRow[g]
      BY <1>5, <2>1, <2>5 DEF Revalued
    <3>2. g[2] \in Listed /\ p.position[g] > 0 => g[2] # i
      BY <1>1, <1>4, <1>5, <2>5 DEF OnlyOf
    <3>3. g[2] \in Listed /\ p.position[g] > 0 => Market(s, g[2]) = Market(p, g[2])
      BY <1>6, <1>8, <3>2
    <3>4. PositionShown(s, g)
      BY <1>5, <2>1, <3>1, <3>3 DEF PositionShown
    <3> QED BY <2>2, <2>3, <3>1, <3>4
  <2> QED BY <2>4, <2>5
<1>10. ASSUME NEW b \in holders \ as
       PROVE  AddsUp(s, b)
  <2>1. \A g \in Held : g[1] = b =>
          /\ s.position[g] = p.position[g]
          /\ s.position[g] > 0 => s.value[g] = p.value[g]
    <3> SUFFICES ASSUME NEW g \in Held, g[1] = b PROVE s.value[g] = p.value[g]
      BY <1>5
    <3>1. g \notin hs
      BY <1>4, <1>10
    <3> QED BY <1>2, <1>5, <3>1 DEF Revalued
  <2>2. Sum(s, b) = Sum(p, b)
    BY <1>5, <2>1, SameSum
  <2>3. AddsUp(p, b)
    BY <1>1
  <2> QED BY <1>5, <2>2, <2>3 DEF AddsUp, Numbers, Unlisted
<1>11. RightButMarkets(q, holders) /\ KeepsData(s, q)
  <2>1. s.cashRow \in [Accounts -> Nat]
    BY <1>1, <1>5 DEF CashShown
  <2>2. \A b \in Accounts : s.cashRow[b] = s.balance[b] \/ (b \in as /\ s.balance[b] > 0)
    BY <1>1, <1>5 DEF CashShown
  <2> QED BY <1>2, <1>4, <1>7, <1>9, <1>10, <2>1, <2>2, TotalledPage DEF OnlyValued, q
<1>12. /\ DOMAIN q = Fields /\ q.depth = m.depth /\ q.last = m.last /\ q.marketRow = p.marketRow
       /\ q.positionRow = s.positionRow /\ q.orderRow = p.orderRow /\ q.balance = p.balance
  BY <1>5, <1>11 DEF KeepsData, Fields, TotalsFields
<1>13. SetMarketData(m, i) = r
  BY <1>3, <1>12 DEF Market, r
<1>14. /\ DOMAIN r = Fields
       /\ \A f \in Fields \ {"marketRow"} : r[f] = q[f]
       /\ r.marketRow = [p.marketRow EXCEPT ![i] = Market(q, i)]
  BY <1>12 DEF r, Fields
<1>15. RightButMarkets(r, holders)
  BY <1>11, <1>14, MarketRowApart
<1>16. /\ r.depth = m.depth /\ r.last = m.last /\ r.positionRow = s.positionRow
       /\ r.orderRow = p.orderRow /\ r.balance = p.balance /\ Market(r, i) = Market(q, i)
  BY <1>12, <1>14 DEF Fields, Market
<1>17. \A j \in Instruments : r.marketRow[j] = Market(r, j)
  <2> SUFFICES ASSUME NEW j \in Instruments PROVE r.marketRow[j] = Market(r, j)
    OBVIOUS
  <2>1. CASE j = i
    BY <1>1, <1>14, <1>16, <2>1 DEF MarketShown
  <2>2. CASE j # i
    <3>1. r.marketRow[j] = Market(p, j)
      BY <1>1, <1>14, <2>2 DEF MarketShown
    <3> QED BY <1>16, <2>2, <3>1 DEF Market
  <2> QED BY <2>1, <2>2
<1>18. DOMAIN r.marketRow = Instruments
  BY <1>1, <1>14 DEF MarketShown
<1>19. Right(r, holders)
  BY <1>15, <1>17, <1>18 DEF Right, MarketShown
<1>20. \A j \in Instruments : \A n \in 1..2 : r.marketRow[j][n] >= p.marketRow[j][n]
  <2> SUFFICES ASSUME NEW j \in Instruments, NEW n \in 1..2
               PROVE  r.marketRow[j][n] >= p.marketRow[j][n]
    OBVIOUS
  <2>1. /\ r.marketRow[j] = <<m.depth[j], m.last[j]>> /\ p.marketRow[j] = <<p.depth[j], p.last[j]>>
        /\ p.depth[j] \in Nat /\ p.last[j] \in Nat /\ m.depth[j] \in Nat /\ m.last[j] \in Nat
    BY <1>1, <1>16, <1>17 DEF MarketShown, Market, Versions
  <2>2. m.depth[j] >= p.depth[j] /\ m.last[j] >= p.last[j]
    BY <2>1
  <2>3. n = 1 \/ n = 2
    OBVIOUS
  <2> QED BY <2>1, <2>2, <2>3
<1>21. \A b \in Accounts : r.cashRow[b] = p.cashRow[b]
  BY <1>1, <1>15, <1>16 DEF RightButMarkets, CashShown
<1>22. Follows(p, p)
  BY FollowsItself
<1>23. Follows(p, r)
  BY <1>9, <1>16, <1>20, <1>21, <1>22 DEF Follows
<1> QED BY <1>13, <1>19, <1>23

--------------------------------------------------------------------------------
(* Messages *)

\* One page follows another in turn.
LEMMA FollowsInTurn ==
  ASSUME NEW p, NEW q, NEW r, Right(p, holders), Right(q, holders), Right(r, holders),
         Follows(p, q), Follows(q, r)
  PROVE  Follows(p, r)
<1>1. \A a \in Accounts : r.cashRow[a] >= p.cashRow[a]
  <2> SUFFICES ASSUME NEW a \in Accounts PROVE r.cashRow[a] >= p.cashRow[a]
    OBVIOUS
  <2>1. p.cashRow[a] \in Nat /\ q.cashRow[a] \in Nat /\ r.cashRow[a] \in Nat
    BY RowsAreNumbers
  <2>2. q.cashRow[a] >= p.cashRow[a] /\ r.cashRow[a] >= q.cashRow[a]
    BY DEF Follows
  <2> QED BY <2>1, <2>2
<1>2. \A h \in Held : r.positionRow[h][1] >= p.positionRow[h][1] /\ r.orderRow[h] >= p.orderRow[h]
  <2> SUFFICES ASSUME NEW h \in Held
               PROVE  r.positionRow[h][1] >= p.positionRow[h][1] /\ r.orderRow[h] >= p.orderRow[h]
    OBVIOUS
  <2>1. /\ p.positionRow[h][1] \in Nat /\ q.positionRow[h][1] \in Nat /\ r.positionRow[h][1] \in Nat
        /\ p.orderRow[h] \in Nat /\ q.orderRow[h] \in Nat /\ r.orderRow[h] \in Nat
    BY RowsAreNumbers
  <2>2. /\ q.positionRow[h][1] >= p.positionRow[h][1] /\ r.positionRow[h][1] >= q.positionRow[h][1]
        /\ q.orderRow[h] >= p.orderRow[h] /\ r.orderRow[h] >= q.orderRow[h]
    BY DEF Follows
  <2> QED BY <2>1, <2>2
<1>3. \A i \in Instruments : \A n \in 1..2 : r.marketRow[i][n] >= p.marketRow[i][n]
  <2> SUFFICES ASSUME NEW i \in Instruments, NEW n \in 1..2
               PROVE  r.marketRow[i][n] >= p.marketRow[i][n]
    OBVIOUS
  <2>1. /\ p.marketRow[i][n] \in Nat /\ q.marketRow[i][n] \in Nat /\ r.marketRow[i][n] \in Nat
    BY RowsAreNumbers
  <2>2. q.marketRow[i][n] >= p.marketRow[i][n] /\ r.marketRow[i][n] >= q.marketRow[i][n]
    BY DEF Follows
  <2> QED BY <2>1, <2>2
<1> QED BY <1>1, <1>2, <1>3 DEF Follows

\* A depth, a last trade.
LEMMA DepthHandled ==
  ASSUME NEW p, Right(p, holders), StageInv, NEW i \in Instruments, NEW v \in Nat
  PROVE  Right(HandleDepth(p, i, v), holders) /\ Follows(p, HandleDepth(p, i, v))
<1> DEFINE m == [p EXCEPT !.depth[i] = v]
<1>1. CASE ~Newer(p.depth[i], v)
  <2>1. HandleDepth(p, i, v) = p
    BY <1>1 DEF HandleDepth
  <2> QED BY <2>1, FollowsItself
<1>2. CASE Newer(p.depth[i], v)
  <2>1. HandleDepth(p, i, v) = SetMarketData(m, i)
    BY <1>2 DEF HandleDepth
  <2>2. DOMAIN p = Fields /\ p.depth \in [Instruments -> Nat] /\ p.last \in [Instruments -> Nat]
    BY DEF Right, RightButMarkets, Versions
  <2>3. /\ DOMAIN m = Fields /\ m.depth = [p.depth EXCEPT ![i] = v] /\ m.last = p.last
        /\ \A f \in Fields \ {"depth", "last"} : m[f] = p[f]
    BY <2>2 DEF Fields
  <2> HIDE DEF m
  <2>4. /\ m.depth \in [Instruments -> Nat] /\ m.last \in [Instruments -> Nat]
        /\ m.depth[i] >= p.depth[i] /\ m.last[i] >= p.last[i]
        /\ \A j \in Instruments \ {i} : m.depth[j] = p.depth[j] /\ m.last[j] = p.last[j]
    BY <1>2, <2>2, <2>3 DEF Newer
  <2>5. Right(SetMarketData(m, i), holders) /\ Follows(p, SetMarketData(m, i))
    BY <2>3, <2>4, MarketDataSet
  <2> QED BY <2>1, <2>5
<1> QED BY <1>1, <1>2

LEMMA LastTradeHandled ==
  ASSUME NEW p, Right(p, holders), StageInv, NEW i \in Instruments, NEW v \in Nat
  PROVE  Right(HandleLastTrade(p, i, v), holders) /\ Follows(p, HandleLastTrade(p, i, v))
<1> DEFINE m == [p EXCEPT !.last[i] = v]
<1>1. CASE ~Newer(p.last[i], v)
  <2>1. HandleLastTrade(p, i, v) = p
    BY <1>1 DEF HandleLastTrade
  <2> QED BY <2>1, FollowsItself
<1>2. CASE Newer(p.last[i], v)
  <2>1. HandleLastTrade(p, i, v) = SetMarketData(m, i)
    BY <1>2 DEF HandleLastTrade
  <2>2. DOMAIN p = Fields /\ p.depth \in [Instruments -> Nat] /\ p.last \in [Instruments -> Nat]
    BY DEF Right, RightButMarkets, Versions
  <2>3. /\ DOMAIN m = Fields /\ m.last = [p.last EXCEPT ![i] = v] /\ m.depth = p.depth
        /\ \A f \in Fields \ {"depth", "last"} : m[f] = p[f]
    BY <2>2 DEF Fields
  <2> HIDE DEF m
  <2>4. /\ m.depth \in [Instruments -> Nat] /\ m.last \in [Instruments -> Nat]
        /\ m.depth[i] >= p.depth[i] /\ m.last[i] >= p.last[i]
        /\ \A j \in Instruments \ {i} : m.depth[j] = p.depth[j] /\ m.last[j] = p.last[j]
    BY <1>2, <2>2, <2>3 DEF Newer
  <2>5. Right(SetMarketData(m, i), holders) /\ Follows(p, SetMarketData(m, i))
    BY <2>3, <2>4, MarketDataSet
  <2> QED BY <2>1, <2>5
<1> QED BY <1>1, <1>2

\* A message that fits leaves a page right, and no row goes back: an update is a
\* balance, a position and an order state in turn, as far as it has them.
LEMMA MessageHandled ==
  ASSUME NEW p, Right(p, holders), StageInv, NEW m, Fit(m, holders)
  PROVE  Right(Handle(p, m), holders) /\ Follows(p, Handle(p, m))
<1>1. CASE FitMarket(m)
  <2>1. m.to.of \in Instruments /\ m.version \in Nat
    BY <1>1 DEF FitMarket
  <2>2. CASE m.to.kind = "depth"
    <3>1. Handle(p, m) = HandleDepth(p, m.to.of, m.version)
      BY <2>2 DEF Handle
    <3> QED BY <2>1, <3>1, DepthHandled
  <2>3. CASE m.to.kind = "last_trade"
    <3>1. Handle(p, m) = HandleLastTrade(p, m.to.of, m.version)
      BY <2>3 DEF Handle
    <3> QED BY <2>1, <3>1, LastTradeHandled
  <2> QED BY <1>1, <2>2, <2>3 DEF FitMarket
<1>2. CASE FitUpdate(m, holders)
  <2> DEFINE q == IF "balance" \in DOMAIN m THEN HandleBalance(p, m.to.of, m.balance) ELSE p
             r == IF "position" \in DOMAIN m THEN HandlePosition(q, m.held, m.position) ELSE q
             s == IF "order" \in DOMAIN m THEN HandleOrderState(r, m.held, m.order) ELSE r
  <2>1. Handle(p, m) = s
    BY <1>2 DEF Handle, FitUpdate
  <2>2. Right(q, holders) /\ Follows(p, q)
    <3>1. CASE "balance" \in DOMAIN m
      <4>1. m.to.of \in holders /\ m.balance \in Nat /\ q = HandleBalance(p, m.to.of, m.balance)
        BY <1>2, <3>1 DEF FitUpdate
      <4> QED BY <4>1, BalanceHandled
    <3>2. CASE "balance" \notin DOMAIN m
      BY <3>2, FollowsItself
    <3> QED BY <3>1, <3>2
  <2> HIDE DEF q
  <2>3. Right(r, holders) /\ Follows(q, r)
    <3>1. CASE "position" \in DOMAIN m
      <4>1. /\ m.held \in Held /\ m.held[1] \in holders /\ m.position \in Nat
            /\ r = HandlePosition(q, m.held, m.position)
        BY <1>2, <3>1 DEF FitUpdate
      <4> QED BY <2>2, <4>1, PositionHandled
    <3>2. CASE "position" \notin DOMAIN m
      BY <2>2, <3>2, FollowsItself
    <3> QED BY <3>1, <3>2
  <2> HIDE DEF r
  <2>4. Right(s, holders) /\ Follows(r, s)
    <3>1. CASE "order" \in DOMAIN m
      <4>1. m.held \in Held /\ m.order \in Nat /\ s = HandleOrderState(r, m.held, m.order)
        BY <1>2, <3>1 DEF FitUpdate
      <4> QED BY <2>3, <4>1, OrderStateHandled
    <3>2. CASE "order" \notin DOMAIN m
      BY <2>3, <3>2, FollowsItself
    <3> QED BY <3>1, <3>2
  <2> HIDE DEF s
  <2>5. Follows(p, r)
    BY <2>2, <2>3, FollowsInTurn
  <2>6. Follows(p, s)
    BY <2>3, <2>4, <2>5, FollowsInTurn
  <2> QED BY <2>1, <2>4, <2>6
<1> QED BY <1>1, <1>2 DEF Fit

--------------------------------------------------------------------------------
(* What is on its way *)

\* A destination tells whose it is.
LEMMA DestinationOf ==
  ASSUME NEW k
  PROVE  /\ \A a : Updates(a) \in Destination(k) => a \in k
         /\ \A i : Depth(i) \in Destination(k) => i \in Instruments
         /\ \A i : LastTrade(i) \in Destination(k) => i \in Instruments
BY DEF Destination, Updates, Depth, LastTrade

\* The messages of the broker fit a page with an entry for their account.
LEMMA MessagesFit ==
  ASSUME NEW k
  PROVE  /\ \A a \in k, b \in Nat : Fit(BalanceMsg(a, b), k)
         /\ \A h \in Held, v \in Nat : h[1] \in k =>
              /\ Fit(PositionMsg(h, v), k) /\ Fit(OrderMsg(h, v), k)
              /\ FitUpdate(OrderMsg(h, v), k)
              /\ \A b \in Nat : Fit(FillMsg(h, b, v), k) /\ FitUpdate(FillMsg(h, b, v), k)
         /\ \A i \in Instruments, v \in Nat : Fit(DepthMsg(i, v), k) /\ Fit(LastTradeMsg(i, v), k)
<1>1. \A a \in k, b \in Nat : FitUpdate(BalanceMsg(a, b), k)
  BY DEF FitUpdate, BalanceMsg, Updates
<1>2. \A h \in Held, v \in Nat : h[1] \in k => FitUpdate(PositionMsg(h, v), k)
  BY DEF FitUpdate, PositionMsg, Updates
<1>3. \A h \in Held, v \in Nat : h[1] \in k => FitUpdate(OrderMsg(h, v), k)
  BY DEF FitUpdate, OrderMsg, Updates
<1>4. \A h \in Held, v \in Nat, b \in Nat : h[1] \in k => FitUpdate(FillMsg(h, b, v), k)
  BY DEF FitUpdate, FillMsg, Updates
<1>5. \A i \in Instruments, v \in Nat : FitMarket(DepthMsg(i, v)) /\ FitMarket(LastTradeMsg(i, v))
  BY DEF FitMarket, DepthMsg, LastTradeMsg, Depth, LastTrade
<1> QED BY <1>1, <1>2, <1>3, <1>4, <1>5 DEF Fit

\* What fits still fits when there are more accounts with an entry.
LEMMA FitsMore ==
  ASSUME NEW k, NEW l, k \subseteq l
  PROVE  Destination(k) \subseteq Destination(l) /\ \A m : Fit(m, k) => Fit(m, l)
BY DEF Destination, Fit, FitUpdate

\* An update of an account, sent to whoever subscribed to it, fits.
LEMMA UpdateSent ==
  ASSUME NEW m, FitUpdate(m, Accounts), Send(m), served \subseteq Destination(holders),
         \A n \in inflight : Fit(n, holders)
  PROVE  \A n \in inflight' : Fit(n, holders)
<1>1. ASSUME m.to \in served PROVE Fit(m, holders)
  <2>1. m.to.kind = "updates"
    BY DEF FitUpdate
  <2>2. PICK a \in holders : m.to = Updates(a)
    BY <1>1, <2>1 DEF Destination, Depth, LastTrade
  <2>3. m.to.of \in holders
    BY <2>2 DEF Updates
  <2> QED BY <2>1, <2>3 DEF FitUpdate, Fit
<1> QED BY <1>1 DEF Send

\* Subscribing to destinations of accounts with an entry.
LEMMA Subscribed ==
  ASSUME ServerVersions, NEW k, NEW ds, ds \subseteq Destination(k), SendSubscribe(ds),
         served \subseteq Destination(k), \A m \in inflight : Fit(m, k),
         \A r \in requests : r.account \in k /\ r.scope \in {"balance", "positions", "orders"}
  PROVE  /\ served' \subseteq Destination(k) /\ \A m \in inflight' : Fit(m, k)
         /\ \A r \in requests' : r.account \in k /\ r.scope \in {"balance", "positions", "orders"}
<1>1. /\ served' = served \cup ds
      /\ inflight' = inflight \cup Retained(ds)
      /\ requests' = requests \cup
           UNION {[account : {a}, scope : Scopes(a)] : a \in {a \in Accounts : Updates(a) \in ds}}
  BY DEF SendSubscribe
<1>2. \A i \in Instruments : retained.depth[i] \in Nat /\ retained.last[i] \in Nat
  BY DEF ServerVersions
<1>3. \A m \in Retained(ds) : Fit(m, k)
  BY <1>2, MessagesFit DEF Retained
<1>4. ASSUME NEW a \in Accounts, Updates(a) \in ds, NEW r \in [account : {a}, scope : Scopes(a)]
      PROVE  r.account \in k /\ r.scope \in {"balance", "positions", "orders"}
  <2>1. a \in k
    BY <1>4, DestinationOf
  <2>2. r.account = a /\ r.scope \in Scopes(a)
    BY <1>4
  <2> QED BY <2>1, <2>2 DEF Scopes
<1>5. ASSUME NEW r \in requests'
      PROVE  r.account \in k /\ r.scope \in {"balance", "positions", "orders"}
  BY <1>1, <1>4, <1>5
<1> QED BY <1>1, <1>3, <1>5

\* The answer to a GET for an account with an entry.
LEMMA RepliesFit ==
  ASSUME ServerVersions, NEW k, k \subseteq Accounts, NEW r, r.account \in k,
         r.scope \in {"balance", "positions", "orders"}
  PROVE  \A m \in Replies(r) : Fit(m, k)
<1> DEFINE mine == {h \in Held : h[1] = r.account}
<1>1. server.balance[r.account] \in Nat
  BY DEF ServerVersions, Versions
<1>2. \A h \in Held : server.position[h] \in Nat /\ server.order[h] \in Nat
  BY DEF ServerVersions, Versions
<1>3. CASE r.scope = "balance"
  <2>1. Replies(r) = {BalanceMsg(r.account, server.balance[r.account])}
    BY <1>3 DEF Replies
  <2> QED BY <1>1, <2>1, MessagesFit
<1>4. CASE r.scope = "positions"
  <2>1. Replies(r) = {PositionMsg(h, server.position[h]) : h \in {h \in mine : server.position[h] > 0}}
    BY <1>4 DEF Replies
  <2> QED BY <1>2, <2>1, MessagesFit
<1>5. CASE r.scope = "orders"
  <2>1. Replies(r) = {OrderMsg(h, server.order[h]) : h \in {h \in mine : server.order[h] > 0}}
    BY <1>5 DEF Replies
  <2> QED BY <1>2, <2>1, MessagesFit
<1> QED BY <1>3, <1>4, <1>5

\* An entry made for an account that has sent nothing yet leaves the page right.
LEMMA EntriesMade ==
  ASSUME NEW p, Right(p, {}), NEW k, k \subseteq Accounts
  PROVE  Right(p, k)
<1>1. \A a \in Accounts : p.totals[a] = NoTotals
  BY DEF Right, RightButMarkets, OnlyOf
<1>2. \A a \in k : AddsUp(p, a) /\ InGrandTotal(p, a)
  BY <1>1 DEF AddsUp, InGrandTotal, Numbers
<1>3. OnlyOf(p, k)
  BY <1>1 DEF Right, RightButMarkets, OnlyOf
<1> QED BY <1>2, <1>3 DEF Right, RightButMarkets

--------------------------------------------------------------------------------
(* The invariant *)

LEMMA InitDesk == Init => DeskInv
<1> SUFFICES ASSUME Init PROVE DeskInv
  OBVIOUS
<1>1. ServerVersions
  BY DEF Init, ServerVersions, Versions
<1>2. StageInv /\ LinkInv
  BY DEF Init, StageInv, LinkInv
<1>3. holders = {} /\ page = EmptyPage
  BY DEF Init
<1>4. /\ DOMAIN EmptyPage = Fields /\ Versions(EmptyPage)
      /\ EmptyPage.orderRow \in [Held -> Nat] /\ EmptyPage.cashRow \in [Accounts -> Nat]
  BY DEF EmptyPage, Fields, Versions
<1>5. OnlyOf(EmptyPage, {})
  BY DEF EmptyPage, OnlyOf
<1>6. \A h \in Held : PositionShown(EmptyPage, h) /\ OrderShown(EmptyPage, h)
  BY DEF EmptyPage, PositionShown, OrderShown
<1>7. CashShown(EmptyPage)
  BY <1>4 DEF EmptyPage, CashShown
<1>8. MarketShown(EmptyPage)
  BY DEF EmptyPage, MarketShown, Market, NoMarket
<1>9. Right(EmptyPage, {})
  BY <1>4, <1>5, <1>6, <1>7, <1>8 DEF Right, RightButMarkets
<1> QED BY <1>1, <1>2, <1>3, <1>9 DEF DeskInv

\* A commit: what is to be told of it is well-formed.
LEMMA CommitDesk ==
  ASSUME DeskInv, NEW h \in Held, Commit(h)
  PROVE  DeskInv'
<1>1. /\ ServerVersions /\ StageInv /\ LinkInv /\ Right(page, holders)
      /\ served' = served /\ requests' = requests /\ inflight' = inflight /\ retained' = retained
      /\ holders' = holders /\ page' = page /\ stage' = stage /\ subscriptions' = subscriptions
  BY DEF DeskInv, Commit, linkVars, pageVars
<1>2. /\ server.balance \in [Accounts -> Nat] /\ server.position \in [Held -> Nat]
      /\ server.order \in [Held -> Nat] /\ server.depth \in [Instruments -> Nat]
      /\ server.last \in [Instruments -> Nat]
      /\ DOMAIN server = {"balance", "position", "order", "depth", "last"}
      /\ h[1] \in Accounts
  BY <1>1, DeskAssumption DEF ServerVersions, Versions
<1>3. ASSUME NEW m, FitUpdate(m, Accounts), Tell(m)
      PROVE  \A n \in unsent' : FitUpdate(n, Accounts)
  BY <1>1, <1>3 DEF Tell, LinkInv
<1>4. ServerVersions' /\ \A n \in unsent' : FitUpdate(n, Accounts)
  <2>1. ASSUME server' = [server EXCEPT !.balance[h[1]] = @ + 1, !.position[h] = @ + 1],
               Tell(FillMsg(h, server'.balance[h[1]], server'.position[h]))
        PROVE  ServerVersions' /\ \A n \in unsent' : FitUpdate(n, Accounts)
    <3>1. ServerVersions'
      BY <1>1, <1>2, <2>1 DEF ServerVersions, Versions
    <3>2. server'.balance[h[1]] \in Nat /\ server'.position[h] \in Nat
      BY <1>2, <3>1 DEF ServerVersions, Versions
    <3>3. FitUpdate(FillMsg(h, server'.balance[h[1]], server'.position[h]), Accounts)
      BY <1>2, <3>2, MessagesFit
    <3> QED BY <1>3, <2>1, <3>1, <3>3
  <2>2. ASSUME server' = [server EXCEPT !.order[h] = @ + 1], Tell(OrderMsg(h, server'.order[h]))
        PROVE  ServerVersions' /\ \A n \in unsent' : FitUpdate(n, Accounts)
    <3>1. ServerVersions'
      BY <1>1, <1>2, <2>2 DEF ServerVersions, Versions
    <3>2. server'.order[h] \in Nat
      BY <3>1 DEF ServerVersions, Versions
    <3>3. FitUpdate(OrderMsg(h, server'.order[h]), Accounts)
      BY <1>2, <3>2, MessagesFit
    <3> QED BY <1>3, <2>2, <3>1, <3>3
  <2> QED BY <2>1, <2>2 DEF Commit
<1>5. StageInv' /\ LinkInv'
  BY <1>1, <1>4 DEF StageInv, LinkInv
<1> QED BY <1>1, <1>4, <1>5 DEF DeskInv

\* A broadcast, after the COMMIT or without one, reaches the page only for an
\* account it has subscribed to.
LEMMA BroadcastDesk ==
  ASSUME DeskInv,
         \/ \E m \in unsent : Broadcast(m)
         \/ \E h \in Held : BroadcastUncommitted(h)
  PROVE  DeskInv'
<1>1. /\ ServerVersions /\ StageInv /\ LinkInv /\ Right(page, holders)
      /\ server' = server /\ retained' = retained /\ unsent' \subseteq unsent
      /\ served' = served /\ requests' = requests
      /\ holders' = holders /\ page' = page /\ stage' = stage /\ subscriptions' = subscriptions
  BY DEF DeskInv, Broadcast, BroadcastUncommitted, serverVars, pageVars
<1>2. PICK m : FitUpdate(m, Accounts) /\ Send(m)
  <2>1. ASSUME NEW n \in unsent, Broadcast(n) PROVE \E m : FitUpdate(m, Accounts) /\ Send(m)
    BY <1>1, <2>1 DEF Broadcast, LinkInv
  <2>2. ASSUME NEW h \in Held, BroadcastUncommitted(h)
        PROVE  \E m : FitUpdate(m, Accounts) /\ Send(m)
    <3>1. h[1] \in Accounts /\ server.order[h] \in Nat
      BY <1>1, DeskAssumption DEF ServerVersions, Versions
    <3>2. PICK v \in 2..(server.order[h] + 1) : Send(OrderMsg(h, v))
      BY <2>2 DEF BroadcastUncommitted
    <3>3. v \in Nat
      BY <3>1
    <3>4. FitUpdate(OrderMsg(h, v), Accounts)
      BY <3>1, <3>3, MessagesFit
    <3> QED BY <3>2, <3>4
  <2> QED BY <2>1, <2>2
<1>3. \A n \in inflight' : Fit(n, holders)
  BY <1>1, <1>2, UpdateSent DEF LinkInv
<1>4. ServerVersions' /\ StageInv' /\ LinkInv'
  BY <1>1, <1>3 DEF ServerVersions, StageInv, LinkInv
<1> QED BY <1>1, <1>4 DEF DeskInv

\* Market data fits whoever subscribed.
LEMMA RelayDesk ==
  ASSUME DeskInv, NEW i \in Instruments, Relay(i)
  PROVE  DeskInv'
<1>1. /\ ServerVersions /\ StageInv /\ LinkInv /\ Right(page, holders)
      /\ served' = served /\ requests' = requests /\ retained' = retained /\ unsent' = unsent
      /\ holders' = holders /\ page' = page /\ stage' = stage /\ subscriptions' = subscriptions
  BY DEF DeskInv, Relay, pageVars
<1>2. /\ server.balance \in [Accounts -> Nat] /\ server.position \in [Held -> Nat]
      /\ server.order \in [Held -> Nat] /\ server.depth \in [Instruments -> Nat]
      /\ server.last \in [Instruments -> Nat]
      /\ DOMAIN server = {"balance", "position", "order", "depth", "last"}
  BY <1>1 DEF ServerVersions, Versions
<1>3. ASSUME NEW m, Fit(m, holders), Send(m)
      PROVE  \A n \in inflight' : Fit(n, holders)
  BY <1>1, <1>3 DEF Send, LinkInv
<1>4. ServerVersions' /\ \A n \in inflight' : Fit(n, holders)
  <2>1. ASSUME server' = [server EXCEPT !.depth[i] = @ + 1], Send(DepthMsg(i, server'.depth[i]))
        PROVE  ServerVersions' /\ \A n \in inflight' : Fit(n, holders)
    <3>1. ServerVersions'
      BY <1>1, <1>2, <2>1 DEF ServerVersions, Versions
    <3>2. server'.depth[i] \in Nat
      BY <3>1 DEF ServerVersions, Versions
    <3> QED BY <1>3, <2>1, <3>1, <3>2, MessagesFit
  <2>2. ASSUME server' = [server EXCEPT !.last[i] = @ + 1], Send(LastTradeMsg(i, server'.last[i]))
        PROVE  ServerVersions' /\ \A n \in inflight' : Fit(n, holders)
    <3>1. ServerVersions'
      BY <1>1, <1>2, <2>2 DEF ServerVersions, Versions
    <3>2. server'.last[i] \in Nat
      BY <3>1 DEF ServerVersions, Versions
    <3> QED BY <1>3, <2>2, <3>1, <3>2, MessagesFit
  <2> QED BY <2>1, <2>2 DEF Relay
<1>5. StageInv' /\ LinkInv'
  BY <1>1, <1>4 DEF StageInv, LinkInv
<1> QED BY <1>1, <1>4, <1>5 DEF DeskInv

LEMMA RetainDesk ==
  ASSUME DeskInv, NEW i \in Instruments, Retain(i)
  PROVE  DeskInv'
<1>1. /\ ServerVersions /\ StageInv /\ LinkInv /\ Right(page, holders)
      /\ server' = server /\ unsent' = unsent
      /\ served' = served /\ requests' = requests /\ inflight' = inflight
      /\ holders' = holders /\ page' = page /\ stage' = stage /\ subscriptions' = subscriptions
      /\ retained' = [retained EXCEPT !.depth[i] = server.depth[i], !.last[i] = server.last[i]]
  BY DEF DeskInv, Retain, linkVars, pageVars
<1>2. server.depth[i] \in Nat /\ server.last[i] \in Nat
  BY <1>1 DEF ServerVersions, Versions
<1>3. ServerVersions'
  BY <1>1, <1>2 DEF ServerVersions
<1>4. StageInv' /\ LinkInv'
  BY <1>1 DEF StageInv, LinkInv
<1> QED BY <1>1, <1>3, <1>4 DEF DeskInv

LEMMA AnswerDesk ==
  ASSUME DeskInv, NEW r \in requests, Answer(r)
  PROVE  DeskInv'
<1>1. /\ ServerVersions /\ StageInv /\ LinkInv /\ Right(page, holders)
      /\ server' = server /\ retained' = retained /\ unsent' = unsent
      /\ served' = served /\ holders' = holders /\ page' = page
      /\ stage' = stage /\ subscriptions' = subscriptions /\ requests' = requests \ {r}
  BY DEF DeskInv, Answer, pageVars, serverVars
<1>2. r.account \in holders /\ r.scope \in {"balance", "positions", "orders"} /\ holders \subseteq Accounts
  BY <1>1 DEF LinkInv, StageInv
<1>3. \A m \in Replies(r) : Fit(m, holders)
  BY <1>1, <1>2, RepliesFit
<1>4. inflight' \subseteq inflight \cup Replies(r)
  BY DEF Answer
<1>5. LinkInv'
  BY <1>1, <1>3, <1>4 DEF LinkInv
<1>6. ServerVersions' /\ StageInv'
  BY <1>1 DEF ServerVersions, StageInv
<1> QED BY <1>1, <1>5, <1>6 DEF DeskInv

LEMMA InstrumentsDesk == DeskInv /\ ProcessInstruments => DeskInv'
<1> SUFFICES ASSUME DeskInv, ProcessInstruments PROVE DeskInv'
  OBVIOUS
<1>1. /\ ServerVersions /\ StageInv /\ LinkInv /\ Right(page, holders)
      /\ server' = server /\ retained' = retained /\ unsent' = unsent
      /\ served' = served /\ holders' = holders /\ page' = page
      /\ requests' = requests /\ inflight' = inflight
      /\ stage = "loading" /\ stage' = "instruments"
      /\ subscriptions' = {Depth(i) : i \in Listed} \cup {LastTrade(i) : i \in Listed}
  BY DEF DeskInv, ProcessInstruments, linkVars, serverVars
<1>2. subscriptions' \subseteq Destination(holders)
  BY <1>1, DeskAssumption DEF Destination
<1>3. LinkInv' /\ StageInv' /\ ServerVersions'
  BY <1>1, <1>2 DEF LinkInv, StageInv, ServerVersions
<1> QED BY <1>1, <1>3 DEF DeskInv

\* The accounts get their entries; until now there were none, so nothing of theirs
\* was on its way.
LEMMA AccountsDesk == DeskInv /\ ProcessAccounts => DeskInv'
<1> SUFFICES ASSUME DeskInv, ProcessAccounts PROVE DeskInv'
  OBVIOUS
<1>1. /\ ServerVersions /\ StageInv /\ LinkInv /\ Right(page, holders)
      /\ server' = server /\ retained' = retained /\ unsent' = unsent
      /\ page' = page /\ stage' = "ready"
      /\ subscriptions' = subscriptions \cup {Updates(a) : a \in holders'}
      /\ stage = "instruments"
  BY DEF DeskInv, ProcessAccounts, serverVars
<1>2. holders = {}
  BY <1>1 DEF StageInv
<1>3. holders' \subseteq Accounts
  BY DEF ProcessAccounts
<1>4. /\ Destination(holders) \subseteq Destination(holders')
      /\ \A m : Fit(m, holders) => Fit(m, holders')
  BY <1>2, FitsMore
<1>5. /\ served \subseteq Destination(holders') /\ \A m \in inflight : Fit(m, holders')
      /\ \A r \in requests : r.account \in holders' /\ r.scope \in {"balance", "positions", "orders"}
      /\ subscriptions' \subseteq Destination(holders')
  <2>1. {Updates(a) : a \in holders'} \subseteq Destination(holders')
    BY DEF Destination
  <2> QED BY <1>1, <1>2, <1>4, <2>1 DEF LinkInv
<1>6. /\ served' \subseteq Destination(holders') /\ \A m \in inflight' : Fit(m, holders')
      /\ \A r \in requests' : r.account \in holders' /\ r.scope \in {"balance", "positions", "orders"}
  <2>1. CASE UNCHANGED <<served, requests, inflight>>
    BY <1>5, <2>1
  <2>2. CASE holders' = Accounts /\ SendSubscribe({Updates(a) : a \in Accounts})
    <3>1. {Updates(a) : a \in Accounts} \subseteq Destination(Accounts)
      BY DEF Destination
    <3> QED BY <1>1, <1>5, <2>2, <3>1, Subscribed
  <2> QED BY <2>1, <2>2 DEF ProcessAccounts
<1>7. LinkInv' /\ StageInv' /\ ServerVersions'
  BY <1>1, <1>3, <1>5, <1>6 DEF LinkInv, StageInv, ServerVersions
<1>8. Right(page, holders')
  BY <1>1, <1>2, <1>3, EntriesMade
<1> QED BY <1>1, <1>7, <1>8 DEF DeskInv

LEMMA SubscribeAllDesk == DeskInv /\ SubscribeAll => DeskInv'
<1> SUFFICES ASSUME DeskInv, SubscribeAll PROVE DeskInv'
  OBVIOUS
<1>1. /\ ServerVersions /\ StageInv /\ LinkInv /\ Right(page, holders)
      /\ server' = server /\ retained' = retained /\ unsent' = unsent
      /\ page' = page /\ stage' = stage /\ holders' = holders
      /\ subscriptions' = subscriptions
  BY DEF DeskInv, SubscribeAll, serverVars
<1>2. /\ served' \subseteq Destination(holders) /\ \A m \in inflight' : Fit(m, holders)
      /\ \A r \in requests' : r.account \in holders /\ r.scope \in {"balance", "positions", "orders"}
  <2>1. CASE UNCHANGED <<served, requests, inflight, excused>>
    BY <1>1, <2>1 DEF LinkInv
  <2>2. CASE SendSubscribe(subscriptions)
    BY <1>1, <2>2, Subscribed DEF LinkInv
  <2> QED BY <2>1, <2>2 DEF SubscribeAll
<1>3. LinkInv' /\ StageInv' /\ ServerVersions'
  BY <1>1, <1>2 DEF LinkInv, StageInv, ServerVersions
<1> QED BY <1>1, <1>3 DEF DeskInv

LEMMA LinkDesk == DeskInv /\ (OnConnect \/ Loss \/ UNCHANGED vars) => DeskInv'
<1> SUFFICES ASSUME DeskInv, OnConnect \/ Loss \/ UNCHANGED vars PROVE DeskInv'
  OBVIOUS
<1>1. /\ ServerVersions /\ StageInv /\ LinkInv /\ Right(page, holders)
      /\ server' = server /\ retained' = retained /\ unsent' = unsent
      /\ page' = page /\ stage' = stage /\ holders' = holders
      /\ subscriptions' = subscriptions
      /\ served' \subseteq served /\ requests' \subseteq requests /\ inflight' \subseteq inflight
  BY DEF DeskInv, OnConnect, Loss, vars, linkVars, pageVars, serverVars
<1>2. LinkInv' /\ StageInv' /\ ServerVersions'
  BY <1>1 DEF LinkInv, StageInv, ServerVersions
<1> QED BY <1>1, <1>2 DEF DeskInv

LEMMA ReceiveDesk ==
  ASSUME DeskInv, NEW m \in inflight, Receive(m)
  PROVE  DeskInv' /\ Follows(page, page')
<1>1. /\ ServerVersions /\ StageInv /\ LinkInv /\ Right(page, holders)
      /\ server' = server /\ retained' = retained /\ unsent' = unsent
      /\ stage' = stage /\ holders' = holders
      /\ subscriptions' = subscriptions /\ served' = served /\ requests' = requests
      /\ inflight' = inflight \ {m} /\ page' = Handle(page, m)
  BY DEF DeskInv, Receive, serverVars
<1>2. Fit(m, holders)
  BY <1>1 DEF LinkInv
<1>3. Right(Handle(page, m), holders) /\ Follows(page, Handle(page, m))
  BY <1>1, <1>2, MessageHandled
<1>4. LinkInv' /\ StageInv' /\ ServerVersions'
  BY <1>1 DEF LinkInv, StageInv, ServerVersions
<1> QED BY <1>1, <1>3, <1>4 DEF DeskInv

LEMMA NextDesk == DeskInv /\ [Next]_vars => DeskInv'
<1> SUFFICES ASSUME DeskInv, [Next]_vars PROVE DeskInv'
  OBVIOUS
<1>1. ASSUME NEW h \in Held, Commit(h) PROVE DeskInv'
  BY <1>1, CommitDesk
<1>2. ASSUME NEW r \in requests, Answer(r) PROVE DeskInv'
  BY <1>2, AnswerDesk
<1>3. CASE ProcessInstruments
  BY <1>3, InstrumentsDesk
<1>4. CASE ProcessAccounts
  BY <1>4, AccountsDesk
<1>5. CASE SubscribeAll
  BY <1>5, SubscribeAllDesk
<1>6. CASE OnConnect \/ Loss \/ UNCHANGED vars
  BY <1>6, LinkDesk
<1>7. ASSUME NEW m \in inflight, Receive(m) PROVE DeskInv'
  BY <1>7, ReceiveDesk
<1>8. CASE (\E m \in unsent : Broadcast(m)) \/ (\E h \in Held : BroadcastUncommitted(h))
  BY <1>8, BroadcastDesk
<1>9. ASSUME NEW i \in Instruments, Relay(i) PROVE DeskInv'
  BY <1>9, RelayDesk
<1>10. ASSUME NEW i \in Instruments, Retain(i) PROVE DeskInv'
  BY <1>10, RetainDesk
<1> QED BY <1>1, <1>2, <1>3, <1>4, <1>5, <1>6, <1>7, <1>8, <1>9, <1>10 DEF Next

\* The page of openbroker.js is right at all times, and only what it can take in is
\* ever on its way to it: the inductive invariant.
THEOREM DeskInvariant == Spec => []DeskInv
<1>1. Init => DeskInv
  BY InitDesk
<1>2. DeskInv /\ [Next]_vars => DeskInv'
  BY NextDesk
<1> QED BY <1>1, <1>2, PTL DEF Spec

\* The totals of an account, its row of totals and its share of the grand total
\* are those of the cash, positions and market the page has, whatever came in
\* whatever order (#updateAccountTotals and #updateTotals).
THEOREM TotalsAlwaysAddUp == Spec => []TotalsAddUp
<1>1. DeskInv => TotalsAddUp
  <2> SUFFICES ASSUME DeskInv, NEW a \in holders,
                      page.totals[a] \notin {NoTotals, NaN} /\ ~UnlistedPosition(a)
               PROVE  /\ page.totals[a] = Sum(page, a)
                      /\ a \in DOMAIN page.allRow /\ page.allRow[a] = Sum(page, a)
                      /\ page.balance[a] > 0 => page.totalRow[a] = Sum(page, a)
    BY DEF TotalsAddUp
  <2>1. AddsUp(page, a) /\ InGrandTotal(page, a)
    BY DEF DeskInv, Right, RightButMarkets
  <2>2. Numbers(page, a) /\ ~Unlisted(page, a)
    BY DEF Numbers, Unlisted, UnlistedPosition
  <2> QED BY <2>1, <2>2 DEF AddsUp, InGrandTotal
<1> QED BY <1>1, DeskInvariant, PTL

\* The rows of positions, orders, cash and markets show what the page has: the
\* handlers of openbroker.js and the callbacks of app.js agree.
THEOREM RowsAlwaysCurrent == Spec => []RowsAreCurrent
<1>1. DeskInv => RowsAreCurrent
  <2> SUFFICES ASSUME DeskInv PROVE RowsAreCurrent
    OBVIOUS
  <2>1. /\ Versions(page) /\ CashShown(page) /\ MarketShown(page)
        /\ \A h \in Held : PositionShown(page, h) /\ OrderShown(page, h)
    BY DEF DeskInv, Right, RightButMarkets
  <2>2. page.cashRow = page.balance
    <3>1. page.cashRow \in [Accounts -> Nat] /\ page.balance \in [Accounts -> Nat]
          /\ \A a \in Accounts : page.cashRow[a] = page.balance[a]
      BY <2>1 DEF CashShown, Versions
    <3> QED BY <3>1
  <2> QED BY <2>1, <2>2 DEF RowsAreCurrent, PositionShown, OrderShown, MarketShown
<1> QED BY <1>1, DeskInvariant, PTL

\* No row of a position, an order, cash or a market ever goes back, though
\* snapshots and broadcasts overtake each other: what is not newer is passed over.
THEOREM RowsNeverRecede == Spec => RowsNeverGoBack
<1> DEFINE Kept ==
      /\ \A a \in Accounts : page'.cashRow[a] >= page.cashRow[a]
      /\ \A h \in Held : /\ page'.positionRow[h][1] >= page.positionRow[h][1]
                         /\ page'.orderRow[h] >= page.orderRow[h]
      /\ \A i \in Instruments : \A n \in 1..2 : page'.marketRow[i][n] >= page.marketRow[i][n]
<1>1. DeskInv /\ [Next]_vars => [Kept]_vars
  <2> SUFFICES ASSUME DeskInv, Next PROVE Kept
    OBVIOUS
  <2>1. Follows(page, page')
    <3>1. ASSUME NEW m \in inflight, Receive(m) PROVE Follows(page, page')
      BY <3>1, ReceiveDesk
    <3>2. CASE page' = page
      BY <3>2, FollowsItself DEF DeskInv
    <3>3. page' = page \/ \E m \in inflight : Receive(m)
      BY DEF Next, Commit, BroadcastUncommitted, Broadcast, Relay, Retain, Answer, ProcessInstruments, ProcessAccounts, OnConnect, SubscribeAll,
             Loss, pageVars
    <3> QED BY <3>1, <3>2, <3>3
  <2> QED BY <2>1 DEF Follows
<1> QED BY <1>1, DeskInvariant, PTL DEF Spec, RowsNeverGoBack

================================================================================
