--------------------------- MODULE TradeBookingProofs ---------------------------
(***************************************************************************)
(* The handlers of any number of exchanges, interleaving, failing and        *)
(* restarting in any way, book executions as the ledger does: in one step    *)
(* against cash and position.  The balance row's version check makes the     *)
(* read-compute-write of a handler atomic, and its row lock, held until       *)
(* COMMIT, protects the positions of the account as well.                    *)
(***************************************************************************)
EXTENDS TradeBooking, LedgerProofs, SequenceTheorems

\* Where a handler's transaction holds the lock of its account's balance.
Locking == {"readPosition", "updatePosition", "commit"}

Places == {"idle", "locking", "publish"} \cup Transacting \cup Outcomes

Rows(h) == positions[exec[h].account][exec[h].instrument]

RowTypes ==
  /\ balance \in [Accounts -> BalanceRow]
  /\ balanceLock \in [Accounts -> Handlers \cup {None}]
  /\ positions \in [Accounts -> [Instruments -> Seq(PositionRow)]]
  /\ pc \in [Handlers -> Places]
  /\ exec \in [Handlers -> Executions \cup {NoExecution}]
  /\ mem \in [Handlers -> BalanceRow]
  /\ memPosition \in [Handlers -> [row : PositionRow, new : BOOLEAN]]
  /\ received \in 0..MaxExecutions
  /\ \A h \in Handlers : pc[h] # "idle" => exec[h] \in Executions
  /\ \A h \in Handlers : h > received => pc[h] = "idle"

\* A balance is locked by the one handler that has updated it and not committed.
LockHeld ==
  \A h \in Handlers : pc[h] \in Locking => balanceLock[exec[h].account] = h

\* What a handler has computed from the balance it read is the next balance: for
\* certain once its update has locked the row, before that if the version is
\* still the one it read.
BalanceIsNext ==
  \A h \in Handlers :
    LET row == balance[exec[h].account] IN
    /\ pc[h] = "updateBalance" =>
         /\ mem[h].version <= row.version
         /\ mem[h].version = row.version => mem[h].cash = row.cash - ExecutionCost(exec[h])
    /\ pc[h] \in Locking =>
         /\ mem[h].version = row.version + 1
         /\ mem[h].cash = row.cash - ExecutionCost(exec[h])

\* The position a handler has computed is the committed one with the execution
\* applied; it is new if and only if there is no row.
PositionIsNext ==
  \A h \in Handlers :
    pc[h] \in {"updatePosition", "commit"} =>
      /\ exec[h].instrument \in Instruments
      /\ memPosition[h].new <=> Rows(h) = <<>>
      /\ Booked(memPosition[h].row) = ApplyExecution(BookedPosition(Rows(h)), exec[h])

BookInv == RowTypes /\ LockHeld /\ BalanceIsNext /\ PositionIsNext /\ OnePositionRow

--------------------------------------------------------------------------------
(* Position rows *)

LEMMA BookedType ==
  ASSUME NEW r \in PositionRow
  PROVE  /\ Booked(r) \in Position
         /\ Booked(r).quantity = r.quantity
  BY DEF Booked, PositionRow, Position

\* A row or a position with new figures.
WithFigures(r, q, c, g) == [r EXCEPT !.quantity = q, !.cost = c, !.closedGain = g]

LEMMA ChangedRow ==
  ASSUME NEW r \in PositionRow, NEW q \in Int, NEW c \in Int, NEW g \in Int
  PROVE  /\ WithFigures(r, q, c, g) \in PositionRow
         /\ WithFigures(r, q, c, g).version = r.version
         /\ Booked(WithFigures(r, q, c, g)) = [quantity |-> q, cost |-> c, closedGain |-> g]
  <1> DEFINE s == WithFigures(r, q, c, g)
  <1>1. s \in PositionRow /\ s.version = r.version
    BY DEF PositionRow, WithFigures
  <1>2. s.quantity = q /\ s.cost = c /\ s.closedGain = g
    BY DEF PositionRow, WithFigures
  <1> HIDE DEF s
  <1>3. Booked(s) = [quantity |-> q, cost |-> c, closedGain |-> g]
    BY <1>2 DEF Booked
  <1> QED
    BY <1>1, <1>3 DEF s

LEMMA SamePosition ==
  ASSUME NEW x \in Position, NEW y \in Position,
         x.quantity = y.quantity, x.cost = y.cost, x.closedGain = y.closedGain
  PROVE  x = y
  BY DEF Position

LEMMA ChangedPosition ==
  ASSUME NEW p \in Position, NEW q \in Int, NEW c \in Int, NEW g \in Int
  PROVE  WithFigures(p, q, c, g) = [quantity |-> q, cost |-> c, closedGain |-> g]
  <1> DEFINE x == WithFigures(p, q, c, g)
             y == [quantity |-> q, cost |-> c, closedGain |-> g]
  <1>1. x \in Position /\ x.quantity = q /\ x.cost = c /\ x.closedGain = g
    BY DEF Position, WithFigures
  <1>2. y \in Position /\ y.quantity = q /\ y.cost = c /\ y.closedGain = g
    BY DEF Position
  <1> HIDE DEF x, y
  <1>3. x = y
    BY <1>1, <1>2, SamePosition
  <1> QED
    BY <1>3 DEF x, y

LEMMA ApplyToRow ==
  ASSUME NEW r \in PositionRow, NEW e \in Executions
  PROVE  /\ ApplyExecution(r, e) \in PositionRow
         /\ ApplyExecution(r, e).version = r.version
         /\ Booked(ApplyExecution(r, e)) = ApplyExecution(Booked(r), e)
  <1>0. /\ r.quantity \in Int /\ r.cost \in Int /\ r.closedGain \in Int /\ r.version \in Int
        /\ e.price \in Int /\ e.quantity \in Int
    BY BookingAssumption DEF PositionRow
  <1> DEFINE b == Booked(r)
             f == [price |-> e.price, quantity |-> e.quantity]
             opening == OpeningQuantity(r, e)
             closing == ClosingQuantity(r, e)
  <1>1. b \in Position /\ f \in Execution /\ b.quantity = r.quantity /\ b.cost = r.cost
    BY <1>0, BookedType DEF Execution, Booked
  <1>2. /\ Closes(r, e) <=> Closes(b, f)
        /\ opening = OpeningQuantity(b, f)
        /\ closing = ClosingQuantity(b, f)
        /\ CostBasis(r) = CostBasis(b)
    BY <1>1 DEF Closes, OpeningQuantity, ClosingQuantity, Excess, CostBasis
  <1>3. /\ opening \in Int
        /\ Closes(r, e) => closing \in Int /\ CostBasis(r) \in Int
    BY <1>1, <1>2, PartsOfExecution, BasisType DEF Closes
  <1>4. /\ Closes(b, e) <=> Closes(r, e)
        /\ OpeningQuantity(b, e) = opening
        /\ ClosingQuantity(b, e) = closing
        /\ CostBasis(b) = CostBasis(r)
    BY <1>1 DEF Closes, OpeningQuantity, ClosingQuantity, Excess, CostBasis
  <1> DEFINE left == r.quantity + closing
             c == IF left = 0 THEN 0 ELSE r.cost + closing * CostBasis(r)
             g == r.closedGain + (-closing) * (e.price - CostBasis(r))
  <1>5. CASE Closes(r, e)
    <2>1. left \in Int /\ c \in Int /\ g \in Int /\ opening * e.price \in Int
      BY <1>0, <1>3, <1>5
    <2>2. Closed(r, e) = [r EXCEPT !.quantity = left, !.cost = c, !.closedGain = g]
      BY DEF Closed
    <2>3. Closed(b, e) = [b EXCEPT !.quantity = left, !.cost = c, !.closedGain = g]
      <3>1. /\ b.quantity + ClosingQuantity(b, e) = left
            /\ b.closedGain = r.closedGain
        BY <1>1, <1>4 DEF Booked
      <3> QED
        BY <1>1, <1>4, <3>1 DEF Closed, Booked
    <2> HIDE DEF left, c, g, opening
    <2>4. ApplyExecution(r, e) =
            [r EXCEPT !.quantity = left + opening, !.cost = c + opening * e.price, !.closedGain = g]
      BY <1>5, <2>2 DEF ApplyExecution, PositionRow, opening
    <2>5. ApplyExecution(b, e) =
            [b EXCEPT !.quantity = left + opening, !.cost = c + opening * e.price, !.closedGain = g]
      BY <1>1, <1>4, <1>5, <2>3 DEF ApplyExecution, Position
    <2>6. left + opening \in Int /\ c + opening * e.price \in Int
      BY <1>3, <2>1
    <2> DEFINE nq == left + opening
               nc == c + opening * e.price
               rr == ApplyExecution(r, e)
               bb == ApplyExecution(b, e)
    <2>7. /\ rr = WithFigures(r, nq, nc, g)
          /\ bb = WithFigures(b, nq, nc, g)
          /\ nq \in Int /\ nc \in Int /\ g \in Int
      BY <2>1, <2>4, <2>5, <2>6 DEF WithFigures
    <2> HIDE DEF nq, nc, rr, bb, b
    <2>8. rr \in PositionRow /\ rr.version = r.version /\ Booked(rr) = bb
      BY <1>1, <2>7, ChangedRow, ChangedPosition
    <2> QED
      BY <2>8 DEF rr, bb, b
  <1>6. CASE ~Closes(r, e)
    <2>1. r.quantity + opening \in Int /\ r.cost + opening * e.price \in Int
      BY <1>0, <1>3
    <2> HIDE DEF opening
    <2>2. ApplyExecution(r, e) =
            [r EXCEPT !.quantity = r.quantity + opening, !.cost = r.cost + opening * e.price]
      BY <1>6 DEF ApplyExecution, opening
    <2>3. ApplyExecution(b, e) =
            [b EXCEPT !.quantity = b.quantity + opening, !.cost = b.cost + opening * e.price]
      BY <1>4, <1>6 DEF ApplyExecution
    <2>4. /\ ApplyExecution(r, e) =
               [r EXCEPT !.quantity = r.quantity + opening, !.cost = r.cost + opening * e.price,
                         !.closedGain = r.closedGain]
          /\ ApplyExecution(b, e) =
               [b EXCEPT !.quantity = r.quantity + opening, !.cost = r.cost + opening * e.price,
                         !.closedGain = r.closedGain]
      BY <1>1, <2>2, <2>3 DEF Booked, PositionRow
    <2> DEFINE nq == r.quantity + opening
               nc == r.cost + opening * e.price
               rr == ApplyExecution(r, e)
               bb == ApplyExecution(b, e)
    <2>5. /\ rr = WithFigures(r, nq, nc, r.closedGain)
          /\ bb = WithFigures(b, nq, nc, r.closedGain)
          /\ nq \in Int /\ nc \in Int /\ r.closedGain \in Int
      BY <1>0, <2>1, <2>4 DEF WithFigures
    <2> HIDE DEF nq, nc, rr, bb, b
    <2>6. rr \in PositionRow /\ rr.version = r.version /\ Booked(rr) = bb
      BY <1>1, <2>5, ChangedRow, ChangedPosition
    <2> QED
      BY <2>6 DEF rr, bb, b
  <1> QED
    BY <1>5, <1>6

--------------------------------------------------------------------------------
(* The invariant *)

LEMMA InitBookInv == Init => BookInv
  <1> SUFFICES ASSUME Init PROVE BookInv
    OBVIOUS
  <1>0. \A h \in Handlers : pc[h] = "idle"
    BY DEF Init
  <1>1. RowTypes
    <2>1. [cash |-> InitialCash, version |-> 0] \in BalanceRow
      BY BookingAssumption DEF BalanceRow
    <2>2. NewPosition \in PositionRow
      BY DEF NewPosition, PositionRow
    <2>3. [cash |-> 0, version |-> 0] \in BalanceRow
      BY DEF BalanceRow
    <2> QED
      BY <2>1, <2>2, <2>3, BookingAssumption DEF Init, RowTypes, Places
  <1>2. OnePositionRow
    BY DEF Init, OnePositionRow
  <1> QED
    BY <1>0, <1>1, <1>2 DEF BookInv, LockHeld, BalanceIsNext, PositionIsNext, Locking

\* What holds of one handler.
Holds(h) ==
  /\ pc[h] \in Locking => balanceLock[exec[h].account] = h
  /\ pc[h] = "updateBalance" =>
       /\ mem[h].version <= balance[exec[h].account].version
       /\ mem[h].version = balance[exec[h].account].version
            => mem[h].cash = balance[exec[h].account].cash - ExecutionCost(exec[h])
  /\ pc[h] \in Locking =>
       /\ mem[h].version = balance[exec[h].account].version + 1
       /\ mem[h].cash = balance[exec[h].account].cash - ExecutionCost(exec[h])
  /\ pc[h] \in {"updatePosition", "commit"} =>
       /\ exec[h].instrument \in Instruments
       /\ memPosition[h].new <=> Rows(h) = <<>>
       /\ Booked(memPosition[h].row) = ApplyExecution(BookedPosition(Rows(h)), exec[h])

LEMMA HoldsForAll ==
  BookInv <=> RowTypes /\ OnePositionRow /\ \A h \in Handlers : Holds(h)
  BY DEF BookInv, LockHeld, BalanceIsNext, PositionIsNext, Holds

LEMMA HoldsForAllNext ==
  BookInv' <=> RowTypes' /\ OnePositionRow' /\ \A h \in Handlers : Holds(h)'
  BY DEF BookInv, LockHeld, BalanceIsNext, PositionIsNext, Holds

\* A handler moves; the tables stay as they are.
LEMMA QuietHandler ==
  ASSUME BookInv, NEW h \in Handlers, NEW a \in Places,
         pc[h] # "idle", pc' = [pc EXCEPT ![h] = a],
         UNCHANGED <<balance, positions, exec, received>>,
         balanceLock' \in [Accounts -> Handlers \cup {None}],
         mem' \in [Handlers -> BalanceRow],
         memPosition' \in [Handlers -> [row : PositionRow, new : BOOLEAN]],
         \A g \in Handlers \ {h} :
           /\ mem'[g] = mem[g] /\ memPosition'[g] = memPosition[g]
           /\ pc[g] \in Locking => balanceLock'[exec[g].account] = balanceLock[exec[g].account],
         Holds(h)'
  PROVE  BookInv'
  <1>0. /\ \A g \in Handlers : g # h => pc'[g] = pc[g]
        /\ pc'[h] = a
        /\ pc \in [Handlers -> Places]
    BY DEF BookInv, RowTypes
  <1>1. RowTypes'
    BY <1>0 DEF BookInv, RowTypes
  <1>2. OnePositionRow'
    BY DEF BookInv, OnePositionRow
  <1>3. ASSUME NEW g \in Handlers, g # h
        PROVE  Holds(g)'
    <2>1. /\ pc'[g] = pc[g] /\ mem'[g] = mem[g] /\ memPosition'[g] = memPosition[g]
          /\ pc[g] \in Locking => balanceLock'[exec[g].account] = balanceLock[exec[g].account]
      BY <1>0, <1>3
    <2>2. Holds(g)
      BY HoldsForAll
    <2> QED
      BY <2>1, <2>2 DEF Holds, Rows
  <1> QED
    BY <1>1, <1>2, <1>3, HoldsForAllNext

LEMMA GiveUpInv ==
  ASSUME BookInv, NEW h \in Handlers, pc[h] # "idle", GiveUp(h)
  PROVE  BookInv'
  <1>1. /\ pc' = [pc EXCEPT ![h] = "lost"]
        /\ balanceLock' = [a \in Accounts |-> IF balanceLock[a] = h THEN None ELSE balanceLock[a]]
        /\ UNCHANGED <<balance, positions, exec, mem, memPosition, received>>
    BY DEF GiveUp, Return, RollBack
  <1>2. pc \in [Handlers -> Places] /\ "lost" \in Places
    BY DEF BookInv, RowTypes, Places, Outcomes
  <1>3. Holds(h)'
    BY <1>1, <1>2 DEF Holds, Locking
  <1>4. \A g \in Handlers \ {h} :
          pc[g] \in Locking => balanceLock'[exec[g].account] = balanceLock[exec[g].account]
    <2> SUFFICES ASSUME NEW g \in Handlers, g # h, pc[g] \in Locking
                 PROVE  balanceLock'[exec[g].account] = balanceLock[exec[g].account]
      OBVIOUS
    <2>1. balanceLock[exec[g].account] = g
      BY DEF BookInv, LockHeld
    <2>2. exec[g].account \in Accounts
      BY BookingAssumption DEF BookInv, RowTypes, Locking
    <2> QED
      BY <1>1, <2>1, <2>2
  <1>5. /\ balanceLock' \in [Accounts -> Handlers \cup {None}]
        /\ mem' \in [Handlers -> BalanceRow]
        /\ memPosition' \in [Handlers -> [row : PositionRow, new : BOOLEAN]]
    BY <1>1 DEF BookInv, RowTypes
  <1> QED
    BY <1>1, <1>2, <1>3, <1>4, <1>5, QuietHandler

LEMMA ReceiveInv ==
  ASSUME BookInv, NEW e \in Executions, Receive(e)
  PROVE  BookInv'
  <1> DEFINE h == received + 1
  <1>1. /\ h \in Handlers /\ received' = h /\ h \in 0..MaxExecutions
    BY BookingAssumption DEF BookInv, RowTypes, Receive, Handlers
  <1>2. pc[h] = "idle"
    BY <1>1, BookingAssumption DEF BookInv, RowTypes
  <1>3. /\ exec' = [exec EXCEPT ![h] = e] /\ pc' = [pc EXCEPT ![h] = "locking"]
        /\ UNCHANGED <<balance, balanceLock, positions, mem, memPosition>>
    BY DEF Receive, dbVars
  <1>4. \A g \in Handlers : g > h => g > received
    BY <1>1 DEF BookInv, RowTypes, Handlers
  <1> HIDE DEF h
  <1>5. \A g \in Handlers : g # h => pc'[g] = pc[g] /\ exec'[g] = exec[g]
    BY <1>1, <1>3 DEF BookInv, RowTypes
  <1>6. pc'[h] = "locking" /\ exec'[h] = e
    BY <1>1, <1>3 DEF BookInv, RowTypes
  <1>7. RowTypes'
    <2>1. pc' \in [Handlers -> Places] /\ exec' \in [Handlers -> Executions \cup {NoExecution}]
      BY <1>3 DEF BookInv, RowTypes, Places
    <2>2. \A g \in Handlers : pc'[g] # "idle" => exec'[g] \in Executions
      BY <1>5, <1>6 DEF BookInv, RowTypes
    <2>3. \A g \in Handlers : g > received' => pc'[g] = "idle"
      <3> SUFFICES ASSUME NEW g \in Handlers, g > received' PROVE pc'[g] = "idle"
        OBVIOUS
      <3>1. g > received /\ g # h
        BY <1>1, <1>4 DEF Handlers
      <3> QED
        BY <1>5, <3>1 DEF BookInv, RowTypes
    <2> QED
      BY <1>1, <1>3, <2>1, <2>2, <2>3 DEF BookInv, RowTypes
  <1>8. OnePositionRow'
    BY <1>3 DEF BookInv, OnePositionRow
  <1>9. ASSUME NEW g \in Handlers
        PROVE  Holds(g)'
    <2>1. CASE g = h
      BY <1>6, <2>1 DEF Holds, Locking
    <2>2. CASE g # h
      <3>1. Holds(g)
        BY HoldsForAll
      <3> QED
        BY <1>3, <1>5, <2>2, <3>1 DEF Holds, Rows
    <2> QED
      BY <2>1, <2>2
  <1> QED
    BY <1>7, <1>8, <1>9, HoldsForAllNext

\* A handler that is at work has an execution of a known account; what it knows.
LEMMA AtWork ==
  ASSUME BookInv, NEW h \in Handlers, pc[h] # "idle"
  PROVE  /\ exec[h] \in Executions /\ exec[h].account \in Accounts
         /\ ExecutionCost(exec[h]) \in Int
         /\ balance[exec[h].account] \in BalanceRow
         /\ mem[h] \in BalanceRow
         /\ memPosition[h].row \in PositionRow /\ memPosition[h].new \in BOOLEAN
         /\ exec[h].instrument \in Instruments => Rows(h) \in Seq(PositionRow) /\ Len(Rows(h)) <= 1
         /\ Holds(h)
  <1>1. exec[h] \in Executions /\ exec[h].account \in Accounts
        /\ exec[h].price \in Int /\ exec[h].quantity \in Int
    BY BookingAssumption DEF BookInv, RowTypes
  <1>2. ExecutionCost(exec[h]) \in Int
    BY <1>1 DEF ExecutionCost
  <1>3. exec[h].instrument \in Instruments => Rows(h) \in Seq(PositionRow) /\ Len(Rows(h)) <= 1
    BY <1>1 DEF BookInv, RowTypes, OnePositionRow, Rows
  <1>4. Holds(h)
    BY HoldsForAll
  <1> QED
    BY <1>1, <1>2, <1>3, <1>4 DEF BookInv, RowTypes

LEMMA ReadBalanceInv ==
  ASSUME BookInv, NEW h \in Handlers, ReadBalance(h)
  PROVE  BookInv'
  <1> DEFINE row == balance[exec[h].account]
             read == [row EXCEPT !.cash = row.cash - ExecutionCost(exec[h])]
  <1>1. /\ pc[h] = "locking"
        /\ mem' = [mem EXCEPT ![h] = read]
        /\ pc' = [pc EXCEPT ![h] = "updateBalance"]
        /\ UNCHANGED <<balance, balanceLock, positions, exec, memPosition, received>>
    BY DEF ReadBalance, dbVars
  <1>2. /\ row \in BalanceRow /\ ExecutionCost(exec[h]) \in Int
        /\ mem \in [Handlers -> BalanceRow] /\ pc \in [Handlers -> Places]
    BY <1>1, AtWork DEF BookInv, RowTypes
  <1>3. /\ read \in BalanceRow /\ read.version = row.version /\ row.version \in Int
        /\ read.cash = row.cash - ExecutionCost(exec[h])
    BY <1>2 DEF BalanceRow
  <1> HIDE DEF row, read
  <1>4. mem' \in [Handlers -> BalanceRow] /\ mem'[h] = read /\ pc'[h] = "updateBalance"
    BY <1>1, <1>2, <1>3
  <1>5. Holds(h)'
    BY <1>1, <1>3, <1>4 DEF Holds, Locking, row
  <1>6. /\ balanceLock' \in [Accounts -> Handlers \cup {None}]
        /\ memPosition' \in [Handlers -> [row : PositionRow, new : BOOLEAN]]
        /\ \A g \in Handlers \ {h} : mem'[g] = mem[g]
        /\ "updateBalance" \in Places
    BY <1>1, <1>2 DEF BookInv, RowTypes, Places, Transacting
  <1> QED
    BY <1>1, <1>4, <1>5, <1>6, QuietHandler

LEMMA UpdateBalanceInv ==
  ASSUME BookInv, NEW h \in Handlers, UpdateBalance(h)
  PROVE  BookInv'
  <1> DEFINE a == exec[h].account
  <1>0. pc[h] = "updateBalance" /\ balanceLock[a] = None
    BY DEF UpdateBalance
  <1>1. CASE GiveUp(h)
    BY <1>0, <1>1, GiveUpInv
  <1>2. CASE /\ VersionMatches(h)
             /\ balanceLock' = [balanceLock EXCEPT ![a] = h]
             /\ mem' = [mem EXCEPT ![h].version = mem[h].version + 1]
             /\ pc' = [pc EXCEPT ![h] = "readPosition"]
             /\ UNCHANGED <<balance, positions, exec, memPosition, received>>
    <2>1. /\ a \in Accounts /\ balance[a] \in BalanceRow /\ mem[h] \in BalanceRow
          /\ mem \in [Handlers -> BalanceRow] /\ pc \in [Handlers -> Places]
          /\ balanceLock \in [Accounts -> Handlers \cup {None}]
          /\ mem[h].version = balance[a].version
          /\ mem[h].cash = balance[a].cash - ExecutionCost(exec[h])
      BY <1>0, <1>2, AtWork DEF Holds, VersionMatches, BookInv, RowTypes
    <2>2. /\ mem' \in [Handlers -> BalanceRow]
          /\ mem'[h].version = mem[h].version + 1 /\ mem'[h].cash = mem[h].cash
          /\ \A g \in Handlers \ {h} : mem'[g] = mem[g]
      BY <1>2, <2>1 DEF BalanceRow
    <2>3. /\ balanceLock' \in [Accounts -> Handlers \cup {None}] /\ balanceLock'[a] = h
          /\ memPosition' \in [Handlers -> [row : PositionRow, new : BOOLEAN]]
          /\ pc'[h] = "readPosition" /\ "readPosition" \in Places
      BY <1>2, <2>1 DEF BookInv, RowTypes, Places, Transacting
    <2>4. Holds(h)'
      BY <1>2, <2>1, <2>2, <2>3 DEF Holds
    <2>5. \A g \in Handlers \ {h} :
            pc[g] \in Locking => balanceLock'[exec[g].account] = balanceLock[exec[g].account]
      <3> SUFFICES ASSUME NEW g \in Handlers, g # h, pc[g] \in Locking
                   PROVE  balanceLock'[exec[g].account] = balanceLock[exec[g].account]
        OBVIOUS
      <3>1. balanceLock[exec[g].account] = g /\ exec[g].account \in Accounts
        BY AtWork DEF Holds, Locking
      <3>2. exec[g].account # a
        BY <1>0, <3>1, BookingAssumption
      <3> QED
        BY <1>2, <2>1, <3>1, <3>2
    <2> QED
      BY <1>0, <1>2, <2>2, <2>3, <2>4, <2>5, QuietHandler
  <1> QED
    BY <1>1, <1>2 DEF UpdateBalance

LEMMA ReadPositionInv ==
  ASSUME BookInv, NEW h \in Handlers, ReadPosition(h)
  PROVE  BookInv'
  <1> DEFINE rows == Rows(h)
             found == IF NotFound(rows) THEN NewPosition ELSE rows[Len(rows)]
             p == [row |-> ApplyExecution(found, exec[h]), new |-> NotFound(rows)]
  <1>0. pc[h] = "readPosition"
    BY DEF ReadPosition
  <1>1. CASE GiveUp(h)
    BY <1>0, <1>1, GiveUpInv
  <1>2. CASE /\ exec[h].instrument \in Instruments
             /\ memPosition' = [memPosition EXCEPT ![h] = p]
             /\ pc' = [pc EXCEPT ![h] = "updatePosition"]
             /\ UNCHANGED <<balance, balanceLock, positions, exec, mem, received>>
    <2>1. /\ exec[h] \in Executions /\ Holds(h)
          /\ rows \in Seq(PositionRow) /\ Len(rows) <= 1
      BY <1>0, <1>2, AtWork
    <2>2. found \in PositionRow /\ Booked(found) = BookedPosition(rows)
      <3>1. CASE rows = <<>>
        BY <3>1 DEF NotFound, NewPosition, PositionRow, BookedPosition
      <3>2. CASE rows # <<>>
        <4>1. Len(rows) \in 1..Len(rows)
          BY <2>1, <3>2
        <4>2. rows[Len(rows)] \in PositionRow
          BY <2>1, <4>1
        <4> QED
          BY <3>2, <4>2 DEF NotFound, BookedPosition
      <3> QED
        BY <3>1, <3>2
    <2> HIDE DEF found
    <2>3. /\ p.row \in PositionRow
          /\ Booked(p.row) = ApplyExecution(BookedPosition(rows), exec[h])
          /\ p.new <=> rows = <<>>
          /\ p.new \in BOOLEAN
      BY <2>1, <2>2, ApplyToRow DEF NotFound
    <2>4. p \in [row : PositionRow, new : BOOLEAN]
      BY <2>3
    <2> HIDE DEF p, rows
    <2>5. /\ memPosition' \in [Handlers -> [row : PositionRow, new : BOOLEAN]]
          /\ memPosition'[h] = p
          /\ \A g \in Handlers \ {h} : memPosition'[g] = memPosition[g]
          /\ pc'[h] = "updatePosition" /\ "updatePosition" \in Places
      BY <1>2, <2>4 DEF BookInv, RowTypes, Places, Transacting
    <2>6. rows' = rows
      BY <1>2 DEF rows, Rows
    <2>7. Holds(h)'
      <3>1. /\ balanceLock'[exec'[h].account] = h
            /\ mem'[h].version = balance'[exec'[h].account].version + 1
            /\ mem'[h].cash = balance'[exec'[h].account].cash - ExecutionCost(exec'[h])
        BY <1>0, <1>2, <2>1 DEF Holds, Locking
      <3>2. /\ exec'[h].instrument \in Instruments
            /\ memPosition'[h].new <=> Rows(h)' = <<>>
            /\ Booked(memPosition'[h].row) = ApplyExecution(BookedPosition(Rows(h)'), exec'[h])
        BY <1>2, <2>3, <2>5, <2>6 DEF rows
      <3> QED
        BY <2>5, <3>1, <3>2 DEF Holds
    <2>8. balanceLock' \in [Accounts -> Handlers \cup {None}] /\ mem' \in [Handlers -> BalanceRow]
      BY <1>2 DEF BookInv, RowTypes
    <2> QED
      BY <1>0, <1>2, <2>5, <2>7, <2>8, QuietHandler
  <1> QED
    BY <1>1, <1>2 DEF ReadPosition, Rows, dbVars

LEMMA UpdatePositionInv ==
  ASSUME BookInv, NEW h \in Handlers, UpdatePosition(h)
  PROVE  BookInv'
  <1>0. pc[h] = "updatePosition"
    BY DEF UpdatePosition
  <1>1. CASE GiveUp(h)
    BY <1>0, <1>1, GiveUpInv
  <1>2. CASE /\ memPosition' = [memPosition EXCEPT ![h].row.version = memPosition[h].row.version + 1]
             /\ pc' = [pc EXCEPT ![h] = "commit"]
             /\ UNCHANGED <<balance, balanceLock, positions, exec, mem, received>>
    <2>1. /\ Holds(h) /\ memPosition[h].row \in PositionRow
          /\ memPosition \in [Handlers -> [row : PositionRow, new : BOOLEAN]]
      BY <1>0, AtWork DEF BookInv, RowTypes
    <2> DEFINE r == memPosition[h].row
               s == [r EXCEPT !.version = r.version + 1]
    <2>2. s \in PositionRow /\ Booked(s) = Booked(r)
      BY <2>1 DEF PositionRow, Booked
    <2>3. /\ memPosition'[h].row = s /\ memPosition'[h].new = memPosition[h].new
          /\ memPosition' \in [Handlers -> [row : PositionRow, new : BOOLEAN]]
          /\ \A g \in Handlers \ {h} : memPosition'[g] = memPosition[g]
      BY <1>2, <2>1, <2>2
    <2> HIDE DEF r, s
    <2>4. pc'[h] = "commit" /\ "commit" \in Places
      BY <1>2 DEF BookInv, RowTypes, Places, Transacting
    <2>5. Rows(h)' = Rows(h)
      BY <1>2 DEF Rows
    <2>6. Holds(h)'
      <3>1. /\ balanceLock'[exec'[h].account] = h
            /\ mem'[h].version = balance'[exec'[h].account].version + 1
            /\ mem'[h].cash = balance'[exec'[h].account].cash - ExecutionCost(exec'[h])
        BY <1>0, <1>2, <2>1 DEF Holds, Locking
      <3>2. /\ exec'[h].instrument \in Instruments
            /\ memPosition'[h].new <=> Rows(h)' = <<>>
            /\ Booked(memPosition'[h].row) = ApplyExecution(BookedPosition(Rows(h)'), exec'[h])
        BY <1>0, <1>2, <2>1, <2>2, <2>3, <2>5 DEF Holds, r
      <3> QED
        BY <2>4, <3>1, <3>2 DEF Holds
    <2>7. balanceLock' \in [Accounts -> Handlers \cup {None}] /\ mem' \in [Handlers -> BalanceRow]
      BY <1>2 DEF BookInv, RowTypes
    <2> QED
      BY <1>0, <1>2, <2>3, <2>4, <2>6, <2>7, QuietHandler
  <1> QED
    BY <1>1, <1>2 DEF UpdatePosition, dbVars

LEMMA OnlyRow ==
  ASSUME NEW S, NEW s \in Seq(S), s # <<>>, Len(s) <= 1, NEW r \in S
  PROVE  /\ Len(s) = 1
         /\ [s EXCEPT ![Len(s)] = r] \in Seq(S)
         /\ Len([s EXCEPT ![Len(s)] = r]) = 1
         /\ [s EXCEPT ![Len(s)] = r][1] = r
  <1>1. Len(s) \in Nat \ {0}
    BY EmptySeq
  <1>2. Len(s) = 1
    <2>1. \A n \in Nat \ {0} : n <= 1 => n = 1
      OBVIOUS
    <2> QED
      BY <1>1, <2>1
  <1>3. Len(s) \in 1..Len(s)
    BY <1>2
  <1> QED
    BY <1>2, <1>3, ExceptSeq

\* The rows a commit leaves behind are still at most one.
LEMMA CommittedRows ==
  ASSUME BookInv, NEW h \in Handlers, pc[h] = "commit"
  PROVE  /\ WithPosition(h, Rows(h)) \in Seq(PositionRow)
         /\ Len(WithPosition(h, Rows(h))) = 1
         /\ WithPosition(h, Rows(h))[1] = memPosition[h].row
  <1> DEFINE rows == Rows(h)
             r == memPosition[h].row
  <1>1. /\ Holds(h) /\ exec[h] \in Executions /\ r \in PositionRow
        /\ exec[h].instrument \in Instruments
        /\ memPosition[h].new <=> rows = <<>>
    BY AtWork DEF Holds, BookInv, RowTypes
  <1>2. rows \in Seq(PositionRow) /\ Len(rows) <= 1
    BY <1>1, AtWork
  <1> HIDE DEF rows, r
  <1>3. CASE rows = <<>>
    <2>1. WithPosition(h, rows) = <<r>>
      BY <1>1, <1>3 DEF WithPosition, r
    <2> QED
      BY <1>1, <2>1 DEF rows, r
  <1>4. CASE rows # <<>>
    <2>1. ~memPosition[h].new
      BY <1>1, <1>4, Zenon
    <2>2. WithPosition(h, rows) = [rows EXCEPT ![Len(rows)] = r]
      BY <2>1 DEF WithPosition, r
    <2>3. /\ WithPosition(h, rows) \in Seq(PositionRow)
          /\ Len(WithPosition(h, rows)) = 1
          /\ WithPosition(h, rows)[1] = r
      BY <1>1, <1>2, <1>4, <2>2, OnlyRow
    <2> QED
      BY <2>3 DEF rows, r
  <1> QED
    BY <1>3, <1>4

LEMMA CommitBookingInv ==
  ASSUME BookInv, NEW h \in Handlers, NEW place \in {"publish", "unpublished"},
         pc[h] = "commit", CommitBooking(h), pc' = [pc EXCEPT ![h] = place]
  PROVE  BookInv'
  <1> DEFINE a == exec[h].account
             i == exec[h].instrument
             rows == WithPosition(h, Rows(h))
  <1>1. /\ balance' = [balance EXCEPT ![a] = mem[h]]
        /\ positions' = [positions EXCEPT ![a][i] = rows]
        /\ balanceLock' = [balanceLock EXCEPT ![a] = None]
        /\ UNCHANGED <<exec, mem, memPosition, received>>
    BY DEF CommitBooking, Rows
  <1>2. /\ a \in Accounts /\ i \in Instruments /\ mem[h] \in BalanceRow /\ balance[a] \in BalanceRow
        /\ balanceLock[a] = h
        /\ mem[h].version = balance[a].version + 1
    BY AtWork DEF Holds, Locking, BookInv, RowTypes
  <1>3. rows \in Seq(PositionRow) /\ Len(rows) = 1
    BY CommittedRows
  <1> HIDE DEF a, i, rows
  <1>4. /\ pc'[h] = place /\ place \in Places \ {"idle"}
        /\ \A g \in Handlers : g # h => pc'[g] = pc[g]
    BY DEF BookInv, RowTypes, Places, Outcomes
  <1>5. /\ balance' \in [Accounts -> BalanceRow] /\ balance'[a] = mem[h]
        /\ \A b \in Accounts : b # a => balance'[b] = balance[b] /\ balanceLock'[b] = balanceLock[b]
    BY <1>1, <1>2 DEF BookInv, RowTypes
  <1>6. /\ positions' \in [Accounts -> [Instruments -> Seq(PositionRow)]]
        /\ positions'[a][i] = rows
        /\ \A b \in Accounts, j \in Instruments :
             b # a \/ j # i => positions'[b][j] = positions[b][j]
    BY <1>1, <1>2, <1>3 DEF BookInv, RowTypes
  <1>7. RowTypes'
    <2>1. balanceLock' \in [Accounts -> Handlers \cup {None}] /\ pc' \in [Handlers -> Places]
      BY <1>1, <1>2, <1>4 DEF BookInv, RowTypes
    <2>2. /\ \A g \in Handlers : pc'[g] # "idle" => exec'[g] \in Executions
          /\ \A g \in Handlers : g > received' => pc'[g] = "idle"
      BY <1>1, <1>4 DEF BookInv, RowTypes
    <2> QED
      BY <1>1, <1>5, <1>6, <2>1, <2>2 DEF BookInv, RowTypes
  <1>8. OnePositionRow'
    <2> SUFFICES ASSUME NEW b \in Accounts, NEW j \in Instruments
                 PROVE  Len(positions'[b][j]) <= 1
      BY DEF OnePositionRow
    <2>1. CASE b = a /\ j = i
      <3>1. positions'[b][j] = rows
        BY <1>6, <2>1
      <3>2. Len(rows) <= 1
        BY <1>3
      <3> QED
        BY <3>1, <3>2
    <2>2. CASE b # a \/ j # i
      BY <1>6, <2>2 DEF BookInv, OnePositionRow
    <2> QED
      BY <2>1, <2>2
  <1>9. ASSUME NEW g \in Handlers
        PROVE  Holds(g)'
    <2>1. CASE g = h
      BY <1>4, <2>1 DEF Holds, Locking
    <2>2. CASE g # h /\ pc[g] \in Locking
      <3>1. /\ Holds(g) /\ exec[g].account \in Accounts /\ balanceLock[exec[g].account] = g
        BY <2>2, AtWork DEF Holds, Locking
      <3>2. exec[g].account # a
        BY <1>2, <2>2, <3>1
      <3>3. /\ balance'[exec[g].account] = balance[exec[g].account]
            /\ balanceLock'[exec[g].account] = balanceLock[exec[g].account]
            /\ positions'[exec[g].account] = positions[exec[g].account]
        BY <1>1, <1>5, <3>1, <3>2 DEF BookInv, RowTypes
      <3>4. Rows(g)' = Rows(g)
        BY <1>1, <3>3 DEF Rows
      <3> QED
        BY <1>1, <1>4, <2>2, <3>1, <3>3, <3>4 DEF Holds, Locking
    <2>3. CASE g # h /\ pc[g] = "updateBalance"
      <3>1. /\ Holds(g) /\ exec[g].account \in Accounts /\ mem[g] \in BalanceRow
        BY <2>3, AtWork DEF BookInv, RowTypes
      <3>2. /\ mem[g].version <= balance[exec[g].account].version
            /\ mem[g].version = balance[exec[g].account].version
                 => mem[g].cash = balance[exec[g].account].cash - ExecutionCost(exec[g])
        BY <2>3, <3>1 DEF Holds
      <3>3. CASE exec[g].account = a
        <4>1. mem[g].version < balance'[exec[g].account].version
          BY <1>2, <1>5, <3>1, <3>2, <3>3 DEF BalanceRow
        <4>2. mem[g].version \in Int /\ balance'[exec[g].account].version \in Int
          BY <1>2, <1>5, <3>1, <3>3 DEF BalanceRow
        <4> QED
          BY <1>1, <1>4, <2>3, <4>1, <4>2 DEF Holds, Locking
      <3>4. CASE exec[g].account # a
        BY <1>1, <1>4, <1>5, <2>3, <3>1, <3>2, <3>4 DEF Holds, Locking
      <3> QED
        BY <3>3, <3>4
    <2>4. CASE g # h /\ pc[g] \notin Locking \cup {"updateBalance"}
      BY <1>4, <2>4 DEF Holds, Locking
    <2> QED
      BY <2>1, <2>2, <2>3, <2>4
  <1> QED
    BY <1>7, <1>8, <1>9, HoldsForAllNext

\* A handler that has committed returns.
LEMMA ReturnInv ==
  ASSUME BookInv, NEW h \in Handlers, NEW outcome \in Outcomes, pc[h] = "publish",
         pc' = [pc EXCEPT ![h] = outcome],
         UNCHANGED <<balance, balanceLock, positions, exec, mem, memPosition, received>>
  PROVE  BookInv'
  <1>1. pc'[h] = outcome /\ outcome \in Places
    BY DEF BookInv, RowTypes, Places
  <1>2. Holds(h)'
    BY <1>1 DEF Holds, Locking, Outcomes
  <1>3. /\ balanceLock' \in [Accounts -> Handlers \cup {None}]
        /\ mem' \in [Handlers -> BalanceRow]
        /\ memPosition' \in [Handlers -> [row : PositionRow, new : BOOLEAN]]
    BY DEF BookInv, RowTypes
  <1> QED
    BY <1>1, <1>2, <1>3, QuietHandler

LEMMA CrashInv ==
  ASSUME BookInv, Crash
  PROVE  BookInv'
  <1>1. /\ pc' = [h \in Handlers |->
                    IF pc[h] = "locking" \/ pc[h] \in Transacting THEN "lost"
                    ELSE IF pc[h] = "publish" THEN "unpublished" ELSE pc[h]]
        /\ balanceLock' = [a \in Accounts |-> None]
        /\ UNCHANGED <<balance, positions, exec, mem, memPosition, received>>
    BY DEF Crash
  <1>2. \A h \in Handlers : /\ pc'[h] \in Outcomes \cup {"idle"}
                            /\ pc'[h] = "idle" <=> pc[h] = "idle"
    BY <1>1 DEF BookInv, RowTypes, Places, Outcomes, Transacting
  <1>3. RowTypes'
    <2>1. pc' \in [Handlers -> Places] /\ balanceLock' \in [Accounts -> Handlers \cup {None}]
      BY <1>1, <1>2 DEF Places, BookInv, RowTypes
    <2>2. /\ \A h \in Handlers : pc'[h] # "idle" => exec'[h] \in Executions
          /\ \A h \in Handlers : h > received' => pc'[h] = "idle"
      BY <1>1, <1>2 DEF BookInv, RowTypes
    <2> QED
      BY <1>1, <2>1, <2>2 DEF BookInv, RowTypes
  <1>4. OnePositionRow'
    BY <1>1 DEF BookInv, OnePositionRow
  <1>5. ASSUME NEW h \in Handlers PROVE Holds(h)'
    BY <1>2 DEF Holds, Locking, Outcomes
  <1> QED
    BY <1>3, <1>4, <1>5, HoldsForAllNext

LEMMA FaultInv ==
  ASSUME BookInv, NEW h \in Handlers, Fault(h)
  PROVE  BookInv'
  <1>1. CASE GiveUp(h) /\ (pc[h] \in Transacting \/ pc[h] = "locking")
    <2>1. pc[h] # "idle"
      BY <1>1 DEF Transacting
    <2> QED
      BY <1>1, <2>1, GiveUpInv
  <1>2. CASE pc[h] = "publish" /\ Return(h, "unpublished")
             /\ UNCHANGED <<dbVars, exec, mem, memPosition, published, received>>
    BY <1>2, ReturnInv DEF Return, dbVars, Outcomes
  <1> QED
    BY <1>1, <1>2 DEF Fault

LEMMA NextBookInv == BookInv /\ [Next]_vars => BookInv'
  <1> SUFFICES ASSUME BookInv, [Next]_vars PROVE BookInv'
    OBVIOUS
  <1>1. CASE \E e \in Executions : Receive(e)
    BY <1>1, ReceiveInv
  <1>2. ASSUME NEW h \in Handlers, HandleExecution(h)
        PROVE  BookInv'
    <2>1. CASE ReadBalance(h)
      BY <2>1, ReadBalanceInv
    <2>2. CASE UpdateBalance(h)
      BY <2>2, UpdateBalanceInv
    <2>3. CASE ReadPosition(h)
      BY <2>3, ReadPositionInv
    <2>4. CASE UpdatePosition(h)
      BY <2>4, UpdatePositionInv
    <2>5. CASE Commit(h)
      BY <2>5, CommitBookingInv DEF Commit
    <2>6. CASE Publish(h)
      BY <2>6, ReturnInv DEF Publish, Return, dbVars, Outcomes
    <2> QED
      BY <1>2, <2>1, <2>2, <2>3, <2>4, <2>5, <2>6 DEF HandleExecution
  <1>3. ASSUME NEW h \in Handlers, Fault(h)
        PROVE  BookInv'
    BY <1>3, FaultInv
  <1>4. ASSUME NEW h \in Handlers, LostCommitAnswer(h)
        PROVE  BookInv'
    BY <1>4, CommitBookingInv DEF LostCommitAnswer, Return
  <1>5. CASE Crash
    BY <1>5, CrashInv
  <1>6. CASE UNCHANGED vars
    <2>1. /\ UNCHANGED <<balance, balanceLock, positions, pc, exec, mem, memPosition, received>>
      BY <1>6 DEF vars, dbVars
    <2> QED
      BY <2>1 DEF BookInv, RowTypes, LockHeld, BalanceIsNext, PositionIsNext, OnePositionRow, Rows
  <1> QED
    BY <1>1, <1>2, <1>3, <1>4, <1>5, <1>6 DEF Next, Finished

\* In every reachable state what a handler holds in memory is the next state of
\* the rows it has locked.
THEOREM BookInvariant == Spec => []BookInv
  BY InitBookInv, NextBookInv, PTL DEF Spec

\* However the handlers interleave and fail, an account has at most one position
\* row in an instrument, although get_position followed by save_position is a
\* check and an act, and no unique index backs it.
THEOREM OneRow == Spec => []OnePositionRow
  <1>1. BookInv => OnePositionRow
    BY DEF BookInv
  <1> QED
    BY <1>1, BookInvariant, PTL

--------------------------------------------------------------------------------
(* The tables implement the ledger *)

\* The ledger's fill of an execution.
FillOf(e) == [price |-> e.price, quantity |-> e.quantity]

LEMMA SameApply ==
  ASSUME NEW p, NEW e
  PROVE  /\ Books!ApplyExecution(p, FillOf(e)) = ApplyExecution(p, e)
         /\ Books!ExecutionCost(FillOf(e)) = ExecutionCost(e)
  <1> DEFINE f == FillOf(e)
  <1>1. f.price = e.price /\ f.quantity = e.quantity
    BY DEF FillOf
  <1> HIDE DEF f
  <1>2. /\ Books!Closes(p, f) <=> Closes(p, e)
        /\ Books!OpeningQuantity(p, f) = OpeningQuantity(p, e)
        /\ Books!ClosingQuantity(p, f) = ClosingQuantity(p, e)
        /\ Books!CostBasis(p) = CostBasis(p)
    BY <1>1 DEF Books!Closes, Books!OpeningQuantity, Books!ClosingQuantity, Books!CostBasis,
         Books!Excess, Books!Magnitude, Books!Signum,
         Closes, OpeningQuantity, ClosingQuantity, CostBasis, Excess, Magnitude, Signum
  <1>3. Books!Closed(p, f) = Closed(p, e)
    BY <1>1, <1>2 DEF Books!Closed, Closed
  <1>4. Books!ApplyExecution(p, f) = ApplyExecution(p, e)
    BY <1>1, <1>2, <1>3 DEF Books!ApplyExecution, ApplyExecution
  <1>5. Books!ExecutionCost(f) = ExecutionCost(e)
    BY <1>1 DEF Books!ExecutionCost, ExecutionCost
  <1> QED
    BY <1>4, <1>5 DEF f

LEMMA InitRefines == Init => Books!LedgerInit
  <1> SUFFICES ASSUME Init PROVE Books!LedgerInit
    OBVIOUS
  <1>1. [a \in Accounts |-> balance[a].cash] = [a \in Accounts |-> InitialCash]
    BY DEF Init
  <1>2. [a \in Accounts |-> balance[a].version] = [a \in Accounts |-> 0]
    BY DEF Init
  <1>3. BookedPosition(<<>>) = Books!Flat
    BY DEF BookedPosition, Booked, NewPosition, Books!Flat
  <1>4. [a \in Accounts |-> [i \in Instruments |-> BookedPosition(positions[a][i])]]
          = [a \in Accounts |-> [i \in Instruments |-> Books!Flat]]
    BY <1>3 DEF Init
  <1> QED
    BY <1>1, <1>2, <1>4 DEF Books!LedgerInit

\* A commit is the booking of the execution, whole.
LEMMA CommitBooks ==
  ASSUME BookInv, NEW h \in Handlers, pc[h] = "commit", CommitBooking(h)
  PROVE  Books!LedgerNext
  <1> DEFINE e == exec[h]
             a == e.account
             i == e.instrument
             rows == WithPosition(h, Rows(h))
  <1>1. /\ balance' = [balance EXCEPT ![a] = mem[h]]
        /\ positions' = [positions EXCEPT ![a][i] = rows]
        /\ balance \in [Accounts -> BalanceRow]
        /\ positions \in [Accounts -> [Instruments -> Seq(PositionRow)]]
    BY DEF CommitBooking, Rows, BookInv, RowTypes
  <1>2. /\ e \in Executions /\ a \in Accounts /\ i \in Instruments
        /\ mem[h].version = balance[a].version + 1
        /\ mem[h].cash = balance[a].cash - ExecutionCost(e)
        /\ Booked(memPosition[h].row) = ApplyExecution(BookedPosition(positions[a][i]), e)
    BY AtWork DEF Holds, Locking, Rows
  <1>3. BookedPosition(rows) = Booked(memPosition[h].row)
    <2>1. rows \in Seq(PositionRow) /\ Len(rows) = 1 /\ rows[1] = memPosition[h].row
      BY CommittedRows
    <2>2. rows # <<>>
      BY <2>1, EmptySeq
    <2> HIDE DEF rows
    <2> QED
      BY <2>1, <2>2 DEF BookedPosition
  <1> HIDE DEF a, i, rows, e
  <1>4. FillOf(e) \in Books!Fill
    BY <1>2 DEF FillOf, Books!Fill
  <1>5. [b \in Accounts |-> balance[b].cash]'
          = [[b \in Accounts |-> balance[b].cash] EXCEPT ![a] = @ - Books!ExecutionCost(FillOf(e))]
    BY <1>1, <1>2, SameApply
  <1>6. [b \in Accounts |-> balance[b].version]'
          = [[b \in Accounts |-> balance[b].version] EXCEPT ![a] = @ + 1]
    BY <1>1, <1>2
  <1>7. [b \in Accounts |-> [j \in Instruments |-> BookedPosition(positions[b][j])]]'
          = [[b \in Accounts |-> [j \in Instruments |-> BookedPosition(positions[b][j])]]
               EXCEPT ![a][i] = Books!ApplyExecution(@, FillOf(e))]
    <2>1. Books!ApplyExecution(BookedPosition(positions[a][i]), FillOf(e)) = BookedPosition(rows)
      BY <1>2, <1>3, SameApply
    <2>2. \A b \in Accounts, j \in Instruments :
            BookedPosition(positions'[b][j]) =
              IF b = a /\ j = i THEN BookedPosition(rows) ELSE BookedPosition(positions[b][j])
      BY <1>1, <1>2
    <2> QED
      BY <1>2, <2>1, <2>2
  <1>8. PICK b \in Accounts, j \in Instruments, f \in Books!Fill :
          b = a /\ j = i /\ f = FillOf(e)
    BY <1>2, <1>4
  <1>9. Books!Book(b, j, f)
    BY <1>5, <1>6, <1>7, <1>8 DEF Books!Book
  <1> QED
    BY <1>9 DEF Books!LedgerNext

\* Every other step leaves the books alone.
LEMMA NextRefines == BookInv /\ [Next]_vars => [Books!LedgerNext]_(Books!ledgerVars)
  <1> SUFFICES ASSUME BookInv, [Next]_vars PROVE [Books!LedgerNext]_(Books!ledgerVars)
    OBVIOUS
  <1>1. CASE \E h \in Handlers : pc[h] = "commit" /\ CommitBooking(h)
    BY <1>1, CommitBooks
  <1>2. CASE UNCHANGED <<balance, positions>>
    BY <1>2 DEF Books!ledgerVars
  <1>3. ASSUME NEW h \in Handlers, HandleExecution(h)
        PROVE  UNCHANGED <<balance, positions>> \/ (pc[h] = "commit" /\ CommitBooking(h))
    BY <1>3 DEF HandleExecution, ReadBalance, UpdateBalance, ReadPosition, UpdatePosition, Commit, Publish,
         GiveUp, dbVars
  <1>4. ASSUME NEW h \in Handlers, Fault(h) \/ LostCommitAnswer(h)
        PROVE  UNCHANGED <<balance, positions>> \/ (pc[h] = "commit" /\ CommitBooking(h))
    BY <1>4 DEF Fault, LostCommitAnswer, GiveUp, dbVars
  <1>5. CASE (\E e \in Executions : Receive(e)) \/ Crash \/ Finished \/ UNCHANGED vars
    <2>1. UNCHANGED <<balance, positions>>
      BY <1>5 DEF Receive, Crash, Finished, vars, dbVars
    <2> QED
      BY <1>2, <2>1
  <1> QED
    BY <1>1, <1>2, <1>3, <1>4, <1>5 DEF Next

\* The handlers implement the ledger: an execution's cash and its position change
\* in one step, from the values that step finds, or not at all.
THEOREM BookingImplementsLedger == Spec => ImplementsLedger
  BY InitRefines, NextRefines, BookInvariant, PTL DEF Spec, ImplementsLedger, Books!LedgerSpec

--------------------------------------------------------------------------------
(* Queues without duplicates *)

LEMMA Joined ==
  ASSUME NEW S, NEW q \in Seq(S), NEW t \in S, t \notin Range(q), IsInjective(q)
  PROVE  /\ Append(q, t) \in Seq(S) /\ Append(q, t) # <<>>
         /\ IsInjective(Append(q, t)) /\ Range(Append(q, t)) = Range(q) \cup {t}
         /\ q # <<>> => Head(Append(q, t)) = Head(q)
  <1> DEFINE r == Append(q, t)
             n == Len(q)
  <1>1. /\ r \in Seq(S) /\ r # <<>> /\ Len(r) = n + 1 /\ n \in Nat
        /\ \A i \in 1..n : r[i] = q[i]
        /\ r[n + 1] = t /\ DOMAIN q = 1..n /\ DOMAIN r = 1..Len(r)
    BY AppendProperties, LenProperties
  <1> HIDE DEF r, n
  <1>2. \A i \in DOMAIN r : i \in DOMAIN q \/ i = n + 1
    BY <1>1
  <1>3. n + 1 \in DOMAIN r /\ \A i \in DOMAIN q : i \in DOMAIN r /\ r[i] = q[i] /\ i # n + 1
    BY <1>1
  <1>4. Range(r) = Range(q) \cup {t}
    BY <1>1, <1>2, <1>3 DEF Range
  <1>5. \A i \in DOMAIN q : q[i] # t
    BY DEF Range
  <1>6. IsInjective(r)
    BY <1>1, <1>2, <1>3, <1>5 DEF IsInjective
  <1>7. q # <<>> => Head(r) = Head(q)
    <2>1. q # <<>> => 1 \in 1..n
      BY <1>1, EmptySeq DEF n
    <2> QED
      BY <1>1, <2>1
  <1> QED
    BY <1>1, <1>4, <1>6, <1>7 DEF r

LEMMA Served ==
  ASSUME NEW S, NEW q \in Seq(S), q # <<>>, IsInjective(q)
  PROVE  /\ Tail(q) \in Seq(S)
         /\ IsInjective(Tail(q)) /\ Range(Tail(q)) = Range(q) \ {Head(q)}
  <1> DEFINE r == Tail(q)
             n == Len(q)
  <1>1. /\ r \in Seq(S) /\ Len(r) = n - 1 /\ n \in Nat \ {0} /\ Len(r) \in Nat
        /\ \A i \in 1..Len(r) : r[i] = q[i + 1]
        /\ Head(q) = q[1] /\ DOMAIN q = 1..n /\ DOMAIN r = 1..Len(r)
    BY HeadTailProperties, EmptySeq, LenProperties
  <1> HIDE DEF r, n
  <1>2. \A i \in DOMAIN r : i \in Int /\ i + 1 \in DOMAIN q /\ r[i] = q[i + 1] /\ i + 1 # 1
    BY <1>1
  <1>3. \A i \in DOMAIN q : i = 1 \/ (i - 1 \in DOMAIN r /\ r[i - 1] = q[i])
    BY <1>1
  <1>4. 1 \in DOMAIN q
    BY <1>1
  <1>5. IsInjective(r)
    BY <1>2 DEF IsInjective
  <1>6. \A i \in DOMAIN r : r[i] # Head(q)
    BY <1>1, <1>2, <1>4 DEF IsInjective
  <1>7. Range(r) = Range(q) \ {Head(q)}
    <2>1. ASSUME NEW u \in Range(r) PROVE u \in Range(q) \ {Head(q)}
      <3>1. PICK i \in DOMAIN r : r[i] = u
        BY <2>1 DEF Range
      <3> QED
        BY <1>2, <1>6, <3>1 DEF Range
    <2>2. ASSUME NEW u \in Range(q), u # Head(q) PROVE u \in Range(r)
      <3>1. PICK i \in DOMAIN q : q[i] = u
        BY <2>2 DEF Range
      <3>2. i - 1 \in DOMAIN r /\ r[i - 1] = u
        BY <1>1, <1>3, <2>2, <3>1
      <3> QED
        BY <3>2 DEF Range
    <2> QED
      BY <2>1, <2>2
  <1> QED
    BY <1>1, <1>5, <1>7 DEF r

--------------------------------------------------------------------------------
(* The mutexes *)

\* The handler has been spawned and has not returned.
Working(h) == pc[h] \notin Outcomes \cup {"idle"}

\* The queue of a mutex holds the handlers of its exchange that are at work, each
\* once; the one past the lock is the head.
QueueInv ==
  /\ mutex \in [Exchanges -> Seq(Handlers)]
  /\ \A x \in Exchanges :
       /\ IsInjective(mutex[x])
       /\ Range(mutex[x]) = {h \in Handlers : exec[h].exchange = x /\ Working(h)}
  /\ \A h \in Handlers : pc[h] \in Transacting \cup {"publish"} => HoldsMutex(h)
  /\ budget \in [faults : 0..MaxFaults, crashes : 0..MaxCrashes]

LEMMA InitQueueInv == Init => QueueInv
  <1> SUFFICES ASSUME Init PROVE QueueInv
    OBVIOUS
  <1>1. mutex = [x \in Exchanges |-> <<>>] /\ \A h \in Handlers : pc[h] = "idle"
    BY DEF Init
  <1>2. <<>> \in Seq(Handlers) /\ IsInjective(<<>>) /\ Range(<<>>) = {}
    BY EmptySeq DEF IsInjective, Range
  <1>3. budget \in [faults : 0..MaxFaults, crashes : 0..MaxCrashes]
    BY BookingAssumption DEF Init
  <1> QED
    BY <1>1, <1>2, <1>3 DEF QueueInv, Working, Transacting

\* Who is at work is known, and on an exchange.
LEMMA WorkingFacts ==
  ASSUME BookInv, NEW h \in Handlers, pc[h] # "idle"
  PROVE  exec[h] \in Executions /\ exec[h].exchange \in Exchanges
  BY BookingAssumption DEF BookInv, RowTypes

LEMMA ReceiveQueue ==
  ASSUME BookInv, QueueInv, NEW e \in Executions, Receive(e)
  PROVE  QueueInv'
  <1> DEFINE x == e.exchange
  <1>0. PICK h \in Handlers : h = received + 1 /\ h > received
    BY BookingAssumption DEF BookInv, RowTypes, Receive, Handlers
  <1>1. h \in Handlers /\ pc[h] = "idle"
    BY <1>0 DEF BookInv, RowTypes
  <1>2. /\ exec' = [exec EXCEPT ![h] = e] /\ pc' = [pc EXCEPT ![h] = "locking"]
        /\ mutex' = [mutex EXCEPT ![x] = Append(@, h)] /\ budget' = budget
    BY <1>0 DEF Receive
  <1>3. x \in Exchanges
    BY BookingAssumption
  <1> HIDE DEF x
  <1>4. /\ \A g \in Handlers : g # h => pc'[g] = pc[g] /\ exec'[g] = exec[g]
        /\ pc'[h] = "locking" /\ exec'[h].exchange = x
    BY <1>1, <1>2 DEF BookInv, RowTypes, x
  <1>5. /\ ~Working(h) /\ Working(h)'
        /\ \A g \in Handlers : g # h => (Working(g)' <=> Working(g))
    <2>1. ~Working(h)
      BY <1>1 DEF Working
    <2>2. Working(h)'
      BY <1>4 DEF Working, Outcomes
    <2>3. \A g \in Handlers : g # h => (Working(g)' <=> Working(g))
      BY <1>4 DEF Working
    <2> QED
      BY <2>1, <2>2, <2>3
  <1>6. /\ mutex[x] \in Seq(Handlers) /\ IsInjective(mutex[x]) /\ h \notin Range(mutex[x])
    BY <1>3, <1>5 DEF QueueInv
  <1>7. /\ Append(mutex[x], h) \in Seq(Handlers) /\ Append(mutex[x], h) # <<>>
        /\ IsInjective(Append(mutex[x], h))
        /\ Range(Append(mutex[x], h)) = Range(mutex[x]) \cup {h}
        /\ mutex[x] # <<>> => Head(Append(mutex[x], h)) = Head(mutex[x])
    BY <1>1, <1>6, Joined
  <1>8. /\ mutex' \in [Exchanges -> Seq(Handlers)] /\ mutex'[x] = Append(mutex[x], h)
        /\ \A y \in Exchanges : y # x => mutex'[y] = mutex[y]
    BY <1>2, <1>3, <1>7 DEF QueueInv
  <1>9. ASSUME NEW y \in Exchanges
        PROVE  /\ IsInjective(mutex'[y])
               /\ Range(mutex'[y]) = {g \in Handlers : exec'[g].exchange = y /\ Working(g)'}
    <2>1. Range(mutex[y]) = {g \in Handlers : exec[g].exchange = y /\ Working(g)}
      BY DEF QueueInv
    <2>2. CASE y = x
      <3>1. {g \in Handlers : exec'[g].exchange = y /\ Working(g)'}
              = {g \in Handlers : exec[g].exchange = y /\ Working(g)} \cup {h}
        <4>1. \A g \in Handlers : exec'[g].exchange = y /\ Working(g)'
                                    <=> (exec[g].exchange = y /\ Working(g)) \/ g = h
          BY <1>1, <1>4, <1>5, <2>2
        <4> QED
          BY <1>1, <4>1
      <3> QED
        BY <1>7, <1>8, <2>1, <2>2, <3>1
    <2>3. CASE y # x
      <3>1. {g \in Handlers : exec'[g].exchange = y /\ Working(g)'}
              = {g \in Handlers : exec[g].exchange = y /\ Working(g)}
        BY <1>1, <1>4, <1>5, <2>3
      <3> QED
        BY <1>8, <2>1, <2>3, <3>1 DEF QueueInv
    <2> QED
      BY <2>2, <2>3
  <1>10. ASSUME NEW g \in Handlers, pc'[g] \in Transacting \cup {"publish"}
         PROVE  HoldsMutex(g)'
    <2>1. g # h
      BY <1>4, <1>10 DEF Transacting
    <2>2. /\ pc[g] \in Transacting \cup {"publish"} /\ exec'[g] = exec[g]
      BY <1>4, <1>10, <2>1
    <2>3. HoldsMutex(g) /\ exec[g].exchange \in Exchanges
      BY <2>2, WorkingFacts DEF QueueInv, Transacting
    <2>4. CASE exec[g].exchange = x
      BY <1>7, <1>8, <2>2, <2>3, <2>4 DEF HoldsMutex
    <2>5. CASE exec[g].exchange # x
      BY <1>8, <2>2, <2>3, <2>5 DEF HoldsMutex
    <2> QED
      BY <2>4, <2>5
  <1>11. budget' \in [faults : 0..MaxFaults, crashes : 0..MaxCrashes]
    BY <1>2 DEF QueueInv
  <1> QED
    BY <1>8, <1>9, <1>10, <1>11 DEF QueueInv

BudgetKept == budget' \in [faults : 0..MaxFaults, crashes : 0..MaxCrashes]

\* A handler that holds its mutex goes on.
LEMMA GoOnQueue ==
  ASSUME BookInv, QueueInv, NEW h \in Handlers, NEW p \in Transacting \cup {"publish"},
         HoldsMutex(h), Working(h), pc' = [pc EXCEPT ![h] = p],
         UNCHANGED <<exec, mutex>>, BudgetKept
  PROVE  QueueInv'
  <1>1. pc'[h] = p /\ \A g \in Handlers : g # h => pc'[g] = pc[g]
    BY DEF BookInv, RowTypes
  <1>2. \A g \in Handlers : Working(g)' = Working(g)
    BY <1>1 DEF Working, Transacting, Outcomes
  <1>3. \A g \in Handlers : HoldsMutex(g)' = HoldsMutex(g)
    BY DEF HoldsMutex
  <1>4. \A g \in Handlers : pc'[g] \in Transacting \cup {"publish"} => HoldsMutex(g)'
    BY <1>1, <1>3 DEF QueueInv
  <1> QED
    BY <1>2, <1>4 DEF QueueInv, BudgetKept

\* A handler that holds its mutex returns.
LEMMA ReturnQueue ==
  ASSUME BookInv, QueueInv, NEW h \in Handlers, NEW outcome \in Outcomes,
         HoldsMutex(h), Working(h), Return(h, outcome), exec' = exec, BudgetKept
  PROVE  QueueInv'
  <1> DEFINE x == exec[h].exchange
  <1>1. /\ pc' = [pc EXCEPT ![h] = outcome] /\ mutex' = [mutex EXCEPT ![x] = Tail(@)]
    BY DEF Return, Released
  <1>2. x \in Exchanges /\ mutex[x] # <<>> /\ Head(mutex[x]) = h
    BY WorkingFacts DEF HoldsMutex, Working
  <1> HIDE DEF x
  <1>3. /\ pc'[h] = outcome /\ \A g \in Handlers : g # h => pc'[g] = pc[g]
    BY <1>1 DEF BookInv, RowTypes
  <1>4. ~Working(h)' /\ \A g \in Handlers : g # h => Working(g)' = Working(g)
    BY <1>3 DEF Working
  <1>5. mutex[x] \in Seq(Handlers) /\ IsInjective(mutex[x])
    BY <1>2 DEF QueueInv
  <1>6. /\ Tail(mutex[x]) \in Seq(Handlers) /\ IsInjective(Tail(mutex[x]))
        /\ Range(Tail(mutex[x])) = Range(mutex[x]) \ {h}
    BY <1>2, <1>5, Served
  <1>7. /\ mutex' \in [Exchanges -> Seq(Handlers)] /\ mutex'[x] = Tail(mutex[x])
        /\ \A y \in Exchanges : y # x => mutex'[y] = mutex[y]
    BY <1>1, <1>2, <1>6 DEF QueueInv
  <1>8. ASSUME NEW y \in Exchanges
        PROVE  /\ IsInjective(mutex'[y])
               /\ Range(mutex'[y]) = {g \in Handlers : exec'[g].exchange = y /\ Working(g)'}
    <2>1. Range(mutex[y]) = {g \in Handlers : exec[g].exchange = y /\ Working(g)}
      BY DEF QueueInv
    <2>2. CASE y = x
      <3>1. {g \in Handlers : exec'[g].exchange = y /\ Working(g)'}
              = {g \in Handlers : exec[g].exchange = y /\ Working(g)} \ {h}
        BY <1>4, <2>2
      <3> QED
        BY <1>6, <1>7, <2>1, <2>2, <3>1
    <2>3. CASE y # x
      <3>1. {g \in Handlers : exec'[g].exchange = y /\ Working(g)'}
              = {g \in Handlers : exec[g].exchange = y /\ Working(g)}
        BY <1>4, <2>3 DEF x
      <3> QED
        BY <1>7, <2>1, <2>3, <3>1 DEF QueueInv
    <2> QED
      BY <2>2, <2>3
  <1>9. ASSUME NEW g \in Handlers, pc'[g] \in Transacting \cup {"publish"}
        PROVE  HoldsMutex(g)'
    <2>1. g # h
      BY <1>3, <1>9 DEF Transacting, Outcomes
    <2>2. HoldsMutex(g) /\ exec[g].exchange \in Exchanges
      BY <1>3, <1>9, <2>1, WorkingFacts DEF QueueInv, Transacting
    <2>3. exec[g].exchange # x
      BY <1>2, <2>1, <2>2 DEF HoldsMutex
    <2> QED
      BY <1>7, <2>2, <2>3 DEF HoldsMutex
  <1> QED
    BY <1>7, <1>8, <1>9 DEF QueueInv, BudgetKept

LEMMA CrashQueue ==
  ASSUME BookInv, QueueInv, Crash
  PROVE  QueueInv'
  <1>1. /\ pc' = [h \in Handlers |->
                    IF pc[h] = "locking" \/ pc[h] \in Transacting THEN "lost"
                    ELSE IF pc[h] = "publish" THEN "unpublished" ELSE pc[h]]
        /\ mutex' = [x \in Exchanges |-> <<>>]
    BY DEF Crash
  <1>2. \A h \in Handlers : pc'[h] \in Outcomes \cup {"idle"}
    BY <1>1 DEF BookInv, RowTypes, Places, Outcomes
  <1>3. \A h \in Handlers : ~Working(h)' /\ pc'[h] \notin Transacting \cup {"publish"}
    BY <1>2 DEF Working, Transacting, Outcomes
  <1>4. <<>> \in Seq(Handlers) /\ IsInjective(<<>>) /\ Range(<<>>) = {}
    BY EmptySeq DEF IsInjective, Range
  <1>5. BudgetKept
    <2>1. budget.crashes > 0 /\ budget' = [budget EXCEPT !.crashes = budget.crashes - 1]
      BY DEF Crash
    <2> QED
      BY <2>1, BookingAssumption DEF QueueInv, BudgetKept
  <1> QED
    BY <1>1, <1>3, <1>4, <1>5 DEF QueueInv, BudgetKept

LEMMA NextQueueInv ==
  ASSUME BookInv, QueueInv, [Next]_vars
  PROVE  QueueInv'
  <1>1. CASE \E e \in Executions : Receive(e)
    BY <1>1, ReceiveQueue
  <1>2. \A h \in Handlers : pc[h] \in Transacting \cup {"publish"} => HoldsMutex(h) /\ Working(h)
    BY DEF QueueInv, Working, Transacting, Outcomes
  <1>3. \A h \in Handlers : pc[h] = "locking" => Working(h)
    BY DEF Working, Outcomes
  <1>4. budget' = budget => BudgetKept
    BY DEF QueueInv, BudgetKept
  <1>5. \A h \in Handlers : Fault(h) \/ LostCommitAnswer(h) => BudgetKept
    BY BookingAssumption DEF QueueInv, BudgetKept, Fault, LostCommitAnswer
  <1>6. ASSUME NEW h \in Handlers, HandleExecution(h)
        PROVE  QueueInv'
    <2>1. CASE ReadBalance(h)
      <3>1. /\ pc' = [pc EXCEPT ![h] = "updateBalance"] /\ UNCHANGED <<exec, mutex>>
            /\ HoldsMutex(h) /\ Working(h) /\ BudgetKept
        BY <1>3, <1>4, <2>1 DEF ReadBalance
      <3> QED
        BY <3>1, GoOnQueue DEF Transacting
    <2>2. CASE GiveUp(h) /\ pc[h] \in Transacting /\ BudgetKept
      BY <1>2, <2>2, ReturnQueue DEF GiveUp, Outcomes
    <2>3. CASE UpdateBalance(h) /\ ~GiveUp(h)
      <3>1. /\ pc' = [pc EXCEPT ![h] = "readPosition"] /\ UNCHANGED <<exec, mutex>>
            /\ HoldsMutex(h) /\ Working(h) /\ BudgetKept
        BY <1>2, <1>4, <2>3 DEF UpdateBalance, Transacting
      <3> QED
        BY <3>1, GoOnQueue DEF Transacting
    <2>4. CASE ReadPosition(h) /\ ~GiveUp(h)
      <3>1. /\ pc' = [pc EXCEPT ![h] = "updatePosition"] /\ UNCHANGED <<exec, mutex>>
            /\ HoldsMutex(h) /\ Working(h) /\ BudgetKept
        BY <1>2, <1>4, <2>4 DEF ReadPosition, Transacting
      <3> QED
        BY <3>1, GoOnQueue DEF Transacting
    <2>5. CASE UpdatePosition(h) /\ ~GiveUp(h)
      <3>1. /\ pc' = [pc EXCEPT ![h] = "commit"] /\ UNCHANGED <<exec, mutex>>
            /\ HoldsMutex(h) /\ Working(h) /\ BudgetKept
        BY <1>2, <1>4, <2>5 DEF UpdatePosition, Transacting
      <3> QED
        BY <3>1, GoOnQueue DEF Transacting
    <2>6. CASE Commit(h)
      <3>1. /\ pc' = [pc EXCEPT ![h] = "publish"] /\ UNCHANGED <<exec, mutex>>
            /\ HoldsMutex(h) /\ Working(h) /\ BudgetKept
        BY <1>2, <1>4, <2>6 DEF Commit, CommitBooking, Transacting
      <3> QED
        BY <3>1, GoOnQueue
    <2>7. CASE Publish(h)
      <3>1. Return(h, "booked") /\ exec' = exec /\ HoldsMutex(h) /\ Working(h) /\ BudgetKept
        BY <1>2, <1>4, <2>7 DEF Publish
      <3> QED
        BY <3>1, ReturnQueue DEF Outcomes
    <2>8. UpdateBalance(h) \/ ReadPosition(h) \/ UpdatePosition(h)
            => pc[h] \in Transacting /\ budget' = budget
      BY DEF UpdateBalance, ReadPosition, UpdatePosition, Transacting
    <2> QED
      BY <1>4, <1>6, <2>1, <2>2, <2>3, <2>4, <2>5, <2>6, <2>7, <2>8 DEF HandleExecution
  <1>7. ASSUME NEW h \in Handlers, Fault(h) \/ LostCommitAnswer(h)
        PROVE  QueueInv'
    <2>1. BudgetKept /\ exec' = exec
      BY <1>5, <1>7 DEF Fault, LostCommitAnswer, GiveUp, CommitBooking
    <2>2. HoldsMutex(h) /\ Working(h)
      BY <1>2, <1>3, <1>7 DEF Fault, LostCommitAnswer, Transacting
    <2>3. Return(h, "lost") \/ Return(h, "unpublished")
      BY <1>7 DEF Fault, LostCommitAnswer, GiveUp
    <2> QED
      BY <2>1, <2>2, <2>3, ReturnQueue DEF Outcomes
  <1>8. CASE Crash
    BY <1>8, CrashQueue
  <1>9. CASE UNCHANGED vars
    BY <1>9 DEF vars, QueueInv, Working, HoldsMutex
  <1> QED
    BY <1>1, <1>6, <1>7, <1>8, <1>9 DEF Next, Finished

LEMMA BookAndQueueInvariant == Spec => [](BookInv /\ QueueInv)
  BY InitBookInv, NextBookInv, InitQueueInv, NextQueueInv, PTL DEF Spec

(* The type invariant; the queue of a mutex holds exactly the handlers of its     *)
(* exchange that are at work, through faults and restarts.                        *)
THEOREM BookingTypes == Spec => []TypeOK
  <1>1. BookInv /\ QueueInv => TypeOK
    BY DEF BookInv, RowTypes, QueueInv, Working, Places, TypeOK
  <1> QED
    BY <1>1, BookAndQueueInvariant, PTL

--------------------------------------------------------------------------------
(* What steps do to the tables *)

\* A commit by handler h.
Commits(h) ==
  /\ pc[h] = "commit" /\ CommitBooking(h)
  /\ pc' \in {[pc EXCEPT ![h] = "publish"], [pc EXCEPT ![h] = "unpublished"]}

\* Any other step leaves the tables alone; what was committed stays so, and
\* nothing is to be broadcast that was not before.
Quiet ==
  /\ UNCHANGED <<balance, positions>>
  /\ \A h \in Handlers :
       /\ h \in Committed' <=> h \in Committed
       /\ h \in Committed => exec'[h] = exec[h]
       /\ pc'[h] = "publish" => pc[h] = "publish" /\ exec'[h] = exec[h] /\ mem'[h] = mem[h]

LEMMA ReturnIsQuiet ==
  ASSUME BookInv, NEW h \in Handlers, NEW outcome \in Outcomes,
         pc' = [pc EXCEPT ![h] = outcome], outcome = "lost" <=> h \notin Committed,
         UNCHANGED <<balance, positions, exec, mem>>
  PROVE  Quiet
  <1>1. pc'[h] = outcome /\ \A g \in Handlers : g # h => pc'[g] = pc[g]
    BY DEF BookInv, RowTypes
  <1> QED
    BY <1>1 DEF Quiet, Committed, Outcomes

LEMMA StepsOfBooking ==
  ASSUME BookInv, [Next]_vars
  PROVE  \/ \E h \in Handlers : Commits(h) /\ UNCHANGED published
         \/ \E h \in Handlers : Publish(h) /\ Quiet
         \/ Quiet /\ UNCHANGED published
  <1>0. pc \in [Handlers -> Places]
    BY DEF BookInv, RowTypes
  <1>1. ASSUME NEW e \in Executions, Receive(e)
        PROVE  Quiet /\ UNCHANGED published
    <2>1. PICK h \in Handlers : h = received + 1 /\ h > received
      BY <1>1, BookingAssumption DEF BookInv, RowTypes, Receive, Handlers
    <2>2. pc[h] = "idle"
      BY <2>1 DEF BookInv, RowTypes
    <2>3. /\ exec' = [exec EXCEPT ![h] = e] /\ pc' = [pc EXCEPT ![h] = "locking"]
          /\ UNCHANGED <<balance, positions, mem, published>>
      BY <1>1, <2>1 DEF Receive, dbVars
    <2>4. \A g \in Handlers : g # h => pc'[g] = pc[g] /\ exec'[g] = exec[g]
      BY <2>3 DEF BookInv, RowTypes
    <2>5. pc'[h] = "locking"
      BY <1>0, <2>3
    <2> QED
      BY <2>2, <2>3, <2>4, <2>5 DEF Quiet, Committed
  <1>2. ASSUME NEW h \in Handlers, NEW p \in Transacting, pc[h] \in Transacting \cup {"locking"},
               pc' = [pc EXCEPT ![h] = p], UNCHANGED <<balance, positions, exec, published>>,
               \A g \in Handlers : g # h => mem'[g] = mem[g]
        PROVE  Quiet /\ UNCHANGED published
    <2>1. pc'[h] = p /\ \A g \in Handlers : g # h => pc'[g] = pc[g]
      BY <1>0, <1>2
    <2> QED
      BY <1>2, <2>1 DEF Quiet, Committed, Transacting
  <1>3. ASSUME NEW h \in Handlers, GiveUp(h), pc[h] \in Transacting \cup {"locking"}
        PROVE  Quiet /\ UNCHANGED published
    <2>1. h \notin Committed /\ "lost" \in Outcomes
      BY <1>3 DEF Committed, Transacting, Outcomes
    <2> QED
      BY <1>3, <2>1, ReturnIsQuiet DEF GiveUp, Return
  <1>4. ASSUME NEW h \in Handlers, HandleExecution(h)
        PROVE  \/ Commits(h) /\ UNCHANGED published
               \/ Publish(h) /\ Quiet
               \/ Quiet /\ UNCHANGED published
    <2>1. CASE ReadBalance(h)
      <3>1. /\ pc[h] = "locking" /\ pc' = [pc EXCEPT ![h] = "updateBalance"]
            /\ UNCHANGED <<balance, positions, exec, published>>
            /\ \A g \in Handlers : g # h => mem'[g] = mem[g]
        BY <2>1 DEF ReadBalance, dbVars, BookInv, RowTypes
      <3> QED
        BY <1>2, <3>1 DEF Transacting
    <2>2. CASE UpdateBalance(h)
      <3>1. CASE GiveUp(h)
        BY <1>3, <2>2, <3>1 DEF UpdateBalance, Transacting
      <3>2. CASE ~GiveUp(h)
        <4>1. /\ pc[h] = "updateBalance" /\ pc' = [pc EXCEPT ![h] = "readPosition"]
              /\ UNCHANGED <<balance, positions, exec, published>>
              /\ \A g \in Handlers : g # h => mem'[g] = mem[g]
          BY <2>2, <3>2 DEF UpdateBalance, BookInv, RowTypes
        <4> QED
          BY <1>2, <4>1 DEF Transacting
      <3> QED
        BY <3>1, <3>2
    <2>3. CASE ReadPosition(h)
      <3>1. CASE GiveUp(h)
        BY <1>3, <2>3, <3>1 DEF ReadPosition, Transacting
      <3>2. CASE ~GiveUp(h)
        <4>1. /\ pc[h] = "readPosition" /\ pc' = [pc EXCEPT ![h] = "updatePosition"]
              /\ UNCHANGED <<balance, positions, exec, mem, published>>
          BY <2>3, <3>2 DEF ReadPosition, dbVars
        <4> QED
          BY <1>2, <4>1 DEF Transacting
      <3> QED
        BY <3>1, <3>2
    <2>4. CASE UpdatePosition(h)
      <3>1. CASE GiveUp(h)
        BY <1>3, <2>4, <3>1 DEF UpdatePosition, Transacting
      <3>2. CASE ~GiveUp(h)
        <4>1. /\ pc[h] = "updatePosition" /\ pc' = [pc EXCEPT ![h] = "commit"]
              /\ UNCHANGED <<balance, positions, exec, mem, published>>
          BY <2>4, <3>2 DEF UpdatePosition, dbVars
        <4> QED
          BY <1>2, <4>1 DEF Transacting
      <3> QED
        BY <3>1, <3>2
    <2>5. CASE Commit(h)
      BY <2>5 DEF Commit, Commits, CommitBooking
    <2>6. CASE Publish(h)
      <3>1. /\ h \in Committed /\ pc' = [pc EXCEPT ![h] = "booked"]
            /\ UNCHANGED <<balance, positions, exec, mem>>
        BY <2>6 DEF Publish, Return, dbVars, Committed
      <3> QED
        BY <2>6, <3>1, ReturnIsQuiet DEF Outcomes
    <2> QED
      BY <1>4, <2>1, <2>2, <2>3, <2>4, <2>5, <2>6 DEF HandleExecution
  <1>5. ASSUME NEW h \in Handlers, Fault(h)
        PROVE  Quiet /\ UNCHANGED published
    <2>1. CASE pc[h] = "publish" /\ Return(h, "unpublished")
                 /\ UNCHANGED <<dbVars, exec, mem, memPosition, published, received>>
      <3>1. h \in Committed
        BY <2>1 DEF Committed
      <3> QED
        BY <2>1, <3>1, ReturnIsQuiet DEF Return, dbVars, Outcomes
    <2>2. CASE GiveUp(h) /\ pc[h] \in Transacting \cup {"locking"}
      BY <1>3, <2>2
    <2> QED
      BY <1>5, <2>1, <2>2 DEF Fault
  <1>6. ASSUME NEW h \in Handlers, LostCommitAnswer(h)
        PROVE  Commits(h) /\ UNCHANGED published
    BY <1>6 DEF LostCommitAnswer, Commits, CommitBooking, Return
  <1>7. CASE Crash
    <2>1. /\ \A h \in Handlers : pc'[h] = IF pc[h] = "locking" \/ pc[h] \in Transacting THEN "lost"
                                          ELSE IF pc[h] = "publish" THEN "unpublished" ELSE pc[h]
          /\ UNCHANGED <<balance, positions, exec, mem, published>>
      BY <1>7 DEF Crash
    <2> QED
      BY <2>1 DEF Quiet, Committed, Transacting
  <1>8. CASE UNCHANGED vars
    BY <1>8 DEF vars, dbVars, Quiet, Committed
  <1> QED
    BY <1>1, <1>4, <1>5, <1>6, <1>7, <1>8 DEF Next, Finished

--------------------------------------------------------------------------------
(* The positions are the sums of what has been booked *)

LEMMA HandlersAreFinite == IsFiniteSet(Handlers)
  BY FS_Interval, BookingAssumption DEF Handlers

LEMMA QuantityAdds ==
  ASSUME NEW p \in Position, NEW e \in Executions
  PROVE  ApplyExecution(p, e).quantity = p.quantity + e.quantity
  <1> DEFINE f == FillOf(e)
  <1>1. f \in Execution /\ f.price = e.price /\ f.quantity = e.quantity
    BY BookingAssumption DEF FillOf, Execution
  <1> HIDE DEF f
  <1>2. /\ Closes(p, f) <=> Closes(p, e)
        /\ OpeningQuantity(p, f) = OpeningQuantity(p, e)
        /\ ClosingQuantity(p, f) = ClosingQuantity(p, e)
    BY <1>1 DEF Closes, OpeningQuantity, ClosingQuantity, Excess
  <1>3. Closed(p, f) = Closed(p, e)
    BY <1>1, <1>2 DEF Closed
  <1>4. ApplyExecution(p, f) = ApplyExecution(p, e)
    BY <1>1, <1>2, <1>3 DEF ApplyExecution
  <1> QED
    BY <1>1, <1>4, ExecutionApplied

\* The quantity of an execution that is or may be booked is a number.
LEMMA BookedQuantityType ==
  ASSUME BookInv, NEW a \in Accounts, NEW i \in Instruments
  PROVE  BookedQuantity(a, i) \in [Handlers -> Int]
  <1>1. ASSUME NEW h \in Handlers, h \in Committed PROVE exec[h].quantity \in Int
    BY <1>1, BookingAssumption DEF Committed, BookInv, RowTypes
  <1> QED
    BY <1>1 DEF BookedQuantity

LEMMA InitSum == Init => PositionIsSumOfBooked
  <1> SUFFICES ASSUME Init, NEW a \in Accounts, NEW i \in Instruments
               PROVE  BookedPosition(positions[a][i]).quantity = SumOver(BookedQuantity(a, i), Handlers)
    BY DEF PositionIsSumOfBooked
  <1>1. BookedQuantity(a, i) = [h \in Handlers |-> 0]
    BY DEF Init, BookedQuantity, Committed
  <1>2. BookedPosition(positions[a][i]).quantity = 0
    BY DEF Init, BookedPosition, Booked, NewPosition
  <1> QED
    BY <1>1, <1>2, HandlersAreFinite, SumOfZeros

LEMMA CommitSum ==
  ASSUME BookInv, BookInv', PositionIsSumOfBooked, NEW h \in Handlers, Commits(h)
  PROVE  PositionIsSumOfBooked'
  <1> DEFINE e == exec[h]
             rows == WithPosition(h, Rows(h))
             old == positions[e.account][e.instrument]
  <1>1. /\ pc[h] = "commit" /\ CommitBooking(h) /\ exec' = exec
        /\ positions' = [positions EXCEPT ![e.account][e.instrument] = rows]
    BY DEF Commits, CommitBooking, Rows
  <1>2. /\ e \in Executions /\ e.account \in Accounts /\ e.instrument \in Instruments
        /\ e.quantity \in Int
        /\ Booked(memPosition[h].row) = ApplyExecution(BookedPosition(old), e)
        /\ old \in Seq(PositionRow) /\ Len(old) <= 1
    BY <1>1, AtWork, BookingAssumption DEF Holds, Rows
  <1>3. BookedPosition(old) \in Position
    <2>1. CASE old = <<>>
      BY <2>1 DEF BookedPosition, Booked, NewPosition, Position
    <2>2. CASE old # <<>>
      <3>1. old[Len(old)] \in PositionRow
        <4>1. Len(old) \in 1..Len(old)
          BY <1>2, <2>2, EmptySeq
        <4> QED
          BY <1>2, <4>1, ElementOfSeq
      <3> QED
        BY <2>2, <3>1, BookedType DEF BookedPosition
    <2> QED
      BY <2>1, <2>2
  <1>4. BookedPosition(rows).quantity = BookedPosition(old).quantity + e.quantity
    <2>1. rows \in Seq(PositionRow) /\ Len(rows) = 1 /\ rows[1] = memPosition[h].row
      BY <1>1, CommittedRows
    <2> HIDE DEF rows
    <2>2. rows # <<>>
      BY <2>1, EmptySeq
    <2>3. BookedPosition(rows) = Booked(memPosition[h].row)
      BY <2>1, <2>2 DEF BookedPosition
    <2> QED
      BY <1>2, <1>3, <2>3, QuantityAdds
  <1>5. /\ h \notin Committed /\ h \in Committed'
        /\ \A g \in Handlers : g # h => (g \in Committed' <=> g \in Committed)
    <2>1. /\ pc'[h] \in {"publish", "unpublished"}
          /\ \A g \in Handlers : g # h => pc'[g] = pc[g]
      BY DEF Commits, BookInv, RowTypes
    <2> QED
      BY <1>1, <2>1 DEF Committed
  <1> SUFFICES ASSUME NEW a \in Accounts, NEW i \in Instruments
               PROVE  BookedPosition(positions'[a][i]).quantity
                        = SumOver(BookedQuantity(a, i)', Handlers)
    BY DEF PositionIsSumOfBooked
  <1>6. /\ BookedQuantity(a, i) \in [Handlers -> Int] /\ BookedQuantity(a, i)' \in [Handlers -> Int]
    <2>1. BookedQuantity(a, i) \in [Handlers -> Int]
      BY BookedQuantityType
    <2>2. ASSUME NEW g \in Handlers, g \in Committed' PROVE exec'[g].quantity \in Int
      BY <2>2, BookingAssumption DEF Committed, BookInv, RowTypes
    <2> QED
      BY <2>1, <2>2 DEF BookedQuantity
  <1>7. BookedPosition(positions[a][i]).quantity = SumOver(BookedQuantity(a, i), Handlers)
    BY DEF PositionIsSumOfBooked
  <1>8. positions \in [Accounts -> [Instruments -> Seq(PositionRow)]]
    BY DEF BookInv, RowTypes
  <1> HIDE DEF rows
  <1>9. CASE a = e.account /\ i = e.instrument
    <2>1. positions'[a][i] = rows
      BY <1>1, <1>2, <1>8, <1>9
    <2>2. BookedQuantity(a, i)'[h] = BookedQuantity(a, i)[h] + e.quantity
      <3>1. BookedQuantity(a, i)'[h] = e.quantity
        BY <1>1, <1>5, <1>9 DEF BookedQuantity
      <3>2. BookedQuantity(a, i)[h] = 0
        BY <1>5 DEF BookedQuantity
      <3> QED
        BY <1>2, <3>1, <3>2
    <2>3. \A g \in Handlers : g # h => BookedQuantity(a, i)'[g] = BookedQuantity(a, i)[g]
      BY <1>1, <1>5 DEF BookedQuantity
    <2>4. SumOver(BookedQuantity(a, i)', Handlers)
            = SumOver(BookedQuantity(a, i), Handlers) + e.quantity
      BY <1>2, <1>6, <2>2, <2>3, HandlersAreFinite, SumChanges
    <2> QED
      BY <1>4, <1>7, <1>9, <2>1, <2>4
  <1>10. CASE ~(a = e.account /\ i = e.instrument)
    <2>1. positions'[a][i] = positions[a][i]
      BY <1>1, <1>8, <1>10
    <2>2. BookedQuantity(a, i)' = BookedQuantity(a, i)
      BY <1>1, <1>5, <1>10 DEF BookedQuantity
    <2> QED
      BY <1>7, <2>1, <2>2
  <1> QED
    BY <1>9, <1>10

LEMMA NextSum ==
  ASSUME BookInv, BookInv', PositionIsSumOfBooked, [Next]_vars
  PROVE  PositionIsSumOfBooked'
  <1>1. CASE \E h \in Handlers : Commits(h)
    BY <1>1, CommitSum
  <1>2. CASE Quiet
    <2>1. \A a \in Accounts, i \in Instruments : BookedQuantity(a, i)' = BookedQuantity(a, i)
      BY <1>2 DEF Quiet, BookedQuantity
    <2> QED
      BY <1>2, <2>1 DEF Quiet, PositionIsSumOfBooked
  <1> QED
    BY <1>1, <1>2, StepsOfBooking

(* However the executions of several exchanges interleave and fail, and however   *)
(* often the broker restarts, an account holds in each instrument the sum of its  *)
(* committed executions: none is booked twice, and none is lost after its commit. *)
THEOREM PositionsAddUp == Spec => []PositionIsSumOfBooked
  <1>1. BookInv /\ PositionIsSumOfBooked /\ [Next]_vars => (BookInv /\ PositionIsSumOfBooked)'
    BY NextBookInv, NextSum
  <1> QED
    BY <1>1, InitBookInv, InitSum, PTL DEF Spec

--------------------------------------------------------------------------------
(* What is broadcast *)

Update == [exchange : Exchanges, account : Accounts, cash : Int, version : Int,
           instrument : {e.instrument : e \in Executions}, quantity : Int]

\* A handler that has committed and is about to broadcast.
Publishing == {h \in Handlers : pc[h] = "publish"}

\* What it broadcasts was committed under a version of its own; the versions its
\* exchange has broadcast for the account are older.
PublishInv ==
  /\ published \in Seq(Update)
  /\ PublishedIsCommitted /\ BroadcastInOrder
  /\ \A h \in Publishing :
       /\ mem[h].version <= balance[exec[h].account].version
       /\ mem[h].version = balance[exec[h].account].version
            => mem[h].cash = balance[exec[h].account].cash
       /\ \A k \in DOMAIN published :
            published[k].account = exec[h].account =>
              /\ published[k].version # mem[h].version
              /\ published[k].exchange = exec[h].exchange => published[k].version < mem[h].version
       /\ \A g \in Publishing :
            g # h /\ exec[g].account = exec[h].account => mem[g].version # mem[h].version

LEMMA InitPublishInv == Init => PublishInv
  <1> SUFFICES ASSUME Init PROVE PublishInv
    OBVIOUS
  <1>1. published = <<>> /\ Publishing = {}
    BY DEF Init, Publishing
  <1>2. <<>> \in Seq(Update) /\ DOMAIN <<>> = {}
    BY EmptySeq
  <1> QED
    BY <1>1, <1>2 DEF PublishInv, PublishedIsCommitted, BroadcastInOrder

LEMMA QuietPublish ==
  ASSUME PublishInv, Quiet, UNCHANGED published
  PROVE  PublishInv'
  <1>1. \A h \in Publishing' : h \in Publishing /\ exec'[h] = exec[h] /\ mem'[h] = mem[h]
    BY DEF Quiet, Publishing
  <1> QED
    BY <1>1 DEF Quiet, PublishInv, PublishedIsCommitted, BroadcastInOrder

LEMMA CommitPublish ==
  ASSUME BookInv, PublishInv, NEW h \in Handlers, Commits(h), UNCHANGED published
  PROVE  PublishInv'
  <1> DEFINE a == exec[h].account
             n == mem[h].version
  <1>1. /\ pc[h] = "commit" /\ exec' = exec /\ mem' = mem
        /\ balance' = [balance EXCEPT ![a] = mem[h]]
    BY DEF Commits, CommitBooking
  <1>2. /\ a \in Accounts /\ mem[h] \in BalanceRow /\ balance[a] \in BalanceRow
        /\ n = balance[a].version + 1
    BY <1>1, AtWork DEF Holds, Locking
  <1>3. n \in Int /\ balance[a].version \in Int /\ balance[a].version < n
    BY <1>2 DEF BalanceRow
  <1>4. balance'[a] = mem[h] /\ \A b \in Accounts : b # a => balance'[b] = balance[b]
    BY <1>1, <1>2 DEF BookInv, RowTypes
  <1>5. \A g \in Publishing' : g = h \/ g \in Publishing
    BY DEF Commits, Publishing, BookInv, RowTypes
  <1> HIDE DEF a, n
  <1>6. \A k \in DOMAIN published :
          published[k] \in Update /\ published[k].version \in Int /\ published[k].account \in Accounts
    <2>1. published \in Seq(Update)
      BY DEF PublishInv
    <2>2. \A k \in DOMAIN published : published[k] \in Update
      BY <2>1, ElementOfSeq, LenProperties
    <2>3. \A m \in Update : m.version \in Int /\ m.account \in Accounts
      BY DEF Update
    <2> QED
      BY <2>2, <2>3
  <1>7. \A k \in DOMAIN published : published[k].account = a => published[k].version < n
    BY <1>3, <1>6 DEF PublishInv, PublishedIsCommitted
  <1>8. \A g \in Publishing : exec[g].account \in Accounts /\ mem[g].version \in Int
    BY AtWork DEF Publishing, BalanceRow
  <1>9. \A g \in Publishing : exec[g].account = a => mem[g].version < n
    BY <1>3, <1>8 DEF PublishInv
  <1>10. PublishedIsCommitted'
    <2> SUFFICES ASSUME NEW k \in DOMAIN published
                 PROVE  LET m == published[k] IN
                        /\ m.version <= balance'[m.account].version
                        /\ m.version = balance'[m.account].version => m.cash = balance'[m.account].cash
                        /\ \A l \in DOMAIN published :
                             published[l].account = m.account /\ published[l].version = m.version
                               => l = k
      BY DEF PublishedIsCommitted
    <2>1. /\ published[k].version <= balance[published[k].account].version
          /\ published[k].version = balance[published[k].account].version
               => published[k].cash = balance[published[k].account].cash
          /\ \A l \in DOMAIN published :
               published[l].account = published[k].account
                 /\ published[l].version = published[k].version => l = k
      BY DEF PublishInv, PublishedIsCommitted
    <2>2. CASE published[k].account = a
      BY <1>3, <1>4, <1>6, <1>7, <2>1, <2>2 DEF n
    <2>3. CASE published[k].account # a
      BY <1>4, <1>6, <2>1, <2>3
    <2> QED
      BY <2>2, <2>3
  <1>11. ASSUME NEW g \in Publishing'
         PROVE  /\ mem'[g].version <= balance'[exec'[g].account].version
                /\ mem'[g].version = balance'[exec'[g].account].version
                     => mem'[g].cash = balance'[exec'[g].account].cash
                /\ \A k \in DOMAIN published :
                     published[k].account = exec'[g].account =>
                       /\ published[k].version # mem'[g].version
                       /\ published[k].exchange = exec'[g].exchange
                            => published[k].version < mem'[g].version
                /\ \A f \in Publishing' :
                     f # g /\ exec'[f].account = exec'[g].account => mem'[f].version # mem'[g].version
    <2>1. CASE g = h
      <3>1. \A f \in Publishing' : f # h => f \in Publishing
        BY <1>5
      <3>2. \A k \in DOMAIN published : published[k].account = a => published[k].version # n
        BY <1>3, <1>6, <1>7
      <3>3. \A f \in Publishing : exec[f].account = a => mem[f].version # n
        BY <1>3, <1>8, <1>9
      <3> QED
        BY <1>1, <1>3, <1>4, <1>7, <2>1, <3>1, <3>2, <3>3 DEF a, n
    <2>2. CASE g # h
      <3>1. g \in Publishing
        BY <1>5, <2>2
      <3>2. CASE exec[g].account = a
        <4>1. mem[g].version < n /\ n = balance'[exec[g].account].version /\ mem[g].version \in Int
          BY <1>4, <1>8, <1>9, <3>1, <3>2 DEF n
        <4>2. \A f \in Publishing' :
                f # g /\ exec[f].account = exec[g].account => mem[f].version # mem[g].version
          <5>1. mem[h].version # mem[g].version
            BY <1>3, <4>1 DEF n
          <5> QED
            BY <1>5, <3>1, <5>1 DEF PublishInv
        <4> QED
          BY <1>1, <1>3, <3>1, <4>1, <4>2 DEF PublishInv
      <3>3. CASE exec[g].account # a
        <4>1. balance'[exec[g].account] = balance[exec[g].account]
          BY <1>4, <1>8, <3>1, <3>3
        <4>2. \A f \in Publishing' :
                f # g /\ exec[f].account = exec[g].account => f \in Publishing
          BY <1>5, <3>3 DEF a
        <4> QED
          BY <1>1, <3>1, <4>1, <4>2 DEF PublishInv
      <3> QED
        BY <3>2, <3>3
    <2> QED
      BY <2>1, <2>2
  <1> QED
    BY <1>10, <1>11 DEF PublishInv, BroadcastInOrder

LEMMA PublishPublish ==
  ASSUME BookInv, QueueInv, PublishInv, NEW h \in Handlers, Publish(h), Quiet
  PROVE  PublishInv'
  <1> DEFINE m == [exchange |-> exec[h].exchange, account |-> exec[h].account,
                   cash |-> mem[h].cash, version |-> mem[h].version,
                   instrument |-> exec[h].instrument, quantity |-> memPosition[h].row.quantity]
             n == Len(published)
  <1>1. pc[h] = "publish" /\ h \in Publishing /\ published' = Append(published, m)
    BY DEF Publish, Publishing
  <1>2. /\ exec[h] \in Executions /\ exec[h].exchange \in Exchanges /\ exec[h].account \in Accounts
        /\ mem[h] \in BalanceRow /\ memPosition[h].row \in PositionRow
    BY <1>1, AtWork, WorkingFacts
  <1>3. m \in Update
    <2>1. /\ mem[h].cash \in Int /\ mem[h].version \in Int
          /\ memPosition[h].row.quantity \in Int
      BY <1>2 DEF BalanceRow, PositionRow
    <2> QED
      BY <1>2, <2>1 DEF Update
  <1>4. /\ m.account = exec[h].account /\ m.exchange = exec[h].exchange
        /\ m.version = mem[h].version /\ m.cash = mem[h].cash
    OBVIOUS
  <1> HIDE DEF m, n
  <1>5. /\ published' \in Seq(Update) /\ n \in Nat /\ DOMAIN published = 1..n
        /\ DOMAIN published' = 1..(n + 1)
        /\ \A k \in 1..n : published'[k] = published[k]
        /\ published'[n + 1] = m
    <2>1. published \in Seq(Update)
      BY DEF PublishInv
    <2>2. /\ published' \in Seq(Update) /\ Len(published') = n + 1
          /\ \A k \in 1..n : published'[k] = published[k]
          /\ published'[n + 1] = m
      BY <1>1, <1>3, <2>1, AppendProperties DEF n
    <2> QED
      BY <2>1, <2>2, LenProperties DEF n
  <1>6. \A k \in DOMAIN published' : k \in DOMAIN published \/ k = n + 1
    BY <1>5
  <1>7. \A k \in DOMAIN published :
          /\ k \in DOMAIN published' /\ published'[k] = published[k] /\ k < n + 1 /\ k \in Int
    BY <1>5
  <1>8. /\ m.version <= balance[m.account].version
        /\ m.version = balance[m.account].version => m.cash = balance[m.account].cash
        /\ \A k \in DOMAIN published :
             published[k].account = m.account =>
               /\ published[k].version # m.version
               /\ published[k].exchange = m.exchange => published[k].version < m.version
    BY <1>1, <1>4 DEF PublishInv
  <1>9. balance' = balance /\ n \in Nat
    BY <1>5 DEF Quiet
  <1>10. PublishedIsCommitted'
    <2> SUFFICES ASSUME NEW k \in DOMAIN published'
                 PROVE  LET p == published'[k] IN
                        /\ p.version <= balance[p.account].version
                        /\ p.version = balance[p.account].version => p.cash = balance[p.account].cash
                        /\ \A l \in DOMAIN published' :
                             published'[l].account = p.account /\ published'[l].version = p.version
                               => l = k
      BY <1>9 DEF PublishedIsCommitted
    <2>1. CASE k = n + 1
      BY <1>5, <1>6, <1>7, <1>8, <2>1
    <2>2. CASE k \in DOMAIN published
      <3>1. /\ published[k].version <= balance[published[k].account].version
            /\ published[k].version = balance[published[k].account].version
                 => published[k].cash = balance[published[k].account].cash
            /\ \A l \in DOMAIN published :
                 published[l].account = published[k].account
                   /\ published[l].version = published[k].version => l = k
        BY <2>2 DEF PublishInv, PublishedIsCommitted
      <3>2. ~(m.account = published[k].account /\ m.version = published[k].version)
        BY <1>8, <2>2
      <3> QED
        BY <1>5, <1>6, <1>7, <2>2, <3>1, <3>2
    <2> QED
      BY <1>6, <2>1, <2>2
  <1>11. BroadcastInOrder'
    <2> SUFFICES ASSUME NEW k \in DOMAIN published', NEW l \in DOMAIN published', k < l,
                        published'[k].account = published'[l].account,
                        published'[k].exchange = published'[l].exchange
                 PROVE  published'[k].version < published'[l].version
      BY DEF BroadcastInOrder
    <2>1. k \in DOMAIN published
      BY <1>5
    <2>2. CASE l = n + 1
      BY <1>5, <1>7, <1>8, <2>1, <2>2
    <2>3. CASE l \in DOMAIN published
      BY <1>7, <2>1, <2>3 DEF PublishInv, BroadcastInOrder
    <2> QED
      BY <1>6, <2>2, <2>3
  <1>12. \A g \in Publishing' :
           g # h /\ g \in Publishing /\ exec'[g] = exec[g] /\ mem'[g] = mem[g]
    <2>1. pc'[h] = "booked"
      BY DEF Publish, Return, BookInv, RowTypes
    <2> QED
      BY <2>1 DEF Quiet, Publishing
  <1>13. \A g \in Publishing : g # h => exec[g].exchange # exec[h].exchange
    BY <1>1 DEF Publishing, QueueInv, HoldsMutex
  <1>14. ASSUME NEW g \in Publishing'
         PROVE  /\ mem'[g].version <= balance'[exec'[g].account].version
                /\ mem'[g].version = balance'[exec'[g].account].version
                     => mem'[g].cash = balance'[exec'[g].account].cash
                /\ \A k \in DOMAIN published' :
                     published'[k].account = exec'[g].account =>
                       /\ published'[k].version # mem'[g].version
                       /\ published'[k].exchange = exec'[g].exchange
                            => published'[k].version < mem'[g].version
                /\ \A f \in Publishing' :
                     f # g /\ exec'[f].account = exec'[g].account => mem'[f].version # mem'[g].version
    <2>1. g # h /\ g \in Publishing /\ exec'[g] = exec[g] /\ mem'[g] = mem[g]
      BY <1>12
    <2>2. /\ mem[g].version <= balance[exec[g].account].version
          /\ mem[g].version = balance[exec[g].account].version
               => mem[g].cash = balance[exec[g].account].cash
      BY <2>1 DEF PublishInv
    <2>3. \A f \in Publishing' :
            f # g /\ exec'[f].account = exec'[g].account => mem'[f].version # mem'[g].version
      BY <1>12, <2>1 DEF PublishInv
    <2>4. ASSUME NEW k \in DOMAIN published', published'[k].account = exec[g].account
          PROVE  /\ published'[k].version # mem[g].version
                 /\ published'[k].exchange = exec[g].exchange
                      => published'[k].version < mem[g].version
      <3>1. CASE k = n + 1
        <4>1. mem[h].version # mem[g].version
          BY <1>1, <1>4, <1>5, <2>1, <2>4, <3>1 DEF PublishInv
        <4>2. published'[k].exchange # exec[g].exchange
          BY <1>4, <1>5, <1>13, <2>1, <3>1
        <4> QED
          BY <1>4, <1>5, <3>1, <4>1, <4>2
      <3>2. CASE k \in DOMAIN published
        BY <1>7, <2>1, <2>4, <3>2 DEF PublishInv
      <3> QED
        BY <1>6, <3>1, <3>2
    <2> QED
      BY <1>9, <2>1, <2>2, <2>3, <2>4
  <1> QED
    BY <1>5, <1>10, <1>11, <1>14 DEF PublishInv

LEMMA PublishInvariant == Spec => []PublishInv
  <1>1. BookInv /\ QueueInv /\ PublishInv /\ [Next]_vars => PublishInv'
    BY StepsOfBooking, CommitPublish, PublishPublish, QuietPublish
  <1> QED
    BY <1>1, InitPublishInv, BookAndQueueInvariant, PTL DEF Spec

(* A broadcast balance was committed under its version, and no two broadcasts of  *)
(* an account carry the same version, although two exchanges broadcast for the    *)
(* same account without a common mutex.                                           *)
THEOREM OnlyCommittedIsPublished == Spec => []PublishedIsCommitted
  <1>1. PublishInv => PublishedIsCommitted
    BY DEF PublishInv
  <1> QED
    BY <1>1, PublishInvariant, PTL

(* What one exchange brings about for an account is broadcast in the order it was *)
(* committed: the mutex of the exchange is held over the broadcast, and nothing a *)
(* fault or a restart does overtakes it.                                          *)
THEOREM BroadcastsKeepOrder == Spec => []BroadcastInOrder
  <1>1. PublishInv => BroadcastInOrder
    BY DEF PublishInv
  <1> QED
    BY <1>1, PublishInvariant, PTL

================================================================================
