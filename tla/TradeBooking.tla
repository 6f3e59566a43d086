------------------------------ MODULE TradeBooking ------------------------------
(***************************************************************************)
(* How executions reach the balance and position tables: every execution an *)
(* exchange reports is a task (handle_execution_thread of                   *)
(* trade_handling/execution_handling.rs) that takes the mutex of its        *)
(* exchange and then reads and writes the two tables in one transaction.    *)
(* Executions of two exchanges share an account's balance row and no mutex. *)
(*                                                                          *)
(* A task takes one step per await that another task can observe.  Postgres *)
(* runs READ COMMITTED; the row lock of a balance is taken by its UPDATE.   *)
(* Positions need no lock of their own here: a task reads and writes the    *)
(* positions of an account only while it holds the lock of its balance.     *)
(***************************************************************************)
EXTENDS Accounting, Sequences, FiniteSets, Functions

CONSTANTS
  Exchanges,
  Executions,      \* what may be executed: exchange, account, instrument, price, quantity
  None,            \* no task
  MaxExecutions,   \* bound: executions the exchanges report
  MaxFaults,       \* bound: failing database or conversion operations
  MaxCrashes       \* bound: restarts of the broker

Handlers == 1..MaxExecutions    \* handler n processes the n-th execution received

ASSUME BookingAssumption ==
  /\ MaxExecutions \in Nat /\ MaxFaults \in Nat /\ MaxCrashes \in Nat
  /\ InitialCash \in Int
  /\ None \notin Handlers
  /\ \A e \in Executions :
       e.exchange \in Exchanges /\ e.account \in Accounts /\ e.price \in Int /\ e.quantity \in Int

VARIABLES
  balance,         \* balance[a]: the committed balance row of account a
  balanceLock,     \* balanceLock[a]: the task whose open transaction updated that row
  positions,       \* positions[a][i]: the committed position rows of a in i
  pc,              \* pc[h]: where handler h is
  exec,            \* exec[h]: the execution handler h was spawned for
  mem,             \* mem[h]: the balance row handler h holds in memory
  memPosition,     \* memPosition[h]: the position row handler h holds in memory
  mutex,           \* mutex[x]: the FIFO of handlers at the mutex of exchange x
  published,       \* the account updates broadcast, in order
  received,        \* executions received
  budget           \* how many faults and restarts are left

dbVars == <<balance, balanceLock, positions>>
vars == <<dbVars, pc, exec, mem, memPosition, mutex, published, received, budget>>

BalanceRow == [cash : Int, version : Int]
PositionRow == [quantity : Int, cost : Int, closedGain : Int, version : Int]
NewPosition == [quantity |-> 0, cost |-> 0, closedGain |-> 0, version |-> 0]

\* The books the tables amount to.
Booked(r) == [quantity |-> r.quantity, cost |-> r.cost, closedGain |-> r.closedGain]

BookedPosition(rows) ==
  IF rows = <<>> THEN Booked(NewPosition) ELSE Booked(rows[Len(rows)])

Books == INSTANCE Ledger WITH
  Prices <- {e.price : e \in Executions},
  Quantities <- {e.quantity : e \in Executions},
  cash <- [a \in Accounts |-> balance[a].cash],
  position <- [a \in Accounts |-> [i \in Instruments |-> BookedPosition(positions[a][i])]],
  fills <- [a \in Accounts |-> balance[a].version]

--------------------------------------------------------------------------------
(* The mutex of an exchange *)

Ignored(h) == TRUE
HoldsMutex(h) == mutex[exec[h].exchange] # <<>> /\ Head(mutex[exec[h].exchange]) = h

\* The guard is dropped when the handler returns, on every path.
Kept(h) == mutex
Released(h) == [mutex EXCEPT ![exec[h].exchange] = Tail(@)]

\* The handler returns; a transaction it has not committed is rolled back.
Return(h, outcome) ==
  /\ pc' = [pc EXCEPT ![h] = outcome]
  /\ mutex' = Released(h)

RollBack(h) ==
  balanceLock' = [a \in Accounts |-> IF balanceLock[a] = h THEN None ELSE balanceLock[a]]

GiveUp(h) ==
  /\ Return(h, "lost")
  /\ RollBack(h)
  /\ UNCHANGED <<balance, positions, exec, mem, memPosition, published, received>>

--------------------------------------------------------------------------------
(* handle_execution_thread *)

\* An exchange reports an execution: executions_receiver spawns a handler, which
\* queues on the exchange's mutex.
Receive(e) ==
  LET h == received + 1 IN
  /\ received < MaxExecutions
  /\ received' = h
  /\ exec' = [exec EXCEPT ![h] = e]
  /\ pc' = [pc EXCEPT ![h] = "locking"]
  /\ mutex' = [mutex EXCEPT ![e.exchange] = Append(@, h)]
  /\ UNCHANGED <<dbVars, mem, memPosition, published, budget>>

\* With the mutex held: begin, look up the order and its account (which never
\* change), read the balance and take the cost off it in memory.
ReadBalance(h) ==
  /\ pc[h] = "locking"
  /\ HoldsMutex(h)
  /\ LET row == balance[exec[h].account] IN
     mem' = [mem EXCEPT ![h] = [row EXCEPT !.cash = @ - ExecutionCost(exec[h])]]
  /\ pc' = [pc EXCEPT ![h] = "updateBalance"]
  /\ UNCHANGED <<dbVars, exec, memPosition, mutex, published, received, budget>>

\* update_balance: WHERE balanceId = .. AND versionNumber = ..
VersionIgnored(h) == TRUE
VersionMatches(h) == balance[exec[h].account].version = mem[h].version

\* With no row modified the handler returns: the execution is not booked, and
\* nothing tries again.
UpdateBalance(h) ==
  LET a == exec[h].account IN
  /\ pc[h] = "updateBalance"
  /\ balanceLock[a] = None
  /\ \/ /\ VersionMatches(h)
        /\ balanceLock' = [balanceLock EXCEPT ![a] = h]
        /\ mem' = [mem EXCEPT ![h].version = @ + 1]
        /\ pc' = [pc EXCEPT ![h] = "readPosition"]
        /\ UNCHANGED <<balance, positions, exec, memPosition, mutex, published, received>>
     \/ /\ ~VersionMatches(h)
        /\ GiveUp(h)
  /\ UNCHANGED budget

\* get_position keeps the last row it finds for the instrument.
NoneFound(rows) == TRUE
NotFound(rows) == rows = <<>>

\* get_instrument_by_exchange_instrument_id, get_position, save_position of a new
\* row, and apply_execution on it in memory.
ReadPosition(h) ==
  LET e == exec[h] IN
  /\ pc[h] = "readPosition"
  /\ \/ /\ e.instrument \in Instruments
        /\ LET rows == positions[e.account][e.instrument]
               found == IF NotFound(rows) THEN NewPosition ELSE rows[Len(rows)] IN
           memPosition' = [memPosition EXCEPT ![h] =
             [row |-> ApplyExecution(found, e), new |-> NotFound(rows)]]
        /\ pc' = [pc EXCEPT ![h] = "updatePosition"]
        /\ UNCHANGED <<dbVars, exec, mem, mutex, published, received>>
     \/ /\ e.instrument \notin Instruments
        /\ GiveUp(h)
  /\ UNCHANGED budget

\* update_position: the row the handler has just inserted, or the committed one
\* if its version is still the one that was read.
PositionMatches(h) ==
  LET rows == positions[exec[h].account][exec[h].instrument]
      p == memPosition[h] IN
  ~p.new => rows[Len(rows)].version = p.row.version

UpdatePosition(h) ==
  /\ pc[h] = "updatePosition"
  /\ \/ /\ PositionMatches(h)
        /\ memPosition' = [memPosition EXCEPT ![h].row.version = @ + 1]
        /\ pc' = [pc EXCEPT ![h] = "commit"]
        /\ UNCHANGED <<dbVars, exec, mem, mutex, published, received>>
     \/ /\ ~PositionMatches(h)
        /\ GiveUp(h)
  /\ UNCHANGED budget

\* The position rows once the transaction has committed.
PositionForgotten(h, rows) == rows
WithPosition(h, rows) ==
  IF memPosition[h].new THEN Append(rows, memPosition[h].row)
  ELSE [rows EXCEPT ![Len(rows)] = memPosition[h].row]

CommitBooking(h) ==
  LET e == exec[h] IN
  /\ balance' = [balance EXCEPT ![e.account] = mem[h]]
  /\ positions' = [positions EXCEPT ![e.account][e.instrument] = WithPosition(h, @)]
  /\ balanceLock' = [balanceLock EXCEPT ![e.account] = None]
  /\ UNCHANGED <<exec, mem, memPosition, published, received>>

Commit(h) ==
  /\ pc[h] = "commit"
  /\ CommitBooking(h)
  /\ pc' = [pc EXCEPT ![h] = "publish"]
  /\ UNCHANGED <<mutex, budget>>

\* Broadcast the committed balance and position, and return.
Publish(h) ==
  /\ pc[h] = "publish"
  /\ published' = Append(published,
       [exchange |-> exec[h].exchange, account |-> exec[h].account, cash |-> mem[h].cash, version |-> mem[h].version,
        instrument |-> exec[h].instrument, quantity |-> memPosition[h].row.quantity])
  /\ Return(h, "booked")
  /\ UNCHANGED <<dbVars, exec, mem, memPosition, received, budget>>

--------------------------------------------------------------------------------
(* What can go wrong *)

Transacting == {"updateBalance", "readPosition", "updatePosition", "commit"}

\* A database operation fails: the handler returns and its transaction is rolled
\* back.  After the commit it is the conversion of the position that fails.
Fault(h) ==
  /\ budget.faults > 0
  /\ budget' = [budget EXCEPT !.faults = @ - 1]
  /\ \/ /\ pc[h] \in Transacting \/ (pc[h] = "locking" /\ HoldsMutex(h))
        /\ GiveUp(h)
     \/ /\ pc[h] = "publish"
        /\ Return(h, "unpublished")
        /\ UNCHANGED <<dbVars, exec, mem, memPosition, published, received>>

\* The database commits but its answer is lost: nothing is broadcast.
LostCommitAnswer(h) ==
  /\ budget.faults > 0
  /\ budget' = [budget EXCEPT !.faults = @ - 1]
  /\ pc[h] = "commit"
  /\ CommitBooking(h)
  /\ Return(h, "unpublished")

\* The broker stops and is started again: every task is gone, every open
\* transaction rolled back.
Crash ==
  /\ budget.crashes > 0
  /\ budget' = [budget EXCEPT !.crashes = @ - 1]
  /\ pc' = [h \in Handlers |->
              IF pc[h] = "locking" \/ pc[h] \in Transacting THEN "lost"
              ELSE IF pc[h] = "publish" THEN "unpublished" ELSE pc[h]]
  /\ balanceLock' = [a \in Accounts |-> None]
  /\ mutex' = [x \in Exchanges |-> <<>>]
  /\ UNCHANGED <<balance, positions, exec, mem, memPosition, published, received>>

--------------------------------------------------------------------------------

NoExecution == [exchange |-> None, account |-> None, instrument |-> None,
                price |-> 0, quantity |-> 0]

Init ==
  /\ balance = [a \in Accounts |-> [cash |-> InitialCash, version |-> 0]]
  /\ balanceLock = [a \in Accounts |-> None]
  /\ positions = [a \in Accounts |-> [i \in Instruments |-> <<>>]]
  /\ pc = [h \in Handlers |-> "idle"]
  /\ exec = [h \in Handlers |-> NoExecution]
  /\ mem = [h \in Handlers |-> [cash |-> 0, version |-> 0]]
  /\ memPosition = [h \in Handlers |-> [row |-> NewPosition, new |-> FALSE]]
  /\ mutex = [x \in Exchanges |-> <<>>]
  /\ published = <<>>
  /\ received = 0
  /\ budget = [faults |-> MaxFaults, crashes |-> MaxCrashes]

HandleExecution(h) ==
  \/ ReadBalance(h) \/ UpdateBalance(h) \/ ReadPosition(h) \/ UpdatePosition(h)
  \/ Commit(h) \/ Publish(h)

Outcomes == {"booked", "unpublished", "lost"}

\* The exchanges have nothing more to report and every handler has returned.
Finished ==
  /\ \A h \in Handlers : pc[h] \in Outcomes \cup {"idle"}
  /\ UNCHANGED vars

Next ==
  \/ \E e \in Executions : Receive(e)
  \/ \E h \in Handlers : HandleExecution(h) \/ Fault(h) \/ LostCommitAnswer(h)
  \/ Crash
  \/ Finished

Spec == Init /\ [][Next]_vars

\* A spawned handler is polled until it returns.
FairSpec == Spec /\ \A h \in Handlers : WF_vars(HandleExecution(h))

--------------------------------------------------------------------------------
(* Properties *)

Committed == {h \in Handlers : pc[h] \in {"publish", "booked", "unpublished"}}

\* Type invariant; the queue of a mutex holds exactly the handlers of its
\* exchange that are at work.
TypeOK ==
  /\ balance \in [Accounts -> BalanceRow]
  /\ balanceLock \in [Accounts -> Handlers \cup {None}]
  /\ \A a \in Accounts, i \in Instruments : positions[a][i] \in Seq(PositionRow)
  /\ pc \in [Handlers -> {"idle", "locking", "publish"} \cup Transacting \cup Outcomes]
  /\ \A h \in Handlers : exec[h] \in Executions \cup {NoExecution}
  /\ mem \in [Handlers -> BalanceRow]
  /\ memPosition \in [Handlers -> [row : PositionRow, new : BOOLEAN]]
  /\ \A x \in Exchanges :
       /\ IsInjective(mutex[x])
       /\ Range(mutex[x]) = {h \in Handlers : exec[h].exchange = x /\
                                              pc[h] \notin Outcomes \cup {"idle"}}
  /\ received \in 0..MaxExecutions
  /\ budget \in [faults : 0..MaxFaults, crashes : 0..MaxCrashes]

\* What each handler has booked to the position of account a in instrument i.
BookedQuantity(a, i) ==
  [h \in Handlers |->
     IF h \in Committed /\ exec[h].account = a /\ exec[h].instrument = i
     THEN exec[h].quantity ELSE 0]

\* However the executions of several exchanges interleave and fail, an account
\* holds in each instrument what its committed executions add up to: none is
\* booked twice, lost after its commit, or booked to a stale position.
PositionIsSumOfBooked ==
  \A a \in Accounts, i \in Instruments :
    BookedPosition(positions[a][i]).quantity = SumOver(BookedQuantity(a, i), Handlers)

\* Handlers that find no position insert one: never two of them for the same
\* account and instrument (the table has no unique index).
OnePositionRow ==
  \A a \in Accounts, i \in Instruments : Len(positions[a][i]) <= 1

\* Cash and positions always change together: the tables implement the ledger.
ImplementsLedger == Books!LedgerSpec

\* A broadcast balance was committed under its version: no two broadcasts of an
\* account differ under the same version, and none differs from the table.
PublishedIsCommitted ==
  \A k \in DOMAIN published :
    LET m == published[k] IN
    /\ m.version <= balance[m.account].version
    /\ m.version = balance[m.account].version => m.cash = balance[m.account].cash
    /\ \A l \in DOMAIN published :
         published[l].account = m.account /\ published[l].version = m.version => l = k

\* The mutex is held over the broadcast: what one exchange brings about goes out
\* in the order it was committed, whatever other exchanges, faults and restarts
\* come between.
BroadcastInOrder ==
  \A k, l \in DOMAIN published :
    k < l /\ published[k].account = published[l].account
          /\ published[k].exchange = published[l].exchange
      => published[k].version < published[l].version

\* Nothing has failed, and every account is traded on by one exchange.
Undisturbed ==
  /\ budget = [faults |-> MaxFaults, crashes |-> MaxCrashes]
  /\ \A g, h \in 1..received : exec[g].account = exec[h].account
                                  => exec[g].exchange = exec[h].exchange

\* The mutex alone keeps the optimistic checks of one exchange's executions from
\* failing: as long as no other exchange trades for the account and nothing
\* fails, every execution of a known instrument is booked and broadcast.
EveryExecutionIsBooked ==
  \A h \in Handlers :
    pc[h] = "locking" /\ exec[h].instrument \in Instruments
      ~> pc[h] = "booked" \/ ~Undisturbed

================================================================================
