----------------------------- MODULE ConnectionPool -----------------------------
(***************************************************************************)
(* What the tasks of the broker wait for: database connections of one pool   *)
(* (deadpool, a fair semaphore; persistence/dao.rs), the mutex of an         *)
(* exchange (tokio, FIFO) and the answers of an exchange.                    *)
(*                                                                          *)
(* A task is reduced to the resources it asks for, in the order it asks for  *)
(* them; whatever it does between two of them, it may also return early, and *)
(* returning drops everything it holds.                                      *)
(***************************************************************************)
EXTENDS Integers, FiniteSets, Sequences

LOCAL INSTANCE FiniteSetsExt

CONSTANTS
  Submits,         \* submit_order requests
  Cancels,         \* cancel_order requests
  Reads,           \* requests that only read: get_order, get_orders, balances, SEND GET, ...
  Updates,         \* order states the exchanges report (update_order_state_loop)
  Executions,      \* executions the exchanges report (handle_execution_thread)
  Exchanges,
  ExchangeOf,      \* ExchangeOf[t]: the exchange that reported t
  PoolSize,        \* connections of the pool
  MaxAttempts      \* update_order_state_loop: for attempt in 0..10

Requests == Submits \cup Cancels \cup Reads
Handlers == Updates \cup Executions
Tasks == Requests \cup Handlers

ASSUME PoolAssumption ==
  /\ PoolSize \in Nat \ {0} /\ MaxAttempts \in Nat \ {0}
  /\ IsFiniteSet(Tasks)
  /\ ExchangeOf \in [Handlers -> Exchanges]
  /\ Submits \cap (Cancels \cup Reads \cup Handlers) = {}
  /\ Cancels \cap (Reads \cup Handlers) = {} /\ Reads \cap Handlers = {}
  /\ Updates \cap Executions = {}

VARIABLES
  at,              \* at[t]: how many of the resources on its path t has been given
  state,           \* state[t]: what t is doing
  held,            \* held[t]: the connections t holds
  free,            \* connections in the pool
  waiting,         \* the tasks at the pool, in the order they asked
  mutex,           \* mutex[x]: the tasks at the mutex of exchange x; its head holds it
  attempts         \* attempts[t]: the attempts update_order_state_loop has started

vars == <<at, state, held, free, waiting, mutex, attempts>>

--------------------------------------------------------------------------------
(* What each task asks for *)

\* submit_order: check_order takes a connection and gives it back; then one for
\* the account and, with that one still held, one for the order.  The exchange is
\* asked with both of them held.
CheckKeptPath == <<"connection", "connection", "connection", "exchange">>
SubmitPath == <<"connection", "release", "connection", "connection", "exchange">>

\* cancel_order keeps its connection while it asks the exchange, and records the
\* answer on it.
TwoConnectionsPath == <<"connection", "exchange", "connection">>
CancelPath == <<"connection", "exchange">>

ReadPath == <<"connection">>

\* The handlers take the mutex of their exchange, then a connection.
HandlerPath == <<"mutex", "connection">>

Path(t) ==
  CASE t \in Submits -> SubmitPath
    [] t \in Cancels -> CancelPath
    [] t \in Reads -> ReadPath
    [] t \in Handlers -> HandlerPath

Wanted(t) == Path(t)[at[t] + 1]

--------------------------------------------------------------------------------
(* Steps *)

\* A request arrives, an exchange reports something: the task is spawned.
Spawn(t) ==
  /\ state[t] = "idle"
  /\ state' = [state EXCEPT ![t] = "working"]
  /\ attempts' = [attempts EXCEPT ![t] = 1]
  /\ UNCHANGED <<at, held, free, waiting, mutex>>

\* A task comes to its next await.
AskConnection(t) ==
  /\ Wanted(t) = "connection"
  /\ waiting' = Append(waiting, t)
  /\ UNCHANGED mutex

AskMutex(t) ==
  /\ Wanted(t) = "mutex"
  /\ mutex' = [mutex EXCEPT ![ExchangeOf[t]] = Append(@, t)]
  /\ UNCHANGED waiting

AskExchange(t) ==
  /\ Wanted(t) = "exchange"
  /\ UNCHANGED <<waiting, mutex>>

Ask(t) ==
  /\ state[t] = "working"
  /\ at[t] < Len(Path(t))
  /\ AskConnection(t) \/ AskMutex(t) \/ AskExchange(t)
  /\ state' = [state EXCEPT ![t] = "waiting"]
  /\ UNCHANGED <<at, held, free, attempts>>

\* check_order returns: its connection goes back to the pool.
CheckReturns(t) ==
  /\ state[t] = "working"
  /\ at[t] < Len(Path(t)) /\ Wanted(t) = "release"
  /\ held' = [held EXCEPT ![t] = @ - 1]
  /\ free' = free + 1
  /\ at' = [at EXCEPT ![t] = @ + 1]
  /\ UNCHANGED <<state, waiting, mutex, attempts>>

Proceed(t) ==
  /\ at' = [at EXCEPT ![t] = @ + 1]
  /\ state' = [state EXCEPT ![t] = "working"]

\* The pool serves the task that has waited longest.
GetConnection(t) ==
  /\ state[t] = "waiting" /\ Wanted(t) = "connection"
  /\ Head(waiting) = t
  /\ free > 0
  /\ free' = free - 1
  /\ held' = [held EXCEPT ![t] = @ + 1]
  /\ waiting' = Tail(waiting)
  /\ Proceed(t)
  /\ UNCHANGED <<mutex, attempts>>

Lock(t) ==
  /\ state[t] = "waiting" /\ Wanted(t) = "mutex"
  /\ Head(mutex[ExchangeOf[t]]) = t
  /\ Proceed(t)
  /\ UNCHANGED <<held, free, waiting, mutex, attempts>>

\* The exchange answers, or the call fails.
ExchangeAnswers(t) ==
  /\ state[t] = "waiting" /\ Wanted(t) = "exchange"
  /\ Proceed(t)
  /\ UNCHANGED <<held, free, waiting, mutex, attempts>>

\* Everything a task holds is dropped with its scope, on every path out of it.
DropConnections(t) ==
  /\ free' = free + held[t]
  /\ held' = [held EXCEPT ![t] = 0]

\* (A handler that runs holds the mutex of its exchange.)
DropMutex(t) ==
  mutex' = IF t \in Handlers THEN [mutex EXCEPT ![ExchangeOf[t]] = Tail(@)] ELSE mutex

\* The task returns: it is done, or something between two awaits has failed.
Return(t) ==
  /\ state[t] = "working"
  /\ t \in Handlers => at[t] > 0
  /\ state' = [state EXCEPT ![t] = "returned"]
  /\ DropConnections(t)
  /\ DropMutex(t)
  /\ UNCHANGED <<at, waiting, attempts>>

\* An attempt of update_order_state_loop fails; another one follows.
Retry(t) ==
  /\ t \in Updates
  /\ state[t] = "working"
  /\ at[t] > 0
  /\ attempts[t] < MaxAttempts
  /\ attempts' = [attempts EXCEPT ![t] = @ + 1]
  /\ at' = [at EXCEPT ![t] = 0]
  /\ DropConnections(t)
  /\ DropMutex(t)
  /\ UNCHANGED <<state, waiting>>

--------------------------------------------------------------------------------

Init ==
  /\ at = [t \in Tasks |-> 0]
  /\ state = [t \in Tasks |-> "idle"]
  /\ held = [t \in Tasks |-> 0]
  /\ free = PoolSize
  /\ waiting = <<>>
  /\ mutex = [x \in Exchanges |-> <<>>]
  /\ attempts = [t \in Tasks |-> 0]

Step(t) ==
  \/ Ask(t) \/ CheckReturns(t) \/ Return(t) \/ Retry(t)
  \/ GetConnection(t) \/ Lock(t) \/ ExchangeAnswers(t)

Next == \E t \in Tasks : Spawn(t) \/ Step(t)

Spec == Init /\ [][Next]_vars

\* A spawned task is polled when it can go on, and an exchange answers.
FairSpec == Spec /\ \A t \in Tasks : WF_vars(Step(t))

--------------------------------------------------------------------------------
(* Properties *)

Started == {t \in Tasks : state[t] \in {"working", "waiting"}}

\* The tasks that can go on without another task's doing.
CanGoOn(t) ==
  \/ state[t] = "working"
  \/ /\ state[t] = "waiting"
     /\ \/ Wanted(t) = "exchange"
        \/ Wanted(t) = "connection" /\ Head(waiting) = t /\ free > 0
        \/ Wanted(t) = "mutex" /\ Head(mutex[ExchangeOf[t]]) = t

Stuck == Started # {} /\ \A t \in Started : ~CanGoOn(t)

\* A submit_order that has one connection and waits for another.
HalfWay(t) == t \in Submits /\ state[t] = "waiting" /\ Wanted(t) = "connection" /\ held[t] = 1

\* The broker comes to a standstill in one way only: every connection of the pool
\* is held by a submit_order that waits for its second one.  Cancels, reads and
\* the handlers, with the mutexes they hold, are never part of the cycle.
StuckOnlyOnSubmits ==
  Stuck => free = 0 /\ \A t \in Tasks : held[t] > 0 => HalfWay(t)

FewSubmits == Cardinality(Started \cap Submits) < PoolSize

\* As long as there are more connections than submit_order requests at work,
\* every request is answered and every report of an exchange is handled, however
\* they interleave.
EveryTaskReturns ==
  []FewSubmits => \A t \in Tasks : state[t] = "working" ~> state[t] = "returned"

================================================================================
