----------------------------- MODULE OrderLifecycle -----------------------------
(***************************************************************************)
(* The life of an order at the broker: the REST handlers submit_order and   *)
(* cancel_order (rest_api/order_api.rs) and the asynchronous order-state    *)
(* handler update_order_state_loop (trade_handling/order_state_handling.rs) *)
(* as concurrent tasks over the order_state and order_state_history tables  *)
(* (persistence/orders.rs), with the exchange and its message stream as the *)
(* environment.                                                             *)
(*                                                                          *)
(* A task is one handler invocation.  It takes one step per await that      *)
(* another task can observe: a query, an UPDATE, a COMMIT, a broadcast, a   *)
(* call to the exchange.  Postgres runs READ COMMITTED: reads see committed *)
(* rows, an UPDATE waits for the row lock and then re-evaluates its WHERE.  *)
(***************************************************************************)
EXTENDS Integers, Sequences, FiniteSets, OrderStatus

CONSTANTS
  Orders,          \* orders that may be submitted; an order names its submit task
  Cancelers,       \* cancel requests
  None,            \* no task, no order
  MaxMsgs,         \* bound: order-state messages the exchange sends
  MaxAttempts,     \* attempts of update_order_state_loop (10 in the code)
  MaxTime,         \* bound: the exchange clock
  Skew,            \* broker clock minus exchange clock
  DistinctTimes,   \* TRUE: the exchange never stamps two states of an order alike
  LiveCancelReply, \* TRUE: a cancel may be answered while the order is still open
  MaxFaults,       \* bound: failing database or conversion operations
  MaxOutages,      \* bound: exchange disconnects and restarts of the broker
  MaxMishaps       \* bound: faults and outages together

Handlers == 1..MaxMsgs          \* handler n processes the n-th message received
Tasks == Orders \cup Cancelers \cup Handlers
Times == (0..MaxTime) \cup {n + Skew : n \in 0..MaxTime}

ASSUME ConstantsAssumption ==
  /\ MaxMsgs \in Nat /\ MaxAttempts \in Nat \ {0} /\ MaxTime \in Nat
  /\ Skew \in Int
  /\ DistinctTimes \in BOOLEAN /\ LiveCancelReply \in BOOLEAN
  /\ MaxFaults \in Nat /\ MaxOutages \in Nat
  /\ MaxMishaps \in 0..(MaxFaults + MaxOutages)

ASSUME TasksAssumption ==
  /\ Orders \cap Cancelers = {}
  /\ Orders \cap Handlers = {}
  /\ Cancelers \cap Handlers = {}
  /\ None \notin Tasks

VARIABLES
  \* the database
  row,        \* row[o]: the committed order_state row of o (version -1: no row)
  history,    \* history[o]: the committed order_state_history rows of o
  rowLock,    \* rowLock[o]: the task whose uncommitted UPDATE holds the row of o
  \* the broker's tasks
  pc,         \* pc[t]: where task t is
  target,     \* target[t]: the order task t works on (None: not yet known)
  mem,        \* mem[t]: the order state task t holds in memory
  msg,        \* msg[h]: the exchange message handler h was spawned for
  attempts,   \* attempts[h]: failed attempts of handler h
  mutex,      \* the exchange's mutex: FIFO of handlers, the head holds it
  published,  \* account messages broadcast to the websocket server
  \* the exchange and the network
  xs,         \* xs[o]: the exchange's own state of o
  rpc,        \* rpc[t]: the REST call of task t to the exchange
  wire,       \* order-state messages on the websocket, in order
  received,   \* messages taken off the websocket
  now,        \* the exchange clock
  budget      \* how many faults and outages are left

dbVars == <<row, history, rowLock>>
taskVars == <<pc, target, mem, msg, attempts, mutex>>
xVars == <<xs, rpc, wire, received, now>>
vars == <<dbVars, taskVars, published, xVars, budget>>

State == [status : Status \cup {"None"}, time : Int, version : Int, reason : Reasons]
NoState == [status |-> "None", time |-> 0, version |-> -1, reason |-> "none"]
XState == [status : ExchangeStatus \cup {"None"}, time : Int]
Message == [order : Orders, status : ExchangeStatus, time : Int]
NoReport == [status |-> "None", time |-> 0]

BrokerTime == now + Skew

Record(s, t, v, r) == [status |-> s, time |-> t, version |-> v, reason |-> r]

--------------------------------------------------------------------------------
(* persistence/orders.rs *)

\* The WHERE clause of update_order: orderId = .. AND versionNumber = ..
VersionIgnored(t) == TRUE
VersionMatches(t) == row[target[t]].version = mem[t].version

\* update_order clears the reject reason of a state that is not Rejected.
StoredReason(s) == IF s.status = "Rejected" THEN s.reason ELSE "none"

VersionKept(s) == [s EXCEPT !.reason = StoredReason(s)]
NextVersion(s) == [s EXCEPT !.version = @ + 1, !.reason = StoredReason(s)]

\* update_order: the UPDATE waits for the row lock; with no row modified it is
\* OptimisticLockingFailed, and the transaction is dropped.
UpdateOrder(t, updated, failed) ==
  /\ rowLock[target[t]] = None
  /\ \/ /\ VersionMatches(t)
        /\ rowLock' = [rowLock EXCEPT ![target[t]] = t]
        /\ mem' = [mem EXCEPT ![t] = NextVersion(@)]
        /\ pc' = [pc EXCEPT ![t] = updated]
     \/ /\ ~VersionMatches(t)
        /\ mem' = [mem EXCEPT ![t].reason = StoredReason(mem[t])]
        /\ pc' = [pc EXCEPT ![t] = failed]
        /\ UNCHANGED rowLock
  /\ UNCHANGED <<row, history>>

\* insert_order_state_history is part of the transaction of every write.
HistorySkipped(o, s) == history[o]
HistoryWith(o, s) == Append(history[o], s)

\* save_order: the rows of a new order and its history entry, in one transaction.
SaveNotCommitted(o, s) == UNCHANGED <<row, history>>
SaveOrder(o, s) ==
  /\ row' = [row EXCEPT ![o] = s]
  /\ history' = [history EXCEPT ![o] = HistoryWith(o, s)]

\* COMMIT makes the row and its history entry visible and frees the row.
CommitOrder(t, committed) ==
  /\ row' = [row EXCEPT ![target[t]] = mem[t]]
  /\ history' = [history EXCEPT ![target[t]] = HistoryWith(target[t], mem[t])]
  /\ rowLock' = [rowLock EXCEPT ![target[t]] = None]
  /\ pc' = [pc EXCEPT ![t] = committed]
  /\ UNCHANGED mem

\* send_order_state: broadcast the state the task holds in memory.
SendOrderState(t, sent) ==
  /\ published' = published \cup
       {[order |-> target[t], status |-> mem[t].status, version |-> mem[t].version]}
  /\ pc' = [pc EXCEPT ![t] = sent]

UnchangedByTask == UNCHANGED <<target, msg, attempts, mutex, xs, wire, received, now, budget>>

--------------------------------------------------------------------------------
(* rest_api/order_api.rs: submit_order, once the checks have passed *)

\* save_order and commit: version 0, Pending, or Rejected when the instrument is
\* inactive or has expired.
SubmitSave(o) ==
  /\ pc[o] = "start"
  /\ \E s \in {<<"Pending", "none">>, <<"Rejected", "inactive">>, <<"Rejected", "expired">>} :
       LET saved == Record(s[1], BrokerTime, 0, s[2]) IN
       /\ mem' = [mem EXCEPT ![o] = saved]
       /\ SaveOrder(o, saved)
  /\ pc' = [pc EXCEPT ![o] = "publishNew"]
  /\ UNCHANGED <<rowLock, published, rpc>> /\ UnchangedByTask

SubmitPublishNew(o) ==
  /\ pc[o] = "publishNew"
  /\ SendOrderState(o, IF mem[o].status = "Pending" THEN "submit" ELSE "done")
  /\ UNCHANGED <<dbVars, mem, rpc>> /\ UnchangedByTask

\* exchange_client.submit_order; without a client for the exchange the handler
\* returns and the order stays Pending.
SubmitCall(o) ==
  /\ pc[o] = "submit"
  /\ \/ rpc' = [rpc EXCEPT ![o] = "sent"] /\ pc' = [pc EXCEPT ![o] = "submitReply"]
     \/ UNCHANGED rpc /\ pc' = [pc EXCEPT ![o] = "done"]
  /\ UNCHANGED <<dbVars, mem, published>> /\ UnchangedByTask

\* Only a rejection is applied from the reply; every other status is left to the
\* asynchronous notification.
SubmitReply(o) ==
  /\ pc[o] = "submitReply"
  /\ rpc[o] \notin {"none", "sent"}
  /\ IF rpc[o] = "Rejected"
     THEN /\ mem' = [mem EXCEPT ![o] = Record("Rejected", BrokerTime, @.version, "exchange")]
          /\ pc' = [pc EXCEPT ![o] = "rejectUpdate"]
     ELSE UNCHANGED mem /\ pc' = [pc EXCEPT ![o] = "done"]
  /\ rpc' = [rpc EXCEPT ![o] = "none"]
  /\ UNCHANGED <<dbVars, published>> /\ UnchangedByTask

RejectUpdate(o) ==
  /\ pc[o] = "rejectUpdate"
  /\ UpdateOrder(o, "rejectCommit", "done")
  /\ UNCHANGED <<published, rpc>> /\ UnchangedByTask

RejectCommit(o) ==
  /\ pc[o] = "rejectCommit"
  /\ CommitOrder(o, "publishReject")
  /\ UNCHANGED <<published, rpc>> /\ UnchangedByTask

RejectPublish(o) ==
  /\ pc[o] = "publishReject"
  /\ SendOrderState(o, "done")
  /\ UNCHANGED <<dbVars, mem, rpc>> /\ UnchangedByTask

--------------------------------------------------------------------------------
(* rest_api/order_api.rs: cancel_order *)

\* get_order_by_ext_order_id: 404 without a row, 412 when the state is not
\* viable, else the state in memory becomes PendingCancel, its time unchanged.
AnyStateCancelable(s) == s.status # "None"
Cancelable(s) == s.status \in Viable

CancelRead(c, o) ==
  /\ pc[c] = "start"
  /\ target' = [target EXCEPT ![c] = o]
  /\ IF Cancelable(row[o])
     THEN /\ mem' = [mem EXCEPT ![c] = [row[o] EXCEPT !.status = "PendingCancel"]]
          /\ pc' = [pc EXCEPT ![c] = "markUpdate"]
     ELSE UNCHANGED mem /\ pc' = [pc EXCEPT ![c] = "done"]
  /\ UNCHANGED <<dbVars, msg, attempts, mutex, published, xVars, budget>>

CancelUpdate(c) ==
  /\ pc[c] = "markUpdate"
  /\ UpdateOrder(c, "markCommit", "done")
  /\ UNCHANGED <<published, rpc>> /\ UnchangedByTask

CancelCommit(c) ==
  /\ pc[c] = "markCommit"
  /\ CommitOrder(c, "publishMark")
  /\ UNCHANGED <<published, rpc>> /\ UnchangedByTask

CancelPublish(c) ==
  /\ pc[c] = "publishMark"
  /\ SendOrderState(c, "cancel")
  /\ UNCHANGED <<dbVars, mem, rpc>> /\ UnchangedByTask

\* exchange_client.cancel_order; without an instrument or a client the handler
\* returns and the order stays PendingCancel.
CancelCall(c) ==
  /\ pc[c] = "cancel"
  /\ \/ rpc' = [rpc EXCEPT ![c] = "sent"] /\ pc' = [pc EXCEPT ![c] = "cancelReply"]
     \/ UNCHANGED rpc /\ pc' = [pc EXCEPT ![c] = "done"]
  /\ UNCHANGED <<dbVars, mem, published>> /\ UnchangedByTask

\* The reply's status is adopted with the broker's clock; after an error the
\* handler returns and the order stays PendingCancel.
CancelReply(c) ==
  /\ pc[c] = "cancelReply"
  /\ rpc[c] \notin {"none", "sent"}
  /\ IF rpc[c] = "error"
     THEN UNCHANGED mem /\ pc' = [pc EXCEPT ![c] = "done"]
     ELSE /\ mem' = [mem EXCEPT ![c].status = rpc[c], ![c].time = BrokerTime]
          /\ pc' = [pc EXCEPT ![c] = "replyUpdate"]
  /\ rpc' = [rpc EXCEPT ![c] = "none"]
  /\ UNCHANGED <<dbVars, published>> /\ UnchangedByTask

\* A failure of the second update is only logged: the state in memory is
\* broadcast all the same.
ReplyUpdate(c) ==
  /\ pc[c] = "replyUpdate"
  /\ UpdateOrder(c, "replyCommit", "publishReply")
  /\ UNCHANGED <<published, rpc>> /\ UnchangedByTask

ReplyCommit(c) ==
  /\ pc[c] = "replyCommit"
  /\ CommitOrder(c, "publishReply")
  /\ UNCHANGED <<published, rpc>> /\ UnchangedByTask

ReplyPublish(c) ==
  /\ pc[c] = "publishReply"
  /\ SendOrderState(c, "done")
  /\ UNCHANGED <<dbVars, mem, rpc>> /\ UnchangedByTask

--------------------------------------------------------------------------------
(* exchange_interface/websocket_client.rs and                               *)
(* trade_handling/order_state_handling.rs: the asynchronous updates         *)

\* executions_receiver spawns a handler, which queues on the exchange's mutex.
ReceiveMessage ==
  LET h == received + 1 IN
  /\ wire # <<>>
  /\ wire' = Tail(wire)
  /\ received' = h
  /\ msg' = [msg EXCEPT ![h] = [status |-> Head(wire).status, time |-> Head(wire).time]]
  /\ target' = [target EXCEPT ![h] = Head(wire).order]
  /\ pc' = [pc EXCEPT ![h] = "locking"]
  /\ mutex' = Append(mutex, h)
  /\ UNCHANGED <<dbVars, mem, attempts, published, xs, rpc, now, budget>>

\* With the mutex held: begin and get_order_by_client_order_id.  A message older
\* than the row is skipped; a message for an unknown order is an error.
NeverNewer(h) == FALSE
DbIsNewer(h) == row[target[h]].time > msg[h].time

Apply(s, m) == Record(m.status, m.time, s.version,
                      IF m.status = "Rejected" THEN "exchange" ELSE s.reason)

AsyncRead(h) ==
  /\ pc[h] = "locking"
  /\ mutex # <<>> /\ Head(mutex) = h
  /\ \/ /\ row[target[h]].status = "None"
        /\ pc' = [pc EXCEPT ![h] = "failed"]
        /\ UNCHANGED mem
     \/ /\ row[target[h]].status # "None"
        /\ DbIsNewer(h)
        /\ pc' = [pc EXCEPT ![h] = "release"]
        /\ UNCHANGED mem
     \/ /\ row[target[h]].status # "None"
        /\ ~DbIsNewer(h)
        /\ mem' = [mem EXCEPT ![h] = Apply(row[target[h]], msg[h])]
        /\ pc' = [pc EXCEPT ![h] = "asyncUpdate"]
  /\ UNCHANGED <<dbVars, published, rpc>> /\ UnchangedByTask

AsyncUpdate(h) ==
  /\ pc[h] = "asyncUpdate"
  /\ UpdateOrder(h, "asyncCommit", "failed")
  /\ UNCHANGED <<published, rpc>> /\ UnchangedByTask

AsyncCommit(h) ==
  /\ pc[h] = "asyncCommit"
  /\ CommitOrder(h, "publishAsync")
  /\ UNCHANGED <<published, rpc>> /\ UnchangedByTask

AsyncPublish(h) ==
  /\ pc[h] = "publishAsync"
  /\ SendOrderState(h, "release")
  /\ UNCHANGED <<dbVars, mem, rpc>> /\ UnchangedByTask

\* update_order_state returns and drops the mutex guard on every path; after an
\* error the loop sleeps and tries again, up to MaxAttempts times.
NoRetry(h) == FALSE
OneAttemptMore(h) == attempts[h] < MaxAttempts
MayRetry(h) == attempts[h] + 1 < MaxAttempts

MutexKept == mutex
MutexReleased == Tail(mutex)

AsyncReturn(h) ==
  /\ \/ /\ pc[h] = "release"
        /\ pc' = [pc EXCEPT ![h] = "done"]
        /\ UNCHANGED attempts
     \/ /\ pc[h] = "failed"
        /\ attempts' = [attempts EXCEPT ![h] = @ + 1]
        /\ pc' = [pc EXCEPT ![h] = IF MayRetry(h) THEN "sleep" ELSE "done"]
  /\ mutex' = MutexReleased
  /\ UNCHANGED <<dbVars, target, mem, msg, published, xVars, budget>>

AsyncRetry(h) ==
  /\ pc[h] = "sleep"
  /\ pc' = [pc EXCEPT ![h] = "locking"]
  /\ mutex' = Append(mutex, h)
  /\ UNCHANGED <<dbVars, target, mem, msg, attempts, published, xVars, budget>>

--------------------------------------------------------------------------------
(* What can go wrong inside the broker *)

\* Where a handler goes when the operation it is at returns an error.
AfterFault(at) ==
  CASE at \in {"start", "markUpdate", "markCommit", "rejectUpdate", "rejectCommit"} -> "done"
    [] at \in {"replyUpdate", "replyCommit"} -> "publishReply"
    [] at \in {"locking", "asyncUpdate", "asyncCommit", "publishAsync"} -> "failed"

Committing == {"markCommit", "rejectCommit", "replyCommit", "asyncCommit"}

Faultable == Committing \cup
  {"start", "markUpdate", "rejectUpdate", "replyUpdate", "locking", "asyncUpdate", "publishAsync"}

\* A database operation fails and the dropped transaction rolls back; at
\* publishAsync it is the conversion of the committed state that fails.
Fault(t) ==
  /\ budget.faults > 0
  /\ pc[t] \in Faultable
  /\ pc[t] = "locking" => mutex # <<>> /\ Head(mutex) = t
  /\ budget' = [budget EXCEPT !.faults = @ - 1]
  /\ pc' = [pc EXCEPT ![t] = AfterFault(pc[t])]
  /\ rowLock' = [o \in Orders |-> IF rowLock[o] = t THEN None ELSE rowLock[o]]
  /\ UNCHANGED <<row, history, target, mem, msg, attempts, mutex, published, xVars>>

\* The database commits but its answer is lost: the handler sees an error.
LostCommitAnswer(t) ==
  /\ budget.faults > 0
  /\ pc[t] \in Committing
  /\ budget' = [budget EXCEPT !.faults = @ - 1]
  /\ CommitOrder(t, AfterFault(pc[t]))
  /\ UNCHANGED <<target, msg, attempts, mutex, published, xVars>>

\* The broker stops and is started again: open transactions roll back, every
\* running task and every message in flight is gone, nothing is recovered.
Crash ==
  /\ budget.outages > 0
  /\ budget' = [budget EXCEPT !.outages = @ - 1]
  /\ pc' = [t \in Tasks |-> IF pc[t] = "start" THEN "start" ELSE
                            IF pc[t] = "idle" THEN "idle" ELSE "done"]
  /\ rowLock' = [o \in Orders |-> None]
  /\ mutex' = <<>>
  /\ wire' = <<>>
  /\ UNCHANGED <<row, history, target, mem, msg, attempts, published, xs, rpc, received, now>>

--------------------------------------------------------------------------------
(* The exchange and the network, as the code uses them *)

SetExchange(o, s) == xs' = [xs EXCEPT ![o] = [status |-> s, time |-> now]]

\* The exchange reports a state of o on the websocket.
Notify(o, s) ==
  /\ received + Len(wire) < MaxMsgs
  /\ wire' = Append(wire, [order |-> o, status |-> s, time |-> now])

ClockAllows(o) == DistinctTimes => now > xs[o].time

ExchangeAccept(o) ==
  /\ rpc[o] = "sent" /\ xs[o].status = "None"
  /\ SetExchange(o, "Open") /\ Notify(o, "Open")
  /\ UNCHANGED <<dbVars, taskVars, published, rpc, received, now, budget>>

ExchangeReject(o) ==
  /\ rpc[o] = "sent" /\ xs[o].status = "None"
  /\ SetExchange(o, "Rejected")
  /\ UNCHANGED <<dbVars, taskVars, published, rpc, wire, received, now, budget>>

\* A partial fill (still Open), a complete fill, or an expiry.
ExchangeProgress(o) ==
  /\ xs[o].status = "Open" /\ ClockAllows(o)
  /\ \E s \in {"Open", "Filled", "Expired"} : SetExchange(o, s) /\ Notify(o, s)
  /\ UNCHANGED <<dbVars, taskVars, published, rpc, received, now, budget>>

ExchangeCancel(c) ==
  LET o == target[c] IN
  /\ rpc[c] = "sent"
  /\ xs[o].status = "Open" /\ ClockAllows(o)
  /\ SetExchange(o, "Canceled") /\ Notify(o, "Canceled")
  /\ UNCHANGED <<dbVars, taskVars, published, rpc, received, now, budget>>

\* The exchange answers with the state the order is in.
ExchangeReply(t) ==
  /\ rpc[t] = "sent"
  /\ \/ t \in Orders /\ xs[t].status # "None"
     \/ t \in Cancelers /\ xs[target[t]].status \in Terminal
     \/ t \in Cancelers /\ LiveCancelReply /\ xs[target[t]].status = "Open"
  /\ rpc' = [rpc EXCEPT ![t] = xs[target[t]].status]
  /\ UNCHANGED <<dbVars, taskVars, published, xs, wire, received, now, budget>>

\* The call fails: the request or the reply is lost, or the exchange refuses it.
RpcError(t) ==
  /\ rpc[t] = "sent"
  /\ rpc' = [rpc EXCEPT ![t] = "error"]
  /\ UNCHANGED <<dbVars, taskVars, published, xs, wire, received, now, budget>>

\* The websocket drops and the client reconnects: messages in flight are lost.
Disconnect ==
  /\ budget.outages > 0 /\ wire # <<>>
  /\ budget' = [budget EXCEPT !.outages = @ - 1]
  /\ wire' = <<>>
  /\ UNCHANGED <<dbVars, taskVars, published, xs, rpc, received, now>>

Tick ==
  /\ now < MaxTime
  /\ now' = now + 1
  /\ UNCHANGED <<dbVars, taskVars, published, xs, rpc, wire, received, budget>>

--------------------------------------------------------------------------------

Init ==
  /\ row = [o \in Orders |-> NoState]
  /\ history = [o \in Orders |-> <<>>]
  /\ rowLock = [o \in Orders |-> None]
  /\ pc = [t \in Tasks |-> IF t \in Handlers THEN "idle" ELSE "start"]
  /\ target = [t \in Tasks |-> IF t \in Orders THEN t ELSE None]
  /\ mem = [t \in Tasks |-> NoState]
  /\ msg = [h \in Handlers |-> NoReport]
  /\ attempts = [h \in Handlers |-> 0]
  /\ mutex = <<>>
  /\ published = {}
  /\ xs = [o \in Orders |-> NoReport]
  /\ rpc = [t \in Orders \cup Cancelers |-> "none"]
  /\ wire = <<>>
  /\ received = 0
  /\ now = 0
  /\ budget \in {b \in [faults : 0..MaxFaults, outages : 0..MaxOutages] :
                   b.faults + b.outages = MaxMishaps}

SubmitStep(o) ==
  \/ SubmitSave(o) \/ SubmitPublishNew(o) \/ SubmitCall(o) \/ SubmitReply(o)
  \/ RejectUpdate(o) \/ RejectCommit(o) \/ RejectPublish(o)

CancelStep(c) ==
  \/ \E o \in Orders : CancelRead(c, o)
  \/ CancelUpdate(c) \/ CancelCommit(c) \/ CancelPublish(c) \/ CancelCall(c)
  \/ CancelReply(c) \/ ReplyUpdate(c) \/ ReplyCommit(c) \/ ReplyPublish(c)

HandlerStep(h) ==
  \/ AsyncRead(h) \/ AsyncUpdate(h) \/ AsyncCommit(h) \/ AsyncPublish(h)
  \/ AsyncReturn(h) \/ AsyncRetry(h)

ExchangeStep ==
  \/ \E o \in Orders : ExchangeAccept(o) \/ ExchangeReject(o) \/ ExchangeProgress(o)
  \/ \E c \in Cancelers : ExchangeCancel(c)
  \/ \E t \in Orders \cup Cancelers : ExchangeReply(t) \/ RpcError(t)

\* The system comes to rest when every task has returned and the exchange has
\* nothing more to report.
Finished ==
  /\ \A t \in Tasks : pc[t] \in {"done", "idle"}
  /\ wire = <<>>
  /\ UNCHANGED vars

Next ==
  \/ \E o \in Orders : SubmitStep(o)
  \/ \E c \in Cancelers : CancelStep(c)
  \/ ReceiveMessage
  \/ \E h \in Handlers : HandlerStep(h)
  \/ \E t \in Tasks : Fault(t) \/ LostCommitAnswer(t)
  \/ Crash
  \/ ExchangeStep
  \/ Disconnect
  \/ Tick
  \/ Finished

Spec == Init /\ [][Next]_vars

(* Every spawned task is polled by its runtime until it returns, and the       *)
(* websocket reader reads on.  Nothing is assumed of the exchange, of the      *)
(* clients or of the clock.                                                    *)
Fairness ==
  /\ WF_vars(ReceiveMessage)
  /\ \A t \in Orders : WF_vars(pc[t] # "start" /\ SubmitStep(t))
  /\ \A c \in Cancelers : WF_vars(pc[c] # "start" /\ CancelStep(c))
  /\ \A h \in Handlers : WF_vars(HandlerStep(h))

FairSpec == Spec /\ Fairness


--------------------------------------------------------------------------------
(* Properties *)

PCs == {"idle", "start", "publishNew", "submit", "submitReply", "rejectUpdate",
        "rejectCommit", "publishReject", "markUpdate", "markCommit", "publishMark",
        "cancel", "cancelReply", "replyUpdate", "replyCommit", "publishReply",
        "locking", "asyncUpdate", "asyncCommit", "publishAsync", "release", "failed",
        "sleep", "done"}

\* Type invariant of the tables, the tasks, the exchange and the network.
TypeOK ==
  /\ row \in [Orders -> State]
  /\ history \in [Orders -> Seq(State)]
  /\ rowLock \in [Orders -> Tasks \cup {None}]
  /\ pc \in [Tasks -> PCs]
  /\ target \in [Tasks -> Orders \cup {None}]
  /\ mem \in [Tasks -> State]
  /\ msg \in [Handlers -> XState]
  /\ attempts \in [Handlers -> 0..MaxAttempts]
  /\ mutex \in Seq(Handlers)
  /\ published \subseteq [order : Orders, status : Status \cup {"None"}, version : Int]
  /\ xs \in [Orders -> XState]
  /\ rpc \in [Orders \cup Cancelers -> ExchangeStatus \cup {"none", "sent", "error"}]
  /\ wire \in Seq(Message)
  /\ received \in 0..MaxMsgs
  /\ now \in 0..MaxTime
  /\ budget \in [faults : 0..MaxFaults, outages : 0..MaxOutages]

\* However the three handlers interleave, order_state_history holds one row for
\* every version the order has been in, without gap or duplicate, and the last
\* is the order_state row itself (no update is lost or overwritten unseen).
HistoryIsComplete ==
  \A o \in Orders :
    /\ Len(history[o]) = row[o].version + 1
    /\ \A i \in 1..Len(history[o]) : history[o][i].version = i - 1
    /\ history[o] # <<>> => history[o][Len(history[o])] = row[o]

\* The optimistic check decides before the row is locked, and what it decided
\* stays true until COMMIT: the holder of a row writes the very next version.
LockedIsNextVersion ==
  \A t \in Tasks :
    pc[t] \in Committing =>
      /\ target[t] \in Orders
      /\ rowLock[target[t]] = t
      /\ mem[t].version = row[target[t]].version + 1

\* submit_order commits the order before it calls the exchange, so no message of
\* the exchange ever finds its order missing ("Trying to update unknown order").
OrderIsKnown ==
  /\ \A o \in Orders : xs[o].status # "None" => row[o].status # "None"
  /\ \A i \in DOMAIN wire : row[wire[i].order].status # "None"
  /\ \A h \in Handlers : pc[h] = "locking" => row[target[h]].status # "None"

\* The viability check of cancel_order and its update are two statements: still,
\* a cancel is never recorded on an order that has meanwhile become terminal.
CancelNeverReopens ==
  [][\A o \in Orders :
       row'[o] # row[o] /\ row'[o].status = "PendingCancel" => row[o].status \in Viable]_vars

\* Late, retried and reordered messages: an order that has left the market is
\* shown as live again only by a message with the very same time stamp (the
\* update-time test of the asynchronous handler is strict).
TerminalReopenedOnlyOnTie ==
  [][\A o \in Orders :
       row[o].status \in Terminal /\ row'[o].status \in Viable
         => row'[o].time = row[o].time]_vars

\* When the exchange never stamps two states of an order alike, an order that
\* has left the market is never shown as live again.
TerminalIsFinal ==
  [][\A o \in Orders : row[o].status \in Terminal => row'[o].status \in Terminal]_vars

\* Every account message shows a state that was committed, under the version it
\* was committed with; the one exception, the cancel whose second update lost
\* the race, carries a version that is already superseded.
PublishedIsCommittedOrSuperseded ==
  \A m \in published :
    \/ /\ m.version < Len(history[m.order])
       /\ history[m.order][m.version + 1].status = m.status
    \/ m.version < row[m.order].version

\* The tables implement the abstract log of order states.
Log == INSTANCE OrderLog WITH log <- history, Monotone <- (Skew >= 0)
ImplementsLog == Log!Spec

\* Every handler that was spawned returns: it is never stuck behind the mutex, a
\* row lock or its own retries.
HandlersFinish == \A h \in Handlers : pc[h] = "locking" ~> pc[h] = "done"

\* Once the exchange has reported the end of an order, the broker's row comes to
\* show it and stays there, whatever races with the report (as long as no
\* message is lost and retries suffice).
Converges ==
  \A o \in Orders : \A s \in {"Filled", "Expired", "Canceled"} :
    <>(xs[o].status = s) => <>[](row[o].status = s)

================================================================================
