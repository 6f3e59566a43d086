-------------------------- MODULE OrderLifecycleProofs --------------------------
(***************************************************************************)
(* Proofs about OrderLifecycle for every set of orders, cancel requests and *)
(* messages, every clock skew and every number of faults and outages.       *)
(*                                                                         *)
(* The tables: the optimistic version check makes them consistent however  *)
(* submit_order, cancel_order and the asynchronous handlers interleave.     *)
(* order_state_history is the gap-free record of order_state, and a cancel  *)
(* is never recorded on an order that is no longer viable.                  *)
(*                                                                         *)
(* The log: the tables implement the abstract log of order states.  What is *)
(* written may follow what it overwrites, because the version says that it  *)
(* is still what the task has read; and what the task knows of the exchange *)
(* is true, because an exchange never takes back the end of an order.       *)
(* Last, what is broadcast was committed, as long as no operation fails.    *)
(***************************************************************************)
EXTENDS OrderLifecycle, TLAPS

\* A task that has begun and not returned works on a known order, a submit task
\* always on its own.
TargetKnown ==
  /\ \A o \in Orders : target[o] = o
  /\ \A t \in Tasks : pc[t] \notin {"idle", "start", "done"} => target[t] \in Orders
  /\ \A c \in Orders \cup Cancelers : rpc[c] # "none" => target[c] \in Orders

\* The places at which a handler holds the exchange's mutex.
Critical == {"asyncUpdate", "asyncCommit", "publishAsync", "release", "failed"}

\* Two handlers of an exchange are never inside update_order_state together: the
\* one inside is the head of the mutex queue.
MutexHeld ==
  \A h \in Handlers : pc[h] \in Critical => mutex # <<>> /\ Head(mutex) = h

\* A handler that is still at work has attempts left; one not yet spawned has
\* made none, and its number has not been received.
HandlersCounted ==
  /\ received + Len(wire) <= MaxMsgs
  /\ \A h \in Handlers : h > received => pc[h] = "idle"
  /\ \A h \in Handlers : pc[h] # "done" => attempts[h] < MaxAttempts

TypeInv == TypeOK /\ TargetKnown /\ MutexHeld /\ HandlersCounted

--------------------------------------------------------------------------------
(* Records *)

LEMMA StateFacts ==
  /\ NoState \in State
  /\ NoReport \in XState
  BY DEF NoState, NoReport, State, XState, Status, ExchangeStatus, Reasons

\* update_order writes the next version and keeps the status and the time.
LEMMA NextVersionFacts ==
  ASSUME NEW s \in State
  PROVE  /\ NextVersion(s) \in State
         /\ NextVersion(s).version = s.version + 1
         /\ NextVersion(s).status = s.status
         /\ [s EXCEPT !.reason = StoredReason(s)] \in State
  <1>1. StoredReason(s) \in Reasons
    BY DEF StoredReason, State, Reasons
  <1>2. s.version + 1 \in Int
    BY DEF State
  <1> QED
    BY <1>1, <1>2 DEF NextVersion, State

LEMMA RecordType ==
  ASSUME NEW s \in Status, NEW t \in Int, NEW v \in Int, NEW r \in Reasons
  PROVE  Record(s, t, v, r) \in State
  BY DEF Record, State

--------------------------------------------------------------------------------
(* Type correctness *)

\* The helpers of the database keep the types of what they change.
LEMMA UpdateOrderType ==
  ASSUME TypeOK, NEW t \in Tasks, NEW a \in PCs, NEW b \in PCs, target[t] \in Orders,
         UpdateOrder(t, a, b), UNCHANGED <<published, rpc>>, UnchangedByTask
  PROVE  TypeOK' /\ \E x \in {a, b} : pc' = [pc EXCEPT ![t] = x]
  <1>1. CASE /\ rowLock' = [rowLock EXCEPT ![target[t]] = t]
             /\ mem' = [mem EXCEPT ![t] = NextVersion(@)]
             /\ pc' = [pc EXCEPT ![t] = a]
    BY <1>1, NextVersionFacts DEF UpdateOrder, TypeOK, UnchangedByTask
  <1>2. CASE /\ mem' = [mem EXCEPT ![t].reason = StoredReason(mem[t])]
             /\ pc' = [pc EXCEPT ![t] = b]
             /\ UNCHANGED rowLock
    BY <1>2, NextVersionFacts DEF UpdateOrder, TypeOK, UnchangedByTask
  <1> QED
    BY <1>1, <1>2 DEF UpdateOrder

LEMMA CommitOrderType ==
  ASSUME TypeOK, NEW t \in Tasks, NEW a \in PCs, target[t] \in Orders,
         CommitOrder(t, a)
  PROVE  /\ row' \in [Orders -> State]
         /\ history' \in [Orders -> Seq(State)]
         /\ rowLock' \in [Orders -> Tasks \cup {None}]
         /\ mem' \in [Tasks -> State]
         /\ pc' \in [Tasks -> PCs]
  BY DEF TypeOK, CommitOrder, HistoryWith

LEMMA CommitStepType ==
  ASSUME TypeOK, NEW t \in Tasks, NEW a \in PCs, target[t] \in Orders,
         CommitOrder(t, a), UNCHANGED <<published, rpc>>, UnchangedByTask
  PROVE  TypeOK' /\ pc' = [pc EXCEPT ![t] = a]
  BY CommitOrderType DEF TypeOK, CommitOrder, UnchangedByTask

LEMMA SendStepType ==
  ASSUME TypeOK, NEW t \in Tasks, NEW a \in PCs, target[t] \in Orders,
         SendOrderState(t, a), UNCHANGED <<dbVars, mem, rpc>>, UnchangedByTask
  PROVE  TypeOK' /\ pc' = [pc EXCEPT ![t] = a]
  <1>1. published' \subseteq [order : Orders, status : Status \cup {"None"}, version : Int]
    BY DEF TypeOK, SendOrderState, State
  <1> QED
    BY <1>1 DEF TypeOK, SendOrderState, UnchangedByTask, dbVars

LEMMA InitTypeInv == Init => TypeInv
  <1> SUFFICES ASSUME Init PROVE TypeInv
    OBVIOUS
  <1>1. TypeOK
    BY ConstantsAssumption, TasksAssumption, StateFacts
       DEF Init, TypeOK, PCs, Tasks, Handlers, NoReport
  <1>2. TargetKnown
    BY DEF Init, TargetKnown, Tasks
  <1>3. MutexHeld
    BY DEF Init, MutexHeld, Critical, Tasks
  <1>4. HandlersCounted
    BY ConstantsAssumption DEF Init, HandlersCounted, Tasks, Handlers
  <1> QED
    BY <1>1, <1>2, <1>3, <1>4 DEF TypeInv

\* What a step of a task that only moves the task keeps.
LEMMA TaskStepSupport ==
  ASSUME TypeInv, NEW t \in Tasks, NEW a \in PCs,
         pc' = [pc EXCEPT ![t] = a], UnchangedByTask,
         pc[t] \notin {"idle", "done"}, target[t] \in Orders,
         t \in Handlers /\ a \in Critical => mutex # <<>> /\ Head(mutex) = t,
         \A c \in Orders \cup Cancelers : rpc'[c] # "none" => target[c] \in Orders
  PROVE  TargetKnown' /\ MutexHeld' /\ HandlersCounted'
  <1>0. /\ pc \in [Tasks -> PCs] /\ Handlers \subseteq Tasks
        /\ target' = target /\ mutex' = mutex /\ received' = received
        /\ wire' = wire /\ attempts' = attempts
    BY DEF TypeInv, TypeOK, Tasks, UnchangedByTask
  <1>1. TargetKnown'
    BY <1>0 DEF TypeInv, TargetKnown
  <1>2. MutexHeld'
    BY <1>0 DEF TypeInv, MutexHeld
  <1>3. HandlersCounted'
    BY <1>0 DEF TypeInv, HandlersCounted
  <1> QED
    BY <1>1, <1>2, <1>3

LEMMA SubmitTypeInv ==
  ASSUME TypeInv, NEW o \in Orders, SubmitStep(o)
  PROVE  TypeInv'
  <1>0. /\ o \in Tasks /\ target[o] = o /\ o \notin Handlers
        /\ TypeOK /\ UnchangedByTask
        /\ \A c \in Orders \cup Cancelers : rpc[c] # "none" => target[c] \in Orders
    BY TasksAssumption
       DEF TypeInv, TargetKnown, Tasks, SubmitStep, SubmitSave, SubmitPublishNew, SubmitCall,
           SubmitReply, RejectUpdate, RejectCommit, RejectPublish
  <1>1. CASE SubmitSave(o)
    <2>1. PICK s \in {<<"Pending", "none">>, <<"Rejected", "inactive">>, <<"Rejected", "expired">>} :
            LET saved == Record(s[1], BrokerTime, 0, s[2]) IN
              mem' = [mem EXCEPT ![o] = saved] /\ SaveOrder(o, saved)
      BY <1>1 DEF SubmitSave
    <2>2. Record(s[1], BrokerTime, 0, s[2]) \in State
      BY <1>0, ConstantsAssumption, RecordType DEF BrokerTime, Status, Reasons, TypeOK
    <2>3. TypeOK'
      BY <1>0, <1>1, <2>1, <2>2
         DEF SubmitSave, SaveOrder, HistoryWith, TypeOK, PCs, UnchangedByTask
    <2> QED
      BY <1>0, <1>1, <2>3, TaskStepSupport DEF SubmitSave, TypeInv, PCs
  <1>2. CASE SubmitPublishNew(o)
    <2>1. PICK a \in {"submit", "done"} : SendOrderState(o, a)
      BY <1>2 DEF SubmitPublishNew
    <2>2. a \in PCs
      BY DEF PCs
    <2>3. TypeOK' /\ pc' = [pc EXCEPT ![o] = a]
      BY <1>0, <1>2, <2>1, <2>2, SendStepType DEF SubmitPublishNew
    <2> QED
      BY <1>0, <1>2, <2>2, <2>3, TaskStepSupport DEF SubmitPublishNew, TypeInv
  <1>3. CASE SubmitCall(o)
    <2>1. PICK a \in {"submitReply", "done"} : pc' = [pc EXCEPT ![o] = a]
      BY <1>3 DEF SubmitCall
    <2>2. TypeOK' /\ a \in PCs
      BY <1>0, <1>3, <2>1 DEF SubmitCall, TypeOK, PCs, UnchangedByTask, dbVars
    <2>3. \A c \in Orders \cup Cancelers : rpc'[c] # "none" => target[c] \in Orders
      BY <1>0, <1>3 DEF SubmitCall, TypeOK
    <2> QED
      BY <1>0, <1>3, <2>1, <2>2, <2>3, TaskStepSupport DEF SubmitCall, TypeInv
  <1>4. CASE SubmitReply(o)
    <2>1. PICK a \in {"rejectUpdate", "done"} : pc' = [pc EXCEPT ![o] = a]
      BY <1>4 DEF SubmitReply
    <2>2. Record("Rejected", BrokerTime, mem[o].version, "exchange") \in State
      <3>1. BrokerTime \in Int
        BY <1>0, ConstantsAssumption DEF TypeOK, BrokerTime
      <3>2. mem[o].version \in Int
        BY <1>0 DEF TypeOK, State
      <3>3. "Rejected" \in Status /\ "exchange" \in Reasons
        BY DEF Status, Reasons
      <3> QED
        BY <3>1, <3>2, <3>3, RecordType
    <2>3. mem' \in [Tasks -> State]
      BY <1>0, <1>4, <2>2 DEF SubmitReply, TypeOK
    <2>4. TypeOK' /\ a \in PCs
      BY <1>0, <1>4, <2>1, <2>3 DEF SubmitReply, TypeOK, PCs, UnchangedByTask, dbVars
    <2>5. \A c \in Orders \cup Cancelers : rpc'[c] # "none" => target[c] \in Orders
      BY <1>0, <1>4 DEF SubmitReply, TypeOK
    <2> QED
      BY <1>0, <1>4, <2>1, <2>4, <2>5, TaskStepSupport DEF SubmitReply, TypeInv
  <1>5. CASE RejectUpdate(o)
    <2>1. {"rejectCommit", "done"} \subseteq PCs
      BY DEF PCs
    <2>2. TypeOK' /\ \E x \in {"rejectCommit", "done"} : pc' = [pc EXCEPT ![o] = x]
      BY <1>0, <1>5, <2>1, UpdateOrderType DEF RejectUpdate
    <2> QED
      BY <1>0, <1>5, <2>1, <2>2, TaskStepSupport DEF RejectUpdate, TypeInv
  <1>6. CASE RejectCommit(o)
    <2>1. "publishReject" \in PCs
      BY DEF PCs
    <2>2. TypeOK' /\ pc' = [pc EXCEPT ![o] = "publishReject"]
      BY <1>0, <1>6, <2>1, CommitStepType DEF RejectCommit
    <2> QED
      BY <1>0, <1>6, <2>1, <2>2, TaskStepSupport DEF RejectCommit, TypeInv
  <1>7. CASE RejectPublish(o)
    <2>1. "done" \in PCs
      BY DEF PCs
    <2>2. TypeOK' /\ pc' = [pc EXCEPT ![o] = "done"]
      BY <1>0, <1>7, <2>1, SendStepType DEF RejectPublish
    <2> QED
      BY <1>0, <1>7, <2>1, <2>2, TaskStepSupport DEF RejectPublish, TypeInv
  <1> QED
    BY <1>1, <1>2, <1>3, <1>4, <1>5, <1>6, <1>7 DEF SubmitStep

LEMMA CancelTypeInv ==
  ASSUME TypeInv, NEW c \in Cancelers, CancelStep(c)
  PROVE  TypeInv'
  <1>0. /\ c \in Tasks /\ c \notin Handlers /\ c \notin Orders
        /\ TypeOK
        /\ \A t \in Tasks : pc[t] \notin {"idle", "start", "done"} => target[t] \in Orders
        /\ \A x \in Orders \cup Cancelers : rpc[x] # "none" => target[x] \in Orders
    BY TasksAssumption DEF TypeInv, TargetKnown, Tasks
  <1>1. ASSUME NEW o \in Orders, CancelRead(c, o)
        PROVE  TypeInv'
    <2>1. PICK a \in {"markUpdate", "done"} : pc' = [pc EXCEPT ![c] = a]
      BY <1>1 DEF CancelRead
    <2>2. [row[o] EXCEPT !.status = "PendingCancel"] \in State
      <3>1. row[o] \in State /\ "PendingCancel" \in Status
        BY <1>0 DEF TypeOK, Status
      <3> QED
        BY <3>1 DEF State
    <2>3. mem' \in [Tasks -> State]
      BY <1>0, <1>1, <2>2 DEF CancelRead, TypeOK
    <2>4. a \in PCs
      BY DEF PCs
    <2>5. TypeOK'
      BY <1>0, <1>1, <2>1, <2>3, <2>4 DEF CancelRead, TypeOK, dbVars, xVars
    <2>6. target' = [target EXCEPT ![c] = o]
      BY <1>1 DEF CancelRead
    <2>7. TargetKnown'
      BY <1>0, <1>1, <2>1, <2>6 DEF TypeInv, TypeOK, TargetKnown, CancelRead, xVars
    <2>8. MutexHeld' /\ HandlersCounted'
      BY <1>0, <1>1, <2>1 DEF TypeInv, TypeOK, MutexHeld, HandlersCounted, CancelRead, xVars, Tasks
    <2> QED
      BY <2>5, <2>7, <2>8 DEF TypeInv
  <1>2. CASE CancelUpdate(c)
    <2>1. {"markCommit", "done"} \subseteq PCs
      BY DEF PCs
    <2>2. TypeOK' /\ \E x \in {"markCommit", "done"} : pc' = [pc EXCEPT ![c] = x]
      BY <1>0, <1>2, <2>1, UpdateOrderType DEF CancelUpdate
    <2> QED
      BY <1>0, <1>2, <2>1, <2>2, TaskStepSupport DEF CancelUpdate, TypeInv
  <1>3. CASE CancelCommit(c)
    <2>1. "publishMark" \in PCs
      BY DEF PCs
    <2>2. TypeOK' /\ pc' = [pc EXCEPT ![c] = "publishMark"]
      BY <1>0, <1>3, <2>1, CommitStepType DEF CancelCommit
    <2> QED
      BY <1>0, <1>3, <2>1, <2>2, TaskStepSupport DEF CancelCommit, TypeInv
  <1>4. CASE CancelPublish(c)
    <2>1. "cancel" \in PCs
      BY DEF PCs
    <2>2. TypeOK' /\ pc' = [pc EXCEPT ![c] = "cancel"]
      BY <1>0, <1>4, <2>1, SendStepType DEF CancelPublish
    <2> QED
      BY <1>0, <1>4, <2>1, <2>2, TaskStepSupport DEF CancelPublish, TypeInv
  <1>5. CASE CancelCall(c)
    <2>1. PICK a \in {"cancelReply", "done"} : pc' = [pc EXCEPT ![c] = a]
      BY <1>5 DEF CancelCall
    <2>2. TypeOK' /\ a \in PCs
      BY <1>0, <1>5, <2>1 DEF CancelCall, TypeOK, PCs, UnchangedByTask, dbVars
    <2>3. \A x \in Orders \cup Cancelers : rpc'[x] # "none" => target[x] \in Orders
      BY <1>0, <1>5 DEF CancelCall, TypeOK
    <2> QED
      BY <1>0, <1>5, <2>1, <2>2, <2>3, TaskStepSupport DEF CancelCall, TypeInv
  <1>6. CASE CancelReply(c)
    <2>1. PICK a \in {"replyUpdate", "done"} : pc' = [pc EXCEPT ![c] = a]
      BY <1>6 DEF CancelReply
    <2>2. CASE rpc[c] = "error"
      <3>1. TypeOK' /\ a \in PCs
        BY <1>0, <1>6, <2>1, <2>2 DEF CancelReply, TypeOK, PCs, UnchangedByTask, dbVars
      <3> QED
        BY <1>0, <1>6, <2>1, <3>1, TaskStepSupport DEF CancelReply, TypeInv, TypeOK
    <2>3. CASE rpc[c] # "error"
      <3>1. rpc[c] \in Status /\ BrokerTime \in Int
        BY <1>0, <1>6, <2>3, ConstantsAssumption
           DEF CancelReply, TypeOK, Status, ExchangeStatus, BrokerTime
      <3>2. [mem[c] EXCEPT !.status = rpc[c], !.time = BrokerTime] \in State
        <4>1. mem[c] \in State
          BY <1>0 DEF TypeOK
        <4> QED
          BY <3>1, <4>1 DEF State
      <3>3. mem' \in [Tasks -> State]
        BY <1>0, <1>6, <2>3, <3>2 DEF CancelReply, TypeOK
      <3>4. TypeOK' /\ a \in PCs
        BY <1>0, <1>6, <2>1, <3>3 DEF CancelReply, TypeOK, PCs, UnchangedByTask, dbVars
      <3> QED
        BY <1>0, <1>6, <2>1, <3>4, TaskStepSupport DEF CancelReply, TypeInv, TypeOK
    <2> QED
      BY <2>2, <2>3
  <1>7. CASE ReplyUpdate(c)
    <2>1. {"replyCommit", "publishReply"} \subseteq PCs
      BY DEF PCs
    <2>2. TypeOK' /\ \E x \in {"replyCommit", "publishReply"} : pc' = [pc EXCEPT ![c] = x]
      BY <1>0, <1>7, <2>1, UpdateOrderType DEF ReplyUpdate
    <2> QED
      BY <1>0, <1>7, <2>1, <2>2, TaskStepSupport DEF ReplyUpdate, TypeInv
  <1>8. CASE ReplyCommit(c)
    <2>1. "publishReply" \in PCs
      BY DEF PCs
    <2>2. TypeOK' /\ pc' = [pc EXCEPT ![c] = "publishReply"]
      BY <1>0, <1>8, <2>1, CommitStepType DEF ReplyCommit
    <2> QED
      BY <1>0, <1>8, <2>1, <2>2, TaskStepSupport DEF ReplyCommit, TypeInv
  <1>9. CASE ReplyPublish(c)
    <2>1. "done" \in PCs
      BY DEF PCs
    <2>2. TypeOK' /\ pc' = [pc EXCEPT ![c] = "done"]
      BY <1>0, <1>9, <2>1, SendStepType DEF ReplyPublish
    <2> QED
      BY <1>0, <1>9, <2>1, <2>2, TaskStepSupport DEF ReplyPublish, TypeInv
  <1> QED
    BY <1>1, <1>2, <1>3, <1>4, <1>5, <1>6, <1>7, <1>8, <1>9 DEF CancelStep

LEMMA HandlerTypeInv ==
  ASSUME TypeInv, NEW h \in Handlers, HandlerStep(h)
  PROVE  TypeInv'
  <1>0. /\ h \in Tasks /\ h \notin Orders \cup Cancelers
        /\ TypeOK
        /\ \A t \in Tasks : pc[t] \notin {"idle", "start", "done"} => target[t] \in Orders
        /\ \A x \in Orders \cup Cancelers : rpc[x] # "none" => target[x] \in Orders
        /\ pc[h] \in Critical => mutex # <<>> /\ Head(mutex) = h
    BY TasksAssumption DEF TypeInv, TargetKnown, MutexHeld, Tasks
  <1>1. CASE AsyncRead(h)
    <2>1. PICK a \in {"failed", "release", "asyncUpdate"} :
            /\ pc' = [pc EXCEPT ![h] = a]
            /\ mem' = mem \/ (mem' = [mem EXCEPT ![h] = Apply(row[target[h]], msg[h])]
                              /\ row[target[h]].status # "None" /\ a = "asyncUpdate")
      BY <1>1 DEF AsyncRead
    <2>2. target[h] \in Orders
      BY <1>0, <1>1 DEF AsyncRead
    <2>3. a \in PCs
      BY DEF PCs
    <2>4. CASE mem' = mem
      <3>1. TypeOK'
        BY <1>0, <1>1, <2>1, <2>3, <2>4 DEF AsyncRead, TypeOK, UnchangedByTask, dbVars
      <3> QED
        BY <1>0, <1>1, <2>1, <2>2, <2>3, <3>1, TaskStepSupport DEF AsyncRead, TypeInv
    <2>5. CASE mem' = [mem EXCEPT ![h] = Apply(row[target[h]], msg[h])]
      <3>1. row[target[h]] \in State /\ msg[h] \in XState
        BY <1>0, <2>2 DEF TypeOK
      <3>2. Apply(row[target[h]], msg[h]) \in State
        BY <3>1 DEF Apply, Record, State, XState, Status, ExchangeStatus, Reasons
      <3>3. TypeOK'
        BY <1>0, <1>1, <2>1, <2>3, <2>5, <3>2 DEF AsyncRead, TypeOK, UnchangedByTask, dbVars
      <3> QED
        BY <1>0, <1>1, <2>1, <2>2, <2>3, <3>3, TaskStepSupport DEF AsyncRead, TypeInv
    <2> QED
      BY <2>1, <2>4, <2>5
  <1>2. CASE AsyncUpdate(h)
    <2>1. {"asyncCommit", "failed"} \subseteq PCs
      BY DEF PCs
    <2>2. TypeOK' /\ \E x \in {"asyncCommit", "failed"} : pc' = [pc EXCEPT ![h] = x]
      BY <1>0, <1>2, <2>1, UpdateOrderType DEF AsyncUpdate
    <2> QED
      BY <1>0, <1>2, <2>1, <2>2, TaskStepSupport DEF AsyncUpdate, TypeInv, Critical
  <1>3. CASE AsyncCommit(h)
    <2>1. "publishAsync" \in PCs
      BY DEF PCs
    <2>2. TypeOK' /\ pc' = [pc EXCEPT ![h] = "publishAsync"]
      BY <1>0, <1>3, <2>1, CommitStepType DEF AsyncCommit
    <2> QED
      BY <1>0, <1>3, <2>1, <2>2, TaskStepSupport DEF AsyncCommit, TypeInv, Critical
  <1>4. CASE AsyncPublish(h)
    <2>1. "release" \in PCs
      BY DEF PCs
    <2>2. TypeOK' /\ pc' = [pc EXCEPT ![h] = "release"]
      BY <1>0, <1>4, <2>1, SendStepType DEF AsyncPublish
    <2> QED
      BY <1>0, <1>4, <2>1, <2>2, TaskStepSupport DEF AsyncPublish, TypeInv, Critical
  <1>5. CASE AsyncReturn(h)
    <2>1. pc[h] \in Critical /\ mutex # <<>> /\ Head(mutex) = h
      BY <1>0, <1>5 DEF AsyncReturn, Critical
    <2>2. /\ mutex' = Tail(mutex) /\ mutex' \in Seq(Handlers)
      BY <1>0, <1>5, <2>1 DEF AsyncReturn, MutexReleased, TypeOK
    <2>3. PICK a \in {"sleep", "done"} :
            /\ pc' = [pc EXCEPT ![h] = a]
            /\ \/ attempts' = attempts /\ a = "done"
               \/ attempts' = [attempts EXCEPT ![h] = @ + 1]
                  /\ (a = "sleep" => attempts[h] + 1 < MaxAttempts)
      BY <1>5 DEF AsyncReturn, MayRetry
    <2>4. attempts[h] < MaxAttempts /\ attempts[h] \in 0..MaxAttempts
      BY <1>0, <2>1 DEF TypeInv, HandlersCounted, Critical, TypeOK
    <2>5. attempts' \in [Handlers -> 0..MaxAttempts]
      <3>1. attempts \in [Handlers -> 0..MaxAttempts]
        BY <1>0 DEF TypeOK
      <3>2. attempts[h] + 1 \in 0..MaxAttempts
        BY <2>4, ConstantsAssumption
      <3> QED
        BY <2>3, <3>1, <3>2
    <2>6. a \in PCs
      BY DEF PCs
    <2>7. TypeOK'
      BY <1>0, <1>5, <2>2, <2>3, <2>5, <2>6 DEF AsyncReturn, TypeOK, dbVars, xVars
    <2>8. TargetKnown'
      BY <1>0, <1>5, <2>1, <2>3 DEF AsyncReturn, TypeInv, TypeOK, TargetKnown, Critical, dbVars, xVars
    <2>9. MutexHeld'
      <3> SUFFICES ASSUME NEW g \in Handlers, pc'[g] \in Critical
                   PROVE  mutex' # <<>> /\ Head(mutex') = g
        BY DEF MutexHeld
      <3>1. g # h
        BY <1>0, <2>3 DEF Critical, TypeOK
      <3>2. pc[g] \in Critical
        BY <1>0, <2>3, <3>1 DEF TypeOK, Tasks
      <3> QED
        BY <2>1, <3>1, <3>2 DEF TypeInv, MutexHeld
    <2>10. HandlersCounted'
      BY <1>0, <1>5, <2>1, <2>3, <2>4 DEF AsyncReturn, TypeInv, TypeOK, HandlersCounted, Critical, Tasks, xVars
    <2> QED
      BY <2>7, <2>8, <2>9, <2>10 DEF TypeInv
  <1>6. CASE AsyncRetry(h)
    <2>1. mutex' \in Seq(Handlers) /\ (mutex # <<>> => mutex' # <<>> /\ Head(mutex') = Head(mutex))
      <3>1. mutex \in Seq(Handlers) /\ mutex' = Append(mutex, h)
        BY <1>0, <1>6 DEF AsyncRetry, TypeOK
      <3> QED BY <3>1
    <2>2. TypeOK'
      BY <1>0, <1>6, <2>1 DEF AsyncRetry, TypeOK, PCs, dbVars, xVars
    <2>3. TargetKnown'
      BY <1>0, <1>6 DEF AsyncRetry, TypeInv, TypeOK, TargetKnown, xVars
    <2>4. MutexHeld'
      BY <1>0, <1>6, <2>1 DEF AsyncRetry, TypeInv, TypeOK, MutexHeld, Critical, Tasks
    <2>5. HandlersCounted'
      BY <1>0, <1>6 DEF AsyncRetry, TypeInv, TypeOK, HandlersCounted, Tasks, xVars
    <2> QED
      BY <2>2, <2>3, <2>4, <2>5 DEF TypeInv
  <1> QED
    BY <1>1, <1>2, <1>3, <1>4, <1>5, <1>6 DEF HandlerStep

\* An error leaves the task at a place of its own handler.
LEMMA AfterFaultPlace ==
  ASSUME NEW at \in Faultable
  PROVE  /\ AfterFault(at) \in PCs
         /\ AfterFault(at) \in Critical \cup {"done", "publishReply"}
         /\ AfterFault(at) \in Critical => at \in Critical \cup {"locking"}
         /\ at # "idle" /\ at # "done"
         /\ at = "start" => AfterFault(at) = "done"
  <1>1. CASE at \in {"start", "markUpdate", "markCommit", "rejectUpdate", "rejectCommit"}
    BY <1>1 DEF AfterFault, PCs, Critical
  <1>2. CASE at \in {"replyUpdate", "replyCommit"}
    BY <1>2 DEF AfterFault, PCs, Critical
  <1>3. CASE at \in {"locking", "asyncUpdate", "asyncCommit", "publishAsync"}
    BY <1>3 DEF AfterFault, PCs, Critical
  <1> QED
    BY <1>1, <1>2, <1>3 DEF Faultable, Committing

LEMMA FaultTypeInv ==
  ASSUME TypeInv, NEW t \in Tasks, Fault(t)
  PROVE  TypeInv'
  <1> DEFINE a == AfterFault(pc[t])
  <1>0. /\ TypeOK
        /\ pc[t] \in Faultable
        /\ pc' = [pc EXCEPT ![t] = a]
        /\ target' = target /\ rpc' = rpc /\ mutex' = mutex /\ wire' = wire
        /\ received' = received /\ attempts' = attempts
    BY DEF TypeInv, Fault, xVars
  <1>1. /\ a \in PCs
        /\ a \in Critical => pc[t] \in Critical \cup {"locking"}
        /\ pc[t] # "idle" /\ pc[t] # "done"
        /\ pc[t] = "start" => a = "done"
    BY <1>0, AfterFaultPlace
  <1>2. /\ rowLock' \in [Orders -> Tasks \cup {None}]
        /\ budget' \in [faults : 0..MaxFaults, outages : 0..MaxOutages]
    <2>1. rowLock' \in [Orders -> Tasks \cup {None}]
      BY <1>0 DEF Fault, TypeOK
    <2>2. budget \in [faults : 0..MaxFaults, outages : 0..MaxOutages]
      BY <1>0 DEF TypeOK
    <2>3. budget.faults > 0 /\ budget' = [budget EXCEPT !.faults = @ - 1]
      BY DEF Fault
    <2>4. budget.faults - 1 \in 0..MaxFaults
      BY <2>2, <2>3, ConstantsAssumption
    <2> QED
      BY <2>1, <2>2, <2>3, <2>4
  <1> HIDE DEF a
  <1>3. TypeOK'
    BY <1>0, <1>1, <1>2 DEF Fault, TypeOK, xVars
  <1>4. TargetKnown'
    BY <1>0, <1>1 DEF TypeInv, TypeOK, TargetKnown
  <1>5. MutexHeld'
    BY <1>0, <1>1 DEF TypeInv, TypeOK, MutexHeld, Fault, Tasks
  <1>6. HandlersCounted'
    BY <1>0, <1>1 DEF TypeInv, TypeOK, HandlersCounted, Tasks
  <1> QED
    BY <1>3, <1>4, <1>5, <1>6 DEF TypeInv

LEMMA LostAnswerTypeInv ==
  ASSUME TypeInv, NEW t \in Tasks, LostCommitAnswer(t)
  PROVE  TypeInv'
  <1> DEFINE a == AfterFault(pc[t])
  <1>0. /\ TypeOK
        /\ pc[t] \in Committing /\ pc[t] \in Faultable
        /\ target[t] \in Orders
        /\ pc' = [pc EXCEPT ![t] = a]
        /\ target' = target /\ rpc' = rpc /\ mutex' = mutex /\ wire' = wire
        /\ received' = received /\ attempts' = attempts
    BY DEF TypeInv, TargetKnown, LostCommitAnswer, CommitOrder, xVars, Committing, Faultable
  <1>1. /\ a \in PCs
        /\ a \in Critical => pc[t] \in Critical
        /\ pc[t] # "idle" /\ pc[t] # "done" /\ pc[t] # "start"
    BY <1>0, AfterFaultPlace DEF Committing
  <1>2. budget' \in [faults : 0..MaxFaults, outages : 0..MaxOutages]
    <2>1. budget \in [faults : 0..MaxFaults, outages : 0..MaxOutages]
      BY <1>0 DEF TypeOK
    <2>2. budget.faults > 0 /\ budget' = [budget EXCEPT !.faults = @ - 1]
      BY DEF LostCommitAnswer
    <2>3. budget.faults - 1 \in 0..MaxFaults
      BY <2>1, <2>2, ConstantsAssumption
    <2> QED
      BY <2>1, <2>2, <2>3
  <1>3. TypeOK'
    <2>1. CommitOrder(t, a)
      BY DEF LostCommitAnswer
    <2> HIDE DEF a
    <2>2. /\ row' \in [Orders -> State]
          /\ history' \in [Orders -> Seq(State)]
          /\ rowLock' \in [Orders -> Tasks \cup {None}]
          /\ mem' \in [Tasks -> State]
          /\ pc' \in [Tasks -> PCs]
      BY <1>0, <1>1, <2>1, CommitOrderType
    <2> QED
      BY <1>0, <1>2, <2>2 DEF LostCommitAnswer, TypeOK, xVars
  <1> HIDE DEF a
  <1>4. TargetKnown'
    BY <1>0, <1>1 DEF TypeInv, TypeOK, TargetKnown
  <1>5. MutexHeld'
    BY <1>0, <1>1 DEF TypeInv, TypeOK, MutexHeld, Tasks
  <1>6. HandlersCounted'
    BY <1>0, <1>1 DEF TypeInv, TypeOK, HandlersCounted, Tasks
  <1> QED
    BY <1>3, <1>4, <1>5, <1>6 DEF TypeInv

LEMMA ReceiveTypeInv ==
  ASSUME TypeInv, ReceiveMessage
  PROVE  TypeInv'
  <1> DEFINE h == received + 1
  <1>0. /\ TypeOK
        /\ received + Len(wire) <= MaxMsgs
        /\ wire # <<>> /\ wire \in Seq(Message) /\ received \in 0..MaxMsgs
        /\ Len(wire) \in Nat /\ Len(wire) > 0
        /\ Head(wire) \in Message /\ Tail(wire) \in Seq(Message)
        /\ Len(Tail(wire)) = Len(wire) - 1
    BY DEF TypeInv, TypeOK, HandlersCounted, ReceiveMessage
  <1>1. /\ h \in Handlers /\ h \in Tasks /\ h \in 0..MaxMsgs
        /\ h \notin Orders \cup Cancelers
        /\ received' = h
    <2>1. h \in 1..MaxMsgs /\ h \in 0..MaxMsgs
      BY <1>0, ConstantsAssumption
    <2>2. received' = h
      BY DEF ReceiveMessage
    <2> HIDE DEF h
    <2> QED
      BY <2>1, <2>2, TasksAssumption DEF Handlers, Tasks
  <1>2. /\ wire' = Tail(wire)
        /\ msg' = [msg EXCEPT ![h] = [status |-> Head(wire).status, time |-> Head(wire).time]]
        /\ target' = [target EXCEPT ![h] = Head(wire).order]
        /\ pc' = [pc EXCEPT ![h] = "locking"]
        /\ mutex' = Append(mutex, h)
        /\ attempts' = attempts /\ rpc' = rpc
    BY DEF ReceiveMessage
  <1>3. /\ Head(wire).order \in Orders
        /\ [status |-> Head(wire).status, time |-> Head(wire).time] \in XState
    BY <1>0 DEF Message, XState
  <1>4. pc[h] = "idle" /\ attempts[h] < MaxAttempts
    <2>1. h > received
      BY <1>0, ConstantsAssumption
    <2> HIDE DEF h
    <2>2. pc[h] = "idle"
      BY <1>1, <2>1 DEF TypeInv, HandlersCounted
    <2> QED
      BY <1>1, <2>2 DEF TypeInv, HandlersCounted
  <1>5. /\ mutex' \in Seq(Handlers)
        /\ mutex # <<>> => mutex' # <<>> /\ Head(mutex') = Head(mutex)
    BY <1>0, <1>1, <1>2 DEF TypeOK
  <1> HIDE DEF h
  <1>6. TypeOK'
    <2>1. msg' \in [Handlers -> XState] /\ target' \in [Tasks -> Orders \cup {None}]
      BY <1>0, <1>1, <1>2, <1>3 DEF TypeOK
    <2>2. pc' \in [Tasks -> PCs]
      BY <1>0, <1>2 DEF TypeOK, PCs
    <2> QED
      BY <1>0, <1>1, <1>2, <1>5, <2>1, <2>2 DEF ReceiveMessage, TypeOK, dbVars
  <1>7. TargetKnown'
    BY <1>0, <1>1, <1>2, <1>3 DEF TypeInv, TypeOK, TargetKnown, Tasks
  <1>8. MutexHeld'
    BY <1>0, <1>1, <1>2, <1>5 DEF TypeInv, TypeOK, MutexHeld, Critical, Tasks
  <1>9. HandlersCounted'
    <2>1. received' + Len(wire') <= MaxMsgs
      BY <1>0, <1>1, <1>2 DEF h
    <2>2. \A g \in Handlers : g > received' => pc'[g] = "idle"
      BY <1>0, <1>1, <1>2 DEF TypeInv, TypeOK, HandlersCounted, Handlers, Tasks, h
    <2>3. \A g \in Handlers : pc'[g] # "done" => attempts'[g] < MaxAttempts
      BY <1>0, <1>1, <1>2, <1>4 DEF TypeInv, TypeOK, HandlersCounted, Tasks
    <2> QED
      BY <2>1, <2>2, <2>3 DEF HandlersCounted
  <1> QED
    BY <1>6, <1>7, <1>8, <1>9 DEF TypeInv

\* A step of the exchange or the network: no task moves.
LEMMA EnvironmentSupport ==
  ASSUME TypeInv, UNCHANGED <<taskVars, dbVars, published>>,
         received' = received, received + Len(wire') <= MaxMsgs,
         \A c \in Orders \cup Cancelers : rpc'[c] # "none" => rpc[c] # "none"
  PROVE  TargetKnown' /\ MutexHeld' /\ HandlersCounted'
  <1>1. TargetKnown'
    BY DEF TypeInv, TargetKnown, taskVars
  <1>2. MutexHeld'
    BY DEF TypeInv, MutexHeld, taskVars
  <1>3. HandlersCounted'
    BY DEF TypeInv, HandlersCounted, taskVars
  <1> QED
    BY <1>1, <1>2, <1>3

\* A report of the exchange: its state changes and a message is sent.
LEMMA NotifyTypeInv ==
  ASSUME TypeInv, NEW o \in Orders, NEW s \in ExchangeStatus,
         SetExchange(o, s), Notify(o, s),
         UNCHANGED <<dbVars, taskVars, published, rpc, received, now, budget>>
  PROVE  TypeInv'
  <1>1. now \in Int
    BY ConstantsAssumption DEF TypeInv, TypeOK
  <1>2. xs' \in [Orders -> XState]
    BY <1>1 DEF TypeInv, TypeOK, SetExchange, XState
  <1>3. [order |-> o, status |-> s, time |-> now] \in Message
    BY <1>1 DEF Message
  <1>4. wire' \in Seq(Message) /\ Len(wire') = Len(wire) + 1 /\ Len(wire) \in Nat
    BY <1>3 DEF TypeInv, TypeOK, Notify
  <1>5. TypeOK'
    BY <1>2, <1>4 DEF TypeInv, TypeOK, dbVars, taskVars
  <1>6. received + Len(wire') <= MaxMsgs
    BY <1>4, ConstantsAssumption DEF TypeInv, TypeOK, Notify
  <1> QED
    BY <1>5, <1>6, EnvironmentSupport DEF TypeInv

LEMMA ExchangeTypeInv ==
  ASSUME TypeInv, ExchangeStep
  PROVE  TypeInv'
  <1>0. /\ TypeOK
        /\ received + Len(wire) <= MaxMsgs
        /\ \A c \in Orders \cup Cancelers : rpc[c] # "none" => target[c] \in Orders
        /\ now \in Int
        /\ {"Open", "Canceled", "Filled", "Expired"} \subseteq ExchangeStatus
    BY ConstantsAssumption DEF TypeInv, TypeOK, TargetKnown, HandlersCounted, ExchangeStatus
  <1>1. ASSUME NEW o \in Orders, ExchangeAccept(o)
        PROVE  TypeInv'
    BY <1>0, <1>1, NotifyTypeInv DEF ExchangeAccept
  <1>2. ASSUME NEW o \in Orders, ExchangeReject(o)
        PROVE  TypeInv'
    <2>1. xs' \in [Orders -> XState]
      BY <1>0, <1>2 DEF ExchangeReject, SetExchange, TypeOK, XState, ExchangeStatus
    <2>2. TypeOK'
      BY <1>0, <1>2, <2>1 DEF ExchangeReject, TypeOK, dbVars, taskVars
    <2> QED
      BY <1>0, <1>2, <2>2, EnvironmentSupport DEF ExchangeReject, TypeInv
  <1>3. ASSUME NEW o \in Orders, ExchangeProgress(o)
        PROVE  TypeInv'
    <2>1. PICK s \in {"Open", "Filled", "Expired"} : SetExchange(o, s) /\ Notify(o, s)
      BY <1>3 DEF ExchangeProgress
    <2> QED
      BY <1>0, <1>3, <2>1, NotifyTypeInv DEF ExchangeProgress
  <1>4. ASSUME NEW c \in Cancelers, ExchangeCancel(c)
        PROVE  TypeInv'
    <2>1. target[c] \in Orders
      BY <1>0, <1>4 DEF ExchangeCancel
    <2> QED
      BY <1>0, <1>4, <2>1, NotifyTypeInv DEF ExchangeCancel
  <1>5. ASSUME NEW t \in Orders \cup Cancelers, ExchangeReply(t)
        PROVE  TypeInv'
    <2>1. target[t] \in Orders /\ (t \in Orders => target[t] = t)
      BY <1>0, <1>5 DEF ExchangeReply, TypeInv, TargetKnown
    <2>2. xs[target[t]].status \in ExchangeStatus
      <3>1. xs[target[t]] \in XState /\ xs[target[t]].status # "None"
        BY <1>0, <1>5, <2>1 DEF ExchangeReply, TypeOK, Terminal, Status, Viable
      <3> QED
        BY <3>1 DEF XState
    <2>3. TypeOK'
      BY <1>0, <1>5, <2>2 DEF ExchangeReply, TypeOK, dbVars, taskVars
    <2>4. \A c \in Orders \cup Cancelers : rpc'[c] # "none" => rpc[c] # "none"
      BY <1>0, <1>5 DEF ExchangeReply, TypeOK
    <2> QED
      BY <1>0, <1>5, <2>3, <2>4, EnvironmentSupport DEF ExchangeReply, TypeInv
  <1>6. ASSUME NEW t \in Orders \cup Cancelers, RpcError(t)
        PROVE  TypeInv'
    <2>1. TypeOK'
      BY <1>0, <1>6 DEF RpcError, TypeOK, dbVars, taskVars
    <2>2. \A c \in Orders \cup Cancelers : rpc'[c] # "none" => rpc[c] # "none"
      BY <1>0, <1>6 DEF RpcError, TypeOK
    <2> QED
      BY <1>0, <1>6, <2>1, <2>2, EnvironmentSupport DEF RpcError, TypeInv
  <1> QED
    BY <1>1, <1>2, <1>3, <1>4, <1>5, <1>6 DEF ExchangeStep

\* One outage less is left.
LEMMA OutageBudget ==
  ASSUME TypeOK, budget.outages > 0, budget' = [budget EXCEPT !.outages = @ - 1]
  PROVE  budget' \in [faults : 0..MaxFaults, outages : 0..MaxOutages]
  <1>1. budget \in [faults : 0..MaxFaults, outages : 0..MaxOutages]
    BY DEF TypeOK
  <1>2. budget.outages - 1 \in 0..MaxOutages
    BY <1>1, ConstantsAssumption
  <1> QED
    BY <1>1, <1>2

LEMMA OutageTypeInv ==
  ASSUME TypeInv, Crash \/ Disconnect
  PROVE  TypeInv'
  <1>0. /\ TypeOK
        /\ budget.outages > 0 /\ budget' = [budget EXCEPT !.outages = @ - 1]
        /\ wire' = <<>> /\ received' = received /\ received + Len(wire') <= MaxMsgs
    <2>1. TypeOK /\ received \in 0..MaxMsgs
      BY DEF TypeInv, TypeOK
    <2>2. /\ budget.outages > 0 /\ budget' = [budget EXCEPT !.outages = @ - 1]
          /\ wire' = <<>> /\ received' = received
      BY DEF Crash, Disconnect
    <2> QED
      BY <2>1, <2>2, ConstantsAssumption
  <1>1. budget' \in [faults : 0..MaxFaults, outages : 0..MaxOutages]
    BY <1>0, OutageBudget
  <1>2. CASE Disconnect
    <2>1. TypeOK'
      BY <1>0, <1>1, <1>2 DEF Disconnect, TypeOK, dbVars, taskVars
    <2> QED
      BY <1>0, <1>2, <2>1, EnvironmentSupport DEF Disconnect, TypeInv
  <1>3. CASE Crash
    <2>1. /\ pc' \in [Tasks -> PCs]
          /\ \A t \in Tasks : pc'[t] \in {"idle", "start", "done"}
          /\ \A t \in Tasks : (pc'[t] = "idle" <=> pc[t] = "idle") /\ (pc[t] = "done" => pc'[t] = "done")
      BY <1>0, <1>3 DEF Crash, TypeOK, PCs
    <2>2. TypeOK'
      BY <1>0, <1>1, <1>3, <2>1 DEF Crash, TypeOK
    <2>3. TargetKnown'
      BY <1>3, <2>1 DEF Crash, TypeInv, TargetKnown
    <2>4. MutexHeld'
      BY <2>1 DEF MutexHeld, Critical, Tasks
    <2>5. HandlersCounted'
      BY <1>0, <1>3, <2>1 DEF Crash, TypeInv, HandlersCounted, Tasks
    <2> QED
      BY <2>2, <2>3, <2>4, <2>5 DEF TypeInv
  <1> QED
    BY <1>2, <1>3

LEMMA NextTypeInv == TypeInv /\ [Next]_vars => TypeInv'
  <1> SUFFICES ASSUME TypeInv, [Next]_vars PROVE TypeInv'
    OBVIOUS
  <1>1. CASE UNCHANGED vars \/ Finished
    BY <1>1 DEF Finished, vars, dbVars, taskVars, xVars, TypeInv, TypeOK, TargetKnown,
                MutexHeld, HandlersCounted
  <1>2. CASE Tick
    <2>1. now' \in 0..MaxTime
      BY <1>2, ConstantsAssumption DEF Tick, TypeInv, TypeOK
    <2>2. TypeOK'
      BY <1>2, <2>1 DEF Tick, TypeInv, TypeOK, dbVars, taskVars
    <2>3. received + Len(wire') <= MaxMsgs
      BY <1>2 DEF Tick, TypeInv, HandlersCounted
    <2> QED
      BY <1>2, <2>2, <2>3, EnvironmentSupport DEF Tick, TypeInv
  <1> QED
    BY <1>1, <1>2, SubmitTypeInv, CancelTypeInv, HandlerTypeInv, FaultTypeInv,
       LostAnswerTypeInv, ReceiveTypeInv, ExchangeTypeInv, OutageTypeInv DEF Next

(* Every reachable state is well typed, a running task knows its order, and   *)
(* only the head of the mutex queue is inside update_order_state.              *)
THEOREM TypeCorrect == Spec => []TypeInv
  BY InitTypeInv, NextTypeInv, PTL DEF Spec

\* The type invariant of the runs, for every value of the constants.
THEOREM TypesHold == Spec => []TypeOK
  <1>1. TypeInv => TypeOK
    BY DEF TypeInv
  <1> QED
    BY <1>1, TypeCorrect, PTL

--------------------------------------------------------------------------------
(* The tables *)

\* Where a task works on an order that is in the database.
SavedPlaces ==
  {"publishNew", "submit", "submitReply", "rejectUpdate", "rejectCommit", "publishReject",
   "markUpdate", "markCommit", "publishMark", "cancel", "cancelReply", "replyUpdate",
   "replyCommit", "publishReply", "asyncUpdate", "asyncCommit", "publishAsync"}

\* Where a task is about to write what the exchange said.
ExchangeWrites ==
  {"rejectUpdate", "rejectCommit", "replyUpdate", "replyCommit", "asyncUpdate", "asyncCommit"}

\* An order has no row, or a row with a version; its own task has saved it, or
\* not begun.
RowsAreSaved ==
  /\ \A o \in Orders :
       /\ row[o].version >= -1
       /\ row[o].version = -1 => row[o].status = "None"
       /\ pc[o] = "start" => row[o].version = -1
  /\ \A t \in Tasks : pc[t] \in SavedPlaces => row[target[t]].version >= 0

\* What cancel_order read stays true as long as the version it read is current,
\* and from its update to its commit; only cancel_order writes PendingCancel.
CancelIsFresh ==
  \A t \in Tasks :
    /\ pc[t] = "markUpdate" =>
         /\ mem[t].version <= row[target[t]].version
         /\ mem[t].version = row[target[t]].version => row[target[t]].status \in Viable
    /\ pc[t] = "markCommit" => row[target[t]].status \in Viable
    /\ pc[t] \in ExchangeWrites => mem[t].status # "PendingCancel"

DbInv == HistoryIsComplete /\ LockedIsNextVersion /\ RowsAreSaved /\ CancelIsFresh

LEMMA InitDbInv == Init => DbInv
  <1> SUFFICES ASSUME Init PROVE DbInv
    OBVIOUS
  <1>1. /\ \A o \in Orders : row[o] = NoState /\ history[o] = <<>>
        /\ \A t \in Tasks : pc[t] \in {"idle", "start"}
    BY DEF Init
  <1>2. HistoryIsComplete
    BY <1>1 DEF HistoryIsComplete, NoState
  <1>3. LockedIsNextVersion
    BY <1>1 DEF LockedIsNextVersion, Committing
  <1>4. RowsAreSaved
    BY <1>1 DEF RowsAreSaved, NoState, SavedPlaces
  <1>5. CancelIsFresh
    BY <1>1 DEF CancelIsFresh, ExchangeWrites
  <1> QED
    BY <1>2, <1>3, <1>4, <1>5 DEF DbInv

--------------------------------------------------------------------------------
(* Steps that write no row *)

\* One task moves to a place at which it holds no row lock.
LEMMA QuietTask ==
  ASSUME TypeInv, DbInv, NEW t \in Tasks, NEW a \in PCs,
         a \notin Committing, a # "start",
         pc' = [pc EXCEPT ![t] = a],
         row' = row, history' = history,
         \A u \in Tasks : pc[u] \in Committing /\ u # t
                            => rowLock'[target[u]] = rowLock[target[u]],
         \A u \in Tasks \ {t} : mem'[u] = mem[u] /\ target'[u] = target[u],
         a \in SavedPlaces => row[target'[t]].version >= 0,
         a = "markUpdate" => /\ target'[t] \in Orders
                             /\ mem'[t].version = row[target'[t]].version
                             /\ row[target'[t]].status \in Viable,
         a \in ExchangeWrites => mem'[t].status # "PendingCancel"
  PROVE  DbInv'
  <1>0. /\ pc \in [Tasks -> PCs]
        /\ row \in [Orders -> State]
        /\ \A u \in Tasks : u # t => pc'[u] = pc[u]
        /\ pc'[t] = a
        /\ Orders \subseteq Tasks
    BY DEF TypeInv, TypeOK, Tasks
  <1>1. HistoryIsComplete'
    BY DEF DbInv, HistoryIsComplete
  <1>2. LockedIsNextVersion'
    BY <1>0 DEF DbInv, LockedIsNextVersion
  <1>3. RowsAreSaved'
    BY <1>0 DEF DbInv, RowsAreSaved
  <1>4. CancelIsFresh'
    <2> SUFFICES ASSUME NEW u \in Tasks
                 PROVE  /\ pc'[u] = "markUpdate" =>
                             /\ mem'[u].version <= row'[target'[u]].version
                             /\ mem'[u].version = row'[target'[u]].version
                                  => row'[target'[u]].status \in Viable
                        /\ pc'[u] = "markCommit" => row'[target'[u]].status \in Viable
                        /\ pc'[u] \in ExchangeWrites => mem'[u].status # "PendingCancel"
      BY DEF CancelIsFresh
    <2>1. CASE u # t
      BY <1>0, <2>1 DEF DbInv, CancelIsFresh
    <2>2. CASE u = t
      <3>1. a # "markCommit"
        BY DEF Committing
      <3>2. a = "markUpdate" => row[target'[t]].version \in Int
        BY <1>0 DEF State
      <3> QED
        BY <1>0, <2>2, <3>1, <3>2
    <2> QED
      BY <2>1, <2>2
  <1> QED
    BY <1>1, <1>2, <1>3, <1>4 DEF DbInv

\* No task moves.
LEMMA QuietEnvironment ==
  ASSUME DbInv, UNCHANGED <<dbVars, pc, mem, target>>
  PROVE  DbInv'
  BY DEF DbInv, HistoryIsComplete, LockedIsNextVersion, RowsAreSaved, CancelIsFresh, dbVars

--------------------------------------------------------------------------------
(* The writes *)

\* An UPDATE that finds its version current locks the row; one that does not
\* leaves the task without it.
LEMMA UpdateDbInv ==
  ASSUME TypeInv, DbInv, NEW t \in Tasks, NEW at \in PCs, NEW a \in Committing, NEW b \in PCs,
         pc[t] = at, target[t] \in Orders, target' = target,
         UpdateOrder(t, a, b),
         b \in {"done", "failed", "publishReply"},
         at \in SavedPlaces, at \notin Committing,
         a = "markCommit" => at = "markUpdate",
         a \in ExchangeWrites => at \in ExchangeWrites
  PROVE  DbInv'
  <1>0. /\ pc \in [Tasks -> PCs] /\ mem \in [Tasks -> State]
        /\ row \in [Orders -> State] /\ rowLock \in [Orders -> Tasks \cup {None}]
        /\ row' = row /\ history' = history
        /\ mem[t] \in State
        /\ row[target[t]].version >= 0
        /\ \A u \in Tasks : pc[u] \in Committing => target[u] \in Orders
    BY DEF TypeInv, TypeOK, DbInv, RowsAreSaved, LockedIsNextVersion, UpdateOrder
  <1>1. CASE /\ VersionMatches(t)
             /\ rowLock' = [rowLock EXCEPT ![target[t]] = t]
             /\ mem' = [mem EXCEPT ![t] = NextVersion(@)]
             /\ pc' = [pc EXCEPT ![t] = a]
    <2>1. /\ mem'[t].version = row[target[t]].version + 1
          /\ mem'[t].status = mem[t].status
          /\ row[target[t]].version = mem[t].version
      BY <1>0, <1>1, NextVersionFacts DEF VersionMatches
    <2>2. /\ \A u \in Tasks : u # t => pc'[u] = pc[u] /\ mem'[u] = mem[u]
          /\ pc'[t] = a /\ rowLock'[target[t]] = t
          /\ rowLock[target[t]] = None
          /\ \A o \in Orders : o # target[t] => rowLock'[o] = rowLock[o]
      BY <1>0, <1>1 DEF UpdateOrder
    <2>3. HistoryIsComplete'
      BY <1>0 DEF DbInv, HistoryIsComplete
    <2>4. LockedIsNextVersion'
      <3> SUFFICES ASSUME NEW u \in Tasks, pc'[u] \in Committing
                   PROVE  /\ target[u] \in Orders
                          /\ rowLock'[target[u]] = u
                          /\ mem'[u].version = row[target[u]].version + 1
        BY <1>0 DEF LockedIsNextVersion
      <3>1. CASE u = t
        BY <2>1, <2>2, <3>1
      <3>2. CASE u # t
        <4>1. /\ target[u] \in Orders /\ rowLock[target[u]] = u
              /\ mem[u].version = row[target[u]].version + 1
          BY <2>2, <3>2 DEF DbInv, LockedIsNextVersion
        <4>2. target[u] # target[t]
          BY <2>2, <4>1, TasksAssumption
        <4> QED
          BY <2>2, <3>2, <4>1, <4>2
      <3> QED
        BY <3>1, <3>2
    <2>5. RowsAreSaved'
      <3>1. \A o \in Orders : pc'[o] = "start" => pc[o] = "start"
        BY <2>2 DEF Committing, Tasks
      <3> QED
        BY <1>0, <2>2, <3>1 DEF DbInv, RowsAreSaved
    <2>6. CancelIsFresh'
      <3>1. a # "markUpdate"
        BY DEF Committing
      <3>2. a = "markCommit" => row[target[t]].status \in Viable
        BY <2>1 DEF DbInv, CancelIsFresh
      <3>3. a \in ExchangeWrites => mem'[t].status # "PendingCancel"
        BY <2>1 DEF DbInv, CancelIsFresh
      <3> QED
        BY <1>0, <2>2, <3>1, <3>2, <3>3 DEF DbInv, CancelIsFresh
    <2> QED
      BY <2>3, <2>4, <2>5, <2>6 DEF DbInv
  <1>2. CASE /\ mem' = [mem EXCEPT ![t].reason = StoredReason(mem[t])]
             /\ pc' = [pc EXCEPT ![t] = b]
             /\ UNCHANGED rowLock
    <2>1. b \notin Committing /\ b # "start" /\ b # "markUpdate" /\ b \notin ExchangeWrites
      BY DEF Committing, ExchangeWrites
    <2>2. \A u \in Tasks \ {t} : mem'[u] = mem[u] /\ target'[u] = target[u]
      BY <1>0, <1>2
    <2> QED
      BY <1>0, <1>2, <2>1, <2>2, QuietTask
  <1> QED
    BY <1>1, <1>2 DEF UpdateOrder

\* A COMMIT appends the next version, which nobody else could have written.
LEMMA CommitDbInv ==
  ASSUME TypeInv, DbInv, NEW t \in Tasks, NEW a \in PCs,
         pc[t] \in Committing, target' = target,
         CommitOrder(t, a),
         a \notin Committing, a \notin ExchangeWrites, a # "start", a # "markUpdate"
  PROVE  DbInv'
  <1> DEFINE o == target[t]
  <1>0. /\ o \in Orders /\ rowLock[o] = t
        /\ mem[t].version = row[o].version + 1
        /\ row[o].version >= 0 /\ row[o].version \in Int
        /\ mem[t] \in State
        /\ pc[t] \in SavedPlaces
    BY DEF TypeInv, TypeOK, DbInv, LockedIsNextVersion, RowsAreSaved, Committing, SavedPlaces, State
  <1>1. /\ row' = [row EXCEPT ![o] = mem[t]]
        /\ history' = [history EXCEPT ![o] = Append(history[o], mem[t])]
        /\ rowLock' = [rowLock EXCEPT ![o] = None]
        /\ pc' = [pc EXCEPT ![t] = a] /\ mem' = mem
    BY DEF CommitOrder, HistoryWith
  <1>2. /\ row \in [Orders -> State] /\ history \in [Orders -> Seq(State)]
        /\ pc \in [Tasks -> PCs] /\ rowLock \in [Orders -> Tasks \cup {None}]
    BY DEF TypeInv, TypeOK
  <1> HIDE DEF o
  <1>3. \A u \in Tasks : pc[u] \in Committing /\ u # t => target[u] # o /\ target[u] \in Orders
    BY <1>0 DEF DbInv, LockedIsNextVersion
  <1>4. HistoryIsComplete'
    <2>1. /\ Len(history[o]) = row[o].version + 1
          /\ \A i \in 1..Len(history[o]) : history[o][i].version = i - 1
          /\ history[o] \in Seq(State)
      BY <1>0, <1>2 DEF DbInv, HistoryIsComplete
    <2>2. /\ history'[o] = Append(history[o], mem[t])
          /\ row'[o] = mem[t]
      BY <1>0, <1>1, <1>2
    <2>3. /\ Len(history[o]) \in Nat
          /\ Len(history'[o]) = Len(history[o]) + 1
          /\ history'[o][Len(history[o]) + 1] = mem[t]
          /\ \A i \in 1..Len(history[o]) : history'[o][i] = history[o][i]
      BY <1>0, <2>1, <2>2
    <2>4. mem[t].version = Len(history[o])
      BY <1>0, <2>1
    <2>5. /\ Len(history'[o]) = row'[o].version + 1
          /\ \A i \in 1..Len(history'[o]) : history'[o][i].version = i - 1
          /\ history'[o][Len(history'[o])] = row'[o]
      <3> DEFINE n == Len(history[o])
      <3>1. /\ n \in Nat /\ Len(history'[o]) = n + 1
            /\ \A i \in 1..n : history'[o][i].version = i - 1
            /\ history'[o][n + 1].version = n
        BY <2>1, <2>3, <2>4
      <3>2. Len(history'[o]) = row'[o].version + 1 /\ history'[o][n + 1] = row'[o]
        BY <2>2, <2>3, <2>4
      <3> HIDE DEF n
      <3>3. \A i \in 1..(n + 1) : i \in 1..n \/ i = n + 1
        BY <3>1
      <3> QED
        BY <3>1, <3>2, <3>3
    <2>6. \A p \in Orders : p # o => row'[p] = row[p] /\ history'[p] = history[p]
      BY <1>1, <1>2
    <2> QED
      BY <2>5, <2>6 DEF DbInv, HistoryIsComplete
  <1>5. LockedIsNextVersion'
    BY <1>0, <1>1, <1>2, <1>3 DEF DbInv, LockedIsNextVersion
  <1>6. RowsAreSaved'
    <2>1. \A p \in Orders : row'[p].version >= row[p].version /\ (p # o => row'[p] = row[p])
      BY <1>0, <1>1, <1>2 DEF State
    <2>2. row'[o].version >= 0
      BY <1>0, <1>1, <1>2
    <2>3. \A u \in Tasks : u # t => pc'[u] = pc[u]
      BY <1>1, <1>2
    <2>4. pc'[t] = a /\ target[t] = o
      BY <1>1, <1>2 DEF o
    <2>5. Orders \subseteq Tasks
      BY DEF Tasks
    <2>6. pc[o] # "start"
      BY <1>0 DEF DbInv, RowsAreSaved
    <2>7. \A u \in Tasks : pc'[u] \in SavedPlaces => row'[target'[u]].version >= 0
      <3> SUFFICES ASSUME NEW u \in Tasks, pc'[u] \in SavedPlaces
                   PROVE  row'[target[u]].version >= 0
        OBVIOUS
      <3>1. CASE target[u] = o
        BY <2>2, <3>1
      <3>2. CASE target[u] # o
        <4>1. u # t /\ row[target[u]].version >= 0
          BY <2>3, <2>4, <3>2 DEF DbInv, RowsAreSaved
        <4> QED
          BY <1>1, <1>2, <3>2, <4>1
      <3> QED
        BY <3>1, <3>2
    <2>8. \A p \in Orders :
            /\ row'[p].version >= -1
            /\ row'[p].version = -1 => row'[p].status = "None"
            /\ pc'[p] = "start" => row'[p].version = -1
      <3> SUFFICES ASSUME NEW p \in Orders
                   PROVE  /\ row'[p].version >= -1
                          /\ row'[p].version = -1 => row'[p].status = "None"
                          /\ pc'[p] = "start" => row'[p].version = -1
        OBVIOUS
      <3>1. CASE p = o
        <4>1. pc'[p] # "start"
          BY <2>3, <2>4, <2>5, <2>6, <3>1
        <4> QED
          BY <1>0, <1>1, <1>2, <4>1, <3>1
      <3>2. CASE p # o
        <4>1. row'[p] = row[p] /\ (pc'[p] = "start" => pc[p] = "start")
          BY <2>1, <2>3, <2>4, <2>5, <3>2
        <4> QED
          BY <4>1 DEF DbInv, RowsAreSaved
      <3> QED
        BY <3>1, <3>2
    <2> QED
      BY <2>7, <2>8 DEF RowsAreSaved
  <1>7. CancelIsFresh'
    <2> SUFFICES ASSUME NEW u \in Tasks
                 PROVE  /\ pc'[u] = "markUpdate" =>
                             /\ mem[u].version <= row'[target[u]].version
                             /\ mem[u].version = row'[target[u]].version
                                  => row'[target[u]].status \in Viable
                        /\ pc'[u] = "markCommit" => row'[target[u]].status \in Viable
                        /\ pc'[u] \in ExchangeWrites => mem[u].status # "PendingCancel"
      BY <1>1 DEF CancelIsFresh
    <2>1. CASE u = t
      BY <1>1, <1>2, <2>1 DEF Committing
    <2>2. CASE u # t /\ target[u] # o
      BY <1>1, <1>2, <2>2 DEF DbInv, CancelIsFresh
    <2>3. CASE u # t /\ target[u] = o
      <3>1. pc'[u] = pc[u] /\ pc[u] \notin Committing
        BY <1>1, <1>2, <1>3, <2>3
      <3>2. pc[u] = "markUpdate" => mem[u].version <= row[o].version /\ mem[u].version \in Int
        BY <2>3 DEF DbInv, CancelIsFresh, TypeInv, TypeOK, State
      <3>3. row'[o].version = row[o].version + 1
        BY <1>0, <1>1, <1>2
      <3>4. pc[u] \in ExchangeWrites => mem[u].status # "PendingCancel"
        BY DEF DbInv, CancelIsFresh
      <3> QED
        BY <1>0, <2>3, <3>1, <3>2, <3>3, <3>4 DEF Committing
    <2> QED
      BY <2>1, <2>2, <2>3
  <1> QED
    BY <1>4, <1>5, <1>6, <1>7 DEF DbInv

\* The first write: nobody else works on an order that is not in the database.
LEMMA SubmitSaveDbInv ==
  ASSUME TypeInv, DbInv, NEW o \in Orders, SubmitSave(o)
  PROVE  DbInv'
  <1>1. PICK s \in {<<"Pending", "none">>, <<"Rejected", "inactive">>, <<"Rejected", "expired">>} :
          /\ mem' = [mem EXCEPT ![o] = Record(s[1], BrokerTime, 0, s[2])]
          /\ SaveOrder(o, Record(s[1], BrokerTime, 0, s[2]))
    BY DEF SubmitSave
  <1> DEFINE saved == Record(s[1], BrokerTime, 0, s[2])
  <1>2. saved.version = 0
    BY DEF Record
  <1>3. /\ row' = [row EXCEPT ![o] = saved]
        /\ history' = [history EXCEPT ![o] = Append(history[o], saved)]
        /\ rowLock' = rowLock /\ target' = target
        /\ mem' = [mem EXCEPT ![o] = saved]
        /\ pc' = [pc EXCEPT ![o] = "publishNew"]
        /\ pc[o] = "start"
    BY <1>1 DEF SubmitSave, SaveOrder, HistoryWith, UnchangedByTask
  <1> HIDE DEF saved
  <1>4. /\ row \in [Orders -> State] /\ history \in [Orders -> Seq(State)]
        /\ pc \in [Tasks -> PCs] /\ mem \in [Tasks -> State]
        /\ Orders \subseteq Tasks /\ target[o] = o
    BY DEF TypeInv, TypeOK, TargetKnown, Tasks
  <1>5. row[o].version = -1
    BY <1>3 DEF DbInv, RowsAreSaved
  <1>6. history[o] = <<>>
    <2>1. Len(history[o]) = 0 /\ history[o] \in Seq(State)
      BY <1>4, <1>5 DEF DbInv, HistoryIsComplete
    <2> QED
      BY <2>1
  <1>7. \A u \in Tasks : pc[u] \in SavedPlaces => target[u] # o
    BY <1>5 DEF DbInv, RowsAreSaved
  <1>8. /\ \A p \in Orders : p # o => row'[p] = row[p] /\ history'[p] = history[p]
        /\ row'[o] = saved /\ history'[o] = <<saved>>
        /\ \A u \in Tasks : u # o => pc'[u] = pc[u] /\ mem'[u] = mem[u]
        /\ pc'[o] = "publishNew"
    BY <1>3, <1>4, <1>6
  <1>9. HistoryIsComplete'
    <2>1. /\ Len(history'[o]) = row'[o].version + 1
          /\ \A i \in 1..Len(history'[o]) : history'[o][i].version = i - 1
          /\ history'[o][Len(history'[o])] = row'[o]
      BY <1>2, <1>8
    <2>2. \A p \in Orders : p # o => row'[p] = row[p] /\ history'[p] = history[p]
      BY <1>8
    <2>3. ASSUME NEW p \in Orders
          PROVE  /\ Len(history'[p]) = row'[p].version + 1
                 /\ \A i \in 1..Len(history'[p]) : history'[p][i].version = i - 1
                 /\ history'[p] # <<>> => history'[p][Len(history'[p])] = row'[p]
      <3>1. CASE p = o
        BY <2>1, <3>1
      <3>2. CASE p # o
        BY <2>2, <3>2 DEF DbInv, HistoryIsComplete
      <3> QED
        BY <3>1, <3>2
    <2> QED
      BY <2>3 DEF HistoryIsComplete
  <1>10. Committing \subseteq SavedPlaces /\ ExchangeWrites \subseteq SavedPlaces
    BY DEF Committing, ExchangeWrites, SavedPlaces
  <1>11. \A u \in Tasks : pc'[u] \in SavedPlaces /\ u # o
                            => /\ pc[u] \in SavedPlaces /\ target[u] # o
                               /\ mem'[u] = mem[u] /\ pc'[u] = pc[u]
    BY <1>7, <1>8
  <1>12. LockedIsNextVersion'
    <2> SUFFICES ASSUME NEW u \in Tasks, pc'[u] \in Committing
                 PROVE  /\ target[u] \in Orders
                        /\ rowLock[target[u]] = u
                        /\ mem'[u].version = row'[target[u]].version + 1
      BY <1>3 DEF LockedIsNextVersion
    <2>1. u # o /\ pc'[u] \in SavedPlaces
      BY <1>8, <1>10 DEF Committing
    <2>2. pc[u] \in Committing /\ target[u] # o /\ mem'[u] = mem[u]
      BY <1>11, <2>1
    <2> QED
      BY <1>8, <2>2 DEF DbInv, LockedIsNextVersion
  <1>13. RowsAreSaved'
    <2>1. \A p \in Orders :
            /\ row'[p].version >= -1
            /\ row'[p].version = -1 => row'[p].status = "None"
            /\ pc'[p] = "start" => row'[p].version = -1
      BY <1>2, <1>4, <1>8 DEF DbInv, RowsAreSaved
    <2>2. ASSUME NEW u \in Tasks, pc'[u] \in SavedPlaces
          PROVE  row'[target[u]].version >= 0
      <3>1. CASE u = o
        BY <1>2, <1>4, <1>8, <3>1
      <3>2. CASE u # o
        <4>1. pc[u] \in SavedPlaces /\ target[u] # o /\ target[u] \in Orders
          BY <1>11, <2>2, <3>2 DEF SavedPlaces, TypeInv, TargetKnown
        <4> QED
          BY <1>8, <4>1 DEF DbInv, RowsAreSaved
      <3> QED
        BY <3>1, <3>2
    <2> QED
      BY <1>3, <2>1, <2>2 DEF RowsAreSaved
  <1>14. CancelIsFresh'
    <2> SUFFICES ASSUME NEW u \in Tasks
                 PROVE  /\ pc'[u] = "markUpdate" =>
                             /\ mem'[u].version <= row'[target[u]].version
                             /\ mem'[u].version = row'[target[u]].version
                                  => row'[target[u]].status \in Viable
                        /\ pc'[u] = "markCommit" => row'[target[u]].status \in Viable
                        /\ pc'[u] \in ExchangeWrites => mem'[u].status # "PendingCancel"
      BY <1>3 DEF CancelIsFresh
    <2>1. CASE pc'[u] \notin SavedPlaces \/ u = o
      <3>1. pc'[u] \notin {"markUpdate", "markCommit"} \cup ExchangeWrites
        BY <1>8, <2>1 DEF SavedPlaces, ExchangeWrites
      <3> QED
        BY <3>1
    <2>2. CASE pc'[u] \in SavedPlaces /\ u # o
      <3>1. /\ pc[u] = pc'[u] /\ target[u] # o /\ target[u] \in Orders /\ mem'[u] = mem[u]
        BY <1>11, <2>2 DEF SavedPlaces, TypeInv, TargetKnown
      <3> QED
        BY <1>8, <3>1 DEF DbInv, CancelIsFresh
    <2> QED
      BY <2>1, <2>2
  <1> QED
    BY <1>9, <1>12, <1>13, <1>14 DEF DbInv

--------------------------------------------------------------------------------
(* The handlers *)

LEMMA SubmitDbInv ==
  ASSUME TypeInv, DbInv, NEW o \in Orders, SubmitStep(o)
  PROVE  DbInv'
  <1>0. /\ o \in Tasks /\ target[o] = o
        /\ pc[o] \in SavedPlaces => row[o].version >= 0
        /\ mem \in [Tasks -> State] /\ pc \in [Tasks -> PCs]
    BY DEF TypeInv, TypeOK, TargetKnown, Tasks, DbInv, RowsAreSaved
  <1>1. CASE SubmitPublishNew(o)
    <2>1. PICK a \in {"submit", "done"} : pc' = [pc EXCEPT ![o] = a]
      BY <1>1 DEF SubmitPublishNew, SendOrderState
    <2>2. pc[o] \in SavedPlaces
      BY <1>1 DEF SubmitPublishNew, SavedPlaces
    <2> QED
      BY <1>0, <1>1, <2>1, <2>2, QuietTask
         DEF SubmitPublishNew, UnchangedByTask, dbVars, Committing, PCs, ExchangeWrites
  <1>2. CASE SubmitCall(o)
    <2>1. PICK a \in {"submitReply", "done"} : pc' = [pc EXCEPT ![o] = a]
      BY <1>2 DEF SubmitCall
    <2>2. pc[o] \in SavedPlaces
      BY <1>2 DEF SubmitCall, SavedPlaces
    <2> QED
      BY <1>0, <1>2, <2>1, <2>2, QuietTask
         DEF SubmitCall, UnchangedByTask, dbVars, Committing, PCs, ExchangeWrites
  <1>3. CASE SubmitReply(o)
    <2>1. PICK a \in {"rejectUpdate", "done"} :
            /\ pc' = [pc EXCEPT ![o] = a]
            /\ a = "rejectUpdate" => mem'[o].status # "PendingCancel"
            /\ \A u \in Tasks \ {o} : mem'[u] = mem[u]
      BY <1>0, <1>3 DEF SubmitReply, Record
    <2>2. pc[o] \in SavedPlaces
      BY <1>3 DEF SubmitReply, SavedPlaces
    <2> QED
      BY <1>0, <1>3, <2>1, <2>2, QuietTask
         DEF SubmitReply, UnchangedByTask, dbVars, Committing, PCs, ExchangeWrites
  <1>4. CASE RejectUpdate(o)
    BY <1>0, <1>4, UpdateDbInv
       DEF RejectUpdate, UnchangedByTask, Committing, PCs, ExchangeWrites, SavedPlaces
  <1>5. CASE RejectCommit(o)
    BY <1>0, <1>5, CommitDbInv
       DEF RejectCommit, UnchangedByTask, Committing, PCs, ExchangeWrites
  <1>6. CASE RejectPublish(o)
    BY <1>0, <1>6, QuietTask
       DEF RejectPublish, SendOrderState, UnchangedByTask, dbVars, Committing, PCs,
           ExchangeWrites, SavedPlaces
  <1> QED
    BY <1>1, <1>2, <1>3, <1>4, <1>5, <1>6, SubmitSaveDbInv DEF SubmitStep

LEMMA CancelDbInv ==
  ASSUME TypeInv, DbInv, NEW c \in Cancelers, CancelStep(c)
  PROVE  DbInv'
  <1>0. /\ c \in Tasks
        /\ pc[c] \in SavedPlaces => target[c] \in Orders /\ row[target[c]].version >= 0
        /\ mem \in [Tasks -> State] /\ pc \in [Tasks -> PCs]
        /\ target \in [Tasks -> Orders \cup {None}]
    BY DEF TypeInv, TypeOK, TargetKnown, Tasks, DbInv, RowsAreSaved, SavedPlaces
  <1>1. ASSUME NEW o \in Orders, CancelRead(c, o)
        PROVE  DbInv'
    <2>1. /\ target' = [target EXCEPT ![c] = o]
          /\ target'[c] = o
          /\ \A u \in Tasks \ {c} : target'[u] = target[u]
      BY <1>0, <1>1 DEF CancelRead
    <2>2. CASE Cancelable(row[o]) /\ pc' = [pc EXCEPT ![c] = "markUpdate"]
      <3>1. mem' = [mem EXCEPT ![c] = [row[o] EXCEPT !.status = "PendingCancel"]]
        BY <1>1, <2>2 DEF CancelRead, Viable, Status, Terminal
      <3>2. row[o] \in State /\ row[o].status \in Viable
        BY <2>2 DEF Cancelable, TypeInv, TypeOK
      <3>3. row[o].version >= 0
        BY <3>2 DEF DbInv, RowsAreSaved, State, Viable
      <3>4. /\ mem'[c].version = row[o].version
            /\ \A u \in Tasks \ {c} : mem'[u] = mem[u]
        BY <1>0, <3>1, <3>2 DEF State
      <3> QED
        BY <1>0, <1>1, <2>1, <2>2, <3>2, <3>3, <3>4, QuietTask
           DEF CancelRead, dbVars, Committing, PCs, ExchangeWrites
    <2>3. CASE UNCHANGED mem /\ pc' = [pc EXCEPT ![c] = "done"]
      BY <1>0, <1>1, <2>1, <2>3, QuietTask
         DEF CancelRead, dbVars, Committing, PCs, ExchangeWrites, SavedPlaces
    <2> QED
      BY <1>1, <2>2, <2>3 DEF CancelRead
  <1>2. CASE CancelUpdate(c)
    BY <1>0, <1>2, UpdateDbInv
       DEF CancelUpdate, UnchangedByTask, Committing, PCs, ExchangeWrites, SavedPlaces
  <1>3. CASE CancelCommit(c)
    BY <1>0, <1>3, CommitDbInv
       DEF CancelCommit, UnchangedByTask, Committing, PCs, ExchangeWrites
  <1>4. CASE CancelPublish(c)
    BY <1>0, <1>4, QuietTask
       DEF CancelPublish, SendOrderState, UnchangedByTask, dbVars, Committing, PCs,
           ExchangeWrites, SavedPlaces
  <1>5. CASE CancelCall(c)
    <2>1. PICK a \in {"cancelReply", "done"} : pc' = [pc EXCEPT ![c] = a]
      BY <1>5 DEF CancelCall
    <2>2. pc[c] \in SavedPlaces
      BY <1>5 DEF CancelCall, SavedPlaces
    <2> QED
      BY <1>0, <1>5, <2>1, <2>2, QuietTask
         DEF CancelCall, UnchangedByTask, dbVars, Committing, PCs, ExchangeWrites
  <1>6. CASE CancelReply(c)
    <2>0. rpc[c] \in ExchangeStatus \cup {"none", "sent", "error"}
      BY DEF TypeInv, TypeOK
    <2>1. PICK a \in {"replyUpdate", "done"} :
            /\ pc' = [pc EXCEPT ![c] = a]
            /\ a = "replyUpdate" => mem'[c].status # "PendingCancel"
            /\ \A u \in Tasks \ {c} : mem'[u] = mem[u]
      <3>1. CASE rpc[c] = "error"
        BY <1>0, <1>6, <3>1 DEF CancelReply
      <3>2. CASE rpc[c] # "error"
        <4>1. /\ mem' = [mem EXCEPT ![c].status = rpc[c], ![c].time = BrokerTime]
              /\ pc' = [pc EXCEPT ![c] = "replyUpdate"]
              /\ rpc[c] # "PendingCancel"
          BY <1>6, <2>0, <3>2 DEF CancelReply, ExchangeStatus
        <4>2. mem'[c].status = rpc[c] /\ \A u \in Tasks \ {c} : mem'[u] = mem[u]
          BY <1>0, <4>1 DEF State
        <4> QED
          BY <4>1, <4>2
      <3> QED
        BY <3>1, <3>2
    <2>2. pc[c] \in SavedPlaces
      BY <1>6 DEF CancelReply, SavedPlaces
    <2> QED
      BY <1>0, <1>6, <2>1, <2>2, QuietTask
         DEF CancelReply, UnchangedByTask, dbVars, Committing, PCs, ExchangeWrites
  <1>7. CASE ReplyUpdate(c)
    BY <1>0, <1>7, UpdateDbInv
       DEF ReplyUpdate, UnchangedByTask, Committing, PCs, ExchangeWrites, SavedPlaces
  <1>8. CASE ReplyCommit(c)
    BY <1>0, <1>8, CommitDbInv
       DEF ReplyCommit, UnchangedByTask, Committing, PCs, ExchangeWrites
  <1>9. CASE ReplyPublish(c)
    BY <1>0, <1>9, QuietTask
       DEF ReplyPublish, SendOrderState, UnchangedByTask, dbVars, Committing, PCs,
           ExchangeWrites, SavedPlaces
  <1> QED
    BY <1>1, <1>2, <1>3, <1>4, <1>5, <1>6, <1>7, <1>8, <1>9 DEF CancelStep

LEMMA HandlerDbInv ==
  ASSUME TypeInv, DbInv, NEW h \in Handlers, HandlerStep(h)
  PROVE  DbInv'
  <1>0. /\ h \in Tasks
        /\ pc[h] \in SavedPlaces \cup {"locking"} => target[h] \in Orders
        /\ pc[h] \in SavedPlaces => row[target[h]].version >= 0
        /\ mem \in [Tasks -> State] /\ pc \in [Tasks -> PCs]
    BY DEF TypeInv, TypeOK, TargetKnown, Tasks, DbInv, RowsAreSaved, SavedPlaces
  <1>1. CASE AsyncRead(h)
    <2>1. /\ pc[h] = "locking" /\ target[h] \in Orders
          /\ row[target[h]].version >= -1 /\ row[target[h]] \in State
          /\ row[target[h]].version = -1 => row[target[h]].status = "None"
          /\ msg[h] \in XState
      BY <1>0, <1>1 DEF AsyncRead, DbInv, RowsAreSaved, TypeInv, TypeOK
    <2>2. CASE /\ row[target[h]].status # "None"
               /\ mem' = [mem EXCEPT ![h] = Apply(row[target[h]], msg[h])]
               /\ pc' = [pc EXCEPT ![h] = "asyncUpdate"]
      <3>1. row[target[h]].version >= 0
        BY <2>1, <2>2 DEF State
      <3>2. mem'[h].status # "PendingCancel" /\ \A u \in Tasks \ {h} : mem'[u] = mem[u]
        BY <1>0, <2>1, <2>2 DEF Apply, Record, XState, ExchangeStatus
      <3> QED
        BY <1>0, <1>1, <2>1, <2>2, <3>1, <3>2, QuietTask
           DEF AsyncRead, UnchangedByTask, dbVars, Committing, PCs
    <2>3. ASSUME NEW a \in {"failed", "release"}, UNCHANGED mem, pc' = [pc EXCEPT ![h] = a]
          PROVE  DbInv'
      BY <1>0, <1>1, <2>3, QuietTask
         DEF AsyncRead, UnchangedByTask, dbVars, Committing, PCs, ExchangeWrites, SavedPlaces
    <2> QED
      BY <1>1, <2>2, <2>3 DEF AsyncRead
  <1>2. CASE AsyncUpdate(h)
    BY <1>0, <1>2, UpdateDbInv
       DEF AsyncUpdate, UnchangedByTask, Committing, PCs, ExchangeWrites, SavedPlaces
  <1>3. CASE AsyncCommit(h)
    BY <1>0, <1>3, CommitDbInv
       DEF AsyncCommit, UnchangedByTask, Committing, PCs, ExchangeWrites
  <1>4. CASE AsyncPublish(h)
    BY <1>0, <1>4, QuietTask
       DEF AsyncPublish, SendOrderState, UnchangedByTask, dbVars, Committing, PCs,
           ExchangeWrites, SavedPlaces
  <1>5. CASE AsyncReturn(h) \/ AsyncRetry(h)
    <2>1. PICK a \in {"done", "sleep", "locking"} : pc' = [pc EXCEPT ![h] = a]
      BY <1>5 DEF AsyncReturn, AsyncRetry
    <2> QED
      BY <1>0, <1>5, <2>1, QuietTask
         DEF AsyncReturn, AsyncRetry, dbVars, Committing, PCs, ExchangeWrites, SavedPlaces
  <1> QED
    BY <1>1, <1>2, <1>3, <1>4, <1>5 DEF HandlerStep

--------------------------------------------------------------------------------
(* Faults, outages and the environment *)

LEMMA FaultDbInv ==
  ASSUME TypeInv, DbInv, NEW t \in Tasks, Fault(t)
  PROVE  DbInv'
  <1> DEFINE a == AfterFault(pc[t])
  <1>0. /\ pc[t] \in Faultable
        /\ pc' = [pc EXCEPT ![t] = a]
        /\ row' = row /\ history' = history /\ mem' = mem /\ target' = target
        /\ rowLock' = [o \in Orders |-> IF rowLock[o] = t THEN None ELSE rowLock[o]]
    BY DEF Fault
  <1>1. a \in PCs /\ a \in Critical \cup {"done", "publishReply"}
    BY <1>0, AfterFaultPlace
  <1>2. a = "publishReply" => pc[t] \in SavedPlaces
    <2>1. CASE pc[t] \in {"replyUpdate", "replyCommit"}
      BY <2>1 DEF SavedPlaces
    <2>2. CASE pc[t] \notin {"replyUpdate", "replyCommit"}
      BY <1>0, <2>2 DEF AfterFault, Faultable, Committing
    <2> QED
      BY <2>1, <2>2
  <1>3. a \in {"failed", "done", "publishReply"}
    <2>1. CASE pc[t] \in {"start", "markUpdate", "markCommit", "rejectUpdate", "rejectCommit"}
      BY <2>1 DEF AfterFault
    <2>2. CASE pc[t] \in {"replyUpdate", "replyCommit"}
      BY <2>2 DEF AfterFault
    <2>3. CASE pc[t] \in {"locking", "asyncUpdate", "asyncCommit", "publishAsync"}
      BY <2>3 DEF AfterFault
    <2> QED
      BY <1>0, <2>1, <2>2, <2>3 DEF Faultable, Committing
  <1> HIDE DEF a
  <1>4. a \in SavedPlaces => row[target'[t]].version >= 0
    BY <1>0, <1>2, <1>3 DEF DbInv, RowsAreSaved, SavedPlaces
  <1>5. \A u \in Tasks : pc[u] \in Committing /\ u # t
                           => rowLock'[target[u]] = rowLock[target[u]]
    BY <1>0 DEF DbInv, LockedIsNextVersion
  <1>6. a \notin Committing /\ a # "start" /\ a # "markUpdate" /\ a \notin ExchangeWrites
    BY <1>3 DEF Committing, ExchangeWrites
  <1> QED
    BY <1>0, <1>1, <1>4, <1>5, <1>6, QuietTask

LEMMA LostAnswerDbInv ==
  ASSUME TypeInv, DbInv, NEW t \in Tasks, LostCommitAnswer(t)
  PROVE  DbInv'
  <1>1. pc[t] \in Committing /\ pc[t] \in Faultable
    BY DEF LostCommitAnswer, Faultable
  <1>2. /\ AfterFault(pc[t]) \in PCs
        /\ AfterFault(pc[t]) \in Critical \cup {"done", "publishReply"}
    BY <1>1, AfterFaultPlace
  <1>3. AfterFault(pc[t]) \in {"done", "publishReply", "failed"}
    <2>1. CASE pc[t] \in {"markCommit", "rejectCommit"}
      BY <2>1 DEF AfterFault
    <2>2. CASE pc[t] = "replyCommit"
      BY <2>2 DEF AfterFault
    <2>3. CASE pc[t] = "asyncCommit"
      BY <2>3 DEF AfterFault
    <2> QED
      BY <1>1, <2>1, <2>2, <2>3 DEF Committing
  <1>4. CommitOrder(t, AfterFault(pc[t])) /\ target' = target
    BY DEF LostCommitAnswer
  <1> QED
    BY <1>1, <1>2, <1>3, <1>4, CommitDbInv DEF Committing, ExchangeWrites

\* A restart leaves no task running and no row locked.
LEMMA CrashDbInv ==
  ASSUME TypeInv, DbInv, Crash
  PROVE  DbInv'
  <1>1. /\ \A t \in Tasks : pc'[t] \in {"start", "idle", "done"}
        /\ \A t \in Tasks : pc'[t] = "start" => pc[t] = "start"
        /\ Orders \subseteq Tasks
        /\ row' = row /\ history' = history
    BY DEF Crash, Tasks
  <1>2. HistoryIsComplete'
    BY <1>1 DEF DbInv, HistoryIsComplete
  <1>3. LockedIsNextVersion'
    BY <1>1 DEF LockedIsNextVersion, Committing
  <1>4. RowsAreSaved'
    BY <1>1 DEF DbInv, RowsAreSaved, SavedPlaces
  <1>5. CancelIsFresh'
    BY <1>1 DEF CancelIsFresh, ExchangeWrites
  <1> QED
    BY <1>2, <1>3, <1>4, <1>5 DEF DbInv

LEMMA ReceiveDbInv ==
  ASSUME TypeInv, DbInv, ReceiveMessage
  PROVE  DbInv'
  <1> DEFINE h == received + 1
  <1>1. h \in Tasks
    <2>1. /\ wire \in Seq(Message) /\ wire # <<>> /\ received \in 0..MaxMsgs
          /\ received + Len(wire) <= MaxMsgs
      BY DEF TypeInv, TypeOK, HandlersCounted, ReceiveMessage
    <2>2. Len(wire) \in Nat /\ Len(wire) > 0
      BY <2>1
    <2>3. h \in 1..MaxMsgs
      BY <2>1, <2>2, ConstantsAssumption
    <2> QED
      BY <2>3 DEF Tasks, Handlers
  <1>2. /\ pc' = [pc EXCEPT ![h] = "locking"]
        /\ target' = [target EXCEPT ![h] = Head(wire).order]
        /\ UNCHANGED <<row, history, rowLock, mem>>
        /\ target \in [Tasks -> Orders \cup {None}]
    BY DEF ReceiveMessage, dbVars, TypeInv, TypeOK
  <1> HIDE DEF h
  <1> QED
    BY <1>1, <1>2, QuietTask DEF Committing, PCs, ExchangeWrites, SavedPlaces

LEMMA NextDbInv == TypeInv /\ DbInv /\ [Next]_vars => DbInv'
  <1> SUFFICES ASSUME TypeInv, DbInv, [Next]_vars PROVE DbInv'
    OBVIOUS
  <1>1. CASE UNCHANGED vars \/ Finished \/ Tick \/ Disconnect
    BY <1>1, QuietEnvironment DEF Finished, Tick, Disconnect, vars, taskVars
  <1>2. CASE ExchangeStep
    BY <1>2, QuietEnvironment
       DEF ExchangeStep, ExchangeAccept, ExchangeReject, ExchangeProgress, ExchangeCancel,
           ExchangeReply, RpcError, taskVars
  <1> QED
    BY <1>1, <1>2, SubmitDbInv, CancelDbInv, HandlerDbInv, FaultDbInv, LostAnswerDbInv,
       CrashDbInv, ReceiveDbInv DEF Next

(* The tables and the tasks agree in every reachable state: the inductive       *)
(* strengthening of HistoryIsComplete, LockedIsNextVersion and the freshness of *)
(* what cancel_order read.                                                      *)
THEOREM DbInvariant == Spec => []DbInv
  BY InitDbInv, NextDbInv, TypeCorrect, PTL DEF Spec

(* However submit_order, cancel_order and the asynchronous handlers interleave, *)
(* fail and restart, order_state_history has one row per version and ends in    *)
(* the order_state row: no update is lost.                                      *)
THEOREM HistoryComplete == Spec => []HistoryIsComplete
  <1>1. DbInv => HistoryIsComplete
    BY DEF DbInv
  <1> QED
    BY <1>1, DbInvariant, PTL

(* What the version check of update_order decided stays true until COMMIT.      *)
THEOREM NextVersionIsLocked == Spec => []LockedIsNextVersion
  <1>1. DbInv => LockedIsNextVersion
    BY DEF DbInv
  <1> QED
    BY <1>1, DbInvariant, PTL

--------------------------------------------------------------------------------
(* The cancel *)

\* A row changes only by the write of a new order or by a COMMIT.
LEMMA WhoWrites ==
  ASSUME TypeInv, DbInv, [Next]_vars, NEW o \in Orders, row'[o] # row[o]
  PROVE  \/ SubmitSave(o)
         \/ \E t \in Tasks : pc[t] \in Committing /\ target[t] = o /\ row'[o] = mem[t]
  <1>0. row \in [Orders -> State]
    BY DEF TypeInv, TypeOK
  <1>1. ASSUME NEW t \in Tasks, NEW a, pc[t] \in Committing, CommitOrder(t, a)
        PROVE  target[t] = o /\ row'[o] = mem[t]
    BY <1>0, <1>1 DEF CommitOrder, DbInv, LockedIsNextVersion
  <1>2. ASSUME NEW p \in Orders, SubmitStep(p)
        PROVE  \/ SubmitSave(o)
               \/ \E t \in Tasks : pc[t] \in Committing /\ target[t] = o /\ row'[o] = mem[t]
    <2>1. CASE SubmitSave(p)
      BY <1>0, <2>1 DEF SubmitSave, SaveOrder
    <2>2. CASE RejectCommit(p)
      BY <1>1, <2>2 DEF RejectCommit, Committing, Tasks
    <2>3. CASE row' = row
      BY <2>3
    <2> QED
      BY <1>2, <2>1, <2>2, <2>3
         DEF SubmitStep, SubmitPublishNew, SubmitCall, SubmitReply, RejectUpdate, RejectPublish,
             UpdateOrder, dbVars
  <1>3. ASSUME NEW c \in Cancelers, CancelStep(c)
        PROVE  \E t \in Tasks : pc[t] \in Committing /\ target[t] = o /\ row'[o] = mem[t]
    <2>1. CASE CancelCommit(c) \/ ReplyCommit(c)
      BY <1>1, <2>1 DEF CancelCommit, ReplyCommit, Committing, Tasks
    <2>2. CASE row' = row
      BY <2>2
    <2> QED
      BY <1>3, <2>1, <2>2
         DEF CancelStep, CancelRead, CancelUpdate, CancelPublish, CancelCall, CancelReply,
             ReplyUpdate, ReplyPublish, UpdateOrder, dbVars
  <1>4. ASSUME NEW h \in Handlers, HandlerStep(h)
        PROVE  \E t \in Tasks : pc[t] \in Committing /\ target[t] = o /\ row'[o] = mem[t]
    <2>1. CASE AsyncCommit(h)
      BY <1>1, <2>1 DEF AsyncCommit, Committing, Tasks
    <2>2. CASE row' = row
      BY <2>2
    <2> QED
      BY <1>4, <2>1, <2>2
         DEF HandlerStep, AsyncRead, AsyncUpdate, AsyncPublish, AsyncReturn, AsyncRetry,
             UpdateOrder, dbVars
  <1>5. ASSUME NEW t \in Tasks, Fault(t) \/ LostCommitAnswer(t)
        PROVE  \E u \in Tasks : pc[u] \in Committing /\ target[u] = o /\ row'[o] = mem[u]
    BY <1>1, <1>5 DEF Fault, LostCommitAnswer
  <1>6. CASE row' = row
    BY <1>6
  <1> QED
    BY <1>2, <1>3, <1>4, <1>5, <1>6
       DEF Next, ReceiveMessage, Crash, ExchangeStep, ExchangeAccept, ExchangeReject,
           ExchangeProgress, ExchangeCancel, ExchangeReply, RpcError, Disconnect, Tick,
           Finished, vars, dbVars

(* A cancel that reads a viable order and updates it in a second statement is   *)
(* recorded only if the order is viable still.                                  *)
THEOREM CancelSafe == Spec => CancelNeverReopens
  <1>1. TypeInv /\ DbInv /\ [Next]_vars
          => [\A o \in Orders : row'[o] # row[o] /\ row'[o].status = "PendingCancel"
                                  => row[o].status \in Viable]_vars
    <2> SUFFICES ASSUME TypeInv, DbInv, [Next]_vars, NEW o \in Orders,
                        row'[o] # row[o], row'[o].status = "PendingCancel"
                 PROVE  row[o].status \in Viable
      OBVIOUS
    <2>1. CASE SubmitSave(o)
      <3>1. PICK s \in {<<"Pending", "none">>, <<"Rejected", "inactive">>, <<"Rejected", "expired">>} :
              row' = [row EXCEPT ![o] = Record(s[1], BrokerTime, 0, s[2])]
        BY <2>1 DEF SubmitSave, SaveOrder
      <3> QED
        BY <3>1 DEF Record, TypeInv, TypeOK
    <2>2. ASSUME NEW t \in Tasks, pc[t] \in Committing, target[t] = o, row'[o] = mem[t]
          PROVE  row[o].status \in Viable
      BY <2>2 DEF DbInv, CancelIsFresh, Committing, ExchangeWrites
    <2> QED
      BY <2>1, <2>2, WhoWrites
  <1> QED
    BY <1>1, TypeCorrect, DbInvariant, PTL DEF Spec, CancelNeverReopens

--------------------------------------------------------------------------------
(* What the broker can know of the exchange *)

\* A message m tells, at time n, a state the order has been in that is now in state
\* x at the exchange; an end is the state it is in.
Reported(m, x, n) ==
  /\ x.status # "None"
  /\ m.status \in ExchangeStatus
  /\ m.time \in 0..n
  /\ m.status \in Viable => /\ m.time <= x.time
                            /\ DistinctTimes /\ x.status \in Terminal => m.time < x.time
  /\ m.status \in Terminal => x.status \in Terminal /\ m.time >= x.time

\* The exchange hears of an order when it is saved; its answers and messages are
\* true.
ExchangeInv ==
  /\ \A o \in Orders :
       /\ xs[o].time \in 0..now
       /\ rpc[o] # "none" \/ xs[o].status # "None" => row[o].version >= 0
       /\ pc[o] = "start" => xs[o].status = "None"
  /\ \A t \in Orders \cup Cancelers :
       /\ pc[t] = "start" => rpc[t] = "none"
       /\ rpc[t] \in Terminal => xs[target[t]].status \in Terminal
  /\ \A i \in DOMAIN wire : Reported(wire[i], xs[wire[i].order], now)
  /\ \A h \in Handlers :
       pc[h] # "idle" => target[h] \in Orders /\ Reported(msg[h], xs[target[h]], now)

LEMMA InitExchangeInv == Init => ExchangeInv
  <1> SUFFICES ASSUME Init PROVE ExchangeInv
    OBVIOUS
  <1>1. /\ \A o \in Orders : xs[o] = NoReport /\ rpc[o] = "none"
        /\ \A t \in Orders \cup Cancelers : rpc[t] = "none"
        /\ wire = <<>> /\ now = 0
        /\ \A h \in Handlers : pc[h] = "idle"
    BY DEF Init, Tasks
  <1> QED
    BY <1>1 DEF ExchangeInv, NoReport, Terminal, Status, Viable

\* A row is written once more or not at all.
LEMMA RowGrows ==
  ASSUME TypeInv, DbInv, [Next]_vars, NEW o \in Orders, row'[o] # row[o]
  PROVE  row'[o].version = row[o].version + 1
  <1>1. row \in [Orders -> State]
    BY DEF TypeInv, TypeOK
  <1>2. CASE SubmitSave(o)
    <2>1. PICK s \in {<<"Pending", "none">>, <<"Rejected", "inactive">>, <<"Rejected", "expired">>} :
            row' = [row EXCEPT ![o] = Record(s[1], BrokerTime, 0, s[2])]
      BY <1>2 DEF SubmitSave, SaveOrder
    <2>2. row[o].version = -1
      BY <1>2 DEF SubmitSave, DbInv, RowsAreSaved
    <2> QED
      BY <1>1, <2>1, <2>2 DEF Record
  <1>3. ASSUME NEW t \in Tasks, pc[t] \in Committing, target[t] = o, row'[o] = mem[t]
        PROVE  row'[o].version = row[o].version + 1
    BY <1>3 DEF DbInv, LockedIsNextVersion
  <1> QED
    BY <1>2, <1>3, WhoWrites

LEMMA RowStays ==
  ASSUME TypeInv, DbInv, [Next]_vars, NEW o \in Orders
  PROVE  row'[o].version >= row[o].version /\ row[o].version \in Int /\ row'[o].version \in Int
  <1>1. row[o].version \in Int
    BY DEF TypeInv, TypeOK, State
  <1> QED
    BY <1>1, RowGrows

\* A step of the broker that receives no message.
LEMMA BrokerExchangeInv ==
  ASSUME ExchangeInv, UNCHANGED <<xs, now, msg>>, wire' = wire \/ wire' = <<>>,
         \A o \in Orders : row[o].version >= 0 => row'[o].version >= 0,
         \A h \in Handlers : target'[h] = target[h] /\ (pc'[h] # "idle" => pc[h] # "idle"),
         \A t \in Orders \cup Cancelers : pc'[t] = "start" => pc[t] = "start",
         \A t \in Orders \cup Cancelers :
           \/ rpc'[t] = "none"
           \/ rpc'[t] = rpc[t] /\ target'[t] = target[t]
           \/ rpc'[t] = "sent" /\ pc[t] # "start" /\ (t \in Orders => row[t].version >= 0)
  PROVE  ExchangeInv'
  <1>1. "sent" \notin Terminal /\ "none" \notin Terminal
    BY DEF Terminal, Status
  <1>2. \A o \in Orders :
          /\ xs'[o].time \in 0..now'
          /\ rpc'[o] # "none" \/ xs'[o].status # "None" => row'[o].version >= 0
          /\ pc'[o] = "start" => xs'[o].status = "None"
    BY DEF ExchangeInv
  <1>3. \A t \in Orders \cup Cancelers :
          /\ pc'[t] = "start" => rpc'[t] = "none"
          /\ rpc'[t] \in Terminal => xs'[target'[t]].status \in Terminal
    BY <1>1 DEF ExchangeInv
  <1>4. \A i \in DOMAIN wire' : Reported(wire'[i], xs'[wire'[i].order], now')
    BY DEF ExchangeInv, Reported
  <1>5. \A h \in Handlers :
          pc'[h] # "idle" => target'[h] \in Orders /\ Reported(msg'[h], xs'[target'[h]], now')
    BY DEF ExchangeInv, Reported
  <1> QED
    BY <1>2, <1>3, <1>4, <1>5 DEF ExchangeInv

\* One task moves, and perhaps makes its call to the exchange or takes the answer.
LEMMA TaskExchangeInv ==
  ASSUME TypeInv, ExchangeInv, UNCHANGED <<xs, now, msg, wire>>,
         \A o \in Orders : row[o].version >= 0 => row'[o].version >= 0,
         NEW t \in Tasks, NEW a, a # "start", pc[t] # "idle", pc' = [pc EXCEPT ![t] = a],
         \A u \in Tasks : target'[u] = target[u] \/ (u = t /\ t \in Cancelers /\ pc[t] = "start"),
         \/ rpc' = rpc
         \/ rpc' = [rpc EXCEPT ![t] = "none"]
         \/ /\ rpc' = [rpc EXCEPT ![t] = "sent"]
            /\ pc[t] # "start" /\ (t \in Orders => row[t].version >= 0)
  PROVE  ExchangeInv'
  <1>0. /\ pc \in [Tasks -> PCs]
        /\ DOMAIN rpc = Orders \cup Cancelers
        /\ Handlers \subseteq Tasks /\ Orders \cup Cancelers \subseteq Tasks
        /\ t \in Cancelers => t \notin Handlers
    BY TasksAssumption DEF TypeInv, TypeOK, Tasks
  <1>1. \A h \in Handlers : target'[h] = target[h] /\ (pc'[h] # "idle" => pc[h] # "idle")
    BY <1>0
  <1>2. \A u \in Orders \cup Cancelers : pc'[u] = "start" => pc[u] = "start"
    BY <1>0
  <1>3. ASSUME NEW u \in Orders \cup Cancelers
        PROVE  \/ rpc'[u] = "none"
               \/ rpc'[u] = rpc[u] /\ target'[u] = target[u]
               \/ rpc'[u] = "sent" /\ pc[u] # "start" /\ (u \in Orders => row[u].version >= 0)
    <2>1. pc[u] = "start" => rpc[u] = "none"
      BY DEF ExchangeInv
    <2>2. CASE u = t
      BY <1>0, <2>1, <2>2
    <2>3. CASE u # t
      BY <1>0, <2>3
    <2> QED
      BY <2>2, <2>3
  <1> QED
    BY <1>1, <1>2, <1>3, BrokerExchangeInv

LEMMA SubmitExchangeInv ==
  ASSUME TypeInv, DbInv, ExchangeInv, NEW o \in Orders, SubmitStep(o),
         \A p \in Orders : row[p].version >= 0 => row'[p].version >= 0
  PROVE  ExchangeInv'
  <1>1. o \in Tasks /\ UnchangedByTask
    BY DEF Tasks, SubmitStep, SubmitSave, SubmitPublishNew, SubmitCall, SubmitReply,
           RejectUpdate, RejectCommit, RejectPublish
  <1>2. PICK a : a # "start" /\ pc' = [pc EXCEPT ![o] = a]
    BY DEF SubmitStep, SubmitSave, SubmitPublishNew, SubmitCall, SubmitReply, RejectUpdate,
           RejectCommit, RejectPublish, UpdateOrder, CommitOrder, SendOrderState
  <1>3. /\ pc[o] # "idle"
        /\ \/ rpc' = rpc \/ rpc' = [rpc EXCEPT ![o] = "none"]
           \/ rpc' = [rpc EXCEPT ![o] = "sent"] /\ pc[o] = "submit"
    BY DEF SubmitStep, SubmitSave, SubmitPublishNew, SubmitCall, SubmitReply, RejectUpdate,
           RejectCommit, RejectPublish
  <1>4. pc[o] = "submit" => row[o].version >= 0
    BY <1>1 DEF TypeInv, TargetKnown, DbInv, RowsAreSaved, SavedPlaces
  <1> QED
    BY <1>1, <1>2, <1>3, <1>4, TaskExchangeInv DEF UnchangedByTask

LEMMA CancelExchangeInv ==
  ASSUME TypeInv, ExchangeInv, NEW c \in Cancelers, CancelStep(c),
         \A p \in Orders : row[p].version >= 0 => row'[p].version >= 0
  PROVE  ExchangeInv'
  <1>0. c \in Tasks /\ c \notin Orders /\ target \in [Tasks -> Orders \cup {None}]
    BY TasksAssumption DEF Tasks, TypeInv, TypeOK
  <1>1. UNCHANGED <<xs, now, msg, wire>>
    BY DEF CancelStep, CancelRead, CancelUpdate, CancelCommit, CancelPublish, CancelCall,
           CancelReply, ReplyUpdate, ReplyCommit, ReplyPublish, UnchangedByTask, xVars
  <1>2. PICK a : a # "start" /\ pc' = [pc EXCEPT ![c] = a]
    BY DEF CancelStep, CancelRead, CancelUpdate, CancelCommit, CancelPublish, CancelCall,
           CancelReply, ReplyUpdate, ReplyCommit, ReplyPublish, UpdateOrder, CommitOrder,
           SendOrderState
  <1>3. /\ pc[c] # "idle"
        /\ \/ rpc' = rpc \/ rpc' = [rpc EXCEPT ![c] = "none"]
           \/ rpc' = [rpc EXCEPT ![c] = "sent"] /\ pc[c] # "start"
    BY DEF CancelStep, CancelRead, CancelUpdate, CancelCommit, CancelPublish, CancelCall,
           CancelReply, ReplyUpdate, ReplyCommit, ReplyPublish, xVars
  <1>4. \A u \in Tasks : target'[u] = target[u] \/ (u = c /\ pc[c] = "start")
    BY <1>0 DEF CancelStep, CancelRead, CancelUpdate, CancelCommit, CancelPublish, CancelCall,
           CancelReply, ReplyUpdate, ReplyCommit, ReplyPublish, UnchangedByTask
  <1> QED
    BY <1>0, <1>1, <1>2, <1>3, <1>4, TaskExchangeInv

LEMMA HandlerExchangeInv ==
  ASSUME TypeInv, ExchangeInv, NEW h \in Handlers, HandlerStep(h),
         \A p \in Orders : row[p].version >= 0 => row'[p].version >= 0
  PROVE  ExchangeInv'
  <1>0. h \in Tasks
    BY DEF Tasks
  <1>1. UNCHANGED <<xs, now, msg, wire, rpc, target>>
    BY DEF HandlerStep, AsyncRead, AsyncUpdate, AsyncCommit, AsyncPublish, AsyncReturn,
           AsyncRetry, UnchangedByTask, xVars
  <1>2. PICK a : a # "start" /\ pc' = [pc EXCEPT ![h] = a]
    BY DEF HandlerStep, AsyncRead, AsyncUpdate, AsyncCommit, AsyncPublish, AsyncReturn,
           AsyncRetry, UpdateOrder, CommitOrder, SendOrderState
  <1>3. pc[h] # "idle"
    BY DEF HandlerStep, AsyncRead, AsyncUpdate, AsyncCommit, AsyncPublish, AsyncReturn, AsyncRetry
  <1> QED
    BY <1>0, <1>1, <1>2, <1>3, TaskExchangeInv

LEMMA FaultExchangeInv ==
  ASSUME TypeInv, ExchangeInv, NEW t \in Tasks, Fault(t) \/ LostCommitAnswer(t),
         \A p \in Orders : row[p].version >= 0 => row'[p].version >= 0
  PROVE  ExchangeInv'
  <1>1. pc[t] \in Faultable /\ pc' = [pc EXCEPT ![t] = AfterFault(pc[t])]
    BY DEF Fault, LostCommitAnswer, CommitOrder, Committing, Faultable
  <1>2. AfterFault(pc[t]) # "start" /\ pc[t] # "idle"
    BY <1>1, AfterFaultPlace DEF Critical
  <1>3. UNCHANGED <<xs, now, msg, wire, rpc, target>>
    BY DEF Fault, LostCommitAnswer, xVars
  <1> QED
    BY <1>1, <1>2, <1>3, TaskExchangeInv

LEMMA CrashExchangeInv ==
  ASSUME TypeInv, ExchangeInv, Crash
  PROVE  ExchangeInv'
  <1>1. /\ UNCHANGED <<row, xs, now, msg, rpc, target>> /\ wire' = <<>>
        /\ Handlers \subseteq Tasks /\ Orders \cup Cancelers \subseteq Tasks
        /\ \A t \in Tasks : /\ pc'[t] # "idle" => pc[t] # "idle"
                            /\ pc'[t] = "start" => pc[t] = "start"
    BY DEF Crash, Tasks
  <1> QED
    BY <1>1, BrokerExchangeInv

LEMMA NewHandler ==
  ASSUME TypeInv, ReceiveMessage
  PROVE  received + 1 \in Handlers /\ received + 1 \notin Orders \cup Cancelers
  <1>1. /\ wire \in Seq(Message) /\ wire # <<>> /\ received \in 0..MaxMsgs
        /\ received + Len(wire) <= MaxMsgs
    BY DEF TypeInv, TypeOK, HandlersCounted, ReceiveMessage
  <1>2. Len(wire) \in Nat /\ Len(wire) > 0
    BY <1>1
  <1> QED
    BY <1>1, <1>2, TasksAssumption, ConstantsAssumption DEF Handlers

\* The message a handler is spawned for is the first one on the wire.
LEMMA ReceiveExchangeInv ==
  ASSUME TypeInv, ExchangeInv, ReceiveMessage
  PROVE  ExchangeInv'
  <1> DEFINE h == received + 1
  <1>0. /\ wire \in Seq(Message) /\ wire # <<>> /\ Len(wire) \in Nat /\ Len(wire) > 0
        /\ 1 \in DOMAIN wire /\ Head(wire) = wire[1]
        /\ msg \in [Handlers -> XState] /\ target \in [Tasks -> Orders \cup {None}]
        /\ pc \in [Tasks -> PCs] /\ Handlers \subseteq Tasks
        /\ Orders \cup Cancelers \subseteq Tasks
    BY DEF TypeInv, TypeOK, ReceiveMessage, Tasks
  <1>1. h \in Handlers /\ h \notin Orders \cup Cancelers
    BY NewHandler
  <1>2. /\ msg' = [msg EXCEPT ![h] = [status |-> wire[1].status, time |-> wire[1].time]]
        /\ target' = [target EXCEPT ![h] = wire[1].order]
        /\ pc' = [pc EXCEPT ![h] = "locking"]
        /\ wire' = Tail(wire)
        /\ UNCHANGED <<row, xs, rpc, now>>
    BY <1>0 DEF ReceiveMessage, dbVars
  <1> HIDE DEF h
  <1>3. /\ \A o \in Orders : pc'[o] = pc[o]
        /\ \A t \in Orders \cup Cancelers : pc'[t] = pc[t] /\ target'[t] = target[t]
    BY <1>0, <1>1, <1>2
  <1>4. \A i \in DOMAIN wire' : Reported(wire'[i], xs'[wire'[i].order], now')
    <2> SUFFICES ASSUME NEW i \in DOMAIN Tail(wire)
                 PROVE  Reported(wire'[i], xs'[wire'[i].order], now')
      BY <1>2
    <2>1. i + 1 \in DOMAIN wire /\ wire'[i] = wire[i + 1]
      BY <1>0, <1>2
    <2>2. Reported(wire[i + 1], xs[wire[i + 1].order], now)
      BY <2>1 DEF ExchangeInv
    <2> QED
      BY <1>2, <2>1, <2>2 DEF Reported
  <1>5. ASSUME NEW g \in Handlers, pc'[g] # "idle"
        PROVE  target'[g] \in Orders /\ Reported(msg'[g], xs'[target'[g]], now')
    <2>1. CASE g = h
      <3>1. Reported(wire[1], xs[wire[1].order], now)
        BY <1>0 DEF ExchangeInv
      <3>2. /\ target'[g] = wire[1].order
            /\ msg'[g].status = wire[1].status /\ msg'[g].time = wire[1].time
        BY <1>0, <1>2, <2>1
      <3>3. wire[1] \in Message
        BY <1>0
      <3>4. wire[1].order \in Orders
        BY <3>3 DEF Message
      <3> QED
        BY <1>2, <3>1, <3>2, <3>4 DEF Reported
    <2>2. CASE g # h
      <3>1. target'[g] = target[g] /\ msg'[g] = msg[g] /\ pc'[g] = pc[g]
        BY <1>0, <1>2, <2>2
      <3> QED
        BY <1>2, <1>5, <3>1 DEF ExchangeInv, Reported
    <2> QED
      BY <2>1, <2>2
  <1> QED
    BY <1>2, <1>3, <1>4, <1>5 DEF ExchangeInv

--------------------------------------------------------------------------------
(* Steps of the exchange *)

\* What was true of a live order is true after its next state, whatever that is.
LEMMA ReportedStays ==
  ASSUME NEW m, NEW x \in XState, NEW n \in Nat, NEW s \in ExchangeStatus,
         x.status \notin Terminal, x.time \in 0..n, DistinctTimes => n > x.time,
         Reported(m, x, n)
  PROVE  Reported(m, [status |-> s, time |-> n], n)
  <1>1. m.status \notin Terminal /\ m.time \in 0..n /\ m.time <= x.time
    BY DEF Reported, ExchangeStatus, Terminal, Viable, Status
  <1>2. s # "None" /\ m.status \in ExchangeStatus
    BY DEF ExchangeStatus, Reported
  <1> QED
    BY <1>1, <1>2 DEF Reported

\* The report of a new state is true.
LEMMA ReportedNow ==
  ASSUME NEW o, NEW n \in Nat, NEW s \in ExchangeStatus
  PROVE  Reported([order |-> o, status |-> s, time |-> n], [status |-> s, time |-> n], n)
  BY DEF Reported, ExchangeStatus, Terminal, Viable, Status

\* The exchange changes the state of an order that has not ended, at its own time,
\* and may tell.
LEMMA ProgressExchangeInv ==
  ASSUME TypeInv, ExchangeInv, NEW o \in Orders, NEW s \in ExchangeStatus,
         UNCHANGED <<dbVars, taskVars, rpc, received, now>>,
         SetExchange(o, s), wire' = wire \/ Notify(o, s),
         \/ xs[o].status = "None"
         \/ xs[o].status = "Open" /\ ClockAllows(o),
         row[o].version >= 0, pc[o] # "start"
  PROVE  ExchangeInv'
  <1> DEFINE x == [status |-> s, time |-> now]
  <1>0. /\ xs \in [Orders -> XState] /\ wire \in Seq(Message)
        /\ now \in Nat
        /\ target \in [Tasks -> Orders \cup {None}] /\ Handlers \subseteq Tasks
        /\ \A p \in Orders : xs[p].time \in 0..now
        /\ xs' = [xs EXCEPT ![o] = x]
        /\ pc' = pc /\ target' = target /\ msg' = msg /\ row' = row /\ now' = now /\ rpc' = rpc
    BY ConstantsAssumption
       DEF TypeInv, TypeOK, SetExchange, ExchangeInv, Tasks, taskVars, dbVars
  <1>1. ASSUME NEW m, NEW p \in Orders, Reported(m, xs[p], now)
        PROVE  Reported(m, xs'[p], now')
    <2>1. CASE p # o
      BY <1>0, <1>1, <2>1
    <2>2. CASE p = o
      <3>1. xs[o] \in XState /\ xs[o].status # "None" /\ xs[o].status = "Open"
        BY <1>0, <1>1, <2>2 DEF Reported
      <3>2. Reported(m, x, now)
        BY <1>0, <1>1, <2>2, <3>1, ReportedStays DEF ClockAllows, Terminal, Viable
      <3> QED
        BY <1>0, <2>2, <3>2
    <2> QED
      BY <2>1, <2>2
  <1>2. Reported([order |-> o, status |-> s, time |-> now], xs'[o], now')
    BY <1>0, ReportedNow
  <1> HIDE DEF x
  <1>3. ASSUME NEW i \in DOMAIN wire'
        PROVE  Reported(wire'[i], xs'[wire'[i].order], now')
    <2>1. CASE i \in DOMAIN wire /\ wire'[i] = wire[i]
      <3>1. wire[i] \in Message
        BY <1>0, <2>1
      <3>2. wire[i].order \in Orders /\ Reported(wire[i], xs[wire[i].order], now)
        BY <2>1, <3>1 DEF ExchangeInv, Message
      <3> QED
        BY <1>1, <2>1, <3>2
    <2>2. CASE wire'[i] = [order |-> o, status |-> s, time |-> now]
      BY <1>2, <2>2
    <2>3. CASE wire' = wire
      BY <1>3, <2>1, <2>3
    <2>4. CASE wire' = Append(wire, [order |-> o, status |-> s, time |-> now])
      <3>1. \/ i \in DOMAIN wire /\ wire'[i] = wire[i]
            \/ wire'[i] = [order |-> o, status |-> s, time |-> now]
        BY <1>0, <1>3, <2>4
      <3> QED
        BY <2>1, <2>2, <3>1
    <2> QED
      BY <2>3, <2>4 DEF Notify
  <1>4. \A h \in Handlers :
          pc'[h] # "idle" => target'[h] \in Orders /\ Reported(msg'[h], xs'[target'[h]], now')
    BY <1>0, <1>1 DEF ExchangeInv
  <1>5. \A p \in Orders :
          /\ xs'[p].time \in 0..now'
          /\ rpc'[p] # "none" \/ xs'[p].status # "None" => row'[p].version >= 0
          /\ pc'[p] = "start" => xs'[p].status = "None"
    BY <1>0 DEF ExchangeInv, x
  <1>6. \A t \in Orders \cup Cancelers :
          /\ pc'[t] = "start" => rpc'[t] = "none"
          /\ rpc'[t] \in Terminal => xs'[target'[t]].status \in Terminal
    <2>1. xs[o].status \notin Terminal
      BY DEF Terminal, Status, Viable
    <2> QED
      BY <1>0, <2>1 DEF ExchangeInv
  <1> QED
    BY <1>3, <1>4, <1>5, <1>6 DEF ExchangeInv

LEMMA ReplyExchangeInv ==
  ASSUME TypeInv, ExchangeInv, NEW t \in Orders \cup Cancelers, ExchangeReply(t) \/ RpcError(t)
  PROVE  ExchangeInv'
  <1>0. /\ rpc \in [Orders \cup Cancelers -> ExchangeStatus \cup {"none", "sent", "error"}]
        /\ t \in Orders => target[t] = t
        /\ UNCHANGED <<row, pc, target, msg, xs, wire, now>>
        /\ rpc[t] = "sent"
    BY DEF TypeInv, TypeOK, TargetKnown, ExchangeReply, RpcError, dbVars, taskVars
  <1>1. PICK a : /\ rpc' = [rpc EXCEPT ![t] = a]
                 /\ a \in Terminal => xs[target[t]].status \in Terminal
    BY DEF ExchangeReply, RpcError, Terminal, Status
  <1>2. \A u \in Orders \cup Cancelers :
          /\ pc'[u] = "start" => rpc'[u] = "none"
          /\ rpc'[u] \in Terminal => xs'[target'[u]].status \in Terminal
    BY <1>0, <1>1 DEF ExchangeInv
  <1>3. \A o \in Orders : rpc'[o] # "none" => row'[o].version >= 0
    BY <1>0, <1>1 DEF ExchangeInv
  <1> QED
    BY <1>0, <1>2, <1>3 DEF ExchangeInv

LEMMA ExchangeExchangeInv ==
  ASSUME TypeInv, ExchangeInv, ExchangeStep
  PROVE  ExchangeInv'
  <1>0. /\ target \in [Tasks -> Orders \cup {None}]
        /\ \A o \in Orders : target[o] = o
        /\ \A c \in Cancelers : rpc[c] # "none" => target[c] \in Orders
        /\ \A o \in Orders :
             /\ xs[o].status # "None" => row[o].version >= 0 /\ pc[o] # "start"
             /\ rpc[o] = "sent" => row[o].version >= 0 /\ pc[o] # "start"
    BY DEF TypeInv, TypeOK, TargetKnown, ExchangeInv
  <1>1. ASSUME NEW o \in Orders, ExchangeAccept(o) \/ ExchangeReject(o) \/ ExchangeProgress(o)
        PROVE  ExchangeInv'
    <2>1. PICK s \in ExchangeStatus : SetExchange(o, s) /\ (wire' = wire \/ Notify(o, s))
      BY <1>1 DEF ExchangeAccept, ExchangeReject, ExchangeProgress, ExchangeStatus
    <2>2. /\ UNCHANGED <<dbVars, taskVars, rpc, received, now>>
          /\ \/ xs[o].status = "None" /\ rpc[o] = "sent"
             \/ xs[o].status = "Open" /\ ClockAllows(o)
      BY <1>1 DEF ExchangeAccept, ExchangeReject, ExchangeProgress
    <2> QED
      BY <1>0, <2>1, <2>2, ProgressExchangeInv
  <1>2. ASSUME NEW c \in Cancelers, ExchangeCancel(c)
        PROVE  ExchangeInv'
    <2> DEFINE o == target[c]
    <2>1. o \in Orders /\ "Canceled" \in ExchangeStatus
      BY <1>0, <1>2 DEF ExchangeCancel, ExchangeStatus
    <2>2. /\ SetExchange(o, "Canceled") /\ Notify(o, "Canceled")
          /\ UNCHANGED <<dbVars, taskVars, rpc, received, now>>
          /\ xs[o].status = "Open" /\ ClockAllows(o)
      BY <1>2 DEF ExchangeCancel
    <2> HIDE DEF o
    <2> QED
      BY <1>0, <2>1, <2>2, ProgressExchangeInv
  <1> QED
    BY <1>1, <1>2, ReplyExchangeInv DEF ExchangeStep

LEMMA ClockExchangeInv ==
  ASSUME TypeInv, ExchangeInv, Tick \/ Disconnect \/ Finished \/ UNCHANGED vars
  PROVE  ExchangeInv'
  <1>1. CASE Tick
    <2>1. /\ now \in Nat /\ now' = now + 1
          /\ UNCHANGED <<row, pc, target, msg, rpc, xs, wire>>
      BY <1>1, ConstantsAssumption DEF Tick, TypeInv, TypeOK, dbVars, taskVars
    <2>2. \A n \in 0..now : n \in 0..now'
      BY <2>1
    <2>3. \A m : \A x : Reported(m, x, now) => Reported(m, x, now')
      BY <2>2 DEF Reported
    <2> QED
      BY <2>1, <2>2, <2>3 DEF ExchangeInv
  <1>2. CASE Disconnect \/ Finished \/ UNCHANGED vars
    BY <1>2, BrokerExchangeInv DEF Disconnect, Finished, vars, dbVars, taskVars, xVars
  <1> QED
    BY <1>1, <1>2

LEMMA NextExchangeInv == TypeInv /\ DbInv /\ ExchangeInv /\ [Next]_vars => ExchangeInv'
  <1> SUFFICES ASSUME TypeInv, DbInv, ExchangeInv, [Next]_vars PROVE ExchangeInv'
    OBVIOUS
  <1>1. \A o \in Orders : row[o].version >= 0 => row'[o].version >= 0
    BY RowStays
  <1> QED
    BY <1>1, SubmitExchangeInv, CancelExchangeInv, HandlerExchangeInv, FaultExchangeInv,
       CrashExchangeInv, ReceiveExchangeInv, ExchangeExchangeInv, ClockExchangeInv DEF Next

(* What the broker hears of an order is true, and the exchange hears of an order *)
(* only when it is in the tables (submit_order commits before it calls).         *)
THEOREM ExchangeInvariant == Spec => []ExchangeInv
  BY InitExchangeInv, NextExchangeInv, TypeCorrect, DbInvariant, PTL DEF Spec

--------------------------------------------------------------------------------
(* What the tables and the tasks hold *)

Updating == {"markUpdate", "rejectUpdate", "replyUpdate", "asyncUpdate"}

\* The order has ended at the exchange, at time t or before.
Ended(o, t) == xs[o].status \in Terminal /\ (Skew >= 0 => t >= xs[o].time)

\* submit_order has rejected the order, or given up on it.
NeverSent(o) ==
  /\ xs[o].status = "None" /\ rpc[o] = "none"
  /\ pc[o] = "done" \/ (pc[o] = "publishNew" /\ mem[o].status # "Pending")

\* A status, at a time that has come.
Dated(s) == s.status \in Status /\ s.time \in Times /\ (Skew >= 0 => s.time <= BrokerTime)

RowOk(o) ==
  /\ row[o].version >= 0 => Dated(row[o])
  /\ row[o].status \in Terminal => Ended(o, row[o].time) \/ NeverSent(o)

\* State s may be written over state e.
Follow(e, s) ==
  /\ s.status # "Pending"
  /\ s.status = "PendingCancel" => e.status \in Viable
  /\ Skew >= 0 => /\ s.time >= e.time
                  /\ e.status \notin Viable /\ s.status \in Viable
                       => s.time = e.time /\ ~DistinctTimes

\* Where a task waits for the exchange, before an update that takes the order to be
\* viable still.
Expects(t) ==
  \/ pc[t] \in {"submit", "submitReply", "publishMark", "cancel", "cancelReply"}
  \/ pc[t] = "publishNew" /\ mem[t].status = "Pending"

\* What task t takes row r to be is so if the version is the one it knows; what it
\* is about to write, s, may follow that, and an end is the one at the exchange.
TaskOk(t) ==
  LET r == row[target[t]]
      s == mem[t] IN
  /\ Expects(t) => s.version <= r.version /\ (s.version = r.version => r.status \in Viable)
  /\ pc[t] \in Updating => s.version <= r.version /\ (s.version = r.version => Follow(r, s))
  /\ pc[t] \in Committing => Follow(r, s)
  /\ pc[t] \in Updating \cup Committing =>
       /\ Dated(s)
       /\ s.status \in Terminal => Ended(target[t], s.time)
  /\ pc[t] \in {"markUpdate", "markCommit"} => s.status \in Viable

LogInv == (\A o \in Orders : RowOk(o)) /\ (\A t \in Tasks : TaskOk(t))

LEMMA InitLogInv == Init => LogInv
  <1> SUFFICES ASSUME Init PROVE LogInv
    OBVIOUS
  <1>1. /\ \A o \in Orders : row[o] = NoState
        /\ \A t \in Tasks : pc[t] \in {"idle", "start"}
    BY DEF Init
  <1>2. \A o \in Orders : RowOk(o)
    BY <1>1 DEF RowOk, NoState, Terminal, Status
  <1>3. \A t \in Tasks : TaskOk(t)
    BY <1>1 DEF TaskOk, Expects, Updating, Committing
  <1> QED
    BY <1>2, <1>3 DEF LogInv

\* Time goes on, and the exchange never takes back an end.
Later ==
  /\ now \in Nat /\ now' \in Nat /\ now' >= now
  /\ \A o \in Orders : xs[o].status \in Terminal => xs'[o] = xs[o]

LEMMA DatedLater ==
  ASSUME Later, NEW s, s.time \in Int, Dated(s)
  PROVE  s.status \in Status /\ s.time \in Times /\ (Skew >= 0 => s.time <= BrokerTime')
  BY ConstantsAssumption DEF Later, Dated, BrokerTime

\* A task that does not move, while others write rows and the exchange goes on.
LEMMA OtherTask ==
  ASSUME TypeInv, LogInv, Later, NEW t \in Tasks,
         pc'[t] = pc[t], mem'[t] = mem[t], target'[t] = target[t],
         \/ row'[target[t]] = row[target[t]]
         \/ /\ row'[target[t]].version > row[target[t]].version
            /\ row'[target[t]].version \in Int /\ row[target[t]].version \in Int
            /\ pc[t] \notin Committing
  PROVE  TaskOk(t)'
  <1>1. TaskOk(t) /\ mem[t] \in State
    BY DEF LogInv, TypeInv, TypeOK
  <1>2. mem[t].version \in Int /\ mem[t].time \in Int
    BY <1>1 DEF State
  <1>3. Expects(t)' <=> Expects(t)
    BY DEF Expects
  <1>4. pc[t] \in Updating \cup Committing => target[t] \in Orders
    BY DEF TypeInv, TargetKnown, Updating, Committing
  <1>5. pc[t] \in Updating \cup Committing =>
          /\ Dated(mem[t])'
          /\ mem[t].status \in Terminal => Ended(target[t], mem[t].time)'
    BY <1>1, <1>2, <1>4, DatedLater DEF TaskOk, Dated, Ended, Later
  <1>6. CASE row'[target[t]] = row[target[t]]
    BY <1>1, <1>3, <1>5, <1>6 DEF TaskOk, Follow
  <1>7. CASE /\ row'[target[t]].version > row[target[t]].version
             /\ row'[target[t]].version \in Int /\ row[target[t]].version \in Int
             /\ pc[t] \notin Committing
    BY <1>1, <1>2, <1>3, <1>5, <1>7 DEF TaskOk
  <1> QED
    BY <1>6, <1>7

--------------------------------------------------------------------------------
(* Rows, and tasks that do not move *)

LEMMA NextIsLater == TypeInv /\ [Next]_vars => Later
  <1> SUFFICES ASSUME TypeInv, [Next]_vars PROVE Later
    OBVIOUS
  <1>0. now \in Nat /\ xs \in [Orders -> XState]
    BY ConstantsAssumption DEF TypeInv, TypeOK
  <1>1. CASE now' = now /\ xs' = xs
    BY <1>0, <1>1 DEF Later
  <1>2. CASE Tick
    BY <1>0, <1>2 DEF Tick, Later
  <1>3. CASE ExchangeStep
    <2>1. "None" \notin Terminal /\ "Open" \notin Terminal
      BY DEF Terminal, Status, Viable
    <2> QED
      BY <1>0, <1>3, <2>1
         DEF ExchangeStep, ExchangeAccept, ExchangeReject, ExchangeProgress, ExchangeCancel,
             ExchangeReply, RpcError, SetExchange, Later
  <1>4. ASSUME NEW o \in Orders, SubmitStep(o) PROVE now' = now /\ xs' = xs
    BY <1>4 DEF SubmitStep, SubmitSave, SubmitPublishNew, SubmitCall, SubmitReply, RejectUpdate,
                RejectCommit, RejectPublish, UnchangedByTask
  <1>5. ASSUME NEW c \in Cancelers, CancelStep(c) PROVE now' = now /\ xs' = xs
    BY <1>5 DEF CancelStep, CancelRead, CancelUpdate, CancelCommit, CancelPublish, CancelCall,
                CancelReply, ReplyUpdate, ReplyCommit, ReplyPublish, UnchangedByTask, xVars
  <1>6. ASSUME NEW h \in Handlers, HandlerStep(h) PROVE now' = now /\ xs' = xs
    BY <1>6 DEF HandlerStep, AsyncRead, AsyncUpdate, AsyncCommit, AsyncPublish, AsyncReturn,
                AsyncRetry, UnchangedByTask, xVars
  <1> QED
    BY <1>1, <1>2, <1>3, <1>4, <1>5, <1>6
       DEF Next, Fault, LostCommitAnswer, Crash, ReceiveMessage, Disconnect, Finished, vars, xVars

\* An order that was rejected at once is never sent.
LEMMA NeverSentStays ==
  ASSUME TypeInv, [Next]_vars, NEW o \in Orders, NeverSent(o)
  PROVE  NeverSent(o)'
  <1>0. /\ pc \in [Tasks -> PCs] /\ mem \in [Tasks -> State] /\ xs \in [Orders -> XState]
        /\ rpc \in [Orders \cup Cancelers -> ExchangeStatus \cup {"none", "sent", "error"}]
        /\ o \in Tasks /\ o \notin Cancelers /\ o \notin Handlers
        /\ pc[o] \in {"done", "publishNew"} /\ xs[o].status = "None" /\ rpc[o] = "none"
    BY TasksAssumption DEF TypeInv, TypeOK, Tasks, NeverSent
  <1>1. CASE SubmitStep(o)
    <2>1. SubmitPublishNew(o)
      BY <1>0, <1>1 DEF SubmitStep, SubmitSave, SubmitPublishNew, SubmitCall, SubmitReply,
                        RejectUpdate, RejectCommit, RejectPublish
    <2>2. pc'[o] = "done" /\ xs' = xs /\ rpc' = rpc
      BY <1>0, <2>1 DEF SubmitPublishNew, SendOrderState, NeverSent, UnchangedByTask
    <2> QED
      BY <1>0, <2>2 DEF NeverSent
  <1>2. CASE xs'[o] = xs[o] /\ rpc'[o] = rpc[o] /\ pc'[o] = pc[o] /\ mem'[o] = mem[o]
    BY <1>2 DEF NeverSent
  <1>3. CASE Crash
    BY <1>0, <1>3 DEF Crash, NeverSent
  <1>4. ASSUME NEW p \in Orders, p # o, SubmitStep(p)
        PROVE  xs'[o] = xs[o] /\ rpc'[o] = rpc[o] /\ pc'[o] = pc[o] /\ mem'[o] = mem[o]
    BY <1>0, <1>4
       DEF SubmitStep, SubmitSave, SubmitPublishNew, SubmitCall, SubmitReply, RejectUpdate,
           RejectCommit, RejectPublish, UnchangedByTask, UpdateOrder, CommitOrder, SendOrderState
  <1>5. ASSUME NEW c \in Cancelers, CancelStep(c)
        PROVE  xs'[o] = xs[o] /\ rpc'[o] = rpc[o] /\ pc'[o] = pc[o] /\ mem'[o] = mem[o]
    BY <1>0, <1>5
       DEF CancelStep, CancelRead, CancelUpdate, CancelCommit, CancelPublish, CancelCall,
           CancelReply, ReplyUpdate, ReplyCommit, ReplyPublish, UnchangedByTask, xVars,
           UpdateOrder, CommitOrder, SendOrderState
  <1>6. ASSUME NEW h \in Handlers, HandlerStep(h)
        PROVE  xs'[o] = xs[o] /\ rpc'[o] = rpc[o] /\ pc'[o] = pc[o] /\ mem'[o] = mem[o]
    BY <1>0, <1>6
       DEF HandlerStep, AsyncRead, AsyncUpdate, AsyncCommit, AsyncPublish, AsyncReturn,
           AsyncRetry, UnchangedByTask, xVars, UpdateOrder, CommitOrder, SendOrderState
  <1>7. ASSUME NEW t \in Tasks, Fault(t) \/ LostCommitAnswer(t)
        PROVE  xs'[o] = xs[o] /\ rpc'[o] = rpc[o] /\ pc'[o] = pc[o] /\ mem'[o] = mem[o]
    BY <1>0, <1>7 DEF Fault, LostCommitAnswer, CommitOrder, Committing, Faultable, xVars
  <1>8. CASE ExchangeStep
    <2>1. ASSUME NEW c \in Cancelers, ExchangeCancel(c) PROVE xs'[o] = xs[o]
      BY <1>0, <2>1 DEF ExchangeCancel, SetExchange
    <2>2. xs'[o] = xs[o] /\ rpc'[o] = rpc[o]
      BY <1>0, <1>8, <2>1
         DEF ExchangeStep, ExchangeAccept, ExchangeReject, ExchangeProgress, ExchangeCancel,
             ExchangeReply, RpcError, SetExchange
    <2>3. pc' = pc /\ mem' = mem
      BY <1>8 DEF ExchangeStep, ExchangeAccept, ExchangeReject, ExchangeProgress, ExchangeCancel,
                  ExchangeReply, RpcError, taskVars
    <2> QED
      BY <2>2, <2>3, <1>2
  <1>9. CASE Disconnect \/ Tick \/ Finished \/ UNCHANGED vars
    BY <1>2, <1>9 DEF Disconnect, Tick, Finished, vars, taskVars, xVars
  <1>10. CASE ReceiveMessage
    BY <1>0, <1>2, <1>10, NewHandler DEF ReceiveMessage
  <1> QED
    BY <1>1, <1>2, <1>3, <1>4, <1>5, <1>6, <1>7, <1>8, <1>9, <1>10 DEF Next

\* What is written to a row is what its writer was about to write.
LEMMA RowsLogInv ==
  ASSUME TypeInv, DbInv, ExchangeInv, LogInv, [Next]_vars, NEW o \in Orders
  PROVE  RowOk(o)'
  <1>0. /\ Later /\ RowOk(o) /\ xs \in [Orders -> XState]
        /\ row \in [Orders -> State] /\ row[o] \in State /\ row[o].time \in Int
        /\ mem \in [Tasks -> State] /\ pc \in [Tasks -> PCs] /\ o \in Tasks
    BY NextIsLater DEF LogInv, TypeInv, TypeOK, State, Tasks
  <1>1. CASE row'[o] = row[o]
    <2>1. row[o].version >= 0 => Dated(row[o])'
      BY <1>0, <1>1, DatedLater DEF RowOk, Dated
    <2>2. Ended(o, row[o].time) => Ended(o, row[o].time)'
      BY <1>0, <1>1 DEF Ended, Later
    <2> QED
      BY <1>0, <1>1, <2>1, <2>2, NeverSentStays DEF RowOk
  <1>2. CASE SubmitSave(o)
    <2>1. PICK s \in {<<"Pending", "none">>, <<"Rejected", "inactive">>, <<"Rejected", "expired">>} :
            /\ row' = [row EXCEPT ![o] = Record(s[1], BrokerTime, 0, s[2])]
            /\ mem' = [mem EXCEPT ![o] = Record(s[1], BrokerTime, 0, s[2])]
      BY <1>2 DEF SubmitSave, SaveOrder
    <2>2. /\ row'[o].status \in {"Pending", "Rejected"} /\ row'[o].time = BrokerTime
          /\ mem'[o] = row'[o]
      BY <1>0, <2>1 DEF Record
    <2>3. /\ pc'[o] = "publishNew" /\ UNCHANGED <<xs, rpc, now>>
          /\ xs[o].status = "None" /\ rpc[o] = "none"
      BY <1>0, <1>2 DEF SubmitSave, UnchangedByTask, ExchangeInv
    <2>4. BrokerTime \in Times /\ BrokerTime' = BrokerTime
      BY <2>3, ConstantsAssumption DEF TypeInv, TypeOK, BrokerTime, Times
    <2>5. Dated(row[o])' /\ (row'[o].status \in Terminal => NeverSent(o)')
      BY <2>2, <2>3, <2>4, ConstantsAssumption
         DEF Dated, NeverSent, Status, Terminal, Viable, BrokerTime, TypeInv, TypeOK
    <2> QED
      BY <2>5 DEF RowOk
  <1>3. ASSUME NEW t \in Tasks, pc[t] \in Committing, target[t] = o, row'[o] = mem[t]
        PROVE  RowOk(o)'
    <2>1. /\ Dated(mem[t]) /\ mem[t].time \in Int
          /\ mem[t].status \in Terminal => Ended(o, mem[t].time)
      BY <1>0, <1>3 DEF LogInv, TaskOk, State
    <2> QED
      BY <1>0, <1>3, <2>1, DatedLater DEF RowOk, Dated, Ended, Later
  <1> QED
    BY <1>1, <1>2, <1>3, WhoWrites

\* A task that does not move: no other task writes a row it has locked.
LEMMA UnmovedTask ==
  ASSUME TypeInv, DbInv, DbInv', LogInv, [Next]_vars, NEW t \in Tasks,
         pc'[t] = pc[t], mem'[t] = mem[t], target'[t] = target[t]
  PROVE  TaskOk(t)'
  <1>1. CASE pc[t] \in {"idle", "start", "done"}
    BY <1>1 DEF TaskOk, Expects, Updating, Committing
  <1>2. CASE pc[t] \notin {"idle", "start", "done"}
    <2>1. target[t] \in Orders /\ Later
      BY <1>2, NextIsLater DEF TypeInv, TargetKnown
    <2>2. CASE row'[target[t]] = row[target[t]]
      BY <2>1, <2>2, OtherTask
    <2>3. CASE row'[target[t]] # row[target[t]]
      <3>1. /\ row'[target[t]].version = row[target[t]].version + 1
            /\ row[target[t]].version \in Int
        BY <2>1, <2>3, RowGrows, RowStays
      <3>2. ASSUME pc[t] \in Committing PROVE FALSE
        <4>1. /\ mem[t].version = row[target[t]].version + 1
              /\ mem[t].version = row'[target[t]].version + 1
          BY <3>2 DEF DbInv, LockedIsNextVersion
        <4> QED
          BY <3>1, <4>1
      <3> QED
        BY <2>1, <3>1, <3>2, OtherTask
    <2> QED
      BY <2>2, <2>3
  <1> QED
    BY <1>1, <1>2

\* Where a task neither expects anything nor is about to write.
Careless == PCs \ (Updating \cup Committing \cup
  {"submit", "submitReply", "publishMark", "cancel", "cancelReply", "publishNew"})

LEMMA CarelessTask ==
  ASSUME NEW t \in Tasks, pc'[t] \in Careless
  PROVE  TaskOk(t)'
  BY DEF Careless, TaskOk, Expects, Updating, Committing

\* One task moves.
LEMMA OneTask ==
  ASSUME TypeInv, DbInv, DbInv', LogInv, [Next]_vars, NEW t \in Tasks, NEW a,
         pc' = [pc EXCEPT ![t] = a],
         \A u \in Tasks \ {t} : mem'[u] = mem[u] /\ target'[u] = target[u],
         TaskOk(t)'
  PROVE  \A u \in Tasks : TaskOk(u)'
  <1>1. ASSUME NEW u \in Tasks, u # t PROVE TaskOk(u)'
    <2>1. pc'[u] = pc[u]
      BY <1>1 DEF TypeInv, TypeOK
    <2> QED
      BY <1>1, <2>1, UnmovedTask
  <1> QED
    BY <1>1

\* An UPDATE that finds the version it expects may write what it has prepared.
LEMMA UpdateTask ==
  ASSUME TypeInv, DbInv, DbInv', LogInv, [Next]_vars, NEW t \in Tasks,
         NEW a \in Committing, NEW b \in Careless,
         pc[t] \in Updating, target[t] \in Orders,
         UNCHANGED <<target, xs, now>>, UpdateOrder(t, a, b),
         a = "markCommit" => pc[t] = "markUpdate"
  PROVE  \A u \in Tasks : TaskOk(u)'
  <1>0. /\ TaskOk(t) /\ mem \in [Tasks -> State] /\ pc \in [Tasks -> PCs]
        /\ mem[t] \in State /\ row' = row
    BY DEF LogInv, TypeInv, TypeOK, UpdateOrder
  <1>1. CASE /\ VersionMatches(t)
             /\ mem' = [mem EXCEPT ![t] = NextVersion(@)]
             /\ pc' = [pc EXCEPT ![t] = a]
    <2>1. /\ mem'[t].status = mem[t].status /\ mem'[t].time = mem[t].time
          /\ pc'[t] = a /\ pc'[t] \notin Updating
      BY <1>0, <1>1 DEF NextVersion, State, Committing, Updating
    <2>2. /\ Follow(row[target[t]], mem[t]) /\ Dated(mem[t])
          /\ mem[t].status \in Terminal => Ended(target[t], mem[t].time)
          /\ a = "markCommit" => mem[t].status \in Viable
      BY <1>0, <1>1 DEF VersionMatches, TaskOk
    <2>3. ~Expects(t)' /\ pc'[t] # "markUpdate"
      BY <2>1 DEF Expects, Committing
    <2>4. TaskOk(t)'
      BY <1>0, <2>1, <2>2, <2>3 DEF TaskOk, Follow, Dated, Ended, BrokerTime
    <2>5. \A u \in Tasks \ {t} : mem'[u] = mem[u] /\ target'[u] = target[u]
      BY <1>0, <1>1
    <2> QED
      BY <1>1, <2>4, <2>5, OneTask
  <1>2. CASE /\ mem' = [mem EXCEPT ![t].reason = StoredReason(mem[t])]
             /\ pc' = [pc EXCEPT ![t] = b]
    <2>1. pc'[t] = b
      BY <1>0, <1>2
    <2>2. TaskOk(t)'
      BY <2>1, CarelessTask
    <2>3. \A u \in Tasks \ {t} : mem'[u] = mem[u] /\ target'[u] = target[u]
      BY <1>0, <1>2
    <2> QED
      BY <1>2, <2>2, <2>3, OneTask
  <1> QED
    BY <1>1, <1>2 DEF UpdateOrder

\* A task goes where nothing is expected of it.
LEMMA CarelessStep ==
  ASSUME TypeInv, DbInv, DbInv', LogInv, [Next]_vars, NEW t \in Tasks, NEW a \in Careless,
         pc' = [pc EXCEPT ![t] = a],
         \A u \in Tasks \ {t} : mem'[u] = mem[u] /\ target'[u] = target[u]
  PROVE  \A u \in Tasks : TaskOk(u)'
  <1>1. pc'[t] = a
    BY DEF TypeInv, TypeOK
  <1> QED
    BY <1>1, CarelessTask, OneTask

--------------------------------------------------------------------------------
(* submit_order *)

LEMMA SubmitTask ==
  ASSUME TypeInv, DbInv, DbInv', ExchangeInv, LogInv, [Next]_vars, NEW o \in Orders, SubmitStep(o)
  PROVE  \A u \in Tasks : TaskOk(u)'
  <1>0. /\ o \in Tasks /\ target[o] = o /\ TaskOk(o) /\ RowOk(o)
        /\ mem \in [Tasks -> State] /\ pc \in [Tasks -> PCs]
        /\ row \in [Orders -> State] /\ xs[o].time \in 0..now /\ now \in 0..MaxTime
        /\ UNCHANGED <<target, xs, now>>
    BY DEF Tasks, TypeInv, TypeOK, TargetKnown, LogInv, ExchangeInv, SubmitStep, SubmitSave,
           SubmitPublishNew, SubmitCall, SubmitReply, RejectUpdate, RejectCommit, RejectPublish,
           UnchangedByTask
  <1>1. CASE SubmitSave(o)
    <2>1. PICK s \in {<<"Pending", "none">>, <<"Rejected", "inactive">>, <<"Rejected", "expired">>} :
            /\ row' = [row EXCEPT ![o] = Record(s[1], BrokerTime, 0, s[2])]
            /\ mem' = [mem EXCEPT ![o] = Record(s[1], BrokerTime, 0, s[2])]
      BY <1>1 DEF SubmitSave, SaveOrder
    <2>2. /\ pc' = [pc EXCEPT ![o] = "publishNew"] /\ pc'[o] = "publishNew"
          /\ mem'[o] = row'[o] /\ row'[o].version = 0
          /\ \A u \in Tasks \ {o} : mem'[u] = mem[u] /\ target'[u] = target[u]
      BY <1>0, <1>1, <2>1 DEF SubmitSave, Record
    <2>3. TaskOk(o)'
      BY <1>0, <2>2 DEF TaskOk, Expects, Updating, Committing, Viable
    <2> QED
      BY <1>0, <2>2, <2>3, OneTask
  <1>2. CASE SubmitPublishNew(o) \/ SubmitCall(o)
    <2>1. /\ mem' = mem /\ row' = row
          /\ \/ pc' = [pc EXCEPT ![o] = "done"]
             \/ Expects(o) /\ pc' = [pc EXCEPT ![o] = "submit"]
             \/ Expects(o) /\ pc' = [pc EXCEPT ![o] = "submitReply"]
      BY <1>2 DEF SubmitPublishNew, SubmitCall, SendOrderState, dbVars, Expects
    <2>2. CASE pc' = [pc EXCEPT ![o] = "done"]
      BY <1>0, <2>1, <2>2, CarelessStep DEF Careless, PCs, Updating, Committing
    <2>3. ASSUME NEW a \in {"submit", "submitReply"}, Expects(o), pc' = [pc EXCEPT ![o] = a]
          PROVE  \A u \in Tasks : TaskOk(u)'
      <3>1. pc'[o] = a
        BY <1>0, <2>3
      <3>2. TaskOk(o)'
        BY <1>0, <2>1, <2>3, <3>1 DEF TaskOk, Expects, Updating, Committing
      <3> QED
        BY <1>0, <2>1, <2>3, <3>2, OneTask
    <2> QED
      BY <2>1, <2>2, <2>3
  <1>3. CASE SubmitReply(o) /\ rpc[o] = "Rejected"
    <2>1. /\ mem' = [mem EXCEPT ![o] = Record("Rejected", BrokerTime, mem[o].version, "exchange")]
          /\ pc' = [pc EXCEPT ![o] = "rejectUpdate"] /\ row' = row
      BY <1>3 DEF SubmitReply, dbVars
    <2>2. /\ mem'[o].status = "Rejected" /\ mem'[o].time = BrokerTime
          /\ mem'[o].version = mem[o].version /\ pc'[o] = "rejectUpdate"
      BY <1>0, <2>1 DEF Record
    <2>3. xs[o].status \in Terminal
      BY <1>0, <1>3 DEF ExchangeInv, Terminal, Status, Viable
    <2>4. /\ mem[o].version <= row[o].version
          /\ mem[o].version = row[o].version => row[o].status \in Viable
          /\ row[o].version >= 0
      BY <1>0, <1>3
         DEF SubmitReply, TaskOk, Expects, TypeInv, TargetKnown, DbInv, RowsAreSaved, SavedPlaces
    <2>5. mem[o].version = row[o].version => Follow(row[o], mem'[o])
      BY <1>0, <2>2, <2>4 DEF Follow, RowOk, Dated, Viable
    <2>6. BrokerTime \in Times /\ (Skew >= 0 => BrokerTime >= xs[o].time) /\ BrokerTime' = BrokerTime
      BY <1>0, ConstantsAssumption DEF BrokerTime, Times
    <2>7. TaskOk(o)'
      BY <1>0, <2>1, <2>2, <2>3, <2>4, <2>5, <2>6, ConstantsAssumption
         DEF TaskOk, Expects, Updating, Committing, Dated, Ended, Status, Follow, BrokerTime
    <2> QED
      BY <1>0, <2>1, <2>7, OneTask
  <1>4. CASE SubmitReply(o) /\ rpc[o] # "Rejected"
    <2>1. pc' = [pc EXCEPT ![o] = "done"] /\ mem' = mem
      BY <1>4 DEF SubmitReply
    <2> QED
      BY <1>0, <2>1, CarelessStep DEF Careless, PCs, Updating, Committing
  <1>5. CASE RejectUpdate(o)
    <2>1. UpdateOrder(o, "rejectCommit", "done") /\ pc[o] = "rejectUpdate"
      BY <1>5 DEF RejectUpdate
    <2>2. "rejectCommit" \in Committing /\ "done" \in Careless /\ "rejectUpdate" \in Updating
      BY DEF Careless, PCs, Updating, Committing
    <2> QED
      BY <1>0, <2>1, <2>2, UpdateTask
  <1>6. CASE RejectCommit(o) \/ RejectPublish(o)
    <2>1. mem' = mem /\ \E a \in {"publishReject", "done"} : pc' = [pc EXCEPT ![o] = a]
      BY <1>6 DEF RejectCommit, RejectPublish, CommitOrder, SendOrderState
    <2> QED
      BY <1>0, <2>1, CarelessStep DEF Careless, PCs, Updating, Committing
  <1> QED
    BY <1>1, <1>2, <1>3, <1>4, <1>5, <1>6 DEF SubmitStep

--------------------------------------------------------------------------------
(* cancel_order *)

LEMMA CancelTask ==
  ASSUME TypeInv, DbInv, DbInv', ExchangeInv, LogInv, [Next]_vars, NEW c \in Cancelers, CancelStep(c)
  PROVE  \A u \in Tasks : TaskOk(u)'
  <1>0. /\ c \in Tasks /\ TaskOk(c)
        /\ mem \in [Tasks -> State] /\ pc \in [Tasks -> PCs] /\ row \in [Orders -> State]
        /\ target \in [Tasks -> Orders \cup {None}]
        /\ rpc[c] \in ExchangeStatus \cup {"none", "sent", "error"}
        /\ pc[c] \notin {"idle", "start", "done"} => target[c] \in Orders
        /\ xs' = xs /\ now' = now /\ now \in 0..MaxTime
        /\ \A p \in Orders : xs[p].time \in 0..now /\ RowOk(p)
    BY DEF Tasks, TypeInv, TypeOK, TargetKnown, LogInv, ExchangeInv, CancelStep, CancelRead,
           CancelUpdate, CancelCommit, CancelPublish, CancelCall, CancelReply, ReplyUpdate,
           ReplyCommit, ReplyPublish, UnchangedByTask, xVars
  <1>1. ASSUME NEW o \in Orders, CancelRead(c, o)
        PROVE  \A u \in Tasks : TaskOk(u)'
    <2>1. CASE ~Cancelable(row[o])
      <3>1. pc' = [pc EXCEPT ![c] = "done"] /\ mem' = mem /\ target' = [target EXCEPT ![c] = o]
        BY <1>1, <2>1 DEF CancelRead
      <3> QED
        BY <1>0, <3>1, CarelessStep DEF Careless, PCs, Updating, Committing
    <2>2. CASE Cancelable(row[o])
      <3>1. /\ pc' = [pc EXCEPT ![c] = "markUpdate"] /\ target' = [target EXCEPT ![c] = o]
            /\ mem' = [mem EXCEPT ![c] = [row[o] EXCEPT !.status = "PendingCancel"]]
            /\ row' = row
        BY <1>1, <2>2 DEF CancelRead, dbVars
      <3>2. /\ row[o] \in State /\ row[o].version \in Int /\ row[o].time \in Int
            /\ row[o].status \in Viable /\ row[o].version >= 0
        BY <1>0, <2>2 DEF State, Cancelable, DbInv, RowsAreSaved, Viable
      <3>3. /\ pc'[c] = "markUpdate" /\ target'[c] = o
            /\ mem'[c].status = "PendingCancel" /\ mem'[c].time = row[o].time
            /\ mem'[c].version = row[o].version
            /\ \A u \in Tasks \ {c} : mem'[u] = mem[u] /\ target'[u] = target[u]
        BY <1>0, <3>1, <3>2 DEF State
      <3>4. row[o].time \in Times /\ (Skew >= 0 => row[o].time <= BrokerTime) /\ BrokerTime' = BrokerTime
        BY <1>0, <3>2 DEF RowOk, Dated, BrokerTime
      <3>5. TaskOk(c)'
        BY <3>1, <3>2, <3>3, <3>4
           DEF TaskOk, Expects, Updating, Committing, Follow, Dated, Status, Terminal, Viable
      <3> QED
        BY <1>0, <3>1, <3>3, <3>5, OneTask
    <2> QED
      BY <2>1, <2>2
  <1>2. CASE CancelUpdate(c)
    <2>1. /\ UpdateOrder(c, "markCommit", "done") /\ pc[c] = "markUpdate"
          /\ target' = target
      BY <1>2 DEF CancelUpdate, UnchangedByTask
    <2>2. "markCommit" \in Committing /\ "done" \in Careless /\ "markUpdate" \in Updating
      BY DEF Careless, PCs, Updating, Committing
    <2> QED
      BY <1>0, <2>1, <2>2, UpdateTask
  <1>3. CASE CancelCommit(c)
    <2>1. /\ row' = [row EXCEPT ![target[c]] = mem[c]] /\ mem' = mem /\ target' = target
          /\ pc' = [pc EXCEPT ![c] = "publishMark"] /\ target[c] \in Orders
          /\ pc[c] = "markCommit"
      BY <1>0, <1>3 DEF CancelCommit, CommitOrder, UnchangedByTask
    <2>2. /\ pc'[c] = "publishMark" /\ row'[target'[c]] = mem'[c]
          /\ mem[c].status \in Viable /\ mem[c].version \in Int
      BY <1>0, <2>1 DEF TaskOk, State
    <2>3. TaskOk(c)'
      BY <2>1, <2>2 DEF TaskOk, Expects, Updating, Committing
    <2> QED
      BY <1>0, <2>1, <2>3, OneTask
  <1>4. CASE CancelPublish(c) \/ CancelCall(c)
    <2>1. /\ mem' = mem /\ row' = row /\ target' = target
          /\ \/ pc' = [pc EXCEPT ![c] = "done"]
             \/ Expects(c) /\ pc' = [pc EXCEPT ![c] = "cancel"]
             \/ Expects(c) /\ pc' = [pc EXCEPT ![c] = "cancelReply"]
      BY <1>4 DEF CancelPublish, CancelCall, SendOrderState, dbVars, Expects, UnchangedByTask
    <2>2. CASE pc' = [pc EXCEPT ![c] = "done"]
      BY <1>0, <2>1, <2>2, CarelessStep DEF Careless, PCs, Updating, Committing
    <2>3. ASSUME NEW a \in {"cancel", "cancelReply"}, Expects(c), pc' = [pc EXCEPT ![c] = a]
          PROVE  \A u \in Tasks : TaskOk(u)'
      <3>1. pc'[c] = a
        BY <1>0, <2>3
      <3>2. TaskOk(c)'
        BY <1>0, <2>1, <2>3, <3>1 DEF TaskOk, Expects, Updating, Committing
      <3> QED
        BY <1>0, <2>1, <2>3, <3>2, OneTask
    <2> QED
      BY <2>1, <2>2, <2>3
  <1>5. CASE CancelReply(c) /\ rpc[c] # "error"
    <2>1. /\ mem' = [mem EXCEPT ![c].status = rpc[c], ![c].time = BrokerTime]
          /\ pc' = [pc EXCEPT ![c] = "replyUpdate"] /\ row' = row /\ target' = target
          /\ rpc[c] \in ExchangeStatus /\ target[c] \in Orders /\ pc[c] = "cancelReply"
      BY <1>0, <1>5 DEF CancelReply, dbVars, UnchangedByTask
    <2>2. /\ mem'[c].status = rpc[c] /\ mem'[c].time = BrokerTime
          /\ mem'[c].version = mem[c].version /\ pc'[c] = "replyUpdate"
      BY <1>0, <2>1 DEF State
    <2>3. rpc[c] \in Terminal => xs[target[c]].status \in Terminal
      BY DEF ExchangeInv
    <2>4. /\ mem[c].version <= row[target[c]].version
          /\ mem[c].version = row[target[c]].version => row[target[c]].status \in Viable
          /\ row[target[c]].version >= 0
      BY <1>0, <2>1 DEF TaskOk, Expects, DbInv, RowsAreSaved, SavedPlaces
    <2>5. rpc[c] \in Status /\ rpc[c] # "Pending" /\ rpc[c] # "PendingCancel"
      BY <2>1 DEF ExchangeStatus, Status
    <2>6. mem[c].version = row[target[c]].version => Follow(row[target[c]], mem'[c])
      BY <1>0, <2>1, <2>2, <2>4, <2>5 DEF Follow, RowOk, Dated
    <2>7. /\ BrokerTime \in Times /\ BrokerTime' = BrokerTime
          /\ Skew >= 0 => BrokerTime >= xs[target[c]].time
      BY <1>0, <2>1, ConstantsAssumption DEF BrokerTime, Times
    <2>8. TaskOk(c)'
      BY <1>0, <2>1, <2>2, <2>3, <2>4, <2>5, <2>6, <2>7, ConstantsAssumption
         DEF TaskOk, Expects, Updating, Committing, Dated, Ended, Follow, BrokerTime
    <2>9. \A u \in Tasks \ {c} : mem'[u] = mem[u] /\ target'[u] = target[u]
      BY <1>0, <2>1
    <2> QED
      BY <1>0, <2>1, <2>8, <2>9, OneTask
  <1>6. CASE CancelReply(c) /\ rpc[c] = "error"
    <2>1. pc' = [pc EXCEPT ![c] = "done"] /\ mem' = mem /\ target' = target
      BY <1>6 DEF CancelReply, UnchangedByTask
    <2> QED
      BY <1>0, <2>1, CarelessStep DEF Careless, PCs, Updating, Committing
  <1>7. CASE ReplyUpdate(c)
    <2>1. /\ UpdateOrder(c, "replyCommit", "publishReply") /\ pc[c] = "replyUpdate"
          /\ target' = target
      BY <1>7 DEF ReplyUpdate, UnchangedByTask
    <2>2. "replyCommit" \in Committing /\ "publishReply" \in Careless /\ "replyUpdate" \in Updating
      BY DEF Careless, PCs, Updating, Committing
    <2> QED
      BY <1>0, <2>1, <2>2, UpdateTask
  <1>8. CASE ReplyCommit(c) \/ ReplyPublish(c)
    <2>1. /\ mem' = mem /\ target' = target
          /\ \E a \in {"publishReply", "done"} : pc' = [pc EXCEPT ![c] = a]
      BY <1>8 DEF ReplyCommit, ReplyPublish, CommitOrder, SendOrderState, UnchangedByTask
    <2> QED
      BY <1>0, <2>1, CarelessStep DEF Careless, PCs, Updating, Committing
  <1> QED
    BY <1>1, <1>2, <1>3, <1>4, <1>5, <1>6, <1>7, <1>8 DEF CancelStep

--------------------------------------------------------------------------------
(* The asynchronous handler *)

\* A message that is not older than the row may be applied to it: an end the row
\* shows is the end at the exchange, so a live state that is reported is older, or
\* of the same time.
LEMMA MessageFollows ==
  ASSUME TypeInv, ExchangeInv, NEW o \in Orders, RowOk(o),
         NEW m, Reported(m, xs[o], now), row[o].time <= m.time
  PROVE  Follow(row[o], m)
  <1>0. /\ row[o] \in State /\ row[o].time \in Int /\ m.time \in 0..now
        /\ m.status \in ExchangeStatus /\ xs[o].time \in 0..now /\ now \in Nat
        /\ row[o].version >= 0
    BY ConstantsAssumption DEF TypeInv, TypeOK, State, Reported, ExchangeInv
  <1>1. m.status # "Pending" /\ m.status # "PendingCancel"
    BY <1>0 DEF ExchangeStatus
  <1>2. ASSUME Skew >= 0, row[o].status \notin Viable, m.status \in Viable
        PROVE  m.time = row[o].time /\ ~DistinctTimes
    <2>1. Ended(o, row[o].time)
      BY <1>0, <1>2 DEF RowOk, Dated, Terminal, NeverSent, Reported
    <2> QED
      BY <1>0, <1>2, <2>1 DEF Ended, Reported
  <1> QED
    BY <1>0, <1>1, <1>2 DEF Follow

LEMMA HandlerTask ==
  ASSUME TypeInv, DbInv, DbInv', ExchangeInv, LogInv, [Next]_vars, NEW h \in Handlers, HandlerStep(h)
  PROVE  \A u \in Tasks : TaskOk(u)'
  <1>0. /\ h \in Tasks /\ TaskOk(h)
        /\ mem \in [Tasks -> State] /\ pc \in [Tasks -> PCs] /\ row \in [Orders -> State]
        /\ pc[h] \notin {"idle", "start", "done"} => target[h] \in Orders
        /\ pc[h] # "idle"
        /\ UNCHANGED <<target, xs, now>> /\ now \in Nat
        /\ \A p \in Orders : RowOk(p)
    BY ConstantsAssumption
       DEF Tasks, TypeInv, TypeOK, TargetKnown, LogInv, HandlerStep, AsyncRead, AsyncUpdate,
           AsyncCommit, AsyncPublish, AsyncReturn, AsyncRetry, UnchangedByTask, xVars
  <1>1. CASE AsyncRead(h)
    <2> DEFINE o == target[h]
    <2>1. /\ o \in Orders /\ Reported(msg[h], xs[o], now) /\ RowOk(o)
          /\ row' = row
      BY <1>0, <1>1 DEF AsyncRead, ExchangeInv, dbVars
    <2>2. CASE mem' = mem /\ \E a \in {"failed", "release"} : pc' = [pc EXCEPT ![h] = a]
      BY <1>0, <2>2, CarelessStep DEF Careless, PCs, Updating, Committing
    <2>3. CASE /\ row[o].status # "None" /\ ~DbIsNewer(h)
               /\ mem' = [mem EXCEPT ![h] = Apply(row[o], msg[h])]
               /\ pc' = [pc EXCEPT ![h] = "asyncUpdate"]
      <3>1. /\ mem'[h].status = msg[h].status /\ mem'[h].time = msg[h].time
            /\ mem'[h].version = row[o].version /\ pc'[h] = "asyncUpdate"
        BY <1>0, <2>3 DEF Apply, Record
      <3>2. row[o].version \in Int /\ row[o].time \in Int /\ msg[h].time \in 0..now
        BY <1>0, <2>1 DEF State, Reported
      <3>3. Follow(row[o], msg[h])
        BY <2>1, <2>3, <3>2, MessageFollows DEF DbIsNewer
      <3>4. /\ msg[h].status \in Status /\ msg[h].time \in Times
            /\ Skew >= 0 => msg[h].time <= now + Skew
        <4>1. now \in 0..MaxTime /\ MaxTime \in Nat /\ Skew \in Int
          BY ConstantsAssumption DEF TypeInv, TypeOK
        <4>2. msg[h].status \in Status
          BY <2>1 DEF Reported, ExchangeStatus, Status
        <4>3. msg[h].time \in 0..now
          BY <2>1 DEF Reported
        <4>4. msg[h].time \in 0..MaxTime /\ (Skew >= 0 => msg[h].time <= now + Skew)
          BY <4>1, <4>3
        <4> QED
          BY <4>2, <4>4 DEF Times
      <3>5. msg[h].status \in Terminal => xs[o].status \in Terminal /\ msg[h].time >= xs[o].time
        BY <2>1 DEF Reported
      <3>6. TaskOk(h)'
        BY <1>0, <2>1, <3>1, <3>2, <3>3, <3>4, <3>5
           DEF TaskOk, Expects, Updating, Committing, Dated, Ended, Follow, BrokerTime
      <3>7. \A u \in Tasks \ {h} : mem'[u] = mem[u] /\ target'[u] = target[u]
        BY <1>0, <2>3
      <3> QED
        BY <1>0, <2>3, <3>6, <3>7, OneTask
    <2> QED
      BY <1>1, <2>2, <2>3 DEF AsyncRead
  <1>2. CASE AsyncUpdate(h)
    <2>1. UpdateOrder(h, "asyncCommit", "failed") /\ pc[h] = "asyncUpdate"
      BY <1>2 DEF AsyncUpdate
    <2>2. "asyncCommit" \in Committing /\ "failed" \in Careless /\ "asyncUpdate" \in Updating
      BY DEF Careless, PCs, Updating, Committing
    <2> QED
      BY <1>0, <2>1, <2>2, UpdateTask
  <1>3. CASE AsyncCommit(h) \/ AsyncPublish(h) \/ AsyncReturn(h) \/ AsyncRetry(h)
    <2>1. mem' = mem /\ \E a \in {"publishAsync", "release", "done", "sleep", "locking"} :
                          pc' = [pc EXCEPT ![h] = a]
      BY <1>3 DEF AsyncCommit, AsyncPublish, AsyncReturn, AsyncRetry, CommitOrder, SendOrderState
    <2> QED
      BY <1>0, <2>1, CarelessStep DEF Careless, PCs, Updating, Committing
  <1> QED
    BY <1>1, <1>2, <1>3 DEF HandlerStep

--------------------------------------------------------------------------------
(* Everything else *)

LEMMA AfterError ==
  ASSUME NEW at \in Faultable
  PROVE  AfterFault(at) \in {"done", "publishReply", "failed"}
  <1>1. CASE at \in {"start", "markUpdate", "markCommit", "rejectUpdate", "rejectCommit"}
    BY <1>1 DEF AfterFault
  <1>2. CASE at \in {"replyUpdate", "replyCommit"}
    BY <1>2 DEF AfterFault
  <1>3. CASE at \in {"locking", "asyncUpdate", "asyncCommit", "publishAsync"}
    BY <1>3 DEF AfterFault
  <1> QED
    BY <1>1, <1>2, <1>3 DEF Faultable, Committing

LEMMA NextLogInv == TypeInv /\ DbInv /\ DbInv' /\ ExchangeInv /\ LogInv /\ [Next]_vars => LogInv'
  <1> SUFFICES ASSUME TypeInv, DbInv, DbInv', ExchangeInv, LogInv, [Next]_vars
               PROVE  \A u \in Tasks : TaskOk(u)'
    BY RowsLogInv DEF LogInv
  <1>1. ASSUME NEW t \in Tasks, Fault(t) \/ LostCommitAnswer(t)
        PROVE  \A u \in Tasks : TaskOk(u)'
    <2>1. /\ pc' = [pc EXCEPT ![t] = AfterFault(pc[t])] /\ mem' = mem /\ target' = target
          /\ pc[t] \in Faultable
      BY <1>1 DEF Fault, LostCommitAnswer, CommitOrder, Committing, Faultable
    <2>2. AfterFault(pc[t]) \in {"done", "publishReply", "failed"}
      BY <2>1, AfterError
    <2>3. AfterFault(pc[t]) \in Careless
      BY <2>2 DEF Careless, PCs, Updating, Committing
    <2> QED
      BY <2>1, <2>3, CarelessStep
  <1>2. CASE Crash
    <2>1. \A u \in Tasks : pc'[u] \in {"start", "idle", "done"}
      BY <1>2 DEF Crash
    <2> QED
      BY <2>1, CarelessTask DEF Careless, PCs, Updating, Committing
  <1>3. CASE ReceiveMessage
    <2> DEFINE h == received + 1
    <2>1. h \in Tasks
      BY <1>3, NewHandler DEF Tasks
    <2>2. /\ pc' = [pc EXCEPT ![h] = "locking"] /\ mem' = mem
          /\ target' = [target EXCEPT ![h] = Head(wire).order]
          /\ target \in [Tasks -> Orders \cup {None}]
      BY <1>3 DEF ReceiveMessage, TypeInv, TypeOK
    <2> HIDE DEF h
    <2>3. \A u \in Tasks \ {h} : mem'[u] = mem[u] /\ target'[u] = target[u]
      BY <2>2
    <2> QED
      BY <2>1, <2>2, <2>3, CarelessStep DEF Careless, PCs, Updating, Committing
  <1>4. CASE ExchangeStep \/ Disconnect \/ Tick \/ Finished \/ UNCHANGED vars
    <2>1. pc' = pc /\ mem' = mem /\ target' = target
      BY <1>4 DEF ExchangeStep, ExchangeAccept, ExchangeReject, ExchangeProgress, ExchangeCancel,
                  ExchangeReply, RpcError, Disconnect, Tick, Finished, vars, taskVars
    <2> QED
      BY <2>1, UnmovedTask
  <1> QED
    BY <1>1, <1>2, <1>3, <1>4, SubmitTask, CancelTask, HandlerTask DEF Next

(* What every task is about to write may follow the row it will overwrite.       *)
THEOREM LogInvariant == Spec => []LogInv
  <1>1. TypeInv /\ DbInv /\ [Next]_vars => DbInv'
    BY NextDbInv
  <1> QED
    BY <1>1, InitLogInv, NextLogInv, TypeCorrect, DbInvariant, ExchangeInvariant, PTL DEF Spec

--------------------------------------------------------------------------------
(* What the invariants show *)

(* No message of the exchange finds its order missing: submit_order commits the  *)
(* order before it calls the exchange.                                           *)
THEOREM OrdersAreKnown == Spec => []OrderIsKnown
  <1>1. TypeInv /\ DbInv /\ ExchangeInv /\ LogInv => OrderIsKnown
    <2> SUFFICES ASSUME TypeInv, DbInv, ExchangeInv, LogInv PROVE OrderIsKnown
      OBVIOUS
    <2>1. ASSUME NEW o \in Orders, xs[o].status # "None"
          PROVE  row[o].status # "None"
      <3>1. row[o].version >= 0
        BY <2>1 DEF ExchangeInv
      <3>2. Dated(row[o])
        BY <3>1 DEF LogInv, RowOk
      <3> QED
        BY <3>2 DEF Dated, Status
    <2>2. ASSUME NEW i \in DOMAIN wire
          PROVE  row[wire[i].order].status # "None"
      <3>1. wire[i].order \in Orders
        <4>1. wire \in Seq(Message)
          BY DEF TypeInv, TypeOK
        <4>2. wire[i] \in Message
          BY <4>1
        <4> QED
          BY <4>2 DEF Message
      <3>2. xs[wire[i].order].status # "None"
        BY DEF ExchangeInv, Reported
      <3> QED
        BY <2>1, <3>1, <3>2
    <2>3. ASSUME NEW h \in Handlers, pc[h] = "locking"
          PROVE  row[target[h]].status # "None"
      <3>1. target[h] \in Orders /\ xs[target[h]].status # "None"
        BY <2>3 DEF ExchangeInv, Reported
      <3> QED
        BY <2>1, <3>1
    <2> QED
      BY <2>1, <2>2, <2>3 DEF OrderIsKnown
  <1> QED
    BY <1>1, TypeCorrect, DbInvariant, ExchangeInvariant, LogInvariant, PTL

\* A step that takes an ended order back to be viable is a COMMIT of what may follow.
LEMMA WhoReopens ==
  ASSUME TypeInv, DbInv, LogInv, [Next]_vars, NEW o \in Orders,
         row[o].status \in Terminal, row'[o].status \notin Terminal
  PROVE  Follow(row[o], row'[o]) /\ row'[o].status \in Viable
  <1>1. row'[o] # row[o]
    OBVIOUS
  <1>2. ~SubmitSave(o)
    <2>1. SubmitSave(o) => row[o].status = "None"
      BY DEF SubmitSave, DbInv, RowsAreSaved
    <2> QED
      BY <2>1 DEF Terminal, Status
  <1>3. PICK t \in Tasks : pc[t] \in Committing /\ target[t] = o /\ row'[o] = mem[t]
    BY <1>1, <1>2, WhoWrites
  <1>4. Follow(row[o], mem[t]) /\ mem[t].status \in Status
    BY <1>3 DEF LogInv, TaskOk, Dated
  <1> QED
    BY <1>3, <1>4 DEF Terminal

(* However late, repeated or reordered the answers and messages are: unless the   *)
(* broker's clock is behind, an ended order is shown as live again only by a      *)
(* record with the very same time.                                                *)
THEOREM ReopenedOnlyOnTie ==
  ASSUME Skew >= 0
  PROVE  Spec => TerminalReopenedOnlyOnTie
  <1>1. TypeInv /\ DbInv /\ LogInv /\ [Next]_vars
          => [\A o \in Orders : row[o].status \in Terminal /\ row'[o].status \in Viable
                                  => row'[o].time = row[o].time]_vars
    <2> SUFFICES ASSUME TypeInv, DbInv, LogInv, [Next]_vars, NEW o \in Orders,
                        row[o].status \in Terminal, row'[o].status \in Viable
                 PROVE  row'[o].time = row[o].time
      OBVIOUS
    <2>1. Follow(row[o], row'[o])
      BY WhoReopens DEF Terminal
    <2> QED
      BY <2>1 DEF Follow, Terminal
  <1> QED
    BY <1>1, TypeCorrect, DbInvariant, LogInvariant, PTL DEF Spec, TerminalReopenedOnlyOnTie

(* If, besides, the exchange never stamps two states of an order alike, the end   *)
(* of an order is final.                                                          *)
THEOREM EndIsFinal ==
  ASSUME Skew >= 0, DistinctTimes
  PROVE  Spec => TerminalIsFinal
  <1>1. TypeInv /\ DbInv /\ LogInv /\ [Next]_vars
          => [\A o \in Orders : row[o].status \in Terminal => row'[o].status \in Terminal]_vars
    <2> SUFFICES ASSUME TypeInv, DbInv, LogInv, [Next]_vars, NEW o \in Orders,
                        row[o].status \in Terminal, row'[o].status \notin Terminal
                 PROVE  FALSE
      OBVIOUS
    <2>1. Follow(row[o], row'[o]) /\ row'[o].status \in Viable
      BY WhoReopens
    <2> QED
      BY <2>1 DEF Follow, Terminal
  <1> QED
    BY <1>1, TypeCorrect, DbInvariant, LogInvariant, PTL DEF Spec, TerminalIsFinal

--------------------------------------------------------------------------------
(* The refinement of OrderLog *)

\* order_state_history grows by the write of a new order or by a COMMIT.
Grows(o, s) == history' = [history EXCEPT ![o] = Append(history[o], s)]

LEMMA WhoGrows ==
  ASSUME TypeInv, DbInv, [Next]_vars
  PROVE  \/ history' = history
         \/ \E o \in Orders : SubmitSave(o)
         \/ \E t \in Tasks : pc[t] \in Committing /\ Grows(target[t], mem[t])
  <1>1. ASSUME NEW t \in Tasks, NEW a, CommitOrder(t, a)
        PROVE  Grows(target[t], mem[t])
    BY <1>1 DEF CommitOrder, HistoryWith, Grows
  <1>2. ASSUME NEW o \in Orders, SubmitStep(o)
        PROVE  SubmitSave(o) \/ history' = history
                 \/ (pc[o] \in Committing /\ Grows(target[o], mem[o]))
    BY <1>1, <1>2
       DEF SubmitStep, SubmitPublishNew, SubmitCall, SubmitReply, RejectUpdate, RejectCommit,
           RejectPublish, UpdateOrder, dbVars, Committing, Tasks
  <1>3. ASSUME NEW c \in Cancelers, CancelStep(c)
        PROVE  history' = history \/ (pc[c] \in Committing /\ Grows(target[c], mem[c]))
    BY <1>1, <1>3
       DEF CancelStep, CancelRead, CancelUpdate, CancelCommit, CancelPublish, CancelCall,
           CancelReply, ReplyUpdate, ReplyCommit, ReplyPublish, UpdateOrder, dbVars, Committing,
           Tasks
  <1>4. ASSUME NEW h \in Handlers, HandlerStep(h)
        PROVE  history' = history \/ (pc[h] \in Committing /\ Grows(target[h], mem[h]))
    BY <1>1, <1>4
       DEF HandlerStep, AsyncRead, AsyncUpdate, AsyncCommit, AsyncPublish, AsyncReturn,
           AsyncRetry, UpdateOrder, dbVars, Committing, Tasks
  <1>5. ASSUME NEW t \in Tasks, Fault(t) \/ LostCommitAnswer(t)
        PROVE  history' = history \/ (pc[t] \in Committing /\ Grows(target[t], mem[t]))
    BY <1>1, <1>5 DEF Fault, LostCommitAnswer
  <1> QED
    BY <1>2, <1>3, <1>4, <1>5
       DEF Next, ReceiveMessage, Crash, ExchangeStep, ExchangeAccept, ExchangeReject,
           ExchangeProgress, ExchangeCancel, ExchangeReply, RpcError, Disconnect, Tick,
           Finished, vars, dbVars, Tasks

LEMMA LogVocabulary ==
  Log!Status = Status /\ Log!Reasons = Reasons /\ Log!Viable = Viable
  BY DEF Log!Status, Status, Log!Reasons, Reasons, Log!Viable, Viable

\* The write of a new order opens its log.
LEMMA SaveCreates ==
  ASSUME TypeInv, DbInv, NEW o \in Orders, SubmitSave(o)
  PROVE  Log!Create(o)
  <1>1. PICK s \in {<<"Pending", "none">>, <<"Rejected", "inactive">>, <<"Rejected", "expired">>} :
          Grows(o, Record(s[1], BrokerTime, 0, s[2]))
    BY DEF SubmitSave, SaveOrder, HistoryWith, Grows
  <1>2. history[o] = <<>>
    <2>1. row[o].version = -1 /\ history[o] \in Seq(State)
      BY DEF SubmitSave, DbInv, RowsAreSaved, TypeInv, TypeOK
    <2>2. Len(history[o]) = 0
      BY <2>1 DEF DbInv, HistoryIsComplete
    <2> QED
      BY <2>1, <2>2
  <1>3. BrokerTime \in Times
    BY DEF TypeInv, TypeOK, BrokerTime, Times
  <1>4. s[1] \in {"Pending", "Rejected"} /\ s[2] \in Reasons
    BY DEF Reasons
  <1>5. history' = [history EXCEPT ![o] = <<Log!Entry(s[1], BrokerTime, 0, s[2])>>]
    BY <1>1, <1>2 DEF Grows, Record, Log!Entry
  <1> QED
    BY <1>2, <1>3, <1>4, <1>5, LogVocabulary DEF Log!Create

\* A COMMIT records what may follow the last entry.
LEMMA CommitAdvances ==
  ASSUME TypeInv, DbInv, LogInv, NEW t \in Tasks, pc[t] \in Committing,
         Grows(target[t], mem[t])
  PROVE  \E o \in Orders : Log!Advance(o)
  <1> DEFINE o == target[t]
             s == mem[t]
  <1>1. /\ o \in Orders /\ s \in State /\ history[o] \in Seq(State)
        /\ s.version = row[o].version + 1 /\ Len(history[o]) = row[o].version + 1
        /\ row[o].version \in Int
        /\ history[o] # <<>> => history[o][Len(history[o])] = row[o]
    BY DEF DbInv, LockedIsNextVersion, HistoryIsComplete, TypeInv, TypeOK, State
  <1>2. Follow(row[o], s) /\ Dated(s)
    BY DEF LogInv, TaskOk
  <1>3. history[o] # <<>>
    <2>1. row[o].version >= 0
      BY DEF DbInv, RowsAreSaved, SavedPlaces, Committing
    <2> QED
      BY <1>1, <2>1
  <1>4. Log!LastState(o) = row[o]
    BY <1>1, <1>3 DEF Log!LastState
  <1>5. s.status \in Status /\ s.time \in Times /\ s.reason \in Reasons
    BY <1>1, <1>2 DEF Dated, State
  <1>6. s = Log!Entry(s.status, s.time, Len(history[o]), s.reason)
    BY <1>1 DEF State, Log!Entry
  <1>7. Log!MayFollow(Log!LastState(o), s.status, s.time)
    BY <1>2, <1>4, LogVocabulary DEF Follow, Log!MayFollow
  <1>8. history' = [history EXCEPT ![o] =
                      Append(@, Log!Entry(s.status, s.time, Len(@), s.reason))]
    BY <1>6 DEF Grows
  <1> HIDE DEF o, s
  <1>9. Log!Advance(o)
    BY <1>3, <1>5, <1>7, <1>8, LogVocabulary DEF Log!Advance
  <1> QED
    BY <1>1, <1>9

(* However the handlers interleave, fail and restart, and whatever the clocks     *)
(* show: order_state_history is the log of states that OrderLog promises.         *)
THEOREM LogImplemented == Spec => ImplementsLog
  <1>1. Init => Log!Init
    BY DEF Init, Log!Init
  <1>2. TypeInv /\ DbInv /\ LogInv /\ [Next]_vars => [Log!Next]_history
    <2> SUFFICES ASSUME TypeInv, DbInv, LogInv, [Next]_vars
                 PROVE  Log!Next \/ history' = history
      OBVIOUS
    <2> QED
      BY WhoGrows, SaveCreates, CommitAdvances DEF Log!Next
  <1> QED
    BY <1>1, <1>2, TypeCorrect, DbInvariant, LogInvariant, PTL DEF Spec, ImplementsLog, Log!Spec

--------------------------------------------------------------------------------
(* What is published *)

\* Version v of an order with history h and row r had status s, or is superseded.
Shown(h, r, v, s) ==
  \/ v \in Nat /\ v < Len(h) /\ h[v + 1].status = s
  \/ v \in Int /\ v < r.version

Publishing == {"publishNew", "publishReject", "publishMark", "publishReply", "publishAsync"}

Told(t) ==
  /\ target[t] \in Orders
  /\ Shown(history[target[t]], row[target[t]], mem[t].version, mem[t].status)

\* What was broadcast, and what a task is about to broadcast.
PublishInv ==
  /\ \A t \in Tasks : pc[t] \in Publishing => Told(t)
  /\ \A m \in published : m.order \in Orders
                          /\ Shown(history[m.order], row[m.order], m.version, m.status)

\* The history only grows.
LEMMA ShownStays ==
  ASSUME TypeInv, DbInv, [Next]_vars, NEW o \in Orders, NEW v, NEW s,
         Shown(history[o], row[o], v, s)
  PROVE  Shown(history'[o], row'[o], v, s)
  <1>1. history[o] \in Seq(State)
    BY DEF TypeInv, TypeOK
  <1>2. history'[o] = history[o] \/ \E e : history'[o] = Append(history[o], e)
    <2>1. ASSUME NEW p, NEW e, Grows(p, e)
          PROVE  history'[o] = history[o] \/ history'[o] = Append(history[o], e)
      BY <2>1 DEF Grows, TypeInv, TypeOK
    <2>2. ASSUME NEW p \in Orders, SubmitSave(p)
          PROVE  \E e : Grows(p, e)
      BY <2>2 DEF SubmitSave, SaveOrder, HistoryWith, Grows
    <2> QED
      BY <2>1, <2>2, WhoGrows
  <1>3. Shown(history'[o], row[o], v, s)
    <2>1. CASE history'[o] = history[o]
      BY <2>1
    <2>2. ASSUME NEW e, history'[o] = Append(history[o], e)
          PROVE  Shown(history'[o], row[o], v, s)
      <3>1. ASSUME v \in Nat, v < Len(history[o])
            PROVE  v < Len(history'[o]) /\ history'[o][v + 1] = history[o][v + 1]
        BY <1>1, <2>2, <3>1
      <3> QED
        BY <3>1 DEF Shown
    <2> QED
      BY <1>2, <2>1, <2>2
  <1>4. row'[o].version >= row[o].version /\ row[o].version \in Int /\ row'[o].version \in Int
    BY RowStays
  <1> QED
    BY <1>3, <1>4 DEF Shown

\* One task moves, and perhaps broadcasts what it holds.
LEMMA OneTaskTells ==
  ASSUME TypeInv, DbInv, PublishInv, [Next]_vars, NEW t \in Tasks,
         \A u \in Tasks \ {t} : pc'[u] = pc[u] /\ mem'[u] = mem[u] /\ target'[u] = target[u],
         pc'[t] \in Publishing => Told(t)',
         \/ published' = published
         \/ pc[t] \in Publishing /\ \E a : SendOrderState(t, a)
  PROVE  PublishInv'
  <1>1. ASSUME NEW u \in Tasks, pc'[u] \in Publishing PROVE Told(u)'
    <2>1. CASE u = t
      BY <1>1, <2>1
    <2>2. CASE u # t
      <3>1. Told(u)
        BY <1>1, <2>2 DEF PublishInv
      <3>2. mem'[u] = mem[u] /\ target'[u] = target[u]
        BY <2>2
      <3> QED
        BY <3>1, <3>2, ShownStays DEF Told
    <2> QED
      BY <2>1, <2>2
  <1>2. ASSUME NEW m \in published'
        PROVE  m.order \in Orders /\ Shown(history[m.order], row[m.order], m.version, m.status)
    <2>1. CASE m \in published
      BY <2>1 DEF PublishInv
    <2>2. CASE m \notin published
      <3>1. pc[t] \in Publishing
        BY <1>2, <2>2
      <3>2. m = [order |-> target[t], status |-> mem[t].status, version |-> mem[t].version]
        BY <1>2, <2>2 DEF SendOrderState
      <3>3. m.order = target[t] /\ m.status = mem[t].status /\ m.version = mem[t].version
        BY <3>2
      <3> QED
        BY <3>1, <3>3 DEF PublishInv, Told
    <2> QED
      BY <2>1, <2>2
  <1>3. \A m \in published' : m.order \in Orders
                              /\ Shown(history'[m.order], row'[m.order], m.version, m.status)
    BY <1>2, ShownStays
  <1> QED
    BY <1>1, <1>3 DEF PublishInv

\* What a COMMIT has written is what the task holds.
LEMMA CommitTells ==
  ASSUME TypeInv, DbInv, NEW t \in Tasks, NEW a, pc[t] \in Committing, CommitOrder(t, a),
         target' = target
  PROVE  Told(t)'
  <1>1. /\ target[t] \in Orders /\ history[target[t]] \in Seq(State)
        /\ history \in [Orders -> Seq(State)]
        /\ mem[t].version = Len(history[target[t]])
    <2>1. target[t] \in Orders /\ mem[t].version = row[target[t]].version + 1
      BY DEF DbInv, LockedIsNextVersion
    <2>2. Len(history[target[t]]) = row[target[t]].version + 1
      BY <2>1 DEF DbInv, HistoryIsComplete
    <2> QED
      BY <2>1, <2>2 DEF TypeInv, TypeOK
  <1>2. history'[target[t]] = Append(history[target[t]], mem[t]) /\ mem' = mem
    BY <1>1 DEF CommitOrder, HistoryWith
  <1>3. /\ mem[t].version \in Nat /\ mem[t].version < Len(history'[target[t]])
        /\ history'[target[t]][mem[t].version + 1] = mem[t]
    BY <1>1, <1>2
  <1>4. Shown(history'[target[t]], row'[target[t]], mem[t].version, mem[t].status)
    BY <1>3 DEF Shown
  <1> QED
    BY <1>1, <1>2, <1>4 DEF Told

\* A cancel whose second update finds another version holds one that is superseded.
LEMMA LateReplyTells ==
  ASSUME TypeInv, DbInv, LogInv, NEW c \in Cancelers, ReplyUpdate(c), pc'[c] \in Publishing
  PROVE  Told(c)'
  <1>0. /\ c \in Tasks /\ pc[c] = "replyUpdate" /\ target[c] \in Orders
        /\ pc \in [Tasks -> PCs] /\ mem \in [Tasks -> State]
    BY DEF Tasks, ReplyUpdate, TypeInv, TypeOK, TargetKnown
  <1>1. ~VersionMatches(c)
    BY <1>0 DEF ReplyUpdate, UpdateOrder, Publishing
  <1>2. /\ UNCHANGED <<row, history, target>>
        /\ mem' = [mem EXCEPT ![c].reason = StoredReason(mem[c])]
    BY <1>1 DEF ReplyUpdate, UpdateOrder, UnchangedByTask
  <1>3. mem'[c].version = mem[c].version
    BY <1>0, <1>2 DEF State
  <1>4. mem[c].version <= row[target[c]].version /\ mem[c].version # row[target[c]].version
    BY <1>0, <1>1 DEF LogInv, TaskOk, Updating, VersionMatches
  <1>5. mem[c].version \in Int /\ row[target[c]].version \in Int
    BY <1>0 DEF TypeInv, TypeOK, State
  <1> QED
    BY <1>0, <1>2, <1>3, <1>4, <1>5 DEF Told, Shown

LEMMA SubmitTells ==
  ASSUME TypeInv, DbInv, LogInv, PublishInv, [Next]_vars, NEW o \in Orders, SubmitStep(o)
  PROVE  PublishInv'
  <1>0. /\ o \in Tasks /\ target[o] = o /\ pc \in [Tasks -> PCs] /\ mem \in [Tasks -> State]
        /\ history \in [Orders -> Seq(State)]
    BY DEF Tasks, TypeInv, TypeOK, TargetKnown
  <1>1. /\ target' = target
        /\ \A u \in Tasks \ {o} : pc'[u] = pc[u] /\ mem'[u] = mem[u]
    BY <1>0 DEF SubmitStep, SubmitSave, SubmitPublishNew, SubmitCall, SubmitReply, RejectUpdate,
                RejectCommit, RejectPublish, UpdateOrder, CommitOrder, SendOrderState,
                UnchangedByTask
  <1>2. CASE SubmitSave(o)
    <2>1. PICK s \in {<<"Pending", "none">>, <<"Rejected", "inactive">>, <<"Rejected", "expired">>} :
            /\ mem'[o] = Record(s[1], BrokerTime, 0, s[2])
            /\ history'[o] = Append(history[o], Record(s[1], BrokerTime, 0, s[2]))
      BY <1>0, <1>2 DEF SubmitSave, SaveOrder, HistoryWith
    <2>2. Len(history[o]) = 0 /\ history[o] \in Seq(State)
      BY <1>0, <1>2 DEF SubmitSave, DbInv, RowsAreSaved, HistoryIsComplete
    <2>3. Len(history'[o]) = 1 /\ history'[o][0 + 1] = mem'[o] /\ mem'[o].version = 0
      BY <2>1, <2>2 DEF Record
    <2>4. Shown(history'[o], row'[o], mem'[o].version, mem'[o].status)
      BY <2>3 DEF Shown
    <2>5. Told(o)'
      BY <1>0, <1>1, <2>4 DEF Told
    <2> QED
      BY <1>0, <1>1, <1>2, <2>5, OneTaskTells DEF SubmitSave
  <1>3. CASE RejectCommit(o)
    <2>1. CommitOrder(o, "publishReject") /\ pc[o] \in Committing /\ published' = published
      BY <1>3 DEF RejectCommit, Committing
    <2> QED
      BY <1>0, <1>1, <2>1, CommitTells, OneTaskTells
  <1>4. CASE SubmitPublishNew(o) \/ RejectPublish(o)
    <2>1. /\ pc[o] \in Publishing /\ pc'[o] \notin Publishing
          /\ \E a : SendOrderState(o, a)
      BY <1>0, <1>4 DEF SubmitPublishNew, RejectPublish, Publishing, SendOrderState
    <2> QED
      BY <1>0, <1>1, <2>1, OneTaskTells
  <1>5. CASE SubmitCall(o) \/ SubmitReply(o) \/ RejectUpdate(o)
    <2>1. pc'[o] \notin Publishing /\ published' = published
      BY <1>0, <1>5 DEF SubmitCall, SubmitReply, RejectUpdate, UpdateOrder, Publishing
    <2> QED
      BY <1>0, <1>1, <2>1, OneTaskTells
  <1> QED
    BY <1>2, <1>3, <1>4, <1>5 DEF SubmitStep

LEMMA CancelTells ==
  ASSUME TypeInv, DbInv, LogInv, PublishInv, [Next]_vars, NEW c \in Cancelers, CancelStep(c)
  PROVE  PublishInv'
  <1>0. /\ c \in Tasks /\ pc \in [Tasks -> PCs] /\ mem \in [Tasks -> State]
        /\ target \in [Tasks -> Orders \cup {None}]
    BY DEF Tasks, TypeInv, TypeOK
  <1>1. \A u \in Tasks \ {c} : pc'[u] = pc[u] /\ mem'[u] = mem[u] /\ target'[u] = target[u]
    BY <1>0 DEF CancelStep, CancelRead, CancelUpdate, CancelCommit, CancelPublish, CancelCall,
                CancelReply, ReplyUpdate, ReplyCommit, ReplyPublish, UpdateOrder, CommitOrder,
                SendOrderState, UnchangedByTask
  <1>2. CASE CancelCommit(c) \/ ReplyCommit(c)
    <2>1. /\ \E a : CommitOrder(c, a)
          /\ pc[c] \in Committing /\ published' = published /\ target' = target
      BY <1>2 DEF CancelCommit, ReplyCommit, Committing, UnchangedByTask
    <2> QED
      BY <1>0, <1>1, <2>1, CommitTells, OneTaskTells
  <1>3. CASE CancelPublish(c) \/ ReplyPublish(c)
    <2>1. /\ pc[c] \in Publishing /\ pc'[c] \notin Publishing
          /\ \E a : SendOrderState(c, a)
      BY <1>0, <1>3 DEF CancelPublish, ReplyPublish, Publishing, SendOrderState
    <2> QED
      BY <1>0, <1>1, <2>1, OneTaskTells
  <1>4. CASE ReplyUpdate(c)
    <2>1. published' = published
      BY <1>4 DEF ReplyUpdate
    <2> QED
      BY <1>0, <1>1, <1>4, <2>1, LateReplyTells, OneTaskTells
  <1>5. CASE (\E o \in Orders : CancelRead(c, o)) \/ CancelUpdate(c) \/ CancelCall(c) \/ CancelReply(c)
    <2>1. pc'[c] \notin Publishing /\ published' = published
      BY <1>0, <1>5 DEF CancelRead, CancelUpdate, CancelCall, CancelReply, UpdateOrder, Publishing
    <2> QED
      BY <1>0, <1>1, <2>1, OneTaskTells
  <1> QED
    BY <1>2, <1>3, <1>4, <1>5 DEF CancelStep

LEMMA HandlerTells ==
  ASSUME TypeInv, DbInv, LogInv, PublishInv, [Next]_vars, NEW h \in Handlers, HandlerStep(h)
  PROVE  PublishInv'
  <1>0. h \in Tasks /\ pc \in [Tasks -> PCs] /\ mem \in [Tasks -> State]
    BY DEF Tasks, TypeInv, TypeOK
  <1>1. /\ target' = target
        /\ \A u \in Tasks \ {h} : pc'[u] = pc[u] /\ mem'[u] = mem[u]
    BY <1>0 DEF HandlerStep, AsyncRead, AsyncUpdate, AsyncCommit, AsyncPublish, AsyncReturn,
                AsyncRetry, UpdateOrder, CommitOrder, SendOrderState, UnchangedByTask
  <1>2. CASE AsyncCommit(h)
    <2>1. CommitOrder(h, "publishAsync") /\ pc[h] \in Committing /\ published' = published
      BY <1>2 DEF AsyncCommit, Committing
    <2> QED
      BY <1>0, <1>1, <2>1, CommitTells, OneTaskTells
  <1>3. CASE AsyncPublish(h)
    <2>1. /\ pc[h] \in Publishing /\ pc'[h] \notin Publishing
          /\ \E a : SendOrderState(h, a)
      BY <1>0, <1>3 DEF AsyncPublish, Publishing, SendOrderState
    <2> QED
      BY <1>0, <1>1, <2>1, OneTaskTells
  <1>4. CASE AsyncRead(h) \/ AsyncUpdate(h) \/ AsyncReturn(h) \/ AsyncRetry(h)
    <2>1. pc'[h] \notin Publishing /\ published' = published
      BY <1>0, <1>4 DEF AsyncRead, AsyncUpdate, AsyncReturn, AsyncRetry, UpdateOrder, Publishing
    <2> QED
      BY <1>0, <1>1, <2>1, OneTaskTells
  <1> QED
    BY <1>2, <1>3, <1>4 DEF HandlerStep

LEMMA NextPublishInv ==
  ASSUME MaxFaults = 0
  PROVE  TypeInv /\ DbInv /\ LogInv /\ PublishInv /\ [Next]_vars => PublishInv'
  <1> SUFFICES ASSUME TypeInv, DbInv, LogInv, PublishInv, [Next]_vars PROVE PublishInv'
    OBVIOUS
  <1>0. pc \in [Tasks -> PCs] /\ ~(budget.faults > 0)
    BY DEF TypeInv, TypeOK
  <1>1. ASSUME NEW t \in Tasks PROVE ~Fault(t) /\ ~LostCommitAnswer(t)
    BY <1>0 DEF Fault, LostCommitAnswer
  <1>2. CASE Crash
    <2>1. /\ \A u \in Tasks : pc'[u] \notin Publishing
          /\ UNCHANGED <<row, history, published>>
      BY <1>2 DEF Crash, Publishing
    <2> QED
      BY <2>1 DEF PublishInv
  <1>3. CASE ReceiveMessage
    <2>1. received + 1 \in Tasks
      BY <1>3, NewHandler DEF Tasks
    <2>2. /\ pc' = [pc EXCEPT ![received + 1] = "locking"] /\ mem' = mem
          /\ target' = [target EXCEPT ![received + 1] = Head(wire).order]
          /\ published' = published /\ target \in [Tasks -> Orders \cup {None}]
      BY <1>3 DEF ReceiveMessage, TypeInv, TypeOK
    <2>3. pc'[received + 1] \notin Publishing
      BY <1>0, <2>1, <2>2 DEF Publishing
    <2>4. \A u \in Tasks \ {received + 1} : pc'[u] = pc[u] /\ mem'[u] = mem[u] /\ target'[u] = target[u]
      BY <1>0, <2>2
    <2> QED
      BY <2>1, <2>2, <2>3, <2>4, OneTaskTells
  <1>4. CASE ExchangeStep \/ Disconnect \/ Tick \/ Finished \/ UNCHANGED vars
    <2>1. UNCHANGED <<pc, mem, target, row, history, published>>
      BY <1>4 DEF ExchangeStep, ExchangeAccept, ExchangeReject, ExchangeProgress, ExchangeCancel,
                  ExchangeReply, RpcError, Disconnect, Tick, Finished, vars, taskVars, dbVars
    <2> QED
      BY <2>1 DEF PublishInv, Told
  <1> QED
    BY <1>1, <1>2, <1>3, <1>4, SubmitTells, CancelTells, HandlerTells DEF Next

(* As long as no database operation fails, every account message shows a state    *)
(* that was committed, under its version, or carries a version that is already    *)
(* superseded: the cancel that lost the race against the exchange's report.       *)
THEOREM PublishedIsTrue ==
  ASSUME MaxFaults = 0
  PROVE  Spec => []PublishedIsCommittedOrSuperseded
  <1>1. Init => PublishInv
    BY DEF Init, PublishInv, Publishing
  <1>2. PublishInv => PublishedIsCommittedOrSuperseded
    BY DEF PublishInv, Shown, PublishedIsCommittedOrSuperseded
  <1> QED
    BY <1>1, <1>2, NextPublishInv, TypeCorrect, DbInvariant, LogInvariant, PTL DEF Spec

================================================================================
