------------------------------ MODULE WebSocketFeed ------------------------------
(***************************************************************************)
(* How committed account rows and market data reach the browsers: the        *)
(* broadcasts and retained messages of websockets/server.rs, the sessions of *)
(* websockets/ws_handler.rs with the snapshots of websockets/senders.rs, and *)
(* the client that keeps the newest version (static/app/js/openbroker.js).   *)
(*                                                                          *)
(* A topic stands for one row: a balance, a position or an order state of an *)
(* account, the depth or the last trade of an instrument.  What is sent is   *)
(* the version of the row.                                                   *)
(***************************************************************************)
EXTENDS Integers, SequencesExt

CONSTANTS
  Clients,
  AccountTopics,   \* rows of the database, changed by any number of tasks
  OrderStates,     \* those of them that are states of orders
  MarketTopics,    \* market data, relayed by the one reader of an exchange
  MaxChanges,      \* bound: changes of a row
  MaxSessions,     \* bound: connections a client makes, one after the other
  MaxMishaps       \* bound: snapshots that fail, commits nobody is told of, states not committed

Topics == AccountTopics \cup MarketTopics

ASSUME FeedAssumption ==
  /\ MaxChanges \in Nat /\ MaxSessions \in Nat /\ MaxMishaps \in Nat
  /\ OrderStates \subseteq AccountTopics /\ AccountTopics \cap MarketTopics = {}
  /\ IsFiniteSet(Topics)

VARIABLES
  latest,          \* latest[t]: the committed version of a row, the last market data relayed
  unsent,          \* unsent[t]: versions committed by tasks that have not broadcast them yet
  announced,       \* announced[t]: the newest version whose task broadcasts it
  phantom,         \* phantom[t]: the newest version broadcast with a state that was not committed
  connections,     \* connections[t][c][n]: how often c's n-th connection is in the list of t
  retained,        \* retained[t]: the retained message of t
  session,         \* session[c]: how many connections client c has made
  phase,           \* phase[c]: where client c is
  inbox,           \* inbox[c]: frames from c that its session has not handled
  channel,         \* channel[c]: queue items its session has not sent
  subscriptions,   \* subscriptions[c]: the topics its session has a subscription id for
  missed,          \* missed[c]: the rows whose snapshot failed in its session
  snapshots,       \* the send_get tasks
  mishaps,         \* how often the server has failed
  view             \* view[c][t]: the version c shows

serverVars == <<latest, unsent, announced, phantom, connections, retained>>
sessionVars == <<session, phase, inbox, channel, subscriptions, missed>>
vars == <<serverVars, sessionVars, snapshots, mishaps, view>>

Nothing == 0

\* An account's rows exist from the start; an exchange has sent nothing yet.
First(t) == IF t \in AccountTopics THEN 1 ELSE Nothing

Sessions == 1..MaxSessions
Connection(c) == [client |-> c, session |-> session[c]]
\* The server fails in one of the ways below.
Mishap ==
  /\ mishaps < MaxMishaps
  /\ mishaps' = mishaps + 1

IsOpen(conn) == conn.session = session[conn.client] /\ phase[conn.client] # "closed"

--------------------------------------------------------------------------------
(* server.rs *)

\* One item into the channel of every subscriber, once per entry in the list.
Entries(t, c) == IF phase[c] = "closed" THEN 0 ELSE connections[t][c][session[c]]
Sent(t, v) ==
  [c \in Clients |-> channel[c] \o [k \in 1..Entries(t, c) |-> [topic |-> t, version |-> v]]]

\* Entries whose channel is closed are dropped from the list.
ClosedDropped(t) ==
  [c \in Clients |-> [n \in Sessions |-> IF n = session[c] THEN Entries(t, c) ELSE 0]]

SendMessage(t, v) ==
  /\ channel' = Sent(t, v)
  /\ connections' = [connections EXCEPT ![t] = ClosedDropped(t)]

\* A task commits a change of a row ...
Commit(t) ==
  /\ t \in AccountTopics
  /\ latest[t] < First(t) + MaxChanges
  /\ latest' = [latest EXCEPT ![t] = @ + 1]
  /\ unsent' = [unsent EXCEPT ![t] = @ \cup {latest[t] + 1}]
  /\ announced' = [announced EXCEPT ![t] = latest[t] + 1]
  /\ UNCHANGED <<phantom, connections, retained, sessionVars, snapshots, mishaps, view>>

\* ... and then broadcasts it (send_account_message); tasks overtake each other.
Broadcast(t, v) ==
  /\ t \in AccountTopics
  /\ v \in unsent[t]
  /\ SendMessage(t, v)
  /\ unsent' = [unsent EXCEPT ![t] = @ \ {v}]
  /\ UNCHANGED <<latest, announced, phantom, retained, session, phase, inbox, subscriptions, missed,
                 snapshots, mishaps, view>>

\* ... or, when the answer of the COMMIT is lost or the row cannot be converted, it
\* returns and nobody is told.
CommitUntold(t) ==
  /\ t \in AccountTopics
  /\ Mishap
  /\ latest[t] < First(t) + MaxChanges
  /\ latest' = [latest EXCEPT ![t] = @ + 1]
  /\ UNCHANGED <<unsent, announced, phantom, connections, retained, sessionVars, snapshots, view>>

\* A handler of order_api.rs broadcasts the state in its memory although its second
\* update has failed: under the version of the first, or, when update_order had
\* counted it up before the failure, under one that another task may yet commit.
BroadcastUncommitted(t, v) ==
  /\ t \in OrderStates
  /\ First(t) < v /\ v <= latest[t] + 1
  /\ v <= First(t) + MaxChanges
  /\ phantom[t] < v                               \* bound: each version once, in their order
  /\ Mishap
  /\ SendMessage(t, v)
  /\ phantom' = [phantom EXCEPT ![t] = v]
  /\ UNCHANGED <<latest, unsent, announced, retained, session, phase, inbox, subscriptions, missed,
                 snapshots, view>>

\* send_retained_message: first it is sent to the subscribers ...
Relay(t) ==
  /\ t \in MarketTopics
  /\ unsent[t] = {}
  /\ latest[t] < First(t) + MaxChanges
  /\ latest' = [latest EXCEPT ![t] = @ + 1]
  /\ SendMessage(t, latest[t] + 1)
  /\ unsent' = [unsent EXCEPT ![t] = {latest[t] + 1}]
  /\ UNCHANGED <<announced, phantom, retained, session, phase, inbox, subscriptions, missed,
                 snapshots, mishaps, view>>

\* ... and then, under another lock, retained for those to come.
NotRetained(t) == retained
Retained(t) == [retained EXCEPT ![t] = latest[t]]

Retain(t) ==
  /\ t \in MarketTopics
  /\ unsent[t] # {}
  /\ unsent' = [unsent EXCEPT ![t] = {}]
  /\ retained' = Retained(t)
  /\ UNCHANGED <<latest, announced, phantom, connections, sessionVars, snapshots, mishaps, view>>

--------------------------------------------------------------------------------
(* openbroker.js *)

\* What #sendsubscribe sends for a topic.
GetFirst(t) ==
  IF t \in AccountTopics THEN <<[frame |-> "GET", topic |-> t], [frame |-> "SUBSCRIBE", topic |-> t]>>
  ELSE <<[frame |-> "SUBSCRIBE", topic |-> t]>>

SubscribeFrames(t) ==
  IF t \in AccountTopics THEN <<[frame |-> "SUBSCRIBE", topic |-> t], [frame |-> "GET", topic |-> t]>>
  ELSE <<[frame |-> "SUBSCRIBE", topic |-> t]>>

\* The client connects: onConnect sets #connected and starts a timer.
Connect(c) ==
  /\ phase[c] = "closed"
  /\ session[c] < MaxSessions
  /\ session' = [session EXCEPT ![c] = @ + 1]
  /\ phase' = [phase EXCEPT ![c] = "connected"]
  /\ UNCHANGED <<serverVars, inbox, channel, subscriptions, missed, snapshots, mishaps, view>>

\* #subscribe of a topic the client learns of when it is connected: the timer, if
\* it has not fired yet, subscribes to the topic once more.
Subscribe(c, t) ==
  /\ phase[c] = "connected"
  /\ inbox[c] = <<>> /\ subscriptions[c] = {}     \* bound: one topic for each session
  /\ inbox' = [inbox EXCEPT ![c] = @ \o SubscribeFrames(t)]
  /\ UNCHANGED <<serverVars, session, phase, channel, subscriptions, missed, snapshots, mishaps, view>>

\* The timer of onConnect goes through the topics in the order the client learned
\* of them.
Orders == {order \in [1..Cardinality(Topics) -> Topics] : Range(order) = Topics}

SubscribeAll(c) ==
  /\ phase[c] = "connected"
  /\ phase' = [phase EXCEPT ![c] = "subscribed"]
  /\ \E order \in Orders :
       inbox' = [inbox EXCEPT ![c] =
                   @ \o FlattenSeq([k \in DOMAIN order |-> SubscribeFrames(order[k])])]
  /\ UNCHANGED <<serverVars, session, channel, subscriptions, missed, snapshots, mishaps, view>>

\* #handleBalance, #handlePosition, #handleOrderState, #setMarketData.
Unfiltered(c, item) == TRUE
IsNewer(c, item) == view[c][item.topic] < item.version

Shown(c, item) == IF IsNewer(c, item) THEN [view EXCEPT ![c][item.topic] = item.version] ELSE view

--------------------------------------------------------------------------------
(* ws_handler.rs *)

\* handle_subscribe: the lock of the connections is held over all of it.
HandleSubscribe(c) ==
  /\ phase[c] # "closed"
  /\ inbox[c] # <<>> /\ Head(inbox[c]).frame = "SUBSCRIBE"
  /\ inbox' = [inbox EXCEPT ![c] = Tail(@)]
  /\ LET t == Head(inbox[c]).topic IN
     /\ connections' = [connections EXCEPT ![t][c][session[c]] = @ + 1]
     /\ subscriptions' = [subscriptions EXCEPT ![c] = @ \cup {t}]
     /\ channel' = IF retained[t] = Nothing THEN channel
                   ELSE [channel EXCEPT ![c] = Append(@, [topic |-> t, version |-> retained[t]])]
  /\ UNCHANGED <<latest, unsent, announced, phantom, retained, session, phase, missed, snapshots, mishaps, view>>

\* send_content spawns a send_get ...
HandleGet(c) ==
  /\ phase[c] # "closed"
  /\ inbox[c] # <<>> /\ Head(inbox[c]).frame = "GET"
  /\ inbox' = [inbox EXCEPT ![c] = Tail(@)]
  /\ snapshots' = snapshots \cup
       {[conn |-> Connection(c), topic |-> Head(inbox[c]).topic, version |-> Nothing]}
  /\ UNCHANGED <<serverVars, session, phase, channel, subscriptions, missed, mishaps, view>>

\* ... which reads the row ...
ReadSnapshot(s) ==
  /\ s.version = Nothing
  /\ snapshots' = (snapshots \ {s}) \cup {[s EXCEPT !.version = latest[s.topic]]}
  /\ UNCHANGED <<serverVars, sessionVars, mishaps, view>>

\* ... and puts it into the channel of the session, if that is still there.
SendSnapshot(s) ==
  /\ s.version # Nothing
  /\ snapshots' = snapshots \ {s}
  /\ channel' = IF IsOpen(s.conn)
                THEN [channel EXCEPT ![s.conn.client] =
                        Append(@, [topic |-> s.topic, version |-> s.version])]
                ELSE channel
  /\ UNCHANGED <<serverVars, session, phase, inbox, subscriptions, missed, mishaps, view>>

\* No connection to the database, a query that fails, a row that cannot be converted
\* or is behind one that cannot: the task returns and the client hears nothing of it.
FailSnapshot(s) ==
  /\ Mishap
  /\ snapshots' = snapshots \ {s}
  /\ missed' = IF IsOpen(s.conn) THEN [missed EXCEPT ![s.conn.client] = @ \cup {s.topic}] ELSE missed
  /\ UNCHANGED <<serverVars, session, phase, inbox, channel, subscriptions, view>>

\* send_queue_item, and the client shows it; without a subscription it is dropped.
SendQueueItem(c) ==
  /\ phase[c] # "closed"
  /\ channel[c] # <<>>
  /\ channel' = [channel EXCEPT ![c] = Tail(@)]
  /\ view' = IF Head(channel[c]).topic \in subscriptions[c] THEN Shown(c, Head(channel[c])) ELSE view
  /\ UNCHANGED <<serverVars, session, phase, inbox, subscriptions, missed, snapshots, mishaps>>

\* The connection ends.  With a Close frame the session unsubscribes, once for each
\* subscription it knows; after a timeout or an error it leaves its entries behind.
Close(c) ==
  /\ phase[c] # "closed"
  /\ phase' = [phase EXCEPT ![c] = "closed"]
  /\ inbox' = [inbox EXCEPT ![c] = <<>>]
  /\ channel' = [channel EXCEPT ![c] = <<>>]
  /\ subscriptions' = [subscriptions EXCEPT ![c] = {}]
  /\ missed' = [missed EXCEPT ![c] = {}]
  /\ \/ connections' = connections
     \/ connections' = [t \in Topics |->
          IF t \in subscriptions[c] THEN [connections[t] EXCEPT ![c][session[c]] = @ - 1] ELSE connections[t]]
  /\ UNCHANGED <<latest, unsent, announced, phantom, retained, session, snapshots, mishaps, view>>

--------------------------------------------------------------------------------

Init ==
  /\ latest = [t \in Topics |-> First(t)]
  /\ unsent = [t \in Topics |-> {}]
  /\ announced = [t \in Topics |-> First(t)]
  /\ phantom = [t \in Topics |-> Nothing]
  /\ connections = [t \in Topics |-> [c \in Clients |-> [n \in Sessions |-> 0]]]
  /\ retained = [t \in Topics |-> Nothing]
  /\ session = [c \in Clients |-> 0]
  /\ phase = [c \in Clients |-> "closed"]
  /\ inbox = [c \in Clients |-> <<>>]
  /\ channel = [c \in Clients |-> <<>>]
  /\ subscriptions = [c \in Clients |-> {}]
  /\ missed = [c \in Clients |-> {}]
  /\ snapshots = {}
  /\ mishaps = 0
  /\ view = [c \in Clients |-> [t \in Topics |-> Nothing]]

Next ==
  \/ \E t \in Topics :
       \/ Commit(t) \/ CommitUntold(t) \/ Relay(t) \/ Retain(t)
       \/ \E v \in unsent[t] : Broadcast(t, v)
       \/ \E v \in 1..(latest[t] + 1) : BroadcastUncommitted(t, v)
  \/ \E c \in Clients :
       \/ Connect(c) \/ SubscribeAll(c) \/ Close(c)
       \/ HandleSubscribe(c) \/ HandleGet(c) \/ SendQueueItem(c)
       \/ \E t \in Topics : Subscribe(c, t)
  \/ \E s \in snapshots : ReadSnapshot(s) \/ SendSnapshot(s) \/ FailSnapshot(s)

Spec == Init /\ [][Next]_vars

--------------------------------------------------------------------------------
(* Properties *)

\* Nothing about t is on its way to c any more.
Settled(c, t) ==
  /\ phase[c] = "subscribed"
  /\ inbox[c] = <<>> /\ channel[c] = <<>>
  /\ unsent[t] = {}
  /\ \A s \in snapshots : s.conn # Connection(c)

\* However commits, broadcasts that overtake each other, snapshots and reconnections
\* interleave (send_account_message, send_get, #sendsubscribe): once nothing is on
\* its way, a client whose snapshot did not fail shows no version older than the
\* last one that was announced, and none that is ahead of the row, unless a state
\* was broadcast that was never committed.  So it shows the row as it was committed
\* last whenever that was announced, and under no version at which an uncommitted
\* state was broadcast: it subscribes before it asks for the snapshot, and keeps the
\* newest version.
CaughtUp ==
  \A c \in Clients, t \in AccountTopics :
    Settled(c, t) /\ t \notin missed[c] =>
      /\ view[c][t] >= announced[t]
      /\ phantom[t] <= latest[t] => view[c][t] <= latest[t]

\* Market data has no snapshot, and its retained message is stored after it was
\* sent: a client that subscribes in between misses that one message, never more.
AtMostOneBehind ==
  \A c \in Clients, t \in MarketTopics : Settled(c, t) => view[c][t] >= latest[t] - 1

================================================================================
