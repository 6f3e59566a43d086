------------------------------- MODULE StompClient -------------------------------
(***************************************************************************)
(* The websocket client of the React frontend                                *)
(* (frontend/src/services/websocket.ts): one object that outlives its         *)
(* sockets.  Timers that open a socket are never cancelled, and the handlers *)
(* of a socket it has let go of still change its state.                      *)
(*                                                                          *)
(* What a socket's server knows is what has been sent on that socket.        *)
(***************************************************************************)
EXTENDS Integers, FiniteSets

CONSTANTS
  Destinations,
  Feeds,           \* what is subscribed to in one call: sets of destinations
  Listeners,       \* callbacks
  MaxReconnectAttempts,
  MaxSockets,      \* bound: sockets opened
  MaxIds           \* bound: subscriptionCounter

Sockets == 1..MaxSockets
NoSocket == 0
NoId == 0

ASSUME ClientAssumption ==
  /\ MaxReconnectAttempts \in Nat /\ MaxSockets \in Nat /\ MaxIds \in Nat
  /\ Feeds \subseteq SUBSET Destinations
  /\ IsFiniteSet(Destinations)

VARIABLES
  mounted,         \* whether the dashboard, which uses the client, is shown
  ws,              \* this.ws
  readyState,      \* readyState[s]: of each socket ever opened
  opened,          \* how many sockets have been opened
  timers,          \* setTimeouts that will call connectInternal
  connected,
  reconnectAttempts,
  callbacks,       \* callbacks[d]: the listeners of d (the four callback maps)
  subscriptions,   \* subscriptions[d]: the id d is subscribed under
  subscriptionCounter,
  greeted,         \* greeted[s]: s has sent CONNECT and has no answer yet
  served           \* served[s]: what the server of s is subscribed to, as <<d, id>>

socketVars == <<ws, readyState, opened, timers>>
stateVars == <<connected, reconnectAttempts>>
subVars == <<callbacks, subscriptions, subscriptionCounter>>
vars == <<mounted, socketVars, stateVars, subVars, greeted, served>>

IsOpen == ws # NoSocket /\ readyState[ws] = "open"

--------------------------------------------------------------------------------
(* Sockets *)

\* The dashboard is shown and calls connect(): nothing if there is a connection,
\* else a timer.
Connect ==
  /\ ~mounted
  /\ mounted' = TRUE
  /\ \/ (IsOpen \/ connected) /\ timers' = timers
     \/ ~(IsOpen \/ connected) /\ opened + timers < MaxSockets /\ timers' = timers + 1
  /\ UNCHANGED <<ws, readyState, opened, stateVars, subVars, greeted, served>>

\* A timer fires: connectInternal().
ConnectInternal ==
  /\ timers > 0
  /\ timers' = timers - 1
  /\ opened' = opened + 1
  /\ ws' = opened'
  /\ readyState' = [readyState EXCEPT ![opened'] = "connecting"]
  /\ UNCHANGED <<mounted, stateVars, subVars, greeted, served>>

\* onopen: sendConnect sends on the current socket, whichever one has opened.
OnOpen(s) ==
  /\ readyState[s] = "connecting"
  /\ readyState' = [readyState EXCEPT ![s] = "open"]
  /\ connected' = FALSE
  /\ greeted' = IF ws # NoSocket /\ readyState'[ws] = "open" THEN [greeted EXCEPT ![ws] = TRUE]
                ELSE greeted
  /\ UNCHANGED <<mounted, ws, opened, timers, reconnectAttempts, subVars, served>>

MayReconnect == reconnectAttempts < MaxReconnectAttempts

\* onclose: attemptReconnect().
OnClose(s) ==
  /\ readyState[s] \in {"connecting", "open", "closing"}
  /\ readyState' = [readyState EXCEPT ![s] = "closed"]
  /\ connected' = FALSE
  /\ \/ /\ MayReconnect
        /\ opened + timers < MaxSockets
        /\ reconnectAttempts' = reconnectAttempts + 1
        /\ timers' = timers + 1
     \/ /\ ~MayReconnect \/ opened + timers = MaxSockets
        /\ UNCHANGED <<reconnectAttempts, timers>>
  /\ greeted' = [greeted EXCEPT ![s] = FALSE]
  /\ served' = [served EXCEPT ![s] = {}]
  /\ UNCHANGED <<mounted, ws, opened, subVars>>

--------------------------------------------------------------------------------
(* Subscriptions *)

\* subscribeToDestination for each of the destinations: those the client holds a
\* subscription id for are passed over.
Repeated(dests) == dests
NotYet(dests) == {d \in dests : subscriptions[d] = NoId}

SubscribeTo(dests) ==
  LET new == NotYet(dests) IN
  /\ subscriptionCounter + Cardinality(new) <= MaxIds
  /\ \E id \in [new -> (subscriptionCounter + 1)..(subscriptionCounter + Cardinality(new))] :
       /\ \A d, e \in new : id[d] = id[e] => d = e
       /\ subscriptions' = [d \in Destinations |-> IF d \in new THEN id[d] ELSE subscriptions[d]]
       /\ served' = IF IsOpen THEN [served EXCEPT ![ws] = @ \cup {<<d, id[d]>> : d \in new}]
                    ELSE served
  /\ subscriptionCounter' = subscriptionCounter + Cardinality(new)

\* CONNECTED arrives: parseMessage, resubscribeAll.
OnConnected(s) ==
  /\ readyState[s] = "open" /\ greeted[s]
  /\ greeted' = [greeted EXCEPT ![s] = FALSE]
  /\ connected' = TRUE
  /\ reconnectAttempts' = 0
  /\ SubscribeTo({d \in Destinations : callbacks[d] # {}})
  /\ UNCHANGED <<mounted, socketVars, callbacks>>

\* subscribe of an account's updates, subscribeToMarketData of an instrument's depth
\* and last trades.
Subscribe(feed, l) ==
  /\ mounted
  /\ \A d \in feed : l \notin callbacks[d]
  /\ callbacks' = [d \in Destinations |-> callbacks[d] \cup IF d \in feed THEN {l} ELSE {}]
  /\ \/ connected /\ IsOpen /\ SubscribeTo(feed)
     \/ ~(connected /\ IsOpen) /\ UNCHANGED <<subscriptions, subscriptionCounter, served>>
  /\ UNCHANGED <<mounted, socketVars, stateVars, greeted>>

\* unsubscribe, unsubscribeFromMarketData: with its last listener a destination's
\* subscription goes, if there is an open socket to say so on.
Forget(dests) ==
  /\ subscriptions' = [d \in Destinations |-> IF d \in dests THEN NoId ELSE subscriptions[d]]
  /\ UNCHANGED served
SendUnsubscribe(dests) ==
  /\ subscriptions' = [d \in Destinations |-> IF d \in dests THEN NoId ELSE subscriptions[d]]
  /\ served' = [served EXCEPT ![ws] = {p \in @ : \A d \in dests : p[2] # subscriptions[d]}]

Unsubscribe(feed, l) ==
  /\ \A d \in feed : l \in callbacks[d]
  /\ callbacks' = [d \in Destinations |-> callbacks[d] \ IF d \in feed THEN {l} ELSE {}]
  /\ \/ IsOpen /\ SendUnsubscribe({d \in feed : callbacks[d] = {l} /\ subscriptions[d] # NoId})
     \/ ~IsOpen /\ UNCHANGED <<subscriptions, served>>
  /\ UNCHANGED <<mounted, socketVars, stateVars, subscriptionCounter, greeted>>

\* disconnect(), when the user logs out and when the dashboard goes: a DISCONNECT
\* frame, on which the server unsubscribes all, if there is a connection; then
\* everything is cleared but the timers, and the socket closes later.
Disconnect ==
  /\ mounted
  /\ mounted' \in BOOLEAN
  /\ served' = IF connected /\ IsOpen THEN [served EXCEPT ![ws] = {}] ELSE served
  /\ \/ ws # NoSocket /\ readyState[ws] \in {"connecting", "open"}
        /\ readyState' = [readyState EXCEPT ![ws] = "closing"]
     \/ ~(ws # NoSocket /\ readyState[ws] \in {"connecting", "open"}) /\ UNCHANGED readyState
  /\ ws' = NoSocket
  /\ callbacks' = [d \in Destinations |-> {}]
  /\ subscriptions' = [d \in Destinations |-> NoId]
  /\ reconnectAttempts' = 0
  /\ connected' = FALSE
  /\ UNCHANGED <<opened, timers, subscriptionCounter, greeted>>

--------------------------------------------------------------------------------

Init ==
  /\ mounted = FALSE
  /\ ws = NoSocket
  /\ readyState = [s \in Sockets |-> "none"]
  /\ opened = 0 /\ timers = 0
  /\ connected = FALSE
  /\ reconnectAttempts = 0
  /\ callbacks = [d \in Destinations |-> {}]
  /\ subscriptions = [d \in Destinations |-> NoId]
  /\ subscriptionCounter = 0
  /\ greeted = [s \in Sockets |-> FALSE]
  /\ served = [s \in Sockets |-> {}]

Next ==
  \/ Connect \/ ConnectInternal \/ Disconnect
  \/ \E s \in Sockets : OnOpen(s) \/ OnConnected(s) \/ OnClose(s)
  \/ \E feed \in Feeds, l \in Listeners : Subscribe(feed, l) \/ Unsubscribe(feed, l)

Spec == Init /\ [][Next]_vars

--------------------------------------------------------------------------------
(* Properties *)

Ids == 0..MaxIds
ServedOn(s) == {p[1] : p \in served[s]}

\* Type invariant; only a socket that is open or closing is still served.
TypeOK ==
  /\ mounted \in BOOLEAN
  /\ ws \in 0..opened
  /\ readyState \in [Sockets -> {"none", "connecting", "open", "closing", "closed"}]
  /\ opened \in 0..MaxSockets /\ timers \in 0..(MaxSockets - opened)
  /\ connected \in BOOLEAN
  /\ reconnectAttempts \in 0..MaxReconnectAttempts
  /\ callbacks \in [Destinations -> SUBSET Listeners]
  /\ subscriptions \in [Destinations -> 0..subscriptionCounter]
  /\ subscriptionCounter \in Ids
  /\ greeted \in [Sockets -> BOOLEAN]
  /\ served \in [Sockets -> SUBSET (Destinations \X Ids)]
  /\ \A s \in Sockets : served[s] # {} => readyState[s] \in {"open", "closing"}

\* However sockets are lost, opened twice and let go of: no server is subscribed
\* to a destination twice, which would deliver its messages twice.
SubscribedOnce ==
  \A s \in Sockets : \A p, q \in served[s] : p[1] = q[1] => p = q

\* The current socket serves nothing that nobody listens to any more, and what it
\* serves can still be unsubscribed.
NothingLeftBehind ==
  IsOpen => \A p \in served[ws] : callbacks[p[1]] # {} /\ subscriptions[p[1]] = p[2]

\* "Resubscribe to all previous subscriptions": once the answer to CONNECT has
\* arrived on the current socket, it serves every destination that has listeners.
Resubscribed ==
  [][\A s \in Sockets : OnConnected(s) /\ s = ws
       => \A d \in Destinations : callbacks[d] # {} => d \in ServedOn(s)']_vars

================================================================================
