---------------------------- MODULE StompClientProofs ----------------------------
(***************************************************************************)
(* The React client subscribes each destination once on a socket, and leaves *)
(* nothing behind on the current one, for any number of sockets, listeners   *)
(* and reconnections.                                                        *)
(*                                                                          *)
(* What the server of the current socket serves, the client holds the id of: *)
(* so it subscribes to nothing a second time, and can unsubscribe.  Sockets  *)
(* it has let go of, or not opened yet, get no frames.                       *)
(***************************************************************************)
EXTENDS StompClient, FiniteSetTheorems, TLAPS

\* Only sockets that were opened have a state.
OpenedInOrder == \A s \in Sockets : s > opened => readyState[s] = "none"

\* disconnect() lets go of the socket it closes.
CurrentNotClosing == ws # NoSocket => readyState[ws] \in {"connecting", "open", "closed"}

\* The client holds the id of what the current socket serves, and has listeners for it.
CurrentIsHeld ==
  ws # NoSocket => \A p \in served[ws] :
    p[2] # NoId /\ subscriptions[p[1]] = p[2] /\ callbacks[p[1]] # {}

ClientInv == TypeOK /\ OpenedInOrder /\ CurrentNotClosing /\ CurrentIsHeld /\ SubscribedOnce

LEMMA InitClientInv == Init => ClientInv
  <1> SUFFICES ASSUME Init PROVE ClientInv
    OBVIOUS
  <1>1. TypeOK
    <2>1. 0 \in Ids /\ 0 \in 0..MaxReconnectAttempts /\ 0 \in 0..MaxSockets
      BY ClientAssumption DEF Ids
    <2>2. served \in [Sockets -> SUBSET (Destinations \X Ids)] /\ \A s \in Sockets : served[s] = {}
      BY DEF Init
    <2>3. subscriptions \in [Destinations -> 0..subscriptionCounter]
      BY DEF Init, NoId
    <2>4. opened \in 0..MaxSockets /\ timers \in 0..(MaxSockets - opened) /\ ws \in 0..opened
      BY ClientAssumption DEF Init, NoSocket
    <2>5. readyState \in [Sockets -> {"none", "connecting", "open", "closing", "closed"}]
      BY DEF Init
    <2> QED BY <2>1, <2>2, <2>3, <2>4, <2>5 DEF Init, TypeOK
  <1> QED
    BY <1>1 DEF Init, ClientInv, OpenedInOrder, CurrentNotClosing, CurrentIsHeld, SubscribedOnce

--------------------------------------------------------------------------------
(* Sockets *)

LEMMA ConnectInv == ClientInv /\ Connect => ClientInv'
  <1> SUFFICES ASSUME ClientInv, Connect PROVE ClientInv'
    OBVIOUS
  <1>1. TypeOK'
    BY ClientAssumption DEF ClientInv, TypeOK, Connect, stateVars, subVars
  <1> QED
    BY <1>1 DEF ClientInv, Connect, stateVars, subVars, OpenedInOrder, CurrentNotClosing,
       CurrentIsHeld, SubscribedOnce

LEMMA ConnectInternalInv == ClientInv /\ ConnectInternal => ClientInv'
  <1> SUFFICES ASSUME ClientInv, ConnectInternal PROVE ClientInv'
    OBVIOUS
  <1>1. opened' = opened + 1 /\ opened' \in Sockets /\ ws' = opened'
    BY ClientAssumption DEF ClientInv, TypeOK, ConnectInternal, Sockets
  <1>2. readyState' = [readyState EXCEPT ![opened'] = "connecting"]
    BY DEF ConnectInternal
  <1>3. readyState[opened'] = "none"
    BY <1>1, ClientAssumption DEF ClientInv, TypeOK, OpenedInOrder, Sockets
  <1>4. served[opened'] = {}
    BY <1>1, <1>3 DEF ClientInv, TypeOK
  <1>5. TypeOK'
    BY <1>1, <1>2, <1>4, ClientAssumption
    DEF ClientInv, TypeOK, ConnectInternal, stateVars, subVars, Sockets
  <1>6. OpenedInOrder' /\ CurrentNotClosing'
    BY <1>1, <1>2, ClientAssumption
    DEF ClientInv, TypeOK, OpenedInOrder, CurrentNotClosing, Sockets
  <1>7. CurrentIsHeld' /\ SubscribedOnce'
    BY <1>1, <1>4 DEF ClientInv, ConnectInternal, CurrentIsHeld, SubscribedOnce
  <1> QED BY <1>5, <1>6, <1>7 DEF ClientInv

LEMMA OnOpenInv ==
  ASSUME NEW s \in Sockets, ClientInv, OnOpen(s)
  PROVE  ClientInv'
  <1>1. readyState' = [readyState EXCEPT ![s] = "open"] /\ readyState[s] = "connecting"
    BY DEF OnOpen
  <1>2. greeted' \in [Sockets -> BOOLEAN]
    BY DEF OnOpen, ClientInv, TypeOK
  <1>3. TypeOK'
    BY <1>1, <1>2 DEF ClientInv, TypeOK, OnOpen, subVars
  <1>4. OpenedInOrder' /\ CurrentNotClosing'
    BY <1>1 DEF ClientInv, TypeOK, OnOpen, OpenedInOrder, CurrentNotClosing
  <1> QED
    BY <1>3, <1>4 DEF ClientInv, OnOpen, subVars, CurrentIsHeld, SubscribedOnce

LEMMA OnCloseInv ==
  ASSUME NEW s \in Sockets, ClientInv, OnClose(s)
  PROVE  ClientInv'
  <1>1. /\ readyState' = [readyState EXCEPT ![s] = "closed"]
        /\ readyState[s] # "none"
        /\ served' = [served EXCEPT ![s] = {}]
    BY DEF OnClose
  <1>2. timers' \in 0..(MaxSockets - opened) /\ reconnectAttempts' \in 0..MaxReconnectAttempts
    BY ClientAssumption DEF OnClose, MayReconnect, ClientInv, TypeOK
  <1>3. TypeOK'
    BY <1>1, <1>2 DEF ClientInv, TypeOK, OnClose, subVars
  <1>4. OpenedInOrder' /\ CurrentNotClosing'
    BY <1>1 DEF ClientInv, TypeOK, OnClose, OpenedInOrder, CurrentNotClosing
  <1>5. CurrentIsHeld' /\ SubscribedOnce'
    BY <1>1 DEF ClientInv, TypeOK, OnClose, subVars, CurrentIsHeld, SubscribedOnce
  <1> QED BY <1>3, <1>4, <1>5 DEF ClientInv

LEMMA DisconnectInv == ClientInv /\ Disconnect => ClientInv'
  <1> SUFFICES ASSUME ClientInv, Disconnect PROVE ClientInv'
    OBVIOUS
  <1>1. ws' = NoSocket
    BY DEF Disconnect
  <1>2. \A t \in Sockets :
          /\ served'[t] \subseteq served[t]
          /\ readyState[t] \in {"none", "closed", "closing"} => readyState'[t] = readyState[t]
          /\ readyState'[t] \in {readyState[t], "closing"}
    BY DEF Disconnect, ClientInv, TypeOK
  <1>3. readyState' \in [Sockets -> {"none", "connecting", "open", "closing", "closed"}]
    BY DEF Disconnect, ClientInv, TypeOK
  <1>4. \A t \in Sockets : served'[t] # {} => readyState'[t] \in {"open", "closing"}
    BY <1>2 DEF ClientInv, TypeOK
  <1>5. served' \in [Sockets -> SUBSET (Destinations \X Ids)]
    BY DEF Disconnect, ClientInv, TypeOK
  <1>6. subscriptions' \in [Destinations -> 0..subscriptionCounter'] /\ ws' \in 0..opened'
    BY <1>1, ClientAssumption DEF Disconnect, ClientInv, TypeOK, Ids, NoSocket, NoId
  <1>7. /\ opened' = opened /\ timers' = timers /\ greeted' = greeted
        /\ subscriptionCounter' = subscriptionCounter
        /\ mounted' \in BOOLEAN /\ connected' \in BOOLEAN
        /\ reconnectAttempts' \in 0..MaxReconnectAttempts
        /\ callbacks' \in [Destinations -> SUBSET Listeners]
    <2>1. /\ opened' = opened /\ timers' = timers /\ greeted' = greeted
          /\ subscriptionCounter' = subscriptionCounter
          /\ mounted' \in BOOLEAN /\ connected' = FALSE
          /\ reconnectAttempts' = 0
      BY DEF Disconnect
    <2>2. callbacks' \in [Destinations -> SUBSET Listeners]
      BY DEF Disconnect
    <2>3. reconnectAttempts' \in 0..MaxReconnectAttempts
      BY <2>1, ClientAssumption
    <2>4. connected' \in BOOLEAN
      BY <2>1
    <2> QED BY <2>1, <2>2, <2>3, <2>4
  <1>8. TypeOK'
    BY <1>3, <1>4, <1>5, <1>6, <1>7 DEF ClientInv, TypeOK
  <1>9. OpenedInOrder' /\ SubscribedOnce'
    <2>1. ASSUME NEW t \in Sockets, t > opened' PROVE readyState'[t] = "none"
      <3>1. readyState[t] = "none"
        BY <1>7, <2>1 DEF ClientInv, OpenedInOrder
      <3> QED BY <1>2, <3>1
    <2>2. ASSUME NEW t \in Sockets, NEW p \in served'[t], NEW q \in served'[t], p[1] = q[1]
          PROVE  p = q
      <3>1. p \in served[t] /\ q \in served[t]
        BY <1>2, <2>2
      <3> QED BY <2>2, <3>1 DEF ClientInv, SubscribedOnce
    <2> QED BY <2>1, <2>2 DEF OpenedInOrder, SubscribedOnce
  <1>10. CurrentNotClosing' /\ CurrentIsHeld'
    BY <1>1 DEF CurrentNotClosing, CurrentIsHeld
  <1> QED BY <1>8, <1>9, <1>10 DEF ClientInv

--------------------------------------------------------------------------------
(* Subscriptions *)

\* SubscribeTo adds at most one subscription for each destination it did not hold,
\* under an id of its own, and only on the current socket.
LEMMA SubscribeToEffect ==
  ASSUME NEW dests \in SUBSET Destinations, ClientInv, SubscribeTo(dests)
  PROVE  /\ subscriptionCounter' \in Ids /\ subscriptionCounter' >= subscriptionCounter
         /\ subscriptions' \in [Destinations -> 0..subscriptionCounter']
         /\ \A d \in Destinations : subscriptions[d] # NoId => subscriptions'[d] = subscriptions[d]
         /\ served' \in [Sockets -> SUBSET (Destinations \X Ids)]
         /\ \A t \in Sockets : served'[t] # served[t] => IsOpen /\ t = ws
         /\ \A t \in Sockets : \A p \in served'[t] \ served[t] :
              /\ p \in dests \X Ids /\ p[2] # NoId
              /\ subscriptions[p[1]] = NoId /\ subscriptions'[p[1]] = p[2]
  <1> DEFINE new == NotYet(dests)
             first == subscriptionCounter + 1
             last == subscriptionCounter + Cardinality(new)
  <1>1. new \subseteq Destinations /\ IsFiniteSet(new)
    BY ClientAssumption, FS_Subset DEF NotYet
  <1>2. Cardinality(new) \in Nat
    BY <1>1, FS_CardinalityType
  <1> HIDE DEF new
  <1>3. subscriptionCounter \in Nat /\ last <= MaxIds /\ subscriptionCounter' = last
    BY DEF SubscribeTo, new, ClientInv, TypeOK, Ids
  <1>4. PICK id \in [new -> first..last] :
          /\ subscriptions' = [d \in Destinations |-> IF d \in new THEN id[d] ELSE subscriptions[d]]
          /\ served' = IF IsOpen THEN [served EXCEPT ![ws] = @ \cup {<<d, id[d]>> : d \in new}]
                       ELSE served
    BY DEF SubscribeTo, new
  <1>5. \A d \in new : id[d] \in Nat /\ id[d] # NoId /\ id[d] <= last
    BY <1>2, <1>3, <1>4 DEF NoId
  <1>6. subscriptionCounter' \in Ids /\ subscriptionCounter' >= subscriptionCounter
    BY <1>2, <1>3, ClientAssumption DEF Ids
  <1>7. subscriptions' \in [Destinations -> 0..subscriptionCounter']
    BY <1>2, <1>3, <1>4, <1>5 DEF ClientInv, TypeOK
  <1>8. \A d \in new : d \in dests /\ subscriptions[d] = NoId
    BY DEF new, NotYet
  <1>9. DOMAIN served' = Sockets /\ \A t \in Sockets : served'[t] # served[t] => IsOpen /\ t = ws
    BY <1>4 DEF ClientInv, TypeOK
  <1>10. ASSUME NEW t \in Sockets, NEW p \in served'[t] \ served[t]
         PROVE  \E d \in new : p = <<d, id[d]>>
    BY <1>4, <1>9, <1>10 DEF ClientInv, TypeOK
  <1>11. \A d \in new : id[d] \in Ids
    BY <1>3, <1>5, ClientAssumption DEF Ids
  <1>12. \A d \in new : subscriptions'[d] = id[d]
    BY <1>1, <1>4
  <1>13. \A t \in Sockets : \A p \in served'[t] \ served[t] :
           /\ p \in dests \X Ids /\ p[2] # NoId
           /\ subscriptions[p[1]] = NoId /\ subscriptions'[p[1]] = p[2]
    BY <1>5, <1>8, <1>10, <1>11, <1>12
  <1>14. \A d \in Destinations : subscriptions[d] # NoId => subscriptions'[d] = subscriptions[d]
    BY <1>4, <1>8
  <1>15. served' \in [Sockets -> SUBSET (Destinations \X Ids)]
    <2>1. ASSUME NEW t \in Sockets, NEW p \in served'[t] PROVE p \in Destinations \X Ids
      <3>1. CASE p \in served[t]
        BY <3>1 DEF ClientInv, TypeOK
      <3>2. CASE p \notin served[t]
        BY <1>13, <2>1, <3>2
      <3> QED BY <3>1, <3>2
    <2>2. \A t \in Sockets : served'[t] \subseteq Destinations \X Ids
      BY <2>1
    <2>3. served' = [t \in Sockets |-> served'[t]]
      BY <1>4, <1>9 DEF ClientInv, TypeOK
    <2> QED BY <2>2, <2>3
  <1> QED BY <1>6, <1>7, <1>9, <1>13, <1>14, <1>15

\* After SubscribeTo of destinations with listeners, no listener having gone.
LEMMA SubscribeToInv ==
  ASSUME NEW dests \in SUBSET Destinations, ClientInv, SubscribeTo(dests),
         \A d \in dests : callbacks'[d] # {},
         \A d \in Destinations : callbacks[d] # {} => callbacks'[d] # {},
         ws' = ws, readyState' = readyState, opened' = opened
  PROVE  /\ CurrentIsHeld' /\ SubscribedOnce' /\ OpenedInOrder' /\ CurrentNotClosing'
         /\ \A s \in Sockets : served'[s] # {} => readyState'[s] \in {"open", "closing"}
  <1> USE SubscribeToEffect
  <1>1. \A s \in Sockets : served'[s] \subseteq Destinations \X Ids
    OBVIOUS
  <1>2. \A s \in Sockets : served'[s] # {} => readyState'[s] \in {"open", "closing"}
    BY DEF ClientInv, TypeOK, IsOpen
  <1>3. ASSUME ws # NoSocket, NEW p \in served'[ws]
        PROVE  p[2] # NoId /\ subscriptions'[p[1]] = p[2] /\ callbacks'[p[1]] # {}
    <2>1. ws \in Sockets
      BY <1>3, ClientAssumption DEF ClientInv, TypeOK, Sockets, NoSocket
    <2>2. CASE p \in served[ws]
      <3>1. p[1] \in Destinations
        BY <2>1, <2>2 DEF ClientInv, TypeOK
      <3>2. p[2] # NoId /\ subscriptions[p[1]] = p[2] /\ callbacks[p[1]] # {}
        BY <1>3, <2>2 DEF ClientInv, CurrentIsHeld
      <3> QED BY <3>1, <3>2
    <2>3. CASE p \notin served[ws]
      <3>1. p \in served'[ws] \ served[ws]
        BY <1>3, <2>3
      <3>2. p \in dests \X Ids /\ p[2] # NoId /\ subscriptions'[p[1]] = p[2]
        BY <2>1, <3>1
      <3> QED BY <3>2
    <2> QED BY <2>2, <2>3
  <1>4. CurrentIsHeld'
    BY <1>3 DEF CurrentIsHeld
  <1>5. SubscribedOnce'
    <2> SUFFICES ASSUME NEW s \in Sockets, NEW p \in served'[s], NEW q \in served'[s], p[1] = q[1]
                 PROVE  p = q
      BY DEF SubscribedOnce
    <2>1. CASE served'[s] = served[s]
      BY <2>1 DEF ClientInv, SubscribedOnce
    <2>2. CASE served'[s] # served[s]
      <3>1. s = ws /\ ws # NoSocket
        BY <2>2 DEF IsOpen
      <3>2. p[2] = subscriptions'[p[1]] /\ q[2] = subscriptions'[q[1]]
        BY <1>3, <3>1
      <3>3. p \in Destinations \X Ids /\ q \in Destinations \X Ids
        BY <1>1
      <3> QED BY <3>2, <3>3
    <2> QED BY <2>1, <2>2
  <1>6. OpenedInOrder' /\ CurrentNotClosing'
    BY DEF ClientInv, OpenedInOrder, CurrentNotClosing
  <1> QED BY <1>1, <1>2, <1>4, <1>5, <1>6

LEMMA OnConnectedInv ==
  ASSUME NEW s \in Sockets, ClientInv, OnConnected(s)
  PROVE  ClientInv'
  <1> DEFINE dests == {d \in Destinations : callbacks[d] # {}}
  <1>1. SubscribeTo(dests) /\ callbacks' = callbacks /\ dests \in SUBSET Destinations
    BY DEF OnConnected
  <1>2. ws' = ws /\ readyState' = readyState /\ opened' = opened /\ timers' = timers
    BY DEF OnConnected, socketVars
  <1>3. \A d \in dests : callbacks'[d] # {}
    BY <1>1
  <1> HIDE DEF dests
  <1>4. /\ CurrentIsHeld' /\ SubscribedOnce' /\ OpenedInOrder' /\ CurrentNotClosing'
        /\ \A t \in Sockets : served'[t] # {} => readyState'[t] \in {"open", "closing"}
    BY <1>1, <1>2, <1>3, SubscribeToInv
  <1>5. /\ subscriptionCounter' \in Ids /\ subscriptions' \in [Destinations -> 0..subscriptionCounter']
        /\ served' \in [Sockets -> SUBSET (Destinations \X Ids)]
    BY <1>1, SubscribeToEffect
  <1>6. /\ mounted' = mounted /\ connected' = TRUE /\ reconnectAttempts' = 0
        /\ greeted' = [greeted EXCEPT ![s] = FALSE]
    BY DEF OnConnected
  <1>7. reconnectAttempts' \in 0..MaxReconnectAttempts /\ greeted' \in [Sockets -> BOOLEAN]
    BY <1>6, ClientAssumption DEF ClientInv, TypeOK
  <1>8. TypeOK'
    BY <1>1, <1>2, <1>4, <1>5, <1>6, <1>7 DEF ClientInv, TypeOK
  <1> QED BY <1>4, <1>8 DEF ClientInv

LEMMA SubscribeInv ==
  ASSUME NEW feed \in Feeds, NEW l \in Listeners, ClientInv, Subscribe(feed, l)
  PROVE  ClientInv'
  <1>1. feed \in SUBSET Destinations
    BY ClientAssumption
  <1>2. callbacks' = [d \in Destinations |-> callbacks[d] \cup IF d \in feed THEN {l} ELSE {}]
    BY DEF Subscribe
  <1>3. /\ \A d \in feed : callbacks'[d] # {}
        /\ \A d \in Destinations : callbacks[d] # {} => callbacks'[d] # {}
    BY <1>1, <1>2
  <1>4. callbacks' \in [Destinations -> SUBSET Listeners]
    BY <1>2 DEF ClientInv, TypeOK
  <1>5. /\ ws' = ws /\ readyState' = readyState /\ opened' = opened /\ timers' = timers
        /\ mounted' = mounted /\ greeted' = greeted
        /\ connected' = connected /\ reconnectAttempts' = reconnectAttempts
    BY DEF Subscribe, socketVars, stateVars
  <1>6. CASE SubscribeTo(feed)
    <2>1. /\ CurrentIsHeld' /\ SubscribedOnce' /\ OpenedInOrder' /\ CurrentNotClosing'
          /\ \A t \in Sockets : served'[t] # {} => readyState'[t] \in {"open", "closing"}
      BY <1>1, <1>3, <1>5, <1>6, SubscribeToInv
    <2>2. /\ subscriptionCounter' \in Ids /\ subscriptions' \in [Destinations -> 0..subscriptionCounter']
          /\ served' \in [Sockets -> SUBSET (Destinations \X Ids)]
      BY <1>1, <1>6, SubscribeToEffect
    <2>3. TypeOK'
      BY <1>4, <1>5, <2>1, <2>2 DEF ClientInv, TypeOK
    <2> QED BY <2>1, <2>3 DEF ClientInv
  <1>7. CASE UNCHANGED <<subscriptions, subscriptionCounter, served>>
    <2>1. TypeOK'
      BY <1>4, <1>5, <1>7 DEF ClientInv, TypeOK
    <2>2. CurrentIsHeld'
      <3> SUFFICES ASSUME ws # NoSocket, NEW p \in served[ws]
                   PROVE  p[2] # NoId /\ subscriptions[p[1]] = p[2] /\ callbacks'[p[1]] # {}
        BY <1>5, <1>7 DEF CurrentIsHeld
      <3>1. ws \in Sockets
        BY ClientAssumption DEF ClientInv, TypeOK, Sockets, NoSocket
      <3>2. p[1] \in Destinations
        BY <3>1 DEF ClientInv, TypeOK
      <3> QED BY <1>3, <3>2 DEF ClientInv, CurrentIsHeld
    <2>3. SubscribedOnce' /\ OpenedInOrder' /\ CurrentNotClosing'
      BY <1>5, <1>7 DEF ClientInv, SubscribedOnce, OpenedInOrder, CurrentNotClosing
    <2> QED BY <2>1, <2>2, <2>3 DEF ClientInv
  <1> QED BY <1>6, <1>7 DEF Subscribe

LEMMA UnsubscribeInv ==
  ASSUME NEW feed \in Feeds, NEW l \in Listeners, ClientInv, Unsubscribe(feed, l)
  PROVE  ClientInv'
  <1> DEFINE dests == {d \in feed : callbacks[d] = {l} /\ subscriptions[d] # NoId}
  <1>1. feed \subseteq Destinations
    BY ClientAssumption
  <1>2. callbacks' = [d \in Destinations |-> callbacks[d] \ IF d \in feed THEN {l} ELSE {}]
    BY DEF Unsubscribe
  <1>3. /\ ws' = ws /\ readyState' = readyState /\ opened' = opened /\ timers' = timers
        /\ mounted' = mounted /\ greeted' = greeted /\ subscriptionCounter' = subscriptionCounter
        /\ connected' = connected /\ reconnectAttempts' = reconnectAttempts
    BY DEF Unsubscribe, socketVars, stateVars
  <1>4. callbacks' \in [Destinations -> SUBSET Listeners]
    BY <1>2 DEF ClientInv, TypeOK
  <1>5. OpenedInOrder' /\ CurrentNotClosing'
    BY <1>3 DEF ClientInv, OpenedInOrder, CurrentNotClosing
  <1>6. ws # NoSocket => ws \in Sockets
    BY ClientAssumption DEF ClientInv, TypeOK, Sockets, NoSocket
  <1>7. CASE IsOpen /\ SendUnsubscribe(dests)
    <2>1. /\ subscriptions' = [d \in Destinations |-> IF d \in dests THEN NoId ELSE subscriptions[d]]
          /\ served' = [served EXCEPT ![ws] = {p \in @ : \A d \in dests : p[2] # subscriptions[d]}]
      BY <1>7 DEF SendUnsubscribe
    <2>2. subscriptions' \in [Destinations -> 0..subscriptionCounter]
      BY <2>1, ClientAssumption DEF ClientInv, TypeOK, Ids, NoId
    <2>3. ws # NoSocket /\ ws \in Sockets
      BY <1>6, <1>7 DEF IsOpen
    <2>4. \A t \in Sockets : served'[t] \subseteq served[t]
      BY <2>1, <2>3 DEF ClientInv, TypeOK
    <2>5. served' \in [Sockets -> SUBSET (Destinations \X Ids)]
      BY <2>1, <2>3 DEF ClientInv, TypeOK
    <2>6. TypeOK'
      BY <1>3, <1>4, <2>2, <2>4, <2>5 DEF ClientInv, TypeOK
    <2>7. SubscribedOnce'
      BY <2>4 DEF ClientInv, SubscribedOnce
    <2>8. ASSUME NEW p \in served'[ws]
          PROVE  p[2] # NoId /\ subscriptions'[p[1]] = p[2] /\ callbacks'[p[1]] # {}
      <3>1. p \in served[ws] /\ p[1] \in Destinations
        BY <2>3, <2>4, <2>8 DEF ClientInv, TypeOK
      <3>2. p[2] # NoId /\ subscriptions[p[1]] = p[2] /\ callbacks[p[1]] # {}
        BY <2>3, <3>1 DEF ClientInv, CurrentIsHeld
      <3>3. p[1] \notin dests
        <4>1. \A d \in dests : p[2] # subscriptions[d]
          BY <2>1, <2>3, <2>8 DEF ClientInv, TypeOK
        <4> QED BY <3>2, <4>1
      <3>4. subscriptions'[p[1]] = p[2]
        BY <2>1, <3>1, <3>2, <3>3
      <3>5. p[1] \in feed => callbacks[p[1]] # {l}
        BY <3>2, <3>3
      <3>6. callbacks'[p[1]] # {}
        BY <1>2, <3>1, <3>2, <3>5
      <3> QED BY <3>2, <3>4, <3>6
    <2>9. CurrentIsHeld'
      BY <1>3, <2>8 DEF CurrentIsHeld
    <2> QED BY <1>5, <2>6, <2>7, <2>9 DEF ClientInv
  <1>8. CASE ~IsOpen /\ UNCHANGED <<subscriptions, served>>
    <2>1. TypeOK'
      BY <1>3, <1>4, <1>8 DEF ClientInv, TypeOK
    <2>2. ws # NoSocket => served[ws] = {}
      BY <1>6, <1>8 DEF ClientInv, TypeOK, CurrentNotClosing, IsOpen
    <2>3. CurrentIsHeld' /\ SubscribedOnce'
      BY <1>3, <1>8, <2>2 DEF ClientInv, CurrentIsHeld, SubscribedOnce
    <2> QED BY <1>5, <2>1, <2>3 DEF ClientInv
  <1> QED BY <1>7, <1>8 DEF Unsubscribe

--------------------------------------------------------------------------------

LEMMA NextClientInv == ClientInv /\ [Next]_vars => ClientInv'
  <1> SUFFICES ASSUME ClientInv, [Next]_vars PROVE ClientInv'
    OBVIOUS
  <1>1. CASE Connect
    BY <1>1, ConnectInv
  <1>2. CASE ConnectInternal
    BY <1>2, ConnectInternalInv
  <1>3. CASE Disconnect
    BY <1>3, DisconnectInv
  <1>4. CASE \E s \in Sockets : OnOpen(s) \/ OnConnected(s) \/ OnClose(s)
    BY <1>4, OnOpenInv, OnConnectedInv, OnCloseInv
  <1>5. CASE \E feed \in Feeds, l \in Listeners : Subscribe(feed, l) \/ Unsubscribe(feed, l)
    BY <1>5, SubscribeInv, UnsubscribeInv
  <1>6. CASE UNCHANGED vars
    BY <1>6
    DEF vars, socketVars, stateVars, subVars, ClientInv, TypeOK, OpenedInOrder, CurrentNotClosing,
        CurrentIsHeld, SubscribedOnce
  <1> QED BY <1>1, <1>2, <1>3, <1>4, <1>5, <1>6 DEF Next

\* The invariant of the client: what the current socket serves it holds the id of.
THEOREM ClientInvariant == Spec => []ClientInv
BY InitClientInv, NextClientInv, PTL DEF Spec

\* Types of the client, its sockets and timers; only an open or closing socket is served.
THEOREM ClientTypes == Spec => []TypeOK
  <1>1. ClientInv => TypeOK
    BY DEF ClientInv
  <1> QED BY <1>1, ClientInvariant, PTL

\* subscribeToDestination never subscribes a destination twice on one socket, however
\* many sockets timers open and whichever of them fail.
THEOREM ClientSubscribesOnce == Spec => []SubscribedOnce
  <1>1. ClientInv => SubscribedOnce
    BY DEF ClientInv
  <1> QED BY <1>1, ClientInvariant, PTL

\* unsubscribe and disconnect leave nothing on the current socket that has no
\* listener, or whose id is lost.
THEOREM ClientLeavesNothing == Spec => []NothingLeftBehind
  <1>1. ClientInv => NothingLeftBehind
    BY DEF ClientInv, CurrentIsHeld, NothingLeftBehind, IsOpen
  <1> QED BY <1>1, ClientInvariant, PTL

================================================================================
