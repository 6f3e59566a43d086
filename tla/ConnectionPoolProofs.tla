-------------------------- MODULE ConnectionPoolProofs --------------------------
(***************************************************************************)
(* The one way the broker can come to a standstill, for a pool of any size   *)
(* and any number of requests, handlers and exchanges.  Who waits for what   *)
(* is read off the two kinds of queues: the pool's holds exactly the tasks   *)
(* that want a connection, the mutex of an exchange those of its handlers    *)
(* that want it or have it.  What a task holds follows from how far it is.   *)
(***************************************************************************)
EXTENDS ConnectionPool, FiniteSetTheorems, SequenceTheorems, TLAPS

--------------------------------------------------------------------------------
(* Queues without duplicates *)

In(q, t) == \E i \in 1..Len(q) : q[i] = t

Distinct(q) == \A i, j \in 1..Len(q) : q[i] = q[j] => i = j

LEMMA Joined ==
  ASSUME NEW S, NEW q \in Seq(S), NEW t \in S, ~In(q, t), Distinct(q)
  PROVE  /\ Append(q, t) \in Seq(S)
         /\ Distinct(Append(q, t))
         /\ \A u : In(Append(q, t), u) <=> (In(q, u) \/ u = t)
         /\ Append(q, t) # <<>>
         /\ q # <<>> => Head(Append(q, t)) = Head(q)
  <1> DEFINE r == Append(q, t)
  <1>1. /\ r \in Seq(S) /\ r # <<>> /\ Len(r) = Len(q) + 1 /\ Len(q) \in Nat
        /\ \A i \in 1..Len(q) : r[i] = q[i]
        /\ r[Len(q) + 1] = t
    BY AppendProperties
  <1> HIDE DEF r
  <1>2. Distinct(r)
    BY <1>1 DEF Distinct, In
  <1>3. ASSUME NEW u PROVE In(r, u) <=> (In(q, u) \/ u = t)
    <2>1. \A i \in 1..Len(r) : i \in 1..Len(q) \/ i = Len(q) + 1
      BY <1>1
    <2>2. Len(q) + 1 \in 1..Len(r) /\ \A i \in 1..Len(q) : i \in 1..Len(r)
      BY <1>1
    <2> QED
      BY <2>1, <2>2, <1>1 DEF In
  <1>4. q # <<>> => Head(r) = Head(q)
    <2>1. q # <<>> => 1 \in 1..Len(q)
      BY <1>1, EmptySeq
    <2> QED
      BY <2>1, <1>1
  <1> QED
    BY <1>1, <1>2, <1>3, <1>4 DEF r

LEMMA Served ==
  ASSUME NEW S, NEW q \in Seq(S), q # <<>>, Distinct(q)
  PROVE  /\ Tail(q) \in Seq(S)
         /\ Distinct(Tail(q))
         /\ In(q, Head(q))
         /\ \A u : In(Tail(q), u) <=> (In(q, u) /\ u # Head(q))
  <1> DEFINE r == Tail(q)
  <1>1. /\ r \in Seq(S) /\ Len(r) = Len(q) - 1 /\ Len(q) \in Nat /\ Len(r) \in Nat
        /\ \A i \in 1..Len(r) : r[i] = q[i + 1]
        /\ Head(q) = q[1] /\ 1 \in 1..Len(q)
    BY HeadTailProperties, EmptySeq
  <1> HIDE DEF r
  <1>2. Distinct(r)
    <2>1. \A i \in 1..Len(r) : i \in Int /\ i + 1 \in 1..Len(q)
      BY <1>1
    <2> QED
      BY <2>1, <1>1 DEF Distinct
  <1>3. ASSUME NEW u PROVE In(r, u) <=> (In(q, u) /\ u # Head(q))
    <2>1. ASSUME In(r, u) PROVE In(q, u) /\ u # Head(q)
      <3>1. PICK i \in 1..Len(r) : r[i] = u
        BY <2>1 DEF In
      <3>2. i + 1 \in 1..Len(q) /\ q[i + 1] = u /\ i + 1 # 1
        BY <3>1, <1>1
      <3> QED
        BY <3>2, <1>1 DEF In, Distinct
    <2>2. ASSUME In(q, u), u # Head(q) PROVE In(r, u)
      <3>1. PICK i \in 1..Len(q) : q[i] = u
        BY <2>2 DEF In
      <3>2. i # 1
        BY <3>1, <2>2, <1>1
      <3>3. i - 1 \in 1..Len(r) /\ r[i - 1] = u
        BY <3>1, <3>2, <1>1
      <3> QED
        BY <3>3 DEF In
    <2> QED
      BY <2>1, <2>2
  <1>4. In(q, Head(q))
    BY <1>1 DEF In
  <1> QED
    BY <1>1, <1>2, <1>3, <1>4 DEF r

LEMMA SomeoneWaits ==
  ASSUME NEW S, NEW q \in Seq(S)
  PROVE  (q # <<>>) <=> \E t : In(q, t)
  BY EmptySeq, LenProperties DEF In

--------------------------------------------------------------------------------
(* The inductive invariant *)

States == {"idle", "working", "waiting", "returned"}

PoolTypes ==
  /\ at \in [Tasks -> Nat]
  /\ \A t \in Tasks : at[t] <= Len(Path(t))
  /\ state \in [Tasks -> States]
  /\ held \in [Tasks -> Nat]
  /\ free \in Nat
  /\ waiting \in Seq(Tasks)
  /\ mutex \in [Exchanges -> Seq(Handlers)]
  /\ attempts \in [Tasks -> 0..MaxAttempts]

\* The connections a task holds between its awaits.
Due(t) ==
  CASE t \in Submits -> IF at[t] \in {0, 2} THEN 0 ELSE IF at[t] \in {1, 3} THEN 1 ELSE 2
    [] t \in Cancels \cup Reads -> IF at[t] = 0 THEN 0 ELSE 1
    [] t \in Handlers -> IF at[t] = 2 THEN 1 ELSE 0

AtWork(t) == state[t] \in {"working", "waiting"}

HeldIsDue ==
  \A t \in Tasks :
    /\ held[t] = IF AtWork(t) THEN Due(t) ELSE 0
    /\ state[t] = "idle" => at[t] = 0
    /\ state[t] = "waiting" => at[t] < Len(Path(t)) /\ Wanted(t) # "release"

WaitsForConnection(t) == state[t] = "waiting" /\ Wanted(t) = "connection"

\* The queue of the pool holds the tasks that wait for a connection, each once.
QueuedAtPool ==
  /\ Distinct(waiting)
  /\ \A t \in Tasks : In(waiting, t) <=> WaitsForConnection(t)

InSection(t) == AtWork(t) /\ at[t] > 0

WaitsForMutex(t) == state[t] = "waiting" /\ at[t] = 0

\* The queue of a mutex holds the handlers of its exchange that wait for it or
\* hold it; who holds it is the head.
QueuedAtMutex ==
  /\ \A x \in Exchanges : Distinct(mutex[x])
  /\ \A x \in Exchanges, t \in Handlers :
       In(mutex[x], t) <=> (ExchangeOf[t] = x /\ (WaitsForMutex(t) \/ InSection(t)))
  /\ \A t \in Handlers : InSection(t) => Head(mutex[ExchangeOf[t]]) = t

\* Connections given out, one element for each.
Given == {p \in Tasks \X {1, 2} : p[2] <= held[p[1]]}

\* No connection is lost or made up.
ConnectionsConserved == free + Cardinality(Given) = PoolSize

PoolInv == PoolTypes /\ HeldIsDue /\ QueuedAtPool /\ QueuedAtMutex /\ ConnectionsConserved

--------------------------------------------------------------------------------
(* How far a task is, and what it holds *)

LEMMA PlaceFacts ==
  ASSUME NEW t \in Tasks, at \in [Tasks -> Nat], at[t] <= Len(Path(t))
  PROVE  /\ Due(t) \in 0..2
         /\ at[t] = 0 => Due(t) = 0
         /\ t \in Handlers => at[t] \in 0..2
         /\ at[t] < Len(Path(t)) =>
              /\ Wanted(t) \in {"connection", "mutex", "exchange", "release"}
              /\ Wanted(t) = "mutex" <=> (t \in Handlers /\ at[t] = 0)
              /\ Wanted(t) = "release" => Due(t) = 1
              /\ Wanted(t) = "connection" =>
                   Due(t) = IF t \in Submits /\ at[t] = 3 THEN 1 ELSE 0
  <1>1. CASE t \in Submits
    BY <1>1, PoolAssumption DEF Path, SubmitPath, Due, Wanted, Tasks, Requests, Handlers
  <1>2. CASE t \in Cancels
    BY <1>2, PoolAssumption DEF Path, CancelPath, Due, Wanted, Tasks, Requests, Handlers
  <1>3. CASE t \in Reads
    BY <1>3, PoolAssumption DEF Path, ReadPath, Due, Wanted, Tasks, Requests, Handlers
  <1>4. CASE t \in Handlers
    BY <1>4, PoolAssumption DEF Path, HandlerPath, Due, Wanted, Tasks, Requests, Handlers
  <1> QED
    BY <1>1, <1>2, <1>3, <1>4 DEF Tasks, Requests

LEMMA NextPlace ==
  ASSUME NEW t \in Tasks, at \in [Tasks -> Nat], at[t] < Len(Path(t)),
         at' = [at EXCEPT ![t] = @ + 1]
  PROVE  /\ at' \in [Tasks -> Nat]
         /\ \A u \in Tasks : u # t => at'[u] = at[u]
         /\ at'[t] = at[t] + 1 /\ at'[t] <= Len(Path(t))
         /\ Wanted(t) = "connection" => Due(t)' = Due(t) + 1
         /\ Wanted(t) = "release" => Due(t)' = Due(t) - 1
         /\ Wanted(t) \notin {"connection", "release"} => Due(t)' = Due(t)
  <1>1. /\ at' \in [Tasks -> Nat] /\ at'[t] = at[t] + 1
        /\ \A u \in Tasks : u # t => at'[u] = at[u]
    OBVIOUS
  <1>2. CASE t \in Submits
    BY <1>1, <1>2, PoolAssumption DEF Path, SubmitPath, Due, Wanted, Tasks, Requests, Handlers
  <1>3. CASE t \in Cancels
    BY <1>1, <1>3, PoolAssumption DEF Path, CancelPath, Due, Wanted, Tasks, Requests, Handlers
  <1>4. CASE t \in Reads
    BY <1>1, <1>4, PoolAssumption DEF Path, ReadPath, Due, Wanted, Tasks, Requests, Handlers
  <1>5. CASE t \in Handlers
    BY <1>1, <1>5, PoolAssumption DEF Path, HandlerPath, Due, Wanted, Tasks, Requests, Handlers
  <1> QED
    BY <1>1, <1>2, <1>3, <1>4, <1>5 DEF Tasks, Requests

LEMMA Undisturbed ==
  ASSUME NEW t \in Tasks, at'[t] = at[t], state'[t] = state[t]
  PROVE  /\ Due(t)' = Due(t) /\ Wanted(t)' = Wanted(t) /\ AtWork(t)' = AtWork(t)
         /\ WaitsForConnection(t)' = WaitsForConnection(t)
         /\ WaitsForMutex(t)' = WaitsForMutex(t) /\ InSection(t)' = InSection(t)
  BY DEF Due, Wanted, AtWork, WaitsForConnection, WaitsForMutex, InSection

LEMMA GivenIsFinite ==
  ASSUME held \in [Tasks -> Nat]
  PROVE  IsFiniteSet(Given) /\ Cardinality(Given) \in Nat
  <1>1. IsFiniteSet({1, 2})
    <2>1. IsFiniteSet({1} \cup {2})
      BY FS_Singleton, FS_AddElement
    <2>2. {1} \cup {2} = {1, 2}
      OBVIOUS
    <2> QED
      BY <2>1, <2>2
  <1>2. IsFiniteSet(Tasks \X {1, 2})
    BY <1>1, FS_Product, PoolAssumption
  <1> QED
    BY <1>2, FS_Subset, FS_CardinalityType DEF Given

LEMMA WithoutOne ==
  ASSUME NEW S, IsFiniteSet(S), NEW x \in S
  PROVE  IsFiniteSet(S \ {x}) /\ Cardinality(S \ {x}) = Cardinality(S) - 1
  BY FS_RemoveElement

LEMMA OneMore ==
  ASSUME NEW t \in Tasks, held \in [Tasks -> Nat], held[t] \in 0..1,
         held' = [held EXCEPT ![t] = @ + 1]
  PROVE  Cardinality(Given') = Cardinality(Given) + 1
  <1>1. Given' = Given \cup {<<t, held[t] + 1>>}
    BY DEF Given
  <1>2. <<t, held[t] + 1>> \notin Given
    BY DEF Given
  <1> QED
    BY <1>1, <1>2, GivenIsFinite, FS_AddElement

LEMMA OneLess ==
  ASSUME NEW t \in Tasks, held \in [Tasks -> Nat], held[t] \in 1..2,
         held' = [held EXCEPT ![t] = @ - 1]
  PROVE  Cardinality(Given') = Cardinality(Given) - 1
  <1>1. Given' = Given \ {<<t, held[t]>>}
    BY DEF Given
  <1>2. <<t, held[t]>> \in Given
    BY DEF Given
  <1> QED
    BY <1>1, <1>2, GivenIsFinite, FS_RemoveElement

LEMMA AllDropped ==
  ASSUME NEW t \in Tasks, held \in [Tasks -> Nat], held[t] \in 0..2,
         held' = [held EXCEPT ![t] = 0]
  PROVE  Cardinality(Given') = Cardinality(Given) - held[t]
  <1>1. CASE held[t] = 0
    <2>1. held' = held
      BY <1>1
    <2>2. Given' = Given
      BY <2>1 DEF Given
    <2> QED
      BY <1>1, <2>2, GivenIsFinite
  <1>2. CASE held[t] = 1
    <2>1. held' = [held EXCEPT ![t] = @ - 1]
      BY <1>2
    <2>2. held[t] \in 1..2
      BY <1>2
    <2>3. Cardinality(Given') = Cardinality(Given) - 1
      BY <2>1, <2>2, OneLess
    <2> QED
      BY <1>2, <2>3
  <1>3. CASE held[t] = 2
    <2> DEFINE G == Given \ {<<t, 1>>}
    <2>1. Given' = G \ {<<t, 2>>}
      <3>1. \A u \in Tasks, k \in {1, 2} :
              k <= held'[u] <=> (k <= held[u] /\ <<u, k>> # <<t, 1>> /\ <<u, k>> # <<t, 2>>)
        BY <1>3
      <3> QED
        BY <3>1 DEF Given
    <2>2. /\ <<t, 1>> \in Given /\ <<t, 2>> \in G
      BY <1>3 DEF Given
    <2>3. IsFiniteSet(G) /\ Cardinality(G) = Cardinality(Given) - 1
      BY <2>2, GivenIsFinite, WithoutOne
    <2> HIDE DEF G
    <2>4. Cardinality(G \ {<<t, 2>>}) = Cardinality(G) - 1
      BY <2>2, <2>3, WithoutOne
    <2>5. Cardinality(Given') = Cardinality(G) - 1
      BY <2>1, <2>4
    <2>6. Cardinality(Given) \in Nat
      BY GivenIsFinite
    <2> QED
      BY <1>3, <2>3, <2>5, <2>6
  <1> QED
    BY <1>1, <1>2, <1>3

LEMMA InitPoolInv == Init => PoolInv
  <1> SUFFICES ASSUME Init PROVE PoolInv
    OBVIOUS
  <1>1. PoolTypes
    <2>1. \A t \in Tasks : Len(Path(t)) >= 0
      <3>1. \A p \in {SubmitPath, CancelPath, ReadPath, HandlerPath} : Len(p) >= 0
        BY DEF SubmitPath, CancelPath, ReadPath, HandlerPath
      <3> QED
        BY <3>1 DEF Path, Tasks, Requests
    <2> QED
      BY <2>1, PoolAssumption, EmptySeq DEF Init, PoolTypes, States
  <1>2. HeldIsDue
    BY DEF Init, HeldIsDue, AtWork
  <1>3. QueuedAtPool /\ QueuedAtMutex
    <2>1. Distinct(<<>>) /\ \A t : ~In(<<>>, t)
      BY DEF Distinct, In
    <2>2. \A t \in Tasks : state[t] = "idle" /\ t \in Tasks
      BY DEF Init
    <2>3. \A x \in Exchanges : mutex[x] = <<>>
      BY DEF Init
    <2> QED
      BY <2>1, <2>2, <2>3 DEF Init, QueuedAtPool, QueuedAtMutex, WaitsForConnection,
        WaitsForMutex, InSection, AtWork, Tasks
  <1>4. Given = {}
    BY DEF Init, Given
  <1> QED
    BY <1>1, <1>2, <1>3, <1>4, FS_EmptySet, PoolAssumption
    DEF PoolInv, ConnectionsConserved, Init

--------------------------------------------------------------------------------
(* One lemma for each step *)

\* What a step of t leaves alone at the other tasks.
OnlyMoves(t) ==
  /\ \A u \in Tasks : u # t => at'[u] = at[u] /\ state'[u] = state[u] /\ held'[u] = held[u]

LEMMA OthersHold ==
  ASSUME PoolInv, NEW t \in Tasks, OnlyMoves(t),
         held'[t] = IF AtWork(t)' THEN Due(t)' ELSE 0,
         state'[t] = "idle" => at'[t] = 0,
         state'[t] = "waiting" => at'[t] < Len(Path(t)) /\ Wanted(t)' # "release"
  PROVE  HeldIsDue'
  <1> SUFFICES ASSUME NEW u \in Tasks
               PROVE  /\ held'[u] = IF AtWork(u)' THEN Due(u)' ELSE 0
                      /\ state'[u] = "idle" => at'[u] = 0
                      /\ state'[u] = "waiting" => at'[u] < Len(Path(u)) /\ Wanted(u)' # "release"
    BY DEF HeldIsDue
  <1>1. CASE u = t
    BY <1>1
  <1>2. CASE u # t
    BY <1>2, Undisturbed DEF OnlyMoves, PoolInv, HeldIsDue
  <1> QED
    BY <1>1, <1>2

\* The queues, when t joins none, leaves none and stays what it was for them.
LEMMA QueuesHold ==
  ASSUME PoolInv, NEW t \in Tasks, OnlyMoves(t), waiting' = waiting, mutex' = mutex,
         WaitsForConnection(t)' <=> WaitsForConnection(t),
         t \in Handlers => /\ (WaitsForMutex(t) \/ InSection(t))' <=> (WaitsForMutex(t) \/ InSection(t))
                           /\ InSection(t)' => Head(mutex[ExchangeOf[t]]) = t
  PROVE  QueuedAtPool' /\ QueuedAtMutex'
  <1>1. \A u \in Tasks : u # t =>
          /\ WaitsForConnection(u)' = WaitsForConnection(u)
          /\ WaitsForMutex(u)' = WaitsForMutex(u) /\ InSection(u)' = InSection(u)
    BY Undisturbed DEF OnlyMoves
  <1>2. QueuedAtPool'
    BY <1>1 DEF QueuedAtPool, PoolInv
  <1>3. \A u \in Handlers : u \in Tasks
    BY DEF Tasks
  <1>4. QueuedAtMutex'
    BY <1>1, <1>3 DEF QueuedAtMutex, PoolInv
  <1> QED
    BY <1>2, <1>4

LEMMA SpawnInv ==
  ASSUME PoolInv, NEW t \in Tasks, Spawn(t)
  PROVE  PoolInv'
  <1>1. /\ state[t] = "idle" /\ state' = [state EXCEPT ![t] = "working"]
        /\ attempts' = [attempts EXCEPT ![t] = 1]
        /\ UNCHANGED <<at, held, free, waiting, mutex>>
    BY DEF Spawn
  <1>2. PoolTypes'
    BY <1>1, PoolAssumption DEF PoolInv, PoolTypes, States
  <1>3. state'[t] = "working" /\ OnlyMoves(t) /\ at[t] = 0 /\ held[t] = 0
    BY <1>1 DEF PoolInv, PoolTypes, HeldIsDue, OnlyMoves, AtWork
  <1>4. Due(t)' = 0
    BY <1>1, <1>3, PlaceFacts DEF PoolInv, PoolTypes, Due
  <1>5. HeldIsDue'
    BY <1>1, <1>3, <1>4, OthersHold DEF AtWork
  <1>6. QueuedAtPool' /\ QueuedAtMutex'
    BY <1>1, <1>3, QueuesHold DEF WaitsForConnection, WaitsForMutex, InSection, AtWork
  <1> QED
    BY <1>1, <1>2, <1>5, <1>6 DEF PoolInv, ConnectionsConserved, Given

LEMMA AskInv ==
  ASSUME PoolInv, NEW t \in Tasks, Ask(t)
  PROVE  PoolInv'
  <1>1. /\ state[t] = "working" /\ at[t] < Len(Path(t))
        /\ state' = [state EXCEPT ![t] = "waiting"]
        /\ UNCHANGED <<at, held, free, attempts>>
    BY DEF Ask
  <1>2. /\ state'[t] = "waiting" /\ OnlyMoves(t) /\ Due(t)' = Due(t) /\ Wanted(t)' = Wanted(t)
        /\ held[t] = Due(t)
    BY <1>1 DEF PoolInv, PoolTypes, HeldIsDue, OnlyMoves, AtWork, Due, Wanted
  <1>3. Wanted(t) = "mutex" <=> (t \in Handlers /\ at[t] = 0)
    BY <1>1, PlaceFacts DEF PoolInv, PoolTypes
  <1>4. Wanted(t) # "release"
    BY DEF Ask, AskConnection, AskMutex, AskExchange
  <1>5. HeldIsDue'
    BY <1>1, <1>2, <1>4, OthersHold DEF AtWork
  <1>6. ~In(waiting, t) /\ Distinct(waiting) /\ waiting \in Seq(Tasks)
    BY <1>1 DEF PoolInv, PoolTypes, QueuedAtPool, WaitsForConnection
  <1>7. \A u \in Tasks : u # t =>
          /\ WaitsForConnection(u)' = WaitsForConnection(u)
          /\ WaitsForMutex(u)' = WaitsForMutex(u) /\ InSection(u)' = InSection(u)
    BY <1>2, Undisturbed DEF OnlyMoves
  <1>8. \A u \in Handlers : u \in Tasks
    BY DEF Tasks
  <1>9. CASE AskConnection(t)
    <2>1. waiting' = Append(waiting, t) /\ mutex' = mutex /\ Wanted(t) = "connection"
      BY <1>9 DEF AskConnection
    <2>2. /\ waiting' \in Seq(Tasks) /\ Distinct(waiting')
          /\ \A u : In(waiting', u) <=> (In(waiting, u) \/ u = t)
      BY <1>6, <2>1, Joined
    <2>3. QueuedAtPool'
      BY <1>2, <1>7, <2>1, <2>2 DEF QueuedAtPool, PoolInv, WaitsForConnection
    <2>4. t \in Handlers => InSection(t) /\ InSection(t)' /\ at[t] # 0
      BY <1>1, <1>2, <1>3, <2>1 DEF PoolInv, PoolTypes, InSection, AtWork
    <2>5. QueuedAtMutex'
      BY <1>7, <1>8, <2>1, <2>4 DEF QueuedAtMutex, PoolInv
    <2>6. PoolTypes'
      BY <1>1, <2>1, <2>2 DEF PoolInv, PoolTypes, States
    <2> QED
      BY <1>1, <1>5, <2>3, <2>5, <2>6 DEF PoolInv, ConnectionsConserved, Given
  <1>10. CASE AskMutex(t)
    <2> DEFINE x == ExchangeOf[t]
    <2>1. /\ mutex' = [mutex EXCEPT ![x] = Append(@, t)] /\ waiting' = waiting
          /\ t \in Handlers /\ at[t] = 0 /\ Wanted(t) = "mutex"
      BY <1>10, <1>3 DEF AskMutex
    <2>2. x \in Exchanges /\ mutex[x] \in Seq(Handlers) /\ Distinct(mutex[x]) /\ ~In(mutex[x], t)
      <3>1. x \in Exchanges /\ ~WaitsForMutex(t) /\ ~InSection(t)
        BY <1>1, <2>1, PoolAssumption DEF WaitsForMutex, InSection
      <3> QED
        BY <2>1, <3>1 DEF PoolInv, PoolTypes, QueuedAtMutex
    <2>3. /\ mutex'[x] = Append(mutex[x], t)
          /\ \A y \in Exchanges : y # x => mutex'[y] = mutex[y]
      BY <2>1, <2>2 DEF PoolInv, PoolTypes
    <2>4. /\ mutex'[x] \in Seq(Handlers) /\ Distinct(mutex'[x])
          /\ \A u : In(mutex'[x], u) <=> (In(mutex[x], u) \/ u = t)
          /\ mutex[x] # <<>> => Head(mutex'[x]) = Head(mutex[x])
      BY <2>1, <2>2, <2>3, Joined
    <2>5. WaitsForMutex(t)' /\ ~InSection(t)' /\ ~WaitsForConnection(t)' /\ ~WaitsForConnection(t)
      BY <1>1, <1>2, <2>1 DEF WaitsForMutex, InSection, WaitsForConnection, PoolInv, PoolTypes
    <2>6. ASSUME NEW y \in Exchanges, NEW u \in Handlers
          PROVE  In(mutex'[y], u) <=>
                   (ExchangeOf[u] = y /\ (WaitsForMutex(u)' \/ InSection(u)'))
      <3>1. In(mutex[y], u) <=> (ExchangeOf[u] = y /\ (WaitsForMutex(u) \/ InSection(u)))
        BY DEF PoolInv, QueuedAtMutex
      <3> QED
        BY <1>7, <1>8, <2>2, <2>3, <2>4, <2>5, <3>1
    <2>7. ASSUME NEW u \in Handlers, InSection(u)' PROVE Head(mutex'[ExchangeOf[u]]) = u
      <3>1. u # t /\ InSection(u) /\ ExchangeOf[u] \in Exchanges
        BY <1>7, <1>8, <2>5, <2>7, PoolAssumption
      <3>2. Head(mutex[ExchangeOf[u]]) = u /\ In(mutex[ExchangeOf[u]], u)
        BY <3>1 DEF PoolInv, QueuedAtMutex
      <3>3. mutex[ExchangeOf[u]] \in Seq(Handlers) /\ mutex[ExchangeOf[u]] # <<>>
        BY <3>1, <3>2, SomeoneWaits DEF PoolInv, PoolTypes
      <3> QED
        BY <2>3, <2>4, <3>1, <3>2, <3>3
    <2>8. QueuedAtMutex'
      BY <2>3, <2>4, <2>6, <2>7 DEF QueuedAtMutex, PoolInv
    <2>9. QueuedAtPool'
      BY <1>7, <2>1, <2>5 DEF QueuedAtPool, PoolInv
    <2>10. PoolTypes'
      <3>1. mutex' \in [Exchanges -> Seq(Handlers)]
        BY <2>1, <2>2, <2>3, <2>4 DEF PoolInv, PoolTypes
      <3> QED
        BY <1>1, <2>1, <3>1 DEF PoolInv, PoolTypes, States
    <2> QED
      BY <1>1, <1>5, <2>8, <2>9, <2>10 DEF PoolInv, ConnectionsConserved, Given
  <1>11. CASE AskExchange(t)
    <2>1. waiting' = waiting /\ mutex' = mutex /\ Wanted(t) = "exchange"
      BY <1>11 DEF AskExchange
    <2>2. /\ WaitsForConnection(t)' = WaitsForConnection(t)
          /\ t \in Handlers =>
               /\ InSection(t) /\ InSection(t)'
               /\ Head(mutex[ExchangeOf[t]]) = t
      BY <1>1, <1>2, <1>3, <2>1
      DEF WaitsForConnection, InSection, AtWork, PoolInv, PoolTypes, QueuedAtMutex
    <2>3. QueuedAtPool' /\ QueuedAtMutex'
      BY <1>2, <2>1, <2>2, QueuesHold
    <2>4. PoolTypes'
      BY <1>1, <2>1 DEF PoolInv, PoolTypes, States
    <2> QED
      BY <1>1, <1>5, <2>3, <2>4 DEF PoolInv, ConnectionsConserved, Given
  <1> QED
    BY <1>9, <1>10, <1>11 DEF Ask

LEMMA CheckReturnsInv ==
  ASSUME PoolInv, NEW t \in Tasks, CheckReturns(t)
  PROVE  PoolInv'
  <1>1. /\ state[t] = "working" /\ at[t] < Len(Path(t)) /\ Wanted(t) = "release"
        /\ held' = [held EXCEPT ![t] = @ - 1] /\ free' = free + 1
        /\ at' = [at EXCEPT ![t] = @ + 1]
        /\ UNCHANGED <<state, waiting, mutex, attempts>>
    BY DEF CheckReturns
  <1>2. held[t] = Due(t) /\ Due(t) = 1 /\ t \notin Handlers
    <2>1. held[t] = Due(t) /\ Due(t) = 1
      BY <1>1, PlaceFacts DEF PoolInv, PoolTypes, HeldIsDue, AtWork
    <2>2. t \in Handlers => at[t] \in {0, 1} /\ Wanted(t) = HandlerPath[at[t] + 1]
      BY <1>1, PoolAssumption DEF PoolInv, PoolTypes, Wanted, Path, HandlerPath, Handlers
    <2> QED
      BY <1>1, <2>1, <2>2 DEF HandlerPath
  <1>3. /\ at' \in [Tasks -> Nat] /\ \A u \in Tasks : u # t => at'[u] = at[u]
        /\ at'[t] <= Len(Path(t)) /\ Due(t)' = Due(t) - 1
    BY <1>1, NextPlace DEF PoolInv, PoolTypes
  <1>4. /\ held' \in [Tasks -> Nat] /\ held'[t] = 0
        /\ \A u \in Tasks : u # t => held'[u] = held[u]
    BY <1>1, <1>2 DEF PoolInv, PoolTypes
  <1>5. PoolTypes'
    BY <1>1, <1>3, <1>4 DEF PoolInv, PoolTypes, States
  <1>6. OnlyMoves(t)
    BY <1>1, <1>3, <1>4 DEF OnlyMoves
  <1>7. HeldIsDue'
    BY <1>1, <1>2, <1>3, <1>4, <1>6, OthersHold DEF AtWork
  <1>8. QueuedAtPool' /\ QueuedAtMutex'
    BY <1>1, <1>2, <1>6, QueuesHold DEF WaitsForConnection
  <1>9. Cardinality(Given') = Cardinality(Given) - 1
    <2>1. held \in [Tasks -> Nat] /\ held[t] \in 1..2
      BY <1>2 DEF PoolInv, PoolTypes
    <2> QED
      BY <1>1, <2>1, OneLess
  <1> QED
    BY <1>1, <1>5, <1>7, <1>8, <1>9, GivenIsFinite DEF PoolInv, PoolTypes, ConnectionsConserved

LEMMA GetConnectionInv ==
  ASSUME PoolInv, NEW t \in Tasks, GetConnection(t)
  PROVE  PoolInv'
  <1>1. /\ state[t] = "waiting" /\ Wanted(t) = "connection" /\ Head(waiting) = t
        /\ free > 0 /\ free' = free - 1
        /\ held' = [held EXCEPT ![t] = @ + 1] /\ waiting' = Tail(waiting)
        /\ at' = [at EXCEPT ![t] = @ + 1] /\ state' = [state EXCEPT ![t] = "working"]
        /\ UNCHANGED <<mutex, attempts>>
    BY DEF GetConnection, Proceed
  <1>2. /\ held[t] = Due(t) /\ Due(t) \in 0..1 /\ at[t] < Len(Path(t))
        /\ t \in Handlers => at[t] # 0
    <2>1. held[t] = Due(t) /\ at[t] < Len(Path(t)) /\ at \in [Tasks -> Nat]
      BY <1>1 DEF PoolInv, PoolTypes, HeldIsDue, AtWork
    <2>2. /\ Wanted(t) = "mutex" <=> (t \in Handlers /\ at[t] = 0)
          /\ Due(t) = IF t \in Submits /\ at[t] = 3 THEN 1 ELSE 0
      BY <1>1, <2>1, PlaceFacts DEF PoolInv, PoolTypes
    <2> QED
      BY <1>1, <2>1, <2>2
  <1>3. /\ at' \in [Tasks -> Nat] /\ \A u \in Tasks : u # t => at'[u] = at[u]
        /\ at'[t] = at[t] + 1 /\ at'[t] <= Len(Path(t)) /\ Due(t)' = Due(t) + 1
    BY <1>1, <1>2, NextPlace DEF PoolInv, PoolTypes
  <1>4. /\ held' \in [Tasks -> Nat] /\ held'[t] = Due(t) + 1 /\ free' \in Nat
        /\ \A u \in Tasks : u # t => held'[u] = held[u]
    BY <1>1, <1>2 DEF PoolInv, PoolTypes
  <1>5. state' \in [Tasks -> States] /\ state'[t] = "working" /\ OnlyMoves(t)
    BY <1>1, <1>3, <1>4 DEF OnlyMoves, PoolInv, PoolTypes, States
  <1>6. /\ waiting' \in Seq(Tasks) /\ Distinct(waiting')
        /\ \A u : In(waiting', u) <=> (In(waiting, u) /\ u # t)
    <2>1. waiting \in Seq(Tasks) /\ Distinct(waiting) /\ In(waiting, t)
      BY <1>1 DEF PoolInv, PoolTypes, QueuedAtPool, WaitsForConnection
    <2>2. waiting # <<>>
      BY <2>1, SomeoneWaits
    <2> QED
      BY <1>1, <2>1, <2>2, Served
  <1>7. PoolTypes'
    BY <1>1, <1>3, <1>4, <1>5, <1>6 DEF PoolInv, PoolTypes
  <1>8. HeldIsDue'
    BY <1>3, <1>4, <1>5, OthersHold DEF AtWork
  <1>9. \A u \in Tasks : u # t =>
          /\ WaitsForConnection(u)' = WaitsForConnection(u)
          /\ WaitsForMutex(u)' = WaitsForMutex(u) /\ InSection(u)' = InSection(u)
    BY <1>5, Undisturbed DEF OnlyMoves
  <1>10. QueuedAtPool'
    BY <1>5, <1>6, <1>9 DEF PoolInv, QueuedAtPool, WaitsForConnection
  <1>11. t \in Handlers => InSection(t) /\ InSection(t)'
    BY <1>1, <1>2, <1>3, <1>5 DEF InSection, AtWork, PoolInv, PoolTypes
  <1>12. \A u \in Handlers : u \in Tasks
    BY DEF Tasks
  <1>13. QueuedAtMutex'
    BY <1>1, <1>9, <1>11, <1>12 DEF PoolInv, QueuedAtMutex
  <1>14. Cardinality(Given') = Cardinality(Given) + 1
    <2>1. held \in [Tasks -> Nat] /\ held[t] \in 0..1
      BY <1>2 DEF PoolInv, PoolTypes
    <2> QED
      BY <1>1, <2>1, OneMore
  <1>15. ConnectionsConserved'
    <2>1. Cardinality(Given) \in Nat /\ free + Cardinality(Given) = PoolSize /\ free \in Nat
      BY GivenIsFinite DEF PoolInv, PoolTypes, ConnectionsConserved
    <2> QED
      BY <1>1, <1>14, <2>1 DEF ConnectionsConserved
  <1> QED
    BY <1>7, <1>8, <1>10, <1>13, <1>15 DEF PoolInv

LEMMA PassInv ==
  ASSUME PoolInv, NEW t \in Tasks, Lock(t) \/ ExchangeAnswers(t)
  PROVE  PoolInv'
  <1>1. /\ state[t] = "waiting" /\ Wanted(t) \in {"mutex", "exchange"}
        /\ Wanted(t) = "mutex" => Head(mutex[ExchangeOf[t]]) = t
        /\ at' = [at EXCEPT ![t] = @ + 1] /\ state' = [state EXCEPT ![t] = "working"]
        /\ UNCHANGED <<held, free, waiting, mutex, attempts>>
    BY DEF Lock, ExchangeAnswers, Proceed
  <1>2. /\ held[t] = Due(t) /\ at[t] < Len(Path(t)) /\ at[t] \in Nat
        /\ Wanted(t) = "mutex" <=> (t \in Handlers /\ at[t] = 0)
    BY <1>1, PlaceFacts DEF PoolInv, PoolTypes, HeldIsDue, AtWork
  <1>3. /\ at' \in [Tasks -> Nat] /\ \A u \in Tasks : u # t => at'[u] = at[u]
        /\ at'[t] = at[t] + 1 /\ at'[t] <= Len(Path(t)) /\ Due(t)' = Due(t)
    BY <1>1, <1>2, NextPlace DEF PoolInv, PoolTypes
  <1>4. state' \in [Tasks -> States] /\ state'[t] = "working" /\ OnlyMoves(t)
    BY <1>1, <1>3 DEF OnlyMoves, PoolInv, PoolTypes, States
  <1>5. PoolTypes'
    BY <1>1, <1>3, <1>4 DEF PoolInv, PoolTypes
  <1>6. HeldIsDue'
    BY <1>1, <1>2, <1>3, <1>4, OthersHold DEF AtWork
  <1>7. ~WaitsForConnection(t) /\ ~WaitsForConnection(t)'
    BY <1>1, <1>4 DEF WaitsForConnection
  <1>8. t \in Handlers =>
          /\ WaitsForMutex(t) \/ InSection(t)
          /\ InSection(t)'
          /\ Head(mutex[ExchangeOf[t]]) = t
    BY <1>1, <1>2, <1>3, <1>4
    DEF WaitsForMutex, InSection, AtWork, PoolInv, QueuedAtMutex
  <1>9. QueuedAtPool' /\ QueuedAtMutex'
    BY <1>1, <1>4, <1>7, <1>8, QueuesHold
  <1> QED
    BY <1>1, <1>5, <1>6, <1>9 DEF PoolInv, ConnectionsConserved, Given

\* Return and Retry: t gives back all it holds, and a handler the mutex.
LEMMA DropInv ==
  ASSUME PoolInv, NEW t \in Tasks, state[t] = "working", t \in Handlers => at[t] > 0,
         DropConnections(t), DropMutex(t), waiting' = waiting,
         attempts' \in [Tasks -> 0..MaxAttempts],
         at' \in [Tasks -> Nat], at'[t] <= Len(Path(t)), state' \in [Tasks -> States],
         \A u \in Tasks : u # t => at'[u] = at[u] /\ state'[u] = state[u],
         state'[t] = "returned" \/ (state'[t] = "working" /\ at'[t] = 0)
  PROVE  PoolInv'
  <1>1. /\ held[t] \in 0..2 /\ held \in [Tasks -> Nat]
        /\ free' = free + held[t] /\ held' = [held EXCEPT ![t] = 0]
    BY PlaceFacts DEF PoolInv, PoolTypes, HeldIsDue, AtWork, DropConnections
  <1>2. OnlyMoves(t) /\ held' \in [Tasks -> Nat] /\ held'[t] = 0
    BY <1>1 DEF OnlyMoves
  <1>3. AtWork(t)' => Due(t)' = 0
    <2>1. AtWork(t)' => at'[t] = 0
      BY DEF AtWork
    <2>2. at'[t] = 0 => Due(t)' = 0
      BY DEF Due, Tasks, Requests
    <2> QED
      BY <2>1, <2>2
  <1>4. HeldIsDue'
    BY <1>2, <1>3, OthersHold DEF AtWork
  <1>5. \A u \in Tasks : u # t =>
          /\ WaitsForConnection(u)' = WaitsForConnection(u)
          /\ WaitsForMutex(u)' = WaitsForMutex(u) /\ InSection(u)' = InSection(u)
    BY Undisturbed
  <1>6. QueuedAtPool'
    BY <1>5 DEF PoolInv, QueuedAtPool, WaitsForConnection
  <1>7. \A u \in Handlers : u \in Tasks
    BY DEF Tasks
  <1>8. ~WaitsForMutex(t)' /\ ~InSection(t)'
    BY DEF WaitsForMutex, InSection, AtWork
  <1>9. mutex' \in [Exchanges -> Seq(Handlers)] /\ QueuedAtMutex'
    <2>1. CASE t \notin Handlers
      BY <1>5, <1>7, <2>1 DEF PoolInv, PoolTypes, QueuedAtMutex, DropMutex
    <2>2. CASE t \in Handlers
      <3> DEFINE x == ExchangeOf[t]
      <3>1. mutex' = [mutex EXCEPT ![x] = Tail(@)] /\ InSection(t) /\ x \in Exchanges
        BY <2>2, PoolAssumption DEF DropMutex, InSection, AtWork
      <3>2. /\ mutex[x] \in Seq(Handlers) /\ Distinct(mutex[x])
            /\ In(mutex[x], t) /\ Head(mutex[x]) = t
        BY <2>2, <3>1 DEF PoolInv, PoolTypes, QueuedAtMutex
      <3>3. mutex'[x] = Tail(mutex[x]) /\ \A y \in Exchanges : y # x => mutex'[y] = mutex[y]
        BY <3>1 DEF PoolInv, PoolTypes
      <3>4. /\ mutex'[x] \in Seq(Handlers) /\ Distinct(mutex'[x])
            /\ \A u : In(mutex'[x], u) <=> (In(mutex[x], u) /\ u # t)
        BY <3>2, <3>3, SomeoneWaits, Served
      <3>5. mutex' \in [Exchanges -> Seq(Handlers)]
        BY <3>1, <3>3, <3>4 DEF PoolInv, PoolTypes
      <3>6. ASSUME NEW y \in Exchanges, NEW u \in Handlers
            PROVE  In(mutex'[y], u) <=>
                     (ExchangeOf[u] = y /\ (WaitsForMutex(u)' \/ InSection(u)'))
        <4>1. In(mutex[y], u) <=> (ExchangeOf[u] = y /\ (WaitsForMutex(u) \/ InSection(u)))
          BY DEF PoolInv, QueuedAtMutex
        <4> QED
          BY <1>5, <1>7, <1>8, <3>1, <3>3, <3>4, <4>1
      <3>7. ASSUME NEW u \in Handlers, InSection(u)' PROVE Head(mutex'[ExchangeOf[u]]) = u
        <4>1. u # t /\ InSection(u) /\ ExchangeOf[u] \in Exchanges
          BY <1>5, <1>7, <1>8, <3>7, PoolAssumption
        <4>2. Head(mutex[ExchangeOf[u]]) = u
          BY <4>1 DEF PoolInv, QueuedAtMutex
        <4>3. ExchangeOf[u] # x
          BY <3>2, <4>1, <4>2
        <4> QED
          BY <3>3, <4>1, <4>2, <4>3
      <3> QED
        BY <3>3, <3>4, <3>5, <3>6, <3>7 DEF QueuedAtMutex, PoolInv
    <2> QED
      BY <2>1, <2>2
  <1>10. PoolTypes'
    <2>1. free' \in Nat
      BY <1>1 DEF PoolInv, PoolTypes
    <2>2. \A u \in Tasks : at'[u] <= Len(Path(u))
      BY DEF PoolInv, PoolTypes
    <2>3. waiting' \in Seq(Tasks)
      BY DEF PoolInv, PoolTypes
    <2> QED
      BY <1>2, <1>9, <2>1, <2>2, <2>3 DEF PoolTypes
  <1>11. Cardinality(Given') = Cardinality(Given) - held[t]
    BY <1>1, AllDropped
  <1>12. ConnectionsConserved'
    <2>1. Cardinality(Given) \in Nat /\ free + Cardinality(Given) = PoolSize /\ free \in Nat
      BY <1>1, GivenIsFinite DEF PoolInv, PoolTypes, ConnectionsConserved
    <2> QED
      BY <1>1, <1>11, <2>1 DEF ConnectionsConserved
  <1> QED
    BY <1>4, <1>6, <1>9, <1>10, <1>12 DEF PoolInv

LEMMA ReturnInv ==
  ASSUME PoolInv, NEW t \in Tasks, Return(t)
  PROVE  PoolInv'
  <1>1. /\ state[t] = "working" /\ (t \in Handlers => at[t] > 0)
        /\ state' = [state EXCEPT ![t] = "returned"]
        /\ DropConnections(t) /\ DropMutex(t)
        /\ at' = at /\ waiting' = waiting /\ attempts' = attempts
    BY DEF Return
  <1>2. /\ state' \in [Tasks -> States] /\ state'[t] = "returned"
        /\ \A u \in Tasks : u # t => state'[u] = state[u]
    BY <1>1 DEF PoolInv, PoolTypes, States
  <1>3. attempts' \in [Tasks -> 0..MaxAttempts] /\ at' \in [Tasks -> Nat]
    BY <1>1 DEF PoolInv, PoolTypes
  <1>4. /\ at'[t] <= Len(Path(t))
        /\ \A u \in Tasks : u # t => at'[u] = at[u] /\ state'[u] = state[u]
    BY <1>1, <1>2 DEF PoolInv, PoolTypes
  <1> QED
    BY <1>1, <1>2, <1>3, <1>4, DropInv

LEMMA RetryInv ==
  ASSUME PoolInv, NEW t \in Tasks, Retry(t)
  PROVE  PoolInv'
  <1>1. /\ state[t] = "working" /\ at[t] > 0 /\ attempts[t] < MaxAttempts
        /\ attempts' = [attempts EXCEPT ![t] = @ + 1]
        /\ at' = [at EXCEPT ![t] = 0]
        /\ DropConnections(t) /\ DropMutex(t)
        /\ state' = state /\ waiting' = waiting
    BY DEF Retry
  <1>2. /\ state \in [Tasks -> States] /\ at \in [Tasks -> Nat] /\ at[t] <= Len(Path(t))
        /\ attempts \in [Tasks -> 0..MaxAttempts] /\ MaxAttempts \in Nat
    BY PoolAssumption DEF PoolInv, PoolTypes
  <1>3. /\ at' \in [Tasks -> Nat] /\ at'[t] = 0 /\ \A u \in Tasks : u # t => at'[u] = at[u]
    BY <1>1, <1>2
  <1>4. 0 <= Len(Path(t))
    BY <1>1, <1>2 DEF Path, SubmitPath, CancelPath, ReadPath, HandlerPath, Tasks, Requests
  <1>5. attempts' \in [Tasks -> 0..MaxAttempts]
    BY <1>1, <1>2
  <1> QED
    BY <1>1, <1>2, <1>3, <1>4, <1>5, DropInv

LEMMA NextPoolInv == PoolInv /\ [Next]_vars => PoolInv'
  <1> SUFFICES ASSUME PoolInv, [Next]_vars PROVE PoolInv'
    OBVIOUS
  <1>1. ASSUME NEW t \in Tasks, Spawn(t) \/ Step(t) PROVE PoolInv'
    BY <1>1, SpawnInv, AskInv, CheckReturnsInv, ReturnInv, RetryInv, GetConnectionInv, PassInv
    DEF Step
  <1>2. CASE UNCHANGED vars
    BY <1>2 DEF vars, PoolInv, PoolTypes, HeldIsDue, QueuedAtPool, QueuedAtMutex,
      ConnectionsConserved, Given, AtWork, Due, Wanted, WaitsForConnection, WaitsForMutex,
      InSection
  <1> QED
    BY <1>1, <1>2 DEF Next

(* The inductive invariant: the queues hold exactly those who wait, what a task  *)
(* holds follows from how far it is, and no connection is lost, whatever returns *)
(* early.                                                                        *)
THEOREM PoolInvariant == Spec => []PoolInv
  BY InitPoolInv, NextPoolInv, PTL DEF Spec

--------------------------------------------------------------------------------
(* The standstill *)

\* A task that waits at a standstill waits for a connection: the head of a mutex
\* is never what it waits for.
LEMMA AllWaitForConnections ==
  ASSUME PoolInv, Stuck, NEW t \in Tasks, AtWork(t)
  PROVE  \E u \in Tasks : WaitsForConnection(u)
  <1>1. \A u \in Tasks : AtWork(u) => state[u] = "waiting" /\ ~CanGoOn(u)
    BY DEF Stuck, Started, AtWork, CanGoOn
  <1>2. /\ state[t] = "waiting" /\ ~CanGoOn(t) /\ at[t] < Len(Path(t)) /\ Wanted(t) # "release"
    BY <1>1 DEF PoolInv, HeldIsDue
  <1>3. /\ Wanted(t) \in {"connection", "mutex", "exchange", "release"}
        /\ Wanted(t) = "mutex" <=> (t \in Handlers /\ at[t] = 0)
    BY <1>2, PlaceFacts DEF PoolInv, PoolTypes
  <1>4. CASE Wanted(t) = "connection"
    BY <1>2, <1>4 DEF WaitsForConnection
  <1>5. CASE Wanted(t) = "mutex"
    <2> DEFINE x == ExchangeOf[t]
               h == Head(mutex[x])
    <2>1. t \in Handlers /\ WaitsForMutex(t) /\ x \in Exchanges
      BY <1>2, <1>3, <1>5, PoolAssumption DEF WaitsForMutex
    <2>2. In(mutex[x], t) /\ mutex[x] \in Seq(Handlers) /\ Distinct(mutex[x])
      BY <2>1 DEF PoolInv, PoolTypes, QueuedAtMutex
    <2>3. mutex[x] # <<>>
      BY <2>2, SomeoneWaits
    <2>4. h \in Handlers /\ In(mutex[x], h)
      BY <2>2, <2>3, Served, HeadTailProperties
    <2>5. ExchangeOf[h] = x /\ (WaitsForMutex(h) \/ InSection(h)) /\ h \in Tasks
      BY <2>1, <2>4 DEF PoolInv, QueuedAtMutex, Tasks
    <2>6. state[h] = "waiting" /\ ~CanGoOn(h) /\ at[h] < Len(Path(h)) /\ Wanted(h) # "release"
      BY <1>1, <2>5 DEF PoolInv, HeldIsDue, WaitsForMutex, InSection, AtWork
    <2>7. /\ Wanted(h) \in {"connection", "mutex", "exchange", "release"}
      BY <2>5, <2>6, PlaceFacts DEF PoolInv, PoolTypes
    <2>8. Wanted(h) = "connection"
      BY <2>5, <2>6, <2>7 DEF CanGoOn
    <2> QED
      BY <2>5, <2>6, <2>8 DEF WaitsForConnection
  <1> QED
    BY <1>2, <1>3, <1>4, <1>5 DEF CanGoOn

LEMMA StuckFacts ==
  ASSUME PoolInv, Stuck
  PROVE  free = 0 /\ \A t \in Tasks : held[t] > 0 => HalfWay(t)
  <1>1. \A u \in Tasks : AtWork(u) => state[u] = "waiting" /\ ~CanGoOn(u)
    BY DEF Stuck, Started, AtWork, CanGoOn
  <1>2. free = 0
    <2>1. PICK u \in Tasks : WaitsForConnection(u)
      BY AllWaitForConnections DEF Stuck, Started, AtWork
    <2>2. waiting # <<>> /\ waiting \in Seq(Tasks) /\ Distinct(waiting)
      BY <2>1, SomeoneWaits DEF PoolInv, PoolTypes, QueuedAtPool
    <2>3. In(waiting, Head(waiting)) /\ Head(waiting) \in Tasks
      BY <2>2, Served, HeadTailProperties
    <2>4. WaitsForConnection(Head(waiting))
      BY <2>3 DEF PoolInv, QueuedAtPool
    <2>5. ~(free > 0)
      BY <1>1, <2>3, <2>4 DEF WaitsForConnection, CanGoOn, AtWork
    <2> QED
      BY <2>5 DEF PoolInv, PoolTypes
  <1>3. ASSUME NEW t \in Tasks, held[t] > 0 PROVE HalfWay(t)
    <2>1. AtWork(t) /\ held[t] = Due(t)
      BY <1>3 DEF PoolInv, HeldIsDue
    <2>2. state[t] = "waiting" /\ ~CanGoOn(t) /\ at[t] < Len(Path(t)) /\ Wanted(t) # "release"
      BY <1>1, <2>1 DEF PoolInv, HeldIsDue
    <2>3. /\ Wanted(t) \in {"connection", "mutex", "exchange", "release"}
          /\ Wanted(t) = "mutex" => at[t] = 0
          /\ at[t] = 0 => Due(t) = 0
          /\ Wanted(t) = "connection" =>
               Due(t) = IF t \in Submits /\ at[t] = 3 THEN 1 ELSE 0
      BY <2>2, PlaceFacts DEF PoolInv, PoolTypes
    <2>4. Wanted(t) = "connection"
      BY <1>3, <2>1, <2>2, <2>3 DEF CanGoOn
    <2> QED
      BY <1>3, <2>1, <2>2, <2>3, <2>4 DEF HalfWay
  <1> QED
    BY <1>2, <1>3

(* The broker comes to a standstill only if every connection is held by a        *)
(* submit_order that waits for its second one: for every size of the pool, any   *)
(* number of requests and handlers, and every failure between two awaits.        *)
THEOREM StandstillOnlyOnSubmits == Spec => []StuckOnlyOnSubmits
  <1>1. PoolInv => StuckOnlyOnSubmits
    BY StuckFacts DEF StuckOnlyOnSubmits
  <1> QED
    BY <1>1, PoolInvariant, PTL

(* With more connections than submit_order requests at work there is always a    *)
(* task that can go on: the safety half of EveryTaskReturns.                     *)
NoStandstill == FewSubmits => ~Stuck

THEOREM FewSubmitsNeverStuck == Spec => []NoStandstill
  <1>1. ASSUME PoolInv, Stuck PROVE ~FewSubmits
    <2> DEFINE Blocked == Started \cap Submits
               f == [p \in Given |-> p[1]]
    <2>1. IsFiniteSet(Given) /\ free = 0 /\ Cardinality(Given) = PoolSize
      <3>1. IsFiniteSet(Given) /\ Cardinality(Given) \in Nat
        BY <1>1, GivenIsFinite DEF PoolInv, PoolTypes
      <3>2. free = 0 /\ free + Cardinality(Given) = PoolSize
        BY <1>1, StuckFacts DEF PoolInv, ConnectionsConserved
      <3> QED
        BY <3>1, <3>2
    <2>2. ASSUME NEW p \in Given PROVE p[1] \in Blocked /\ p[2] = 1 /\ p = <<p[1], p[2]>>
      <3>1. p[1] \in Tasks /\ p[2] \in {1, 2} /\ p[2] <= held[p[1]] /\ p = <<p[1], p[2]>>
        BY DEF Given
      <3>2. held[p[1]] \in Nat
        BY <1>1, <3>1 DEF PoolInv, PoolTypes
      <3>3. HalfWay(p[1])
        BY <1>1, <3>1, <3>2, StuckFacts
      <3> QED
        BY <3>1, <3>3 DEF HalfWay, Started
    <2>3. f \in Injection(Given, Blocked)
      <3>1. f \in [Given -> Blocked]
        BY <2>2
      <3>2. \A p, q \in Given : f[p] = f[q] => p = q
        BY <2>2
      <3> QED
        BY <3>1, <3>2 DEF Injection, IsInjective
    <2>4. IsFiniteSet(Blocked)
      BY PoolAssumption, FS_Subset DEF Started
    <2>5. Cardinality(Blocked) \in Nat /\ Cardinality(Given) <= Cardinality(Blocked)
      BY <2>3, <2>4, FS_Injection, FS_CardinalityType
    <2> QED
      BY <2>1, <2>5, PoolAssumption DEF FewSubmits
  <1>2. PoolInv => NoStandstill
    BY <1>1 DEF NoStandstill
  <1> QED
    BY <1>2, PoolInvariant, PTL

================================================================================
