---------------------------- MODULE WebSocketFeedProofs ----------------------------
(***************************************************************************)
(* What the browsers show, for any number of clients, connections, accounts  *)
(* and instruments, and any number of changes.                               *)
(*                                                                          *)
(* For a row of an account the argument is where the newest announced version *)
(* (or a later one) is: with a task that has yet to broadcast it, in the       *)
(* channel of the session, with a snapshot of that session (or one that has   *)
(* yet to read the row), or on the screen; and before that, the request for   *)
(* the snapshot is in the inbox, because it comes right after each request    *)
(* for a subscription.  A session whose snapshot failed is excepted; commits  *)
(* nobody is told of only move the row ahead of what is announced.  For market *)
(* data it is that the retained message is one behind, and only while the     *)
(* newest one has been sent and not been retained.                            *)
(***************************************************************************)
EXTENDS WebSocketFeed, FiniteSetTheorems, WellFoundedInduction, TLAPS

Phases == {"closed", "connected", "subscribed"}
Frame == [frame : {"SUBSCRIBE", "GET"}, topic : Topics]
Item == [topic : Topics, version : Nat]
Snapshot == [conn : [client : Clients, session : Nat], topic : Topics, version : Nat]

ServerTypes ==
  /\ latest \in [Topics -> Nat] /\ unsent \in [Topics -> SUBSET Nat]
  /\ announced \in [Topics -> Nat] /\ phantom \in [Topics -> Nat]
  /\ connections \in [Topics -> [Clients -> [Sessions -> Nat]]]
  /\ retained \in [Topics -> Nat]

SessionTypes ==
  /\ session \in [Clients -> Nat] /\ phase \in [Clients -> Phases]
  /\ inbox \in [Clients -> Seq(Frame)] /\ channel \in [Clients -> Seq(Item)]
  /\ subscriptions \in [Clients -> SUBSET Topics] /\ missed \in [Clients -> SUBSET Topics]
  /\ \A c \in Clients :
       /\ phase[c] # "closed" => session[c] \in Sessions
       /\ phase[c] = "closed" => subscriptions[c] = {} /\ inbox[c] = <<>>

ClientTypes ==
  /\ snapshots \subseteq Snapshot
  /\ view \in [Clients -> [Topics -> Nat]]

Has(s, x) == \E i \in 1..Len(s) : s[i] = x
Sub(t) == [frame |-> "SUBSCRIBE", topic |-> t]
Get(t) == [frame |-> "GET", topic |-> t]

\* Whoever subscribes to a row asks for the snapshot next.
Paired(s) == \A i \in 1..Len(s) :
  (s[i].frame = "SUBSCRIBE" /\ s[i].topic \in AccountTopics)
    => (i + 1 \in 1..Len(s) /\ s[i + 1] = Get(s[i].topic))

\* A version of the row, or one broadcast without having been committed.
Known(t, v) == v <= latest[t] \/ v <= phantom[t]

\* No version is ahead of the row but those that were not committed.
Bounded ==
  /\ \A t \in Topics : retained[t] <= latest[t] /\ announced[t] <= latest[t]
  /\ \A t \in Topics, c \in Clients : Known(t, view[c][t])
  /\ \A c \in Clients : \A i \in 1..Len(channel[c]) :
       Known(channel[c][i].topic, channel[c][i].version)
  /\ \A s \in snapshots : s.version <= latest[s.topic]
  /\ \A t \in Topics : \A v \in unsent[t] : v <= latest[t]

\* A subscription of a session that lasts has its entry in the list.
Listed == \A c \in Clients : \A t \in subscriptions[c] : connections[t][c][session[c]] > 0

\* The timer has fired: each topic is subscribed or asked for.
Asked == \A c \in Clients : phase[c] = "subscribed" =>
  \A t \in Topics : t \in subscriptions[c] \/ Has(inbox[c], Sub(t))

Followed == \A c \in Clients : Paired(inbox[c])

\* An item of t with version v or a later one.
AtLeast(s, t, v) == \E i \in 1..Len(s) : s[i].topic = t /\ s[i].version >= v

\* A snapshot of t on its way to c that will bring version v or a later one.
Brings(s, c, t, v) ==
  s.conn = Connection(c) /\ s.topic = t /\ (s.version = Nothing \/ s.version >= v)

\* Where the newest announced version of a row, or a later one, is.
Told(c, t) ==
  \/ announced[t] \in unsent[t]
  \/ view[c][t] >= announced[t]
  \/ AtLeast(channel[c], t, announced[t])
  \/ \E s \in snapshots : Brings(s, c, t, announced[t])

Informed == \A c \in Clients : \A t \in subscriptions[c] \cap AccountTopics :
  Has(inbox[c], Get(t)) \/ Told(c, t) \/ t \in missed[c]

\* Where the newest market data or the one before is.
OneBehind(c, t) ==
  \/ view[c][t] >= latest[t] - 1
  \/ \E i \in 1..Len(channel[c]) :
       channel[c][i].topic = t /\ channel[c][i].version >= latest[t] - 1

Relayed == \A t \in MarketTopics :
  /\ unsent[t] \subseteq {latest[t]}
  /\ retained[t] >= latest[t] - 1
  /\ unsent[t] = {} => retained[t] = latest[t]
  /\ \A c \in Clients : t \in subscriptions[c] => OneBehind(c, t)

FeedInv ==
  /\ ServerTypes /\ SessionTypes /\ ClientTypes
  /\ Bounded /\ Listed /\ Asked /\ Followed /\ Informed /\ Relayed

--------------------------------------------------------------------------------
(* Sequences *)

LEMMA TailFacts ==
  ASSUME NEW S, NEW s \in Seq(S), s # <<>>
  PROVE  /\ Head(s) \in S /\ Tail(s) \in Seq(S) /\ Len(s) \in Nat \ {0}
         /\ Len(Tail(s)) = Len(s) - 1 /\ Head(s) = s[1]
         /\ \A i \in 1..Len(Tail(s)) : i + 1 \in 1..Len(s) /\ Tail(s)[i] = s[i + 1]
         /\ \A i \in 1..Len(s) : i = 1 \/ (i - 1 \in 1..Len(Tail(s)) /\ Tail(s)[i - 1] = s[i])
  OBVIOUS

LEMMA ConcatFacts ==
  ASSUME NEW S, NEW s \in Seq(S), NEW u \in Seq(S)
  PROVE  /\ s \o u \in Seq(S) /\ Len(s) \in Nat /\ Len(u) \in Nat
         /\ Len(s \o u) = Len(s) + Len(u)
         /\ \A i \in 1..Len(s) : i \in 1..Len(s \o u) /\ (s \o u)[i] = s[i]
         /\ \A i \in 1..Len(u) :
              Len(s) + i \in 1..Len(s \o u) /\ (s \o u)[Len(s) + i] = u[i]
         /\ \A i \in 1..Len(s \o u) :
              i \in 1..Len(s) \/ (i - Len(s) \in 1..Len(u) /\ (s \o u)[i] = u[i - Len(s)])
  OBVIOUS

LEMMA AppendFacts ==
  ASSUME NEW S, NEW s \in Seq(S), NEW x \in S
  PROVE  /\ Append(s, x) \in Seq(S) /\ Len(s) \in Nat
         /\ Len(Append(s, x)) = Len(s) + 1
         /\ Append(s, x)[Len(s) + 1] = x
         /\ \A i \in 1..Len(s) : i \in 1..Len(Append(s, x)) /\ Append(s, x)[i] = s[i]
         /\ \A i \in 1..Len(Append(s, x)) : i \in 1..Len(s) \/ i = Len(s) + 1
  OBVIOUS

\* What is in a sequence stays in it when it grows at its end.
LEMMA HasConcat ==
  ASSUME NEW S, NEW s \in Seq(S), NEW u \in Seq(S), NEW x
  PROVE  Has(s \o u, x) <=> (Has(s, x) \/ Has(u, x))
  <1>1. Has(s, x) => Has(s \o u, x)
    BY ConcatFacts DEF Has
  <1>2. Has(u, x) => Has(s \o u, x)
    BY ConcatFacts DEF Has
  <1>3. Has(s \o u, x) => (Has(s, x) \/ Has(u, x))
    BY ConcatFacts DEF Has
  <1> QED
    BY <1>1, <1>2, <1>3

LEMMA PairedConcat ==
  ASSUME NEW s \in Seq(Frame), NEW u \in Seq(Frame), Paired(s), Paired(u)
  PROVE  Paired(s \o u)
  <1> DEFINE w == s \o u
  <1>1. ASSUME NEW i \in 1..Len(w), w[i].frame = "SUBSCRIBE", w[i].topic \in AccountTopics
        PROVE  i + 1 \in 1..Len(w) /\ w[i + 1] = Get(w[i].topic)
    <2>1. CASE i \in 1..Len(s)
      <3>1. w[i] = s[i]
        BY <2>1, ConcatFacts
      <3>2. i + 1 \in 1..Len(s) /\ s[i + 1] = Get(s[i].topic)
        BY <1>1, <2>1, <3>1 DEF Paired
      <3> QED
        BY <3>1, <3>2, ConcatFacts
    <2>2. CASE i - Len(s) \in 1..Len(u) /\ w[i] = u[i - Len(s)]
      <3> DEFINE j == i - Len(s)
      <3>1. j + 1 \in 1..Len(u) /\ u[j + 1] = Get(u[j].topic)
        BY <1>1, <2>2 DEF Paired
      <3>2. Len(s) + (j + 1) = i + 1
        BY ConcatFacts
      <3> QED
        BY <2>2, <3>1, <3>2, ConcatFacts
    <2> QED
      BY <2>1, <2>2, ConcatFacts
  <1> QED
    BY <1>1 DEF Paired

LEMMA PairedTail ==
  ASSUME NEW s \in Seq(Frame), s # <<>>, Paired(s)
  PROVE  Paired(Tail(s))
  <1> DEFINE w == Tail(s)
  <1>1. ASSUME NEW i \in 1..Len(w), w[i].frame = "SUBSCRIBE", w[i].topic \in AccountTopics
        PROVE  i + 1 \in 1..Len(w) /\ w[i + 1] = Get(w[i].topic)
    <2>1. i + 1 \in 1..Len(s) /\ w[i] = s[i + 1] /\ Len(w) = Len(s) - 1 /\ Len(s) \in Nat
      BY TailFacts
    <2>2. (i + 1) + 1 \in 1..Len(s) /\ s[(i + 1) + 1] = Get(s[i + 1].topic)
      BY <1>1, <2>1 DEF Paired
    <2>3. i + 1 \in 1..Len(w)
      BY <2>1, <2>2
    <2> HIDE DEF w
    <2>4. w[i + 1] = s[(i + 1) + 1]
      BY <2>3, TailFacts DEF w
    <2> QED
      BY <2>1, <2>2, <2>3, <2>4
  <1> QED
    BY <1>1 DEF Paired

LEMMA FramesPaired ==
  ASSUME NEW t \in Topics
  PROVE  /\ SubscribeFrames(t) \in Seq(Frame) /\ Paired(SubscribeFrames(t))
         /\ Has(SubscribeFrames(t), Sub(t))
  <1>1. Sub(t) \in Frame /\ Get(t) \in Frame
    BY DEF Sub, Get, Frame
  <1>2. CASE t \in AccountTopics
    <2>1. SubscribeFrames(t) = <<Sub(t), Get(t)>>
      BY <1>2 DEF SubscribeFrames, Sub, Get
    <2>2. Paired(<<Sub(t), Get(t)>>)
      BY DEF Paired, Sub, Get
    <2>3. Has(<<Sub(t), Get(t)>>, Sub(t))
      BY DEF Has
    <2> QED
      BY <1>1, <2>1, <2>2, <2>3
  <1>3. CASE t \notin AccountTopics
    <2>1. SubscribeFrames(t) = <<Sub(t)>>
      BY <1>3 DEF SubscribeFrames, Sub
    <2>2. Paired(<<Sub(t)>>)
      BY <1>3 DEF Paired, Sub
    <2>3. Has(<<Sub(t)>>, Sub(t))
      BY DEF Has
    <2> QED
      BY <1>1, <2>1, <2>2, <2>3
  <1> QED
    BY <1>2, <1>3

--------------------------------------------------------------------------------
(* All topics at once *)

\* Induction over the naturals, as the existence of a least counterexample.
LEMMA LeastElement ==
  ASSUME NEW S \in SUBSET Nat, S # {}
  PROVE  \E n \in S : \A m \in S : n <= m
  <1>1. IsWellFoundedOn(OpToRel(<, Nat), Nat)
    BY NatLessThanWellFounded
  <1>2. PICK n \in S : \A m \in S : ~ (<<m, n>> \in OpToRel(<, Nat))
    BY <1>1, WFMin
  <1>3. \A m \in S : ~(m < n)
    BY <1>2 DEF OpToRel
  <1> QED
    BY <1>3

\* j joins the first n of the sequences ss.
Joins(j, ss, n) == \A i \in 1..n : j[i] = IF i = 1 THEN ss[i] ELSE j[i - 1] \o ss[i]

LEMMA JoinExists ==
  ASSUME NEW n \in Nat, NEW ss
  PROVE  \E j : j = [i \in 1..n |-> j[i]] /\ Joins(j, ss, n)
  <1> DEFINE Good(k) == \E j : j = [i \in 1..k |-> j[i]] /\ Joins(j, ss, k)
             Bad == {k \in 0..n : ~Good(k)}
  <1>1. SUFFICES ASSUME Bad # {} PROVE FALSE
    OBVIOUS
  <1>2. PICK m \in Bad : \A k \in Bad : m <= k
    <2>1. Bad \in SUBSET Nat
      OBVIOUS
    <2> QED
      BY <1>1, <2>1, LeastElement
  <1>3. Good(0)
    <2>1. [i \in 1..0 |-> 0] = [i \in 1..0 |-> [i2 \in 1..0 |-> 0][i]]
      OBVIOUS
    <2>2. Joins([i \in 1..0 |-> 0], ss, 0)
      BY DEF Joins
    <2> QED
      BY <2>1, <2>2
  <1>4. m \in 1..n /\ m - 1 \in 0..n /\ m - 1 \notin Bad
    <2>1. m \in 0..n /\ m # 0
      <3> HIDE DEF Good
      <3> QED
        BY <1>2, <1>3
    <2>2. m - 1 \notin Bad
      <3>1. ~(m <= m - 1)
        BY <2>1
      <3> HIDE DEF Bad
      <3> QED
        BY <1>2, <3>1
    <2> QED
      BY <2>1, <2>2
  <1>5. PICK j : j = [i \in 1..(m - 1) |-> j[i]] /\ Joins(j, ss, m - 1)
    BY <1>4
  <1> DEFINE g == [i \in 1..m |-> IF i < m THEN j[i]
                                  ELSE IF i = 1 THEN ss[i] ELSE j[i - 1] \o ss[i]]
  <1>6. g = [i \in 1..m |-> g[i]]
    OBVIOUS
  <1>7. ASSUME NEW i \in 1..m PROVE g[i] = IF i = 1 THEN ss[i] ELSE g[i - 1] \o ss[i]
    <2>1. CASE i < m
      <3>1. i \in 1..(m - 1) /\ (i # 1 => i - 1 \in 1..m /\ i - 1 < m)
        BY <1>4, <2>1
      <3>2. g[i] = j[i] /\ (i # 1 => g[i - 1] = j[i - 1])
        BY <2>1, <3>1
      <3> HIDE DEF g
      <3> QED
        BY <1>5, <3>1, <3>2 DEF Joins
    <2>2. CASE i = m
      <3>1. i # 1 => i - 1 \in 1..m /\ i - 1 < m
        BY <1>4, <2>2
      <3>2. i # 1 => g[i - 1] = j[i - 1]
        BY <3>1
      <3>3. g[i] = IF i = 1 THEN ss[i] ELSE j[i - 1] \o ss[i]
        BY <2>2
      <3> HIDE DEF g
      <3> QED
        BY <3>2, <3>3
    <2> QED
      BY <1>4, <2>1, <2>2
  <1> HIDE DEF g
  <1>8. Joins(g, ss, m)
    BY <1>7 DEF Joins
  <1> QED
    BY <1>2, <1>6, <1>8

\* FlattenSeq is the last of such joins.
LEMMA FlattenIsJoin ==
  ASSUME NEW n \in Nat, n # 0, NEW ss, DOMAIN ss = 1..n, Len(ss) = n
  PROVE  \E j : Joins(j, ss, n) /\ FlattenSeq(ss) = j[n]
  <1> DEFINE flatten[i \in 1..Len(ss)] == IF i = 1 THEN ss[i] ELSE flatten[i - 1] \o ss[i]
             Step(g) == [i \in 1..Len(ss) |-> IF i = 1 THEN ss[i] ELSE g[i - 1] \o ss[i]]
  <1>1. PICK j : j = [i \in 1..n |-> j[i]] /\ Joins(j, ss, n)
    BY JoinExists
  <1>2. j = Step(j)
    <2>1. \A i \in 1..n : j[i] = IF i = 1 THEN ss[i] ELSE j[i - 1] \o ss[i]
      BY <1>1 DEF Joins
    <2> QED
      BY <1>1, <2>1
  <1>3. flatten = CHOOSE g : g = Step(g)
    OBVIOUS
  <1>4. flatten = Step(flatten)
    <2> HIDE DEF Step, flatten
    <2> QED
      BY <1>2, <1>3
  <1>5. FlattenSeq(ss) = flatten[n]
    BY DEF FlattenSeq
  <1>6. \A i \in 1..n : Step(flatten)[i] = IF i = 1 THEN ss[i] ELSE flatten[i - 1] \o ss[i]
    <2> HIDE DEF flatten
    <2> QED
      OBVIOUS
  <1> HIDE DEF flatten, Step
  <1>7. Joins(flatten, ss, n)
    BY <1>4, <1>6 DEF Joins
  <1> QED
    BY <1>5, <1>7

\* The timer of onConnect asks for every topic, and after each row of an account
\* for its snapshot.
LEMMA AllAsked ==
  ASSUME NEW order \in Orders,
         NEW s, s = FlattenSeq([k \in DOMAIN order |-> SubscribeFrames(order[k])])
  PROVE  /\ s \in Seq(Frame) /\ Paired(s)
         /\ \A t \in Topics : Has(s, Sub(t))
  <1> DEFINE n == Cardinality(Topics)
             ss == [k \in DOMAIN order |-> SubscribeFrames(order[k])]
  <1>1. n \in Nat /\ order \in [1..n -> Topics] /\ Range(order) = Topics
    BY FeedAssumption, FS_CardinalityType DEF Orders
  <1>2. \A t \in Topics : \E k \in 1..n : order[k] = t
    BY <1>1 DEF Range
  <1> HIDE DEF n
  <1>3. DOMAIN ss = 1..n /\ Len(ss) = n /\ ss \in Seq(Seq(Frame))
    <2>1. \A k \in 1..n : SubscribeFrames(order[k]) \in Seq(Frame)
      BY <1>1, FramesPaired
    <2> QED
      BY <1>1, <2>1
  <1>4. \A k \in 1..n : ss[k] \in Seq(Frame) /\ Paired(ss[k]) /\ Has(ss[k], Sub(order[k]))
    <2>1. \A k \in 1..n : order[k] \in Topics /\ ss[k] = SubscribeFrames(order[k])
      BY <1>1
    <2> HIDE DEF ss
    <2> QED
      BY <2>1, FramesPaired
  <1>5. CASE n = 0
    <2>1. ss = <<>> /\ s = ss
      BY <1>3, <1>5 DEF FlattenSeq
    <2>2. Topics = {}
      BY <1>2, <1>5
    <2> HIDE DEF ss
    <2>3. Paired(<<>>)
      BY DEF Paired
    <2> QED
      BY <2>1, <2>2, <2>3
  <1>6. CASE n # 0
    <2>1. PICK j : Joins(j, ss, n) /\ FlattenSeq(ss) = j[n]
      BY <1>1, <1>3, <1>6, FlattenIsJoin
    <2>2. s = j[n]
      BY <2>1
    <2> HIDE DEF ss
    <2> DEFINE Good(k) == /\ j[k] \in Seq(Frame) /\ Paired(j[k])
                          /\ \A i \in 1..k : Has(j[k], Sub(order[i]))
               Bad == {k \in 1..n : ~Good(k)}
    <2>3. ASSUME NEW k \in 1..n, k # 1 => Good(k - 1) PROVE Good(k)
      <3>1. CASE k = 1
        <4>1. j[k] = ss[k]
          BY <2>1, <3>1 DEF Joins
        <4>2. \A i \in 1..k : i = k
          BY <3>1
        <4> QED
          BY <1>4, <4>1, <4>2
      <3>2. CASE k # 1
        <4>1. j[k] = j[k - 1] \o ss[k]
          BY <2>1, <3>2 DEF Joins
        <4>2. j[k - 1] \in Seq(Frame) /\ Paired(j[k - 1])
          BY <2>3, <3>2
        <4>3. j[k] \in Seq(Frame) /\ Paired(j[k])
          BY <1>4, <4>1, <4>2, PairedConcat, ConcatFacts
        <4>4. ASSUME NEW i \in 1..k PROVE Has(j[k], Sub(order[i]))
          <5>1. i \in 1..(k - 1) \/ i = k
            OBVIOUS
          <5>2. Has(j[k - 1], Sub(order[i])) \/ Has(ss[k], Sub(order[i]))
            BY <1>4, <2>3, <3>2, <5>1
          <5> QED
            BY <1>4, <4>1, <4>2, <5>2, HasConcat
        <4> QED
          BY <4>3, <4>4
      <3> QED
        BY <3>1, <3>2
    <2> HIDE DEF Good
    <2>4. ASSUME Bad # {} PROVE FALSE
      <3>1. Bad \in SUBSET Nat
        OBVIOUS
      <3>2. PICK m \in Bad : \A k \in Bad : m <= k
        BY <2>4, <3>1, LeastElement
      <3>3. m \in 1..n /\ ~Good(m)
        BY <3>2
      <3>4. m # 1 => m - 1 \in 1..n /\ ~(m <= m - 1)
        BY <1>1, <3>3
      <3>5. m # 1 => Good(m - 1)
        BY <3>2, <3>4
      <3> QED
        BY <2>3, <3>3, <3>5
    <2>5. Good(n)
      BY <1>1, <1>6, <2>4
    <2> QED
      BY <1>2, <2>2, <2>5 DEF Good
  <1> QED
    BY <1>5, <1>6

--------------------------------------------------------------------------------
(* Types *)

\* s only gets x at its end.
GrowsBy(s, u, x) ==
  /\ \A i \in 1..Len(s) : i \in 1..Len(u) /\ u[i] = s[i]
  /\ \A i \in 1..Len(u) : i \in 1..Len(s) \/ u[i] = x

LEMMA EntriesFacts ==
  ASSUME ServerTypes, SessionTypes, NEW t \in Topics, NEW c \in Clients
  PROVE  /\ Entries(t, c) \in Nat
         /\ phase[c] # "closed" =>
              session[c] \in Sessions /\ Entries(t, c) = connections[t][c][session[c]]
  BY DEF ServerTypes, SessionTypes, Entries

LEMMA SentFacts ==
  ASSUME ServerTypes, SessionTypes, NEW t \in Topics, NEW v \in Nat
  PROVE  /\ Sent(t, v) \in [Clients -> Seq(Item)]
         /\ \A c \in Clients : GrowsBy(channel[c], Sent(t, v)[c], [topic |-> t, version |-> v])
         /\ Listed => \A c \in Clients :
              t \in subscriptions[c] => Has(Sent(t, v)[c], [topic |-> t, version |-> v])
         /\ ClosedDropped(t) \in [Clients -> [Sessions -> Nat]]
         /\ \A c \in Clients : phase[c] # "closed" =>
              ClosedDropped(t)[c][session[c]] = connections[t][c][session[c]]
  <1> DEFINE x == [topic |-> t, version |-> v]
             new(c) == [k \in 1..Entries(t, c) |-> x]
  <1>1. x \in Item
    BY DEF Item
  <1> HIDE DEF x
  <1>2. ASSUME NEW c \in Clients
        PROVE  /\ Entries(t, c) \in Nat
               /\ new(c) \in Seq(Item) /\ Len(new(c)) = Entries(t, c)
               /\ \A k \in 1..Len(new(c)) : new(c)[k] = x
    <2>1. Entries(t, c) \in Nat
      BY EntriesFacts
    <2> QED
      BY <1>1, <2>1
  <1> HIDE DEF new
  <1>3. Sent(t, v) = [c \in Clients |-> channel[c] \o new(c)]
    BY DEF Sent, new, x
  <1>4. \A c \in Clients : channel[c] \in Seq(Item)
    BY DEF SessionTypes
  <1>5. \A c \in Clients : channel[c] \o new(c) \in Seq(Item)
    BY <1>2, <1>4, ConcatFacts
  <1>6. ASSUME NEW c \in Clients
        PROVE  GrowsBy(channel[c], Sent(t, v)[c], x)
    <2>1. Sent(t, v)[c] = channel[c] \o new(c)
      BY <1>3
    <2>2. GrowsBy(channel[c], channel[c] \o new(c), x)
      BY <1>2, <1>4, ConcatFacts DEF GrowsBy
    <2> QED
      BY <2>1, <2>2
  <1>7. ASSUME Listed, NEW c \in Clients, t \in subscriptions[c]
        PROVE  Has(Sent(t, v)[c], x)
    <2>1. phase[c] # "closed" /\ connections[t][c][session[c]] > 0
      BY <1>7 DEF SessionTypes, Listed
    <2>2. 1 \in 1..Len(new(c)) /\ new(c)[1] = x
      BY <1>2, <2>1, EntriesFacts
    <2>3. Has(new(c), x)
      BY <2>2 DEF Has
    <2>4. Has(channel[c] \o new(c), x)
      BY <1>2, <1>4, <2>3, HasConcat
    <2> QED
      BY <1>3, <2>4
  <1>8. ClosedDropped(t) \in [Clients -> [Sessions -> Nat]]
    BY <1>2 DEF ClosedDropped
  <1>9. ASSUME NEW c \in Clients, phase[c] # "closed"
        PROVE  ClosedDropped(t)[c][session[c]] = connections[t][c][session[c]]
    <2>1. session[c] \in Sessions /\ Entries(t, c) = connections[t][c][session[c]]
      BY <1>9, EntriesFacts
    <2> QED
      BY <2>1 DEF ClosedDropped
  <1> QED
    BY <1>3, <1>5, <1>6, <1>7, <1>8, <1>9 DEF x

LEMMA ChannelAppend ==
  ASSUME SessionTypes, NEW c \in Clients, NEW x \in Item,
         NEW ch, ch = [channel EXCEPT ![c] = Append(@, x)]
  PROVE  /\ ch \in [Clients -> Seq(Item)] /\ Has(ch[c], x) /\ GrowsBy(channel[c], ch[c], x)
         /\ \A d \in Clients \ {c} : ch[d] = channel[d]
  <1>1. channel \in [Clients -> Seq(Item)]
    BY DEF SessionTypes
  <1>2. channel[c] \in Seq(Item)
    BY <1>1
  <1> DEFINE w == Append(channel[c], x)
  <1>3. w \in Seq(Item) /\ Len(channel[c]) \in Nat /\ Len(w) = Len(channel[c]) + 1
    BY <1>2, AppendFacts
  <1>4. Has(w, x)
    BY <1>2, <1>3, AppendFacts DEF Has
  <1>5. GrowsBy(channel[c], w, x)
    BY <1>2, AppendFacts DEF GrowsBy
  <1>6. ch[c] = w /\ ch = [channel EXCEPT ![c] = w]
    BY <1>1
  <1> HIDE DEF w
  <1> QED
    BY <1>1, <1>3, <1>4, <1>5, <1>6

LEMMA FirstType == \A t \in Topics : First(t) \in Nat /\ First(t) <= 1
  BY DEF First, Nothing

LEMMA TypesInit == Init => ServerTypes /\ SessionTypes /\ ClientTypes
  <1> SUFFICES ASSUME Init PROVE ServerTypes /\ SessionTypes /\ ClientTypes
    OBVIOUS
  <1>1. ServerTypes
    BY FirstType DEF Init, ServerTypes, Nothing
  <1>2. SessionTypes
    <2>1. <<>> \in Seq(Frame) /\ <<>> \in Seq(Item)
      OBVIOUS
    <2>2. /\ inbox \in [Clients -> Seq(Frame)] /\ channel \in [Clients -> Seq(Item)]
          /\ session \in [Clients -> Nat] /\ phase \in [Clients -> Phases]
          /\ subscriptions \in [Clients -> SUBSET Topics] /\ missed \in [Clients -> SUBSET Topics]
      BY <2>1 DEF Init, Phases
    <2> QED
      BY <2>2 DEF Init, SessionTypes
  <1>3. ClientTypes
    BY DEF Init, ClientTypes, Nothing
  <1> QED
    BY <1>1, <1>2, <1>3

LEMMA TypesNext ==
  ServerTypes /\ SessionTypes /\ ClientTypes /\ Listed /\ [Next]_vars
    => ServerTypes' /\ SessionTypes' /\ ClientTypes'
  <1> SUFFICES ASSUME ServerTypes, SessionTypes, ClientTypes, Listed, [Next]_vars
               PROVE  ServerTypes' /\ SessionTypes' /\ ClientTypes'
    OBVIOUS
  <1>1. ASSUME NEW t \in Topics, Commit(t) PROVE ServerTypes' /\ SessionTypes' /\ ClientTypes'
    <2>1. ServerTypes'
      BY <1>1 DEF Commit, ServerTypes
    <2> QED
      BY <1>1, <2>1 DEF Commit, sessionVars, SessionTypes, ClientTypes
  <1>2. ASSUME NEW t \in Topics, NEW v \in unsent[t], Broadcast(t, v)
        PROVE  ServerTypes' /\ SessionTypes' /\ ClientTypes'
    <2>1. v \in Nat
      BY DEF ServerTypes
    <2>2. channel' \in [Clients -> Seq(Item)] /\ connections' \in [Topics -> [Clients -> [Sessions -> Nat]]]
      BY <1>2, <2>1, SentFacts DEF Broadcast, SendMessage, ServerTypes
    <2>3. ServerTypes'
      BY <1>2, <2>2 DEF Broadcast, ServerTypes
    <2>4. SessionTypes'
      BY <1>2, <2>2 DEF Broadcast, SessionTypes
    <2> QED
      BY <1>2, <2>3, <2>4 DEF Broadcast, ClientTypes
  <1>3. ASSUME NEW t \in Topics, Relay(t) PROVE ServerTypes' /\ SessionTypes' /\ ClientTypes'
    <2>1. latest[t] + 1 \in Nat
      BY DEF ServerTypes
    <2>2. channel' \in [Clients -> Seq(Item)] /\ connections' \in [Topics -> [Clients -> [Sessions -> Nat]]]
      BY <1>3, <2>1, SentFacts DEF Relay, SendMessage, ServerTypes
    <2>3. ServerTypes'
      BY <1>3, <2>1, <2>2 DEF Relay, ServerTypes
    <2>4. SessionTypes'
      BY <1>3, <2>2 DEF Relay, SessionTypes
    <2> QED
      BY <1>3, <2>3, <2>4 DEF Relay, ClientTypes
  <1>4. ASSUME NEW t \in Topics, Retain(t) PROVE ServerTypes' /\ SessionTypes' /\ ClientTypes'
    <2>1. ServerTypes'
      BY <1>4 DEF Retain, Retained, ServerTypes
    <2> QED
      BY <1>4, <2>1 DEF Retain, sessionVars, SessionTypes, ClientTypes
  <1>5. ASSUME NEW c \in Clients, Connect(c) PROVE ServerTypes' /\ SessionTypes' /\ ClientTypes'
    <2>1. session'[c] \in Sessions
      BY <1>5, FeedAssumption DEF Connect, SessionTypes, Sessions
    <2>2. \A d \in Clients \ {c} : session'[d] = session[d] /\ phase'[d] = phase[d]
      BY <1>5 DEF Connect, SessionTypes
    <2>3. phase'[c] = "connected" /\ session' \in [Clients -> Nat] /\ phase' \in [Clients -> Phases]
      BY <1>5 DEF Connect, SessionTypes, Phases
    <2>4. SessionTypes'
      BY <1>5, <2>1, <2>2, <2>3 DEF Connect, SessionTypes
    <2> QED
      BY <1>5, <2>4 DEF Connect, serverVars, ServerTypes, ClientTypes
  <1>6. ASSUME NEW c \in Clients, NEW t \in Topics, Subscribe(c, t)
        PROVE  ServerTypes' /\ SessionTypes' /\ ClientTypes'
    <2>1. SubscribeFrames(t) \in Seq(Frame)
      BY FramesPaired
    <2>2. inbox' \in [Clients -> Seq(Frame)]
      BY <1>6, <2>1, ConcatFacts DEF Subscribe, SessionTypes
    <2>3. \A d \in Clients : phase[d] = "closed" => inbox'[d] = inbox[d]
      BY <1>6 DEF Subscribe, SessionTypes
    <2>4. SessionTypes'
      BY <1>6, <2>2, <2>3 DEF Subscribe, SessionTypes
    <2> QED
      BY <1>6, <2>4 DEF Subscribe, serverVars, ServerTypes, ClientTypes
  <1>7. ASSUME NEW c \in Clients, SubscribeAll(c)
        PROVE  ServerTypes' /\ SessionTypes' /\ ClientTypes'
    <2>1. PICK s \in Seq(Frame) : inbox' = [inbox EXCEPT ![c] = @ \o s]
      BY <1>7, AllAsked DEF SubscribeAll
    <2>2. inbox' \in [Clients -> Seq(Frame)]
      BY <2>1, ConcatFacts DEF SessionTypes
    <2>3. /\ phase' \in [Clients -> Phases]
          /\ \A d \in Clients : phase'[d] = "closed" => phase[d] = "closed" /\ inbox'[d] = inbox[d]
          /\ phase[c] # "closed"
          /\ \A d \in Clients : phase'[d] # "closed" => phase[d] # "closed"
      BY <1>7, <2>1 DEF SubscribeAll, SessionTypes, Phases
    <2>4. SessionTypes'
      BY <1>7, <2>2, <2>3 DEF SubscribeAll, SessionTypes
    <2> QED
      BY <1>7, <2>4 DEF SubscribeAll, serverVars, ServerTypes, ClientTypes
  <1>8. ASSUME NEW c \in Clients, HandleSubscribe(c)
        PROVE  ServerTypes' /\ SessionTypes' /\ ClientTypes'
    <2> DEFINE t == Head(inbox[c]).topic
    <2>1. Head(inbox[c]) \in Frame /\ Tail(inbox[c]) \in Seq(Frame)
      BY <1>8, TailFacts DEF HandleSubscribe, SessionTypes
    <2>2. t \in Topics /\ session[c] \in Sessions /\ [topic |-> t, version |-> retained[t]] \in Item
      BY <1>8, <2>1 DEF HandleSubscribe, SessionTypes, ServerTypes, Frame, Item
    <2>3. connections' = [connections EXCEPT ![t][c][session[c]] = @ + 1]
      BY <1>8 DEF HandleSubscribe
    <2>4. subscriptions' = [subscriptions EXCEPT ![c] = @ \cup {t}]
      BY <1>8 DEF HandleSubscribe
    <2>5. channel' = channel \/ channel' = [channel EXCEPT ![c] = Append(@, [topic |-> t, version |-> retained[t]])]
      BY <1>8 DEF HandleSubscribe
    <2> HIDE DEF t
    <2>6. connections' \in [Topics -> [Clients -> [Sessions -> Nat]]]
      BY <2>2, <2>3 DEF ServerTypes
    <2>7. channel' \in [Clients -> Seq(Item)]
      BY <2>2, <2>5, ChannelAppend DEF SessionTypes
    <2>8. inbox' \in [Clients -> Seq(Frame)] /\ \A d \in Clients : inbox[d] = <<>> => inbox'[d] = <<>>
      BY <1>8, <2>1 DEF HandleSubscribe, SessionTypes
    <2>9. subscriptions' \in [Clients -> SUBSET Topics] /\ \A d \in Clients \ {c} : subscriptions'[d] = subscriptions[d]
      BY <2>2, <2>4 DEF SessionTypes
    <2>10. SessionTypes'
      BY <1>8, <2>7, <2>8, <2>9 DEF HandleSubscribe, SessionTypes
    <2>11. ServerTypes'
      BY <1>8, <2>6 DEF HandleSubscribe, ServerTypes
    <2> QED
      BY <1>8, <2>10, <2>11 DEF HandleSubscribe, ClientTypes
  <1>9. ASSUME NEW c \in Clients, HandleGet(c)
        PROVE  ServerTypes' /\ SessionTypes' /\ ClientTypes'
    <2>1. Head(inbox[c]) \in Frame /\ Tail(inbox[c]) \in Seq(Frame)
      BY <1>9, TailFacts DEF HandleGet, SessionTypes
    <2>2. [conn |-> Connection(c), topic |-> Head(inbox[c]).topic, version |-> Nothing] \in Snapshot
      BY <2>1 DEF Snapshot, Connection, Frame, SessionTypes, Nothing
    <2>3. inbox' \in [Clients -> Seq(Frame)] /\ \A d \in Clients : inbox[d] = <<>> => inbox'[d] = <<>>
      BY <1>9, <2>1 DEF HandleGet, SessionTypes
    <2>4. SessionTypes'
      BY <1>9, <2>3 DEF HandleGet, SessionTypes
    <2>5. ClientTypes'
      BY <1>9, <2>2 DEF HandleGet, ClientTypes
    <2> QED
      BY <1>9, <2>4, <2>5 DEF HandleGet, serverVars, ServerTypes
  <1>10. ASSUME NEW s \in snapshots, ReadSnapshot(s)
         PROVE  ServerTypes' /\ SessionTypes' /\ ClientTypes'
    <2>1. [s EXCEPT !.version = latest[s.topic]] \in Snapshot
      BY DEF ClientTypes, Snapshot, ServerTypes
    <2>2. ClientTypes'
      BY <1>10, <2>1 DEF ReadSnapshot, ClientTypes
    <2> QED
      BY <1>10, <2>2 DEF ReadSnapshot, serverVars, sessionVars, ServerTypes, SessionTypes
  <1>11. ASSUME NEW s \in snapshots, SendSnapshot(s)
         PROVE  ServerTypes' /\ SessionTypes' /\ ClientTypes'
    <2>1. s.conn.client \in Clients /\ [topic |-> s.topic, version |-> s.version] \in Item
      BY DEF ClientTypes, Snapshot, Item
    <2>2. \/ channel' = channel
          \/ channel' = [channel EXCEPT ![s.conn.client] = Append(@, [topic |-> s.topic, version |-> s.version])]
      BY <1>11 DEF SendSnapshot
    <2>3. channel' \in [Clients -> Seq(Item)]
      BY <2>1, <2>2, ChannelAppend DEF SessionTypes
    <2>4. SessionTypes'
      BY <1>11, <2>3 DEF SendSnapshot, SessionTypes
    <2> QED
      BY <1>11, <2>4 DEF SendSnapshot, serverVars, ServerTypes, ClientTypes
  <1>12. ASSUME NEW c \in Clients, SendQueueItem(c)
         PROVE  ServerTypes' /\ SessionTypes' /\ ClientTypes'
    <2>1. Head(channel[c]) \in Item /\ Tail(channel[c]) \in Seq(Item)
      BY <1>12, TailFacts DEF SendQueueItem, SessionTypes
    <2>2. channel' \in [Clients -> Seq(Item)]
      BY <1>12, <2>1 DEF SendQueueItem, SessionTypes
    <2>3. view' \in [Clients -> [Topics -> Nat]]
      BY <1>12, <2>1 DEF SendQueueItem, Shown, ClientTypes, Item
    <2>4. SessionTypes'
      BY <1>12, <2>2 DEF SendQueueItem, SessionTypes
    <2> QED
      BY <1>12, <2>3, <2>4 DEF SendQueueItem, serverVars, ServerTypes, ClientTypes
  <1>13. ASSUME NEW c \in Clients, Close(c)
         PROVE  ServerTypes' /\ SessionTypes' /\ ClientTypes'
    <2>1. connections' \in [Topics -> [Clients -> [Sessions -> Nat]]]
      <3>1. CASE connections' = connections
        BY <3>1 DEF ServerTypes
      <3>2. CASE connections' = [t \in Topics |->
                   IF t \in subscriptions[c] THEN [connections[t] EXCEPT ![c][session[c]] = @ - 1]
                   ELSE connections[t]]
        <4>1. ASSUME NEW t \in Topics, t \in subscriptions[c]
              PROVE  [connections[t] EXCEPT ![c][session[c]] = @ - 1] \in [Clients -> [Sessions -> Nat]]
          <5>1. session[c] \in Sessions /\ connections[t][c][session[c]] \in Nat
            BY <1>13 DEF Close, SessionTypes, ServerTypes
          <5>2. connections[t][c][session[c]] - 1 \in Nat
            BY <4>1, <5>1 DEF Listed
          <5> QED
            BY <5>1, <5>2 DEF ServerTypes
        <4> QED
          BY <3>2, <4>1 DEF ServerTypes
      <3> QED
        BY <1>13, <3>1, <3>2 DEF Close
    <2>2. <<>> \in Seq(Frame) /\ <<>> \in Seq(Item)
      OBVIOUS
    <2>3. /\ inbox' \in [Clients -> Seq(Frame)] /\ channel' \in [Clients -> Seq(Item)]
          /\ phase' \in [Clients -> Phases] /\ subscriptions' \in [Clients -> SUBSET Topics]
          /\ missed' \in [Clients -> SUBSET Topics]
          /\ inbox'[c] = <<>> /\ subscriptions'[c] = {} /\ phase'[c] = "closed"
          /\ \A d \in Clients \ {c} :
               inbox'[d] = inbox[d] /\ subscriptions'[d] = subscriptions[d] /\ phase'[d] = phase[d]
      BY <1>13, <2>2 DEF Close, SessionTypes, Phases
    <2>4. SessionTypes'
      BY <1>13, <2>3 DEF Close, SessionTypes
    <2>5. ServerTypes'
      BY <1>13, <2>1 DEF Close, ServerTypes
    <2> QED
      BY <1>13, <2>4, <2>5 DEF Close, ClientTypes
  <1>14. ASSUME NEW t \in Topics, CommitUntold(t) PROVE ServerTypes' /\ SessionTypes' /\ ClientTypes'
    <2>1. ServerTypes'
      BY <1>14 DEF CommitUntold, ServerTypes
    <2> QED
      BY <1>14, <2>1 DEF CommitUntold, sessionVars, SessionTypes, ClientTypes
  <1>15. ASSUME NEW t \in Topics, NEW v \in 1..(latest[t] + 1), BroadcastUncommitted(t, v)
         PROVE  ServerTypes' /\ SessionTypes' /\ ClientTypes'
    <2>1. v \in Nat
      BY DEF ServerTypes
    <2>2. channel' \in [Clients -> Seq(Item)] /\ connections' \in [Topics -> [Clients -> [Sessions -> Nat]]]
      BY <1>15, <2>1, SentFacts DEF BroadcastUncommitted, SendMessage, ServerTypes
    <2>3. ServerTypes'
      BY <1>15, <2>1, <2>2 DEF BroadcastUncommitted, ServerTypes
    <2>4. SessionTypes'
      BY <1>15, <2>2 DEF BroadcastUncommitted, SessionTypes
    <2> QED
      BY <1>15, <2>3, <2>4 DEF BroadcastUncommitted, ClientTypes
  <1>16. ASSUME NEW s \in snapshots, FailSnapshot(s)
         PROVE  ServerTypes' /\ SessionTypes' /\ ClientTypes'
    <2>1. s.conn.client \in Clients /\ s.topic \in Topics
      BY DEF ClientTypes, Snapshot
    <2>2. missed' \in [Clients -> SUBSET Topics]
      BY <1>16, <2>1 DEF FailSnapshot, SessionTypes
    <2>3. SessionTypes'
      BY <1>16, <2>2 DEF FailSnapshot, SessionTypes
    <2> QED
      BY <1>16, <2>3 DEF FailSnapshot, serverVars, ServerTypes, ClientTypes
  <1>17. CASE UNCHANGED vars
    BY <1>17 DEF vars, serverVars, sessionVars, ServerTypes, SessionTypes, ClientTypes
  <1> QED
    BY <1>1, <1>2, <1>3, <1>4, <1>5, <1>6, <1>7, <1>8, <1>9, <1>10, <1>11, <1>12, <1>13, <1>14,
       <1>15, <1>16, <1>17
    DEF Next

--------------------------------------------------------------------------------
(* No version is ahead *)

\* Versions only grow.
LEMMA LatestGrows ==
  ASSUME ServerTypes, [Next]_vars, NEW t \in Topics
  PROVE  /\ latest'[t] \in Nat /\ latest'[t] >= latest[t]
         /\ phantom'[t] \in Nat /\ phantom'[t] >= phantom[t]
  <1>1. ASSUME NEW u \in Topics, Commit(u) \/ Relay(u) \/ CommitUntold(u)
        PROVE  latest'[t] \in Nat /\ latest'[t] >= latest[t] /\ phantom' = phantom
    BY <1>1 DEF Commit, Relay, CommitUntold, ServerTypes
  <1>2. ASSUME NEW u \in Topics, NEW v \in 1..(latest[u] + 1), BroadcastUncommitted(u, v)
        PROVE  phantom'[t] \in Nat /\ phantom'[t] >= phantom[t] /\ latest' = latest
    BY <1>2 DEF BroadcastUncommitted, ServerTypes
  <1>3. CASE latest' = latest /\ phantom' = phantom
    BY <1>3 DEF ServerTypes
  <1>4. latest[t] \in Nat /\ phantom[t] \in Nat
    BY DEF ServerTypes
  <1>5. ASSUME NEW u \in Topics, Retain(u) \/ \E v \in unsent[u] : Broadcast(u, v)
        PROVE  latest' = latest /\ phantom' = phantom
    BY <1>5 DEF Retain, Broadcast
  <1>6. ASSUME NEW c \in Clients,
               \/ Connect(c) \/ SubscribeAll(c) \/ Close(c)
               \/ HandleSubscribe(c) \/ HandleGet(c) \/ SendQueueItem(c)
               \/ \E u \in Topics : Subscribe(c, u)
        PROVE  latest' = latest /\ phantom' = phantom
    BY <1>6 DEF Connect, SubscribeAll, Close, HandleSubscribe, HandleGet, SendQueueItem, Subscribe, serverVars
  <1>7. ASSUME NEW s, ReadSnapshot(s) \/ SendSnapshot(s) \/ FailSnapshot(s)
        PROVE  latest' = latest /\ phantom' = phantom
    BY <1>7 DEF ReadSnapshot, SendSnapshot, FailSnapshot, serverVars
  <1>8. CASE UNCHANGED vars
    BY <1>3, <1>8 DEF vars, serverVars
  <1>9. CASE Next
    <2>1. CASE latest' = latest /\ phantom' = phantom
      BY <1>3, <2>1
    <2>2. CASE \E u \in Topics : Commit(u) \/ Relay(u) \/ CommitUntold(u)
      BY <1>1, <1>4, <2>2
    <2>3. CASE \E u \in Topics : \E v \in 1..(latest[u] + 1) : BroadcastUncommitted(u, v)
      BY <1>2, <1>4, <2>3
    <2> QED
      BY <1>5, <1>6, <1>7, <1>9, <2>1, <2>2, <2>3 DEF Next
  <1> QED
    BY <1>8, <1>9

\* Known, of the next state.
KnownNext(t, v) == v <= latest'[t] \/ v <= phantom'[t]

LEMMA KnownGrows ==
  ASSUME ServerTypes, [Next]_vars, NEW t \in Topics, NEW v \in Nat, Known(t, v)
  PROVE  KnownNext(t, v)
  <1>1. latest[t] \in Nat /\ phantom[t] \in Nat
    BY DEF ServerTypes
  <1> QED
    BY <1>1, LatestGrows DEF Known, KnownNext

LEMMA OldItems ==
  ASSUME SessionTypes, Bounded, NEW c \in Clients, NEW i \in 1..Len(channel[c])
  PROVE  /\ channel[c] \in Seq(Item) /\ channel[c][i] \in Item
         /\ channel[c][i].version \in Nat /\ channel[c][i].topic \in Topics
         /\ Known(channel[c][i].topic, channel[c][i].version)
  <1>1. channel[c] \in Seq(Item)
    BY DEF SessionTypes
  <1>2. channel[c][i] \in Item
    BY <1>1
  <1>3. \A x \in Item : x.version \in Nat /\ x.topic \in Topics
    BY DEF Item
  <1> QED
    BY <1>1, <1>2, <1>3 DEF Bounded

\* New items carry a version the row has had, or one that was not committed.
LEMMA ItemsBounded ==
  ASSUME ServerTypes, SessionTypes, Bounded, [Next]_vars,
         NEW x \in Item, KnownNext(x.topic, x.version),
         NEW c \in Clients, GrowsBy(channel[c], channel'[c], x),
         NEW i \in 1..Len(channel'[c])
  PROVE  KnownNext(channel'[c][i].topic, channel'[c][i].version)
  <1>1. CASE channel'[c][i] = x
    BY <1>1
  <1>2. CASE i \in 1..Len(channel[c]) /\ channel'[c][i] = channel[c][i]
    BY <1>2, OldItems, KnownGrows
  <1> QED
    BY <1>1, <1>2 DEF GrowsBy

LEMMA BoundedNext ==
  ServerTypes /\ SessionTypes /\ ClientTypes /\ Listed /\ Bounded /\ [Next]_vars => Bounded'
  <1> SUFFICES ASSUME ServerTypes, SessionTypes, ClientTypes, Listed, Bounded, [Next]_vars
               PROVE  Bounded'
    OBVIOUS
  <1>0. ServerTypes' /\ SessionTypes' /\ ClientTypes'
    BY TypesNext
  <1>1. \A t \in Topics : latest'[t] >= latest[t] /\ latest'[t] \in Nat /\ latest[t] \in Nat
    BY <1>0, LatestGrows DEF ServerTypes
  <1>2. ASSUME NEW t \in Topics, NEW v \in Nat, Known(t, v) PROVE KnownNext(t, v)
    BY <1>2, KnownGrows
  \* The parts of Bounded, one by one.
  <1>a. \A t \in Topics : /\ retained[t] <= latest[t] /\ retained[t] \in Nat
                          /\ announced[t] <= latest[t] /\ announced[t] \in Nat
                          /\ \A v \in unsent[t] : v <= latest[t] /\ v \in Nat
    BY DEF Bounded, ServerTypes
  <1>b. \A s \in snapshots : s.version <= latest[s.topic] /\ s.version \in Nat /\ s.topic \in Topics
    BY DEF Bounded, ClientTypes, Snapshot
  <1>c. ASSUME view' = view PROVE \A t \in Topics, c \in Clients : KnownNext(t, view'[c][t])
    <2>1. \A t \in Topics, c \in Clients : view[c][t] \in Nat /\ Known(t, view[c][t])
      BY DEF Bounded, ClientTypes
    <2> QED
      BY <1>2, <1>c, <2>1
  <1>d. ASSUME NEW c \in Clients, channel'[c] = channel[c], NEW i \in 1..Len(channel'[c])
        PROVE  KnownNext(channel'[c][i].topic, channel'[c][i].version)
    BY <1>2, <1>d, OldItems
  <1>e. ASSUME NEW x \in Item, KnownNext(x.topic, x.version), NEW d \in Clients,
               channel' = channel \/ channel' = [channel EXCEPT ![d] = Append(@, x)],
               NEW c \in Clients, NEW i \in 1..Len(channel'[c])
        PROVE  KnownNext(channel'[c][i].topic, channel'[c][i].version)
    <2>1. CASE channel'[c] = channel[c]
      BY <1>d, <2>1
    <2>2. CASE channel' = [channel EXCEPT ![d] = Append(@, x)]
      <3>1. \A ch : ch = [channel EXCEPT ![d] = Append(@, x)] =>
              GrowsBy(channel[d], ch[d], x) /\ \A f \in Clients \ {d} : ch[f] = channel[f]
        BY ChannelAppend
      <3>2. GrowsBy(channel[d], channel'[d], x) /\ \A f \in Clients \ {d} : channel'[f] = channel[f]
        BY <2>2, <3>1
      <3>3. CASE c = d
        BY <1>e, <3>2, <3>3, ItemsBounded
      <3>4. CASE c # d
        BY <2>1, <3>2, <3>4
      <3> QED
        BY <3>3, <3>4
    <2> QED
      BY <1>e, <2>1, <2>2
  <1>f. ASSUME \A t \in Topics : retained'[t] <= latest'[t] /\ announced'[t] <= latest'[t],
               \A t \in Topics, c \in Clients : KnownNext(t, view'[c][t]),
               \A c \in Clients : \A i \in 1..Len(channel'[c]) :
                 KnownNext(channel'[c][i].topic, channel'[c][i].version),
               \A s \in snapshots' : s.version <= latest'[s.topic],
               \A t \in Topics : \A v \in unsent'[t] : v <= latest'[t]
        PROVE  Bounded'
    BY <1>f DEF Bounded, Known, KnownNext
  \* What leaves the server's data alone, and what changes snapshots only.
  <1>g. ASSUME UNCHANGED serverVars, view' = view, channel' = channel,
               \A s \in snapshots' : s.version <= latest'[s.topic]
        PROVE  Bounded'
    BY <1>a, <1>c, <1>d, <1>f, <1>g DEF serverVars
  <1>h. ASSUME snapshots' \subseteq snapshots PROVE \A s \in snapshots' : s.version <= latest'[s.topic]
    BY <1>1, <1>b, <1>h
  <1>3. ASSUME NEW t \in Topics, Commit(t) PROVE Bounded'
    <2>1. \A u \in Topics : \A v \in unsent'[u] : v <= latest'[u]
      <3>1. ASSUME NEW u \in Topics, NEW v \in unsent'[u] PROVE v <= latest'[u]
        <4>1. v \in unsent[u] \/ (u = t /\ v = latest[t] + 1)
          BY <1>3 DEF Commit, ServerTypes
        <4>2. u = t => latest'[u] = latest[t] + 1
          BY <1>3 DEF Commit, ServerTypes
        <4> QED
          BY <1>1, <1>a, <4>1, <4>2
      <3> QED
        BY <3>1
    <2>2. \A u \in Topics : retained'[u] <= latest'[u] /\ announced'[u] <= latest'[u]
      <3>1. ASSUME NEW u \in Topics PROVE retained'[u] <= latest'[u] /\ announced'[u] <= latest'[u]
        <4>1. /\ latest' = [latest EXCEPT ![t] = @ + 1] /\ retained' = retained
              /\ announced' = [announced EXCEPT ![t] = latest[t] + 1]
          BY <1>3 DEF Commit
        <4>2. announced'[u] = announced[u] \/ announced'[u] = latest'[u]
          BY <4>1 DEF ServerTypes
        <4> QED
          BY <1>1, <1>a, <4>1, <4>2
      <3> QED
        BY <3>1
    <2>3. view' = view /\ channel' = channel /\ snapshots' = snapshots
      BY <1>3 DEF Commit, sessionVars
    <2> QED
      BY <1>c, <1>d, <1>f, <1>h, <2>1, <2>2, <2>3
  <1>16. ASSUME NEW t \in Topics, CommitUntold(t) PROVE Bounded'
    <2>1. /\ view' = view /\ channel' = channel /\ snapshots' = snapshots
          /\ UNCHANGED <<retained, announced, unsent>>
      BY <1>16 DEF CommitUntold, sessionVars
    <2>2. /\ \A u \in Topics : retained'[u] <= latest'[u] /\ announced'[u] <= latest'[u]
          /\ \A u \in Topics : \A v \in unsent'[u] : v <= latest'[u]
      BY <1>1, <1>a, <2>1
    <2> QED
      BY <1>c, <1>d, <1>f, <1>h, <2>1, <2>2
  <1>4. ASSUME NEW t \in Topics, NEW v \in unsent[t], Broadcast(t, v) PROVE Bounded'
    <2> DEFINE x == [topic |-> t, version |-> v]
    <2>1. v \in Nat /\ v <= latest'[t] /\ latest' = latest
      BY <1>4, <1>a DEF Broadcast
    <2>2. x \in Item /\ KnownNext(x.topic, x.version)
      BY <2>1 DEF Item, KnownNext
    <2>3. \A c \in Clients : GrowsBy(channel[c], channel'[c], x)
      BY <1>4, <2>1, SentFacts DEF Broadcast, SendMessage
    <2> HIDE DEF x
    <2>4. \A c \in Clients : \A i \in 1..Len(channel'[c]) :
            KnownNext(channel'[c][i].topic, channel'[c][i].version)
      BY <2>2, <2>3, ItemsBounded
    <2>5. \A u \in Topics : unsent'[u] \subseteq unsent[u]
      BY <1>4 DEF Broadcast, ServerTypes
    <2>6. view' = view /\ snapshots' = snapshots /\ UNCHANGED <<retained, announced>>
      BY <1>4 DEF Broadcast
    <2> QED
      BY <1>a, <1>c, <1>f, <1>h, <2>1, <2>4, <2>5, <2>6
  <1>17. ASSUME NEW t \in Topics, NEW v \in 1..(latest[t] + 1), BroadcastUncommitted(t, v) PROVE Bounded'
    <2> DEFINE x == [topic |-> t, version |-> v]
    <2>1. v \in Nat /\ latest' = latest /\ phantom'[t] = v
      BY <1>17 DEF BroadcastUncommitted, ServerTypes
    <2>2. x \in Item /\ KnownNext(x.topic, x.version)
      BY <2>1 DEF Item, KnownNext
    <2>3. \A c \in Clients : GrowsBy(channel[c], channel'[c], x)
      BY <1>17, <2>1, SentFacts DEF BroadcastUncommitted, SendMessage
    <2> HIDE DEF x
    <2>4. \A c \in Clients : \A i \in 1..Len(channel'[c]) :
            KnownNext(channel'[c][i].topic, channel'[c][i].version)
      BY <2>2, <2>3, ItemsBounded
    <2>5. view' = view /\ snapshots' = snapshots /\ UNCHANGED <<retained, announced, unsent>>
      BY <1>17 DEF BroadcastUncommitted
    <2> QED
      BY <1>a, <1>c, <1>f, <1>h, <2>1, <2>4, <2>5
  <1>5. ASSUME NEW t \in Topics, Relay(t) PROVE Bounded'
    <2> DEFINE x == [topic |-> t, version |-> latest[t] + 1]
    <2>1. latest[t] + 1 \in Nat /\ latest' = [latest EXCEPT ![t] = @ + 1] /\ latest'[t] = latest[t] + 1
      BY <1>5 DEF ServerTypes, Relay
    <2>2. x \in Item /\ KnownNext(x.topic, x.version)
      BY <2>1 DEF Item, KnownNext
    <2>3. \A c \in Clients : GrowsBy(channel[c], channel'[c], x)
      BY <1>5, <2>1, SentFacts DEF Relay, SendMessage
    <2> HIDE DEF x
    <2>4. \A c \in Clients : \A i \in 1..Len(channel'[c]) :
            KnownNext(channel'[c][i].topic, channel'[c][i].version)
      BY <2>2, <2>3, ItemsBounded
    <2>5. \A u \in Topics : \A w \in unsent'[u] : w <= latest'[u]
      <3>1. ASSUME NEW u \in Topics, NEW w \in unsent'[u] PROVE w <= latest'[u]
        <4>1. (u # t /\ w \in unsent[u]) \/ (u = t /\ w = latest'[t])
          BY <1>5, <2>1 DEF Relay, ServerTypes
        <4> QED
          BY <1>1, <1>a, <4>1
      <3> QED
        BY <3>1
    <2>6. view' = view /\ snapshots' = snapshots /\ UNCHANGED <<retained, announced>>
      BY <1>5 DEF Relay
    <2>7. \A u \in Topics : retained'[u] <= latest'[u] /\ announced'[u] <= latest'[u]
      BY <1>1, <1>a, <2>6
    <2> QED
      BY <1>c, <1>f, <1>h, <2>4, <2>5, <2>6, <2>7
  <1>6. ASSUME NEW t \in Topics, Retain(t) PROVE Bounded'
    <2>1. /\ latest' = latest /\ retained' = [retained EXCEPT ![t] = latest[t]]
          /\ announced' = announced /\ view' = view /\ channel' = channel /\ snapshots' = snapshots
      BY <1>6 DEF Retain, Retained, sessionVars
    <2>2. \A u \in Topics : retained'[u] <= latest'[u] /\ announced'[u] <= latest'[u]
      BY <2>1, <1>1, <1>a DEF ServerTypes
    <2>3. \A u \in Topics : unsent'[u] \subseteq unsent[u]
      BY <1>6 DEF Retain, ServerTypes
    <2> QED
      BY <1>a, <1>c, <1>d, <1>f, <1>h, <2>1, <2>2, <2>3
  <1>7. ASSUME NEW c \in Clients, Connect(c) \/ SubscribeAll(c) \/ \E t \in Topics : Subscribe(c, t)
        PROVE  Bounded'
    BY <1>g, <1>h, <1>7 DEF Connect, SubscribeAll, Subscribe
  <1>8. ASSUME NEW c \in Clients, HandleSubscribe(c) PROVE Bounded'
    <2> DEFINE t == Head(inbox[c]).topic
               x == [topic |-> t, version |-> retained[t]]
    <2>1. Head(inbox[c]) \in Frame
      BY <1>8, TailFacts DEF HandleSubscribe, SessionTypes
    <2>2. x \in Item /\ x.topic = t /\ x.version = retained[t] /\ t \in Topics
      BY <2>1 DEF Item, Frame, ServerTypes
    <2>3. channel' = channel \/ channel' = [channel EXCEPT ![c] = Append(@, x)]
      BY <1>8 DEF HandleSubscribe
    <2>4. /\ UNCHANGED <<latest, retained, announced, unsent>> /\ view' = view /\ snapshots' = snapshots
      BY <1>8 DEF HandleSubscribe
    <2>5. KnownNext(x.topic, x.version)
      BY <1>a, <2>2, <2>4 DEF KnownNext
    <2> HIDE DEF t, x
    <2>6. \A d \in Clients : \A i \in 1..Len(channel'[d]) :
            KnownNext(channel'[d][i].topic, channel'[d][i].version)
      BY <1>e, <2>2, <2>3, <2>5
    <2> QED
      BY <1>a, <1>c, <1>f, <1>h, <2>4, <2>6
  <1>9. ASSUME NEW c \in Clients, HandleGet(c) PROVE Bounded'
    <2>1. Head(inbox[c]) \in Frame
      BY <1>9, TailFacts DEF HandleGet, SessionTypes
    <2>2. \A s \in snapshots' : s \in snapshots \/ (s.version = 0 /\ s.topic \in Topics)
      BY <1>9, <2>1 DEF HandleGet, Frame, Nothing
    <2>3. \A s \in snapshots' : s.version <= latest'[s.topic]
      BY <1>1, <1>b, <1>9, <2>2 DEF HandleGet, serverVars
    <2> QED
      BY <1>9, <1>g, <2>3 DEF HandleGet
  <1>10. ASSUME NEW s \in snapshots, ReadSnapshot(s) PROVE Bounded'
    <2>1. \A r \in snapshots' : r \in snapshots \/ (r.version = latest[r.topic] /\ r.topic \in Topics)
      <3>1. s \in Snapshot
        BY DEF ClientTypes
      <3>2. LET r == [s EXCEPT !.version = latest[s.topic]]
            IN  r.version = latest[r.topic] /\ r.topic \in Topics
        BY <3>1 DEF Snapshot
      <3> QED
        BY <1>10, <3>2 DEF ReadSnapshot
    <2>2. \A r \in snapshots' : r.version <= latest'[r.topic]
      BY <1>1, <1>b, <1>10, <2>1 DEF ReadSnapshot, serverVars
    <2> QED
      BY <1>10, <1>g, <2>2 DEF ReadSnapshot, sessionVars
  <1>11. ASSUME NEW s \in snapshots, SendSnapshot(s) PROVE Bounded'
    <2> DEFINE x == [topic |-> s.topic, version |-> s.version]
               c == s.conn.client
    <2>1. c \in Clients /\ x \in Item /\ x.topic = s.topic /\ x.version = s.version
      BY DEF ClientTypes, Snapshot, Item
    <2>2. channel' = channel \/ channel' = [channel EXCEPT ![c] = Append(@, x)]
      BY <1>11 DEF SendSnapshot
    <2>3. UNCHANGED <<latest, retained, announced, unsent, view>> /\ snapshots' \subseteq snapshots
      BY <1>11 DEF SendSnapshot, serverVars
    <2>4. KnownNext(x.topic, x.version)
      BY <1>b, <2>1, <2>3 DEF KnownNext
    <2> HIDE DEF c, x
    <2>5. \A d \in Clients : \A i \in 1..Len(channel'[d]) :
            KnownNext(channel'[d][i].topic, channel'[d][i].version)
      BY <1>e, <2>1, <2>2, <2>4
    <2> QED
      BY <1>a, <1>c, <1>f, <1>h, <2>3, <2>5
  <1>12. ASSUME NEW s \in snapshots, FailSnapshot(s) PROVE Bounded'
    <2>1. snapshots' \subseteq snapshots /\ UNCHANGED <<serverVars, view, channel>>
      BY <1>12 DEF FailSnapshot
    <2> QED
      BY <1>g, <1>h, <2>1
  <1>13. ASSUME NEW c \in Clients, SendQueueItem(c) PROVE Bounded'
    <2> DEFINE x == Head(channel[c])
    <2>0. channel \in [Clients -> Seq(Item)] /\ channel[c] \in Seq(Item) /\ channel[c] # <<>>
      BY <1>13 DEF SendQueueItem, SessionTypes
    <2>1. x = channel[c][1] /\ 1 \in 1..Len(channel[c])
      BY <2>0, TailFacts
    <2>2. x.topic \in Topics /\ x.version \in Nat /\ Known(x.topic, x.version)
      BY <2>1, OldItems
    <2>3. UNCHANGED <<latest, retained, announced, unsent, phantom>> /\ snapshots' = snapshots
      BY <1>13 DEF SendQueueItem, serverVars
    <2>4. view' = view \/ view' = [view EXCEPT ![c][x.topic] = x.version]
      BY <1>13 DEF SendQueueItem, Shown
    <2>5. channel' = [channel EXCEPT ![c] = Tail(channel[c])]
      BY <1>13 DEF SendQueueItem
    <2> HIDE DEF x
    <2>6. \A t \in Topics, d \in Clients : KnownNext(t, view'[d][t])
      <3>1. CASE view' = view
        BY <1>c, <3>1
      <3>2. CASE view' = [view EXCEPT ![c][x.topic] = x.version]
        <4>1. ASSUME NEW t \in Topics, NEW d \in Clients PROVE KnownNext(t, view'[d][t])
          <5>1. view'[d][t] = view[d][t] \/ (t = x.topic /\ view'[d][t] = x.version)
            BY <2>2, <3>2 DEF ClientTypes
          <5>2. view[d][t] \in Nat /\ Known(t, view[d][t])
            BY DEF ClientTypes, Bounded
          <5> QED
            BY <1>2, <2>2, <5>1, <5>2
        <4> QED
          BY <4>1
      <3> QED
        BY <2>4, <3>1, <3>2
    <2>7. ASSUME NEW d \in Clients, NEW i \in 1..Len(channel'[d])
          PROVE  KnownNext(channel'[d][i].topic, channel'[d][i].version)
      <3>1. CASE d # c
        <4>1. channel'[d] = channel[d]
          BY <2>0, <2>5, <3>1
        <4> QED
          BY <1>d, <4>1
      <3>2. CASE d = c
        <4>1. channel'[d] = Tail(channel[c])
          BY <2>0, <2>5, <3>2
        <4>2. i + 1 \in 1..Len(channel[c]) /\ channel'[d][i] = channel[c][i + 1]
          BY <2>0, <4>1, TailFacts
        <4> QED
          BY <1>2, <4>2, OldItems
      <3> QED
        BY <3>1, <3>2
    <2> QED
      BY <1>a, <1>f, <1>h, <2>3, <2>6, <2>7
  <1>14. ASSUME NEW c \in Clients, Close(c) PROVE Bounded'
    <2>1. \A d \in Clients : channel'[d] = <<>> \/ channel'[d] = channel[d]
      BY <1>14 DEF Close, SessionTypes
    <2>2. \A d \in Clients : \A i \in 1..Len(channel'[d]) :
            KnownNext(channel'[d][i].topic, channel'[d][i].version)
      BY <1>d, <2>1
    <2>3. UNCHANGED <<latest, retained, announced, unsent, view, snapshots>>
      BY <1>14 DEF Close
    <2> QED
      BY <1>a, <1>c, <1>f, <1>h, <2>2, <2>3
  <1>15. CASE UNCHANGED vars
    BY <1>g, <1>h, <1>15 DEF vars, sessionVars
  <1> QED
    BY <1>3, <1>4, <1>5, <1>6, <1>7, <1>8, <1>9, <1>10, <1>11, <1>12, <1>13, <1>14, <1>15,
       <1>16, <1>17
    DEF Next

--------------------------------------------------------------------------------
(* Subscriptions *)

LEMMA ListedNext ==
  ServerTypes /\ SessionTypes /\ ClientTypes /\ Listed /\ [Next]_vars => Listed'
  <1> SUFFICES ASSUME ServerTypes, SessionTypes, ClientTypes, Listed, [Next]_vars PROVE Listed'
    OBVIOUS
  <1>1. CASE UNCHANGED <<connections, subscriptions, session>>
    BY <1>1 DEF Listed
  <1>2. ASSUME NEW t \in Topics, NEW v \in Nat, SendMessage(t, v),
               UNCHANGED <<subscriptions, session>>
        PROVE  Listed'
    <2>1. connections' = [connections EXCEPT ![t] = ClosedDropped(t)]
      BY <1>2 DEF SendMessage
    <2>2. ASSUME NEW c \in Clients, NEW u \in subscriptions[c]
          PROVE  connections'[u][c][session[c]] = connections[u][c][session[c]]
      <3>1. phase[c] # "closed" /\ u \in Topics
        BY DEF SessionTypes
      <3>2. CASE u = t
        <4>1. connections'[u] = ClosedDropped(t)
          BY <2>1, <3>2 DEF ServerTypes
        <4> QED
          BY <1>2, <3>1, <3>2, <4>1, SentFacts
      <3>3. CASE u # t
        BY <2>1, <3>1, <3>3 DEF ServerTypes
      <3> QED
        BY <3>2, <3>3
    <2> QED
      BY <1>2, <2>2 DEF Listed
  <1>3. ASSUME NEW c \in Clients, Connect(c) PROVE Listed'
    <2>1. subscriptions[c] = {} /\ \A d \in Clients \ {c} : session'[d] = session[d]
      BY <1>3 DEF Connect, SessionTypes
    <2> QED
      BY <1>3, <2>1 DEF Connect, serverVars, Listed
  <1>4. ASSUME NEW c \in Clients, HandleSubscribe(c) PROVE Listed'
    <2> DEFINE t == Head(inbox[c]).topic
    <2>1. Head(inbox[c]) \in Frame /\ session[c] \in Sessions
      BY <1>4, TailFacts DEF HandleSubscribe, SessionTypes
    <2>2. t \in Topics
      BY <2>1 DEF Frame
    <2>3. /\ connections' = [connections EXCEPT ![t][c][session[c]] = @ + 1]
          /\ subscriptions' = [subscriptions EXCEPT ![c] = @ \cup {t}]
          /\ session' = session
      BY <1>4 DEF HandleSubscribe
    <2> HIDE DEF t
    <2>4. \A u \in Topics, d \in Clients : session[d] \in Sessions =>
            /\ connections[u][d][session[d]] \in Nat
            /\ connections'[u][d][session[d]] =
                 connections[u][d][session[d]] + (IF u = t /\ d = c THEN 1 ELSE 0)
      BY <2>1, <2>2, <2>3 DEF ServerTypes
    <2>5. ASSUME NEW d \in Clients, NEW u \in subscriptions'[d]
          PROVE  connections'[u][d][session'[d]] > 0
      <3>1. u \in subscriptions[d] \/ (u = t /\ d = c)
        BY <2>3 DEF SessionTypes
      <3>2. u \in Topics /\ session[d] \in Sessions
        BY <2>1, <2>2, <3>1 DEF SessionTypes
      <3>3. u \in subscriptions[d] => connections[u][d][session[d]] > 0
        BY DEF Listed
      <3>4. session'[d] = session[d]
        BY <2>3
      <3> QED
        BY <2>4, <3>1, <3>2, <3>3, <3>4
    <2> QED
      BY <2>5 DEF Listed
  <1>5. ASSUME NEW c \in Clients, Close(c) PROVE Listed'
    <2>1. /\ subscriptions'[c] = {} /\ \A d \in Clients \ {c} : subscriptions'[d] = subscriptions[d]
          /\ session' = session
      BY <1>5 DEF Close, SessionTypes
    <2>2. ASSUME NEW d \in Clients \ {c}, NEW u \in Topics
          PROVE  connections'[u][d] = connections[u][d]
      <3>1. CASE connections' = connections
        BY <3>1
      <3>2. CASE connections' = [t \in Topics |->
                   IF t \in subscriptions[c] THEN [connections[t] EXCEPT ![c][session[c]] = @ - 1]
                   ELSE connections[t]]
        <4>1. connections'[u] = IF u \in subscriptions[c] THEN [connections[u] EXCEPT ![c][session[c]] = @ - 1]
                                ELSE connections[u]
          BY <3>2
        <4>2. connections[u] \in [Clients -> [Sessions -> Nat]]
          BY DEF ServerTypes
        <4> QED
          BY <4>1, <4>2
      <3> QED
        BY <1>5, <3>1, <3>2 DEF Close
    <2>3. \A d \in Clients : subscriptions[d] \subseteq Topics
      BY DEF SessionTypes
    <2> QED
      BY <2>1, <2>2, <2>3 DEF Listed
  <1>6. ASSUME NEW t \in Topics, NEW v \in unsent[t], Broadcast(t, v) PROVE Listed'
    <2>1. v \in Nat
      BY DEF ServerTypes
    <2> QED
      BY <1>2, <1>6, <2>1 DEF Broadcast
  <1>7. ASSUME NEW t \in Topics, Relay(t) PROVE Listed'
    <2>1. latest[t] + 1 \in Nat
      BY DEF ServerTypes
    <2> QED
      BY <1>2, <1>7, <2>1 DEF Relay
  <1>8. ASSUME NEW t \in Topics, NEW v \in 1..(latest[t] + 1), BroadcastUncommitted(t, v) PROVE Listed'
    <2>1. v \in Nat
      BY DEF ServerTypes
    <2> QED
      BY <1>2, <1>8, <2>1 DEF BroadcastUncommitted
  <1> QED
    BY <1>1, <1>3, <1>4, <1>5, <1>6, <1>7, <1>8 DEF Next, Commit, CommitUntold, Retain, SubscribeAll, HandleGet,
      SendQueueItem, Subscribe, ReadSnapshot, SendSnapshot, FailSnapshot, vars, serverVars, sessionVars

\* The session handles the frames of its inbox in their order.
LEMMA HasTail ==
  ASSUME NEW S, NEW s \in Seq(S), s # <<>>, NEW x, Has(s, x)
  PROVE  x = Head(s) \/ Has(Tail(s), x)
  <1>1. PICK i \in 1..Len(s) : s[i] = x
    BY DEF Has
  <1>2. CASE i = 1
    <2>1. Head(s) = s[1]
      BY TailFacts
    <2> QED
      BY <1>1, <1>2, <2>1
  <1>3. CASE i - 1 \in 1..Len(Tail(s)) /\ Tail(s)[i - 1] = s[i]
    BY <1>1, <1>3 DEF Has
  <1> QED
    BY <1>2, <1>3, TailFacts

LEMMA AskedNext ==
  SessionTypes /\ Asked /\ Followed /\ [Next]_vars => Asked' /\ Followed'
  <1> SUFFICES ASSUME SessionTypes, Asked, Followed, [Next]_vars PROVE Asked' /\ Followed'
    OBVIOUS
  <1>1. CASE UNCHANGED <<inbox, phase, subscriptions>>
    BY <1>1 DEF Asked, Followed
  <1>2. ASSUME NEW c \in Clients, Connect(c) PROVE Asked' /\ Followed'
    <2>1. \A d \in Clients : phase'[d] = "subscribed" => phase[d] = "subscribed"
      BY <1>2 DEF Connect, SessionTypes
    <2> QED
      BY <1>2, <2>1 DEF Connect, Asked, Followed
  <1>3. ASSUME NEW c \in Clients, NEW t \in Topics, Subscribe(c, t) PROVE Asked' /\ Followed'
    <2>1. inbox \in [Clients -> Seq(Frame)] /\ inbox' = [inbox EXCEPT ![c] = @ \o SubscribeFrames(t)]
      BY <1>3 DEF Subscribe, SessionTypes
    <2>2. phase[c] = "connected" /\ phase' = phase /\ subscriptions' = subscriptions
      BY <1>3 DEF Subscribe
    <2>3. \A d \in Clients \ {c} : inbox'[d] = inbox[d]
      BY <2>1
    <2>4. Paired(inbox'[c])
      <3>1. inbox'[c] = inbox[c] \o SubscribeFrames(t) /\ inbox[c] \in Seq(Frame)
        BY <2>1
      <3> QED
        BY <3>1, FramesPaired, PairedConcat DEF Followed
    <2>5. Asked'
      BY <2>2, <2>3 DEF Asked
    <2> QED
      BY <2>3, <2>4, <2>5 DEF Followed
  <1>4. ASSUME NEW c \in Clients, SubscribeAll(c) PROVE Asked' /\ Followed'
    <2>1. PICK s \in Seq(Frame) : /\ inbox' = [inbox EXCEPT ![c] = @ \o s]
                                  /\ Paired(s) /\ \A t \in Topics : Has(s, Sub(t))
      BY <1>4, AllAsked DEF SubscribeAll
    <2>2. inbox'[c] = inbox[c] \o s /\ inbox[c] \in Seq(Frame)
      BY <2>1 DEF SessionTypes
    <2>3. Paired(inbox'[c])
      BY <2>1, <2>2, PairedConcat DEF Followed
    <2>4. \A t \in Topics : Has(inbox'[c], Sub(t))
      <3>1. \A t \in Topics : Has(inbox[c] \o s, Sub(t))
        BY <2>1, <2>2, HasConcat
      <3> QED
        BY <2>2, <3>1
    <2>5. \A d \in Clients \ {c} : inbox'[d] = inbox[d] /\ phase'[d] = phase[d]
      BY <1>4, <2>1 DEF SubscribeAll, SessionTypes
    <2>6. subscriptions' = subscriptions
      BY <1>4 DEF SubscribeAll
    <2>7. Asked'
      BY <2>4, <2>5, <2>6 DEF Asked
    <2> QED
      BY <2>3, <2>5, <2>7 DEF Followed
  <1>5. ASSUME NEW c \in Clients, inbox[c] # <<>>, phase' = phase,
               inbox' = [inbox EXCEPT ![c] = Tail(@)],
               \A d \in Clients : subscriptions[d] \subseteq subscriptions'[d],
               \A t \in Topics : Head(inbox[c]) = Sub(t) => t \in subscriptions'[c]
        PROVE  Asked' /\ Followed'
    <2>1. inbox'[c] = Tail(inbox[c]) /\ inbox[c] \in Seq(Frame)
      BY <1>5 DEF SessionTypes
    <2>2. \A d \in Clients \ {c} : inbox'[d] = inbox[d]
      BY <1>5 DEF SessionTypes
    <2>3. Paired(inbox'[c])
      BY <1>5, <2>1, PairedTail DEF Followed
    <2>4. ASSUME NEW d \in Clients, phase'[d] = "subscribed", NEW t \in Topics
          PROVE  t \in subscriptions'[d] \/ Has(inbox'[d], Sub(t))
      <3>1. t \in subscriptions[d] \/ Has(inbox[d], Sub(t))
        BY <1>5, <2>4 DEF Asked
      <3>2. CASE d # c
        BY <1>5, <2>2, <3>1, <3>2
      <3>3. CASE d = c
        BY <1>5, <2>1, <3>1, <3>3, HasTail
      <3> QED
        BY <3>2, <3>3
    <2>5. Asked'
      BY <2>4 DEF Asked
    <2> QED
      BY <2>2, <2>3, <2>5 DEF Followed
  <1>6. ASSUME NEW c \in Clients, HandleSubscribe(c) PROVE Asked' /\ Followed'
    <2>1. /\ inbox[c] # <<>> /\ phase' = phase /\ inbox' = [inbox EXCEPT ![c] = Tail(@)]
          /\ subscriptions' = [subscriptions EXCEPT ![c] = @ \cup {Head(inbox[c]).topic}]
      BY <1>6 DEF HandleSubscribe
    <2>2. /\ \A d \in Clients : subscriptions[d] \subseteq subscriptions'[d]
          /\ Head(inbox[c]).topic \in subscriptions'[c]
      BY <2>1 DEF SessionTypes
    <2>3. \A t \in Topics : Head(inbox[c]) = Sub(t) => t \in subscriptions'[c]
      BY <2>2 DEF Sub
    <2> QED
      BY <1>5, <2>1, <2>2, <2>3
  <1>7. ASSUME NEW c \in Clients, HandleGet(c) PROVE Asked' /\ Followed'
    <2>1. /\ inbox[c] # <<>> /\ phase' = phase /\ inbox' = [inbox EXCEPT ![c] = Tail(@)]
          /\ subscriptions' = subscriptions /\ Head(inbox[c]).frame = "GET"
      BY <1>7 DEF HandleGet
    <2>2. \A t \in Topics : Head(inbox[c]) # Sub(t)
      BY <2>1 DEF Sub
    <2> QED
      BY <1>5, <2>1, <2>2
  <1>8. ASSUME NEW c \in Clients, Close(c) PROVE Asked' /\ Followed'
    <2>1. /\ inbox'[c] = <<>> /\ phase'[c] = "closed"
          /\ \A d \in Clients \ {c} :
               inbox'[d] = inbox[d] /\ phase'[d] = phase[d] /\ subscriptions'[d] = subscriptions[d]
      BY <1>8 DEF Close, SessionTypes
    <2>2. Paired(<<>>)
      BY DEF Paired
    <2> QED
      BY <2>1, <2>2 DEF Asked, Followed
  <1> QED
    BY <1>1, <1>2, <1>3, <1>4, <1>6, <1>7, <1>8 DEF Next, Commit, CommitUntold, Retain, Broadcast,
      BroadcastUncommitted, Relay, SendQueueItem, ReadSnapshot, SendSnapshot, FailSnapshot, vars, serverVars,
      sessionVars

--------------------------------------------------------------------------------
(* The newest version of a row *)

LEMMA AtLeastKept ==
  ASSUME NEW s, NEW u, NEW x, GrowsBy(s, u, x), NEW t, NEW v, AtLeast(s, t, v)
  PROVE  AtLeast(u, t, v)
  BY DEF GrowsBy, AtLeast

\* An item that is appended is in the channel, and so is what was there.
LEMMA ChannelAtLeast ==
  ASSUME SessionTypes, NEW c \in Clients, NEW d \in Clients, NEW x \in Item, NEW t, NEW v,
         channel' = channel \/ channel' = [channel EXCEPT ![d] = Append(@, x)],
         AtLeast(channel[c], t, v)
  PROVE  AtLeast(channel'[c], t, v)
  <1>1. CASE channel' = channel
    BY <1>1
  <1>2. CASE channel' = [channel EXCEPT ![d] = Append(@, x)]
    <2>1. \A ch : ch = [channel EXCEPT ![d] = Append(@, x)] =>
            GrowsBy(channel[d], ch[d], x) /\ \A e \in Clients \ {d} : ch[e] = channel[e]
      BY ChannelAppend
    <2>2. GrowsBy(channel[d], channel'[d], x) /\ \A e \in Clients \ {d} : channel'[e] = channel[e]
      BY <1>2, <2>1
    <2>3. CASE c = d
      BY <2>2, <2>3, AtLeastKept
    <2>4. CASE c # d
      BY <2>2, <2>4
    <2> QED
      BY <2>3, <2>4
  <1> QED
    BY <1>1, <1>2

LEMMA InformedNext ==
  /\ ServerTypes /\ SessionTypes /\ ClientTypes
  /\ Bounded /\ Listed /\ Followed /\ Informed
  /\ [Next]_vars
  => Informed'
  <1> SUFFICES ASSUME ServerTypes, SessionTypes, ClientTypes, Bounded, Listed, Followed, Informed,
                      [Next]_vars,
                      NEW c \in Clients, NEW t \in subscriptions'[c] \cap AccountTopics
               PROVE  Has(inbox'[c], Get(t)) \/ Told(c, t)' \/ t \in missed'[c]
    BY DEF Informed
  <1> DEFINE a == announced[t]
             Goal == Has(inbox'[c], Get(t)) \/ Told(c, t)' \/ t \in missed'[c]
  <1>0. t \in AccountTopics /\ t \in Topics /\ latest[t] \in Nat /\ a \in Nat /\ a <= latest[t]
    BY DEF Topics, ServerTypes, Bounded
  <1>i. inbox[c] \in Seq(Frame) /\ channel[c] \in Seq(Item)
    BY DEF SessionTypes
  <1>k. ASSUME announced'[t] = a, session'[c] = session[c], view'[c][t] = view[c][t],
               snapshots' = snapshots, Has(inbox[c], Get(t)) => Has(inbox'[c], Get(t)),
               AtLeast(channel[c], t, a) => AtLeast(channel'[c], t, a),
               a \in unsent[t] => (a \in unsent'[t] \/ AtLeast(channel'[c], t, a)),
               missed'[c] = missed[c],
               t \in subscriptions[c]
        PROVE  Goal
    <2>1. Has(inbox[c], Get(t)) \/ Told(c, t) \/ t \in missed[c]
      BY <1>k, <1>0 DEF Informed
    <2>2. Told(c, t) => Told(c, t)'
      BY <1>k DEF Told, Brings, Connection
    <2> QED
      BY <1>k, <2>1, <2>2
  <1> HIDE DEF Goal
  <1>1. ASSUME NEW u \in Topics, Commit(u) PROVE Goal
    <2>1. CASE u = t
      <3>1. announced'[t] \in unsent'[t]
        BY <1>0, <1>1, <2>1 DEF Commit, ServerTypes
      <3> QED
        BY <3>1 DEF Goal, Told
    <2>2. CASE u # t
      BY <1>k, <1>0, <1>1, <2>2 DEF Commit, ServerTypes, sessionVars
    <2> QED
      BY <2>1, <2>2
  <1>16. ASSUME NEW u \in Topics, CommitUntold(u) PROVE Goal
    BY <1>k, <1>0, <1>16 DEF CommitUntold, sessionVars
  <1>2. ASSUME NEW u \in Topics, NEW v \in unsent[u], Broadcast(u, v) PROVE Goal
    <2>1. v \in Nat /\ channel' = Sent(u, v)
      BY <1>2 DEF ServerTypes, Broadcast, SendMessage
    <2>2. AtLeast(channel[c], t, a) => AtLeast(channel'[c], t, a)
      <3>1. GrowsBy(channel[c], channel'[c], [topic |-> u, version |-> v])
        BY <2>1, SentFacts
      <3> HIDE DEF a
      <3> QED
        BY <3>1, AtLeastKept
    <2>3. t \in subscriptions[c]
      BY <1>2 DEF Broadcast
    <2>4. a \in unsent[t] => (a \in unsent'[t] \/ AtLeast(channel'[c], t, a))
      <3>1. CASE u = t /\ v = a
        <4>1. Has(channel'[c], [topic |-> t, version |-> a])
          BY <2>1, <2>3, <3>1, SentFacts
        <4> HIDE DEF a
        <4>2. PICK i \in 1..Len(channel'[c]) : channel'[c][i] = [topic |-> t, version |-> a]
          BY <4>1 DEF Has
        <4> QED
          BY <1>0, <4>2 DEF AtLeast
      <3>2. CASE ~(u = t /\ v = a)
        BY <1>0, <1>2, <3>2 DEF Broadcast, ServerTypes
      <3> QED
        BY <3>1, <3>2
    <2>5. /\ announced' = announced /\ session' = session /\ view' = view /\ snapshots' = snapshots
          /\ inbox' = inbox /\ missed' = missed
      BY <1>2 DEF Broadcast
    <2> QED
      BY <1>k, <2>2, <2>3, <2>4, <2>5
  <1>17. ASSUME NEW u \in Topics, NEW v \in 1..(latest[u] + 1), BroadcastUncommitted(u, v) PROVE Goal
    <2>1. v \in Nat /\ channel' = Sent(u, v)
      BY <1>17 DEF ServerTypes, BroadcastUncommitted, SendMessage
    <2>2. AtLeast(channel[c], t, a) => AtLeast(channel'[c], t, a)
      <3>1. GrowsBy(channel[c], channel'[c], [topic |-> u, version |-> v])
        BY <2>1, SentFacts
      <3> HIDE DEF a
      <3> QED
        BY <3>1, AtLeastKept
    <2>3. /\ announced' = announced /\ session' = session /\ view' = view /\ snapshots' = snapshots
          /\ inbox' = inbox /\ missed' = missed /\ unsent' = unsent /\ subscriptions' = subscriptions
      BY <1>17 DEF BroadcastUncommitted
    <2> QED
      BY <1>k, <2>2, <2>3
  <1>3. ASSUME NEW u \in Topics, Relay(u) PROVE Goal
    <2>1. latest[u] + 1 \in Nat /\ channel' = Sent(u, latest[u] + 1) /\ u # t
      BY <1>0, <1>3, FeedAssumption DEF ServerTypes, Relay, SendMessage
    <2>2. AtLeast(channel[c], t, a) => AtLeast(channel'[c], t, a)
      <3>1. GrowsBy(channel[c], channel'[c], [topic |-> u, version |-> latest[u] + 1])
        BY <2>1, SentFacts
      <3> HIDE DEF a
      <3> QED
        BY <3>1, AtLeastKept
    <2>3. t \in subscriptions[c] /\ announced' = announced /\ unsent'[t] = unsent[t]
      BY <1>0, <1>3, <2>1 DEF Relay, ServerTypes
    <2>4. session' = session /\ view' = view /\ snapshots' = snapshots /\ inbox' = inbox /\ missed' = missed
      BY <1>3 DEF Relay
    <2> QED
      BY <1>k, <2>2, <2>3, <2>4
  <1>4. ASSUME NEW u \in Topics, Retain(u) PROVE Goal
    <2>1. u # t
      BY <1>0, <1>4, FeedAssumption DEF Retain
    <2>2. unsent'[t] = unsent[t] /\ UNCHANGED <<announced, sessionVars, snapshots, view>>
      BY <1>0, <1>4, <2>1 DEF Retain, ServerTypes
    <2> QED
      BY <1>k, <2>2 DEF sessionVars
  <1>5. ASSUME NEW d \in Clients, Connect(d) PROVE Goal
    <2>1. subscriptions' = subscriptions /\ subscriptions[d] = {} /\ c # d
      BY <1>5 DEF Connect, SessionTypes
    <2>2. session'[c] = session[c]
      BY <1>5, <2>1 DEF Connect, SessionTypes
    <2>3. UNCHANGED <<serverVars, inbox, channel, missed, snapshots, view>>
      BY <1>5 DEF Connect
    <2> QED
      BY <1>k, <2>1, <2>2, <2>3 DEF serverVars
  <1>6. ASSUME NEW d \in Clients, NEW s \in Seq(Frame), inbox' = [inbox EXCEPT ![d] = @ \o s],
               UNCHANGED <<serverVars, session, channel, subscriptions, missed, snapshots, view>>
        PROVE  Goal
    <2>1. inbox'[c] = inbox[c] \/ inbox'[c] = inbox[c] \o s
      BY <1>6 DEF SessionTypes
    <2>2. Has(inbox[c], Get(t)) => Has(inbox[c] \o s, Get(t))
      BY <1>i, HasConcat
    <2>3. Has(inbox[c], Get(t)) => Has(inbox'[c], Get(t))
      BY <2>1, <2>2
    <2> QED
      BY <1>k, <1>6, <2>3 DEF serverVars
  <1>7. ASSUME NEW d \in Clients, NEW u \in Topics, Subscribe(d, u) PROVE Goal
    <2>1. SubscribeFrames(u) \in Seq(Frame)
      BY FramesPaired
    <2> QED
      BY <1>6, <1>7, <2>1 DEF Subscribe
  <1>8. ASSUME NEW d \in Clients, SubscribeAll(d) PROVE Goal
    <2>1. PICK s \in Seq(Frame) : inbox' = [inbox EXCEPT ![d] = @ \o s]
      BY <1>8, AllAsked DEF SubscribeAll
    <2> QED
      BY <1>6, <1>8, <2>1 DEF SubscribeAll
  <1>9. ASSUME NEW d \in Clients, HandleSubscribe(d) PROVE Goal
    <2> DEFINE u == Head(inbox[d]).topic
               y == [topic |-> u, version |-> retained[u]]
    <2>1. /\ inbox[d] \in Seq(Frame) /\ inbox[d] # <<>> /\ Head(inbox[d]).frame = "SUBSCRIBE"
          /\ inbox' = [inbox EXCEPT ![d] = Tail(@)]
          /\ subscriptions' = [subscriptions EXCEPT ![d] = @ \cup {u}]
          /\ channel' = channel \/ channel' = [channel EXCEPT ![d] = Append(@, y)]
          /\ UNCHANGED <<announced, unsent, session, missed, snapshots, view>>
      BY <1>9 DEF HandleSubscribe, SessionTypes
    <2>2. Head(inbox[d]) \in Frame /\ y \in Item
      <3>1. Head(inbox[d]) \in Frame
        BY <2>1, TailFacts
      <3> QED
        BY <3>1 DEF Frame, Item, ServerTypes
    <2>3. CASE t \notin subscriptions[c]
      <3>1. c = d /\ t = u
        BY <2>1, <2>3 DEF SessionTypes
      <3>2. 1 \in 1..Len(inbox[c]) /\ inbox[c][1] = Head(inbox[c])
        BY <1>i, <2>1, <3>1, TailFacts
      <3>3. 2 \in 1..Len(inbox[c]) /\ inbox[c][2] = Get(t)
        <4>1. 1 + 1 \in 1..Len(inbox[c]) /\ inbox[c][1 + 1] = Get(inbox[c][1].topic)
          BY <1>0, <2>1, <3>1, <3>2 DEF Followed, Paired
        <4>2. inbox[c][1].topic = t
          BY <3>1, <3>2
        <4> QED
          BY <4>1, <4>2
      <3>4. inbox'[c] = Tail(inbox[c])
        BY <2>1, <3>1 DEF SessionTypes
      <3>5. 2 - 1 \in 1..Len(Tail(inbox[c])) /\ Tail(inbox[c])[2 - 1] = Get(t)
        BY <1>i, <2>1, <3>1, <3>3, TailFacts
      <3> QED
        BY <3>4, <3>5 DEF Goal, Has
    <2>4. CASE t \in subscriptions[c]
      <3>1. AtLeast(channel[c], t, a) => AtLeast(channel'[c], t, a)
        <4> HIDE DEF a, y
        <4> QED
          BY <2>1, <2>2, ChannelAtLeast
      <3>2. Has(inbox[c], Get(t)) => Has(inbox'[c], Get(t))
        <4>1. CASE c # d
          BY <2>1, <4>1 DEF SessionTypes
        <4>2. CASE c = d
          <5>1. inbox'[c] = Tail(inbox[c])
            BY <2>1, <4>2 DEF SessionTypes
          <5>2. Get(t) # Head(inbox[c])
            BY <2>1, <4>2 DEF Get
          <5> QED
            BY <1>i, <2>1, <4>2, <5>1, <5>2, HasTail
        <4> QED
          BY <4>1, <4>2
      <3> HIDE DEF y, u
      <3> QED
        BY <1>k, <2>1, <2>4, <3>1, <3>2
    <2> QED
      BY <2>3, <2>4
  <1>10. ASSUME NEW d \in Clients, HandleGet(d) PROVE Goal
    <2> DEFINE s == [conn |-> Connection(d), topic |-> Head(inbox[d]).topic, version |-> Nothing]
    <2>1. /\ inbox[d] \in Seq(Frame) /\ inbox[d] # <<>>
          /\ inbox' = [inbox EXCEPT ![d] = Tail(@)]
          /\ snapshots' = snapshots \cup {s}
          /\ UNCHANGED <<serverVars, session, channel, subscriptions, missed, view>>
      BY <1>10 DEF HandleGet, SessionTypes
    <2>2. Has(inbox[c], Get(t)) \/ Told(c, t) \/ t \in missed[c]
      BY <1>0, <2>1 DEF Informed
    <2>3. Told(c, t) => Told(c, t)'
      <3> HIDE DEF s
      <3> QED
        BY <2>1 DEF Told, Brings, Connection, serverVars
    <2>4. CASE Has(inbox[c], Get(t)) /\ ~Has(inbox'[c], Get(t))
      <3>1. c = d
        BY <2>1, <2>4 DEF SessionTypes
      <3>2. inbox'[c] = Tail(inbox[c])
        BY <2>1, <3>1 DEF SessionTypes
      <3>3. Head(inbox[c]) = Get(t)
        <4>1. Get(t) = Head(inbox[c]) \/ Has(Tail(inbox[c]), Get(t))
          BY <1>i, <2>1, <2>4, <3>1, HasTail
        <4> QED
          BY <2>4, <3>2, <4>1
      <3>4. s \in snapshots' /\ s.conn = Connection(c)' /\ s.topic = t /\ s.version = Nothing
        BY <2>1, <3>1, <3>3 DEF Get, Connection
      <3> QED
        BY <3>4 DEF Goal, Told, Brings
    <2> QED
      BY <2>1, <2>2, <2>3, <2>4 DEF Goal
  <1>11. ASSUME NEW s \in snapshots, ReadSnapshot(s) PROVE Goal
    <2> DEFINE r == [s EXCEPT !.version = latest[s.topic]]
    <2>1. /\ s.version = Nothing /\ snapshots' = (snapshots \ {s}) \cup {r}
          /\ UNCHANGED <<announced, unsent, inbox, channel, session, subscriptions, missed, view>>
      BY <1>11 DEF ReadSnapshot, serverVars, sessionVars
    <2>2. r.conn = s.conn /\ r.topic = s.topic /\ r.version = latest[s.topic]
      BY DEF ClientTypes, Snapshot
    <2>3. Has(inbox[c], Get(t)) \/ Told(c, t) \/ t \in missed[c]
      BY <1>0, <2>1 DEF Informed
    <2>4. ASSUME NEW q \in snapshots, Brings(q, c, t, a) PROVE Told(c, t)'
      <3>0. q.conn = Connection(c) /\ q.topic = t /\ (q.version = Nothing \/ q.version >= a)
        BY <2>4 DEF Brings
      <3> HIDE DEF r
      <3>1. CASE q = s
        <4>1. r \in snapshots' /\ r.conn = Connection(c)' /\ r.topic = t /\ r.version >= announced'[t]
          BY <1>0, <2>1, <2>2, <3>0, <3>1 DEF Connection
        <4> QED
          BY <4>1 DEF Told, Brings
      <3>2. CASE q # s
        <4>1. /\ q \in snapshots' /\ q.conn = Connection(c)'
              /\ q.version = Nothing \/ q.version >= announced'[t]
          BY <2>1, <3>0, <3>2 DEF Connection
        <4> QED
          BY <3>0, <4>1 DEF Told, Brings
      <3> QED
        BY <3>1, <3>2
    <2>5. Told(c, t) => Told(c, t)'
      <3> HIDE DEF r
      <3>1. ASSUME a \in unsent[t] \/ view[c][t] >= a \/ AtLeast(channel[c], t, a)
            PROVE  Told(c, t)'
        BY <2>1, <3>1 DEF Told
      <3> QED
        BY <2>4, <3>1 DEF Told
    <2> QED
      BY <2>1, <2>3, <2>5 DEF Goal
  <1>12. ASSUME NEW s \in snapshots, SendSnapshot(s) PROVE Goal
    <2> DEFINE y == [topic |-> s.topic, version |-> s.version]
               d == s.conn.client
    <2>1. /\ s.version # Nothing /\ snapshots' = snapshots \ {s}
          /\ channel' = channel \/ channel' = [channel EXCEPT ![d] = Append(@, y)]
          /\ UNCHANGED <<announced, unsent, inbox, session, subscriptions, missed, view>>
      BY <1>12 DEF SendSnapshot, serverVars
    <2>2. d \in Clients /\ y \in Item
      BY DEF ClientTypes, Snapshot, Item
    <2>3. Has(inbox[c], Get(t)) \/ Told(c, t) \/ t \in missed[c]
      BY <1>0, <2>1 DEF Informed
    <2>4. AtLeast(channel[c], t, a) => AtLeast(channel'[c], t, a)
      <3> HIDE DEF a, y, d
      <3> QED
        BY <2>1, <2>2, ChannelAtLeast
    <2>5. ASSUME NEW q \in snapshots, Brings(q, c, t, a) PROVE Told(c, t)'
      <3>0. q.conn = Connection(c) /\ q.topic = t /\ (q.version = Nothing \/ q.version >= a)
        BY <2>5 DEF Brings
      <3>1. CASE q = s
        <4>1. phase[c] # "closed"
          BY <2>1 DEF SessionTypes
        <4>2. IsOpen(s.conn) /\ d = c /\ y.topic = t /\ y.version >= a
          BY <2>1, <3>0, <3>1, <4>1 DEF IsOpen, Connection
        <4>3. channel' = [channel EXCEPT ![c] = Append(@, y)]
          BY <1>12, <4>2 DEF SendSnapshot
        <4> HIDE DEF y, d
        <4>4. \A ch : ch = [channel EXCEPT ![c] = Append(@, y)] => Has(ch[c], y)
          BY <2>2, ChannelAppend
        <4>5. Has(channel'[c], y)
          BY <4>3, <4>4
        <4>6. AtLeast(channel'[c], t, a)
          BY <4>2, <4>5 DEF Has, AtLeast
        <4> QED
          BY <2>1, <4>6 DEF Told
      <3>2. CASE q # s
        <4>1. /\ q \in snapshots' /\ q.conn = Connection(c)'
              /\ q.version = Nothing \/ q.version >= announced'[t]
          BY <2>1, <3>0, <3>2 DEF Connection
        <4> QED
          BY <3>0, <4>1 DEF Told, Brings
      <3> QED
        BY <3>1, <3>2
    <2>6. Told(c, t) => Told(c, t)'
      <3> HIDE DEF y, d
      <3>1. ASSUME a \in unsent[t] \/ view[c][t] >= a \/ AtLeast(channel[c], t, a)
            PROVE  Told(c, t)'
        BY <2>1, <2>4, <3>1 DEF Told
      <3> QED
        BY <2>5, <3>1 DEF Told
    <2> QED
      BY <2>1, <2>3, <2>6 DEF Goal
  <1>18. ASSUME NEW s \in snapshots, FailSnapshot(s) PROVE Goal
    <2>1. /\ snapshots' = snapshots \ {s}
          /\ UNCHANGED <<announced, unsent, inbox, channel, session, subscriptions, view>>
      BY <1>18 DEF FailSnapshot, serverVars
    <2>2. s.conn.client \in Clients
      BY DEF ClientTypes, Snapshot
    <2>3. missed[c] \subseteq missed'[c]
      BY <1>18, <2>2 DEF FailSnapshot, SessionTypes
    <2>4. Has(inbox[c], Get(t)) \/ Told(c, t) \/ t \in missed[c]
      BY <1>0, <2>1 DEF Informed
    <2>5. ASSUME NEW q \in snapshots, Brings(q, c, t, a) PROVE Told(c, t)' \/ t \in missed'[c]
      <3>0. q.conn = Connection(c) /\ q.topic = t /\ (q.version = Nothing \/ q.version >= a)
        BY <2>5 DEF Brings
      <3>1. CASE q = s
        <4>1. phase[c] # "closed"
          BY <2>1 DEF SessionTypes
        <4>2. IsOpen(s.conn) /\ s.conn.client = c /\ s.topic = t
          BY <3>0, <3>1, <4>1 DEF IsOpen, Connection
        <4> QED
          BY <1>18, <4>2 DEF FailSnapshot, SessionTypes
      <3>2. CASE q # s
        <4>1. /\ q \in snapshots' /\ q.conn = Connection(c)'
              /\ q.version = Nothing \/ q.version >= announced'[t]
          BY <2>1, <3>0, <3>2 DEF Connection
        <4> QED
          BY <3>0, <4>1 DEF Told, Brings
      <3> QED
        BY <3>1, <3>2
    <2>6. Told(c, t) => Told(c, t)' \/ t \in missed'[c]
      <3>1. ASSUME a \in unsent[t] \/ view[c][t] >= a \/ AtLeast(channel[c], t, a)
            PROVE  Told(c, t)'
        BY <2>1, <3>1 DEF Told
      <3> QED
        BY <2>5, <3>1 DEF Told
    <2> QED
      BY <2>1, <2>3, <2>4, <2>6 DEF Goal
  <1>13. ASSUME NEW d \in Clients, SendQueueItem(d) PROVE Goal
    <2> DEFINE y == Head(channel[d])
    <2>1. /\ channel[d] \in Seq(Item) /\ channel[d] # <<>>
          /\ channel' = [channel EXCEPT ![d] = Tail(@)]
          /\ view' = IF y.topic \in subscriptions[d] THEN Shown(d, y) ELSE view
          /\ UNCHANGED <<announced, unsent, inbox, session, subscriptions, missed, snapshots>>
      BY <1>13 DEF SendQueueItem, SessionTypes, serverVars
    <2>2. y \in Item /\ y = channel[d][1] /\ 1 \in 1..Len(channel[d])
      BY <2>1, TailFacts
    <2>3. y.version \in Nat /\ y.topic \in Topics
      BY <2>2, OldItems
    <2>4. Has(inbox[c], Get(t)) \/ Told(c, t) \/ t \in missed[c]
      BY <1>0, <2>1 DEF Informed
    <2>5. view'[c][t] \in Nat /\ view[c][t] \in Nat /\ view'[c][t] >= view[c][t]
      <3> HIDE DEF y
      <3> QED
        BY <1>0, <2>1, <2>3 DEF Shown, IsNewer, ClientTypes
    <2>6. view[c][t] >= a => view'[c][t] >= a
      <3> HIDE DEF a, y
      <3> QED
        BY <1>0, <2>5
    <2>7. ASSUME NEW i \in 1..Len(channel[c]), channel[c][i].topic = t, channel[c][i].version >= a
          PROVE  AtLeast(channel'[c], t, a) \/ view'[c][t] >= a
      <3>1. CASE c # d
        <4>1. channel'[c] = channel[c]
          BY <2>1, <3>1 DEF SessionTypes
        <4> QED
          BY <2>7, <4>1 DEF AtLeast
      <3>2. CASE c = d /\ i = 1
        <4>1. y.topic = t /\ y.version >= a
          BY <2>2, <2>7, <3>2
        <4>2. view' = Shown(c, y)
          BY <2>1, <3>2, <4>1
        <4> HIDE DEF a, y
        <4>3. view'[c][t] >= y.version
          BY <1>0, <2>3, <4>1, <4>2 DEF Shown, IsNewer, ClientTypes
        <4> QED
          BY <1>0, <2>3, <2>5, <4>1, <4>3
      <3>3. CASE c = d /\ i # 1
        <4>1. channel'[c] = Tail(channel[c])
          BY <2>1, <3>3 DEF SessionTypes
        <4>2. i - 1 \in 1..Len(Tail(channel[c])) /\ Tail(channel[c])[i - 1] = channel[c][i]
          BY <2>1, <3>3, TailFacts
        <4> QED
          BY <2>7, <4>1, <4>2 DEF AtLeast
      <3> QED
        BY <3>1, <3>2, <3>3
    <2>8. Told(c, t) => Told(c, t)'
      <3> HIDE DEF y
      <3>1. AtLeast(channel[c], t, a) => (AtLeast(channel'[c], t, a) \/ view'[c][t] >= a)
        BY <2>7 DEF AtLeast
      <3>2. announced'[t] = a
        BY <2>1
      <3> QED
        BY <2>1, <2>6, <3>1, <3>2 DEF Told, Brings, Connection
    <2> QED
      BY <2>1, <2>4, <2>8 DEF Goal
  <1>14. ASSUME NEW d \in Clients, Close(d) PROVE Goal
    <2>1. subscriptions' = [subscriptions EXCEPT ![d] = {}]
      BY <1>14 DEF Close
    <2>2. c # d /\ t \in subscriptions[c]
      BY <2>1 DEF SessionTypes
    <2>3. inbox'[c] = inbox[c] /\ channel'[c] = channel[c] /\ missed'[c] = missed[c]
      BY <1>14, <2>2 DEF Close, SessionTypes
    <2>4. UNCHANGED <<announced, unsent, session, snapshots, view>>
      BY <1>14 DEF Close
    <2> QED
      BY <1>k, <2>2, <2>3, <2>4
  <1>15. ASSUME UNCHANGED vars PROVE Goal
    <2>1. /\ UNCHANGED <<announced, unsent, inbox, channel, session, subscriptions, missed, snapshots, view>>
          /\ t \in subscriptions[c]
      BY <1>15 DEF vars, serverVars, sessionVars
    <2> QED
      BY <1>k, <2>1
  <1> QED
    BY <1>1, <1>2, <1>3, <1>4, <1>5, <1>7, <1>8, <1>9, <1>10, <1>11, <1>12, <1>13, <1>14, <1>15, <1>16,
       <1>17, <1>18
    DEF Next, Goal

--------------------------------------------------------------------------------
(* Market data *)

\* The market data channel of a subscriber: nothing is lost, and the retained
\* message is one behind at most.
LEMMA RelayedNext ==
  /\ ServerTypes /\ SessionTypes /\ ClientTypes
  /\ Bounded /\ Listed /\ Relayed
  /\ [Next]_vars
  => Relayed'
  <1> SUFFICES ASSUME ServerTypes, SessionTypes, ClientTypes, Bounded, Listed, Relayed, [Next]_vars,
                      NEW t \in MarketTopics
               PROVE  /\ (unsent[t] \subseteq {latest[t]})'
                      /\ (retained[t] >= latest[t] - 1)'
                      /\ (unsent[t] = {} => retained[t] = latest[t])'
                      /\ \A c \in Clients : t \in subscriptions'[c] => OneBehind(c, t)'
    BY DEF Relayed
  <1> DEFINE Goal == /\ unsent'[t] \subseteq {latest'[t]}
                     /\ retained'[t] >= latest'[t] - 1
                     /\ unsent'[t] = {} => retained'[t] = latest'[t]
                     /\ \A c \in Clients : t \in subscriptions'[c] => OneBehind(c, t)'
  <1>0. t \in Topics /\ t \notin AccountTopics /\ latest[t] \in Nat /\ retained[t] \in Nat
    BY FeedAssumption DEF Topics, ServerTypes
  <1>r. /\ unsent[t] \subseteq {latest[t]}
        /\ retained[t] >= latest[t] - 1
        /\ unsent[t] = {} => retained[t] = latest[t]
        /\ \A c \in Clients : t \in subscriptions[c] => OneBehind(c, t)
    BY DEF Relayed
  \* What leaves the server's data of t alone.
  <1>k. ASSUME latest'[t] = latest[t], retained'[t] = retained[t], unsent'[t] = unsent[t],
               \A c \in Clients : (t \in subscriptions'[c] => OneBehind(c, t)')
        PROVE  Goal
    BY <1>k, <1>r
  \* What leaves its subscribers alone.
  <1>s. ASSUME NEW c \in Clients, OneBehind(c, t), latest'[t] = latest[t],
               view'[c][t] = view[c][t],
               \A i \in 1..Len(channel[c]) : (i \in 1..Len(channel'[c]) /\ channel'[c][i] = channel[c][i])
        PROVE  OneBehind(c, t)'
    BY <1>s DEF OneBehind
  <1>u. ASSUME latest'[t] = latest[t], retained'[t] = retained[t], unsent'[t] = unsent[t],
               UNCHANGED <<view, channel, subscriptions>>
        PROVE  Goal
    <2>1. \A c \in Clients : OneBehind(c, t) => OneBehind(c, t)'
      BY <1>s, <1>u
    <2> QED
      BY <1>k, <1>r, <1>u, <2>1
  <1>1. ASSUME NEW u \in Topics, Commit(u) PROVE Goal
    <2>1. u # t
      BY <1>0, <1>1 DEF Commit
    <2> QED
      BY <1>0, <1>1, <1>u, <2>1 DEF Commit, ServerTypes, sessionVars
  <1>14. ASSUME NEW u \in Topics, CommitUntold(u) PROVE Goal
    <2>1. u # t
      BY <1>0, <1>14 DEF CommitUntold
    <2> QED
      BY <1>0, <1>14, <1>u, <2>1 DEF CommitUntold, ServerTypes, sessionVars
  <1>15. ASSUME NEW u \in Topics, NEW v \in 1..(latest[u] + 1), BroadcastUncommitted(u, v) PROVE Goal
    <2>1. v \in Nat /\ channel' = Sent(u, v)
      BY <1>15 DEF ServerTypes, BroadcastUncommitted, SendMessage
    <2>2. \A c \in Clients : GrowsBy(channel[c], channel'[c], [topic |-> u, version |-> v])
      BY <2>1, SentFacts
    <2>3. \A c \in Clients : OneBehind(c, t) => OneBehind(c, t)'
      BY <1>15, <1>s, <2>2 DEF BroadcastUncommitted, GrowsBy
    <2> HIDE DEF Goal
    <2> QED
      BY <1>15, <1>k, <1>r, <2>3 DEF BroadcastUncommitted
  <1>16. ASSUME NEW s \in snapshots, FailSnapshot(s) PROVE Goal
    <2>1. UNCHANGED <<latest, retained, unsent, view, channel, subscriptions>>
      BY <1>16 DEF FailSnapshot, serverVars
    <2> HIDE DEF Goal
    <2> QED
      BY <1>u, <2>1
  <1>2. ASSUME NEW u \in Topics, NEW v \in unsent[u], Broadcast(u, v) PROVE Goal
    <2>1. v \in Nat /\ channel' = Sent(u, v) /\ u # t
      BY <1>0, <1>2 DEF ServerTypes, Broadcast, SendMessage
    <2>2. \A c \in Clients : GrowsBy(channel[c], channel'[c], [topic |-> u, version |-> v])
      BY <2>1, SentFacts
    <2>3. \A c \in Clients : OneBehind(c, t) => OneBehind(c, t)'
      BY <1>2, <1>s, <2>2 DEF Broadcast, GrowsBy
    <2>4. unsent'[t] = unsent[t]
      BY <1>0, <1>2, <2>1 DEF Broadcast, ServerTypes
    <2> HIDE DEF Goal
    <2> QED
      BY <1>2, <1>k, <1>r, <2>3, <2>4 DEF Broadcast
  <1>3. ASSUME NEW u \in Topics, Relay(u) PROVE Goal
    <2>1. latest[u] + 1 \in Nat /\ channel' = Sent(u, latest[u] + 1)
      BY <1>3 DEF ServerTypes, Relay, SendMessage
    <2>2. /\ latest' = [latest EXCEPT ![u] = @ + 1]
          /\ unsent' = [unsent EXCEPT ![u] = {latest[u] + 1}]
          /\ unsent[u] = {} /\ UNCHANGED <<retained, subscriptions, view>>
      BY <1>3 DEF Relay
    <2>3. CASE u = t
      <3>1. latest'[t] = latest[t] + 1 /\ unsent'[t] = {latest[t] + 1}
        BY <1>0, <2>2, <2>3 DEF ServerTypes
      <3>2. retained'[t] = latest[t]
        BY <1>r, <2>2, <2>3
      <3>3. ASSUME NEW c \in Clients, t \in subscriptions'[c] PROVE OneBehind(c, t)'
        <4>1. Has(channel'[c], [topic |-> t, version |-> latest[t] + 1])
          BY <1>0, <2>1, <2>2, <2>3, <3>3, SentFacts
        <4>2. PICK i \in 1..Len(channel'[c]) : channel'[c][i] = [topic |-> t, version |-> latest[t] + 1]
          BY <4>1 DEF Has
        <4>3. channel'[c][i].topic = t /\ channel'[c][i].version >= latest'[t] - 1
          BY <1>0, <3>1, <4>2
        <4> QED
          BY <4>3 DEF OneBehind
      <3>4. \A c \in Clients : t \in subscriptions'[c] => OneBehind(c, t)'
        BY <3>3
      <3>5. retained'[t] >= latest'[t] - 1 /\ unsent'[t] # {} /\ unsent'[t] \subseteq {latest'[t]}
        BY <1>0, <3>1, <3>2
      <3> QED
        BY <3>4, <3>5
    <2>4. CASE u # t
      <3>1. \A c \in Clients : GrowsBy(channel[c], channel'[c], [topic |-> u, version |-> latest[u] + 1])
        BY <2>1, SentFacts
      <3>2. latest'[t] = latest[t] /\ unsent'[t] = unsent[t]
        BY <1>0, <2>2, <2>4 DEF ServerTypes
      <3>3. \A c \in Clients : OneBehind(c, t) => OneBehind(c, t)'
        BY <1>s, <2>2, <3>1, <3>2 DEF GrowsBy
      <3> HIDE DEF Goal
      <3> QED
        BY <1>k, <1>r, <2>2, <3>2, <3>3
    <2> QED
      BY <2>3, <2>4
  <1>4. ASSUME NEW u \in Topics, Retain(u) PROVE Goal
    <2>1. /\ unsent' = [unsent EXCEPT ![u] = {}] /\ retained' = [retained EXCEPT ![u] = latest[u]]
          /\ UNCHANGED <<latest, channel, subscriptions, view>>
      BY <1>4 DEF Retain, Retained, sessionVars
    <2>2. CASE u = t
      <3>1. unsent'[t] = {} /\ retained'[t] = latest[t] /\ latest'[t] = latest[t]
        BY <1>0, <2>1, <2>2 DEF ServerTypes
      <3>2. \A c \in Clients : OneBehind(c, t) => OneBehind(c, t)'
        BY <1>s, <2>1
      <3> QED
        BY <1>0, <1>r, <2>1, <3>1, <3>2
    <2>3. CASE u # t
      BY <1>0, <1>u, <2>1, <2>3 DEF ServerTypes
    <2> QED
      BY <2>2, <2>3
  <1>5. ASSUME NEW d \in Clients,
               Connect(d) \/ SubscribeAll(d) \/ HandleGet(d) \/ \E u \in Topics : Subscribe(d, u)
        PROVE  Goal
    <2>1. UNCHANGED <<latest, retained, unsent, view, channel, subscriptions>>
      BY <1>5 DEF Connect, SubscribeAll, HandleGet, Subscribe, serverVars
    <2> HIDE DEF Goal
    <2> QED
      BY <1>u, <2>1
  <1>6. ASSUME NEW d \in Clients, HandleSubscribe(d) PROVE Goal
    <2> DEFINE u == Head(inbox[d]).topic
               y == [topic |-> u, version |-> retained[u]]
    <2>1. /\ subscriptions' = [subscriptions EXCEPT ![d] = @ \cup {u}]
          /\ channel' = IF retained[u] = Nothing THEN channel ELSE [channel EXCEPT ![d] = Append(@, y)]
          /\ UNCHANGED <<latest, unsent, retained, view>>
      BY <1>6 DEF HandleSubscribe
    <2>2. y \in Item
      <3>1. Head(inbox[d]) \in Frame
        BY <1>6, TailFacts DEF HandleSubscribe, SessionTypes
      <3> QED
        BY <3>1 DEF Frame, Item, ServerTypes
    <2>a. \A ch : ch = [channel EXCEPT ![d] = Append(@, y)] =>
            /\ Has(ch[d], y) /\ GrowsBy(channel[d], ch[d], y)
            /\ \A e \in Clients \ {d} : ch[e] = channel[e]
      BY <2>2, ChannelAppend
    <2>3. ASSUME NEW c \in Clients, OneBehind(c, t) PROVE OneBehind(c, t)'
      <3>1. \A i \in 1..Len(channel[c]) : i \in 1..Len(channel'[c]) /\ channel'[c][i] = channel[c][i]
        <4> HIDE DEF y, u
        <4>1. channel' = channel \/ channel' = [channel EXCEPT ![d] = Append(@, y)]
          BY <2>1
        <4> QED
          BY <2>a, <4>1 DEF GrowsBy
      <3> QED
        BY <1>s, <2>1, <2>3, <3>1
    <2>4. ASSUME u = t PROVE OneBehind(d, t)'
      <3>1. CASE retained[t] = Nothing
        <4>1. view'[d][t] \in Nat /\ latest'[t] = latest[t]
          BY <1>0, <2>1 DEF ClientTypes
        <4>2. view'[d][t] >= latest'[t] - 1
          BY <1>0, <1>r, <3>1, <4>1 DEF Nothing
        <4> QED
          BY <4>2 DEF OneBehind
      <3>2. CASE retained[t] # Nothing
        <4>1. channel' = [channel EXCEPT ![d] = Append(@, y)]
          BY <2>1, <2>4, <3>2
        <4>2. Has(channel'[d], y)
          <5> HIDE DEF y, u
          <5> QED
            BY <2>a, <4>1
        <4>3. PICK i \in 1..Len(channel'[d]) : channel'[d][i] = y
          BY <4>2 DEF Has
        <4>4. channel'[d][i].topic = t /\ channel'[d][i].version = retained[t]
          BY <2>4, <4>3
        <4> QED
          BY <1>r, <2>1, <4>4 DEF OneBehind
      <3> QED
        BY <3>1, <3>2
    <2>5. ASSUME NEW c \in Clients, t \in subscriptions'[c] PROVE OneBehind(c, t)'
      <3>1. t \in subscriptions[c] \/ (c = d /\ u = t)
        BY <2>1, <2>5 DEF SessionTypes
      <3> HIDE DEF y, u
      <3> QED
        BY <1>r, <2>3, <2>4, <3>1
    <2> HIDE DEF Goal, y, u
    <2> QED
      BY <1>k, <2>1, <2>5
  <1>7. ASSUME NEW s \in snapshots, ReadSnapshot(s) PROVE Goal
    <2>1. UNCHANGED <<latest, retained, unsent, view, channel, subscriptions>>
      BY <1>7 DEF ReadSnapshot, serverVars, sessionVars
    <2> HIDE DEF Goal
    <2> QED
      BY <1>u, <2>1
  <1>8. ASSUME NEW s \in snapshots, SendSnapshot(s) PROVE Goal
    <2> DEFINE y == [topic |-> s.topic, version |-> s.version]
               d == s.conn.client
    <2>1. /\ channel' = channel \/ channel' = [channel EXCEPT ![d] = Append(@, y)]
          /\ UNCHANGED <<latest, retained, unsent, subscriptions, view>>
      BY <1>8 DEF SendSnapshot, serverVars
    <2>2. d \in Clients /\ y \in Item
      BY DEF ClientTypes, Snapshot, Item
    <2> HIDE DEF d, y
    <2>3. \A ch : ch = [channel EXCEPT ![d] = Append(@, y)] =>
            /\ GrowsBy(channel[d], ch[d], y)
            /\ \A e \in Clients \ {d} : ch[e] = channel[e]
      BY <2>2, ChannelAppend
    <2>4. \A c \in Clients : \A i \in 1..Len(channel[c]) :
            i \in 1..Len(channel'[c]) /\ channel'[c][i] = channel[c][i]
      BY <2>1, <2>3 DEF GrowsBy
    <2>5. \A c \in Clients : OneBehind(c, t) => OneBehind(c, t)'
      BY <1>s, <2>1, <2>4
    <2> HIDE DEF Goal
    <2> QED
      BY <1>k, <1>r, <2>1, <2>5
  <1>9. ASSUME NEW d \in Clients, SendQueueItem(d) PROVE Goal
    <2> DEFINE y == Head(channel[d])
    <2>1. /\ channel[d] \in Seq(Item) /\ channel[d] # <<>>
          /\ channel' = [channel EXCEPT ![d] = Tail(@)]
          /\ view' = IF y.topic \in subscriptions[d] THEN Shown(d, y) ELSE view
          /\ UNCHANGED <<latest, retained, unsent, subscriptions>>
      BY <1>9 DEF SendQueueItem, SessionTypes, serverVars
    <2>2. y \in Item /\ y = channel[d][1] /\ 1 \in 1..Len(channel[d])
      BY <2>1, TailFacts
    <2>3. y.version \in Nat /\ y.topic \in Topics
      BY <2>2 DEF Item
    <2>4. ASSUME NEW c \in Clients
          PROVE  view[c][t] \in Nat /\ view'[c][t] \in Nat /\ view'[c][t] >= view[c][t]
      <3> HIDE DEF y
      <3> QED
        BY <1>0, <2>1, <2>3 DEF Shown, IsNewer, ClientTypes
    <2>5. ASSUME NEW c \in Clients, t \in subscriptions[c] PROVE OneBehind(c, t)'
      <3>1. CASE view[c][t] >= latest[t] - 1
        BY <1>0, <2>1, <2>4, <3>1 DEF OneBehind
      <3>2. ASSUME NEW i \in 1..Len(channel[c]), channel[c][i].topic = t,
                   channel[c][i].version >= latest[t] - 1
            PROVE  OneBehind(c, t)'
        <4>1. CASE c # d
          <5>1. channel'[c] = channel[c]
            BY <2>1, <4>1 DEF SessionTypes
          <5> QED
            BY <2>1, <3>2, <5>1 DEF OneBehind
        <4>2. CASE c = d /\ i = 1
          <5>1. y.topic = t /\ y.version >= latest[t] - 1
            BY <2>2, <3>2, <4>2
          <5>2. view' = Shown(d, y)
            BY <2>1, <2>5, <4>2, <5>1
          <5> HIDE DEF y
          <5>3. view'[c][t] >= y.version
            BY <1>0, <2>3, <4>2, <5>1, <5>2 DEF Shown, IsNewer, ClientTypes
          <5>4. view'[c][t] >= latest'[t] - 1
            BY <1>0, <2>1, <2>3, <2>4, <5>1, <5>3
          <5> QED
            BY <5>4 DEF OneBehind
        <4>3. CASE c = d /\ i # 1
          <5>1. channel'[c] = Tail(channel[c])
            BY <2>1, <4>3 DEF SessionTypes
          <5>2. i - 1 \in 1..Len(Tail(channel[c])) /\ Tail(channel[c])[i - 1] = channel[c][i]
            BY <2>1, <3>2, <4>3, TailFacts
          <5> QED
            BY <2>1, <3>2, <5>1, <5>2 DEF OneBehind
        <4> QED
          BY <4>1, <4>2, <4>3
      <3> QED
        BY <1>r, <2>5, <3>1, <3>2 DEF OneBehind
    <2> HIDE DEF Goal, y
    <2> QED
      BY <1>k, <2>1, <2>5
  <1>10. ASSUME NEW d \in Clients, Close(d) PROVE Goal
    <2>1. /\ subscriptions'[d] = {}
          /\ \A c \in Clients \ {d} : subscriptions'[c] = subscriptions[c] /\ channel'[c] = channel[c]
          /\ UNCHANGED <<latest, retained, unsent, view>>
      BY <1>10 DEF Close, SessionTypes
    <2>2. ASSUME NEW c \in Clients, t \in subscriptions'[c] PROVE OneBehind(c, t)'
      <3>1. c # d /\ OneBehind(c, t)
        BY <1>r, <2>1, <2>2
      <3> QED
        BY <1>s, <2>1, <3>1
    <2> HIDE DEF Goal
    <2> QED
      BY <1>k, <2>1, <2>2
  <1>11. ASSUME UNCHANGED vars PROVE Goal
    <2> HIDE DEF Goal
    <2> QED
      BY <1>11, <1>u DEF vars, serverVars, sessionVars
  <1>17. Goal
    <2> HIDE DEF Goal
    <2> QED
      BY <1>1, <1>2, <1>3, <1>4, <1>5, <1>6, <1>7, <1>8, <1>9, <1>10, <1>11, <1>14, <1>15, <1>16 DEF Next
  <1> QED
    BY <1>17

--------------------------------------------------------------------------------
(* The theorems *)

LEMMA FeedInit == Init => FeedInv
  <1> SUFFICES ASSUME Init PROVE FeedInv
    OBVIOUS
  <1>1. ServerTypes /\ SessionTypes /\ ClientTypes
    BY TypesInit
  <1>2. /\ latest = [t \in Topics |-> First(t)] /\ unsent = [t \in Topics |-> {}]
        /\ retained = [t \in Topics |-> 0] /\ phase = [c \in Clients |-> "closed"]
        /\ inbox = [c \in Clients |-> <<>>] /\ channel = [c \in Clients |-> <<>>]
        /\ subscriptions = [c \in Clients |-> {}] /\ snapshots = {}
        /\ view = [c \in Clients |-> [t \in Topics |-> 0]]
        /\ announced = [t \in Topics |-> First(t)]
    BY DEF Init, Nothing
  <1>3. Bounded
    BY <1>2, FirstType DEF Bounded, Known
  <1>4. Listed /\ Asked /\ Informed
    BY <1>2 DEF Listed, Asked, Informed
  <1>5. Paired(<<>>)
    BY DEF Paired
  <1>6. Followed
    BY <1>2, <1>5 DEF Followed
  <1>7. Relayed
    <2>1. \A t \in MarketTopics : t \in Topics /\ First(t) = 0
      BY FeedAssumption DEF Topics, First, Nothing
    <2> QED
      BY <1>2, <2>1 DEF Relayed
  <1> QED
    BY <1>1, <1>3, <1>4, <1>6, <1>7 DEF FeedInv

\* The inductive invariant: no version is ahead of its row but those of states that
\* were not committed, what a session serves is in the server's lists, every request
\* for a subscription is followed by the one for the snapshot, and the newest
\* announced version of a subscribed row, or a later one, is always on its way or
\* shown, unless the session's snapshot failed (server.rs, ws_handler.rs,
\* senders.rs, openbroker.js).
THEOREM FeedInvariant == Spec => []FeedInv
  <1>1. FeedInv /\ [Next]_vars => FeedInv'
    <2> SUFFICES ASSUME FeedInv, [Next]_vars PROVE FeedInv'
      OBVIOUS
    <2>1. /\ ServerTypes /\ SessionTypes /\ ClientTypes
          /\ Bounded /\ Listed /\ Asked /\ Followed /\ Informed /\ Relayed
      BY DEF FeedInv
    <2>2. ServerTypes' /\ SessionTypes' /\ ClientTypes'
      BY <2>1, TypesNext
    <2>3. Bounded' /\ Listed'
      BY <2>1, BoundedNext, ListedNext
    <2>4. Asked' /\ Followed'
      BY <2>1, AskedNext
    <2>5. Informed' /\ Relayed'
      BY <2>1, InformedNext, RelayedNext
    <2> QED
      BY <2>2, <2>3, <2>4, <2>5 DEF FeedInv
  <1> QED
    BY <1>1, FeedInit, PTL DEF Spec

\* Any number of tasks that commit and broadcast in any order, commits nobody is told
\* of, states broadcast without having been committed, any number of connections,
\* with or without a farewell: when nothing is on its way, a client whose snapshot
\* did not fail shows the newest announced version of the row or a later one, and
\* none ahead of the row unless it was broadcast without having been committed
\* (send_account_message, send_get, #sendsubscribe).
THEOREM ClientsCatchUp == Spec => []CaughtUp
  <1>1. FeedInv => CaughtUp
    <2> SUFFICES ASSUME FeedInv, NEW c \in Clients, NEW t \in AccountTopics, Settled(c, t),
                        t \notin missed[c]
                 PROVE  /\ view[c][t] >= announced[t]
                        /\ phantom[t] <= latest[t] => view[c][t] <= latest[t]
      BY DEF CaughtUp
    <2>1. t \in Topics /\ phase[c] = "subscribed" /\ inbox[c] = <<>> /\ channel[c] = <<>>
      BY DEF Topics, Settled
    <2>2. (\A x : ~Has(<<>>, x)) /\ ~AtLeast(<<>>, t, announced[t])
      BY DEF Has, AtLeast
    <2>3. t \in subscriptions[c]
      BY <2>1, <2>2 DEF FeedInv, Asked
    <2>4. Told(c, t)
      BY <2>1, <2>2, <2>3 DEF FeedInv, Informed
    <2>5. view[c][t] >= announced[t]
      BY <2>1, <2>2, <2>4 DEF Told, Brings, Settled
    <2>6. /\ view[c][t] <= latest[t] \/ view[c][t] <= phantom[t]
          /\ view[c][t] \in Nat /\ latest[t] \in Nat /\ phantom[t] \in Nat
      BY <2>1 DEF FeedInv, Bounded, Known, ServerTypes, ClientTypes
    <2> QED
      BY <2>5, <2>6
  <1> QED
    BY <1>1, FeedInvariant, PTL

\* Market data has no snapshot; its retained message is stored after it was sent
\* (send_retained_message): a client that subscribes in between misses one message
\* and never more, however many there are.
THEOREM MarketDataOneBehind == Spec => []AtMostOneBehind
  <1>1. FeedInv => AtMostOneBehind
    <2> SUFFICES ASSUME FeedInv, NEW c \in Clients, NEW t \in MarketTopics, Settled(c, t)
                 PROVE  view[c][t] >= latest[t] - 1
      BY DEF AtMostOneBehind
    <2>1. t \in Topics /\ phase[c] = "subscribed" /\ inbox[c] = <<>> /\ channel[c] = <<>>
      BY DEF Topics, Settled
    <2>2. \A x : ~Has(<<>>, x)
      BY DEF Has
    <2>3. t \in subscriptions[c]
      BY <2>1, <2>2 DEF FeedInv, Asked
    <2>4. OneBehind(c, t)
      BY <2>3 DEF FeedInv, Relayed
    <2>5. ~ \E i \in 1..Len(channel[c]) : TRUE
      BY <2>1
    <2> QED
      BY <2>4, <2>5 DEF OneBehind
  <1> QED
    BY <1>1, FeedInvariant, PTL

================================================================================
