---------------------------- MODULE OrderEntryProofs ----------------------------
(***************************************************************************)
(* Order entry and the instrument registry, for any number of requests,      *)
(* accounts, loads and exchanges, any failures and restarts.                 *)
(*                                                                          *)
(* Three arguments.  The transaction that has updated an account's row of    *)
(* order_number_generator is the only one that can commit an order of that   *)
(* account, and its number is the next one.  An instrument of an exchange is  *)
(* written by one open transaction at a time, so that table, open             *)
(* transactions and memory never have two rows for it.  And the orders an    *)
(* order was checked against keep their legs: those that are viable, and have *)
(* not come back from the dead since the check, were viable then.             *)
(***************************************************************************)
EXTENDS OrderEntry, TLAPS

Unsaved == {"idle", "check", "resolve", "save", "commit"}

FormKnown ==
  /\ DOMAIN form = Requests
  /\ \A r \in Requests : pc[r] \in {"check", "resolve"} =>
       /\ form[r].account \in Accounts /\ form[r].ext \in ClientIds
       /\ form[r].quantity \in Int /\ form[r].price \in Int

DraftKnown == \A r \in Requests : pc[r] \in {"save", "commit"} =>
  /\ draft[r].account \in Accounts /\ draft[r].ext \in ClientIds
  /\ draft[r].status \in {"Pending", "Rejected"}

\* Who is about to commit holds the lock of its account, and only such a request.
LockHeld ==
  /\ \A r \in Requests : pc[r] = "commit" =>
       /\ numberLock[draft[r].account] = r
       /\ draft[r].number = lastNumber[draft[r].account] + 1
       /\ ExtFree(draft[r])
  /\ \A a \in Accounts : numberLock[a] # None =>
       /\ pc[numberLock[a]] = "commit"
       /\ draft[numberLock[a]].account = a

NotYet == \A r \in Requests : pc[r] \in Unsaved => orders[r].number = 0

Numbered == \A r \in Requests : orders[r].number > 0 =>
  /\ orders[r].account \in Accounts /\ orders[r].ext \in ClientIds
  /\ orders[r].number <= lastNumber[orders[r].account]

NoGap == \A a \in Accounts : \A n \in 1..lastNumber[a] :
  \E r \in Saved(a) : orders[r].number = n

NoDuplicate == \A r, s \in Requests :
  /\ orders[r].number > 0 /\ orders[s].number > 0
  /\ orders[r].account = orders[s].account
  /\ orders[r].number = orders[s].number \/ orders[r].ext = orders[s].ext
  => r = s

SentAfterCommit ==
  /\ \A r \in sent : orders[r].number > 0 /\ pc[r] = "done"
  /\ \A r \in Requests : pc[r] = "send" => orders[r].number > 0

BookInv ==
  /\ TypeOK /\ FormKnown /\ DraftKnown /\ LockHeld /\ NotYet
  /\ Numbered /\ NoGap /\ NoDuplicate /\ SentAfterCommit

--------------------------------------------------------------------------------

\* The empty book.
LEMMA InitBook == Init => BookInv
<1> SUFFICES ASSUME Init PROVE BookInv OBVIOUS
<1> USE EntryAssumption DEF Init, EntryInit, NoOrder
<1>1. \A r \in Requests : pc[r] \in {"idle", "done"} /\ orders[r].number = 0
  OBVIOUS
<1>2. pc \in [Requests -> {"idle", "check", "resolve", "save", "commit", "send", "done"}]
  OBVIOUS
<1>3. NoOrder \in OrderRow
  BY DEF OrderRow
<1>4. TypeOK
  BY <1>1, <1>2, <1>3 DEF TypeOK
<1>5. FormKnown /\ DraftKnown /\ LockHeld /\ NotYet
  BY <1>1 DEF FormKnown, DraftKnown, LockHeld, NotYet
<1>6. Numbered /\ NoGap /\ NoDuplicate /\ SentAfterCommit
  BY <1>1 DEF Numbered, NoGap, NoDuplicate, SentAfterCommit
<1> QED BY <1>4, <1>5, <1>6 DEF BookInv

\* Steps that leave the book, the lock, the memory and the places alone.
LEMMA EntryUnchanged ==
  ASSUME BookInv, UNCHANGED <<orders, lastNumber, numberLock, sent, pc, form, draft>>,
         viable' \subseteq Requests, returned' \subseteq Requests \X Requests
  PROVE  BookInv'
<1>1. TypeOK'
  BY DEF BookInv, TypeOK, OrderRow, ClientIds
<1>2. FormKnown' /\ DraftKnown' /\ NotYet' /\ Numbered' /\ NoDuplicate' /\ SentAfterCommit'
  BY DEF BookInv, FormKnown, DraftKnown, NotYet, Numbered, NoDuplicate, SentAfterCommit
<1>3. \A a : Saved(a)' = Saved(a)
  BY DEF Saved
<1>4. LockHeld' /\ NoGap'
  BY <1>3 DEF BookInv, LockHeld, NoGap, ExtFree
<1> QED BY <1>1, <1>2, <1>4 DEF BookInv

\* A request moves on without touching the book: it neither takes nor has the lock.
LEMMA MovesOn ==
  ASSUME BookInv, NEW r \in Requests, pc[r] # "commit",
         NEW next \in {"check", "resolve", "save", "done"},
         pc' = [pc EXCEPT ![r] = next],
         pc[r] \in Unsaved \/ next = "done",
         UNCHANGED <<orders, viable, returned, lastNumber, numberLock>>,
         \/ sent' = sent /\ r \notin sent
         \/ sent' = sent \cup {r} /\ next = "done" /\ orders[r].number > 0,
         draft' \in [Requests -> OrderRow], DOMAIN form' = Requests,
         \A s \in Requests \ {r} : draft'[s] = draft[s] /\ form'[s] = form[s],
         next \in {"check", "resolve"} =>
           /\ form'[r].account \in Accounts /\ form'[r].ext \in ClientIds
           /\ form'[r].quantity \in Int /\ form'[r].price \in Int,
         next = "save" =>
           /\ draft'[r].account \in Accounts /\ draft'[r].ext \in ClientIds
           /\ draft'[r].status \in {"Pending", "Rejected"}
  PROVE  BookInv'
<1> USE EntryAssumption DEF BookInv
<1>1. pc \in [Requests -> {"idle", "check", "resolve", "save", "commit", "send", "done"}]
  BY DEF TypeOK
<1>2. /\ pc' \in [Requests -> {"idle", "check", "resolve", "save", "commit", "send", "done"}]
      /\ pc'[r] = next /\ \A s \in Requests \ {r} : pc'[s] = pc[s]
  BY <1>1
<1>3. \A a \in Accounts : numberLock[a] # r
  BY DEF LockHeld
<1>4. TypeOK'
  <2>1. \A s \in Requests : pc'[s] = "commit" <=> \E a \in Accounts : numberLock'[a] = s
    BY <1>2, <1>3 DEF TypeOK
  <2> QED BY <1>2, <2>1 DEF TypeOK, OrderRow, ClientIds
<1>5. FormKnown' /\ DraftKnown'
  BY <1>2 DEF FormKnown, DraftKnown
<1>6. \A a : Saved(a)' = Saved(a)
  BY DEF Saved
<1>7. LockHeld'
  <2>1. ASSUME NEW s \in Requests, pc'[s] = "commit"
        PROVE  /\ numberLock'[draft'[s].account] = s
               /\ draft'[s].number = lastNumber'[draft'[s].account] + 1
               /\ ExtFree(draft[s])'
    <3>1. s # r /\ pc[s] = "commit" /\ draft'[s] = draft[s]
      BY <1>2, <2>1
    <3> QED BY <3>1, <1>6 DEF LockHeld, ExtFree
  <2>2. ASSUME NEW a \in Accounts, numberLock'[a] # None
        PROVE  pc'[numberLock'[a]] = "commit" /\ draft'[numberLock'[a]].account = a
    <3>1. numberLock[a] \in Requests \ {r}
      BY <2>2, <1>3 DEF TypeOK
    <3> QED BY <2>2, <3>1, <1>2 DEF LockHeld
  <2> QED BY <2>1, <2>2 DEF LockHeld
<1>8. NotYet'
  BY <1>2 DEF NotYet, Unsaved
<1>9. Numbered' /\ NoGap' /\ NoDuplicate'
  BY <1>6 DEF Numbered, NoGap, NoDuplicate
<1>10. SentAfterCommit'
  BY <1>2 DEF SentAfterCommit
<1> QED BY <1>4, <1>5, <1>7, <1>8, <1>9, <1>10

--------------------------------------------------------------------------------
(* The steps *)

\* A request that has not saved its order has none in the tables nor at the exchange.
LEMMA NotSent ==
  ASSUME BookInv, NEW r \in Requests, pc[r] \in Unsaved
  PROVE  r \notin sent /\ orders[r].number = 0
BY DEF BookInv, NotYet, SentAfterCommit, Unsaved, TypeOK, OrderRow

LEMMA AskStep ==
  ASSUME BookInv, NEW r \in Requests, NEW a \in Accounts, NEW x \in ExtIds \cup {r},
         NEW f \in Forms, Ask(r, a, x, f)
  PROVE  BookInv'
<1>1. pc[r] \in Unsaved /\ pc[r] # "commit"
  BY DEF Ask, Unsaved
<1>2. /\ form'[r].account = a /\ form'[r].ext = x
      /\ form'[r].quantity = f.quantity /\ form'[r].price = f.price
      /\ DOMAIN form' = Requests
      /\ \A s \in Requests \ {r} : form'[s] = form[s]
  BY DEF Ask, BookInv, FormKnown
<1>3. x \in ClientIds /\ f.quantity \in Int /\ f.price \in Int
  BY EntryAssumption DEF ClientIds
<1>4. draft' \in [Requests -> OrderRow] /\ draft' = draft
  BY DEF Ask, BookInv, TypeOK
<1> QED BY <1>1, <1>2, <1>3, <1>4, NotSent, MovesOn DEF Ask, bookVars

LEMMA CheckStep ==
  ASSUME BookInv, NEW r \in Requests, Check(r)
  PROVE  BookInv'
<1>1. pc[r] \in Unsaved /\ pc[r] # "commit"
  BY DEF Check, Unsaved
<1>2. form' = form /\ DOMAIN form' = Requests
  BY DEF Check, BookInv, FormKnown
<1>3. CASE Passes(form[r])
  <2>1. lastNumber[form[r].account] \in Nat
    BY DEF Check, BookInv, FormKnown, TypeOK
  <2> DEFINE d == [draft[r] EXCEPT !.seen = lastNumber[form[r].account]]
  <2>5. draft \in [Requests -> OrderRow] /\ draft' = [draft EXCEPT ![r] = d]
    BY <1>3 DEF Check, BookInv, TypeOK
  <2>6. d \in OrderRow
    BY <2>1, <2>5 DEF OrderRow
  <2> HIDE DEF d
  <2>2. draft' \in [Requests -> OrderRow] /\ \A s \in Requests \ {r} : draft'[s] = draft[s]
    BY <2>5, <2>6
  <2>3. pc' = [pc EXCEPT ![r] = "resolve"]
    BY <1>3 DEF Check
  <2>4. /\ form'[r].account \in Accounts /\ form'[r].ext \in ClientIds
        /\ form'[r].quantity \in Int /\ form'[r].price \in Int
    BY <1>2 DEF Check, BookInv, FormKnown
  <2> QED BY <1>1, <1>2, <2>2, <2>3, <2>4, NotSent, MovesOn DEF Check, bookVars
<1>4. CASE ~Passes(form[r])
  <2>1. draft' \in [Requests -> OrderRow] /\ draft' = draft
    BY <1>4 DEF Check, BookInv, TypeOK
  <2> QED BY <1>1, <1>2, <1>4, <2>1, NotSent, MovesOn DEF Check, bookVars
<1> QED BY <1>3, <1>4

LEMMA ResolveStep ==
  ASSUME BookInv, NEW r \in Requests, Resolve(r)
  PROVE  BookInv'
<1>1. pc[r] \in Unsaved /\ pc[r] # "commit"
  BY DEF Resolve, Unsaved
<1>2. form' = form /\ DOMAIN form' = Requests
  BY DEF Resolve, BookInv, FormKnown
<1>3. CASE form[r].legs # <<>>
  <2> DEFINE status == IF byKey[form[r].legs[1].key].status = "Active" THEN "Pending" ELSE "Rejected"
             d == [number |-> 0, account |-> form[r].account, ext |-> form[r].ext,
                   quantity |-> form[r].quantity, price |-> form[r].price,
                   seen |-> draft[r].seen, status |-> status]
  <2>1. draft' = [draft EXCEPT ![r] = d] /\ pc' = [pc EXCEPT ![r] = "save"]
    BY <1>3 DEF Resolve
  <2>2. status \in {"Pending", "Rejected"}
    OBVIOUS
  <2> HIDE DEF status
  <2>3. draft[r].seen \in Nat
    BY DEF BookInv, TypeOK, OrderRow
  <2>4. /\ form[r].account \in Accounts /\ form[r].ext \in ClientIds
        /\ form[r].quantity \in Int /\ form[r].price \in Int
    BY DEF Resolve, BookInv, FormKnown
  <2>5. d \in OrderRow
    BY <2>2, <2>3, <2>4 DEF OrderRow
  <2>6. d.account \in Accounts /\ d.ext \in ClientIds /\ d.status \in {"Pending", "Rejected"}
    BY <2>2, <2>4
  <2> HIDE DEF d
  <2>7. /\ draft' \in [Requests -> OrderRow] /\ draft'[r] = d
        /\ \A s \in Requests \ {r} : draft'[s] = draft[s]
    BY <2>1, <2>5 DEF BookInv, TypeOK
  <2> QED BY <1>1, <1>2, <2>1, <2>6, <2>7, NotSent, MovesOn DEF Resolve, bookVars
<1>4. CASE form[r].legs = <<>>
  <2>1. draft' \in [Requests -> OrderRow] /\ draft' = draft
    BY <1>4 DEF Resolve, BookInv, TypeOK
  <2> QED BY <1>1, <1>2, <1>4, <2>1, NotSent, MovesOn DEF Resolve, bookVars
<1> QED BY <1>3, <1>4

LEMMA SendStep ==
  ASSUME BookInv, NEW r \in Requests, Send(r)
  PROVE  BookInv'
<1>1. pc[r] # "commit" /\ r \notin sent /\ orders[r].number > 0
  BY DEF Send, BookInv, SentAfterCommit
<1>2. /\ form' = form /\ DOMAIN form' = Requests
      /\ draft' = draft /\ draft' \in [Requests -> OrderRow]
  BY DEF Send, memVars, BookInv, FormKnown, TypeOK
<1>3. sent' = sent \/ sent' = sent \cup {r}
  BY DEF Send
<1> QED BY <1>1, <1>2, <1>3, MovesOn DEF Send

LEMMA OrderEndsStep ==
  ASSUME BookInv, NEW r \in Requests, OrderEnds(r)
  PROVE  BookInv'
<1>1. viable' \subseteq Requests /\ returned' \subseteq Requests \X Requests
  BY DEF OrderEnds, BookInv, TypeOK
<1> QED BY <1>1, EntryUnchanged DEF OrderEnds, memVars

LEMMA OrderReturnsStep ==
  ASSUME BookInv, NEW r \in Requests, OrderReturns(r)
  PROVE  BookInv'
<1>1. viable' \subseteq Requests /\ returned' \subseteq Requests \X Requests
  BY DEF OrderReturns, BookInv, TypeOK
<1> QED BY <1>1, EntryUnchanged DEF OrderReturns, memVars

\* The lock is free and the unique index is satisfied; or the request is refused.
LEMMA SaveStep ==
  ASSUME BookInv, NEW r \in Requests, SaveOrder(r)
  PROVE  BookInv'
<1> USE EntryAssumption
<1> DEFINE a == draft[r].account
<1>1. pc[r] = "save" /\ pc[r] \in Unsaved /\ pc[r] # "commit"
  BY DEF SaveOrder, Unsaved
<1>2. a \in Accounts /\ draft[r].ext \in ClientIds /\ draft[r].status \in {"Pending", "Rejected"}
  BY <1>1 DEF BookInv, DraftKnown
<1>3. CASE ~ExtFree(draft[r]) \/ ~LegsReferToRows(r)
  <2>0. pc' = [pc EXCEPT ![r] = "done"] /\ numberLock' = numberLock /\ draft' = draft
    BY <1>3 DEF SaveOrder
  <2>1. draft' \in [Requests -> OrderRow]
    BY <2>0 DEF BookInv, TypeOK
  <2>2. form' = form /\ DOMAIN form' = Requests
    BY DEF SaveOrder, BookInv, FormKnown
  <2> QED BY <1>1, <2>0, <2>1, <2>2, NotSent, MovesOn DEF SaveOrder
<1>4. CASE ExtFree(draft[r]) /\ LegsReferToRows(r)
  <2>1. /\ numberLock[a] = None
        /\ numberLock' = [numberLock EXCEPT ![a] = r]
        /\ draft' = [draft EXCEPT ![r].number = lastNumber[a] + 1]
        /\ pc' = [pc EXCEPT ![r] = "commit"]
        /\ UNCHANGED <<orders, viable, returned, lastNumber, sent, form>>
    BY <1>4 DEF SaveOrder, GeneratorFree
  <2>2. /\ pc \in [Requests -> {"idle", "check", "resolve", "save", "commit", "send", "done"}]
        /\ numberLock \in [Accounts -> Requests \cup {None}]
        /\ draft \in [Requests -> OrderRow]
        /\ lastNumber[a] \in Nat
    BY <1>2 DEF BookInv, TypeOK
  <2> HIDE DEF a
  <2>3. /\ numberLock'[a] = r /\ \A b \in Accounts \ {a} : numberLock'[b] = numberLock[b]
        /\ pc'[r] = "commit" /\ \A s \in Requests \ {r} : pc'[s] = pc[s]
        /\ \A s \in Requests \ {r} : draft'[s] = draft[s]
    BY <1>2, <2>1, <2>2
  <2>4. /\ draft'[r].number = lastNumber[a] + 1 /\ draft'[r].account = draft[r].account
        /\ draft'[r].ext = draft[r].ext /\ draft'[r].status = draft[r].status
        /\ draft' \in [Requests -> OrderRow]
    BY <2>1, <2>2 DEF OrderRow
  <2>5. \A s \in Requests : pc[s] = "commit" => s # r /\ draft[s].account # a
    BY <1>1, <2>1 DEF BookInv, LockHeld
  <2>6. TypeOK'
    <3>1. \A s \in Requests : pc'[s] = "commit" <=> \E b \in Accounts : numberLock'[b] = s
      BY <1>2, <2>1, <2>3 DEF BookInv, TypeOK
    <3>2. pc' \in [Requests -> {"idle", "check", "resolve", "save", "commit", "send", "done"}]
      BY <2>1, <2>2
    <3>3. numberLock' \in [Accounts -> Requests \cup {None}]
      BY <2>1, <2>2
    <3> QED BY <2>1, <2>4, <3>1, <3>2, <3>3 DEF BookInv, TypeOK, OrderRow, ClientIds
  <2>7. FormKnown' /\ DraftKnown'
    BY <1>2, <2>1, <2>3, <2>4 DEF BookInv, FormKnown, DraftKnown, a
  <2>8. \A b : Saved(b)' = Saved(b)
    BY <2>1 DEF Saved
  <2>9. LockHeld'
    <3>1. ASSUME NEW s \in Requests, pc'[s] = "commit"
          PROVE  /\ numberLock'[draft'[s].account] = s
                 /\ draft'[s].number = lastNumber'[draft'[s].account] + 1
                 /\ ExtFree(draft[s])'
      <4>1. CASE s = r
        BY <1>4, <2>1, <2>3, <2>4, <2>8, <4>1 DEF ExtFree, a
      <4>2. CASE s # r
        <5>1. pc[s] = "commit" /\ draft'[s] = draft[s] /\ draft[s].account \in Accounts \ {a}
          BY <2>3, <2>5, <3>1, <4>2 DEF BookInv, DraftKnown
        <5>2. /\ numberLock[draft[s].account] = s
              /\ draft[s].number = lastNumber[draft[s].account] + 1 /\ ExtFree(draft[s])
          BY <5>1 DEF BookInv, LockHeld
        <5>3. ExtFree(draft[s])'
          BY <2>1, <2>8, <5>1, <5>2 DEF ExtFree
        <5> QED BY <2>1, <2>3, <5>1, <5>2, <5>3
      <4> QED BY <4>1, <4>2
    <3>2. ASSUME NEW b \in Accounts, numberLock'[b] # None
          PROVE  pc'[numberLock'[b]] = "commit" /\ draft'[numberLock'[b]].account = b
      <4>1. CASE b = a
        BY <2>3, <2>4, <4>1 DEF a
      <4>2. CASE b # a
        <5>1. /\ numberLock'[b] = numberLock[b] /\ numberLock[b] # None
              /\ pc[numberLock[b]] = "commit" /\ draft[numberLock[b]].account = b
          BY <2>3, <3>2, <4>2 DEF BookInv, LockHeld
        <5>2. numberLock[b] \in Requests /\ numberLock[b] # r
          BY <1>1, <2>2, <5>1
        <5> QED BY <2>3, <5>1, <5>2
      <4> QED BY <4>1, <4>2
    <3> QED BY <3>1, <3>2 DEF LockHeld
  <2>10. NotYet'
    BY <1>1, <2>1, <2>3, NotSent DEF BookInv, NotYet
  <2>11. Numbered' /\ NoGap' /\ NoDuplicate'
    BY <2>1, <2>8 DEF BookInv, Numbered, NoGap, NoDuplicate
  <2>12. SentAfterCommit'
    BY <1>1, <2>1, <2>3, NotSent DEF BookInv, SentAfterCommit
  <2> QED BY <2>6, <2>7, <2>9, <2>10, <2>11, <2>12 DEF BookInv
<1> QED BY <1>3, <1>4

\* The commit appends the order to the account's book and releases the lock.
LEMMA CommitsBook ==
  ASSUME BookInv, NEW r \in Requests, pc[r] = "commit", NEW at \in {"send", "done"},
         Commits(r, at)
  PROVE  /\ BookInv'
         /\ draft[r].account \in Accounts /\ draft[r].ext \in ClientIds
         /\ draft[r].number = lastNumber[draft[r].account] + 1
         /\ orders[r].number = 0 /\ r \notin sent
         /\ \A b \in Accounts : Saved(b)' = IF b = draft[r].account THEN Saved(b) \cup {r} ELSE Saved(b)
<1> USE EntryAssumption
<1> DEFINE d == draft[r]
           a == d.account
<1>1. /\ orders' = [orders EXCEPT ![r] = d]
      /\ viable' = IF d.status = "Pending" THEN viable \cup {r} ELSE viable
      /\ lastNumber' = [lastNumber EXCEPT ![a] = d.number]
      /\ numberLock' = [numberLock EXCEPT ![a] = None]
      /\ pc' = [pc EXCEPT ![r] = at]
      /\ UNCHANGED <<returned, sent, form, draft>>
  BY DEF Commits, memVars
<1>2. /\ a \in Accounts /\ d.ext \in ClientIds /\ d \in OrderRow
      /\ numberLock[a] = r /\ d.number = lastNumber[a] + 1 /\ ExtFree(d)
  BY DEF BookInv, DraftKnown, LockHeld, TypeOK
<1>3. orders[r].number = 0 /\ r \notin sent
  BY NotSent DEF Unsaved
<1>4. /\ orders \in [Requests -> OrderRow] /\ lastNumber \in [Accounts -> Nat]
      /\ numberLock \in [Accounts -> Requests \cup {None}]
      /\ pc \in [Requests -> {"idle", "check", "resolve", "save", "commit", "send", "done"}]
  BY DEF BookInv, TypeOK
<1>5. d.number \in Nat /\ d.number > 0 /\ lastNumber[a] \in Nat
  BY <1>2, <1>4 DEF OrderRow
<1> HIDE DEF d, a
<1>6. /\ orders'[r] = d /\ \A s \in Requests \ {r} : orders'[s] = orders[s]
      /\ lastNumber'[a] = d.number /\ \A b \in Accounts \ {a} : lastNumber'[b] = lastNumber[b]
      /\ numberLock'[a] = None /\ \A b \in Accounts \ {a} : numberLock'[b] = numberLock[b]
      /\ pc'[r] = at /\ \A s \in Requests \ {r} : pc'[s] = pc[s]
  BY <1>1, <1>2, <1>4
<1>7. \A b \in Accounts : Saved(b)' = IF b = a THEN Saved(b) \cup {r} ELSE Saved(b)
  <2> SUFFICES ASSUME NEW b \in Accounts
               PROVE  Saved(b)' = IF b = a THEN Saved(b) \cup {r} ELSE Saved(b)
    OBVIOUS
  <2>1. orders'[r].number > 0 /\ orders'[r].account = a /\ ~(orders[r].number > 0)
    BY <1>3, <1>5, <1>6 DEF a
  <2> QED BY <1>6, <2>1 DEF Saved
<1>8. \A b \in Accounts \ {a} : numberLock[b] # r
  BY <1>2 DEF BookInv, LockHeld, d, a
<1>9. \A s \in Requests \ {r} : pc[s] = "commit" => draft[s].account \in Accounts \ {a}
  BY <1>2 DEF BookInv, LockHeld, DraftKnown
<1>10. TypeOK'
  <2>1. \A s \in Requests : pc'[s] = "commit" <=> \E b \in Accounts : numberLock'[b] = s
    <3>1. \A s \in Requests : pc[s] = "commit" <=> \E b \in Accounts : numberLock[b] = s
      BY DEF BookInv, TypeOK
    <3> QED BY <1>2, <1>6, <1>8, <3>1
  <2>2. orders' \in [Requests -> OrderRow]
    BY <1>1, <1>2, <1>4
  <2>3. lastNumber' \in [Accounts -> Nat] /\ numberLock' \in [Accounts -> Requests \cup {None}]
    BY <1>1, <1>4, <1>5
  <2>4. pc' \in [Requests -> {"idle", "check", "resolve", "save", "commit", "send", "done"}]
    BY <1>1, <1>4
  <2>5. /\ viable' \subseteq Requests /\ sent' \subseteq Requests /\ draft' \in [Requests -> OrderRow]
        /\ returned' \subseteq Requests \X Requests
    BY <1>1 DEF BookInv, TypeOK
  <2> QED BY <2>1, <2>2, <2>3, <2>4, <2>5 DEF TypeOK, OrderRow, ClientIds
<1>11. FormKnown' /\ DraftKnown'
  BY <1>1, <1>6 DEF BookInv, FormKnown, DraftKnown
<1>12. LockHeld'
  <2>1. ASSUME NEW s \in Requests, pc'[s] = "commit"
        PROVE  /\ numberLock'[draft'[s].account] = s
               /\ draft'[s].number = lastNumber'[draft'[s].account] + 1
               /\ ExtFree(draft[s])'
    <3>1. s # r /\ pc[s] = "commit" /\ draft[s].account \in Accounts \ {a}
      BY <1>6, <1>9, <2>1
    <3>2. /\ numberLock[draft[s].account] = s
          /\ draft[s].number = lastNumber[draft[s].account] + 1 /\ ExtFree(draft[s])
      BY <3>1 DEF BookInv, LockHeld
    <3>3. ExtFree(draft[s])'
      <4>1. Saved(draft[s].account)' = Saved(draft[s].account) /\ draft' = draft
        BY <1>1, <1>7, <3>1
      <4>2. r \notin Saved(draft[s].account)
        BY <1>3 DEF Saved
      <4> QED BY <1>6, <3>2, <4>1, <4>2 DEF ExtFree, Saved
    <3> QED BY <1>1, <1>6, <3>1, <3>2, <3>3
  <2>2. ASSUME NEW b \in Accounts, numberLock'[b] # None
        PROVE  pc'[numberLock'[b]] = "commit" /\ draft'[numberLock'[b]].account = b
    <3>1. b # a /\ numberLock'[b] = numberLock[b] /\ numberLock[b] # None
      BY <1>6, <2>2
    <3>2. numberLock[b] \in Requests \ {r}
      BY <1>4, <1>8, <3>1
    <3>3. pc[numberLock[b]] = "commit" /\ draft[numberLock[b]].account = b
      BY <3>1 DEF BookInv, LockHeld
    <3> QED BY <1>1, <1>6, <3>1, <3>2, <3>3
  <2> QED BY <2>1, <2>2 DEF LockHeld
<1>13. NotYet'
  BY <1>6 DEF BookInv, NotYet, Unsaved
<1>14. Numbered'
  <2>1. ASSUME NEW s \in Requests, orders'[s].number > 0
        PROVE  /\ orders'[s].account \in Accounts /\ orders'[s].ext \in ClientIds
               /\ orders'[s].number <= lastNumber'[orders'[s].account]
    <3>1. CASE s = r
      BY <1>2, <1>5, <1>6, <3>1 DEF a
    <3>2. CASE s # r
      <4>1. orders'[s] = orders[s]
        BY <1>6, <3>2
      <4>2. /\ orders[s].account \in Accounts /\ orders[s].ext \in ClientIds
            /\ orders[s].number <= lastNumber[orders[s].account] /\ orders[s].number \in Nat
        BY <2>1, <4>1, <1>4 DEF BookInv, Numbered, OrderRow
      <4>3. lastNumber[orders[s].account] <= lastNumber'[orders[s].account]
            /\ lastNumber'[orders[s].account] \in Nat /\ lastNumber[orders[s].account] \in Nat
        BY <1>2, <1>4, <1>5, <1>6, <4>2
      <4> QED BY <4>1, <4>2, <4>3
    <3> QED BY <3>1, <3>2
  <2> QED BY <2>1, <1>1 DEF Numbered, ClientIds
<1>15. NoGap'
  <2>1. ASSUME NEW b \in Accounts, NEW n \in 1..lastNumber'[b]
        PROVE  \E s \in Saved(b)' : orders'[s].number = n
    <3>1. CASE b = a /\ n = d.number
      <4>1. r \in Saved(b)'
        BY <1>7, <3>1
      <4> QED BY <1>6, <3>1, <4>1
    <3>2. CASE ~(b = a /\ n = d.number)
      <4>1. n \in 1..lastNumber[b]
        BY <1>2, <1>4, <1>5, <1>6, <2>1, <3>2
      <4>2. PICK s \in Saved(b) : orders[s].number = n
        BY <4>1 DEF BookInv, NoGap
      <4>3. s \in Saved(b)' /\ s \in Requests \ {r}
        BY <1>3, <1>7 DEF Saved
      <4> QED BY <1>6, <4>2, <4>3
    <3> QED BY <3>1, <3>2
  <2> QED BY <2>1 DEF NoGap
<1>16. NoDuplicate'
  <2>1. ASSUME NEW s \in Requests \ {r}, orders[s].number > 0, orders[s].account = a
        PROVE  orders[s].number # d.number /\ orders[s].ext # d.ext
    <3>1. s \in Saved(a)
      BY <2>1 DEF Saved
    <3>2. orders[s].ext # d.ext
      BY <1>2, <3>1 DEF ExtFree, a
    <3>3. orders[s].number <= lastNumber[a] /\ orders[s].number \in Nat
      BY <1>4, <2>1 DEF BookInv, Numbered, OrderRow
    <3> QED BY <1>2, <1>5, <3>2, <3>3
  <2> QED BY <2>1, <1>2, <1>6 DEF BookInv, NoDuplicate, a
<1>17. SentAfterCommit'
  BY <1>1, <1>3, <1>5, <1>6 DEF BookInv, SentAfterCommit
<1>18. BookInv'
  BY <1>10, <1>11, <1>12, <1>13, <1>14, <1>15, <1>16, <1>17 DEF BookInv
<1> QED BY <1>2, <1>3, <1>7, <1>18 DEF d, a

\* Requests that have not committed are lost, with their locks.
LEMMA Forgets ==
  ASSUME BookInv, NEW gone \in SUBSET Requests,
         UNCHANGED <<orders, viable, returned, lastNumber, sent, form, draft>>,
         pc' = [q \in Requests |-> IF q \in gone THEN "done" ELSE pc[q]],
         numberLock' = [a \in Accounts |-> IF numberLock[a] \in gone THEN None ELSE numberLock[a]]
  PROVE  BookInv'
<1> USE EntryAssumption
<1>1. /\ pc \in [Requests -> {"idle", "check", "resolve", "save", "commit", "send", "done"}]
      /\ numberLock \in [Accounts -> Requests \cup {None}]
      /\ \A s \in Requests : pc[s] = "commit" <=> \E a \in Accounts : numberLock[a] = s
  BY DEF BookInv, TypeOK
<1>2. /\ pc' \in [Requests -> {"idle", "check", "resolve", "save", "commit", "send", "done"}]
      /\ numberLock' \in [Accounts -> Requests \cup {None}]
  BY <1>1
<1>3. \A s \in Requests : pc'[s] = "commit" <=> \E a \in Accounts : numberLock'[a] = s
  BY <1>1
<1>4. TypeOK'
  BY <1>2, <1>3 DEF BookInv, TypeOK, OrderRow, ClientIds
<1>5. FormKnown' /\ DraftKnown' /\ NotYet' /\ SentAfterCommit'
  BY DEF BookInv, FormKnown, DraftKnown, NotYet, Unsaved, SentAfterCommit, TypeOK
<1>6. \A a : Saved(a)' = Saved(a)
  BY DEF Saved
<1>7. Numbered' /\ NoGap' /\ NoDuplicate'
  BY <1>6 DEF BookInv, Numbered, NoGap, NoDuplicate
<1>8. LockHeld'
  <2>1. ASSUME NEW s \in Requests, pc'[s] = "commit"
        PROVE  /\ numberLock'[draft'[s].account] = s
               /\ draft'[s].number = lastNumber'[draft'[s].account] + 1
               /\ ExtFree(draft[s])'
    <3>1. s \notin gone /\ pc[s] = "commit" /\ draft[s].account \in Accounts
      BY <2>1 DEF BookInv, DraftKnown
    <3> QED BY <3>1, <1>6 DEF BookInv, LockHeld, ExtFree
  <2>2. ASSUME NEW a \in Accounts, numberLock'[a] # None
        PROVE  pc'[numberLock'[a]] = "commit" /\ draft'[numberLock'[a]].account = a
    <3>1. numberLock'[a] = numberLock[a] /\ numberLock[a] \in Requests \ gone
      BY <2>2, <1>1
    <3> QED BY <2>2, <3>1 DEF BookInv, LockHeld
  <2> QED BY <2>1, <2>2 DEF LockHeld
<1> QED BY <1>4, <1>5, <1>7, <1>8 DEF BookInv

LEMMA FailureStep ==
  ASSUME BookInv, NEW r \in Requests, EntryFailure(r)
  PROVE  BookInv'
<1>1. ASSUME Drop(r, "done"), UNCHANGED <<orders, viable, returned, lastNumber, sent, memVars>> PROVE BookInv'
  <2>1. /\ pc' = [q \in Requests |-> IF q \in {r} THEN "done" ELSE pc[q]]
        /\ numberLock' = [a \in Accounts |-> IF numberLock[a] \in {r} THEN None ELSE numberLock[a]]
    BY <1>1 DEF Drop, BookInv, TypeOK
  <2> QED BY <1>1, <2>1, Forgets DEF memVars
<1>2. ASSUME pc[r] = "commit", Commits(r, "done") PROVE BookInv'
  BY <1>2, CommitsBook
<1> QED BY <1>1, <1>2 DEF EntryFailure

LEMMA CrashStep ==
  ASSUME BookInv, Crash
  PROVE  BookInv'
<1> DEFINE gone == {r \in Requests : pc[r] # "idle"}
<1>1. pc' = [q \in Requests |-> IF q \in gone THEN "done" ELSE pc[q]]
  BY DEF Crash
<1>2. numberLock' = [a \in Accounts |-> IF numberLock[a] \in gone THEN None ELSE numberLock[a]]
  <2>1. \A a \in Accounts : numberLock[a] = None \/ numberLock[a] \in gone
    BY DEF BookInv, LockHeld, TypeOK
  <2> QED BY <2>1 DEF Crash
<1>3. UNCHANGED <<orders, viable, returned, lastNumber, sent, form, draft>>
  BY DEF Crash, memVars
<1> QED BY <1>1, <1>2, <1>3, Forgets

\* Every step keeps the invariant.
LEMMA BookInductive == BookInv /\ [Next]_vars => BookInv'
<1> SUFFICES ASSUME BookInv, [Next]_vars PROVE BookInv' OBVIOUS
<1>1. CASE UNCHANGED entryVars
  <2>1. viable' \subseteq Requests /\ returned' \subseteq Requests \X Requests
    BY <1>1 DEF entryVars, bookVars, BookInv, TypeOK
  <2> QED BY <1>1, <2>1, EntryUnchanged DEF entryVars, bookVars, memVars
<1>2. ASSUME NEW r \in Requests, EntryStep(r) PROVE BookInv'
  <2>1. ASSUME NEW a \in Accounts, NEW x \in ExtIds \cup {r}, NEW f \in Forms, Ask(r, a, x, f)
        PROVE  BookInv'
    BY <2>1, AskStep
  <2>2. CASE CommitOrder(r)
    <3>1. pc[r] = "commit" /\ \E at \in {"send", "done"} : Commits(r, at)
      BY <2>2 DEF CommitOrder
    <3> QED BY <3>1, CommitsBook
  <2> QED BY <1>2, <2>1, <2>2, CheckStep, ResolveStep, SaveStep, SendStep, OrderEndsStep,
          OrderReturnsStep, FailureStep DEF EntryStep
<1>3. CASE Crash
  BY <1>3, CrashStep
<1> QED BY <1>1, <1>2, <1>3 DEF Next, vars

--------------------------------------------------------------------------------
(* What is established *)

\* The book, the lock and the places of the requests agree, for any number of
\* requests and accounts and any failures and restarts.
THEOREM BookHolds == Spec => []BookInv
<1>1. Init => BookInv
  BY InitBook
<1>2. BookInv /\ [Next]_vars => BookInv'
  BY BookInductive
<1> QED BY <1>1, <1>2, PTL DEF Spec

\* The type invariant of order entry.
THEOREM EntryTypes == Spec => []TypeOK
<1>1. BookInv => TypeOK
  BY DEF BookInv
<1> QED BY <1>1, BookHolds, PTL

\* The numbers of an account's orders are 1, 2, 3, ...: save_order leaves no gap
\* and uses no number twice.
THEOREM NumbersHold == Spec => []NumbersAreConsecutive
<1>1. BookInv => NumbersAreConsecutive
  <2> SUFFICES ASSUME BookInv, NEW a \in Accounts
               PROVE  /\ {orders[r].number : r \in Saved(a)} = 1..lastNumber[a]
                      /\ \A r, s \in Saved(a) : orders[r].number = orders[s].number => r = s
    BY DEF NumbersAreConsecutive
  <2>1. ASSUME NEW r \in Saved(a) PROVE orders[r].number \in 1..lastNumber[a]
    BY DEF Saved, BookInv, Numbered, TypeOK, OrderRow
  <2>2. \A n \in 1..lastNumber[a] : \E r \in Saved(a) : orders[r].number = n
    BY DEF BookInv, NoGap
  <2>3. \A r, s \in Saved(a) : orders[r].number = orders[s].number => r = s
    BY DEF Saved, BookInv, NoDuplicate
  <2> QED BY <2>1, <2>2, <2>3
<1> QED BY <1>1, BookHolds, PTL

--------------------------------------------------------------------------------
(* The refinement of AccountOrders *)

\* Place n of an account's book is the order with number n.
BookListed == \A a \in Accounts :
  /\ lastNumber[a] \in Nat
  /\ BookOf[a] \in Seq(ClientIds) /\ Len(BookOf[a]) = lastNumber[a]
  /\ \A r \in Saved(a) :
       orders[r].number \in 1..lastNumber[a] /\ BookOf[a][orders[r].number] = orders[r].ext
  /\ \A n \in 1..lastNumber[a] : \E r \in Saved(a) : orders[r].number = n

LEMMA BookIsListed == BookInv => BookListed
<1> SUFFICES ASSUME BookInv, NEW a \in Accounts
             PROVE  /\ lastNumber[a] \in Nat
                    /\ BookOf[a] \in Seq(ClientIds) /\ Len(BookOf[a]) = lastNumber[a]
                    /\ \A r \in Saved(a) :
                         /\ orders[r].number \in 1..lastNumber[a]
                         /\ BookOf[a][orders[r].number] = orders[r].ext
                    /\ \A n \in 1..lastNumber[a] : \E r \in Saved(a) : orders[r].number = n
  BY DEF BookListed
<1> DEFINE at(n) == CHOOSE q \in Saved(a) : orders[q].number = n
           list == [n \in 1..lastNumber[a] |-> orders[at(n)].ext]
<1>1. lastNumber[a] \in Nat
  BY DEF BookInv, TypeOK
<1>2. \A n \in 1..lastNumber[a] : \E r \in Saved(a) : orders[r].number = n
  BY DEF BookInv, NoGap
<1>3. \A n \in 1..lastNumber[a] : at(n) \in Saved(a) /\ orders[at(n)].number = n
  BY <1>2
<1>4. BookOf[a] = list
  BY DEF BookOf
<1> HIDE DEF at
<1>5. list \in Seq(ClientIds) /\ Len(list) = lastNumber[a]
  <2>1. \A r \in Saved(a) : orders[r].ext \in ClientIds
    BY DEF Saved, BookInv, Numbered
  <2>2. list \in [1..lastNumber[a] -> ClientIds]
    BY <1>3, <2>1
  <2> HIDE DEF list
  <2> QED BY <1>1, <2>2
<1>6. ASSUME NEW r \in Saved(a)
      PROVE  orders[r].number \in 1..lastNumber[a] /\ list[orders[r].number] = orders[r].ext
  <2>1. orders[r].number \in 1..lastNumber[a]
    BY DEF Saved, BookInv, Numbered, TypeOK, OrderRow
  <2>2. at(orders[r].number) = r
    BY <1>3, <2>1 DEF Saved, BookInv, NoDuplicate
  <2> QED BY <2>1, <2>2
<1> QED BY <1>1, <1>2, <1>4, <1>5, <1>6

\* A step that leaves orders, numbers and calls alone is a stutter of the book.
LEMMA BookStutters ==
  ASSUME BookListed, BookListed', UNCHANGED <<orders, lastNumber>>
  PROVE  BookOf' = BookOf /\ (sent' = sent => SentOf' = SentOf)
<1>1. \A a : Saved(a)' = Saved(a)
  BY DEF Saved
<1>2. ASSUME NEW a \in Accounts PROVE BookOf'[a] = BookOf[a]
  <2>1. /\ BookOf[a] \in Seq(ClientIds) /\ Len(BookOf[a]) = lastNumber[a]
        /\ BookOf'[a] \in Seq(ClientIds) /\ Len(BookOf'[a]) = lastNumber[a]
    BY DEF BookListed, ClientIds
  <2>2. ASSUME NEW n \in 1..lastNumber[a] PROVE BookOf'[a][n] = BookOf[a][n]
    <3>1. PICK s \in Saved(a) : orders[s].number = n
      BY DEF BookListed
    <3>2. BookOf[a][n] = orders[s].ext
      BY <3>1 DEF BookListed
    <3>3. BookOf'[a][n] = orders[s].ext
      BY <1>1, <3>1 DEF BookListed
    <3> QED BY <3>2, <3>3
  <2> QED BY <2>1, <2>2
<1>3. BookOf' = [a \in Accounts |-> BookOf'[a]] /\ BookOf = [a \in Accounts |-> BookOf[a]]
  BY DEF BookOf
<1>4. sent' = sent => SentOf' = SentOf
  BY <1>1 DEF SentOf
<1> QED BY <1>2, <1>3, <1>4

\* A commit enters the order.
LEMMA CommitEnters ==
  ASSUME BookInv, BookListed, BookListed',
         NEW r \in Requests, pc[r] = "commit", NEW at \in {"send", "done"}, Commits(r, at)
  PROVE  Book!Next
<1> DEFINE a == draft[r].account
           x == draft[r].ext
<1>1. /\ a \in Accounts /\ x \in ClientIds
      /\ draft[r].number = lastNumber[a] + 1
      /\ orders[r].number = 0 /\ r \notin sent
      /\ \A b \in Accounts : Saved(b)' = IF b = a THEN Saved(b) \cup {r} ELSE Saved(b)
  BY CommitsBook
<1>2. \A s \in Saved(a) : orders[s].ext # x
  BY DEF BookInv, LockHeld, ExtFree
<1>3. /\ orders' = [orders EXCEPT ![r] = draft[r]] /\ sent' = sent
      /\ lastNumber' = [lastNumber EXCEPT ![a] = draft[r].number]
  BY DEF Commits
<1>4. /\ orders'[r].number = lastNumber[a] + 1 /\ orders'[r].ext = x
      /\ \A s \in Requests \ {r} : orders'[s] = orders[s]
      /\ lastNumber'[a] = lastNumber[a] + 1
      /\ \A b \in Accounts \ {a} : lastNumber'[b] = lastNumber[b]
  BY <1>1, <1>3 DEF BookInv, TypeOK
<1> HIDE DEF a, x
<1>5. \A b \in Accounts : Saved(b) \subseteq Requests \ {r}
  BY <1>1 DEF Saved
<1>6. \A n \in DOMAIN BookOf[a] : BookOf[a][n] # x
  <2>1. /\ BookOf[a] \in Seq(ClientIds) /\ Len(BookOf[a]) = lastNumber[a]
        /\ \A n \in 1..lastNumber[a] : \E s \in Saved(a) : orders[s].number = n
        /\ \A s \in Saved(a) : BookOf[a][orders[s].number] = orders[s].ext
    BY <1>1 DEF BookListed
  <2>2. DOMAIN BookOf[a] = 1..lastNumber[a]
    BY <2>1
  <2> QED BY <1>2, <2>1, <2>2
<1>7. ASSUME NEW b \in Accounts
      PROVE  BookOf'[b] = IF b = a THEN Append(BookOf[b], x) ELSE BookOf[b]
  <2>1. /\ lastNumber[b] \in Nat
        /\ BookOf[b] \in Seq(ClientIds) /\ Len(BookOf[b]) = lastNumber[b]
        /\ \A n \in 1..lastNumber[b] : \E s \in Saved(b) : orders[s].number = n
        /\ \A s \in Saved(b) : BookOf[b][orders[s].number] = orders[s].ext
    BY DEF BookListed
  <2>2. /\ BookOf'[b] \in Seq(ClientIds) /\ Len(BookOf'[b]) = lastNumber'[b]
        /\ \A s \in Saved(b)' : BookOf'[b][orders'[s].number] = orders'[s].ext
    BY DEF BookListed, ClientIds
  <2>3. \A n \in 1..lastNumber[b] : BookOf'[b][n] = BookOf[b][n]
    <3> SUFFICES ASSUME NEW n \in 1..lastNumber[b] PROVE BookOf'[b][n] = BookOf[b][n]
      OBVIOUS
    <3>1. PICK s \in Saved(b) : orders[s].number = n
      BY <2>1
    <3>2. BookOf[b][n] = orders[s].ext
      BY <2>1, <3>1
    <3>3. s \in Saved(b)' /\ orders'[s] = orders[s]
      BY <1>1, <1>4, <1>5, <3>1
    <3>4. BookOf'[b][n] = orders[s].ext
      BY <2>2, <3>1, <3>3
    <3> QED BY <3>2, <3>4
  <2>4. CASE b = a
    <3>1. BookOf'[b][lastNumber[b] + 1] = x /\ Len(BookOf'[b]) = lastNumber[b] + 1
      BY <1>1, <1>4, <2>2, <2>4
    <3> QED BY <1>1, <2>1, <2>2, <2>3, <2>4, <3>1
  <2>5. CASE b # a
    <3>1. Len(BookOf'[b]) = lastNumber[b]
      BY <1>4, <2>2, <2>5
    <3> QED BY <2>1, <2>2, <2>3, <2>5, <3>1
  <2> QED BY <2>4, <2>5
<1>8. BookOf' = [BookOf EXCEPT ![a] = Append(@, x)]
  <2>1. BookOf' = [b \in Accounts |-> BookOf'[b]] /\ BookOf = [b \in Accounts |-> BookOf[b]]
    BY DEF BookOf
  <2> QED BY <1>7, <2>1
<1>9. SentOf' = SentOf
  <2>1. ASSUME NEW b \in Accounts
        PROVE  {orders'[s].number : s \in Saved(b)' \cap sent'} = {orders[s].number : s \in Saved(b) \cap sent}
    <3>1. Saved(b)' \cap sent' = Saved(b) \cap sent
      BY <1>1, <1>3
    <3> QED BY <1>4, <1>5, <3>1
  <2> QED BY <2>1 DEF SentOf
<1> QED BY <1>1, <1>6, <1>8, <1>9 DEF Book!Next, Book!Enter

\* A call to the exchange sends the order.
LEMMA CallSends ==
  ASSUME BookInv, BookListed, BookListed', NEW r \in Requests, Send(r), sent' # sent
  PROVE  Book!Next
<1> DEFINE a == orders[r].account
           n == orders[r].number
<1>1. /\ sent' = sent \cup {r} /\ r \notin sent /\ n > 0 /\ a \in Accounts
      /\ orders' = orders /\ lastNumber' = lastNumber
  BY DEF Send, BookInv, SentAfterCommit, Numbered
<1>2. r \in Saved(a) /\ \A b \in Accounts \ {a} : r \notin Saved(b)
  BY <1>1 DEF Saved
<1>3. n \in DOMAIN BookOf[a]
  BY <1>1, <1>2 DEF BookListed
<1>4. \A b \in Accounts : SentOf[b] = {orders[s].number : s \in Saved(b) \cap sent}
  BY DEF SentOf
<1>5. n \notin SentOf[a]
  BY <1>1, <1>2, <1>4 DEF BookInv, NoDuplicate, Saved
<1>6. \A b : Saved(b)' = Saved(b)
  BY <1>1 DEF Saved
<1>7. BookOf' = BookOf
  BY <1>1, BookStutters
<1>8. SentOf' = [b \in Accounts |-> {orders[s].number : s \in Saved(b) \cap sent'}]
  BY <1>1, <1>6 DEF SentOf
<1> HIDE DEF a, n
<1>9. SentOf' = [SentOf EXCEPT ![a] = @ \cup {n}]
  <2>1. ASSUME NEW b \in Accounts
        PROVE  {orders[s].number : s \in Saved(b) \cap sent'} = IF b = a THEN SentOf[b] \cup {n} ELSE SentOf[b]
    BY <1>1, <1>2, <1>4 DEF n
  <2>2. SentOf = [b \in Accounts |-> SentOf[b]]
    BY DEF SentOf
  <2> QED BY <1>8, <2>1, <2>2
<1> QED BY <1>1, <1>3, <1>5, <1>7, <1>9 DEF Book!Next, Book!Send

LEMMA BookSteps ==
  ASSUME BookInv, BookListed, BookListed', [Next]_vars
  PROVE  [Book!Next]_Book!bookVars
<1>1. CASE UNCHANGED <<orders, lastNumber, sent>>
  BY <1>1, BookStutters DEF Book!bookVars
<1>2. ASSUME NEW r \in Requests, EntryStep(r) PROVE [Book!Next]_Book!bookVars
  <2>1. CASE CommitOrder(r)
    <3>1. pc[r] = "commit" /\ \E at \in {"send", "done"} : Commits(r, at)
      BY <2>1 DEF CommitOrder
    <3> QED BY <3>1, CommitEnters
  <2>2. CASE Send(r)
    BY <1>1, <2>2, CallSends DEF Send
  <2>3. CASE EntryFailure(r)
    <3>1. CASE pc[r] = "commit" /\ Commits(r, "done")
      BY <3>1, CommitEnters
    <3> QED BY <1>1, <2>3, <3>1 DEF EntryFailure
  <2>4. ASSUME NEW b \in Accounts, NEW x \in ExtIds \cup {r}, NEW f \in Forms, Ask(r, b, x, f)
        PROVE  UNCHANGED <<orders, lastNumber, sent>>
    BY <2>4 DEF Ask, bookVars
  <2>5. Check(r) \/ Resolve(r) \/ SaveOrder(r) \/ OrderEnds(r) \/ OrderReturns(r)
          => UNCHANGED <<orders, lastNumber, sent>>
    BY DEF Check, Resolve, SaveOrder, OrderEnds, OrderReturns, bookVars
  <2> QED BY <1>1, <1>2, <2>1, <2>2, <2>3, <2>4, <2>5 DEF EntryStep
<1>3. (AdminStep /\ UNCHANGED entryVars) \/ Crash \/ UNCHANGED vars => UNCHANGED <<orders, lastNumber, sent>>
  BY DEF entryVars, bookVars, vars, Crash
<1> QED BY <1>1, <1>2, <1>3 DEF Next

\* submit_order and save_order implement the account's numbered list: no client id
\* is entered twice and no order is sent twice, or sent without being saved,
\* whatever fails or is lost in between.
THEOREM EntryImplementsBook == Spec => ImplementsAccountOrders
<1>1. Init => Book!Init
  <2> SUFFICES ASSUME Init PROVE Book!Init OBVIOUS
  <2>1. \A a \in Accounts : lastNumber[a] = 0 /\ Saved(a) = {}
    BY DEF Init, EntryInit, NoOrder, Saved
  <2>2. BookOf = [a \in Accounts |-> <<>>]
    <3>1. \A a \in Accounts : BookOf[a] = <<>>
      BY <2>1 DEF BookOf
    <3> QED BY <3>1 DEF BookOf
  <2>3. SentOf = [a \in Accounts |-> {}]
    BY <2>1 DEF SentOf
  <2> QED BY <2>2, <2>3 DEF Book!Init
<1>2. BookInv /\ BookListed /\ BookListed' /\ [Next]_vars => [Book!Next]_Book!bookVars
  BY BookSteps
<1> QED BY <1>1, <1>2, BookIsListed, BookHolds, PTL DEF Spec, ImplementsAccountOrders, Book!Spec

--------------------------------------------------------------------------------
(* The registry: what the tables, the open transactions and the memory agree on *)

\* A request in progress keeps what it has read and written; only a load that is
\* still running has saved rows.
AdminKnown ==
  /\ DOMAIN admin = Admins
  /\ \A t \in Admins : DOMAIN admin[t] = {"at", "exchange", "todo", "current", "saved"}
  /\ \A t \in Loads : admin[t].at \in {"save", "add"} \/ DOMAIN admin[t].saved # {} =>
       started /\ admin[t].at \in {"save", "add"}

SameInstrument(v, w) == v.exchange = w.exchange /\ v.xid = w.xid

\* Load t has saved row i and not yet entered it into memory.
Adding(t, i) == admin[t].at = "add" /\ admin[t].current.id = i

\* A row is inserted with a key of its own, and one row at a time stands for an
\* instrument, in the table and in what the open transactions have written.
RowsAreOne ==
  /\ issued \in Nat
  /\ \A i \in DOMAIN instrumentTable : i \in 1..issued /\ instrumentTable[i].key = i
  /\ \A t \in Loads : \A i \in DOMAIN admin[t].saved : i \in 1..issued /\ admin[t].saved[i].key = i
  /\ \A i, j \in DOMAIN instrumentTable :
       SameInstrument(instrumentTable[i], instrumentTable[j]) => i = j
  /\ \A t \in Loads : \A i \in DOMAIN instrumentTable, j \in DOMAIN admin[t].saved :
       SameInstrument(instrumentTable[i], admin[t].saved[j]) <=> i = j
  /\ \A t, u \in Loads : \A i \in DOMAIN admin[t].saved, j \in DOMAIN admin[u].saved :
       SameInstrument(admin[t].saved[i], admin[u].saved[j]) \/ i = j => t = u /\ i = j

\* The row numbers that may be or become rows of the table.
RowIds == DOMAIN instrumentTable \cup Saving

\* What a load is about to enter is the row it has saved last, under a key that
\* nobody else has.
CurrentKnown ==
  \A t \in Loads : admin[t].at = "add" =>
    LET c == admin[t].current IN
    /\ c.id \in DOMAIN admin[t].saved
    /\ SameInstrument(c, admin[t].saved[c.id])
    /\ c.status = admin[t].saved[c.id].status
    /\ c.key \in 1..issued /\ c.key \notin DOMAIN byKey
    /\ c.key \in RowIds => c.key = c.id
    /\ \A u \in Loads : admin[u].at = "add" /\ admin[u].current.key = c.key => u = t

\* The keys of the table are in memory and lead to their rows.
KeysKnown ==
  /\ \A k \in DOMAIN byKey : k \in 1..issued /\ (k \in RowIds => byKey[k].id = k)
  /\ started => DOMAIN instrumentTable \subseteq DOMAIN byKey
  /\ \A t \in Loads : \A i \in DOMAIN admin[t].saved :
       i \in DOMAIN byKey \/ (Adding(t, i) /\ admin[t].current.key = i)

\* The rows of the table are in memory, as the instruments they are.
RowsInMemory ==
  /\ \A i \in DOMAIN byId :
       /\ i \in 1..issued
       /\ i \in DOMAIN instrumentTable => SameInstrument(byId[i], instrumentTable[i])
       /\ \A t \in Loads : i \in DOMAIN admin[t].saved => SameInstrument(byId[i], admin[t].saved[i])
  /\ started => DOMAIN instrumentTable \subseteq DOMAIN byId
  /\ \A t \in Loads : \A i \in DOMAIN admin[t].saved : i \in DOMAIN byId \/ Adding(t, i)

\* Row i, of instrument v, is what v's exchange id leads to, unless that leads to
\* an instrument of another exchange.
Leads(v, i) ==
  /\ v.xid \in DOMAIN byXid
  /\ byXid[v.xid].exchange = v.exchange => byXid[v.xid].id = i

XidsLead ==
  /\ \A x \in DOMAIN byXid :
       /\ byXid[x].xid = x /\ byXid[x].id \in DOMAIN byId
       /\ SameInstrument(byXid[x], byId[byXid[x].id])
  /\ started => \A i \in DOMAIN instrumentTable : Leads(instrumentTable[i], i)
  /\ \A t \in Loads : \A i \in DOMAIN admin[t].saved :
       Adding(t, i) \/ Leads(admin[t].saved[i], i)

\* What is in memory and not in the table belongs to an open transaction, and what
\* no open transaction has written is in the same state in both, as long as no
\* transaction has failed.
StatusKnown ==
  /\ \A t \in Loads : \A i \in DOMAIN admin[t].saved :
       Adding(t, i) \/ byId[i].status = admin[t].saved[i].status
  /\ started /\ clean =>
       /\ DOMAIN byId \subseteq RowIds
       /\ \A i \in DOMAIN instrumentTable \ Saving : byId[i].status = instrumentTable[i].status

InstrumentsInv ==
  /\ AdminKnown /\ RowsAreOne /\ CurrentKnown /\ KeysKnown
  /\ RowsInMemory /\ XidsLead /\ StatusKnown

Creating(u) == admin[u].at \in {"setup", "commit"}

\* A code belongs to one row, committed or not; a holder that no transaction is
\* about to commit is in the table, as long as none has failed.
CodesAreOne ==
  /\ \A e, f \in exchangeTable : e.code = f.code => e = f
  /\ \A u \in Creates : Creating(u) => ~CodeTaken(admin[u].exchange.code)
  /\ \A u, v \in Creates :
       Creating(u) /\ Creating(v) /\ admin[u].exchange.code = admin[v].exchange.code => u = v
  /\ clean => \A h \in holders :
       h \in exchangeTable \/ \E u \in Creates : admin[u].at = "commit" /\ admin[u].exchange = h


LEMMA InitInstruments == Init => InstrumentsInv
<1> SUFFICES ASSUME Init PROVE InstrumentsInv OBVIOUS
<1>1. /\ DOMAIN instrumentTable = {} /\ DOMAIN byId = {} /\ DOMAIN byKey = {} /\ DOMAIN byXid = {}
      /\ started = TRUE /\ issued = 0
  BY DEF Init, RegistryInit, NoMap
<1>2. /\ DOMAIN admin = Admins
      /\ \A t \in Admins : /\ DOMAIN admin[t] = {"at", "exchange", "todo", "current", "saved"}
                           /\ admin[t].at \in {"idle", "done"} /\ DOMAIN admin[t].saved = {}
  BY DEF Init, Idle, NoMap
<1>3. AdminKnown /\ RowsAreOne /\ CurrentKnown /\ KeysKnown /\ RowsInMemory
  BY <1>1, <1>2 DEF AdminKnown, RowsAreOne, CurrentKnown, KeysKnown, RowsInMemory, Admins
<1>4. XidsLead /\ StatusKnown
  BY <1>1, <1>2 DEF XidsLead, StatusKnown, Admins
<1> QED BY <1>3, <1>4 DEF InstrumentsInv

\* Steps that leave table and memory alone: a load goes on, begins, or gives up
\* what it has saved, which is a failure.
LEMMA InstrumentsStay ==
  ASSUME InstrumentsInv, UNCHANGED <<instrumentTable, byId, byKey, byXid, started, issued>>,
         DOMAIN admin' = Admins,
         \A t \in Admins : DOMAIN admin'[t] = {"at", "exchange", "todo", "current", "saved"},
         \A t \in Loads : \/ admin'[t] = admin[t]
                          \/ /\ DOMAIN admin'[t].saved = {} /\ admin'[t].at # "add"
                             /\ admin'[t].at = "save" => started
                             /\ clean' => DOMAIN admin[t].saved = {},
         clean' => clean
  PROVE  InstrumentsInv'
<1> USE DEF InstrumentsInv
<1>1. \A t \in Loads : \A i \in DOMAIN admin'[t].saved : admin'[t] = admin[t]
  OBVIOUS
<1>2. \A t \in Loads : admin'[t].at = "add" => admin'[t] = admin[t]
  OBVIOUS
<1>3. RowIds' \subseteq RowIds /\ (clean' => Saving' = Saving)
  BY <1>1 DEF RowIds, Saving
<1>4. AdminKnown'
  BY DEF AdminKnown
<1>5. RowsAreOne'
  BY <1>1 DEF RowsAreOne, SameInstrument
<1>6. CurrentKnown'
  BY <1>2, <1>3 DEF CurrentKnown, SameInstrument
<1>7. KeysKnown'
  BY <1>1, <1>3 DEF KeysKnown, Adding
<1>8. RowsInMemory'
  BY <1>1 DEF RowsInMemory, SameInstrument, Adding
<1>9. XidsLead'
  BY <1>1 DEF XidsLead, SameInstrument, Adding, Leads
<1>10. StatusKnown'
  BY <1>1, <1>3 DEF StatusKnown, Adding, RowIds
<1> QED BY <1>4, <1>5, <1>6, <1>7, <1>8, <1>9, <1>10

\* save_instrument writes a row that no open transaction has written.
LEMMA SaveInstruments ==
  ASSUME InstrumentsInv, NEW t \in Loads, NEW x \in Xids, LoadSave(t, x)
  PROVE  InstrumentsInv'
<1> DEFINE e == admin[t].exchange.id
           new == issued + 1
           status == admin[t].todo[x]
<1>0. PICK i \in IF RowsOf(e, x) = {} THEN {new} ELSE RowsOf(e, x) : \E rest :
        LET key == IF i = new THEN new ELSE instrumentTable[i].key IN
        admin' = [admin EXCEPT
          ![t].at = "add",
          ![t].todo = rest,
          ![t].current = [id |-> i, key |-> new, exchange |-> e, xid |-> x, status |-> status],
          ![t].saved = [j \in DOMAIN @ \cup {i} |->
                          IF j = i THEN [key |-> key, exchange |-> e, xid |-> x, status |-> status]
                          ELSE @[j]]]
  BY Zenon DEF LoadSave
<1>1. PICK rest :
        LET key == IF i = new THEN new ELSE instrumentTable[i].key IN
        admin' = [admin EXCEPT
          ![t].at = "add",
          ![t].todo = rest,
          ![t].current = [id |-> i, key |-> new, exchange |-> e, xid |-> x, status |-> status],
          ![t].saved = [j \in DOMAIN @ \cup {i} |->
                          IF j = i THEN [key |-> key, exchange |-> e, xid |-> x, status |-> status]
                          ELSE @[j]]]
  BY <1>0, Zenon
<1> DEFINE row == [key |-> i, exchange |-> e, xid |-> x, status |-> status]
           old == admin[t].saved
<1>2. /\ admin[t].at = "save" /\ Writers(e, x) = {} /\ issued' = new
      /\ UNCHANGED <<instrumentTable, byId, byKey, byXid, started, clean>>
  BY DEF LoadSave, tables, memory
<1>3. started /\ issued \in Nat /\ new \in Nat /\ t \in Admins
  BY <1>2 DEF InstrumentsInv, AdminKnown, RowsAreOne, Admins
<1>4. /\ \A j \in DOMAIN instrumentTable : j \in 1..issued /\ instrumentTable[j].key = j
      /\ \A u \in Loads : \A j \in DOMAIN admin[u].saved : j \in 1..issued /\ admin[u].saved[j].key = j
  BY DEF InstrumentsInv, RowsAreOne
<1>5. \/ i = new /\ RowsOf(e, x) = {}
      \/ /\ i \in DOMAIN instrumentTable /\ i # new /\ instrumentTable[i].key = i
         /\ instrumentTable[i].exchange = e /\ instrumentTable[i].xid = x
  BY <1>3, <1>4 DEF RowsOf
<1>6. i \in 1..new /\ new \notin DOMAIN instrumentTable
  BY <1>3, <1>4, <1>5
<1>7. /\ DOMAIN admin' = Admins
      /\ \A u \in Admins : DOMAIN admin'[u] = {"at", "exchange", "todo", "current", "saved"}
      /\ \A u \in Admins \ {t} : admin'[u] = admin[u]
      /\ admin'[t].at = "add"
      /\ admin'[t].current = [id |-> i, key |-> new, exchange |-> e, xid |-> x, status |-> status]
      /\ admin'[t].saved = [j \in DOMAIN old \cup {i} |-> IF j = i THEN row ELSE old[j]]
  <2>1. /\ DOMAIN admin = Admins
        /\ \A u \in Admins : DOMAIN admin[u] = {"at", "exchange", "todo", "current", "saved"}
    BY DEF InstrumentsInv, AdminKnown
  <2>2. (IF i = new THEN new ELSE instrumentTable[i].key) = i
    BY <1>5
  <2> QED BY <1>1, <1>3, <2>1, <2>2
<1> HIDE DEF new
<1> HIDE DEF e, status
<1>8. \A u \in Loads : \A j \in DOMAIN admin[u].saved :
        ~(admin[u].saved[j].exchange = e /\ admin[u].saved[j].xid = x)
  BY <1>2 DEF Writers
<1>9. \A u \in Loads : i \notin DOMAIN admin[u].saved
  <2> SUFFICES ASSUME NEW u \in Loads, i \in DOMAIN admin[u].saved PROVE FALSE
    OBVIOUS
  <2>1. i # new
    BY <1>3, <1>4 DEF new
  <2>2. SameInstrument(instrumentTable[i], admin[u].saved[i])
    BY <1>5, <2>1 DEF InstrumentsInv, RowsAreOne
  <2> QED BY <1>5, <1>8, <2>1, <2>2 DEF SameInstrument
<1>10. \A u \in Loads \ {t} : u \in Admins /\ admin'[u] = admin[u]
  BY <1>7 DEF Admins
<1>11. /\ DOMAIN admin'[t].saved = DOMAIN old \cup {i}
       /\ admin'[t].saved[i] = row
       /\ \A j \in DOMAIN old : admin'[t].saved[j] = old[j] /\ j # i
  BY <1>7, <1>9
<1>12. /\ row.key = i /\ row.exchange = e /\ row.xid = x /\ row.status = status
       /\ admin'[t].current.id = i /\ admin'[t].current.key = new
       /\ SameInstrument(admin'[t].current, row) /\ admin'[t].current.status = status
  BY <1>7 DEF SameInstrument
<1> HIDE DEF row
<1> HIDE DEF old
<1>13. /\ \A u \in Loads : \A j \in DOMAIN admin'[u].saved :
            \/ u = t /\ j = i
            \/ j \in DOMAIN admin[u].saved /\ admin'[u].saved[j] = admin[u].saved[j] /\ j # i
       /\ \A u \in Loads : DOMAIN admin[u].saved \subseteq DOMAIN admin'[u].saved
  BY <1>9, <1>10, <1>11 DEF old
<1>14. Saving' = Saving \cup {i} /\ RowIds' = RowIds \cup {i}
  <2>1. Saving' \subseteq Saving \cup {i}
    BY <1>13 DEF Saving
  <2>2. Saving \subseteq Saving'
    BY <1>13 DEF Saving
  <2>3. i \in Saving'
    BY <1>11 DEF Saving
  <2> QED BY <1>2, <2>1, <2>2, <2>3 DEF RowIds
<1>15. \A k \in RowIds : k \in 1..issued
  BY <1>4 DEF RowIds, Saving
<1>16. AdminKnown'
  BY <1>2, <1>3, <1>7, <1>10 DEF InstrumentsInv, AdminKnown
<1>17. RowsAreOne'
  <2>1. issued' \in Nat /\ 1..issued \subseteq 1..issued'
    BY <1>2, <1>3 DEF new
  <2>2. \A u \in Loads : \A j \in DOMAIN admin'[u].saved : j \in 1..issued' /\ admin'[u].saved[j].key = j
    BY <1>2, <1>4, <1>6, <1>11, <1>12, <1>13, <2>1
  <2>3. \A u \in Loads : \A j \in DOMAIN instrumentTable, k \in DOMAIN admin'[u].saved :
          SameInstrument(instrumentTable[j], admin'[u].saved[k]) <=> j = k
    <3> SUFFICES ASSUME NEW u \in Loads, NEW j \in DOMAIN instrumentTable, NEW k \in DOMAIN admin'[u].saved
                 PROVE  SameInstrument(instrumentTable[j], admin'[u].saved[k]) <=> j = k
      OBVIOUS
    <3>1. CASE u = t /\ k = i
      <4>1. SameInstrument(instrumentTable[j], row) <=> j \in RowsOf(e, x)
        BY <1>12 DEF SameInstrument, RowsOf
      <4>2. j \in RowsOf(e, x) <=> j = i
        <5>1. CASE RowsOf(e, x) = {}
          BY <1>5, <1>6, <5>1 DEF RowsOf
        <5>2. CASE RowsOf(e, x) # {}
          <6>1. i \in RowsOf(e, x)
            BY <1>5, <5>2 DEF RowsOf
          <6>2. \A k1, k2 \in RowsOf(e, x) : k1 = k2
            BY DEF RowsOf, InstrumentsInv, RowsAreOne, SameInstrument
          <6> QED BY <6>1, <6>2
        <5> QED BY <5>1, <5>2
      <4> QED BY <1>11, <3>1, <4>1, <4>2
    <3>2. CASE ~(u = t /\ k = i)
      BY <1>13, <3>2 DEF InstrumentsInv, RowsAreOne
    <3> QED BY <3>1, <3>2
  <2>4. \A u, v \in Loads : \A j \in DOMAIN admin'[u].saved, k \in DOMAIN admin'[v].saved :
          SameInstrument(admin'[u].saved[j], admin'[v].saved[k]) \/ j = k => u = v /\ j = k
    <3> SUFFICES ASSUME NEW u \in Loads, NEW v \in Loads, NEW j \in DOMAIN admin'[u].saved,
                        NEW k \in DOMAIN admin'[v].saved,
                        SameInstrument(admin'[u].saved[j], admin'[v].saved[k]) \/ j = k
                 PROVE  u = v /\ j = k
      OBVIOUS
    <3>1. CASE u = t /\ j = i
      BY <1>8, <1>11, <1>12, <1>13, <3>1 DEF SameInstrument
    <3>2. CASE v = t /\ k = i
      BY <1>8, <1>11, <1>12, <1>13, <3>2 DEF SameInstrument
    <3>3. CASE ~(u = t /\ j = i) /\ ~(v = t /\ k = i)
      BY <1>13, <3>3 DEF InstrumentsInv, RowsAreOne
    <3> QED BY <3>1, <3>2, <3>3
  <2> QED BY <1>2, <1>4, <2>1, <2>2, <2>3, <2>4 DEF InstrumentsInv, RowsAreOne
<1>18. CurrentKnown'
  <2>1. /\ \A k \in DOMAIN byKey : k \in 1..issued
        /\ \A u \in Loads : admin[u].at = "add" => admin[u].current.key \in 1..issued
    BY DEF InstrumentsInv, KeysKnown, CurrentKnown
  <2>2. new \notin 1..issued /\ 1..issued \subseteq 1..issued' /\ new \in 1..issued'
    BY <1>2, <1>3 DEF new
  <2> SUFFICES ASSUME NEW u \in Loads, admin'[u].at = "add"
               PROVE  LET c == admin'[u].current IN
                      /\ c.id \in DOMAIN admin'[u].saved
                      /\ SameInstrument(c, admin'[u].saved[c.id])
                      /\ c.status = admin'[u].saved[c.id].status
                      /\ c.key \in 1..issued' /\ c.key \notin DOMAIN byKey'
                      /\ c.key \in RowIds' => c.key = c.id
                      /\ \A v \in Loads : admin'[v].at = "add" /\ admin'[v].current.key = c.key => v = u
    BY DEF CurrentKnown, SameInstrument
  <2>3. CASE u = t
    <3>1. new \in RowIds' => new = i
      BY <1>14, <1>15, <2>2
    <3>2. \A v \in Loads : admin'[v].at = "add" /\ admin'[v].current.key = new => v = t
      BY <1>10, <2>1, <2>2
    <3> QED BY <1>2, <1>11, <1>12, <2>1, <2>2, <2>3, <3>1, <3>2
  <2>4. CASE u # t
    <3>1. admin'[u] = admin[u] /\ admin[u].at = "add"
      BY <1>10, <2>4
    <3>2. admin[u].current.key \in RowIds' => admin[u].current.key \in RowIds
      BY <1>5, <1>14, <2>1, <2>2, <3>1 DEF RowIds
    <3>3. \A v \in Loads : admin'[v].at = "add" /\ admin'[v].current.key = admin[u].current.key => v = u
      BY <1>10, <1>12, <2>1, <2>2, <3>1 DEF InstrumentsInv, CurrentKnown
    <3> QED BY <1>2, <2>2, <3>1, <3>2, <3>3 DEF InstrumentsInv, CurrentKnown
  <2> QED BY <2>3, <2>4
<1>19. KeysKnown'
  <2>1. \A k \in DOMAIN byKey' : k \in 1..issued' /\ (k \in RowIds' => byKey'[k].id = k)
    <3> SUFFICES ASSUME NEW k \in DOMAIN byKey PROVE k \in 1..issued' /\ (k \in RowIds' => byKey[k].id = k)
      BY <1>2
    <3>1. k \in 1..issued /\ (k \in RowIds => byKey[k].id = k)
      BY DEF InstrumentsInv, KeysKnown
    <3>2. k # new /\ k \in 1..issued'
      BY <1>2, <1>3, <3>1 DEF new
    <3> QED BY <1>5, <1>14, <3>1, <3>2 DEF RowIds
  <2>2. \A u \in Loads : \A j \in DOMAIN admin'[u].saved :
          j \in DOMAIN byKey \/ (Adding(u, j)' /\ admin'[u].current.key = j)
    <3> SUFFICES ASSUME NEW u \in Loads, NEW j \in DOMAIN admin'[u].saved, j \notin DOMAIN byKey
                 PROVE  Adding(u, j)' /\ admin'[u].current.key = j
      OBVIOUS
    <3>1. CASE u = t /\ j = i
      <4>1. i = new
        BY <1>3, <1>5, <3>1 DEF InstrumentsInv, KeysKnown
      <4> QED BY <1>7, <1>12, <3>1, <4>1 DEF Adding
    <3>2. CASE ~(u = t /\ j = i)
      <4>1. j \in DOMAIN admin[u].saved /\ Adding(u, j) /\ admin[u].current.key = j
        BY <1>13, <3>2 DEF InstrumentsInv, KeysKnown
      <4>2. u # t
        BY <1>2, <4>1 DEF Adding
      <4> QED BY <1>10, <4>1, <4>2 DEF Adding
    <3> QED BY <3>1, <3>2
  <2> QED BY <1>2, <2>1, <2>2 DEF InstrumentsInv, KeysKnown
<1>20. ASSUME NEW u \in Loads, NEW j \in DOMAIN admin[u].saved, Adding(u, j)
       PROVE  Adding(u, j)'
  BY <1>2, <1>10, <1>20 DEF Adding
<1>21. Adding(t, i)'
  BY <1>7, <1>12 DEF Adding
<1>22. RowsInMemory'
  <2>1. \A j \in DOMAIN byId : j \in 1..issued'
    BY <1>2, <1>3 DEF InstrumentsInv, RowsInMemory, new
  <2>2. \A j \in DOMAIN byId : \A u \in Loads : j \in DOMAIN admin'[u].saved => SameInstrument(byId[j], admin'[u].saved[j])
    <3> SUFFICES ASSUME NEW j \in DOMAIN byId, NEW u \in Loads, j \in DOMAIN admin'[u].saved
                 PROVE  SameInstrument(byId[j], admin'[u].saved[j])
      OBVIOUS
    <3>1. CASE u = t /\ j = i
      <4>1. i \in DOMAIN instrumentTable
        BY <1>3, <1>5, <3>1 DEF InstrumentsInv, RowsInMemory, new
      <4>2. SameInstrument(byId[i], instrumentTable[i])
        BY <3>1, <4>1 DEF InstrumentsInv, RowsInMemory
      <4> QED BY <1>5, <1>6, <1>11, <1>12, <3>1, <4>1, <4>2 DEF SameInstrument
    <3>2. CASE ~(u = t /\ j = i)
      BY <1>13, <3>2 DEF InstrumentsInv, RowsInMemory
    <3> QED BY <3>1, <3>2
  <2>3. \A u \in Loads : \A j \in DOMAIN admin'[u].saved : j \in DOMAIN byId \/ Adding(u, j)'
    BY <1>13, <1>20, <1>21 DEF InstrumentsInv, RowsInMemory
  <2> QED BY <1>2, <2>1, <2>2, <2>3 DEF InstrumentsInv, RowsInMemory, SameInstrument
<1>23. XidsLead'
  <2>1. \A u \in Loads : \A j \in DOMAIN admin'[u].saved : Adding(u, j)' \/ Leads(admin'[u].saved[j], j)
    BY <1>13, <1>20, <1>21 DEF InstrumentsInv, XidsLead
  <2> QED BY <1>2, <2>1 DEF InstrumentsInv, XidsLead, SameInstrument, Leads
<1>24. StatusKnown'
  <2>1. \A u \in Loads : \A j \in DOMAIN admin'[u].saved : Adding(u, j)' \/ byId[j].status = admin'[u].saved[j].status
    BY <1>13, <1>20, <1>21 DEF InstrumentsInv, StatusKnown
  <2> QED BY <1>2, <1>14, <2>1 DEF InstrumentsInv, StatusKnown
<1> QED BY <1>16, <1>17, <1>18, <1>19, <1>22, <1>23, <1>24 DEF InstrumentsInv

\* add_instrument enters the row saved last under its id, its new key and its
\* exchange's id.
LEMMA AddInstruments ==
  ASSUME InstrumentsInv, NEW t \in Loads, LoadAdd(t)
  PROVE  InstrumentsInv'
<1> DEFINE c == admin[t].current
<1>1. /\ admin[t].at = "add"
      /\ byId' = Put(byId, c.id, c) /\ byKey' = Put(byKey, c.key, c) /\ byXid' = Put(byXid, c.xid, c)
      /\ admin' = [admin EXCEPT ![t].at = "save"]
      /\ UNCHANGED <<instrumentTable, started, issued, clean>>
  BY DEF LoadAdd, tables
<1>2. /\ started /\ t \in Admins
      /\ c.id \in DOMAIN admin[t].saved
      /\ SameInstrument(c, admin[t].saved[c.id])
      /\ c.status = admin[t].saved[c.id].status
      /\ c.key \in 1..issued /\ c.key \notin DOMAIN byKey
      /\ c.key \in RowIds => c.key = c.id
      /\ \A u \in Loads : admin[u].at = "add" /\ admin[u].current.key = c.key => u = t
  BY <1>1 DEF InstrumentsInv, AdminKnown, CurrentKnown, Admins
<1>3. /\ DOMAIN admin' = Admins
      /\ \A u \in Admins : DOMAIN admin'[u] = {"at", "exchange", "todo", "current", "saved"}
      /\ \A u \in Admins \ {t} : admin'[u] = admin[u]
      /\ admin'[t].at = "save" /\ admin'[t].current = c
      /\ \A u \in Admins : admin'[u].saved = admin[u].saved
  BY <1>1, <1>2 DEF InstrumentsInv, AdminKnown
<1>4. /\ DOMAIN byId' = DOMAIN byId \cup {c.id}
      /\ byId'[c.id] = c /\ \A i \in DOMAIN byId : i # c.id => byId'[i] = byId[i]
      /\ DOMAIN byKey' = DOMAIN byKey \cup {c.key}
      /\ byKey'[c.key] = c /\ \A k \in DOMAIN byKey : byKey'[k] = byKey[k]
      /\ DOMAIN byXid' = DOMAIN byXid \cup {c.xid}
      /\ byXid'[c.xid] = c /\ \A x \in DOMAIN byXid : x # c.xid => byXid'[x] = byXid[x]
  BY <1>1, <1>2 DEF Put
<1> HIDE DEF c
<1>5. Saving' = Saving /\ RowIds' = RowIds
  BY <1>1, <1>3 DEF Saving, RowIds, Admins
<1>6. \A u \in Loads : u \in Admins
  BY DEF Admins
<1>7. /\ \A i \in DOMAIN instrumentTable :
           SameInstrument(instrumentTable[i], admin[t].saved[c.id]) <=> i = c.id
      /\ \A u \in Loads : \A i \in DOMAIN admin[u].saved :
           SameInstrument(admin[u].saved[i], admin[t].saved[c.id]) \/ i = c.id => u = t /\ i = c.id
  BY <1>2 DEF InstrumentsInv, RowsAreOne
<1>8. AdminKnown'
  BY <1>1, <1>2, <1>3, <1>6 DEF InstrumentsInv, AdminKnown
<1>9. RowsAreOne'
  BY <1>1, <1>3, <1>6 DEF InstrumentsInv, RowsAreOne, SameInstrument
<1>10. CurrentKnown'
  <2> SUFFICES ASSUME NEW u \in Loads, admin'[u].at = "add"
               PROVE  LET d == admin'[u].current IN
                      /\ d.id \in DOMAIN admin'[u].saved
                      /\ SameInstrument(d, admin'[u].saved[d.id])
                      /\ d.status = admin'[u].saved[d.id].status
                      /\ d.key \in 1..issued' /\ d.key \notin DOMAIN byKey'
                      /\ d.key \in RowIds' => d.key = d.id
                      /\ \A v \in Loads : admin'[v].at = "add" /\ admin'[v].current.key = d.key => v = u
    BY DEF CurrentKnown, SameInstrument
  <2>1. u # t /\ admin'[u] = admin[u] /\ admin[u].at = "add"
    BY <1>3, <1>6
  <2>2. admin[u].current.key # c.key
    BY <1>2, <2>1
  <2>3. \A v \in Loads : admin'[v].at = "add" => admin'[v] = admin[v]
    BY <1>3, <1>6
  <2> QED BY <1>1, <1>4, <1>5, <2>1, <2>2, <2>3 DEF InstrumentsInv, CurrentKnown
<1>11. KeysKnown'
  <2>1. c.key \in RowIds => byKey'[c.key].id = c.key
    BY <1>2, <1>4
  <2>2. \A u \in Loads : \A i \in DOMAIN admin'[u].saved :
          i \in DOMAIN byKey' \/ (Adding(u, i)' /\ admin'[u].current.key = i)
    <3> SUFFICES ASSUME NEW u \in Loads, NEW i \in DOMAIN admin[u].saved, i \notin DOMAIN byKey'
                 PROVE  Adding(u, i)' /\ admin'[u].current.key = i
      BY <1>3, <1>6
    <3>1. Adding(u, i) /\ admin[u].current.key = i /\ i # c.key
      BY <1>4 DEF InstrumentsInv, KeysKnown
    <3> QED BY <1>3, <1>6, <3>1 DEF Adding, c
  <2> QED BY <1>1, <1>2, <1>4, <1>5, <2>1, <2>2 DEF InstrumentsInv, KeysKnown
<1>12. ASSUME NEW u \in Loads, NEW i \in DOMAIN admin[u].saved, Adding(u, i)
       PROVE  Adding(u, i)' \/ (u = t /\ i = c.id)
  BY <1>3, <1>6, <1>12 DEF Adding, c
<1>13. RowsInMemory'
  <2>1. c.id \in 1..issued
    BY <1>2 DEF InstrumentsInv, RowsAreOne
  <2>2. c.id \in DOMAIN instrumentTable => SameInstrument(c, instrumentTable[c.id])
    BY <1>2, <1>7 DEF SameInstrument
  <2>3. \A u \in Loads : c.id \in DOMAIN admin[u].saved => SameInstrument(c, admin[u].saved[c.id])
    BY <1>2, <1>7
  <2>4. \A i \in DOMAIN byId' :
          /\ i \in 1..issued
          /\ i \in DOMAIN instrumentTable => SameInstrument(byId'[i], instrumentTable[i])
          /\ \A u \in Loads : i \in DOMAIN admin[u].saved => SameInstrument(byId'[i], admin[u].saved[i])
    BY <1>4, <2>1, <2>2, <2>3 DEF InstrumentsInv, RowsInMemory
  <2>5. \A u \in Loads : \A i \in DOMAIN admin[u].saved : i \in DOMAIN byId' \/ Adding(u, i)'
    BY <1>4, <1>12 DEF InstrumentsInv, RowsInMemory
  <2> QED BY <1>1, <1>3, <1>4, <1>6, <2>4, <2>5 DEF InstrumentsInv, RowsInMemory, SameInstrument
<1>14. XidsLead'
  <2>1. ASSUME NEW x \in DOMAIN byXid'
        PROVE  /\ byXid'[x].xid = x /\ byXid'[x].id \in DOMAIN byId'
               /\ SameInstrument(byXid'[x], byId'[byXid'[x].id])
    <3>1. CASE x = c.xid
      BY <1>4, <3>1 DEF SameInstrument
    <3>2. CASE x # c.xid
      <4>1. /\ x \in DOMAIN byXid /\ byXid'[x] = byXid[x]
            /\ byXid[x].xid = x /\ byXid[x].id \in DOMAIN byId
            /\ SameInstrument(byXid[x], byId[byXid[x].id])
        BY <1>4, <2>1, <3>2 DEF InstrumentsInv, XidsLead
      <4>2. c.id \in DOMAIN byId => SameInstrument(byId[c.id], c)
        BY <1>2 DEF InstrumentsInv, RowsInMemory, SameInstrument
      <4>3. SameInstrument(byXid[x], byId'[byXid[x].id])
        BY <1>4, <4>1, <4>2 DEF SameInstrument
      <4> QED BY <1>4, <4>1, <4>3
    <3> QED BY <3>1, <3>2
  <2>2. ASSUME NEW v, NEW i, Leads(v, i), SameInstrument(v, c) => i = c.id
        PROVE  Leads(v, i)'
    <3>1. v.xid \in DOMAIN byXid'
      BY <1>4, <2>2 DEF Leads
    <3>2. byXid'[v.xid].exchange = v.exchange => byXid'[v.xid].id = i
      BY <1>4, <2>2 DEF Leads, SameInstrument
    <3> QED BY <3>1, <3>2 DEF Leads
  <2>3. ASSUME NEW i \in DOMAIN instrumentTable PROVE Leads(instrumentTable[i], i)'
    <3>1. SameInstrument(instrumentTable[i], c) => i = c.id
      BY <1>2, <1>7 DEF SameInstrument
    <3>2. Leads(instrumentTable[i], i)
      BY <1>2 DEF InstrumentsInv, XidsLead
    <3> HIDE DEF Leads
    <3>3. PICK v : v = instrumentTable[i]
      OBVIOUS
    <3>4. Leads(v, i)'
      BY <2>2, <3>1, <3>2, <3>3
    <3> QED BY <1>1, <3>3, <3>4 DEF Leads
  <2>4. ASSUME NEW u \in Loads, NEW i \in DOMAIN admin[u].saved
        PROVE  Adding(u, i)' \/ Leads(admin[u].saved[i], i)'
    <3>1. CASE u = t /\ i = c.id
      <4>1. /\ admin[u].saved[i].xid = c.xid /\ admin[u].saved[i].exchange = c.exchange
        BY <1>2, <3>1 DEF SameInstrument
      <4>2. admin'[u].saved[i] = admin[u].saved[i]
        BY <1>3, <1>6
      <4> QED BY <1>4, <3>1, <4>1, <4>2 DEF Leads
    <3>2. CASE ~(u = t /\ i = c.id) /\ ~Adding(u, i)
      <4>1. ~SameInstrument(admin[u].saved[i], c)
        BY <1>2, <1>7, <3>2 DEF SameInstrument
      <4>2. Leads(admin[u].saved[i], i)
        BY <3>2 DEF InstrumentsInv, XidsLead
      <4>3. PICK v : v = admin[u].saved[i]
        OBVIOUS
      <4>4. Leads(v, i)'
        BY <2>2, <4>1, <4>2, <4>3
      <4>5. admin'[u].saved[i] = v
        BY <1>3, <1>6, <4>3
      <4> QED BY <4>4, <4>5 DEF Leads
    <3>3. CASE ~(u = t /\ i = c.id) /\ Adding(u, i)
      BY <1>12, <3>3
    <3> QED BY <3>1, <3>2, <3>3
  <2>5. \A u \in Loads : \A i \in DOMAIN admin'[u].saved : Adding(u, i)' \/ Leads(admin[u].saved[i], i)'
    BY <1>3, <1>6, <2>4
  <2> QED BY <1>1, <2>1, <2>3, <2>5 DEF XidsLead, SameInstrument, Leads
<1>15. StatusKnown'
  <2>1. ASSUME NEW u \in Loads, NEW i \in DOMAIN admin[u].saved
        PROVE  Adding(u, i)' \/ byId'[i].status = admin[u].saved[i].status
    <3>1. CASE u = t /\ i = c.id
      BY <1>2, <1>4, <3>1
    <3>2. CASE ~(u = t /\ i = c.id)
      <4>1. i # c.id
        BY <1>7, <3>2
      <4>2. Adding(u, i) \/ (i \in DOMAIN byId /\ byId[i].status = admin[u].saved[i].status)
        BY DEF InstrumentsInv, StatusKnown, RowsInMemory
      <4> QED BY <1>4, <1>12, <3>2, <4>1, <4>2
    <3> QED BY <3>1, <3>2
  <2>2. c.id \in Saving
    BY <1>2 DEF Saving
  <2>3. clean =>
          /\ DOMAIN byId' \subseteq RowIds
          /\ \A i \in DOMAIN instrumentTable \ Saving : byId'[i].status = instrumentTable[i].status
    <3> SUFFICES ASSUME clean
                 PROVE  /\ DOMAIN byId' \subseteq RowIds
                        /\ \A i \in DOMAIN instrumentTable \ Saving : byId'[i].status = instrumentTable[i].status
      OBVIOUS
    <3>1. DOMAIN byId' \subseteq RowIds
      BY <1>2, <1>4, <2>2 DEF InstrumentsInv, StatusKnown, RowIds
    <3>2. ASSUME NEW i \in DOMAIN instrumentTable \ Saving PROVE byId'[i].status = instrumentTable[i].status
      <4>1. i # c.id /\ i \in DOMAIN byId
        BY <1>2, <2>2 DEF InstrumentsInv, RowsInMemory
      <4> QED BY <1>2, <1>4, <4>1 DEF InstrumentsInv, StatusKnown
    <3> QED BY <3>1, <3>2
  <2>4. \A u \in Loads : \A i \in DOMAIN admin'[u].saved : Adding(u, i)' \/ byId'[i].status = admin'[u].saved[i].status
    BY <1>3, <1>6, <2>1
  <2> QED BY <1>1, <1>5, <2>3, <2>4 DEF StatusKnown
<1> QED BY <1>8, <1>9, <1>10, <1>11, <1>13, <1>14, <1>15 DEF InstrumentsInv

\* The COMMIT of a load, its answer lost or not: its rows become rows of the table.
LEMMA CommitInstruments ==
  ASSUME InstrumentsInv, NEW t \in Loads, admin[t].at = "save", NEW outcome \in {"done", "failed"},
         instrumentTable' = WithSaved(t), Return(t, outcome),
         UNCHANGED <<byId, byKey, byXid, started, issued, clean>>
  PROVE  /\ InstrumentsInv'
         /\ DOMAIN instrumentTable \subseteq DOMAIN instrumentTable'
<1> DEFINE old == admin[t].saved
<1>1. /\ DOMAIN instrumentTable' = DOMAIN instrumentTable \cup DOMAIN old
      /\ \A i \in DOMAIN old : instrumentTable'[i] = old[i]
      /\ \A i \in DOMAIN instrumentTable : i \notin DOMAIN old => instrumentTable'[i] = instrumentTable[i]
  BY DEF WithSaved
<1>2. t \in Admins /\ started
  BY DEF InstrumentsInv, AdminKnown, Admins
<1>3. /\ DOMAIN admin' = Admins
      /\ \A u \in Admins : DOMAIN admin'[u] = {"at", "exchange", "todo", "current", "saved"}
      /\ \A u \in Admins \ {t} : admin'[u] = admin[u]
      /\ admin'[t].at \in {"done", "failed"} /\ DOMAIN admin'[t].saved = {}
  <2>1. /\ DOMAIN admin = Admins
        /\ \A u \in Admins : DOMAIN admin[u] = {"at", "exchange", "todo", "current", "saved"}
    BY DEF InstrumentsInv, AdminKnown
  <2> QED BY <1>2, <2>1 DEF Return, Idle, NoMap
<1> HIDE DEF old
<1>4. /\ \A u \in Loads : \A i \in DOMAIN admin'[u].saved : u # t /\ admin'[u] = admin[u] /\ u \in Admins
      /\ \A u \in Loads : admin'[u].at \in {"save", "add"} => u # t /\ admin'[u] = admin[u]
      /\ \A u \in Loads \ {t} : admin'[u] = admin[u]
  BY <1>3 DEF Admins
<1>5. ASSUME NEW i \in DOMAIN instrumentTable
      PROVE  i \in DOMAIN instrumentTable' /\ SameInstrument(instrumentTable'[i], instrumentTable[i])
    <2>1. CASE i \in DOMAIN old
      BY <1>1, <2>1 DEF InstrumentsInv, RowsAreOne, SameInstrument, old
    <2>2. CASE i \notin DOMAIN old
      BY <1>1, <2>2 DEF SameInstrument
    <2> QED BY <2>1, <2>2
<1>6. /\ RowIds' = RowIds
      /\ Saving = Saving' \cup DOMAIN old /\ Saving' \cap DOMAIN old = {}
  <2>1. Saving = Saving' \cup DOMAIN old
    BY <1>4 DEF Saving, old
  <2>2. Saving' \cap DOMAIN old = {}
    <3> SUFFICES ASSUME NEW i \in Saving', i \in DOMAIN old PROVE FALSE
      OBVIOUS
    <3>1. PICK u \in Loads : i \in DOMAIN admin'[u].saved
      BY DEF Saving
    <3>2. u # t /\ i \in DOMAIN admin[u].saved
      BY <1>4, <3>1
    <3> QED BY <3>2 DEF InstrumentsInv, RowsAreOne, old
  <2> QED BY <1>1, <2>1, <2>2 DEF RowIds
<1>7. AdminKnown'
  BY <1>3, <1>4 DEF InstrumentsInv, AdminKnown
<1>8. RowsAreOne'
  <2>1. /\ issued \in Nat
        /\ \A i \in DOMAIN instrumentTable' : i \in 1..issued /\ instrumentTable'[i].key = i
        /\ \A u \in Loads : \A i \in DOMAIN admin'[u].saved : i \in 1..issued /\ admin'[u].saved[i].key = i
    BY <1>1, <1>4 DEF InstrumentsInv, RowsAreOne, old
  <2>2. ASSUME NEW i \in DOMAIN instrumentTable', NEW j \in DOMAIN instrumentTable',
               SameInstrument(instrumentTable'[i], instrumentTable'[j])
        PROVE  i = j
    <3>1. CASE i \in DOMAIN old /\ j \in DOMAIN old
      BY <1>1, <2>2, <3>1 DEF InstrumentsInv, RowsAreOne, SameInstrument, old
    <3>2. CASE i \in DOMAIN old /\ j \notin DOMAIN old
      BY <1>1, <2>2, <3>2 DEF InstrumentsInv, RowsAreOne, SameInstrument, old
    <3>3. CASE i \notin DOMAIN old /\ j \in DOMAIN old
      BY <1>1, <2>2, <3>3 DEF InstrumentsInv, RowsAreOne, SameInstrument, old
    <3>4. CASE i \notin DOMAIN old /\ j \notin DOMAIN old
      BY <1>1, <2>2, <3>4 DEF InstrumentsInv, RowsAreOne
    <3> QED BY <3>1, <3>2, <3>3, <3>4
  <2>3. ASSUME NEW u \in Loads, NEW i \in DOMAIN instrumentTable', NEW j \in DOMAIN admin'[u].saved
        PROVE  SameInstrument(instrumentTable'[i], admin'[u].saved[j]) <=> i = j
    <3>1. u # t /\ admin'[u] = admin[u] /\ j \in DOMAIN admin[u].saved
      BY <1>4, <2>3
    <3>2. CASE i \in DOMAIN old
      BY <1>1, <3>1, <3>2 DEF InstrumentsInv, RowsAreOne, SameInstrument, old
    <3>3. CASE i \notin DOMAIN old
      BY <1>1, <3>1, <3>3 DEF InstrumentsInv, RowsAreOne
    <3> QED BY <3>2, <3>3
  <2>4. \A u, v \in Loads : \A i \in DOMAIN admin'[u].saved, j \in DOMAIN admin'[v].saved :
          SameInstrument(admin'[u].saved[i], admin'[v].saved[j]) \/ i = j => u = v /\ i = j
    BY <1>4 DEF InstrumentsInv, RowsAreOne
  <2> QED BY <2>1, <2>2, <2>3, <2>4 DEF RowsAreOne, SameInstrument
<1>9. CurrentKnown'
  BY <1>4, <1>6 DEF InstrumentsInv, CurrentKnown, SameInstrument
<1>10. KeysKnown'
  <2>1. DOMAIN old \subseteq DOMAIN byKey
    BY DEF InstrumentsInv, KeysKnown, Adding, old
  <2> QED BY <1>1, <1>4, <1>6, <2>1 DEF InstrumentsInv, KeysKnown, Adding
<1>11. RowsInMemory'
  <2>1. DOMAIN old \subseteq DOMAIN byId
    BY DEF InstrumentsInv, RowsInMemory, Adding, old
  <2>2. \A i \in DOMAIN byId : i \in DOMAIN instrumentTable' => SameInstrument(byId[i], instrumentTable'[i])
    BY <1>1 DEF InstrumentsInv, RowsInMemory, old
  <2> QED BY <1>1, <1>4, <2>1, <2>2 DEF InstrumentsInv, RowsInMemory, Adding, SameInstrument
<1>12. XidsLead'
  <2>1. ASSUME NEW i \in DOMAIN instrumentTable' PROVE Leads(instrumentTable'[i], i)
    <3>1. CASE i \in DOMAIN old
      <4>1. ~Adding(t, i)
        BY DEF Adding
      <4> QED BY <1>1, <3>1, <4>1 DEF InstrumentsInv, XidsLead, old
    <3>2. CASE i \notin DOMAIN old
      BY <1>1, <1>2, <3>2 DEF InstrumentsInv, XidsLead
    <3> QED BY <3>1, <3>2
  <2> QED BY <1>4, <2>1 DEF InstrumentsInv, XidsLead, SameInstrument, Leads, Adding
<1>13. StatusKnown'
  <2>1. \A i \in DOMAIN old : byId[i].status = old[i].status
    BY DEF InstrumentsInv, StatusKnown, Adding, old
  <2>2. \A u \in Loads : \A i \in DOMAIN admin'[u].saved : Adding(u, i)' \/ byId[i].status = admin'[u].saved[i].status
    BY <1>4 DEF InstrumentsInv, StatusKnown, Adding
  <2>3. clean => \A i \in DOMAIN instrumentTable' \ Saving' : byId[i].status = instrumentTable'[i].status
    <3> SUFFICES ASSUME clean, NEW i \in DOMAIN instrumentTable' \ Saving'
                 PROVE  byId[i].status = instrumentTable'[i].status
      OBVIOUS
    <3>1. CASE i \in DOMAIN old
      BY <1>1, <2>1, <3>1
    <3>2. CASE i \notin DOMAIN old
      BY <1>1, <1>2, <1>6, <3>2 DEF InstrumentsInv, StatusKnown
    <3> QED BY <3>1, <3>2
  <2> QED BY <1>2, <1>6, <2>2, <2>3 DEF InstrumentsInv, StatusKnown
<1>14. InstrumentsInv'
  BY <1>7, <1>8, <1>9, <1>10, <1>11, <1>12, <1>13 DEF InstrumentsInv
<1> QED BY <1>1, <1>14

LEMMA RestartInstruments ==
  ASSUME InstrumentsInv, Restart
  PROVE  InstrumentsInv'
<1>1. /\ DOMAIN byId' = {} /\ DOMAIN byKey' = {} /\ DOMAIN byXid' = {}
      /\ started' = FALSE /\ UNCHANGED <<instrumentTable, issued>>
  BY DEF Restart, NoMap, tables
<1>2. /\ DOMAIN admin' = Admins
      /\ \A t \in Admins : /\ DOMAIN admin'[t] = {"at", "exchange", "todo", "current", "saved"}
                           /\ admin'[t].at \in {"idle", "lost"} /\ DOMAIN admin'[t].saved = {}
  BY DEF Restart, Idle, NoMap
<1>3. \A t \in Loads : t \in Admins
  BY DEF Admins
<1>4. AdminKnown' /\ CurrentKnown' /\ KeysKnown' /\ RowsInMemory'
  BY <1>1, <1>2, <1>3 DEF AdminKnown, CurrentKnown, KeysKnown, RowsInMemory
<1>5. RowsAreOne'
  BY <1>1, <1>2, <1>3 DEF InstrumentsInv, RowsAreOne, SameInstrument
<1>6. XidsLead' /\ StatusKnown'
  BY <1>1, <1>2, <1>3 DEF XidsLead, StatusKnown
<1> QED BY <1>4, <1>5, <1>6 DEF InstrumentsInv

\* load_instruments fills the memory from the table.
LEMMA StartInstruments ==
  ASSUME InstrumentsInv, LoadInstruments
  PROVE  InstrumentsInv'
<1> DEFINE Loaded(i) == [id |-> i, key |-> instrumentTable[i].key, exchange |-> instrumentTable[i].exchange,
                         xid |-> instrumentTable[i].xid, status |-> instrumentTable[i].status]
           Rows == DOMAIN instrumentTable
<1>1. /\ ~started /\ started' = TRUE
      /\ byId' = [i \in Rows |-> Loaded(i)]
      /\ byKey' = [k \in {instrumentTable[i].key : i \in Rows} |->
                     Loaded(CHOOSE i \in Rows : instrumentTable[i].key = k)]
      /\ UNCHANGED <<instrumentTable, admin, issued, clean>>
  BY DEF LoadInstruments, LoadedRows, tables
<1>2. PICK last \in [{instrumentTable[i].xid : i \in Rows} -> Rows] :
        /\ \A x \in DOMAIN last : instrumentTable[last[x]].xid = x
        /\ byXid' = [x \in DOMAIN last |-> Loaded(last[x])]
  BY DEF LoadInstruments, LoadedRows
<1>3. \A i \in Rows : instrumentTable[i].key = i
  BY DEF InstrumentsInv, RowsAreOne
<1>4. \A t \in Loads : admin[t].at \notin {"save", "add"} /\ DOMAIN admin[t].saved = {}
  BY <1>1 DEF InstrumentsInv, AdminKnown
<1>5. DOMAIN byKey' = Rows /\ \A k \in Rows : byKey'[k].id = k
  <2>1. {instrumentTable[i].key : i \in Rows} = Rows
    BY <1>3
  <2>2. \A k \in Rows : (CHOOSE i \in Rows : instrumentTable[i].key = k) = k
    BY <1>3
  <2> QED BY <1>1, <2>1, <2>2
<1>6. DOMAIN byId' = Rows /\ \A i \in Rows : SameInstrument(byId'[i], instrumentTable[i])
                                             /\ byId'[i].status = instrumentTable[i].status
  BY <1>1 DEF SameInstrument
<1>7. ASSUME NEW x \in DOMAIN byXid'
      PROVE  /\ byXid'[x].id \in Rows /\ byXid'[x].xid = x
             /\ SameInstrument(byXid'[x], instrumentTable[byXid'[x].id])
  BY <1>2 DEF SameInstrument
<1>8. DOMAIN byXid' = {instrumentTable[i].xid : i \in Rows}
  BY <1>2
<1> HIDE DEF Loaded
<1>9. AdminKnown' /\ RowsAreOne' /\ CurrentKnown'
  BY <1>1, <1>4 DEF InstrumentsInv, AdminKnown, RowsAreOne, CurrentKnown, SameInstrument
<1>10. RowIds' = Rows
  BY <1>1, <1>4 DEF RowIds, Saving
<1>11. KeysKnown' /\ RowsInMemory'
  BY <1>1, <1>4, <1>5, <1>6, <1>10 DEF InstrumentsInv, KeysKnown, RowsInMemory, RowsAreOne, SameInstrument
<1>12. XidsLead'
  <2>1. ASSUME NEW i \in Rows PROVE Leads(instrumentTable[i], i)'
    <3>1. instrumentTable[i].xid \in DOMAIN byXid'
      BY <1>8
    <3>2. ASSUME byXid'[instrumentTable[i].xid].exchange = instrumentTable[i].exchange
          PROVE  byXid'[instrumentTable[i].xid].id = i
      <4>1. PICK j \in Rows : j = byXid'[instrumentTable[i].xid].id
        BY <1>7, <3>1
      <4>2. SameInstrument(instrumentTable[i], instrumentTable[j])
        BY <1>7, <3>1, <3>2, <4>1 DEF SameInstrument
      <4> QED BY <4>1, <4>2 DEF InstrumentsInv, RowsAreOne
    <3> QED BY <1>1, <3>1, <3>2 DEF Leads
  <2>2. \A x \in DOMAIN byXid' : byXid'[x].id \in DOMAIN byId' /\ SameInstrument(byXid'[x], byId'[byXid'[x].id])
    BY <1>6, <1>7 DEF SameInstrument
  <2> QED BY <1>1, <1>4, <1>7, <2>1, <2>2 DEF XidsLead, SameInstrument, Leads
<1>13. StatusKnown'
  BY <1>1, <1>4, <1>6, <1>10 DEF StatusKnown
<1> QED BY <1>9, <1>11, <1>12, <1>13 DEF InstrumentsInv

--------------------------------------------------------------------------------
(* The steps of the registry *)

LEMMA ReturnFacts ==
  ASSUME InstrumentsInv, NEW t \in Admins, NEW outcome, Return(t, outcome)
  PROVE  /\ DOMAIN admin' = Admins
         /\ \A u \in Admins : DOMAIN admin'[u] = {"at", "exchange", "todo", "current", "saved"}
         /\ \A u \in Admins \ {t} : admin'[u] = admin[u]
         /\ admin'[t].at = outcome /\ DOMAIN admin'[t].saved = {}
<1>1. /\ DOMAIN admin = Admins
      /\ \A u \in Admins : DOMAIN admin[u] = {"at", "exchange", "todo", "current", "saved"}
  BY DEF InstrumentsInv, AdminKnown
<1> QED BY <1>1 DEF Return, Idle, NoMap

\* A request that creates an exchange does not touch the instruments.
LEMMA CreateKeepsInstruments ==
  ASSUME InstrumentsInv, NEW t \in Creates, DOMAIN admin' = Admins,
         \A u \in Admins : DOMAIN admin'[u] = {"at", "exchange", "todo", "current", "saved"},
         \A u \in Admins \ {t} : admin'[u] = admin[u],
         UNCHANGED <<instrumentTable, byId, byKey, byXid, started, issued>>, clean' => clean
  PROVE  InstrumentsInv'
<1>1. \A u \in Loads : admin'[u] = admin[u]
  BY RegistryAssumption DEF Admins
<1> QED BY <1>1, InstrumentsStay

\* A load returns without having committed: a failure, unless it has saved nothing.
LEMMA GiveUpKeepsInstruments ==
  ASSUME InstrumentsInv, NEW t \in Loads, NEW outcome \in {"failed", "refused"}, Return(t, outcome),
         UNCHANGED <<instrumentTable, byId, byKey, byXid, started, issued>>,
         clean' => clean /\ DOMAIN admin[t].saved = {}
  PROVE  InstrumentsInv'
<1>1. t \in Admins /\ \A u \in Loads : u \in Admins
  BY DEF Admins
<1> QED BY <1>1, ReturnFacts, InstrumentsStay

\* The rows of the table stay, whatever an administrator's request does.
LEMMA AdminInstruments ==
  ASSUME InstrumentsInv, AdminStep
  PROVE  InstrumentsInv' /\ DOMAIN instrumentTable \subseteq DOMAIN instrumentTable'
<1> USE DEF tables, memory
<1>0. /\ DOMAIN admin = Admins
      /\ \A u \in Admins : DOMAIN admin[u] = {"at", "exchange", "todo", "current", "saved"}
  BY DEF InstrumentsInv, AdminKnown
<1>1. ASSUME NEW t \in Creates, NEW c \in Codes, CreateSave(t, c)
      PROVE  InstrumentsInv' /\ DOMAIN instrumentTable \subseteq DOMAIN instrumentTable'
  <2>1. t \in Admins
    BY DEF Admins
  <2>2. CASE ~CodeTaken(c)
    <3>1. /\ DOMAIN admin' = Admins /\ \A u \in Admins \ {t} : admin'[u] = admin[u]
          /\ \A u \in Admins : DOMAIN admin'[u] = {"at", "exchange", "todo", "current", "saved"}
      BY <1>0, <1>1, <2>1, <2>2 DEF CreateSave
    <3> QED BY <1>1, <3>1, CreateKeepsInstruments DEF CreateSave
  <2>3. CASE CodeTaken(c)
    <3>1. Return(t, "failed")
      BY <1>1, <2>3 DEF CreateSave
    <3> QED BY <1>1, <2>1, <3>1, ReturnFacts, CreateKeepsInstruments DEF CreateSave
  <2> QED BY <2>2, <2>3
<1>2. ASSUME NEW t \in Creates, CreateSetup(t) \/ CreateCommit(t)
      PROVE  InstrumentsInv' /\ DOMAIN instrumentTable \subseteq DOMAIN instrumentTable'
  <2>1. /\ DOMAIN admin' = Admins /\ \A u \in Admins \ {t} : admin'[u] = admin[u]
        /\ \A u \in Admins : DOMAIN admin'[u] = {"at", "exchange", "todo", "current", "saved"}
    BY <1>0, <1>2 DEF CreateSetup, CreateCommit, Admins
  <2> QED BY <1>2, <2>1, CreateKeepsInstruments DEF CreateSetup, CreateCommit
<1>3. ASSUME NEW t \in Loads, NEW c \in Codes, LoadFetch(t, c)
      PROVE  InstrumentsInv' /\ DOMAIN instrumentTable \subseteq DOMAIN instrumentTable'
  <2>1. t \in Admins /\ started /\ DOMAIN admin[t].saved = {}
    BY <1>3 DEF LoadFetch, InstrumentsInv, AdminKnown, Admins
  <2>2. ASSUME NEW e \in exchangeTable, NEW f \in Listings,
               admin' = [admin EXCEPT ![t].at = "save", ![t].exchange = e, ![t].todo = f]
        PROVE  InstrumentsInv'
    <3>1. /\ DOMAIN admin' = Admins /\ \A u \in Admins \ {t} : admin'[u] = admin[u]
          /\ \A u \in Admins : DOMAIN admin'[u] = {"at", "exchange", "todo", "current", "saved"}
          /\ admin'[t].at = "save" /\ DOMAIN admin'[t].saved = {}
      BY <1>0, <2>1, <2>2
    <3>2. \A u \in Loads : u \in Admins
      BY DEF Admins
    <3> QED BY <1>3, <2>1, <3>1, <3>2, InstrumentsStay DEF LoadFetch
  <2>3. CASE Return(t, "refused")
    BY <1>3, <2>1, <2>3, GiveUpKeepsInstruments DEF LoadFetch
  <2> QED BY <1>3, <2>2, <2>3 DEF LoadFetch
<1>4. ASSUME NEW t \in Loads, NEW x \in Xids, LoadSave(t, x)
      PROVE  InstrumentsInv' /\ DOMAIN instrumentTable \subseteq DOMAIN instrumentTable'
  BY <1>4, SaveInstruments DEF LoadSave
<1>5. ASSUME NEW t \in Loads, LoadAdd(t)
      PROVE  InstrumentsInv' /\ DOMAIN instrumentTable \subseteq DOMAIN instrumentTable'
  BY <1>5, AddInstruments DEF LoadAdd
<1>6. ASSUME NEW t \in Loads, LoadCommit(t)
      PROVE  InstrumentsInv' /\ DOMAIN instrumentTable \subseteq DOMAIN instrumentTable'
  BY <1>6, CommitInstruments DEF LoadCommit
<1>7. ASSUME NEW t \in Loads, DeadlockVictim(t)
      PROVE  InstrumentsInv' /\ DOMAIN instrumentTable \subseteq DOMAIN instrumentTable'
  BY <1>7, GiveUpKeepsInstruments DEF DeadlockVictim, Fails
<1>8. ASSUME NEW t \in Admins, Failure(t)
      PROVE  InstrumentsInv' /\ DOMAIN instrumentTable \subseteq DOMAIN instrumentTable'
  <2>1. Return(t, "failed") /\ clean' = FALSE
    BY <1>8 DEF Failure, Fails
  <2>2. CASE t \in Loads
    BY <1>8, <2>1, <2>2, GiveUpKeepsInstruments DEF Failure
  <2>3. CASE t \in Creates
    BY <1>8, <2>1, <2>3, ReturnFacts, CreateKeepsInstruments DEF Failure
  <2> QED BY <2>2, <2>3 DEF Admins
<1>9. ASSUME NEW t \in Admins, LostCommitAnswer(t)
      PROVE  InstrumentsInv' /\ DOMAIN instrumentTable \subseteq DOMAIN instrumentTable'
  <2>1. Return(t, "failed") /\ UNCHANGED <<byId, byKey, byXid, started, issued, clean>>
    BY <1>9 DEF LostCommitAnswer
  <2>2. CASE t \in Loads
    <3>1. admin[t].at = "save" /\ instrumentTable' = WithSaved(t)
      BY <1>9, <2>2, RegistryAssumption DEF LostCommitAnswer, InTransaction
    <3> QED BY <2>1, <2>2, <3>1, CommitInstruments
  <2>3. CASE t \in Creates
    <3>1. UNCHANGED instrumentTable
      BY <1>9, <2>3, RegistryAssumption DEF LostCommitAnswer
    <3> QED BY <2>1, <2>3, <3>1, ReturnFacts, CreateKeepsInstruments
  <2> QED BY <2>2, <2>3 DEF Admins
<1>10. CASE LoadInstruments
  BY <1>10, StartInstruments DEF LoadInstruments
<1> QED BY <1>1, <1>2, <1>3, <1>4, <1>5, <1>6, <1>7, <1>8, <1>9, <1>10 DEF AdminStep

\* An order entry request leaves the registry as it is.
LEMMA EntryKeepsRegistry ==
  ASSUME NEW r \in Requests, EntryStep(r)
  PROVE  UNCHANGED <<exchangeTable, instrumentTable, holders, byId, byKey, byXid, started, admin, issued, clean>>
<1>1. \A a \in Accounts, x \in ExtIds \cup {r}, f \in Forms : Ask(r, a, x, f) => UnchangedRegistry
  BY DEF Ask
<1>2. Check(r) \/ Resolve(r) \/ SaveOrder(r) \/ CommitOrder(r) \/ Send(r) \/ OrderEnds(r) => UnchangedRegistry
  BY DEF Check, Resolve, SaveOrder, CommitOrder, Send, OrderEnds
<1>3. UnchangedRegistry \/ OrderReturns(r) \/ EntryFailure(r)
  BY <1>1, <1>2 DEF EntryStep
<1> QED BY <1>3 DEF UnchangedRegistry, OrderReturns, EntryFailure, registryVars, tables, memory

\* Every step keeps the invariant, and no step takes a row away.
LEMMA InstrumentsInductive ==
  InstrumentsInv /\ [Next]_vars => InstrumentsInv' /\ DOMAIN instrumentTable \subseteq DOMAIN instrumentTable'
<1> SUFFICES ASSUME InstrumentsInv, [Next]_vars
             PROVE  InstrumentsInv' /\ DOMAIN instrumentTable \subseteq DOMAIN instrumentTable'
  OBVIOUS
<1>1. CASE UNCHANGED <<instrumentTable, byId, byKey, byXid, started, admin, issued, clean>>
  <2>1. InstrumentsInv'
    BY <1>1, InstrumentsStay DEF InstrumentsInv, AdminKnown
  <2> QED BY <1>1, <2>1
<1>2. CASE Crash
  BY <1>2, RestartInstruments DEF Crash, Restart, tables
<1>3. UNCHANGED vars => UNCHANGED <<instrumentTable, byId, byKey, byXid, started, admin, issued, clean>>
  BY DEF vars, registryVars, tables, memory
<1> QED BY <1>1, <1>2, <1>3, AdminInstruments, EntryKeepsRegistry DEF Next

\* A key in memory goes on leading to the same row, until a restart.
LEMMA KeysStay ==
  ASSUME InstrumentsInv, [Next]_vars, started, started'
  PROVE  \A k \in DOMAIN byKey : k \in DOMAIN byKey' /\ byKey'[k] = byKey[k]
<1>1. ASSUME NEW t \in Loads, LoadAdd(t)
      PROVE  \A k \in DOMAIN byKey : k \in DOMAIN byKey' /\ byKey'[k] = byKey[k]
  <2>1. admin[t].current.key \notin DOMAIN byKey
    BY <1>1 DEF LoadAdd, InstrumentsInv, CurrentKnown
  <2> QED BY <1>1, <2>1 DEF LoadAdd, Put
<1>2. AdminStep => UNCHANGED byKey \/ \E t \in Loads : LoadAdd(t)
  BY DEF AdminStep, CreateSave, CreateSetup, CreateCommit, LoadFetch, LoadSave, LoadCommit,
         DeadlockVictim, Failure, LostCommitAnswer, LoadInstruments, memory
<1>3. ~Crash
  BY DEF Crash, Restart
<1>4. UNCHANGED vars => UNCHANGED byKey
  BY DEF vars, registryVars, memory
<1> QED BY <1>1, <1>2, <1>3, <1>4, EntryKeepsRegistry DEF Next

--------------------------------------------------------------------------------
(* The exchanges *)

LEMMA InitCodes == Init => CodesAreOne
BY RegistryAssumption DEF Init, RegistryInit, CodesAreOne, Creating, Idle, Admins

LEMMA CodesStay ==
  ASSUME CodesAreOne, UNCHANGED <<exchangeTable, holders>>, clean' => clean,
         \A u \in Creates : \/ admin'[u] = admin[u]
                            \/ ~Creating(u)' /\ (clean' => admin[u].at # "commit")
  PROVE  CodesAreOne'
<1>1. \A u \in Creates : Creating(u)' => admin'[u] = admin[u] /\ Creating(u)
  BY DEF Creating
<1>2. clean' => \A h \in holders :
        h \in exchangeTable \/ \E u \in Creates : admin'[u].at = "commit" /\ admin'[u].exchange = h
  BY DEF CodesAreOne
<1> QED BY <1>1, <1>2 DEF CodesAreOne, CodeTaken

\* The COMMIT of a new exchange.
LEMMA CommitCodes ==
  ASSUME InstrumentsInv, CodesAreOne, NEW t \in Creates, admin[t].at = "commit",
         exchangeTable' = exchangeTable \cup {admin[t].exchange}, holders' = holders, clean' = clean,
         \A u \in Creates \ {t} : admin'[u] = admin[u], ~Creating(t)'
  PROVE  CodesAreOne'
<1> DEFINE e == admin[t].exchange
<1>1. Creating(t) /\ ~CodeTaken(e.code)
  BY DEF Creating, CodesAreOne
<1>2. \A u \in Creates \ {t} : Creating(u) => admin[u].exchange.code # e.code
  BY <1>1 DEF CodesAreOne
<1>3. \A u \in Creates : Creating(u)' => u # t /\ admin'[u] = admin[u] /\ Creating(u)
  BY DEF Creating
<1>4. \A f, g \in exchangeTable' : f.code = g.code => f = g
  BY <1>1 DEF CodesAreOne, CodeTaken
<1>5. \A u \in Creates : Creating(u)' =>
        \A f \in exchangeTable' : f.code # admin'[u].exchange.code
  <2> SUFFICES ASSUME NEW u \in Creates, Creating(u)', NEW f \in exchangeTable'
               PROVE  f.code # admin'[u].exchange.code
    OBVIOUS
  <2>1. u # t /\ admin'[u] = admin[u] /\ Creating(u)
    BY <1>3
  <2>2. ~CodeTaken(admin[u].exchange.code)
    BY <2>1 DEF CodesAreOne
  <2> QED BY <1>2, <2>1, <2>2 DEF CodeTaken
<1>6. \A u, v \in Creates :
        Creating(u)' /\ Creating(v)' /\ admin'[u].exchange.code = admin'[v].exchange.code => u = v
  BY <1>3 DEF CodesAreOne
<1>7. clean' => \A h \in holders' :
        h \in exchangeTable' \/ \E u \in Creates : admin'[u].at = "commit" /\ admin'[u].exchange = h
  <2> SUFFICES ASSUME clean, NEW h \in holders, h \notin exchangeTable'
               PROVE  \E u \in Creates : admin'[u].at = "commit" /\ admin'[u].exchange = h
    OBVIOUS
  <2>1. PICK u \in Creates : admin[u].at = "commit" /\ admin[u].exchange = h
    BY DEF CodesAreOne
  <2> QED BY <2>1
<1>8. \A u \in Creates : Creating(u)' => ~CodeTaken(admin[u].exchange.code)'
  BY <1>5 DEF CodeTaken
<1> QED BY <1>4, <1>6, <1>7, <1>8 DEF CodesAreOne

LEMMA AdminCodes ==
  ASSUME InstrumentsInv, CodesAreOne, AdminStep
  PROVE  CodesAreOne'
<1> USE DEF tables, memory
<1>0. /\ DOMAIN admin = Admins
      /\ \A u \in Admins : DOMAIN admin[u] = {"at", "exchange", "todo", "current", "saved"}
      /\ Creates \subseteq Admins /\ Loads \subseteq Admins /\ Creates \cap Loads = {}
  BY RegistryAssumption DEF InstrumentsInv, AdminKnown, Admins
<1>1. ASSUME NEW t \in Creates, NEW c \in Codes, CreateSave(t, c), ~CodeTaken(c)
      PROVE  CodesAreOne'
  <2>1. /\ admin'[t].at = "setup" /\ admin'[t].exchange = [id |-> t, code |-> c]
        /\ \A u \in Admins \ {t} : admin'[u] = admin[u]
        /\ admin[t].at = "idle" /\ UNCHANGED <<exchangeTable, holders, clean>>
    BY <1>0, <1>1 DEF CreateSave, StepAfter
  <2>2. \A u \in Creates \ {t} : Creating(u) => admin[u].exchange.code # c
    BY <1>1 DEF CreateSave, InsertedCodes, Creating
  <2>3. \A u \in Creates \ {t} : admin'[u] = admin[u] /\ (Creating(u)' => Creating(u))
    BY <1>0, <2>1 DEF Creating
  <2>4. \A u \in Creates : Creating(u)' => ~CodeTaken(admin'[u].exchange.code)
    BY <1>1, <2>1, <2>3 DEF CodesAreOne
  <2>5. \A u, v \in Creates :
          Creating(u)' /\ Creating(v)' /\ admin'[u].exchange.code = admin'[v].exchange.code => u = v
    BY <2>1, <2>2, <2>3 DEF CodesAreOne
  <2>6. clean' => \A h \in holders :
          h \in exchangeTable \/ \E u \in Creates : admin'[u].at = "commit" /\ admin'[u].exchange = h
    BY <2>1, <2>3 DEF CodesAreOne
  <2> QED BY <2>1, <2>4, <2>5, <2>6 DEF CodesAreOne, CodeTaken
<1>2. ASSUME NEW t \in Creates, CreateSetup(t)
      PROVE  CodesAreOne'
  <2>1. /\ admin[t].at = "setup" /\ admin'[t].at = "commit" /\ admin'[t].exchange = admin[t].exchange
        /\ \A u \in Admins \ {t} : admin'[u] = admin[u]
        /\ holders' = holders \cup {admin[t].exchange}
        /\ UNCHANGED <<exchangeTable, clean>>
    BY <1>0, <1>2 DEF CreateSetup, StepAfter
  <2>2. \A u \in Creates : /\ Creating(u)' <=> Creating(u)
                           /\ admin'[u].exchange = admin[u].exchange
                           /\ admin[u].at = "commit" => admin'[u].at = "commit"
    BY <1>0, <2>1 DEF Creating
  <2>3. clean' => \A h \in holders' :
          h \in exchangeTable \/ \E u \in Creates : admin'[u].at = "commit" /\ admin'[u].exchange = h
    BY <2>1, <2>2 DEF CodesAreOne
  <2> QED BY <2>1, <2>2, <2>3 DEF CodesAreOne, CodeTaken
<1>3. ASSUME NEW t \in Creates, CreateCommit(t)
      PROVE  CodesAreOne'
  <2>1. /\ admin[t].at = "commit" /\ admin'[t].at = "done"
        /\ \A u \in Admins \ {t} : admin'[u] = admin[u]
        /\ exchangeTable' = exchangeTable \cup {admin[t].exchange}
        /\ UNCHANGED <<holders, clean>>
    BY <1>0, <1>3 DEF CreateCommit, StepAfter
  <2>2. ~Creating(t)'
    BY <2>1 DEF Creating
  <2> QED BY <1>0, <2>1, <2>2, CommitCodes
<1>4. ASSUME NEW t \in Loads, \A u \in Admins \ {t} : admin'[u] = admin[u],
             UNCHANGED <<exchangeTable, holders>>, clean' => clean
      PROVE  CodesAreOne'
  BY <1>0, <1>4, CodesStay
<1>5. ASSUME NEW t \in Admins, NEW outcome \in {"failed", "done", "refused"}, Return(t, outcome),
             UNCHANGED <<exchangeTable, holders>>, clean' => clean,
             t \in Creates => (clean' => admin[t].at # "commit")
      PROVE  CodesAreOne'
  <2>1. /\ \A u \in Admins \ {t} : admin'[u] = admin[u]
        /\ admin'[t].at = outcome
    BY <1>5, ReturnFacts
  <2>2. t \in Creates => ~Creating(t)'
    BY <2>1 DEF Creating
  <2> QED BY <1>0, <1>5, <2>1, <2>2, CodesStay
<1>6. ASSUME NEW t \in Creates, NEW c \in Codes, CreateSave(t, c), CodeTaken(c)
      PROVE  CodesAreOne'
  BY <1>0, <1>5, <1>6 DEF CreateSave
<1>7. ASSUME NEW t \in Loads, NEW c \in Codes, LoadFetch(t, c)
      PROVE  CodesAreOne'
  <2>1. CASE Return(t, "refused")
    BY <1>0, <1>5, <1>7, <2>1 DEF LoadFetch
  <2>2. ASSUME NEW e \in exchangeTable, NEW f \in Listings,
               admin' = [admin EXCEPT ![t].at = "save", ![t].exchange = e, ![t].todo = f]
        PROVE  CodesAreOne'
    <3>1. \A u \in Admins \ {t} : admin'[u] = admin[u]
      BY <1>0, <2>2
    <3> QED BY <1>4, <1>7, <3>1 DEF LoadFetch
  <2> QED BY <1>7, <2>1, <2>2 DEF LoadFetch
<1>8. ASSUME NEW t \in Loads, NEW x \in Xids, LoadSave(t, x)
      PROVE  CodesAreOne'
  <2>1. \A u \in Admins \ {t} : admin'[u] = admin[u]
    BY <1>0, <1>8 DEF LoadSave
  <2> QED BY <1>4, <1>8, <2>1 DEF LoadSave
<1>9. ASSUME NEW t \in Loads, LoadAdd(t)
      PROVE  CodesAreOne'
  <2>1. \A u \in Admins \ {t} : admin'[u] = admin[u]
    BY <1>0, <1>9 DEF LoadAdd
  <2> QED BY <1>4, <1>9, <2>1 DEF LoadAdd
<1>10. ASSUME NEW t \in Loads, LoadCommit(t) \/ DeadlockVictim(t)
       PROVE  CodesAreOne'
  BY <1>0, <1>5, <1>10 DEF LoadCommit, DeadlockVictim, Fails
<1>11. ASSUME NEW t \in Admins, Failure(t)
       PROVE  CodesAreOne'
  BY <1>5, <1>11 DEF Failure, Fails
<1>12. ASSUME NEW t \in Admins, LostCommitAnswer(t)
       PROVE  CodesAreOne'
  <2>1. CASE t \in Creates
    <3>1. /\ admin[t].at = "commit" /\ exchangeTable' = exchangeTable \cup {admin[t].exchange}
          /\ UNCHANGED <<holders, clean>> /\ Return(t, "failed")
      BY <1>0, <1>12, <2>1 DEF LostCommitAnswer, InTransaction
    <3>2. (\A u \in Admins \ {t} : admin'[u] = admin[u]) /\ ~Creating(t)'
      BY <3>1, ReturnFacts DEF Creating
    <3> QED BY <1>0, <2>1, <3>1, <3>2, CommitCodes
  <2>2. CASE t \in Loads
    BY <1>0, <1>5, <1>12, <2>2 DEF LostCommitAnswer
  <2> QED BY <2>1, <2>2 DEF Admins
<1>13. CASE LoadInstruments
  BY <1>13, CodesStay DEF LoadInstruments
<1> QED BY <1>1, <1>2, <1>3, <1>6, <1>7, <1>8, <1>9, <1>10, <1>11, <1>12, <1>13 DEF AdminStep

LEMMA CodesInductive == InstrumentsInv /\ CodesAreOne /\ [Next]_vars => CodesAreOne'
<1> SUFFICES ASSUME InstrumentsInv, CodesAreOne, [Next]_vars PROVE CodesAreOne' OBVIOUS
<1>1. CASE UNCHANGED <<exchangeTable, holders, admin, clean>>
  BY <1>1, CodesStay
<1>2. CASE Crash
  <2>1. /\ holders' = exchangeTable /\ exchangeTable' = exchangeTable
        /\ \A u \in Creates : ~(admin'[u].at \in {"setup", "commit"})
    BY <1>2 DEF Crash, Restart, tables, Idle, Admins
  <2> QED BY <2>1 DEF CodesAreOne, Creating, CodeTaken
<1>3. UNCHANGED vars => UNCHANGED <<exchangeTable, holders, admin, clean>>
  BY DEF vars, registryVars, tables, memory
<1> QED BY <1>1, <1>2, <1>3, AdminCodes, EntryKeepsRegistry DEF Next

--------------------------------------------------------------------------------
(* What the orders are checked against *)

RatiosKnown(g) == \A n \in DOMAIN g : g[n].ratio \in Int

\* The legs of an order in the tables are rows of the table instrument.
LegsKnown ==
  /\ DOMAIN legs = Requests
  /\ \A r \in Requests : pc[r] \in {"check", "resolve"} => started /\ RatiosKnown(form[r].legs)
  /\ \A r \in Requests : pc[r] \in {"save", "commit"} \/ orders[r].number > 0 => RatiosKnown(legs[r])
  /\ \A r \in Requests : pc[r] = "commit" \/ orders[r].number > 0 =>
       \A n \in DOMAIN legs[r] : legs[r][n].id \in DOMAIN instrumentTable

\* An order like o, with legs g, would trade with order r.
Meets(g, o, r) ==
  \E n \in DOMAIN g, m \in DOMAIN legs[r] :
    /\ g[n].id = legs[r][m].id
    /\ PricesCross(o.quantity * g[n].ratio, o.price,
                   orders[r].quantity * legs[r][m].ratio, orders[r].price)

\* The orders that are viable and have not come back since request s was checked.
Standing(s) == {r \in viable : <<r, s>> \notin returned}

\* Those of an account that were there when seen was the last.
SeenBy(s, a, seen) == {r \in Standing(s) : orders[r].account = a /\ orders[r].number <= seen}

\* An order that has been checked would not trade with one of those, which are
\* fewer and fewer.
ChecksHold ==
  /\ \A r \in viable : orders[r].number > 0
  /\ \A s \in Requests : pc[s] = "resolve" =>
       /\ Known(form[s])
       /\ draft[s].seen <= lastNumber[form[s].account]
       /\ \A r \in SeenBy(s, form[s].account, draft[s].seen) : ~Crosses(form[s], r)
  /\ \A s \in Requests : pc[s] \in {"save", "commit"} =>
       /\ draft[s].seen <= lastNumber[draft[s].account]
       /\ \A r \in SeenBy(s, draft[s].account, draft[s].seen) : ~Meets(legs[s], draft[s], r)
  /\ \A s \in Requests : orders[s].number > 0 =>
       /\ orders[s].seen <= lastNumber[orders[s].account]
       /\ \A r \in SeenBy(s, orders[s].account, orders[s].seen) : ~Meets(legs[s], orders[s], r)

LEMMA InitChecks == Init => LegsKnown /\ ChecksHold
<1> SUFFICES ASSUME Init PROVE LegsKnown /\ ChecksHold OBVIOUS
<1>1. /\ \A r \in Requests : pc[r] \in {"idle", "done"} /\ orders[r].number = 0
      /\ viable = {}
  BY DEF Init, EntryInit, NoOrder
<1>2. DOMAIN legs = Requests
  BY DEF Init, EntryInit
<1> QED BY <1>1, <1>2 DEF LegsKnown, ChecksHold

--------------------------------------------------------------------------------

\* Requests go on, or are lost; orders end; what has been checked stays as it is.
LEMMA ChecksStay ==
  ASSUME LegsKnown, ChecksHold, UNCHANGED <<orders, legs, lastNumber>>,
         \A r \in viable' : orders[r].number > 0,
         \A s \in Requests : pc'[s] \in {"resolve", "save", "commit"} \/ orders[s].number > 0 =>
           \A r \in viable' : <<r, s>> \notin returned' => r \in viable /\ <<r, s>> \notin returned,
         DOMAIN instrumentTable \subseteq DOMAIN instrumentTable',
         \A s \in Requests : pc'[s] \in {"check", "resolve"} => started' /\ RatiosKnown(form'[s].legs),
         \A s \in Requests : pc'[s] = "resolve" =>
           /\ pc[s] = "resolve" /\ form'[s] = form[s] /\ draft'[s].seen = draft[s].seen
           /\ \A k \in DOMAIN byKey : k \in DOMAIN byKey' /\ byKey'[k] = byKey[k],
         \A s \in Requests : pc'[s] \in {"save", "commit"} =>
           /\ pc[s] \in {"save", "commit"}
           /\ draft'[s].account = draft[s].account /\ draft'[s].seen = draft[s].seen
           /\ draft'[s].quantity = draft[s].quantity /\ draft'[s].price = draft[s].price,
         \A s \in Requests : pc'[s] = "commit" =>
           pc[s] = "commit" \/ \A n \in DOMAIN legs[s] : legs[s][n].id \in DOMAIN instrumentTable
  PROVE  LegsKnown' /\ ChecksHold'
<1>1. LegsKnown'
  BY DEF LegsKnown, RatiosKnown
<1>3. ASSUME NEW s \in Requests, pc'[s] = "resolve"
      PROVE  /\ Known(form[s])'
             /\ draft'[s].seen <= lastNumber'[form'[s].account]
             /\ \A r \in SeenBy(s, form[s].account, draft[s].seen)' : ~Crosses(form[s], r)'
  <2>1. /\ pc[s] = "resolve" /\ form'[s] = form[s] /\ draft'[s].seen = draft[s].seen
        /\ \A k \in DOMAIN byKey : k \in DOMAIN byKey' /\ byKey'[k] = byKey[k]
    BY <1>3
  <2>2. /\ Known(form[s]) /\ draft[s].seen <= lastNumber[form[s].account]
        /\ \A r \in SeenBy(s, form[s].account, draft[s].seen) : ~Crosses(form[s], r)
    BY <2>1 DEF ChecksHold
  <2>3. \A n \in DOMAIN form[s].legs :
          form[s].legs[n].key \in DOMAIN byKey' /\ byKey'[form[s].legs[n].key] = byKey[form[s].legs[n].key]
    BY <2>1, <2>2 DEF Known
  <2>4. Known(form[s])'
    BY <2>1, <2>3 DEF Known
  <2>5. EntityLegs(form[s])' = EntityLegs(form[s])
    BY <2>1, <2>3 DEF EntityLegs
  <2>6. \A r : Crosses(form[s], r)' <=> Crosses(form[s], r)
    BY <2>1, <2>5 DEF Crosses
  <2>7. SeenBy(s, form[s].account, draft[s].seen)' \subseteq SeenBy(s, form[s].account, draft[s].seen)
    BY <1>3, <2>1 DEF SeenBy, Standing
  <2> QED BY <2>1, <2>2, <2>4, <2>6, <2>7
<1>4. ASSUME NEW s \in Requests, pc'[s] \in {"save", "commit"}
      PROVE  /\ draft'[s].seen <= lastNumber'[draft'[s].account]
             /\ \A r \in SeenBy(s, draft[s].account, draft[s].seen)' : ~Meets(legs[s], draft[s], r)'
  <2>1. /\ pc[s] \in {"save", "commit"}
        /\ draft'[s].account = draft[s].account /\ draft'[s].seen = draft[s].seen
        /\ draft'[s].quantity = draft[s].quantity /\ draft'[s].price = draft[s].price
    BY <1>4
  <2>2. /\ draft[s].seen <= lastNumber[draft[s].account]
        /\ \A r \in SeenBy(s, draft[s].account, draft[s].seen) : ~Meets(legs[s], draft[s], r)
    BY <2>1 DEF ChecksHold
  <2>3. \A r : Meets(legs[s], draft[s], r)' <=> Meets(legs[s], draft[s], r)
    BY <2>1 DEF Meets
  <2>4. SeenBy(s, draft[s].account, draft[s].seen)' \subseteq SeenBy(s, draft[s].account, draft[s].seen)
    BY <1>4, <2>1 DEF SeenBy, Standing
  <2> QED BY <2>1, <2>2, <2>3, <2>4
<1>5. ASSUME NEW s \in Requests, orders[s].number > 0
      PROVE  /\ orders'[s].seen <= lastNumber'[orders'[s].account]
             /\ \A r \in SeenBy(s, orders[s].account, orders[s].seen)' : ~Meets(legs[s], orders[s], r)'
  <2>1. /\ orders[s].seen <= lastNumber[orders[s].account]
        /\ \A r \in SeenBy(s, orders[s].account, orders[s].seen) : ~Meets(legs[s], orders[s], r)
    BY <1>5 DEF ChecksHold
  <2>2. \A r : Meets(legs[s], orders[s], r)' <=> Meets(legs[s], orders[s], r)
    BY DEF Meets
  <2>3. SeenBy(s, orders[s].account, orders[s].seen)' \subseteq SeenBy(s, orders[s].account, orders[s].seen)
    BY <1>5 DEF SeenBy, Standing
  <2> QED BY <2>1, <2>2, <2>3
<1>6. \A r \in viable' : orders'[r].number > 0
  OBVIOUS
<1>7. ChecksHold'
  BY <1>3, <1>4, <1>5, <1>6 DEF ChecksHold
<1> QED BY <1>1, <1>7

\* A restart loses the requests, an administrator's request leaves them alone.
LEMMA RegistryKeepsChecks ==
  ASSUME InstrumentsInv, BookInv, LegsKnown, ChecksHold, [Next]_vars,
         Crash \/ UNCHANGED entryVars
  PROVE  LegsKnown' /\ ChecksHold'
<1>1. DOMAIN instrumentTable \subseteq DOMAIN instrumentTable' /\ \A r \in viable : orders[r].number > 0
  BY InstrumentsInductive DEF ChecksHold
<1>2. CASE Crash
  <2>1. \A s \in Requests : pc'[s] \in {"idle", "done"}
    BY <1>2 DEF Crash
  <2> QED BY <1>1, <1>2, <2>1, ChecksStay DEF Crash, memVars
<1>3. CASE UNCHANGED entryVars
  <2>1. UNCHANGED <<orders, legs, lastNumber, viable, returned, pc, form, draft>>
    BY <1>3 DEF entryVars, bookVars, memVars
  <2>2. CASE \A s \in Requests : pc[s] \notin {"check", "resolve"}
    BY <1>1, <2>1, <2>2, ChecksStay
  <2>3. CASE \E s \in Requests : pc[s] \in {"check", "resolve"}
    <3>1. started
      BY <2>3 DEF LegsKnown
    <3>2. started'
      <4>1. ~Crash
        <5>1. PICK s \in Requests : pc[s] \in {"check", "resolve"}
          BY <2>3
        <5>2. Crash => pc'[s] = "done"
          BY <5>1 DEF Crash
        <5> QED BY <2>1, <5>1, <5>2
      <4>2. AdminStep => started'
        BY <3>1 DEF AdminStep, CreateSave, CreateSetup, CreateCommit, LoadFetch, LoadSave, LoadAdd, LoadCommit,
           DeadlockVictim, Failure, LostCommitAnswer, LoadInstruments
      <4>3. UNCHANGED vars => started'
        BY <3>1 DEF vars, registryVars
      <4> QED BY <3>1, <4>1, <4>2, <4>3, EntryKeepsRegistry DEF Next
    <3>3. \A k \in DOMAIN byKey : k \in DOMAIN byKey' /\ byKey'[k] = byKey[k]
      BY <3>1, <3>2, KeysStay
    <3>4. \A s \in Requests : pc[s] \in {"check", "resolve"} => RatiosKnown(form[s].legs)
      BY DEF LegsKnown
    <3> QED BY <1>1, <2>1, <3>2, <3>3, <3>4, ChecksStay
  <2> QED BY <2>2, <2>3
<1> QED BY <1>2, <1>3

\* The check: every viable order of the account is one it sees.
LEMMA CheckKeepsChecks ==
  ASSUME BookInv, LegsKnown, ChecksHold, NEW r \in Requests, Check(r), Passes(form[r])
  PROVE  LegsKnown' /\ ChecksHold'
<1> DEFINE a == form[r].account
<1>1. /\ pc[r] = "check" /\ pc' = [pc EXCEPT ![r] = "resolve"]
      /\ draft' = [draft EXCEPT ![r].seen = lastNumber[a]]
      /\ UNCHANGED <<orders, viable, returned, lastNumber, form, legs, instrumentTable, byKey, started>>
  BY DEF Check, bookVars, UnchangedRegistry, registryVars, tables, memory
<1>2. /\ a \in Accounts /\ lastNumber[a] \in Nat
      /\ r \in DOMAIN pc /\ draft \in [Requests -> OrderRow]
  BY <1>1 DEF BookInv, TypeOK, FormKnown
<1>3. /\ pc'[r] = "resolve" /\ \A s \in Requests \ {r} : pc'[s] = pc[s]
      /\ draft'[r].seen = lastNumber[a] /\ \A s \in Requests \ {r} : draft'[s] = draft[s]
  BY <1>1, <1>2 DEF OrderRow
<1>4. SeenBy(r, a, lastNumber[a]) \subseteq ViableOrdersOf(a)
  BY DEF SeenBy, Standing, ViableOrdersOf, Saved, ChecksHold, BookInv, TypeOK
<1>5. /\ Known(form[r])
      /\ \A s \in SeenBy(r, a, lastNumber[a]) : ~Crosses(form[r], s)
  BY <1>4 DEF Passes
<1>6. LegsKnown'
  BY <1>1, <1>3 DEF LegsKnown, RatiosKnown
<1>8. \A s : /\ Crosses(form[s], r)' <=> Crosses(form[s], r)
             /\ Known(form[s])' <=> Known(form[s])
  BY <1>1 DEF Crosses, EntityLegs, Known
<1>9. ASSUME NEW s \in Requests, pc'[s] = "resolve"
      PROVE  /\ Known(form[s])'
             /\ draft'[s].seen <= lastNumber'[form'[s].account]
             /\ \A q \in SeenBy(s, form[s].account, draft[s].seen)' : ~Crosses(form[s], q)'
  <2>1. CASE s = r
    <3>1. SeenBy(s, form[s].account, draft[s].seen)' = SeenBy(r, a, lastNumber[a])
      BY <1>1, <1>3, <2>1 DEF SeenBy, Standing
    <3>2. \A q : Crosses(form[s], q)' <=> Crosses(form[s], q)
      BY <1>1 DEF Crosses, EntityLegs
    <3> QED BY <1>1, <1>2, <1>3, <1>5, <1>8, <2>1, <3>1, <3>2
  <2>2. CASE s # r
    <3>1. pc[s] = "resolve" /\ draft'[s] = draft[s]
      BY <1>3, <1>9, <2>2
    <3>2. /\ Known(form[s]) /\ draft[s].seen <= lastNumber[form[s].account]
          /\ \A q \in SeenBy(s, form[s].account, draft[s].seen) : ~Crosses(form[s], q)
      BY <3>1 DEF ChecksHold
    <3>3. SeenBy(s, form[s].account, draft[s].seen)' = SeenBy(s, form[s].account, draft[s].seen)
      BY <1>1, <3>1 DEF SeenBy, Standing
    <3>4. \A q : Crosses(form[s], q)' <=> Crosses(form[s], q)
      BY <1>1 DEF Crosses, EntityLegs
    <3> QED BY <1>1, <1>8, <3>1, <3>2, <3>3, <3>4
  <2> QED BY <2>1, <2>2
<1>10. ASSUME NEW s \in Requests, pc'[s] \in {"save", "commit"}
       PROVE  /\ draft'[s].seen <= lastNumber'[draft'[s].account]
              /\ \A q \in SeenBy(s, draft[s].account, draft[s].seen)' : ~Meets(legs[s], draft[s], q)'
  <2>1. pc[s] \in {"save", "commit"} /\ draft'[s] = draft[s]
    BY <1>3, <1>10
  <2> QED BY <1>1, <2>1 DEF ChecksHold, SeenBy, Standing, Meets
<1>11. (\A q \in viable : orders[q].number > 0)'
  BY <1>1 DEF ChecksHold
<1>12. (\A s \in Requests : orders[s].number > 0 =>
          /\ orders[s].seen <= lastNumber[orders[s].account]
          /\ \A q \in SeenBy(s, orders[s].account, orders[s].seen) : ~Meets(legs[s], orders[s], q))'
  BY <1>1 DEF ChecksHold, SeenBy, Standing, Meets
<1>13. ChecksHold'
  BY <1>9, <1>10, <1>11, <1>12 DEF ChecksHold
<1> QED BY <1>6, <1>13

\* The order gets the legs it was checked with.
LEMMA ResolveKeepsChecks ==
  ASSUME BookInv, LegsKnown, ChecksHold, NEW r \in Requests, Resolve(r), form[r].legs # <<>>
  PROVE  LegsKnown' /\ ChecksHold'
<1> DEFINE f == form[r]
<1>1. /\ pc[r] = "resolve" /\ pc' = [pc EXCEPT ![r] = "save"]
      /\ legs' = [legs EXCEPT ![r] = EntityLegs(f)]
      /\ UNCHANGED <<orders, viable, returned, lastNumber, form, instrumentTable, byKey, started>>
  BY DEF Resolve, bookVars, UnchangedRegistry, registryVars, tables, memory
<1>2. /\ DOMAIN draft' = Requests
      /\ draft'[r].account = f.account /\ draft'[r].seen = draft[r].seen
      /\ draft'[r].quantity = f.quantity /\ draft'[r].price = f.price
      /\ \A s \in Requests \ {r} : draft'[s] = draft[s]
  BY DEF Resolve, BookInv, TypeOK
<1>3. pc'[r] = "save" /\ \A s \in Requests \ {r} : pc'[s] = pc[s]
  BY <1>1 DEF BookInv, TypeOK
<1>4. orders[r].number = 0
  BY <1>1, NotSent DEF Unsaved
<1>5. r \notin viable
  BY <1>4 DEF ChecksHold
<1>6. /\ Known(f) /\ draft[r].seen <= lastNumber[f.account] /\ RatiosKnown(f.legs)
      /\ \A s \in SeenBy(r, f.account, draft[r].seen) : ~Crosses(f, s)
  BY <1>1 DEF ChecksHold, LegsKnown
<1>7. \A s, b, n : SeenBy(s, b, n) \subseteq viable
  BY DEF SeenBy, Standing
<1>8. /\ DOMAIN legs' = Requests /\ legs'[r] = EntityLegs(f)
      /\ \A s \in Requests \ {r} : legs'[s] = legs[s]
  BY <1>1 DEF LegsKnown
<1>9. EntityLegs(f) = [n \in DOMAIN f.legs |-> [id |-> byKey[f.legs[n].key].id, ratio |-> f.legs[n].ratio]]
  BY DEF EntityLegs
<1> HIDE DEF f
<1>10. RatiosKnown(EntityLegs(f))
  BY <1>6, <1>9 DEF RatiosKnown
<1>11. LegsKnown'
  BY <1>1, <1>3, <1>4, <1>8, <1>10 DEF LegsKnown, RatiosKnown
<1>12. \A s \in viable : s \in Requests \ {r} /\ legs'[s] = legs[s]
  BY <1>5, <1>8 DEF BookInv, TypeOK
<1>13. ASSUME NEW s \in SeenBy(r, f.account, draft[r].seen)
       PROVE  ~\E n \in DOMAIN EntityLegs(f), m \in DOMAIN legs[s] :
                /\ EntityLegs(f)[n].id = legs[s][m].id
                /\ PricesCross(f.quantity * EntityLegs(f)[n].ratio, f.price,
                               orders[s].quantity * legs[s][m].ratio, orders[s].price)
  <2>1. ~Crosses(f, s)
    BY <1>6
  <2>2. DOMAIN EntityLegs(f) = DOMAIN f.legs /\ \A n \in DOMAIN f.legs : EntityLegs(f)[n].ratio = f.legs[n].ratio
    BY <1>9
  <2> QED BY <2>1, <2>2 DEF Crosses
<1>14. ASSUME NEW s \in Requests, pc'[s] = "resolve"
       PROVE  /\ Known(form[s])'
              /\ draft'[s].seen <= lastNumber'[form'[s].account]
              /\ \A q \in SeenBy(s, form[s].account, draft[s].seen)' : ~Crosses(form[s], q)'
  <2>1. s # r /\ pc[s] = "resolve" /\ draft'[s] = draft[s]
    BY <1>2, <1>3, <1>14
  <2>2. /\ Known(form[s]) /\ draft[s].seen <= lastNumber[form[s].account]
        /\ \A q \in SeenBy(s, form[s].account, draft[s].seen) : ~Crosses(form[s], q)
    BY <2>1 DEF ChecksHold
  <2>3. SeenBy(s, form[s].account, draft[s].seen)' = SeenBy(s, form[s].account, draft[s].seen)
    BY <1>1, <2>1 DEF SeenBy, Standing
  <2>4. \A q \in viable : Crosses(form[s], q)' <=> Crosses(form[s], q)
    <3>1. EntityLegs(form[s])' = EntityLegs(form[s])
      BY <1>1 DEF EntityLegs
    <3> QED BY <1>1, <1>12, <3>1 DEF Crosses
  <2>5. Known(form[s])'
    BY <1>1, <2>2 DEF Known
  <2> QED BY <1>1, <1>7, <2>1, <2>2, <2>3, <2>4, <2>5
<1>15. ASSUME NEW s \in Requests, pc'[s] \in {"save", "commit"}
       PROVE  /\ draft'[s].seen <= lastNumber'[draft'[s].account]
              /\ \A q \in SeenBy(s, draft[s].account, draft[s].seen)' : ~Meets(legs[s], draft[s], q)'
  <2>1. CASE s = r
    <3>1. SeenBy(s, draft[s].account, draft[s].seen)' = SeenBy(r, f.account, draft[r].seen)
      BY <1>1, <1>2, <2>1 DEF SeenBy, Standing
    <3>2. \A q \in SeenBy(r, f.account, draft[r].seen) : ~Meets(legs[r], draft[r], q)'
      BY <1>1, <1>2, <1>7, <1>8, <1>12, <1>13 DEF Meets
    <3> QED BY <1>1, <1>2, <1>6, <2>1, <3>1, <3>2
  <2>2. CASE s # r
    <3>1. pc[s] \in {"save", "commit"} /\ draft'[s] = draft[s] /\ legs'[s] = legs[s]
      BY <1>2, <1>3, <1>8, <1>15, <2>2
    <3>2. \A q \in viable : Meets(legs[s], draft[s], q)' <=> Meets(legs[s], draft[s], q)
      BY <1>1, <1>12, <3>1 DEF Meets
    <3>3. SeenBy(s, draft[s].account, draft[s].seen)' = SeenBy(s, draft[s].account, draft[s].seen)
      BY <1>1, <3>1 DEF SeenBy, Standing
    <3>4. /\ draft[s].seen <= lastNumber[draft[s].account]
          /\ \A q \in SeenBy(s, draft[s].account, draft[s].seen) : ~Meets(legs[s], draft[s], q)
      BY <3>1 DEF ChecksHold
    <3>5. \A q \in SeenBy(s, draft[s].account, draft[s].seen)' : ~Meets(legs[s], draft[s], q)'
      BY <1>7, <3>2, <3>3, <3>4
    <3> QED BY <1>1, <3>1, <3>4, <3>5
  <2> QED BY <2>1, <2>2
<1>16. ASSUME NEW s \in Requests, orders'[s].number > 0
       PROVE  /\ orders'[s].seen <= lastNumber'[orders'[s].account]
              /\ \A q \in SeenBy(s, orders[s].account, orders[s].seen)' : ~Meets(legs[s], orders[s], q)'
  <2>1. s # r /\ legs'[s] = legs[s] /\ orders[s].number > 0
    BY <1>1, <1>4, <1>8, <1>16
  <2>2. \A q \in viable : Meets(legs[s], orders[s], q)' <=> Meets(legs[s], orders[s], q)
    BY <1>1, <1>12, <2>1 DEF Meets
  <2>3. SeenBy(s, orders[s].account, orders[s].seen)' = SeenBy(s, orders[s].account, orders[s].seen)
    BY <1>1 DEF SeenBy, Standing
  <2>4. /\ orders[s].seen <= lastNumber[orders[s].account]
        /\ \A q \in SeenBy(s, orders[s].account, orders[s].seen) : ~Meets(legs[s], orders[s], q)
    BY <2>1 DEF ChecksHold
  <2>5. \A q \in SeenBy(s, orders[s].account, orders[s].seen)' : ~Meets(legs[s], orders[s], q)'
    BY <1>7, <2>2, <2>3, <2>4
  <2> QED BY <1>1, <2>4, <2>5
<1>17. \A q \in viable' : orders'[q].number > 0
  BY <1>1 DEF ChecksHold
<1>18. ChecksHold'
  BY <1>14, <1>15, <1>16, <1>17 DEF ChecksHold
<1> QED BY <1>11, <1>18

\* The commit gives the order a number that no check so far has seen.
LEMMA CommitKeepsChecks ==
  ASSUME BookInv, LegsKnown, ChecksHold, NEW r \in Requests, pc[r] = "commit",
         NEW at \in {"send", "done"}, Commits(r, at),
         DOMAIN instrumentTable \subseteq DOMAIN instrumentTable', byKey' = byKey, started' = started
  PROVE  LegsKnown' /\ ChecksHold'
<1> DEFINE a == draft[r].account
<1>1. /\ orders' = [orders EXCEPT ![r] = draft[r]]
      /\ viable' \subseteq viable \cup {r}
      /\ lastNumber' = [lastNumber EXCEPT ![a] = draft[r].number]
      /\ pc' = [pc EXCEPT ![r] = at]
      /\ UNCHANGED <<returned, form, draft, legs>>
  BY DEF Commits, memVars
<1>2. /\ a \in Accounts /\ draft[r].number = lastNumber[a] + 1
      /\ orders[r].number = 0
  BY CommitsBook
<1>3. /\ lastNumber \in [Accounts -> Nat] /\ orders \in [Requests -> OrderRow]
      /\ draft \in [Requests -> OrderRow] /\ viable \subseteq Requests /\ r \in DOMAIN pc
  BY DEF BookInv, TypeOK
<1>4. /\ draft[r].number \in Nat /\ draft[r].number > 0 /\ lastNumber[a] \in Nat
      /\ \A s \in Requests : draft[s].seen \in Nat /\ orders[s].seen \in Nat
  BY <1>2, <1>3 DEF OrderRow
<1>5. /\ orders'[r] = draft[r] /\ \A s \in Requests \ {r} : orders'[s] = orders[s]
      /\ pc'[r] = at /\ \A s \in Requests \ {r} : pc'[s] = pc[s]
      /\ lastNumber'[a] = lastNumber[a] + 1
      /\ \A b \in Accounts \ {a} : lastNumber'[b] = lastNumber[b]
      /\ \A b \in Accounts : lastNumber[b] <= lastNumber'[b] /\ lastNumber[b] \in Nat /\ lastNumber'[b] \in Nat
  BY <1>1, <1>2, <1>3, <1>4
<1> HIDE DEF a
<1>6. r \notin viable
  BY <1>2 DEF ChecksHold
<1>7. LegsKnown'
  BY <1>1, <1>5 DEF LegsKnown, RatiosKnown
<1>8. ASSUME NEW s, NEW b \in Accounts, NEW n \in Nat, n <= lastNumber[b]
      PROVE  {q \in viable' : <<q, s>> \notin returned /\ orders'[q].account = b /\ orders'[q].number <= n}
               \subseteq SeenBy(s, b, n) \ {r}
  <2> SUFFICES ASSUME NEW q \in viable', <<q, s>> \notin returned,
                      orders'[q].account = b, orders'[q].number <= n
               PROVE  q \in SeenBy(s, b, n) \ {r}
    OBVIOUS
  <2>1. q # r
    <3> SUFFICES ASSUME q = r PROVE FALSE OBVIOUS
    <3>1. b = a /\ draft[r].number <= n
      BY <1>5 DEF a
    <3> QED BY <1>2, <1>4, <1>8, <3>1
  <2>2. q \in viable /\ orders'[q] = orders[q]
    BY <1>1, <1>3, <1>5, <2>1
  <2> QED BY <2>1, <2>2 DEF SeenBy, Standing
<1>9. ASSUME NEW s \in Requests, pc'[s] = "resolve"
      PROVE  /\ Known(form[s])'
             /\ draft'[s].seen <= lastNumber'[form'[s].account]
             /\ \A q \in SeenBy(s, form[s].account, draft[s].seen)' : ~Crosses(form[s], q)'
  <2>1. s # r /\ pc[s] = "resolve" /\ form[s].account \in Accounts
    BY <1>5, <1>9 DEF BookInv, FormKnown
  <2>2. /\ Known(form[s]) /\ draft[s].seen <= lastNumber[form[s].account]
        /\ \A q \in SeenBy(s, form[s].account, draft[s].seen) : ~Crosses(form[s], q)
    BY <2>1 DEF ChecksHold
  <2>3. SeenBy(s, form[s].account, draft[s].seen)' \subseteq SeenBy(s, form[s].account, draft[s].seen) \ {r}
    BY <1>1, <1>4, <1>8, <2>1, <2>2 DEF SeenBy, Standing
  <2>4. \A q \in viable \ {r} : Crosses(form[s], q)' <=> Crosses(form[s], q)
    BY <1>1, <1>3, <1>5 DEF Crosses, EntityLegs
  <2>5. Known(form[s])'
    BY <1>1, <2>2 DEF Known
  <2>6. draft[s].seen <= lastNumber'[form[s].account]
    BY <1>4, <1>5, <2>1, <2>2
  <2>7. SeenBy(s, form[s].account, draft[s].seen) \subseteq viable
    BY DEF SeenBy, Standing
  <2> QED BY <1>1, <2>2, <2>3, <2>4, <2>5, <2>6, <2>7
<1>10. ASSUME NEW s \in Requests, NEW o \in OrderRow, o.account \in Accounts,
              o.seen <= lastNumber[o.account],
              \A q \in SeenBy(s, o.account, o.seen) : ~Meets(legs[s], o, q)
       PROVE  /\ o.seen <= lastNumber'[o.account]
              /\ \A q \in {q \in viable' : /\ <<q, s>> \notin returned
                                       /\ orders'[q].account = o.account /\ orders'[q].number <= o.seen} :
                   ~\E n \in DOMAIN legs[s], m \in DOMAIN legs[q] :
                     /\ legs[s][n].id = legs[q][m].id
                     /\ PricesCross(o.quantity * legs[s][n].ratio, o.price,
                                    orders'[q].quantity * legs[q][m].ratio, orders'[q].price)
  <2>1. o.seen \in Nat
    BY DEF OrderRow
  <2>2. o.seen <= lastNumber'[o.account]
    BY <1>5, <1>10, <2>1
  <2>3. \A q \in {q \in viable' : /\ <<q, s>> \notin returned
                                       /\ orders'[q].account = o.account /\ orders'[q].number <= o.seen} :
          q \in SeenBy(s, o.account, o.seen) /\ q # r /\ q \in Requests
    BY <1>3, <1>8, <1>10, <2>1 DEF SeenBy, Standing
  <2>4. \A q \in Requests \ {r} : orders'[q] = orders[q]
    BY <1>5
  <2> QED BY <1>10, <2>2, <2>3, <2>4 DEF Meets
<1>11. ASSUME NEW s \in Requests, pc'[s] \in {"save", "commit"}
       PROVE  /\ draft'[s].seen <= lastNumber'[draft'[s].account]
              /\ \A q \in SeenBy(s, draft[s].account, draft[s].seen)' : ~Meets(legs[s], draft[s], q)'
  <2>1. /\ pc[s] \in {"save", "commit"} /\ draft[s].account \in Accounts
        /\ draft[s] \in OrderRow
    BY <1>3, <1>5, <1>11 DEF BookInv, DraftKnown
  <2>2. /\ draft[s].seen <= lastNumber[draft[s].account]
        /\ \A q \in SeenBy(s, draft[s].account, draft[s].seen) : ~Meets(legs[s], draft[s], q)
    BY <2>1 DEF ChecksHold
  <2> QED BY <1>1, <1>10, <2>1, <2>2 DEF SeenBy, Standing, Meets
<1>12. ASSUME NEW s \in Requests, orders'[s].number > 0
       PROVE  /\ orders'[s].seen <= lastNumber'[orders'[s].account]
              /\ \A q \in SeenBy(s, orders[s].account, orders[s].seen)' : ~Meets(legs[s], orders[s], q)'
  <2>1. CASE s = r
    <3>1. /\ draft[r].seen <= lastNumber[a]
          /\ \A q \in SeenBy(r, a, draft[r].seen) : ~Meets(legs[r], draft[r], q)
      BY DEF ChecksHold, a
    <3>2. draft[r] \in OrderRow
      BY <1>3
    <3> QED BY <1>1, <1>2, <1>5, <1>10, <2>1, <3>1, <3>2 DEF SeenBy, Standing, Meets, a
  <2>2. CASE s # r
    <3>1. orders'[s] = orders[s] /\ orders[s].number > 0 /\ orders[s] \in OrderRow
      BY <1>3, <1>5, <1>12, <2>2
    <3>2. /\ orders[s].account \in Accounts
          /\ orders[s].seen <= lastNumber[orders[s].account]
          /\ \A q \in SeenBy(s, orders[s].account, orders[s].seen) : ~Meets(legs[s], orders[s], q)
      BY <3>1 DEF ChecksHold, BookInv, Numbered
    <3> QED BY <1>1, <1>10, <3>1, <3>2 DEF SeenBy, Standing, Meets
  <2> QED BY <2>1, <2>2
<1>13. \A q \in viable' : orders'[q].number > 0
  BY <1>1, <1>3, <1>4, <1>5 DEF ChecksHold
<1>14. ChecksHold'
  BY <1>9, <1>11, <1>12, <1>13 DEF ChecksHold
<1> QED BY <1>7, <1>14

LEMMA EntryKeepsChecks ==
  ASSUME BookInv, LegsKnown, ChecksHold, NEW r \in Requests, EntryStep(r)
  PROVE  LegsKnown' /\ ChecksHold'
<1>0. /\ UNCHANGED <<instrumentTable, byKey, started>>
      /\ pc \in [Requests -> {"idle", "check", "resolve", "save", "commit", "send", "done"}]
      /\ draft \in [Requests -> OrderRow] /\ DOMAIN form = Requests
      /\ \A q \in viable : orders[q].number > 0
  BY EntryKeepsRegistry DEF BookInv, TypeOK, FormKnown, ChecksHold
<1>1. ASSUME NEW a \in Accounts, NEW x \in ExtIds \cup {r}, NEW f \in Forms, Ask(r, a, x, f)
      PROVE  LegsKnown' /\ ChecksHold'
  <2>1. /\ pc'[r] = "check" /\ \A s \in Requests \ {r} : pc'[s] = pc[s]
        /\ form'[r].legs = f.legs /\ \A s \in Requests \ {r} : form'[s] = form[s]
        /\ started /\ UNCHANGED <<orders, viable, returned, lastNumber, draft, legs>>
    BY <1>0, <1>1 DEF Ask, bookVars
  <2>2. RatiosKnown(f.legs)
    BY EntryAssumption DEF RatiosKnown
  <2>3. \A s \in Requests : pc'[s] \in {"check", "resolve"} => started' /\ RatiosKnown(form'[s].legs)
    BY <1>0, <2>1, <2>2 DEF LegsKnown, RatiosKnown
  <2> QED BY <1>0, <2>1, <2>3, ChecksStay DEF LegsKnown
\* The request ends, fails or is sent.
<1>2. ASSUME NEW at \in {"send", "done"}, pc' = [pc EXCEPT ![r] = at],
             UNCHANGED <<orders, viable, returned, lastNumber, form, draft, legs>>
      PROVE  LegsKnown' /\ ChecksHold'
  <2>1. pc'[r] = at /\ \A s \in Requests \ {r} : pc'[s] = pc[s]
    BY <1>0, <1>2
  <2>2. \A s \in Requests : pc'[s] \in {"check", "resolve"} => started' /\ RatiosKnown(form'[s].legs)
    BY <1>0, <1>2, <2>1 DEF LegsKnown
  <2> QED BY <1>0, <1>2, <2>1, <2>2, ChecksStay
<1>3. CASE Check(r)
  <2>1. CASE ~Passes(form[r])
    BY <1>2, <1>3, <2>1 DEF Check, bookVars
  <2> QED BY <1>3, <2>1, CheckKeepsChecks
<1>4. CASE Resolve(r)
  <2>1. CASE form[r].legs = <<>>
    BY <1>2, <1>4, <2>1 DEF Resolve, bookVars
  <2> QED BY <1>4, <2>1, ResolveKeepsChecks
<1>5. CASE SaveOrder(r)
  <2>1. CASE ~(ExtFree(draft[r]) /\ LegsReferToRows(r))
    BY <1>2, <1>5, <2>1 DEF SaveOrder
  <2>2. CASE ExtFree(draft[r]) /\ LegsReferToRows(r)
    <3>1. /\ pc' = [pc EXCEPT ![r] = "commit"] /\ pc[r] = "save"
          /\ draft' = [draft EXCEPT ![r].number = lastNumber[draft[r].account] + 1]
          /\ UNCHANGED <<orders, viable, returned, lastNumber, form, legs>>
      BY <1>5, <2>2 DEF SaveOrder
    <3>2. /\ pc'[r] = "commit" /\ \A s \in Requests \ {r} : pc'[s] = pc[s]
          /\ \A s \in Requests \ {r} : draft'[s] = draft[s]
          /\ draft'[r].account = draft[r].account /\ draft'[r].seen = draft[r].seen
          /\ draft'[r].quantity = draft[r].quantity /\ draft'[r].price = draft[r].price
      BY <1>0, <3>1 DEF OrderRow
    <3>3. \A s \in Requests : pc'[s] \in {"check", "resolve"} => started' /\ RatiosKnown(form'[s].legs)
      BY <1>0, <3>1, <3>2 DEF LegsKnown
    <3>4. \A n \in DOMAIN legs[r] : legs[r][n].id \in DOMAIN instrumentTable
      BY <2>2 DEF LegsReferToRows
    <3> QED BY <1>0, <3>1, <3>2, <3>3, <3>4, ChecksStay
  <2> QED BY <2>1, <2>2
<1>6. CASE CommitOrder(r)
  <2>1. pc[r] = "commit" /\ \E at \in {"send", "done"} : Commits(r, at)
    BY <1>6 DEF CommitOrder
  <2> QED BY <1>0, <2>1, CommitKeepsChecks
<1>7. CASE Send(r)
  BY <1>2, <1>7 DEF Send, memVars
<1>8. CASE OrderEnds(r)
  <2>1. viable' \subseteq viable /\ UNCHANGED <<orders, returned, lastNumber, pc, form, draft, legs>>
    BY <1>8 DEF OrderEnds, memVars
  <2> QED BY <1>0, <2>1, ChecksStay DEF LegsKnown
\* Whoever has been checked does not count the order that comes back.
<1>10. CASE OrderReturns(r)
  <2>1. /\ r \in sent /\ viable' = viable \cup {r}
        /\ returned' = returned \cup ({r} \X {s \in Requests : Checked(s)})
        /\ UNCHANGED <<orders, lastNumber, pc, form, draft, legs>>
    BY <1>10 DEF OrderReturns, memVars
  <2>2. \A q \in viable' : orders[q].number > 0
    BY <1>0, <2>1 DEF BookInv, SentAfterCommit
  <2>3. \A s \in Requests : pc'[s] \in {"resolve", "save", "commit"} \/ orders[s].number > 0 => Checked(s)
    BY <1>0, <2>1 DEF Checked, BookInv, NotYet, Unsaved
  <2>4. \A s \in Requests : pc'[s] \in {"resolve", "save", "commit"} \/ orders[s].number > 0 =>
          \A q \in viable' : <<q, s>> \notin returned' => q \in viable /\ <<q, s>> \notin returned
    BY <2>1, <2>3
  <2> QED BY <1>0, <2>1, <2>2, <2>4, ChecksStay DEF LegsKnown
<1>9. CASE EntryFailure(r)
  <2>1. CASE pc[r] = "commit" /\ Commits(r, "done")
    BY <1>0, <2>1, CommitKeepsChecks
  <2>2. CASE Drop(r, "done") /\ UNCHANGED <<orders, viable, returned, lastNumber, sent, memVars>>
    BY <1>2, <2>2 DEF Drop, memVars
  <2> QED BY <1>9, <2>1, <2>2 DEF EntryFailure
<1> QED BY <1>1, <1>3, <1>4, <1>5, <1>6, <1>7, <1>8, <1>9, <1>10 DEF EntryStep

LEMMA ChecksInductive ==
  InstrumentsInv /\ BookInv /\ LegsKnown /\ ChecksHold /\ [Next]_vars => LegsKnown' /\ ChecksHold'
<1> SUFFICES ASSUME InstrumentsInv, BookInv, LegsKnown, ChecksHold, [Next]_vars
             PROVE  LegsKnown' /\ ChecksHold'
  OBVIOUS
<1>1. UNCHANGED vars => UNCHANGED entryVars
  BY DEF vars
<1>2. Crash \/ UNCHANGED entryVars \/ \E r \in Requests : EntryStep(r)
  BY <1>1 DEF Next
<1> QED BY <1>2, RegistryKeepsChecks, EntryKeepsChecks

--------------------------------------------------------------------------------
(* What is established of the registry and of the check *)

\* The tables, the open transactions and the memory of the registry agree, for
\* any number of administrators' requests in any interleaving, and any failures
\* and restarts.
THEOREM RegistryInvariant == Spec => [](InstrumentsInv /\ CodesAreOne)
<1>1. Init => InstrumentsInv /\ CodesAreOne
  BY InitInstruments, InitCodes
<1>2. InstrumentsInv /\ CodesAreOne /\ [Next]_vars => InstrumentsInv' /\ CodesAreOne'
  BY InstrumentsInductive, CodesInductive
<1> QED BY <1>1, <1>2, PTL DEF Spec

\* load_exchange_instruments: as long as no administrator's transaction has
\* failed, memory and table list the same instruments in the same state.
THEOREM MemoryFollowsTable == Spec => []MemoryIsTable
<1>1. InstrumentsInv => MemoryIsTable
  BY DEF InstrumentsInv, RowsInMemory, StatusKnown, RowIds, MemoryIsTable
<1> QED BY <1>1, RegistryInvariant, PTL

\* save_instrument and add_instrument: a key in the table leads to its row, before
\* and after a restart.
THEOREM KeysAreFound == Spec => []TableKeysKnown
<1>1. InstrumentsInv => TableKeysKnown
  BY DEF InstrumentsInv, KeysKnown, RowsAreOne, RowIds, TableKeysKnown
<1> QED BY <1>1, RegistryInvariant, PTL

\* The id an exchange gives an instrument leads to its row in the table, as long as
\* no other exchange uses it.
THEOREM XidsAreFound == Spec => []FoundByExchangeId
<1>1. InstrumentsInv => FoundByExchangeId
  <2> SUFFICES ASSUME InstrumentsInv, started, NEW i \in DOMAIN instrumentTable,
                      \A j \in DOMAIN byId : byId[j].xid = instrumentTable[i].xid =>
                        byId[j].exchange = instrumentTable[i].exchange
               PROVE  instrumentTable[i].xid \in DOMAIN byXid /\ byXid[instrumentTable[i].xid].id = i
    BY DEF FoundByExchangeId
  <2> DEFINE x == instrumentTable[i].xid
  <2>1. Leads(instrumentTable[i], i)
    BY DEF InstrumentsInv, XidsLead
  <2>2. x \in DOMAIN byXid
    BY <2>1 DEF Leads
  <2>3. byXid[x].exchange = instrumentTable[i].exchange
    BY <2>2 DEF InstrumentsInv, XidsLead, SameInstrument
  <2> QED BY <2>1, <2>2, <2>3 DEF Leads
<1> QED BY <1>1, RegistryInvariant, PTL

\* create_exchange: an exchange has one holder, and so one pair of websockets, as
\* long as no administrator's transaction has failed.
THEOREM OneFeed == Spec => []OneFeedPerExchange
<1>1. CodesAreOne => OneFeedPerExchange
  <2> SUFFICES ASSUME CodesAreOne, clean, NEW g \in holders, NEW h \in holders, g.code = h.code
               PROVE  g = h
    BY DEF OneFeedPerExchange
  <2>1. \A k \in holders : k \in exchangeTable \/
          \E u \in Creates : Creating(u) /\ admin[u].exchange = k /\ ~CodeTaken(k.code)
    BY DEF CodesAreOne, Creating
  <2>2. CASE g \in exchangeTable \/ h \in exchangeTable
    BY <2>1, <2>2 DEF CodesAreOne, CodeTaken
  <2>3. CASE ~(g \in exchangeTable \/ h \in exchangeTable)
    BY <2>1, <2>3 DEF CodesAreOne
  <2> QED BY <2>2, <2>3
<1> QED BY <1>1, RegistryInvariant, PTL

\* The orders in the tables name rows of the table instrument, and none of them
\* would trade with an order its check has seen and that is still viable; unless
\* that one had ended by the check and has come back since.
THEOREM CheckInvariant == Spec => [](LegsKnown /\ ChecksHold)
<1>1. Init => LegsKnown /\ ChecksHold
  BY InitChecks
<1> QED BY <1>1, ChecksInductive, RegistryInvariant, BookHolds, PTL DEF Spec

\* get_orders finds every instrument of every order in memory, whichever loads
\* have failed and after every restart.
THEOREM OrdersAreReadable == Spec => []OrdersSurviveRestart
<1>1. InstrumentsInv /\ LegsKnown => OrdersSurviveRestart
  BY DEF InstrumentsInv, RowsInMemory, LegsKnown, OrdersSurviveRestart
<1> QED BY <1>1, RegistryInvariant, CheckInvariant, PTL

LEMMA OppositeSigns ==
  ASSUME NEW p \in Int, NEW q \in Int, q * p < 0
  PROVE  (q > 0 /\ p < 0) \/ (q < 0 /\ p > 0)
<1>1. CASE q = 0 \/ p = 0
  BY <1>1
<1>2. CASE q > 0 /\ p > 0
  BY <1>2
<1>3. CASE q < 0 /\ p < 0
  BY <1>3
<1> QED BY <1>1, <1>2, <1>3

\* An account has two orders that trade with each other only when the second was
\* checked before the first was committed, or when the first had ended by then and
\* came back to life afterwards (order_state_handling.rs: a tie of update times).
THEOREM SelfTradeNeedsRace == Spec => []SelfTradeOnlyWhenRacing
<1>1. BookInv /\ LegsKnown /\ ChecksHold => SelfTradeOnlyWhenRacing
  <2> SUFFICES ASSUME BookInv, LegsKnown, ChecksHold, NEW r \in viable, NEW s \in viable,
                      orders[r].account = orders[s].account, orders[r].number < orders[s].number,
                      TradesWith(s, r), <<r, s>> \notin returned, ~(orders[s].seen < orders[r].number)
               PROVE  FALSE
    BY DEF SelfTradeOnlyWhenRacing
  <2>1. /\ r \in Requests /\ s \in Requests /\ orders[r] \in OrderRow /\ orders[s] \in OrderRow
        /\ orders[r].number > 0 /\ orders[s].number > 0
    BY DEF BookInv, TypeOK, ChecksHold
  <2>2. r \in SeenBy(s, orders[s].account, orders[s].seen)
    BY <2>1 DEF SeenBy, Standing, OrderRow
  <2>3. ~Meets(legs[s], orders[s], r)
    BY <2>1, <2>2 DEF ChecksHold
  <2>4. PICK n \in DOMAIN legs[s], m \in DOMAIN legs[r] :
          LET q == orders[s].quantity * legs[s][n].ratio
              p == orders[r].quantity * legs[r][m].ratio IN
          /\ legs[s][n].id = legs[r][m].id
          /\ q * p < 0
          /\ (q > 0 /\ orders[s].price >= orders[r].price) \/ (p > 0 /\ orders[r].price >= orders[s].price)
    BY DEF TradesWith
  <2> DEFINE q == orders[s].quantity * legs[s][n].ratio
             p == orders[r].quantity * legs[r][m].ratio
  <2>5. /\ legs[s][n].ratio \in Int /\ legs[r][m].ratio \in Int
        /\ orders[s].quantity \in Int /\ orders[r].quantity \in Int
        /\ orders[s].price \in Int /\ orders[r].price \in Int
    BY <2>1 DEF LegsKnown, RatiosKnown, OrderRow
  <2>6. q \in Int /\ p \in Int
    BY <2>5
  <2>7. /\ legs[s][n].id = legs[r][m].id /\ q * p < 0
        /\ (q > 0 /\ orders[s].price >= orders[r].price) \/ (p > 0 /\ orders[r].price >= orders[s].price)
    BY <2>4
  <2>8. ~PricesCross(q, orders[s].price, p, orders[r].price)
    BY <2>3, <2>7 DEF Meets
  <2> HIDE DEF q, p
  <2>9. (q > 0 /\ p < 0) \/ (q < 0 /\ p > 0)
    BY <2>6, <2>7, OppositeSigns
  <2> QED BY <2>5, <2>6, <2>7, <2>8, <2>9 DEF PricesCross
<1> QED BY <1>1, BookHolds, CheckInvariant, PTL
================================================================================
