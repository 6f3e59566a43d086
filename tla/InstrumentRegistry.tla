--------------------------- MODULE InstrumentRegistry ---------------------------
(***************************************************************************)
(* The exchanges and instruments the broker knows: the tables exchange and   *)
(* instrument (persistence/exchange.rs) and, in memory, what the             *)
(* InstrumentManager keeps of them (instrument_manager.rs).  An administrator *)
(* creates an exchange and loads its instruments, again and again            *)
(* (admin_api/instrument_admin.rs); both requests enter what they have       *)
(* written into memory before their transaction commits.  At a start the     *)
(* memory is filled from the tables.                                         *)
(*                                                                          *)
(* Who waits for whom in the database: two rows with the same exchange code, *)
(* or the same instrument of an exchange, are written one transaction after  *)
(* the other.                                                               *)
(***************************************************************************)
EXTENDS Integers, FiniteSets

LOCAL INSTANCE Functions

CONSTANTS
  Creates,         \* POST /admin/exchange requests; an exchange's id is the request that inserted it
  Loads,           \* PUT /admin/exchange/{code} requests
  Codes,           \* the exchanges an administrator knows, by their code
  Xids,            \* the ids exchanges give their instruments; two may use the same
  Listings,        \* what an exchange may answer to GET instruments: xid -> status
  InitialExchanges,\* exchanges that are there from the beginning, [id, code]
  None,
  MaxMishaps       \* bound: failing database operations, lost answers, restarts

Admins == Creates \cup Loads
Statuses == {"Active", "Inactive"}

ASSUME RegistryAssumption ==
  /\ Creates \cap Loads = {}
  /\ None \notin Admins
  /\ \A f \in Listings : DOMAIN f \subseteq Xids /\ \A x \in DOMAIN f : f[x] \in Statuses
  /\ \A e, f \in InitialExchanges : e.code = f.code => e = f
  /\ MaxMishaps \in Nat

VARIABLES
  exchangeTable,   \* the committed rows of exchange: [id, code]
  instrumentTable, \* the committed rows of instrument, by instrumentId
  holders,         \* exchanges_holders_by_id: each has a client and running websockets
  byId, byKey, byXid,
                   \* the three maps of instruments in memory
  started,         \* initialize has returned, the HTTP server runs
  admin,           \* admin[t]: the state of request t
  issued,          \* how many keys (uuids) have been generated
  clean,           \* no administrator's transaction has failed since the last start
  mishaps          \* how many failures and restarts are left

tables == <<exchangeTable, instrumentTable>>
memory == <<holders, byId, byKey, byXid>>
registryVars == <<tables, memory, started, admin, issued, clean, mishaps>>

NoMap == [x \in {} |-> None]
Idle == [at |-> "idle", exchange |-> None, todo |-> NoMap, current |-> None, saved |-> NoMap]

\* The request returns; what it has not committed is rolled back.
Return(t, outcome) == admin' = [admin EXCEPT ![t] = [Idle EXCEPT !.at = outcome]]

Fails(t) ==
  /\ Return(t, "failed")
  /\ clean' = FALSE

--------------------------------------------------------------------------------
(* create_exchange *)

InsertedCodes(t) == {admin[u].exchange.code : u \in {u \in Creates \ {t} : admin[u].at \in {"setup", "commit"}}}

CodeNeverTaken(c) == FALSE
CodeTaken(c) == c \in {e.code : e \in exchangeTable}

\* The steps of create_exchange: save_exchange, setup_exchange, commit.
StepAfter(at) ==
  CASE at = "idle" -> "setup" [] at = "setup" -> "commit" [] at = "commit" -> "done"

\* save_exchange waits for the transaction that is inserting the same code, then
\* fails if that has committed: code is UNIQUE.
CreateSave(t, c) ==
  /\ started /\ admin[t].at = "idle"
  /\ c \notin InsertedCodes(t)
  /\ \/ /\ ~CodeTaken(c)
        /\ admin' = [admin EXCEPT ![t].at = StepAfter(@), ![t].exchange = [id |-> t, code |-> c]]
     \/ /\ CodeTaken(c)
        /\ Return(t, "failed")
  /\ UNCHANGED <<tables, memory, started, issued, clean, mishaps>>

\* setup_exchange: the websockets are started and the holder entered.
CreateSetup(t) ==
  /\ admin[t].at = "setup"
  /\ holders' = holders \cup {admin[t].exchange}
  /\ admin' = [admin EXCEPT ![t].at = StepAfter(@)]
  /\ UNCHANGED <<tables, byId, byKey, byXid, started, issued, clean, mishaps>>

CreateCommit(t) ==
  /\ t \in Creates /\ admin[t].at = "commit"
  /\ exchangeTable' = exchangeTable \cup {admin[t].exchange}
  /\ admin' = [admin EXCEPT ![t].at = StepAfter(@)]
  /\ UNCHANGED <<instrumentTable, memory, started, issued, clean, mishaps>>

--------------------------------------------------------------------------------
(* load_exchange_instruments *)

\* get_exchange finds the committed row, and the exchange answers; or one of the
\* two fails and the request returns with nothing done.
LoadFetch(t, c) ==
  /\ started /\ admin[t].at = "idle"
  /\ \/ \E e \in exchangeTable, f \in Listings :
          /\ e.code = c
          /\ admin' = [admin EXCEPT ![t].at = "save", ![t].exchange = e, ![t].todo = f]
     \/ Return(t, "refused")
  /\ UNCHANGED <<tables, memory, started, issued, clean, mishaps>>

\* The open transactions that have written instrument x of exchange e.
Writers(e, x) ==
  {u \in Loads : \E i \in DOMAIN admin[u].saved :
     admin[u].saved[i].exchange = e /\ admin[u].saved[i].xid = x}

RowsOf(e, x) ==
  {i \in DOMAIN instrumentTable : instrumentTable[i].exchange = e /\ instrumentTable[i].xid = x}

\* save_instrument: to_entities_instrument has generated a new key.  INSERT .. ON
\* CONFLICT (exchangeId, exchangeInstrumentId) DO UPDATE leaves the key of a row
\* that exists as it was, and RETURNING gives only its id: the instrument in
\* memory has the table's id and the new key.
LoadSave(t, x) ==
  LET e == admin[t].exchange.id
      new == issued + 1
      status == admin[t].todo[x] IN
  /\ admin[t].at = "save" /\ x \in DOMAIN admin[t].todo
  /\ Writers(e, x) = {}
  /\ \E i \in IF RowsOf(e, x) = {} THEN {new} ELSE RowsOf(e, x) :
       LET key == IF i = new THEN new ELSE instrumentTable[i].key IN
       admin' = [admin EXCEPT
         ![t].at = "add",
         ![t].todo = Restrict(@, DOMAIN @ \ {x}),
         ![t].current = [id |-> i, key |-> new, exchange |-> e, xid |-> x, status |-> status],
         ![t].saved = [j \in DOMAIN @ \cup {i} |->
                         IF j = i THEN [key |-> key, exchange |-> e, xid |-> x, status |-> status]
                         ELSE @[j]]]
  /\ issued' = new
  /\ UNCHANGED <<tables, memory, started, clean, mishaps>>

\* The entry k of a map becomes v; older entries stay.
PutIfAbsent(f, k, v) == [j \in DOMAIN f \cup {k} |-> IF j \in DOMAIN f THEN f[j] ELSE v]
Put(f, k, v) == [j \in DOMAIN f \cup {k} |-> IF j = k THEN v ELSE f[j]]

\* add_instrument: the three maps.
LoadAdd(t) ==
  LET i == admin[t].current IN
  /\ admin[t].at = "add"
  /\ byId' = Put(byId, i.id, i)
  /\ byKey' = Put(byKey, i.key, i)
  /\ byXid' = Put(byXid, i.xid, i)
  /\ admin' = [admin EXCEPT ![t].at = "save"]
  /\ UNCHANGED <<tables, holders, started, issued, clean, mishaps>>

WithInserted(t) ==
  [i \in DOMAIN instrumentTable \cup DOMAIN admin[t].saved |->
     IF i \in DOMAIN instrumentTable THEN instrumentTable[i] ELSE admin[t].saved[i]]
WithSaved(t) ==
  [i \in DOMAIN instrumentTable \cup DOMAIN admin[t].saved |->
     IF i \in DOMAIN admin[t].saved THEN admin[t].saved[i] ELSE instrumentTable[i]]

LoadCommit(t) ==
  /\ admin[t].at = "save" /\ admin[t].todo = NoMap
  /\ instrumentTable' = WithSaved(t)
  /\ Return(t, "done")
  /\ UNCHANGED <<exchangeTable, memory, started, issued, clean, mishaps>>

--------------------------------------------------------------------------------
(* What can go wrong *)

\* Two loads take the instruments of an exchange in different orders (a HashMap)
\* and wait for each other: Postgres makes one of them fail.
WaitsFor(t, u) ==
  /\ admin[t].at = "save"
  /\ \E x \in DOMAIN admin[t].todo : u \in Writers(admin[t].exchange.id, x)

DeadlockVictim(t) ==
  /\ \E u \in Loads \ {t} : WaitsFor(t, u) /\ WaitsFor(u, t)
  /\ Fails(t)
  /\ UNCHANGED <<tables, memory, started, issued, mishaps>>

InTransaction(t) ==
  \/ t \in Creates /\ admin[t].at = "commit"
  \/ t \in Loads /\ admin[t].at = "save"

\* A database operation fails: the transaction is rolled back, the memory is not.
Failure(t) ==
  /\ mishaps > 0
  /\ InTransaction(t)
  /\ mishaps' = mishaps - 1
  /\ Fails(t)
  /\ UNCHANGED <<tables, memory, started, issued>>

\* The database commits but its answer is lost.
LostCommitAnswer(t) ==
  /\ mishaps > 0
  /\ InTransaction(t)
  /\ mishaps' = mishaps - 1
  /\ Return(t, "failed")
  /\ \/ /\ t \in Creates
        /\ exchangeTable' = exchangeTable \cup {admin[t].exchange}
        /\ UNCHANGED instrumentTable
     \/ /\ t \in Loads /\ admin[t].todo = NoMap
        /\ instrumentTable' = WithSaved(t)
        /\ UNCHANGED exchangeTable
  /\ UNCHANGED <<memory, started, issued, clean>>

\* The broker stops and starts again.  load_exchanges comes first: the websockets
\* run before the instruments are there.
Restart ==
  /\ started
  /\ mishaps > 0
  /\ mishaps' = mishaps - 1
  /\ started' = FALSE
  /\ clean' = TRUE
  /\ holders' = exchangeTable
  /\ byId' = NoMap /\ byKey' = NoMap /\ byXid' = NoMap
  /\ admin' = [t \in Admins |-> IF admin[t].at = "idle" THEN Idle ELSE [Idle EXCEPT !.at = "lost"]]
  /\ UNCHANGED <<tables, issued>>

\* load_instruments adds the rows in any order; of two exchanges' instruments
\* with the same xid the last one stays.
ActiveRows == {i \in DOMAIN instrumentTable : instrumentTable[i].status = "Active"}
LoadedRows == DOMAIN instrumentTable

LoadInstruments ==
  LET Loaded(i) == [id |-> i, key |-> instrumentTable[i].key, exchange |-> instrumentTable[i].exchange,
                    xid |-> instrumentTable[i].xid, status |-> instrumentTable[i].status] IN
  /\ ~started
  /\ started' = TRUE
  /\ byId' = [i \in LoadedRows |-> Loaded(i)]
  /\ byKey' = [k \in {instrumentTable[i].key : i \in LoadedRows} |->
                 Loaded(CHOOSE i \in LoadedRows : instrumentTable[i].key = k)]
  /\ \E last \in [{instrumentTable[i].xid : i \in LoadedRows} -> LoadedRows] :
       /\ \A x \in DOMAIN last : instrumentTable[last[x]].xid = x
       /\ byXid' = [x \in DOMAIN last |-> Loaded(last[x])]
  /\ UNCHANGED <<tables, holders, admin, issued, clean, mishaps>>

--------------------------------------------------------------------------------

RegistryInit ==
  /\ exchangeTable = InitialExchanges
  /\ instrumentTable = NoMap
  /\ holders = InitialExchanges
  /\ byId = NoMap /\ byKey = NoMap /\ byXid = NoMap
  /\ started = TRUE
  /\ issued = 0
  /\ clean = TRUE
  /\ mishaps = MaxMishaps

AdminStep ==
  \/ \E t \in Creates, c \in Codes : CreateSave(t, c)
  \/ \E t \in Creates : CreateSetup(t) \/ CreateCommit(t)
  \/ \E t \in Loads, c \in Codes : LoadFetch(t, c)
  \/ \E t \in Loads, x \in Xids : LoadSave(t, x)
  \/ \E t \in Loads : LoadAdd(t) \/ LoadCommit(t) \/ DeadlockVictim(t)
  \/ \E t \in Admins : Failure(t) \/ LostCommitAnswer(t)
  \/ LoadInstruments

--------------------------------------------------------------------------------
(* Properties *)

Saving == UNION {DOMAIN admin[t].saved : t \in Loads}

\* As long as no administrator's transaction has failed since the start, memory
\* and table list the same instruments in the same state, however loads of one
\* exchange interleave (except for the rows a load is writing).
MemoryIsTable ==
  started /\ clean =>
    \A i \in (DOMAIN byId \cup DOMAIN instrumentTable) \ Saving :
      /\ i \in DOMAIN byId /\ i \in DOMAIN instrumentTable
      /\ byId[i].status = instrumentTable[i].status

\* A reload generates a new key and the table keeps the old one: the key in the
\* table is never forgotten, so a client that has it finds the instrument,
\* before and after a restart.
TableKeysKnown ==
  started => \A i \in DOMAIN instrumentTable :
    instrumentTable[i].key \in DOMAIN byKey /\ byKey[instrumentTable[i].key].id = i

\* Executions and market data name an instrument by its exchange's id.  Whatever
\* loads raced or failed, that id leads to the row in the table, as long as only
\* one exchange uses it.
FoundByExchangeId ==
  started => \A i \in DOMAIN instrumentTable :
    LET x == instrumentTable[i].xid IN
    (\A j \in DOMAIN byId : byId[j].xid = x => byId[j].exchange = instrumentTable[i].exchange)
      => x \in DOMAIN byXid /\ byXid[x].id = i

\* Every holder has websockets of its own: two for one exchange would book every
\* execution twice.  It takes a failed transaction to get there.
OneFeedPerExchange ==
  clean => \A g, h \in holders : g.code = h.code => g = h

================================================================================
