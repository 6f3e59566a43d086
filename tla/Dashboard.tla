-------------------------------- MODULE Dashboard --------------------------------
(***************************************************************************)
(* The dashboard of the React frontend (frontend/src/pages/DashboardPage.tsx), *)
(* with the session of context/AuthContext.tsx and services/api.ts: which     *)
(* account is selected, whose data is shown, and the calls on their way.      *)
(*                                                                          *)
(* Data is the account it belongs to.  A call keeps the account that was      *)
(* selected when it was made; calls return in any order.                     *)
(***************************************************************************)
EXTENDS Integers

CONSTANTS
  Accounts,
  NoAccount,       \* selectedAccountKey: '', not one of Accounts
  MaxCalls         \* bound: calls of a kind for an account on their way

Parts == {"positions", "orders", "balance"}
Loads == {"load", "submitted"}       \* loadAccountData; awaited by handlePlaceOrder
Rest == Loads \cup {"initial", "submit", "cancel"}
Gets == Parts                         \* sendRequest, on the websocket
Calls == (Rest \cup Gets) \X (Accounts \cup {NoAccount})

VARIABLES
  user,            \* whether somebody is logged in: then the dashboard is mounted
  connected,       \* of wsClient
  accounts,        \* the accounts listed
  selected,        \* selectedAccountKey
  shown,           \* shown[p]: the accounts whose data part p shows
  loading,
  error,           \* whether an error is shown
  calls            \* calls[c]: how many are on their way

vars == <<user, connected, accounts, selected, shown, loading, error, calls>>

Main == user /\ (accounts # {} \/ error)      \* neither the spinner nor "No Accounts"
Placing == \E a \in Accounts : calls[<<"submit", a>>] + calls[<<"submitted", a>>] > 0

--------------------------------------------------------------------------------
(* Calls and selections *)

\* Of the calls on their way those in done have returned, those in new are made.
Passed(done, new) ==
  [c \in Calls |-> calls[c] - (IF c \in done THEN 1 ELSE 0) + (IF c \in new THEN 1 ELSE 0)]
Call(done, new) ==
  /\ \A c \in done : calls[c] > 0
  /\ \A c \in new \ done : calls[c] < MaxCalls
  /\ calls' = Passed(done, new)

\* Effects of a selection: subscribe, ask for snapshots, loadAccountData.  The old
\* account's callback is gone: see MessageArrives.
Effects(s) ==
  IF s = selected \/ s = NoAccount THEN {}
  ELSE {<<"load", s>>} \cup IF connected THEN Gets \X {s} ELSE {}

\* Without accounts and selection, one is taken from the positions and orders shown,
\* if those that are listed have any.
Choices(as, s, sh) ==
  IF as = {} /\ s = NoAccount THEN {s} \cup sh["positions"] \cup sh["orders"] ELSE {s}

\* The page with these accounts, this selection and these data shown.
Render(as, s, sh, done, new) ==
  /\ accounts' = as /\ shown' = sh
  /\ \E choice \in Choices(as, s, sh) :
       /\ selected' = choice
       /\ Call(done, new \cup Effects(choice))

--------------------------------------------------------------------------------
(* The session *)

\* A new dashboard, whose timer calls loadData, or the login page.
Fresh(u) ==
  /\ user' = u /\ connected' = FALSE
  /\ accounts' = {} /\ selected' = NoAccount
  /\ shown' = [p \in Parts |-> {}]
  /\ loading' = TRUE /\ error' = FALSE
  /\ calls' = [c \in Calls |-> IF u /\ c = <<"initial", NoAccount>> THEN 1 ELSE 0]

\* login and register store the token; checkAuth finds it when the page is loaded
\* again; logout drops it.
Login == ~user /\ Fresh(TRUE)
Reload == user /\ Fresh(TRUE)
Logout == Main /\ Fresh(FALSE)

\* A call is answered 401: the interceptor drops the token and loads the login page.
Expired ==
  /\ \E c \in Calls : c[1] \in Rest /\ calls[c] > 0
  /\ Fresh(FALSE)

\* The websocket is answered CONNECTED, or closes with the requests on their way.
Connected ==
  /\ user /\ ~connected /\ connected' = TRUE
  /\ UNCHANGED <<user, accounts, selected, shown, loading, error, calls>>
Closed ==
  /\ connected /\ connected' = FALSE
  /\ calls' = [c \in Calls |-> IF c[1] \in Gets THEN 0 ELSE calls[c]]
  /\ UNCHANGED <<user, accounts, selected, shown, loading, error>>

--------------------------------------------------------------------------------
(* The initial load *)

\* Retry, or Refresh on the page without accounts.
LoadData ==
  /\ user
  /\ error \/ (~loading /\ accounts = {})
  /\ loading' = TRUE /\ error' = FALSE
  /\ Call({}, {<<"initial", selected>>})
  /\ UNCHANGED <<user, connected, accounts, selected, shown>>

\* loadData returns; getAccounts answers {} when it fails.  An account is selected
\* if none was when it was called.
DataLoaded(s) ==
  /\ \/ \E first \in Accounts :
          /\ Render(Accounts, IF s = NoAccount THEN first ELSE selected, shown, {<<"initial", s>>}, {})
          /\ UNCHANGED error
     \/ Render({}, selected, shown, {<<"initial", s>>}, {}) /\ error' \in {error, TRUE}
  /\ loading' = FALSE
  /\ UNCHANGED <<user, connected>>

DataFails(s) ==
  /\ Call({<<"initial", s>>}, {})
  /\ loading' = FALSE /\ error' = TRUE
  /\ UNCHANGED <<user, connected, accounts, selected, shown>>

--------------------------------------------------------------------------------
(* An account's data *)

Select(s) ==
  /\ Main /\ s \in accounts \cup {NoAccount} /\ s # selected
  /\ Render(accounts, s, shown, {}, {})
  /\ UNCHANGED <<user, connected, loading, error>>

\* loadAccountData returns: all three parts are set, some of them empty.
AccountLoaded(k, a) ==
  /\ \E some \in SUBSET Parts :
       Render(accounts, selected, [p \in Parts |-> IF p \in some THEN {a} ELSE {}], {<<k, a>>}, {})
  /\ UNCHANGED <<user, connected, loading, error>>

AccountFails(k, a) ==
  /\ Call({<<k, a>>}, {})
  /\ error' = TRUE
  /\ UNCHANGED <<user, connected, accounts, selected, shown, loading>>

\* The snapshots of a part arrive, if there are any, for the callback of the
\* selected account: a balance is set, orders are added, positions replace those in
\* the same instrument or make loadAccountData run.
MessageArrives(p, a) ==
  /\ \/ /\ p = "balance" /\ a = selected
        /\ Render(accounts, selected, [shown EXCEPT ![p] = {a}], {<<p, a>>}, {})
     \/ /\ a = selected /\ (p = "orders" \/ (p = "positions" /\ shown[p] # {}))
        /\ Render(accounts, selected, [shown EXCEPT ![p] = @ \cup {a}], {<<p, a>>}, {})
     \/ /\ p = "positions" /\ a = selected /\ shown[p] # {}
        /\ Render(accounts, selected, [shown EXCEPT ![p] = {a}], {<<p, a>>}, {})
     \/ /\ p = "positions" /\ a = selected
        /\ Render(accounts, selected, shown, {<<p, a>>}, {<<"load", a>>})
     \/ Render(accounts, selected, shown, {<<p, a>>}, {})
  /\ UNCHANGED <<user, connected, loading, error>>

\* handlePlaceOrder and handleCancelOrder: the call, then loadAccountData of the same
\* account, or an alert.
Place ==
  /\ Main /\ selected # NoAccount /\ ~Placing
  /\ Call({}, {<<"submit", selected>>})
  /\ UNCHANGED <<user, connected, accounts, selected, shown, loading, error>>

Cancel ==
  /\ Main /\ selected # NoAccount /\ shown["orders"] # {}
  /\ Call({}, {<<"cancel", selected>>})
  /\ UNCHANGED <<user, connected, accounts, selected, shown, loading, error>>

Answered(a) ==
  /\ \/ Call({<<"submit", a>>}, {<<"submitted", a>>})
     \/ Call({<<"cancel", a>>}, {<<"load", a>>})
     \/ \E k \in {"submit", "cancel"} : Call({<<k, a>>}, {})
  /\ UNCHANGED <<user, connected, accounts, selected, shown, loading, error>>

--------------------------------------------------------------------------------

Init ==
  /\ user = FALSE /\ connected = FALSE
  /\ accounts = {} /\ selected = NoAccount
  /\ shown = [p \in Parts |-> {}]
  /\ loading = TRUE /\ error = FALSE
  /\ calls = [c \in Calls |-> 0]

Next ==
  \/ Login \/ Reload \/ Logout \/ Expired \/ Connected \/ Closed
  \/ LoadData
  \/ \E s \in Accounts \cup {NoAccount} : DataLoaded(s) \/ DataFails(s) \/ Select(s)
  \/ \E a \in Accounts :
       \/ \E k \in Loads : AccountLoaded(k, a) \/ AccountFails(k, a)
       \/ \E p \in Parts : MessageArrives(p, a)
       \/ Answered(a)
  \/ Place \/ Cancel

Spec == Init /\ [][Next]_vars

--------------------------------------------------------------------------------
(* Properties *)

\* "Load data when account changes": with an account selected, no call on its way
\* and no error shown, positions, orders and balance are those of that account.
\* The trader acts on them, and Cancel goes to the account selected.
ShowsSelected ==
  (user /\ selected # NoAccount /\ ~error /\ \A c \in Calls : calls[c] = 0)
    => \A p \in Parts : shown[p] \subseteq {selected}

================================================================================
