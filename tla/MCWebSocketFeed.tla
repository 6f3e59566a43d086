----------------------------- MODULE MCWebSocketFeed -----------------------------
(* A small instance of WebSocketFeed for TLC. *)
EXTENDS WebSocketFeed

CONSTANTS k1, order, depth

OneClient == {k1}
OneRow == {order}
OneDepth == {depth}

\* What a state's future depends on: entries and snapshots of connections that
\* are gone have no effect any more.
OpenView ==
  <<latest, unsent, announced, phantom, retained, sessionVars, mishaps, view,
    [t \in Topics |-> ClosedDropped(t)], {s \in snapshots : IsOpen(s.conn)}>>

================================================================================
