-------------------------------- MODULE OrderLog --------------------------------
(***************************************************************************)
(* What the persistence of an order promises: per order an append-only log  *)
(* of states, numbered without gaps from version 0, in which                *)
(*   - "Pending" and the broker's own rejection only ever open the log,     *)
(*   - a cancel request is only recorded on top of a viable state,          *)
(*   - recorded update times never go back when the broker's clock agrees   *)
(*     with the exchange's (Monotone), and                                  *)
(*   - a state that has left the viable set returns to it only by a record  *)
(*     that carries the very same time stamp.                               *)
(* OrderLifecycle implements this module with log <- history.               *)
(***************************************************************************)
EXTENDS Integers, Sequences, OrderStatus

CONSTANTS Orders,    \* the orders that may be entered
          Times,     \* the time stamps a record may carry
          Monotone   \* whether recorded times are promised never to go back

VARIABLE log         \* log[o]: the sequence of states order o has been in

Entry(s, t, v, r) == [status |-> s, time |-> t, version |-> v, reason |-> r]

LastState(o) == log[o][Len(log[o])]

Init == log = [o \in Orders |-> <<>>]

\* An order is entered, as pending or as already rejected.
Create(o) ==
  /\ log[o] = <<>>
  /\ \E s \in {"Pending", "Rejected"}, t \in Times, r \in Reasons :
       log' = [log EXCEPT ![o] = <<Entry(s, t, 0, r)>>]

\* What may follow state e: see the module's comment.
MayFollow(e, s, t) ==
  /\ s # "Pending"
  /\ s = "PendingCancel" => e.status \in Viable
  /\ Monotone => t >= e.time
  /\ Monotone /\ e.status \notin Viable /\ s \in Viable => t = e.time

\* The next state of an order is recorded under the next version.
Advance(o) ==
  /\ log[o] # <<>>
  /\ \E s \in Status, t \in Times, r \in Reasons :
       /\ MayFollow(LastState(o), s, t)
       /\ log' = [log EXCEPT ![o] = Append(@, Entry(s, t, Len(@), r))]

Next == \E o \in Orders : Create(o) \/ Advance(o)

Spec == Init /\ [][Next]_log

================================================================================
