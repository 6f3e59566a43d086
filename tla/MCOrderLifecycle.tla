--------------------------- MODULE MCOrderLifecycle ---------------------------
(* Instances of OrderLifecycle for TLC. *)
EXTENDS OrderLifecycle, TLC

CONSTANTS o1, c1, c2

\* Cancel requests are interchangeable.
CancelSymmetry == Permutations({c1, c2})

\* A task reads its memory only at these places: elsewhere it is overwritten
\* before it is read again, and two states that differ only there are one.
ReadsMemory == PCs \ {"idle", "start", "locking", "release", "failed", "sleep", "done"}

LiveMemory == [t \in Tasks |-> IF pc[t] \in ReadsMemory THEN mem[t] ELSE NoState]
LiveMessages == [h \in Handlers |-> IF pc[h] = "done" THEN <<>> ELSE <<msg[h], attempts[h]>>]

\* What the behaviour depends on, with and without the record of broadcasts
\* (which no action reads).
BehaviourView ==
  <<dbVars, pc, target, LiveMemory, LiveMessages, mutex, xVars, budget>>
PublishedView == <<BehaviourView, published>>
================================================================================
