---------------------------- MODULE CapacityPool ----------------------------
(***************************************************************************)
(* What both limiters of the diagnostics service promise their callers: a  *)
(* pool of Capacity slots.  A holder takes a free slot, keeps it, and      *)
(* gives it back once.  Admission.tla and Exchange.tla implement it.       *)
(***************************************************************************)
EXTENDS Naturals, FiniteSets

CONSTANTS Holders,   \* who may hold a slot
          Capacity   \* number of slots

VARIABLE held        \* the holders that have a slot now

Init == held = {}

Acquire(h) ==
  /\ h \notin held
  /\ Cardinality(held) < Capacity
  /\ held' = held \cup {h}

Release(h) ==
  /\ h \in held
  /\ held' = held \ {h}

Next == \E h \in Holders : Acquire(h) \/ Release(h)

Spec == Init /\ [][Next]_held
=============================================================================
