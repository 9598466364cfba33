------------------------------- MODULE Callbacks -------------------------------
(***************************************************************************)
(* FixedCapacityCallbacks: the callbacks of a session, by id, and counters *)
(* by id, in maps that hold Capacity entries each (callbacks.rs).  The     *)
(* maps keyexprs and callbacks always have the same ids: they are one here.*)
(* AllocCallbacks is the same without the bound.                           *)
(***************************************************************************)
EXTENDS Naturals, FiniteSets

CONSTANT Capacity

ASSUME CapacityAssumption == Capacity \in Nat

\* A registry: every id with a timeout has a callback, and no map is overfull.
IsRegistry(r) ==
  /\ r \in [ids : SUBSET Nat, timed : SUBSET r.ids, counters : [DOMAIN r.counters -> Nat]]
  /\ IsFiniteSet(r.ids) /\ Cardinality(r.ids) <= Capacity
  /\ DOMAIN r.counters \subseteq Nat
  /\ IsFiniteSet(DOMAIN r.counters) /\ Cardinality(DOMAIN r.counters) <= Capacity

Empty == [ids |-> {}, timed |-> {}, counters |-> [id \in {} |-> 0]]

Without(f, S) == [id \in DOMAIN f \ S |-> f[id]]

\* insert: the first of the maps to be full refuses, before anything has changed.
CanInsert(r, id) == id \notin r.ids \cup r.timed /\ Cardinality(r.ids) < Capacity

Inserted(r, id, timed) ==
  [r EXCEPT !.ids = @ \cup {id}, !.timed = IF timed THEN @ \cup {id} ELSE @]

\* drop_timedout, when the instants of expired have come.
DroppedTimedout(r, expired) ==
  [ids |-> r.ids \ expired, timed |-> r.timed \ expired,
   counters |-> Without(r.counters, expired)]

\* Mutant: the timeout stays behind.
RemovedWithoutTimeout(r, id) ==
  [ids |-> r.ids \ {id}, timed |-> r.timed, counters |-> Without(r.counters, {id})]

Removed(r, id) ==
  [ids |-> r.ids \ {id}, timed |-> r.timed \ {id}, counters |-> Without(r.counters, {id})]

\* Mutant: one place less.
CanCountFewer(r, id) ==
  id \in DOMAIN r.counters \/ Cardinality(DOMAIN r.counters) + 1 < Capacity

\* set_counter, of an id that need not have a callback.
CanCount(r, id) ==
  id \in DOMAIN r.counters \/ Cardinality(DOMAIN r.counters) < Capacity

Counted(r, id, n) ==
  [r EXCEPT !.counters = [x \in DOMAIN @ \cup {id} |-> IF x = id THEN n ELSE @[x]]]

\* decrease, and what it returns.  The counter stays at 0, and a further call
\* returns true again.
Decreased(r, id) ==
  IF id \in DOMAIN r.counters /\ r.counters[id] > 0
    THEN [r EXCEPT !.counters[id] = @ - 1] ELSE r

\* Mutant: the last but one already counts as the last.
ReachesOne(r, id) == id \in DOMAIN r.counters /\ r.counters[id] <= 2

ReachesZero(r, id) == id \in DOMAIN r.counters /\ r.counters[id] <= 1
===============================================================================
