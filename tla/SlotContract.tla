---------------------------- MODULE SlotContract ----------------------------
(***************************************************************************)
(* What the process-wide cap on backend children promises (process.py, the *)
(* spawn semaphore): a call takes a slot before its child is started, only *)
(* while one is left, gives back the slot it took and no other, and never  *)
(* takes a second one.  How calls wait, fail and are reaped is left to     *)
(* BackendRunner; which provider a seat calls, and when, to SeatDispatch.  *)
(***************************************************************************)
EXTENDS Integers, FiniteSets

CONSTANTS Users,    \* who may ask for a slot, a finite set
          Limit     \* $REVIEW_MAX_CONCURRENCY, a natural number; 0 for no cap

VARIABLE holders    \* who has a slot

Init == holders = {}

Acquire(u) ==
    /\ u \notin holders
    /\ Limit # 0 => Cardinality(holders) < Limit
    /\ holders' = holders \cup {u}

Release(u) ==
    /\ u \in holders
    /\ holders' = holders \ {u}

Next == \E u \in Users : Acquire(u) \/ Release(u)

Spec == Init /\ [][Next]_holders
=============================================================================
