-------------------------- MODULE CooldownContract ---------------------------
(***************************************************************************)
(* What the store of cooldowns promises (seat_cooldown.py): a failure or a *)
(* success changes one entry, in one step, from what the store holds then. *)
(* A cooldown grows only by a failure soon after the last one, one length  *)
(* at a time.  The file, its readers and its two locks are left to         *)
(* SeatCooldown.                                                           *)
(***************************************************************************)
EXTENDS Integers

CONSTANTS Keys,         \* <<model, access method>>
          Lengths,      \* how long a cooldown can last
          Longest,      \* how many failures in a row are told apart, at least 1
          ResetAfter    \* a failure this long after the last one is a first one again

VARIABLE store          \* the entry of each key

None == [until |-> 0, at |-> 0, count |-> 0]

Init == store = [k \in Keys |-> None]

\* The entry a failure leaves where there was another.
Follows(prior, entry) ==
    /\ entry.until - entry.at \in Lengths
    /\ \/ entry.count = 1
       \/ /\ prior # None /\ entry.at - prior.at \in 0..ResetAfter
          /\ entry.count = IF prior.count < Longest THEN prior.count + 1 ELSE Longest

Record(k) ==
    /\ Follows(store[k], store'[k])
    /\ store' = [store EXCEPT ![k] = store'[k]]

Clear(k) == store' = [store EXCEPT ![k] = None]

Next == \E k \in Keys : Record(k) \/ Clear(k)

Spec == Init /\ [][Next]_store
=============================================================================
