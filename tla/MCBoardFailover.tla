-------------------------- MODULE MCBoardFailover ---------------------------
(* A model-checking instance of BoardFailover: a pool of two and a reserve   *)
(* of two, so that a promoted reviewer may fail and be replaced in its turn. *)
(* Every reviewer has one provider: MCSeatDispatch checks the chains.        *)
EXTENDS BoardFailover

CONSTANTS codex       \* provider
CONSTANTS kCodex      \* cache key

MCSeats == 1..(PoolSize + ReserveSize)
MCProviders == {codex}
MCKeys == {kCodex}
MCKey == [s \in MCSeats |-> kCodex]
MCBaseChain == [s \in MCSeats |-> <<codex>>]
=============================================================================
