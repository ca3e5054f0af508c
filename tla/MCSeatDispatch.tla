--------------------------- MODULE MCSeatDispatch ---------------------------
(* A model-checking instance of SeatDispatch: a default selection and an    *)
(* explicit pin of its alternate provider.  The two threads share one cache *)
(* key and a single concurrency slot.                                       *)
EXTENDS SeatDispatch

CONSTANTS glm, glmPin       \* seats
CONSTANTS zai, oc           \* providers
CONSTANTS kGlm              \* cache key

MCSeats == {glm, glmPin}
MCProviders == {zai, oc}
MCKeys == {kGlm}
MCKey == [s \in MCSeats |-> kGlm]
MCBaseChain == [s \in MCSeats |-> IF s = glmPin THEN <<oc, zai>> ELSE <<zai, oc>>]
MCDefaultSelection == {glm}
MCStreamed == {oc}
=============================================================================
