---------------------------- MODULE BoardContract ----------------------------
(***************************************************************************)
(* What panel.run_board_with_failover promises its caller, without the     *)
(* rounds, threads and retries that deliver it: the board keeps Target     *)
(* seats outstanding, every failed seat is replaced while the reserve      *)
(* lasts, and the run is reported degraded exactly when verdicts are       *)
(* missing at the end.                                                     *)
(***************************************************************************)
EXTENDS Integers

CONSTANTS Target,       \* len(pool), a natural number
          Reserve       \* len(reserve), a natural number

VARIABLES answered,     \* usable verdicts
          outstanding,  \* seats still owed a verdict
          reserveLeft,  \* reserve reviewers not promoted yet
          outcome       \* "running", or how the run ended

vars == <<answered, outstanding, reserveLeft, outcome>>

Init ==
    /\ answered = 0
    /\ outstanding = Target
    /\ reserveLeft = Reserve
    /\ outcome = "running"

\* A seat produces a usable verdict.
Answer ==
    /\ outstanding > 0
    /\ answered' = answered + 1
    /\ outstanding' = outstanding - 1
    /\ UNCHANGED <<reserveLeft, outcome>>

\* A seat fails and the next reserve reviewer takes its place.
Replace ==
    /\ outstanding > 0
    /\ reserveLeft > 0
    /\ reserveLeft' = reserveLeft - 1
    /\ UNCHANGED <<answered, outstanding, outcome>>

\* A seat fails with no reserve left.
Lose ==
    /\ outstanding > 0
    /\ reserveLeft = 0
    /\ outstanding' = outstanding - 1
    /\ UNCHANGED <<answered, reserveLeft, outcome>>

Conclude ==
    /\ outstanding = 0
    /\ outcome' = IF answered < Target THEN "degraded" ELSE "full"
    /\ UNCHANGED <<answered, outstanding, reserveLeft>>

\* The calling thread is interrupted: the run ends without an outcome.
Raise ==
    /\ outcome' = "raised"
    /\ UNCHANGED <<answered, outstanding, reserveLeft>>

Next ==
    /\ outcome = "running"
    /\ Answer \/ Replace \/ Lose \/ Conclude \/ Raise

Spec == Init /\ [][Next]_vars /\ WF_vars(Next)
=============================================================================
