---------------------------- MODULE BoardFailover ----------------------------
(***************************************************************************)
(* panel.run_board_with_failover: the calling thread that runs the pool in *)
(* parallel, judges the results in job order, promotes one reserve         *)
(* reviewer per failed seat and runs the promoted ones as the next round,  *)
(* until nothing is left to run.  It owns the run-stats tally and the      *)
(* process-wide board deadline while it runs.  The seats of a round are    *)
(* the threads of SeatDispatch.                                            *)
(*                                                                         *)
(* Reviewers are numbered by priority: 1..PoolSize is the pool and the     *)
(* reserve queue is PoolSize + 1, PoolSize + 2, ...                        *)
(***************************************************************************)
EXTENDS SeatDispatch

CONSTANTS PoolSize, ReserveSize

ASSUME BoardAssumption ==
    /\ PoolSize \in Nat /\ ReserveSize \in Nat
    /\ Seats = 1..(PoolSize + ReserveSize)

VARIABLES
    boardPc,        \* where the calling thread is
    current,        \* the reviewers of this round, in job order
    judged,         \* how many of their results the loop has looked at
    nextRound,      \* the reviewers promoted so far in this round
    promoted,       \* how many reviewers were popped from reserve_queue
    results,        \* the reviewers whose result was collected, in order
    usable,         \* those of them with a usable verdict
    tally,          \* the run-stats counters
    suppress,       \* _suppress_autotally
    boardPrev,      \* prev_suppress of run_board_with_failover
    panelPrev,      \* prev_suppress of run_panel_with_retry
    deadlineArmed   \* a board deadline is set

boardVars == <<boardPc, current, judged, nextRound, promoted, results, usable,
               tally, suppress, boardPrev, panelPrev, deadlineArmed>>
vars == <<dispatchVars, boardVars>>

Target == PoolSize
Rounds == Seq(Seats)

BInit ==
    /\ Init
    /\ boardPc = "start"
    /\ current = << >>
    /\ judged = 0
    /\ nextRound = << >>
    /\ promoted = 0
    /\ results = << >>
    /\ usable = << >>
    /\ tally = [ok |-> 0, fail |-> 0]
    /\ suppress = FALSE
    /\ boardPrev = FALSE
    /\ panelPrev = FALSE
    /\ deadlineArmed = FALSE

-----------------------------------------------------------------------------
(* The tally. *)

TallyOk == [tally EXCEPT !.ok = @ + 1]
TallyFail == [tally EXCEPT !.fail = @ + 1]

\* _tally_result of one backend call, by exit code, unless suppressed.
AutoTally(o) ==
    tally' = IF suppress THEN tally
             ELSE IF o \in ExitsZero THEN TallyOk ELSE TallyFail

\* The same for the results of a whole panel that returns to its caller.
PanelTally(prev) ==
    LET zeros == {i \in 1..Len(current) : result[current[i]] \in ExitsZero}
    IN  tally' = IF prev THEN tally
                 ELSE [ok |-> tally.ok + Cardinality(zeros),
                       fail |-> tally.fail + Len(current) - Cardinality(zeros)]

-----------------------------------------------------------------------------
(* The calling thread. *)

\* A deadline is armed when $REVIEW_BOARD_DEADLINE_SECONDS is set.
StartBoard ==
    /\ boardPc = "start"
    /\ deadlineArmed' \in BOOLEAN
    /\ boardPrev' = suppress
    /\ suppress' = TRUE
    /\ current' = [i \in 1..PoolSize |-> i]
    /\ boardPc' = "loop"
    /\ UNCHANGED <<judged, nextRound, promoted, results, usable, tally, panelPrev>>
    /\ UNCHANGED dispatchVars

\* run_panel_with_retry: every job of the round gets its thread.
DispatchRound ==
    /\ boardPc = "loop"
    /\ current # << >>
    /\ panelPrev' = suppress
    /\ suppress' = TRUE
    /\ phase' = [s \in Seats |->
                    IF \E i \in 1..Len(current) : current[i] = s THEN "started" ELSE phase[s]]
    /\ boardPc' = "running"
    /\ UNCHANGED <<chain, tried, provider, loopVars, result, cache, trialVars>>
    /\ UNCHANGED <<current, judged, nextRound, promoted, results, usable, tally, boardPrev,
                   deadlineArmed>>

SeatRuns(s) ==
    /\ ThreadStep(s)
    /\ UNCHANGED boardVars

CallReturns(s, o) ==
    /\ FinishCall(s, o)
    /\ AutoTally(o)
    /\ UNCHANGED <<boardPc, current, judged, nextRound, promoted, results, usable, suppress,
                   boardPrev, panelPrev, deadlineArmed>>

\* Mutant: the panel waits for the reserve too.
EverySeatFinished == \A s \in Seats : phase[s] = "done"

RoundFinished == \A i \in 1..Len(current) : phase[current[i]] = "done"

\* Mutant: the round gives the tally back to nobody in particular.
PanelReturnsUnsuppressed ==
    /\ boardPc = "running"
    /\ RoundFinished
    /\ suppress' = FALSE
    /\ PanelTally(panelPrev)
    /\ judged' = 0
    /\ nextRound' = << >>
    /\ boardPc' = "judging"
    /\ UNCHANGED <<current, promoted, results, usable, boardPrev, panelPrev, deadlineArmed>>
    /\ UNCHANGED dispatchVars

PanelReturns ==
    /\ boardPc = "running"
    /\ RoundFinished
    /\ suppress' = panelPrev
    /\ PanelTally(panelPrev)
    /\ judged' = 0
    /\ nextRound' = << >>
    /\ boardPc' = "judging"
    /\ UNCHANGED <<current, promoted, results, usable, boardPrev, panelPrev, deadlineArmed>>
    /\ UNCHANGED dispatchVars

\* The loop body for the next result of the round, in job order.
Judging == boardPc = "judging" /\ judged < Len(current)
Judged == current[judged + 1]

JudgeUsable ==
    /\ Judging
    /\ result_is_usable(result[Judged])
    /\ usable' = Append(usable, Judged)
    /\ tally' = TallyOk
    /\ results' = Append(results, Judged)
    /\ judged' = judged + 1
    /\ UNCHANGED <<boardPc, current, nextRound, promoted, suppress, boardPrev, panelPrev,
                   deadlineArmed>>
    /\ UNCHANGED dispatchVars

\* Mutant: the last of the reserve is never promoted.
JudgeFailedOffByOne ==
    /\ Judging
    /\ ~result_is_usable(result[Judged])
    /\ tally' = TallyFail
    /\ results' = Append(results, Judged)
    /\ judged' = judged + 1
    /\ IF promoted + 1 < ReserveSize
       THEN /\ promoted' = promoted + 1
            /\ nextRound' = Append(nextRound, PoolSize + promoted + 1)
       ELSE UNCHANGED <<promoted, nextRound>>
    /\ UNCHANGED <<boardPc, current, usable, suppress, boardPrev, panelPrev, deadlineArmed>>
    /\ UNCHANGED dispatchVars

JudgeFailed ==
    /\ Judging
    /\ ~result_is_usable(result[Judged])
    /\ tally' = TallyFail
    /\ results' = Append(results, Judged)
    /\ judged' = judged + 1
    /\ IF promoted < ReserveSize
       THEN /\ promoted' = promoted + 1
            /\ nextRound' = Append(nextRound, PoolSize + promoted + 1)
       ELSE UNCHANGED <<promoted, nextRound>>
    /\ UNCHANGED <<boardPc, current, usable, suppress, boardPrev, panelPrev, deadlineArmed>>
    /\ UNCHANGED dispatchVars

\* Mutant: the round runs the same reviewers again.
NextRoundForgotten ==
    /\ boardPc = "judging"
    /\ judged = Len(current)
    /\ nextRound' = << >>
    /\ judged' = 0
    /\ boardPc' = "loop"
    /\ UNCHANGED <<current, promoted, results, usable, tally, suppress, boardPrev, panelPrev,
                   deadlineArmed>>
    /\ UNCHANGED dispatchVars

NextRound ==
    /\ boardPc = "judging"
    /\ judged = Len(current)
    /\ current' = nextRound
    /\ nextRound' = << >>
    /\ judged' = 0
    /\ boardPc' = "loop"
    /\ UNCHANGED <<promoted, results, usable, tally, suppress, boardPrev, panelPrev,
                   deadlineArmed>>
    /\ UNCHANGED dispatchVars

\* Mutant: the deadline stays armed.
ReleaseTallyOnly ==
    /\ suppress' = boardPrev
    /\ UNCHANGED deadlineArmed

\* The finally clause: hand the tally back and disarm the deadline.
Release ==
    /\ suppress' = boardPrev
    /\ deadlineArmed' = FALSE

ReturnOutcome ==
    /\ boardPc = "loop"
    /\ current = << >>
    /\ Release
    /\ boardPc' = "returned"
    /\ UNCHANGED <<current, judged, nextRound, promoted, results, usable, tally, boardPrev,
                   panelPrev>>
    /\ UNCHANGED dispatchVars

\* An exception (Ctrl-C, a closed stderr) unwinds the calling thread; the thread
\* pool is joined first, so it leaves a round only when its seats are done.
Raise ==
    /\ boardPc \in {"loop", "judging"} \/ (boardPc = "running" /\ RoundFinished)
    /\ Release
    /\ boardPc' = "raised"
    /\ UNCHANGED <<current, judged, nextRound, promoted, results, usable, tally, boardPrev,
                   panelPrev>>
    /\ UNCHANGED dispatchVars

BoardStep ==
    \/ StartBoard \/ DispatchRound \/ PanelReturns \/ JudgeUsable \/ JudgeFailed
    \/ NextRound \/ ReturnOutcome

SeatStep(s) == SeatRuns(s) \/ \E o \in Outcomes : CallReturns(s, o)

Finished == boardPc \in {"returned", "raised"}
Terminated == Finished /\ UNCHANGED vars

BNext ==
    \/ BoardStep
    \/ Raise
    \/ \E s \in Seats : SeatStep(s)
    \/ Terminated

BFairness ==
    /\ WF_vars(BoardStep)
    /\ \A s \in Seats : WF_vars(SeatStep(s))

BSpec == BInit /\ [][BNext]_vars /\ BFairness

-----------------------------------------------------------------------------
(* Properties. *)

degraded == Len(usable) < Target

\* Seats that are still owed a verdict.
Outstanding ==
    IF boardPc = "start" THEN PoolSize ELSE Len(current) - judged + Len(nextRound)

\* The calling thread's state keeps its type.
BTypeOK ==
    /\ boardPc \in {"start", "loop", "running", "judging", "returned", "raised"}
    /\ current \in Rounds /\ nextRound \in Rounds
    /\ results \in Rounds /\ usable \in Rounds
    /\ judged \in 0..Len(current)
    /\ promoted \in 0..ReserveSize
    /\ tally \in [ok : Nat, fail : Nat]
    /\ suppress \in BOOLEAN /\ boardPrev \in BOOLEAN /\ panelPrev \in BOOLEAN
    /\ deadlineArmed \in BOOLEAN

\* While the reserve lasts every failed seat is replaced, so verdicts collected and
\* verdicts still owed add up to the target; they never exceed it, so the board
\* neither gives up early nor runs more reviewers than it was asked for.
EveryFailureIsBackfilled ==
    /\ Len(usable) + Outstanding <= Target
    /\ promoted < ReserveSize => Len(usable) + Outstanding = Target

\* A board is reported degraded only after the whole reserve was used.
DegradedOnlyWhenReserveExhausted ==
    boardPc = "returned" /\ degraded => promoted = ReserveSize

\* Each logical seat is counted exactly once, by its final outcome: the calls that
\* retries and provider switches replaced are never counted, whatever their exit code.
EachSeatTalliedOnce ==
    /\ tally.ok = Len(usable)
    /\ tally.ok + tally.fail = Len(results)

\* However the run ends, a later call of this process is neither tallied by a stale
\* suppression nor clamped to this board's deadline.
NothingLeaks == Finished => ~suppress /\ ~deadlineArmed

\* The board always ends.
BoardTerminates == <>Finished

Outcome ==
    CASE boardPc = "returned" -> IF degraded THEN "degraded" ELSE "full"
      [] boardPc = "raised" -> "raised"
      [] OTHER -> "running"

Contract ==
    INSTANCE BoardContract WITH
        Target <- PoolSize,
        Reserve <- ReserveSize,
        answered <- Len(usable),
        outstanding <- Outstanding,
        reserveLeft <- ReserveSize - promoted,
        outcome <- Outcome

\* The rounds, threads and retries implement the board's contract.
ImplementsContract == Contract!Spec
=============================================================================
