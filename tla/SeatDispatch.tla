---------------------------- MODULE SeatDispatch ----------------------------
(***************************************************************************)
(* One parallel round of panel seats (panel.run_panel_with_retry).  Every  *)
(* seat runs on its own pool thread: it builds the provider chain of its   *)
(* model, retries the SAME provider while the failure is transient         *)
(* (retry.run_seat_with_retry), switches to the next provider when that is *)
(* given up, and at the end trains or clears the last-working provider     *)
(* cache the threads share (provider_failover).  Calls of providers that   *)
(* run as child processes share the process-wide concurrency cap.          *)
(*                                                                         *)
(* Time is abstracted: a backoff sleep is part of phase "queued", and the  *)
(* wall clock of the retry loop may pass its cap during any call or sleep. *)
(* A seat thread that raises (a closed stderr, a log directory that cannot *)
(* be made) is reported by the pool as exit 127, with providers left.      *)
(***************************************************************************)
EXTENDS Integers, Sequences, FiniteSets

CONSTANTS
    Seats,              \* the seats (jobs) that can be dispatched
    Providers,          \* concrete provider:model ids
    Keys,               \* logical keys of the last-working cache
    Key,                \* Key[s]: the logical key of the seat's model
    BaseChain,          \* BaseChain[s]: requested provider first, then the defaults
    DefaultSelection,   \* the seats whose model is not an explicit alternate pin
    Streamed,           \* providers run by _run_streamed: they take a slot
    RetryBudget,        \* $REVIEW_RETRY_COUNT / --retry
    MaxConcurrency,     \* $REVIEW_MAX_CONCURRENCY; 0 means no cap
    WallCap,            \* whether $REVIEW_RETRY_MAX_SECONDS is positive
    NoProvider

MaxTimeoutRetries == 1

ASSUME SeatsAssumption ==
    /\ IsFiniteSet(Seats)
    /\ DefaultSelection \subseteq Seats
    /\ Key \in [Seats -> Keys]
ASSUME ChainAssumption ==
    /\ \A s \in Seats : BaseChain[s] \in Seq(Providers) /\ Len(BaseChain[s]) > 0
    /\ Streamed \subseteq Providers
    /\ NoProvider \notin Providers
ASSUME BudgetAssumption ==
    /\ RetryBudget \in Nat
    /\ MaxConcurrency \in Nat
    /\ WallCap \in BOOLEAN

\* What one backend call returns, as far as the retry loop tells results apart:
\* "hollow" is exit 0 without a verdict, "hollow_transient" the same with a
\* throttle on stderr; the others but "usable" exit non-zero.
Outcomes == {"usable", "hollow", "hollow_transient", "fatal", "transient", "timeout"}
ExitsZero == {"usable", "hollow", "hollow_transient"}
\* The pool's own result for a thread that raised is not the result of a call.
Results == Outcomes \cup {"none", "crash"}
result_is_usable(o) == o = "usable"
Retryable == {"hollow_transient", "transient", "timeout"}

VARIABLES
    phase,      \* where the seat's thread is
    chain,      \* the set of providers the seat may use, as probed at its start
    tried,      \* the providers it has turned to, the current one included
    provider,   \* the provider it is using now
    calls,      \* calls made to the current provider
    timeouts,   \* timeout_retries: timeouts of this provider already retried
    late,       \* the clock of this retry loop has passed its cap
    result,     \* the last result
    cache,      \* last-provider.json: key -> provider
    trial,      \* history: the calls the last called provider got, and their hangs
    spent       \* history: the providers nothing was left to try with

loopVars == <<calls, timeouts, late>>
trialVars == <<trial, spent>>
seatVars == <<phase, chain, tried, provider, loopVars, result, trialVars>>
dispatchVars == <<seatVars, cache>>

Phases == {"idle", "started", "queued", "calling", "deciding", "done"}

Init ==
    /\ phase = [s \in Seats |-> "idle"]
    /\ chain = [s \in Seats |-> {}]
    /\ tried = [s \in Seats |-> {}]
    /\ provider = [s \in Seats |-> NoProvider]
    /\ calls = [s \in Seats |-> 0]
    /\ timeouts = [s \in Seats |-> 0]
    /\ late = [s \in Seats |-> FALSE]
    /\ result = [s \in Seats |-> "none"]
    /\ trial = [s \in Seats |-> [of |-> NoProvider, calls |-> 0, hangs |-> 0]]
    /\ spent = [s \in Seats |-> {}]
    /\ cache \in [Keys -> Providers \cup {NoProvider}]

-----------------------------------------------------------------------------
(* The provider chain. *)

InChain(s) == {BaseChain[s][i] : i \in 1..Len(BaseChain[s])}
Requested(s) == BaseChain[s][1]

\* The earliest provider of the seat's base chain among the set P.
Earliest(s, P) ==
    BaseChain[s][CHOOSE i \in 1..Len(BaseChain[s]) :
                    /\ BaseChain[s][i] \in P
                    /\ \A j \in 1..(i - 1) : BaseChain[s][j] \notin P]

\* provider_chain as a set: drop the unpaid providers, then the unreachable ones,
\* and never end with nothing to try.
ProviderChain(s, unpaid, down) ==
    LET paid == IF InChain(s) \subseteq unpaid THEN {Requested(s)} ELSE InChain(s) \ unpaid
    IN  IF paid \subseteq down THEN paid ELSE paid \ down

\* provider_chain moves the cached provider to the front for a default selection.
FirstProvider(s, members) ==
    IF s \in DefaultSelection /\ cache[Key[s]] \in members
    THEN cache[Key[s]]
    ELSE Earliest(s, members)

cache_eligible(s) == Cardinality(chain[s]) > 1 /\ s \in DefaultSelection

-----------------------------------------------------------------------------
(* The seat's thread. *)

Submit(s) ==
    phase' = [phase EXCEPT ![s] = "started"]

\* Mutant: the counters of the retry loop are the seat's, not the provider's.
TurnToKeepingCount(s, p) ==
    /\ provider' = [provider EXCEPT ![s] = p]
    /\ tried' = [tried EXCEPT ![s] = @ \cup {p}]
    /\ late' = [late EXCEPT ![s] = FALSE]
    /\ phase' = [phase EXCEPT ![s] = "queued"]
    /\ UNCHANGED <<calls, timeouts>>

\* Start on provider p with a fresh retry loop.
TurnTo(s, p) ==
    /\ provider' = [provider EXCEPT ![s] = p]
    /\ tried' = [tried EXCEPT ![s] = @ \cup {p}]
    /\ calls' = [calls EXCEPT ![s] = 0]
    /\ timeouts' = [timeouts EXCEPT ![s] = 0]
    /\ late' = [late EXCEPT ![s] = FALSE]
    /\ phase' = [phase EXCEPT ![s] = "queued"]

\* The probes (keys, CLIs, cooldowns) may answer anything when the thread asks.
BuildChain(s) ==
    /\ phase[s] = "started"
    /\ \E unpaid, down \in SUBSET InChain(s) :
          LET members == ProviderChain(s, unpaid, down)
          IN  /\ chain' = [chain EXCEPT ![s] = members]
              /\ TurnTo(s, FirstProvider(s, members))
    /\ UNCHANGED <<result, cache, trialVars>>

\* After a call the thread writes to stderr or to the retry log when it recovered,
\* retries, gives up with budget left, or switches: each of these writes can raise.
Announces(s) ==
    /\ phase[s] = "deciding"
    /\ IF result_is_usable(result[s]) THEN calls[s] > 1
       ELSE calls[s] <= RetryBudget \/ chain[s] \ tried[s] # {}

\* An exception outside the backend call (a probe, a write of the thread's own)
\* ends the seat's thread: the pool reports exit 127, verdict or not.
ThreadFails(s) ==
    /\ phase[s] = "started" \/ Announces(s)
    /\ phase' = [phase EXCEPT ![s] = "done"]
    /\ result' = [result EXCEPT ![s] = "crash"]
    /\ UNCHANGED <<chain, tried, provider, loopVars, cache, trialVars>>

Slots == {s \in Seats : phase[s] = "calling" /\ provider[s] \in Streamed}

StartCall(s) ==
    /\ phase[s] = "queued"
    /\ \/ MaxConcurrency = 0
       \/ provider[s] \notin Streamed
       \/ Cardinality(Slots) < MaxConcurrency
    /\ phase' = [phase EXCEPT ![s] = "calling"]
    /\ calls' = [calls EXCEPT ![s] = @ + 1]
    /\ UNCHANGED <<chain, tried, provider, timeouts, late, result, cache, trialVars>>

\* The calls the seat's provider got and their hangs, this one included.
TrialAfter(s, o) ==
    LET before == IF trial[s].of = provider[s] THEN trial[s]
                  ELSE [of |-> provider[s], calls |-> 0, hangs |-> 0]
    IN  [before EXCEPT !.calls = @ + 1, !.hangs = IF o = "timeout" THEN @ + 1 ELSE @]

\* What the retry loop promises to try before a provider is given up.
NothingLeftToTry(got, o, slow) ==
    \/ o \notin Retryable
    \/ got.calls > RetryBudget
    \/ got.hangs > MaxTimeoutRetries
    \/ slow

\* The loop reads its clock after a failure it could retry.
FinishCall(s, o) ==
    /\ phase[s] = "calling"
    /\ phase' = [phase EXCEPT ![s] = "deciding"]
    /\ result' = [result EXCEPT ![s] = o]
    /\ \E slow \in {late[s], WallCap /\ o \in Retryable} :
          /\ late' = [late EXCEPT ![s] = @ \/ slow]
          /\ spent' = [spent EXCEPT ![s] =
                IF ~result_is_usable(o) /\ NothingLeftToTry(TrialAfter(s, o), o, late[s] \/ slow)
                THEN @ \cup {provider[s]} ELSE @]
    /\ trial' = [trial EXCEPT ![s] = TrialAfter(s, o)]
    /\ UNCHANGED <<chain, tried, provider, calls, timeouts, cache>>

\* remember_working_provider; a failed write of the file is swallowed.
Remember(s) ==
    IF cache_eligible(s)
    THEN cache' \in {cache, [cache EXCEPT ![Key[s]] = provider[s]]}
    ELSE UNCHANGED cache

Forget(s) ==
    IF cache_eligible(s)
    THEN cache' \in {cache, [cache EXCEPT ![Key[s]] = NoProvider]}
    ELSE UNCHANGED cache

AcceptVerdict(s) ==
    /\ phase[s] = "deciding"
    /\ result_is_usable(result[s])
    /\ Remember(s)
    /\ phase' = [phase EXCEPT ![s] = "done"]
    /\ UNCHANGED <<chain, tried, provider, loopVars, result, trialVars>>

HungTooOften(s) == result[s] = "timeout" /\ timeouts[s] >= MaxTimeoutRetries

MayRetry(s) ==
    /\ calls[s] <= RetryBudget
    /\ result[s] \in Retryable
    /\ ~late[s]
    /\ ~HungTooOften(s)

MustGiveUp(s) ==
    \/ calls[s] > RetryBudget
    \/ result[s] \notin Retryable
    \/ HungTooOften(s)
    \/ late[s]

RetrySameProvider(s) ==
    /\ phase[s] = "deciding"
    /\ MayRetry(s)
    /\ ~result_is_usable(result[s])
    /\ phase' = [phase EXCEPT ![s] = "queued"]
    /\ timeouts' = [timeouts EXCEPT ![s] = IF result[s] = "timeout" THEN @ + 1 ELSE @]
    /\ UNCHANGED <<chain, tried, provider, calls, late, result, cache, trialVars>>

\* Mutant: the switch remembers only the provider it leaves, not all it tried.
SwitchToAnother(s) ==
    /\ phase[s] = "deciding"
    /\ ~result_is_usable(result[s])
    /\ MustGiveUp(s)
    /\ chain[s] \ {provider[s]} # {}
    /\ TurnTo(s, Earliest(s, chain[s] \ {provider[s]}))
    /\ UNCHANGED <<chain, result, cache, trialVars>>

SwitchProvider(s) ==
    /\ phase[s] = "deciding"
    /\ ~result_is_usable(result[s])
    /\ MustGiveUp(s)
    /\ chain[s] \ tried[s] # {}
    /\ TurnTo(s, Earliest(s, chain[s] \ tried[s]))
    /\ UNCHANGED <<chain, result, cache, trialVars>>

SeatFails(s) ==
    /\ phase[s] = "deciding"
    /\ ~result_is_usable(result[s])
    /\ MustGiveUp(s)
    /\ chain[s] \subseteq tried[s]
    /\ Forget(s)
    /\ phase' = [phase EXCEPT ![s] = "done"]
    /\ UNCHANGED <<chain, tried, provider, loopVars, result, trialVars>>

\* Every step of the seat's thread but the end of a backend call.
ThreadStep(s) ==
    \/ BuildChain(s) \/ ThreadFails(s) \/ StartCall(s)
    \/ AcceptVerdict(s) \/ RetrySameProvider(s) \/ SwitchProvider(s) \/ SeatFails(s)

Step(s) == ThreadStep(s) \/ \E o \in Outcomes : FinishCall(s, o)

-----------------------------------------------------------------------------
(* A round on its own: the panel submits the seats one after the other. *)

SubmitSeat(s) ==
    /\ phase[s] = "idle"
    /\ Submit(s)
    /\ UNCHANGED <<chain, tried, provider, loopVars, result, cache, trialVars>>

AllDone == \A s \in Seats : phase[s] = "done"
RoundOver == AllDone /\ UNCHANGED dispatchVars

Next == (\E s \in Seats : SubmitSeat(s) \/ Step(s)) \/ RoundOver

Fairness ==
    /\ \A s \in Seats : WF_dispatchVars(SubmitSeat(s))
    /\ \A s \in Seats : WF_dispatchVars(Step(s))

Spec == Init /\ [][Next]_dispatchVars /\ Fairness

-----------------------------------------------------------------------------
(* Properties. *)

\* Every variable keeps its type: the shape of a seat thread's local state.
TypeOK ==
    /\ phase \in [Seats -> Phases]
    /\ chain \in [Seats -> SUBSET Providers]
    /\ tried \in [Seats -> SUBSET Providers]
    /\ provider \in [Seats -> Providers \cup {NoProvider}]
    /\ calls \in [Seats -> Nat]
    /\ timeouts \in [Seats -> Nat]
    /\ late \in [Seats -> BOOLEAN]
    /\ result \in [Seats -> Results]
    /\ trial \in [Seats -> [of : Providers \cup {NoProvider}, calls : Nat, hangs : Nat]]
    /\ spent \in [Seats -> SUBSET Providers]
    /\ cache \in [Keys -> Providers \cup {NoProvider}]

\* No provider costs a seat more than the retry budget, and one that hung twice
\* is not waited for a third time (the timeout sub-cap of run_seat_with_retry).
RetryBoundHolds ==
    \A s \in Seats :
        /\ trial[s].calls <= RetryBudget + 1
        /\ trial[s].hangs <= MaxTimeoutRetries + 1

\* A seat that ends without a verdict gave every provider of its chain a fair trial:
\* its calls ran into a failure no retry can fix, the whole retry budget, the sub-cap
\* of hangs or the clock of that provider's own retry loop; what an earlier provider
\* cost is not held against a later one. Excepted is a thread that raised.
FailsOnlyAfterFairTrials ==
    \A s \in Seats :
        phase[s] = "done" /\ result[s] \notin {"usable", "crash"}
            => chain[s] # {} /\ chain[s] \subseteq spent[s]

\* The seats that call a provider run as a child process hold the slots of the cap.
SlotsHeld == INSTANCE SlotContract WITH Users <- Seats, Limit <- MaxConcurrency, holders <- Slots

\* Every seat of a round comes back with a result: retries, provider switches and
\* the wait for a slot all end.
EverySeatReturns == \A s \in Seats : <>(phase[s] = "done")
=============================================================================
